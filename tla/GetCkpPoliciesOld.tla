-------------------------- MODULE GetCkpPoliciesOld --------------------------
(***************************************************************************)
(* main() of the oldest exporter, jtacl/tools/checkpoint/                  *)
(* get-ckp-policies.py: a Jobs() run for the "access-layers" query with    *)
(* maxjob 15, then a second Jobs() with an "access-rulebase" query per     *)
(* layer found and the object queries, run with cfg['max_job'].  Nothing   *)
(* is merged: the layers, the objects of each object query (get_jobs_     *)
(* result) and the rules of every "access-rulebase" page, in _done order,  *)
(* are appended to one list ckp_config['uids'], which is printed.  An      *)
(* exception of either run ends the program.                               *)
(***************************************************************************)
EXTENDS Naturals, Sequences, SequencesExt, FiniteSets

CONSTANTS
  LayersQ,       \* the "access-layers" query
  RulebaseQ,     \* layer uid -> its "access-rulebase" query
  ObjectQs,      \* the object queries, in the order main() queues them
  Listing,       \* query -> the items the server lists for it
  NbObjects,     \* query -> page size (hard-coded 50, 100 or 30)
  LayersMaxJob,  \* the maxjob of the layers run (hard-coded 15)
  MaxJob         \* cfg['max_job'], the maxjob of the data run

RulebaseQs == {RulebaseQ[l] : l \in DOMAIN RulebaseQ}
Queries == {LayersQ} \cup RulebaseQs \cup ToSet(ObjectQs)
AllQueries == <<LayersQ>>
                \o [i \in 1 .. Cardinality(RulebaseQs) |->
                      RulebaseQ[SetToSeq(DOMAIN RulebaseQ)[i]]]
                \o ObjectQs

VARIABLES
  step,       \* where main() is
  layers,     \* the local list layers
  uids,       \* ckp_config['uids']
  exported,   \* the JSON document has been printed
  server,     \* query -> number of items the server lists (fixed)
  waiting, running, done, jobnumber, jobs, process, expired, pc, idx, polled

jobvars == <<server, waiting, running, done, jobnumber, jobs, process,
             expired, pc, idx, polled>>
mainvars == <<step, layers, uids, exported>>
vars == <<mainvars, jobvars>>

(* The two schedulers differ only in the maxjob run() is called with.  *)
(* Every job is a MgmtCliJob whose job_done_callback expands the first   *)
(* page of any query, "access-layers" included: every query is Paged.    *)
JL == INSTANCE Jobs WITH Seeds <- AllQueries, MaxJob <- LayersMaxJob,
        Totals <- {Len(Listing[q]) : q \in Queries}, Paged <- Queries
JD == INSTANCE Jobs WITH Seeds <- AllQueries,
        Totals <- {Len(Listing[q]) : q \in Queries}, Paged <- Queries

(* The items of page `it` of query q (ckp_command's limit and offset). *)
Page(q, it) ==
  LET first == JD!Offset(NbObjects[q], it) + 1
      last == first + NbObjects[q] - 1
  IN  SubSeq(Listing[q], first,
             IF last <= Len(Listing[q]) THEN last ELSE Len(Listing[q]))

(* The items of the pages of _done whose query is in Qs, in _done order: *)
(* get_jobs_result for one object query, the loops over _done for the    *)
(* layers and for the "access-rulebase" pages.                           *)
DoneItems(Qs) ==
  LET sel == SelectSeq(done, LAMBDA job : jobs[job].query \in Qs)
  IN  FlattenSeq([i \in DOMAIN sel |->
                    Page(jobs[sel[i]].query, jobs[sel[i]].iteration)])

(* The seeds of the data run: a rulebase query per layer, then the rest. *)
DataSeeds ==
  [i \in 1 .. Len(layers) |-> RulebaseQ[layers[i]]] \o ObjectQs

-----------------------------------------------------------------------------
(* ckp_config = {}; a Jobs() with the "access-layers" query runs. *)
Init ==
  /\ step = "layers"
  /\ layers = <<>>
  /\ uids = <<>>
  /\ exported = FALSE
  /\ server = [q \in Queries |-> Len(Listing[q])]
  /\ JL!InitRun(<<LayersQ>>)

(* A step of the control thread inside the current sshjobs.run(). *)
RunStep ==
  /\ \/ step = "layers" /\ JL!Control
     \/ step = "data" /\ JD!Control
  /\ UNCHANGED mainvars

(* The layers run returned: the layers of its pages, in _done order, *)
(* start ckp_config['uids'].                                         *)
LayersReturn ==
  /\ step = "layers"
  /\ pc = "finished"
  /\ layers' = DoneItems({LayersQ})
  /\ uids' = layers'
  /\ step' = "queue"
  /\ UNCHANGED <<exported, jobvars>>

(* A fresh jobs.Jobs() gets an access-rulebase query per layer, then the *)
(* object queries, and runs.                                              *)
QueueData ==
  /\ step = "queue"
  /\ UNCHANGED <<layers, uids, exported>>
  /\ step' = "data"
  /\ JD!NewRun(DataSeeds)

(* The data run returned: get_jobs_result of each object query in turn,   *)
(* then the rules of every "access-rulebase" page of _done, are appended  *)
(* and the document printed.                                              *)
DataReturn ==
  /\ step = "data"
  /\ pc = "finished"
  /\ uids' = uids
             \o FlattenSeq([i \in DOMAIN ObjectQs |-> DoneItems({ObjectQs[i]})])
             \o DoneItems(RulebaseQs)
  /\ exported' = TRUE
  /\ step' = "exit"
  /\ UNCHANGED <<layers, jobvars>>

(* A run raised: nothing catches it and the program ends. *)
RunRaise ==
  /\ step \in {"layers", "data"}
  /\ pc \in {"timeout", "error"}
  /\ step' = "crashed"
  /\ UNCHANGED <<layers, uids, exported, jobvars>>

(* The program has ended; remote commands it left behind may go on. *)
Ended ==
  /\ step \in {"exit", "crashed"}
  /\ UNCHANGED vars

Main == RunStep \/ LayersReturn \/ QueueData \/ DataReturn \/ RunRaise

Remote ==
  /\ \E job \in DOMAIN process : JD!Finish(job) \/ JD!Fail(job) \/ JD!Expire(job)
  /\ UNCHANGED mainvars

Next == Main \/ Remote \/ Ended

Spec == Init /\ [][Next]_vars /\ WF_vars(Main)
          /\ WF_vars(\E job \in DOMAIN process :
                       JD!Expire(job) /\ UNCHANGED mainvars)

-----------------------------------------------------------------------------
(* The rules of the listed layers, each layer's rulebase in turn. *)
RulesByLayer ==
  LET ls == Listing[LayersQ]
  IN  FlattenSeq([i \in DOMAIN ls |-> Listing[RulebaseQ[ls[i]]]])

(* The layers, then the objects of each object query, as listed. *)
ListedHead ==
  Listing[LayersQ] \o FlattenSeq([i \in DOMAIN ObjectQs |-> Listing[ObjectQs[i]]])

(***************************************************************************)
(* A printed ckp_config['uids'] holds every layer and every object, in     *)
(* the server's order, followed by every rule of every listed layer once,  *)
(* each layer's rules in its policy order, however the pages of the two    *)
(* runs completed: the final sort of _done is all that orders the pages    *)
(* of a rulebase queued by its first page.                                 *)
(***************************************************************************)
ExportIsComplete ==
  exported =>
    LET n == Len(ListedHead)
        rules == SubSeq(uids, n + 1, Len(uids))
    IN  /\ Len(uids) = n + Len(RulesByLayer)
        /\ SubSeq(uids, 1, n) = ListedHead
        /\ \A l \in ToSet(Listing[LayersQ]) :
             SelectSeq(rules, LAMBDA r : r \in ToSet(Listing[RulebaseQ[l]]))
               = Listing[RulebaseQ[l]]

=============================================================================
