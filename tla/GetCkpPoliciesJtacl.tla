------------------------- MODULE GetCkpPoliciesJtacl -------------------------
(***************************************************************************)
(* main() of the older exporter jtacl/tools/checkpoint/get-ckp-policies/   *)
(* get-ckp-policies.py: the same scheduler (module Jobs) run twice, for    *)
(* the "access-layers" query and then for an access-rulebase query per     *)
(* layer found and the object queries, each _done folded by its            *)
(* get_jobs_result into its CkpConfig.  There is no login, no logout, no   *)
(* sort; add_object_dict keeps the first version of a uid, and a group is  *)
(* folded as an object, without its members.  An exception of either run   *)
(* ends the program.                                                       *)
(***************************************************************************)
EXTENDS Naturals, Sequences, SequencesExt, FiniteSets

CONSTANTS
  LayersQ,      \* the "access-layers" query
  RulebaseQ,    \* layer uid -> its "access-rulebase" query
  ObjectQs,     \* the other queries, in the order main() queues them
  Listing,      \* query -> the items the server lists for it
  RuleDict,     \* rule -> the objects-dictionary entries a page of it brings
  NbObjects,    \* query -> page size
  MaxJob        \* cfg['max_job']

RulebaseQs == {RulebaseQ[l] : l \in DOMAIN RulebaseQ}
Queries == {LayersQ} \cup RulebaseQs \cup ToSet(ObjectQs)
AllQueries == <<LayersQ>>
                \o [i \in 1 .. Cardinality(RulebaseQs) |->
                      RulebaseQ[SetToSeq(DOMAIN RulebaseQ)[i]]]
                \o ObjectQs

VARIABLES
  step,            \* where main() is
  objects_dict,    \* ckpconfig.objects_dict
  access_layers,   \* ckpconfig.access_layers
  exported,        \* the JSON document has been printed
  server,          \* query -> number of items the server lists (fixed)
  waiting, running, done, jobnumber, jobs, process, expired, pc, idx, polled

jobvars == <<server, waiting, running, done, jobnumber, jobs, process,
             expired, pc, idx, polled>>
mainvars == <<step, objects_dict, access_layers, exported>>
vars == <<mainvars, jobvars>>

(* The scheduler of both runs.  Every job is a MgmtCliJob with this      *)
(* version's job_done_callback, which expands the first page of any query *)
(* (there is no login job): every query is Paged.                         *)
J == INSTANCE Jobs WITH Seeds <- AllQueries,
       Totals <- {Len(Listing[q]) : q \in Queries}, Paged <- Queries

(* add_access_layer, add_rulebase and find_uid are as in the newer tool. *)
C == INSTANCE CkpConfig WITH Uids <- Nat, LayerUids <- Nat, Rules <- {},
       Sizes <- Nat, MaxList <- 0, MaxPages <- 0, phase <- "data",
       pages <- 0, seen <- {}

(* The output of page `it` of query q (ckp_command's limit and offset). *)
Page(q, it) ==
  LET first == J!Offset(NbObjects[q], it) + 1
      last == first + NbObjects[q] - 1
  IN  SubSeq(Listing[q], first,
             IF last <= Len(Listing[q]) THEN last ELSE Len(Listing[q]))

LayerOf(q) == CHOOSE l \in DOMAIN RulebaseQ : RulebaseQ[l] = q

(* add_object_dict: a uid already in the dictionary is left as it is. *)
AddObjectDict(dict, o) == IF C!FindUid(dict, o.uid) = 0 THEN Append(dict, o)
                          ELSE dict

(* Seeded fault: the objects are appended as they come, as the oldest     *)
(* get-ckp-policies.py extends its list.                                  *)
AddObjectsExtend(dict, objs) == dict \o objs

(* add_object_dict for each object of objs, in order. *)
AddObjects(dict, objs) == FoldLeft(AddObjectDict, dict, objs)

(* The body of get_jobs_result's loop for the page <<q, it>>. *)
FoldPage(cfg, page) ==
  LET q == page[1]
      p == Page(q, page[2])
  IN  CASE q = LayersQ ->
             [cfg EXCEPT !.layers =
                FoldLeft(LAMBDA ls, u : C!AddAccessLayer(ls, u), @, p)]
        [] q \in RulebaseQs ->
             [layers |-> C!AddRulebase(cfg.layers, LayerOf(q), p),
              dict |-> AddObjects(cfg.dict,
                         FlattenSeq([i \in DOMAIN p |-> RuleDict[p[i]]]))]
        [] OTHER ->
             [cfg EXCEPT !.dict = AddObjects(@, p)]

(* get_jobs_result: every job of _done, in the order run() left it. *)
GetJobsResult ==
  FoldLeft(LAMBDA cfg, job :
             FoldPage(cfg, <<jobs[job].query, jobs[job].iteration>>),
           [dict |-> objects_dict, layers |-> access_layers], done)

(* The seeds of the data run: a rulebase query per layer, then the rest. *)
DataSeeds ==
  [i \in 1 .. Len(access_layers) |-> RulebaseQ[access_layers[i].uid]]
    \o ObjectQs

-----------------------------------------------------------------------------
(* ckpconfig = CkpConfig(); a Jobs() with the "access-layers" query runs. *)
Init ==
  /\ step = "layers"
  /\ objects_dict = <<>>
  /\ access_layers = <<>>
  /\ exported = FALSE
  /\ server = [q \in Queries |-> Len(Listing[q])]
  /\ J!InitRun(<<LayersQ>>)

(* A step of the control thread inside the current sshjobs.run(). *)
RunStep ==
  /\ step \in {"layers", "data"}
  /\ J!Control
  /\ UNCHANGED mainvars

(* The layers run returned: get_jobs_result folds the layers found. *)
LayersReturn ==
  /\ step = "layers"
  /\ pc = "finished"
  /\ LET r == GetJobsResult
     IN  /\ access_layers' = r.layers
         /\ objects_dict' = r.dict
  /\ step' = "queue"
  /\ UNCHANGED <<exported, jobvars>>

(* A fresh jobs.Jobs() gets an access-rulebase query per layer, then the *)
(* object queries, and runs.                                              *)
QueueData ==
  /\ step = "queue"
  /\ UNCHANGED <<objects_dict, access_layers, exported>>
  /\ step' = "data"
  /\ J!NewRun(DataSeeds)

(* The data run returned: get_jobs_result and the JSON document printed, *)
(* layers and objects in the order they were folded.                      *)
DataReturn ==
  /\ step = "data"
  /\ pc = "finished"
  /\ LET r == GetJobsResult
     IN  /\ access_layers' = r.layers
         /\ objects_dict' = r.dict
  /\ exported' = TRUE
  /\ step' = "exit"
  /\ UNCHANGED jobvars

(* A run raised: nothing catches it and the program ends. *)
RunRaise ==
  /\ step \in {"layers", "data"}
  /\ pc \in {"timeout", "error"}
  /\ step' = "crashed"
  /\ UNCHANGED <<objects_dict, access_layers, exported, jobvars>>

(* The program has ended; remote commands it left behind may go on. *)
Ended ==
  /\ step \in {"exit", "crashed"}
  /\ UNCHANGED vars

Main == RunStep \/ LayersReturn \/ QueueData \/ DataReturn \/ RunRaise

Remote ==
  /\ \E job \in DOMAIN process : J!Finish(job) \/ J!Fail(job) \/ J!Expire(job)
  /\ UNCHANGED mainvars

Next == Main \/ Remote \/ Ended

Spec == Init /\ [][Next]_vars /\ WF_vars(Main)
          /\ WF_vars(\E job \in DOMAIN process :
                       J!Expire(job) /\ UNCHANGED mainvars)

-----------------------------------------------------------------------------
TypeOK ==
  /\ step \in {"layers", "queue", "data", "exit", "crashed"}
  /\ exported \in BOOLEAN
  /\ access_layers \in
       Seq([uid : DOMAIN RulebaseQ,
            rulebase : Seq(UNION {ToSet(Listing[q]) : q \in RulebaseQs})])
  /\ J!TypeOK

(* Every object the server lists: the objects of the object queries and  *)
(* the objects-dictionary of the rules of the listed layers.              *)
ListedObjects ==
  UNION {ToSet(Listing[q]) : q \in ToSet(ObjectQs)}
    \cup UNION {ToSet(RuleDict[r]) :
                  r \in UNION {ToSet(Listing[RulebaseQ[l]]) :
                                 l \in ToSet(Listing[LayersQ])}}

(***************************************************************************)
(* A printed document holds every layer the "access-layers" query lists,   *)
(* in the server's order, with every rule of its rulebase in order, and    *)
(* exactly one entry per uid of every object listed, whatever order the    *)
(* remote commands completed in.                                           *)
(***************************************************************************)
ExportIsComplete ==
  exported =>
    LET ls == Listing[LayersQ]
    IN  /\ access_layers = [i \in DOMAIN ls |->
                             [uid |-> ls[i],
                              rulebase |-> Listing[RulebaseQ[ls[i]]]]]
        /\ IsInjective([i \in DOMAIN objects_dict |-> objects_dict[i].uid])
        /\ {objects_dict[i].uid : i \in DOMAIN objects_dict} =
             {o.uid : o \in ListedObjects}

=============================================================================
