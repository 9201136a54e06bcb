---------------------------- MODULE GetCkpPolicies ----------------------------
(***************************************************************************)
(* main() of get-ckp-policies.py (tools/checkpoint): four scheduler runs   *)
(* in sequence, each a fresh jobs.Jobs() (module Jobs, one instance whose   *)
(* variables every run reuses), and the folding of their results into a   *)
(* CkpConfig (module CkpConfig, whose operators are reused here).          *)
(*                                                                         *)
(*   login run -> try: layers run, get_jobs_result,                        *)
(*                     data run (one access-rulebase query per layer       *)
(*                     found, then the object queries), get_jobs_result,   *)
(*                     sort, print                                         *)
(*                finally: logout run                                      *)
(*                                                                         *)
(* The management server holds fixed listings; a job's output is the page *)
(* of its query at offset nbobjects * iteration.  The server's session is *)
(* opened when the remote login command completes and closed when the     *)
(* remote logout completes, whether or not main() still waits for them.   *)
(***************************************************************************)
EXTENDS Naturals, Sequences, SequencesExt, FiniteSets

CONSTANTS
  LoginQ,       \* the mgmt_cli login command of mgmt_login()
  LogoutQ,      \* the mgmt_cli logout command of mgmt_logout()
  LayersQ,      \* the "access-layers" query
  RulebaseQ,    \* layer uid -> its "access-rulebase" query
  ObjectQs,     \* the other queries, in the order main() queues them
  GroupQs,      \* those of them whose objects are groups with members
  Listing,      \* query -> the items the server lists for it
  RuleDict,     \* rule -> the objects-dictionary entries a page of it brings
  NbObjects,    \* query -> page size
  MaxJob        \* cfg['max_job']

RulebaseQs == {RulebaseQ[l] : l \in DOMAIN RulebaseQ}
Queries == {LoginQ, LogoutQ, LayersQ} \cup RulebaseQs \cup ToSet(ObjectQs)
AllQueries == <<LoginQ, LogoutQ, LayersQ>>
                \o [i \in 1 .. Cardinality(RulebaseQs) |->
                      RulebaseQ[SetToSeq(DOMAIN RulebaseQ)[i]]]
                \o ObjectQs
ServerTotals == [q \in Queries |-> Len(Listing[q])]

VARIABLES
  step,            \* where main() is
  sid,             \* var['session-id'] has been set from the login output
  server_session,  \* the session on the management server
  objects_dict,    \* ckpconfig.objects_dict
  access_layers,   \* ckpconfig.access_layers
  exported,        \* the JSON document has been printed
  server,          \* query -> number of items the server lists (fixed)
  waiting, running, done, jobnumber, jobs, process, expired, pc, idx, polled

jobvars == <<server, waiting, running, done, jobnumber, jobs, process, expired, pc,
             idx, polled>>
mainvars == <<step, sid, server_session, objects_dict, access_layers,
              exported>>
vars == <<mainvars, jobvars>>

(* The scheduler of every run; the server's totals never change. *)
J == INSTANCE Jobs WITH Seeds <- AllQueries,
       Totals <- {ServerTotals[q] : q \in Queries},
       Paged <- Queries \ {LoginQ, LogoutQ}

(* Only the operators of CkpConfig are used, on this module's variables. *)
C == INSTANCE CkpConfig WITH Uids <- Nat, LayerUids <- Nat, Rules <- {},
       Sizes <- Nat, MaxList <- 0, MaxPages <- 0, phase <- "data",
       pages <- 0, seen <- {}

(* The output of page `it` of query q: the listing at offset             *)
(* nbobjects * it, as ckp_command asks for it.                            *)
Page(q, it) ==
  LET first == J!Offset(NbObjects[q], it) + 1
      last == first + NbObjects[q] - 1
  IN  SubSeq(Listing[q], first,
             IF last <= Len(Listing[q]) THEN last ELSE Len(Listing[q]))

(* The key of CkpConfig.sort: the uid. *)
ByUid(a, b) == a.uid < b.uid

LayerOf(q) == CHOOSE l \in DOMAIN RulebaseQ : RulebaseQ[l] = q

(* A group, then each of its members, goes through add_object_dict. *)
AddGroup(dict, g) == C!AddObjects(C!AddObjectDict(dict, g[1]), g[2])

(* Seeded fault: add_rulebase forgets the rulebase's objects-dictionary. *)
FoldPageNoRuleDict(cfg, page) ==
  LET q == page[1]
      p == Page(q, page[2])
  IN  CASE q = LayersQ ->
             [cfg EXCEPT !.layers =
                FoldLeft(LAMBDA ls, u : C!AddAccessLayer(ls, u), @, p)]
        [] q \in RulebaseQs ->
             [cfg EXCEPT !.layers = C!AddRulebase(@, LayerOf(q), p)]
        [] q \in GroupQs ->
             [cfg EXCEPT !.dict = FoldLeft(AddGroup, @, p)]
        [] OTHER ->
             [cfg EXCEPT !.dict = C!AddObjects(@, p)]

(* The body of get_jobs_result's loop for the page <<q, it>>. *)
FoldPage(cfg, page) ==
  LET q == page[1]
      p == Page(q, page[2])
  IN  CASE q = LayersQ ->
             [cfg EXCEPT !.layers =
                FoldLeft(LAMBDA ls, u : C!AddAccessLayer(ls, u), @, p)]
        [] q \in RulebaseQs ->
             [layers |-> C!AddRulebase(cfg.layers, LayerOf(q), p),
              dict |-> C!AddObjects(cfg.dict,
                         FlattenSeq([i \in DOMAIN p |-> RuleDict[p[i]]]))]
        [] q \in GroupQs ->
             [cfg EXCEPT !.dict = FoldLeft(AddGroup, @, p)]
        [] OTHER ->
             [cfg EXCEPT !.dict = C!AddObjects(@, p)]

FoldJob(cfg, job) == FoldPage(cfg, <<jobs[job].query, jobs[job].iteration>>)

(* get_jobs_result: every job of _done, in the order run() left it. *)
GetJobsResult ==
  FoldLeft(FoldJob, [dict |-> objects_dict, layers |-> access_layers], done)

(* The seeds of the data run: a rulebase query per layer, then the rest. *)
DataSeeds ==
  [i \in 1 .. Len(access_layers) |-> RulebaseQ[access_layers[i].uid]]
    \o ObjectQs

-----------------------------------------------------------------------------
(* ckpconfig = CkpConfig(); sshjobs = jobs.Jobs(); queuejob(mgmt_login());  *)
(* sshjobs.run(...).                                                      *)
Init ==
  /\ step = "login"
  /\ sid = FALSE
  /\ server_session = "none"
  /\ objects_dict = <<>>
  /\ access_layers = <<>>
  /\ exported = FALSE
  /\ server = ServerTotals
  /\ J!InitRun(<<LoginQ>>)

(* A step of the control thread inside the current sshjobs.run(). *)
RunStep ==
  /\ step \in {"login", "layers", "data", "logout"}
  /\ J!Control
  /\ UNCHANGED mainvars

(* The login run returned: js['sid'] is read from the login job's output; *)
(* the try block starts the "access-layers" run.                          *)
LoginReturn ==
  /\ step = "login"
  /\ pc = "finished"
  /\ sid' = TRUE
  /\ step' = "layers"
  /\ J!NewRun(<<LayersQ>>)
  /\ UNCHANGED <<server_session, objects_dict, access_layers, exported>>

(* The login run raised, before the try: main() ends at once, and the    *)
(* login command, if still running, is left behind.                       *)
LoginRaise ==
  /\ step = "login"
  /\ pc \in {"timeout", "error"}
  /\ step' = "aborted"
  /\ UNCHANGED <<sid, server_session, objects_dict, access_layers, exported,
                 jobvars>>

(* The layers run returned: get_jobs_result folds the layers found. *)
LayersReturn ==
  /\ step = "layers"
  /\ pc = "finished"
  /\ LET r == GetJobsResult
     IN  /\ access_layers' = r.layers
         /\ objects_dict' = r.dict
  /\ step' = "queue"
  /\ UNCHANGED <<sid, server_session, exported, jobvars>>

(* A fresh jobs.Jobs() gets an access-rulebase query per layer in         *)
(* ckpconfig.access_layers, then every object query, and runs.            *)
QueueData ==
  /\ step = "queue"
  /\ UNCHANGED <<sid, server_session, objects_dict, access_layers, exported>>
  /\ step' = "data"
  /\ J!NewRun(DataSeeds)

(* The data run returned: get_jobs_result, ckpconfig.sort(), the JSON     *)
(* document printed; then the finally block starts the logout run.        *)
DataReturn ==
  /\ step = "data"
  /\ pc = "finished"
  /\ LET r == GetJobsResult
     IN  /\ access_layers' = SortSeq(r.layers, ByUid)
         /\ objects_dict' = SortSeq(r.dict, ByUid)
  /\ exported' = TRUE
  /\ step' = "logout"
  /\ J!NewRun(<<LogoutQ>>)
  /\ UNCHANGED <<sid, server_session>>

(* Seeded fault: the logout is after the try block, not in a finally. *)
TryRaiseNoFinally ==
  /\ step \in {"layers", "data"}
  /\ pc \in {"timeout", "error"}
  /\ step' = "aborted"
  /\ UNCHANGED <<sid, server_session, objects_dict, access_layers, exported,
                 jobvars>>

(* A run inside the try raised: the finally block starts the logout run; *)
(* the jobs of the failed run are abandoned.                               *)
TryRaise ==
  /\ step \in {"layers", "data"}
  /\ pc \in {"timeout", "error"}
  /\ step' = "logout"
  /\ J!NewRun(<<LogoutQ>>)
  /\ UNCHANGED <<sid, server_session, objects_dict, access_layers, exported>>

(* The logout run returned or raised: main() is over either way. *)
LogoutReturn ==
  /\ step = "logout"
  /\ pc \in J!Terminal
  /\ step' = "exit"
  /\ UNCHANGED <<sid, server_session, objects_dict, access_layers, exported,
                 jobvars>>

(* The program has ended; remote commands it left behind may go on. *)
Ended ==
  /\ step \in {"exit", "aborted"}
  /\ UNCHANGED vars

Main ==
  \/ RunStep \/ LoginReturn \/ LoginRaise \/ LayersReturn \/ QueueData
  \/ DataReturn \/ TryRaise \/ LogoutReturn

(* A remote command ends, fails or overruns the timeout; a completed      *)
(* login opens the server's session, a completed logout closes it.        *)
Remote ==
  \E job \in DOMAIN process :
    \/ /\ J!Finish(job)
       /\ server_session' = CASE jobs[job].query = LoginQ -> "open"
                              [] jobs[job].query = LogoutQ -> "closed"
                              [] OTHER -> server_session
       /\ UNCHANGED <<step, sid, objects_dict, access_layers, exported>>
    \/ /\ J!Fail(job) \/ J!Expire(job)
       /\ UNCHANGED mainvars

Next == Main \/ Remote \/ Ended

(* One control thread; the clock always advances.  mgmt_cli may hang, so *)
(* no remote command is assumed to end.                                    *)
Fairness ==
  /\ WF_vars(Main)
  /\ WF_vars(\E job \in DOMAIN process : J!Expire(job) /\ UNCHANGED mainvars)

Spec == Init /\ [][Next]_vars /\ Fairness

-----------------------------------------------------------------------------
TypeOK ==
  /\ step \in {"login", "layers", "queue", "data", "logout", "exit", "aborted"}
  /\ sid \in BOOLEAN
  /\ server_session \in {"none", "open", "closed"}
  /\ exported \in BOOLEAN
  /\ access_layers \in
       Seq([uid : DOMAIN RulebaseQ,
            rulebase : Seq(UNION {ToSet(Listing[q]) : q \in RulebaseQs})])
  /\ J!TypeOK

(* The uids of every object the server lists: objects, groups and their  *)
(* members, and the objects-dictionary of the rules of the listed layers. *)
ListedUids ==
  LET objs == UNION {ToSet(Listing[q]) : q \in ToSet(ObjectQs) \ GroupQs}
      groups == UNION {ToSet(Listing[q]) : q \in GroupQs}
      rules == UNION {ToSet(Listing[RulebaseQ[l]]) :
                        l \in ToSet(Listing[LayersQ])}
  IN  {o.uid : o \in objs \cup {g[1] : g \in groups}
                     \cup UNION {ToSet(g[2]) : g \in groups}
                     \cup UNION {ToSet(RuleDict[r]) : r \in rules}}

(***************************************************************************)
(* The printed document is the server's policy, whatever order the remote  *)
(* commands completed in: every layer the "access-layers" query lists,     *)
(* in uid order, carrying every rule of its access-rulebase pages in the   *)
(* server's order, and one entry for every object uid anything listed.     *)
(* It takes the page count of job_done_callback, the sort at the end of    *)
(* Jobs.run, the order of main()'s runs and get_jobs_result together.      *)
(***************************************************************************)
ExportIsComplete ==
  exported =>
    LET ls == Listing[LayersQ]
        layer(i) == [uid |-> ls[i], rulebase |-> Listing[RulebaseQ[ls[i]]]]
    IN  /\ access_layers = SortSeq([i \in DOMAIN ls |-> layer(i)], ByUid)
        /\ IsInjective([i \in DOMAIN objects_dict |-> objects_dict[i].uid])
        /\ {objects_dict[i].uid : i \in DOMAIN objects_dict} = ListedUids

(***************************************************************************)
(* The session main() logged in with is logged out: once var['session-id'] *)
(* is set, main() ends through the logout run of the finally block (the    *)
(* only way to "exit"), whether the layers and data runs return or raise,  *)
(* and even when a remote command hangs.                                   *)
(***************************************************************************)
LogoutFollowsLogin == sid ~> (step = "exit")

(* Every page main() fetches, in the order _done would list it if the     *)
(* first pages of the queries completed in the order they were queued.    *)
CanonicalPages ==
  LET pages(q) == [k \in 1 .. J!IterationCount(Len(Listing[q]), NbObjects[q])
                     |-> <<q, k - 1>>]
      firsts(qs) == [i \in DOMAIN qs |-> <<qs[i], 0>>]
      rests(qs) == FlattenSeq([i \in DOMAIN qs |-> Tail(pages(qs[i]))])
      seeds == [i \in DOMAIN Listing[LayersQ] |->
                  RulebaseQ[Listing[LayersQ][i]]] \o ObjectQs
  IN  pages(LayersQ) \o firsts(seeds) \o rests(seeds)

(***************************************************************************)
(* The spec promises that the scheduler "deterministically aggregates      *)
(* partial results from out-of-order completions": the objects dictionary  *)
(* printed is the same whichever query's first page completed first.       *)
(***************************************************************************)
ExportDeterministic ==
  exported =>
    objects_dict =
      SortSeq(FoldLeft(FoldPage, [dict |-> <<>>, layers |-> <<>>],
                       CanonicalPages).dict, ByUid)

=============================================================================
