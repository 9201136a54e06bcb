-------------------------------- MODULE Jobs --------------------------------
(***************************************************************************)
(* The "quick & dirty" job scheduler Jobs.run (jtacl/tools/checkpoint/     *)
(* jobs.py) driving MgmtCliJob jobs (SshJob subclasses) whose done         *)
(* callback, job_done_callback of get-ckp-policies.py, queues the          *)
(* remaining pages of a query into the same scheduler while it runs.       *)
(*                                                                         *)
(* The control thread of run() is modelled step by step: the while test,   *)
(* each promotion of a waiting job, each look at a running job in the      *)
(* poll loop, and the removal of the finished jobs.  The remote mgmt_cli   *)
(* processes are the environment: each may end well, fail, or hang, and   *)
(* the clock may push any of them past the timeout.                        *)
(***************************************************************************)
EXTENDS Naturals, Sequences, SequencesExt, FiniteSets, Pagination

CONSTANTS
  Seeds,      \* <<query, ...>>: the jobs queue_firstcmd queues before run()
  NbObjects,  \* query -> page size, cfg['<object>_nbobjects']
  Totals,     \* the object counts the management server may hold per query
  Paged,      \* queries run by a MgmtCliJob, whose done callback pages
  MaxJob      \* the maxjob argument of run()

Queries == ToSet(Seeds)

ASSUME /\ IsInjective(Seeds)
       /\ NbObjects \in [Queries -> Nat \ {0}]
       /\ Totals \subseteq Nat
       /\ Paged \subseteq Queries
       /\ MaxJob \in Nat \ {0}

VARIABLES
  server,     \* query -> number of objects the server holds (fixed)
  waiting,    \* Jobs._waiting: sequence of job numbers
  running,    \* Jobs._running
  done,       \* Jobs._done
  jobnumber,  \* Jobs._jobnumber: next number queuejob assigns
  jobs,       \* job number -> [query, iteration, iteration_count]
  process,    \* job number -> state of its remote mgmt_cli process
  expired,    \* jobs whose time.time() - spawn_time exceeds the timeout
  pc,         \* control point of Jobs.run
  idx,        \* position in _running of the poll loop
  polled      \* the local list `done` of the current poll round

vars == <<server, waiting, running, done, jobnumber, jobs, process,
          expired, pc, idx, polled>>

Job(q, it, count) == [query |-> q, iteration |-> it, iteration_count |-> count]

(* run() has returned, raised JobTimeOutError, or let a spur error escape. *)
Terminal == {"finished", "timeout", "error"}

-----------------------------------------------------------------------------
(* A fresh jobs.Jobs(), queue_firstcmd (or queuejob) for every seed in   *)
(* order, then the call of run().                                        *)
InitRun(seeds) ==
  /\ jobnumber = Len(seeds)
  /\ jobs = [n \in 0 .. Len(seeds) - 1 |-> Job(seeds[n + 1], 0, 1)]
  /\ waiting = [i \in 1 .. Len(seeds) |-> i - 1]
  /\ running = <<>>
  /\ done = <<>>
  /\ process = [n \in 0 .. Len(seeds) - 1 |-> "none"]
  /\ expired = {}
  /\ pc = "loop"
  /\ idx = 1
  /\ polled = <<>>

Init == server \in [Queries -> Totals] /\ InitRun(Seeds)

(* The same, as a step of a program that makes run after run. *)
NewRun(seeds) ==
  /\ jobnumber' = Len(seeds)
  /\ jobs' = [n \in 0 .. Len(seeds) - 1 |-> Job(seeds[n + 1], 0, 1)]
  /\ waiting' = [i \in 1 .. Len(seeds) |-> i - 1]
  /\ running' = <<>>
  /\ done' = <<>>
  /\ process' = [n \in 0 .. Len(seeds) - 1 |-> "none"]
  /\ expired' = {}
  /\ pc' = "loop"
  /\ idx' = 1
  /\ polled' = <<>>
  /\ UNCHANGED server

(* Seeded fault: queuejob increments _jobnumber before it numbers the  *)
(* job, so the first job queued by a callback takes number _jobnumber+1. *)
QueueJobsAfterIncrement(recs) ==
  LET new == [i \in 1 .. Len(recs) |-> jobnumber + i]
  IN  /\ jobs' = jobs @@ [n \in ToSet(new) |-> recs[n - jobnumber]]
      /\ process' = process @@ [n \in ToSet(new) |-> "none"]
      /\ waiting' = waiting \o new
      /\ jobnumber' = jobnumber + Len(recs)

(* Jobs.queuejob for each record of the sequence recs, in order. *)
QueueJobs(recs) ==
  LET new == [i \in 1 .. Len(recs) |-> jobnumber + i - 1]
  IN  /\ jobs' = jobs @@ [n \in ToSet(new) |-> recs[n - jobnumber + 1]]
      /\ process' = process @@ [n \in ToSet(new) |-> "none"]
      /\ waiting' = waiting \o new
      /\ jobnumber' = jobnumber + Len(recs)

(* Seeded fault: the pages queued from the last iteration down. *)
ExpansionDescending(q) ==
  LET count == IterationCount(server[q], NbObjects[q])
  IN  [i \in 1 .. count - 1 |-> Job(q, count - i, count)]

(* The jobs job_done_callback creates for the first page of query q:     *)
(* one per iteration 1 .. count - 1, in increasing iteration order.      *)
Expansion(q) ==
  LET count == IterationCount(server[q], NbObjects[q])
  IN  [i \in 1 .. count - 1 |-> Job(q, i, count)]

(* Seeded fault: the `if iteration == 0` test dropped. *)
DoneCallbackEveryPage(job) ==
  IF jobs[job].query \in Paged
  THEN QueueJobs(Expansion(jobs[job].query))
  ELSE UNCHANGED <<jobs, process, waiting, jobnumber>>

(* job_done_callback: only the first iteration parses 'total' and queues *)
(* the other pages of its query into job.sshjobs, the running scheduler. *)
(* The login and logout jobs have job_login_done_callback, which queues  *)
(* nothing.                                                              *)
DoneCallback(job) ==
  IF jobs[job].query \in Paged /\ jobs[job].iteration = 0
  THEN QueueJobs(Expansion(jobs[job].query))
  ELSE UNCHANGED <<jobs, process, waiting, jobnumber>>

-----------------------------------------------------------------------------
(* The while test of run(): some job is waiting or running. *)
RunLoop ==
  /\ pc = "loop"
  /\ waiting # <<>> \/ running # <<>>
  /\ pc' = "promote"
  /\ UNCHANGED <<server, waiting, running, done, jobnumber, jobs, process,
                 expired, idx, polled>>

(* Seeded fault: run() returns without sorting _done. *)
RunReturnUnsorted ==
  /\ pc = "loop"
  /\ waiting = <<>> /\ running = <<>>
  /\ pc' = "finished"
  /\ UNCHANGED <<server, waiting, running, done, jobnumber, jobs, process,
                 expired, idx, polled>>

(* The loop ends: _done is sorted by job number and run() returns. *)
RunReturn ==
  /\ pc = "loop"
  /\ waiting = <<>> /\ running = <<>>
  /\ done' = SortSeq(done, <)
  /\ pc' = "finished"
  /\ UNCHANGED <<server, waiting, running, jobnumber, jobs, process,
                 expired, idx, polled>>

(* Seeded fault: the promoted job is not removed from _waiting. *)
SpawnKeepsWaiting ==
  /\ pc = "promote"
  /\ waiting # <<>> /\ Len(running) < MaxJob
  /\ LET job == Head(waiting)
     IN  /\ running' = Append(running, job)
         /\ process' = [process EXCEPT ![job] = "alive"]
  /\ UNCHANGED <<server, waiting, done, jobnumber, jobs, expired, pc, idx,
                 polled>>

(* Seeded fault: the inner while loop does not test len(_running). *)
SpawnUnbounded ==
  /\ pc = "promote"
  /\ waiting # <<>>
  /\ LET job == Head(waiting)
     IN  /\ running' = Append(running, job)
         /\ waiting' = Tail(waiting)
         /\ process' = [process EXCEPT ![job] = "alive"]
  /\ UNCHANGED <<server, done, jobnumber, jobs, expired, pc, idx, polled>>

(* The head of _waiting moves to _running and SshJob.spawn starts it:    *)
(* spawn_time is taken, start_callback runs and spur spawns mgmt_cli.    *)
Spawn ==
  /\ pc = "promote"
  /\ waiting # <<>> /\ Len(running) < MaxJob
  /\ LET job == Head(waiting)
     IN  /\ running' = Append(running, job)
         /\ waiting' = Tail(waiting)
         /\ process' = [process EXCEPT ![job] = "alive"]
  /\ UNCHANGED <<server, done, jobnumber, jobs, expired, pc, idx, polled>>

(* spur cannot open the SSH connection: spawn raises out of run(), the   *)
(* job already moved to _running.                                        *)
SpawnFails ==
  /\ pc = "promote"
  /\ waiting # <<>> /\ Len(running) < MaxJob
  /\ running' = Append(running, Head(waiting))
  /\ waiting' = Tail(waiting)
  /\ pc' = "error"
  /\ UNCHANGED <<server, done, jobnumber, jobs, process, expired, idx, polled>>

(* No job is waiting or all MaxJob slots are taken: the poll loop starts. *)
EndPromote ==
  /\ pc = "promote"
  /\ ~(waiting # <<>> /\ Len(running) < MaxJob)
  /\ pc' = "poll"
  /\ idx' = 1
  /\ polled' = <<>>
  /\ UNCHANGED <<server, waiting, running, done, jobnumber, jobs, process,
                 expired>>

(* A running job is no longer running: wait_for collects the result and  *)
(* runs job_done_callback; the job joins the round's list and _done.     *)
PollDone ==
  /\ pc = "poll"
  /\ idx <= Len(running)
  /\ LET job == running[idx]
     IN  /\ process[job] = "ok"
         /\ DoneCallback(job)
         /\ polled' = Append(polled, job)
         /\ done' = Append(done, job)
  /\ idx' = idx + 1
  /\ UNCHANGED <<server, running, expired, pc>>

(* The remote command exited non-zero: wait_for_result raises            *)
(* RunProcessError, which nothing in run() catches.                      *)
PollFailed ==
  /\ pc = "poll"
  /\ idx <= Len(running)
  /\ process[running[idx]] = "failed"
  /\ pc' = "error"
  /\ UNCHANGED <<server, waiting, running, done, jobnumber, jobs, process,
                 expired, idx, polled>>

(* Seeded fault: the poll loop never tests the elapsed time. *)
PollRunningNoTimeout ==
  /\ pc = "poll"
  /\ idx <= Len(running)
  /\ process[running[idx]] = "alive"
  /\ idx' = idx + 1
  /\ UNCHANGED <<server, waiting, running, done, jobnumber, jobs, process,
                 expired, pc, polled>>

(* The job still runs: past the timeout run() raises JobTimeOutError,    *)
(* otherwise the loop goes on to the next running job.                   *)
PollRunning ==
  /\ pc = "poll"
  /\ idx <= Len(running)
  /\ process[running[idx]] = "alive"
  /\ \/ /\ running[idx] \in expired
        /\ pc' = "timeout"
        /\ UNCHANGED idx
     \/ /\ running[idx] \notin expired
        /\ idx' = idx + 1
        /\ UNCHANGED pc
  /\ UNCHANGED <<server, waiting, running, done, jobnumber, jobs, process,
                 expired, polled>>

(* After the round the finished jobs leave _running; run() sleeps 0.1s. *)
EndPoll ==
  /\ pc = "poll"
  /\ idx > Len(running)
  /\ running' = SelectSeq(running, LAMBDA j : ~Contains(polled, j))
  /\ pc' = "loop"
  /\ UNCHANGED <<server, waiting, done, jobnumber, jobs, process, expired,
                 idx, polled>>

-----------------------------------------------------------------------------
(* The remote side.  A spawned mgmt_cli ends well or fails (the source   *)
(* notes it fails to connect while the server installs a policy), or     *)
(* never ends, which only the timeout of run() bounds; time passes for a  *)
(* job still alive until it is past the timeout.                          *)
Finish(job) ==
  /\ process[job] = "alive"
  /\ process' = [process EXCEPT ![job] = "ok"]
  /\ UNCHANGED <<server, waiting, running, done, jobnumber, jobs, expired,
                 pc, idx, polled>>

Fail(job) ==
  /\ process[job] = "alive"
  /\ process' = [process EXCEPT ![job] = "failed"]
  /\ UNCHANGED <<server, waiting, running, done, jobnumber, jobs, expired,
                 pc, idx, polled>>

(* time.time() only moves forward and spawn_time is taken at spawn, in   *)
(* _running order: a job passes the timeout only after every job still    *)
(* alive that was spawned before it.                                      *)
Expire(job) ==
  /\ process[job] = "alive"
  /\ job \notin expired
  /\ \A i, k \in 1 .. Len(running) :
       running[i] = job /\ k < i /\ process[running[k]] = "alive"
         => running[k] \in expired
  /\ expired' = expired \cup {job}
  /\ UNCHANGED <<server, waiting, running, done, jobnumber, jobs, process,
                 pc, idx, polled>>

(* run() is over; the process ends with it. *)
Terminated ==
  /\ pc \in Terminal
  /\ UNCHANGED vars

Control ==
  \/ RunLoop \/ RunReturn \/ Spawn \/ SpawnFails \/ EndPromote
  \/ PollDone \/ PollFailed \/ PollRunning \/ EndPoll

Remote ==
  \E job \in DOMAIN process : Finish(job) \/ Fail(job) \/ Expire(job)

Next == Control \/ Remote \/ Terminated

(* The single control thread keeps looping; the clock keeps advancing.  *)
(* Nothing forces a remote command to end: it may hang.                 *)
Fairness ==
  /\ WF_vars(Control)
  /\ WF_vars(\E job \in DOMAIN process : Expire(job))

Spec == Init /\ [][Next]_vars /\ Fairness

-----------------------------------------------------------------------------
(* The variables' types.  The jobs numbered so far are exactly            *)
(* 0 .. _jobnumber - 1, every list holds only such numbers, and every job  *)
(* has a process: queuejob numbers each job with the counter before it     *)
(* increments it, also for the jobs a done callback queues mid-round.      *)
TypeOK ==
  /\ server \in [Queries -> Totals]
  /\ jobnumber \in Nat
  /\ DOMAIN jobs = 0 .. jobnumber - 1
  /\ \A n \in DOMAIN jobs : jobs[n].query \in Queries /\ jobs[n].iteration \in Nat
  /\ process \in [DOMAIN jobs -> {"none", "alive", "ok", "failed"}]
  /\ \A s \in {waiting, running, done, polled} : s \in Seq(DOMAIN jobs)
  /\ expired \subseteq DOMAIN jobs
  /\ pc \in {"loop", "promote", "poll"} \cup Terminal
  /\ idx \in Nat \ {0}

(***************************************************************************)
(* Every job queuejob numbered, including those the done callbacks queue   *)
(* while run() iterates over _running, is in exactly one of _waiting,      *)
(* _running and _done, and no list holds a job twice; a job is in both     *)
(* _running and _done only between its poll and the end of the round.     *)
(***************************************************************************)
JobConservation ==
  LET W == ToSet(waiting)
      R == ToSet(running)
      D == ToSet(done)
  IN  /\ IsInjective(waiting) /\ IsInjective(running) /\ IsInjective(done)
      /\ W \cup R \cup D = DOMAIN jobs
      /\ W \cap (R \cup D) = {}
      /\ R \cap D \subseteq ToSet(polled)
      /\ pc \in {"loop", "promote", "finished"} => R \cap D = {}

(***************************************************************************)
(* When run() returns, _done holds every job queued before or during the   *)
(* run exactly once, in job number order, whatever order the remote        *)
(* commands completed in (the final sorted() of Jobs.run).                 *)
(***************************************************************************)
ReturnsAllJobsInOrder ==
  pc = "finished" => done = [i \in 1 .. jobnumber |-> i - 1]

(* The objects of query q that the finished pages of q cover. *)
Fetched(q) ==
  { Offset(NbObjects[q], jobs[n].iteration) + k :
      n \in { m \in ToSet(done) : jobs[m].query = q },
      k \in 0 .. NbObjects[q] - 1 }

(***************************************************************************)
(* When run() returns, every object the server holds for every query lies  *)
(* in a page some finished job fetched: the page count job_done_callback   *)
(* derives from 'total' never leaves a partial last page out.              *)
(***************************************************************************)
AllItemsFetched ==
  pc = "finished" => \A q \in Queries : 0 .. server[q] - 1 \subseteq Fetched(q)

(***************************************************************************)
(* When run() returns, the pages of each query come in _done in offset     *)
(* order, whatever order they completed in.  get_jobs_result appends the   *)
(* rules of the pages of a layer in _done order, so this is what keeps     *)
(* the rules of an access layer in their policy order.                     *)
(***************************************************************************)
PagesInOffsetOrder ==
  pc = "finished" =>
    \A i, j \in 1 .. Len(done) :
      i < j /\ jobs[done[i]].query = jobs[done[j]].query
        => jobs[done[i]].iteration < jobs[done[j]].iteration

(***************************************************************************)
(* The spec's expansion invariant (3, 4.2, 5): a page past the first is   *)
(* queued only after the first page of its query completed, with a larger *)
(* number, and no page of a query is ever queued twice.  It rests on       *)
(* wait_for, and with it job_done_callback, running once per job, and on   *)
(* the callback expanding only the first page.                             *)
(***************************************************************************)
ExpansionInvariant ==
  /\ \A n \in DOMAIN jobs :
       jobs[n].iteration > 0 =>
         \E m \in ToSet(done) : /\ jobs[m].query = jobs[n].query
                               /\ jobs[m].iteration = 0
                               /\ m < n
  /\ \A n, m \in DOMAIN jobs :
       n # m /\ jobs[n].query = jobs[m].query
         => jobs[n].iteration # jobs[m].iteration

(***************************************************************************)
(* run() always comes back, by returning or by raising, even when a        *)
(* remote mgmt_cli hangs forever: the timeout test of the poll loop is     *)
(* what ends a run blocked on a hung command.                              *)
(***************************************************************************)
RunEnds == <>(pc \in Terminal)

(***************************************************************************)
(* The spec (4.2, 8): a query whose total fits in the pages already        *)
(* queued gets no further page; total = pageSize gives zero additional     *)
(* tasks.  Stated as: no queued page starts at or past the total.          *)
(***************************************************************************)
NoEmptyPageQueued ==
  \A n \in DOMAIN jobs :
    jobs[n].iteration > 0 =>
      Offset(NbObjects[jobs[n].query], jobs[n].iteration) < server[jobs[n].query]

(***************************************************************************)
(* The spec (3, 7): a run aborts only on a timeout; a remote command that  *)
(* fails or cannot be spawned is a task-level error, recorded on the task. *)
(* Stated on the step that makes run() raise: it finds a job of _running   *)
(* still alive and past the timeout.                                       *)
(***************************************************************************)
AbortsOnlyOnTimeout ==
  [][pc \notin Terminal /\ pc' \in Terminal \ {"finished"}
       => \E j \in ToSet(running) : process[j] = "alive" /\ j \in expired]_vars

-----------------------------------------------------------------------------
(* The abstract scheduler, seen through the lists of run(): a job is in   *)
(* flight from its promotion until it is polled done, and run() has       *)
(* returned _done once the loop ends.                                      *)
A == INSTANCE JobsAbstract WITH
       active <- ToSet(running) \ ToSet(done),
       finished <- ToSet(done),
       jobs <- [n \in DOMAIN jobs |-> jobs[n].query],
       status <- CASE pc = "finished" -> "returned"
                   [] pc \in {"timeout", "error"} -> "raised"
                   [] OTHER -> "running",
       result <- IF pc = "finished" THEN done ELSE <<>>

(***************************************************************************)
(* Jobs.run implements the abstract scheduler: jobs start in the order     *)
(* queuejob numbered them, never more than maxjob at once, each completes  *)
(* once and may queue further jobs, and run() returns all of them sorted   *)
(* or raises without losing one.  A step of the poll loop or of a remote   *)
(* process is a stutter of the abstract scheduler.                         *)
(***************************************************************************)
ImplementsAbstract == A!Spec
=============================================================================
