---------------------------- MODULE JobsAbstract ----------------------------
(***************************************************************************)
(* What Jobs.run (jtacl/tools/checkpoint/jobs.py) promises its callers,    *)
(* without the poll loop, the processes or the clock: jobs are admitted    *)
(* in queue order while fewer than maxjob are in flight, a job in flight   *)
(* completes at some point and may queue new jobs as it does, and the run  *)
(* either returns every job it numbered, sorted, or raises.                *)
(***************************************************************************)
EXTENDS Naturals, Sequences, SequencesExt, FiniteSets

CONSTANTS
  Seeds,   \* the jobs queued before run()
  MaxJob   \* the maxjob argument of run()

VARIABLES
  waiting,    \* jobs queued and not admitted yet, in queue order
  active,     \* jobs admitted and not completed
  finished,   \* jobs completed
  jobnumber,  \* the next job number
  jobs,       \* job number -> what the job runs
  status,     \* "running", "returned" or "raised"
  result      \* what run() returned

avars == <<waiting, active, finished, jobnumber, jobs, status, result>>

Init ==
  /\ jobnumber = Len(Seeds)
  /\ jobs = [n \in 0 .. Len(Seeds) - 1 |-> Seeds[n + 1]]
  /\ waiting = [i \in 1 .. Len(Seeds) |-> i - 1]
  /\ active = {}
  /\ finished = {}
  /\ status = "running"
  /\ result = <<>>

(* The oldest waiting job starts, if a slot is free. *)
Admit ==
  /\ status = "running"
  /\ waiting # <<>>
  /\ Cardinality(active) < MaxJob
  /\ active' = active \cup {Head(waiting)}
  /\ waiting' = Tail(waiting)
  /\ UNCHANGED <<finished, jobnumber, jobs, status, result>>

(* A job in flight completes; its completion may number and queue any     *)
(* count of new jobs behind the waiting ones, the old jobs unchanged.     *)
Complete(j) ==
  /\ status = "running"
  /\ j \in active
  /\ active' = active \ {j}
  /\ finished' = finished \cup {j}
  /\ jobnumber' \in Nat
  /\ jobnumber' >= jobnumber
  /\ waiting' = waiting \o [i \in 1 .. jobnumber' - jobnumber |->
                              jobnumber + i - 1]
  /\ DOMAIN jobs' = 0 .. jobnumber' - 1
  /\ \A n \in DOMAIN jobs : jobs'[n] = jobs[n]
  /\ UNCHANGED <<status, result>>

(* Nothing waits and nothing is in flight: every completed job is         *)
(* returned once, in job number order.                                    *)
Return ==
  /\ status = "running"
  /\ waiting = <<>> /\ active = {}
  /\ result' = SetToSortSeq(finished, <)
  /\ status' = "returned"
  /\ UNCHANGED <<waiting, active, finished, jobnumber, jobs>>

(* The run raises: the jobs not completed stay queued or in flight, none  *)
(* is lost, none is returned.                                              *)
Raise ==
  /\ status = "running"
  /\ status' = "raised"
  /\ ToSet(waiting') \cup active' = ToSet(waiting) \cup active
  /\ UNCHANGED <<finished, jobnumber, jobs, result>>

Next == Admit \/ (\E j \in active : Complete(j)) \/ Return \/ Raise

Spec == Init /\ [][Next]_avars
=============================================================================
