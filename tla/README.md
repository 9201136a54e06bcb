# TLA+ models of the Check Point policy exporter (lsfw tools)

This directory holds TLA+ models of the concurrent part of the lsfw export
tools: the job scheduler that runs `mgmt_cli` commands over SSH in parallel,
the pagination that adds jobs while the scheduler runs, and the aggregator
that merges the pages into one JSON document. The TLC configurations check
them.

## 1. The system

The repository has six source files:

| file | role |
|---|---|
| `src/jtacl/tools/checkpoint/jobs.py` | `Jobs`, the scheduler; `Job`, the abstract job |
| `src/jtacl/tools/checkpoint/get-ckp-policies/sshjob.py` | `SshJob`, a job that runs one command over SSH with `spur` |
| `src/tools/checkpoint/get-ckp-policies/get-ckp-policies.py` | the current exporter: `MgmtCliJob`, `job_done_callback`, `CkpConfig`, `get_jobs_result`, `main` with login and logout |
| `src/jtacl/tools/checkpoint/get-ckp-policies/get-ckp-policies.py` | an older exporter: first version wins in `add_object_dict`, no session |
| `src/jtacl/tools/checkpoint/get-ckp-policies.py` | the oldest exporter: fixed page sizes, no de-duplication |
| `src/jtacl/tools/fortigate/fortigate.py` | a Fortigate exporter: five sequential REST calls |

### Components, their state and operations

**JobScheduler** (`Jobs`, jobs.py:87-159). Its state is three lists, `_waiting`,
`_running` and `_done`, and the counter `_jobnumber`.
- `queuejob` numbers a job and appends it to `_waiting`.
- `run(maxjob, timeout)` loops while some job is waiting or running. Each
  iteration does three things:
  - it promotes the head of `_waiting` to `_running` and calls `spawn`, while
    fewer than `maxjob` jobs run;
  - it polls every running job. A finished job is collected with `wait_for`,
    which runs its done callback, and is appended to `_done`. A job still
    running past `timeout` raises `JobTimeOutError`;
  - it removes the finished jobs from `_running` and sleeps 0.1 s.
- When the loop ends, `_done` is sorted by job number.

A single control thread does all of this. The remote commands run in other
processes, and the control thread only polls them.

**RemoteTask** (`SshJob`, sshjob.py; `MgmtCliJob`, get-ckp-policies.py:95-159).
- `spawn` records `spawn_time`, calls the start callback and spawns the
  command with spur.
- `is_running` asks the process whether it is still running.
- `wait_for` calls `wait_for_result`. That call raises when the command
  exited non-zero, because spur's `allow_error` is off by default. It then
  runs the done callback.

`MgmtCliJob` adds the query (`ckp_object`, `cmd_options`), the page size, the
iteration index and the iteration count. It also holds a reference to the
scheduler it belongs to.

**PaginationExpander** (`job_done_callback`, get-ckp-policies.py:251-298). When
the first page (iteration 0) of a query completes, the callback reads `total`
and computes `count = round(total / nbobjects + 0.5)`. It then queues the pages
`1 .. count-1` into the same running scheduler, in increasing order.

**ResultAggregator** (`CkpConfig`, `get_jobs_result`, get-ckp-policies.py:161-205
and 325-344). Its state is `objects_dict` (a list of objects) and
`access_layers` (a list of layers, each with a `rulebase` list). It handles
each finished job by query type:
- an `access-layers` page adds every layer it has not seen yet;
- an `access-rulebase` page extends the rules of its layer and folds its
  objects dictionary;
- a `groups` page folds each group and then each of the group's members;
- any other page folds its objects.

Folding an object (`add_object_dict`) keeps a single entry per uid. A later
version replaces the kept one only when its JSON encoding is strictly longer.
`sort` orders both lists by uid.

**Orchestration** (`main`, get-ckp-policies.py:438-559). It makes several
scheduler runs in sequence:
1. a login run, which yields the session id;
2. a run for the `access-layers` query;
3. the fold of that run's results;
4. a run for one `access-rulebase` query per layer plus 17 object queries;
5. the fold of that run's results, the sort, and the JSON output;
6. in a `finally` clause, a logout run.

### Interactions

- The scheduler calls the job's `spawn`, `is_running` and `wait_for`.
- The job calls the start and done callbacks.
- The done callback calls back into the scheduler (`job.sshjobs.queuejob`).
  So the work of a run grows while the run is in progress, and the run stops
  only at a fixed point.
- The aggregator reads `_done` after a run ends, and `main` sequences the runs.
- The session id is global state (`var['session-id']`) that every command
  string uses.

### What is hard

- Completions come out of order, while new pages are numbered in completion
  order.
- New jobs are added while the control thread iterates over `_running`.
- A remote command may fail or never end. The script notes that `mgmt_cli`
  fails to connect while the server installs a policy. Nothing but the
  timeout of `run` bounds a command that does not return.
- There is a race between a timeout and a late answer.
- One failing command aborts the whole run.
- The rounding in the page count has edge cases.
- The merge depends on the order of the folds.
- A rule base can be folded only for a layer found earlier.
- Logout runs while jobs from an aborted run are still running.

### Correctness properties per component

- **Scheduler.** No job is lost or duplicated, and `_done` comes back complete
  and in job-number order. The run always ends, by returning or by raising.
  At most `maxjob` jobs run at once.
- **Pagination.** Every object is fetched, no useless page is queued, and each
  query's pages reach `_done` in offset order.
- **Aggregator.** There is one entry per uid, and it is the most complete
  version seen. The rules of a layer keep their page order. A rule base is
  folded only into a known layer.
- **Orchestration.** Layers are fetched before rule bases. The session is
  logged out whenever login succeeded. The exported document does not depend
  on completion order.

## 2. Modules

| module | models | source |
|---|---|---|
| `Pagination` | the page count (`PyRound`: Python 3 `round` on a rational; `IterationCount`) and page offsets | get-ckp-policies.py:271-279 |
| `Jobs` | `Jobs.run`, `queuejob`, `SshJob.spawn`/`wait_for`/`is_running`, `job_done_callback`, `queue_firstcmd` | jobs.py, sshjob.py, get-ckp-policies.py |
| `MCJobs` | `Jobs` with two queries of page sizes 1 and 3 | |
| `JobsAbstract` | what `Jobs.run` promises: FIFO admission under `maxjob`, completion that may queue jobs, a sorted return or a raise; `Jobs` implements it through `A` and `ImplementsAbstract` | jobs.py:86-159 |
| `CkpConfig` | `CkpConfig` and `get_jobs_result` over the two folds of `main` | get-ckp-policies.py |
| `MCCkpConfig` | `CkpConfig` with two uids, two layers, two rules | |
| `GetCkpPolicies` | `main` of the current exporter: login run, layers run, data run, `get_jobs_result`, sort and print, logout run in `finally`; the server's session | tools/.../get-ckp-policies.py:186-559 |
| `MCGetCkpPolicies` | a fixed server: two layers, three rules, hosts and groups | |
| `GetCkpPoliciesJtacl` | `main` of the older jtacl exporter: two runs, first-wins `add_object_dict`, groups without members, no sort | jtacl/.../get-ckp-policies/get-ckp-policies.py:140-384 |
| `MCGetCkpPoliciesJtacl` | the same server without login and logout | |
| `GetCkpPoliciesOld` | `main` of the oldest exporter: a layers run with maxjob 15, a data run, no merge, layers, objects and rules appended to one `uids` list | jtacl/tools/checkpoint/get-ckp-policies.py:139-326 |
| `MCGetCkpPoliciesOld` | a server whose first layer's rulebase takes three pages | |

### Jobs: state and actions

Variables: `waiting`, `running` and `done` are the three lists of job numbers.
`jobnumber` is the counter. `jobs` maps each job number to its query,
iteration and iteration count. `process` is the state of each job's remote
command: `none`, `alive`, `ok` or `failed`. `expired` holds the jobs whose
elapsed time is past the timeout. `pc` is the control point of `run`. `idx` is
the position of the poll loop, and `polled` is the round's local `done` list.
`server` holds the number of objects the server has per query. It is chosen in
`Init` and never changes.

The control thread has one action per step of `run`:
- `RunLoop` and `RunReturn` model the while test; `RunReturn` also does the
  final sort;
- `Spawn`, `SpawnFails` and `EndPromote` model the promotion loop;
- `PollDone` covers `wait_for` and the done callback, including the
  pagination expansion;
- `PollFailed` is the case where `wait_for_result` raises;
- `PollRunning` covers the timeout test;
- `EndPoll` removes the finished jobs from `_running`.

The remote side has three actions:
- `Finish`: the command exits 0;
- `Fail`: the command exits non-zero;
- `Expire`: the job's elapsed time passes the timeout.

A command may also never end (it hangs). `Terminated` is the stuttering step
after `run` has returned or raised.

Time is abstracted to the `expired` set. The only use the code makes of time
is the test `now - spawn_time > timeout` at poll time. The clock only moves
forward, and `spawn_time` is taken in `_running` order. So `Expire` lets a job
pass the timeout only after every still-alive job spawned before it has.

### JobsAbstract and the refinement

`JobsAbstract` sees a run as sets of jobs: `waiting` (a queue), `active` (in
flight), `finished`, the numbering, `status` and the returned `result`. It has
four actions:
- `Admit` moves the head of `waiting` into `active` while fewer than `MaxJob`
  jobs are active;
- `Complete(j)` moves an active job to `finished`, and may number any count
  of new jobs and queue them behind the waiting ones;
- `Return` fires when nothing waits and nothing is active, and returns
  `finished` sorted;
- `Raise` ends the run without losing a job that was not finished.

`Jobs` defines `A == INSTANCE JobsAbstract WITH ...`:
- `active` is `_running` minus `_done`, because a polled job stays in
  `_running` until the end of its round;
- `finished` is the set of `_done`;
- `status` comes from `pc`;
- `result` is `_done` once `run` has returned.

`Spawn` is `Admit`, and `PollDone` with its callback is `Complete`.
`RunReturn` is `Return`. `SpawnFails`, `PollFailed` and a timeout are
`Raise`. Every other step is a stutter. The abstract spec has no fairness;
`RunEnds` states the liveness of the detailed one.

### Fairness

The control thread loops and sleeps, so its steps are weakly fair. The clock
always advances, so "some alive job passes the timeout" is weakly fair. No
fairness is assumed for `Finish` or `Fail`, because a remote command may hang.
Under these assumptions, `RunEnds` checks that the timeout test alone
guarantees that `run` ends.

### CkpConfig: state and actions

Variables: `objects_dict` and `access_layers` come from the code. `phase` says
which `_done` list `main` is folding: the layers run, the data run, or after
the sort. `pages` bounds the number of folds. `seen` is a history of every
object reported.

An object is abstracted to its uid and the length of its JSON encoding. Those
are the only two things `add_object_dict` looks at.

Each action folds one job of `_done`, as the branch of `get_jobs_result` for
that job does:
- `FoldLayersPage`;
- `FoldRulebasePage`, for a layer already known, because rule base queries
  are built from the layers found;
- `FoldGroupsPage`;
- `FoldObjectsPage`.

`StartData` is the switch to the second run, and `Sort` is `CkpConfig.sort`.

### GetCkpPolicies: state and actions

This module composes the others. One instance `J` of `Jobs` serves every run,
because `main` assigns a fresh `jobs.Jobs()` to the same `sshjobs`: its
variables are the module's, and `J!NewRun(seeds)` is that assignment followed
by the `queue_firstcmd` or `queuejob` calls. `J!InitRun` is the same thing as
an initial state. `C`, an instance of `CkpConfig`, supplies `add_object_dict`,
`add_access_layer` and `add_rulebase`. Only those operators are used.

The server is fixed. `Listing` gives the items of each query, and a job's
output is `Page(q, it)`, the slice at offset `nbobjects * it`. The pages that
`round()` adds past the end are therefore empty. `server` holds the totals.
An object is a record of uid, encoding length and a tag, so that two versions
of the same length can differ.

The main variables are:
- `step`, where `main` is;
- `sid`, whether `var['session-id']` has been set;
- `objects_dict` and `access_layers`;
- `exported`, whether the document has been printed;
- `server_session`, the session on the management server.

`server_session` is opened when the remote login completes and closed when
the remote logout completes. Either may happen after `main` has stopped
waiting.

The actions follow `main`:
- `RunStep` is any control step of the current `run`.
- `LoginReturn` reads the sid and starts the layers run.
- `LoginRaise` is the login run raising before the `try`, which ends `main`
  with no logout.
- `LayersReturn` is `get_jobs_result` on the layers.
- `QueueData` builds a fresh `Jobs()` with one rule base query per layer
  found, followed by the object queries.
- `DataReturn` does `get_jobs_result`, the sort and the print, then starts
  the logout run.
- `TryRaise` is a layers or data run raising: the `finally` block starts the
  logout run, and the failed run's jobs are abandoned.
- `LogoutReturn` ends `main`.
- `Remote` lets any remote command end, fail or pass the timeout. It covers
  the login and logout jobs after `main` has stopped waiting for them. A data
  or layers run that raises is replaced by the logout run (`J!NewRun`), so
  the commands that run abandoned are dropped from the model.

`GetCkpPoliciesOld` has the same shape again, with two instances of `Jobs`:
- `JL` for the layers run, whose maxjob is hard-coded to 15;
- `JD` for the data run.

The module folds nothing. `LayersReturn` starts `uids` with the layers of
the `_done` pages. `DataReturn` appends, in order:
- `get_jobs_result` of each object query;
- the rules of every `"access-rulebase"` page in `_done` order (`DoneItems`).

Items are plain uids.

`GetCkpPoliciesJtacl` has the same shape without login, logout and sort. An
exception from either run ends the program. It uses its own first-wins
`AddObjectDict`, and groups are folded as plain objects.

The fairness is that of `Jobs`: `main`'s own steps are weakly fair, and so is
the clock.

## 3. Runs

| run | cfg | expect | checks |
|---|---|---|---|
| `jobs_core` | `MCJobs.cfg` | pass | `TypeOK`, `JobConservation`, `ReturnsAllJobsInOrder`, `AllItemsFetched`, `PagesInOffsetOrder`, `ExpansionInvariant`, `RunEnds`, `ImplementsAbstract` |
| `jobs_extra_page` | `MCJobs_extra_page.cfg` | violation | `NoEmptyPageQueued` |
| `jobs_task_error` | `MCJobs_task_error.cfg` | violation | `AbortsOnlyOnTimeout` |
| `ckpconfig_merge` | `MCCkpConfig.cfg` | pass | `TypeOK`, `KeepsMostComplete` |
| `ckp_export` | `MCGetCkpPolicies.cfg` | pass | `TypeOK`, `ExportIsComplete` |
| `ckp_logout` | `MCGetCkpPolicies_logout.cfg` | pass | `LogoutFollowsLogin` |
| `ckp_export_tie` | `MCGetCkpPolicies_tie.cfg` | violation | `ExportDeterministic` |
| `jtacl_export` | `MCGetCkpPoliciesJtacl.cfg` | pass | `TypeOK`, `ExportIsComplete` |
| `old_export` | `MCGetCkpPoliciesOld.cfg` | pass | `ExportIsComplete` |

### What the passing runs check

- **`JobConservation`.** Every numbered job, including those queued by
  callbacks during the poll loop, is in exactly one list. The only exception
  is a job that was polled this round, which is in both `_running` and
  `_done` until `EndPoll`.
- **`ReturnsAllJobsInOrder`.** When `run` returns, `_done` is exactly
  `<<0, 1, ..., jobnumber-1>>`.
- **`AllItemsFetched`.** Every object of every query lies in a fetched page.
- **`PagesInOffsetOrder`.** The pages of each query come in `_done` in offset
  order. `add_rulebase` relies on this to keep a layer's rules in policy
  order.
- **`ImplementsAbstract`.** Every behaviour of `Jobs` is a behaviour of
  `JobsAbstract` under the mapping. Jobs are admitted in numbering order. At
  most `maxjob` are in flight, even while callbacks queue pages during a poll
  round. Each completes once. A raise loses no job. This is the only check
  of the `maxjob` bound.
- **`ExpansionInvariant`.** This is the spec's expansion invariant. A page
  past the first is queued only after its query's first page is in
  `_done`, and it gets a larger number. No page of a query is queued twice.
  It holds because `wait_for`, and with it the callback, runs once per job,
  and because the callback expands only iteration 0.
- **`RunEnds`.** `run` always returns or raises, even when a command hangs.
- **`KeepsMostComplete`.** After any sequence of folds, the dictionary has
  exactly one entry per uid reported, and that entry is a longest version.
- **`ExportIsComplete` (both exporters).** Over every completion order,
  failure, hang and timeout, a printed document lists every layer with every
  rule of its rule base in server order. It also has one entry for each uid
  anything listed. For the current exporter the layers are in uid order, and
  the group members count among the listed uids. This takes the page count,
  the order of the runs and `get_jobs_result` together. In these
  configurations no two pages of one query are queued together, so `_done`
  already comes in offset order and the sort at the end of `run` is not
  exercised here; `PagesInOffsetOrder` and the oldest exporter's run check it.
- **`ExportIsComplete` (oldest exporter).** The printed `uids` list has the
  layers, then the objects of each query, as listed. Then every rule of every
  listed layer follows once, with each layer's rules in policy order. Only
  the final sort of `_done` keeps the order of a layer's pages 1 and 2, which
  are queued together.
- **`LogoutFollowsLogin`.** Once the sid is set, `main` always ends through
  the logout run, whichever run raises and whichever command hangs.

### Findings from the violation runs

- **`jobs_extra_page`.** Python 3 `round` sends a tie to the even neighbour,
  so `count` is one too many when `total / nbobjects` is an odd integer. A job
  then fetches an empty page at offset `total`. The spec says `total =
  pageSize` queues no further page. The harm is one useless remote command per
  affected query.
- **`jobs_task_error`.** `AbortsOnlyOnTimeout` is an action property: the
  step that makes `run` raise must find a job still alive past the timeout.
  TLC finds a step that breaks it. An SSH connection that fails in `spawn`,
  or a command that exits non-zero in `wait_for`, raises straight out of
  `run`. That aborts the export. The spec records a task error on its task
  instead.
- **`ckp_export_tie`.** Object 5 is listed as a host, and differently but with
  the same length as a group member. Both are on second pages.
  `job_done_callback` numbers second pages when a first page completes, and
  `add_object_dict` keeps the first of two equally long versions. So the
  version printed depends on which query's first page finished first. The
  spec calls the aggregation deterministic.

### Bounds

In `MCJobs`, one query has page size 1 and totals 0..4, which gives up to 4
pages (5 when the count rounds up). The other query has page size 3, which
gives 1 or 2 pages. Together they produce up to 7 jobs. With `MaxJob = 2` the
model reaches the cases that matter:
- completions happen out of order;
- both first pages finish in either order, so the expansion numbers
  interleave;
- a partial last page occurs, and so do ties in the rounding (total = 1 or 3
  with page size 1);
- a total of 0 occurs;
- a job is still alive and past the timeout while others finish.

The run has 575k distinct states and takes under two minutes.

`MCCkpConfig` uses two uids with encodings of length 1 and 2, up to two
entries per page, and up to four folded jobs. The cases it covers:
- every order in which a short and a long version arrive;
- a uid first seen as a group member;
- a uid seen again in a rule base dictionary.

`MCGetCkpPolicies` uses one server:
- two layers, listed as `<<2, 1>>`, so the sort matters, in two pages of 2 (the
  second page is empty because of `round()`);
- a rule base of two rules, one per page, whose dictionaries bring object 9
  short then long;
- a rule base of one rule;
- two hosts and two groups.

With `MaxJob = 2` the data run has five jobs, and the passing run has 40k
states. `LogoutFollowsLogin` is checked with every listing in one page, which
gives 11k states. That is enough, because the property concerns which run
raises, not the pagination. Checking liveness on the paged model under the
clock's fairness takes TLC more than five minutes. The tie configuration
splits hosts and groups into two pages each.

`MCGetCkpPoliciesJtacl` uses the same server with 47k states.

`MCGetCkpPoliciesOld` gives the first layer three rules, one per page. Its
pages 1 and 2 are then queued together and can complete in either order,
which is the case the final sort must repair. The run has 763k states and
takes about 40 s. `jobs_core` checks the refinement on the same states of
`MCJobs`.

### Mutants

Every property of a passing run is checked against a mutant, a plausible bug
in the mapped code (see `PROJECT.json` "mutants"), and TLC reports each one as
a violation:

| property | mutant |
|---|---|
| `JobConservation` | `_waiting.remove` dropped |
| `ReturnsAllJobsInOrder` | final sort dropped |
| `AllItemsFetched` | `+ 0.5` dropped from the page count |
| `PagesInOffsetOrder` | pages queued in descending order |
| `RunEnds` | timeout test dropped |
| `KeepsMostComplete` | first version wins (the older exporter's rule) |
| `TypeOK` of `Jobs` | `queuejob` increments `_jobnumber` before numbering the job |
| `TypeOK` of `CkpConfig` | `layer['rulebase'] = []` forgotten |
| `TypeOK` of `GetCkpPolicies` and `GetCkpPoliciesJtacl` | `layer['rulebase'] = []` forgotten |
| `ExportIsComplete` (current) | `add_rulebase` forgets the objects-dictionary |
| `LogoutFollowsLogin` | logout after the `try` instead of in `finally` |
| `ExpansionInvariant` | the `if iteration == 0` test of the callback dropped |
| `ImplementsAbstract` | the promotion loop does not test `len(_running) < maxjob` |
| `ExportIsComplete` (oldest) | final sort of `_done` dropped |
| `ExportIsComplete` (jtacl) | objects appended without merging, as the oldest exporter does |

## 4. Not modelled, and why

- **Command strings, `getopts`, config checks and file output.** These are
  string building and I/O; no property depends on them. The per-page dump to
  `output_dir` is left out of the done callback for the same reason.
- **Configuration values.** `getopts` checks that each parameter is
  present. It never checks a value. With `max_job` at 0, `run` never admits a
  job and loops forever: the timeout is tested only for running jobs, so it
  never fires. A page size of 0 makes `round(total / nbobjects + 0.5)` raise
  `ZeroDivisionError` in the done callback, out of `run`. The spec leaves
  configuration loading to the excluded CLI layer. `Jobs` assumes a positive
  `MaxJob` and positive page sizes, and the hazard list records the case.
- **`error_callback`.** The current exporter passes `error_callback` to
  `SshJob.__init__` (get-ckp-policies.py:122, 358, 371). The repository's
  `sshjob.py` takes no such parameter, so that exporter was written against
  a newer `SshJob` that is not here. The model gives it the failure
  behaviour of the `SshJob` in the repository: `wait_for` raises.
- **The spur transport.** It is reduced to the remote process states.
- **`queuejob_and_run` and `SshJob.run`.** Nothing in the repository calls
  them.
- **The Fortigate exporter.** `main` makes five REST calls one after the
  other. `testresult` exits on the first call that returns an int. Otherwise
  the five lists are printed. There is no concurrency, no retry, no
  persisted state and no merge. A model would only restate that
  straight-line control, and no property of it could fail.

## 5. Plan

Done, in order of importance:
1. `Pagination` and `Jobs`, covering the scheduler and the expansion.
2. `CkpConfig`, covering the aggregator.
3. `GetCkpPolicies`, which composes `Jobs` and `CkpConfig` as `main` does.
   It checks the completeness of the export and the logout. It also found the
   tie finding.
4. `GetCkpPoliciesJtacl`, the older exporter, and its completeness.
5. `JobsAbstract` and the refinement `ImplementsAbstract`.
6. `GetCkpPoliciesOld`, the oldest exporter, and the order of its flat
   rule list.

7. The ordered clock (`Expire` follows spawn order) and
   `ExpansionInvariant`.
8. `AbortsOnlyOnTimeout`, the task-error finding stated as an action
   property.

Left open:
- A mix of login-style and paged jobs in one run. `main` never builds such a
  run: the login and logout jobs each run alone. So `MCJobs` pages both of
  its queries.
- The configuration values (`max_job` or a page size of 0). See "Not
  modelled"; a violation run for them would show a hang that only a bad
  configuration file reaches.
