------------------------------- MODULE Scheduler -------------------------------
(***************************************************************************)
(* One scheduled task on several workers: SchedulerService                 *)
(* (scheduler/scheduler.service.ts) calls DefaultSchedulerStrategy         *)
(* (plugin/default-scheduler-plugin/default-scheduler-strategy.ts) at      *)
(* every scheduled time, and the row of the task is the lock that the      *)
(* workers share.  StaleTaskService clears locks that were left behind.    *)
(*                                                                         *)
(* Every query is a step of its own.  Time is a counter: queries, cron     *)
(* jobs and timers are assumed to take less than a tick of it (Prompt),    *)
(* but not to come in any order within a tick.                             *)
(***************************************************************************)
EXTENDS Naturals, FiniteSets

CONSTANTS
  Workers,       \* the processes with shouldRunTasks
  Interval,      \* between two scheduled times, which are its multiples
  Timeout,       \* of the task: nothing relates it to the interval
  Slots,         \* bound on the runs of a worker that overlap
  MaxRuns,       \* bound on the runs of all workers that overlap
  MaxTime,       \* bound on the time
  MaxFailures    \* bound on the workers that die or are shut down, and on the
                 \* outcomes that get lost

ASSUME ConstantsAssumption ==
  /\ {Interval, Timeout, MaxRuns, MaxTime} \subseteq Nat \ {0}
  /\ MaxFailures \in Nat

(* A worker runs the task for its cron job, and for a manual trigger, and waits
   for neither: they overlap. *)
Runs == Workers \X Slots

VARIABLES
  now,        \* the time, from 1
  row,        \* the ScheduledTaskRecord; a lockedAt that is null is 0, and of
              \* lastExecutedAt, whether it is since the last scheduled time
  phase,      \* of every worker: "up", "closing" or "down"
  due,        \* workers whose cron job is to fire now
  timed,      \* runs of cron jobs that are on their way to the lock
  pc,         \* what every run does next; or "idle"
  since,      \* when the task of the run was started; or 0
  observed,   \* the stale lockedAt a run has read; or 0
  listed,     \* workers with the task among their runningTasks
  crashes,    \* so far
  shutdowns,  \* so far
  overran     \* whether a lock was cleared as stale while a run was busy

vars == <<now, row, phase, due, timed, pc, since, observed, listed, crashes,
          shutdowns, overran>>

Init ==
  /\ now = 1
  /\ row = [enabled |-> TRUE, lockedAt |-> 0, executed |-> FALSE, triggered |-> FALSE]
  /\ phase = [w \in Workers |-> "up"]
  /\ due = {}
  /\ timed = {}
  /\ pc = [r \in Runs |-> "idle"]
  /\ since = [r \in Runs |-> 0]
  /\ observed = [r \in Runs |-> 0]
  /\ listed = {}
  /\ crashes = 0
  /\ shutdowns = 0
  /\ overran = FALSE

-----------------------------------------------------------------------------
(* The API: updateTask and triggerTask. *)
SetEnabled(b) ==
  /\ row' = [row EXCEPT !.enabled = b]
  /\ UNCHANGED <<now, phase, due, timed, pc, since, observed, listed, crashes, shutdowns, overran>>

Trigger ==
  /\ row' = [row EXCEPT !.triggered = TRUE]
  /\ UNCHANGED <<now, phase, due, timed, pc, since, observed, listed, crashes, shutdowns, overran>>

-----------------------------------------------------------------------------
Room == Cardinality({r \in Runs : pc[r] # "idle"}) < MaxRuns

(* The callback of the cron job, which does not wait for the task.  Nothing
   stops it before the shutdown does. *)
Fire(r) ==
  /\ r[1] \in due
  /\ pc[r] = "idle" /\ Room
  /\ due' = due \ {r[1]}
  /\ timed' = timed \cup {r}
  /\ pc' = [pc EXCEPT ![r] = "fetch"]
  /\ UNCHANGED <<now, row, phase, since, observed, listed, crashes, shutdowns, overran>>

(* checkForManuallyTriggeredTasks: the triggered tasks are selected ... *)
SeeTrigger(r) ==
  /\ phase[r[1]] = "up"
  /\ row.triggered
  /\ pc[r] = "idle" /\ Room
  /\ pc' = [pc EXCEPT ![r] = "triggered"]
  /\ UNCHANGED <<now, row, phase, due, timed, since, observed, listed, crashes, shutdowns, overran>>

(* ... the mark is taken off, and the task is executed, without waiting. *)
TakeTrigger(r) ==
  /\ pc[r] = "triggered"
  /\ row' = [row EXCEPT !.triggered = FALSE]
  /\ pc' = [pc EXCEPT ![r] = "fetch"]
  /\ UNCHANGED <<now, phase, due, timed, since, observed, listed, crashes, shutdowns, overran>>

-----------------------------------------------------------------------------
(* executeTask *)

(* It executes the task, or has its outcome to store. *)
Busy(r) == pc[r] \in {"executing", "succeeded", "failed"}

IsStale(lockedAt) == lockedAt # 0 /\ now - lockedAt > Interval

(* Mutant of FetchLock: stale locks are not looked for. *)
FetchNothing(r) ==
  /\ pc[r] = "fetch"
  /\ pc' = [pc EXCEPT ![r] = "take"]
  /\ UNCHANGED <<now, row, phase, due, timed, since, observed, listed, crashes, shutdowns, overran>>

FetchLock(r) ==
  /\ pc[r] = "fetch"
  /\ IF IsStale(row.lockedAt)
     THEN /\ observed' = [observed EXCEPT ![r] = row.lockedAt]
          /\ pc' = [pc EXCEPT ![r] = "clear"]
     ELSE /\ pc' = [pc EXCEPT ![r] = "take"]
          /\ UNCHANGED observed
  /\ UNCHANGED <<now, row, phase, due, timed, since, listed, crashes, shutdowns, overran>>

(* Mutant of ClearStaleLock: the row is found by its task alone. *)
ClearAnyLock(r) ==
  /\ pc[r] = "clear"
  /\ row' = [row EXCEPT !.lockedAt = 0]
  /\ overran' = (overran \/ (row.lockedAt = observed[r] /\ \E s \in Runs : Busy(s)))
  /\ observed' = [observed EXCEPT ![r] = 0]
  /\ pc' = [pc EXCEPT ![r] = "take"]
  /\ UNCHANGED <<now, phase, due, timed, since, listed, crashes, shutdowns>>

ClearStaleLock(r) ==
  /\ pc[r] = "clear"
  /\ row' = [row EXCEPT !.lockedAt = IF @ = observed[r] THEN 0 ELSE @]
  /\ overran' = (overran \/ (row.lockedAt = observed[r] /\ \E s \in Runs : Busy(s)))
  /\ observed' = [observed EXCEPT ![r] = 0]
  /\ pc' = [pc EXCEPT ![r] = "take"]
  /\ UNCHANGED <<now, phase, due, timed, since, listed, crashes, shutdowns>>

(* Mutant of Start: the lock is given a time to expire. *)
StartLeased(r) ==
  /\ pc[r] = "take"
  /\ row.lockedAt = 0
  /\ row.enabled
  /\ row' = [row EXCEPT !.lockedAt = now + Timeout]
  /\ since' = [since EXCEPT ![r] = now]
  /\ listed' = listed \cup {r[1]}
  /\ timed' = timed \ {r}
  /\ pc' = [pc EXCEPT ![r] = "executing"]
  /\ UNCHANGED <<now, phase, due, observed, crashes, shutdowns, overran>>

(* The update that takes the lock finds the row, and the task starts ... *)
Start(r) ==
  /\ pc[r] = "take"
  /\ row.lockedAt = 0
  /\ row.enabled
  /\ row' = [row EXCEPT !.lockedAt = now]
  /\ since' = [since EXCEPT ![r] = now]
  /\ listed' = listed \cup {r[1]}
  /\ timed' = timed \ {r}
  /\ pc' = [pc EXCEPT ![r] = "executing"]
  /\ UNCHANGED <<now, phase, due, observed, crashes, shutdowns, overran>>

(* ... or it does not. *)
Skip(r) ==
  /\ pc[r] = "take"
  /\ row.lockedAt # 0 \/ ~row.enabled
  /\ timed' = timed \ {r}
  /\ pc' = [pc EXCEPT ![r] = "idle"]
  /\ UNCHANGED <<now, row, phase, due, since, observed, listed, crashes, shutdowns, overran>>

(* The race is over: the task returned, or it threw or timed out. *)
Ends(r, outcome) ==
  /\ pc[r] = "executing"
  /\ since' = [since EXCEPT ![r] = 0]
  /\ pc' = [pc EXCEPT ![r] = outcome]
  /\ UNCHANGED <<now, row, phase, due, timed, observed, listed, crashes, shutdowns, overran>>

(* The row is found by its task: whoever has the lock loses it. *)
StoreOutcome(r) ==
  /\ pc[r] \in {"succeeded", "failed"}
  /\ row' = [row EXCEPT !.lockedAt = 0,
                        !.executed = @ \/ pc[r] = "succeeded"]
  /\ pc' = [pc EXCEPT ![r] = "leaving"]
  /\ UNCHANGED <<now, phase, due, timed, since, observed, listed, crashes, shutdowns, overran>>

(* runningTasks is filtered by task. *)
Leave(r) ==
  /\ pc[r] = "leaving"
  /\ listed' = listed \ {r[1]}
  /\ pc' = [pc EXCEPT ![r] = "idle"]
  /\ UNCHANGED <<now, row, phase, due, timed, since, observed, crashes, shutdowns, overran>>

(* The update fails, and so does the one of the catch clause. *)
OutcomeLost(r) ==
  /\ crashes + shutdowns < MaxFailures
  /\ pc[r] \in {"succeeded", "failed"}
  /\ pc' = [pc EXCEPT ![r] = "idle"]
  /\ crashes' = crashes + 1
  /\ UNCHANGED <<now, row, phase, due, timed, since, observed, listed, shutdowns, overran>>

-----------------------------------------------------------------------------
(* Shutdown, crash and restart of a worker. *)

(* destroy: the locks of runningTasks are released, by task; the tasks go on.
   Cron jobs are stopped by another component, before or after it. *)
Destroy(w) ==
  /\ crashes + shutdowns < MaxFailures
  /\ phase[w] = "up"
  /\ phase' = [phase EXCEPT ![w] = "closing"]
  /\ row' = [row EXCEPT !.lockedAt = IF w \in listed THEN 0 ELSE @]
  /\ shutdowns' = shutdowns + 1
  /\ UNCHANGED <<now, due, timed, pc, since, observed, listed, crashes, overran>>

(* The process is gone, with its runs. *)
Gone(w) ==
  /\ phase' = [phase EXCEPT ![w] = "down"]
  /\ due' = due \ {w}
  /\ timed' = {r \in timed : r[1] # w}
  /\ pc' = [r \in Runs |-> IF r[1] = w THEN "idle" ELSE pc[r]]
  /\ since' = [r \in Runs |-> IF r[1] = w THEN 0 ELSE since[r]]
  /\ observed' = [r \in Runs |-> IF r[1] = w THEN 0 ELSE observed[r]]
  /\ listed' = listed \ {w}
  /\ UNCHANGED <<now, row, shutdowns, overran>>

Exit(w) == phase[w] = "closing" /\ Gone(w) /\ UNCHANGED crashes

Crash(w) ==
  /\ crashes + shutdowns < MaxFailures
  /\ phase[w] # "down"
  /\ crashes' = crashes + 1
  /\ Gone(w)

Restart(w) ==
  /\ phase[w] = "down"
  /\ phase' = [phase EXCEPT ![w] = "up"]
  /\ UNCHANGED <<now, row, due, timed, pc, since, observed, listed, crashes, shutdowns, overran>>

-----------------------------------------------------------------------------
(* No timer is late, no query takes longer than a tick, and some worker is
   there. *)
Prompt ==
  /\ due = {}
  /\ \A r \in Runs :
       \/ pc[r] = "idle"
       \/ pc[r] = "executing" /\ now - since[r] < Timeout
  /\ \E w \in Workers : phase[w] = "up"

Tick ==
  /\ Prompt
  /\ now < MaxTime
  /\ now' = now + 1
  /\ LET scheduled == (now + 1) % Interval = 0
     IN  /\ due' = {w \in Workers : scheduled /\ phase[w] = "up"}
         /\ row' = [row EXCEPT !.executed = @ /\ ~scheduled]
  /\ UNCHANGED <<phase, timed, pc, since, observed, listed, crashes, shutdowns, overran>>

RunStep(r) ==
  \/ Fire(r) \/ SeeTrigger(r)
  \/ TakeTrigger(r) \/ FetchLock(r) \/ ClearStaleLock(r) \/ Start(r) \/ Skip(r)
  \/ \E outcome \in {"succeeded", "failed"} : Ends(r, outcome)
  \/ StoreOutcome(r) \/ Leave(r) \/ OutcomeLost(r)

WorkerStep(w) == Destroy(w) \/ Exit(w) \/ Crash(w) \/ Restart(w)

Next ==
  \/ \E b \in BOOLEAN : SetEnabled(b)
  \/ Trigger
  \/ \E r \in Runs : RunStep(r)
  \/ \E w \in Workers : WorkerStep(w)
  \/ Tick

Spec == Init /\ [][Next]_vars

-----------------------------------------------------------------------------
TypeOK ==
  /\ now \in 1 .. MaxTime
  /\ row \in [enabled: BOOLEAN, lockedAt: 0 .. MaxTime,
              executed: BOOLEAN, triggered: BOOLEAN]
  /\ phase \in [Workers -> {"up", "closing", "down"}]
  /\ due \subseteq Workers
  /\ timed \subseteq Runs
  /\ pc \in [Runs -> {"idle", "triggered", "fetch", "clear", "take", "executing",
                      "succeeded", "failed", "leaving"}]
  /\ since \in [Runs -> 0 .. MaxTime]
  /\ observed \in [Runs -> 0 .. MaxTime]
  /\ listed \subseteq Workers
  /\ crashes \in 0 .. MaxFailures
  /\ shutdowns \in 0 .. MaxFailures
  /\ overran \in BOOLEAN

(* "only a single worker is allowed to execute the task": as long as no worker
   was shut down, no two runs execute the task, or have its outcome to store,
   at once.  Locks of dead workers are cleared meanwhile by several workers at
   a time.  Only a task whose timeout exceeds its interval may be started twice,
   after its lock was taken for stale under a run.  A task that has timed out is
   no longer executed for the strategy, although it may go on. *)
OneRunAtATime ==
  shutdowns = 0 /\ (overran => Timeout =< Interval) =>
    \A r, s \in Runs : Busy(r) /\ Busy(s) => r = s

(* "Failure to clean these stale locks will prevent the task from ever running
   again": whatever goes wrong, no lock gets older than one interval, and one
   more for everything that leaves it where it is: for every failure, of which
   the first leaves the lock behind, and any other may be that of the worker
   which was about to clear it, and for a task that may outlive its interval. *)
StaleLocksCleared ==
  row.lockedAt # 0 =>
    LET delays == crashes + shutdowns + (IF Timeout > Interval THEN 1 ELSE 0) IN
    now - row.lockedAt =< (delays + 1) * Interval

-----------------------------------------------------------------------------
(* What the documentation says, and the code does not keep to.             *)

(* "a given task is executed exactly once at the scheduled time": a cron job
   does not start the task when it was executed since the scheduled time. *)
OncePerScheduledTime ==
  [][\A r \in Runs :
       r \in timed /\ pc[r] = "take" /\ pc'[r] = "executing" => ~row.executed]_vars

=============================================================================
