--------------------------- MODULE Background_proofs ---------------------------
(***************************************************************************)
(* What no request waits for.  The lock of Scheduler excludes, and is not  *)
(* there for ever: for any number of workers, and whatever bounds the      *)
(* time, the crashes and the shutdowns have.  Subscribers of               *)
(* EventBusTransactions are called after the commit, and no transaction    *)
(* stays open: for any number of requests and events.                      *)
(***************************************************************************)
EXTENDS Scheduler, EventBusTransactions, TLAPS

(* The worker of a run. *)
LEMMA RunsAreOfWorkers == \A r \in Runs : r[1] \in Workers
BY DEF Runs

-----------------------------------------------------------------------------
(* Types *)

LEMMA InitTyped == Init => TypeOK
<1>1. 1 \in 1 .. MaxTime /\ 0 \in 0 .. MaxTime /\ 0 \in 0 .. MaxFailures
  BY ConstantsAssumption
<1> SUFFICES ASSUME Init PROVE TypeOK
  OBVIOUS
<1>2. row \in [enabled: BOOLEAN, lockedAt: 0 .. MaxTime,
              executed: BOOLEAN, triggered: BOOLEAN]
  BY <1>1 DEF Init
<1>3. /\ pc \in [Runs -> {"idle", "triggered", "fetch", "clear", "take", "executing",
                          "succeeded", "failed", "leaving"}]
      /\ since \in [Runs -> 0 .. MaxTime] /\ observed \in [Runs -> 0 .. MaxTime]
      /\ phase \in [Workers -> {"up", "closing", "down"}]
  BY <1>1 DEF Init
<1>4. now \in 1 .. MaxTime /\ crashes \in 0 .. MaxFailures /\ shutdowns \in 0 .. MaxFailures
  BY <1>1 DEF Init
<1>5. due \subseteq Workers /\ timed \subseteq Runs /\ listed \subseteq Workers
      /\ overran \in BOOLEAN
  BY DEF Init
<1>. QED
  BY <1>2, <1>3, <1>4, <1>5 DEF TypeOK

(* The type of the row survives the update of one field. *)
LEMMA RowUpdates ==
  ASSUME NEW o \in [enabled: BOOLEAN, lockedAt: 0 .. MaxTime,
                    executed: BOOLEAN, triggered: BOOLEAN]
  PROVE  /\ \A t \in 0 .. MaxTime :
              [o EXCEPT !.lockedAt = t] \in
                [enabled: BOOLEAN, lockedAt: 0 .. MaxTime,
                 executed: BOOLEAN, triggered: BOOLEAN]
         /\ \A b \in BOOLEAN :
              [o EXCEPT !.executed = b] \in
                [enabled: BOOLEAN, lockedAt: 0 .. MaxTime,
                 executed: BOOLEAN, triggered: BOOLEAN]
OBVIOUS

LEMMA RunStepTyped ==
  ASSUME TypeOK, NEW r \in Runs, RunStep(r)
  PROVE  TypeOK'
<1> USE DEF TypeOK
<1>10. CASE Fire(r)
  BY <1>10 DEF Fire
<1>11. CASE SeeTrigger(r)
  BY <1>11 DEF SeeTrigger
<1>1. CASE TakeTrigger(r)
  BY <1>1 DEF TakeTrigger
<1>2. CASE FetchLock(r)
  BY <1>2 DEF FetchLock
<1>3. CASE ClearStaleLock(r)
  <2> DEFINE lockedAt == IF row.lockedAt = observed[r] THEN 0 ELSE row.lockedAt
  <2>1. lockedAt \in 0 .. MaxTime
    BY ConstantsAssumption
  <2>2. row' = [row EXCEPT !.lockedAt = lockedAt]
    BY <1>3 DEF ClearStaleLock
  <2>3. row' \in [enabled: BOOLEAN, lockedAt: 0 .. MaxTime,
                  executed: BOOLEAN, triggered: BOOLEAN]
    <3> HIDE DEF lockedAt
    <3> QED
      BY <2>1, <2>2, RowUpdates
  <2>4. [observed EXCEPT ![r] = 0] \in [Runs -> 0 .. MaxTime]
    BY ConstantsAssumption
  <2>5. overran' \in BOOLEAN
    BY <1>3 DEF ClearStaleLock
  <2> QED
    BY <1>3, <2>3, <2>4, <2>5 DEF ClearStaleLock
<1>4. CASE Start(r)
  <2>1. now \in 0 .. MaxTime /\ r[1] \in Workers
    BY RunsAreOfWorkers
  <2>2. row' \in [enabled: BOOLEAN, lockedAt: 0 .. MaxTime,
                  executed: BOOLEAN, triggered: BOOLEAN]
    BY <1>4, <2>1, RowUpdates DEF Start
  <2>3. [since EXCEPT ![r] = now] \in [Runs -> 0 .. MaxTime]
    BY <2>1
  <2>4. pc' \in [Runs -> {"idle", "triggered", "fetch", "clear", "take",
                          "executing", "succeeded", "failed", "leaving"}]
    BY <1>4 DEF Start
  <2>5. /\ since' \in [Runs -> 0 .. MaxTime]
        /\ listed' \subseteq Workers /\ timed' \subseteq Runs
    BY <1>4, <2>1, <2>3 DEF Start
  <2> QED
    BY <1>4, <2>2, <2>4, <2>5 DEF Start
<1>5. CASE Skip(r)
  BY <1>5 DEF Skip
<1>6. CASE \E outcome \in {"succeeded", "failed"} : Ends(r, outcome)
  <2> PICK outcome \in {"succeeded", "failed"} : Ends(r, outcome)
    BY <1>6
  <2>1. [pc EXCEPT ![r] = outcome] \in
          [Runs -> {"idle", "triggered", "fetch", "clear", "take", "executing",
                    "succeeded", "failed", "leaving"}]
    OBVIOUS
  <2>2. [since EXCEPT ![r] = 0] \in [Runs -> 0 .. MaxTime]
    BY ConstantsAssumption
  <2> QED
    BY <2>1, <2>2 DEF Ends
<1>7. CASE StoreOutcome(r)
  <2> DEFINE unlocked == [row EXCEPT !.lockedAt = 0]
             executed == row.executed \/ pc[r] = "succeeded"
  <2>1. row' = [unlocked EXCEPT !.executed = executed]
    BY <1>7 DEF StoreOutcome
  <2>2. executed \in BOOLEAN /\ 0 \in 0 .. MaxTime
    BY ConstantsAssumption
  <2>3. [unlocked EXCEPT !.executed = executed] \in
          [enabled: BOOLEAN, lockedAt: 0 .. MaxTime,
           executed: BOOLEAN, triggered: BOOLEAN]
    <3> HIDE DEF executed
    <3> QED
      BY <2>2, RowUpdates
  <2> HIDE DEF unlocked, executed
  <2> QED
    BY <1>7, <2>1, <2>3 DEF StoreOutcome
<1>8. CASE Leave(r)
  BY <1>8 DEF Leave
<1>9. CASE OutcomeLost(r)
  BY <1>9, ConstantsAssumption DEF OutcomeLost
<1> QED
  BY <1>1, <1>2, <1>3, <1>4, <1>5, <1>6, <1>7, <1>8, <1>9, <1>10, <1>11 DEF RunStep

LEMMA GoneTyped ==
  ASSUME TypeOK, NEW w \in Workers, Gone(w), crashes' \in 0 .. MaxFailures
  PROVE  TypeOK'
BY ConstantsAssumption DEF TypeOK, Gone

LEMMA WorkerStepTyped ==
  ASSUME TypeOK, NEW w \in Workers, WorkerStep(w)
  PROVE  TypeOK'
<1>3. CASE Destroy(w)
  BY <1>3, ConstantsAssumption DEF Destroy, TypeOK
<1>4. CASE Exit(w)
  <2>1. Gone(w) /\ crashes' \in 0 .. MaxFailures
    BY <1>4 DEF Exit, TypeOK
  <2> QED
    BY <2>1, GoneTyped
<1>5. CASE Crash(w)
  <2>1. Gone(w) /\ crashes' \in 0 .. MaxFailures
    BY <1>5, ConstantsAssumption DEF Crash, TypeOK
  <2> QED
    BY <2>1, GoneTyped
<1>6. CASE Restart(w)
  BY <1>6 DEF Restart, TypeOK
<1> QED
  BY <1>3, <1>4, <1>5, <1>6 DEF WorkerStep

LEMMA NextTyped == TypeOK /\ [Next]_vars => TypeOK'
<1> SUFFICES ASSUME TypeOK, [Next]_vars PROVE TypeOK'
  OBVIOUS
<1>1. CASE \E b \in BOOLEAN : SetEnabled(b)
  BY <1>1 DEF SetEnabled, TypeOK
<1>2. CASE Trigger
  BY <1>2 DEF Trigger, TypeOK
<1>3. CASE \E r \in Runs : RunStep(r)
  BY <1>3, RunStepTyped
<1>4. CASE \E w \in Workers : WorkerStep(w)
  BY <1>4, WorkerStepTyped
<1>5. CASE Tick
  <2> DEFINE scheduled == (now + 1) % Interval = 0
             executed == row.executed /\ ~scheduled
             fired == {w \in Workers : scheduled /\ phase[w] = "up"}
  <2>1. /\ now' = now + 1 /\ now < MaxTime
        /\ due' = fired
        /\ row' = [row EXCEPT !.executed = executed]
        /\ UNCHANGED <<phase, timed, pc, since, observed, listed, crashes, shutdowns,
                       overran>>
    BY <1>5 DEF Tick
  <2>2. executed \in BOOLEAN
    BY DEF TypeOK
  <2>3. fired \subseteq Workers
    OBVIOUS
  <2> HIDE DEF scheduled, executed, fired
  <2>4. row' \in [enabled: BOOLEAN, lockedAt: 0 .. MaxTime,
                  executed: BOOLEAN, triggered: BOOLEAN]
    BY <2>1, <2>2, RowUpdates DEF TypeOK
  <2>5. now' \in 1 .. MaxTime
    BY <2>1, ConstantsAssumption DEF TypeOK
  <2> QED
    BY <2>1, <2>3, <2>4, <2>5 DEF TypeOK
<1>6. CASE UNCHANGED vars
  BY <1>6 DEF vars, TypeOK
<1> QED
  BY <1>1, <1>2, <1>3, <1>4, <1>5, <1>6 DEF Next

(* Every object of the scheduler has its type. *)
THEOREM SchedulerTyped == Spec => []TypeOK
BY InitTyped, NextTyped, PTL DEF Spec

-----------------------------------------------------------------------------
(* Exclusion *)

(* A busy run has the lock, which is not older than the timeout ... *)
BusyHasLock ==
  \A r \in Runs :
    Busy(r) => /\ row.lockedAt # 0
               /\ now =< row.lockedAt + Timeout
               /\ pc[r] = "executing" => since[r] = row.lockedAt

(* ... so that a lock that a run is about to clear, which it found to be older
   than the interval, is of none. *)
ObservedIsStale ==
  \A r \in Runs :
    pc[r] = "clear" => observed[r] # 0 /\ now > observed[r] + Interval

OneBusy == \A r, s \in Runs : Busy(r) /\ Busy(s) => r = s

(* As long as no worker was shut down, until a lock is cleared under its run: it
   is older than the interval then, and not than the timeout. *)
LockInv ==
  shutdowns = 0 =>
    IF overran THEN Timeout > Interval
               ELSE BusyHasLock /\ ObservedIsStale /\ OneBusy

LEMMA LockInvExcludes == LockInv => OneRunAtATime
BY ConstantsAssumption DEF LockInv, OneBusy, OneRunAtATime

LEMMA InitLockInv == Init => LockInv
BY DEF Init, LockInv, BusyHasLock, ObservedIsStale, OneBusy, Busy

LEMMA RunStepLockInv ==
  ASSUME TypeOK, LockInv, NEW r \in Runs, RunStep(r)
  PROVE  LockInv'
<1> USE DEF TypeOK, LockInv, BusyHasLock, ObservedIsStale, OneBusy, Busy
<1> USE ConstantsAssumption
<1>10. CASE Fire(r)
  BY <1>10 DEF Fire
<1>11. CASE SeeTrigger(r)
  BY <1>11 DEF SeeTrigger
<1>1. CASE TakeTrigger(r)
  BY <1>1 DEF TakeTrigger
<1>2. CASE FetchLock(r)
  BY <1>2 DEF FetchLock, IsStale
<1>3. CASE ClearStaleLock(r)
  <2> SUFFICES ASSUME shutdowns = 0, ~overran
               PROVE  IF overran' THEN Timeout > Interval
                                  ELSE (BusyHasLock /\ ObservedIsStale /\ OneBusy)'
    BY <1>3 DEF ClearStaleLock
  <2>1. observed[r] # 0 /\ now > observed[r] + Interval
    BY <1>3 DEF ClearStaleLock
  <2>2. CASE overran'
    <3>1. PICK s \in Runs : Busy(s)
      BY <1>3, <2>2 DEF ClearStaleLock
    <3>2. row.lockedAt = observed[r]
      BY <1>3, <2>2 DEF ClearStaleLock
    <3>3. now =< row.lockedAt + Timeout
      BY <3>1
    <3>. QED
      BY <2>1, <2>2, <3>2, <3>3
  <2>3. CASE ~overran'
    <3>1. \A s \in Runs : Busy(s) => row'.lockedAt = row.lockedAt
      BY <1>3, <2>3 DEF ClearStaleLock
    <3>. QED
      BY <1>3, <2>3, <3>1 DEF ClearStaleLock
  <2> QED
    BY <2>2, <2>3
<1>4. CASE Start(r)
  BY <1>4 DEF Start
<1>5. CASE Skip(r)
  BY <1>5 DEF Skip
<1>6. CASE \E outcome \in {"succeeded", "failed"} : Ends(r, outcome)
  BY <1>6 DEF Ends
<1>7. CASE StoreOutcome(r)
  BY <1>7 DEF StoreOutcome
<1>8. CASE Leave(r)
  BY <1>8 DEF Leave
<1>9. CASE OutcomeLost(r)
  BY <1>9 DEF OutcomeLost
<1> QED
  BY <1>1, <1>2, <1>3, <1>4, <1>5, <1>6, <1>7, <1>8, <1>9, <1>10, <1>11 DEF RunStep

LEMMA WorkerStepLockInv ==
  ASSUME TypeOK, LockInv, NEW w \in Workers, WorkerStep(w)
  PROVE  LockInv'
<1> USE DEF TypeOK, LockInv, BusyHasLock, ObservedIsStale, OneBusy, Busy
<1>3. CASE Destroy(w)
  <2>1. shutdowns' # 0
    BY <1>3, ConstantsAssumption DEF Destroy
  <2> QED
    BY <2>1
<1>4. ASSUME Gone(w) PROVE LockInv'
  BY <1>4 DEF Gone
<1>5. CASE Exit(w) \/ Crash(w)
  BY <1>4, <1>5 DEF Exit, Crash
<1>6. CASE Restart(w)
  BY <1>6 DEF Restart
<1> QED
  BY <1>3, <1>5, <1>6 DEF WorkerStep

LEMMA TickLockInv ==
  ASSUME TypeOK, LockInv, Tick
  PROVE  LockInv'
<1> SUFFICES ASSUME shutdowns = 0, ~overran
             PROVE  (BusyHasLock /\ ObservedIsStale /\ OneBusy)'
  BY DEF LockInv, Tick
<1>1. /\ now' = now + 1 /\ row'.lockedAt = row.lockedAt
      /\ pc' = pc /\ since' = since /\ observed' = observed
  BY DEF Tick, TypeOK
<1>2. \A r \in Runs : pc[r] \in {"idle", "executing"}
  BY DEF Tick, Prompt
<1>3. \A r \in Runs : Busy(r) => now - since[r] < Timeout
  BY DEF Tick, Prompt, Busy
<1>4. ObservedIsStale'
  BY <1>1, <1>2 DEF ObservedIsStale
<1>5. OneBusy'
  BY <1>1 DEF LockInv, OneBusy, Busy
<1>6. BusyHasLock'
  BY <1>1, <1>2, <1>3, ConstantsAssumption DEF LockInv, BusyHasLock, Busy, TypeOK
<1> QED
  BY <1>4, <1>5, <1>6

LEMMA NextLockInv == TypeOK /\ LockInv /\ [Next]_vars => LockInv'
<1> SUFFICES ASSUME TypeOK, LockInv, [Next]_vars PROVE LockInv'
  OBVIOUS
<1> USE DEF LockInv, BusyHasLock, ObservedIsStale, OneBusy, Busy
<1>1. CASE \E b \in BOOLEAN : SetEnabled(b)
  BY <1>1 DEF SetEnabled, TypeOK
<1>2. CASE Trigger
  BY <1>2 DEF Trigger, TypeOK
<1>3. CASE \E r \in Runs : RunStep(r)
  BY <1>3, RunStepLockInv
<1>4. CASE \E w \in Workers : WorkerStep(w)
  BY <1>4, WorkerStepLockInv
<1>5. CASE Tick
  BY <1>5, TickLockInv
<1>6. CASE UNCHANGED vars
  BY <1>6 DEF vars
<1> QED
  BY <1>1, <1>2, <1>3, <1>4, <1>5, <1>6 DEF Next

(* A task is executed by one run at a time, by the lock of
   DefaultSchedulerStrategy, with workers that die, locks that are cleared by
   several at a time, and outcomes that are not stored: unless a worker was shut
   down, or a timeout longer than the interval has let a lock be cleared under
   the run that has it.  For every timeout and interval. *)
THEOREM OneRunHolds == Spec => []OneRunAtATime
<1>1. Init => TypeOK /\ LockInv
  BY InitTyped, InitLockInv
<1>2. TypeOK /\ LockInv /\ [Next]_vars => (TypeOK /\ LockInv)'
  BY NextTyped, NextLockInv
<1>3. TypeOK /\ LockInv => OneRunAtATime
  BY LockInvExcludes
<1> QED
  BY <1>1, <1>2, <1>3, PTL DEF Spec

-----------------------------------------------------------------------------
(* Locks that are left behind *)

Failures == crashes + shutdowns

(* What leaves a lock where it is. *)
Delays == Failures + (IF Timeout > Interval THEN 1 ELSE 0)

(* The first scheduled time at which a lock taken at time t is stale, and the
   one by which a lock is cleared, with one interval lost to every delay but the
   first. *)
ClearTime(t) == Interval * (t \div Interval + 2)
Latest == ClearTime(row.lockedAt) + (Delays - 1) * Interval

(* A worker that is there will look at the lock, or is about to clear it. *)
Clears(w) ==
  /\ phase[w] = "up"
  /\ \/ w \in due
     \/ \E r \in Runs :
          /\ r[1] = w
          /\ pc[r] = "fetch" \/ (pc[r] = "clear" /\ observed[r] = row.lockedAt)

NoneClosing == shutdowns = 0 => \A w \in Workers : phase[w] # "closing"

(* A lock is of a busy run unless something failed; if it is left there, or may
   outlive the interval, it is cleared in time. *)
HeldUnlessFailed ==
  row.lockedAt # 0 /\ Delays = 0 => \E r \in Runs : Busy(r)

ClearedInTime ==
  row.lockedAt # 0 /\ Delays # 0 =>
    now =< Latest /\ (now = Latest => \E w \in Workers : Clears(w))

StaleInv ==
  /\ NoneClosing
  /\ row.lockedAt =< now
  /\ HeldUnlessFailed
  /\ ClearedInTime

LEMMA ClearTimeIs ==
  ASSUME NEW t \in Nat
  PROVE  /\ ClearTime(t) \in Nat
         /\ t + Interval < ClearTime(t)
         /\ ClearTime(t) =< t + 2 * Interval
<1> DEFINE k == t \div Interval
<1>1. Interval \in Nat \ {0}
  BY ConstantsAssumption
<1>2. k \in Nat /\ Interval * k =< t /\ t < Interval * k + Interval
  BY <1>1
<1>3. ClearTime(t) = Interval * (k + 2)
  BY DEF ClearTime
<1> HIDE DEF k
<1>4. Interval * (k + 2) = Interval * k + 2 * Interval /\ Interval * k \in Nat
  BY <1>1, <1>2
<1>. QED
  BY <1>1, <1>2, <1>3, <1>4

(* The latest time to clear a lock is a scheduled one. *)
LEMMA LatestScheduled ==
  ASSUME NEW t \in Nat, NEW n \in Nat \ {0}
  PROVE  /\ ClearTime(t) + (n - 1) * Interval \in Nat
         /\ (ClearTime(t) + (n - 1) * Interval) % Interval = 0
         /\ ClearTime(t) =< ClearTime(t) + (n - 1) * Interval
         /\ ClearTime(t) + (n - 1) * Interval =< t + (n + 1) * Interval
<1> DEFINE k == t \div Interval + 2
           m == k + (n - 1)
<1>1. Interval \in Nat \ {0}
  BY ConstantsAssumption
<1>2. k \in Nat /\ n - 1 \in Nat /\ m \in Nat
  BY <1>1
<1>3. ClearTime(t) = Interval * k
  BY DEF ClearTime
<1>4. ClearTime(t) \in Nat /\ ClearTime(t) =< t + 2 * Interval
  BY ClearTimeIs
<1> HIDE DEF k
<1>5. ClearTime(t) + (n - 1) * Interval = m * Interval
  BY <1>1, <1>2, <1>3
<1> HIDE DEF m
<1>6. (m * Interval) % Interval = 0
  BY <1>1, <1>2
<1>7. (n - 1) * Interval \in Nat /\ (n + 1) * Interval = (n - 1) * Interval + 2 * Interval
  BY <1>1, <1>2
<1>. QED
  BY <1>1, <1>4, <1>5, <1>6, <1>7

(* One more delay, and there is an interval more. *)
LEMMA OneMoreDelay ==
  ASSUME NEW c \in Nat, NEW n \in Nat
  PROVE  c + ((n + 1) - 1) * Interval = c + (n - 1) * Interval + Interval
BY ConstantsAssumption

(* A run that has the lock, if nothing failed, is not past its timeout. *)
LEMMA HeldIsYoung ==
  ASSUME TypeOK, LockInv, StaleInv, row.lockedAt # 0, Delays = 0
  PROVE  now =< row.lockedAt + Interval
<1>0. Timeout =< Interval /\ Failures = 0
  BY ConstantsAssumption DEF TypeOK, Delays, Failures
<1>1. shutdowns = 0 /\ ~overran
  BY <1>0, ConstantsAssumption DEF TypeOK, LockInv, Failures
<1>2. PICK r \in Runs : Busy(r)
  BY DEF StaleInv, HeldUnlessFailed
<1>3. now =< row.lockedAt + Timeout
  BY <1>1, <1>2 DEF LockInv, BusyHasLock
<1>. QED
  BY <1>0, <1>3, ConstantsAssumption DEF TypeOK

LEMMA Numbers ==
  ASSUME TypeOK
  PROVE  /\ row.lockedAt \in Nat /\ now \in Nat
         /\ crashes \in Nat /\ shutdowns \in Nat /\ Failures \in Nat /\ Delays \in Nat
         /\ Interval \in Nat \ {0}
BY ConstantsAssumption DEF TypeOK, Failures, Delays

(* Steps by which nothing fails, no time passes and nobody takes or clears the
   lock. *)
LEMMA SameLock ==
  ASSUME TypeOK, StaleInv,
         now' = now, crashes' = crashes, shutdowns' = shutdowns,
         row'.lockedAt = row.lockedAt,
         NoneClosing',
         \A r \in Runs : Busy(r) => Busy(r)',
         \A w \in Workers : Clears(w) => Clears(w)'
  PROVE  StaleInv'
<1>1. Delays' = Delays /\ Latest' = Latest
  BY DEF Failures, Delays, Latest
<1>2. HeldUnlessFailed'
  BY <1>1 DEF StaleInv, HeldUnlessFailed
<1>3. ClearedInTime'
  BY <1>1 DEF StaleInv, ClearedInTime
<1>. QED
  BY <1>2, <1>3 DEF StaleInv

(* The lock is cleared. *)
LEMMA LockCleared ==
  ASSUME TypeOK, StaleInv, now' = now, row'.lockedAt = 0, NoneClosing'
  PROVE  StaleInv'
BY Numbers DEF StaleInv, HeldUnlessFailed, ClearedInTime

(* Steps by which something fails. *)
LEMMA FailureStep ==
  ASSUME TypeOK, LockInv, StaleInv,
         now' = now, row'.lockedAt = row.lockedAt,
         crashes' + shutdowns' = Failures + 1,
         NoneClosing'
  PROVE  StaleInv'
<1>1. Delays' = Delays + 1 /\ Delays' # 0
  BY Numbers DEF Failures, Delays
<1>2. HeldUnlessFailed'
  BY <1>1 DEF HeldUnlessFailed
<1>3. ASSUME row.lockedAt # 0
      PROVE  Latest' \in Nat /\ now < Latest'
  <2> DEFINE c == ClearTime(row.lockedAt)
  <2>1. /\ c \in Nat /\ row.lockedAt + Interval < c
        /\ now \in Nat /\ Delays \in Nat /\ Interval \in Nat \ {0}
        /\ row.lockedAt \in Nat
    BY Numbers, ClearTimeIs
  <2>2. Latest' = c + ((Delays + 1) - 1) * Interval
    BY <1>1 DEF Latest
  <2>3. Latest = c + (Delays - 1) * Interval
    BY DEF Latest
  <2> HIDE DEF c
  <2>4. CASE Delays = 0
    <3>1. now =< row.lockedAt + Interval
      BY <1>3, <2>4, HeldIsYoung
    <3>2. Latest' = c
      BY <2>1, <2>2, <2>4
    <3>. QED
      BY <2>1, <3>1, <3>2
  <2>5. CASE Delays # 0
    <3>1. now =< Latest
      BY <1>3, <2>5 DEF StaleInv, ClearedInTime
    <3>2. (Delays - 1) * Interval \in Nat
      BY <2>1, <2>5
    <3>3. Latest' = Latest + Interval
      BY <2>1, <2>2, <2>3, OneMoreDelay
    <3>4. Latest \in Nat
      BY <2>1, <2>3, <3>2
    <3>. QED
      BY <2>1, <3>1, <3>3, <3>4
  <2>. QED
    BY <2>4, <2>5
<1>4. ClearedInTime'
  <2> SUFFICES ASSUME row.lockedAt # 0
               PROVE  now' =< Latest' /\ now' # Latest'
    BY DEF ClearedInTime
  <2>. QED
    BY <1>3, Numbers
<1>. QED
  BY <1>2, <1>4 DEF StaleInv

LEMMA InitStaleInv == Init => StaleInv
BY DEF Init, StaleInv, NoneClosing, HeldUnlessFailed, ClearedInTime

LEMMA RunStepStaleInv ==
  ASSUME TypeOK, LockInv, StaleInv,
         NEW r \in Runs, RunStep(r)
  PROVE  StaleInv'
<1> USE DEF Busy, Clears
<1>0. /\ pc \in [Runs -> {"idle", "triggered", "fetch", "clear", "take", "executing",
                          "succeeded", "failed", "leaving"}]
      /\ observed \in [Runs -> 0 .. MaxTime]
      /\ row \in [enabled: BOOLEAN, lockedAt: 0 .. MaxTime,
                  executed: BOOLEAN, triggered: BOOLEAN]
  BY DEF TypeOK
<1>10. CASE Fire(r)
  <2>1. /\ UNCHANGED <<now, row, phase, observed, crashes, shutdowns>>
        /\ due' = due \ {r[1]}
        /\ pc[r] = "idle" /\ pc' = [pc EXCEPT ![r] = "fetch"]
    BY <1>10 DEF Fire
  <2>2. NoneClosing'
    BY <2>1 DEF StaleInv, NoneClosing
  <2>3. \A s \in Runs : Busy(s) => Busy(s)'
    BY <1>0, <2>1
  <2>4. ASSUME NEW v \in Workers, Clears(v) PROVE Clears(v)'
    <3>1. CASE v = r[1]
      BY <1>0, <2>1, <2>4, <3>1
    <3>2. CASE v # r[1]
      BY <1>0, <2>1, <2>4, <3>2
    <3>. QED
      BY <3>1, <3>2
  <2>. QED
    BY <2>1, <2>2, <2>3, <2>4, SameLock
<1>11. CASE SeeTrigger(r)
  <2>1. /\ UNCHANGED <<now, row, phase, due, observed, crashes, shutdowns>>
        /\ pc[r] = "idle" /\ pc' = [pc EXCEPT ![r] = "triggered"]
    BY <1>11 DEF SeeTrigger
  <2>2. NoneClosing'
    BY <2>1 DEF StaleInv, NoneClosing
  <2>3. \A s \in Runs : Busy(s) => Busy(s)'
    BY <1>0, <2>1
  <2>4. \A w \in Workers : Clears(w) => Clears(w)'
    BY <1>0, <2>1
  <2>. QED
    BY <2>1, <2>2, <2>3, <2>4, SameLock
<1>1. CASE TakeTrigger(r)
  <2>1. /\ row'.lockedAt = row.lockedAt
        /\ UNCHANGED <<now, phase, due, observed, crashes, shutdowns>>
        /\ pc[r] = "triggered" /\ pc' = [pc EXCEPT ![r] = "fetch"]
    BY <1>0, <1>1 DEF TakeTrigger
  <2>2. NoneClosing'
    BY <2>1 DEF StaleInv, NoneClosing
  <2>3. \A s \in Runs : Busy(s) => Busy(s)'
    BY <1>0, <2>1
  <2>4. \A w \in Workers : Clears(w) => Clears(w)'
    BY <1>0, <2>1
  <2>. QED
    BY <2>1, <2>2, <2>3, <2>4, SameLock
<1>2. CASE FetchLock(r)
  <2>1. /\ UNCHANGED <<now, row, phase, due, crashes, shutdowns>>
        /\ pc[r] = "fetch"
    BY <1>2 DEF FetchLock
  <2>2. NoneClosing'
    BY <2>1 DEF StaleInv, NoneClosing
  <2>3. CASE IsStale(row.lockedAt)
    <3>1. /\ observed' = [observed EXCEPT ![r] = row.lockedAt]
          /\ pc' = [pc EXCEPT ![r] = "clear"]
      BY <1>2, <2>3 DEF FetchLock
    <3>2. \A s \in Runs : Busy(s) => Busy(s)'
      BY <1>0, <2>1, <3>1
    <3>3. \A w \in Workers : Clears(w) => Clears(w)'
      BY <1>0, <2>1, <3>1
    <3>. QED
      BY <2>1, <2>2, <3>2, <3>3, SameLock
  <2>4. CASE ~IsStale(row.lockedAt)
    <3>1. pc' = [pc EXCEPT ![r] = "take"] /\ observed' = observed
      BY <1>2, <2>4 DEF FetchLock
    <3>2. \A s \in Runs : Busy(s) => Busy(s)'
      BY <1>0, <2>1, <3>1
    <3>3. HeldUnlessFailed'
      BY <2>1, <3>2 DEF StaleInv, HeldUnlessFailed, Failures, Delays
    <3>4. ASSUME row.lockedAt # 0, Delays # 0, now = Latest PROVE FALSE
      <4>1. Latest = ClearTime(row.lockedAt) + (Delays - 1) * Interval
        BY DEF Latest
      <4>2. /\ row.lockedAt + Interval < ClearTime(row.lockedAt)
            /\ ClearTime(row.lockedAt) =< Latest
            /\ ClearTime(row.lockedAt) \in Nat
        BY <3>4, <4>1, Numbers, ClearTimeIs, LatestScheduled
      <4>3. now - row.lockedAt > Interval
        BY <3>4, <4>2, Numbers
      <4>. QED
        BY <2>4, <3>4, <4>3 DEF IsStale
    <3>5. Delays' = Delays /\ Latest' = Latest
      BY <2>1 DEF Failures, Delays, Latest
    <3>6. ClearedInTime'
      BY <2>1, <3>4, <3>5 DEF StaleInv, ClearedInTime
    <3>. QED
      BY <2>1, <2>2, <3>3, <3>6 DEF StaleInv
  <2>. QED
    BY <2>3, <2>4
<1>3. CASE ClearStaleLock(r)
  <2>1. /\ UNCHANGED <<now, phase, due, crashes, shutdowns>>
        /\ pc[r] = "clear" /\ pc' = [pc EXCEPT ![r] = "take"]
        /\ observed' = [observed EXCEPT ![r] = 0]
        /\ row'.lockedAt = IF row.lockedAt = observed[r] THEN 0 ELSE row.lockedAt
    BY <1>0, <1>3 DEF ClearStaleLock
  <2>2. NoneClosing'
    BY <2>1 DEF StaleInv, NoneClosing
  <2>3. CASE row.lockedAt = observed[r]
    BY <2>1, <2>2, <2>3, LockCleared
  <2>4. CASE row.lockedAt # observed[r]
    <3>1. row'.lockedAt = row.lockedAt
      BY <2>1, <2>4
    <3>2. \A s \in Runs : Busy(s) => Busy(s)'
      BY <1>0, <2>1
    <3>3. \A w \in Workers : Clears(w) => Clears(w)'
      BY <1>0, <2>1, <2>4, <3>1
    <3>. QED
      BY <2>1, <2>2, <3>1, <3>2, <3>3, SameLock
  <2>. QED
    BY <2>3, <2>4
<1>4. CASE Start(r)
  <2>1. /\ UNCHANGED <<now, phase, crashes, shutdowns>>
        /\ pc' = [pc EXCEPT ![r] = "executing"]
        /\ row'.lockedAt = now
    BY <1>0, <1>4 DEF Start
  <2>2. NoneClosing'
    BY <2>1 DEF StaleInv, NoneClosing
  <2>3. HeldUnlessFailed'
    BY <1>0, <2>1 DEF HeldUnlessFailed
  <2>4. Delays' = Delays /\ Latest' = ClearTime(now) + (Delays - 1) * Interval
    BY <2>1 DEF Failures, Delays, Latest
  <2>5. ASSUME Delays # 0 PROVE now =< Latest' /\ now # Latest'
    <3>1. /\ now + Interval < ClearTime(now) /\ ClearTime(now) =< Latest'
          /\ ClearTime(now) \in Nat /\ Latest' \in Nat
      BY <2>4, <2>5, Numbers, ClearTimeIs, LatestScheduled
    <3>. QED
      BY <3>1, Numbers
  <2>6. ClearedInTime'
    BY <2>1, <2>4, <2>5 DEF ClearedInTime
  <2>7. (row.lockedAt =< now)'
    BY <2>1, Numbers
  <2>. QED
    BY <2>2, <2>3, <2>6, <2>7 DEF StaleInv
<1>5. CASE Skip(r)
  <2>1. /\ UNCHANGED <<now, row, phase, due, observed, crashes, shutdowns>>
        /\ pc[r] = "take" /\ pc' = [pc EXCEPT ![r] = "idle"]
    BY <1>5 DEF Skip
  <2>2. NoneClosing'
    BY <2>1 DEF StaleInv, NoneClosing
  <2>3. \A s \in Runs : Busy(s) => Busy(s)'
    BY <1>0, <2>1
  <2>4. \A w \in Workers : Clears(w) => Clears(w)'
    BY <1>0, <2>1
  <2>. QED
    BY <2>1, <2>2, <2>3, <2>4, SameLock
<1>6. ASSUME NEW outcome \in {"succeeded", "failed"}, Ends(r, outcome)
      PROVE  StaleInv'
  <2>1. /\ UNCHANGED <<now, row, phase, due, observed, crashes, shutdowns>>
        /\ pc[r] = "executing" /\ pc' = [pc EXCEPT ![r] = outcome]
    BY <1>6 DEF Ends
  <2>2. NoneClosing'
    BY <2>1 DEF StaleInv, NoneClosing
  <2>3. \A s \in Runs : Busy(s) => Busy(s)'
    BY <1>0, <2>1
  <2>4. \A w \in Workers : Clears(w) => Clears(w)'
    BY <1>0, <2>1
  <2>. QED
    BY <2>1, <2>2, <2>3, <2>4, SameLock
<1>7. CASE StoreOutcome(r)
  <2>1. UNCHANGED <<now, phase, shutdowns>> /\ row'.lockedAt = 0
    BY <1>0, <1>7 DEF StoreOutcome
  <2>2. NoneClosing'
    BY <2>1 DEF StaleInv, NoneClosing
  <2>. QED
    BY <2>1, <2>2, LockCleared
<1>8. CASE Leave(r)
  <2>1. /\ UNCHANGED <<now, row, phase, due, observed, crashes, shutdowns>>
        /\ pc[r] = "leaving" /\ pc' = [pc EXCEPT ![r] = "idle"]
    BY <1>8 DEF Leave
  <2>2. NoneClosing'
    BY <2>1 DEF StaleInv, NoneClosing
  <2>3. \A s \in Runs : Busy(s) => Busy(s)'
    BY <1>0, <2>1
  <2>4. \A w \in Workers : Clears(w) => Clears(w)'
    BY <1>0, <2>1
  <2>. QED
    BY <2>1, <2>2, <2>3, <2>4, SameLock
<1>9. CASE OutcomeLost(r)
  <2>1. UNCHANGED <<now, row, phase, shutdowns>> /\ crashes' = crashes + 1
    BY <1>9 DEF OutcomeLost
  <2>2. NoneClosing'
    BY <2>1 DEF StaleInv, NoneClosing
  <2>3. crashes' + shutdowns' = Failures + 1
    BY <2>1, Numbers DEF Failures
  <2>. QED
    BY <2>1, <2>2, <2>3, FailureStep
<1>. QED
  BY <1>1, <1>2, <1>3, <1>4, <1>5, <1>6, <1>7, <1>8, <1>9, <1>10, <1>11 DEF RunStep

LEMMA WorkerStepStaleInv ==
  ASSUME TypeOK, LockInv, StaleInv,
         NEW w \in Workers, WorkerStep(w)
  PROVE  StaleInv'
<1>0. /\ pc \in [Runs -> {"idle", "triggered", "fetch", "clear", "take", "executing",
                          "succeeded", "failed", "leaving"}]
      /\ phase \in [Workers -> {"up", "closing", "down"}]
      /\ row \in [enabled: BOOLEAN, lockedAt: 0 .. MaxTime,
                  executed: BOOLEAN, triggered: BOOLEAN]
  BY DEF TypeOK
<1>3. CASE Destroy(w)
  <2>1. /\ now' = now /\ crashes' = crashes /\ shutdowns' = shutdowns + 1
        /\ row'.lockedAt = IF w \in listed THEN 0 ELSE row.lockedAt
    BY <1>0, <1>3 DEF Destroy
  <2>2. NoneClosing' /\ crashes' + shutdowns' = Failures + 1
    BY <2>1, Numbers DEF NoneClosing, Failures
  <2>3. CASE w \in listed
    BY <2>1, <2>2, <2>3, LockCleared
  <2>4. CASE w \notin listed
    BY <2>1, <2>2, <2>4, FailureStep
  <2>. QED
    BY <2>3, <2>4
<1>4. CASE Exit(w)
  <2>1. /\ phase[w] = "closing" /\ phase' = [phase EXCEPT ![w] = "down"]
        /\ due' = due \ {w}
        /\ pc' = [r \in Runs |-> IF r[1] = w THEN "idle" ELSE pc[r]]
        /\ observed' = [r \in Runs |-> IF r[1] = w THEN 0 ELSE observed[r]]
        /\ UNCHANGED <<now, row, shutdowns, crashes>>
    BY <1>4 DEF Exit, Gone
  <2>2. shutdowns # 0
    BY <2>1 DEF StaleInv, NoneClosing
  <2>3. NoneClosing' /\ Delays # 0 /\ Delays' = Delays /\ Latest' = Latest
    BY <2>1, <2>2, Numbers DEF NoneClosing, Failures, Delays, Latest
  <2>4. ASSUME NEW v \in Workers, Clears(v) PROVE Clears(v)'
    <3>1. v # w /\ phase'[v] = "up"
      BY <1>0, <2>1, <2>4 DEF Clears
    <3>2. CASE v \in due
      BY <2>1, <3>1, <3>2 DEF Clears
    <3>3. CASE v \notin due
      <4>1. PICK r \in Runs :
              /\ r[1] = v
              /\ pc[r] = "fetch" \/ (pc[r] = "clear" /\ observed[r] = row.lockedAt)
        BY <2>4, <3>3 DEF Clears
      <4>2. pc'[r] = pc[r] /\ observed'[r] = observed[r]
        BY <2>1, <3>1, <4>1
      <4>. QED
        BY <2>1, <3>1, <4>1, <4>2 DEF Clears
    <3>. QED
      BY <3>2, <3>3
  <2>5. HeldUnlessFailed'
    BY <2>3 DEF HeldUnlessFailed
  <2>6. ClearedInTime'
    BY <2>1, <2>3, <2>4 DEF StaleInv, ClearedInTime
  <2>. QED
    BY <2>1, <2>3, <2>5, <2>6 DEF StaleInv
<1>5. CASE Crash(w)
  <2>1. /\ phase' = [phase EXCEPT ![w] = "down"] /\ crashes' = crashes + 1
        /\ UNCHANGED <<now, row, shutdowns>>
    BY <1>5 DEF Crash, Gone
  <2>2. NoneClosing'
    BY <1>0, <2>1 DEF StaleInv, NoneClosing
  <2>3. crashes' + shutdowns' = Failures + 1
    BY <2>1, Numbers DEF Failures
  <2>. QED
    BY <2>1, <2>2, <2>3, FailureStep
<1>6. CASE Restart(w)
  <2>1. /\ phase[w] = "down" /\ phase' = [phase EXCEPT ![w] = "up"]
        /\ UNCHANGED <<now, row, due, pc, observed, crashes, shutdowns>>
    BY <1>6 DEF Restart
  <2>2. NoneClosing'
    BY <1>0, <2>1 DEF StaleInv, NoneClosing
  <2>3. \A s \in Runs : Busy(s) => Busy(s)'
    BY <2>1 DEF Busy
  <2>4. \A v \in Workers : Clears(v) => Clears(v)'
    BY <1>0, <2>1 DEF Clears
  <2>. QED
    BY <2>1, <2>2, <2>3, <2>4, SameLock
<1>. QED
  BY <1>3, <1>4, <1>5, <1>6 DEF WorkerStep

LEMMA TickStaleInv ==
  ASSUME TypeOK, StaleInv, Tick
  PROVE  StaleInv'
<1>1. /\ now' = now + 1
      /\ row'.lockedAt = row.lockedAt
      /\ due' = {w \in Workers : (now + 1) % Interval = 0 /\ phase[w] = "up"}
      /\ UNCHANGED <<phase, pc, observed, crashes, shutdowns>>
      /\ Prompt
  BY DEF Tick, TypeOK
<1>2. NoneClosing' /\ HeldUnlessFailed' /\ Delays' = Delays /\ Latest' = Latest
  BY <1>1 DEF StaleInv, NoneClosing, HeldUnlessFailed, Busy, Failures, Delays, Latest
<1>3. (row.lockedAt =< now)'
  BY <1>1, Numbers DEF StaleInv
<1>4. ASSUME row.lockedAt # 0, Delays # 0
      PROVE  /\ now + 1 =< Latest
             /\ now + 1 = Latest => \E w \in Workers : Clears(w)'
  <2>1. now =< Latest /\ (now = Latest => \E w \in Workers : Clears(w))
    BY <1>4 DEF StaleInv, ClearedInTime
  <2>2. \A w \in Workers : ~Clears(w)
    BY <1>1 DEF Prompt, Clears
  <2>3. Latest \in Nat /\ Latest % Interval = 0
    BY <1>4, Numbers, LatestScheduled DEF Latest
  <2>4. now + 1 =< Latest
    BY <2>1, <2>2, <2>3, Numbers
  <2>5. ASSUME now + 1 = Latest PROVE \E w \in Workers : Clears(w)'
    <3>1. PICK w \in Workers : phase[w] = "up"
      BY <1>1 DEF Prompt
    <3>2. w \in due' /\ phase'[w] = "up"
      BY <1>1, <2>3, <2>5, <3>1
    <3>. QED
      BY <3>2 DEF Clears
  <2>. QED
    BY <2>4, <2>5
<1>5. ClearedInTime'
  BY <1>1, <1>2, <1>4 DEF ClearedInTime
<1>. QED
  BY <1>2, <1>3, <1>5 DEF StaleInv

LEMMA NextStaleInv ==
  TypeOK /\ LockInv /\ StaleInv /\ [Next]_vars => StaleInv'
<1> SUFFICES ASSUME TypeOK, LockInv, StaleInv, [Next]_vars PROVE StaleInv'
  OBVIOUS
<1>1. ASSUME row'.lockedAt = row.lockedAt,
             UNCHANGED <<now, phase, due, pc, observed, crashes, shutdowns>>
      PROVE  StaleInv'
  BY <1>1 DEF StaleInv, NoneClosing, HeldUnlessFailed, ClearedInTime, Busy, Failures, Delays,
              Latest, Clears
<1>2. CASE \E b \in BOOLEAN : SetEnabled(b)
  BY <1>1, <1>2 DEF SetEnabled, TypeOK
<1>3. CASE Trigger
  BY <1>1, <1>3 DEF Trigger, TypeOK
<1>4. CASE \E r \in Runs : RunStep(r)
  BY <1>4, RunStepStaleInv
<1>5. CASE \E w \in Workers : WorkerStep(w)
  BY <1>5, WorkerStepStaleInv
<1>6. CASE Tick
  BY <1>6, TickStaleInv
<1>7. CASE UNCHANGED vars
  BY <1>1, <1>7 DEF vars
<1>. QED
  BY <1>2, <1>3, <1>4, <1>5, <1>6, <1>7 DEF Next

LEMMA StaleInvBounds ==
  ASSUME TypeOK, LockInv, StaleInv
  PROVE  StaleLocksCleared
<1> SUFFICES ASSUME row.lockedAt # 0
             PROVE  now - row.lockedAt =< (Delays + 1) * Interval
  BY DEF StaleLocksCleared, Failures, Delays
<1>1. CASE Delays = 0
  <2>1. now =< row.lockedAt + Interval
    BY <1>1, HeldIsYoung
  <2>. QED
    BY <1>1, <2>1, Numbers
<1>2. CASE Delays # 0
  <2> DEFINE bound == (Delays + 1) * Interval
  <2>1. now =< Latest
    BY <1>2 DEF StaleInv, ClearedInTime
  <2>2. Latest \in Nat /\ Latest =< row.lockedAt + bound
    BY <1>2, Numbers, LatestScheduled DEF Latest
  <2>3. bound \in Nat
    BY Numbers
  <2> HIDE DEF bound
  <2>4. now - row.lockedAt =< bound
    BY <2>1, <2>2, <2>3, Numbers
  <2>. QED
    BY <2>4 DEF bound
<1>. QED
  BY <1>1, <1>2

(* No lock is there for longer than one interval, and one more for every failure
   and for a timeout longer than the interval: any number of workers, of which
   one is always there, any interval and any timeout. *)
THEOREM NoLockForever == Spec => []StaleLocksCleared
<1>1. Init => TypeOK /\ LockInv /\ StaleInv
  BY InitTyped, InitLockInv, InitStaleInv
<1>2. TypeOK /\ LockInv /\ StaleInv /\ [Next]_vars => (TypeOK /\ LockInv /\ StaleInv)'
  BY NextTyped, NextLockInv, NextStaleInv
<1>3. TypeOK /\ LockInv /\ StaleInv => StaleLocksCleared
  BY StaleInvBounds
<1>. QED
  BY <1>1, <1>2, <1>3, PTL DEF Spec

-----------------------------------------------------------------------------
(* Transactions and their events.                                          *)

(* The code of a request within withTransaction may be two transactions deep,
   that around it one. *)
DepthFits ==
  \A c \in Requests :
    /\ work[c] = "outer" => depth[c] =< 1
    /\ work[c] \in {"new", "done"} => depth[c] = 0

(* An event waits as long as its transaction is active, while its row is there
   or was withdrawn; a row is pending at a level its transaction has, and its
   event waits. *)
Waits(ev) ==
  /\ ev.seen = "waiting" => /\ depth[ev.by] > 0
                            /\ ev.row \in {"pending", "withdrawn"}
  /\ ev.row = "pending" => /\ ev.seen = "waiting"
                           /\ ev.level > 0
                           /\ ev.level =< depth[ev.by]
  /\ ev.seen \in {"ready", "delivered"} => ev.row \in {"saved", "withdrawn"}

EventsWait == \A e \in Events : Waits(event[e])

Ended == \A c \in Requests : work[c] = "done" => released[c]

TransactionInv == TXTypeOK /\ DepthFits /\ EventsWait /\ Ended

LEMMA TransactionsInit == TXInit => TransactionInv
<1> SUFFICES ASSUME TXInit PROVE TransactionInv
  OBVIOUS
<1> DEFINE nobody == CHOOSE c \in Requests : TRUE
           unused == [by |-> nobody, level |-> 0, row |-> "none", seen |-> "none"]
<1>1. nobody \in Requests
  BY TXAssumption
<1>2. event = [e \in Events |-> unused]
  BY DEF TXInit
<1>3. unused \in EventObjects
  <2> HIDE DEF nobody
  <2> QED
    BY <1>1 DEF EventObjects
<1>4. unused.row = "none" /\ unused.seen = "none"
  OBVIOUS
<1> HIDE DEF unused
<1>5. TXTypeOK
  <2>1. event \in [Events -> EventObjects]
    BY <1>2, <1>3
  <2>2. depth \in [Requests -> 0 .. 2]
    BY DEF TXInit
  <2> QED
    BY <2>1, <2>2 DEF TXInit, TXTypeOK
<1>6. EventsWait
  BY <1>2, <1>4 DEF EventsWait, Waits
<1> QED
  BY <1>5, <1>6 DEF TXInit, TransactionInv, DepthFits, Ended

-----------------------------------------------------------------------------
(* What a commit and a rollback make of one event. *)

LEMMA KeptEvent ==
  ASSUME NEW c \in Requests, NEW d \in 1 .. 2, NEW ev \in EventObjects,
         ev.seen = "waiting" => ev.row \in {"pending", "withdrawn"},
         ev.seen \in {"ready", "delivered"} => ev.row \in {"saved", "withdrawn"},
         ev.row = "pending" =>
           ev.seen = "waiting" /\ ev.level > 0 /\ (ev.by = c => ev.level =< d),
         NEW ev1, ev1 = Heard(Kept(ev, c, d), c, d, "ready")
  PROVE  /\ ev1 \in EventObjects
         /\ ev1.by = ev.by
         /\ ev.by # c => ev1 = ev
         /\ ev1.seen = "waiting" => ev1.row \in {"pending", "withdrawn"}
         /\ ev1.seen \in {"ready", "delivered"} => ev1.row \in {"saved", "withdrawn"}
         /\ ev1.row = "pending" => ev1.seen = "waiting" /\ ev1.level > 0
         /\ ev1.by = c /\ ev1.seen = "waiting" => d > 1
         /\ ev1.by = c /\ ev1.row = "pending" => ev1.level =< d - 1
BY DEF Heard, Kept, EventObjects

LEMMA UndoneEvent ==
  ASSUME NEW c \in Requests, NEW d \in 1 .. 2, NEW ev \in EventObjects,
         ev.seen = "waiting" => ev.row \in {"pending", "withdrawn"},
         ev.seen \in {"ready", "delivered"} => ev.row \in {"saved", "withdrawn"},
         ev.row = "pending" =>
           ev.seen = "waiting" /\ ev.level > 0 /\ (ev.by = c => ev.level =< d),
         NEW ev1, ev1 = Heard(Undone(ev, c, d), c, d, "dropped")
  PROVE  /\ ev1 \in EventObjects
         /\ ev1.by = ev.by
         /\ ev.by # c => ev1 = ev
         /\ ev1.seen = "waiting" => ev1.row \in {"pending", "withdrawn"}
         /\ ev1.seen \in {"ready", "delivered"} => ev1.row \in {"saved", "withdrawn"}
         /\ ev1.row = "pending" => ev1.seen = "waiting" /\ ev1.level > 0
         /\ ev1.by = c /\ ev1.seen = "waiting" => d > 1
         /\ ev1.by = c /\ ev1.row = "pending" => ev1.level =< d - 1
BY DEF Heard, Undone, EventObjects

(* A commit or a rollback, of an active transaction or of none. *)
LEMMA OutcomeKeeps ==
  ASSUME TXTypeOK, EventsWait, NEW c \in Requests, Commit(c) \/ Rollback(c)
  PROVE  /\ event' \in [Events -> EventObjects]
         /\ depth' \in [Requests -> 0 .. 2]
         /\ depth'[c] =< IF depth[c] = 2 THEN 1 ELSE 0
         /\ \A b \in Requests \ {c} : depth'[b] = depth[b]
         /\ EventsWait'
<1>1. CASE depth[c] = 0
  BY <1>1 DEF Commit, Rollback, TXTypeOK, EventsWait, Waits
<1>2. CASE depth[c] # 0
  <2> DEFINE d == depth[c]
             kept(e) == Heard(Kept(event[e], c, d), c, d, "ready")
             undone(e) == Heard(Undone(event[e], c, d), c, d, "dropped")
  <2>1. d \in 1 .. 2
    BY <1>2 DEF TXTypeOK
  <2>2. /\ depth' = [depth EXCEPT ![c] = @ - 1]
        /\ \/ event' = [e \in Events |-> kept(e)]
           \/ event' = [e \in Events |-> undone(e)]
    BY <1>2 DEF Commit, Rollback
  <2>3. /\ depth' \in [Requests -> 0 .. 2]
        /\ depth'[c] = d - 1
        /\ \A b \in Requests \ {c} : depth'[b] = depth[b]
    BY <2>1, <2>2 DEF TXTypeOK
  <2>4. ASSUME NEW e \in Events
        PROVE  LET ev1 == event'[e] IN
               /\ ev1 \in EventObjects
               /\ ev1.by = event[e].by
               /\ event[e].by # c => ev1 = event[e]
               /\ ev1.seen = "waiting" => ev1.row \in {"pending", "withdrawn"}
               /\ ev1.seen \in {"ready", "delivered"} =>
                    ev1.row \in {"saved", "withdrawn"}
               /\ ev1.row = "pending" => ev1.seen = "waiting" /\ ev1.level > 0
               /\ ev1.by = c /\ ev1.seen = "waiting" => d > 1
               /\ ev1.by = c /\ ev1.row = "pending" => ev1.level =< d - 1
    <3>1. /\ event[e] \in EventObjects
          /\ event[e].seen = "waiting" => event[e].row \in {"pending", "withdrawn"}
          /\ event[e].seen \in {"ready", "delivered"} =>
               event[e].row \in {"saved", "withdrawn"}
          /\ event[e].row = "pending" =>
               /\ event[e].seen = "waiting" /\ event[e].level > 0
               /\ event[e].by = c => event[e].level =< d
      BY DEF TXTypeOK, EventsWait, Waits
    <3>2. CASE event' = [f \in Events |-> kept(f)]
      <4>1. event'[e] = kept(e)
        BY <3>2
      <4> QED
        BY <2>1, <3>1, <4>1, KeptEvent
    <3>3. CASE event' = [f \in Events |-> undone(f)]
      <4>1. event'[e] = undone(e)
        BY <3>3
      <4> QED
        BY <2>1, <3>1, <4>1, UndoneEvent
    <3> QED
      BY <2>2, <3>2, <3>3
  <2>5. event' \in [Events -> EventObjects]
    <3>1. event' = [e \in Events |-> event'[e]]
      BY <2>2
    <3> QED
      BY <2>4, <3>1
  <2>6. EventsWait'
    <3> SUFFICES ASSUME NEW e \in Events PROVE Waits(event[e])'
      BY DEF EventsWait
    <3>1. event[e].by \in Requests
      BY DEF TXTypeOK, EventObjects
    <3>2. CASE event[e].by = c
      BY <2>1, <2>3, <2>4, <3>2 DEF Waits
    <3>3. CASE event[e].by # c
      BY <2>3, <2>4, <3>1, <3>3 DEF Waits, EventsWait
    <3> QED
      BY <3>2, <3>3
  <2> QED
    BY <2>1, <2>3, <2>5, <2>6
<1> QED
  BY <1>1, <1>2

-----------------------------------------------------------------------------
(* Steps *)

LEMMA TransactionStep ==
  ASSUME TransactionInv, NEW c \in Requests, RequestStep(c)
  PROVE  TransactionInv'
<1> USE DEF TransactionInv
<1>1. CASE \E mode \in {"auto", "manual"} : Begin(c, mode)
  <2> PICK mode \in {"auto", "manual"} : Begin(c, mode)
    BY <1>1
  <2>1. TXTypeOK' /\ DepthFits' /\ Ended'
    BY DEF Begin, TXTypeOK, DepthFits, Ended
  <2>2. \A b \in Requests : depth'[b] >= depth[b]
    BY DEF Begin, TXTypeOK, DepthFits
  <2>3. EventsWait'
    BY <2>2 DEF Begin, TXTypeOK, EventsWait, Waits, EventObjects
  <2> QED
    BY <2>1, <2>3
<1>2. CASE BeginInner(c)
  <2>1. TXTypeOK' /\ DepthFits' /\ Ended'
    BY <1>2 DEF BeginInner, TXTypeOK, DepthFits, Ended
  <2>2. \A b \in Requests : depth'[b] >= depth[b]
    BY <1>2 DEF BeginInner, TXTypeOK
  <2>3. EventsWait'
    BY <1>2, <2>1, <2>2 DEF BeginInner, TXTypeOK, EventsWait, Waits, EventObjects
  <2> QED
    BY <2>1, <2>3
<1>3. CASE \E succeeds \in BOOLEAN : EndInner(c, succeeds) \/ End(c, succeeds)
  <2>1. /\ Commit(c) \/ Rollback(c)
        /\ released' = [released EXCEPT ![c] = @ \/ depth'[c] = 0]
        /\ \/ work[c] = "inner" /\ work' = [work EXCEPT ![c] = "outer"]
           \/ work[c] = "outer" /\ work' = [work EXCEPT ![c] = "done"]
    BY <1>3 DEF EndInner, End, Finally
  <2>2. /\ event' \in [Events -> EventObjects]
        /\ depth' \in [Requests -> 0 .. 2]
        /\ depth'[c] =< IF depth[c] = 2 THEN 1 ELSE 0
        /\ \A b \in Requests \ {c} : depth'[b] = depth[b]
        /\ EventsWait'
    BY <2>1, OutcomeKeeps
  <2>3. work' \in [Requests -> {"new", "outer", "inner", "done"}]
    BY <2>1 DEF TXTypeOK
  <2>4. released' \in [Requests -> BOOLEAN]
    <3> DEFINE gone == released[c] \/ depth'[c] = 0
    <3>1. gone \in BOOLEAN /\ released' = [released EXCEPT ![c] = gone]
      BY <2>1 DEF TXTypeOK
    <3> HIDE DEF gone
    <3> QED
      BY <3>1 DEF TXTypeOK
  <2>5. DepthFits'
    <3> SUFFICES ASSUME NEW b \in Requests
                 PROVE  /\ work'[b] = "outer" => depth'[b] =< 1
                        /\ work'[b] \in {"new", "done"} => depth'[b] = 0
      BY DEF DepthFits
    <3>1. CASE b # c
      BY <2>1, <2>2, <3>1 DEF TXTypeOK, DepthFits
    <3>2. CASE b = c /\ work'[c] = "outer"
      BY <2>2, <3>2
    <3>3. CASE b = c /\ work'[c] # "outer"
      <4>1. work[c] = "outer"
        BY <2>1, <3>3 DEF TXTypeOK
      <4>2. depth[c] # 2
        BY <4>1 DEF DepthFits
      <4> QED
        BY <2>2, <3>3, <4>2
    <3> QED
      BY <3>1, <3>2, <3>3
  <2>6. Ended'
    <3> SUFFICES ASSUME NEW b \in Requests, work'[b] = "done"
                 PROVE  released'[b]
      BY DEF Ended
    <3>1. CASE b = c
      <4>1. depth'[c] = 0
        BY <2>5, <3>1 DEF DepthFits
      <4> QED
        BY <2>1, <3>1, <4>1, Zenon DEF TXTypeOK
    <3>2. CASE b # c
      <4>1. work[b] = "done"
        BY <2>1, <3>2 DEF TXTypeOK
      <4>2. released[b]
        BY <4>1 DEF Ended
      <4> QED
        BY <2>1, <3>2, <4>2, Zenon DEF TXTypeOK
    <3> QED
      BY <3>1, <3>2
  <2> QED
    BY <2>2, <2>3, <2>4, <2>5, <2>6 DEF TXTypeOK
<1>4. CASE StartTransaction(c)
  <2>1. TXTypeOK' /\ DepthFits' /\ Ended'
    BY <1>4 DEF StartTransaction, Running, TXTypeOK, DepthFits, Ended
  <2>2. \A b \in Requests : depth'[b] >= depth[b]
    BY <1>4 DEF StartTransaction, TXTypeOK
  <2>3. EventsWait'
    BY <1>4, <2>1, <2>2 DEF StartTransaction, TXTypeOK, EventsWait, Waits, EventObjects
  <2> QED
    BY <2>1, <2>3
<1>5. CASE CommitOpenTransaction(c) \/ RollBackTransaction(c)
  <2>1. /\ Commit(c) \/ Rollback(c)
        /\ Running(c)
        /\ UNCHANGED <<work, released>>
    BY <1>5 DEF CommitOpenTransaction, RollBackTransaction
  <2>2. /\ event' \in [Events -> EventObjects]
        /\ depth' \in [Requests -> 0 .. 2]
        /\ depth'[c] =< IF depth[c] = 2 THEN 1 ELSE 0
        /\ \A b \in Requests \ {c} : depth'[b] = depth[b]
        /\ EventsWait'
    BY <2>1, OutcomeKeeps
  <2>3. DepthFits'
    BY <2>1, <2>2 DEF TXTypeOK, DepthFits, Running
  <2> QED
    BY <2>1, <2>2, <2>3 DEF TXTypeOK, Ended
<1>6. CASE \E e \in Events : Publish(c, e)
  <2> PICK e \in Events : Publish(c, e)
    BY <1>6
  <2> DEFINE ev == [by |-> c, level |-> depth[c],
                    row |-> IF depth[c] > 0 THEN "pending" ELSE "saved",
                    seen |-> IF depth[c] > 0 THEN "waiting" ELSE "ready"]
  <2>1. event' = [event EXCEPT ![e] = ev] /\ UNCHANGED <<work, depth, released>>
    BY DEF Publish
  <2>2. depth[c] \in 0 .. 2
    BY DEF TXTypeOK
  <2>3. ev \in EventObjects
    BY <2>2 DEF EventObjects
  <2>4. Waits(event[e])'
    <3>1. event'[e] = ev
      BY <2>1 DEF TXTypeOK
    <3> QED
      BY <2>1, <2>2, <3>1 DEF Waits
  <2> HIDE DEF ev
  <2>5. EventsWait'
    <3> SUFFICES ASSUME NEW f \in Events PROVE Waits(event[f])'
      BY DEF EventsWait
    <3>1. CASE f = e
      BY <2>4, <3>1
    <3>2. CASE f # e
      <4>1. event'[f] = event[f]
        BY <2>1, <3>2 DEF TXTypeOK
      <4> QED
        BY <2>1, <4>1 DEF Waits, EventsWait
    <3> QED
      BY <3>1, <3>2
  <2>6. TXTypeOK' /\ DepthFits' /\ Ended'
    BY <2>1, <2>3 DEF TXTypeOK, DepthFits, Ended
  <2> QED
    BY <2>5, <2>6
<1> QED
  BY <1>1, <1>2, <1>3, <1>4, <1>5, <1>6 DEF RequestStep

LEMMA DeliverStep ==
  ASSUME TransactionInv, NEW e \in Events, Deliver(e)
  PROVE  TransactionInv'
<1> USE DEF TransactionInv
<1>1. event[e] \in EventObjects /\ event[e].row \in {"saved", "withdrawn"}
  BY DEF Deliver, TXTypeOK, EventsWait, Waits
<1>2. [event[e] EXCEPT !.seen = "delivered"] \in EventObjects
  BY <1>1 DEF EventObjects
<1>3. event' = [event EXCEPT ![e] = [event[e] EXCEPT !.seen = "delivered"]]
  BY DEF Deliver
<1>4. TXTypeOK' /\ DepthFits' /\ Ended'
  BY <1>2, <1>3 DEF Deliver, TXTypeOK, DepthFits, Ended
<1>5. EventsWait'
  BY <1>1, <1>3 DEF Deliver, TXTypeOK, EventsWait, Waits, EventObjects
<1> QED
  BY <1>4, <1>5

LEMMA TransactionsNext == TransactionInv /\ [TXNext]_txVars => TransactionInv'
<1> SUFFICES ASSUME TransactionInv, [TXNext]_txVars PROVE TransactionInv'
  OBVIOUS
<1>1. CASE \E c \in Requests : RequestStep(c)
  BY <1>1, TransactionStep
<1>2. CASE \E e \in Events : Deliver(e)
  BY <1>2, DeliverStep
<1>3. CASE UNCHANGED txVars
  BY <1>3 DEF txVars, TransactionInv, TXTypeOK, DepthFits, EventsWait, Waits, Ended
<1> QED
  BY <1>1, <1>2, <1>3 DEF TXNext

LEMMA TransactionsHold == TXSpec => []TransactionInv
BY TransactionsInit, TransactionsNext, PTL DEF TXSpec

-----------------------------------------------------------------------------
(* Every object has its type; transactions are at most two deep. *)
THEOREM TransactionsTyped == TXSpec => []TXTypeOK
<1>1. TransactionInv => TXTypeOK
  BY DEF TransactionInv
<1> QED
  BY <1>1, TransactionsHold, PTL

(* EventBus calls a subscriber of ofType after the transaction in which the
   event was published has been committed, and never after its rollback. *)
THEOREM SeenAfterCommitHolds == TXSpec => []SeenAfterCommit
<1>1. TransactionInv => SeenAfterCommit
  BY DEF TransactionInv, EventsWait, Waits, SeenAfterCommit
<1> QED
  BY <1>1, TransactionsHold, PTL

(* A request of TransactionWrapper that has ended, after whatever mixture of
   nested and manual transactions, has none active and its query runner is
   released. *)
THEOREM NothingIsLeftOpen == TXSpec => []NothingLeftOpen
<1>1. TransactionInv => NothingLeftOpen
  BY DEF TransactionInv, DepthFits, Ended, NothingLeftOpen
<1> QED
  BY <1>1, TransactionsHold, PTL

=============================================================================
