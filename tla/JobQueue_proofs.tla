---------------------------- MODULE JobQueue_proofs ----------------------------
(***************************************************************************)
(* Theorems about JobQueue, for any number of jobs and workers, whatever   *)
(* goes wrong: no two workers hold a job unless a commit of `next` failed  *)
(* for it, a settled job is final, a worker never has more active jobs     *)
(* than the concurrency of its queue, and the queue implements             *)
(* JobLifecycle.                                                           *)
(*                                                                         *)
(* The argument is that a job somebody holds, whose claim was committed,   *)
(* does not wait, so that nobody else takes it: what the workers and the   *)
(* reports may write to its row before its outcome never is a waiting      *)
(* state.                                                                  *)
(***************************************************************************)
EXTENDS JobQueue, FiniteSetTheorems, TLAPS

(* A row is settled when its state says so, and a job that waits has an
   attempt left. *)
RecordOK(x) ==
  /\ x.settled <=> x.state \in SettledStates
  /\ x.state \in WaitingStates => x.attempts =< Retries

(* A Job object before its outcome is running, or known to be cancelled. *)
RunningOK(x) ==
  /\ x.state \in {"RUNNING", "CANCELLED"}
  /\ x.settled <=> x.state = "CANCELLED"

(* A held job does not wait, unless its claim was not committed; its holder's
   object is fit to be stored, unless the row is settled and takes nothing
   any more. *)
HoldOK(w, o) ==
  /\ pc[w][o] # "none" => record[o[1]].state # "ABSENT"
  /\ pc[w][o] # "none" /\ o[1] \notin uncommitted =>
       record[o[1]].state \notin WaitingStates
  /\ pc[w][o] \in {"claimed", "processing"} =>
       RunningOK(copy[w][o]) /\ (copy[w][o].settled => record[o[1]].settled)
  /\ pc[w][o] = "ended" =>
       /\ copy[w][o].state \in WaitingStates \cup SettledStates
       /\ record[o[1]].settled \/ RecordOK(copy[w][o])

(* A poll takes one job at a time, and has an iteration left for it. *)
ClaimOK(w) ==
  \A o, p \in Objects :
    pc[w][o] = "claimed" /\ pc[w][p] = "claimed" => o = p /\ budget[w] > 0

Consistent ==
  /\ TypeOK
  /\ \A j \in Jobs : RecordOK(record[j])
  /\ \A w \in Workers, o \in Objects : HoldOK(w, o)
  /\ \A r \in reports : RunningOK(r[3])
  /\ \A w \in Workers : ClaimOK(w)
  /\ OneWorkerPerJob

(* An object is of a job, and there are finitely many. *)
LEMMA ObjectJob == \A o \in Objects : o[1] \in Jobs
  BY DEF Objects

LEMMA ObjectsFinite == IsFiniteSet(Objects)
  <1>1. IsFiniteSet(Jobs) /\ IsFiniteSet(1 .. Concurrency)
    BY FS_Interval, ConstantsAssumption DEF Jobs
  <1> QED
    BY <1>1, FS_Product DEF Objects

(* What the methods of Job make of an object.                              *)
LEMMA NewJobOK ==
  ASSUME NEW s \in {"ABSENT", "PENDING"}
  PROVE  /\ NewJob(s) \in JobObjects
         /\ RecordOK(NewJob(s))
         /\ NewJob(s).state = s
  <1>1. NewJob(s).state = s /\ NewJob(s).attempts = 0 /\ NewJob(s).settled = FALSE
    BY DEF NewJob
  <1>2. 0 \in 0 .. Retries + 1 /\ 0 =< Retries
    BY ConstantsAssumption
  <1>3. NewJob(s) \in JobObjects
    BY <1>2 DEF NewJob, JobObjects, WaitingStates
  <1> QED
    BY <1>1, <1>2, <1>3 DEF RecordOK, SettledStates

LEMMA StartedOK ==
  ASSUME NEW x \in JobObjects, RecordOK(x), x.state \in WaitingStates
  PROVE  Started(x) \in JobObjects /\ RunningOK(Started(x)) /\ ~Started(x).settled
  <1>1. x.attempts + 1 \in 0 .. Retries + 1
    BY ConstantsAssumption DEF JobObjects, RecordOK
  <1>2. /\ Started(x).state = "RUNNING"
        /\ Started(x).settled = x.settled
        /\ Started(x) \in JobObjects
    BY <1>1 DEF Started, JobObjects
  <1>3. x.settled = FALSE
    BY DEF RecordOK, WaitingStates, SettledStates
  <1> QED
    BY <1>2, <1>3 DEF RunningOK

LEMMA CancelledOK ==
  ASSUME NEW x \in JobObjects
  PROVE  /\ Cancelled(x) \in JobObjects
         /\ RecordOK(Cancelled(x)) /\ RunningOK(Cancelled(x))
         /\ Cancelled(x).settled
  <1>1. /\ Cancelled(x) \in JobObjects
        /\ Cancelled(x).state = "CANCELLED" /\ Cancelled(x).settled = TRUE
    BY DEF Cancelled, JobObjects, SettledStates
  <1> QED
    BY <1>1 DEF RecordOK, RunningOK, SettledStates, WaitingStates

LEMMA CompletedOK ==
  ASSUME NEW x \in JobObjects
  PROVE  Completed(x) \in JobObjects /\ RecordOK(Completed(x))
  <1>1. /\ Completed(x) \in JobObjects
        /\ Completed(x).state = "COMPLETED" /\ Completed(x).settled = TRUE
    BY DEF Completed, JobObjects, SettledStates
  <1> QED
    BY <1>1 DEF RecordOK, SettledStates, WaitingStates

(* A failed job that was cancelled may become RETRYING and settled; only the
   row keeps it from being run again. *)
LEMMA FailedOK ==
  ASSUME NEW x \in JobObjects, RunningOK(x)
  PROVE  Failed(x) \in JobObjects /\ (x.settled \/ RecordOK(Failed(x)))
  <1>1. CASE Retries >= x.attempts
    <2>1. /\ Failed(x) \in JobObjects
          /\ Failed(x).state = "RETRYING" /\ Failed(x).settled = x.settled
          /\ Failed(x).attempts = x.attempts
      BY <1>1 DEF Failed, JobObjects, WaitingStates
    <2>2. x.attempts =< Retries
      BY <1>1, ConstantsAssumption DEF JobObjects
    <2> QED
      BY <2>1, <2>2 DEF RecordOK, SettledStates, JobObjects
  <1>2. CASE ~(Retries >= x.attempts)
    <2>1. /\ Failed(x) \in JobObjects
          /\ Failed(x).state \in {"CANCELLED", "FAILED"}
          /\ Failed(x).settled = TRUE
      BY <1>2 DEF Failed, JobObjects, SettledStates
    <2> QED
      BY <2>1 DEF RecordOK, SettledStates, WaitingStates
  <1> QED
    BY <1>1, <1>2

LEMMA DeferredOK ==
  ASSUME NEW x \in JobObjects, RunningOK(x)
  PROVE  Deferred(x) \in JobObjects /\ RecordOK(Deferred(x))
  <1>1. CASE x.state = "RUNNING"
    <2>1. 0 \in 0 .. Retries + 1 /\ 0 =< Retries
      BY ConstantsAssumption
    <2>2. /\ Deferred(x) \in JobObjects
          /\ Deferred(x).state = "PENDING" /\ Deferred(x).settled = x.settled
          /\ Deferred(x).attempts = 0
      BY <1>1, <2>1 DEF Deferred, JobObjects, WaitingStates
    <2>3. x.settled = FALSE
      BY <1>1 DEF RunningOK
    <2> QED
      BY <2>1, <2>2, <2>3 DEF RecordOK, SettledStates
  <1>2. CASE x.state = "CANCELLED"
    BY <1>2 DEF Deferred, RunningOK, RecordOK, SettledStates, WaitingStates
  <1> QED
    BY <1>1, <1>2 DEF RunningOK

LEMMA StoredOK ==
  ASSUME NEW x \in JobObjects, NEW y \in JobObjects
  PROVE  /\ Stored(x, y) \in JobObjects
         /\ RecordOK(x) /\ (RecordOK(y) \/ x.settled) => RecordOK(Stored(x, y))
         /\ x.settled => Stored(x, y) = x
         /\ ~x.settled => Stored(x, y) = y
  BY DEF Stored

LEMMA RunningRecord ==
  ASSUME NEW x, RunningOK(x)
  PROVE  RecordOK(x) /\ x.state \notin WaitingStates \cup {"ABSENT"}
  BY DEF RunningOK, RecordOK, WaitingStates, SettledStates

(* What the outcomes of a run are. *)
LEMMA OutcomeStates ==
  ASSUME NEW x \in JobObjects, RunningOK(x)
  PROVE  /\ Completed(x).state \in WaitingStates \cup SettledStates
         /\ Failed(x).state \in WaitingStates \cup SettledStates
         /\ Cancelled(x).state \in WaitingStates \cup SettledStates
         /\ Deferred(x).state \in WaitingStates \cup SettledStates
  <1>1. Completed(x).state = "COMPLETED" /\ Cancelled(x).state = "CANCELLED"
    BY DEF Completed, Cancelled, JobObjects
  <1>2. Failed(x).state \in {"RETRYING", "CANCELLED", "FAILED"}
    BY DEF Failed, JobObjects
  <1>3. Deferred(x).state \in {"PENDING", "CANCELLED"}
    BY DEF Deferred, JobObjects, RunningOK
  <1> QED
    BY <1>1, <1>2, <1>3 DEF WaitingStates, SettledStates

-----------------------------------------------------------------------------
LEMMA InitConsistent == Init => Consistent
  <1> SUFFICES ASSUME Init PROVE Consistent
    OBVIOUS
  <1>1. TypeOK
    BY NewJobOK, ConstantsAssumption DEF Init, TypeOK
  <1>2. \A j \in Jobs : RecordOK(record[j])
    BY NewJobOK DEF Init
  <1>3. \A w \in Workers, o \in Objects : HoldOK(w, o)
    BY DEF Init, HoldOK
  <1> QED
    BY <1>1, <1>2, <1>3 DEF Init, Consistent, OneWorkerPerJob, ClaimOK

-----------------------------------------------------------------------------
(* Steps that store a Job object into a row.  What they store over a row that
   is not settled either does not wait, or is stored by its only holder, who
   lets it go. *)
LEMMA RowStored ==
  ASSUME Consistent, NEW j \in Jobs, NEW y \in JobObjects,
         RecordOK(y) \/ record[j].settled,
         record' = [record EXCEPT ![j] = Stored(@, y)]
  PROVE  /\ record' \in [Jobs -> JobObjects]
         /\ \A i \in Jobs : RecordOK(record'[i])
         /\ \A i \in Jobs : record[i].settled => record'[i] = record[i]
         /\ \A i \in Jobs \ {j} : record'[i] = record[i]
         /\ record[j].settled \/ record'[j] = y
  <1>1. record \in [Jobs -> JobObjects] /\ \A i \in Jobs : RecordOK(record[i])
    BY DEF Consistent, TypeOK
  <1>2. /\ Stored(record[j], y) \in JobObjects
        /\ RecordOK(Stored(record[j], y))
        /\ record[j].settled => Stored(record[j], y) = record[j]
        /\ ~record[j].settled => Stored(record[j], y) = y
    BY <1>1, StoredOK
  <1>3. record'[j] = Stored(record[j], y) /\ \A i \in Jobs \ {j} : record'[i] = record[i]
    BY <1>1
  <1> QED
    BY <1>1, <1>2, <1>3

(* A row whose holders keep their objects. *)
LEMMA HoldersKept ==
  ASSUME Consistent, NEW j \in Jobs, NEW y \in JobObjects, RunningOK(y),
         record' = [record EXCEPT ![j] = Stored(@, y)],
         pc' = pc, copy' = copy, uncommitted' = uncommitted
  PROVE  \A w \in Workers, o \in Objects : HoldOK(w, o)'
  <1>1. RecordOK(y) /\ y.state \notin WaitingStates \cup {"ABSENT"}
    BY RunningRecord
  <1>2. /\ \A i \in Jobs : record[i].settled => record'[i] = record[i]
        /\ \A i \in Jobs \ {j} : record'[i] = record[i]
        /\ record[j].settled \/ record'[j] = y
    BY <1>1, RowStored
  <1> SUFFICES ASSUME NEW w \in Workers, NEW o \in Objects
               PROVE  HoldOK(w, o)'
    OBVIOUS
  <1>3. HoldOK(w, o) /\ o[1] \in Jobs
    BY ObjectJob DEF Consistent
  <1>4. CASE record'[o[1]] = record[o[1]]
    BY <1>3, <1>4 DEF HoldOK
  <1>5. CASE o[1] = j /\ ~record[j].settled /\ record'[j] = y
    BY <1>1, <1>3, <1>5 DEF HoldOK
  <1> QED
    BY <1>2, <1>3, <1>4, <1>5

LEMMA AddKeeps ==
  ASSUME Consistent, NEW j \in Jobs, Add(j)
  PROVE  Consistent'
  <1>1. NewJob("PENDING") \in JobObjects /\ RecordOK(NewJob("PENDING"))
    BY NewJobOK
  <1>2. TypeOK'
    BY <1>1 DEF Consistent, TypeOK, Add
  <1>3. \A i \in Jobs : RecordOK(record'[i])
    BY <1>1 DEF Consistent, TypeOK, Add
  <1>4. \A w \in Workers, o \in Objects : o[1] = j => pc[w][o] = "none"
    BY DEF Consistent, HoldOK, Add
  <1>5. ASSUME NEW w \in Workers, NEW o \in Objects PROVE HoldOK(w, o)'
    <2>1. CASE o[1] = j
      BY <1>4, <2>1 DEF HoldOK, Add
    <2>2. CASE o[1] # j
      <3>1. record'[o[1]] = record[o[1]]
        BY <2>2, ObjectJob DEF Consistent, TypeOK, Add
      <3> QED
        BY <3>1 DEF Consistent, HoldOK, Add
    <2> QED
      BY <2>1, <2>2
  <1> QED
    BY <1>2, <1>3, <1>5 DEF Consistent, OneWorkerPerJob, ClaimOK, Add

LEMMA CancelJobKeeps ==
  ASSUME Consistent, NEW j \in Jobs, CancelJob(j)
  PROVE  Consistent'
  <1>1. record[j] \in JobObjects
    BY DEF Consistent, TypeOK
  <1>2. /\ Cancelled(record[j]) \in JobObjects
        /\ RecordOK(Cancelled(record[j])) /\ RunningOK(Cancelled(record[j]))
    BY <1>1, CancelledOK
  <1>3. record' = [record EXCEPT ![j] = Stored(@, Cancelled(record[j]))]
    BY DEF CancelJob
  <1>4. record' \in [Jobs -> JobObjects] /\ \A i \in Jobs : RecordOK(record'[i])
    BY <1>2, <1>3, RowStored
  <1>5. \A w \in Workers, o \in Objects : HoldOK(w, o)'
    BY <1>2, <1>3, HoldersKept DEF CancelJob
  <1> QED
    BY <1>4, <1>5 DEF Consistent, TypeOK, OneWorkerPerJob, ClaimOK, CancelJob

LEMMA StoreReportKeeps ==
  ASSUME Consistent, NEW r \in reports, StoreReport(r)
  PROVE  Consistent'
  <1>1. r[2] \in Jobs /\ r[3] \in JobObjects /\ RunningOK(r[3])
    BY DEF Consistent, TypeOK
  <1>2. RecordOK(r[3])
    BY <1>1, RunningRecord
  <1>3. record' = [record EXCEPT ![r[2]] = Stored(@, r[3])]
    BY DEF StoreReport
  <1>4. record' \in [Jobs -> JobObjects] /\ \A i \in Jobs : RecordOK(record'[i])
    BY <1>1, <1>2, <1>3, RowStored
  <1>5. \A w \in Workers, o \in Objects : HoldOK(w, o)'
    BY <1>1, <1>3, HoldersKept DEF StoreReport
  <1> QED
    BY <1>4, <1>5 DEF Consistent, TypeOK, OneWorkerPerJob, ClaimOK, StoreReport

-----------------------------------------------------------------------------
(* The steps of a worker with a job.                                       *)
(* A claim, whether it is committed or not: the object is running, and no
   other changes. *)
LEMMA ClaimsKeeps ==
  ASSUME Consistent, NEW w \in Workers, NEW o \in Objects, Claims(w, o)
  PROVE  /\ record[o[1]] \in JobObjects /\ RecordOK(record[o[1]])
         /\ record[o[1]].state \in WaitingStates /\ pc[w][o] = "none"
         /\ RunningOK(copy'[w][o]) /\ ~copy'[w][o].settled
         /\ pc'[w][o] = "claimed"
         /\ \A v \in Workers, p \in Objects :
              v # w \/ p # o => pc'[v][p] = pc[v][p] /\ copy'[v][p] = copy[v][p]
         /\ copy' \in [Workers -> [Objects -> JobObjects]]
         /\ pc' \in [Workers -> [Objects -> {"none", "claimed", "processing",
                                            "ended", "leaked"}]]
         /\ \A v \in Workers : ClaimOK(v)'
  <1>1. /\ record[o[1]] \in JobObjects /\ RecordOK(record[o[1]])
        /\ record[o[1]].state \in WaitingStates /\ pc[w][o] = "none"
    BY ObjectJob DEF Consistent, TypeOK, Claims, Eligible
  <1>2. /\ Started(record[o[1]]) \in JobObjects /\ RunningOK(Started(record[o[1]]))
        /\ ~Started(record[o[1]]).settled
    BY <1>1, StartedOK
  <1>3. /\ pc'[w][o] = "claimed" /\ copy'[w][o] = Started(record[o[1]])
        /\ \A v \in Workers, p \in Objects :
             v # w \/ p # o => pc'[v][p] = pc[v][p] /\ copy'[v][p] = copy[v][p]
    BY DEF Consistent, TypeOK, Claims
  <1>4. copy' \in [Workers -> [Objects -> JobObjects]]
    BY <1>2 DEF Consistent, TypeOK, Claims
  <1>5. pc' \in [Workers -> [Objects -> {"none", "claimed", "processing",
                                        "ended", "leaked"}]]
    BY DEF Consistent, TypeOK, Claims
  <1>6. \A v \in Workers : ClaimOK(v)'
    BY <1>3 DEF Consistent, ClaimOK, Claims, AtNext
  <1> QED
    BY <1>1, <1>2, <1>3, <1>4, <1>5, <1>6

(* A job that somebody holds is taken only if a commit failed for it; a job
   that nobody holds has one holder then. *)
LEMMA TakeNextKeeps ==
  ASSUME Consistent, NEW w \in Workers, NEW o \in Objects, TakeNext(w, o)
  PROVE  Consistent'
  <1>1. Claims(w, o) /\ o[1] \in Jobs
    BY ObjectJob DEF TakeNext
  <1>2. /\ record[o[1]] \in JobObjects /\ RecordOK(record[o[1]])
        /\ record[o[1]].state \in WaitingStates /\ pc[w][o] = "none"
        /\ RunningOK(copy'[w][o]) /\ ~copy'[w][o].settled
        /\ pc'[w][o] = "claimed"
        /\ \A v \in Workers, p \in Objects :
             v # w \/ p # o => pc'[v][p] = pc[v][p] /\ copy'[v][p] = copy[v][p]
        /\ \A v \in Workers : ClaimOK(v)'
    BY <1>1, ClaimsKeeps
  <1>3. /\ record'[o[1]] \in JobObjects /\ record'[o[1]].state = "RUNNING"
        /\ ~record'[o[1]].settled
        /\ \A i \in Jobs \ {o[1]} : record'[i] = record[i]
        /\ record' \in [Jobs -> JobObjects]
    BY <1>1, <1>2 DEF Consistent, TypeOK, TakeNext, JobObjects, RecordOK,
                WaitingStates, SettledStates
  <1>4. /\ uncommitted' \subseteq uncommitted
        /\ \A j \in uncommitted : j # o[1] => j \in uncommitted'
        /\ Held(o[1]) => o[1] \in uncommitted'
    <2>1. Held(o[1]) => o[1] \in uncommitted
      BY <1>2 DEF Held, Consistent, HoldOK
    <2> QED
      BY <2>1 DEF TakeNext
  <1>5. TypeOK'
    <2>1. /\ copy' \in [Workers -> [Objects -> JobObjects]]
          /\ pc' \in [Workers -> [Objects -> {"none", "claimed", "processing",
                                             "ended", "leaked"}]]
      BY <1>1, ClaimsKeeps
    <2>2. UNCHANGED <<phase, budget, reports, orphans>>
      BY <1>1 DEF Claims
    <2> QED
      BY <1>3, <1>4, <2>1, <2>2 DEF Consistent, TypeOK
  <1>6. \A i \in Jobs : RecordOK(record'[i])
    BY <1>3 DEF Consistent, RecordOK, WaitingStates, SettledStates
  <1>7. ASSUME NEW v \in Workers, NEW p \in Objects PROVE HoldOK(v, p)'
    <2>0. HoldOK(v, p) /\ p[1] \in Jobs
      BY ObjectJob DEF Consistent
    <2>1. CASE v = w /\ p = o
      BY <1>2, <1>3, <2>1 DEF HoldOK, WaitingStates
    <2>2. CASE (v # w \/ p # o) /\ p[1] = o[1]
      BY <1>2, <1>3, <2>0, <2>2 DEF HoldOK, RecordOK, WaitingStates, SettledStates
    <2>3. CASE p[1] # o[1]
      BY <1>2, <1>3, <1>4, <2>0, <2>3 DEF HoldOK
    <2> QED
      BY <2>1, <2>2, <2>3
  <1>8. OneWorkerPerJob'
    <2> SUFFICES ASSUME NEW v \in Workers, NEW u \in Workers,
                        NEW p \in Objects, NEW q \in Objects,
                        p[1] = q[1], p[1] \notin uncommitted',
                        pc'[v][p] # "none", pc'[u][q] # "none"
                 PROVE  v = u /\ p = q
      BY DEF OneWorkerPerJob
    <2>1. CASE p[1] = o[1]
      <3>1. ~Held(o[1]) /\ q[1] = o[1]
        BY <1>4, <2>1
      <3>2. v = w /\ p = o
        BY <1>2, <2>1, <3>1 DEF Held
      <3>3. u = w /\ q = o
        BY <1>2, <3>1 DEF Held
      <3> QED
        BY <3>2, <3>3
    <2>2. CASE p[1] # o[1]
      <3>1. /\ pc[v][p] # "none" /\ pc[u][q] # "none"
            /\ p[1] \notin uncommitted
        BY <1>2, <1>4, <2>2
      <3> QED
        BY <3>1 DEF Consistent, OneWorkerPerJob
    <2> QED
      BY <2>1, <2>2
  <1> QED
    BY <1>2, <1>5, <1>6, <1>7, <1>8 DEF Consistent, TakeNext, Claims

(* After a commit that failed the job waits, held or not, and is known as
   uncommitted. *)
LEMMA TakeNextUncommittedKeeps ==
  ASSUME Consistent, NEW w \in Workers, NEW o \in Objects,
         TakeNextUncommitted(w, o)
  PROVE  Consistent'
  <1>1. Claims(w, o) /\ o[1] \in Jobs
    BY ObjectJob DEF TakeNextUncommitted
  <1>2. /\ record[o[1]].state \in WaitingStates
        /\ RunningOK(copy'[w][o]) /\ ~copy'[w][o].settled
        /\ pc'[w][o] = "claimed"
        /\ \A v \in Workers, p \in Objects :
             v # w \/ p # o => pc'[v][p] = pc[v][p] /\ copy'[v][p] = copy[v][p]
        /\ \A v \in Workers : ClaimOK(v)'
    BY <1>1, ClaimsKeeps
  <1>3. record' = record /\ uncommitted' = uncommitted \cup {o[1]}
    BY DEF TakeNextUncommitted
  <1>4. TypeOK'
    BY <1>1, <1>3, ClaimsKeeps DEF Consistent, TypeOK, Claims
  <1>5. ASSUME NEW v \in Workers, NEW p \in Objects PROVE HoldOK(v, p)'
    <2>0. HoldOK(v, p)
      BY DEF Consistent
    <2>1. CASE v = w /\ p = o
      BY <1>2, <1>3, <2>1 DEF HoldOK, WaitingStates
    <2>2. CASE v # w \/ p # o
      BY <1>2, <1>3, <2>0, <2>2 DEF HoldOK
    <2> QED
      BY <2>1, <2>2
  <1>6. OneWorkerPerJob'
    BY <1>2, <1>3 DEF Consistent, OneWorkerPerJob
  <1> QED
    BY <1>1, <1>2, <1>3, <1>4, <1>5, <1>6 DEF Consistent, Claims

LEMMA LaunchKeeps ==
  ASSUME Consistent, NEW w \in Workers, NEW o \in Objects, Launch(w, o)
  PROVE  Consistent'
  <1>0. o[1] \in Jobs /\ uncommitted' = uncommitted
    BY ObjectJob DEF Launch
  <1>1. copy[w][o] \in JobObjects /\ RunningOK(copy[w][o])
    BY DEF Consistent, TypeOK, HoldOK, Launch
  <1>2. RecordOK(copy[w][o]) /\ copy[w][o].state \notin WaitingStates \cup {"ABSENT"}
    BY <1>1, RunningRecord
  <1>3. /\ record' \in [Jobs -> JobObjects]
        /\ \A i \in Jobs : RecordOK(record'[i])
        /\ \A i \in Jobs : record[i].settled => record'[i] = record[i]
        /\ \A i \in Jobs \ {o[1]} : record'[i] = record[i]
        /\ record[o[1]].settled \/ record'[o[1]] = copy[w][o]
    BY <1>0, <1>1, <1>2, RowStored DEF Launch
  <1>4. /\ pc'[w][o] = "processing" /\ pc[w][o] = "claimed"
        /\ \A v \in Workers, p \in Objects : v # w \/ p # o => pc'[v][p] = pc[v][p]
        /\ copy' = copy
    BY DEF Consistent, TypeOK, Launch
  <1>5. budget' \in [Workers -> 0 .. Concurrency]
    <2>1. budget[w] \in 1 .. Concurrency
      BY DEF Consistent, TypeOK, ClaimOK, Launch
    <2>2. budget[w] - 1 \in 0 .. Concurrency
      BY <2>1, ConstantsAssumption
    <2> QED
      BY <2>2 DEF Consistent, TypeOK, Launch
  <1>6. TypeOK'
    BY <1>0, <1>3, <1>5 DEF Consistent, TypeOK, Launch
  <1>7. ASSUME NEW v \in Workers, NEW p \in Objects PROVE HoldOK(v, p)'
    <2>0. HoldOK(v, p) /\ HoldOK(w, o) /\ p[1] \in Jobs
      BY ObjectJob DEF Consistent
    <2>1. CASE v = w /\ p = o
      BY <1>0, <1>1, <1>2, <1>3, <1>4, <2>0, <2>1 DEF HoldOK
    <2>2. CASE (v # w \/ p # o) /\ p[1] = o[1]
      BY <1>0, <1>2, <1>3, <1>4, <2>0, <2>2 DEF HoldOK
    <2>3. CASE p[1] # o[1]
      BY <1>0, <1>3, <1>4, <2>0, <2>3 DEF HoldOK
    <2> QED
      BY <2>1, <2>2, <2>3
  <1>8. OneWorkerPerJob'
    BY <1>0, <1>4 DEF Consistent, OneWorkerPerJob
  <1>9. \A v \in Workers : ClaimOK(v)'
    <2>1. \A v \in Workers \ {w} : budget'[v] = budget[v]
      BY DEF Consistent, TypeOK, Launch
    <2>2. \A p \in Objects : pc'[w][p] # "claimed"
      BY <1>4 DEF Consistent, ClaimOK
    <2> QED
      BY <1>4, <2>1, <2>2 DEF Consistent, ClaimOK
  <1> QED
    BY <1>3, <1>6, <1>7, <1>8, <1>9 DEF Consistent, Launch

(* A job stays in activeJobs, or was noticed as cancelled, and its row is as
   it was. *)
LEMMA LeakKeeps ==
  ASSUME Consistent, NEW w \in Workers, NEW o \in Objects,
         LaunchFails(w, o) \/ StoreOutcomeFails(w, o)
  PROVE  Consistent'
  <1>1. /\ pc[w][o] # "none" /\ pc'[w][o] = "leaked"
        /\ \A v \in Workers, p \in Objects : v # w \/ p # o => pc'[v][p] = pc[v][p]
        /\ copy' = copy /\ record' = record /\ uncommitted' = uncommitted
    BY DEF Consistent, TypeOK, LaunchFails, StoreOutcomeFails
  <1>2. TypeOK'
    <2>1. 0 \in 0 .. Concurrency
      BY ConstantsAssumption
    <2>2. CASE LaunchFails(w, o)
      BY <2>1, <2>2 DEF Consistent, TypeOK, LaunchFails
    <2>3. CASE StoreOutcomeFails(w, o)
      BY <2>3 DEF Consistent, TypeOK, StoreOutcomeFails
    <2> QED
      BY <2>2, <2>3
  <1>3. ASSUME NEW v \in Workers, NEW p \in Objects PROVE HoldOK(v, p)'
    BY <1>1 DEF Consistent, HoldOK
  <1>4. OneWorkerPerJob'
    BY <1>1 DEF Consistent, OneWorkerPerJob
  <1>5. \A v \in Workers : ClaimOK(v)'
    <2>1. CASE LaunchFails(w, o)
      <3>1. \A v \in Workers \ {w} : budget'[v] = budget[v]
        BY <2>1 DEF Consistent, TypeOK, LaunchFails
      <3>2. \A p \in Objects : pc'[w][p] # "claimed"
        BY <1>1, <2>1 DEF Consistent, ClaimOK, LaunchFails
      <3> QED
        BY <1>1, <3>1, <3>2 DEF Consistent, ClaimOK
    <2>2. CASE StoreOutcomeFails(w, o)
      BY <1>1, <2>2 DEF Consistent, ClaimOK, StoreOutcomeFails
    <2> QED
      BY <2>1, <2>2
  <1> QED
    BY <1>1, <1>2, <1>3, <1>4, <1>5
    DEF Consistent, LaunchFails, StoreOutcomeFails

LEMMA NoticeCancellationKeeps ==
  ASSUME Consistent, NEW w \in Workers, NEW o \in Objects, NoticeCancellation(w, o)
  PROVE  Consistent'
  <1>1. /\ Cancelled(copy[w][o]) \in JobObjects /\ RunningOK(Cancelled(copy[w][o]))
    BY CancelledOK DEF Consistent, TypeOK
  <1>2. record[o[1]].settled
    BY ObjectJob DEF Consistent, RecordOK, NoticeCancellation, SettledStates
  <1>3. /\ copy'[w][o] = Cancelled(copy[w][o]) /\ pc[w][o] = "processing"
        /\ \A v \in Workers, p \in Objects : v # w \/ p # o => copy'[v][p] = copy[v][p]
        /\ pc' = pc /\ record' = record /\ uncommitted' = uncommitted
    BY DEF Consistent, TypeOK, NoticeCancellation
  <1>4. TypeOK'
    BY <1>1 DEF Consistent, TypeOK, NoticeCancellation
  <1>5. ASSUME NEW v \in Workers, NEW p \in Objects PROVE HoldOK(v, p)'
    BY <1>1, <1>2, <1>3 DEF Consistent, HoldOK
  <1> QED
    BY <1>3, <1>4, <1>5 DEF Consistent, OneWorkerPerJob, ClaimOK, NoticeCancellation

LEMMA ReportKeeps ==
  ASSUME Consistent, NEW w \in Workers, NEW o \in Objects, Report(w, o)
  PROVE  Consistent'
  <1>1. copy[w][o] \in JobObjects /\ RunningOK(copy[w][o])
    BY DEF Consistent, TypeOK, HoldOK, Report
  <1>2. \A r \in reports' : r \in reports \/ r = <<w, o[1], copy[w][o]>>
    BY DEF Report
  <1>3. TypeOK' /\ \A r \in reports' : RunningOK(r[3])
    BY <1>1, <1>2, ObjectJob DEF Consistent, TypeOK, Report
  <1> QED
    BY <1>3 DEF Consistent, HoldOK, OneWorkerPerJob, ClaimOK, Report

LEMMA OutcomeKeeps ==
  ASSUME Consistent, NEW w \in Workers, NEW o \in Objects, Outcome(w, o)
  PROVE  Consistent'
  <1>1. /\ copy[w][o] \in JobObjects /\ RunningOK(copy[w][o])
        /\ copy[w][o].settled => record[o[1]].settled
        /\ pc[w][o] = "processing"
    BY DEF Consistent, TypeOK, HoldOK, Outcome
  <1>2. PICK result \in {Completed(copy[w][o]), Failed(copy[w][o]),
                         Cancelled(copy[w][o])} :
          copy' = [copy EXCEPT ![w][o] = result]
    BY DEF Outcome
  <1>3. /\ result \in JobObjects /\ (record[o[1]].settled \/ RecordOK(result))
        /\ result.state \in WaitingStates \cup SettledStates
    BY <1>1, <1>2, CompletedOK, FailedOK, CancelledOK, OutcomeStates
  <1>4. /\ copy'[w][o] = result /\ pc'[w][o] = "ended"
        /\ \A v \in Workers, p \in Objects :
             v # w \/ p # o => pc'[v][p] = pc[v][p] /\ copy'[v][p] = copy[v][p]
        /\ record' = record /\ uncommitted' = uncommitted
    BY <1>2 DEF Consistent, TypeOK, Outcome
  <1>5. TypeOK'
    BY <1>2, <1>3 DEF Consistent, TypeOK, Outcome
  <1>6. ASSUME NEW v \in Workers, NEW p \in Objects PROVE HoldOK(v, p)'
    BY <1>1, <1>3, <1>4 DEF Consistent, HoldOK
  <1>7. OneWorkerPerJob' /\ \A v \in Workers : ClaimOK(v)'
    BY <1>1, <1>4 DEF Consistent, OneWorkerPerJob, ClaimOK, Outcome
  <1> QED
    BY <1>4, <1>5, <1>6, <1>7 DEF Consistent, Outcome

(* The only step after which a job waits again: its holder is the only one,
   and lets it go, unless a commit failed. *)
LEMMA StoreOutcomeKeeps ==
  ASSUME Consistent, NEW w \in Workers, NEW o \in Objects, StoreOutcome(w, o)
  PROVE  Consistent'
  <1>0. o[1] \in Jobs /\ uncommitted' = uncommitted
    BY ObjectJob DEF StoreOutcome
  <1>1. /\ copy[w][o] \in JobObjects /\ (record[o[1]].settled \/ RecordOK(copy[w][o]))
        /\ copy[w][o].state # "ABSENT"
    BY DEF Consistent, TypeOK, HoldOK, StoreOutcome, WaitingStates, SettledStates
  <1>2. /\ record' \in [Jobs -> JobObjects]
        /\ \A i \in Jobs : RecordOK(record'[i])
        /\ \A i \in Jobs : record[i].settled => record'[i] = record[i]
        /\ \A i \in Jobs \ {o[1]} : record'[i] = record[i]
        /\ record[o[1]].settled \/ record'[o[1]] = copy[w][o]
    BY <1>0, <1>1, RowStored DEF StoreOutcome
  <1>3. /\ pc[w][o] = "ended" /\ pc'[w][o] = "none"
        /\ \A v \in Workers, p \in Objects : v # w \/ p # o => pc'[v][p] = pc[v][p]
        /\ copy' = copy
    BY DEF Consistent, TypeOK, StoreOutcome
  <1>4. TypeOK'
    BY <1>0, <1>2 DEF Consistent, TypeOK, StoreOutcome
  <1>5. ASSUME NEW v \in Workers, NEW p \in Objects PROVE HoldOK(v, p)'
    <2>0. HoldOK(v, p) /\ p[1] \in Jobs
      BY ObjectJob DEF Consistent
    <2>1. CASE v = w /\ p = o
      BY <1>3, <2>1 DEF HoldOK
    <2>2. CASE (v # w \/ p # o) /\ p[1] = o[1]
      <3>1. pc[v][p] # "none" => o[1] \in uncommitted
        BY <1>3, <2>2 DEF Consistent, OneWorkerPerJob
      <3> QED
        BY <1>0, <1>1, <1>2, <1>3, <2>0, <2>2, <3>1 DEF HoldOK
    <2>3. CASE p[1] # o[1]
      BY <1>0, <1>2, <1>3, <2>0, <2>3 DEF HoldOK
    <2> QED
      BY <2>1, <2>2, <2>3
  <1>6. OneWorkerPerJob' /\ \A v \in Workers : ClaimOK(v)'
    BY <1>0, <1>3 DEF Consistent, OneWorkerPerJob, ClaimOK, StoreOutcome
  <1> QED
    BY <1>2, <1>4, <1>5, <1>6 DEF Consistent, StoreOutcome

-----------------------------------------------------------------------------
(* The steps of a worker, and of its process.                              *)

(* Polls, and the phases of a shutdown, which touch no job. *)
LEMMA PollKeeps ==
  ASSUME Consistent, NEW w \in Workers,
         Poll(w) \/ NothingNext(w) \/ NextFails(w)
  PROVE  Consistent'
  <1>1. UNCHANGED <<record, phase, pc, copy, reports, orphans, uncommitted>>
    BY DEF Poll, NothingNext, NextFails
  <1>2. \A o \in Objects : pc[w][o] # "claimed"
    BY DEF Consistent, ClaimOK, Poll, NothingNext, NextFails, AtNext
  <1>3. budget' \in [Workers -> 0 .. Concurrency]
    <2>1. CASE Poll(w)
      <3>1. IsFiniteSet(ActiveJobs(w))
        <4>1. ActiveJobs(w) \in SUBSET Objects
          BY DEF ActiveJobs
        <4> QED
          BY <4>1, ObjectsFinite, FS_Subset
      <3>2. Cardinality(ActiveJobs(w)) \in Nat
        BY <3>1, FS_CardinalityType
      <3>3. Concurrency - Cardinality(ActiveJobs(w)) \in 0 .. Concurrency
        BY <2>1, <3>2, ConstantsAssumption DEF Poll
      <3> QED
        BY <2>1, <3>3 DEF Consistent, TypeOK, Poll
    <2>2. CASE NothingNext(w)
      <3>1. budget[w] - 1 \in 0 .. Concurrency
        BY <2>2, ConstantsAssumption DEF Consistent, TypeOK, NothingNext, AtNext
      <3> QED
        BY <2>2, <3>1 DEF Consistent, TypeOK, NothingNext
    <2>3. CASE NextFails(w)
      <3>1. 0 \in 0 .. Concurrency
        BY ConstantsAssumption
      <3> QED
        BY <2>3, <3>1 DEF Consistent, TypeOK, NextFails
    <2> QED
      BY <2>1, <2>2, <2>3
  <1>4. \A v \in Workers \ {w} : budget'[v] = budget[v]
    BY DEF Consistent, TypeOK, Poll, NothingNext, NextFails
  <1>5. TypeOK'
    BY <1>1, <1>3 DEF Consistent, TypeOK
  <1>6. \A v \in Workers : ClaimOK(v)'
    BY <1>1, <1>2, <1>4 DEF Consistent, ClaimOK
  <1> QED
    BY <1>1, <1>5, <1>6 DEF Consistent, HoldOK, OneWorkerPerJob

LEMMA PhaseKeeps ==
  ASSUME Consistent, NEW w \in Workers,
         \/ Stop(w) \/ Stopped(w) \/ Restart(w)
         \/ \E o \in Objects : OrphanEnds(w, o)
  PROVE  Consistent'
  <1>1. UNCHANGED <<record, budget, pc, copy, reports, uncommitted>>
    BY DEF Stop, Stopped, Restart, OrphanEnds
  <1>2. TypeOK'
    BY DEF Consistent, TypeOK, Stop, Stopped, Restart, OrphanEnds
  <1> QED
    BY <1>1, <1>2 DEF Consistent, HoldOK, OneWorkerPerJob, ClaimOK

LEMMA StopTimeoutKeeps ==
  ASSUME Consistent, NEW w \in Workers, StopTimeout(w)
  PROVE  Consistent'
  <1> DEFINE processing == {o \in Objects : pc[w][o] = "processing"}
             deferred == [o \in Objects |-> IF o \in processing
                                        THEN Deferred(copy[w][o]) ELSE copy[w][o]]
             ended == [o \in Objects |-> IF o \in processing
                                     THEN "ended" ELSE pc[w][o]]
  <1>1. /\ copy' = [copy EXCEPT ![w] = deferred]
        /\ pc' = [pc EXCEPT ![w] = ended]
        /\ orphans' = [orphans EXCEPT ![w] = @ \cup processing]
        /\ phase' = [phase EXCEPT ![w] = "stopped"]
        /\ UNCHANGED <<record, budget, reports, uncommitted>>
    BY DEF StopTimeout
  <1>2. ASSUME NEW o \in Objects, o \in processing
        PROVE  /\ copy[w][o] \in JobObjects
               /\ Deferred(copy[w][o]) \in JobObjects
               /\ RecordOK(Deferred(copy[w][o]))
               /\ Deferred(copy[w][o]).state \in WaitingStates \cup SettledStates
    <2>1. copy[w][o] \in JobObjects /\ RunningOK(copy[w][o])
      BY <1>2 DEF Consistent, TypeOK, HoldOK
    <2> QED
      BY <2>1, DeferredOK, OutcomeStates
  <1>3. /\ deferred \in [Objects -> JobObjects]
        /\ ended \in [Objects -> {"none", "claimed", "processing", "ended", "leaked"}]
    BY <1>2 DEF Consistent, TypeOK
  <1>4. /\ \A o \in Objects : pc'[w][o] = ended[o] /\ copy'[w][o] = deferred[o]
        /\ \A v \in Workers \ {w} : pc'[v] = pc[v] /\ copy'[v] = copy[v]
    BY <1>1 DEF Consistent, TypeOK
  <1>5. TypeOK'
    <2>1. copy' \in [Workers -> [Objects -> JobObjects]]
      BY <1>1, <1>3 DEF Consistent, TypeOK
    <2>2. pc' \in [Workers -> [Objects -> {"none", "claimed", "processing", "ended",
                                       "leaked"}]]
      BY <1>1, <1>3 DEF Consistent, TypeOK
    <2>3. /\ orphans' \in [Workers -> SUBSET Objects]
          /\ phase' \in [Workers -> {"up", "stopping", "stopped", "down"}]
      BY <1>1 DEF Consistent, TypeOK
    <2> QED
      BY <1>1, <2>1, <2>2, <2>3 DEF Consistent, TypeOK
  <1>6. ASSUME NEW v \in Workers, NEW o \in Objects PROVE HoldOK(v, o)'
    <2>1. CASE v = w /\ o \in processing
      BY <1>1, <1>2, <1>4, <2>1 DEF Consistent, HoldOK
    <2>2. CASE v # w \/ o \notin processing
      <3>1. pc'[v][o] = pc[v][o] /\ copy'[v][o] = copy[v][o]
        BY <1>4, <2>2
      <3> QED
        BY <1>1, <3>1 DEF Consistent, HoldOK
    <2> QED
      BY <2>1, <2>2
  <1>7. \A v \in Workers, o \in Objects :
          /\ pc'[v][o] # "none" => pc[v][o] # "none"
          /\ pc'[v][o] = "claimed" => pc[v][o] = "claimed"
    BY <1>4
  <1>8. OneWorkerPerJob' /\ \A v \in Workers : ClaimOK(v)'
    BY <1>1, <1>7 DEF Consistent, OneWorkerPerJob, ClaimOK
  <1> QED
    BY <1>1, <1>5, <1>6, <1>8 DEF Consistent

LEMMA GoneKeeps ==
  ASSUME Consistent, NEW w \in Workers, Gone(w)
  PROVE  Consistent'
  <1>1. /\ \A o \in Objects : pc'[w][o] = "none"
        /\ \A v \in Workers \ {w} : /\ pc'[v] = pc[v] /\ copy'[v] = copy[v]
                                    /\ budget'[v] = budget[v]
        /\ record' = record /\ uncommitted' = uncommitted
    BY DEF Consistent, TypeOK, Gone
  <1>2. TypeOK'
    <2>1. [o \in Objects |-> NewJob("ABSENT")] \in [Objects -> JobObjects]
      BY NewJobOK
    <2>2. copy' \in [Workers -> [Objects -> JobObjects]]
      BY <2>1 DEF Consistent, TypeOK, Gone
    <2>3. 0 \in 0 .. Concurrency
      BY ConstantsAssumption
    <2> QED
      BY <2>2, <2>3 DEF Consistent, TypeOK, Gone
  <1>3. ASSUME NEW v \in Workers, NEW o \in Objects PROVE HoldOK(v, o)'
    BY <1>1 DEF Consistent, HoldOK
  <1>4. OneWorkerPerJob'
    BY <1>1 DEF Consistent, OneWorkerPerJob
  <1>5. \A v \in Workers : ClaimOK(v)'
    BY <1>1 DEF Consistent, ClaimOK
  <1>6. \A r \in reports' : RunningOK(r[3])
    BY DEF Consistent, Gone
  <1> QED
    BY <1>1, <1>2, <1>3, <1>4, <1>5, <1>6 DEF Consistent

LEMMA NextKeeps == Consistent /\ [Next]_vars => Consistent'
  <1> SUFFICES ASSUME Consistent, [Next]_vars PROVE Consistent'
    OBVIOUS
  <1>1. ASSUME NEW j \in Jobs, Add(j) \/ CancelJob(j) PROVE Consistent'
    BY <1>1, AddKeeps, CancelJobKeeps
  <1>2. ASSUME NEW w \in Workers, NEW o \in Objects, JobStep(w, o) PROVE Consistent'
    BY <1>2, TakeNextKeeps, TakeNextUncommittedKeeps, LaunchKeeps, LeakKeeps, NoticeCancellationKeeps,
       ReportKeeps, OutcomeKeeps, StoreOutcomeKeeps, PhaseKeeps DEF JobStep
  <1>3. ASSUME NEW r \in reports, StoreReport(r) PROVE Consistent'
    BY <1>3, StoreReportKeeps
  <1>4. ASSUME NEW w \in Workers, WorkerStep(w) PROVE Consistent'
    BY <1>4, PollKeeps, PhaseKeeps, StopTimeoutKeeps, GoneKeeps
    DEF WorkerStep, Exit, Crash
  <1>5. CASE UNCHANGED vars
    BY <1>5 DEF vars, Consistent, TypeOK, HoldOK, ClaimOK, OneWorkerPerJob
  <1> QED
    BY <1>1, <1>2, <1>3, <1>4, <1>5 DEF Next

(* Every reachable state is consistent: all objects have their types, and
   what is said above of rows, holders and reports holds. *)
THEOREM QueueConsistent == Spec => []Consistent
  <1> QED
    BY InitConsistent, NextKeeps, PTL DEF Spec

(* The variables keep their types: attempts never exceed Retries + 1. *)
THEOREM QueueTyped == Spec => []TypeOK
  <1>1. Consistent => TypeOK
    BY DEF Consistent
  <1> QED
    BY <1>1, QueueConsistent, PTL

(* No two workers have the same job among their active jobs, and none has it
   twice, unless somebody holds it since a commit failed. *)
THEOREM OneWorkerHolds == Spec => []OneWorkerPerJob
  <1>1. Consistent => OneWorkerPerJob
    BY DEF Consistent
  <1> QED
    BY <1>1, QueueConsistent, PTL

-----------------------------------------------------------------------------
(* The row of a settled job is written by update() only, which leaves it, and
   by next(), which takes a job that waits. *)
LEMMA SettledKept ==
  ASSUME Consistent, [Next]_vars, NEW i \in Jobs, record[i].settled
  PROVE  record'[i] = record[i]
  <1>1. /\ record \in [Jobs -> JobObjects]
        /\ record[i].state \in SettledStates
    BY DEF Consistent, TypeOK, RecordOK
  <1>2. ASSUME NEW j \in Jobs, NEW y,
               record' = [record EXCEPT ![j] = Stored(@, y)]
        PROVE  record'[i] = record[i]
    BY <1>1, <1>2 DEF Stored
  <1>3. ASSUME NEW j \in Jobs, Add(j) \/ CancelJob(j) PROVE record'[i] = record[i]
    <2>1. CASE Add(j)
      BY <1>1, <2>1 DEF Add, SettledStates
    <2>2. CASE CancelJob(j)
      BY <1>2, <2>2 DEF CancelJob
    <2> QED
      BY <1>3, <2>1, <2>2
  <1>4. ASSUME NEW w \in Workers, NEW o \in Objects, JobStep(w, o)
        PROVE  record'[i] = record[i]
    <2>1. CASE TakeNext(w, o)
      BY <1>1, <2>1, ObjectJob
      DEF TakeNext, Claims, Eligible, WaitingStates, SettledStates
    <2>2. CASE Launch(w, o) \/ StoreOutcome(w, o)
      BY <1>2, <2>2, ObjectJob DEF Launch, StoreOutcome
    <2> QED
      BY <1>4, <2>1, <2>2 DEF JobStep, TakeNextUncommitted, LaunchFails, NoticeCancellation, Report,
                               Outcome, StoreOutcomeFails, OrphanEnds
  <1>5. ASSUME NEW r \in reports, StoreReport(r) PROVE record'[i] = record[i]
    <2>1. r[2] \in Jobs
      BY DEF Consistent, TypeOK
    <2> QED
      BY <1>2, <1>5, <2>1 DEF StoreReport
  <1>6. ASSUME NEW w \in Workers, WorkerStep(w) PROVE record'[i] = record[i]
    BY <1>6 DEF WorkerStep, Poll, NothingNext, NextFails, Stop, Stopped,
                StopTimeout, Exit, Crash, Gone, Restart
  <1>7. CASE UNCHANGED vars
    BY <1>7 DEF vars
  <1> QED
    BY <1>3, <1>4, <1>5, <1>6, <1>7 DEF Next

(* Whatever workers still write, the row of a settled job does not change. *)
THEOREM SettledForever == Spec => SettledIsFinal
  <1>1. Consistent /\ [Next]_vars
          => [\A j \in Jobs : record[j].settled => record'[j] = record[j]]_vars
    BY SettledKept
  <1> QED
    BY <1>1, QueueConsistent, PTL DEF Spec, SettledIsFinal

-----------------------------------------------------------------------------
(* Concurrency.  The places taken and the iterations left of the poll together
   never exceed the concurrency, but for the job that was just taken and still
   has its iteration.                                                      *)

Claiming(w) == \E o \in Objects : pc[w][o] = "claimed"

PlacesOK(w) ==
  Cardinality(ActiveJobs(w)) + budget[w]
    =< Concurrency + (IF Claiming(w) THEN 1 ELSE 0)

-----------------------------------------------------------------------------
(* Sets of objects are finite, and smaller ones have fewer objects. *)
LEMMA ObjectSets ==
  ASSUME NEW S \in SUBSET Objects
  PROVE  /\ Cardinality(S) \in Nat
         /\ \A T \in SUBSET S : Cardinality(T) =< Cardinality(S)
         /\ \A o \in Objects \ S : Cardinality(S \cup {o}) = Cardinality(S) + 1
  <1>1. IsFiniteSet(S)
    BY ObjectsFinite, FS_Subset
  <1>2. \A T \in SUBSET S : Cardinality(T) =< Cardinality(S)
    BY <1>1, FS_Subset
  <1>3. \A o \in Objects \ S : Cardinality(S \cup {o}) = Cardinality(S) + 1
    BY <1>1, FS_AddElement
  <1> QED
    BY <1>1, <1>2, <1>3, FS_CardinalityType

(* While a job is being taken, its iteration is left. *)
LEMMA ClaimHasBudget ==
  ASSUME Consistent, NEW w \in Workers
  PROVE  /\ budget[w] \in Nat
         /\ Claiming(w) => budget[w] > 0
  BY DEF Consistent, TypeOK, ClaimOK, Claiming

(* Numbers of active jobs, before and after a step. *)
LEMMA Counts ==
  ASSUME NEW w \in Workers
  PROVE  /\ Cardinality(ActiveJobs(w)) \in Nat
         /\ Cardinality(ActiveJobs(w)') \in Nat
         /\ ActiveJobs(w)' \subseteq ActiveJobs(w) =>
              Cardinality(ActiveJobs(w)') =< Cardinality(ActiveJobs(w))
  <1>1. ActiveJobs(w) \in SUBSET Objects /\ ActiveJobs(w)' \in SUBSET Objects
    BY DEF ActiveJobs
  <1> QED
    BY <1>1, ObjectSets

(* A step that takes no job and starts no poll. *)
LEMMA NothingTaken ==
  ASSUME Consistent, Consistent', NEW w \in Workers, PlacesOK(w),
         ActiveJobs(w)' \subseteq ActiveJobs(w),
         \/ budget'[w] = 0
         \/ budget'[w] =< budget[w] /\ (Claiming(w) => Claiming(w)')
  PROVE  PlacesOK(w)'
  <1>1. budget[w] \in Nat /\ budget'[w] \in Nat /\ (Claiming(w) => budget[w] > 0)
    BY ClaimHasBudget DEF Consistent, TypeOK
  <1>2. Concurrency \in Nat
    BY ConstantsAssumption
  <1>3. Cardinality(ActiveJobs(w)) + budget[w]
          =< Concurrency + (IF Claiming(w) THEN 1 ELSE 0)
    BY DEF PlacesOK
  <1>4. Cardinality(ActiveJobs(w)') + budget'[w]
          =< Concurrency + (IF Claiming(w)' THEN 1 ELSE 0)
    BY <1>1, <1>2, <1>3, Counts
  <1> QED
    BY <1>4 DEF PlacesOK

LEMMA PollPlaces ==
  ASSUME Consistent, NEW w \in Workers, Poll(w)
  PROVE  PlacesOK(w)'
  <1>1. /\ budget'[w] = Concurrency - Cardinality(ActiveJobs(w))
        /\ ActiveJobs(w)' = ActiveJobs(w)
    BY DEF Consistent, TypeOK, Poll, ActiveJobs
  <1>2. Cardinality(ActiveJobs(w)') + budget'[w] = Concurrency
    BY <1>1, Counts, ConstantsAssumption
  <1> QED
    BY <1>2, ConstantsAssumption DEF PlacesOK

(* The object was free: the job gets a place, and keeps its iteration. *)
LEMMA ClaimsPlaces ==
  ASSUME Consistent, NEW w \in Workers, NEW o \in Objects, Claims(w, o), PlacesOK(w)
  PROVE  PlacesOK(w)'
  <1>1. pc \in [Workers -> [Objects -> {"none", "claimed", "processing", "ended",
                                       "leaked"}]]
    BY DEF Consistent, TypeOK
  <1>2. pc' = [pc EXCEPT ![w][o] = "claimed"] /\ budget' = budget
    BY DEF Claims
  <1>3. pc[w][o] = "none" /\ ~Claiming(w)
    BY DEF Claims, AtNext, Claiming
  <1>4. Claiming(w)'
    BY <1>1, <1>2 DEF Claiming
  <1>5. ActiveJobs(w)' = ActiveJobs(w) \cup {o} /\ o \notin ActiveJobs(w)
    BY <1>1, <1>2, <1>3 DEF ActiveJobs
  <1>6. Cardinality(ActiveJobs(w)') = Cardinality(ActiveJobs(w)) + 1
    BY <1>5, ObjectSets DEF ActiveJobs
  <1>7. Cardinality(ActiveJobs(w)) + budget[w] =< Concurrency
    BY <1>3, ConstantsAssumption DEF PlacesOK
  <1>8. Cardinality(ActiveJobs(w)') + budget'[w] =< Concurrency + 1
    BY <1>2, <1>6, <1>7, Counts, ClaimHasBudget, ConstantsAssumption
  <1> QED
    BY <1>4, <1>8 DEF PlacesOK

(* The iteration is over, and the job was the only one being taken. *)
LEMMA LaunchPlaces ==
  ASSUME Consistent, NEW w \in Workers, NEW o \in Objects, Launch(w, o), PlacesOK(w)
  PROVE  PlacesOK(w)'
  <1>1. pc \in [Workers -> [Objects -> {"none", "claimed", "processing", "ended",
                                    "leaked"}]]
    BY DEF Consistent, TypeOK
  <1>2. /\ pc[w][o] = "claimed" /\ pc' = [pc EXCEPT ![w][o] = "processing"]
        /\ budget' = [budget EXCEPT ![w] = @ - 1]
    BY DEF Launch
  <1>3. Claiming(w)
    BY <1>2 DEF Claiming
  <1>4. ActiveJobs(w)' = ActiveJobs(w)
    BY <1>1, <1>2 DEF ActiveJobs
  <1>5. budget'[w] = budget[w] - 1
    BY <1>2 DEF Consistent, TypeOK
  <1>6. Cardinality(ActiveJobs(w)) + budget[w] =< Concurrency + 1
    BY <1>3 DEF PlacesOK
  <1>7. Cardinality(ActiveJobs(w)') + budget'[w] =< Concurrency
    BY <1>4, <1>5, <1>6, Counts, ClaimHasBudget, ConstantsAssumption
  <1>8. Cardinality(ActiveJobs(w)') + budget'[w]
          =< Concurrency + (IF Claiming(w)' THEN 1 ELSE 0)
    BY <1>5, <1>7, Counts, ClaimHasBudget, ConstantsAssumption
  <1> QED
    BY <1>8 DEF PlacesOK

-----------------------------------------------------------------------------
(* The steps of a worker with a job change the places of that worker only. *)
LEMMA JobStepPlaces ==
  ASSUME Consistent, Consistent', NEW v \in Workers, NEW o \in Objects, JobStep(v, o),
         NEW w \in Workers, PlacesOK(w)
  PROVE  PlacesOK(w)'
  <1>1. /\ pc \in [Workers -> [Objects -> {"none", "claimed", "processing", "ended",
                                       "leaked"}]]
        /\ budget \in [Workers -> 0 .. Concurrency]
    BY DEF Consistent, TypeOK
  <1>2. CASE TakeNext(v, o) \/ TakeNextUncommitted(v, o) \/ Launch(v, o)
    <2>1. CASE v = w
      BY <1>2, <2>1, ClaimsPlaces, LaunchPlaces
      DEF TakeNext, TakeNextUncommitted
    <2>2. CASE v # w
      <3>1. pc'[w] = pc[w] /\ budget'[w] = budget[w]
        BY <1>1, <1>2, <2>2 DEF TakeNext, TakeNextUncommitted, Claims, Launch
      <3>2. ActiveJobs(w)' = ActiveJobs(w) /\ Claiming(w)' = Claiming(w)
        BY <3>1 DEF ActiveJobs, Claiming
      <3> QED
        BY <3>1, <3>2 DEF PlacesOK
    <2> QED
      BY <2>1, <2>2
  <1>3. CASE LaunchFails(v, o)
    <2>1. ActiveJobs(w)' \subseteq ActiveJobs(w)
      BY <1>1, <1>3 DEF LaunchFails, ActiveJobs
    <2>2. CASE v = w
      <3>1. budget'[w] = 0
        BY <1>1, <1>3, <2>2 DEF LaunchFails
      <3> QED
        BY <2>1, <3>1, NothingTaken
    <2>3. CASE v # w
      <3>1. pc'[w] = pc[w] /\ budget'[w] = budget[w]
        BY <1>1, <1>3, <2>3 DEF LaunchFails
      <3>2. ActiveJobs(w)' = ActiveJobs(w) /\ Claiming(w)' = Claiming(w)
        BY <3>1 DEF ActiveJobs, Claiming
      <3> QED
        BY <3>1, <3>2 DEF PlacesOK
    <2> QED
      BY <2>2, <2>3
  <1>4. CASE \/ NoticeCancellation(v, o) \/ Report(v, o) \/ Outcome(v, o)
             \/ StoreOutcome(v, o) \/ StoreOutcomeFails(v, o) \/ OrphanEnds(v, o)
    <2>1. /\ budget' = budget
          /\ \/ pc' = pc
             \/ /\ pc[v][o] # "claimed" /\ pc[v][o] # "none"
                /\ \E s \in {"none", "ended", "leaked"} :
                     pc' = [pc EXCEPT ![v][o] = s]
      BY <1>4 DEF NoticeCancellation, Report, Outcome, StoreOutcome,
                  StoreOutcomeFails, OrphanEnds
    <2>2. ActiveJobs(w)' \subseteq ActiveJobs(w)
      BY <1>1, <2>1 DEF ActiveJobs
    <2>3. \A p \in Objects : pc[w][p] = "claimed" => pc'[w][p] = "claimed"
      BY <1>1, <2>1
    <2>4. Claiming(w) => Claiming(w)'
      BY <2>3 DEF Claiming
    <2>5. budget'[w] =< budget[w]
      BY <1>1, <2>1, ConstantsAssumption
    <2> QED
      BY <2>2, <2>4, <2>5, NothingTaken
  <1> QED
    BY <1>2, <1>3, <1>4 DEF JobStep

(* Polls, shutdowns and crashes. *)
LEMMA WorkerStepPlaces ==
  ASSUME Consistent, Consistent', NEW v \in Workers, WorkerStep(v),
         NEW w \in Workers, PlacesOK(w)
  PROVE  PlacesOK(w)'
  <1>1. /\ pc \in [Workers -> [Objects -> {"none", "claimed", "processing", "ended",
                                       "leaked"}]]
        /\ budget \in [Workers -> 0 .. Concurrency]
    BY DEF Consistent, TypeOK
  <1>2. CASE Poll(v) /\ v = w
    BY <1>2, PollPlaces
  <1>3. CASE \/ NothingNext(v) \/ NextFails(v) \/ Gone(v)
             \/ Stop(v) \/ Stopped(v) \/ StopTimeout(v) \/ Restart(v)
             \/ Poll(v) /\ v # w
    <2>1. \A p \in Objects :
            /\ pc[w][p] = "none" => pc'[w][p] = "none"
            /\ ~Gone(v) /\ pc[w][p] = "claimed" => pc'[w][p] = "claimed"
      BY <1>1, <1>3 DEF NothingNext, NextFails, Gone, Stop, Stopped, StopTimeout,
                        Restart, Poll
    <2>2. ActiveJobs(w)' \subseteq ActiveJobs(w)
      <3>1. \A p \in Objects : pc'[w][p] # "none" => pc[w][p] # "none"
        BY <2>1
      <3> QED
        BY <3>1 DEF ActiveJobs
    <2>3. CASE Gone(v)
      <3>1. CASE v = w
        <4>1. budget'[w] = 0
          BY <1>1, <2>3, <3>1 DEF Gone
        <4> QED
          BY <2>2, <4>1, NothingTaken
      <3>2. CASE v # w
        <4>1. pc'[w] = pc[w] /\ budget'[w] = budget[w]
          BY <1>1, <2>3, <3>2 DEF Gone
        <4>2. ActiveJobs(w)' = ActiveJobs(w) /\ Claiming(w)' = Claiming(w)
          BY <4>1 DEF ActiveJobs, Claiming
        <4> QED
          BY <4>1, <4>2 DEF PlacesOK
      <3> QED
        BY <3>1, <3>2
    <2>4. CASE ~Gone(v)
      <3>1. Claiming(w) => Claiming(w)'
        BY <2>1, <2>4 DEF Claiming
      <3>2. budget'[w] = 0 \/ budget'[w] =< budget[w]
        BY <1>1, <1>3, <2>4, ConstantsAssumption
        DEF NothingNext, NextFails, Stop, Stopped, StopTimeout, Restart, Poll
      <3> QED
        BY <2>2, <3>1, <3>2, NothingTaken
    <2> QED
      BY <2>3, <2>4
  <1> QED
    BY <1>2, <1>3 DEF WorkerStep, Exit, Crash

LEMMA PlacesKept ==
  ASSUME Consistent, Consistent', [Next]_vars, NEW w \in Workers, PlacesOK(w)
  PROVE  PlacesOK(w)'
  <1>1. ASSUME pc' = pc, budget' = budget PROVE PlacesOK(w)'
    BY <1>1 DEF PlacesOK, ActiveJobs, Claiming
  <1>2. ASSUME NEW j \in Jobs, Add(j) \/ CancelJob(j) PROVE PlacesOK(w)'
    BY <1>1, <1>2 DEF Add, CancelJob
  <1>3. ASSUME NEW r \in reports, StoreReport(r) PROVE PlacesOK(w)'
    BY <1>1, <1>3 DEF StoreReport
  <1>4. CASE UNCHANGED vars
    BY <1>1, <1>4 DEF vars
  <1> QED
    BY <1>2, <1>3, <1>4, JobStepPlaces, WorkerStepPlaces DEF Next

LEMMA InitPlaces == Init => \A w \in Workers : PlacesOK(w)
  <1> SUFFICES ASSUME Init, NEW w \in Workers PROVE PlacesOK(w)
    OBVIOUS
  <1>1. ActiveJobs(w) = {} /\ budget[w] = 0
    BY DEF Init, ActiveJobs
  <1>2. Cardinality(ActiveJobs(w)) = 0
    BY <1>1, FS_EmptySet
  <1> QED
    BY <1>1, <1>2, ConstantsAssumption DEF PlacesOK

(* A queue never has more jobs active than its concurrency, whatever fails,
   ends or is taken during a poll: jobs whose update failed count. *)
THEOREM WithinConcurrency == Spec => []ConcurrencyRespected
  <1> DEFINE PlacesInv == \A w \in Workers : PlacesOK(w)
  <1>1. Init => PlacesInv
    BY InitPlaces
  <1>2. Consistent /\ Consistent' /\ PlacesInv /\ [Next]_vars => PlacesInv'
    BY PlacesKept
  <1>3. Consistent /\ PlacesInv => ConcurrencyRespected
    <2> SUFFICES ASSUME Consistent, PlacesInv, NEW w \in Workers
                 PROVE  Cardinality(ActiveJobs(w)) =< Concurrency
      BY DEF ConcurrencyRespected
    <2>1. Cardinality(ActiveJobs(w)) + budget[w]
            =< Concurrency + (IF Claiming(w) THEN 1 ELSE 0)
      BY DEF PlacesOK
    <2> QED
      BY <2>1, ClaimHasBudget, Counts, ConstantsAssumption
  <1> HIDE DEF PlacesInv
  <1> QED
    BY <1>1, <1>2, <1>3, QueueConsistent, PTL DEF Spec

-----------------------------------------------------------------------------
(* Refinement.  Every step of the workers and the database is a step of the
   abstract queue, or none.                                                *)

(* What the mapping needs besides: only jobs that exist are reported on. *)
ReportsExist == \A r \in reports : record[r[2]].state # "ABSENT"

LEMMA InitReports == Init => ReportsExist
  BY DEF Init, ReportsExist

(* A row that was added stays. *)
LEMMA RowsStay ==
  ASSUME Consistent, [Next]_vars, NEW i \in Jobs, record[i].state # "ABSENT"
  PROVE  record'[i].state # "ABSENT"
  <1>1. record \in [Jobs -> JobObjects]
    BY DEF Consistent, TypeOK
  <1>2. ASSUME NEW j \in Jobs, NEW y, y.state # "ABSENT",
               record' = [record EXCEPT ![j] = Stored(@, y)]
        PROVE  record'[i].state # "ABSENT"
    BY <1>1, <1>2 DEF Stored
  <1>3. ASSUME NEW j \in Jobs, Add(j) \/ CancelJob(j)
        PROVE  record'[i].state # "ABSENT"
    <2>1. CASE Add(j)
      BY <1>1, <2>1 DEF Add
    <2>2. CASE CancelJob(j)
      <3>1. Cancelled(record[j]).state # "ABSENT"
        BY <1>1, CancelledOK DEF RunningOK
      <3> QED
        BY <1>2, <2>2, <3>1 DEF CancelJob
    <2> QED
      BY <1>3, <2>1, <2>2
  <1>4. ASSUME NEW w \in Workers, NEW o \in Objects, JobStep(w, o)
        PROVE  record'[i].state # "ABSENT"
    <2>1. CASE TakeNext(w, o)
      BY <1>1, <2>1, ObjectJob DEF TakeNext, JobObjects
    <2>2. CASE Launch(w, o) \/ StoreOutcome(w, o)
      <3>1. copy[w][o].state # "ABSENT"
        BY <2>2 DEF Consistent, HoldOK, RunningOK, Launch, StoreOutcome,
                    WaitingStates, SettledStates
      <3> QED
        BY <1>2, <2>2, <3>1, ObjectJob DEF Launch, StoreOutcome
    <2> QED
      BY <1>4, <2>1, <2>2
      DEF JobStep, TakeNextUncommitted, LaunchFails, NoticeCancellation, Report,
          Outcome, StoreOutcomeFails, OrphanEnds
  <1>5. ASSUME NEW r \in reports, StoreReport(r) PROVE record'[i].state # "ABSENT"
    <2>1. r[2] \in Jobs /\ r[3].state # "ABSENT"
      BY DEF Consistent, TypeOK, RunningOK
    <2> QED
      BY <1>2, <1>5, <2>1 DEF StoreReport
  <1>6. ASSUME NEW w \in Workers, WorkerStep(w) PROVE record' = record
    BY <1>6 DEF WorkerStep, Poll, NothingNext, NextFails, Stop, Stopped,
                StopTimeout, Exit, Crash, Gone, Restart
  <1>7. CASE UNCHANGED vars
    BY <1>7 DEF vars
  <1> QED
    BY <1>3, <1>4, <1>5, <1>6, <1>7 DEF Next

LEMMA ReportsKept == Consistent /\ ReportsExist /\ [Next]_vars => ReportsExist'
  <1> SUFFICES ASSUME Consistent, ReportsExist, [Next]_vars, NEW r \in reports'
               PROVE  record'[r[2]].state # "ABSENT"
    BY DEF ReportsExist
  <1>1. record[r[2]].state # "ABSENT" /\ r[2] \in Jobs
    <2>1. CASE r \in reports
      BY <2>1 DEF ReportsExist, Consistent, TypeOK
    <2>2. CASE r \notin reports
      <3>1. PICK w \in Workers, o \in Objects :
              pc[w][o] = "processing" /\ r = <<w, o[1], copy[w][o]>>
        <4>1. ASSUME NEW w \in Workers, NEW o \in Objects, JobStep(w, o)
              PROVE  Report(w, o)
          BY <2>2, <4>1
          DEF JobStep, TakeNext, TakeNextUncommitted, Claims, Launch, LaunchFails,
              NoticeCancellation, Outcome, StoreOutcome, StoreOutcomeFails,
              OrphanEnds
        <4>2. ASSUME NEW w \in Workers, WorkerStep(w) PROVE FALSE
          BY <2>2, <4>2
          DEF WorkerStep, Poll, NothingNext, NextFails, Stop, Stopped, StopTimeout,
              Exit, Crash, Gone, Restart
        <4>3. PICK w \in Workers, o \in Objects : Report(w, o)
          BY <2>2, <4>1, <4>2 DEF Next, vars, Add, CancelJob, StoreReport
        <4> QED
          BY <2>2, <4>3 DEF Report
      <3>2. record[o[1]].state # "ABSENT"
        BY <3>1 DEF Consistent, HoldOK
      <3> QED
        BY <3>1, <3>2, ObjectJob
    <2> QED
      BY <2>1, <2>2
  <1> QED
    BY <1>1, RowsStay

-----------------------------------------------------------------------------
(* What the abstract variables see of a step.                              *)

(* They do not change when a step leaves the states of the rows, what is
   active and what is uncommitted. *)
LEMMA Stutters ==
  ASSUME \A j \in Jobs : record'[j].state = record[j].state,
         \A w \in Workers, o \in Objects : pc'[w][o] = "none" <=> pc[w][o] = "none",
         uncommitted' = uncommitted
  PROVE  UNCHANGED Lifecycle!vars
  <1>1. StateOfJobs' = StateOfJobs
    BY DEF StateOfJobs
  <1>2. HoldsOfJobs' = HoldsOfJobs
    <2>1. \A j \in Jobs, h \in Workers \X Places : <<j, h[2]>> \in Objects /\ h[1] \in Workers
      BY DEF Objects, Places
    <2>2. \A j \in Jobs, h \in Workers \X Places :
            pc'[h[1]][<<j, h[2]>>] # "none" <=> pc[h[1]][<<j, h[2]>>] # "none"
      BY <2>1
    <2> QED
      BY <2>2 DEF HoldsOfJobs
  <1> QED
    BY <1>1, <1>2 DEF Lifecycle!vars

(* A worker holds a job at the place of its object. *)
LEMMA HeldAt ==
  ASSUME NEW w \in Workers, NEW o \in Objects
  PROVE  /\ <<w, o[2]>> \in Workers \X Places
         /\ <<w, o[2]>> \in HoldsOfJobs[o[1]] <=> pc[w][o] # "none"
  <1>1. o = <<o[1], o[2]>> /\ o[1] \in Jobs /\ o[2] \in Places
    BY DEF Objects, Places
  <1>2. HoldsOfJobs[o[1]]
          = {h \in Workers \X Places : pc[h[1]][<<o[1], h[2]>>] # "none"}
    BY <1>1 DEF HoldsOfJobs
  <1> QED
    BY <1>1, <1>2

LEMMA NobodyHolds ==
  ASSUME NEW j \in Jobs
  PROVE  HoldsOfJobs[j] # {} <=> Held(j)
  <1>1. HoldsOfJobs[j] = {h \in Workers \X Places : pc[h[1]][<<j, h[2]>>] # "none"}
    BY DEF HoldsOfJobs
  <1>2. ASSUME NEW h \in HoldsOfJobs[j] PROVE Held(j)
    <2>1. h[1] \in Workers /\ <<j, h[2]>> \in Objects /\ pc[h[1]][<<j, h[2]>>] # "none"
      BY <1>1 DEF Objects, Places
    <2>2. <<j, h[2]>>[1] = j
      OBVIOUS
    <2> QED
      BY <2>1, <2>2 DEF Held
  <1>3. ASSUME NEW w \in Workers, NEW o \in Objects, o[1] = j, pc[w][o] # "none"
        PROVE  HoldsOfJobs[j] # {}
    BY <1>3, HeldAt
  <1> QED
    BY <1>2, <1>3 DEF Held

(* One object is taken, or let go. *)
LEMMA HoldChanged ==
  ASSUME NEW w \in Workers, NEW o \in Objects,
         \A v \in Workers, p \in Objects :
           v # w \/ p # o => (pc'[v][p] = "none" <=> pc[v][p] = "none")
  PROVE  /\ pc'[w][o] # "none" =>
              HoldsOfJobs' = [HoldsOfJobs EXCEPT ![o[1]] = @ \cup {<<w, o[2]>>}]
         /\ pc'[w][o] = "none" =>
              HoldsOfJobs' = [HoldsOfJobs EXCEPT ![o[1]] = @ \ {<<w, o[2]>>}]
  <1>1. o = <<o[1], o[2]>> /\ o[1] \in Jobs /\ o[2] \in Places
    BY DEF Objects, Places
  <1>2. \A j \in Jobs : /\ HoldsOfJobs[j] = {h \in Workers \X Places :
                                              pc[h[1]][<<j, h[2]>>] # "none"}
                        /\ HoldsOfJobs'[j] = {h \in Workers \X Places :
                                               pc'[h[1]][<<j, h[2]>>] # "none"}
    BY DEF HoldsOfJobs
  <1>3. ASSUME NEW j \in Jobs, NEW h \in Workers \X Places,
               j # o[1] \/ h # <<w, o[2]>>
        PROVE  h \in HoldsOfJobs'[j] <=> h \in HoldsOfJobs[j]
    <2>1. /\ h = <<h[1], h[2]>> /\ h[1] \in Workers /\ <<j, h[2]>> \in Objects
          /\ h[1] # w \/ <<j, h[2]>> # o
      BY <1>1, <1>3 DEF Objects, Places
    <2>2. pc'[h[1]][<<j, h[2]>>] = "none" <=> pc[h[1]][<<j, h[2]>>] = "none"
      BY <2>1
    <2> QED
      BY <1>2, <2>2
  <1>4. <<w, o[2]>> \in HoldsOfJobs'[o[1]] <=> pc'[w][o] # "none"
    BY <1>1, <1>2
  <1>5. \A j \in Jobs : HoldsOfJobs[j] \subseteq Workers \X Places
                        /\ HoldsOfJobs'[j] \subseteq Workers \X Places
    BY <1>2
  <1>6. HoldsOfJobs = [j \in Jobs |-> HoldsOfJobs[j]]
        /\ HoldsOfJobs' = [j \in Jobs |-> HoldsOfJobs'[j]]
    BY DEF HoldsOfJobs
  <1>7. \A j \in Jobs : j # o[1] => HoldsOfJobs'[j] = HoldsOfJobs[j]
    BY <1>3, <1>5
  <1>8. ASSUME pc'[w][o] # "none"
        PROVE  HoldsOfJobs'[o[1]] = HoldsOfJobs[o[1]] \cup {<<w, o[2]>>}
    BY <1>1, <1>3, <1>4, <1>5, <1>8
  <1>9. ASSUME pc'[w][o] = "none"
        PROVE  HoldsOfJobs'[o[1]] = HoldsOfJobs[o[1]] \ {<<w, o[2]>>}
    BY <1>1, <1>3, <1>4, <1>5, <1>9
  <1> QED
    BY <1>1, <1>6, <1>7, <1>8, <1>9

(* A step that only writes the state s to the row of j. *)
LEMMA StateWritten ==
  ASSUME NEW j \in Jobs, NEW s,
         record'[j].state = s,
         \A i \in Jobs \ {j} : record'[i] = record[i],
         pc' = pc
  PROVE  /\ StateOfJobs' = [StateOfJobs EXCEPT ![j] = s]
         /\ HoldsOfJobs' = HoldsOfJobs
  <1>1. StateOfJobs' = [StateOfJobs EXCEPT ![j] = s]
    BY DEF StateOfJobs
  <1> QED
    BY <1>1 DEF HoldsOfJobs

-----------------------------------------------------------------------------
(* The steps of JobQueue, one by one, as steps of the abstract queue.      *)

LEMMA InitRefines == Init => Lifecycle!Init
  <1> SUFFICES ASSUME Init PROVE Lifecycle!Init
    OBVIOUS
  <1>1. \A j \in Jobs : record[j].state = "ABSENT"
    BY NewJobOK DEF Init
  <1>2. ASSUME NEW j \in Jobs PROVE HoldsOfJobs[j] = {}
    BY NobodyHolds DEF Init, Held
  <1>3. HoldsOfJobs = [j \in Jobs |-> HoldsOfJobs[j]]
    BY DEF HoldsOfJobs
  <1> QED
    BY <1>1, <1>2, <1>3 DEF Init, Lifecycle!Init, StateOfJobs

(* An object that is running or cancelled is stored: a row that is settled
   stays; any other takes over the object's state. *)
LEMMA StoringRefines ==
  ASSUME Consistent, NEW j \in Jobs, NEW y \in JobObjects, RunningOK(y),
         record[j].state # "ABSENT",
         record' = [record EXCEPT ![j] = Stored(@, y)],
         \A w \in Workers, o \in Objects : pc'[w][o] = "none" <=> pc[w][o] = "none",
         uncommitted' = uncommitted
  PROVE  Lifecycle!Next \/ UNCHANGED Lifecycle!vars
  <1>1. record \in [Jobs -> JobObjects] /\ RecordOK(record[j])
    BY DEF Consistent, TypeOK
  <1>2. \A i \in Jobs \ {j} : record'[i] = record[i]
    BY <1>1
  <1>3. CASE record'[j].state = record[j].state
    <2>1. \A i \in Jobs : record'[i].state = record[i].state
      BY <1>2, <1>3
    <2> QED
      BY <2>1, Stutters
  <1>4. CASE record'[j].state # record[j].state
    <2>1. ~record[j].settled /\ record'[j] = y
      BY <1>1, <1>4 DEF Stored
    <2>2. /\ record[j].state \in WaitingStates \cup {"RUNNING"}
          /\ y.state # record[j].state
      BY <1>1, <1>4, <2>1 DEF RecordOK, JobObjects
    <2>3. StateOfJobs' = [StateOfJobs EXCEPT ![j] = y.state]
          /\ StateOfJobs[j] = record[j].state
      <3>1. /\ StateOfJobs = [i \in Jobs |-> record[i].state]
            /\ StateOfJobs' = [i \in Jobs |-> record'[i].state]
        BY DEF StateOfJobs
      <3>2. /\ record'[j].state = y.state
            /\ \A i \in Jobs : i # j => record'[i].state = record[i].state
        BY <1>2, <2>1
      <3> QED
        BY <3>1, <3>2
    <2>4. HoldsOfJobs' = HoldsOfJobs
      <3>1. \A i \in Jobs, h \in Workers \X Places : <<i, h[2]>> \in Objects /\ h[1] \in Workers
        BY DEF Objects, Places
      <3>2. \A i \in Jobs, h \in Workers \X Places :
              pc'[h[1]][<<i, h[2]>>] # "none" <=> pc[h[1]][<<i, h[2]>>] # "none"
        BY <3>1
      <3> QED
        BY <3>2 DEF HoldsOfJobs
    <2>5. CASE y.state = "CANCELLED"
      BY <2>2, <2>3, <2>4, <2>5
      DEF Lifecycle!Next, Lifecycle!Cancel, Lifecycle!WaitingStates, WaitingStates
    <2>6. CASE y.state = "RUNNING" /\ record[j].state \in WaitingStates
      BY <2>2, <2>3, <2>4, <2>6
      DEF Lifecycle!Next, Lifecycle!Overtake, Lifecycle!WaitingStates, WaitingStates
    <2> QED
      BY <2>2, <2>5, <2>6 DEF RunningOK
  <1> QED
    BY <1>3, <1>4

LEMMA CallersRefine ==
  ASSUME Consistent, ReportsExist,
         \/ \E j \in Jobs : Add(j) \/ CancelJob(j)
         \/ \E r \in reports : StoreReport(r)
  PROVE  Lifecycle!Next \/ UNCHANGED Lifecycle!vars
  <1>1. record \in [Jobs -> JobObjects]
    BY DEF Consistent, TypeOK
  <1>2. ASSUME NEW j \in Jobs, Add(j) PROVE Lifecycle!Next
    <2>1. /\ record'[j].state = "PENDING" /\ pc' = pc /\ uncommitted' = uncommitted
          /\ \A i \in Jobs \ {j} : record'[i] = record[i]
      BY <1>1, <1>2, NewJobOK DEF Add
    <2>2. /\ StateOfJobs' = [StateOfJobs EXCEPT ![j] = "PENDING"]
          /\ HoldsOfJobs' = HoldsOfJobs
      BY <2>1, StateWritten
    <2>3. StateOfJobs[j] = "ABSENT"
      BY <1>2 DEF Add, StateOfJobs
    <2> QED
      BY <2>1, <2>2, <2>3 DEF Lifecycle!Next, Lifecycle!Add
  <1>3. ASSUME NEW j \in Jobs, CancelJob(j)
        PROVE  Lifecycle!Next \/ UNCHANGED Lifecycle!vars
    <2>1. Cancelled(record[j]) \in JobObjects /\ RunningOK(Cancelled(record[j]))
      BY <1>1, CancelledOK
    <2> QED
      BY <1>3, <2>1, StoringRefines DEF CancelJob
  <1>4. ASSUME NEW r \in reports, StoreReport(r)
        PROVE  Lifecycle!Next \/ UNCHANGED Lifecycle!vars
    <2>1. /\ r[2] \in Jobs /\ r[3] \in JobObjects /\ RunningOK(r[3])
          /\ record[r[2]].state # "ABSENT"
      BY DEF Consistent, TypeOK, ReportsExist
    <2> QED
      BY <1>4, <2>1, StoringRefines DEF StoreReport
  <1> QED
    BY <1>2, <1>3, <1>4

(* A job is taken that nobody holds, or whose commit failed before. *)
LEMMA ClaimsRefine ==
  ASSUME Consistent, NEW w \in Workers, NEW o \in Objects, Claims(w, o)
  PROVE  Lifecycle!Take(<<w, o[2]>>, o[1])
  <1>1. /\ o[1] \in Jobs /\ record[o[1]].state \in WaitingStates
        /\ pc[w][o] = "none" /\ pc'[w][o] = "claimed"
        /\ \A v \in Workers, p \in Objects :
             v # w \/ p # o => (pc'[v][p] = "none" <=> pc[v][p] = "none")
    BY ClaimsKeeps, ObjectJob
  <1>2. HoldsOfJobs' = [HoldsOfJobs EXCEPT ![o[1]] = @ \cup {<<w, o[2]>>}]
    BY <1>1, HoldChanged
  <1>3. StateOfJobs[o[1]] \in WaitingStates /\ <<w, o[2]>> \notin HoldsOfJobs[o[1]]
    BY <1>1, HeldAt DEF StateOfJobs
  <1>4. Held(o[1]) => o[1] \in uncommitted
    BY <1>1 DEF Held, Consistent, HoldOK
  <1>5. HoldsOfJobs[o[1]] = {} \/ o[1] \in uncommitted
    BY <1>1, <1>4, NobodyHolds
  <1> QED
    BY <1>2, <1>3, <1>5 DEF Lifecycle!Take, Lifecycle!WaitingStates, WaitingStates

LEMMA TakeNextRefines ==
  ASSUME Consistent, NEW w \in Workers, NEW o \in Objects, TakeNext(w, o)
  PROVE  Lifecycle!Claim(<<w, o[2]>>, o[1])
  <1>1. o[1] \in Jobs /\ Lifecycle!Take(<<w, o[2]>>, o[1])
    BY ObjectJob, ClaimsRefine DEF TakeNext
  <1>2. StateOfJobs' = [StateOfJobs EXCEPT ![o[1]] = "RUNNING"]
    <2>1. /\ record'[o[1]].state = "RUNNING"
          /\ \A i \in Jobs \ {o[1]} : record'[i] = record[i]
      BY <1>1 DEF Consistent, TypeOK, TakeNext, JobObjects
    <2> QED
      BY <1>1, <2>1 DEF StateOfJobs
  <1>3. uncommitted' = IF HoldsOfJobs[o[1]] = {} THEN uncommitted \ {o[1]}
                                                 ELSE uncommitted
    BY <1>1, NobodyHolds DEF TakeNext
  <1> QED
    BY <1>1, <1>2, <1>3 DEF Lifecycle!Claim

LEMMA TakeNextUncommittedRefines ==
  ASSUME Consistent, NEW w \in Workers, NEW o \in Objects,
         TakeNextUncommitted(w, o)
  PROVE  Lifecycle!LoseClaim(<<w, o[2]>>, o[1])
  <1>1. Lifecycle!Take(<<w, o[2]>>, o[1])
    BY ClaimsRefine DEF TakeNextUncommitted
  <1>2. StateOfJobs' = StateOfJobs /\ uncommitted' = uncommitted \cup {o[1]}
    BY DEF TakeNextUncommitted, StateOfJobs
  <1> QED
    BY <1>1, <1>2 DEF Lifecycle!LoseClaim

LEMMA StoreOutcomeRefines ==
  ASSUME Consistent, NEW w \in Workers, NEW o \in Objects, StoreOutcome(w, o)
  PROVE  \E s \in Lifecycle!JobStates \ {"RUNNING"} :
           Lifecycle!Finish(<<w, o[2]>>, o[1], s)
  <1>1. /\ record \in [Jobs -> JobObjects] /\ o[1] \in Jobs
        /\ RecordOK(record[o[1]]) /\ pc[w][o] = "ended"
        /\ copy[w][o].state \in WaitingStates \cup SettledStates
    BY ObjectJob DEF Consistent, TypeOK, HoldOK, StoreOutcome
  <1>2. /\ pc'[w][o] = "none"
        /\ \A v \in Workers, p \in Objects : v # w \/ p # o => pc'[v][p] = pc[v][p]
        /\ \A i \in Jobs \ {o[1]} : record'[i] = record[i]
        /\ record'[o[1]] = Stored(record[o[1]], copy[w][o])
        /\ uncommitted' = uncommitted
    BY <1>1 DEF Consistent, TypeOK, StoreOutcome
  <1>3. /\ StateOfJobs[o[1]] = record[o[1]].state
        /\ StateOfJobs' = IF record[o[1]].state \in SettledStates THEN StateOfJobs
                          ELSE [StateOfJobs EXCEPT ![o[1]] = copy[w][o].state]
    <2>1. CASE record[o[1]].settled
      <3>1. record'[o[1]] = record[o[1]] /\ record[o[1]].state \in SettledStates
        BY <1>1, <1>2, <2>1 DEF Stored, RecordOK
      <3>2. \A i \in Jobs : record'[i] = record[i]
        BY <1>2, <3>1
      <3> QED
        BY <1>1, <3>1, <3>2 DEF StateOfJobs
    <2>2. CASE ~record[o[1]].settled
      <3>1. record'[o[1]] = copy[w][o] /\ record[o[1]].state \notin SettledStates
        BY <1>1, <1>2, <2>2 DEF Stored, RecordOK
      <3> QED
        BY <1>1, <1>2, <3>1 DEF StateOfJobs
    <2> QED
      BY <2>1, <2>2
  <1>4. <<w, o[2]>> \in HoldsOfJobs[o[1]]
    BY <1>1, HeldAt
  <1>5. HoldsOfJobs' = [HoldsOfJobs EXCEPT ![o[1]] = @ \ {<<w, o[2]>>}]
    BY <1>2, HoldChanged
  <1>6. Lifecycle!Finish(<<w, o[2]>>, o[1], copy[w][o].state)
    BY <1>2, <1>3, <1>4, <1>5
    DEF Lifecycle!Finish, Lifecycle!SettledStates, SettledStates
  <1>7. copy[w][o].state \in Lifecycle!JobStates \ {"RUNNING"}
    BY <1>1 DEF Lifecycle!JobStates, Lifecycle!WaitingStates,
                Lifecycle!SettledStates, WaitingStates, SettledStates
  <1> QED
    BY <1>6, <1>7

LEMMA GoneRefines ==
  ASSUME Consistent, NEW w \in Workers, Gone(w)
  PROVE  Lifecycle!Lose(w)
  <1>1. /\ record' = record /\ uncommitted' = uncommitted
        /\ \A o \in Objects : pc'[w][o] = "none"
        /\ \A v \in Workers \ {w}, o \in Objects : pc'[v][o] = pc[v][o]
    BY DEF Consistent, TypeOK, Gone
  <1>2. StateOfJobs' = StateOfJobs
    BY <1>1 DEF StateOfJobs
  <1>3. ASSUME NEW j \in Jobs
        PROVE  HoldsOfJobs'[j] = {h \in HoldsOfJobs[j] : h[1] # w}
    <2>1. /\ HoldsOfJobs[j] = {h \in Workers \X Places :
                                pc[h[1]][<<j, h[2]>>] # "none"}
          /\ HoldsOfJobs'[j] = {h \in Workers \X Places :
                                 pc'[h[1]][<<j, h[2]>>] # "none"}
      BY DEF HoldsOfJobs
    <2>2. ASSUME NEW h \in Workers \X Places
          PROVE  h \in HoldsOfJobs'[j] <=> h \in HoldsOfJobs[j] /\ h[1] # w
      <3>1. h[1] \in Workers /\ <<j, h[2]>> \in Objects
        BY DEF Objects, Places
      <3> QED
        BY <1>1, <2>1, <3>1
    <2> QED
      BY <2>1, <2>2
  <1>4. HoldsOfJobs' = [j \in Jobs |-> {h \in HoldsOfJobs[j] : h[1] # w}]
    <2>1. HoldsOfJobs' = [j \in Jobs |-> HoldsOfJobs'[j]]
      BY DEF HoldsOfJobs
    <2> QED
      BY <1>3, <2>1
  <1> QED
    BY <1>1, <1>2, <1>4 DEF Lifecycle!Lose

(* Launching stores the object of a running job: over its running row, or
   over a row that waits because its commit failed. *)
LEMMA LaunchRefines ==
  ASSUME Consistent, NEW w \in Workers, NEW o \in Objects, Launch(w, o)
  PROVE  Lifecycle!Next \/ UNCHANGED Lifecycle!vars
  <1>1. /\ o[1] \in Jobs /\ copy[w][o] \in JobObjects /\ RunningOK(copy[w][o])
        /\ record[o[1]].state # "ABSENT"
    BY ObjectJob DEF Consistent, TypeOK, HoldOK, Launch
  <1>2. /\ \A v \in Workers, p \in Objects : pc'[v][p] = "none" <=> pc[v][p] = "none"
        /\ uncommitted' = uncommitted
    BY DEF Consistent, TypeOK, Launch
  <1> QED
    BY <1>1, <1>2, StoringRefines DEF Launch

LEMMA NextRefines ==
  Consistent /\ ReportsExist /\ [Next]_vars => [Lifecycle!Next]_(Lifecycle!vars)
  <1> SUFFICES ASSUME Consistent, ReportsExist, [Next]_vars
               PROVE  Lifecycle!Next \/ UNCHANGED Lifecycle!vars
    OBVIOUS
  <1>1. ASSUME record' = record, uncommitted' = uncommitted,
               \A w \in Workers, o \in Objects : pc'[w][o] = "none" <=> pc[w][o] = "none"
        PROVE  UNCHANGED Lifecycle!vars
    <2>1. \A j \in Jobs : record'[j].state = record[j].state
      BY <1>1
    <2> QED
      BY <1>1, <2>1, Stutters
  <1>2. ASSUME NEW w \in Workers, NEW o \in Objects, JobStep(w, o)
        PROVE  Lifecycle!Next \/ UNCHANGED Lifecycle!vars
    <2>0. o[1] \in Jobs /\ <<w, o[2]>> \in Workers \X Places
      BY ObjectJob, HeldAt
    <2>1. CASE TakeNext(w, o) \/ TakeNextUncommitted(w, o)
      BY <2>0, <2>1, TakeNextRefines, TakeNextUncommittedRefines DEF Lifecycle!Next
    <2>2. CASE StoreOutcome(w, o)
      BY <2>0, <2>2, StoreOutcomeRefines DEF Lifecycle!Next
    <2>3. CASE Launch(w, o)
      BY <2>3, LaunchRefines
    <2>4. CASE NoticeCancellation(w, o) \/ Report(w, o) \/ OrphanEnds(w, o)
      BY <1>1, <2>4 DEF NoticeCancellation, Report, OrphanEnds
    <2>5. CASE LaunchFails(w, o) \/ Outcome(w, o) \/ StoreOutcomeFails(w, o)
      <3>1. /\ pc[w][o] # "none" /\ record' = record /\ uncommitted' = uncommitted
            /\ \/ pc' = [pc EXCEPT ![w][o] = "leaked"]
               \/ pc' = [pc EXCEPT ![w][o] = "ended"]
        BY <2>5 DEF LaunchFails, Outcome, StoreOutcomeFails
      <3>2. pc \in [Workers -> [Objects -> {"none", "claimed", "processing",
                                           "ended", "leaked"}]]
        BY DEF Consistent, TypeOK
      <3>3. \A v \in Workers, p \in Objects : pc'[v][p] = "none" <=> pc[v][p] = "none"
        BY <3>1, <3>2
      <3> QED
        BY <1>1, <3>1, <3>3
    <2> QED
      BY <1>2, <2>1, <2>2, <2>3, <2>4, <2>5 DEF JobStep
  <1>3. ASSUME NEW w \in Workers, WorkerStep(w)
        PROVE  Lifecycle!Next \/ UNCHANGED Lifecycle!vars
    <2>1. CASE Gone(w)
      BY <2>1, GoneRefines DEF Lifecycle!Next
    <2>2. CASE StopTimeout(w)
      <3>1. /\ record' = record /\ uncommitted' = uncommitted
            /\ \A v \in Workers, o \in Objects : pc'[v][o] = "none" <=> pc[v][o] = "none"
        BY <2>2 DEF Consistent, TypeOK, StopTimeout
      <3> QED
        BY <1>1, <3>1
    <2>3. CASE \/ Poll(w) \/ NothingNext(w) \/ NextFails(w)
               \/ Stop(w) \/ Stopped(w) \/ Restart(w)
      BY <1>1, <2>3 DEF Poll, NothingNext, NextFails, Stop, Stopped, Restart
    <2> QED
      BY <1>3, <2>1, <2>2, <2>3 DEF WorkerStep, Exit, Crash
  <1>4. CASE UNCHANGED vars
    BY <1>1, <1>4 DEF vars
  <1> QED
    BY <1>2, <1>3, <1>4, CallersRefine DEF Next

(* The queue in the database, with all its workers and whatever goes wrong,
   is a queue that gives a waiting job to one worker, or to another one when a
   claim could not be saved, and keeps its outcome. *)
THEOREM QueueImplementsLifecycle == Spec => ImplementsLifecycle
  <1>1. Spec => []ReportsExist
    BY InitReports, ReportsKept, QueueConsistent, PTL DEF Spec
  <1> QED
    BY <1>1, InitRefines, NextRefines, QueueConsistent, PTL
    DEF Spec, ImplementsLifecycle, Lifecycle!Spec

================================================================================
