------------------------------- MODULE JobQueue -------------------------------
(***************************************************************************)
(* One job queue kept in the database by SqlJobQueueStrategy, and the      *)
(* workers that poll it: ActiveQueue and PollingJobQueueStrategy           *)
(* (job-queue/polling-job-queue-strategy.ts), the Job object               *)
(* (job-queue/job.ts) and the strategy's queries                           *)
(* (plugin/default-job-queue-plugin/sql-job-queue-strategy.ts).            *)
(*                                                                         *)
(* The database locks the row that `next` reads, so reading it and setting *)
(* it to RUNNING is one step (every supported database but SQLite).  But   *)
(* the worker has its Job before the transaction is committed, and keeps   *)
(* it when the commit fails.  All other queries are steps of their own,    *)
(* and each worker works on Job objects of its own, copies of the row.     *)
(***************************************************************************)
EXTENDS Naturals, FiniteSets

CONSTANTS
  NumJobs,      \* bound on the jobs added, numbered by their createdAt
  Workers,      \* the processes that started the queue
  Concurrency,  \* of PollingJobQueueStrategy
  Retries,      \* retries of every job
  Events        \* what may happen besides the work: see below

(* "stop": workers are shut down; "crash": they die; "query": queries and
   commits of the strategy fail; "report": jobs report progress. *)
ASSUME ConstantsAssumption ==
  /\ {NumJobs, Retries} \subseteq Nat
  /\ Concurrency \in Nat \ {0}
  /\ Events \subseteq {"stop", "crash", "query", "report"}

Jobs == 1 .. NumJobs

(* The Job objects of a worker: <<job, n>>.  It has Concurrency of them at
   most, and they may be of one job. *)
Objects == Jobs \X (1 .. Concurrency)

VARIABLES
  record,   \* the JobRecord of every job
  phase,    \* of every worker: "up", "stopping", "stopped" or "down"
  budget,   \* iterations left of the worker's poll; 0: the timer is set
  pc,       \* what a worker does with an object of its activeJobs; or "none"
  copy,     \* the contents of the worker's Job objects
  reports,  \* progress updates sent and not executed: {<<worker, job, Job>>}
  orphans,  \* objects whose process goes on after the queue gave them up
  uncommitted  \* history: jobs held since a commit of `next` failed

vars == <<record, phase, budget, pc, copy, reports, orphans, uncommitted>>

WaitingStates == {"PENDING", "RETRYING"}
SettledStates == {"COMPLETED", "FAILED", "CANCELLED"}

JobObjects ==
  [state: WaitingStates \cup SettledStates \cup {"RUNNING", "ABSENT"},
   attempts: 0 .. Retries + 1, settled: BOOLEAN]

NewJob(state) == [state |-> state, attempts |-> 0, settled |-> FALSE]

Init ==
  /\ record = [j \in Jobs |-> NewJob("ABSENT")]
  /\ phase = [w \in Workers |-> "up"]
  /\ budget = [w \in Workers |-> 0]
  /\ pc = [w \in Workers |-> [o \in Objects |-> "none"]]
  /\ copy = [w \in Workers |-> [o \in Objects |-> NewJob("ABSENT")]]
  /\ reports = {}
  /\ orphans = [w \in Workers |-> {}]
  /\ uncommitted = {}

-----------------------------------------------------------------------------
(* The methods of Job.                                                     *)

Started(job) == [job EXCEPT !.state = "RUNNING", !.attempts = @ + 1]

Completed(job) == [job EXCEPT !.state = "COMPLETED", !.settled = TRUE]

Cancelled(job) == [job EXCEPT !.state = "CANCELLED", !.settled = TRUE]

(* Mutants of Failed: one attempt too many; always another attempt. *)
FailedLate(job) ==
  IF Retries + 1 >= job.attempts
  THEN [job EXCEPT !.state = "RETRYING"]
  ELSE [job EXCEPT !.settled = TRUE,
                   !.state = IF @ = "CANCELLED" THEN @ ELSE "FAILED"]

FailedForEver(job) ==
  [job EXCEPT !.state = "RETRYING", !.attempts = 0]

Failed(job) ==
  IF Retries >= job.attempts
  THEN [job EXCEPT !.state = "RETRYING"]
  ELSE [job EXCEPT !.settled = TRUE,
                   !.state = IF @ = "CANCELLED" THEN @ ELSE "FAILED"]

Deferred(job) ==
  IF job.state = "RUNNING"
  THEN [job EXCEPT !.state = "PENDING", !.attempts = 0] ELSE job

(* Mutant of Stored: without `settledAt IS NULL`. *)
StoredAnyway(rec, job) == job

(* update(): the row takes over the Job object, unless it is settled. *)
Stored(rec, job) == IF rec.settled THEN rec ELSE job

-----------------------------------------------------------------------------
(* Callers of the queue.                                                   *)

Add(j) ==
  /\ record[j].state = "ABSENT"
  /\ \A i \in 1 .. j - 1 : record[i].state # "ABSENT"
  /\ record' = [record EXCEPT ![j] = NewJob("PENDING")]
  /\ UNCHANGED <<phase, budget, pc, copy, reports, orphans, uncommitted>>

(* cancelJob *)
CancelJob(j) ==
  /\ record[j].state # "ABSENT"
  /\ record' = [record EXCEPT ![j] = Stored(@, Cancelled(@))]
  /\ UNCHANGED <<phase, budget, pc, copy, reports, orphans, uncommitted>>

-----------------------------------------------------------------------------
(* runNextJobs: a poll runs the loop as often as the queue has free places, *)
(* one job after the other.                                                *)

ActiveJobs(w) == {o \in Objects : pc[w][o] # "none"}

(* Mutant of Poll: every poll runs the whole loop, from 0. *)
PollFromZero(w) ==
  /\ phase[w] = "up"
  /\ budget[w] = 0
  /\ budget' = [budget EXCEPT ![w] = Concurrency]
  /\ UNCHANGED <<record, phase, pc, copy, reports, orphans, uncommitted>>

Poll(w) ==
  /\ phase[w] = "up"
  /\ budget[w] = 0
  /\ Cardinality(ActiveJobs(w)) < Concurrency
  /\ budget' = [budget EXCEPT ![w] = Concurrency - Cardinality(ActiveJobs(w))]
  /\ UNCHANGED <<record, phase, pc, copy, reports, orphans, uncommitted>>

(* The loop is about to call next(); a shutdown does not end it. *)
AtNext(w) ==
  /\ phase[w] # "down"
  /\ budget[w] > 0
  /\ \A o \in Objects : pc[w][o] # "claimed"

(* Mutant of Eligible: a running job is taken too. *)
EligibleUnsettled(j) ==
  /\ record[j].state \in WaitingStates \cup {"RUNNING"}
  /\ \A i \in 1 .. j - 1 : record[i].state # "PENDING"

(* The oldest job that waits; one that is retried is passed over until its
   backoff is over. *)
Eligible(j) ==
  /\ record[j].state \in WaitingStates
  /\ \A i \in 1 .. j - 1 : record[i].state # "PENDING"

(* The worker has the Job that `next` resolved with, in a free object. *)
Claims(w, o) ==
  /\ AtNext(w)
  /\ Eligible(o[1])
  /\ pc[w][o] = "none"
  /\ copy' = [copy EXCEPT ![w][o] = Started(record[o[1]])]
  /\ pc' = [pc EXCEPT ![w][o] = "claimed"]
  /\ UNCHANGED <<phase, budget, reports, orphans>>

(* Some worker has a Job object of the row. *)
Held(j) == \E w \in Workers, o \in Objects : o[1] = j /\ pc[w][o] # "none"

(* Mutant of TakeNext: the row is left as it is, for update() to set. *)
TakeNextUnsaved(w, o) == Claims(w, o) /\ UNCHANGED <<record, uncommitted>>

(* getNextAndSetAsRunning: only the state is saved, not the attempts. *)
TakeNext(w, o) ==
  /\ Claims(w, o)
  /\ record' = [record EXCEPT ![o[1]].state = "RUNNING"]
  /\ uncommitted' = IF Held(o[1]) THEN uncommitted ELSE uncommitted \ {o[1]}

(* The promise is resolved before the transaction is committed: when the
   commit fails the row waits as before, and rejecting comes too late. *)
TakeNextUncommitted(w, o) ==
  /\ "query" \in Events
  /\ Claims(w, o)
  /\ uncommitted' = uncommitted \cup {o[1]}
  /\ UNCHANGED record

NothingNext(w) ==
  /\ AtNext(w)
  /\ \A j \in Jobs : record[j].state # "PENDING"
  /\ budget' = [budget EXCEPT ![w] = @ - 1]
  /\ UNCHANGED <<record, phase, pc, copy, reports, orphans, uncommitted>>

(* The read or the save throws, before the promise is resolved. *)
NextFails(w) ==
  /\ "query" \in Events
  /\ AtNext(w)
  /\ budget' = [budget EXCEPT ![w] = 0]
  /\ UNCHANGED <<record, phase, pc, copy, reports, orphans, uncommitted>>

(* The update after next(); the process function is called. *)
Launch(w, o) ==
  /\ pc[w][o] = "claimed"
  /\ record' = [record EXCEPT ![o[1]] = Stored(@, copy[w][o])]
  /\ pc' = [pc EXCEPT ![w][o] = "processing"]
  /\ budget' = [budget EXCEPT ![w] = @ - 1]
  /\ UNCHANGED <<phase, copy, reports, orphans, uncommitted>>

(* The update throws: the poll is over, and the job stays in activeJobs. *)
LaunchFails(w, o) ==
  /\ "query" \in Events
  /\ pc[w][o] = "claimed"
  /\ pc' = [pc EXCEPT ![w][o] = "leaked"]
  /\ budget' = [budget EXCEPT ![w] = 0]
  /\ UNCHANGED <<record, phase, copy, reports, orphans, uncommitted>>

-----------------------------------------------------------------------------
(* While the process function runs.                                        *)

(* The watch of cancellationSub. *)
NoticeCancellation(w, o) ==
  /\ pc[w][o] = "processing"
  /\ record[o[1]].state = "CANCELLED"
  /\ copy' = [copy EXCEPT ![w][o] = Cancelled(@)]
  /\ UNCHANGED <<record, phase, budget, pc, reports, orphans, uncommitted>>

(* setProgress: the update is not awaited. *)
Report(w, o) ==
  /\ "report" \in Events
  /\ pc[w][o] = "processing"
  /\ reports' = reports \cup {<<w, o[1], copy[w][o]>>}
  /\ UNCHANGED <<record, phase, budget, pc, copy, orphans, uncommitted>>

StoreReport(r) ==
  /\ r \in reports
  /\ record' = [record EXCEPT ![r[2]] = Stored(@, r[3])]
  /\ reports' = reports \ {r}
  /\ UNCHANGED <<phase, budget, pc, copy, orphans, uncommitted>>

(* The process function succeeds, fails, or returns a cancelled Job. *)
Outcome(w, o) ==
  /\ pc[w][o] = "processing"
  /\ \E result \in {Completed(copy[w][o]), Failed(copy[w][o]),
                    Cancelled(copy[w][o])} :
       copy' = [copy EXCEPT ![w][o] = result]
  /\ pc' = [pc EXCEPT ![w][o] = "ended"]
  /\ UNCHANGED <<record, phase, budget, reports, orphans, uncommitted>>

(* onFailOrComplete *)
StoreOutcome(w, o) ==
  /\ pc[w][o] = "ended"
  /\ record' = [record EXCEPT ![o[1]] = Stored(@, copy[w][o])]
  /\ pc' = [pc EXCEPT ![w][o] = "none"]
  /\ UNCHANGED <<phase, budget, copy, reports, orphans, uncommitted>>

StoreOutcomeFails(w, o) ==
  /\ "query" \in Events
  /\ pc[w][o] = "ended"
  /\ pc' = [pc EXCEPT ![w][o] = "leaked"]
  /\ UNCHANGED <<record, phase, budget, copy, reports, orphans, uncommitted>>

-----------------------------------------------------------------------------
(* Shutdown and restart.                                                   *)

Stop(w) ==
  /\ "stop" \in Events
  /\ phase[w] = "up"
  /\ phase' = [phase EXCEPT ![w] = "stopping"]
  /\ UNCHANGED <<record, budget, pc, copy, reports, orphans, uncommitted>>

(* awaitRunningJobsOrTimeout: all jobs are done ... *)
Stopped(w) ==
  /\ phase[w] = "stopping"
  /\ ActiveJobs(w) = {}
  /\ phase' = [phase EXCEPT ![w] = "stopped"]
  /\ UNCHANGED <<record, budget, pc, copy, reports, orphans, uncommitted>>

(* ... or it is too late: STOP_SIGNAL wins the race of every running job. *)
StopTimeout(w) ==
  /\ phase[w] = "stopping"
  /\ ActiveJobs(w) # {}
  /\ LET processing == {o \in Objects : pc[w][o] = "processing"}
     IN  /\ copy' = [copy EXCEPT ![w] =
                      [o \in Objects |-> IF o \in processing
                                         THEN Deferred(@[o]) ELSE @[o]]]
         /\ pc' = [pc EXCEPT ![w] =
                    [o \in Objects |-> IF o \in processing
                                       THEN "ended" ELSE @[o]]]
         /\ orphans' = [orphans EXCEPT ![w] = @ \cup processing]
  /\ phase' = [phase EXCEPT ![w] = "stopped"]
  /\ UNCHANGED <<record, budget, reports, uncommitted>>

OrphanEnds(w, o) ==
  /\ o \in orphans[w]
  /\ orphans' = [orphans EXCEPT ![w] = @ \ {o}]
  /\ UNCHANGED <<record, phase, budget, pc, copy, reports, uncommitted>>

(* The process is gone, and with it what was in its memory. *)
Gone(w) ==
  /\ phase' = [phase EXCEPT ![w] = "down"]
  /\ budget' = [budget EXCEPT ![w] = 0]
  /\ pc' = [pc EXCEPT ![w] = [o \in Objects |-> "none"]]
  /\ copy' = [copy EXCEPT ![w] = [o \in Objects |-> NewJob("ABSENT")]]
  /\ reports' = {r \in reports : r[1] # w}
  /\ orphans' = [orphans EXCEPT ![w] = {}]
  /\ UNCHANGED <<record, uncommitted>>

Exit(w) == phase[w] = "stopped" /\ Gone(w)

Crash(w) == "crash" \in Events /\ phase[w] # "down" /\ Gone(w)

Restart(w) ==
  /\ phase[w] = "down"
  /\ phase' = [phase EXCEPT ![w] = "up"]
  /\ UNCHANGED <<record, budget, pc, copy, reports, orphans, uncommitted>>

-----------------------------------------------------------------------------
JobStep(w, o) ==
  \/ TakeNext(w, o) \/ TakeNextUncommitted(w, o)
  \/ Launch(w, o) \/ LaunchFails(w, o)
  \/ NoticeCancellation(w, o) \/ Report(w, o) \/ Outcome(w, o)
  \/ StoreOutcome(w, o) \/ StoreOutcomeFails(w, o) \/ OrphanEnds(w, o)

WorkerStep(w) ==
  \/ Poll(w) \/ NothingNext(w) \/ NextFails(w)
  \/ Stop(w) \/ Stopped(w) \/ StopTimeout(w) \/ Exit(w) \/ Crash(w) \/ Restart(w)

Next ==
  \/ \E j \in Jobs : Add(j) \/ CancelJob(j)
  \/ \E w \in Workers, o \in Objects : JobStep(w, o)
  \/ \E r \in reports : StoreReport(r)
  \/ \E w \in Workers : WorkerStep(w)

Spec == Init /\ [][Next]_vars

(* The timer fires, queries come back, process functions end, and a job that
   is retried is not passed over for ever.  Nobody has to add or cancel a
   job, and nothing has to go wrong. *)
FairSpec ==
  /\ Spec
  /\ \A w \in Workers :
       /\ WF_vars(Poll(w)) /\ WF_vars(NothingNext(w))
       /\ SF_vars(\E o \in Objects : TakeNext(w, o))
       /\ WF_vars(Stopped(w)) /\ WF_vars(Exit(w)) /\ WF_vars(Restart(w))
       /\ \A o \in Objects : /\ WF_vars(Launch(w, o)) /\ WF_vars(Outcome(w, o))
                             /\ WF_vars(StoreOutcome(w, o))
  /\ WF_vars(\E r \in reports : StoreReport(r))

-----------------------------------------------------------------------------
TypeOK ==
  /\ record \in [Jobs -> JobObjects]
  /\ phase \in [Workers -> {"up", "stopping", "stopped", "down"}]
  /\ budget \in [Workers -> 0 .. Concurrency]
  /\ pc \in [Workers -> [Objects -> {"none", "claimed", "processing", "ended",
                                     "leaked"}]]
  /\ copy \in [Workers -> [Objects -> JobObjects]]
  /\ reports \subseteq Workers \X Jobs \X JobObjects
  /\ orphans \in [Workers -> SUBSET Objects]
  /\ uncommitted \subseteq Jobs

(* "This prevents multiple worker processes from taking the same job":
   no job is in the activeJobs of two workers, or twice in those of one,
   through failing queries, retries, shutdowns, crashes and late updates.
   The one exception is a job that somebody holds since the commit of
   `next` failed. *)
OneWorkerPerJob ==
  \A v, w \in Workers, o, p \in Objects :
    /\ o[1] = p[1] /\ o[1] \notin uncommitted
    /\ pc[v][o] # "none" /\ pc[w][p] # "none"
    => v = w /\ o = p

(* The row of a settled job does not change any more, although workers that
   know nothing of it, or not yet, still write their Job objects. *)
SettledIsFinal ==
  [][\A j \in Jobs : record[j].settled => record'[j] = record[j]]_vars

(* A queue has no more jobs active than its concurrency, those whose update
   failed included. *)
ConcurrencyRespected ==
  \A w \in Workers : Cardinality(ActiveJobs(w)) =< Concurrency

(* Every job that was added is settled at last. *)
JobsSettle ==
  \A j \in Jobs : record[j].state # "ABSENT" ~> record[j].settled

-----------------------------------------------------------------------------
(* The jobs of the database, and the workers that hold them, as the
   abstract queue sees them. *)
StateOfJobs == [j \in Jobs |-> record[j].state]

Places == 1 .. Concurrency

HoldsOfJobs ==
  [j \in Jobs |-> {h \in Workers \X Places : pc[h[1]][<<j, h[2]>>] # "none"}]

Lifecycle == INSTANCE JobLifecycle WITH
  state <- StateOfJobs, holds <- HoldsOfJobs, lost <- uncommitted

ImplementsLifecycle == Lifecycle!Spec

=============================================================================
