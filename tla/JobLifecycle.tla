----------------------------- MODULE JobLifecycle -----------------------------
(***************************************************************************)
(* What the job queue promises about jobs, whatever strategy keeps them:   *)
(* the states of a Job (job-queue/job.ts), and that a job is worked on by  *)
(* one worker at a time unless taking it could not be saved.               *)
(***************************************************************************)
CONSTANTS
  Jobs,
  Workers,
  Places    \* of every worker, for the jobs it works on

VARIABLES
  state,  \* of every job; "ABSENT" before it is added
  holds,  \* of every job: the places <<worker, place>> it is worked on at
  lost    \* jobs that wait, or did, although a worker had taken them

vars == <<state, holds, lost>>

WaitingStates == {"PENDING", "RETRYING"}
SettledStates == {"COMPLETED", "FAILED", "CANCELLED"}
JobStates == WaitingStates \cup SettledStates \cup {"RUNNING"}

Init ==
  /\ state = [j \in Jobs |-> "ABSENT"]
  /\ holds = [j \in Jobs |-> {}]
  /\ lost = {}

Add(j) ==
  /\ state[j] = "ABSENT"
  /\ state' = [state EXCEPT ![j] = "PENDING"]
  /\ UNCHANGED <<holds, lost>>

(* A waiting job is taken to a place where it is not yet.  Somebody else has
   it only if taking it was lost. *)
Take(h, j) ==
  /\ state[j] \in WaitingStates
  /\ h \notin holds[j]
  /\ holds[j] = {} \/ j \in lost
  /\ holds' = [holds EXCEPT ![j] = @ \cup {h}]

(* Once nobody else has the job, it is its worker's alone again. *)
Claim(h, j) ==
  /\ Take(h, j)
  /\ state' = [state EXCEPT ![j] = "RUNNING"]
  /\ lost' = IF holds[j] = {} THEN lost \ {j} ELSE lost

(* The claim is not saved: the job waits, and its worker does not know. *)
LoseClaim(h, j) ==
  /\ Take(h, j)
  /\ lost' = lost \cup {j}
  /\ UNCHANGED state

(* The worker lets go of the job, with the outcome s; a job that was settled
   in the meantime keeps its state. *)
Finish(h, j, s) ==
  /\ h \in holds[j]
  /\ holds' = [holds EXCEPT ![j] = @ \ {h}]
  /\ state' = IF state[j] \in SettledStates THEN state
              ELSE [state EXCEPT ![j] = s]
  /\ UNCHANGED lost

Cancel(j) ==
  /\ state[j] \in WaitingStates \cup {"RUNNING"}
  /\ state' = [state EXCEPT ![j] = "CANCELLED"]
  /\ UNCHANGED <<holds, lost>>

(* A worker dies, and its jobs stay as they are. *)
Lose(w) ==
  /\ holds' = [j \in Jobs |-> {h \in holds[j] : h[1] # w}]
  /\ UNCHANGED <<state, lost>>

(* A report of a previous run arrives after its outcome, or the worker of a
   lost claim starts. *)
Overtake(j) ==
  /\ state[j] \in WaitingStates
  /\ state' = [state EXCEPT ![j] = "RUNNING"]
  /\ UNCHANGED <<holds, lost>>

Next ==
  \/ \E j \in Jobs : Add(j) \/ Cancel(j) \/ Overtake(j)
  \/ \E h \in Workers \X Places, j \in Jobs :
       \/ Claim(h, j) \/ LoseClaim(h, j)
       \/ \E s \in JobStates \ {"RUNNING"} : Finish(h, j, s)
  \/ \E w \in Workers : Lose(w)

Spec == Init /\ [][Next]_vars

=============================================================================
