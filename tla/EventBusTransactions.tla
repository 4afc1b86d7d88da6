------------------------- MODULE EventBusTransactions -------------------------
(***************************************************************************)
(* Events that are published inside database transactions: EventBus        *)
(* (event-bus/event-bus.ts), TransactionSubscriber                         *)
(* (connection/transaction-subscriber.ts), and the transactions that       *)
(* TransactionWrapper and TransactionalConnection run for a request        *)
(* (connection/transaction-wrapper.ts, transactional-connection.ts).       *)
(*                                                                         *)
(* A request has one query runner.  A transaction within a transaction is  *)
(* a savepoint of it, and its depth counts them.  Publish stands for a     *)
(* service method that saves a row and publishes the event about it.       *)
(*                                                                         *)
(* TX and tx set the names apart that every module of the server has, for  *)
(* a module that extends this one and another.                             *)
(***************************************************************************)
EXTENDS Naturals

CONSTANTS
  Requests,
  MaxEvents   \* bound on the events, numbered as they are published

ASSUME TXAssumption == MaxEvents \in Nat /\ Requests # {}

Events == 1 .. MaxEvents

VARIABLES
  work,      \* of every request, whose code runs: "new", "outer", "inner", "done"
  depth,     \* of its transaction; 0: isTransactionActive is false
  released,  \* its query runner was released
  event      \* every event, and the row it is about

txVars == <<work, depth, released, event>>

(* by: the request that published it; level: the depth at which its row was
   saved; row: what became of it ("withdrawn": rolled back to a savepoint);
   seen: how far the event is on its way to a subscriber. *)
EventObjects ==
  [by: Requests, level: 0 .. 2,
   row: {"none", "pending", "saved", "withdrawn", "undone"},
   seen: {"none", "waiting", "ready", "delivered", "dropped"}]

TXInit ==
  /\ work = [c \in Requests |-> "new"]
  /\ depth = [c \in Requests |-> 0]
  /\ released = [c \in Requests |-> FALSE]
  /\ event = [e \in Events |-> [by |-> CHOOSE c \in Requests : TRUE,
                               level |-> 0, row |-> "none", seen |-> "none"]]

Running(c) == work[c] \in {"outer", "inner"}

-----------------------------------------------------------------------------
(* What a query runner's commit or rollback does to an event of the request,
   and what TransactionSubscriber makes of it. *)

(* Mutants of Heard: any commit will do; a rollback of any depth will do. *)
HeardOfAny(ev, c, d, outcome) ==
  IF ev.seen = "waiting" /\ d = 1 THEN [ev EXCEPT !.seen = outcome] ELSE ev

HeardAtOnce(ev, c, d, outcome) ==
  IF ev.seen = "waiting" /\ ev.by = c /\ (d = 1 \/ outcome = "dropped")
  THEN [ev EXCEPT !.seen = outcome] ELSE ev

(* awaitCommit: the next commit or rollback of the same query runner that
   leaves no transaction active. *)
Heard(ev, c, d, outcome) ==
  IF ev.seen = "waiting" /\ ev.by = c /\ d = 1
  THEN [ev EXCEPT !.seen = outcome] ELSE ev

Kept(ev, c, d) ==
  IF ev.row # "pending" \/ ev.by # c THEN ev
  ELSE IF d = 1 THEN [ev EXCEPT !.row = "saved"]
  ELSE [ev EXCEPT !.level = IF @ = d THEN d - 1 ELSE @]

Undone(ev, c, d) ==
  IF ev.row # "pending" \/ ev.by # c \/ ev.level < d THEN ev
  ELSE [ev EXCEPT !.row = IF d = 1 THEN "undone" ELSE "withdrawn"]

(* Mutant of Commit: without asking whether a transaction is active. *)
CommitAnyway(c) ==
  /\ depth' = [depth EXCEPT ![c] = @ - 1]
  /\ event' = [e \in Events |->
                 Heard(Kept(event[e], c, depth[c]), c, depth[c], "ready")]

(* commitTransaction, if a transaction is active *)
Commit(c) ==
  IF depth[c] = 0 THEN UNCHANGED <<depth, event>>
  ELSE /\ depth' = [depth EXCEPT ![c] = @ - 1]
       /\ event' = [e \in Events |->
                      Heard(Kept(event[e], c, depth[c]), c, depth[c], "ready")]

(* rollbackTransaction, if a transaction is active *)
Rollback(c) ==
  IF depth[c] = 0 THEN UNCHANGED <<depth, event>>
  ELSE /\ depth' = [depth EXCEPT ![c] = @ - 1]
       /\ event' = [e \in Events |->
                      Heard(Undone(event[e], c, depth[c]), c, depth[c], "dropped")]

-----------------------------------------------------------------------------
(* executeInTransaction, for the request and for withTransaction inside it. *)

Begin(c, mode) ==
  /\ work[c] = "new"
  /\ work' = [work EXCEPT ![c] = "outer"]
  /\ depth' = [depth EXCEPT ![c] = IF mode = "auto" THEN 1 ELSE 0]
  /\ UNCHANGED <<released, event>>

BeginInner(c) ==
  /\ work[c] = "outer"
  /\ ~released[c]
  /\ work' = [work EXCEPT ![c] = "inner"]
  /\ depth' = [depth EXCEPT ![c] = @ + 1]
  /\ UNCHANGED <<released, event>>

Finally(c) == released' = [released EXCEPT ![c] = @ \/ depth'[c] = 0]

(* The caller of withTransaction may catch the error and go on. *)
EndInner(c, succeeds) ==
  /\ work[c] = "inner"
  /\ work' = [work EXCEPT ![c] = "outer"]
  /\ IF succeeds THEN Commit(c) ELSE Rollback(c)
  /\ Finally(c)

(* Mutant of End: the query runner is released after a success only. *)
EndReleasing(c, succeeds) ==
  /\ work[c] = "outer"
  /\ work' = [work EXCEPT ![c] = "done"]
  /\ IF succeeds THEN Commit(c) /\ Finally(c)
                 ELSE Rollback(c) /\ UNCHANGED released

End(c, succeeds) ==
  /\ work[c] = "outer"
  /\ work' = [work EXCEPT ![c] = "done"]
  /\ IF succeeds THEN Commit(c) ELSE Rollback(c)
  /\ Finally(c)

-----------------------------------------------------------------------------
(* What the code of a request calls: startTransaction, commitOpenTransaction
   and rollBackTransaction of TransactionalConnection ... *)

StartTransaction(c) ==
  /\ Running(c)
  /\ depth[c] = 0
  /\ ~released[c]
  /\ depth' = [depth EXCEPT ![c] = 1]
  /\ UNCHANGED <<work, released, event>>

CommitOpenTransaction(c) ==
  /\ Running(c)
  /\ depth[c] > 0
  /\ Commit(c)
  /\ UNCHANGED <<work, released>>

RollBackTransaction(c) ==
  /\ Running(c)
  /\ depth[c] > 0
  /\ Rollback(c)
  /\ UNCHANGED <<work, released>>

(* ... and services that save and publish.  Blocking handlers come next, and
   the request goes on, or fails. *)
Publish(c, e) ==
  /\ Running(c)
  /\ ~released[c]
  /\ event[e].seen = "none"
  /\ \A d \in 1 .. e - 1 : event[d].seen # "none"
  /\ event' = [event EXCEPT ![e] =
                 [by |-> c, level |-> depth[c],
                  row |-> IF depth[c] > 0 THEN "pending" ELSE "saved",
                  seen |-> IF depth[c] > 0 THEN "waiting" ELSE "ready"]]
  /\ UNCHANGED <<work, depth, released>>

(* The promise of awaitActiveTransactions has resolved, and the subscriber of
   ofType is called. *)
Deliver(e) ==
  /\ event[e].seen = "ready"
  /\ event' = [event EXCEPT ![e].seen = "delivered"]
  /\ UNCHANGED <<work, depth, released>>

-----------------------------------------------------------------------------
RequestStep(c) ==
  \/ \E mode \in {"auto", "manual"} : Begin(c, mode)
  \/ BeginInner(c)
  \/ \E succeeds \in BOOLEAN : EndInner(c, succeeds) \/ End(c, succeeds)
  \/ StartTransaction(c) \/ CommitOpenTransaction(c) \/ RollBackTransaction(c)
  \/ \E e \in Events : Publish(c, e)

TXNext ==
  \/ \E c \in Requests : RequestStep(c)
  \/ \E e \in Events : Deliver(e)

TXSpec == TXInit /\ [][TXNext]_txVars

(* Timers fire: an event that is ready is delivered.  Requests need not end. *)
TXFairSpec == TXSpec /\ \A e \in Events : WF_txVars(Deliver(e))

-----------------------------------------------------------------------------
TXTypeOK ==
  /\ work \in [Requests -> {"new", "outer", "inner", "done"}]
  /\ depth \in [Requests -> 0 .. 2]
  /\ released \in [Requests -> BOOLEAN]
  /\ event \in [Events -> EventObjects]

(* "the subscriber will only get called after any active database transactions
   are complete", and never after a rollback of the transaction: through
   savepoints, manual transactions, and requests side by side. *)
SeenAfterCommit ==
  \A e \in Events :
    event[e].seen = "delivered" => event[e].row \in {"saved", "withdrawn"}

(* However a request nests, ends and leaves its transactions, it has none
   active in the end, and its connection is back in the pool. *)
NothingLeftOpen ==
  \A c \in Requests : work[c] = "done" => depth[c] = 0 /\ released[c]

(* No event is forgotten: once the data is committed, the subscriber hears of
   it, whatever else was rolled back. *)
CommittedIsDelivered ==
  \A e \in Events : event[e].row = "saved" ~> event[e].seen = "delivered"

=============================================================================
