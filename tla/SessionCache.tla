----------------------------- MODULE SessionCache -----------------------------
(***************************************************************************)
(* One session: its row, its copy in the session cache, and the requests   *)
(* that come with its token.  SessionService                               *)
(* (service/services/session.service.ts) with the strategy of              *)
(* config/session-cache, over CacheService, which catches every error.     *)
(*                                                                         *)
(* Of what the cache copies, the model has the expiry date, and a version  *)
(* of the data that the user and the roles make up.  Queries are steps of  *)
(* their own; those of one call take less than Latency ticks of the clock. *)
(***************************************************************************)
EXTENDS Naturals, FiniteSets

CONSTANTS
  Requests,
  Duration,     \* sessionDuration
  TTL,          \* sessionCacheTTL
  Latency,      \* bound on the time a call may take
  MaxTime,      \* bound on the time
  MaxVersions,  \* bound on the versions of the data
  MaxLate       \* bound on the writes on their way to the cache

ASSUME ConstantsAssumption ==
  /\ {Duration, TTL, Latency, MaxTime, MaxVersions} \subseteq Nat \ {0}
  /\ MaxLate \in Nat

Versions == 1 .. MaxVersions

VARIABLES
  now,        \* the time, from 1
  row,        \* the Session, with what findSessionByToken joins to it
  change,     \* of an open transaction: "none", "roles" or "remove"
  replaced,   \* when each version ceased to be in the database; or 0
  cache,      \* the cached session; or Nothing
  late,       \* sessions that sessionCacheStrategy.set has yet to store
  pc,         \* what every request does next
  copy,       \* the session as the request has it
  begun,      \* when the call of the request began
  lastServed, \* when a request last got the session; or 0
  lastSetter  \* when the row was last saved by setActive...; or 0

vars == <<now, row, change, replaced, cache, late, pc, copy, begun,
          lastServed, lastSetter>>

(* A CachedSession; staleAt is its cacheExpiry, and data is 0 for none. *)
CachedSessions ==
  [staleAt: 0 .. MaxTime + TTL, expires: 0 .. MaxTime + Duration,
   data: 0 .. MaxVersions]

Nothing == [staleAt |-> 0, expires |-> 0, data |-> 0]

(* The session was created some time ago, and its copy was evicted. *)
Init ==
  /\ now = 1
  /\ \E left \in 1 .. Duration :
       row = [exists |-> TRUE, expires |-> now + left, data |-> 1]
  /\ change = "none"
  /\ replaced = [v \in Versions |-> 0]
  /\ cache = Nothing
  /\ late = {}
  /\ pc = [r \in Requests |-> "idle"]
  /\ copy = [r \in Requests |-> Nothing]
  /\ begun = [r \in Requests |-> 0]
  /\ lastServed = 0
  /\ lastSetter = 0

-----------------------------------------------------------------------------
(* getSessionFromToken *)

(* Mutant of Usable: stale copies are served. *)
UsableUntilExpired(session) ==
  session.data # 0 /\ session.expires >= now

Usable(session) ==
  session.data # 0 /\ session.staleAt >= now /\ session.expires >= now

(* The cache answers, or it fails, or not within 50 ms. *)
Lookup(r, answers) ==
  /\ pc[r] = "idle"
  /\ begun' = [begun EXCEPT ![r] = now]
  /\ IF answers /\ Usable(cache)
     THEN /\ copy' = [copy EXCEPT ![r] = cache]
          /\ pc' = [pc EXCEPT ![r] = "served"]
          /\ lastServed' = now
     ELSE /\ pc' = [pc EXCEPT ![r] = "find"]
          /\ UNCHANGED <<copy, lastServed>>
  /\ UNCHANGED <<now, row, change, replaced, cache, late, lastSetter>>

AsRead == [staleAt |-> 0, expires |-> row.expires, data |-> row.data]

(* Mutant of HalfOver: in the last quarter. *)
AlmostOver(expires) == 4 * (expires - now) < Duration

HalfOver(expires) == 2 * (expires - now) < Duration

(* findSessionByToken: the row is read ... *)
Find(r) ==
  /\ pc[r] = "find"
  /\ IF row.exists /\ row.expires > now
     THEN /\ copy' = [copy EXCEPT ![r] = AsRead]
          /\ pc' = [pc EXCEPT ![r] = IF HalfOver(row.expires) THEN "extend"
                                     ELSE "store"]
     ELSE /\ pc' = [pc EXCEPT ![r] = "refused"]
          /\ UNCHANGED copy
  /\ UNCHANGED <<now, row, change, replaced, cache, late, begun, lastServed,
                 lastSetter>>

(* Mutant of Extend: the duration is added to the expiry date. *)
ExtendFurther(r) ==
  /\ pc[r] = "extend"
  /\ change # "remove"
  /\ row' = [row EXCEPT !.expires = IF row.exists THEN @ + Duration ELSE @]
  /\ copy' = [copy EXCEPT ![r].expires = @ + Duration]
  /\ pc' = [pc EXCEPT ![r] = "store"]
  /\ UNCHANGED <<now, change, replaced, cache, late, begun, lastServed, lastSetter>>

(* ... and updated, if it is still there: updateSessionExpiry. *)
Extend(r) ==
  /\ pc[r] = "extend"
  /\ change # "remove"
  /\ row' = [row EXCEPT !.expires = IF row.exists THEN now + Duration ELSE @]
  /\ copy' = [copy EXCEPT ![r].expires = now + Duration]
  /\ pc' = [pc EXCEPT ![r] = "store"]
  /\ UNCHANGED <<now, change, replaced, cache, late, begun, lastServed, lastSetter>>

(* The cache has the session at once, or the call does not wait for it. *)
Put(session) ==
  \/ cache' = session /\ UNCHANGED late
  \/ /\ Cardinality(late) < MaxLate
     /\ late' = late \cup {session}
     /\ UNCHANGED cache

(* serializeSession *)
Serialized(session) == [session EXCEPT !.staleAt = now + TTL]

Store(r) ==
  /\ pc[r] = "store"
  /\ Put(Serialized(copy[r]))
  /\ copy' = [copy EXCEPT ![r] = Serialized(@)]
  /\ pc' = [pc EXCEPT ![r] = "served"]
  /\ lastServed' = now
  /\ UNCHANGED <<now, row, change, replaced, begun, lastSetter>>

(* The call returns, with the session or without it. *)
Return(r) ==
  /\ pc[r] \in {"served", "refused"}
  /\ pc' = [pc EXCEPT ![r] = "idle"]
  /\ copy' = [copy EXCEPT ![r] = Nothing]
  /\ begun' = [begun EXCEPT ![r] = 0]
  /\ UNCHANGED <<now, row, change, replaced, cache, late, lastServed, lastSetter>>

-----------------------------------------------------------------------------
(* setActiveChannel, setActiveOrder and unsetActiveOrder of a request that
   has the session: the row is read again ... *)
ReadAgain(r) ==
  /\ pc[r] = "served"
  /\ begun' = [begun EXCEPT ![r] = now]
  /\ IF row.exists
     THEN /\ copy' = [copy EXCEPT ![r] = AsRead]
          /\ pc' = [pc EXCEPT ![r] = "save"]
     ELSE /\ pc' = [pc EXCEPT ![r] = "refused"]
          /\ UNCHANGED copy
  /\ UNCHANGED <<now, row, change, replaced, cache, late, lastServed, lastSetter>>

(* ... and saved with all its columns as they were read, or inserted again
   when it is gone. *)
Save(r) ==
  /\ pc[r] = "save"
  /\ change # "remove"
  /\ row' = [row EXCEPT !.exists = TRUE, !.expires = copy[r].expires]
  /\ replaced' = [replaced EXCEPT ![row.data] = 0]
  /\ pc' = [pc EXCEPT ![r] = "store"]
  /\ lastSetter' = now
  /\ UNCHANGED <<now, change, cache, late, copy, begun, lastServed>>

-----------------------------------------------------------------------------
(* Transactions that make the cached session wrong.  The cache is told before
   they commit, and may not hear of it, or later. *)

(* A Role or a Channel is saved: clearSessionCacheOnDataChange.  The sessions
   of the user are removed, or expired ones are: deleteSessionsByUser,
   deleteSessionsByActiveOrderId, cleanExpiredSessions. *)
BeginChange(kind) ==
  /\ change = "none"
  /\ kind = "roles" => row.data < MaxVersions
  /\ kind = "remove" => row.exists
  /\ change' = kind
  /\ cache' \in {Nothing, cache}
  /\ UNCHANGED <<now, row, replaced, late, pc, copy, begun, lastServed, lastSetter>>

Commit ==
  /\ change # "none"
  /\ row' = IF change = "roles" THEN [row EXCEPT !.data = @ + 1]
            ELSE [row EXCEPT !.exists = FALSE]
  /\ replaced' = IF row.exists THEN [replaced EXCEPT ![row.data] = now]
                 ELSE replaced
  /\ change' = "none"
  /\ UNCHANGED <<now, cache, late, pc, copy, begun, lastServed, lastSetter>>

Rollback ==
  /\ change # "none"
  /\ change' = "none"
  /\ UNCHANGED <<now, row, replaced, cache, late, pc, copy, begun, lastServed,
                 lastSetter>>

-----------------------------------------------------------------------------
(* The cache: a late write arrives or fails, and anything may be evicted. *)
ArriveLate(session) ==
  /\ session \in late
  /\ cache' \in {session, cache}
  /\ late' = late \ {session}
  /\ UNCHANGED <<now, row, change, replaced, pc, copy, begun, lastServed, lastSetter>>

Evict ==
  /\ cache # Nothing
  /\ cache' = Nothing
  /\ UNCHANGED <<now, row, change, replaced, late, pc, copy, begun, lastServed,
                 lastSetter>>

Tick ==
  /\ now < MaxTime
  /\ \A r \in Requests : pc[r] # "idle" => now + 1 < begun[r] + Latency
  /\ now' = now + 1
  /\ UNCHANGED <<row, change, replaced, cache, late, pc, copy, begun, lastServed,
                 lastSetter>>

-----------------------------------------------------------------------------
RequestStep(r) ==
  \/ \E answers \in BOOLEAN : Lookup(r, answers)
  \/ Find(r) \/ Extend(r) \/ Store(r) \/ Return(r) \/ ReadAgain(r) \/ Save(r)

Next ==
  \/ \E r \in Requests : RequestStep(r)
  \/ \E kind \in {"roles", "remove"} : BeginChange(kind)
  \/ Commit \/ Rollback
  \/ \E session \in late : ArriveLate(session)
  \/ Evict
  \/ Tick

Spec == Init /\ [][Next]_vars

-----------------------------------------------------------------------------
TypeOK ==
  /\ now \in 1 .. MaxTime
  /\ row \in [exists: BOOLEAN, expires: 1 .. MaxTime + Duration, data: Versions]
  /\ change \in {"none", "roles", "remove"}
  /\ replaced \in [Versions -> 0 .. MaxTime]
  /\ cache \in CachedSessions
  /\ late \subseteq CachedSessions
  /\ pc \in [Requests -> {"idle", "find", "extend", "store", "save", "served",
                          "refused"}]
  /\ copy \in [Requests -> CachedSessions]
  /\ begun \in [Requests -> 0 .. MaxTime]
  /\ lastServed \in 0 .. MaxTime
  /\ lastSetter \in 0 .. MaxTime

(* "the length of time that a cache entry is kept before being considered
   stale": what a request is served was in the database within the TTL and the
   time its call and the one that read the row took, whatever was committed,
   cleared, evicted, or stored too late in between. *)
ServedIsRecent ==
  \A r \in Requests :
    LET seen == copy[r].data IN
    pc[r] = "served" /\ replaced[seen] # 0 =>
      now =< replaced[seen] + TTL + 2 * (Latency - 1)

(* "the session will not expire when in active use": a session that is refused
   because it has expired was not used for half its duration, less the time
   that the cache hides its use from the database.  The setters have to leave
   it alone, since they renew the copy in the cache but not the session, and
   may undo an extension. *)
InUseIsExtended ==
  [][\A r \in Requests :
       /\ pc[r] = "find" /\ pc'[r] = "refused" /\ row.exists
       /\ lastServed > lastSetter + TTL + Latency - 1
       => 2 * (now + TTL + Latency - 1) >= 2 * lastServed + Duration]_vars

=============================================================================
