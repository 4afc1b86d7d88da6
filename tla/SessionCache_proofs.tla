--------------------------- MODULE SessionCache_proofs ---------------------------
(***************************************************************************)
(* What is served is recent, and a session in use is extended: for any     *)
(* number of requests and late writes, and any durations and latency.      *)
(***************************************************************************)
EXTENDS SessionCache, Integers, TLAPS

Delay == Latency - 1

(* The data that was replaced is older than that of the row, unless the row is
   gone. *)
RowOK ==
  /\ \A v \in Versions : v > row.data => replaced[v] = 0
  /\ row.exists => replaced[row.data] = 0
  /\ row.expires =< now + Duration
  /\ lastSetter =< now

(* The expiry date that the row had at t, with half the duration left, is
   still in it, or a later one, unless a setter has saved the row since. *)
Backs(theRow, setter, t) ==
  theRow.exists /\ setter < t => 2 * theRow.expires >= 2 * t + Duration

(* The earliest that the row was read for an entry stale at t, or for one
   served at t. *)
ReadFor(t) == t - TTL - Delay

(* An entry of the cache was made by a call that read the row while its data
   was in the database, and had half the duration left. *)
EntryOK(e) ==
  /\ e.staleAt =< now + TTL
  /\ e.data =< row.data
  /\ e.data # 0 /\ replaced[e.data] # 0 =>
       e.staleAt =< replaced[e.data] + TTL + Delay
  /\ Backs(row, lastSetter, ReadFor(e.staleAt))

(* A call that has read the row, and one that has the session. *)
HasReadOK(r) ==
  /\ copy[r].data # 0
  /\ copy[r].expires >= 1
  /\ copy[r].expires =< now + Duration
  /\ replaced[copy[r].data] # 0 => begun[r] =< replaced[copy[r].data]
  /\ pc[r] = "store" => Backs(row, lastSetter, begun[r])

ServedRecently(r) ==
  /\ copy[r].data # 0
  /\ replaced[copy[r].data] # 0 =>
       begun[r] =< replaced[copy[r].data] + TTL + Delay

(* No call takes longer than the latency allows. *)
InTime(r) == begun[r] =< now /\ now =< begun[r] + Delay

RequestOK(r) ==
  /\ copy[r].data =< row.data
  /\ pc[r] # "idle" => InTime(r)
  /\ pc[r] \in {"extend", "store", "save"} => HasReadOK(r)
  /\ pc[r] = "served" => ServedRecently(r)

(* A version is committed only while there is another. *)
ChangeOK == change = "roles" => row.data < MaxVersions

LastServedOK ==
  /\ lastServed =< now
  /\ Backs(row, lastSetter, ReadFor(lastServed))

RecentInv ==
  /\ TypeOK
  /\ RowOK
  /\ ChangeOK
  /\ EntryOK(cache)
  /\ \A e \in late : EntryOK(e)
  /\ \A r \in Requests : RequestOK(r)
  /\ LastServedOK

-----------------------------------------------------------------------------
(* What no step takes back. *)

RowStep ==
  /\ now' >= now
  /\ row'.data >= row.data
  /\ \A v \in Versions : replaced'[v] \in {0, replaced[v], now}
  /\ \/ /\ lastSetter' = lastSetter
        /\ row'.expires >= row.expires
        /\ row'.exists => row.exists
     \/ lastSetter' = now

SameRequest(r) ==
  /\ pc'[r] = pc[r] /\ copy'[r] = copy[r] /\ begun'[r] = begun[r]
  /\ pc[r] # "idle" => now' =< begun[r] + Delay

USE ConstantsAssumption

LEMMA Numbers ==
  ASSUME TypeOK
  PROVE  /\ Delay \in Nat /\ TTL \in Nat /\ Duration \in Nat
         /\ now \in Nat /\ row.data \in Nat
         /\ \A v \in Versions : replaced[v] \in Nat
<1>1. Delay \in Nat /\ TTL \in Nat /\ Duration \in Nat
  BY DEF Delay
<1>2. now \in Nat /\ row.data \in Nat
  BY DEF TypeOK, Versions
<1>3. \A v \in Versions : replaced[v] \in Nat
  BY DEF TypeOK
<1> QED
  BY <1>1, <1>2, <1>3

LEMMA NumbersAfter ==
  ASSUME TypeOK'
  PROVE  /\ now' \in Nat /\ row'.data \in Nat
         /\ \A v \in Versions : replaced'[v] \in Nat
<1>1. now' \in Nat /\ row'.data \in Nat
  BY DEF TypeOK, Versions
<1>2. \A v \in Versions : replaced'[v] \in Nat
  BY DEF TypeOK
<1> QED
  BY <1>1, <1>2

LEMMA EntryTyped ==
  ASSUME NEW e \in CachedSessions
  PROVE  /\ e.staleAt \in Nat
         /\ e.expires \in 0 .. MaxTime + Duration
         /\ e.data # 0 => e.data \in Versions
BY DEF CachedSessions, Versions

LEMMA CopyTyped ==
  ASSUME RecentInv, NEW r \in Requests, copy[r].data # 0
  PROVE  copy[r].data \in Versions
BY EntryTyped DEF RecentInv, TypeOK

LEMMA BacksStill ==
  ASSUME TypeOK, TypeOK', RowStep, NEW t \in Int, t =< now, Backs(row, lastSetter, t)
  PROVE  Backs(row', lastSetter', t)
BY DEF RowStep, Backs, TypeOK

LEMMA EntryKept ==
  ASSUME TypeOK, TypeOK', RowStep, NEW e \in CachedSessions, EntryOK(e)
  PROVE  EntryOK(e)'
<1>1. e.staleAt \in Nat /\ e.data \in 0 .. MaxVersions
  BY DEF CachedSessions
<1>2. /\ now \in Nat /\ now' \in Nat /\ row.data \in Nat /\ row'.data \in Nat
      /\ Delay \in Nat /\ TTL \in Nat /\ Duration \in Nat
      /\ \A v \in Versions : replaced[v] \in Nat /\ replaced'[v] \in Nat
  BY Numbers, NumbersAfter
<1>3. Backs(row', lastSetter', ReadFor(e.staleAt))
  <2>1. ReadFor(e.staleAt) \in Int /\ ReadFor(e.staleAt) =< now
    BY <1>1, <1>2 DEF ReadFor, EntryOK
  <2> QED
    BY <2>1, BacksStill DEF EntryOK
<1>4. e.data # 0 => e.data \in Versions
  BY <1>1 DEF Versions
<1>5. e.staleAt =< now' + TTL /\ e.data =< row'.data
  BY <1>1, <1>2 DEF EntryOK, RowStep
<1>6. ASSUME e.data # 0, replaced'[e.data] # 0
      PROVE  e.staleAt =< replaced'[e.data] + TTL + Delay
  BY <1>1, <1>2, <1>4, <1>6 DEF EntryOK, RowStep
<1> QED
  BY <1>3, <1>5, <1>6 DEF EntryOK

LEMMA RequestKept ==
  ASSUME TypeOK, TypeOK', RowStep, NEW r \in Requests, RequestOK(r), SameRequest(r)
  PROVE  RequestOK(r)'
<1>1. /\ copy[r].data \in 0 .. MaxVersions
      /\ copy[r].expires \in Nat
      /\ begun[r] \in Nat
  BY DEF TypeOK, CachedSessions
<1>2. /\ now \in Nat /\ now' \in Nat /\ row.data \in Nat /\ row'.data \in Nat
      /\ Delay \in Nat /\ TTL \in Nat /\ Duration \in Nat
      /\ \A v \in Versions : replaced[v] \in Nat /\ replaced'[v] \in Nat
  BY Numbers, NumbersAfter
<1>3. copy[r].data # 0 => copy[r].data \in Versions
  BY <1>1 DEF Versions
<1>4. copy'[r].data =< row'.data
  BY <1>1, <1>2 DEF RequestOK, SameRequest, RowStep
<1>5. pc'[r] # "idle" => InTime(r)'
  BY <1>1, <1>2 DEF RequestOK, SameRequest, RowStep, InTime
<1>6. pc'[r] \in {"extend", "store", "save"} => HasReadOK(r)'
  <2> SUFFICES ASSUME pc[r] \in {"extend", "store", "save"}
               PROVE  HasReadOK(r)'
    BY DEF SameRequest
  <2>1. HasReadOK(r) /\ begun[r] =< now
    BY DEF RequestOK, InTime
  <2>2. pc[r] = "store" => Backs(row', lastSetter', begun[r])
    BY <1>1, <2>1, BacksStill DEF HasReadOK
  <2> QED
    BY <1>1, <1>2, <1>3, <2>1, <2>2 DEF HasReadOK, SameRequest, RowStep
<1>7. pc'[r] = "served" => ServedRecently(r)'
  BY <1>1, <1>2, <1>3 DEF RequestOK, InTime, SameRequest, RowStep, ServedRecently
<1> QED
  BY <1>4, <1>5, <1>6, <1>7 DEF RequestOK

LEMMA LastServedKept ==
  ASSUME TypeOK, TypeOK', RowStep, LastServedOK, lastServed' = lastServed
  PROVE  LastServedOK'
<1>1. /\ now \in Nat /\ now' \in Nat /\ lastServed \in Nat
      /\ Delay \in Nat /\ TTL \in Nat
  BY DEF TypeOK, Delay
<1>2. ReadFor(lastServed) \in Int /\ ReadFor(lastServed) =< now
  BY <1>1 DEF ReadFor, LastServedOK
<1>3. Backs(row', lastSetter', ReadFor(lastServed))
  BY <1>2, BacksStill DEF LastServedOK
<1> QED
  BY <1>1, <1>3 DEF LastServedOK, RowStep

LEMMA NothingTyped ==
  ASSUME TypeOK
  PROVE  Nothing \in CachedSessions /\ EntryOK(Nothing)
<1>1. Nothing \in CachedSessions
  BY DEF Nothing, CachedSessions
<1>2. ReadFor(0) =< 0 /\ lastSetter >= 0 /\ ReadFor(0) \in Int /\ lastSetter \in Nat
  BY DEF ReadFor, Delay, TypeOK
<1>3. Backs(row, lastSetter, ReadFor(0))
  BY <1>2 DEF Backs
<1> QED
  BY <1>1, <1>3 DEF Nothing, EntryOK, TypeOK, Versions

(* A step need only see to what it changes. *)
LEMMA StepKeeps ==
  ASSUME RecentInv, TypeOK', RowOK', RowStep,
         \A r \in Requests : RequestOK(r)' \/ SameRequest(r),
         EntryOK(cache)' \/ cache' \in {cache, Nothing} \cup late,
         \A e \in late' : EntryOK(e)' \/ e \in late,
         LastServedOK' \/ lastServed' = lastServed,
         ChangeOK' \/ (change' = change /\ row'.data = row.data)
  PROVE  RecentInv'
<1> USE DEF RecentInv
<1>1. \A r \in Requests : RequestOK(r)'
  BY RequestKept
<1>2. \A e \in {cache, Nothing} \cup late : e \in CachedSessions /\ EntryOK(e)
  BY NothingTyped DEF TypeOK
<1>3. \A e \in {cache, Nothing} \cup late : EntryOK(e)'
  BY <1>2, EntryKept
<1>4. EntryOK(cache)'
  <2>1. \A e : e = cache' /\ EntryOK(e)' => EntryOK(cache)'
    BY DEF EntryOK
  <2> QED
    BY <1>3, <2>1
<1>5. \A e \in late' : EntryOK(e)'
  BY <1>3
<1>6. LastServedOK'
  BY LastServedKept
<1>7. ChangeOK'
  BY DEF ChangeOK
<1> QED
  BY <1>1, <1>4, <1>5, <1>6, <1>7

(* A step that leaves the row alone. *)
LEMMA StillRow ==
  ASSUME TypeOK, RowOK,
         row' = row, replaced' = replaced, lastSetter' = lastSetter, now' = now
  PROVE  RowStep /\ RowOK'
BY DEF RowStep, RowOK, TypeOK, Versions

-----------------------------------------------------------------------------
(* Requests *)

(* Every other request is as it was. *)
LEMMA OthersSame ==
  ASSUME RecentInv, now' = now, NEW r \in Requests,
         \A q \in Requests \ {r} :
           pc'[q] = pc[q] /\ copy'[q] = copy[q] /\ begun'[q] = begun[q]
  PROVE  \A q \in Requests \ {r} : SameRequest(q)
BY DEF RecentInv, RequestOK, InTime, SameRequest

LEMMA LookupInv ==
  ASSUME RecentInv, NEW r \in Requests, NEW answers \in BOOLEAN, Lookup(r, answers)
  PROVE  RecentInv'
<1>1. TypeOK'
  BY DEF Lookup, RecentInv, TypeOK
<1>2. RowStep /\ RowOK'
  BY StillRow DEF Lookup, RecentInv
<1>3. \A q \in Requests \ {r} : SameRequest(q)
  BY OthersSame DEF Lookup, RecentInv, TypeOK
<1>4. Delay \in Nat /\ now \in Nat /\ TTL \in Nat
      /\ \A v \in Versions : replaced[v] \in Nat
  BY Numbers DEF RecentInv
<1>5. begun'[r] = now /\ now' = now /\ row' = row /\ replaced' = replaced
      /\ lastSetter' = lastSetter
  BY DEF Lookup, RecentInv, TypeOK
<1>6. CASE answers /\ Usable(cache)
  <2>1. pc'[r] = "served" /\ copy'[r] = cache /\ lastServed' = now
    BY <1>6 DEF Lookup, RecentInv, TypeOK
  <2>2. /\ cache.staleAt \in Nat /\ cache.staleAt >= now
        /\ cache.data \in Versions /\ EntryOK(cache)
    <3>1. cache \in CachedSessions /\ EntryOK(cache)
      BY DEF RecentInv, TypeOK
    <3> QED
      BY <1>6, <3>1, EntryTyped DEF Usable
  <2>3. ServedRecently(r)'
    BY <1>4, <1>5, <2>1, <2>2 DEF EntryOK, ServedRecently, Versions
  <2>4. RequestOK(r)'
    BY <1>4, <1>5, <2>1, <2>2, <2>3 DEF RequestOK, EntryOK, InTime
  <2>5. LastServedOK'
    <3>1. Backs(row, lastSetter, ReadFor(cache.staleAt))
      BY <2>2 DEF EntryOK
    <3>2. Backs(row, lastSetter, ReadFor(now))
      BY <1>4, <2>2, <3>1 DEF Backs, ReadFor, RecentInv, TypeOK
    <3> QED
      BY <1>4, <1>5, <2>1, <3>2 DEF LastServedOK
  <2> QED
    BY <1>1, <1>2, <1>3, <2>4, <2>5, StepKeeps DEF Lookup
<1>7. CASE ~(answers /\ Usable(cache))
  <2>1. pc'[r] = "find" /\ copy'[r] = copy[r] /\ lastServed' = lastServed
    BY <1>7 DEF Lookup, RecentInv, TypeOK
  <2>2. RequestOK(r)'
    BY <1>4, <1>5, <2>1 DEF RecentInv, RequestOK, InTime
  <2> QED
    BY <1>1, <1>2, <1>3, <2>1, <2>2, StepKeeps DEF Lookup
<1> QED
  BY <1>6, <1>7

LEMMA AsReadTyped ==
  ASSUME TypeOK
  PROVE  /\ AsRead \in CachedSessions
         /\ AsRead.data = row.data /\ row.data # 0 /\ row.data \in Versions
         /\ AsRead.expires = row.expires /\ row.expires \in Nat \ {0}
BY DEF AsRead, TypeOK, CachedSessions, Versions

LEMMA FindInv ==
  ASSUME RecentInv, NEW r \in Requests, Find(r)
  PROVE  RecentInv'
<1>1. /\ row' = row /\ replaced' = replaced /\ lastSetter' = lastSetter /\ now' = now
      /\ cache' = cache /\ late' = late /\ lastServed' = lastServed /\ begun' = begun
      /\ change' = change
      /\ pc[r] = "find"
  BY DEF Find
<1>2. TypeOK'
  BY <1>1, AsReadTyped DEF Find, RecentInv, TypeOK
<1>3. RowStep /\ RowOK'
  BY <1>1, StillRow DEF RecentInv
<1>4. \A q \in Requests \ {r} : SameRequest(q)
  BY <1>1, OthersSame DEF Find, RecentInv, TypeOK
<1>5. InTime(r) /\ now \in Nat /\ begun[r] \in Nat /\ Duration \in Nat
  BY <1>1, Numbers DEF RecentInv, RequestOK, TypeOK
<1>6. RequestOK(r)'
  <2>1. CASE row.exists /\ row.expires > now
    <3>1. /\ copy'[r].data = row.data /\ copy'[r].expires = row.expires
          /\ pc'[r] = IF HalfOver(row.expires) THEN "extend" ELSE "store"
          /\ row.data \in Versions /\ row.data # 0
          /\ row.expires \in Nat \ {0}
      BY <2>1, AsReadTyped DEF Find, RecentInv, TypeOK
    <3>2. replaced[row.data] = 0 /\ row.expires =< now + Duration
      BY <2>1 DEF RecentInv, RowOK
    <3>3. ~HalfOver(row.expires) => Backs(row, lastSetter, begun[r])
      BY <1>5, <3>1 DEF HalfOver, Backs, InTime
    <3>4. HasReadOK(r)'
      BY <1>1, <3>1, <3>2, <3>3 DEF HasReadOK
    <3> QED
      BY <1>1, <1>5, <3>1, <3>4 DEF RequestOK, InTime, RecentInv, TypeOK, Versions
  <2>2. CASE ~(row.exists /\ row.expires > now)
    <3>1. pc'[r] = "refused" /\ copy'[r] = copy[r]
      BY <2>2 DEF Find, RecentInv, TypeOK
    <3> QED
      BY <1>1, <1>5, <3>1 DEF RecentInv, RequestOK, InTime
  <2> QED
    BY <2>1, <2>2
<1> QED
  BY <1>1, <1>2, <1>3, <1>4, <1>6, StepKeeps

LEMMA ExpiresTyped ==
  ASSUME NEW e \in CachedSessions, NEW date \in 0 .. MaxTime + Duration
  PROVE  /\ [e EXCEPT !.expires = date] \in CachedSessions
         /\ [e EXCEPT !.expires = date].data = e.data
         /\ [e EXCEPT !.expires = date].expires = date
BY DEF CachedSessions

LEMMA RowTyped ==
  ASSUME TypeOK, NEW date \in 1 .. MaxTime + Duration
  PROVE  LET extended == [row EXCEPT !.expires = date]
             saved == [row EXCEPT !.exists = TRUE, !.expires = date]
         IN /\ {extended, saved} \subseteq
                 [exists: BOOLEAN, expires: 1 .. MaxTime + Duration, data: Versions]
            /\ extended.data = row.data /\ saved.data = row.data
            /\ extended.expires = date /\ saved.expires = date
            /\ extended.exists = row.exists
BY DEF TypeOK

LEMMA ExtendInv ==
  ASSUME RecentInv, NEW r \in Requests, Extend(r)
  PROVE  RecentInv'
<1> DEFINE date == now + Duration
           rowDate == IF row.exists THEN date ELSE row.expires
           extended == [copy[r] EXCEPT !.expires = date]
<1>1. /\ replaced' = replaced /\ lastSetter' = lastSetter /\ now' = now
      /\ cache' = cache /\ late' = late /\ lastServed' = lastServed /\ begun' = begun
      /\ change' = change
      /\ pc[r] = "extend"
      /\ pc' = [pc EXCEPT ![r] = "store"]
      /\ row' = [row EXCEPT !.expires = rowDate]
      /\ copy' = [copy EXCEPT ![r] = extended]
  BY DEF Extend
<1>2. /\ copy[r] \in CachedSessions /\ begun[r] \in Nat /\ row.expires \in Nat
      /\ now \in 1 .. MaxTime /\ lastSetter \in Nat /\ Duration \in Nat \ {0}
  BY DEF RecentInv, TypeOK
<1>3. date \in 1 .. MaxTime + Duration /\ rowDate \in 1 .. MaxTime + Duration
      /\ rowDate >= row.expires /\ rowDate =< date
      /\ (row.exists => rowDate = date)
  BY <1>2 DEF RecentInv, RowOK, TypeOK
<1>4. extended \in CachedSessions /\ extended.data = copy[r].data
      /\ extended.expires = date
  BY <1>2, <1>3, ExpiresTyped
<1> HIDE DEF rowDate, extended
<1>5. /\ row' \in [exists: BOOLEAN, expires: 1 .. MaxTime + Duration, data: Versions]
      /\ row'.data = row.data /\ row'.expires = rowDate /\ row'.exists = row.exists
  BY <1>1, <1>3, RowTyped DEF RecentInv
<1>6. TypeOK'
  BY <1>1, <1>4, <1>5 DEF RecentInv, TypeOK
<1>7. RowStep /\ RowOK'
  <2>1. row.data \in Nat
    BY DEF RecentInv, TypeOK, Versions
  <2>2. RowStep
    BY <1>1, <1>2, <1>3, <1>5, <2>1 DEF RowStep
  <2>3. RowOK'
    BY <1>1, <1>3, <1>5 DEF RecentInv, RowOK
  <2> QED
    BY <2>2, <2>3
<1>8. \A q \in Requests \ {r} : SameRequest(q)
  BY <1>1, OthersSame DEF RecentInv, TypeOK
<1>9. RequestOK(r)'
  <2>1. pc'[r] = "store" /\ copy'[r] = extended
    BY <1>1 DEF RecentInv, TypeOK
  <2>2. InTime(r) /\ HasReadOK(r) /\ copy[r].data =< row.data
    BY <1>1 DEF RecentInv, RequestOK
  <2>3. Backs(row', lastSetter', begun[r])
    BY <1>2, <1>3, <1>5, <2>2 DEF Backs, InTime
  <2>4. HasReadOK(r)'
    BY <1>1, <1>2, <1>4, <2>1, <2>2, <2>3 DEF HasReadOK
  <2> QED
    BY <1>1, <1>4, <1>5, <2>1, <2>2, <2>4 DEF RequestOK, InTime
<1> QED
  BY <1>1, <1>6, <1>7, <1>8, <1>9, StepKeeps

LEMMA SerializedTyped ==
  ASSUME TypeOK, NEW e \in CachedSessions
  PROVE  /\ Serialized(e) \in CachedSessions
         /\ Serialized(e).staleAt = now + TTL
         /\ Serialized(e).data = e.data
BY DEF Serialized, CachedSessions, TypeOK

LEMMA StoreInv ==
  ASSUME RecentInv, NEW r \in Requests, Store(r)
  PROVE  RecentInv'
<1>0. PICK entry \in CachedSessions : entry = Serialized(copy[r])
  BY SerializedTyped DEF RecentInv, TypeOK
<1>1. /\ row' = row /\ replaced' = replaced /\ lastSetter' = lastSetter /\ now' = now
      /\ begun' = begun /\ change' = change
      /\ lastServed' = now
      /\ pc[r] = "store"
      /\ pc' = [pc EXCEPT ![r] = "served"]
      /\ copy' = [copy EXCEPT ![r] = entry]
      /\ cache' \in {entry, cache}
      /\ late' \in {late, late \cup {entry}}
  BY <1>0 DEF Store, Put
<1>2. /\ Delay \in Nat /\ now \in Nat /\ TTL \in Nat /\ begun[r] \in Nat
      /\ row.expires \in Nat /\ Duration \in Nat /\ lastSetter \in Nat
      /\ \A v \in Versions : replaced[v] \in Nat
  BY Numbers DEF RecentInv, TypeOK
<1>3. InTime(r) /\ HasReadOK(r) /\ copy[r].data =< row.data
  BY <1>1 DEF RecentInv, RequestOK
<1>4. /\ entry.staleAt = now + TTL
      /\ entry.data = copy[r].data
      /\ copy[r].data \in Versions
  <2>1. copy[r] \in CachedSessions
    BY DEF RecentInv, TypeOK
  <2>2. copy[r].data \in Versions
    BY <1>3, CopyTyped DEF HasReadOK
  <2> QED
    BY <1>0, <2>1, <2>2, SerializedTyped DEF RecentInv
<1>5. TypeOK'
  BY <1>1 DEF RecentInv, TypeOK
<1>6. RowStep /\ RowOK'
  BY <1>1, StillRow DEF RecentInv
<1>7. \A q \in Requests \ {r} : SameRequest(q)
  BY <1>1, OthersSame DEF RecentInv, TypeOK
<1>8. replaced[copy[r].data] # 0 => begun[r] =< replaced[copy[r].data]
  BY <1>3 DEF HasReadOK
<1>9. Backs(row, lastSetter, now - Delay)
  BY <1>1, <1>2, <1>3 DEF HasReadOK, InTime, Backs
<1>10. EntryOK(entry)'
  <2>1. ReadFor(now + TTL) = now - Delay
    BY <1>2 DEF ReadFor
  <2>2. Backs(row, lastSetter, ReadFor(entry.staleAt))
    BY <1>4, <1>9, <2>1
  <2>3. replaced[entry.data] # 0 => entry.staleAt =< replaced[entry.data] + TTL + Delay
    BY <1>2, <1>3, <1>4, <1>8 DEF InTime
  <2> QED
    BY <1>1, <1>2, <1>3, <1>4, <2>2, <2>3 DEF EntryOK
<1>11. EntryOK(cache)' \/ cache' = cache
  <2>1. \A e : e = cache' /\ EntryOK(e)' => EntryOK(cache)'
    BY DEF EntryOK
  <2> QED
    BY <1>1, <1>10, <2>1
<1>12. \A e \in late' : EntryOK(e)' \/ e \in late
  BY <1>1, <1>10
<1>13. RequestOK(r)'
  <2>1. pc'[r] = "served" /\ copy'[r] = entry
    BY <1>1 DEF RecentInv, TypeOK
  <2>2. ServedRecently(r)'
    BY <1>1, <1>2, <1>3, <1>4, <1>8, <2>1 DEF ServedRecently, HasReadOK
  <2> QED
    BY <1>1, <1>3, <1>4, <2>1, <2>2 DEF RequestOK, InTime
<1>14. LastServedOK'
  <2>1. Backs(row, lastSetter, ReadFor(now))
    BY <1>2, <1>9 DEF Backs, ReadFor
  <2> QED
    BY <1>1, <1>2, <2>1 DEF LastServedOK
<1> QED
  BY <1>1, <1>5, <1>6, <1>7, <1>11, <1>12, <1>13, <1>14, StepKeeps

LEMMA ReturnInv ==
  ASSUME RecentInv, NEW r \in Requests, Return(r)
  PROVE  RecentInv'
<1>1. /\ row' = row /\ replaced' = replaced /\ lastSetter' = lastSetter /\ now' = now
      /\ cache' = cache /\ late' = late /\ lastServed' = lastServed
      /\ change' = change
      /\ pc' = [pc EXCEPT ![r] = "idle"]
      /\ copy' = [copy EXCEPT ![r] = Nothing]
      /\ begun' = [begun EXCEPT ![r] = 0]
  BY DEF Return
<1>2. Nothing \in CachedSessions /\ Nothing.data = 0
  BY DEF Nothing, CachedSessions
<1>3. TypeOK'
  BY <1>1, <1>2 DEF RecentInv, TypeOK
<1>4. RowStep /\ RowOK'
  BY <1>1, StillRow DEF RecentInv
<1>5. \A q \in Requests \ {r} : SameRequest(q)
  BY <1>1, OthersSame DEF RecentInv, TypeOK
<1>6. RequestOK(r)'
  BY <1>1, <1>2, Numbers DEF RecentInv, RequestOK, TypeOK
<1> QED
  BY <1>1, <1>3, <1>4, <1>5, <1>6, StepKeeps

LEMMA ReadAgainInv ==
  ASSUME RecentInv, NEW r \in Requests, ReadAgain(r)
  PROVE  RecentInv'
<1>1. /\ row' = row /\ replaced' = replaced /\ lastSetter' = lastSetter /\ now' = now
      /\ cache' = cache /\ late' = late /\ lastServed' = lastServed
      /\ change' = change
      /\ begun' = [begun EXCEPT ![r] = now]
  BY DEF ReadAgain
<1>2. TypeOK'
  BY <1>1, AsReadTyped DEF ReadAgain, RecentInv, TypeOK
<1>3. RowStep /\ RowOK'
  BY <1>1, StillRow DEF RecentInv
<1>4. \A q \in Requests \ {r} : SameRequest(q)
  BY <1>1, OthersSame DEF ReadAgain, RecentInv, TypeOK
<1>5. Delay \in Nat /\ now \in Nat /\ begun'[r] = now
  BY <1>1, Numbers DEF RecentInv, TypeOK
<1>6. RequestOK(r)'
  <2>1. CASE row.exists
    <3>1. /\ copy'[r].data = row.data /\ copy'[r].expires = row.expires
          /\ pc'[r] = "save"
          /\ row.data \in Versions /\ row.data # 0
          /\ row.expires \in Nat \ {0}
      BY <2>1, AsReadTyped DEF ReadAgain, RecentInv, TypeOK
    <3>2. replaced[row.data] = 0 /\ row.expires =< now + Duration
      BY <2>1 DEF RecentInv, RowOK
    <3>3. HasReadOK(r)'
      BY <1>1, <3>1, <3>2 DEF HasReadOK
    <3> QED
      BY <1>1, <1>5, <3>1, <3>3 DEF RequestOK, InTime, Versions
  <2>2. CASE ~row.exists
    <3>1. pc'[r] = "refused" /\ copy'[r] = copy[r]
      BY <2>2 DEF ReadAgain, RecentInv, TypeOK
    <3> QED
      BY <1>1, <1>5, <3>1 DEF RecentInv, RequestOK, InTime
  <2> QED
    BY <2>1, <2>2
<1> QED
  BY <1>1, <1>2, <1>3, <1>4, <1>6, StepKeeps

LEMMA SaveInv ==
  ASSUME RecentInv, NEW r \in Requests, Save(r)
  PROVE  RecentInv'
<1> DEFINE date == copy[r].expires
<1>1. /\ now' = now /\ cache' = cache /\ late' = late /\ lastServed' = lastServed
      /\ begun' = begun /\ change' = change /\ copy' = copy
      /\ lastSetter' = now
      /\ pc[r] = "save"
      /\ pc' = [pc EXCEPT ![r] = "store"]
      /\ row' = [row EXCEPT !.exists = TRUE, !.expires = date]
      /\ replaced' = [replaced EXCEPT ![row.data] = 0]
  BY DEF Save
<1>2. InTime(r) /\ HasReadOK(r) /\ copy[r].data =< row.data
  BY <1>1 DEF RecentInv, RequestOK
<1>3. date \in 1 .. MaxTime + Duration /\ date =< now + Duration
  <2>1. date \in 0 .. MaxTime + Duration
    BY EntryTyped DEF RecentInv, TypeOK
  <2> QED
    BY <1>2, <2>1 DEF HasReadOK
<1> HIDE DEF date
<1>4. /\ row' \in [exists: BOOLEAN, expires: 1 .. MaxTime + Duration, data: Versions]
      /\ row'.data = row.data /\ row'.expires = date
  BY <1>1, <1>3, RowTyped DEF RecentInv
<1>5. TypeOK'
  BY <1>1, <1>4 DEF RecentInv, TypeOK
<1>6. \A v \in Versions : replaced'[v] = IF v = row.data THEN 0 ELSE replaced[v]
  BY <1>1 DEF RecentInv, TypeOK
<1>7. RowStep /\ RowOK'
  <2>1. row.data \in Nat /\ row.data \in Versions /\ now \in Nat
    BY DEF RecentInv, TypeOK, Versions
  <2>2. RowStep
    BY <1>1, <1>4, <1>6, <2>1 DEF RowStep
  <2>3. RowOK'
    BY <1>1, <1>3, <1>4, <1>6, <2>1 DEF RecentInv, RowOK
  <2> QED
    BY <2>2, <2>3
<1>8. \A q \in Requests \ {r} : SameRequest(q)
  BY <1>1, OthersSame DEF RecentInv, TypeOK
<1>9. RequestOK(r)'
  <2>1. pc'[r] = "store"
    BY <1>1 DEF RecentInv, TypeOK
  <2>2. now \in Nat /\ begun[r] \in Nat
    BY DEF RecentInv, TypeOK
  <2>3. Backs(row', lastSetter', begun[r])
    BY <1>1, <1>2, <2>2 DEF Backs, InTime
  <2>4. copy[r].data \in Versions
    BY <1>2, CopyTyped DEF HasReadOK
  <2>5. HasReadOK(r)'
    BY <1>1, <1>2, <1>6, <2>1, <2>3, <2>4 DEF HasReadOK
  <2> QED
    BY <1>1, <1>2, <1>4, <2>1, <2>5 DEF RequestOK, InTime
<1> QED
  BY <1>1, <1>5, <1>7, <1>8, <1>9, StepKeeps

-----------------------------------------------------------------------------
(* What happens to the row, the cache and the clock meanwhile. *)

(* No request is concerned. *)
LEMMA RequestsSame ==
  ASSUME RecentInv, UNCHANGED <<now, pc, copy, begun>>
  PROVE  \A r \in Requests : SameRequest(r)
BY DEF RecentInv, RequestOK, InTime, SameRequest

LEMMA CommitInv ==
  ASSUME RecentInv, Commit
  PROVE  RecentInv'
<1>1. /\ change # "none" /\ change' = "none"
      /\ UNCHANGED <<now, cache, late, pc, copy, begun, lastServed, lastSetter>>
      /\ replaced' = IF row.exists THEN [replaced EXCEPT ![row.data] = now]
                     ELSE replaced
  BY DEF Commit
<1>2. /\ row.data \in Versions /\ row.expires \in Nat /\ now \in 1 .. MaxTime
      /\ lastSetter \in Nat
  BY DEF RecentInv, TypeOK
<1>3. /\ row' \in [exists: BOOLEAN, expires: 1 .. MaxTime + Duration, data: Versions]
      /\ row'.expires = row.expires
      /\ \/ row'.data = row.data + 1 /\ row'.exists = row.exists
         \/ row'.data = row.data /\ ~row'.exists
  <2>1. CASE change = "roles"
    <3>1. row.data + 1 \in Versions
      BY <1>2, <2>1 DEF RecentInv, ChangeOK, Versions
    <3>2. row' = [row EXCEPT !.data = row.data + 1]
      BY <2>1 DEF Commit
    <3> QED
      BY <3>1, <3>2 DEF RecentInv, TypeOK
  <2>2. CASE change # "roles"
    <3>1. row' = [row EXCEPT !.exists = FALSE]
      BY <2>2 DEF Commit
    <3> QED
      BY <3>1 DEF RecentInv, TypeOK
  <2> QED
    BY <2>1, <2>2
<1>4. /\ replaced' \in [Versions -> 0 .. MaxTime]
      /\ \A v \in Versions :
           replaced'[v] = IF row.exists /\ v = row.data THEN now ELSE replaced[v]
  BY <1>1, <1>2 DEF RecentInv, TypeOK
<1>5. TypeOK'
  BY <1>1, <1>3, <1>4 DEF RecentInv, TypeOK
<1>6. RowOK'
  <2>1. \A v \in Versions : v > row'.data => replaced'[v] = 0
    BY <1>2, <1>3, <1>4 DEF RecentInv, RowOK, Versions
  <2>2. ASSUME row'.exists
        PROVE  replaced'[row'.data] = 0
    <3> DEFINE v == row'.data
    <3>1. v \in Versions
      BY <1>5 DEF TypeOK
    <3>2. v = row.data + 1
      BY <1>3, <2>2
    <3> HIDE DEF v
    <3>3. v > row.data /\ v # row.data
      BY <1>2, <3>2 DEF Versions
    <3>4. replaced[v] = 0
      BY <3>1, <3>3 DEF RecentInv, RowOK
    <3>5. replaced'[v] = 0
      BY <1>4, <3>1, <3>3, <3>4
    <3> QED
      BY <3>5 DEF v
  <2> QED
    BY <1>1, <1>3, <2>1, <2>2 DEF RecentInv, RowOK
<1>7. RowStep
  BY <1>1, <1>2, <1>3, <1>4 DEF RowStep, Versions
<1>8. \A r \in Requests : SameRequest(r)
  BY <1>1, RequestsSame
<1> QED
  BY <1>1, <1>5, <1>6, <1>7, <1>8, StepKeeps DEF ChangeOK

(* The row, the clock and the requests are left alone. *)
LEMMA CacheStepInv ==
  ASSUME RecentInv, UNCHANGED <<now, row, replaced, pc, copy, begun, lastServed, lastSetter>>,
         cache' \in {cache, Nothing} \cup late,
         late' \subseteq late,
         change' \in {"none", "roles", "remove"},
         change' = change \/ ChangeOK'
  PROVE  RecentInv'
<1>1. TypeOK'
  BY NothingTyped DEF RecentInv, TypeOK
<1>2. RowStep /\ RowOK'
  BY StillRow DEF RecentInv
<1>3. \A r \in Requests : SameRequest(r)
  BY RequestsSame
<1> QED
  BY <1>1, <1>2, <1>3, StepKeeps

LEMMA TickInv ==
  ASSUME RecentInv, Tick
  PROVE  RecentInv'
<1>1. /\ now < MaxTime
      /\ \A r \in Requests : pc[r] # "idle" => now + 1 < begun[r] + Latency
      /\ now' = now + 1
      /\ UNCHANGED <<row, change, replaced, cache, late, pc, copy, begun, lastServed,
                     lastSetter>>
  BY DEF Tick
<1>2. now \in 1 .. MaxTime /\ row.expires \in Nat /\ lastSetter \in Nat
      /\ row.data \in Nat
  BY DEF RecentInv, TypeOK, Versions
<1>3. TypeOK'
  BY <1>1, <1>2 DEF RecentInv, TypeOK
<1>4. RowOK'
  BY <1>1, <1>2 DEF RecentInv, RowOK
<1>5. RowStep
  BY <1>1, <1>2 DEF RowStep
<1>6. \A r \in Requests : SameRequest(r)
  <2>1. \A r \in Requests : begun[r] \in Nat
    BY DEF RecentInv, TypeOK
  <2> QED
    BY <1>1, <1>2, <2>1 DEF SameRequest, Delay
<1> QED
  BY <1>1, <1>3, <1>4, <1>5, <1>6, StepKeeps

-----------------------------------------------------------------------------
LEMMA InitRecent == Init => RecentInv
<1> SUFFICES ASSUME Init PROVE RecentInv
  OBVIOUS
<1>1. PICK left \in 1 .. Duration : row = [exists |-> TRUE, expires |-> now + left, data |-> 1]
  BY DEF Init
<1>2. now = 1 /\ lastSetter = 0 /\ lastServed = 0 /\ change = "none"
      /\ cache = Nothing /\ late = {}
  BY DEF Init
<1>3. row \in [exists: BOOLEAN, expires: 1 .. MaxTime + Duration, data: Versions]
      /\ row.data = 1 /\ row.expires =< now + Duration
  BY <1>1, <1>2 DEF Versions
<1>4. Nothing \in CachedSessions /\ Nothing.data = 0
  BY DEF Nothing, CachedSessions
<1>5. TypeOK
  BY <1>2, <1>3, <1>4 DEF Init, TypeOK, Versions
<1>6. RowOK /\ ChangeOK
  BY <1>2, <1>3 DEF Init, RowOK, ChangeOK, Versions
<1>7. EntryOK(cache)
  BY <1>2, <1>5, NothingTyped
<1>8. \A r \in Requests : RequestOK(r)
  BY <1>3, <1>4 DEF Init, RequestOK
<1>9. LastServedOK
  BY <1>2 DEF LastServedOK, Backs, ReadFor, Delay
<1> QED
  BY <1>2, <1>5, <1>6, <1>7, <1>8, <1>9 DEF RecentInv

LEMMA NextRecent == RecentInv /\ [Next]_vars => RecentInv'
<1> SUFFICES ASSUME RecentInv, [Next]_vars
             PROVE  RecentInv'
  OBVIOUS
<1>1. ASSUME NEW r \in Requests, RequestStep(r)
      PROVE  RecentInv'
  BY <1>1, LookupInv, FindInv, ExtendInv, StoreInv, ReturnInv, ReadAgainInv, SaveInv
     DEF RequestStep
<1>2. ASSUME NEW kind \in {"roles", "remove"}, BeginChange(kind)
      PROVE  RecentInv'
  BY <1>2, CacheStepInv DEF BeginChange, ChangeOK
<1>3. CASE Commit
  BY <1>3, CommitInv
<1>4. CASE Rollback
  BY <1>4, CacheStepInv DEF Rollback, ChangeOK
<1>5. ASSUME NEW e \in late, ArriveLate(e)
      PROVE  RecentInv'
  BY <1>5, CacheStepInv DEF ArriveLate, RecentInv, TypeOK
<1>6. CASE Evict
  BY <1>6, CacheStepInv DEF Evict, RecentInv, TypeOK
<1>7. CASE Tick
  BY <1>7, TickInv
<1>8. CASE UNCHANGED vars
  BY <1>8, CacheStepInv DEF vars, RecentInv, TypeOK
<1> QED
  BY <1>1, <1>2, <1>3, <1>4, <1>5, <1>6, <1>7, <1>8 DEF Next

LEMMA RecentInvariant == Spec => []RecentInv
BY InitRecent, NextRecent, PTL DEF Spec

(* The session's row, its copies in the cache, late writes and the requests
   always have their types: saving a row that was read before keeps its expiry
   date within the duration. *)
THEOREM SessionTyped == Spec => []TypeOK
<1>1. RecentInv => TypeOK
  BY DEF RecentInv
<1> QED
  BY <1>1, RecentInvariant, PTL

(* getSessionFromToken serves nothing that was replaced, or removed, longer ago
   than the TTL and the time that two calls take. *)
THEOREM ServedIsRecentHolds == Spec => []ServedIsRecent
<1>1. RecentInv => ServedIsRecent
  <2> SUFFICES ASSUME RecentInv, NEW r \in Requests,
                      pc[r] = "served", replaced[copy[r].data] # 0
               PROVE  now =< replaced[copy[r].data] + TTL + 2 * (Latency - 1)
    BY DEF ServedIsRecent
  <2>1. InTime(r) /\ ServedRecently(r)
    BY DEF RecentInv, RequestOK
  <2>2. copy[r].data \in Versions
    BY <2>1, CopyTyped DEF ServedRecently
  <2>3. replaced[copy[r].data] \in Nat /\ now \in Nat /\ begun[r] \in Nat
    BY <2>2 DEF RecentInv, TypeOK
  <2> QED
    BY <2>1, <2>3 DEF InTime, ServedRecently, Delay
<1> QED
  BY <1>1, RecentInvariant, PTL

(* findSessionByToken refuses as expired no session that was served within half
   its duration, less the TTL and the latency, unless a setter saved it. *)
THEOREM InUseIsExtendedHolds == Spec => InUseIsExtended
<1> DEFINE Extended ==
      \A r \in Requests :
        /\ pc[r] = "find" /\ pc'[r] = "refused" /\ row.exists
        /\ lastServed > lastSetter + TTL + Latency - 1
        => 2 * (now + TTL + Latency - 1) >= 2 * lastServed + Duration
<1>1. RecentInv /\ [Next]_vars => [Extended]_vars
  <2> SUFFICES ASSUME RecentInv, Next, NEW r \in Requests,
                      pc[r] = "find", pc'[r] = "refused", row.exists,
                      lastServed > lastSetter + TTL + Latency - 1
               PROVE  2 * (now + TTL + Latency - 1) >= 2 * lastServed + Duration
    OBVIOUS
  <2>1. Find(r)
    <3>1. \E q \in Requests : RequestStep(q)
      BY DEF Next, BeginChange, Commit, Rollback, ArriveLate, Evict, Tick
    <3>2. PICK q \in Requests : RequestStep(q)
      BY <3>1
    <3>3. q # r => pc'[r] = pc[r]
      BY <3>2 DEF RequestStep, Lookup, Find, Extend, Store, Return, ReadAgain, Save,
                  RecentInv, TypeOK
    <3> QED
      BY <3>2, <3>3 DEF RequestStep, Lookup, Extend, Store, Return, ReadAgain, Save
  <2>2. row.expires =< now
    BY <2>1 DEF Find, RecentInv, TypeOK
  <2>3. row.expires \in Nat /\ now \in Nat /\ lastServed \in Nat /\ lastSetter \in Nat
    BY DEF RecentInv, TypeOK
  <2>4. Backs(row, lastSetter, lastServed - TTL - Delay)
    BY DEF RecentInv, LastServedOK, ReadFor
  <2> QED
    BY <2>2, <2>3, <2>4 DEF Backs, Delay
<1>2. Spec => [][Extended]_vars
  BY <1>1, RecentInvariant, PTL DEF Spec
<1> QED
  BY <1>2 DEF InUseIsExtended

=============================================================================
