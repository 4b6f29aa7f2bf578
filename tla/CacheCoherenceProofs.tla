------------------------- MODULE CacheCoherenceProofs -------------------------
(***************************************************************************)
(* Machine-checked proofs about CacheCoherence, for any number of readers, *)
(* relays, changes and faults, as long as Redis Cache keeps its epoch key. *)
(***************************************************************************)
EXTENDS CacheCoherence, FiniteSetTheorems, WellFoundedInduction, TLAPS

USE CacheAssumption

-----------------------------------------------------------------------------
(***************************************************************************)
(* The newest published change.                                            *)
(***************************************************************************)
\* A nonempty set of changes that have been made has a newest one: the least
\* distance to the newest change of all is attained.
LEMMA NewestChange ==
  ASSUME NEW n \in Nat, NEW S \in SUBSET (0..n), S # {}
  PROVE  \E v \in S : \A w \in S : w <= v
<1> DEFINE D == {n - v : v \in S}
<1>1. D \in SUBSET Nat /\ D # {}
  <2>1. \A v \in S : v \in 0..n /\ n - v \in Nat
    OBVIOUS
  <2> QED BY <2>1
<1>2. \E d \in D : \A c \in D : ~ (<<c, d>> \in OpToRel(<, Nat))
  BY <1>1, NatLessThanWellFounded, WFMin
<1>3. PICK v \in S : \A c \in D : ~ (<<c, n - v>> \in OpToRel(<, Nat))
  BY <1>2
<1>4. \A w \in S : w <= v
  <2> SUFFICES ASSUME NEW w \in S, ~ (w <= v) PROVE FALSE
    OBVIOUS
  <2>1. n - w \in D /\ n - w \in Nat /\ n - v \in Nat /\ n - w < n - v
    OBVIOUS
  <2> QED BY <2>1, <1>3 DEF OpToRel
<1> QED BY <1>4

LEMMA LastPublishedIsNewest ==
  ASSUME db \in Nat
  PROVE  /\ LastPublished \in Published \cup {0}
         /\ LastPublished \in 0..db
         /\ \A w \in Published : w <= LastPublished
<1>1. Published \cup {0} \in SUBSET (0..db) /\ Published \cup {0} # {}
  BY DEF Published
<1>2. \E v \in Published \cup {0} : \A w \in Published : w <= v
  BY <1>1, NewestChange
<1> QED BY <1>1, <1>2 DEF LastPublished

-----------------------------------------------------------------------------
(***************************************************************************)
(* Types.                                                                  *)
(***************************************************************************)
\* What a relay holds are existing rows, none of them postponed nor held by another.
RelaysHoldRows ==
  \A l \in Relays :
    /\ relayRows[l] \subseteq 1..db
    /\ relayRows[l] \cap postponed = {}
    /\ \A k \in Relays : k # l => relayRows[k] \cap relayRows[l] = {}
    /\ relayPc[l] = "selected" => relayRows[l] # {}

\* A follower has reads left.
FollowersHaveReadsLeft ==
  \A r \in Requests : /\ pc[r] \in {"start", "missed"} => tries[r] = 0
                      /\ pc[r] = "follower" => tries[r] < FollowerAttempts

Typed == TypeOK /\ RelaysHoldRows /\ FollowersHaveReadsLeft

LEMMA SelectedRowsAreDue ==
  ASSUME Typed, NEW l \in Relays, SelectRows(l)
  PROVE  \E S \in SUBSET Due :
           /\ S # {} /\ S \subseteq 1..db /\ S \cap postponed = {}
           /\ \A k \in Relays : relayRows[k] \cap S = {}
           /\ relayRows' = [relayRows EXCEPT ![l] = S]
<1>1. \A S \in SUBSET Due : S \subseteq 1..db /\ S \cap postponed = {}
  BY DEF Due, Typed, TypeOK
<1>2. \A S \in SUBSET Due, k \in Relays : relayRows[k] \cap S = {}
  BY DEF Due, LockedRows
<1>3. \E S \in SUBSET Due : S # {} /\ relayRows' = [relayRows EXCEPT ![l] = S]
  BY DEF SelectRows
<1> QED BY <1>1, <1>2, <1>3

\* INCRBY adds at least one.
LEMMA IncrementIsPositive ==
  ASSUME Typed, NEW l \in Relays, relayPc[l] = "selected",
         epoch + Cardinality(relayRows[l]) <= MaxEpoch
  PROVE  /\ epoch + Cardinality(relayRows[l]) \in Epochs
         /\ epoch < epoch + Cardinality(relayRows[l])
<1>1. db \in Nat /\ epoch \in Nat
  BY DEF Typed, TypeOK, Version, Epochs
<1>2. IsFiniteSet(1..db)
  BY <1>1, FS_Interval
<1>3. IsFiniteSet(relayRows[l])
  BY <1>2, FS_Subset DEF Typed, RelaysHoldRows
<1>4. Cardinality(relayRows[l]) \in Nat /\ Cardinality(relayRows[l]) # 0
  BY <1>3, FS_CardinalityType, FS_EmptySet DEF Typed, RelaysHoldRows
<1> QED BY <1>1, <1>4 DEF Epochs

LEMMA FaultIsTyped == ASSUME Typed, Fault PROVE faults' \in 0..MaxFaults
BY DEF Typed, TypeOK, Fault

\* The steps of orders and relays.
LEMMA RelayKeepsTypes ==
  ASSUME Typed,
         \/ CommitOrder
         \/ \E row \in Rows : BecomeDue(row)
         \/ \E l \in Relays : Flush(l) \/ FlushFails(l) \/ RelayCrashes(l)
  PROVE  Typed'
<1> USE DEF Typed, TypeOK, RelaysHoldRows, FollowersHaveReadsLeft, Version, Rows
<1>1. CASE CommitOrder
  BY <1>1 DEF CommitOrder, redis, relay, reads
<1>2. ASSUME NEW row \in Rows, BecomeDue(row) PROVE Typed'
  BY <1>2 DEF BecomeDue, redis, relay, reads
<1>3. ASSUME NEW l \in Relays, SelectRows(l) PROVE Typed'
  <2>1. PICK S \in SUBSET (1..db) :
          /\ S # {} /\ S \cap postponed = {}
          /\ \A k \in Relays : relayRows[k] \cap S = {}
          /\ relayRows' = [relayRows EXCEPT ![l] = S]
    BY <1>3, SelectedRowsAreDue
  <2>2. relayPc' = [relayPc EXCEPT ![l] = "selected"] /\ UNCHANGED <<store, redis, reads, faults>>
    BY <1>3 DEF SelectRows
  <2>3. 1..db \subseteq 1..MaxWrites
    OBVIOUS
  <2>4. TypeOK'
    BY <2>1, <2>2, <2>3 DEF store, redis, reads
  <2>5. RelaysHoldRows'
    BY <2>1, <2>2 DEF store
  <2>6. FollowersHaveReadsLeft'
    BY <2>2 DEF reads
  <2> QED BY <2>4, <2>5, <2>6
<1>4. ASSUME NEW l \in Relays, BumpEpoch(l) PROVE Typed'
  BY <1>4, IncrementIsPositive DEF BumpEpoch, store, reads
<1>5. ASSUME NEW l \in Relays, PublishRows(l) PROVE Typed'
  BY <1>5 DEF PublishRows, redis, reads
<1>6. ASSUME NEW l \in Relays, FlushFails(l) PROVE Typed'
  <2>1. epoch' \in Epochs
    BY <1>6, IncrementIsPositive DEF FlushFails
  <2> QED BY <1>6, <2>1, FaultIsTyped DEF FlushFails, reads
<1>7. ASSUME NEW l \in Relays, RelayCrashes(l) PROVE Typed'
  BY <1>7, FaultIsTyped DEF RelayCrashes, store, redis, reads
<1> QED BY <1>1, <1>2, <1>3, <1>4, <1>5, <1>6, <1>7 DEF Flush

\* The steps of a request.
LEMMA ServiceKeepsTypes ==
  ASSUME Typed, NEW r \in Requests, Serve(r)
  PROVE  Typed'
<1> USE DEF Typed, TypeOK, RelaysHoldRows, FollowersHaveReadsLeft, Version, NoPage, store, redis, relay, Goto, Answered
<1>1. CASE Read(r)
  BY <1>1, LastPublishedIsNewest DEF Read
<1>2. CASE AcquireFill(r)
  BY <1>2 DEF AcquireFill
<1>3. CASE Follow(r)
  <2>1. tries' = [tries EXCEPT ![r] = tries[r] + 1]
    BY <1>3 DEF Follow
  <2>2. tries' \in [Requests -> 0..FollowerAttempts]
    BY <1>3, <2>1 DEF Follow
  <2>3. CASE page[epoch] # NoPage /\ Answered(r, page[epoch])
    BY <1>3, <2>1, <2>2, <2>3 DEF Follow
  <2>4. CASE page[epoch] = NoPage
    <3>1. UNCHANGED answer /\ (Goto(r, "fallback") \/ (Goto(r, "follower") /\ tries'[r] # FollowerAttempts))
      BY <1>3, <2>4 DEF Follow
    <3> QED BY <1>3, <3>1, <2>1, <2>2 DEF Follow
  <2> QED BY <1>3, <2>3, <2>4 DEF Follow
<1>4. CASE LoadAsWinner(r)
  BY <1>4 DEF LoadAsWinner
<1>5. CASE Write(r)
  BY <1>5 DEF Write, WriteIfCurrent
<1>6. CASE Release(r)
  BY <1>6 DEF Release
<1>7. CASE LoadAsFallback(r)
  BY <1>7 DEF LoadAsFallback
<1> QED BY <1>1, <1>2, <1>3, <1>4, <1>5, <1>6, <1>7 DEF Serve

LEMMA FaultyServiceKeepsTypes ==
  ASSUME Typed, NEW r \in Requests, RequestFault(r)
  PROVE  Typed'
<1> USE DEF Typed, TypeOK, RelaysHoldRows, FollowersHaveReadsLeft, Version, store, redis, relay, Goto
<1>1. CASE CacheReadFails(r)
  BY <1>1, FaultIsTyped, LastPublishedIsNewest DEF CacheReadFails
<1>2. CASE CacheWriteFails(r)
  BY <1>2, FaultIsTyped DEF CacheWriteFails, WriteIfCurrent
<1>3. CASE ReleaseFails(r)
  BY <1>3, FaultIsTyped DEF ReleaseFails
<1>4. CASE LoadFails(r)
  BY <1>4, FaultIsTyped DEF LoadFails
<1>5. CASE RequestCrashes(r)
  BY <1>5, FaultIsTyped DEF RequestCrashes
<1> QED BY <1>1, <1>2, <1>3, <1>4, <1>5 DEF RequestFault

LEMMA RedisKeepsTypes ==
  ASSUME Typed, (\E e \in Epochs : DropPage(e) \/ DropFill(e)) \/ EvictEpoch \/ CacheRestarts
  PROVE  Typed'
<1> USE DEF Typed, TypeOK, RelaysHoldRows, FollowersHaveReadsLeft, NoPage, store, relay, reads
<1>1. ASSUME NEW e \in Epochs, DropPage(e) PROVE Typed'
  BY <1>1 DEF DropPage
<1>2. ASSUME NEW e \in Epochs, DropFill(e) PROVE Typed'
  BY <1>2 DEF DropFill
<1>3. 0 \in Epochs
  BY DEF Epochs
<1>4. CASE EvictEpoch
  BY <1>4, <1>3, FaultIsTyped DEF EvictEpoch
<1>5. CASE CacheRestarts
  BY <1>5, <1>3, FaultIsTyped DEF CacheRestarts
<1> QED BY <1>1, <1>2, <1>4, <1>5

LEMMA NextKeepsTypes == Typed /\ [Next]_vars => Typed'
<1>1. Typed /\ Next => Typed'
  BY RelayKeepsTypes, ServiceKeepsTypes, FaultyServiceKeepsTypes, RedisKeepsTypes DEF Next
<1>2. Typed /\ UNCHANGED vars => Typed'
  BY DEF Typed, TypeOK, RelaysHoldRows, FollowersHaveReadsLeft, vars, store, redis, relay, reads
<1> QED BY <1>1, <1>2

LEMMA InitIsTyped == Init => Typed
BY DEF Init, Typed, TypeOK, RelaysHoldRows, FollowersHaveReadsLeft, Version, Epochs, NoPage

\* Outbox, epoch, pages, claims and requests keep their types; in particular the
\* epoch only counts up to its bound and a follower reads a bounded number of times.
THEOREM CacheIsTyped == Spec => []TypeOK
<1>1. Typed => TypeOK
  BY DEF Typed
<1> QED BY <1>1, InitIsTyped, NextKeepsTypes, PTL DEF Spec

-----------------------------------------------------------------------------
(***************************************************************************)
(* Pages and fills against invalidations.                                  *)
(***************************************************************************)
\* Changes that are published or whose increment has been made: once announced,
\* a change may be published at any moment without another increment.
Announced ==
  Published \cup UNION {relayRows[l] : l \in {k \in Relays : relayPc[k] = "bumped"}}

\* Nothing lies ahead of the epoch, and what is in the page of the epoch, or will
\* be written into it, shows every announced change.
Coherent ==
  /\ \A r \in Requests : sawEpoch[r] <= epoch
  /\ \A e \in Epochs : e > epoch => page[e] = NoPage
  /\ \A v \in Announced : page[epoch] # NoPage => v <= page[epoch]
  /\ \A r \in Requests, v \in Announced :
       pc[r] = "loaded" /\ sawEpoch[r] = epoch => v <= data[r]

LEMMA AnnouncedWereMade ==
  ASSUME Typed
  PROVE  Announced \subseteq 1..db
BY DEF Typed, RelaysHoldRows, Announced, Published

\* A step that announces nothing and writes nothing.
LEMMA QuietStepIsCoherent ==
  ASSUME Typed, Coherent, epoch' = epoch, sawEpoch' = sawEpoch, Announced' \subseteq Announced,
         \A e \in Epochs : page'[e] = page[e] \/ page'[e] = NoPage,
         \A r \in Requests : pc'[r] = "loaded" => pc[r] = "loaded" /\ data'[r] = data[r]
  PROVE  Coherent'
<1>1. epoch \in Epochs
  BY DEF Typed, TypeOK
<1> QED BY <1>1 DEF Coherent

\* An increment leaves every page and every fill behind, whatever is announced.
LEMMA IncrementIsCoherent ==
  ASSUME Typed, Coherent, epoch' \in Epochs, epoch < epoch', UNCHANGED <<page, sawEpoch, pc>>
  PROVE  Coherent'
<1>1. epoch \in Nat /\ epoch' \in Nat
  BY DEF Typed, TypeOK, Epochs
<1>2. \A r \in Requests : sawEpoch'[r] < epoch'
  BY <1>1 DEF Typed, TypeOK, Coherent, Epochs
<1>3. \A e \in Epochs : e > epoch' => e > epoch
  BY <1>1 DEF Epochs
<1>4. \A e \in Epochs : e > epoch' => page'[e] = NoPage
  BY <1>3 DEF Coherent
<1>5. page'[epoch'] = NoPage'
  BY <1>1 DEF Coherent, NoPage
<1>6. \A r \in Requests : sawEpoch'[r] # epoch' /\ sawEpoch'[r] <= epoch'
  BY <1>1, <1>2 DEF Typed, TypeOK, Epochs
<1> QED BY <1>4, <1>5, <1>6 DEF Coherent, NoPage

LEMMA RelayIsCoherent ==
  ASSUME Typed, Coherent,
         \/ CommitOrder
         \/ \E row \in Rows : BecomeDue(row)
         \/ \E l \in Relays : Flush(l) \/ FlushFails(l) \/ RelayCrashes(l)
  PROVE  Coherent'
<1>1. CASE CommitOrder
  <2>1. Published' = Published
    BY <1>1 DEF CommitOrder, Published, Typed, TypeOK, Version
  <2> QED BY <1>1, <2>1, QuietStepIsCoherent DEF CommitOrder, Announced, redis, relay, reads
<1>2. ASSUME NEW row \in Rows, BecomeDue(row) PROVE Coherent'
  BY <1>2, QuietStepIsCoherent DEF BecomeDue, Announced, Published, redis, relay, reads
<1>3. ASSUME NEW l \in Relays, Published' \subseteq Published \cup relayRows[l],
             relayPc[l] = "bumped" \/ Published' = Published,
             relayPc' = [relayPc EXCEPT ![l] = "idle"] \/ relayPc' = [relayPc EXCEPT ![l] = "selected"],
             \A k \in Relays : k # l => relayRows'[k] = relayRows[k]
      PROVE  Announced' \subseteq Announced
  <2> SUFFICES ASSUME NEW v \in Announced', v \notin Published' PROVE v \in Announced
    BY <1>3 DEF Announced
  <2>1. PICK k \in Relays : relayPc'[k] = "bumped" /\ v \in relayRows'[k]
    BY DEF Announced
  <2>2. k # l /\ relayPc[k] = "bumped" /\ v \in relayRows[k]
    BY <1>3, <2>1 DEF Typed, TypeOK
  <2> QED BY <2>2 DEF Announced
<1>4. ASSUME NEW l \in Relays, SelectRows(l) PROVE Coherent'
  <2>1. Published' = Published
    BY <1>4 DEF SelectRows, Published, store
  <2>2. \A k \in Relays : k # l => relayRows'[k] = relayRows[k]
    BY <1>4 DEF SelectRows, Typed, TypeOK
  <2>3. Announced' \subseteq Announced
    BY <1>4, <1>3, <2>1, <2>2 DEF SelectRows
  <2> QED BY <1>4, <2>3, QuietStepIsCoherent DEF SelectRows, redis, reads
<1>5. ASSUME NEW l \in Relays, BumpEpoch(l) PROVE Coherent'
  BY <1>5, IncrementIsPositive, IncrementIsCoherent DEF BumpEpoch, reads
<1>6. ASSUME NEW l \in Relays, PublishRows(l) PROVE Coherent'
  <2>1. Published' \subseteq Published \cup relayRows[l]
    BY <1>6 DEF PublishRows, Published
  <2>2. \A k \in Relays : k # l => relayRows'[k] = relayRows[k]
    BY <1>6 DEF PublishRows, Typed, TypeOK
  <2>3. Announced' \subseteq Announced
    BY <1>6, <1>3, <2>1, <2>2 DEF PublishRows
  <2> QED BY <1>6, <2>3, QuietStepIsCoherent DEF PublishRows, redis, reads
<1>7. ASSUME NEW l \in Relays, FlushFails(l) PROVE Coherent'
  <2>1. CASE epoch' = epoch
    <3>1. Published' = Published
      BY <1>7 DEF FlushFails, Published
    <3>2. \A k \in Relays : k # l => relayRows'[k] = relayRows[k]
      BY <1>7 DEF FlushFails, Typed, TypeOK
    <3>3. Announced' \subseteq Announced
      BY <1>7, <1>3, <3>1, <3>2 DEF FlushFails
    <3> QED BY <1>7, <2>1, <3>3, QuietStepIsCoherent DEF FlushFails, reads
  <2>2. CASE epoch' # epoch
    BY <1>7, <2>2, IncrementIsPositive, IncrementIsCoherent DEF FlushFails, reads
  <2> QED BY <2>1, <2>2
<1>8. ASSUME NEW l \in Relays, RelayCrashes(l) PROVE Coherent'
  <2>1. Published' = Published
    BY <1>8 DEF RelayCrashes, Published, store
  <2>2. \A k \in Relays : k # l => relayRows'[k] = relayRows[k]
    BY <1>8 DEF RelayCrashes, Typed, TypeOK
  <2>3. Announced' \subseteq Announced
    BY <1>8, <1>3, <2>1, <2>2 DEF RelayCrashes
  <2> QED BY <1>8, <2>3, QuietStepIsCoherent DEF RelayCrashes, redis, reads
<1> QED BY <1>1, <1>2, <1>4, <1>5, <1>6, <1>7, <1>8 DEF Flush

\* The conditional write puts in only what was read after the last increment.
LEMMA WriteIsCoherent ==
  ASSUME Typed, Coherent, NEW r \in Requests, pc[r] = "loaded",
         WriteIfCurrent(r) \/ UNCHANGED page, pc' = [pc EXCEPT ![r] = "releasing"],
         UNCHANGED <<epoch, sawEpoch, data, store, relay>>
  PROVE  Coherent'
<1>1. Announced' = Announced /\ epoch \in Epochs
  BY DEF Announced, Published, store, relay, Typed, TypeOK
<1>2. \A q \in Requests : pc'[q] = "loaded" => pc[q] = "loaded"
  BY DEF Typed, TypeOK
<1>3. CASE UNCHANGED page
  BY <1>1, <1>2, <1>3, QuietStepIsCoherent
<1>4. CASE WriteIfCurrent(r) /\ epoch = sawEpoch[r]
  <2>1. page' = [page EXCEPT ![epoch] = data[r]]
    BY <1>4 DEF WriteIfCurrent
  <2>2. page'[epoch] = data[r] /\ \A e \in Epochs : e # epoch => page'[e] = page[e]
    BY <2>1, <1>1 DEF Typed, TypeOK
  <2>3. \A v \in Announced : v <= data[r]
    BY <1>4 DEF Coherent
  <2>4. \A e \in Epochs : e > epoch => page'[e] = NoPage
    BY <2>2 DEF Coherent, Typed, TypeOK, Epochs
  <2> QED BY <1>1, <1>2, <2>2, <2>3, <2>4 DEF Coherent, NoPage
<1>5. CASE WriteIfCurrent(r) /\ epoch # sawEpoch[r]
  BY <1>1, <1>2, <1>5, QuietStepIsCoherent DEF WriteIfCurrent
<1> QED BY <1>3, <1>4, <1>5

LEMMA RequestIsCoherent ==
  ASSUME Typed, Coherent, NEW r \in Requests, Serve(r) \/ RequestFault(r)
  PROVE  Coherent'
<1>1. UNCHANGED <<epoch, store, relay>> /\ epoch \in Epochs
  BY DEF Serve, RequestFault, Read, AcquireFill, Follow, LoadAsWinner, Write, Release, LoadAsFallback,
     CacheReadFails, CacheWriteFails, ReleaseFails, LoadFails, RequestCrashes, redis, Typed, TypeOK
<1>2. Announced' = Announced
  BY <1>1 DEF Announced, Published, store, relay
<1>3. ASSUME NEW to, to # "loaded", Goto(r, to), UNCHANGED <<page, sawEpoch, data>>
      PROVE  Coherent'
  <2>1. \A q \in Requests : pc'[q] = "loaded" => pc[q] = "loaded"
    BY <1>3 DEF Goto, Typed, TypeOK
  <2> QED BY <1>1, <1>2, <1>3, <2>1, QuietStepIsCoherent
<1>4. CASE Read(r)
  <2>1. CASE page[epoch] # NoPage
    BY <1>3, <1>4, <2>1 DEF Read, Answered, redis
  <2>2. CASE page[epoch] = NoPage
    <3>1. \A q \in Requests : pc'[q] = "loaded" => pc[q] = "loaded" /\ sawEpoch'[q] = sawEpoch[q]
      BY <1>4, <2>2 DEF Read, Goto, Typed, TypeOK
    <3>2. \A q \in Requests : sawEpoch'[q] <= epoch
      BY <1>1, <1>4, <2>2 DEF Read, Coherent, Typed, TypeOK, Epochs
    <3> QED BY <1>1, <1>2, <1>4, <3>1, <3>2 DEF Read, redis, Coherent
  <2> QED BY <2>1, <2>2
<1>5. CASE AcquireFill(r)
  BY <1>3, <1>5 DEF AcquireFill
<1>6. CASE Follow(r)
  BY <1>3, <1>6 DEF Follow, Answered, redis
<1>7. CASE LoadAsWinner(r)
  <2>1. \A v \in Announced : v <= db
    BY AnnouncedWereMade DEF Typed, TypeOK, Version
  <2>2. /\ data'[r] = db
        /\ \A q \in Requests : q # r => data'[q] = data[q] /\ pc'[q] = pc[q]
    BY <1>7 DEF LoadAsWinner, Goto, Typed, TypeOK
  <2> QED BY <1>1, <1>2, <1>7, <2>1, <2>2 DEF LoadAsWinner, Coherent, redis
<1>8. CASE Write(r) \/ CacheWriteFails(r)
  BY <1>1, <1>8, WriteIsCoherent DEF Write, CacheWriteFails, Goto
<1>9. CASE Release(r) \/ LoadAsFallback(r)
  BY <1>3, <1>9 DEF Release, LoadAsFallback, Answered, redis
<1>10. CASE CacheReadFails(r) \/ ReleaseFails(r) \/ LoadFails(r) \/ RequestCrashes(r)
  BY <1>3, <1>10 DEF CacheReadFails, ReleaseFails, LoadFails, RequestCrashes, redis
<1> QED BY <1>4, <1>5, <1>6, <1>7, <1>8, <1>9, <1>10 DEF Serve, RequestFault

LEMMA ExpiryIsCoherent ==
  ASSUME Typed, Coherent, \E e \in Epochs : DropPage(e) \/ DropFill(e)
  PROVE  Coherent'
<1>1. Announced' = Announced
  BY DEF DropPage, DropFill, Announced, Published, store, relay
<1>2. \A e \in Epochs : page'[e] = page[e] \/ page'[e] = NoPage
  BY DEF DropPage, DropFill, Typed, TypeOK
<1> QED BY <1>1, <1>2, QuietStepIsCoherent DEF DropPage, DropFill, reads

LEMMA InitIsCoherent == Init => Coherent
<1> SUFFICES ASSUME Init PROVE Coherent
  OBVIOUS
<1>1. Published = {}
  BY DEF Init, Published
<1>2. Announced = {}
  BY <1>1 DEF Init, Announced
<1> QED BY <1>2 DEF Init, Coherent, Epochs

LEMMA NextIsCoherent == ~ CacheForgets /\ Typed /\ Coherent /\ [Next]_vars => Coherent'
<1> SUFFICES ASSUME ~ CacheForgets, Typed, Coherent, [Next]_vars PROVE Coherent'
  OBVIOUS
<1>1. ~ EvictEpoch /\ ~ CacheRestarts
  BY DEF EvictEpoch, CacheRestarts
<1>2. CASE UNCHANGED vars
  BY <1>2 DEF Coherent, Announced, Published, vars, store, redis, relay, reads
<1> QED BY <1>1, <1>2, RelayIsCoherent, RequestIsCoherent, ExpiryIsCoherent DEF Next

\* As long as Redis Cache keeps its epoch key, the page a reader would hit shows
\* every published change, for any number of relays, fills, failures and retries.
THEOREM CurrentPageStaysCurrent ==
  ASSUME ~ CacheForgets PROVE Spec => []CurrentPageIsCurrent
<1>1. Typed /\ Coherent => CurrentPageIsCurrent
  <2> SUFFICES ASSUME Typed, Coherent, page[epoch] # NoPage PROVE LastPublished <= page[epoch]
    BY LastPublishedIsNewest DEF CurrentPageIsCurrent, Typed, TypeOK, Version, Epochs, NoPage
  <2>1. page[epoch] \in Nat
    BY DEF Typed, TypeOK, Version, NoPage
  <2>2. LastPublished \in Announced \cup {0}
    BY LastPublishedIsNewest DEF Announced, Typed, TypeOK, Version
  <2> QED BY <2>1, <2>2 DEF Coherent
<1>2. Init => Typed /\ Coherent
  BY InitIsTyped, InitIsCoherent
<1>3. Typed /\ Coherent /\ [Next]_vars => (Typed /\ Coherent)'
  BY NextKeepsTypes, NextIsCoherent
<1> QED BY <1>1, <1>2, <1>3, PTL DEF Spec
-----------------------------------------------------------------------------
(***************************************************************************)
(* What each request has seen.                                             *)
(***************************************************************************)
\* What a request knew to be published when it started still is, it has loaded
\* nothing older, and it has not answered with anything older.
KnowsPublished(r) ==
  /\ floor[r] \in Published \cup {0}
  /\ pc[r] = "start" => answer[r] = NoAnswer
  /\ pc[r] = "loaded" => floor[r] <= data[r]
  /\ answer[r] \in Version => floor[r] <= answer[r]

ReadersKnow == \A r \in Requests : KnowsPublished(r)

LEMMA OtherReadersKnow ==
  ASSUME Typed, ReadersKnow, NEW r \in Requests, Published \subseteq Published', KnowsPublished(r)',
         \A q \in Requests : q # r =>
            /\ pc'[q] = pc[q] /\ floor'[q] = floor[q]
            /\ data'[q] = data[q] /\ answer'[q] = answer[q]
  PROVE  ReadersKnow'
<1> SUFFICES ASSUME NEW q \in Requests, q # r PROVE KnowsPublished(q)'
  BY DEF ReadersKnow
<1> QED BY DEF ReadersKnow, KnowsPublished, Version

\* Nothing that is published is ever taken back, whoever moves.
LEMMA PublishedOnlyGrows ==
  ASSUME Typed, Next
  PROVE  Published \subseteq Published'
<1> USE DEF Typed, TypeOK, Published, Version
<1>1. CASE CommitOrder
  BY <1>1 DEF CommitOrder
<1>2. ASSUME NEW row \in Rows, BecomeDue(row) PROVE Published \subseteq Published'
  BY <1>2 DEF BecomeDue
<1>3. ASSUME NEW l \in Relays, Flush(l) \/ FlushFails(l) \/ RelayCrashes(l)
      PROVE  Published \subseteq Published'
  BY <1>3 DEF Flush, SelectRows, BumpEpoch, PublishRows, FlushFails, RelayCrashes, store
<1>4. ASSUME NEW r \in Requests, Serve(r) \/ RequestFault(r) PROVE UNCHANGED store
  BY <1>4 DEF Serve, Read, AcquireFill, Follow, LoadAsWinner, Write, Release, LoadAsFallback,
     RequestFault, CacheReadFails, CacheWriteFails, ReleaseFails, LoadFails, RequestCrashes
<1>5. ASSUME (\E e \in Epochs : DropPage(e) \/ DropFill(e)) \/ EvictEpoch \/ CacheRestarts
      PROVE  UNCHANGED store
  BY <1>5 DEF DropPage, DropFill, EvictEpoch, CacheRestarts
<1> QED BY <1>1, <1>2, <1>3, <1>4, <1>5 DEF Next, store

\* A hit shows what was published when the request started.
LEMMA HitIsCurrent ==
  ASSUME Typed, Coherent, page[epoch] # NoPage
  PROVE  /\ page[epoch] \in Version
         /\ \A v \in Published \cup {0} : v <= page[epoch]
<1>1. page[epoch] \in Version
  BY DEF Typed, TypeOK
<1> QED BY <1>1 DEF Coherent, Announced, Version

LEMMA NoErrorIsData == NoAnswer \notin Version /\ DbError \notin Version /\ CacheError \notin Version
BY DEF Version

LEMMA ServiceKnows ==
  ASSUME Typed, Coherent, ReadersKnow, NEW r \in Requests, Serve(r), Published \subseteq Published'
  PROVE  ReadersKnow'
<1> USE DEF reads, Goto, Answered
<1>0. KnowsPublished(r) /\ floor[r] <= db /\ db \in Version /\ LastPublished \in Published \cup {0}
  BY LastPublishedIsNewest DEF ReadersKnow, KnowsPublished, Published, Typed, TypeOK, Version
<1>1. CASE Read(r)
  <2>1. floor' = [floor EXCEPT ![r] = LastPublished] /\ UNCHANGED data
    BY <1>1 DEF Read
  <2>2. floor'[r] = LastPublished /\ answer[r] = NoAnswer
    BY <1>0, <1>1, <2>1 DEF Read, KnowsPublished, Typed, TypeOK
  <2>3. CASE page[epoch] # NoPage
    <3>1. pc' = [pc EXCEPT ![r] = "done"] /\ answer' = [answer EXCEPT ![r] = page[epoch]]
      BY <1>1, <2>3 DEF Read
    <3>2. pc'[r] = "done" /\ answer'[r] = page[epoch]
      BY <3>1 DEF Typed, TypeOK
    <3>3. KnowsPublished(r)'
      BY <1>0, <2>2, <2>3, <3>2, HitIsCurrent DEF KnowsPublished
    <3> QED BY <2>1, <3>1, <3>3, OtherReadersKnow DEF Typed, TypeOK
  <2>4. CASE page[epoch] = NoPage
    <3>1. pc' = [pc EXCEPT ![r] = "missed"] /\ UNCHANGED answer
      BY <1>1, <2>4 DEF Read
    <3>2. pc'[r] = "missed"
      BY <3>1 DEF Typed, TypeOK
    <3>3. KnowsPublished(r)'
      BY <1>0, <2>2, <3>1, <3>2, NoErrorIsData DEF KnowsPublished, Version
    <3> QED BY <2>1, <3>1, <3>3, OtherReadersKnow DEF Typed, TypeOK
  <2> QED BY <2>3, <2>4
<1>2. ASSUME NEW to \in {"winner", "follower", "fallback", "done", "releasing", "dead"},
             Goto(r, to), UNCHANGED <<data, floor, answer>>
      PROVE  ReadersKnow'
  <2>1. KnowsPublished(r)'
    BY <1>0, <1>2 DEF KnowsPublished, Typed, TypeOK, Version
  <2> QED BY <1>2, <2>1, OtherReadersKnow DEF Typed, TypeOK
<1>3. CASE AcquireFill(r)
  BY <1>2, <1>3 DEF AcquireFill
<1>4. CASE Follow(r)
  <2>1. CASE page[epoch] # NoPage
    <3>1. pc' = [pc EXCEPT ![r] = "done"] /\ answer' = [answer EXCEPT ![r] = page[epoch]]
          /\ UNCHANGED <<data, floor>>
      BY <1>4, <2>1 DEF Follow
    <3>2. pc'[r] = "done" /\ answer'[r] = page[epoch]
      BY <3>1 DEF Typed, TypeOK
    <3>3. KnowsPublished(r)'
      BY <1>0, <2>1, <3>1, <3>2, HitIsCurrent DEF KnowsPublished
    <3> QED BY <3>1, <3>3, OtherReadersKnow DEF Typed, TypeOK
  <2>2. CASE page[epoch] = NoPage
    BY <1>2, <1>4, <2>2 DEF Follow
  <2> QED BY <2>1, <2>2
<1>5. CASE LoadAsWinner(r)
  <2>1. data' = [data EXCEPT ![r] = db] /\ pc' = [pc EXCEPT ![r] = "loaded"] /\ UNCHANGED <<floor, answer>>
    BY <1>5 DEF LoadAsWinner
  <2>2. data'[r] = db /\ pc'[r] = "loaded"
    BY <2>1 DEF Typed, TypeOK
  <2>3. KnowsPublished(r)'
    BY <1>0, <2>1, <2>2 DEF KnowsPublished, Version
  <2> QED BY <2>1, <2>3, OtherReadersKnow DEF Typed, TypeOK
<1>6. CASE Write(r)
  <2>1. answer' = [answer EXCEPT ![r] = data[r]] /\ pc' = [pc EXCEPT ![r] = "releasing"] /\ UNCHANGED <<floor, data>>
    BY <1>6 DEF Write
  <2>2. answer'[r] = data[r] /\ pc'[r] = "releasing" /\ floor[r] <= data[r]
    BY <1>0, <1>6, <2>1 DEF Typed, TypeOK, Write, KnowsPublished
  <2>3. KnowsPublished(r)'
    BY <1>0, <2>1, <2>2 DEF KnowsPublished
  <2> QED BY <2>1, <2>3, OtherReadersKnow DEF Typed, TypeOK
<1>7. CASE Release(r)
  BY <1>2, <1>7 DEF Release
<1>8. CASE LoadAsFallback(r)
  <2>1. answer' = [answer EXCEPT ![r] = db] /\ pc' = [pc EXCEPT ![r] = "done"] /\ UNCHANGED <<floor, data>>
    BY <1>8 DEF LoadAsFallback
  <2>2. answer'[r] = db /\ pc'[r] = "done"
    BY <2>1 DEF Typed, TypeOK
  <2>3. KnowsPublished(r)'
    BY <1>0, <2>1, <2>2 DEF KnowsPublished
  <2> QED BY <2>1, <2>3, OtherReadersKnow DEF Typed, TypeOK
<1> QED BY <1>1, <1>3, <1>4, <1>5, <1>6, <1>7, <1>8 DEF Serve

LEMMA FaultyServiceKnows ==
  ASSUME Typed, ReadersKnow, NEW r \in Requests, RequestFault(r), Published \subseteq Published'
  PROVE  ReadersKnow'
<1> USE DEF Goto
<1>0. KnowsPublished(r) /\ LastPublished \in Published \cup {0}
  BY LastPublishedIsNewest DEF ReadersKnow, Typed, TypeOK, Version
<1>1. PICK to \in {"fallback", "releasing", "done", "dead"} : pc' = [pc EXCEPT ![r] = to]
  BY DEF RequestFault, CacheReadFails, CacheWriteFails, ReleaseFails, LoadFails, RequestCrashes
<1>2. pc'[r] = to /\ UNCHANGED data
  BY <1>1 DEF RequestFault, CacheReadFails, CacheWriteFails, ReleaseFails, LoadFails, RequestCrashes, Typed, TypeOK
<1>3. CASE CacheReadFails(r)
  <2>1. UNCHANGED answer /\ floor' \in {floor, [floor EXCEPT ![r] = LastPublished]}
    BY <1>3 DEF CacheReadFails
  <2>2. floor'[r] = floor[r] \/ (pc[r] = "start" /\ floor'[r] = LastPublished)
    BY <1>3 DEF CacheReadFails, Typed, TypeOK
  <2>3. floor'[r] \in Published' \cup {0}
    BY <1>0, <2>2 DEF KnowsPublished
  <2>4. KnowsPublished(r)'
    BY <1>0, <1>2, <2>1, <2>2, <2>3, NoErrorIsData DEF KnowsPublished, Version
  <2> QED BY <1>1, <1>2, <2>1, <2>4, OtherReadersKnow DEF Typed, TypeOK
<1>4. CASE ~ CacheReadFails(r)
  <2>1. UNCHANGED floor /\ answer' \in {answer, [answer EXCEPT ![r] = CacheError], [answer EXCEPT ![r] = DbError]}
    BY <1>4 DEF RequestFault, CacheWriteFails, ReleaseFails, LoadFails, RequestCrashes
  <2>2. answer'[r] \in {answer[r], CacheError, DbError}
    BY <2>1 DEF Typed, TypeOK
  <2>3. KnowsPublished(r)'
    BY <1>0, <1>2, <2>1, <2>2, NoErrorIsData DEF KnowsPublished, Version
  <2> QED BY <1>1, <1>2, <2>1, <2>3, OtherReadersKnow DEF Typed, TypeOK
<1> QED BY <1>3, <1>4

LEMMA NextKnows == Typed /\ Coherent /\ ReadersKnow /\ [Next]_vars => ReadersKnow'
<1> SUFFICES ASSUME Typed, Coherent, ReadersKnow, [Next]_vars PROVE ReadersKnow'
  OBVIOUS
<1>1. ASSUME UNCHANGED reads, Published \subseteq Published' PROVE ReadersKnow'
  BY <1>1 DEF ReadersKnow, KnowsPublished, reads, Version
<1>2. CASE UNCHANGED vars
  BY <1>1, <1>2 DEF vars, Published, store
<1>3. CASE Next
  <2>1. Published \subseteq Published'
    BY <1>3, PublishedOnlyGrows
  <2>2. CASE \E r \in Requests : Serve(r) \/ RequestFault(r)
    BY <2>1, <2>2, ServiceKnows, FaultyServiceKnows
  <2>3. CASE ~ \E r \in Requests : Serve(r) \/ RequestFault(r)
    <3>1. UNCHANGED reads
      BY <1>3, <2>3 DEF Next, CommitOrder, BecomeDue, Flush, SelectRows, BumpEpoch, PublishRows,
         FlushFails, RelayCrashes, DropPage, DropFill, EvictEpoch, CacheRestarts
    <3> QED BY <1>1, <2>1, <3>1
  <2> QED BY <2>2, <2>3
<1> QED BY <1>2, <1>3

\* As long as Redis Cache keeps its epoch key, no request answers with data older
\* than a change published before it started, whichever path the data took: a hit,
\* its own load, the page of the winner it followed, or the fallback.
THEOREM ReadsNeverMissPublished ==
  ASSUME ~ CacheForgets PROVE Spec => []ReadsSeePublished
<1>1. Typed /\ ReadersKnow => ReadsSeePublished
  BY DEF ReadersKnow, KnowsPublished, ReadsSeePublished, Version, Typed, TypeOK
<1>2. Init => Typed /\ Coherent /\ ReadersKnow
  <2>1. Init => ReadersKnow
    BY NoErrorIsData DEF Init, ReadersKnow, KnowsPublished
  <2> QED BY <2>1, InitIsTyped, InitIsCoherent
<1>3. Typed /\ Coherent /\ ReadersKnow /\ [Next]_vars => (Typed /\ Coherent /\ ReadersKnow)'
  BY NextKeepsTypes, NextIsCoherent, NextKnows
<1> QED BY <1>1, <1>2, <1>3, PTL DEF Spec

-----------------------------------------------------------------------------
(***************************************************************************)
(* Fill claims.                                                            *)
(***************************************************************************)
LEMMA ClaimIsReleasedByItsOwner ==
  ASSUME TypeOK, [Next]_vars, NEW e \in Epochs, fill[e] # Nobody, fill'[e] # fill[e], pc' # pc
  PROVE  pc[fill[e]] = "releasing" /\ pc'[fill[e]] # "releasing"
<1>1. PICK r \in Requests : Serve(r) \/ RequestFault(r)
  BY DEF Next, vars, reads, CommitOrder, BecomeDue, Flush, SelectRows, BumpEpoch, PublishRows,
     FlushFails, RelayCrashes, DropPage, DropFill, EvictEpoch, CacheRestarts
<1>2. \A q \in Requests : [fill EXCEPT ![sawEpoch[r]] = q][e] # fill[e] => e = sawEpoch[r]
  BY DEF TypeOK
<1>3. CASE AcquireFill(r) \/ CacheReadFails(r)
  BY <1>2, <1>3 DEF AcquireFill, CacheReadFails
<1>4. CASE Release(r)
  BY <1>4 DEF Release, Goto, TypeOK
<1>5. CASE ~ (AcquireFill(r) \/ CacheReadFails(r) \/ Release(r))
  <2>1. UNCHANGED fill
    BY <1>1, <1>5 DEF Serve, Read, Follow, LoadAsWinner, Write, LoadAsFallback, RequestFault,
       CacheWriteFails, ReleaseFails, LoadFails, RequestCrashes, redis
  <2> QED BY <2>1
<1> QED BY <1>3, <1>4, <1>5

\* A step of a request removes only a claim of its own: a claim goes otherwise only
\* when it expires or Redis Cache loses it.  This needs no assumption on the cache.
THEOREM ClaimsAreReleasedByOwners == Spec => OnlyOwnerReleasesFill
<1>1. TypeOK /\ [Next]_vars =>
        [\A e \in Epochs :
           fill[e] # Nobody /\ fill'[e] # fill[e] /\ pc' # pc =>
             pc[fill[e]] = "releasing" /\ pc'[fill[e]] # "releasing"]_vars
  BY ClaimIsReleasedByItsOwner
<1> QED BY <1>1, CacheIsTyped, PTL DEF Spec, OnlyOwnerReleasesFill
=============================================================================
