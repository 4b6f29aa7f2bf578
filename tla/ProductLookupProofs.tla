------------------------ MODULE ProductLookupProofs ------------------------
(***************************************************************************)
(* Machine-checked proofs about ProductLookup, for any number of callers,  *)
(* products, entries and changes.                                          *)
(***************************************************************************)
EXTENDS ProductLookup, FiniteSetTheorems, SequenceTheorems, TLAPS

USE LookupAssumption

-----------------------------------------------------------------------------
(***************************************************************************)
(* Deleting entries: Keep returns the others, each once, in fewer places.  *)
(***************************************************************************)
\* How many of these places are at or before this one.
UpTo(places, i) == Cardinality({k \in places : k <= i})

\* The places kept are numbered from 1 without a gap.
LEMMA PlacesAreNumbered ==
  ASSUME NEW len \in Nat, NEW places \in SUBSET (1..len)
  PROVE  /\ Cardinality(places) \in Nat /\ Cardinality(places) <= len
         /\ \A n \in 1..Cardinality(places) : Nth(places, n) \in places /\ UpTo(places, Nth(places, n)) = n
<1> DEFINE T == 1..Cardinality(places)
           f == [i \in places |-> UpTo(places, i)]
<1>1. IsFiniteSet(places) /\ Cardinality(places) \in Nat /\ Cardinality(places) <= len
  <2>1. IsFiniteSet(1..len) /\ Cardinality(1..len) = len
    BY FS_Interval
  <2> QED BY <2>1, FS_Subset, FS_CardinalityType
<1>2. ASSUME NEW i \in places PROVE UpTo(places, i) \in T
  <2> DEFINE upTo == {k \in places : k <= i}
  <2>1. IsFiniteSet(upTo) /\ Cardinality(upTo) <= Cardinality(places) /\ Cardinality(upTo) \in Nat
    BY <1>1, FS_Subset, FS_CardinalityType
  <2>2. i \in upTo
    OBVIOUS
  <2>3. Cardinality(upTo) # 0
    BY <2>1, <2>2, FS_EmptySet
  <2> QED BY <1>1, <2>1, <2>3 DEF UpTo
<1>3. ASSUME NEW i \in places, NEW k \in places, i < k PROVE UpTo(places, i) # UpTo(places, k)
  <2> DEFINE U == {m \in places : m <= i}
             V == {m \in places : m <= k}
  <2>1. \A m \in places : m \in Nat
    OBVIOUS
  <2>2. U \in SUBSET V /\ k \in V /\ k \notin U
    <3>1. i \in Nat /\ k \in Nat
      BY <2>1
    <3>2. \A m \in U : m \in V
      <4> SUFFICES ASSUME NEW m \in places, m <= i PROVE m <= k
        OBVIOUS
      <4>1. m \in Nat
        BY <2>1
      <4> QED BY <1>3, <3>1, <4>1
    <3>3. k <= k /\ ~ (k <= i)
      BY <1>3, <3>1
    <3>4. k \in V /\ k \notin U
      BY <3>3
    <3> QED BY <3>2, <3>4
  <2>3. IsFiniteSet(V)
    BY <1>1, FS_Subset
  <2>4. Cardinality(V) # Cardinality(U)
    BY <2>2, <2>3, FS_Subset
  <2> QED BY <2>4 DEF UpTo
<1>4. f \in Injection(places, T)
  <2>1. f \in [places -> T]
    BY <1>2
  <2>2. \A i, k \in places : f[i] = f[k] => i = k
    BY <1>3
  <2> QED BY <2>1, <2>2 DEF Injection, IsInjective
<1>5. IsFiniteSet(T) /\ Cardinality(T) = Cardinality(places)
  BY <1>1, FS_Interval
<1>6. f \in Surjection(places, T)
  BY <1>4, <1>5, FS_Injection
<1>7. \A n \in T : \E i \in places : UpTo(places, i) = n
  BY <1>6 DEF Surjection
<1> QED BY <1>1, <1>7 DEF Nth, UpTo

\* The entries of seq are some of the map's, and no key has two of them.
Part(seq) ==
  /\ seq \in Seq(Entry) /\ Len(seq) <= Len(memory)
  /\ \A n \in 1..Len(seq) : \E i \in DOMAIN memory : seq[n] = memory[i]
  /\ \A m, n \in 1..Len(seq) : seq[m].key = seq[n].key => m = n

DistinctKeys == \A i, n \in DOMAIN memory : memory[i].key = memory[n].key => i = n

LEMMA KeepIsPart ==
  ASSUME TypeOK, DistinctKeys, NEW places \in SUBSET DOMAIN memory
  PROVE  /\ Part(Keep(places))
         /\ \A n \in 1..Len(Keep(places)) : \E i \in places : Keep(places)[n] = memory[i]
<1>1. PICK len \in Nat : len = Len(memory) /\ DOMAIN memory = 1..len /\ memory \in [1..len -> Entry]
  BY LenProperties DEF TypeOK
<1>2. PICK size \in Nat : size = Cardinality(places)
  BY <1>1, PlacesAreNumbered
<1>3. /\ size <= len
      /\ \A n \in 1..size : Nth(places, n) \in places /\ UpTo(places, Nth(places, n)) = n
  BY <1>1, <1>2, PlacesAreNumbered
<1>4. Keep(places) = [n \in 1..size |-> memory[Nth(places, n)]]
  BY <1>2 DEF Keep
<1>5. \A n \in 1..size : memory[Nth(places, n)] \in Entry
  BY <1>1, <1>3
<1>6. Keep(places) \in Seq(Entry) /\ Len(Keep(places)) = size
  <2>1. Keep(places) \in [1..size -> Entry]
    BY <1>4, <1>5
  <2>2. Keep(places) \in Seq(Entry)
    BY <2>1, SeqDef
  <2> QED BY <1>4, <2>2, LenProperties
<1>7. \A n \in 1..size : Keep(places)[n] = memory[Nth(places, n)]
  BY <1>4
<1>8. \A m, n \in 1..size : Keep(places)[m].key = Keep(places)[n].key => m = n
  <2> SUFFICES ASSUME NEW m \in 1..size, NEW n \in 1..size, Keep(places)[m].key = Keep(places)[n].key
               PROVE  m = n
    OBVIOUS
  <2>1. Nth(places, m) = Nth(places, n)
    BY <1>3, <1>7 DEF DistinctKeys
  <2> QED BY <1>3, <2>1
<1> QED BY <1>1, <1>3, <1>6, <1>7, <1>8 DEF Part

\* The map with room for one more entry.
LEMMA RoomyIsPart ==
  ASSUME TypeOK, DistinctKeys, Len(memory) <= MaxEntries
  PROVE  Part(Roomy) /\ Len(Roomy) < MaxEntries
<1>1. memory \in Seq(Entry) /\ Len(memory) \in Nat /\ DOMAIN memory = 1..Len(memory)
  BY LenProperties DEF TypeOK
<1>2. Part(memory)
  BY <1>1 DEF Part, DistinctKeys
<1>3. Part(Swept)
  <2>1. {i \in DOMAIN memory : ~ memory[i].expired} \in SUBSET DOMAIN memory
    OBVIOUS
  <2> QED BY <1>2, <2>1, KeepIsPart DEF Swept
<1>4. PICK s : s = Swept
  OBVIOUS
<1>5. s \in Seq(Entry) /\ Len(s) \in Nat /\ Len(s) <= Len(memory)
  BY <1>3, <1>4, LenProperties DEF Part
<1>6. CASE Len(s) < MaxEntries
  BY <1>3, <1>4, <1>5, <1>6 DEF Roomy
<1>7. CASE Len(s) >= MaxEntries
  <2>1. s # << >> /\ Roomy = Tail(s)
    BY <1>4, <1>7, EmptySeq DEF Roomy
  <2>2. /\ Tail(s) \in Seq(Entry) /\ Len(Tail(s)) = Len(s) - 1
        /\ \A n \in 1..Len(Tail(s)) : Tail(s)[n] = s[n + 1]
    BY <1>5, <2>1, HeadTailProperties
  <2>3. \A n \in 1..Len(Tail(s)) : n + 1 \in 1..Len(s)
    BY <1>5, <2>2
  <2>4. \A n \in 1..Len(Tail(s)) : \E i \in DOMAIN memory : Tail(s)[n] = memory[i]
    BY <1>3, <1>4, <2>2, <2>3 DEF Part
  <2>5. \A m, n \in 1..Len(Tail(s)) : Tail(s)[m].key = Tail(s)[n].key => m = n
    <3> SUFFICES ASSUME NEW m \in 1..Len(Tail(s)), NEW n \in 1..Len(Tail(s)), s[m + 1].key = s[n + 1].key
                 PROVE  m = n
      BY <2>2
    <3>1. m + 1 = n + 1
      BY <1>3, <1>4, <2>3 DEF Part
    <3> QED BY <1>5, <2>2, <3>1
  <2>6. Len(Tail(s)) <= Len(memory) /\ Len(Tail(s)) < MaxEntries
    BY <1>1, <1>5, <2>2
  <2> QED BY <2>1, <2>2, <2>4, <2>5, <2>6 DEF Part
<1> QED BY <1>5, <1>6, <1>7

\* The map after a product was put: bounded, each key once, the product under its
\* key and old entries under the others.
LEMMA PutKeepsMap ==
  ASSUME TypeOK, DistinctKeys, Len(memory) <= MaxEntries, NEW k \in Keys, NEW v \in 0..MaxChanges
  PROVE  /\ Put(k, v) \in Seq(Entry) /\ Len(Put(k, v)) <= MaxEntries
         /\ \A m, n \in DOMAIN Put(k, v) : Put(k, v)[m].key = Put(k, v)[n].key => m = n
         /\ \A n \in DOMAIN Put(k, v) :
              \/ Put(k, v)[n].key = k /\ Put(k, v)[n].product = v
              \/ Put(k, v)[n].key # k /\ \E i \in DOMAIN memory : Put(k, v)[n] = memory[i]
<1>1. PICK r : r = Roomy
  OBVIOUS
<1>2. PICK entry : entry = [key |-> k, product |-> v, expired |-> FALSE]
  OBVIOUS
<1>3. entry \in Entry /\ entry.key = k /\ entry.product = v
  BY <1>2 DEF Entry
<1>4. PICK len \in Nat : len = Len(r) /\ DOMAIN r = 1..len /\ r \in [1..len -> Entry] /\ len < MaxEntries
  BY <1>1, RoomyIsPart, LenProperties DEF Part
<1>5. /\ r \in Seq(Entry)
      /\ \A n \in 1..len : \E i \in DOMAIN memory : r[n] = memory[i]
      /\ \A m, n \in 1..len : r[m].key = r[n].key => m = n
  BY <1>1, <1>4, RoomyIsPart DEF Part
<1>6. CASE \E i \in 1..len : r[i].key = k
  <2>1. PICK s : s = [i \in 1..len |-> IF r[i].key = k THEN entry ELSE r[i]]
    OBVIOUS
  <2>2. Put(k, v) = s
    BY <1>1, <1>2, <1>4, <1>6, <2>1 DEF Put
  <2>3. s \in [1..len -> Entry]
    BY <1>3, <1>4, <2>1
  <2>4. s \in Seq(Entry) /\ Len(s) = len /\ DOMAIN s = 1..len
    <3>1. s \in Seq(Entry)
      BY <2>3, SeqDef
    <3> QED BY <2>1, <3>1, LenProperties
  <2>5. \A n \in 1..len : s[n].key = r[n].key
    BY <1>3, <2>1
  <2>6. \A n \in 1..len : \/ s[n].key = k /\ s[n].product = v
                          \/ s[n].key # k /\ \E i \in DOMAIN memory : s[n] = memory[i]
    BY <1>3, <1>5, <2>1
  <2> QED BY <1>4, <1>5, <2>2, <2>4, <2>5, <2>6
<1>7. CASE ~ \E i \in 1..len : r[i].key = k
  <2>1. PICK s : s = Append(r, entry)
    OBVIOUS
  <2>2. Put(k, v) = s
    BY <1>1, <1>2, <1>4, <1>7, <2>1 DEF Put
  <2>3. /\ s \in Seq(Entry) /\ Len(s) = len + 1
        /\ \A i \in 1..len : s[i] = r[i]
        /\ s[len + 1] = entry
    BY <1>3, <1>4, <1>5, <2>1, AppendProperties
  <2>4. DOMAIN s = 1..(len + 1)
    BY <2>3, LenProperties
  <2>5. \A n \in 1..(len + 1) : n \in 1..len \/ n = len + 1
    OBVIOUS
  <2>6. \A n \in 1..(len + 1) : \/ s[n].key = k /\ s[n].product = v
                                \/ s[n].key # k /\ \E i \in DOMAIN memory : s[n] = memory[i]
    BY <1>3, <1>5, <1>7, <2>3, <2>5
  <2>7. \A m, n \in 1..(len + 1) : s[m].key = s[n].key => m = n
    BY <1>3, <1>5, <1>7, <2>3, <2>5
  <2> QED BY <1>4, <2>2, <2>3, <2>4, <2>6, <2>7
<1> QED BY <1>6, <1>7

-----------------------------------------------------------------------------
(***************************************************************************)
(* The invariant, in parts: what the map holds, which calls await whose    *)
(* lookup, how old products may be, and who waits beside an empty place.   *)
(***************************************************************************)
\* The starter of every awaited lookup is registered under its key, and only it.
Lookups ==
  /\ \A c \in Calls : Starter(c) => inFlight[call[c].key] = c
  /\ \A k \in Keys : inFlight[k] # Nobody => Starter(inFlight[k]) /\ call[inFlight[k]].key = k
  /\ \A d \in Calls : call[d] # Idle =>
       /\ Starter(call[d].starter) /\ call[call[d].starter].key = call[d].key
       /\ call[d].starter # d => call[d].row = NotRead

HasRead(c) == Starter(c) /\ ~ Asked(c)

\* Nothing is newer than the database, and what a query has read is as new as
\* whatever is cached or was handed out under its key.
Ages ==
  /\ \A k \in Keys : newest[k] <= db[k]
  /\ \A i \in DOMAIN memory : memory[i].product <= db[memory[i].key]
  /\ \A c \in Calls : HasRead(c) =>
       /\ newest[call[c].key] <= call[c].row /\ call[c].row <= db[call[c].key]
       /\ \A i \in DOMAIN memory : memory[i].key = call[c].key => memory[i].product <= call[c].row

\* An entry that can still be hit is as new as what callers were given.
Young == \A i \in DOMAIN memory : memory[i].expired \/ memory[i].product >= newest[memory[i].key]

\* While a caching call waits, its product is not in the map.
Emptied ==
  \A d \in Calls : call[d] # Idle /\ call[d].caches => \A i \in DOMAIN memory : memory[i].key # call[d].key

LookupInv == TypeOK /\ MemoryIsBounded /\ Lookups /\ Ages /\ Young /\ Emptied

\* A call that waits is a record of its own kind.
LEMMA WaitingIsNotIdle ==
  ASSUME NEW w \in Waiting
  PROVE  w # Idle
<1>1. "key" \in DOMAIN w
  BY DEF Waiting
<1>2. "key" \notin DOMAIN Idle
  BY DEF Idle
<1> QED BY <1>1, <1>2

\* What TypeOK says of a call that waits.
LEMMA WaitingCalls ==
  ASSUME TypeOK, NEW d \in Calls, call[d] # Idle
  PROVE  /\ call[d] \in Waiting
         /\ call[d].key \in Keys /\ call[d].caches \in BOOLEAN
         /\ call[d].starter \in Calls /\ call[d].row \in 0..NotRead
<1>1. call[d] \in Waiting
  BY DEF TypeOK
<1> QED BY <1>1 DEF Waiting

\* The entries after a step are old ones, some of them expired since.
Kept ==
  \A i \in DOMAIN memory' : \E n \in DOMAIN memory :
    /\ memory'[i].key = memory[n].key /\ memory'[i].product = memory[n].product
    /\ memory[n].expired => memory'[i].expired

LEMMA MissKeepsMap ==
  ASSUME TypeOK, MemoryIsBounded, NEW c \in Calls, NEW k \in Keys, NEW ttl \in BOOLEAN, Miss(c, k, ttl)
  PROVE  /\ memory' \in Seq(Entry) /\ MemoryIsBounded' /\ Kept
         /\ ttl => \A i \in DOMAIN memory' : memory'[i].key # k
<1>1. CASE Fresh(k)
  <2>1. memory' = memory /\ ~ ttl
    BY <1>1 DEF Miss
  <2> QED BY <2>1 DEF TypeOK, MemoryIsBounded, Kept
<1>2. CASE ~ Fresh(k)
  <2>1. PICK places : places = {i \in DOMAIN memory : memory[i].key # k}
    OBVIOUS
  <2>2. PICK s : s = Keep(places)
    OBVIOUS
  <2>3. memory' = s
    BY <1>2, <2>1, <2>2 DEF Miss, Without
  <2>4. DistinctKeys /\ Len(memory) <= MaxEntries /\ Len(memory) \in Nat
    BY LenProperties DEF MemoryIsBounded, DistinctKeys, TypeOK
  <2>5. Part(s) /\ \A n \in 1..Len(s) : \E i \in places : s[n] = memory[i]
    <3>1. places \in SUBSET DOMAIN memory
      BY <2>1
    <3> QED BY <2>2, <2>4, <3>1, KeepIsPart
  <2>6. s \in Seq(Entry) /\ Len(s) \in Nat /\ DOMAIN s = 1..Len(s)
    BY <2>5, LenProperties DEF Part
  <2>7. Len(s) <= MaxEntries
    BY <2>4, <2>5, <2>6 DEF Part
  <2>8. \A i, n \in DOMAIN s : s[i].key = s[n].key => i = n
    BY <2>5, <2>6 DEF Part
  <2>9. \A i \in DOMAIN s : \E n \in DOMAIN memory : s[i] = memory[n] /\ s[i].key # k
    BY <2>1, <2>5, <2>6
  <2> QED BY <2>3, <2>6, <2>7, <2>8, <2>9 DEF MemoryIsBounded, Kept
<1> QED BY <1>1, <1>2

LEMMA ExpireKeepsMap ==
  ASSUME TypeOK, MemoryIsBounded, NEW e \in DOMAIN memory, Expire(e)
  PROVE  memory' \in Seq(Entry) /\ MemoryIsBounded' /\ Kept
<1>1. PICK len \in Nat : len = Len(memory) /\ DOMAIN memory = 1..len /\ memory \in [1..len -> Entry]
  BY LenProperties DEF TypeOK
<1>2. memory' = [memory EXCEPT ![e].expired = TRUE]
  BY DEF Expire
<1>3. memory' \in [1..len -> Entry]
  BY <1>1, <1>2 DEF Entry
<1>4. memory' \in Seq(Entry)
  BY <1>3, SeqDef
<1>5. Len(memory') = len /\ DOMAIN memory' = 1..len
  BY <1>3, <1>4, LenProperties
<1>6. \A i \in 1..len : /\ memory'[i].key = memory[i].key /\ memory'[i].product = memory[i].product
                        /\ memory[i].expired => memory'[i].expired
  BY <1>1, <1>2 DEF Entry
<1> QED BY <1>1, <1>4, <1>5, <1>6 DEF MemoryIsBounded, Kept

-----------------------------------------------------------------------------
(***************************************************************************)
(* The invariant under each action.                                        *)
(***************************************************************************)
LEMMA NoteKeepsNewest ==
  ASSUME TypeOK, NEW k \in Keys, NEW v \in 0..MaxChanges, NEW caching \in BOOLEAN, Note(k, v, caching)
  PROVE  /\ newest' \in [Keys -> 0..MaxChanges]
         /\ \A j \in Keys : j # k => newest'[j] = newest[j]
         /\ newest'[k] = newest[k] \/ (caching /\ newest'[k] = v)
         /\ caching => newest'[k] >= v
<1>1. newest' = [newest EXCEPT ![k] = IF caching /\ v > newest[k] THEN v ELSE newest[k]]
  BY DEF Note
<1>2. newest \in [Keys -> 0..MaxChanges]
  BY DEF TypeOK
<1> QED BY <1>1, <1>2

LEMMA HitKeepsInv ==
  ASSUME LookupInv, NEW c \in Calls, NEW k \in Keys, Hit(c, k)
  PROVE  LookupInv'
<1> USE DEF LookupInv
<1>1. PICK i \in DOMAIN memory : memory[i].key = k /\ ~ memory[i].expired /\ Note(k, memory[i].product, TRUE)
  BY DEF Hit, Cached
<1>2. memory[i] \in Entry
  BY ElementOfSeq, LenProperties DEF TypeOK
<1>3. PICK v \in 0..MaxChanges : v = memory[i].product
  BY <1>2 DEF Entry
<1>4. PICK yes \in BOOLEAN : yes = TRUE
  OBVIOUS
<1>5. Note(k, v, yes)
  BY <1>1, <1>3, <1>4
<1>6. /\ newest' \in [Keys -> 0..MaxChanges]
      /\ \A j \in Keys : j # k => newest'[j] = newest[j]
      /\ newest'[k] = newest[k] \/ newest'[k] = v
  BY <1>5, NoteKeepsNewest
<1>7. UNCHANGED <<db, memory, inFlight, call>>
  BY DEF Hit
<1>8. TypeOK' /\ MemoryIsBounded' /\ Lookups' /\ Emptied'
  BY <1>6, <1>7 DEF TypeOK, MemoryIsBounded, Lookups, Starter, Emptied
<1>9. Ages'
  <2>1. \A j \in Keys : newest'[j] <= db[j]
    BY <1>1, <1>3, <1>6 DEF Ages
  <2>2. ASSUME NEW d \in Calls, HasRead(d) PROVE newest'[call[d].key] <= call[d].row
    <3>1. call[d].key \in Keys
      BY <2>2, WaitingCalls DEF HasRead, Starter
    <3> QED BY <1>1, <1>3, <1>6, <2>2, <3>1 DEF Ages
  <2>3. \A d \in Calls : HasRead(d)' <=> HasRead(d)
    BY <1>7 DEF HasRead, Starter, Asked
  <2> QED BY <1>7, <2>1, <2>2, <2>3 DEF Ages
<1>10. Young'
  <2> SUFFICES ASSUME NEW n \in DOMAIN memory PROVE memory[n].expired \/ memory[n].product >= newest'[memory[n].key]
    BY <1>7 DEF Young
  <2>1. memory[n] \in Entry
    BY ElementOfSeq, LenProperties DEF TypeOK
  <2>2. memory[n].key \in Keys
    BY <2>1 DEF Entry
  <2>3. CASE memory[n].key = k
    <3>1. n = i
      BY <1>1, <2>3 DEF MemoryIsBounded
    <3>2. v >= newest[k]
      BY <1>1, <1>3 DEF Young
    <3> QED BY <1>1, <1>3, <1>6, <3>1, <3>2
  <2>4. CASE memory[n].key # k
    BY <1>6, <2>2, <2>4 DEF Young
  <2> QED BY <2>3, <2>4
<1> QED BY <1>8, <1>9, <1>10

\* A call begins to wait, on its own lookup or on another's.
LEMMA MissKeepsRest ==
  ASSUME LookupInv, NEW c \in Calls, NEW k \in Keys, NEW ttl \in BOOLEAN, NEW s \in Calls,
         Miss(c, k, ttl), Await(c, k, ttl, s), UNCHANGED <<db, newest>>
  PROVE  /\ memory' \in Seq(Entry) /\ MemoryIsBounded' /\ Ages' /\ Young' /\ Emptied'
         /\ call' \in [Calls -> Waiting \cup {Idle}]
         /\ call[c] = Idle /\ call'[c] # Idle
         /\ call'[c].key = k /\ call'[c].starter = s /\ call'[c].row = NotRead
         /\ \A d \in Calls : d # c => call'[d] = call[d]
<1> USE DEF LookupInv
<1>1. PICK w : w = [key |-> k, caches |-> ttl, starter |-> s, row |-> NotRead]
  OBVIOUS
<1>2. w \in Waiting /\ w.key = k /\ w.caches = ttl /\ w.starter = s /\ w.row = NotRead
  BY <1>1 DEF Waiting, NotRead
<1>3. call' = [call EXCEPT ![c] = w]
  BY <1>1 DEF Await
<1>4. /\ call' \in [Calls -> Waiting \cup {Idle}]
      /\ call'[c] = w /\ call'[c] # Idle
      /\ \A d \in Calls : d # c => call'[d] = call[d]
  BY <1>2, <1>3, WaitingIsNotIdle DEF TypeOK
<1>5. /\ memory' \in Seq(Entry) /\ MemoryIsBounded' /\ Kept
      /\ ttl => \A i \in DOMAIN memory' : memory'[i].key # k
  BY MissKeepsMap
<1>6. db' = db /\ newest' = newest
  OBVIOUS
<1>7. \A d \in Calls : HasRead(d)' => d # c /\ HasRead(d)
  BY <1>2, <1>4 DEF HasRead, Starter, Asked
<1>8. Ages'
  <2>1. \A i \in DOMAIN memory' : memory'[i].product <= db[memory'[i].key]
    BY <1>5 DEF Ages, Kept
  <2>2. ASSUME NEW d \in Calls, HasRead(d)'
        PROVE  /\ newest[call'[d].key] <= call'[d].row /\ call'[d].row <= db[call'[d].key]
               /\ \A i \in DOMAIN memory' : memory'[i].key = call'[d].key => memory'[i].product <= call'[d].row
    <3>1. HasRead(d) /\ call'[d] = call[d]
      BY <1>4, <1>7, <2>2
    <3> QED BY <1>5, <3>1 DEF Ages, Kept
  <2> QED BY <1>6, <2>1, <2>2 DEF Ages
<1>9. Young'
  BY <1>5, <1>6 DEF Young, Kept
<1>10. Emptied'
  <2> SUFFICES ASSUME NEW d \in Calls, call'[d] # Idle, call'[d].caches, NEW i \in DOMAIN memory'
               PROVE  memory'[i].key # call'[d].key
    BY DEF Emptied
  <2>1. CASE d = c
    BY <1>2, <1>4, <1>5, <2>1
  <2>2. CASE d # c
    BY <1>4, <1>5, <2>2 DEF Emptied, Kept
  <2> QED BY <2>1, <2>2
<1>11. call[c] = Idle
  BY DEF Miss
<1> QED BY <1>2, <1>4, <1>5, <1>8, <1>9, <1>10, <1>11

\* Lookups after a step, said of the calls by name.
LEMMA LookupsHoldIf ==
  ASSUME \A d \in Calls : Starter(d)' => inFlight'[call'[d].key] = d,
         \A j \in Keys : inFlight'[j] # Nobody =>
           \E e \in Calls : inFlight'[j] = e /\ Starter(e)' /\ call'[e].key = j,
         \A d \in Calls : call'[d] # Idle =>
           \E e \in Calls :
             /\ call'[d].starter = e /\ Starter(e)' /\ call'[e].key = call'[d].key
             /\ e # d => call'[d].row = NotRead
  PROVE  Lookups'
BY DEF Lookups, Starter

LEMMA JoinKeepsInv ==
  ASSUME LookupInv, NEW c \in Calls, NEW k \in Keys, NEW ttl \in BOOLEAN, Join(c, k, ttl)
  PROVE  LookupInv'
<1>1. PICK s : s = inFlight[k]
  OBVIOUS
<1>2. s \in Calls /\ Starter(s) /\ call[s].key = k
  BY <1>1 DEF LookupInv, Lookups, TypeOK, Join
<1>3. Miss(c, k, ttl) /\ Await(c, k, ttl, s) /\ UNCHANGED <<db, newest>> /\ inFlight' = inFlight
  BY <1>1, <1>2 DEF Join, Runs, Starter
<1>4. /\ memory' \in Seq(Entry) /\ MemoryIsBounded' /\ Ages' /\ Young' /\ Emptied'
      /\ call' \in [Calls -> Waiting \cup {Idle}]
      /\ call[c] = Idle /\ call'[c] # Idle
      /\ call'[c].key = k /\ call'[c].starter = s /\ call'[c].row = NotRead
      /\ \A d \in Calls : d # c => call'[d] = call[d]
  BY <1>2, <1>3, MissKeepsRest
<1>5. TypeOK'
  BY <1>3, <1>4 DEF LookupInv, TypeOK
<1>6. s # c /\ \A d \in Calls : Starter(d)' <=> Starter(d)
  BY <1>2, <1>4 DEF Starter
<1>7. Lookups'
  <2>1. \A d \in Calls : Starter(d)' => inFlight'[call'[d].key] = d
    BY <1>3, <1>4, <1>6 DEF LookupInv, Lookups, Starter
  <2>2. ASSUME NEW j \in Keys, inFlight'[j] # Nobody
        PROVE  \E e \in Calls : inFlight'[j] = e /\ Starter(e)' /\ call'[e].key = j
    <3>1. PICK e \in Calls : inFlight[j] = e /\ Starter(e) /\ call[e].key = j
      BY <1>3, <2>2 DEF LookupInv, Lookups, TypeOK
    <3>2. e # c
      BY <1>4, <3>1 DEF Starter
    <3> QED BY <1>3, <1>4, <1>6, <3>1, <3>2
  <2>3. ASSUME NEW d \in Calls, call'[d] # Idle
        PROVE  \E e \in Calls :
                 /\ call'[d].starter = e /\ Starter(e)' /\ call'[e].key = call'[d].key
                 /\ e # d => call'[d].row = NotRead
    <3>1. CASE d = c
      BY <1>2, <1>4, <1>6, <3>1
    <3>2. CASE d # c
      <4>1. PICK e \in Calls :
              /\ call[d].starter = e /\ Starter(e) /\ call[e].key = call[d].key
              /\ e # d => call[d].row = NotRead
        BY <1>4, <2>3, <3>2, WaitingCalls DEF LookupInv, Lookups
      <4>2. e # c
        BY <1>4, <4>1 DEF Starter
      <4> QED BY <1>4, <1>6, <3>2, <4>1, <4>2
    <3> QED BY <3>1, <3>2
  <2> QED BY <2>1, <2>2, <2>3, LookupsHoldIf
<1> QED BY <1>4, <1>5, <1>7 DEF LookupInv

LEMMA StartKeepsInv ==
  ASSUME LookupInv, NEW c \in Calls, NEW k \in Keys, NEW ttl \in BOOLEAN, Start(c, k, ttl)
  PROVE  LookupInv'
<1>1. /\ Miss(c, k, ttl) /\ Await(c, k, ttl, c) /\ UNCHANGED <<db, newest>>
      /\ inFlight[k] = Nobody /\ inFlight' = [inFlight EXCEPT ![k] = c]
  BY DEF Start
<1>2. /\ memory' \in Seq(Entry) /\ MemoryIsBounded' /\ Ages' /\ Young' /\ Emptied'
      /\ call' \in [Calls -> Waiting \cup {Idle}]
      /\ call[c] = Idle /\ call'[c] # Idle
      /\ call'[c].key = k /\ call'[c].starter = c /\ call'[c].row = NotRead
      /\ \A d \in Calls : d # c => call'[d] = call[d]
  BY <1>1, MissKeepsRest
<1>3. inFlight \in [Keys -> Calls \cup {Nobody}]
  BY DEF LookupInv, TypeOK
<1>4. /\ inFlight' \in [Keys -> Calls \cup {Nobody}] /\ inFlight'[k] = c
      /\ \A j \in Keys : j # k => inFlight'[j] = inFlight[j]
  BY <1>1, <1>3
<1>5. TypeOK'
  BY <1>1, <1>2, <1>4 DEF LookupInv, TypeOK
<1>6. Starter(c)' /\ ~ Starter(c) /\ \A d \in Calls : d # c => (Starter(d)' <=> Starter(d))
  BY <1>2 DEF Starter
<1>7. Lookups'
  <2>1. ASSUME NEW d \in Calls, Starter(d)' PROVE inFlight'[call'[d].key] = d
    <3>1. CASE d = c
      BY <1>2, <1>4, <3>1
    <3>2. CASE d # c
      <4>1. Starter(d) /\ call[d].key \in Keys /\ inFlight[call[d].key] = d
        BY <1>6, <2>1, <3>2, WaitingCalls DEF LookupInv, Lookups, Starter
      <4>2. call[d].key # k
        BY <1>1, <4>1
      <4> QED BY <1>2, <1>4, <3>2, <4>1, <4>2
    <3> QED BY <3>1, <3>2
  <2>2. ASSUME NEW j \in Keys, inFlight'[j] # Nobody
        PROVE  \E e \in Calls : inFlight'[j] = e /\ Starter(e)' /\ call'[e].key = j
    <3>1. CASE j = k
      BY <1>2, <1>4, <1>6, <3>1
    <3>2. CASE j # k
      <4>1. PICK e \in Calls : inFlight[j] = e /\ Starter(e) /\ call[e].key = j
        BY <1>3, <1>4, <2>2, <3>2 DEF LookupInv, Lookups
      <4>2. e # c
        BY <1>6, <4>1
      <4> QED BY <1>2, <1>4, <1>6, <3>2, <4>1, <4>2
    <3> QED BY <3>1, <3>2
  <2>3. ASSUME NEW d \in Calls, call'[d] # Idle
        PROVE  \E e \in Calls :
                 /\ call'[d].starter = e /\ Starter(e)' /\ call'[e].key = call'[d].key
                 /\ e # d => call'[d].row = NotRead
    <3>1. CASE d = c
      BY <1>2, <1>6, <3>1
    <3>2. CASE d # c
      <4>1. PICK e \in Calls :
              /\ call[d].starter = e /\ Starter(e) /\ call[e].key = call[d].key
              /\ e # d => call[d].row = NotRead
        BY <1>2, <2>3, <3>2, WaitingCalls DEF LookupInv, Lookups
      <4>2. e # c
        BY <1>6, <4>1
      <4> QED BY <1>2, <1>6, <3>2, <4>1, <4>2
    <3> QED BY <3>1, <3>2
  <2> QED BY <2>1, <2>2, <2>3, LookupsHoldIf
<1> QED BY <1>2, <1>5, <1>7 DEF LookupInv

LEMMA QueryKeepsInv ==
  ASSUME LookupInv, NEW c \in Calls, Query(c)
  PROVE  LookupInv'
<1>1. /\ Starter(c) /\ call[c] # Idle /\ call[c].starter = c /\ call[c].row = NotRead
      /\ UNCHANGED <<db, memory, inFlight, newest>>
  BY DEF Query, Asked, Starter
<1>2. call[c] \in Waiting /\ call[c].key \in Keys
  BY <1>1, WaitingCalls DEF LookupInv
<1>3. PICK v \in 0..MaxChanges : v = db[call[c].key]
  BY <1>2 DEF LookupInv, TypeOK
<1>4. call' = [call EXCEPT ![c].row = v]
  BY <1>3 DEF Query
<1>5. PICK w : w = [call[c] EXCEPT !.row = v]
  OBVIOUS
<1>6. v \in 0..NotRead
  BY DEF NotRead
<1>7. w \in Waiting /\ w.key = call[c].key /\ w.caches = call[c].caches /\ w.starter = c /\ w.row = v
  BY <1>1, <1>2, <1>5, <1>6 DEF Waiting
<1>8. call \in [Calls -> Waiting \cup {Idle}]
  BY DEF LookupInv, TypeOK
<1>9. /\ call' \in [Calls -> Waiting \cup {Idle}]
      /\ call'[c] = w /\ call'[c] # Idle
      /\ \A d \in Calls : d # c => call'[d] = call[d]
  BY <1>4, <1>5, <1>7, <1>8, WaitingIsNotIdle
<1>10. TypeOK' /\ MemoryIsBounded'
  BY <1>1, <1>9 DEF LookupInv, TypeOK, MemoryIsBounded
<1>11. \A d \in Calls : /\ Starter(d)' <=> Starter(d)
                        /\ call'[d] # Idle <=> call[d] # Idle
                        /\ call[d] # Idle => /\ call'[d].key = call[d].key /\ call'[d].caches = call[d].caches
                                             /\ call'[d].starter = call[d].starter
  BY <1>1, <1>7, <1>9 DEF Starter
<1>12. Lookups'
  <2>1. \A d \in Calls : Starter(d)' => inFlight'[call'[d].key] = d
    BY <1>1, <1>11 DEF LookupInv, Lookups, Starter
  <2>2. ASSUME NEW j \in Keys, inFlight'[j] # Nobody
        PROVE  \E e \in Calls : inFlight'[j] = e /\ Starter(e)' /\ call'[e].key = j
    <3>1. PICK e \in Calls : inFlight[j] = e /\ Starter(e) /\ call[e].key = j
      BY <1>1, <2>2 DEF LookupInv, Lookups, TypeOK
    <3> QED BY <1>1, <1>11, <3>1 DEF Starter
  <2>3. ASSUME NEW d \in Calls, call'[d] # Idle
        PROVE  \E e \in Calls :
                 /\ call'[d].starter = e /\ Starter(e)' /\ call'[e].key = call'[d].key
                 /\ e # d => call'[d].row = NotRead
    <3>1. PICK e \in Calls :
            /\ call[d].starter = e /\ Starter(e) /\ call[e].key = call[d].key
            /\ e # d => call[d].row = NotRead
      BY <1>11, <2>3, WaitingCalls DEF LookupInv, Lookups
    <3>2. e # d => d # c
      BY <1>1, <3>1
    <3>3. e # d => call'[d].row = NotRead
      BY <1>9, <3>1, <3>2
    <3> QED BY <1>11, <2>3, <3>1, <3>3 DEF Starter
  <2> QED BY <2>1, <2>2, <2>3, LookupsHoldIf
<1>13. Ages'
  <2>1. ASSUME NEW d \in Calls, HasRead(d)'
        PROVE  /\ newest[call'[d].key] <= call'[d].row /\ call'[d].row <= db[call'[d].key]
               /\ \A i \in DOMAIN memory : memory[i].key = call'[d].key => memory[i].product <= call'[d].row
    <3>1. CASE d = c
      BY <1>2, <1>3, <1>7, <1>9, <3>1 DEF LookupInv, Ages
    <3>2. CASE d # c
      <4>1. HasRead(d) /\ call'[d] = call[d]
        BY <1>9, <2>1, <3>2 DEF HasRead, Starter, Asked
      <4> QED BY <4>1 DEF LookupInv, Ages
    <3> QED BY <3>1, <3>2
  <2> QED BY <1>1, <2>1 DEF LookupInv, Ages
<1>14. Young' /\ Emptied'
  BY <1>1, <1>11 DEF LookupInv, Young, Emptied
<1> QED BY <1>10, <1>12, <1>13, <1>14 DEF LookupInv

\* A lookup is over: who still waits, waits for another key.
LEMMA LookupEnds ==
  ASSUME TypeOK, Lookups, NEW c \in Calls, Starter(c), Resume(c),
         inFlight' = [inFlight EXCEPT ![call[c].key] = Nobody]
  PROVE  /\ call' \in [Calls -> Waiting \cup {Idle}] /\ inFlight' \in [Keys -> Calls \cup {Nobody}]
         /\ Lookups'
         /\ \A d \in Calls : call'[d] # Idle => call'[d] = call[d] /\ call[d].key # call[c].key
<1>1. call[c] # Idle /\ call[c].starter = c /\ call[c].key \in Keys
  BY WaitingCalls DEF Starter
<1>2. /\ call \in [Calls -> Waiting \cup {Idle}] /\ inFlight \in [Keys -> Calls \cup {Nobody}]
  BY DEF TypeOK
<1>3. call' = [d \in Calls |-> IF d \in Callers(c) THEN Idle ELSE call[d]]
  BY DEF Resume
<1>4. /\ call' \in [Calls -> Waiting \cup {Idle}]
      /\ \A d \in Calls : d \in Callers(c) => call'[d] = Idle
      /\ \A d \in Calls : d \notin Callers(c) => call'[d] = call[d]
  BY <1>2, <1>3
<1>5. /\ inFlight' \in [Keys -> Calls \cup {Nobody}] /\ inFlight'[call[c].key] = Nobody
      /\ \A j \in Keys : j # call[c].key => inFlight'[j] = inFlight[j]
  BY <1>1, <1>2
<1>6. ASSUME NEW d \in Calls, call'[d] # Idle
      PROVE  /\ call'[d] = call[d] /\ call[d].key \in Keys /\ call[d].key # call[c].key
             /\ \E e \in Calls :
                  /\ call[d].starter = e /\ Starter(e) /\ call[e].key = call[d].key /\ e # c
                  /\ e # d => call[d].row = NotRead
  <2>1. call'[d] = call[d] /\ call[d] # Idle /\ d \notin Callers(c)
    BY <1>4, <1>6
  <2>2. call[d].key \in Keys /\ call[d].starter \in Calls /\ call[d].starter # c
    BY <2>1, WaitingCalls DEF Callers
  <2>3. PICK e \in Calls : e = call[d].starter
    BY <2>2
  <2>4. Starter(e) /\ call[e].key = call[d].key /\ (e # d => call[d].row = NotRead)
    BY <2>1, <2>3 DEF Lookups
  <2>5. inFlight[call[d].key] = e /\ inFlight[call[c].key] = c
    BY <2>4 DEF Lookups
  <2> QED BY <2>1, <2>2, <2>3, <2>4, <2>5
<1>7. \A e \in Calls : e # c /\ Starter(e) => e \notin Callers(c)
  BY DEF Starter, Callers
<1>8. \A e \in Calls : Starter(e)' => call'[e] # Idle
  BY DEF Starter
<1>9. \A e \in Calls : e # c /\ Starter(e) => Starter(e)' /\ call'[e] = call[e]
  BY <1>4, <1>7 DEF Starter
<1>10. Lookups'
  <2>1. ASSUME NEW d \in Calls, Starter(d)' PROVE inFlight'[call'[d].key] = d
    <3>1. call'[d] = call[d] /\ call[d].key \in Keys /\ call[d].key # call[c].key /\ Starter(d)
      BY <1>6, <1>8, <2>1 DEF Starter
    <3> QED BY <1>5, <3>1 DEF Lookups
  <2>2. ASSUME NEW j \in Keys, inFlight'[j] # Nobody
        PROVE  \E e \in Calls : inFlight'[j] = e /\ Starter(e)' /\ call'[e].key = j
    <3>1. j # call[c].key /\ inFlight[j] = inFlight'[j]
      BY <1>5, <2>2
    <3>2. PICK e \in Calls : inFlight[j] = e /\ Starter(e) /\ call[e].key = j
      BY <1>2, <2>2, <3>1 DEF Lookups
    <3> QED BY <1>9, <3>1, <3>2
  <2>3. ASSUME NEW d \in Calls, call'[d] # Idle
        PROVE  \E e \in Calls :
                 /\ call'[d].starter = e /\ Starter(e)' /\ call'[e].key = call'[d].key
                 /\ e # d => call'[d].row = NotRead
    <3>1. PICK e \in Calls :
            /\ call[d].starter = e /\ Starter(e) /\ call[e].key = call[d].key /\ e # c
            /\ e # d => call[d].row = NotRead
      BY <1>6, <2>3
    <3> QED BY <1>6, <1>9, <2>3, <3>1
  <2> QED BY <2>1, <2>2, <2>3, LookupsHoldIf
<1> QED BY <1>4, <1>5, <1>6, <1>10

LEMMA FailKeepsInv ==
  ASSUME LookupInv, NEW c \in Calls, Fail(c)
  PROVE  LookupInv'
<1>1. /\ Starter(c) /\ Resume(c) /\ inFlight' = [inFlight EXCEPT ![call[c].key] = Nobody]
      /\ UNCHANGED <<db, memory, newest>>
  BY DEF Fail, Asked
<1>2. /\ call' \in [Calls -> Waiting \cup {Idle}] /\ inFlight' \in [Keys -> Calls \cup {Nobody}]
      /\ Lookups'
      /\ \A d \in Calls : call'[d] # Idle => call'[d] = call[d]
  BY <1>1, LookupEnds DEF LookupInv
<1>3. TypeOK' /\ MemoryIsBounded' /\ Young' /\ Emptied'
  BY <1>1, <1>2 DEF LookupInv, TypeOK, MemoryIsBounded, Young, Emptied
<1>4. \A d \in Calls : HasRead(d)' => HasRead(d) /\ call'[d] = call[d]
  BY <1>2 DEF HasRead, Starter, Asked
<1>5. Ages'
  BY <1>1, <1>4 DEF LookupInv, Ages
<1> QED BY <1>2, <1>3, <1>5 DEF LookupInv

LEMMA LandKeepsInv ==
  ASSUME LookupInv, NEW c \in Calls, Land(c)
  PROVE  LookupInv'
<1> USE DEF LookupInv
<1>1. /\ Starter(c) /\ HasRead(c) /\ Resume(c) /\ call[c].row # NotRead
      /\ inFlight' = [inFlight EXCEPT ![call[c].key] = Nobody] /\ db' = db
  BY DEF Land, HasRead, Asked
<1>2. PICK k \in Keys : k = call[c].key
  BY <1>1, WaitingCalls DEF Starter
<1>3. PICK v \in 0..MaxChanges : v = call[c].row
  BY <1>1, WaitingCalls DEF Starter, NotRead
<1>4. PICK caching \in BOOLEAN : caching <=> \E d \in Callers(c) : call[d].caches
  OBVIOUS
<1>5. /\ call' \in [Calls -> Waiting \cup {Idle}] /\ inFlight' \in [Keys -> Calls \cup {Nobody}]
      /\ Lookups'
      /\ \A d \in Calls : call'[d] # Idle => call'[d] = call[d] /\ call[d].key # k
  BY <1>1, <1>2, LookupEnds
<1>6. Note(k, v, caching)
  BY <1>2, <1>3, <1>4 DEF Land, Note
<1>7. /\ newest' \in [Keys -> 0..MaxChanges]
      /\ \A j \in Keys : j # k => newest'[j] = newest[j]
      /\ newest'[k] = newest[k] \/ (caching /\ newest'[k] = v)
  BY <1>6, NoteKeepsNewest
<1>8. newest[k] <= v /\ v <= db[k] /\ db[k] \in Nat
  BY <1>1, <1>2, <1>3 DEF Ages, TypeOK
<1>9. /\ memory' \in Seq(Entry) /\ MemoryIsBounded'
      /\ \A n \in DOMAIN memory' :
           \/ memory'[n].key = k /\ (memory'[n].product = v \/ (newest'[k] = newest[k] /\ \E i \in DOMAIN memory : memory'[n] = memory[i]))
           \/ memory'[n].key # k /\ \E i \in DOMAIN memory : memory'[n] = memory[i]
  <2>1. CASE call[c].caches
    <3>1. memory' = Put(k, v)
      BY <1>2, <1>3, <2>1 DEF Land
    <3>2. TypeOK /\ DistinctKeys /\ Len(memory) <= MaxEntries
      BY DEF MemoryIsBounded, DistinctKeys
    <3>3. /\ Put(k, v) \in Seq(Entry) /\ Len(Put(k, v)) <= MaxEntries
          /\ \A m, n \in DOMAIN Put(k, v) : Put(k, v)[m].key = Put(k, v)[n].key => m = n
          /\ \A n \in DOMAIN Put(k, v) :
               \/ Put(k, v)[n].key = k /\ Put(k, v)[n].product = v
               \/ Put(k, v)[n].key # k /\ \E i \in DOMAIN memory : Put(k, v)[n] = memory[i]
      BY ONLY <3>2, LookupAssumption, PutKeepsMap
    <3>4. /\ memory' \in Seq(Entry) /\ Len(memory') <= MaxEntries
          /\ \A m, n \in DOMAIN memory' : memory'[m].key = memory'[n].key => m = n
          /\ \A n \in DOMAIN memory' :
               \/ memory'[n].key = k /\ memory'[n].product = v
               \/ memory'[n].key # k /\ \E i \in DOMAIN memory : memory'[n] = memory[i]
      BY ONLY <3>1, <3>3
    <3> QED BY <3>4 DEF MemoryIsBounded
  <2>2. CASE ~ call[c].caches
    <3>1. memory' = memory
      BY <2>2 DEF Land
    <3>2. ASSUME caching, NEW n \in DOMAIN memory PROVE memory[n].key # k
      <4>1. PICK d \in Calls : call[d] # Idle /\ call[d].starter = c /\ call[d].caches
        BY <1>4, <3>2 DEF Callers
      <4>2. call[d].key = k
        BY <1>2, <4>1 DEF Lookups
      <4> QED BY <4>1, <4>2 DEF Emptied
    <3>3. MemoryIsBounded' /\ memory' \in Seq(Entry)
      BY <3>1 DEF MemoryIsBounded, TypeOK
    <3> QED BY <1>7, <3>1, <3>2, <3>3
  <2> QED BY <2>1, <2>2
<1>10. TypeOK'
  BY <1>1, <1>5, <1>7, <1>9 DEF TypeOK
<1>11. \A n \in DOMAIN memory' : memory'[n].key \in Keys /\ memory'[n].product \in Nat
  <2>1. \A n \in DOMAIN memory' : memory'[n] \in Entry
    BY <1>9, ElementOfSeq, LenProperties
  <2> QED BY <2>1 DEF Entry
<1>12. \A d \in Calls : HasRead(d)' => HasRead(d) /\ call'[d] = call[d] /\ call[d].key # k /\ call[d].key \in Keys
  BY <1>5, WaitingCalls DEF HasRead, Starter, Asked
<1>13. Ages'
  <2>1. \A j \in Keys : newest'[j] <= db[j]
    BY <1>7, <1>8 DEF Ages
  <2>2. \A n \in DOMAIN memory' : memory'[n].product <= db[memory'[n].key]
    BY <1>8, <1>9, <1>11 DEF Ages
  <2>3. ASSUME NEW d \in Calls, HasRead(d)'
        PROVE  /\ newest'[call'[d].key] <= call'[d].row /\ call'[d].row <= db[call'[d].key]
               /\ \A n \in DOMAIN memory' : memory'[n].key = call'[d].key => memory'[n].product <= call'[d].row
    <3>1. HasRead(d) /\ call'[d] = call[d] /\ call[d].key # k /\ call[d].key \in Keys
      BY <1>12, <2>3
    <3> QED BY <1>7, <1>9, <3>1 DEF Ages
  <2> QED BY <1>1, <2>1, <2>2, <2>3 DEF Ages
<1>14. Young'
  <2> SUFFICES ASSUME NEW n \in DOMAIN memory'
               PROVE  memory'[n].expired \/ memory'[n].product >= newest'[memory'[n].key]
    BY DEF Young
  <2>1. memory'[n].key \in Keys /\ memory'[n].product \in Nat /\ newest[k] \in Nat
    BY <1>11 DEF TypeOK
  <2>2. CASE memory'[n].key = k /\ memory'[n].product = v
    BY <1>7, <1>8, <2>2
  <2>3. CASE newest'[memory'[n].key] = newest[memory'[n].key] /\ \E i \in DOMAIN memory : memory'[n] = memory[i]
    BY <2>3 DEF Young
  <2> QED BY <1>7, <1>9, <2>1, <2>2, <2>3
<1>15. Emptied'
  BY <1>5, <1>9 DEF Emptied
<1> QED BY <1>5, <1>9, <1>10, <1>13, <1>14, <1>15

LEMMA ChangeKeepsInv ==
  ASSUME LookupInv, NEW k \in Keys, Change(k)
  PROVE  LookupInv'
<1>1. /\ db \in [Keys -> 0..MaxChanges] /\ db[k] < MaxChanges /\ db' = [db EXCEPT ![k] = db[k] + 1]
      /\ UNCHANGED <<memory, inFlight, call, newest>>
  BY DEF Change, LookupInv, TypeOK
<1>2. db' \in [Keys -> 0..MaxChanges] /\ \A j \in Keys : db[j] \in Nat /\ db'[j] \in Nat /\ db[j] <= db'[j]
  BY <1>1
<1>3. TypeOK' /\ MemoryIsBounded' /\ Lookups' /\ Young' /\ Emptied'
  BY <1>1, <1>2 DEF LookupInv, TypeOK, MemoryIsBounded, Lookups, Young, Emptied, Starter
<1>4. Ages'
  <2>1. \A j \in Keys : newest[j] \in Nat /\ newest[j] <= db'[j]
    BY <1>2 DEF LookupInv, Ages, TypeOK
  <2>2. ASSUME NEW i \in DOMAIN memory PROVE memory[i].product <= db'[memory[i].key]
    <3>1. memory[i] \in Entry
      BY ElementOfSeq, LenProperties DEF LookupInv, TypeOK
    <3>2. memory[i].key \in Keys /\ memory[i].product \in Nat
      BY <3>1 DEF Entry
    <3> QED BY <1>2, <3>2 DEF LookupInv, Ages
  <2>3. ASSUME NEW d \in Calls, HasRead(d)
        PROVE  call[d].row <= db'[call[d].key]
    <3>1. call[d].key \in Keys /\ call[d].row \in Nat
      BY <2>3, WaitingCalls DEF HasRead, Starter, LookupInv, NotRead
    <3> QED BY <1>2, <2>3, <3>1 DEF LookupInv, Ages
  <2>4. \A d \in Calls : HasRead(d)' <=> HasRead(d)
    BY <1>1 DEF HasRead, Starter, Asked
  <2> QED BY <1>1, <2>1, <2>2, <2>3, <2>4 DEF LookupInv, Ages
<1> QED BY <1>3, <1>4 DEF LookupInv

LEMMA ExpireKeepsInv ==
  ASSUME LookupInv, NEW e \in DOMAIN memory, Expire(e)
  PROVE  LookupInv'
<1>1. memory' \in Seq(Entry) /\ MemoryIsBounded' /\ Kept /\ UNCHANGED <<db, inFlight, call, newest>>
  BY ExpireKeepsMap DEF LookupInv, Expire
<1>2. TypeOK' /\ Lookups' /\ Young' /\ Emptied'
  BY <1>1 DEF LookupInv, TypeOK, Lookups, Young, Emptied, Kept, Starter
<1>3. \A d \in Calls : HasRead(d)' <=> HasRead(d)
  BY <1>1 DEF HasRead, Starter, Asked
<1>4. Ages'
  BY <1>1, <1>3 DEF LookupInv, Ages, Kept
<1> QED BY <1>1, <1>2, <1>4 DEF LookupInv

-----------------------------------------------------------------------------
(***************************************************************************)
(* The theorems.                                                           *)
(***************************************************************************)
LEMMA LookupInvInit ==
  ASSUME Init
  PROVE  LookupInv
<1>1. memory = << >> /\ memory \in Seq(Entry) /\ Len(memory) = 0 /\ DOMAIN memory = {}
  BY LenProperties, EmptySeq DEF Init
<1>2. \A k \in Keys : db[k] = 0 /\ newest[k] = 0 /\ inFlight[k] = Nobody
  BY DEF Init
<1>3. \A c \in Calls : call[c] = Idle /\ ~ Starter(c) /\ ~ HasRead(c)
  BY DEF Init, Starter, HasRead
<1>4. TypeOK
  BY <1>1 DEF Init, TypeOK
<1>5. MemoryIsBounded
  BY <1>1 DEF MemoryIsBounded
<1>6. Lookups
  BY <1>2, <1>3 DEF Lookups
<1>7. Ages /\ Young /\ Emptied
  BY <1>1, <1>2, <1>3 DEF Ages, Young, Emptied
<1> QED BY <1>4, <1>5, <1>6, <1>7 DEF LookupInv

LEMMA LookupInvNext ==
  ASSUME LookupInv, [Next]_vars
  PROVE  LookupInv'
<1>1. CASE UNCHANGED vars
  <2>1. UNCHANGED <<db, memory, inFlight, call, newest>>
    BY <1>1 DEF vars
  <2>2. TypeOK' /\ MemoryIsBounded' /\ Lookups' /\ Young' /\ Emptied'
    BY <2>1 DEF LookupInv, TypeOK, MemoryIsBounded, Lookups, Young, Emptied, Starter
  <2>3. Ages'
    BY <2>1 DEF LookupInv, Ages, HasRead, Starter, Asked
  <2> QED BY <2>2, <2>3 DEF LookupInv
<1>2. CASE \E c \in Calls, k \in Keys : Hit(c, k)
  BY <1>2, HitKeepsInv
<1>3. CASE \E c \in Calls, k \in Keys, ttl \in BOOLEAN : Join(c, k, ttl)
  BY <1>3, JoinKeepsInv
<1>4. CASE \E c \in Calls, k \in Keys, ttl \in BOOLEAN : Start(c, k, ttl)
  BY <1>4, StartKeepsInv
<1>5. CASE \E c \in Calls : Query(c)
  BY <1>5, QueryKeepsInv
<1>6. CASE \E c \in Calls : Land(c)
  BY <1>6, LandKeepsInv
<1>7. CASE \E c \in Calls : Fail(c)
  BY <1>7, FailKeepsInv
<1>8. CASE \E k \in Keys : Change(k)
  BY <1>8, ChangeKeepsInv
<1>9. CASE \E i \in DOMAIN memory : Expire(i)
  BY <1>9, ExpireKeepsInv
<1> QED BY <1>1, <1>2, <1>3, <1>4, <1>5, <1>6, <1>7, <1>8, <1>9 DEF Next

LEMMA LookupInvHolds == Spec => []LookupInv
<1> QED BY LookupInvInit, LookupInvNext, PTL DEF Spec

\* What the lookups write stays of the kind the rest of findById expects.
THEOREM LookupIsTyped == Spec => []TypeOK
<1>1. LookupInv => TypeOK
  BY DEF LookupInv
<1> QED BY <1>1, LookupInvHolds, PTL

\* For any number of callers and products, the map of lookups in flight holds exactly the
\* lookups that run: a failed or finished one is not there for later callers, and no
\* product has two of them.
THEOREM FlightsAlwaysRun == Spec => []FlightsAreLookups
<1>1. LookupInv => FlightsAreLookups
  BY DEF LookupInv, Lookups, FlightsAreLookups, Runs, Starter
<1> QED BY <1>1, LookupInvHolds, PTL

\* With any number of products and callers, MAX_CACHE_ENTRIES is never passed and
\* no product is in the map twice: a lookup that lands in a full map makes room
\* first, whatever expired, was deleted or landed while it was away.
THEOREM MemoryIsAlwaysBounded == Spec => []MemoryIsBounded
<1>1. LookupInv => MemoryIsBounded
  BY DEF LookupInv
<1> QED BY <1>1, LookupInvHolds, PTL

\* A caller that accepts cached products is never given an older one than such a
\* caller was given before, by the map or by any lookup it joined.
THEOREM CachedReadsNeverAge == Spec => []CachedReadsNeverGoBack
<1>1. ASSUME LookupInv PROVE CachedReadsNeverGoBack
  <2>1. \A c \in Calls : Starter(c) /\ ~ Asked(c) => call[c].row >= newest[call[c].key]
    <3> SUFFICES ASSUME NEW c \in Calls, HasRead(c) PROVE call[c].row >= newest[call[c].key]
      BY DEF HasRead
    <3>1. call[c].key \in Keys /\ call[c].row \in Nat
      BY <1>1, WaitingCalls DEF LookupInv, HasRead, Starter, NotRead
    <3>2. newest[call[c].key] \in Nat /\ newest[call[c].key] <= call[c].row
      BY <1>1, <3>1 DEF LookupInv, Ages, TypeOK
    <3> QED BY <3>1, <3>2
  <2> QED BY <1>1, <2>1 DEF LookupInv, Young, CachedReadsNeverGoBack
<1> QED BY <1>1, LookupInvHolds, PTL
=============================================================================
