---------------------------- MODULE ProductLookup ----------------------------
(***************************************************************************)
(* ProductsService.findById: a map of products with a lifetime in the      *)
(* memory of one API process, and a map of the database lookups in flight, *)
(* which later calls for the same product join.                            *)
(*                                                                         *)
(* A product is the number of its committed changes, so "older" is "<".    *)
(* An action is what the event loop runs between two awaits.  A lifetime   *)
(* may end at any moment.  A call says whether it caches (ttlMs > 0) or    *)
(* wants the database (ttlMs <= 0).  At this commit only tests call        *)
(* findById, with both kinds of lifetime.                                  *)
(***************************************************************************)
EXTENDS Naturals, Sequences, FiniteSets

CONSTANTS
  Calls,       \* callers of findById, each with one call at a time
  Keys,        \* product ids
  MaxEntries,  \* MAX_CACHE_ENTRIES, 128 in the code
  MaxChanges,  \* bound: committed changes of a product
  Nobody       \* no call

ASSUME LookupAssumption ==
  /\ MaxEntries \in Nat \ {0}
  /\ MaxChanges \in Nat
  /\ Nobody \notin Calls

VARIABLES
  db,        \* the current row of each product
  memory,    \* memoryCache in insertion order: key, product, whether it has expired
  inFlight,  \* inFlightProductLookups: the call that started the key's lookup
  call,      \* what each caller waits for, or Idle
  newest     \* history: the newest product a caching call has returned, per key

vars == <<db, memory, inFlight, call, newest>>

NotRead == MaxChanges + 1
Entry   == [key : Keys, product : 0..MaxChanges, expired : BOOLEAN]

\* A call that awaits the lookup started by starter; row is what the query of
\* a starter's lookup has read.
Waiting == [key : Keys, caches : BOOLEAN, starter : Calls, row : 0..NotRead]
Idle    == [row |-> NotRead]

TypeOK ==
  /\ db \in [Keys -> 0..MaxChanges]
  /\ memory \in Seq(Entry)
  /\ inFlight \in [Keys -> Calls \cup {Nobody}]
  /\ call \in [Calls -> Waiting \cup {Idle}]
  /\ newest \in [Keys -> 0..MaxChanges]

Init ==
  /\ db = [k \in Keys |-> 0]
  /\ memory = << >>
  /\ inFlight = [k \in Keys |-> Nobody]
  /\ call = [c \in Calls |-> Idle]
  /\ newest = [k \in Keys |-> 0]

-----------------------------------------------------------------------------
\* Deleting from a map leaves the entries at the other places, in their order.
Nth(places, n) == CHOOSE i \in places : Cardinality({k \in places : k <= i}) = n
Keep(places)   == [n \in 1..Cardinality(places) |-> memory[Nth(places, n)]]

\* memoryCache.get and memoryCache.delete
Cached(k)  == {memory[i] : i \in {n \in DOMAIN memory : memory[n].key = k}}
Without(k) == Keep({i \in DOMAIN memory : memory[i].key # k})
Fresh(k)   == \E e \in Cached(k) : ~ e.expired

\* v has been handed to the callers of k, caching ones among them or not.
Note(k, v, caching) ==
  newest' = [newest EXCEPT ![k] = IF caching /\ v > @ THEN v ELSE @]

\* The entry is alive and the call accepts it.
Hit(c, k) ==
  /\ call[c] = Idle
  /\ \E e \in Cached(k) : ~ e.expired /\ Note(k, e.product, TRUE)
  /\ UNCHANGED <<db, memory, inFlight, call>>

\* No hit: an expired entry is deleted, one that is bypassed stays.
Miss(c, k, ttl) ==
  /\ call[c] = Idle
  /\ ~ (ttl /\ Fresh(k))
  /\ memory' = IF Fresh(k) THEN memory ELSE Without(k)

Await(c, k, ttl, starter) ==
  call' = [call EXCEPT ![c] =
             [key |-> k, caches |-> ttl, starter |-> starter, row |-> NotRead]]

\* The lookup that c has started for k is not over.
Runs(c, k) == call[c] # Idle /\ call[c].starter = c /\ call[c].key = k

\* Whatever its own ttl is, a call joins the lookup of the map.  A promise that is
\* settled would answer at once.
Join(c, k, ttl) ==
  /\ Miss(c, k, ttl)
  /\ inFlight[k] # Nobody
  /\ IF Runs(inFlight[k], k) THEN Await(c, k, ttl, inFlight[k]) ELSE UNCHANGED call
  /\ UNCHANGED <<db, inFlight, newest>>

StartAlways(c, k, ttl) ==   \* mutant: every miss starts a lookup of its own
  /\ Miss(c, k, ttl)
  /\ inFlight' = [inFlight EXCEPT ![k] = c]
  /\ Await(c, k, ttl, c)
  /\ UNCHANGED <<db, newest>>

Start(c, k, ttl) ==
  /\ Miss(c, k, ttl)
  /\ inFlight[k] = Nobody
  /\ inFlight' = [inFlight EXCEPT ![k] = c]
  /\ Await(c, k, ttl, c)
  /\ UNCHANGED <<db, newest>>

Starter(c) == call[c] # Idle /\ call[c].starter = c
Asked(c)   == Starter(c) /\ call[c].row = NotRead

\* PostgreSQL answers the query of the lookup that c has started.
Query(c) ==
  /\ Asked(c)
  /\ call' = [call EXCEPT ![c].row = db[call[c].key]]
  /\ UNCHANGED <<db, memory, inFlight, newest>>

-----------------------------------------------------------------------------
(***************************************************************************)
(* setInCache: when the map is full the expired entries go first, then the *)
(* oldest one; a key that is still there keeps its place.                  *)
(***************************************************************************)
Swept == IF Len(memory) >= MaxEntries THEN Keep({i \in DOMAIN memory : ~ memory[i].expired}) ELSE memory
RoomyLate == IF Len(Swept) > MaxEntries THEN Tail(Swept) ELSE Swept  \* mutant: size > MAX
Roomy == IF Len(Swept) >= MaxEntries THEN Tail(Swept) ELSE Swept

Put(k, v) ==
  LET entry == [key |-> k, product |-> v, expired |-> FALSE]
  IN  IF \E i \in DOMAIN Roomy : Roomy[i].key = k
      THEN [i \in DOMAIN Roomy |-> IF Roomy[i].key = k THEN entry ELSE Roomy[i]]
      ELSE Append(Roomy, entry)

Callers(c) == {d \in Calls : call[d] # Idle /\ call[d].starter = c}
Resume(c)  == call' = [d \in Calls |-> IF d \in Callers(c) THEN Idle ELSE call[d]]

\* The lookup is over: its product is cached if its starter caches, the key is
\* no longer in flight, and every call that awaits it returns.
Land(c) ==
  /\ Starter(c) /\ ~ Asked(c)
  /\ memory' = IF call[c].caches THEN Put(call[c].key, call[c].row) ELSE memory
  /\ inFlight' = [inFlight EXCEPT ![call[c].key] = Nobody]
  /\ Resume(c)
  /\ Note(call[c].key, call[c].row, \E d \in Callers(c) : call[d].caches)
  /\ UNCHANGED db

FailAndStay(c) ==           \* mutant: the key is deleted only after a success
  /\ Asked(c)
  /\ Resume(c)
  /\ UNCHANGED <<db, memory, inFlight, newest>>

\* The query fails: all its callers get the error and nothing is cached.
Fail(c) ==
  /\ Asked(c)
  /\ inFlight' = [inFlight EXCEPT ![call[c].key] = Nobody]
  /\ Resume(c)
  /\ UNCHANGED <<db, memory, newest>>

-----------------------------------------------------------------------------
\* An order or a seed changes the product.
Change(k) ==
  /\ db[k] < MaxChanges
  /\ db' = [db EXCEPT ![k] = @ + 1]
  /\ UNCHANGED <<memory, inFlight, call, newest>>

Expire(i) ==
  /\ ~ memory[i].expired
  /\ memory' = [memory EXCEPT ![i].expired = TRUE]
  /\ UNCHANGED <<db, inFlight, call, newest>>

Next ==
  \/ \E c \in Calls, k \in Keys :
       \/ Hit(c, k)
       \/ \E ttl \in BOOLEAN : Join(c, k, ttl) \/ Start(c, k, ttl)
  \/ \E c \in Calls : Query(c) \/ Land(c) \/ Fail(c)
  \/ \E k \in Keys : Change(k)
  \/ \E i \in DOMAIN memory : Expire(i)

Spec == Init /\ [][Next]_vars

-----------------------------------------------------------------------------
\* However lookups overlap, expire and evict, the map holds at most MaxEntries
\* products, each once (MAX_CACHE_ENTRIES).
MemoryIsBounded ==
  /\ Len(memory) <= MaxEntries
  /\ \A i, n \in DOMAIN memory : memory[i].key = memory[n].key => i = n

\* Callers that accept cached products never see one go back in time, whoever's
\* lookup answered them: neither an entry they can still hit nor a lookup they
\* await has an older product than one that such a caller was given before.
\* Callers that bypass the cache have no such order, since what they read does
\* not replace the entry they passed by.
CachedReadsNeverGoBack ==
  /\ \A i \in DOMAIN memory : memory[i].expired \/ memory[i].product >= newest[memory[i].key]
  /\ \A c \in Calls : Starter(c) /\ ~ Asked(c) /\ (\E d \in Callers(c) : call[d].caches) =>
       call[c].row >= newest[call[c].key]

\* The map of lookups in flight holds exactly the lookups that run, each under its
\* product.  So whoever joins one gets what its query is still to bring: no failure
\* and no product of an earlier query is kept for later callers, also when lookups
\* that cache and lookups that do not follow on each other.  And no product is asked
\* for by two queries at a time.
FlightsAreLookups ==
  /\ \A k \in Keys : inFlight[k] # Nobody => Runs(inFlight[k], k)
  /\ \A c \in Calls : Starter(c) => inFlight[call[c].key] = c
=============================================================================
