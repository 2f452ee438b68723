-------------------------- MODULE MarketDataProofs --------------------------
(***************************************************************************)
(* Proofs about MarketData, for any keys, exchanges, times to live, delays *)
(* and queries, and any number of requests.                                *)
(***************************************************************************)
EXTENDS MarketData, TLAPS

-----------------------------------------------------------------------------
(* Types.                                                                  *)

LEMMA InitType == ASSUME Configured, MarketInit PROVE MarketTypeOK
<1>1. <<>> \in Seq(Keys)
  OBVIOUS
<1>2. IdleReader \in Requests
  BY <1>1 DEF IdleReader, Requests
<1>3. QED
  BY <1>2 DEF MarketInit, MarketTypeOK, IdleReader

\* The key of a request that is under way.
LEMMA KeyType ==
    ASSUME MarketTypeOK, NEW r \in Readers, reader[r].pc \notin {"idle", "done"}
    PROVE  Key(r) \in Keys /\ ExchangeOf[Key(r)] \in Sources
<1>1. reader[r].todo \in Seq(Keys) /\ reader[r].todo # <<>>
  BY DEF MarketTypeOK, Requests
<1>2. Key(r) \in Keys
  BY <1>1 DEF Key
<1>3. QED
  BY <1>2 DEF Sources

LEMMA OnwardsType ==
    ASSUME NEW q \in Requests, q.todo # <<>>
    PROVE  LET n == Onwards(q)
           IN /\ n \in Requests
              /\ n.pc = IF Tail(q.todo) = <<>> THEN "done" ELSE "lookup"
              /\ n.todo = Tail(q.todo)
              /\ n.skipped = q.skipped
<1>1. q.todo \in Seq(Keys)
  BY DEF Requests
<1>2. Tail(q.todo) \in Seq(Keys)
  BY <1>1
<1>3. QED
  BY <1>2 DEF Onwards, Requests

\* A step of one request that keeps the type of that request.
LEMMA BecomeType ==
    ASSUME MarketTypeOK, NEW r \in Readers, NEW q \in Requests, SetReader(r, q),
           q.pc \in {"idle", "done"} <=> q.todo = <<>>,
           q.pc = "fetch" => q.source \in Sources
    PROVE  /\ reader' \in [Readers -> Requests]
           /\ \A x \in Readers : /\ reader'[x].pc \in {"idle", "done"} <=> reader'[x].todo = <<>>
                                 /\ reader'[x].pc = "fetch" => reader'[x].source \in Sources
BY DEF MarketTypeOK, SetReader

LEMMA NextType == ASSUME Configured, MarketTypeOK, [MarketNext]_marketVars PROVE MarketTypeOK'
<1>1. ASSUME NEW r \in Readers, NEW ks \in Queries, Ask(r, ks) PROVE MarketTypeOK'
  <2> DEFINE q == [IdleReader EXCEPT !.pc = "lookup", !.todo = ks]
  <2>1. ks \in Seq(Keys) /\ ks # <<>>
    BY DEF Configured
  <2>2. q \in Requests /\ q.pc = "lookup" /\ q.todo # <<>>
    BY <2>1 DEF IdleReader, Requests
  <2>3. SetReader(r, q) /\ UNCHANGED <<cache, lost>>
    BY <1>1 DEF Ask
  <2> HIDE DEF q
  <2>4. QED
    BY <2>2, <2>3, BecomeType DEF MarketTypeOK
<1>2. ASSUME NEW r \in Readers, Lookup(r) PROVE MarketTypeOK'
  <2>1. reader[r] \in Requests /\ reader[r].pc = "lookup" /\ reader[r].todo # <<>>
    BY <1>2 DEF Lookup, MarketTypeOK
  <2>2. CASE IsCached(Key(r))
    <3>1. SetReader(r, Onwards(reader[r])) /\ UNCHANGED <<cache, lost>>
      BY <1>2, <2>2 DEF Lookup
    <3>2. QED
      BY <2>1, <3>1, OnwardsType, BecomeType DEF MarketTypeOK
  <2>3. CASE ~ IsCached(Key(r))
    <3> DEFINE q == [reader[r] EXCEPT !.pc = "fetch", !.source = ExchangeOf[Key(r)]]
    <3>1. SetReader(r, q) /\ UNCHANGED <<cache, lost>>
      BY <1>2, <2>3 DEF Lookup
    <3>2. ExchangeOf[Key(r)] \in Sources
      BY <2>1, KeyType
    <3>3. q \in Requests /\ q.pc = "fetch" /\ q.source \in Sources /\ q.todo # <<>>
      BY <2>1, <3>2 DEF Requests
    <3> HIDE DEF q
    <3>4. QED
      BY <3>1, <3>3, BecomeType DEF MarketTypeOK
  <2>4. QED
    BY <2>2, <2>3
<1>3. ASSUME NEW r \in Readers, Fetch(r) PROVE MarketTypeOK'
  <2> DEFINE q == [reader[r] EXCEPT !.pc = "store", !.age = 0]
  <2>1. reader[r] \in Requests /\ reader[r].todo # <<>>
    BY <1>3 DEF Fetch, MarketTypeOK
  <2>2. q \in Requests /\ q.pc = "store" /\ q.todo # <<>>
    BY <2>1 DEF Requests
  <2>3. SetReader(r, q) /\ UNCHANGED <<cache, lost>>
    BY <1>3 DEF Fetch
  <2> HIDE DEF q
  <2>4. QED
    BY <2>2, <2>3, BecomeType DEF MarketTypeOK
<1>4. ASSUME NEW r \in Readers, FetchFails(r) PROVE MarketTypeOK'
  <2> DEFINE k == Key(r)
             failed == reader[r].failed \cup {reader[r].source}
             second == SecondSource(k, failed)
             skip == [reader[r] EXCEPT !.skipped = @ \cup {[key |-> k, failed |-> failed]}]
  <2>1. /\ reader[r] \in Requests /\ reader[r].todo # <<>> /\ reader[r].pc = "fetch"
        /\ failed \in SUBSET Sources /\ k \in Keys
    BY <1>4, KeyType DEF FetchFails, MarketTypeOK, Requests
  <2>2. UNCHANGED <<cache, lost>>
    BY <1>4 DEF FetchFails
  <2>3. CASE KindOf[k] = "symbols"
    <3> DEFINE q == [reader[r] EXCEPT !.pc = "store", !.age = 0]
    <3>1. SetReader(r, q)
      BY <1>4, <2>3 DEF FetchFails
    <3>2. q \in Requests /\ q.pc = "store" /\ q.todo # <<>>
      BY <2>1 DEF Requests
    <3> HIDE DEF q
    <3>3. QED
      BY <2>2, <3>1, <3>2, BecomeType DEF MarketTypeOK
  <2>4. CASE KindOf[k] # "symbols" /\ second # NoExchange
    <3> DEFINE q == [reader[r] EXCEPT !.source = second, !.failed = failed]
    <3>1. SetReader(r, q)
      BY <1>4, <2>4 DEF FetchFails
    <3>2. second \in Sources
      BY <2>4 DEF SecondSource, Sources
    <3>3. q \in Requests /\ q.pc = "fetch" /\ q.source \in Sources /\ q.todo # <<>>
      BY <2>1, <3>2 DEF Requests
    <3> HIDE DEF q
    <3>4. QED
      BY <2>2, <3>1, <3>3, BecomeType DEF MarketTypeOK
  <2>5. CASE KindOf[k] # "symbols" /\ second = NoExchange
    <3>1. SetReader(r, Onwards(skip))
      BY <1>4, <2>5 DEF FetchFails
    <3>2. skip \in Requests /\ skip.todo # <<>>
      BY <2>1 DEF Requests
    <3> HIDE DEF skip
    <3>3. QED
      BY <2>2, <3>1, <3>2, OnwardsType, BecomeType DEF MarketTypeOK
  <2>6. QED
    BY <2>3, <2>4, <2>5
<1>5. ASSUME NEW r \in Readers, Store(r) PROVE MarketTypeOK'
  <2>1. reader[r] \in Requests /\ reader[r].todo # <<>> /\ reader[r].age \in Nat /\ Key(r) \in Keys
    BY <1>5, KeyType DEF Store, MarketTypeOK, Requests
  <2>2. TtlOf(Key(r)) \in Nat
    BY <2>1 DEF Configured, TtlOf
  <2>3. SetReader(r, Onwards(reader[r])) /\ UNCHANGED lost
    BY <1>5 DEF Store
  <2>4. cache' \in [Keys -> [age : Nat, left : Nat]]
    BY <1>5, <2>1, <2>2 DEF Store, MarketTypeOK
  <2>5. QED
    BY <2>1, <2>3, <2>4, OnwardsType, BecomeType DEF MarketTypeOK
<1>6. ASSUME NEW r \in Readers, Reply(r) \/ LoseRequest(r) PROVE MarketTypeOK'
  <2>1. <<>> \in Seq(Keys)
    OBVIOUS
  <2>2. IdleReader \in Requests /\ IdleReader.pc = "idle" /\ IdleReader.todo = <<>>
    BY <2>1 DEF IdleReader, Requests
  <2>3. SetReader(r, IdleReader) /\ UNCHANGED cache /\ lost' \in Nat
    BY <1>6 DEF Reply, LoseRequest, MarketTypeOK
  <2>4. QED
    BY <2>2, <2>3, BecomeType DEF MarketTypeOK
<1>7. CASE Tick
  <2>1. \A k \in Keys : Older(cache[k]) \in [age : Nat, left : Nat]
    BY DEF Older, MarketTypeOK
  <2>2. ASSUME NEW r \in Readers
        PROVE  /\ reader'[r] \in Requests
               /\ reader'[r].pc = reader[r].pc /\ reader'[r].todo = reader[r].todo
               /\ reader'[r].source = reader[r].source
    <3>1. reader[r] \in Requests
      BY DEF MarketTypeOK
    <3>2. reader'[r] = IF reader[r].pc = "store" THEN [reader[r] EXCEPT !.age = @ + 1] ELSE reader[r]
      BY <1>7 DEF Tick
    <3>3. CASE reader[r].pc = "store"
      <4>1. reader'[r] = [reader[r] EXCEPT !.age = @ + 1]
        BY <3>2, <3>3
      <4>2. reader[r].age + 1 \in Nat
        BY <3>1 DEF Requests
      <4>3. QED
        BY <3>1, <4>1, <4>2 DEF Requests
    <3>4. CASE reader[r].pc # "store"
      BY <3>1, <3>2, <3>4
    <3>5. QED
      BY <3>3, <3>4
  <2>3. reader' \in [Readers -> Requests]
    BY <1>7, <2>2 DEF Tick
  <2>4. cache' \in [Keys -> [age : Nat, left : Nat]] /\ lost' \in Nat
    BY <1>7, <2>1 DEF Tick, MarketTypeOK
  <2>5. QED
    BY <2>2, <2>3, <2>4 DEF MarketTypeOK
<1>8. CASE UNCHANGED marketVars
  BY <1>8 DEF marketVars, MarketTypeOK
<1>9. QED
  BY <1>1, <1>2, <1>3, <1>4, <1>5, <1>6, <1>7, <1>8 DEF MarketNext

\* Type correctness: a request under way has a key it works on, and one that
\* asks has an exchange to ask, in whatever order exchanges fail.
THEOREM TypeCorrect == ASSUME Configured PROVE MarketSpec => []MarketTypeOK
<1>1. MarketInit => MarketTypeOK
  BY InitType
<1>2. MarketTypeOK /\ [MarketNext]_marketVars => MarketTypeOK'
  BY NextType
<1>3. QED
  BY <1>1, <1>2, PTL DEF MarketSpec

-----------------------------------------------------------------------------
(* Staleness.  A value is as old as the time its key has already lived, and *)
(* the delay before it was stored, which Tick bounds.                       *)

FreshStores == \A r \in Readers : reader[r].pc = "store" => reader[r].age <= MaxDelay

LEMMA FreshNext ==
    ASSUME Configured, MarketTypeOK, FreshStores, [MarketNext]_marketVars
    PROVE  FreshStores'
<1>1. ASSUME NEW r \in Readers, NEW q, SetReader(r, q), q.pc = "store" => q.age <= MaxDelay
      PROVE  FreshStores'
  BY <1>1 DEF SetReader, FreshStores, MarketTypeOK
<1>2. ASSUME NEW r \in Readers, reader[r].pc \notin {"idle", "done"}
      PROVE  Onwards(reader[r]).pc # "store"
  BY <1>2, OnwardsType DEF MarketTypeOK
<1>3. 0 <= MaxDelay
  BY DEF Configured
<1>4. ASSUME NEW r \in Readers, NEW ks \in Queries, Ask(r, ks) PROVE FreshStores'
  BY <1>1, <1>4 DEF Ask, IdleReader
<1>5. ASSUME NEW r \in Readers, Lookup(r) PROVE FreshStores'
  <2>1. reader[r] \in Requests /\ reader[r].pc = "lookup"
    BY <1>5 DEF Lookup, MarketTypeOK
  <2>2. CASE IsCached(Key(r))
    BY <1>1, <1>2, <1>5, <2>1, <2>2 DEF Lookup
  <2>3. CASE ~ IsCached(Key(r))
    BY <1>1, <1>5, <2>1, <2>3 DEF Lookup, Requests
  <2>4. QED
    BY <2>2, <2>3
<1>6. ASSUME NEW r \in Readers, Fetch(r) PROVE FreshStores'
  <2>1. reader[r] \in Requests
    BY DEF MarketTypeOK
  <2>2. QED
    BY <1>1, <1>3, <1>6, <2>1 DEF Fetch, Requests
<1>7. ASSUME NEW r \in Readers, FetchFails(r) PROVE FreshStores'
  <2> DEFINE k == Key(r)
             failed == reader[r].failed \cup {reader[r].source}
             second == SecondSource(k, failed)
             skip == [reader[r] EXCEPT !.skipped = @ \cup {[key |-> k, failed |-> failed]}]
  <2>1. reader[r] \in Requests /\ reader[r].todo # <<>> /\ reader[r].pc = "fetch"
        /\ failed \in SUBSET Sources /\ k \in Keys
    BY <1>7, KeyType DEF FetchFails, MarketTypeOK, Requests
  <2>2. CASE KindOf[k] = "symbols"
    <3>1. SetReader(r, [reader[r] EXCEPT !.pc = "store", !.age = 0])
      BY <1>7, <2>2 DEF FetchFails
    <3>2. QED
      BY <1>1, <1>3, <2>1, <3>1 DEF Requests
  <2>3. CASE KindOf[k] # "symbols" /\ second # NoExchange
    <3>1. SetReader(r, [reader[r] EXCEPT !.source = second, !.failed = failed])
      BY <1>7, <2>3 DEF FetchFails
    <3>2. QED
      BY <1>1, <2>1, <3>1 DEF Requests
  <2>4. CASE KindOf[k] # "symbols" /\ second = NoExchange
    <3>1. SetReader(r, Onwards(skip))
      BY <1>7, <2>4 DEF FetchFails
    <3>2. skip \in Requests /\ skip.todo # <<>>
      BY <2>1 DEF Requests
    <3> HIDE DEF skip
    <3>3. Onwards(skip).pc # "store"
      BY <3>2, OnwardsType
    <3>4. QED
      BY <1>1, <3>1, <3>3
  <2>5. QED
    BY <2>2, <2>3, <2>4
<1>8. ASSUME NEW r \in Readers, Store(r) PROVE FreshStores'
  <2>1. SetReader(r, Onwards(reader[r])) /\ reader[r].pc = "store"
    BY <1>8 DEF Store
  <2>2. QED
    BY <1>1, <1>2, <2>1
<1>9. ASSUME NEW r \in Readers, Reply(r) \/ LoseRequest(r) PROVE FreshStores'
  BY <1>1, <1>9 DEF Reply, LoseRequest, IdleReader
<1>10. CASE Tick
  <2>1. ASSUME NEW r \in Readers, reader'[r].pc = "store"
        PROVE  reader'[r].age <= MaxDelay
    <3>1. reader[r] \in Requests
      BY DEF MarketTypeOK
    <3>2. reader'[r] = IF reader[r].pc = "store" THEN [reader[r] EXCEPT !.age = @ + 1] ELSE reader[r]
      BY <1>10 DEF Tick
    <3>3. reader[r].pc = "store"
      BY <2>1, <3>2
    <3>4. reader[r].age < MaxDelay /\ reader'[r].age = reader[r].age + 1
      BY <1>10, <3>1, <3>2, <3>3 DEF Tick, Requests
    <3>5. QED
      BY <3>1, <3>4 DEF Requests, Configured
  <2>2. QED
    BY <2>1 DEF FreshStores
<1>11. CASE UNCHANGED marketVars
  BY <1>11 DEF marketVars, FreshStores
<1>12. QED
  BY <1>4, <1>5, <1>6, <1>7, <1>8, <1>9, <1>10, <1>11 DEF MarketNext

LEMMA StalenessNext ==
    ASSUME Configured, MarketTypeOK, FreshStores, BoundedStaleness, [MarketNext]_marketVars
    PROVE  BoundedStaleness'
<1>1. ASSUME NEW r \in Readers, Store(r) PROVE BoundedStaleness'
  <2>1. /\ reader[r].age \in Nat /\ reader[r].age <= MaxDelay /\ Key(r) \in Keys
    BY <1>1, KeyType DEF Store, MarketTypeOK, Requests, FreshStores
  <2>2. TtlOf(Key(r)) \in Nat /\ MaxDelay \in Nat
    BY <2>1 DEF Configured, TtlOf
  <2>3. cache' = [cache EXCEPT ![Key(r)] = [age |-> reader[r].age, left |-> TtlOf(Key(r))]]
    BY <1>1 DEF Store
  <2>4. ASSUME NEW k \in Keys, cache'[k].left > 0
        PROVE  cache'[k].age + cache'[k].left <= TtlOf(k) + MaxDelay
    <3>1. CASE k = Key(r)
      BY <2>1, <2>2, <2>3, <3>1 DEF MarketTypeOK
    <3>2. CASE k # Key(r)
      BY <2>3, <2>4, <3>2 DEF MarketTypeOK, BoundedStaleness, IsCached
    <3>3. QED
      BY <3>1, <3>2
  <2>5. QED
    BY <2>4 DEF BoundedStaleness, IsCached, TtlOf
<1>2. CASE Tick
  <2>1. ASSUME NEW k \in Keys, cache'[k].left > 0
        PROVE  cache'[k].age + cache'[k].left <= TtlOf(k) + MaxDelay
    <3>1. cache[k].age \in Nat /\ cache[k].left \in Nat /\ cache'[k] = Older(cache[k])
      BY <1>2 DEF Tick, MarketTypeOK
    <3>2. cache[k].left > 1
      BY <2>1, <3>1 DEF Older
    <3>3. cache'[k].age = cache[k].age + 1 /\ cache'[k].left = cache[k].left - 1
      BY <3>1, <3>2 DEF Older
    <3>4. cache[k].age + cache[k].left <= TtlOf(k) + MaxDelay
      BY <3>1, <3>2 DEF BoundedStaleness, IsCached
    <3>5. cache'[k].age + cache'[k].left = cache[k].age + cache[k].left
      BY <3>1, <3>3
    <3>6. QED
      BY <3>4, <3>5
  <2>2. QED
    BY <2>1 DEF BoundedStaleness, IsCached, TtlOf
<1>3. CASE UNCHANGED cache
  BY <1>3 DEF BoundedStaleness, IsCached, TtlOf
<1>4. QED
  BY <1>1, <1>2, <1>3 DEF MarketNext, Ask, Lookup, Fetch, FetchFails, Reply, LoseRequest, marketVars

\* Nothing in a cache is ever older than its time to live and the delay of one
\* store, however many requests miss a key at once and store one after another.
THEOREM StalenessIsBounded == ASSUME Configured PROVE MarketSpec => []BoundedStaleness
<1>1. MarketInit => MarketTypeOK /\ FreshStores /\ BoundedStaleness
  <2>1. MarketInit => FreshStores /\ BoundedStaleness
    BY DEF MarketInit, IdleReader, FreshStores, BoundedStaleness, IsCached
  <2>2. QED
    BY <2>1, InitType
<1>2. MarketTypeOK /\ FreshStores /\ BoundedStaleness /\ [MarketNext]_marketVars
      => MarketTypeOK' /\ FreshStores' /\ BoundedStaleness'
  BY NextType, FreshNext, StalenessNext
<1>3. QED
  BY <1>1, <1>2, PTL DEF MarketSpec

-----------------------------------------------------------------------------
(* Fallback.  The exchanges that failed for a key are kept until the        *)
(* request leaves the key, and its own exchange is the first one asked.     *)

\* What a request that is asking has behind it, or asks now.
OwnIsTried(q) == q.pc = "fetch" => ExchangeOf[Head(q.todo)] \in q.failed \cup {q.source}

SkippedFailed(q) ==
    \A s \in q.skipped :
        {ExchangeOf[s.key]} \cup (IF KindOf[s.key] = "price" THEN {Binance} ELSE {}) \subseteq s.failed

Tried == \A r \in Readers : OwnIsTried(reader[r]) /\ SkippedFailed(reader[r])

LEMMA BecomeTried ==
    ASSUME MarketTypeOK, Tried, NEW r \in Readers, NEW q, SetReader(r, q),
           OwnIsTried(q), SkippedFailed(q)
    PROVE  Tried'
<1>1. ASSUME NEW x \in Readers PROVE OwnIsTried(reader'[x]) /\ SkippedFailed(reader'[x])
  <2>1. CASE x = r
    <3>1. reader'[x] = q
      BY <2>1 DEF SetReader, MarketTypeOK
    <3>2. QED
      BY <3>1
  <2>2. CASE x # r
    <3>1. reader'[x] = reader[x]
      BY <2>2 DEF SetReader, MarketTypeOK
    <3>2. QED
      BY <3>1 DEF Tried
  <2>3. QED
    BY <2>1, <2>2
<1>2. QED
  BY <1>1 DEF Tried, OwnIsTried, SkippedFailed

LEMMA TriedOnwards ==
    ASSUME NEW q \in Requests, q.todo # <<>>, SkippedFailed(q)
    PROVE  OwnIsTried(Onwards(q)) /\ SkippedFailed(Onwards(q))
BY OnwardsType DEF OwnIsTried, SkippedFailed

LEMMA TriedNext ==
    ASSUME Configured, MarketTypeOK, Tried, [MarketNext]_marketVars
    PROVE  Tried'
<1>1. ASSUME NEW r \in Readers, NEW ks \in Queries, Ask(r, ks) PROVE Tried'
  <2> DEFINE q == [IdleReader EXCEPT !.pc = "lookup", !.todo = ks]
  <2>1. q.pc = "lookup" /\ q.skipped = {} /\ SetReader(r, q)
    BY <1>1 DEF IdleReader, Ask
  <2> HIDE DEF q
  <2>2. QED
    BY <2>1, BecomeTried DEF OwnIsTried, SkippedFailed
<1>2. ASSUME NEW r \in Readers, Lookup(r) PROVE Tried'
  <2>1. /\ reader[r] \in Requests /\ reader[r].pc = "lookup" /\ reader[r].todo # <<>>
        /\ SkippedFailed(reader[r])
    BY <1>2 DEF Lookup, MarketTypeOK, Tried
  <2>2. CASE IsCached(Key(r))
    <3>1. SetReader(r, Onwards(reader[r]))
      BY <1>2, <2>2 DEF Lookup
    <3>2. QED
      BY <2>1, <3>1, TriedOnwards, BecomeTried
  <2>3. CASE ~ IsCached(Key(r))
    <3> DEFINE q == [reader[r] EXCEPT !.pc = "fetch", !.source = ExchangeOf[Key(r)]]
    <3>1. SetReader(r, q)
      BY <1>2, <2>3 DEF Lookup
    <3>2. /\ q.source = ExchangeOf[Key(r)] /\ q.todo = reader[r].todo
          /\ q.skipped = reader[r].skipped
      BY <2>1 DEF Requests
    <3> HIDE DEF q
    <3>3. QED
      BY <2>1, <3>1, <3>2, BecomeTried DEF OwnIsTried, SkippedFailed, Key
  <2>4. QED
    BY <2>2, <2>3
<1>3. ASSUME NEW r \in Readers, Fetch(r) PROVE Tried'
  <2> DEFINE q == [reader[r] EXCEPT !.pc = "store", !.age = 0]
  <2>1. reader[r] \in Requests /\ SkippedFailed(reader[r])
    BY DEF MarketTypeOK, Tried
  <2>2. SetReader(r, q) /\ q.pc = "store" /\ q.skipped = reader[r].skipped
    BY <1>3, <2>1 DEF Fetch, Requests
  <2> HIDE DEF q
  <2>3. QED
    BY <2>1, <2>2, BecomeTried DEF OwnIsTried, SkippedFailed
<1>4. ASSUME NEW r \in Readers, FetchFails(r) PROVE Tried'
  <2> DEFINE k == Key(r)
             failed == reader[r].failed \cup {reader[r].source}
             second == SecondSource(k, failed)
             skip == [reader[r] EXCEPT !.skipped = @ \cup {[key |-> k, failed |-> failed]}]
  <2>1. /\ reader[r] \in Requests /\ reader[r].todo # <<>> /\ reader[r].pc = "fetch"
        /\ failed \in SUBSET Sources /\ k \in Keys /\ k = Head(reader[r].todo)
    BY <1>4, KeyType DEF FetchFails, MarketTypeOK, Requests, Key
  <2>2. ExchangeOf[k] \in failed /\ SkippedFailed(reader[r])
    BY <2>1 DEF Tried, OwnIsTried
  <2>3. CASE KindOf[k] = "symbols"
    <3> DEFINE q == [reader[r] EXCEPT !.pc = "store", !.age = 0]
    <3>1. SetReader(r, q) /\ q.pc = "store" /\ q.skipped = reader[r].skipped
      BY <1>4, <2>1, <2>3 DEF FetchFails, Requests
    <3> HIDE DEF q
    <3>2. QED
      BY <2>2, <3>1, BecomeTried DEF OwnIsTried, SkippedFailed
  <2>4. CASE KindOf[k] # "symbols" /\ second # NoExchange
    <3> DEFINE q == [reader[r] EXCEPT !.source = second, !.failed = failed]
    <3>1. SetReader(r, q)
      BY <1>4, <2>4 DEF FetchFails
    <3>2. q.failed = failed /\ q.todo = reader[r].todo /\ q.skipped = reader[r].skipped
      BY <2>1 DEF Requests
    <3> HIDE DEF q
    <3>3. QED
      BY <2>1, <2>2, <3>1, <3>2, BecomeTried DEF OwnIsTried, SkippedFailed
  <2>5. CASE KindOf[k] # "symbols" /\ second = NoExchange
    <3>1. SetReader(r, Onwards(skip))
      BY <1>4, <2>5 DEF FetchFails
    <3>2. /\ skip \in Requests /\ skip.todo # <<>>
          /\ skip.skipped = reader[r].skipped \cup {[key |-> k, failed |-> failed]}
      BY <2>1 DEF Requests
    <3>3. KindOf[k] = "price" => Binance \in failed
      BY <2>5 DEF SecondSource, Configured, Sources
    <3> HIDE DEF skip, failed, k
    <3>4. SkippedFailed(skip)
      BY <2>2, <3>2, <3>3 DEF SkippedFailed
    <3>5. QED
      BY <3>1, <3>2, <3>4, TriedOnwards, BecomeTried
  <2>6. QED
    BY <2>3, <2>4, <2>5
<1>5. ASSUME NEW r \in Readers, Store(r) PROVE Tried'
  <2>1. /\ reader[r] \in Requests /\ reader[r].todo # <<>> /\ SkippedFailed(reader[r])
        /\ SetReader(r, Onwards(reader[r]))
    BY <1>5 DEF Store, MarketTypeOK, Tried
  <2>2. QED
    BY <2>1, TriedOnwards, BecomeTried
<1>6. ASSUME NEW r \in Readers, Reply(r) \/ LoseRequest(r) PROVE Tried'
  <2>1. SetReader(r, IdleReader) /\ OwnIsTried(IdleReader) /\ SkippedFailed(IdleReader)
    BY <1>6 DEF Reply, LoseRequest, IdleReader, OwnIsTried, SkippedFailed
  <2>2. QED
    BY <2>1, BecomeTried
<1>7. CASE Tick
  <2>1. ASSUME NEW r \in Readers PROVE OwnIsTried(reader'[r]) /\ SkippedFailed(reader'[r])
    <3>1. reader[r] \in Requests /\ OwnIsTried(reader[r]) /\ SkippedFailed(reader[r])
      BY DEF MarketTypeOK, Tried
    <3>2. reader'[r] = IF reader[r].pc = "store" THEN [reader[r] EXCEPT !.age = @ + 1] ELSE reader[r]
      BY <1>7 DEF Tick
    <3>3. CASE reader[r].pc = "store"
      <4>1. reader'[r].pc = "store" /\ reader'[r].skipped = reader[r].skipped
        BY <3>1, <3>2, <3>3 DEF Requests
      <4>2. QED
        BY <3>1, <4>1 DEF OwnIsTried, SkippedFailed
    <3>4. CASE reader[r].pc # "store"
      BY <3>1, <3>2, <3>4
    <3>5. QED
      BY <3>3, <3>4
  <2>2. QED
    BY <2>1 DEF Tried, OwnIsTried, SkippedFailed
<1>8. CASE UNCHANGED marketVars
  BY <1>8 DEF marketVars, Tried, OwnIsTried, SkippedFailed
<1>9. QED
  BY <1>1, <1>2, <1>3, <1>4, <1>5, <1>6, <1>7, <1>8 DEF MarketNext

\* A request goes without something only after every exchange it could have
\* been had from has failed in it, whatever the key and the exchange it names.
THEOREM NothingIsSkippedEarly == ASSUME Configured PROVE MarketSpec => []SkippedHaveNoSource
<1>1. MarketInit => MarketTypeOK /\ Tried
  <2>1. MarketInit => Tried
    BY DEF MarketInit, IdleReader, Tried, OwnIsTried, SkippedFailed
  <2>2. QED
    BY <2>1, InitType
<1>2. MarketTypeOK /\ Tried /\ [MarketNext]_marketVars => MarketTypeOK' /\ Tried'
  BY NextType, TriedNext
<1>3. Tried => SkippedHaveNoSource
  BY DEF Tried, SkippedFailed, SkippedHaveNoSource
<1>4. QED
  BY <1>1, <1>2, <1>3, PTL DEF MarketSpec
=============================================================================
