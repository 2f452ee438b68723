------------------------------ MODULE MarketData ------------------------------
(***************************************************************************)
(* What the backend asks the exchanges for, through caches in Redis:       *)
(* candles, lists of symbols, and the USDT prices with which a summary     *)
(* values balances.  All three look into the cache, ask an exchange on a   *)
(* miss, and store what they got with a time to live; requests for one key *)
(* may overlap.  They differ in what follows when an exchange fails.       *)
(*                                                                         *)
(* Time is discrete, and kept as ages: how long ago an exchange was asked  *)
(* for a value.  Left out: the values; USDT itself and currencies that are *)
(* never priced, which need no source; the limit of a request for candles, *)
(* which is not part of the key.                                           *)
(***************************************************************************)
EXTENDS Naturals, Sequences, FiniteSets

CONSTANTS
    Keys,          \* cache keys
    KindOf,        \* "candles", "symbols" or "price" for each key
    ExchangeOf,    \* the exchange a key names
    Binance,       \* the exchange that prices are asked for if the own one fails
    NoExchange,
    Ttl,           \* times to live by kind, in ticks
    MaxDelay,      \* ticks between the answer of an exchange and the SET
    Queries,       \* what requests ask for: sequences of keys, one after the other
    Readers,       \* requests that may run at the same time
    MaxLost        \* bound: requests cut off by a failure of Redis

VARIABLES
    cache,     \* [age, left]: age of the value, time the key has left; 0 left: no key
    reader,    \* the requests
    lost

marketVars == <<cache, reader, lost>>

Sources == {ExchangeOf[k] : k \in Keys} \cup {Binance}

\* What the constants are.
Configured ==
    /\ KindOf \in [Keys -> {"candles", "symbols", "price"}]
    /\ Ttl \in [{"candles", "symbols", "price"} -> Nat \ {0}]
    /\ MaxDelay \in Nat
    /\ Queries \subseteq Seq(Keys) \ {<<>>}
    /\ NoExchange \notin Sources

\* todo: keys still to be looked up; source: the exchange being asked; age: of
\* the value that is to be stored; failed: exchanges that failed for the first
\* key of todo; skipped: what this request goes without, and why.
Requests == [pc : {"idle", "lookup", "fetch", "store", "done"}, todo : Seq(Keys),
             source : Sources \cup {NoExchange}, age : Nat,
             failed : SUBSET Sources, skipped : SUBSET [key : Keys, failed : SUBSET Sources]]

IdleReader == [pc |-> "idle", todo |-> <<>>, source |-> NoExchange, age |-> 0,
               failed |-> {}, skipped |-> {}]

MarketTypeOK ==
    /\ cache \in [Keys -> [age : Nat, left : Nat]]
    /\ reader \in [Readers -> Requests]
    /\ \A r \in Readers : /\ reader[r].pc \in {"idle", "done"} <=> reader[r].todo = <<>>
                          /\ reader[r].pc = "fetch" => reader[r].source \in Sources
    /\ lost \in Nat

MarketInit ==
    /\ cache = [k \in Keys |-> [age |-> 0, left |-> 0]]
    /\ reader = [r \in Readers |-> IdleReader]
    /\ lost = 0

SetReader(r, q) == reader' = [reader EXCEPT ![r] = q]
Key(r) == Head(reader[r].todo)
TtlOf(k) == Ttl[KindOf[k]]
IsCached(k) == cache[k].left > 0

\* The next key of a request, if there is one.
Onwards(q) ==
    [q EXCEPT !.pc = IF Tail(q.todo) = <<>> THEN "done" ELSE "lookup",
              !.todo = Tail(@), !.source = NoExchange, !.age = 0, !.failed = {}]

-----------------------------------------------------------------------------
Ask(r, ks) ==
    /\ reader[r].pc = "idle"
    /\ SetReader(r, [IdleReader EXCEPT !.pc = "lookup", !.todo = ks])
    /\ UNCHANGED <<cache, lost>>

\* Variant with a bug: every hit prolongs the life of the key.
LookupProlonging(r) ==
    /\ reader[r].pc = "lookup"
    /\ SetReader(r, IF IsCached(Key(r)) THEN Onwards(reader[r])
                    ELSE [reader[r] EXCEPT !.pc = "fetch", !.source = ExchangeOf[Key(r)]])
    /\ cache' = IF IsCached(Key(r)) THEN [cache EXCEPT ![Key(r)].left = TtlOf(Key(r))] ELSE cache
    /\ UNCHANGED lost

Lookup(r) ==
    /\ reader[r].pc = "lookup"
    /\ SetReader(r, IF IsCached(Key(r)) THEN Onwards(reader[r])
                    ELSE [reader[r] EXCEPT !.pc = "fetch", !.source = ExchangeOf[Key(r)]])
    /\ UNCHANGED <<cache, lost>>

\* The exchange answers.
Fetch(r) ==
    /\ reader[r].pc = "fetch"
    /\ SetReader(r, [reader[r] EXCEPT !.pc = "store", !.age = 0])
    /\ UNCHANGED <<cache, lost>>

\* Variant with a bug: no second exchange is asked.
SecondSourceNone(k, failed) == NoExchange

\* The exchange that is asked when another one has failed.
SecondSource(k, failed) ==
    IF KindOf[k] = "price" /\ Binance \notin failed THEN Binance ELSE NoExchange

\* The exchange fails, or knows no such price.  Its symbols have a fixed list to
\* stand in, which is stored as they would be.  A price is asked for elsewhere.
\* What is then left goes without: a balance unpriced, a request for candles 502.
FetchFails(r) ==
    LET k == Key(r)
        q == reader[r]
        failed == q.failed \cup {q.source}
        second == SecondSource(k, failed)
    IN /\ q.pc = "fetch"
       /\ SetReader(r, IF KindOf[k] = "symbols" THEN [q EXCEPT !.pc = "store", !.age = 0]
                       ELSE IF second # NoExchange THEN [q EXCEPT !.source = second, !.failed = failed]
                       ELSE Onwards([q EXCEPT !.skipped = @ \cup {[key |-> k, failed |-> failed]}]))
       /\ UNCHANGED <<cache, lost>>

\* SET with a time to live.
Store(r) ==
    /\ reader[r].pc = "store"
    /\ cache' = [cache EXCEPT ![Key(r)] = [age |-> reader[r].age, left |-> TtlOf(Key(r))]]
    /\ SetReader(r, Onwards(reader[r]))
    /\ UNCHANGED lost

Reply(r) ==
    /\ reader[r].pc = "done"
    /\ SetReader(r, IdleReader)
    /\ UNCHANGED <<cache, lost>>

\* A failure of Redis: 500, and nothing is stored.
LoseRequest(r) ==
    /\ reader[r].pc \in {"lookup", "store"}
    /\ lost < MaxLost
    /\ lost' = lost + 1
    /\ SetReader(r, IdleReader)
    /\ UNCHANGED cache

\* Time passes, but a value is stored at most MaxDelay after it was had.
Older(c) == IF c.left > 1 THEN [age |-> c.age + 1, left |-> c.left - 1] ELSE [age |-> 0, left |-> 0]

Tick ==
    /\ \A r \in Readers : reader[r].pc = "store" => reader[r].age < MaxDelay
    /\ cache' = [k \in Keys |-> Older(cache[k])]
    /\ reader' = [r \in Readers |-> IF reader[r].pc = "store"
                                    THEN [reader[r] EXCEPT !.age = @ + 1] ELSE reader[r]]
    /\ UNCHANGED lost

MarketNext ==
    \/ \E r \in Readers :
         \/ \E ks \in Queries : Ask(r, ks)
         \/ Lookup(r) \/ Fetch(r) \/ FetchFails(r) \/ Store(r) \/ Reply(r)
         \/ LoseRequest(r)
    \/ Tick

MarketSpec == MarketInit /\ [][MarketNext]_marketVars

-----------------------------------------------------------------------------
(* Properties.                                                             *)

\* No request is answered with anything older than the time to live and the
\* delay of one store, however requests for a key overlap and whether the
\* exchange or its stand-in has answered: a fixed list of symbols gives way to
\* the real one in that time.
BoundedStaleness ==
    \A k \in Keys : IsCached(k) => cache[k].age + cache[k].left <= TtlOf(k) + MaxDelay

\* A request goes without something only if every exchange it could have been
\* had from has failed in this very request: a failure is not remembered.
SkippedHaveNoSource ==
    \A r \in Readers : \A s \in reader[r].skipped :
        {ExchangeOf[s.key]} \cup (IF KindOf[s.key] = "price" THEN {Binance} ELSE {}) \subseteq s.failed
=============================================================================
