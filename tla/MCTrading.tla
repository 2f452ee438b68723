------------------------------ MODULE MCTrading ------------------------------
(* Instances for TLC of what concerns trading: Records with one credential,  *)
(* bot and order, two items and two handlers; and MarketData with one key    *)
(* of each kind and two requests.                                            *)
(*                                                                           *)
(* The two share no state.  So each behaviour moves one of them only, the    *)
(* one in focus, and TLC explores the sum of their states and not the        *)
(* product.                                                                  *)
EXTENDS Records, MarketData

CONSTANTS credential, bot, order, i1, i2, h1, h2, null, nothing, binance, bybit, candles,
          symbols, price, btc

VARIABLE focus

\* Records.
OneCredential == {credential}
OneBot == {bot}
OneOrder == {order}
TwoItems == {i1, i2}
TwoHandlers == {h1, h2}

\* Events about the bot, with and without its id, about the credential, whole
\* and with an item that cannot be converted, and heartbeats.
About(kind, b, c, o, items, bad) ==
    [kind |-> kind, bot |-> b, credential |-> c, order |-> o, items |-> items, bad |-> bad]
SomePayloads ==
    {About("new_trade", b, nothing, order, {}, {}) : b \in {bot, null}}
    \cup {About("new_trade", bot, nothing, order, {i1}, {i1}),
          About("strategy_error", bot, nothing, nothing, {}, {}),
          About("balance_update", null, credential, nothing, TwoItems, {}),
          About("balance_update", null, credential, nothing, TwoItems, {i2}),
          About("positions_update", null, credential, nothing, {i1}, {}),
          About("positions_update", null, credential, nothing, {}, {}),
          About("status", null, nothing, nothing, {}, {})}

\* MarketData: a summary asks for two prices, one of them at Binance anyway.
CacheKeys == {candles, symbols, price, btc}
KindsOfKeys == [k \in CacheKeys |->
                   CASE k = candles -> "candles" [] k = symbols -> "symbols" [] OTHER -> "price"]
Exchanges == [k \in CacheKeys |-> IF k = btc THEN binance ELSE bybit]
TimesToLive == [candles |-> 2, symbols |-> 3, price |-> 2]
SomeQueries == {<<candles>>, <<symbols>>, <<price, btc>>}

\* What the proofs about MarketData assume of its constants.
ASSUME MarketAssumption == Configured

MCInit ==
    /\ focus \in {"records", "market"}
    /\ Init /\ MarketInit

MCNext ==
    \/ focus = "records" /\ Next       /\ UNCHANGED <<focus, marketVars>>
    \/ focus = "market"  /\ MarketNext /\ UNCHANGED <<focus, vars>>

\* The fairness is that of Records; MarketData states none.
MCSpec == MCInit /\ [][MCNext]_<<focus, vars, marketVars>> /\ Fairness
=============================================================================
