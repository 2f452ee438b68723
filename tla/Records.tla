------------------------------- MODULE Records -------------------------------
(***************************************************************************)
(* The rows about trading: exchange credentials and bots, which request    *)
(* handlers create and delete, and the orders, snapshots and errors that   *)
(* the subscriber's projector writes from the events of the engine.        *)
(*                                                                         *)
(* Ids are uuids and never come again.  A transaction of the subscriber    *)
(* applies its rows when it commits; from its first write on it holds the  *)
(* rows it refers to, so that a DELETE of one of them waits.  A handler    *)
(* answers before it commits, and a row deleted through the session is     *)
(* deleted when it commits.                                                *)
(*                                                                         *)
(* Left out: the status of a bot and its commands (BotControl), who        *)
(* receives what is pushed (EventFeed), amounts and prices.  What an event *)
(* says of an order is the event's number.                                 *)
(***************************************************************************)
EXTENDS Naturals, Sequences, FiniteSets

CONSTANTS
    Credentials, Bots, Orders, Items,   \* Items: currencies, or symbols of positions
    NoBot,         \* not a bot: an event without one, a bot_id that is NULL
    Nothing,       \* what a handler that is idle works on
    Handlers,      \* request handlers that may run at the same time
    Payloads,      \* events the engine may send
    MaxEvents,     \* bound: events sent
    MaxFaults      \* bound: failures of PostgreSQL, Redis or the connection

Kinds == {"new_trade", "strategy_error", "balance_update", "positions_update", "status"}
SnapshotKinds == {"balance_update", "positions_update"}

\* bad: items with a field that is missing or no number.
Payload == [kind : Kinds, bot : Bots \cup {NoBot}, credential : Credentials \cup {Nothing},
            order : Orders \cup {Nothing}, items : SUBSET Items, bad : SUBSET Items]

ASSUME RecordsAssumption ==
    /\ Payloads \subseteq Payload
    /\ \A p \in Payloads : p.kind \in SnapshotKinds => p.credential \in Credentials
    /\ NoBot \notin Bots /\ Nothing \notin Credentials \cup Bots
    /\ Credentials \cap Bots = {}
    /\ MaxEvents \in Nat

VARIABLES
    credentials,   \* rows of exchange_credentials
    bots,          \* rows of bots
    orders,        \* rows of orders, each with the number of the event that inserted
                   \* it (first) and of the one that wrote it last
    snapshots,     \* rows of balances_snapshots and positions_snapshots
    strategyErrors,
    known,         \* ids of credentials and bots that have been committed so far
    handler,       \* the request handlers
    sent,          \* the events published so far
    waiting,       \* numbers of the events that wait in the subscriber's connection
    subscribed,
    sub,           \* the subscriber
    heartbeat,     \* whether engine:last_heartbeat is there
    pushed,        \* history: events pushed to clients
    recorded,      \* history: events whose transaction has been committed
    faults

rowVars     == <<credentials, bots, orders, snapshots, strategyErrors>>
requestVars == <<known, handler>>
eventVars   == <<sent, waiting, subscribed, sub, heartbeat, pushed, recorded>>
vars        == <<rowVars, requestVars, eventVars, faults>>

Events == 1..Len(sent)

BotRows      == [id : Bots, credential : Credentials]
OrderRows    == [first : Nat, last : Nat, order : Orders \cup {Nothing}, bot : Bots \cup {NoBot}]
SnapshotRows == [event : Nat, credential : Credentials, item : Items]
ErrorRows    == [event : Nat, bot : Bots \cup {NoBot}]

Jobs == [pc : {"idle", "validating", "accepted", "checked", "created", "deleting"},
         credential : Credentials \cup {Nothing}, bot : Bots \cup {NoBot}]
Idle == [pc |-> "idle", credential |-> Nothing, bot |-> NoBot]

TypeOK ==
    /\ credentials \subseteq Credentials \cap known
    /\ bots \subseteq BotRows
    /\ orders \subseteq OrderRows
    /\ snapshots \subseteq SnapshotRows
    /\ strategyErrors \subseteq ErrorRows
    /\ known \subseteq Credentials \cup Bots
    /\ handler \in [Handlers -> Jobs]
    /\ sent \in Seq(Payloads)
    /\ waiting \in Seq(Nat)
    /\ subscribed \in BOOLEAN
    /\ sub \in [pc : {"idle", "resolve", "write", "push", "commit", "beat"},
                event : Nat, found : BOOLEAN]
    /\ heartbeat \in BOOLEAN
    /\ pushed \subseteq Events
    /\ recorded \subseteq Events
    /\ faults \in Nat

Init ==
    /\ credentials = {} /\ bots = {} /\ orders = {} /\ snapshots = {} /\ strategyErrors = {}
    /\ known = {} /\ handler = [h \in Handlers |-> Idle]
    /\ sent = <<>> /\ waiting = <<>> /\ subscribed = TRUE
    /\ sub = [pc |-> "idle", event |-> 0, found |-> FALSE]
    /\ heartbeat = FALSE /\ pushed = {} /\ recorded = {}
    /\ faults = 0

Become(h, j) == handler' = [handler EXCEPT ![h] = j]
GoTo(h, pc)  == Become(h, [handler[h] EXCEPT !.pc = pc])
BotIds       == {r.id : r \in bots}
Fault        == faults < MaxFaults /\ faults' = faults + 1

-----------------------------------------------------------------------------
(* The subscriber and its projector.                                       *)

Current == sent[sub.event]

\* The row an event is about, as a SELECT finds it.
IsThere(p) == IF p.kind \in SnapshotKinds THEN p.credential \in credentials
              ELSE p.bot \in BotIds

\* What the rows to be written refer to.
BotToWrite == IF sub.found THEN Current.bot ELSE NoBot
HoldsBot(b) ==
    /\ sub.pc \in {"push", "commit"}
    /\ Current.kind \in {"new_trade", "strategy_error"}
    /\ BotToWrite = b
HoldsCredential(c) ==
    \/ /\ sub.pc \in {"push", "commit"}
       /\ Current.kind \in SnapshotKinds /\ Current.items # {}
       /\ Current.credential = c
    \/ \E h \in Handlers : /\ handler[h].pc = "created"
                           /\ handler[h].bot # NoBot
                           /\ handler[h].credential = c

\* The engine publishes an event about something it has been told of.
Publish(p) ==
    /\ Len(sent) < MaxEvents
    /\ {p.bot, p.credential} \subseteq known \cup {NoBot, Nothing}
    /\ sent' = Append(sent, p)
    /\ waiting' = IF subscribed THEN Append(waiting, Len(sent) + 1) ELSE waiting
    /\ UNCHANGED <<rowVars, requestVars, subscribed, sub, heartbeat, pushed, recorded, faults>>

\* Variant with a bug: events are handled in any order.
TakeEventAny ==
    /\ sub.pc = "idle" /\ subscribed /\ waiting # <<>>
    /\ \E i \in DOMAIN waiting :
         /\ sub' = [pc |-> "resolve", event |-> waiting[i], found |-> FALSE]
         /\ waiting' = SubSeq(waiting, 1, i - 1) \o SubSeq(waiting, i + 1, Len(waiting))
    /\ UNCHANGED <<rowVars, requestVars, sent, subscribed, heartbeat, pushed, recorded, faults>>

TakeEvent ==
    /\ sub.pc = "idle" /\ subscribed /\ waiting # <<>>
    /\ sub' = [pc |-> "resolve", event |-> Head(waiting), found |-> FALSE]
    /\ waiting' = Tail(waiting)
    /\ UNCHANGED <<rowVars, requestVars, sent, subscribed, heartbeat, pushed, recorded, faults>>

\* After the transaction: a heartbeat has its key set yet, whatever became of it.
Ended == [sub EXCEPT !.pc = IF Current.kind = "status" THEN "beat" ELSE "idle"]

\* Variant with a bug: clients are told before anything is written.
ResolveAndPush ==
    /\ sub.pc = "resolve"
    /\ sub' = [sub EXCEPT !.found = IsThere(Current),
                          !.pc = IF Current.kind = "status" THEN "commit" ELSE "write"]
    /\ pushed' = IF IsThere(Current) THEN pushed \cup {sub.event} ELSE pushed
    /\ UNCHANGED <<rowVars, requestVars, sent, waiting, subscribed, heartbeat, recorded, faults>>

\* The bot is looked up before the first write.
Resolve ==
    /\ sub.pc = "resolve"
    /\ sub' = [sub EXCEPT !.found = IsThere(Current),
                          !.pc = IF Current.kind = "status" THEN "commit" ELSE "write"]
    /\ UNCHANGED <<rowVars, requestVars, sent, waiting, subscribed, heartbeat, pushed, recorded,
                   faults>>

\* Variant with a bug: a foreign key that is not declared.
DanglingUndeclared == Current.kind \in SnapshotKinds /\ Current.items # {} /\ ~ IsThere(Current)

\* A foreign key of the rows to be written points to nothing.
Dangling ==
    \/ Current.kind \in SnapshotKinds /\ Current.items # {} /\ ~ IsThere(Current)
    \/ Current.kind \notin SnapshotKinds /\ sub.found /\ ~ IsThere(Current)

\* Variant with a bug: what cannot be converted is skipped.
FailsSkipping == Dangling

Fails == Current.bad # {} \/ Dangling

\* The rows are written but not committed.  A credential is looked up only now.
WriteRows ==
    /\ sub.pc = "write"
    /\ LET found == IF Current.kind \in SnapshotKinds THEN IsThere(Current) ELSE sub.found
       IN sub' = IF Fails THEN Ended
                 ELSE [sub EXCEPT !.found = found, !.pc = IF found THEN "push" ELSE "commit"]
    /\ UNCHANGED <<rowVars, requestVars, sent, waiting, subscribed, heartbeat, pushed, recorded,
                   faults>>

Push ==
    /\ sub.pc = "push"
    /\ pushed' = pushed \cup {sub.event}
    /\ sub' = [sub EXCEPT !.pc = "commit"]
    /\ UNCHANGED <<rowVars, requestVars, sent, waiting, subscribed, heartbeat, recorded, faults>>

\* INSERT ... ON CONFLICT DO UPDATE by order and bot; NULLs do not conflict.
UpsertedOrders ==
    LET same == {r \in orders : r.order = Current.order /\ r.bot = BotToWrite /\ r.bot # NoBot}
    IN IF same = {}
       THEN orders \cup {[first |-> sub.event, last |-> sub.event,
                          order |-> Current.order, bot |-> BotToWrite]}
       ELSE (orders \ same) \cup {[r EXCEPT !.last = sub.event] : r \in same}

\* The other two are plain INSERTs; of an update, one row for each item.
InsertedErrors == strategyErrors \cup {[event |-> sub.event, bot |-> BotToWrite]}

InsertedSnapshots ==
    snapshots \cup {[event |-> sub.event, credential |-> Current.credential, item |-> i] :
                        i \in Current.items \ Current.bad}

CommitRows ==
    /\ sub.pc = "commit"
    /\ orders' = IF Current.kind = "new_trade" THEN UpsertedOrders ELSE orders
    /\ strategyErrors' = IF Current.kind = "strategy_error" THEN InsertedErrors
                         ELSE strategyErrors
    /\ snapshots' = IF Current.kind \in SnapshotKinds THEN InsertedSnapshots ELSE snapshots
    /\ recorded' = recorded \cup {sub.event}
    /\ sub' = Ended
    /\ UNCHANGED <<credentials, bots, requestVars, sent, waiting, subscribed, heartbeat, pushed,
                   faults>>

\* An error of PostgreSQL: the transaction is undone, and the next event follows.
RollBack ==
    /\ sub.pc \in {"resolve", "write", "push", "commit"}
    /\ sub' = Ended
    /\ Fault
    /\ UNCHANGED <<rowVars, requestVars, sent, waiting, subscribed, heartbeat, pushed, recorded>>

SetHeartbeat ==
    /\ sub.pc = "beat"
    /\ heartbeat' = TRUE
    /\ sub' = [sub EXCEPT !.pc = "idle"]
    /\ UNCHANGED <<rowVars, requestVars, sent, waiting, subscribed, pushed, recorded, faults>>

\* Two minutes without a heartbeat.
ExpireHeartbeat ==
    /\ heartbeat
    /\ heartbeat' = FALSE
    /\ UNCHANGED <<rowVars, requestVars, sent, waiting, subscribed, sub, pushed, recorded, faults>>

\* The connection is lost between two events, or the SET of the key fails, which
\* no handler catches but that of the connection: what waited in it is lost.
Disconnect ==
    /\ subscribed /\ sub.pc \in {"idle", "beat"}
    /\ subscribed' = FALSE
    /\ waiting' = <<>>
    /\ sub' = [sub EXCEPT !.pc = "idle"]
    /\ Fault
    /\ UNCHANGED <<rowVars, requestVars, sent, heartbeat, pushed, recorded>>

\* Variant with a bug: an error ends the task.
ResubscribeNever ==
    /\ ~ subscribed /\ faults = 0
    /\ subscribed' = TRUE
    /\ UNCHANGED <<rowVars, requestVars, sent, waiting, sub, heartbeat, pushed, recorded, faults>>

Resubscribe ==
    /\ ~ subscribed
    /\ subscribed' = TRUE
    /\ UNCHANGED <<rowVars, requestVars, sent, waiting, sub, heartbeat, pushed, recorded, faults>>

Subscriber ==
    TakeEvent \/ Resolve \/ WriteRows \/ Push \/ CommitRows \/ SetHeartbeat \/ Resubscribe

-----------------------------------------------------------------------------
(* Request handlers.                                                       *)

Fresh(x) == x \notin known /\ \A h \in Handlers : x \notin {handler[h].credential, handler[h].bot}

\* POST of a credential: its keys are shown to the exchange first.
PostCredential(h, c) ==
    /\ handler[h].pc = "idle" /\ Fresh(c)
    /\ Become(h, [Idle EXCEPT !.pc = "validating", !.credential = c])
    /\ UNCHANGED <<rowVars, known, eventVars, faults>>

\* The exchange accepts the keys; or it refuses them, is out of reach, unknown,
\* or wants a passphrase that is missing: 400.
ValidateKeys(h) ==
    /\ handler[h].pc = "validating"
    /\ GoTo(h, "accepted") \/ Become(h, Idle)
    /\ UNCHANGED <<rowVars, known, eventVars, faults>>

\* INSERT, and the answer.
InsertCredential(h) ==
    /\ handler[h].pc = "accepted"
    /\ GoTo(h, "created")
    /\ UNCHANGED <<rowVars, known, eventVars, faults>>

CommitCredential(h) ==
    /\ handler[h].pc = "created" /\ handler[h].bot = NoBot
    /\ credentials' = credentials \cup {handler[h].credential}
    /\ known' = known \cup {handler[h].credential}
    /\ Become(h, Idle)
    /\ UNCHANGED <<bots, orders, snapshots, strategyErrors, eventVars, faults>>

\* POST of a bot: the credential is looked up, 403 if there is none.
PostBot(h, b, c) ==
    /\ handler[h].pc = "idle" /\ Fresh(b)
    /\ c \in credentials
    /\ Become(h, [pc |-> "checked", credential |-> c, bot |-> b])
    /\ UNCHANGED <<rowVars, known, eventVars, faults>>

\* INSERT under the foreign key, and the answer.
InsertBot(h) ==
    /\ handler[h].pc = "checked"
    /\ IF handler[h].credential \in credentials THEN GoTo(h, "created") ELSE Become(h, Idle)
    /\ UNCHANGED <<rowVars, known, eventVars, faults>>

CommitBot(h) ==
    /\ handler[h].pc = "created" /\ handler[h].bot # NoBot
    /\ bots' = bots \cup {[id |-> handler[h].bot, credential |-> handler[h].credential]}
    /\ known' = known \cup {handler[h].bot}
    /\ Become(h, Idle)
    /\ UNCHANGED <<credentials, orders, snapshots, strategyErrors, eventVars, faults>>

\* DELETE finds the row and answers 204.
DeleteCredential(h, c) ==
    /\ handler[h].pc = "idle"
    /\ c \in credentials
    /\ Become(h, [Idle EXCEPT !.pc = "deleting", !.credential = c])
    /\ UNCHANGED <<rowVars, known, eventVars, faults>>

DeleteBot(h, b) ==
    /\ handler[h].pc = "idle"
    /\ b \in BotIds
    /\ Become(h, [Idle EXCEPT !.pc = "deleting", !.bot = b])
    /\ UNCHANGED <<rowVars, known, eventVars, faults>>

\* ON DELETE RESTRICT for bots, CASCADE for snapshots.  The restriction shows
\* only now, after the answer.
CommitDeleteCredential(h) ==
    LET c == handler[h].credential
        inUse == \E r \in bots : r.credential = c
    IN /\ handler[h].pc = "deleting" /\ handler[h].bot = NoBot
       /\ ~ HoldsCredential(c)
       /\ credentials' = IF inUse THEN credentials ELSE credentials \ {c}
       /\ snapshots' = IF inUse THEN snapshots ELSE {r \in snapshots : r.credential # c}
       /\ Become(h, Idle)
       /\ UNCHANGED <<bots, orders, strategyErrors, known, eventVars, faults>>

\* ON DELETE SET NULL for orders and errors.
CommitDeleteBot(h) ==
    LET b == handler[h].bot
        unlink(rows) == {IF r.bot = b THEN [r EXCEPT !.bot = NoBot] ELSE r : r \in rows}
    IN /\ handler[h].pc = "deleting" /\ b # NoBot
       /\ ~ HoldsBot(b)
       /\ bots' = {r \in bots : r.id # b}
       /\ orders' = unlink(orders)
       /\ strategyErrors' = unlink(strategyErrors)
       /\ Become(h, Idle)
       /\ UNCHANGED <<credentials, snapshots, known, eventVars, faults>>

\* A failure undoes the transaction of a handler.
AbortRequest(h) ==
    /\ handler[h].pc # "idle"
    /\ Become(h, Idle)
    /\ Fault
    /\ UNCHANGED <<rowVars, known, eventVars>>

Request(h) ==
    \/ \E c \in Credentials : PostCredential(h, c) \/ DeleteCredential(h, c)
    \/ \E b \in Bots : DeleteBot(h, b) \/ \E c \in Credentials : PostBot(h, b, c)
    \/ ValidateKeys(h) \/ InsertCredential(h) \/ CommitCredential(h)
    \/ InsertBot(h) \/ CommitBot(h)
    \/ CommitDeleteCredential(h) \/ CommitDeleteBot(h)
    \/ AbortRequest(h)

-----------------------------------------------------------------------------
Next ==
    \/ \E h \in Handlers : Request(h)
    \/ \E p \in Payloads : Publish(p)
    \/ Subscriber \/ RollBack \/ ExpireHeartbeat \/ Disconnect

Spec == Init /\ [][Next]_vars

\* The subscriber is a task of the event loop: it handles what has come, and
\* after an error it subscribes again.
Fairness == WF_vars(Subscriber)

FairSpec == Spec /\ Fairness

-----------------------------------------------------------------------------
(* Properties.                                                             *)

\* No row points to one that is gone, whatever is deleted while it is written:
\* a bot has its credential, orders and errors have their bot or none, and
\* snapshots have their credential.  An order of a bot is one row, however often
\* it is reported.
KeysHold ==
    /\ \A r \in bots : r.credential \in credentials
    /\ \A r \in orders \cup strategyErrors : r.bot \in BotIds \cup {NoBot}
    /\ \A r \in snapshots : r.credential \in credentials
    /\ \A r, q \in orders : r.order = q.order /\ r.bot = q.bot /\ r.bot # NoBot => r = q

\* The newest snapshots of a credential, one per currency.
Latest(c) ==
    LET of(i) == {r \in snapshots : /\ r.credential = c /\ r.item = i
                                    /\ sent[r.event].kind = "balance_update"}
    IN {r \in snapshots : r \in of(r.item) /\ \A q \in of(r.item) : q.event <= r.event}

\* What is shown never goes back to an older event: neither the status of an
\* order nor the balance of a currency, as long as the credential exists.
ShownAdvances ==
    [][/\ \A r \in orders, q \in orders' : q.first = r.first => q.last >= r.last
       /\ \A c \in credentials \cap credentials' : \A r \in Latest(c) :
              \E q \in Latest(c)' : q.item = r.item /\ q.event >= r.event]_vars

\* A balance or positions update is stored as a whole or not at all.
UpdatesAreWhole ==
    \A r \in snapshots :
        {q.item : q \in {s \in snapshots : s.event = r.event}} = sent[r.event].items

\* What has been pushed to clients is in the tables, or will be at the commit
\* that is due; only a failure between the two can break that.
PushedIsRecorded ==
    LET due == IF sub.pc \in {"push", "commit"} THEN {sub.event} ELSE {}
    IN Cardinality(pushed \ (recorded \cup due)) <= faults

\* The subscriber gets to every event that has reached it, unless it loses the
\* connection, and a lost connection does not stay lost.
SubscriberKeepsUp ==
    /\ ~ subscribed ~> subscribed
    /\ \A e \in 1..MaxEvents :
          (\E i \in DOMAIN waiting : waiting[i] = e) ~> (\A i \in DOMAIN waiting : waiting[i] # e)

\* The same subscriber as the one that BotControl has, seen from the tables it
\* writes: it takes the events one at a time and in order, none twice, and loses
\* none but with the connection.
Redis == INSTANCE Subscription WITH
    Messages <- 1..MaxEvents,
    handling <- IF sub.pc = "idle" THEN {} ELSE {sub.event}
ImplementsSubscription == Redis!Spec
=============================================================================
