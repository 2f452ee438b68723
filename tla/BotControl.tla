----------------------------- MODULE BotControl -----------------------------
(***************************************************************************)
(* Control of trading bots: the REST handlers that start, stop, update and *)
(* delete a bot, the trade engine they command over Redis pub/sub, and the *)
(* event projector that writes what the engine reports back to the table.  *)
(*                                                                         *)
(* A request is one PostgreSQL transaction at READ COMMITTED: it reads the *)
(* bot, inserts a bot_commands row, publishes the command, updates the     *)
(* status and commits.  The projector handles one event at a time, each in *)
(* a transaction of its own.  An UPDATE takes the row's lock until the     *)
(* transaction ends; no UPDATE is guarded by the status it replaces.       *)
(*                                                                         *)
(* Age is abstract: old[b] says that updated_at is more than the startup   *)
(* timeout (two minutes) in the past.  A transaction is assumed shorter    *)
(* than that.  Rejected requests (403, 404, 409) change nothing and are    *)
(* left out, as are the reads.                                             *)
(***************************************************************************)
EXTENDS Naturals, Sequences

CONSTANTS
    Bots,          \* bot ids
    Requests,      \* request handlers that may run at the same time
    MaxCommands,   \* bound: commands issued in a behaviour
    MaxEvents,     \* bound: events waiting in the subscriber's connection
    MaxFaults      \* bound: crashes, disconnections and failed transactions

ASSUME BoundsAssumption ==
    /\ MaxCommands \in Nat
    /\ MaxEvents \in Nat \ {0}
    /\ MaxFaults \in Nat

ASSUME WritersAssumption == "projector" \notin Requests /\ "nobody" \notin Requests

VARIABLES
    status,      \* bots.status as committed; "none", "deleted": there is no row
    old,         \* bots.updated_at lies more than two minutes back
    write,       \* the lock holder of each row and the status it has written
    rows,        \* bot_commands, as committed
    sent,        \* history: every command handed to Redis
    issued,      \* number of command ids drawn so far
    req,         \* the request handlers
    toEngine,    \* commands published and not yet read by the engine
    engineUp,
    active,      \* the strategies the engine runs
    events,      \* engine events waiting for the subscriber
    subscribed,  \* the subscriber's connection is up
    proj,        \* the event projector
    faults

dbVars     == <<status, old, write, rows>>
engineVars == <<toEngine, engineUp, active>>
vars == <<status, old, write, rows, sent, issued, req, toEngine, engineUp,
          active, events, subscribed, proj, faults>>

Statuses == {"draft", "starting", "running", "stopping", "stopped", "error"}
NoRow    == {"none", "deleted"}
Kinds    == {"start", "stop", "update"}
Writers  == Requests \cup {"projector"}

Commands == [id : Nat, kind : Kinds, bot : Bots]

\* One record type for the three kinds of event: the bots it speaks of.
Events == [kind : {"started", "error", "status"}, bots : SUBSET Bots]

\* "same": the transaction updated the row but not its status column.
Writes == [by : Writers \cup {"nobody"}, to : Statuses \cup {"same"}]
NoWrite == [by |-> "nobody", to |-> "same"]

\* A handler: where it is, its command, and whether its ORM session will emit
\* an UPDATE.
BusyRequests == [pc : {"checked", "inserted", "published", "written"},
                 cmd : Commands, dirty : BOOLEAN]
NoCommand == [id |-> 0, kind |-> "update", bot |-> "nobot"]
IdleRequest == [pc |-> "idle", cmd |-> NoCommand, dirty |-> FALSE]

ProjectorStates == {"idle", "select", "update"}
NoEvent == [kind |-> "status", bots |-> {}]
IdleProjector ==
    [pc |-> "idle", ev |-> NoEvent, stage |-> 1, todo |-> {}, seen |-> {}, aged |-> {}]

TypeOK ==
    /\ status \in [Bots -> Statuses \cup NoRow]
    /\ old \in [Bots -> BOOLEAN]
    /\ write \in [Bots -> Writes]
    /\ rows \subseteq Commands
    /\ sent \subseteq Commands
    /\ issued \in Nat
    /\ req \in [Requests -> {IdleRequest} \cup BusyRequests]
    /\ toEngine \in Seq(Commands)
    /\ engineUp \in BOOLEAN
    /\ active \subseteq Bots
    /\ events \in Seq(Events)
    /\ subscribed \in BOOLEAN
    /\ proj \in [pc : ProjectorStates, ev : Events, stage : 1..3,
                 todo : SUBSET Bots, seen : SUBSET Bots, aged : SUBSET Bots]
    /\ faults \in Nat

Init ==
    /\ status = [b \in Bots |-> "none"]
    /\ old = [b \in Bots |-> FALSE]
    /\ write = [b \in Bots |-> NoWrite]
    /\ rows = {}
    /\ sent = {}
    /\ issued = 0
    /\ req = [r \in Requests |-> IdleRequest]
    /\ toEngine = <<>>
    /\ engineUp = TRUE
    /\ active = {}
    /\ events = <<>>
    /\ subscribed = TRUE
    /\ proj = IdleProjector
    /\ faults = 0

-----------------------------------------------------------------------------
(* The table.                                                              *)

HasRow(b) == status[b] \in Statuses
Locked(b) == write[b].by # "nobody"
LockedAgainst(w, b) == write[b].by \notin {"nobody", w}

\* A transaction that inserted a row referring to b holds a key-share lock on
\* b: it does not conflict with an UPDATE, but it blocks a DELETE.
KeyShared(b) ==
    \/ \E r \in Requests : req[r].cmd.bot = b /\ req[r].pc \in {"inserted", "published", "written"}
    \/ proj.pc = "update" /\ proj.ev.kind = "error" /\ b \in proj.ev.bots

\* The status a transaction of w sees: its own write, or the committed one.
View(w, b) == IF write[b].by = w /\ write[b].to # "same" THEN write[b].to ELSE status[b]

\* COMMIT of the transaction of w: its writes replace the rows and set updated_at.
CommitWrites(w) ==
    /\ status' = [b \in Bots |-> View(w, b)]
    /\ old' = [b \in Bots |-> old[b] /\ write[b].by # w]
    /\ write' = [b \in Bots |-> IF write[b].by = w THEN NoWrite ELSE write[b]]

\* ROLLBACK of the transactions of ws.
Rollback(ws) ==
    write' = [b \in Bots |-> IF write[b].by \in ws THEN NoWrite ELSE write[b]]

\* Two minutes pass without an UPDATE of the row of b.
Age(b) ==
    /\ HasRow(b) /\ ~ old[b]
    /\ old' = [old EXCEPT ![b] = TRUE]
    /\ UNCHANGED <<status, write, rows, sent, issued, req, engineVars, events, subscribed,
                   proj, faults>>

Fault == faults < MaxFaults /\ faults' = faults + 1

-----------------------------------------------------------------------------
(* REST handlers.                                                          *)

CreateBot(b) ==
    /\ status[b] = "none"
    /\ status' = [status EXCEPT ![b] = "draft"]
    /\ UNCHANGED <<old, write, rows, sent, issued, req, engineVars, events, subscribed,
                   proj, faults>>

\* DELETE of a bot whatever its status: no command goes to the engine.
\* bot_commands cascades.
DeleteBot(b) ==
    /\ HasRow(b) /\ ~ Locked(b) /\ ~ KeyShared(b)
    /\ status' = [status EXCEPT ![b] = "deleted"]
    /\ rows' = {c \in rows : c.bot # b}
    /\ UNCHANGED <<old, write, sent, issued, req, engineVars, events, subscribed,
                   proj, faults>>

\* The statuses at which BotService lets a request of kind k through.
Admits(k) == CASE k = "start"  -> Statuses \ {"running", "starting"}
               [] k = "stop"   -> Statuses \ {"stopped", "draft"}
               [] k = "update" -> Statuses

\* The status (or, for "update", no status) a request of kind k writes.
Target(k) == CASE k = "start" -> "starting" [] k = "stop" -> "stopping" [] k = "update" -> "same"

\* The handler reads the bot, checks its status and draws a command id.  The
\* ORM will emit an UPDATE only if the value differs from the one read here;
\* new params may equal the old ones.
Begin(r, k, b) ==
    /\ req[r].pc = "idle"
    /\ status[b] \in Admits(k)
    /\ issued < MaxCommands
    /\ issued' = issued + 1
    /\ \E dirty \in IF k = "update" THEN BOOLEAN ELSE {status[b] # Target(k)} :
          req' = [req EXCEPT ![r] = [pc |-> "checked", dirty |-> dirty,
                                     cmd |-> [id |-> issued + 1, kind |-> k, bot |-> b]]]
    /\ UNCHANGED <<dbVars, sent, engineVars, events, subscribed, proj, faults>>

\* INSERT INTO bot_commands.  The foreign key fails if the bot is gone by now.
InsertCommand(r) ==
    /\ req[r].pc = "checked"
    /\ req' = [req EXCEPT ![r] = IF HasRow(req[r].cmd.bot)
                                    THEN [req[r] EXCEPT !.pc = "inserted"]
                                    ELSE IdleRequest]
    /\ UNCHANGED <<dbVars, sent, issued, engineVars, events, subscribed, proj, faults>>

\* PUBLISH, before the commit.  Without a subscriber the command is lost.
PublishCommand(r) ==
    /\ req[r].pc = "inserted"
    /\ sent' = sent \cup {req[r].cmd}
    /\ toEngine' = IF engineUp THEN Append(toEngine, req[r].cmd) ELSE toEngine
    /\ req' = [req EXCEPT ![r].pc = "published"]
    /\ UNCHANGED <<dbVars, issued, engineUp, active, events, subscribed, proj, faults>>

\* Variant with a bug: the handler may update the user's other bots before its own.
WriteStatusOfOthers(r) ==
    /\ req[r].pc = "published"
    /\ \E b \in Bots :
          /\ ~ LockedAgainst(r, b)
          /\ write' = [write EXCEPT ![b] = [by |-> r, to |-> Target(req[r].cmd.kind)]]
          /\ req' = IF b = req[r].cmd.bot THEN [req EXCEPT ![r].pc = "written"] ELSE req
    /\ UNCHANGED <<status, old, rows, sent, issued, engineVars, events, subscribed,
                   proj, faults>>

\* UPDATE bots by the handler: it waits for the row lock.
WriteStatus(r) ==
    LET b == req[r].cmd.bot IN
    /\ req[r].pc = "published"
    /\ IF req[r].dirty
          THEN /\ ~ LockedAgainst(r, b)
               /\ write' = [write EXCEPT ![b] = [by |-> r, to |-> Target(req[r].cmd.kind)]]
          ELSE UNCHANGED write
    /\ req' = [req EXCEPT ![r].pc = "written"]
    /\ UNCHANGED <<status, old, rows, sent, issued, engineVars, events, subscribed,
                   proj, faults>>

CommitRequest(r) ==
    /\ req[r].pc = "written"
    /\ CommitWrites(r)
    /\ rows' = rows \cup {req[r].cmd}
    /\ req' = [req EXCEPT ![r] = IdleRequest]
    /\ UNCHANGED <<sent, issued, engineVars, events, subscribed, proj, faults>>

\* Any call of the handler fails, the commit included: the session rolls back,
\* what was published stays published.
AbortRequest(r) ==
    /\ req[r].pc # "idle"
    /\ Rollback({r})
    /\ req' = [req EXCEPT ![r] = IdleRequest]
    /\ Fault
    /\ UNCHANGED <<status, old, rows, sent, issued, engineVars, events, subscribed, proj>>

Request(r) == InsertCommand(r) \/ PublishCommand(r) \/ WriteStatus(r) \/ CommitRequest(r)

-----------------------------------------------------------------------------
(* The trade engine, an external program: what its channels let the        *)
(* backend see of it.                                                      *)

\* Redis hands an event to the subscriber, if there is one.
Emit(kind, bots) ==
    IF subscribed
       THEN /\ Len(events) < MaxEvents
            /\ events' = Append(events, [kind |-> kind, bots |-> bots])
       ELSE UNCHANGED events

\* The engine reads a command: a start succeeds, fails with an error event, or
\* fails in silence.
EngineTakesCommand ==
    /\ engineUp /\ toEngine # <<>>
    /\ toEngine' = Tail(toEngine)
    /\ LET c == Head(toEngine) IN
       \/ /\ c.kind = "start"
          /\ active' = active \cup {c.bot}
          /\ Emit("started", {c.bot})
       \/ /\ c.kind = "start"
          /\ UNCHANGED active
          /\ Emit("error", {c.bot}) \/ UNCHANGED events
       \/ /\ c.kind = "stop"
          /\ active' = active \ {c.bot}
          /\ UNCHANGED events
       \/ /\ c.kind = "update"
          /\ UNCHANGED <<active, events>>
    /\ UNCHANGED <<dbVars, sent, issued, req, engineUp, subscribed, proj, faults>>

\* The periodic heartbeat lists the active bots.
EngineHeartbeat ==
    /\ engineUp
    /\ Emit("status", active)
    /\ UNCHANGED <<dbVars, sent, issued, req, engineVars, subscribed, proj, faults>>

\* A running strategy reports an error; it may or may not survive it.
StrategyFails(b) ==
    /\ engineUp /\ b \in active
    /\ Emit("error", {b})
    /\ active' \in {active, active \ {b}}
    /\ UNCHANGED <<dbVars, sent, issued, req, toEngine, engineUp, subscribed, proj, faults>>

EngineCrash ==
    /\ engineUp
    /\ engineUp' = FALSE
    /\ active' = {}
    /\ toEngine' = <<>>
    /\ Fault
    /\ UNCHANGED <<dbVars, sent, issued, req, events, subscribed, proj>>

EngineRestart ==
    /\ ~ engineUp
    /\ engineUp' = TRUE
    /\ UNCHANGED <<dbVars, sent, issued, req, toEngine, active, events, subscribed, proj, faults>>

-----------------------------------------------------------------------------
(* The subscriber and the event projector.                                 *)

\* The Redis connection breaks: what waits in it is lost.
Disconnect ==
    /\ subscribed
    /\ subscribed' = FALSE
    /\ events' = <<>>
    /\ Fault
    /\ UNCHANGED <<dbVars, sent, issued, req, engineVars, proj>>

\* The loop of run_subscriber subscribes again after its backoff.
Resubscribe ==
    /\ ~ subscribed /\ proj.pc = "idle"
    /\ subscribed' = TRUE
    /\ UNCHANGED <<dbVars, sent, issued, req, engineVars, events, proj, faults>>

\* Variant with a bug: of the events that wait, only the newest is handled.
ReceiveNewestEvent ==
    /\ proj.pc = "idle" /\ events # <<>>
    /\ events' = <<>>
    /\ proj' = [IdleProjector EXCEPT !.pc = "select", !.ev = events[Len(events)]]
    /\ UNCHANGED <<dbVars, sent, issued, req, engineVars, subscribed, faults>>

ReceiveEvent ==
    /\ proj.pc = "idle" /\ events # <<>>
    /\ events' = Tail(events)
    /\ proj' = [IdleProjector EXCEPT !.pc = "select", !.ev = Head(events)]
    /\ UNCHANGED <<dbVars, sent, issued, req, engineVars, subscribed, faults>>

\* The rows of the given status, as the projector's transaction sees them.
ListByStatuses(ss) == {b \in Bots : View("projector", b) \in ss}

\* Variant with a bug: the startup timeout never fires.
IsStaleNever(b) == FALSE

\* Stage 3 compares the updated_at this session loaded first: the SELECT of
\* stage 1 has put the starting bots in the identity map.
IsStale(b) == IF b \in proj.seen THEN b \in proj.aged ELSE old[b]

\* Variant with a bug: stage 2 takes every bot that is not listed.
SelectedAnyStatus ==
    CASE proj.ev.kind # "status" -> {b \in proj.ev.bots : HasRow(b)}
      [] proj.ev.kind = "status" /\ proj.stage = 1 ->
            ListByStatuses({"starting"}) \cap proj.ev.bots
      [] proj.ev.kind = "status" /\ proj.stage = 2 -> ListByStatuses(Statuses) \ proj.ev.bots
      [] proj.ev.kind = "status" /\ proj.stage = 3 ->
            {b \in ListByStatuses({"starting"}) \ proj.ev.bots : IsStale(b)}

\* Variant with a bug: stage 2 does not look at the list of active bots.
SelectedIgnoringList ==
    CASE proj.ev.kind # "status" -> {b \in proj.ev.bots : HasRow(b)}
      [] proj.ev.kind = "status" /\ proj.stage = 1 ->
            ListByStatuses({"starting"}) \cap proj.ev.bots
      [] proj.ev.kind = "status" /\ proj.stage = 2 -> ListByStatuses({"running", "stopping"})
      [] proj.ev.kind = "status" /\ proj.stage = 3 ->
            {b \in ListByStatuses({"starting"}) \ proj.ev.bots : IsStale(b)}

\* Variant with a bug: stage 2 forgets the bots that are stopping.
SelectedWithoutStopping ==
    CASE proj.ev.kind # "status" -> {b \in proj.ev.bots : HasRow(b)}
      [] proj.ev.kind = "status" /\ proj.stage = 1 ->
            ListByStatuses({"starting"}) \cap proj.ev.bots
      [] proj.ev.kind = "status" /\ proj.stage = 2 -> ListByStatuses({"running"}) \ proj.ev.bots
      [] proj.ev.kind = "status" /\ proj.stage = 3 ->
            {b \in ListByStatuses({"starting"}) \ proj.ev.bots : IsStale(b)}

\* The rows the current stage of the event is going to update.
Selected ==
    CASE proj.ev.kind # "status" -> {b \in proj.ev.bots : HasRow(b)}
      [] proj.ev.kind = "status" /\ proj.stage = 1 ->
            ListByStatuses({"starting"}) \cap proj.ev.bots
      [] proj.ev.kind = "status" /\ proj.stage = 2 ->
            ListByStatuses({"running", "stopping"}) \ proj.ev.bots
      [] proj.ev.kind = "status" /\ proj.stage = 3 ->
            {b \in ListByStatuses({"starting"}) \ proj.ev.bots : IsStale(b)}

\* The rows that stage 1 of a heartbeat loads; it is skipped if no bot is active.
Loaded ==
    IF proj.ev.kind = "status" /\ proj.stage = 1 /\ proj.ev.bots # {}
       THEN ListByStatuses({"starting"})
       ELSE {}

NewStatus ==
    CASE proj.ev.kind = "started" -> "running"
      [] proj.ev.kind = "error"   -> "error"
      [] proj.ev.kind = "status"  -> <<"running", "stopped", "error">>[proj.stage]

\* SELECT of a stage, or the primary-key lookup of a bot event (which, for an
\* error event, is followed by the INSERT that refers to the bot).
SelectBots ==
    /\ proj.pc = "select"
    /\ proj' = [proj EXCEPT !.pc = "update", !.todo = Selected,
                            !.seen = @ \cup Loaded,
                            !.aged = @ \cup {b \in Loaded : old[b]}]
    /\ UNCHANGED <<dbVars, sent, issued, req, engineVars, events, subscribed, faults>>

\* Variant with a bug: an upsert brings back the row of a deleted bot.
UpsertStatusById(b) ==
    /\ proj.pc = "update" /\ b \in proj.todo
    /\ ~ LockedAgainst("projector", b)
    /\ write' = [write EXCEPT ![b] = [by |-> "projector", to |-> NewStatus]]
    /\ proj' = [proj EXCEPT !.todo = @ \ {b}]
    /\ UNCHANGED <<status, old, rows, sent, issued, req, engineVars, events, subscribed, faults>>

\* UPDATE bots SET status WHERE id = b, with no condition on the status.
UpdateStatusById(b) ==
    /\ proj.pc = "update" /\ b \in proj.todo
    /\ IF HasRow(b)
          THEN /\ ~ LockedAgainst("projector", b)
               /\ write' = [write EXCEPT ![b] = [by |-> "projector", to |-> NewStatus]]
          ELSE UNCHANGED write
    /\ proj' = [proj EXCEPT !.todo = @ \ {b}]
    /\ UNCHANGED <<status, old, rows, sent, issued, req, engineVars, events, subscribed, faults>>

\* Variant with a bug: a heartbeat has no last stage.
LastStageNever == proj.ev.kind # "status"

LastStage == proj.ev.kind # "status" \/ proj.stage = 3

NextStage ==
    /\ proj.pc = "update" /\ proj.todo = {} /\ ~ LastStage
    /\ proj' = [proj EXCEPT !.pc = "select", !.stage = @ + 1]
    /\ UNCHANGED <<dbVars, sent, issued, req, engineVars, events, subscribed, faults>>

CommitEvent ==
    /\ proj.pc = "update" /\ proj.todo = {} /\ LastStage
    /\ CommitWrites("projector")
    /\ proj' = IdleProjector
    /\ UNCHANGED <<rows, sent, issued, req, engineVars, events, subscribed, faults>>

\* An exception while handling the event: rollback, and the event is gone.
FailEvent ==
    /\ proj.pc # "idle"
    /\ Rollback({"projector"})
    /\ proj' = IdleProjector
    /\ Fault
    /\ UNCHANGED <<status, old, rows, sent, issued, req, engineVars, events, subscribed>>

Projector ==
    ReceiveEvent \/ SelectBots \/ NextStage \/ CommitEvent \/ \E b \in Bots : UpdateStatusById(b)

\* The backend process dies: open transactions roll back, the subscription and
\* what waits in it are gone.
BackendCrash ==
    /\ Rollback(Writers)
    /\ req' = [r \in Requests |-> IdleRequest]
    /\ proj' = IdleProjector
    /\ subscribed' = FALSE
    /\ events' = <<>>
    /\ Fault
    /\ UNCHANGED <<status, old, rows, sent, issued, engineVars>>

-----------------------------------------------------------------------------
Next ==
    \/ \E b \in Bots : CreateBot(b) \/ DeleteBot(b) \/ Age(b) \/ StrategyFails(b)
    \/ \E r \in Requests, k \in Kinds, b \in Bots : Begin(r, k, b)
    \/ \E r \in Requests : Request(r) \/ AbortRequest(r)
    \/ EngineTakesCommand \/ EngineHeartbeat \/ EngineCrash \/ EngineRestart
    \/ Disconnect \/ Resubscribe
    \/ Projector \/ FailEvent \/ BackendCrash

Spec == Init /\ [][Next]_vars

\* Handlers and the projector keep running, the engine keeps reading commands
\* and sending heartbeats, time passes.  Faults are never required.
Fairness ==
    /\ \A r \in Requests : WF_vars(Request(r))
    /\ WF_vars(EngineTakesCommand) /\ WF_vars(EngineHeartbeat) /\ WF_vars(EngineRestart)
    /\ WF_vars(Resubscribe) /\ WF_vars(Projector)
    /\ \A b \in Bots : WF_vars(Age(b))

FairSpec == Spec /\ Fairness

-----------------------------------------------------------------------------
(* Properties.                                                             *)

WasSent(k, b) == \E c \in sent : c.kind = k /\ c.bot = b

\* A bot leaves draft only after a start command for it went to the engine
\* (whatever the engine reports, and whoever rolls back), and it is shown as
\* stopping only after a stop command did.
StatusWasRequested ==
    \A b \in Bots :
        /\ status[b] \in Statuses \ {"draft"} => WasSent("start", b)
        /\ status[b] = "stopping" => WasSent("stop", b)

\* bot_commands never records a command that was not published: the handler
\* publishes before it commits.  (The converse fails: a rollback after the
\* publish leaves a command without a row.)
CommandRowsWereSent == rows \subseteq sent

\* However the event races with requests, the commit of a heartbeat never
\* turns a bot that the heartbeat lists into stopped or error, and never turns
\* one that it does not list into running.
HeartbeatAgreesWithEngine ==
    [][proj.ev.kind = "status" /\ proj.pc = "update" /\ proj'.pc = "idle" =>
          \A b \in Bots : status'[b] # status[b] =>
                             (status'[b] = "running" <=> b \in proj.ev.bots)]_vars

\* The transaction of v waits for a row that the one of w has updated.
WaitsFor(v, w) ==
    \/ /\ v \in Requests
       /\ req[v].pc = "published" /\ req[v].dirty
       /\ LockedAgainst(v, req[v].cmd.bot)
       /\ write[req[v].cmd.bot].by = w
    \/ /\ v = "projector" /\ proj.pc = "update"
       /\ \E b \in proj.todo : HasRow(b) /\ LockedAgainst(v, b) /\ write[b].by = w

\* Row locks are never waited for in a circle, although a heartbeat keeps the
\* rows of its earlier statements while it waits for more: among any open
\* transactions there is one that waits for none of the others.
NoDeadlock ==
    \A S \in (SUBSET Writers) \ {{}} : \E v \in S : \A w \in S : ~ WaitsFor(v, w)

\* A stopping bot that the engine no longer runs, a running one likewise: the
\* table eventually agrees, and stays in agreement once commands and faults
\* have ceased.
StatusConverges ==
    \A b \in Bots : <>[](status[b] \in {"running", "stopping"} => b \in active)

\* No bot is starting forever: the engine's answer, or the startup timeout of
\* the heartbeat, ends it.
StartingResolves ==
    \A b \in Bots : status[b] = "starting" ~> status[b] # "starting"

\* The table implements the lifecycle promised to the user.
Lifecycle == INSTANCE BotLifecycle WITH
    activated <- {b \in Bots : WasSent("start", b)}
ImplementsLifecycle == Lifecycle!Spec

\* The projector gets its events from a subscriber that keeps its promise: one at
\* a time, in order, none twice, and none lost but with the connection.
Subscriber == INSTANCE Subscription WITH
    Messages <- Events,
    waiting  <- events,
    handling <- IF proj.pc = "idle" THEN {} ELSE {proj.ev}
ImplementsSubscription == Subscriber!Spec

\* A test (test_bot_start_already_running_raises) says that a bot that is
\* already running cannot be started: no start command goes out for a bot
\* whose committed status is starting or running.
StartOnlyWhenIdle ==
    [][\A c \in sent' \ sent : c.kind = "start" => status[c.bot] \notin {"starting", "running"}]_vars

\* The comment on the startup timeout says what it does: starting -> error.
\* A heartbeat sets error on no bot that has another status.
TimeoutOnlyFromStarting ==
    [][proj.ev.kind = "status" /\ proj.pc = "update" /\ proj'.pc = "idle" =>
          \A b \in Bots : status'[b] = "error" => status[b] \in {"starting", "error"}]_vars
=============================================================================
