-------------------------- MODULE BotControlProofs --------------------------
(***************************************************************************)
(* Proofs about BotControl, for every set of bots and of request handlers  *)
(* and every value of the bounds.                                          *)
(***************************************************************************)
EXTENDS BotControl, TLAPS

-----------------------------------------------------------------------------
(* Type correctness.                                                       *)

LEMMA InitTypeOK == Init => TypeOK
BY BoundsAssumption
   DEF Init, TypeOK, NoWrite, Writes, Writers, Statuses, NoRow,
       IdleProjector, NoEvent, Events, ProjectorStates

\* What a transaction commits keeps the types of the table.
LEMMA CommitWritesType ==
    ASSUME TypeOK, NEW w, CommitWrites(w)
    PROVE  /\ status' \in [Bots -> Statuses \cup NoRow]
           /\ old' \in [Bots -> BOOLEAN]
           /\ write' \in [Bots -> Writes]
<1>1. \A b \in Bots : View(w, b) \in Statuses \cup NoRow
  BY DEF TypeOK, View, Writes
<1>2. NoWrite \in Writes
  BY DEF NoWrite, Writes
<1>3. status' \in [Bots -> Statuses \cup NoRow]
  BY <1>1 DEF CommitWrites
<1>4. old' \in [Bots -> BOOLEAN]
  BY DEF CommitWrites, TypeOK
<1>5. write' \in [Bots -> Writes]
  BY <1>2 DEF CommitWrites, TypeOK
<1>6. QED
  BY <1>3, <1>4, <1>5

LEMMA RollbackType ==
    ASSUME TypeOK, NEW ws, Rollback(ws)
    PROVE  write' \in [Bots -> Writes]
<1>1. NoWrite \in Writes
  BY DEF NoWrite, Writes
<1>2. QED
  BY <1>1 DEF Rollback, TypeOK

\* Redis delivers or drops an event: the waiting events keep their type.
LEMMA EmitType ==
    ASSUME TypeOK, NEW k \in {"started", "error", "status"}, NEW S \in SUBSET Bots, Emit(k, S)
    PROVE  events' \in Seq(Events)
<1>1. [kind |-> k, bots |-> S] \in Events
  BY DEF Events
<1>2. events \in Seq(Events)
  BY DEF TypeOK
<1>3. QED
  BY <1>1, <1>2 DEF Emit

LEMMA IdleProjectorType ==
    IdleProjector \in [pc : ProjectorStates, ev : Events, stage : 1..3,
                       todo : SUBSET Bots, seen : SUBSET Bots, aged : SUBSET Bots]
BY DEF IdleProjector, ProjectorStates, NoEvent, Events

\* An empty queue is a queue.
LEMMA EmptyQueues == <<>> \in Seq(Commands) /\ <<>> \in Seq(Events)
OBVIOUS

LEMMA FaultType == ASSUME TypeOK, Fault PROVE faults' \in Nat
BY DEF TypeOK, Fault

LEMMA TargetType == \A k \in Kinds : Target(k) \in Statuses \cup {"same"}
BY DEF Kinds, Target, Statuses

\* A handler that is not idle has drawn a command.
LEMMA BusyRequest ==
    ASSUME TypeOK, NEW r \in Requests, req[r].pc # "idle"
    PROVE  req[r] \in BusyRequests
BY DEF TypeOK, IdleRequest, BusyRequests

LEMMA BeginType ==
    ASSUME TypeOK, NEW r \in Requests, NEW k \in Kinds, NEW b \in Bots, Begin(r, k, b)
    PROVE  TypeOK'
<1>1. [id |-> issued + 1, kind |-> k, bot |-> b] \in Commands
  BY DEF TypeOK, Commands
<1>2. PICK dirty \in BOOLEAN :
         req' = [req EXCEPT ![r] = [pc |-> "checked", dirty |-> dirty,
                                    cmd |-> [id |-> issued + 1, kind |-> k, bot |-> b]]]
  <2>1. (status[b] # Target(k)) \in BOOLEAN
    OBVIOUS
  <2>2. QED
    BY <2>1 DEF Begin
<1>3. [pc |-> "checked", dirty |-> dirty,
       cmd |-> [id |-> issued + 1, kind |-> k, bot |-> b]] \in BusyRequests
  BY <1>1 DEF BusyRequests
<1>4. req' \in [Requests -> {IdleRequest} \cup BusyRequests]
  BY <1>2, <1>3 DEF TypeOK
<1>5. QED
  BY <1>4 DEF Begin, TypeOK, dbVars, engineVars

LEMMA RequestType ==
    ASSUME TypeOK, NEW r \in Requests, Request(r) \/ AbortRequest(r)
    PROVE  TypeOK'
<1> USE DEF dbVars, engineVars
<1>1. CASE InsertCommand(r)
  <2>1. req[r] \in BusyRequests
    BY <1>1, BusyRequest DEF InsertCommand
  <2>2. [req[r] EXCEPT !.pc = "inserted"] \in BusyRequests
    BY <2>1 DEF BusyRequests
  <2>3. req' \in [Requests -> {IdleRequest} \cup BusyRequests]
    BY <1>1, <2>2 DEF InsertCommand, TypeOK
  <2>4. QED
    BY <1>1, <2>3 DEF InsertCommand, TypeOK
<1>2. CASE PublishCommand(r)
  <2>1. req[r] \in BusyRequests
    BY <1>2, BusyRequest DEF PublishCommand
  <2>2. req[r].cmd \in Commands
    BY <2>1 DEF BusyRequests
  <2>3. [req[r] EXCEPT !.pc = "published"] \in BusyRequests
    BY <2>1 DEF BusyRequests
  <2>4. req' \in [Requests -> {IdleRequest} \cup BusyRequests]
    BY <1>2, <2>3 DEF PublishCommand, TypeOK
  <2>5. toEngine' \in Seq(Commands) /\ sent' \subseteq Commands
    BY <1>2, <2>2 DEF PublishCommand, TypeOK
  <2>6. QED
    BY <1>2, <2>4, <2>5 DEF PublishCommand, TypeOK
<1>3. CASE WriteStatus(r)
  <2>1. req[r] \in BusyRequests
    BY <1>3, BusyRequest DEF WriteStatus
  <2>2. req[r].cmd.bot \in Bots /\ req[r].cmd.kind \in Kinds
    BY <2>1 DEF BusyRequests, Commands
  <2>3. [req[r] EXCEPT !.pc = "written"] \in BusyRequests
    BY <2>1 DEF BusyRequests
  <2>4. req' \in [Requests -> {IdleRequest} \cup BusyRequests]
    BY <1>3, <2>3 DEF WriteStatus, TypeOK
  <2>5. [by |-> r, to |-> Target(req[r].cmd.kind)] \in Writes
    BY <2>2, TargetType DEF Writes, Writers
  <2>6. write' \in [Bots -> Writes]
    BY <1>3, <2>5 DEF WriteStatus, TypeOK
  <2>7. QED
    BY <1>3, <2>4, <2>6 DEF WriteStatus, TypeOK
<1>4. CASE CommitRequest(r)
  <2>1. req[r] \in BusyRequests
    BY <1>4, BusyRequest DEF CommitRequest
  <2>2. req[r].cmd \in Commands
    BY <2>1 DEF BusyRequests
  <2>3. CommitWrites(r)
    BY <1>4 DEF CommitRequest
  <2>4. QED
    BY <1>4, <2>2, <2>3, CommitWritesType DEF CommitRequest, TypeOK
<1>5. CASE AbortRequest(r)
  <2>1. Rollback({r}) /\ Fault
    BY <1>5 DEF AbortRequest
  <2>2. QED
    BY <1>5, <2>1, RollbackType, FaultType DEF AbortRequest, TypeOK
<1>6. QED
  BY <1>1, <1>2, <1>3, <1>4, <1>5 DEF Request

LEMMA TableType ==
    ASSUME TypeOK, NEW b \in Bots, CreateBot(b) \/ DeleteBot(b) \/ Age(b)
    PROVE  TypeOK'
BY DEF TypeOK, CreateBot, DeleteBot, Age, engineVars, NoRow, Statuses

LEMMA EngineType ==
    ASSUME TypeOK, EngineTakesCommand \/ EngineHeartbeat \/ EngineCrash \/ EngineRestart
                      \/ \E b \in Bots : StrategyFails(b)
    PROVE  TypeOK'
<1> USE DEF dbVars, engineVars
<1>1. CASE EngineTakesCommand
  <2> DEFINE c == Head(toEngine)
  <2>1. c \in Commands /\ Tail(toEngine) \in Seq(Commands)
    BY <1>1 DEF EngineTakesCommand, TypeOK
  <2>2. c.bot \in Bots /\ {c.bot} \in SUBSET Bots
    BY <2>1 DEF Commands
  <2>3. events' \in Seq(Events)
    <3>1. UNCHANGED events \/ Emit("started", {c.bot}) \/ Emit("error", {c.bot})
      BY <1>1 DEF EngineTakesCommand
    <3>2. QED
      BY <2>2, <3>1, EmitType DEF TypeOK
  <2>4. active' \subseteq Bots
    BY <1>1, <2>2 DEF EngineTakesCommand, TypeOK
  <2>5. QED
    BY <1>1, <2>1, <2>3, <2>4 DEF EngineTakesCommand, TypeOK
<1>2. CASE EngineHeartbeat
  <2>1. active \in SUBSET Bots /\ Emit("status", active)
    BY <1>2 DEF EngineHeartbeat, TypeOK
  <2>2. events' \in Seq(Events)
    BY <2>1, EmitType
  <2>3. QED
    BY <1>2, <2>2 DEF EngineHeartbeat, TypeOK
<1>3. CASE EngineCrash
  <2>1. toEngine' \in Seq(Commands) /\ active' \subseteq Bots /\ engineUp' \in BOOLEAN
    BY <1>3, EmptyQueues, Zenon DEF EngineCrash
  <2>2. faults' \in Nat
    BY <1>3, FaultType DEF EngineCrash
  <2>3. QED
    BY <1>3, <2>1, <2>2 DEF EngineCrash, TypeOK
<1>4. CASE EngineRestart
  BY <1>4 DEF EngineRestart, TypeOK
<1>5. ASSUME NEW b \in Bots, StrategyFails(b)
      PROVE  TypeOK'
  <2>1. events' \in Seq(Events)
    <3>1. {b} \in SUBSET Bots /\ Emit("error", {b})
      BY <1>5 DEF StrategyFails
    <3>2. QED
      BY <3>1, EmitType
  <2>2. QED
    BY <1>5, <2>1 DEF StrategyFails, TypeOK
<1>6. QED
  BY <1>1, <1>2, <1>3, <1>4, <1>5

LEMMA ProjectorType ==
    ASSUME TypeOK, Projector \/ FailEvent \/ Disconnect \/ Resubscribe \/ BackendCrash
    PROVE  TypeOK'
<1> USE DEF dbVars, engineVars
<1> DEFINE ProjectorRecord ==
             [pc : ProjectorStates, ev : Events, stage : 1..3,
              todo : SUBSET Bots, seen : SUBSET Bots, aged : SUBSET Bots]
<1>1. CASE ReceiveEvent
  <2>1. Head(events) \in Events /\ Tail(events) \in Seq(Events)
    BY <1>1 DEF ReceiveEvent, TypeOK
  <2>2. proj' \in ProjectorRecord
    BY <1>1, <2>1, IdleProjectorType DEF ReceiveEvent, ProjectorStates
  <2>3. QED
    BY <1>1, <2>1, <2>2 DEF ReceiveEvent, TypeOK
<1>2. CASE SelectBots
  <2>1. Selected \in SUBSET Bots
    BY DEF Selected, ListByStatuses, TypeOK, Events
  <2>2. Loaded \in SUBSET Bots
    BY DEF Loaded, ListByStatuses
  <2>3. proj' \in ProjectorRecord
    BY <1>2, <2>1, <2>2 DEF SelectBots, TypeOK, ProjectorStates
  <2>4. QED
    BY <1>2, <2>3 DEF SelectBots, TypeOK
<1>3. ASSUME NEW b \in Bots, UpdateStatusById(b)
      PROVE  TypeOK'
  <2>1. NewStatus \in Statuses
    BY DEF NewStatus, Statuses, TypeOK, Events
  <2>2. [by |-> "projector", to |-> NewStatus] \in Writes
    BY <2>1 DEF Writes, Writers
  <2>3. write' \in [Bots -> Writes]
    BY <1>3, <2>2 DEF UpdateStatusById, TypeOK
  <2>4. proj' \in ProjectorRecord
    BY <1>3 DEF UpdateStatusById, TypeOK
  <2>5. QED
    BY <1>3, <2>3, <2>4 DEF UpdateStatusById, TypeOK
<1>4. CASE NextStage
  <2>1. proj \in ProjectorRecord /\ proj.stage + 1 \in 1..3
    BY <1>4 DEF NextStage, LastStage, TypeOK
  <2>2. proj' \in ProjectorRecord
    <3>1. proj' = [proj EXCEPT !.pc = "select", !.stage = proj.stage + 1]
      BY <1>4 DEF NextStage
    <3>2. QED
      BY <2>1, <3>1 DEF ProjectorStates
  <2>3. QED
    BY <1>4, <2>2 DEF NextStage, TypeOK
<1>5. CASE CommitEvent
  <2>1. CommitWrites("projector")
    BY <1>5 DEF CommitEvent
  <2>2. QED
    BY <1>5, <2>1, CommitWritesType, IdleProjectorType DEF CommitEvent, TypeOK
<1>6. CASE FailEvent
  <2>1. Rollback({"projector"}) /\ Fault
    BY <1>6 DEF FailEvent
  <2>2. QED
    BY <1>6, <2>1, RollbackType, FaultType, IdleProjectorType DEF FailEvent, TypeOK
<1>7. CASE Disconnect
  <2>1. events' \in Seq(Events) /\ subscribed' \in BOOLEAN
    BY <1>7, EmptyQueues, Zenon DEF Disconnect
  <2>2. faults' \in Nat
    BY <1>7, FaultType DEF Disconnect
  <2>3. QED
    BY <1>7, <2>1, <2>2 DEF Disconnect, TypeOK
<1>8. CASE Resubscribe
  BY <1>8 DEF Resubscribe, TypeOK
<1>9. CASE BackendCrash
  <2>1. Rollback(Writers) /\ Fault
    BY <1>9 DEF BackendCrash
  <2>2. events' \in Seq(Events) /\ subscribed' \in BOOLEAN
    BY <1>9, EmptyQueues, Zenon DEF BackendCrash
  <2>3. req' \in [Requests -> {IdleRequest} \cup BusyRequests]
    BY <1>9 DEF BackendCrash
  <2>4. proj' \in ProjectorRecord
    BY <1>9, IdleProjectorType DEF BackendCrash
  <2>5. QED
    BY <1>9, <2>1, <2>2, <2>3, <2>4, RollbackType, FaultType DEF BackendCrash, TypeOK
<1>10. QED
  BY <1>1, <1>2, <1>3, <1>4, <1>5, <1>6, <1>7, <1>8, <1>9 DEF Projector

\* Every variable keeps its type whatever the handlers, the engine, the
\* projector and the faults do.
THEOREM TypeCorrect == Spec => []TypeOK
<1>1. TypeOK /\ [Next]_vars => TypeOK'
  <2> SUFFICES ASSUME TypeOK, [Next]_vars PROVE TypeOK'
    OBVIOUS
  <2>1. CASE UNCHANGED vars
    BY <2>1 DEF vars, TypeOK
  <2>2. CASE Next
    BY <2>2, BeginType, RequestType, TableType, EngineType, ProjectorType DEF Next
  <2>3. QED
    BY <2>1, <2>2
<1>2. QED
  BY <1>1, InitTypeOK, PTL DEF Spec

-----------------------------------------------------------------------------
(* No status without a request.  StatusWasRequested is not inductive: the   *)
(* request for a bot must also be remembered by every place from which its  *)
(* status can still come - open transactions, handlers, the engine and its  *)
(* waiting commands, the waiting events, the projector.                     *)

WritesWereRequested ==
    \A b \in Bots :
        /\ write[b].to \in Statuses => WasSent("start", b)
        /\ write[b].to = "stopping" => WasSent("stop", b)

\* A handler past its publish holds a command that was sent; one that stops a
\* bot found the bot started.
HandlersWereRequested ==
    \A r \in Requests :
        req[r].pc # "idle" =>
            /\ req[r].cmd.kind = "stop" => WasSent("start", req[r].cmd.bot)
            /\ req[r].pc \in {"published", "written"} => req[r].cmd \in sent

EngineWasRequested ==
    /\ \A i \in 1..Len(toEngine) : toEngine[i] \in sent
    /\ \A b \in active : WasSent("start", b)

EventsWereRequested ==
    \A i \in 1..Len(events) : \A b \in events[i].bots : WasSent("start", b)

ProjectorWasRequested ==
    \A b \in proj.ev.bots \cup proj.todo : WasSent("start", b)

IInv ==
    /\ StatusWasRequested /\ CommandRowsWereSent
    /\ WritesWereRequested /\ HandlersWereRequested
    /\ EngineWasRequested /\ EventsWereRequested /\ ProjectorWasRequested

LEMMA InitIInv == Init => IInv
BY DEF Init, IInv, StatusWasRequested, CommandRowsWereSent, WritesWereRequested,
       HandlersWereRequested, EngineWasRequested, EventsWereRequested, ProjectorWasRequested,
       NoWrite, Statuses, IdleRequest, IdleProjector, NoEvent

\* Commands are never unsent.
LEMMA WasSentMonotone ==
    ASSUME sent \subseteq sent'
    PROVE  \A k, b : WasSent(k, b) => WasSent(k, b)'
BY DEF WasSent

\* What a transaction commits was requested.
LEMMA CommitWritesRequested ==
    ASSUME TypeOK, IInv, NEW w, CommitWrites(w), UNCHANGED sent
    PROVE  StatusWasRequested' /\ WritesWereRequested'
<1>1. \A k, b : WasSent(k, b)' <=> WasSent(k, b)
  BY DEF WasSent
<1>2. \A b \in Bots : status'[b] = View(w, b)
  BY DEF CommitWrites
<1>3. \A b \in Bots : status'[b] = status[b]
                         \/ (write[b].to \in Statuses /\ status'[b] = write[b].to)
  <2>1. \A b \in Bots : write[b].to = "same" \/ write[b].to \in Statuses
    BY DEF TypeOK, Writes
  <2>2. QED
    BY <1>2, <2>1 DEF View
<1>4. StatusWasRequested'
  BY <1>1, <1>3 DEF IInv, StatusWasRequested, WritesWereRequested
<1>5. \A b \in Bots : write'[b] = write[b] \/ write'[b] = NoWrite
  BY DEF CommitWrites
<1>6. WritesWereRequested'
  BY <1>1, <1>5 DEF IInv, WritesWereRequested, NoWrite, Statuses
<1>7. QED
  BY <1>4, <1>6

LEMMA RollbackRequested ==
    ASSUME TypeOK, IInv, NEW ws, Rollback(ws), UNCHANGED sent
    PROVE  WritesWereRequested'
<1>1. \A k, b : WasSent(k, b)' <=> WasSent(k, b)
  BY DEF WasSent
<1>2. \A b \in Bots : write'[b] = write[b] \/ write'[b] = NoWrite
  BY DEF Rollback
<1>3. QED
  BY <1>1, <1>2 DEF IInv, WritesWereRequested, NoWrite, Statuses

\* What a queue holds after an append, and after its head is taken.
LEMMA AppendElements ==
    ASSUME NEW S, NEW s \in Seq(S), NEW e \in S
    PROVE  \A i \in 1..Len(Append(s, e)) :
              Append(s, e)[i] = e \/ (i \in 1..Len(s) /\ Append(s, e)[i] = s[i])
OBVIOUS

LEMMA TailElements ==
    ASSUME NEW S, NEW s \in Seq(S), s # <<>>
    PROVE  /\ Head(s) = s[1] /\ 1 \in 1..Len(s)
           /\ \A i \in 1..Len(Tail(s)) : i + 1 \in 1..Len(s) /\ Tail(s)[i] = s[i + 1]
OBVIOUS

\* An event that speaks only of started bots may join the waiting ones.
LEMMA EmitRequested ==
    ASSUME TypeOK, IInv, NEW k \in {"started", "error", "status"}, NEW S \in SUBSET Bots,
           Emit(k, S), UNCHANGED sent, \A b \in S : WasSent("start", b)
    PROVE  EventsWereRequested'
<1> DEFINE e == [kind |-> k, bots |-> S]
<1>1. \A b : WasSent("start", b)' <=> WasSent("start", b)
  BY DEF WasSent
<1>2. events \in Seq(Events) /\ e \in Events
  BY DEF TypeOK, Events
<1>3. CASE events' = events
  BY <1>1, <1>3 DEF IInv, EventsWereRequested
<1>4. CASE events' = Append(events, e)
  <2>1. ASSUME NEW i \in 1..Len(events')
        PROVE  events'[i] = e \/ (i \in 1..Len(events) /\ events'[i] = events[i])
    BY <1>2, <1>4, AppendElements
  <2>2. QED
    BY <1>1, <2>1 DEF IInv, EventsWereRequested
<1>5. QED
  BY <1>3, <1>4 DEF Emit

LEMMA SameSent == ASSUME UNCHANGED sent PROVE \A k, b : WasSent(k, b)' <=> WasSent(k, b)
BY DEF WasSent

\* A step that changes none of the variables of a conjunct keeps it.
LEMMA IInvFrame ==
    ASSUME IInv, UNCHANGED sent
    PROVE  /\ UNCHANGED status => StatusWasRequested'
           /\ UNCHANGED rows => CommandRowsWereSent'
           /\ UNCHANGED write => WritesWereRequested'
           /\ UNCHANGED req => HandlersWereRequested'
           /\ UNCHANGED <<toEngine, active>> => EngineWasRequested'
           /\ UNCHANGED events => EventsWereRequested'
           /\ UNCHANGED proj => ProjectorWasRequested'
<1> USE SameSent
<1>1. UNCHANGED status => StatusWasRequested'
  BY DEF IInv, StatusWasRequested
<1>2. UNCHANGED rows => CommandRowsWereSent'
  BY DEF IInv, CommandRowsWereSent
<1>3. UNCHANGED write => WritesWereRequested'
  BY DEF IInv, WritesWereRequested
<1>4. UNCHANGED req => HandlersWereRequested'
  BY DEF IInv, HandlersWereRequested
<1>5. UNCHANGED <<toEngine, active>> => EngineWasRequested'
  BY DEF IInv, EngineWasRequested
<1>6. UNCHANGED events => EventsWereRequested'
  BY DEF IInv, EventsWereRequested
<1>7. UNCHANGED proj => ProjectorWasRequested'
  BY DEF IInv, ProjectorWasRequested
<1>8. QED
  BY <1>1, <1>2, <1>3, <1>4, <1>5, <1>6, <1>7

LEMMA TableIInv ==
    ASSUME TypeOK, IInv, NEW b \in Bots, CreateBot(b) \/ DeleteBot(b) \/ Age(b)
    PROVE  IInv'
<1>1. UNCHANGED <<sent, write, req, toEngine, active, events, proj>>
  BY DEF CreateBot, DeleteBot, Age, engineVars
<1>2. \A x \in Bots : status'[x] = status[x] \/ status'[x] \in {"draft", "deleted"}
  BY DEF CreateBot, DeleteBot, Age, TypeOK
<1>3. StatusWasRequested'
  BY <1>1, <1>2, SameSent DEF IInv, StatusWasRequested, Statuses
<1>4. CommandRowsWereSent'
  BY <1>1 DEF CreateBot, DeleteBot, Age, IInv, CommandRowsWereSent
<1>5. QED
  BY <1>1, <1>3, <1>4, IInvFrame DEF IInv

LEMMA BeginIInv ==
    ASSUME TypeOK, IInv, NEW r \in Requests, NEW k \in Kinds, NEW b \in Bots, Begin(r, k, b)
    PROVE  IInv'
<1>1. UNCHANGED <<sent, status, rows, write, toEngine, active, events, proj>>
  BY DEF Begin, dbVars, engineVars
<1>2. k = "stop" => WasSent("start", b)
  <2>1. k = "stop" => status[b] \in Statuses \ {"draft"}
    BY DEF Begin, Admits, Kinds
  <2>2. QED
    BY <2>1 DEF IInv, StatusWasRequested
<1>3. HandlersWereRequested'
  <2>1. PICK dirty : req' = [req EXCEPT ![r] =
            [pc |-> "checked", dirty |-> dirty,
             cmd |-> [id |-> issued + 1, kind |-> k, bot |-> b]]]
    BY DEF Begin
  <2>2. \A x \in Requests \ {r} : req'[x] = req[x]
    BY <2>1 DEF TypeOK
  <2>3. /\ req'[r].pc = "checked"
        /\ req'[r].cmd.kind = k
        /\ req'[r].cmd.bot = b
    BY <2>1 DEF TypeOK
  <2>4. QED
    BY <1>1, <1>2, <2>2, <2>3, SameSent DEF IInv, HandlersWereRequested
<1>4. QED
  BY <1>1, <1>3, IInvFrame DEF IInv

LEMMA RequestIInv ==
    ASSUME TypeOK, IInv, NEW r \in Requests, Request(r) \/ AbortRequest(r)
    PROVE  IInv'
<1>1. CASE InsertCommand(r)
  <2>1. UNCHANGED <<sent, status, rows, write, toEngine, active, events, proj>>
    BY <1>1 DEF InsertCommand, dbVars, engineVars
  <2>2. /\ \A x \in Requests \ {r} : req'[x] = req[x]
        /\ \/ req'[r].pc = "idle"
           \/ req'[r].pc = "inserted" /\ req'[r].cmd = req[r].cmd
    BY <1>1, BusyRequest DEF InsertCommand, TypeOK, IdleRequest, BusyRequests
  <2>3. HandlersWereRequested'
    BY <1>1, <2>1, <2>2, SameSent DEF IInv, HandlersWereRequested, InsertCommand
  <2>4. QED
    BY <2>1, <2>3, IInvFrame DEF IInv
<1>2. CASE PublishCommand(r)
  <2> DEFINE c == req[r].cmd
  <2>1. UNCHANGED <<status, rows, write, active, events, proj>>
    BY <1>2 DEF PublishCommand, dbVars, engineVars
  <2>2. sent' = sent \cup {c}
    BY <1>2 DEF PublishCommand
  <2>3. \A k, b : WasSent(k, b) => WasSent(k, b)'
    BY <2>2, WasSentMonotone
  <2>4. HandlersWereRequested'
    <3>1. /\ \A x \in Requests \ {r} : req'[x] = req[x]
          /\ req'[r].cmd = c
      BY <1>2, BusyRequest DEF PublishCommand, TypeOK, BusyRequests
    <3>2. c.kind = "stop" => WasSent("start", c.bot)
      BY <1>2 DEF PublishCommand, IInv, HandlersWereRequested
    <3>3. QED
      BY <2>2, <2>3, <3>1, <3>2 DEF IInv, HandlersWereRequested
  <2>5. \A i \in 1..Len(toEngine') : toEngine'[i] \in sent'
    <3>1. c \in Commands /\ toEngine \in Seq(Commands)
      BY <1>2, BusyRequest DEF PublishCommand, TypeOK, BusyRequests
    <3>2. CASE toEngine' = toEngine
      BY <2>2, <3>2 DEF IInv, EngineWasRequested
    <3>3. CASE toEngine' = Append(toEngine, c)
      BY <2>2, <3>1, <3>3, AppendElements DEF IInv, EngineWasRequested
    <3>4. QED
      BY <1>2, <3>2, <3>3 DEF PublishCommand
  <2>6. EngineWasRequested'
    BY <2>1, <2>3, <2>5 DEF IInv, EngineWasRequested
  <2>7. StatusWasRequested' /\ CommandRowsWereSent' /\ WritesWereRequested'
    BY <2>1, <2>2, <2>3 DEF IInv, StatusWasRequested, CommandRowsWereSent, WritesWereRequested
  <2>8. EventsWereRequested' /\ ProjectorWasRequested'
    BY <2>1, <2>3 DEF IInv, EventsWereRequested, ProjectorWasRequested
  <2>9. QED
    BY <2>4, <2>6, <2>7, <2>8 DEF IInv
<1>3. CASE WriteStatus(r)
  <2> DEFINE c == req[r].cmd
  <2>1. UNCHANGED <<sent, status, rows, toEngine, active, events, proj>>
    BY <1>3 DEF WriteStatus, engineVars
  <2>2. c \in sent /\ c.bot \in Bots /\ c.kind \in Kinds
    <3>1. req[r] \in BusyRequests
      BY <1>3, BusyRequest DEF WriteStatus
    <3>2. QED
      BY <1>3, <3>1 DEF WriteStatus, BusyRequests, Commands, IInv, HandlersWereRequested
  <2>3. /\ Target(c.kind) \in Statuses => WasSent("start", c.bot)
        /\ Target(c.kind) = "stopping" => WasSent("stop", c.bot)
    <3>1. WasSent(c.kind, c.bot)
      BY <2>2 DEF WasSent
    <3>2. c.kind = "stop" => WasSent("start", c.bot)
      BY <1>3 DEF WriteStatus, IInv, HandlersWereRequested
    <3>3. QED
      BY <2>2, <3>1, <3>2 DEF Kinds, Target, Statuses
  <2>4. \A b \in Bots : write'[b] = write[b]
                           \/ (b = c.bot /\ write'[b].to = Target(c.kind))
    BY <1>3, <2>2 DEF WriteStatus, TypeOK
  <2>5. WritesWereRequested'
    BY <2>1, <2>3, <2>4, SameSent DEF IInv, WritesWereRequested
  <2>6. /\ \A x \in Requests \ {r} : req'[x] = req[x]
        /\ req'[r].cmd = req[r].cmd
    BY <1>3, BusyRequest DEF WriteStatus, TypeOK, BusyRequests
  <2>7. HandlersWereRequested'
    BY <1>3, <2>1, <2>2, <2>6, SameSent DEF IInv, HandlersWereRequested, WriteStatus
  <2>8. QED
    BY <2>1, <2>5, <2>7, IInvFrame DEF IInv
<1>4. CASE CommitRequest(r)
  <2>1. UNCHANGED <<sent, toEngine, active, events, proj>>
    BY <1>4 DEF CommitRequest, engineVars
  <2>2. StatusWasRequested' /\ WritesWereRequested'
    BY <1>4, <2>1, CommitWritesRequested DEF CommitRequest
  <2>3. CommandRowsWereSent'
    BY <1>4 DEF CommitRequest, IInv, CommandRowsWereSent, HandlersWereRequested
  <2>4. \A x \in Requests : req'[x] = req[x] \/ req'[x].pc = "idle"
    BY <1>4 DEF CommitRequest, TypeOK, IdleRequest
  <2>5. HandlersWereRequested'
    BY <2>1, <2>4, SameSent DEF IInv, HandlersWereRequested
  <2>6. QED
    BY <2>1, <2>2, <2>3, <2>5, IInvFrame DEF IInv
<1>5. CASE AbortRequest(r)
  <2>1. UNCHANGED <<sent, status, rows, toEngine, active, events, proj>>
    BY <1>5 DEF AbortRequest, engineVars
  <2>2. WritesWereRequested'
    BY <1>5, <2>1, RollbackRequested DEF AbortRequest
  <2>3. \A x \in Requests : req'[x] = req[x] \/ req'[x].pc = "idle"
    BY <1>5 DEF AbortRequest, TypeOK, IdleRequest
  <2>4. HandlersWereRequested'
    BY <2>1, <2>3, SameSent DEF IInv, HandlersWereRequested
  <2>5. QED
    BY <2>1, <2>2, <2>4, IInvFrame DEF IInv
<1>6. QED
  BY <1>1, <1>2, <1>3, <1>4, <1>5 DEF Request

LEMMA EngineIInv ==
    ASSUME TypeOK, IInv,
           EngineTakesCommand \/ EngineHeartbeat \/ EngineCrash \/ EngineRestart
              \/ \E b \in Bots : StrategyFails(b)
    PROVE  IInv'
<1>1. UNCHANGED <<sent, status, rows, write, req, proj>>
  BY DEF EngineTakesCommand, EngineHeartbeat, EngineCrash, EngineRestart, StrategyFails,
         dbVars, engineVars
<1>2. CASE EngineTakesCommand
  <2> DEFINE c == Head(toEngine)
  <2>1. toEngine \in Seq(Commands) /\ toEngine # <<>> /\ toEngine' = Tail(toEngine)
    BY <1>2 DEF EngineTakesCommand, TypeOK
  <2>2. c \in sent /\ c.bot \in Bots
    BY <2>1, TailElements DEF IInv, EngineWasRequested, TypeOK, Commands
  <2>3. c.kind = "start" => WasSent("start", c.bot)
    BY <2>2 DEF WasSent
  <2>4. \A i \in 1..Len(toEngine') : toEngine'[i] \in sent'
    BY <1>1, <2>1, TailElements DEF IInv, EngineWasRequested
  <2>5. \A b \in active' : WasSent("start", b)
    BY <1>2, <2>3 DEF EngineTakesCommand, IInv, EngineWasRequested
  <2>6. EngineWasRequested'
    BY <1>1, <2>4, <2>5, SameSent DEF EngineWasRequested
  <2>7. EventsWereRequested'
    <3>1. CASE UNCHANGED events
      BY <1>1, <3>1, IInvFrame
    <3>2. CASE c.kind = "start" /\ (Emit("started", {c.bot}) \/ Emit("error", {c.bot}))
      <4>1. {c.bot} \in SUBSET Bots /\ \A b \in {c.bot} : WasSent("start", b)
        BY <2>2, <2>3, <3>2
      <4>2. QED
        BY <1>1, <3>2, <4>1, EmitRequested
    <3>3. QED
      BY <1>2, <3>1, <3>2 DEF EngineTakesCommand
  <2>8. QED
    BY <1>1, <2>6, <2>7, IInvFrame DEF IInv
<1>3. CASE EngineHeartbeat
  <2>1. UNCHANGED <<toEngine, active>> /\ Emit("status", active) /\ active \in SUBSET Bots
    BY <1>3 DEF EngineHeartbeat, engineVars, TypeOK
  <2>2. EventsWereRequested'
    BY <1>1, <2>1, EmitRequested DEF IInv, EngineWasRequested
  <2>3. QED
    BY <1>1, <2>1, <2>2, IInvFrame DEF IInv
<1>4. CASE EngineCrash \/ EngineRestart
  <2>1. UNCHANGED events
    BY <1>4 DEF EngineCrash, EngineRestart
  <2>2. active' \subseteq active /\ (toEngine' = <<>> \/ toEngine' = toEngine)
    BY <1>4 DEF EngineCrash, EngineRestart
  <2>3. EngineWasRequested'
    BY <1>1, <2>2, SameSent DEF IInv, EngineWasRequested
  <2>4. QED
    BY <1>1, <2>1, <2>3, IInvFrame DEF IInv
<1>5. ASSUME NEW b \in Bots, StrategyFails(b)
      PROVE  IInv'
  <2>1. UNCHANGED toEngine /\ active' \subseteq active
    BY <1>5 DEF StrategyFails
  <2>2. EngineWasRequested'
    BY <1>1, <2>1, SameSent DEF IInv, EngineWasRequested
  <2>3. {b} \in SUBSET Bots /\ Emit("error", {b}) /\ \A x \in {b} : WasSent("start", x)
    BY <1>5 DEF StrategyFails, IInv, EngineWasRequested
  <2>4. EventsWereRequested'
    BY <1>1, <2>3, EmitRequested
  <2>5. QED
    BY <1>1, <2>2, <2>4, IInvFrame DEF IInv
<1>6. QED
  BY <1>2, <1>3, <1>4, <1>5

LEMMA ProjectorIInv ==
    ASSUME TypeOK, IInv, Projector
    PROVE  IInv'
<1>1. UNCHANGED <<sent, rows, req, toEngine, active>>
  BY DEF Projector, ReceiveEvent, SelectBots, NextStage, CommitEvent, UpdateStatusById,
         dbVars, engineVars
<1>2. CASE ReceiveEvent
  <2>1. UNCHANGED <<status, write>>
    BY <1>2 DEF ReceiveEvent, dbVars
  <2>2. events \in Seq(Events) /\ events # <<>> /\ events' = Tail(events)
    BY <1>2 DEF ReceiveEvent, TypeOK
  <2>3. EventsWereRequested'
    BY <1>1, <2>2, TailElements, SameSent DEF IInv, EventsWereRequested
  <2>4. \A b \in Head(events).bots : WasSent("start", b)
    BY <2>2, TailElements DEF IInv, EventsWereRequested
  <2>5. proj'.ev = Head(events) /\ proj'.todo = {}
    BY <1>2 DEF ReceiveEvent, IdleProjector
  <2>6. ProjectorWasRequested'
    BY <1>1, <2>4, <2>5, SameSent DEF ProjectorWasRequested
  <2>7. QED
    BY <1>1, <2>1, <2>3, <2>6, IInvFrame DEF IInv
<1>3. CASE SelectBots
  <2>1. UNCHANGED <<status, write, events>>
    BY <1>3 DEF SelectBots, dbVars
  <2>2. ASSUME NEW b \in Bots, View("projector", b) \in Statuses \ {"draft"}
        PROVE  WasSent("start", b)
    BY <2>2 DEF View, IInv, StatusWasRequested, WritesWereRequested
  <2>3. \A b \in Selected : b \in proj.ev.bots \/ WasSent("start", b)
    <3>1. /\ ListByStatuses({"starting"}) \subseteq {b \in Bots : WasSent("start", b)}
          /\ ListByStatuses({"running", "stopping"}) \subseteq {b \in Bots : WasSent("start", b)}
      BY <2>2 DEF ListByStatuses, Statuses
    <3>2. proj.stage \in 1..3
      BY DEF TypeOK
    <3>3. QED
      BY <3>1, <3>2 DEF Selected
  <2>4. proj'.ev = proj.ev /\ proj'.todo = Selected
    BY <1>3 DEF SelectBots, TypeOK
  <2>5. ProjectorWasRequested'
    BY <1>1, <2>3, <2>4, SameSent DEF IInv, ProjectorWasRequested
  <2>6. QED
    BY <1>1, <2>1, <2>5, IInvFrame DEF IInv
<1>4. ASSUME NEW b \in Bots, UpdateStatusById(b)
      PROVE  IInv'
  <2>1. UNCHANGED <<status, events>>
    BY <1>4 DEF UpdateStatusById
  <2>2. proj'.ev = proj.ev /\ proj'.todo \subseteq proj.todo
    BY <1>4 DEF UpdateStatusById, TypeOK
  <2>3. ProjectorWasRequested'
    BY <1>1, <2>2, SameSent DEF IInv, ProjectorWasRequested
  <2>4. WasSent("start", b)
    BY <1>4 DEF UpdateStatusById, IInv, ProjectorWasRequested
  <2>5. NewStatus # "stopping"
    BY DEF NewStatus, TypeOK, Events
  <2>6. \A x \in Bots : write'[x] = write[x] \/ (x = b /\ write'[x].to = NewStatus)
    BY <1>4 DEF UpdateStatusById, TypeOK
  <2>7. WritesWereRequested'
    BY <1>1, <2>4, <2>5, <2>6, SameSent DEF IInv, WritesWereRequested
  <2>8. QED
    BY <1>1, <2>1, <2>3, <2>7, IInvFrame DEF IInv
<1>5. CASE NextStage
  <2>1. UNCHANGED <<status, write, events>>
    BY <1>5 DEF NextStage, dbVars
  <2>2. proj'.ev = proj.ev /\ proj'.todo = proj.todo
    BY <1>5 DEF NextStage, TypeOK
  <2>3. ProjectorWasRequested'
    BY <1>1, <2>2, SameSent DEF IInv, ProjectorWasRequested
  <2>4. QED
    BY <1>1, <2>1, <2>3, IInvFrame DEF IInv
<1>6. CASE CommitEvent
  <2>1. UNCHANGED events
    BY <1>6 DEF CommitEvent
  <2>2. StatusWasRequested' /\ WritesWereRequested'
    BY <1>1, <1>6, CommitWritesRequested DEF CommitEvent
  <2>3. ProjectorWasRequested'
    BY <1>6 DEF CommitEvent, IdleProjector, NoEvent, ProjectorWasRequested
  <2>4. QED
    BY <1>1, <2>1, <2>2, <2>3, IInvFrame DEF IInv
<1>7. QED
  BY <1>2, <1>3, <1>4, <1>5, <1>6 DEF Projector

LEMMA FaultIInv ==
    ASSUME TypeOK, IInv, FailEvent \/ Disconnect \/ Resubscribe \/ BackendCrash
    PROVE  IInv'
<1>1. UNCHANGED <<sent, status, rows, toEngine, active>>
  BY DEF FailEvent, Disconnect, Resubscribe, BackendCrash, dbVars, engineVars
<1>2. WritesWereRequested'
  <2>1. UNCHANGED write \/ \E ws : Rollback(ws)
    BY DEF FailEvent, Disconnect, Resubscribe, BackendCrash, dbVars
  <2>2. QED
    BY <1>1, <2>1, RollbackRequested, IInvFrame
<1>3. HandlersWereRequested'
  <2>1. UNCHANGED req \/ \A r \in Requests : req'[r].pc = "idle"
    BY DEF FailEvent, Disconnect, Resubscribe, BackendCrash, IdleRequest
  <2>2. QED
    BY <1>1, <2>1, IInvFrame DEF HandlersWereRequested
<1>4. EventsWereRequested'
  <2>1. events' = events \/ events' = <<>>
    BY DEF FailEvent, Disconnect, Resubscribe, BackendCrash
  <2>2. QED
    BY <1>1, <2>1, IInvFrame DEF EventsWereRequested
<1>5. ProjectorWasRequested'
  <2>1. proj' = proj \/ proj' = IdleProjector
    BY DEF FailEvent, Disconnect, Resubscribe, BackendCrash
  <2>2. CASE proj' = IdleProjector
    BY <2>2 DEF IdleProjector, NoEvent, ProjectorWasRequested
  <2>3. QED
    BY <1>1, <2>1, <2>2, IInvFrame
<1>6. QED
  BY <1>1, <1>2, <1>3, <1>4, <1>5, IInvFrame DEF IInv

LEMMA StepIInv == TypeOK /\ IInv /\ [Next]_vars => IInv'
<1> SUFFICES ASSUME TypeOK, IInv, [Next]_vars PROVE IInv'
  OBVIOUS
<1>1. CASE UNCHANGED vars
  <2>1. UNCHANGED <<status, write, rows, sent, req, toEngine, active, events, proj>>
    BY <1>1 DEF vars
  <2>2. QED
    BY <2>1, IInvFrame DEF IInv
<1>2. CASE Next
  BY <1>2, BeginIInv, RequestIInv, TableIInv, EngineIInv, ProjectorIInv, FaultIInv DEF Next
<1>3. QED
  BY <1>1, <1>2

\* The table shows a bot as anything but a draft only if a start command for it
\* went to the engine, and as stopping only if a stop command did - under any
\* interleaving of handlers, engine, projector, rollbacks and crashes.
THEOREM StatusIsRequested == Spec => []StatusWasRequested
<1>1. IInv => StatusWasRequested
  BY DEF IInv
<1>2. QED
  BY <1>1, InitIInv, StepIInv, TypeCorrect, PTL DEF Spec

\* A command recorded in bot_commands was published.
THEOREM CommandRowsAreSent == Spec => []CommandRowsWereSent
<1>1. IInv => CommandRowsWereSent
  BY DEF IInv
<1>2. QED
  BY <1>1, InitIInv, StepIInv, TypeCorrect, PTL DEF Spec

-----------------------------------------------------------------------------
(* The lifecycle.  A status that only a started bot may have never meets a  *)
(* draft: whoever is about to write one has seen the bot out of draft, and  *)
(* nothing makes it a draft again.  A row that is locked, or referred to by *)
(* an open transaction, is not deleted under it.                            *)

\* The bot has left draft, which it does once.
LeftDraft(b) == status[b] \notin {"none", "draft"}

\* What an open transaction has written, and the row it has written it to.
WritesAreLegal ==
    \A b \in Bots :
        /\ write[b].by # "nobody" => HasRow(b)
        /\ write[b].to # "draft"
        /\ write[b].to \in {"stopping", "stopped"} => LeftDraft(b)

\* A handler that has inserted its command keeps the bot's row in place; one
\* that stops a bot found it out of draft.
HandlersAreLegal ==
    \A r \in Requests :
        /\ req[r].pc \in {"inserted", "published", "written"} => HasRow(req[r].cmd.bot)
        /\ req[r].pc # "idle" /\ req[r].cmd.kind = "stop" => LeftDraft(req[r].cmd.bot)

\* Only a transaction of the projector that is open has written; one that
\* handles a heartbeat has written, and is about to write, to bots that have
\* left draft, and nothing that the heartbeat's list contradicts.
ProjectorIsLegal ==
    /\ \A b \in Bots : write[b].by = "projector" =>
          /\ proj.pc # "idle"
          /\ proj.ev.kind = "status" =>
                LeftDraft(b) /\ (write[b].to = "running" <=> b \in proj.ev.bots)
    /\ proj.ev.kind = "status" =>
          \A b \in proj.todo : LeftDraft(b) /\ (proj.stage = 1 <=> b \in proj.ev.bots)

LegalInv == WritesAreLegal /\ HandlersAreLegal /\ ProjectorIsLegal

LEMMA InitLegal == Init => LegalInv
BY DEF Init, LegalInv, WritesAreLegal, HandlersAreLegal, ProjectorIsLegal, NoWrite,
       IdleRequest, IdleProjector, NoEvent

LEMMA BusyBot ==
    ASSUME TypeOK, NEW r \in Requests, req[r].pc # "idle"
    PROVE  req[r].cmd \in Commands /\ req[r].cmd.bot \in Bots /\ req[r].cmd.kind \in Kinds
BY BusyRequest DEF BusyRequests, Commands

\* No row goes and no bot becomes a draft again.
Kept == \A b \in Bots : (HasRow(b) => HasRow(b)') /\ (LeftDraft(b) => LeftDraft(b)')

LEMMA SameStatus == ASSUME UNCHANGED status PROVE Kept
BY DEF Kept, HasRow, LeftDraft

\* A step that keeps the rows and none of the variables of a part keeps it.
LEMMA LegalFrame ==
    ASSUME TypeOK, LegalInv, Kept
    PROVE  /\ UNCHANGED write => WritesAreLegal'
           /\ UNCHANGED req => HandlersAreLegal'
           /\ UNCHANGED <<write, proj>> => ProjectorIsLegal'
<1>1. UNCHANGED write => WritesAreLegal'
  BY DEF LegalInv, WritesAreLegal, Kept
<1>2. UNCHANGED req => HandlersAreLegal'
  BY BusyBot DEF LegalInv, HandlersAreLegal, Kept
<1>3. \A b \in proj.todo : b \in Bots
  BY DEF TypeOK
<1>4. UNCHANGED <<write, proj>> => ProjectorIsLegal'
  BY <1>3 DEF LegalInv, ProjectorIsLegal, Kept
<1>5. QED
  BY <1>1, <1>2, <1>4

\* A commit shows what was written, and only where there is a row.
LEMMA CommitWritesLegal ==
    ASSUME TypeOK, LegalInv, NEW w, w # "nobody", CommitWrites(w)
    PROVE  /\ \A b \in Bots :
                 \/ status'[b] = status[b]
                 \/ /\ write[b].by = w /\ HasRow(b)
                    /\ write[b].to \in Statuses \ {"draft"}
                    /\ status'[b] = write[b].to
           /\ Kept
           /\ WritesAreLegal'
           /\ \A b \in Bots : write'[b] = IF write[b].by = w THEN NoWrite ELSE write[b]
<1>1. \A b \in Bots : status'[b] = View(w, b)
  BY DEF CommitWrites
<1>2. \A b \in Bots : write[b].to = "same" \/ write[b].to \in Statuses \ {"draft"}
  BY DEF TypeOK, Writes, LegalInv, WritesAreLegal
<1>3. \A b \in Bots :
         \/ status'[b] = status[b]
         \/ /\ write[b].by = w /\ HasRow(b)
            /\ write[b].to \in Statuses \ {"draft"}
            /\ status'[b] = write[b].to
  BY <1>1, <1>2 DEF View, LegalInv, WritesAreLegal
<1>4. Kept
  BY <1>3 DEF Kept, HasRow, LeftDraft, Statuses
<1>5. \A b \in Bots : write'[b] = IF write[b].by = w THEN NoWrite ELSE write[b]
  BY DEF CommitWrites
<1>6. WritesAreLegal'
  BY <1>4, <1>5 DEF LegalInv, WritesAreLegal, NoWrite, Kept
<1>7. QED
  BY <1>3, <1>4, <1>5, <1>6

LEMMA RollbackLegal ==
    ASSUME TypeOK, LegalInv, NEW ws, Rollback(ws), UNCHANGED status
    PROVE  /\ WritesAreLegal'
           /\ \A b \in Bots : write'[b] = IF write[b].by \in ws THEN NoWrite ELSE write[b]
<1>1. \A b \in Bots : write'[b] = IF write[b].by \in ws THEN NoWrite ELSE write[b]
  BY DEF Rollback
<1>2. WritesAreLegal'
  BY <1>1, SameStatus DEF LegalInv, WritesAreLegal, NoWrite, Kept
<1>3. QED
  BY <1>1, <1>2

\* Locks that are released do not concern the projector.
LEMMA ReleaseLegal ==
    ASSUME TypeOK, LegalInv, Kept, UNCHANGED proj,
           \A b \in Bots : write'[b] \in {write[b], NoWrite}
    PROVE  ProjectorIsLegal'
<1>1. \A b \in proj.todo : b \in Bots
  BY DEF TypeOK
<1>2. \A b \in Bots : write'[b].by = "projector" => write'[b] = write[b]
  BY DEF NoWrite
<1>3. QED
  BY <1>1, <1>2 DEF LegalInv, ProjectorIsLegal, Kept

LEMMA TableLegal ==
    ASSUME TypeOK, LegalInv, NEW b \in Bots, CreateBot(b) \/ DeleteBot(b) \/ Age(b)
    PROVE  LegalInv'
<1>1. UNCHANGED <<write, req, proj>>
  BY DEF CreateBot, DeleteBot, Age
<1>2. CASE CreateBot(b) \/ Age(b)
  <2>1. Kept
    BY <1>2 DEF CreateBot, Age, Kept, HasRow, LeftDraft, TypeOK, Statuses, NoRow
  <2>2. QED
    BY <1>1, <2>1, LegalFrame DEF LegalInv
<1>3. CASE DeleteBot(b)
  <2>1. status' = [status EXCEPT ![b] = "deleted"]
    BY <1>3 DEF DeleteBot
  <2>2. \A x \in Bots : (LeftDraft(x) => LeftDraft(x)') /\ (x # b /\ HasRow(x) => HasRow(x)')
    BY <2>1 DEF LeftDraft, HasRow, TypeOK
  <2>3. WritesAreLegal'
    BY <1>1, <1>3, <2>2 DEF LegalInv, WritesAreLegal, DeleteBot, Locked
  <2>4. HandlersAreLegal'
    <3>1. ASSUME NEW r \in Requests, req[r].pc \in {"inserted", "published", "written"}
          PROVE  req[r].cmd.bot # b
      BY <1>3, <3>1 DEF DeleteBot, KeyShared
    <3>2. QED
      BY <1>1, <2>2, <3>1, BusyBot DEF LegalInv, HandlersAreLegal
  <2>5. ProjectorIsLegal'
    <3>1. \A x \in proj.todo : x \in Bots
      BY DEF TypeOK
    <3>2. QED
      BY <1>1, <2>2, <3>1 DEF LegalInv, ProjectorIsLegal
  <2>6. QED
    BY <2>3, <2>4, <2>5 DEF LegalInv
<1>4. QED
  BY <1>2, <1>3

LEMMA RequestLegal ==
    ASSUME TypeOK, LegalInv, NEW r \in Requests,
           Request(r) \/ AbortRequest(r) \/ \E k \in Kinds, b \in Bots : Begin(r, k, b)
    PROVE  LegalInv'
<1>1. ASSUME NEW k \in Kinds, NEW b \in Bots, Begin(r, k, b)
      PROVE  LegalInv'
  <2>1. UNCHANGED <<status, write, proj>>
    BY <1>1 DEF Begin, dbVars
  <2>2. PICK dirty : req' = [req EXCEPT ![r] =
            [pc |-> "checked", dirty |-> dirty,
             cmd |-> [id |-> issued + 1, kind |-> k, bot |-> b]]]
    BY <1>1 DEF Begin
  <2>3. /\ \A x \in Requests \ {r} : req'[x] = req[x]
        /\ req'[r].pc = "checked" /\ req'[r].cmd.kind = k /\ req'[r].cmd.bot = b
    BY <2>2 DEF TypeOK
  <2>4. k = "stop" => LeftDraft(b)
    BY <1>1 DEF Begin, Admits, LeftDraft, Statuses
  <2>5. HandlersAreLegal'
    BY <2>1, <2>3, <2>4 DEF LegalInv, HandlersAreLegal, HasRow, LeftDraft
  <2>6. QED
    BY <2>1, <2>5, SameStatus, LegalFrame DEF LegalInv
<1>2. CASE InsertCommand(r) \/ PublishCommand(r)
  <2>1. UNCHANGED <<status, write, proj>>
    BY <1>2 DEF InsertCommand, PublishCommand, dbVars
  <2>2. /\ \A x \in Requests \ {r} : req'[x] = req[x]
        /\ \/ req'[r].pc = "idle"
           \/ req'[r].cmd = req[r].cmd /\ HasRow(req[r].cmd.bot) /\ req[r].pc # "idle"
    BY <1>2, BusyRequest
       DEF InsertCommand, PublishCommand, TypeOK, IdleRequest, BusyRequests, LegalInv,
           HandlersAreLegal
  <2>3. HandlersAreLegal'
    BY <2>1, <2>2 DEF LegalInv, HandlersAreLegal, HasRow, LeftDraft
  <2>4. QED
    BY <2>1, <2>3, SameStatus, LegalFrame DEF LegalInv
<1>3. CASE WriteStatus(r)
  <2> DEFINE c == req[r].cmd
  <2>1. UNCHANGED <<status, proj>>
    BY <1>3 DEF WriteStatus
  <2>2. c.bot \in Bots /\ c.kind \in Kinds /\ HasRow(c.bot)
           /\ (c.kind = "stop" => LeftDraft(c.bot))
    BY <1>3, BusyBot DEF WriteStatus, LegalInv, HandlersAreLegal
  <2>3. /\ \A x \in Requests \ {r} : req'[x] = req[x]
        /\ req'[r].cmd = c /\ req'[r].pc = "written"
    BY <1>3, BusyRequest DEF WriteStatus, TypeOK, BusyRequests
  <2>4. HandlersAreLegal'
    BY <2>1, <2>2, <2>3 DEF LegalInv, HandlersAreLegal, HasRow, LeftDraft
  <2>5. \A x \in Bots : \/ write'[x] = write[x]
                        \/ x = c.bot /\ write'[x] = [by |-> r, to |-> Target(c.kind)]
    BY <1>3, <2>2 DEF WriteStatus, TypeOK
  <2>6. /\ Target(c.kind) \notin {"draft", "stopped"}
        /\ Target(c.kind) = "stopping" => c.kind = "stop"
    BY <2>2 DEF Target, Kinds
  <2>7. WritesAreLegal'
    BY <2>1, <2>2, <2>5, <2>6 DEF LegalInv, WritesAreLegal, HasRow, LeftDraft
  <2>8. ProjectorIsLegal'
    <3>1. r # "projector"
      BY WritersAssumption
    <3>2. \A x \in Bots : write'[x].by = "projector" => write'[x] = write[x]
      BY <2>5, <3>1
    <3>3. \A x \in proj.todo : x \in Bots
      BY DEF TypeOK
    <3>4. QED
      BY <2>1, <3>2, <3>3 DEF LegalInv, ProjectorIsLegal, LeftDraft
  <2>9. QED
    BY <2>4, <2>7, <2>8 DEF LegalInv
<1>4. CASE CommitRequest(r)
  <2>1. UNCHANGED proj /\ CommitWrites(r) /\ r # "nobody"
    BY <1>4, WritersAssumption DEF CommitRequest
  <2>2. Kept /\ WritesAreLegal' /\ \A b \in Bots : write'[b] \in {write[b], NoWrite}
    BY <2>1, CommitWritesLegal
  <2>3. ProjectorIsLegal'
    BY <2>1, <2>2, ReleaseLegal
  <2>4. \A x \in Requests : req'[x] = req[x] \/ req'[x].pc = "idle"
    BY <1>4 DEF CommitRequest, TypeOK, IdleRequest
  <2>5. HandlersAreLegal'
    BY <2>2, <2>4, BusyBot DEF LegalInv, HandlersAreLegal, Kept
  <2>6. QED
    BY <2>2, <2>3, <2>5 DEF LegalInv
<1>5. CASE AbortRequest(r)
  <2>1. UNCHANGED <<status, proj>> /\ Rollback({r})
    BY <1>5 DEF AbortRequest
  <2>2. WritesAreLegal' /\ \A b \in Bots : write'[b] \in {write[b], NoWrite}
    BY <2>1, RollbackLegal
  <2>3. ProjectorIsLegal'
    BY <2>1, <2>2, SameStatus, ReleaseLegal
  <2>4. \A x \in Requests : req'[x] = req[x] \/ req'[x].pc = "idle"
    BY <1>5 DEF AbortRequest, TypeOK, IdleRequest
  <2>5. HandlersAreLegal'
    BY <2>1, <2>4 DEF LegalInv, HandlersAreLegal, HasRow, LeftDraft
  <2>6. QED
    BY <2>2, <2>3, <2>5 DEF LegalInv
<1>6. QED
  BY <1>1, <1>2, <1>3, <1>4, <1>5 DEF Request

\* What the projector selects for a heartbeat has left draft, and stands or
\* does not stand in the heartbeat's list as the stage wants it.
LEMMA SelectedLegal ==
    ASSUME TypeOK, LegalInv, proj.ev.kind = "status"
    PROVE  \A b \in Selected : LeftDraft(b) /\ (proj.stage = 1 <=> b \in proj.ev.bots)
<1>1. ASSUME NEW b \in Bots, View("projector", b) \in {"starting", "running", "stopping"}
      PROVE  LeftDraft(b)
  <2>1. CASE write[b].by = "projector"
    BY <2>1 DEF LegalInv, ProjectorIsLegal
  <2>2. CASE write[b].by # "projector"
    BY <1>1, <2>2 DEF View, LeftDraft
  <2>3. QED
    BY <2>1, <2>2
<1>2. /\ \A b \in ListByStatuses({"starting"}) : LeftDraft(b)
      /\ \A b \in ListByStatuses({"running", "stopping"}) : LeftDraft(b)
  BY <1>1 DEF ListByStatuses
<1>3. proj.stage \in 1..3
  BY DEF TypeOK
<1>4. QED
  BY <1>2, <1>3 DEF Selected

LEMMA ProjectorLegal ==
    ASSUME TypeOK, LegalInv, Projector
    PROVE  LegalInv'
<1>1. UNCHANGED req
  BY DEF Projector, ReceiveEvent, SelectBots, NextStage, CommitEvent, UpdateStatusById
<1>2. CASE ReceiveEvent
  <2>1. UNCHANGED <<status, write>>
    BY <1>2 DEF ReceiveEvent, dbVars
  <2>2. proj.pc = "idle" /\ proj'.todo = {}
    BY <1>2 DEF ReceiveEvent, IdleProjector
  <2>3. ProjectorIsLegal'
    BY <2>1, <2>2 DEF LegalInv, ProjectorIsLegal
  <2>4. QED
    BY <1>1, <2>1, <2>3, SameStatus, LegalFrame DEF LegalInv
<1>3. CASE SelectBots
  <2>1. UNCHANGED <<status, write>>
    BY <1>3 DEF SelectBots, dbVars
  <2>2. /\ proj'.ev = proj.ev /\ proj'.stage = proj.stage
        /\ proj'.todo = Selected /\ proj'.pc = "update"
    BY <1>3 DEF SelectBots, TypeOK
  <2>3. ProjectorIsLegal'
    BY <2>1, <2>2, SelectedLegal DEF LegalInv, ProjectorIsLegal, LeftDraft
  <2>4. QED
    BY <1>1, <2>1, <2>3, SameStatus, LegalFrame DEF LegalInv
<1>4. ASSUME NEW b \in Bots, UpdateStatusById(b)
      PROVE  LegalInv'
  <2>1. UNCHANGED status /\ proj.pc = "update" /\ b \in proj.todo
    BY <1>4 DEF UpdateStatusById
  <2>2. /\ proj'.ev = proj.ev /\ proj'.stage = proj.stage /\ proj'.pc = proj.pc
        /\ proj'.todo \subseteq proj.todo
    BY <1>4 DEF UpdateStatusById, TypeOK
  <2>3. \A x \in Bots : \/ write'[x] = write[x]
                        \/ /\ x = b /\ HasRow(b)
                           /\ write'[x] = [by |-> "projector", to |-> NewStatus]
    BY <1>4 DEF UpdateStatusById, TypeOK
  <2>4. proj.stage \in 1..3 /\ proj.ev.kind \in {"started", "error", "status"}
    BY DEF TypeOK, Events
  <2>5. /\ NewStatus \notin {"draft", "stopping"}
        /\ NewStatus = "stopped" => proj.ev.kind = "status"
        /\ proj.ev.kind = "status" => (NewStatus = "running" <=> proj.stage = 1)
    BY <2>4 DEF NewStatus
  <2>6. WritesAreLegal'
    BY <2>1, <2>3, <2>5
       DEF LegalInv, WritesAreLegal, ProjectorIsLegal, HasRow, LeftDraft
  <2>7. ProjectorIsLegal'
    <3>1. ASSUME NEW x \in Bots, write'[x].by = "projector", proj.ev.kind = "status"
          PROVE  LeftDraft(x) /\ (write'[x].to = "running" <=> x \in proj.ev.bots)
      <4>1. CASE write'[x] = write[x]
        BY <3>1, <4>1 DEF LegalInv, ProjectorIsLegal
      <4>2. CASE x = b /\ write'[x] = [by |-> "projector", to |-> NewStatus]
        BY <2>1, <2>5, <3>1, <4>2 DEF LegalInv, ProjectorIsLegal
      <4>3. QED
        BY <2>3, <4>1, <4>2
    <3>2. QED
      BY <2>1, <2>2, <3>1 DEF LegalInv, ProjectorIsLegal, LeftDraft
  <2>8. QED
    BY <1>1, <2>1, <2>6, <2>7, SameStatus, LegalFrame DEF LegalInv
<1>5. CASE NextStage
  <2>1. UNCHANGED <<status, write>>
    BY <1>5 DEF NextStage, dbVars
  <2>2. /\ proj'.ev = proj.ev /\ proj'.pc # "idle" /\ proj'.todo = {}
    BY <1>5 DEF NextStage, TypeOK
  <2>3. ProjectorIsLegal'
    BY <2>1, <2>2, <1>5 DEF LegalInv, ProjectorIsLegal, LeftDraft
  <2>4. QED
    BY <1>1, <2>1, <2>3, SameStatus, LegalFrame DEF LegalInv
<1>6. CASE CommitEvent
  <2>1. CommitWrites("projector") /\ proj' = IdleProjector
    BY <1>6 DEF CommitEvent
  <2>2. /\ Kept /\ WritesAreLegal'
        /\ \A b \in Bots : write'[b].by # "projector"
    BY <2>1, CommitWritesLegal DEF NoWrite
  <2>3. ProjectorIsLegal'
    BY <2>1, <2>2 DEF ProjectorIsLegal, IdleProjector
  <2>4. QED
    BY <1>1, <2>2, <2>3, LegalFrame DEF LegalInv
<1>7. QED
  BY <1>2, <1>3, <1>4, <1>5, <1>6 DEF Projector

LEMMA FaultLegal ==
    ASSUME TypeOK, LegalInv, FailEvent \/ BackendCrash
    PROVE  LegalInv'
<1>1. UNCHANGED status /\ proj' = IdleProjector
  BY DEF FailEvent, BackendCrash
<1>2. PICK ws : Rollback(ws) /\ "projector" \in ws
  BY DEF FailEvent, BackendCrash, Writers
<1>3. WritesAreLegal' /\ \A b \in Bots : write'[b].by # "projector"
  BY <1>1, <1>2, RollbackLegal DEF NoWrite
<1>4. ProjectorIsLegal'
  BY <1>1, <1>3 DEF ProjectorIsLegal, IdleProjector
<1>5. HandlersAreLegal'
  <2>1. UNCHANGED req \/ \A r \in Requests : req'[r].pc = "idle"
    BY DEF FailEvent, BackendCrash, IdleRequest
  <2>2. QED
    BY <1>1, <2>1, SameStatus, LegalFrame DEF HandlersAreLegal
<1>6. QED
  BY <1>3, <1>4, <1>5 DEF LegalInv

\* Neither the engine nor the connection touches the table, a handler or the
\* projector.
LEMMA OutsideSteps ==
    ASSUME \/ EngineTakesCommand \/ EngineHeartbeat \/ EngineCrash \/ EngineRestart
           \/ \E b \in Bots : StrategyFails(b)
           \/ Disconnect \/ Resubscribe \/ UNCHANGED vars
    PROVE  UNCHANGED <<status, write, req, proj, sent>>
BY DEF EngineTakesCommand, EngineHeartbeat, EngineCrash, EngineRestart, StrategyFails,
       Disconnect, Resubscribe, dbVars, engineVars, vars

LEMMA StepLegal == TypeOK /\ LegalInv /\ [Next]_vars => LegalInv'
<1> SUFFICES ASSUME TypeOK, LegalInv, [Next]_vars PROVE LegalInv'
  OBVIOUS
<1>1. CASE UNCHANGED <<status, write, req, proj>>
  BY <1>1, SameStatus, LegalFrame DEF LegalInv
<1>2. QED
  BY <1>1, OutsideSteps, TableLegal, RequestLegal, ProjectorLegal, FaultLegal DEF Next

\* A heartbeat turns no bot that it lists into stopped or error, and none that
\* it does not list into running - however its statements interleave with the
\* requests for the same rows.
THEOREM HeartbeatsAgree == Spec => HeartbeatAgreesWithEngine
<1> DEFINE Agrees ==
      proj.ev.kind = "status" /\ proj.pc = "update" /\ proj'.pc = "idle" =>
         \A b \in Bots : status'[b] # status[b] =>
                            (status'[b] = "running" <=> b \in proj.ev.bots)
<1>1. TypeOK /\ LegalInv /\ [Next]_vars => [Agrees]_vars
  <2> SUFFICES ASSUME TypeOK, LegalInv, Next,
                      proj.ev.kind = "status", proj.pc = "update", proj'.pc = "idle"
               PROVE  \A b \in Bots : status'[b] # status[b] =>
                                         (status'[b] = "running" <=> b \in proj.ev.bots)
    OBVIOUS
  <2>1. CASE UNCHANGED status \/ UNCHANGED proj
    BY <2>1
  <2>2. CASE CommitEvent
    <3>1. CommitWrites("projector")
      BY <2>2 DEF CommitEvent
    <3>2. QED
      BY <3>1, CommitWritesLegal DEF LegalInv, ProjectorIsLegal
  <2>3. CASE Projector
    <3>1. UNCHANGED status \/ CommitEvent
      BY <2>3 DEF Projector, ReceiveEvent, SelectBots, NextStage, UpdateStatusById, dbVars
    <3>2. QED
      BY <2>1, <2>2, <3>1
  <2>4. CASE FailEvent \/ BackendCrash
    BY <2>1, <2>4 DEF FailEvent, BackendCrash
  <2>5. ASSUME NEW r \in Requests,
               Request(r) \/ AbortRequest(r) \/ \E k \in Kinds, b \in Bots : Begin(r, k, b)
        PROVE  UNCHANGED proj
    BY <2>5 DEF Request, Begin, InsertCommand, PublishCommand, WriteStatus, CommitRequest,
                AbortRequest
  <2>6. ASSUME NEW b \in Bots, CreateBot(b) \/ DeleteBot(b) \/ Age(b)
        PROVE  UNCHANGED proj
    BY <2>6 DEF CreateBot, DeleteBot, Age
  <2>7. QED
    BY <2>1, <2>3, <2>4, <2>5, <2>6, OutsideSteps DEF Next
<1>2. QED
  BY <1>1, InitLegal, StepLegal, TypeCorrect, PTL DEF Spec, HeartbeatAgreesWithEngine

-----------------------------------------------------------------------------
(* No deadlock.  NoDeadlock is not inductive: what matters is that a row    *)
(* lock of a request belongs to its own bot, and that the request has only  *)
(* its commit before it.                                                    *)

HoldersCommit ==
    \A b \in Bots : write[b].by \in Requests =>
        req[write[b].by].pc = "written" /\ req[write[b].by].cmd.bot = b

LEMMA InitHolders == Init => HoldersCommit
BY WritersAssumption DEF Init, HoldersCommit, NoWrite

\* A handler that holds no row may do as it likes, if no request takes one.
LEMMA HoldersFrame ==
    ASSUME TypeOK, HoldersCommit,
           \A b \in Bots : write'[b].by \in Requests =>
               write'[b].by = write[b].by /\ req'[write[b].by] = req[write[b].by]
    PROVE  HoldersCommit'
BY DEF HoldersCommit

LEMMA HoldersRelease ==
    ASSUME TypeOK, NEW ws, Rollback(ws) \/ (\E w \in ws : ws = {w} /\ CommitWrites(w))
    PROVE  \A b \in Bots : \/ write'[b] = NoWrite
                           \/ write'[b] = write[b] /\ write[b].by \notin ws
<1>1. CASE Rollback(ws)
  BY <1>1 DEF Rollback
<1>2. CASE \E w \in ws : ws = {w} /\ CommitWrites(w)
  BY <1>2 DEF CommitWrites
<1>3. QED
  BY <1>1, <1>2

\* The transactions of ws end, and only their handlers move.
LEMMA ReleaseHolders ==
    ASSUME TypeOK, HoldersCommit, NEW ws,
           Rollback(ws) \/ (\E w \in ws : ws = {w} /\ CommitWrites(w)),
           \A x \in Requests : x \notin ws => req'[x] = req[x]
    PROVE  HoldersCommit'
<1>1. \A b \in Bots : \/ write'[b] = NoWrite
                      \/ write'[b] = write[b] /\ write[b].by \notin ws
  BY HoldersRelease
<1>2. NoWrite.by \notin Requests
  BY WritersAssumption DEF NoWrite
<1>3. QED
  BY <1>1, <1>2, HoldersFrame

LEMMA RequestHolders ==
    ASSUME TypeOK, HoldersCommit, NEW r \in Requests,
           \/ Request(r) \/ AbortRequest(r)
           \/ \E k \in Kinds, b \in Bots : Begin(r, k, b)
    PROVE  HoldersCommit'
<1>1. CASE \/ InsertCommand(r) \/ PublishCommand(r)
           \/ \E k \in Kinds, b \in Bots : Begin(r, k, b)
  <2>1. UNCHANGED write /\ req[r].pc # "written"
    BY <1>1 DEF InsertCommand, PublishCommand, Begin, dbVars
  <2>2. \A x \in Requests \ {r} : req'[x] = req[x]
    BY <1>1 DEF InsertCommand, PublishCommand, Begin, TypeOK
  <2>3. \A b \in Bots : write[b].by \in Requests => write[b].by # r
    BY <2>1 DEF HoldersCommit
  <2>4. QED
    BY <2>1, <2>2, <2>3, HoldersFrame
<1>2. CASE WriteStatus(r)
  <2> DEFINE b == req[r].cmd.bot
  <2>1. req[r].pc = "published" /\ b \in Bots
    BY <1>2, BusyBot DEF WriteStatus
  <2>2. /\ req'[r].pc = "written" /\ req'[r].cmd.bot = b
        /\ \A x \in Requests \ {r} : req'[x] = req[x]
    BY <1>2 DEF WriteStatus, TypeOK
  <2>3. \A x \in Bots : write'[x] = write[x] \/ (x = b /\ write'[x].by = r)
    BY <1>2 DEF WriteStatus, TypeOK
  <2>4. \A x \in Bots : write[x].by \in Requests => write[x].by # r
    BY <2>1 DEF HoldersCommit
  <2>5. QED
    BY <2>2, <2>3, <2>4 DEF HoldersCommit
<1>3. CASE CommitRequest(r) \/ AbortRequest(r)
  <2>1. CommitWrites(r) \/ Rollback({r})
    BY <1>3 DEF CommitRequest, AbortRequest
  <2>2. \A x \in Requests : x \notin {r} => req'[x] = req[x]
    BY <1>3 DEF CommitRequest, AbortRequest, TypeOK
  <2>3. QED
    BY <2>1, <2>2, ReleaseHolders
<1>4. QED
  BY <1>1, <1>2, <1>3 DEF Request

LEMMA StepHolders == TypeOK /\ HoldersCommit /\ [Next]_vars => HoldersCommit'
<1> SUFFICES ASSUME TypeOK, HoldersCommit, [Next]_vars PROVE HoldersCommit'
  OBVIOUS
<1>1. CASE UNCHANGED <<write, req>>
  BY <1>1, HoldersFrame
<1>2. CASE CommitEvent \/ FailEvent
  <2>1. UNCHANGED req /\ (CommitWrites("projector") \/ Rollback({"projector"}))
    BY <1>2 DEF CommitEvent, FailEvent
  <2>2. QED
    BY <2>1, ReleaseHolders
<1>3. CASE BackendCrash
  <2>1. Rollback(Writers)
    BY <1>3 DEF BackendCrash
  <2>2. QED
    BY <2>1, ReleaseHolders DEF Writers
<1>4. ASSUME NEW b \in Bots, UpdateStatusById(b)
      PROVE  HoldersCommit'
  <2>1. UNCHANGED req
    BY <1>4 DEF UpdateStatusById
  <2>2. \A x \in Bots : write'[x] = write[x] \/ write'[x].by = "projector"
    BY <1>4 DEF UpdateStatusById, TypeOK
  <2>3. QED
    BY <2>1, <2>2, WritersAssumption, HoldersFrame
<1>5. ASSUME ReceiveEvent \/ SelectBots \/ NextStage PROVE UNCHANGED <<write, req>>
  BY <1>5 DEF ReceiveEvent, SelectBots, NextStage, dbVars
<1>6. ASSUME \E b \in Bots : CreateBot(b) \/ DeleteBot(b) \/ Age(b) PROVE UNCHANGED <<write, req>>
  BY <1>6 DEF CreateBot, DeleteBot, Age
<1>7. QED
  BY <1>1, <1>2, <1>3, <1>4, <1>5, <1>6, OutsideSteps, RequestHolders DEF Next, Projector

\* Whoever waits, waits for the projector or for a request that only commits.
LEMMA HoldersMove ==
    ASSUME TypeOK, HoldersCommit, NEW v \in Writers, NEW w \in Requests, WaitsFor(v, w)
    PROVE  \A u : ~ WaitsFor(w, u)
<1>1. PICK b \in Bots : write[b].by = w
  BY BusyBot DEF WaitsFor, TypeOK
<1>2. req[w].pc = "written"
  BY <1>1 DEF HoldersCommit
<1>3. QED
  BY <1>2, WritersAssumption DEF WaitsFor

LEMMA SomeoneMoves == ASSUME TypeOK, HoldersCommit PROVE NoDeadlock
<1> SUFFICES ASSUME NEW S \in (SUBSET Writers) \ {{}}
             PROVE  \E v \in S : \A w \in S : ~ WaitsFor(v, w)
  BY DEF NoDeadlock
<1>1. CASE \E v \in S, w \in S : w \in Requests /\ WaitsFor(v, w)
  BY <1>1, HoldersMove
<1>2. CASE \A v \in S, w \in S : WaitsFor(v, w) => w \notin Requests
  <2>1. \A w \in S : w \in Requests \/ w = "projector"
    BY DEF Writers
  <2>2. ~ WaitsFor("projector", "projector")
    BY WritersAssumption DEF WaitsFor, LockedAgainst
  <2>3. CASE "projector" \in S
    BY <1>2, <2>1, <2>2, <2>3
  <2>4. CASE "projector" \notin S
    BY <1>2, <2>1, <2>4
  <2>5. QED
    BY <2>3, <2>4
<1>3. QED
  BY <1>1, <1>2

\* Requests and heartbeats never wait for each other's rows in a circle, for
\* any number of bots and handlers.
THEOREM TransactionsNeverDeadlock == Spec => []NoDeadlock
<1>1. TypeOK /\ HoldersCommit => NoDeadlock
  BY SomeoneMoves
<1>2. QED
  BY <1>1, InitHolders, StepHolders, TypeCorrect, PTL DEF Spec

-----------------------------------------------------------------------------
(* The refinement.  Every step of BotControl is a step of BotLifecycle or   *)
(* leaves the committed statuses and the started bots as they are.          *)

LEMMA InitRefines == Init => Lifecycle!Init
BY DEF Init, Lifecycle!Init, WasSent

\* A commit is a report.
LEMMA CommitRefines ==
    ASSUME TypeOK, IInv, LegalInv, NEW w, w # "nobody", CommitWrites(w), UNCHANGED sent
    PROVE  Lifecycle!Report
<1>1. status' \in [Bots -> Lifecycle!Statuses \cup {"none", "deleted"}]
  BY CommitWritesType
     DEF Lifecycle!Statuses, Lifecycle!Operating, Statuses, NoRow
<1>2. ASSUME NEW b \in Bots
      PROVE  Lifecycle!LegalMove(b, status'[b])
  <2>1. CASE status'[b] = status[b]
    BY <2>1 DEF Lifecycle!LegalMove
  <2>2. CASE /\ write[b].by = w /\ HasRow(b)
             /\ write[b].to \in Statuses \ {"draft"}
             /\ status'[b] = write[b].to
    <3>1. WasSent("start", b)
      BY <2>2 DEF IInv, WritesWereRequested
    <3>2. status[b] = "draft" => write[b].to \notin {"stopping", "stopped"}
      BY DEF LegalInv, WritesAreLegal, LeftDraft
    <3>3. QED
      BY <2>2, <3>1, <3>2
         DEF Lifecycle!LegalMove, Lifecycle!Statuses, Lifecycle!Operating,
             Lifecycle!FirstStatus, HasRow, Statuses
  <2>3. QED
    BY <2>1, <2>2, CommitWritesLegal
<1>3. {b \in Bots : WasSent("start", b)}' = {b \in Bots : WasSent("start", b)}
  BY SameSent
<1>4. QED
  BY <1>1, <1>2, <1>3 DEF Lifecycle!Report

LEMMA StepRefines ==
    ASSUME TypeOK, IInv, LegalInv, [Next]_vars
    PROVE  [Lifecycle!Next]_(Lifecycle!vars)
<1>1. CASE UNCHANGED <<status, sent>>
  <2>1. {b \in Bots : WasSent("start", b)}' = {b \in Bots : WasSent("start", b)}
    BY <1>1, SameSent
  <2>2. QED
    BY <1>1, <2>1 DEF Lifecycle!vars
<1>2. ASSUME NEW b \in Bots, CreateBot(b) \/ DeleteBot(b)
      PROVE  Lifecycle!Next
  <2>1. UNCHANGED sent
    BY <1>2 DEF CreateBot, DeleteBot
  <2>2. {x \in Bots : WasSent("start", x)}' = {x \in Bots : WasSent("start", x)}
    BY <2>1, SameSent
  <2>3. Lifecycle!Create(b) \/ Lifecycle!Delete(b)
    BY <1>2, <2>2
       DEF CreateBot, DeleteBot, HasRow, Statuses, Lifecycle!Create, Lifecycle!Delete,
           Lifecycle!Statuses, Lifecycle!Operating
  <2>4. QED
    BY <2>3 DEF Lifecycle!Next
<1>3. ASSUME NEW r \in Requests, PublishCommand(r)
      PROVE  [Lifecycle!Next]_(Lifecycle!vars)
  <2> DEFINE c == req[r].cmd
  <2>1. UNCHANGED status /\ sent' = sent \cup {c} /\ c.bot \in Bots
    BY <1>3, BusyBot DEF PublishCommand, dbVars
  <2>2. \A b : WasSent("start", b)' <=> WasSent("start", b) \/ (c.kind = "start" /\ b = c.bot)
    BY <2>1 DEF WasSent
  <2>3. CASE c.kind = "start"
    <3>1. Lifecycle!Activate(c.bot)
      BY <2>1, <2>2, <2>3 DEF Lifecycle!Activate
    <3>2. QED
      BY <2>1, <3>1 DEF Lifecycle!Next
  <2>4. CASE c.kind # "start"
    <3>1. {b \in Bots : WasSent("start", b)}' = {b \in Bots : WasSent("start", b)}
      BY <2>2, <2>4
    <3>2. QED
      BY <2>1, <3>1 DEF Lifecycle!vars
  <2>5. QED
    BY <2>3, <2>4
<1>4. ASSUME NEW r \in Requests, CommitRequest(r)
      PROVE  Lifecycle!Next
  BY <1>4, WritersAssumption, CommitRefines DEF CommitRequest, Lifecycle!Next
<1>5. CASE CommitEvent
  BY <1>5, CommitRefines DEF CommitEvent, Lifecycle!Next
<1>6. \/ UNCHANGED <<status, sent>>
      \/ \E b \in Bots : CreateBot(b) \/ DeleteBot(b)
      \/ \E r \in Requests : PublishCommand(r) \/ CommitRequest(r)
      \/ CommitEvent
  <2>1. \A b \in Bots : Age(b) => UNCHANGED <<status, sent>>
    BY DEF Age
  <2>2. \A r \in Requests :
           InsertCommand(r) \/ WriteStatus(r) \/ AbortRequest(r)
              \/ (\E k \in Kinds, b \in Bots : Begin(r, k, b)) => UNCHANGED <<status, sent>>
    BY DEF InsertCommand, WriteStatus, AbortRequest, Begin, dbVars
  <2>3. ReceiveEvent \/ SelectBots \/ NextStage \/ (\E b \in Bots : UpdateStatusById(b))
           \/ FailEvent \/ BackendCrash => UNCHANGED <<status, sent>>
    BY DEF ReceiveEvent, SelectBots, NextStage, UpdateStatusById, FailEvent, BackendCrash,
           dbVars
  <2>4. QED
    BY <2>1, <2>2, <2>3, OutsideSteps DEF Next, Request, Projector
<1>7. QED
  BY <1>1, <1>2, <1>3, <1>4, <1>5, <1>6

\* The table keeps the promise of BotLifecycle: a bot stays a draft until a
\* start is requested, leaves draft once, by a status that a start leads to,
\* and a deleted bot never comes back.
THEOREM LifecycleIsImplemented == Spec => ImplementsLifecycle
<1>1. TypeOK /\ IInv /\ LegalInv /\ [Next]_vars => [Lifecycle!Next]_(Lifecycle!vars)
  BY StepRefines
<1>2. QED
  BY <1>1, InitRefines, InitIInv, StepIInv, InitLegal, StepLegal, TypeCorrect, PTL
     DEF Spec, ImplementsLifecycle, Lifecycle!Spec

-----------------------------------------------------------------------------
(* The subscriber.  Only the steps of the connection, of the projector and  *)
(* of the engine touch what Subscription speaks of.                         *)

\* The event in hand, as Subscription sees it.
InHand == IF proj.pc = "idle" THEN {} ELSE {proj.ev}

LEMMA InitSubscribes == Init => Subscriber!Init
BY DEF Init, IdleProjector, Subscriber!Init

\* What the engine emits arrives, if the connection is up.
LEMMA EmitArrives ==
    ASSUME NEW kind \in {"started", "error", "status"}, NEW bots \in SUBSET Bots,
           Emit(kind, bots), UNCHANGED <<subscribed, proj>>
    PROVE  (\E m \in Events : Subscriber!Arrive(m)) \/ UNCHANGED <<events, subscribed, proj>>
<1> DEFINE m == [kind |-> kind, bots |-> bots]
<1>1. m \in Events
  BY DEF Events
<1>2. CASE subscribed
  <2>1. Subscriber!Arrive(m)
    BY <1>2 DEF Emit, Subscriber!Arrive
  <2>2. QED
    BY <1>1, <2>1
<1>3. CASE ~ subscribed
  BY <1>3 DEF Emit
<1>4. QED
  BY <1>2, <1>3

LEMMA EngineArrives ==
    ASSUME TypeOK,
           EngineTakesCommand \/ EngineHeartbeat \/ (\E b \in Bots : StrategyFails(b))
    PROVE  (\E m \in Events : Subscriber!Arrive(m)) \/ UNCHANGED <<events, subscribed, proj>>
<1>1. CASE EngineTakesCommand
  <2>1. Head(toEngine) \in Commands
    BY <1>1 DEF EngineTakesCommand, TypeOK
  <2>2. Head(toEngine).bot \in Bots
    BY <2>1 DEF Commands
  <2>3. UNCHANGED <<subscribed, proj>>
    BY <1>1 DEF EngineTakesCommand
  <2>4. \/ Emit("started", {Head(toEngine).bot}) \/ Emit("error", {Head(toEngine).bot})
        \/ UNCHANGED events
    BY <1>1 DEF EngineTakesCommand
  <2>5. QED
    BY <2>2, <2>3, <2>4, EmitArrives
<1>2. CASE EngineHeartbeat
  BY <1>2, EmitArrives DEF EngineHeartbeat, TypeOK
<1>3. ASSUME NEW b \in Bots, StrategyFails(b)
      PROVE  (\E m \in Events : Subscriber!Arrive(m)) \/ UNCHANGED <<events, subscribed, proj>>
  BY <1>3, EmitArrives DEF StrategyFails
<1>4. QED
  BY <1>1, <1>2, <1>3

\* The statements of a transaction keep the event; its end lets go of it.
LEMMA ProjectorHandles ==
    ASSUME TypeOK, Projector \/ FailEvent
    PROVE  Subscriber!Take \/ Subscriber!Finish \/ (InHand' = InHand /\ UNCHANGED <<events, subscribed>>)
<1>1. CASE ReceiveEvent
  <2>1. proj'.pc = "select" /\ proj'.ev = Head(events)
    BY <1>1 DEF ReceiveEvent, IdleProjector
  <2>2. QED
    BY <1>1, <2>1 DEF ReceiveEvent, Subscriber!Take
<1>2. CASE SelectBots \/ NextStage \/ \E b \in Bots : UpdateStatusById(b)
  <2>1. proj.pc # "idle" /\ proj'.pc # "idle" /\ proj'.ev = proj.ev /\ UNCHANGED <<events, subscribed>>
    BY <1>2 DEF SelectBots, NextStage, UpdateStatusById, TypeOK
  <2>2. QED
    BY <2>1 DEF InHand
<1>3. CASE CommitEvent \/ FailEvent
  <2>1. proj.pc # "idle" /\ proj'.pc = "idle" /\ UNCHANGED <<events, subscribed>>
    BY <1>3 DEF CommitEvent, FailEvent, IdleProjector
  <2>2. QED
    BY <2>1 DEF Subscriber!Finish
<1>4. QED
  BY <1>1, <1>2, <1>3 DEF Projector

LEMMA StepSubscribes ==
    ASSUME TypeOK, [Next]_vars
    PROVE  [Subscriber!Next]_(Subscriber!vars)
<1>1. CASE UNCHANGED <<events, subscribed, proj>>
  BY <1>1 DEF Subscriber!vars
<1>2. CASE EngineTakesCommand \/ EngineHeartbeat \/ \E b \in Bots : StrategyFails(b)
  BY <1>1, <1>2, EngineArrives DEF Subscriber!Next
<1>3. CASE Disconnect \/ BackendCrash
  <2>1. proj' = proj \/ proj'.pc = "idle"
    BY <1>3 DEF Disconnect, BackendCrash, IdleProjector
  <2>2. InHand' \in {InHand, {}}
    BY <2>1 DEF InHand
  <2>3. Subscriber!Lose
    BY <1>3, <2>2 DEF Disconnect, BackendCrash, Subscriber!Lose, InHand
  <2>4. QED
    BY <2>3 DEF Subscriber!Next
<1>4. CASE Resubscribe
  BY <1>4 DEF Resubscribe, Subscriber!Resubscribe, Subscriber!Next
<1>5. CASE Projector \/ FailEvent
  <2>1. CASE InHand' = InHand /\ UNCHANGED <<events, subscribed>>
    BY <2>1 DEF InHand, Subscriber!vars
  <2>2. QED
    BY <1>5, <2>1, ProjectorHandles DEF Subscriber!Next
<1>6. \A b \in Bots :
         CreateBot(b) \/ DeleteBot(b) \/ Age(b) => UNCHANGED <<events, subscribed, proj>>
  BY DEF CreateBot, DeleteBot, Age
<1>7. ASSUME NEW r \in Requests,
             Request(r) \/ AbortRequest(r) \/ \E k \in Kinds, b \in Bots : Begin(r, k, b)
      PROVE  UNCHANGED <<events, subscribed, proj>>
  <2>1. CASE Request(r)
    BY <2>1 DEF Request, InsertCommand, PublishCommand, WriteStatus, CommitRequest
  <2>2. CASE AbortRequest(r)
    BY <2>2 DEF AbortRequest
  <2>3. CASE \E k \in Kinds, b \in Bots : Begin(r, k, b)
    BY <2>3 DEF Begin
  <2>4. QED
    BY <1>7, <2>1, <2>2, <2>3
<1>8. EngineCrash \/ EngineRestart \/ UNCHANGED vars => UNCHANGED <<events, subscribed, proj>>
  BY DEF EngineCrash, EngineRestart, vars
<1>9. QED
  BY <1>1, <1>2, <1>3, <1>4, <1>5, <1>6, <1>7, <1>8 DEF Next

\* The projector handles the events one at a time, each at most once and in the
\* order in which they have come, and none is lost but with the connection.
THEOREM SubscriptionIsKept == Spec => ImplementsSubscription
<1>1. TypeOK /\ [Next]_vars => [Subscriber!Next]_(Subscriber!vars)
  BY StepSubscribes
<1>2. QED
  BY <1>1, InitSubscribes, TypeCorrect, PTL DEF Spec, ImplementsSubscription, Subscriber!Spec

-----------------------------------------------------------------------------
(* What the two runs that show a violation have in common.  A start goes    *)
(* out for a bot that is already running, and a heartbeat sets error on a   *)
(* bot that is not starting, only because transactions overlap: neither     *)
(* happens while one transaction at a time is open.                         *)

Open == {r \in Requests : req[r].pc # "idle"} \cup {w \in {"projector"} : proj.pc # "idle"}
Serial == \A v, w \in Open : v = w

\* The check of a start holds until it is published.
StartsChecked ==
    \A r \in Requests :
        req[r].pc \in {"checked", "inserted"} /\ req[r].cmd.kind = "start" =>
            status[req[r].cmd.bot] \notin {"starting", "running"}

\* A bot that the startup timeout has selected is starting, or gone, until the
\* heartbeat commits.
TimeoutsChecked ==
    proj.ev.kind = "status" =>
        /\ proj.pc = "update" /\ proj.stage = 3 =>
              \A b \in proj.todo : status[b] \in {"starting", "deleted"}
        /\ \A b \in Bots : write[b].by = "projector" =>
              write[b].to # "starting" /\ (write[b].to = "error" => status[b] = "starting")

LEMMA InitSerial == Init => StartsChecked /\ TimeoutsChecked
BY WritersAssumption DEF Init, StartsChecked, TimeoutsChecked, IdleRequest, IdleProjector, NoWrite

\* While a request is open the projector rests, and no other request is open.
LEMMA AloneOpen ==
    ASSUME Serial
    PROVE  /\ \A r \in Requests : req[r].pc # "idle" =>
                 proj.pc = "idle" /\ \A q \in Requests : q # r => req[q].pc = "idle"
           /\ proj.pc # "idle" => \A r \in Requests : req[r].pc = "idle"
BY WritersAssumption DEF Serial, Open

\* A projector that rests has written nothing.
LEMMA RestingWroteNothing ==
    ASSUME LegalInv, proj.pc = "idle" PROVE \A b \in Bots : write[b].by # "projector"
BY DEF LegalInv, ProjectorIsLegal

LEMMA TableSerial ==
    ASSUME TypeOK, LegalInv, StartsChecked, TimeoutsChecked,
           NEW b \in Bots, CreateBot(b) \/ DeleteBot(b) \/ Age(b)
    PROVE  StartsChecked' /\ TimeoutsChecked'
<1>1. UNCHANGED <<write, req, proj>>
  BY DEF CreateBot, DeleteBot, Age
<1>2. \A x \in Bots : \/ status'[x] = status[x]
                      \/ status[x] = "none" /\ status'[x] = "draft"
                      \/ write[x].by = "nobody" /\ status'[x] = "deleted"
  BY DEF CreateBot, DeleteBot, Age, Locked, TypeOK
<1>3. StartsChecked'
  BY <1>1, <1>2, BusyBot DEF StartsChecked
<1>4. proj.todo \subseteq Bots
  BY DEF TypeOK
<1>5. TimeoutsChecked'
  BY <1>1, <1>2, <1>4 DEF TimeoutsChecked
<1>6. QED
  BY <1>3, <1>5

\* A request that moves on or ends, the projector being at rest at its commit.
LEMMA RequestSerial ==
    ASSUME TypeOK, LegalInv, Serial, StartsChecked, TimeoutsChecked, NEW r \in Requests,
           Request(r) \/ AbortRequest(r) \/ \E k \in Kinds, b \in Bots : Begin(r, k, b)
    PROVE  StartsChecked' /\ TimeoutsChecked'
<1>1. UNCHANGED proj
  BY DEF Request, Begin, InsertCommand, PublishCommand, WriteStatus, CommitRequest, AbortRequest
<1>2. \A q \in Requests : q # r => req'[q] = req[q]
  BY DEF Request, Begin, InsertCommand, PublishCommand, WriteStatus, CommitRequest,
     AbortRequest, TypeOK
<1>3. CASE UNCHANGED status
  <2>1. /\ req'[r].pc \in {"checked", "inserted"} =>
              \/ req'[r].cmd = req[r].cmd /\ req[r].pc \in {"checked", "inserted"}
              \/ req'[r].cmd.kind = "start" =>
                    status[req'[r].cmd.bot] \notin {"starting", "running"}
    <3>1. CASE InsertCommand(r)
      <4>1. req'[r] \in {[req[r] EXCEPT !.pc = "inserted"], IdleRequest} /\ req[r].pc = "checked"
        BY <3>1 DEF InsertCommand, TypeOK
      <4>2. req[r] \in BusyRequests
        BY <4>1, BusyRequest
      <4>3. QED
        BY <4>1, <4>2 DEF IdleRequest, BusyRequests
    <3>2. CASE PublishCommand(r) \/ WriteStatus(r)
      <4>1. PICK pc \in {"published", "written"} : req' = [req EXCEPT ![r].pc = pc]
        BY <3>2 DEF PublishCommand, WriteStatus
      <4>2. req[r] \in BusyRequests
        BY <3>2, BusyRequest DEF PublishCommand, WriteStatus
      <4>3. req'[r].pc = pc
        BY <4>1, <4>2 DEF TypeOK, BusyRequests
      <4>4. QED
        BY <4>1, <4>3
    <3>3. CASE CommitRequest(r) \/ AbortRequest(r)
      BY <3>3 DEF CommitRequest, AbortRequest, IdleRequest, TypeOK
    <3>4. ASSUME NEW k \in Kinds, NEW b \in Bots, Begin(r, k, b)
          PROVE  req'[r].cmd.kind = "start" =>
                    status[req'[r].cmd.bot] \notin {"starting", "running"}
      BY <3>4 DEF Begin, Admits, TypeOK
    <3>5. QED
      BY <3>1, <3>2, <3>3, <3>4 DEF Request
  <2>2. StartsChecked'
    BY <1>2, <1>3, <2>1 DEF StartsChecked
  <2>3. \A b \in Bots : write'[b].by = "projector" => write'[b] = write[b]
    BY WritersAssumption DEF Request, Begin, InsertCommand, PublishCommand, WriteStatus,
       CommitRequest, CommitWrites, AbortRequest, Rollback, NoWrite, dbVars, TypeOK
  <2>4. TimeoutsChecked'
    BY <1>1, <1>3, <2>3 DEF TimeoutsChecked
  <2>5. QED
    BY <2>2, <2>4
<1>4. CASE CommitRequest(r)
  <2>1. proj.pc = "idle" /\ \A q \in Requests : req'[q].pc = "idle"
    BY <1>2, <1>4, AloneOpen DEF CommitRequest, IdleRequest, TypeOK
  <2>2. \A b \in Bots : write'[b].by # "projector"
    BY <1>4, <2>1, RestingWroteNothing DEF CommitRequest, CommitWrites, NoWrite
  <2>3. QED
    BY <1>1, <2>1, <2>2 DEF StartsChecked, TimeoutsChecked
<1>5. UNCHANGED status \/ CommitRequest(r)
  BY DEF Request, Begin, InsertCommand, PublishCommand, WriteStatus, AbortRequest, dbVars
<1>6. QED
  BY <1>3, <1>4, <1>5

\* The projector, no request being open.
LEMMA ProjectorSerial ==
    ASSUME TypeOK, LegalInv, Serial, StartsChecked, TimeoutsChecked, Projector
    PROVE  StartsChecked' /\ TimeoutsChecked'
<1>1. UNCHANGED req
  BY DEF Projector, ReceiveEvent, SelectBots, NextStage, CommitEvent, UpdateStatusById
<1>2. CASE UNCHANGED <<status, write>>
  <2>1. StartsChecked'
    BY <1>1, <1>2 DEF StartsChecked
  <2>2. CASE ReceiveEvent
    <3>1. proj.pc = "idle" /\ proj'.pc = "select"
      BY <2>2 DEF ReceiveEvent, IdleProjector
    <3>2. QED
      BY <1>2, <2>1, <3>1, RestingWroteNothing DEF TimeoutsChecked
  <2>3. CASE SelectBots
    <3>1. /\ proj'.ev = proj.ev /\ proj'.stage = proj.stage /\ proj'.todo = Selected
      BY <2>3 DEF SelectBots, TypeOK
    <3>2. ASSUME proj.ev.kind = "status", proj.stage = 3, NEW b \in Selected
          PROVE  status[b] = "starting"
      <4>1. b \in Bots /\ View("projector", b) = "starting"
        BY <3>2 DEF Selected, ListByStatuses
      <4>2. QED
        BY <3>2, <4>1 DEF View, TimeoutsChecked
    <3>3. QED
      BY <1>2, <2>1, <3>1, <3>2 DEF TimeoutsChecked
  <2>4. CASE NextStage
    <3>1. proj'.ev = proj.ev /\ proj'.pc = "select"
      BY <2>4 DEF NextStage, TypeOK
    <3>2. QED
      BY <1>2, <2>1, <3>1 DEF TimeoutsChecked
  <2>5. CASE CommitEvent
    <3>1. proj'.pc = "idle" /\ proj.pc = "update" /\ CommitWrites("projector")
      BY <2>5 DEF CommitEvent, IdleProjector
    <3>2. \A b \in Bots : write'[b].by # "projector"
      BY <3>1 DEF CommitWrites, NoWrite
    <3>3. QED
      BY <2>1, <3>1, <3>2 DEF TimeoutsChecked
  <2>6. CASE \E b \in Bots : UpdateStatusById(b)
    <3>1. /\ proj'.ev = proj.ev /\ proj'.stage = proj.stage /\ proj'.pc = proj.pc
          /\ proj'.todo \subseteq proj.todo
      BY <2>6 DEF UpdateStatusById, TypeOK
    <3>2. QED
      BY <1>2, <2>1, <3>1 DEF TimeoutsChecked
  <2>7. QED
    BY <2>2, <2>3, <2>4, <2>5, <2>6 DEF Projector
<1>3. ASSUME NEW b \in Bots, UpdateStatusById(b)
      PROVE  StartsChecked' /\ TimeoutsChecked'
  <2>1. UNCHANGED status /\ b \in proj.todo /\ proj.pc = "update"
    BY <1>3 DEF UpdateStatusById
  <2>2. /\ proj'.ev = proj.ev /\ proj'.stage = proj.stage /\ proj'.pc = proj.pc
        /\ proj'.todo \subseteq proj.todo
    BY <1>3 DEF UpdateStatusById, TypeOK
  <2>3. \A x \in Bots : \/ write'[x] = write[x]
                        \/ /\ x = b /\ HasRow(b)
                           /\ write'[x] = [by |-> "projector", to |-> NewStatus]
    BY <1>3 DEF UpdateStatusById, TypeOK
  <2>4. proj.ev.kind = "status" =>
           NewStatus # "starting" /\ (NewStatus = "error" => proj.stage = 3)
    BY DEF NewStatus, TypeOK
  <2>5. HasRow(b) => status[b] # "deleted"
    BY DEF HasRow, Statuses
  <2>6. TimeoutsChecked'
    BY <2>1, <2>2, <2>3, <2>4, <2>5 DEF TimeoutsChecked
  <2>7. QED
    BY <1>1, <2>1, <2>6 DEF StartsChecked
<1>4. CASE CommitEvent
  <2>1. proj'.pc = "idle" /\ proj.pc = "update" /\ CommitWrites("projector")
    BY <1>4 DEF CommitEvent, IdleProjector
  <2>2. \A b \in Bots : write'[b].by # "projector"
    BY <2>1 DEF CommitWrites, NoWrite
  <2>3. \A r \in Requests : req'[r].pc = "idle"
    BY <1>1, <2>1, AloneOpen
  <2>4. QED
    BY <2>1, <2>2, <2>3 DEF StartsChecked, TimeoutsChecked
<1>5. UNCHANGED <<status, write>> \/ CommitEvent \/ \E b \in Bots : UpdateStatusById(b)
  BY DEF Projector, ReceiveEvent, SelectBots, NextStage, dbVars
<1>6. QED
  BY <1>2, <1>3, <1>4, <1>5

LEMMA FaultSerial ==
    ASSUME TypeOK, StartsChecked, TimeoutsChecked, FailEvent \/ BackendCrash
    PROVE  StartsChecked' /\ TimeoutsChecked'
<1>1. UNCHANGED status /\ proj'.pc = "idle"
  BY DEF FailEvent, BackendCrash, IdleProjector
<1>2. UNCHANGED req \/ \A r \in Requests : req'[r].pc = "idle"
  BY DEF FailEvent, BackendCrash, IdleRequest
<1>3. \A b \in Bots : write'[b].by # "projector"
  BY DEF FailEvent, BackendCrash, Rollback, Writers, NoWrite
<1>4. QED
  BY <1>1, <1>2, <1>3 DEF StartsChecked, TimeoutsChecked

LEMMA StepSerial ==
    TypeOK /\ LegalInv /\ Serial /\ StartsChecked /\ TimeoutsChecked /\ [Next]_vars
       => StartsChecked' /\ TimeoutsChecked'
<1> SUFFICES ASSUME TypeOK, LegalInv, Serial, StartsChecked, TimeoutsChecked, [Next]_vars
             PROVE  StartsChecked' /\ TimeoutsChecked'
  OBVIOUS
<1>1. CASE UNCHANGED <<status, write, req, proj>>
  BY <1>1 DEF StartsChecked, TimeoutsChecked
<1>2. QED
  BY <1>1, OutsideSteps, TableSerial, RequestSerial, ProjectorSerial, FaultSerial DEF Next

\* As long as transactions do not overlap, no start goes out for a bot that is
\* starting or running.
THEOREM SerialStartsAreIdle == Spec /\ []Serial => StartOnlyWhenIdle
<1> DEFINE Idle ==
      \A c \in sent' \ sent : c.kind = "start" => status[c.bot] \notin {"starting", "running"}
<1>1. TypeOK /\ StartsChecked /\ [Next]_vars => [Idle]_vars
  <2> SUFFICES ASSUME TypeOK, StartsChecked, Next PROVE Idle
    OBVIOUS
  <2>1. ASSUME NEW r \in Requests, PublishCommand(r) PROVE Idle
    BY <2>1 DEF PublishCommand, StartsChecked
  <2>2. CASE UNCHANGED sent
    BY <2>2
  <2>3. \A b \in Bots : CreateBot(b) \/ DeleteBot(b) \/ Age(b) => UNCHANGED sent
    BY DEF CreateBot, DeleteBot, Age
  <2>4. \A r \in Requests :
           InsertCommand(r) \/ WriteStatus(r) \/ CommitRequest(r) \/ AbortRequest(r)
              \/ (\E k \in Kinds, b \in Bots : Begin(r, k, b)) => UNCHANGED sent
    BY DEF InsertCommand, WriteStatus, CommitRequest, AbortRequest, Begin
  <2>5. Projector \/ FailEvent \/ BackendCrash => UNCHANGED sent
    BY DEF Projector, ReceiveEvent, SelectBots, NextStage, CommitEvent, UpdateStatusById,
       FailEvent, BackendCrash
  <2>6. QED
    BY <2>1, <2>2, <2>3, <2>4, <2>5, OutsideSteps DEF Next, Request
<1>2. QED
  BY <1>1, InitSerial, StepSerial, InitLegal, StepLegal, TypeCorrect, PTL
     DEF Spec, StartOnlyWhenIdle

\* ... and the startup timeout of a heartbeat sets error on starting bots only.
THEOREM SerialTimeouts == Spec /\ []Serial => TimeoutOnlyFromStarting
<1> DEFINE FromStarting ==
      proj.ev.kind = "status" /\ proj.pc = "update" /\ proj'.pc = "idle" =>
         \A b \in Bots : status'[b] = "error" => status[b] \in {"starting", "error"}
<1>1. TypeOK /\ LegalInv /\ TimeoutsChecked /\ [Next]_vars => [FromStarting]_vars
  <2> SUFFICES ASSUME TypeOK, LegalInv, TimeoutsChecked, Next,
                      proj.ev.kind = "status", proj.pc = "update", proj'.pc = "idle",
                      NEW b \in Bots, status'[b] = "error"
               PROVE  status[b] \in {"starting", "error"}
    OBVIOUS
  <2>1. CASE UNCHANGED status
    BY <2>1
  <2>2. CASE CommitEvent
    <3>1. CommitWrites("projector")
      BY <2>2 DEF CommitEvent
    <3>2. \/ status'[b] = status[b]
          \/ write[b].by = "projector" /\ status'[b] = write[b].to
      BY <3>1, CommitWritesLegal
    <3>3. QED
      BY <3>2 DEF TimeoutsChecked
  <2>3. Projector => UNCHANGED status \/ CommitEvent
    BY DEF Projector, ReceiveEvent, SelectBots, NextStage, UpdateStatusById, dbVars
  <2>4. FailEvent \/ BackendCrash => UNCHANGED status
    BY DEF FailEvent, BackendCrash
  <2>5. ASSUME NEW r \in Requests,
               Request(r) \/ AbortRequest(r) \/ \E k \in Kinds, x \in Bots : Begin(r, k, x)
        PROVE  UNCHANGED proj
    BY <2>5 DEF Request, Begin, InsertCommand, PublishCommand, WriteStatus, CommitRequest,
                AbortRequest
  <2>6. ASSUME NEW x \in Bots, CreateBot(x) \/ DeleteBot(x) \/ Age(x)
        PROVE  UNCHANGED proj
    BY <2>6 DEF CreateBot, DeleteBot, Age
  <2>7. proj' # proj
    OBVIOUS
  <2>8. QED
    BY <2>1, <2>2, <2>3, <2>4, <2>5, <2>6, <2>7, OutsideSteps DEF Next
<1>2. QED
  BY <1>1, InitSerial, StepSerial, InitLegal, StepLegal, TypeCorrect, PTL
     DEF Spec, TimeoutOnlyFromStarting
=============================================================================
