----------------------------- MODULE EventFeed -----------------------------
(***************************************************************************)
(* The live feed of a dashboard: the WebSocket endpoint, the registry of   *)
(* open sockets (ConnectionManager) and the event projector that pushes    *)
(* engine events to the sockets of one user, or of every user.             *)
(*                                                                         *)
(* A step is what one task does between two awaits that may suspend it.    *)
(* The registry's lock is never held across such an await, so a critical   *)
(* section is one step, and so is accept, connect and the writing of the   *)
(* greeting.  The subscriber handles one event at a time and waits for all *)
(* sends of a broadcast; only those sends, the sockets' own tasks and the  *)
(* clients run concurrently.  Pings carry nothing and are left out, as are *)
(* the events that address no client.                                      *)
(***************************************************************************)
EXTENDS Naturals, Sequences

CONSTANTS
    Users,
    Sockets,      \* one per connection ever opened
    Owner,        \* the user whose token opened the socket
    MaxEvents     \* bound: events broadcast in a behaviour

ASSUME OwnerAssumption == Owner \in [Sockets -> Users]
ASSUME EveryoneAssumption == "everyone" \notin Users
ASSUME EventsAssumption == MaxEvents \in Nat

VARIABLES
    handler,      \* the task of ws_updates, per socket
    connected,    \* the client is still there
    closed,       \* sockets on which the server has sent a close frame
    connections,  \* ConnectionManager._connections: user -> open sockets, never empty
    joined,       \* history: events broadcast before the socket was registered
    log,          \* history: whom each broadcast event is for
    delivered,    \* history: the events handed to the socket, by number
    sending,      \* the sends under way: an event on its way to a socket
    closing,      \* sockets _send_one has given up and is about to close
    broadcasting, \* the projector is inside a broadcast
    stopping      \* the lifespan handler has cancelled the subscriber

feedVars == <<log, sending, closing, broadcasting>>
vars == <<handler, connected, closed, connections, joined, delivered, stopping, feedVars>>

HandlerStates == {"none", "greeting", "receiving", "ended", "failed"}

Messages == [to : Sockets, event : Nat]

TypeOK ==
    /\ handler \in [Sockets -> HandlerStates]
    /\ connected \subseteq Sockets
    /\ closed \subseteq Sockets
    /\ DOMAIN connections \subseteq Users
    /\ \A u \in DOMAIN connections : connections[u] \in (SUBSET Sockets) \ {{}}
    /\ joined \in [Sockets -> Nat]
    /\ log \in Seq(Users \cup {"everyone"})
    /\ delivered \in [Sockets -> SUBSET Nat]
    /\ sending \subseteq Messages
    /\ closing \subseteq Sockets
    /\ broadcasting \in BOOLEAN
    /\ stopping \in BOOLEAN

Init ==
    /\ handler = [s \in Sockets |-> "none"]
    /\ connected = {}
    /\ closed = {}
    /\ connections = [u \in {} |-> {}]
    /\ joined = [s \in Sockets |-> 0]
    /\ log = <<>>
    /\ delivered = [s \in Sockets |-> {}]
    /\ sending = {}
    /\ closing = {}
    /\ broadcasting = FALSE
    /\ stopping = FALSE

-----------------------------------------------------------------------------
(* The registry.                                                           *)

SocketsOf(u) == IF u \in DOMAIN connections THEN connections[u] ELSE {}
Registered == UNION {connections[u] : u \in DOMAIN connections}

With(u, ss) ==
    [v \in DOMAIN connections \cup {u} |-> IF v = u THEN ss ELSE connections[v]]
Without(u) == [v \in DOMAIN connections \ {u} |-> connections[v]]

\* Variant with a bug: the last socket of a user leaves an empty entry.
DisconnectKeepingEntry(s) ==
    connections' = With(Owner[s], SocketsOf(Owner[s]) \ {s})

\* Idempotent; the entry of a user without a socket is removed.
Disconnect(s) ==
    LET rest == SocketsOf(Owner[s]) \ {s} IN
    connections' = IF rest = {} THEN Without(Owner[s]) ELSE With(Owner[s], rest)

-----------------------------------------------------------------------------
(* The endpoint.                                                           *)

\* The token is valid: accept, connect, and write the greeting.
Connect(s) ==
    /\ handler[s] = "none" /\ ~ stopping
    /\ handler' = [handler EXCEPT ![s] = "greeting"]
    /\ connected' = connected \cup {s}
    /\ connections' = With(Owner[s], SocketsOf(Owner[s]) \cup {s})
    /\ joined' = [joined EXCEPT ![s] = Len(log)]
    /\ UNCHANGED <<closed, delivered, stopping, feedVars>>

Greeted(s) ==
    /\ handler[s] = "greeting"
    /\ handler' = [handler EXCEPT ![s] = "receiving"]
    /\ UNCHANGED <<connected, closed, connections, joined, delivered, stopping, feedVars>>

\* The greeting cannot be sent: the exception leaves the handler before its
\* try block, so nobody disconnects the socket.
GreetingFails(s) ==
    /\ handler[s] = "greeting" /\ (s \notin connected \/ s \in closed)
    /\ handler' = [handler EXCEPT ![s] = "failed"]
    /\ UNCHANGED <<connected, closed, connections, joined, delivered, stopping, feedVars>>

\* Variant with a bug: the handler returns without its finally block.
HandlerEndsRegistered(s) ==
    /\ handler[s] = "receiving" /\ (s \notin connected \/ s \in closed)
    /\ handler' = [handler EXCEPT ![s] = "ended"]
    /\ UNCHANGED <<connected, closed, connections, joined, delivered, stopping, feedVars>>

\* receive_text raises: the client has left, or the server has closed.
HandlerEnds(s) ==
    /\ handler[s] = "receiving" /\ (s \notin connected \/ s \in closed)
    /\ handler' = [handler EXCEPT ![s] = "ended"]
    /\ Disconnect(s)
    /\ UNCHANGED <<connected, closed, joined, delivered, stopping, feedVars>>

ClientLeaves(s) ==
    /\ s \in connected
    /\ connected' = connected \ {s}
    /\ UNCHANGED <<handler, closed, connections, joined, delivered, stopping, feedVars>>

-----------------------------------------------------------------------------
(* Broadcasts.                                                             *)

Recipients(to) == IF to = "everyone" THEN Registered ELSE SocketsOf(to)

\* Variant with a bug: the projector starts the sends and does not wait.
BroadcastOverlapping(to) ==
    /\ ~ stopping
    /\ Len(log) < MaxEvents
    /\ log' = Append(log, to)
    /\ sending' = sending \cup [to : Recipients(to), event : {Len(log')}]
    /\ broadcasting' = TRUE
    /\ UNCHANGED <<handler, connected, closed, connections, joined, delivered, closing, stopping>>

\* The projector handles an event: the recipients are those of this moment.
Broadcast(to) ==
    /\ ~ broadcasting /\ ~ stopping
    /\ Len(log) < MaxEvents
    /\ log' = Append(log, to)
    /\ sending' = [to : Recipients(to), event : {Len(log')}]
    /\ broadcasting' = TRUE
    /\ UNCHANGED <<handler, connected, closed, connections, joined, delivered, closing, stopping>>

Deliver(m) == delivered' = [delivered EXCEPT ![m.to] = @ \cup {m.event}]

\* A message that the transport accepts may still never reach the client.
SendSucceeds(m) ==
    /\ m \in sending /\ m.to \notin closed
    /\ Deliver(m)
    /\ sending' = sending \ {m}
    /\ UNCHANGED <<handler, connected, closed, connections, joined, log, closing, broadcasting,
                   stopping>>

\* Variant with a bug: a send that fails is only logged.
SendFailsLogged(m) ==
    /\ m \in sending
    /\ UNCHANGED delivered \/ (m.to \notin closed /\ Deliver(m))
    /\ sending' = sending \ {m}
    /\ UNCHANGED <<handler, connected, closed, connections, joined, log, closing, broadcasting,
                   stopping>>

\* Variant with a bug: only an exception ends a send, no timeout does.
SendFailsUntimed(m) ==
    /\ m \in sending /\ (m.to \notin connected \/ m.to \in closed)
    /\ UNCHANGED delivered \/ (m.to \notin closed /\ Deliver(m))
    /\ sending' = sending \ {m}
    /\ closing' = closing \cup {m.to}
    /\ Disconnect(m.to)
    /\ UNCHANGED <<handler, connected, closed, joined, log, broadcasting, stopping>>

\* A send times out (a client that does not read) or raises.  The message may
\* have been buffered all the same.
SendFails(m) ==
    /\ m \in sending
    /\ UNCHANGED delivered \/ (m.to \notin closed /\ Deliver(m))
    /\ sending' = sending \ {m}
    /\ closing' = closing \cup {m.to}
    /\ Disconnect(m.to)
    /\ UNCHANGED <<handler, connected, closed, joined, log, broadcasting, stopping>>

\* close(1013); its exceptions are swallowed.
CloseFailed(s) ==
    /\ s \in closing
    /\ closed' = closed \cup {s}
    /\ closing' = closing \ {s}
    /\ UNCHANGED <<handler, connected, connections, joined, delivered, log, sending, broadcasting,
                   stopping>>

EndBroadcast ==
    /\ broadcasting /\ sending = {} /\ closing = {}
    /\ broadcasting' = FALSE
    /\ UNCHANGED <<handler, connected, closed, connections, joined, delivered, log, sending,
                   closing, stopping>>

\* The lifespan handler cancels the subscriber, and with it the sends that are
\* under way; close_all empties the registry and closes what was in it.
Shutdown ==
    /\ ~ stopping
    /\ stopping' = TRUE
    /\ sending' = {} /\ closing' = {} /\ broadcasting' = FALSE
    /\ closed' = closed \cup Registered
    /\ connections' = [u \in {} |-> {}]
    /\ UNCHANGED <<handler, connected, joined, delivered, log>>

-----------------------------------------------------------------------------
Endpoint(s) == Greeted(s) \/ GreetingFails(s) \/ HandlerEnds(s)

Next ==
    \/ \E s \in Sockets : Connect(s) \/ ClientLeaves(s) \/ Endpoint(s) \/ CloseFailed(s)
    \/ \E m \in sending : SendSucceeds(m) \/ SendFails(m)
    \/ \E to \in Users \cup {"everyone"} : Broadcast(to)
    \/ EndBroadcast \/ Shutdown

Spec == Init /\ [][Next]_vars

\* Tasks of one event loop keep running.  A send ends at the latest by its
\* timeout, and the server library bounds a close; no client has to read, to
\* stay or to leave.
Fairness ==
    /\ \A s \in Sockets : /\ WF_vars(GreetingFails(s)) /\ WF_vars(HandlerEnds(s))
                         /\ WF_vars(CloseFailed(s))
                         /\ WF_vars(\E m \in sending : m.to = s /\ SendFails(m))
    /\ WF_vars(EndBroadcast)

FairSpec == Spec /\ Fairness

-----------------------------------------------------------------------------
(* Properties.                                                             *)

\* The events for s since it was registered.
Due(s) == {e \in 1..Len(log) : e > joined[s] /\ log[e] \in {Owner[s], "everyone"}}

\* A socket in the registry has missed no event for its user since it was
\* registered, except the one being sent to it now: a send that fails always
\* takes the socket out.  A client that is still connected need not ask for
\* what it may have missed.
RegisteredMissNothing ==
    \A s \in Registered : \A e \in Due(s) \ delivered[s] : [to |-> s, event |-> e] \in sending

\* Whatever becomes of a socket, what was handed to it are the first of the
\* events due to it: nothing of another user's, and no gap.
DeliveredIsPrefix ==
    \A s \in Sockets :
        /\ delivered[s] \subseteq Due(s)
        /\ \A e \in Due(s), d \in delivered[s] : e < d => e \in delivered[s]

\* The registry files a socket under its owner, and keeps none whose handler
\* has ended, but for one that failed to greet its client.
RegistryIsTidy ==
    /\ \A u \in DOMAIN connections : \A s \in connections[u] : Owner[s] = u
    /\ \A s \in Registered : handler[s] \in {"greeting", "receiving", "failed"}

\* Events reach a socket in the order the engine's messages were handled.
DeliveredInOrder ==
    [][\A s \in Sockets : \A d \in delivered[s], e \in delivered'[s] \ delivered[s] : d < e]_vars

\* A client that does not read holds up the projector, and with it every other
\* event, no longer than the send timeout.
BroadcastEnds == broadcasting ~> ~ broadcasting

\* A greeted client that leaves is forgotten, whether or not an event is ever
\* sent to it again.
GoneClientsLeave ==
    \A s \in Sockets :
        (handler[s] = "receiving" /\ s \notin connected) ~> s \notin Registered

\* The feed keeps the promise made to each client.  A socket is given up when it
\* is in the registry no longer and nothing is being sent to it.
Promise == INSTANCE LiveFeed WITH
    fresh <- {s \in Sockets : handler[s] = "none"},
    open  <- Registered \cup {m.to : m \in sending}
ImplementsFeed == Promise!Spec
=============================================================================
