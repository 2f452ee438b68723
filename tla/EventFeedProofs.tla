-------------------------- MODULE EventFeedProofs --------------------------
(***************************************************************************)
(* Proofs about EventFeed, for any sets of users and sockets and any       *)
(* number of events.                                                       *)
(***************************************************************************)
EXTENDS EventFeed, TLAPS

-----------------------------------------------------------------------------
(* The registry.                                                           *)

LEMMA InRegistry ==
    \A s : s \in Registered <=> \E u \in DOMAIN connections : s \in connections[u]
BY DEF Registered

LEMMA InRegistryNext ==
    \A s : s \in Registered' <=> \E u \in DOMAIN connections' : s \in connections'[u]
BY DEF Registered

LEMMA DisconnectRegistry ==
    ASSUME TypeOK, NEW s \in Sockets, Disconnect(s)
    PROVE  /\ DOMAIN connections' \subseteq DOMAIN connections
           /\ \A u \in DOMAIN connections' :
                 /\ connections'[u] = IF u = Owner[s] THEN connections[u] \ {s} ELSE connections[u]
                 /\ connections'[u] # {}
<1> DEFINE o == Owner[s]
<1> DEFINE rest == SocketsOf(o) \ {s}
<1>1. CASE rest = {}
  <2>1. connections' = Without(o)
    BY <1>1 DEF Disconnect
  <2>2. QED
    BY <2>1 DEF Without, TypeOK
<1>2. CASE rest # {}
  <2>1. connections' = With(o, rest)
    BY <1>2 DEF Disconnect
  <2>2. o \in DOMAIN connections /\ rest = connections[o] \ {s}
    BY <1>2 DEF SocketsOf
  <2>3. QED
    BY <1>2, <2>1, <2>2 DEF With, TypeOK
<1>3. QED
  BY <1>1, <1>2

LEMMA DisconnectType ==
    ASSUME TypeOK, NEW s \in Sockets, Disconnect(s)
    PROVE  /\ DOMAIN connections' \subseteq Users
           /\ \A u \in DOMAIN connections' : connections'[u] \in (SUBSET Sockets) \ {{}}
BY DisconnectRegistry DEF TypeOK

LEMMA ConnectRegistry ==
    ASSUME TypeOK, NEW s \in Sockets, Connect(s)
    PROVE  \A u \in DOMAIN connections' :
              /\ u \in DOMAIN connections \cup {Owner[s]}
              /\ connections'[u] # {}
              /\ \A x \in connections'[u] :
                    \/ x = s /\ u = Owner[s]
                    \/ u \in DOMAIN connections /\ x \in connections[u]
<1> SUFFICES ASSUME NEW u \in DOMAIN connections'
             PROVE  /\ u \in DOMAIN connections \cup {Owner[s]}
                    /\ connections'[u] # {}
                    /\ \A x \in connections'[u] :
                          \/ x = s /\ u = Owner[s]
                          \/ u \in DOMAIN connections /\ x \in connections[u]
  OBVIOUS
<1>1. connections' = With(Owner[s], SocketsOf(Owner[s]) \cup {s})
  BY DEF Connect
<1>2. u \in DOMAIN connections \cup {Owner[s]}
  BY <1>1 DEF With
<1>3. connections'[u] = IF u = Owner[s] THEN SocketsOf(u) \cup {s} ELSE connections[u]
  BY <1>1, <1>2 DEF With
<1>4. CASE u = Owner[s]
  BY <1>2, <1>3, <1>4 DEF SocketsOf
<1>5. CASE u # Owner[s]
  BY <1>2, <1>3, <1>5 DEF TypeOK
<1>6. QED
  BY <1>2, <1>4, <1>5

-----------------------------------------------------------------------------
(* Type correctness.                                                       *)

\* Every variable keeps its type, and no entry of the registry is empty.
THEOREM TypeCorrect == Spec => []TypeOK
<1>1. Init => TypeOK
  <2>1. <<>> \in Seq(Users \cup {"everyone"})
    OBVIOUS
  <2>2. ASSUME Init PROVE DOMAIN connections = {}
    BY <2>2 DEF Init
  <2>3. ASSUME Init PROVE handler \in [Sockets -> HandlerStates]
    BY <2>3 DEF Init, HandlerStates
  <2>4. ASSUME Init PROVE joined \in [Sockets -> Nat] /\ delivered \in [Sockets -> SUBSET Nat]
    BY <2>4 DEF Init
  <2>5. ASSUME Init PROVE log \in Seq(Users \cup {"everyone"})
    BY <2>1, <2>5 DEF Init
  <2>6. QED
    BY <2>2, <2>3, <2>4, <2>5 DEF Init, TypeOK
<1>2. TypeOK /\ [Next]_vars => TypeOK'
  <2> SUFFICES ASSUME TypeOK, [Next]_vars PROVE TypeOK'
    OBVIOUS
  <2>1. ASSUME NEW s \in Sockets, Connect(s) PROVE TypeOK'
    <3>1. /\ DOMAIN connections' \subseteq Users
          /\ \A u \in DOMAIN connections' : connections'[u] \in (SUBSET Sockets) \ {{}}
      BY <2>1, ConnectRegistry, OwnerAssumption DEF TypeOK
    <3>2. handler' \in [Sockets -> HandlerStates] /\ joined' \in [Sockets -> Nat]
      BY <2>1 DEF Connect, TypeOK, HandlerStates
    <3>3. QED
      BY <2>1, <3>1, <3>2 DEF Connect, TypeOK, feedVars
  <2>2. ASSUME NEW s \in Sockets, ClientLeaves(s) \/ Greeted(s) \/ GreetingFails(s) PROVE TypeOK'
    BY <2>2 DEF ClientLeaves, Greeted, GreetingFails, TypeOK, HandlerStates, feedVars
  <2>3. ASSUME NEW s \in Sockets, HandlerEnds(s) PROVE TypeOK'
    <3>1. Disconnect(s)
      BY <2>3 DEF HandlerEnds
    <3>2. QED
      BY <2>3, <3>1, DisconnectType DEF HandlerEnds, TypeOK, HandlerStates, feedVars
  <2>4. ASSUME NEW s \in Sockets, CloseFailed(s) PROVE TypeOK'
    BY <2>4 DEF CloseFailed, TypeOK
  <2>5. ASSUME NEW m \in sending, SendSucceeds(m) PROVE TypeOK'
    BY <2>5 DEF SendSucceeds, Deliver, TypeOK, Messages
  <2>6. ASSUME NEW m \in sending, SendFails(m) PROVE TypeOK'
    <3>1. Disconnect(m.to) /\ m.to \in Sockets /\ m.event \in Nat
      BY <2>6 DEF SendFails, TypeOK, Messages
    <3>2. delivered' \in [Sockets -> SUBSET Nat]
      BY <2>6, <3>1 DEF SendFails, Deliver, TypeOK
    <3>3. QED
      BY <2>6, <3>1, <3>2, DisconnectType DEF SendFails, TypeOK
  <2>7. ASSUME NEW to \in Users \cup {"everyone"}, Broadcast(to) PROVE TypeOK'
    <3>1. Recipients(to) \subseteq Sockets
      BY InRegistry DEF Recipients, SocketsOf, TypeOK
    <3>2. log' \in Seq(Users \cup {"everyone"})
      BY <2>7 DEF Broadcast, TypeOK
    <3>3. sending' \subseteq Messages
      BY <2>7, <3>1, <3>2 DEF Broadcast, Messages
    <3>4. QED
      BY <2>7, <3>2, <3>3 DEF Broadcast, TypeOK
  <2>8. CASE EndBroadcast
    BY <2>8 DEF EndBroadcast, TypeOK
  <2>9. CASE Shutdown
    <3>1. Registered \subseteq Sockets
      BY InRegistry DEF TypeOK
    <3>2. QED
      BY <2>9, <3>1 DEF Shutdown, TypeOK
  <2>10. CASE UNCHANGED vars
    BY <2>10 DEF vars, feedVars, TypeOK
  <2>11. QED
    BY <2>1, <2>2, <2>3, <2>4, <2>5, <2>6, <2>7, <2>8, <2>9, <2>10 DEF Next, Endpoint
<1>3. QED
  BY <1>1, <1>2, PTL DEF Spec

-----------------------------------------------------------------------------
(* The inductive invariant.                                                *)

\* A socket that has not been opened has no part in anything.
UnopenedIsUnused ==
    \A s \in Sockets : handler[s] = "none" => delivered[s] = {}

JoinedInThePast == \A s \in Sockets : joined[s] <= Len(log)

\* What is being sent is the newest event; it is the next one due to each of
\* its recipients, whether or not they are still registered.
SendsAreNext ==
    \A m \in sending :
        /\ broadcasting
        /\ handler[m.to] # "none"
        /\ m.event = Len(log)
        /\ m.event \in Due(m.to) \ delivered[m.to]
        /\ \A e \in Due(m.to) : e < m.event => e \in delivered[m.to]

FeedInv ==
    /\ RegistryIsTidy
    /\ RegisteredMissNothing
    /\ DeliveredIsPrefix
    /\ UnopenedIsUnused
    /\ JoinedInThePast
    /\ SendsAreNext

LEMMA TidyRegistered ==
    ASSUME RegistryIsTidy, NEW s \in Registered
    PROVE  /\ handler[s] \in {"greeting", "receiving", "failed"}
           /\ s \in SocketsOf(Owner[s])
<1>1. PICK u \in DOMAIN connections : s \in connections[u]
  BY InRegistry
<1>2. Owner[s] = u
  BY <1>1 DEF RegistryIsTidy
<1>3. QED
  BY <1>1, <1>2 DEF RegistryIsTidy, SocketsOf

LEMMA RegisteredAreSockets ==
    ASSUME TypeOK PROVE Registered \subseteq Sockets
BY InRegistry DEF TypeOK

\* Taking a socket out of the registry keeps it tidy.
LEMMA DisconnectTidy ==
    ASSUME TypeOK, RegistryIsTidy, NEW s \in Sockets, Disconnect(s),
           \A x \in Sockets : x # s => handler'[x] = handler[x]
    PROVE  RegistryIsTidy' /\ Registered' \subseteq Registered \ {s}
<1>1. /\ DOMAIN connections' \subseteq DOMAIN connections
      /\ \A u \in DOMAIN connections' :
            connections'[u] = IF u = Owner[s] THEN connections[u] \ {s} ELSE connections[u]
  BY DisconnectRegistry
<1>2. \A u \in DOMAIN connections : s \in connections[u] => u = Owner[s]
  BY DEF RegistryIsTidy
<1>3. \A u \in DOMAIN connections' : connections'[u] \subseteq connections[u] \ {s}
  BY <1>1, <1>2
<1>4. Registered' \subseteq Registered \ {s}
  BY <1>1, <1>3, InRegistry, InRegistryNext
<1>5. \A u \in DOMAIN connections' : \A x \in connections'[u] : Owner[x] = u
  BY <1>1, <1>3 DEF RegistryIsTidy
<1>6. \A x \in Registered' : handler'[x] \in {"greeting", "receiving", "failed"}
  BY <1>4, RegisteredAreSockets DEF RegistryIsTidy
<1>7. QED
  BY <1>4, <1>5, <1>6 DEF RegistryIsTidy

\* Handing over the message that is being sent to a socket.
LEMMA DeliverNext ==
    ASSUME TypeOK, FeedInv, NEW m \in sending, Deliver(m), UNCHANGED <<log, joined>>
    PROVE  /\ DeliveredIsPrefix'
           /\ \A d \in delivered[m.to] : d < m.event
           /\ delivered' = [delivered EXCEPT ![m.to] = @ \cup {m.event}]
<1>1. m.to \in Sockets /\ m.event \in Nat
  BY DEF TypeOK, Messages
<1>2. \A s \in Sockets : Due(s)' = Due(s)
  BY DEF Due
<1>3. /\ m.event = Len(log)
      /\ m.event \in Due(m.to) \ delivered[m.to]
      /\ \A e \in Due(m.to) : e < m.event => e \in delivered[m.to]
  BY DEF FeedInv, SendsAreNext
<1>4. delivered' = [delivered EXCEPT ![m.to] = @ \cup {m.event}]
  BY DEF Deliver
<1>5. \A d \in delivered[m.to] : d \in 1..Len(log)
  BY <1>1 DEF FeedInv, DeliveredIsPrefix, Due
<1>6. \A d \in delivered[m.to] : d < m.event
  BY <1>3, <1>5 DEF TypeOK
<1>7. DeliveredIsPrefix'
  <2> SUFFICES ASSUME NEW s \in Sockets
               PROVE  /\ delivered'[s] \subseteq Due(s)
                      /\ \A e \in Due(s), d \in delivered'[s] : e < d => e \in delivered'[s]
    BY <1>2 DEF DeliveredIsPrefix
  <2>1. CASE s = m.to
    BY <2>1, <1>1, <1>3, <1>4 DEF FeedInv, DeliveredIsPrefix, TypeOK
  <2>2. CASE s # m.to
    BY <2>2, <1>1, <1>4 DEF FeedInv, DeliveredIsPrefix, TypeOK
  <2>3. QED
    BY <2>1, <2>2
<1>8. QED
  BY <1>4, <1>6, <1>7

\* At most one message is on its way to a socket.
LEMMA OneSendPerSocket ==
    ASSUME TypeOK, SendsAreNext, NEW m \in sending, NEW n \in sending, m.to = n.to
    PROVE  m = n
BY DEF TypeOK, SendsAreNext, Messages

-----------------------------------------------------------------------------
(* The steps.                                                              *)

LEMMA ConnectKeeps ==
    ASSUME TypeOK, FeedInv, NEW s \in Sockets, Connect(s)
    PROVE  FeedInv'
<1>1. /\ handler[s] = "none" /\ handler' = [handler EXCEPT ![s] = "greeting"]
      /\ joined' = [joined EXCEPT ![s] = Len(log)]
      /\ UNCHANGED <<delivered, log, sending, broadcasting>>
  BY DEF Connect, feedVars
<1>2. \A u \in DOMAIN connections' : \A x \in connections'[u] :
         \/ x = s /\ u = Owner[s]
         \/ u \in DOMAIN connections /\ x \in connections[u]
  BY ConnectRegistry
<1>3. Registered' \subseteq Registered \cup {s}
  BY <1>2, InRegistry, InRegistryNext
<1>4. /\ Due(s)' = {} /\ delivered[s] = {}
      /\ \A x \in Sockets : x # s => Due(x)' = Due(x)
  BY <1>1 DEF Due, TypeOK, FeedInv, UnopenedIsUnused
<1>5. RegistryIsTidy'
  <2>1. \A u \in DOMAIN connections' : \A x \in connections'[u] : Owner[x] = u
    BY <1>2 DEF FeedInv, RegistryIsTidy
  <2>2. \A x \in Registered' : handler'[x] \in {"greeting", "receiving", "failed"}
    BY <1>1, <1>3, RegisteredAreSockets DEF FeedInv, RegistryIsTidy, TypeOK
  <2>3. QED
    BY <2>1, <2>2 DEF RegistryIsTidy
<1>6. RegisteredMissNothing'
  BY <1>1, <1>3, <1>4, RegisteredAreSockets DEF FeedInv, RegisteredMissNothing
<1>7. DeliveredIsPrefix'
  BY <1>1, <1>4 DEF FeedInv, DeliveredIsPrefix
<1>8. UnopenedIsUnused' /\ JoinedInThePast'
  BY <1>1 DEF FeedInv, UnopenedIsUnused, JoinedInThePast, TypeOK
<1>9. SendsAreNext'
  <2>1. \A m \in sending : m.to \in Sockets /\ m.to # s
    BY <1>1 DEF FeedInv, SendsAreNext, TypeOK, Messages
  <2>2. QED
    BY <1>1, <1>4, <2>1 DEF FeedInv, SendsAreNext, TypeOK
<1>10. QED
  BY <1>5, <1>6, <1>7, <1>8, <1>9 DEF FeedInv

\* Steps of the endpoint and its client that leave the registry alone.
LEMMA EndpointKeeps ==
    ASSUME TypeOK, FeedInv, NEW s \in Sockets,
           ClientLeaves(s) \/ Greeted(s) \/ GreetingFails(s) \/ CloseFailed(s)
    PROVE  FeedInv'
<1>1. UNCHANGED <<connections, joined, log, delivered, sending, broadcasting>>
  BY DEF ClientLeaves, Greeted, GreetingFails, CloseFailed, feedVars
<1>2. \A x \in Sockets :
         handler'[x] = handler[x] \/ (handler[x] # "none" /\ handler'[x] \in {"receiving", "failed"})
  BY DEF ClientLeaves, Greeted, GreetingFails, CloseFailed, TypeOK
<1>3. Registered' = Registered /\ \A x \in Sockets : Due(x)' = Due(x)
  BY <1>1 DEF Registered, Due
<1>4. RegistryIsTidy'
  BY <1>1, <1>2, <1>3, RegisteredAreSockets DEF FeedInv, RegistryIsTidy
<1>5. RegisteredMissNothing' /\ DeliveredIsPrefix'
  BY <1>1, <1>3, RegisteredAreSockets DEF FeedInv, RegisteredMissNothing, DeliveredIsPrefix
<1>6. UnopenedIsUnused' /\ JoinedInThePast'
  BY <1>1, <1>2 DEF FeedInv, UnopenedIsUnused, JoinedInThePast
<1>7. SendsAreNext'
  <2>1. \A m \in sending : m.to \in Sockets
    BY DEF TypeOK, Messages
  <2>2. \A m \in sending : handler'[m.to] # "none"
    BY <2>1, <1>2 DEF FeedInv, SendsAreNext
  <2>3. QED
    BY <1>1, <1>3, <2>1, <2>2 DEF FeedInv, SendsAreNext
<1>8. QED
  BY <1>4, <1>5, <1>6, <1>7 DEF FeedInv

LEMMA HandlerEndsKeeps ==
    ASSUME TypeOK, FeedInv, NEW s \in Sockets, HandlerEnds(s)
    PROVE  FeedInv'
<1>1. /\ Disconnect(s) /\ handler' = [handler EXCEPT ![s] = "ended"] /\ handler[s] = "receiving"
      /\ UNCHANGED <<joined, log, delivered, sending, broadcasting>>
  BY DEF HandlerEnds, feedVars
<1>2. RegistryIsTidy' /\ Registered' \subseteq Registered \ {s}
  BY <1>1, DisconnectTidy DEF FeedInv, TypeOK
<1>3. \A x \in Sockets : Due(x)' = Due(x)
  BY <1>1 DEF Due
<1>4. RegisteredMissNothing' /\ DeliveredIsPrefix'
  BY <1>1, <1>2, <1>3, RegisteredAreSockets DEF FeedInv, RegisteredMissNothing, DeliveredIsPrefix
<1>5. UnopenedIsUnused' /\ JoinedInThePast'
  BY <1>1 DEF FeedInv, UnopenedIsUnused, JoinedInThePast, TypeOK
<1>6. SendsAreNext'
  <2>1. \A m \in sending : m.to \in Sockets
    BY DEF TypeOK, Messages
  <2>2. QED
    BY <1>1, <1>3, <2>1 DEF FeedInv, SendsAreNext, TypeOK
<1>7. QED
  BY <1>2, <1>4, <1>5, <1>6 DEF FeedInv

LEMMA SendSucceedsKeeps ==
    ASSUME TypeOK, FeedInv, NEW m \in sending, SendSucceeds(m)
    PROVE  FeedInv'
<1>1. /\ Deliver(m) /\ sending' = sending \ {m}
      /\ UNCHANGED <<handler, connections, joined, log, broadcasting>>
  BY DEF SendSucceeds
<1>2. m \in Messages /\ m.to \in Sockets
  BY DEF TypeOK, Messages
<1>3. DeliveredIsPrefix' /\ delivered' = [delivered EXCEPT ![m.to] = @ \cup {m.event}]
  BY <1>1, DeliverNext
<1>4. \A x \in Sockets : Due(x)' = Due(x)
  BY <1>1 DEF Due
<1>5. Registered' = Registered
  BY <1>1 DEF Registered
<1>6. RegistryIsTidy' /\ UnopenedIsUnused' /\ JoinedInThePast'
  <2>1. handler[m.to] # "none"
    BY DEF FeedInv, SendsAreNext
  <2>2. UnopenedIsUnused'
    BY <1>1, <1>2, <1>3, <2>1 DEF FeedInv, UnopenedIsUnused, TypeOK
  <2>3. QED
    BY <1>1, <1>5, <2>2 DEF FeedInv, RegistryIsTidy, JoinedInThePast
<1>7. RegisteredMissNothing'
  <2> SUFFICES ASSUME NEW s \in Registered, NEW e \in Due(s) \ delivered'[s]
               PROVE  [to |-> s, event |-> e] \in sending'
    BY <1>4, <1>5, RegisteredAreSockets DEF RegisteredMissNothing
  <2>1. s \in Sockets
    BY RegisteredAreSockets
  <2>2. e \notin delivered[s] /\ [to |-> s, event |-> e] # m
    BY <1>2, <1>3, <2>1 DEF TypeOK
  <2>3. QED
    BY <1>1, <2>1, <2>2 DEF FeedInv, RegisteredMissNothing
<1>8. SendsAreNext'
  <2> SUFFICES ASSUME NEW n \in sending'
               PROVE  /\ broadcasting
                      /\ handler[n.to] # "none"
                      /\ n.event = Len(log)
                      /\ n.event \in Due(n.to) \ delivered'[n.to]
                      /\ \A e \in Due(n.to) : e < n.event => e \in delivered'[n.to]
    <3>1. \A n \in sending' : n.to \in Sockets
      BY <1>1 DEF TypeOK, Messages
    <3>2. QED
      BY <1>1, <1>4, <3>1 DEF SendsAreNext
  <2>1. n \in sending /\ n.to \in Sockets /\ n.to # m.to
    BY <1>1, OneSendPerSocket DEF FeedInv, TypeOK, Messages
  <2>2. delivered'[n.to] = delivered[n.to]
    BY <1>2, <1>3, <2>1 DEF TypeOK
  <2>3. QED
    BY <2>1, <2>2 DEF FeedInv, SendsAreNext
<1>9. QED
  BY <1>3, <1>6, <1>7, <1>8 DEF FeedInv

LEMMA SendFailsKeeps ==
    ASSUME TypeOK, FeedInv, NEW m \in sending, SendFails(m)
    PROVE  FeedInv'
<1>1. /\ UNCHANGED delivered \/ Deliver(m)
      /\ sending' = sending \ {m} /\ Disconnect(m.to)
      /\ UNCHANGED <<handler, joined, log, broadcasting>>
  BY DEF SendFails
<1>2. m \in Messages /\ m.to \in Sockets
  BY DEF TypeOK, Messages
<1>3. \A x \in Sockets : Due(x)' = Due(x)
  BY <1>1 DEF Due
<1>4. /\ DeliveredIsPrefix'
      /\ \A x \in Sockets : x # m.to => delivered'[x] = delivered[x]
  <2>1. CASE UNCHANGED delivered
    BY <2>1, <1>3 DEF FeedInv, DeliveredIsPrefix
  <2>2. CASE Deliver(m)
    BY <2>2, <1>1, <1>2, DeliverNext DEF TypeOK
  <2>3. QED
    BY <1>1, <2>1, <2>2
<1>5. RegistryIsTidy' /\ Registered' \subseteq Registered \ {m.to}
  BY <1>1, <1>2, DisconnectTidy DEF FeedInv
<1>6. UnopenedIsUnused' /\ JoinedInThePast'
  <2>1. handler[m.to] # "none"
    BY DEF FeedInv, SendsAreNext
  <2>2. QED
    BY <1>1, <1>4, <2>1 DEF FeedInv, UnopenedIsUnused, JoinedInThePast
<1>7. RegisteredMissNothing'
  <2> SUFFICES ASSUME NEW s \in Registered', NEW e \in Due(s) \ delivered'[s]
               PROVE  [to |-> s, event |-> e] \in sending'
    BY <1>3, <1>5, RegisteredAreSockets DEF RegisteredMissNothing
  <2>1. s \in Sockets /\ s \in Registered /\ s # m.to
    BY <1>5, RegisteredAreSockets
  <2>2. [to |-> s, event |-> e] \in sending
    BY <1>4, <2>1 DEF FeedInv, RegisteredMissNothing
  <2>3. QED
    BY <1>1, <2>1, <2>2
<1>8. SendsAreNext'
  <2> SUFFICES ASSUME NEW n \in sending'
               PROVE  /\ broadcasting
                      /\ handler[n.to] # "none"
                      /\ n.event = Len(log)
                      /\ n.event \in Due(n.to) \ delivered'[n.to]
                      /\ \A e \in Due(n.to) : e < n.event => e \in delivered'[n.to]
    <3>1. \A n \in sending' : n.to \in Sockets
      BY <1>1 DEF TypeOK, Messages
    <3>2. QED
      BY <1>1, <1>3, <3>1 DEF SendsAreNext
  <2>1. n \in sending /\ n.to \in Sockets /\ n.to # m.to
    BY <1>1, OneSendPerSocket DEF FeedInv, TypeOK, Messages
  <2>2. delivered'[n.to] = delivered[n.to]
    BY <1>4, <2>1
  <2>3. QED
    BY <2>1, <2>2 DEF FeedInv, SendsAreNext
<1>9. QED
  BY <1>4, <1>5, <1>6, <1>7, <1>8 DEF FeedInv

LEMMA BroadcastKeeps ==
    ASSUME TypeOK, FeedInv, NEW to \in Users \cup {"everyone"}, Broadcast(to)
    PROVE  FeedInv'
<1> DEFINE n == Len(log) + 1
<1>1. /\ log' = Append(log, to) /\ sending' = [to : Recipients(to), event : {Len(log')}]
      /\ broadcasting' /\ ~ broadcasting
      /\ UNCHANGED <<handler, connections, joined, delivered>>
  BY DEF Broadcast
<1>2. sending = {}
  BY <1>1 DEF FeedInv, SendsAreNext
<1>3. /\ Len(log) \in Nat /\ Len(log') = n /\ log'[n] = to
      /\ \A e \in 1..Len(log) : log'[e] = log[e]
  BY <1>1 DEF TypeOK
<1>4. \A s \in Sockets :
         Due(s)' = Due(s) \cup (IF to \in {Owner[s], "everyone"} THEN {n} ELSE {})
  BY <1>1, <1>3 DEF Due, TypeOK, FeedInv, JoinedInThePast
<1>5. \A s \in Sockets : delivered[s] \subseteq Due(s) /\ \A d \in Due(s) : d \in 1..Len(log)
  BY DEF FeedInv, DeliveredIsPrefix, Due
<1>6. \A s \in Registered : Due(s) \subseteq delivered[s]
  BY <1>2 DEF FeedInv, RegisteredMissNothing
<1>7. Registered' = Registered
  BY <1>1 DEF Registered
<1>8. \A s \in Recipients(to) : s \in Registered /\ to \in {Owner[s], "everyone"}
  <2>1. CASE to = "everyone"
    BY <2>1 DEF Recipients
  <2>2. CASE to # "everyone"
    BY <2>2, InRegistry DEF Recipients, SocketsOf, FeedInv, RegistryIsTidy
  <2>3. QED
    BY <2>1, <2>2
<1>9. RegistryIsTidy' /\ UnopenedIsUnused'
  BY <1>1, <1>7 DEF FeedInv, RegistryIsTidy, UnopenedIsUnused
<1>10. JoinedInThePast'
  BY <1>1, <1>3 DEF FeedInv, JoinedInThePast, TypeOK
<1>11. DeliveredIsPrefix'
  <2> SUFFICES ASSUME NEW s \in Sockets
               PROVE  /\ delivered[s] \subseteq Due(s)'
                      /\ \A e \in Due(s)', d \in delivered[s] : e < d => e \in delivered[s]
    BY <1>1 DEF DeliveredIsPrefix
  <2>1. \A d \in delivered[s] : d \in Due(s) /\ ~ n < d
    BY <1>3, <1>5
  <2>2. QED
    BY <1>4, <2>1 DEF FeedInv, DeliveredIsPrefix
<1>12. RegisteredMissNothing'
  <2> SUFFICES ASSUME NEW s \in Registered, NEW e \in Due(s)' \ delivered[s]
               PROVE  [to |-> s, event |-> e] \in sending'
    BY <1>1, <1>7 DEF RegisteredMissNothing
  <2>1. s \in Sockets /\ s \in SocketsOf(Owner[s])
    BY TidyRegistered, RegisteredAreSockets DEF FeedInv
  <2>2. e = n /\ to \in {Owner[s], "everyone"}
    BY <1>4, <1>6, <2>1
  <2>3. s \in Recipients(to)
    BY <2>1, <2>2 DEF Recipients
  <2>4. QED
    BY <1>1, <1>3, <2>2, <2>3
<1>13. SendsAreNext'
  <2> SUFFICES ASSUME NEW m \in sending'
               PROVE  /\ handler[m.to] # "none"
                      /\ m.event = Len(log')
                      /\ m.event \in Due(m.to)' \ delivered[m.to]
                      /\ \A e \in Due(m.to)' : e < m.event => e \in delivered[m.to]
    BY <1>1 DEF SendsAreNext
  <2>1. m.to \in Recipients(to) /\ m.event = n
    BY <1>1, <1>3
  <2>2. m.to \in Registered /\ m.to \in Sockets /\ to \in {Owner[m.to], "everyone"}
    BY <1>8, <2>1, RegisteredAreSockets
  <2>3. handler[m.to] # "none"
    BY <2>2, TidyRegistered DEF FeedInv
  <2>4. m.event \in Due(m.to)' \ delivered[m.to]
    BY <1>3, <1>4, <1>5, <2>1, <2>2
  <2>5. \A e \in Due(m.to)' : e < m.event => e \in delivered[m.to]
    BY <1>3, <1>4, <1>6, <2>1, <2>2
  <2>6. QED
    BY <1>3, <2>1, <2>3, <2>4, <2>5
<1>14. QED
  BY <1>9, <1>10, <1>11, <1>12, <1>13 DEF FeedInv

LEMMA ShutdownKeeps ==
    ASSUME TypeOK, FeedInv, Shutdown
    PROVE  FeedInv'
<1>1. /\ sending' = {} /\ connections' = [u \in {} |-> {}]
      /\ UNCHANGED <<handler, joined, delivered, log>>
  BY DEF Shutdown
<1>2. Registered' = {} /\ DOMAIN connections' = {}
  BY <1>1 DEF Registered
<1>3. \A s \in Sockets : Due(s)' = Due(s)
  BY <1>1 DEF Due
<1>4. QED
  BY <1>1, <1>2, <1>3 DEF FeedInv, RegistryIsTidy, RegisteredMissNothing, DeliveredIsPrefix,
     UnopenedIsUnused, JoinedInThePast, SendsAreNext

LEMMA EndBroadcastKeeps ==
    ASSUME TypeOK, FeedInv, EndBroadcast
    PROVE  FeedInv'
<1>1. /\ sending = {}
      /\ UNCHANGED <<handler, connections, joined, delivered, log, sending>>
  BY DEF EndBroadcast
<1>2. Registered' = Registered /\ \A s \in Sockets : Due(s)' = Due(s)
  BY <1>1 DEF Registered, Due
<1>3. QED
  BY <1>1, <1>2, RegisteredAreSockets DEF FeedInv, RegistryIsTidy, RegisteredMissNothing,
     DeliveredIsPrefix, UnopenedIsUnused, JoinedInThePast, SendsAreNext

-----------------------------------------------------------------------------
(* The theorems.                                                           *)

LEMMA InitFeedInv == Init => FeedInv
<1> SUFFICES ASSUME Init PROVE FeedInv
  OBVIOUS
<1>1. Registered = {} /\ DOMAIN connections = {} /\ sending = {}
  BY DEF Init, Registered
<1>2. \A s \in Sockets : handler[s] = "none" /\ delivered[s] = {} /\ joined[s] = 0 /\ Due(s) = {}
  BY DEF Init, Due
<1>3. Len(log) = 0
  BY DEF Init
<1>4. QED
  BY <1>1, <1>2, <1>3 DEF FeedInv, RegistryIsTidy, RegisteredMissNothing, DeliveredIsPrefix,
     UnopenedIsUnused, JoinedInThePast, SendsAreNext

LEMMA StepKeepsFeedInv ==
    ASSUME TypeOK, FeedInv, [Next]_vars
    PROVE  FeedInv'
<1>1. CASE UNCHANGED vars
  <2>1. UNCHANGED <<handler, connections, joined, delivered, log, sending, broadcasting>>
    BY <1>1 DEF vars, feedVars
  <2>2. Registered' = Registered /\ \A s \in Sockets : Due(s)' = Due(s)
    BY <2>1 DEF Registered, Due
  <2>3. \A m \in sending : m.to \in Sockets
    BY DEF TypeOK, Messages
  <2>4. QED
    BY <2>1, <2>2, <2>3, RegisteredAreSockets DEF FeedInv, RegistryIsTidy,
       RegisteredMissNothing, DeliveredIsPrefix, UnopenedIsUnused, JoinedInThePast, SendsAreNext
<1>2. CASE Next
  BY <1>2, ConnectKeeps, EndpointKeeps, HandlerEndsKeeps, SendSucceedsKeeps, SendFailsKeeps,
     BroadcastKeeps, EndBroadcastKeeps, ShutdownKeeps DEF Next, Endpoint
<1>3. QED
  BY <1>1, <1>2

LEMMA FeedInvariant == Spec => []FeedInv
<1>1. TypeOK /\ FeedInv /\ [Next]_vars => FeedInv'
  BY StepKeepsFeedInv
<1>2. QED
  BY <1>1, InitFeedInv, TypeCorrect, PTL DEF Spec

\* The registry files sockets under their owners and keeps no ended handler's,
\* in whatever order failed sends, endpoints and the shutdown disconnect them.
THEOREM RegistryStaysTidy == Spec => []RegistryIsTidy
<1>1. FeedInv => RegistryIsTidy
  BY DEF FeedInv
<1>2. QED
  BY <1>1, FeedInvariant, PTL

\* A socket that is still registered has been handed every event due to it,
\* but for the one on its way: a failed send never leaves a gap behind.
THEOREM RegisteredSocketsMissNothing == Spec => []RegisteredMissNothing
<1>1. FeedInv => RegisteredMissNothing
  BY DEF FeedInv
<1>2. QED
  BY <1>1, FeedInvariant, PTL

\* Any socket, open or not, has received the first of the events due to it.
THEOREM SocketsGetPrefixes == Spec => []DeliveredIsPrefix
<1>1. FeedInv => DeliveredIsPrefix
  BY DEF FeedInv
<1>2. QED
  BY <1>1, FeedInvariant, PTL

\* What a step hands to a socket is newer than all it has had before.
THEOREM EventsArriveInOrder == Spec => DeliveredInOrder
<1> DEFINE NewerOnly ==
        \A s \in Sockets : \A d \in delivered[s], e \in delivered'[s] \ delivered[s] : d < e
<1>1. TypeOK /\ FeedInv /\ [Next]_vars => [NewerOnly]_vars
  <2> SUFFICES ASSUME TypeOK, FeedInv, Next PROVE NewerOnly
    OBVIOUS
  <2>1. CASE UNCHANGED delivered
    BY <2>1
  <2>2. ASSUME NEW m \in sending, Deliver(m), UNCHANGED <<log, joined>> PROVE NewerOnly
    <3>1. /\ \A d \in delivered[m.to] : d < m.event
          /\ delivered' = [delivered EXCEPT ![m.to] = @ \cup {m.event}]
      BY <2>2, DeliverNext
    <3>2. QED
      BY <3>1 DEF TypeOK
  <2>3. CASE \E m \in sending : SendSucceeds(m) \/ SendFails(m)
    BY <2>1, <2>2, <2>3 DEF SendSucceeds, SendFails
  <2>4. CASE ~ \E m \in sending : SendSucceeds(m) \/ SendFails(m)
    <3>1. UNCHANGED delivered
      BY <2>4 DEF Next, Connect, ClientLeaves, Endpoint, Greeted, GreetingFails, HandlerEnds,
         CloseFailed, Broadcast, EndBroadcast, Shutdown
    <3>2. QED
      BY <2>1, <3>1
  <2>5. QED
    BY <2>3, <2>4
<1>2. QED
  BY <1>1, TypeCorrect, FeedInvariant, PTL DEF Spec, DeliveredInOrder

-----------------------------------------------------------------------------
(* The refinement.  Every step of EventFeed joins a socket, hands it the    *)
(* next event, lets an event happen or gives sockets up, as LiveFeed has    *)
(* it, or changes nothing that a client can see.                            *)

Fresh == {s \in Sockets : handler[s] = "none"}
Served == Registered \cup {m.to : m \in sending}

LEMMA MissingIs == ASSUME NEW s \in Sockets PROVE Promise!Missing(s) = Due(s) \ delivered[s]
BY DEF Promise!Missing, Due

LEMMA InitPromises == Init => Promise!Init
BY DEF Init, Promise!Init, Registered

\* A step that hands over nothing and takes no part in the log only gives up.
LEMMA GivesUp ==
    ASSUME Served' \subseteq Served, Fresh' = Fresh, UNCHANGED <<log, joined, delivered>>
    PROVE  Promise!Next
BY DEF Promise!Next, Promise!GiveUp, Served, Fresh

LEMMA ConnectRegistered ==
    ASSUME TypeOK, NEW s \in Sockets, Connect(s)
    PROVE  Registered' = Registered \cup {s}
<1>1. connections' = With(Owner[s], SocketsOf(Owner[s]) \cup {s})
  BY DEF Connect
<1>2. /\ DOMAIN connections' = DOMAIN connections \cup {Owner[s]}
      /\ \A u \in DOMAIN connections : connections[u] \subseteq connections'[u]
      /\ s \in connections'[Owner[s]]
  BY <1>1 DEF With, SocketsOf
<1>3. Registered' \subseteq Registered \cup {s}
  BY ConnectRegistry, InRegistry, InRegistryNext
<1>4. Registered \cup {s} \subseteq Registered'
  BY <1>2, InRegistry, InRegistryNext
<1>5. QED
  BY <1>3, <1>4

LEMMA ConnectPromises ==
    ASSUME TypeOK, NEW s \in Sockets, Connect(s)
    PROVE  Promise!Next
<1>1. /\ handler[s] = "none" /\ handler' = [handler EXCEPT ![s] = "greeting"]
      /\ joined' = [joined EXCEPT ![s] = Len(log)]
      /\ UNCHANGED <<delivered, log, sending>>
  BY DEF Connect, feedVars
<1>2. Registered' = Registered \cup {s}
  BY ConnectRegistered
<1>3. Served' = Served \cup {s}
  BY <1>1, <1>2 DEF Served
<1>4. Fresh' = Fresh \ {s} /\ s \in Fresh
  BY <1>1 DEF Fresh, TypeOK
<1>5. Promise!Join(s)
  BY <1>1, <1>3, <1>4 DEF Promise!Join, Fresh, Served
<1>6. QED
  BY <1>5 DEF Promise!Next

\* Handing over what is on its way to a socket: it is the oldest that is missing.
LEMMA DeliverPromises ==
    ASSUME TypeOK, FeedInv, NEW m \in sending, Deliver(m), Served' \in {Served, Served \ {m.to}},
           Fresh' = Fresh, UNCHANGED <<log, joined>>
    PROVE  Promise!Next
<1>1. m.to \in Sockets /\ m.event \in Nat /\ m.to \in Served
  BY DEF TypeOK, Messages, Served
<1>2. /\ m.event \in Due(m.to) \ delivered[m.to]
      /\ \A e \in Due(m.to) : e < m.event => e \in delivered[m.to]
  BY DEF FeedInv, SendsAreNext
<1>3. Due(m.to) \subseteq Nat
  BY DEF Due, TypeOK
<1>4. m.event \in Promise!Missing(m.to) /\ \A d \in Promise!Missing(m.to) : m.event <= d
  BY <1>1, <1>2, <1>3, MissingIs
<1>5. delivered' = [delivered EXCEPT ![m.to] = @ \cup {m.event}]
  BY DEF Deliver
<1>6. Promise!HandOver(m.to)
  BY <1>1, <1>4, <1>5 DEF Promise!HandOver, Served, Fresh
<1>7. QED
  BY <1>1, <1>6 DEF Promise!Next

\* A send that is over takes at most its own socket out of service.
LEMMA SendOver ==
    ASSUME TypeOK, FeedInv, NEW m \in sending, sending' = sending \ {m},
           Registered' = Registered \/ Registered' = Registered \ {m.to}
    PROVE  Served' \in {Served, Served \ {m.to}}
<1>1. {n.to : n \in sending \ {m}} = {n.to : n \in sending} \ {m.to}
  BY OneSendPerSocket DEF FeedInv
<1>2. m.to \in {n.to : n \in sending}
  OBVIOUS
<1>3. {n.to : n \in sending}' = {n.to : n \in sending} \ {m.to}
  BY <1>1
<1>4. QED
  BY <1>2, <1>3 DEF Served

LEMMA DisconnectRegistered ==
    ASSUME TypeOK, RegistryIsTidy, NEW s \in Sockets, Disconnect(s)
    PROVE  Registered' = Registered \ {s}
<1>1. /\ DOMAIN connections' \subseteq DOMAIN connections
      /\ \A u \in DOMAIN connections' :
            connections'[u] = IF u = Owner[s] THEN connections[u] \ {s} ELSE connections[u]
  BY DisconnectRegistry
<1>2. \A u \in DOMAIN connections : s \in connections[u] => u = Owner[s]
  BY DEF RegistryIsTidy
<1>3. Registered' \subseteq Registered \ {s}
  BY <1>1, <1>2, InRegistry, InRegistryNext
<1>4. ASSUME NEW u \in DOMAIN connections, connections[u] \ {s} # {}
      PROVE  u \in DOMAIN connections'
  <2>1. CASE SocketsOf(Owner[s]) \ {s} = {}
    <3>1. u # Owner[s] /\ connections' = Without(Owner[s])
      BY <1>4, <2>1 DEF Disconnect, SocketsOf
    <3>2. QED
      BY <3>1 DEF Without
  <2>2. CASE SocketsOf(Owner[s]) \ {s} # {}
    <3>1. connections' = With(Owner[s], SocketsOf(Owner[s]) \ {s})
      BY <2>2 DEF Disconnect
    <3>2. QED
      BY <3>1 DEF With
  <2>3. QED
    BY <2>1, <2>2
<1>5. ASSUME NEW x \in Registered, x # s
      PROVE  x \in Registered'
  <2>1. PICK u \in DOMAIN connections : x \in connections[u]
    BY InRegistry
  <2>2. u \in DOMAIN connections' /\ x \in connections'[u]
    BY <1>1, <1>4, <1>5, <2>1
  <2>3. QED
    BY <2>2, InRegistryNext
<1>6. QED
  BY <1>3, <1>5

LEMMA SendPromises ==
    ASSUME TypeOK, FeedInv, NEW m \in sending, SendSucceeds(m) \/ SendFails(m)
    PROVE  Promise!Next
<1>1. m.to \in Sockets
  BY DEF TypeOK, Messages
<1>2. /\ sending' = sending \ {m} /\ UNCHANGED <<handler, log, joined>>
      /\ UNCHANGED delivered \/ Deliver(m)
  BY DEF SendSucceeds, SendFails
<1>3. Registered' = Registered \/ Registered' = Registered \ {m.to}
  <2>1. CASE SendSucceeds(m)
    BY <2>1 DEF SendSucceeds, Registered
  <2>2. CASE SendFails(m)
    BY <1>1, <2>2, DisconnectRegistered DEF SendFails, FeedInv
  <2>3. QED
    BY <2>1, <2>2
<1>4. Served' \in {Served, Served \ {m.to}}
  BY <1>2, <1>3, SendOver
<1>5. Fresh' = Fresh
  BY <1>2 DEF Fresh
<1>6. CASE UNCHANGED delivered
  BY <1>2, <1>4, <1>5, <1>6, GivesUp
<1>7. CASE Deliver(m)
  BY <1>2, <1>4, <1>5, <1>7, DeliverPromises
<1>8. QED
  BY <1>2, <1>6, <1>7

\* At a broadcast nothing is on its way, so that nobody misses anything.
LEMMA BroadcastPromises ==
    ASSUME TypeOK, FeedInv, NEW to \in Users \cup {"everyone"}, Broadcast(to)
    PROVE  Promise!Next
<1>1. /\ log' = Append(log, to) /\ sending' = [to : Recipients(to), event : {Len(log')}]
      /\ ~ broadcasting
      /\ UNCHANGED <<handler, connections, joined, delivered>>
  BY DEF Broadcast
<1>2. sending = {}
  BY <1>1 DEF FeedInv, SendsAreNext
<1>3. Registered' = Registered
  BY <1>1 DEF Registered
<1>4. Recipients(to) \subseteq Registered
  BY InRegistry DEF Recipients, SocketsOf
<1>5. {m.to : m \in sending'} \subseteq Registered
  BY <1>1, <1>4
<1>6. Served' = Served
  BY <1>2, <1>3, <1>5 DEF Served
<1>7. \A s \in Served : Promise!Missing(s) = {}
  <2>1. \A s \in Served : s \in Registered /\ s \in Sockets
    BY <1>2, RegisteredAreSockets DEF Served
  <2>2. QED
    BY <1>2, <2>1, MissingIs DEF FeedInv, RegisteredMissNothing
<1>8. Fresh' = Fresh
  BY <1>1 DEF Fresh
<1>9. Promise!Happen(to)
  BY <1>1, <1>6, <1>7, <1>8 DEF Promise!Happen, Served, Fresh
<1>10. QED
  BY <1>9 DEF Promise!Next

\* The endpoint of a socket, and the end of the process.
LEMMA EndpointPromises ==
    ASSUME TypeOK, FeedInv, NEW s \in Sockets, Endpoint(s)
    PROVE  Promise!Next
<1>1. UNCHANGED <<log, joined, delivered, sending>>
  BY DEF Endpoint, Greeted, GreetingFails, HandlerEnds, feedVars
<1>2. Fresh' = Fresh
  BY DEF Endpoint, Greeted, GreetingFails, HandlerEnds, Fresh, TypeOK
<1>3. Registered' \subseteq Registered
  <2>1. CASE HandlerEnds(s)
    BY <2>1, DisconnectRegistered DEF HandlerEnds, FeedInv
  <2>2. CASE Greeted(s) \/ GreetingFails(s)
    BY <2>2 DEF Greeted, GreetingFails, Registered
  <2>3. QED
    BY <2>1, <2>2 DEF Endpoint
<1>4. Served' \subseteq Served
  BY <1>1, <1>3 DEF Served
<1>5. QED
  BY <1>1, <1>2, <1>4, GivesUp

LEMMA ShutdownPromises == ASSUME Shutdown PROVE Promise!Next
<1>1. Registered' = {} /\ sending' = {}
  BY DEF Shutdown, Registered
<1>2. Served' \subseteq Served
  BY <1>1 DEF Served
<1>3. Fresh' = Fresh /\ UNCHANGED <<log, joined, delivered>>
  BY DEF Shutdown, Fresh
<1>4. QED
  BY <1>2, <1>3, GivesUp

LEMMA StepPromises ==
    ASSUME TypeOK, FeedInv, [Next]_vars
    PROVE  [Promise!Next]_(Promise!vars)
<1>1. CASE UNCHANGED <<handler, connections, joined, delivered, log, sending>>
  <2>1. Served' = Served /\ Fresh' = Fresh
    BY <1>1 DEF Served, Fresh, Registered
  <2>2. QED
    BY <1>1, <2>1 DEF Promise!vars, Served, Fresh
<1>2. ASSUME NEW s \in Sockets, ClientLeaves(s) \/ CloseFailed(s)
      PROVE  UNCHANGED <<handler, connections, joined, delivered, log, sending>>
  BY <1>2 DEF ClientLeaves, CloseFailed, feedVars
<1>3. EndBroadcast \/ UNCHANGED vars =>
         UNCHANGED <<handler, connections, joined, delivered, log, sending>>
  BY DEF EndBroadcast, vars, feedVars
<1>4. QED
  BY <1>1, <1>2, <1>3, ConnectPromises, EndpointPromises, SendPromises, BroadcastPromises,
     ShutdownPromises DEF Next

\* The feed keeps the promise of LiveFeed: a socket that has joined is handed the
\* events for its user one after the other, without a gap, until it is given up,
\* and nothing after that.
THEOREM PromiseIsKept == Spec => ImplementsFeed
<1>1. TypeOK /\ FeedInv /\ [Next]_vars => [Promise!Next]_(Promise!vars)
  BY StepPromises
<1>2. QED
  BY <1>1, InitPromises, TypeCorrect, FeedInvariant, PTL DEF Spec, ImplementsFeed, Promise!Spec
=============================================================================
