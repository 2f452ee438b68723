--------------------------- MODULE RecordsProofs ---------------------------
(***************************************************************************)
(* Proofs about Records, for any credentials, bots, orders and payloads,   *)
(* any number of handlers and of events, and any number of failures.       *)
(***************************************************************************)
EXTENDS Records, FiniteSetTheorems, SequenceTheorems, TLAPS

-----------------------------------------------------------------------------
(* Types, and the order of events.  What the subscriber holds and what      *)
(* waits are numbers of events that were sent, each later than those        *)
(* before it; what a handler carries has a type that its step has checked.  *)

\* Numbers of events, n so far, e the last one taken and w those waiting.
InOrder(n, e, w) ==
    /\ e \in 0..n
    /\ \A i \in DOMAIN w : w[i] \in 1..n /\ e < w[i]
    /\ \A i, k \in DOMAIN w : i < k => w[i] < w[k]

\* A handler that will insert a row carries a credential.
Sound(j) ==
    /\ j \in Jobs
    /\ j.pc \in {"validating", "accepted", "checked", "created"} => j.credential \in Credentials

Inv ==
    /\ TypeOK
    /\ InOrder(Len(sent), sub.event, waiting)
    /\ sub.pc # "idle" => sub.event \in Events
    /\ \A h \in Handlers : Sound(handler[h])

\* An event that is being handled is a payload.
LEMMA CurrentIsPayload ==
    ASSUME Inv, sub.pc # "idle"
    PROVE  /\ Current \in Payloads /\ Current \in Payload
           /\ Current.kind \in SnapshotKinds => Current.credential \in Credentials
BY RecordsAssumption DEF Inv, TypeOK, Events, Current

\* Appending the next number, and taking the first one, keep the order.
LEMMA AppendInOrder ==
    ASSUME NEW n \in Nat, NEW e, NEW w \in Seq(Nat), InOrder(n, e, w)
    PROVE  InOrder(n + 1, e, Append(w, n + 1))
<1> DEFINE v == Append(w, n + 1)
<1>1. /\ Len(v) = Len(w) + 1 /\ v[Len(v)] = n + 1 /\ DOMAIN v = 1..Len(v)
      /\ DOMAIN w = 1..Len(w) /\ Len(w) \in Nat
      /\ \A i \in 1..Len(w) : v[i] = w[i]
  OBVIOUS
<1> HIDE DEF v
<1>2. \A i \in DOMAIN v : i \in DOMAIN w \/ i = Len(v)
  BY <1>1
<1>3. e \in 0..(n + 1)
  BY DEF InOrder
<1>4. e \in 0..n /\ \A i \in DOMAIN w : w[i] \in 1..n /\ e < w[i]
  BY DEF InOrder
<1>5. ASSUME NEW i \in DOMAIN v PROVE v[i] \in 1..(n + 1) /\ e < v[i]
  <2>1. CASE i \in DOMAIN w
    <3>1. v[i] = w[i]
      BY <1>1, <2>1
    <3>2. QED
      BY <1>4, <2>1, <3>1
  <2>2. CASE i = Len(v)
    BY <1>1, <1>4, <2>2
  <2>3. QED
    BY <1>2, <2>1, <2>2
<1>6. ASSUME NEW i \in DOMAIN v, NEW k \in DOMAIN v, i < k PROVE v[i] < v[k]
  <2>1. /\ i \in DOMAIN w /\ i \in 1..Len(w) /\ v[i] = w[i]
        /\ w[i] \in 1..n
    BY <1>1, <1>2, <1>4, <1>6
  <2>2. CASE k \in DOMAIN w
    <3>1. v[k] = w[k]
      BY <1>1, <2>2
    <3>2. w[i] < w[k]
      BY <1>6, <2>1, <2>2 DEF InOrder
    <3>3. QED
      BY <2>1, <3>1, <3>2
  <2>3. CASE k = Len(v)
    BY <1>1, <2>1, <2>3
  <2>4. QED
    BY <1>2, <2>2, <2>3
<1>7. QED
  BY <1>3, <1>5, <1>6 DEF InOrder, v

LEMMA TailInOrder ==
    ASSUME NEW n \in Nat, NEW e, NEW w \in Seq(Nat), w # <<>>, InOrder(n, e, w)
    PROVE  InOrder(n, Head(w), Tail(w)) /\ Head(w) \in 1..n /\ e < Head(w)
<1> DEFINE v == Tail(w)
<1>1. /\ Len(v) = Len(w) - 1 /\ DOMAIN v = 1..Len(v) /\ DOMAIN w = 1..Len(w)
      /\ Len(w) \in Nat /\ Len(w) >= 1 /\ Head(w) = w[1]
  OBVIOUS
<1>7. \A i \in 1..Len(v) : v[i] = w[i + 1]
  OBVIOUS
<1> HIDE DEF v
<1>2. w[1] \in 1..n /\ e < w[1]
  BY <1>1 DEF InOrder
<1>3. \A i \in DOMAIN v : i + 1 \in DOMAIN w /\ v[i] = w[i + 1] /\ 1 < i + 1
  BY <1>1, <1>7
<1>4. ASSUME NEW i \in DOMAIN v PROVE v[i] \in 1..n /\ w[1] < v[i]
  <2>1. i + 1 \in DOMAIN w /\ 1 \in DOMAIN w /\ v[i] = w[i + 1] /\ 1 < i + 1
    BY <1>1, <1>3
  <2>2. QED
    BY <2>1 DEF InOrder
<1>5. ASSUME NEW i \in DOMAIN v, NEW k \in DOMAIN v, i < k PROVE v[i] < v[k]
  <2>1. i + 1 < k + 1
    BY <1>1, <1>5
  <2>2. /\ i + 1 \in DOMAIN w /\ k + 1 \in DOMAIN w
        /\ v[i] = w[i + 1] /\ v[k] = w[k + 1]
    BY <1>3
  <2>3. QED
    BY <2>1, <2>2 DEF InOrder
<1>6. QED
  BY <1>1, <1>2, <1>4, <1>5 DEF InOrder, v

LEMMA EmptyInOrder == ASSUME NEW n \in Nat, NEW e \in 0..n PROVE InOrder(n, e, <<>>)
BY DEF InOrder

LEMMA IdleSound == Idle \in Jobs /\ Sound(Idle)
BY DEF Idle, Jobs, Sound

\* One handler moves on, the others stay where they are.
LEMMA BecomeSound ==
    ASSUME Inv, NEW h \in Handlers, NEW j, Become(h, j), Sound(j)
    PROVE  handler' \in [Handlers -> Jobs] /\ \A g \in Handlers : Sound(handler'[g])
<1>1. handler' = [handler EXCEPT ![h] = j] /\ handler \in [Handlers -> Jobs]
  BY DEF Become, Inv, TypeOK
<1>2. \A g \in Handlers : handler'[g] = IF g = h THEN j ELSE handler[g]
  BY <1>1
<1>3. QED
  BY <1>1, <1>2 DEF Inv, Sound

\* It goes to another step of the same request.
LEMMA StepSound ==
    ASSUME Inv, NEW h \in Handlers, NEW pc \in {"accepted", "created"}, GoTo(h, pc),
           handler[h].pc \in {"validating", "accepted", "checked"}
    PROVE  handler' \in [Handlers -> Jobs] /\ \A g \in Handlers : Sound(handler'[g])
<1> DEFINE j == [handler[h] EXCEPT !.pc = pc]
<1>1. handler[h] \in Jobs /\ handler[h].credential \in Credentials
  BY DEF Inv, Sound
<1>2. j \in Jobs /\ j.credential = handler[h].credential /\ j.pc = pc
  BY <1>1 DEF Jobs
<1>3. Sound(j) /\ Become(h, j)
  BY <1>1, <1>2 DEF Sound, GoTo
<1> HIDE DEF j
<1>4. QED
  BY <1>3, BecomeSound

LEMMA InitInv == ASSUME Init PROVE Inv
<1>1. <<>> \in Seq(Payloads) /\ <<>> \in Seq(Nat) /\ Len(<<>>) = 0
  OBVIOUS
<1>2. InOrder(0, 0, <<>>)
  BY EmptyInOrder
<1>3. sub = [pc |-> "idle", event |-> 0, found |-> FALSE] /\ sub.event = 0 /\ sub.pc = "idle"
  BY DEF Init
<1>4. /\ credentials \subseteq Credentials \cap known /\ bots \subseteq BotRows
      /\ orders \subseteq OrderRows /\ snapshots \subseteq SnapshotRows
      /\ strategyErrors \subseteq ErrorRows /\ known \subseteq Credentials \cup Bots
  BY DEF Init
<1>5. handler \in [Handlers -> Jobs] /\ \A h \in Handlers : Sound(handler[h])
  BY IdleSound DEF Init
<1>6. sub \in [pc : {"idle", "resolve", "write", "push", "commit", "beat"},
              event : Nat, found : BOOLEAN]
  BY <1>3
<1>7. TypeOK
  BY <1>1, <1>4, <1>5, <1>6 DEF Init, TypeOK
<1>8. QED
  BY <1>1, <1>2, <1>3, <1>5, <1>7 DEF Init, Inv

\* The subscriber goes to another step, with or without another finding.
LEMMA SubType ==
    ASSUME Inv, NEW pc \in {"idle", "resolve", "write", "push", "commit", "beat"},
           NEW f \in BOOLEAN, sub.pc # "idle"
    PROVE  /\ [sub EXCEPT !.found = f, !.pc = pc] \in
                  [pc : {"idle", "resolve", "write", "push", "commit", "beat"},
                   event : Nat, found : BOOLEAN]
           /\ [sub EXCEPT !.found = f, !.pc = pc].event = sub.event
           /\ [sub EXCEPT !.found = f, !.pc = pc].pc = pc
           /\ [sub EXCEPT !.found = f, !.pc = pc].found = f
           /\ [sub EXCEPT !.pc = pc] \in
                  [pc : {"idle", "resolve", "write", "push", "commit", "beat"},
                   event : Nat, found : BOOLEAN]
           /\ [sub EXCEPT !.pc = pc].event = sub.event
           /\ [sub EXCEPT !.pc = pc].pc = pc
           /\ [sub EXCEPT !.pc = pc].found = sub.found
BY DEF Inv, TypeOK

\* What the subscriber becomes next, in any step that goes on with the same event.
Same ==
    /\ sub' \in [pc : {"idle", "resolve", "write", "push", "commit", "beat"},
                 event : Nat, found : BOOLEAN]
    /\ sub'.event = sub.event

LEMMA EndedSame ==
    ASSUME Inv, sub.pc # "idle", sub' = Ended
    PROVE  Same /\ sub'.pc \in {"idle", "beat"} /\ sub'.found = sub.found
<1>1. CASE Current.kind = "status"
  <2>1. sub' = [sub EXCEPT !.pc = "beat"]
    BY <1>1 DEF Ended
  <2>2. /\ sub' \in [pc : {"idle", "resolve", "write", "push", "commit", "beat"},
                   event : Nat, found : BOOLEAN]
        /\ sub'.event = sub.event /\ sub'.pc = "beat" /\ sub'.found = sub.found
    BY <2>1 DEF Inv, TypeOK
  <2>3. QED
    BY <2>2 DEF Same
<1>2. CASE Current.kind # "status"
  <2>1. sub' = [sub EXCEPT !.pc = "idle"]
    BY <1>2 DEF Ended
  <2>2. /\ sub' \in [pc : {"idle", "resolve", "write", "push", "commit", "beat"},
                   event : Nat, found : BOOLEAN]
        /\ sub'.event = sub.event /\ sub'.pc = "idle" /\ sub'.found = sub.found
    BY <2>1 DEF Inv, TypeOK
  <2>3. QED
    BY <2>2 DEF Same
<1>3. QED
  BY <1>1, <1>2

LEMMA GoOnSame ==
    ASSUME Inv, sub.pc # "idle", NEW f \in BOOLEAN,
           NEW pc \in {"idle", "resolve", "write", "push", "commit", "beat"},
           sub' = [sub EXCEPT !.found = f, !.pc = pc]
    PROVE  Same /\ sub'.found = f /\ sub'.pc = pc
<1>1. sub \in [pc : {"idle", "resolve", "write", "push", "commit", "beat"},
               event : Nat, found : BOOLEAN]
  BY DEF Inv, TypeOK
<1>2. sub'.pc = pc /\ sub'.found = f /\ sub'.event = sub.event
  BY <1>1
<1>3. sub' \in [pc : {"idle", "resolve", "write", "push", "commit", "beat"},
                event : Nat, found : BOOLEAN]
  BY <1>1
<1>4. QED
  BY <1>2, <1>3 DEF Same

LEMMA MembershipIsBoolean == \A x, S : (x \in S) \in BOOLEAN
OBVIOUS

LEMMA FoundIsBoolean == IsThere(Current) \in BOOLEAN
<1>1. CASE Current.kind \in SnapshotKinds
  <2>1. IsThere(Current) = (Current.credential \in credentials)
    BY <1>1 DEF IsThere
  <2>2. QED
    BY <2>1, MembershipIsBoolean
<1>2. CASE Current.kind \notin SnapshotKinds
  <2>1. IsThere(Current) = (Current.bot \in BotIds)
    BY <1>2 DEF IsThere
  <2>2. QED
    BY <2>1, MembershipIsBoolean
<1>3. QED
  BY <1>1, <1>2

LEMMA ResolveSame ==
    ASSUME Inv, Resolve
    PROVE  /\ Same /\ sub'.found = IsThere(Current)
           /\ sub'.pc = IF Current.kind = "status" THEN "commit" ELSE "write"
<1> DEFINE pc == IF Current.kind = "status" THEN "commit" ELSE "write"
           f  == IsThere(Current)
<1>1. pc \in {"idle", "resolve", "write", "push", "commit", "beat"} /\ f \in BOOLEAN
  BY FoundIsBoolean
<1>2. sub' = [sub EXCEPT !.found = f, !.pc = pc] /\ sub.pc = "resolve"
  BY DEF Resolve
<1> HIDE DEF pc, f
<1>3. Same /\ sub'.found = f /\ sub'.pc = pc
  BY <1>1, <1>2, GoOnSame
<1>4. QED
  BY <1>3 DEF pc, f

\* Either the transaction fails, or its rows are as the code has found them.
LEMMA WriteRowsSame ==
    ASSUME Inv, WriteRows
    PROVE  /\ Same
           /\ \/ Fails /\ sub' = Ended
              \/ /\ ~ Fails
                 /\ sub'.found = IF Current.kind \in SnapshotKinds THEN IsThere(Current)
                                 ELSE sub.found
                 /\ sub'.pc = IF sub'.found THEN "push" ELSE "commit"
<1> DEFINE f  == IF Current.kind \in SnapshotKinds THEN IsThere(Current) ELSE sub.found
           pc == IF f THEN "push" ELSE "commit"
<1>1. pc \in {"idle", "resolve", "write", "push", "commit", "beat"} /\ f \in BOOLEAN
  BY FoundIsBoolean DEF Inv, TypeOK
<1>2. sub.pc = "write"
  BY DEF WriteRows
<1>3. CASE Fails
  <2>1. sub' = Ended
    BY <1>3 DEF WriteRows
  <2>2. QED
    BY <1>2, <1>3, <2>1, EndedSame
<1>4. CASE ~ Fails
  <2>1. sub' = [sub EXCEPT !.found = f, !.pc = pc]
    BY <1>4 DEF WriteRows
  <2> HIDE DEF pc, f
  <2>2. Same /\ sub'.found = f /\ sub'.pc = pc
    BY <1>1, <1>2, <2>1, GoOnSame
  <2>3. QED
    BY <1>4, <2>2 DEF pc, f
<1>5. QED
  BY <1>3, <1>4

\* A step of the subscriber within an event keeps what Inv says of events.
LEMMA SameInv ==
    ASSUME Inv, sub.pc # "idle", Same, UNCHANGED <<sent, waiting>>
    PROVE  /\ sub' \in [pc : {"idle", "resolve", "write", "push", "commit", "beat"},
                        event : Nat, found : BOOLEAN]
           /\ InOrder(Len(sent)', sub'.event, waiting')
           /\ sub'.pc # "idle" => sub'.event \in Events'
           /\ Events' = Events
BY DEF Inv, Same, Events

\* Rows are written with the types of the event they are about.
LEMMA CommitTypes ==
    ASSUME Inv, sub.pc = "commit"
    PROVE  /\ Current.kind = "new_trade" => UpsertedOrders \subseteq OrderRows
           /\ InsertedErrors \subseteq ErrorRows
           /\ Current.kind \in SnapshotKinds => InsertedSnapshots \subseteq SnapshotRows
<1>1. /\ Current.bot \in Bots \cup {NoBot} /\ Current.order \in Orders \cup {Nothing}
      /\ Current.items \subseteq Items
      /\ Current.kind \in SnapshotKinds => Current.credential \in Credentials
      /\ sub.event \in Nat
      /\ BotToWrite \in Bots \cup {NoBot}
  BY CurrentIsPayload DEF Payload, Inv, TypeOK, BotToWrite
<1>2. orders \subseteq OrderRows /\ strategyErrors \subseteq ErrorRows /\ snapshots \subseteq SnapshotRows
  BY DEF Inv, TypeOK
<1>3. [first |-> sub.event, last |-> sub.event, order |-> Current.order, bot |-> BotToWrite] \in OrderRows
  BY <1>1 DEF OrderRows
<1>4. \A r \in orders : [r EXCEPT !.last = sub.event] \in OrderRows
  BY <1>1, <1>2 DEF OrderRows
<1>5. UpsertedOrders \subseteq OrderRows
  BY <1>2, <1>3, <1>4 DEF UpsertedOrders
<1>6. InsertedErrors \subseteq ErrorRows
  BY <1>1, <1>2 DEF InsertedErrors, ErrorRows
<1>7. ASSUME Current.kind \in SnapshotKinds PROVE InsertedSnapshots \subseteq SnapshotRows
  <2>1. \A i \in Current.items \ Current.bad :
            [event |-> sub.event, credential |-> Current.credential, item |-> i] \in SnapshotRows
    BY <1>1, <1>7 DEF SnapshotRows
  <2>2. QED
    BY <1>2, <2>1 DEF InsertedSnapshots
<1>8. QED
  BY <1>5, <1>6, <1>7

\* The steps of the subscriber.
SubscriberSteps ==
    Subscriber \/ RollBack \/ Disconnect

LEMMA SubscriberInv == ASSUME Inv, SubscriberSteps PROVE Inv'
<1> USE DEF rowVars, requestVars
<1>1. CASE TakeEvent
  <2>1. waiting \in Seq(Nat) /\ Len(sent) \in Nat
    BY DEF Inv, TypeOK
  <2>2. waiting # <<>> /\ waiting' = Tail(waiting) /\ UNCHANGED sent
    BY <1>1 DEF TakeEvent
  <2>3. InOrder(Len(sent), Head(waiting), Tail(waiting)) /\ Head(waiting) \in 1..Len(sent)
    BY <2>1, <2>2, TailInOrder DEF Inv
  <2>4. Tail(waiting) \in Seq(Nat)
    BY <2>1, <2>2
  <2>5. sub' = [pc |-> "resolve", event |-> Head(waiting), found |-> FALSE]
    BY <1>1 DEF TakeEvent
  <2>6. /\ sub' \in [pc : {"idle", "resolve", "write", "push", "commit", "beat"},
                     event : Nat, found : BOOLEAN]
        /\ sub'.event = Head(waiting)
    BY <2>3, <2>5
  <2>7. QED
    BY <1>1, <2>2, <2>3, <2>4, <2>6 DEF TakeEvent, Inv, TypeOK, Events
<1>2. CASE Resolve
  <2>1. Same /\ sub.pc # "idle"
    BY <1>2, ResolveSame DEF Resolve
  <2>2. QED
    BY <1>2, <2>1, SameInv DEF Resolve, Inv, TypeOK
<1>3. CASE WriteRows
  <2>1. Same /\ sub.pc # "idle"
    BY <1>3, WriteRowsSame DEF WriteRows
  <2>2. QED
    BY <1>3, <2>1, SameInv DEF WriteRows, Inv, TypeOK
<1>4. CASE Push
  <2>1. Same /\ sub.pc # "idle"
    BY <1>4, SubType DEF Push, Same
  <2>2. sub.event \in Events
    BY <2>1 DEF Inv
  <2>3. QED
    BY <1>4, <2>1, <2>2, SameInv DEF Push, Inv, TypeOK
<1>5. CASE CommitRows
  <2>1. Same /\ sub.pc = "commit"
    BY <1>5, EndedSame DEF CommitRows
  <2>2. sub.event \in Events
    BY <2>1 DEF Inv
  <2>3. /\ orders' \subseteq OrderRows /\ strategyErrors' \subseteq ErrorRows
        /\ snapshots' \subseteq SnapshotRows
    BY <1>5, <2>1, CommitTypes DEF CommitRows, Inv, TypeOK
  <2>4. QED
    BY <1>5, <2>1, <2>2, <2>3, SameInv DEF CommitRows, Inv, TypeOK
<1>6. CASE SetHeartbeat
  <2>1. Same /\ sub.pc # "idle"
    BY <1>6, SubType DEF SetHeartbeat, Same
  <2>2. QED
    BY <1>6, <2>1, SameInv DEF SetHeartbeat, Inv, TypeOK
<1>7. CASE Resubscribe
  BY <1>7 DEF Resubscribe, Inv, TypeOK, Events
<1>8. CASE RollBack
  <2>1. Same /\ sub.pc # "idle"
    BY <1>8, EndedSame DEF RollBack
  <2>2. QED
    BY <1>8, <2>1, SameInv DEF RollBack, Fault, Inv, TypeOK
<1>9. CASE Disconnect
  <2>1. sub' = [sub EXCEPT !.pc = "idle"] /\ waiting' = <<>> /\ UNCHANGED sent
    BY <1>9 DEF Disconnect
  <2>2. /\ sub' \in [pc : {"idle", "resolve", "write", "push", "commit", "beat"},
                     event : Nat, found : BOOLEAN]
        /\ sub'.event = sub.event /\ sub'.pc = "idle"
    BY <2>1 DEF Inv, TypeOK
  <2>3. InOrder(Len(sent), sub.event, <<>>) /\ <<>> \in Seq(Nat)
    BY EmptyInOrder DEF Inv, InOrder, TypeOK
  <2>4. faults' \in Nat /\ Events' = Events
    BY <1>9, <2>1 DEF Disconnect, Fault, Inv, TypeOK, Events
  <2>5. TypeOK'
    BY <1>9, <2>1, <2>2, <2>3, <2>4 DEF Disconnect, Inv, TypeOK
  <2>6. InOrder(Len(sent)', sub'.event, waiting')
    BY <2>1, <2>2, <2>3
  <2>7. QED
    BY <1>9, <2>2, <2>5, <2>6 DEF Disconnect, Inv
<1>10. QED
  BY <1>1, <1>2, <1>3, <1>4, <1>5, <1>6, <1>7, <1>8, <1>9 DEF SubscriberSteps, Subscriber

LEMMA PublishInv == ASSUME Inv, NEW p \in Payloads, Publish(p) PROVE Inv'
<1> USE DEF rowVars, requestVars
<1>1. sent \in Seq(Payloads) /\ waiting \in Seq(Nat) /\ Len(sent) \in Nat
  BY DEF Inv, TypeOK
<1>2. sent' = Append(sent, p) /\ UNCHANGED <<sub, handler>>
  BY DEF Publish
<1>3. sent' \in Seq(Payloads) /\ Len(sent') = Len(sent) + 1
  BY <1>1, <1>2
<1>4. Events \subseteq Events' /\ Len(sent') \in Nat
  BY <1>1, <1>3 DEF Events
<1>5. waiting' \in Seq(Nat) /\ InOrder(Len(sent'), sub.event, waiting')
  <2>1. CASE subscribed
    <3>1. waiting' = Append(waiting, Len(sent) + 1)
      BY <2>1 DEF Publish
    <3>2. InOrder(Len(sent) + 1, sub.event, Append(waiting, Len(sent) + 1))
      BY <1>1, AppendInOrder DEF Inv
    <3>3. QED
      BY <1>1, <1>3, <3>1, <3>2
  <2>2. CASE ~ subscribed
    <3>1. waiting' = waiting
      BY <2>2 DEF Publish
    <3>2. QED
      BY <1>1, <1>3, <3>1 DEF Inv, InOrder
  <2>3. QED
    BY <2>1, <2>2
<1>6. pushed' \subseteq Events' /\ recorded' \subseteq Events'
  BY <1>4 DEF Publish, Inv, TypeOK
<1>7. TypeOK'
  BY <1>3, <1>5, <1>6 DEF Publish, Inv, TypeOK
<1>8. QED
  BY <1>2, <1>3, <1>4, <1>5, <1>7 DEF Inv

\* Requests leave the events alone.
LEMMA RequestKeepsEvents ==
    ASSUME Inv, NEW h \in Handlers, Request(h)
    PROVE  /\ UNCHANGED <<sent, waiting, subscribed, sub, heartbeat, pushed, recorded>>
           /\ Events' = Events
           /\ UNCHANGED faults \/ Fault
<1> USE DEF eventVars
<1>1. UNCHANGED <<sent, waiting, subscribed, sub, heartbeat, pushed, recorded>> /\ (UNCHANGED faults \/ Fault)
  BY DEF Request, PostCredential, DeleteCredential, DeleteBot, PostBot, ValidateKeys,
         InsertCredential, CommitCredential, InsertBot, CommitBot, CommitDeleteCredential,
         CommitDeleteBot, AbortRequest
<1>2. QED
  BY <1>1 DEF Events

\* The handlers keep their types.
LEMMA RequestSound ==
    ASSUME Inv, NEW h \in Handlers, Request(h)
    PROVE  handler' \in [Handlers -> Jobs] /\ \A g \in Handlers : Sound(handler'[g])
<1>1. ASSUME NEW c \in Credentials, PostCredential(h, c)
      PROVE  handler' \in [Handlers -> Jobs] /\ \A g \in Handlers : Sound(handler'[g])
  <2> DEFINE j == [Idle EXCEPT !.pc = "validating", !.credential = c]
  <2>1. j \in Jobs /\ j.pc = "validating" /\ j.credential = c
    BY IdleSound DEF Jobs
  <2>2. Sound(j) /\ Become(h, j)
    BY <1>1, <2>1 DEF Sound, PostCredential
  <2> HIDE DEF j
  <2>3. QED
    BY <2>2, BecomeSound
<1>2. ASSUME NEW c \in Credentials, DeleteCredential(h, c)
      PROVE  handler' \in [Handlers -> Jobs] /\ \A g \in Handlers : Sound(handler'[g])
  <2> DEFINE j == [Idle EXCEPT !.pc = "deleting", !.credential = c]
  <2>1. j \in Jobs /\ j.pc = "deleting"
    BY IdleSound DEF Jobs
  <2>2. Sound(j) /\ Become(h, j)
    BY <1>2, <2>1 DEF Sound, DeleteCredential
  <2> HIDE DEF j
  <2>3. QED
    BY <2>2, BecomeSound
<1>3. ASSUME NEW b \in Bots, DeleteBot(h, b)
      PROVE  handler' \in [Handlers -> Jobs] /\ \A g \in Handlers : Sound(handler'[g])
  <2> DEFINE j == [Idle EXCEPT !.pc = "deleting", !.bot = b]
  <2>1. j \in Jobs /\ j.pc = "deleting"
    BY IdleSound DEF Jobs
  <2>2. Sound(j) /\ Become(h, j)
    BY <1>3, <2>1 DEF Sound, DeleteBot
  <2> HIDE DEF j
  <2>3. QED
    BY <2>2, BecomeSound
<1>4. ASSUME NEW b \in Bots, NEW c \in Credentials, PostBot(h, b, c)
      PROVE  handler' \in [Handlers -> Jobs] /\ \A g \in Handlers : Sound(handler'[g])
  <2> DEFINE j == [pc |-> "checked", credential |-> c, bot |-> b]
  <2>1. Sound(j) /\ Become(h, j)
    BY <1>4 DEF Sound, Jobs, PostBot
  <2> HIDE DEF j
  <2>2. QED
    BY <2>1, BecomeSound
<1>5. CASE Become(h, Idle)
  BY <1>5, IdleSound, BecomeSound
<1>6. CASE ValidateKeys(h) \/ InsertCredential(h) \/ InsertBot(h)
  <2>1. \/ Become(h, Idle)
        \/ /\ handler[h].pc \in {"validating", "accepted", "checked"}
           /\ GoTo(h, "accepted") \/ GoTo(h, "created")
    BY <1>6 DEF ValidateKeys, InsertCredential, InsertBot
  <2>2. QED
    BY <1>5, <2>1, StepSound
<1>7. QED
  BY <1>1, <1>2, <1>3, <1>4, <1>5, <1>6
  DEF Request, CommitCredential, CommitBot, CommitDeleteCredential, CommitDeleteBot, AbortRequest

LEMMA RequestInv == ASSUME Inv, NEW h \in Handlers, Request(h) PROVE Inv'
<1> USE DEF rowVars
<1>1. /\ UNCHANGED <<sent, waiting, subscribed, sub, heartbeat, pushed, recorded, Events>>
      /\ UNCHANGED faults \/ Fault
  BY RequestKeepsEvents
<1>2. handler' \in [Handlers -> Jobs] /\ \A g \in Handlers : Sound(handler'[g])
  BY RequestSound
<1>3. handler[h] \in Jobs
  BY DEF Inv, TypeOK
<1>4. faults' \in Nat
  BY <1>1 DEF Fault, Inv, TypeOK
<1>5. /\ credentials' \subseteq Credentials \cap known'
      /\ bots' \subseteq BotRows
      /\ orders' \subseteq OrderRows
      /\ snapshots' \subseteq SnapshotRows
      /\ strategyErrors' \subseteq ErrorRows
      /\ known' \subseteq Credentials \cup Bots
  <2>1. CASE UNCHANGED <<rowVars, known>>
    BY <2>1 DEF Inv, TypeOK
  <2>2. CASE CommitCredential(h)
    <3>1. handler[h].credential \in Credentials
      BY <2>2 DEF CommitCredential, Inv, Sound
    <3>2. QED
      BY <2>2, <3>1 DEF CommitCredential, Inv, TypeOK
  <2>3. CASE CommitBot(h)
    <3>1. handler[h].credential \in Credentials /\ handler[h].bot \in Bots
      BY <1>3, <2>3 DEF CommitBot, Inv, Sound, Jobs
    <3>2. [id |-> handler[h].bot, credential |-> handler[h].credential] \in BotRows
      BY <3>1 DEF BotRows
    <3>3. QED
      BY <2>3, <3>1, <3>2 DEF CommitBot, Inv, TypeOK
  <2>4. CASE CommitDeleteCredential(h)
    BY <2>4 DEF CommitDeleteCredential, Inv, TypeOK
  <2>5. CASE CommitDeleteBot(h)
    <3>1. \A r \in OrderRows : [r EXCEPT !.bot = NoBot] \in OrderRows
      BY DEF OrderRows
    <3>2. \A r \in ErrorRows : [r EXCEPT !.bot = NoBot] \in ErrorRows
      BY DEF ErrorRows
    <3>3. QED
      BY <2>5, <3>1, <3>2 DEF CommitDeleteBot, Inv, TypeOK
  <2>6. QED
    BY <2>1, <2>2, <2>3, <2>4, <2>5
    DEF Request, PostCredential, DeleteCredential, DeleteBot, PostBot, ValidateKeys,
        InsertCredential, InsertBot, AbortRequest
<1>6. TypeOK'
  BY <1>1, <1>2, <1>4, <1>5 DEF Inv, TypeOK
<1>7. QED
  BY <1>1, <1>2, <1>6 DEF Inv

LEMMA NextInv == ASSUME Inv, [Next]_vars PROVE Inv'
<1>1. CASE ExpireHeartbeat
  BY <1>1 DEF ExpireHeartbeat, Inv, TypeOK, Events, rowVars, requestVars
<1>2. CASE UNCHANGED vars
  BY <1>2 DEF vars, rowVars, requestVars, eventVars, Inv, TypeOK, Events
<1>3. QED
  BY <1>1, <1>2, SubscriberInv, PublishInv, RequestInv DEF Next, SubscriberSteps

LEMMA InvHolds == Spec => []Inv
<1>1. Init => Inv
  BY InitInv
<1>2. Inv /\ [Next]_vars => Inv'
  BY NextInv
<1>3. QED
  BY <1>1, <1>2, PTL DEF Spec

\* Every variable keeps its type: only known ids have rows, and only events that
\* were sent are handled, pushed and recorded.
THEOREM TypeCorrect == Spec => []TypeOK
<1>1. Inv => TypeOK
  BY DEF Inv
<1>2. QED
  BY <1>1, InvHolds, PTL

-----------------------------------------------------------------------------
(* Foreign and unique keys.  A row is written some steps before it is       *)
(* committed: in between its handler, or the subscriber, relies on the rows *)
(* it refers to, and a DELETE of one of them waits.                         *)

\* The subscriber's transaction, once it has written.
Referring ==
    sub.pc \in {"push", "commit"} =>
        /\ Current.kind \in SnapshotKinds /\ Current.items # {} => Current.credential \in credentials
        /\ Current.kind \in {"new_trade", "strategy_error"} /\ sub.found => Current.bot \in BotIds

\* A handler that has inserted a bot holds its credential; a credential is posted
\* without a bot.
InsertingOne(j, C) ==
    /\ j.pc = "created" /\ j.bot # NoBot => j.credential \in C
    /\ j.pc \in {"validating", "accepted"} => j.bot = NoBot
Inserting == \A h \in Handlers : InsertingOne(handler[h], credentials)

KeysInv == KeysHold /\ Referring /\ Inserting

LEMMA IdleInserts == ASSUME NEW C PROVE InsertingOne(Idle, C)
BY DEF InsertingOne, Idle

LEMMA BecomeInserting ==
    ASSUME Inv, Inserting, NEW h \in Handlers, NEW j, Become(h, j),
           credentials \subseteq credentials', InsertingOne(j, credentials')
    PROVE  Inserting'
<1>1. \A g \in Handlers : handler'[g] = IF g = h THEN j ELSE handler[g]
  BY DEF Become, Inv, TypeOK
<1>2. QED
  BY <1>1 DEF Inserting, InsertingOne

\* As long as an event is being handled, it stays the same event.
LEMMA CurrentStays ==
    ASSUME Inv, sub.pc # "idle", Same, UNCHANGED sent
    PROVE  Current' = Current
BY DEF Same, Current

LEMMA SubscriberKeys == ASSUME Inv, KeysInv, SubscriberSteps PROVE KeysInv'
<1> USE DEF rowVars, requestVars
<1>1. Inserting'
  <2>1. UNCHANGED <<handler, credentials>>
    BY DEF SubscriberSteps, Subscriber, TakeEvent, Resolve, WriteRows, Push, CommitRows,
           SetHeartbeat, Resubscribe, RollBack, Disconnect
  <2>2. QED
    BY <2>1 DEF KeysInv, Inserting
<1>2. CASE UNCHANGED rowVars /\ Referring'
  <2>1. BotIds' = BotIds
    BY <1>2 DEF BotIds
  <2>2. KeysHold'
    BY <1>2, <2>1 DEF KeysInv, KeysHold
  <2>3. QED
    BY <1>1, <1>2, <2>2 DEF KeysInv
<1>3. CASE TakeEvent
  <2>1. sub'.pc = "resolve" /\ UNCHANGED rowVars
    BY <1>3 DEF TakeEvent
  <2>2. QED
    BY <1>2, <2>1 DEF Referring
<1>4. CASE Resolve
  <2>1. Same /\ sub'.pc = (IF Current.kind = "status" THEN "commit" ELSE "write")
    BY <1>4, ResolveSame
  <2>2. Current' = Current /\ UNCHANGED rowVars
    BY <1>4, <2>1, CurrentStays DEF Resolve
  <2>3. Referring'
    BY <2>1, <2>2 DEF Referring, SnapshotKinds
  <2>4. QED
    BY <1>2, <2>2, <2>3
<1>5. CASE WriteRows
  <2>1. Same /\ sub.pc # "idle" /\ UNCHANGED <<rowVars, sent>>
    BY <1>5, WriteRowsSame DEF WriteRows
  <2>2. Current' = Current /\ BotIds' = BotIds
    BY <2>1, CurrentStays DEF BotIds
  <2>3. CASE sub' = Ended
    <3>1. sub'.pc \in {"idle", "beat"}
      BY <2>1, <2>3, EndedSame
    <3>2. QED
      BY <1>2, <2>1, <3>1 DEF Referring
  <2>4. CASE /\ ~ Fails
             /\ sub'.found = IF Current.kind \in SnapshotKinds THEN IsThere(Current) ELSE sub.found
    <3>1. ~ Dangling
      BY <2>4 DEF Fails
    <3>2. Current.kind \in SnapshotKinds /\ Current.items # {} => Current.credential \in credentials
      BY <3>1 DEF Dangling, IsThere
    <3>3. ASSUME Current.kind \in {"new_trade", "strategy_error"}, sub'.found
          PROVE  Current.bot \in BotIds
      <4>1. Current.kind \notin SnapshotKinds
        BY <3>3 DEF SnapshotKinds
      <4>2. IsThere(Current)
        BY <2>4, <3>1, <3>3, <4>1 DEF Dangling
      <4>3. QED
        BY <4>1, <4>2 DEF IsThere
    <3>4. Referring'
      BY <2>1, <2>2, <3>2, <3>3 DEF Referring
    <3>5. QED
      BY <1>2, <2>1, <3>4
  <2>5. QED
    BY <1>5, <2>3, <2>4, WriteRowsSame
<1>6. CASE Push
  <2>1. Same /\ sub.pc = "push" /\ sub'.found = sub.found /\ UNCHANGED <<rowVars, sent>>
    BY <1>6, SubType DEF Push, Same
  <2>2. Current' = Current /\ BotIds' = BotIds
    BY <2>1, CurrentStays DEF BotIds
  <2>3. Referring'
    BY <2>1, <2>2 DEF KeysInv, Referring
  <2>4. QED
    BY <1>2, <2>1, <2>3
<1>7. CASE CommitRows
  <2>1. sub'.pc \in {"idle", "beat"} /\ sub.pc = "commit"
    BY <1>7, EndedSame DEF CommitRows
  <2>2. UNCHANGED <<credentials, bots, BotIds>>
    BY <1>7 DEF CommitRows, BotIds
  <2>3. Current.kind \in {"new_trade", "strategy_error"} => BotToWrite \in BotIds \cup {NoBot}
    BY <2>1 DEF KeysInv, Referring, BotToWrite
  <2>4. \A r \in orders' : r.bot \in BotIds \cup {NoBot}
    <3>1. CASE Current.kind # "new_trade"
      BY <1>7, <3>1 DEF CommitRows, KeysInv, KeysHold
    <3>2. CASE Current.kind = "new_trade"
      <4>1. orders' = UpsertedOrders
        BY <1>7, <3>2 DEF CommitRows
      <4>2. \A r \in orders : [r EXCEPT !.last = sub.event].bot = r.bot
        BY DEF Inv, TypeOK, OrderRows
      <4>3. \A r \in orders : r.bot \in BotIds \cup {NoBot}
        BY DEF KeysInv, KeysHold
      <4>4. ASSUME NEW r \in UpsertedOrders PROVE r.bot \in BotIds \cup {NoBot}
        <5>1. \/ r \in orders
              \/ r.bot = BotToWrite
              \/ \E q \in orders : r = [q EXCEPT !.last = sub.event]
          BY <4>4 DEF UpsertedOrders
        <5>2. QED
          BY <2>3, <3>2, <4>2, <4>3, <5>1
      <4>5. QED
        BY <4>1, <4>4
    <3>3. QED
      BY <3>1, <3>2
  <2>5. \A r \in strategyErrors' : r.bot \in BotIds \cup {NoBot}
    BY <1>7, <2>3 DEF CommitRows, InsertedErrors, KeysInv, KeysHold
  <2>6. \A r \in snapshots' : r.credential \in credentials
    BY <1>7, <2>1 DEF CommitRows, InsertedSnapshots, KeysInv, KeysHold, Referring
  <2>7. \A r, q \in orders' : r.order = q.order /\ r.bot = q.bot /\ r.bot # NoBot => r = q
    <3>1. CASE Current.kind # "new_trade"
      BY <1>7, <3>1 DEF CommitRows, KeysInv, KeysHold
    <3>2. CASE Current.kind = "new_trade"
      <4> DEFINE same == {r \in orders : r.order = Current.order /\ r.bot = BotToWrite /\ r.bot # NoBot}
                 new  == [first |-> sub.event, last |-> sub.event,
                          order |-> Current.order, bot |-> BotToWrite]
      <4>1. orders' = IF same = {} THEN orders \cup {new}
                      ELSE (orders \ same) \cup {[r EXCEPT !.last = sub.event] : r \in same}
        BY <1>7, <3>2 DEF CommitRows, UpsertedOrders
      <4>2. \A r \in orders : /\ [r EXCEPT !.last = sub.event].bot = r.bot
                              /\ [r EXCEPT !.last = sub.event].order = r.order
        BY DEF Inv, TypeOK, OrderRows
      <4>3. CASE same = {}
        BY <4>1, <4>3 DEF KeysInv, KeysHold
      <4>4. CASE same # {}
        <5>1. orders' = (orders \ same) \cup {[r EXCEPT !.last = sub.event] : r \in same}
          BY <4>1, <4>4
        <5>2. \A r, q \in same : r = q
          BY DEF KeysInv, KeysHold
        <5>3. \A r \in orders \ same : \A q \in same : ~ (r.order = q.order /\ r.bot = q.bot)
          OBVIOUS
        <5> HIDE DEF same
        <5>4. same \subseteq orders
          BY DEF same
        <5>5. SUFFICES ASSUME NEW r \in orders', NEW q \in orders',
                              r.order = q.order, r.bot = q.bot, r.bot # NoBot
                       PROVE  r = q
          OBVIOUS
        <5>6. CASE r \in orders \ same /\ q \in orders \ same
          BY <5>5, <5>6 DEF KeysInv, KeysHold
        <5>7. ASSUME NEW x \in same, NEW y \in same, r = [x EXCEPT !.last = sub.event],
                     q = [y EXCEPT !.last = sub.event]
              PROVE  r = q
          BY <5>2, <5>7
        <5>8. ASSUME NEW x \in orders \ same, NEW y \in same
              PROVE  LET z == [y EXCEPT !.last = sub.event]
                     IN ~ (x.order = z.order /\ x.bot = z.bot)
          BY <4>2, <5>3, <5>4
        <5>9. QED
          BY <5>1, <5>5, <5>6, <5>7, <5>8
      <4>5. QED
        BY <4>3, <4>4
    <3>3. QED
      BY <3>1, <3>2
  <2>8. KeysHold'
    BY <1>7, <2>2, <2>4, <2>5, <2>6, <2>7 DEF CommitRows, KeysInv, KeysHold
  <2>9. QED
    BY <1>1, <2>1, <2>8 DEF KeysInv, Referring
<1>8. CASE SetHeartbeat \/ Disconnect
  <2>1. sub'.pc = "idle" /\ UNCHANGED rowVars
    BY <1>8 DEF SetHeartbeat, Disconnect, Inv, TypeOK
  <2>2. QED
    BY <1>2, <2>1 DEF Referring
<1>9. CASE Resubscribe
  BY <1>2, <1>9 DEF Resubscribe, KeysInv, Referring, BotIds, Current
<1>10. CASE RollBack
  <2>1. sub'.pc \in {"idle", "beat"} /\ UNCHANGED rowVars
    BY <1>10, EndedSame DEF RollBack
  <2>2. QED
    BY <1>2, <2>1 DEF Referring
<1>11. QED
  BY <1>3, <1>4, <1>5, <1>6, <1>7, <1>8, <1>9, <1>10 DEF SubscriberSteps, Subscriber

LEMMA PublishKeys == ASSUME Inv, KeysInv, NEW p \in Payloads, Publish(p) PROVE KeysInv'
<1> USE DEF rowVars, requestVars
<1>1. /\ UNCHANGED <<credentials, bots, orders, snapshots, strategyErrors, handler, sub, BotIds>>
      /\ sent' = Append(sent, p)
  BY DEF Publish, BotIds
<1>2. sub.pc # "idle" => Current' = Current
  <2>1. sent \in Seq(Payloads) /\ (sub.pc # "idle" => sub.event \in 1..Len(sent))
    BY DEF Inv, TypeOK, Events
  <2>2. QED
    BY <1>1, <2>1 DEF Current
<1>3. Referring'
  BY <1>1, <1>2 DEF KeysInv, Referring
<1>4. KeysHold' /\ Inserting'
  BY <1>1 DEF KeysInv, KeysHold, Inserting
<1>5. QED
  BY <1>3, <1>4 DEF KeysInv

LEMMA RequestKeys == ASSUME Inv, KeysInv, NEW h \in Handlers, Request(h) PROVE KeysInv'
<1> USE DEF rowVars
<1>1. UNCHANGED <<sent, sub>>
  BY RequestKeepsEvents
<1>2. Current' = Current
  BY <1>1 DEF Current
<1>3. InsertingOne(handler[h], credentials) /\ Inserting
  BY DEF KeysInv, Inserting
<1>4. \A j : Become(h, j) => \A g \in Handlers : handler'[g] = IF g = h THEN j ELSE handler[g]
  BY DEF Become, Inv, TypeOK
\* Steps that change no row.
<1>5. ASSUME UNCHANGED rowVars, NEW j, Become(h, j), InsertingOne(j, credentials)
      PROVE  KeysInv'
  <2>1. Inserting'
    BY <1>3, <1>5, BecomeInserting
  <2>2. BotIds' = BotIds
    BY <1>5 DEF BotIds
  <2>3. KeysHold' /\ Referring'
    BY <1>1, <1>2, <1>5, <2>2 DEF KeysInv, KeysHold, Referring
  <2>4. QED
    BY <2>1, <2>3 DEF KeysInv
<1>6. ASSUME UNCHANGED rowVars, Become(h, Idle) PROVE KeysInv'
  BY <1>5, <1>6, IdleInserts
<1>7. ASSUME NEW c \in Credentials, PostCredential(h, c) \/ DeleteCredential(h, c) PROVE KeysInv'
  <2>1. PICK pc \in {"validating", "deleting"} : Become(h, [Idle EXCEPT !.pc = pc, !.credential = c])
    BY <1>7 DEF PostCredential, DeleteCredential
  <2>2. InsertingOne([Idle EXCEPT !.pc = pc, !.credential = c], credentials)
    BY DEF InsertingOne, Idle
  <2>3. UNCHANGED rowVars
    BY <1>7 DEF PostCredential, DeleteCredential
  <2>4. QED
    BY <1>5, <2>1, <2>2, <2>3
<1>8. ASSUME NEW b \in Bots, DeleteBot(h, b) PROVE KeysInv'
  <2>1. InsertingOne([Idle EXCEPT !.pc = "deleting", !.bot = b], credentials)
    BY DEF InsertingOne, Idle
  <2>2. QED
    BY <1>5, <1>8, <2>1 DEF DeleteBot
<1>9. ASSUME NEW b \in Bots, NEW c \in Credentials, PostBot(h, b, c) PROVE KeysInv'
  <2>1. InsertingOne([pc |-> "checked", credential |-> c, bot |-> b], credentials)
    BY DEF InsertingOne
  <2>2. QED
    BY <1>5, <1>9, <2>1 DEF PostBot
<1>10. ASSUME ValidateKeys(h) \/ InsertCredential(h) \/ InsertBot(h) PROVE KeysInv'
  <2>1. UNCHANGED rowVars
    BY <1>10 DEF ValidateKeys, InsertCredential, InsertBot
  <2>2. \/ Become(h, Idle)
        \/ GoTo(h, "accepted") /\ handler[h].pc = "validating"
        \/ GoTo(h, "created") /\ handler[h].pc = "accepted"
        \/ GoTo(h, "created") /\ handler[h].credential \in credentials
    BY <1>10 DEF ValidateKeys, InsertCredential, InsertBot
  <2>3. ASSUME NEW pc \in {"accepted", "created"}, GoTo(h, pc),
               \/ handler[h].pc \in {"validating", "accepted"}
               \/ handler[h].credential \in credentials /\ pc = "created"
        PROVE  KeysInv'
    <3> DEFINE j == [handler[h] EXCEPT !.pc = pc]
    <3>1. handler[h] \in Jobs
      BY DEF Inv, TypeOK
    <3>2. j.pc = pc /\ j.bot = handler[h].bot /\ j.credential = handler[h].credential
      BY <3>1 DEF Jobs
    <3>3. InsertingOne(j, credentials) /\ Become(h, j)
      BY <1>3, <2>3, <3>2 DEF InsertingOne, GoTo
    <3> HIDE DEF j
    <3>4. QED
      BY <1>5, <2>1, <3>3
  <2>4. QED
    BY <1>6, <2>1, <2>2, <2>3
<1>11. CASE AbortRequest(h)
  BY <1>6, <1>11 DEF AbortRequest
<1>12. CASE CommitCredential(h)
  <2>1. /\ credentials \subseteq credentials' /\ Become(h, Idle)
        /\ UNCHANGED <<bots, orders, snapshots, strategyErrors, BotIds>>
    BY <1>12 DEF CommitCredential, BotIds
  <2>2. Inserting'
    BY <1>3, <2>1, IdleInserts, BecomeInserting
  <2>3. KeysHold' /\ Referring'
    BY <1>1, <1>2, <2>1 DEF KeysInv, KeysHold, Referring
  <2>4. QED
    BY <2>2, <2>3 DEF KeysInv
<1>13. CASE CommitBot(h)
  <2> DEFINE new == [id |-> handler[h].bot, credential |-> handler[h].credential]
  <2>1. /\ bots' = bots \cup {new} /\ Become(h, Idle)
        /\ UNCHANGED <<credentials, orders, snapshots, strategyErrors>>
    BY <1>13 DEF CommitBot
  <2>2. new.credential \in credentials
    BY <1>3, <1>13 DEF CommitBot, InsertingOne
  <2>3. BotIds \subseteq BotIds'
    BY <2>1 DEF BotIds
  <2>4. Inserting'
    BY <1>3, <2>1, IdleInserts, BecomeInserting
  <2>5. \A r \in bots' : r.credential \in credentials'
    BY <2>1, <2>2 DEF KeysInv, KeysHold
  <2>6. KeysHold' /\ Referring'
    BY <1>1, <1>2, <2>1, <2>3, <2>5 DEF KeysInv, KeysHold, Referring
  <2>7. QED
    BY <2>4, <2>6 DEF KeysInv
<1>14. CASE CommitDeleteCredential(h)
  <2> DEFINE c == handler[h].credential
  <2>1. CASE \E r \in bots : r.credential = c
    <3>1. UNCHANGED rowVars /\ Become(h, Idle)
      BY <1>14, <2>1 DEF CommitDeleteCredential
    <3>2. QED
      BY <1>6, <3>1
  <2>2. CASE ~ \E r \in bots : r.credential = c
    <3>1. /\ credentials' = credentials \ {c} /\ snapshots' = {r \in snapshots : r.credential # c}
          /\ UNCHANGED <<bots, orders, strategyErrors, BotIds>> /\ Become(h, Idle)
          /\ ~ HoldsCredential(c)
      BY <1>14, <2>2 DEF CommitDeleteCredential, BotIds
    <3>2. KeysHold'
      BY <2>2, <3>1 DEF KeysInv, KeysHold
    <3>3. Referring'
      BY <1>1, <1>2, <3>1 DEF KeysInv, Referring, HoldsCredential
    <3>4. ASSUME NEW g \in Handlers PROVE InsertingOne(handler'[g], credentials')
      <4>1. CASE g = h
        BY <1>4, <3>1, <4>1, IdleInserts
      <4>2. CASE g # h
        <5>1. handler'[g] = handler[g]
          BY <1>4, <3>1, <4>2
        <5>2. handler[g].pc = "created" /\ handler[g].bot # NoBot => handler[g].credential # c
          BY <3>1 DEF HoldsCredential
        <5>3. QED
          BY <1>3, <3>1, <5>1, <5>2 DEF Inserting, InsertingOne
      <4>3. QED
        BY <4>1, <4>2
    <3>5. QED
      BY <3>2, <3>3, <3>4 DEF KeysInv, Inserting
  <2>3. QED
    BY <2>1, <2>2
<1>15. CASE CommitDeleteBot(h)
  <2> DEFINE b == handler[h].bot
             unlinked(r) == IF r.bot = b THEN [r EXCEPT !.bot = NoBot] ELSE r
  <2>1. /\ b # NoBot /\ ~ HoldsBot(b)
        /\ bots' = {r \in bots : r.id # b}
        /\ orders' = {unlinked(r) : r \in orders}
        /\ strategyErrors' = {unlinked(r) : r \in strategyErrors}
        /\ Become(h, Idle)
        /\ UNCHANGED <<credentials, snapshots>>
    BY <1>15 DEF CommitDeleteBot
  <2>2. BotIds' = BotIds \ {b}
    BY <2>1 DEF BotIds
  <2>3. Inserting'
    BY <1>3, <2>1, IdleInserts, BecomeInserting
  <2>4. Referring'
    BY <1>1, <1>2, <2>1, <2>2 DEF KeysInv, Referring, HoldsBot, BotToWrite
  <2>5. \A r \in orders \cup strategyErrors :
            /\ r.bot = b => unlinked(r).bot = NoBot
            /\ r.bot # b => unlinked(r) = r
    BY DEF Inv, TypeOK, OrderRows, ErrorRows
  <2>6. \A r \in orders \cup strategyErrors : unlinked(r).bot \in (BotIds \ {b}) \cup {NoBot}
    BY <2>5 DEF KeysInv, KeysHold
  <2> HIDE DEF unlinked, b
  <2>7. \A r \in orders' \cup strategyErrors' : r.bot \in BotIds' \cup {NoBot}
    BY <2>1, <2>2, <2>6
  <2>8. \A r, q \in orders' : r.order = q.order /\ r.bot = q.bot /\ r.bot # NoBot => r = q
    <3>1. \A r \in orders' : r.bot # NoBot => r \in orders
      BY <2>1, <2>5
    <3>2. QED
      BY <3>1 DEF KeysInv, KeysHold
  <2>9. KeysHold'
    BY <2>1, <2>7, <2>8 DEF KeysInv, KeysHold
  <2>10. QED
    BY <2>3, <2>4, <2>9 DEF KeysInv
<1>16. QED
  BY <1>7, <1>8, <1>9, <1>10, <1>11, <1>12, <1>13, <1>14, <1>15 DEF Request

LEMMA NextKeys == ASSUME Inv, KeysInv, [Next]_vars PROVE KeysInv'
<1>1. CASE ExpireHeartbeat \/ UNCHANGED vars
  <2>1. UNCHANGED <<credentials, bots, orders, snapshots, strategyErrors, handler, sent, sub>>
    BY <1>1 DEF ExpireHeartbeat, vars, rowVars, requestVars, eventVars
  <2>2. QED
    BY <2>1 DEF KeysInv, KeysHold, Referring, Inserting, BotIds, Current
<1>2. QED
  BY <1>1, SubscriberKeys, PublishKeys, RequestKeys DEF Next, SubscriberSteps

\* No interleaving of deletions with the writes of the subscriber and of other
\* handlers leaves a row pointing to nothing, or two rows of one order of a bot.
THEOREM RecordsKeepTheirKeys == Spec => []KeysHold
<1>1. Init => KeysInv
  BY IdleInserts DEF Init, KeysInv, KeysHold, Referring, Inserting
<1>2. Inv /\ KeysInv /\ [Next]_vars => KeysInv'
  BY NextKeys
<1>3. KeysInv => KeysHold
  BY DEF KeysInv
<1>4. QED
  BY <1>1, <1>2, <1>3, InvHolds, PTL DEF Spec

-----------------------------------------------------------------------------
(* The history of events in the rows.  Every row comes from an event that   *)
(* has been handled, and while an event is being handled no row shows it    *)
(* yet: so a commit only replaces older events by a newer one, and adds the *)
(* rows of an update in one go.                                             *)

Busy == sub.pc \in {"resolve", "write", "push", "commit"}

Handled(e) == e \in Events /\ e <= sub.event /\ (Busy => e # sub.event)

\* An order is one row for each event that inserted one; an update that has been
\* written could be converted as a whole.
RowsInv ==
    /\ \A r \in orders : Handled(r.first) /\ Handled(r.last)
    /\ \A r, q \in orders : r.first = q.first => r = q
    /\ \A r \in snapshots : Handled(r.event) /\ sent[r.event].credential = r.credential
    /\ sub.pc \in {"push", "commit"} /\ Current.kind \in SnapshotKinds => Current.bad = {}

\* What has been sent stays as it was sent.
LEMMA SentStays ==
    ASSUME Inv, [Next]_vars
    PROVE  Events \subseteq Events' /\ \A e \in Events : sent'[e] = sent[e]
<1>1. CASE UNCHANGED sent
  BY <1>1 DEF Events
<1>2. ASSUME NEW p \in Payloads, Publish(p) PROVE Events \subseteq Events' /\ \A e \in Events : sent'[e] = sent[e]
  <2>1. sent \in Seq(Payloads) /\ sent' = Append(sent, p)
    BY <1>2 DEF Publish, Inv, TypeOK
  <2>2. QED
    BY <2>1 DEF Events
<1>3. UNCHANGED sent \/ \E p \in Payloads : Publish(p)
  BY RequestKeepsEvents
  DEF Next, vars, eventVars, Subscriber, TakeEvent, Resolve, WriteRows, Push, CommitRows,
      SetHeartbeat, Resubscribe, RollBack, Disconnect, ExpireHeartbeat
<1>4. QED
  BY <1>1, <1>2, <1>3

\* An event that has been handled remains so.
LEMMA HandledStays ==
    ASSUME Inv, [Next]_vars, NEW e, Handled(e)
    PROVE  Handled(e)'
<1>1. e \in Events' /\ e \in Nat /\ sub.event \in Nat
  <2>1. e \in Events /\ e \in Events'
    BY SentStays DEF Handled
  <2>2. Len(sent) \in Nat /\ sub.event \in Nat
    BY DEF Inv, TypeOK
  <2>3. e \in Nat
    BY <2>1, <2>2 DEF Events
  <2>4. QED
    BY <2>1, <2>2, <2>3
<1>2. CASE TakeEvent
  <2>1. sub'.event = Head(waiting)
    BY <1>2 DEF TakeEvent
  <2>2. Head(waiting) \in 1..Len(sent) /\ sub.event < Head(waiting)
    BY <1>2, TailInOrder DEF TakeEvent, Inv, TypeOK
  <2>3. QED
    BY <1>1, <2>1, <2>2 DEF Handled
<1>3. CASE sub'.event = sub.event /\ (Busy' => Busy)
  BY <1>1, <1>3 DEF Handled
<1>4. CASE Resolve
  BY <1>3, <1>4, ResolveSame DEF Resolve, Same, Busy
<1>5. CASE WriteRows
  BY <1>3, <1>5, WriteRowsSame DEF WriteRows, Same, Busy
<1>6. CASE Push
  <2>1. sub'.event = sub.event /\ Busy
    BY <1>6 DEF Push, Busy, Inv, TypeOK
  <2>2. QED
    BY <1>3, <2>1
<1>7. CASE CommitRows \/ RollBack
  <2>1. sub' = Ended /\ sub.pc # "idle"
    BY <1>7 DEF CommitRows, RollBack
  <2>2. Same /\ sub'.pc \in {"idle", "beat"}
    BY <2>1, EndedSame
  <2>3. QED
    BY <1>3, <2>2 DEF Same, Busy
<1>8. CASE SetHeartbeat \/ Disconnect
  <2>1. sub' = [sub EXCEPT !.pc = "idle"]
    BY <1>8 DEF SetHeartbeat, Disconnect
  <2>2. sub'.event = sub.event /\ sub'.pc = "idle"
    BY <2>1 DEF Inv, TypeOK
  <2>3. QED
    BY <1>3, <2>2 DEF Busy
<1>9. CASE UNCHANGED sub
  BY <1>3, <1>9 DEF Busy
<1>10. ASSUME NEW h \in Handlers, Request(h) PROVE Handled(e)'
  BY <1>9, <1>10, RequestKeepsEvents
<1>11. QED
  BY <1>2, <1>4, <1>5, <1>6, <1>7, <1>8, <1>9, <1>10
  DEF Next, vars, eventVars, Subscriber, Publish, Resubscribe, ExpireHeartbeat

\* Steps that write no rows.
LEMMA KeepRows ==
    ASSUME Inv, RowsInv, [Next]_vars, UNCHANGED <<orders, snapshots>>,
           sub'.pc \in {"push", "commit"} /\ Current'.kind \in SnapshotKinds => Current'.bad = {}
    PROVE  RowsInv'
<1>1. \A r \in snapshots : sent'[r.event] = sent[r.event]
  BY SentStays DEF RowsInv, Handled
<1>2. QED
  BY <1>1, HandledStays DEF RowsInv

LEMMA RowsOfRequests == ASSUME Inv, RowsInv, NEW h \in Handlers, Request(h) PROVE RowsInv'
<1>1. UNCHANGED <<sent, sub>> /\ [Next]_vars
  BY RequestKeepsEvents DEF Next
<1>2. Current' = Current
  BY <1>1 DEF Current
<1>3. CASE UNCHANGED <<orders, snapshots>>
  BY <1>1, <1>2, <1>3, KeepRows DEF RowsInv
<1>4. CASE CommitDeleteCredential(h)
  <2>1. snapshots' \subseteq snapshots /\ UNCHANGED orders
    BY <1>4 DEF CommitDeleteCredential
  <2>2. QED
    BY <1>1, <1>2, <2>1, HandledStays DEF RowsInv
<1>5. CASE CommitDeleteBot(h)
  <2> DEFINE unlinked(r) == IF r.bot = handler[h].bot THEN [r EXCEPT !.bot = NoBot] ELSE r
  <2>1. orders' = {unlinked(r) : r \in orders} /\ UNCHANGED snapshots
    BY <1>5 DEF CommitDeleteBot
  <2>2. \A r \in orders : unlinked(r).first = r.first /\ unlinked(r).last = r.last
    BY DEF Inv, TypeOK, OrderRows
  <2> HIDE DEF unlinked
  <2>3. \A r \in orders' : Handled(r.first)' /\ Handled(r.last)'
    BY <1>1, <2>1, <2>2, HandledStays DEF RowsInv
  <2>4. \A r, q \in orders' : r.first = q.first => r = q
    BY <2>1, <2>2 DEF RowsInv
  <2>5. QED
    BY <1>1, <1>2, <2>1, <2>3, <2>4, HandledStays DEF RowsInv
<1>6. QED
  BY <1>3, <1>4, <1>5
  DEF Request, PostCredential, DeleteCredential, DeleteBot, PostBot, ValidateKeys, rowVars,
      InsertCredential, CommitCredential, InsertBot, CommitBot, AbortRequest

LEMMA RowsOfCommit == ASSUME Inv, RowsInv, CommitRows PROVE RowsInv'
<1>1. /\ sub.pc = "commit" /\ sub' = Ended /\ UNCHANGED sent /\ [Next]_vars
  BY DEF CommitRows, Next, Subscriber
<1>2. Same /\ sub'.pc \in {"idle", "beat"}
  BY <1>1, EndedSame
<1>3. \A e : e = sub.event => Handled(e)'
  BY <1>1, <1>2 DEF Handled, Busy, Same, Inv, TypeOK, Events
<1>4. \A r \in orders : /\ r.first # sub.event
                        /\ [r EXCEPT !.last = sub.event].first = r.first
                        /\ [r EXCEPT !.last = sub.event].last = sub.event
  BY <1>1 DEF RowsInv, Handled, Busy, Inv, TypeOK, OrderRows
<1>5. \A r \in orders' : Handled(r.first)' /\ Handled(r.last)'
  <2>1. CASE UNCHANGED orders
    BY <1>1, <2>1, HandledStays DEF RowsInv
  <2>2. CASE orders' = UpsertedOrders
    <3>1. ASSUME NEW r \in UpsertedOrders PROVE Handled(r.first)' /\ Handled(r.last)'
      <4>1. \/ r \in orders
            \/ r.first = sub.event /\ r.last = sub.event
            \/ \E q \in orders : r = [q EXCEPT !.last = sub.event]
        BY <3>1 DEF UpsertedOrders
      <4>2. CASE r \in orders
        BY <1>1, <4>2, HandledStays DEF RowsInv
      <4>3. CASE r.first = sub.event /\ r.last = sub.event
        BY <1>3, <4>3
      <4>4. ASSUME NEW q \in orders, r = [q EXCEPT !.last = sub.event]
            PROVE  Handled(r.first)' /\ Handled(r.last)'
        <5>1. r.first = q.first /\ r.last = sub.event
          BY <1>4, <4>4
        <5>2. Handled(q.first)'
          BY <1>1, HandledStays DEF RowsInv
        <5>3. QED
          BY <1>3, <5>1, <5>2
      <4>5. QED
        BY <4>1, <4>2, <4>3, <4>4
    <3>2. QED
      BY <2>2, <3>1
  <2>3. QED
    BY <2>1, <2>2 DEF CommitRows
<1>6. \A r, q \in orders' : r.first = q.first => r = q
  <2>1. CASE UNCHANGED orders
    BY <2>1 DEF RowsInv
  <2>2. CASE orders' = UpsertedOrders
    <3> DEFINE same == {r \in orders : r.order = Current.order /\ r.bot = BotToWrite /\ r.bot # NoBot}
               new  == [first |-> sub.event, last |-> sub.event,
                        order |-> Current.order, bot |-> BotToWrite]
    <3>1. orders' = IF same = {} THEN orders \cup {new}
                    ELSE (orders \ same) \cup {[r EXCEPT !.last = sub.event] : r \in same}
      BY <2>2 DEF UpsertedOrders
    <3>2. CASE same = {}
      BY <1>4, <3>1, <3>2 DEF RowsInv
    <3>3. CASE same # {}
      <4>1. orders' = (orders \ same) \cup {[r EXCEPT !.last = sub.event] : r \in same}
        BY <3>1, <3>3
      <4>2. same \subseteq orders
        OBVIOUS
      <4> HIDE DEF same
      <4>3. SUFFICES ASSUME NEW r \in orders', NEW q \in orders', r.first = q.first PROVE r = q
        OBVIOUS
      <4>4. CASE r \in orders \ same /\ q \in orders \ same
        BY <4>3, <4>4 DEF RowsInv
      <4>5. ASSUME NEW x \in same, NEW y \in same, r = [x EXCEPT !.last = sub.event],
                   q = [y EXCEPT !.last = sub.event]
            PROVE  r = q
        <5>1. x.first = y.first
          BY <1>4, <4>2, <4>3, <4>5
        <5>2. x = y
          BY <4>2, <5>1 DEF RowsInv
        <5>3. QED
          BY <4>5, <5>2
      <4>6. ASSUME NEW x \in orders \ same, NEW y \in same
            PROVE  x.first # [y EXCEPT !.last = sub.event].first
        BY <1>4, <4>2 DEF RowsInv
      <4>7. QED
        BY <4>1, <4>3, <4>4, <4>5, <4>6
    <3>4. QED
      BY <3>2, <3>3
  <2>3. QED
    BY <2>1, <2>2 DEF CommitRows
<1>7. \A r \in snapshots' : Handled(r.event)' /\ sent'[r.event].credential = r.credential
  <2>1. CASE UNCHANGED snapshots
    BY <1>1, <2>1, HandledStays DEF RowsInv
  <2>2. CASE snapshots' = InsertedSnapshots
    <3>1. ASSUME NEW r \in InsertedSnapshots
          PROVE  Handled(r.event)' /\ sent[r.event].credential = r.credential
      <4>1. CASE r \in snapshots
        BY <1>1, <4>1, HandledStays DEF RowsInv
      <4>2. ASSUME NEW i, r = [event |-> sub.event, credential |-> Current.credential, item |-> i]
            PROVE  Handled(r.event)' /\ sent[r.event].credential = r.credential
        <5>1. r.event = sub.event /\ r.credential = Current.credential
          BY <4>2
        <5>2. QED
          BY <1>3, <5>1 DEF Current
      <4>3. QED
        BY <3>1, <4>1, <4>2 DEF InsertedSnapshots
    <3>2. QED
      BY <1>1, <2>2, <3>1
  <2>3. QED
    BY <2>1, <2>2 DEF CommitRows
<1>8. QED
  BY <1>2, <1>5, <1>6, <1>7 DEF RowsInv

LEMMA NextRows == ASSUME Inv, RowsInv, [Next]_vars PROVE RowsInv'
<1>1. CASE UNCHANGED <<orders, snapshots>> /\ sub'.pc \notin {"push", "commit"}
  BY <1>1, KeepRows
<1>2. CASE TakeEvent \/ SetHeartbeat \/ Disconnect \/ RollBack
  <2>1. sub'.pc \notin {"push", "commit"} /\ UNCHANGED <<orders, snapshots>>
    BY <1>2, EndedSame DEF TakeEvent, SetHeartbeat, Disconnect, RollBack, Inv, TypeOK, rowVars
  <2>2. QED
    BY <1>1, <2>1
<1>3. CASE UNCHANGED <<orders, snapshots, sub>>
  <2>1. sub.pc # "idle" => Current' = Current
    BY <1>3, SentStays DEF Current, Inv
  <2>2. QED
    BY <1>3, <2>1, KeepRows DEF RowsInv
<1>4. CASE Resolve
  <2>1. /\ Same /\ UNCHANGED <<orders, snapshots, sent>> /\ sub.pc # "idle"
        /\ sub'.pc = IF Current.kind = "status" THEN "commit" ELSE "write"
    BY <1>4, ResolveSame DEF Resolve, rowVars
  <2>2. Current' = Current
    BY <2>1, CurrentStays
  <2>3. QED
    BY <2>1, <2>2, KeepRows DEF SnapshotKinds
<1>5. CASE WriteRows
  <2>1. Same /\ UNCHANGED <<orders, snapshots, sent>> /\ sub.pc # "idle"
    BY <1>5, WriteRowsSame DEF WriteRows, rowVars
  <2>2. Current' = Current
    BY <2>1, CurrentStays
  <2>3. CASE sub' = Ended
    BY <1>1, <2>1, <2>3, EndedSame
  <2>4. CASE ~ Fails
    BY <2>1, <2>2, <2>4, KeepRows DEF Fails
  <2>5. QED
    BY <1>5, <2>3, <2>4, WriteRowsSame
<1>6. CASE Push
  <2>1. Same /\ UNCHANGED <<orders, snapshots, sent>> /\ sub.pc = "push"
    BY <1>6, SubType DEF Push, Same, rowVars
  <2>2. Current' = Current
    BY <2>1, CurrentStays
  <2>3. QED
    BY <2>1, <2>2, KeepRows DEF RowsInv
<1>7. QED
  BY <1>2, <1>3, <1>4, <1>5, <1>6, RowsOfCommit, RowsOfRequests
  DEF Next, Subscriber, Publish, Resubscribe, ExpireHeartbeat, vars, rowVars, eventVars

LEMMA RowsInvHolds == Spec => []RowsInv
<1>1. Init => RowsInv
  BY DEF Init, RowsInv
<1>2. Inv /\ RowsInv /\ [Next]_vars => RowsInv'
  BY NextRows
<1>3. QED
  BY <1>1, <1>2, InvHolds, PTL DEF Spec

-----------------------------------------------------------------------------
(* What RowsInv is for.                                                     *)

\* The items of the rows that come from one event.
ItemsOf(e, rows) == {q.item : q \in {s \in rows : s.event = e}}

LEMMA NextWhole == ASSUME Inv, RowsInv, UpdatesAreWhole, [Next]_vars PROVE UpdatesAreWhole'
<1>1. SUFFICES ASSUME NEW r \in snapshots' PROVE ItemsOf(r.event, snapshots') = sent'[r.event].items
  BY DEF UpdatesAreWhole, ItemsOf
<1>2. \A q \in snapshots : /\ sent'[q.event] = sent[q.event]
                           /\ ItemsOf(q.event, snapshots) = sent[q.event].items
  BY SentStays DEF UpdatesAreWhole, ItemsOf, RowsInv, Handled
<1>3. CASE UNCHANGED snapshots
  BY <1>1, <1>2, <1>3
<1>4. ASSUME NEW h \in Handlers, CommitDeleteCredential(h)
      PROVE  ItemsOf(r.event, snapshots') = sent'[r.event].items
  <2>1. PICK c : snapshots' = {q \in snapshots : q.credential # c} \/ UNCHANGED snapshots
    BY <1>4 DEF CommitDeleteCredential
  <2>2. CASE snapshots' = {q \in snapshots : q.credential # c}
    <3>1. r \in snapshots /\ r.credential # c
      BY <1>1, <2>2
    <3>2. \A q \in snapshots : q.event = r.event => q.credential = r.credential
      BY <3>1 DEF RowsInv
    <3>3. ItemsOf(r.event, snapshots') = ItemsOf(r.event, snapshots)
      BY <2>2, <3>1, <3>2 DEF ItemsOf
    <3>4. QED
      BY <1>2, <3>1, <3>3
  <2>3. QED
    BY <1>3, <2>1, <2>2
<1>5. CASE CommitRows /\ snapshots' = InsertedSnapshots /\ Current.kind \in SnapshotKinds
  <2>1. sub.pc = "commit" /\ UNCHANGED sent
    BY <1>5 DEF CommitRows
  <2>2. Current.items \ Current.bad = Current.items
    BY <1>5, <2>1 DEF RowsInv
  <2> DEFINE new(i) == [event |-> sub.event, credential |-> Current.credential, item |-> i]
  <2>3. snapshots' = snapshots \cup {new(i) : i \in Current.items}
    BY <1>5, <2>2 DEF InsertedSnapshots
  <2>4. \A i : new(i).event = sub.event /\ new(i).item = i
    OBVIOUS
  <2>5. \A q \in snapshots : q.event # sub.event
    BY <2>1 DEF RowsInv, Handled, Busy
  <2> HIDE DEF new
  <2>6. CASE r \in snapshots
    <3>1. ItemsOf(r.event, snapshots') = ItemsOf(r.event, snapshots)
      BY <2>3, <2>4, <2>5, <2>6 DEF ItemsOf
    <3>2. QED
      BY <1>2, <2>6, <3>1
  <2>7. CASE r \notin snapshots
    <3>1. r.event = sub.event
      BY <1>1, <2>3, <2>4, <2>7
    <3>2. \A i : i \in ItemsOf(sub.event, snapshots') <=> i \in Current.items
      BY <2>3, <2>4, <2>5 DEF ItemsOf
    <3>3. sent'[r.event].items = Current.items
      BY <2>1, <3>1 DEF Current
    <3>4. QED
      BY <3>1, <3>2, <3>3 DEF ItemsOf
  <2>8. QED
    BY <2>6, <2>7
<1>6. QED
  BY <1>3, <1>4, <1>5, RequestKeepsEvents
  DEF Next, Request, Subscriber, TakeEvent, Resolve, WriteRows, Push, CommitRows, SetHeartbeat,
      Resubscribe, RollBack, Disconnect, ExpireHeartbeat, Publish, PostCredential,
      DeleteCredential, DeleteBot, PostBot, ValidateKeys, InsertCredential, CommitCredential,
      InsertBot, CommitBot, CommitDeleteBot, AbortRequest, vars, rowVars

\* A balance or positions update is in the tables as a whole or not at all, also
\* while the credential it is about is being deleted.
THEOREM UpdatesStayWhole == Spec => []UpdatesAreWhole
<1>1. Init => UpdatesAreWhole
  BY DEF Init, UpdatesAreWhole
<1>2. Inv /\ RowsInv /\ UpdatesAreWhole /\ [Next]_vars => UpdatesAreWhole'
  BY NextWhole
<1>3. QED
  BY <1>1, <1>2, InvHolds, RowsInvHolds, PTL DEF Spec

\* Membership in Latest, now and after a step.
LEMMA LatestIs ==
    ASSUME NEW c, NEW r
    PROVE  r \in Latest(c) <=>
             /\ r \in snapshots /\ r.credential = c /\ sent[r.event].kind = "balance_update"
             /\ \A q \in snapshots :
                    q.credential = c /\ q.item = r.item /\ sent[q.event].kind = "balance_update"
                    => q.event <= r.event
BY DEF Latest

LEMMA LatestWillBe ==
    ASSUME NEW c, NEW r
    PROVE  r \in Latest(c)' <=>
             /\ r \in snapshots' /\ r.credential = c /\ sent'[r.event].kind = "balance_update"
             /\ \A q \in snapshots' :
                    q.credential = c /\ q.item = r.item /\ sent'[q.event].kind = "balance_update"
                    => q.event <= r.event
BY DEF Latest

\* The step of ShownAdvances.
OrdersAdvance == \A r \in orders, q \in orders' : q.first = r.first => q.last >= r.last
BalancesAdvance ==
    \A c \in credentials \cap credentials' : \A r \in Latest(c) :
        \E q \in Latest(c)' : q.item = r.item /\ q.event >= r.event

LEMMA NextOrders == ASSUME Inv, RowsInv, [Next]_vars PROVE OrdersAdvance
<1>1. SUFFICES ASSUME NEW r \in orders, NEW q \in orders', q.first = r.first PROVE q.last >= r.last
  BY DEF OrdersAdvance
<1>2. r.last <= sub.event /\ r.last \in Nat /\ sub.event \in Nat
  BY DEF RowsInv, Handled, Inv, TypeOK, OrderRows
<1>3. CASE q \in orders
  BY <1>1, <1>2, <1>3 DEF RowsInv
<1>4. CASE CommitRows /\ orders' = UpsertedOrders
  <2>1. q \in orders \/ q.last = sub.event
    <3>1. \A x \in orders : [x EXCEPT !.last = sub.event].last = sub.event
      BY DEF Inv, TypeOK, OrderRows
    <3>2. \/ q \in orders
          \/ q = [first |-> sub.event, last |-> sub.event,
                  order |-> Current.order, bot |-> BotToWrite]
          \/ \E x \in orders : q = [x EXCEPT !.last = sub.event]
      BY <1>4 DEF UpsertedOrders
    <3>3. ASSUME NEW x \in orders, q = [x EXCEPT !.last = sub.event] PROVE q.last = sub.event
      BY <3>1, <3>3
    <3>4. QED
      BY <3>2, <3>3
  <2>2. QED
    BY <1>2, <1>3, <2>1
<1>5. ASSUME NEW h \in Handlers, CommitDeleteBot(h) PROVE q.last >= r.last
  <2>1. PICK x \in orders : q = x \/ q = [x EXCEPT !.bot = NoBot]
    BY <1>5 DEF CommitDeleteBot
  <2>2. q.first = x.first /\ q.last = x.last
    BY <2>1 DEF Inv, TypeOK, OrderRows
  <2>3. x = r
    BY <1>1, <2>2 DEF RowsInv
  <2>4. QED
    BY <1>2, <2>2, <2>3
<1>6. QED
  BY <1>1, <1>3, <1>4, <1>5
  DEF Next, Request, Subscriber, TakeEvent, Resolve, WriteRows, Push, CommitRows, SetHeartbeat,
      Resubscribe, RollBack, Disconnect, ExpireHeartbeat, Publish, PostCredential,
      DeleteCredential, DeleteBot, PostBot, ValidateKeys, InsertCredential, CommitCredential,
      InsertBot, CommitBot, CommitDeleteCredential, AbortRequest, vars, rowVars

LEMMA NextBalances == ASSUME Inv, RowsInv, [Next]_vars PROVE BalancesAdvance
<1>1. SUFFICES ASSUME NEW c \in credentials \cap credentials', NEW r \in Latest(c)
               PROVE  \E q \in Latest(c)' : q.item = r.item /\ q.event >= r.event
  BY DEF BalancesAdvance
<1>2. /\ r \in snapshots /\ r.credential = c /\ sent[r.event].kind = "balance_update"
      /\ \A q \in snapshots :
             q.credential = c /\ q.item = r.item /\ sent[q.event].kind = "balance_update"
             => q.event <= r.event
  BY LatestIs
<1>3. \A q \in snapshots : /\ q.event \in Nat /\ q.event <= sub.event
                           /\ sent'[q.event] = sent[q.event]
  BY SentStays DEF RowsInv, Handled, Inv, TypeOK, SnapshotRows
\* The row is still there, and no later one of its kind has come.
<1>4. CASE /\ r \in snapshots'
           /\ \A q \in snapshots' \ snapshots :
                  ~ (q.credential = c /\ q.item = r.item /\ sent'[q.event].kind = "balance_update")
  <2>1. r \in Latest(c)'
    BY <1>2, <1>3, <1>4, LatestWillBe
  <2>2. QED
    BY <1>2, <1>3, <2>1
<1>5. CASE UNCHANGED snapshots
  BY <1>2, <1>4, <1>5
<1>6. ASSUME NEW h \in Handlers, CommitDeleteCredential(h)
      PROVE  \E q \in Latest(c)' : q.item = r.item /\ q.event >= r.event
  <2>1. CASE UNCHANGED snapshots
    BY <1>5, <2>1
  <2>2. CASE /\ credentials' = credentials \ {handler[h].credential}
             /\ snapshots' = {q \in snapshots : q.credential # handler[h].credential}
    BY <1>2, <1>4, <2>2
  <2>3. QED
    BY <1>6, <2>1, <2>2 DEF CommitDeleteCredential
<1>7. CASE CommitRows /\ snapshots' = InsertedSnapshots
  <2> DEFINE new(i) == [event |-> sub.event, credential |-> Current.credential, item |-> i]
  <2>1. snapshots' = snapshots \cup {new(i) : i \in Current.items \ Current.bad}
    BY <1>7 DEF InsertedSnapshots
  <2>2. \A i : new(i).event = sub.event /\ new(i).credential = Current.credential /\ new(i).item = i
    OBVIOUS
  <2>3. sent'[sub.event] = Current /\ sub.event \in Nat
    BY <1>7 DEF CommitRows, Current, Inv, TypeOK
  <2> HIDE DEF new
  <2>4. CASE /\ r.item \in Current.items \ Current.bad
             /\ Current.credential = c /\ Current.kind = "balance_update"
    <3>1. new(r.item) \in snapshots'
      BY <2>1, <2>4
    <3>2. \A q \in snapshots' : q.event <= sub.event
      BY <1>3, <2>1, <2>2, <2>3
    <3>3. new(r.item) \in Latest(c)'
      BY <2>2, <2>3, <2>4, <3>1, <3>2, LatestWillBe
    <3>4. QED
      BY <1>2, <1>3, <2>2, <3>3
  <2>5. CASE ~ /\ r.item \in Current.items \ Current.bad
               /\ Current.credential = c /\ Current.kind = "balance_update"
    <3>1. \A q \in snapshots' \ snapshots :
              /\ q.event = sub.event /\ q.credential = Current.credential
              /\ q.item \in Current.items \ Current.bad
      BY <2>1, <2>2
    <3>2. r \in snapshots'
      BY <1>2, <2>1
    <3>3. QED
      BY <1>4, <2>3, <2>5, <3>1, <3>2
  <2>6. QED
    BY <2>4, <2>5
<1>8. QED
  BY <1>5, <1>6, <1>7
  DEF Next, Request, Subscriber, TakeEvent, Resolve, WriteRows, Push, CommitRows, SetHeartbeat,
      Resubscribe, RollBack, Disconnect, ExpireHeartbeat, Publish, PostCredential,
      DeleteCredential, DeleteBot, PostBot, ValidateKeys, InsertCredential, CommitCredential,
      InsertBot, CommitBot, CommitDeleteBot, AbortRequest, vars, rowVars

\* No step shows an older event after a newer one, for an order or for a balance
\* whose credential exists: the code compares no times when it writes.
THEOREM ShownOnlyAdvances == Spec => ShownAdvances
<1>1. Inv /\ RowsInv /\ [Next]_vars =>
        [/\ \A r \in orders, q \in orders' : q.first = r.first => q.last >= r.last
         /\ \A c \in credentials \cap credentials' : \A r \in Latest(c) :
                \E q \in Latest(c)' : q.item = r.item /\ q.event >= r.event]_vars
  BY NextOrders, NextBalances DEF OrdersAdvance, BalancesAdvance
<1>2. QED
  BY <1>1, InvHolds, RowsInvHolds, PTL DEF Spec, ShownAdvances

-----------------------------------------------------------------------------
(* Pushed but never recorded.                                               *)

Due  == IF sub.pc \in {"push", "commit"} THEN {sub.event} ELSE {}
Lost == pushed \ (recorded \cup Due)
LostBounded == Cardinality(Lost) <= faults

LEMMA LostIsFinite == ASSUME Inv PROVE IsFiniteSet(Lost) /\ IsFiniteSet(Lost \cup {sub.event})
<1>1. Len(sent) \in Nat /\ pushed \subseteq 1..Len(sent)
  BY DEF Inv, TypeOK, Events
<1>2. IsFiniteSet(1..Len(sent))
  BY <1>1, FS_Interval
<1>3. IsFiniteSet(Lost)
  BY <1>1, <1>2, FS_Subset DEF Lost
<1>4. QED
  BY <1>3, FS_AddElement

LEMMA NextLost == ASSUME Inv, LostBounded, [Next]_vars PROVE LostBounded'
<1>1. /\ IsFiniteSet(Lost) /\ Cardinality(Lost) \in Nat
      /\ faults \in Nat /\ Cardinality(Lost) <= faults
  BY LostIsFinite, FS_CardinalityType DEF LostBounded, Inv, TypeOK
<1>2. ASSUME Lost' \subseteq Lost, faults' \in Nat, faults' >= faults PROVE LostBounded'
  <2>1. Cardinality(Lost') <= Cardinality(Lost) /\ Cardinality(Lost') \in Nat
    BY <1>1, <1>2, FS_Subset, FS_CardinalityType
  <2>2. QED
    BY <1>1, <1>2, <2>1 DEF LostBounded
<1>3. CASE RollBack
  <2>1. /\ sub' = Ended /\ sub.pc # "idle" /\ faults' = faults + 1
        /\ UNCHANGED <<pushed, recorded>>
    BY <1>3 DEF RollBack, Fault
  <2>2. Lost' \subseteq Lost \cup {sub.event}
    BY <2>1 DEF Lost, Due
  <2>3. /\ IsFiniteSet(Lost \cup {sub.event})
        /\ Cardinality(Lost \cup {sub.event}) <= Cardinality(Lost) + 1
        /\ Cardinality(Lost \cup {sub.event}) \in Nat
    <3>1. Cardinality(Lost \cup {sub.event}) =
              IF sub.event \in Lost THEN Cardinality(Lost) ELSE Cardinality(Lost) + 1
      BY <1>1, FS_AddElement
    <3>2. QED
      BY <1>1, <3>1, LostIsFinite
  <2>4. Cardinality(Lost') <= Cardinality(Lost \cup {sub.event}) /\ Cardinality(Lost') \in Nat
    BY <2>2, <2>3, FS_Subset, FS_CardinalityType
  <2>5. QED
    BY <1>1, <2>1, <2>3, <2>4 DEF LostBounded
<1>4. faults' \in Nat /\ faults' >= faults
  BY <1>1, RequestKeepsEvents
  DEF Next, Subscriber, TakeEvent, Resolve, WriteRows, Push, CommitRows, SetHeartbeat, Fault,
      Resubscribe, RollBack, Disconnect, ExpireHeartbeat, Publish, vars
<1>5. CASE UNCHANGED <<pushed, recorded, sub>>
  BY <1>2, <1>4, <1>5 DEF Lost, Due
<1>6. CASE TakeEvent \/ SetHeartbeat \/ Disconnect
  <2>1. UNCHANGED <<pushed, recorded>> /\ sub.pc \in {"idle", "beat"}
    BY <1>6 DEF TakeEvent, SetHeartbeat, Disconnect
  <2>2. QED
    BY <1>2, <1>4, <2>1 DEF Lost, Due
<1>7. CASE Resolve \/ WriteRows
  <2>1. UNCHANGED <<pushed, recorded>> /\ sub.pc \in {"resolve", "write"}
    BY <1>7 DEF Resolve, WriteRows
  <2>2. QED
    BY <1>2, <1>4, <2>1 DEF Lost, Due
<1>8. CASE Push
  <2>1. /\ sub.pc = "push" /\ sub' = [sub EXCEPT !.pc = "commit"]
        /\ pushed' = pushed \cup {sub.event} /\ UNCHANGED recorded
    BY <1>8 DEF Push
  <2>2. sub'.pc = "commit" /\ sub'.event = sub.event
    BY <2>1 DEF Inv, TypeOK
  <2>3. QED
    BY <1>2, <1>4, <2>1, <2>2 DEF Lost, Due
<1>9. CASE CommitRows
  <2>1. /\ sub.pc = "commit" /\ UNCHANGED pushed
        /\ recorded' = recorded \cup {sub.event}
    BY <1>9 DEF CommitRows
  <2>2. QED
    BY <1>2, <1>4, <2>1 DEF Lost, Due
<1>10. QED
  BY <1>3, <1>5, <1>6, <1>7, <1>8, <1>9, RequestKeepsEvents
  DEF Next, Subscriber, Publish, Resubscribe, ExpireHeartbeat, vars, eventVars

\* Clients are told of nothing that does not reach the tables, except for one
\* event for each failure.
THEOREM PushesAreRecorded == Spec => []PushedIsRecorded
<1>1. Init => LostBounded
  BY FS_EmptySet DEF Init, LostBounded, Lost, Due
<1>2. Inv /\ LostBounded /\ [Next]_vars => LostBounded'
  BY NextLost
<1>3. LostBounded => PushedIsRecorded
  BY DEF LostBounded, Lost, Due, PushedIsRecorded
<1>4. QED
  BY <1>1, <1>2, <1>3, InvHolds, PTL DEF Spec

-----------------------------------------------------------------------------
(* The subscriber.  Without a connection it is at rest and nothing waits,   *)
(* so that a new subscription never overlaps the handling of an event.      *)

RestsWhenLost == ~ subscribed => sub.pc = "idle"

\* The event in hand, as Subscription sees it.
InHand == IF sub.pc = "idle" THEN {} ELSE {sub.event}

\* What the subscriber does within an event.
Within == Resolve \/ WriteRows \/ Push \/ CommitRows \/ RollBack \/ SetHeartbeat

LEMMA WithinSame ==
    ASSUME Inv, Within
    PROVE  Same /\ sub.pc # "idle" /\ UNCHANGED <<waiting, subscribed>>
<1>1. CASE Resolve
  BY <1>1, ResolveSame DEF Resolve
<1>2. CASE WriteRows
  BY <1>2, WriteRowsSame DEF WriteRows
<1>3. CASE Push
  BY <1>3, SubType DEF Push, Same
<1>4. CASE CommitRows
  BY <1>4, EndedSame DEF CommitRows
<1>5. CASE RollBack
  BY <1>5, EndedSame DEF RollBack
<1>6. CASE SetHeartbeat
  BY <1>6, SubType DEF SetHeartbeat, Same
<1>7. QED
  BY <1>1, <1>2, <1>3, <1>4, <1>5, <1>6 DEF Within

\* Only these steps touch what Subscription speaks of.
LEMMA OtherSteps ==
    ASSUME Inv, [Next]_vars
    PROVE  \/ UNCHANGED <<waiting, subscribed, sub>>
           \/ Within \/ TakeEvent \/ Disconnect \/ Resubscribe
           \/ \E p \in Payloads : Publish(p)
<1>1. ExpireHeartbeat \/ UNCHANGED vars => UNCHANGED <<waiting, subscribed, sub>>
  BY DEF ExpireHeartbeat, vars, eventVars
<1>2. QED
  BY <1>1, RequestKeepsEvents DEF Next, Subscriber, Within

LEMMA NextRests == ASSUME Inv, RestsWhenLost, [Next]_vars PROVE RestsWhenLost'
<1>1. CASE Within
  BY <1>1, WithinSame DEF RestsWhenLost
<1>2. CASE TakeEvent \/ Resubscribe \/ \E p \in Payloads : Publish(p)
  BY <1>2 DEF TakeEvent, Resubscribe, Publish, RestsWhenLost
<1>3. CASE Disconnect
  BY <1>3 DEF Disconnect, RestsWhenLost, Inv, TypeOK
<1>4. CASE UNCHANGED <<waiting, subscribed, sub>>
  BY <1>4 DEF RestsWhenLost
<1>5. QED
  BY <1>1, <1>2, <1>3, <1>4, OtherSteps

LEMMA InitSubscribes == Init => Redis!Init /\ RestsWhenLost
BY DEF Init, Redis!Init, RestsWhenLost

LEMMA StepSubscribes ==
    ASSUME Inv, RestsWhenLost, [Next]_vars
    PROVE  [Redis!Next]_(Redis!vars)
<1>1. CASE Within
  <2>1. CASE sub'.pc = "idle"
    BY <1>1, <2>1, WithinSame DEF Redis!Finish, Redis!Next
  <2>2. CASE sub'.pc # "idle"
    BY <1>1, <2>2, WithinSame DEF Same, Redis!vars
  <2>3. QED
    BY <2>1, <2>2
<1>2. CASE TakeEvent
  <2>1. sub'.pc = "resolve" /\ sub'.event = Head(waiting)
    BY <1>2 DEF TakeEvent
  <2>2. Redis!Take
    BY <1>2, <2>1 DEF TakeEvent, Redis!Take
  <2>3. QED
    BY <2>2 DEF Redis!Next
<1>3. CASE Disconnect
  <2>1. sub'.pc = "idle"
    BY <1>3 DEF Disconnect, Inv, TypeOK
  <2>2. Redis!Lose
    BY <1>3, <2>1 DEF Disconnect, Redis!Lose
  <2>3. QED
    BY <2>2 DEF Redis!Next
<1>4. CASE Resubscribe
  BY <1>4 DEF Resubscribe, RestsWhenLost, Redis!Resubscribe, Redis!Next
<1>5. ASSUME NEW p \in Payloads, Publish(p)
      PROVE  [Redis!Next]_(Redis!vars)
  <2>1. Len(sent) + 1 \in 1..MaxEvents
    BY <1>5, RecordsAssumption DEF Publish, Inv, TypeOK
  <2>2. CASE subscribed
    <3>1. Redis!Arrive(Len(sent) + 1)
      BY <1>5, <2>2 DEF Publish, Redis!Arrive
    <3>2. QED
      BY <2>1, <3>1 DEF Redis!Next
  <2>3. CASE ~ subscribed
    BY <1>5, <2>3 DEF Publish, Redis!vars
  <2>4. QED
    BY <2>2, <2>3
<1>6. CASE UNCHANGED <<waiting, subscribed, sub>>
  BY <1>6 DEF Redis!vars
<1>7. QED
  BY <1>1, <1>2, <1>3, <1>4, <1>5, <1>6, OtherSteps

\* The tables are written by a subscriber that handles events one at a time, each
\* at most once and in order, and loses none but with the connection.
THEOREM SubscriptionIsKept == Spec => ImplementsSubscription
<1>1. Inv /\ RestsWhenLost /\ [Next]_vars => RestsWhenLost' /\ [Redis!Next]_(Redis!vars)
  BY NextRests, StepSubscribes
<1>2. QED
  BY <1>1, InitSubscribes, InvHolds, PTL DEF Spec, ImplementsSubscription, Redis!Spec
=============================================================================
