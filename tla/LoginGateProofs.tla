-------------------------- MODULE LoginGateProofs --------------------------
(***************************************************************************)
(* Proofs about LoginGate, for any number of clients, providers and        *)
(* browsers, any limit and any number of requests, states and failures.    *)
(***************************************************************************)
EXTENDS LoginGate, FiniteSetTheorems, TLAPS

-----------------------------------------------------------------------------
(* Types.                                                                  *)

LEMMA InitType == GateInit => GateTypeOK
<1> SUFFICES ASSUME GateInit PROVE GateTypeOK
  OBVIOUS
<1>1. <<>> \in Seq(Providers)
  OBVIOUS
<1>2. Issued = {}
  BY DEF GateInit, Issued
<1>3. exchanged \in [Issued -> Seq(Providers)]
  BY <1>2 DEF GateInit
<1>4. browser \in [Browsers -> [state : Issued, provider : Providers] \cup {NoVisit}]
  BY DEF GateInit, NoVisit
<1>5. QED
  BY <1>1, <1>2, <1>3, <1>4 DEF GateInit, GateTypeOK

\* The states issued so far are numbered from 1.
LEMMA IssuedIsRange ==
    ASSUME GateTypeOK
    PROVE  Issued = 1..Len(issuedFor) /\ Len(issuedFor) \in Nat
BY DEF GateTypeOK, Issued

LEMMA StartIssues ==
    ASSUME GateTypeOK, NEW p \in Providers, Start(p)
    PROVE  /\ issuedFor' \in Seq(Providers)
           /\ exchanged' \in [Issued' -> Seq(Providers)]
           /\ Issued' = Issued \cup {Len(issuedFor) + 1}
           /\ Len(issuedFor) + 1 \notin Issued
           /\ issuedFor'[Len(issuedFor) + 1] = p
           /\ exchanged'[Len(issuedFor) + 1] = <<>>
           /\ \A s \in Issued : issuedFor'[s] = issuedFor[s] /\ exchanged'[s] = exchanged[s]
<1> DEFINE n == Len(issuedFor)
<1>1. n \in Nat /\ Issued = 1..n
  BY IssuedIsRange
<1>2. exchanged \in Seq(Seq(Providers)) /\ Len(exchanged) = n
  <2>1. exchanged \in [1..n -> Seq(Providers)]
    BY <1>1 DEF GateTypeOK
  <2>2. QED
    BY <1>1, <2>1
<1>3. <<>> \in Seq(Providers)
  OBVIOUS
<1>4. /\ issuedFor' \in Seq(Providers) /\ Len(issuedFor') = n + 1
      /\ issuedFor'[n + 1] = p
      /\ \A s \in 1..n : issuedFor'[s] = issuedFor[s]
  BY <1>1 DEF Start, GateTypeOK
<1>5. /\ exchanged' \in Seq(Seq(Providers)) /\ Len(exchanged') = n + 1
      /\ exchanged'[n + 1] = <<>>
      /\ \A s \in 1..n : exchanged'[s] = exchanged[s]
  BY <1>1, <1>2, <1>3 DEF Start
<1>6. Issued' = 1..(n + 1)
  BY <1>4 DEF Issued
<1>7. exchanged' \in [1..(n + 1) -> Seq(Providers)]
  BY <1>1, <1>5
<1>8. QED
  BY <1>1, <1>4, <1>5, <1>6, <1>7

LEMMA NextType == GateTypeOK /\ [GateNext]_gateVars => GateTypeOK'
<1> SUFFICES ASSUME GateTypeOK, [GateNext]_gateVars PROVE GateTypeOK'
  OBVIOUS
<1>1. CASE \E c \in Clients : CountRequest(c)
  BY <1>1 DEF CountRequest, GateTypeOK, stateVars, Issued
<1>2. CASE \E c \in Clients : SetExpiry(c)
  BY <1>2 DEF SetExpiry, GateTypeOK, stateVars, Issued
<1>3. CASE WindowEnds
  BY <1>3 DEF WindowEnds, GateTypeOK, stateVars, Issued
<1>4. CASE \E p \in Providers : Start(p)
  <2>1. PICK p \in Providers : Start(p)
    BY <1>4
  <2>2. live' \subseteq Issued'
    BY <2>1, StartIssues DEF Start, GateTypeOK
  <2>3. browser' \in [Browsers -> [state : Issued', provider : Providers] \cup {NoVisit}]
    BY <2>1, StartIssues DEF Start, GateTypeOK
  <2>4. QED
    BY <2>1, <2>2, <2>3, StartIssues DEF Start, GateTypeOK, rateVars
<1>5. CASE \E s \in Issued : ExpireState(s)
  BY <1>5 DEF ExpireState, GateTypeOK, rateVars, Issued
<1>6. CASE \E b \in Browsers, s \in Issued, p \in Providers : ConsumeState(b, s, p)
  BY <1>6 DEF ConsumeState, NoVisit, GateTypeOK, rateVars, Issued
<1>7. CASE \E b \in Browsers : ExchangeCode(b)
  <2>1. PICK b \in Browsers : ExchangeCode(b)
    BY <1>7
  <2>2. /\ browser[b].state \in Issued
        /\ browser[b].provider \in Providers
    BY <2>1 DEF ExchangeCode, GateTypeOK
  <2>3. exchanged' \in [Issued -> Seq(Providers)]
    BY <2>1, <2>2 DEF ExchangeCode, GateTypeOK
  <2>4. browser' \in [Browsers -> [state : Issued, provider : Providers] \cup {NoVisit}]
    BY <2>1 DEF ExchangeCode, GateTypeOK
  <2>5. QED
    BY <2>1, <2>3, <2>4 DEF ExchangeCode, GateTypeOK, rateVars, Issued, NoVisit
<1>8. CASE Break
  <2>1. browser' \in [Browsers -> [state : Issued, provider : Providers] \cup {NoVisit}]
    BY <1>8 DEF Break, GateTypeOK
  <2>2. client' \in [Clients -> {"idle", "expire"}]
    BY <1>8 DEF Break, GateTypeOK
  <2>3. breaks' \in Nat
    BY <1>8 DEF Break, GateTypeOK
  <2>4. QED
    BY <1>8, <2>1, <2>2, <2>3 DEF Break, GateTypeOK, Issued, NoVisit
<1>9. CASE UNCHANGED gateVars
  BY <1>9 DEF gateVars, rateVars, stateVars, GateTypeOK, Issued
<1>10. QED
  BY <1>1, <1>2, <1>3, <1>4, <1>5, <1>6, <1>7, <1>8, <1>9 DEF GateNext

\* Type correctness: the gate keeps its types however requests and callbacks
\* interleave; a callback goes on with a state that was issued, or not at all.
THEOREM TypeCorrect == GateSpec => []GateTypeOK
<1>1. QED
  BY InitType, NextType, PTL DEF GateSpec

-----------------------------------------------------------------------------
(* The counter.  Before the first request of a window has set the time to  *)
(* live, the window cannot end, and that request's own place is kept free. *)

Opening == {c \in Clients : client[c] = "expire"}

CounterInv ==
    /\ \A c, d \in Opening : c = d
    /\ count = 0 => granted = 0 /\ ~ expires
    /\ granted <= count /\ granted <= RateLimit
    /\ Opening # {} => ~ expires /\ granted + 1 <= count /\ granted + 1 <= RateLimit

LEMMA CounterInvInit == Configured /\ GateInit => CounterInv
BY DEF Configured, GateInit, CounterInv, Opening

LEMMA CounterInvNext ==
    ASSUME Configured, GateTypeOK, CounterInv, [GateNext]_gateVars
    PROVE  CounterInv'
<1> USE DEF Configured, GateTypeOK, Opening
<1>1. CASE \E c \in Clients : CountRequest(c)
  <2>1. PICK c \in Clients : CountRequest(c)
    BY <1>1
  <2>2. CASE count = 0
    <3>1. Opening = {} /\ granted = 0
      BY <2>2 DEF CounterInv
    <3>2. /\ client' = [client EXCEPT ![c] = "expire"] /\ count' = 1
          /\ granted' = 0 /\ expires' = FALSE
      BY <2>1, <2>2, <3>1 DEF CountRequest, OpensWindow, CounterInv
    <3>3. Opening' = {c}
      BY <3>1, <3>2
    <3>4. QED
      BY <3>2, <3>3 DEF CounterInv
  <2>3. CASE count # 0
    <3>1. /\ client' = client /\ count' = count + 1 /\ expires' = expires
          /\ granted' = IF count + 1 > RateLimit THEN granted ELSE granted + 1
      BY <2>1, <2>3 DEF CountRequest, OpensWindow, TooMany
    <3>2. Opening' = Opening
      BY <3>1
    <3>3. QED
      BY <2>3, <3>1, <3>2 DEF CounterInv
  <2>4. QED
    BY <2>2, <2>3
<1>2. CASE \E c \in Clients : SetExpiry(c)
  <2>1. PICK c \in Clients : SetExpiry(c)
    BY <1>2
  <2>2. c \in Opening
    BY <2>1 DEF SetExpiry
  <2>3. /\ Opening' = {} /\ count' = count /\ granted' <= granted + 1 /\ granted' \in Nat
    BY <2>1, <2>2 DEF SetExpiry, TooMany, CounterInv
  <2>4. granted + 1 <= count /\ granted + 1 <= RateLimit /\ count # 0
    BY <2>2 DEF CounterInv
  <2>5. granted' <= count' /\ granted' <= RateLimit /\ count' # 0
    BY <2>3, <2>4
  <2>6. QED
    BY <2>3, <2>5 DEF CounterInv
<1>3. CASE WindowEnds
  BY <1>3 DEF WindowEnds, CounterInv
<1>4. CASE Break
  <2>1. /\ Opening' \subseteq Opening
        /\ UNCHANGED <<count, granted, expires>>
    BY <1>4 DEF Break
  <2>2. QED
    BY <2>1 DEF CounterInv
<1>5. CASE UNCHANGED rateVars
  BY <1>5 DEF rateVars, CounterInv
<1>6. QED
  BY <1>1, <1>2, <1>3, <1>4, <1>5
     DEF GateNext, Start, ExpireState, ConsumeState, ExchangeCode, gateVars

\* No window of a minute lets more code requests through than the limit,
\* however many requests of one address check_rate_limit handles at a time.
THEOREM LimitIsKept == ASSUME Configured PROVE GateSpec => []LimitHolds
<1>1. GateInit => GateTypeOK /\ CounterInv
  BY InitType, CounterInvInit
<1>2. GateTypeOK /\ CounterInv /\ [GateNext]_gateVars => GateTypeOK' /\ CounterInv'
  BY NextType, CounterInvNext
<1>3. CounterInv => LimitHolds
  BY DEF CounterInv, LimitHolds
<1>4. QED
  BY <1>1, <1>2, <1>3, PTL DEF GateSpec

LEMMA ExpiryNext ==
    ASSUME Configured, GateTypeOK, CounterInv, CounterExpires, [GateNext]_gateVars
    PROVE  CounterExpires'
<1> USE DEF Configured, GateTypeOK, CounterExpires
<1>1. CASE \E c \in Clients : CountRequest(c)
  BY <1>1 DEF CountRequest, OpensWindow
<1>2. CASE \E c \in Clients : SetExpiry(c)
  BY <1>2 DEF SetExpiry
<1>3. CASE WindowEnds
  BY <1>3 DEF WindowEnds
<1>4. CASE Break
  BY <1>4 DEF Break
<1>5. CASE UNCHANGED <<rateVars, breaks>>
  BY <1>5 DEF rateVars
<1>6. QED
  BY <1>1, <1>2, <1>3, <1>4, <1>5
     DEF GateNext, Start, ExpireState, ConsumeState, ExchangeCode, gateVars

\* Only a failure between INCR and EXPIRE leaves a counter without an end.
THEOREM CountersExpire == ASSUME Configured PROVE GateSpec => []CounterExpires
<1>1. GateInit => GateTypeOK /\ CounterInv /\ CounterExpires
  BY InitType, CounterInvInit DEF GateInit, CounterExpires
<1>2. GateTypeOK /\ CounterInv /\ CounterExpires /\ [GateNext]_gateVars
      => GateTypeOK' /\ CounterInv' /\ CounterExpires'
  BY NextType, CounterInvNext, ExpiryNext
<1>3. QED
  BY <1>1, <1>2, PTL DEF GateSpec

-----------------------------------------------------------------------------
(* States of a sign-in.  A state is live, or goes with one callback, or    *)
(* has been redeemed, or is gone: one of these at a time.                  *)

StateInv ==
    \A s \in Issued :
        /\ s \in live => exchanged[s] = <<>> /\ \A b \in Browsers : browser[b].state # s
        /\ \A b \in Browsers : browser[b].state = s =>
              exchanged[s] = <<>> /\ browser[b].provider = issuedFor[s]
        /\ \A b, d \in Browsers : browser[b].state = s /\ browser[d].state = s => b = d
        /\ exchanged[s] \in {<<>>, <<issuedFor[s]>>}

LEMMA StateInvNext ==
    ASSUME GateTypeOK, StateInv, [GateNext]_gateVars
    PROVE  StateInv'
<1>1. 0 \notin Issued
  BY IssuedIsRange
<1>2. CASE \E p \in Providers : Start(p)
  <2>1. PICK p \in Providers : Start(p)
    BY <1>2
  <2> DEFINE n == Len(issuedFor) + 1
  <2>2. /\ Issued' = Issued \cup {n} /\ n \notin Issued
        /\ exchanged'[n] = <<>>
        /\ \A s \in Issued : issuedFor'[s] = issuedFor[s] /\ exchanged'[s] = exchanged[s]
    BY <2>1, StartIssues
  <2>3. browser' = browser /\ live' = live \cup {n}
    BY <2>1 DEF Start
  <2>4. \A b \in Browsers : browser[b].state # n
    <3>1. n # 0
      BY IssuedIsRange
    <3>2. QED
      BY <2>2, <3>1 DEF GateTypeOK, NoVisit
  <2>5. QED
    BY <2>2, <2>3, <2>4 DEF StateInv
<1>3. CASE \E s \in Issued : ExpireState(s)
  BY <1>3 DEF ExpireState, StateInv, Issued
<1>4. CASE \E b \in Browsers, s \in Issued, p \in Providers : ConsumeState(b, s, p)
  <2>1. PICK b \in Browsers, s \in Issued, p \in Providers : ConsumeState(b, s, p)
    BY <1>4
  <2>2. /\ live' = live \ {s} /\ UNCHANGED <<issuedFor, exchanged>> /\ Issued' = Issued
    BY <2>1 DEF ConsumeState, Issued
  <2>3. CASE s \in live /\ issuedFor[s] = p
    <3>1. browser' = [browser EXCEPT ![b] = [state |-> s, provider |-> p]]
      BY <2>1, <2>3 DEF ConsumeState
    <3>2. /\ browser'[b].state = s /\ browser'[b].provider = issuedFor[s]
          /\ \A d \in Browsers \ {b} : browser'[d] = browser[d]
      BY <2>3, <3>1 DEF GateTypeOK
    <3>3. exchanged[s] = <<>> /\ \A d \in Browsers : browser[d].state # s
      BY <2>3 DEF StateInv
    <3>4. QED
      BY <2>2, <3>2, <3>3 DEF StateInv
  <2>4. CASE ~ (s \in live /\ issuedFor[s] = p)
    <3>1. browser' = [browser EXCEPT ![b] = NoVisit]
      BY <2>1, <2>4 DEF ConsumeState
    <3>2. browser'[b].state = 0 /\ \A d \in Browsers \ {b} : browser'[d] = browser[d]
      BY <3>1 DEF GateTypeOK, NoVisit
    <3>3. QED
      BY <1>1, <2>2, <3>2 DEF StateInv
  <2>5. QED
    BY <2>3, <2>4
<1>5. CASE \E b \in Browsers : ExchangeCode(b)
  <2>1. PICK b \in Browsers : ExchangeCode(b)
    BY <1>5
  <2> DEFINE s == browser[b].state
  <2>2. s \in Issued /\ browser[b].provider \in Providers
    BY <2>1 DEF ExchangeCode, GateTypeOK
  <2>3. exchanged[s] = <<>> /\ browser[b].provider = issuedFor[s]
    BY <2>2 DEF StateInv
  <2>4. exchanged'[s] = <<issuedFor[s]>>
    <3>1. exchanged'[s] = Append(exchanged[s], browser[b].provider)
      BY <2>1, <2>2 DEF ExchangeCode, GateTypeOK
    <3>2. QED
      BY <2>2, <2>3, <3>1
  <2>5. \A t \in Issued \ {s} : exchanged'[t] = exchanged[t]
    BY <2>1, <2>2 DEF ExchangeCode, GateTypeOK
  <2>6. browser'[b].state = 0 /\ \A d \in Browsers \ {b} : browser'[d] = browser[d]
    BY <2>1 DEF ExchangeCode, GateTypeOK, NoVisit
  <2>7. UNCHANGED <<live, issuedFor>> /\ Issued' = Issued
    BY <2>1 DEF ExchangeCode, Issued
  <2>8. \A d \in Browsers : d # b => browser[d].state # s
    BY <2>2 DEF StateInv
  <2>9. s \notin live
    BY <2>2 DEF StateInv
  <2>10. \A d \in Browsers : browser'[d].state # s
    BY <1>1, <2>2, <2>6, <2>8
  <2>11. ASSUME NEW t \in Issued, t # s
         PROVE  \A d \in Browsers : browser'[d].state = t => d # b /\ browser[d].state = t
    BY <1>1, <2>6
  <2>12. ASSUME NEW t \in Issued
         PROVE  /\ t \in live' => exchanged'[t] = <<>> /\ \A d \in Browsers : browser'[d].state # t
                /\ \A d \in Browsers : browser'[d].state = t =>
                      exchanged'[t] = <<>> /\ browser'[d].provider = issuedFor'[t]
                /\ \A c, d \in Browsers : browser'[c].state = t /\ browser'[d].state = t => c = d
                /\ exchanged'[t] \in {<<>>, <<issuedFor'[t]>>}
    <3>1. CASE t = s
      BY <2>4, <2>7, <2>9, <2>10, <3>1
    <3>2. CASE t # s
      BY <2>5, <2>6, <2>7, <2>11, <3>2 DEF StateInv
    <3>3. QED
      BY <3>1, <3>2
  <2>13. QED
    BY <2>7, <2>12 DEF StateInv
<1>6. CASE Break
  <2>1. /\ UNCHANGED <<live, issuedFor, exchanged>> /\ Issued' = Issued
        /\ \A d \in Browsers : browser'[d] \in {browser[d], NoVisit}
    BY <1>6 DEF Break, Issued, GateTypeOK
  <2>2. \A d \in Browsers : browser'[d].state \in Issued => browser'[d] = browser[d]
    BY <1>1, <2>1 DEF NoVisit
  <2>3. QED
    BY <2>1, <2>2 DEF StateInv
<1>7. CASE UNCHANGED stateVars
  BY <1>7 DEF stateVars, StateInv, Issued
<1>8. QED
  BY <1>2, <1>3, <1>4, <1>5, <1>6, <1>7
     DEF GateNext, CountRequest, SetExpiry, WindowEnds, gateVars

\* A state lets one callback through at most, and only one of the provider it
\* was issued for, though browsers may repeat a callback at any moment.
THEOREM StatesWorkOnce == GateSpec => []StateUsedOnce
<1>1. GateInit => GateTypeOK /\ StateInv
  <2>1. GateInit => StateInv
    BY DEF GateInit, StateInv, Issued
  <2>2. QED
    BY <2>1, InitType
<1>2. GateTypeOK /\ StateInv /\ [GateNext]_gateVars => GateTypeOK' /\ StateInv'
  BY NextType, StateInvNext
<1>3. GateTypeOK /\ StateInv => StateUsedOnce
  <2> SUFFICES ASSUME GateTypeOK, StateInv, NEW s \in Issued
               PROVE  LET under == {b \in Browsers : browser[b].state = s}
                      IN /\ Len(exchanged[s]) + Cardinality(under) <= 1
                         /\ \A b \in under : browser[b].provider = issuedFor[s]
                         /\ \A i \in DOMAIN exchanged[s] : exchanged[s][i] = issuedFor[s]
    BY DEF StateUsedOnce
  <2> DEFINE under == {b \in Browsers : browser[b].state = s}
  <2>1. \A b \in under : browser[b].provider = issuedFor[s]
    BY DEF StateInv
  <2>2. exchanged[s] \in {<<>>, <<issuedFor[s]>>}
    BY DEF StateInv
  <2>3. \A i \in DOMAIN exchanged[s] : exchanged[s][i] = issuedFor[s]
    BY <2>2
  <2>4. CASE under = {}
    <3>1. Cardinality(under) = 0
      BY <2>4, FS_EmptySet
    <3>2. Len(exchanged[s]) = 0 \/ Len(exchanged[s]) = 1
      BY <2>2
    <3>3. Len(exchanged[s]) + Cardinality(under) <= 1
      <4> DEFINE n == Len(exchanged[s])
      <4> DEFINE c == Cardinality(under)
      <4>1. n \in {0, 1} /\ c \in {0}
        BY <3>1, <3>2
      <4> HIDE DEF n, c
      <4>2. n + c <= 1
        BY <4>1
      <4>3. QED
        BY <4>2 DEF n, c
    <3>4. QED
      BY <2>1, <2>3, <3>3
  <2>5. CASE under # {}
    <3>1. PICK b \in under : TRUE
      BY <2>5
    <3>2. under = {b}
      BY <3>1 DEF StateInv
    <3>3. Cardinality(under) = 1
      BY <3>2, FS_Singleton
    <3>4. Len(exchanged[s]) = 0
      BY <3>1 DEF StateInv
    <3>5. QED
      BY <2>1, <2>3, <3>3, <3>4
  <2>6. QED
    BY <2>4, <2>5
<1>4. QED
  BY <1>1, <1>2, <1>3, PTL DEF GateSpec
=============================================================================
