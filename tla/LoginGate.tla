------------------------------ MODULE LoginGate ------------------------------
(***************************************************************************)
(* What stands before a sign-in: the counter of code requests of one       *)
(* client address, and the states that tie the callback of a provider to   *)
(* the start of a sign-in.  Both are keys in Redis that expire.            *)
(*                                                                         *)
(* Left out: the captcha, which is asked first and keeps no state; other   *)
(* client addresses; the forms of provider URLs; the sign-in itself, which *)
(* is the module SignIn.                                                   *)
(***************************************************************************)
EXTENDS Naturals, Sequences, FiniteSets

CONSTANTS
    Clients,       \* requests for a code that may run at the same time
    Providers,     \* providers that are configured
    Browsers,      \* callbacks that may run at the same time
    Nowhere,       \* not a provider
    RateLimit,     \* requests for a code per window
    MaxTries,      \* bound: requests for a code
    MaxStates,     \* bound: states issued
    MaxBreaks      \* bound: requests cut off by a failure

VARIABLES
    count,      \* auth:rate:<ip>, 0 if there is no key
    expires,    \* whether that key has a time to live
    client,     \* requests for a code: "expire" is before the EXPIRE of a new key
    tries,
    breaks,
    granted,    \* history: requests let through since the key was made
    live,       \* auth:oauth_state:<state>: the provider of each live state
    issuedFor,  \* history: the provider each state was issued for
    browser,    \* callbacks: the state and the provider they go on with
    exchanged   \* history: the providers asked to redeem a code, by state

rateVars  == <<count, expires, client, tries, granted>>
stateVars == <<live, issuedFor, browser, exchanged>>
gateVars == <<rateVars, stateVars, breaks>>

\* States are numbered in the order in which they are issued.
Issued == DOMAIN issuedFor
NoVisit == [state |-> 0, provider |-> Nowhere]

GateTypeOK ==
    /\ count \in Nat
    /\ expires \in BOOLEAN
    /\ client \in [Clients -> {"idle", "expire"}]
    /\ tries \in Nat
    /\ breaks \in Nat
    /\ granted \in Nat
    /\ issuedFor \in Seq(Providers)
    /\ live \subseteq Issued
    /\ browser \in [Browsers -> [state : Issued, provider : Providers] \cup {NoVisit}]
    /\ exchanged \in [Issued -> Seq(Providers)]

GateInit ==
    /\ count = 0
    /\ expires = FALSE
    /\ client = [c \in Clients |-> "idle"]
    /\ tries = 0
    /\ breaks = 0
    /\ granted = 0
    /\ live = {}
    /\ issuedFor = <<>>
    /\ browser = [b \in Browsers |-> NoVisit]
    /\ exchanged = <<>>

\* At least one request for a code is let through.
Configured == RateLimit \in Nat \ {0}

-----------------------------------------------------------------------------
(* The counter of code requests.                                           *)

\* Variant with a bug: one request too many.
TooManyLate(n) == n > RateLimit + 1

TooMany(n) == n > RateLimit

\* Variant with a bug: the window starts when it is full.
OpensWindowLate(n) == n = RateLimit

OpensWindow(n) == n = 1

\* INCR; the first of a window has yet to set the time to live.
CountRequest(c) ==
    /\ client[c] = "idle"
    /\ tries < MaxTries
    /\ tries' = tries + 1
    /\ count' = count + 1
    /\ IF OpensWindow(count + 1)
       THEN client' = [client EXCEPT ![c] = "expire"] /\ UNCHANGED granted
       ELSE granted' = (IF TooMany(count + 1) THEN granted ELSE granted + 1) /\ UNCHANGED client
    /\ UNCHANGED <<expires, stateVars, breaks>>

\* EXPIRE, and the decision about that first request.
SetExpiry(c) ==
    /\ client[c] = "expire"
    /\ client' = [client EXCEPT ![c] = "idle"]
    /\ expires' = (count > 0)
    /\ granted' = IF TooMany(1) THEN granted ELSE granted + 1
    /\ UNCHANGED <<count, tries, stateVars, breaks>>

\* The minute is over.
WindowEnds ==
    /\ expires
    /\ count' = 0
    /\ expires' = FALSE
    /\ granted' = 0
    /\ UNCHANGED <<client, tries, stateVars, breaks>>

-----------------------------------------------------------------------------
(* States of a sign-in by a provider.                                      *)

\* GET /{provider}/start: a fresh state, and a redirection to the provider.
Start(p) ==
    /\ Len(issuedFor) < MaxStates
    /\ issuedFor' = Append(issuedFor, p)
    /\ live' = live \cup {Len(issuedFor) + 1}
    /\ exchanged' = Append(exchanged, <<>>)
    /\ UNCHANGED <<browser, rateVars, breaks>>

ExpireState(s) ==
    /\ s \in live
    /\ live' = live \ {s}
    /\ UNCHANGED <<issuedFor, browser, exchanged, rateVars, breaks>>

\* Variant with a bug: a state is forgotten only when it turns out wrong.
ConsumeStateKeeping(b, s, p) ==
    /\ browser[b] = NoVisit
    /\ live' = IF s \in live /\ issuedFor[s] = p THEN live ELSE live \ {s}
    /\ browser' = [browser EXCEPT ![b] =
                      IF s \in live /\ issuedFor[s] = p THEN [state |-> s, provider |-> p] ELSE NoVisit]
    /\ UNCHANGED <<issuedFor, exchanged, rateVars, breaks>>

\* GET and DELETE in one transaction of Redis: the state is gone, whether it
\* was issued for the provider p of this callback or not.
ConsumeState(b, s, p) ==
    /\ browser[b] = NoVisit
    /\ live' = live \ {s}
    /\ browser' = [browser EXCEPT ![b] =
                      IF s \in live /\ issuedFor[s] = p THEN [state |-> s, provider |-> p] ELSE NoVisit]
    /\ UNCHANGED <<issuedFor, exchanged, rateVars, breaks>>

\* The code is redeemed; what comes of it, a sign-in or a 502, is not of here.
ExchangeCode(b) ==
    /\ browser[b] # NoVisit
    /\ exchanged' = [exchanged EXCEPT ![browser[b].state] = Append(@, browser[b].provider)]
    /\ browser' = [browser EXCEPT ![b] = NoVisit]
    /\ UNCHANGED <<live, issuedFor, rateVars, breaks>>

-----------------------------------------------------------------------------
\* A failure cuts off a request for a code, or a callback.
Break ==
    /\ breaks < MaxBreaks
    /\ breaks' = breaks + 1
    /\ \/ \E c \in Clients : /\ client[c] # "idle"
                             /\ client' = [client EXCEPT ![c] = "idle"]
                             /\ UNCHANGED browser
       \/ \E b \in Browsers : /\ browser[b] # NoVisit
                              /\ browser' = [browser EXCEPT ![b] = NoVisit]
                              /\ UNCHANGED client
    /\ UNCHANGED <<count, expires, tries, granted, live, issuedFor, exchanged>>

GateNext ==
    \/ \E c \in Clients : CountRequest(c) \/ SetExpiry(c)
    \/ WindowEnds
    \/ \E p \in Providers : Start(p)
    \/ \E s \in Issued : ExpireState(s)
    \/ \E b \in Browsers :
         \/ \E s \in Issued, p \in Providers : ConsumeState(b, s, p)
         \/ ExchangeCode(b)
    \/ Break

GateSpec == GateInit /\ [][GateNext]_gateVars

-----------------------------------------------------------------------------
(* Properties.                                                             *)

\* No window lets more than RateLimit requests through, however they interleave.
LimitHolds == granted <= RateLimit

\* A counter that nobody will ever clear, so that its client is locked out for
\* good, takes a failure between INCR and EXPIRE.
CounterExpires ==
    count > 0 => expires \/ breaks > 0 \/ \E c \in Clients : client[c] = "expire"

\* "one-shot": a state lets one callback through at most, though the browser
\* may repeat it, and only one of the provider it was issued for.
StateUsedOnce ==
    \A s \in Issued :
        LET under == {b \in Browsers : browser[b].state = s}
        IN /\ Len(exchanged[s]) + Cardinality(under) <= 1
           /\ \A b \in under : browser[b].provider = issuedFor[s]
           /\ \A i \in DOMAIN exchanged[s] : exchanged[s][i] = issuedFor[s]
=============================================================================
