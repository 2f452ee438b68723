------------------------------ MODULE LiveFeed ------------------------------
(***************************************************************************)
(* What the live feed promises to the client behind a socket.              *)
(*                                                                         *)
(* From the moment it joins, a socket is handed the events for its user,   *)
(* one after the other and without a gap, until it is given up; a socket   *)
(* that has been given up is handed nothing any more and never joins       *)
(* again.  The next event happens only when every socket has been handed   *)
(* the last one or has been given up, so that none falls behind by more    *)
(* than one event.                                                         *)
(***************************************************************************)
EXTENDS Naturals, Sequences

CONSTANTS Users, Sockets, Owner

VARIABLES
    log,         \* whom each event is for
    fresh,       \* sockets that have not joined yet
    open,        \* sockets that have joined and have not been given up
    joined,      \* number of events before the socket joined
    delivered    \* the events handed to a socket, by number

vars == <<log, fresh, open, joined, delivered>>

Init ==
    /\ log = <<>>
    /\ fresh = Sockets
    /\ open = {}
    /\ joined = [s \in Sockets |-> 0]
    /\ delivered = [s \in Sockets |-> {}]

\* The events that s should have been handed by now and has not.
Missing(s) ==
    {e \in 1..Len(log) : e > joined[s] /\ log[e] \in {Owner[s], "everyone"}} \ delivered[s]

Join(s) ==
    /\ s \in fresh
    /\ fresh' = fresh \ {s}
    /\ open' = open \cup {s}
    /\ joined' = [joined EXCEPT ![s] = Len(log)]
    /\ UNCHANGED <<log, delivered>>

Happen(to) ==
    /\ \A s \in open : Missing(s) = {}
    /\ log' = Append(log, to)
    /\ UNCHANGED <<fresh, open, joined, delivered>>

\* The oldest event that is missing, and perhaps the last one for s.
HandOver(s) ==
    /\ s \in open
    /\ \E e \in Missing(s) :
          /\ \A d \in Missing(s) : e <= d
          /\ delivered' = [delivered EXCEPT ![s] = @ \cup {e}]
    /\ open' \in {open, open \ {s}}
    /\ UNCHANGED <<log, fresh, joined>>

GiveUp ==
    /\ open' \in SUBSET open
    /\ UNCHANGED <<log, fresh, joined, delivered>>

Next ==
    \/ \E s \in Sockets : Join(s) \/ HandOver(s)
    \/ \E to \in Users \cup {"everyone"} : Happen(to)
    \/ GiveUp

Spec == Init /\ [][Next]_vars
=============================================================================
