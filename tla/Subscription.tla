---------------------------- MODULE Subscription ----------------------------
(***************************************************************************)
(* What the rest of the backend may rely on of its Redis subscriber.       *)
(*                                                                         *)
(* Messages are handled one at a time, each at most once, in the order in  *)
(* which they have come.  Only the loss of the connection, or of the       *)
(* process, loses messages, and then it loses all that wait; nothing comes *)
(* in before the next subscription, which does not begin while a message   *)
(* is still being handled.                                                 *)
(***************************************************************************)
EXTENDS Sequences

CONSTANT Messages

VARIABLES
    waiting,      \* messages that wait in the connection
    subscribed,
    handling      \* the message being handled, a set of at most one

vars == <<waiting, subscribed, handling>>

Init ==
    /\ waiting = <<>>
    /\ subscribed = TRUE
    /\ handling = {}

Arrive(m) ==
    /\ subscribed
    /\ waiting' = Append(waiting, m)
    /\ UNCHANGED <<subscribed, handling>>

Take ==
    /\ handling = {} /\ waiting # <<>>
    /\ handling' = {Head(waiting)}
    /\ waiting' = Tail(waiting)
    /\ UNCHANGED subscribed

Finish ==
    /\ handling # {}
    /\ handling' = {}
    /\ UNCHANGED <<waiting, subscribed>>

\* With the connection alone the message being handled may be finished or not.
Lose ==
    /\ subscribed' = FALSE
    /\ waiting' = <<>>
    /\ handling' \in {handling, {}}

Resubscribe ==
    /\ ~ subscribed /\ handling = {}
    /\ subscribed' = TRUE
    /\ UNCHANGED <<waiting, handling>>

Next ==
    \/ \E m \in Messages : Arrive(m)
    \/ Take \/ Finish \/ Lose \/ Resubscribe

Spec == Init /\ [][Next]_vars
=============================================================================
