---------------------------- MODULE BotLifecycle ----------------------------
(***************************************************************************)
(* What the backend promises about the status a user sees for a bot.       *)
(*                                                                         *)
(* A bot is created as a draft.  It stays a draft, whatever the engine     *)
(* reports, until a start has been requested for it; it never becomes a    *)
(* draft again; the first status after draft is one that a start leads to; *)
(* and a deleted bot never comes back.  Beyond that the status follows the *)
(* engine and the user's requests in any order, since every writer of      *)
(* bots.status writes it unconditionally.                                  *)
(***************************************************************************)
CONSTANT Bots

VARIABLES
    status,     \* status[b]: committed status of b, "none" or "deleted" without a row
    activated   \* bots for which a start has been issued

vars == <<status, activated>>

\* BotStatus without draft: the statuses that only a start makes reachable.
Operating == {"starting", "running", "stopping", "stopped", "error"}

\* The statuses a draft may turn into.
FirstStatus == {"starting", "running", "error"}

Statuses == {"draft"} \cup Operating

TypeOK ==
    /\ status \in [Bots -> Statuses \cup {"none", "deleted"}]
    /\ activated \subseteq Bots

Init ==
    /\ status = [b \in Bots |-> "none"]
    /\ activated = {}

Create(b) ==
    /\ status[b] = "none"
    /\ status' = [status EXCEPT ![b] = "draft"]
    /\ UNCHANGED activated

Activate(b) ==
    /\ activated' = activated \cup {b}
    /\ UNCHANGED status

\* The moves one bot may make when its status is reported.
LegalMove(b, s) ==
    \/ s = status[b]
    \/ /\ b \in activated
       /\ status[b] \in Statuses
       /\ s \in IF status[b] = "draft" THEN FirstStatus ELSE Operating

\* One transaction may report several bots: a heartbeat does.
Report ==
    /\ \E new \in [Bots -> Statuses \cup {"none", "deleted"}] :
          /\ \A b \in Bots : LegalMove(b, new[b])
          /\ status' = new
    /\ UNCHANGED activated

Delete(b) ==
    /\ status[b] \in Statuses
    /\ status' = [status EXCEPT ![b] = "deleted"]
    /\ UNCHANGED activated

Next ==
    \/ \E b \in Bots : Create(b) \/ Activate(b) \/ Delete(b)
    \/ Report

Spec == Init /\ [][Next]_vars
=============================================================================
