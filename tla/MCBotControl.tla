---------------------------- MODULE MCBotControl ----------------------------
(* Instances of BotControl for TLC. *)
EXTENDS BotControl, TLC

CONSTANTS b1, b2, r1, r2

OneBot == {b1}
TwoBots == {b1, b2}
OneRequest == {r1}
TwoRequests == {r1, r2}

Symmetry == Permutations(Bots) \cup Permutations(Requests)
=============================================================================
