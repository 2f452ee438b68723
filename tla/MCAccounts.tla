----------------------------- MODULE MCAccounts -----------------------------
(* Instances for TLC of what concerns a user's account: SignIn with two      *)
(* spellings of one address, one provider account and two handlers; the      *)
(* LoginGate before it; and the Cabinet behind it.                           *)
(*                                                                           *)
(* The three share no state.  So each behaviour moves one of them only, the  *)
(* one in focus, and TLC explores the sum of their states and not the        *)
(* product.  SignIn itself is in focus twice: its codes, and its rows.       *)
EXTENDS SignIn, Cabinet, LoginGate, TLC

CONSTANTS upper, lower, key, subject, r1, r2, p1, p2, s1, s2, s3, none, Focuses

VARIABLE focus

\* SignIn.
TwoSpellings == {upper, lower}
OneKey == {key}
SameKey == [e \in TwoSpellings |-> key]
OneSubject == {subject}
TwoRequests == {r1, r2}

\* Cabinet: two of the three secrets begin alike.
Secrets == {s1, s2, s3}
Beginnings == [s \in Secrets |-> IF s = s3 THEN subject ELSE key]

\* LoginGate.
TwoProviders == {p1, p2}

\* What the proofs about LoginGate assume of its constants.
ASSUME GateAssumption == Configured

\* SignIn is looked at twice: with codes and no provider, and with providers
\* and no second code.
CodesNext == Next /\ \A r \in Requests : req'[r].subject = NoName
RowsNext  == Next /\ issued' <= 1

MCInit ==
    /\ focus \in Focuses
    /\ Init /\ CabinetInit /\ GateInit

MCNext ==
    \/ focus = "codes"   /\ CodesNext   /\ UNCHANGED <<focus, cabinetVars, gateVars>>
    \/ focus = "rows"    /\ RowsNext    /\ UNCHANGED <<focus, cabinetVars, gateVars>>
    \/ focus = "cabinet" /\ CabinetNext /\ UNCHANGED <<focus, vars, gateVars>>
    \/ focus = "gate"    /\ GateNext    /\ UNCHANGED <<focus, vars, cabinetVars>>

MCSpec == MCInit /\ [][MCNext]_<<focus, vars, cabinetVars, gateVars>>

AllFocuses == {"codes", "rows", "cabinet", "gate"}
CabinetOnly == {"cabinet"}
CodesOnly == {"codes"}

\* Handlers are alike, and so are spellings.
Symmetry == Permutations({r1, r2}) \cup Permutations({upper, lower})
=============================================================================
