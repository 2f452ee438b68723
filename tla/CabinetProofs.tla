--------------------------- MODULE CabinetProofs ---------------------------
(***************************************************************************)
(* Proofs about Cabinet, for any handlers, secrets and prefixes, and any   *)
(* number of setups and failures.                                          *)
(***************************************************************************)
EXTENDS Cabinet, FiniteSetTheorems, TLAPS

-----------------------------------------------------------------------------
(* Types, and what a handler at work may rely on.  The two go together: a   *)
(* commit stores what the handler carries, so the types of the rows depend  *)
(* on what each step of the handlers has established.                       *)

\* A handler j, by the secrets proven, and the keys made, shown and dropped.
Sound(j, P, M, S, D) ==
    /\ j \in Jobs
    /\ j.pc = "verify" => j.secret = 0
    /\ j.pc \in {"update", "flushed", "answered"} => j.secret \in P \cup {0}
    /\ j.pc \in {"insert", "shown", "drop"} => j.key \in M
    /\ j.pc = "shown" => j.key \in S
    /\ j.pc = "drop" => j.key \in D

HandlersSound == \A h \in Handlers : Sound(handler[h], proven, made, shown, dropped)

Inv ==
    /\ CabinetTypeOK
    /\ HandlersSound
    /\ account.secret \in proven \cup {0}
    /\ apiKeys \subseteq shown

\* What is known is never forgotten.
Grow == proven \subseteq proven' /\ made \subseteq made' /\ shown \subseteq shown' /\ dropped \subseteq dropped'

LEMMA IdleSound == ASSUME NEW P, NEW M, NEW S, NEW D PROVE Sound(IdleJob, P, M, S, D)
BY DEF Sound, IdleJob, Jobs, JobSteps, Accounts, Off

\* One handler moves on, the others stay where they are.
LEMMA BecomeSound ==
    ASSUME Inv, NEW h \in Handlers, NEW j, SetJob(h, j), Grow,
           Sound(j, proven', made', shown', dropped')
    PROVE  handler' \in [Handlers -> Jobs] /\ HandlersSound'
<1>1. ASSUME NEW g \in Handlers PROVE Sound(handler'[g], proven', made', shown', dropped')
  <2>1. CASE g = h
    <3>1. handler'[g] = j
      BY <2>1 DEF SetJob, Inv, CabinetTypeOK
    <3>2. QED
      BY <3>1
  <2>2. CASE g # h
    <3>1. handler'[g] = handler[g]
      BY <2>2 DEF SetJob, Inv, CabinetTypeOK
    <3>2. Sound(handler[g], proven, made, shown, dropped)
      BY DEF Inv, HandlersSound
    <3>3. QED
      BY <3>1, <3>2 DEF Sound, Grow
  <2>3. QED
    BY <2>1, <2>2
<1>2. handler' = [handler EXCEPT ![h] = j] /\ j \in Jobs /\ handler \in [Handlers -> Jobs]
  BY DEF SetJob, Sound, Inv, CabinetTypeOK
<1>3. QED
  BY <1>1, <1>2 DEF HandlersSound

LEMMA InitInv == ASSUME CabinetInit PROVE Inv
<1>1. IdleJob \in Jobs
  BY DEF IdleJob, Jobs, JobSteps, Accounts, Off
<1>2. HandlersSound
  BY IdleSound DEF CabinetInit, HandlersSound
<1>3. QED
  BY <1>1, <1>2 DEF CabinetInit, Inv, CabinetTypeOK, Accounts, Off

LEMMA NextInv == ASSUME Inv, [CabinetNext]_cabinetVars PROVE Inv'
<1> USE DEF twoFaVars, keyVars
<1>1. CASE Setup
  <2>1. setupKey' \in 0..drawn' /\ drawn' \in Nat /\ 1..drawn \subseteq 1..drawn'
    BY <1>1 DEF Setup, Inv, CabinetTypeOK
  <2>2. QED
    BY <1>1, <2>1 DEF Setup, Inv, CabinetTypeOK, HandlersSound
<1>2. CASE ExpireSetup
  BY <1>2 DEF ExpireSetup, Inv, CabinetTypeOK, HandlersSound
<1>3. ASSUME NEW h \in Handlers, BeginVerify(h) PROVE Inv'
  <2> DEFINE j == [IdleJob EXCEPT !.pc = "verify", !.loaded = account]
  <2>1. SetJob(h, j) /\ UNCHANGED <<setupKey, account, drawn, proven, adopted, keyVars, errors>>
    BY <1>3 DEF BeginVerify
  <2>2. Sound(j, proven', made', shown', dropped')
    BY DEF Inv, CabinetTypeOK, Sound, IdleJob, Jobs, JobSteps
  <2> HIDE DEF j
  <2>3. handler' \in [Handlers -> Jobs] /\ HandlersSound'
    BY <2>1, <2>2, BecomeSound DEF Grow
  <2>4. QED
    BY <2>1, <2>3 DEF Inv, CabinetTypeOK
<1>4. ASSUME NEW h \in Handlers, CheckCode(h) PROVE Inv'
  <2>1. CASE SetJob(h, IdleJob) /\ UNCHANGED proven
    <3>1. handler' \in [Handlers -> Jobs] /\ HandlersSound'
      BY <1>4, <2>1, IdleSound, BecomeSound DEF CheckCode, Grow
    <3>2. QED
      BY <1>4, <2>1, <3>1 DEF CheckCode, Inv, CabinetTypeOK
  <2>2. CASE /\ setupKey # 0
             /\ SetJob(h, [handler[h] EXCEPT !.pc = "update", !.secret = setupKey])
             /\ proven' = proven \cup {setupKey}
    <3> DEFINE j == [handler[h] EXCEPT !.pc = "update", !.secret = setupKey]
    <3>1. handler[h] \in Jobs /\ setupKey \in 1..drawn /\ setupKey \in Nat
      BY <2>2 DEF Inv, CabinetTypeOK
    <3>2. j \in Jobs /\ j.pc = "update" /\ j.secret = setupKey
      BY <3>1 DEF Jobs, JobSteps
    <3>3. SetJob(h, j)
      BY <2>2
    <3> HIDE DEF j
    <3>4. Sound(j, proven', made', shown', dropped')
      BY <2>2, <3>2 DEF Sound
    <3>5. handler' \in [Handlers -> Jobs] /\ HandlersSound'
      BY <1>4, <2>2, <3>3, <3>4, BecomeSound DEF CheckCode, Grow
    <3>6. QED
      BY <1>4, <2>2, <3>1, <3>5 DEF CheckCode, Inv, CabinetTypeOK
  <2>3. QED
    BY <1>4, <2>1, <2>2 DEF CheckCode
<1>5. ASSUME NEW h \in Handlers, BeginDisable(h) PROVE Inv'
  <2> DEFINE j == [IdleJob EXCEPT !.pc = "update", !.loaded = account]
  <2>1. SetJob(h, j) /\ UNCHANGED <<setupKey, account, drawn, proven, adopted, keyVars, errors>>
    BY <1>5 DEF BeginDisable
  <2>2. Sound(j, proven', made', shown', dropped')
    BY DEF Inv, CabinetTypeOK, Sound, IdleJob, Jobs, JobSteps
  <2> HIDE DEF j
  <2>3. handler' \in [Handlers -> Jobs] /\ HandlersSound'
    BY <2>1, <2>2, BecomeSound DEF Grow
  <2>4. QED
    BY <2>1, <2>3 DEF Inv, CabinetTypeOK
<1>6. ASSUME NEW h \in Handlers, FlushUser(h) PROVE Inv'
  <2> DEFINE j == [handler[h] EXCEPT !.pc = "flushed"]
  <2>1. handler[h] \in Jobs /\ handler[h].secret \in proven \cup {0}
    BY <1>6 DEF FlushUser, Inv, CabinetTypeOK, HandlersSound, Sound
  <2>2. j \in Jobs /\ j.pc = "flushed" /\ j.secret = handler[h].secret
    BY <2>1 DEF Jobs, JobSteps
  <2>3. SetJob(h, j) /\ UNCHANGED <<twoFaVars, keyVars, errors>>
    BY <1>6 DEF FlushUser, MoveJob
  <2> HIDE DEF j
  <2>4. Sound(j, proven', made', shown', dropped')
    BY <2>1, <2>2, <2>3 DEF Sound
  <2>5. handler' \in [Handlers -> Jobs] /\ HandlersSound'
    BY <2>3, <2>4, BecomeSound DEF Grow
  <2>6. QED
    BY <2>3, <2>5 DEF Inv, CabinetTypeOK
<1>7. ASSUME NEW h \in Handlers, DropSetup(h) PROVE Inv'
  <2> DEFINE j == [handler[h] EXCEPT !.pc = "answered"]
  <2>1. handler[h] \in Jobs /\ handler[h].secret \in proven \cup {0}
    BY <1>7 DEF DropSetup, Inv, CabinetTypeOK, HandlersSound, Sound
  <2>2. j \in Jobs /\ j.pc = "answered" /\ j.secret = handler[h].secret
    BY <2>1 DEF Jobs, JobSteps
  <2>3. SetJob(h, j) /\ setupKey' = 0 /\ UNCHANGED <<account, drawn, proven, adopted, keyVars, errors>>
    BY <1>7 DEF DropSetup, MoveJob
  <2> HIDE DEF j
  <2>4. Sound(j, proven', made', shown', dropped')
    BY <2>1, <2>2, <2>3 DEF Sound
  <2>5. handler' \in [Handlers -> Jobs] /\ HandlersSound'
    BY <2>3, <2>4, BecomeSound DEF Grow
  <2>6. QED
    BY <2>3, <2>5 DEF Inv, CabinetTypeOK
<1>8. ASSUME NEW h \in Handlers, CommitUser(h) PROVE Inv'
  <2>1. handler[h] \in Jobs /\ handler[h].secret \in proven \cup {0} /\ handler[h].secret \in Nat
    BY <1>8 DEF CommitUser, Inv, CabinetTypeOK, HandlersSound, Sound, Jobs
  <2>2. account' \in Accounts /\ account'.secret \in {account.secret, handler[h].secret}
    BY <1>8, <2>1 DEF CommitUser, Updated, Inv, CabinetTypeOK, Accounts
  <2>3. adopted' \subseteq proven
    BY <1>8, <2>1 DEF CommitUser, Inv, CabinetTypeOK
  <2>4. handler' \in [Handlers -> Jobs] /\ HandlersSound'
    BY <1>8, IdleSound, BecomeSound DEF CommitUser, Grow
  <2>5. QED
    BY <1>8, <2>1, <2>2, <2>3, <2>4 DEF CommitUser, Inv, CabinetTypeOK
<1>9. ASSUME NEW h \in Handlers, NEW s \in ApiSecrets, CreateKey(h, s) PROVE Inv'
  <2>1. Grow /\ made' = made \cup {s} /\ UNCHANGED <<twoFaVars, apiKeys, shown, dropped, errors>>
    BY <1>9 DEF CreateKey, Grow
  <2>2. handler' \in [Handlers -> Jobs] /\ HandlersSound'
    <3>1. CASE UNCHANGED handler
      BY <2>1, <3>1 DEF Inv, CabinetTypeOK, HandlersSound, Sound
    <3>2. CASE SetJob(h, [IdleJob EXCEPT !.pc = "insert", !.key = s])
      <4> DEFINE j == [IdleJob EXCEPT !.pc = "insert", !.key = s]
      <4>1. Sound(j, proven', made', shown', dropped')
        BY <2>1 DEF Sound, IdleJob, Jobs, JobSteps, Accounts, Off
      <4> HIDE DEF j
      <4>2. SetJob(h, j)
        BY <3>2 DEF j
      <4>3. QED
        BY <2>1, <4>1, <4>2, BecomeSound
    <3>3. QED
      BY <1>9, <3>1, <3>2 DEF CreateKey
  <2>3. QED
    BY <2>1, <2>2 DEF Inv, CabinetTypeOK
<1>10. ASSUME NEW h \in Handlers, ShowKey(h) PROVE Inv'
  <2> DEFINE j == [handler[h] EXCEPT !.pc = "shown"]
  <2>1. handler[h] \in Jobs /\ handler[h].key \in made
    BY <1>10 DEF ShowKey, Inv, CabinetTypeOK, HandlersSound, Sound
  <2>2. j \in Jobs /\ j.pc = "shown" /\ j.key = handler[h].key
    BY <2>1 DEF Jobs, JobSteps
  <2>3. /\ SetJob(h, j) /\ shown' = shown \cup {handler[h].key}
        /\ UNCHANGED <<twoFaVars, apiKeys, made, dropped, errors>>
    BY <1>10 DEF ShowKey, MoveJob
  <2> HIDE DEF j
  <2>4. Sound(j, proven', made', shown', dropped')
    BY <2>1, <2>2, <2>3 DEF Sound
  <2>5. handler' \in [Handlers -> Jobs] /\ HandlersSound'
    BY <2>3, <2>4, BecomeSound DEF Grow
  <2>6. QED
    BY <2>1, <2>3, <2>5 DEF Inv, CabinetTypeOK
<1>11. ASSUME NEW h \in Handlers, NEW s \in ApiSecrets, DeleteKey(h, s) PROVE Inv'
  <2> DEFINE j == [IdleJob EXCEPT !.pc = "drop", !.key = s]
  <2>1. /\ SetJob(h, j) /\ dropped' = dropped \cup {s} /\ s \in made
        /\ UNCHANGED <<twoFaVars, apiKeys, made, shown, errors>>
    BY <1>11 DEF DeleteKey, Inv, CabinetTypeOK
  <2>2. Sound(j, proven', made', shown', dropped')
    BY <2>1 DEF Sound, IdleJob, Jobs, JobSteps, Accounts, Off
  <2> HIDE DEF j
  <2>3. handler' \in [Handlers -> Jobs] /\ HandlersSound'
    BY <2>1, <2>2, BecomeSound DEF Grow
  <2>4. QED
    BY <2>1, <2>3 DEF Inv, CabinetTypeOK
<1>12. ASSUME NEW h \in Handlers, CommitKey(h) PROVE Inv'
  <2>1. handler' \in [Handlers -> Jobs] /\ HandlersSound'
    BY <1>12, IdleSound, BecomeSound DEF CommitKey, Grow
  <2>2. apiKeys' \subseteq shown
    BY <1>12 DEF CommitKey, Inv, HandlersSound, Sound
  <2>3. QED
    BY <1>12, <2>1, <2>2 DEF CommitKey, Inv, CabinetTypeOK
<1>13. ASSUME NEW h \in Handlers, AbortJob(h) PROVE Inv'
  <2>1. handler' \in [Handlers -> Jobs] /\ HandlersSound'
    BY <1>13, IdleSound, BecomeSound DEF AbortJob, Grow
  <2>2. errors' \in Nat
    BY <1>13 DEF AbortJob, Inv, CabinetTypeOK
  <2>3. QED
    BY <1>13, <2>1, <2>2 DEF AbortJob, Inv, CabinetTypeOK
<1>14. CASE UNCHANGED cabinetVars
  BY <1>14 DEF cabinetVars, Inv, CabinetTypeOK, HandlersSound
<1>15. QED
  BY <1>1, <1>2, <1>3, <1>4, <1>5, <1>6, <1>7, <1>8, <1>9, <1>10, <1>11, <1>12, <1>13, <1>14
     DEF CabinetNext, AdvanceJob

\* Every variable keeps its type: only proven secrets are stored, and only keys
\* that were generated have rows.
THEOREM TypeCorrect == CabinetSpec => []CabinetTypeOK
<1>1. Inv => CabinetTypeOK
  BY DEF Inv
<1>2. CabinetInit => Inv
  BY InitInv
<1>3. Inv /\ [CabinetNext]_cabinetVars => Inv'
  BY NextInv
<1>4. QED
  BY <1>1, <1>2, <1>3, PTL DEF CabinetSpec

\* A secret that is stored, or about to be, has been proven, whatever becomes
\* of the pending key between the check of the code and the UPDATE.
THEOREM StoredSecretsAreProven == CabinetSpec => []SecretWasProven
<1>1. Inv => SecretWasProven
  BY DEF Inv, HandlersSound, Sound, SecretWasProven
<1>2. CabinetInit => Inv
  BY InitInv
<1>3. Inv /\ [CabinetNext]_cabinetVars => Inv'
  BY NextInv
<1>4. QED
  BY <1>1, <1>2, <1>3, PTL DEF CabinetSpec

-----------------------------------------------------------------------------
(* Losses.  What is neither stored nor about to be is lost, and each loss   *)
(* takes a failure: every other step hands a secret or a key on.            *)

Pending     == {handler[h].secret : h \in Changing}
LostSecrets == proven \ (adopted \cup Pending)
Due         == {handler[h].key : h \in {g \in Handlers : handler[g].pc = "shown"}}
LostKeys    == shown \ (dropped \cup apiKeys \cup Due)

Bounded(S, n) == IsFiniteSet(S) /\ Cardinality(S) <= n
LossesBounded == Bounded(LostSecrets, errors) /\ Bounded(LostKeys, errors)

ChangingSteps == {"verify", "update", "flushed", "answered"}

LEMMA BoundedSubset ==
    ASSUME NEW S, NEW T, NEW n \in Nat, Bounded(S, n), T \subseteq S
    PROVE  Bounded(T, n)
<1>1. IsFiniteSet(S) /\ IsFiniteSet(T) /\ Cardinality(T) <= Cardinality(S)
  BY FS_Subset DEF Bounded
<1>2. Cardinality(S) \in Nat /\ Cardinality(T) \in Nat /\ Cardinality(S) <= n
  BY <1>1, FS_CardinalityType DEF Bounded
<1> DEFINE cs == Cardinality(S)
           ct == Cardinality(T)
<1>3. ct <= cs /\ cs \in Nat /\ ct \in Nat /\ cs <= n
  BY <1>1, <1>2
<1> HIDE DEF cs, ct
<1>4. ct <= n
  BY <1>3
<1>5. QED
  BY <1>1, <1>4 DEF Bounded, ct

LEMMA BoundedOneMore ==
    ASSUME NEW S, NEW T, NEW x, NEW n \in Nat, Bounded(S, n), T \subseteq S \cup {x}
    PROVE  Bounded(T, n + 1)
<1> DEFINE cs == Cardinality(S)
           cx == Cardinality(S \cup {x})
<1>1. IsFiniteSet(S) /\ cs \in Nat /\ cs <= n
  BY FS_CardinalityType DEF Bounded
<1>2. IsFiniteSet(S \cup {x}) /\ (cx = cs \/ cx = cs + 1)
  BY <1>1, FS_AddElement
<1> HIDE DEF cs, cx
<1>3. cx <= n + 1
  BY <1>1, <1>2
<1>4. Bounded(S \cup {x}, n + 1)
  BY <1>2, <1>3 DEF Bounded, cx
<1>5. n + 1 \in Nat
  OBVIOUS
<1>6. QED
  BY <1>4, <1>5, BoundedSubset

\* What a step of one handler takes from, and adds to, what is on its way.
LEMMA BecomeKeeps ==
    ASSUME CabinetTypeOK, NEW h \in Handlers, NEW j, SetJob(h, j)
    PROVE  /\ Pending \ {handler[h].secret} \subseteq Pending'
           /\ handler[h].pc \notin ChangingSteps => Pending \subseteq Pending'
           /\ j.pc \in ChangingSteps => j.secret \in Pending'
           /\ Due \ {handler[h].key} \subseteq Due'
           /\ handler[h].pc # "shown" => Due \subseteq Due'
           /\ j.pc = "shown" => j.key \in Due'
<1>1. handler'[h] = j
  BY DEF SetJob, CabinetTypeOK
<1>2. \A g \in Handlers : g # h => handler'[g] = handler[g]
  BY DEF SetJob, CabinetTypeOK
<1>3. QED
  BY <1>1, <1>2 DEF Pending, Due, Changing, ChangingSteps

LEMMA InitLosses == ASSUME CabinetInit PROVE LossesBounded
<1>1. LostSecrets = {} /\ LostKeys = {} /\ errors = 0
  BY DEF CabinetInit, LostSecrets, LostKeys
<1>2. IsFiniteSet({}) /\ Cardinality({}) = 0
  BY FS_EmptySet
<1>3. QED
  BY <1>1, <1>2 DEF LossesBounded, Bounded

\* A step loses nothing, or it is a failure of one handler.
NoLoss  == LostSecrets' \subseteq LostSecrets /\ LostKeys' \subseteq LostKeys /\ errors' = errors

LEMMA NoLossKeepsBound ==
    ASSUME Inv, LossesBounded, NoLoss
    PROVE  LossesBounded'
<1>1. Bounded(LostSecrets', errors) /\ Bounded(LostKeys', errors)
  BY BoundedSubset DEF LossesBounded, NoLoss, Inv, CabinetTypeOK
<1>2. QED
  BY <1>1 DEF LossesBounded, NoLoss, Bounded

LEMMA NextLosses == ASSUME Inv, LossesBounded, [CabinetNext]_cabinetVars PROVE LossesBounded'
<1> USE DEF twoFaVars, keyVars
<1>1. CASE Setup \/ ExpireSetup \/ UNCHANGED cabinetVars
  <2>1. NoLoss
    BY <1>1 DEF Setup, ExpireSetup, cabinetVars, NoLoss, LostSecrets, LostKeys, Pending, Due, Changing
  <2>2. QED
    BY <2>1, NoLossKeepsBound
<1>2. ASSUME NEW h \in Handlers, BeginVerify(h) \/ BeginDisable(h) PROVE LossesBounded'
  <2>1. PICK j : SetJob(h, j)
    BY <1>2 DEF BeginVerify, BeginDisable
  <2>2. handler[h].pc = "idle" /\ UNCHANGED <<proven, adopted, keyVars, errors>>
    BY <1>2 DEF BeginVerify, BeginDisable
  <2>3. Pending \subseteq Pending' /\ Due \subseteq Due'
    BY <2>1, <2>2, BecomeKeeps DEF Inv, ChangingSteps
  <2>4. NoLoss
    BY <2>2, <2>3 DEF NoLoss, LostSecrets, LostKeys
  <2>5. QED
    BY <2>4, NoLossKeepsBound
<1>3. ASSUME NEW h \in Handlers, CheckCode(h) PROVE LossesBounded'
  <2>1. /\ handler[h] \in Jobs /\ handler[h].pc = "verify" /\ handler[h].secret = 0
        /\ UNCHANGED <<adopted, keyVars, errors>>
    BY <1>3 DEF CheckCode, Inv, HandlersSound, Sound
  <2>2. CASE SetJob(h, IdleJob) /\ UNCHANGED proven
    <3>1. Pending \ {0} \subseteq Pending' /\ Due \subseteq Due'
      BY <2>1, <2>2, BecomeKeeps DEF Inv
    <3>2. 0 \notin proven
      BY DEF Inv, CabinetTypeOK
    <3>3. NoLoss
      BY <2>1, <2>2, <3>1, <3>2 DEF NoLoss, LostSecrets, LostKeys
    <3>4. QED
      BY <3>3, NoLossKeepsBound
  <2>3. CASE /\ SetJob(h, [handler[h] EXCEPT !.pc = "update", !.secret = setupKey])
             /\ proven' = proven \cup {setupKey}
    <3> DEFINE j == [handler[h] EXCEPT !.pc = "update", !.secret = setupKey]
    <3>1. j.pc = "update" /\ j.secret = setupKey /\ SetJob(h, j)
      BY <2>1, <2>3 DEF Jobs
    <3> HIDE DEF j
    <3>2. Pending \ {0} \subseteq Pending' /\ setupKey \in Pending' /\ Due \subseteq Due'
      BY <2>1, <3>1, BecomeKeeps DEF Inv, ChangingSteps
    <3>3. 0 \notin proven
      BY DEF Inv, CabinetTypeOK
    <3>4. NoLoss
      BY <2>1, <2>3, <3>2, <3>3 DEF NoLoss, LostSecrets, LostKeys
    <3>5. QED
      BY <3>4, NoLossKeepsBound
  <2>4. QED
    BY <1>3, <2>2, <2>3 DEF CheckCode
<1>4. ASSUME NEW h \in Handlers, NEW pc \in {"flushed", "answered"}, MoveJob(h, pc),
             UNCHANGED <<proven, adopted, keyVars, errors>>, handler[h].pc # "shown"
      PROVE  LossesBounded'
  <2> DEFINE j == [handler[h] EXCEPT !.pc = pc]
  <2>1. handler[h] \in Jobs
    BY DEF Inv, CabinetTypeOK
  <2>2. j.pc \in ChangingSteps /\ j.secret = handler[h].secret /\ SetJob(h, j)
    BY <1>4, <2>1 DEF Jobs, ChangingSteps, MoveJob
  <2> HIDE DEF j
  <2>3. Pending \subseteq Pending' /\ Due \subseteq Due'
    BY <1>4, <2>2, BecomeKeeps DEF Inv
  <2>4. NoLoss
    BY <1>4, <2>3 DEF NoLoss, LostSecrets, LostKeys
  <2>5. QED
    BY <2>4, NoLossKeepsBound
<1>5. ASSUME NEW h \in Handlers, CommitUser(h) PROVE LossesBounded'
  <2>1. /\ handler[h].pc = "answered" /\ SetJob(h, IdleJob)
        /\ adopted' = adopted \cup ({handler[h].secret} \ {0})
        /\ UNCHANGED <<proven, keyVars, errors>>
    BY <1>5 DEF CommitUser
  <2>2. Pending \ {handler[h].secret} \subseteq Pending' /\ Due \subseteq Due'
    BY <2>1, BecomeKeeps DEF Inv
  <2>3. 0 \notin proven
    BY DEF Inv, CabinetTypeOK
  <2>4. NoLoss
    BY <2>1, <2>2, <2>3 DEF NoLoss, LostSecrets, LostKeys
  <2>5. QED
    BY <2>4, NoLossKeepsBound
<1>6. ASSUME NEW h \in Handlers, NEW s \in ApiSecrets, CreateKey(h, s) \/ DeleteKey(h, s)
      PROVE  LossesBounded'
  <2>1. /\ handler[h].pc = "idle"
        /\ UNCHANGED handler \/ \E j : SetJob(h, j)
        /\ dropped \subseteq dropped' /\ UNCHANGED <<proven, adopted, apiKeys, shown, errors>>
    BY <1>6 DEF CreateKey, DeleteKey
  <2>2. Pending \subseteq Pending' /\ Due \subseteq Due'
    <3>1. CASE UNCHANGED handler
      BY <3>1 DEF Pending, Due, Changing
    <3>2. CASE \E j : SetJob(h, j)
      BY <2>1, <3>2, BecomeKeeps DEF Inv, ChangingSteps
    <3>3. QED
      BY <2>1, <3>1, <3>2
  <2>3. NoLoss
    BY <2>1, <2>2 DEF NoLoss, LostSecrets, LostKeys
  <2>4. QED
    BY <2>3, NoLossKeepsBound
<1>7. ASSUME NEW h \in Handlers, ShowKey(h) PROVE LossesBounded'
  <2> DEFINE j == [handler[h] EXCEPT !.pc = "shown"]
  <2>1. handler[h] \in Jobs
    BY DEF Inv, CabinetTypeOK
  <2>2. /\ handler[h].pc = "insert" /\ j.pc = "shown" /\ j.key = handler[h].key /\ SetJob(h, j)
        /\ shown' = shown \cup {handler[h].key}
        /\ UNCHANGED <<proven, adopted, apiKeys, dropped, errors>>
    BY <1>7, <2>1 DEF ShowKey, MoveJob, Jobs
  <2> HIDE DEF j
  <2>3. Pending \subseteq Pending' /\ Due \subseteq Due' /\ handler[h].key \in Due'
    BY <2>2, BecomeKeeps DEF Inv, ChangingSteps
  <2>4. NoLoss
    BY <2>2, <2>3 DEF NoLoss, LostSecrets, LostKeys
  <2>5. QED
    BY <2>4, NoLossKeepsBound
<1>8. ASSUME NEW h \in Handlers, CommitKey(h) PROVE LossesBounded'
  <2>1. /\ handler[h].pc \in {"shown", "drop"} /\ SetJob(h, IdleJob)
        /\ UNCHANGED <<proven, adopted, shown, dropped, errors>>
    BY <1>8 DEF CommitKey
  <2>2. Pending \subseteq Pending' /\ Due \ {handler[h].key} \subseteq Due'
    BY <2>1, BecomeKeeps DEF Inv, ChangingSteps
  <2>3. LostKeys' \subseteq LostKeys
    <3>1. CASE handler[h].pc = "shown"
      <4>1. apiKeys' = apiKeys \cup {handler[h].key}
        BY <1>8, <3>1 DEF CommitKey
      <4>2. QED
        BY <2>1, <2>2, <4>1 DEF LostKeys
    <3>2. CASE handler[h].pc = "drop"
      <4>1. apiKeys' = apiKeys \ {handler[h].key} /\ handler[h].key \in dropped
        BY <1>8, <3>2 DEF CommitKey, Inv, HandlersSound, Sound
      <4>2. Due \subseteq Due'
        BY <2>1, <3>2, BecomeKeeps DEF Inv
      <4>3. QED
        BY <2>1, <4>1, <4>2 DEF LostKeys
    <3>3. QED
      BY <2>1, <3>1, <3>2
  <2>4. NoLoss
    BY <2>1, <2>2, <2>3 DEF NoLoss, LostSecrets
  <2>5. QED
    BY <2>4, NoLossKeepsBound
<1>9. ASSUME NEW h \in Handlers, AbortJob(h) PROVE LossesBounded'
  <2>1. SetJob(h, IdleJob) /\ errors' = errors + 1 /\ UNCHANGED <<proven, adopted, keyVars>>
    BY <1>9 DEF AbortJob
  <2>2. Pending \ {handler[h].secret} \subseteq Pending' /\ Due \ {handler[h].key} \subseteq Due'
    BY <2>1, BecomeKeeps DEF Inv
  <2>3. /\ LostSecrets' \subseteq LostSecrets \cup {handler[h].secret}
        /\ LostKeys' \subseteq LostKeys \cup {handler[h].key}
    BY <2>1, <2>2 DEF LostSecrets, LostKeys
  <2>4. Bounded(LostSecrets', errors + 1) /\ Bounded(LostKeys', errors + 1)
    BY <2>3, BoundedOneMore DEF LossesBounded, Inv, CabinetTypeOK
  <2>5. QED
    BY <2>1, <2>4 DEF LossesBounded, Bounded
<1>10. ASSUME NEW h \in Handlers, FlushUser(h) \/ DropSetup(h) PROVE LossesBounded'
  BY <1>4, <1>10 DEF FlushUser, DropSetup
<1>11. QED
  BY <1>1, <1>2, <1>3, <1>5, <1>6, <1>7, <1>8, <1>9, <1>10 DEF CabinetNext, AdvanceJob

LEMMA LossesInvariant == CabinetSpec => [](Inv /\ LossesBounded)
<1>1. CabinetInit => Inv /\ LossesBounded
  BY InitInv, InitLosses
<1>2. Inv /\ LossesBounded /\ [CabinetNext]_cabinetVars => Inv' /\ LossesBounded'
  BY NextInv, NextLosses
<1>3. QED
  BY <1>1, <1>2, PTL DEF CabinetSpec

\* No more setups that passed their check get lost than there have been
\* failures, however verifications, disablings and new setups interleave.
THEOREM SetupsAreAdopted == CabinetSpec => []ProvenIsAdopted
<1>1. LossesBounded => ProvenIsAdopted
  BY DEF LossesBounded, Bounded, LostSecrets, Pending, ProvenIsAdopted
<1>2. QED
  BY <1>1, LossesInvariant, PTL

\* Keys that were shown open, but for as many as there have been failures; and
\* no secret opens that was not shown, whichever secrets share a prefix.
THEOREM ShownKeysOpen == CabinetSpec => []KeysAreHonoured
<1>1. Inv /\ LossesBounded => KeysAreHonoured
  BY DEF Inv, Opens, LossesBounded, Bounded, LostKeys, Due, KeysAreHonoured
<1>2. QED
  BY <1>1, LossesInvariant, PTL

-----------------------------------------------------------------------------
(* When VerifiedIsEnabled holds.  A run shows that it fails when a          *)
(* verification and a disabling overlap.  It fails in no other way: as long *)
(* as changes of the account do not overlap, what a handler has loaded is   *)
(* what the row holds when it commits.                                      *)

\* At most one handler has loaded the user and not yet committed.
NoOverlap == \A g, h \in Changing : g = h

LoadedIsCurrent == \A h \in Changing : handler[h].loaded = account

\* A handler that goes on with what it has loaded, begins with the current row, or
\* leaves the account alone.
LEMMA SetJobCurrent ==
    ASSUME CabinetTypeOK, LoadedIsCurrent, UNCHANGED account, NEW h \in Handlers, NEW j,
           SetJob(h, j),
           j.pc \in {"verify", "update", "flushed", "answered"} =>
              j.loaded = account \/ (h \in Changing /\ j.loaded = handler[h].loaded)
    PROVE  LoadedIsCurrent'
<1> SUFFICES ASSUME NEW g \in Changing' PROVE handler'[g].loaded = account
  BY DEF LoadedIsCurrent
<1>1. g \in Handlers /\ handler'[g].pc \in {"verify", "update", "flushed", "answered"}
  BY DEF Changing
<1>2. CASE g = h
  <2>1. handler'[g] = j
    BY <1>2 DEF SetJob, CabinetTypeOK
  <2>2. QED
    BY <1>1, <2>1 DEF LoadedIsCurrent
<1>3. CASE g # h
  <2>1. handler'[g] = handler[g]
    BY <1>1, <1>3 DEF SetJob, CabinetTypeOK
  <2>2. g \in Changing
    BY <1>1, <2>1 DEF Changing
  <2>3. QED
    BY <2>1, <2>2 DEF LoadedIsCurrent
<1>4. QED
  BY <1>2, <1>3

LEMMA NextCurrent ==
    ASSUME CabinetTypeOK, LoadedIsCurrent, NoOverlap, [CabinetNext]_cabinetVars
    PROVE  LoadedIsCurrent'
<1> USE DEF twoFaVars, keyVars
<1>1. CASE UNCHANGED <<account, handler>>
  BY <1>1 DEF LoadedIsCurrent, Changing
<1>2. ASSUME NEW h \in Handlers, CheckCode(h) \/ FlushUser(h) \/ DropSetup(h)
      PROVE  LoadedIsCurrent'
  <2>1. PICK j \in Jobs : SetJob(h, j) /\ (j.pc # "idle" => j.loaded = handler[h].loaded)
    <3>1. handler[h] \in Jobs
      BY DEF CabinetTypeOK
    <3>2. CASE CheckCode(h)
      <4>1. SetJob(h, IdleJob) \/ SetJob(h, [handler[h] EXCEPT !.pc = "update", !.secret = setupKey])
        BY <3>2 DEF CheckCode
      <4>2. setupKey \in Nat
        BY DEF CabinetTypeOK
      <4>3. IdleJob \in Jobs /\ IdleJob.pc = "idle"
        BY DEF IdleJob, Jobs, JobSteps, Accounts, Off
      <4>4. [handler[h] EXCEPT !.pc = "update", !.secret = setupKey] \in Jobs
        BY <3>1, <4>2 DEF Jobs, JobSteps
      <4>5. [handler[h] EXCEPT !.pc = "update", !.secret = setupKey].loaded = handler[h].loaded
        BY <3>1 DEF Jobs
      <4>6. QED
        BY <4>1, <4>3, <4>4, <4>5
    <3>3. CASE FlushUser(h) \/ DropSetup(h)
      <4>1. PICK pc \in {"flushed", "answered"} : SetJob(h, [handler[h] EXCEPT !.pc = pc])
        BY <3>3 DEF FlushUser, DropSetup, MoveJob
      <4>2. [handler[h] EXCEPT !.pc = pc] \in Jobs
        BY <3>1 DEF Jobs, JobSteps
      <4>3. [handler[h] EXCEPT !.pc = pc].loaded = handler[h].loaded
        BY <3>1 DEF Jobs
      <4>4. QED
        BY <4>1, <4>2, <4>3
    <3>4. QED
      BY <1>2, <3>2, <3>3
  <2>2. h \in Changing
    BY <1>2 DEF CheckCode, FlushUser, DropSetup, Changing
  <2>3. UNCHANGED account
    BY <1>2 DEF CheckCode, FlushUser, DropSetup
  <2>4. QED
    BY <2>1, <2>2, <2>3, SetJobCurrent
<1>3. ASSUME NEW h \in Handlers, BeginVerify(h) \/ BeginDisable(h)
      PROVE  LoadedIsCurrent'
  <2>1. PICK pc \in {"verify", "update"} :
             SetJob(h, [IdleJob EXCEPT !.pc = pc, !.loaded = account])
    BY <1>3 DEF BeginVerify, BeginDisable
  <2>2. [IdleJob EXCEPT !.pc = pc, !.loaded = account].loaded = account
    BY DEF IdleJob
  <2>3. UNCHANGED account
    BY <1>3 DEF BeginVerify, BeginDisable
  <2>4. QED
    BY <2>1, <2>2, <2>3, SetJobCurrent
<1>4. ASSUME NEW h \in Handlers, CommitUser(h)
      PROVE  LoadedIsCurrent'
  <2>1. h \in Changing /\ SetJob(h, IdleJob)
    BY <1>4 DEF CommitUser, Changing
  <2>2. \A g \in Handlers : handler'[g] = IF g = h THEN IdleJob ELSE handler[g]
    BY <2>1 DEF SetJob, CabinetTypeOK
  <2>3. Changing' = {}
    BY <2>1, <2>2 DEF NoOverlap, Changing, IdleJob
  <2>4. QED
    BY <2>3 DEF LoadedIsCurrent
<1>5. ASSUME NEW h \in Handlers,
             \/ \E s \in ApiSecrets : CreateKey(h, s) \/ DeleteKey(h, s)
             \/ ShowKey(h) \/ CommitKey(h) \/ AbortJob(h)
      PROVE  LoadedIsCurrent'
  <2>1. UNCHANGED account
    BY <1>5 DEF CreateKey, DeleteKey, ShowKey, CommitKey, AbortJob
  <2>2. CASE UNCHANGED handler
    BY <1>1, <2>1, <2>2
  <2>3. CASE \E pc \in {"idle", "insert", "shown", "drop"} :
                \E j : SetJob(h, j) /\ j.pc = pc
    BY <2>1, <2>3, SetJobCurrent
  <2>4. IdleJob.pc = "idle"
    BY DEF IdleJob
  <2>5. \A k : [IdleJob EXCEPT !.pc = "insert", !.key = k].pc = "insert"
               /\ [IdleJob EXCEPT !.pc = "drop", !.key = k].pc = "drop"
    BY DEF IdleJob
  <2>6. [handler[h] EXCEPT !.pc = "shown"].pc = "shown"
    BY DEF CabinetTypeOK, Jobs
  <2>7. QED
    BY <1>5, <2>2, <2>3, <2>4, <2>5, <2>6
       DEF CreateKey, DeleteKey, ShowKey, CommitKey, AbortJob, MoveJob
<1>6. Setup \/ ExpireSetup \/ UNCHANGED cabinetVars => UNCHANGED <<account, handler>>
  BY DEF Setup, ExpireSetup, cabinetVars
<1>7. QED
  BY <1>1, <1>2, <1>3, <1>4, <1>5, <1>6 DEF CabinetNext, AdvanceJob

\* As long as no two changes of the account overlap, the commit of a verification
\* leaves its secret and the flag in the row, as the documentation has it.
THEOREM VerifiedWithoutOverlap == CabinetSpec /\ []NoOverlap => VerifiedIsEnabled
<1> DEFINE Enabled ==
      \A h \in Handlers :
         /\ handler[h].pc = "answered"
         /\ handler'[h].pc = "idle"
         /\ errors' = errors
         /\ handler[h].secret # 0
         => account' = [secret |-> handler[h].secret, enabled |-> TRUE]
<1>1. CabinetTypeOK /\ LoadedIsCurrent /\ [CabinetNext]_cabinetVars => [Enabled]_cabinetVars
  <2> SUFFICES ASSUME CabinetTypeOK, LoadedIsCurrent, CabinetNext,
                      NEW h \in Handlers,
                      handler[h].pc = "answered", handler'[h].pc = "idle",
                      errors' = errors, handler[h].secret # 0
               PROVE  account' = [secret |-> handler[h].secret, enabled |-> TRUE]
    OBVIOUS
  <2>1. CommitUser(h)
    <3>1. handler' # handler
      OBVIOUS
    <3>2. PICK g \in Handlers :
               \/ BeginVerify(g) \/ BeginDisable(g) \/ AdvanceJob(g) \/ AbortJob(g)
               \/ \E s \in ApiSecrets : CreateKey(g, s) \/ DeleteKey(g, s)
      BY <3>1 DEF CabinetNext, Setup, ExpireSetup
    <3>3. PICK j : SetJob(g, j)
      BY <3>1, <3>2 DEF BeginVerify, BeginDisable, AdvanceJob, AbortJob, CreateKey, DeleteKey,
         CheckCode, FlushUser, DropSetup, CommitUser, ShowKey, CommitKey, MoveJob
    <3>4. g = h
      BY <3>3 DEF SetJob, CabinetTypeOK
    <3>5. ~ AbortJob(h)
      BY DEF AbortJob, CabinetTypeOK
    <3>6. QED
      BY <3>2, <3>4, <3>5 DEF BeginVerify, BeginDisable, AdvanceJob, CreateKey, DeleteKey,
         CheckCode, FlushUser, DropSetup, ShowKey, CommitKey
  <2>2. account' = Updated(h) /\ handler[h].loaded = account
    BY <2>1 DEF CommitUser, LoadedIsCurrent, Changing
  <2>3. account \in Accounts /\ account = [secret |-> account.secret, enabled |-> account.enabled]
        /\ account.enabled \in BOOLEAN
    BY DEF CabinetTypeOK, Accounts
  <2>4. account'.secret = handler[h].secret /\ account'.enabled = TRUE
    BY <2>2, <2>3 DEF Updated, SetsSecret, SetsFlag, Accounts
  <2>5. account' = [secret |-> account'.secret, enabled |-> account'.enabled]
    BY <2>2, <2>3 DEF Updated
  <2>6. QED
    BY <2>4, <2>5
<1>2. CabinetInit => LoadedIsCurrent
  BY DEF CabinetInit, LoadedIsCurrent, Changing, IdleJob
<1>3. CabinetTypeOK /\ LoadedIsCurrent /\ NoOverlap /\ [CabinetNext]_cabinetVars => LoadedIsCurrent'
  BY NextCurrent
<1>4. QED
  BY <1>1, <1>2, <1>3, TypeCorrect, PTL DEF CabinetSpec, VerifiedIsEnabled
=============================================================================
