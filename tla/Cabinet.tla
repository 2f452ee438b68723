------------------------------- MODULE Cabinet -------------------------------
(***************************************************************************)
(* The cabinet of one user: two-factor setup, which goes from a pending    *)
(* secret in Redis to the row of users, and the keys of the external API.  *)
(*                                                                         *)
(* A handler's steps are its Redis commands and SQL statements.  The user  *)
(* is loaded first (get_current_user); a flush then updates only the       *)
(* columns whose new value differs from the loaded one, and waits for an   *)
(* open transaction that has updated the row.  Commits come after the      *)
(* answer.  Secrets are numbered in the order they are drawn, 0 is none.   *)
(*                                                                         *)
(* Left out: other users, who share nothing; wrong codes, which change     *)
(* nothing; other columns of the row.                                      *)
(***************************************************************************)
EXTENDS Naturals, FiniteSets

CONSTANTS
    Handlers,      \* request handlers that may run at the same time
    ApiSecrets,    \* secrets of API keys
    PrefixOf,      \* the first twelve characters of a secret
    NoSecret,      \* not an API secret
    MaxSetups,     \* bound: two-factor secrets drawn in a behaviour
    MaxErrors      \* bound: handlers cut off by a failure

VARIABLES
    setupKey,   \* 2fa_setup:<user>: the pending secret, 0 if there is no key
    account,    \* committed two_fa_secret and two_fa_enabled
    drawn,      \* number of two-factor secrets so far
    handler,    \* the request handlers
    apiKeys,    \* committed rows of user_api_keys, by their secret
    errors,
    proven,     \* history: secrets for which a right code has been checked
    adopted,    \* history: secrets that have been committed
    made,       \* history: API secrets that were generated
    shown,      \* history: ... and sent to the user
    dropped     \* history: ... and answered as deleted

twoFaVars   == <<setupKey, account, drawn, proven, adopted>>
keyVars     == <<apiKeys, made, shown, dropped>>
cabinetVars == <<twoFaVars, keyVars, handler, errors>>

Accounts == [secret : Nat, enabled : BOOLEAN]
Off == [secret |-> 0, enabled |-> FALSE]

JobSteps == {"idle", "verify", "update", "flushed", "answered",
          "insert", "shown", "drop"}
Jobs == [pc : JobSteps, loaded : Accounts, secret : Nat, key : ApiSecrets \cup {NoSecret}]
IdleJob == [pc |-> "idle", loaded |-> Off, secret |-> 0, key |-> NoSecret]

CabinetTypeOK ==
    /\ setupKey \in 0..drawn
    /\ account \in Accounts
    /\ drawn \in Nat
    /\ handler \in [Handlers -> Jobs]
    /\ apiKeys \subseteq made
    /\ errors \in Nat
    /\ proven \subseteq 1..drawn
    /\ adopted \subseteq proven
    /\ made \subseteq ApiSecrets
    /\ shown \subseteq made
    /\ dropped \subseteq made

CabinetInit ==
    /\ setupKey = 0
    /\ account = Off
    /\ drawn = 0
    /\ handler = [h \in Handlers |-> IdleJob]
    /\ apiKeys = {}
    /\ errors = 0
    /\ proven = {}
    /\ adopted = {}
    /\ made = {}
    /\ shown = {}
    /\ dropped = {}

SetJob(h, j)   == handler' = [handler EXCEPT ![h] = j]
MoveJob(h, pc) == SetJob(h, [handler[h] EXCEPT !.pc = pc])

-----------------------------------------------------------------------------
(* Two-factor authentication.                                              *)

\* Handlers that have loaded the user and not yet committed a change.
Changing == {h \in Handlers : handler[h].pc \in {"verify", "update", "flushed", "answered"}}

\* The columns an UPDATE of h names: those whose value differs from the loaded one.
SetsSecret(h) == handler[h].secret # handler[h].loaded.secret
SetsFlag(h)   == (handler[h].secret # 0) # handler[h].loaded.enabled

HoldsRow(h) ==
    /\ handler[h].pc \in {"flushed", "answered"}
    /\ SetsSecret(h) \/ SetsFlag(h)

\* POST /2fa/setup: a new secret replaces a pending one.
Setup ==
    /\ drawn < MaxSetups
    /\ drawn' = drawn + 1
    /\ setupKey' = drawn + 1
    /\ UNCHANGED <<account, proven, adopted, keyVars, handler, errors>>

\* Five minutes have passed.
ExpireSetup ==
    /\ setupKey # 0
    /\ setupKey' = 0
    /\ UNCHANGED <<account, drawn, proven, adopted, keyVars, handler, errors>>

\* POST /2fa/verify loads the user.
BeginVerify(h) ==
    /\ handler[h].pc = "idle"
    /\ SetJob(h, [IdleJob EXCEPT !.pc = "verify", !.loaded = account])
    /\ UNCHANGED <<setupKey, account, drawn, proven, adopted, keyVars, errors>>

\* GET of the pending secret; the code typed is right for it, or refused.
CheckCode(h) ==
    /\ handler[h].pc = "verify"
    /\ \/ /\ setupKey # 0
          /\ SetJob(h, [handler[h] EXCEPT !.pc = "update", !.secret = setupKey])
          /\ proven' = proven \cup {setupKey}
       \/ /\ SetJob(h, IdleJob)
          /\ UNCHANGED proven
    /\ UNCHANGED <<setupKey, account, drawn, adopted, keyVars, errors>>

\* DELETE /2fa loads the user and clears both attributes.
BeginDisable(h) ==
    /\ handler[h].pc = "idle"
    /\ SetJob(h, [IdleJob EXCEPT !.pc = "update", !.loaded = account])
    /\ UNCHANGED <<setupKey, account, drawn, proven, adopted, keyVars, errors>>

\* Variant with a bug: the secret is read from Redis again.
FlushUserReread(h) ==
    /\ handler[h].pc = "update"
    /\ \A g \in Handlers \ {h} : ~HoldsRow(g)
    /\ SetJob(h, [handler[h] EXCEPT !.pc = "flushed",
                                    !.secret = IF @ = 0 THEN 0 ELSE setupKey])
    /\ UNCHANGED <<twoFaVars, keyVars, errors>>

\* Variant with a bug: a row that is locked is not waited for.
FlushUserNoWait(h) ==
    /\ handler[h].pc = "update"
    /\ IF \E g \in Handlers \ {h} : HoldsRow(g) THEN SetJob(h, IdleJob) ELSE MoveJob(h, "flushed")
    /\ UNCHANGED <<twoFaVars, keyVars, errors>>

\* flush: UPDATE of the columns that changed; waits for the row.
FlushUser(h) ==
    /\ handler[h].pc = "update"
    /\ (SetsSecret(h) \/ SetsFlag(h)) => \A g \in Handlers \ {h} : ~HoldsRow(g)
    /\ MoveJob(h, "flushed")
    /\ UNCHANGED <<twoFaVars, keyVars, errors>>

\* DELETE of the key, whichever secret it holds by now; then the answer.
DropSetup(h) ==
    /\ handler[h].pc = "flushed"
    /\ setupKey' = 0
    /\ MoveJob(h, "answered")
    /\ UNCHANGED <<account, drawn, proven, adopted, keyVars, errors>>

\* The row once the transaction of h is committed.
Updated(h) ==
    [account EXCEPT !.secret = IF SetsSecret(h) THEN handler[h].secret ELSE @,
                    !.enabled = IF SetsFlag(h) THEN handler[h].secret # 0 ELSE @]

CommitUser(h) ==
    /\ handler[h].pc = "answered"
    /\ account' = Updated(h)
    /\ adopted' = adopted \cup ({handler[h].secret} \ {0})
    /\ SetJob(h, IdleJob)
    /\ UNCHANGED <<setupKey, drawn, proven, keyVars, errors>>

-----------------------------------------------------------------------------
(* Keys of the external API.                                               *)

SamePrefix(s, t) == PrefixOf[s] = PrefixOf[t]

\* INSERT waits for an open one of the same prefix, and fails if it is taken.
CreateKey(h, s) ==
    /\ handler[h].pc = "idle"
    /\ s \notin made
    /\ \A g \in Handlers : handler[g].pc \in {"insert", "shown"} => ~SamePrefix(handler[g].key, s)
    /\ made' = made \cup {s}
    /\ IF \E t \in apiKeys : SamePrefix(s, t)
       THEN UNCHANGED handler
       ELSE SetJob(h, [IdleJob EXCEPT !.pc = "insert", !.key = s])
    /\ UNCHANGED <<twoFaVars, apiKeys, shown, dropped, errors>>

\* The answer shows the secret, once; the commit follows.
ShowKey(h) ==
    /\ handler[h].pc = "insert"
    /\ shown' = shown \cup {handler[h].key}
    /\ MoveJob(h, "shown")
    /\ UNCHANGED <<twoFaVars, apiKeys, made, dropped, errors>>

\* DELETE finds the row and answers; the row goes with the commit.
DeleteKey(h, s) ==
    /\ handler[h].pc = "idle"
    /\ s \in apiKeys
    /\ dropped' = dropped \cup {s}
    /\ SetJob(h, [IdleJob EXCEPT !.pc = "drop", !.key = s])
    /\ UNCHANGED <<twoFaVars, apiKeys, made, shown, errors>>

\* Variant with a bug: a new key replaces the ones the user has.
CommitKeyReplacing(h) ==
    /\ handler[h].pc \in {"shown", "drop"}
    /\ apiKeys' = IF handler[h].pc = "shown" THEN {handler[h].key}
                  ELSE apiKeys \ {handler[h].key}
    /\ SetJob(h, IdleJob)
    /\ UNCHANGED <<twoFaVars, made, shown, dropped, errors>>

CommitKey(h) ==
    /\ handler[h].pc \in {"shown", "drop"}
    /\ apiKeys' = IF handler[h].pc = "shown" THEN apiKeys \cup {handler[h].key}
                  ELSE apiKeys \ {handler[h].key}
    /\ SetJob(h, IdleJob)
    /\ UNCHANGED <<twoFaVars, made, shown, dropped, errors>>

\* Whether a secret lets in: its prefix finds the row, which must have the hash
\* of the whole.
Opens(s) == \E t \in apiKeys : SamePrefix(s, t) /\ s = t

-----------------------------------------------------------------------------
\* A failure of Redis or PostgreSQL: the transaction is undone.
AbortJob(h) ==
    /\ handler[h].pc # "idle"
    /\ errors < MaxErrors
    /\ errors' = errors + 1
    /\ SetJob(h, IdleJob)
    /\ UNCHANGED <<twoFaVars, keyVars>>

AdvanceJob(h) ==
    \/ CheckCode(h) \/ FlushUser(h) \/ DropSetup(h) \/ CommitUser(h)
    \/ ShowKey(h) \/ CommitKey(h)

CabinetNext ==
    \/ Setup
    \/ ExpireSetup
    \/ \E h \in Handlers :
         \/ BeginVerify(h)
         \/ BeginDisable(h)
         \/ \E s \in ApiSecrets : CreateKey(h, s) \/ DeleteKey(h, s)
         \/ AdvanceJob(h)
         \/ AbortJob(h)

CabinetSpec == CabinetInit /\ [][CabinetNext]_cabinetVars

-----------------------------------------------------------------------------
(* Properties.                                                             *)

\* The secret that is stored, or about to be, is one whose first code has been
\* checked, though the pending key may be replaced, expire or be deleted
\* between the check and the UPDATE.
SecretWasProven ==
    /\ account.secret \in proven \cup {0}
    /\ \A h \in Handlers :
         handler[h].pc \in {"update", "flushed", "answered"} => handler[h].secret \in proven \cup {0}

\* No setup that passed its check gets lost but by a failure: its secret has
\* been stored, or a handler is about to store it.
ProvenIsAdopted ==
    Cardinality(proven \ (adopted \cup {handler[h].secret : h \in Changing})) <= errors

\* "On success writes the secret to users and sets the flag": the commit of a
\* verification leaves its secret and the flag in the row.
VerifiedIsEnabled ==
    [][\A h \in Handlers :
          /\ handler[h].pc = "answered"
          /\ handler'[h].pc = "idle"
          /\ errors' = errors
          /\ handler[h].secret # 0
          => account' = [secret |-> handler[h].secret, enabled |-> TRUE]]_cabinetVars

\* A key that was shown and not deleted opens, or will after a commit that is
\* due; only a failure after the answer can break that.  And nobody is let in
\* with a secret that was not handed out, even if another secret begins alike.
KeysAreHonoured ==
    LET due == {handler[h].key : h \in {g \in Handlers : handler[g].pc = "shown"}}
    IN /\ Cardinality(shown \ (dropped \cup apiKeys \cup due)) <= errors
       /\ \A s \in ApiSecrets : Opens(s) => s \in shown
=============================================================================
