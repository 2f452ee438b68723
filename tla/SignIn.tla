------------------------------- MODULE SignIn -------------------------------
(***************************************************************************)
(* Sign-in: one-time codes sent by mail and kept in Redis, and the rows of *)
(* users and oauth_identities that a sign-in finds or creates.             *)
(*                                                                         *)
(* A handler's steps are its Redis commands and SQL statements: any other  *)
(* handler may move in between.  A sign-in is one PostgreSQL transaction   *)
(* at READ COMMITTED: an INSERT waits for an open transaction that has     *)
(* inserted the same unique key, and fails if that one commits; an UPDATE  *)
(* waits for the row.  The answer leaves before the commit, as FastAPI     *)
(* closes a dependency after the response.                                 *)
(*                                                                         *)
(* Left out: what changes no state kept here (captcha, rate limit, refused *)
(* callbacks, unknown codes), dev mode, and the branches for users that    *)
(* are disabled or gone, which nothing in the program makes so.  A guess   *)
(* that happens to hit the code is no wrong code.                          *)
(***************************************************************************)
EXTENDS Naturals, FiniteSets

CONSTANTS
    Addresses,     \* e-mail addresses as typed or as a provider reports them
    Keys,          \* addresses trimmed and in lower case
    KeyOf,         \* the key of each address
    Subjects,      \* accounts at providers: (provider, subject)
    Requests,      \* request handlers that may run at the same time
    MaxAttempts,   \* wrong codes until a code is dropped
    MaxCodes,      \* bound: codes issued in a behaviour
    MaxSignIns,    \* bound: sign-ins that reach the database
    MaxFaults      \* bound: handlers cut off by a failure

ASSUME KeysAssumption == KeyOf \in [Addresses -> Keys]

ASSUME BoundsAssumption ==
    /\ MaxAttempts \in Nat \ {0}
    /\ MaxCodes \in Nat
    /\ MaxSignIns \in Nat
    /\ MaxFaults \in Nat

\* A provider may tell no address, and a code belongs to no provider.
NoName == "none"
ASSUME NamesAssumption ==
    /\ NoName \notin Addresses \cup Subjects
    /\ Addresses \cap Subjects = {}

VARIABLES
    code,        \* auth:email_code:<key>; id 0: no such key
    mailed,      \* the codes that reached the mailbox behind a key
    issued,      \* number of codes drawn so far
    users,       \* committed rows of users
    identities,  \* committed rows of oauth_identities
    req,         \* the request handlers
    tokens,      \* history: to whom tokens for which user were sent
    signIns,     \* number of sign-ins so far; numbers the users they create
    faults,
    guesses,     \* history: wrong codes compared with each code
    uses,        \* history: sign-ins that each code has let through
    overlaps     \* history: how often each code was compared, or replaced,
                 \* while another handler had read it and not yet written it

history  == <<guesses, uses, overlaps>>
codeVars == <<code, mailed, issued, history>>
rowVars  == <<users, identities, tokens, signIns>>
vars == <<code, mailed, issued, users, identities, req, tokens, signIns, faults,
          guesses, uses, overlaps>>

Codes == [id : 0..MaxCodes, attempts : 0..(MaxAttempts - 1)]
NoCode == [id |-> 0, attempts |-> 0]

\* A provider that tells no address gets a synthetic one, named by the subject.
Mails == Addresses \cup Subjects
Users == [id : 1..MaxSignIns, email : Mails]
Identities == [subject : Subjects, user : 1..MaxSignIns]

Steps == {"idle", "mail", "wrong", "lock", "right", "identity", "lookup",
          "create", "link", "touch", "touched", "answered"}
RequestStates == [pc : Steps, email : Addresses \cup {NoName}, subject : Subjects \cup {NoName},
                  seen : Codes, user : 0..MaxSignIns, made : BOOLEAN, linked : BOOLEAN]
Idle == [pc |-> "idle", email |-> NoName, subject |-> NoName, seen |-> NoCode,
         user |-> 0, made |-> FALSE, linked |-> FALSE]

TypeOK ==
    /\ code \in [Keys -> Codes]
    /\ mailed \in [Keys -> SUBSET (1..MaxCodes)]
    /\ issued \in 0..MaxCodes
    /\ users \subseteq Users
    /\ identities \subseteq Identities
    /\ req \in [Requests -> RequestStates]
    /\ tokens \subseteq [who : Mails, user : 1..MaxSignIns]
    /\ signIns \in 0..MaxSignIns
    /\ faults \in 0..MaxFaults
    /\ guesses \in [1..MaxCodes -> Nat]
    /\ uses \in [1..MaxCodes -> Nat]
    /\ overlaps \in [1..MaxCodes -> Nat]

Init ==
    /\ code = [k \in Keys |-> NoCode]
    /\ mailed = [k \in Keys |-> {}]
    /\ issued = 0
    /\ users = {}
    /\ identities = {}
    /\ req = [r \in Requests |-> Idle]
    /\ tokens = {}
    /\ signIns = 0
    /\ faults = 0
    /\ guesses = [i \in 1..MaxCodes |-> 0]
    /\ uses = [i \in 1..MaxCodes |-> 0]
    /\ overlaps = [i \in 1..MaxCodes |-> 0]

-----------------------------------------------------------------------------
(* One-time codes.                                                         *)

Become(r, h) == req' = [req EXCEPT ![r] = h]
GoTo(r, pc)  == Become(r, [req[r] EXCEPT !.pc = pc])

\* Handlers that have read the code of key k and not yet written it.
Verifying(k) ==
    {r \in Requests : req[r].pc \in {"wrong", "lock", "right"} /\ KeyOf[req[r].email] = k}

\* The codes they have read: not always the one that k holds by now.
AtWork(k) == {req[r].seen.id : r \in Verifying(k)}

CountedUp(counter, I) == [i \in 1..MaxCodes |-> IF i \in I THEN counter[i] + 1 ELSE counter[i]]

\* request_code: the new code replaces the old one before the mail is sent.
RequestCode(r, e) ==
    /\ req[r].pc = "idle"
    /\ issued < MaxCodes
    /\ LET k == KeyOf[e]
           new == [id |-> issued + 1, attempts |-> 0]
       IN /\ code' = [code EXCEPT ![k] = new]
          /\ Become(r, [Idle EXCEPT !.pc = "mail", !.email = e, !.seen = new])
          /\ overlaps' = CountedUp(overlaps, AtWork(k))
    /\ issued' = issued + 1
    /\ UNCHANGED <<mailed, guesses, uses, faults, rowVars>>

\* The mail arrives, or sending it fails; both end the handler.
SendMail(r) ==
    /\ req[r].pc = "mail"
    /\ Become(r, Idle)
    /\ \/ mailed' = [mailed EXCEPT ![KeyOf[req[r].email]] = @ \cup {req[r].seen.id}]
       \/ UNCHANGED mailed
    /\ UNCHANGED <<code, issued, history, faults, rowVars>>

\* The key's time to live is over.
Expire(k) ==
    /\ code[k] # NoCode
    /\ code' = [code EXCEPT ![k] = NoCode]
    /\ UNCHANGED <<mailed, issued, history, req, faults, rowVars>>

\* A wrong code now is the last one allowed.
LastAttempt(k) == code[k].attempts + 1 >= MaxAttempts

\* EmailCodeStore.verify up to the comparison: c is the code of some mail, or 0
\* for a wrong one.  The record read decides, whatever happens to the key next.
ReadCode(r, e, c) ==
    LET k == KeyOf[e]
        right == c = code[k].id
        last == LastAttempt(k)
    IN /\ req[r].pc = "idle"
       /\ code[k] # NoCode
       /\ right => signIns < MaxSignIns
       /\ Become(r, [Idle EXCEPT !.pc = IF right THEN "right" ELSE IF last THEN "lock" ELSE "wrong",
                                 !.email = e, !.seen = code[k],
                                 !.user = IF right THEN signIns + 1 ELSE 0])
       /\ signIns' = IF right THEN signIns + 1 ELSE signIns
       /\ guesses' = CountedUp(guesses, IF right THEN {} ELSE {code[k].id})
       /\ uses' = CountedUp(uses, IF right THEN {code[k].id} ELSE {})
       /\ overlaps' = CountedUp(overlaps, AtWork(k) \cap {code[k].id})
       /\ UNCHANGED <<code, mailed, issued, users, identities, tokens, faults>>

\* Variant with a bug: the record is written back as it was.
UncountedGuess(record) == record

CountedGuess(record) == [record EXCEPT !.attempts = @ + 1]

\* SET of the record as it was read, with one more attempt.
WriteBack(r) ==
    /\ req[r].pc = "wrong"
    /\ code' = [code EXCEPT ![KeyOf[req[r].email]] = CountedGuess(req[r].seen)]
    /\ Become(r, Idle)
    /\ UNCHANGED <<mailed, issued, history, faults, rowVars>>

\* Variant with a bug: a code that was right stays.
DropCodeLockedOnly(r) ==
    /\ req[r].pc \in {"lock", "right"}
    /\ IF req[r].pc = "right"
       THEN GoTo(r, "lookup") /\ UNCHANGED code
       ELSE Become(r, Idle) /\ code' = [code EXCEPT ![KeyOf[req[r].email]] = NoCode]
    /\ UNCHANGED <<mailed, issued, history, faults, rowVars>>

\* DELETE of the key, whichever code it holds by now.
DropCode(r) ==
    /\ req[r].pc \in {"lock", "right"}
    /\ code' = [code EXCEPT ![KeyOf[req[r].email]] = NoCode]
    /\ IF req[r].pc = "right" THEN GoTo(r, "lookup") ELSE Become(r, Idle)
    /\ UNCHANGED <<mailed, issued, history, faults, rowVars>>

-----------------------------------------------------------------------------
(* Accounts.                                                               *)

ByMail(r) == req[r].subject = NoName

\* The address under which r looks for a user, or creates one.
MailOf(r) == IF req[r].email = NoName THEN req[r].subject ELSE req[r].email

Others(r) == Requests \ {r}
InsertedUser(q, m)     == req[q].made /\ MailOf(q) = m
InsertedIdentity(q, s) == req[q].linked /\ req[q].subject = s

\* Variant with a bug: the look-up takes a share lock of the user's row, which
\* the UPDATE has to raise.
LockedUserShared(q, u) ==
    /\ req[q].pc \in {"link", "touch", "touched", "answered"}
    /\ req[q].user = u

LockedUser(q, u)       == req[q].pc \in {"touched", "answered"} /\ req[q].user = u

\* What the user information of a provider says: GitHub may hide the address.
ProviderMails == Addresses \cup {NoName}

\* A callback with a valid state, after the provider has told who signs in.
Callback(r, s, e) ==
    /\ req[r].pc = "idle"
    /\ signIns < MaxSignIns
    /\ signIns' = signIns + 1
    /\ Become(r, [Idle EXCEPT !.pc = "identity", !.subject = s, !.email = e,
                              !.user = signIns + 1])
    /\ UNCHANGED <<codeVars, users, identities, tokens, faults>>

\* A login widget whose signature and age were found valid tells no address.
TelegramVerify(r, s) == Callback(r, s, NoName)

FindIdentity(r) ==
    /\ req[r].pc = "identity"
    /\ \/ \E i \in identities :
             /\ i.subject = req[r].subject
             /\ Become(r, [req[r] EXCEPT !.pc = "touch", !.user = i.user])
       \/ /\ \A i \in identities : i.subject # req[r].subject
          /\ GoTo(r, IF req[r].email = NoName THEN "create" ELSE "lookup")
    /\ UNCHANGED <<codeVars, rowVars, faults>>

\* Where an existing user or a new one leads; whether an address has a user.
AfterUser(r) == IF ByMail(r) THEN "touch" ELSE "link"
MailIsTaken(m) == \E u \in users : u.email = m

FindUser(r) ==
    /\ req[r].pc = "lookup"
    /\ \/ \E u \in users :
             /\ u.email = MailOf(r)
             /\ Become(r, [req[r] EXCEPT !.pc = AfterUser(r), !.user = u.id])
       \/ ~MailIsTaken(MailOf(r)) /\ GoTo(r, "create")
    /\ UNCHANGED <<codeVars, rowVars, faults>>

\* Variant with a bug: email is not unique.
CreateUserUnconstrained(r) ==
    /\ req[r].pc = "create"
    /\ Become(r, [req[r] EXCEPT !.made = TRUE, !.pc = AfterUser(r)])
    /\ UNCHANGED <<codeVars, rowVars, faults>>

\* Variant with a bug: a refused INSERT is ignored.
CreateUserUnheeded(r) ==
    /\ req[r].pc = "create"
    /\ \A q \in Others(r) : ~InsertedUser(q, MailOf(r))
    /\ Become(r, [req[r] EXCEPT !.made = ~MailIsTaken(MailOf(r)), !.pc = AfterUser(r)])
    /\ UNCHANGED <<codeVars, rowVars, faults>>

\* INSERT INTO users: waits for the unique key, and fails if it is taken.
CreateUser(r) ==
    /\ req[r].pc = "create"
    /\ \A q \in Others(r) : ~InsertedUser(q, MailOf(r))
    /\ IF MailIsTaken(MailOf(r))
       THEN Become(r, Idle)
       ELSE Become(r, [req[r] EXCEPT !.made = TRUE, !.pc = AfterUser(r)])
    /\ UNCHANGED <<codeVars, rowVars, faults>>

\* Variant with a bug: (provider, subject) is not unique.
LinkIdentityUnconstrained(r) ==
    /\ req[r].pc = "link"
    /\ Become(r, [req[r] EXCEPT !.linked = TRUE, !.pc = "touch"])
    /\ UNCHANGED <<codeVars, rowVars, faults>>

\* INSERT INTO oauth_identities, likewise.
LinkIdentity(r) ==
    /\ req[r].pc = "link"
    /\ \A q \in Others(r) : ~InsertedIdentity(q, req[r].subject)
    /\ IF \E i \in identities : i.subject = req[r].subject
       THEN Become(r, Idle)
       ELSE Become(r, [req[r] EXCEPT !.linked = TRUE, !.pc = "touch"])
    /\ UNCHANGED <<codeVars, rowVars, faults>>

\* UPDATE of last_login_at: waits for the row of a user that others touch.
TouchLastLogin(r) ==
    /\ req[r].pc = "touch"
    /\ \A q \in Others(r) : ~LockedUser(q, req[r].user)
    /\ GoTo(r, "touched")
    /\ UNCHANGED <<codeVars, rowVars, faults>>

\* The tokens leave with the response.
IssueTokens(r) ==
    /\ req[r].pc = "touched"
    /\ tokens' = tokens \cup
         {[who |-> IF ByMail(r) THEN req[r].email ELSE req[r].subject, user |-> req[r].user]}
    /\ GoTo(r, "answered")
    /\ UNCHANGED <<codeVars, users, identities, signIns, faults>>

Commit(r) ==
    /\ req[r].pc = "answered"
    /\ users' = users \cup {u \in {[id |-> req[r].user, email |-> MailOf(r)]} : req[r].made}
    /\ identities' = identities \cup
         {i \in {[subject |-> req[r].subject, user |-> req[r].user]} : req[r].linked}
    /\ Become(r, Idle)
    /\ UNCHANGED <<codeVars, tokens, signIns, faults>>

\* Redis or PostgreSQL fails, or the process dies: the transaction is undone.
Abort(r) ==
    /\ req[r].pc # "idle"
    /\ faults < MaxFaults
    /\ faults' = faults + 1
    /\ Become(r, Idle)
    /\ UNCHANGED <<codeVars, rowVars>>

-----------------------------------------------------------------------------
(* The specification.                                                      *)

Resolve(r) ==
    \/ FindIdentity(r) \/ FindUser(r) \/ CreateUser(r) \/ LinkIdentity(r)
    \/ TouchLastLogin(r) \/ IssueTokens(r) \/ Commit(r)

Proceed(r) == SendMail(r) \/ WriteBack(r) \/ DropCode(r) \/ Resolve(r)

Next ==
    \/ \E r \in Requests :
         \/ \E e \in Addresses : RequestCode(r, e)
         \/ \E e \in Addresses : \E c \in mailed[KeyOf[e]] \cup {0} : ReadCode(r, e, c)
         \/ \E s \in Subjects, e \in ProviderMails : Callback(r, s, e)
         \/ \E s \in Subjects : TelegramVerify(r, s)
         \/ Proceed(r)
         \/ Abort(r)
    \/ \E k \in Keys : Expire(k)

Spec == Init /\ [][Next]_vars

-----------------------------------------------------------------------------
(* Properties.                                                             *)

\* No two accounts have one address, no provider account is linked twice, and
\* no link dangles, though every handler looks first and inserts later.
AccountsAreUnique ==
    /\ \A u, v \in users : u.email = v.email \/ u.id = v.id => u = v
    /\ \A i, j \in identities : i.subject = j.subject => i = j
    /\ \A i \in identities : \E u \in users : u.id = i.user

\* r waits for q: for a unique key that q has inserted, or a row it has updated.
WaitsFor(r, q) ==
    /\ q \in Others(r)
    /\ \/ req[r].pc = "create" /\ InsertedUser(q, MailOf(r))
       \/ req[r].pc = "link" /\ InsertedIdentity(q, req[r].subject)
       \/ req[r].pc = "touch" /\ LockedUser(q, req[r].user)

\* Sign-ins that wait for each other's keys and rows never do so in a circle:
\* among any handlers there is one that waits for none of the others, whatever
\* they have inserted and updated before they wait.
NoDeadlock ==
    \A S \in (SUBSET Requests) \ {{}} : \E r \in S : \A q \in S : ~WaitsFor(r, q)

\* Signing in the same way again leads to the same account: tokens are never
\* sent for another user than the one to whom the address or the provider
\* account belongs by then, however old the lookup that found no user is.
SameAccountAgain ==
    [][\A t \in tokens' \ tokens :
          /\ \A u \in users : u.email = t.who => t.user = u.id
          /\ \A i \in identities : i.subject = t.who => t.user = i.user]_vars

\* Tokens are for an account that is there, or about to be committed; only a
\* failed commit, after the answer has gone out, can break that.
TokensNameAccounts ==
    LET there   == {u.id : u \in users}
        pending == {req[r].user : r \in {q \in Requests : req[q].pc = "answered"}}
    IN Cardinality({t.user : t \in tokens} \ (there \cup pending)) <= faults

\* A code lets one sign-in through, and one more at most for every time that
\* handlers overlapped at it and for every failure; and a code that was replaced
\* comes back only if a handler was at it then.
NoStaleCode ==
    /\ \A i \in 1..MaxCodes : uses[i] <= 1 + overlaps[i] + faults
    /\ \A k \in Keys :
          code[k] # NoCode =>
              (\A i \in mailed[k] : i <= code[k].id) \/ overlaps[code[k].id] > 0

\* However handlers overlap, MaxAttempts wrong codes are the limit, and the
\* record counts them all once nobody is at the code: each overlap and each
\* failure gives away one guess and no more.
GuessesAreCounted ==
    /\ \A i \in 1..MaxCodes : guesses[i] <= MaxAttempts + overlaps[i] + faults
    /\ \A k \in Keys :
          code[k] # NoCode /\ Verifying(k) = {} =>
              guesses[code[k].id] <= code[k].attempts + overlaps[code[k].id] + faults

\* Every wrong code is counted by the record as soon as its handler is done
\* (email_codes.py:6 says that each verify increments attempts).  Not so: two
\* handlers that read the same record both write the same number.
EveryVerifyCounts ==
    \A k \in Keys :
        code[k] # NoCode /\ Verifying(k) = {} => guesses[code[k].id] <= code[k].attempts + faults
=============================================================================
