---------------------------- MODULE SignInProofs ----------------------------
(***************************************************************************)
(* Proofs about SignIn, for any addresses and their keys, provider         *)
(* accounts and handlers, and any number of codes, sign-ins and failures.  *)
(***************************************************************************)
EXTENDS SignIn, FiniteSetTheorems, TLAPS

-----------------------------------------------------------------------------
(* The inductive invariant.                                                *)

Mail(h) == IF h.email = NoName THEN h.subject ELSE h.email

\* The number a handler has drawn for a user is still for it alone.
Owns(h) == h.made \/ h.pc \in {"right", "identity", "lookup", "create"}

Finding == {"identity", "lookup", "create"}
Leaving == {"touch", "touched", "answered"}

\* A handler by itself: what it has at each of its steps.
Fine(h) ==
    /\ h \in RequestStates
    /\ h.pc \in {"mail", "wrong", "lock", "right"} => h.email \in Addresses /\ h.subject = NoName
    /\ h.pc \in {"mail", "wrong", "lock", "right"} => h.seen.id # 0
    /\ h.pc = "wrong" => h.seen.attempts + 1 < MaxAttempts
    /\ h.pc \in {"right", "link"} \cup Finding \cup Leaving => h.user # 0
    /\ h.pc \in {"idle", "mail", "wrong", "lock", "right"} \cup Finding => ~ h.made
    /\ h.pc \in {"idle", "mail", "wrong", "lock", "right", "link"} \cup Finding => ~ h.linked
    /\ h.pc \in {"identity", "link"} \/ h.linked => h.subject \in Subjects
    /\ h.pc \in {"link"} \cup Finding \cup Leaving => Mail(h) \in Mails
    /\ h.pc \in Leaving /\ h.made /\ h.subject # NoName => h.linked

\* A handler against the committed rows U and I, when n numbers are drawn.
Stands(h, U, I, n) ==
    /\ Owns(h) => h.user <= n /\ \A u \in U : u.id # h.user
    /\ h.made => \A u \in U : u.email # Mail(h)
    /\ h.linked => \A i \in I : i.subject # h.subject
    /\ h.pc = "link" \/ h.linked => h.made \/ \E u \in U : u.id = h.user
    /\ h.pc \in Leaving /\ h.subject # NoName =>
         h.linked \/ \E i \in I : i.subject = h.subject /\ i.user = h.user
    /\ h.pc \in Leaving /\ h.subject = NoName =>
         h.made \/ \E u \in U : u.email = h.email /\ u.id = h.user

\* Two handlers: what their transactions insert does not collide.
Apart(g, h) ==
    /\ g.made /\ h.made => Mail(g) # Mail(h)
    /\ g.linked /\ h.linked => g.subject # h.subject
    /\ Owns(g) /\ Owns(h) => g.user # h.user

\* The committed rows; a user with a synthetic address has its identity.
Rows(U, I, n) ==
    /\ \A u, v \in U : u.email = v.email \/ u.id = v.id => u = v
    /\ \A i, j \in I : i.subject = j.subject => i = j
    /\ \A i \in I : \E u \in U : u.id = i.user
    /\ \A u \in U : u.email \in Subjects => \E i \in I : i.subject = u.email /\ i.user = u.id
    /\ \A u \in U : u.id <= n

HandlersFine  == \A r \in Requests : Fine(req[r])
HandlersStand == \A r \in Requests : Stands(req[r], users, identities, signIns)
HandlersApart == \A r, q \in Requests : r # q => Apart(req[r], req[q])
CodesReal     == \A k \in Keys : code[k].id = 0 => code[k] = NoCode

HandlersInv ==
    /\ req \in [Requests -> RequestStates]
    /\ HandlersFine
    /\ HandlersStand
    /\ HandlersApart
    /\ Rows(users, identities, signIns)

Inv == TypeOK /\ CodesReal /\ HandlersInv

-----------------------------------------------------------------------------
(* Request handlers.                                                       *)

LEMMA IdleFine ==
    /\ Fine(Idle)
    /\ \A U, I, n : Stands(Idle, U, I, n)
    /\ \A g : Apart(Idle, g) /\ Apart(g, Idle)
<1>1. NoCode \in Codes
  BY BoundsAssumption DEF NoCode, Codes
<1>2. Idle \in RequestStates
  BY <1>1, BoundsAssumption DEF Idle, RequestStates, Steps
<1>3. QED
  BY <1>2 DEF Idle, Fine, Stands, Apart, Owns, Finding, Leaving

\* One handler moves on, and no row is committed.
LEMMA BecomeInv ==
    ASSUME Inv, NEW r \in Requests, NEW h, Become(r, h),
           UNCHANGED <<users, identities>>, signIns' \in Nat, signIns <= signIns',
           Fine(h), Stands(h, users, identities, signIns'),
           \A q \in Others(r) : Apart(h, req[q]) /\ Apart(req[q], h)
    PROVE  HandlersInv'
<1>1. req'[r] = h /\ req' \in [Requests -> RequestStates]
  BY DEF HandlersInv, Become, Inv, TypeOK, Fine
<1>2. \A q \in Others(r) : req'[q] = req[q]
  BY DEF HandlersInv, Become, Inv, TypeOK, Others
<1>3. signIns \in Nat
  BY BoundsAssumption DEF HandlersInv, Inv, TypeOK
<1>4. ASSUME NEW q \in Others(r) PROVE Stands(req[q], users, identities, signIns')
  <2>1. Stands(req[q], users, identities, signIns) /\ req[q].user \in Nat
    BY BoundsAssumption DEF HandlersInv, Inv, HandlersStand, HandlersFine, Fine, RequestStates, Others
  <2>2. QED
    BY <1>3, <2>1 DEF Stands
<1>5. HandlersFine'
  BY <1>1, <1>2 DEF HandlersInv, HandlersFine, Inv, Others
<1>6. HandlersStand'
  <2>1. ASSUME NEW q \in Requests PROVE Stands(req'[q], users', identities', signIns')
    BY <1>1, <1>2, <1>4 DEF Others
  <2>2. QED
    BY <2>1 DEF HandlersStand
<1>7. HandlersApart'
  BY <1>1, <1>2 DEF HandlersInv, HandlersApart, Inv, Others
<1>8. Rows(users, identities, signIns)'
  <2>1. \A u \in users : u.id \in Nat
    BY BoundsAssumption DEF HandlersInv, Inv, TypeOK, Users
  <2>2. QED
    BY <1>3, <2>1 DEF HandlersInv, Rows, Inv
<1>9. QED
  BY <1>1, <1>5, <1>6, <1>7, <1>8 DEF HandlersInv

\* A handler that has inserted nothing, and owns no number but a new one.
LEMMA BeginInv ==
    ASSUME Inv, NEW r \in Requests, NEW h, Become(r, h),
           UNCHANGED <<users, identities>>,
           Fine(h), h.pc \notin {"link"} \cup Leaving, ~ h.made, ~ h.linked,
           \/ ~ Owns(h) /\ signIns' = signIns
           \/ h.user = signIns' /\ signIns' = signIns + 1
    PROVE  HandlersInv'
<1>1. signIns \in Nat /\ signIns' \in Nat /\ signIns <= signIns'
  BY BoundsAssumption DEF HandlersInv, Inv, TypeOK
<1>2. \A u \in users : u.id \in Nat /\ u.id <= signIns
  BY BoundsAssumption DEF HandlersInv, Inv, TypeOK, Users, Rows
<1>3. Stands(h, users, identities, signIns')
  BY <1>1, <1>2 DEF Stands
<1>4. ASSUME NEW q \in Others(r) PROVE Apart(h, req[q]) /\ Apart(req[q], h)
  <2>1. Owns(req[q]) => req[q].user <= signIns
    BY DEF HandlersInv, Inv, HandlersStand, Stands, Others
  <2>2. req[q].user \in Nat
    BY BoundsAssumption DEF HandlersInv, Inv, HandlersFine, Fine, RequestStates, Others
  <2>3. QED
    BY <1>1, <2>1, <2>2 DEF Apart
<1>5. QED
  BY <1>1, <1>3, <1>4, BecomeInv

\* A handler keeps what it has inserted and drawn, or gives it up.
LEMMA ProceedInv ==
    ASSUME Inv, NEW r \in Requests, NEW h, Become(r, h),
           UNCHANGED <<users, identities, signIns>>,
           Fine(h), Stands(h, users, identities, signIns),
           h.made => req[r].made /\ Mail(h) = Mail(req[r]),
           h.linked => req[r].linked /\ h.subject = req[r].subject,
           Owns(h) => Owns(req[r]) /\ h.user = req[r].user
    PROVE  HandlersInv'
<1>1. ASSUME NEW q \in Others(r) PROVE Apart(h, req[q]) /\ Apart(req[q], h)
  <2>1. Apart(req[r], req[q]) /\ Apart(req[q], req[r])
    BY DEF HandlersInv, Inv, HandlersApart, Others
  <2>2. QED
    BY <2>1 DEF Apart
<1>2. signIns \in Nat
  BY BoundsAssumption DEF HandlersInv, Inv, TypeOK
<1>3. QED
  BY <1>1, <1>2, BecomeInv

LEMMA GiveUpInv ==
    ASSUME Inv, NEW r \in Requests, Become(r, Idle), UNCHANGED <<users, identities, signIns>>
    PROVE  HandlersInv'
<1>1. ~ Idle.made /\ ~ Idle.linked /\ ~ Owns(Idle)
  BY DEF Idle, Owns
<1>2. QED
  BY <1>1, IdleFine, ProceedInv

-----------------------------------------------------------------------------
(* Every step keeps the invariant.                                         *)

LEMMA InitInv == ASSUME Init PROVE Inv
<1>1. NoCode \in Codes
  BY BoundsAssumption DEF NoCode, Codes
<1>2. TypeOK /\ CodesReal /\ Rows(users, identities, signIns)
  BY <1>1, IdleFine, BoundsAssumption DEF Init, TypeOK, CodesReal, Rows, Fine
<1>3. HandlersFine /\ HandlersStand /\ HandlersApart
  BY IdleFine DEF Init, HandlersFine, HandlersStand, HandlersApart
<1>4. QED
  BY <1>2, <1>3 DEF HandlersInv, Inv, TypeOK

LEMMA KeyType == ASSUME NEW e \in Addresses PROVE KeyOf[e] \in Keys
BY KeysAssumption

\* A handler that has got to do with a code, before it looks for a user.
Began(pc, e, c, u) == [Idle EXCEPT !.pc = pc, !.email = e, !.seen = c, !.user = u]
Mailing(e, c)      == [Idle EXCEPT !.pc = "mail", !.email = e, !.seen = c]

LEMMA BeganFine ==
    ASSUME NEW pc \in {"mail", "wrong", "lock", "right"}, NEW e \in Addresses,
           NEW c \in Codes, NEW u \in 0..MaxSignIns,
           c.id # 0, pc = "wrong" => c.attempts + 1 < MaxAttempts, pc = "right" => u # 0
    PROVE  LET h == Began(pc, e, c, u)
           IN Fine(h) /\ ~ h.made /\ ~ h.linked /\ h.pc = pc /\ h.user = u
<1> DEFINE h == Began(pc, e, c, u)
<1>1. h \in RequestStates
  BY DEF Began, Idle, RequestStates, Steps
<1>2. /\ h.pc = pc /\ h.email = e /\ h.subject = NoName /\ h.seen = c /\ h.user = u
      /\ ~ h.made /\ ~ h.linked
  BY DEF Began, Idle
<1> HIDE DEF h
<1>3. Fine(h)
  BY <1>1, <1>2 DEF Fine, Finding, Leaving
<1>4. QED
  BY <1>2, <1>3 DEF h

LEMMA MailingFine ==
    ASSUME NEW e \in Addresses, NEW c \in Codes, c.id # 0
    PROVE  LET h == Mailing(e, c)
           IN Fine(h) /\ ~ h.made /\ ~ h.linked /\ h.pc = "mail"
<1> DEFINE h == Mailing(e, c)
<1>1. h \in RequestStates
  <2>1. Idle \in RequestStates
    BY IdleFine DEF Fine
  <2>2. QED
    BY <2>1 DEF Mailing, RequestStates, Steps
<1>2. /\ h.pc = "mail" /\ h.email = e /\ h.subject = NoName /\ h.seen = c
      /\ ~ h.made /\ ~ h.linked
  BY DEF Mailing, Idle
<1> HIDE DEF h
<1>3. Fine(h)
  BY <1>1, <1>2 DEF Fine, Finding, Leaving
<1>4. QED
  BY <1>2, <1>3 DEF h

LEMMA CountedUpType ==
    ASSUME NEW f \in [1..MaxCodes -> Nat], NEW I
    PROVE  CountedUp(f, I) \in [1..MaxCodes -> Nat]
BY DEF CountedUp

LEMMA RequestCodeInv ==
    ASSUME Inv, NEW r \in Requests, NEW e \in Addresses, RequestCode(r, e)
    PROVE  Inv'
<1> DEFINE k == KeyOf[e]
           new == [id |-> issued + 1, attempts |-> 0]
           h == Mailing(e, new)
<1>1. k \in Keys
  BY KeyType
<1>2. /\ code' = [code EXCEPT ![k] = new]
      /\ overlaps' = CountedUp(overlaps, AtWork(k))
      /\ issued' = issued + 1 /\ issued < MaxCodes
      /\ UNCHANGED <<mailed, guesses, uses, faults, rowVars>>
  BY DEF RequestCode
<1>3. Become(r, h)
  BY DEF RequestCode, Mailing
<1>4. new \in Codes /\ new.id # 0 /\ issued' \in 0..MaxCodes
  BY <1>2, BoundsAssumption DEF HandlersInv, Inv, TypeOK, Codes
<1> HIDE DEF new, k
<1>6. Fine(h) /\ ~ h.made /\ ~ h.linked /\ h.pc = "mail"
  BY <1>4, MailingFine
<1> HIDE DEF h
<1>7. CodesReal' /\ code' \in [Keys -> Codes]
  BY <1>1, <1>2, <1>4 DEF HandlersInv, CodesReal, Inv, TypeOK
<1>8. HandlersInv'
  BY <1>2, <1>3, <1>6, BeginInv DEF rowVars, Owns, Leaving
<1>9. overlaps' \in [1..MaxCodes -> Nat]
  BY <1>2, CountedUpType DEF Inv, TypeOK
<1>10. QED
  BY <1>2, <1>4, <1>7, <1>8, <1>9 DEF HandlersInv, Inv, TypeOK, rowVars

LEMMA ReadCodeInv ==
    ASSUME Inv, NEW r \in Requests, NEW e \in Addresses, NEW c, ReadCode(r, e, c)
    PROVE  Inv'
<1> DEFINE k == KeyOf[e]
           right == c = code[k].id
           last == LastAttempt(k)
           pc == IF right THEN "right" ELSE IF last THEN "lock" ELSE "wrong"
           u == IF right THEN signIns + 1 ELSE 0
           h == Began(pc, e, code[k], u)
<1>1. k \in Keys /\ code[k] \in Codes /\ code[k].id # 0
  BY KeyType DEF HandlersInv, ReadCode, Inv, TypeOK, CodesReal
<1>2. /\ right => signIns < MaxSignIns
      /\ signIns' = IF right THEN signIns + 1 ELSE signIns
      /\ guesses' = CountedUp(guesses, IF right THEN {} ELSE {code[k].id})
      /\ uses' = CountedUp(uses, IF right THEN {code[k].id} ELSE {})
      /\ overlaps' = CountedUp(overlaps, AtWork(k) \cap {code[k].id})
      /\ UNCHANGED <<code, mailed, issued, users, identities, tokens, faults>>
  BY DEF ReadCode
<1>3. Become(r, h)
  BY DEF ReadCode, Began
<1>4. code[k].id \in 1..MaxCodes /\ code[k].attempts \in Nat
  BY <1>1, BoundsAssumption DEF Codes
<1>5. /\ signIns' \in 0..MaxSignIns /\ u \in 0..MaxSignIns
      /\ \/ right /\ pc = "right" /\ u # 0 /\ u = signIns' /\ signIns' = signIns + 1
         \/ pc \in {"lock", "wrong"} /\ signIns' = signIns
      /\ pc = "wrong" => code[k].attempts + 1 < MaxAttempts
  <2>1. signIns \in 0..MaxSignIns
    BY DEF Inv, TypeOK
  <2>2. QED
    BY <1>2, <1>4, <2>1, BoundsAssumption DEF LastAttempt
<1>6. pc \in {"mail", "wrong", "lock", "right"} /\ (pc = "right" => u # 0)
  BY <1>5
<1> HIDE DEF right, last, pc, u
<1>7. Fine(h) /\ ~ h.made /\ ~ h.linked /\ h.pc = pc /\ h.user = u
  BY <1>1, <1>5, <1>6, BeganFine
<1> HIDE DEF h, k
<1>8. HandlersInv'
  <2>1. \/ ~ Owns(h) /\ signIns' = signIns
        \/ h.user = signIns' /\ signIns' = signIns + 1
    BY <1>5, <1>7 DEF Owns
  <2>2. h.pc \notin {"link"} \cup Leaving
    BY <1>6, <1>7 DEF Leaving
  <2>3. QED
    BY <1>2, <1>3, <1>7, <2>1, <2>2, BeginInv
<1>9. /\ guesses' \in [1..MaxCodes -> Nat] /\ uses' \in [1..MaxCodes -> Nat]
      /\ overlaps' \in [1..MaxCodes -> Nat]
  BY <1>2, CountedUpType DEF Inv, TypeOK
<1>10. QED
  BY <1>1, <1>2, <1>4, <1>5, <1>8, <1>9 DEF HandlersInv, Inv, TypeOK, CodesReal

LEMMA WriteBackInv == ASSUME Inv, NEW r \in Requests, WriteBack(r) PROVE Inv'
<1> DEFINE k == KeyOf[req[r].email]
           c == CountedGuess(req[r].seen)
<1>1. /\ req[r].email \in Addresses /\ req[r].seen \in Codes /\ req[r].seen.id # 0
      /\ req[r].seen.attempts + 1 < MaxAttempts
  BY DEF HandlersInv, WriteBack, Inv, HandlersFine, Fine, RequestStates
<1>2. c \in Codes /\ c.id # 0
  BY <1>1, BoundsAssumption DEF Codes, CountedGuess
<1>3. k \in Keys
  BY <1>1, KeyType
<1>4. /\ code' = [code EXCEPT ![k] = c] /\ Become(r, Idle)
      /\ UNCHANGED <<mailed, issued, history, faults, rowVars>>
  BY DEF WriteBack
<1> HIDE DEF k, c
<1>5. CodesReal' /\ code' \in [Keys -> Codes]
  BY <1>2, <1>3, <1>4 DEF HandlersInv, CodesReal, Inv, TypeOK
<1>6. QED
  BY <1>4, <1>5, GiveUpInv DEF HandlersInv, Inv, TypeOK, rowVars, history

LEMMA ExpireInv == ASSUME Inv, NEW k \in Keys, Expire(k) PROVE Inv'
<1>1. NoCode \in Codes /\ code' = [code EXCEPT ![k] = NoCode]
      /\ UNCHANGED <<mailed, issued, history, req, faults, rowVars>>
  BY BoundsAssumption DEF NoCode, Codes, Expire
<1>2. CodesReal' /\ code' \in [Keys -> Codes]
  BY <1>1 DEF HandlersInv, CodesReal, Inv, TypeOK
<1>3. QED
  BY <1>1, <1>2 DEF HandlersInv, Inv, TypeOK, rowVars, HandlersFine, HandlersStand, HandlersApart, history

LEMMA SendMailInv == ASSUME Inv, NEW r \in Requests, SendMail(r) PROVE Inv'
<1>1. req[r].email \in Addresses /\ req[r].seen \in Codes /\ req[r].seen.id # 0
  BY DEF HandlersInv, SendMail, Inv, HandlersFine, Fine, RequestStates
<1>2. req[r].seen.id \in 1..MaxCodes /\ KeyOf[req[r].email] \in Keys
  BY <1>1, KeyType, BoundsAssumption DEF Codes
<1>3. Become(r, Idle) /\ UNCHANGED <<code, issued, history, faults, rowVars>>
  BY DEF SendMail
<1>4. mailed' \in [Keys -> SUBSET (1..MaxCodes)]
  BY <1>2 DEF HandlersInv, SendMail, Inv, TypeOK
<1>5. QED
  BY <1>3, <1>4, GiveUpInv DEF HandlersInv, Inv, TypeOK, rowVars, CodesReal, history

LEMMA DropCodeInv == ASSUME Inv, NEW r \in Requests, DropCode(r) PROVE Inv'
<1>1. /\ req[r].pc \in {"lock", "right"} /\ req[r].email \in Addresses /\ Fine(req[r])
      /\ Stands(req[r], users, identities, signIns)
      /\ code' = [code EXCEPT ![KeyOf[req[r].email]] = NoCode]
      /\ UNCHANGED <<mailed, issued, history, faults, rowVars>>
  BY DEF HandlersInv, DropCode, Inv, HandlersFine, HandlersStand, Fine
<1>2. KeyOf[req[r].email] \in Keys /\ NoCode \in Codes
  BY <1>1, KeyType, BoundsAssumption DEF NoCode, Codes
<1>3. CodesReal' /\ code' \in [Keys -> Codes]
  BY <1>1, <1>2 DEF HandlersInv, CodesReal, Inv, TypeOK
<1>4. HandlersInv'
  <2>1. CASE req[r].pc = "right"
    <3> DEFINE h == [req[r] EXCEPT !.pc = "lookup"]
    <3>1. Become(r, h)
      BY <2>1 DEF DropCode, GoTo
    <3>2. /\ h.pc = "lookup" /\ h.made = req[r].made /\ h.linked = req[r].linked
          /\ h.user = req[r].user /\ h.email = req[r].email /\ h.subject = req[r].subject
          /\ h.seen = req[r].seen /\ h \in RequestStates
      BY <1>1 DEF Fine, RequestStates, Steps
    <3> HIDE DEF h
    <3>3. Mail(h) \in Mails
      BY <1>1, <3>2, NamesAssumption DEF Mail, Mails
    <3>4. Fine(h) /\ ~ h.made /\ ~ h.linked
      BY <1>1, <2>1, <3>2, <3>3 DEF Fine, Finding, Leaving
    <3>5. Stands(h, users, identities, signIns)
      BY <1>1, <2>1, <3>2, <3>4 DEF Stands, Owns, Leaving
    <3>6. QED
      BY <1>1, <2>1, <3>1, <3>2, <3>4, <3>5, ProceedInv DEF Owns, rowVars
  <2>2. CASE req[r].pc # "right"
    BY <1>1, <2>2, GiveUpInv DEF DropCode, rowVars
  <2>3. QED
    BY <2>1, <2>2
<1>5. QED
  BY <1>1, <1>3, <1>4 DEF HandlersInv, Inv, TypeOK, rowVars, history

LEMMA CallbackInv ==
    ASSUME Inv, NEW r \in Requests, NEW s \in Subjects, NEW e \in ProviderMails, Callback(r, s, e)
    PROVE  Inv'
<1> DEFINE h == [Idle EXCEPT !.pc = "identity", !.subject = s, !.email = e, !.user = signIns + 1]
<1>1. /\ Become(r, h) /\ signIns < MaxSignIns /\ signIns' = signIns + 1
      /\ UNCHANGED <<codeVars, users, identities, tokens, faults>>
  BY DEF Callback
<1>2. signIns \in Nat /\ signIns' \in 0..MaxSignIns
  BY <1>1, BoundsAssumption DEF HandlersInv, Inv, TypeOK
<1>3. /\ h \in RequestStates /\ h.pc = "identity" /\ h.subject = s /\ h.email = e
      /\ h.user = signIns + 1 /\ ~ h.made /\ ~ h.linked
  BY <1>1, <1>2, IdleFine, BoundsAssumption DEF Fine, Idle, RequestStates, Steps, ProviderMails
<1> HIDE DEF h
<1>4. Mail(h) \in Mails
  BY <1>3 DEF Mail, Mails, ProviderMails
<1>5. Fine(h)
  BY <1>2, <1>3, <1>4 DEF Fine, Finding, Leaving
<1>6. HandlersInv'
  BY <1>1, <1>3, <1>5, BeginInv DEF Leaving
<1>7. QED
  BY <1>1, <1>2, <1>6 DEF HandlersInv, Inv, TypeOK, codeVars, CodesReal, history

\* What the invariant says of one handler.
LEMMA OneHandler ==
    ASSUME Inv, NEW r \in Requests
    PROVE  /\ Fine(req[r]) /\ req[r] \in RequestStates
           /\ Stands(req[r], users, identities, signIns)
BY DEF HandlersInv, Inv, HandlersFine, HandlersStand, Fine

LEMMA NamesApart ==
    /\ \A h \in RequestStates : h.subject = NoName /\ Mail(h) \in Mails => h.email \in Addresses
    /\ \A h \in RequestStates : h.subject # NoName => h.subject \in Subjects
BY NamesAssumption DEF Mail, Mails, RequestStates

LEMMA FindIdentityInv == ASSUME Inv, NEW r \in Requests, FindIdentity(r) PROVE Inv'
<1>1. /\ Fine(req[r]) /\ req[r] \in RequestStates /\ Stands(req[r], users, identities, signIns)
      /\ req[r].pc = "identity" /\ UNCHANGED <<codeVars, rowVars, faults>>
  BY OneHandler DEF FindIdentity
<1>2. req[r].subject \in Subjects /\ req[r].subject # NoName /\ ~ req[r].made /\ ~ req[r].linked
      /\ req[r].user # 0 /\ Mail(req[r]) \in Mails
  BY <1>1, NamesAssumption DEF Fine, Finding
<1>3. HandlersInv'
  <2>1. ASSUME NEW i \in identities, i.subject = req[r].subject,
               Become(r, [req[r] EXCEPT !.pc = "touch", !.user = i.user])
        PROVE  HandlersInv'
    <3> DEFINE h == [req[r] EXCEPT !.pc = "touch", !.user = i.user]
    <3>1. i.user \in 0..MaxSignIns /\ i.user # 0
      BY BoundsAssumption DEF HandlersInv, Inv, TypeOK, Identities
    <3>2. /\ h \in RequestStates /\ h.pc = "touch" /\ h.user = i.user /\ h.subject = req[r].subject
          /\ h.email = req[r].email /\ h.made = req[r].made /\ h.linked = req[r].linked
          /\ Become(r, h)
      BY <1>1, <2>1, <3>1 DEF RequestStates, Steps
    <3> HIDE DEF h
    <3>3. Fine(h)
      BY <1>1, <1>2, <3>1, <3>2 DEF Fine, Finding, Leaving, Mail
    <3>4. Stands(h, users, identities, signIns) /\ ~ Owns(h)
      BY <1>2, <2>1, <3>2 DEF Stands, Owns, Leaving
    <3>5. QED
      BY <1>1, <1>2, <3>2, <3>3, <3>4, ProceedInv DEF rowVars
  <2>2. ASSUME NEW p \in {"create", "lookup"}, GoTo(r, p)
        PROVE  HandlersInv'
    <3> DEFINE h == [req[r] EXCEPT !.pc = p]
    <3>1. /\ h \in RequestStates /\ h.pc = p /\ h.user = req[r].user /\ h.subject = req[r].subject
          /\ h.email = req[r].email /\ h.made = req[r].made /\ h.linked = req[r].linked
          /\ Become(r, h)
      BY <1>1, <2>2 DEF RequestStates, Steps, GoTo
    <3> HIDE DEF h
    <3>2. Fine(h)
      BY <1>1, <1>2, <3>1 DEF Fine, Finding, Leaving, Mail
    <3>3. Stands(h, users, identities, signIns) /\ Owns(req[r])
      BY <1>1, <1>2, <3>1 DEF Stands, Owns, Leaving
    <3>4. QED
      BY <1>1, <1>2, <3>1, <3>2, <3>3, ProceedInv DEF rowVars
  <2>3. QED
    BY <2>1, <2>2 DEF FindIdentity
<1>4. QED
  BY <1>1, <1>3 DEF HandlersInv, Inv, TypeOK, rowVars, codeVars, CodesReal, history

LEMMA FindUserInv == ASSUME Inv, NEW r \in Requests, FindUser(r) PROVE Inv'
<1>1. /\ Fine(req[r]) /\ req[r] \in RequestStates /\ Stands(req[r], users, identities, signIns)
      /\ req[r].pc = "lookup" /\ UNCHANGED <<codeVars, rowVars, faults>>
  BY OneHandler DEF FindUser
<1>2. ~ req[r].made /\ ~ req[r].linked /\ req[r].user # 0 /\ Mail(req[r]) \in Mails
  BY <1>1 DEF Fine, Finding
<1>3. HandlersInv'
  <2>1. ASSUME NEW u \in users, u.email = Mail(req[r]),
               Become(r, [req[r] EXCEPT !.pc = AfterUser(r), !.user = u.id])
        PROVE  HandlersInv'
    <3> DEFINE h == [req[r] EXCEPT !.pc = AfterUser(r), !.user = u.id]
    <3>1. u.id \in 0..MaxSignIns /\ u.id # 0
      BY BoundsAssumption DEF HandlersInv, Inv, TypeOK, Users
    <3>2. AfterUser(r) = IF req[r].subject = NoName THEN "touch" ELSE "link"
      BY DEF AfterUser, ByMail
    <3>3. /\ h \in RequestStates /\ h.pc = AfterUser(r) /\ h.user = u.id /\ h.subject = req[r].subject
          /\ h.email = req[r].email /\ h.made = req[r].made /\ h.linked = req[r].linked
          /\ Become(r, h)
      BY <1>1, <2>1, <3>1, <3>2 DEF RequestStates, Steps
    <3> HIDE DEF h
    <3>4. Fine(h)
      BY <1>1, <1>2, <3>1, <3>2, <3>3, NamesApart DEF Fine, Finding, Leaving, Mail
    <3>5. Stands(h, users, identities, signIns) /\ ~ Owns(h)
      BY <1>1, <1>2, <2>1, <3>2, <3>3, NamesApart, NamesAssumption DEF Stands, Owns, Leaving, Mail
    <3>6. QED
      BY <1>1, <1>2, <3>3, <3>4, <3>5, ProceedInv DEF rowVars
  <2>2. ASSUME GoTo(r, "create")
        PROVE  HandlersInv'
    <3> DEFINE h == [req[r] EXCEPT !.pc = "create"]
    <3>1. /\ h \in RequestStates /\ h.pc = "create" /\ h.user = req[r].user /\ h.subject = req[r].subject
          /\ h.email = req[r].email /\ h.made = req[r].made /\ h.linked = req[r].linked
          /\ Become(r, h)
      BY <1>1, <2>2 DEF RequestStates, Steps, GoTo
    <3> HIDE DEF h
    <3>2. Fine(h)
      BY <1>1, <1>2, <3>1 DEF Fine, Finding, Leaving, Mail
    <3>3. Stands(h, users, identities, signIns) /\ Owns(req[r])
      BY <1>1, <1>2, <3>1 DEF Stands, Owns, Leaving
    <3>4. QED
      BY <1>1, <1>2, <3>1, <3>2, <3>3, ProceedInv DEF rowVars
  <2>3. QED
    BY <2>1, <2>2 DEF FindUser, MailOf, Mail
<1>4. QED
  BY <1>1, <1>3 DEF HandlersInv, Inv, TypeOK, rowVars, codeVars, CodesReal, history

LEMMA CreateUserInv == ASSUME Inv, NEW r \in Requests, CreateUser(r) PROVE Inv'
<1>1. /\ Fine(req[r]) /\ req[r] \in RequestStates /\ Stands(req[r], users, identities, signIns)
      /\ req[r].pc = "create" /\ UNCHANGED <<codeVars, rowVars, faults>>
  BY OneHandler DEF CreateUser
<1>2. ~ req[r].made /\ ~ req[r].linked /\ req[r].user # 0 /\ Mail(req[r]) \in Mails
  BY <1>1 DEF Fine, Finding
<1>3. HandlersInv'
  <2>1. CASE Become(r, Idle)
    BY <1>1, <2>1, GiveUpInv DEF rowVars
  <2>2. CASE /\ ~ MailIsTaken(MailOf(r))
             /\ Become(r, [req[r] EXCEPT !.made = TRUE, !.pc = AfterUser(r)])
    <3> DEFINE h == [req[r] EXCEPT !.made = TRUE, !.pc = AfterUser(r)]
    <3>1. AfterUser(r) = IF req[r].subject = NoName THEN "touch" ELSE "link"
      BY DEF AfterUser, ByMail
    <3>2. /\ h \in RequestStates /\ h.pc = AfterUser(r) /\ h.user = req[r].user
          /\ h.subject = req[r].subject /\ h.email = req[r].email /\ h.made
          /\ h.linked = req[r].linked /\ Become(r, h)
      BY <1>1, <2>2, <3>1 DEF RequestStates, Steps
    <3> HIDE DEF h
    <3>3. Mail(h) = Mail(req[r]) /\ Mail(h) = MailOf(r)
      BY <3>2 DEF Mail, MailOf
    <3>4. Fine(h)
      BY <1>1, <1>2, <3>1, <3>2, <3>3, NamesApart DEF Fine, Finding, Leaving
    <3>5. Stands(h, users, identities, signIns)
      BY <1>1, <1>2, <2>2, <3>1, <3>2, <3>3 DEF Stands, Owns, Leaving, MailIsTaken
    <3>6. ASSUME NEW q \in Others(r) PROVE Apart(h, req[q]) /\ Apart(req[q], h)
      <4>1. Apart(req[r], req[q]) /\ Apart(req[q], req[r]) /\ Owns(req[r])
        BY <1>1 DEF HandlersInv, Inv, HandlersApart, Others, Owns
      <4>2. req[q].made => Mail(req[q]) # Mail(h)
        BY <3>3 DEF CreateUser, InsertedUser, Mail, MailOf
      <4>3. QED
        BY <1>2, <3>2, <4>1, <4>2 DEF Apart
    <3>7. signIns \in Nat
      BY BoundsAssumption DEF HandlersInv, Inv, TypeOK
    <3>8. QED
      BY <1>1, <3>2, <3>4, <3>5, <3>6, <3>7, BecomeInv DEF rowVars
  <2>3. QED
    BY <2>1, <2>2 DEF CreateUser
<1>4. QED
  BY <1>1, <1>3 DEF HandlersInv, Inv, TypeOK, rowVars, codeVars, CodesReal, history

LEMMA LinkIdentityInv == ASSUME Inv, NEW r \in Requests, LinkIdentity(r) PROVE Inv'
<1>1. /\ Fine(req[r]) /\ req[r] \in RequestStates /\ Stands(req[r], users, identities, signIns)
      /\ req[r].pc = "link" /\ UNCHANGED <<codeVars, rowVars, faults>>
  BY OneHandler DEF LinkIdentity
<1>2. ~ req[r].linked /\ req[r].user # 0 /\ Mail(req[r]) \in Mails /\ req[r].subject \in Subjects
  BY <1>1 DEF Fine
<1>3. HandlersInv'
  <2>1. CASE Become(r, Idle)
    BY <1>1, <2>1, GiveUpInv DEF rowVars
  <2>2. CASE /\ ~ \E i \in identities : i.subject = req[r].subject
             /\ Become(r, [req[r] EXCEPT !.linked = TRUE, !.pc = "touch"])
    <3> DEFINE h == [req[r] EXCEPT !.linked = TRUE, !.pc = "touch"]
    <3>1. /\ h \in RequestStates /\ h.pc = "touch" /\ h.user = req[r].user
          /\ h.subject = req[r].subject /\ h.email = req[r].email /\ h.made = req[r].made
          /\ h.linked /\ Become(r, h)
      BY <1>1, <2>2 DEF RequestStates, Steps
    <3> HIDE DEF h
    <3>2. Mail(h) = Mail(req[r])
      BY <3>1 DEF Mail
    <3>3. Fine(h)
      BY <1>1, <1>2, <3>1, <3>2 DEF Fine, Finding, Leaving
    <3>4. Stands(h, users, identities, signIns)
      BY <1>1, <1>2, <2>2, <3>1, <3>2, NamesAssumption DEF Stands, Owns, Leaving
    <3>5. ASSUME NEW q \in Others(r) PROVE Apart(h, req[q]) /\ Apart(req[q], h)
      <4>1. Apart(req[r], req[q]) /\ Apart(req[q], req[r])
        BY DEF HandlersInv, Inv, HandlersApart, Others
      <4>2. req[q].linked => req[q].subject # h.subject
        BY <3>1 DEF LinkIdentity, InsertedIdentity
      <4>3. QED
        BY <1>1, <3>1, <3>2, <4>1, <4>2 DEF Apart, Owns
    <3>6. signIns \in Nat
      BY BoundsAssumption DEF HandlersInv, Inv, TypeOK
    <3>7. QED
      BY <1>1, <3>1, <3>3, <3>4, <3>5, <3>6, BecomeInv DEF rowVars
  <2>3. QED
    BY <2>1, <2>2 DEF LinkIdentity
<1>4. QED
  BY <1>1, <1>3 DEF HandlersInv, Inv, TypeOK, rowVars, codeVars, CodesReal, history

\* The last steps of a handler change nothing but its place.
LEMMA AdvanceInv ==
    ASSUME Inv, NEW r \in Requests, NEW p \in {"touched", "answered"},
           req[r].pc \in Leaving, GoTo(r, p), UNCHANGED <<users, identities, signIns>>
    PROVE  HandlersInv'
<1> DEFINE h == [req[r] EXCEPT !.pc = p]
<1>1. Fine(req[r]) /\ req[r] \in RequestStates /\ Stands(req[r], users, identities, signIns)
  BY OneHandler
<1>2. /\ h \in RequestStates /\ h.pc = p /\ h.user = req[r].user /\ h.subject = req[r].subject
      /\ h.email = req[r].email /\ h.made = req[r].made /\ h.linked = req[r].linked
      /\ Become(r, h)
  BY <1>1 DEF RequestStates, Steps, GoTo
<1> HIDE DEF h
<1>3. Fine(h)
  BY <1>1, <1>2 DEF Fine, Finding, Leaving, Mail
<1>4. Stands(h, users, identities, signIns)
  BY <1>1, <1>2 DEF Stands, Owns, Leaving, Mail
<1>5. (Owns(h) => Owns(req[r])) /\ Mail(h) = Mail(req[r])
  BY <1>2 DEF Owns, Mail
<1>6. QED
  BY <1>2, <1>3, <1>4, <1>5, ProceedInv

LEMMA IssueTokensInv == ASSUME Inv, NEW r \in Requests, IssueTokens(r) PROVE Inv'
<1>1. /\ Fine(req[r]) /\ req[r] \in RequestStates /\ req[r].pc = "touched"
      /\ UNCHANGED <<codeVars, users, identities, signIns, faults>>
  BY OneHandler DEF IssueTokens
<1>2. HandlersInv'
  BY <1>1, AdvanceInv DEF IssueTokens, Leaving
<1>3. [who |-> IF ByMail(r) THEN req[r].email ELSE req[r].subject, user |-> req[r].user]
         \in [who : Mails, user : 1..MaxSignIns]
  <2>1. req[r].user \in 1..MaxSignIns
    BY <1>1, BoundsAssumption DEF Fine, Leaving, RequestStates
  <2>2. (IF ByMail(r) THEN req[r].email ELSE req[r].subject) \in Mails
    BY <1>1, NamesApart DEF Fine, Leaving, ByMail, Mails
  <2>3. QED
    BY <2>1, <2>2
<1>4. tokens' \subseteq [who : Mails, user : 1..MaxSignIns]
  BY <1>3 DEF IssueTokens, Inv, TypeOK
<1>5. QED
  BY <1>1, <1>2, <1>4 DEF HandlersInv, Inv, TypeOK, codeVars, CodesReal, history

\* The rows of one transaction become those of all.
LEMMA CommitInv == ASSUME Inv, NEW r \in Requests, Commit(r) PROVE Inv'
<1> DEFINE h == req[r]
           user == [id |-> h.user, email |-> Mail(h)]
           link == [subject |-> h.subject, user |-> h.user]
<1>1. /\ Fine(h) /\ h \in RequestStates /\ Stands(h, users, identities, signIns) /\ h.pc = "answered"
      /\ Become(r, Idle) /\ UNCHANGED <<codeVars, tokens, signIns, faults>>
  BY OneHandler DEF Commit
<1>2. /\ h.user \in 1..MaxSignIns /\ Mail(h) \in Mails /\ h.user \in Nat
      /\ h.linked => h.subject \in Subjects
  BY <1>1, BoundsAssumption DEF Fine, Leaving, RequestStates
<1>3. /\ h.made => users' = users \cup {user}
      /\ ~ h.made => users' = users
      /\ h.linked => identities' = identities \cup {link}
      /\ ~ h.linked => identities' = identities
  BY DEF Commit, MailOf, Mail
<1>4. users' \subseteq Users /\ identities' \subseteq Identities
  BY <1>2, <1>3 DEF Inv, TypeOK, Users, Identities
<1>5. req'[r] = Idle /\ \A q \in Others(r) : req'[q] = req[q]
  BY <1>1 DEF Become, Inv, TypeOK, Others
<1>6. req' \in [Requests -> RequestStates]
  BY <1>1, IdleFine DEF Become, Inv, TypeOK, Fine
<1>7. HandlersFine' /\ HandlersApart'
  <2>1. HandlersFine'
    BY <1>5, IdleFine DEF HandlersFine, HandlersInv, Inv, Others
  <2>2. HandlersApart'
    BY <1>5, IdleFine DEF HandlersApart, HandlersInv, Inv, Others
  <2>3. QED
    BY <2>1, <2>2
<1>8. HandlersStand'
  <2>1. ASSUME NEW q \in Others(r) PROVE Stands(req[q], users', identities', signIns)
    <3>1. Stands(req[q], users, identities, signIns) /\ Apart(h, req[q])
      BY DEF HandlersInv, Inv, HandlersStand, HandlersApart, Others
    <3>2. Owns(req[q]) => \A u \in users' : u.id # req[q].user
      BY <1>3, <3>1 DEF Stands, Apart, Owns
    <3>3. req[q].made => \A u \in users' : u.email # Mail(req[q])
      BY <1>3, <3>1 DEF Stands, Apart
    <3>4. req[q].linked => \A i \in identities' : i.subject # req[q].subject
      BY <1>3, <3>1 DEF Stands, Apart
    <3>5. users \subseteq users' /\ identities \subseteq identities'
      BY <1>3
    <3> HIDE DEF h, user, link
    <3>6. QED
      BY <3>1, <3>2, <3>3, <3>4, <3>5 DEF Stands
  <2>2. ASSUME NEW q \in Requests PROVE Stands(req'[q], users', identities', signIns')
    BY <1>1, <1>5, <2>1, IdleFine DEF Others
  <2>3. QED
    BY <2>2 DEF HandlersStand
<1>9. Rows(users, identities, signIns)'
  <2>1. Rows(users, identities, signIns)
    BY DEF HandlersInv, Inv
  <2>2. \A u, v \in users' : u.email = v.email \/ u.id = v.id => u = v
    <3>1. h.made => \A u \in users : u.id # h.user /\ u.email # Mail(h)
      BY <1>1 DEF Stands, Owns
    <3>2. user.id = h.user /\ user.email = Mail(h)
      OBVIOUS
    <3> HIDE DEF user, h
    <3>3. QED
      BY <1>3, <2>1, <3>1, <3>2 DEF Rows
  <2>3. \A i, j \in identities' : i.subject = j.subject => i = j
    <3>1. h.linked => \A i \in identities : i.subject # h.subject
      BY <1>1 DEF Stands
    <3>2. link.subject = h.subject
      OBVIOUS
    <3> HIDE DEF link, h
    <3>3. QED
      BY <1>3, <2>1, <3>1, <3>2 DEF Rows
  <2>4. \A i \in identities' : \E u \in users' : u.id = i.user
    <3>1. h.linked => h.made \/ \E u \in users : u.id = h.user
      BY <1>1 DEF Stands
    <3>2. user.id = h.user /\ link.user = h.user
      OBVIOUS
    <3> HIDE DEF user, link, h
    <3>3. h.linked => \E u \in users' : u.id = link.user
      BY <1>3, <3>1, <3>2
    <3>4. QED
      BY <1>3, <2>1, <3>3 DEF Rows
  <2>5. \A u \in users' : u.email \in Subjects =>
           \E i \in identities' : i.subject = u.email /\ i.user = u.id
    <3>1. h.made /\ Mail(h) \in Subjects => h.linked /\ h.subject = Mail(h)
      BY <1>1, NamesAssumption DEF Fine, Leaving, Mail, RequestStates
    <3>2. user.id = h.user /\ user.email = Mail(h) /\ link.subject = h.subject /\ link.user = h.user
      OBVIOUS
    <3> HIDE DEF user, link, h
    <3>3. QED
      BY <1>3, <2>1, <3>1, <3>2 DEF Rows
  <2>6. \A u \in users' : u.id <= signIns
    <3>1. h.made => h.user <= signIns
      BY <1>1 DEF Stands, Owns
    <3>2. user.id = h.user
      OBVIOUS
    <3> HIDE DEF user, h
    <3>3. QED
      BY <1>3, <2>1, <3>1, <3>2 DEF Rows
  <2> HIDE DEF h, user, link
  <2>7. QED
    BY <1>1, <2>2, <2>3, <2>4, <2>5, <2>6 DEF Rows
<1>10. QED
  BY <1>1, <1>4, <1>6, <1>7, <1>8, <1>9 DEF HandlersInv, Inv, TypeOK, codeVars, CodesReal, history

LEMMA NextInv == ASSUME Inv, [Next]_vars PROVE Inv'
<1>1. ASSUME NEW r \in Requests, TouchLastLogin(r) PROVE Inv'
  <2>1. HandlersInv' /\ UNCHANGED <<codeVars, rowVars, faults>>
    BY <1>1, AdvanceInv DEF TouchLastLogin, Leaving, rowVars
  <2>2. QED
    BY <2>1 DEF HandlersInv, Inv, TypeOK, codeVars, rowVars, CodesReal, history
<1>2. ASSUME NEW r \in Requests, Abort(r) PROVE Inv'
  <2>1. HandlersInv' /\ UNCHANGED <<codeVars, rowVars>>
    BY <1>2, GiveUpInv DEF Abort, rowVars
  <2>2. faults' \in 0..MaxFaults
    BY <1>2, BoundsAssumption DEF Abort, Inv, TypeOK
  <2>3. QED
    BY <2>1, <2>2 DEF HandlersInv, Inv, TypeOK, codeVars, rowVars, CodesReal, history
<1>3. ASSUME NEW r \in Requests, NEW s \in Subjects, TelegramVerify(r, s) PROVE Inv'
  BY <1>3, CallbackInv DEF TelegramVerify, ProviderMails
<1>4. CASE UNCHANGED vars
  BY <1>4 DEF vars, HandlersInv, Inv, TypeOK, CodesReal, HandlersFine, HandlersStand, HandlersApart
<1>5. QED
  BY <1>1, <1>2, <1>3, <1>4, RequestCodeInv, ReadCodeInv, CallbackInv, ExpireInv, SendMailInv,
     WriteBackInv, DropCodeInv, FindIdentityInv, FindUserInv, CreateUserInv, LinkIdentityInv,
     IssueTokensInv, CommitInv
  DEF Next, Proceed, Resolve

\* Type correctness: an attempt is never counted beyond the limit, and what is
\* inserted always has an address or a provider account to go under.
THEOREM TypeCorrect == Spec => []TypeOK
<1>1. Inv => TypeOK
  BY DEF Inv
<1>2. QED
  BY <1>1, InitInv, NextInv, PTL DEF Spec

\* No address and no provider account ever has two users, however many requests
\* look for a user at once before one of them inserts it.
THEOREM AccountsStayUnique == Spec => []AccountsAreUnique
<1>1. Inv => AccountsAreUnique
  BY DEF Inv, HandlersInv, Rows, AccountsAreUnique
<1>2. QED
  BY <1>1, InitInv, NextInv, PTL DEF Spec

-----------------------------------------------------------------------------
(* Tokens.                                                                  *)

LEMMA TokensStep ==
    ASSUME Inv, [Next]_vars
    PROVE  \/ tokens' = tokens
           \/ \E r \in Requests : IssueTokens(r)
<1> USE DEF codeVars, rowVars
<1>1. CASE UNCHANGED vars
  BY <1>1 DEF vars
<1>2. CASE \E k \in Keys : Expire(k)
  BY <1>2 DEF Expire
<1>3. ASSUME NEW r \in Requests, NEW e \in Addresses,
             RequestCode(r, e) \/ \E c \in mailed[KeyOf[e]] \cup {0} : ReadCode(r, e, c)
      PROVE  tokens' = tokens
  BY <1>3 DEF RequestCode, ReadCode
<1>4. ASSUME NEW r \in Requests, NEW s \in Subjects,
             (\E e \in ProviderMails : Callback(r, s, e)) \/ TelegramVerify(r, s)
      PROVE  tokens' = tokens
  BY <1>4 DEF Callback, TelegramVerify
<1>5. ASSUME NEW r \in Requests, SendMail(r) \/ WriteBack(r) \/ DropCode(r) \/ Abort(r)
      PROVE  tokens' = tokens
  BY <1>5 DEF SendMail, WriteBack, DropCode, Abort
<1>6. ASSUME NEW r \in Requests, FindIdentity(r) \/ FindUser(r) \/ CreateUser(r) \/ LinkIdentity(r)
                                 \/ TouchLastLogin(r) \/ Commit(r)
      PROVE  tokens' = tokens
  BY <1>6 DEF FindIdentity, FindUser, CreateUser, LinkIdentity, TouchLastLogin, Commit
<1>7. QED
  BY <1>1, <1>2, <1>3, <1>4, <1>5, <1>6 DEF Next, Proceed, Resolve

\* Whoever is about to get tokens gets them for the user that the address or
\* the provider account belongs to, if it belongs to a committed one.
LEMMA RightAccount ==
    ASSUME Inv, NEW r \in Requests, IssueTokens(r), NEW t \in tokens' \ tokens
    PROVE  /\ \A u \in users : u.email = t.who => t.user = u.id
           /\ \A i \in identities : i.subject = t.who => t.user = i.user
<1> DEFINE h == req[r]
<1>1. /\ Fine(h) /\ h \in RequestStates /\ Stands(h, users, identities, signIns)
      /\ h.pc \in Leaving /\ Rows(users, identities, signIns)
  BY OneHandler DEF IssueTokens, Leaving, Inv, HandlersInv
<1>2. t = [who |-> IF ByMail(r) THEN req[r].email ELSE req[r].subject, user |-> req[r].user]
  BY DEF IssueTokens
<1>3. t.user = h.user /\ t.who = IF h.subject = NoName THEN h.email ELSE h.subject
  BY <1>2 DEF ByMail
<1>4. \A i \in identities : i.subject \in Subjects
  BY DEF Inv, TypeOK, Identities
<1>5. CASE h.subject = NoName
  <2>1. h.email \in Addresses /\ Mail(h) = h.email /\ t.who = h.email
    BY <1>1, <1>3, <1>5, NamesApart, NamesAssumption DEF Fine, Mail
  <2>2. h.made \/ \E u \in users : u.email = h.email /\ u.id = h.user
    BY <1>1, <1>5 DEF Stands
  <2> HIDE DEF h
  <2>3. \A u \in users : u.email = t.who => t.user = u.id
    BY <1>1, <1>3, <2>1, <2>2 DEF Stands, Rows
  <2>4. \A i \in identities : i.subject # t.who
    BY <1>4, <2>1, NamesAssumption
  <2>5. QED
    BY <2>3, <2>4
<1>6. CASE h.subject # NoName
  <2>1. t.who = h.subject /\ h.subject \in Subjects
    BY <1>1, <1>3, <1>6, NamesApart
  <2>2. \/ \A i \in identities : i.subject # h.subject
        \/ \E i \in identities : i.subject = h.subject /\ i.user = h.user
    BY <1>1, <1>6 DEF Stands
  <2> HIDE DEF h
  <2>3. \A i \in identities : i.subject = t.who => t.user = i.user
    BY <1>1, <1>3, <2>1, <2>2 DEF Rows
  <2>4. \A u \in users : u.email = t.who => t.user = u.id
    BY <1>1, <2>1, <2>3 DEF Rows
  <2>5. QED
    BY <2>3, <2>4
<1>7. QED
  BY <1>5, <1>6

\* Tokens never go out for another user than the one to whom the address or the
\* provider account belongs by then: a new one only if it has none yet.
THEOREM SignInsAgree == Spec => SameAccountAgain
<1>1. Inv /\ [Next]_vars =>
        \A t \in tokens' \ tokens :
            /\ \A u \in users : u.email = t.who => t.user = u.id
            /\ \A i \in identities : i.subject = t.who => t.user = i.user
  BY TokensStep, RightAccount
<1>2. Inv /\ [Next]_vars =>
        [\A t \in tokens' \ tokens :
            /\ \A u \in users : u.email = t.who => t.user = u.id
            /\ \A i \in identities : i.subject = t.who => t.user = i.user]_vars
  BY <1>1
<1>3. QED
  BY <1>2, InitInv, NextInv, PTL DEF Spec, SameAccountAgain

Served      == {t.user : t \in tokens}
There       == {u.id : u \in users}
Committing  == {req[r].user : r \in {q \in Requests : req[q].pc = "answered"}}
LostUsers   == Served \ (There \cup Committing)
LostBounded == IsFiniteSet(LostUsers) /\ Cardinality(LostUsers) <= faults

LEMMA FewerLost ==
    ASSUME Inv, LostBounded, LostUsers' \subseteq LostUsers, faults' = faults
    PROVE  LostBounded'
<1> DEFINE new == LostUsers'
           cs == Cardinality(LostUsers)
           ct == Cardinality(new)
<1>1. IsFiniteSet(new) /\ ct <= cs
  BY FS_Subset DEF LostBounded
<1>2. cs \in Nat /\ ct \in Nat /\ cs <= faults /\ faults \in Nat
  BY <1>1, FS_CardinalityType, BoundsAssumption DEF LostBounded, Inv, TypeOK
<1>3. ct <= faults'
  <2> HIDE DEF cs, ct, new
  <2>1. QED
    BY <1>1, <1>2
<1>4. QED
  BY <1>1, <1>3 DEF LostBounded

LEMMA OneMoreLost ==
    ASSUME Inv, LostBounded, NEW x, LostUsers' \subseteq LostUsers \cup {x}, faults' = faults + 1
    PROVE  LostBounded'
<1> DEFINE new == LostUsers'
           cs == Cardinality(LostUsers)
           cx == Cardinality(LostUsers \cup {x})
           ct == Cardinality(new)
<1>1. IsFiniteSet(LostUsers) /\ cs \in Nat /\ cs <= faults /\ faults \in Nat
  BY FS_CardinalityType, BoundsAssumption DEF LostBounded, Inv, TypeOK
<1>2. IsFiniteSet(LostUsers \cup {x}) /\ (cx = cs \/ cx = cs + 1)
  BY <1>1, FS_AddElement
<1>3. IsFiniteSet(new) /\ ct <= cx
  BY <1>2, FS_Subset
<1>4. ct \in Nat
  BY <1>3, FS_CardinalityType
<1>5. ct <= faults'
  <2> HIDE DEF cs, cx, ct, new
  <2>1. QED
    BY <1>1, <1>2, <1>3, <1>4
<1>6. QED
  BY <1>3, <1>5 DEF LostBounded

\* The step of a handler that has not answered takes nothing away.
LEMMA CommittingKept ==
    ASSUME Inv, NEW r \in Requests, NEW h, Become(r, h)
    PROVE  /\ req[r].pc # "answered" => Committing \subseteq Committing'
           /\ Committing \ {req[r].user} \subseteq Committing'
           /\ h.pc = "answered" => h.user \in Committing'
<1>1. req'[r] = h /\ \A q \in Others(r) : req'[q] = req[q]
  BY DEF Become, Others, Inv, TypeOK
<1>2. QED
  BY <1>1 DEF Committing, Others

LEMMA NextLost == ASSUME Inv, LostBounded, [Next]_vars PROVE LostBounded'
<1> USE DEF codeVars, rowVars
<1>1. CASE (\E k \in Keys : Expire(k)) \/ UNCHANGED vars
  <2>1. UNCHANGED <<tokens, users, req, faults>>
    BY <1>1 DEF Expire, vars
  <2>2. QED
    BY <2>1, FewerLost DEF LostUsers, Served, There, Committing
<1>2. ASSUME NEW r \in Requests, NEW h, Become(r, h), req[r].pc # "answered",
             UNCHANGED <<tokens, users, faults>>
      PROVE  LostBounded'
  <2>1. LostUsers' \subseteq LostUsers
    BY <1>2, CommittingKept DEF LostUsers, Served, There
  <2>2. QED
    BY <1>2, <2>1, FewerLost
<1>3. ASSUME NEW r \in Requests, NEW e \in Addresses,
             RequestCode(r, e) \/ \E c \in mailed[KeyOf[e]] \cup {0} : ReadCode(r, e, c)
      PROVE  LostBounded'
  BY <1>2, <1>3 DEF RequestCode, ReadCode
<1>4. ASSUME NEW r \in Requests, NEW s \in Subjects,
             (\E e \in ProviderMails : Callback(r, s, e)) \/ TelegramVerify(r, s)
      PROVE  LostBounded'
  BY <1>2, <1>4 DEF Callback, TelegramVerify
<1>5. ASSUME NEW r \in Requests, SendMail(r) \/ WriteBack(r) \/ DropCode(r)
      PROVE  LostBounded'
  BY <1>2, <1>5 DEF SendMail, WriteBack, DropCode, GoTo
<1>6. ASSUME NEW r \in Requests, FindIdentity(r) \/ FindUser(r) \/ CreateUser(r) \/ LinkIdentity(r)
                                 \/ TouchLastLogin(r)
      PROVE  LostBounded'
  BY <1>2, <1>6 DEF FindIdentity, FindUser, CreateUser, LinkIdentity, TouchLastLogin, GoTo
<1>7. ASSUME NEW r \in Requests, IssueTokens(r) PROVE LostBounded'
  <2> DEFINE h == [req[r] EXCEPT !.pc = "answered"]
  <2>1. /\ req[r].pc = "touched" /\ Become(r, h) /\ UNCHANGED <<users, faults>>
        /\ \A t \in tokens' : t \in tokens \/ t.user = req[r].user
    BY <1>7 DEF IssueTokens, GoTo
  <2>2. h.pc = "answered" /\ h.user = req[r].user
    BY OneHandler DEF RequestStates
  <2> HIDE DEF h
  <2>3. Committing \subseteq Committing' /\ req[r].user \in Committing'
    BY <2>1, <2>2, CommittingKept
  <2>4. Served' \subseteq Served \cup {req[r].user} /\ There' = There
    BY <2>1 DEF Served, There
  <2>5. LostUsers' \subseteq LostUsers
    BY <2>3, <2>4 DEF LostUsers
  <2>6. QED
    BY <2>1, <2>5, FewerLost
<1>8. ASSUME NEW r \in Requests, Commit(r) PROVE LostBounded'
  <2>1. /\ Stands(req[r], users, identities, signIns) /\ Rows(users, identities, signIns)
        /\ req[r].pc = "answered" /\ Become(r, Idle) /\ UNCHANGED <<tokens, faults>>
    BY <1>8, OneHandler DEF Commit, Inv, HandlersInv
  <2>2. req[r].user \in There'
    <3>1. CASE req[r].made
      <4>1. [id |-> req[r].user, email |-> MailOf(r)] \in users'
        BY <1>8, <3>1 DEF Commit
      <4>2. QED
        BY <4>1 DEF There
    <3>2. CASE ~ req[r].made
      <4>1. \E u \in users : u.id = req[r].user
        BY <2>1, <3>2 DEF Stands, Leaving, Rows
      <4>2. users \subseteq users'
        BY <1>8 DEF Commit
      <4>3. QED
        BY <4>1, <4>2 DEF There
    <3>3. QED
      BY <3>1, <3>2
  <2>3. There \subseteq There' /\ Served' = Served
    BY <1>8, <2>1 DEF Commit, There, Served
  <2>4. Committing \ {req[r].user} \subseteq Committing'
    BY <2>1, CommittingKept
  <2>5. LostUsers' \subseteq LostUsers
    BY <2>2, <2>3, <2>4 DEF LostUsers
  <2>6. QED
    BY <2>1, <2>5, FewerLost
<1>9. ASSUME NEW r \in Requests, Abort(r) PROVE LostBounded'
  <2>1. Become(r, Idle) /\ faults' = faults + 1 /\ UNCHANGED <<tokens, users>>
    BY <1>9 DEF Abort
  <2>2. Committing \ {req[r].user} \subseteq Committing'
    BY <2>1, CommittingKept
  <2>3. LostUsers' \subseteq LostUsers \cup {req[r].user}
    BY <2>1, <2>2 DEF LostUsers, Served, There
  <2>4. QED
    BY <2>1, <2>3, OneMoreLost
<1>10. QED
  BY <1>1, <1>3, <1>4, <1>5, <1>6, <1>7, <1>8, <1>9 DEF Next, Proceed, Resolve

\* Tokens name accounts that are there or about to be committed, but for as many
\* as there have been failures, however many sign-ins run at once.
THEOREM TokensHaveAccounts == Spec => []TokensNameAccounts
<1>1. Init => LostBounded
  <2>1. Init => LostUsers = {} /\ faults = 0
    BY DEF Init, LostUsers, Served
  <2>2. IsFiniteSet({}) /\ Cardinality({}) = 0
    BY FS_EmptySet
  <2>3. QED
    BY <2>1, <2>2 DEF LostBounded
<1>2. LostBounded => TokensNameAccounts
  BY DEF LostBounded, LostUsers, Served, There, Committing, TokensNameAccounts
<1>3. Inv /\ LostBounded /\ [Next]_vars => Inv' /\ LostBounded'
  BY NextInv, NextLost
<1>4. QED
  BY <1>1, <1>2, <1>3, InitInv, PTL DEF Spec

-----------------------------------------------------------------------------
(* No deadlock: who has inserted a user is past that step, who has linked   *)
(* an identity past the next one, and who has touched a row waits no more.  *)

LEMMA HoldersArePast ==
    ASSUME Inv, NEW r \in Requests, NEW q \in Requests, WaitsFor(r, q)
    PROVE  \/ req[r].pc = "create" /\ req[q].pc \notin {"create"}
           \/ req[r].pc = "link" /\ req[q].pc \notin {"create", "link"}
           \/ req[r].pc = "touch" /\ req[q].pc \notin {"create", "link", "touch"}
<1>1. Fine(req[q])
  BY DEF Inv, HandlersInv, HandlersFine
<1>2. QED
  BY <1>1 DEF WaitsFor, InsertedUser, InsertedIdentity, LockedUser, Fine, Finding

\* The handler that has got furthest waits for none of the others.
LEMMA SomeoneMoves == ASSUME Inv PROVE NoDeadlock
<1> SUFFICES ASSUME NEW S \in (SUBSET Requests) \ {{}}
             PROVE  \E r \in S : \A q \in S : ~WaitsFor(r, q)
  BY DEF NoDeadlock
<1>1. PICK p \in S : TRUE
  OBVIOUS
<1>2. CASE \E r \in S : req[r].pc \notin {"create", "link", "touch"}
  BY <1>2, HoldersArePast
<1>3. CASE /\ \A r \in S : req[r].pc \in {"create", "link", "touch"}
           /\ \E r \in S : req[r].pc = "touch"
  BY <1>3, HoldersArePast
<1>4. CASE /\ \A r \in S : req[r].pc \in {"create", "link"}
           /\ \E r \in S : req[r].pc = "link"
  BY <1>4, HoldersArePast
<1>5. CASE \A r \in S : req[r].pc = "create"
  BY <1>1, <1>5, HoldersArePast
<1>6. QED
  BY <1>2, <1>3, <1>4, <1>5

\* Sign-ins never wait for each other in a circle, however many there are.
THEOREM SignInsNeverDeadlock == Spec => []NoDeadlock
<1>1. Inv => NoDeadlock
  BY SomeoneMoves
<1>2. QED
  BY <1>1, InitInv, NextInv, PTL DEF Spec

-----------------------------------------------------------------------------
(* Codes: their numbers.  No two keys share one, not even through a handler *)
(* that has read a code and is still at it.                                 *)

CodeSteps  == {"mail", "wrong", "lock", "right"}
CheckSteps == {"wrong", "lock", "right"}

\* No handler has done anything with code i.
Fresh(i) == guesses[i] = 0 /\ uses[i] = 0 /\ overlaps[i] = 0

IdsOK ==
    /\ \A k \in Keys : code[k].id <= issued /\ mailed[k] \subseteq 1..issued
    /\ \A i \in 1..MaxCodes : i > issued => Fresh(i)
    /\ \A r \in Requests : req[r].pc \in CodeSteps => req[r].seen.id <= issued
    /\ \A k, l \in Keys : code[k].id = code[l].id /\ code[k].id # 0 => k = l
    /\ \A r \in Requests, k \in Keys :
          req[r].pc \in CheckSteps /\ req[r].seen.id = code[k].id => KeyOf[req[r].email] = k
    /\ \A r, q \in Requests :
          req[r].pc \in CheckSteps /\ req[q].pc \in CheckSteps /\ req[r].seen.id = req[q].seen.id
          => KeyOf[req[r].email] = KeyOf[req[q].email]

LEMMA BecomeIs ==
    ASSUME Inv, NEW r \in Requests, NEW h, Become(r, h)
    PROVE  req'[r] = h /\ \A q \in Others(r) : req'[q] = req[q]
BY DEF Become, Others, Inv, TypeOK

LEMMA IdTypes ==
    ASSUME Inv
    PROVE  /\ issued \in Nat /\ faults \in Nat
           /\ \A k \in Keys : code[k].id \in Nat /\ code[k].attempts \in Nat
                              /\ code[k].attempts + 1 <= MaxAttempts
           /\ \A r \in Requests : req[r].seen.id \in Nat /\ req[r].seen.attempts \in Nat
BY BoundsAssumption DEF Inv, TypeOK, Codes, RequestStates

\* A step of one handler that leaves the keys alone.
LEMMA IdsBecome ==
    ASSUME Inv, IdsOK, NEW r \in Requests, NEW h, Become(r, h),
           UNCHANGED <<code, issued, mailed>>,
           \A i \in 1..MaxCodes : i > issued => Fresh(i)',
           h.pc \in CodeSteps => h.seen.id <= issued,
           h.pc \in CheckSteps => /\ KeyOf[h.email] \in Keys
                             /\ h.seen.id = code[KeyOf[h.email]].id /\ h.seen.id # 0
    PROVE  IdsOK'
<1>1. req'[r] = h /\ \A q \in Others(r) : req'[q] = req[q]
  BY BecomeIs
<1>2. \A q \in Requests : req'[q].pc \in CodeSteps => req'[q].seen.id <= issued
  BY <1>1 DEF IdsOK, Others
<1>3. ASSUME NEW q \in Requests, NEW k \in Keys, req'[q].pc \in CheckSteps, req'[q].seen.id = code[k].id
      PROVE  KeyOf[req'[q].email] = k
  BY <1>1, <1>3 DEF IdsOK, Others
<1>4. ASSUME NEW p \in Requests, NEW q \in Requests, req'[p].pc \in CheckSteps, req'[q].pc \in CheckSteps,
             req'[p].seen.id = req'[q].seen.id
      PROVE  KeyOf[req'[p].email] = KeyOf[req'[q].email]
  BY <1>1, <1>4 DEF IdsOK, Others
<1>5. QED
  BY <1>2, <1>3, <1>4 DEF IdsOK

\* A key is deleted or has expired.
LEMMA IdsForget ==
    ASSUME Inv, IdsOK, NEW k \in Keys, code' = [code EXCEPT ![k] = NoCode],
           UNCHANGED <<issued, mailed, history>>,
           \A q \in Requests : \/ req'[q] = req[q]
                               \/ req'[q].pc \notin CodeSteps
    PROVE  IdsOK'
<1>1. \A l \in Keys : code'[l] = code[l] \/ code'[l].id = 0
  BY DEF NoCode, Inv, TypeOK
<1>2. \A l \in Keys : code'[l].id <= issued
  BY <1>1, IdTypes DEF IdsOK
<1>3. \A l, m \in Keys : code'[l].id = code'[m].id /\ code'[l].id # 0 => l = m
  BY <1>1 DEF IdsOK
<1>4. \A q \in Requests : req'[q].pc \in CodeSteps => req'[q] = req[q]
  OBVIOUS
<1>5. \A q \in Requests : req'[q].pc \in CheckSteps => req'[q] = req[q] /\ req[q].seen.id # 0
  BY <1>4 DEF CodeSteps, CheckSteps, Inv, HandlersInv, HandlersFine, Fine
<1>6. \A q \in Requests, l \in Keys :
          req'[q].pc \in CheckSteps /\ req'[q].seen.id = code'[l].id => KeyOf[req'[q].email] = l
  BY <1>1, <1>5 DEF IdsOK
<1>7. \A p, q \in Requests :
          req'[p].pc \in CheckSteps /\ req'[q].pc \in CheckSteps /\ req'[p].seen.id = req'[q].seen.id
          => KeyOf[req'[p].email] = KeyOf[req'[q].email]
  BY <1>5 DEF IdsOK
<1>8. QED
  BY <1>2, <1>3, <1>4, <1>6, <1>7 DEF IdsOK, Fresh, history

LEMMA IdsRequestCode ==
    ASSUME Inv, IdsOK, NEW r \in Requests, NEW e \in Addresses, RequestCode(r, e)
    PROVE  IdsOK'
<1> DEFINE k == KeyOf[e]
           new == [id |-> issued + 1, attempts |-> 0]
           h == Mailing(e, new)
<1>1. /\ k \in Keys /\ code' = [code EXCEPT ![k] = new] /\ Become(r, h)
      /\ issued' = issued + 1 /\ issued < MaxCodes /\ UNCHANGED <<mailed, guesses, uses>>
      /\ overlaps' = CountedUp(overlaps, AtWork(k))
  BY KeyType DEF RequestCode, Mailing
<1>2. issued \in Nat /\ \A l \in Keys : code[l].id \in Nat /\ mailed[l] \subseteq 1..issued
  BY IdTypes DEF IdsOK
<1>3. h.pc = "mail" /\ h.seen = new
  BY DEF Mailing, Idle
<1>4. req'[r] = h /\ \A q \in Others(r) : req'[q] = req[q]
  BY <1>1, BecomeIs
<1>5. new.id = issued + 1
  OBVIOUS
<1> HIDE DEF h, new, k
<1>6. code'[k].id = issued + 1 /\ \A l \in Keys : l # k => code'[l] = code[l]
  BY <1>1, <1>5 DEF Inv, TypeOK
<1>7. \A l \in Keys : code'[l].id <= issued' /\ mailed'[l] \subseteq 1..issued'
  BY <1>1, <1>2, <1>6 DEF IdsOK
<1>8. \A i \in 1..MaxCodes : i > issued' => Fresh(i)'
  <2>1. AtWork(k) \subseteq 0..issued
    BY IdTypes DEF AtWork, Verifying, IdsOK, CodeSteps
  <2>2. QED
    BY <1>1, <1>2, <2>1 DEF IdsOK, Fresh, CountedUp
<1>9. \A q \in Requests : req'[q].pc \in CodeSteps => req'[q].seen.id <= issued'
  BY <1>1, <1>2, <1>3, <1>4, <1>5, IdTypes DEF IdsOK, Others
<1>10. \A l, m \in Keys : code'[l].id = code'[m].id /\ code'[l].id # 0 => l = m
  <2>1. \A l \in Keys : code[l].id # issued + 1
    BY <1>2 DEF IdsOK
  <2>2. QED
    BY <1>6, <2>1 DEF IdsOK
<1>11. \A q \in Requests : req'[q].pc \in CheckSteps => req'[q] = req[q] /\ req[q].seen.id # issued + 1
  BY <1>2, <1>3, <1>4, IdTypes DEF IdsOK, Others, CodeSteps, CheckSteps
<1>12. \A q \in Requests, l \in Keys :
          req'[q].pc \in CheckSteps /\ req'[q].seen.id = code'[l].id => KeyOf[req'[q].email] = l
  BY <1>6, <1>11 DEF IdsOK
<1>13. \A p, q \in Requests :
          req'[p].pc \in CheckSteps /\ req'[q].pc \in CheckSteps /\ req'[p].seen.id = req'[q].seen.id
          => KeyOf[req'[p].email] = KeyOf[req'[q].email]
  BY <1>11 DEF IdsOK
<1>14. QED
  BY <1>7, <1>8, <1>9, <1>10, <1>12, <1>13 DEF IdsOK

LEMMA IdsWriteBack ==
    ASSUME Inv, IdsOK, NEW r \in Requests, WriteBack(r)
    PROVE  IdsOK'
<1> DEFINE k == KeyOf[req[r].email]
           c == CountedGuess(req[r].seen)
<1>1. /\ req[r].pc = "wrong" /\ req[r].email \in Addresses /\ req[r].seen \in Codes
      /\ req[r].seen.id # 0
  BY DEF WriteBack, Inv, HandlersInv, HandlersFine, Fine, RequestStates
<1>2. /\ k \in Keys /\ code' = [code EXCEPT ![k] = c] /\ Become(r, Idle)
      /\ UNCHANGED <<issued, mailed, history>>
  BY <1>1, KeyType DEF WriteBack
<1>3. c.id = req[r].seen.id
  BY <1>1 DEF CountedGuess, Codes
<1>4. req'[r] = Idle /\ \A q \in Others(r) : req'[q] = req[q]
  BY <1>2, BecomeIs
<1>5. Idle.pc = "idle"
  BY DEF Idle
<1>6. \A q \in Requests : req'[q].pc \in CodeSteps => req'[q] = req[q]
  BY <1>4, <1>5 DEF CodeSteps, Others
<1> HIDE DEF c
<1>7. code'[k].id = req[r].seen.id /\ \A l \in Keys : l # k => code'[l] = code[l]
  BY <1>2, <1>3 DEF Inv, TypeOK
<1>8. \A l \in Keys : code'[l].id <= issued
  BY <1>1, <1>7 DEF IdsOK, CodeSteps
<1>9. \A l, m \in Keys : code'[l].id = code'[m].id /\ code'[l].id # 0 => l = m
  BY <1>1, <1>7 DEF IdsOK, CheckSteps
<1>10. \A q \in Requests, l \in Keys :
          req'[q].pc \in CheckSteps /\ req'[q].seen.id = code'[l].id => KeyOf[req'[q].email] = l
  BY <1>1, <1>6, <1>7 DEF IdsOK, CodeSteps, CheckSteps
<1>11. \A p, q \in Requests :
          req'[p].pc \in CheckSteps /\ req'[q].pc \in CheckSteps /\ req'[p].seen.id = req'[q].seen.id
          => KeyOf[req'[p].email] = KeyOf[req'[q].email]
  BY <1>6 DEF IdsOK, CodeSteps, CheckSteps
<1>12. QED
  BY <1>2, <1>6, <1>8, <1>9, <1>10, <1>11 DEF IdsOK, Fresh, history

\* Steps that are about accounts leave the codes, and who uses them, alone.
AccountStep(r, h) ==
    /\ Become(r, h)
    /\ req[r].pc \notin CodeSteps /\ h.pc \notin CodeSteps
    /\ UNCHANGED <<codeVars, faults>>

LEMMA ResolveStep ==
    ASSUME Inv, NEW r \in Requests, Resolve(r)
    PROVE  \E h : AccountStep(r, h)
<1>1. req[r] \in RequestStates
  BY OneHandler
<1>2. ASSUME NEW p \in Steps \ CodeSteps, GoTo(r, p), req[r].pc \notin CodeSteps,
             UNCHANGED <<codeVars, faults>>
      PROVE  \E h : AccountStep(r, h)
  <2> DEFINE h == [req[r] EXCEPT !.pc = p]
  <2>1. h.pc = p /\ Become(r, h)
    BY <1>1, <1>2 DEF RequestStates, GoTo
  <2> HIDE DEF h
  <2>2. QED
    BY <1>2, <2>1 DEF AccountStep
<1>3. ASSUME NEW p \in Steps \ CodeSteps, NEW u, Become(r, [req[r] EXCEPT !.pc = p, !.user = u]),
             req[r].pc \notin CodeSteps, UNCHANGED <<codeVars, faults>>
      PROVE  \E h : AccountStep(r, h)
  <2> DEFINE h == [req[r] EXCEPT !.pc = p, !.user = u]
  <2>1. h.pc = p /\ Become(r, h)
    BY <1>1, <1>3 DEF RequestStates
  <2> HIDE DEF h
  <2>2. QED
    BY <1>3, <2>1 DEF AccountStep
<1>4. ASSUME Become(r, Idle), req[r].pc \notin CodeSteps, UNCHANGED <<codeVars, faults>>
      PROVE  \E h : AccountStep(r, h)
  BY <1>4 DEF AccountStep, Idle, CodeSteps
<1>5. AfterUser(r) \in {"touch", "link"}
  BY DEF AfterUser
<1> USE DEF Steps, CodeSteps
<1>6. CASE FindIdentity(r)
  <2>1. CASE \E i \in identities : Become(r, [req[r] EXCEPT !.pc = "touch", !.user = i.user])
    <3>1. PICK i \in identities : Become(r, [req[r] EXCEPT !.pc = "touch", !.user = i.user])
      BY <2>1
    <3>2. QED
      BY <1>3, <1>6, <3>1 DEF FindIdentity
  <2>2. CASE \E p \in {"create", "lookup"} : GoTo(r, p)
    BY <1>2, <1>6, <2>2 DEF FindIdentity
  <2>3. QED
    BY <1>6, <2>1, <2>2 DEF FindIdentity
<1>7. CASE FindUser(r)
  <2>1. CASE \E u \in users : Become(r, [req[r] EXCEPT !.pc = AfterUser(r), !.user = u.id])
    <3>1. PICK u \in users : Become(r, [req[r] EXCEPT !.pc = AfterUser(r), !.user = u.id])
      BY <2>1
    <3>2. QED
      BY <1>3, <1>5, <1>7, <3>1 DEF FindUser
  <2>2. CASE GoTo(r, "create")
    BY <1>2, <1>7, <2>2 DEF FindUser
  <2>3. QED
    BY <1>7, <2>1, <2>2 DEF FindUser
<1>8. CASE CreateUser(r)
  <2>1. CASE Become(r, [req[r] EXCEPT !.made = TRUE, !.pc = AfterUser(r)])
    <3> DEFINE h == [req[r] EXCEPT !.made = TRUE, !.pc = AfterUser(r)]
    <3>1. h.pc = AfterUser(r) /\ Become(r, h)
      BY <1>1, <2>1 DEF RequestStates
    <3> HIDE DEF h
    <3>2. QED
      BY <1>5, <1>8, <3>1 DEF AccountStep, CreateUser
  <2>2. QED
    BY <1>4, <1>8, <2>1 DEF CreateUser
<1>9. CASE LinkIdentity(r)
  <2>1. CASE Become(r, [req[r] EXCEPT !.linked = TRUE, !.pc = "touch"])
    <3> DEFINE h == [req[r] EXCEPT !.linked = TRUE, !.pc = "touch"]
    <3>1. h.pc = "touch" /\ Become(r, h)
      BY <1>1, <2>1 DEF RequestStates
    <3> HIDE DEF h
    <3>2. QED
      BY <1>9, <3>1 DEF AccountStep, LinkIdentity
  <2>2. QED
    BY <1>4, <1>9, <2>1 DEF LinkIdentity
<1>10. CASE TouchLastLogin(r) \/ IssueTokens(r)
  BY <1>2, <1>10 DEF TouchLastLogin, IssueTokens, rowVars
<1>11. CASE Commit(r)
  BY <1>4, <1>11 DEF Commit
<1>12. QED
  BY <1>6, <1>7, <1>8, <1>9, <1>10, <1>11 DEF Resolve

LEMMA CallbackStep ==
    ASSUME Inv, NEW r \in Requests, NEW s \in Subjects, NEW e, Callback(r, s, e)
    PROVE  \E h : AccountStep(r, h)
<1> DEFINE h == [Idle EXCEPT !.pc = "identity", !.subject = s, !.email = e, !.user = signIns + 1]
<1>1. h.pc = "identity" /\ Become(r, h)
  BY DEF Idle, Callback
<1> HIDE DEF h
<1>2. QED
  BY <1>1 DEF AccountStep, Callback, CodeSteps

LEMMA NextIds == ASSUME Inv, IdsOK, [Next]_vars PROVE IdsOK'
<1>1. ASSUME NEW r \in Requests, NEW h, AccountStep(r, h) PROVE IdsOK'
  BY <1>1, IdsBecome DEF AccountStep, codeVars, history, IdsOK, Fresh, CodeSteps, CheckSteps
<1>2. ASSUME NEW r \in Requests, Abort(r) PROVE IdsOK'
  <2>1. Become(r, Idle) /\ Idle.pc = "idle" /\ UNCHANGED codeVars
    BY <1>2 DEF Abort, Idle
  <2>2. QED
    BY <2>1, IdsBecome DEF codeVars, history, IdsOK, Fresh, CodeSteps, CheckSteps
<1>3. ASSUME NEW r \in Requests, NEW e \in Addresses, NEW c, ReadCode(r, e, c) PROVE IdsOK'
  <2> DEFINE k == KeyOf[e]
             pc == IF c = code[k].id THEN "right" ELSE IF LastAttempt(k) THEN "lock" ELSE "wrong"
             u == IF c = code[k].id THEN signIns + 1 ELSE 0
             h == Began(pc, e, code[k], u)
  <2>1. k \in Keys /\ code[k].id # 0 /\ code[k].id <= issued /\ code[k].id \in Nat
    BY <1>3, KeyType, IdTypes DEF ReadCode, Inv, CodesReal, IdsOK
  <2>2. /\ Become(r, h) /\ UNCHANGED <<code, issued, mailed>>
        /\ \A i \in 1..MaxCodes : i # code[k].id =>
              guesses'[i] = guesses[i] /\ uses'[i] = uses[i] /\ overlaps'[i] = overlaps[i]
    BY <1>3 DEF ReadCode, Began, CountedUp
  <2>3. \A i \in 1..MaxCodes : i > issued => Fresh(i)'
    BY <2>1, <2>2, IdTypes DEF IdsOK, Fresh, CountedUp
  <2>4. h.seen = code[k] /\ h.email = e
    BY DEF Began, Idle
  <2>5. KeyOf[h.email] = k
    BY <2>4
  <2> HIDE DEF h, k
  <2>6. QED
    BY <2>1, <2>2, <2>3, <2>4, <2>5, IdsBecome
<1>4. ASSUME NEW r \in Requests, SendMail(r) PROVE IdsOK'
  <2>1. /\ req[r].pc = "mail" /\ req[r].email \in Addresses /\ req[r].seen.id # 0
        /\ Become(r, Idle) /\ UNCHANGED <<code, issued, history>>
    BY <1>4 DEF SendMail, Inv, HandlersInv, HandlersFine, Fine
  <2>2. req[r].seen.id \in 1..issued /\ Idle.pc = "idle"
    BY <2>1, IdTypes DEF IdsOK, CodeSteps, Idle
  <2>3. \A k \in Keys : mailed'[k] \subseteq 1..issued
    BY <1>4, <2>1, <2>2, KeyType DEF SendMail, IdsOK, Inv, TypeOK
  <2>4. \A q \in Requests : req'[q].pc \in CodeSteps => req'[q] = req[q]
    BY <2>1, <2>2, BecomeIs DEF Others, CodeSteps
  <2>5. QED
    BY <2>1, <2>3, <2>4 DEF IdsOK, Fresh, history, CodeSteps, CheckSteps
<1>5. ASSUME NEW r \in Requests, DropCode(r) PROVE IdsOK'
  <2>1. /\ req[r].email \in Addresses /\ req[r] \in RequestStates
        /\ code' = [code EXCEPT ![KeyOf[req[r].email]] = NoCode]
        /\ UNCHANGED <<issued, mailed, history>>
    BY <1>5, OneHandler DEF DropCode, Fine
  <2>2. \A q \in Requests : req'[q] = req[q] \/ req'[q].pc \notin CodeSteps
    <3>1. CASE Become(r, Idle)
      BY <3>1, BecomeIs DEF Others, Idle, CodeSteps
    <3>2. CASE Become(r, [req[r] EXCEPT !.pc = "lookup"])
      <4>1. [req[r] EXCEPT !.pc = "lookup"].pc = "lookup"
        BY <2>1 DEF RequestStates
      <4>2. QED
        BY <3>2, <4>1, BecomeIs DEF Others, CodeSteps
    <3>3. QED
      BY <1>5, <3>1, <3>2 DEF DropCode, GoTo
  <2>3. KeyOf[req[r].email] \in Keys
    BY <2>1, KeyType
  <2>4. QED
    BY <2>1, <2>2, <2>3, IdsForget
<1>6. ASSUME NEW k \in Keys, Expire(k) PROVE IdsOK'
  BY <1>6, IdsForget DEF Expire
<1>7. CASE UNCHANGED vars
  BY <1>7 DEF vars, IdsOK, Fresh
<1>8. ASSUME NEW r \in Requests, NEW s \in Subjects,
             (\E e \in ProviderMails : Callback(r, s, e)) \/ TelegramVerify(r, s)
      PROVE  IdsOK'
  BY <1>1, <1>8, CallbackStep DEF TelegramVerify
<1>9. ASSUME NEW r \in Requests, Resolve(r) PROVE IdsOK'
  BY <1>1, <1>9, ResolveStep
<1>10. QED
  BY <1>2, <1>3, <1>4, <1>5, <1>6, <1>7, <1>8, <1>9, IdsRequestCode, IdsWriteBack DEF Next, Proceed

-----------------------------------------------------------------------------
(* Codes: one at a time.  Handlers may overlap at a code as they like; what  *)
(* an overlap or a failure may cost is one guess, or one use, each.          *)

Guesses(h, i) == h.pc \in {"wrong", "lock"} /\ h.seen.id = i
Checks(h, i)  == h.pc \in CheckSteps /\ h.seen.id = i
Posts(h, k)   == h.pc = "mail" /\ KeyOf[h.email] = k

\* What code i may have been given away so far.
Slack(i) == overlaps[i] + faults

\* The record counts the guesses once nobody is about to write it; before that
\* it is one short at most, and so is what a handler has read.
GuessesOK(i) ==
    /\ guesses[i] <= MaxAttempts + Slack(i)
    /\ \A r \in Requests : Guesses(req[r], i) => guesses[i] <= req[r].seen.attempts + 1 + Slack(i)
    /\ \A k \in Keys : code[k].id = i => guesses[i] <= code[k].attempts + 1 + Slack(i)
    /\ (\A r \in Requests : ~ Checks(req[r], i)) =>
          \A k \in Keys : code[k].id = i => guesses[i] <= code[k].attempts + Slack(i)

\* Once a code has let through all it may, nobody will write it back, and it
\* is gone as soon as nobody is about to drop it.
UsesOK(i) ==
    \/ uses[i] <= Slack(i)
    \/ /\ uses[i] <= 1 + Slack(i)
       /\ \A r \in Requests : Checks(req[r], i) => req[r].pc = "right"
       /\ (\A r \in Requests : ~ Checks(req[r], i)) => \A k \in Keys : code[k].id # i

\* Code i is the newest one that was mailed, or is about to be, or handlers
\* have overlapped at it.
Newest(i, k) ==
    \/ overlaps[i] > 0
    \/ /\ \A m \in mailed[k] : m <= i
       /\ \A q \in Requests : Posts(req[q], k) => req[q].seen.id <= i

\* Key k holds code i, or may be given it back.
Held(i, k) ==
    \/ code[k].id = i
    \/ \E r \in Requests : Checks(req[r], i) /\ KeyOf[req[r].email] = k

CountsOK == \A i \in 1..MaxCodes : GuessesOK(i) /\ UsesOK(i)
NewestOK == \A i \in 1..MaxCodes, k \in Keys : Held(i, k) => Newest(i, k)

CodesOK == CountsOK /\ NewestOK

LEMMA CounterTypes ==
    ASSUME Inv, Inv', NEW i \in 1..MaxCodes
    PROVE  /\ guesses[i] \in Nat /\ uses[i] \in Nat /\ overlaps[i] \in Nat /\ faults \in Nat
           /\ guesses'[i] \in Nat /\ uses'[i] \in Nat /\ overlaps'[i] \in Nat /\ faults' \in Nat
           /\ MaxAttempts \in Nat
           /\ \A k \in Keys : code[k].attempts \in Nat
           /\ \A r \in Requests : req[r].seen.attempts \in Nat
BY BoundsAssumption DEF Inv, TypeOK, Codes, RequestStates

\* A code of which no handler has done anything is in order.
LEMMA FreshCounts ==
    ASSUME Inv', NEW i \in 1..MaxCodes, guesses'[i] = 0, uses'[i] = 0
    PROVE  GuessesOK(i)' /\ UsesOK(i)'
<1> DEFINE t == overlaps'[i] + faults'
<1>1. /\ t \in Nat /\ MaxAttempts \in Nat
      /\ \A k \in Keys : code'[k].attempts \in Nat
      /\ \A r \in Requests : req'[r].seen.attempts \in Nat
  BY BoundsAssumption DEF Inv, TypeOK, Codes, RequestStates
<1> HIDE DEF t
<1>2. /\ guesses'[i] <= MaxAttempts + t
      /\ \A r \in Requests : guesses'[i] <= req'[r].seen.attempts + 1 + t
      /\ \A k \in Keys : guesses'[i] <= code'[k].attempts + 1 + t /\ guesses'[i] <= code'[k].attempts + t
      /\ uses'[i] <= t
  BY <1>1
<1>3. QED
  BY <1>2 DEF GuessesOK, UsesOK, Slack, t

\* A step that compares nothing with code i and does not write it back.  A
\* handler that leaves the code has failed, or has dropped it.
LEMMA CountsKept ==
    ASSUME Inv, Inv', NEW i \in 1..MaxCodes, GuessesOK(i), UsesOK(i),
           guesses'[i] = guesses[i], uses'[i] = uses[i],
           overlaps'[i] >= overlaps[i], faults' >= faults,
           \A k \in Keys : code'[k].id = i => code'[k] = code[k],
           \A r \in Requests : Checks(req'[r], i) => req'[r] = req[r],
           \/ faults' > faults
           \/ \A r \in Requests : Checks(req[r], i) => req'[r] = req[r]
           \/ \A k \in Keys : code'[k].id # i
    PROVE  GuessesOK(i)' /\ UsesOK(i)'
<1> DEFINE s == overlaps[i] + faults
           t == overlaps'[i] + faults'
           free  == \A r \in Requests : ~ Checks(req[r], i)
           freed == \A r \in Requests : ~ Checks(req'[r], i)
<1>1. /\ guesses[i] \in Nat /\ uses[i] \in Nat /\ s \in Nat /\ t \in Nat /\ s <= t
      /\ faults' > faults => s + 1 <= t
      /\ MaxAttempts \in Nat
      /\ \A k \in Keys : code[k].attempts \in Nat
      /\ \A r \in Requests : req[r].seen.attempts \in Nat
  BY CounterTypes
<1>2. \A r \in Requests : Guesses(req'[r], i) => req'[r] = req[r] /\ Guesses(req[r], i)
  BY DEF Guesses, Checks, CheckSteps
<1>3. \/ s + 1 <= t
      \/ freed => free
      \/ \A k \in Keys : code'[k].id # i
  BY <1>1
<1>4. /\ guesses[i] <= MaxAttempts + s
      /\ \A r \in Requests : Guesses(req[r], i) => guesses[i] <= req[r].seen.attempts + 1 + s
      /\ \A k \in Keys : code[k].id = i => guesses[i] <= code[k].attempts + 1 + s
      /\ free => \A k \in Keys : code[k].id = i => guesses[i] <= code[k].attempts + s
  BY DEF GuessesOK, Slack
<1>5. \/ uses[i] <= s
      \/ /\ uses[i] <= 1 + s
         /\ \A r \in Requests : Checks(req[r], i) => req[r].pc = "right"
         /\ free => \A k \in Keys : code[k].id # i
  BY DEF UsesOK, Slack
<1> HIDE DEF s, t, free, freed
<1>6. /\ guesses'[i] <= MaxAttempts + t
      /\ \A r \in Requests : Guesses(req'[r], i) => guesses'[i] <= req'[r].seen.attempts + 1 + t
      /\ \A k \in Keys : code'[k].id = i => guesses'[i] <= code'[k].attempts + 1 + t
  BY <1>1, <1>2, <1>4
<1>7. ASSUME freed, NEW k \in Keys, code'[k].id = i PROVE guesses'[i] <= code'[k].attempts + t
  <2>1. code'[k] = code[k] /\ code[k].attempts \in Nat /\ guesses[i] <= code[k].attempts + 1 + s
    BY <1>1, <1>4, <1>7
  <2>2. s + 1 <= t \/ guesses[i] <= code[k].attempts + s
    BY <1>3, <1>4, <1>7, <2>1
  <2>3. QED
    BY <1>1, <2>1, <2>2
<1>8. GuessesOK(i)'
  BY <1>6, <1>7 DEF GuessesOK, Slack, t, freed
<1>9. \/ uses'[i] <= t
      \/ /\ uses'[i] <= 1 + t
         /\ \A r \in Requests : Checks(req'[r], i) => req'[r].pc = "right"
         /\ freed => \A k \in Keys : code'[k].id # i
  <2>1. CASE uses[i] <= s \/ s + 1 <= t
    BY <1>1, <1>5, <2>1
  <2>2. CASE ~ (uses[i] <= s) /\ ~ (s + 1 <= t)
    <3>1. uses'[i] <= 1 + t
      BY <1>1, <1>5, <2>2
    <3>2. \A r \in Requests : Checks(req'[r], i) => req'[r].pc = "right"
      BY <1>5, <2>2
    <3>3. freed => \A k \in Keys : code'[k].id # i
      BY <1>3, <1>5, <2>2
    <3>4. QED
      BY <3>1, <3>2, <3>3
  <2>3. QED
    BY <2>1, <2>2
<1>10. UsesOK(i)'
  BY <1>9 DEF UsesOK, Slack, t, freed
<1>11. QED
  BY <1>8, <1>10

\* A step that issues no code, and mails only what was about to be mailed.
LEMMA NewestKept ==
    ASSUME Inv, Inv', NewestOK,
           \A i \in 1..MaxCodes : overlaps'[i] >= overlaps[i],
           \A k \in Keys : \A m \in mailed'[k] :
               m \in mailed[k] \/ \E q \in Requests : Posts(req[q], k) /\ req[q].seen.id = m,
           \A q \in Requests, k \in Keys : Posts(req'[q], k) => Posts(req[q], k) /\ req'[q] = req[q],
           NEW i \in 1..MaxCodes, NEW k \in Keys, Held(i, k)
    PROVE  Newest(i, k)'
<1>1. Newest(i, k)
  BY DEF NewestOK
<1>2. overlaps[i] \in Nat /\ overlaps'[i] \in Nat
  BY CounterTypes
<1>3. CASE overlaps[i] > 0
  BY <1>2, <1>3 DEF Newest
<1>4. CASE ~ (overlaps[i] > 0)
  BY <1>1, <1>4 DEF Newest
<1>5. QED
  BY <1>3, <1>4

\* A step of one handler that leaves the codes alone, if it checks and posts
\* none from then on; unless it fails, it has checked none before.
LEMMA CodesBecome ==
    ASSUME Inv, Inv', CodesOK, NEW r \in Requests, NEW h, Become(r, h), h.pc \notin CodeSteps,
           UNCHANGED <<code, mailed, history>>,
           \/ faults' > faults
           \/ req[r].pc \notin CheckSteps /\ faults' = faults
    PROVE  CodesOK'
<1>1. req'[r] = h /\ \A q \in Others(r) : req'[q] = req[q]
  BY BecomeIs
<1>2. \A q \in Requests : req'[q].pc \in CodeSteps => req'[q] = req[q]
  BY <1>1 DEF Others
<1>3. ASSUME NEW i \in 1..MaxCodes PROVE GuessesOK(i)' /\ UsesOK(i)'
  <2>1. overlaps'[i] = overlaps[i] /\ guesses'[i] = guesses[i] /\ uses'[i] = uses[i]
    BY DEF history
  <2>2. overlaps'[i] >= overlaps[i] /\ faults' >= faults
    BY <2>1, CounterTypes
  <2>3. \A q \in Requests : Checks(req'[q], i) => req'[q] = req[q]
    BY <1>2 DEF Checks, CheckSteps, CodeSteps
  <2>4. faults' > faults \/ \A q \in Requests : Checks(req[q], i) => req'[q] = req[q]
    BY <1>1 DEF Checks, Others
  <2>5. QED
    BY <2>1, <2>2, <2>3, <2>4, CountsKept DEF CodesOK, CountsOK
<1>4. ASSUME NEW i \in 1..MaxCodes, NEW k \in Keys, Held(i, k)' PROVE Newest(i, k)'
  <2>1. Held(i, k)
    BY <1>2, <1>4 DEF Held, Checks, CheckSteps, CodeSteps
  <2>2. \A j \in 1..MaxCodes : overlaps'[j] >= overlaps[j]
    BY CounterTypes DEF history
  <2>3. \A q \in Requests, l \in Keys : Posts(req'[q], l) => Posts(req[q], l) /\ req'[q] = req[q]
    BY <1>2 DEF Posts, CodeSteps
  <2>4. QED
    BY <2>1, <2>2, <2>3, NewestKept DEF CodesOK
<1>5. QED
  BY <1>3, <1>4 DEF CodesOK, CountsOK, NewestOK

LEMMA RequestCodeCodes ==
    ASSUME Inv, Inv', IdsOK, CodesOK, NEW r \in Requests, NEW e \in Addresses, RequestCode(r, e)
    PROVE  CodesOK'
<1> DEFINE n == KeyOf[e]
           new == [id |-> issued + 1, attempts |-> 0]
           h == Mailing(e, new)
<1>1. /\ n \in Keys /\ code' = [code EXCEPT ![n] = new] /\ Become(r, h) /\ req[r].pc = "idle"
      /\ overlaps' = CountedUp(overlaps, AtWork(n)) /\ UNCHANGED <<mailed, guesses, uses, faults>>
  BY KeyType DEF RequestCode, Mailing
<1>2. h.pc = "mail" /\ h.seen = new /\ KeyOf[h.email] = n /\ new.id = issued + 1
  BY DEF Mailing, Idle
<1>3. req'[r] = h /\ \A q \in Others(r) : req'[q] = req[q]
  BY <1>1, BecomeIs
<1>4. issued \in Nat
  BY IdTypes
<1> HIDE DEF h, new, n
<1>5. code'[n] = new /\ \A k \in Keys : k # n => code'[k] = code[k]
  BY <1>1 DEF Inv, TypeOK
<1>6. \A q \in Requests : req'[q].pc \in CheckSteps <=> req[q].pc \in CheckSteps
  BY <1>1, <1>2, <1>3 DEF Others, CheckSteps
<1>7. \A q \in Requests : req[q].pc \in CheckSteps => req'[q] = req[q]
  BY <1>1, <1>3 DEF Others, CheckSteps
<1>8. \A i \in 1..MaxCodes : /\ overlaps'[i] >= overlaps[i]
                             /\ i \in AtWork(n) => overlaps'[i] > 0
  BY <1>1, CounterTypes DEF CountedUp
<1>9. ASSUME NEW i \in 1..MaxCodes PROVE GuessesOK(i)' /\ UsesOK(i)'
  <2>1. CASE i = issued + 1
    BY <1>1, <1>4, <2>1, FreshCounts DEF IdsOK, Fresh
  <2>2. CASE i # issued + 1
    <3>1. \A k \in Keys : code'[k].id = i => code'[k] = code[k]
      BY <1>2, <1>5, <2>2
    <3>2. \A q \in Requests : Checks(req'[q], i) \/ Checks(req[q], i) => req'[q] = req[q]
      BY <1>6, <1>7 DEF Checks
    <3>3. faults' >= faults /\ guesses'[i] = guesses[i] /\ uses'[i] = uses[i]
      BY <1>1, CounterTypes
    <3>4. QED
      BY <1>8, <3>1, <3>2, <3>3, CountsKept DEF CodesOK, CountsOK
  <2>3. QED
    BY <2>1, <2>2
<1>10. ASSUME NEW i \in 1..MaxCodes, NEW k \in Keys, Held(i, k)' PROVE Newest(i, k)'
  <2>1. CASE k # n
    <3>1. Held(i, k)
      BY <1>5, <1>6, <1>7, <1>10, <2>1 DEF Held, Checks
    <3>2. Newest(i, k)
      BY <3>1 DEF CodesOK, NewestOK
    <3>3. \A q \in Requests : Posts(req'[q], k) => Posts(req[q], k) /\ req'[q] = req[q]
      BY <1>2, <1>3, <2>1 DEF Posts, Others
    <3>4. overlaps[i] > 0 => overlaps'[i] > 0
      BY <1>8, CounterTypes
    <3>5. QED
      BY <1>1, <3>2, <3>3, <3>4 DEF Newest
  <2>2. CASE k = n /\ i = issued + 1
    <3>1. \A m \in mailed'[n] : m <= i
      BY <1>1, <1>4, <2>2 DEF IdsOK
    <3>2. \A q \in Requests : Posts(req'[q], n) => req'[q].seen.id <= i
      BY <1>2, <1>3, <1>4, <2>2, IdTypes DEF IdsOK, Posts, CodeSteps, Others
    <3>3. QED
      BY <2>2, <3>1, <3>2 DEF Newest
  <2>3. CASE k = n /\ i # issued + 1
    <3>1. PICK q \in Requests : Checks(req'[q], i) /\ KeyOf[req'[q].email] = n
      BY <1>2, <1>5, <1>10, <2>3 DEF Held
    <3>2. q \in Verifying(n) /\ req[q].seen.id = i
      BY <1>6, <1>7, <3>1 DEF Verifying, Checks, CheckSteps
    <3>3. i \in AtWork(n)
      BY <3>2 DEF AtWork
    <3>4. QED
      BY <1>8, <3>3 DEF Newest
  <2>4. QED
    BY <2>1, <2>2, <2>3
<1>11. QED
  BY <1>9, <1>10 DEF CodesOK, CountsOK, NewestOK

\* The arithmetic of one more wrong or right code: somebody else being at the
\* code has made up for it.
LEMMA ReadCodeCounts ==
    ASSUME Inv, Inv', IdsOK, CodesOK, NEW r \in Requests, NEW e \in Addresses, NEW c,
           ReadCode(r, e, c), NEW i \in 1..MaxCodes, code[KeyOf[e]].id = i
    PROVE  GuessesOK(i)' /\ UsesOK(i)'
<1> DEFINE n == KeyOf[e]
           right == c = i
           pc == IF right THEN "right" ELSE IF LastAttempt(n) THEN "lock" ELSE "wrong"
           u == IF right THEN signIns + 1 ELSE 0
           h == Began(pc, e, code[n], u)
           busy == \E q \in Requests : Checks(req[q], i)
           s == overlaps[i] + faults
           t == overlaps'[i] + faults'
           a == code[n].attempts
<1>1. /\ n \in Keys /\ code[n] # NoCode /\ Become(r, h) /\ req[r].pc = "idle"
      /\ guesses' = CountedUp(guesses, IF right THEN {} ELSE {i})
      /\ uses' = CountedUp(uses, IF right THEN {i} ELSE {})
      /\ overlaps' = CountedUp(overlaps, AtWork(n) \cap {i})
      /\ UNCHANGED <<code, mailed, faults>>
  BY KeyType DEF ReadCode, Began
<1>2. code[n].id = i
  OBVIOUS
<1>3. h.pc = pc /\ h.seen = code[n] /\ pc \in CheckSteps /\ (pc = "right" <=> right)
  BY DEF Began, Idle, CheckSteps
<1>4. req'[r] = h /\ \A q \in Others(r) : req'[q] = req[q]
  BY <1>1, BecomeIs
<1>5. busy => i \in AtWork(n)
  <2>1. ASSUME NEW q \in Requests, Checks(req[q], i) PROVE q \in Verifying(n) /\ req[q].seen.id = i
    BY <1>1, <2>1 DEF IdsOK, Checks, Verifying, CheckSteps
  <2>2. QED
    BY <2>1 DEF AtWork
<1>6. /\ guesses[i] \in Nat /\ uses[i] \in Nat /\ s \in Nat /\ t \in Nat /\ MaxAttempts \in Nat
      /\ a \in Nat /\ a + 1 <= MaxAttempts
      /\ \A q \in Requests : req[q].seen.attempts \in Nat
  <2>1. a \in Nat /\ a + 1 <= MaxAttempts
    BY <1>1, IdTypes
  <2>2. QED
    BY <2>1, CounterTypes
<1>7. /\ guesses'[i] = IF right THEN guesses[i] ELSE guesses[i] + 1
      /\ uses'[i] = IF right THEN uses[i] + 1 ELSE uses[i]
      /\ s <= t /\ (busy => t = s + 1)
  BY <1>1, <1>2, <1>5, CounterTypes DEF CountedUp
<1>8. GuessesOK(i) /\ UsesOK(i)
  BY <1>2 DEF CodesOK, CountsOK
<1>9. code'[n] = code[n] /\ code[n].id = i /\ code[n].attempts = a /\ code' = code
  BY <1>1
<1> HIDE DEF n, h, u, pc, right, busy, s, t, a
<1>10. Checks(req'[r], i) /\ req'[r].seen.attempts = a /\ req'[r].pc = pc
  BY <1>3, <1>4, <1>9 DEF Checks
<1>11. \A q \in Requests : q # r => req'[q] = req[q]
  BY <1>4 DEF Others
<1>12. ~ Checks(req[r], i)
  BY <1>1 DEF Checks, CheckSteps
<1>13. \A k \in Keys : code[k].id = i => k = n
  BY <1>1, <1>2, <1>9 DEF IdsOK
<1>14. /\ guesses[i] <= MaxAttempts + s
       /\ \A q \in Requests : Guesses(req[q], i) => guesses[i] <= req[q].seen.attempts + 1 + s
       /\ guesses[i] <= a + 1 + s
       /\ ~ busy => guesses[i] <= a + s
  BY <1>1, <1>8, <1>9 DEF GuessesOK, Slack, s, busy
<1>15. \/ uses[i] <= s
       \/ uses[i] <= 1 + s /\ busy /\ \A q \in Requests : Checks(req[q], i) => req[q].pc = "right"
  BY <1>1, <1>8, <1>9 DEF UsesOK, Slack, s, busy
<1>16. GuessesOK(i)'
  <2>1. guesses'[i] <= a + 1 + t /\ guesses'[i] <= MaxAttempts + t
    BY <1>6, <1>7, <1>14
  <2>2. ASSUME NEW q \in Requests, Guesses(req'[q], i)
        PROVE  guesses'[i] <= req'[q].seen.attempts + 1 + t
    <3>1. CASE q = r
      BY <1>10, <2>1, <3>1
    <3>2. CASE q # r
      <4>1. req'[q] = req[q] /\ Guesses(req[q], i) /\ busy
        BY <1>11, <2>2, <3>2 DEF Guesses, Checks, CheckSteps, busy
      <4>2. guesses[i] <= req[q].seen.attempts + 1 + s /\ t = s + 1 /\ req[q].seen.attempts \in Nat
        BY <1>6, <1>7, <1>14, <4>1
      <4>3. guesses'[i] <= req[q].seen.attempts + 1 + t
        BY <1>6, <1>7, <4>2
      <4>4. QED
        BY <4>1, <4>3
    <3>3. QED
      BY <3>1, <3>2
  <2>3. \A k \in Keys : code'[k].id = i => guesses'[i] <= code'[k].attempts + 1 + t
    BY <1>9, <1>13, <2>1
  <2>4. ~ (\A q \in Requests : ~ Checks(req'[q], i))
    BY <1>10
  <2>5. QED
    BY <2>1, <2>2, <2>3, <2>4 DEF GuessesOK, Slack, t
<1>17. UsesOK(i)'
  <2>1. ~ (\A q \in Requests : ~ Checks(req'[q], i))
    BY <1>10
  <2>2. \/ uses'[i] <= t
        \/ uses'[i] <= 1 + t /\ \A q \in Requests : Checks(req'[q], i) => req'[q].pc = "right"
    <3>1. CASE busy
      <4>1. CASE uses[i] <= s \/ ~ right
        BY <1>6, <1>7, <1>15, <3>1, <4>1
      <4>2. CASE ~ (uses[i] <= s) /\ right
        BY <1>3, <1>6, <1>7, <1>10, <1>11, <1>15, <3>1, <4>2
      <4>3. QED
        BY <4>1, <4>2
    <3>2. CASE ~ busy
      <4>1. uses[i] <= s
        BY <1>15, <3>2
      <4>2. uses'[i] <= 1 + t /\ (~ right => uses'[i] <= t)
        BY <1>6, <1>7, <4>1
      <4>3. right => \A q \in Requests : Checks(req'[q], i) => req'[q].pc = "right"
        BY <1>3, <1>10, <1>11, <3>2 DEF busy
      <4>4. QED
        BY <4>2, <4>3
    <3>3. QED
      BY <3>1, <3>2
  <2>3. QED
    BY <2>1, <2>2 DEF UsesOK, Slack, t
<1>18. QED
  BY <1>16, <1>17

LEMMA ReadCodeCodes ==
    ASSUME Inv, Inv', IdsOK, CodesOK, NEW r \in Requests, NEW e \in Addresses, NEW c,
           ReadCode(r, e, c)
    PROVE  CodesOK'
<1> DEFINE n == KeyOf[e]
           pc == IF c = code[n].id THEN "right" ELSE IF LastAttempt(n) THEN "lock" ELSE "wrong"
           u == IF c = code[n].id THEN signIns + 1 ELSE 0
           h == Began(pc, e, code[n], u)
<1>1. /\ n \in Keys /\ Become(r, h) /\ req[r].pc = "idle"
      /\ \A i \in 1..MaxCodes : overlaps'[i] >= overlaps[i]
      /\ \A i \in 1..MaxCodes : i # code[n].id => guesses'[i] = guesses[i] /\ uses'[i] = uses[i]
      /\ UNCHANGED <<code, mailed, faults>>
  BY KeyType, CounterTypes DEF ReadCode, Began, CountedUp
<1>2. h.pc \in CheckSteps /\ h.seen = code[n] /\ KeyOf[h.email] = n
  BY DEF Began, Idle, CheckSteps
<1>3. req'[r] = h /\ \A q \in Others(r) : req'[q] = req[q]
  BY <1>1, BecomeIs
<1>4. ASSUME NEW i \in 1..MaxCodes, code[n].id = i PROVE GuessesOK(i)' /\ UsesOK(i)'
  BY <1>4, ReadCodeCounts
<1> HIDE DEF h, n
<1>5. ASSUME NEW i \in 1..MaxCodes PROVE GuessesOK(i)' /\ UsesOK(i)'
  <2>1. CASE i = code[n].id
    BY <1>4, <2>1
  <2>2. CASE i # code[n].id
    <3>1. \A q \in Requests : Checks(req'[q], i) \/ Checks(req[q], i) => req'[q] = req[q]
      BY <1>1, <1>2, <1>3, <2>2 DEF Others, Checks, CheckSteps
    <3>2. faults' >= faults
      BY <1>1, CounterTypes
    <3>3. QED
      BY <1>1, <2>2, <3>1, <3>2, CountsKept DEF CodesOK, CountsOK
  <2>3. QED
    BY <2>1, <2>2
<1>6. ASSUME NEW i \in 1..MaxCodes, NEW k \in Keys, Held(i, k)' PROVE Newest(i, k)'
  <2>1. Held(i, k)
    BY <1>1, <1>2, <1>3, <1>6 DEF Held, Checks, Others
  <2>2. \A q \in Requests, l \in Keys : Posts(req'[q], l) => Posts(req[q], l) /\ req'[q] = req[q]
    BY <1>2, <1>3 DEF Others, Posts, CheckSteps
  <2>3. QED
    BY <1>1, <2>1, <2>2, NewestKept DEF CodesOK
<1>7. QED
  BY <1>5, <1>6 DEF CodesOK, CountsOK, NewestOK

LEMMA SendMailCodes ==
    ASSUME Inv, Inv', CodesOK, NEW r \in Requests, SendMail(r)
    PROVE  CodesOK'
<1> DEFINE n == KeyOf[req[r].email]
<1>1. /\ req[r].pc = "mail" /\ Become(r, Idle) /\ Idle.pc = "idle"
      /\ UNCHANGED <<code, history, faults>>
  BY DEF SendMail, Idle
<1>2. req'[r] = Idle /\ \A q \in Others(r) : req'[q] = req[q]
  BY <1>1, BecomeIs
<1>3. \A q \in Requests : req'[q].pc \in CodeSteps => req'[q] = req[q]
  BY <1>1, <1>2 DEF Others, CodeSteps
<1>4. ASSUME NEW k \in Keys, NEW m \in mailed'[k]
      PROVE  m \in mailed[k] \/ \E q \in Requests : Posts(req[q], k) /\ req[q].seen.id = m
  <2>1. mailed \in [Keys -> SUBSET (1..MaxCodes)]
    BY DEF Inv, TypeOK
  <2>2. m \in mailed[k] \/ (k = n /\ m = req[r].seen.id)
    BY <1>4, <2>1 DEF SendMail
  <2>3. QED
    BY <1>1, <2>2 DEF Posts
<1>5. \A i \in 1..MaxCodes : /\ overlaps'[i] >= overlaps[i] /\ faults' >= faults
                             /\ guesses'[i] = guesses[i] /\ uses'[i] = uses[i]
  BY <1>1, CounterTypes DEF history
<1>6. ASSUME NEW i \in 1..MaxCodes PROVE GuessesOK(i)' /\ UsesOK(i)'
  <2>1. \A q \in Requests : Checks(req'[q], i) \/ Checks(req[q], i) => req'[q] = req[q]
    BY <1>1, <1>2, <1>3 DEF Others, Checks, CheckSteps, CodeSteps
  <2>2. QED
    BY <1>1, <1>5, <2>1, CountsKept DEF CodesOK, CountsOK
<1>7. ASSUME NEW i \in 1..MaxCodes, NEW k \in Keys, Held(i, k)' PROVE Newest(i, k)'
  <2>1. Held(i, k)
    BY <1>1, <1>3, <1>7 DEF Held, Checks, CheckSteps, CodeSteps
  <2>2. \A q \in Requests, l \in Keys : Posts(req'[q], l) => Posts(req[q], l) /\ req'[q] = req[q]
    BY <1>3 DEF Posts, CodeSteps
  <2>3. QED
    BY <1>4, <1>5, <2>1, <2>2, NewestKept DEF CodesOK
<1>8. QED
  BY <1>6, <1>7 DEF CodesOK, CountsOK, NewestOK

LEMMA WriteBackCodes ==
    ASSUME Inv, Inv', IdsOK, CodesOK, NEW r \in Requests, WriteBack(r)
    PROVE  CodesOK'
<1> DEFINE n == KeyOf[req[r].email]
           c == CountedGuess(req[r].seen)
           i0 == req[r].seen.id
<1>1. /\ n \in Keys /\ req[r].pc = "wrong" /\ Become(r, Idle) /\ Idle.pc = "idle"
      /\ req[r].seen \in Codes /\ code' = [code EXCEPT ![n] = c]
      /\ UNCHANGED <<mailed, history, faults>>
  BY OneHandler, KeyType DEF WriteBack, Idle, Fine, RequestStates
<1>2. c.id = i0 /\ c.attempts = req[r].seen.attempts + 1
  BY <1>1 DEF CountedGuess, Codes
<1>3. req'[r] = Idle /\ \A q \in Others(r) : req'[q] = req[q]
  BY <1>1, BecomeIs
<1>4. Guesses(req[r], i0) /\ Checks(req[r], i0) /\ KeyOf[req[r].email] = n
  BY <1>1 DEF Guesses, Checks, CheckSteps
<1> HIDE DEF n, c, i0
<1>5. code'[n] = c /\ \A k \in Keys : k # n => code'[k] = code[k]
  BY <1>1 DEF Inv, TypeOK
<1>6. \A q \in Requests : req'[q].pc \in CodeSteps => req'[q] = req[q]
  BY <1>1, <1>3 DEF Others, CodeSteps
<1>7. \A i \in 1..MaxCodes : /\ overlaps'[i] >= overlaps[i] /\ overlaps'[i] = overlaps[i]
                             /\ guesses'[i] = guesses[i] /\ uses'[i] = uses[i]
                             /\ faults' >= faults /\ faults' = faults
  BY <1>1, CounterTypes DEF history
<1>8. ASSUME NEW i \in 1..MaxCodes, i # i0 PROVE GuessesOK(i)' /\ UsesOK(i)'
  <2>1. \A q \in Requests : Checks(req'[q], i) \/ Checks(req[q], i) => req'[q] = req[q]
    BY <1>1, <1>3, <1>4, <1>8 DEF Others, Checks, CheckSteps
  <2>2. \A k \in Keys : code'[k].id = i => code'[k] = code[k]
    BY <1>2, <1>5, <1>8
  <2>3. QED
    BY <1>7, <2>1, <2>2, CountsKept DEF CodesOK, CountsOK
<1>9. ASSUME NEW i \in 1..MaxCodes, i = i0 PROVE GuessesOK(i)' /\ UsesOK(i)'
  <2> DEFINE s == overlaps[i] + faults
  <2>1. /\ guesses[i] \in Nat /\ s \in Nat /\ req[r].seen.attempts \in Nat
        /\ guesses'[i] = guesses[i] /\ uses'[i] = uses[i]
    BY <1>7, CounterTypes
  <2>2. /\ guesses[i] <= MaxAttempts + s
        /\ \A q \in Requests : Guesses(req[q], i) => guesses[i] <= req[q].seen.attempts + 1 + s
        /\ uses[i] <= s
    BY <1>1, <1>4, <1>9 DEF CodesOK, CountsOK, GuessesOK, UsesOK, Slack
  <2>3. s = overlaps'[i] + faults'
    BY <1>7
  <2> HIDE DEF s
  <2>4. guesses[i] <= c.attempts + s /\ guesses[i] <= c.attempts + 1 + s
    BY <1>2, <1>4, <1>9, <2>1, <2>2
  <2>5. \A q \in Requests : Guesses(req'[q], i) => req'[q] = req[q]
    BY <1>6 DEF Guesses, CodeSteps
  <2>6. \A k \in Keys : code'[k].id = i => k = n
    <3>1. \A k \in Keys : code[k].id = i => k = n
      BY <1>4, <1>9 DEF IdsOK, Checks
    <3>2. QED
      BY <1>5, <3>1
  <2>7. GuessesOK(i)'
    BY <1>5, <2>1, <2>2, <2>3, <2>4, <2>5, <2>6 DEF GuessesOK, Slack
  <2>8. UsesOK(i)'
    BY <2>1, <2>2, <2>3 DEF UsesOK, Slack
  <2>9. QED
    BY <2>7, <2>8
<1>10. ASSUME NEW i \in 1..MaxCodes, NEW k \in Keys, Held(i, k)' PROVE Newest(i, k)'
  <2>1. Held(i, k)
    <3>1. code'[k].id = i => Held(i, k)
      BY <1>2, <1>4, <1>5 DEF Held
    <3>2. (\E q \in Requests : Checks(req'[q], i) /\ KeyOf[req'[q].email] = k) => Held(i, k)
      BY <1>6 DEF Held, Checks, CheckSteps, CodeSteps
    <3>3. QED
      BY <1>10, <3>1, <3>2 DEF Held
  <2>2. \A q \in Requests, l \in Keys : Posts(req'[q], l) => Posts(req[q], l) /\ req'[q] = req[q]
    BY <1>6 DEF Posts, CodeSteps
  <2>3. QED
    BY <1>1, <1>7, <2>1, <2>2, NewestKept DEF CodesOK
<1>11. QED
  BY <1>8, <1>9, <1>10 DEF CodesOK, CountsOK, NewestOK

\* A key is deleted, by the handler that has checked its code or by time.
LEMMA ForgetCodes ==
    ASSUME Inv, Inv', CodesOK, NEW n \in Keys, code' = [code EXCEPT ![n] = NoCode],
           UNCHANGED <<mailed, history, faults>>,
           \A q \in Requests : \/ req'[q] = req[q]
                               \/ /\ req'[q].pc \notin CodeSteps
                                  /\ \A k \in Keys : code'[k].id # req[q].seen.id
    PROVE  CodesOK'
<1>1. \A k \in Keys : code'[k] = code[k] \/ code'[k].id = 0
  BY DEF NoCode, Inv, TypeOK
<1>2. \A q \in Requests : req'[q].pc \in CodeSteps => req'[q] = req[q]
  OBVIOUS
<1>3. \A i \in 1..MaxCodes : /\ overlaps'[i] >= overlaps[i] /\ faults' >= faults
                             /\ guesses'[i] = guesses[i] /\ uses'[i] = uses[i]
  BY CounterTypes DEF history
<1>4. ASSUME NEW i \in 1..MaxCodes PROVE GuessesOK(i)' /\ UsesOK(i)'
  <2>1. \A k \in Keys : code'[k].id = i => code'[k] = code[k]
    BY <1>1
  <2>2. \A q \in Requests : Checks(req'[q], i) => req'[q] = req[q]
    BY <1>2 DEF Checks, CheckSteps, CodeSteps
  <2>3. \/ \A q \in Requests : Checks(req[q], i) => req'[q] = req[q]
        \/ \A k \in Keys : code'[k].id # i
    BY DEF Checks
  <2>4. QED
    BY <1>3, <2>1, <2>2, <2>3, CountsKept DEF CodesOK, CountsOK
<1>5. ASSUME NEW i \in 1..MaxCodes, NEW k \in Keys, Held(i, k)' PROVE Newest(i, k)'
  <2>1. Held(i, k)
    BY <1>1, <1>2, <1>5 DEF Held, Checks, CheckSteps, CodeSteps
  <2>2. \A q \in Requests, l \in Keys : Posts(req'[q], l) => Posts(req[q], l) /\ req'[q] = req[q]
    BY <1>2 DEF Posts, CodeSteps
  <2>3. QED
    BY <1>3, <2>1, <2>2, NewestKept DEF CodesOK
<1>6. QED
  BY <1>4, <1>5 DEF CodesOK, CountsOK, NewestOK

LEMMA DropCodeCodes ==
    ASSUME Inv, Inv', IdsOK, CodesOK, NEW r \in Requests, DropCode(r)
    PROVE  CodesOK'
<1> DEFINE n == KeyOf[req[r].email]
<1>1. /\ n \in Keys /\ req[r].pc \in CheckSteps /\ req[r] \in RequestStates /\ req[r].seen.id # 0
      /\ code' = [code EXCEPT ![n] = NoCode]
      /\ UNCHANGED <<mailed, history, faults>>
  BY OneHandler, KeyType DEF DropCode, Fine, CheckSteps
<1>2. \A k \in Keys : code'[k].id # req[r].seen.id
  <2>1. code'[n].id = 0 /\ \A k \in Keys : k # n => code'[k] = code[k]
    BY <1>1 DEF NoCode, Inv, TypeOK
  <2>2. \A k \in Keys : code[k].id = req[r].seen.id => k = n
    BY <1>1 DEF IdsOK
  <2>3. QED
    BY <1>1, <2>1, <2>2
<1>3. \E h : Become(r, h) /\ h.pc \notin CodeSteps
  <2>1. Idle.pc \notin CodeSteps /\ [req[r] EXCEPT !.pc = "lookup"].pc \notin CodeSteps
    BY <1>1 DEF Idle, RequestStates, CodeSteps
  <2>2. QED
    BY <2>1 DEF DropCode, GoTo
<1>4. \A q \in Requests : req'[q] = req[q] \/ (q = r /\ req'[q].pc \notin CodeSteps)
  BY <1>3, BecomeIs DEF Others
<1> HIDE DEF n
<1>5. QED
  BY <1>1, <1>2, <1>4, ForgetCodes

LEMMA NextCodes == ASSUME Inv, Inv', IdsOK, CodesOK, [Next]_vars PROVE CodesOK'
<1>1. ASSUME NEW r \in Requests, NEW h, AccountStep(r, h) PROVE CodesOK'
  BY <1>1, CodesBecome DEF AccountStep, codeVars, CodeSteps, CheckSteps
<1>2. ASSUME NEW r \in Requests, Abort(r) PROVE CodesOK'
  <2>1. Become(r, Idle) /\ Idle.pc \notin CodeSteps /\ UNCHANGED codeVars /\ faults' = faults + 1
    BY <1>2 DEF Abort, Idle, CodeSteps
  <2>2. faults' > faults
    BY <2>1, IdTypes
  <2>3. QED
    BY <2>1, <2>2, CodesBecome DEF codeVars
<1>3. ASSUME NEW k \in Keys, Expire(k) PROVE CodesOK'
  BY <1>3, ForgetCodes DEF Expire
<1>4. CASE UNCHANGED vars
  BY <1>4 DEF vars, CodesOK, CountsOK, NewestOK, GuessesOK, UsesOK, Slack, Newest, Held
<1>5. ASSUME NEW r \in Requests, NEW s \in Subjects,
             (\E e \in ProviderMails : Callback(r, s, e)) \/ TelegramVerify(r, s)
      PROVE  CodesOK'
  BY <1>1, <1>5, CallbackStep DEF TelegramVerify
<1>6. ASSUME NEW r \in Requests, Resolve(r) PROVE CodesOK'
  BY <1>1, <1>6, ResolveStep
<1>7. QED
  BY <1>2, <1>3, <1>4, <1>5, <1>6, RequestCodeCodes, ReadCodeCodes, SendMailCodes, WriteBackCodes,
     DropCodeCodes
  DEF Next, Proceed

LEMMA CodesInvariant == Spec => [](Inv /\ IdsOK /\ CodesOK)
<1>1. Init => IdsOK /\ CodesOK
  <2>1. Init => /\ \A k \in Keys : code[k] = NoCode /\ mailed[k] = {}
                /\ \A i \in 1..MaxCodes : guesses[i] = 0 /\ uses[i] = 0 /\ overlaps[i] = 0
                /\ \A r \in Requests : req[r].pc = "idle"
                /\ issued = 0 /\ faults = 0
    BY DEF Init, Idle
  <2>2. MaxAttempts \in Nat /\ NoCode.id = 0
    BY BoundsAssumption DEF NoCode
  <2>3. Init => IdsOK
    BY <2>1, <2>2 DEF IdsOK, Fresh, CheckSteps, CodeSteps
  <2>4. Init => CountsOK
    BY <2>1, <2>2 DEF CountsOK, GuessesOK, UsesOK, Slack, Guesses, Checks, CheckSteps
  <2>5. Init => NewestOK
    BY <2>1, <2>2 DEF NewestOK, Held, Checks, CheckSteps
  <2>6. QED
    BY <2>3, <2>4, <2>5 DEF CodesOK
<1>2. Inv /\ IdsOK /\ CodesOK /\ [Next]_vars => Inv' /\ IdsOK' /\ CodesOK'
  BY NextInv, NextIds, NextCodes
<1>3. QED
  BY <1>1, <1>2, InitInv, PTL DEF Spec

\* A code lets one sign-in through, but for one more at most for each overlap at
\* it and each failure; and no replaced code comes back without an overlap.
THEOREM OldCodesStayGone == Spec => []NoStaleCode
<1>1. ASSUME Inv, CodesOK PROVE NoStaleCode
  <2>1. ASSUME NEW i \in 1..MaxCodes PROVE uses[i] <= 1 + overlaps[i] + faults
    <3>1. uses[i] \in Nat /\ overlaps[i] \in Nat /\ faults \in Nat
      BY <1>1, BoundsAssumption DEF Inv, TypeOK
    <3>2. QED
      BY <1>1, <3>1 DEF CodesOK, CountsOK, UsesOK, Slack
  <2>2. ASSUME NEW k \in Keys, code[k] # NoCode
        PROVE  (\A i \in mailed[k] : i <= code[k].id) \/ overlaps[code[k].id] > 0
    <3>1. code[k].id \in 1..MaxCodes
      BY <1>1, <2>2, BoundsAssumption DEF Inv, TypeOK, CodesReal, Codes
    <3>2. QED
      BY <1>1, <3>1 DEF CodesOK, NewestOK, Held, Newest
  <2>3. QED
    BY <2>1, <2>2 DEF NoStaleCode
<1>2. QED
  BY <1>1, CodesInvariant, PTL

\* However handlers overlap, MaxAttempts is the limit of wrong codes and the
\* record counts them, but for one at most for each overlap and each failure.
THEOREM EveryGuessCounts == Spec => []GuessesAreCounted
<1>1. ASSUME Inv, IdsOK, CodesOK PROVE GuessesAreCounted
  <2>1. ASSUME NEW i \in 1..MaxCodes PROVE guesses[i] <= MaxAttempts + overlaps[i] + faults
    <3>1. guesses[i] <= MaxAttempts + (overlaps[i] + faults)
      BY <1>1 DEF CodesOK, CountsOK, GuessesOK, Slack
    <3>2. guesses[i] \in Nat /\ overlaps[i] \in Nat /\ faults \in Nat /\ MaxAttempts \in Nat
      BY <1>1, BoundsAssumption DEF Inv, TypeOK
    <3>3. QED
      BY <3>1, <3>2
  <2>2. ASSUME NEW k \in Keys, code[k] # NoCode, Verifying(k) = {}
        PROVE  guesses[code[k].id] <= code[k].attempts + overlaps[code[k].id] + faults
    <3> DEFINE i == code[k].id
    <3>1. i \in 1..MaxCodes /\ code[k].attempts \in Nat
      BY <1>1, <2>2, BoundsAssumption DEF Inv, TypeOK, CodesReal, Codes
    <3> HIDE DEF i
    <3>2. \A r \in Requests : ~ Checks(req[r], i)
      BY <1>1, <2>2, <3>1 DEF IdsOK, Checks, CheckSteps, Verifying, i
    <3>3. guesses[i] <= code[k].attempts + (overlaps[i] + faults)
      BY <1>1, <3>1, <3>2 DEF CodesOK, CountsOK, GuessesOK, Slack, i
    <3>4. guesses[i] \in Nat /\ overlaps[i] \in Nat /\ faults \in Nat
      BY <1>1, <3>1, BoundsAssumption DEF Inv, TypeOK
    <3>5. guesses[i] <= code[k].attempts + overlaps[i] + faults
      BY <3>1, <3>3, <3>4
    <3>6. QED
      BY <3>5 DEF i
  <2>3. QED
    BY <2>1, <2>2 DEF GuessesAreCounted
<1>2. QED
  BY <1>1, CodesInvariant, PTL
=============================================================================
