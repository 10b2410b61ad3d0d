--------------------------- MODULE PlatformProofs ---------------------------
(***************************************************************************)
(* For any number of accounts, requests, sessions, ports and               *)
(* administrators: nobody is locked out of an account whose requests come  *)
(* one at a time, and a careful sequence of calls keeps ssh reachable.     *)
(***************************************************************************)
EXTENDS MCPlatform, ProjectRoutesProofs

-----------------------------------------------------------------------------
(***************************************************************************)
(* Accounts                                                                *)
(***************************************************************************)

\* A request in progress is about an account, which has or had a row unless it
\* is being registered; an account with a session or a temporary token did too.
Identified ==
    /\ \A c \in Clients : request[c].step # "idle" =>
          /\ request[c].member \in Members
          /\ request[c].step # "creating" => request[c].member \in rows \cup gone
          /\ request[c].step = "creating" => request[c].member \notin gone
    /\ seated \subseteq rows \cup gone /\ temporary \subseteq rows \cup gone

AccountsTypeInv == AccountsTypeOK /\ regime \in Regimes /\ Identified

-----------------------------------------------------------------------------
(***************************************************************************)
(* Type correctness.                                                       *)
(***************************************************************************)

\* A step that only begins, continues or ends requests keeps the types, if the
\* new requests are well formed.
LEMMA RequestsOnly ==
    ASSUME AccountsTypeInv, UNCHANGED <<regime, userVars, sessionVars, historyVars>>,
           made' \in 0..regime.requests,
           NEW c \in Clients, NEW r \in AccountRequests,
           request' = [request EXCEPT ![c] = r],
           r.step # "idle" => /\ r.member \in Members
                              /\ r.step # "creating" => r.member \in rows \cup gone
                              /\ r.step = "creating" => r.member \notin gone
    PROVE  AccountsTypeInv'
  BY DEF AccountsTypeInv, AccountsTypeOK, Identified, userVars, sessionVars, historyVars

\* What Continue and End do to a request.
LEMMA AccountRequestForms ==
    ASSUME AccountsTypeInv, NEW c \in Clients
    PROVE  /\ NoRequest \in AccountRequests /\ NoRequest.step = "idle"
           /\ \A s \in RequestSteps :
                 /\ [request[c] EXCEPT !.step = s] \in AccountRequests
                 /\ [request[c] EXCEPT !.step = s].step = s
                 /\ [request[c] EXCEPT !.step = s].member = request[c].member
           /\ \A u \in Members, s \in RequestSteps :
                 /\ RequestOf(u, s) \in AccountRequests
                 /\ RequestOf(u, s).step = s /\ RequestOf(u, s).member = u
<1>1. MaxAttempts - 1 \in Nat /\ 0 \in 0..(MaxAttempts - 1)
  BY AccountsAssumption
<1>2. NoRequest \in AccountRequests /\ NoRequest.step = "idle"
  BY <1>1 DEF NoRequest, AccountRequests, RequestSteps
<1>3. request[c] \in AccountRequests
  BY DEF AccountsTypeInv, AccountsTypeOK
<1> QED
  BY <1>1, <1>2, <1>3 DEF RequestOf, NoRequest, AccountRequests

\* Each of the steps of a request, of a lock, of the administrator and of a
\* crash keeps the types.
LEMMA AccountsTypeStep == AccountsTypeInv /\ AccountsNext => AccountsTypeInv'
<1> SUFFICES ASSUME AccountsTypeInv, AccountsNext PROVE AccountsTypeInv'
  OBVIOUS
<1> DEFINE Same == UNCHANGED <<regime, userVars, sessionVars, historyVars>>
<1>a. made \in Nat /\ regime.requests \in Nat /\ made \in 0..regime.requests
      /\ (made < regime.requests /\ made' = made + 1 /\ UNCHANGED regime =>
            made' \in 0..regime.requests)
  BY AccountsAssumption DEF AccountsTypeInv, AccountsTypeOK

\* A request that begins.
<1>b. ASSUME NEW c \in Clients, NEW r \in AccountRequests, Start(c, r), Same,
             r.member \in Members,
             \/ r.step # "creating" /\ r.member \in rows \cup gone
             \/ r.step = "creating" /\ r.member \notin gone
      PROVE  AccountsTypeInv'
  <2>1. made' \in 0..regime.requests
    BY <1>b, <1>a DEF Start
  <2> QED
    BY <1>b, <2>1, RequestsOnly DEF Start
<1>c. ASSUME NEW c \in Clients, End(c), UNCHANGED made, Same PROVE AccountsTypeInv'
  BY <1>c, <1>a, RequestsOnly, AccountRequestForms DEF End
<1>d. ASSUME NEW c \in Clients, Fail(c) PROVE AccountsTypeInv'
  BY <1>d, <1>c DEF Fail
\* A request that is let in is about an account with a row, or that had one.
<1>e. ASSUME NEW u \in Members, NEW s \in SessionIds \cup {NoSession}, LetIn(u, s)
      PROVE  u \in rows \cup gone
  BY <1>e, AccountsAssumption DEF LetIn, AccountsTypeInv, AccountsTypeOK, Identified
<1>1. ASSUME NEW c \in Clients, NEW u \in Members, AskRegister(c, u) PROVE AccountsTypeInv'
  <2>1. "creating" \in RequestSteps
    BY DEF RequestSteps
  <2> QED
    BY <1>1, <1>b, <2>1, AccountRequestForms DEF AskRegister
<1>2. ASSUME NEW c \in Clients, NEW u \in Members, AskLogin(c, u) PROVE AccountsTypeInv'
  <2> DEFINE r == [RequestOf(u, "comparing") EXCEPT
                     !.attempts = attempts[u], !.twoFactor = u \in twoFactor]
  <2>0. "comparing" \in RequestSteps
    BY DEF RequestSteps
  <2>1. /\ RequestOf(u, "comparing") \in AccountRequests
        /\ RequestOf(u, "comparing").member = u
        /\ RequestOf(u, "comparing").step = "comparing"
    BY <2>0, AccountRequestForms
  <2>2. attempts[u] \in 0..(MaxAttempts - 1) /\ (u \in twoFactor) \in BOOLEAN
    BY DEF AccountsTypeInv, AccountsTypeOK
  <2>3. r \in AccountRequests /\ r.member = u /\ r.step # "creating"
    BY <2>1, <2>2 DEF AccountRequests
  <2>4. u \in rows /\ Start(c, r) /\ Same
    BY <1>2 DEF AskLogin
  <2> HIDE DEF r
  <2> QED
    BY <2>3, <2>4, <1>b
<1>3. ASSUME NEW c \in Clients, NEW u \in Members, NEW b \in BOOLEAN,
             AskVerify(c, u, b)
      PROVE  AccountsTypeInv'
  <2> DEFINE s == IF b THEN "enabling" ELSE "signingIn"
             r == [RequestOf(u, s) EXCEPT !.secret = secret[u]]
  <2>0. s \in RequestSteps /\ s # "creating"
    BY DEF RequestSteps
  <2>1. RequestOf(u, s) \in AccountRequests /\ RequestOf(u, s).member = u
        /\ RequestOf(u, s).step = s
    <3> HIDE DEF s
    <3> QED
      BY <2>0, AccountRequestForms
  <2>2. secret[u] \in Secrets \cup {NoSecret}
    BY DEF AccountsTypeInv, AccountsTypeOK
  <2>3. r \in AccountRequests /\ r.member = u /\ r.step # "creating"
    BY <2>0, <2>1, <2>2 DEF AccountRequests
  <2>4. u \in rows /\ Start(c, r) /\ Same
    BY <1>3 DEF AskVerify
  <2> HIDE DEF r
  <2> QED
    BY <2>3, <2>4, <1>b
<1>4. ASSUME NEW c \in Clients, NEW u \in Members, AskSetup(c, u) \/ AskTurnOff(c, u)
      PROVE  AccountsTypeInv'
  <2>1. u \in rows \cup gone
    BY <1>4, <1>e DEF AskSetup, AskTurnOff
  <2>2. "settingUp" \in RequestSteps /\ "turningOff" \in RequestSteps
    BY DEF RequestSteps
  <2> QED
    BY <1>4, <1>b, <2>1, <2>2, AccountRequestForms DEF AskSetup, AskTurnOff
<1>5. ASSUME NEW c \in Clients, NEW u \in Members, NEW s \in SessionIds \cup {NoSession},
             NEW t \in SessionIds \cup {NoSession}, AskRevoke(c, u, s, t)
      PROVE  AccountsTypeInv'
  <2> DEFINE r == [RequestOf(u, "revoking") EXCEPT !.own = s, !.target = t]
  <2>1. u \in rows \cup gone
    BY <1>5, <1>e DEF AskRevoke
  <2>2. /\ RequestOf(u, "revoking") \in AccountRequests
        /\ RequestOf(u, "revoking").member = u
        /\ RequestOf(u, "revoking").step = "revoking"
    BY AccountRequestForms DEF RequestSteps
  <2>3. r \in AccountRequests /\ r.member = u /\ r.step = "revoking"
    BY <2>2 DEF AccountRequests
  <2>4. Start(c, r) /\ Same
    BY <1>5 DEF AskRevoke
  <2> HIDE DEF r
  <2> QED
    BY <2>1, <2>3, <2>4, <1>b
<1>6. ASSUME NEW c \in Clients, Serve(c) PROVE AccountsTypeInv'
  <2> DEFINE u == request[c].member
  <2>0. request[c] \in AccountRequests
    BY DEF AccountsTypeInv, AccountsTypeOK
  <2>1. request[c].step # "idle" =>
          /\ u \in Members
          /\ request[c].step # "creating" => u \in rows \cup gone
          /\ request[c].step = "creating" => u \notin gone
    BY DEF AccountsTypeInv, Identified
  <2>2. \A s \in RequestSteps : [request[c] EXCEPT !.step = s] \in AccountRequests
                          /\ [request[c] EXCEPT !.step = s].step = s
                          /\ [request[c] EXCEPT !.step = s].member = u
    BY AccountRequestForms
  <2>3. NoRequest \in AccountRequests /\ NoRequest.step = "idle"
    BY AccountRequestForms
  <2> USE <1>a, <2>0, <2>1, <2>3
      DEF AccountsTypeInv, AccountsTypeOK, Identified, userVars, sessionVars, historyVars
  <2>4. CASE CreateRow(c)
    <3>1. CASE End(c) /\ UNCHANGED <<rows, gone, attempts, locked, twoFactor,
                                     secret, historyVars>>
      BY <2>4, <3>1, <1>c DEF CreateRow
    <3>2. CASE u \notin rows /\ NewRow(u) /\ Continue(c, "logging")
      <4> DEFINE r == [request[c] EXCEPT !.step = "logging"]
      <4>1. request' = [request EXCEPT ![c] = r]
        BY <3>2 DEF Continue
      <4>2. r \in AccountRequests /\ r.member = u
        BY <2>2 DEF RequestSteps
      <4>3. 0 \in 0..(MaxAttempts - 1) /\ u \in Members
        BY <2>4, AccountsAssumption DEF CreateRow
      <4> HIDE DEF r
      <4>4. request' \in [Clients -> AccountRequests]
        BY <4>1, <4>2
      <4>5. Identified'
        BY <2>4, <3>2, <4>1, <4>2, <4>3 DEF CreateRow, NewRow
      <4>6. /\ UNCHANGED <<regime, made, suspended, tokens, temporary, session, issued>>
            /\ UNCHANGED <<gone, locked, twoFactor, seated>>
            /\ rows' = rows \cup {u} /\ redone' = redone \ {u}
        BY <2>4, <3>2 DEF CreateRow, NewRow
      <4>8. u \notin gone
        BY <2>4 DEF CreateRow
      <4>7. /\ attempts' \in [Members -> 0..(MaxAttempts - 1)]
            /\ secret' \in [Members -> Secrets \cup {NoSecret}]
            /\ streak' \in [Members -> Nat]
            /\ confirmed' \in [Members -> Secrets \cup {NoSecret}]
        BY <3>2, <4>3 DEF NewRow
      <4> QED
        BY <3>2, <4>3, <4>4, <4>5, <4>6, <4>7, <4>8
    <3> QED
      BY <2>4, <3>1, <3>2 DEF CreateRow
  <2>5. CASE LogRegistration(c)
    <3>1. "granting" \in RequestSteps
      BY DEF RequestSteps
    <3> QED
      <4>1. CASE Fail(c)
        BY <4>1, <1>d
      <4>2. CASE u \in rows /\ Continue(c, "granting") /\ UNCHANGED made /\ Same
        <5> DEFINE r == [request[c] EXCEPT !.step = "granting"]
        <5>1. request' = [request EXCEPT ![c] = r]
          BY <4>2 DEF Continue
        <5>2. r \in AccountRequests /\ r.member = u /\ r.step = "granting"
              /\ u \in Members /\ u \in rows
          BY <4>2, <3>1, <2>2
        <5>3. made' \in 0..regime.requests /\ UNCHANGED <<regime, userVars, sessionVars, historyVars>>
          BY <4>2
        <5>4. AccountsTypeInv
          OBVIOUS
        <5> HIDE DEF r, AccountsTypeInv, AccountsTypeOK, userVars, sessionVars, historyVars
        <5> QED
          BY <5>1, <5>2, <5>3, <5>4, RequestsOnly
      <4> QED
        BY <2>5, <4>1, <4>2 DEF LogRegistration
  <2>6. CASE Grant(c)
    BY <2>6, <1>d DEF Grant, End
  <2>7. CASE WrongPassword(c)
    <3> DEFINE n == request[c].attempts + 1
               next == IF n >= MaxAttempts THEN 0 ELSE n
    <3>1. next \in 0..(MaxAttempts - 1)
      <4>1. request[c].attempts \in 0..(MaxAttempts - 1)
        BY DEF AccountRequests
      <4> HIDE DEF AccountsTypeInv
      <4> QED
        BY <4>1, AccountsAssumption
    <3>2. u \in rows /\ attempts' = [attempts EXCEPT ![u] = next]
      BY <2>7 DEF WrongPassword
    <3>3. attempts' \in [Members -> 0..(MaxAttempts - 1)]
      BY <3>1, <3>2
    <3>4. locked' \subseteq rows /\ streak' \in [Members -> Nat]
      BY <2>7 DEF WrongPassword
    <3> QED
      BY <2>7, <3>3, <3>4 DEF WrongPassword, End
  <2>8. CASE RightPassword(c)
    <3>1. "signingIn" \in RequestSteps
      BY DEF RequestSteps
    <3>2. CASE End(c)
      BY <2>8, <3>2 DEF RightPassword, End
    <3>3. CASE Continue(c, "signingIn")
      BY <2>8, <3>1, <3>3, <2>2 DEF RightPassword, Continue
    <3> QED
      BY <2>8, <3>2, <3>3 DEF RightPassword
  <2>9. CASE SignIn(c)
    <3>1. "granting" \in RequestSteps /\ 0 \in 0..(MaxAttempts - 1)
      BY AccountsAssumption DEF RequestSteps
    <3> QED
      BY <2>9, <3>1, <2>2 DEF SignIn, Continue
  <2>10. CASE LoginFails(c)
    BY <2>10, <1>d DEF LoginFails
  <2>11. CASE Setup(c)
    BY <2>11, <1>d DEF Setup, End
  <2>12. CASE Enable(c)
    <3>1. "signingIn" \in RequestSteps
      BY DEF RequestSteps
    <3> QED
      BY <2>12, <3>1, <2>2 DEF Enable, Continue, AccountRequests
  <2>13. CASE TurnOff(c)
    BY <2>13, <1>d DEF TurnOff, End
  <2>14. CASE RevokeOthers(c)
    BY <2>14 DEF RevokeOthers, End
  <2>15. CASE RevokeSession(c)
    BY <2>15 DEF RevokeSession, End
  <2>16. CASE RevokeFails(c)
    BY <2>16, <1>c DEF RevokeFails
  <2> QED
    BY <1>6, <2>4, <2>5, <2>6, <2>7, <2>8, <2>9, <2>10, <2>11, <2>12, <2>13,
       <2>14, <2>15, <2>16 DEF Serve
<1>7. ASSUME NEW u \in Members, LockEnds(u) PROVE AccountsTypeInv'
  BY <1>7 DEF LockEnds, AccountsTypeInv, AccountsTypeOK, Identified, sessionVars
<1>8. ASSUME NEW u \in Members, DropUser(u) PROVE AccountsTypeInv'
  BY <1>8 DEF DropUser, AccountsTypeInv, AccountsTypeOK, Identified, historyVars
<1>9. ASSUME NEW u \in Members, NEW s \in BOOLEAN, createUser(u, s) PROVE AccountsTypeInv'
  <2>1. 0 \in 0..(MaxAttempts - 1)
    BY AccountsAssumption
  <2> QED
    BY <1>9, <2>1 DEF createUser, NewRow, AccountsTypeInv, AccountsTypeOK, Identified,
                      sessionVars
<1>10. ASSUME NEW u \in Members, NEW s \in BOOLEAN, updateUser(u, s) PROVE AccountsTypeInv'
  BY <1>10 DEF updateUser, AccountsTypeInv, AccountsTypeOK, Identified, sessionVars,
               historyVars
<1>11. CASE AccountsCrash
  <2>1. [c \in Clients |-> NoRequest] \in [Clients -> AccountRequests]
    BY AccountRequestForms
  <2> QED
    BY <1>11, <2>1, AccountRequestForms
       DEF AccountsCrash, AccountsTypeInv, AccountsTypeOK, Identified, userVars,
           sessionVars, historyVars
<1> QED
  BY <1>1, <1>2, <1>3, <1>4, <1>5, <1>6, <1>7, <1>8, <1>9, <1>10, <1>11
     DEF AccountsNext, AskRevokeOthers

\* Before any request, the accounts that are there are well typed.
LEMMA AccountsTypeStart == AccountsInit => AccountsTypeInv
<1>1. 0 \in 0..(MaxAttempts - 1)
  BY AccountsAssumption
<1>2. NoRequest \in AccountRequests /\ NoRequest.step = "idle"
  BY <1>1 DEF NoRequest, AccountRequests, RequestSteps
<1> QED
  BY <1>1, <1>2, AccountsAssumption
     DEF AccountsInit, AccountsTypeInv, AccountsTypeOK, Identified

\* Requests, and steps that change nothing, keep them so.
LEMMA AccountsTypeGoesOn == AccountsTypeInv /\ [AccountsNext]_accountsVars => AccountsTypeInv'
<1>1. AccountsTypeInv /\ UNCHANGED accountsVars => AccountsTypeInv'
  BY DEF accountsVars, userVars, sessionVars, historyVars, AccountsTypeInv,
         AccountsTypeOK, Identified
<1> QED
  BY <1>1, AccountsTypeStep

\* Every counter, set and request of the specification is of its type; the
\* counter of failed logins stays below the number at which an account is
\* locked.
THEOREM AccountsTypeCorrect == AccountsSpec => []AccountsTypeOK
<1>1. AccountsInit => AccountsTypeInv
  BY AccountsTypeStart
<1>2. AccountsTypeInv /\ [AccountsNext]_accountsVars => AccountsTypeInv'
  BY AccountsTypeGoesOn
<1>3. AccountsTypeInv => AccountsTypeOK
  BY DEF AccountsTypeInv
<1> QED
  BY <1>1, <1>2, <1>3, PTL DEF AccountsSpec
-----------------------------------------------------------------------------
(***************************************************************************)
(* NotShutOut is not inductive: it says nothing of what a request has read *)
(* before an await.  Without overlap a value read by a request is current  *)
(* until the request uses it, since only requests about the same account   *)
(* write it.                                                               *)
(***************************************************************************)

OneAtATime ==
    \A c, d \in Clients :
        request[c].step # "idle" /\ request[d].step # "idle"
            /\ request[c].member = request[d].member => c = d

\* The counter and what login has read of it.
Counted ==
    /\ \A u \in rows : IF u \in locked THEN attempts[u] = 0 /\ streak[u] = MaxAttempts
                                       ELSE attempts[u] = streak[u]
    /\ \A c \in Clients :
          request[c].step = "comparing" /\ request[c].member \in rows =>
              /\ request[c].member \notin locked
              /\ request[c].attempts = attempts[request[c].member]

\* The secret and what verify2fa has read of it.
Confirmed ==
    /\ \A u \in rows : u \in twoFactor \ redone =>
          secret[u] = confirmed[u] /\ secret[u] # NoSecret
    /\ \A c \in Clients :
          request[c].step = "enabling" /\ request[c].member \in rows =>
              /\ request[c].secret = secret[request[c].member]
              /\ request[c].secret # NoSecret

\* The sessions and the one, if any, a revocation was asked with.
Present ==
    /\ \A u \in rows : u \in seated => \E s \in SessionIds : session[s] = u
    /\ \A c \in Clients :
          request[c].step = "revoking" /\ request[c].member \in rows =>
              /\ request[c].own # request[c].target
              /\ request[c].own # NoSession =>
                    session[request[c].own] = request[c].member

AloneInv == OneAtATime /\ Counted /\ Confirmed /\ Present

AccountsInv == AccountsTypeInv /\ (~regime.overlap => AloneInv)

\* A request that begins, with what it has read of the row of its account.
LEMMA AloneStart ==
    ASSUME AccountsTypeInv, ~regime.overlap, AloneInv,
           NEW c \in Clients, NEW r \in AccountRequests, Start(c, r),
           UNCHANGED <<regime, userVars, sessionVars, historyVars>>,
           r.member \in Members,
           r.step = "comparing" => /\ r.member \notin locked
                                   /\ r.attempts = attempts[r.member],
           r.step = "enabling" => /\ r.secret = secret[r.member]
                                  /\ r.secret # NoSecret,
           r.step = "revoking" =>
              /\ r.own # r.target
              /\ r.own # NoSession => session[r.own] = r.member
    PROVE  AloneInv'
<1>1. /\ request' = [request EXCEPT ![c] = r]
      /\ \A d \in Clients : request[d].member # r.member
  BY DEF Start
<1>2. request'[c] = r /\ \A d \in Clients \ {c} : request'[d] = request[d]
  BY <1>1 DEF AccountsTypeInv, AccountsTypeOK
<1>3. UNCHANGED <<rows, gone, locked, attempts, streak, twoFactor, redone, secret,
                  confirmed, seated, session>>
  BY DEF userVars, sessionVars, historyVars
<1>4. OneAtATime'
  BY <1>1, <1>2 DEF AloneInv, OneAtATime
<1>5. Counted' /\ Confirmed' /\ Present'
  BY <1>2, <1>3 DEF AloneInv, Counted, Confirmed, Present
<1> QED
  BY <1>4, <1>5 DEF AloneInv

\* A request that goes on to a step before which nothing is read, or ends.
LEMMA AloneGoesOn ==
    ASSUME AccountsTypeInv, AloneInv, NEW c \in Clients, Identified,
           UNCHANGED <<rows, gone, locked, attempts, streak, twoFactor, redone,
                       secret, confirmed, seated, session>>,
           End(c) \/ \E s \in {"logging", "granting", "signingIn"} :
                        Continue(c, s) /\ request[c].step # "idle"
    PROVE  AloneInv'
<1>1. \A d \in Clients \ {c} : request'[d] = request[d]
  BY DEF End, Continue, AccountsTypeInv, AccountsTypeOK
<1>2. \/ request'[c] = NoRequest
      \/ /\ request'[c].step \in {"logging", "granting", "signingIn"}
         /\ request'[c].member = request[c].member /\ request[c].step # "idle"
  BY DEF End, Continue, AccountsTypeInv, AccountsTypeOK, AccountRequests
<1>3. NoRequest.step = "idle"
  BY DEF NoRequest
<1> QED
  BY <1>1, <1>2, <1>3 DEF AloneInv, OneAtATime, Counted, Confirmed, Present

\* Every step of an environment without overlap keeps AloneInv.
LEMMA AloneStep ==
    ASSUME AccountsTypeInv, AccountsTypeInv', ~regime.overlap, AloneInv, AccountsNext
    PROVE  AloneInv'
<1>a. Identified
  BY DEF AccountsTypeInv
<1>b. ASSUME NEW c \in Clients, Fail(c) PROVE AloneInv'
  BY <1>b, <1>a, AloneGoesOn DEF Fail, userVars, sessionVars, historyVars
<1>c. ASSUME NEW u \in Members, u \notin rows \cup gone, NewRow(u),
             UNCHANGED <<session, regime>>,
             \A c \in Clients : \/ request'[c] = request[c]
                                \/ request'[c].step = "logging"
                                   /\ request[c].step # "idle"
                                   /\ request'[c].member = request[c].member
      PROVE  AloneInv'
  <2>1. \A c \in Clients : request[c].member = u => request[c].step \in {"idle", "creating"}
    BY <1>a, <1>c DEF Identified
  <2>2. u \notin locked /\ u \notin twoFactor /\ u \notin seated
    BY <1>a, <1>c DEF Identified, AccountsTypeInv, AccountsTypeOK
  <2>3. /\ attempts' = [attempts EXCEPT ![u] = 0] /\ streak' = [streak EXCEPT ![u] = 0]
        /\ secret' = [secret EXCEPT ![u] = NoSecret]
        /\ confirmed' = [confirmed EXCEPT ![u] = NoSecret]
        /\ rows' = rows \cup {u} /\ redone' = redone \ {u}
        /\ UNCHANGED <<gone, locked, twoFactor, seated, session>>
    BY <1>c DEF NewRow
  <2>4. OneAtATime'
    BY <1>c DEF AloneInv, OneAtATime
  <2>5. Counted'
    BY <1>c, <2>1, <2>2, <2>3 DEF AloneInv, Counted, AccountsTypeInv, AccountsTypeOK
  <2>6. Confirmed'
    BY <1>c, <2>1, <2>2, <2>3 DEF AloneInv, Confirmed, AccountsTypeInv, AccountsTypeOK
  <2>7. Present'
    BY <1>c, <2>1, <2>2, <2>3 DEF AloneInv, Present
  <2> QED
    BY <2>4, <2>5, <2>6, <2>7 DEF AloneInv
<1>d. \A u \in Members, s \in RequestSteps :
         /\ RequestOf(u, s) \in AccountRequests
         /\ RequestOf(u, s).step = s /\ RequestOf(u, s).member = u
  <2>1. 0 \in 0..(MaxAttempts - 1)
    BY AccountsAssumption
  <2> QED
    BY <2>1 DEF RequestOf, NoRequest, AccountRequests, RequestSteps
<1>1. ASSUME NEW c \in Clients, NEW u \in Members, AskRegister(c, u) PROVE AloneInv'
  <2>1. "creating" \in RequestSteps
    BY DEF RequestSteps
  <2>2. RequestOf(u, "creating") \in AccountRequests
        /\ RequestOf(u, "creating").step = "creating"
        /\ RequestOf(u, "creating").member = u
    BY <2>1, <1>d
  <2> QED
    BY <1>1, <2>2, AloneStart DEF AskRegister
<1>2. ASSUME NEW c \in Clients, NEW u \in Members, AskLogin(c, u) PROVE AloneInv'
  <2> DEFINE r == [RequestOf(u, "comparing") EXCEPT
                     !.attempts = attempts[u], !.twoFactor = u \in twoFactor]
  <2>1. RequestOf(u, "comparing") \in AccountRequests
        /\ RequestOf(u, "comparing").step = "comparing"
        /\ RequestOf(u, "comparing").member = u
    BY <1>d DEF RequestSteps
  <2>2. attempts[u] \in 0..(MaxAttempts - 1) /\ (u \in twoFactor) \in BOOLEAN
    BY DEF AccountsTypeInv, AccountsTypeOK
  <2>3. /\ r \in AccountRequests /\ r.step = "comparing" /\ r.member = u
        /\ r.attempts = attempts[u]
    BY <2>1, <2>2 DEF AccountRequests
  <2>4. /\ u \notin locked /\ Start(c, r)
        /\ UNCHANGED <<regime, userVars, sessionVars, historyVars>>
    BY <1>2 DEF AskLogin
  <2> HIDE DEF r
  <2> QED
    BY <2>3, <2>4, AloneStart
<1>3. ASSUME NEW c \in Clients, NEW u \in Members, NEW b \in BOOLEAN,
             AskVerify(c, u, b)
      PROVE  AloneInv'
  <2> DEFINE s == IF b THEN "enabling" ELSE "signingIn"
             r == [RequestOf(u, s) EXCEPT !.secret = secret[u]]
  <2>0. s \in RequestSteps /\ s # "comparing" /\ s # "revoking"
    BY DEF RequestSteps
  <2>1. /\ r \in AccountRequests /\ r.step = s /\ r.member = u /\ r.secret = secret[u]
    <3>1. secret[u] \in Secrets \cup {NoSecret}
      BY DEF AccountsTypeInv, AccountsTypeOK
    <3> HIDE DEF s
    <3>2. RequestOf(u, s) \in AccountRequests /\ RequestOf(u, s).step = s
          /\ RequestOf(u, s).member = u
      BY <2>0, <1>d
    <3> QED
      BY <3>1, <3>2 DEF AccountRequests
  <2>2. /\ secret[u] # NoSecret /\ Start(c, r)
        /\ UNCHANGED <<regime, userVars, sessionVars, historyVars>>
    BY <1>3 DEF AskVerify
  <2> HIDE DEF s, r
  <2> QED
    BY <2>0, <2>1, <2>2, AloneStart
<1>4. ASSUME NEW c \in Clients, NEW u \in Members,
             NEW k \in {"settingUp", "turningOff"}, Start(c, RequestOf(u, k)),
             UNCHANGED <<regime, userVars, sessionVars, historyVars>>
      PROVE AloneInv'
  <2>1. k \in RequestSteps
    BY DEF RequestSteps
  <2>2. RequestOf(u, k) \in AccountRequests
        /\ RequestOf(u, k).step = k /\ RequestOf(u, k).member = u
    BY <2>1, <1>d
  <2> QED
    BY <1>4, <2>2, AloneStart
<1>5. ASSUME NEW c \in Clients, NEW u \in Members, NEW s \in SessionIds \cup {NoSession},
             NEW t \in SessionIds \cup {NoSession}, AskRevoke(c, u, s, t)
      PROVE  AloneInv'
  <2> DEFINE r == [RequestOf(u, "revoking") EXCEPT !.own = s, !.target = t]
  <2>1. /\ RequestOf(u, "revoking") \in AccountRequests
        /\ RequestOf(u, "revoking").step = "revoking"
        /\ RequestOf(u, "revoking").member = u
    BY <1>d DEF RequestSteps
  <2>2. /\ r \in AccountRequests /\ r.step = "revoking" /\ r.member = u
        /\ r.own = s /\ r.target = t
    BY <2>1 DEF AccountRequests
  <2>3. /\ t # s
        /\ s # NoSession => session[s] = u
        /\ Start(c, r) /\ UNCHANGED <<regime, userVars, sessionVars, historyVars>>
    BY <1>5 DEF AskRevoke, LetIn
  <2> HIDE DEF r
  <2> QED
    BY <2>2, <2>3, AloneStart
<1>6. ASSUME NEW c \in Clients, Serve(c) PROVE AloneInv'
  <2> DEFINE u == request[c].member
  <2>1. /\ request[c] \in AccountRequests
        /\ request[c].step # "idle" => u \in Members
    BY <1>a DEF AccountsTypeInv, AccountsTypeOK, Identified
  \* No other request is about this account.
  <2>2. ASSUME NEW d \in Clients, d # c, request[c].step # "idle",
               request[d].step # "idle"
        PROVE  request[d].member # u
    BY <2>2 DEF AloneInv, OneAtATime
  <2>3. ASSUME NEW k \in RequestSteps, Continue(c, k)
        PROVE  request'[c].step = k /\ request'[c].member = u
               /\ \A d \in Clients \ {c} : request'[d] = request[d]
    BY <2>3 DEF Continue, AccountsTypeInv, AccountsTypeOK, AccountRequests
  <2>4. ASSUME End(c)
        PROVE  request'[c] = NoRequest /\ request'[c].step = "idle"
               /\ \A d \in Clients \ {c} : request'[d] = request[d]
    BY <2>4 DEF End, NoRequest, AccountsTypeInv, AccountsTypeOK
  <2>5. CASE CreateRow(c)
    <3>1. CASE End(c) /\ UNCHANGED <<rows, gone, attempts, locked, twoFactor,
                                     secret, historyVars>>
      BY <2>5, <3>1, <1>a, AloneGoesOn DEF CreateRow, historyVars, sessionVars
    <3>2. CASE u \notin rows /\ NewRow(u) /\ Continue(c, "logging")
      <4>1. u \in Members /\ u \notin gone
        BY <2>5, <1>a DEF CreateRow, Identified
      <4>2. request'[c].step = "logging" /\ request'[c].member = u
            /\ \A d \in Clients \ {c} : request'[d] = request[d]
        BY <2>3, <3>2 DEF RequestSteps
      <4> QED
        BY <2>5, <3>2, <4>1, <4>2, <1>c DEF CreateRow, sessionVars
    <3> QED
      BY <2>5, <3>1, <3>2 DEF CreateRow
  <2>6. CASE LogRegistration(c)
    BY <2>6, <1>a, <1>b, AloneGoesOn
       DEF LogRegistration, userVars, sessionVars, historyVars
  <2>7. CASE Grant(c)
    <3>1. CASE Fail(c)
      BY <3>1, <1>b
    <3>2. CASE ~Fail(c)
      <4>1. PICK s \in SessionIds \ issued : session' = [session EXCEPT ![s] = u]
        BY <2>7, <3>2 DEF Grant
      <4>2. /\ u \in Members /\ session[s] = NoMember
            /\ \A t \in SessionIds : session[t] # NoMember => session'[t] = session[t]
            /\ session'[s] = u
        BY <2>7, <2>1, <4>1 DEF Grant, AccountsTypeInv, AccountsTypeOK
      <4>3. /\ UNCHANGED <<rows, gone, locked, attempts, streak, twoFactor, redone,
                           secret, confirmed>>
            /\ seated' = seated \cup {u} /\ End(c)
        BY <2>7, <3>2 DEF Grant, userVars
      <4>4. NoMember \notin Members /\ rows \subseteq Members
        BY AccountsAssumption DEF AccountsTypeInv, AccountsTypeOK
      <4>7. \A d \in Clients : request[d].own \in SessionIds \cup {NoSession}
        BY DEF AccountsTypeInv, AccountsTypeOK, AccountRequests
      <4>5. Present'
        BY <1>a, <2>4, <4>2, <4>3, <4>4, <4>7 DEF AloneInv, Present, Identified
      <4>6. OneAtATime' /\ Counted' /\ Confirmed'
        BY <2>4, <4>3 DEF AloneInv, OneAtATime, Counted, Confirmed
      <4> QED
        BY <4>5, <4>6 DEF AloneInv
    <3> QED
      BY <3>1, <3>2
  <2>8. CASE WrongPassword(c)
    <3> DEFINE n == request[c].attempts + 1
               lock == n >= MaxAttempts
    <3>1. /\ request[c].step = "comparing" /\ u \in rows /\ End(c)
          /\ attempts' = [attempts EXCEPT ![u] = IF lock THEN 0 ELSE n]
          /\ locked' = IF lock THEN locked \cup {u} ELSE locked \ {u}
          /\ streak' = [streak EXCEPT ![u] = @ + 1]
          /\ UNCHANGED <<rows, gone, twoFactor, redone, secret, confirmed, seated,
                         session>>
      BY <2>8 DEF WrongPassword, sessionVars
    <3>2. /\ u \notin locked /\ request[c].attempts = attempts[u]
          /\ attempts[u] = streak[u]
      BY <3>1 DEF AloneInv, Counted
    <3>3. /\ attempts[u] \in 0..(MaxAttempts - 1) /\ MaxAttempts \in Nat
          /\ attempts \in [Members -> 0..(MaxAttempts - 1)]
          /\ streak \in [Members -> Nat] /\ u \in Members /\ rows \subseteq Members
      BY <2>1, <3>1, AccountsAssumption DEF AccountsTypeInv, AccountsTypeOK
    <3>4. /\ attempts'[u] = (IF lock THEN 0 ELSE n) /\ streak'[u] = n
          /\ \A v \in rows \ {u} : /\ attempts'[v] = attempts[v]
                                   /\ streak'[v] = streak[v]
                                   /\ v \in locked' <=> v \in locked
          /\ u \in locked' <=> lock
      BY <3>1, <3>2, <3>3
    <3>5. lock => n = MaxAttempts
      BY <3>2, <3>3
    <3> HIDE DEF n, lock
    <3>6. IF u \in locked' THEN attempts'[u] = 0 /\ streak'[u] = MaxAttempts
                          ELSE attempts'[u] = streak'[u]
      BY <3>4, <3>5
    <3>7. Counted'
      BY <2>2, <2>4, <3>1, <3>4, <3>6 DEF AloneInv, Counted
    <3>8. OneAtATime' /\ Confirmed' /\ Present'
      BY <2>4, <3>1 DEF AloneInv, OneAtATime, Confirmed, Present
    <3> QED
      BY <3>7, <3>8 DEF AloneInv
  <2>9. CASE RightPassword(c)
    BY <2>9, <1>a, AloneGoesOn
       DEF RightPassword, userVars, historyVars
  <2>10. CASE SignIn(c)
    <3>1. /\ request[c].step = "signingIn" /\ u \in rows
          /\ attempts' = [attempts EXCEPT ![u] = 0] /\ streak' = [streak EXCEPT ![u] = 0]
          /\ locked' = locked \ {u}
          /\ UNCHANGED <<rows, gone, twoFactor, redone, secret, confirmed, seated,
                         session>>
      BY <2>10 DEF SignIn, sessionVars
    <3>2. request'[c].step = "granting" /\ request'[c].member = u
          /\ \A d \in Clients \ {c} : request'[d] = request[d]
      BY <2>10, <2>3 DEF SignIn, RequestSteps
    <3>3. Counted'
      BY <2>2, <3>1, <3>2 DEF AloneInv, Counted, AccountsTypeInv, AccountsTypeOK
    <3>4. OneAtATime' /\ Confirmed' /\ Present'
      BY <3>1, <3>2 DEF AloneInv, OneAtATime, Confirmed, Present
    <3> QED
      BY <3>3, <3>4 DEF AloneInv
  <2>11. CASE LoginFails(c)
    BY <2>11, <1>b DEF LoginFails
  <2>12. CASE Setup(c)
    <3>1. CASE Fail(c)
      BY <3>1, <1>b
    <3>2. CASE ~Fail(c)
      <4>1. /\ request[c].step = "settingUp" /\ u \in rows /\ End(c)
            /\ redone' = IF u \in twoFactor THEN redone \cup {u} ELSE redone
            /\ UNCHANGED <<rows, gone, attempts, locked, streak, twoFactor, confirmed,
                           seated, session>>
        BY <2>12, <3>2 DEF Setup, sessionVars
      <4>2. \A v \in rows \ {u} : secret'[v] = secret[v]
        BY <2>12, <3>2 DEF Setup, AccountsTypeInv, AccountsTypeOK
      <4>3. Confirmed'
        BY <2>2, <2>4, <4>1, <4>2 DEF AloneInv, Confirmed
      <4>4. OneAtATime' /\ Counted' /\ Present'
        BY <2>4, <4>1 DEF AloneInv, OneAtATime, Counted, Present
      <4> QED
        BY <4>3, <4>4 DEF AloneInv
    <3> QED
      BY <3>1, <3>2
  <2>13. CASE Enable(c)
    <3>1. /\ request[c].step = "enabling" /\ u \in rows
          /\ confirmed' = [confirmed EXCEPT ![u] = request[c].secret]
          /\ twoFactor' = twoFactor \cup {u} /\ redone' = redone \ {u}
          /\ UNCHANGED <<rows, gone, attempts, locked, streak, secret, seated,
                         session>>
      BY <2>13 DEF Enable, sessionVars
    <3>2. request'[c].step = "signingIn" /\ request'[c].member = u
          /\ \A d \in Clients \ {c} : request'[d] = request[d]
      BY <2>13, <2>3 DEF Enable, RequestSteps
    <3>3. /\ confirmed'[u] = secret[u] /\ secret[u] # NoSecret
          /\ \A v \in rows \ {u} : confirmed'[v] = confirmed[v]
      BY <3>1 DEF AloneInv, Confirmed, AccountsTypeInv, AccountsTypeOK
    <3>4. Confirmed'
      BY <3>1, <3>2, <3>3 DEF AloneInv, Confirmed
    <3>5. OneAtATime' /\ Counted' /\ Present'
      BY <3>1, <3>2 DEF AloneInv, OneAtATime, Counted, Present
    <3> QED
      BY <3>4, <3>5 DEF AloneInv
  <2>14. CASE TurnOff(c)
    <3>1. CASE Fail(c)
      BY <3>1, <1>b
    <3>2. CASE ~Fail(c)
      <4>1. /\ request[c].step = "turningOff" /\ u \in rows /\ End(c)
            /\ twoFactor' = twoFactor \ {u} /\ redone' = redone \ {u}
            /\ secret' = [secret EXCEPT ![u] = NoSecret]
            /\ UNCHANGED <<rows, gone, attempts, locked, streak, confirmed, seated,
                           session>>
        BY <2>14, <3>2 DEF TurnOff, sessionVars
      <4>2. \A v \in rows \ {u} : secret'[v] = secret[v]
        BY <4>1 DEF AccountsTypeInv, AccountsTypeOK
      <4>3. Confirmed'
        BY <2>2, <2>4, <4>1, <4>2 DEF AloneInv, Confirmed
      <4>4. OneAtATime' /\ Counted' /\ Present'
        BY <2>4, <4>1 DEF AloneInv, OneAtATime, Counted, Present
      <4> QED
        BY <4>3, <4>4 DEF AloneInv
    <3> QED
      BY <3>1, <3>2
  \* A revocation leaves the session it was asked with, and those of others; one
  \* without a session unmarks the account when it takes the last.
  <2>15. ASSUME request[c].step = "revoking", End(c), UNCHANGED userVars,
                UNCHANGED <<streak, confirmed, redone>>,
                seated' = seated \/ seated' = seated \ {u},
                \A s \in SessionIds : session[s] # u => session'[s] = session[s],
                u \in rows /\ u \in seated' =>
                   \E s \in SessionIds : session[s] = u /\ session'[s] = session[s]
         PROVE  AloneInv'
    <3>1. UNCHANGED <<rows, gone, locked, attempts, streak, twoFactor, redone,
                      secret, confirmed>>
      BY <2>15 DEF userVars
    <3>2. \A d \in Clients \ {c} : request[d].step # "idle" => request[d].member # u
      BY <2>2, <2>15
    <3>3. \A d \in Clients : request[d] \in AccountRequests
      BY DEF AccountsTypeInv, AccountsTypeOK
    <3>4. Present'
      <4>1. ASSUME NEW v \in rows, v \in seated'
            PROVE  \E s \in SessionIds : session'[s] = v
        <5>1. CASE v = u
          BY <2>15, <4>1, <5>1
        <5>2. CASE v # u
          <6>1. v \in seated
            BY <2>15, <4>1
          <6>2. PICK s \in SessionIds : session[s] = v
            BY <4>1, <6>1 DEF AloneInv, Present
          <6> QED
            BY <2>15, <5>2, <6>2
        <5> QED
          BY <5>1, <5>2
      <4>2. ASSUME NEW d \in Clients \ {c}, request[d].step = "revoking",
                   request[d].member \in rows
            PROVE  /\ request[d].own # request[d].target
                   /\ request[d].own # NoSession =>
                         session'[request[d].own] = request[d].member
        <5>1. request[d].own \in SessionIds \cup {NoSession}
          BY <3>3 DEF AccountRequests
        <5> QED
          BY <2>15, <3>2, <4>2, <5>1 DEF AloneInv, Present
      <4> QED
        BY <2>4, <2>15, <3>1, <4>1, <4>2 DEF Present
    <3>5. OneAtATime' /\ Counted' /\ Confirmed'
      BY <2>4, <2>15, <3>1 DEF AloneInv, OneAtATime, Counted, Confirmed
    <3> QED
      BY <3>4, <3>5 DEF AloneInv
  <2>16. CASE RevokeOthers(c)
    <3>1. /\ request[c].step = "revoking" /\ request[c].target = NoSession
          /\ End(c) /\ UNCHANGED <<userVars, streak, confirmed, redone, seated>>
      BY <2>16 DEF RevokeOthers, historyVars
    <3>2. \A s \in SessionIds : session[s] # u \/ s = request[c].own =>
             session'[s] = session[s]
      BY <2>16 DEF RevokeOthers
    <3>3. u \in rows => /\ request[c].own \in SessionIds
                        /\ session[request[c].own] = u
      BY <2>1, <3>1 DEF AloneInv, Present, AccountRequests
    <3> QED
      BY <2>15, <3>1, <3>2, <3>3
  <2>17. CASE RevokeSession(c)
    <3>1. /\ request[c].step = "revoking" /\ request[c].target \in SessionIds
          /\ End(c) /\ UNCHANGED <<userVars, streak, confirmed, redone>>
          /\ seated' = seated \/ seated' = seated \ {u}
          /\ u \in seated' => \/ u \in seated /\ request[c].own # NoSession
                              \/ u \in seated /\ SessionsOf(u) # {request[c].target}
      BY <2>1, <2>17 DEF RevokeSession, AccountRequests
    <3>2. \A s \in SessionIds : session[s] # u \/ s # request[c].target =>
             session'[s] = session[s]
      BY <2>17 DEF RevokeSession, AccountsTypeInv, AccountsTypeOK
    <3>3. ASSUME u \in rows, u \in seated'
          PROVE  \E s \in SessionIds : session[s] = u /\ s # request[c].target
      <4>1. CASE request[c].own # NoSession
        BY <2>1, <3>1, <3>3, <4>1 DEF AloneInv, Present, AccountRequests
      <4>2. CASE SessionsOf(u) # {request[c].target}
        <5>1. u \in seated
          BY <3>1, <3>3
        <5>2. PICK s \in SessionIds : session[s] = u
          BY <3>3, <5>1 DEF AloneInv, Present
        <5> QED
          BY <4>2, <5>2 DEF SessionsOf
      <4> QED
        BY <3>1, <3>3, <4>1, <4>2
    <3> QED
      BY <2>15, <3>1, <3>2, <3>3
  <2>18. CASE RevokeFails(c)
    BY <2>18, <1>a, AloneGoesOn DEF RevokeFails, userVars, sessionVars, historyVars
  <2> QED
    BY <1>6, <2>5, <2>6, <2>7, <2>8, <2>9, <2>10, <2>11, <2>12, <2>13, <2>14,
       <2>16, <2>17, <2>18 DEF Serve
<1>7. ASSUME NEW u \in Members, LockEnds(u) PROVE AloneInv'
  <2>1. /\ u \in locked /\ locked' = locked \ {u}
        /\ streak' = [streak EXCEPT ![u] = 0]
        /\ UNCHANGED <<rows, gone, attempts, twoFactor, redone, secret, confirmed,
                       seated, session, request>>
    BY <1>7 DEF LockEnds, sessionVars
  <2>2. Counted'
    BY <2>1 DEF AloneInv, Counted, AccountsTypeInv, AccountsTypeOK
  <2>3. OneAtATime' /\ Confirmed' /\ Present'
    BY <2>1 DEF AloneInv, OneAtATime, Confirmed, Present
  <2> QED
    BY <2>2, <2>3 DEF AloneInv
<1>8. ASSUME NEW u \in Members, DropUser(u) PROVE AloneInv'
  <2>1. /\ rows' = rows \ {u} /\ locked' = locked \ {u} /\ twoFactor' = twoFactor \ {u}
        /\ \A s \in SessionIds : session[s] # u => session'[s] = session[s]
        /\ UNCHANGED <<attempts, streak, redone, secret, confirmed, seated, request>>
    BY <1>8 DEF DropUser, historyVars
  <2>2. \A c \in Clients : request[c].own \in SessionIds \cup {NoSession}
    BY DEF AccountsTypeInv, AccountsTypeOK, AccountRequests
  <2> QED
    BY <2>1, <2>2 DEF AloneInv, OneAtATime, Counted, Confirmed, Present
<1>9. ASSUME NEW u \in Members, NEW s \in BOOLEAN, createUser(u, s) PROVE AloneInv'
  BY <1>9, <1>c DEF createUser, sessionVars
<1>10. ASSUME NEW u \in Members, NEW s \in BOOLEAN, updateUser(u, s) PROVE AloneInv'
  BY <1>10 DEF updateUser, sessionVars, historyVars, AloneInv, OneAtATime, Counted,
               Confirmed, Present
<1>11. CASE AccountsCrash
  <2>1. \A c \in Clients : request'[c].step = "idle"
    BY <1>11 DEF AccountsCrash, NoRequest
  <2> QED
    BY <1>11, <2>1 DEF AccountsCrash, userVars, sessionVars, historyVars,
                       AloneInv, OneAtATime, Counted, Confirmed, Present
<1> QED
  BY <1>1, <1>2, <1>3, <1>4, <1>5, <1>6, <1>7, <1>8, <1>9, <1>10, <1>11
     DEF AccountsNext, AskSetup, AskTurnOff, AskRevokeOthers

\* No step changes the environment.
LEMMA SameRegime ==
    ASSUME AccountsNext
    PROVE  regime' = regime
<1>1. \A c \in Clients, u \in Members :
         AskRegister(c, u) \/ AskLogin(c, u) => regime' = regime
  BY DEF AskRegister, AskLogin
<1>2. \A c \in Clients, u \in Members, b \in BOOLEAN : AskVerify(c, u, b) => regime' = regime
  BY DEF AskVerify
<1>3. \A c \in Clients, u \in Members :
         AskSetup(c, u) \/ AskTurnOff(c, u) => regime' = regime
  BY DEF AskSetup, AskTurnOff
<1>4. \A c \in Clients, u \in Members, s, t \in SessionIds \cup {NoSession} :
         AskRevoke(c, u, s, t) => regime' = regime
  BY DEF AskRevoke
<1>5. \A c \in Clients, u \in Members, s \in SessionIds \cup {NoSession} :
         AskRevokeOthers(c, u, s) => regime' = regime
  BY <1>4 DEF AskRevokeOthers
<1>6. \A c \in Clients : Serve(c) => regime' = regime
  <2> SUFFICES ASSUME NEW c \in Clients, Serve(c) PROVE regime' = regime
    OBVIOUS
  <2>1. CreateRow(c) \/ LogRegistration(c) \/ Grant(c) => regime' = regime
    BY DEF CreateRow, LogRegistration, Fail, Grant
  <2>2. WrongPassword(c) \/ RightPassword(c) => regime' = regime
    BY DEF WrongPassword, RightPassword
  <2>3. SignIn(c) \/ LoginFails(c) => regime' = regime
    BY DEF SignIn, LoginFails, Fail
  <2>4. Setup(c) \/ Enable(c) \/ TurnOff(c) => regime' = regime
    BY DEF Setup, Enable, TurnOff, Fail
  <2>5. RevokeOthers(c) \/ RevokeSession(c) \/ RevokeFails(c) => regime' = regime
    BY DEF RevokeOthers, RevokeSession, RevokeFails
  <2> QED
    BY <2>1, <2>2, <2>3, <2>4, <2>5 DEF Serve
<1>7. \A u \in Members :
         /\ LockEnds(u) \/ DropUser(u) => regime' = regime
         /\ \A s \in BOOLEAN : createUser(u, s) \/ updateUser(u, s) => regime' = regime
  BY DEF LockEnds, DropUser, createUser, updateUser
<1>8. AccountsCrash => regime' = regime
  BY DEF AccountsCrash
<1> QED
  BY <1>1, <1>2, <1>3, <1>4, <1>5, <1>6, <1>7, <1>8 DEF AccountsNext
-----------------------------------------------------------------------------

\* Without overlapping requests about one account, and whatever queries fail,
\* nobody is locked out before MaxAttempts failures in a row or loses the secret
\* the second factor was switched on with, and the last session of an account is
\* taken only by a request that has none itself.
THEOREM NobodyShutOut == AccountsSpec => []NotShutOut
<1>1. AccountsInit => AccountsInv
  <2> SUFFICES ASSUME AccountsInit PROVE AccountsInv
    OBVIOUS
  <2>1. 0 \in 0..(MaxAttempts - 1)
    BY AccountsAssumption
  <2>2. NoRequest \in AccountRequests /\ NoRequest.step = "idle"
    BY <2>1 DEF NoRequest, AccountRequests, RequestSteps
  <2>3. AccountsTypeInv
    BY <2>1, <2>2, AccountsAssumption
       DEF AccountsInit, AccountsTypeInv, AccountsTypeOK, Identified
  <2>4. AloneInv
    BY <2>2 DEF AccountsInit, AloneInv, OneAtATime, Counted, Confirmed, Present
  <2> QED
    BY <2>3, <2>4 DEF AccountsInv
<1>2. AccountsInv /\ [AccountsNext]_accountsVars => AccountsInv'
  <2> SUFFICES ASSUME AccountsInv, [AccountsNext]_accountsVars PROVE AccountsInv'
    OBVIOUS
  <2>1. CASE UNCHANGED accountsVars
    BY <2>1 DEF accountsVars, userVars, sessionVars, historyVars, AccountsInv,
                AccountsTypeInv, AccountsTypeOK, Identified, AloneInv, OneAtATime, Counted,
                Confirmed, Present
  <2>2. CASE AccountsNext
    <3>1. AccountsTypeInv'
      BY <2>2, AccountsTypeStep DEF AccountsInv
    <3>2. regime' = regime
      BY <2>2, SameRegime
    <3> QED
      BY <2>2, <3>1, <3>2, AloneStep DEF AccountsInv
  <2> QED
    BY <2>1, <2>2
<1>3. AccountsInv => NotShutOut
  <2> SUFFICES ASSUME AccountsInv, ~regime.overlap, NEW u \in rows
               PROVE  /\ (u \in locked) <=> streak[u] >= MaxAttempts
                      /\ u \in twoFactor \ redone =>
                            secret[u] = confirmed[u] /\ secret[u] # NoSecret
                      /\ u \in seated => SessionsOf(u) # {}
    BY DEF NotShutOut
  <2>1. attempts[u] \in 0..(MaxAttempts - 1) /\ MaxAttempts \in Nat /\ streak[u] \in Nat
    BY AccountsAssumption DEF AccountsInv, AccountsTypeInv, AccountsTypeOK
  <2>2. IF u \in locked THEN streak[u] = MaxAttempts ELSE attempts[u] = streak[u]
    BY DEF AccountsInv, AloneInv, Counted
  <2>3. (u \in locked) <=> streak[u] >= MaxAttempts
    BY <2>1, <2>2
  <2> QED
    BY <2>3 DEF AccountsInv, AloneInv, Confirmed, Present, SessionsOf
<1> QED
  BY <1>1, <1>2, <1>3, PTL DEF AccountsSpec

-----------------------------------------------------------------------------
(***************************************************************************)
(* The host: its firewall and ssh daemon                                   *)
(***************************************************************************)

Rewriting == {"checking", "allowing", "restarting"}

\* Before any call, the rules and the ssh port are well typed.
LEMMA HostTypeStart == HostInit => HostTypeOK
  BY HostAssumption DEF HostInit, HostTypeOK, NoCall, Rules, CallSteps

\* Every call, command and reboot keeps them so.
LEMMA HostTypeStep == HostTypeOK /\ [HostNext]_hostVars => HostTypeOK'
<1> SUFFICES ASSUME HostTypeOK, [HostNext]_hostVars PROVE HostTypeOK'
  OBVIOUS
<1> USE HostAssumption DEF HostTypeOK, NoCall, Rules, CallSteps, Ask, Go, Return
<1>1. ASSUME NEW a \in Admins, CommandFails(a) PROVE HostTypeOK'
  BY <1>1 DEF CommandFails
<1>2. ASSUME NEW a \in Admins, AskEnable(a) PROVE HostTypeOK'
  BY <1>2 DEF AskEnable
<1>3. ASSUME NEW a \in Admins, AllowSsh(a) PROVE HostTypeOK'
  BY <1>3 DEF AllowSsh
<1>4. ASSUME NEW a \in Admins, EnableUfw(a) PROVE HostTypeOK'
  BY <1>4 DEF EnableUfw
<1>5. ASSUME NEW a \in Admins, AskDisable(a) PROVE HostTypeOK'
  BY <1>5 DEF AskDisable
<1>6. ASSUME NEW a \in Admins, DisableUfw(a) PROVE HostTypeOK'
  BY <1>6 DEF DisableUfw
<1>7. ASSUME NEW a \in Admins, NEW p \in SshPorts, AskDelete(a, p)
      PROVE HostTypeOK'
  BY <1>7 DEF AskDelete
<1>8. ASSUME NEW a \in Admins, DeleteRule(a) PROVE HostTypeOK'
  BY <1>8 DEF DeleteRule
<1>9. ASSUME NEW a \in Admins, NEW p \in SshPorts, AskSshPort(a, p)
      PROVE HostTypeOK'
  <2>1. call' = [call EXCEPT ![a] = [step |-> "checking", port |-> p]]
    BY <1>9 DEF AskSshPort
  <2>2. /\ policy' = policy /\ configPort' = p /\ applied' = FALSE
        /\ sshdPort' = sshdPort /\ ufwEnabled' = ufwEnabled /\ rules' = rules
    BY <1>9 DEF AskSshPort
  <2>3. called' \in 0..policy.calls
    BY <1>9 DEF AskSshPort
  <2> QED
    BY <2>1, <2>2, <2>3
<1>10. ASSUME NEW a \in Admins, CheckUfw(a) PROVE HostTypeOK'
  BY <1>10 DEF CheckUfw
<1>11. ASSUME NEW a \in Admins, AllowNewPort(a) PROVE HostTypeOK'
  BY <1>11 DEF AllowNewPort
<1>12. ASSUME NEW a \in Admins, RestartSsh(a) PROVE HostTypeOK'
  BY <1>12 DEF RestartSsh
<1>13. ASSUME NEW p \in SshPorts, addUfwRule(p) PROVE HostTypeOK'
  BY <1>13 DEF addUfwRule
<1>14. CASE Reboot
  BY <1>14 DEF Reboot
<1>15. CASE UNCHANGED hostVars
  BY <1>15 DEF hostVars
<1> QED
  BY <1>1, <1>2, <1>3, <1>4, <1>5, <1>6, <1>7, <1>8, <1>9, <1>10, <1>11,
     <1>12, <1>13, <1>14, <1>15 DEF HostNext

\* Type correctness: every port a call, a rule or a file holds is one of
\* SshPorts.
THEOREM HostTypeCorrect == HostSpec => []HostTypeOK
  BY HostTypeStart, HostTypeStep, PTL DEF HostSpec

(***************************************************************************)
(* The inductive invariant.  SshReachable speaks of the port sshd listens  *)
(* on, the service of the one in the file, so the invariant says when they *)
(* agree, and what the call in progress has read and done.                 *)
(***************************************************************************)

OneCall ==
    \A a, b \in Admins : call[a] # NoCall /\ call[b] # NoCall => a = b

FileAgrees ==
    applied => sshdPort = configPort /\ \A a \in Admins : call[a].step \notin Rewriting

ChangeInProgress ==
    ~MayFail("command") /\ ~applied => \E a \in Admins : call[a].step \in Rewriting

Through ==
    (applied \/ ~MayFail("command")) /\ ufwEnabled => Allowed(sshdPort)

CallKnows ==
    \A a \in Admins :
        /\ call[a].step \in Rewriting \cup {"opening", "enabling"} =>
              call[a].port = configPort
        /\ call[a].step = "deleting" => call[a].port # configPort
        /\ call[a].step = "enabling" => Allowed(configPort)
        /\ call[a].step = "restarting" /\ ufwEnabled => Allowed(configPort)

CarefulInv == OneCall /\ FileAgrees /\ ChangeInProgress /\ Through /\ CallKnows

HostInv == HostTypeOK /\ (Careful => CarefulInv)

\* Every call keeps the invariant.
LEMMA CarefulStep ==
    ASSUME HostTypeOK, Careful, CarefulInv, HostNext
    PROVE  CarefulInv'
<1> USE HostAssumption DEF HostTypeOK, Careful, MayFail, CarefulInv, OneCall,
        FileAgrees, ChangeInProgress, Through, CallKnows, Rewriting, Allowed,
        NoCall, Ask, Go, Return
<1>1. ASSUME NEW a \in Admins, CommandFails(a) PROVE CarefulInv'
  BY <1>1 DEF CommandFails
<1>2. ASSUME NEW a \in Admins, AskEnable(a) PROVE CarefulInv'
  BY <1>2 DEF AskEnable
<1>3. ASSUME NEW a \in Admins, AllowSsh(a) PROVE CarefulInv'
  <2>1. /\ call[a].step = "opening" /\ call[a].port = configPort
        /\ configPort \in SshPorts
        /\ rules' = rules \cup {<<configPort, "any">>}
        /\ call' = [call EXCEPT ![a].step = "enabling"]
        /\ UNCHANGED <<policy, sshdPort, configPort, ufwEnabled, applied>>
    BY <1>3 DEF AllowSsh
  <2> HIDE <1>3
  <2>2. Allowed(configPort)'
    BY <2>1
  <2>3. \A p \in SshPorts \cup {NoSshPort} : Allowed(p) => Allowed(p)'
    BY <2>1
  <2>4. /\ call'[a].step = "enabling" /\ call'[a].port = call[a].port
        /\ \A b \in Admins \ {a} : call'[b] = call[b]
    BY <2>1
  <2>5. \A b \in Admins \ {a} : call[b] = NoCall
    BY <2>1
  <2>6. OneCall'
    BY <2>4, <2>5
  <2>7. FileAgrees' /\ ChangeInProgress'
    BY <2>1, <2>4
  <2>8. Through'
    BY <2>1, <2>3
  <2>9. CallKnows'
    BY <2>1, <2>2, <2>4, <2>5
  <2> QED
    BY <2>6, <2>7, <2>8, <2>9
<1>4. ASSUME NEW a \in Admins, EnableUfw(a) PROVE CarefulInv'
  BY <1>4 DEF EnableUfw
<1>5. ASSUME NEW a \in Admins, AskDisable(a) PROVE CarefulInv'
  BY <1>5 DEF AskDisable
<1>6. ASSUME NEW a \in Admins, DisableUfw(a) PROVE CarefulInv'
  BY <1>6 DEF DisableUfw
<1>7. ASSUME NEW a \in Admins, NEW p \in SshPorts, AskDelete(a, p) PROVE CarefulInv'
  BY <1>7 DEF AskDelete
<1>8. ASSUME NEW a \in Admins, DeleteRule(a) PROVE CarefulInv'
  BY <1>8 DEF DeleteRule
<1>9. ASSUME NEW a \in Admins, NEW p \in SshPorts, AskSshPort(a, p) PROVE CarefulInv'
  BY <1>9 DEF AskSshPort
<1>10. ASSUME NEW a \in Admins, CheckUfw(a) PROVE CarefulInv'
  BY <1>10 DEF CheckUfw
<1>11. ASSUME NEW a \in Admins, AllowNewPort(a) PROVE CarefulInv'
  <2>1. /\ call[a].step = "allowing" /\ call[a].port = configPort
        /\ configPort \in SshPorts
        /\ rules' = rules \cup {<<configPort, "tcp">>}
        /\ call' = [call EXCEPT ![a].step = "restarting"]
        /\ UNCHANGED <<policy, sshdPort, configPort, ufwEnabled, applied>>
    BY <1>11 DEF AllowNewPort
  <2> HIDE <1>11
  <2>2. Allowed(configPort)'
    BY <2>1
  <2>3. \A p \in SshPorts \cup {NoSshPort} : Allowed(p) => Allowed(p)'
    BY <2>1
  <2>4. /\ call'[a].step = "restarting" /\ call'[a].port = call[a].port
        /\ \A b \in Admins \ {a} : call'[b] = call[b]
    BY <2>1
  <2>5. \A b \in Admins \ {a} : call[b] = NoCall
    BY <2>1
  <2>6. OneCall'
    BY <2>4, <2>5
  <2>7. FileAgrees' /\ ChangeInProgress'
    BY <2>1, <2>4
  <2>8. Through'
    BY <2>1, <2>3
  <2>9. CallKnows'
    BY <2>1, <2>2, <2>4, <2>5
  <2> QED
    BY <2>6, <2>7, <2>8, <2>9
<1>12. ASSUME NEW a \in Admins, RestartSsh(a) PROVE CarefulInv'
  BY <1>12 DEF RestartSsh
<1>13. ASSUME NEW p \in SshPorts, addUfwRule(p) PROVE CarefulInv'
  BY <1>13 DEF addUfwRule
<1>14. CASE Reboot
  BY <1>14 DEF Reboot
<1> QED
  BY <1>1, <1>2, <1>3, <1>4, <1>5, <1>6, <1>7,
     <1>8, <1>9, <1>10, <1>11, <1>12, <1>13, <1>14 DEF HostNext

\* A careful sequence of calls to toggleUfw, addUfwRule, deleteUfwRule and
\* updateSshConfig, with any number of ports and calls, never shuts ssh out.
THEOREM StaysReachable == HostSpec => []SshReachable
<1>1. HostInit => HostInv
  <2> SUFFICES ASSUME HostInit PROVE HostInv
    OBVIOUS
  <2>1. HostTypeOK
    BY HostAssumption DEF HostInit, HostTypeOK, NoCall, Rules, CallSteps
  <2>2. CarefulInv
    BY DEF HostInit, CarefulInv, OneCall, FileAgrees, ChangeInProgress, Through,
           CallKnows, Rewriting, Allowed, NoCall
  <2> QED
    BY <2>1, <2>2 DEF HostInv
<1>2. HostTypeOK /\ HostTypeOK' /\ HostInv /\ [HostNext]_hostVars => HostInv'
  <2> SUFFICES ASSUME HostTypeOK, HostTypeOK', HostInv, [HostNext]_hostVars, Careful'
               PROVE  CarefulInv'
    BY DEF HostInv
  <2>1. CASE UNCHANGED hostVars
    <3>1. Careful /\ CarefulInv
      BY <2>1 DEF hostVars, Careful, MayFail, HostInv
    <3> QED
      BY <2>1, <3>1 DEF hostVars, CarefulInv, OneCall, FileAgrees, ChangeInProgress,
                        Through, CallKnows, Allowed, MayFail
  <2>2. CASE HostNext
    <3>1. policy' = policy
      BY <2>2 DEF HostNext, CommandFails, AskEnable, AllowSsh, EnableUfw, AskDisable,
                  DisableUfw, AskDelete, DeleteRule, AskSshPort, CheckUfw,
                  AllowNewPort, RestartSsh, addUfwRule, Reboot
    <3>2. Careful
      BY <3>1 DEF Careful, MayFail
    <3> QED
      BY <2>2, <3>2, CarefulStep DEF HostInv
  <2> QED
    BY <2>1, <2>2
<1>3. HostInv => SshReachable
  BY DEF HostInv, CarefulInv, Through, SshReachable
<1> QED
  BY <1>1, <1>2, <1>3, HostTypeCorrect, PTL DEF HostSpec

-----------------------------------------------------------------------------
(***************************************************************************)
(* The three parts                                                         *)
(***************************************************************************)

\* Whichever part is at work, the rows, jobs, sessions and rules of all three
\* stay well typed.
THEOREM PlatformTypeCorrect == PlatformSpec => []AllRowsTypeOK
<1> DEFINE I == TypeInv /\ AccountsTypeInv /\ HostTypeOK
<1>1. PlatformInit => I
  BY RoutesTypeInit, AccountsTypeStart, HostTypeStart DEF PlatformInit
<1>2. I /\ [PlatformNext]_platformVars => I'
  <2> SUFFICES ASSUME I, [PlatformNext]_platformVars PROVE I'
    OBVIOUS
  <2>1. (RoutesNext \/ UNCHANGED routesVars) /\ [AccountsNext]_accountsVars /\ [HostNext]_hostVars
    BY DEF PlatformNext, platformVars
  <2>2. TypeInv'
    <3>1. UNCHANGED routesVars => TypeInv'
      BY DEF TypeInv, RoutesTypeOK, Named, routesVars, rowVars, dockerVars, routeVars
    <3> QED
      BY <2>1, <3>1, RoutesTypeStep
  <2>3. AccountsTypeInv' /\ HostTypeOK'
    BY <2>1, AccountsTypeGoesOn, HostTypeStep
  <2> QED
    BY <2>2, <2>3
<1>3. I => AllRowsTypeOK
  BY DEF AllRowsTypeOK, TypeInv, AccountsTypeInv
<1> QED
  BY <1>1, <1>2, <1>3, PTL DEF PlatformSpec
=============================================================================
