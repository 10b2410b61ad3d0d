------------------------------ MODULE Accounts ------------------------------
(***************************************************************************)
(* Accounts: registration, sign-in with its counter of failed attempts and *)
(* its lock, the second factor and the sessions (auth.service.ts,          *)
(* sessions.controller.ts, jwt.strategy.ts, admin-users.service.ts).       *)
(* Every account has an address of its own.                                *)
(***************************************************************************)
EXTENDS Integers, FiniteSets

CONSTANTS Members,         \* accounts
          Clients,         \* requests in progress at the same time
          SessionIds,      \* bounds the number of sessions ever granted
          NoMember, NoSession,
          Secrets,         \* secrets of a second factor
          NoSecret,
          MaxAttempts,     \* the setting loginAttempts
          Regimes          \* environments: see regime

ASSUME AccountsAssumption ==
    /\ MaxAttempts \in Nat \ {0}
    /\ NoMember \notin Members
    /\ NoSession \notin SessionIds
    /\ NoSecret \notin Secrets
    /\ \A r \in Regimes : r.requests \in Nat

VARIABLES
    regime,      \* [overlap, requests, faults]: what the environment does
    made,        \* number of requests made
    rows,        \* accounts with a row in users
    gone,        \* accounts whose row was deleted; one does not come back
    suspended,   \* those with the status SUSPENDED
    attempts,    \* column failedLoginAttempts
    locked,      \* accounts whose lockoutUntil lies in the future
    twoFactor,   \* accounts with isTwoFactorEnabled
    secret,      \* column twoFactorSecret
    tokens,      \* accounts a token was ever signed for
    temporary,   \* those of them whose token was a temporary one of login,
                 \* which names no session
    session,     \* the account of the row of a session
    issued,      \* ids of sessions used up
    request,     \* request[c]: what c does and has read
    streak,      \* failed logins since the last sign-in or the end of a lock
    confirmed,   \* the secret that 2FA was last switched on with
    redone,      \* accounts that asked for a new secret with 2FA on
    seated       \* accounts granted a session, until a request that had none
                 \* revoked their last

userVars == <<rows, gone, suspended, attempts, locked, twoFactor, secret>>
sessionVars == <<tokens, temporary, session, issued>>
historyVars == <<streak, confirmed, redone, seated>>
accountsVars == <<regime, made, userVars, sessionVars, request, historyVars>>

RequestSteps == {"idle", "creating", "logging", "comparing", "enabling",
                 "signingIn", "granting", "settingUp", "turningOff", "revoking"}

AccountRequests ==
    [step : RequestSteps,
     member : Members \cup {NoMember},
     attempts : 0..(MaxAttempts - 1),      \* as read by login
     twoFactor : BOOLEAN,
     secret : Secrets \cup {NoSecret},     \* as read by verify2fa
     own : SessionIds \cup {NoSession},    \* the session of the request, if any
     target : SessionIds \cup {NoSession}] \* a session to be revoked

NoRequest ==
    [step |-> "idle", member |-> NoMember, attempts |-> 0, twoFactor |-> FALSE,
     secret |-> NoSecret, own |-> NoSession, target |-> NoSession]

AccountsTypeOK ==
    /\ made \in 0..regime.requests
    /\ rows \subseteq Members /\ gone \subseteq Members \ rows
    /\ suspended \subseteq rows /\ locked \subseteq rows
    /\ twoFactor \subseteq rows
    /\ attempts \in [Members -> 0..(MaxAttempts - 1)]
    /\ secret \in [Members -> Secrets \cup {NoSecret}]
    /\ temporary \subseteq tokens /\ tokens \subseteq Members
    /\ session \in [SessionIds -> Members \cup {NoMember}]
    /\ issued \subseteq SessionIds
    /\ \A s \in SessionIds : session[s] # NoMember =>
          s \in issued /\ session[s] \in rows
    /\ request \in [Clients -> AccountRequests]
    /\ streak \in [Members -> Nat]
    /\ confirmed \in [Members -> Secrets \cup {NoSecret}]
    /\ redone \subseteq Members /\ seated \subseteq Members

AccountsInit ==
    /\ regime \in Regimes
    /\ made = 0
    /\ rows = {} /\ gone = {} /\ suspended = {} /\ locked = {} /\ twoFactor = {}
    /\ attempts = [u \in Members |-> 0]
    /\ secret = [u \in Members |-> NoSecret]
    /\ tokens = {} /\ temporary = {}
    /\ session = [s \in SessionIds |-> NoMember]
    /\ issued = {}
    /\ request = [c \in Clients |-> NoRequest]
    /\ streak = [u \in Members |-> 0]
    /\ confirmed = [u \in Members |-> NoSecret]
    /\ redone = {} /\ seated = {}

-----------------------------------------------------------------------------

Faulty(f) == f \in regime.faults

SessionsOf(u) == {s \in SessionIds : session[s] = u}

\* A request is made.  Without overlap, one at a time for an account.
Start(c, r) ==
    /\ request[c] = NoRequest
    /\ made < regime.requests /\ made' = made + 1
    /\ regime.overlap \/ \A d \in Clients : request[d].member # r.member
    /\ request' = [request EXCEPT ![c] = r]

Continue(c, s) == request' = [request EXCEPT ![c].step = s]

End(c) == request' = [request EXCEPT ![c] = NoRequest]

RequestOf(u, s) == [NoRequest EXCEPT !.step = s, !.member = u]

\* The row a query is about is missing, or the query fails: the request does.
Fail(c) ==
    /\ request[c].member \notin rows \/ Faulty("db")
    /\ End(c)
    /\ UNCHANGED <<regime, made, userVars, sessionVars, historyVars>>

-----------------------------------------------------------------------------
(***************************************************************************)
(* Registration.                                                           *)
(***************************************************************************)

\* The address is new.
AskRegister(c, u) ==
    /\ u \notin rows \cup gone
    /\ Start(c, RequestOf(u, "creating"))
    /\ UNCHANGED <<regime, userVars, sessionVars, historyVars>>

NewRow(u) ==
    /\ rows' = rows \cup {u}
    /\ attempts' = [attempts EXCEPT ![u] = 0]
    /\ secret' = [secret EXCEPT ![u] = NoSecret]
    /\ streak' = [streak EXCEPT ![u] = 0]
    /\ confirmed' = [confirmed EXCEPT ![u] = NoSecret]
    /\ redone' = redone \ {u}
    /\ UNCHANGED <<gone, locked, twoFactor, seated>>

\* After the password is hashed; the index refuses a second row.
CreateRow(c) ==
    /\ request[c].step = "creating"
    /\ \/ /\ request[c].member \notin rows
          /\ NewRow(request[c].member)
          /\ Continue(c, "logging")
       \/ /\ request[c].member \in rows \/ Faulty("db")
          /\ End(c)
          /\ UNCHANGED <<rows, gone, attempts, locked, twoFactor, secret,
                         historyVars>>
    /\ UNCHANGED <<regime, made, suspended, sessionVars>>

\* The row stays when its log cannot be written.
LogRegistration(c) ==
    /\ request[c].step = "logging"
    /\ \/ /\ request[c].member \in rows
          /\ Continue(c, "granting")
          /\ UNCHANGED <<regime, made, userVars, sessionVars, historyVars>>
       \/ Fail(c)

\* generateToken: the row of a session, and a token with its id.
Grant(c) ==
    LET u == request[c].member IN
    /\ request[c].step = "granting"
    /\ \/ /\ u \in rows
          /\ \E s \in SessionIds \ issued :
                /\ session' = [session EXCEPT ![s] = u]
                /\ issued' = issued \cup {s}
          /\ tokens' = tokens \cup {u}
          /\ seated' = seated \cup {u}
          /\ End(c)
          /\ UNCHANGED <<regime, made, userVars, temporary, streak, confirmed,
                         redone>>
       \/ Fail(c)

-----------------------------------------------------------------------------
(***************************************************************************)
(* Sign-in.  login reads the row once; bcrypt.compare is awaited before    *)
(* the counter that was read is used.                                      *)
(***************************************************************************)

AskLogin(c, u) ==
    /\ u \in rows \ (suspended \cup locked)
    /\ Start(c, [RequestOf(u, "comparing") EXCEPT
                   !.attempts = attempts[u], !.twoFactor = u \in twoFactor])
    /\ UNCHANGED <<regime, userVars, sessionVars, historyVars>>

\* Mutant: the counter is not set back when the account is locked.
WrongPassword_KeepCount(c) ==
    LET u == request[c].member
        n == request[c].attempts + 1
        lock == n >= MaxAttempts
    IN
    /\ request[c].step = "comparing" /\ u \in rows
    /\ attempts' = [attempts EXCEPT ![u] = n]
    /\ locked' = IF lock THEN locked \cup {u} ELSE locked \ {u}
    /\ streak' = [streak EXCEPT ![u] = @ + 1]
    /\ End(c)
    /\ UNCHANGED <<regime, made, rows, gone, suspended, twoFactor, secret,
                   sessionVars, confirmed, redone, seated>>

\* The password is wrong: counter and lock are written together.
WrongPassword(c) ==
    LET u == request[c].member
        n == request[c].attempts + 1
        lock == n >= MaxAttempts
    IN
    /\ request[c].step = "comparing" /\ u \in rows
    /\ attempts' = [attempts EXCEPT ![u] = IF lock THEN 0 ELSE n]
    /\ locked' = IF lock THEN locked \cup {u} ELSE locked \ {u}
    /\ streak' = [streak EXCEPT ![u] = @ + 1]
    /\ End(c)
    /\ UNCHANGED <<regime, made, rows, gone, suspended, twoFactor, secret,
                   sessionVars, confirmed, redone, seated>>

\* It is right: with 2FA on, as read, a temporary token is the answer.  That it
\* lasts five minutes is left out.
RightPassword(c) ==
    /\ request[c].step = "comparing"
    /\ IF request[c].twoFactor
       THEN /\ End(c)
            /\ tokens' = tokens \cup {request[c].member}
            /\ temporary' = temporary \cup {request[c].member}
       ELSE Continue(c, "signingIn") /\ UNCHANGED <<tokens, temporary>>
    /\ UNCHANGED <<regime, made, userVars, session, issued, historyVars>>

\* Mutant: the counter is not reset.
SignIn_KeepCount(c) ==
    LET u == request[c].member IN
    /\ request[c].step = "signingIn" /\ u \in rows
    /\ locked' = locked \ {u}
    /\ streak' = [streak EXCEPT ![u] = 0]
    /\ Continue(c, "granting")
    /\ UNCHANGED <<regime, made, rows, gone, suspended, attempts, twoFactor,
                   secret, sessionVars, confirmed, redone, seated>>

\* The transaction at the end of login and of verify2fa.
SignIn(c) ==
    LET u == request[c].member IN
    /\ request[c].step = "signingIn" /\ u \in rows
    /\ attempts' = [attempts EXCEPT ![u] = 0]
    /\ locked' = locked \ {u}
    /\ streak' = [streak EXCEPT ![u] = 0]
    /\ Continue(c, "granting")
    /\ UNCHANGED <<regime, made, rows, gone, suspended, twoFactor, secret,
                   sessionVars, confirmed, redone, seated>>

\* A query of login or verify2fa fails.
LoginFails(c) ==
    request[c].step \in {"comparing", "enabling", "signingIn"} /\ Fail(c)

\* Fifteen minutes have passed.
LockEnds(u) ==
    /\ u \in locked
    /\ locked' = locked \ {u}
    /\ streak' = [streak EXCEPT ![u] = 0]
    /\ UNCHANGED <<regime, made, rows, gone, suspended, attempts, twoFactor,
                   secret, sessionVars, request, confirmed, redone, seated>>

-----------------------------------------------------------------------------
(***************************************************************************)
(* The second factor.                                                      *)
(***************************************************************************)

\* validate lets a request of u in whose token names a session that has a row,
\* or, as a temporary one does, none.
LetIn(u, s) == IF s = NoSession THEN u \in temporary ELSE session[s] = u

\* A user asks for a secret, or to switch 2FA off.
AskSetup(c, u) ==
    /\ \E s \in SessionIds \cup {NoSession} : LetIn(u, s)
    /\ Start(c, RequestOf(u, "settingUp"))
    /\ UNCHANGED <<regime, userVars, sessionVars, historyVars>>

AskTurnOff(c, u) ==
    /\ \E s \in SessionIds \cup {NoSession} : LetIn(u, s)
    /\ Start(c, RequestOf(u, "turningOff"))
    /\ UNCHANGED <<regime, userVars, sessionVars, historyVars>>

\* setup2fa replaces the secret by a new one, also when 2FA is on.
Setup(c) ==
    LET u == request[c].member IN
    /\ request[c].step = "settingUp"
    /\ \/ /\ u \in rows
          /\ \E x \in Secrets \ ({secret[u], confirmed[u]}
                                   \cup {request[d].secret : d \in Clients}) :
                secret' = [secret EXCEPT ![u] = x]
          /\ redone' = IF u \in twoFactor THEN redone \cup {u} ELSE redone
          /\ End(c)
          /\ UNCHANGED <<regime, made, rows, gone, suspended, attempts, locked,
                         twoFactor, sessionVars, streak, confirmed, seated>>
       \/ Fail(c)

\* verify2fa, asked with any token of the account and a code that fits the
\* secret it reads.
AskVerify(c, u, isSetup) ==
    /\ u \in tokens \cap rows /\ secret[u] # NoSecret
    /\ Start(c, [RequestOf(u, IF isSetup THEN "enabling" ELSE "signingIn")
                   EXCEPT !.secret = secret[u]])
    /\ UNCHANGED <<regime, userVars, sessionVars, historyVars>>

Enable(c) ==
    LET u == request[c].member IN
    /\ request[c].step = "enabling" /\ u \in rows
    /\ twoFactor' = twoFactor \cup {u}
    /\ confirmed' = [confirmed EXCEPT ![u] = request[c].secret]
    /\ redone' = redone \ {u}
    /\ Continue(c, "signingIn")
    /\ UNCHANGED <<regime, made, rows, gone, suspended, attempts, locked,
                   secret, sessionVars, streak, seated>>

\* Mutant: the secret goes and the flag stays.
TurnOff_KeepFlag(c) ==
    LET u == request[c].member IN
    /\ request[c].step = "turningOff" /\ u \in rows
    /\ secret' = [secret EXCEPT ![u] = NoSecret]
    /\ End(c)
    /\ UNCHANGED <<regime, made, rows, gone, suspended, attempts, locked,
                   twoFactor, sessionVars, historyVars>>

TurnOff(c) ==
    LET u == request[c].member IN
    /\ request[c].step = "turningOff"
    /\ \/ /\ u \in rows
          /\ twoFactor' = twoFactor \ {u}
          /\ secret' = [secret EXCEPT ![u] = NoSecret]
          /\ redone' = redone \ {u}
          /\ End(c)
          /\ UNCHANGED <<regime, made, rows, gone, suspended, attempts, locked,
                         sessionVars, streak, confirmed, seated>>
       \/ Fail(c)

-----------------------------------------------------------------------------
(***************************************************************************)
(* Sessions.                                                               *)
(***************************************************************************)

\* The session of the request is refused; without one, none is.
AskRevoke(c, u, s, t) ==
    /\ LetIn(u, s) /\ t # s
    /\ Start(c, [RequestOf(u, "revoking") EXCEPT !.own = s, !.target = t])
    /\ UNCHANGED <<regime, userVars, sessionVars, historyVars>>

\* This one is for requests with a session.
AskRevokeOthers(c, u, s) == AskRevoke(c, u, s, NoSession)

\* Mutant: the session of the request is revoked with the others.
RevokeOthers_All(c) ==
    /\ request[c].step = "revoking" /\ request[c].target = NoSession
    /\ session' = [s \in SessionIds |->
                      IF session[s] = request[c].member THEN NoMember
                      ELSE session[s]]
    /\ End(c)
    /\ UNCHANGED <<regime, made, userVars, tokens, temporary, issued,
                   historyVars>>

RevokeOthers(c) ==
    LET r == request[c] IN
    /\ r.step = "revoking" /\ r.target = NoSession
    /\ session' = [s \in SessionIds |->
                      IF session[s] = r.member /\ s # r.own THEN NoMember
                      ELSE session[s]]
    /\ End(c)
    /\ UNCHANGED <<regime, made, userVars, tokens, temporary, issued,
                   historyVars>>

\* Another's session is refused, and one that has gone.
RevokeSession(c) ==
    LET r == request[c] IN
    /\ r.step = "revoking" /\ r.target # NoSession
    /\ session' = [session EXCEPT ![r.target] =
                      IF @ = r.member THEN NoMember ELSE @]
    /\ seated' = IF r.own = NoSession /\ SessionsOf(r.member) = {r.target}
                 THEN seated \ {r.member} ELSE seated
    /\ End(c)
    /\ UNCHANGED <<regime, made, userVars, tokens, temporary, issued, streak,
                   confirmed, redone>>

RevokeFails(c) ==
    /\ request[c].step = "revoking" /\ Faulty("db")
    /\ End(c)
    /\ UNCHANGED <<regime, made, userVars, sessionVars, historyVars>>

-----------------------------------------------------------------------------
(***************************************************************************)
(* The administrator, and the end of a process.                            *)
(***************************************************************************)

createUser(u, s) ==
    /\ u \notin rows \cup gone
    /\ NewRow(u)
    /\ suspended' = IF s THEN suspended \cup {u} ELSE suspended
    /\ UNCHANGED <<regime, made, sessionVars, request>>

\* updateUser, as to the status.
updateUser(u, s) ==
    /\ u \in rows /\ (u \in suspended) # s
    /\ suspended' = IF s THEN suspended \cup {u} ELSE suspended \ {u}
    /\ UNCHANGED <<regime, made, rows, gone, attempts, locked, twoFactor,
                   secret, sessionVars, request, historyVars>>

\* The row of a user is deleted, by any of the ways ProjectRoutes models.
DropUser(u) ==
    /\ u \in rows
    /\ \A c \in Clients : request[c].member = u =>
          regime.overlap /\ request[c].step # "creating"
    /\ rows' = rows \ {u} /\ gone' = gone \cup {u}
    /\ suspended' = suspended \ {u}
    /\ locked' = locked \ {u} /\ twoFactor' = twoFactor \ {u}
    /\ session' = [s \in SessionIds |->
                      IF session[s] = u THEN NoMember ELSE session[s]]
    /\ tokens' = tokens \ {u} /\ temporary' = temporary \ {u}
    /\ UNCHANGED <<regime, made, attempts, secret, issued, request,
                   historyVars>>

AccountsCrash ==
    /\ Faulty("crash") /\ \E c \in Clients : request[c] # NoRequest
    /\ request' = [c \in Clients |-> NoRequest]
    /\ UNCHANGED <<regime, made, userVars, sessionVars, historyVars>>

Serve(c) ==
    \/ CreateRow(c) \/ LogRegistration(c) \/ Grant(c)
    \/ WrongPassword(c) \/ RightPassword(c) \/ SignIn(c) \/ LoginFails(c)
    \/ Setup(c) \/ Enable(c) \/ TurnOff(c)
    \/ RevokeOthers(c) \/ RevokeSession(c) \/ RevokeFails(c)

AccountsNext ==
    \/ \E c \in Clients :
          \/ \E u \in Members : \/ AskRegister(c, u) \/ AskLogin(c, u)
                                \/ AskSetup(c, u) \/ AskTurnOff(c, u)
                                \/ \E b \in BOOLEAN : AskVerify(c, u, b)
          \/ \E u \in Members, s \in SessionIds \cup {NoSession} :
                \/ AskRevokeOthers(c, u, s)
                \/ \E t \in SessionIds : AskRevoke(c, u, s, t)
          \/ Serve(c)
    \/ \E u \in Members :
          \/ LockEnds(u) \/ DropUser(u)
          \/ \E s \in BOOLEAN : createUser(u, s) \/ updateUser(u, s)
    \/ AccountsCrash

AccountsSpec == AccountsInit /\ [][AccountsNext]_accountsVars

-----------------------------------------------------------------------------
(***************************************************************************)
(* Properties                                                              *)
(***************************************************************************)

\* With one request at a time for an account, also when queries fail or the
\* backend stops in between: an account is locked only after MaxAttempts failed
\* logins in a row, and always after them; while 2FA is on the secret is the one
\* it was switched on with, unless a new one was asked for meanwhile; and
\* revoking sessions leaves a user the session of the request itself, so that
\* only a request without one, let in by the temporary token that login answers
\* with when 2FA is on, takes the last.
NotShutOut ==
    ~regime.overlap => \A u \in rows :
        /\ (u \in locked) <=> streak[u] >= MaxAttempts
        /\ u \in twoFactor \ redone =>
              secret[u] = confirmed[u] /\ secret[u] # NoSecret
        /\ u \in seated => SessionsOf(u) # {}
=============================================================================
