---------------------------- MODULE AccountProofs ----------------------------
(***************************************************************************)
(* Type correctness of an account and its tokens; that a reset token       *)
(* changes the password once; that a login token that has opened a session *)
(* opens no other later; and that TOTP is verified for a secret the user   *)
(* has given a code for.  For any number of requests, tasks and passwords. *)
(***************************************************************************)
EXTENDS Account, FiniteSetTheorems, TLAPS

Step(r) == Sessions(r) \/ Resets(r) \/ Settings(r) \/ DeleteUser(r)

Works == Expire \/ DeleteExpiredTokens

\* A request's step changes its own continuation only, and not its task.
Own(r) ==
    /\ request' \in [Requests -> Request]
    /\ \A q \in Requests \ {r} : request'[q] = request[q]
    /\ request'[r].task = request[r].task
    /\ request'[r].at # "new"

LEMMA OwnStep == ASSUME TypeOK, NEW r \in Requests, Step(r) PROVE Own(r)
<1>0. request \in [Requests -> Request] /\ user \in User
    BY DEF TypeOK
<1> DEFINE Ats == {"guarded", "replace", "mail", "issue", "use", "spend", "wipe",
                 "write", "done", "refused"}
<1>a. ASSUME NEW at \in Ats, Goes(r, at) PROVE Own(r)
    BY <1>0, <1>a DEF Goes, Request, Own
<1>b. ASSUME OpensSession(r) PROVE Own(r)
    BY <1>a, <1>b DEF OpensSession
<1>1. CASE Sessions(r)
    <2>1. CASE SignIn(r)
        <3>1. PICK at \in {"issue", "refused"}, verified \in BOOLEAN :
                 request' = [request EXCEPT ![r].at = at, ![r].verified = verified]
            BY <2>1, <1>0 DEF SignIn, User
        <3> QED BY <3>1, <1>0 DEF Request, Own
    <2>2. CASE GenerateToken(r)
        BY <2>2, <1>a, <1>b DEF GenerateToken
    <2>3. CASE TotpRead(r)
        <3>1. ASSUME NEW t \in Requests, NEW at \in {"use", "refused"}, NEW late \in BOOLEAN,
                     request' = [request EXCEPT ![r].at = at, ![r].token = t, ![r].late = late]
              PROVE  Own(r)
            <4>1. t \in Tokens
                BY DEF Tokens
            <4>2. request' = [request EXCEPT ![r] = [@ EXCEPT !.at = at, !.token = t, !.late = late]]
                BY <3>1
            <4>3. [request[r] EXCEPT !.at = at, !.token = t, !.late = late] \in Request
                BY <4>1, <1>0 DEF Request
            <4>4. request' \in [Requests -> Request]
                BY <4>2, <4>3, <1>0
            <4> QED BY <4>2, <4>4, <1>0 DEF Request, Own
        <3>2. PICK t \in Requests, at \in {"use", "refused"}, late \in BOOLEAN :
                 request' = [request EXCEPT ![r].at = at, ![r].token = t, ![r].late = late]
            BY <2>3 DEF TotpRead
        <3> QED BY <3>1, <3>2
    <2>4. CASE TotpSpend(r)
        BY <2>4, <1>a DEF TotpSpend
    <2>5. CASE TotpSession(r)
        BY <2>5, <1>b DEF TotpSession
    <2>6. CASE SignOut(r)
        BY <2>6, <1>a DEF SignOut
    <2> QED BY <1>1, <2>1, <2>2, <2>3, <2>4, <2>5, <2>6 DEF Sessions
<1>2. CASE Resets(r)
    <2>1. CASE RequestReset(r)
        <3>1. ASSUME NEW t \in Rows(reset),
                     request' = [request EXCEPT ![r].at = "replace", ![r].token = t]
              PROVE  Own(r)
            BY <3>1, <1>0, ZenonT(30) DEF Rows, Request, Own, Tokens
        <3> QED BY <2>1, <3>1, <1>a DEF RequestReset
    <2>2. CASE DeleteOldReset(r)
        BY <2>2, <1>a DEF DeleteOldReset
    <2>3. CASE CreateReset(r)
        BY <2>3, <1>a DEF CreateReset
    <2>4. CASE ResetRead(r)
        <3>1. PICK t \in Requests, at \in {"spend", "refused"} :
                 request' = [request EXCEPT ![r].at = at, ![r].token = t]
            BY <2>4 DEF ResetRead
        <3> QED BY <3>1, <1>0, ZenonT(30) DEF Request, Own, Tokens
    <2>5. CASE ResetSpend(r)
        BY <2>5, <1>a DEF ResetSpend
    <2>6. CASE ResetWrite(r)
        BY <2>6, <1>a DEF ResetWrite
    <2> QED BY <1>2, <2>1, <2>2, <2>3, <2>4, <2>5, <2>6 DEF Resets
<1>3. CASE Settings(r)
    <2>1. CASE GivesPassword(r)
        BY <2>1, <1>a DEF GivesPassword
    <2>2. CASE EndSessions(r)
        BY <2>2, <1>a DEF EndSessions
    <2>3. CASE PasswordWrite(r)
        BY <2>3, <1>a DEF PasswordWrite
    <2>4. CASE PasswordSession(r)
        BY <2>4, <1>b DEF PasswordSession
    <2>5. CASE TotpCheck(r)
        BY <2>5, <1>a DEF TotpCheck
    <2>6. CASE TotpWrite(r)
        BY <2>6, <1>a DEF TotpWrite
    <2> QED BY <1>3, <2>1, <2>2, <2>3, <2>4, <2>5, <2>6 DEF Settings
<1>4. CASE DeleteUser(r)
    BY <1>4, <1>a DEF DeleteUser
<1> QED BY <1>1, <1>2, <1>3, <1>4 DEF Step

-----------------------------------------------------------------------------
(* Types *)

Typed(table) == table \in [Requests -> Token]

NoRows(table) == ~user.here => Rows(table) = {}

LEMMA TypeParts ==
    ASSUME request \in [Requests -> Request], user \in User, Typed(session), Typed(login),
           Typed(reset), job \in {"idle", "login", "reset"}, confirmed \subseteq Secrets,
           resets \in [Requests -> SUBSET Requests],
           entered \in [Requests -> SUBSET Requests],
           NoRows(session), NoRows(login), NoRows(reset)
    PROVE  TypeOK
BY DEF TypeOK, Typed, NoRows

LEMMA InsertsTyped ==
    ASSUME NEW table, Typed(table), NoRows(table), NEW r \in Requests
    PROVE  Typed(Inserts(table, r)) /\ (~user.here => Rows(Inserts(table, r)) = {})
BY DEF Inserts, Typed, NoRows, Rows, Token

LEMMA EmptiedTyped ==
    ASSUME NEW table, Typed(table)
    PROVE  Typed(Emptied(table)) /\ Rows(Emptied(table)) = {}
BY DEF Emptied, Typed, Rows, Token

LEMMA SweptTyped ==
    ASSUME NEW table, Typed(table)
    PROVE  Typed(Swept(table)) /\ Rows(Swept(table)) \subseteq Rows(table)
BY DEF Swept, Typed, Rows, Token

LEMMA StepTyped == ASSUME TypeOK, NEW r \in Requests, Step(r) PROVE TypeOK'
<1>0. /\ request \in [Requests -> Request] /\ user \in User
      /\ Typed(session) /\ Typed(login) /\ Typed(reset)
      /\ job \in {"idle", "login", "reset"} /\ confirmed \subseteq Secrets
      /\ resets \in [Requests -> SUBSET Requests]
      /\ entered \in [Requests -> SUBSET Requests]
      /\ NoRows(session) /\ NoRows(login) /\ NoRows(reset)
    BY DEF TypeOK, Typed, NoRows
<1>o. request' \in [Requests -> Request] /\ request[r] \in Request
    BY <1>0, OwnStep DEF Own
<1>1. CASE Sessions(r)
    <2>1. CASE SignIn(r) \/ TotpRead(r)
        BY <2>1, <1>0, <1>o DEF SignIn, TotpRead, TypeOK, Typed, NoRows
    <2>2. CASE GenerateToken(r)
        <3>1. session' \in {session, Inserts(session, r)} /\ login' \in {login, Inserts(login, r)}
            BY <2>2 DEF GenerateToken, OpensSession
        <3>2. Typed(session)' /\ Typed(login)' /\ NoRows(session)' /\ NoRows(login)'
            BY <3>1, <2>2, <1>0, InsertsTyped DEF GenerateToken, Typed, NoRows
        <3> QED BY <2>2, <3>2, <1>0, <1>o DEF GenerateToken, TypeOK, Typed, NoRows
    <2>3. CASE TotpSpend(r)
        <3>1. Typed(login)' /\ Rows(login)' = Rows(login)
            BY <2>3, <1>0 DEF TotpSpend, Typed, Rows, Token
        <3> QED BY <2>3, <3>1, <1>0, <1>o DEF TotpSpend, TypeOK, Typed, NoRows
    <2>4. CASE TotpSession(r)
        <3>1. Typed(session)' /\ NoRows(session)'
            BY <2>4, <1>0, InsertsTyped DEF TotpSession, OpensSession, Typed, NoRows
        <3>2. entered' \in [Requests -> SUBSET Requests]
            BY <2>4, <1>0 DEF TotpSession
        <3> QED BY <2>4, <3>1, <3>2, <1>0, <1>o DEF TotpSession, TypeOK, Typed, NoRows
    <2>5. CASE SignOut(r)
        <3>1. Typed(session)' /\ Rows(session)' \subseteq Rows(session)
            BY <2>5, <1>0 DEF SignOut, Typed, Rows, Token
        <3> QED BY <2>5, <3>1, <1>0, <1>o DEF SignOut, TypeOK, Typed, NoRows
    <2> QED BY <1>1, <2>1, <2>2, <2>3, <2>4, <2>5 DEF Sessions
<1>2. CASE Resets(r)
    <2>1. CASE RequestReset(r) \/ ResetRead(r)
        BY <2>1, <1>0, <1>o DEF RequestReset, ResetRead, TypeOK, Typed, NoRows
    <2>2. CASE DeleteOldReset(r) \/ ResetSpend(r)
        <3>1. Typed(reset)' /\ Rows(reset)' \subseteq Rows(reset)
            BY <2>2, <1>0 DEF DeleteOldReset, ResetSpend, Typed, Rows, Token
        <3> QED BY <2>2, <3>1, <1>0, <1>o DEF DeleteOldReset, ResetSpend, TypeOK, Typed, NoRows
    <2>3. CASE CreateReset(r)
        <3>1. Typed(reset)' /\ NoRows(reset)'
            BY <2>3, <1>0 DEF CreateReset, Typed, NoRows, Rows, Token
        <3> QED BY <2>3, <3>1, <1>0, <1>o DEF CreateReset, TypeOK, Typed, NoRows
    <2>4. CASE ResetWrite(r)
        <3>1. user' \in User /\ user'.here = user.here
            BY <2>4, <1>0, <1>o DEF ResetWrite, User, Asked, Request, Task
        <3>2. resets' \in [Requests -> SUBSET Requests]
            BY <2>4, <1>0 DEF ResetWrite
        <3> QED BY <2>4, <3>1, <3>2, <1>0, <1>o DEF ResetWrite, TypeOK, Typed, NoRows
    <2> QED BY <1>2, <2>1, <2>2, <2>3, <2>4 DEF Resets
<1>3. CASE Settings(r)
    <2>1. CASE GivesPassword(r)
        BY <2>1, <1>0, <1>o DEF GivesPassword, TypeOK, Typed, NoRows
    <2>2. CASE EndSessions(r)
        <3>1. Typed(session)' /\ Rows(session)' = {}
            BY <2>2, <1>0, EmptiedTyped DEF EndSessions, Typed
        <3> QED BY <2>2, <3>1, <1>0, <1>o DEF EndSessions, TypeOK, Typed, NoRows
    <2>3. CASE PasswordWrite(r)
        <3>1. user' \in User /\ user'.here = user.here
            BY <2>3, <1>0, <1>o DEF PasswordWrite, User, Asked, Request, Task
        <3> QED BY <2>3, <3>1, <1>0, <1>o DEF PasswordWrite, TypeOK, Typed, NoRows
    <2>4. CASE PasswordSession(r)
        <3>1. Typed(session)' /\ NoRows(session)'
            BY <2>4, <1>0, InsertsTyped DEF PasswordSession, OpensSession, Typed, NoRows
        <3> QED BY <2>4, <3>1, <1>0, <1>o DEF PasswordSession, TypeOK, Typed, NoRows
    <2>5. CASE TotpCheck(r)
        <3>1. confirmed' \subseteq Secrets
            BY <2>5, <1>0 DEF TotpCheck, User
        <3> QED BY <2>5, <3>1, <1>0, <1>o DEF TotpCheck, TypeOK, Typed, NoRows
    <2>6. CASE TotpWrite(r)
        <3>1. user' \in User /\ user'.here = user.here
            BY <2>6, <1>0 DEF TotpWrite, User, Secrets
        <3> QED BY <2>6, <3>1, <1>0, <1>o DEF TotpWrite, TypeOK, Typed, NoRows
    <2> QED BY <1>3, <2>1, <2>2, <2>3, <2>4, <2>5, <2>6 DEF Settings
<1>4. CASE DeleteUser(r)
    <2>1. /\ Typed(session)' /\ Typed(login)' /\ Typed(reset)'
          /\ Rows(session)' = {} /\ Rows(login)' = {} /\ Rows(reset)' = {}
        BY <1>4, <1>0, EmptiedTyped DEF DeleteUser, Typed
    <2>2. user' \in User
        BY <1>4, <1>0 DEF DeleteUser, User
    <2> QED BY <1>4, <2>1, <2>2, <1>0, <1>o DEF DeleteUser, TypeOK, Typed, NoRows
<1> QED BY <1>1, <1>2, <1>3, <1>4 DEF Step

LEMMA WorksTyped == ASSUME TypeOK, Works PROVE TypeOK'
<1>0. /\ Typed(session) /\ Typed(login) /\ Typed(reset)
      /\ NoRows(session) /\ NoRows(login) /\ NoRows(reset)
    BY DEF TypeOK, Typed, NoRows
<1>1. CASE Expire
    <2>1. /\ Typed(session)' /\ Typed(login)' /\ Typed(reset)'
          /\ Rows(session)' = Rows(session) /\ Rows(login)' = Rows(login)
          /\ Rows(reset)' = Rows(reset)
        BY <1>1, <1>0 DEF Expire, Typed, Rows, Token
    <2> QED BY <1>1, <2>1 DEF Expire, TypeOK, Typed
<1>2. CASE DeleteExpiredTokens
    <2>1. /\ Typed(session)' /\ Typed(login)' /\ Typed(reset)'
          /\ Rows(session)' \subseteq Rows(session) /\ Rows(login)' \subseteq Rows(login)
          /\ Rows(reset)' \subseteq Rows(reset)
        BY <1>2, <1>0, SweptTyped DEF DeleteExpiredTokens, Typed, Rows
    <2> QED BY <1>2, <2>1 DEF DeleteExpiredTokens, TypeOK, Typed
<1> QED BY <1>1, <1>2 DEF Works

LEMMA InitTyped == Init => TypeOK
<1> SUFFICES ASSUME Init PROVE TypeOK
    OBVIOUS
<1>1. user \in User
    BY DEF Init, User, Secrets
<1>2. request \in [Requests -> Request]
    <2>1. PICK tasks \in Workloads : \E task \in [Requests -> tasks] :
             request = [r \in Requests |-> [at |-> "new", task |-> task[r], verified |-> FALSE,
                                            token |-> None, late |-> FALSE]]
        BY DEF Init
    <2>2. tasks \subseteq Task
        BY AccountAssumption
    <2> QED BY <2>1, <2>2 DEF Request, Tokens
<1> QED BY <1>1, <1>2 DEF Init, TypeOK, Token, Rows, Secrets

LEMMA NextIs == ASSUME [Next]_vars PROVE (\E r \in Requests : Step(r)) \/ Works \/ UNCHANGED vars
BY DEF Next, Step, Works

\* Type correctness: a token belongs to an account that is there
\* (auth.service.ts, authTotp.service.ts, the cascades of schema.prisma).
THEOREM AccountTypeOK == Spec => []TypeOK
<1>1. TypeOK /\ [Next]_vars => TypeOK'
    <2>1. ASSUME TypeOK, UNCHANGED vars PROVE TypeOK'
        BY <2>1 DEF vars, TypeOK, Rows
    <2> QED BY <2>1, NextIs, StepTyped, WorksTyped
<1> QED BY InitTyped, <1>1, PTL DEF Spec

-----------------------------------------------------------------------------
(* A reset token changes the password once *)

\* Where a request can be, by what it asks for.
Stage(r) ==
    LET at == request[r].at IN
    /\ at = "wipe" => Asked(r).op = "password"
    /\ at = "guarded" => Changes(r)
    /\ at = "use" => Asked(r).op = "totp"

Writing(r, t) == request[r].at = "write" /\ Asked(r).op = "reset" /\ request[r].token = t

\* Whoever is about to write has deleted the token, which nobody gets back.
Once ==
    /\ \A r \in Requests : Stage(r)
    /\ \A r \in Requests : request[r].at \in {"new", "replace", "mail"} => reset[r] = "none"
    /\ \A r \in Requests :
          request[r].at = "spend" => /\ request[r].token \in Requests
                                     /\ reset[request[r].token] # "none"
    /\ \A t \in Requests : reset[t] = "none" \/ t \in Rows(reset)
                           => resets[t] = {} /\ \A r \in Requests : ~Writing(r, t)
    /\ \A t, p \in Requests :
          Writing(p, t) => resets[t] = {} /\ \A q \in Requests : Writing(q, t) => p = q
    /\ \A t \in Requests : resets[t] = {} \/ \E r \in Requests : resets[t] = {r}

LEMMA AtMoves ==
    ASSUME TypeOK, NEW r \in Requests, NEW at, Goes(r, at)
    PROVE  request'[r] = [request[r] EXCEPT !.at = at] /\ request'[r].at = at
           /\ request'[r].token = request[r].token
BY DEF TypeOK, Goes, Request

\* What does not concern reset tokens.
LEMMA Elsewhere ==
    ASSUME TypeOK, NEW r \in Requests, Stage(r),
           Sessions(r) \/ Settings(r)
    PROVE  /\ UNCHANGED <<reset, resets>>
           /\ Stage(r)'
           /\ request'[r].at \notin {"new", "replace", "mail", "spend"}
           /\ ~(request'[r].at = "write" /\ Asked(r).op = "reset")
<1> DEFINE Clear == /\ Stage(r)'
                    /\ request'[r].at \notin {"new", "replace", "mail", "spend"}
                    /\ ~(request'[r].at = "write" /\ Asked(r).op = "reset")
<1>0. request \in [Requests -> Request] /\ Asked(r)' = Asked(r) /\ Changes(r)' = Changes(r)
    BY OwnStep DEF Step, TypeOK, Own, Asked, Changes
<1>a. ASSUME NEW at \in {"issue", "done", "refused"}, Goes(r, at) PROVE Clear
    BY <1>0, <1>a, AtMoves DEF Stage
<1>b. ASSUME OpensSession(r) PROVE Clear
    BY <1>a, <1>b DEF OpensSession
<1>c. ASSUME Goes(r, "write"), Asked(r).op # "reset" PROVE Clear
    <2>1. request'[r].at = "write"
        BY <1>c, AtMoves
    <2> QED BY <2>1, <1>c DEF Stage
<1>1. CASE Sessions(r)
    <2>1. CASE SignIn(r)
        <3>1. request'[r].at \in {"issue", "refused"}
            BY <2>1, <1>0 DEF SignIn, Request
        <3> QED BY <2>1, <3>1 DEF SignIn, Stage
    <2>2. CASE GenerateToken(r)
        <3>1. Clear
            BY <2>2, <1>a, <1>b DEF GenerateToken
        <3>2. UNCHANGED <<reset, resets>>
            BY <2>2 DEF GenerateToken
        <3> QED BY <3>1, <3>2
    <2>3. CASE TotpRead(r)
        <3>1. request'[r].at \in {"use", "refused"} /\ Asked(r).op = "totp"
            <4>1. PICK t \in Requests, at \in {"use", "refused"}, late \in BOOLEAN :
                     request' = [request EXCEPT ![r].at = at, ![r].token = t, ![r].late = late]
                BY <2>3 DEF TotpRead
            <4> QED BY <2>3, <4>1, <1>0 DEF TotpRead, Starts, Request
        <3> QED BY <2>3, <3>1, <1>0 DEF TotpRead, Stage
    <2>4. CASE TotpSpend(r)
        BY <2>4, <1>a DEF TotpSpend
    <2>5. CASE TotpSession(r)
        BY <2>5, <1>b DEF TotpSession
    <2>6. CASE SignOut(r)
        BY <2>6, <1>a DEF SignOut
    <2> QED BY <1>1, <2>1, <2>2, <2>3, <2>4, <2>5, <2>6 DEF Sessions
<1>2. CASE Settings(r)
    <2>1. CASE GivesPassword(r)
        <3>1. CASE Goes(r, "guarded") /\ Changes(r)
            <4>1. request'[r].at = "guarded"
                BY <3>1, AtMoves
            <4> QED BY <2>1, <3>1, <4>1, <1>0 DEF GivesPassword, Stage
        <3>2. CASE Goes(r, "wipe") /\ ~Changes(r)
            <4>1. Asked(r).op = "password"
                BY <2>1, <3>2 DEF GivesPassword, Starts, Changes
            <4>2. request'[r].at = "wipe"
                BY <3>2, AtMoves
            <4> QED BY <2>1, <4>1, <4>2, <1>0 DEF GivesPassword, Stage
        <3> QED BY <2>1, <3>1, <3>2, <1>a DEF GivesPassword
    <2>2. CASE EndSessions(r)
        <3>1. Asked(r).op = "password"
            BY <2>2 DEF EndSessions, Stage
        <3> QED BY <2>2, <3>1, <1>c DEF EndSessions
    <2>3. CASE PasswordWrite(r)
        BY <2>3, <1>a DEF PasswordWrite
    <2>4. CASE PasswordSession(r)
        BY <2>4, <1>b DEF PasswordSession
    <2>5. CASE TotpCheck(r)
        <3>1. Asked(r).op # "reset"
            BY <2>5 DEF TotpCheck, Stage, Changes
        <3> QED BY <2>5, <3>1, <1>a, <1>c DEF TotpCheck
    <2>6. CASE TotpWrite(r)
        BY <2>6, <1>a DEF TotpWrite
    <2> QED BY <1>2, <2>1, <2>2, <2>3, <2>4, <2>5, <2>6 DEF Settings
<1> QED BY <1>1, <1>2

LEMMA OnceAgain == ASSUME TypeOK, Once, [Next]_vars PROVE Once'
<1>0. /\ request \in [Requests -> Request] /\ Typed(reset)
      /\ resets \in [Requests -> SUBSET Requests]
    BY DEF TypeOK, Typed
<1>1. ASSUME NEW r \in Requests, Sessions(r) \/ Settings(r) PROVE Once'
    <2>1. \A q \in Requests \ {r} : request'[q] = request[q]
        BY <1>1, OwnStep DEF Own, Step
    <2>2. /\ UNCHANGED <<reset, resets>> /\ Stage(r)'
          /\ request'[r].at \notin {"new", "replace", "mail", "spend"}
          /\ \A t \in Requests : ~Writing(r, t)'
        BY <1>1, Elsewhere, OwnStep DEF Once, Writing, Step, Own, Asked
    <2>3. \A q \in Requests : Stage(q)'
        BY <2>1, <2>2 DEF Once, Stage, Asked, Changes
    <2>4. \A q, t \in Requests : Writing(q, t)' => Writing(q, t)
        BY <2>1, <2>2 DEF Writing, Asked
    <2>5. Rows(reset)' = Rows(reset)
        BY <2>2 DEF Rows
    <2> QED BY <2>1, <2>2, <2>3, <2>4, <2>5 DEF Once
<1>2. ASSUME NEW r \in Requests, Resets(r) PROVE Once'
    <2>0. /\ \A q \in Requests \ {r} : request'[q] = request[q]
          /\ Asked(r)' = Asked(r) /\ Changes(r)' = Changes(r)
        BY <1>2, OwnStep DEF Own, Step, Asked, Changes
    <2>1. ASSUME request'[r].at \notin {"wipe", "guarded", "use"}
          PROVE  \A q \in Requests : Stage(q)'
        BY <2>0, <2>1 DEF Once, Stage, Asked, Changes
    <2>2. \A t \in Requests : \A q \in Requests \ {r} : Writing(q, t)' = Writing(q, t)
        BY <2>0 DEF Writing, Asked
    <2>3. CASE RequestReset(r)
        <3>1. /\ request[r].at = "new"
              /\ request'[r].at \in {"replace", "mail", "done"}
              /\ UNCHANGED <<reset, resets>>
            BY <2>3, <1>0 DEF RequestReset, Starts, Goes, Request
        <3>2. Rows(reset)' = Rows(reset) /\ \A t \in Requests : ~Writing(r, t)'
            BY <3>1 DEF Rows, Writing
        <3> QED BY <2>0, <2>1, <2>2, <3>1, <3>2 DEF Once
    <2>4. CASE DeleteOldReset(r) \/ CreateReset(r)
        <3>1. /\ request[r].at \in {"replace", "mail"} /\ UNCHANGED resets
              /\ request'[r].at \in {"mail", "done", "refused"}
              /\ request'[r].at = "mail" => request[r].at = "replace"
            BY <2>4, <1>0 DEF DeleteOldReset, CreateReset, Goes, Request
        <3>2. \A t \in Requests : ~Writing(r, t)' /\ ~Writing(r, t)
            BY <3>1 DEF Writing
        <3>3. \A t \in Requests :
                 \/ reset'[t] = reset[t]
                 \/ t \in Rows(reset) /\ reset'[t] = "gone"
                 \/ t = r /\ reset[t] = "none" /\ request'[r].at \notin {"mail"}
            BY <2>4, <3>1, <1>0, AtMoves DEF DeleteOldReset, CreateReset, Once, Typed
        <3>4. \A q \in Requests : request'[q].at \in {"new", "replace", "mail"}
                                 => reset'[q] = "none"
            BY <2>0, <3>1, <3>3 DEF Once, Rows
        <3>5. \A q \in Requests : request'[q].at = "spend"
                 => request'[q].token \in Requests /\ reset'[request'[q].token] # "none"
            BY <2>0, <3>1, <3>3 DEF Once
        <3>6. \A t \in Requests : reset'[t] = "none" \/ t \in Rows(reset)'
                                => reset[t] = "none" \/ t \in Rows(reset)
            BY <3>3 DEF Rows
        <3>7. \A t, q \in Requests : Writing(q, t)' <=> Writing(q, t)
            BY <2>2, <3>2
        <3> QED BY <2>1, <3>1, <3>4, <3>5, <3>6, <3>7 DEF Once
    <2>5. CASE ResetRead(r)
        <3>1. PICK t \in Requests, at \in {"spend", "refused"} :
                 /\ request' = [request EXCEPT ![r].at = at, ![r].token = t]
                 /\ reset[t] # "none"
            BY <2>5 DEF ResetRead
        <3>2. /\ request'[r].at \in {"spend", "refused"} /\ request'[r].token = t
              /\ UNCHANGED <<reset, resets>>
            BY <2>5, <3>1, <1>0 DEF ResetRead, Request
        <3>3. Rows(reset)' = Rows(reset) /\ \A u \in Requests : ~Writing(r, u)'
            BY <3>2 DEF Rows, Writing
        <3>4. reset[t] # "none"
            BY <3>1
        <3>5. \A q \in Requests : /\ request'[q].at \in {"new", "replace", "mail"}
                                     => reset'[q] = "none"
                                  /\ request'[q].at = "spend"
                                     => /\ request'[q].token \in Requests
                                        /\ reset'[request'[q].token] # "none"
            BY <2>0, <3>2, <3>4 DEF Once
        <3> QED BY <2>1, <2>2, <3>2, <3>3, <3>5 DEF Once
    <2>6. CASE ResetSpend(r)
        <3> DEFINE t == request[r].token
        <3>1. /\ request[r].at = "spend" /\ t \in Requests /\ reset[t] # "none"
              /\ request'[r].token = t /\ UNCHANGED resets
            BY <2>6, AtMoves DEF ResetSpend, Once
        <3>2. CASE t \in Rows(reset)
            <4>1. /\ reset' = [reset EXCEPT ![t] = "gone"] /\ request'[r].at = "write"
                BY <2>6, <3>2, AtMoves DEF ResetSpend
            <4>2. resets[t] = {} /\ \A q \in Requests : ~Writing(q, t)
                BY <3>1, <3>2 DEF Once
            <4>3. \A u \in Requests \ {t} : ~Writing(r, u)' /\ reset'[u] = reset[u]
                BY <3>1, <4>1, <1>0 DEF Writing, Typed
            <4>4. reset'[t] = "gone"
                BY <3>1, <4>1, <1>0 DEF Typed
            <4> QED BY <2>0, <2>1, <2>2, <3>1, <4>1, <4>2, <4>3, <4>4 DEF Once, Rows
        <3>3. CASE t \notin Rows(reset)
            <4>1. UNCHANGED reset /\ request'[r].at = "refused"
                BY <2>6, <3>3, AtMoves DEF ResetSpend
            <4>2. Rows(reset)' = Rows(reset) /\ \A u \in Requests : ~Writing(r, u)'
                BY <4>1 DEF Rows, Writing
            <4> QED BY <2>0, <2>1, <2>2, <3>1, <4>1, <4>2 DEF Once
        <3> QED BY <3>2, <3>3
    <2>7. CASE ResetWrite(r)
        <3> DEFINE t == request[r].token
        <3>1. /\ Writing(r, t) /\ request'[r].at \in {"done", "refused"} /\ UNCHANGED reset
            BY <2>7, AtMoves DEF ResetWrite, Writing
        <3>2. Rows(reset)' = Rows(reset) /\ \A u \in Requests : ~Writing(r, u)'
            BY <3>1 DEF Rows, Writing
        <3>3. \A u \in Requests :
                 \/ resets'[u] = resets[u]
                 \/ u = t /\ resets'[u] = resets[u] \cup {r}
            BY <2>7, <1>0 DEF ResetWrite
        <3>4. t \in Requests => /\ resets[t] = {} /\ reset[t] # "none" /\ t \notin Rows(reset)
                                /\ \A q \in Requests \ {r} : ~Writing(q, t)
            BY <3>1 DEF Once
        <3>5. \A u \in Requests : resets'[u] = resets[u]
                 \/ /\ resets[u] = {} /\ resets'[u] = {r} /\ reset[u] # "none"
                    /\ u \notin Rows(reset) /\ \A q \in Requests \ {r} : ~Writing(q, u)
            BY <3>3, <3>4
        <3> QED BY <2>0, <2>1, <2>2, <3>1, <3>2, <3>5 DEF Once
    <2> QED BY <1>2, <2>3, <2>4, <2>5, <2>6, <2>7 DEF Resets
<1>3. ASSUME NEW r \in Requests, DeleteUser(r) PROVE Once'
    <2>1. UNCHANGED resets /\ \A q \in Requests \ {r} : request'[q] = request[q]
        BY <1>3, <1>0 DEF DeleteUser, Goes
    <2>2. \A t \in Requests : \/ reset'[t] = reset[t] /\ t \notin Rows(reset)
                              \/ t \in Rows(reset) /\ reset'[t] = "gone"
        BY <1>3 DEF DeleteUser, Emptied
    <2>3. request'[r].at = "done"
        BY <1>3, AtMoves DEF DeleteUser
    <2>4. \A q, t \in Requests : Writing(q, t)' => Writing(q, t)
        BY <2>1, <2>3 DEF Writing, Asked
    <2>5. \A q \in Requests : Stage(q)'
        BY <2>1, <2>3 DEF Once, Stage, Asked, Changes
    <2>6. \A q \in Requests : /\ request'[q].at \in {"new", "replace", "mail"}
                                 => reset'[q] = "none"
                              /\ request'[q].at = "spend"
                                 => /\ request'[q].token \in Requests
                                    /\ reset'[request'[q].token] # "none"
        BY <2>1, <2>2, <2>3 DEF Once, Rows
    <2>7. \A t \in Requests : reset'[t] = "none" \/ t \in Rows(reset)'
                            => reset[t] = "none" \/ t \in Rows(reset)
        BY <2>2 DEF Rows
    <2> QED BY <2>1, <2>4, <2>5, <2>6, <2>7 DEF Once
<1>4. ASSUME Works PROVE Once'
    <2>1. UNCHANGED <<request, resets>>
        BY <1>4 DEF Works, Expire, DeleteExpiredTokens
    <2>2. \A t \in Requests : \/ reset'[t] = reset[t]
                              \/ t \in Rows(reset) /\ reset'[t] \in {"expired", "gone"}
        BY <1>4, <1>0 DEF Works, Expire, DeleteExpiredTokens, Swept, Rows, Typed
    <2> QED BY <2>1, <2>2 DEF Once, Stage, Writing, Asked, Changes, Rows
<1>5. ASSUME UNCHANGED vars PROVE Once'
    BY <1>5 DEF vars, Once, Stage, Writing, Asked, Changes, Rows
<1> QED BY <1>1, <1>2, <1>3, <1>4, <1>5, NextIs DEF Step

\* A reset token changes the password once (resetPassword of
\* auth.service.ts): delete throws for all who hold it but one.
THEOREM ResetTheorem == Spec => []ResetOnce
<1>1. Init => Once
    BY DEF Init, Once, Stage, Writing, Rows
<1>2. TypeOK /\ Once /\ [Next]_vars => Once'
    BY OnceAgain
<1>3. Once => ResetOnce
    <2>1. Cardinality({}) = 0 /\ \A r \in Requests : Cardinality({r}) = 1
        BY FS_EmptySet, FS_Singleton
    <2>2. ASSUME Once, NEW t \in Requests PROVE Cardinality(resets[t]) <= 1
        <3>1. CASE resets[t] = {}
            BY <2>1, <3>1
        <3>2. CASE \E r \in Requests : resets[t] = {r}
            BY <2>1, <3>2
        <3> QED BY <2>2, <3>1, <3>2 DEF Once
    <2> QED BY <2>2 DEF ResetOnce
<1> QED BY AccountTypeOK, <1>1, <1>2, <1>3, PTL DEF Spec

-----------------------------------------------------------------------------
(* A login token that has opened a session opens no other later *)

Unspent(t) == login[t] \in {"none", "live"}

\* Whoever opens a session has marked the token, which is never live again.
Marked ==
    /\ \A r \in Requests :
          request[r].at = "new" \/ (request[r].at = "issue" /\ Asked(r).op = "signIn")
          => login[r] = "none"
    /\ \A r \in Requests :
          /\ request[r].at = "use" => Asked(r).op = "totp"
          /\ Asked(r).op = "totp" /\ request[r].at \in {"use", "issue"}
             => /\ ~request[r].late
                /\ request[r].token \in Requests
                /\ login[request[r].token] # "none"
          /\ Asked(r).op = "totp" /\ request[r].at = "issue" => ~Unspent(request[r].token)
    /\ \A t \in Requests : entered[t] # {} => ~Unspent(t)
    /\ \A t \in Requests : \A r \in entered[t] : ~request[r].late /\ request[r].at # "new"

\* A step that leaves the login tokens and who has used them alone.
LEMMA MarkedElsewhere ==
    ASSUME TypeOK, Marked, NEW r \in Requests, Step(r), UNCHANGED entered,
           request'[r].late = request[r].late, request'[r].at # "use",
           \A t \in Requests : /\ login[t] = "none" => login'[t] = "none"
                               /\ login[t] # "none" => login'[t] # "none"
                               /\ ~Unspent(t) => ~Unspent(t)',
           Asked(r).op \notin {"signIn", "totp"} \/ request'[r].at # "issue"
    PROVE  Marked'
<1>1. /\ \A q \in Requests \ {r} : request'[q] = request[q]
      /\ \A q \in Requests : Asked(q)' = Asked(q)
      /\ request'[r].at # "new"
    BY OwnStep DEF Own, Asked
<1> HIDE DEF Unspent
<1>2. \A q \in Requests :
         request'[q].at = "new" \/ (request'[q].at = "issue" /\ Asked(q).op = "signIn")
         => login'[q] = "none"
    BY <1>1 DEF Marked
<1>3. \A q \in Requests :
         /\ request'[q].at = "use" => Asked(q).op = "totp"
         /\ Asked(q).op = "totp" /\ request'[q].at \in {"use", "issue"}
            => /\ ~request'[q].late
               /\ request'[q].token \in Requests
               /\ login'[request'[q].token] # "none"
         /\ Asked(q).op = "totp" /\ request'[q].at = "issue" => ~Unspent(request[q].token)'
    BY <1>1 DEF Marked
<1>4. \A t \in Requests : \A q \in entered[t] : ~request'[q].late /\ request'[q].at # "new"
    BY <1>1 DEF Marked, TypeOK
<1> QED BY <1>1, <1>2, <1>3, <1>4 DEF Marked, Unspent

\* What does not concern login tokens.
LEMMA LoginElsewhere ==
    ASSUME TypeOK, Marked, NEW r \in Requests,
           SignOut(r) \/ Resets(r) \/ Settings(r) \/ DeleteUser(r)
    PROVE  Marked'
<1>0. request \in [Requests -> Request] /\ Step(r)
    BY DEF TypeOK, Step, Sessions
<1> DEFINE Quiet == /\ request'[r].late = request[r].late /\ request'[r].at # "use"
                    /\ Asked(r).op \notin {"signIn", "totp"} \/ request'[r].at # "issue"
<1>a. ASSUME NEW at \in {"guarded", "replace", "mail", "spend", "wipe", "write", "done", "refused"},
             Goes(r, at)
      PROVE  Quiet
    BY <1>0, <1>a DEF Goes, Request
<1>b. ASSUME Goes(r, "issue"), Asked(r).op = "password" PROVE Quiet
    BY <1>0, <1>b DEF Goes, Request
<1>c. ASSUME OpensSession(r) PROVE Quiet
    BY <1>a, <1>c DEF OpensSession
<1>1. Quiet
    <2>1. CASE SignOut(r) \/ DeleteUser(r)
        BY <2>1, <1>a DEF SignOut, DeleteUser
    <2>2. CASE Resets(r)
        <3>1. CASE RequestReset(r)
            <4>1. ASSUME NEW t, request' = [request EXCEPT ![r].at = "replace", ![r].token = t]
                  PROVE  Quiet
                BY <1>0, <4>1 DEF Request
            <4> QED BY <3>1, <4>1, <1>a DEF RequestReset
        <3>2. CASE DeleteOldReset(r) \/ CreateReset(r) \/ ResetSpend(r) \/ ResetWrite(r)
            BY <3>2, <1>a DEF DeleteOldReset, CreateReset, ResetSpend, ResetWrite
        <3>3. CASE ResetRead(r)
            <4>1. PICK t \in Requests, at \in {"spend", "refused"} :
                     request' = [request EXCEPT ![r].at = at, ![r].token = t]
                BY <3>3 DEF ResetRead
            <4> QED BY <4>1, <1>0 DEF Request
        <3> QED BY <2>2, <3>1, <3>2, <3>3 DEF Resets
    <2>3. CASE Settings(r)
        <3>1. CASE GivesPassword(r)
            BY <3>1, <1>a DEF GivesPassword
        <3>2. CASE EndSessions(r) \/ TotpCheck(r) \/ TotpWrite(r)
            BY <3>2, <1>a DEF EndSessions, TotpCheck, TotpWrite
        <3>3. CASE PasswordWrite(r)
            BY <3>3, <1>a, <1>b DEF PasswordWrite
        <3>4. CASE PasswordSession(r)
            BY <3>4, <1>c DEF PasswordSession
        <3> QED BY <2>3, <3>1, <3>2, <3>3, <3>4 DEF Settings
    <2> QED BY <2>1, <2>2, <2>3
<1>2. UNCHANGED entered /\ (UNCHANGED login \/ login' = Emptied(login))
    BY DEF SignOut, DeleteUser, Resets, RequestReset, DeleteOldReset, CreateReset, ResetRead,
       ResetSpend, ResetWrite, Settings, GivesPassword, EndSessions, PasswordWrite,
       PasswordSession, TotpCheck, TotpWrite
<1>3. \A t \in Requests : /\ login[t] = "none" => login'[t] = "none"
                          /\ login[t] # "none" => login'[t] # "none"
                          /\ ~Unspent(t) => ~Unspent(t)'
    BY <1>2 DEF Emptied, Rows, Unspent
<1> QED BY <1>0, <1>1, <1>2, <1>3, MarkedElsewhere

LEMMA MarkedAgain == ASSUME TypeOK, Marked, [Next]_vars PROVE Marked'
<1>0. /\ request \in [Requests -> Request] /\ login \in [Requests -> Token]
      /\ entered \in [Requests -> SUBSET Requests]
    BY DEF TypeOK
<1>1. ASSUME NEW r \in Requests, Sessions(r), ~SignOut(r) PROVE Marked'
    <2>0. /\ \A q \in Requests \ {r} : request'[q] = request[q]
          /\ \A q \in Requests : Asked(q)' = Asked(q)
          /\ request'[r].at # "new"
        BY <1>1, OwnStep DEF Own, Step, Asked
    <2>1. CASE SignIn(r)
        <3>1. /\ request[r].at = "new" /\ Asked(r).op = "signIn" /\ request'[r].at # "use"
              /\ request'[r].late = request[r].late /\ UNCHANGED <<login, entered>>
            BY <2>1, <1>0 DEF SignIn, Starts, Request
        <3>2. \A t \in Requests : r \notin entered[t]
            BY <3>1 DEF Marked
        <3> QED BY <2>0, <3>1, <3>2, <1>0 DEF Marked, Unspent
    <2>2. CASE GenerateToken(r)
        <3>1. /\ request[r].at = "issue" /\ Asked(r).op = "signIn" /\ login[r] = "none"
              /\ entered[r] = {} /\ UNCHANGED entered
            BY <2>2 DEF GenerateToken, Marked, Unspent
        <3>2. request'[r].at \in {"done", "refused"} /\ request'[r].late = request[r].late
            <4>1. ASSUME NEW at \in {"done", "refused"}, Goes(r, at)
                  PROVE  request'[r].at \in {"done", "refused"} /\ request'[r].late = request[r].late
                BY <4>1, <1>0 DEF Goes, Request
            <4> QED BY <2>2, <4>1 DEF GenerateToken, OpensSession
        <3>3. \A t \in Requests : login'[t] = login[t] \/ (t = r /\ login'[t] = "live")
            BY <2>2, <1>0 DEF GenerateToken, Inserts
        <3>4. \A q \in Requests : Asked(q).op = "totp" /\ request[q].at = "issue"
                                  => request[q].token \in Requests \ {r}
            BY <3>1 DEF Marked, Unspent
        <3>5. \A q \in Requests : request'[q].at = "new"
                    \/ (request'[q].at = "issue" /\ Asked(q).op = "signIn") => login'[q] = "none"
            BY <2>0, <3>2, <3>3 DEF Marked
        <3>6. \A q \in Requests :
                 /\ request'[q].at = "use" => Asked(q).op = "totp"
                 /\ Asked(q).op = "totp" /\ request'[q].at \in {"use", "issue"}
                    => /\ ~request'[q].late
                       /\ request'[q].token \in Requests
                       /\ login'[request'[q].token] # "none"
                 /\ Asked(q).op = "totp" /\ request'[q].at = "issue"
                    => ~Unspent(request[q].token)'
            BY <2>0, <3>2, <3>3, <3>4 DEF Marked, Unspent
        <3>7. \A t \in Requests : entered[t] # {} => ~Unspent(t)'
            BY <3>1, <3>3 DEF Marked, Unspent
        <3>8. \A t \in Requests : \A q \in entered[t] : ~request'[q].late /\ request'[q].at # "new"
            BY <2>0, <3>2, <1>0 DEF Marked
        <3> QED BY <2>0, <3>1, <3>5, <3>6, <3>7, <3>8 DEF Marked, Unspent
    <2>3. CASE TotpRead(r)
        <3>1. PICK t \in Requests :
                 /\ login[t] # "none"
                 /\ request' = [request EXCEPT
                                  ![r].at = IF login[t] = "live" /\ user.secret # None
                                            THEN "use" ELSE "refused",
                                  ![r].token = t,
                                  ![r].late = entered[t] # {}]
            BY <2>3 DEF TotpRead
        <3>2. /\ request[r].at = "new" /\ Asked(r).op = "totp" /\ UNCHANGED <<login, entered>>
              /\ request'[r].at \in {"use", "refused"} /\ request'[r].token = t
              /\ request'[r].at = "use" => login[t] = "live" /\ request'[r].late = (entered[t] # {})
              /\ login[t] # "none"
            BY <2>3, <3>1, <1>0 DEF TotpRead, Starts, Request
        <3>3. request'[r].at = "use" => ~request'[r].late
            BY <3>2 DEF Marked, Unspent
        <3>4. \A u \in Requests : r \notin entered[u]
            BY <3>2 DEF Marked
        <3>5. \A u \in Requests : \A q \in entered[u] : ~request'[q].late /\ request'[q].at # "new"
            BY <2>0, <3>4, <1>0 DEF Marked
        <3>6. \A q \in Requests : request'[q].at = "new"
                    \/ (request'[q].at = "issue" /\ Asked(q).op = "signIn") => login[q] = "none"
            BY <2>0, <3>2 DEF Marked
        <3>7. \A q \in Requests :
                 /\ request'[q].at = "use" => Asked(q).op = "totp"
                 /\ Asked(q).op = "totp" /\ request'[q].at \in {"use", "issue"}
                    => /\ ~request'[q].late
                       /\ request'[q].token \in Requests
                       /\ login[request'[q].token] # "none"
                 /\ Asked(q).op = "totp" /\ request'[q].at = "issue"
                    => ~Unspent(request'[q].token)
            BY <2>0, <3>2, <3>3 DEF Marked
        <3> QED BY <2>0, <3>2, <3>5, <3>6, <3>7 DEF Marked, Unspent
    <2>4. CASE TotpSpend(r)
        <3> DEFINE t == request[r].token
        <3>1. /\ request[r].at = "use" /\ Asked(r).op = "totp" /\ UNCHANGED entered
              /\ t \in Requests /\ login[t] # "none" /\ ~request[r].late
            BY <2>4 DEF TotpSpend, Marked
        <3>2. /\ request'[r].at \in {"issue", "refused"} /\ request'[r].token = t
              /\ request'[r].late = request[r].late
              /\ request'[r].at = "issue" => t \in Rows(login)
            <4>1. ASSUME NEW at \in {"issue", "refused"}, Goes(r, at)
                  PROVE  request'[r].at = at /\ request'[r].token = t
                         /\ request'[r].late = request[r].late
                BY <4>1, <1>0 DEF Goes, Request
            <4> QED BY <2>4, <4>1 DEF TotpSpend
        <3>3. /\ \A u \in Requests : login'[u] = login[u] \/ (login[u] # "none" /\ login'[u] = "used")
              /\ login'[t] # "live"
            BY <2>4, <3>1, <1>0 DEF TotpSpend
        <3>4. \A q \in Requests : request'[q].at = "new"
                    \/ (request'[q].at = "issue" /\ Asked(q).op = "signIn") => login'[q] = "none"
            BY <2>0, <3>1, <3>3 DEF Marked
        <3>5. \A q \in Requests :
                 /\ request'[q].at = "use" => Asked(q).op = "totp"
                 /\ Asked(q).op = "totp" /\ request'[q].at \in {"use", "issue"}
                    => /\ ~request'[q].late
                       /\ request'[q].token \in Requests
                       /\ login'[request'[q].token] # "none"
                 /\ Asked(q).op = "totp" /\ request'[q].at = "issue"
                    => ~Unspent(request[q].token)'
            BY <2>0, <3>1, <3>2, <3>3 DEF Marked, Unspent
        <3>6. \A u \in Requests : entered[u] # {} => ~Unspent(u)'
            BY <3>3 DEF Marked, Unspent
        <3>7. \A u \in Requests : \A q \in entered[u] : ~request'[q].late /\ request'[q].at # "new"
            BY <2>0, <3>2, <1>0 DEF Marked
        <3> QED BY <2>0, <3>1, <3>4, <3>5, <3>6, <3>7 DEF Marked, Unspent
    <2>5. CASE TotpSession(r)
        <3> DEFINE t == request[r].token
        <3>1. /\ request[r].at = "issue" /\ Asked(r).op = "totp" /\ UNCHANGED login
              /\ t \in Requests /\ ~Unspent(t) /\ ~request[r].late
            BY <2>5 DEF TotpSession, Marked
        <3>2. request'[r].at \in {"done", "refused"} /\ request'[r].late = request[r].late
            <4>1. ASSUME NEW at \in {"done", "refused"}, Goes(r, at)
                  PROVE  request'[r].at = at /\ request'[r].late = request[r].late
                BY <4>1, <1>0 DEF Goes, Request
            <4> QED BY <2>5, <4>1 DEF TotpSession, OpensSession
        <3>3. \A u \in Requests : \/ entered'[u] = entered[u]
                                  \/ u = t /\ entered'[u] = entered[u] \cup {r}
            BY <2>5, <1>0 DEF TotpSession
        <3>4. \A u \in Requests : entered'[u] # {} => ~Unspent(u)
            BY <3>1, <3>3 DEF Marked
        <3>5. \A u \in Requests : \A q \in entered'[u] :
                 ~request'[q].late /\ request'[q].at # "new"
            BY <2>0, <3>1, <3>2, <3>3, <1>0 DEF Marked
        <3>6. \A q \in Requests : request'[q].at = "new"
                    \/ (request'[q].at = "issue" /\ Asked(q).op = "signIn") => login[q] = "none"
            BY <2>0, <3>2 DEF Marked
        <3>7. \A q \in Requests :
                 /\ request'[q].at = "use" => Asked(q).op = "totp"
                 /\ Asked(q).op = "totp" /\ request'[q].at \in {"use", "issue"}
                    => /\ ~request'[q].late
                       /\ request'[q].token \in Requests
                       /\ login[request'[q].token] # "none"
                 /\ Asked(q).op = "totp" /\ request'[q].at = "issue"
                    => ~Unspent(request'[q].token)
            BY <2>0, <3>2 DEF Marked
        <3> QED BY <2>0, <3>1, <3>4, <3>5, <3>6, <3>7 DEF Marked, Unspent
    <2> QED BY <1>1, <2>1, <2>2, <2>3, <2>4, <2>5 DEF Sessions
<1>2. ASSUME Works PROVE Marked'
    <2>1. UNCHANGED <<request, entered>>
        BY <1>2 DEF Works, Expire, DeleteExpiredTokens
    <2>2. \A t \in Requests : \/ login'[t] = login[t]
                              \/ login[t] # "none" /\ login'[t] \in {"expired", "gone"}
        BY <1>2, <1>0 DEF Works, Expire, DeleteExpiredTokens, Swept
    <2>3. \A q \in Requests :
             /\ Asked(q).op = "totp" /\ request[q].at \in {"use", "issue"}
                => login'[request[q].token] # "none"
             /\ Asked(q).op = "totp" /\ request[q].at = "issue" => ~Unspent(request[q].token)'
        BY <2>1, <2>2 DEF Marked, Unspent
    <2>4. \A t \in Requests : /\ entered[t] # {} => ~Unspent(t)'
                              /\ login[t] = "none" => login'[t] = "none"
        BY <2>2 DEF Marked, Unspent
    <2> QED BY <2>1, <2>3, <2>4 DEF Marked, Asked, Unspent
<1>3. ASSUME UNCHANGED vars PROVE Marked'
    BY <1>3 DEF vars, Marked, Asked, Unspent
<1>4. ASSUME NEW r \in Requests, Step(r) PROVE Marked'
    BY <1>4, <1>1, LoginElsewhere DEF Step
<1> QED BY <1>2, <1>3, <1>4, NextIs

\* A login token that has opened a session opens none for a request that
\* comes later (signInTotp of authTotp.service.ts).
THEOREM LoginTheorem == Spec => []LoginTokenSpent
<1>1. Init => Marked
    BY DEF Init, Marked, Unspent
<1>2. TypeOK /\ Marked /\ [Next]_vars => Marked'
    BY MarkedAgain
<1>3. Marked => LoginTokenSpent
    BY DEF Marked, LoginTokenSpent
<1> QED BY AccountTypeOK, <1>1, <1>2, <1>3, PTL DEF Spec

-----------------------------------------------------------------------------
(* TOTP is verified for a secret the user has given a code for *)

Changing(r) == InFlight(r) /\ Changes(r)

\* One change of the settings at a time, and what it has checked still holds.
Settled ==
    /\ \A r, q \in Requests : Changing(r) /\ Changing(q) => r = q
    /\ \A r \in Requests :
          Changes(r) => request[r].at \in {"new", "guarded", "write", "done", "refused"}
    /\ \A r \in Requests :
          request[r].at = "write" =>
             /\ Asked(r).op = "verify" => user.secret \in confirmed
             /\ Asked(r).op = "enable" => ~user.verified
    /\ VerifiedSecretConfirmed

LEMMA OthersKeep ==
    ASSUME TypeOK, NEW r \in Requests, Step(r), ~Changes(r)
    PROVE  /\ user'.secret = user.secret /\ user'.verified = user.verified
           /\ UNCHANGED confirmed
<1>0. user \in User
    BY DEF TypeOK
<1>1. CASE Sessions(r)
    BY <1>1 DEF Sessions, SignIn, GenerateToken, TotpRead, TotpSpend, TotpSession, SignOut
<1>2. CASE Resets(r)
    BY <1>0, <1>2 DEF Resets, RequestReset, DeleteOldReset, CreateReset, ResetRead, ResetSpend,
       ResetWrite, User
<1>3. CASE Settings(r)
    <2>1. Asked(r).op # "verify" /\ ~TotpWrite(r)
        BY DEF Changes, TotpWrite
    <2> QED BY <1>0, <1>3, <2>1 DEF Settings, GivesPassword, EndSessions, PasswordWrite,
               PasswordSession, TotpCheck, User
<1>4. CASE DeleteUser(r)
    BY <1>0, <1>4 DEF DeleteUser, User
<1> QED BY <1>1, <1>2, <1>3, <1>4 DEF Step

LEMMA SettledAgain ==
    ASSUME ~TotpOverlaps, TypeOK, Settled, [Next]_vars PROVE Settled'
<1>0. user \in User /\ request \in [Requests -> Request]
    BY DEF TypeOK
<1>1. ASSUME NEW r \in Requests, Step(r) PROVE Settled'
    <2>0. /\ \A q \in Requests \ {r} : request'[q] = request[q]
          /\ \A q \in Requests : Asked(q)' = Asked(q) /\ Changes(q)' = Changes(q)
        BY <1>1, OwnStep DEF Own, Asked, Changes
    <2>1. \A q \in Requests \ {r} : Changing(q)' = Changing(q)
        BY <2>0 DEF Changing, InFlight
    <2>2. CASE ~Changes(r)
        <3>1. /\ user'.secret = user.secret /\ user'.verified = user.verified
              /\ UNCHANGED confirmed
            BY <1>1, <2>2, OthersKeep
        <3>2. ~Changing(r)' /\ ~Changing(r) /\ Asked(r).op \notin {"enable", "verify"}
            BY <2>0, <2>2 DEF Changing, Changes
        <3>3. \A p, q \in Requests : Changing(p)' /\ Changing(q)' => p = q
            BY <2>1, <3>2 DEF Settled
        <3>4. \A q \in Requests :
                 Changes(q)' => request'[q].at \in {"new", "guarded", "write", "done", "refused"}
            BY <2>0, <2>2 DEF Settled
        <3>5. \A q \in Requests : request'[q].at = "write" =>
                 /\ Asked(q)'.op = "verify" => user'.secret \in confirmed'
                 /\ Asked(q)'.op = "enable" => ~user'.verified
            BY <2>0, <3>1, <3>2 DEF Settled
        <3> QED BY <3>1, <3>3, <3>4, <3>5 DEF Settled, VerifiedSecretConfirmed
    <2>3. CASE Changes(r)
        <3>1. request[r].at \in {"new", "guarded", "write", "done", "refused"}
              /\ Asked(r).op \in {"enable", "verify", "disable"}
            BY <2>3 DEF Settled, Changes
        <3>2. GivesPassword(r) \/ TotpCheck(r) \/ TotpWrite(r)
            BY <1>1, <3>1 DEF Step, Sessions, SignIn, GenerateToken, TotpRead, TotpSpend,
               TotpSession, SignOut, Resets, RequestReset, DeleteOldReset, CreateReset,
               ResetRead, ResetSpend, ResetWrite, Settings, EndSessions, PasswordWrite,
               PasswordSession, DeleteUser, Starts
        <3>a. ASSUME \A q \in Requests \ {r} : ~Changing(q),
                     request'[r].at \in {"guarded", "write", "done", "refused"},
                     VerifiedSecretConfirmed',
                     request'[r].at = "write" =>
                        /\ Asked(r).op = "verify" => user'.secret \in confirmed'
                        /\ Asked(r).op = "enable" => ~user'.verified
              PROVE  Settled'
            <4>1. \A p, q \in Requests : Changing(p)' /\ Changing(q)' => p = q
                BY <2>1, <3>a
            <4>2. \A q \in Requests :
                     Changes(q)' => request'[q].at \in {"new", "guarded", "write", "done", "refused"}
                BY <2>0, <3>a DEF Settled
            <4>3. \A q \in Requests \ {r} :
                     request'[q].at = "write" => Asked(q).op \notin {"verify", "enable"}
                BY <2>0, <3>a DEF Changing, InFlight, Changes
            <4> QED BY <2>0, <3>a, <4>1, <4>2, <4>3 DEF Settled
        <3>3. CASE GivesPassword(r)
            <4>1. \/ request'[r].at = "guarded" /\ \A q \in Requests \ {r} : ~Changing(q)
                  \/ request'[r].at = "refused"
                <5>1. CASE Goes(r, "refused")
                    BY <5>1, AtMoves
                <5>2. CASE Goes(r, "guarded")
                    BY <3>3, <5>2, <2>3, AtMoves DEF GivesPassword, Changing
                <5> QED BY <3>3, <5>1, <5>2, <2>3 DEF GivesPassword
            <4>2. UNCHANGED <<user, confirmed>> /\ ~Changing(r)
                BY <3>3 DEF GivesPassword, Starts, Changing, InFlight
            <4>3. VerifiedSecretConfirmed'
                BY <4>2 DEF Settled, VerifiedSecretConfirmed
            <4>4. CASE request'[r].at = "guarded" /\ \A q \in Requests \ {r} : ~Changing(q)
                BY <3>a, <4>3, <4>4
            <4>5. CASE request'[r].at = "refused"
                <5>1. ~Changing(r)'
                    BY <4>5 DEF Changing, InFlight
                <5>2. \A p, q \in Requests : Changing(p)' /\ Changing(q)' => p = q
                    BY <2>1, <5>1 DEF Settled
                <5>3. \A q \in Requests :
                         Changes(q)' => request'[q].at \in {"new", "guarded", "write", "done",
                                                            "refused"}
                    BY <2>0, <4>5 DEF Settled
                <5>4. \A q \in Requests : request'[q].at = "write" =>
                         /\ Asked(q)'.op = "verify" => user'.secret \in confirmed'
                         /\ Asked(q)'.op = "enable" => ~user'.verified
                    BY <2>0, <4>2, <4>5 DEF Settled
                <5> QED BY <4>3, <5>2, <5>3, <5>4 DEF Settled
            <4> QED BY <4>1, <4>4, <4>5
        <3>b. ASSUME InFlight(r) PROVE \A q \in Requests \ {r} : ~Changing(q)
            BY <2>3, <3>b DEF Settled, Changing
        <3>4. CASE TotpCheck(r)
            <4>1. InFlight(r) /\ UNCHANGED user /\ confirmed \subseteq confirmed'
                BY <3>4 DEF TotpCheck, InFlight
            <4>2. VerifiedSecretConfirmed'
                BY <4>1 DEF Settled, VerifiedSecretConfirmed
            <4>a. Goes(r, "refused") => request'[r].at = "refused"
                BY AtMoves
            <4>b. Goes(r, "write") => request'[r].at = "write"
                BY AtMoves
            <4>3. CASE Goes(r, "refused")
                BY <3>a, <3>b, <4>a, <4>1, <4>2, <4>3
            <4>4. CASE Goes(r, "write")
                <5>1. /\ Asked(r).op = "verify" => user.secret \in confirmed'
                      /\ Asked(r).op = "enable" => ~user.verified
                    <6>1. Asked(r).op = "verify" /\ user.secret = None => ~Goes(r, "write")
                        <7>1. ASSUME Asked(r).op = "verify", user.secret = None
                              PROVE  request'[r].at = "refused"
                            BY <3>4, <7>1, <4>a DEF TotpCheck
                        <7> QED BY <7>1, <4>b
                    <6>2. Asked(r).op = "enable" /\ user.verified => ~Goes(r, "write")
                        <7>1. ASSUME Asked(r).op = "enable", user.verified
                              PROVE  request'[r].at = "refused"
                            BY <3>4, <7>1, <4>a DEF TotpCheck
                        <7> QED BY <7>1, <4>b
                    <6> QED BY <3>4, <4>4, <6>1, <6>2 DEF TotpCheck
                <5>2. request'[r].at = "write"
                    BY <4>4, <4>b
                <5> QED BY <3>a, <3>b, <4>1, <4>2, <5>1, <5>2
            <4> QED BY <3>4, <4>3, <4>4 DEF TotpCheck
        <3>5. CASE TotpWrite(r)
            <4>1. InFlight(r) /\ request[r].at = "write" /\ UNCHANGED confirmed
                BY <3>5 DEF TotpWrite, InFlight
            <4>2. request'[r].at \in {"done", "refused"}
                BY <3>5, AtMoves DEF TotpWrite
            <4>3. VerifiedSecretConfirmed'
                <5>1. CASE UNCHANGED user
                    BY <4>1, <5>1 DEF Settled, VerifiedSecretConfirmed
                <5>2. CASE Asked(r).op = "enable" /\ user' = [user EXCEPT !.secret = r]
                    BY <1>0, <4>1, <5>2 DEF Settled, VerifiedSecretConfirmed, User
                <5>3. CASE Asked(r).op = "verify" /\ user' = [user EXCEPT !.verified = TRUE]
                    BY <1>0, <4>1, <5>3 DEF Settled, VerifiedSecretConfirmed, User
                <5>4. CASE user' = [user EXCEPT !.secret = None, !.verified = FALSE]
                    BY <1>0, <5>4 DEF VerifiedSecretConfirmed, User
                <5> QED BY <3>1, <3>5, <5>1, <5>2, <5>3, <5>4 DEF TotpWrite
            <4> QED BY <3>a, <3>b, <4>1, <4>2, <4>3
        <3> QED BY <3>2, <3>3, <3>4, <3>5
    <2> QED BY <2>2, <2>3
<1>2. ASSUME Works \/ UNCHANGED vars PROVE Settled'
    <2>1. UNCHANGED <<request, user, confirmed>>
        BY <1>2 DEF Works, Expire, DeleteExpiredTokens, vars
    <2> QED BY <2>1 DEF Settled, VerifiedSecretConfirmed, Changing, Changes, InFlight, Asked
<1> QED BY <1>1, <1>2, NextIs

\* When sign-in asks for a code, it is for a secret the user has given a code
\* for (authTotp.service.ts), if changes of the settings do not overlap.
THEOREM TotpTheorem ==
    ASSUME ~TotpOverlaps PROVE Spec => []VerifiedSecretConfirmed
<1>1. Init => Settled
    <2>1. Init => \A r \in Requests : request[r].at = "new"
        BY DEF Init
    <2> QED BY <2>1 DEF Init, Settled, Changing, InFlight, VerifiedSecretConfirmed
<1>2. TypeOK /\ Settled /\ [Next]_vars => Settled'
    BY SettledAgain
<1>3. Settled => VerifiedSecretConfirmed
    BY DEF Settled
<1> QED BY AccountTypeOK, <1>1, <1>2, <1>3, PTL DEF Spec
=============================================================================
