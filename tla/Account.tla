------------------------------- MODULE Account -------------------------------
(***************************************************************************)
(* One account: its password, its TOTP secret, its sessions (refresh       *)
(* tokens), login tokens and password reset token (auth.service.ts,        *)
(* authTotp.service.ts), the hourly job deleteExpiredTokens, and the       *)
(* deletion of the account, which takes its tokens along.                  *)
(*                                                                         *)
(* Hashing a password, the queries and the updates are all awaited, so     *)
(* requests of the same user overlap at each step.  What a request writes  *)
(* follows from what it read at its beginning: the row JwtStrategy gave    *)
(* it, the token it looked up.  Each request is made once.                 *)
(***************************************************************************)
EXTENDS Naturals, FiniteSets

CONSTANTS
    Requests,      \* request slots; a token has the id of what created it
    Passwords,
    None,          \* no secret, no token
    Workloads,     \* the sets of tasks that go on together, see Task
    TotpOverlaps   \* whether changes of the TOTP settings overlap

VARIABLES
    user,      \* the User row
    session,   \* session[r]: the refresh token r was answered with
    login,     \* login[r]: the login token r was answered with
    reset,     \* reset[r]: the reset token r has mailed
    request,   \* request[r]: a request's continuation
    job,       \* deleteExpiredTokens: the table it deletes from next
    confirmed, \* history: the secrets a code has been given for
    resets,    \* history: resets[t]: the requests that wrote a password with t
    entered    \* history: entered[t]: the requests that got a session with t

vars == <<user, session, login, reset, request, job, confirmed, resets, entered>>

Tokens == Requests \cup {None}

\* A secret has the id of the request that made it; the account may have
\* had one before.
Before == "before"
Secrets == Requests \cup {Before}

\* old is the password given for the account, password the one asked for.
Task == [op: {"signIn", "totp", "request", "reset", "password", "enable", "verify",
              "disable", "signOut", "delete"},
         password: Passwords, old: Passwords]

ASSUME AccountAssumption ==
    /\ None \notin Secrets
    /\ Workloads \subseteq SUBSET Task
    /\ TotpOverlaps \in BOOLEAN

Token == {"none", "live", "used", "expired", "gone"}

User == [here: BOOLEAN, password: Passwords, secret: Secrets \cup {None},
         verified: BOOLEAN]

\* verified is what the request has read; late says that its login token had
\* opened a session before it came.
Request == [at: {"new", "guarded", "replace", "mail", "issue", "use", "spend", "wipe",
                 "write", "done", "refused"},
            task: Task, verified: BOOLEAN, token: Tokens, late: BOOLEAN]

Rows(table) == {t \in Requests : table[t] \in {"live", "used", "expired"}}

TypeOK ==
    /\ user \in User
    /\ session \in [Requests -> Token]
    /\ login \in [Requests -> Token]
    /\ reset \in [Requests -> Token]
    /\ request \in [Requests -> Request]
    /\ job \in {"idle", "login", "reset"}
    /\ confirmed \subseteq Secrets
    /\ resets \in [Requests -> SUBSET Requests]
    /\ entered \in [Requests -> SUBSET Requests]
    /\ ~user.here => Rows(session) \cup Rows(login) \cup Rows(reset) = {}

\* An account with or without TOTP.
Init ==
    /\ \E p \in Passwords, totp \in BOOLEAN :
          user = [here |-> TRUE, password |-> p, verified |-> totp,
                  secret |-> IF totp THEN Before ELSE None]
    /\ \E tasks \in Workloads : \E task \in [Requests -> tasks] :
          request = [r \in Requests |-> [at |-> "new", task |-> task[r], verified |-> FALSE,
                                         token |-> None, late |-> FALSE]]
    /\ session = [r \in Requests |-> "none"]
    /\ login = [r \in Requests |-> "none"]
    /\ reset = [r \in Requests |-> "none"]
    /\ job = "idle"
    /\ confirmed = {Before}
    /\ resets = [r \in Requests |-> {}]
    /\ entered = [r \in Requests |-> {}]

-----------------------------------------------------------------------------
Asked(r) == request[r].task

Goes(r, at) == request' = [request EXCEPT ![r].at = at]

InFlight(r) == request[r].at \notin {"new", "done", "refused"}

Emptied(table) == [t \in Requests |-> IF t \in Rows(table) THEN "gone" ELSE table[t]]

Changes(r) == Asked(r).op \in {"enable", "verify", "disable"}

Starts(r, op) ==
    /\ request[r].at = "new"
    /\ Asked(r).op = op

\* prisma.create with the foreign key to the account.
Inserts(table, r) == IF user.here THEN [table EXCEPT ![r] = "live"] ELSE table

\* createRefreshToken, the last step of a request.
OpensSession(r) ==
    /\ session' = Inserts(session, r)
    /\ Goes(r, IF user.here THEN "done" ELSE "refused")

-----------------------------------------------------------------------------
(* signIn, generateToken and signInTotp *)

\* The row is read; the password is compared with it.
SignIn(r) ==
    /\ Starts(r, "signIn")
    /\ request' = [request EXCEPT
                     ![r].at = IF user.here /\ Asked(r).old = user.password
                               THEN "issue" ELSE "refused",
                     ![r].verified = user.verified]
    /\ UNCHANGED <<user, session, login, reset, job, confirmed, resets, entered>>

GenerateToken(r) ==
    /\ request[r].at = "issue"
    /\ Asked(r).op = "signIn"
    /\ IF request[r].verified
       THEN /\ login' = Inserts(login, r)
            /\ Goes(r, IF user.here THEN "done" ELSE "refused")
            /\ UNCHANGED session
       ELSE OpensSession(r) /\ UNCHANGED login
    /\ UNCHANGED <<user, reset, job, confirmed, resets, entered>>

\* The right code for the secret on record, with any login token.
TotpRead(r) ==
    /\ Starts(r, "totp")
    /\ \E t \in Requests :
          /\ login[t] # "none"
          /\ request' = [request EXCEPT
                           ![r].at = IF login[t] = "live" /\ user.secret # None
                                     THEN "use" ELSE "refused",
                           ![r].token = t,
                           ![r].late = entered[t] # {}]
    /\ UNCHANGED <<user, session, login, reset, job, confirmed, resets, entered>>

\* Mutant of TotpSpend: the token is not marked.
TotpKeeps(r) ==
    /\ request[r].at = "use"
    /\ Goes(r, "issue")
    /\ UNCHANGED <<user, session, login, reset, job, confirmed, resets, entered>>

\* The update throws when the row is gone.
TotpSpend(r) ==
    LET t == request[r].token IN
    /\ request[r].at = "use"
    /\ login' = IF login[t] \in {"live", "used"} THEN [login EXCEPT ![t] = "used"] ELSE login
    /\ Goes(r, IF t \in Rows(login) THEN "issue" ELSE "refused")
    /\ UNCHANGED <<user, session, reset, job, confirmed, resets, entered>>

TotpSession(r) ==
    LET t == request[r].token IN
    /\ request[r].at = "issue" /\ Asked(r).op = "totp"
    /\ OpensSession(r)
    /\ entered' = IF user.here THEN [entered EXCEPT ![t] = @ \cup {r}] ELSE entered
    /\ UNCHANGED <<user, login, reset, job, confirmed, resets>>

SignOut(r) ==
    /\ Starts(r, "signOut")
    /\ \E t \in Requests :
          /\ session[t] # "none"
          /\ session' = [session EXCEPT ![t] = "gone"]
    /\ Goes(r, "done")
    /\ UNCHANGED <<user, login, reset, job, confirmed, resets, entered>>

-----------------------------------------------------------------------------
(* requestResetPassword and resetPassword *)

RequestReset(r) ==
    /\ Starts(r, "request")
    /\ \/ \E t \in Rows(reset) :
             request' = [request EXCEPT ![r].at = "replace", ![r].token = t]
       \/ Rows(reset) = {} /\ Goes(r, IF user.here THEN "mail" ELSE "done")
    /\ UNCHANGED <<user, session, login, reset, job, confirmed, resets, entered>>

DeleteOldReset(r) ==
    LET t == request[r].token IN
    /\ request[r].at = "replace"
    /\ reset' = IF t \in Rows(reset) THEN [reset EXCEPT ![t] = "gone"] ELSE reset
    /\ Goes(r, IF t \in Rows(reset) THEN "mail" ELSE "refused")
    /\ UNCHANGED <<user, session, login, job, confirmed, resets, entered>>

\* One row per account: userId is unique.
CreateReset(r) ==
    LET fits == user.here /\ Rows(reset) = {} IN
    /\ request[r].at = "mail"
    /\ reset' = IF fits THEN [reset EXCEPT ![r] = "live"] ELSE reset
    /\ Goes(r, IF fits THEN "done" ELSE "refused")
    /\ UNCHANGED <<user, session, login, job, confirmed, resets, entered>>

ResetRead(r) ==
    /\ Starts(r, "reset")
    /\ \E t \in Requests :
          /\ reset[t] # "none"
          /\ request' = [request EXCEPT
                           ![r].at = IF reset[t] = "live" THEN "spend" ELSE "refused",
                           ![r].token = t]
    /\ UNCHANGED <<user, session, login, reset, job, confirmed, resets, entered>>

\* Mutant of ResetSpend: deleteMany, which does not mind that the row is gone.
ResetSpendsAgain(r) ==
    LET t == request[r].token IN
    /\ request[r].at = "spend"
    /\ reset' = IF t \in Rows(reset) THEN [reset EXCEPT ![t] = "gone"] ELSE reset
    /\ Goes(r, "write")
    /\ UNCHANGED <<user, session, login, job, confirmed, resets, entered>>

\* delete throws when the row is gone.
ResetSpend(r) ==
    LET t == request[r].token IN
    /\ request[r].at = "spend"
    /\ reset' = IF t \in Rows(reset) THEN [reset EXCEPT ![t] = "gone"] ELSE reset
    /\ Goes(r, IF t \in Rows(reset) THEN "write" ELSE "refused")
    /\ UNCHANGED <<user, session, login, job, confirmed, resets, entered>>

ResetWrite(r) ==
    LET t == request[r].token IN
    /\ request[r].at = "write" /\ Asked(r).op = "reset"
    /\ user' = IF user.here THEN [user EXCEPT !.password = Asked(r).password] ELSE user
    /\ resets' = IF user.here THEN [resets EXCEPT ![t] = @ \cup {r}] ELSE resets
    /\ Goes(r, IF user.here THEN "done" ELSE "refused")
    /\ UNCHANGED <<session, login, reset, job, confirmed, entered>>

-----------------------------------------------------------------------------
(* updatePassword, enableTotp, verifyTotp, disableTotp: JwtStrategy reads  *)
(* the account, and the password given is compared with that of the row.   *)

GivesPassword(r) ==
    /\ \E op \in {"password", "enable", "verify", "disable"} : Starts(r, op)
    /\ TotpOverlaps \/ (Changes(r) => \A q \in Requests : InFlight(q) => ~Changes(q))
    /\ Goes(r, IF ~user.here \/ Asked(r).old # user.password THEN "refused"
               ELSE IF Changes(r) THEN "guarded" ELSE "wipe")
    /\ UNCHANGED <<user, session, login, reset, job, confirmed, resets, entered>>

EndSessions(r) ==
    /\ request[r].at = "wipe"
    /\ session' = Emptied(session)
    /\ Goes(r, "write")
    /\ UNCHANGED <<user, login, reset, job, confirmed, resets, entered>>

PasswordWrite(r) ==
    /\ request[r].at = "write" /\ Asked(r).op = "password"
    /\ user' = IF user.here THEN [user EXCEPT !.password = Asked(r).password] ELSE user
    /\ Goes(r, IF user.here THEN "issue" ELSE "refused")
    /\ UNCHANGED <<session, login, reset, job, confirmed, resets, entered>>

PasswordSession(r) ==
    /\ request[r].at = "issue" /\ Asked(r).op = "password"
    /\ OpensSession(r)
    /\ UNCHANGED <<user, login, reset, job, confirmed, resets, entered>>

\* Mutant of TotpCheck: a verified secret may be replaced.
TotpChecksLess(r) ==
    /\ request[r].at = "guarded"
    /\ Goes(r, IF user.here /\ (Asked(r).op # "enable" => user.secret # None)
               THEN "write" ELSE "refused")
    /\ confirmed' = IF Asked(r).op = "verify" THEN confirmed \cup ({user.secret} \ {None})
                    ELSE confirmed
    /\ UNCHANGED <<user, session, login, reset, job, resets, entered>>

\* enable needs an account without verified TOTP; verify and disable take the
\* code for the secret on record, which the user gives.
TotpCheck(r) ==
    /\ request[r].at = "guarded"
    /\ Goes(r, IF user.here /\ IF Asked(r).op = "enable" THEN ~user.verified
                                ELSE user.secret # None
               THEN "write" ELSE "refused")
    /\ confirmed' = IF Asked(r).op = "verify" THEN confirmed \cup ({user.secret} \ {None})
                    ELSE confirmed
    /\ UNCHANGED <<user, session, login, reset, job, resets, entered>>

TotpWrite(r) ==
    /\ request[r].at = "write" /\ Changes(r)
    /\ user' = IF ~user.here THEN user
               ELSE IF Asked(r).op = "enable" THEN [user EXCEPT !.secret = r]
               ELSE IF Asked(r).op = "verify" THEN [user EXCEPT !.verified = TRUE]
               ELSE [user EXCEPT !.secret = None, !.verified = FALSE]
    /\ Goes(r, IF user.here THEN "done" ELSE "refused")
    /\ UNCHANGED <<session, login, reset, job, confirmed, resets, entered>>

-----------------------------------------------------------------------------
\* Mutant of DeleteUser: the login tokens stay.
DeleteUserOnly(r) ==
    /\ Starts(r, "delete")
    /\ user' = [user EXCEPT !.here = FALSE]
    /\ session' = Emptied(session)
    /\ reset' = Emptied(reset)
    /\ Goes(r, "done")
    /\ UNCHANGED <<login, job, confirmed, resets, entered>>

\* The last step of UserService.delete: the tokens go with the row.
DeleteUser(r) ==
    /\ Starts(r, "delete")
    /\ user' = [user EXCEPT !.here = FALSE]
    /\ session' = Emptied(session)
    /\ login' = Emptied(login)
    /\ reset' = Emptied(reset)
    /\ Goes(r, "done")
    /\ UNCHANGED <<job, confirmed, resets, entered>>

\* A token's time is up: an hour, five minutes, the configured session.
Expire ==
    /\ \E t \in Requests :
          \/ session[t] = "live" /\ session' = [session EXCEPT ![t] = "expired"]
             /\ UNCHANGED <<login, reset>>
          \/ login[t] \in {"live", "used"} /\ login' = [login EXCEPT ![t] = "expired"]
             /\ UNCHANGED <<session, reset>>
          \/ reset[t] = "live" /\ reset' = [reset EXCEPT ![t] = "expired"]
             /\ UNCHANGED <<session, login>>
    /\ UNCHANGED <<user, request, job, confirmed, resets, entered>>

\* Mutant of Swept: tokens that have been used are left.
SweptLess(table) ==
    [t \in Requests |-> IF table[t] = "expired" /\ entered[t] = {} THEN "gone" ELSE table[t]]

Swept(table) == [t \in Requests |-> IF table[t] = "expired" THEN "gone" ELSE table[t]]

\* Three deleteMany in a row.
DeleteExpiredTokens ==
    /\ \/ /\ job = "idle" /\ job' = "login"
          /\ session' = Swept(session) /\ UNCHANGED <<login, reset>>
       \/ /\ job = "login" /\ job' = "reset"
          /\ login' = Swept(login) /\ UNCHANGED <<session, reset>>
       \/ /\ job = "reset" /\ job' = "idle"
          /\ reset' = Swept(reset) /\ UNCHANGED <<session, login>>
    /\ UNCHANGED <<user, request, confirmed, resets, entered>>

-----------------------------------------------------------------------------
Sessions(r) ==
    SignIn(r) \/ GenerateToken(r) \/ TotpRead(r) \/ TotpSpend(r) \/ TotpSession(r) \/ SignOut(r)

Resets(r) ==
    \/ RequestReset(r) \/ DeleteOldReset(r) \/ CreateReset(r)
    \/ ResetRead(r) \/ ResetSpend(r) \/ ResetWrite(r)

Settings(r) ==
    \/ GivesPassword(r) \/ EndSessions(r) \/ PasswordWrite(r) \/ PasswordSession(r)
    \/ TotpCheck(r) \/ TotpWrite(r)

Next ==
    \/ \E r \in Requests : Sessions(r) \/ Resets(r) \/ Settings(r) \/ DeleteUser(r)
    \/ Expire
    \/ DeleteExpiredTokens

Spec == Init /\ [][Next]_vars

FairSpec == Spec /\ WF_vars(DeleteExpiredTokens)

-----------------------------------------------------------------------------
(* A reset token changes the password once, however many requests hold it  *)
(* when it is looked up: delete throws for all of them but one.            *)
ResetOnce == \A t \in Requests : Cardinality(resets[t]) <= 1

(* A login token that has opened a session opens none for a request that   *)
(* comes later.  Requests that overlap get one each: see AccountLoginTwice. *)
LoginTokenSpent == \A t \in Requests : \A r \in entered[t] : ~request[r].late

LoginTokenOnce == \A t \in Requests : Cardinality(entered[t]) <= 1

(* When sign-in asks for a code, it is the code of a secret the user has   *)
(* given a code for already: enabling, verifying and disabling in any      *)
(* order, one after the other, lock nobody out.  See AccountLockedOut.     *)
VerifiedSecretConfirmed == user.verified => user.secret \in confirmed

(* A changed password ends the sessions: no sign-in with a password that   *)
(* is not the account's any more opens one.                                *)
OldPasswordOpensNothing ==
    [][\A r \in Requests :
          (Asked(r).op = "signIn" /\ session'[r] = "live" /\ session[r] # "live")
          => Asked(r).old = user.password]_vars

Expired(t) == "expired" \in {session[t], login[t], reset[t]}

(* An expired token goes, with the hourly job, used or not.                *)
ExpiredTokensGo == \A t \in Requests : Expired(t) ~> ~Expired(t)
=============================================================================
