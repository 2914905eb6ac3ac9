-------------------------------- MODULE Users --------------------------------
(***************************************************************************)
(* The accounts and what makes, changes and removes them (user.service.ts, *)
(* signUp of auth.service.ts, oauth.service.ts): registration, invitation, *)
(* editing, deletion, sign-in through LDAP and through an OAuth provider,  *)
(* linking and unlinking.                                                  *)
(*                                                                         *)
(* Every operation is a handful of queries with awaits in between, and     *)
(* none runs in a transaction: the database keeps e-mail addresses and     *)
(* LDAP names unique and refuses a row whose account is gone, the rest is  *)
(* up to the code.  A request's first step is the query it starts with.    *)
(*                                                                         *)
(* Passwords, TOTP and sessions are in Account.  User names, which are     *)
(* unique too, are left out: the code makes the ones it chooses random.    *)
(***************************************************************************)
EXTENDS Naturals, FiniteSets

CONSTANTS
    Founders,    \* accounts that may be there from the start
    Requests,    \* request slots; an account has the id of what created it
    Emails,
    LdapNames,   \* distinguished names in the directory
    Identities,  \* a user at an OAuth provider
    None,        \* no account, no name
    Tasks,       \* what a request may ask for, see Task
    Overlapping  \* whether requests that can disturb each other overlap

Accounts == Founders \cup Requests

\* What a request asks for; admin is what it says of isAdmin, if anything.
Task == [op: {"signUp", "invite", "update", "delete", "ldap", "oauth", "link", "unlink"},
         user: Accounts \cup {None}, email: Emails \cup {None},
         admin: {"yes", "no", "unset"}, dn: LdapNames \cup {None},
         identity: Identities \cup {None}]

ASSUME UsersAssumption ==
    /\ Founders \cap Requests = {}
    /\ None \notin Founders \cup Requests \cup Emails \cup LdapNames \cup Identities
    /\ Tasks \subseteq Task
    /\ \A t \in Tasks :
          /\ t.op \in {"oauth", "link"} <=> t.identity # None
          /\ t.op \in {"signUp", "invite", "ldap", "oauth"} => t.email # None
          /\ t.op = "ldap" <=> t.dn # None
          /\ t.op \in {"update", "delete", "link", "unlink"} => t.user # None
    /\ Overlapping \in BOOLEAN

VARIABLES
    users,   \* users[u]: the User row, or NoRow
    links,   \* the OAuthUser rows
    request  \* request[r]: a request's continuation

vars == <<users, links, request>>

NoRow == [email |-> None, admin |-> FALSE, dn |-> None]

Row == [email: Emails \cup {None}, admin: BOOLEAN, dn: LdapNames \cup {None}]

\* account is what the request has read or made; flag the count or the
\* isAdmin it has read.
Request == [at: {"new", "count", "create", "guarded", "wipe", "sync", "lookup",
                 "adopt", "promote", "connect", "erase", "done", "refused"},
            task: Tasks, account: Accounts \cup {None}, flag: BOOLEAN]

TypeOK ==
    /\ users \in [Accounts -> Row]
    /\ links \subseteq [id: Requests, identity: Identities, user: Accounts]
    /\ request \in [Requests -> Request]
    /\ \A l \in links : users[l.user] # NoRow

Present == {u \in Accounts : users[u] # NoRow}

Admins == {u \in Accounts : users[u].admin}

\* A server that has run for a while, whose first account made the others,
\* or one that has just been installed.
Init ==
    /\ users \in [Accounts -> Row]
    /\ \A r \in Requests : users[r] = NoRow
    /\ \A u, v \in Present : users[u].email = users[v].email => u = v
    /\ \A u \in Present : users[u].email # None /\ users[u].dn = None
    /\ Present # {} => Admins # {}
    /\ links = {}
    /\ \E task \in [Requests -> Tasks] :
          request = [r \in Requests |->
                       [at |-> "new", task |-> task[r], account |-> None, flag |-> FALSE]]

-----------------------------------------------------------------------------
Asked(r) == request[r].task

Goes(r, at) == request' = [request EXCEPT ![r].at = at]

Finds(r, at, account) ==
    request' = [request EXCEPT ![r].at = at, ![r].account = account]

Holds(email) == {u \in Accounts : email # None /\ users[u].email = email}

InFlight(r) == request[r].at \notin {"new", "done", "refused"}

Disturb(t1, t2) ==
    \/ t1.op = "delete" /\ t2.op = "delete"
    \/ t1.identity # None /\ t1.identity = t2.identity

Starts(r, op) ==
    /\ request[r].at = "new"
    /\ Asked(r).op = op
    /\ Overlapping \/ \A q \in Requests \ {r} :
                         InFlight(q) => ~Disturb(Asked(r), Asked(q))

\* prisma.user.create for r, whose email the database keeps unique (P2002).
Creates(r, admin, at) ==
    IF Holds(Asked(r).email) = {}
    THEN /\ users' = [users EXCEPT ![r] = [email |-> Asked(r).email, admin |-> admin,
                                           dn |-> Asked(r).dn]]
         /\ Finds(r, at, r)
    ELSE UNCHANGED users /\ Goes(r, "refused")

\* prisma.oAuthUser.create: refused by the foreign key if the account is gone.
Connects(r, user, at) ==
    IF user \in Present
    THEN /\ links' = links \cup {[id |-> r, identity |-> Asked(r).identity, user |-> user]}
         /\ Goes(r, at)
    ELSE UNCHANGED links /\ Goes(r, "refused")

-----------------------------------------------------------------------------
(* AuthService.signUp, called by the controller and by OAuthService.signUp *)

SignUpCount(r) ==
    /\ \/ Starts(r, "signUp")
       \/ request[r].at = "count" /\ Asked(r).op = "oauth"
    /\ request' = [request EXCEPT ![r].at = "create", ![r].flag = (Present = {})]
    /\ UNCHANGED <<users, links>>

MadeAdmin(r) ==
    IF Asked(r).admin = "unset" THEN request[r].flag ELSE Asked(r).admin = "yes"

\* Mutant of SignUpCreate: a registration is answered as soon as the account is there.
SignUpAnswers(r) ==
    /\ request[r].at = "create"
    /\ Creates(r, MadeAdmin(r), "done")
    /\ UNCHANGED links

SignUpCreate(r) ==
    /\ request[r].at = "create"
    /\ Creates(r, MadeAdmin(r), IF Asked(r).op = "oauth" THEN "connect" ELSE "done")
    /\ UNCHANGED links

-----------------------------------------------------------------------------
(* UserService: create, update, delete *)

\* AdministratorGuard, on the requester that JwtStrategy has just read.
AdminAsks(r) ==
    /\ Starts(r, "invite") \/ Starts(r, "update")
    /\ Goes(r, IF Admins # {} THEN "guarded" ELSE "refused")
    /\ UNCHANGED <<users, links>>

\* The invitation has been sent by now, whatever becomes of the row.
Invite(r) ==
    /\ request[r].at = "guarded" /\ Asked(r).op = "invite"
    /\ Creates(r, Asked(r).admin = "yes", "done")
    /\ UNCHANGED links

Update(r) ==
    LET t == Asked(r)
        fits == t.user \in Present /\ Holds(t.email) \subseteq {t.user} IN
    /\ request[r].at = "guarded" /\ t.op = "update"
    /\ users' = IF fits
                THEN [users EXCEPT
                        ![t.user] = [email |-> IF t.email = None THEN @.email ELSE t.email,
                                     admin |-> IF t.admin = "unset" THEN @.admin
                                               ELSE t.admin = "yes",
                                     dn |-> @.dn]]
                ELSE users
    /\ Goes(r, IF fits THEN "done" ELSE "refused")
    /\ UNCHANGED links

\* Asked for by an administrator, or by the account's own user.
DeleteRead(r) ==
    LET u == Asked(r).user IN
    /\ Starts(r, "delete")
    /\ Goes(r, IF u \notin Present THEN "refused"
               ELSE IF users[u].admin THEN "count" ELSE "wipe")
    /\ UNCHANGED <<users, links>>

\* Mutant of DeleteCount: every account is counted.
DeleteCountsEveryone(r) ==
    /\ request[r].at = "count" /\ Asked(r).op = "delete"
    /\ Goes(r, IF Cardinality(Present) = 1 THEN "refused" ELSE "wipe")
    /\ UNCHANGED <<users, links>>

DeleteCount(r) ==
    /\ request[r].at = "count" /\ Asked(r).op = "delete"
    /\ Goes(r, IF Cardinality(Admins) = 1 THEN "refused" ELSE "wipe")
    /\ UNCHANGED <<users, links>>

\* Mutant of DeleteRow: the linked identities stay.
DeleteRowOnly(r) ==
    /\ request[r].at = "wipe"
    /\ users' = [users EXCEPT ![Asked(r).user] = NoRow]
    /\ Goes(r, "done")
    /\ UNCHANGED links

\* After the files of its shares; the rows that belong to it go with it.
DeleteRow(r) ==
    LET u == Asked(r).user IN
    /\ request[r].at = "wipe"
    /\ users' = [users EXCEPT ![u] = NoRow]
    /\ links' = {l \in links : l.user # u}
    /\ Goes(r, IF u \in Present THEN "done" ELSE "refused")

-----------------------------------------------------------------------------
(* UserService.findOrCreateFromLDAP *)

LdapUpsert(r) ==
    LET t == Asked(r)
        known == {u \in Accounts : users[u].dn = t.dn} IN
    /\ Starts(r, "ldap")
    /\ UNCHANGED links
    /\ \/ \E u \in known :
             /\ users' = [users EXCEPT ![u].admin = (t.admin = "yes")]
             /\ Finds(r, IF users[u].email = t.email THEN "done" ELSE "sync", u)
       \/ known = {} /\ Creates(r, t.admin = "yes", "done")

\* An error is logged and the sign-in goes on.
LdapSync(r) ==
    LET t == Asked(r)
        u == request[r].account IN
    /\ request[r].at = "sync"
    /\ users' = IF u \in Present /\ Holds(t.email) \subseteq {u}
                THEN [users EXCEPT ![u].email = t.email] ELSE users
    /\ Goes(r, "done")
    /\ UNCHANGED links

-----------------------------------------------------------------------------
(* OAuthService: signIn, signUp, link, unlink *)

LinksOf(identity) == {l \in links : l.identity = identity}

OAuthFind(r) ==
    /\ Starts(r, "oauth")
    /\ \/ \E l \in LinksOf(Asked(r).identity) : Finds(r, "promote", l.user)
       \/ LinksOf(Asked(r).identity) = {} /\ Goes(r, "lookup")
    /\ UNCHANGED <<users, links>>

\* updateIsAdmin, and the user read after it.
OAuthPromote(r) ==
    LET u == request[r].account IN
    /\ request[r].at = "promote"
    /\ users' = IF Asked(r).admin = "yes" /\ u \in Present
                THEN [users EXCEPT ![u].admin = TRUE] ELSE users
    /\ Goes(r, IF u \in Present THEN "done" ELSE "refused")
    /\ UNCHANGED links

\* The registration of an identity nobody has linked.
OAuthLookup(r) ==
    LET same == Holds(Asked(r).email) IN
    /\ request[r].at = "lookup"
    /\ \/ \E u \in same : Finds(r, "adopt", u)
       \/ same = {} /\ Goes(r, "count")
    /\ UNCHANGED <<users, links>>

OAuthAdopt(r) ==
    /\ request[r].at = "adopt"
    /\ Connects(r, request[r].account, "promote")
    /\ UNCHANGED users

OAuthConnect(r) ==
    /\ request[r].at = "connect" /\ Asked(r).op = "oauth"
    /\ Connects(r, r, "done")
    /\ UNCHANGED users

\* Mutant of LinkFind: an identity is linked again.
LinkAnyway(r) ==
    /\ Starts(r, "link")
    /\ Asked(r).user \in Present
    /\ Goes(r, "connect")
    /\ UNCHANGED <<users, links>>

LinkFind(r) ==
    /\ Starts(r, "link")
    /\ Asked(r).user \in Present
    /\ Goes(r, IF LinksOf(Asked(r).identity) = {} THEN "connect" ELSE "refused")
    /\ UNCHANGED <<users, links>>

LinkCreate(r) ==
    /\ request[r].at = "connect" /\ Asked(r).op = "link"
    /\ Connects(r, Asked(r).user, "done")
    /\ UNCHANGED users

\* One provider: the first link of the account that comes up.
UnlinkFind(r) ==
    LET own == {l \in links : l.user = Asked(r).user} IN
    /\ Starts(r, "unlink")
    /\ \/ \E l \in own :
             request' = [request EXCEPT ![r].at = "erase", ![r].account = l.id]
       \/ own = {} /\ Goes(r, "refused")
    /\ UNCHANGED <<users, links>>

UnlinkDelete(r) ==
    LET own == {l \in links : l.id = request[r].account} IN
    /\ request[r].at = "erase"
    /\ links' = links \ own
    /\ Goes(r, IF own = {} THEN "refused" ELSE "done")
    /\ UNCHANGED users

-----------------------------------------------------------------------------
\* The process dies: whatever is in flight stays half done.
Restart ==
    /\ request' = [r \in Requests |->
                     IF InFlight(r) THEN [request[r] EXCEPT !.at = "refused"]
                     ELSE request[r]]
    /\ request' # request
    /\ UNCHANGED <<users, links>>

Registers(r) == SignUpCount(r) \/ SignUpCreate(r)

Administers(r) ==
    AdminAsks(r) \/ Invite(r) \/ Update(r) \/ DeleteRead(r) \/ DeleteCount(r) \/ DeleteRow(r)

SignsInElsewhere(r) ==
    \/ LdapUpsert(r) \/ LdapSync(r)
    \/ OAuthFind(r) \/ OAuthPromote(r) \/ OAuthLookup(r) \/ OAuthAdopt(r)
    \/ OAuthConnect(r)

Links(r) == LinkFind(r) \/ LinkCreate(r) \/ UnlinkFind(r) \/ UnlinkDelete(r)

Next ==
    \/ \E r \in Requests :
          Registers(r) \/ Administers(r) \/ SignsInElsewhere(r) \/ Links(r)
    \/ Restart

Spec == Init /\ [][Next]_vars

-----------------------------------------------------------------------------
(* Once there are accounts, one of them is an administrator: the count in  *)
(* signUp, the count in delete and the guard of the user routes, each of   *)
(* which is acted on later than it was read, leave no server without one.  *)
(* (Deletions one at a time, nobody demoted: see UsersLastAdmin.)          *)
SomeoneIsAdmin == Present # {} => Admins # {}

(* Registration makes an administrator of the first account and of no      *)
(* other: not so when two first registrations overlap.                     *)
OnlyFirstIsAdmin == Cardinality(Admins) <= 1

(* An identity at a provider signs in to one account: link, the adoption   *)
(* of an account by its address and the registration of a new one each     *)
(* check first and write later, and no constraint of the schema helps.     *)
OneAccountPerIdentity ==
    \A l, m \in links : l.identity = m.identity => l = m

(* Whoever signs in through a provider and is answered has an account that *)
(* is there and on record for that identity, unless it was unlinked in the *)
(* meantime: the link is found, or made after an account has been adopted  *)
(* or registered, and a restart halfway through a registration is made     *)
(* good when the same user tries again.                                    *)
SignedInWhereLinked ==
    [][\A r \in Requests :
          (Asked(r).op = "oauth" /\ request[r].at # "done" /\ request'[r].at = "done")
          => /\ request'[r].account \in Present'
             /\ \/ \E l \in links' : /\ l.identity = Asked(r).identity
                                     /\ l.user = request'[r].account
                \/ \E q \in Requests :
                      /\ Asked(q).op = "unlink" /\ request[q].at = "done"
                      /\ Asked(q).user = request'[r].account]_vars
=============================================================================
