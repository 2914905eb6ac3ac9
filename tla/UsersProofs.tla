----------------------------- MODULE UsersProofs -----------------------------
(***************************************************************************)
(* Type correctness of the accounts; that whoever signs in through a       *)
(* provider has an account on record there, whatever overlaps; and, as     *)
(* long as requests that disturb each other do not overlap, that a server  *)
(* with accounts keeps an administrator when nobody is demoted, and that   *)
(* an identity at a provider signs in to one account.  For any number of   *)
(* accounts, requests and identities.                                      *)
(***************************************************************************)
EXTENDS Users, FiniteSetTheorems, TLAPS

Step(r) == Registers(r) \/ Administers(r) \/ SignsInElsewhere(r) \/ Links(r)

\* Where a request can be, by what it asks for.
Stage(r) ==
    LET at == request[r].at
        op == Asked(r).op IN
    /\ at = "create" => op \in {"signUp", "oauth"}
    /\ at = "guarded" => op \in {"invite", "update"}
    /\ at = "count" => op \in {"delete", "oauth"}
    /\ at = "wipe" => op = "delete"
    /\ at \in {"lookup", "adopt", "promote"} => op = "oauth"
    /\ at = "connect" => op \in {"oauth", "link"}
    /\ at \in {"adopt", "promote", "sync"} => request[r].account \in Accounts
    /\ at = "sync" => op = "ldap"

\* Rows have addresses, and what a request is going to make is not there yet.
Typed ==
    /\ TypeOK
    /\ \A u \in Present : users[u].email # None
    /\ \A r \in Requests : Stage(r)
    /\ \A r \in Requests :
          request[r].at \in {"new", "lookup", "count", "create", "guarded"} => users[r] = NoRow

-----------------------------------------------------------------------------
LEMMA TaskType ==
    ASSUME Typed, NEW r \in Requests
    PROVE  /\ Asked(r) \in Tasks /\ Asked(r) \in Task
           /\ Asked(r).op \in {"oauth", "link"} <=> Asked(r).identity # None
           /\ Asked(r).op \in {"signUp", "invite", "ldap", "oauth"} => Asked(r).email # None
           /\ Asked(r).op = "ldap" <=> Asked(r).dn # None
           /\ Asked(r).op \in {"update", "delete", "link", "unlink"} => Asked(r).user # None
BY UsersAssumption DEF Typed, TypeOK, Request, Asked

LEMMA InitTyped == Init => Typed
<1> SUFFICES ASSUME Init PROVE Typed
    OBVIOUS
<1>1. PICK task \in [Requests -> Tasks] :
         request = [r \in Requests |->
                      [at |-> "new", task |-> task[r], account |-> None, flag |-> FALSE]]
    BY DEF Init
<1>2. TypeOK
    BY <1>1 DEF Init, TypeOK, Request
<1>3. \A r \in Requests : Stage(r)
    BY <1>1 DEF Stage
<1> QED BY <1>2, <1>3 DEF Init, Typed

\* A request's step changes its own continuation only, and not its task.
Own(r) ==
    /\ request' \in [Requests -> Request]
    /\ \A q \in Requests \ {r} : request'[q] = request[q]
    /\ request'[r].task = request[r].task
    /\ request'[r].at # "new"

LEMMA OwnStep == ASSUME Typed, NEW r \in Requests, Step(r) PROVE Own(r)
<1>0. request \in [Requests -> Request]
    BY DEF Typed, TypeOK
<1> DEFINE Ats == {"new", "count", "create", "guarded", "wipe", "sync", "lookup",
                 "adopt", "promote", "connect", "erase", "done", "refused"}
<1>a. ASSUME NEW at \in Ats \ {"new"}, Goes(r, at) PROVE Own(r)
    BY <1>0, <1>a DEF Goes, Request, Own
<1>b. ASSUME NEW at \in Ats \ {"new"}, NEW u \in Accounts \cup {None}, Finds(r, at, u) PROVE Own(r)
    BY <1>0, <1>b, ZenonT(30) DEF Finds, Request, Own
<1>c. ASSUME NEW at \in Ats \ {"new"}, NEW admin, Creates(r, admin, at) PROVE Own(r)
    BY <1>a, <1>b, <1>c DEF Creates, Accounts
<1>d. ASSUME NEW at \in Ats \ {"new"}, NEW u, Connects(r, u, at) PROVE Own(r)
    BY <1>a, <1>d DEF Connects
<1>1. CASE Registers(r)
    <2>1. CASE SignUpCount(r)
        <3>1. ASSUME NEW first \in BOOLEAN,
                     request' = [request EXCEPT ![r].at = "create", ![r].flag = first]
              PROVE Own(r)
            BY <1>0, <3>1 DEF Request, Own
        <3>2. (Present = {}) \in BOOLEAN
            OBVIOUS
        <3> QED BY <2>1, <3>1, <3>2 DEF SignUpCount
    <2>2. CASE SignUpCreate(r)
        BY <2>2, <1>c DEF SignUpCreate
    <2> QED BY <1>1, <2>1, <2>2 DEF Registers
<1>2. CASE Administers(r)
    <2>1. CASE AdminAsks(r)
        BY <2>1, <1>a DEF AdminAsks
    <2>2. CASE Invite(r)
        BY <2>2, <1>c DEF Invite
    <2>3. CASE Update(r)
        BY <2>3, <1>a DEF Update
    <2>4. CASE DeleteRead(r)
        BY <2>4, <1>a DEF DeleteRead
    <2>5. CASE DeleteCount(r)
        BY <2>5, <1>a DEF DeleteCount
    <2>6. CASE DeleteRow(r)
        BY <2>6, <1>a DEF DeleteRow
    <2> QED BY <1>2, <2>1, <2>2, <2>3, <2>4, <2>5, <2>6 DEF Administers
<1>3. CASE SignsInElsewhere(r)
    <2>1. CASE LdapUpsert(r)
        BY <2>1, <1>b, <1>c DEF LdapUpsert
    <2>2. CASE LdapSync(r)
        BY <2>2, <1>a DEF LdapSync
    <2>3. CASE OAuthFind(r)
        <3>1. ASSUME NEW l \in LinksOf(Asked(r).identity), Finds(r, "promote", l.user)
              PROVE Own(r)
            BY <3>1, <1>b DEF LinksOf, Typed, TypeOK
        <3> QED BY <2>3, <3>1, <1>a DEF OAuthFind
    <2>4. CASE OAuthPromote(r)
        BY <2>4, <1>a DEF OAuthPromote
    <2>5. CASE OAuthLookup(r)
        BY <2>5, <1>a, <1>b DEF OAuthLookup, Holds
    <2>6. CASE OAuthAdopt(r)
        BY <2>6, <1>d DEF OAuthAdopt
    <2>7. CASE OAuthConnect(r)
        BY <2>7, <1>d DEF OAuthConnect
    <2> QED BY <1>3, <2>1, <2>2, <2>3, <2>4, <2>5, <2>6, <2>7 DEF SignsInElsewhere
<1>4. CASE Links(r)
    <2>1. CASE LinkFind(r)
        BY <2>1, <1>a DEF LinkFind
    <2>2. CASE LinkCreate(r)
        BY <2>2, <1>d DEF LinkCreate
    <2>3. CASE UnlinkFind(r)
        <3>1. ASSUME NEW l \in links,
                     request' = [request EXCEPT ![r].at = "erase", ![r].account = l.id]
              PROVE Own(r)
            <4>1. l.id \in Accounts
                BY DEF Typed, TypeOK, Accounts
            <4> QED BY <1>0, <3>1, <4>1 DEF Request, Own
        <3> QED BY <2>3, <3>1, <1>a DEF UnlinkFind
    <2>4. CASE UnlinkDelete(r)
        BY <2>4, <1>a DEF UnlinkDelete
    <2> QED BY <1>4, <2>1, <2>2, <2>3, <2>4 DEF Links
<1> QED BY <1>1, <1>2, <1>3, <1>4 DEF Step

-----------------------------------------------------------------------------
Early == {"new", "lookup", "count", "create", "guarded"}

\* What the step of r must leave for Typed to hold again.
Sound(r) ==
    /\ users' \in [Accounts -> Row]
    /\ \A u \in Accounts :
          users'[u] # NoRow => users'[u].email # None /\ (u = r \/ users[u] # NoRow)
    /\ links' \subseteq [id: Requests, identity: Identities, user: Accounts]
    /\ \A l \in links' : users'[l.user] # NoRow
    /\ Stage(r)'
    /\ request'[r].at \in Early => users'[r] = NoRow

LEMMA TypedAgain ==
    ASSUME Typed, NEW r \in Requests, Own(r), Sound(r) PROVE Typed'
<1>1. TypeOK'
    BY DEF Own, Sound, TypeOK
<1>2. \A q \in Requests : Stage(q)'
    BY DEF Own, Sound, Stage, Typed, Asked
<1>3. \A q \in Requests : request'[q].at \in Early => users'[q] = NoRow
    BY DEF Own, Sound, Typed, Accounts, Early
<1> QED BY <1>1, <1>2, <1>3 DEF Typed, Sound, Present, Early

LEMMA CreatesSound ==
    ASSUME Typed, NEW r \in Requests, NEW admin \in BOOLEAN, NEW at,
           Asked(r).email # None, Creates(r, admin, at), UNCHANGED links,
           request[r].at \notin {"done", "refused"}, Stage(r)', request'[r].at \notin Early
    PROVE  Sound(r)
<1>1. Asked(r).email \in Emails /\ Asked(r).dn \in LdapNames \cup {None}
    BY TaskType DEF Task
<1>2. r \in Accounts
    BY DEF Accounts
<1>3. \A l \in links : users[l.user] # NoRow /\ l.user \in Accounts
    BY DEF Typed, TypeOK
<1>4. CASE Holds(Asked(r).email) = {}
    <2>1. users' = [users EXCEPT ![r] = [email |-> Asked(r).email, admin |-> admin,
                                          dn |-> Asked(r).dn]]
        BY <1>4 DEF Creates
    <2>2. [email |-> Asked(r).email, admin |-> admin, dn |-> Asked(r).dn] \in Row
        BY <1>1 DEF Row
    <2>3. [email |-> Asked(r).email, admin |-> admin, dn |-> Asked(r).dn] # NoRow
        BY DEF NoRow
    <2> QED BY <2>1, <2>2, <2>3, <1>2, <1>3 DEF Sound, Typed, TypeOK, Present
<1>5. CASE Holds(Asked(r).email) # {}
    BY <1>5, <1>3 DEF Creates, Sound, Typed, TypeOK, Present
<1> QED BY <1>4, <1>5

LEMMA ConnectsSound ==
    ASSUME Typed, NEW r \in Requests, NEW u \in Accounts, NEW at,
           Asked(r).identity # None, Connects(r, u, at), UNCHANGED users,
           Stage(r)', request'[r].at \notin Early
    PROVE  Sound(r)
<1>1. Asked(r).identity \in Identities
    BY TaskType DEF Task
<1> QED BY <1>1 DEF Connects, Sound, Typed, TypeOK, Present

LEMMA UnchangedSound ==
    ASSUME Typed, NEW r \in Requests, UNCHANGED <<users, links>>, Stage(r)',
           request[r].at \in Early \/ request'[r].at \notin Early
    PROVE  Sound(r)
BY DEF Sound, Typed, TypeOK, Present, Early

LEMMA StepSound == ASSUME Typed, NEW r \in Requests, Step(r) PROVE Sound(r)
<1>0. /\ request \in [Requests -> Request] /\ users \in [Accounts -> Row]
      /\ links \subseteq [id: Requests, identity: Identities, user: Accounts]
      /\ \A l \in links : users[l.user] # NoRow
      /\ \A u \in Accounts : users[u] # NoRow => users[u].email # None
      /\ Stage(r)
      /\ request[r].at \in Early => users[r] = NoRow
    BY DEF Typed, TypeOK, Present, Early
<1>t. Asked(r) \in Task /\ Asked(r)' = Asked(r)
    BY TaskType, OwnStep DEF Own, Asked
<1>1. CASE SignUpCount(r)
    <2>1. request[r].at \in Early /\ Stage(r)'
        BY <1>1, <1>0, <1>t DEF SignUpCount, Starts, Stage, Early, Request
    <2> QED BY <2>1, <1>1, UnchangedSound DEF SignUpCount
<1>2. CASE SignUpCreate(r)
    <2>1. Asked(r).op \in {"signUp", "oauth"}
        BY <1>2, <1>0 DEF SignUpCreate, Stage
    <2>2. MadeAdmin(r) \in BOOLEAN
        BY <1>0 DEF MadeAdmin, Request
    <2>3. Stage(r)' /\ request'[r].at \notin Early
        BY <1>2, <2>1, <1>0, <1>t DEF SignUpCreate, Creates, Goes, Finds, Stage, Early, Request
    <2> QED BY <1>2, <2>1, <2>2, <2>3, TaskType, CreatesSound DEF SignUpCreate
<1>3. CASE AdminAsks(r)
    <2>1. request[r].at \in Early /\ Stage(r)'
        BY <1>3, <1>0, <1>t DEF AdminAsks, Goes, Starts, Stage, Early, Request
    <2> QED BY <2>1, <1>3, UnchangedSound DEF AdminAsks
<1>4. CASE Invite(r)
    <2>1. Stage(r)' /\ request'[r].at \notin Early
        BY <1>4, <1>0, <1>t DEF Invite, Creates, Goes, Finds, Stage, Early, Request
    <2> QED BY <1>4, <2>1, TaskType, CreatesSound DEF Invite
<1>5. CASE Update(r)
    <2>1. Stage(r)' /\ request'[r].at \notin Early
        BY <1>5, <1>0, <1>t DEF Update, Goes, Stage, Early, Request
    <2>2. CASE ~(Asked(r).user \in Present /\ Holds(Asked(r).email) \subseteq {Asked(r).user})
        BY <2>1, <2>2, <1>5, UnchangedSound DEF Update
    <2>3. CASE Asked(r).user \in Present /\ Holds(Asked(r).email) \subseteq {Asked(r).user}
        <3> DEFINE u == Asked(r).user
                   e == IF Asked(r).email = None THEN users[u].email ELSE Asked(r).email
                   b == IF Asked(r).admin = "unset" THEN users[u].admin
                        ELSE Asked(r).admin = "yes"
        <3>a. u \in Accounts /\ users[u] # NoRow /\ users[u] \in Row
            BY <2>3, <1>0 DEF Present
        <3>b. e \in Emails /\ e # None /\ b \in BOOLEAN /\ users[u].dn \in LdapNames \cup {None}
            BY <3>a, <1>0, <1>t DEF Row, Task
        <3>c. users' = [users EXCEPT ![u] = [email |-> e, admin |-> b, dn |-> users[u].dn]]
            BY <1>5, <2>3, <3>a, <1>0 DEF Update, Row
        <3>d. NoRow.email = None
            BY DEF NoRow
        <3>e. [email |-> e, admin |-> b, dn |-> users[u].dn] \in Row
            BY <3>b DEF Row
        <3> HIDE DEF e, b
        <3>1. /\ users' \in [Accounts -> Row]
              /\ \A v \in Accounts : users'[v] # NoRow => users[v] # NoRow
              /\ \A v \in Accounts : users[v] # NoRow => users'[v].email # None
            BY <3>a, <3>b, <3>c, <3>d, <3>e, <1>0
        <3>2. \A v \in Accounts : users[v] # NoRow => users'[v] # NoRow
            BY <3>1, <3>d
        <3> QED BY <3>1, <3>2, <2>1, <1>0, <1>5 DEF Sound, Update
    <2> QED BY <2>2, <2>3
<1>6. CASE DeleteRead(r)
    <2>1. request[r].at \in Early /\ Stage(r)'
        BY <1>6, <1>0, <1>t DEF DeleteRead, Goes, Starts, Stage, Early, Request
    <2> QED BY <2>1, <1>6, UnchangedSound DEF DeleteRead
<1>7. CASE DeleteCount(r)
    <2>1. request[r].at \in Early /\ Stage(r)'
        BY <1>7, <1>0, <1>t DEF DeleteCount, Goes, Stage, Early, Request
    <2> QED BY <2>1, <1>7, UnchangedSound DEF DeleteCount
<1>8. CASE DeleteRow(r)
    <2>1. Stage(r)' /\ request'[r].at \notin Early
        BY <1>8, <1>0, <1>t DEF DeleteRow, Goes, Stage, Early, Request
    <2>2. NoRow \in Row
        BY DEF NoRow, Row
    <2>3. /\ users' \in [Accounts -> Row]
          /\ \A u \in Accounts : users'[u] # NoRow => users'[u] = users[u]
          /\ \A l \in links' : l \in links /\ users'[l.user] = users[l.user]
        BY <1>8, <2>2, <1>0 DEF DeleteRow
    <2> QED BY <2>1, <2>3, <1>0 DEF Sound
<1>9. CASE LdapUpsert(r)
    <2>1. Asked(r).op = "ldap" /\ Asked(r).email # None /\ Asked(r).dn # None
        BY <1>9, TaskType DEF LdapUpsert, Starts
    <2>2. ASSUME NEW u \in Accounts, users[u].dn = Asked(r).dn,
                 users' = [users EXCEPT ![u].admin = (Asked(r).admin = "yes")],
                 Finds(r, IF users[u].email = Asked(r).email THEN "done" ELSE "sync", u)
          PROVE  Sound(r)
        <3>1. users[u] # NoRow
            BY <2>1, <2>2 DEF NoRow
        <3>2. Stage(r)' /\ request'[r].at \notin Early
            BY <2>1, <2>2, <1>0, <1>t DEF Finds, Stage, Early, Request
        <3>3. /\ users' \in [Accounts -> Row]
              /\ \A v \in Accounts : users'[v].email = users[v].email
              /\ \A v \in Accounts : v # u => users'[v] = users[v]
            BY <2>2, <1>0, ZenonT(30) DEF Row
        <3>4. \A v \in Accounts : users'[v] # NoRow <=> users[v] # NoRow
            BY <3>1, <3>3, <1>0 DEF NoRow
        <3> QED BY <3>2, <3>3, <3>4, <1>0, <1>9 DEF Sound, LdapUpsert
    <2>3. CASE Creates(r, Asked(r).admin = "yes", "done")
        <3>1. Stage(r)' /\ request'[r].at \notin Early
            BY <2>1, <2>3, <1>0, <1>t DEF Creates, Goes, Finds, Stage, Early, Request
        <3>2. (Asked(r).admin = "yes") \in BOOLEAN
            OBVIOUS
        <3> QED BY <1>9, <2>1, <2>3, <3>1, <3>2, CreatesSound DEF LdapUpsert, Starts
    <2> QED BY <1>9, <2>2, <2>3 DEF LdapUpsert
<1>10. CASE LdapSync(r)
    <2>1. Stage(r)' /\ request'[r].at \notin Early /\ Asked(r).email # None
        BY <1>10, <1>0, <1>t, TaskType DEF LdapSync, Goes, Stage, Early, Request
    <2>2. CASE request[r].account \in Present /\ Holds(Asked(r).email) \subseteq {request[r].account}
        <3>1. /\ users' \in [Accounts -> Row]
              /\ \A u \in Accounts : users'[u] # NoRow => users[u] # NoRow
              /\ \A u \in Accounts : users[u] # NoRow => users'[u].email # None
            <4> DEFINE u0 == request[r].account
                       e == Asked(r).email
            <4>1. /\ users' = [users EXCEPT ![u0].email = e]
                  /\ u0 \in Accounts /\ users[u0] # NoRow /\ e \in Emails /\ e # None
                BY <1>10, <2>1, <2>2, <1>t DEF LdapSync, Present, Task
            <4> HIDE DEF u0, e
            <4> QED BY <4>1, <1>0 DEF Row, NoRow
        <3>a. NoRow.email = None
            BY DEF NoRow
        <3>2. \A u \in Accounts : users[u] # NoRow => users'[u] # NoRow
            BY <3>1, <3>a
        <3> QED BY <3>1, <3>2, <2>1, <1>0, <1>10 DEF Sound, LdapSync
    <2> QED BY <1>10, <2>1, <2>2, UnchangedSound DEF LdapSync
<1>11. CASE OAuthFind(r)
    <2>1. request[r].at \in Early
        BY <1>11 DEF OAuthFind, Starts, Early
    <2>2. Stage(r)'
        <3>1. ASSUME NEW l \in LinksOf(Asked(r).identity), Finds(r, "promote", l.user)
              PROVE Stage(r)'
            BY <3>1, <1>11, <1>0, <1>t, ZenonT(30) DEF OAuthFind, Starts, Finds, LinksOf, Stage, Request
        <3>2. CASE Goes(r, "lookup")
            BY <3>2, <1>11, <1>0, <1>t DEF OAuthFind, Starts, Goes, Stage, Request
        <3> QED BY <1>11, <3>1, <3>2 DEF OAuthFind
    <2> QED BY <2>1, <2>2, <1>11, UnchangedSound DEF OAuthFind
<1>12. CASE OAuthPromote(r)
    <2>1. Stage(r)' /\ request'[r].at \notin Early
        BY <1>12, <1>0, <1>t DEF OAuthPromote, Goes, Stage, Early, Request
    <2>2. CASE request[r].account \in Present /\ Asked(r).admin = "yes"
        <3>1. /\ users' \in [Accounts -> Row]
              /\ \A u \in Accounts : users'[u].email = users[u].email
              /\ \A u \in Accounts : users'[u] # NoRow => users[u] # NoRow
            BY <1>12, <2>2, <1>0 DEF OAuthPromote, Present, Row
        <3>2. \A u \in Accounts : users[u] # NoRow => users'[u] # NoRow
            BY <3>1, <1>0 DEF NoRow
        <3> QED BY <3>1, <3>2, <2>1, <1>0, <1>12 DEF Sound, OAuthPromote
    <2> QED BY <1>12, <2>1, <2>2, UnchangedSound DEF OAuthPromote
<1>13. CASE OAuthLookup(r)
    <2>1. request[r].at \in Early /\ Stage(r)'
        BY <1>13, <1>0, <1>t DEF OAuthLookup, Goes, Finds, Holds, Stage, Early, Request
    <2> QED BY <2>1, <1>13, UnchangedSound DEF OAuthLookup
<1>14. CASE OAuthAdopt(r)
    <2>1. Stage(r)' /\ request'[r].at \notin Early /\ Asked(r).op = "oauth"
        BY <1>14, <1>0, <1>t DEF OAuthAdopt, Connects, Goes, Stage, Early, Request
    <2>2. request[r].account \in Accounts
        BY <1>14, <1>0 DEF OAuthAdopt, Stage
    <2> QED BY <1>14, <2>1, <2>2, TaskType, ConnectsSound DEF OAuthAdopt
<1>15. CASE OAuthConnect(r)
    <2>1. Stage(r)' /\ request'[r].at \notin Early
        BY <1>15, <1>0, <1>t DEF OAuthConnect, Connects, Goes, Stage, Early, Request
    <2> QED BY <1>15, <2>1, TaskType, ConnectsSound DEF OAuthConnect, Accounts
<1>16. CASE LinkFind(r)
    <2>1. request[r].at \in Early /\ Stage(r)'
        BY <1>16, <1>0, <1>t DEF LinkFind, Goes, Starts, Stage, Early, Request
    <2> QED BY <2>1, <1>16, UnchangedSound DEF LinkFind
<1>17. CASE LinkCreate(r)
    <2>1. Stage(r)' /\ request'[r].at \notin Early
        BY <1>17, <1>0, <1>t DEF LinkCreate, Connects, Goes, Stage, Early, Request
    <2>2. Asked(r).user \in Accounts
        BY <1>17, <1>t, TaskType DEF LinkCreate, Task
    <2> QED BY <1>17, <2>1, <2>2, TaskType, ConnectsSound DEF LinkCreate
<1>18. CASE UnlinkFind(r)
    <2>1. request[r].at \in Early /\ Stage(r)'
        BY <1>18, <1>0, <1>t DEF UnlinkFind, Goes, Starts, Stage, Early, Request
    <2> QED BY <2>1, <1>18, UnchangedSound DEF UnlinkFind
<1>19. CASE UnlinkDelete(r)
    <2>1. Stage(r)' /\ request'[r].at \notin Early
        BY <1>19, <1>0, <1>t DEF UnlinkDelete, Goes, Stage, Early, Request
    <2> QED BY <1>19, <2>1, <1>0 DEF UnlinkDelete, Sound
<1> QED BY <1>1, <1>2, <1>3, <1>4, <1>5, <1>6, <1>7, <1>8, <1>9, <1>10, <1>11, <1>12, <1>13,
           <1>14, <1>15, <1>16, <1>17, <1>18, <1>19
        DEF Step, Registers, Administers, SignsInElsewhere, Links

LEMMA RestartTyped == ASSUME Typed, Restart PROVE Typed'
<1>1. /\ request' \in [Requests -> Request]
      /\ \A r \in Requests : /\ request'[r].task = request[r].task
                             /\ request'[r].account = request[r].account
                             /\ \/ request'[r].at = request[r].at
                                \/ request'[r].at = "refused"
    BY DEF Restart, Typed, TypeOK, Request
<1>2. TypeOK'
    BY <1>1 DEF Restart, Typed, TypeOK
<1>3. \A r \in Requests : Stage(r)'
    BY <1>1 DEF Typed, Stage, Asked
<1> QED BY <1>1, <1>2, <1>3 DEF Restart, Typed, Present

LEMMA AlwaysTyped == Spec => []Typed
<1>1. ASSUME Typed, [Next]_vars PROVE Typed'
    <2>1. CASE \E r \in Requests : Step(r)
        BY <1>1, <2>1, OwnStep, StepSound, TypedAgain
    <2>2. CASE Restart
        BY <1>1, <2>2, RestartTyped
    <2>3. CASE UNCHANGED vars
        BY <1>1, <2>3 DEF vars, Typed, TypeOK, Present, Stage, Asked
    <2> QED BY <1>1, <2>1, <2>2, <2>3 DEF Next, Step
<1> QED BY InitTyped, <1>1, PTL DEF Spec

\* Type correctness of accounts, links and requests, no link to an account
\* that is gone included (user.service.ts, oauth.service.ts, schema.prisma).
THEOREM UsersTypeOK == Spec => []TypeOK
<1>1. Typed => TypeOK
    BY DEF Typed
<1> QED BY <1>1, AlwaysTyped, PTL

-----------------------------------------------------------------------------
(* Requests that disturb each other do not overlap *)

Serial ==
    \A r, q \in Requests :
       r # q /\ InFlight(r) /\ InFlight(q) => ~Disturb(Asked(r), Asked(q))

LEMMA StartsAlone ==
    ASSUME ~Overlapping, NEW r \in Requests, Step(r), request[r].at \in {"new", "done", "refused"}
    PROVE  \A q \in Requests \ {r} : InFlight(q) => ~Disturb(Asked(r), Asked(q))
BY DEF Step, Registers, Administers, SignsInElsewhere, Links, Starts, SignUpCount,
       SignUpCreate, AdminAsks, Invite, Update, DeleteRead, DeleteCount, DeleteRow,
       LdapUpsert, LdapSync, OAuthFind, OAuthPromote, OAuthLookup, OAuthAdopt,
       OAuthConnect, LinkFind, LinkCreate, UnlinkFind, UnlinkDelete

LEMMA SerialAgain ==
    ASSUME ~Overlapping, Typed, Serial, [Next]_vars PROVE Serial'
<1>1. ASSUME NEW r \in Requests, Step(r) PROVE Serial'
    <2>1. Own(r)
        BY <1>1, OwnStep
    <2>2. \A q \in Requests : Asked(q)' = Asked(q)
        BY <2>1 DEF Own, Asked
    <2>3. \A q \in Requests \ {r} : InFlight(q)' = InFlight(q)
        BY <2>1 DEF Own, InFlight
    <2>4. \A q \in Requests \ {r} : InFlight(q) => ~Disturb(Asked(r), Asked(q))
        BY <1>1, StartsAlone DEF Serial, InFlight
    <2>5. \A q \in Requests \ {r} : InFlight(q) => ~Disturb(Asked(q), Asked(r))
        BY <2>4 DEF Disturb
    <2> HIDE DEF Serial
    <2>6. ASSUME NEW p \in Requests, NEW q \in Requests, p # q, InFlight(p)', InFlight(q)'
          PROVE  ~Disturb(Asked(p), Asked(q))'
        <3>1. (~Disturb(Asked(p), Asked(q)))' = ~Disturb(Asked(p), Asked(q))
            BY <2>2 DEF Disturb
        <3>2. CASE p = r
            BY <3>1, <3>2, <2>6, <2>3, <2>4
        <3>3. CASE q = r
            BY <3>1, <3>3, <2>6, <2>3, <2>5
        <3>4. CASE p # r /\ q # r
            BY <3>1, <3>4, <2>6, <2>3 DEF Serial
        <3> QED BY <3>2, <3>3, <3>4
    <2> QED BY <2>6 DEF Serial
<1>2. ASSUME Restart PROVE Serial'
    BY <1>2 DEF Restart, Typed, TypeOK, Request, Serial, InFlight, Asked, Disturb
<1>3. ASSUME UNCHANGED vars PROVE Serial'
    BY <1>3 DEF vars, Serial, InFlight, Asked, Disturb
<1> QED BY <1>1, <1>2, <1>3 DEF Next, Step

LEMMA InitSerial == Init => Serial
<1> SUFFICES ASSUME Init PROVE Serial
    OBVIOUS
<1>1. \A r \in Requests : request[r].at = "new"
    BY DEF Init
<1> QED BY <1>1 DEF Serial, InFlight

-----------------------------------------------------------------------------
(* One account per identity *)

Unlinking == {"lookup", "adopt", "count", "create", "connect"}

\* Whoever is about to link an identity has found it free, and it still is.
Unlinked ==
    \A r \in Requests :
       request[r].at \in Unlinking /\ Asked(r).identity # None
       => LinksOf(Asked(r).identity) = {}

NewLink(r, u) == [id |-> r, identity |-> Asked(r).identity, user |-> u]

LEMMA LinkStep ==
    ASSUME Typed, NEW r \in Requests, Step(r)
    PROVE  /\ \/ links' \subseteq links
              \/ /\ request[r].at \in {"adopt", "connect"}
                 /\ request'[r].at \notin Unlinking
                 /\ \E u \in Accounts : links' = links \cup {NewLink(r, u)}
           /\ request'[r].at \in Unlinking /\ Asked(r).identity # None
              => /\ links' = links
                 /\ request[r].at \in Unlinking \/ LinksOf(Asked(r).identity) = {}
<1>0. request \in [Requests -> Request] /\ Stage(r)
    BY DEF Typed, TypeOK
<1>1. CASE Registers(r)
    <2>1. UNCHANGED links
        BY <1>1 DEF Registers, SignUpCount, SignUpCreate
    <2>2. CASE SignUpCount(r)
        BY <2>1, <2>2, TaskType DEF SignUpCount, Starts, Unlinking
    <2>3. CASE SignUpCreate(r)
        BY <2>1, <2>3 DEF SignUpCreate, Unlinking
    <2> QED BY <1>1, <2>2, <2>3 DEF Registers
<1>2. CASE Administers(r)
    <2>1. Asked(r).op \notin {"oauth", "link"}
        BY <1>0, <1>2 DEF Administers, AdminAsks, Invite, Update, DeleteRead, DeleteCount,
           DeleteRow, Starts, Stage
    <2>2. Asked(r).identity = None
        BY <2>1, TaskType
    <2>3. links' \subseteq links
        BY <1>2 DEF Administers, AdminAsks, Invite, Update, DeleteRead, DeleteCount, DeleteRow
    <2> QED BY <2>2, <2>3
<1>3. ASSUME NEW u \in Accounts, Connects(r, u, "promote") \/ Connects(r, u, "done"),
             request[r].at \in {"adopt", "connect"}
      PROVE  /\ \/ links' = links
                \/ links' = links \cup {NewLink(r, u)}
             /\ request'[r].at \notin Unlinking
    BY <1>0, <1>3 DEF Connects, Goes, NewLink, Unlinking, Request
<1>4. CASE SignsInElsewhere(r)
    <2>0. CASE LdapUpsert(r)
        <3>1. Asked(r).identity = None
            BY <2>0, TaskType DEF LdapUpsert, Starts
        <3> QED BY <2>0, <3>1 DEF LdapUpsert
    <2>1. CASE LdapSync(r) \/ OAuthPromote(r)
        BY <1>0, <2>1 DEF LdapSync, OAuthPromote, Goes, Unlinking, Request
    <2>2. CASE OAuthFind(r)
        <3>1. ASSUME NEW u, Finds(r, "promote", u) PROVE request'[r].at \notin Unlinking
            BY <1>0, <3>1 DEF Finds, Unlinking, Request
        <3> QED BY <2>2, <3>1 DEF OAuthFind
    <2>3. CASE OAuthLookup(r)
        BY <2>3 DEF OAuthLookup, Unlinking
    <2>5. CASE OAuthAdopt(r)
        <3>1. request[r].account \in Accounts
            BY <1>0, <2>5 DEF OAuthAdopt, Stage
        <3> QED BY <1>3, <2>5, <3>1 DEF OAuthAdopt
    <2>4. CASE OAuthConnect(r)
        BY <1>3, <2>4 DEF OAuthConnect, Accounts
    <2> QED BY <1>4, <2>0, <2>1, <2>2, <2>3, <2>4, <2>5 DEF SignsInElsewhere
<1>5. CASE Links(r)
    <2>1. CASE LinkFind(r)
        BY <1>0, <2>1 DEF LinkFind, Goes, Unlinking, Request
    <2>2. CASE LinkCreate(r)
        <3>1. Asked(r).user \in Accounts
            BY <2>2, TaskType DEF LinkCreate, Task
        <3> QED BY <1>3, <2>2, <3>1 DEF LinkCreate
    <2>3. CASE UnlinkFind(r) \/ UnlinkDelete(r)
        BY <1>0, <2>3 DEF UnlinkFind, UnlinkDelete, Goes, Unlinking, Request
    <2> QED BY <1>5, <2>1, <2>2, <2>3 DEF Links
<1> QED BY <1>1, <1>2, <1>4, <1>5 DEF Step

LEMMA LinksAgain ==
    ASSUME Typed, Serial, OneAccountPerIdentity, Unlinked, [Next]_vars
    PROVE  OneAccountPerIdentity' /\ Unlinked'
<1>1. ASSUME NEW r \in Requests, Step(r) PROVE OneAccountPerIdentity' /\ Unlinked'
    <2>1. Own(r)
        BY <1>1, OwnStep
    <2>2. \A q \in Requests : Asked(q)' = Asked(q)
        BY <2>1 DEF Own, Asked
    <2>3. \A q \in Requests \ {r} : request'[q] = request[q]
        BY <2>1 DEF Own
    <2>4. CASE links' \subseteq links
        <3>1. OneAccountPerIdentity'
            BY <2>4 DEF OneAccountPerIdentity
        <3>2. ASSUME NEW q \in Requests, request'[q].at \in Unlinking,
                     Asked(q).identity # None
              PROVE  LinksOf(Asked(q).identity)' = {}
            <4>1. LinksOf(Asked(q).identity) = {}
                BY <1>1, <2>3, <3>2, LinkStep DEF Unlinked
            <4> QED BY <4>1, <2>2, <2>4 DEF LinksOf
        <3> QED BY <2>2, <3>1, <3>2 DEF Unlinked
    <2>5. CASE /\ request[r].at \in {"adopt", "connect"}
               /\ request'[r].at \notin Unlinking
               /\ \E u \in Accounts : links' = links \cup {NewLink(r, u)}
        <3>1. Asked(r).identity # None /\ InFlight(r)
            BY <2>5, TaskType DEF Typed, Stage, InFlight
        <3>2. LinksOf(Asked(r).identity) = {}
            BY <2>5, <3>1 DEF Unlinked, Unlinking
        <3>3. OneAccountPerIdentity'
            BY <2>5, <3>2 DEF OneAccountPerIdentity, LinksOf, NewLink
        <3>4. ASSUME NEW q \in Requests, request'[q].at \in Unlinking,
                     Asked(q).identity # None
              PROVE  LinksOf(Asked(q).identity)' = {}
            <4>1. q # r /\ request[q].at \in Unlinking
                BY <2>3, <2>5, <3>4
            <4>2. InFlight(q)
                BY <4>1 DEF InFlight, Unlinking
            <4>3. Asked(q).identity # Asked(r).identity
                BY <3>1, <3>4, <4>1, <4>2 DEF Serial, Disturb
            <4>4. LinksOf(Asked(q).identity) = {}
                BY <3>4, <4>1 DEF Unlinked
            <4> QED BY <2>2, <2>5, <4>3, <4>4 DEF LinksOf, NewLink
        <3> QED BY <2>2, <3>3, <3>4 DEF Unlinked
    <2> QED BY <1>1, <2>4, <2>5, LinkStep
<1>2. ASSUME Restart PROVE OneAccountPerIdentity' /\ Unlinked'
    <2>1. \A q \in Requests : /\ Asked(q)' = Asked(q)
                              /\ \/ request'[q].at = request[q].at
                                 \/ request'[q].at = "refused"
        BY <1>2 DEF Restart, Typed, TypeOK, Request, Asked
    <2> QED BY <1>2, <2>1 DEF Restart, OneAccountPerIdentity, Unlinked, Unlinking, LinksOf
<1>3. ASSUME UNCHANGED vars PROVE OneAccountPerIdentity' /\ Unlinked'
    BY <1>3 DEF vars, OneAccountPerIdentity, Unlinked, LinksOf, Asked
<1> QED BY <1>1, <1>2, <1>3 DEF Next, Step

\* An identity at a provider signs in to one account, when requests for the
\* same identity do not overlap: what signIn, signUp and link of
\* oauth.service.ts find free stays free until they write their row.
THEOREM IdentityTheorem ==
    ASSUME ~Overlapping PROVE Spec => []OneAccountPerIdentity
<1>1. Init => OneAccountPerIdentity /\ Unlinked
    BY DEF Init, OneAccountPerIdentity, Unlinked, LinksOf
<1>2. Serial /\ Typed /\ Typed' /\ [Next]_vars => Serial'
    BY SerialAgain
<1>3. Serial /\ Typed /\ OneAccountPerIdentity /\ Unlinked /\ [Next]_vars
      => (OneAccountPerIdentity /\ Unlinked)'
    BY LinksAgain
<1> QED BY InitSerial, AlwaysTyped, <1>1, <1>2, <1>3, PTL DEF Spec

-----------------------------------------------------------------------------
(* A server with accounts has an administrator *)

\* No request takes the right away or creates the first account without it.
NobodyDemoted ==
    \A t \in Tasks :
       /\ t.op \in {"signUp", "update", "ldap", "oauth"} => t.admin # "no"
       /\ t.op = "ldap" => t.admin = "yes"

\* What a request has read of the administrators that still holds.
Relies(r) ==
    LET at == request[r].at IN
    /\ at = "create" /\ ~request[r].flag => Admins # {}
    /\ at = "guarded" => Admins # {}
    /\ at = "count" /\ Asked(r).op = "delete" => Admins # {}
    /\ at = "wipe" => \E v \in Admins : v # Asked(r).user

\* Nobody loses the right, and whoever comes first has it.
Keeps == Admins \subseteq Admins' /\ (Admins' = {} => Present' = {})

LEMMA CreatesKeeps ==
    ASSUME Typed, SomeoneIsAdmin, NEW r \in Requests, NEW admin \in BOOLEAN, NEW at,
           Creates(r, admin, at), users[r] = NoRow, admin \/ Admins # {}
    PROVE  Keeps
<1>0. users \in [Accounts -> Row] /\ r \in Accounts
    BY DEF Typed, TypeOK, Accounts
<1>1. CASE UNCHANGED users
    BY <1>1 DEF Keeps, SomeoneIsAdmin, Admins, Present
<1>2. CASE users' = [users EXCEPT ![r] = [email |-> Asked(r).email, admin |-> admin,
                                           dn |-> Asked(r).dn]]
    <2>1. users'[r].admin = admin /\ users[r].admin = FALSE
        BY <1>0, <1>2 DEF NoRow
    <2>2. \A u \in Accounts \ {r} : users'[u] = users[u]
        BY <1>0, <1>2
    <2>3. Admins \subseteq Admins'
        BY <2>1, <2>2 DEF Admins
    <2>4. Admins' # {}
        BY <1>0, <2>1, <2>3 DEF Admins
    <2> QED BY <2>3, <2>4 DEF Keeps
<1> QED BY <1>1, <1>2 DEF Creates

\* Every step but the last of a deletion keeps the administrators.
LEMMA StepKeeps ==
    ASSUME NobodyDemoted, Typed, SomeoneIsAdmin, NEW r \in Requests, Relies(r), Step(r),
           request[r].at # "wipe"
    PROVE  Keeps
<1>0. /\ users \in [Accounts -> Row] /\ request \in [Requests -> Request] /\ Stage(r)
      /\ request[r].at \in Early => users[r] = NoRow
    BY DEF Typed, TypeOK, Early
<1>t. /\ Asked(r).op \in {"signUp", "update", "ldap", "oauth"} => Asked(r).admin # "no"
      /\ Asked(r).op = "ldap" => Asked(r).admin = "yes"
    BY TaskType DEF NobodyDemoted
<1>a. ASSUME UNCHANGED users PROVE Keeps
    BY <1>a DEF Keeps, SomeoneIsAdmin, Admins, Present
<1>b. ASSUME NEW u \in Accounts, NEW row, row.admin \/ ~users[u].admin,
             u \in Present, users' = [users EXCEPT ![u] = row]
      PROVE  Keeps
    <2>1. Admins \subseteq Admins'
        BY <1>0, <1>b DEF Admins
    <2>2. Admins # {}
        BY <1>b DEF SomeoneIsAdmin
    <2> QED BY <2>1, <2>2 DEF Keeps
<1>1. CASE Registers(r)
    <2>1. CASE SignUpCount(r)
        BY <2>1, <1>a DEF SignUpCount
    <2>2. CASE SignUpCreate(r)
        <3>1. Asked(r).admin # "no" /\ request[r].at = "create"
            BY <2>2, <1>0, <1>t DEF SignUpCreate, Stage
        <3>2. MadeAdmin(r) \in BOOLEAN /\ (MadeAdmin(r) \/ Admins # {})
            <4>1. Asked(r).admin \in {"yes", "unset"} /\ request[r].flag \in BOOLEAN
                BY <1>0, <3>1, TaskType DEF Task, Request
            <4> QED BY <3>1, <4>1 DEF MadeAdmin, Relies
        <3> QED BY <2>2, <3>1, <3>2, <1>0, CreatesKeeps DEF SignUpCreate, Early
    <2> QED BY <1>1, <2>1, <2>2 DEF Registers
<1>2. CASE Administers(r)
    <2>1. CASE AdminAsks(r) \/ DeleteRead(r) \/ DeleteCount(r)
        BY <2>1, <1>a DEF AdminAsks, DeleteRead, DeleteCount
    <2>2. CASE Invite(r)
        <3>1. (Asked(r).admin = "yes") \in BOOLEAN /\ Admins # {}
            BY <2>2 DEF Invite, Relies
        <3> QED BY <2>2, <3>1, <1>0, CreatesKeeps DEF Invite, Early
    <2>3. CASE Update(r)
        <3> DEFINE u == Asked(r).user
                   row == [email |-> IF Asked(r).email = None THEN users[u].email
                                     ELSE Asked(r).email,
                           admin |-> IF Asked(r).admin = "unset" THEN users[u].admin
                                     ELSE Asked(r).admin = "yes",
                           dn |-> users[u].dn]
        <3>1. CASE UNCHANGED users
            BY <3>1, <1>a
        <3>2. CASE u \in Present /\ users' = [users EXCEPT ![u] = row]
            <4>1. u \in Accounts /\ users[u] \in Row
                BY <3>2, <1>0 DEF Present
            <4>2. Asked(r).admin \in {"yes", "unset"}
                BY <2>3, <1>t, TaskType DEF Update, Task
            <4>3. row.admin \/ ~users[u].admin
                BY <4>1, <4>2 DEF Row
            <4> QED BY <3>2, <4>1, <4>3, <1>b
        <3> QED BY <2>3, <3>1, <3>2, <1>0 DEF Update, Present
    <2> QED BY <1>2, <2>1, <2>2, <2>3 DEF Administers, DeleteRow
<1>3. CASE SignsInElsewhere(r)
    <2>1. CASE LdapUpsert(r)
        <3>1. Asked(r).admin = "yes" /\ Asked(r).dn # None /\ request[r].at = "new"
            BY <2>1, <1>t, TaskType DEF LdapUpsert, Starts
        <3>2. ASSUME NEW u \in Accounts, users[u].dn = Asked(r).dn,
                     users' = [users EXCEPT ![u].admin = (Asked(r).admin = "yes")]
              PROVE  Keeps
            <4>1. u \in Present
                BY <3>1, <3>2 DEF Present, NoRow
            <4>2. users' = [users EXCEPT ![u] = [users[u] EXCEPT !.admin = TRUE]]
                BY <3>1, <3>2
            <4>3. [users[u] EXCEPT !.admin = TRUE].admin
                BY <1>0, <3>2 DEF Row
            <4> QED BY <4>1, <4>2, <4>3, <1>b
        <3>3. CASE Creates(r, Asked(r).admin = "yes", "done")
            BY <3>1, <3>3, <1>0, CreatesKeeps DEF Early
        <3> QED BY <2>1, <3>2, <3>3 DEF LdapUpsert
    <2>2. CASE LdapSync(r)
        <3> DEFINE u == request[r].account
        <3>1. CASE u \in Present /\ users' = [users EXCEPT ![u].email = Asked(r).email]
            <4>1. u \in Accounts /\ users[u] \in Row
                BY <3>1, <1>0 DEF Present
            <4>2. [users[u] EXCEPT !.email = Asked(r).email].admin = users[u].admin
                BY <4>1 DEF Row
            <4>3. users[u].admin \in BOOLEAN
                BY <4>1 DEF Row
            <4> QED BY <3>1, <4>1, <4>2, <4>3, <1>b
        <3> QED BY <2>2, <3>1, <1>a DEF LdapSync
    <2>3. CASE OAuthPromote(r)
        <3> DEFINE u == request[r].account
        <3>1. CASE u \in Present /\ users' = [users EXCEPT ![u].admin = TRUE]
            <4>1. u \in Accounts /\ [users[u] EXCEPT !.admin = TRUE].admin
                BY <3>1, <1>0 DEF Present, Row
            <4> QED BY <3>1, <4>1, <1>b
        <3> QED BY <2>3, <3>1, <1>a DEF OAuthPromote
    <2>4. CASE OAuthFind(r) \/ OAuthLookup(r) \/ OAuthAdopt(r) \/ OAuthConnect(r)
        BY <2>4, <1>a DEF OAuthFind, OAuthLookup, OAuthAdopt, OAuthConnect
    <2> QED BY <1>3, <2>1, <2>2, <2>3, <2>4 DEF SignsInElsewhere
<1>4. CASE Links(r)
    BY <1>4, <1>a DEF Links, LinkFind, LinkCreate, UnlinkFind, UnlinkDelete
<1> QED BY <1>1, <1>2, <1>3, <1>4 DEF Step

LEMMA StepRelies ==
    ASSUME Typed, SomeoneIsAdmin, NEW r \in Requests, Relies(r), Step(r)
    PROVE  Relies(r)'
<1>0. /\ users \in [Accounts -> Row] /\ request \in [Requests -> Request] /\ Stage(r)
      /\ Asked(r)' = Asked(r)
    BY OwnStep DEF Typed, TypeOK, Own, Asked
<1>a. ASSUME request'[r].at \notin {"create", "guarded", "count", "wipe"} PROVE Relies(r)'
    BY <1>a DEF Relies
<1>b. ASSUME NEW at \in {"sync", "lookup", "adopt", "promote", "connect", "erase", "done",
                         "refused"},
             Goes(r, at) \/ \E u : Finds(r, at, u)
      PROVE  Relies(r)'
    <2>1. request'[r].at = at
        BY <1>0, <1>b DEF Goes, Finds, Request
    <2> QED BY <2>1, <1>a
<1>c. ASSUME NEW at \in {"connect", "done"}, NEW admin, Creates(r, admin, at) PROVE Relies(r)'
    BY <1>b, <1>c DEF Creates
<1>d. ASSUME NEW at \in {"promote", "done"}, NEW u, Connects(r, u, at) PROVE Relies(r)'
    BY <1>b, <1>d DEF Connects
<1>1. CASE Registers(r)
    <2>1. CASE SignUpCount(r)
        <3>1. request'[r].at = "create" /\ request'[r].flag = (Present = {}) /\ Admins' = Admins
            BY <2>1, <1>0 DEF SignUpCount, Request, Admins
        <3> QED BY <3>1 DEF Relies, SomeoneIsAdmin
    <2>2. CASE SignUpCreate(r)
        BY <2>2, <1>c DEF SignUpCreate
    <2> QED BY <1>1, <2>1, <2>2 DEF Registers
<1>2. CASE Administers(r)
    <2>1. CASE AdminAsks(r)
        <3>1. Admins' = Admins /\ request'[r].at = IF Admins # {} THEN "guarded" ELSE "refused"
            BY <2>1, <1>0 DEF AdminAsks, Goes, Request, Admins
        <3> QED BY <3>1 DEF Relies
    <2>2. CASE Invite(r)
        BY <2>2, <1>c DEF Invite
    <2>3. CASE Update(r)
        BY <2>3, <1>b DEF Update
    <2>4. CASE DeleteRead(r)
        <3> DEFINE u == Asked(r).user
        <3>1. Admins' = Admins
            BY <2>4 DEF DeleteRead, Admins
        <3>2. CASE u \notin Present
            BY <2>4, <3>2, <1>b DEF DeleteRead
        <3>3. CASE u \in Present /\ users[u].admin
            <4>1. request'[r].at = "count" /\ u \in Admins
                BY <2>4, <3>3, <1>0 DEF DeleteRead, Goes, Request, Present, Admins
            <4> QED BY <3>1, <4>1 DEF Relies
        <3>4. CASE u \in Present /\ ~users[u].admin
            <4>1. request'[r].at = "wipe"
                BY <2>4, <3>4, <1>0 DEF DeleteRead, Goes, Request
            <4>2. u \notin Admins /\ Admins # {}
                BY <3>4 DEF Admins, SomeoneIsAdmin
            <4> QED BY <1>0, <3>1, <4>1, <4>2 DEF Relies
        <3> QED BY <3>2, <3>3, <3>4
    <2>5. CASE DeleteCount(r)
        <3> DEFINE u == Asked(r).user
        <3>1. Admins' = Admins /\ Admins # {}
            BY <2>5 DEF DeleteCount, Admins, Relies
        <3>2. CASE Cardinality(Admins) = 1
            BY <2>5, <3>2, <1>b DEF DeleteCount
        <3>3. CASE Cardinality(Admins) # 1
            <4>1. request'[r].at = "wipe"
                BY <2>5, <3>3, <1>0 DEF DeleteCount, Goes, Request
            <4>2. Admins # {u}
                BY <3>3, FS_Singleton
            <4>3. \E v \in Admins : v # u
                BY <3>1, <4>2
            <4> QED BY <1>0, <3>1, <4>1, <4>3 DEF Relies
        <3> QED BY <3>2, <3>3
    <2>6. CASE DeleteRow(r)
        BY <2>6, <1>b DEF DeleteRow
    <2> QED BY <1>2, <2>1, <2>2, <2>3, <2>4, <2>5, <2>6 DEF Administers
<1>3. CASE SignsInElsewhere(r)
    <2>1. CASE LdapUpsert(r)
        BY <2>1, <1>b, <1>c DEF LdapUpsert
    <2>2. CASE LdapSync(r) \/ OAuthPromote(r)
        BY <2>2, <1>b DEF LdapSync, OAuthPromote
    <2>3. CASE OAuthFind(r)
        BY <2>3, <1>b DEF OAuthFind
    <2>4. CASE OAuthLookup(r)
        <3>1. CASE Goes(r, "count")
            <4>1. request'[r].at = "count" /\ Asked(r).op # "delete"
                BY <2>4, <3>1, <1>0 DEF OAuthLookup, Goes, Request, Stage
            <4> QED BY <4>1, <1>0 DEF Relies
        <3> QED BY <2>4, <3>1, <1>b DEF OAuthLookup
    <2>5. CASE OAuthAdopt(r) \/ OAuthConnect(r)
        BY <2>5, <1>d DEF OAuthAdopt, OAuthConnect
    <2> QED BY <1>3, <2>1, <2>2, <2>3, <2>4, <2>5 DEF SignsInElsewhere
<1>4. CASE Links(r)
    <2>1. CASE LinkFind(r)
        BY <2>1, <1>b DEF LinkFind
    <2>2. CASE LinkCreate(r)
        BY <2>2, <1>d DEF LinkCreate
    <2>3. CASE UnlinkFind(r)
        <3>1. ASSUME NEW u, request' = [request EXCEPT ![r].at = "erase", ![r].account = u]
              PROVE  Relies(r)'
            BY <3>1, <1>b DEF Finds
        <3> QED BY <2>3, <3>1, <1>b DEF UnlinkFind
    <2>4. CASE UnlinkDelete(r)
        BY <2>4, <1>b DEF UnlinkDelete
    <2> QED BY <1>4, <2>1, <2>2, <2>3, <2>4 DEF Links
<1> QED BY <1>1, <1>2, <1>3, <1>4 DEF Step

LEMMA StepWipes ==
    ASSUME NEW r \in Requests, Step(r), request[r].at = "wipe" PROVE DeleteRow(r)
BY DEF Step, Registers, Administers, SignsInElsewhere, Links, Starts, SignUpCount,
       SignUpCreate, AdminAsks, Invite, Update, DeleteRead, DeleteCount, LdapUpsert,
       LdapSync, OAuthFind, OAuthPromote, OAuthLookup, OAuthAdopt, OAuthConnect,
       LinkFind, LinkCreate, UnlinkFind, UnlinkDelete

Administered == SomeoneIsAdmin /\ \A r \in Requests : Relies(r)

LEMMA AdministeredAgain ==
    ASSUME NobodyDemoted, Typed, Serial, Administered, [Next]_vars
    PROVE  Administered'
<1>1. ASSUME NEW r \in Requests, Step(r) PROVE Administered'
    <2>1. \A q \in Requests \ {r} : request'[q] = request[q]
        BY <1>1, OwnStep DEF Own
    <2>2. Relies(r)'
        BY <1>1, StepRelies DEF Administered
    <2>3. CASE request[r].at # "wipe"
        <3>1. Keeps
            BY <1>1, <2>3, StepKeeps DEF Administered
        <3>2. \A q \in Requests \ {r} : Relies(q)'
            BY <2>1, <3>1 DEF Administered, Relies, Keeps, Asked
        <3>3. SomeoneIsAdmin'
            BY <3>1 DEF Keeps, SomeoneIsAdmin
        <3> QED BY <2>2, <3>2, <3>3 DEF Administered
    <2>4. CASE request[r].at = "wipe"
        <3>1. DeleteRow(r)
            BY <1>1, <2>4, StepWipes
        <3>2. Asked(r).op = "delete" /\ InFlight(r)
            BY <2>4 DEF Typed, Stage, InFlight
        <3>3. PICK v \in Admins : v # Asked(r).user
            BY <2>4 DEF Administered, Relies
        <3>4. v \in Admins'
            BY <3>1, <3>3 DEF DeleteRow, Admins, Typed, TypeOK
        <3>5. ASSUME NEW q \in Requests \ {r} PROVE Relies(q)'
            <4>1. ~(InFlight(q) /\ Asked(q).op = "delete")
                BY <3>2 DEF Serial, Disturb
            <4>2. request[q].at # "wipe" /\ ~(request[q].at = "count" /\ Asked(q).op = "delete")
                BY <4>1 DEF InFlight, Typed, Stage
            <4> QED BY <2>1, <3>4, <4>2 DEF Relies, Asked
        <3> QED BY <2>2, <3>4, <3>5 DEF Administered, SomeoneIsAdmin
    <2> QED BY <2>3, <2>4
<1>2. ASSUME Restart PROVE Administered'
    <2>1. /\ \A r \in Requests : \/ request'[r] = request[r]
                                 \/ request'[r].at = "refused"
          /\ Admins' = Admins /\ Present' = Present
        BY <1>2 DEF Restart, Typed, TypeOK, Request, Admins, Present
    <2> QED BY <2>1 DEF Administered, SomeoneIsAdmin, Relies, Asked
<1>3. ASSUME UNCHANGED vars PROVE Administered'
    BY <1>3 DEF vars, Administered, SomeoneIsAdmin, Relies, Asked, Admins, Present
<1> QED BY <1>1, <1>2, <1>3 DEF Next, Step

\* A server with accounts has an administrator, when deletions do not overlap
\* and nobody is demoted: what signUp, the administrator's guard and
\* UserService.delete have counted still holds when they act on it.
THEOREM SomeoneRemainsAdmin ==
    ASSUME ~Overlapping, NobodyDemoted PROVE Spec => []SomeoneIsAdmin
<1>1. Init => Administered
    <2>1. Init => \A r \in Requests : request[r].at = "new"
        BY DEF Init
    <2> QED BY <2>1 DEF Init, Administered, SomeoneIsAdmin, Relies
<1>2. Serial /\ Typed /\ Typed' /\ [Next]_vars => Serial'
    BY SerialAgain
<1>3. Serial /\ Typed /\ Administered /\ [Next]_vars => Administered'
    BY AdministeredAgain
<1>4. Administered => SomeoneIsAdmin
    BY DEF Administered
<1> QED BY InitSerial, AlwaysTyped, <1>1, <1>2, <1>3, <1>4, PTL DEF Spec

-----------------------------------------------------------------------------
(* Who signs in through a provider has an account on record for it *)

\* Where a request is once it has made the link it makes.
Past == {"promote", "done", "refused"}

\* The account of r is on record for the identity r signs in with.
OnRecord(r) ==
    \E l \in links : l.identity = Asked(r).identity /\ l.user = request[r].account

\* An account that has been deleted does not come back.
Gone(u) == u \notin Present /\ (u \in Requests => request[u].at \notin Early)

UnlinkedBy(u) ==
    \E q \in Requests :
       Asked(q).op = "unlink" /\ request[q].at = "done" /\ Asked(q).user = u

\* A request makes one link at most, and has made it when it is there.
LinksApart ==
    /\ \A l \in links : request[l.id].at \in Past
    /\ \A l, m \in links : l.id = m.id => l = m

\* What is unlinked from an account was its own.
Erases(r) ==
    request[r].at = "erase" =>
       /\ Asked(r).op = "unlink"
       /\ request[r].account \in Requests /\ request[request[r].account].at \in Past
       /\ \A l \in links : l.id = request[r].account => l.user = Asked(r).user

\* What a sign-in has found or made stays on record, unless its account is
\* deleted, and then for good, or unlinked.
Follows(r) ==
    LET u == request[r].account IN
    /\ request[r].at = "connect" /\ Asked(r).op = "oauth" => u = r
    /\ request[r].at = "promote" => OnRecord(r) \/ Gone(u) \/ UnlinkedBy(u)

SignedInv == LinksApart /\ \A r \in Requests : Erases(r) /\ Follows(r)

\* The three kinds of step as the records see them.
KeepsLinks(r) ==
    /\ UNCHANGED links
    /\ request'[r].at = "erase" =>
          /\ Asked(r).op = "unlink"
          /\ \E l \in links : l.user = Asked(r).user /\ l.id = request'[r].account
    /\ request'[r].at = "connect" /\ Asked(r).op = "oauth" => request'[r].account = r
    /\ request'[r].at = "promote" =>
          \E l \in LinksOf(Asked(r).identity) : l.user = request'[r].account
    /\ request'[r].at = "done" /\ Asked(r).op = "oauth" =>
          /\ request[r].at = "promote"
          /\ request'[r].account = request[r].account
          /\ request[r].account \in Present'

AddsLink(r) ==
    /\ request[r].at \in {"adopt", "connect"}
    /\ request'[r].at \in {"promote", "done"}
    /\ request'[r].account = request[r].account
    /\ \E u \in Present :
          /\ links' = links \cup {NewLink(r, u)}
          /\ request[r].at = "adopt" => u = request[r].account
          /\ request[r].at = "connect" =>
                request'[r].at = "done" /\ (Asked(r).op = "oauth" => u = r)
    /\ UNCHANGED users

LosesLinks(r) ==
    /\ request'[r].at \in {"done", "refused"}
    /\ \/ /\ Asked(r).op = "delete"
          /\ \E u \in Accounts : links' = {l \in links : l.user # u} /\ u \notin Present'
       \/ /\ Asked(r).op = "unlink" /\ request[r].at = "erase"
          /\ links' = {l \in links : l.id # request[r].account}
          /\ request'[r].at = "done" \/ UNCHANGED links

LEMMA RecordStep ==
    ASSUME Typed, NEW r \in Requests, Step(r), request[r].at = "erase" => Asked(r).op = "unlink"
    PROVE  KeepsLinks(r) \/ AddsLink(r) \/ LosesLinks(r)
<1>0. /\ request \in [Requests -> Request] /\ users \in [Accounts -> Row] /\ Stage(r)
      /\ Asked(r) = request[r].task
    BY DEF Typed, TypeOK, Asked
<1>a. ASSUME NEW at \in {"done", "refused"}, Goes(r, at), UNCHANGED links,
             at = "done" => Asked(r).op # "oauth"
      PROVE  KeepsLinks(r)
    BY <1>0, <1>a DEF Goes, KeepsLinks, Request
<1>b. ASSUME NEW at, Creates(r, TRUE, at) \/ Creates(r, FALSE, at), UNCHANGED links,
             at = "connect" \/ (at = "done" /\ Asked(r).op # "oauth")
      PROVE  KeepsLinks(r)
    BY <1>0, <1>a, <1>b DEF Creates, Goes, Finds, KeepsLinks, Request
<1>c. ASSUME NEW u, NEW at \in {"promote", "done"}, Connects(r, u, at), UNCHANGED users,
             request[r].at \in {"adopt", "connect"},
             request[r].at = "adopt" => u = request[r].account,
             request[r].at = "connect" => at = "done" /\ (Asked(r).op = "oauth" => u = r)
      PROVE  KeepsLinks(r) \/ AddsLink(r)
    <2>1. CASE u \in Present
        BY <1>0, <1>c, <2>1 DEF Connects, Goes, AddsLink, NewLink, Request
    <2>2. CASE u \notin Present
        BY <1>a, <1>c, <2>2 DEF Connects
    <2> QED BY <2>1, <2>2
<1>1. CASE SignUpCount(r)
    BY <1>0, <1>1 DEF SignUpCount, KeepsLinks, Request
<1>2. CASE SignUpCreate(r)
    <2>1. MadeAdmin(r) \in BOOLEAN
        BY <1>0 DEF MadeAdmin, Request
    <2> QED BY <1>2, <1>b, <2>1 DEF SignUpCreate
<1>3. CASE AdminAsks(r)
    BY <1>0, <1>3 DEF AdminAsks, Goes, KeepsLinks, Request
<1>4. CASE Invite(r)
    BY <1>4, <1>b DEF Invite
<1>5. CASE Update(r)
    BY <1>5, <1>a DEF Update
<1>6. CASE DeleteRead(r) \/ DeleteCount(r)
    BY <1>0, <1>6 DEF DeleteRead, DeleteCount, Goes, KeepsLinks, Request
<1>7. CASE DeleteRow(r)
    <2>1. Asked(r).op = "delete" /\ Asked(r).user \in Accounts
        BY <1>0, <1>7, TaskType DEF DeleteRow, Stage, Task
    <2> QED BY <1>0, <1>7, <2>1 DEF DeleteRow, Goes, LosesLinks, Present, Request
<1>8. CASE LdapUpsert(r)
    <2>1. Asked(r).op = "ldap"
        BY <1>8 DEF LdapUpsert, Starts
    <2>2. ASSUME NEW u, NEW at \in {"done", "sync"}, Finds(r, at, u), UNCHANGED links
          PROVE  KeepsLinks(r)
        BY <1>0, <2>1, <2>2 DEF Finds, KeepsLinks, Request
    <2> QED BY <1>8, <1>b, <2>1, <2>2 DEF LdapUpsert
<1>9. CASE LdapSync(r)
    BY <1>0, <1>9, <1>a DEF LdapSync, Stage
<1>10. CASE OAuthFind(r)
    BY <1>0, <1>10 DEF OAuthFind, Finds, Goes, KeepsLinks, LinksOf, Request
<1>11. CASE OAuthPromote(r)
    <2>1. request[r].account \in Present => request[r].account \in Present'
        BY <1>0, <1>11 DEF OAuthPromote, Present, NoRow, Row
    <2> QED BY <1>0, <1>11, <2>1 DEF OAuthPromote, Goes, KeepsLinks, Request
<1>12. CASE OAuthLookup(r)
    BY <1>0, <1>12 DEF OAuthLookup, Finds, Goes, KeepsLinks, Request
<1>13. CASE OAuthAdopt(r)
    BY <1>13, <1>c DEF OAuthAdopt
<1>14. CASE OAuthConnect(r)
    BY <1>14, <1>c DEF OAuthConnect
<1>15. CASE LinkFind(r)
    BY <1>0, <1>15 DEF LinkFind, Goes, Starts, KeepsLinks, Request
<1>16. CASE LinkCreate(r)
    BY <1>16, <1>c DEF LinkCreate
<1>17. CASE UnlinkFind(r)
    BY <1>0, <1>17 DEF UnlinkFind, Goes, Starts, KeepsLinks, Request
<1>18. CASE UnlinkDelete(r)
    BY <1>0, <1>18 DEF UnlinkDelete, Goes, LosesLinks, Request
<1> QED
    BY <1>1, <1>2, <1>3, <1>4, <1>5, <1>6, <1>7, <1>8, <1>9, <1>10, <1>11, <1>12, <1>13,
       <1>14, <1>15, <1>16, <1>17, <1>18
    DEF Step, Registers, Administers, SignsInElsewhere, Links

LEMMA PastStep ==
    ASSUME Typed, NEW r \in Requests, Step(r)
    PROVE  /\ request[r].at \in Past =>
                 request[r].at = "promote" /\ request'[r].at \in {"done", "refused"}
           /\ request'[r].at \in Early => request[r].at \in Early
<1>0. request \in [Requests -> Request] /\ Stage(r)
    BY DEF Typed, TypeOK
<1>1. CASE Registers(r)
    BY <1>1 DEF Registers, SignUpCount, SignUpCreate, Starts, Past, Early
<1>2. CASE Administers(r)
    BY <1>0, <1>2 DEF Administers, AdminAsks, Invite, Update, DeleteRead, DeleteCount, DeleteRow,
       Starts, Goes, Past, Early, Stage, Request
<1>3. CASE SignsInElsewhere(r)
    BY <1>0, <1>3 DEF SignsInElsewhere, LdapUpsert, LdapSync, OAuthFind, OAuthPromote,
       OAuthLookup, OAuthAdopt, OAuthConnect, Connects, Starts, Goes, Past, Early, Request
<1>4. CASE Links(r)
    BY <1>0, <1>4 DEF Links, LinkFind, LinkCreate, UnlinkFind, UnlinkDelete, Connects, Starts,
       Goes, Past, Early, Request
<1> QED BY <1>1, <1>2, <1>3, <1>4 DEF Step

\* An account comes to be by the request that has its id, and before that
\* request has made a link.
LEMMA PresenceStep ==
    ASSUME Typed, NEW r \in Requests, Step(r), NEW u \in Accounts, u \notin Present,
           u \in Present'
    PROVE  u = r /\ request[r].at \in Early
<1>0. users \in [Accounts -> Row]
    BY DEF Typed, TypeOK
<1>1. u = r
    BY StepSound DEF Sound, Present
<1>2. CASE Registers(r)
    BY <1>1, <1>2 DEF Registers, SignUpCount, SignUpCreate, Early, Present
<1>3. CASE Administers(r)
    BY <1>0, <1>1, <1>3 DEF Administers, AdminAsks, Invite, Update, DeleteRead, DeleteCount, DeleteRow,
       Early, Present
<1>4. CASE SignsInElsewhere(r)
    BY <1>0, <1>1, <1>4 DEF SignsInElsewhere, LdapUpsert, LdapSync, OAuthFind, OAuthPromote,
       OAuthLookup, OAuthAdopt, OAuthConnect, Starts, Early, Present
<1>5. CASE Links(r)
    BY <1>5 DEF Links, LinkFind, LinkCreate, UnlinkFind, UnlinkDelete, Present
<1> QED BY <1>1, <1>2, <1>3, <1>4, <1>5 DEF Step

\* What stays as it is whatever r does.
LEMMA RecordsStay ==
    ASSUME Typed, NEW r \in Requests, Step(r)
    PROVE  /\ \A q \in Requests : Asked(q)' = Asked(q)
           /\ \A q \in Requests \ {r} : request'[q] = request[q]
           /\ \A q \in Requests : request[q].at \in Past => request'[q].at \in Past
           /\ \A u \in Accounts : Gone(u) => Gone(u)'
           /\ \A u \in Accounts : u \in Present /\ u \notin Present' => Gone(u)'
           /\ \A u \in Accounts : UnlinkedBy(u) => UnlinkedBy(u)'
<1>1. Own(r)
    BY OwnStep
<1>2. \A q \in Requests : Asked(q)' = Asked(q)
    BY <1>1 DEF Own, Asked
<1>3. \A q \in Requests \ {r} : request'[q] = request[q]
    BY <1>1 DEF Own
<1>4. \A q \in Requests : request[q].at \in Past => request'[q].at \in Past
    BY <1>3, PastStep DEF Past
<1>5. \A q \in Requests : request'[q].at \in Early => request[q].at \in Early
    BY <1>3, PastStep
<1>6. \A q \in Requests : request[q].at = "done" => request'[q].at = "done"
    BY <1>3, PastStep DEF Past
<1>7. ASSUME NEW u \in Accounts, Gone(u) PROVE Gone(u)'
    BY <1>5, <1>7, PresenceStep DEF Gone
<1>8. ASSUME NEW u \in Accounts, u \in Present, u \notin Present' PROVE Gone(u)'
    <2>1. u \in Requests => request[u].at \notin Early
        BY <1>8 DEF Typed, Early, Present
    <2> QED BY <1>5, <1>8, <2>1 DEF Gone
<1>9. \A u \in Accounts : UnlinkedBy(u) => UnlinkedBy(u)'
    BY <1>2, <1>6 DEF UnlinkedBy
<1> QED BY <1>2, <1>3, <1>4, <1>7, <1>8, <1>9

LEMMA StepSigned ==
    ASSUME Typed, SignedInv, NEW r \in Requests, Step(r) PROVE SignedInv'
<1>0. /\ \A q \in Requests : Asked(q)' = Asked(q)
      /\ \A q \in Requests \ {r} : request'[q] = request[q]
      /\ \A q \in Requests : request[q].at \in Past => request'[q].at \in Past
    BY RecordsStay
<1>t. /\ links \subseteq [id: Requests, identity: Identities, user: Accounts]
      /\ \A l \in links : l.user \in Present
      /\ \A q \in Requests : Stage(q)
    BY DEF Typed, TypeOK, Present
<1>e. \A q \in Requests : Erases(q) /\ Follows(q)
    BY DEF SignedInv
<1>a. \A u \in Accounts : Gone(u) \/ UnlinkedBy(u) => Gone(u)' \/ UnlinkedBy(u)'
    BY RecordsStay
\* For another request that is at "promote" only its record is to be looked at.
<1>b. ASSUME NEW q \in Requests \ {r},
             \A u \in Accounts : u = request[q].account /\ OnRecord(q) =>
                OnRecord(q)' \/ Gone(u)' \/ UnlinkedBy(u)'
      PROVE  Follows(q)'
    <2>1. request[q].at = "promote" => request[q].account \in Accounts
        BY <1>t DEF Stage
    <2>2. request'[q] = request[q] /\ Asked(q)' = Asked(q)
        BY <1>0
    <2>3. ASSUME NEW u \in Accounts, u = request[q].account, request[q].at = "promote"
          PROVE  OnRecord(q)' \/ Gone(u)' \/ UnlinkedBy(u)'
        <3>1. OnRecord(q) \/ Gone(u) \/ UnlinkedBy(u)
            BY <1>e, <2>3 DEF Follows
        <3> QED BY <1>a, <1>b, <2>3, <3>1
    <2> QED BY <1>e, <2>1, <2>2, <2>3 DEF Follows, Gone, UnlinkedBy
<1>1. CASE KeepsLinks(r)
    <2>1. LinksApart'
        BY <1>0, <1>1, <1>t DEF SignedInv, LinksApart, KeepsLinks
    <2>2. ASSUME NEW q \in Requests \ {r} PROVE Erases(q)' /\ Follows(q)'
        <3>1. Erases(q)'
            BY <1>0, <1>1, <1>e DEF Erases, KeepsLinks
        <3>2. OnRecord(q) => OnRecord(q)'
            BY <1>0, <1>1 DEF OnRecord, KeepsLinks
        <3> QED BY <1>b, <3>1, <3>2
    <2>3. Erases(r)'
        BY <1>0, <1>1, <1>t DEF Erases, KeepsLinks, SignedInv, LinksApart
    <2>4. Follows(r)'
        BY <1>0, <1>1 DEF Follows, KeepsLinks, OnRecord, LinksOf
    <2> QED BY <2>1, <2>2, <2>3, <2>4 DEF SignedInv
<1>2. CASE AddsLink(r)
    <2>0. PICK u \in Present :
             /\ links' = links \cup {NewLink(r, u)}
             /\ request[r].at = "adopt" => u = request[r].account
             /\ request[r].at = "connect" =>
                   request'[r].at = "done" /\ (Asked(r).op = "oauth" => u = r)
        BY <1>2 DEF AddsLink
    <2>1. request[r].at \notin Past /\ request'[r].at \in Past /\ request'[r].at # "erase"
        BY <1>2 DEF AddsLink, Past
    <2>2. \A l \in links : l.id # r
        BY <2>1 DEF SignedInv, LinksApart
    <2>3. LinksApart'
        BY <1>0, <1>t, <2>0, <2>1, <2>2 DEF SignedInv, LinksApart, NewLink
    <2>4. ASSUME NEW q \in Requests \ {r} PROVE Erases(q)' /\ Follows(q)'
        <3>1. Erases(q)'
            BY <1>0, <1>e, <2>0, <2>1 DEF Erases, NewLink
        <3>2. OnRecord(q) => OnRecord(q)'
            BY <1>0, <2>0 DEF OnRecord
        <3> QED BY <1>b, <3>1, <3>2
    <2>5. Erases(r)'
        BY <2>1 DEF Erases
    <2>6. Follows(r)'
        <3>1. request'[r].at \in {"promote", "done"} /\ request'[r].account = request[r].account
            BY <1>2 DEF AddsLink
        <3>2. request'[r].at = "promote" => u = request[r].account
            BY <1>2, <2>0 DEF AddsLink
        <3>3. NewLink(r, u) \in links' /\ NewLink(r, u).identity = Asked(r)'.identity
              /\ NewLink(r, u).user = u
            BY <1>0, <2>0 DEF NewLink
        <3>4. request'[r].at = "promote" => OnRecord(r)'
            BY <3>1, <3>2, <3>3 DEF OnRecord
        <3> QED BY <3>1, <3>4 DEF Follows
    <2> QED BY <2>3, <2>4, <2>5, <2>6 DEF SignedInv
<1>3. CASE LosesLinks(r)
    <2>1. links' \subseteq links /\ request'[r].at \in {"done", "refused"}
        BY <1>3 DEF LosesLinks
    <2>2. LinksApart'
        BY <1>0, <1>t, <2>1 DEF SignedInv, LinksApart
    <2>3. ASSUME NEW l \in links, l \notin links' PROVE Gone(l.user)' \/ UnlinkedBy(l.user)'
        <3>0. l.user \in Accounts /\ l.user \in Present
            BY <1>t
        <3>1. CASE \E u \in Accounts : links' = {m \in links : m.user # u} /\ u \notin Present'
            <4>1. l.user \notin Present'
                BY <2>3, <3>1
            <4> QED BY <3>0, <4>1, RecordsStay
        <3>2. CASE /\ Asked(r).op = "unlink" /\ request[r].at = "erase"
                   /\ links' = {m \in links : m.id # request[r].account}
                   /\ request'[r].at = "done"
            <4>1. l.user = Asked(r).user
                BY <1>e, <2>3, <3>2 DEF Erases
            <4> QED BY <1>0, <3>2, <4>1 DEF UnlinkedBy
        <3> QED BY <1>3, <2>3, <3>1, <3>2 DEF LosesLinks
    <2>4. ASSUME NEW q \in Requests \ {r} PROVE Erases(q)' /\ Follows(q)'
        <3>1. Erases(q)'
            BY <1>0, <1>e, <2>1 DEF Erases
        <3>2. ASSUME NEW u \in Accounts, u = request[q].account, OnRecord(q)
              PROVE  OnRecord(q)' \/ Gone(u)' \/ UnlinkedBy(u)'
            <4>1. PICK l \in links : l.identity = Asked(q).identity /\ l.user = u
                BY <3>2 DEF OnRecord
            <4>2. CASE l \in links'
                BY <1>0, <3>2, <4>1, <4>2 DEF OnRecord
            <4>3. CASE l \notin links'
                BY <2>3, <4>1, <4>3
            <4> QED BY <4>2, <4>3
        <3> QED BY <1>b, <3>1, <3>2
    <2>5. Erases(r)' /\ Follows(r)'
        BY <2>1 DEF Erases, Follows
    <2> QED BY <2>2, <2>4, <2>5 DEF SignedInv
<1>4. request[r].at = "erase" => Asked(r).op = "unlink"
    BY <1>e DEF Erases
<1> QED BY <1>1, <1>2, <1>3, <1>4, RecordStep

LEMMA SignedInductive == Spec => []SignedInv
<1>1. Init => SignedInv
    BY DEF Init, SignedInv, LinksApart, Erases, Follows
<1>2. ASSUME Typed, SignedInv, [Next]_vars PROVE SignedInv'
    <2>1. ASSUME NEW r \in Requests, Step(r) PROVE SignedInv'
        BY <1>2, <2>1, StepSigned
    <2>2. CASE Restart
        <3>1. \A q \in Requests :
                 /\ request'[q].at \in {"new", "done", "refused"}
                 /\ request[q].at \in Past => request'[q].at \in Past
            BY <1>2, <2>2 DEF Restart, InFlight, Past, Typed, TypeOK, Request
        <3>2. \A l \in links : l.id \in Requests
            BY <1>2 DEF Typed, TypeOK
        <3> QED BY <1>2, <2>2, <3>1, <3>2
            DEF Restart, SignedInv, LinksApart, Erases, Follows
    <2>3. CASE UNCHANGED vars
        BY <1>2, <2>3 DEF vars, SignedInv, LinksApart, Erases, Follows, OnRecord, Gone,
           UnlinkedBy, Asked, Present
    <2> QED BY <1>2, <2>1, <2>2, <2>3 DEF Next, Step
<1> QED BY AlwaysTyped, <1>1, <1>2, PTL DEF Spec

\* Whoever signs in through a provider and is answered has an account that is
\* there and on record for that identity, unless it was unlinked in the
\* meantime: what signIn of oauth.service.ts has found, adopted or registered
\* is still what it answers with, whatever other requests and restarts do.
THEOREM SignedInTheorem == Spec => SignedInWhereLinked
<1> DEFINE P == \A r \in Requests :
          (Asked(r).op = "oauth" /\ request[r].at # "done" /\ request'[r].at = "done")
          => /\ request'[r].account \in Present'
             /\ \/ \E l \in links' : /\ l.identity = Asked(r).identity
                                     /\ l.user = request'[r].account
                \/ \E q \in Requests :
                      /\ Asked(q).op = "unlink" /\ request[q].at = "done"
                      /\ Asked(q).user = request'[r].account
<1>1. ASSUME Typed, SignedInv, [Next]_vars PROVE [P]_vars
    <2> SUFFICES ASSUME NEW r \in Requests, Asked(r).op = "oauth", request[r].at # "done",
                        request'[r].at = "done"
                 PROVE  /\ request'[r].account \in Present'
                        /\ \/ \E l \in links' : /\ l.identity = Asked(r).identity
                                                /\ l.user = request'[r].account
                           \/ UnlinkedBy(request'[r].account)
        BY DEF UnlinkedBy
    <2>1. Step(r)
        <3>1. CASE Restart
            BY <1>1, <3>1 DEF Restart, InFlight, Typed, TypeOK, Request
        <3>2. CASE UNCHANGED vars
            BY <3>2 DEF vars
        <3>3. ASSUME NEW q \in Requests, Step(q) PROVE q = r
            BY <1>1, <3>3, OwnStep DEF Own
        <3> QED BY <1>1, <3>1, <3>2, <3>3 DEF Next, Step
    <2>2. Erases(r) /\ Follows(r) /\ Stage(r)
        BY <1>1 DEF SignedInv, Typed
    <2>3. KeepsLinks(r) \/ AddsLink(r)
        BY <1>1, <2>1, <2>2, RecordStep DEF Erases, LosesLinks
    <2>4. CASE KeepsLinks(r)
        <3> DEFINE u == request[r].account
        <3>1. /\ request[r].at = "promote" /\ request'[r].account = u /\ u \in Present'
              /\ links' = links
            BY <2>4 DEF KeepsLinks
        <3>2. u \in Accounts
            BY <3>1, <2>2 DEF Stage
        <3>3. ~Gone(u)
            <4>1. u \notin Present => u = r /\ request[r].at \in Early
                BY <1>1, <2>1, <3>1, <3>2, PresenceStep
            <4> QED BY <3>1, <4>1 DEF Gone, Early
        <3> QED BY <2>2, <3>1, <3>3 DEF Follows, OnRecord
    <2>5. CASE AddsLink(r)
        <3>1. PICK u \in Present :
                 /\ links' = links \cup {NewLink(r, u)}
                 /\ request[r].at = "adopt" => u = request[r].account
                 /\ request[r].at = "connect" => u = r
            BY <2>5 DEF AddsLink
        <3>2. u = request[r].account /\ request'[r].account = u
            BY <2>2, <2>5, <3>1 DEF AddsLink, Follows
        <3>3. u \in Present'
            BY <2>5 DEF AddsLink, Present
        <3>4. /\ NewLink(r, u) \in links' /\ NewLink(r, u).identity = Asked(r).identity
              /\ NewLink(r, u).user = u
            BY <3>1 DEF NewLink
        <3> QED BY <3>2, <3>3, <3>4
    <2> QED BY <2>3, <2>4, <2>5
<1>2. Spec => [][P]_vars
    BY AlwaysTyped, SignedInductive, <1>1, PTL DEF Spec
<1> QED BY <1>2 DEF SignedInWhereLinked
=============================================================================
