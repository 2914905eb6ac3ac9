-------------------------- MODULE ShareAccessProofs --------------------------
(***************************************************************************)
(* Type correctness of the access to a share; that a token opens its own   *)
(* share only and a place once given is kept, whatever the owner changes;  *)
(* and, for shares whose id is used once, that the limit of addresses, the *)
(* password and the count of views hold.  For any number of visits.        *)
(***************************************************************************)
EXTENDS ShareAccess, FiniteSetTheorems, TLAPS

Steps == {"verify", "assign", "count", "sign"}

\* A visit as Becomes is given it: its step may be an outcome.
Going == [step: Outcomes \cup Steps, kind: Kinds, ip: Ips,
          password: Passwords \cup {NoPassword}, token: Token \cup {NoToken},
          issued: Token \cup {NoToken}, read: Share]

UnderWay(v) == visit[v].step \in Steps

LEMMA GoingVisit == ASSUME NEW x \in Going, x.step \in Steps PROVE x \in Visit
BY DEF Going, Visit, Steps

LEMMA UnderWayType ==
    ASSUME TypeOK, NEW v \in Visits, UnderWay(v)
    PROVE  visit[v] \in Visit /\ visit[v] \in Going /\ visit[v].step \in Steps
<1>1. visit[v] \in [step: Outcomes] \cup Visit
    BY DEF TypeOK
<1>2. visit[v] \notin [step: Outcomes]
    BY DEF UnderWay, Steps, Outcomes
<1> QED BY <1>1, <1>2 DEF Visit, Going, Steps, UnderWay

LEMMA WithStep ==
    ASSUME NEW x \in Going, NEW st \in Outcomes \cup Steps
    PROVE  /\ [x EXCEPT !.step = st] \in Going
           /\ [x EXCEPT !.step = st].step = st
           /\ [x EXCEPT !.step = st].kind = x.kind
           /\ [x EXCEPT !.step = st].ip = x.ip
           /\ [x EXCEPT !.step = st].password = x.password
           /\ [x EXCEPT !.step = st].token = x.token
           /\ [x EXCEPT !.step = st].issued = x.issued
           /\ [x EXCEPT !.step = st].read = x.read
BY DEF Going

\* All but the step of a visit is as it was.
SameBut(y, x) ==
    /\ y.kind = x.kind /\ y.ip = x.ip /\ y.password = x.password
    /\ y.token = x.token /\ y.issued = x.issued /\ y.read = x.read

\* What the checks on the share that was read have made sure of.
Passed(y) ==
    /\ y.step = "granted" => HasToken(y)
    /\ y.step \in {"count", "sign"} => ~HasToken(y) /\ ~Locked(y)
    /\ y.step = "sign" => y.kind = "token"
    /\ y.step = "count" => y.kind # "token"
    /\ y.step = "assign" => y.read.security.maxIps # 0 /\ (HasToken(y) \/ ~Locked(y))
    /\ y.step \in {"granted", "count", "sign"} =>
          y.read.security.maxIps = 0 \/ y.ip \in y.read.security.assignedIps

LEMMA JudgedPasses ==
    ASSUME NEW x \in Going
    PROVE  /\ Judged(x) \in Going
           /\ SameBut(Judged(x), x)
           /\ Judged(x).step \in {"refused", "assign", "granted", "sign", "count"}
           /\ Passed(Judged(x))
<1>1. PICK st \in {"refused", "assign", "granted", "sign", "count"} :
          /\ Judged(x) = [x EXCEPT !.step = st]
          /\ st = "granted" => HasToken(x)
          /\ st \in {"count", "sign"} => ~HasToken(x) /\ ~Locked(x)
          /\ st = "sign" => x.kind = "token"
          /\ st = "count" => x.kind # "token"
          /\ st = "assign" => x.read.security.maxIps # 0 /\ (HasToken(x) \/ ~Locked(x))
          /\ st \in {"granted", "count", "sign"} =>
                x.read.security.maxIps = 0 \/ x.ip \in x.read.security.assignedIps
    BY DEF Judged, Refused, Admitted
<1>2. st \in Outcomes \cup Steps
    BY DEF Outcomes, Steps
<1> DEFINE y == Judged(x)
<1>3. y \in Going /\ SameBut(y, x) /\ y.step = st
    BY <1>1, <1>2, WithStep DEF SameBut
<1>4. HasToken(y) = HasToken(x) /\ Locked(y) = Locked(x)
    BY <1>3 DEF SameBut, HasToken, Locked
<1> QED BY <1>1, <1>3, <1>4 DEF Passed, SameBut

LEMMA BecomesMoves ==
    ASSUME TypeOK, NEW v \in Visits, NEW x \in Going, Becomes(v, x)
    PROVE  /\ visit' \in [Visits -> [step: Outcomes] \cup Visit]
           /\ \A w \in Visits \ {v} : visit'[w] = visit[w]
           /\ visit'[v].step = x.step
           /\ x.step \in Steps => visit'[v] = x
           /\ UNCHANGED <<clock, created, securities>>
           /\ x.step # "granted" => UNCHANGED <<opened, served, tokens>>
           /\ x.step = "granted" =>
                 /\ opened' = IF HasToken(x) THEN opened ELSE opened + 1
                 /\ served' = served \cup {x.ip}
                 /\ tokens' = tokens \cup ({x.issued} \ {NoToken})
<1> DEFINE y == IF x.step \in Outcomes THEN [step |-> x.step] ELSE x
<1>1. x.step \in Outcomes \cup Steps
    BY DEF Going
<1>2. y \in [step: Outcomes] \cup Visit
    BY <1>1, GoingVisit
<1>3. visit' = [visit EXCEPT ![v] = y]
    BY DEF Becomes
<1>4. visit \in [Visits -> [step: Outcomes] \cup Visit]
    BY DEF TypeOK
<1>5. visit'[v] = y /\ \A w \in Visits \ {v} : visit'[w] = visit[w]
    BY <1>3, <1>4
<1>6. visit' \in [Visits -> [step: Outcomes] \cup Visit]
    BY <1>2, <1>3, <1>4
<1>7. y.step = x.step /\ (x.step \in Steps => y = x)
    BY <1>1 DEF Outcomes, Steps
<1> QED BY <1>5, <1>6, <1>7 DEF Becomes

-----------------------------------------------------------------------------
(* The steps of a visit: what it becomes, and what it does to the share *)

Arrives(v, y) ==
    /\ Becomes(v, y) /\ UNCHANGED share
    /\ Exists /\ ~UnderWay(v)
    /\ y.read = share /\ y.issued = NoToken
    /\ y.step \in {"verify", "refused", "assign", "sign", "count"}
    /\ HasToken(y) => y.step = "verify"
    /\ Passed(y)

LEMMA ArriveIs ==
    ASSUME TypeOK, NEW v \in Visits, NEW kind \in Kinds, NEW ip \in Ips,
           NEW password \in Passwords \cup {NoPassword}, NEW token \in tokens \cup {NoToken},
           Arrive(v, kind, ip, password, token)
    PROVE  \E y \in Going : Arrives(v, y)
<1> DEFINE x == [step |-> "verify", kind |-> kind, ip |-> ip, password |-> password,
                 token |-> token, issued |-> NoToken, read |-> share]
           y == IF HasToken(x) THEN x ELSE Judged(x)
<1>1. x \in Going
    BY DEF Going, TypeOK, Steps
<1>2. Becomes(v, y) /\ UNCHANGED share /\ Exists /\ visit[v].step \in Outcomes
    BY DEF Arrive
<1>3. ~UnderWay(v)
    BY <1>2 DEF UnderWay, Outcomes, Steps
<1>4. CASE HasToken(x)
    <2>1. y = x /\ x.step = "verify" /\ x.read = share /\ x.issued = NoToken
        BY <1>4
    <2>2. Passed(x)
        BY DEF Passed
    <2> QED BY <1>1, <1>2, <1>3, <2>1, <2>2 DEF Arrives
<1>5. CASE ~HasToken(x)
    <2> DEFINE z == Judged(x)
    <2>1. /\ z \in Going /\ SameBut(z, x) /\ Passed(z)
          /\ z.step \in {"refused", "assign", "granted", "sign", "count"}
        BY <1>1, JudgedPasses
    <2>2. ~HasToken(z)
        BY <1>5, <2>1 DEF SameBut, HasToken
    <2>3. z.step # "granted" /\ z.read = share /\ z.issued = NoToken
        BY <2>1, <2>2 DEF Passed, SameBut
    <2>4. Becomes(v, z)
        BY <1>2, <1>5
    <2> QED BY <1>2, <1>3, <2>1, <2>2, <2>3, <2>4 DEF Arrives
<1> QED BY <1>4, <1>5

Verifies(v, y) ==
    /\ Becomes(v, y) /\ UNCHANGED share
    /\ visit[v].step = "verify"
    /\ y.read = visit[v].read /\ y.issued = visit[v].issued
    /\ y.step \in {"refused", "assign", "granted", "sign", "count"}
    /\ Passed(y)
    /\ HasToken(y) /\ y.step # "refused" => y.token = visit[v].token /\ Valid(y.token)

LEMMA VerifyIs ==
    ASSUME TypeOK, NEW v \in Visits, Verify(v)
    PROVE  \E y \in Going : Verifies(v, y)
<1> DEFINE x == visit[v]
<1>1. x.step = "verify" /\ x \in Going
    BY UnderWayType DEF Verify, UnderWay, Steps
<1>2. ASSUME NEW w \in Going, w.read = x.read, w.issued = x.issued, Becomes(v, Judged(w)),
             HasToken(w) => w.token = x.token /\ Valid(w.token)
      PROVE  Verifies(v, Judged(w)) /\ Judged(w) \in Going
    <2> DEFINE z == Judged(w)
    <2>1. /\ z \in Going /\ SameBut(z, w) /\ Passed(z)
          /\ z.step \in {"refused", "assign", "granted", "sign", "count"}
        BY JudgedPasses
    <2>2. HasToken(z) => HasToken(w) /\ z.token = w.token
        BY <2>1 DEF SameBut, HasToken
    <2>3. z.read = x.read /\ z.issued = x.issued
        BY <1>2, <2>1 DEF SameBut
    <2>4. UNCHANGED share
        BY DEF Verify
    <2> HIDE DEF z
    <2>5. Becomes(v, z)
        BY <1>2 DEF z
    <2>6. HasToken(z) /\ z.step # "refused" => z.token = x.token /\ Valid(z.token)
        BY <1>2, <2>2
    <2>7. Verifies(v, z)
        BY <1>1, <2>1, <2>3, <2>4, <2>5, <2>6 DEF Verifies
    <2> QED BY <2>1, <2>7 DEF z
<1>3. CASE Valid(x.token)
    BY <1>1, <1>2, <1>3 DEF Verify
<1>4. CASE ~Valid(x.token) /\ Exists /\ x.kind = "list"
    <2> DEFINE w == [x EXCEPT !.token = NoToken]
    <2>1. w \in Going /\ w.read = x.read /\ w.issued = x.issued /\ w.token = NoToken
        BY <1>1 DEF Going
    <2>2. ~HasToken(w)
        BY <2>1 DEF HasToken
    <2>3. Becomes(v, Judged(w))
        BY <1>4 DEF Verify
    <2> QED BY <1>2, <2>1, <2>2, <2>3
<1>5. CASE ~Valid(x.token) /\ ~(Exists /\ x.kind = "list")
    <2> DEFINE z == Refused(x)
    <2>1. z \in Going /\ z.step = "refused" /\ z.read = x.read /\ z.issued = x.issued
        BY <1>1, WithStep DEF Refused, Outcomes
    <2>2. Becomes(v, z) /\ UNCHANGED share
        BY <1>5 DEF Verify
    <2>3. Passed(z)
        BY <2>1 DEF Passed
    <2> HIDE DEF z
    <2> QED BY <1>1, <2>1, <2>2, <2>3 DEF Verifies
<1> QED BY <1>3, <1>4, <1>5

\* The place of an address among those assigned, as a transaction gives it.
Placed(ip) == share' = [share EXCEPT !.security.assignedIps = @ \cup {ip}]

Assigns(v, y) ==
    /\ Becomes(v, y)
    /\ visit[v].step = "assign" /\ SameBut(y, visit[v])
    /\ y.step \in {"refused", "granted", "sign", "count"}
    /\ y.step = "granted" => HasToken(y)
    /\ y.step \in {"count", "sign"} => ~HasToken(y)
    /\ y.step = "sign" => y.kind = "token"
    /\ y.step = "count" => y.kind # "token"
    /\ y.step = "refused" =>
          /\ UNCHANGED share
          /\ \/ share.security.id # y.read.security.id
             \/ y.ip \notin share.security.assignedIps
    /\ y.step # "refused" =>
          /\ share.security.id = y.read.security.id
          /\ \/ UNCHANGED share /\ y.ip \in share.security.assignedIps
             \/ /\ Placed(y.ip)
                /\ Cardinality(share.security.assignedIps) < y.read.security.maxIps

LEMMA AssignIs ==
    ASSUME TypeOK, NEW v \in Visits, Assign(v)
    PROVE  \E y \in Going : Assigns(v, y)
<1> DEFINE x == visit[v]
           sec == share.security
           free == Cardinality(sec.assignedIps) < x.read.security.maxIps
<1>1. x.step = "assign" /\ x \in Going
    BY UnderWayType DEF Assign, UnderWay, Steps
<1>2. PICK st \in {"refused", "granted", "sign", "count"} :
          /\ Becomes(v, [x EXCEPT !.step = st])
          /\ st = "granted" => HasToken(x)
          /\ st \in {"count", "sign"} => ~HasToken(x)
          /\ st = "sign" => x.kind = "token"
          /\ st = "count" => x.kind # "token"
          /\ st = "refused" =>
                UNCHANGED share /\ (sec.id # x.read.security.id \/ x.ip \notin sec.assignedIps)
          /\ st # "refused" =>
                /\ sec.id = x.read.security.id
                /\ \/ UNCHANGED share /\ x.ip \in sec.assignedIps
                   \/ Placed(x.ip) /\ free
    <2>1. CASE Becomes(v, Refused(x)) /\ UNCHANGED share
               /\ (sec.id # x.read.security.id \/ x.ip \notin sec.assignedIps)
        BY <2>1 DEF Refused
    <2>2. CASE /\ Becomes(v, Admitted(x)) /\ sec.id = x.read.security.id
               /\ \/ UNCHANGED share /\ x.ip \in sec.assignedIps
                  \/ Placed(x.ip) /\ free
        <3>1. PICK st \in {"granted", "sign", "count"} :
                  /\ Admitted(x) = [x EXCEPT !.step = st]
                  /\ st = "granted" => HasToken(x)
                  /\ st \in {"count", "sign"} => ~HasToken(x)
                  /\ st = "sign" => x.kind = "token"
                  /\ st = "count" => x.kind # "token"
            BY DEF Admitted
        <3> QED BY <2>2, <3>1
    <2> QED BY <2>1, <2>2 DEF Assign, Placed
<1> DEFINE y == [x EXCEPT !.step = st]
<1>3. y \in Going /\ SameBut(y, x) /\ y.step = st
    BY <1>1, WithStep, ZenonT(30) DEF SameBut, Outcomes, Steps
<1>4. (HasToken(y) <=> HasToken(x)) /\ y.kind = x.kind /\ y.ip = x.ip /\ y.read = x.read
    BY <1>3 DEF SameBut, HasToken
<1>5. Becomes(v, y)
    BY <1>2
<1> HIDE DEF y
<1> QED BY <1>1, <1>2, <1>3, <1>4, <1>5 DEF Assigns

Counts(v, y) ==
    /\ Becomes(v, y)
    /\ visit[v].step = "count" /\ SameBut(y, visit[v])
    /\ \/ ~Exists /\ y.step = "refused" /\ UNCHANGED share
       \/ /\ Exists /\ y.step = (IF y.kind = "list" THEN "sign" ELSE "granted")
          /\ share' = [share EXCEPT !.views = y.read.views + 1]

LEMMA CountIs ==
    ASSUME TypeOK, NEW v \in Visits, Count(v)
    PROVE  \E y \in Going : Counts(v, y)
<1> DEFINE x == visit[v]
<1>1. x.step = "count" /\ x \in Going
    BY UnderWayType DEF Count, UnderWay, Steps
<1>2. PICK st \in {"refused", "granted", "sign"} :
          /\ Becomes(v, [x EXCEPT !.step = st])
          /\ \/ ~Exists /\ st = "refused" /\ UNCHANGED share
             \/ /\ Exists /\ st = (IF x.kind = "list" THEN "sign" ELSE "granted")
                /\ share' = [share EXCEPT !.views = x.read.views + 1]
    BY DEF Count, Refused
<1> DEFINE y == [x EXCEPT !.step = st]
<1>3. y \in Going /\ SameBut(y, x) /\ y.step = st
    BY <1>1, WithStep, ZenonT(30) DEF SameBut, Outcomes, Steps
<1>4. y.kind = x.kind /\ y.read = x.read /\ Becomes(v, y)
    BY <1>2, <1>3 DEF SameBut
<1> HIDE DEF y
<1> QED BY <1>1, <1>2, <1>3, <1>4 DEF Counts

Signs(v, y) ==
    /\ Becomes(v, y) /\ UNCHANGED share
    /\ visit[v].step = "sign"
    /\ y.read = visit[v].read /\ y.token = visit[v].token /\ y.kind = visit[v].kind
    /\ y.ip = visit[v].ip /\ y.password = visit[v].password
    /\ \/ ~Exists /\ y.step = "refused"
       \/ /\ Exists /\ y.step = (IF y.kind = "token" THEN "count" ELSE "granted")
          /\ y.issued = [shareCreatedAt |-> share.createdAt, gen |-> share.gen,
                         password |-> y.password]

LEMMA SignIs ==
    ASSUME TypeOK, NEW v \in Visits, Sign(v)
    PROVE  \E y \in Going : Signs(v, y)
<1> DEFINE x == visit[v]
<1>1. x.step = "sign" /\ x \in Going
    BY UnderWayType DEF Sign, UnderWay, Steps
<1>2. CASE ~Exists
    <2> DEFINE y == [x EXCEPT !.step = "refused"]
    <2>1. y \in Going /\ SameBut(y, x) /\ y.step = "refused"
        BY <1>1, WithStep DEF SameBut, Outcomes, Steps
    <2>2. Becomes(v, y) /\ UNCHANGED share
        BY <1>2 DEF Sign, Refused
    <2> HIDE DEF y
    <2> QED BY <1>1, <1>2, <2>1, <2>2 DEF Signs, SameBut
<1>3. CASE Exists
    <2> DEFINE token == [shareCreatedAt |-> share.createdAt, gen |-> share.gen,
                         password |-> x.password]
               st == IF x.kind = "token" THEN "count" ELSE "granted"
               y == [x EXCEPT !.issued = token, !.step = st]
    <2>1. token \in Token
        BY <1>1, <1>3 DEF Token, TypeOK, Share, Going, Exists
    <2>2. st \in Outcomes \cup Steps
        BY DEF Outcomes, Steps
    <2>3. /\ y \in Going /\ y.step = st /\ y.issued = token /\ y.read = x.read
          /\ y.token = x.token /\ y.kind = x.kind /\ y.ip = x.ip /\ y.password = x.password
        BY <1>1, <2>1, <2>2 DEF Going
    <2>4. Becomes(v, y) /\ UNCHANGED share
        BY <1>3 DEF Sign
    <2> HIDE DEF y
    <2> QED BY <1>1, <1>3, <2>3, <2>4 DEF Signs
<1> QED BY <1>2, <1>3

-----------------------------------------------------------------------------
(* The steps of the owner *)

\* Whether a record holds the settings s.
Holds(sec, s) ==
    /\ sec.password = s.password /\ sec.maxViews = s.maxViews
    /\ sec.maxIps = s.maxIps /\ sec.allowedIps = s.allowedIps

LEMMA StoredIs ==
    ASSUME NEW s \in Setting, NEW old \in Security, NEW A \in SUBSET Ips, securities \in Nat
    PROVE  /\ Stored(s, old, A) \in Security
           /\ Holds(Stored(s, old, A), s)
           /\ \/ Stored(s, old, A) = NoSecurity
              \/ Stored(s, old, A).id = old.id /\ old.id # 0 /\ Stored(s, old, A).assignedIps = A
              \/ /\ Stored(s, old, A).id = securities + 1 /\ old.id = 0
                 /\ Stored(s, old, A).assignedIps = {}
<1> DEFINE new == SecurityOf(securities + 1, {}, s)
           kept == SecurityOf(old.id, A, s)
<1>1. old.id \in Nat
    BY DEF Security
<1>2. NoSecurity \in Security /\ Holds(NoSecurity, NoSetting)
    BY DEF NoSecurity, SecurityOf, NoSetting, Security, Holds, Limits
<1>3. new \in Security /\ Holds(new, s) /\ new.id = securities + 1 /\ new.assignedIps = {}
    BY DEF SecurityOf, Setting, Security, Holds
<1>4. kept \in Security /\ Holds(kept, s) /\ kept.id = old.id /\ kept.assignedIps = A
    BY <1>1 DEF SecurityOf, Setting, Security, Holds
<1>5. Stored(s, old, A) = IF s = NoSetting THEN NoSecurity ELSE IF old.id # 0 THEN kept ELSE new
    BY DEF Stored
<1> HIDE DEF new, kept
<1>6. CASE s = NoSetting
    BY <1>2, <1>5, <1>6
<1>7. CASE s # NoSetting /\ old.id # 0
    BY <1>4, <1>5, <1>7
<1>8. CASE s # NoSetting /\ old.id = 0
    BY <1>3, <1>5, <1>8
<1> QED BY <1>6, <1>7, <1>8

LEMMA UpdatedIs ==
    ASSUME NEW old \in Security, NEW given, NEW s \in Setting
    PROVE  /\ Updated(old, given, s) \in Setting
           /\ given \cap {"maxIps", "allowedIps"} = {} =>
                 Updated(old, given, s).maxIps = old.maxIps
           /\ "password" \notin given => Updated(old, given, s).password = old.password
<1> DEFINE allowedIps == IF "allowedIps" \in given THEN s.allowedIps
                         ELSE IF "maxIps" \in given /\ s.maxIps # 0 THEN {}
                         ELSE old.allowedIps
           maxIps == IF "maxIps" \in given THEN s.maxIps
                     ELSE IF "allowedIps" \in given /\ allowedIps # {} THEN 0
                     ELSE old.maxIps
           password == IF "password" \in given THEN s.password ELSE old.password
           maxViews == IF "maxViews" \in given THEN s.maxViews ELSE old.maxViews
<1>1. Updated(old, given, s) = [password |-> password, maxViews |-> maxViews,
                                maxIps |-> maxIps, allowedIps |-> allowedIps]
    BY Zenon DEF Updated
<1>2. allowedIps \in SUBSET Ips
    BY DEF Setting, Security
<1>3. maxIps \in Limits /\ maxViews \in Limits /\ password \in Passwords \cup {NoPassword}
    BY DEF Setting, Security, Limits
<1>4. given \cap {"maxIps", "allowedIps"} = {} => maxIps = old.maxIps
    OBVIOUS
<1>5. "password" \notin given => password = old.password
    OBVIOUS
<1> HIDE DEF allowedIps, maxIps, password, maxViews
<1> QED BY <1>1, <1>2, <1>3, <1>4, <1>5 DEF Setting

\* The row holds the record sec; a new record has the next id.
LEMMA StoresIs ==
    ASSUME NEW row \in Share, NEW sec \in Security, Stores(row, sec),
           securities \in 0 .. MaxSecurities
    PROVE  /\ share' \in Share
           /\ share'.gen = row.gen /\ share'.createdAt = row.createdAt
           /\ share'.views = row.views /\ share'.security = sec
           /\ securities' \in 0 .. MaxSecurities
           /\ securities' >= securities /\ sec.id <= securities'
BY AccessAssumption DEF Stores, Share, Security

LEMMA CreateIs ==
    ASSUME TypeOK, NEW s \in Settings, Create(s)
    PROVE  /\ ~Exists /\ created < MaxGen /\ created' = created + 1
           /\ share' \in Share /\ share'.gen = created + 1 /\ share'.createdAt = clock
           /\ share'.views = 0
           /\ securities' \in 0 .. MaxSecurities /\ securities' >= securities
           /\ share'.security.id <= securities'
           /\ \/ share'.security = NoSecurity
              \/ /\ share'.security.id = securities + 1
                 /\ share'.security.assignedIps = {}
           /\ opened' = 0 /\ served' = {}
           /\ UNCHANGED <<clock, tokens, visit>>
<1>1. s \in Setting
    BY AccessAssumption
<1>2. NoSecurity \in Security /\ NoSecurity.id = 0 /\ {} \in SUBSET Ips
    BY DEF NoSecurity, SecurityOf, NoSetting, Security, Limits
<1>3. created \in Nat /\ securities \in 0 .. MaxSecurities /\ securities \in Nat /\ clock \in Nat
    BY AccessAssumption DEF TypeOK
<1> DEFINE sec == Stored(s, NoSecurity, {})
           row == [gen |-> created', createdAt |-> clock, views |-> 0, security |-> NoSecurity]
<1>4. /\ sec \in Security
      /\ \/ sec = NoSecurity
         \/ sec.id = securities + 1 /\ sec.assignedIps = {}
    BY <1>1, <1>2, <1>3, StoredIs
<1>5. Stores(row, sec) /\ created' = created + 1
    BY DEF Create
<1>6. row \in Share /\ row.gen = created + 1 /\ row.createdAt = clock /\ row.views = 0
    BY <1>2, <1>3, <1>5 DEF Share
<1> HIDE DEF sec, row
<1>7. /\ share' \in Share
      /\ share'.gen = row.gen /\ share'.createdAt = row.createdAt
      /\ share'.views = row.views /\ share'.security = sec
      /\ securities' \in 0 .. MaxSecurities
      /\ securities' >= securities /\ sec.id <= securities'
    BY <1>3, <1>4, <1>5, <1>6, StoresIs
<1> QED BY <1>4, <1>5, <1>6, <1>7 DEF Create

LEMMA UpdateIs ==
    ASSUME TypeOK, NEW s \in Settings, NEW given \in Updates, UpdateSecurity(given, s)
    PROVE  /\ Exists
           /\ share' \in Share /\ share'.gen = share.gen
           /\ share'.createdAt = share.createdAt /\ share'.views = share.views
           /\ securities' \in 0 .. MaxSecurities /\ securities' >= securities
           /\ share'.security.id <= securities'
           /\ \/ share'.security = NoSecurity
              \/ share'.security.id = share.security.id /\ share.security.id # 0
              \/ share'.security.id = securities + 1 /\ share.security.id = 0
           /\ "password" \notin given => share'.security.password = share.security.password
           /\ given \cap {"maxIps", "allowedIps"} = {} =>
                 /\ share'.security.maxIps = share.security.maxIps
                 /\ \/ share'.security.assignedIps = share.security.assignedIps
                    \/ share'.security = NoSecurity
                    \/ share.security.id = 0
                 /\ UNCHANGED served
           /\ served' \in {served, {}}
           /\ UNCHANGED <<clock, tokens, visit, created, opened>>
<1> DEFINE old == share.security
           new == Updated(old, given, s)
           anew == given \cap {"maxIps", "allowedIps"} # {}
           A == IF anew THEN {} ELSE old.assignedIps
           sec == Stored(new, old, A)
<1>1. s \in Setting /\ share \in Share /\ old \in Security /\ A \in SUBSET Ips
    BY AccessAssumption DEF TypeOK, Share, Security
<1>2. securities \in 0 .. MaxSecurities /\ securities \in Nat
    BY AccessAssumption DEF TypeOK
<1>3. /\ new \in Setting
      /\ ~anew => new.maxIps = old.maxIps
      /\ "password" \notin given => new.password = old.password
    BY <1>1, UpdatedIs
<1>4. Stores(share, sec) /\ served' = (IF anew THEN {} ELSE served)
    BY DEF UpdateSecurity
<1> HIDE DEF new
<1>5. /\ sec \in Security /\ Holds(sec, new)
      /\ \/ sec = NoSecurity
         \/ sec.id = old.id /\ old.id # 0 /\ sec.assignedIps = A
         \/ sec.id = securities + 1 /\ old.id = 0 /\ sec.assignedIps = {}
    BY <1>1, <1>2, <1>3, StoredIs
<1> HIDE DEF sec
<1>6. /\ share' \in Share
      /\ share'.gen = share.gen /\ share'.createdAt = share.createdAt
      /\ share'.views = share.views /\ share'.security = sec
      /\ securities' \in 0 .. MaxSecurities
      /\ securities' >= securities /\ sec.id <= securities'
    BY <1>1, <1>2, <1>4, <1>5, StoresIs
<1>7. Exists /\ UNCHANGED <<clock, tokens, visit, created, opened>>
    BY DEF UpdateSecurity
<1>8. sec.maxIps = new.maxIps /\ sec.password = new.password
    BY <1>5 DEF Holds
<1> QED BY <1>3, <1>4, <1>5, <1>6, <1>7, <1>8

-----------------------------------------------------------------------------
(* Type correctness *)

LEMMA BecomesTyped ==
    ASSUME TypeOK, NEW v \in Visits, NEW y \in Going, Becomes(v, y), share' \in Share
    PROVE  TypeOK'
<1>1. /\ visit' \in [Visits -> [step: Outcomes] \cup Visit]
      /\ UNCHANGED <<clock, created, securities>>
      /\ y.step # "granted" => UNCHANGED <<opened, served, tokens>>
      /\ y.step = "granted" =>
            /\ opened' = IF HasToken(y) THEN opened ELSE opened + 1
            /\ served' = served \cup {y.ip}
            /\ tokens' = tokens \cup ({y.issued} \ {NoToken})
    BY BecomesMoves
<1>2. y.ip \in Ips /\ y.issued \in Token \cup {NoToken}
    BY DEF Going
<1>3. opened' \in Nat /\ served' \subseteq Ips /\ tokens' \subseteq Token
    BY <1>1, <1>2 DEF TypeOK
<1> QED BY <1>1, <1>3 DEF TypeOK

LEMMA VisitTyped == ASSUME TypeOK, NEW v \in Visits, VisitStep(v) PROVE TypeOK'
<1>0. share \in Share
    BY DEF TypeOK
<1>1. CASE Verify(v)
    <2>1. PICK y \in Going : Verifies(v, y)
        BY <1>1, VerifyIs
    <2> QED BY <1>0, <2>1, BecomesTyped DEF Verifies
<1>2. CASE Assign(v)
    <2>1. PICK y \in Going : Assigns(v, y)
        BY <1>2, AssignIs
    <2>2. y.ip \in Ips
        BY DEF Going
    <2>3. Placed(y.ip) => share' \in Share
        BY <1>0, <2>2 DEF Placed, Share, Security
    <2>4. share' \in Share
        BY <1>0, <2>1, <2>3 DEF Assigns
    <2> QED BY <2>1, <2>4, BecomesTyped DEF Assigns
<1>3. CASE Count(v)
    <2>1. PICK y \in Going : Counts(v, y)
        BY <1>3, CountIs
    <2>2. y.read.views + 1 \in Nat
        BY DEF Going, Share
    <2>3. share' = [share EXCEPT !.views = y.read.views + 1] => share' \in Share
        BY <1>0, <2>2 DEF Share
    <2>4. share' \in Share
        BY <1>0, <2>1, <2>3 DEF Counts
    <2> QED BY <2>1, <2>4, BecomesTyped DEF Counts
<1>4. CASE Sign(v)
    <2>1. PICK y \in Going : Signs(v, y)
        BY <1>4, SignIs
    <2> QED BY <1>0, <2>1, BecomesTyped DEF Signs
<1> QED BY <1>1, <1>2, <1>3, <1>4 DEF VisitStep

LEMMA NoShareType == NoShare \in Share /\ NoShare.gen = 0 /\ NoShare.security = NoSecurity
                     /\ NoShare.views = 0 /\ NoSecurity.id = 0
BY DEF NoShare, Share, NoSecurity, SecurityOf, NoSetting, Security, Limits

LEMMA NextTyped == ASSUME TypeOK, Next PROVE TypeOK'
<1>1. CASE Tick
    BY <1>1, AccessAssumption DEF Tick, TypeOK
<1>2. ASSUME NEW s \in Settings, Create(s) PROVE TypeOK'
    BY <1>2, CreateIs, AccessAssumption DEF TypeOK
<1>3. CASE Remove
    BY <1>3, NoShareType DEF Remove, TypeOK
<1>4. ASSUME NEW s \in Settings, NEW given \in Updates, UpdateSecurity(given, s) PROVE TypeOK'
    BY <1>4, UpdateIs DEF TypeOK
<1>5. ASSUME NEW v \in Visits, NEW kind \in Kinds, NEW ip \in Ips,
             NEW password \in Passwords \cup {NoPassword}, NEW token \in tokens \cup {NoToken},
             Arrive(v, kind, ip, password, token)
      PROVE  TypeOK'
    <2>1. PICK y \in Going : Arrives(v, y)
        BY <1>5, ArriveIs
    <2> QED BY <2>1, BecomesTyped DEF Arrives, TypeOK
<1>6. ASSUME NEW v \in Visits, VisitStep(v) PROVE TypeOK'
    BY <1>6, VisitTyped
<1> QED BY <1>1, <1>2, <1>3, <1>4, <1>5, <1>6 DEF Next

\* Every variable keeps its type.
THEOREM AccessTypeOK == Spec => []TypeOK
<1>1. Init => TypeOK
    BY AccessAssumption, NoShareType DEF Init, TypeOK, NoVisit, Outcomes
<1>2. TypeOK /\ UNCHANGED vars => TypeOK'
    BY DEF vars, TypeOK
<1> QED BY <1>1, <1>2, NextTyped, PTL DEF Spec

-----------------------------------------------------------------------------
(* Places and tokens, whatever the owner does *)

\* Only its own step takes a visit anywhere.
VisitMoves(v) ==
    \/ \E y \in Going : Arrives(v, y)
    \/ \E y \in Going : Verifies(v, y)
    \/ \E y \in Going : Assigns(v, y)
    \/ \E y \in Going : Counts(v, y)
    \/ \E y \in Going : Signs(v, y)

OwnerMoves ==
    \/ Tick \/ Remove
    \/ \E s \in Settings : Create(s)
    \/ \E s \in Settings, given \in Updates : UpdateSecurity(given, s)

LEMMA NextIs == ASSUME TypeOK, Next PROVE OwnerMoves \/ \E v \in Visits : VisitMoves(v)
<1>1. ASSUME NEW v \in Visits, NEW kind \in Kinds, NEW ip \in Ips,
             NEW password \in Passwords \cup {NoPassword}, NEW token \in tokens \cup {NoToken},
             Arrive(v, kind, ip, password, token)
      PROVE  VisitMoves(v)
    BY <1>1, ArriveIs DEF VisitMoves
<1>2. ASSUME NEW v \in Visits, VisitStep(v) PROVE VisitMoves(v)
    BY <1>2, VerifyIs, AssignIs, CountIs, SignIs DEF VisitMoves, VisitStep
<1> QED BY <1>1, <1>2 DEF Next, OwnerMoves

LEMMA OwnerKeepsVisits == ASSUME OwnerMoves PROVE UNCHANGED <<visit, tokens>>
BY DEF OwnerMoves, Tick, Remove, Create, UpdateSecurity

(***************************************************************************)
(* Records are numbered, and a visit that waits for a place has read one.  *)
(* If that record is still there, so is the share its token opened.        *)
(***************************************************************************)
Waits(x) ==
    /\ x.read.security.id = 0 => x.read.security.maxIps = 0
    /\ x.read.security.id <= securities
    /\ x.step = "assign" =>
          /\ x.read.security.id # 0
          /\ HasToken(x) /\ x.read.security.id = share.security.id
                => x.token.shareCreatedAt = share.createdAt

RecordInv ==
    /\ share.security.id = 0 => share.security.maxIps = 0
    /\ share.security.id <= securities
    /\ ~Exists => share.security.id = 0
    /\ \A v \in Visits : UnderWay(v) => Waits(visit[v])

LEMMA OwnerKeepsRecords ==
    ASSUME TypeOK, RecordInv, OwnerMoves
    PROVE  RecordInv'
<1>0. UNCHANGED visit /\ securities \in Nat /\ NoSecurity.id = 0 /\ NoSecurity.maxIps = 0
    BY OwnerKeepsVisits, AccessAssumption
    DEF TypeOK, NoSecurity, SecurityOf, NoSetting
<1> DEFINE Numbered ==
          /\ securities' >= securities /\ securities' \in Nat
          /\ share'.security.id = 0 => share'.security.maxIps = 0
          /\ share'.security.id <= securities'
          /\ ~Exists' => share'.security.id = 0
          /\ \/ share'.security.id = share.security.id /\ share'.createdAt = share.createdAt
             \/ share'.security.id = 0
             \/ share'.security.id = securities + 1
<1>1. Numbered
    <2>1. CASE Tick
        BY <1>0, <2>1 DEF Tick, RecordInv, Exists
    <2>2. CASE Remove
        BY <1>0, <2>2, NoShareType DEF Remove
    <2>3. ASSUME NEW s \in Settings, Create(s) PROVE Numbered
        <3>1. share'.gen # 0
            BY <2>3, CreateIs DEF TypeOK
        <3>2. securities' \in Nat
            BY <2>3, CreateIs, AccessAssumption
        <3> QED BY <1>0, <2>3, <3>1, <3>2, CreateIs DEF Exists
    <2>4. ASSUME NEW s \in Settings, NEW given \in Updates, UpdateSecurity(given, s)
          PROVE Numbered
        <3>2. securities' \in Nat
            BY <2>4, UpdateIs, AccessAssumption
        <3> QED BY <1>0, <2>4, <3>2, UpdateIs DEF Exists
    <2> QED BY <2>1, <2>2, <2>3, <2>4 DEF OwnerMoves
<1>2. ASSUME NEW v \in Visits, UnderWay(v) PROVE Waits(visit[v])'
    <2>1. Waits(visit[v]) /\ visit[v].read.security.id \in Nat
        BY <1>2, UnderWayType DEF RecordInv, Visit, Share, Security
    <2> QED BY <1>0, <1>1, <2>1 DEF Waits, HasToken
<1> QED BY <1>0, <1>1, <1>2 DEF RecordInv, UnderWay

LEMMA VisitsKeepRecords ==
    ASSUME TypeOK, RecordInv, NEW v \in Visits, VisitMoves(v)
    PROVE  RecordInv'
<1>0. share.security.id \in Nat /\ securities \in Nat
    BY AccessAssumption DEF TypeOK, Share, Security
<1>1. ASSUME NEW y \in Going, Becomes(v, y),
             share'.security.id = share.security.id, share'.gen = share.gen,
             share'.security.maxIps = share.security.maxIps,
             share'.createdAt = share.createdAt,
             y.step \in Steps => Waits(y)
      PROVE  RecordInv'
    <2>1. /\ \A w \in Visits \ {v} : visit'[w] = visit[w]
          /\ visit'[v].step = y.step
          /\ y.step \in Steps => visit'[v] = y
          /\ UNCHANGED securities
        BY <1>1, BecomesMoves
    <2>2. ASSUME NEW w \in Visits, UnderWay(w)' PROVE Waits(visit[w])'
        <3>1. CASE w = v
            BY <1>1, <2>1, <2>2, <3>1 DEF UnderWay, Waits, HasToken
        <3>2. CASE w # v
            BY <1>1, <2>1, <2>2, <3>2 DEF RecordInv, UnderWay, Waits, HasToken
        <3> QED BY <3>1, <3>2
    <2> QED BY <1>1, <2>1, <2>2 DEF RecordInv, Exists
<1>2. ASSUME NEW y \in Going, Arrives(v, y) PROVE RecordInv'
    BY <1>1, <1>2 DEF Arrives, Passed, Waits, RecordInv
<1>3. ASSUME NEW y \in Going, Verifies(v, y) PROVE RecordInv'
    <2>1. Waits(visit[v])
        BY <1>3 DEF Verifies, RecordInv, UnderWay, Steps
    <2> QED BY <1>1, <1>3, <2>1 DEF Verifies, Passed, Waits, Valid
<1>4. ASSUME NEW y \in Going, Assigns(v, y) PROVE RecordInv'
    <2>1. Waits(visit[v]) /\ y.step # "assign"
        BY <1>4 DEF Assigns, RecordInv, UnderWay, Steps
    <2>2. share \in Share
        BY DEF TypeOK
    <2>3. /\ share'.security.id = share.security.id /\ share'.gen = share.gen
          /\ share'.security.maxIps = share.security.maxIps
          /\ share'.createdAt = share.createdAt
        BY <1>4, <2>2 DEF Assigns, Placed, Share, Security
    <2> QED BY <1>1, <1>4, <2>1, <2>3 DEF Assigns, SameBut, Waits
<1>5. ASSUME NEW y \in Going, Counts(v, y) PROVE RecordInv'
    <2>1. Waits(visit[v]) /\ y.step # "assign"
        BY <1>5 DEF Counts, RecordInv, UnderWay, Steps
    <2>2. share \in Share
        BY DEF TypeOK
    <2>3. /\ share'.security = share.security /\ share'.gen = share.gen
          /\ share'.createdAt = share.createdAt
        BY <1>5, <2>2 DEF Counts, Share
    <2> QED BY <1>1, <1>5, <2>1, <2>3 DEF Counts, SameBut, Waits
<1>6. ASSUME NEW y \in Going, Signs(v, y) PROVE RecordInv'
    <2>1. Waits(visit[v]) /\ y.step # "assign"
        BY <1>6 DEF Signs, RecordInv, UnderWay, Steps
    <2> QED BY <1>1, <1>6, <2>1 DEF Signs, Waits
<1> QED BY <1>2, <1>3, <1>4, <1>5, <1>6 DEF VisitMoves

LEMMA RecordInvInductive == Spec => []RecordInv
<1>1. Init => RecordInv
    <2>1. ASSUME Init, NEW v \in Visits PROVE ~UnderWay(v)
        BY <2>1 DEF Init, NoVisit, UnderWay, Steps
    <2>2. ASSUME Init
          PROVE  share.security = NoSecurity /\ NoSecurity.id = 0 /\ NoSecurity.maxIps = 0
        BY <2>2, NoShareType DEF Init, NoSecurity, SecurityOf, NoSetting
    <2> QED BY <2>1, <2>2 DEF Init, RecordInv
<1>2. TypeOK /\ RecordInv /\ Next => RecordInv'
    BY NextIs, OwnerKeepsRecords, VisitsKeepRecords
<1>3. RecordInv /\ UNCHANGED vars => RecordInv'
    BY DEF vars, RecordInv, UnderWay, Waits, Exists, HasToken
<1> QED BY <1>1, <1>2, <1>3, AccessTypeOK, PTL DEF Spec

\* A visit that waits for a place changes by its own attempt to get one, and
\* one with a token to verify by its verification.
LEMMA Attempt ==
    ASSUME TypeOK, Next, NEW v \in Visits, visit'[v] # visit[v]
    PROVE  /\ visit[v].step = "assign" => \E y \in Going : Assigns(v, y)
           /\ visit[v].step = "verify" => \E y \in Going : Verifies(v, y)
<1>1. PICK w \in Visits : VisitMoves(w)
    BY NextIs, OwnerKeepsVisits
<1>2. \E y \in Going : Becomes(w, y)
    BY <1>1 DEF VisitMoves, Arrives, Verifies, Assigns, Counts, Signs
<1>3. w = v
    BY <1>2, BecomesMoves
<1> QED BY <1>1, <1>3 DEF VisitMoves, Arrives, Verifies, Assigns, Counts, Signs, UnderWay, Steps

(***************************************************************************)
(* assignShareIpAddress looks for the address before it looks for a free   *)
(* place, so whoever has one of the places keeps it while the record       *)
(* stands, however the limit changes.                                      *)
(***************************************************************************)
THEOREM HolderTheorem == Spec => HolderNotRefused
<1> DEFINE P == \A v \in Visits :
                   /\ visit[v].step = "assign"
                   /\ visit'[v].step = "refused"
                   /\ share.security.id = visit[v].read.security.id
                   => visit[v].ip \notin share.security.assignedIps
<1>1. TypeOK /\ Next => P
    <2> SUFFICES ASSUME TypeOK, Next, NEW v \in Visits,
                        visit[v].step = "assign", visit'[v].step = "refused",
                        share.security.id = visit[v].read.security.id
                 PROVE  visit[v].ip \notin share.security.assignedIps
        OBVIOUS
    <2>1. PICK y \in Going : Assigns(v, y)
        BY Attempt
    <2>2. y.step = "refused"
        BY <2>1, BecomesMoves DEF Assigns
    <2> QED BY <2>1, <2>2 DEF Assigns, SameBut
<1> QED BY <1>1, AccessTypeOK, PTL DEF Spec, HolderNotRefused

(***************************************************************************)
(* Verification compares the creation time in the token with the row as it *)
(* is; a visit that still has to get a place gets it from the record it    *)
(* has read, which no later share has.                                     *)
(***************************************************************************)
THEOREM TokenTheorem == Spec => TokenOpensItsShare
<1> DEFINE P == \A v \in Visits :
                   /\ visit[v].step \in {"verify", "assign"}
                   /\ visit'[v].step = "granted"
                   => /\ Exists
                      /\ \/ visit[v].token.gen = share.gen
                         \/ visit[v].token.shareCreatedAt = share.createdAt
<1>1. TypeOK /\ RecordInv /\ Next => P
    <2> SUFFICES ASSUME TypeOK, RecordInv, Next, NEW v \in Visits,
                        visit[v].step \in {"verify", "assign"}, visit'[v].step = "granted"
                 PROVE  Exists /\ visit[v].token.shareCreatedAt = share.createdAt
        OBVIOUS
    <2>1. CASE visit[v].step = "verify"
        <3>1. PICK y \in Going : Verifies(v, y)
            BY <2>1, Attempt
        <3>2. y.step = "granted"
            BY <3>1, BecomesMoves DEF Verifies
        <3> QED BY <3>1, <3>2 DEF Verifies, Passed, Valid
    <2>2. CASE visit[v].step = "assign"
        <3>1. PICK y \in Going : Assigns(v, y)
            BY <2>2, Attempt
        <3>2. y.step = "granted"
            BY <3>1, BecomesMoves DEF Assigns
        <3>3. HasToken(visit[v]) /\ share.security.id = visit[v].read.security.id
            BY <3>1, <3>2 DEF Assigns, SameBut, HasToken
        <3>4. Waits(visit[v])
            BY <2>2 DEF RecordInv, UnderWay, Steps
        <3> QED BY <2>2, <3>3, <3>4 DEF Waits, RecordInv
    <2> QED BY <2>1, <2>2
<1> QED BY <1>1, AccessTypeOK, RecordInvInductive, PTL DEF Spec, TokenOpensItsShare

-----------------------------------------------------------------------------
(***************************************************************************)
(* Shares whose id is used once.  A visit under way, or a token, is then   *)
(* about the share that is there, if any.                                  *)
(***************************************************************************)
OnceInv ==
    /\ Exists => share.gen = created
    /\ created = 0 => tokens = {} /\ \A v \in Visits : ~UnderWay(v)
    /\ \A v \in Visits : visit[v].step \in {"count", "sign"} => ~HasToken(visit[v])

\* The address rules of the share stay as they are.
RulesStay == \A given \in Updates : given \cap {"maxIps", "allowedIps"} = {}

\* As long as they do: who is let in, or soon will be, has one of the places.
HasPlace(x) ==
    /\ x.read.security.maxIps = share.security.maxIps
    /\ x.read.security.assignedIps \subseteq share.security.assignedIps
    /\ x.step \in {"count", "sign"} => x.ip \in share.security.assignedIps

PlacesInv ==
    share.security.maxIps # 0 =>
        /\ IsFiniteSet(share.security.assignedIps)
        /\ Cardinality(share.security.assignedIps) <= share.security.maxIps
        /\ served \subseteq share.security.assignedIps
        /\ \A v \in Visits : UnderWay(v) => HasPlace(visit[v])

\* The password of the share stays as it is.
PasswordStays == \A given \in Updates : "password" \notin given

\* As long as it does: who gets a token, or soon will, has given it.
GavePassword(x) ==
    /\ x.read.security.password = share.security.password
    /\ x.step = "assign" => HasToken(x) \/ ~Locked(x)
    /\ x.step \in {"count", "sign"} => ~Locked(x)
    /\ x.issued # NoToken => x.issued.password = share.security.password

PasswordInv ==
    share.security.password # NoPassword =>
        /\ \A t \in tokens : t.password = share.security.password
        /\ \A v \in Visits : UnderWay(v) => GavePassword(visit[v])

\* The visits to the file list that are counted and not yet let in.
ToBeListed == {v \in Visits : visit[v].step = "sign" /\ visit[v].kind = "list"}

\* What a visit has read of the views are visits, too: it writes one more back.
ViewsInv ==
    /\ ~Exists => share.views = 0
    /\ Exists =>
          /\ share.views <= opened + Cardinality(ToBeListed)
          /\ \A v \in Visits : UnderWay(v) =>
                 visit[v].read.views <= opened + Cardinality(ToBeListed)

LEMMA OnceAgain ==
    ASSUME MaxGen <= 1, TypeOK, OnceInv, Next
    PROVE  OnceInv' /\ (\A s \in Settings : Create(s) => created = 0)
<1>0. created \in Nat /\ MaxGen \in Nat
    BY AccessAssumption DEF TypeOK
<1>1. \A s \in Settings : Create(s) => created = 0
    BY <1>0, CreateIs
<1>2. CASE OwnerMoves
    <2>1. UNCHANGED <<visit, tokens>>
        BY <1>2, OwnerKeepsVisits
    <2>2. CASE Tick
        BY <1>1, <2>1, <2>2 DEF Tick, OnceInv, Exists, UnderWay, HasToken
    <2>3. CASE Remove
        BY <1>1, <2>1, <2>3, NoShareType DEF Remove, OnceInv, Exists, UnderWay, HasToken
    <2>4. ASSUME NEW s \in Settings, Create(s) PROVE OnceInv'
        <3>1. share'.gen = created' /\ created' # 0
            BY <1>0, <2>4, CreateIs
        <3> QED BY <2>1, <3>1 DEF OnceInv, HasToken
    <2>5. ASSUME NEW s \in Settings, NEW given \in Updates, UpdateSecurity(given, s)
          PROVE  OnceInv'
        BY <2>1, <2>5, UpdateIs DEF OnceInv, Exists, UnderWay, HasToken
    <2> QED BY <1>1, <1>2, <2>2, <2>3, <2>4, <2>5 DEF OwnerMoves
<1>3. ASSUME NEW v \in Visits, VisitMoves(v) PROVE OnceInv'
    <2>1. ASSUME NEW y \in Going, Becomes(v, y), share'.gen = share.gen,
                 y.step \in {"count", "sign"} => ~HasToken(y), Exists \/ UnderWay(v)
          PROVE  OnceInv'
        <3>1. /\ \A w \in Visits \ {v} : visit'[w] = visit[w]
              /\ visit'[v].step = y.step
              /\ y.step \in Steps => visit'[v] = y
              /\ UNCHANGED created
            BY <2>1, BecomesMoves
        <3>2. created # 0
            BY <2>1 DEF OnceInv, Exists
        <3>3. \A w \in Visits : visit'[w].step \in {"count", "sign"} => ~HasToken(visit'[w])
            BY <2>1, <3>1 DEF OnceInv, Steps
        <3> QED BY <2>1, <3>1, <3>2, <3>3 DEF OnceInv, Exists, HasToken
    <2>2. ASSUME NEW y \in Going, Arrives(v, y) PROVE OnceInv'
        BY <2>1, <2>2 DEF Arrives, Passed
    <2>3. ASSUME NEW y \in Going, Verifies(v, y) PROVE OnceInv'
        BY <2>1, <2>3 DEF Verifies, Passed, UnderWay, Steps
    <2>4. ASSUME NEW y \in Going, Assigns(v, y) PROVE OnceInv'
        <3>1. share'.gen = share.gen
            BY <2>4 DEF Assigns, Placed, TypeOK, Share
        <3> QED BY <2>1, <2>4, <3>1 DEF Assigns, UnderWay, Steps
    <2>5. ASSUME NEW y \in Going, Counts(v, y) PROVE OnceInv'
        <3>1. share'.gen = share.gen
            BY <2>5 DEF Counts, TypeOK, Share
        <3>2. ~HasToken(y)
            BY <2>5 DEF Counts, OnceInv, HasToken, SameBut
        <3> QED BY <2>1, <2>5, <3>1, <3>2 DEF Counts, UnderWay, Steps
    <2>6. ASSUME NEW y \in Going, Signs(v, y) PROVE OnceInv'
        <3>1. ~HasToken(y)
            BY <2>6 DEF Signs, OnceInv, HasToken
        <3> QED BY <2>1, <2>6, <3>1 DEF Signs, UnderWay, Steps
    <2> QED BY <1>3, <2>2, <2>3, <2>4, <2>5, <2>6 DEF VisitMoves
<1> QED BY <1>1, <1>2, <1>3, NextIs

LEMMA OnceInvInductive == ASSUME MaxGen <= 1 PROVE Spec => []OnceInv
<1>1. Init => OnceInv
    BY NoShareType DEF Init, OnceInv, Exists, NoVisit, UnderWay, Steps
<1>2. OnceInv /\ UNCHANGED vars => OnceInv'
    BY DEF vars, OnceInv, Exists, UnderWay, HasToken
<1>3. TypeOK /\ OnceInv /\ Next => OnceInv'
    BY OnceAgain
<1> QED BY <1>1, <1>2, <1>3, AccessTypeOK, PTL DEF Spec

LEMMA PlacesAgain ==
    ASSUME MaxGen <= 1, RulesStay, TypeOK, RecordInv, OnceInv, PlacesInv, Next
    PROVE  PlacesInv'
<1>1. CASE OwnerMoves
    <2>1. UNCHANGED visit
        BY <1>1, OwnerKeepsVisits
    <2>2. CASE Tick
        BY <2>1, <2>2 DEF Tick, PlacesInv, UnderWay, HasPlace
    <2>3. CASE Remove
        <3>1. share'.security.maxIps = 0
            BY <2>3 DEF Remove, NoShare, NoSecurity, SecurityOf, NoSetting
        <3> QED BY <3>1 DEF PlacesInv
    <2>4. ASSUME NEW s \in Settings, Create(s) PROVE PlacesInv'
        <3>1. \A v \in Visits : ~UnderWay(v)'
            BY <2>1, <2>4, OnceAgain DEF OnceInv, UnderWay
        <3>2. share'.security.assignedIps = {} /\ served' = {} /\ share'.security.maxIps \in Nat
            BY <2>4, CreateIs DEF NoSecurity, SecurityOf, Share, Security, Limits
        <3> QED BY <3>1, <3>2, FS_EmptySet DEF PlacesInv
    <2>5. ASSUME NEW s \in Settings, NEW given \in Updates, UpdateSecurity(given, s)
          PROVE  PlacesInv'
        <3>1. /\ share'.security.maxIps = share.security.maxIps
              /\ \/ share'.security.assignedIps = share.security.assignedIps
                 \/ share'.security = NoSecurity
                 \/ share.security.id = 0
              /\ UNCHANGED served
            BY <2>5, UpdateIs DEF RulesStay
        <3>2. NoSecurity.maxIps = 0
            BY DEF NoSecurity, SecurityOf, NoSetting
        <3>3. share.security.id = 0 => share'.security.maxIps = 0
            BY <3>1 DEF RecordInv
        <3> QED BY <2>1, <3>1, <3>2, <3>3 DEF PlacesInv, UnderWay, HasPlace
    <2> QED BY <1>1, <2>2, <2>3, <2>4, <2>5 DEF OwnerMoves
<1>2. ASSUME NEW v \in Visits, VisitMoves(v) PROVE PlacesInv'
    <2>0. share \in Share
        BY DEF TypeOK
    <2>1. ASSUME share.security.maxIps # 0, NEW y \in Going, Becomes(v, y),
                 share'.security.maxIps = share.security.maxIps,
                 share.security.assignedIps \subseteq share'.security.assignedIps,
                 IsFiniteSet(share'.security.assignedIps),
                 Cardinality(share'.security.assignedIps) <= share.security.maxIps,
                 y.step \in Steps => HasPlace(y)',
                 y.step = "granted" => y.ip \in share'.security.assignedIps
          PROVE  PlacesInv'
        <3>1. /\ \A w \in Visits \ {v} : visit'[w] = visit[w]
              /\ visit'[v].step = y.step
              /\ y.step \in Steps => visit'[v] = y
              /\ served' = served \/ (y.step = "granted" /\ served' = served \cup {y.ip})
            BY <2>1, BecomesMoves
        <3>2. ASSUME NEW w \in Visits, UnderWay(w)' PROVE HasPlace(visit[w])'
            <4>1. CASE w = v
                BY <2>1, <3>1, <3>2, <4>1 DEF UnderWay, HasPlace
            <4>2. CASE w # v
                BY <2>1, <3>1, <3>2, <4>2 DEF PlacesInv, UnderWay, HasPlace
            <4> QED BY <4>1, <4>2
        <3>3. served' \subseteq share'.security.assignedIps
            BY <2>1, <3>1 DEF PlacesInv
        <3> QED BY <2>1, <3>2, <3>3 DEF PlacesInv
    <2>2. CASE share.security.maxIps = 0
        <3>1. share'.security.maxIps = 0
            BY <1>2, <2>0, <2>2, ZenonT(30)
            DEF VisitMoves, Arrives, Verifies, Assigns, Placed, Counts, Signs, Share, Security
        <3> QED BY <3>1 DEF PlacesInv
    <2>3. CASE share.security.maxIps # 0
        <3>1. /\ IsFiniteSet(share.security.assignedIps)
              /\ Cardinality(share.security.assignedIps) <= share.security.maxIps
              /\ UnderWay(v) => HasPlace(visit[v])
            BY <2>3 DEF PlacesInv
        <3>2. ASSUME NEW y \in Going, Arrives(v, y) PROVE PlacesInv'
            BY <2>1, <2>3, <3>1, <3>2 DEF Arrives, Passed, HasPlace
        <3>3. ASSUME NEW y \in Going, Verifies(v, y) PROVE PlacesInv'
            <4>1. HasPlace(visit[v])
                BY <3>1, <3>3 DEF Verifies, UnderWay, Steps
            <4> QED BY <2>1, <2>3, <3>1, <3>3, <4>1 DEF Verifies, Passed, HasPlace
        <3>4. ASSUME NEW y \in Going, Assigns(v, y) PROVE PlacesInv'
            <4>1. HasPlace(visit[v])
                BY <3>1, <3>4 DEF Assigns, UnderWay, Steps
            <4>2. CASE UNCHANGED share
                <5>1. y.step \in {"granted", "sign", "count"} => y.ip \in share.security.assignedIps
                    <6>1. Placed(y.ip) => y.ip \in share'.security.assignedIps
                        BY <2>0 DEF Placed, Share, Security
                    <6> QED BY <3>4, <4>2, <6>1 DEF Assigns
                <5>2. y.step # "assign" /\ y.read = visit[v].read
                    BY <3>4 DEF Assigns, SameBut
                <5>3. HasPlace(y)'
                    BY <4>1, <4>2, <5>1, <5>2 DEF HasPlace
                <5> QED BY <2>1, <2>3, <3>1, <3>4, <4>2, <5>1, <5>3 DEF Assigns
            <4>3. CASE /\ Placed(y.ip) /\ y.step # "refused"
                       /\ Cardinality(share.security.assignedIps) < y.read.security.maxIps
                <5> DEFINE A == share.security.assignedIps
                <5>1. /\ share'.security.assignedIps = A \cup {y.ip}
                      /\ share'.security.maxIps = share.security.maxIps
                    BY <2>0, <4>3 DEF Placed, Share, Security
                <5>2. IsFiniteSet(A \cup {y.ip}) /\ Cardinality(A) \in Nat
                      /\ Cardinality(A \cup {y.ip}) <= Cardinality(A) + 1
                    <6>1. IsFiniteSet(A)
                        BY <3>1
                    <6> HIDE DEF A
                    <6>2. /\ IsFiniteSet(A \cup {y.ip}) /\ Cardinality(A) \in Nat
                          /\ Cardinality(A \cup {y.ip}) =
                                IF y.ip \in A THEN Cardinality(A) ELSE Cardinality(A) + 1
                        BY <6>1, FS_AddElement, FS_CardinalityType
                    <6> QED BY <6>2
                <5>3. y.read.security.maxIps = share.security.maxIps
                    BY <3>4, <4>1 DEF Assigns, SameBut, HasPlace
                <5>4. share.security.maxIps \in Nat /\ Cardinality(A \cup {y.ip}) \in Nat
                    BY <2>0, <5>2, FS_CardinalityType DEF Share, Security, Limits
                <5>5. Cardinality(A \cup {y.ip}) <= share.security.maxIps
                    BY <4>3, <5>2, <5>3, <5>4
                <5>6. y.step \in Steps => HasPlace(y)'
                    BY <3>4, <4>1, <5>1 DEF Assigns, SameBut, HasPlace
                <5> QED BY <2>1, <2>3, <3>4, <5>1, <5>2, <5>5, <5>6 DEF Assigns
            <4> QED BY <3>4, <4>2, <4>3 DEF Assigns
        <3>5. ASSUME NEW y \in Going, Counts(v, y) PROVE PlacesInv'
            <4>1. HasPlace(visit[v]) /\ visit[v].ip \in share.security.assignedIps
                BY <3>1, <3>5 DEF Counts, UnderWay, Steps, HasPlace
            <4>2. share'.security = share.security
                BY <2>0, <3>5 DEF Counts, Share
            <4> QED BY <2>1, <2>3, <3>1, <3>5, <4>1, <4>2 DEF Counts, SameBut, HasPlace
        <3>6. ASSUME NEW y \in Going, Signs(v, y) PROVE PlacesInv'
            <4>1. HasPlace(visit[v]) /\ visit[v].ip \in share.security.assignedIps
                BY <3>1, <3>6 DEF Signs, UnderWay, Steps, HasPlace
            <4> QED BY <2>1, <2>3, <3>1, <3>6, <4>1 DEF Signs, HasPlace
        <3> QED BY <1>2, <3>2, <3>3, <3>4, <3>5, <3>6 DEF VisitMoves
    <2> QED BY <2>2, <2>3
<1> QED BY <1>1, <1>2, NextIs

(***************************************************************************)
(* Of a share whose address rules stay as its owner set them, no more      *)
(* addresses are let in than its limit: the places are given in one        *)
(* transaction, and whoever is let in has one.                             *)
(***************************************************************************)
THEOREM PlacesTheorem ==
    ASSUME MaxGen <= 1, RulesStay PROVE Spec => []OpenedByAtMostMaxIps
<1>1. Init => PlacesInv
    BY DEF Init, PlacesInv, NoShare, NoSecurity, SecurityOf, NoSetting
<1>2. PlacesInv /\ UNCHANGED vars => PlacesInv'
    BY DEF vars, PlacesInv, UnderWay, HasPlace
<1>3. TypeOK /\ RecordInv /\ OnceInv /\ PlacesInv /\ Next => PlacesInv'
    BY PlacesAgain
<1>4. TypeOK /\ PlacesInv => OpenedByAtMostMaxIps
    <2> SUFFICES ASSUME TypeOK, PlacesInv, share.security.maxIps # 0
                 PROVE  Cardinality(served) <= share.security.maxIps
        BY DEF OpenedByAtMostMaxIps
    <2> DEFINE A == share.security.assignedIps
    <2>1. /\ IsFiniteSet(A) /\ Cardinality(A) <= share.security.maxIps
          /\ served \in SUBSET A
        BY DEF PlacesInv
    <2>2. share.security.maxIps \in Nat
        BY DEF TypeOK, Share, Security, Limits
    <2> HIDE DEF A
    <2>3. /\ Cardinality(served) <= Cardinality(A)
          /\ Cardinality(A) \in Nat /\ Cardinality(served) \in Nat
        BY <2>1, FS_Subset, FS_CardinalityType
    <2> QED BY <2>1, <2>2, <2>3
<1> QED BY <1>1, <1>2, <1>3, <1>4, AccessTypeOK, RecordInvInductive, OnceInvInductive, PTL
        DEF Spec

-----------------------------------------------------------------------------
(* The password *)

LEMMA PasswordAgain ==
    ASSUME MaxGen <= 1, PasswordStays, TypeOK, OnceInv, PasswordInv, Next
    PROVE  PasswordInv'
<1>1. CASE OwnerMoves
    <2>1. UNCHANGED <<visit, tokens>>
        BY <1>1, OwnerKeepsVisits
    <2>2. ASSUME share'.security.password = share.security.password PROVE PasswordInv'
        BY <2>1, <2>2 DEF PasswordInv, UnderWay, GavePassword, HasToken, Locked
    <2>3. CASE Tick
        BY <2>2, <2>3 DEF Tick
    <2>4. CASE Remove
        <3>1. share'.security.password = NoPassword
            BY <2>4 DEF Remove, NoShare, NoSecurity, SecurityOf, NoSetting
        <3> QED BY <3>1 DEF PasswordInv
    <2>5. ASSUME NEW s \in Settings, Create(s) PROVE PasswordInv'
        <3>1. tokens' = {} /\ \A v \in Visits : ~UnderWay(v)'
            BY <2>1, <2>5, OnceAgain DEF OnceInv, UnderWay
        <3> QED BY <3>1 DEF PasswordInv
    <2>6. ASSUME NEW s \in Settings, NEW given \in Updates, UpdateSecurity(given, s)
          PROVE  PasswordInv'
        BY <2>2, <2>6, UpdateIs DEF PasswordStays
    <2> QED BY <1>1, <2>3, <2>4, <2>5, <2>6 DEF OwnerMoves
<1>2. ASSUME NEW v \in Visits, VisitMoves(v) PROVE PasswordInv'
    <2>0. share \in Share
        BY DEF TypeOK
    <2>1. share'.security.password = share.security.password
        BY <1>2, <2>0
        DEF VisitMoves, Arrives, Verifies, Assigns, Placed, Counts, Signs, Share, Security
    <2>2. CASE share.security.password = NoPassword
        BY <2>1, <2>2 DEF PasswordInv
    <2>3. CASE share.security.password # NoPassword
        <3>0. /\ \A t \in tokens : t.password = share.security.password
              /\ UnderWay(v) => GavePassword(visit[v])
            BY <2>3 DEF PasswordInv
        <3>1. ASSUME NEW y \in Going, Becomes(v, y),
                     y.step \in Steps => GavePassword(y),
                     y.step = "granted" /\ y.issued # NoToken =>
                        y.issued.password = share.security.password
              PROVE  PasswordInv'
            <4>1. /\ \A w \in Visits \ {v} : visit'[w] = visit[w]
                  /\ visit'[v].step = y.step
                  /\ y.step \in Steps => visit'[v] = y
                  /\ \/ tokens' = tokens
                     \/ y.step = "granted" /\ tokens' = tokens \cup ({y.issued} \ {NoToken})
                BY <3>1, BecomesMoves
            <4>2. ASSUME NEW w \in Visits, UnderWay(w)' PROVE GavePassword(visit[w])'
                <5>1. CASE w = v
                    BY <2>1, <3>1, <4>1, <4>2, <5>1 DEF UnderWay, GavePassword, HasToken, Locked
                <5>2. CASE w # v
                    BY <2>1, <2>3, <4>1, <4>2, <5>2
                    DEF PasswordInv, UnderWay, GavePassword, HasToken, Locked
                <5> QED BY <5>1, <5>2
            <4>3. \A t \in tokens' : t.password = share.security.password
                BY <3>0, <3>1, <4>1
            <4> QED BY <2>1, <4>2, <4>3 DEF PasswordInv
        <3>2. ASSUME NEW y \in Going, Arrives(v, y) PROVE PasswordInv'
            BY <3>1, <3>2 DEF Arrives, Passed, GavePassword
        <3>3. ASSUME NEW y \in Going, Verifies(v, y) PROVE PasswordInv'
            <4>1. GavePassword(visit[v])
                BY <3>0, <3>3 DEF Verifies, UnderWay, Steps
            <4> QED BY <3>1, <3>3, <4>1 DEF Verifies, Passed, GavePassword
        <3>4. ASSUME NEW y \in Going, Assigns(v, y) PROVE PasswordInv'
            <4>1. GavePassword(visit[v])
                BY <3>0, <3>4 DEF Assigns, UnderWay, Steps
            <4>2. Locked(y) = Locked(visit[v]) /\ HasToken(y) = HasToken(visit[v])
                BY <3>4 DEF Assigns, SameBut, Locked, HasToken
            <4>3. GavePassword(y)
                BY <3>4, <4>1, <4>2 DEF Assigns, SameBut, GavePassword
            <4> QED BY <3>1, <3>4, <4>3 DEF Assigns, GavePassword
        <3>5. ASSUME NEW y \in Going, Counts(v, y) PROVE PasswordInv'
            <4>1. GavePassword(visit[v])
                BY <3>0, <3>5 DEF Counts, UnderWay, Steps
            <4>2. Locked(y) = Locked(visit[v]) /\ HasToken(y) = HasToken(visit[v])
                BY <3>5 DEF Counts, SameBut, Locked, HasToken
            <4>3. GavePassword(y)
                BY <3>5, <4>1, <4>2 DEF Counts, SameBut, GavePassword
            <4> QED BY <3>1, <3>5, <4>3 DEF Counts, GavePassword
        <3>6. ASSUME NEW y \in Going, Signs(v, y) PROVE PasswordInv'
            <4>1. GavePassword(visit[v])
                BY <3>0, <3>6 DEF Signs, UnderWay, Steps
            <4>2. Locked(y) = Locked(visit[v]) /\ HasToken(y) = HasToken(visit[v])
                BY <3>6 DEF Signs, Locked, HasToken
            <4>3. ~Locked(y) /\ y.read.security.password = share.security.password
                BY <3>6, <4>1, <4>2 DEF Signs, GavePassword
            <4>4. y.password = share.security.password
                BY <2>3, <4>2, <4>3 DEF Locked
            <4>5. y.step # "refused" => y.issued.password = share.security.password
                BY <3>6, <4>4 DEF Signs
            <4> QED BY <3>1, <3>6, <4>2, <4>3, <4>5 DEF Signs, GavePassword, Steps
        <3> QED BY <1>2, <3>2, <3>3, <3>4, <3>5, <3>6 DEF VisitMoves
    <2> QED BY <2>2, <2>3
<1> QED BY <1>1, <1>2, NextIs

(***************************************************************************)
(* Nobody holds a token for a share with a password who did not give it,   *)
(* as long as its owner leaves the password alone: getShareToken compares  *)
(* the password, and getFileList hands out no token while there is one.    *)
(***************************************************************************)
THEOREM PasswordTheorem ==
    ASSUME MaxGen <= 1, PasswordStays PROVE Spec => []TokensNeedPassword
<1>1. Init => PasswordInv
    BY DEF Init, PasswordInv, NoShare, NoSecurity, SecurityOf, NoSetting
<1>2. PasswordInv /\ UNCHANGED vars => PasswordInv'
    BY DEF vars, PasswordInv, UnderWay, GavePassword, HasToken, Locked
<1>3. TypeOK /\ OnceInv /\ PasswordInv /\ Next => PasswordInv'
    BY PasswordAgain
<1>4. PasswordInv => TokensNeedPassword
    BY DEF PasswordInv, TokensNeedPassword
<1> QED BY <1>1, <1>2, <1>3, <1>4, AccessTypeOK, OnceInvInductive, PTL DEF Spec

-----------------------------------------------------------------------------
(* Views *)

LEMMA ListedCount == IsFiniteSet(ToBeListed) /\ Cardinality(ToBeListed) \in Nat
<1>1. IsFiniteSet(Visits) /\ ToBeListed \in SUBSET Visits
    BY AccessAssumption DEF ToBeListed
<1> HIDE DEF ToBeListed
<1> QED BY <1>1, FS_Subset, FS_CardinalityType

LEMMA ListedWhen ==
    ASSUME TypeOK, NEW v \in Visits, NEW y \in Going, Becomes(v, y)
    PROVE  LET L == Cardinality(ToBeListed)
           IN  /\ L \in Nat /\ Cardinality(ToBeListed') \in Nat
               /\ v \notin ToBeListed => Cardinality(ToBeListed') =
                     IF y.step = "sign" /\ y.kind = "list" THEN L + 1 ELSE L
               /\ v \in ToBeListed => Cardinality(ToBeListed') >= L - 1
<1> DEFINE Old == ToBeListed
           New == ToBeListed'
<1>1. /\ \A w \in Visits \ {v} : visit'[w] = visit[w]
      /\ visit'[v].step = y.step
      /\ y.step \in Steps => visit'[v] = y
    BY BecomesMoves
<1>2. New = (Old \ {v}) \cup (IF y.step = "sign" /\ y.kind = "list" THEN {v} ELSE {})
    BY <1>1 DEF ToBeListed, Steps
<1>3. IsFiniteSet(Old) /\ Cardinality(Old) \in Nat
    BY ListedCount
<1> HIDE DEF Old, New
<1>4. CASE v \notin Old
    <2>1. Old \ {v} = Old
        BY <1>4
    <2>2. Cardinality(Old \cup {v}) = Cardinality(Old) + 1
        BY <1>3, <1>4, FS_AddElement
    <2> QED BY <1>2, <1>3, <1>4, <2>1, <2>2 DEF Old, New
<1>5. CASE v \in Old
    <2>1. IsFiniteSet(Old \ {v}) /\ Cardinality(Old \ {v}) = Cardinality(Old) - 1
        BY <1>3, <1>5, FS_RemoveElement
    <2>2. (Old \ {v}) \cup {v} = Old
        BY <1>5
    <2>3. Cardinality(Old) \in Nat /\ Cardinality(Old \ {v}) \in Nat
        BY <1>3, <2>1, FS_CardinalityType
    <2>4. Cardinality(New) \in Nat /\ Cardinality(New) >= Cardinality(Old) - 1
        BY <1>2, <2>1, <2>2, <2>3
    <2> QED BY <1>5, <2>3, <2>4 DEF Old, New
<1> QED BY <1>4, <1>5

LEMMA ViewsAgain ==
    ASSUME MaxGen <= 1, TypeOK, OnceInv, ViewsInv, Next
    PROVE  ViewsInv'
<1>0. Cardinality(ToBeListed) \in Nat /\ opened \in Nat
    BY ListedCount DEF TypeOK
<1>1. CASE OwnerMoves
    <2>1. UNCHANGED visit /\ Cardinality(ToBeListed') = Cardinality(ToBeListed)
        BY <1>1, OwnerKeepsVisits DEF ToBeListed
    <2>2. CASE Tick
        BY <2>1, <2>2 DEF Tick, ViewsInv, UnderWay, Exists
    <2>3. CASE Remove
        BY <2>3, NoShareType DEF Remove, ViewsInv, Exists
    <2>4. ASSUME NEW s \in Settings, Create(s) PROVE ViewsInv'
        <3>1. \A v \in Visits : ~UnderWay(v)'
            BY <2>1, <2>4, OnceAgain DEF OnceInv, UnderWay
        <3>2. share'.views = 0 /\ opened' = 0
            BY <2>4, CreateIs
        <3>3. share'.gen # 0
            BY <2>4, CreateIs DEF TypeOK
        <3> QED BY <1>0, <2>1, <3>1, <3>2, <3>3 DEF ViewsInv, Exists
    <2>5. ASSUME NEW s \in Settings, NEW given \in Updates, UpdateSecurity(given, s)
          PROVE  ViewsInv'
        BY <2>1, <2>5, UpdateIs DEF ViewsInv, UnderWay, Exists
    <2> QED BY <1>1, <2>2, <2>3, <2>4, <2>5 DEF OwnerMoves
<1>2. ASSUME NEW v \in Visits, VisitMoves(v) PROVE ViewsInv'
    <2> DEFINE sum == opened + Cardinality(ToBeListed)
               sumNext == opened' + Cardinality(ToBeListed')
    <2>0. share \in Share
        BY DEF TypeOK
    <2>1. ASSUME Exists, NEW y \in Going, Becomes(v, y),
                 sumNext >= sum, share'.views <= sumNext, share'.gen = share.gen,
                 y.step \in Steps => y.read.views <= sumNext
          PROVE  ViewsInv'
        <3>1. /\ \A w \in Visits \ {v} : visit'[w] = visit[w]
              /\ visit'[v].step = y.step
              /\ y.step \in Steps => visit'[v] = y
              /\ opened' \in Nat
            BY <2>1, BecomesMoves DEF TypeOK
        <3>2. sumNext \in Nat /\ sum \in Nat
            BY <1>0, <2>1, <3>1, ListedWhen
        <3>3. ASSUME NEW w \in Visits, UnderWay(w)' PROVE visit'[w].read.views <= sumNext
            <4>1. CASE w = v
                BY <2>1, <3>1, <3>3, <4>1 DEF UnderWay
            <4>2. CASE w # v
                <5>1. UnderWay(w) /\ visit'[w].read.views = visit[w].read.views
                    BY <3>1, <3>3, <4>2 DEF UnderWay
                <5>2. visit[w].read.views <= sum /\ visit[w].read.views \in Nat
                    BY <2>1, <5>1, UnderWayType DEF ViewsInv, Visit, Share
                <5> QED BY <2>1, <3>2, <5>1, <5>2
            <4> QED BY <4>1, <4>2
        <3> QED BY <2>1, <3>3 DEF ViewsInv, UnderWay, Exists
    <2>2. CASE ~Exists
        <3>1. share'.gen = share.gen /\ share'.views = share.views
            BY <1>2, <2>0, <2>2
            DEF VisitMoves, Arrives, Verifies, Assigns, Placed, Counts, Signs, Share
        <3> QED BY <2>2, <3>1 DEF ViewsInv, Exists
    <2>3. CASE Exists
        <3>0. /\ share.views <= sum /\ share.views \in Nat
              /\ UnderWay(v) => visit[v].read.views <= sum /\ visit[v].read.views \in Nat
            BY <2>0, <2>3, UnderWayType DEF ViewsInv, Share, Visit
        <3>1. ASSUME NEW y \in Going, Becomes(v, y), v \notin ToBeListed,
                     y.step = "sign" => y.kind # "list",
                     y.step = "granted" => HasToken(y)
              PROVE  sumNext = sum
            BY <1>0, <3>1, BecomesMoves, ListedWhen
        <3>2. ASSUME NEW y \in Going, Arrives(v, y) PROVE ViewsInv'
            <4>1. v \notin ToBeListed
                BY <3>2 DEF Arrives, ToBeListed, UnderWay, Steps
            <4>2. sumNext = sum
                BY <3>1, <3>2, <4>1 DEF Arrives, Passed
            <4> QED BY <1>0, <2>1, <2>3, <3>0, <3>2, <4>2 DEF Arrives
        <3>3. ASSUME NEW y \in Going, Verifies(v, y) PROVE ViewsInv'
            <4>1. v \notin ToBeListed
                BY <3>3 DEF Verifies, ToBeListed
            <4>2. sumNext = sum
                BY <3>1, <3>3, <4>1 DEF Verifies, Passed
            <4> QED BY <1>0, <2>1, <2>3, <3>0, <3>3, <4>2 DEF Verifies, UnderWay, Steps
        <3>4. ASSUME NEW y \in Going, Assigns(v, y) PROVE ViewsInv'
            <4>1. v \notin ToBeListed
                BY <3>4 DEF Assigns, ToBeListed
            <4>2. sumNext = sum
                BY <3>1, <3>4, <4>1 DEF Assigns
            <4>3. share'.views = share.views /\ share'.gen = share.gen
                BY <2>0, <3>4 DEF Assigns, Placed, Share
            <4> QED BY <1>0, <2>1, <2>3, <3>0, <3>4, <4>2, <4>3
                    DEF Assigns, SameBut, UnderWay, Steps
        <3>5. ASSUME NEW y \in Going, Counts(v, y) PROVE ViewsInv'
            <4>1. v \notin ToBeListed /\ ~HasToken(y)
                BY <3>5 DEF Counts, ToBeListed, OnceInv, SameBut, HasToken
            <4>2. /\ y.step = (IF y.kind = "list" THEN "sign" ELSE "granted")
                  /\ share'.views = y.read.views + 1 /\ share'.gen = share.gen
                BY <2>0, <2>3, <3>5 DEF Counts, Share
            <4>3. sumNext = sum + 1
                BY <1>0, <3>5, <4>1, <4>2, BecomesMoves, ListedWhen DEF Counts
            <4>4. y.read.views <= sum /\ y.read.views \in Nat
                BY <3>0, <3>5 DEF Counts, SameBut, UnderWay, Steps
            <4> QED BY <1>0, <2>1, <2>3, <3>5, <4>2, <4>3, <4>4 DEF Counts
        <3>6. ASSUME NEW y \in Going, Signs(v, y) PROVE ViewsInv'
            <4>1. y.step = (IF y.kind = "token" THEN "count" ELSE "granted") /\ ~HasToken(y)
                BY <2>3, <3>6 DEF Signs, OnceInv, HasToken
            <4>2. v \in ToBeListed => y.step = "granted"
                BY <3>6, <4>1 DEF Signs, ToBeListed
            <4>3. sumNext >= sum
                BY <1>0, <3>6, <4>1, <4>2, BecomesMoves, ListedWhen DEF Signs
            <4>4. sumNext \in Int
                BY <1>0, <3>6, BecomesMoves, ListedWhen DEF Signs
            <4> QED BY <1>0, <2>1, <2>3, <3>0, <3>6, <4>3, <4>4 DEF Signs, UnderWay, Steps
        <3> QED BY <1>2, <3>2, <3>3, <3>4, <3>5, <3>6 DEF VisitMoves
    <2> QED BY <2>2, <2>3
<1> QED BY <1>1, <1>2, NextIs

(***************************************************************************)
(* increaseViewCount may lose counts, as it writes back what was read, but *)
(* never invents one: a share is charged with no more views than visits it *)
(* has let in, or is about to.                                             *)
(***************************************************************************)
THEOREM ViewsTheorem == ASSUME MaxGen <= 1 PROVE Spec => []ViewsAreVisits
<1>1. Init => ViewsInv
    BY NoShareType DEF Init, ViewsInv, Exists
<1>2. ViewsInv /\ UNCHANGED vars => ViewsInv'
    BY DEF vars, ViewsInv, UnderWay, Exists, ToBeListed
<1>3. TypeOK /\ OnceInv /\ ViewsInv /\ Next => ViewsInv'
    BY ViewsAgain
<1>4. TypeOK /\ ViewsInv => ViewsAreVisits
    <2>1. Cardinality(ToBeListed) \in Nat
        BY ListedCount
    <2>2. TypeOK => opened \in Nat
        BY DEF TypeOK
    <2>3. TypeOK /\ ViewsInv => share.views <= opened + Cardinality(ToBeListed)
        BY <2>1, <2>2 DEF ViewsInv
    <2> QED BY <2>3 DEF ViewsAreVisits, ToBeListed
<1> QED BY <1>1, <1>2, <1>3, <1>4, AccessTypeOK, OnceInvInductive, PTL DEF Spec
=============================================================================
