---------------------------- MODULE ShareAccess -----------------------------
(***************************************************************************)
(* Who may open a share: its password, its limit of views, its limit of    *)
(* visitor addresses and the tokens handed out for it, as ShareSecurity-   *)
(* Guard, FileSecurityGuard, getFileList and getShareToken check them.     *)
(* Each visit reads the share once and goes on with what it read, through  *)
(* further awaits, while other visits, its owner's updates, its removal    *)
(* and its re-creation go on.  One share id; shares are neither expired,   *)
(* private nor incomplete, and visitors are no admins: such visits end     *)
(* before the steps below.                                                 *)
(***************************************************************************)
EXTENDS Integers, FiniteSets

CONSTANTS
    Visits,         \* requests under way
    Ips,            \* visitor addresses
    Passwords,
    NoPassword,
    NoToken,
    Settings,       \* the security settings an owner may send
    Updates,        \* the sets of fields an owner's update may send
    MaxGen,         \* bound: shares created under the id
    MaxSecurities,  \* bound: ShareSecurity records created
    MaxOpened,      \* bound: counted visits let in before visits stop arriving
    MaxClock        \* bound: seconds

Limits == Nat       \* 0 is no limit

Fields == {"password", "maxViews", "maxIps", "allowedIps"}

Setting == [password: Passwords \cup {NoPassword}, maxViews: Limits,
            maxIps: Limits, allowedIps: SUBSET Ips]

ASSUME AccessAssumption ==
    /\ IsFiniteSet(Visits)
    /\ NoPassword \notin Passwords
    /\ Settings \subseteq Setting
    /\ Updates \subseteq SUBSET Fields
    /\ \A s \in Settings : s.maxIps = 0 \/ s.allowedIps = {}
    /\ MaxGen \in Nat /\ MaxSecurities \in Nat /\ MaxClock \in Nat /\ MaxOpened \in Nat

VARIABLES
    clock,      \* in whole seconds, like the time in a token
    share,      \* the row and its ShareSecurity; gen tells re-created rows apart
    tokens,     \* the share tokens visitors hold
    visit,      \* visit[v]: one request
    created,    \* shares created so far under the id
    securities, \* ShareSecurity records created so far
    opened,     \* history: visits let in on a view of this share
    served      \* history: addresses let in since its address rules were set

vars == <<clock, share, tokens, visit, created, securities, opened, served>>

Security == [id: Nat, assignedIps: SUBSET Ips, password: Passwords \cup {NoPassword},
             maxViews: Limits, maxIps: Limits, allowedIps: SUBSET Ips]

NoSetting == [password |-> NoPassword, maxViews |-> 0, maxIps |-> 0, allowedIps |-> {}]

SecurityOf(id, assigned, s) ==
    [id |-> id, assignedIps |-> assigned, password |-> s.password,
     maxViews |-> s.maxViews, maxIps |-> s.maxIps, allowedIps |-> s.allowedIps]

\* A share without a ShareSecurity record.
NoSecurity == SecurityOf(0, {}, NoSetting)

Share == [gen: Nat, createdAt: Nat, views: Nat, security: Security]

NoShare == [gen |-> 0, createdAt |-> 0, views |-> 0, security |-> NoSecurity]

Exists == share.gen # 0

\* The claims of a token; gen and password are history.
Token == [shareCreatedAt: Nat, gen: Nat \ {0}, password: Passwords \cup {NoPassword}]

Kinds == {"open", "list", "token"}    \* a guarded page or file, getFileList, getShareToken

Outcomes == {"idle", "granted", "refused"}

\* token is the one the visitor sends, issued the one signed for the visit, read
\* what the visit knows of the share.
Visit == [step: {"verify", "assign", "count", "sign"}, kind: Kinds, ip: Ips,
          password: Passwords \cup {NoPassword}, token: Token \cup {NoToken},
          issued: Token \cup {NoToken}, read: Share]

NoVisit == [step |-> "idle"]

TypeOK ==
    /\ clock \in 0 .. MaxClock
    /\ share \in Share
    /\ tokens \subseteq Token
    /\ visit \in [Visits -> [step: Outcomes] \cup Visit]
    /\ created \in 0 .. MaxGen
    /\ securities \in 0 .. MaxSecurities
    /\ opened \in Nat
    /\ served \subseteq Ips

Init ==
    /\ clock = 0
    /\ share = NoShare
    /\ tokens = {}
    /\ visit = [v \in Visits |-> NoVisit]
    /\ created = 0
    /\ securities = 0
    /\ opened = 0
    /\ served = {}

Tick ==
    /\ clock < MaxClock
    /\ clock' = clock + 1
    /\ UNCHANGED <<share, tokens, visit, created, securities, opened, served>>

-----------------------------------------------------------------------------
(* The owner *)

\* The record that holds the settings s: none if they ask for nothing, a new
\* one if there was none before.
Stored(s, old, assigned) ==
    IF s = NoSetting THEN NoSecurity
    ELSE IF old.id # 0 THEN SecurityOf(old.id, assigned, s)
    ELSE SecurityOf(securities + 1, {}, s)

Stores(row, sec) ==
    /\ sec.id <= MaxSecurities
    /\ share' = [row EXCEPT !.security = sec]
    /\ securities' = IF sec.id > securities THEN sec.id ELSE securities

Create(s) ==
    /\ ~Exists
    /\ created < MaxGen
    /\ created' = created + 1
    /\ Stores([gen |-> created', createdAt |-> clock, views |-> 0, security |-> NoSecurity],
              Stored(s, NoSecurity, {}))
    /\ opened' = 0
    /\ served' = {}
    /\ UNCHANGED <<clock, tokens, visit>>

Remove ==
    /\ Exists
    /\ share' = NoShare
    /\ opened' = 0
    /\ served' = {}
    /\ UNCHANGED <<clock, tokens, visit, created, securities>>

\* The settings after an update that sends the given fields of s: a limit of
\* addresses and a list of addresses displace each other.
Updated(old, given, s) ==
    LET sent(f) == f \in given
        allowedIps == IF sent("allowedIps") THEN s.allowedIps
                      ELSE IF sent("maxIps") /\ s.maxIps # 0 THEN {}
                      ELSE old.allowedIps
        maxIps == IF sent("maxIps") THEN s.maxIps
                  ELSE IF sent("allowedIps") /\ allowedIps # {} THEN 0
                  ELSE old.maxIps
    IN  [password |-> IF sent("password") THEN s.password ELSE old.password,
         maxViews |-> IF sent("maxViews") THEN s.maxViews ELSE old.maxViews,
         maxIps |-> maxIps, allowedIps |-> allowedIps]

(***************************************************************************)
(* update with security settings.  Setting address rules anew forgets the  *)
(* addresses assigned under the old ones.  Owners' updates of one share do *)
(* not overlap, so reading the record and writing it are one step.         *)
(***************************************************************************)
UpdateSecurity(given, s) ==
    /\ Exists
    /\ LET old == share.security
           new == Updated(old, given, s)
           anew == given \cap {"maxIps", "allowedIps"} # {}
       IN  /\ new.maxIps = 0 \/ new.allowedIps = {}
           /\ Stores(share, Stored(new, old, IF anew THEN {} ELSE old.assignedIps))
           /\ served' = IF anew THEN {} ELSE served
    /\ UNCHANGED <<clock, tokens, visit, created, opened>>

-----------------------------------------------------------------------------
(* A visit *)

\* Of the visits that end well, those with a verified token are not counted.
HasToken(x) == x.token # NoToken

\* Mutant of Locked: getFileList forgets the password.
LockedOnPages(x) ==
    /\ x.read.security.password # NoPassword
    /\ x.kind = "token" => x.password # x.read.security.password
    /\ x.kind # "list"

Locked(x) ==
    /\ x.read.security.password # NoPassword
    /\ x.kind = "token" => x.password # x.read.security.password

UsedUp(x) ==
    LET max == x.read.security.maxViews IN max # 0 /\ max <= x.read.views

\* What follows the check of the visitor's address.
Admitted(x) ==
    [x EXCEPT !.step = IF HasToken(x) THEN "granted"
                       ELSE IF x.kind = "token" THEN "sign" ELSE "count"]

Refused(x) == [x EXCEPT !.step = "refused"]

(***************************************************************************)
(* The checks on what was read, once it is known whether the visit comes   *)
(* with a valid token, up to the first await.                              *)
(***************************************************************************)
Judged(x) ==
    LET sec == x.read.security
    IN  IF \/ ~HasToken(x) /\ (Locked(x) \/ UsedUp(x))
           \/ sec.allowedIps # {} /\ x.ip \notin sec.allowedIps
        THEN Refused(x)
        ELSE IF sec.maxIps # 0 /\ x.ip \notin sec.assignedIps
        THEN [x EXCEPT !.step = "assign"]
        ELSE Admitted(x)

(***************************************************************************)
(* The visit goes on as x, or ends as x says.  A visit that is let in and  *)
(* was not allowed by a token has been counted; its visitor holds the      *)
(* token issued to it from then on.                                        *)
(***************************************************************************)
Becomes(v, x) ==
    /\ visit' = [visit EXCEPT ![v] = IF x.step \in Outcomes THEN [step |-> x.step] ELSE x]
    /\ IF x.step = "granted"
       THEN /\ opened' = IF HasToken(x) THEN opened ELSE opened + 1
            /\ served' = served \cup {x.ip}
            /\ tokens' = tokens \cup ({x.issued} \ {NoToken})
       ELSE UNCHANGED <<opened, served, tokens>>
    /\ UNCHANGED <<clock, created, securities>>

Arrive(v, kind, ip, password, token) ==
    /\ visit[v].step \in Outcomes
    /\ Exists
    /\ opened < MaxOpened
    /\ IF kind = "token" THEN token = NoToken ELSE password = NoPassword
    /\ LET x == [step |-> "verify", kind |-> kind, ip |-> ip, password |-> password,
                 token |-> token, issued |-> NoToken, read |-> share]
       IN  Becomes(v, IF HasToken(x) THEN x ELSE Judged(x))
    /\ UNCHANGED share

\* Mutant of Valid: the creation time in the token is not compared.
ValidForTheId(token) == Exists

Valid(token) == Exists /\ token.shareCreatedAt = share.createdAt

\* verifyShareToken reads the row again; getFileList goes on without a token
\* that is not valid, the guard does not.
Verify(v) ==
    /\ visit[v].step = "verify"
    /\ LET x == visit[v]
       IN  Becomes(v, IF Valid(x.token) THEN Judged(x)
                      ELSE IF Exists /\ x.kind = "list" THEN Judged([x EXCEPT !.token = NoToken])
                      ELSE Refused(x))
    /\ UNCHANGED share

\* Mutant of Assign: the places taken are the ones that were read.
AssignOnWhatWasRead(v) ==
    /\ visit[v].step = "assign"
    /\ LET x == visit[v]
       IN  IF share.security.id # x.read.security.id THEN Becomes(v, Refused(x)) /\ UNCHANGED share
           ELSE /\ Becomes(v, Admitted(x))
                /\ share' = [share EXCEPT !.security.assignedIps = @ \cup {x.ip}]

\* Mutant of Assign: a full list refuses the addresses on it as well.
AssignCountsFirst(v) ==
    /\ visit[v].step = "assign"
    /\ LET x == visit[v]
           sec == share.security
           free == Cardinality(sec.assignedIps) < x.read.security.maxIps
       IN  IF sec.id # x.read.security.id \/ ~free THEN Becomes(v, Refused(x)) /\ UNCHANGED share
           ELSE /\ Becomes(v, Admitted(x))
                /\ share' = [share EXCEPT !.security.assignedIps = @ \cup {x.ip}]

\* assignShareIpAddress, one transaction on the record that was read, with the
\* limit that was read.
Assign(v) ==
    /\ visit[v].step = "assign"
    /\ LET x == visit[v]
           sec == share.security
           free == Cardinality(sec.assignedIps) < x.read.security.maxIps
       IN  IF sec.id # x.read.security.id THEN Becomes(v, Refused(x)) /\ UNCHANGED share
           ELSE IF x.ip \in sec.assignedIps THEN Becomes(v, Admitted(x)) /\ UNCHANGED share
           ELSE IF ~free THEN Becomes(v, Refused(x)) /\ UNCHANGED share
           ELSE /\ Becomes(v, Admitted(x))
                /\ share' = [share EXCEPT !.security.assignedIps = @ \cup {x.ip}]

\* Mutant of Count: the guard and the handler behind it both count.
CountTwice(v) ==
    /\ visit[v].step = "count"
    /\ LET x == visit[v]
       IN  IF ~Exists THEN Becomes(v, Refused(x)) /\ UNCHANGED share
           ELSE /\ share' = [share EXCEPT !.views = @ + 2]
                /\ Becomes(v, [x EXCEPT !.step = IF x.kind = "list" THEN "sign" ELSE "granted"])

\* increaseViewCount writes one more than was read, to whatever row has the id.
Count(v) ==
    /\ visit[v].step = "count"
    /\ LET x == visit[v]
       IN  IF ~Exists THEN Becomes(v, Refused(x)) /\ UNCHANGED share
           ELSE /\ share' = [share EXCEPT !.views = x.read.views + 1]
                /\ Becomes(v, [x EXCEPT !.step = IF x.kind = "list" THEN "sign" ELSE "granted"])

\* Mutant of Sign: a row that is gone is not noticed.
SignUnchecked(v) ==
    /\ visit[v].step = "sign"
    /\ LET x == visit[v]
           token == [shareCreatedAt |-> share.createdAt, gen |-> share.gen,
                     password |-> x.password]
       IN  Becomes(v, [x EXCEPT !.issued = token,
                                !.step = IF x.kind = "token" THEN "count" ELSE "granted"])
    /\ UNCHANGED share

\* generateShareToken reads the row again.
Sign(v) ==
    /\ visit[v].step = "sign"
    /\ LET x == visit[v]
           token == [shareCreatedAt |-> share.createdAt, gen |-> share.gen,
                     password |-> x.password]
       IN  Becomes(v, IF ~Exists THEN Refused(x)
                      ELSE [x EXCEPT !.issued = token,
                                     !.step = IF x.kind = "token" THEN "count" ELSE "granted"])
    /\ UNCHANGED share

VisitStep(v) == Verify(v) \/ Assign(v) \/ Count(v) \/ Sign(v)

Next ==
    \/ Tick
    \/ \E s \in Settings : Create(s)
    \/ Remove
    \/ \E s \in Settings, given \in Updates : UpdateSecurity(given, s)
    \/ \E v \in Visits, kind \in Kinds, ip \in Ips, password \in Passwords \cup {NoPassword},
          token \in tokens \cup {NoToken} : Arrive(v, kind, ip, password, token)
    \/ \E v \in Visits : VisitStep(v)

Spec == Init /\ [][Next]_vars

-----------------------------------------------------------------------------
(* What must hold *)

\* First come, first served: since its address rules were last set, a share
\* with a limit of addresses has let in no more addresses than that.
OpenedByAtMostMaxIps ==
    share.security.maxIps # 0 => Cardinality(served) <= share.security.maxIps

\* The places given away never outnumber the limit shown to the owner.
AssignedWithinMaxIps ==
    share.security.maxIps # 0
       => Cardinality(share.security.assignedIps) <= share.security.maxIps

\* An address that has one of the places is not refused for want of a place.
HolderNotRefused ==
    [][\A v \in Visits :
          /\ visit[v].step = "assign"
          /\ visit'[v].step = "refused"
          /\ share.security.id = visit[v].read.security.id
          => visit[v].ip \notin share.security.assignedIps]_vars

\* Nobody holds a token for a share with a password who did not give it.
TokensNeedPassword ==
    \A t \in tokens :
       t.gen = share.gen /\ share.security.password # NoPassword
          => t.password = share.security.password

\* A visit let in on a token is let in to the share the token was issued for,
\* or to one created under the id in the same second.
TokenOpensItsShare ==
    [][\A v \in Visits :
          /\ visit[v].step \in {"verify", "assign"}
          /\ visit'[v].step = "granted"
          => /\ Exists
             /\ \/ visit[v].token.gen = share.gen
                \/ visit[v].token.shareCreatedAt = share.createdAt]_vars

\* A share is charged with no more views than visits it has let in, or is
\* about to.
ViewsAreVisits ==
    share.views <= opened + Cardinality({v \in Visits : visit[v].step = "sign"
                                                          /\ visit[v].kind = "list"})

\* A share lets in no more visits than its limit of views.
OpenedAtMostMaxViews ==
    share.security.maxViews # 0 => opened <= share.security.maxViews
=============================================================================
