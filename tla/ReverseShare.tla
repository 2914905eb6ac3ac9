----------------------------- MODULE ReverseShare -----------------------------
(***************************************************************************)
(* Reverse shares: a user's link through which others may create a limited *)
(* number of shares (reverseShare.service.ts, createShare.guard.ts, the    *)
(* branches of share.service.ts that deal with them, the cron job          *)
(* deleteExpiredReverseShares and the cookie the browser keeps).           *)
(*                                                                         *)
(* A link's limit is looked at by the guard of every request of a guest    *)
(* and charged when a share is completed, two awaits or more later; which  *)
(* link is charged is up to the cookie.  Uploading, extending and          *)
(* reverting are one step here: ShareService and ChunkUpload have them in  *)
(* full.  A client acts on a share once create has answered.               *)
(***************************************************************************)
EXTENDS Integers, FiniteSets

CONSTANTS
    Revs,          \* reverse shares, by token or by id: both are random
    Shares,        \* share ids, chosen by the client
    Clients,       \* browsers
    Requests,      \* request slots
    Removals,      \* removals in flight: runs of the cron job, or an owner's
    CronJobs,      \* those of Removals that are runs of the cron job
    None,          \* no reverse share, no share, no client
    Provider,      \* storageProvider of the shares: "LOCAL" or "S3"
    MaxUseCount,   \* the largest number of uses a link is created with
    MaxExpiration, \* share.maxExpiration, 0 for no limit
    Workloads,     \* the sets of operations that go on together
    LinkLifetime,  \* that of a link; 0 if it ends before the clock moves on
    Lifetimes,     \* what clients ask for on behalf of shares; 0 for never
    MaxTime,       \* bound: the clock stops here
    MaxGen,        \* bound: how often a share id is created
    MaxCharges     \* bound: completions started

ASSUME ReverseAssumption ==
    /\ None \notin Revs \cup Shares \cup Clients
    /\ CronJobs \subseteq Removals
    /\ Provider \in {"LOCAL", "S3"}
    /\ Workloads \subseteq SUBSET {"complete", "revert", "extend", "delete", "remove", "tick",
                                  "anyone"}
    /\ MaxUseCount \in Nat \ {0}
    /\ LinkLifetime \in Nat /\ Lifetimes \subseteq Nat
    /\ MaxExpiration \in Nat /\ MaxTime \in Nat \ {0} /\ MaxGen \in Nat /\ MaxCharges \in Nat
    /\ IsFiniteSet(Shares) /\ IsFiniteSet(Requests)

VARIABLES
    now,
    members,   \* the clients that are signed in; the others are guests
    ops,       \* what else goes on in this behaviour, besides creating shares; with
               \* "anyone" among it, share.allowUnauthenticatedShares is on
    rev,       \* rev[v]: the ReverseShare row
    db,        \* db[s]: the Share row, as far as it matters here
    dirs,      \* the shares that have a directory, or objects in the bucket
    cookie,    \* cookie[c]: reverse_share_token in the browser c
    req,       \* req[r]: a request's continuation
    removal,   \* removal[j]: ReverseShareService.remove, for one link or a list
    started    \* how many completions have passed their checks (for MaxCharges)

vars == <<now, members, ops, rev, db, dirs, cookie, req, removal, started>>

Never == 0

Link == [state: {"fresh", "live", "gone"}, uses: Nat, remaining: Int, expiration: Nat]

\* gen numbers the rows that have had the id.
Row == [live: BOOLEAN, owner: Clients \cup {None}, rev: Revs \cup {None},
        gen: Nat, expiration: Nat, locked: BOOLEAN, hasFile: BOOLEAN]

NoRow(gen) == [live |-> FALSE, owner |-> None, rev |-> None, gen |-> gen,
               expiration |-> 0, locked |-> FALSE, hasFile |-> FALSE]

\* token is the request's cookie; below is the share.reverseShare it has read.
Request == [step: {"idle", "create:guard", "create:link", "create:row", "create:connect",
                   "complete:guard", "complete:check", "complete:charge",
                   "complete:lock", "delete:wipe", "delete:row"},
            by: Clients \cup {None}, share: Shares \cup {None},
            token: Revs \cup {None}, below: Revs \cup {None}, expiration: Nat]

Idle == [step |-> "idle", by |-> None, share |-> None, token |-> None,
         below |-> None, expiration |-> 0]

Removal == [step: {"idle", "list", "shares"}, links: SUBSET Revs,
            current: Revs \cup {None}, queue: SUBSET Shares, wiped: SUBSET Shares]

NoRemoval == [step |-> "idle", links |-> {}, current |-> None, queue |-> {},
              wiped |-> {}]

TypeOK ==
    /\ now \in 1 .. MaxTime
    /\ members \subseteq Clients
    /\ ops \in Workloads
    /\ rev \in [Revs -> Link]
    /\ db \in [Shares -> Row]
    /\ dirs \subseteq Shares
    /\ cookie \in [Clients -> Revs \cup {None}]
    /\ req \in [Requests -> Request]
    /\ removal \in [Removals -> Removal]
    /\ started \in 0 .. MaxCharges
    /\ \A v \in Revs : rev[v].remaining <= rev[v].uses

Init ==
    /\ now = 1
    /\ members \in SUBSET Clients
    /\ ops \in Workloads
    /\ rev = [v \in Revs |-> [state |-> "fresh", uses |-> 0, remaining |-> 0,
                              expiration |-> 0]]
    /\ db = [s \in Shares |-> NoRow(0)]
    /\ dirs = {}
    /\ cookie = [c \in Clients |-> None]
    /\ req = [r \in Requests |-> Idle]
    /\ removal = [j \in Removals |-> NoRemoval]
    /\ started = 0

-----------------------------------------------------------------------------
Exists(v) == v # None /\ rev[v].state = "live"

\* Mutant of IsValid: the uses that remain are not looked at.
IsValidWhileItLasts(v) == Exists(v) /\ now <= rev[v].expiration

IsValid(v) == Exists(v) /\ now <= rev[v].expiration /\ rev[v].remaining > 0

IsExpired(row) == now > row.expiration /\ row.expiration # Never

(***************************************************************************)
(* CreateShareGuard: what JwtGuard lets through, which is members and,     *)
(* where share.allowUnauthenticatedShares is on, anyone; if it does not,   *)
(* a cookie with a valid link.                                             *)
(***************************************************************************)
GuardPasses(c, token) == "anyone" \in ops \/ c \in members \/ IsValid(token)

\* deleteAllFiles fails without a row, and in a bucket without any object.
CanWipe(s) == db[s].live /\ (Provider = "LOCAL" \/ s \in dirs)

\* Mutant of CreateLink: one use too many, as if the first were free.
CreateLinkWithOneMore(v, uses) ==
    /\ rev[v].state = "fresh"
    /\ MaxExpiration # 0 => LinkLifetime <= MaxExpiration
    /\ rev' = [rev EXCEPT ![v] = [state |-> "live", uses |-> uses, remaining |-> uses + 1,
                                  expiration |-> now + LinkLifetime]]
    /\ UNCHANGED <<now, members, ops, db, dirs, cookie, req, removal, started>>

\* create of the reverse share; the lifetime may not exceed share.maxExpiration.
CreateLink(v, uses) ==
    /\ rev[v].state = "fresh"
    /\ MaxExpiration # 0 => LinkLifetime <= MaxExpiration
    /\ rev' = [rev EXCEPT ![v] = [state |-> "live", uses |-> uses, remaining |-> uses,
                                  expiration |-> now + LinkLifetime]]
    /\ UNCHANGED <<now, members, ops, db, dirs, cookie, req, removal, started>>

\* setReverseShare: the page of the link asks for it, and keeps it if it is valid.
OpenLink(c, v) ==
    /\ IsValid(v)
    /\ cookie' = [cookie EXCEPT ![c] = v]
    /\ UNCHANGED <<now, members, ops, rev, db, dirs, req, removal, started>>

-----------------------------------------------------------------------------
(* Requests *)

Begins(r, step, c, s) ==
    /\ req[r].step = "idle"
    /\ req' = [req EXCEPT ![r] = [Idle EXCEPT !.step = step, !.by = c, !.share = s,
                                      !.token = cookie'[c]]]

At(r, step) == req[r].step = step
Ends(r) == req' = [req EXCEPT ![r] = Idle]
Proceeds(r, step) == req' = [req EXCEPT ![r].step = step]

Creating(s) == \E r \in Requests : req[r].share = s /\
                   req[r].step \in {"create:guard", "create:link", "create:row", "create:connect"}

Owns(c, s) == db[s].live /\ db[s].owner = c /\ ~Creating(s)

\* Creating a share that is not meant for a link forgets the cookie first.
Create(r, c, s, isReverseShare) ==
    /\ db[s].gen < MaxGen
    /\ cookie' = IF isReverseShare THEN cookie ELSE [cookie EXCEPT ![c] = None]
    /\ Begins(r, "create:guard", c, s)
    /\ UNCHANGED <<now, members, ops, rev, db, dirs, removal, started>>

\* The guard, then isShareIdAvailable.
CreateGuard(r) ==
    /\ At(r, "create:guard")
    /\ IF GuardPasses(req[r].by, req[r].token) /\ ~db[req[r].share].live
       THEN Proceeds(r, "create:link") ELSE Ends(r)
    /\ UNCHANGED <<now, members, ops, rev, db, dirs, cookie, removal, started>>

(***************************************************************************)
(* getByToken is asked whether the link exists, not whether it is valid; a *)
(* link that is gone makes this an ordinary share.  The directory is made  *)
(* before the row (with S3 nobody uses it).                                *)
(***************************************************************************)
CreateReadLink(r, lifetime) ==
    /\ At(r, "create:link")
    /\ LET v == IF Exists(req[r].token) THEN req[r].token ELSE None
           exp == IF v # None THEN rev[v].expiration
                  ELSE IF lifetime = Never THEN Never ELSE now + lifetime
       IN  IF v = None /\ MaxExpiration # 0 /\ lifetime > MaxExpiration
           THEN Ends(r) /\ UNCHANGED dirs
           ELSE /\ dirs' = IF Provider = "LOCAL" THEN dirs \cup {req[r].share} ELSE dirs
                /\ req' = [req EXCEPT ![r].step = "create:row", ![r].below = v,
                                      ![r].expiration = exp]
    /\ UNCHANGED <<now, members, ops, rev, db, cookie, removal, started>>

CreateRow(r) ==
    /\ At(r, "create:row")
    /\ LET s == req[r].share
       IN  IF db[s].live THEN Ends(r) /\ UNCHANGED db
           ELSE /\ db' = [db EXCEPT ![s] = [NoRow(db[s].gen + 1) EXCEPT
                              !.live = TRUE, !.owner = req[r].by,
                              !.expiration = req[r].expiration]]
                /\ IF req[r].below = None THEN Ends(r) ELSE Proceeds(r, "create:connect")
    /\ UNCHANGED <<now, members, ops, rev, dirs, cookie, removal, started>>

\* connect fails when link or share are gone; the row then stays as it is.
CreateConnect(r) ==
    /\ At(r, "create:connect")
    /\ LET s == req[r].share
       IN  db' = IF Exists(req[r].below) /\ db[s].live
                 THEN [db EXCEPT ![s].rev = req[r].below] ELSE db
    /\ Ends(r)
    /\ UNCHANGED <<now, members, ops, rev, dirs, cookie, removal, started>>

\* file.controller create: the same guards, then the files must be mutable.
\* On disk the directory has to be there.
Upload(c, s) ==
    /\ Owns(c, s)
    /\ GuardPasses(c, cookie[c])
    /\ ~IsExpired(db[s])
    /\ ~db[s].locked
    /\ Provider = "LOCAL" => s \in dirs
    /\ db' = [db EXCEPT ![s].hasFile = TRUE]
    /\ dirs' = dirs \cup {s}
    /\ UNCHANGED <<now, members, ops, rev, cookie, req, removal, started>>

Complete(r, c, s) ==
    /\ "complete" \in ops
    /\ Owns(c, s)
    /\ started < MaxCharges
    /\ UNCHANGED cookie
    /\ Begins(r, "complete:guard", c, s)
    /\ UNCHANGED <<now, members, ops, rev, db, dirs, removal, started>>

CompleteGuard(r) ==
    /\ At(r, "complete:guard")
    /\ IF GuardPasses(req[r].by, req[r].token) THEN Proceeds(r, "complete:check") ELSE Ends(r)
    /\ UNCHANGED <<now, members, ops, rev, db, dirs, cookie, removal, started>>

\* Owner, mutable, not locked, not empty; the share is read with its link.
CompleteCheck(r) ==
    /\ At(r, "complete:check")
    /\ LET row == db[req[r].share]
       IN  IF /\ row.live /\ row.owner = req[r].by /\ ~IsExpired(row)
              /\ ~row.locked /\ row.hasFile /\ started < MaxCharges
           THEN /\ started' = started + 1
                /\ req' = [req EXCEPT ![r].below = row.rev, ![r].step =
                              IF row.rev = None THEN "complete:lock" ELSE "complete:charge"]
           ELSE Ends(r) /\ UNCHANGED started
    /\ UNCHANGED <<now, members, ops, rev, db, dirs, cookie, removal>>

\* Mutant of CompleteCharge: a failing update is swallowed.
ChargeIfPossible(r) ==
    /\ At(r, "complete:charge")
    /\ LET v == req[r].token
       IN  rev' = IF Exists(v) THEN [rev EXCEPT ![v].remaining = @ - 1] ELSE rev
    /\ Proceeds(r, "complete:lock")
    /\ UNCHANGED <<now, members, ops, db, dirs, cookie, removal, started>>

(***************************************************************************)
(* remainingUses of the link in the cookie goes down, whichever link the   *)
(* share hangs on; without a cookie, or when its link is gone, the update  *)
(* throws and the share stays open.                                        *)
(***************************************************************************)
CompleteCharge(r) ==
    /\ At(r, "complete:charge")
    /\ LET v == req[r].token
       IN  IF Exists(v)
           THEN /\ rev' = [rev EXCEPT ![v].remaining = @ - 1]
                /\ Proceeds(r, "complete:lock")
           ELSE Ends(r) /\ UNCHANGED rev
    /\ UNCHANGED <<now, members, ops, db, dirs, cookie, removal, started>>

\* The answer makes the browser forget the link.
CompleteLock(r) ==
    /\ At(r, "complete:lock")
    /\ LET s == req[r].share
       IN  IF db[s].live
           THEN /\ db' = [db EXCEPT ![s].locked = TRUE]
                /\ cookie' = [cookie EXCEPT ![req[r].by] = None]
           ELSE UNCHANGED <<db, cookie>>
    /\ Ends(r)
    /\ UNCHANGED <<now, members, ops, rev, dirs, removal, started>>

Revert(c, s) ==
    /\ "revert" \in ops
    /\ Owns(c, s)
    /\ ~IsExpired(db[s])
    /\ db[s].locked
    /\ db' = [db EXCEPT ![s].locked = FALSE]
    /\ UNCHANGED <<now, members, ops, rev, dirs, cookie, req, removal, started>>

\* update: the owner extends the share, past the link's end if it likes.
Extend(c, s, lifetime) ==
    /\ "extend" \in ops
    /\ Owns(c, s)
    /\ MaxExpiration # 0 => lifetime \in 1 .. MaxExpiration
    /\ db' = [db EXCEPT ![s].expiration = IF lifetime = Never THEN Never ELSE now + lifetime]
    /\ UNCHANGED <<now, members, ops, rev, dirs, cookie, req, removal, started>>

\* remove, as a member who is not an administrator: the share only expires.
Expire(c, s) ==
    /\ "delete" \in ops
    /\ c \in members
    /\ Owns(c, s)
    /\ db' = [db EXCEPT ![s].expiration = now]
    /\ UNCHANGED <<now, members, ops, rev, dirs, cookie, req, removal, started>>

\* remove, as an anonymous owner or an administrator.
Delete(r, c, s) ==
    /\ "delete" \in ops
    /\ Owns(c, s)
    /\ UNCHANGED cookie
    /\ Begins(r, "delete:wipe", c, s)
    /\ UNCHANGED <<now, members, ops, rev, db, dirs, removal, started>>

DeleteWipe(r) ==
    /\ At(r, "delete:wipe")
    /\ IF CanWipe(req[r].share)
       THEN dirs' = dirs \ {req[r].share} /\ Proceeds(r, "delete:row")
       ELSE Ends(r) /\ UNCHANGED dirs
    /\ UNCHANGED <<now, members, ops, rev, db, cookie, removal, started>>

DeleteRow(r) ==
    /\ At(r, "delete:row")
    /\ db' = [db EXCEPT ![req[r].share] = NoRow(@.gen)]
    /\ Ends(r)
    /\ UNCHANGED <<now, members, ops, rev, dirs, cookie, removal, started>>

-----------------------------------------------------------------------------
(* ReverseShareService.remove, and the job that calls it link by link *)

\* Mutant of ExpiredLinks: only links that are used up are cleaned up.
UsedUpLinks == {v \in Revs : Exists(v) /\ rev[v].expiration < now /\ rev[v].remaining <= 0}

ExpiredLinks == {v \in Revs : Exists(v) /\ rev[v].expiration < now}

JobList(j) ==
    /\ j \in CronJobs
    /\ removal[j].step = "idle"
    /\ ExpiredLinks # {}
    /\ removal' = [removal EXCEPT ![j] = [NoRemoval EXCEPT !.step = "list", !.links = ExpiredLinks]]
    /\ UNCHANGED <<now, members, ops, rev, db, dirs, cookie, req, started>>

\* The owner removes a link of theirs.
OwnerRemoves(j, v) ==
    /\ "remove" \in ops
    /\ j \notin CronJobs
    /\ removal[j].step = "idle"
    /\ Exists(v)
    /\ removal' = [removal EXCEPT ![j] = [NoRemoval EXCEPT !.step = "list", !.links = {v}]]
    /\ UNCHANGED <<now, members, ops, rev, db, dirs, cookie, req, started>>

ListShares(j, v) ==
    /\ removal[j].step = "list"
    /\ v \in removal[j].links
    /\ removal' = [removal EXCEPT ![j].step = "shares", ![j].current = v,
                       ![j].links = @ \ {v},
                       ![j].queue = {s \in Shares : db[s].live /\ db[s].rev = v}]
    /\ UNCHANGED <<now, members, ops, rev, db, dirs, cookie, req, started>>

\* deleteAllFiles for the next share; when it throws, the whole run ends.
WipeShare(j, s) ==
    /\ removal[j].step = "shares"
    /\ removal[j].wiped = {}
    /\ s \in removal[j].queue
    /\ IF CanWipe(s)
       THEN /\ dirs' = dirs \ {s}
            /\ removal' = [removal EXCEPT ![j].queue = @ \ {s}, ![j].wiped = {s}]
       ELSE removal' = [removal EXCEPT ![j] = NoRemoval] /\ UNCHANGED dirs
    /\ UNCHANGED <<now, members, ops, rev, db, cookie, req, started>>

\* share.delete throws when the row is gone, and that ends the whole run.
DeleteShareRow(j, s) ==
    /\ s \in removal[j].wiped
    /\ IF db[s].live
       THEN /\ db' = [db EXCEPT ![s] = NoRow(@.gen)]
            /\ removal' = [removal EXCEPT ![j].wiped = {}]
       ELSE removal' = [removal EXCEPT ![j] = NoRemoval] /\ UNCHANGED db
    /\ UNCHANGED <<now, members, ops, rev, dirs, cookie, req, started>>

(***************************************************************************)
(* Last the link, and with it by cascade the rows attached since the list  *)
(* was read; their directories stay.                                       *)
(***************************************************************************)
DeleteLink(j) ==
    /\ removal[j].step = "shares"
    /\ removal[j].queue = {} /\ removal[j].wiped = {}
    /\ LET v == removal[j].current
       IN  IF Exists(v)
           THEN /\ rev' = [rev EXCEPT ![v].state = "gone"]
                /\ db' = [s \in Shares |-> IF db[s].rev = v THEN NoRow(db[s].gen) ELSE db[s]]
                /\ removal' = [removal EXCEPT ![j] =
                       IF @.links = {} THEN NoRemoval
                       ELSE [@ EXCEPT !.step = "list", !.current = None]]
           ELSE removal' = [removal EXCEPT ![j] = NoRemoval] /\ UNCHANGED <<rev, db>>
    /\ UNCHANGED <<now, members, ops, dirs, cookie, req, started>>

RemovalStep(j) ==
    \/ JobList(j)
    \/ \E v \in Revs : ListShares(j, v)
    \/ \E s \in Shares : WipeShare(j, s) \/ DeleteShareRow(j, s)
    \/ DeleteLink(j)

Tick ==
    /\ "tick" \in ops
    /\ now < MaxTime
    /\ now' = now + 1
    /\ UNCHANGED <<members, ops, rev, db, dirs, cookie, req, removal, started>>

RequestStep(r) ==
    \/ \E c \in Clients, s \in Shares :
           \/ \E isReverseShare \in BOOLEAN : Create(r, c, s, isReverseShare)
           \/ Complete(r, c, s)
           \/ Delete(r, c, s)
    \/ CreateGuard(r) \/ \E lifetime \in Lifetimes : CreateReadLink(r, lifetime)
    \/ CreateRow(r) \/ CreateConnect(r)
    \/ CompleteGuard(r) \/ CompleteCheck(r) \/ CompleteCharge(r) \/ CompleteLock(r)
    \/ DeleteWipe(r) \/ DeleteRow(r)

ClientStep(c) ==
    \/ \E v \in Revs : OpenLink(c, v)
    \/ \E s \in Shares : Upload(c, s) \/ Revert(c, s) \/ Expire(c, s)
    \/ \E s \in Shares, lifetime \in Lifetimes : Extend(c, s, lifetime)

Next ==
    \/ \E v \in Revs, uses \in 1 .. MaxUseCount : CreateLink(v, uses)
    \/ \E c \in Clients : ClientStep(c)
    \/ \E r \in Requests : RequestStep(r)
    \/ \E j \in Removals : RemovalStep(j) \/ \E v \in Revs : OwnerRemoves(j, v)
    \/ Tick

Spec == Init /\ [][Next]_vars

(***************************************************************************)
(* Every continuation of a removal runs, the cron job starts every hour,   *)
(* and clients do not for ever delete shares that a run has listed.        *)
(***************************************************************************)
FairSpec ==
    /\ Spec
    /\ \A j \in Removals : WF_vars(RemovalStep(j))
    /\ <>[][\A r \in Requests : ~DeleteRow(r)]_vars

-----------------------------------------------------------------------------
(* What must hold *)

Completed(v) == {s \in Shares : db[s].live /\ db[s].rev = v /\ db[s].locked}

(***************************************************************************)
(* Every completed share of a link has been charged to that link: no order *)
(* of completions, reverts, removals and lost links yields a share that is *)
(* open to its recipients and was never paid for.  With several links, or  *)
(* share ids used again, the code breaks this.                             *)
(***************************************************************************)
PaidFor ==
    \A v \in Revs : Cardinality(Completed(v)) <= rev[v].uses - rev[v].remaining

(***************************************************************************)
(* Guests who need a link to get in cannot overdraw it one request after   *)
(* the other, though many of their shares may be open when it has one use  *)
(* left: only completions under way at the same time can, and by no more   *)
(* than their number.  Members, and guests where                           *)
(* share.allowUnauthenticatedShares is on, the guard does not hold to the  *)
(* link, so they overdraw it one after the other.                          *)
(***************************************************************************)
OverdrawnByOverlapOnly ==
    members = {} /\ "anyone" \notin ops =>
        \A v \in Revs : rev[v].state = "live" => rev[v].remaining >= 1 - Cardinality(Requests)

\* A link is used as often as it says, and no more.
UsesNeverNegative == \A v \in Revs : rev[v].state = "live" => rev[v].remaining >= 0

(***************************************************************************)
(* On the local disk an expired link goes away, whatever fails in one run  *)
(* of the job and whatever an earlier run has left of its shares.  In a    *)
(* bucket it does not: an empty share of the link cannot be wiped, and     *)
(* ends every run there.                                                   *)
(***************************************************************************)
ExpiredLinksGo ==
    \A v \in Revs : Exists(v) /\ now > rev[v].expiration ~> ~Exists(v)

\* Removing a link takes the files of its shares along.
NoOrphanDirectory ==
    \A s \in dirs : db[s].live \/ \E r \in Requests : req[r].share = s

\* A share that has not expired is not deleted because its link has.
ExtendedSharesStay ==
    [][\A s \in Shares, j \in CronJobs :
          removal[j].wiped = {s} /\ removal'[j].wiped = {} /\ db[s].live
              => IsExpired(db[s])]_vars
=============================================================================
