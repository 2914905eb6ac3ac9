-------------------------- MODULE ReverseShareProofs --------------------------
(***************************************************************************)
(* Reverse shares keep their types; guests cannot overdraw a link by more  *)
(* than the completions that are under way at the same time; and with one  *)
(* link and share ids that are used once, every completed share of the     *)
(* link has been charged to it.                                            *)
(***************************************************************************)
EXTENDS ReverseShare, FiniteSetTheorems, TLAPS

Creates == {"create:guard", "create:link", "create:row", "create:connect"}
Completes == {"complete:guard", "complete:check", "complete:charge", "complete:lock"}

\* The requests that have passed the guard on account of v and will charge it.
Charging(v) ==
    {r \in Requests : req[r].step \in {"complete:check", "complete:charge"} /\ req[r].token = v}

Room(v) == rev[v].state = "live" =>
              rev[v].remaining - Cardinality(Charging(v)) >= 1 - Cardinality(Requests)

RoomInv == members = {} /\ "anyone" \notin ops => \A v \in Revs : Room(v)

\* The requests that have charged v and will lock its share.
Paying(v) == {r \in Requests : req[r].step = "complete:lock" /\ req[r].below = v}

(***************************************************************************)
(* No share is created and completed at once: what a completion has read   *)
(* of its share's link stays true until it locks the share, or the share   *)
(* is gone for good.                                                       *)
(***************************************************************************)
ShareInv ==
    \A s \in Shares :
        /\ db[s].gen = 0 => db[s] = NoRow(0)
        /\ db[s].locked => ~Creating(s)

RequestInv ==
    \A r \in Requests :
        /\ req[r].step \in Completes =>
              db[req[r].share].gen # 0 /\ ~Creating(req[r].share)
        /\ /\ req[r].step \in {"complete:charge", "complete:lock"}
           /\ db[req[r].share].live
           => db[req[r].share].rev = req[r].below
        /\ req[r].step = "complete:charge" => req[r].below # None

\* Nothing refers to a link that is yet to be made.
FreshInv ==
    \A v \in Revs : rev[v].state = "fresh" =>
        /\ \A s \in Shares : db[s].rev # v
        /\ \A r \in Requests : req[r].below # v

Paid(v) ==
    Cardinality(Completed(v)) + Cardinality(Paying(v)) <= rev[v].uses - rev[v].remaining

PaidInv == ShareInv /\ RequestInv /\ FreshInv /\ \A v \in Revs : Paid(v)

-----------------------------------------------------------------------------
(* What the steps do to the requests *)

Steps == Creates \cup Completes \cup {"idle", "delete:wipe", "delete:row"}

\* Request r moves on to step, and to the link below; the others stay.
Moves(r, step, below) ==
    /\ req' \in [Requests -> Request]
    /\ req'[r].step = step /\ req'[r].share = req[r].share
    /\ req'[r].token = req[r].token /\ req'[r].below = below
    /\ \A q \in Requests \ {r} : req'[q] = req[q]

LEMMA MovesOn ==
    ASSUME TypeOK, NEW r \in Requests, NEW step \in Steps, NEW below \in Revs \cup {None},
           NEW e \in Nat,
           req' = [req EXCEPT ![r] = [@ EXCEPT !.step = step, !.below = below, !.expiration = e]]
    PROVE  Moves(r, step, below)
<1> DEFINE x == [req[r] EXCEPT !.step = step, !.below = below, !.expiration = e]
<1>1. req[r] \in Request /\ req \in [Requests -> Request]
    BY DEF TypeOK
<1>2. /\ x \in Request /\ x.step = step /\ x.below = below
      /\ x.share = req[r].share /\ x.token = req[r].token
    BY <1>1 DEF Request, Steps, Creates, Completes
<1> HIDE DEF x
<1>3. req' = [req EXCEPT ![r] = x]
    BY DEF x
<1> QED BY <1>1, <1>2, <1>3 DEF Moves

LEMMA ProceedsIs ==
    ASSUME TypeOK, NEW r \in Requests, NEW step \in Steps, Proceeds(r, step)
    PROVE  Moves(r, step, req[r].below)
<1> DEFINE x == [req[r] EXCEPT !.step = step]
<1>1. req[r] \in Request /\ req \in [Requests -> Request]
    BY DEF TypeOK
<1>2. /\ x \in Request /\ x.step = step /\ x.below = req[r].below
      /\ x.share = req[r].share /\ x.token = req[r].token
    BY <1>1 DEF Request, Steps, Creates, Completes
<1> HIDE DEF x
<1>3. req' = [req EXCEPT ![r] = x]
    BY DEF Proceeds, x
<1> QED BY <1>1, <1>2, <1>3 DEF Moves

\* Request r is over.
Over(r) ==
    /\ req' \in [Requests -> Request]
    /\ req'[r].step = "idle" /\ req'[r].below = None /\ req'[r].share = None
    /\ \A q \in Requests \ {r} : req'[q] = req[q]

LEMMA EndsIs == ASSUME TypeOK, NEW r \in Requests, Ends(r) PROVE Over(r)
<1>1. Idle \in Request /\ Idle.step = "idle" /\ Idle.below = None /\ Idle.share = None
    BY DEF Idle, Request
<1> QED BY <1>1 DEF Ends, TypeOK, Over

\* Request r begins, for share s.
Starts(r, step, s) ==
    /\ req' \in [Requests -> Request]
    /\ req[r].step = "idle"
    /\ req'[r].step = step /\ req'[r].below = None /\ req'[r].share = s
    /\ \A q \in Requests \ {r} : req'[q] = req[q]

LEMMA BeginsIs ==
    ASSUME TypeOK, cookie' \in [Clients -> Revs \cup {None}],
           NEW r \in Requests, NEW c \in Clients, NEW s \in Shares, NEW step \in Steps,
           Begins(r, step, c, s)
    PROVE  Starts(r, step, s)
<1> DEFINE x == [Idle EXCEPT !.step = step, !.by = c, !.share = s, !.token = cookie'[c]]
<1>1. Idle \in Request /\ Idle.below = None
    BY DEF Idle, Request
<1>2. cookie'[c] \in Revs \cup {None}
    OBVIOUS
<1>3. x \in Request /\ x.step = step /\ x.below = None /\ x.share = s
    BY <1>1, <1>2, ZenonT(60) DEF Request, Steps, Creates, Completes
<1>4. req' = [req EXCEPT ![r] = x] /\ req[r].step = "idle"
    BY DEF Begins
<1> HIDE DEF x
<1> QED BY <1>3, <1>4 DEF TypeOK, Starts

LEMMA RequestType ==
    ASSUME TypeOK, NEW r \in Requests
    PROVE  /\ req[r] \in Request /\ req[r].share \in Shares \cup {None}
           /\ req[r].by \in Clients \cup {None} /\ req[r].token \in Revs \cup {None}
           /\ req[r].below \in Revs \cup {None} /\ req[r].expiration \in Nat
BY DEF TypeOK, Request

-----------------------------------------------------------------------------
(* Type correctness *)

\* A request that is under way has a share.
Inv == TypeOK /\ \A r \in Requests : req[r].step # "idle" => req[r].share \in Shares

\* What TypeOK asks of everything but the requests.
RestOK ==
    /\ now \in 1 .. MaxTime
    /\ members \subseteq Clients
    /\ ops \in Workloads
    /\ rev \in [Revs -> Link]
    /\ db \in [Shares -> Row]
    /\ dirs \subseteq Shares
    /\ cookie \in [Clients -> Revs \cup {None}]
    /\ removal \in [Removals -> Removal]
    /\ started \in 0 .. MaxCharges
    /\ \A v \in Revs : rev[v].remaining <= rev[v].uses

LEMMA RestIs == ASSUME Inv PROVE RestOK /\ TypeOK
BY DEF Inv, TypeOK, RestOK

LEMMA RowIs ==
    ASSUME NEW n \in Nat PROVE NoRow(n) \in Row /\ ~NoRow(n).live /\ ~NoRow(n).locked
                               /\ NoRow(n).rev = None /\ NoRow(n).gen = n
BY DEF NoRow, Row

LEMMA NoRemovalIs == NoRemoval \in Removal
BY DEF NoRemoval, Removal

LEMMA InvAgain ==
    ASSUME Inv, RestOK',
           \/ UNCHANGED req
           \/ \E r \in Requests : Over(r)
           \/ \E r \in Requests, step \in Steps, s \in Shares : Starts(r, step, s)
           \/ \E r \in Requests, step \in Steps, below \in Revs \cup {None} :
                 Moves(r, step, below) /\ req[r].step # "idle"
    PROVE  Inv'
<1>1. req' \in [Requests -> Request]
    BY DEF Inv, TypeOK, Over, Starts, Moves
<1>2. TypeOK'
    BY <1>1 DEF TypeOK, RestOK
<1>3. \A r \in Requests : req'[r].step # "idle" => req'[r].share \in Shares
    BY DEF Inv, Over, Starts, Moves
<1> QED BY <1>2, <1>3 DEF Inv

LEMMA LinkTyped ==
    ASSUME Inv, NEW v \in Revs, NEW uses \in 1 .. MaxUseCount, CreateLink(v, uses)
    PROVE  Inv'
<1> DEFINE x == [state |-> "live", uses |-> uses, remaining |-> uses,
                 expiration |-> now + LinkLifetime]
<1>1. x \in Link /\ x.remaining <= x.uses
    BY RestIs, ReverseAssumption DEF RestOK, Link
<1> HIDE DEF x
<1>2. rev' = [rev EXCEPT ![v] = x]
    BY DEF CreateLink, x
<1>3. rev' \in [Revs -> Link] /\ \A w \in Revs : rev'[w].remaining <= rev'[w].uses
    BY <1>1, <1>2, RestIs DEF RestOK
<1>4. RestOK'
    BY <1>3, RestIs DEF RestOK, CreateLink
<1> QED BY <1>4, InvAgain DEF CreateLink

LEMMA ClientTyped == ASSUME Inv, NEW c \in Clients, ClientStep(c) PROVE Inv'
<1>0. RestOK
    BY RestIs
<1>1. ASSUME NEW v \in Revs, OpenLink(c, v) PROVE Inv'
    <2>1. RestOK'
        BY <1>0, <1>1 DEF RestOK, OpenLink
    <2> QED BY <1>1, <2>1, InvAgain DEF OpenLink
<1>2. ASSUME NEW s \in Shares, NEW x \in Row, db' = [db EXCEPT ![s] = x], dirs' \subseteq Shares,
             UNCHANGED <<now, members, ops, rev, cookie, req, removal, started>>
      PROVE  Inv'
    <2>1. RestOK'
        BY <1>0, <1>2 DEF RestOK
    <2> QED BY <1>2, <2>1, InvAgain
<1>3. ASSUME NEW s \in Shares, Upload(c, s) PROVE Inv'
    <2>1. [db[s] EXCEPT !.hasFile = TRUE] \in Row
        BY <1>0 DEF RestOK, Row
    <2> QED BY <1>0, <1>2, <1>3, <2>1 DEF Upload, RestOK
<1>4. ASSUME NEW s \in Shares, Revert(c, s) PROVE Inv'
    <2>1. [db[s] EXCEPT !.locked = FALSE] \in Row
        BY <1>0 DEF RestOK, Row
    <2> QED BY <1>0, <1>2, <1>4, <2>1 DEF Revert, RestOK
<1>5. ASSUME NEW s \in Shares, NEW lifetime \in Lifetimes, Extend(c, s, lifetime) PROVE Inv'
    <2> DEFINE e == IF lifetime = Never THEN Never ELSE now + lifetime
    <2>1. e \in Nat
        BY <1>0, ReverseAssumption DEF RestOK, Never
    <2>2. db' = [db EXCEPT ![s] = [@ EXCEPT !.expiration = e]]
        BY <1>5 DEF Extend
    <2> HIDE DEF e
    <2>3. [db[s] EXCEPT !.expiration = e] \in Row
        BY <1>0, <2>1 DEF RestOK, Row
    <2> QED BY <1>0, <1>2, <1>5, <2>2, <2>3 DEF Extend, RestOK
<1>6. ASSUME NEW s \in Shares, Expire(c, s) PROVE Inv'
    <2>1. [db[s] EXCEPT !.expiration = now] \in Row
        BY <1>0 DEF RestOK, Row
    <2> QED BY <1>0, <1>2, <1>6, <2>1 DEF Expire, RestOK
<1> QED BY <1>1, <1>3, <1>4, <1>5, <1>6 DEF ClientStep

LEMMA CreateTyped ==
    ASSUME Inv, NEW r \in Requests, NEW c \in Clients, NEW s \in Shares,
           NEW isReverseShare \in BOOLEAN, Create(r, c, s, isReverseShare)
    PROVE  Inv' /\ Starts(r, "create:guard", s)
<1>1. RestOK'
    BY RestIs DEF RestOK, Create
<1>2. Starts(r, "create:guard", s)
    BY <1>1, RestIs, BeginsIs DEF Create, RestOK, Steps, Creates
<1> QED BY <1>1, <1>2, InvAgain DEF Steps, Creates

LEMMA BeginTyped ==
    ASSUME Inv, NEW r \in Requests, NEW c \in Clients, NEW s \in Shares,
           Complete(r, c, s) \/ Delete(r, c, s)
    PROVE  Inv' /\ \E step \in {"complete:guard", "delete:wipe"} : Starts(r, step, s)
<1>1. RestOK'
    BY RestIs DEF RestOK, Complete, Delete
<1>2. Complete(r, c, s) => Starts(r, "complete:guard", s)
    BY <1>1, RestIs, BeginsIs DEF Complete, RestOK, Steps, Completes
<1>3. Delete(r, c, s) => Starts(r, "delete:wipe", s)
    BY <1>1, RestIs, BeginsIs DEF Delete, RestOK, Steps
<1>4. \E step \in {"complete:guard", "delete:wipe"} : Starts(r, step, s)
    BY <1>2, <1>3
<1> QED BY <1>1, <1>4, InvAgain DEF Steps, Completes

\* The steps of a request that has begun.
Continues(r) ==
    \/ CreateGuard(r) \/ \E lifetime \in Lifetimes : CreateReadLink(r, lifetime)
    \/ CreateRow(r) \/ CreateConnect(r)
    \/ CompleteGuard(r) \/ CompleteCheck(r) \/ CompleteCharge(r) \/ CompleteLock(r)
    \/ DeleteWipe(r) \/ DeleteRow(r)

LEMMA Busy == ASSUME Inv, NEW r \in Requests, Continues(r)
              PROVE  req[r].step # "idle" /\ req[r].share \in Shares
<1>1. req[r].step # "idle"
    BY DEF Continues, CreateGuard, CreateReadLink, CreateRow, CreateConnect, CompleteGuard,
           CompleteCheck, CompleteCharge, CompleteLock, DeleteWipe, DeleteRow, At
<1> QED BY <1>1 DEF Inv

\* A creation goes on with the link of its cookie if that is there, or with none.
LEMMA ReadsLink ==
    ASSUME TypeOK, NEW r \in Requests, NEW lifetime \in Lifetimes, CreateReadLink(r, lifetime)
    PROVE  \/ Over(r)
           \/ \E below \in Revs \cup {None} :
                 Moves(r, "create:row", below) /\ (below # None => Exists(below))
<1> DEFINE v == IF Exists(req[r].token) THEN req[r].token ELSE None
           e == IF v # None THEN rev[v].expiration
                ELSE IF lifetime = Never THEN Never ELSE now + lifetime
<1>1. v \in Revs \cup {None} /\ (v # None => Exists(v))
    BY RequestType DEF Exists
<1>2. e \in Nat
    BY <1>1, ReverseAssumption DEF TypeOK, Link, Never
<1>3. \/ Ends(r)
      \/ req' = [req EXCEPT ![r] = [@ EXCEPT !.step = "create:row", !.below = v, !.expiration = e]]
    BY DEF CreateReadLink
<1> HIDE DEF v, e
<1> QED BY <1>1, <1>2, <1>3, MovesOn, EndsIs DEF Steps, Creates

\* A completion remembers the link of its share, and charges it if there is one.
LEMMA ReadsShare ==
    ASSUME Inv, NEW r \in Requests, CompleteCheck(r)
    PROVE  LET v == db[req[r].share].rev
           IN  /\ v \in Revs \cup {None}
               /\ \/ Over(r)
                  \/ Moves(r, "complete:lock", v) /\ v = None
                  \/ Moves(r, "complete:charge", v) /\ v # None
<1> DEFINE v == db[req[r].share].rev
           step == IF v = None THEN "complete:lock" ELSE "complete:charge"
<1>1. v \in Revs \cup {None} /\ step \in Steps /\ req[r].expiration \in Nat /\ TypeOK
    BY RequestType, Busy DEF Inv, TypeOK, Row, Steps, Completes, Continues
<1>2. Ends(r) \/ req' = [req EXCEPT ![r] = [@ EXCEPT !.below = v, !.step = step]]
    BY DEF CompleteCheck
<1> HIDE DEF v, step
<1>3. [req[r] EXCEPT !.below = v, !.step = step]
          = [req[r] EXCEPT !.step = step, !.below = v, !.expiration = req[r].expiration]
    BY <1>1, RequestType DEF Request
<1>4. CASE req' = [req EXCEPT ![r] = [@ EXCEPT !.below = v, !.step = step]]
    <2>1. req' = [req EXCEPT ![r] = [@ EXCEPT !.step = step, !.below = v,
                                              !.expiration = req[r].expiration]]
        BY <1>3, <1>4
    <2>2. Moves(r, step, v)
        BY <1>1, <2>1, MovesOn
    <2> QED BY <1>1, <2>2 DEF v, step
<1> QED BY <1>1, <1>2, <1>4, EndsIs DEF v

LEMMA MovesOrEnds ==
    ASSUME Inv, NEW r \in Requests, Continues(r)
    PROVE  /\ req[r].step # "idle" /\ req[r].share \in Shares
           /\ \/ Over(r)
              \/ \E step \in Steps, below \in Revs \cup {None} : Moves(r, step, below)
<1>0. TypeOK /\ req[r].below \in Revs \cup {None}
    BY RequestType DEF Inv
<1>1. req[r].step # "idle" /\ req[r].share \in Shares
    BY Busy
<1>2. ASSUME NEW step \in Steps, Proceeds(r, step)
      PROVE  \E below \in Revs \cup {None} : Moves(r, step, below)
    BY <1>0, <1>2, ProceedsIs
<1>3. CASE \E lifetime \in Lifetimes : CreateReadLink(r, lifetime)
    BY <1>0, <1>1, <1>3, ReadsLink DEF Steps, Creates
<1>4. CASE CompleteCheck(r)
    BY <1>1, <1>4, ReadsShare DEF Steps, Completes
<1>5. CASE /\ ~\E lifetime \in Lifetimes : CreateReadLink(r, lifetime)
           /\ ~CompleteCheck(r)
    <2>1. Ends(r) \/ \E step \in Steps : Proceeds(r, step)
        BY <1>5 DEF Continues, CreateGuard, CreateRow, CreateConnect, CompleteGuard,
               CompleteCharge, CompleteLock, DeleteWipe, DeleteRow, Steps, Creates, Completes
    <2> QED BY <1>0, <1>1, <1>2, <2>1, EndsIs
<1> QED BY <1>3, <1>4, <1>5

LEMMA ContinuesTyped == ASSUME Inv, NEW r \in Requests, Continues(r) PROVE Inv'
<1> DEFINE s == req[r].share
<1>0. /\ RestOK /\ TypeOK /\ s \in Shares /\ db[s] \in Row
      /\ req[r].by \in Clients \cup {None} /\ req[r].token \in Revs \cup {None}
      /\ req[r].below \in Revs \cup {None} /\ req[r].expiration \in Nat
    BY RestIs, MovesOrEnds, RequestType DEF RestOK
<1> HIDE DEF s
<1> SUFFICES RestOK'
    BY MovesOrEnds, InvAgain
\* Most steps change one thing besides the request.
<1>1. ASSUME NEW x \in Row, db' = [db EXCEPT ![s] = x],
             UNCHANGED <<now, members, ops, rev, dirs, cookie, removal, started>>
      PROVE  RestOK'
    BY <1>0, <1>1 DEF RestOK
<1>2. ASSUME UNCHANGED <<now, members, ops, rev, db, dirs, cookie, removal, started>>
      PROVE  RestOK'
    BY <1>0, <1>2 DEF RestOK
<1>3. ASSUME NEW lifetime \in Lifetimes, CreateReadLink(r, lifetime) PROVE RestOK'
    <2>1. dirs' \in {dirs, dirs \cup {s}}
        BY <1>3 DEF CreateReadLink, s
    <2> QED BY <1>0, <1>3, <2>1 DEF CreateReadLink, RestOK
<1>4. CASE CreateRow(r)
    <2> DEFINE x == [NoRow(db[s].gen + 1) EXCEPT !.live = TRUE, !.owner = req[r].by,
                                                 !.expiration = req[r].expiration]
    <2>1. x \in Row
        <3>1. NoRow(db[s].gen + 1) \in Row
            <4>1. db[s].gen + 1 \in Nat
                BY <1>0 DEF Row
            <4> QED BY <4>1, RowIs
        <3> QED BY <1>0, <3>1 DEF Row
    <2>2. UNCHANGED db \/ db' = [db EXCEPT ![s] = x]
        BY <1>4 DEF CreateRow, s
    <2> HIDE DEF x
    <2> QED BY <1>1, <1>2, <1>4, <2>1, <2>2 DEF CreateRow
<1>5. CASE CreateConnect(r)
    <2>1. [db[s] EXCEPT !.rev = req[r].below] \in Row
        BY <1>0 DEF Row
    <2>2. UNCHANGED db \/ db' = [db EXCEPT ![s] = [db[s] EXCEPT !.rev = req[r].below]]
        BY <1>5 DEF CreateConnect, s
    <2> QED BY <1>1, <1>2, <1>5, <2>1, <2>2 DEF CreateConnect
<1>6. CASE CompleteCheck(r)
    <2>1. UNCHANGED started \/ (started' = started + 1 /\ started < MaxCharges)
        BY <1>6 DEF CompleteCheck
    <2>2. started' \in 0 .. MaxCharges
        BY <1>0, <2>1, ReverseAssumption DEF RestOK
    <2> QED BY <1>0, <1>6, <2>2 DEF CompleteCheck, RestOK
<1>7. CASE CompleteCharge(r)
    <2>1. CASE ~Exists(req[r].token)
        BY <1>2, <1>7, <2>1 DEF CompleteCharge
    <2>2. CASE Exists(req[r].token)
        <3> DEFINE v == req[r].token
                   x == [rev[v] EXCEPT !.remaining = @ - 1]
        <3>1. v \in Revs /\ rev[v] \in Link /\ rev[v].remaining <= rev[v].uses
            BY <1>0, <2>2 DEF Exists, RestOK
        <3>2. x \in Link /\ x.remaining <= x.uses
            BY <3>1 DEF Link
        <3>3. rev' = [rev EXCEPT ![v] = x]
            BY <1>7, <2>2 DEF CompleteCharge
        <3> HIDE DEF x
        <3>4. rev' \in [Revs -> Link] /\ \A w \in Revs : rev'[w].remaining <= rev'[w].uses
            BY <1>0, <3>1, <3>2, <3>3 DEF RestOK
        <3> QED BY <1>0, <1>7, <3>4 DEF CompleteCharge, RestOK
    <2> QED BY <2>1, <2>2
<1>8. CASE CompleteLock(r)
    <2>1. [db[s] EXCEPT !.locked = TRUE] \in Row
        BY <1>0 DEF Row
    <2>2. /\ UNCHANGED db \/ db' = [db EXCEPT ![s] = [db[s] EXCEPT !.locked = TRUE]]
          /\ UNCHANGED cookie \/ cookie' = [cookie EXCEPT ![req[r].by] = None]
          /\ UNCHANGED <<now, members, ops, rev, dirs, removal, started>>
        BY <1>8 DEF CompleteLock, s
    <2>3. db' \in [Shares -> Row] /\ cookie' \in [Clients -> Revs \cup {None}]
        BY <1>0, <2>1, <2>2 DEF RestOK
    <2> QED BY <1>0, <2>2, <2>3 DEF RestOK
<1>9. CASE DeleteWipe(r)
    BY <1>0, <1>9 DEF DeleteWipe, RestOK
<1>10. CASE DeleteRow(r)
    <2>1. NoRow(db[s].gen) \in Row
        <3>1. db[s].gen \in Nat
            BY <1>0 DEF Row
        <3> QED BY <3>1, RowIs
    <2>2. db' = [db EXCEPT ![s] = NoRow(db[s].gen)]
        BY <1>10 DEF DeleteRow, s
    <2> QED BY <1>1, <1>10, <2>1, <2>2 DEF DeleteRow
<1>11. CASE CreateGuard(r) \/ CompleteGuard(r)
    BY <1>2, <1>11 DEF CreateGuard, CompleteGuard
<1> QED BY <1>3, <1>4, <1>5, <1>6, <1>7, <1>8, <1>9, <1>10, <1>11 DEF Continues

LEMMA RemovalTyped ==
    ASSUME Inv, NEW j \in Removals, RemovalStep(j) \/ \E v \in Revs : OwnerRemoves(j, v)
    PROVE  Inv'
<1> DEFINE old == removal[j]
<1>0. /\ RestOK /\ removal \in [Removals -> Removal] /\ old \in Removal
      /\ NoRemoval \in Removal
    BY RestIs, NoRemovalIs DEF RestOK
<1>1. ASSUME NEW x \in Removal, removal' = [removal EXCEPT ![j] = x], UNCHANGED req,
             UNCHANGED <<now, members, ops, cookie, started>>,
             rev' \in [Revs -> Link], db' \in [Shares -> Row], dirs' \subseteq Shares,
             \A v \in Revs : rev'[v].remaining <= rev'[v].uses
      PROVE  Inv'
    <2>1. RestOK'
        BY <1>0, <1>1 DEF RestOK
    <2> QED BY <1>1, <2>1, InvAgain
<1>2. ASSUME NEW x \in Removal, removal' = [removal EXCEPT ![j] = x],
             UNCHANGED <<now, members, ops, rev, db, cookie, req, started>>,
             dirs' \subseteq Shares
      PROVE  Inv'
    BY <1>0, <1>1, <1>2 DEF RestOK
<1>3. CASE JobList(j) \/ \E v \in Revs : OwnerRemoves(j, v)
    <2>1. PICK links \in SUBSET Revs :
              removal' = [removal EXCEPT ![j] = [NoRemoval EXCEPT !.step = "list", !.links = links]]
        BY <1>3 DEF JobList, OwnerRemoves, ExpiredLinks
    <2>2. [NoRemoval EXCEPT !.step = "list", !.links = links] \in Removal
        BY <1>0 DEF Removal
    <2>3. UNCHANGED <<now, members, ops, rev, db, dirs, cookie, req, started>>
        BY <1>3 DEF JobList, OwnerRemoves
    <2> QED BY <1>0, <1>2, <2>1, <2>2, <2>3 DEF RestOK
<1>4. ASSUME NEW v \in Revs, ListShares(j, v) PROVE Inv'
    <2> DEFINE q == {s \in Shares : db[s].live /\ db[s].rev = v}
               x == [old EXCEPT !.step = "shares", !.current = v, !.links = @ \ {v}, !.queue = q]
    <2>1. q \in SUBSET Shares
        OBVIOUS
    <2> HIDE DEF q
    <2>2. x \in Removal
        BY <1>0, <2>1 DEF Removal
    <2>3. removal' = [removal EXCEPT ![j] = x]
        BY <1>4 DEF ListShares, q
    <2> HIDE DEF x
    <2> QED BY <1>0, <1>2, <1>4, <2>2, <2>3 DEF ListShares, RestOK
<1>5. ASSUME NEW s \in Shares, WipeShare(j, s) PROVE Inv'
    <2> DEFINE x == [old EXCEPT !.queue = @ \ {s}, !.wiped = {s}]
    <2>1. x \in Removal
        BY <1>0 DEF Removal
    <2>2. \/ dirs' = dirs \ {s} /\ removal' = [removal EXCEPT ![j] = x]
          \/ UNCHANGED dirs /\ removal' = [removal EXCEPT ![j] = NoRemoval]
        BY <1>5 DEF WipeShare
    <2>3. /\ dirs' \subseteq Shares
          /\ UNCHANGED <<now, members, ops, rev, db, cookie, req, started>>
        BY <1>0, <1>5, <2>2 DEF WipeShare, RestOK
    <2> HIDE DEF x
    <2> QED BY <1>0, <1>2, <2>1, <2>2, <2>3
<1>6. ASSUME NEW s \in Shares, DeleteShareRow(j, s) PROVE Inv'
    <2>1. NoRow(db[s].gen) \in Row /\ [old EXCEPT !.wiped = {}] \in Removal
        <3>1. db[s].gen \in Nat
            BY <1>0 DEF RestOK, Row
        <3>2. [old EXCEPT !.wiped = {}] \in Removal
            BY <1>0 DEF Removal
        <3> QED BY <3>1, <3>2, RowIs
    <2>2. db' \in [Shares -> Row]
        BY <1>0, <1>6, <2>1 DEF DeleteShareRow, RestOK
    <2>3. PICK x \in Removal : removal' = [removal EXCEPT ![j] = x]
        BY <1>0, <1>6, <2>1 DEF DeleteShareRow
    <2> QED BY <1>0, <1>1, <1>6, <2>2, <2>3 DEF DeleteShareRow, RestOK
<1>7. CASE DeleteLink(j)
    <2>1. rev' \in [Revs -> Link] /\ \A v \in Revs : rev'[v].remaining <= rev'[v].uses
        <3>1. CASE UNCHANGED rev
            BY <1>0, <3>1 DEF RestOK
        <3>2. CASE Exists(old.current) /\ rev' = [rev EXCEPT ![old.current].state = "gone"]
            <4>1. old.current \in Revs
                BY <1>0, <3>2 DEF Exists, Removal
            <4> DEFINE x == [rev[old.current] EXCEPT !.state = "gone"]
            <4>2. x \in Link /\ x.remaining <= x.uses
                BY <1>0, <4>1 DEF RestOK, Link
            <4>3. rev' = [rev EXCEPT ![old.current] = x]
                BY <3>2
            <4> HIDE DEF x
            <4> QED BY <1>0, <4>1, <4>2, <4>3 DEF RestOK
        <3> QED BY <1>7, <3>1, <3>2 DEF DeleteLink
    <2>2. db' \in [Shares -> Row]
        <3>1. \A s \in Shares : NoRow(db[s].gen) \in Row
            <4>1. \A s \in Shares : db[s].gen \in Nat
                BY <1>0 DEF RestOK, Row
            <4> QED BY <4>1, RowIs
        <3> QED BY <1>0, <1>7, <3>1 DEF DeleteLink, RestOK
    <2>3. PICK x \in Removal : removal' = [removal EXCEPT ![j] = x]
        <3>1. [old EXCEPT !.step = "list", !.current = None] \in Removal
            BY <1>0 DEF Removal
        <3> QED BY <1>0, <1>7, <3>1 DEF DeleteLink
    <2> QED BY <1>0, <1>1, <1>7, <2>1, <2>2, <2>3 DEF DeleteLink, RestOK
<1> QED BY <1>3, <1>4, <1>5, <1>6, <1>7 DEF RemovalStep

LEMMA InitTyped == ASSUME Init PROVE Inv
<1>1. now \in 1 .. MaxTime /\ started \in 0 .. MaxCharges
    BY ReverseAssumption DEF Init
<1>2. rev \in [Revs -> Link] /\ \A v \in Revs : rev[v].remaining <= rev[v].uses
    BY DEF Init, Link
<1>3. db \in [Shares -> Row] /\ removal \in [Removals -> Removal]
    BY RowIs, NoRemovalIs DEF Init
<1>4. Idle \in Request /\ Idle.step = "idle"
    BY DEF Idle, Request
<1>5. req \in [Requests -> Request] /\ \A r \in Requests : req[r].step = "idle"
    BY <1>4 DEF Init
<1> QED BY <1>1, <1>2, <1>3, <1>5 DEF Init, TypeOK, Inv

LEMMA NextTyped == ASSUME Inv, Next PROVE Inv'
<1>1. CASE Tick
    <2>1. now' \in 1 .. MaxTime
        BY <1>1, RestIs, ReverseAssumption DEF RestOK, Tick
    <2>2. RestOK'
        BY <1>1, <2>1, RestIs DEF RestOK, Tick
    <2> QED BY <1>1, <2>2, InvAgain DEF Tick
<1>2. ASSUME NEW r \in Requests, RequestStep(r) PROVE Inv'
    BY <1>2, CreateTyped, BeginTyped, ContinuesTyped DEF RequestStep, Continues
<1> QED BY <1>1, <1>2, LinkTyped, ClientTyped, RemovalTyped DEF Next

LEMMA InvInductive == Spec => []Inv
<1>1. Inv /\ UNCHANGED vars => Inv'
    BY DEF Inv, TypeOK, vars
<1> QED BY <1>1, InitTyped, NextTyped, PTL DEF Spec

\* Every variable keeps its type.
THEOREM ReverseTypeOK == Spec => []TypeOK
<1>1. Inv => TypeOK
    BY DEF Inv
<1> QED BY <1>1, InvInductive, PTL

-----------------------------------------------------------------------------
(* What a request does to the links and the shares, step by step *)

\* As long as the share is being created ...
Prepares(r) ==
    /\ req[r].step \in {"create:guard", "create:link"} /\ UNCHANGED <<rev, db>>
    /\ \/ Over(r)
       \/ \E below \in Revs \cup {None} :
             \/ Moves(r, "create:link", req[r].below)
             \/ Moves(r, "create:row", below) /\ (below # None => Exists(below))

Inserts(r) ==
    /\ req[r].step = "create:row" /\ UNCHANGED rev
    /\ Over(r) \/ Moves(r, "create:connect", req[r].below)
    /\ \/ UNCHANGED db
       \/ \E x \in Row :
             /\ db' = [db EXCEPT ![req[r].share] = x]
             /\ ~x.locked /\ x.rev = None /\ x.gen # 0

Connects(r) ==
    /\ req[r].step = "create:connect" /\ UNCHANGED rev /\ Over(r)
    /\ \/ UNCHANGED db
       \/ /\ db' = [db EXCEPT ![req[r].share].rev = req[r].below]
          /\ Exists(req[r].below) /\ db[req[r].share].live

\* ... and as it is completed, ...
Admits(r) ==
    /\ req[r].step = "complete:guard" /\ UNCHANGED <<rev, db>>
    /\ \/ Over(r)
       \/ Moves(r, "complete:check", req[r].below) /\ GuardPasses(req[r].by, req[r].token)

Judges(r) ==
    LET v == db[req[r].share].rev
    IN  /\ req[r].step = "complete:check" /\ UNCHANGED <<rev, db>>
        /\ v \in Revs \cup {None}
        /\ \/ Over(r)
           \/ Moves(r, "complete:lock", v) /\ v = None
           \/ Moves(r, "complete:charge", v) /\ v # None

Charges(r) ==
    /\ req[r].step = "complete:charge" /\ UNCHANGED db
    /\ \/ Over(r) /\ UNCHANGED rev
       \/ /\ Moves(r, "complete:lock", req[r].below) /\ Exists(req[r].token)
          /\ rev' = [rev EXCEPT ![req[r].token].remaining = @ - 1]

Locks(r) ==
    /\ req[r].step = "complete:lock" /\ UNCHANGED rev /\ Over(r)
    /\ \/ UNCHANGED db
       \/ /\ db[req[r].share].live
          /\ db' = [db EXCEPT ![req[r].share].locked = TRUE]

\* ... or deleted.
Deletes(r) ==
    /\ req[r].step \in {"delete:wipe", "delete:row"} /\ UNCHANGED rev
    /\ \/ Moves(r, "delete:row", req[r].below) /\ UNCHANGED db
       \/ Over(r) /\ UNCHANGED db
       \/ Over(r) /\ db' = [db EXCEPT ![req[r].share] = NoRow(@.gen)]

LEMMA ContinueIs ==
    ASSUME Inv, NEW r \in Requests, Continues(r)
    PROVE  /\ UNCHANGED <<members, ops>>
           /\ \/ Prepares(r) \/ Inserts(r) \/ Connects(r)
              \/ Admits(r) \/ Judges(r) \/ Charges(r) \/ Locks(r)
              \/ Deletes(r)
<1> DEFINE s == req[r].share
<1>0. /\ TypeOK /\ s \in Shares /\ db[s] \in Row
      /\ req[r].by \in Clients \cup {None} /\ req[r].below \in Revs \cup {None}
      /\ req[r].expiration \in Nat
    BY Busy, RequestType DEF Inv, TypeOK
<1>1. CASE CreateGuard(r)
    BY <1>0, <1>1, ProceedsIs, EndsIs DEF CreateGuard, At, Prepares, Steps, Creates
<1>2. ASSUME NEW lifetime \in Lifetimes, CreateReadLink(r, lifetime)
      PROVE  UNCHANGED <<members, ops>> /\ Prepares(r)
    BY <1>0, <1>2, ReadsLink DEF CreateReadLink, At, Prepares
<1>3. CASE CreateRow(r)
    <2> DEFINE n == NoRow(db[s].gen + 1)
               x == [n EXCEPT !.live = TRUE, !.owner = req[r].by, !.expiration = req[r].expiration]
    <2>1. db[s].gen \in Nat /\ db[s].gen + 1 \in Nat /\ db[s].gen + 1 # 0
        <3>1. db[s].gen \in Nat
            BY <1>0 DEF Row
        <3> QED BY <3>1
    <2>2. n \in Row /\ ~n.locked /\ n.rev = None /\ n.gen # 0
        BY <2>1, RowIs
    <2> HIDE DEF n
    <2>3. x \in Row /\ ~x.locked /\ x.rev = None /\ x.gen # 0
        BY <1>0, <2>2 DEF Row
    <2>4. /\ req[r].step = "create:row" /\ UNCHANGED <<members, ops, rev>>
          /\ Ends(r) \/ Proceeds(r, "create:connect")
          /\ UNCHANGED db \/ db' = [db EXCEPT ![s] = x]
        BY <1>3 DEF CreateRow, At, n
    <2> HIDE DEF x
    <2>5. Over(r) \/ Moves(r, "create:connect", req[r].below)
        BY <1>0, <2>4, ProceedsIs, EndsIs DEF Steps, Creates
    <2> QED BY <2>3, <2>4, <2>5 DEF Inserts
<1>4. CASE CreateConnect(r)
    BY <1>0, <1>4, EndsIs DEF CreateConnect, At, Connects
<1>5. CASE CompleteGuard(r)
    BY <1>0, <1>5, ProceedsIs, EndsIs DEF CompleteGuard, At, Admits, Steps, Completes
<1>6. CASE CompleteCheck(r)
    BY <1>6, ReadsShare DEF CompleteCheck, At, Judges
<1>7. CASE CompleteCharge(r)
    BY <1>0, <1>7, ProceedsIs, EndsIs DEF CompleteCharge, At, Charges, Steps, Completes
<1>8. CASE CompleteLock(r)
    BY <1>0, <1>8, EndsIs DEF CompleteLock, At, Locks
<1>9. CASE DeleteWipe(r)
    BY <1>0, <1>9, ProceedsIs, EndsIs DEF DeleteWipe, At, Deletes, Steps
<1>10. CASE DeleteRow(r)
    BY <1>0, <1>10, EndsIs DEF DeleteRow, At, Deletes
<1> QED BY <1>1, <1>2, <1>3, <1>4, <1>5, <1>6, <1>7, <1>8, <1>9, <1>10 DEF Continues

-----------------------------------------------------------------------------
(* How far a link can be overdrawn *)

LEMMA Fewer ==
    ASSUME NEW S, NEW T, IsFiniteSet(T), S \subseteq T
    PROVE  /\ IsFiniteSet(S) /\ Cardinality(S) <= Cardinality(T)
           /\ Cardinality(S) \in Nat /\ Cardinality(T) \in Nat
BY FS_Subset, FS_CardinalityType

LEMMA OneFewer ==
    ASSUME NEW S, NEW T, NEW x \in T, IsFiniteSet(T), S \subseteq T \ {x}
    PROVE  /\ Cardinality(S) <= Cardinality(T) - 1
           /\ Cardinality(S) \in Nat /\ Cardinality(T) \in Nat
<1>1. IsFiniteSet(T \ {x}) /\ Cardinality(T \ {x}) = Cardinality(T) - 1
    BY FS_RemoveElement
<1>2. Cardinality(S) <= Cardinality(T \ {x}) /\ Cardinality(S) \in Nat
    BY <1>1, Fewer
<1> QED BY <1>1, <1>2, FS_CardinalityType

LEMMA OneMore ==
    ASSUME NEW S, NEW T, NEW x, IsFiniteSet(T), S \subseteq T \cup {x}
    PROVE  /\ Cardinality(S) <= Cardinality(T) + 1
           /\ Cardinality(S) \in Nat /\ Cardinality(T) \in Nat
<1>1. IsFiniteSet(T \cup {x}) /\ Cardinality(T \cup {x}) <= Cardinality(T) + 1
    <2>1. IsFiniteSet(T \cup {x})
          /\ Cardinality(T \cup {x}) = IF x \in T THEN Cardinality(T) ELSE Cardinality(T) + 1
        BY FS_AddElement
    <2>2. Cardinality(T) \in Nat
        BY FS_CardinalityType
    <2> QED BY <2>1, <2>2
<1>2. Cardinality(S) <= Cardinality(T \cup {x}) /\ Cardinality(S) \in Nat
      /\ Cardinality(T \cup {x}) \in Nat
    BY <1>1, Fewer
<1> QED BY <1>1, <1>2, FS_CardinalityType

\* Nobody joins those that will charge v, and v has as much left.
Eases(v) ==
    /\ Charging(v)' \subseteq Charging(v)
    /\ rev'[v].state = "live" =>
          rev[v].state = "live" /\ rev'[v].remaining = rev[v].remaining

LEMMA RoomKept ==
    ASSUME Inv, NEW v \in Revs, Room(v), Eases(v) PROVE Room(v)'
<1>1. IsFiniteSet(Charging(v))
    BY FS_Subset, ReverseAssumption DEF Charging
<1>2. /\ Cardinality(Charging(v)') <= Cardinality(Charging(v))
      /\ Cardinality(Charging(v)') \in Nat /\ Cardinality(Charging(v)) \in Nat
    BY <1>1, Fewer DEF Eases
<1>3. Cardinality(Requests) \in Nat /\ rev[v].remaining \in Int
    BY ReverseAssumption, FS_CardinalityType DEF Inv, TypeOK, Link
<1> QED BY <1>2, <1>3 DEF Room, Eases

\* While uses remain there is room for all requests that there are.
LEMMA RoomEnough ==
    ASSUME NEW v \in Revs, rev'[v].remaining \in Int, rev'[v].remaining >= 1 PROVE Room(v)'
<1>1. Charging(v)' \subseteq Requests
    BY DEF Charging
<1>2. /\ Cardinality(Charging(v)') <= Cardinality(Requests)
      /\ Cardinality(Charging(v)') \in Nat /\ Cardinality(Requests) \in Nat
    BY <1>1, Fewer, ReverseAssumption
<1> QED BY <1>2 DEF Room

LEMMA OthersCharge ==
    ASSUME NEW v \in Revs,
           \/ UNCHANGED req
           \/ \E r \in Requests : Over(r)
           \/ \E r \in Requests, s \in Shares, step \in {"create:guard", "complete:guard", "delete:wipe"} :
                 Starts(r, step, s)
           \/ \E r \in Requests, below \in Revs \cup {None},
                 step \in {"create:link", "create:row", "create:connect", "complete:lock", "delete:row"} :
                 Moves(r, step, below)
    PROVE  Charging(v)' \subseteq Charging(v)
BY DEF Over, Starts, Moves, Charging

LEMMA NextKeepsRoom == ASSUME Inv, RoomInv, Next PROVE RoomInv'
<1> SUFFICES ASSUME members = {}, "anyone" \notin ops, NEW v \in Revs PROVE Room(v)'
    <2>1. UNCHANGED <<members, ops>>
        <3>1. ASSUME NEW c \in Clients, ClientStep(c) PROVE UNCHANGED <<members, ops>>
            BY <3>1 DEF ClientStep, OpenLink, Upload, Revert, Expire, Extend
        <3>2. ASSUME NEW r \in Requests, RequestStep(r) PROVE UNCHANGED <<members, ops>>
            BY <3>2 DEF RequestStep, Create, Complete, Delete, CreateGuard, CreateReadLink, CreateRow, CreateConnect,
                        CompleteGuard, CompleteCheck, CompleteCharge, CompleteLock,
                        DeleteWipe, DeleteRow
        <3>3. ASSUME NEW j \in Removals, RemovalStep(j) PROVE UNCHANGED <<members, ops>>
            BY <3>3 DEF RemovalStep, ListShares, WipeShare, DeleteShareRow, DeleteLink, JobList
        <3> QED BY <3>1, <3>2, <3>3 DEF Next, CreateLink, OwnerRemoves, Tick
    <2> QED BY <2>1 DEF RoomInv
<1>0. Room(v) /\ rev \in [Revs -> Link] /\ rev[v].remaining \in Int
    BY DEF RoomInv, Inv, TypeOK, Link
<1>1. ASSUME NEW w \in Revs, NEW uses \in 1 .. MaxUseCount, CreateLink(w, uses) PROVE Room(v)'
    <2>1. UNCHANGED req /\ rev' = [rev EXCEPT ![w] = [state |-> "live", uses |-> uses,
                               remaining |-> uses, expiration |-> now + LinkLifetime]]
        BY <1>1 DEF CreateLink
    <2>2. CASE w = v
        <3>1. rev'[v].remaining \in Int /\ rev'[v].remaining >= 1
            BY <1>0, <2>1, <2>2, ReverseAssumption
        <3> QED BY <3>1, RoomEnough
    <2>3. CASE w # v
        BY <1>0, <2>1, <2>3, RoomKept, OthersCharge DEF Eases
    <2> QED BY <2>2, <2>3
<1>2. ASSUME UNCHANGED rev, Charging(v)' \subseteq Charging(v) PROVE Room(v)'
    BY <1>0, <1>2, RoomKept DEF Eases
<1>3. CASE Tick \/ \E c \in Clients : ClientStep(c)
    <2>1. UNCHANGED <<rev, req>>
        BY <1>3 DEF Tick, ClientStep, OpenLink, Upload, Revert, Expire, Extend
    <2> QED BY <1>2, <2>1, OthersCharge
<1>4. ASSUME NEW j \in Removals, RemovalStep(j) \/ \E w \in Revs : OwnerRemoves(j, w)
      PROVE  Room(v)'
    <2>1. UNCHANGED req
        BY <1>4 DEF RemovalStep, JobList, OwnerRemoves, ListShares, WipeShare, DeleteShareRow,
                    DeleteLink
    <2>2. UNCHANGED rev \/ rev' = [rev EXCEPT ![removal[j].current].state = "gone"]
        BY <1>4 DEF RemovalStep, JobList, OwnerRemoves, ListShares, WipeShare, DeleteShareRow,
                    DeleteLink
    <2>3. rev'[v].state = "live" => rev'[v] = rev[v]
        BY <1>0, <2>2 DEF Link
    <2> QED BY <1>0, <2>1, <2>3, RoomKept, OthersCharge DEF Eases
<1>5. ASSUME NEW r \in Requests, NEW c \in Clients, NEW s \in Shares,
             \/ \E isReverseShare \in BOOLEAN : Create(r, c, s, isReverseShare)
             \/ Complete(r, c, s) \/ Delete(r, c, s)
      PROVE  Room(v)'
    <2>1. \E step \in {"create:guard", "complete:guard", "delete:wipe"} : Starts(r, step, s)
        BY <1>5, CreateTyped, BeginTyped
    <2>2. UNCHANGED rev
        BY <1>5 DEF Create, Complete, Delete
    <2> QED BY <1>2, <2>1, <2>2, OthersCharge
<1>6. ASSUME NEW r \in Requests, Continues(r) PROVE Room(v)'
    <2>0. req[r].below \in Revs \cup {None} /\ req[r].token \in Revs \cup {None}
        BY RequestType DEF Inv
    <2>1. CASE Prepares(r) \/ Inserts(r) \/ Connects(r) \/ Locks(r) \/ Deletes(r)
        BY <1>2, <2>0, <2>1, OthersCharge DEF Prepares, Inserts, Connects, Locks, Deletes
    <2>2. CASE Admits(r)
        <3>1. CASE Over(r)
            BY <1>2, <2>2, <3>1, OthersCharge DEF Admits
        <3>2. CASE Moves(r, "complete:check", req[r].below) /\ IsValid(req[r].token)
            <4>1. CASE req[r].token = v
                <5>1. rev'[v].remaining \in Int /\ rev'[v].remaining >= 1
                    BY <1>0, <2>2, <3>2, <4>1 DEF Admits, IsValid
                <5> QED BY <5>1, RoomEnough
            <4>2. CASE req[r].token # v
                <5>1. Charging(v)' \subseteq Charging(v)
                    BY <3>2, <4>2 DEF Moves, Charging
                <5> QED BY <1>2, <2>2, <5>1 DEF Admits
            <4> QED BY <4>1, <4>2
        <3> QED BY <2>2, <3>1, <3>2 DEF Admits, GuardPasses
    <2>3. CASE Judges(r)
        <3>1. Charging(v)' \subseteq Charging(v)
            BY <2>3 DEF Judges, Over, Moves, Charging
        <3> QED BY <1>2, <2>3, <3>1 DEF Judges
    <2>4. CASE Charges(r)
        <3>1. CASE Over(r) /\ UNCHANGED rev
            BY <1>2, <3>1, OthersCharge
        <3>2. CASE /\ Moves(r, "complete:lock", req[r].below) /\ Exists(req[r].token)
                   /\ rev' = [rev EXCEPT ![req[r].token].remaining = @ - 1]
            <4>1. CASE req[r].token = v
                <5>1. rev'[v].state = "live" /\ rev[v].state = "live"
                      /\ rev'[v].remaining = rev[v].remaining - 1
                    BY <1>0, <3>2, <4>1 DEF Exists, Link
                <5>2. r \in Charging(v) /\ Charging(v)' \subseteq Charging(v) \ {r}
                    BY <2>4, <3>2, <4>1 DEF Charges, Moves, Charging
                <5>3. IsFiniteSet(Charging(v))
                    BY FS_Subset, ReverseAssumption DEF Charging
                <5>4. /\ Cardinality(Charging(v)') <= Cardinality(Charging(v)) - 1
                      /\ Cardinality(Charging(v)') \in Nat /\ Cardinality(Charging(v)) \in Nat
                    BY <5>2, <5>3, OneFewer
                <5>5. Cardinality(Requests) \in Nat
                    BY ReverseAssumption, FS_CardinalityType
                <5> QED BY <1>0, <5>1, <5>4, <5>5 DEF Room
            <4>2. CASE req[r].token # v
                <5>1. rev'[v] = rev[v]
                    BY <1>0, <3>2, <4>2
                <5> QED BY <1>0, <2>0, <3>2, <5>1, OthersCharge, RoomKept DEF Eases
            <4> QED BY <4>1, <4>2
        <3> QED BY <2>4, <3>1, <3>2 DEF Charges
    <2> QED BY <1>6, <2>1, <2>2, <2>3, <2>4, ContinueIs
<1> QED BY <1>1, <1>3, <1>4, <1>5, <1>6 DEF Next, RequestStep, Continues

(***************************************************************************)
(* Guests who need a link to get in (share.allowUnauthenticatedShares is   *)
(* off) overdraw it by no more than the requests that pass the guard and   *)
(* charge it side by side: what remains of a live link, less what is still *)
(* going to be charged, never goes below 1 - Cardinality(Requests), since  *)
(* the guard lets nobody in once nothing remains.                          *)
(***************************************************************************)
THEOREM OverdrawnTheorem == Spec => []OverdrawnByOverlapOnly
<1>1. Init => RoomInv
    BY DEF Init, RoomInv, Room
<1>2. RoomInv /\ UNCHANGED vars => RoomInv'
    BY DEF RoomInv, Room, Charging, vars
<1>3. Inv /\ RoomInv /\ Next => RoomInv'
    BY NextKeepsRoom
<1>4. Inv /\ RoomInv => OverdrawnByOverlapOnly
    <2> SUFFICES ASSUME Inv, RoomInv, members = {}, "anyone" \notin ops, NEW v \in Revs, rev[v].state = "live"
                 PROVE  rev[v].remaining >= 1 - Cardinality(Requests)
        BY DEF OverdrawnByOverlapOnly
    <2>1. Charging(v) \subseteq Requests
        BY DEF Charging
    <2>2. Cardinality(Charging(v)) \in Nat /\ Cardinality(Requests) \in Nat
        BY <2>1, Fewer, ReverseAssumption
    <2>3. rev[v].remaining \in Int
        BY DEF Inv, TypeOK, Link
    <2> QED BY <2>2, <2>3 DEF RoomInv, Room
<1> QED BY <1>1, <1>2, <1>3, <1>4, InvInductive, PTL DEF Spec

-----------------------------------------------------------------------------
(* What completed shares have paid *)

LEMMA BillIs ==
    ASSUME Inv, NEW v \in Revs
    PROVE  /\ IsFiniteSet(Completed(v)) /\ IsFiniteSet(Paying(v))
           /\ rev[v].uses \in Int /\ rev[v].remaining \in Int
           /\ None \notin Revs
BY FS_Subset, ReverseAssumption DEF Completed, Paying, Inv, TypeOK, Link

LEMMA PaidKept ==
    ASSUME Inv, NEW v \in Revs, Paid(v),
           Completed(v)' \subseteq Completed(v), Paying(v)' \subseteq Paying(v),
           rev'[v].uses = rev[v].uses, rev'[v].remaining = rev[v].remaining
    PROVE  Paid(v)'
<1>1. /\ Cardinality(Completed(v)') <= Cardinality(Completed(v))
      /\ Cardinality(Completed(v)') \in Nat /\ Cardinality(Completed(v)) \in Nat
    BY BillIs, Fewer
<1>2. /\ Cardinality(Paying(v)') <= Cardinality(Paying(v))
      /\ Cardinality(Paying(v)') \in Nat /\ Cardinality(Paying(v)) \in Nat
    BY BillIs, Fewer
<1> QED BY <1>1, <1>2, BillIs DEF Paid

(***************************************************************************)
(* A share stays as it is, or loses what it has, or is still being made: a *)
(* new row, or one that joins a link that is there.                        *)
(***************************************************************************)
Trimmed(s) ==
    /\ db[s].gen # 0 /\ db'[s].gen # 0
    /\ db'[s].locked => db[s].locked
    /\ db'[s].live => db[s].live /\ db'[s].rev = db[s].rev
    /\ db'[s].rev \in {db[s].rev, None}

Built(s) ==
    /\ Creating(s)
    /\ db'[s].gen # 0 /\ ~db'[s].locked
    /\ db'[s].rev # None => Exists(db'[s].rev)

Harmless(s) == db'[s] = db[s] \/ Trimmed(s) \/ Built(s)

\* A request ends, or goes on without touching what the invariants speak of.
Goes(q) ==
    \/ req'[q] = req[q]
    \/ /\ req'[q].step \in {"idle", "delete:wipe", "delete:row"}
       /\ req'[q].below \in {req[q].below, None}
    \/ /\ req[q].step \in Creates /\ req'[q].step \in Creates
       /\ req'[q].share = req[q].share
       /\ req'[q].below \in {req[q].below, None} \/ Exists(req'[q].below)
    \/ /\ req[q].step = "complete:guard" /\ req'[q].step = "complete:check"
       /\ req'[q].share = req[q].share /\ req'[q].below = req[q].below

LEMMA NoneBegins ==
    ASSUME \A q \in Requests : Goes(q), NEW s, Creating(s)' PROVE Creating(s)
BY DEF Goes, Creating, Creates

LEMMA PaidAgain ==
    ASSUME Inv, PaidInv, \A q \in Requests : Goes(q), \A s \in Shares : Harmless(s),
           \A v \in Revs :
              /\ rev'[v].state = "fresh" => rev[v].state = "fresh"
              /\ rev'[v].uses = rev[v].uses /\ rev'[v].remaining = rev[v].remaining
    PROVE  PaidInv'
<1>1. ShareInv'
    <2> SUFFICES ASSUME NEW s \in Shares
                 PROVE  /\ db'[s].gen = 0 => db'[s] = NoRow(0)
                        /\ db'[s].locked => ~Creating(s)'
        BY DEF ShareInv
    <2>1. Creating(s)' => Creating(s)
        BY NoneBegins
    <2> QED BY <2>1 DEF PaidInv, ShareInv, Harmless, Trimmed, Built
<1>2. RequestInv'
    <2> SUFFICES ASSUME NEW q \in Requests, req'[q].step \in Completes
                 PROVE  /\ db'[req'[q].share].gen # 0 /\ ~Creating(req[q].share)'
                        /\ /\ req'[q].step \in {"complete:charge", "complete:lock"}
                           /\ db'[req'[q].share].live
                           => db'[req'[q].share].rev = req'[q].below
                        /\ req'[q].step = "complete:charge" => req'[q].below # None
        BY DEF RequestInv, Completes
    <2>1. /\ req[q].step \in Completes /\ req'[q].share = req[q].share
          /\ req'[q].step \in {"complete:charge", "complete:lock"} => req'[q] = req[q]
        BY DEF Goes, Creates, Completes
    <2> DEFINE s == req[q].share
    <2>2. s \in Shares /\ Harmless(s) /\ ~Creating(s) /\ db[s].gen # 0
        BY <2>1 DEF Inv, PaidInv, RequestInv, Completes
    <2>3. ~Creating(req[q].share)'
        BY <2>1, <2>2, NoneBegins
    <2>4. db'[s].gen # 0 /\ (db'[s].live => db[s].live /\ db'[s].rev = db[s].rev)
        BY <2>2 DEF Harmless, Trimmed, Built
    <2> QED BY <2>1, <2>3, <2>4 DEF PaidInv, RequestInv
<1>3. FreshInv'
    <2> SUFFICES ASSUME NEW v \in Revs, rev'[v].state = "fresh"
                 PROVE  /\ \A s \in Shares : db'[s].rev # v
                        /\ \A q \in Requests : req'[q].below # v
        BY DEF FreshInv
    <2>1. /\ v # None /\ ~Exists(v)
          /\ \A s \in Shares : db[s].rev # v
          /\ \A q \in Requests : req[q].below # v
        BY BillIs DEF Exists, PaidInv, FreshInv
    <2>2. \A s \in Shares : db'[s].rev # v
        BY <2>1 DEF Harmless, Trimmed, Built
    <2>3. ASSUME NEW q \in Requests PROVE req'[q].below # v
        BY <2>1 DEF Goes
    <2> QED BY <2>2, <2>3
<1>4. ASSUME NEW v \in Revs PROVE Paid(v)'
    <2>1. Completed(v)' \subseteq Completed(v)
        <3> SUFFICES ASSUME NEW s \in Shares, db'[s].live, db'[s].rev = v, db'[s].locked
                     PROVE  db[s].live /\ db[s].rev = v /\ db[s].locked
            BY DEF Completed
        <3> QED BY DEF Harmless, Trimmed, Built
    <2>2. Paying(v)' \subseteq Paying(v)
        BY DEF Goes, Paying, Creates
    <2> QED BY <2>1, <2>2, PaidKept DEF PaidInv
<1> QED BY <1>1, <1>2, <1>3, <1>4 DEF PaidInv

\* Owners act on shares that are there, and not still being made.
LEMMA OwnedIs ==
    ASSUME PaidInv, NEW c, NEW s \in Shares, Owns(c, s)
    PROVE  db[s].live /\ db[s].gen # 0 /\ ~Creating(s)
<1>1. ~NoRow(0).live
    BY DEF NoRow
<1> QED BY <1>1 DEF Owns, PaidInv, ShareInv

LEMMA LinkPaid ==
    ASSUME Inv, PaidInv, NEW w \in Revs, NEW uses \in 1 .. MaxUseCount, CreateLink(w, uses)
    PROVE  PaidInv'
<1>1. /\ rev[w].state = "fresh" /\ UNCHANGED <<db, req>>
      /\ rev' = [rev EXCEPT ![w] = [state |-> "live", uses |-> uses, remaining |-> uses,
                                    expiration |-> now + LinkLifetime]]
    BY DEF CreateLink
<1>2. ShareInv' /\ RequestInv'
    BY <1>1 DEF PaidInv, ShareInv, RequestInv, Creating
<1>3. /\ rev'[w].state = "live" /\ rev'[w].uses = uses /\ rev'[w].remaining = uses
      /\ uses \in Int /\ \A v \in Revs \ {w} : rev'[v] = rev[v]
    BY <1>1, ReverseAssumption DEF Inv, TypeOK
<1>4. FreshInv'
    BY <1>1, <1>3 DEF PaidInv, FreshInv
<1>5. ASSUME NEW v \in Revs PROVE Paid(v)'
    <2>1. Completed(v)' = Completed(v) /\ Paying(v)' = Paying(v)
        BY <1>1 DEF Completed, Paying
    <2>2. CASE v # w
        BY <1>3, <2>1, <2>2 DEF PaidInv, Paid
    <2>3. CASE v = w
        <3>1. Completed(v) = {} /\ Paying(v) = {}
            BY <1>1, <2>3 DEF PaidInv, FreshInv, Completed, Paying
        <3>2. Cardinality({}) = 0
            BY FS_EmptySet
        <3> QED BY <1>3, <2>1, <2>3, <3>1, <3>2 DEF Paid
    <2> QED BY <2>2, <2>3
<1> QED BY <1>2, <1>4, <1>5 DEF PaidInv

\* Where only clients act, or nobody does.
LEMMA ClientPaid ==
    ASSUME Inv, PaidInv, Tick \/ \E c \in Clients : ClientStep(c) PROVE PaidInv'
<1>0. /\ UNCHANGED <<rev, req>> /\ db \in [Shares -> Row]
    BY DEF Tick, ClientStep, OpenLink, Upload, Revert, Expire, Extend, Inv, TypeOK
<1>1. ASSUME NEW s \in Shares, NEW c \in Clients, NEW x, db' = [db EXCEPT ![s] = x],
             Owns(c, s), x.live = db[s].live, x.rev = db[s].rev, x.gen = db[s].gen,
             x.locked => db[s].locked
      PROVE  \A t \in Shares : Harmless(t)
    <2>1. db'[s] = x /\ \A t \in Shares \ {s} : db'[t] = db[t]
        BY <1>0, <1>1
    <2>2. Trimmed(s)
        BY <1>1, <2>1, OwnedIs DEF Trimmed
    <2> QED BY <2>1, <2>2 DEF Harmless
<1>2. \A t \in Shares : Harmless(t)
    <2>1. CASE UNCHANGED db
        BY <2>1 DEF Harmless
    <2>2. ASSUME NEW c \in Clients, NEW s \in Shares, Upload(c, s)
          PROVE  \A t \in Shares : Harmless(t)
        <3> DEFINE x == [db[s] EXCEPT !.hasFile = TRUE]
        <3>1. x.live = db[s].live /\ x.rev = db[s].rev /\ x.gen = db[s].gen /\ x.locked = db[s].locked
            BY <1>0 DEF Row
        <3>2. db' = [db EXCEPT ![s] = x] /\ Owns(c, s)
            BY <2>2 DEF Upload
        <3> HIDE DEF x
        <3> QED BY <1>1, <3>1, <3>2
    <2>3. ASSUME NEW c \in Clients, NEW s \in Shares, Revert(c, s)
          PROVE  \A t \in Shares : Harmless(t)
        <3> DEFINE x == [db[s] EXCEPT !.locked = FALSE]
        <3>1. x.live = db[s].live /\ x.rev = db[s].rev /\ x.gen = db[s].gen /\ ~x.locked
            BY <1>0 DEF Row
        <3>2. db' = [db EXCEPT ![s] = x] /\ Owns(c, s)
            BY <2>3 DEF Revert
        <3> HIDE DEF x
        <3> QED BY <1>1, <3>1, <3>2
    <2>4. ASSUME NEW c \in Clients, NEW s \in Shares, NEW lifetime \in Lifetimes,
                 Extend(c, s, lifetime)
          PROVE  \A t \in Shares : Harmless(t)
        <3> DEFINE e == IF lifetime = Never THEN Never ELSE now + lifetime
                   x == [db[s] EXCEPT !.expiration = e]
        <3>1. x.live = db[s].live /\ x.rev = db[s].rev /\ x.gen = db[s].gen /\ x.locked = db[s].locked
            BY <1>0 DEF Row
        <3>2. db' = [db EXCEPT ![s] = x] /\ Owns(c, s)
            BY <2>4 DEF Extend
        <3> HIDE DEF x
        <3> QED BY <1>1, <3>1, <3>2
    <2>5. ASSUME NEW c \in Clients, NEW s \in Shares, Expire(c, s)
          PROVE  \A t \in Shares : Harmless(t)
        <3> DEFINE x == [db[s] EXCEPT !.expiration = now]
        <3>1. x.live = db[s].live /\ x.rev = db[s].rev /\ x.gen = db[s].gen /\ x.locked = db[s].locked
            BY <1>0 DEF Row
        <3>2. db' = [db EXCEPT ![s] = x] /\ Owns(c, s)
            BY <2>5 DEF Expire
        <3> HIDE DEF x
        <3> QED BY <1>1, <3>1, <3>2
    <2> QED BY <2>1, <2>2, <2>3, <2>4, <2>5 DEF Tick, ClientStep, OpenLink
<1> QED BY <1>0, <1>2, PaidAgain DEF Goes

LEMMA RemovalPaid ==
    ASSUME Inv, PaidInv, NEW j \in Removals, RemovalStep(j) \/ \E v \in Revs : OwnerRemoves(j, v)
    PROVE  PaidInv'
<1>0. UNCHANGED req /\ db \in [Shares -> Row] /\ rev \in [Revs -> Link]
    BY DEF RemovalStep, JobList, OwnerRemoves, ListShares, WipeShare, DeleteShareRow, DeleteLink,
           Inv, TypeOK
<1>1. \A s \in Shares : db'[s] \in {db[s], NoRow(db[s].gen)}
    <2>1. UNCHANGED db \/ (\E s \in Shares : DeleteShareRow(j, s)) \/ DeleteLink(j)
        BY DEF RemovalStep, JobList, OwnerRemoves, ListShares, WipeShare
    <2> QED BY <1>0, <2>1 DEF DeleteShareRow, DeleteLink
<1>2. ASSUME NEW s \in Shares PROVE Harmless(s)
    <2>1. CASE db'[s] = db[s]
        BY <2>1 DEF Harmless
    <2>2. CASE db'[s] # db[s]
        <3>1. db'[s] = NoRow(db[s].gen) /\ db[s].gen \in Nat
            BY <1>0, <1>1, <2>2 DEF Row
        <3>2. db[s].gen # 0
            BY <2>2, <3>1 DEF PaidInv, ShareInv
        <3> QED BY <3>1, <3>2, RowIs DEF Harmless, Trimmed
    <2> QED BY <2>1, <2>2
<1>3. UNCHANGED rev \/ rev' = [rev EXCEPT ![removal[j].current].state = "gone"]
    BY DEF RemovalStep, JobList, OwnerRemoves, ListShares, WipeShare, DeleteShareRow, DeleteLink
<1>4. ASSUME NEW v \in Revs
      PROVE  /\ rev'[v].state = "fresh" => rev[v].state = "fresh"
             /\ rev'[v].uses = rev[v].uses /\ rev'[v].remaining = rev[v].remaining
    <2>1. rev'[v] \in {rev[v], [rev[v] EXCEPT !.state = "gone"]}
        BY <1>0, <1>3
    <2> QED BY <1>0, <2>1 DEF Link
<1> QED BY <1>0, <1>2, <1>4, PaidAgain DEF Goes

\* Requests begin: to create a share that has never been, or for one that is there.
LEMMA BeginPaid ==
    ASSUME MaxGen <= 1, Inv, PaidInv, NEW r \in Requests, NEW c \in Clients, NEW s \in Shares,
           \/ \E isReverseShare \in BOOLEAN : Create(r, c, s, isReverseShare)
           \/ Complete(r, c, s) \/ Delete(r, c, s)
    PROVE  PaidInv'
<1>1. CASE \E isReverseShare \in BOOLEAN : Create(r, c, s, isReverseShare)
    <2>1. Starts(r, "create:guard", s) /\ UNCHANGED <<rev, db>> /\ db[s].gen < MaxGen
        BY <1>1, CreateTyped DEF Create
    <2>2. db[s].gen = 0
        <3>1. db[s].gen \in Nat
            BY DEF Inv, TypeOK, Row
        <3> QED BY <2>1, <3>1, ReverseAssumption
    <2>3. ~db[s].locked /\ \A q \in Requests : req[q].step \in Completes => req[q].share # s
        BY <2>2 DEF PaidInv, ShareInv, RequestInv, NoRow
    <2>4. \A t \in Shares : Creating(t)' => Creating(t) \/ t = s
        BY <2>1 DEF Starts, Creating
    <2>5. ShareInv'
        BY <2>1, <2>3, <2>4 DEF PaidInv, ShareInv
    <2>6. RequestInv'
        <3> SUFFICES ASSUME NEW q \in Requests, req'[q].step \in Completes
                     PROVE  req'[q] = req[q] /\ req[q].share # s /\ req[q].share \in Shares
            BY <2>1, <2>4 DEF PaidInv, RequestInv, Completes
        <3>1. q # r /\ req'[q] = req[q]
            BY <2>1 DEF Starts, Completes
        <3> QED BY <2>3, <3>1 DEF Inv, Completes
    <2>7. FreshInv'
        BY <2>1, BillIs DEF PaidInv, FreshInv, Starts
    <2>8. ASSUME NEW v \in Revs PROVE Paid(v)'
        <3>1. Completed(v)' \subseteq Completed(v) /\ Paying(v)' \subseteq Paying(v)
            BY <2>1 DEF Completed, Paying, Starts
        <3> QED BY <2>1, <3>1, PaidKept DEF PaidInv
    <2> QED BY <2>5, <2>6, <2>7, <2>8 DEF PaidInv
<1>2. CASE Complete(r, c, s)
    <2>1. Starts(r, "complete:guard", s) /\ UNCHANGED <<rev, db>> /\ Owns(c, s)
        BY <1>2, RestIs, BeginsIs DEF Complete, RestOK, Steps, Completes
    <2>2. db[s].gen # 0 /\ ~Creating(s)
        BY <2>1, OwnedIs
    <2>3. \A t : Creating(t)' => Creating(t)
        BY <2>1 DEF Starts, Creating
    <2>4. ShareInv'
        BY <2>1, <2>3 DEF PaidInv, ShareInv
    <2>5. RequestInv'
        <3> SUFFICES ASSUME NEW q \in Requests, req'[q].step \in Completes
                     PROVE  \/ req'[q] = req[q]
                            \/ req'[q].step = "complete:guard" /\ req'[q].share = s
            BY <2>1, <2>2, <2>3 DEF PaidInv, RequestInv, Completes
        <3> QED BY <2>1 DEF Starts
    <2>6. FreshInv'
        BY <2>1, BillIs DEF PaidInv, FreshInv, Starts
    <2>7. ASSUME NEW v \in Revs PROVE Paid(v)'
        <3>1. Completed(v)' \subseteq Completed(v) /\ Paying(v)' \subseteq Paying(v)
            BY <2>1 DEF Completed, Paying, Starts
        <3> QED BY <2>1, <3>1, PaidKept DEF PaidInv
    <2> QED BY <2>4, <2>5, <2>6, <2>7 DEF PaidInv
<1>3. CASE Delete(r, c, s)
    <2>1. Starts(r, "delete:wipe", s) /\ UNCHANGED <<rev, db>>
        BY <1>3, RestIs, BeginsIs DEF Delete, RestOK, Steps
    <2>2. \A q \in Requests : Goes(q)
        BY <2>1 DEF Starts, Goes
    <2> QED BY <2>1, <2>2, PaidAgain DEF Harmless
<1> QED BY <1>1, <1>2, <1>3

LEMMA OverGoes == ASSUME NEW r \in Requests, Over(r) PROVE \A q \in Requests : Goes(q)
BY DEF Over, Goes

LEMMA ContinuesPaid ==
    ASSUME \A v, w \in Revs : v = w, Inv, PaidInv, NEW r \in Requests, Continues(r)
    PROVE  PaidInv'
<1> PICK s \in Shares : s = req[r].share
    BY Busy
<1>0. /\ db \in [Shares -> Row] /\ rev \in [Revs -> Link]
      /\ req[r].below \in Revs \cup {None} /\ None \notin Revs
    BY RequestType, ReverseAssumption DEF Inv, TypeOK
\* The links stay as they are, the shares harmless, the requests on their way.
<1>1. ASSUME UNCHANGED rev, \A t \in Shares : Harmless(t), \A q \in Requests : Goes(q)
      PROVE  PaidInv'
    BY <1>1, PaidAgain
<1>2. UNCHANGED db => \A t \in Shares : Harmless(t)
    BY DEF Harmless
<1>3. CASE Prepares(r)
    <2>1. \A q \in Requests : Goes(q)
        BY <1>3 DEF Prepares, Over, Moves, Goes, Creates
    <2> QED BY <1>1, <1>2, <1>3, <2>1 DEF Prepares
<1>4. CASE Inserts(r)
    <2>1. \A q \in Requests : Goes(q)
        BY <1>4 DEF Inserts, Over, Moves, Goes, Creates
    <2>2. ASSUME NEW x \in Row, db' = [db EXCEPT ![s] = x], ~x.locked, x.rev = None, x.gen # 0
          PROVE  \A t \in Shares : Harmless(t)
        <3>1. Creating(s)
            BY <1>4 DEF Inserts, Creating
        <3>2. db'[s] = x /\ \A t \in Shares \ {s} : db'[t] = db[t]
            BY <1>0, <2>2
        <3>3. Built(s)
            BY <2>2, <3>1, <3>2 DEF Built
        <3> QED BY <3>2, <3>3 DEF Harmless
    <2> QED BY <1>1, <1>2, <1>4, <2>1, <2>2 DEF Inserts
<1>5. CASE Connects(r)
    <2>1. \A q \in Requests : Goes(q)
        BY <1>5, OverGoes DEF Connects
    <2>2. ASSUME db' = [db EXCEPT ![s].rev = req[r].below], Exists(req[r].below), db[s].live
          PROVE  \A t \in Shares : Harmless(t)
        <3> DEFINE x == [db[s] EXCEPT !.rev = req[r].below]
        <3>1. Creating(s)
            BY <1>5 DEF Connects, Creating
        <3>2. ~db[s].locked /\ db[s].gen # 0
            BY <2>2, <3>1 DEF PaidInv, ShareInv, NoRow
        <3>3. ~x.locked /\ x.gen # 0 /\ x.rev = req[r].below
            BY <1>0, <3>2 DEF Row
        <3> HIDE DEF x
        <3>4. db'[s] = x /\ \A t \in Shares \ {s} : db'[t] = db[t]
            BY <1>0, <2>2 DEF x
        <3>5. Built(s)
            BY <2>2, <3>1, <3>3, <3>4 DEF Built
        <3> QED BY <3>4, <3>5 DEF Harmless
    <2> QED BY <1>1, <1>2, <1>5, <2>1, <2>2 DEF Connects
<1>6. CASE Admits(r)
    <2>1. \A q \in Requests : Goes(q)
        BY <1>6 DEF Admits, Over, Moves, Goes
    <2> QED BY <1>1, <1>2, <1>6, <2>1 DEF Admits
<1>7. CASE Deletes(r)
    <2>1. \A q \in Requests : Goes(q)
        BY <1>7 DEF Deletes, Over, Moves, Goes
    <2>2. ASSUME db' = [db EXCEPT ![s] = NoRow(@.gen)] PROVE \A t \in Shares : Harmless(t)
        <3>1. db[s].gen \in Nat /\ db'[s] = NoRow(db[s].gen)
              /\ \A t \in Shares \ {s} : db'[t] = db[t]
            BY <1>0, <2>2 DEF Row
        <3>2. CASE db[s].gen = 0
            BY <3>1, <3>2 DEF PaidInv, ShareInv, Harmless
        <3>3. CASE db[s].gen # 0
            BY <3>1, <3>3, RowIs DEF Harmless, Trimmed
        <3> QED BY <3>2, <3>3
    <2> QED BY <1>1, <1>2, <1>7, <2>1, <2>2 DEF Deletes
<1>8. ASSUME req[r].step \in Completes
      PROVE  db[s].gen # 0 /\ ~Creating(s)
    BY <1>8 DEF PaidInv, RequestInv
<1>9. CASE Judges(r)
    <2>1. CASE Over(r)
        BY <1>1, <1>2, <1>9, <2>1, OverGoes DEF Judges
    <2>2. ASSUME NEW step \in {"complete:lock", "complete:charge"}, Moves(r, step, db[s].rev),
                 step = "complete:lock" <=> db[s].rev = None
          PROVE  PaidInv'
        <3>1. /\ UNCHANGED <<rev, db>> /\ req[r].step = "complete:check"
              /\ req'[r].step = step /\ req'[r].below = db[s].rev /\ req'[r].share = s
              /\ \A q \in Requests \ {r} : req'[q] = req[q]
            BY <1>9, <2>2 DEF Judges, Moves
        <3>2. \A t : Creating(t)' => Creating(t)
            BY <3>1 DEF Creating
        <3>3. ShareInv'
            BY <3>1, <3>2 DEF PaidInv, ShareInv
        <3>4. RequestInv'
            <4> SUFFICES ASSUME NEW q \in Requests
                         PROVE  \/ req'[q] = req[q]
                                \/ /\ req'[q].share = s /\ req'[q].below = db[s].rev
                                   /\ db[s].gen # 0 /\ ~Creating(s)
                                   /\ req'[q].step = "complete:charge" => req'[q].below # None
                BY <3>1, <3>2 DEF PaidInv, RequestInv
            <4> QED BY <1>8, <2>2, <3>1 DEF Completes
        <3>5. FreshInv'
            BY <3>1 DEF PaidInv, FreshInv
        <3>6. ASSUME NEW v \in Revs PROVE Paid(v)'
            <4>1. Completed(v)' \subseteq Completed(v) /\ Paying(v)' \subseteq Paying(v)
                BY <1>0, <2>2, <3>1 DEF Completed, Paying
            <4> QED BY <3>1, <4>1, PaidKept DEF PaidInv
        <3> QED BY <3>3, <3>4, <3>5, <3>6 DEF PaidInv
    <2> QED BY <1>9, <2>1, <2>2 DEF Judges
<1>10. CASE Charges(r)
    <2>1. CASE Over(r) /\ UNCHANGED rev
        BY <1>1, <1>2, <1>10, <2>1, OverGoes DEF Charges
    <2>2. CASE /\ Moves(r, "complete:lock", req[r].below) /\ Exists(req[r].token)
               /\ rev' = [rev EXCEPT ![req[r].token].remaining = @ - 1]
        <3>1. /\ UNCHANGED db /\ req[r].step = "complete:charge"
              /\ req'[r].step = "complete:lock" /\ req'[r].below = req[r].below
              /\ req'[r].share = req[r].share
              /\ \A q \in Requests \ {r} : req'[q] = req[q]
            BY <1>10, <2>2 DEF Charges, Moves
        \* The link in the cookie is the one of the share: there is no other.
        <3>2. req[r].below = req[r].token /\ req[r].token \in Revs
            <4>1. req[r].below # None
                BY <3>1 DEF PaidInv, RequestInv
            <4>2. req[r].token \in Revs
                BY <2>2, RequestType DEF Exists, Inv
            <4> QED BY <1>0, <4>1, <4>2
        <3>3. \A t : Creating(t)' => Creating(t)
            BY <3>1 DEF Creating
        <3>4. ShareInv'
            BY <3>1, <3>3 DEF PaidInv, ShareInv
        <3>5. RequestInv'
            BY <3>1, <3>3 DEF PaidInv, RequestInv, Completes
        <3>6. \A v \in Revs :
                 /\ rev'[v].state = rev[v].state /\ rev'[v].uses = rev[v].uses
                 /\ rev'[v].remaining =
                       IF v = req[r].token THEN rev[v].remaining - 1 ELSE rev[v].remaining
            BY <1>0, <2>2 DEF Link
        <3>7. FreshInv'
            BY <3>1, <3>6 DEF PaidInv, FreshInv
        <3>8. ASSUME NEW v \in Revs PROVE Paid(v)'
            <4>1. Completed(v)' \subseteq Completed(v)
                BY <3>1 DEF Completed
            <4>2. CASE v # req[r].token
                <5>1. Paying(v)' \subseteq Paying(v)
                    BY <3>1, <3>2, <4>2 DEF Paying
                <5> QED BY <3>6, <4>1, <4>2, <5>1, PaidKept DEF PaidInv
            <4>3. CASE v = req[r].token
                <5>1. Paying(v)' \subseteq Paying(v) \cup {r}
                    BY <3>1 DEF Paying
                <5>2. /\ Cardinality(Paying(v)') <= Cardinality(Paying(v)) + 1
                      /\ Cardinality(Paying(v)') \in Nat /\ Cardinality(Paying(v)) \in Nat
                    BY <5>1, BillIs, OneMore
                <5>3. /\ Cardinality(Completed(v)') <= Cardinality(Completed(v))
                      /\ Cardinality(Completed(v)') \in Nat /\ Cardinality(Completed(v)) \in Nat
                    BY <4>1, BillIs, Fewer
                <5>4. rev'[v].uses = rev[v].uses /\ rev'[v].remaining = rev[v].remaining - 1
                    BY <3>6, <4>3
                <5> QED BY <5>2, <5>3, <5>4, BillIs DEF PaidInv, Paid
            <4> QED BY <4>2, <4>3
        <3> QED BY <3>4, <3>5, <3>7, <3>8 DEF PaidInv
    <2> QED BY <1>10, <2>1, <2>2 DEF Charges
<1>11. CASE Locks(r)
    <2>1. CASE UNCHANGED db
        BY <1>1, <1>2, <1>11, <2>1, OverGoes DEF Locks
    <2>2. CASE db[s].live /\ db' = [db EXCEPT ![s].locked = TRUE]
        <3>1. /\ UNCHANGED rev /\ req[r].step = "complete:lock"
              /\ req'[r].step = "idle" /\ req'[r].below = None /\ req'[r].share = None
              /\ \A q \in Requests \ {r} : req'[q] = req[q]
            BY <1>11 DEF Locks, Over
        <3>2. /\ db'[s].live /\ db'[s].locked /\ db'[s].gen = db[s].gen /\ db'[s].rev = db[s].rev
              /\ \A t \in Shares \ {s} : db'[t] = db[t]
            BY <1>0, <2>2 DEF Row
        <3>3. db[s].gen # 0 /\ ~Creating(s) /\ db[s].rev = req[r].below
            BY <1>8, <2>2, <3>1 DEF PaidInv, RequestInv, Completes
        <3>4. \A t : Creating(t)' => Creating(t)
            BY <3>1 DEF Creating
        <3>5. ShareInv'
            BY <3>2, <3>3, <3>4 DEF PaidInv, ShareInv
        <3>6. RequestInv'
            <4> SUFFICES ASSUME NEW q \in Requests, req'[q].step \in Completes
                         PROVE  req'[q] = req[q] /\ req[q].share \in Shares
                BY <2>2, <3>2, <3>4 DEF PaidInv, RequestInv, Completes
            <4>1. q # r /\ req'[q] = req[q]
                BY <3>1 DEF Completes
            <4> QED BY <4>1 DEF Inv, Completes
        <3>7. FreshInv'
            BY <1>0, <3>1, <3>2 DEF PaidInv, FreshInv
        <3>8. ASSUME NEW v \in Revs PROVE Paid(v)'
            <4>1. CASE v # req[r].below
                <5>1. Completed(v)' \subseteq Completed(v) /\ Paying(v)' \subseteq Paying(v)
                    BY <1>0, <3>1, <3>2, <3>3, <4>1 DEF Completed, Paying
                <5> QED BY <3>1, <5>1, PaidKept DEF PaidInv
            <4>2. CASE v = req[r].below
                <5>1. /\ Completed(v)' \subseteq Completed(v) \cup {s}
                      /\ Paying(v)' \subseteq Paying(v) \ {r} /\ r \in Paying(v)
                    BY <1>0, <3>1, <3>2, <4>2 DEF Completed, Paying
                <5>2. /\ Cardinality(Completed(v)') <= Cardinality(Completed(v)) + 1
                      /\ Cardinality(Completed(v)') \in Nat /\ Cardinality(Completed(v)) \in Nat
                    BY <5>1, BillIs, OneMore
                <5>3. /\ Cardinality(Paying(v)') <= Cardinality(Paying(v)) - 1
                      /\ Cardinality(Paying(v)') \in Nat /\ Cardinality(Paying(v)) \in Nat
                    BY <5>1, BillIs, OneFewer
                <5>4. Paid(v) /\ rev'[v] = rev[v]
                    BY <3>1 DEF PaidInv
                <5> QED BY <5>2, <5>3, <5>4, BillIs DEF Paid
            <4> QED BY <4>1, <4>2
        <3> QED BY <3>5, <3>6, <3>7, <3>8 DEF PaidInv
    <2> QED BY <1>11, <2>1, <2>2 DEF Locks
<1> QED BY <1>3, <1>4, <1>5, <1>6, <1>7, <1>9, <1>10, <1>11, ContinueIs

(***************************************************************************)
(* Every completed share of the link has been charged to it: a share is    *)
(* not created and completed at once, so the link that a completion has    *)
(* charged is the one the share still hangs on when it is locked.  Ids     *)
(* used again and several links are what this needs the hypotheses for:    *)
(* the code charges the link of the cookie, whichever the share's is.      *)
(***************************************************************************)
THEOREM PaidTheorem ==
    ASSUME MaxGen <= 1, \A v, w \in Revs : v = w PROVE Spec => []PaidFor
<1>1. Init => PaidInv
    <2> SUFFICES ASSUME Init PROVE PaidInv
        OBVIOUS
    <2>1. /\ \A s \in Shares : db[s] = NoRow(0) /\ ~db[s].locked /\ db[s].rev = None /\ ~db[s].live
          /\ \A r \in Requests : req[r].step = "idle" /\ req[r].below = None
          /\ \A v \in Revs : rev[v].uses = 0 /\ rev[v].remaining = 0
        BY RowIs DEF Init, Idle
    <2>2. ShareInv /\ RequestInv /\ FreshInv
        BY <2>1, ReverseAssumption DEF ShareInv, RequestInv, FreshInv, Completes
    <2>3. ASSUME NEW v \in Revs PROVE Paid(v)
        <3>1. Completed(v) = {} /\ Paying(v) = {}
            BY <2>1 DEF Completed, Paying
        <3>2. Cardinality({}) = 0
            BY FS_EmptySet
        <3> QED BY <2>1, <3>1, <3>2 DEF Paid
    <2> QED BY <2>2, <2>3 DEF PaidInv
<1>2. PaidInv /\ UNCHANGED vars => PaidInv'
    BY DEF PaidInv, ShareInv, RequestInv, FreshInv, Paid, Completed, Paying, Creating, vars
<1>3. Inv /\ PaidInv /\ Next => PaidInv'
    <2> SUFFICES ASSUME Inv, PaidInv, Next PROVE PaidInv'
        OBVIOUS
    <2>1. ASSUME NEW r \in Requests, RequestStep(r) PROVE PaidInv'
        BY <2>1, BeginPaid, ContinuesPaid DEF RequestStep, Continues
    <2> QED BY <2>1, LinkPaid, ClientPaid, RemovalPaid DEF Next
<1>4. Inv /\ PaidInv => PaidFor
    <2> SUFFICES ASSUME Inv, PaidInv, NEW v \in Revs
                 PROVE  Cardinality(Completed(v)) <= rev[v].uses - rev[v].remaining
        BY DEF PaidFor
    <2>1. Cardinality(Completed(v)) \in Nat /\ Cardinality(Paying(v)) \in Nat
        BY BillIs, FS_CardinalityType
    <2> QED BY <2>1, BillIs DEF PaidInv, Paid
<1> QED BY <1>1, <1>2, <1>3, <1>4, InvInductive, PTL DEF Spec
=============================================================================
