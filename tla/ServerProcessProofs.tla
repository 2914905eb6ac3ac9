-------------------------- MODULE ServerProcessProofs --------------------------
(***************************************************************************)
(* What the process has in memory keeps its types.  The copy of the        *)
(* configuration is that of the database whenever nobody saves, and what   *)
(* is saved in one piece leaves a server that starts.  A token never gets  *)
(* more calls than its limit in any period, and its row tells of its last  *)
(* use within a window.                                                    *)
(***************************************************************************)
EXTENDS ServerProcess, FiniteSetTheorems, SequenceTheorems, TLAPS

-----------------------------------------------------------------------------
(* The invariants *)

\* Saves are under way only while the server is up, and one that writes has
\* found a row to write.
SavesInv ==
    \A r \in Saves :
       /\ InFlight(r) => server = "up"
       /\ save[r].at \in {"write", "refresh"} => Current(r).key \in Keys

\* Between a write and the copy that follows it the save is about to refresh.
CopyInv ==
    server \in {"loaded", "up"} /\ ~yaml.here =>
       copy = db \/ \E r \in Saves : save[r].at = "refresh"

\* The batch up to its n-th entry on top of some values.
AppliedUpTo(values, batch, n) ==
    [k \in Keys |->
        LET at == {i \in 1 .. n : batch[i].key = k}
        IN  IF at = {} THEN values[k]
            ELSE batch[CHOOSE i \in at : \A j \in at : j <= i].value]

\* How many entries a save has written.
Written(r) == IF save[r].at = "refresh" THEN save[r].next ELSE save[r].next - 1

\* A save under way will leave consistent values, and those it has written
\* are in the database already.
GoesWell(r) ==
    /\ Consistent(Applied(db, save[r].batch))
    /\ AppliedUpTo(db, save[r].batch, Written(r)) = db

StartInv ==
    ~spoiled /\ ~yaml.here =>
        /\ server # "noConfig"
        /\ \A q, r \in Saves : InFlight(q) /\ InFlight(r) => q = r
        /\ \A r \in Saves : InFlight(r) => GoesWell(r)
        /\ (\A r \in Saves : ~InFlight(r)) => Consistent(db)

\* The throttler has forgotten only what no longer counts.
HitsInv ==
    \A t \in ApiTokenIds, n \in Times :
       /\ n + Ttl > clock => let[t][n] = hits[t][n]
       /\ n > clock => hits[t][n] = 0

\* The last use that counts as persisted is in the row, or in the last update
\* of it under way.
PersistedIsWritten(t) ==
    /\ (\A i \in DOMAIN writes : writes[i][1] # t) => token[t].lastUsed = usage[t].persisted
    /\ \A i \in DOMAIN writes :
          writes[i][1] = t /\ (\A j \in DOMAIN writes : j > i => writes[j][1] # t)
             => writes[i][2] = usage[t].persisted

UsageInv ==
    \A t \in ApiTokenIds :
       /\ token[t].state = "none" => usage[t] = NoUsage
       /\ token[t].state \in {"live", "revoked"} /\ t \notin failed /\ usage[t] # NoUsage
             => /\ usage[t].seen < usage[t].persisted + Window
                /\ PersistedIsWritten(t)

-----------------------------------------------------------------------------
(* Types and places of the saves *)

Saving == [at: {"find", "write", "refresh"}, batch: Batches, next: Nat \ {0}]

LEMMA SavingFacts ==
    ASSUME ConfigTypeOK, NEW r \in Saves, InFlight(r)
    PROVE  /\ save[r] \in Saving
           /\ save[r].batch \in Seq(Entry) /\ save[r].batch # <<>>
           /\ Len(save[r].batch) \in Nat
           /\ save[r].next \in 1 .. Len(save[r].batch)
           /\ Current(r) \in Entry
<1>1. save[r] \in Saving
    BY DEF ConfigTypeOK, InFlight, Idle, Saving
<1>2. /\ save[r].batch \in Seq(Entry) /\ save[r].batch # <<>>
      /\ save[r].next \in Nat \ {0} /\ save[r].next <= Len(save[r].batch)
    BY <1>1, ConfigAssumption DEF ConfigTypeOK, Saving
<1>3. Len(save[r].batch) \in Nat /\ save[r].next \in 1 .. Len(save[r].batch)
    BY <1>2
<1>4. Current(r) \in Entry
    BY <1>2, <1>3 DEF Current
<1> QED BY <1>1, <1>2, <1>3, <1>4

\* A step that puts x in the place of save r.
LEMMA SaveBecomes ==
    ASSUME ConfigTypeOK, NEW r \in Saves, NEW x, save' = [save EXCEPT ![r] = x],
           \/ x = Idle
           \/ x \in Saving /\ x.next <= Len(x.batch)
    PROVE  /\ save' \in [Saves -> {Idle} \cup Saving]
           /\ \A q \in Saves : InFlight(q)' => save'[q].next <= Len(save'[q].batch)
           /\ save'[r] = x /\ \A q \in Saves \ {r} : save'[q] = save[q]
<1>1. save \in [Saves -> {Idle} \cup Saving]
    BY DEF ConfigTypeOK, Saving
<1>2. save'[r] = x /\ \A q \in Saves \ {r} : save'[q] = save[q]
    BY <1>1
<1>3. save' \in [Saves -> {Idle} \cup Saving]
    BY <1>1
<1>4. ASSUME NEW q \in Saves, InFlight(q)' PROVE save'[q].next <= Len(save'[q].batch)
    <2>1. CASE q = r
        BY <1>2, <1>4, <2>1 DEF InFlight, Idle
    <2>2. CASE q # r
        BY <1>2, <1>4, <2>2 DEF InFlight, ConfigTypeOK
    <2> QED BY <2>1, <2>2
<1> QED BY <1>2, <1>3, <1>4

\* What becomes of the save that takes each of its steps.
LEMMA FindIs ==
    ASSUME ConfigTypeOK, NEW r \in Saves, UpdateFind(r)
    PROVE  \/ /\ Current(r).key \in Keys /\ UNCHANGED spoiled
              /\ save' = [save EXCEPT ![r] = [save[r] EXCEPT !.at = "write"]]
              /\ [save[r] EXCEPT !.at = "write"] \in Saving
           \/ save' = [save EXCEPT ![r] = Idle] /\ spoiled'
<1>1. save[r] \in Saving /\ save \in [Saves -> {Idle} \cup Saving]
    BY SavingFacts DEF UpdateFind, InFlight, ConfigTypeOK, Saving
<1>2. [save EXCEPT ![r].at = "write"] = [save EXCEPT ![r] = [save[r] EXCEPT !.at = "write"]]
    OBVIOUS
<1>3. [save[r] EXCEPT !.at = "write"] \in Saving
    BY <1>1 DEF Saving
<1> QED BY <1>2, <1>3 DEF UpdateFind

LEMMA WriteIs ==
    ASSUME ConfigTypeOK, NEW r \in Saves, UpdateWrite(r)
    PROVE  /\ save' = [save EXCEPT ![r] = [save[r] EXCEPT !.at = "refresh"]]
           /\ [save[r] EXCEPT !.at = "refresh"] \in Saving
<1>1. save[r] \in Saving /\ save \in [Saves -> {Idle} \cup Saving]
    BY SavingFacts DEF UpdateWrite, InFlight, ConfigTypeOK, Saving
<1>2. [save EXCEPT ![r].at = "refresh"] = [save EXCEPT ![r] = [save[r] EXCEPT !.at = "refresh"]]
    OBVIOUS
<1>3. [save[r] EXCEPT !.at = "refresh"] \in Saving
    BY <1>1 DEF Saving
<1> QED BY <1>2, <1>3 DEF UpdateWrite

LEMMA RefreshIs ==
    ASSUME ConfigTypeOK, NEW r \in Saves, UpdateRefresh(r)
    PROVE  \/ /\ save[r].next = Len(save[r].batch)
              /\ save' = [save EXCEPT ![r] = Idle]
           \/ /\ save[r].next + 1 <= Len(save[r].batch)
              /\ save' = [save EXCEPT ![r] = [at |-> "find", batch |-> save[r].batch, next |-> save[r].next + 1]]
              /\ [at |-> "find", batch |-> save[r].batch, next |-> save[r].next + 1] \in Saving
<1>1. save[r] \in Saving /\ save \in [Saves -> {Idle} \cup Saving]
    BY SavingFacts DEF UpdateRefresh, InFlight, ConfigTypeOK, Saving
<1>2. save[r].next \in 1 .. Len(save[r].batch) /\ Len(save[r].batch) \in Nat
    BY SavingFacts DEF UpdateRefresh, InFlight
<1>3. [at |-> "find", batch |-> save[r].batch, next |-> save[r].next + 1] \in Saving
    BY <1>1, <1>2 DEF Saving
<1> DEFINE x == [at |-> "find", batch |-> save[r].batch, next |-> save[r].next + 1]
<1>4. save' = [save EXCEPT ![r] = IF save[r].next = Len(save[r].batch) THEN Idle ELSE x]
    BY DEF UpdateRefresh, Goes
<1> HIDE DEF x
<1>5. CASE save[r].next = Len(save[r].batch)
    BY <1>4, <1>5
<1>6. CASE save[r].next # Len(save[r].batch)
    <2>1. save[r].next + 1 <= Len(save[r].batch)
        BY <1>2, <1>6
    <2> QED BY <1>3, <1>4, <1>6, <2>1 DEF x
<1> QED BY <1>5, <1>6

LEMMA ConfigTyped ==
    ASSUME ConfigTypeOK, SavesInv, ConfigNext
    PROVE  ConfigTypeOK'
<1> USE DEF Saving
<1>1. ASSUME Load PROVE ConfigTypeOK'
    <2>1. yaml.periods \in UNION {[K -> Periods] : K \in SUBSET Keys}
        BY ConfigAssumption DEF ConfigTypeOK, Yaml
    <2>2. \A k \in DOMAIN yaml.periods : yaml.periods[k] \in Periods
        BY <2>1
    <2>3. copy' \in [Keys -> Periods]
        BY <1>1, <2>2 DEF Load, ConfigTypeOK
    <2> QED BY <1>1, <2>3 DEF Load, ConfigTypeOK, InFlight
<1>2. ASSUME MigrateInitUser PROVE ConfigTypeOK'
    <2>1. accounts' \in [admins: 0 .. MaxAdmins, initial: BOOLEAN]
        <3>1. accounts \in [admins: 0 .. MaxAdmins, initial: BOOLEAN] /\ MaxAdmins \in Nat
            BY ConfigAssumption DEF ConfigTypeOK
        <3>2. CASE accounts' = accounts
            BY <3>1, <3>2
        <3>3. CASE /\ accounts.admins < MaxAdmins
                   /\ accounts' = [admins |-> accounts.admins + 1, initial |-> TRUE]
            <4>1. accounts.admins + 1 \in 0 .. MaxAdmins
                BY <3>1, <3>3
            <4> QED BY <3>3, <4>1
        <3>4. CASE accounts' = [accounts EXCEPT !.initial = TRUE]
            BY <3>1, <3>4
        <3> QED BY <1>2, <3>2, <3>3, <3>4 DEF MigrateInitUser
    <2> QED BY <1>2, <2>1 DEF MigrateInitUser, ConfigTypeOK, InFlight
<1>3. ASSUME AddAdmin PROVE ConfigTypeOK'
    <2>1. accounts' \in [admins: 0 .. MaxAdmins, initial: BOOLEAN]
        <3>1. /\ accounts.admins + 1 \in 0 .. MaxAdmins
              /\ accounts' = [accounts EXCEPT !.admins = accounts.admins + 1]
              /\ accounts \in [admins: 0 .. MaxAdmins, initial: BOOLEAN]
            BY <1>3, ConfigAssumption DEF AddAdmin, ConfigTypeOK
        <3> QED BY <3>1
    <2> QED BY <1>3, <2>1 DEF AddAdmin, ConfigTypeOK, InFlight
<1>4. ASSUME NEW r \in Saves, UpdateMany(r) PROVE ConfigTypeOK'
    <2>1. PICK batch \in Batches : save' = [save EXCEPT ![r] = [at |-> "find", batch |-> batch, next |-> 1]]
        BY <1>4 DEF UpdateMany
    <2>2. batch \in Seq(Entry) /\ batch # <<>>
        BY ConfigAssumption
    <2>3. 1 <= Len(batch)
        BY <2>2
    <2> DEFINE x == [at |-> "find", batch |-> batch, next |-> 1]
    <2>4. x \in Saving /\ x.next <= Len(x.batch)
        BY <2>3
    <2> HIDE DEF x, Saving
    <2>5. /\ save' \in [Saves -> {Idle} \cup Saving]
          /\ \A q \in Saves : InFlight(q)' => save'[q].next <= Len(save'[q].batch)
        BY <2>1, <2>4, SaveBecomes DEF x
    <2> QED BY <1>4, <2>5 DEF UpdateMany, ConfigTypeOK, Saving, InFlight
<1>5. ASSUME NEW r \in Saves, UpdateFind(r) PROVE ConfigTypeOK'
    <2>1. save[r].next <= Len(save[r].batch) /\ save[r] \in Saving
        BY <1>5, SavingFacts DEF UpdateFind, InFlight
    <2>2. /\ save' \in [Saves -> {Idle} \cup Saving]
          /\ \A q \in Saves : InFlight(q)' => save'[q].next <= Len(save'[q].batch)
        <3> HIDE DEF Saving
        <3>1. CASE save' = [save EXCEPT ![r] = Idle]
            BY <3>1, SaveBecomes
        <3>2. CASE /\ save' = [save EXCEPT ![r] = [save[r] EXCEPT !.at = "write"]]
                   /\ [save[r] EXCEPT !.at = "write"] \in Saving
            <4> DEFINE x == [save[r] EXCEPT !.at = "write"]
            <4>1. x.next <= Len(x.batch)
                BY <2>1 DEF Saving
            <4> HIDE DEF x
            <4> QED BY <3>2, <4>1, SaveBecomes DEF x
        <3> QED BY <1>5, <3>1, <3>2, FindIs
    <2>3. spoiled' \in BOOLEAN
        BY <1>5 DEF UpdateFind, ConfigTypeOK
    <2> QED BY <1>5, <2>2, <2>3 DEF UpdateFind, ConfigTypeOK, InFlight
<1>6. ASSUME NEW r \in Saves, UpdateWrite(r) PROVE ConfigTypeOK'
    <2>1. /\ save[r].next <= Len(save[r].batch) /\ save[r] \in Saving
          /\ Current(r) \in Entry /\ Current(r).key \in Keys
        BY <1>6, SavingFacts DEF UpdateWrite, InFlight, SavesInv
    <2> DEFINE x == [save[r] EXCEPT !.at = "refresh"]
    <2>2. x.next <= Len(x.batch) /\ x \in Saving
        BY <2>1
    <2> HIDE DEF x, Saving
    <2>3. /\ save' \in [Saves -> {Idle} \cup Saving]
          /\ \A q \in Saves : InFlight(q)' => save'[q].next <= Len(save'[q].batch)
        BY <1>6, <2>2, WriteIs, SaveBecomes DEF x
    <2>4. db' \in [Keys -> Periods]
        BY <1>6, <2>1 DEF UpdateWrite, Entry, ConfigTypeOK
    <2> QED BY <1>6, <2>3, <2>4 DEF UpdateWrite, ConfigTypeOK, InFlight, Saving
<1>7. ASSUME NEW r \in Saves, UpdateRefresh(r) PROVE ConfigTypeOK'
    <2>1. /\ save' \in [Saves -> {Idle} \cup Saving]
          /\ \A q \in Saves : InFlight(q)' => save'[q].next <= Len(save'[q].batch)
        <3>0. save[r] \in Saving
            BY <1>7, SavingFacts DEF UpdateRefresh, InFlight
        <3> DEFINE x == [at |-> "find", batch |-> save[r].batch, next |-> save[r].next + 1]
        <3>1. x.next = save[r].next + 1 /\ x.batch = save[r].batch
            BY <3>0
        <3> HIDE DEF x, Saving
        <3>2. CASE save' = [save EXCEPT ![r] = Idle]
            BY <3>2, SaveBecomes
        <3>3. CASE /\ save[r].next + 1 <= Len(save[r].batch)
                   /\ save' = [save EXCEPT ![r] = x]
                   /\ x \in Saving
            BY <3>1, <3>3, SaveBecomes
        <3> QED BY <1>7, <3>2, <3>3, RefreshIs DEF x
    <2> QED BY <1>7, <2>1 DEF UpdateRefresh, ConfigTypeOK, InFlight
<1> QED BY <1>1, <1>2, <1>3, <1>4, <1>5, <1>6, <1>7 DEF ConfigNext
LEMMA ConfigKeepsSaves ==
    ASSUME ConfigTypeOK, SavesInv, ConfigNext
    PROVE  SavesInv'
<1>1. ASSUME Load \/ MigrateInitUser \/ AddAdmin PROVE SavesInv'
    BY <1>1 DEF Load, MigrateInitUser, AddAdmin, SavesInv, InFlight, Current
<1>2. ASSUME NEW r \in Saves, NEW x, save' = [save EXCEPT ![r] = x], server' = server,
             \/ x = Idle
             \/ /\ x \in Saving /\ server = "up"
                /\ x.at \in {"write", "refresh"} => x.batch[x.next].key \in Keys
      PROVE  SavesInv'
    <2>1. save'[r] = x /\ \A q \in Saves \ {r} : save'[q] = save[q]
        BY <1>2 DEF ConfigTypeOK
    <2>2. ASSUME NEW q \in Saves
          PROVE  /\ InFlight(q)' => server' = "up"
                 /\ save'[q].at \in {"write", "refresh"} => Current(q)'.key \in Keys
        <3>1. CASE q = r /\ x = Idle
            BY <2>1, <3>1 DEF InFlight, Idle
        <3>2. CASE q = r /\ x # Idle
            BY <1>2, <2>1, <3>2 DEF InFlight, Current
        <3>3. CASE q # r
            <4>1. save'[q] = save[q]
                BY <2>1, <3>3
            <4> QED BY <1>2, <4>1 DEF SavesInv, InFlight, Current
        <3> QED BY <3>1, <3>2, <3>3
    <2> QED BY <2>2 DEF SavesInv
<1>3. ASSUME NEW r \in Saves, UpdateMany(r) PROVE SavesInv'
    <2>1. PICK batch \in Batches : save' = [save EXCEPT ![r] = [at |-> "find", batch |-> batch, next |-> 1]]
        BY <1>3 DEF UpdateMany
    <2> DEFINE x == [at |-> "find", batch |-> batch, next |-> 1]
    <2>2. x \in Saving /\ x.at = "find"
        BY DEF Saving
    <2> HIDE DEF x
    <2> QED BY <1>2, <1>3, <2>1, <2>2 DEF UpdateMany, x
<1>4. ASSUME NEW r \in Saves, UpdateFind(r) PROVE SavesInv'
    <2>1. save[r] \in Saving /\ server = "up" /\ server' = server
        BY <1>4, SavingFacts DEF UpdateFind, InFlight, SavesInv
    <2> DEFINE x == [save[r] EXCEPT !.at = "write"]
    <2>2. x.batch = save[r].batch /\ x.next = save[r].next
        BY <2>1 DEF Saving
    <2> HIDE DEF x
    <2>3. CASE save' = [save EXCEPT ![r] = Idle]
        BY <1>2, <2>1, <2>3
    <2>4. CASE save' = [save EXCEPT ![r] = x] /\ x \in Saving /\ Current(r).key \in Keys
        BY <1>2, <2>1, <2>2, <2>4 DEF Current
    <2> QED BY <1>4, <2>3, <2>4, FindIs DEF x
<1>5. ASSUME NEW r \in Saves, UpdateWrite(r) PROVE SavesInv'
    <2>1. /\ save[r] \in Saving /\ server = "up" /\ server' = server /\ Current(r).key \in Keys
        BY <1>5, SavingFacts DEF UpdateWrite, InFlight, SavesInv
    <2> DEFINE x == [save[r] EXCEPT !.at = "refresh"]
    <2>2. x.batch = save[r].batch /\ x.next = save[r].next
        BY <2>1 DEF Saving
    <2>3. save' = [save EXCEPT ![r] = x] /\ x \in Saving
        BY <1>5, WriteIs
    <2> HIDE DEF x
    <2> QED BY <1>2, <2>1, <2>2, <2>3 DEF Current
<1>6. ASSUME NEW r \in Saves, UpdateRefresh(r) PROVE SavesInv'
    <2>1. server = "up" /\ server' = server
        BY <1>6 DEF UpdateRefresh, InFlight, SavesInv
    <2> DEFINE x == [at |-> "find", batch |-> save[r].batch, next |-> save[r].next + 1]
    <2>2. x.at = "find"
        OBVIOUS
    <2> HIDE DEF x
    <2>3. CASE save' = [save EXCEPT ![r] = Idle]
        BY <1>2, <2>1, <2>3
    <2>4. CASE save' = [save EXCEPT ![r] = x] /\ x \in Saving
        BY <1>2, <2>1, <2>2, <2>4
    <2> QED BY <1>6, <2>3, <2>4, RefreshIs DEF x
<1> QED BY <1>1, <1>3, <1>4, <1>5, <1>6 DEF ConfigNext

LEMMA ConfigKeepsCopy ==
    ASSUME ConfigTypeOK, CopyInv, ConfigNext
    PROVE  CopyInv'
<1>1. ASSUME Load PROVE CopyInv'
    <2>1. yaml \in Yaml /\ (yaml.here \/ DOMAIN yaml.periods = {})
        BY ConfigAssumption DEF ConfigTypeOK
    <2>2. ~yaml.here => copy' = db
        BY <1>1, <2>1 DEF Load, ConfigTypeOK
    <2> QED BY <1>1, <2>2 DEF Load, CopyInv
<1>2. ASSUME MigrateInitUser \/ AddAdmin PROVE CopyInv'
    BY <1>2 DEF MigrateInitUser, AddAdmin, CopyInv
<1>3. ASSUME NEW r \in Saves, UpdateMany(r) \/ UpdateFind(r) PROVE CopyInv'
    <2>1. save[r].at # "refresh"
        BY <1>3 DEF UpdateMany, UpdateFind, InFlight
    <2>2. \A q \in Saves \ {r} : save'[q] = save[q]
        BY <1>3 DEF UpdateMany, UpdateFind, ConfigTypeOK
    <2> QED BY <1>3, <2>1, <2>2 DEF UpdateMany, UpdateFind, CopyInv
<1>4. ASSUME NEW r \in Saves, UpdateWrite(r) PROVE CopyInv'
    <2>1. save[r] \in Saving
        BY <1>4, SavingFacts DEF UpdateWrite, InFlight
    <2>2. [save[r] EXCEPT !.at = "refresh"].at = "refresh"
        BY <2>1 DEF Saving
    <2>3. save'[r].at = "refresh"
        BY <1>4, <2>2, WriteIs DEF ConfigTypeOK
    <2> QED BY <2>3 DEF CopyInv
<1>5. ASSUME NEW r \in Saves, UpdateRefresh(r) PROVE CopyInv'
    BY <1>5 DEF UpdateRefresh, CopyInv
<1> QED BY <1>1, <1>2, <1>3, <1>4, <1>5 DEF ConfigNext

-----------------------------------------------------------------------------
(* What a batch makes of the values *)

LEMMA AppliedAll ==
    ASSUME NEW values, NEW batch
    PROVE  Applied(values, batch) = AppliedUpTo(values, batch, Len(batch))
BY DEF Applied, AppliedUpTo

LEMMA AppliedNone ==
    ASSUME NEW values \in [Keys -> Periods], NEW batch
    PROVE  AppliedUpTo(values, batch, 0) = values
<1>1. 1 .. 0 = {}
    OBVIOUS
<1> QED BY <1>1 DEF AppliedUpTo

\* The entry of a key that comes last is the one that counts.
LEMMA AppliedNext ==
    ASSUME NEW values \in [Keys -> Periods], NEW batch \in Seq(Entry),
           NEW n \in 1 .. Len(batch), batch[n].key \in Keys,
           AppliedUpTo(values, batch, n - 1) = values
    PROVE  AppliedUpTo([values EXCEPT ![batch[n].key] = batch[n].value], batch, n)
              = [values EXCEPT ![batch[n].key] = batch[n].value]
<1> SUFFICES ASSUME NEW new, new = [values EXCEPT ![batch[n].key] = batch[n].value]
             PROVE  AppliedUpTo(new, batch, n) = new
    OBVIOUS
<1> DEFINE at(k, m) == {i \in 1 .. m : batch[i].key = k}
           last(S) == CHOOSE i \in S : \A j \in S : j <= i
           value(k, m, vs) == IF at(k, m) = {} THEN vs[k] ELSE batch[last(at(k, m))].value
<1>0. n \in Nat /\ n \in 1 .. n /\ \A i \in 1 .. n : i \in Nat /\ i <= n
    OBVIOUS
<1>2. \A k \in Keys : value(k, n - 1, values) = values[k]
    <2>1. AppliedUpTo(values, batch, n - 1) = [k \in Keys |-> value(k, n - 1, values)]
        BY DEF AppliedUpTo
    <2> HIDE DEF value
    <2> QED BY <2>1
<1>3. ASSUME NEW k \in Keys PROVE value(k, n, new) = new[k]
    <2>1. CASE k = batch[n].key
        <3>1. n \in at(k, n) /\ \A j \in at(k, n) : j <= n
            BY <1>0, <2>1
        <3>2. \A i \in at(k, n) : (\A j \in at(k, n) : j <= i) => i = n
            BY <1>0, <3>1
        <3>3. last(at(k, n)) = n
            BY <3>1, <3>2
        <3> HIDE DEF at, last
        <3>4. value(k, n, new) = batch[n].value
            BY <3>1, <3>3
        <3> QED BY <2>1, <3>4
    <2>2. CASE k # batch[n].key
        <3>1. 1 .. n = (1 .. n - 1) \cup {n}
            BY <1>0
        <3>2. at(k, n) = at(k, n - 1)
            BY <2>2, <3>1
        <3>3. new[k] = values[k]
            BY <2>2
        <3>4. value(k, n - 1, values) = values[k]
            BY <1>2
        <3> HIDE DEF at, last
        <3> QED BY <3>2, <3>3, <3>4
    <2> QED BY <2>1, <2>2
<1>4. new \in [Keys -> {new[k] : k \in Keys}]
    OBVIOUS
<1>5. AppliedUpTo(new, batch, n) = [k \in Keys |-> value(k, n, new)]
    BY DEF AppliedUpTo
<1> HIDE DEF value
<1> QED BY <1>3, <1>4, <1>5

\* A value that the batch sets may be set before.
LEMMA AppliedOver ==
    ASSUME NEW values \in [Keys -> Periods], NEW batch \in Seq(Entry),
           NEW n \in 1 .. Len(batch), batch[n].key \in Keys
    PROVE  Applied([values EXCEPT ![batch[n].key] = batch[n].value], batch)
              = Applied(values, batch)
<1> DEFINE new == [values EXCEPT ![batch[n].key] = batch[n].value]
           at(k) == {i \in 1 .. Len(batch) : batch[i].key = k}
           last(S) == CHOOSE i \in S : \A j \in S : j <= i
           value(k, vs) == IF at(k) = {} THEN vs[k] ELSE batch[last(at(k))].value
<1>2. ASSUME NEW k \in Keys PROVE value(k, new) = value(k, values)
    <2>1. CASE k = batch[n].key
        <3>1. n \in at(k)
            BY <2>1
        <3> HIDE DEF at, last, new
        <3> QED BY <3>1
    <2>2. CASE k # batch[n].key
        <3>1. new[k] = values[k]
            BY <2>2
        <3> HIDE DEF at, last, new
        <3> QED BY <3>1
    <2> QED BY <2>1, <2>2
<1>3. Applied(new, batch) = [k \in Keys |-> value(k, new)]
    BY DEF Applied
<1>4. Applied(values, batch) = [k \in Keys |-> value(k, values)]
    BY DEF Applied
<1> HIDE DEF new, value
<1>5. Applied(new, batch) = Applied(values, batch)
    BY <1>2, <1>3, <1>4
<1> QED BY <1>5 DEF new
-----------------------------------------------------------------------------
(* What is saved in one piece *)

\* Save r goes on to x, and what was good of it stays so.
LEMMA StartAgain ==
    ASSUME ConfigTypeOK, StartInv, NEW r \in Saves, InFlight(r), NEW x,
           save' = [save EXCEPT ![r] = x], UNCHANGED <<server, yaml>>,
           ~spoiled, ~yaml.here,
           \/ x = Idle /\ Consistent(db')
           \/ x \in Saving /\ GoesWell(r)'
    PROVE  StartInv'
<1>1. save'[r] = x /\ \A q \in Saves \ {r} : save'[q] = save[q]
    BY DEF ConfigTypeOK
<1>2. \A q \in Saves \ {r} : ~InFlight(q)'
    BY <1>1 DEF StartInv, InFlight
<1>3. CASE x = Idle
    BY <1>1, <1>2, <1>3 DEF StartInv, InFlight, Idle, Saving
<1>4. CASE x # Idle
    BY <1>1, <1>2, <1>4 DEF StartInv, InFlight, Saving
<1> QED BY <1>3, <1>4

LEMMA ConfigKeepsStart ==
    ASSUME ConfigTypeOK, SavesInv, CopyInv, StartInv, ConfigNext
    PROVE  StartInv'
<1> SUFFICES ASSUME ~spoiled', ~yaml.here PROVE StartInv'
    BY DEF StartInv, ConfigNext, Load, MigrateInitUser, AddAdmin, UpdateMany, UpdateFind,
           UpdateWrite, UpdateRefresh
<1>0. ~spoiled
    <2>1. ASSUME NEW r \in Saves, UpdateMany(r) PROVE ~spoiled
        BY <2>1 DEF UpdateMany
    <2>2. ASSUME NEW r \in Saves, UpdateFind(r) PROVE ~spoiled
        BY <2>2 DEF UpdateFind
    <2>3. CASE UNCHANGED spoiled
        BY <2>3
    <2> QED BY <2>1, <2>2, <2>3 DEF ConfigNext, Load, MigrateInitUser, AddAdmin, UpdateWrite,
                UpdateRefresh
<1>1. ASSUME Load PROVE StartInv'
    <2>1. DOMAIN yaml.periods = {}
        BY ConfigAssumption DEF ConfigTypeOK
    <2>2. copy' = db
        BY <1>1, <2>1 DEF Load, ConfigTypeOK
    <2>3. \A r \in Saves : ~InFlight(r)
        BY <1>1 DEF Load, SavesInv
    <2>4. Consistent(db)
        BY <1>0, <2>3 DEF StartInv
    <2>5. server' = "loaded" /\ UNCHANGED <<db, save>>
        BY <1>1, <2>2, <2>4 DEF Load
    <2> QED BY <2>3, <2>4, <2>5 DEF StartInv, InFlight
<1>2. ASSUME MigrateInitUser \/ AddAdmin PROVE StartInv'
    <2>1. UNCHANGED <<db, save, yaml, spoiled>> /\ server' # "noConfig"
        BY <1>2 DEF MigrateInitUser, AddAdmin
    <2> QED BY <1>0, <2>1 DEF StartInv, InFlight, GoesWell, Written
<1>3. ASSUME NEW r \in Saves, UpdateMany(r) PROVE StartInv'
    <2>1. PICK batch \in Batches :
             /\ Consistent(Applied(copy, batch))
             /\ save' = [save EXCEPT ![r] = [at |-> "find", batch |-> batch, next |-> 1]]
        BY <1>3 DEF UpdateMany
    <2>2. \A q \in Saves : ~InFlight(q)
        BY <1>3 DEF UpdateMany
    <2>3. copy = db
        BY <1>3, <2>2 DEF UpdateMany, CopyInv, InFlight
    <2>4. /\ save'[r] = [at |-> "find", batch |-> batch, next |-> 1]
          /\ \A q \in Saves \ {r} : ~InFlight(q)'
          /\ InFlight(r)'
        BY <2>1, <2>2 DEF ConfigTypeOK, InFlight
    <2>5. db' = db /\ server' = "up" /\ db \in [Keys -> Periods]
        BY <1>3 DEF UpdateMany, ConfigTypeOK
    <2>6. Written(r)' = 0
        BY <2>4 DEF Written
    <2>7. AppliedUpTo(db, batch, 0) = db
        BY <2>5, AppliedNone
    <2>8. GoesWell(r)'
        BY <2>1, <2>3, <2>4, <2>5, <2>6, <2>7 DEF GoesWell
    <2> QED BY <2>4, <2>5, <2>8 DEF StartInv
<1>4. ASSUME NEW r \in Saves, UpdateFind(r) PROVE StartInv'
    <2>1. save[r] \in Saving /\ InFlight(r) /\ save[r].at = "find" /\ GoesWell(r)
        BY <1>0, <1>4, SavingFacts DEF UpdateFind, InFlight, StartInv
    <2> DEFINE x == [save[r] EXCEPT !.at = "write"]
    <2>2. x.batch = save[r].batch /\ x.next = save[r].next /\ x.at = "write"
        BY <2>1 DEF Saving
    <2>3. save' = [save EXCEPT ![r] = x] /\ x \in Saving
        BY <1>4, FindIs
    <2> HIDE DEF x
    <2>4. save'[r] = x
        BY <2>3 DEF ConfigTypeOK
    <2>5. Written(r)' = Written(r) /\ save'[r].batch = save[r].batch /\ db' = db
        BY <1>4, <2>1, <2>2, <2>4 DEF Written, UpdateFind
    <2>6. GoesWell(r)'
        BY <2>1, <2>5 DEF GoesWell
    <2> QED BY <1>0, <1>4, <2>1, <2>3, <2>6, StartAgain DEF UpdateFind
<1>5. ASSUME NEW r \in Saves, UpdateWrite(r) PROVE StartInv'
    <2>1. /\ save[r] \in Saving /\ InFlight(r) /\ save[r].at = "write" /\ GoesWell(r)
          /\ Current(r).key \in Keys /\ save[r].batch \in Seq(Entry)
          /\ save[r].next \in 1 .. Len(save[r].batch) /\ Len(save[r].batch) \in Nat
        BY <1>0, <1>5, SavingFacts DEF UpdateWrite, InFlight, StartInv, SavesInv
    <2> DEFINE x == [save[r] EXCEPT !.at = "refresh"]
               b == save[r].batch
               n == save[r].next
    <2>2. x.batch = b /\ x.next = n /\ x.at = "refresh"
        BY <2>1 DEF Saving
    <2>3. save' = [save EXCEPT ![r] = x] /\ x \in Saving
        BY <1>5, WriteIs
    <2> HIDE DEF x
    <2>4. save'[r] = x
        BY <2>3 DEF ConfigTypeOK
    <2>5. db' = [db EXCEPT ![b[n].key] = b[n].value] /\ b[n].key \in Keys
        BY <1>5, <2>1 DEF UpdateWrite, Current
    <2>6. Written(r) = n - 1 /\ Written(r)' = n
        BY <2>1, <2>2, <2>4 DEF Written
    <2>7. AppliedUpTo(db, b, n - 1) = db /\ Consistent(Applied(db, b)) /\ db \in [Keys -> Periods]
        BY <2>1, <2>6 DEF GoesWell, ConfigTypeOK
    <2>8. b \in Seq(Entry) /\ n \in 1 .. Len(b)
        BY <2>1
    <2> HIDE DEF b, n
    <2>9. AppliedUpTo(db', b, n) = db'
        BY <2>5, <2>7, <2>8, AppliedNext
    <2>10. Applied(db', b) = Applied(db, b)
        BY <2>5, <2>7, <2>8, AppliedOver
    <2>11. GoesWell(r)'
        <3>1. save'[r].batch = b /\ Written(r)' = n
            BY <2>2, <2>4, <2>6
        <3>2. Consistent(Applied(db', b)) /\ AppliedUpTo(db', b, n) = db'
            BY <2>7, <2>9, <2>10
        <3> QED BY <3>1, <3>2 DEF GoesWell
    <2> QED BY <1>0, <1>5, <2>1, <2>3, <2>11, StartAgain DEF UpdateWrite
<1>6. ASSUME NEW r \in Saves, UpdateRefresh(r) PROVE StartInv'
    <2>1. /\ save[r] \in Saving /\ InFlight(r) /\ save[r].at = "refresh" /\ GoesWell(r)
          /\ save[r].next \in Nat
        BY <1>0, <1>6, SavingFacts DEF UpdateRefresh, InFlight, StartInv, Saving
    <2>2. db' = db /\ UNCHANGED <<server, yaml>>
        BY <1>6 DEF UpdateRefresh
    <2> DEFINE x == [at |-> "find", batch |-> save[r].batch, next |-> save[r].next + 1]
    <2>3. x.batch = save[r].batch /\ x.next = save[r].next + 1 /\ x.at = "find"
        OBVIOUS
    <2> HIDE DEF x
    <2>4. CASE save[r].next = Len(save[r].batch) /\ save' = [save EXCEPT ![r] = Idle]
        <3>1. Applied(db, save[r].batch) = db
            BY <2>1, <2>4, AppliedAll DEF GoesWell, Written
        <3>2. Consistent(db')
            BY <2>1, <2>2, <3>1 DEF GoesWell
        <3> QED BY <1>0, <2>1, <2>2, <2>4, <3>2, StartAgain
    <2>5. CASE save' = [save EXCEPT ![r] = x] /\ x \in Saving
        <3>1. save'[r] = x
            BY <2>5 DEF ConfigTypeOK
        <3>2. Written(r)' = Written(r)
            BY <2>1, <2>3, <3>1 DEF Written
        <3>3. GoesWell(r)'
            BY <2>1, <2>2, <2>3, <3>1, <3>2 DEF GoesWell
        <3> QED BY <1>0, <2>1, <2>2, <2>5, <3>3, StartAgain
    <2> QED BY <1>6, <2>4, <2>5, RefreshIs DEF x
<1> QED BY <1>1, <1>2, <1>3, <1>4, <1>5, <1>6 DEF ConfigNext
-----------------------------------------------------------------------------
(* Counts of calls *)

\* The calls of a count, as Total tells them apart.
Told(count) == UNION {{n} \X (1 .. count[n]) : n \in Times}

LEMMA TimesFacts ==
    /\ Start \in Nat \ {0} /\ Start \in Times
    /\ Times \subseteq Nat \ {0} /\ IsFiniteSet(Times)
    /\ \A n \in Times : n >= Window /\ n <= MaxTime
    /\ \A n \in Nat : n >= Window /\ n <= MaxTime => n \in Times
<1>1. IsFiniteSet(Start .. MaxTime)
    BY FS_Interval, ApiAssumption DEF Start
<1> QED BY <1>1, ApiAssumption DEF Start, Times

LEMMA CountFacts ==
    ASSUME NEW count \in Counts, NEW n \in Times
    PROVE  count[n] \in Nat /\ count[n] <= Limit
BY ApiAssumption DEF Counts

LEMMA ToldFinite ==
    ASSUME NEW count \in Counts
    PROVE  IsFiniteSet(Told(count))
<1>1. IsFiniteSet(1 .. Limit)
    BY FS_Interval, ApiAssumption
<1>2. IsFiniteSet(Times \X (1 .. Limit))
    BY <1>1, TimesFacts, FS_Product
<1>3. ASSUME NEW n \in Times PROVE {n} \X (1 .. count[n]) \subseteq Times \X (1 .. Limit)
    <2>1. 1 .. count[n] \subseteq 1 .. Limit
        BY CountFacts, ApiAssumption
    <2> QED BY <2>1
<1>4. Told(count) \subseteq Times \X (1 .. Limit)
    BY <1>3 DEF Told
<1> QED BY <1>2, <1>4, FS_Subset

\* More calls at each time are more calls.
LEMMA TotalGrows ==
    ASSUME NEW a \in Counts, NEW b \in Counts, \A n \in Times : a[n] <= b[n]
    PROVE  Total(a) <= Total(b)
<1>1. ASSUME NEW n \in Times PROVE {n} \X (1 .. a[n]) \subseteq {n} \X (1 .. b[n])
    <2>1. 1 .. a[n] \subseteq 1 .. b[n]
        BY CountFacts
    <2> QED BY <2>1
<1>2. Told(a) \subseteq Told(b)
    BY <1>1 DEF Told
<1> QED BY <1>2, ToldFinite, FS_Subset DEF Total, Told

LEMMA TotalFacts ==
    ASSUME NEW count \in Counts
    PROVE  /\ Total(count) \in Nat
           /\ \A n \in Times : count[n] <= Total(count)
<1>1. Total(count) \in Nat
    BY ToldFinite, FS_CardinalityType DEF Total, Told
<1>2. ASSUME NEW n \in Times PROVE count[n] <= Total(count)
    <2>1. count[n] \in Nat
        BY CountFacts
    <2>2. IsFiniteSet(1 .. count[n]) /\ Cardinality(1 .. count[n]) = count[n]
        <3>1. 1 \in Int /\ count[n] \in Int
            BY <2>1
        <3>2. /\ IsFiniteSet(1 .. count[n])
              /\ Cardinality(1 .. count[n]) = IF 1 > count[n] THEN 0 ELSE count[n] - 1 + 1
            BY <3>1, FS_Interval, ZenonT(30)
        <3> QED BY <2>1, <3>2
    <2>3. IsFiniteSet({n}) /\ Cardinality({n}) = 1
        BY FS_Singleton
    <2>4. Cardinality({n} \X (1 .. count[n])) = 1 * count[n]
        BY <2>2, <2>3, FS_Product, ZenonT(30)
    <2>5. {n} \X (1 .. count[n]) \subseteq Told(count)
        BY DEF Told
    <2>6. Cardinality({n} \X (1 .. count[n])) <= Total(count)
        BY <2>5, ToldFinite, FS_Subset DEF Total, Told
    <2> QED BY <2>1, <2>4, <2>6
<1> QED BY <1>1, <1>2

\* One call more counts as one.
LEMMA TotalOneMore ==
    ASSUME NEW count \in Counts, NEW n \in Times
    PROVE  Total([count EXCEPT ![n] = @ + 1]) <= Total(count) + 1
<1> DEFINE new == [count EXCEPT ![n] = @ + 1]
           p == <<n, count[n] + 1>>
<1>1. count[n] \in Nat
    BY CountFacts
<1>2. ASSUME NEW m \in Times, NEW k \in 1 .. new[m]
      PROVE  <<m, k>> \in Told(count) \cup {p}
    <2>1. CASE k \in 1 .. count[m]
        <3>1. <<m, k>> \in {m} \X (1 .. count[m])
            BY <2>1
        <3> QED BY <3>1 DEF Told
    <2>2. CASE k \notin 1 .. count[m]
        <3>1. m = n
            BY <1>2, <2>2 DEF Counts
        <3>2. k = count[n] + 1
            BY <1>1, <1>2, <2>2, <3>1 DEF Counts
        <3> QED BY <3>1, <3>2
    <2> QED BY <2>1, <2>2
<1> HIDE DEF new, p
<1>3. Told(new) \subseteq Told(count) \cup {p}
    BY <1>2 DEF Told
<1>4. /\ IsFiniteSet(Told(count) \cup {p})
      /\ Cardinality(Told(count) \cup {p}) <= Cardinality(Told(count)) + 1
    <2>1. IsFiniteSet(Told(count)) /\ Cardinality(Told(count)) \in Nat
        BY ToldFinite, FS_CardinalityType
    <2>2. /\ IsFiniteSet(Told(count) \cup {p})
          /\ Cardinality(Told(count) \cup {p}) =
                IF p \in Told(count) THEN Cardinality(Told(count)) ELSE Cardinality(Told(count)) + 1
        BY <2>1, FS_AddElement, ZenonT(60)
    <2> HIDE DEF Told
    <2> QED BY <2>1, <2>2
<1>5. Cardinality(Told(new)) <= Cardinality(Told(count) \cup {p}) /\ IsFiniteSet(Told(new))
    BY <1>3, <1>4, FS_Subset
<1>6. /\ Cardinality(Told(new)) \in Nat /\ Cardinality(Told(count)) \in Nat
      /\ Cardinality(Told(count) \cup {p}) \in Nat
    BY <1>4, <1>5, ToldFinite, FS_CardinalityType
<1>7. Cardinality(Told(new)) <= Cardinality(Told(count)) + 1
    BY <1>4, <1>5, <1>6
<1> QED BY <1>7 DEF new, Told, Total

-----------------------------------------------------------------------------
(* What the throttler remembers *)

Within(count, n) == [m \in Times |-> IF m \in n .. n + Ttl - 1 THEN count[m] ELSE 0]

LEMMA RecentFacts ==
    ASSUME ApiTypeOK, NEW t \in ApiTokenIds
    PROVE  /\ Recent(t) \in Counts
           /\ Recent(t)[clock] = hits[t][clock]
           /\ \A n \in Times : n + Ttl > clock => Recent(t)[n] = hits[t][n]
<1>1. clock \in Times /\ hits[t] \in Counts
    BY DEF ApiTypeOK
<1>2. 0 \in 0 .. Limit
    BY ApiAssumption
<1>3. Recent(t) \in Counts
    BY <1>1, <1>2 DEF Recent, Counts
<1>4. clock + Ttl > clock
    BY <1>1, TimesFacts, ApiAssumption
<1> QED BY <1>1, <1>3, <1>4 DEF Recent

\* What a call that is let through does to the counts of its token.
LEMMA ThrottleIs ==
    ASSUME ApiTypeOK, HitsInv, NEW c \in Calls, NEW t \in ApiTokenIds, Throttle(c, t)
    PROVE  /\ hits' = [hits EXCEPT ![t] = [Recent(t) EXCEPT ![clock] = @ + 1]]
           /\ let' = [let EXCEPT ![t] = [let[t] EXCEPT ![clock] = @ + 1]]
           /\ [Recent(t) EXCEPT ![clock] = @ + 1] \in Counts
           /\ [let[t] EXCEPT ![clock] = @ + 1] \in Counts
           /\ Total([Recent(t) EXCEPT ![clock] = @ + 1]) <= Limit
<1>1. clock \in Times /\ hits[t] \in Counts /\ let[t] \in Counts /\ Recent(t) \in Counts
    BY RecentFacts DEF ApiTypeOK
<1>2. Recent(t)[clock] \in Nat /\ Total(Recent(t)) \in Nat /\ Recent(t)[clock] <= Total(Recent(t))
    BY <1>1, TotalFacts, CountFacts
<1>3. Total(Recent(t)) < Limit
    BY DEF Throttle
<1>4. Recent(t)[clock] + 1 \in 0 .. Limit
    BY <1>2, <1>3, ApiAssumption
<1>5. clock + Ttl > clock
    BY <1>1, TimesFacts, ApiAssumption
<1>6. let[t][clock] = Recent(t)[clock]
    BY <1>1, <1>5, RecentFacts DEF HitsInv
<1>7. [Recent(t) EXCEPT ![clock] = @ + 1] \in Counts
    BY <1>1, <1>4 DEF Counts
<1>8. [let[t] EXCEPT ![clock] = @ + 1] \in Counts
    BY <1>1, <1>4, <1>6 DEF Counts
<1>9. let' = [let EXCEPT ![t] = [let[t] EXCEPT ![clock] = @ + 1]]
    BY DEF Throttle
<1>10. Total([Recent(t) EXCEPT ![clock] = @ + 1]) <= Limit
    <2> DEFINE new == [Recent(t) EXCEPT ![clock] = @ + 1]
    <2>1. Total(new) <= Total(Recent(t)) + 1
        BY <1>1, TotalOneMore
    <2>2. Total(new) \in Nat
        BY <1>7, TotalFacts
    <2> HIDE DEF new
    <2>3. Total(new) <= Limit
        BY <1>2, <1>3, <2>1, <2>2, ApiAssumption
    <2> QED BY <2>3 DEF new
<1> QED BY <1>7, <1>8, <1>9, <1>10 DEF Throttle
TokenRow == [state: {"none", "live", "revoked", "gone"}, lastUsed: Times \cup {0}]

LEMMA TokenRows ==
    ASSUME ApiTypeOK
    PROVE  /\ token \in [ApiTokenIds -> TokenRow]
           /\ \A t \in ApiTokenIds, s \in {"none", "live", "revoked", "gone"} :
                 [token EXCEPT ![t].state = s] \in [ApiTokenIds -> TokenRow]
           /\ \A t \in ApiTokenIds, n \in Times :
                 [token EXCEPT ![t].lastUsed = n] \in [ApiTokenIds -> TokenRow]
<1>1. token \in [ApiTokenIds -> TokenRow]
    BY DEF ApiTypeOK, TokenRow
<1>2. ASSUME NEW t \in ApiTokenIds, NEW s \in {"none", "live", "revoked", "gone"}
      PROVE  [token EXCEPT ![t].state = s] \in [ApiTokenIds -> TokenRow]
    <2>1. [token[t] EXCEPT !.state = s] \in TokenRow
        BY <1>1 DEF TokenRow
    <2> QED BY <1>1, <2>1
<1>3. ASSUME NEW t \in ApiTokenIds, NEW n \in Times
      PROVE  [token EXCEPT ![t].lastUsed = n] \in [ApiTokenIds -> TokenRow]
    <2>1. [token[t] EXCEPT !.lastUsed = n] \in TokenRow
        BY <1>1 DEF TokenRow
    <2> QED BY <1>1, <2>1
<1> QED BY <1>1, <1>2, <1>3

LEMMA ApiTyped ==
    ASSUME ApiTypeOK, HitsInv, ApiNext
    PROVE  ApiTypeOK'
<1>1. ASSUME Tick PROVE ApiTypeOK'
    <2>1. clock \in Nat /\ clock >= Window /\ clock < MaxTime /\ clock' = clock + 1
        BY <1>1, TimesFacts DEF Tick, ApiTypeOK
    <2>2. clock' \in Nat /\ clock' >= Window /\ clock' <= MaxTime
        BY <2>1, ApiAssumption
    <2>3. clock' \in Times
        BY <2>2, TimesFacts
    <2> QED BY <1>1, <2>3 DEF Tick, ApiTypeOK
<1>2. ASSUME NEW t \in ApiTokenIds, CreateForUser(t) \/ RevokeForUser(t) \/ Cascade(t)
      PROVE  ApiTypeOK'
    <2>1. PICK s \in {"live", "revoked", "gone"} : token' = [token EXCEPT ![t].state = s]
        BY <1>2 DEF CreateForUser, RevokeForUser, Cascade
    <2>2. token' \in [ApiTokenIds -> TokenRow]
        BY <2>1, TokenRows DEF TokenRow
    <2> QED BY <1>2, <2>2, TokenRows DEF CreateForUser, RevokeForUser, Cascade, ApiTypeOK, TokenRow
<1>3. ASSUME NEW c \in Calls, NEW t \in ApiTokenIds, Throttle(c, t) PROVE ApiTypeOK'
    <2>1. hits' \in [ApiTokenIds -> Counts] /\ let' \in [ApiTokenIds -> Counts]
        <3> DEFINE x == [Recent(t) EXCEPT ![clock] = @ + 1]
                   y == [let[t] EXCEPT ![clock] = @ + 1]
        <3>1. /\ hits' = [hits EXCEPT ![t] = x] /\ let' = [let EXCEPT ![t] = y]
              /\ x \in Counts /\ y \in Counts
            BY <1>3, ThrottleIs
        <3> HIDE DEF x, y
        <3> QED BY <3>1 DEF ApiTypeOK
    <2> QED BY <1>3, <2>1 DEF Throttle, ApiTypeOK
<1>4. ASSUME NEW c \in Calls, Validate(c) PROVE ApiTypeOK'
    <2>1. call[c] \in ApiTokenIds
        BY <1>4 DEF Validate, ApiTypeOK
    <2>2. CASE UNCHANGED <<usage, writes>>
        BY <1>4, <2>2 DEF Validate, ApiTypeOK
    <2>3. CASE RecordUsage(call[c])
        <3> DEFINE Noted == [persisted: Times \cup {0}, seen: Times \cup {0}]
        <3>0. /\ usage \in [ApiTokenIds -> Noted] /\ clock \in Times
              /\ writes \in Seq(ApiTokenIds \X Times)
            BY DEF ApiTypeOK
        <3>1. usage' \in [ApiTokenIds -> Noted]
            <4>1. CASE usage' = [usage EXCEPT ![call[c]] = [persisted |-> clock, seen |-> clock]]
                BY <2>1, <3>0, <4>1
            <4>2. CASE usage' = [usage EXCEPT ![call[c]].seen = clock]
                <5>1. [usage[call[c]] EXCEPT !.seen = clock] \in Noted
                    BY <2>1, <3>0
                <5> HIDE DEF Noted
                <5> QED BY <2>1, <3>0, <4>2, <5>1
            <4> QED BY <2>3, <4>1, <4>2 DEF RecordUsage
        <3>2. writes' \in Seq(ApiTokenIds \X Times)
            <4>1. <<call[c], clock>> \in ApiTokenIds \X Times
                BY <2>1, <3>0
            <4> HIDE DEF Noted
            <4>2. Append(writes, <<call[c], clock>>) \in Seq(ApiTokenIds \X Times)
                BY <3>0, <4>1, AppendProperties
            <4> QED BY <2>3, <3>0, <4>2 DEF RecordUsage
        <3> QED BY <1>4, <3>1, <3>2 DEF Validate, ApiTypeOK
    <2> QED BY <1>4, <2>2, <2>3 DEF Validate
<1>5. ASSUME PersistUsage PROVE ApiTypeOK'
    <2>1. writes \in Seq(ApiTokenIds \X Times) /\ writes # <<>>
        BY <1>5 DEF PersistUsage, ApiTypeOK
    <2>2. Head(writes) \in ApiTokenIds \X Times /\ Tail(writes) \in Seq(ApiTokenIds \X Times)
        BY <2>1
    <2>3. token' \in [ApiTokenIds -> TokenRow]
        <3>1. CASE token' = [token EXCEPT ![Head(writes)[1]].lastUsed = Head(writes)[2]]
            <4>1. Head(writes)[1] \in ApiTokenIds /\ Head(writes)[2] \in Times
                BY <2>2
            <4> QED BY <3>1, <4>1, TokenRows
        <3> QED BY <1>5, <3>1, TokenRows DEF PersistUsage
    <2>4. failed' \subseteq ApiTokenIds
        BY <1>5, <2>2 DEF PersistUsage, ApiTypeOK
    <2> QED BY <1>5, <2>2, <2>3, <2>4 DEF PersistUsage, ApiTypeOK, TokenRow
<1> QED BY <1>1, <1>2, <1>3, <1>4, <1>5 DEF ApiNext, ApiCalls

LEMMA ApiKeepsHits ==
    ASSUME ApiTypeOK, HitsInv, ApiNext
    PROVE  HitsInv'
<1>1. ASSUME Tick PROVE HitsInv'
    <2>1. clock \in Nat /\ clock' = clock + 1 /\ UNCHANGED <<hits, let>>
        BY <1>1, TimesFacts DEF Tick, ApiTypeOK
    <2>2. ASSUME NEW t \in ApiTokenIds, NEW n \in Times
          PROVE  /\ n + Ttl > clock' => let[t][n] = hits[t][n]
                 /\ n > clock' => hits[t][n] = 0
        <3>1. n \in Nat /\ Ttl \in Nat
            BY TimesFacts, ApiAssumption
        <3>2. /\ n + Ttl > clock' => n + Ttl > clock
              /\ n > clock' => n > clock
            BY <2>1, <3>1
        <3> QED BY <3>2 DEF HitsInv
    <2> QED BY <2>1, <2>2 DEF HitsInv
<1>2. CASE UNCHANGED <<clock, hits, let>>
    BY <1>2 DEF HitsInv
<1>3. ASSUME NEW c \in Calls, NEW t \in ApiTokenIds, Throttle(c, t) PROVE HitsInv'
    <2>1. /\ hits' = [hits EXCEPT ![t] = [Recent(t) EXCEPT ![clock] = @ + 1]]
          /\ let' = [let EXCEPT ![t] = [let[t] EXCEPT ![clock] = @ + 1]]
          /\ UNCHANGED clock
        BY <1>3, ThrottleIs DEF Throttle
    <2>2. clock \in Nat /\ clock \in Times /\ Ttl \in Nat \ {0} /\ Recent(t) \in Counts /\ let[t] \in Counts
        BY TimesFacts, ApiAssumption, RecentFacts DEF ApiTypeOK
    <2>3. ASSUME NEW s \in ApiTokenIds, NEW n \in Times
          PROVE  /\ n + Ttl > clock => let'[s][n] = hits'[s][n]
                 /\ n > clock => hits'[s][n] = 0
        <3>1. CASE s # t
            BY <2>1, <3>1 DEF HitsInv, ApiTypeOK
        <3>2. CASE s = t
            <4>1. hits'[t] = [Recent(t) EXCEPT ![clock] = @ + 1] /\ let'[t] = [let[t] EXCEPT ![clock] = @ + 1]
                BY <2>1 DEF ApiTypeOK
            <4>2. n \in Nat
                BY TimesFacts
            <4>3. n + Ttl > clock => Recent(t)[n] = let[t][n]
                BY RecentFacts DEF HitsInv
            <4>4. n > clock => n # clock /\ n + Ttl > clock /\ Recent(t)[n] = 0
                BY <2>2, <4>2, RecentFacts DEF HitsInv
            <4>5. CASE n = clock
                BY <2>2, <3>2, <4>1, <4>3, <4>5 DEF Counts
            <4>6. CASE n # clock
                BY <2>2, <3>2, <4>1, <4>3, <4>4, <4>6 DEF Counts
            <4> QED BY <4>5, <4>6
        <3> QED BY <3>1, <3>2
    <2> QED BY <2>1, <2>3 DEF HitsInv
<1> QED BY <1>1, <1>2, <1>3 DEF ApiNext, ApiCalls, CreateForUser, RevokeForUser, Cascade,
        Validate, PersistUsage

LEMMA ApiKeepsLimit ==
    ASSUME ApiTypeOK, HitsInv, WithinLimit, ApiNext
    PROVE  WithinLimit'
<1>1. CASE UNCHANGED let
    BY <1>1 DEF WithinLimit, Total
<1>2. ASSUME NEW c \in Calls, NEW t \in ApiTokenIds, Throttle(c, t) PROVE WithinLimit'
    <2> DEFINE new == [let[t] EXCEPT ![clock] = @ + 1]
               now == [Recent(t) EXCEPT ![clock] = @ + 1]
    <2>1. let' = [let EXCEPT ![t] = new] /\ new \in Counts /\ now \in Counts /\ Total(now) <= Limit
        BY <1>2, ThrottleIs
    <2>2. /\ clock \in Times /\ clock \in Nat /\ Ttl \in Nat \ {0} /\ Limit \in Nat \ {0}
          /\ Recent(t) \in Counts /\ let[t] \in Counts
        BY TimesFacts, ApiAssumption, RecentFacts DEF ApiTypeOK
    <2>3. ASSUME NEW s \in ApiTokenIds, NEW n \in Times
          PROVE  Total(Within(let'[s], n)) <= Limit
        <3>1. Total(Within(let[s], n)) <= Limit
            BY DEF WithinLimit, Within
        <3>2. CASE s # t
            BY <2>1, <3>1, <3>2 DEF ApiTypeOK
        <3>3. CASE s = t /\ clock \notin n .. n + Ttl - 1
            <4>1. let'[t] = new
                BY <2>1 DEF ApiTypeOK
            <4>2. \A m \in Times : m # clock => new[m] = let[t][m]
                BY <2>2 DEF Counts
            <4> HIDE DEF new
            <4>3. Within(new, n) = Within(let[t], n)
                BY <3>3, <4>2 DEF Within
            <4> QED BY <3>1, <3>3, <4>1, <4>3
        <3>4. CASE s = t /\ clock \in n .. n + Ttl - 1
            <4>1. let'[t] = new
                BY <2>1 DEF ApiTypeOK
            <4>2. n \in Nat /\ n <= clock /\ clock <= n + Ttl - 1
                BY <2>2, <3>4, TimesFacts
            <4>3. ASSUME NEW m \in Times PROVE Within(new, n)[m] <= now[m]
                <5>1. m \in Nat /\ now[m] \in Nat /\ Recent(t)[m] \in Nat
                    BY <2>1, <2>2, CountFacts, TimesFacts
                <5>2. CASE m \notin n .. n + Ttl - 1
                    BY <5>1, <5>2 DEF Within
                <5>3. CASE m \in n .. n + Ttl - 1
                    <6>1. m + Ttl > clock
                        BY <2>2, <4>2, <5>1, <5>3
                    <6>2. let[t][m] = Recent(t)[m]
                        BY <6>1, RecentFacts DEF HitsInv
                    <6>3. new[m] = now[m]
                        BY <2>2, <6>2 DEF Counts
                    <6> HIDE DEF new, now
                    <6>4. Within(new, n)[m] = new[m]
                        BY <5>3 DEF Within
                    <6> QED BY <5>1, <6>3, <6>4
                <5> QED BY <5>2, <5>3
            <4> HIDE DEF new, now
            <4>4. Within(new, n) \in Counts
                BY <2>1, <2>2 DEF Within, Counts
            <4>5. Total(Within(new, n)) <= Total(now)
                BY <2>1, <4>3, <4>4, TotalGrows
            <4>6. Total(Within(new, n)) \in Nat /\ Total(now) \in Nat
                BY <2>1, <4>4, TotalFacts
            <4> QED BY <2>1, <2>2, <3>4, <4>1, <4>5, <4>6
        <3> QED BY <3>2, <3>3, <3>4
    <2> QED BY <2>3 DEF WithinLimit, Within, Total
<1> QED BY <1>1, <1>2 DEF ApiNext, ApiCalls, Tick, CreateForUser, RevokeForUser, Cascade,
        Validate, PersistUsage
-----------------------------------------------------------------------------
(* The notes of uses *)

\* Another update in the queue is that of the use just noted.
LEMMA UpdateQueued ==
    ASSUME writes \in Seq(ApiTokenIds \X Times), NEW t \in ApiTokenIds,
           writes' = Append(writes, <<t, clock>>)
    PROVE  /\ clock = usage'[t].persisted => PersistedIsWritten(t)'
           /\ \A s \in ApiTokenIds \ {t} :
                 PersistedIsWritten(s) /\ token'[s] = token[s] /\ usage'[s] = usage[s]
                    => PersistedIsWritten(s)'
<1> DEFINE k == Len(writes)
<1>1. k \in Nat /\ DOMAIN writes = 1 .. k
    BY LenProperties
<1>2. /\ DOMAIN writes' = 1 .. k + 1 /\ writes'[k + 1] = <<t, clock>>
      /\ \A i \in 1 .. k : writes'[i] = writes[i]
    BY <1>1
<1> HIDE DEF k
<1>3. /\ k + 1 \in 1 .. k + 1
      /\ \A i \in 1 .. k : i \in 1 .. k + 1 /\ k + 1 > i
      /\ \A i \in 1 .. k + 1 : i \in 1 .. k \/ i = k + 1
    BY <1>1
<1>4. ASSUME clock = usage'[t].persisted PROVE PersistedIsWritten(t)'
    <2>1. \E i \in DOMAIN writes' : writes'[i][1] = t
        BY <1>2, <1>3
    <2>2. ASSUME NEW i \in DOMAIN writes', \A j \in DOMAIN writes' : j > i => writes'[j][1] # t
          PROVE  writes'[i][2] = usage'[t].persisted
        BY <1>2, <1>3, <1>4, <2>2
    <2> QED BY <2>1, <2>2 DEF PersistedIsWritten
<1>5. ASSUME NEW s \in ApiTokenIds \ {t}, PersistedIsWritten(s), token'[s] = token[s],
             usage'[s] = usage[s]
      PROVE  PersistedIsWritten(s)'
    <2>1. ASSUME \A i \in DOMAIN writes' : writes'[i][1] # s
          PROVE  token'[s].lastUsed = usage'[s].persisted
        <3>1. \A i \in DOMAIN writes : writes[i][1] # s
            BY <1>1, <1>2, <1>3, <2>1
        <3> QED BY <1>5, <3>1 DEF PersistedIsWritten
    <2>2. ASSUME NEW i \in DOMAIN writes', writes'[i][1] = s,
                 \A j \in DOMAIN writes' : j > i => writes'[j][1] # s
          PROVE  writes'[i][2] = usage'[s].persisted
        <3>1. i \in 1 .. k /\ writes'[i] = writes[i]
            BY <1>2, <1>3, <2>2
        <3>2. \A j \in DOMAIN writes : j > i => writes[j][1] # s
            BY <1>1, <1>2, <1>3, <2>2
        <3> QED BY <1>1, <1>5, <2>2, <3>1, <3>2 DEF PersistedIsWritten
    <2> QED BY <2>1, <2>2 DEF PersistedIsWritten
<1> QED BY <1>4, <1>5

\* The first update of the queue reaches the row.
LEMMA UpdateDone ==
    ASSUME writes \in Seq(ApiTokenIds \X Times), writes # <<>>, writes' = Tail(writes),
           UNCHANGED usage, NEW s \in ApiTokenIds, PersistedIsWritten(s),
           token'[s].lastUsed = IF Head(writes)[1] = s THEN Head(writes)[2]
                                ELSE token[s].lastUsed
    PROVE  PersistedIsWritten(s)'
<1> DEFINE k == Len(writes)
<1>1. k \in Nat \ {0} /\ DOMAIN writes = 1 .. k /\ Head(writes) = writes[1]
    BY LenProperties
<1>2. DOMAIN writes' = 1 .. k - 1 /\ \A i \in 1 .. k - 1 : writes'[i] = writes[i + 1]
    BY <1>1
<1> HIDE DEF k
<1>3. /\ 1 \in 1 .. k
      /\ \A i \in 1 .. k - 1 : i + 1 \in 1 .. k
      /\ \A i \in 1 .. k : i = 1 \/ i - 1 \in 1 .. k - 1
      /\ \A i \in 1 .. k : i > 1 => i - 1 \in 1 .. k - 1 /\ (i - 1) + 1 = i
      /\ \A i \in 1 .. k - 1, j \in 1 .. k : j > i + 1 => j - 1 \in 1 .. k - 1 /\ j - 1 > i /\ (j - 1) + 1 = j
    BY <1>1
<1>4. ASSUME \A i \in DOMAIN writes' : writes'[i][1] # s
      PROVE  token'[s].lastUsed = usage'[s].persisted
    <2>1. ASSUME NEW i \in 1 .. k, i > 1 PROVE writes[i][1] # s
        <3>1. i - 1 \in 1 .. k - 1 /\ writes'[i - 1] = writes[i]
            BY <1>2, <1>3, <2>1
        <3> QED BY <1>2, <1>4, <3>1
    <2>2. CASE writes[1][1] = s
        <3>1. writes[1][2] = usage[s].persisted
            BY <1>1, <1>3, <2>1, <2>2 DEF PersistedIsWritten
        <3> QED BY <1>1, <2>2, <3>1
    <2>3. CASE writes[1][1] # s
        <3>1. \A i \in 1 .. k : writes[i][1] # s
            BY <1>1, <2>1, <2>3
        <3>2. token[s].lastUsed = usage[s].persisted
            BY <1>1, <3>1 DEF PersistedIsWritten
        <3> QED BY <1>1, <2>3, <3>2
    <2> QED BY <2>2, <2>3
<1>5. ASSUME NEW i \in DOMAIN writes', writes'[i][1] = s,
             \A j \in DOMAIN writes' : j > i => writes'[j][1] # s
      PROVE  writes'[i][2] = usage'[s].persisted
    <2>1. i \in 1 .. k - 1 /\ i + 1 \in 1 .. k /\ writes'[i] = writes[i + 1]
        BY <1>2, <1>3, <1>5
    <2>2. ASSUME NEW j \in 1 .. k, j > i + 1 PROVE writes[j][1] # s
        <3>1. j - 1 \in 1 .. k - 1 /\ j - 1 > i /\ writes'[j - 1] = writes[j]
            BY <1>2, <1>3, <2>1, <2>2
        <3> QED BY <1>2, <1>5, <3>1
    <2> QED BY <1>1, <1>5, <2>1, <2>2 DEF PersistedIsWritten
<1> QED BY <1>4, <1>5 DEF PersistedIsWritten
LEMMA ApiKeepsUsage ==
    ASSUME ApiTypeOK, UsageInv, ApiNext
    PROVE  UsageInv'
<1>1. CASE UNCHANGED <<token, usage, writes, failed>>
    BY <1>1 DEF UsageInv, PersistedIsWritten
<1>2. ASSUME NEW t \in ApiTokenIds, CreateForUser(t) \/ RevokeForUser(t) \/ Cascade(t)
      PROVE  UsageInv'
    <2>1. UNCHANGED <<usage, writes, failed>>
        BY <1>2 DEF CreateForUser, RevokeForUser, Cascade
    <2>2. ASSUME NEW s \in ApiTokenIds
          PROVE  /\ token'[s].lastUsed = token[s].lastUsed
                 /\ token'[s].state = "none" => token[s].state = "none"
                 /\ token'[s].state \in {"live", "revoked"} =>
                       token[s].state \in {"none", "live", "revoked"}
        <3>1. token \in [ApiTokenIds -> TokenRow]
            BY TokenRows
        <3>2. CASE s = t
            BY <1>2, <3>1, <3>2 DEF CreateForUser, RevokeForUser, Cascade, TokenRow
        <3>3. CASE s # t
            BY <1>2, <3>1, <3>3 DEF CreateForUser, RevokeForUser, Cascade
        <3> QED BY <3>2, <3>3
    <2> QED BY <2>1, <2>2 DEF UsageInv, PersistedIsWritten
<1>3. ASSUME NEW c \in Calls, Validate(c), RecordUsage(call[c]), token[call[c]].state = "live"
      PROVE  UsageInv'
    <2>0. PICK t \in ApiTokenIds : t = call[c]
        BY <1>3 DEF Validate, ApiTypeOK
    <2>1. UNCHANGED <<clock, token, failed>> /\ clock \in Times
        BY <1>3 DEF Validate, ApiTypeOK
    <2>2. /\ clock \in Nat /\ clock >= Window /\ Window \in Nat \ {0}
          /\ writes \in Seq(ApiTokenIds \X Times)
          /\ usage \in [ApiTokenIds -> [persisted: Times \cup {0}, seen: Times \cup {0}]]
        BY <2>1, TimesFacts, ApiAssumption DEF ApiTypeOK
    <2>3. usage[t].persisted \in Nat
        <3>1. usage[t] \in [persisted: Times \cup {0}, seen: Times \cup {0}]
            BY <2>2
        <3>2. Times \cup {0} \subseteq Nat
            BY TimesFacts
        <3> QED BY <3>1, <3>2
    <2>4. token[t].state = "live" /\ RecordUsage(t)
        BY <1>3, <2>0
    <2>5. CASE Due(t)
        <3>1. /\ usage' = [usage EXCEPT ![t] = [persisted |-> clock, seen |-> clock]]
              /\ writes' = Append(writes, <<t, clock>>)
            BY <2>4, <2>5 DEF RecordUsage
        <3>2. usage'[t] = [persisted |-> clock, seen |-> clock]
            BY <2>1, <2>2, <3>1
        <3>3. usage'[t].seen < usage'[t].persisted + Window /\ usage'[t].persisted = clock
            BY <2>2, <3>2
        <3>4. PersistedIsWritten(t)'
            <4>1. writes \in Seq(ApiTokenIds \X Times) /\ writes' = Append(writes, <<t, clock>>)
                BY <2>2, <3>1
            <4>2. clock = usage'[t].persisted
                BY <3>3
            <4> QED BY <2>1, <4>1, <4>2, UpdateQueued
        <3>5. \A s \in ApiTokenIds \ {t} : usage'[s] = usage[s] /\ token'[s] = token[s]
            BY <2>1, <2>2, <3>1
        <3>6. \A s \in ApiTokenIds \ {t} : PersistedIsWritten(s) => PersistedIsWritten(s)'
            <4>1. writes \in Seq(ApiTokenIds \X Times) /\ writes' = Append(writes, <<t, clock>>)
                BY <2>2, <3>1
            <4> QED BY <2>1, <3>5, <4>1, UpdateQueued
        <3> QED BY <2>1, <2>4, <3>3, <3>4, <3>5, <3>6 DEF UsageInv
    <2>6. CASE ~Due(t)
        <3>1. usage' = [usage EXCEPT ![t].seen = clock] /\ UNCHANGED writes
            BY <2>4, <2>6 DEF RecordUsage
        <3>2. usage'[t].seen = clock /\ usage'[t].persisted = usage[t].persisted
            BY <2>1, <2>2, <3>1
        <3>3. usage'[t].seen < usage'[t].persisted + Window
            BY <2>2, <2>3, <2>6, <3>2 DEF Due
        <3>4. usage[t] # NoUsage
            BY <2>2, <2>6 DEF Due, NoUsage
        <3>5. \A s \in ApiTokenIds \ {t} : usage'[s] = usage[s]
            BY <2>1, <2>2, <3>1
        <3>6. ASSUME NEW s \in ApiTokenIds, PersistedIsWritten(s) PROVE PersistedIsWritten(s)'
            <4>1. usage'[s].persisted = usage[s].persisted
                BY <3>2, <3>5
            <4> QED BY <2>1, <3>1, <3>6, <4>1 DEF PersistedIsWritten
        <3> QED BY <2>1, <2>4, <3>3, <3>4, <3>5, <3>6 DEF UsageInv
    <2> QED BY <2>5, <2>6
<1>4. ASSUME PersistUsage PROVE UsageInv'
    <2> DEFINE t == Head(writes)[1]
    <2>1. /\ writes \in Seq(ApiTokenIds \X Times) /\ writes # <<>> /\ writes' = Tail(writes)
          /\ UNCHANGED usage
        BY <1>4 DEF PersistUsage, ApiTypeOK
    <2>2. t \in ApiTokenIds
        BY <2>1
    <2>3. CASE /\ token[t].state \in {"live", "revoked"}
               /\ token' = [token EXCEPT ![t].lastUsed = Head(writes)[2]]
               /\ UNCHANGED failed
        <3> HIDE DEF t
        <3>1. ASSUME NEW s \in ApiTokenIds
              PROVE  /\ token'[s].state = token[s].state
                     /\ token'[s].lastUsed = IF t = s THEN Head(writes)[2] ELSE token[s].lastUsed
            <4>1. token \in [ApiTokenIds -> TokenRow]
                BY TokenRows
            <4>2. CASE s = t
                BY <2>3, <4>1, <4>2 DEF TokenRow
            <4>3. CASE s # t
                BY <2>3, <4>1, <4>3
            <4> QED BY <4>2, <4>3
        <3>2. \A s \in ApiTokenIds : PersistedIsWritten(s) => PersistedIsWritten(s)'
            BY <2>1, <3>1, UpdateDone DEF t
        <3> QED BY <2>1, <2>3, <3>1, <3>2 DEF UsageInv
    <2>4. CASE failed' = failed \cup {t} /\ UNCHANGED token
        <3> HIDE DEF t
        <3>1. \A s \in ApiTokenIds : s # t /\ PersistedIsWritten(s) => PersistedIsWritten(s)'
            BY <2>1, <2>4, UpdateDone DEF t
        <3> QED BY <2>1, <2>4, <3>1 DEF UsageInv
    <2> QED BY <1>4, <2>3, <2>4 DEF PersistUsage
<1> QED BY <1>1, <1>2, <1>3, <1>4 DEF ApiNext, ApiCalls, Tick, Throttle, Validate

-----------------------------------------------------------------------------
(* The process *)

ConfigInv == SavesInv /\ CopyInv /\ StartInv
ApiInv == HitsInv /\ WithinLimit /\ UsageInv

ProcessInv == TypeOK /\ ConfigInv /\ ApiInv

LEMMA ConfigSame ==
    ASSUME UNCHANGED <<server, configVars>>
    PROVE  (ConfigTypeOK => ConfigTypeOK') /\ (ConfigInv => ConfigInv')
BY DEF configVars, ConfigTypeOK, ConfigInv, SavesInv, CopyInv, StartInv, InFlight, Current,
       GoesWell, Written

LEMMA ApiSame ==
    ASSUME UNCHANGED apiVars
    PROVE  (ApiTypeOK => ApiTypeOK') /\ (ApiInv => ApiInv')
BY DEF apiVars, ApiTypeOK, ApiInv, HitsInv, WithinLimit, UsageInv, PersistedIsWritten

\* The saves go with the process, and what they have not finished is spoiled.
LEMMA ConfigLostKeeps ==
    ASSUME ConfigTypeOK, ConfigInv, server' = "down", ConfigLost
    PROVE  ConfigTypeOK' /\ ConfigInv'
<1>1. \A r \in Saves : save'[r] = Idle /\ ~InFlight(r)'
    BY DEF ConfigLost, InFlight, Idle
<1>2. ConfigTypeOK'
    <2>1. spoiled' \in BOOLEAN
        BY DEF ConfigLost
    <2> QED BY <1>1, <2>1 DEF ConfigTypeOK, ConfigLost
<1>3. SavesInv'
    BY <1>1 DEF SavesInv, Idle
<1>4. CopyInv'
    BY DEF CopyInv
<1>5. StartInv'
    BY <1>1 DEF StartInv, ConfigLost, ConfigInv
<1> QED BY <1>2, <1>3, <1>4, <1>5 DEF ConfigInv

\* No calls, no limit reached.
LEMMA NoHitsWithinLimit == \A n \in Times : Total(Within(NoHits, n)) <= Limit
<1> SUFFICES ASSUME NEW n \in Times PROVE Total(Within(NoHits, n)) <= Limit
    OBVIOUS
<1>1. \A m \in Times : 1 .. Within(NoHits, n)[m] = {}
    BY DEF Within, NoHits
<1>2. Told(Within(NoHits, n)) = {}
    BY <1>1 DEF Told
<1> QED BY <1>2, FS_EmptySet, ApiAssumption DEF Told, Total

LEMMA ApiLostKeeps ==
    ASSUME ApiTypeOK, ApiLost
    PROVE  ApiTypeOK' /\ ApiInv'
<1>1. NoHits \in Counts
    BY ApiAssumption DEF NoHits, Counts
<1>2. ApiTypeOK'
    BY <1>1 DEF ApiLost, ApiTypeOK, NoUsage
<1>3. HitsInv'
    BY DEF ApiLost, HitsInv, NoHits
<1>4. WithinLimit'
    BY NoHitsWithinLimit DEF ApiLost, WithinLimit, Within
<1>5. UsageInv'
    BY DEF ApiLost, UsageInv
<1> QED BY <1>2, <1>3, <1>4, <1>5 DEF ApiInv

LEMMA InitInv == Init => ProcessInv
<1> SUFFICES ASSUME Init PROVE ProcessInv
    OBVIOUS
<1>1. ConfigTypeOK
    <2>1. accounts \in [admins: 0 .. MaxAdmins, initial: BOOLEAN]
        <3>1. 0 .. 1 \subseteq 0 .. MaxAdmins
            BY ConfigAssumption
        <3> QED BY <3>1 DEF Init, ConfigInit
    <2>2. save \in [Saves -> {Idle}] /\ \A r \in Saves : ~InFlight(r)
        BY DEF Init, ConfigInit, InFlight, Idle
    <2> QED BY <2>1, <2>2 DEF Init, ConfigInit, ConfigTypeOK
<1>2. ConfigInv
    BY DEF Init, ConfigInit, ConfigInv, SavesInv, CopyInv, StartInv, InFlight, Idle
<1>3. NoHits \in Counts /\ Times \subseteq Nat /\ Start \in Times
    BY TimesFacts, ApiAssumption DEF NoHits, Counts
<1>4. ApiTypeOK
    BY <1>3 DEF Init, ApiInit, ApiTypeOK, NoUsage
<1>5. HitsInv
    BY DEF Init, ApiInit, HitsInv, NoHits
<1>6. WithinLimit
    BY NoHitsWithinLimit DEF Init, ApiInit, WithinLimit, Within
<1>7. UsageInv
    BY DEF Init, ApiInit, UsageInv
<1>8. TypeOK
    BY <1>1, <1>4, ProcessAssumption DEF Init, TypeOK
<1> QED BY <1>2, <1>5, <1>6, <1>7, <1>8 DEF ProcessInv, ApiInv

LEMMA NextInv == ProcessInv /\ [Next]_vars => ProcessInv'
<1> SUFFICES ASSUME ProcessInv, [Next]_vars PROVE ProcessInv'
    OBVIOUS
<1> USE DEF ProcessInv, TypeOK, ConfigInv, ApiInv
<1>1. ASSUME ConfigNext, UNCHANGED <<apiVars, work, restarts>> PROVE ProcessInv'
    <2>1. ConfigTypeOK' /\ ConfigInv'
        BY <1>1, ConfigTyped, ConfigKeepsSaves, ConfigKeepsCopy, ConfigKeepsStart
    <2>2. ApiTypeOK' /\ ApiInv'
        BY <1>1, ApiSame
    <2> QED BY <1>1, <2>1, <2>2
<1>2. ASSUME ApiNext, UNCHANGED <<server, configVars, work, restarts>> PROVE ProcessInv'
    <2>1. ApiTypeOK' /\ ApiInv'
        BY <1>2, ApiTyped, ApiKeepsHits, ApiKeepsLimit, ApiKeepsUsage
    <2>2. ConfigTypeOK' /\ ConfigInv'
        BY <1>2, ConfigSame
    <2> QED BY <1>2, <2>1, <2>2
<1>3. ASSUME Restart PROVE ProcessInv'
    <2>1. ConfigTypeOK' /\ ConfigInv'
        BY <1>3, ConfigLostKeeps DEF Restart
    <2>2. ApiTypeOK' /\ ApiInv'
        BY <1>3, ApiLostKeeps DEF Restart
    <2>3. restarts' \in 0 .. MaxRestarts /\ work' \in Work
        BY <1>3, ProcessAssumption DEF Restart
    <2> QED BY <2>1, <2>2, <2>3
<1>4. ASSUME UNCHANGED vars PROVE ProcessInv'
    BY <1>4, ApiSame, ConfigSame DEF vars
<1> QED BY <1>1, <1>2, <1>3, <1>4 DEF Next

LEMMA InvInductive == Spec => []ProcessInv
BY InitInv, NextInv, PTL DEF Spec

\* The configuration in memory and in the database, the saves under way, the
\* counts of the throttler and the notes of the token guard keep their types;
\* a throttler that let one call too many through would leave its own.
THEOREM ServerTypeOK == Spec => []TypeOK
<1>1. ProcessInv => TypeOK
    BY DEF ProcessInv
<1> QED BY <1>1, InvInductive, PTL

\* The copy that every request reads is that of the database whenever nobody
\* is saving, for any number of saves that overlap, fail half way or are
\* killed.  (Without a config.yaml.)
THEOREM CopyTheorem == Spec => []CopyFollows
<1>1. ProcessInv => CopyFollows
    BY DEF ProcessInv, ConfigInv, CopyInv, CopyFollows, InFlight
<1> QED BY <1>1, InvInductive, PTL

\* What is saved one save at a time and in one piece leaves a server that
\* starts, whatever periods there are and however many entries a save has,
\* several for one key among them.
THEOREM StartsTheorem == Spec => []StartsAgain
<1>1. ProcessInv => StartsAgain
    BY DEF ProcessInv, ConfigInv, StartInv, StartsAgain
<1> QED BY <1>1, InvInductive, PTL

\* In no period of Ttl, wherever it begins, does a token get more than Limit
\* calls past the throttler, for every limit, period and number of calls.
THEOREM LimitTheorem == Spec => []WithinLimit
<1>1. ProcessInv => WithinLimit
    BY DEF ProcessInv, ApiInv
<1> QED BY <1>1, InvInductive, PTL

\* The time of last use in a token's row is less than a window behind the last
\* use, unless an update is under way or has failed.
THEOREM UsageTheorem == Spec => []UsageIsRecent
<1>1. ASSUME ProcessInv PROVE UsageIsRecent
    <2> SUFFICES ASSUME NEW t \in ApiTokenIds, token[t].state \in {"live", "revoked"},
                        t \notin failed, usage[t] # NoUsage,
                        \A i \in DOMAIN writes : writes[i][1] # t
                 PROVE  usage[t].seen < token[t].lastUsed + Window
        BY DEF UsageIsRecent
    <2> QED BY <1>1 DEF ProcessInv, ApiInv, UsageInv, PersistedIsWritten
<1> QED BY <1>1, InvInductive, PTL
=============================================================================
