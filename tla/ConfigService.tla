---------------------------- MODULE ConfigService ----------------------------
(***************************************************************************)
(* The configuration (config.service.ts, config.module.ts): rows in the    *)
(* database, the copy of them the server works with, config.yaml, which    *)
(* overrides the copy and makes it read-only, and the first account it may *)
(* ask for.                                                                *)
(*                                                                         *)
(* A change of several values is validated as a whole against the copy and *)
(* then written value by value, each write followed by a fresh copy.  The  *)
(* one rule that spans two values, that a share must not be editable for   *)
(* longer than its files are kept, is checked again when the server        *)
(* starts, which it then does not.                                         *)
(***************************************************************************)
EXTENDS Naturals, Sequences

CONSTANTS
    Saves,      \* slots for requests that save the configuration
    Batches,    \* what they save: sequences of entries, see Entry
    Periods,    \* the values of both periods, in minutes
    Yamls,      \* what config.yaml may say: see Yaml
    MaxAdmins   \* bound: administrators

VARIABLES
    server,   \* where the process is
    db,       \* the two periods in the database
    copy,     \* configVariables
    yaml,     \* config.yaml
    accounts, \* administrators, and whether the initial user is there
    save,     \* save[r]: updateMany
    spoiled   \* history: a save was cut short, or overlapped by another

configVars == <<db, copy, yaml, accounts, save, spoiled>>

Keys == {"expiredEditablePeriod", "fileRetentionPeriod"}

\* "other" stands for a key that is locked or unknown or whose value has the
\* wrong type: updateMany leaves it to update to find out.
Entry == [key: Keys \cup {"other"}, value: Periods]

\* No file, or the periods it sets and whether it asks for an initial user.
Yaml == [here: BOOLEAN, periods: UNION {[K -> Periods] : K \in SUBSET Keys}, initUser: BOOLEAN]

\* A file that is not there sets nothing; a save of nothing changes nothing.
ASSUME ConfigAssumption ==
    /\ Periods \subseteq Nat
    /\ Batches \subseteq Seq(Entry) \ {<<>>}
    /\ Yamls \subseteq {y \in Yaml : y.here \/ DOMAIN y.periods = {}}
    /\ MaxAdmins \in Nat \ {0}

Idle == [at |-> "idle", batch |-> <<>>, next |-> 1]

InFlight(r) == save[r].at # "idle"

ConfigTypeOK ==
    /\ server \in {"down", "loaded", "up", "noConfig", "noUser"}
    /\ db \in [Keys -> Periods]
    /\ copy \in [Keys -> Periods]
    /\ yaml \in Yamls
    /\ accounts \in [admins: 0 .. MaxAdmins, initial: BOOLEAN]
    /\ save \in [Saves -> {Idle} \cup [at: {"find", "write", "refresh"}, batch: Batches,
                                      next: Nat \ {0}]]
    /\ \A r \in Saves : InFlight(r) => save[r].next <= Len(save[r].batch)
    /\ spoiled \in BOOLEAN

\* validateConfigConsistency; the formats are checked by what sends them.
Consistent(values) == values["expiredEditablePeriod"] <= values["fileRetentionPeriod"]

ConfigInit ==
    /\ server = "down"
    /\ db \in [Keys -> Periods] /\ Consistent(db)
    /\ copy = db
    /\ yaml \in Yamls
    /\ accounts \in [admins: 0 .. 1, initial: {FALSE}]
    /\ save = [r \in Saves |-> Idle]
    /\ spoiled = FALSE

-----------------------------------------------------------------------------
(* initialize *)

\* syncConfigVariables keeps the values; loadYamlConfig puts the file's on top.
Load ==
    /\ server = "down"
    /\ copy' = [k \in Keys |-> IF k \in DOMAIN yaml.periods THEN yaml.periods[k] ELSE db[k]]
    /\ server' = IF Consistent(copy') THEN "loaded" ELSE "noConfig"
    /\ UNCHANGED <<db, yaml, accounts, save, spoiled>>

MakesInitialUser == yaml.here /\ yaml.initUser /\ accounts.admins # 1

\* Unless there is exactly one administrator, the account is made, as an
\* administrator or not (initUser.isAdmin); its address is unique.
MigrateInitUser ==
    /\ server = "loaded"
    /\ \/ ~MakesInitialUser /\ server' = "up" /\ UNCHANGED accounts
       \/ /\ MakesInitialUser /\ ~accounts.initial
          /\ server' = "up"
          /\ \/ /\ accounts.admins < MaxAdmins
                /\ accounts' = [admins |-> accounts.admins + 1, initial |-> TRUE]
             \/ accounts' = [accounts EXCEPT !.initial = TRUE]
       \/ /\ MakesInitialUser /\ accounts.initial
          /\ server' = "noUser"
          /\ UNCHANGED accounts
    /\ UNCHANGED <<db, copy, yaml, save, spoiled>>

\* An administrator makes another.
AddAdmin ==
    /\ server = "up"
    /\ accounts.admins \in 1 .. MaxAdmins - 1
    /\ accounts' = [accounts EXCEPT !.admins = @ + 1]
    /\ UNCHANGED <<server, db, copy, yaml, save, spoiled>>

-----------------------------------------------------------------------------
(* updateMany and update *)

\* The values as they will be: the batch on top of the copy, where of several
\* entries for a key the last one counts.
Applied(values, batch) ==
    [k \in Keys |->
        LET at == {i \in 1 .. Len(batch) : batch[i].key = k}
        IN  IF at = {} THEN values[k]
            ELSE batch[CHOOSE i \in at : \A j \in at : j <= i].value]

\* Mutant of UpdateMany: each value is validated with the others as they are.
UpdateManyByOne(r) ==
    /\ server = "up" /\ ~InFlight(r)
    /\ ~yaml.here
    /\ \E batch \in Batches :
          /\ \A i \in 1 .. Len(batch) : Consistent(Applied(copy, <<batch[i]>>))
          /\ save' = [save EXCEPT ![r] = [at |-> "find", batch |-> batch, next |-> 1]]
    /\ spoiled' = (spoiled \/ \E q \in Saves : InFlight(q))
    /\ UNCHANGED <<server, db, copy, yaml, accounts>>

UpdateMany(r) ==
    /\ server = "up" /\ ~InFlight(r)
    /\ ~yaml.here
    /\ \E batch \in Batches :
          /\ Consistent(Applied(copy, batch))
          /\ save' = [save EXCEPT ![r] = [at |-> "find", batch |-> batch, next |-> 1]]
    /\ spoiled' = (spoiled \/ \E q \in Saves : InFlight(q))
    /\ UNCHANGED <<server, db, copy, yaml, accounts>>

Current(r) == save[r].batch[save[r].next]

\* The row is looked up; an error ends the request, what was written stays.
UpdateFind(r) ==
    /\ save[r].at = "find"
    /\ IF Current(r).key \in Keys
       THEN save' = [save EXCEPT ![r].at = "write"] /\ UNCHANGED spoiled
       ELSE save' = [save EXCEPT ![r] = Idle] /\ spoiled' = TRUE
    /\ UNCHANGED <<server, db, copy, yaml, accounts>>

UpdateWrite(r) ==
    /\ save[r].at = "write"
    /\ db' = [db EXCEPT ![Current(r).key] = Current(r).value]
    /\ save' = [save EXCEPT ![r].at = "refresh"]
    /\ UNCHANGED <<server, copy, yaml, accounts, spoiled>>

Goes(r) ==
    LET s == save[r]
    IN  save' = [save EXCEPT ![r] =
                    IF s.next = Len(s.batch) THEN Idle
                    ELSE [at |-> "find", batch |-> s.batch, next |-> s.next + 1]]

\* Mutant of UpdateRefresh: the copy is renewed once, after the last value.
UpdateRefreshLast(r) ==
    /\ save[r].at = "refresh"
    /\ copy' = IF save[r].next = Len(save[r].batch) THEN db ELSE copy
    /\ Goes(r)
    /\ UNCHANGED <<server, db, yaml, accounts, spoiled>>

UpdateRefresh(r) ==
    /\ save[r].at = "refresh"
    /\ copy' = db
    /\ Goes(r)
    /\ UNCHANGED <<server, db, yaml, accounts, spoiled>>

\* The process ends, with what it was saving, and is started again.
ConfigLost ==
    /\ save' = [r \in Saves |-> Idle]
    /\ spoiled' = (spoiled \/ \E r \in Saves : InFlight(r))
    /\ UNCHANGED <<db, copy, yaml, accounts>>

ConfigNext ==
    \/ Load \/ MigrateInitUser \/ AddAdmin
    \/ \E r \in Saves : UpdateMany(r) \/ UpdateFind(r) \/ UpdateWrite(r) \/ UpdateRefresh(r)

-----------------------------------------------------------------------------
(* What one administrator saves at a time, in one piece, leaves a server   *)
(* that starts: the values of a batch are valid together, and the order    *)
(* they are written in does not matter once all are.  (Without a file.)    *)
StartsAgain == server = "noConfig" => spoiled \/ yaml.here

\* The assertion itself, of the rows nobody is changing.
StoredIsConsistent == (\A r \in Saves : ~InFlight(r)) => Consistent(db)

(* The copy is that of the database whenever nobody is saving, however the *)
(* saves overlapped and wherever an error ended them.                      *)
CopyFollows ==
    (server = "up" /\ ~yaml.here /\ \A r \in Saves : ~InFlight(r)) => copy = db

(* An initial user that has been made once does not keep the server down.  *)
InitialUserOnce == server # "noUser"
=============================================================================
