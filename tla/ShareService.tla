---------------------------- MODULE ShareService ----------------------------
(***************************************************************************)
(* The requests of a share's owner (or of an administrator) that change    *)
(* the share: create, complete, revertComplete, update and remove of       *)
(* share.service.ts, with the checks share.controller.ts makes first.  A   *)
(* request that is refused changes nothing and is not a step.              *)
(***************************************************************************)
EXTENDS ShareTasks

CONSTANTS
    Requests,    \* request slots: how many requests may be in flight at once
    Lifetimes,   \* the expirations a client may ask for
    Ops,         \* the operations the clients and the environment use
    None         \* no share, no file

ASSUME ServiceAssumption ==
    /\ Lifetimes \subseteq [absolute: BOOLEAN, at: Nat]
    /\ None \notin Shares \cup Files

VARIABLE req     \* req[r]: what request r has read and where it stands

ShareSteps == {"create:dir", "create:row", "complete:notify", "complete:lock",
               "revert:write", "update:write", "remove:expire", "remove:wipe",
               "remove:row"}

FileSteps == {"upload:append", "upload:rename", "upload:row", "rmfile:unlink",
              "rmfile:row"}

Idle == [step |-> "idle", share |-> None, expiration |-> 0, file |-> None]

Request ==
    {Idle}
    \cup [step: ShareSteps, share: Shares, expiration: Nat, file: {None}]
    \cup [step: FileSteps, share: Shares, expiration: {0}, file: Files]

ServiceTypeOK == req \in [Requests -> Request]

ServiceInit == req = [r \in Requests |-> Idle]

\* The slot r is free and takes up a request op on share s.
Starts(r, op) == op \in Ops /\ req[r].step = "idle"

At(r, step) == req[r].step = step

Ends(r) == req' = [req EXCEPT ![r] = Idle]

Becomes(r, step, s) ==
    req' = [req EXCEPT ![r] = [Idle EXCEPT !.step = step, !.share = s]]

Proceeds(r, step) == req' = [req EXCEPT ![r].step = step]

-----------------------------------------------------------------------------
\* Mutant of ParseRelativeDate: the lifetime is counted backwards.
ParseBackwards(d) == IF d.absolute THEN d.at ELSE now - d.at - 1

(***************************************************************************)
(* A relative date ("2-days") becomes a moment after now; an ISO date is   *)
(* taken as it is, and "never" is the date Never.                          *)
(***************************************************************************)
ParseRelativeDate(d) == IF d.absolute THEN d.at ELSE now + d.at

(***************************************************************************)
(* create compares two Date objects with "==" to recognise "never", which  *)
(* is never true; update compares the moments.                             *)
(***************************************************************************)
ExceedsMaxOnCreate(exp) == MaxExpiration # 0 /\ exp > now + MaxExpiration

ExceedsMaxOnUpdate(exp) ==
    MaxExpiration # 0 /\ (exp = Never \/ exp > now + MaxExpiration)

\* isShareIdAvailable; the password hash and the reverse share are awaited next.
CreateCheck(r, s) ==
    /\ Starts(r, "create")
    /\ ~db[s].live
    /\ db[s].gen < MaxGen
    /\ Becomes(r, "create:dir", s)
    /\ UNCHANGED <<now, db, store, used, taskVars>>

\* The requested lifetime is parsed and validated, then the directory is made.
CreateDir(r, d) ==
    /\ At(r, "create:dir")
    /\ LET s   == req[r].share
           exp == ParseRelativeDate(d)
       IN  IF ExceedsMaxOnCreate(exp)
           THEN Ends(r) /\ UNCHANGED store
           ELSE /\ store' = [store EXCEPT ![s].dir = TRUE]
                /\ req' = [req EXCEPT ![r].step = "create:row", ![r].expiration = exp]
    /\ UNCHANGED <<now, db, used, taskVars>>

\* share.create; a second row with this id breaks the primary key and fails.
CreateRow(r) ==
    /\ At(r, "create:row")
    /\ LET s == req[r].share
       IN  db' = IF db[s].live THEN db
                 ELSE [db EXCEPT ![s] = [NoRow(db[s].gen + 1) EXCEPT
                          !.live = TRUE, !.createdAt = now,
                          !.expiration = req[r].expiration]]
    /\ Ends(r)
    /\ UNCHANGED <<now, store, used, taskVars>>

-----------------------------------------------------------------------------
(***************************************************************************)
(* complete: the checks, and the archive started without waiting for it    *)
(* when the snapshot has several files.                                    *)
(***************************************************************************)
CompleteCheck(r, s) ==
    /\ Starts(r, "complete")
    /\ FilesMutable(s)
    /\ ~db[s].uploadLocked
    /\ db[s].files # {}
    /\ Cardinality(scans) < MaxTasks /\ Cardinality(zips) < MaxTasks
    /\ zips' = IF Cardinality(db[s].files) > 1 THEN zips \cup {NewZip(s)} ELSE zips
    /\ Becomes(r, "complete:notify", s)
    /\ UNCHANGED <<now, db, store, used, scans>>

\* The mails to recipients and reverse-share creator may fail the request;
\* then the scan is started, not awaited.
CompleteNotify(r) ==
    /\ At(r, "complete:notify")
    /\ \/ Ends(r) /\ UNCHANGED scans
       \/ /\ scans' = scans \cup {NewScan(req[r].share)}
          /\ Proceeds(r, "complete:lock")
    /\ UNCHANGED <<now, db, store, used, zips>>

\* The reverse share's remainingUses may fail to decrement; then uploadLocked is set.
CompleteLock(r) ==
    /\ At(r, "complete:lock")
    /\ LET s == req[r].share
       IN  \/ UNCHANGED db
           \/ /\ db[s].live
              /\ db' = [db EXCEPT ![s].uploadLocked = TRUE, ![s].everCompleted = TRUE]
    /\ Ends(r)
    /\ UNCHANGED <<now, store, used, taskVars>>

RevertRead(r, s) ==
    /\ Starts(r, "revert")
    /\ FilesMutable(s)
    /\ Becomes(r, "revert:write", s)
    /\ UNCHANGED <<now, db, store, used, taskVars>>

RevertWrite(r) ==
    /\ At(r, "revert:write")
    /\ LET s == req[r].share
       IN  db' = IF db[s].live
                 THEN [db EXCEPT ![s].uploadLocked = FALSE, ![s].isZipReady = FALSE]
                 ELSE db
    /\ Ends(r)
    /\ UNCHANGED <<now, store, used, taskVars>>

-----------------------------------------------------------------------------
(***************************************************************************)
(* update reads the share, fixes the new expiration and, when a password   *)
(* changes, waits for its hash before the write.  Administrators are not   *)
(* held to the maximum.                                                    *)
(***************************************************************************)
UpdateRead(r, s, d, isAdmin) ==
    /\ Starts(r, "update")
    /\ Editable(s)
    /\ isAdmin \/ ~ExceedsMaxOnUpdate(ParseRelativeDate(d))
    /\ req' = [req EXCEPT ![r] = [Idle EXCEPT !.step = "update:write", !.share = s,
                                      !.expiration = ParseRelativeDate(d)]]
    /\ UNCHANGED <<now, db, store, used, taskVars>>

UpdateWrite(r) ==
    /\ At(r, "update:write")
    /\ LET s == req[r].share
       IN  db' = IF db[s].live
                 THEN [db EXCEPT ![s].expiration = req[r].expiration] ELSE db
    /\ Ends(r)
    /\ UNCHANGED <<now, store, used, taskVars>>

-----------------------------------------------------------------------------
\* remove: the creator's share only expires; an administrator or an anonymous
\* owner deletes it.
RemoveRead(r, s, hard) ==
    /\ Starts(r, IF hard THEN "delete" ELSE "expire")
    /\ db[s].live
    /\ Becomes(r, IF hard THEN "remove:wipe" ELSE "remove:expire", s)
    /\ UNCHANGED <<now, db, store, used, taskVars>>

ExpireWrite(r) ==
    /\ At(r, "remove:expire")
    /\ LET s == req[r].share
       IN  db' = IF db[s].live THEN [db EXCEPT ![s].expiration = now] ELSE db
    /\ Ends(r)
    /\ UNCHANGED <<now, store, used, taskVars>>

RemoveWipe(r) ==
    /\ At(r, "remove:wipe")
    /\ LET s == req[r].share
       IN  IF db[s].live /\ CanWipe(s)
           THEN /\ store' = [store EXCEPT ![s] = Wiped(s)]
                /\ Proceeds(r, "remove:row")
           ELSE Ends(r) /\ UNCHANGED store
    /\ UNCHANGED <<now, db, used, taskVars>>

RemoveRow(r) ==
    /\ At(r, "remove:row")
    /\ IF db[req[r].share].live THEN DeleteRow(req[r].share) ELSE UNCHANGED db
    /\ Ends(r)
    /\ UNCHANGED <<now, store, used, taskVars>>

ServiceStep ==
    \E r \in Requests :
        \/ \E d \in Lifetimes :
               \/ CreateDir(r, d)
               \/ \E s \in Shares, isAdmin \in BOOLEAN : UpdateRead(r, s, d, isAdmin)
        \/ \E s \in Shares :
               \/ CreateCheck(r, s)
               \/ CompleteCheck(r, s)
               \/ RevertRead(r, s)
               \/ \E hard \in BOOLEAN : RemoveRead(r, s, hard)
        \/ CreateRow(r)
        \/ CompleteNotify(r) \/ CompleteLock(r)
        \/ RevertWrite(r)  \/ UpdateWrite(r)
        \/ ExpireWrite(r)  \/ RemoveWipe(r) \/ RemoveRow(r)
=============================================================================
