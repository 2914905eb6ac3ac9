----------------------------- MODULE ShareTasks -----------------------------
(***************************************************************************)
(* The two background tasks that completing a share starts and does not    *)
(* wait for: createZip (share.service.ts) and checkAndRemove               *)
(* (clamscan.service.ts).  A rejection in either is only logged (main.ts:  *)
(* "unhandledRejection"), so a task that rejects just ends.  A stream of   *)
(* createZip that cannot open its file emits an 'error' nobody listens     *)
(* for, which may end the process instead: that is a Crash, where a run    *)
(* has crashes, and left out where it has none.                            *)
(***************************************************************************)
EXTENDS ShareStore

CONSTANTS
    Infected,    \* the files ClamAV reports
    ClamActive,  \* whether the ClamAV daemon answered at start-up
    MaxTasks     \* bound: a share is completed only while fewer are in flight

ASSUME TasksAssumption ==
    /\ Infected \subseteq Files
    /\ ClamActive \in BOOLEAN
    /\ MaxTasks \in Nat

VARIABLES
    zips,   \* the archive builders in flight
    scans   \* the virus scans in flight

taskVars == <<zips, scans>>

\* gen tells which directory the builder's stream was opened in.
Zip == [share: Shares, gen: Nat, step: {"snapshot", "write"}, of: SUBSET Files]

(***************************************************************************)
(* A scan: names and temps are the entries of the directory listing not    *)
(* yet looked at (finished files, and "<id>.tmp-chunk" files).             *)
(***************************************************************************)
Scan == [share: Shares, step: {"list", "files", "wipe", "rows", "mark"},
         names: SUBSET Files, temps: SUBSET Files, infected: SUBSET Files]

NewZip(s) == [share |-> s, gen |-> 0, step |-> "snapshot", of |-> {}]

NewScan(s) == [share |-> s, step |-> "list", names |-> {}, temps |-> {},
               infected |-> {}]

TasksTypeOK == zips \subseteq Zip /\ scans \subseteq Scan

TasksInit == zips = {} /\ scans = {}

-----------------------------------------------------------------------------
ZipEnds(z) == zips' = zips \ {z}

ZipBecomes(z, y) == zips' = (zips \ {z}) \cup {y}

(***************************************************************************)
(* createZip reads the File rows, opens archive.zip, which truncates it,   *)
(* and opens every file.  Without the directory, or one of the files, the  *)
(* archive is never finished.  With S3 it returns at once and the          *)
(* continuation marks the archive as ready.                                *)
(***************************************************************************)
ZipSnapshot(z) ==
    /\ z.step = "snapshot"
    /\ \/ /\ Provider = "S3"
          /\ ZipEnds(z)
          /\ db' = IF db[z.share].live
                   THEN [db EXCEPT ![z.share].isZipReady = TRUE] ELSE db
          /\ UNCHANGED store
       \/ /\ Provider = "LOCAL"
          /\ store[z.share].dir
          /\ store' = [store EXCEPT ![z.share].zip = {}]
          /\ IF db[z.share].files \subseteq store[z.share].disk
             THEN ZipBecomes(z, [z EXCEPT !.step = "write", !.of = db[z.share].files,
                                          !.gen = db[z.share].gen])
             ELSE ZipEnds(z)
          /\ UNCHANGED db
       \/ /\ Provider = "LOCAL"
          /\ ~store[z.share].dir
          /\ ZipEnds(z)
          /\ UNCHANGED <<db, store>>
    /\ UNCHANGED <<now, used, scans>>

(***************************************************************************)
(* finalize resolves and isZipReady is set by id.  The bytes reach         *)
(* archive.zip only if the directory the stream was opened in is still     *)
(* there; the update fails if the row is gone.                             *)
(***************************************************************************)
ZipFinish(z) ==
    /\ z.step = "write"
    /\ ZipEnds(z)
    /\ store' = IF store[z.share].dir /\ db[z.share].gen = z.gen
                THEN [store EXCEPT ![z.share].zip = z.of] ELSE store
    /\ db' = IF db[z.share].live
             THEN [db EXCEPT ![z.share].isZipReady = TRUE] ELSE db
    /\ UNCHANGED <<now, used, scans>>

-----------------------------------------------------------------------------
ScanEnds(c) == scans' = scans \ {c}

ScanBecomes(c, d) == scans' = (scans \ {c}) \cup {d}

\* check: readdirSync throws when the directory is gone.
ScanList(c) ==
    /\ c.step = "list"
    /\ IF ClamActive /\ store[c.share].dir
       THEN ScanBecomes(c, [c EXCEPT !.step = "files",
                !.names = IF Provider = "LOCAL" THEN store[c.share].disk ELSE {},
                !.temps = IF Provider = "LOCAL"
                          THEN {f \in Files : store[c.share].tmp[f] # 0} ELSE {}])
       ELSE ScanEnds(c)
    /\ UNCHANGED <<now, db, store, used, zips>>

(***************************************************************************)
(* One round of check's loop on a finished file: a file that is gone       *)
(* counts as clean, and a name without a File row makes ".name" throw.     *)
(***************************************************************************)
ScanFile(c, f) ==
    /\ c.step = "files"
    /\ f \in c.names
    /\ IF f \in db[c.share].files
       THEN ScanBecomes(c, [c EXCEPT !.names = @ \ {f},
                !.infected = IF f \in Infected \cap store[c.share].disk
                             THEN @ \cup {f} ELSE @])
       ELSE ScanEnds(c)
    /\ UNCHANGED <<now, db, store, used, zips>>

\* The same round on a temporary chunk: no File row has that name.
ScanTemp(c) ==
    /\ c.step = "files"
    /\ c.temps # {}
    /\ ScanEnds(c)
    /\ UNCHANGED <<now, db, store, used, zips>>

\* The listing is exhausted: checkAndRemove goes on only with a finding.
ScanVerdict(c) ==
    /\ c.step = "files"
    /\ c.names = {}
    /\ c.temps = {}
    /\ IF c.infected # {} THEN ScanBecomes(c, [c EXCEPT !.step = "wipe"]) ELSE ScanEnds(c)
    /\ UNCHANGED <<now, db, store, used, zips>>

\* deleteAllFiles looks the share up for its provider and fails without a row.
ScanWipe(c) ==
    /\ c.step = "wipe"
    /\ IF db[c.share].live /\ CanWipe(c.share)
       THEN /\ store' = [store EXCEPT ![c.share] = Wiped(c.share)]
            /\ ScanBecomes(c, [c EXCEPT !.step = "rows"])
       ELSE ScanEnds(c) /\ UNCHANGED store
    /\ UNCHANGED <<now, db, used, zips>>

\* file.deleteMany, which succeeds whether or not there are rows.
ScanRows(c) ==
    /\ c.step = "rows"
    /\ db' = [db EXCEPT ![c.share].files = {}]
    /\ ScanBecomes(c, [c EXCEPT !.step = "mark"])
    /\ UNCHANGED <<now, store, used, zips>>

\* removedReason is written last, if the share still exists.
ScanMark(c) ==
    /\ c.step = "mark"
    /\ db' = IF db[c.share].live
             THEN [db EXCEPT ![c.share].removed = TRUE] ELSE db
    /\ ScanEnds(c)
    /\ UNCHANGED <<now, store, used, zips>>

ZipStep == \E z \in zips : ZipSnapshot(z) \/ ZipFinish(z)

ScanStep ==
    \E c \in scans :
        \/ ScanList(c)
        \/ \E f \in Files : ScanFile(c, f)
        \/ ScanTemp(c)
        \/ ScanVerdict(c)
        \/ ScanWipe(c)
        \/ ScanRows(c)
        \/ ScanMark(c)
=============================================================================
