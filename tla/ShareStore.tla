----------------------------- MODULE ShareStore -----------------------------
(***************************************************************************)
(* What the backend keeps about shares: the Share and File rows of the     *)
(* SQLite database (prisma/schema.prisma) and the share directories on     *)
(* disk, or the objects of the bucket (SHARE_DIRECTORY, S3).  The other    *)
(* modules of the share system read and write these variables, one step   *)
(* per awaited call: between two awaits the single Node.js process runs    *)
(* without interruption, at every await another request, cron run or       *)
(* background task may run.                                                *)
(***************************************************************************)
EXTENDS Integers, FiniteSets

CONSTANTS
    Shares,           \* share ids (chosen by the client, reusable)
    Files,            \* file ids (random UUIDs, used once)
    NameOf,           \* NameOf[f]: the name of file f, standing for itself or
                      \* for another file that has the same name
    Provider,         \* storageProvider of the deployment: "LOCAL" or "S3"
    EditablePeriod,   \* share.expiredEditablePeriod
    RetentionPeriod,  \* share.fileRetentionPeriod
    MaxExpiration,    \* share.maxExpiration, 0 for no limit
    OneDay,           \* the age at which drafts and temporary chunks are stale
    MaxTime,          \* bound: the clock stops here
    MaxGen            \* bound: how often one share id is created

ASSUME StoreAssumption ==
    /\ Provider \in {"LOCAL", "S3"}
    /\ NameOf \in [Files -> Files]
    /\ EditablePeriod \in Nat
    /\ RetentionPeriod \in Nat
    /\ MaxExpiration \in Nat
    /\ OneDay \in Nat
    /\ MaxTime \in Nat \ {0}
    /\ MaxGen \in Nat

\* validateConfigConsistency rejects a configuration that breaks this.
ASSUME ConfigAssumption == EditablePeriod <= RetentionPeriod

VARIABLES
    now,    \* the clock; 0 is the epoch, so moments are 1..MaxTime
    db,     \* db[s]: the row of share s with its File rows
    store,  \* store[s]: the directory of s, or the objects under its prefix
    used    \* the file ids handed out so far

\* moment(0), the expiration of a share that never expires.
Never == 0

(***************************************************************************)
(* A row.  gen counts the rows created under this id and everCompleted     *)
(* remembers a completion: both are history, no action's guard on behalf   *)
(* of the code reads them.                                                 *)
(***************************************************************************)
Row == [live: BOOLEAN, gen: Nat, createdAt: Nat, expiration: Nat,
        uploadLocked: BOOLEAN, isZipReady: BOOLEAN, removed: BOOLEAN,
        files: SUBSET Files, everCompleted: BOOLEAN]

NoRow(gen) == [live |-> FALSE, gen |-> gen, createdAt |-> 0, expiration |-> 0,
               uploadLocked |-> FALSE, isZipReady |-> FALSE, removed |-> FALSE,
               files |-> {}, everCompleted |-> FALSE]

(***************************************************************************)
(* A share's storage: disk holds the keys of the finished files, tmp the   *)
(* time of the last append to each "<id>.tmp-chunk" (0: there is none;     *)
(* with S3 it is the multipart upload held in memory), zip what            *)
(* archive.zip contains.                                                   *)
(***************************************************************************)
Storage == [dir: BOOLEAN, disk: SUBSET Files, tmp: [Files -> Nat],
            zip: SUBSET Files]

NoStorage == [dir |-> FALSE, disk |-> {}, tmp |-> [f \in Files |-> 0], zip |-> {}]

\* The local service stores a file under its id, the S3 service under its name.
Key(f) == IF Provider = "S3" THEN NameOf[f] ELSE f

StoreTypeOK ==
    /\ now \in Nat
    /\ db \in [Shares -> Row]
    /\ store \in [Shares -> Storage]
    /\ used \in SUBSET Files

StoreInit ==
    /\ now = 1
    /\ db = [s \in Shares |-> NoRow(0)]
    /\ store = [s \in Shares |-> NoStorage]
    /\ used = {}

-----------------------------------------------------------------------------
(* shareAccess.util.ts *)

IsShareExpired(row) == now > row.expiration /\ row.expiration # Never

IsShareWithinExpiredEditablePeriod(row) ==
    ~IsShareExpired(row) \/ now <= row.expiration + EditablePeriod

IsShareRemoved(row) == row.removed

(***************************************************************************)
(* getEditableShareEntity and assertShareFilesMutable for a caller the     *)
(* guards have let through: the creator, an administrator or the holder of *)
(* an owner token.                                                         *)
(***************************************************************************)
Editable(s) ==
    /\ db[s].live
    /\ ~IsShareRemoved(db[s])
    /\ IsShareWithinExpiredEditablePeriod(db[s])

FilesMutable(s) == Editable(s) /\ ~IsShareExpired(db[s])

-----------------------------------------------------------------------------
(***************************************************************************)
(* deleteAllFiles: the local service removes the directory and never       *)
(* fails; the S3 service fails when there is nothing under the prefix.     *)
(***************************************************************************)
CanWipe(s) == Provider = "LOCAL" \/ store[s].disk # {}

Wiped(s) ==
    IF Provider = "LOCAL" THEN NoStorage ELSE [store[s] EXCEPT !.disk = {}]

\* share.delete cascades to the File rows.
DeleteRow(s) == db' = [db EXCEPT ![s] = NoRow(db[s].gen)]

Tick ==
    /\ now < MaxTime
    /\ now' = now + 1
    /\ UNCHANGED <<db, store, used>>
=============================================================================
