-------------------------- MODULE ShareSystemProofs -------------------------
(***************************************************************************)
(* Type correctness of the share system; the theorem that the cron job     *)
(* never sweeps what its owner could still be editing; and the theorem     *)
(* that every listed file has its bytes: for any number of shares, files,  *)
(* requests and job runs and any periods with EditablePeriod <=            *)
(* RetentionPeriod.                                                        *)
(***************************************************************************)
EXTENDS ShareSystem, TLAPS

(* Helpers on the record values *)

LEMMA NoRowType == ASSUME NEW g \in Nat PROVE NoRow(g) \in Row
BY DEF NoRow, Row

LEMMA NoStorageType == NoStorage \in Storage
BY DEF NoStorage, Storage

LEMMA WipedType == ASSUME StoreTypeOK, NEW s \in Shares PROVE Wiped(s) \in Storage
BY NoStorageType DEF Wiped, StoreTypeOK, Storage

LEMMA KeyType == ASSUME NEW f \in Files PROVE Key(f) \in Files
BY StoreAssumption DEF Key

LEMMA IdleType == Idle \in Request
BY DEF Request

\* What a request that waits at a step has in hand.
LEMMA InFlight ==
    ASSUME ServiceTypeOK, NEW r \in Requests, NEW st \in ShareSteps \cup FileSteps, At(r, st)
    PROVE  /\ req[r].share \in Shares
           /\ req[r].expiration \in Nat
           /\ st \in FileSteps => req[r].file \in Files
BY DEF ServiceTypeOK, Request, Idle, At, ShareSteps, FileSteps
-----------------------------------------------------------------------------
(* Type correctness, one lemma per component *)

LEMMA ServiceTypes ==
    ASSUME TypeOK, ServiceStep, UNCHANGED job
    PROVE  TypeOK'
<1> USE DEF TypeOK
<1>1. PICK r \in Requests :
          \/ \E d \in Lifetimes :
                 \/ CreateDir(r, d)
                 \/ \E s \in Shares, isAdmin \in BOOLEAN : UpdateRead(r, s, d, isAdmin)
          \/ \E s \in Shares :
                 \/ CreateCheck(r, s)
                 \/ CompleteCheck(r, s)
                 \/ RevertRead(r, s)
                 \/ \E hard \in BOOLEAN : RemoveRead(r, s, hard)
          \/ CreateRow(r)
          \/ CompleteNotify(r) \/ CompleteLock(r)
          \/ RevertWrite(r)  \/ UpdateWrite(r)
          \/ ExpireWrite(r)  \/ RemoveWipe(r) \/ RemoveRow(r)
    BY DEF ServiceStep
<1>2. ASSUME NEW s \in Shares, CreateCheck(r, s)
      PROVE  TypeOK'
    <2>1. ServiceTypeOK'
        BY <1>2
        DEF CreateCheck, ServiceTypeOK, Request, Idle, ShareSteps, FileSteps, Becomes
    <2>2. QED BY <1>2, <2>1
        DEF CreateCheck, TypeOK, StoreTypeOK, TasksTypeOK, ServiceTypeOK, JobsTypeOK, taskVars
<1>3. ASSUME NEW d \in Lifetimes, CreateDir(r, d)
      PROVE  TypeOK'
    <2>1. req[r].share \in Shares
        BY <1>3, InFlight DEF CreateDir, At, ShareSteps, FileSteps
    <2>2. ParseRelativeDate(d) \in Nat
        BY <1>3, <2>1, ServiceAssumption DEF CreateDir, ParseRelativeDate, StoreTypeOK
    <2>3. PICK s \in Shares :
              store' = store \/ store' = [store EXCEPT ![s].dir = TRUE]
        BY <1>3, <2>1 DEF CreateDir
    <2>4. [store EXCEPT ![s].dir = TRUE] \in [Shares -> Storage]
        BY DEF StoreTypeOK, Storage
    <2>5. store' \in [Shares -> Storage]
        BY <2>3, <2>4 DEF StoreTypeOK
    <2>6. ServiceTypeOK'
        BY <1>3, <2>1, <2>2
        DEF CreateDir, ServiceTypeOK, Request, Idle, ShareSteps, FileSteps, Ends, At
    <2>7. QED BY <1>3, <2>1, <2>2, <2>5, <2>6
        DEF CreateDir, TypeOK, StoreTypeOK, TasksTypeOK, ServiceTypeOK, JobsTypeOK, taskVars
<1>4. CASE CreateRow(r)
    <2>1. req[r].share \in Shares /\ req[r].expiration \in Nat
        BY <1>4, InFlight DEF CreateRow, At, ShareSteps, FileSteps
    <2>2. PICK s \in Shares, e \in Nat : s = req[r].share /\ e = req[r].expiration
        BY <2>1
    <2>3. PICK n \in Nat : n = db[s].gen + 1
        BY DEF StoreTypeOK, Row
    <2>4. [NoRow(n) EXCEPT !.live = TRUE, !.createdAt = now, !.expiration = e] \in Row
        BY DEF StoreTypeOK, NoRow, Row
    <2>5. db' \in [Shares -> Row]
        BY <1>4, <2>2, <2>3, <2>4 DEF CreateRow, StoreTypeOK
    <2>6. ServiceTypeOK'
        BY <1>4, <2>1
        DEF CreateRow, ServiceTypeOK, Request, Idle, ShareSteps, FileSteps, Ends
    <2>7. QED BY <1>4, <2>1, <2>2, <2>3, <2>4, <2>5, <2>6
        DEF CreateRow, TypeOK, StoreTypeOK, TasksTypeOK, ServiceTypeOK, JobsTypeOK, taskVars
<1>5. ASSUME NEW s \in Shares, CompleteCheck(r, s)
      PROVE  TypeOK'
    <2>1. zips' \subseteq Zip
        BY <1>5 DEF CompleteCheck, TasksTypeOK, StoreTypeOK, Row, Zip, NewZip
    <2>2. ServiceTypeOK'
        BY <1>5
        DEF CompleteCheck, ServiceTypeOK, Request, Idle, ShareSteps, FileSteps, Becomes
    <2>3. QED BY <1>5, <2>1, <2>2
        DEF CompleteCheck, TypeOK, StoreTypeOK, TasksTypeOK, ServiceTypeOK, JobsTypeOK
<1>6. CASE CompleteNotify(r)
    <2>1. req[r].share \in Shares
        BY <1>6, InFlight DEF CompleteNotify, At, ShareSteps, FileSteps
    <2>2. scans' \subseteq Scan
        BY <1>6, <2>1
        DEF CompleteNotify, TasksTypeOK, StoreTypeOK, Storage, Scan, NewScan
    <2>3. ServiceTypeOK'
        BY <1>6, <2>1
        DEF CompleteNotify, ServiceTypeOK, Request, Idle, ShareSteps, FileSteps, Ends, Proceeds, At
    <2>4. QED BY <1>6, <2>1, <2>2, <2>3
        DEF CompleteNotify, TypeOK, StoreTypeOK, TasksTypeOK, ServiceTypeOK, JobsTypeOK
<1>7. CASE CompleteLock(r)
    <2>1. req[r].share \in Shares
        BY <1>7, InFlight DEF CompleteLock, At, ShareSteps, FileSteps
    <2>2. PICK s \in Shares :
              db' = db \/ db' = [db EXCEPT ![s].uploadLocked = TRUE, ![s].everCompleted = TRUE]
        BY <1>7, <2>1 DEF CompleteLock
    <2>3. [db EXCEPT ![s].uploadLocked = TRUE, ![s].everCompleted = TRUE] \in [Shares -> Row]
        BY DEF StoreTypeOK, Row
    <2>4. db' \in [Shares -> Row]
        BY <2>2, <2>3 DEF StoreTypeOK
    <2>5. ServiceTypeOK'
        BY <1>7, <2>1
        DEF CompleteLock, ServiceTypeOK, Request, Idle, ShareSteps, FileSteps, Ends
    <2>6. QED BY <1>7, <2>1, <2>4, <2>5
        DEF CompleteLock, TypeOK, StoreTypeOK, TasksTypeOK, ServiceTypeOK, JobsTypeOK, taskVars
<1>8. ASSUME NEW s \in Shares, RevertRead(r, s)
      PROVE  TypeOK'
    <2>1. ServiceTypeOK'
        BY <1>8
        DEF RevertRead, ServiceTypeOK, Request, Idle, ShareSteps, FileSteps, Becomes
    <2>2. QED BY <1>8, <2>1
        DEF RevertRead, TypeOK, StoreTypeOK, TasksTypeOK, ServiceTypeOK, JobsTypeOK, taskVars
<1>9. CASE RevertWrite(r)
    <2>1. req[r].share \in Shares
        BY <1>9, InFlight DEF RevertWrite, At, ShareSteps, FileSteps
    <2>2. PICK s \in Shares :
              db' = db \/ db' = [db EXCEPT ![s].uploadLocked = FALSE, ![s].isZipReady = FALSE]
        BY <1>9, <2>1 DEF RevertWrite
    <2>3. [db EXCEPT ![s].uploadLocked = FALSE, ![s].isZipReady = FALSE] \in [Shares -> Row]
        BY DEF StoreTypeOK, Row
    <2>4. db' \in [Shares -> Row]
        BY <2>2, <2>3 DEF StoreTypeOK
    <2>5. ServiceTypeOK'
        BY <1>9, <2>1
        DEF RevertWrite, ServiceTypeOK, Request, Idle, ShareSteps, FileSteps, Ends
    <2>6. QED BY <1>9, <2>1, <2>4, <2>5
        DEF RevertWrite, TypeOK, StoreTypeOK, TasksTypeOK, ServiceTypeOK, JobsTypeOK, taskVars
<1>10. ASSUME NEW d \in Lifetimes, NEW s \in Shares, NEW a \in BOOLEAN, UpdateRead(r, s, d, a)
       PROVE  TypeOK'
    <2>1. ParseRelativeDate(d) \in Nat
        BY <1>10, ServiceAssumption DEF UpdateRead, ParseRelativeDate, StoreTypeOK
    <2>2. ServiceTypeOK'
        BY <1>10, <2>1
        DEF UpdateRead, ServiceTypeOK, Request, Idle, ShareSteps, FileSteps
    <2>3. QED BY <1>10, <2>1, <2>2
        DEF UpdateRead, TypeOK, StoreTypeOK, TasksTypeOK, ServiceTypeOK, JobsTypeOK, taskVars
<1>11. CASE UpdateWrite(r)
    <2>1. req[r].share \in Shares /\ req[r].expiration \in Nat
        BY <1>11, InFlight DEF UpdateWrite, At, ShareSteps, FileSteps
    <2>2. PICK s \in Shares, e \in Nat :
              db' = db \/ db' = [db EXCEPT ![s].expiration = e]
        BY <1>11, <2>1 DEF UpdateWrite
    <2>3. [db EXCEPT ![s].expiration = e] \in [Shares -> Row]
        BY DEF StoreTypeOK, Row
    <2>4. db' \in [Shares -> Row]
        BY <2>2, <2>3 DEF StoreTypeOK
    <2>5. ServiceTypeOK'
        BY <1>11, <2>1
        DEF UpdateWrite, ServiceTypeOK, Request, Idle, ShareSteps, FileSteps, Ends
    <2>6. QED BY <1>11, <2>1, <2>4, <2>5
        DEF UpdateWrite, TypeOK, StoreTypeOK, TasksTypeOK, ServiceTypeOK, JobsTypeOK, taskVars
<1>12. ASSUME NEW s \in Shares, NEW h \in BOOLEAN, RemoveRead(r, s, h)
       PROVE  TypeOK'
    <2>1. ServiceTypeOK'
        BY <1>12
        DEF RemoveRead, ServiceTypeOK, Request, Idle, ShareSteps, FileSteps, Becomes
    <2>2. QED BY <1>12, <2>1
        DEF RemoveRead, TypeOK, StoreTypeOK, TasksTypeOK, ServiceTypeOK, JobsTypeOK, taskVars
<1>13. CASE ExpireWrite(r)
    <2>1. req[r].share \in Shares
        BY <1>13, InFlight DEF ExpireWrite, At, ShareSteps, FileSteps
    <2>2. now \in Nat
        BY DEF StoreTypeOK
    <2>3. PICK s \in Shares :
              db' = db \/ db' = [db EXCEPT ![s].expiration = now]
        BY <1>13, <2>1 DEF ExpireWrite
    <2>4. [db EXCEPT ![s].expiration = now] \in [Shares -> Row]
        BY <2>2 DEF StoreTypeOK, Row
    <2>5. db' \in [Shares -> Row]
        BY <2>3, <2>4 DEF StoreTypeOK
    <2>6. ServiceTypeOK'
        BY <1>13, <2>1
        DEF ExpireWrite, ServiceTypeOK, Request, Idle, ShareSteps, FileSteps, Ends
    <2>7. QED BY <1>13, <2>1, <2>2, <2>5, <2>6
        DEF ExpireWrite, TypeOK, StoreTypeOK, TasksTypeOK, ServiceTypeOK, JobsTypeOK, taskVars
<1>14. CASE RemoveWipe(r)
    <2>1. req[r].share \in Shares
        BY <1>14, InFlight DEF RemoveWipe, At, ShareSteps, FileSteps
    <2>2. store' \in [Shares -> Storage]
        BY <1>14, <2>1, WipedType DEF RemoveWipe, StoreTypeOK, Storage
    <2>3. ServiceTypeOK'
        BY <1>14, <2>1
        DEF RemoveWipe, ServiceTypeOK, Request, Idle, ShareSteps, FileSteps, Ends, Proceeds, At
    <2>4. QED BY <1>14, <2>1, <2>2, <2>3
        DEF RemoveWipe, TypeOK, StoreTypeOK, TasksTypeOK, ServiceTypeOK, JobsTypeOK, taskVars
<1>15. CASE RemoveRow(r)
    <2>1. req[r].share \in Shares
        BY <1>15, InFlight DEF RemoveRow, At, ShareSteps, FileSteps
    <2>2. PICK s \in Shares :
              db' = db \/ db' = [db EXCEPT ![s] = NoRow(db[s].gen)]
        BY <1>15, <2>1 DEF RemoveRow, DeleteRow
    <2>3. [db EXCEPT ![s] = NoRow(db[s].gen)] \in [Shares -> Row]
        BY NoRowType DEF StoreTypeOK, Row
    <2>4. db' \in [Shares -> Row]
        BY <2>2, <2>3 DEF StoreTypeOK
    <2>5. ServiceTypeOK'
        BY <1>15, <2>1
        DEF RemoveRow, ServiceTypeOK, Request, Idle, ShareSteps, FileSteps, Ends
    <2>6. QED BY <1>15, <2>1, <2>4, <2>5
        DEF RemoveRow, TypeOK, StoreTypeOK, TasksTypeOK, ServiceTypeOK, JobsTypeOK, taskVars
<1>16. QED BY <1>1, <1>2, <1>3, <1>4, <1>5, <1>6, <1>7, <1>8, <1>9, <1>10,
              <1>11, <1>12, <1>13, <1>14, <1>15

LEMMA FileTypes ==
    ASSUME TypeOK, FileStep, UNCHANGED job
    PROVE  TypeOK'
<1> USE DEF TypeOK
<1>1. PICK r \in Requests :
          \/ \E s \in Shares, f \in Files : UploadCheck(r, s, f) \/ RemoveFileRead(r, s, f)
          \/ \E last \in BOOLEAN : UploadAppend(r, last)
          \/ UploadRename(r)     \/ UploadRow(r)
          \/ RemoveFileUnlink(r) \/ RemoveFileRow(r)
    BY DEF FileStep
<1>2. ASSUME NEW s \in Shares, NEW f \in Files, UploadCheck(r, s, f)
      PROVE  TypeOK'
    <2>1. ServiceTypeOK'
        BY <1>2 DEF UploadCheck, ServiceTypeOK, Request, Idle, ShareSteps, FileSteps
    <2>2. QED BY <1>2, <2>1
        DEF UploadCheck, TypeOK, StoreTypeOK, TasksTypeOK, ServiceTypeOK, JobsTypeOK, taskVars
<1>3. ASSUME NEW last \in BOOLEAN, UploadAppend(r, last)
      PROVE  TypeOK'
    <2>1. req[r].share \in Shares /\ req[r].file \in Files
        BY <1>3, InFlight DEF UploadAppend, At, ShareSteps, FileSteps
    <2>2. PICK s \in Shares, f \in Files :
              store' = store \/ store' = [store EXCEPT ![s].tmp[f] = now]
        BY <1>3, <2>1 DEF UploadAppend
    <2>3. [store EXCEPT ![s].tmp[f] = now] \in [Shares -> Storage]
        BY DEF StoreTypeOK, Storage
    <2>4. store' \in [Shares -> Storage]
        BY <2>2, <2>3 DEF StoreTypeOK
    <2>5. ServiceTypeOK'
        BY <1>3, <2>1
        DEF UploadAppend, ServiceTypeOK, Request, Idle, ShareSteps, FileSteps, Ends, Proceeds, At
    <2>6. QED BY <1>3, <2>1, <2>4, <2>5
        DEF UploadAppend, TypeOK, StoreTypeOK, TasksTypeOK, ServiceTypeOK, JobsTypeOK, taskVars
<1>4. CASE UploadRename(r)
    <2>1. req[r].share \in Shares /\ req[r].file \in Files
        BY <1>4, InFlight DEF UploadRename, At, ShareSteps, FileSteps
    <2>2. PICK s \in Shares, f \in Files :
              store' = store \/ store' = [store EXCEPT ![s].tmp[f] = 0, ![s].disk = @ \cup {Key(f)}]
        BY <1>4, <2>1 DEF UploadRename
    <2>3. [store EXCEPT ![s].tmp[f] = 0, ![s].disk = @ \cup {Key(f)}] \in [Shares -> Storage]
        BY KeyType DEF StoreTypeOK, Storage
    <2>4. store' \in [Shares -> Storage]
        BY <2>2, <2>3 DEF StoreTypeOK
    <2>5. ServiceTypeOK'
        BY <1>4, <2>1
        DEF UploadRename, ServiceTypeOK, Request, Idle, ShareSteps, FileSteps, Ends, Proceeds, At
    <2>6. QED BY <1>4, <2>1, <2>4, <2>5
        DEF UploadRename, TypeOK, StoreTypeOK, TasksTypeOK, ServiceTypeOK, JobsTypeOK, taskVars
<1>5. CASE UploadRow(r)
    <2>1. req[r].share \in Shares /\ req[r].file \in Files
        BY <1>5, InFlight DEF UploadRow, At, ShareSteps, FileSteps
    <2>2. PICK s \in Shares, f \in Files :
              db' = db \/ db' = [db EXCEPT ![s].files = @ \cup {f}]
        BY <1>5, <2>1 DEF UploadRow
    <2>3. [db EXCEPT ![s].files = @ \cup {f}] \in [Shares -> Row]
        BY DEF StoreTypeOK, Row
    <2>4. db' \in [Shares -> Row]
        BY <2>2, <2>3 DEF StoreTypeOK
    <2>5. ServiceTypeOK'
        BY <1>5, <2>1
        DEF UploadRow, ServiceTypeOK, Request, Idle, ShareSteps, FileSteps, Ends
    <2>6. QED BY <1>5, <2>1, <2>4, <2>5
        DEF UploadRow, TypeOK, StoreTypeOK, TasksTypeOK, ServiceTypeOK, JobsTypeOK, taskVars
<1>6. ASSUME NEW s \in Shares, NEW f \in Files, RemoveFileRead(r, s, f)
      PROVE  TypeOK'
    <2>1. ServiceTypeOK'
        BY <1>6 DEF RemoveFileRead, ServiceTypeOK, Request, Idle, ShareSteps, FileSteps
    <2>2. QED BY <1>6, <2>1
        DEF RemoveFileRead, TypeOK, StoreTypeOK, TasksTypeOK, ServiceTypeOK, JobsTypeOK, taskVars
<1>7. CASE RemoveFileUnlink(r)
    <2>1. req[r].share \in Shares /\ req[r].file \in Files
        BY <1>7, InFlight DEF RemoveFileUnlink, At, ShareSteps, FileSteps
    <2>2. PICK s \in Shares, f \in Files :
              store' = store \/ store' = [store EXCEPT ![s].disk = @ \ {Key(f)}]
        BY <1>7, <2>1 DEF RemoveFileUnlink
    <2>3. [store EXCEPT ![s].disk = @ \ {Key(f)}] \in [Shares -> Storage]
        BY DEF StoreTypeOK, Storage
    <2>4. store' \in [Shares -> Storage]
        BY <2>2, <2>3 DEF StoreTypeOK
    <2>5. ServiceTypeOK'
        BY <1>7, <2>1
        DEF RemoveFileUnlink, ServiceTypeOK, Request, Idle, ShareSteps, FileSteps, Ends, Proceeds, At
    <2>6. QED BY <1>7, <2>1, <2>4, <2>5
        DEF RemoveFileUnlink, TypeOK, StoreTypeOK, TasksTypeOK, ServiceTypeOK, JobsTypeOK, taskVars
<1>8. CASE RemoveFileRow(r)
    <2>1. req[r].share \in Shares /\ req[r].file \in Files
        BY <1>8, InFlight DEF RemoveFileRow, At, ShareSteps, FileSteps
    <2>2. PICK s \in Shares, f \in Files :
              db' = db \/ db' = [db EXCEPT ![s].files = @ \ {f}]
        BY <1>8, <2>1 DEF RemoveFileRow
    <2>3. [db EXCEPT ![s].files = @ \ {f}] \in [Shares -> Row]
        BY DEF StoreTypeOK, Row
    <2>4. db' \in [Shares -> Row]
        BY <2>2, <2>3 DEF StoreTypeOK
    <2>5. ServiceTypeOK'
        BY <1>8, <2>1
        DEF RemoveFileRow, ServiceTypeOK, Request, Idle, ShareSteps, FileSteps, Ends
    <2>6. QED BY <1>8, <2>1, <2>4, <2>5
        DEF RemoveFileRow, TypeOK, StoreTypeOK, TasksTypeOK, ServiceTypeOK, JobsTypeOK, taskVars
<1>9. QED BY <1>1, <1>2, <1>3, <1>4, <1>5, <1>6, <1>7, <1>8

LEMMA ZipTypes ==
    ASSUME TypeOK, ZipStep, UNCHANGED <<req, job>>
    PROVE  TypeOK'
<1> USE DEF TypeOK
<1>1. PICK z \in zips : ZipSnapshot(z) \/ ZipFinish(z)
    BY DEF ZipStep
<1>2. CASE ZipSnapshot(z)
    <2>1. z \in Zip
        BY DEF TasksTypeOK
    <2>2. z.share \in Shares
        BY <2>1 DEF Zip
    <2>3. PICK s \in Shares : s = z.share
        BY <2>2
    <2>4. db' = db \/ db' = [db EXCEPT ![s].isZipReady = TRUE]
        BY <1>2, <2>1, <2>2, <2>3 DEF ZipSnapshot
    <2>5. [db EXCEPT ![s].isZipReady = TRUE] \in [Shares -> Row]
        BY DEF StoreTypeOK, Row
    <2>6. db' \in [Shares -> Row]
        BY <2>4, <2>5 DEF StoreTypeOK
    <2>7. store' = store \/ store' = [store EXCEPT ![s].zip = {}]
        BY <1>2, <2>1, <2>2, <2>3, <2>6 DEF ZipSnapshot
    <2>8. [store EXCEPT ![s].zip = {}] \in [Shares -> Storage]
        BY DEF StoreTypeOK, Storage
    <2>9. store' \in [Shares -> Storage]
        BY <2>7, <2>8 DEF StoreTypeOK
    <2>10. [z EXCEPT !.step = "write", !.of = db[z.share].files, !.gen = db[z.share].gen] \in Zip
        BY <2>1, <2>2 DEF Zip, StoreTypeOK, Row
    <2>11. zips' \subseteq Zip
        BY <1>2, <2>10 DEF ZipSnapshot, ZipEnds, ZipBecomes, TasksTypeOK
    <2>12. QED BY <1>2, <2>1, <2>2, <2>3, <2>6, <2>9, <2>10, <2>11
        DEF ZipSnapshot, TypeOK, StoreTypeOK, TasksTypeOK, ServiceTypeOK, JobsTypeOK
<1>3. CASE ZipFinish(z)
    <2>1. z \in Zip
        BY DEF TasksTypeOK
    <2>2. PICK s \in Shares, F \in SUBSET Files : s = z.share /\ F = z.of
        BY <2>1 DEF Zip
    <2>3. db' = db \/ db' = [db EXCEPT ![s].isZipReady = TRUE]
        BY <1>3, <2>1, <2>2 DEF ZipFinish
    <2>4. [db EXCEPT ![s].isZipReady = TRUE] \in [Shares -> Row]
        BY DEF StoreTypeOK, Row
    <2>5. db' \in [Shares -> Row]
        BY <2>3, <2>4 DEF StoreTypeOK
    <2>6. store' = store \/ store' = [store EXCEPT ![s].zip = F]
        BY <1>3, <2>1, <2>2, <2>5 DEF ZipFinish
    <2>7. [store EXCEPT ![s].zip = F] \in [Shares -> Storage]
        BY DEF StoreTypeOK, Storage
    <2>8. store' \in [Shares -> Storage]
        BY <2>6, <2>7 DEF StoreTypeOK
    <2>9. zips' \subseteq Zip
        BY <1>3 DEF ZipFinish, TasksTypeOK, StoreTypeOK, Row, Zip, ZipEnds
    <2>10. QED BY <1>3, <2>1, <2>2, <2>5, <2>8, <2>9
        DEF ZipFinish, TypeOK, StoreTypeOK, TasksTypeOK, ServiceTypeOK, JobsTypeOK
<1>4. QED BY <1>1, <1>2, <1>3

LEMMA ScanTypes ==
    ASSUME TypeOK, ScanStep, UNCHANGED <<req, job>>
    PROVE  TypeOK'
<1> USE DEF TypeOK
<1>1. PICK c \in scans :
          \/ ScanList(c)
          \/ \E f \in Files : ScanFile(c, f)
          \/ ScanTemp(c)
          \/ ScanVerdict(c)
          \/ ScanWipe(c)
          \/ ScanRows(c)
          \/ ScanMark(c)
    BY DEF ScanStep
<1>2. CASE ScanList(c)
    <2>1. c \in Scan
        BY <1>2 DEF ScanList, TasksTypeOK
    <2>2. c.share \in Shares
        BY <2>1 DEF Scan
    <2>3. store[c.share].disk \in SUBSET Files
        BY <2>2 DEF StoreTypeOK, Storage
    <2>4. {f \in Files : store[c.share].tmp[f] # 0} \in SUBSET Files
        BY SMT
    <2>5. \A N \in SUBSET Files, T \in SUBSET Files :
              [c EXCEPT !.step = "files", !.names = N, !.temps = T] \in Scan
        BY <2>1 DEF Scan
    <2>6. [c EXCEPT !.step = "files",
                    !.names = IF Provider = "LOCAL" THEN store[c.share].disk ELSE {},
                    !.temps = IF Provider = "LOCAL"
                              THEN {f \in Files : store[c.share].tmp[f] # 0} ELSE {}] \in Scan
        BY <2>3, <2>4, <2>5
    <2>7. scans' \subseteq Scan
        BY <1>2, <2>6
        DEF ScanList, ScanEnds, ScanBecomes, TasksTypeOK
    <2>8. QED BY <1>2, <2>1, <2>2, <2>3, <2>4, <2>5, <2>6, <2>7
        DEF ScanList, TypeOK, StoreTypeOK, TasksTypeOK, ServiceTypeOK, JobsTypeOK
<1>3. ASSUME NEW f \in Files, ScanFile(c, f)
      PROVE  TypeOK'
    <2>1. c \in Scan
        BY <1>3 DEF ScanFile, TasksTypeOK
    <2>2. [c EXCEPT !.names = @ \ {f}, !.infected = IF f \in Infected \cap store[c.share].disk
                                               THEN @ \cup {f} ELSE @] \in Scan
        BY <2>1 DEF Scan
    <2>3. scans' \subseteq Scan
        BY <1>3, <2>2 DEF ScanFile, ScanEnds, ScanBecomes, TasksTypeOK
    <2>4. QED BY <1>3, <2>1, <2>2, <2>3
        DEF ScanFile, TypeOK, StoreTypeOK, TasksTypeOK, ServiceTypeOK, JobsTypeOK
<1>4. CASE ScanTemp(c)
    <2>1. scans' \subseteq Scan
        BY <1>4 DEF ScanTemp, TasksTypeOK, StoreTypeOK, Storage, Scan, ScanEnds
    <2>2. QED BY <1>4, <2>1
        DEF ScanTemp, TypeOK, StoreTypeOK, TasksTypeOK, ServiceTypeOK, JobsTypeOK
<1>5. CASE ScanVerdict(c)
    <2>1. c \in Scan
        BY <1>5 DEF ScanVerdict, TasksTypeOK
    <2>2. scans' \subseteq Scan
        BY <1>5, <2>1
        DEF ScanVerdict, TasksTypeOK, StoreTypeOK, Storage, Scan, ScanEnds, ScanBecomes
    <2>3. QED BY <1>5, <2>1, <2>2
        DEF ScanVerdict, TypeOK, StoreTypeOK, TasksTypeOK, ServiceTypeOK, JobsTypeOK
<1>6. CASE ScanWipe(c)
    <2>1. c \in Scan
        BY <1>6 DEF ScanWipe, TasksTypeOK
    <2>2. store' \in [Shares -> Storage]
        BY <1>6, <2>1, WipedType DEF ScanWipe, StoreTypeOK, Storage, Scan
    <2>3. [c EXCEPT !.step = "rows"] \in Scan
        BY <2>1 DEF Scan
    <2>4. scans' \subseteq Scan
        BY <1>6, <2>3 DEF ScanWipe, ScanEnds, ScanBecomes, TasksTypeOK
    <2>5. QED BY <1>6, <2>1, <2>2, <2>3, <2>4
        DEF ScanWipe, TypeOK, StoreTypeOK, TasksTypeOK, ServiceTypeOK, JobsTypeOK
<1>7. CASE ScanRows(c)
    <2>1. c \in Scan
        BY <1>7 DEF ScanRows, TasksTypeOK
    <2>2. PICK s \in Shares : s = c.share
        BY <2>1 DEF Scan
    <2>3. db' = db \/ db' = [db EXCEPT ![s].files = {}]
        BY <1>7, <2>1, <2>2 DEF ScanRows
    <2>4. [db EXCEPT ![s].files = {}] \in [Shares -> Row]
        BY DEF StoreTypeOK, Row
    <2>5. db' \in [Shares -> Row]
        BY <2>3, <2>4 DEF StoreTypeOK
    <2>6. scans' \subseteq Scan
        BY <1>7, <2>1 DEF ScanRows, TasksTypeOK, StoreTypeOK, Storage, Scan, ScanBecomes
    <2>7. QED BY <1>7, <2>1, <2>2, <2>5, <2>6
        DEF ScanRows, TypeOK, StoreTypeOK, TasksTypeOK, ServiceTypeOK, JobsTypeOK
<1>8. CASE ScanMark(c)
    <2>1. c \in Scan
        BY <1>8 DEF ScanMark, TasksTypeOK
    <2>2. PICK s \in Shares : s = c.share
        BY <2>1 DEF Scan
    <2>3. db' = db \/ db' = [db EXCEPT ![s].removed = TRUE]
        BY <1>8, <2>1, <2>2 DEF ScanMark
    <2>4. [db EXCEPT ![s].removed = TRUE] \in [Shares -> Row]
        BY DEF StoreTypeOK, Row
    <2>5. db' \in [Shares -> Row]
        BY <2>3, <2>4 DEF StoreTypeOK
    <2>6. scans' \subseteq Scan
        BY <1>8 DEF ScanMark, TasksTypeOK, StoreTypeOK, Storage, Scan, ScanEnds
    <2>7. QED BY <1>8, <2>1, <2>2, <2>5, <2>6
        DEF ScanMark, TypeOK, StoreTypeOK, TasksTypeOK, ServiceTypeOK, JobsTypeOK
<1>9. QED BY <1>1, <1>2, <1>3, <1>4, <1>5, <1>6, <1>7, <1>8

LEMMA JobTypes ==
    ASSUME TypeOK, JobStep, UNCHANGED <<req, zips, scans>>
    PROVE  TypeOK'
<1> USE DEF TypeOK
<1>1. \/ \E j \in Runs : JobList(j) \/ \E s \in Shares : JobWipe(j, s) \/ JobDelete(j, s)
      \/ DeleteTemporaryFiles
    BY DEF JobStep
<1>2. ASSUME NEW j \in Runs, JobList(j)
      PROVE  TypeOK'
    <2>1. Listed(JobOf[j]) \in SUBSET Shares
        BY <1>2 DEF JobList, Listed
    <2>2. job' \in [Runs -> Run]
        BY <1>2, <2>1, NoRowType DEF JobList, JobsTypeOK, StoreTypeOK, Run
    <2>3. QED BY <1>2, <2>1, <2>2
        DEF JobList, TypeOK, StoreTypeOK, TasksTypeOK, ServiceTypeOK, JobsTypeOK
<1>3. ASSUME NEW j \in Runs, NEW s \in Shares, JobWipe(j, s)
      PROVE  TypeOK'
    <2>1. store' \in [Shares -> Storage]
        BY <1>3, WipedType DEF JobWipe, StoreTypeOK, Storage
    <2>2. [job EXCEPT ![j].queue = @ \ {s}, ![j].current = {s}] \in [Runs -> Run]
        BY DEF JobsTypeOK, Run
    <2>3. [job EXCEPT ![j] = NoRun] \in [Runs -> Run]
        BY NoRowType DEF JobsTypeOK, NoRun, Run
    <2>4. job' \in [Runs -> Run]
        BY <1>3, <2>2, <2>3 DEF JobWipe
    <2>5. QED BY <1>3, <2>1, <2>2, <2>3, <2>4
        DEF JobWipe, TypeOK, StoreTypeOK, TasksTypeOK, ServiceTypeOK, JobsTypeOK
<1>4. ASSUME NEW j \in Runs, NEW s \in Shares, JobDelete(j, s)
      PROVE  TypeOK'
    <2>1. db' = db \/ db' = [db EXCEPT ![s] = NoRow(db[s].gen)]
        BY <1>4 DEF JobDelete, DeleteRow
    <2>2. [db EXCEPT ![s] = NoRow(db[s].gen)] \in [Shares -> Row]
        BY NoRowType DEF StoreTypeOK, Row
    <2>3. db' \in [Shares -> Row]
        BY <2>1, <2>2 DEF StoreTypeOK
    <2>4. [job EXCEPT ![j].current = {}, ![j].seen[s] = NoRow(0)] \in [Runs -> Run]
        BY NoRowType DEF JobsTypeOK, Run
    <2>5. [job EXCEPT ![j] = NoRun] \in [Runs -> Run]
        BY NoRowType DEF JobsTypeOK, NoRun, Run
    <2>6. job' \in [Runs -> Run]
        BY <1>4, <2>4, <2>5 DEF JobDelete
    <2>7. QED BY <1>4, <2>3, <2>4, <2>5, <2>6
        DEF JobDelete, TypeOK, StoreTypeOK, TasksTypeOK, ServiceTypeOK, JobsTypeOK
<1>5. CASE DeleteTemporaryFiles
    <2>1. store' \in [Shares -> Storage]
        BY <1>5 DEF DeleteTemporaryFiles, StoreTypeOK, Storage
    <2>2. QED BY <1>5, <2>1
        DEF DeleteTemporaryFiles, TypeOK, StoreTypeOK, TasksTypeOK, ServiceTypeOK, JobsTypeOK
<1>6. QED BY <1>1, <1>2, <1>3, <1>4, <1>5

\* A crash leaves every component in a state it starts in, except the store.
LEMMA CrashTypes ==
    ASSUME TypeOK, Crash
    PROVE  TypeOK'
<1> USE DEF TypeOK
<1>1. store' \in [Shares -> Storage]
    BY DEF Crash, StoreTypeOK, Storage
<1>2. ServiceTypeOK'
    BY IdleType DEF Crash, ServiceTypeOK
<1>3. JobsTypeOK'
    BY NoRowType DEF Crash, JobsTypeOK, NoRun, Run
<1>4. QED
    BY <1>1, <1>2, <1>3 DEF Crash, StoreTypeOK, TasksTypeOK

\* TypeOK holds initially and no step of the system breaks it.
THEOREM TypeCorrect == Spec => []TypeOK
<1>1. Init => TypeOK
    BY NoRowType, NoStorageType, IdleType
    DEF Init, StoreInit, TasksInit, ServiceInit, JobsInit, NoRun, Run,
        TypeOK, StoreTypeOK, TasksTypeOK, ServiceTypeOK, JobsTypeOK
<1>2. ASSUME TypeOK, [Next]_vars
      PROVE  TypeOK'
    <2>1. CASE ServiceStep /\ UNCHANGED job
        BY <1>2, <2>1, ServiceTypes
    <2>2. CASE FileStep /\ UNCHANGED job
        BY <1>2, <2>2, FileTypes
    <2>3. CASE ZipStep /\ UNCHANGED <<req, job>>
        BY <1>2, <2>3, ZipTypes
    <2>4. CASE ScanStep /\ UNCHANGED <<req, job>>
        BY <1>2, <2>4, ScanTypes
    <2>5. CASE JobStep /\ UNCHANGED <<req, zips, scans>>
        BY <1>2, <2>5, JobTypes
    <2>6. CASE Tick /\ UNCHANGED <<req, job, zips, scans>>
        BY <1>2, <2>6
        DEF Tick, TypeOK, StoreTypeOK, TasksTypeOK, ServiceTypeOK, JobsTypeOK
    <2>7. CASE Crash
        BY <1>2, <2>7, CrashTypes
    <2>8. CASE UNCHANGED vars
        BY <1>2, <2>8
        DEF vars, TypeOK, StoreTypeOK, TasksTypeOK, ServiceTypeOK, JobsTypeOK
    <2>9. QED
        BY <1>2, <2>1, <2>2, <2>3, <2>4, <2>5, <2>6, <2>7, <2>8 DEF Next
<1>3. QED
    BY <1>1, <1>2, PTL DEF Spec
-----------------------------------------------------------------------------
(***************************************************************************)
(* SweptIsNotEditable compares what a job run saw with what is stored now. *)
(* It is not inductive: the run may have listed its shares long ago, and   *)
(* nothing in it says that what was seen was past the retention period.    *)
(* SweepInv adds that, and that the share at hand has left the queue, so   *)
(* that forgetting its row does not touch a share still to come.           *)
(***************************************************************************)
SeenPastRetention ==
    \A j \in Runs : \A s \in InHand(j) :
        JobOf[j] = "deleteExpiredShares" => PastRetention(job[j].seen[s])

QueueWithoutCurrent == \A j \in Runs : job[j].queue \cap job[j].current = {}

SweepInv == TypeOK /\ SeenPastRetention /\ QueueWithoutCurrent

\* The clock never goes back and only the jobs and a crash touch job.
LEMMA OtherStepsKeepNow ==
    ASSUME ServiceStep \/ FileStep \/ ZipStep \/ ScanStep
    PROVE  now' = now
<1>1. CASE ServiceStep
    BY <1>1
    DEF ServiceStep, CreateCheck, CreateDir, CreateRow, CompleteCheck, CompleteNotify,
                CompleteLock, RevertRead, RevertWrite, UpdateRead, UpdateWrite, RemoveRead,
                ExpireWrite, RemoveWipe, RemoveRow
<1>2. CASE FileStep
    BY <1>2
    DEF FileStep, UploadCheck, UploadAppend, UploadRename, UploadRow, RemoveFileRead,
                RemoveFileUnlink, RemoveFileRow
<1>3. CASE ZipStep
    BY <1>3 DEF ZipStep, ZipSnapshot, ZipFinish
<1>4. CASE ScanStep
    BY <1>4
    DEF ScanStep, ScanList, ScanFile, ScanTemp, ScanVerdict, ScanWipe, ScanRows, ScanMark
<1>5. QED BY <1>1, <1>2, <1>3, <1>4

\* What has been past the retention period stays so.
LEMMA PastStaysPast ==
    ASSUME SweepInv, job' = job, now' = now \/ now' = now + 1
    PROVE  SeenPastRetention' /\ QueueWithoutCurrent'
<1>1. QueueWithoutCurrent'
    BY DEF SweepInv, QueueWithoutCurrent
<1>2. ASSUME NEW j \in Runs, NEW s \in InHand(j)', JobOf[j] = "deleteExpiredShares"
      PROVE  PastRetention(job[j].seen[s])'
    <2>1. s \in InHand(j) /\ s \in Shares
        BY <1>2 DEF InHand, SweepInv, TypeOK, JobsTypeOK, Run
    <2>2. PastRetention(job[j].seen[s])
        BY <1>2, <2>1 DEF SweepInv, SeenPastRetention
    <2>3. job[j].seen[s].expiration \in Nat /\ now \in Nat
        BY <2>1 DEF SweepInv, TypeOK, StoreTypeOK, JobsTypeOK, Run, Row
    <2>4. QED BY <2>2, <2>3, StoreAssumption DEF PastRetention
<1>3. QED BY <1>1, <1>2 DEF SeenPastRetention

LEMMA JobsKeepSweepInv ==
    ASSUME SweepInv, JobStep
    PROVE  SeenPastRetention' /\ QueueWithoutCurrent'
<1>1. \/ \E j \in Runs : JobList(j) \/ \E s \in Shares : JobWipe(j, s) \/ JobDelete(j, s)
      \/ DeleteTemporaryFiles
    BY DEF JobStep
<1>2. ASSUME NEW j \in Runs, JobList(j)
      PROVE  SeenPastRetention' /\ QueueWithoutCurrent'
    <2>1. now' = now /\ \A i \in Runs : i # j => job'[i] = job[i]
        BY <1>2 DEF JobList, SweepInv, TypeOK, JobsTypeOK
    <2>2. job'[j] = [queue |-> Listed(JobOf[j]), current |-> {},
                     seen |-> [s \in Shares |-> IF s \in Listed(JobOf[j])
                                                THEN db[s] ELSE NoRow(0)]]
        BY <1>2 DEF JobList, SweepInv, TypeOK, JobsTypeOK
    <2>3. QueueWithoutCurrent'
        BY <2>1, <2>2 DEF QueueWithoutCurrent, SweepInv
    <2>4. ASSUME JobOf[j] = "deleteExpiredShares", NEW s \in Listed(JobOf[j])
          PROVE  job'[j].seen[s] = db[s] /\ PastRetention(db[s])
        BY <2>2, <2>4 DEF Listed
    <2>5. ASSUME NEW i \in Runs, NEW s \in InHand(i)', JobOf[i] = "deleteExpiredShares"
          PROVE  PastRetention(job[i].seen[s])'
        <3>1. CASE i = j
            <4>1. s \in Listed(JobOf[j])
                BY <2>2, <2>5, <3>1 DEF InHand
            <4>2. QED BY <2>1, <2>4, <2>5, <3>1, <4>1 DEF PastRetention
        <3>2. CASE i # j
            BY <2>1, <2>5, <3>2 DEF SweepInv, SeenPastRetention, InHand, PastRetention
        <3>3. QED BY <3>1, <3>2
    <2>6. QED BY <2>3, <2>5 DEF SeenPastRetention
<1>3. ASSUME NEW j \in Runs, NEW s \in Shares, JobWipe(j, s)
      PROVE  SeenPastRetention' /\ QueueWithoutCurrent'
    <2>1. now' = now /\ \A i \in Runs : i # j => job'[i] = job[i]
        BY <1>3 DEF JobWipe, SweepInv, TypeOK, JobsTypeOK
    <2>2. \/ job'[j] = NoRun
          \/ /\ job'[j].queue = job[j].queue \ {s}
             /\ job'[j].current = {s}
             /\ job'[j].seen = job[j].seen
        BY <1>3 DEF JobWipe, SweepInv, TypeOK, JobsTypeOK, Run
    <2>3. QueueWithoutCurrent'
        BY <2>1, <2>2 DEF QueueWithoutCurrent, SweepInv, NoRun
    <2>4. \A i \in Runs : \A t \in InHand(i)' : t \in InHand(i) /\ job'[i].seen = job[i].seen
        BY <1>3, <2>1, <2>2 DEF InHand, NoRun, JobWipe
    <2>5. QED BY <2>1, <2>3, <2>4 DEF SweepInv, SeenPastRetention, PastRetention
<1>4. ASSUME NEW j \in Runs, NEW s \in Shares, JobDelete(j, s)
      PROVE  SeenPastRetention' /\ QueueWithoutCurrent'
    <2>1. now' = now /\ \A i \in Runs : i # j => job'[i] = job[i]
        BY <1>4 DEF JobDelete, SweepInv, TypeOK, JobsTypeOK
    <2>2. \/ job'[j] = NoRun
          \/ /\ job'[j].queue = job[j].queue
             /\ job'[j].current = {}
             /\ job'[j].seen = [job[j].seen EXCEPT ![s] = NoRow(0)]
        BY <1>4 DEF JobDelete, SweepInv, TypeOK, JobsTypeOK, Run
    <2>3. QueueWithoutCurrent'
        BY <2>1, <2>2 DEF QueueWithoutCurrent, SweepInv, NoRun
    <2>4. s \notin job[j].queue
        BY <1>4 DEF JobDelete, SweepInv, QueueWithoutCurrent
    <2>5. \A i \in Runs : \A t \in InHand(i)' :
              t \in InHand(i) /\ job'[i].seen[t] = job[i].seen[t]
        <3>1. SUFFICES ASSUME NEW i \in Runs, NEW t \in InHand(i)'
                       PROVE  t \in InHand(i) /\ job'[i].seen[t] = job[i].seen[t]
            OBVIOUS
        <3>2. CASE i = j
            <4>1. t \in job[j].queue /\ t # s
                BY <2>2, <2>4, <3>1, <3>2 DEF InHand, NoRun
            <4>2. job[j].seen \in [Shares -> Row] /\ t \in Shares
                BY <4>1 DEF SweepInv, TypeOK, JobsTypeOK, Run
            <4>3. QED BY <2>2, <3>1, <3>2, <4>1, <4>2 DEF InHand, NoRun
        <3>3. CASE i # j
            BY <2>1, <3>1, <3>3 DEF InHand
        <3>4. QED BY <3>2, <3>3
    <2>6. QED BY <2>1, <2>3, <2>5 DEF SweepInv, SeenPastRetention, PastRetention
<1>5. CASE DeleteTemporaryFiles
    BY <1>5, PastStaysPast DEF DeleteTemporaryFiles
<1>6. QED BY <1>1, <1>2, <1>3, <1>4, <1>5

LEMMA SweepInvInductive == Spec => []SweepInv
<1>1. Init => SeenPastRetention /\ QueueWithoutCurrent
    BY DEF Init, JobsInit, SeenPastRetention, QueueWithoutCurrent, InHand, NoRun
<1>2. ASSUME SweepInv, [Next]_vars
      PROVE  SeenPastRetention' /\ QueueWithoutCurrent'
    <2>1. CASE (ServiceStep \/ FileStep) /\ UNCHANGED job
        BY <1>2, <2>1, OtherStepsKeepNow, PastStaysPast
    <2>2. CASE (ZipStep \/ ScanStep) /\ UNCHANGED <<req, job>>
        BY <1>2, <2>2, OtherStepsKeepNow, PastStaysPast
    <2>3. CASE JobStep /\ UNCHANGED <<req, zips, scans>>
        BY <1>2, <2>3, JobsKeepSweepInv
    <2>4. CASE Tick /\ UNCHANGED <<req, job, zips, scans>>
        BY <1>2, <2>4, PastStaysPast DEF Tick
    <2>5. CASE Crash
        BY <2>5 DEF Crash, SeenPastRetention, QueueWithoutCurrent, InHand, NoRun
    <2>6. CASE UNCHANGED vars
        BY <1>2, <2>6, PastStaysPast DEF vars
    <2>7. QED BY <1>2, <2>1, <2>2, <2>3, <2>4, <2>5, <2>6 DEF Next
<1>3. QED
    BY <1>1, <1>2, TypeCorrect, PTL DEF Spec, SweepInv

LEMMA SweepInvSuffices == SweepInv => SweptIsNotEditable
<1>1. SUFFICES ASSUME SweepInv,
                      NEW j \in Runs, NEW s \in InHand(j),
                      JobOf[j] = "deleteExpiredShares",
                      db[s].expiration = job[j].seen[s].expiration
               PROVE  ~Editable(s)
    BY DEF SweptIsNotEditable
<1>2. s \in Shares
    BY <1>1 DEF InHand, SweepInv, TypeOK, JobsTypeOK, Run
<1>3. db[s].expiration \in Nat /\ now \in Nat
    BY <1>1, <1>2 DEF SweepInv, TypeOK, StoreTypeOK, Row
<1>4. db[s].expiration + RetentionPeriod < now /\ db[s].expiration # Never
    BY <1>1 DEF SweepInv, SeenPastRetention, PastRetention
<1>5. db[s].expiration + EditablePeriod < now /\ db[s].expiration < now
    BY <1>3, <1>4, StoreAssumption, ConfigAssumption
<1>6. QED
    BY <1>3, <1>4, <1>5, StoreAssumption
    DEF Editable, IsShareWithinExpiredEditablePeriod, IsShareExpired

(***************************************************************************)
(* No run of deleteExpiredShares ever has a share in hand that its owner   *)
(* could still be editing, unless the expiration was changed behind its    *)
(* back: the reason the configuration must keep the editable period within *)
(* the retention period.                                                   *)
(***************************************************************************)
THEOREM SweepSafe == Spec => []SweptIsNotEditable
BY SweepInvInductive, SweepInvSuffices, PTL
-----------------------------------------------------------------------------
(***************************************************************************)
(* RowsHaveBytes speaks of one moment: a file in the list of a share that  *)
(* nobody deletes.  What keeps it so is a history.  Doomed collects its    *)
(* exceptions so that none is ever taken back: a deletion under way ends   *)
(* with the row gone (or, after a scan, marked), and the next row is the   *)
(* second of its id.  Of a share that is not doomed, bytes go only file by *)
(* file, by a request that takes the row next (BytesInv); and no chunk of  *)
(* a listed file, or of one being removed, can arrive again (ListedInv),   *)
(* so that no row follows a removal (UploadInv: a file has one upload).    *)
(***************************************************************************)
UploadSteps == {"upload:append", "upload:rename", "upload:row"}

RemovalSteps == {"rmfile:unlink", "rmfile:row"}

CreationSteps == {"idle", "create:dir", "create:row"}

\* A request on file f of share s stands at one of the steps.
Someone(steps, s, f) ==
    \E r \in Requests : req[r].step \in steps /\ req[r].share = s /\ req[r].file = f

\* The row is gone or being deleted, or is not the first one under its id.
Doomed(s) == \/ db[s].gen > 1
             \/ db[s].gen = 1 /\ ~db[s].live
             \/ InDeletion(s)

\* A row that is not there has no files.
RowsInv ==
    \A s \in Shares : IF db[s].live THEN db[s].gen >= 1
                      ELSE db[s].files = {} /\ ~db[s].removed

\* Whoever works on a share has seen a row of it, and a run deletes one at a time.
BegunInv ==
    /\ \A r \in Requests : req[r].step \notin CreationSteps => db[req[r].share].gen >= 1
    /\ \A c \in scans : c.step \in {"rows", "mark"} => db[c.share].gen >= 1
    /\ \A j \in Runs : \A s \in InHand(j) : db[s].gen >= 1
    /\ \A j \in Runs : \A s, t \in job[j].current : s = t

\* The chunks of a file come one after another, and the last leaves no remains.
UploadInv ==
    \A r \in Requests : req[r].step \in UploadSteps =>
        /\ req[r].file \in used
        /\ req[r].step = "upload:row" => store[req[r].share].tmp[req[r].file] = 0
        /\ \A q \in Requests : req[q].step \in UploadSteps /\ req[q].file = req[r].file => q = r

\* What is listed, or about to be removed, is not being uploaded.
ListedInv ==
    \A s \in Shares, f \in Files :
        ~Doomed(s) /\ (f \in db[s].files \/ Someone(RemovalSteps, s, f))
        => f \in used /\ store[s].tmp[f] = 0 /\ ~Someone(UploadSteps, s, f)

\* What is listed, or about to be, has its bytes until its row is about to go.
BytesInv ==
    \A s \in Shares, f \in Files :
        ~Doomed(s) /\ (f \in db[s].files \/ Someone({"upload:row"}, s, f))
        => Key(f) \in store[s].disk \/ Someone({"rmfile:row"}, s, f)

ContentInv == RowsInv /\ BegunInv /\ UploadInv /\ ListedInv /\ BytesInv

LEMMA ContentSuffices == TypeOK /\ ContentInv => RowsHaveBytes
<1>1. SUFFICES ASSUME TypeOK, ContentInv,
                      NEW s \in Shares, NEW f \in db[s].files
               PROVE  \/ Key(f) \in store[s].disk
                      \/ db[s].gen > 1
                      \/ InDeletion(s)
                      \/ \E r \in Requests :
                             /\ At(r, "rmfile:row")
                             /\ req[r].share = s /\ req[r].file = f
    BY DEF RowsHaveBytes
<1>2. f \in Files /\ db[s].live
    BY <1>1 DEF TypeOK, StoreTypeOK, Row, ContentInv, RowsInv
<1>3. CASE Doomed(s)
    BY <1>2, <1>3 DEF Doomed
<1>4. CASE ~Doomed(s)
    BY <1>1, <1>2, <1>4 DEF ContentInv, BytesInv, Someone, At
<1> QED BY <1>3, <1>4

-----------------------------------------------------------------------------
(* How a step may change a row *)

Same(s) == /\ db'[s].live = db[s].live /\ db'[s].gen = db[s].gen
           /\ db'[s].files = db[s].files /\ db'[s].removed = db[s].removed

Born(s) == /\ ~db[s].live
           /\ db'[s].live /\ db'[s].gen = db[s].gen + 1
           /\ db'[s].files = {} /\ ~db'[s].removed

Gone(s) == /\ db[s].live
           /\ ~db'[s].live /\ db'[s].gen = db[s].gen
           /\ db'[s].files = {} /\ ~db'[s].removed

\* The row stands, and if it was marked it stays so.
Kept(s) == /\ db'[s].live = db[s].live /\ db'[s].gen = db[s].gen
           /\ ~db[s].live => db'[s].files = {} /\ ~db'[s].removed
           /\ db[s].removed => db'[s].removed

LEMMA RowsStay ==
    ASSUME TypeOK, RowsInv, \A s \in Shares : Same(s) \/ Born(s) \/ Gone(s) \/ Kept(s)
    PROVE  RowsInv' /\ \A s \in Shares : db'[s].gen >= db[s].gen
<1>1. \A s \in Shares : db[s].gen \in Nat
    BY DEF TypeOK, StoreTypeOK, Row
<1> QED BY <1>1 DEF RowsInv, Same, Born, Gone, Kept

\* What is under deletion has had a row.
LEMMA DeletedHadRow ==
    ASSUME TypeOK, RowsInv, BegunInv, NEW s \in Shares, InDeletion(s)
    PROVE  db[s].gen >= 1
BY DEF InDeletion, RowsInv, BegunInv, At, CreationSteps, InHand

\* A share that is doomed stays so, if its deletion ends with its row.
LEMMA DoomStays ==
    ASSUME TypeOK, RowsInv, BegunInv, NEW s \in Shares,
           Same(s) \/ Born(s) \/ Gone(s) \/ Kept(s),
           InDeletion(s) => InDeletion(s)' \/ ~db'[s].live,
           Doomed(s)
    PROVE  Doomed(s)'
<1>1. db[s].gen \in Nat /\ (InDeletion(s) => db[s].gen >= 1)
    BY DeletedHadRow DEF TypeOK, StoreTypeOK, Row
<1> QED BY <1>1 DEF Doomed, Same, Born, Gone, Kept

(***************************************************************************)
(* A step that goes on with no upload or removal of a file, and takes rows *)
(* and bytes only from shares that are doomed.                             *)
(***************************************************************************)
LEMMA ElsewhereKeepsContent ==
    ASSUME TypeOK, ContentInv, used' = used,
           \A r \in Requests : \/ req'[r] = req[r]
                               \/ req[r].step \notin FileSteps /\ req'[r].step \notin FileSteps,
           \A s \in Shares : Doomed(s) => Doomed(s)',
           \A s \in Shares : db'[s].files \subseteq db[s].files,
           \A s \in Shares : \A f \in Files : store'[s].tmp[f] \in {0, store[s].tmp[f]},
           \A s \in Shares : store[s].disk \subseteq store'[s].disk \/ Doomed(s)'
    PROVE  UploadInv' /\ ListedInv' /\ BytesInv'
<1>1. ASSUME NEW steps \in SUBSET FileSteps, NEW s, NEW f
      PROVE  Someone(steps, s, f)' <=> Someone(steps, s, f)
    BY DEF Someone
<1>2. /\ UploadSteps \in SUBSET FileSteps /\ RemovalSteps \in SUBSET FileSteps
      /\ {"upload:row"} \in SUBSET FileSteps /\ {"rmfile:row"} \in SUBSET FileSteps
    BY DEF UploadSteps, RemovalSteps, FileSteps
<1>3. UploadInv'
    <2>1. SUFFICES ASSUME NEW r \in Requests, req'[r].step \in UploadSteps
                   PROVE  /\ req'[r].file \in used
                          /\ req'[r].step = "upload:row" => store'[req'[r].share].tmp[req'[r].file] = 0
                          /\ \A q \in Requests : req'[q].step \in UploadSteps /\ req'[q].file = req'[r].file => q = r
        BY DEF UploadInv
    <2>2. req'[r] = req[r] /\ req[r].step \in FileSteps
        BY <1>2, <2>1
    <2>3. req[r].share \in Shares /\ req[r].file \in Files
        BY <2>2, InFlight DEF TypeOK, At
    <2>4. \A q \in Requests : req'[q].step \in UploadSteps => req'[q] = req[q]
        BY <1>2
    <2> QED BY <2>1, <2>2, <2>3, <2>4 DEF ContentInv, UploadInv
<1>4. ListedInv'
    BY <1>1, <1>2 DEF ContentInv, ListedInv
<1>5. BytesInv'
    BY <1>1, <1>2 DEF ContentInv, BytesInv, Key
<1> QED BY <1>3, <1>4, <1>5
-----------------------------------------------------------------------------
(* Requests of the owner: no file, and no bytes without the row to follow *)

ServiceEffect(r) ==
    /\ \A q \in Requests : q # r => req'[q] = req[q]
    /\ req[r].step \notin FileSteps /\ req'[r].step \notin FileSteps
    /\ used' = used
    /\ \A s \in Shares : Same(s) \/ Born(s) \/ Gone(s)
    /\ \A s \in Shares : \/ store'[s].disk = store[s].disk
                         \/ At(r, "remove:row")' /\ req'[r].share = s
    /\ \A s \in Shares : \A f \in Files : store'[s].tmp[f] \in {0, store[s].tmp[f]}
    /\ At(r, "remove:row") => ~db'[req[r].share].live
    /\ req'[r].step \notin CreationSteps =>
           \/ db[req'[r].share].live
           \/ req[r].step \notin CreationSteps /\ req'[r].share = req[r].share
    /\ \A c : c.step \in {"rows", "mark"} => (c \in scans' <=> c \in scans)

LEMMA ServiceEffects ==
    ASSUME TypeOK, ServiceStep
    PROVE  \E r \in Requests : ServiceEffect(r)
<1>1. PICK r \in Requests :
          \/ \E d \in Lifetimes :
                 \/ CreateDir(r, d)
                 \/ \E s \in Shares, isAdmin \in BOOLEAN : UpdateRead(r, s, d, isAdmin)
          \/ \E s \in Shares :
                 \/ CreateCheck(r, s)
                 \/ CompleteCheck(r, s)
                 \/ RevertRead(r, s)
                 \/ \E hard \in BOOLEAN : RemoveRead(r, s, hard)
          \/ CreateRow(r)
          \/ CompleteNotify(r) \/ CompleteLock(r)
          \/ RevertWrite(r)  \/ UpdateWrite(r)
          \/ ExpireWrite(r)  \/ RemoveWipe(r) \/ RemoveRow(r)
    BY DEF ServiceStep
<1> SUFFICES ServiceEffect(r)
    OBVIOUS
<1> DEFINE s == req[r].share
<1>2. /\ req \in [Requests -> Request] /\ db \in [Shares -> Row] /\ store \in [Shares -> Storage]
      /\ \A st \in ShareSteps : At(r, st) => s \in Shares
    BY InFlight DEF TypeOK, ServiceTypeOK, StoreTypeOK
<1>a. ASSUME NEW d \in Lifetimes, CreateDir(r, d)
      PROVE  ServiceEffect(r)
    <2>1. s \in Shares /\ req[r] \in Request
        BY <1>2, <1>a DEF CreateDir, ShareSteps
    <2>2. \A t \in Shares : store'[t].disk = store[t].disk /\ store'[t].tmp = store[t].tmp
        BY <1>2, <1>a, <2>1 DEF CreateDir, Storage
    <2>3. req'[r].step \in CreationSteps /\ \A q \in Requests : q # r => req'[q] = req[q]
        BY <1>2, <1>a, <2>1 DEF CreateDir, Ends, Idle, Request, CreationSteps
    <2> QED
        BY <1>a, <2>1, <2>2, <2>3
        DEF CreateDir, ServiceEffect, Same, At, CreationSteps, FileSteps, taskVars
<1>b. CASE \E t \in Shares, d \in Lifetimes, isAdmin \in BOOLEAN : UpdateRead(r, t, d, isAdmin)
    BY <1>2, <1>b
    DEF UpdateRead, Starts, Editable, ServiceEffect, Same, At, Idle, FileSteps, CreationSteps, taskVars, Row, Storage
<1>c. CASE \E t \in Shares : CreateCheck(r, t)
    BY <1>2, <1>c
    DEF CreateCheck, Starts, Becomes, ServiceEffect, Same, At, Idle, FileSteps, CreationSteps, taskVars, Row, Storage
<1>d. CASE \E t \in Shares : CompleteCheck(r, t)
    BY <1>2, <1>d
    DEF CompleteCheck, FilesMutable, Editable, Starts, Becomes, ServiceEffect, Same, At, Idle, FileSteps, CreationSteps, Row, Storage
<1>e. CASE \E t \in Shares : RevertRead(r, t)
    BY <1>2, <1>e
    DEF RevertRead, FilesMutable, Editable, Starts, Becomes, ServiceEffect, Same, At, Idle, FileSteps, CreationSteps, taskVars, Row, Storage
<1>f. CASE \E t \in Shares, hard \in BOOLEAN : RemoveRead(r, t, hard)
    BY <1>2, <1>f
    DEF RemoveRead, Starts, Becomes, ServiceEffect, Same, At, Idle, FileSteps, CreationSteps, taskVars, Row, Storage
<1>g. CASE CreateRow(r)
    <2>1. s \in Shares
        BY <1>2, <1>g DEF CreateRow, ShareSteps
    <2>2. CASE db[s].live
        BY <1>2, <1>g, <2>1, <2>2
        DEF CreateRow, ServiceEffect, Same, At, Ends, Idle, FileSteps, CreationSteps, taskVars
    <2>3. CASE ~db[s].live
        <3>1. db' = [db EXCEPT ![s] = [NoRow(db[s].gen + 1) EXCEPT
                         !.live = TRUE, !.createdAt = now, !.expiration = req[r].expiration]]
            BY <1>g, <2>3 DEF CreateRow
        <3>2. \A t \in Shares : Same(t) \/ Born(t)
            BY <1>2, <2>1, <2>3, <3>1 DEF NoRow, Same, Born
        <3> QED
            BY <1>2, <1>g, <3>2
            DEF CreateRow, ServiceEffect, At, Ends, Idle, FileSteps, CreationSteps, taskVars
    <2> QED BY <2>2, <2>3
<1>h. CASE CompleteNotify(r)
    <2>1. \A c : c.step \in {"rows", "mark"} => (c \in scans' <=> c \in scans)
        BY <1>h DEF CompleteNotify, NewScan
    <2>2. /\ \A q \in Requests : q # r => req'[q] = req[q]
          /\ \/ req'[r] = Idle
             \/ req'[r].share = req[r].share /\ req'[r].step = "complete:lock"
        BY <1>2, <1>h DEF CompleteNotify, Proceeds, Ends, Request, Idle
    <2> QED
        BY <1>h, <2>1, <2>2
        DEF CompleteNotify, ServiceEffect, Same, At, Idle, FileSteps, CreationSteps
<1>i. CASE CompleteLock(r)
    <2>1. \A t \in Shares : Same(t)
        BY <1>2, <1>i DEF CompleteLock, ShareSteps, Row, Same
    <2> QED
        BY <1>2, <1>i, <2>1
        DEF CompleteLock, ServiceEffect, At, Ends, Idle, FileSteps, CreationSteps, taskVars
<1>j. CASE RevertWrite(r)
    BY <1>2, <1>j
    DEF RevertWrite, ServiceEffect, Same, At, Ends, Idle, FileSteps, ShareSteps, CreationSteps, taskVars, Row, Storage
<1>k. CASE UpdateWrite(r)
    BY <1>2, <1>k
    DEF UpdateWrite, ServiceEffect, Same, At, Ends, Idle, FileSteps, ShareSteps, CreationSteps, taskVars, Row, Storage
<1>l. CASE ExpireWrite(r)
    BY <1>2, <1>l
    DEF ExpireWrite, ServiceEffect, Same, At, Ends, Idle, FileSteps, ShareSteps, CreationSteps, taskVars, Row, Storage
<1>m. CASE RemoveWipe(r)
    <2>1. s \in Shares
        BY <1>2, <1>m DEF RemoveWipe, ShareSteps
    <2>2. \A t \in Shares : t # s => store'[t] = store[t]
        BY <1>2, <1>m, <2>1 DEF RemoveWipe
    <2>3. \A f \in Files : store'[s].tmp[f] \in {0, store[s].tmp[f]}
        BY <1>2, <1>m, <2>1 DEF RemoveWipe, Wiped, NoStorage, Storage
    <2>4. /\ \A q \in Requests : q # r => req'[q] = req[q]
          /\ \/ req'[r] = Idle /\ store' = store
             \/ req'[r].share = req[r].share /\ req'[r].step = "remove:row"
        BY <1>2, <1>m DEF RemoveWipe, Proceeds, Ends, Request, Idle
    <2> QED
        BY <1>m, <2>2, <2>3, <2>4
        DEF RemoveWipe, ServiceEffect, Same, At, Idle, FileSteps, CreationSteps, taskVars
<1>n. CASE RemoveRow(r)
    BY <1>2, <1>n
    DEF RemoveRow, DeleteRow, NoRow, ServiceEffect, Same, Gone, At, Ends, Idle, FileSteps, ShareSteps, CreationSteps, taskVars, Row, Storage
<1> QED
    BY <1>1, <1>a, <1>b, <1>c, <1>d, <1>e, <1>f, <1>g, <1>h, <1>i, <1>j, <1>k, <1>l, <1>m, <1>n

LEMMA ServiceKeepsContent ==
    ASSUME TypeOK, TypeOK', ContentInv, ServiceStep, job' = job
    PROVE  ContentInv'
<1>1. PICK r \in Requests : ServiceEffect(r)
    BY ServiceEffects
<1>2. RowsInv' /\ \A s \in Shares : db'[s].gen >= db[s].gen
    BY <1>1, RowsStay DEF ServiceEffect, ContentInv
<1>3. ASSUME NEW s \in Shares, InDeletion(s)
      PROVE  InDeletion(s)' \/ ~db'[s].live
    <2>1. CASE \E j \in Runs : s \in job[j].current
        BY <2>1 DEF InDeletion
    <2>2. CASE \E q \in Requests : At(q, "remove:row") /\ req[q].share = s
        BY <1>1, <2>2 DEF InDeletion, ServiceEffect, At
    <2>3. CASE \E c \in scans : c.share = s /\ c.step \in {"rows", "mark"}
        BY <1>1, <2>3 DEF InDeletion, ServiceEffect
    <2>4. CASE db[s].removed
        BY <1>1, <2>4 DEF InDeletion, ServiceEffect, Same, Born, Gone, ContentInv, RowsInv
    <2> QED BY <1>3, <2>1, <2>2, <2>3, <2>4 DEF InDeletion
<1>4. \A s \in Shares : Doomed(s) => Doomed(s)'
    BY <1>1, <1>3, DoomStays DEF ServiceEffect, ContentInv
<1>5. ASSUME NEW s \in Shares
      PROVE  store[s].disk \subseteq store'[s].disk \/ Doomed(s)'
    BY <1>1 DEF ServiceEffect, Doomed, InDeletion
<1>6. UploadInv' /\ ListedInv' /\ BytesInv'
    BY <1>1, <1>4, <1>5, ElsewhereKeepsContent DEF ServiceEffect, Same, Born, Gone
<1>7. BegunInv'
    <2>1. ASSUME NEW q \in Requests, req'[q].step \notin CreationSteps
          PROVE  db'[req'[q].share].gen >= 1
        <3>1. req'[q].share \in Shares /\ (req[q].step \notin CreationSteps => req[q].share \in Shares)
            BY <2>1 DEF TypeOK, ServiceTypeOK, Request, Idle, CreationSteps
        <3>2. db[req'[q].share].gen >= 1
            BY <1>1, <2>1, <3>1 DEF ServiceEffect, ContentInv, RowsInv, BegunInv
        <3> QED BY <1>2, <3>1, <3>2 DEF TypeOK, StoreTypeOK, Row
    <2>2. ASSUME NEW c \in scans', c.step \in {"rows", "mark"}
          PROVE  db'[c.share].gen >= 1
        <3>1. c \in scans /\ c.share \in Shares
            BY <1>1, <2>2 DEF ServiceEffect, TypeOK, TasksTypeOK, Scan
        <3> QED BY <1>2, <2>2, <3>1 DEF ContentInv, BegunInv, TypeOK, StoreTypeOK, Row
    <2>3. ASSUME NEW j \in Runs, NEW s \in InHand(j)'
          PROVE  db'[s].gen >= 1
        <3>1. s \in InHand(j) /\ s \in Shares
            BY <2>3 DEF InHand, TypeOK, JobsTypeOK, Run
        <3> QED BY <1>2, <3>1 DEF ContentInv, BegunInv, TypeOK, StoreTypeOK, Row
    <2> QED BY <2>1, <2>2, <2>3 DEF ContentInv, BegunInv
<1> QED BY <1>2, <1>6, <1>7 DEF ContentInv
-----------------------------------------------------------------------------
(* Tasks and jobs: no request moves *)

LEMMA OthersKeepContent ==
    ASSUME TypeOK, TypeOK', ContentInv, req' = req, used' = used,
           \A s \in Shares : Same(s) \/ Gone(s) \/ Kept(s),
           \A s \in Shares : db'[s].files \subseteq db[s].files,
           \A s \in Shares : InDeletion(s) => InDeletion(s)' \/ ~db'[s].live,
           \A s \in Shares : \A f \in Files : store'[s].tmp[f] \in {0, store[s].tmp[f]},
           \A s \in Shares : store[s].disk \subseteq store'[s].disk \/ InDeletion(s)',
           \A c \in scans' : c.step \in {"rows", "mark"} => c \in scans \/ db[c.share].gen >= 1,
           \A j \in Runs : \A s \in InHand(j)' : s \in InHand(j) \/ db[s].gen >= 1,
           \A j \in Runs : \A s, t \in job'[j].current : s = t
    PROVE  ContentInv'
<1>1. RowsInv' /\ \A s \in Shares : db'[s].gen >= db[s].gen
    BY RowsStay DEF ContentInv
<1>2. \A s \in Shares : Doomed(s) => Doomed(s)'
    BY DoomStays DEF ContentInv
<1>3. \A s \in Shares : InDeletion(s)' => Doomed(s)'
    BY DEF Doomed
<1>4. UploadInv' /\ ListedInv' /\ BytesInv'
    BY <1>2, <1>3, ElsewhereKeepsContent
<1>5. BegunInv'
    <2>1. \A s \in Shares : db[s].gen >= 1 => db'[s].gen >= 1
        BY <1>1 DEF TypeOK, StoreTypeOK, Row
    <2>2. ASSUME NEW q \in Requests, req'[q].step \notin CreationSteps
          PROVE  db'[req'[q].share].gen >= 1
        <3>1. req[q].share \in Shares
            BY <2>2 DEF TypeOK, ServiceTypeOK, Request, Idle, CreationSteps
        <3> QED BY <2>1, <2>2, <3>1 DEF ContentInv, BegunInv
    <2>3. ASSUME NEW c \in scans', c.step \in {"rows", "mark"}
          PROVE  db'[c.share].gen >= 1
        <3>1. c.share \in Shares
            BY <2>3 DEF TypeOK, TasksTypeOK, Scan
        <3> QED BY <2>1, <2>3, <3>1 DEF ContentInv, BegunInv
    <2>4. ASSUME NEW j \in Runs, NEW s \in InHand(j)'
          PROVE  db'[s].gen >= 1
        <3>1. s \in Shares
            BY <2>4 DEF InHand, TypeOK, JobsTypeOK, Run
        <3> QED BY <2>1, <2>4, <3>1 DEF ContentInv, BegunInv
    <2> QED BY <2>2, <2>3, <2>4 DEF BegunInv
<1> QED BY <1>1, <1>4, <1>5 DEF ContentInv

\* The archive touches no file, and the row only in a flag.
LEMMA ZipKeepsContent ==
    ASSUME TypeOK, TypeOK', ContentInv, ZipStep, UNCHANGED <<req, job>>
    PROVE  ContentInv'
<1>1. PICK z \in zips : ZipSnapshot(z) \/ ZipFinish(z)
    BY DEF ZipStep
<1>2. z.share \in Shares /\ db \in [Shares -> Row] /\ store \in [Shares -> Storage]
    BY DEF TypeOK, TasksTypeOK, StoreTypeOK, Zip
<1>3. scans' = scans /\ used' = used
    BY <1>1 DEF ZipSnapshot, ZipFinish
<1>4. \A s \in Shares : Same(s)
    BY <1>1, <1>2 DEF ZipSnapshot, ZipFinish, Same, Row
<1>5. \A s \in Shares : store'[s].disk = store[s].disk /\ store'[s].tmp = store[s].tmp
    <2>1. CASE store' = store
        BY <2>1
    <2>2. CASE store' = [store EXCEPT ![z.share].zip = {}]
        BY <1>2, <2>2 DEF Storage
    <2>3. CASE store' = [store EXCEPT ![z.share].zip = z.of]
        BY <1>2, <2>3 DEF Storage
    <2> QED BY <1>1, <2>1, <2>2, <2>3 DEF ZipSnapshot, ZipFinish
<1>6. \A s \in Shares : InDeletion(s) => InDeletion(s)'
    BY <1>3, <1>4 DEF InDeletion, Same, At
<1>7. \A j \in Runs : InHand(j)' = InHand(j)
    BY DEF InHand
<1> QED
    BY <1>3, <1>4, <1>5, <1>6, <1>7, OthersKeepContent DEF Same, ContentInv, BegunInv

\* A scan that has taken the bytes takes the rows and marks the share.
LEMMA ScanKeepsContent ==
    ASSUME TypeOK, TypeOK', ContentInv, ScanStep, UNCHANGED <<req, job>>
    PROVE  ContentInv'
<1>1. PICK c \in scans :
          \/ ScanList(c)
          \/ \E f \in Files : ScanFile(c, f)
          \/ ScanTemp(c)
          \/ ScanVerdict(c)
          \/ ScanWipe(c)
          \/ ScanRows(c)
          \/ ScanMark(c)
    BY DEF ScanStep
<1> DEFINE s == c.share
<1>2. s \in Shares /\ db \in [Shares -> Row] /\ store \in [Shares -> Storage] /\ c \in Scan
    BY DEF TypeOK, TasksTypeOK, StoreTypeOK, Scan
<1>3. \A j \in Runs : InHand(j)' = InHand(j)
    BY DEF InHand
<1>4. \A j \in Runs : \A t, u \in job'[j].current : t = u
    BY DEF ContentInv, BegunInv
<1>5. ASSUME NEW st
      PROVE  [c EXCEPT !.step = st].step = st /\ [c EXCEPT !.step = st].share = s
    BY <1>2 DEF Scan
<1>a. CASE ScanList(c) \/ (\E f \in Files : ScanFile(c, f)) \/ ScanTemp(c) \/ ScanVerdict(c)
    <2>1. /\ UNCHANGED <<db, store, used>>
          /\ c.step \notin {"rows", "mark"}
        BY <1>2, <1>a DEF ScanList, ScanFile, ScanTemp, ScanVerdict
    <2>4. PICK d \in scans \cup scans' :
              /\ scans' \in {scans \ {c}, (scans \ {c}) \cup {d}}
              /\ d.step \notin {"rows", "mark"}
        <3>1. CASE scans' = scans \ {c}
            BY <2>1, <3>1
        <3>2. CASE ScanList(c) /\ scans' # scans \ {c}
            BY <1>2, <3>2, ZenonT(60) DEF ScanList, ScanBecomes, ScanEnds, Scan
        <3>3. ASSUME NEW f \in Files, ScanFile(c, f), scans' # scans \ {c}
              PROVE  \E d \in scans \cup scans' :
                         /\ scans' \in {scans \ {c}, (scans \ {c}) \cup {d}}
                         /\ d.step \notin {"rows", "mark"}
            BY <1>2, <3>3 DEF ScanFile, ScanBecomes, ScanEnds, Scan
        <3>4. CASE ScanVerdict(c) /\ scans' # scans \ {c}
            <4> DEFINE d == [c EXCEPT !.step = "wipe"]
            <4>1. d.step = "wipe"
                BY <1>5
            <4>2. scans' = (scans \ {c}) \cup {d}
                BY <3>4 DEF ScanVerdict, ScanBecomes, ScanEnds
            <4> HIDE DEF d
            <4> QED BY <4>1, <4>2
        <3> QED BY <1>a, <3>1, <3>2, <3>3, <3>4 DEF ScanTemp, ScanEnds
    <2>2. \A e : e.step \in {"rows", "mark"} => (e \in scans' <=> e \in scans)
        BY <2>1, <2>4
    <2>3. \A t \in Shares : InDeletion(t) => InDeletion(t)'
        BY <2>1, <2>2 DEF InDeletion, At
    <2> QED
        BY <1>3, <1>4, <2>1, <2>2, <2>3, OthersKeepContent DEF Same
<1>b. CASE ScanWipe(c)
    <2>1. \A d \in scans : d.step \in {"rows", "mark"} => d \in scans'
        BY <1>b DEF ScanWipe, ScanBecomes, ScanEnds
    <2>2. \A t \in Shares : InDeletion(t) => InDeletion(t)'
        BY <1>b, <2>1 DEF ScanWipe, InDeletion, At
    <2>3. CASE db[s].live /\ CanWipe(s)
        <3>1. PICK d : scans' = (scans \ {c}) \cup {d} /\ d.step = "rows" /\ d.share = s
            BY <1>5, <1>b, <2>3 DEF ScanWipe, ScanBecomes
        <3>2. InDeletion(s)' /\ db[s].gen >= 1
            BY <1>2, <2>3, <3>1 DEF InDeletion, ContentInv, RowsInv
        <3>3. /\ \A t \in Shares : t # s => store'[t] = store[t]
              /\ \A f \in Files : store'[s].tmp[f] \in {0, store[s].tmp[f]}
            BY <1>2, <1>b, <2>3 DEF ScanWipe, Wiped, NoStorage, Storage
        <3> QED
            BY <1>b, <1>3, <1>4, <2>2, <3>1, <3>2, <3>3, OthersKeepContent DEF ScanWipe, Same
    <2>4. CASE ~(db[s].live /\ CanWipe(s))
        BY <1>b, <1>3, <1>4, <2>2, <2>4, OthersKeepContent DEF ScanWipe, ScanEnds, Same
    <2> QED BY <2>3, <2>4
<1>c. CASE ScanRows(c)
    <2>1. PICK d : scans' = (scans \ {c}) \cup {d} /\ d.step = "mark" /\ d.share = s
        BY <1>5, <1>c DEF ScanRows, ScanBecomes
    <2>2. \A t \in Shares : /\ db'[t].live = db[t].live /\ db'[t].gen = db[t].gen
                            /\ db'[t].removed = db[t].removed
                            /\ db'[t].files \subseteq db[t].files
        BY <1>2, <1>c DEF ScanRows, Row
    <2>3. \A t \in Shares : Kept(t)
        BY <2>2 DEF Kept, ContentInv, RowsInv
    <2>4. \A t \in Shares : InDeletion(t) => InDeletion(t)'
        BY <1>c, <2>1, <2>2 DEF InDeletion, At
    <2>5. db[s].gen >= 1
        BY <1>c DEF ScanRows, ContentInv, BegunInv
    <2> QED
        BY <1>c, <1>3, <1>4, <2>1, <2>2, <2>3, <2>4, <2>5, OthersKeepContent DEF ScanRows
<1>d. CASE ScanMark(c)
    <2>1. scans' = scans \ {c}
        BY <1>d DEF ScanMark, ScanEnds
    <2>2. \A t \in Shares : /\ db'[t].live = db[t].live /\ db'[t].gen = db[t].gen
                            /\ db[t].removed => db'[t].removed
                            /\ db'[t].files = db[t].files
                            /\ t # s => db'[t] = db[t]
                            /\ db[t].live /\ t = s => db'[t].removed
                            /\ ~db[t].live => db'[t].removed = db[t].removed
        BY <1>2, <1>d DEF ScanMark, Row
    <2>3. \A t \in Shares : Kept(t)
        BY <2>2 DEF Kept, ContentInv, RowsInv
    <2>4. \A t \in Shares : InDeletion(t) => InDeletion(t)' \/ ~db'[t].live
        BY <1>d, <2>1, <2>2 DEF InDeletion, At
    <2> QED
        BY <1>d, <1>3, <1>4, <2>1, <2>2, <2>3, <2>4, OthersKeepContent DEF ScanMark
<1> QED BY <1>1, <1>a, <1>b, <1>c, <1>d

\* A run deletes the row of the share it has wiped before it takes the next.
LEMMA JobKeepsContent ==
    ASSUME TypeOK, TypeOK', ContentInv, JobStep, UNCHANGED <<req, zips, scans>>
    PROVE  ContentInv'
<1>1. \/ \E j \in Runs : JobList(j) \/ \E s \in Shares : JobWipe(j, s) \/ JobDelete(j, s)
      \/ DeleteTemporaryFiles
    BY DEF JobStep
<1>2. db \in [Shares -> Row] /\ store \in [Shares -> Storage] /\ job \in [Runs -> Run]
    BY DEF TypeOK, StoreTypeOK, JobsTypeOK
<1>3. /\ \A c \in scans' : c.step \in {"rows", "mark"} => c \in scans
      /\ \A i \in Runs : \A s, t \in job[i].current : s = t
    BY DEF ContentInv, BegunInv
<1>a. ASSUME NEW j \in Runs, JobList(j)
      PROVE  ContentInv'
    <2>1. /\ UNCHANGED <<now, db, store, used>>
          /\ job[j].current = {}
          /\ \A i \in Runs : i # j => job'[i] = job[i]
          /\ job'[j].queue = Listed(JobOf[j]) /\ job'[j].current = {}
        BY <1>2, <1>a DEF JobList, InHand
    <2>2. \A s \in Shares : InDeletion(s) => InDeletion(s)'
        BY <2>1 DEF InDeletion, At
    <2>3. \A s \in Listed(JobOf[j]) : db[s].gen >= 1
        BY DEF Listed, ContentInv, RowsInv
    <2>4. \A i \in Runs : \A s \in InHand(i)' : s \in InHand(i) \/ db[s].gen >= 1
        BY <2>1, <2>3 DEF InHand
    <2> QED
        BY <1>3, <2>1, <2>2, <2>4, OthersKeepContent DEF Same
<1>b. ASSUME NEW j \in Runs, NEW s \in Shares, JobWipe(j, s)
      PROVE  ContentInv'
    <2>1. /\ UNCHANGED <<db, used>>
          /\ job[j].current = {} /\ s \in job[j].queue
          /\ \A i \in Runs : i # j => job'[i] = job[i]
          /\ \/ job'[j].queue = {} /\ job'[j].current = {} /\ store' = store
             \/ /\ job'[j].queue \subseteq job[j].queue /\ job'[j].current = {s}
                /\ store' = [store EXCEPT ![s] = Wiped(s)]
        BY <1>2, <1>b DEF JobWipe, NoRun, Run
    <2>2. \A t \in Shares : InDeletion(t) => InDeletion(t)'
        BY <2>1 DEF InDeletion, At
    <2>3. \A i \in Runs : \A t \in InHand(i)' : t \in InHand(i)
        BY <2>1 DEF InHand
    <2>4. \A t \in Shares : store[t].disk \subseteq store'[t].disk \/ InDeletion(t)'
        BY <1>2, <2>1 DEF InDeletion
    <2>5. \A t \in Shares : \A f \in Files : store'[t].tmp[f] \in {0, store[t].tmp[f]}
        BY <1>2, <2>1 DEF Wiped, NoStorage, Storage
    <2> QED
        BY <1>3, <2>1, <2>2, <2>3, <2>4, <2>5, OthersKeepContent DEF Same
<1>c. ASSUME NEW j \in Runs, NEW s \in Shares, JobDelete(j, s)
      PROVE  ContentInv'
    <2>1. /\ UNCHANGED <<store, used>>
          /\ s \in job[j].current
          /\ \A i \in Runs : i # j => job'[i] = job[i]
          /\ job'[j].queue \subseteq job[j].queue /\ job'[j].current = {}
        BY <1>2, <1>c DEF JobDelete, NoRun, Run
    <2>2. \A t \in Shares : Same(t) \/ Gone(t)
        BY <1>2, <1>c DEF JobDelete, DeleteRow, NoRow, Same, Gone
    <2>3. ~db'[s].live
        BY <1>2, <1>c DEF JobDelete, DeleteRow, NoRow
    <2>4. \A t \in job[j].current : t = s
        BY <1>3, <2>1
    <2>5. \A t \in Shares : InDeletion(t) => InDeletion(t)' \/ ~db'[t].live
        BY <2>1, <2>2, <2>3, <2>4 DEF InDeletion, At, Same, Gone
    <2>6. \A i \in Runs : \A t \in InHand(i)' : t \in InHand(i)
        BY <2>1 DEF InHand
    <2>7. \A t \in Shares : db'[t].files \subseteq db[t].files
        BY <2>2 DEF Same, Gone
    <2> QED
        BY <1>3, <2>1, <2>2, <2>5, <2>6, <2>7, OthersKeepContent
<1>d. CASE DeleteTemporaryFiles
    <2>1. UNCHANGED <<db, used, job>>
        BY <1>d DEF DeleteTemporaryFiles
    <2>2. \A t \in Shares : /\ store'[t].disk = store[t].disk
                            /\ \A f \in Files : store'[t].tmp[f] \in {0, store[t].tmp[f]}
        BY <1>2, <1>d DEF DeleteTemporaryFiles, Storage
    <2>3. \A t \in Shares : InDeletion(t) => InDeletion(t)'
        BY <2>1 DEF InDeletion, At
    <2>4. \A i \in Runs : InHand(i)' = InHand(i)
        BY <2>1 DEF InHand
    <2> QED
        BY <1>3, <2>1, <2>2, <2>3, <2>4, OthersKeepContent DEF Same
<1> QED BY <1>1, <1>a, <1>b, <1>c, <1>d
-----------------------------------------------------------------------------
(* Uploads and removals of files *)

\* Files that are stored apart from each other.
KeysDiffer == Provider = "S3" => \A f, g \in Files : NameOf[f] = NameOf[g] => f = g

FileEffect(r) ==
    /\ \A q \in Requests : q # r => req'[q] = req[q]
    /\ req[r].step \in FileSteps \cup {"idle"} /\ req'[r].step \in FileSteps \cup {"idle"}
    /\ req'[r].step # "idle" => \/ db[req'[r].share].live
                                \/ req[r].step # "idle" /\ req'[r].share = req[r].share
    /\ scans' = scans
    /\ \A s \in Shares : /\ db'[s].live = db[s].live /\ db'[s].gen = db[s].gen
                         /\ db'[s].removed = db[s].removed
                         /\ ~db[s].live => db'[s].files \subseteq db[s].files

\* The rows stand, and so does who is deleting them.
LEMMA FileFrame ==
    ASSUME TypeOK, TypeOK', ContentInv, job' = job,
           NEW r \in Requests, FileEffect(r)
    PROVE  /\ RowsInv' /\ BegunInv'
           /\ \A s \in Shares : Doomed(s)' <=> Doomed(s)
<1>1. \A s \in Shares : Kept(s)
    BY DEF FileEffect, Kept, ContentInv, RowsInv
<1>2. RowsInv'
    BY <1>1, RowsStay DEF ContentInv
<1>3. ASSUME NEW q \in Requests, req'[q].step \notin CreationSteps
      PROVE  db'[req'[q].share].gen >= 1
    <2>1. req'[q].share \in Shares
        BY <1>3 DEF TypeOK, ServiceTypeOK, Request, Idle, CreationSteps
    <2>2. db[req'[q].share].gen >= 1
        BY <1>3, <2>1 DEF FileEffect, FileSteps, CreationSteps, ContentInv, BegunInv, RowsInv
    <2> QED BY <2>1, <2>2 DEF FileEffect
<1>4. /\ \A c \in scans' : c.step \in {"rows", "mark"} => db'[c.share].gen >= 1
      /\ \A j \in Runs : \A s \in InHand(j)' : db'[s].gen >= 1
    BY DEF FileEffect, TypeOK, TasksTypeOK, Scan, JobsTypeOK, Run, InHand, ContentInv, BegunInv
<1>5. BegunInv'
    BY <1>3, <1>4 DEF ContentInv, BegunInv
<1>6. ASSUME NEW q \in Requests
      PROVE  /\ At(q, "remove:row")' <=> At(q, "remove:row")
             /\ At(q, "remove:row") => req'[q].share = req[q].share
    BY DEF At, FileEffect, FileSteps
<1>7. ASSUME NEW s \in Shares
      PROVE  InDeletion(s)' <=> InDeletion(s)
    BY <1>6 DEF InDeletion, FileEffect
<1>8. \A s \in Shares : Doomed(s)' <=> Doomed(s)
    BY <1>7 DEF Doomed, FileEffect
<1> QED BY <1>2, <1>5, <1>8

LEMMA CheckKeepsContent ==
    ASSUME TypeOK, TypeOK', ContentInv, job' = job,
           NEW r \in Requests, NEW s \in Shares, NEW f \in Files, UploadCheck(r, s, f)
    PROVE  ContentInv'
<1>1. /\ req[r].step = "idle" /\ db[s].live
      /\ f \notin used \/ store[s].tmp[f] # 0
      /\ \A q \in Requests : req[q].file # f
      /\ req'[r].step = "upload:append" /\ req'[r].share = s /\ req'[r].file = f
      /\ \A q \in Requests : q # r => req'[q] = req[q]
      /\ used' = used \cup {f}
      /\ UNCHANGED <<db, store, scans>>
    BY DEF UploadCheck, Starts, FilesMutable, Editable, Idle, TypeOK, ServiceTypeOK, taskVars
<1>2. FileEffect(r)
    BY <1>1 DEF FileEffect, FileSteps
<1>3. UploadInv'
    BY <1>1 DEF ContentInv, UploadInv
<1>4. ASSUME NEW t \in Shares, NEW g \in Files
      PROVE  /\ Someone(RemovalSteps, t, g)' <=> Someone(RemovalSteps, t, g)
             /\ Someone({"upload:row"}, t, g)' <=> Someone({"upload:row"}, t, g)
             /\ Someone({"rmfile:row"}, t, g)' <=> Someone({"rmfile:row"}, t, g)
             /\ Someone(UploadSteps, t, g)' => Someone(UploadSteps, t, g) \/ <<t, g>> = <<s, f>>
    BY <1>1 DEF Someone, RemovalSteps
<1>5. ListedInv'
    BY <1>1, <1>2, <1>4, FileFrame DEF ContentInv, ListedInv
<1>6. BytesInv'
    BY <1>1, <1>2, <1>4, FileFrame DEF ContentInv, BytesInv, Key
<1> QED BY <1>2, <1>3, <1>5, <1>6, FileFrame DEF ContentInv

LEMMA AppendKeepsContent ==
    ASSUME TypeOK, TypeOK', ContentInv, job' = job,
           NEW r \in Requests, NEW last \in BOOLEAN, UploadAppend(r, last)
    PROVE  ContentInv'
<1>1. PICK s \in Shares, f \in Files :
          /\ s = req[r].share /\ f = req[r].file
          /\ req \in [Requests -> Request] /\ store \in [Shares -> Storage]
    BY InFlight DEF UploadAppend, At, FileSteps, TypeOK, ServiceTypeOK, StoreTypeOK
<1>2. /\ req[r].step = "upload:append"
      /\ \A q \in Requests : q # r => req'[q] = req[q]
      /\ \/ req'[r].step = "idle"
         \/ req'[r].step = "upload:rename" /\ req'[r].share = s /\ req'[r].file = f
      /\ UNCHANGED <<db, used, scans>>
    BY <1>1 DEF UploadAppend, At, Proceeds, Ends, Request, Idle, taskVars
<1>3. \A t \in Shares : /\ store'[t].disk = store[t].disk
                        /\ \A g \in Files : <<t, g>> # <<s, f>> => store'[t].tmp[g] = store[t].tmp[g]
    BY <1>1 DEF UploadAppend, Storage
<1>4. FileEffect(r)
    BY <1>1, <1>2 DEF FileEffect, FileSteps
<1>5. ASSUME NEW t \in Shares, NEW g \in Files
      PROVE  /\ Someone(RemovalSteps, t, g)' <=> Someone(RemovalSteps, t, g)
             /\ Someone({"upload:row"}, t, g)' <=> Someone({"upload:row"}, t, g)
             /\ Someone({"rmfile:row"}, t, g)' <=> Someone({"rmfile:row"}, t, g)
             /\ Someone(UploadSteps, t, g)' => Someone(UploadSteps, t, g)
    BY <1>1, <1>2 DEF Someone, RemovalSteps, UploadSteps
<1>6. Someone(UploadSteps, s, f)
    BY <1>1, <1>2 DEF Someone, UploadSteps
<1>7. UploadInv'
    <2>1. ASSUME NEW q \in Requests, req'[q].step \in UploadSteps
          PROVE  req[q].step \in UploadSteps /\ req'[q].file = req[q].file
        BY <1>1, <1>2, <2>1 DEF UploadSteps
    <2>2. ASSUME NEW q \in Requests, req'[q].step = "upload:row"
          PROVE  store'[req'[q].share].tmp[req'[q].file] = 0
        <3>1. q # r /\ req'[q] = req[q] /\ req[q].file # f
            BY <1>1, <1>2, <2>2 DEF ContentInv, UploadInv, UploadSteps
        <3>2. req[q].share \in Shares /\ req[q].file \in Files
            BY <2>2, <3>1, InFlight DEF TypeOK, At, FileSteps
        <3> QED BY <1>3, <2>2, <3>1, <3>2 DEF ContentInv, UploadInv, UploadSteps
    <2> QED BY <1>2, <2>1, <2>2 DEF ContentInv, UploadInv
<1>8. ListedInv'
    BY <1>2, <1>3, <1>4, <1>5, <1>6, FileFrame DEF ContentInv, ListedInv
<1>9. BytesInv'
    BY <1>2, <1>3, <1>4, <1>5, FileFrame DEF ContentInv, BytesInv, Key
<1> QED BY <1>4, <1>7, <1>8, <1>9, FileFrame DEF ContentInv

LEMMA RenameKeepsContent ==
    ASSUME TypeOK, TypeOK', ContentInv, job' = job, NEW r \in Requests, UploadRename(r)
    PROVE  ContentInv'
<1>1. PICK s \in Shares, f \in Files :
          /\ s = req[r].share /\ f = req[r].file
          /\ req \in [Requests -> Request] /\ store \in [Shares -> Storage]
    BY InFlight DEF UploadRename, At, FileSteps, TypeOK, ServiceTypeOK, StoreTypeOK
<1>2. /\ req[r].step = "upload:rename"
      /\ \A q \in Requests : q # r => req'[q] = req[q]
      /\ UNCHANGED <<db, used, scans>>
      /\ \/ req'[r].step = "idle" /\ store' = store
         \/ /\ req'[r].step = "upload:row" /\ req'[r].share = s /\ req'[r].file = f
            /\ store' = [store EXCEPT ![s].tmp[f] = 0, ![s].disk = @ \cup {Key(f)}]
    BY <1>1 DEF UploadRename, At, Proceeds, Ends, Request, Idle, taskVars
<1>3. /\ \A t \in Shares : /\ store[t].disk \subseteq store'[t].disk
                           /\ \A g \in Files : store'[t].tmp[g] \in {0, store[t].tmp[g]}
      /\ req'[r].step = "upload:row" => store'[s].tmp[f] = 0 /\ Key(f) \in store'[s].disk
    <2>1. CASE req'[r].step = "idle" /\ store' = store
        BY <2>1
    <2>2. CASE store' = [store EXCEPT ![s].tmp[f] = 0, ![s].disk = @ \cup {Key(f)}]
        <3>1. \A t \in Shares \ {s} : store'[t] = store[t]
            BY <1>1, <2>2
        <3>2. /\ store'[s].disk = store[s].disk \cup {Key(f)}
              /\ store'[s].tmp = [store[s].tmp EXCEPT ![f] = 0]
            BY <1>1, <2>2 DEF Storage
        <3>3. DOMAIN store[s].tmp = Files
            BY <1>1 DEF Storage
        <3>4. store'[s].tmp[f] = 0 /\ \A g \in Files \ {f} : store'[s].tmp[g] = store[s].tmp[g]
            BY <1>1, <3>2, <3>3
        <3> QED BY <3>1, <3>2, <3>4
    <2> QED BY <1>2, <2>1, <2>2
<1>4. FileEffect(r)
    BY <1>1, <1>2 DEF FileEffect, FileSteps
<1>5. ASSUME NEW t \in Shares, NEW g \in Files
      PROVE  /\ Someone(RemovalSteps, t, g)' <=> Someone(RemovalSteps, t, g)
             /\ Someone({"rmfile:row"}, t, g)' <=> Someone({"rmfile:row"}, t, g)
             /\ Someone(UploadSteps, t, g)' => Someone(UploadSteps, t, g)
             /\ Someone({"upload:row"}, t, g)' =>
                    \/ Someone({"upload:row"}, t, g)
                    \/ <<t, g>> = <<s, f>> /\ req'[r].step = "upload:row"
    BY <1>1, <1>2 DEF Someone, RemovalSteps, UploadSteps
<1>6. UploadInv'
    <2>1. ASSUME NEW q \in Requests, req'[q].step \in UploadSteps
          PROVE  req[q].step \in UploadSteps /\ req'[q].file = req[q].file
        BY <1>1, <1>2, <2>1 DEF UploadSteps
    <2>2. ASSUME NEW q \in Requests, q # r, req'[q].step = "upload:row"
          PROVE  store'[req'[q].share].tmp[req'[q].file] = 0
        <3>1. req'[q] = req[q] /\ req[q].share \in Shares /\ req[q].file \in Files
            BY <1>2, <2>2, InFlight DEF TypeOK, At, FileSteps
        <3>2. store[req[q].share].tmp[req[q].file] = 0
            BY <2>2, <3>1 DEF ContentInv, UploadInv, UploadSteps
        <3> QED BY <1>3, <3>1, <3>2
    <2> QED BY <1>2, <1>3, <2>1, <2>2 DEF ContentInv, UploadInv
<1>7. ListedInv'
    BY <1>2, <1>3, <1>4, <1>5, FileFrame DEF ContentInv, ListedInv
<1>8. BytesInv'
    BY <1>2, <1>3, <1>4, <1>5, FileFrame DEF ContentInv, BytesInv, Key
<1> QED BY <1>4, <1>6, <1>7, <1>8, FileFrame DEF ContentInv

LEMMA RowKeepsContent ==
    ASSUME TypeOK, TypeOK', ContentInv, job' = job, NEW r \in Requests, UploadRow(r)
    PROVE  ContentInv'
<1>1. PICK s \in Shares, f \in Files :
          /\ s = req[r].share /\ f = req[r].file
          /\ req \in [Requests -> Request] /\ db \in [Shares -> Row]
    BY InFlight DEF UploadRow, At, FileSteps, TypeOK, ServiceTypeOK, StoreTypeOK
<1>2. /\ req[r].step = "upload:row" /\ req'[r].step = "idle"
      /\ \A q \in Requests : q # r => req'[q] = req[q]
      /\ UNCHANGED <<store, used, scans>>
    BY <1>1 DEF UploadRow, At, Ends, Idle, taskVars
<1>3. \A t \in Shares : /\ db'[t].live = db[t].live /\ db'[t].gen = db[t].gen
                        /\ db'[t].removed = db[t].removed
                        /\ ~db[t].live => db'[t].files = db[t].files
                        /\ \A g \in db'[t].files : g \in db[t].files \/ <<t, g>> = <<s, f>>
    BY <1>1 DEF UploadRow, Row
<1>4. FileEffect(r)
    BY <1>2, <1>3 DEF FileEffect, FileSteps
<1>5. ASSUME NEW t \in Shares, NEW g \in Files
      PROVE  /\ Someone(RemovalSteps, t, g)' <=> Someone(RemovalSteps, t, g)
             /\ Someone({"rmfile:row"}, t, g)' <=> Someone({"rmfile:row"}, t, g)
             /\ Someone(UploadSteps, t, g)' => Someone(UploadSteps, t, g)
             /\ Someone({"upload:row"}, t, g)' => Someone({"upload:row"}, t, g)
    BY <1>2 DEF Someone, RemovalSteps, UploadSteps
<1>6. UploadInv'
    BY <1>2 DEF ContentInv, UploadInv, UploadSteps
\* Nobody else has the file under way.
<1>7. f \in used /\ store[s].tmp[f] = 0 /\ ~Someone(UploadSteps, s, f)'
    <2>1. /\ req[r].step \in UploadSteps /\ req'[r].step \notin UploadSteps
          /\ f \in used /\ store[s].tmp[f] = 0
          /\ \A q \in Requests : req[q].step \in UploadSteps /\ req[q].file = f => q = r
        BY <1>1, <1>2 DEF ContentInv, UploadInv, UploadSteps
    <2> QED BY <1>2, <2>1 DEF Someone
<1>8. ListedInv'
    <2>1. SUFFICES ASSUME NEW t \in Shares, NEW g \in Files, ~Doomed(t)',
                          g \in db'[t].files \/ Someone(RemovalSteps, t, g)'
                   PROVE  g \in used' /\ store'[t].tmp[g] = 0 /\ ~Someone(UploadSteps, t, g)'
        BY DEF ListedInv
    <2>2. CASE t = s /\ g = f
        BY <1>2, <1>7, <2>2
    <2>3. CASE ~(t = s /\ g = f)
        <3>1. ~Doomed(t) /\ (g \in db[t].files \/ Someone(RemovalSteps, t, g))
            BY <1>3, <1>4, <1>5, <2>1, <2>3, FileFrame
        <3> QED BY <1>2, <1>5, <3>1 DEF ContentInv, ListedInv
    <2> QED BY <2>2, <2>3
<1>9. BytesInv'
    <2>1. Someone({"upload:row"}, s, f)
        BY <1>1, <1>2 DEF Someone
    <2> QED
        BY <1>2, <1>3, <1>4, <1>5, <2>1, FileFrame DEF ContentInv, BytesInv, Key
<1> QED BY <1>4, <1>6, <1>8, <1>9, FileFrame DEF ContentInv

LEMMA RemovalKeepsContent ==
    ASSUME TypeOK, TypeOK', ContentInv, job' = job,
           NEW r \in Requests, NEW s \in Shares, NEW f \in Files, RemoveFileRead(r, s, f)
    PROVE  ContentInv'
<1>1. /\ req[r].step = "idle" /\ db[s].live /\ f \in db[s].files
      /\ req'[r].step = "rmfile:unlink" /\ req'[r].share = s /\ req'[r].file = f
      /\ \A q \in Requests : q # r => req'[q] = req[q]
      /\ UNCHANGED <<db, store, used, scans>>
    BY DEF RemoveFileRead, Starts, FilesMutable, Editable, Idle, TypeOK, ServiceTypeOK, taskVars
<1>2. FileEffect(r)
    BY <1>1 DEF FileEffect, FileSteps
<1>3. UploadInv'
    BY <1>1 DEF ContentInv, UploadInv, UploadSteps
<1>4. ASSUME NEW t \in Shares, NEW g \in Files
      PROVE  /\ Someone(UploadSteps, t, g)' <=> Someone(UploadSteps, t, g)
             /\ Someone({"upload:row"}, t, g)' <=> Someone({"upload:row"}, t, g)
             /\ Someone({"rmfile:row"}, t, g)' <=> Someone({"rmfile:row"}, t, g)
             /\ Someone(RemovalSteps, t, g)' => Someone(RemovalSteps, t, g) \/ <<t, g>> = <<s, f>>
    BY <1>1 DEF Someone, RemovalSteps, UploadSteps
<1>5. ListedInv'
    BY <1>1, <1>2, <1>4, FileFrame DEF ContentInv, ListedInv
<1>6. BytesInv'
    BY <1>1, <1>2, <1>4, FileFrame DEF ContentInv, BytesInv, Key
<1> QED BY <1>2, <1>3, <1>5, <1>6, FileFrame DEF ContentInv

LEMMA UnlinkKeepsContent ==
    ASSUME TypeOK, TypeOK', ContentInv, KeysDiffer, job' = job,
           NEW r \in Requests, RemoveFileUnlink(r)
    PROVE  ContentInv'
<1>1. PICK s \in Shares, f \in Files :
          /\ s = req[r].share /\ f = req[r].file
          /\ req \in [Requests -> Request] /\ store \in [Shares -> Storage]
    BY InFlight DEF RemoveFileUnlink, At, FileSteps, TypeOK, ServiceTypeOK, StoreTypeOK
<1>2. /\ req[r].step = "rmfile:unlink"
      /\ \A q \in Requests : q # r => req'[q] = req[q]
      /\ UNCHANGED <<db, used, scans>>
      /\ store' = [store EXCEPT ![s].disk = @ \ {Key(f)}]
      /\ \/ req'[r].step = "idle" /\ Key(f) \notin store[s].disk
         \/ req'[r].step = "rmfile:row" /\ req'[r].share = s /\ req'[r].file = f
    <2>1. /\ req[r].step = "rmfile:unlink"
          /\ UNCHANGED <<db, used, scans>>
          /\ store' = [store EXCEPT ![s].disk = @ \ {Key(f)}]
        BY <1>1 DEF RemoveFileUnlink, At, taskVars
    <2>2. CASE Provider = "S3" \/ f \in store[s].disk
        BY <1>1, <2>1, <2>2 DEF RemoveFileUnlink, Proceeds, Request, Idle
    <2>3. CASE ~(Provider = "S3" \/ f \in store[s].disk)
        BY <1>1, <2>1, <2>3 DEF RemoveFileUnlink, Ends, Idle, Key
    <2> QED BY <2>2, <2>3
<1>3. \A t \in Shares : /\ store'[t].tmp = store[t].tmp
                        /\ \A k \in store[t].disk : k \in store'[t].disk \/ (t = s /\ k = Key(f))
    BY <1>1, <1>2 DEF Storage
<1>4. FileEffect(r)
    BY <1>1, <1>2 DEF FileEffect, FileSteps
<1>5. ASSUME NEW t \in Shares, NEW g \in Files
      PROVE  /\ Someone(UploadSteps, t, g)' <=> Someone(UploadSteps, t, g)
             /\ Someone({"upload:row"}, t, g)' <=> Someone({"upload:row"}, t, g)
             /\ Someone(RemovalSteps, t, g)' => Someone(RemovalSteps, t, g)
             /\ Someone({"rmfile:row"}, t, g) => Someone({"rmfile:row"}, t, g)'
    BY <1>1, <1>2 DEF Someone, RemovalSteps, UploadSteps
<1>6. UploadInv'
    <2>1. ASSUME NEW q \in Requests, req'[q].step = "upload:row"
          PROVE  store'[req'[q].share].tmp[req'[q].file] = 0
        <3>1. req'[q] = req[q] /\ req[q].share \in Shares
            BY <1>2, <2>1, InFlight DEF TypeOK, At, FileSteps
        <3> QED BY <1>3, <2>1, <3>1 DEF ContentInv, UploadInv, UploadSteps
    <2> QED BY <1>2, <2>1 DEF ContentInv, UploadInv, UploadSteps
<1>7. ListedInv'
    BY <1>2, <1>3, <1>4, <1>5, FileFrame DEF ContentInv, ListedInv
<1>8. BytesInv'
    <2>1. \A g \in Files : Key(g) = Key(f) => g = f
        BY <1>1 DEF KeysDiffer, Key
    <2>2. Key(f) \in store[s].disk => Someone({"rmfile:row"}, s, f)'
        BY <1>2 DEF Someone
    <2> QED
        BY <1>2, <1>3, <1>4, <1>5, <2>1, <2>2, FileFrame DEF ContentInv, BytesInv, Key
<1> QED BY <1>4, <1>6, <1>7, <1>8, FileFrame DEF ContentInv

LEMMA UnlistKeepsContent ==
    ASSUME TypeOK, TypeOK', ContentInv, job' = job, NEW r \in Requests, RemoveFileRow(r)
    PROVE  ContentInv'
<1>1. PICK s \in Shares, f \in Files :
          /\ s = req[r].share /\ f = req[r].file
          /\ req \in [Requests -> Request] /\ db \in [Shares -> Row]
    BY InFlight DEF RemoveFileRow, At, FileSteps, TypeOK, ServiceTypeOK, StoreTypeOK
<1>2. /\ req[r].step = "rmfile:row" /\ req'[r].step = "idle"
      /\ \A q \in Requests : q # r => req'[q] = req[q]
      /\ UNCHANGED <<store, used, scans>>
    BY <1>1 DEF RemoveFileRow, At, Ends, Idle, taskVars
<1>3. /\ \A t \in Shares : /\ db'[t].live = db[t].live /\ db'[t].gen = db[t].gen
                           /\ db'[t].removed = db[t].removed
                           /\ db'[t].files \subseteq db[t].files
      /\ f \notin db'[s].files
    BY <1>1 DEF RemoveFileRow, Row
<1>4. FileEffect(r)
    BY <1>2, <1>3 DEF FileEffect, FileSteps
<1>5. ASSUME NEW t \in Shares, NEW g \in Files
      PROVE  /\ Someone(UploadSteps, t, g)' <=> Someone(UploadSteps, t, g)
             /\ Someone({"upload:row"}, t, g)' <=> Someone({"upload:row"}, t, g)
             /\ Someone(RemovalSteps, t, g)' => Someone(RemovalSteps, t, g)
             /\ Someone({"rmfile:row"}, t, g) => Someone({"rmfile:row"}, t, g)' \/ <<t, g>> = <<s, f>>
    BY <1>1, <1>2 DEF Someone, RemovalSteps, UploadSteps
<1>6. UploadInv'
    BY <1>2 DEF ContentInv, UploadInv, UploadSteps
<1>7. ListedInv'
    BY <1>2, <1>3, <1>4, <1>5, FileFrame DEF ContentInv, ListedInv
\* What is being removed is not about to be listed.
<1>8. ~Doomed(s) => ~Someone({"upload:row"}, s, f)
    <2>1. Someone(RemovalSteps, s, f)
        BY <1>1, <1>2 DEF Someone, RemovalSteps
    <2>2. Someone({"upload:row"}, s, f) => Someone(UploadSteps, s, f)
        BY DEF Someone, UploadSteps
    <2> QED BY <1>1, <2>1, <2>2 DEF ContentInv, ListedInv
<1>9. BytesInv'
    BY <1>2, <1>3, <1>4, <1>5, <1>8, FileFrame DEF ContentInv, BytesInv, Key
<1> QED BY <1>4, <1>6, <1>7, <1>9, FileFrame DEF ContentInv

(***************************************************************************)
(* Every listed file has its bytes, as long as its share is the first of   *)
(* its id and no crash comes between a deletion's two halves, for any      *)
(* number of shares, files, requests, tasks and cleanup runs: uploads      *)
(* write the bytes first, and whoever takes them away sees to the row.  In *)
(* a bucket this takes files with names of their own.                      *)
(***************************************************************************)
THEOREM ContentTheorem ==
    ASSUME KeysDiffer, "crash" \notin Ops PROVE Spec => []RowsHaveBytes
<1>1. Init => ContentInv
    BY DEF Init, StoreInit, TasksInit, ServiceInit, JobsInit, NoRow, NoRun, Idle, InHand,
           ContentInv, RowsInv, BegunInv, UploadInv, ListedInv, BytesInv, Someone,
           UploadSteps, RemovalSteps, CreationSteps
<1>2. ASSUME TypeOK, TypeOK', ContentInv, [Next]_vars
      PROVE  ContentInv'
    <2>1. CASE ServiceStep /\ UNCHANGED job
        BY <1>2, <2>1, ServiceKeepsContent
    <2>2. CASE FileStep /\ UNCHANGED job
        BY <1>2, <2>2, CheckKeepsContent, AppendKeepsContent, RenameKeepsContent,
           RowKeepsContent, RemovalKeepsContent, UnlinkKeepsContent, UnlistKeepsContent
           DEF FileStep
    <2>3. CASE ZipStep /\ UNCHANGED <<req, job>>
        BY <1>2, <2>3, ZipKeepsContent
    <2>4. CASE ScanStep /\ UNCHANGED <<req, job>>
        BY <1>2, <2>4, ScanKeepsContent
    <2>5. CASE JobStep /\ UNCHANGED <<req, zips, scans>>
        BY <1>2, <2>5, JobKeepsContent
    <2>6. CASE (Tick /\ UNCHANGED <<req, job, zips, scans>>) \/ UNCHANGED vars
        <3>1. UNCHANGED <<db, store, used, req, job, scans>>
            BY <2>6 DEF Tick, vars
        <3> QED
            BY <1>2, <3>1
            DEF ContentInv, RowsInv, BegunInv, UploadInv, ListedInv, BytesInv, Doomed,
                InDeletion, Someone, At, InHand, Key
    <2> QED BY <1>2, <2>1, <2>2, <2>3, <2>4, <2>5, <2>6 DEF Next, Crash
<1>3. TypeOK /\ ContentInv => RowsHaveBytes
    BY ContentSuffices
<1> QED BY <1>1, <1>2, <1>3, TypeCorrect, PTL DEF Spec
=============================================================================
