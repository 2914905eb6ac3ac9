----------------------------- MODULE ShareSystem ----------------------------
(***************************************************************************)
(* The share system: owner requests, uploads, the background tasks of      *)
(* completing a share and the cron jobs, interleaved at their awaits over  *)
(* one store and one clock.                                                *)
(***************************************************************************)
EXTENDS FileService, JobsService

vars == <<now, db, store, used, zips, scans, req, job>>

TypeOK == StoreTypeOK /\ TasksTypeOK /\ ServiceTypeOK /\ JobsTypeOK

Init == StoreInit /\ TasksInit /\ ServiceInit /\ JobsInit

(***************************************************************************)
(* The process stops and is restarted by its supervisor: everything in     *)
(* flight is lost, with S3 also the multipart uploads kept in memory.      *)
(***************************************************************************)
Crash ==
    /\ "crash" \in Ops
    /\ req' = [r \in Requests |-> Idle]
    /\ job' = [j \in Runs |-> NoRun]
    /\ zips' = {}
    /\ scans' = {}
    /\ store' = IF Provider = "LOCAL" THEN store
                ELSE [s \in Shares |-> [store[s] EXCEPT !.tmp = [f \in Files |-> 0]]]
    /\ UNCHANGED <<now, db, used>>

Next ==
    \/ ServiceStep /\ UNCHANGED job
    \/ FileStep /\ UNCHANGED job
    \/ ZipStep /\ UNCHANGED <<req, job>>
    \/ ScanStep /\ UNCHANGED <<req, job>>
    \/ JobStep /\ UNCHANGED <<req, zips, scans>>
    \/ Tick /\ UNCHANGED <<req, job, zips, scans>>
    \/ Crash

Spec == Init /\ [][Next]_vars

(***************************************************************************)
(* A handler's continuation is run once its await has settled, so a task   *)
(* or job run that can go on does; cron starts a job again and again.      *)
(* Clients owe nothing, and the process does not crash for ever.           *)
(***************************************************************************)
ScanActsOn(s) ==
    \E c \in scans : c.share = s /\ (ScanWipe(c) \/ ScanRows(c) \/ ScanMark(c))

Fairness ==
    /\ \A j \in Runs :
           /\ WF_vars(JobList(j) /\ UNCHANGED <<req, zips, scans>>)
           /\ \A s \in Shares :
                  WF_vars((JobWipe(j, s) \/ JobDelete(j, s)) /\ UNCHANGED <<req, zips, scans>>)
    /\ \A s \in Shares : WF_vars(ScanActsOn(s) /\ UNCHANGED <<req, job>>)
    /\ <>[][~Crash]_vars

FairSpec == Spec /\ Fairness

-----------------------------------------------------------------------------
(* What must hold *)

(***************************************************************************)
(* Whenever a run of deleteExpiredShares has a share in hand whose row is  *)
(* still the one it listed with the same expiration, the share can no      *)
(* longer be edited: the editable period ends within the retention period, *)
(* so no owner is editing what the job is about to delete, however long    *)
(* the run takes.                                                          *)
(***************************************************************************)
SweptIsNotEditable ==
    \A j \in Runs : \A s \in InHand(j) :
        ( /\ JobOf[j] = "deleteExpiredShares"
          /\ db[s].gen = job[j].seen[s].gen
          /\ db[s].expiration = job[j].seen[s].expiration )
        => ~Editable(s)

\* Someone has begun to delete share s, or has its files removed by the scan.
InDeletion(s) ==
    \/ \E j \in Runs : s \in job[j].current
    \/ \E r \in Requests : At(r, "remove:row") /\ req[r].share = s
    \/ \E c \in scans : c.share = s /\ c.step \in {"rows", "mark"}
    \/ db[s].removed

(***************************************************************************)
(* Every File row has its bytes in storage, unless the share is being      *)
(* deleted or the file's own removal is between unlink and file.delete:    *)
(* uploads write the bytes before the row, removals take the row last.     *)
(* It is claimed of the first share under an id: an upload that outlives   *)
(* its share attaches its row to the next one with that id.  In a bucket   *)
(* files of one name share one object, so there it holds only as long as   *)
(* the names differ.                                                       *)
(***************************************************************************)
RowsHaveBytes ==
    \A s \in Shares : \A f \in db[s].files :
        \/ Key(f) \in store[s].disk
        \/ db[s].gen > 1
        \/ InDeletion(s)
        \/ \E r \in Requests :
               /\ At(r, "rmfile:row")
               /\ req[r].share = s /\ req[r].file = f

(***************************************************************************)
(* Shares past their retention leave the database: the cron job deletes    *)
(* them, or their owner gives them a new life before it gets there.        *)
(***************************************************************************)
ExpiredIsSwept ==
    \A s \in Shares :
        (db[s].live /\ PastRetention(db[s])) ~> ~(db[s].live /\ PastRetention(db[s]))

-----------------------------------------------------------------------------
(* What the repository says of the program and its code does not keep *)

(***************************************************************************)
(* create accepts no lifetime beyond share.maxExpiration; a share that     *)
(* never expires is beyond it.                                             *)
(***************************************************************************)
CreatedWithinMaxExpiration ==
    [][\A s \in Shares :
          (MaxExpiration # 0 /\ ~db[s].live /\ db'[s].live)
          => db'[s].expiration # Never /\ db'[s].expiration <= now + MaxExpiration]_vars

\* A completion that is about to take effect finds the share not completed.
CompletesOnlyOpenShare ==
    \A r \in Requests : At(r, "complete:lock") => ~db[req[r].share].uploadLocked

\* While a share is completed it gains no file.
CompletedGainsNoFile ==
    [][\A s \in Shares :
          (db[s].uploadLocked /\ db'[s].uploadLocked) => db'[s].files \subseteq db[s].files]_vars

\* The archive offered as ready, and not being written anew, holds all files.
ArchiveHoldsAllFiles ==
    \A s \in Shares :
        ( /\ Provider = "LOCAL"
          /\ db[s].uploadLocked /\ db[s].isZipReady
          /\ Cardinality(db[s].files) > 1
          /\ \A z \in zips : z.share # s
          /\ ~InDeletion(s) )
        => db[s].files \subseteq store[s].zip

\* deleteExpiredShares deletes no share with a life before it.
SweepSparesUnexpired ==
    [][\A j \in Runs : \A s \in job[j].current :
          (JobOf[j] = "deleteExpiredShares" /\ db[s].live /\ ~db'[s].live)
          => db[s].expiration # Never /\ db[s].expiration <= now]_vars

(***************************************************************************)
(* A share that had been completed when a job listed it, and that expired  *)
(* less than the retention period ago, is not deleted by the job.          *)
(***************************************************************************)
RetainedAfterExpiry ==
    [][\A j \in Runs : \A s \in job[j].current :
          ( /\ db[s].live /\ ~db'[s].live
            /\ job[j].seen[s].everCompleted
            /\ IsShareExpired(db[s]) )
          => PastRetention(db[s])]_vars

(***************************************************************************)
(* When all is quiet, a completed share that holds an infected file has    *)
(* been removed.                                                           *)
(***************************************************************************)
InfectedIsRemoved ==
    \A s \in Shares :
        ( /\ ClamActive
          /\ db[s].uploadLocked
          /\ db[s].files \cap Infected # {}
          /\ \A c \in scans : c.share # s )
        => \/ db[s].removed
           \/ \E r \in Requests : req[r].step # "idle"

(***************************************************************************)
(* Once a scan has found a malicious file and starts to act, the share     *)
(* ends up marked as removed or gone: integrations.md has ClamAV remove    *)
(* malicious files.  A crash between wiping, rows and mark leaves a share  *)
(* without files and without the reason.                                   *)
(***************************************************************************)
FindingActedOn ==
    \A s \in Shares :
        (\E c \in scans : c.share = s /\ c.step \in {"wipe", "rows", "mark"})
        ~> (~db[s].live \/ db[s].removed)
=============================================================================
