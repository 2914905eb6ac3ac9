---------------------------- MODULE JobsService -----------------------------
(***************************************************************************)
(* The cron jobs over shares (jobs.service.ts).  Each run reads its list   *)
(* once and then deletes share by share with two awaits each; nothing      *)
(* keeps a second run, of this job or of the other, from starting before   *)
(* the first has ended.                                                    *)
(***************************************************************************)
EXTENDS ShareStore

CONSTANTS
    Runs,      \* the job runs that may be in flight at once
    JobOf      \* JobOf[j]: which of the two handlers run j executes

Jobs == {"deleteExpiredShares", "deleteUnfinishedShares"}

ASSUME JobsAssumption == JobOf \in [Runs -> Jobs]

VARIABLE job   \* job[j]: the list of run j, what is left of it, the share at hand

Run == [queue: SUBSET Shares, current: SUBSET Shares, seen: [Shares -> Row]]

NoRun == [queue |-> {}, current |-> {}, seen |-> [s \in Shares |-> NoRow(0)]]

JobsTypeOK == job \in [Runs -> Run]

JobsInit == job = [j \in Runs |-> NoRun]

\* The shares run j has listed and not yet finished with.
InHand(j) == job[j].queue \cup job[j].current

-----------------------------------------------------------------------------
\* Mutant of PastRetention: the retention period is forgotten.
PastExpiration(row) == row.expiration < now /\ row.expiration # Never

\* Expiration plus retention lies in the past, and the share does expire.
PastRetention(row) ==
    /\ row.expiration + RetentionPeriod < now
    /\ row.expiration # Never

Unfinished(row) == row.createdAt + OneDay < now /\ ~row.uploadLocked

Listed(kind) ==
    {s \in Shares : /\ db[s].live
                    /\ IF kind = "deleteExpiredShares"
                       THEN PastRetention(db[s]) ELSE Unfinished(db[s])}

\* findMany: the list, with the rows as they are now.
JobList(j) ==
    /\ InHand(j) = {}
    /\ Listed(JobOf[j]) # {}
    /\ job' = [job EXCEPT ![j] =
                  [queue |-> Listed(JobOf[j]), current |-> {},
                   seen |-> [s \in Shares |-> IF s \in Listed(JobOf[j])
                                              THEN db[s] ELSE NoRow(0)]]]
    /\ UNCHANGED <<now, db, store, used>>

\* deleteAllFiles with the listed provider; an error ends the whole run.
JobWipe(j, s) ==
    /\ job[j].current = {}
    /\ s \in job[j].queue
    /\ IF CanWipe(s)
       THEN /\ store' = [store EXCEPT ![s] = Wiped(s)]
            /\ job' = [job EXCEPT ![j].queue = @ \ {s}, ![j].current = {s}]
       ELSE /\ job' = [job EXCEPT ![j] = NoRun]
            /\ UNCHANGED store
    /\ UNCHANGED <<now, db, used>>

\* Mutant of JobDelete: the row is left behind once its files are gone.
JobForgetsRow(j, s) ==
    /\ s \in job[j].current
    /\ job' = [job EXCEPT ![j] = NoRun]
    /\ UNCHANGED <<now, db, store, used>>

\* share.delete by id; when the row is gone the error ends the whole run.
JobDelete(j, s) ==
    /\ s \in job[j].current
    /\ IF db[s].live
       THEN /\ DeleteRow(s)
            /\ job' = IF job[j].queue = {} THEN [job EXCEPT ![j] = NoRun]
                      ELSE [job EXCEPT ![j].current = {}, ![j].seen[s] = NoRow(0)]
       ELSE /\ job' = [job EXCEPT ![j] = NoRun]
            /\ UNCHANGED db
    /\ UNCHANGED <<now, store, used>>

\* deleteTemporaryFiles is synchronous: one step over all directories.
DeleteTemporaryFiles ==
    /\ Provider = "LOCAL"
    /\ store' = [s \in Shares |-> [store[s] EXCEPT !.tmp =
                    [f \in Files |-> IF store[s].tmp[f] + OneDay < now
                                    THEN 0 ELSE store[s].tmp[f]]]]
    /\ store' # store
    /\ UNCHANGED <<now, db, used, job>>

JobStep ==
    \/ \E j \in Runs : JobList(j) \/ \E s \in Shares : JobWipe(j, s) \/ JobDelete(j, s)
    \/ DeleteTemporaryFiles
=============================================================================
