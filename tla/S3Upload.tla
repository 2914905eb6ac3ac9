------------------------------ MODULE S3Upload -------------------------------
(***************************************************************************)
(* Uploading files chunk by chunk to a bucket: the browser's loop of       *)
(* UploadClient and S3FileService.create.  Which multipart upload a file   *)
(* belongs to, and which parts it has, is kept in the memory of the        *)
(* process, by file id; the objects are keyed by file name.  The bucket is *)
(* external: it refuses to complete an upload whose parts do not ascend,   *)
(* or that is no longer open, and any of its answers may be an error.      *)
(***************************************************************************)
EXTENDS UploadClient

CONSTANT Mpus    \* the multipart uploads the bucket has at one time, 1..n

ASSUME S3Assumption == Mpus \subseteq Nat \ {0}

VARIABLES
    session,   \* session[i]: multipartUploads[i], the number of an upload, or 0
    parts,     \* parts[m]: the parts the process has noted for upload m
    open,      \* the uploads that are open in the bucket
    object,    \* object[u]: the chunks of the object of that name
    name       \* name[i]: the name in the row of file i, NoId if there is none

bucketVars == <<session, parts, open, object, name>>
s3Vars == <<client, handler, rows, fresh, faults, lastLost, session, parts, open,
            object, name>>

NoUpload == 0

S3TypeOK ==
    /\ ClientTypeOK({"check", "part", "finish", "size", "row", "abort", "reply"})
    /\ session \in [Ids -> Mpus \cup {NoUpload}]
    /\ parts \in [Mpus -> Seq(Indices)]
    /\ open \subseteq Mpus
    /\ object \in [Uploads -> Seq(Indices)]
    /\ name \in [Ids -> Uploads \cup {NoId}]

S3Init ==
    /\ ClientInit
    /\ session = [i \in Ids |-> NoUpload]
    /\ parts = [m \in Mpus |-> <<>>]
    /\ open = {}
    /\ object = [u \in Uploads |-> <<>>]
    /\ name = [i \in Ids |-> NoId]

-----------------------------------------------------------------------------
(***************************************************************************)
(* An upload nobody refers to any more and that is closed could be any     *)
(* other one: its number is used again.                                    *)
(***************************************************************************)
Unused ==
    Mpus \ (open \cup {session[i] : i \in Ids}
                 \cup {handler[h].mpu : h \in {g \in Handlers : ~IsIdle(g)}})

Mpu(h) == handler[h].mpu
Session(h) == session[handler[h].id]

\* The bucket answers a call with an error: on to the catch clause.
BucketFails(h) ==
    /\ \/ handler[h].step \in {"part", "finish"}
       \/ handler[h].step = "check" /\ handler[h].index = 0
    /\ "bucket" \in Faults
    /\ OneMoreFault
    /\ Advances(h, "abort")
    /\ UNCHANGED <<client, rows, fresh, lastLost, bucketVars>>

\* The first chunk opens an upload and with it a session, in place of any other.
Open(h) ==
    /\ handler[h].step = "check"
    /\ handler[h].index = 0
    /\ Unused # {}
    /\ LET m == AnyOf(Unused)
       IN  /\ open' = open \cup {m}
           /\ parts' = [parts EXCEPT ![m] = <<>>]
           /\ session' = [session EXCEPT ![handler[h].id] = m]
           /\ handler' = [handler EXCEPT ![h].step = "part", ![h].mpu = m]
    /\ UNCHANGED <<client, rows, fresh, faults, lastLost, object, name>>

\* Mutant of Join: a chunk without a session opens a new upload.
JoinOpensAnother(h) ==
    /\ handler[h].step = "check"
    /\ handler[h].index # 0
    /\ LET m == IF Session(h) = NoUpload THEN AnyOf(Unused) ELSE Session(h)
       IN  /\ open' = open \cup {m}
           /\ session' = [session EXCEPT ![handler[h].id] = m]
           /\ handler' = [handler EXCEPT ![h].step = "part", ![h].mpu = m]
    /\ UNCHANGED <<client, rows, fresh, faults, lastLost, parts, object, name>>

\* Any other chunk needs the session; "session not found" goes to the catch clause.
Join(h) ==
    /\ handler[h].step = "check"
    /\ handler[h].index # 0
    /\ IF Session(h) = NoUpload
       THEN Advances(h, "abort")
       ELSE handler' = [handler EXCEPT ![h].step = "part", ![h].mpu = Session(h)]
    /\ UNCHANGED <<client, rows, fresh, faults, lastLost, bucketVars>>

\* UploadPart, and the part is noted in the session the request began with.
UploadPart(h) ==
    /\ handler[h].step = "part"
    /\ IF Mpu(h) \in open
       THEN /\ parts' = [parts EXCEPT ![Mpu(h)] = Append(@, handler[h].index)]
            /\ IF IsLast(h) THEN Advances(h, "finish") ELSE Replies(h, "ok", 0)
       ELSE Advances(h, "abort") /\ UNCHANGED parts
    /\ UNCHANGED <<client, rows, fresh, faults, lastLost, session, open, object, name>>

\* The parts noted for a closed upload are of no use to anyone.
Closes(m) == open' = open \ {m} /\ parts' = [parts EXCEPT ![m] = <<>>]

Ascending(s) == \A k \in 1 .. Len(s) - 1 : s[k] < s[k + 1]

\* CompleteMultipartUpload; the session of that id goes, whichever it is by now.
Finish(h) ==
    /\ handler[h].step = "finish"
    /\ LET m == Mpu(h)
       IN  IF m \in open /\ Ascending(parts[m])
           THEN /\ object' = [object EXCEPT ![handler[h].of] = parts[m]]
                /\ Closes(m)
                /\ session' = [session EXCEPT ![handler[h].id] = NoUpload]
                /\ Advances(h, "size")
           ELSE Advances(h, "abort") /\ UNCHANGED <<object, open, parts, session>>
    /\ UNCHANGED <<client, rows, fresh, faults, lastLost, name>>

(***************************************************************************)
(* The catch clause aborts the session the id has now, which need not be   *)
(* the one the request worked on; if the abort fails, the upload stays     *)
(* open and the session goes all the same.                                 *)
(***************************************************************************)
AbortSession(h) ==
    /\ handler[h].step = "abort"
    /\ IF Session(h) # NoUpload THEN Closes(Session(h)) ELSE UNCHANGED <<open, parts>>
    /\ session' = [session EXCEPT ![handler[h].id] = NoUpload]
    /\ Replies(h, "error", 0)
    /\ UNCHANGED <<client, rows, fresh, faults, lastLost, object, name>>

AbortFails(h) ==
    /\ handler[h].step = "abort"
    /\ "bucket" \in Faults
    /\ Session(h) # NoUpload
    /\ OneMoreFault
    /\ session' = [session EXCEPT ![handler[h].id] = NoUpload]
    /\ Replies(h, "error", 0)
    /\ UNCHANGED <<client, rows, fresh, lastLost, parts, open, object, name>>

\* getFileSize is outside the try block: its failure is the request's.
ReadSize(h) ==
    /\ handler[h].step = "size"
    /\ Advances(h, "row")
    /\ UNCHANGED <<client, rows, fresh, faults, lastLost, bucketVars>>

SizeFails(h) ==
    /\ handler[h].step = "size"
    /\ "bucket" \in Faults
    /\ OneMoreFault
    /\ Replies(h, "error", 0)
    /\ UNCHANGED <<client, rows, fresh, lastLost, bucketVars>>

\* The row refers to the object by the name alone.
CreateRow(h) ==
    /\ CreateFileRow(h)
    /\ name' = [name EXCEPT ![handler[h].id] = IF handler[h].id \in rows THEN @ ELSE handler[h].of]
    /\ UNCHANGED <<session, parts, open, object>>

\* A restart finds no sessions; what is open in the bucket stays open.
S3Crash ==
    /\ ProcessDies
    /\ session' = [i \in Ids |-> NoUpload]
    /\ parts' = [m \in Mpus |-> <<>>]
    /\ UNCHANGED <<open, object, name>>

S3Serve(h) ==
    \/ Open(h) \/ Join(h) \/ UploadPart(h) \/ Finish(h) \/ AbortSession(h) \/ ReadSize(h)
    \/ CreateRow(h) \/ (Answer(h) /\ UNCHANGED bucketVars)

BucketError(h) ==
    BucketFails(h) \/ AbortFails(h) \/ SizeFails(h)

S3Next ==
    \/ \E u \in Uploads : (Send(u) \/ Lose(u)) /\ UNCHANGED bucketVars
    \/ \E h \in Handlers : S3Serve(h) \/ BucketError(h)
    \/ S3Crash

S3Spec == S3Init /\ [][S3Next]_s3Vars

\* The event loop runs every continuation and the client's loop goes on.
S3FairSpec ==
    /\ S3Spec
    /\ \A u \in Uploads : WF_s3Vars(Send(u) /\ UNCHANGED bucketVars)
    /\ \A h \in Handlers : WF_s3Vars(S3Serve(h))

-----------------------------------------------------------------------------
(* What must hold, besides the properties of UploadClient *)

(***************************************************************************)
(* Readers see a file only whole: this upload implements AtomicFiles, too. *)
(* A row's bytes are the object of its name.                               *)
(***************************************************************************)
S3Visible ==
    [i \in Ids |-> IF i \notin rows THEN "absent"
                   ELSE IF object[name[i]] = Whole THEN "whole" ELSE "broken"]

S3Promise == INSTANCE AtomicFiles WITH file <- S3Visible

S3FilesAppearWhole == S3Promise!Spec

\* When all is over the bucket is left with no upload that nobody can finish.
NothingLeftOpen ==
    (\A u \in Uploads : client[u].pc \in {"done", "failed"}) => open = {}
=============================================================================
