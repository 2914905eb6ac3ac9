---------------------------- MODULE ChunkUpload -----------------------------
(***************************************************************************)
(* Uploading files chunk by chunk to the local disk: the browser's loop of *)
(* UploadClient and LocalFileService.create with its awaits, when answers  *)
(* get lost and the process crashes.                                       *)
(***************************************************************************)
EXTENDS UploadClient, FiniteSetsExt

CONSTANT MaxSize    \* share.maxSize

ASSUME UploadAssumption == MaxSize \in Nat

VARIABLES
    tmp,       \* tmp[i]: the chunks in "<i>.tmp-chunk", <<>> if there is none
    disk       \* disk[i]: the chunks in the finished file

diskVars == <<tmp, disk>>
vars == <<client, handler, rows, fresh, faults, lastLost, tmp, disk>>

Torn == Chunks       \* a chunk that was not written to its end

Content == Seq(Indices \cup {Torn})

TypeOK ==
    /\ ClientTypeOK({"check", "append", "rename", "row", "reply"})
    /\ tmp \in [Ids -> Content]
    /\ disk \in [Ids -> Content]

Init ==
    /\ ClientInit
    /\ tmp = [i \in Ids |-> <<>>]
    /\ disk = [i \in Ids |-> <<>>]

-----------------------------------------------------------------------------
(* LocalFileService.create *)

Size(ids) == MapThenSumSet(LAMBDA i : Len(disk[i]), ids)

\* The temporary file's size tells which chunk is expected.
Check(h) ==
    /\ handler[h].step = "check"
    /\ LET have == Len(tmp[handler[h].id])
       IN  IF have # handler[h].index THEN Replies(h, "expected", have)
           ELSE IF Size(rows) + have + 1 > MaxSize THEN Replies(h, "too large", 0)
           ELSE Advances(h, "append")
    /\ UNCHANGED <<client, tmp, disk, rows, fresh, faults, lastLost>>

\* Mutant of AppendChunk: the chunk before the last is taken for the last.
AppendEndsEarly(h) ==
    /\ handler[h].step = "append"
    /\ tmp' = [tmp EXCEPT ![handler[h].id] = Append(@, handler[h].index)]
    /\ IF handler[h].index >= Chunks - 2 THEN Advances(h, "rename") ELSE Replies(h, "ok", 0)
    /\ UNCHANGED <<client, disk, rows, fresh, faults, lastLost>>

AppendChunk(h) ==
    /\ handler[h].step = "append"
    /\ tmp' = [tmp EXCEPT ![handler[h].id] = Append(@, handler[h].index)]
    /\ IF IsLast(h) THEN Advances(h, "rename") ELSE Replies(h, "ok", 0)
    /\ UNCHANGED <<client, disk, rows, fresh, faults, lastLost>>

\* rename replaces a finished file of that id, and fails without a source.
RenameChunks(h) ==
    /\ handler[h].step = "rename"
    /\ LET i == handler[h].id
       IN  IF tmp[i] # <<>>
           THEN /\ disk' = [disk EXCEPT ![i] = tmp[i]]
                /\ tmp' = [tmp EXCEPT ![i] = <<>>]
                /\ Advances(h, "row")
           ELSE Replies(h, "error", 0) /\ UNCHANGED <<disk, tmp>>
    /\ UNCHANGED <<client, rows, fresh, faults, lastLost>>

\* A crash leaves the disk as it is; an append may have been cut short.
Crash ==
    /\ ProcessDies
    /\ \/ UNCHANGED tmp
       \/ /\ "torn" \in Faults
          /\ \E h \in Handlers :
                /\ handler[h].step = "append"
                /\ tmp' = [tmp EXCEPT ![handler[h].id] = Append(@, Torn)]
    /\ UNCHANGED disk

Serve(h) ==
    \/ Check(h) \/ AppendChunk(h) \/ RenameChunks(h)
    \/ (CreateFileRow(h) \/ Answer(h)) /\ UNCHANGED diskVars

Next ==
    \/ \E u \in Uploads : (Send(u) \/ Lose(u)) /\ UNCHANGED diskVars
    \/ \E h \in Handlers : Serve(h)
    \/ Crash

Spec == Init /\ [][Next]_vars

\* The event loop runs every continuation and the client's loop goes on.
FairSpec ==
    /\ Spec
    /\ \A u \in Uploads : WF_vars(Send(u) /\ UNCHANGED diskVars)
    /\ \A h \in Handlers : WF_vars(Serve(h))

-----------------------------------------------------------------------------
(* What must hold, besides the properties of UploadClient *)

(***************************************************************************)
(* Readers see a file only whole: the upload implements AtomicFiles.       *)
(***************************************************************************)
Visible ==
    [i \in Ids |-> IF i \notin rows THEN "absent"
                   ELSE IF disk[i] = Whole THEN "whole" ELSE "broken"]

Promise == INSTANCE AtomicFiles WITH file <- Visible

FilesAppearWhole == Promise!Spec

(***************************************************************************)
(* On the local disk the end of a loop means that much only as long as no  *)
(* request with a last chunk was cut off: after a crash between append and *)
(* rename the expected index makes the client believe it is through.       *)
(***************************************************************************)
UndisturbedIsListed == ~lastLost => DoneMeansListed

\* The listed files of a share never exceed share.maxSize.
WithinMaxSize == Size(rows) <= MaxSize

\* The chunk that is appended is the one the temporary file is waiting for.
AppendsExpectedChunk ==
    [][\A i \in Ids : tmp'[i] # <<>> /\ tmp'[i] # tmp[i]
          => tmp'[i][Len(tmp'[i])] \in {Len(tmp[i]), Torn}]_vars
=============================================================================
