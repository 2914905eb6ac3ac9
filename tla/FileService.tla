---------------------------- MODULE FileService -----------------------------
(***************************************************************************)
(* Uploading a file in chunks and removing one (file.controller.ts,        *)
(* local.service.ts, s3.service.ts), at the grain of what completing,      *)
(* scanning and deleting the share can interleave with.  Chunk indices,    *)
(* sizes and the client's retries are the subject of ChunkUpload.          *)
(***************************************************************************)
EXTENDS ShareService

(***************************************************************************)
(* A chunk arrives for a new file id, or for one with chunks already       *)
(* stored; the client sends the chunks of one file one after another.      *)
(* Only the local service looks at uploadLocked.                           *)
(***************************************************************************)
UploadCheck(r, s, f) ==
    /\ Starts(r, "upload")
    /\ FilesMutable(s)
    /\ Provider = "LOCAL" => ~db[s].uploadLocked
    /\ f \notin used \/ store[s].tmp[f] # 0
    /\ \A q \in Requests : req[q].file # f
    /\ used' = used \cup {f}
    /\ req' = [req EXCEPT ![r] = [Idle EXCEPT !.step = "upload:append", !.share = s,
                                              !.file = f]]
    /\ UNCHANGED <<now, db, store, taskVars>>

\* Mutant of UploadAppend: the row is created before the file has its name.
AppendSkipsRename(r, last) ==
    /\ At(r, "upload:append")
    /\ LET s == req[r].share
       IN  IF Provider = "S3" \/ store[s].dir
           THEN /\ store' = [store EXCEPT ![s].tmp[req[r].file] = now]
                /\ IF last THEN Proceeds(r, "upload:row") ELSE Ends(r)
           ELSE Ends(r) /\ UNCHANGED store
    /\ UNCHANGED <<now, db, used, taskVars>>

\* appendFile (or UploadPart); more chunks may follow in later requests.
UploadAppend(r, last) ==
    /\ At(r, "upload:append")
    /\ LET s == req[r].share
       IN  IF Provider = "S3" \/ store[s].dir
           THEN /\ store' = [store EXCEPT ![s].tmp[req[r].file] = now]
                /\ IF last THEN Proceeds(r, "upload:rename") ELSE Ends(r)
           ELSE Ends(r) /\ UNCHANGED store
    /\ UNCHANGED <<now, db, used, taskVars>>

\* The chunk file gets its final name (or the multipart upload is completed).
UploadRename(r) ==
    /\ At(r, "upload:rename")
    /\ LET s == req[r].share
           f == req[r].file
       IN  IF store[s].tmp[f] # 0
           THEN /\ store' = [store EXCEPT ![s].tmp[f] = 0, ![s].disk = @ \cup {Key(f)}]
                /\ Proceeds(r, "upload:row")
           ELSE Ends(r) /\ UNCHANGED store
    /\ UNCHANGED <<now, db, used, taskVars>>

\* file.create connects the row to the share, which must still exist.
UploadRow(r) ==
    /\ At(r, "upload:row")
    /\ LET s == req[r].share
       IN  db' = IF db[s].live
                 THEN [db EXCEPT ![s].files = @ \cup {req[r].file}] ELSE db
    /\ Ends(r)
    /\ UNCHANGED <<now, store, used, taskVars>>

-----------------------------------------------------------------------------
RemoveFileRead(r, s, f) ==
    /\ Starts(r, "rmfile")
    /\ FilesMutable(s)
    /\ f \in db[s].files
    /\ req' = [req EXCEPT ![r] = [Idle EXCEPT !.step = "rmfile:unlink", !.share = s,
                                              !.file = f]]
    /\ UNCHANGED <<now, db, store, used, taskVars>>

\* unlink fails when the file is gone; deleting an absent object does not.
RemoveFileUnlink(r) ==
    /\ At(r, "rmfile:unlink")
    /\ LET s == req[r].share
           f == req[r].file
       IN  /\ store' = [store EXCEPT ![s].disk = @ \ {Key(f)}]
           /\ IF Provider = "S3" \/ f \in store[s].disk
              THEN Proceeds(r, "rmfile:row") ELSE Ends(r)
    /\ UNCHANGED <<now, db, used, taskVars>>

RemoveFileRow(r) ==
    /\ At(r, "rmfile:row")
    /\ db' = [db EXCEPT ![req[r].share].files = @ \ {req[r].file}]
    /\ Ends(r)
    /\ UNCHANGED <<now, store, used, taskVars>>

FileStep ==
    \E r \in Requests :
        \/ \E s \in Shares, f \in Files : UploadCheck(r, s, f) \/ RemoveFileRead(r, s, f)
        \/ \E last \in BOOLEAN : UploadAppend(r, last)
        \/ UploadRename(r)     \/ UploadRow(r)
        \/ RemoveFileUnlink(r) \/ RemoveFileRow(r)
=============================================================================
