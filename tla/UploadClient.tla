---------------------------- MODULE UploadClient -----------------------------
(***************************************************************************)
(* The browser's side of an upload: the loop over the chunks of a file in  *)
(* EditableUpload and pages/upload with its retries, and what the network  *)
(* and the server's process may do to its requests.  ChunkUpload and       *)
(* S3Upload add the two services that answer them.  A file has Chunks      *)
(* chunks, all of chunkSize bytes; sizes are counted in chunks.            *)
(***************************************************************************)
EXTENDS Integers, Sequences, FiniteSets

CONSTANTS
    Uploads,    \* the files a client uploads side by side
    Ids,        \* the file ids the server can hand out
    NoId,       \* the client has not been told an id yet
    Handlers,   \* server-side invocations of create
    Chunks,     \* chunks per file
    Faults,     \* what may go wrong
    MaxFaults   \* bound: how often

FaultKinds ==
    {"loss",       \* the connection breaks while a request is under way
     "lastLoss",   \* ... also the one that carries the last chunk
     "overlap",    \* the client's next request overtakes the abandoned one
     "crash",      \* the process dies between two awaits
     "torn",       \* ... or in the middle of appendFile
     "bucket"}     \* the bucket answers with an error

ASSUME ClientAssumption ==
    /\ NoId \notin Ids
    /\ Chunks \in Nat \ {0}
    /\ Faults \subseteq FaultKinds
    /\ MaxFaults \in Nat

VARIABLES
    client,    \* client[u]: the upload loop of file u
    handler,   \* handler[h]: one invocation of create
    rows,      \* the ids with a File row
    fresh,     \* the ids not yet handed out
    faults,    \* how much has gone wrong
    lastLost   \* history: a request with a last chunk was cut off

clientVars == <<client, handler, rows, fresh, faults, lastLost>>

Indices == 0 .. Chunks - 1

\* The chunks of a file, each once and in order.
Whole == [k \in 1 .. Chunks |-> k - 1]

Client == [pc: {"send", "wait", "done", "failed"}, index: Indices,
           id: Ids \cup {NoId}]

IdleHandler == [step |-> "idle"]

(***************************************************************************)
(* awaited: the client still waits for this invocation.  reply is "ok", an *)
(* HTTP error, or the expected chunk index of "unexpected_chunk_index".    *)
(***************************************************************************)
HandlerAt(steps) ==
    [step: steps, of: Uploads, index: Indices, id: Ids, awaited: BOOLEAN,
     reply: {"none", "ok", "error", "too large", "expected"}, expected: Nat, mpu: Nat]

IsIdle(h) == handler[h].step = "idle"

ClientTypeOK(steps) ==
    /\ client \in [Uploads -> Client]
    /\ handler \in [Handlers -> {IdleHandler} \cup HandlerAt(steps)]
    /\ rows \subseteq Ids
    /\ fresh \subseteq Ids
    /\ faults \in 0 .. MaxFaults
    /\ lastLost \in BOOLEAN

ClientInit ==
    /\ client = [u \in Uploads |-> [pc |-> "send", index |-> 0, id |-> NoId]]
    /\ handler = [h \in Handlers |-> IdleHandler]
    /\ rows = {}
    /\ fresh = Ids
    /\ faults = 0
    /\ lastLost = FALSE

-----------------------------------------------------------------------------
(* The loop *)

Pending(u) == {h \in Handlers : ~IsIdle(h) /\ handler[h].of = u}

IsLast(h) == handler[h].index = Chunks - 1

\* Ids are random and invocations alike: which is taken makes no difference.
AnyOf(S) == CHOOSE x \in S : TRUE

\* uploadFile posts a chunk; create gives it an id if it comes without one.
Send(u) ==
    /\ client[u].pc = "send"
    /\ "overlap" \in Faults \/ Pending(u) = {}
    /\ \E h \in Handlers : IsIdle(h)
    /\ client[u].id = NoId => fresh # {}
    /\ LET h == AnyOf({g \in Handlers : IsIdle(g)})
           i == IF client[u].id = NoId THEN AnyOf(fresh) ELSE client[u].id
       IN  /\ fresh' = fresh \ {i}
           /\ handler' = [handler EXCEPT ![h] =
                [step |-> "check", of |-> u, index |-> client[u].index, id |-> i,
                 awaited |-> TRUE, reply |-> "none", expected |-> 0, mpu |-> 0]]
    /\ client' = [client EXCEPT ![u].pc = "wait"]
    /\ UNCHANGED <<rows, faults, lastLost>>

\* Mutant of GoesOn: the loop runs one chunk too far.
GoesPastTheEnd(c, k) ==
    IF k <= Chunks THEN [c EXCEPT !.pc = "send", !.index = k]
    ELSE [c EXCEPT !.pc = "done", !.index = 0]

\* Where the loop goes on after chunk k - 1: at chunk k, or past its end.
GoesOn(c, k) == IF k < Chunks THEN [c EXCEPT !.pc = "send", !.index = k]
                ELSE [c EXCEPT !.pc = "done", !.index = 0]

\* Mutant of BeginsAgain: the chunk that failed is sent once more, and no other.
SendsItAgain(c) == [c EXCEPT !.pc = "send"]

\* Any other error: wait five seconds and begin again, with the id if known.
BeginsAgain(c) == [c EXCEPT !.pc = "send", !.index = 0]

\* Mutant of Answered: the expected chunk index is not looked at.
AnsweredBlindly(c, r) ==
    CASE r.reply = "ok"        -> GoesOn([c EXCEPT !.id = r.id], c.index + 1)
      [] r.reply = "too large" -> [c EXCEPT !.pc = "failed"]
      [] OTHER                 -> BeginsAgain(c)

\* Mutant of Answered: a server error is taken for the end of this chunk.
AnsweredByGoingOn(c, r) ==
    CASE r.reply = "ok"        -> GoesOn([c EXCEPT !.id = r.id], c.index + 1)
      [] r.reply = "expected"  -> GoesOn(c, r.expected)
      [] r.reply = "too large" -> [c EXCEPT !.pc = "failed"]
      [] r.reply = "error"     -> GoesOn(c, c.index + 1)

Answered(c, r) ==
    CASE r.reply = "ok"        -> GoesOn([c EXCEPT !.id = r.id], c.index + 1)
      [] r.reply = "expected"  -> GoesOn(c, r.expected)
      [] r.reply = "too large" -> [c EXCEPT !.pc = "failed"]
      [] r.reply = "error"     -> BeginsAgain(c)

Answer(h) ==
    /\ handler[h].step = "reply"
    /\ client' = IF handler[h].awaited
                 THEN [client EXCEPT ![handler[h].of] = Answered(@, handler[h])]
                 ELSE client
    /\ handler' = [handler EXCEPT ![h] = IdleHandler]
    /\ UNCHANGED <<rows, fresh, faults, lastLost>>

-----------------------------------------------------------------------------
(* What both services do with a request *)

Replies(h, r, e) ==
    handler' = [handler EXCEPT ![h].step = "reply", ![h].reply = r, ![h].expected = e]

Advances(h, step) == handler' = [handler EXCEPT ![h].step = step]

\* Mutant of CreateFileRow: the row is not awaited, and never written.
RowNeverWritten(h) ==
    /\ handler[h].step = "row"
    /\ Replies(h, "ok", 0)
    /\ UNCHANGED <<client, rows, fresh, faults, lastLost>>

\* file.create; a second row with the id is refused.
CreateFileRow(h) ==
    /\ handler[h].step = "row"
    /\ rows' = rows \cup {handler[h].id}
    /\ Replies(h, IF handler[h].id \in rows THEN "error" ELSE "ok", 0)
    /\ UNCHANGED <<client, fresh, faults, lastLost>>

-----------------------------------------------------------------------------
(* Faults *)

OneMoreFault == faults < MaxFaults /\ faults' = faults + 1

\* The client gives up on a request; the server may not have begun with it.
Lose(u) ==
    /\ "loss" \in Faults
    /\ OneMoreFault
    /\ client[u].pc = "wait"
    /\ \E h \in Pending(u) :
          /\ handler[h].awaited
          /\ IsLast(h) => "lastLoss" \in Faults
          /\ lastLost' = (lastLost \/ IsLast(h))
          /\ \/ handler' = [handler EXCEPT ![h].awaited = FALSE]
             \/ handler[h].step = "check" /\ handler' = [handler EXCEPT ![h] = IdleHandler]
    /\ client' = [client EXCEPT ![u] = BeginsAgain(@)]
    /\ UNCHANGED <<rows, fresh>>

\* Every invocation ends where it stands.
ProcessDies ==
    /\ "crash" \in Faults
    /\ OneMoreFault
    /\ handler' = [h \in Handlers |-> IdleHandler]
    /\ client' = [u \in Uploads |-> IF client[u].pc = "wait"
                                    THEN BeginsAgain(client[u]) ELSE client[u]]
    /\ lastLost' = (lastLost \/ \E h \in Handlers : ~IsIdle(h) /\ IsLast(h))
    /\ UNCHANGED <<rows, fresh>>

-----------------------------------------------------------------------------
(***************************************************************************)
(* A client that ends its loop without an error has its file listed in the *)
(* share, under the id it was told.                                        *)
(***************************************************************************)
DoneMeansListed ==
    \A u \in Uploads : client[u].pc = "done" => client[u].id \in rows

(***************************************************************************)
(* Every upload comes to an end, whatever went wrong under way, unless a   *)
(* request that carried a last chunk was cut off.                          *)
(***************************************************************************)
UploadEnds == \A u \in Uploads : <>(client[u].pc \in {"done", "failed"} \/ lastLost)

\* Every upload comes to an end, whatever went wrong.
UploadEndsAlways == \A u \in Uploads : <>(client[u].pc \in {"done", "failed"})
=============================================================================
