---------------------------- MODULE S3UploadProofs ----------------------------
(***************************************************************************)
(* An upload to a bucket keeps its types; a client that ends its loop has  *)
(* its file listed, whatever went wrong under way; and readers see files   *)
(* only whole, as long as no request of a client overtakes one that it has *)
(* given up on.                                                            *)
(***************************************************************************)
EXTENDS S3Upload, ChunkUploadProofs

S3Steps == {"check", "part", "finish", "size", "row", "abort", "reply"}

\* A request that works on a part has an upload.
MpuInv == \A h \in Handlers : handler[h].step \in {"part", "finish"} => handler[h].mpu \in Mpus

\* The last chunk is answered with "ok" once there is a row, and no request is
\* told of another chunk than its own.
ListedInv ==
    /\ \A h \in Handlers : handler[h].step = "reply" =>
          /\ handler[h].reply \in {"ok", "error"}
          /\ handler[h].reply = "ok" /\ IsLast(h) => handler[h].id \in rows
    /\ DoneMeansListed

-----------------------------------------------------------------------------
(* What a step of the service does to its request *)

LEMMA EntersIs ==
    ASSUME S3TypeOK, NEW h \in Handlers, ~IsIdle(h), NEW m \in Mpus,
           handler' = [handler EXCEPT ![h].step = "part", ![h].mpu = m],
           UNCHANGED <<client, fresh>>
    PROVE  /\ Works(h)
           /\ handler'[h] \in HandlerAt(S3Steps)
           /\ handler'[h].step = "part" /\ handler'[h].mpu = m
           /\ handler' \in [Handlers -> {IdleHandler} \cup HandlerAt(S3Steps)]
<1> DEFINE x == [handler[h] EXCEPT !.step = "part", !.mpu = m]
<1>0. ClientTypeOK(S3Steps) /\ "idle" \notin S3Steps
    BY DEF S3TypeOK, S3Steps
<1>1. handler[h] \in HandlerAt(S3Steps) /\ m \in Nat
    BY <1>0, BusyType, S3Assumption
<1>2. handler' = [handler EXCEPT ![h] = x] /\ handler \in [Handlers -> {IdleHandler} \cup HandlerAt(S3Steps)]
    BY <1>0 DEF ClientTypeOK
<1>3. /\ x \in HandlerAt(S3Steps)
      /\ x.of = handler[h].of /\ x.index = handler[h].index /\ x.id = handler[h].id
      /\ x.awaited = handler[h].awaited /\ x.step = "part" /\ x.mpu = m
    BY <1>1 DEF HandlerAt, S3Steps
<1> HIDE DEF x
<1>4. handler'[h] = x /\ \A g \in Handlers \ {h} : handler'[g] = handler[g]
    BY <1>2
<1>5. handler' \in [Handlers -> {IdleHandler} \cup HandlerAt(S3Steps)]
    BY <1>2, <1>3
<1>6. ~IsIdle(h)'
    BY <1>3, <1>4 DEF IsIdle
<1>7. Works(h)
    BY <1>3, <1>4, <1>6 DEF Works
<1> QED BY <1>3, <1>4, <1>5, <1>7

\* Request h is the one that takes the step, and keeps what a type checker and
\* the invariants of the loop ask of it.
S3WellDone(h) ==
    /\ Works(h) /\ S3TypeOK'
    /\ handler'[h].step \in {"part", "finish"} => handler'[h].mpu \in Mpus
    /\ handler'[h].step = "reply" =>
          /\ handler'[h].reply \in {"ok", "error"}
          /\ handler'[h].reply = "ok" /\ IsLast(h) => handler[h].id \in rows'
    /\ rows \subseteq rows'

LEMMA S3OnTo ==
    ASSUME S3TypeOK, NEW h \in Handlers, ~IsIdle(h),
           NEW step \in {"part", "finish", "size", "row", "abort"}, Advances(h, step),
           step = "finish" => handler[h].mpu \in Mpus, step # "part",
           UNCHANGED <<client, rows, fresh, lastLost, name>>, faults' \in 0 .. MaxFaults,
           session' \in [Ids -> Mpus \cup {NoUpload}], parts' \in [Mpus -> Seq(Indices)],
           open' \subseteq Mpus, object' \in [Uploads -> Seq(Indices)]
    PROVE  S3WellDone(h) /\ handler'[h].step = step /\ handler'[h].mpu = handler[h].mpu
<1>1. ClientTypeOK(S3Steps) /\ "idle" \notin S3Steps /\ step \in S3Steps /\ step # "reply"
    BY DEF S3TypeOK, S3Steps
<1>2. /\ Works(h)
      /\ handler'[h].step = step /\ handler'[h].mpu = handler[h].mpu
      /\ handler'[h] \in HandlerAt(S3Steps)
      /\ handler' \in [Handlers -> {IdleHandler} \cup HandlerAt(S3Steps)]
    BY <1>1, AdvancesIs
<1>3. S3TypeOK'
    <2>1. ClientTypeOK(S3Steps)'
        BY <1>1, <1>2 DEF ClientTypeOK
    <2>2. name' \in [Ids -> Uploads \cup {NoId}]
        BY DEF S3TypeOK
    <2> QED BY <2>1, <2>2 DEF S3TypeOK, S3Steps
<1> QED BY <1>1, <1>2, <1>3 DEF S3WellDone

LEMMA S3OnToReply ==
    ASSUME S3TypeOK, NEW h \in Handlers, ~IsIdle(h),
           NEW r \in {"ok", "error"}, Replies(h, r, 0),
           r = "ok" /\ IsLast(h) => handler[h].id \in rows', rows \subseteq rows',
           UNCHANGED <<client, fresh, lastLost>>, faults' \in 0 .. MaxFaults,
           session' \in [Ids -> Mpus \cup {NoUpload}], parts' \in [Mpus -> Seq(Indices)],
           open' \subseteq Mpus, object' \in [Uploads -> Seq(Indices)],
           rows' \subseteq Ids, name' \in [Ids -> Uploads \cup {NoId}]
    PROVE  /\ S3WellDone(h)
           /\ handler'[h].step = "reply" /\ handler'[h].reply = r
           /\ handler'[h].mpu = handler[h].mpu
<1>1. /\ ClientTypeOK(S3Steps) /\ "idle" \notin S3Steps /\ "reply" \in S3Steps
      /\ r \in {"ok", "error", "too large", "expected"} /\ 0 \in Nat
    BY DEF S3TypeOK, S3Steps
<1>2. /\ Works(h)
      /\ handler'[h].step = "reply" /\ handler'[h].reply = r
      /\ handler'[h].mpu = handler[h].mpu
      /\ handler'[h] \in HandlerAt(S3Steps)
      /\ handler' \in [Handlers -> {IdleHandler} \cup HandlerAt(S3Steps)]
    <2>1. HasReply(S3Steps, h, r, 0)
        BY <1>1, RepliesIs
    <2> QED BY <2>1 DEF HasReply
<1>3. S3TypeOK'
    <2>1. ClientTypeOK(S3Steps)'
        BY <1>1, <1>2 DEF ClientTypeOK
    <2>2. name' \in [Ids -> Uploads \cup {NoId}]
        OBVIOUS
    <2> QED BY <2>1, <2>2 DEF S3TypeOK, S3Steps
<1> QED BY <1>1, <1>2, <1>3 DEF S3WellDone

-----------------------------------------------------------------------------
(* The steps of the service *)

LEMMA FaultsCount == ASSUME S3TypeOK, OneMoreFault PROVE faults' \in 0 .. MaxFaults
BY ClientAssumption DEF OneMoreFault, S3TypeOK, ClientTypeOK

\* All that a step on behalf of h may do.
S3Work(h) ==
    \/ Open(h) \/ Join(h) \/ UploadPart(h) \/ Finish(h) \/ AbortSession(h) \/ ReadSize(h)
    \/ CreateRow(h) \/ BucketError(h)

LEMMA WorkIsWellDone ==
    ASSUME S3TypeOK, MpuInv, NEW h \in Handlers, S3Work(h) PROVE S3WellDone(h)
<1> DEFINE x == handler[h]
<1>0. /\ ~IsIdle(h) /\ x \in HandlerAt(S3Steps)
      /\ x.id \in Ids /\ x.of \in Uploads /\ x.index \in Indices
    <2>1. ~IsIdle(h)
        BY DEF S3Work, Open, Join, UploadPart, Finish, AbortSession, ReadSize, CreateRow,
               CreateFileRow, BucketError, BucketFails, AbortFails, SizeFails, IsIdle
    <2>2. x \in HandlerAt(S3Steps)
        BY <2>1, BusyType DEF S3TypeOK, S3Steps
    <2> QED BY <2>1, <2>2 DEF HandlerAt
<1> DEFINE Kept == /\ session \in [Ids -> Mpus \cup {NoUpload}]
                   /\ parts \in [Mpus -> Seq(Indices)]
                   /\ open \subseteq Mpus
                   /\ object \in [Uploads -> Seq(Indices)]
                   /\ name \in [Ids -> Uploads \cup {NoId}]
                   /\ faults \in 0 .. MaxFaults
                   /\ rows \subseteq Ids
<1>1. Kept
    BY DEF S3TypeOK, ClientTypeOK
<1> HIDE DEF x
<1>2. CASE Open(h)
    <2> DEFINE m == AnyOf(Unused)
    <2>1. m \in Mpus
        BY <1>2, AnyOfIsIn DEF Open, Unused
    <2>2. /\ handler' = [handler EXCEPT ![h].step = "part", ![h].mpu = m]
          /\ open' = open \cup {m} /\ parts' = [parts EXCEPT ![m] = <<>>]
          /\ session' = [session EXCEPT ![x.id] = m]
          /\ UNCHANGED <<client, rows, fresh, faults, lastLost, object, name>>
        BY <1>2 DEF Open, x
    <2> HIDE DEF m
    <2>3. /\ Works(h) /\ handler'[h].step = "part" /\ handler'[h].mpu = m
          /\ handler' \in [Handlers -> {IdleHandler} \cup HandlerAt(S3Steps)]
        BY <1>0, <2>1, <2>2, EntersIs
    <2>4. ClientTypeOK(S3Steps)'
        BY <2>2, <2>3 DEF S3TypeOK, ClientTypeOK
    <2>5. /\ session' \in [Ids -> Mpus \cup {NoUpload}] /\ open' \subseteq Mpus
          /\ parts' \in [Mpus -> Seq(Indices)]
        BY <1>0, <1>1, <2>1, <2>2, EmptySeq
    <2>6. S3TypeOK'
        BY <1>1, <2>2, <2>4, <2>5 DEF S3TypeOK, S3Steps
    <2> QED BY <2>1, <2>2, <2>3, <2>6 DEF S3WellDone
<1>3. CASE Join(h)
    <2>1. CASE Session(h) = NoUpload
        BY <1>0, <1>1, <1>3, <2>1, S3OnTo DEF Join, bucketVars
    <2>2. CASE Session(h) # NoUpload
        <3>1. Session(h) \in Mpus
            BY <1>0, <1>1, <2>2 DEF Session, x
        <3>2. handler' = [handler EXCEPT ![h].step = "part", ![h].mpu = Session(h)]
              /\ UNCHANGED <<client, rows, fresh, faults, lastLost, bucketVars>>
            BY <1>3, <2>2 DEF Join
        <3>3. /\ Works(h) /\ handler'[h].step = "part" /\ handler'[h].mpu = Session(h)
              /\ handler' \in [Handlers -> {IdleHandler} \cup HandlerAt(S3Steps)]
            BY <1>0, <3>1, <3>2, EntersIs
        <3>4. S3TypeOK'
            BY <3>2, <3>3 DEF S3TypeOK, ClientTypeOK, S3Steps, bucketVars
        <3> QED BY <3>1, <3>2, <3>3, <3>4 DEF S3WellDone
    <2> QED BY <2>1, <2>2
<1>4. CASE UploadPart(h)
    <2>1. x.mpu \in Mpus
        BY <1>4 DEF UploadPart, MpuInv, x
    <2>2. parts' \in [Mpus -> Seq(Indices)]
        <3>1. Append(parts[x.mpu], x.index) \in Seq(Indices)
            BY <1>0, <1>1, <2>1, AppendProperties
        <3> QED BY <1>1, <1>4, <2>1, <3>1 DEF UploadPart, Mpu, x
    <2>3. UNCHANGED <<client, rows, fresh, faults, lastLost, session, open, object, name>>
        BY <1>4 DEF UploadPart
    <2>4. CASE Advances(h, "finish")
        BY <1>0, <1>1, <2>1, <2>2, <2>3, <2>4, S3OnTo DEF x
    <2>5. CASE Replies(h, "ok", 0) /\ ~IsLast(h)
        BY <1>0, <1>1, <2>1, <2>2, <2>3, <2>5, S3OnToReply
    <2>6. CASE Advances(h, "abort")
        BY <1>0, <1>1, <2>1, <2>2, <2>3, <2>6, S3OnTo
    <2> QED BY <1>4, <2>4, <2>5, <2>6 DEF UploadPart
<1>5. CASE Finish(h)
    <2>1. x.mpu \in Mpus
        BY <1>5 DEF Finish, MpuInv, x
    <2>2. UNCHANGED <<client, rows, fresh, faults, lastLost, name>>
        BY <1>5 DEF Finish
    <2>3. CASE /\ object' = [object EXCEPT ![x.of] = parts[x.mpu]] /\ Closes(x.mpu)
               /\ session' = [session EXCEPT ![x.id] = NoUpload] /\ Advances(h, "size")
        <3>1. /\ session' \in [Ids -> Mpus \cup {NoUpload}] /\ open' \subseteq Mpus
              /\ parts' \in [Mpus -> Seq(Indices)] /\ object' \in [Uploads -> Seq(Indices)]
            BY <1>0, <1>1, <2>1, <2>3, EmptySeq DEF Closes
        <3> QED BY <1>0, <1>1, <2>2, <2>3, <3>1, S3OnTo
    <2>4. CASE Advances(h, "abort") /\ UNCHANGED <<object, open, parts, session>>
        BY <1>0, <1>1, <2>2, <2>4, S3OnTo
    <2> QED BY <1>5, <2>3, <2>4 DEF Finish, Mpu, x
<1>6. CASE AbortSession(h)
    <2>1. UNCHANGED <<client, rows, fresh, faults, lastLost, object, name>>
          /\ Replies(h, "error", 0) /\ session' = [session EXCEPT ![x.id] = NoUpload]
        BY <1>6 DEF AbortSession, x
    <2>2. session' \in [Ids -> Mpus \cup {NoUpload}]
        BY <1>0, <1>1, <2>1
    <2>3. open' \subseteq Mpus /\ parts' \in [Mpus -> Seq(Indices)]
        BY <1>1, <1>6, EmptySeq DEF AbortSession, Closes
    <2> QED BY <1>0, <1>1, <2>1, <2>2, <2>3, S3OnToReply
<1>7. CASE AbortFails(h)
    <2>1. UNCHANGED <<client, rows, fresh, lastLost, parts, open, object, name>>
          /\ Replies(h, "error", 0) /\ session' = [session EXCEPT ![x.id] = NoUpload]
          /\ faults' \in 0 .. MaxFaults
        BY <1>7, FaultsCount DEF AbortFails, x
    <2>2. session' \in [Ids -> Mpus \cup {NoUpload}]
        BY <1>0, <1>1, <2>1
    <2> QED BY <1>0, <1>1, <2>1, <2>2, S3OnToReply
<1>8. CASE ReadSize(h)
    BY <1>0, <1>1, <1>8, S3OnTo DEF ReadSize, bucketVars
<1>9. CASE SizeFails(h)
    BY <1>0, <1>1, <1>9, S3OnToReply, FaultsCount DEF SizeFails, bucketVars
<1>10. CASE BucketFails(h)
    BY <1>0, <1>1, <1>10, S3OnTo, FaultsCount DEF BucketFails, bucketVars
<1>11. CASE CreateRow(h)
    <2>1. /\ rows' = rows \cup {x.id}
          /\ UNCHANGED <<client, fresh, faults, lastLost, session, parts, open, object>>
          /\ name' = [name EXCEPT ![x.id] = IF x.id \in rows THEN @ ELSE x.of]
          /\ Replies(h, IF x.id \in rows THEN "error" ELSE "ok", 0)
        BY <1>11 DEF CreateRow, CreateFileRow, x
    <2>2. rows' \subseteq Ids /\ name' \in [Ids -> Uploads \cup {NoId}] /\ x.id \in rows'
        BY <1>0, <1>1, <2>1
    <2>3. Replies(h, "error", 0) \/ Replies(h, "ok", 0)
        BY <2>1
    <2> QED BY <1>0, <1>1, <2>1, <2>2, <2>3, S3OnToReply DEF x
<1> QED BY <1>2, <1>3, <1>4, <1>5, <1>6, <1>7, <1>8, <1>9, <1>10, <1>11 DEF S3Work, BucketError

-----------------------------------------------------------------------------
(* Type correctness, and what the end of a loop means *)

S3Inv == S3TypeOK /\ LoopInv /\ MpuInv

LEMMA S3Typed == ASSUME S3TypeOK PROVE ClientTypeOK(S3Steps) /\ "idle" \notin S3Steps /\ "check" \in S3Steps
BY DEF S3TypeOK, S3Steps

LEMMA S3TypedAgain ==
    ASSUME S3TypeOK, ClientTypeOK(S3Steps)', UNCHANGED bucketVars PROVE S3TypeOK'
BY DEF S3TypeOK, S3Steps, bucketVars

LEMMA S3CrashIs ==
    ASSUME S3Inv, S3Crash
    PROVE  /\ S3TypeOK' /\ LoopInv' /\ MpuInv' /\ UNCHANGED <<rows, open, object, name>>
           /\ \A h \in Handlers : handler'[h].step = "idle"
           /\ \A u \in Uploads :
                 /\ client'[u].id = client[u].id
                 /\ client'[u] = client[u] \/ (client'[u].pc = "send" /\ client'[u].index = 0)
           /\ \A i \in Ids : session'[i] = NoUpload
<1>1. ClientTypeOK(S3Steps) /\ LoopInv /\ ProcessDies
    BY S3Typed DEF S3Inv, S3Crash
<1>2. /\ ClientTypeOK(S3Steps)' /\ LoopInv' /\ UNCHANGED rows
      /\ \A h \in Handlers : handler'[h].step = "idle"
      /\ \A u \in Uploads :
            /\ client'[u].id = client[u].id
            /\ client'[u] = client[u] \/ (client'[u].pc = "send" /\ client'[u].index = 0)
    BY <1>1, ProcessDiesIs
<1>3. /\ session' = [i \in Ids |-> NoUpload] /\ parts' = [m \in Mpus |-> <<>>]
      /\ UNCHANGED <<open, object, name>>
    BY DEF S3Crash
<1>4. S3TypeOK'
    BY <1>2, <1>3, EmptySeq DEF S3Inv, S3TypeOK, S3Steps
<1>5. MpuInv'
    BY <1>2 DEF MpuInv
<1> QED BY <1>2, <1>3, <1>4, <1>5

LEMMA S3NextTyped == ASSUME S3Inv, S3Next PROVE S3Inv'
<1>0. ClientTypeOK(S3Steps) /\ LoopInv /\ "idle" \notin S3Steps /\ "check" \in S3Steps
    BY S3Typed DEF S3Inv
<1>1. ASSUME NEW u \in Uploads, Send(u), UNCHANGED bucketVars PROVE S3Inv'
    <2>1. PICK h \in Handlers, i \in Ids : Sends(u, h, i) /\ Request(u, i) \in HandlerAt(S3Steps)
        BY <1>0, <1>1, SendIs
    <2>2. ClientTypeOK(S3Steps)' /\ LoopInv'
        BY <1>0, <2>1, SendTyped, SendKeepsLoop
    <2>3. MpuInv'
        BY <1>0, <2>1 DEF S3Inv, MpuInv, Sends, Request, ClientTypeOK
    <2> QED BY <1>1, <2>2, <2>3, S3TypedAgain DEF S3Inv
<1>2. ASSUME NEW u \in Uploads, Lose(u), UNCHANGED bucketVars PROVE S3Inv'
    <2>1. ClientTypeOK(S3Steps)' /\ LoopInv'
        BY <1>0, <1>2, LoseTyped
    <2>2. PICK h \in Handlers :
              /\ handler[h] \in HandlerAt(S3Steps) /\ Settles(u, h, BeginsAgain(client[u]))
        BY <1>0, <1>2, LoseIs
    <2>3. \A g \in Handlers : handler'[g].step \in {"part", "finish"} =>
              handler'[g].step = handler[g].step /\ handler'[g].mpu = handler[g].mpu
        BY <1>0, <2>2, SettlingKeepsRequests DEF IsIdle
    <2>4. MpuInv'
        BY <2>3 DEF S3Inv, MpuInv
    <2> QED BY <1>2, <2>1, <2>4, S3TypedAgain DEF S3Inv
<1>3. ASSUME NEW h \in Handlers, Answer(h), UNCHANGED bucketVars PROVE S3Inv'
    <2>1. ClientTypeOK(S3Steps)' /\ LoopInv'
        BY <1>0, <1>3, AnswerTyped
    <2>2. MpuInv'
        BY <1>0, <1>3 DEF S3Inv, MpuInv, Answer, ClientTypeOK, IdleHandler
    <2> QED BY <1>3, <2>1, <2>2, S3TypedAgain DEF S3Inv
<1>4. ASSUME NEW h \in Handlers, S3Work(h) PROVE S3Inv'
    <2>1. S3WellDone(h)
        BY <1>4, WorkIsWellDone DEF S3Inv
    <2>2. LoopInv'
        BY <1>0, <2>1, WorkKeepsLoop DEF S3WellDone
    <2>3. MpuInv'
        <3>1. \A g \in Handlers \ {h} : handler'[g] = handler[g]
            BY <2>1 DEF S3WellDone, Works
        <3>2. handler'[h].step \in {"part", "finish"} => handler'[h].mpu \in Mpus
            BY <2>1 DEF S3WellDone
        <3> QED BY <3>1, <3>2 DEF S3Inv, MpuInv
    <2> QED BY <2>1, <2>2, <2>3 DEF S3WellDone, S3Inv
<1>5. CASE S3Crash
    BY <1>5, S3CrashIs DEF S3Inv
<1> QED BY <1>1, <1>2, <1>3, <1>4, <1>5 DEF S3Next, S3Serve, S3Work

LEMMA S3InitTyped == ASSUME S3Init PROVE S3Inv
<1>1. ClientTypeOK(S3Steps) /\ LoopInv
    BY InitIsTyped, InitIsLoop DEF S3Init
<1>2. MpuInv
    BY DEF S3Init, ClientInit, MpuInv, IdleHandler
<1> QED BY <1>1, <1>2, EmptySeq DEF S3Init, S3TypeOK, S3Steps, S3Inv

LEMMA S3InvInductive == S3Spec => []S3Inv
<1>1. S3Inv /\ UNCHANGED s3Vars => S3Inv'
    <2> SUFFICES ASSUME S3Inv, UNCHANGED s3Vars PROVE S3Inv'
        OBVIOUS
    <2>1. S3TypeOK' /\ MpuInv'
        BY DEF S3Inv, S3TypeOK, ClientTypeOK, MpuInv, s3Vars
    <2>2. LoopInv'
        BY StutterKeepsLoop DEF S3Inv, s3Vars
    <2> QED BY <2>1, <2>2 DEF S3Inv
<1> QED BY <1>1, S3InitTyped, S3NextTyped, PTL DEF S3Spec

\* Every variable keeps its type.
THEOREM S3TypeTheorem == S3Spec => []S3TypeOK
<1>1. S3Inv => S3TypeOK
    BY DEF S3Inv
<1> QED BY <1>1, S3InvInductive, PTL

LEMMA ListedAgain == ASSUME S3Inv, ListedInv, S3Next PROVE ListedInv'
<1>0. ClientTypeOK(S3Steps) /\ LoopInv /\ "idle" \notin S3Steps /\ "check" \in S3Steps
    BY S3Typed DEF S3Inv
<1>1. ASSUME NEW u \in Uploads, Send(u), UNCHANGED bucketVars PROVE ListedInv'
    <2>1. PICK h \in Handlers, i \in Ids : Sends(u, h, i)
        BY <1>0, <1>1, SendIs
    <2>2. \A g \in Handlers : handler'[g].step = "reply" => handler'[g] = handler[g]
        BY <1>0, <2>1 DEF Sends, Request, ClientTypeOK
    <2>3. \A w \in Uploads : client'[w].pc = "done" => client'[w] = client[w]
        BY <1>0, <2>1 DEF Sends, ClientTypeOK, Client
    <2>4. UNCHANGED rows
        BY <2>1 DEF Sends
    <2> QED BY <2>2, <2>3, <2>4 DEF ListedInv, IsLast, DoneMeansListed
<1>2. ASSUME NEW u \in Uploads, Lose(u), UNCHANGED bucketVars PROVE ListedInv'
    <2>1. PICK h \in Handlers :
              /\ handler[h] \in HandlerAt(S3Steps) /\ Settles(u, h, BeginsAgain(client[u]))
        BY <1>0, <1>2, LoseIs
    <2>2. \A g \in Handlers : handler'[g].step = "reply" =>
              /\ handler[g].step = "reply" /\ handler'[g].reply = handler[g].reply
              /\ handler'[g].id = handler[g].id /\ handler'[g].index = handler[g].index
        BY <1>0, <2>1, SettlingKeepsRequests DEF IsIdle
    <2>3. client[u] \in Client
        BY <1>0 DEF ClientTypeOK
    <2>4. \A w \in Uploads : client'[w].pc = "done" => client'[w] = client[w]
        BY <1>0, <2>1, <2>3, BeginsAgainIs DEF Settles, ClientTypeOK
    <2>5. UNCHANGED rows
        BY <2>1 DEF Settles
    <2> QED BY <2>2, <2>4, <2>5 DEF ListedInv, IsLast, DoneMeansListed
<1>3. ASSUME NEW h \in Handlers, Answer(h), UNCHANGED bucketVars PROVE ListedInv'
    <2> DEFINE u == handler[h].of
               d == Answered(client[u], handler[h])
    <2>1. /\ handler[h] \in HandlerAt(S3Steps) /\ handler[h].step = "reply" /\ u \in Uploads
          /\ handler[h].reply # "none"
          /\ handler[h].awaited => Settles(u, h, d)
          /\ ~handler[h].awaited => Drops(h)
          /\ UNCHANGED rows
        BY <1>0, <1>3, AnswerIs
    <2>2. handler'[h].step = "idle" /\ \A g \in Handlers \ {h} : handler'[g] = handler[g]
        BY <1>0, <1>3 DEF Answer, ClientTypeOK, IdleHandler
    <2>3. \A g \in Handlers : handler'[g].step = "reply" => handler'[g] = handler[g]
        BY <2>2
    <2>4. ASSUME handler[h].awaited, d.pc = "done" PROVE d.id \in rows
        <3>1. client[u] \in Client
            BY <1>0, <2>1 DEF ClientTypeOK
        <3>2. handler[h].reply = "ok" /\ client[u].index = Chunks - 1 /\ d.id = handler[h].id
            BY <2>1, <2>4, <3>1, AnsweredIs DEF ListedInv
        <3>3. client[u].index = handler[h].index
            BY <1>0, <2>1, <2>4 DEF LoopInv, OneAwaited, IsIdle
        <3> QED BY <2>1, <3>2, <3>3 DEF ListedInv, IsLast
    <2> HIDE DEF d
    <2>5. \A w \in Uploads : client'[w].pc = "done" => client'[w].id \in rows
        BY <1>0, <2>1, <2>4 DEF Settles, Drops, ListedInv, DoneMeansListed, ClientTypeOK
    <2> QED BY <2>1, <2>3, <2>5 DEF ListedInv, IsLast, DoneMeansListed
<1>4. ASSUME NEW h \in Handlers, S3Work(h) PROVE ListedInv'
    <2>1. S3WellDone(h)
        BY <1>4, WorkIsWellDone DEF S3Inv
    <2>2. IsLast(h)' <=> IsLast(h)
        BY <2>1 DEF S3WellDone, Works, IsLast
    <2>3. \A g \in Handlers \ {h} : handler'[g] = handler[g]
        BY <2>1 DEF S3WellDone, Works
    <2>4. handler'[h].id = handler[h].id /\ UNCHANGED client /\ rows \subseteq rows'
        BY <2>1 DEF S3WellDone, Works
    <2>5. DoneMeansListed'
        BY <2>4 DEF ListedInv, DoneMeansListed
    <2>6. ASSUME NEW g \in Handlers, handler'[g].step = "reply"
          PROVE  /\ handler'[g].reply \in {"ok", "error"}
                 /\ handler'[g].reply = "ok" /\ IsLast(g)' => handler'[g].id \in rows'
        BY <2>1, <2>2, <2>3, <2>4, <2>6 DEF S3WellDone, ListedInv, IsLast
    <2> QED BY <2>5, <2>6 DEF ListedInv, IsLast
<1>5. CASE S3Crash
    BY <1>5, S3CrashIs DEF ListedInv, DoneMeansListed
<1> QED BY <1>1, <1>2, <1>3, <1>4, <1>5 DEF S3Next, S3Serve, S3Work

(***************************************************************************)
(* A client that ends its loop without an error has its file listed in the *)
(* share, whatever went wrong: the last chunk is answered with "ok" only   *)
(* once the row is written, and the bucket's service never tells a client  *)
(* to go on at another chunk.                                              *)
(***************************************************************************)
THEOREM S3ListedTheorem == S3Spec => []DoneMeansListed
<1>1. S3Init => ListedInv
    BY DEF S3Init, ClientInit, ListedInv, IdleHandler, DoneMeansListed
<1>2. ListedInv /\ UNCHANGED s3Vars => ListedInv'
    BY DEF ListedInv, DoneMeansListed, IsLast, s3Vars
<1>3. ListedInv => DoneMeansListed
    BY DEF ListedInv
<1> QED BY <1>1, <1>2, <1>3, ListedAgain, S3InvInductive, PTL DEF S3Spec

-----------------------------------------------------------------------------
(* Files appear whole *)

\* Each session has an open upload of its own.
SessionsApart ==
    /\ \A i \in Ids : session[i] # NoUpload => session[i] \in open
    /\ \A i, j \in Ids : session[i] = session[j] /\ session[i] # NoUpload => i = j

\* A request finds in its session the parts before its own.
S3Fine(x) ==
    /\ x.step = "check" /\ x.index # 0 /\ session[x.id] # NoUpload =>
          parts[session[x.id]] = Upto(x.index)
    /\ x.step \in {"part", "finish"} => x.mpu = session[x.id] /\ x.mpu # NoUpload
    /\ x.step = "part" => parts[x.mpu] = Upto(x.index)
    /\ x.step = "finish" => parts[x.mpu] = Upto(Chunks)
    /\ x.step \in {"finish", "size", "row"} => x.index = Chunks - 1
    /\ x.step \in {"size", "row"} => object[x.of] = Whole
    /\ /\ x.step = "reply" /\ x.reply = "ok" /\ x.awaited
       /\ x.index # Chunks - 1 /\ session[x.id] # NoUpload
       => parts[session[x.id]] = Upto(x.index + 1)

\* So does a client that is about to send another chunk than the first.
ClientFine(c) ==
    c.pc = "send" /\ c.index # 0 =>
        /\ c.id # NoId
        /\ session[c.id] # NoUpload => parts[session[c.id]] = Upto(c.index)

RowsWhole == \A i \in rows : name[i] \in Uploads /\ object[name[i]] = Whole

S3WholeInv ==
    /\ SessionsApart
    /\ \A h \in Handlers : S3Fine(handler[h])
    /\ \A u \in Uploads : ClientFine(client[u])
    /\ RowsWhole

\* A step on behalf of h leaves the sessions of other files alone.
OthersKept(h) ==
    /\ \A j \in Ids \ {handler[h].id} :
          /\ session'[j] = session[j]
          /\ session[j] # NoUpload => parts'[session[j]] = parts[session[j]]
    /\ \A u \in Uploads : object[u] = Whole => object'[u] = Whole

LEMMA S3BusyFacts ==
    ASSUME S3TypeOK, NEW h \in Handlers, handler[h].step # "idle"
    PROVE  /\ ~IsIdle(h) /\ handler[h] \in HandlerAt(S3Steps)
           /\ handler[h].id \in Ids /\ handler[h].of \in Uploads
           /\ handler[h].index \in Indices /\ handler[h].index \in Nat
<1>1. ~IsIdle(h)
    BY DEF IsIdle
<1>2. handler[h] \in HandlerAt(S3Steps)
    BY <1>1, S3Typed, BusyType
<1>3. handler[h].index \in Indices
    BY <1>2 DEF HandlerAt
<1>4. handler[h].index \in Nat
    BY <1>3, ClientAssumption DEF Indices
<1> QED BY <1>1, <1>2, <1>3, <1>4 DEF HandlerAt

LEMMA WholeAgain ==
    ASSUME "overlap" \notin Faults, S3Inv, S3WholeInv, NEW h \in Handlers, Works(h), OthersKept(h),
           SessionsApart', S3Fine(handler[h])', RowsWhole'
    PROVE  S3WholeInv'
<1>0. S3TypeOK /\ ~IsIdle(h) /\ handler[h].step # "idle"
    BY DEF S3Inv, Works, IsIdle
<1>1. ASSUME NEW g \in Handlers PROVE S3Fine(handler[g])'
    <2>1. CASE g = h
        BY <2>1
    <2>2. CASE g # h /\ handler[g].step # "idle"
        <3>1. handler'[g] = handler[g] /\ S3Fine(handler[g])
            BY <2>2 DEF Works, S3WholeInv
        <3>2. ~IsIdle(g) /\ handler[g].id \in Ids /\ handler[g].of \in Uploads
            BY <1>0, <2>2, S3BusyFacts
        <3>3. handler[g].id # handler[h].id
            BY <1>0, <2>2, <3>2 DEF S3Inv, LoopInv, IdsApart, OneUnderWay
        <3>4. /\ session'[handler[g].id] = session[handler[g].id]
              /\ session[handler[g].id] # NoUpload =>
                    parts'[session[handler[g].id]] = parts[session[handler[g].id]]
              /\ object[handler[g].of] = Whole => object'[handler[g].of] = Whole
            BY <3>2, <3>3 DEF OthersKept
        <3> QED BY <3>1, <3>4 DEF S3Fine
    <2>3. CASE g # h /\ handler[g].step = "idle"
        BY <2>3 DEF Works, S3Fine
    <2> QED BY <2>1, <2>2, <2>3
<1>2. ASSUME NEW u \in Uploads PROVE ClientFine(client[u])'
    <2>1. client'[u] = client[u] /\ ClientFine(client[u]) /\ client[u] \in Client
        BY DEF Works, S3WholeInv, S3Inv, S3TypeOK, ClientTypeOK
    <2>2. CASE client[u].pc = "send" /\ client[u].index # 0
        <3>1. client[u].id # NoId /\ client[u].id \in Ids
            BY <2>1, <2>2 DEF ClientFine, Client
        <3>2. client[u].id # handler[h].id
            BY <1>0, <2>2 DEF S3Inv, LoopInv, IdsApart, OneUnderWay
        <3>3. /\ session'[client[u].id] = session[client[u].id]
              /\ session[client[u].id] # NoUpload =>
                    parts'[session[client[u].id]] = parts[session[client[u].id]]
            BY <3>1, <3>2 DEF OthersKept
        <3> QED BY <2>1, <2>2, <3>1, <3>3 DEF ClientFine
    <2>3. CASE ~(client[u].pc = "send" /\ client[u].index # 0)
        BY <2>1, <2>3 DEF ClientFine
    <2> QED BY <2>2, <2>3
<1> QED BY <1>1, <1>2 DEF S3WholeInv

\* The rows stay whole where none is added.
LEMMA RowsKept ==
    ASSUME S3TypeOK, RowsWhole, UNCHANGED <<rows, name>>,
           \A u \in Uploads : object[u] = Whole => object'[u] = Whole
    PROVE  RowsWhole'
BY DEF RowsWhole

LEMMA S3WorkKeepsWhole ==
    ASSUME "overlap" \notin Faults, S3Inv, S3WholeInv, NEW h \in Handlers, S3Work(h)
    PROVE  S3WholeInv'
<1> DEFINE x == handler[h]
           i == x.id
<1>0. /\ Works(h) /\ handler[h].step # "idle" /\ S3Inv
      /\ x.id \in Ids /\ x.of \in Uploads /\ x.index \in Nat /\ x \in HandlerAt(S3Steps)
    <2>1. Works(h)
        BY WorkIsWellDone DEF S3Inv, S3WellDone
    <2>2. handler[h].step # "idle"
        BY <2>1 DEF Works, IsIdle
    <2> QED BY <2>1, <2>2, S3BusyFacts DEF S3Inv
<1>1. /\ handler'[h].of = x.of /\ handler'[h].index = x.index
      /\ handler'[h].id = i /\ handler'[h].awaited = x.awaited
    BY <1>0 DEF Works
<1>2. /\ SessionsApart /\ S3Fine(x) /\ RowsWhole
      /\ session \in [Ids -> Mpus \cup {NoUpload}] /\ parts \in [Mpus -> Seq(Indices)]
      /\ open \subseteq Mpus /\ object \in [Uploads -> Seq(Indices)]
      /\ name \in [Ids -> Uploads \cup {NoId}]
      /\ handler \in [Handlers -> {IdleHandler} \cup HandlerAt(S3Steps)]
    BY DEF S3WholeInv, S3Inv, S3TypeOK, ClientTypeOK, S3Steps
\* Whatever the step is, if it leaves the bucket as it is.
<1>3. ASSUME UNCHANGED <<session, parts, object, open, rows, name>>, S3Fine(handler[h])'
      PROVE  S3WholeInv'
    <2>1. OthersKept(h) /\ SessionsApart'
        BY <1>2, <1>3 DEF OthersKept, SessionsApart
    <2>2. RowsWhole'
        BY <1>0, <1>2, <1>3, RowsKept DEF S3Inv
    <2> QED BY <1>0, <1>3, <2>1, <2>2, WholeAgain
<1>4. ASSUME NEW step \in {"size", "row", "abort", "finish"}, Advances(h, step)
      PROVE  handler'[h].step = step /\ handler'[h].mpu = x.mpu
    BY <1>0, <1>2, <1>4 DEF Advances, HandlerAt
<1>5. ASSUME NEW r \in {"ok", "error"}, Replies(h, r, 0)
      PROVE  handler'[h].step = "reply" /\ handler'[h].reply = r
    BY <1>0, <1>2, <1>5 DEF Replies, HandlerAt
<1> HIDE DEF x
<1>6. CASE Open(h)
    <2> DEFINE m == AnyOf(Unused)
    <2>1. m \in Unused
        BY <1>6, AnyOfIsIn DEF Open
    <2>2. m \in Mpus /\ m \notin open /\ m # NoUpload /\ \A j \in Ids : session[j] # m
        BY <2>1, S3Assumption DEF Unused, NoUpload
    <2>3. /\ open' = open \cup {m} /\ parts' = [parts EXCEPT ![m] = <<>>]
          /\ session' = [session EXCEPT ![i] = m] /\ x.index = 0
          /\ handler' = [handler EXCEPT ![h].step = "part", ![h].mpu = m]
          /\ UNCHANGED <<rows, object, name>>
        BY <1>6 DEF Open, x
    <2> HIDE DEF m
    <2>4. handler'[h].step = "part" /\ handler'[h].mpu = m
        BY <1>0, <1>2, <2>3 DEF HandlerAt, x
    <2>5. OthersKept(h)
        BY <1>0, <1>2, <2>2, <2>3 DEF OthersKept, x
    <2>6. SessionsApart'
        BY <1>0, <1>2, <2>2, <2>3 DEF SessionsApart
    <2>7. session'[i] = m /\ parts'[m] = Upto(0)
        BY <1>0, <1>2, <2>2, <2>3, UptoZero
    <2>8. S3Fine(handler[h])'
        BY <1>1, <2>2, <2>3, <2>4, <2>7 DEF S3Fine
    <2>9. RowsWhole'
        BY <1>0, <1>2, <2>3, RowsKept DEF S3Inv
    <2> QED BY <1>0, <2>5, <2>6, <2>8, <2>9, WholeAgain
<1>7. CASE Join(h)
    <2>1. UNCHANGED <<session, parts, object, open, rows, name>>
          /\ x.step = "check" /\ x.index # 0
        BY <1>7 DEF Join, bucketVars, x
    <2>2. CASE Session(h) = NoUpload
        <3>1. handler'[h].step = "abort"
            BY <1>4, <1>7, <2>2 DEF Join
        <3> QED BY <1>3, <2>1, <3>1 DEF S3Fine
    <2>3. CASE Session(h) # NoUpload
        <3>1. handler'[h].step = "part" /\ handler'[h].mpu = session[i]
            <4>1. handler' = [handler EXCEPT ![h].step = "part", ![h].mpu = session[i]]
                BY <1>7, <2>3 DEF Join, Session, x
            <4>2. handler'[h] = [handler[h] EXCEPT !.step = "part", !.mpu = session[i]]
                BY <1>2, <4>1
            <4> QED BY <1>0, <4>2 DEF HandlerAt, x
        <3>2. parts[session[i]] = Upto(x.index)
            BY <1>2, <2>1, <2>3 DEF S3Fine, Session, x
        <3>3. S3Fine(handler[h])'
            BY <1>1, <2>1, <2>3, <3>1, <3>2 DEF S3Fine, Session, x
        <3> QED BY <1>3, <2>1, <3>3
    <2> QED BY <2>2, <2>3
<1>8. CASE UploadPart(h)
    <2> DEFINE m == x.mpu
    <2>1. /\ m = session[i] /\ m # NoUpload /\ parts[m] = Upto(x.index) /\ m \in open /\ m \in Mpus
        BY <1>0, <1>2, <1>8 DEF UploadPart, S3Fine, SessionsApart, x
    <2>2. /\ parts' = [parts EXCEPT ![m] = Append(@, x.index)]
          /\ IF IsLast(h) THEN Advances(h, "finish") ELSE Replies(h, "ok", 0)
          /\ UNCHANGED <<rows, session, open, object, name>>
        BY <1>8, <2>1 DEF UploadPart, Mpu, x
    <2>3. parts'[m] = Upto(x.index + 1)
        BY <1>0, <1>2, <2>1, <2>2, UptoGrows
    <2>4. OthersKept(h)
        BY <1>0, <1>2, <2>1, <2>2 DEF OthersKept, SessionsApart, x
    <2>5. SessionsApart'
        BY <1>2, <2>2 DEF SessionsApart
    <2>6. RowsWhole'
        BY <1>0, <1>2, <2>2, RowsKept DEF S3Inv
    <2>7. S3Fine(handler[h])'
        <3>1. CASE IsLast(h)
            <4>1. handler'[h].step = "finish" /\ handler'[h].mpu = m
                BY <1>4, <2>2, <3>1
            <4>2. x.index = Chunks - 1 /\ x.index + 1 = Chunks
                BY <3>1, ClientAssumption DEF IsLast, x
            <4> QED BY <1>1, <2>1, <2>2, <2>3, <4>1, <4>2 DEF S3Fine
        <3>2. CASE ~IsLast(h)
            <4>1. handler'[h].step = "reply"
                BY <1>5, <2>2, <3>2
            <4> QED BY <1>1, <2>1, <2>2, <2>3, <4>1 DEF S3Fine
        <3> QED BY <3>1, <3>2
    <2> QED BY <1>0, <2>4, <2>5, <2>6, <2>7, WholeAgain
<1>9. CASE Finish(h)
    <2> DEFINE m == x.mpu
    <2>1. /\ m = session[i] /\ m # NoUpload /\ parts[m] = Whole /\ x.index = Chunks - 1
          /\ m \in Mpus
        BY <1>0, <1>2, <1>9, UptoWhole DEF Finish, S3Fine, x
    <2>2. UNCHANGED <<rows, name>>
        BY <1>9 DEF Finish
    <2>3. CASE /\ object' = [object EXCEPT ![x.of] = parts[m]] /\ Closes(m)
               /\ session' = [session EXCEPT ![i] = NoUpload] /\ Advances(h, "size")
        <3>1. handler'[h].step = "size"
            BY <1>4, <2>3
        <3>2. OthersKept(h)
            BY <1>0, <1>2, <2>1, <2>3 DEF OthersKept, SessionsApart, Closes, x
        <3>3. SessionsApart'
            BY <1>0, <1>2, <2>1, <2>3 DEF SessionsApart, Closes
        <3>4. object'[x.of] = Whole
            BY <1>0, <1>2, <2>1, <2>3
        <3>5. S3Fine(handler[h])'
            BY <1>1, <2>1, <3>1, <3>4 DEF S3Fine
        <3>6. RowsWhole'
            BY <1>0, <1>2, <2>2, <3>2, RowsKept DEF S3Inv, OthersKept
        <3> QED BY <1>0, <3>2, <3>3, <3>5, <3>6, WholeAgain
    <2>4. CASE Advances(h, "abort") /\ UNCHANGED <<object, open, parts, session>>
        <3>1. handler'[h].step = "abort"
            BY <1>4, <2>4
        <3> QED BY <1>3, <2>2, <2>4, <3>1 DEF S3Fine
    <2> QED BY <1>9, <2>3, <2>4 DEF Finish, Mpu, x
<1>10. CASE AbortSession(h) \/ AbortFails(h)
    <2>1. /\ UNCHANGED <<rows, object, name>> /\ Replies(h, "error", 0)
          /\ session' = [session EXCEPT ![i] = NoUpload]
          /\ \/ UNCHANGED <<open, parts>>
             \/ session[i] # NoUpload /\ Closes(session[i])
        BY <1>10 DEF AbortSession, AbortFails, Session, x
    <2>2. handler'[h].step = "reply" /\ handler'[h].reply = "error"
        BY <1>5, <2>1
    <2>3. OthersKept(h)
        BY <1>0, <1>2, <2>1 DEF OthersKept, SessionsApart, Closes, x
    <2>4. SessionsApart'
        BY <1>0, <1>2, <2>1 DEF SessionsApart, Closes
    <2>5. S3Fine(handler[h])'
        BY <2>2 DEF S3Fine
    <2>6. RowsWhole'
        BY <1>0, <1>2, <2>1, RowsKept DEF S3Inv
    <2> QED BY <1>0, <2>3, <2>4, <2>5, <2>6, WholeAgain
<1>11. CASE ReadSize(h)
    <2>1. UNCHANGED <<session, parts, object, open, rows, name>> /\ Advances(h, "row")
          /\ x.step = "size"
        BY <1>11 DEF ReadSize, bucketVars, x
    <2>2. handler'[h].step = "row" /\ object[x.of] = Whole /\ x.index = Chunks - 1
        BY <1>2, <1>4, <2>1 DEF S3Fine
    <2> QED BY <1>1, <1>3, <2>1, <2>2 DEF S3Fine
<1>12. CASE SizeFails(h)
    <2>1. UNCHANGED <<session, parts, object, open, rows, name>> /\ Replies(h, "error", 0)
        BY <1>12 DEF SizeFails, bucketVars
    <2>2. handler'[h].step = "reply" /\ handler'[h].reply = "error"
        BY <1>5, <2>1
    <2> QED BY <1>3, <2>1, <2>2 DEF S3Fine
<1>13. CASE BucketFails(h)
    <2>1. UNCHANGED <<session, parts, object, open, rows, name>> /\ Advances(h, "abort")
        BY <1>13 DEF BucketFails, bucketVars
    <2>2. handler'[h].step = "abort"
        BY <1>4, <2>1
    <2> QED BY <1>3, <2>1, <2>2 DEF S3Fine
<1>14. CASE CreateRow(h)
    <2>1. /\ rows' = rows \cup {i} /\ x.step = "row"
          /\ UNCHANGED <<session, parts, open, object>>
          /\ name' = [name EXCEPT ![i] = IF i \in rows THEN @ ELSE x.of]
          /\ Replies(h, IF i \in rows THEN "error" ELSE "ok", 0)
        BY <1>14 DEF CreateRow, CreateFileRow, x
    <2>2. object[x.of] = Whole /\ x.index = Chunks - 1
        BY <1>2, <2>1 DEF S3Fine
    <2>3. handler'[h].step = "reply"
        BY <1>5, <2>1
    <2>4. S3Fine(handler[h])'
        BY <1>1, <2>2, <2>3 DEF S3Fine
    <2>5. RowsWhole'
        BY <1>0, <1>2, <2>1, <2>2 DEF RowsWhole
    <2>6. OthersKept(h) /\ SessionsApart'
        BY <1>2, <2>1 DEF OthersKept, SessionsApart
    <2> QED BY <1>0, <2>4, <2>5, <2>6, WholeAgain
<1> QED BY <1>6, <1>7, <1>8, <1>9, <1>10, <1>11, <1>12, <1>13, <1>14 DEF S3Work, BucketError

\* S3Steps of the client and its network leave the bucket as it is.
LEMMA ClientKeepsBucket ==
    ASSUME S3WholeInv, UNCHANGED bucketVars, UNCHANGED rows,
           \A h \in Handlers : S3Fine(handler'[h]), \A u \in Uploads : ClientFine(client'[u])
    PROVE  S3WholeInv'
<1>1. SessionsApart' /\ RowsWhole'
    BY DEF S3WholeInv, SessionsApart, RowsWhole, bucketVars
<1>2. ASSUME NEW h \in Handlers PROVE S3Fine(handler[h])'
    <2>1. S3Fine(handler'[h])
        OBVIOUS
    <2> QED BY <2>1 DEF S3Fine, bucketVars
<1>3. ASSUME NEW u \in Uploads PROVE ClientFine(client[u])'
    <2>1. ClientFine(client'[u])
        OBVIOUS
    <2> QED BY <2>1 DEF ClientFine, bucketVars
<1> QED BY <1>1, <1>2, <1>3 DEF S3WholeInv

LEMMA S3NextKeepsWhole ==
    ASSUME "overlap" \notin Faults, S3Inv, ListedInv, S3WholeInv, S3Next
    PROVE  S3WholeInv'
<1>0. ClientTypeOK(S3Steps) /\ LoopInv /\ "idle" \notin S3Steps /\ "check" \in S3Steps /\ S3TypeOK
    BY S3Typed DEF S3Inv
<1>1. ASSUME NEW u \in Uploads, Send(u), UNCHANGED bucketVars PROVE S3WholeInv'
    <2>1. PICK h \in Handlers, i \in Ids : Sends(u, h, i) /\ Request(u, i) \in HandlerAt(S3Steps)
        BY <1>0, <1>1, SendIs
    <2>2. /\ handler'[h] = Request(u, i) /\ \A g \in Handlers \ {h} : handler'[g] = handler[g]
          /\ client'[u].pc = "wait" /\ \A w \in Uploads \ {u} : client'[w] = client[w]
        BY <1>0, <2>1 DEF Sends, ClientTypeOK, Client
    <2>3. ClientFine(client[u]) /\ client[u].pc = "send"
          /\ (client[u].id # NoId => i = client[u].id)
        BY <2>1 DEF S3WholeInv, Sends
    <2>4. S3Fine(Request(u, i))
        BY <2>3 DEF S3Fine, Request, ClientFine
    <2>5. \A g \in Handlers : S3Fine(handler'[g])
        BY <2>2, <2>4 DEF S3WholeInv
    <2>6. \A w \in Uploads : ClientFine(client'[w])
        <3>1. ClientFine(client'[u])
            BY <2>2 DEF ClientFine
        <3> QED BY <2>2, <3>1 DEF S3WholeInv
    <2> QED BY <1>1, <2>1, <2>5, <2>6, ClientKeepsBucket DEF Sends
<1>2. ASSUME NEW u \in Uploads, Lose(u), UNCHANGED bucketVars PROVE S3WholeInv'
    <2>1. PICK h \in Handlers : Settles(u, h, BeginsAgain(client[u]))
        BY <1>0, <1>2, LoseIs
    <2>2. ASSUME NEW g \in Handlers PROVE S3Fine(handler'[g])
        <3>1. CASE IsIdle(g)'
            BY <3>1 DEF IsIdle, S3Fine
        <3>2. CASE ~IsIdle(g)'
            <4>1. S3Fine(handler[g])
                BY DEF S3WholeInv
            <4> QED BY <1>0, <2>1, <3>2, <4>1, SettlingKeepsRequests DEF S3Fine
        <3> QED BY <3>1, <3>2
    <2>3. client[u] \in Client
        BY <1>0 DEF ClientTypeOK
    <2>4. \A w \in Uploads : client'[w] = client[w] \/ client'[w].index = 0
        BY <1>0, <2>1, <2>3, BeginsAgainIs DEF Settles, ClientTypeOK
    <2>5. \A w \in Uploads : ClientFine(client'[w])
        BY <2>4 DEF S3WholeInv, ClientFine
    <2> QED BY <1>2, <2>1, <2>2, <2>5, ClientKeepsBucket DEF Settles
<1>3. ASSUME NEW h \in Handlers, Answer(h), UNCHANGED bucketVars PROVE S3WholeInv'
    <2> DEFINE x == handler[h]
               u == x.of
               d == Answered(client[u], x)
    <2>1. /\ x \in HandlerAt(S3Steps) /\ x.step = "reply" /\ u \in Uploads
          /\ x.reply # "none"
          /\ x.awaited => Settles(u, h, d)
          /\ ~x.awaited => Drops(h)
          /\ UNCHANGED rows
        BY <1>0, <1>3, AnswerIs
    <2>2. handler'[h].step = "idle" /\ \A g \in Handlers \ {h} : handler'[g] = handler[g]
        BY <1>0, <1>3 DEF Answer, ClientTypeOK, IdleHandler
    <2>3. \A g \in Handlers : S3Fine(handler'[g])
        <3>1. S3Fine(handler'[h])
            BY <2>2 DEF S3Fine
        <3> QED BY <2>2, <3>1 DEF S3WholeInv
    <2>4. ASSUME x.awaited PROVE ClientFine(d)
        <3>1. client[u] \in Client /\ S3Fine(x)
            BY <1>0, <2>1 DEF ClientTypeOK, S3WholeInv
        <3>2. x.reply # "expected"
            BY <2>1 DEF ListedInv
        <3>3. client[u].index = x.index /\ x.id \in Ids /\ x.id # NoId
            BY <1>0, <2>1, <2>4, ClientAssumption DEF LoopInv, OneAwaited, IsIdle, HandlerAt
        <3>4. d.pc = "send" /\ d.index # 0 =>
                 /\ x.reply = "ok" /\ x.index # Chunks - 1
                 /\ d.index = x.index + 1 /\ d.id = x.id
            BY <2>1, <3>1, <3>2, <3>3, AnsweredIs
        <3> HIDE DEF d
        <3> QED BY <2>1, <2>4, <3>1, <3>3, <3>4 DEF ClientFine, S3Fine
    <2> HIDE DEF d
    <2>5. \A w \in Uploads : ClientFine(client'[w])
        BY <1>0, <2>1, <2>4 DEF Settles, Drops, S3WholeInv, ClientTypeOK
    <2> QED BY <1>3, <2>1, <2>3, <2>5, ClientKeepsBucket
<1>4. ASSUME NEW h \in Handlers, S3Work(h) PROVE S3WholeInv'
    BY <1>4, S3WorkKeepsWhole
<1>5. CASE S3Crash
    <2>1. /\ UNCHANGED <<rows, open, object, name>>
          /\ \A h \in Handlers : handler'[h].step = "idle"
          /\ \A u \in Uploads :
                /\ client'[u].id = client[u].id
                /\ client'[u] = client[u] \/ (client'[u].pc = "send" /\ client'[u].index = 0)
          /\ \A i \in Ids : session'[i] = NoUpload
        BY <1>5, S3CrashIs
    <2>2. SessionsApart' /\ RowsWhole'
        BY <2>1 DEF S3WholeInv, SessionsApart, RowsWhole
    <2>3. \A h \in Handlers : S3Fine(handler[h])'
        BY <2>1 DEF S3Fine
    <2>4. ASSUME NEW u \in Uploads PROVE ClientFine(client[u])'
        <3>1. ClientFine(client[u]) /\ client[u] \in Client
            BY <1>0 DEF S3WholeInv, ClientTypeOK
        <3> QED BY <2>1, <3>1 DEF ClientFine, Client
    <2> QED BY <2>2, <2>3, <2>4 DEF S3WholeInv
<1> QED BY <1>1, <1>2, <1>3, <1>4, <1>5 DEF S3Next, S3Serve, S3Work

\* Only CreateRow adds rows, one at a time.
LEMMA S3RowsGrow ==
    ASSUME S3Inv, S3Next
    PROVE  UNCHANGED rows \/ \E i \in Ids \ rows : rows' = rows \cup {i}
<1>1. ASSUME NEW h \in Handlers, CreateRow(h)
      PROVE  UNCHANGED rows \/ \E i \in Ids \ rows : rows' = rows \cup {i}
    <2>1. handler[h].id \in Ids
        BY <1>1, S3BusyFacts DEF S3Inv, CreateRow, CreateFileRow
    <2>2. rows' = rows \cup {handler[h].id}
        BY <1>1 DEF CreateRow, CreateFileRow
    <2> QED BY <2>1, <2>2
<1> QED BY <1>1 DEF S3Next, S3Serve, Send, Lose, Answer, S3Crash, ProcessDies, Open, Join, UploadPart,
        Finish, AbortSession, ReadSize, BucketError, BucketFails, AbortFails, SizeFails

(***************************************************************************)
(* Readers see a file only whole: the upload implements AtomicFiles.  A    *)
(* session has the parts before the chunk that the client sends next, so   *)
(* what is completed is the whole file; and rows refer to objects that     *)
(* are whole, and replaced only by whole ones.                             *)
(***************************************************************************)
THEOREM S3WholeTheorem == ASSUME "overlap" \notin Faults PROVE S3Spec => S3FilesAppearWhole
<1> DEFINE V == [i \in Ids |-> IF i \in rows THEN "whole" ELSE "absent"]
<1>1. S3Init => S3WholeInv
    BY DEF S3Init, ClientInit, S3WholeInv, SessionsApart, S3Fine, ClientFine, RowsWhole, IdleHandler
<1>2. S3WholeInv /\ UNCHANGED s3Vars => S3WholeInv'
    BY DEF S3WholeInv, SessionsApart, S3Fine, ClientFine, RowsWhole, s3Vars
<1>3. S3Inv /\ ListedInv /\ S3WholeInv /\ S3Next => S3WholeInv'
    BY S3NextKeepsWhole
<1>4. S3Init => ListedInv
    BY DEF S3Init, ClientInit, ListedInv, IdleHandler, DoneMeansListed
<1>5. ListedInv /\ UNCHANGED s3Vars => ListedInv'
    BY DEF ListedInv, DoneMeansListed, IsLast, s3Vars
<1>6. S3WholeInv => S3Visible = V
    BY DEF S3WholeInv, RowsWhole, S3Visible
<1>7. S3Init => S3Promise!Init
    BY DEF S3Init, ClientInit, S3Promise!Init, S3Visible
<1>8. S3Inv /\ S3WholeInv /\ S3WholeInv' /\ S3Next => [S3Promise!Next]_S3Visible
    <2> SUFFICES ASSUME S3Inv, S3WholeInv, S3WholeInv', S3Next PROVE [S3Promise!Next]_S3Visible
        OBVIOUS
    <2>1. S3Visible = V /\ S3Visible' = V'
        BY <1>6 DEF S3WholeInv, RowsWhole, S3Visible
    <2>2. CASE UNCHANGED rows
        BY <2>1, <2>2
    <2>3. ASSUME NEW i \in Ids \ rows, rows' = rows \cup {i} PROVE S3Promise!Next
        <3>1. V[i] = "absent" /\ V' = [V EXCEPT ![i] = "whole"]
            BY <2>3
        <3> QED BY <2>1, <3>1 DEF S3Promise!Next, S3Promise!Publish
    <2> QED BY <2>2, <2>3, S3RowsGrow
<1>9. UNCHANGED s3Vars => UNCHANGED S3Visible
    BY DEF s3Vars, S3Visible
<1> QED BY <1>1, <1>2, <1>3, <1>4, <1>5, <1>7, <1>8, <1>9, ListedAgain, S3InvInductive, PTL
        DEF S3Spec, S3FilesAppearWhole, S3Promise!Spec
=============================================================================
