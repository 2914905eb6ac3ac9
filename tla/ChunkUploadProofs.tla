--------------------------- MODULE ChunkUploadProofs ---------------------------
(***************************************************************************)
(* First what holds of the browser's upload loop and of its requests       *)
(* whichever service answers them: the ids of different uploads stay       *)
(* apart, a client waits for one request at most, and where requests do    *)
(* not overtake each other an upload has one request under way.            *)
(* S3UploadProofs builds on these facts too.                               *)
(*                                                                         *)
(* Then what holds of an upload to the local disk: it keeps its types; as  *)
(* long as no request of a client overtakes one that it has given up on, a *)
(* client that ends its loop has its file listed, unless a request with a  *)
(* last chunk was cut off; and readers see files only whole, if appends    *)
(* are not torn.                                                           *)
(***************************************************************************)
EXTENDS ChunkUpload, SequenceTheorems, TLAPS

Replied == \A h \in Handlers : handler[h].step = "reply" => handler[h].reply # "none"

\* An id belongs to one upload, and is not handed out again.
IdsApart ==
    /\ \A u \in Uploads : client[u].id \notin fresh
    /\ \A u, w \in Uploads : client[u].id = client[w].id /\ client[u].id # NoId => u = w
    /\ \A h \in Handlers : ~IsIdle(h) => handler[h].id \notin fresh
    /\ \A h \in Handlers, u \in Uploads :
          ~IsIdle(h) /\ client[u].id = handler[h].id => handler[h].of = u
    /\ \A g, h \in Handlers :
          ~IsIdle(g) /\ ~IsIdle(h) /\ handler[g].id = handler[h].id
             => handler[g].of = handler[h].of

\* A client waits for one request, the one with its chunk.
OneAwaited ==
    /\ \A h \in Handlers :
          ~IsIdle(h) /\ handler[h].awaited =>
             /\ client[handler[h].of].pc = "wait"
             /\ client[handler[h].of].index = handler[h].index
             /\ client[handler[h].of].id \in {NoId, handler[h].id}
    /\ \A g, h \in Handlers :
          /\ ~IsIdle(g) /\ handler[g].awaited
          /\ ~IsIdle(h) /\ handler[h].awaited
          /\ handler[g].of = handler[h].of
          => g = h

\* Unless requests overtake each other an upload has one under way, and none
\* when its client is about to send another chunk than the first.
OneUnderWay ==
    "overlap" \notin Faults =>
        /\ \A g, h \in Handlers :
              ~IsIdle(g) /\ ~IsIdle(h) /\ handler[g].of = handler[h].of => g = h
        /\ \A h \in Handlers :
              ~IsIdle(h) /\ client[handler[h].of].pc = "send"
                 => client[handler[h].of].index = 0

LoopInv == Replied /\ IdsApart /\ OneAwaited /\ OneUnderWay

LEMMA BusyType ==
    ASSUME NEW steps, "idle" \notin steps, ClientTypeOK(steps), NEW h \in Handlers, ~IsIdle(h)
    PROVE  handler[h] \in HandlerAt(steps)
BY DEF ClientTypeOK, IsIdle, IdleHandler

-----------------------------------------------------------------------------
(* A step of a service: on with the request, or its reply *)

Works(h) ==
    /\ ~IsIdle(h) /\ ~IsIdle(h)'
    /\ handler'[h].of = handler[h].of
    /\ handler'[h].index = handler[h].index
    /\ handler'[h].id = handler[h].id
    /\ handler'[h].awaited = handler[h].awaited
    /\ handler'[h].step = "reply" => handler'[h].reply # "none"
    /\ \A g \in Handlers \ {h} : handler'[g] = handler[g]
    /\ UNCHANGED <<client, fresh>>

LEMMA WorkKeepsLoop ==
    ASSUME LoopInv, NEW h \in Handlers, Works(h)
    PROVE  LoopInv'
<1>1. \A g \in Handlers :
         /\ IsIdle(g)' <=> IsIdle(g)
         /\ ~IsIdle(g) =>
               /\ handler'[g].of = handler[g].of
               /\ handler'[g].index = handler[g].index
               /\ handler'[g].id = handler[g].id
               /\ handler'[g].awaited = handler[g].awaited
    BY DEF Works, IsIdle
<1>2. UNCHANGED <<client, fresh>>
    BY DEF Works
<1>3. Replied'
    BY DEF LoopInv, Replied, Works
<1>4. IdsApart'
    BY <1>1, <1>2 DEF LoopInv, IdsApart
<1>5. OneAwaited'
    BY <1>1, <1>2 DEF LoopInv, OneAwaited
<1>6. OneUnderWay'
    BY <1>1, <1>2 DEF LoopInv, OneUnderWay
<1> QED BY <1>3, <1>4, <1>5, <1>6 DEF LoopInv

LEMMA StutterKeepsLoop ==
    ASSUME LoopInv, UNCHANGED <<client, handler, fresh>> PROVE LoopInv'
BY DEF LoopInv, Replied, IdsApart, OneAwaited, OneUnderWay, IsIdle

LEMMA InitIsLoop == ASSUME ClientInit PROVE LoopInv
<1>1. \A h \in Handlers : IsIdle(h) /\ handler[h].step = "idle"
    BY DEF ClientInit, IsIdle, IdleHandler
<1>2. \A u \in Uploads : client[u].id = NoId /\ client[u].id \notin fresh
    BY ClientAssumption DEF ClientInit
<1> QED BY <1>1, <1>2 DEF LoopInv, Replied, IdsApart, OneAwaited, OneUnderWay

LEMMA InitIsTyped ==
    ASSUME NEW steps, ClientInit PROVE ClientTypeOK(steps)
<1>1. [pc |-> "send", index |-> 0, id |-> NoId] \in Client
    BY ClientAssumption DEF Client, Indices
<1>2. faults \in 0 .. MaxFaults
    BY ClientAssumption DEF ClientInit
<1> QED BY <1>1, <1>2 DEF ClientInit, ClientTypeOK

LEMMA AdvancesIs ==
    ASSUME NEW steps, "idle" \notin steps, ClientTypeOK(steps), NEW h \in Handlers,
           ~IsIdle(h), NEW step \in steps, step # "reply", Advances(h, step),
           UNCHANGED <<client, fresh>>
    PROVE  /\ Works(h)
           /\ handler'[h].step = step /\ handler'[h].reply = handler[h].reply
           /\ handler'[h].mpu = handler[h].mpu
           /\ handler'[h] \in HandlerAt(steps)
           /\ handler' \in [Handlers -> {IdleHandler} \cup HandlerAt(steps)]
<1>1. handler[h] \in HandlerAt(steps)
    BY BusyType
<1>2. handler'[h] = [handler[h] EXCEPT !.step = step]
      /\ \A g \in Handlers \ {h} : handler'[g] = handler[g]
    BY DEF Advances, ClientTypeOK
<1>3. [handler[h] EXCEPT !.step = step] \in HandlerAt(steps)
    BY <1>1 DEF HandlerAt
<1>4. handler' \in [Handlers -> {IdleHandler} \cup HandlerAt(steps)]
    BY <1>3 DEF Advances, ClientTypeOK
<1>5. /\ handler'[h].of = handler[h].of
      /\ handler'[h].index = handler[h].index
      /\ handler'[h].id = handler[h].id
      /\ handler'[h].awaited = handler[h].awaited
      /\ handler'[h].step = step /\ handler'[h].reply = handler[h].reply
      /\ handler'[h].mpu = handler[h].mpu
    BY <1>1, <1>2 DEF HandlerAt
<1>6. ~IsIdle(h)'
    BY <1>5 DEF IsIdle
<1> QED BY <1>2, <1>3, <1>4, <1>5, <1>6 DEF Works

\* Request h has an answer, and is otherwise what it was.
HasReply(steps, h, r, e) ==
    /\ Works(h)
    /\ handler'[h].step = "reply" /\ handler'[h].reply = r
    /\ handler'[h].expected = e /\ handler'[h].mpu = handler[h].mpu
    /\ handler'[h] \in HandlerAt(steps)
    /\ handler' \in [Handlers -> {IdleHandler} \cup HandlerAt(steps)]

LEMMA RepliesIs ==
    ASSUME NEW steps, "idle" \notin steps, "reply" \in steps, ClientTypeOK(steps),
           NEW h \in Handlers, ~IsIdle(h), NEW r \in {"ok", "error", "too large", "expected"},
           NEW e \in Nat, Replies(h, r, e), UNCHANGED <<client, fresh>>
    PROVE  HasReply(steps, h, r, e)
<1>1. handler[h] \in HandlerAt(steps)
    BY BusyType
<1> DEFINE x == [handler[h] EXCEPT !.step = "reply", !.reply = r, !.expected = e]
<1>2. handler' = [handler EXCEPT ![h] = x]
    BY DEF Replies, ClientTypeOK
<1>3. /\ x \in HandlerAt(steps)
      /\ x.of = handler[h].of /\ x.index = handler[h].index /\ x.id = handler[h].id
      /\ x.awaited = handler[h].awaited /\ x.step = "reply" /\ x.reply = r
      /\ x.expected = e /\ x.mpu = handler[h].mpu
    BY <1>1 DEF HandlerAt
<1> HIDE DEF x
<1>4. handler'[h] = x /\ \A g \in Handlers \ {h} : handler'[g] = handler[g]
    BY <1>2 DEF ClientTypeOK
<1>5. handler' \in [Handlers -> {IdleHandler} \cup HandlerAt(steps)]
    BY <1>2, <1>3 DEF ClientTypeOK
<1>6. ~IsIdle(h)'
    BY <1>3, <1>4 DEF IsIdle
<1>7. Works(h)
    BY <1>3, <1>4, <1>6 DEF Works
<1> QED BY <1>3, <1>4, <1>5, <1>7 DEF HasReply

-----------------------------------------------------------------------------
(* The steps of the client and its network *)

\* The request for the chunk at which client u is, under the id i.
Request(u, i) ==
    [step |-> "check", of |-> u, index |-> client[u].index, id |-> i,
     awaited |-> TRUE, reply |-> "none", expected |-> 0, mpu |-> 0]

Sends(u, h, i) ==
    /\ client[u].pc = "send" /\ IsIdle(h)
    /\ "overlap" \in Faults \/ Pending(u) = {}
    /\ fresh' = fresh \ {i}
    /\ IF client[u].id = NoId THEN i \in fresh ELSE i = client[u].id
    /\ handler' = [handler EXCEPT ![h] = Request(u, i)]
    /\ client' = [client EXCEPT ![u].pc = "wait"]
    /\ UNCHANGED <<rows, faults, lastLost>>

LEMMA AnyOfIsIn == ASSUME NEW S, S # {} PROVE AnyOf(S) \in S
BY DEF AnyOf

LEMMA SendIs ==
    ASSUME NEW steps, "idle" \notin steps, "check" \in steps, ClientTypeOK(steps),
           NEW u \in Uploads, Send(u)
    PROVE  \E h \in Handlers, i \in Ids :
              Sends(u, h, i) /\ Request(u, i) \in HandlerAt(steps)
<1> DEFINE H == {g \in Handlers : IsIdle(g)}
           h == AnyOf(H)
           i == IF client[u].id = NoId THEN AnyOf(fresh) ELSE client[u].id
<1>1. H # {} /\ (client[u].id = NoId => fresh # {})
    BY DEF Send
<1>2. h \in H
    BY <1>1, AnyOfIsIn
<1>3. client[u].id = NoId => i \in fresh
    BY <1>1, AnyOfIsIn
<1>4. client[u] \in Client /\ fresh \subseteq Ids
    BY DEF ClientTypeOK
<1>5. i \in Ids /\ (IF client[u].id = NoId THEN i \in fresh ELSE i = client[u].id)
    BY <1>3, <1>4 DEF Client
<1>6. /\ fresh' = fresh \ {i}
      /\ handler' = [handler EXCEPT ![h] = Request(u, i)]
    BY DEF Send, Request
<1> HIDE DEF h, i
<1>7. Sends(u, h, i)
    BY <1>2, <1>5, <1>6 DEF Send, Sends
<1>8. Request(u, i) \in HandlerAt(steps)
    BY <1>4, <1>5 DEF Request, HandlerAt, Client
<1> QED BY <1>2, <1>5, <1>7, <1>8

LEMMA SendKeepsLoop ==
    ASSUME NEW steps, ClientTypeOK(steps), LoopInv,
           NEW u \in Uploads, NEW h \in Handlers, NEW i \in Ids, Sends(u, h, i)
    PROVE  LoopInv'
<1>1. /\ ~IsIdle(h)'
      /\ handler'[h].of = u /\ handler'[h].id = i /\ handler'[h].awaited
      /\ handler'[h].index = client[u].index /\ handler'[h].step = "check"
      /\ IsIdle(h)
      /\ \A g \in Handlers \ {h} : handler'[g] = handler[g] /\ (IsIdle(g)' <=> IsIdle(g))
    BY DEF Sends, Request, ClientTypeOK, IsIdle
<1>2. /\ client'[u].pc = "wait" /\ client'[u].index = client[u].index
      /\ client'[u].id = client[u].id /\ client[u].pc = "send"
      /\ \A w \in Uploads \ {u} : client'[w] = client[w]
    BY DEF Sends, ClientTypeOK, Client
<1>3. \A w \in Uploads : client'[w].id = client[w].id
    BY <1>2
<1>4. fresh' = fresh \ {i} /\ (client[u].id = NoId => i \in fresh)
      /\ (client[u].id # NoId => i = client[u].id)
    BY DEF Sends
<1>5. Replied'
    BY <1>1 DEF LoopInv, Replied
<1>6. IdsApart'
    <2>1. \A w \in Uploads : client'[w].id \notin fresh'
        BY <1>3, <1>4 DEF LoopInv, IdsApart
    <2>2. \A w, x \in Uploads : client'[w].id = client'[x].id /\ client'[w].id # NoId => w = x
        BY <1>3 DEF LoopInv, IdsApart
    <2>3. \A g \in Handlers : ~IsIdle(g)' => handler'[g].id \notin fresh'
        BY <1>1, <1>4 DEF LoopInv, IdsApart
    <2>4. ASSUME NEW g \in Handlers, NEW w \in Uploads,
                 ~IsIdle(g)', client'[w].id = handler'[g].id
          PROVE  handler'[g].of = w
        <3>1. CASE g = h
            <4>1. client[w].id = i
                BY <1>1, <1>3, <2>4, <3>1
            <4>2. i \notin fresh
                BY <4>1 DEF LoopInv, IdsApart
            <4>3. client[u].id = i /\ i # NoId
                BY <1>4, <4>2, ClientAssumption
            <4> QED BY <1>1, <3>1, <4>1, <4>3 DEF LoopInv, IdsApart
        <3>2. CASE g # h
            BY <1>1, <1>3, <2>4, <3>2 DEF LoopInv, IdsApart
        <3> QED BY <3>1, <3>2
    <2>5. ASSUME NEW g \in Handlers, ~IsIdle(g), handler[g].id = i PROVE handler[g].of = u
        <3>1. i \notin fresh
            BY <2>5 DEF LoopInv, IdsApart
        <3>2. client[u].id = i
            BY <1>4, <3>1
        <3> QED BY <2>5, <3>2 DEF LoopInv, IdsApart
    <2>6. ASSUME NEW f \in Handlers, NEW g \in Handlers,
                 ~IsIdle(f)', ~IsIdle(g)', handler'[f].id = handler'[g].id
          PROVE  handler'[f].of = handler'[g].of
        <3>1. CASE f # h /\ g # h
            BY <1>1, <2>6, <3>1 DEF LoopInv, IdsApart
        <3>2. CASE f = h \/ g = h
            BY <1>1, <2>5, <2>6, <3>2
        <3> QED BY <3>1, <3>2
    <2> QED BY <2>1, <2>2, <2>3, <2>4, <2>6 DEF IdsApart
<1>7. OneAwaited'
    <2>1. \A g \in Handlers : ~IsIdle(g) /\ handler[g].awaited => handler[g].of # u
        BY <1>2 DEF LoopInv, OneAwaited
    <2>2. ASSUME NEW g \in Handlers, ~IsIdle(g)', handler'[g].awaited
          PROVE  /\ client'[handler'[g].of].pc = "wait"
                 /\ client'[handler'[g].of].index = handler'[g].index
                 /\ client'[handler'[g].of].id \in {NoId, handler'[g].id}
        <3>1. CASE g = h
            BY <1>1, <1>2, <1>4, <3>1
        <3>2. CASE g # h
            <4>1. ~IsIdle(g) /\ handler'[g] = handler[g] /\ handler[g].awaited
                BY <1>1, <2>2, <3>2
            <4>2. handler[g].of \in Uploads \ {u}
                <5>1. handler[g] \in HandlerAt(steps)
                    BY <4>1 DEF ClientTypeOK, IsIdle, IdleHandler
                <5> QED BY <2>1, <4>1, <5>1 DEF HandlerAt
            <4> QED BY <1>2, <4>1, <4>2 DEF LoopInv, OneAwaited
        <3> QED BY <3>1, <3>2
    <2>3. ASSUME NEW f \in Handlers, NEW g \in Handlers,
                 ~IsIdle(f)', handler'[f].awaited, ~IsIdle(g)', handler'[g].awaited,
                 handler'[f].of = handler'[g].of
          PROVE  f = g
        BY <1>1, <2>1, <2>3 DEF LoopInv, OneAwaited
    <2> QED BY <2>2, <2>3 DEF OneAwaited
<1>8. OneUnderWay'
    <2> SUFFICES ASSUME "overlap" \notin Faults PROVE OneUnderWay'
        BY DEF OneUnderWay
    <2>1. \A g \in Handlers : ~IsIdle(g) => handler[g].of # u
        BY DEF Sends, Pending
    <2>2. ASSUME NEW f \in Handlers, NEW g \in Handlers,
                 ~IsIdle(f)', ~IsIdle(g)', handler'[f].of = handler'[g].of
          PROVE  f = g
        BY <1>1, <2>1, <2>2 DEF LoopInv, OneUnderWay
    <2>3. ASSUME NEW g \in Handlers, ~IsIdle(g)', client'[handler'[g].of].pc = "send"
          PROVE  client'[handler'[g].of].index = 0
        <3>1. g # h
            BY <1>1, <1>2, <2>3
        <3>2. ~IsIdle(g) /\ handler'[g] = handler[g]
            BY <1>1, <2>3, <3>1
        <3>3. handler[g].of \in Uploads \ {u}
            <4>1. handler[g] \in HandlerAt(steps)
                BY <3>2 DEF ClientTypeOK, IsIdle, IdleHandler
            <4> QED BY <2>1, <3>2, <4>1 DEF HandlerAt
        <3> QED BY <1>2, <2>3, <3>2, <3>3 DEF LoopInv, OneUnderWay
    <2> QED BY <2>2, <2>3 DEF OneUnderWay
<1> QED BY <1>5, <1>6, <1>7, <1>8 DEF LoopInv

\* Client u goes on as d: the request it waited for is over for it.
Settles(u, h, d) ==
    /\ ~IsIdle(h) /\ handler[h].awaited /\ handler[h].of = u
    /\ \/ IsIdle(h)' /\ handler'[h].step = "idle"
       \/ /\ ~IsIdle(h)' /\ handler'[h] = [handler[h] EXCEPT !.awaited = FALSE]
          /\ d.pc = "send" => d.index = 0
    /\ \A g \in Handlers \ {h} : handler'[g] = handler[g]
    /\ d \in Client /\ d.pc # "wait" /\ d.id \in {client[u].id, handler[h].id}
    /\ client' = [client EXCEPT ![u] = d]
    /\ UNCHANGED <<rows, fresh>>

\* The requests under way go on as they were.
LEMMA SettlingKeepsRequests ==
    ASSUME NEW steps, "idle" \notin steps, ClientTypeOK(steps),
           NEW u \in Uploads, NEW h \in Handlers, NEW d, Settles(u, h, d),
           NEW g \in Handlers, ~IsIdle(g)'
    PROVE  /\ ~IsIdle(g) /\ handler'[g].step = handler[g].step
           /\ handler'[g].of = handler[g].of /\ handler'[g].index = handler[g].index
           /\ handler'[g].id = handler[g].id /\ handler'[g].reply = handler[g].reply
           /\ handler'[g].expected = handler[g].expected /\ handler'[g].mpu = handler[g].mpu
           /\ handler'[g].awaited => handler[g].awaited /\ g # h
<1>1. handler[h] \in HandlerAt(steps)
    BY BusyType DEF Settles
<1>2. CASE g # h
    BY <1>2 DEF Settles, IsIdle
<1>3. CASE g = h /\ handler'[h] = [handler[h] EXCEPT !.awaited = FALSE]
    <2>1. /\ handler'[h].of = handler[h].of /\ handler'[h].index = handler[h].index
          /\ handler'[h].id = handler[h].id /\ handler'[h].reply = handler[h].reply
          /\ handler'[h].expected = handler[h].expected /\ handler'[h].mpu = handler[h].mpu
          /\ handler'[h].step = handler[h].step /\ ~handler'[h].awaited
        BY <1>1, <1>3 DEF HandlerAt
    <2> QED BY <1>3, <2>1 DEF Settles
<1> QED BY <1>2, <1>3 DEF Settles

LEMMA SettlingKeepsLoop ==
    ASSUME NEW steps, "idle" \notin steps, ClientTypeOK(steps), LoopInv,
           NEW u \in Uploads, NEW h \in Handlers, NEW d, Settles(u, h, d)
    PROVE  LoopInv'
<1>1. \A g \in Handlers : ~IsIdle(g)' =>
         /\ ~IsIdle(g)
         /\ handler'[g].of = handler[g].of /\ handler'[g].index = handler[g].index
         /\ handler'[g].id = handler[g].id /\ handler'[g].reply = handler[g].reply
         /\ handler'[g].step = handler[g].step
         /\ handler'[g].awaited => handler[g].awaited /\ g # h
    BY SettlingKeepsRequests
<1>2. /\ client'[u] = d /\ d.pc # "wait" /\ d.id \in {client[u].id, handler[h].id}
      /\ \A w \in Uploads \ {u} : client'[w] = client[w]
      /\ fresh' = fresh
    BY DEF Settles, ClientTypeOK
<1>3. ~IsIdle(h) /\ handler[h].awaited /\ handler[h].of = u
    BY DEF Settles
<1>4. \A w \in Uploads :
         client'[w].id = client[w].id \/ (w = u /\ client'[w].id = handler[h].id)
    BY <1>2
<1>5. Replied'
    BY <1>1 DEF LoopInv, Replied, Settles, IsIdle
<1>6. IdsApart'
    <2>1. \A w \in Uploads : client'[w].id \notin fresh'
        BY <1>2, <1>3, <1>4 DEF LoopInv, IdsApart
    <2>2. ASSUME NEW w \in Uploads, NEW x \in Uploads,
                 client'[w].id = client'[x].id, client'[w].id # NoId
          PROVE  w = x
        BY <1>3, <1>4, <2>2 DEF LoopInv, IdsApart
    <2>3. \A g \in Handlers : ~IsIdle(g)' => handler'[g].id \notin fresh'
        BY <1>1, <1>2 DEF LoopInv, IdsApart
    <2>4. ASSUME NEW g \in Handlers, NEW w \in Uploads,
                 ~IsIdle(g)', client'[w].id = handler'[g].id
          PROVE  handler'[g].of = w
        BY <1>1, <1>3, <1>4, <2>4 DEF LoopInv, IdsApart
    <2>5. \A f, g \in Handlers : ~IsIdle(f)' /\ ~IsIdle(g)' /\ handler'[f].id = handler'[g].id
             => handler'[f].of = handler'[g].of
        BY <1>1 DEF LoopInv, IdsApart
    <2> QED BY <2>1, <2>2, <2>3, <2>4, <2>5 DEF IdsApart
<1>7. OneAwaited'
    <2>1. ASSUME NEW g \in Handlers, ~IsIdle(g)', handler'[g].awaited
          PROVE  ~IsIdle(g) /\ handler[g].awaited /\ handler[g].of \in Uploads \ {u}
        <3>1. ~IsIdle(g) /\ handler[g].awaited /\ g # h
            BY <1>1, <2>1
        <3>2. handler[g] \in HandlerAt(steps)
            BY <3>1, BusyType
        <3>3. handler[g].of # u
            BY <1>3, <3>1 DEF LoopInv, OneAwaited
        <3> QED BY <3>1, <3>2, <3>3 DEF HandlerAt
    <2>2. ASSUME NEW g \in Handlers, ~IsIdle(g)', handler'[g].awaited
          PROVE  /\ client'[handler'[g].of].pc = "wait"
                 /\ client'[handler'[g].of].index = handler'[g].index
                 /\ client'[handler'[g].of].id \in {NoId, handler'[g].id}
        <3>1. client'[handler[g].of] = client[handler[g].of]
            BY <1>2, <2>1, <2>2
        <3> QED BY <1>1, <2>1, <2>2, <3>1 DEF LoopInv, OneAwaited
    <2>3. \A f, g \in Handlers :
             /\ ~IsIdle(f)' /\ handler'[f].awaited
             /\ ~IsIdle(g)' /\ handler'[g].awaited
             /\ handler'[f].of = handler'[g].of
             => f = g
        BY <1>1 DEF LoopInv, OneAwaited
    <2> QED BY <2>2, <2>3 DEF OneAwaited
<1>8. OneUnderWay'
    <2> SUFFICES ASSUME "overlap" \notin Faults PROVE OneUnderWay'
        BY DEF OneUnderWay
    <2>1. \A f, g \in Handlers :
             ~IsIdle(f)' /\ ~IsIdle(g)' /\ handler'[f].of = handler'[g].of => f = g
        BY <1>1 DEF LoopInv, OneUnderWay
    <2>2. ASSUME NEW g \in Handlers, ~IsIdle(g)', client'[handler'[g].of].pc = "send"
          PROVE  client'[handler'[g].of].index = 0
        <3>1. ~IsIdle(g) /\ handler'[g].of = handler[g].of /\ handler[g] \in HandlerAt(steps)
            BY <1>1, <2>2, BusyType
        <3>2. CASE handler[g].of = u
            <4>1. g = h
                BY <1>3, <3>1, <3>2 DEF LoopInv, OneUnderWay
            <4> QED BY <1>2, <2>2, <3>1, <3>2, <4>1 DEF Settles
        <3>3. CASE handler[g].of # u
            <4>1. client'[handler[g].of] = client[handler[g].of]
                BY <1>2, <3>1, <3>3 DEF HandlerAt
            <4> QED BY <2>2, <3>1, <4>1 DEF LoopInv, OneUnderWay
        <3> QED BY <3>2, <3>3
    <2> QED BY <2>1, <2>2 DEF OneUnderWay
<1> QED BY <1>5, <1>6, <1>7, <1>8 DEF LoopInv

\* Request h is over, and nobody waits for it.
Drops(h) ==
    /\ IsIdle(h)' /\ handler'[h].step = "idle"
    /\ \A g \in Handlers \ {h} : handler'[g] = handler[g]
    /\ UNCHANGED <<client, fresh, rows>>

LEMMA DroppingKeepsLoop ==
    ASSUME LoopInv, NEW h \in Handlers, Drops(h) PROVE LoopInv'
<1>1. \A g \in Handlers : handler'[g].step # "idle" => handler'[g] = handler[g] /\ ~IsIdle(g)
    BY DEF Drops, IsIdle
<1>2. \A g \in Handlers : ~IsIdle(g)' => handler'[g] = handler[g] /\ ~IsIdle(g)
    BY <1>1 DEF IsIdle
<1>3. UNCHANGED <<client, fresh>>
    BY DEF Drops
<1>4. Replied'
    BY <1>1 DEF LoopInv, Replied
<1>5. IdsApart'
    BY <1>2, <1>3 DEF LoopInv, IdsApart
<1>6. OneAwaited'
    BY <1>2, <1>3 DEF LoopInv, OneAwaited
<1>7. OneUnderWay'
    BY <1>2, <1>3 DEF LoopInv, OneUnderWay
<1> QED BY <1>4, <1>5, <1>6, <1>7 DEF LoopInv

(***************************************************************************)
(* Where the loop goes on after a reply: to its end only if the last chunk *)
(* was taken, or the service says that it expects none.                    *)
(***************************************************************************)
LEMMA AnsweredIs ==
    ASSUME NEW steps, NEW c \in Client, NEW r \in HandlerAt(steps), r.reply # "none"
    PROVE  LET d == Answered(c, r)
           IN  /\ d \in Client /\ d.pc # "wait"
               /\ d.id \in {c.id, r.id}
               /\ r.reply # "ok" => d.id = c.id
               /\ d.pc = "done" => \/ r.reply = "ok" /\ c.index = Chunks - 1 /\ d.id = r.id
                                   \/ r.reply = "expected" /\ r.expected >= Chunks
               /\ d.pc = "send" /\ d.index # 0 =>
                     \/ /\ r.reply = "ok" /\ c.index # Chunks - 1
                        /\ d.index = c.index + 1 /\ d.id = r.id
                     \/ r.reply = "expected" /\ d.index = r.expected
<1> DEFINE d == Answered(c, r)
<1>1. r.reply \in {"ok", "error", "too large", "expected"} /\ r.expected \in Nat /\ r.id \in Ids
    BY DEF HandlerAt
<1>2. c.index \in Nat /\ c.index < Chunks /\ Chunks \in Nat /\ 0 \in Indices
    BY ClientAssumption DEF Client, Indices
<1>3. ASSUME NEW x \in Client, NEW k \in Nat
      PROVE  /\ GoesOn(x, k) \in Client
             /\ GoesOn(x, k).id = x.id
             /\ k < Chunks => GoesOn(x, k).pc = "send" /\ GoesOn(x, k).index = k
             /\ k >= Chunks => GoesOn(x, k).pc = "done"
    <2>1. CASE k < Chunks
        <3>1. k \in Indices
            BY <1>2, <2>1 DEF Indices
        <3>2. GoesOn(x, k) = [x EXCEPT !.pc = "send", !.index = k]
            BY <2>1 DEF GoesOn
        <3>3. ~(k >= Chunks)
            BY <1>2, <2>1
        <3> QED BY <2>1, <3>1, <3>2, <3>3 DEF Client
    <2>2. CASE ~(k < Chunks)
        <3>1. GoesOn(x, k) = [x EXCEPT !.pc = "done", !.index = 0]
            BY <2>2 DEF GoesOn
        <3> QED BY <1>2, <2>2, <3>1 DEF Client
    <2> QED BY <2>1, <2>2
<1>4. CASE r.reply = "ok"
    <2> DEFINE x == [c EXCEPT !.id = r.id]
    <2>1. d = GoesOn(x, c.index + 1)
        BY <1>4 DEF Answered
    <2>2. x \in Client /\ x.id = r.id /\ c.index + 1 \in Nat
        <3>1. c.index + 1 \in Nat
            BY <1>2
        <3> QED BY <1>1, <3>1 DEF Client
    <2> HIDE DEF d, x
    <2>3. /\ d \in Client /\ d.id = r.id
          /\ c.index + 1 < Chunks => d.pc = "send" /\ d.index = c.index + 1
          /\ c.index + 1 >= Chunks => d.pc = "done"
        BY <1>3, <2>1, <2>2
    <2> QED BY <1>2, <1>4, <2>3 DEF d
<1>5. CASE r.reply = "expected"
    <2>1. d = GoesOn(c, r.expected)
        BY <1>5 DEF Answered
    <2> HIDE DEF d
    <2>2. /\ d \in Client /\ d.id = c.id
          /\ r.expected < Chunks => d.pc = "send" /\ d.index = r.expected
          /\ r.expected >= Chunks => d.pc = "done"
        BY <1>1, <1>3, <2>1
    <2> QED BY <1>1, <1>2, <1>5, <2>2 DEF d
<1>6. CASE r.reply \in {"error", "too large"}
    <2>1. \/ d = [c EXCEPT !.pc = "failed"]
          \/ d = [c EXCEPT !.pc = "send", !.index = 0]
        BY <1>6 DEF Answered, BeginsAgain
    <2> HIDE DEF d
    <2>2. d \in Client /\ d.id = c.id /\ d.pc \in {"failed", "send"}
          /\ (d.pc = "send" => d.index = 0)
        BY <1>2, <2>1 DEF Client
    <2> QED BY <1>6, <2>2 DEF d
<1> QED BY <1>1, <1>4, <1>5, <1>6

LEMMA AnswerIs ==
    ASSUME NEW steps, "idle" \notin steps, ClientTypeOK(steps), LoopInv,
           NEW h \in Handlers, Answer(h)
    PROVE  /\ handler[h] \in HandlerAt(steps) /\ handler[h].step = "reply"
           /\ handler[h].reply # "none" /\ handler[h].of \in Uploads
           /\ handler[h].awaited => LET u == handler[h].of
                                    IN  Settles(u, h, Answered(client[u], handler[h]))
           /\ ~handler[h].awaited => Drops(h)
           /\ handler' \in [Handlers -> {IdleHandler} \cup HandlerAt(steps)]
           /\ handler' = [handler EXCEPT ![h] = IdleHandler]
           /\ UNCHANGED <<rows, fresh, faults, lastLost>>
<1> DEFINE u == handler[h].of
           d == Answered(client[u], handler[h])
<1>1. handler[h].step = "reply" /\ ~IsIdle(h)
    BY DEF Answer, IsIdle
<1>2. handler[h] \in HandlerAt(steps) /\ handler[h].reply # "none"
    BY <1>1, BusyType DEF LoopInv, Replied
<1>3. u \in Uploads /\ client[u] \in Client
    BY <1>2 DEF HandlerAt, ClientTypeOK
<1>4. d \in Client /\ d.pc # "wait" /\ d.id \in {client[u].id, handler[h].id}
    BY <1>2, <1>3, AnsweredIs
<1>5. handler' = [handler EXCEPT ![h] = IdleHandler] /\ UNCHANGED <<rows, fresh, faults, lastLost>>
    BY DEF Answer
<1>6. /\ handler'[h] = IdleHandler /\ \A g \in Handlers \ {h} : handler'[g] = handler[g]
      /\ handler' \in [Handlers -> {IdleHandler} \cup HandlerAt(steps)]
    BY <1>5 DEF ClientTypeOK
<1>7. handler'[h].step = "idle" /\ IsIdle(h)'
    BY <1>6 DEF IdleHandler, IsIdle
<1>8. client' = IF handler[h].awaited THEN [client EXCEPT ![u] = d] ELSE client
    BY DEF Answer
<1> HIDE DEF d
<1>9. handler[h].awaited => Settles(u, h, d)
    BY <1>1, <1>4, <1>5, <1>6, <1>7, <1>8 DEF Settles
<1>10. ~handler[h].awaited => Drops(h)
    BY <1>5, <1>6, <1>7, <1>8 DEF Drops
<1> QED BY <1>1, <1>2, <1>3, <1>5, <1>6, <1>9, <1>10 DEF d

LEMMA BeginsAgainIs ==
    ASSUME NEW c \in Client
    PROVE  /\ BeginsAgain(c) \in Client /\ BeginsAgain(c).id = c.id
           /\ BeginsAgain(c).pc = "send" /\ BeginsAgain(c).index = 0
<1>1. 0 \in Indices
    BY ClientAssumption DEF Indices
<1> QED BY <1>1 DEF BeginsAgain, Client

LEMMA LoseIs ==
    ASSUME NEW steps, "idle" \notin steps, ClientTypeOK(steps), LoopInv,
           NEW u \in Uploads, Lose(u)
    PROVE  /\ \E h \in Handlers :
                 /\ handler[h] \in HandlerAt(steps)
                 /\ Settles(u, h, BeginsAgain(client[u]))
                 /\ lastLost' = (lastLost \/ IsLast(h))
           /\ handler' \in [Handlers -> {IdleHandler} \cup HandlerAt(steps)]
           /\ faults' \in 0 .. MaxFaults
           /\ UNCHANGED <<rows, fresh>>
<1> DEFINE d == BeginsAgain(client[u])
<1>1. PICK h \in Handlers :
          /\ ~IsIdle(h) /\ handler[h].of = u /\ handler[h].awaited
          /\ lastLost' = (lastLost \/ IsLast(h))
          /\ \/ handler' = [handler EXCEPT ![h].awaited = FALSE]
             \/ handler' = [handler EXCEPT ![h] = IdleHandler]
    BY DEF Lose, Pending
<1>2. handler[h] \in HandlerAt(steps)
    BY <1>1, BusyType
<1>3. /\ [handler[h] EXCEPT !.awaited = FALSE] \in HandlerAt(steps)
      /\ [handler[h] EXCEPT !.awaited = FALSE].step = handler[h].step
    BY <1>2 DEF HandlerAt
<1>4. client[u] \in Client
    BY DEF ClientTypeOK
<1>5. d \in Client /\ d.id = client[u].id /\ d.pc = "send" /\ d.index = 0
    BY <1>4, BeginsAgainIs
<1>6. /\ handler' \in [Handlers -> {IdleHandler} \cup HandlerAt(steps)]
      /\ \A g \in Handlers \ {h} : handler'[g] = handler[g]
      /\ handler'[h] \in {[handler[h] EXCEPT !.awaited = FALSE], IdleHandler}
    BY <1>1, <1>3 DEF ClientTypeOK
<1>7. \/ IsIdle(h)' /\ handler'[h].step = "idle"
      \/ ~IsIdle(h)' /\ handler'[h] = [handler[h] EXCEPT !.awaited = FALSE]
    BY <1>1, <1>3, <1>6 DEF IsIdle, IdleHandler
<1>8. client' = [client EXCEPT ![u] = d] /\ UNCHANGED <<rows, fresh>>
    BY DEF Lose
<1>9. faults' \in 0 .. MaxFaults
    BY ClientAssumption DEF Lose, OneMoreFault, ClientTypeOK
<1> HIDE DEF d
<1>10. Settles(u, h, d)
    BY <1>1, <1>5, <1>6, <1>7, <1>8 DEF Settles
<1> QED BY <1>1, <1>2, <1>6, <1>8, <1>9, <1>10 DEF d

LEMMA ProcessDiesIs ==
    ASSUME NEW steps, ClientTypeOK(steps), LoopInv, ProcessDies
    PROVE  /\ ClientTypeOK(steps)' /\ LoopInv'
           /\ \A h \in Handlers : IsIdle(h)' /\ handler'[h].step = "idle"
           /\ \A u \in Uploads :
                 /\ client'[u].id = client[u].id
                 /\ client'[u] = client[u] \/ (client'[u].pc = "send" /\ client'[u].index = 0)
           /\ lastLost' = (lastLost \/ \E h \in Handlers : ~IsIdle(h) /\ IsLast(h))
           /\ UNCHANGED <<rows, fresh>>
<1>1. \A h \in Handlers : IsIdle(h)' /\ handler'[h].step = "idle" /\ handler'[h] = IdleHandler
    BY DEF ProcessDies, IsIdle, IdleHandler
<1>2. \A u \in Uploads :
         /\ client'[u] \in Client
         /\ client'[u].id = client[u].id
         /\ client'[u] = client[u] \/ (client'[u].pc = "send" /\ client'[u].index = 0)
    <2> TAKE u \in Uploads
    <2>1. client[u] \in Client
        BY DEF ClientTypeOK
    <2>2. client'[u] \in {client[u], BeginsAgain(client[u])}
        BY DEF ProcessDies
    <2> QED BY <2>1, <2>2, BeginsAgainIs
<1>3. /\ client' \in [Uploads -> Client]
      /\ handler' \in [Handlers -> {IdleHandler} \cup HandlerAt(steps)]
    <2>1. client' = [u \in Uploads |-> IF client[u].pc = "wait"
                                        THEN BeginsAgain(client[u]) ELSE client[u]]
        BY DEF ProcessDies
    <2>2. client' \in [Uploads -> Client]
        BY <2>1, BeginsAgainIs DEF ClientTypeOK
    <2> QED BY <2>2 DEF ProcessDies
<1>4. faults' \in 0 .. MaxFaults
    BY ClientAssumption DEF ProcessDies, OneMoreFault, ClientTypeOK
<1>5. lastLost' = (lastLost \/ \E h \in Handlers : ~IsIdle(h) /\ IsLast(h))
      /\ UNCHANGED <<rows, fresh>>
    BY DEF ProcessDies
<1>6. lastLost' \in BOOLEAN
    BY <1>5 DEF ClientTypeOK
<1>7. ClientTypeOK(steps)'
    BY <1>3, <1>4, <1>5, <1>6 DEF ClientTypeOK
<1>8. LoopInv'
    BY <1>1, <1>2, <1>5 DEF LoopInv, Replied, IdsApart, OneAwaited, OneUnderWay
<1> QED BY <1>1, <1>2, <1>5, <1>7, <1>8

-----------------------------------------------------------------------------
(* Type correctness *)

LEMMA SendTyped ==
    ASSUME NEW steps, ClientTypeOK(steps), NEW u \in Uploads, NEW h \in Handlers, NEW i \in Ids,
           Sends(u, h, i), Request(u, i) \in HandlerAt(steps)
    PROVE  ClientTypeOK(steps)'
<1>1. [client[u] EXCEPT !.pc = "wait"] \in Client
    BY DEF ClientTypeOK, Client
<1>2. client' \in [Uploads -> Client]
    BY <1>1 DEF Sends, ClientTypeOK
<1> QED BY <1>2 DEF Sends, ClientTypeOK

LEMMA SettlingTyped ==
    ASSUME NEW steps, ClientTypeOK(steps), NEW u \in Uploads, NEW h \in Handlers, NEW d,
           Settles(u, h, d), handler' \in [Handlers -> {IdleHandler} \cup HandlerAt(steps)],
           faults' \in 0 .. MaxFaults, lastLost' \in BOOLEAN
    PROVE  ClientTypeOK(steps)'
BY DEF Settles, ClientTypeOK

LEMMA AnswerTyped ==
    ASSUME NEW steps, "idle" \notin steps, ClientTypeOK(steps), LoopInv,
           NEW h \in Handlers, Answer(h)
    PROVE  ClientTypeOK(steps)' /\ LoopInv'
<1>1. CASE handler[h].awaited
    BY <1>1, AnswerIs, SettlingTyped, SettlingKeepsLoop DEF ClientTypeOK
<1>2. CASE ~handler[h].awaited
    BY <1>2, AnswerIs, DroppingKeepsLoop DEF ClientTypeOK, Drops
<1> QED BY <1>1, <1>2

LEMMA LoseTyped ==
    ASSUME NEW steps, "idle" \notin steps, ClientTypeOK(steps), LoopInv,
           NEW u \in Uploads, Lose(u)
    PROVE  ClientTypeOK(steps)' /\ LoopInv'
<1>1. PICK h \in Handlers :
          /\ Settles(u, h, BeginsAgain(client[u]))
          /\ lastLost' = (lastLost \/ IsLast(h))
    BY LoseIs
<1>2. lastLost' \in BOOLEAN
    BY <1>1 DEF ClientTypeOK
<1>3. /\ handler' \in [Handlers -> {IdleHandler} \cup HandlerAt(steps)]
      /\ faults' \in 0 .. MaxFaults
    BY LoseIs
<1> QED BY <1>1, <1>2, <1>3, SettlingTyped, SettlingKeepsLoop

-----------------------------------------------------------------------------
(* The chunks of a file *)

\* The first n chunks, each once and in order.
Upto(n) == [k \in 1 .. n |-> k - 1]

LEMMA UptoIs ==
    ASSUME NEW n \in Nat
    PROVE  Upto(n) \in Seq(Nat) /\ Len(Upto(n)) = n /\ DOMAIN Upto(n) = 1 .. n
           /\ \A k \in 1 .. n : Upto(n)[k] = k - 1
<1>1. Upto(n) \in [1 .. n -> Nat]
    BY DEF Upto
<1>2. Upto(n) \in Seq(Nat)
    BY <1>1
<1>3. \A k \in 1 .. n : Upto(n)[k] = k - 1
    BY DEF Upto
<1> QED BY <1>1, <1>2, <1>3

LEMMA UptoGrows == ASSUME NEW n \in Nat PROVE Append(Upto(n), n) = Upto(n + 1)
<1> DEFINE a == Append(Upto(n), n)
           b == Upto(n + 1)
<1>1. Upto(n) \in Seq(Nat) /\ Len(Upto(n)) = n /\ \A k \in 1 .. n : Upto(n)[k] = k - 1
    BY UptoIs
<1>2. a \in Seq(Nat) /\ Len(a) = n + 1 /\ a[n + 1] = n /\ \A k \in 1 .. n : a[k] = k - 1
    BY <1>1, AppendProperties
<1>3. b \in Seq(Nat) /\ Len(b) = n + 1 /\ \A k \in 1 .. n + 1 : b[k] = k - 1
    BY UptoIs
<1> HIDE DEF a, b
<1>4. \A k \in 1 .. Len(a) : a[k] = b[k]
    BY <1>2, <1>3, SMTT(30)
<1> QED BY <1>2, <1>3, <1>4, SeqEqual DEF a, b

LEMMA UptoZero == Upto(0) = <<>>
BY DEF Upto

LEMMA UptoWhole == Upto(Chunks) = Whole
BY DEF Upto, Whole
-----------------------------------------------------------------------------
(* Uploads to the local disk *)

Steps == {"check", "append", "rename", "row", "reply"}

Inv == TypeOK /\ LoopInv

(***************************************************************************)
(* The temporary file of a request that appends has the chunks before its  *)
(* own, and one with all the chunks is about to be renamed, unless the     *)
(* request that would have done so was cut off.                            *)
(***************************************************************************)
Quiet(x) ==
    /\ x.step = "append" => Len(tmp[x.id]) = x.index
    /\ x.step \in {"rename", "row"} => x.index = Chunks - 1
    /\ x.step = "reply" /\ x.reply = "ok" /\ x.index = Chunks - 1 => x.id \in rows
    /\ x.step = "reply" /\ x.reply = "expected" /\ x.expected >= Chunks => lastLost

FullIsRenamed(i) ==
    Len(tmp[i]) >= Chunks =>
       lastLost \/ \E h \in Handlers : handler[h].step = "rename" /\ handler[h].id = i

QuietInv ==
    /\ \A h \in Handlers : Quiet(handler[h])
    /\ \A i \in Ids : FullIsRenamed(i)
    /\ UndisturbedIsListed

(***************************************************************************)
(* What has been appended are the first chunks; what is renamed, and what  *)
(* a row refers to, is all of them.                                        *)
(***************************************************************************)
Fine(x) ==
    /\ x.step = "rename" => tmp[x.id] = Whole
    /\ x.step = "row" => disk[x.id] = Whole

WholeInv ==
    /\ \A h \in Handlers : Fine(handler[h])
    /\ \A i \in Ids : tmp[i] = Upto(Len(tmp[i]))
    /\ \A i \in rows : disk[i] = Whole

-----------------------------------------------------------------------------
(* The steps of the service *)

LEMMA Typed == ASSUME TypeOK PROVE ClientTypeOK(Steps) /\ "idle" \notin Steps /\ "check" \in Steps
BY DEF TypeOK, Steps

LEMMA BusyFacts ==
    ASSUME TypeOK, NEW h \in Handlers, handler[h].step # "idle"
    PROVE  /\ ~IsIdle(h) /\ handler[h] \in HandlerAt(Steps)
           /\ handler[h].id \in Ids /\ handler[h].of \in Uploads
           /\ handler[h].index \in Indices /\ handler[h].index \in Nat
<1>1. ~IsIdle(h)
    BY DEF IsIdle
<1>2. handler[h] \in HandlerAt(Steps)
    BY <1>1, Typed, BusyType
<1>3. handler[h].index \in Indices
    BY <1>2 DEF HandlerAt
<1>4. handler[h].index \in Nat
    BY <1>3, ClientAssumption DEF Indices
<1> QED BY <1>1, <1>2, <1>3, <1>4 DEF HandlerAt

LEMMA LenType == ASSUME TypeOK, NEW i \in Ids PROVE tmp[i] \in Content /\ Len(tmp[i]) \in Nat
<1>1. tmp[i] \in Content
    BY DEF TypeOK
<1> QED BY <1>1, LenProperties DEF Content

Work(h) == Check(h) \/ AppendChunk(h) \/ RenameChunks(h) \/ (CreateFileRow(h) /\ UNCHANGED diskVars)

\* Request h goes from step to step; only it does, and it touches no other file.
WellDone(h) ==
    /\ handler[h].step # "idle" /\ Works(h) /\ TypeOK'
    /\ handler'[h].step \in Steps
    /\ \A i \in Ids \ {handler[h].id} : tmp'[i] = tmp[i] /\ disk'[i] = disk[i]
    /\ rows' \in {rows, rows \cup {handler[h].id}}
    /\ lastLost' = lastLost

LEMMA OnTo ==
    ASSUME TypeOK, NEW h \in Handlers, handler[h].step # "idle",
           NEW step \in {"append", "rename", "row"}, Advances(h, step),
           UNCHANGED <<client, rows, fresh, faults, lastLost>>,
           tmp' \in [Ids -> Content], disk' \in [Ids -> Content],
           \A i \in Ids \ {handler[h].id} : tmp'[i] = tmp[i] /\ disk'[i] = disk[i]
    PROVE  WellDone(h) /\ handler'[h].step = step
<1>1. /\ ClientTypeOK(Steps) /\ "idle" \notin Steps /\ step \in Steps /\ step # "reply"
      /\ ~IsIdle(h)
    BY BusyFacts DEF TypeOK, Steps
<1>2. /\ Works(h) /\ handler'[h].step = step
      /\ handler' \in [Handlers -> {IdleHandler} \cup HandlerAt(Steps)]
    BY <1>1, AdvancesIs
<1>3. ClientTypeOK(Steps)'
    BY <1>1, <1>2 DEF ClientTypeOK
<1> QED BY <1>1, <1>2, <1>3 DEF WellDone, TypeOK, Steps

LEMMA OnToReply ==
    ASSUME TypeOK, NEW h \in Handlers, handler[h].step # "idle",
           NEW r \in {"ok", "error", "too large", "expected"}, NEW e \in Nat, Replies(h, r, e),
           UNCHANGED <<client, fresh, faults, lastLost>>,
           rows' \in {rows, rows \cup {handler[h].id}},
           tmp' \in [Ids -> Content], disk' \in [Ids -> Content],
           \A i \in Ids \ {handler[h].id} : tmp'[i] = tmp[i] /\ disk'[i] = disk[i]
    PROVE  /\ WellDone(h) /\ handler'[h].step = "reply"
           /\ handler'[h].reply = r /\ handler'[h].expected = e
<1>1. /\ ClientTypeOK(Steps) /\ "idle" \notin Steps /\ "reply" \in Steps
      /\ ~IsIdle(h) /\ handler[h].id \in Ids
    BY BusyFacts DEF TypeOK, Steps
<1>2. /\ Works(h) /\ handler'[h].step = "reply"
      /\ handler'[h].reply = r /\ handler'[h].expected = e
      /\ handler' \in [Handlers -> {IdleHandler} \cup HandlerAt(Steps)]
    <2>1. HasReply(Steps, h, r, e)
        BY <1>1, RepliesIs
    <2> QED BY <2>1 DEF HasReply
<1>3. ClientTypeOK(Steps)'
    BY <1>1, <1>2 DEF ClientTypeOK
<1> QED BY <1>1, <1>2, <1>3 DEF WellDone, TypeOK, Steps

\* What Check, AppendChunk, RenameChunks and CreateFileRow do, case by case.
Checked(h) ==
    /\ handler[h].step = "check" /\ UNCHANGED <<tmp, disk, rows>>
    /\ \/ handler'[h].step = "append" /\ Len(tmp[handler[h].id]) = handler[h].index
       \/ /\ handler'[h].step = "reply" /\ handler'[h].reply = "expected"
          /\ handler'[h].expected = Len(tmp[handler[h].id])
       \/ handler'[h].step = "reply" /\ handler'[h].reply = "too large"

Appended(h) ==
    /\ handler[h].step = "append" /\ UNCHANGED <<disk, rows>>
    /\ tmp' = [tmp EXCEPT ![handler[h].id] = Append(@, handler[h].index)]
    /\ IF IsLast(h) THEN handler'[h].step = "rename"
       ELSE handler'[h].step = "reply" /\ handler'[h].reply = "ok"

Renamed(h) ==
    /\ handler[h].step = "rename" /\ UNCHANGED rows
    /\ \/ /\ handler'[h].step = "row"
          /\ disk' = [disk EXCEPT ![handler[h].id] = tmp[handler[h].id]]
          /\ tmp' = [tmp EXCEPT ![handler[h].id] = <<>>]
       \/ /\ handler'[h].step = "reply" /\ handler'[h].reply = "error"
          /\ tmp[handler[h].id] = <<>> /\ UNCHANGED <<tmp, disk>>

Created(h) ==
    /\ handler[h].step = "row" /\ UNCHANGED <<tmp, disk>>
    /\ rows' = rows \cup {handler[h].id}
    /\ handler'[h].step = "reply" /\ handler'[h].reply \in {"ok", "error"}

LEMMA WorkIs ==
    ASSUME TypeOK, NEW h \in Handlers, Work(h)
    PROVE  WellDone(h) /\ (Checked(h) \/ Appended(h) \/ Renamed(h) \/ Created(h))
<1> DEFINE i == handler[h].id
<1>0. /\ handler[h].step # "idle" /\ i \in Ids /\ handler[h].index \in Indices
    <2>1. handler[h].step # "idle"
        BY DEF Work, Check, AppendChunk, RenameChunks, CreateFileRow
    <2> QED BY <2>1, BusyFacts
<1>1. tmp \in [Ids -> Content] /\ disk \in [Ids -> Content] /\ Len(tmp[i]) \in Nat
    BY <1>0, LenType DEF TypeOK
<1> HIDE DEF i
<1>2. CASE Check(h)
    <2>1. handler[h].step = "check" /\ UNCHANGED <<client, tmp, disk, rows, fresh, faults, lastLost>>
        BY <1>2 DEF Check
    <2>2. \/ Replies(h, "expected", Len(tmp[i]))
          \/ Replies(h, "too large", 0)
          \/ Len(tmp[i]) = handler[h].index /\ Advances(h, "append")
        BY <1>2 DEF Check, i
    <2>3. CASE Replies(h, "expected", Len(tmp[i]))
        BY <1>0, <1>1, <2>1, <2>3, OnToReply DEF Checked, i
    <2>4. CASE Replies(h, "too large", 0)
        BY <1>0, <1>1, <2>1, <2>4, OnToReply DEF Checked, i
    <2>5. CASE Len(tmp[i]) = handler[h].index /\ Advances(h, "append")
        BY <1>0, <1>1, <2>1, <2>5, OnTo DEF Checked, i
    <2> QED BY <2>2, <2>3, <2>4, <2>5
<1>3. CASE AppendChunk(h)
    <2>1. /\ handler[h].step = "append"
          /\ tmp' = [tmp EXCEPT ![i] = Append(@, handler[h].index)]
          /\ UNCHANGED <<client, disk, rows, fresh, faults, lastLost>>
        BY <1>3 DEF AppendChunk, i
    <2>2. Append(tmp[i], handler[h].index) \in Content
        BY <1>0, <1>1, AppendProperties DEF Content, i
    <2>3. tmp' \in [Ids -> Content] /\ \A j \in Ids \ {i} : tmp'[j] = tmp[j] /\ disk'[j] = disk[j]
        BY <1>1, <2>1, <2>2
    <2>4. CASE IsLast(h) /\ Advances(h, "rename")
        BY <1>0, <1>1, <2>1, <2>3, <2>4, OnTo DEF Appended, i
    <2>5. CASE ~IsLast(h) /\ Replies(h, "ok", 0)
        BY <1>0, <1>1, <2>1, <2>3, <2>5, OnToReply DEF Appended, i
    <2> QED BY <1>3, <2>4, <2>5 DEF AppendChunk
<1>4. CASE RenameChunks(h)
    <2>1. handler[h].step = "rename" /\ UNCHANGED <<client, rows, fresh, faults, lastLost>>
        BY <1>4 DEF RenameChunks
    <2>2. CASE /\ disk' = [disk EXCEPT ![i] = tmp[i]] /\ tmp' = [tmp EXCEPT ![i] = <<>>]
               /\ Advances(h, "row")
        <3>1. /\ tmp' \in [Ids -> Content] /\ disk' \in [Ids -> Content]
              /\ \A j \in Ids \ {i} : tmp'[j] = tmp[j] /\ disk'[j] = disk[j]
            BY <1>0, <1>1, <2>2, EmptySeq DEF Content, i
        <3> QED BY <1>0, <1>1, <2>1, <2>2, <3>1, OnTo DEF Renamed, i
    <2>3. CASE tmp[i] = <<>> /\ Replies(h, "error", 0) /\ UNCHANGED <<disk, tmp>>
        BY <1>0, <1>1, <2>1, <2>3, OnToReply DEF Renamed, i
    <2> QED BY <1>4, <2>2, <2>3 DEF RenameChunks, i
<1>5. CASE CreateFileRow(h) /\ UNCHANGED diskVars
    <2>1. /\ handler[h].step = "row" /\ rows' = rows \cup {i}
          /\ UNCHANGED <<client, fresh, faults, lastLost, tmp, disk>>
        BY <1>5 DEF CreateFileRow, diskVars, i
    <2>2. CASE Replies(h, "error", 0)
        BY <1>0, <1>1, <2>1, <2>2, OnToReply DEF Created, i
    <2>3. CASE Replies(h, "ok", 0)
        BY <1>0, <1>1, <2>1, <2>3, OnToReply DEF Created, i
    <2> QED BY <1>5, <2>2, <2>3 DEF CreateFileRow
<1> QED BY <1>2, <1>3, <1>4, <1>5 DEF Work

-----------------------------------------------------------------------------
(* Type correctness *)

LEMMA TypedAgain ==
    ASSUME TypeOK, ClientTypeOK(Steps)', UNCHANGED diskVars PROVE TypeOK'
BY DEF TypeOK, Steps, diskVars

LEMMA CrashIs ==
    ASSUME Inv, Crash
    PROVE  /\ TypeOK' /\ LoopInv' /\ UNCHANGED <<rows, disk>>
           /\ \A h \in Handlers : handler'[h].step = "idle"
           /\ \A u \in Uploads :
                 /\ client'[u].id = client[u].id
                 /\ client'[u] = client[u] \/ (client'[u].pc = "send" /\ client'[u].index = 0)
           /\ lastLost' = (lastLost \/ \E h \in Handlers : ~IsIdle(h) /\ IsLast(h))
           /\ \/ UNCHANGED tmp
              \/ /\ "torn" \in Faults
                 /\ \E h \in Handlers :
                       /\ handler[h].step = "append"
                       /\ tmp' = [tmp EXCEPT ![handler[h].id] = Append(@, Torn)]
<1>1. ClientTypeOK(Steps) /\ LoopInv /\ ProcessDies
    BY Typed DEF Inv, Crash
<1>2. /\ ClientTypeOK(Steps)' /\ LoopInv' /\ UNCHANGED rows
      /\ \A h \in Handlers : handler'[h].step = "idle"
      /\ \A u \in Uploads :
            /\ client'[u].id = client[u].id
            /\ client'[u] = client[u] \/ (client'[u].pc = "send" /\ client'[u].index = 0)
      /\ lastLost' = (lastLost \/ \E h \in Handlers : ~IsIdle(h) /\ IsLast(h))
    BY <1>1, ProcessDiesIs
<1>3. /\ UNCHANGED disk
      /\ \/ UNCHANGED tmp
         \/ /\ "torn" \in Faults
            /\ \E h \in Handlers :
                  /\ handler[h].step = "append"
                  /\ tmp' = [tmp EXCEPT ![handler[h].id] = Append(@, Torn)]
    BY DEF Crash
<1>4. tmp' \in [Ids -> Content]
    <2>1. CASE UNCHANGED tmp
        BY <2>1 DEF Inv, TypeOK
    <2>2. ASSUME NEW h \in Handlers, handler[h].step = "append",
                 tmp' = [tmp EXCEPT ![handler[h].id] = Append(@, Torn)]
          PROVE  tmp' \in [Ids -> Content]
        <3>1. handler[h].id \in Ids
            BY <2>2, BusyFacts DEF Inv
        <3>2. Append(tmp[handler[h].id], Torn) \in Content
            BY <3>1, LenType, AppendProperties DEF Inv, Content
        <3> QED BY <2>2, <3>1, <3>2 DEF Inv, TypeOK
    <2> QED BY <1>3, <2>1, <2>2
<1>5. TypeOK'
    BY <1>2, <1>3, <1>4 DEF Inv, TypeOK, Steps
<1> QED BY <1>2, <1>3, <1>5

LEMMA NextTyped == ASSUME Inv, Next PROVE Inv'
<1>0. ClientTypeOK(Steps) /\ LoopInv /\ "idle" \notin Steps /\ "check" \in Steps /\ TypeOK
    BY Typed DEF Inv
<1>1. ASSUME NEW u \in Uploads, Send(u), UNCHANGED diskVars PROVE Inv'
    <2>1. PICK h \in Handlers, i \in Ids : Sends(u, h, i) /\ Request(u, i) \in HandlerAt(Steps)
        BY <1>0, <1>1, SendIs
    <2>2. ClientTypeOK(Steps)' /\ LoopInv'
        BY <1>0, <2>1, SendTyped, SendKeepsLoop
    <2> QED BY <1>0, <1>1, <2>2, TypedAgain DEF Inv
<1>2. ASSUME NEW u \in Uploads, Lose(u), UNCHANGED diskVars PROVE Inv'
    <2>1. ClientTypeOK(Steps)' /\ LoopInv'
        BY <1>0, <1>2, LoseTyped
    <2> QED BY <1>0, <1>2, <2>1, TypedAgain DEF Inv
<1>3. ASSUME NEW h \in Handlers, Answer(h), UNCHANGED diskVars PROVE Inv'
    <2>1. ClientTypeOK(Steps)' /\ LoopInv'
        BY <1>0, <1>3, AnswerTyped
    <2> QED BY <1>0, <1>3, <2>1, TypedAgain DEF Inv
<1>4. ASSUME NEW h \in Handlers, Work(h) PROVE Inv'
    BY <1>0, <1>4, WorkIs, WorkKeepsLoop DEF WellDone, Inv
<1>5. CASE Crash
    BY <1>5, CrashIs DEF Inv
<1> QED BY <1>1, <1>2, <1>3, <1>4, <1>5 DEF Next, Serve, Work

LEMMA InitTyped == ASSUME Init PROVE Inv
<1>1. ClientTypeOK(Steps) /\ LoopInv
    BY InitIsTyped, InitIsLoop DEF Init
<1> QED BY <1>1, EmptySeq DEF Init, TypeOK, Steps, Inv, Content

LEMMA InvInductive == Spec => []Inv
<1>1. Inv /\ UNCHANGED vars => Inv'
    <2> SUFFICES ASSUME Inv, UNCHANGED vars PROVE Inv'
        OBVIOUS
    <2>1. TypeOK'
        BY DEF Inv, TypeOK, ClientTypeOK, vars
    <2>2. LoopInv'
        BY StutterKeepsLoop DEF Inv, vars
    <2> QED BY <2>1, <2>2 DEF Inv
<1> QED BY <1>1, InitTyped, NextTyped, PTL DEF Spec

\* Every variable keeps its type.
THEOREM ChunkTypeOK == Spec => []TypeOK
<1>1. Inv => TypeOK
    BY DEF Inv
<1> QED BY <1>1, InvInductive, PTL

-----------------------------------------------------------------------------
(* What the end of a loop means *)

LEMMA LastIs ==
    ASSUME NEW h \in Handlers, handler[h].index = Chunks - 1 PROVE IsLast(h)
BY DEF IsLast

\* While a request is under way no other one has its file.
LEMMA Alone ==
    ASSUME "overlap" \notin Faults, Inv, NEW g \in Handlers, NEW h \in Handlers,
           handler[g].step # "idle", handler[h].step # "idle", handler[g].id = handler[h].id
    PROVE  g = h
BY DEF Inv, LoopInv, IdsApart, OneUnderWay, IsIdle

LEMMA WorkKeepsQuiet ==
    ASSUME "overlap" \notin Faults, Inv, QuietInv, NEW h \in Handlers, Work(h) PROVE QuietInv'
<1> DEFINE x == handler[h]
<1>0. /\ WellDone(h) /\ (Checked(h) \/ Appended(h) \/ Renamed(h) \/ Created(h))
      /\ TypeOK /\ x.step # "idle" /\ x.id \in Ids /\ x.index \in Nat /\ x.index \in Indices
    <2>1. WellDone(h) /\ (Checked(h) \/ Appended(h) \/ Renamed(h) \/ Created(h)) /\ TypeOK
        BY WorkIs DEF Inv
    <2> QED BY <2>1, BusyFacts DEF WellDone
<1> PICK i \in Ids : i = x.id
    BY <1>0
<1>1. /\ handler'[h].id = i /\ handler'[h].index = x.index
      /\ \A g \in Handlers \ {h} : handler'[g] = handler[g]
      /\ \A j \in Ids \ {i} : tmp'[j] = tmp[j]
      /\ rows \subseteq rows' /\ UNCHANGED <<client, lastLost>>
    BY <1>0 DEF WellDone, Works
<1>2. tmp \in [Ids -> Content] /\ Len(tmp[i]) \in Nat /\ Chunks \in Nat \ {0} /\ Quiet(x)
    BY <1>0, LenType, ClientAssumption DEF TypeOK, QuietInv
<1>3. ASSUME NEW g \in Handlers \ {h} PROVE Quiet(handler[g])'
    <2>1. CASE handler[g].step = "idle"
        BY <1>1, <2>1 DEF Quiet
    <2>2. CASE handler[g].step # "idle"
        <3>1. handler[g].id \in Ids \ {i} /\ Quiet(handler[g])
            BY <1>0, <2>2, Alone, BusyFacts DEF QuietInv
        <3> QED BY <1>1, <3>1 DEF Quiet
    <2> QED BY <2>1, <2>2
<1>4. ASSUME NEW j \in Ids \ {i} PROVE FullIsRenamed(j)'
    <2>1. tmp'[j] = tmp[j] /\ FullIsRenamed(j)
        BY <1>1 DEF QuietInv
    <2>2. ASSUME NEW g \in Handlers, handler[g].step = "rename", handler[g].id = j
          PROVE  handler'[g].step = "rename" /\ handler'[g].id = j
        BY <1>1, <2>2
    <2> QED BY <1>1, <2>1, <2>2 DEF FullIsRenamed
\* Only h could rename its file.
<1>5. ASSUME x.step # "rename", Len(tmp[i]) >= Chunks PROVE lastLost
    <2>1. FullIsRenamed(i)
        BY <1>0 DEF QuietInv
    <2>2. \A g \in Handlers : ~(handler[g].step = "rename" /\ handler[g].id = i)
        BY <1>0, <1>5, Alone
    <2> QED BY <1>5, <2>1, <2>2 DEF FullIsRenamed
<1>6. UndisturbedIsListed'
    BY <1>1 DEF QuietInv, UndisturbedIsListed, DoneMeansListed
<1> HIDE DEF x
<1>7. Quiet(handler[h])' /\ FullIsRenamed(i)'
    <2>1. CASE Checked(h)
        <3>1. x.step = "check" /\ UNCHANGED <<tmp, rows>>
            BY <2>1 DEF Checked, x
        <3>2. \/ handler'[h].step = "append" /\ Len(tmp[i]) = x.index
              \/ /\ handler'[h].step = "reply" /\ handler'[h].reply = "expected"
                 /\ handler'[h].expected = Len(tmp[i])
              \/ handler'[h].step = "reply" /\ handler'[h].reply = "too large"
            BY <2>1 DEF Checked, x
        <3>3. Quiet(handler[h])'
            BY <1>1, <1>5, <3>1, <3>2 DEF Quiet
        <3>4. FullIsRenamed(i)'
            BY <1>1, <1>5, <3>1 DEF FullIsRenamed
        <3> QED BY <3>3, <3>4
    <2>2. CASE Appended(h)
        <3>1. x.step = "append" /\ tmp' = [tmp EXCEPT ![i] = Append(@, x.index)]
            BY <2>2 DEF Appended, x
        <3>2. Len(tmp[i]) = x.index
            BY <1>2, <3>1 DEF Quiet
        <3>3. Len(tmp'[i]) = x.index + 1
            <4>1. tmp[i] \in Seq(Indices \cup {Torn}) /\ x.index \in Indices \cup {Torn}
                BY <1>0, <1>2 DEF Content
            <4> QED BY <1>0, <1>2, <3>1, <3>2, <4>1, AppendProperties
        <3>4. CASE IsLast(h)
            <4>1. handler'[h].step = "rename" /\ x.index = Chunks - 1
                BY <2>2, <3>4 DEF Appended, IsLast, x
            <4> QED BY <1>1, <4>1 DEF Quiet, FullIsRenamed
        <3>5. CASE ~IsLast(h)
            <4>1. handler'[h].step = "reply" /\ handler'[h].reply = "ok" /\ x.index # Chunks - 1
                BY <2>2, <3>5 DEF Appended, IsLast, x
            <4>2. ~(x.index + 1 >= Chunks)
                BY <1>0, <1>2, <4>1, ClientAssumption DEF Indices
            <4> QED BY <1>1, <3>3, <4>1, <4>2 DEF Quiet, FullIsRenamed
        <3> QED BY <3>4, <3>5
    <2>3. CASE Renamed(h)
        <3>1. x.step = "rename" /\ x.index = Chunks - 1
            BY <1>2, <2>3 DEF Renamed, Quiet, x
        <3>2. \/ handler'[h].step = "row" /\ tmp' = [tmp EXCEPT ![i] = <<>>]
              \/ /\ handler'[h].step = "reply" /\ handler'[h].reply = "error"
                 /\ tmp[i] = <<>> /\ UNCHANGED tmp
            BY <2>3 DEF Renamed, x
        <3>3. tmp'[i] = <<>>
            BY <1>0, <1>2, <3>2
        <3>4. ~(Len(tmp'[i]) >= Chunks)
            BY <1>2, <3>3, EmptySeq
        <3> QED BY <1>1, <3>1, <3>2, <3>4 DEF Quiet, FullIsRenamed
    <2>4. CASE Created(h)
        <3>1. /\ x.step = "row" /\ UNCHANGED tmp /\ rows' = rows \cup {i}
              /\ handler'[h].step = "reply" /\ handler'[h].reply \in {"ok", "error"}
            BY <2>4 DEF Created, x
        <3>2. Quiet(handler[h])'
            BY <1>1, <3>1 DEF Quiet
        <3>3. FullIsRenamed(i)'
            BY <1>1, <1>5, <3>1 DEF FullIsRenamed
        <3> QED BY <3>2, <3>3
    <2> QED BY <1>0, <2>1, <2>2, <2>3, <2>4
<1>8. \A g \in Handlers : Quiet(handler[g])'
    BY <1>3, <1>7
<1>9. \A j \in Ids : FullIsRenamed(j)'
    BY <1>4, <1>7
<1> QED BY <1>6, <1>8, <1>9 DEF QuietInv

LEMMA QuietAgain == ASSUME "overlap" \notin Faults, Inv, QuietInv, Next PROVE QuietInv'
<1>0. /\ ClientTypeOK(Steps) /\ LoopInv /\ "idle" \notin Steps /\ "check" \in Steps /\ TypeOK
      /\ \A h \in Handlers : Quiet(handler[h])
      /\ \A i \in Ids : FullIsRenamed(i)
      /\ UndisturbedIsListed
    BY Typed DEF Inv, QuietInv
<1>1. ASSUME NEW u \in Uploads, Send(u), UNCHANGED diskVars PROVE QuietInv'
    <2>1. PICK h \in Handlers, i \in Ids : Sends(u, h, i)
        BY <1>0, <1>1, SendIs
    <2>2. /\ handler'[h].step = "check" /\ handler[h].step = "idle"
          /\ \A g \in Handlers \ {h} : handler'[g] = handler[g]
          /\ UNCHANGED <<tmp, rows, lastLost>>
        BY <1>0, <1>1, <2>1 DEF Sends, Request, ClientTypeOK, IsIdle, diskVars
    <2>3. \A g \in Handlers : Quiet(handler[g])'
        BY <1>0, <2>2 DEF Quiet
    <2>4. ASSUME NEW j \in Ids PROVE FullIsRenamed(j)'
        <3>1. \A g \in Handlers : handler[g].step = "rename" => handler'[g] = handler[g]
            BY <2>2
        <3> QED BY <1>0, <2>2, <3>1 DEF FullIsRenamed
    <2>5. \A w \in Uploads : client'[w].pc = "done" => client'[w] = client[w]
        BY <1>0, <2>1 DEF Sends, ClientTypeOK, Client
    <2>6. UndisturbedIsListed'
        BY <1>0, <2>2, <2>5 DEF UndisturbedIsListed, DoneMeansListed
    <2> QED BY <2>3, <2>4, <2>6 DEF QuietInv
<1>2. ASSUME NEW u \in Uploads, Lose(u), UNCHANGED diskVars PROVE QuietInv'
    <2>1. PICK h \in Handlers :
              Settles(u, h, BeginsAgain(client[u])) /\ lastLost' = (lastLost \/ IsLast(h))
        BY <1>0, <1>2, LoseIs
    <2>2. UNCHANGED <<tmp, rows>>
        BY <1>2, <2>1 DEF diskVars, Settles
    <2>3. ASSUME NEW g \in Handlers PROVE Quiet(handler[g])'
        <3>1. CASE IsIdle(g)'
            BY <3>1 DEF IsIdle, Quiet
        <3>2. CASE ~IsIdle(g)'
            <4>1. /\ handler'[g].step = handler[g].step /\ handler'[g].id = handler[g].id
                  /\ handler'[g].index = handler[g].index /\ handler'[g].of = handler[g].of
                  /\ handler'[g].reply = handler[g].reply
                  /\ handler'[g].expected = handler[g].expected
                BY <1>0, <2>1, <3>2, SettlingKeepsRequests, Zenon
            <4> QED BY <1>0, <2>1, <2>2, <4>1 DEF Quiet
        <3> QED BY <3>1, <3>2
    <2>4. ASSUME NEW j \in Ids PROVE FullIsRenamed(j)'
        <3>1. ASSUME NEW g \in Handlers, handler[g].step = "rename", handler[g].id = j
              PROVE  lastLost' \/ (handler'[g].step = "rename" /\ handler'[g].id = j)
            <4>1. CASE g = h
                BY <1>0, <2>1, <3>1, <4>1, LastIs DEF Quiet
            <4>2. CASE g # h
                BY <2>1, <3>1, <4>2 DEF Settles
            <4> QED BY <4>1, <4>2
        <3> QED BY <1>0, <2>1, <2>2, <3>1 DEF FullIsRenamed
    <2>5. \A w \in Uploads : client'[w].pc = "done" => client'[w] = client[w]
        <3>1. client[u] \in Client
            BY <1>0 DEF ClientTypeOK
        <3> QED BY <1>0, <2>1, <3>1, BeginsAgainIs DEF Settles, ClientTypeOK
    <2>6. UndisturbedIsListed'
        BY <1>0, <2>1, <2>2, <2>5 DEF UndisturbedIsListed, DoneMeansListed
    <2> QED BY <2>3, <2>4, <2>6 DEF QuietInv
<1>3. ASSUME NEW h \in Handlers, Answer(h), UNCHANGED diskVars PROVE QuietInv'
    <2> DEFINE u == handler[h].of
               d == Answered(client[u], handler[h])
    <2>1. /\ handler[h] \in HandlerAt(Steps) /\ handler[h].step = "reply" /\ u \in Uploads
          /\ handler[h].reply # "none"
          /\ handler[h].awaited => Settles(u, h, d)
          /\ ~handler[h].awaited => Drops(h)
          /\ UNCHANGED <<rows, lastLost>>
        BY <1>0, <1>3, AnswerIs
    <2>2. /\ handler'[h].step = "idle" /\ \A g \in Handlers \ {h} : handler'[g] = handler[g]
          /\ UNCHANGED tmp
        BY <1>0, <1>3 DEF Answer, ClientTypeOK, IdleHandler, diskVars
    <2>3. \A g \in Handlers : Quiet(handler[g])'
        BY <1>0, <2>1, <2>2 DEF Quiet
    <2>4. ASSUME NEW j \in Ids PROVE FullIsRenamed(j)'
        <3>1. \A g \in Handlers : handler[g].step = "rename" => handler'[g] = handler[g]
            BY <2>1, <2>2
        <3> QED BY <1>0, <2>1, <2>2, <3>1 DEF FullIsRenamed
    <2>5. ASSUME handler[h].awaited, d.pc = "done" PROVE lastLost \/ d.id \in rows
        <3>1. client[u] \in Client /\ Quiet(handler[h])
            BY <1>0, <2>1 DEF ClientTypeOK
        <3>2. \/ handler[h].reply = "ok" /\ client[u].index = Chunks - 1 /\ d.id = handler[h].id
              \/ handler[h].reply = "expected" /\ handler[h].expected >= Chunks
            BY <2>1, <2>5, <3>1, AnsweredIs
        <3>3. client[u].index = handler[h].index
            BY <1>0, <2>1, <2>5 DEF LoopInv, OneAwaited, IsIdle
        <3> QED BY <2>1, <3>1, <3>2, <3>3 DEF Quiet
    <2> HIDE DEF d
    <2>6. \A w \in Uploads :
             client'[w].pc = "done" => lastLost \/ client'[w].id \in rows
        BY <1>0, <2>1, <2>5 DEF Settles, Drops, UndisturbedIsListed, DoneMeansListed, ClientTypeOK
    <2>7. UndisturbedIsListed'
        BY <2>1, <2>6 DEF UndisturbedIsListed, DoneMeansListed
    <2> QED BY <2>3, <2>4, <2>7 DEF QuietInv
<1>4. ASSUME NEW h \in Handlers, Work(h) PROVE QuietInv'
    BY <1>4, WorkKeepsQuiet
<1>5. CASE Crash
    <2>1. /\ UNCHANGED rows
          /\ \A h \in Handlers : handler'[h].step = "idle"
          /\ \A u \in Uploads :
                client'[u] = client[u] \/ (client'[u].pc = "send" /\ client'[u].index = 0)
          /\ lastLost' = (lastLost \/ \E h \in Handlers : ~IsIdle(h) /\ IsLast(h))
          /\ \/ UNCHANGED tmp
             \/ \E h \in Handlers :
                   /\ handler[h].step = "append"
                   /\ tmp' = [tmp EXCEPT ![handler[h].id] = Append(@, Torn)]
        BY <1>5, CrashIs
    <2>2. \A h \in Handlers : Quiet(handler[h])'
        BY <2>1 DEF Quiet
    <2>3. UndisturbedIsListed'
        BY <1>0, <2>1 DEF UndisturbedIsListed, DoneMeansListed
    <2>4. ASSUME NEW j \in Ids, Len(tmp'[j]) >= Chunks PROVE lastLost'
        <3>1. CASE tmp'[j] = tmp[j]
            <4>1. \A g \in Handlers : handler[g].step = "rename" => ~IsIdle(g) /\ IsLast(g)
                BY <1>0, LastIs DEF Quiet, IsIdle
            <4> QED BY <1>0, <2>1, <2>4, <3>1, <4>1 DEF FullIsRenamed
        <3>2. ASSUME tmp'[j] # tmp[j], NEW h \in Handlers, handler[h].step = "append",
                     tmp' = [tmp EXCEPT ![handler[h].id] = Append(@, Torn)]
              PROVE  lastLost'
            <4>1. ~IsIdle(h) /\ handler[h].id \in Ids /\ handler[h].index \in Indices
                BY <1>0, <3>2, BusyFacts
            <4>2. handler[h].id = j
                BY <1>0, <3>2, <4>1 DEF TypeOK
            <4>3. Len(tmp[j]) = handler[h].index
                BY <1>0, <3>2, <4>2 DEF Quiet
            <4>4. tmp'[j] = Append(tmp[j], Torn)
                BY <1>0, <3>2, <4>2 DEF TypeOK
            <4>5. Len(tmp'[j]) = handler[h].index + 1
                BY <1>0, <4>3, <4>4, LenType, AppendProperties DEF Content
            <4>6. handler[h].index = Chunks - 1
                BY <2>4, <4>1, <4>5, ClientAssumption DEF Indices
            <4> QED BY <2>1, <4>1, <4>6, LastIs
        <3> QED BY <2>1, <3>1, <3>2
    <2>5. \A j \in Ids : FullIsRenamed(j)'
        BY <2>4 DEF FullIsRenamed
    <2> QED BY <2>2, <2>3, <2>5 DEF QuietInv
<1> QED BY <1>1, <1>2, <1>3, <1>4, <1>5 DEF Next, Serve, Work

LEMMA QuietInductive == ASSUME "overlap" \notin Faults PROVE Spec => []QuietInv
<1>1. Init => QuietInv
    <2> SUFFICES ASSUME Init PROVE QuietInv
        OBVIOUS
    <2>1. \A h \in Handlers : Quiet(handler[h])
        BY DEF Init, ClientInit, IdleHandler, Quiet
    <2>2. \A i \in Ids : ~(Len(tmp[i]) >= Chunks)
        BY EmptySeq, ClientAssumption DEF Init
    <2>3. \A i \in Ids : FullIsRenamed(i)
        BY <2>2 DEF FullIsRenamed
    <2>4. UndisturbedIsListed
        BY DEF Init, ClientInit, UndisturbedIsListed, DoneMeansListed
    <2> QED BY <2>1, <2>3, <2>4 DEF QuietInv
<1>2. QuietInv /\ UNCHANGED vars => QuietInv'
    BY DEF QuietInv, Quiet, FullIsRenamed, UndisturbedIsListed, DoneMeansListed, vars
<1>3. Inv /\ QuietInv /\ Next => QuietInv'
    BY QuietAgain
<1> QED BY <1>1, <1>2, <1>3, InvInductive, PTL DEF Spec

(***************************************************************************)
(* A client that ends its loop without an error has its file listed,       *)
(* unless a request with a last chunk was cut off: the service answers the *)
(* last chunk with "ok" only once the row is written, and expects more     *)
(* chunks than there are only of a file that nobody renames any more.      *)
(***************************************************************************)
THEOREM ChunkListedTheorem ==
    ASSUME "overlap" \notin Faults PROVE Spec => []UndisturbedIsListed
<1>1. QuietInv => UndisturbedIsListed
    BY DEF QuietInv
<1> QED BY <1>1, QuietInductive, PTL

-----------------------------------------------------------------------------
(* Files appear whole *)

LEMMA WorkKeepsWhole ==
    ASSUME "overlap" \notin Faults, Inv, QuietInv, WholeInv, NEW h \in Handlers, Work(h)
    PROVE  WholeInv'
<1> DEFINE x == handler[h]
<1>0. /\ WellDone(h) /\ (Checked(h) \/ Appended(h) \/ Renamed(h) \/ Created(h))
      /\ TypeOK /\ x.step # "idle" /\ x.id \in Ids /\ x.index \in Nat /\ x.index \in Indices
    <2>1. WellDone(h) /\ (Checked(h) \/ Appended(h) \/ Renamed(h) \/ Created(h)) /\ TypeOK
        BY WorkIs DEF Inv
    <2> QED BY <2>1, BusyFacts DEF WellDone
<1> PICK i \in Ids : i = x.id
    BY <1>0
<1>1. /\ handler'[h].id = i /\ handler'[h].index = x.index
      /\ \A g \in Handlers \ {h} : handler'[g] = handler[g]
      /\ \A j \in Ids \ {i} : tmp'[j] = tmp[j] /\ disk'[j] = disk[j]
      /\ rows' \in {rows, rows \cup {i}}
    BY <1>0 DEF WellDone, Works
<1>2. /\ tmp \in [Ids -> Content] /\ disk \in [Ids -> Content] /\ rows \subseteq Ids
      /\ Len(tmp[i]) \in Nat /\ Chunks \in Nat
      /\ Quiet(x) /\ Fine(x) /\ tmp[i] = Upto(Len(tmp[i]))
      /\ (i \in rows => disk[i] = Whole)
    BY <1>0, LenType, ClientAssumption DEF TypeOK, ClientTypeOK, QuietInv, WholeInv
<1>3. ASSUME NEW g \in Handlers \ {h} PROVE Fine(handler[g])'
    <2>1. CASE handler[g].step = "idle"
        BY <1>1, <2>1 DEF Fine
    <2>2. CASE handler[g].step # "idle"
        <3>1. handler[g].id \in Ids \ {i} /\ Fine(handler[g])
            BY <1>0, <2>2, Alone, BusyFacts DEF WholeInv
        <3> QED BY <1>1, <3>1 DEF Fine
    <2> QED BY <2>1, <2>2
<1>4. ASSUME NEW j \in Ids \ {i}
      PROVE  tmp'[j] = Upto(Len(tmp'[j])) /\ (j \in rows' => disk'[j] = Whole)
    BY <1>1 DEF WholeInv
<1> HIDE DEF x
<1>5. /\ Fine(handler[h])' /\ tmp'[i] = Upto(Len(tmp'[i]))
      /\ (i \in rows' => disk'[i] = Whole)
    <2>1. CASE Checked(h)
        <3>1. UNCHANGED <<tmp, disk, rows>> /\ handler'[h].step \in {"append", "reply"}
            BY <2>1 DEF Checked
        <3> QED BY <1>2, <3>1 DEF Fine
    <2>2. CASE Appended(h)
        <3>1. /\ x.step = "append" /\ tmp' = [tmp EXCEPT ![i] = Append(@, x.index)]
              /\ UNCHANGED <<disk, rows>>
            BY <2>2 DEF Appended, x
        <3>2. tmp[i] = Upto(x.index)
            BY <1>2, <3>1 DEF Quiet
        <3>3. tmp'[i] = Upto(x.index + 1)
            BY <1>0, <1>2, <3>1, <3>2, UptoGrows
        <3>4. tmp'[i] = Upto(Len(tmp'[i]))
            BY <1>0, <3>3, UptoIs
        <3>5. CASE IsLast(h)
            <4>1. handler'[h].step = "rename" /\ x.index + 1 = Chunks
                BY <1>2, <2>2, <3>5 DEF Appended, IsLast, x
            <4>2. tmp'[i] = Whole
                BY <3>3, <4>1, UptoWhole
            <4> QED BY <1>1, <1>2, <3>1, <3>4, <4>1, <4>2 DEF Fine
        <3>6. CASE ~IsLast(h)
            <4>1. handler'[h].step = "reply"
                BY <2>2, <3>6 DEF Appended
            <4> QED BY <1>2, <3>1, <3>4, <4>1 DEF Fine
        <3> QED BY <3>5, <3>6
    <2>3. CASE Renamed(h)
        <3>1. x.step = "rename" /\ UNCHANGED rows /\ tmp[i] = Whole
            BY <1>2, <2>3 DEF Renamed, Fine, x
        <3>2. CASE /\ handler'[h].step = "row"
                   /\ disk' = [disk EXCEPT ![i] = tmp[i]] /\ tmp' = [tmp EXCEPT ![i] = <<>>]
            <4>1. disk'[i] = Whole /\ tmp'[i] = <<>>
                BY <1>2, <3>1, <3>2
            <4>2. tmp'[i] = Upto(Len(tmp'[i]))
                BY <4>1, UptoZero, EmptySeq
            <4> QED BY <1>1, <3>2, <4>1, <4>2 DEF Fine
        <3>3. CASE handler'[h].step = "reply" /\ UNCHANGED <<tmp, disk>>
            BY <1>2, <3>1, <3>3 DEF Fine
        <3> QED BY <2>3, <3>2, <3>3 DEF Renamed, x
    <2>4. CASE Created(h)
        <3>1. x.step = "row" /\ UNCHANGED <<tmp, disk>> /\ handler'[h].step = "reply"
            BY <2>4 DEF Created, x
        <3>2. disk[i] = Whole
            BY <1>2, <3>1 DEF Fine
        <3> QED BY <1>2, <3>1, <3>2 DEF Fine
    <2> QED BY <1>0, <2>1, <2>2, <2>3, <2>4
<1>6. \A g \in Handlers : Fine(handler[g])'
    BY <1>3, <1>5
<1>7. rows' \subseteq Ids
    BY <1>1, <1>2
<1> QED BY <1>4, <1>5, <1>6, <1>7 DEF WholeInv

LEMMA WholeKept ==
    ASSUME WholeInv, UNCHANGED <<tmp, disk, rows>>, \A h \in Handlers : Fine(handler'[h])
    PROVE  WholeInv'
BY DEF WholeInv, Fine

LEMMA NextKeepsWhole ==
    ASSUME "overlap" \notin Faults, "torn" \notin Faults, Inv, QuietInv, WholeInv, Next
    PROVE  WholeInv'
<1>0. /\ ClientTypeOK(Steps) /\ LoopInv /\ "idle" \notin Steps /\ "check" \in Steps
      /\ \A h \in Handlers : Fine(handler[h])
    BY Typed DEF Inv, WholeInv
<1>1. ASSUME NEW u \in Uploads, Send(u), UNCHANGED diskVars PROVE WholeInv'
    <2>1. PICK h \in Handlers, i \in Ids : Sends(u, h, i)
        BY <1>0, <1>1, SendIs
    <2>2. /\ handler'[h].step = "check" /\ \A g \in Handlers \ {h} : handler'[g] = handler[g]
          /\ UNCHANGED rows
        BY <1>0, <2>1 DEF Sends, Request, ClientTypeOK
    <2>3. Fine(handler'[h])
        BY <2>2 DEF Fine
    <2> QED BY <1>0, <1>1, <2>2, <2>3, WholeKept DEF diskVars
<1>2. ASSUME NEW u \in Uploads, Lose(u), UNCHANGED diskVars PROVE WholeInv'
    <2>1. PICK h \in Handlers : Settles(u, h, BeginsAgain(client[u]))
        BY <1>0, <1>2, LoseIs
    <2>2. ASSUME NEW g \in Handlers PROVE Fine(handler'[g])
        <3>1. CASE IsIdle(g)'
            BY <3>1 DEF IsIdle, Fine
        <3>2. CASE ~IsIdle(g)'
            BY <1>0, <2>1, <3>2, SettlingKeepsRequests DEF Fine
        <3> QED BY <3>1, <3>2
    <2> QED BY <1>2, <2>1, <2>2, WholeKept DEF Settles, diskVars
<1>3. ASSUME NEW h \in Handlers, Answer(h), UNCHANGED diskVars PROVE WholeInv'
    <2>1. /\ handler'[h].step = "idle" /\ \A g \in Handlers \ {h} : handler'[g] = handler[g]
          /\ UNCHANGED rows
        BY <1>0, <1>3 DEF Answer, ClientTypeOK, IdleHandler
    <2>2. Fine(handler'[h])
        BY <2>1 DEF Fine
    <2> QED BY <1>0, <1>3, <2>1, <2>2, WholeKept DEF diskVars
<1>4. ASSUME NEW h \in Handlers, Work(h) PROVE WholeInv'
    BY <1>4, WorkKeepsWhole
<1>5. CASE Crash
    <2>1. UNCHANGED <<tmp, disk, rows>> /\ \A h \in Handlers : handler'[h].step = "idle"
        BY <1>5, CrashIs
    <2>2. \A h \in Handlers : Fine(handler'[h])
        BY <2>1 DEF Fine
    <2> QED BY <2>1, <2>2, WholeKept
<1> QED BY <1>1, <1>2, <1>3, <1>4, <1>5 DEF Next, Serve, Work

\* Only CreateFileRow adds rows, one at a time.
LEMMA RowsGrow ==
    ASSUME Inv, Next
    PROVE  UNCHANGED rows \/ \E i \in Ids \ rows : rows' = rows \cup {i}
<1>1. ASSUME NEW h \in Handlers, CreateFileRow(h)
      PROVE  UNCHANGED rows \/ \E i \in Ids \ rows : rows' = rows \cup {i}
    <2>1. handler[h].id \in Ids
        BY <1>1, BusyFacts DEF Inv, CreateFileRow
    <2>2. rows' = rows \cup {handler[h].id}
        BY <1>1 DEF CreateFileRow
    <2> QED BY <2>1, <2>2
<1> QED BY <1>1 DEF Next, Serve, Send, Lose, Answer, Crash, ProcessDies, Check, AppendChunk,
        RenameChunks

(***************************************************************************)
(* Readers see a file only whole: the upload implements AtomicFiles.  The  *)
(* temporary file has the chunks before the one that is appended, so what  *)
(* is renamed is the whole file, and rows refer to what was renamed.       *)
(***************************************************************************)
THEOREM ChunkWholeTheorem ==
    ASSUME "overlap" \notin Faults, "torn" \notin Faults PROVE Spec => FilesAppearWhole
<1> DEFINE V == [i \in Ids |-> IF i \in rows THEN "whole" ELSE "absent"]
<1>1. Init => WholeInv
    <2> SUFFICES ASSUME Init PROVE WholeInv
        OBVIOUS
    <2>1. \A h \in Handlers : Fine(handler[h])
        BY DEF Init, ClientInit, IdleHandler, Fine
    <2>2. \A i \in Ids : tmp[i] = Upto(Len(tmp[i]))
        BY UptoZero, EmptySeq DEF Init
    <2> QED BY <2>1, <2>2 DEF Init, ClientInit, WholeInv
<1>2. WholeInv /\ UNCHANGED vars => WholeInv'
    BY DEF WholeInv, Fine, vars
<1>3. Inv /\ QuietInv /\ WholeInv /\ Next => WholeInv'
    BY NextKeepsWhole
<1>4. WholeInv => Visible = V
    BY DEF WholeInv, Visible
<1>5. Init => Promise!Init
    BY DEF Init, ClientInit, Promise!Init, Visible
<1>6. Inv /\ WholeInv /\ WholeInv' /\ Next => [Promise!Next]_Visible
    <2> SUFFICES ASSUME Inv, WholeInv, WholeInv', Next PROVE [Promise!Next]_Visible
        OBVIOUS
    <2>1. Visible = V /\ Visible' = V'
        BY <1>4 DEF WholeInv, Visible
    <2>2. CASE UNCHANGED rows
        BY <2>1, <2>2
    <2>3. ASSUME NEW i \in Ids \ rows, rows' = rows \cup {i} PROVE Promise!Next
        <3>1. V[i] = "absent" /\ V' = [V EXCEPT ![i] = "whole"]
            BY <2>3
        <3> QED BY <2>1, <3>1 DEF Promise!Next, Promise!Publish
    <2> QED BY <2>2, <2>3, RowsGrow
<1>7. UNCHANGED vars => UNCHANGED Visible
    BY DEF vars, Visible
<1> QED BY <1>1, <1>2, <1>3, <1>5, <1>6, <1>7, InvInductive, QuietInductive, PTL
        DEF Spec, FilesAppearWhole, Promise!Spec
=============================================================================
