------------------------ MODULE TransactionFlow_cache ------------------------
(***************************************************************************)
(* The three copies of what became of a transaction: its row, its audit    *)
(* trail and the status in Redis.  Theorems for every set of transactions  *)
(* and every bound on answers, channels and failing calls.                 *)
(***************************************************************************)
EXTENDS TransactionFlow_settlement

(* What is cached was logged before: a run has logged its outcome when it
   comes to the cache, also when the outcome is a SYSTEM_ERROR. *)
RunLogged    == \A p \in Post : wh[p].pc = "cache" =>
                   ActionFor(StatusOf(wh[p].plan)) \in audit[PostTxn(p)]
CachedLogged == \A t \in Txn : cached[t] # "none" => ActionFor(cached[t]) \in audit[t]

(* While the first channel lasts, the only run for the only webhook of t has
   not come to the cache as long as the cache has nothing, and its status is
   the last one that a run has written. *)
Published(t) == \E h \in Hook : HookTxn(h) = t /\ hookAt[h] # "none"
InStep(t, p) ==
    /\ cached[t] # "none" => wh[p].pc \in {"idle", "ack", "nack"} /\ hookAt[p[1]] # "ready"
    /\ wh[p].pc \in {"log", "cache"} /\ status[t] \in Terminal => status[t] = StatusOf(wh[p].plan)
Agrees(t) ==
    /\ cached[t] # "none" => Published(t)
    /\ cached[t] # "none" /\ status[t] \in Terminal => cached[t] = status[t]
    /\ \A p \in Post : PostTxn(p) = t => InStep(t, p)
AloneAgrees == epoch = 0 => \A t \in Txn : OneWebhook(t) => Agrees(t)

CacheInv == RunLogged /\ CachedLogged /\ AloneAgrees
-----------------------------------------------------------------------------
(* What a step of handleWebhook writes: the row when it marks, the cache when
   it comes to it, and where its message is when it settles. *)
LEMMA HandlerWrites ==
    ASSUME TypeOK, [Next]_vars, NEW p \in Post,
           HookStep(p) \/ PostAttempt(p) \/ SendThrows(p) \/ FailUpdate(p)
    PROVE  /\ \A u \in Txn \ {PostTxn(p)} : cached'[u] = cached[u] /\ status'[u] = status[u]
           /\ \/ cached'[PostTxn(p)] = cached[PostTxn(p)]
              \/ wh[p].pc = "cache" /\ cached'[PostTxn(p)] = StatusOf(wh[p].plan)
           /\ \/ status'[PostTxn(p)] = status[PostTxn(p)]
              \/ /\ wh[p].pc = "mark" /\ wh'[p] = Run("log", wh[p].plan)
                 /\ status'[PostTxn(p)] = StatusOf(wh[p].plan)
           /\ \A h \in Hook :
                 \/ hookAt'[h] = hookAt[h]
                 \/ h = p[1] /\ hookAt'[h] \in {"acked", "dlq"}
           /\ wh[p].pc # "idle"
<1>1. CASE MarkResult(p)
  <2>1. wh[p].pc = "mark" /\ wh'[p] = Run("log", wh[p].plan)
    BY <1>1 DEF MarkResult, HookGoes, TypeOK
  <2>q. QED BY <1>1, <2>1, TxnOfIds DEF MarkResult, SetStatus, broker, TypeOK
<1>2. CASE CacheResult(p)
  BY <1>2, TxnOfIds DEF CacheResult, broker, TypeOK
<1>3. CASE AckWebhook(p) \/ NackWebhook(p)
  BY <1>3, TxnOfIds DEF AckWebhook, NackWebhook, SettleWebhook, db, TypeOK
<1>4. CASE \/ SendSucceeds(p) \/ SendExhausted(p) \/ RefuseUrl(p) \/ LogResult(p)
           \/ PostAttempt(p) \/ SendThrows(p) \/ FailUpdate(p)
  BY <1>4 DEF SendSucceeds, SendExhausted, RefuseUrl, LogResult, PostAttempt, SendThrows, FailUpdate,
     CanPost, db, broker
<1>q. QED BY <1>1, <1>2, <1>3, <1>4 DEF HookStep

(* No other step writes the cache, none lets a run advance, and what else
   writes a status writes one that is not final. *)
LEMMA OthersWriteNoEnd ==
    ASSUME TypeOK, [Next]_vars,
           ~ \E p \in Post : HookStep(p) \/ PostAttempt(p) \/ SendThrows(p) \/ FailUpdate(p)
    PROVE  /\ cached' = cached
           /\ \A t \in Txn : status'[t] = status[t] \/ status'[t] \notin Terminal
           /\ \A p \in Post : wh'[p] = wh[p] \/ wh'[p] = Idle
                              \/ (wh'[p] = Sending /\ hookAt[p[1]] = "ready")
<1>1. CASE \E t \in Txn : RequestStep(t) \/ FailRequest(t) \/ AcceptUnseen(t)
  BY <1>1 DEF RequestStep, Reject, Begin, CreateRow, CreateLog, PublishRequest,
     MarkPublished, LogPublished, FailRequest, AcceptUnseen, SetStatus, db, Terminal, TypeOK
<1>2. CASE \/ \E r \in Response : Answer(r) \/ DeliverResponse(r)
           \/ \E d \in Delivery : RespStep(d) \/ PublishWebhookFails(d) \/ FailResponse(d)
  BY <1>2 DEF Answer, DeliverResponse, RespStep, FindTransaction, UpdateProcessing, PublishWebhook,
     AckResponse, NackResponse, SettleResponse, PublishWebhookFails, FailResponse, SetStatus, db,
     Terminal, TypeOK
<1>3. CASE \E h \in Hook : DeliverWebhook(h)
  <2>1. PICK h \in Hook : DeliverWebhook(h)
    BY <1>3
  <2>2. UNCHANGED <<cached, status>> /\ hookAt[h] = "ready"
    BY <2>1 DEF DeliverWebhook, db
  <2>3. \A p \in Post : wh'[p] = wh[p] \/ (p = <<h, epoch>> /\ wh'[p] = Sending)
    BY <2>1 DEF DeliverWebhook, HookGoes, TypeOK
  <2>q. QED BY <2>2, <2>3
<1>4. CASE Drop \/ Reconnect \/ Crash \/ UNCHANGED vars
  BY <1>4 DEF Drop, Reconnect, Crash, vars, db, TypeOK
<1>q. QED BY <1>1, <1>2, <1>3, <1>4 DEF Next
-----------------------------------------------------------------------------
(* The log row comes before the cached status. *)
LEMMA LoggedStep ==
    ASSUME TypeOK, RunLogged, CachedLogged, [Next]_vars
    PROVE  RunLogged' /\ CachedLogged'
<1>a. \A t \in Txn : audit[t] \subseteq audit'[t]
  BY AuditOnlyGrows
<1>1. ASSUME NEW p \in Post, HookStep(p) \/ PostAttempt(p) \/ SendThrows(p) \/ FailUpdate(p)
      PROVE  RunLogged' /\ CachedLogged'
  <2>1. RunGoesOn(p) /\ \A q \in Post \ {p} : wh'[q] = wh[q]
    BY <1>1, OneRunGoesOn
  <2>2. wh'[p].pc = "cache" => wh'[p] = wh[p] \/ ActionFor(StatusOf(wh'[p].plan)) \in audit'[PostTxn(p)]
    BY <2>1, FreshRuns, TxnOfIds DEF RunGoesOn, WhenUpdateFails, Settlement, TypeOK
  <2>3. RunLogged'
    BY <1>a, <2>1, <2>2, TxnOfIds DEF RunLogged
  <2>4. \A t \in Txn : cached'[t] = cached[t]
           \/ (t = PostTxn(p) /\ wh[p].pc = "cache" /\ cached'[t] = StatusOf(wh[p].plan))
    BY <1>1, HandlerWrites
  <2>5. CachedLogged'
    BY <1>a, <2>4 DEF RunLogged, CachedLogged
  <2>q. QED BY <2>3, <2>5
<1>2. CASE ~ \E p \in Post : HookStep(p) \/ PostAttempt(p) \/ SendThrows(p) \/ FailUpdate(p)
  <2>1. /\ cached' = cached
        /\ \A p \in Post : wh'[p].pc = "cache" => wh'[p] = wh[p]
    BY <1>2, OthersWriteNoEnd, FreshRuns
  <2>q. QED BY <1>a, <2>1, TxnOfIds DEF RunLogged, CachedLogged
<1>q. QED BY <1>1, <1>2
-----------------------------------------------------------------------------
(* The only run of the only webhook. *)

(* A transaction that a step leaves as it is still agrees. *)
LEMMA UntouchedAgrees ==
    ASSUME NEW t \in Txn, Agrees(t), cached'[t] = cached[t],
           status'[t] = status[t] \/ status'[t] \notin Terminal,
           \A h \in Hook : HookTxn(h) = t =>
              (hookAt'[h] \in {"none", "ready"} => hookAt'[h] = hookAt[h]),
           \A p \in Post : PostTxn(p) = t =>
              wh'[p] = wh[p] \/ (wh'[p] = Sending /\ hookAt[p[1]] = "ready")
    PROVE  Agrees(t)'
<1>1. Published(t) => Published(t)'
  BY DEF Published
<1>2. ASSUME NEW p \in Post, PostTxn(p) = t
      PROVE  InStep(t, p)'
  <2>1. InStep(t, p) /\ p[1] \in Hook /\ HookTxn(p[1]) = t
    BY <1>2, TxnOfIds DEF Agrees
  <2>2. CASE wh'[p] = wh[p]
    BY <2>1, <2>2 DEF InStep
  <2>3. CASE wh'[p] = Sending /\ hookAt[p[1]] = "ready"
    BY <2>1, <2>3, FreshRuns DEF InStep
  <2>q. QED BY <1>2, <2>2, <2>3
<1>q. QED BY <1>1, <1>2 DEF Agrees

(* The run of the only webhook writes row, log and cache in this order, again
   from the row when the first attempt failed. *)
LEMMA AloneByWebhook ==
    ASSUME TypeOK, RunUnacked, [Next]_vars, NEW p \in Post,
           HookStep(p) \/ PostAttempt(p) \/ SendThrows(p) \/ FailUpdate(p),
           NEW t \in Txn, OneWebhook(t), Agrees(t)
    PROVE  Agrees(t)'
<1>w. /\ \A u \in Txn \ {PostTxn(p)} : cached'[u] = cached[u] /\ status'[u] = status[u]
      /\ \/ cached'[PostTxn(p)] = cached[PostTxn(p)]
         \/ wh[p].pc = "cache" /\ cached'[PostTxn(p)] = StatusOf(wh[p].plan)
      /\ \/ status'[PostTxn(p)] = status[PostTxn(p)]
         \/ /\ wh[p].pc = "mark" /\ wh'[p] = Run("log", wh[p].plan)
            /\ status'[PostTxn(p)] = StatusOf(wh[p].plan)
      /\ \A h \in Hook : \/ hookAt'[h] = hookAt[h]
                         \/ h = p[1] /\ hookAt'[h] \in {"acked", "dlq"}
      /\ wh[p].pc # "idle"
  BY HandlerWrites
<1>o. RunGoesOn(p) /\ \A q \in Post \ {p} : wh'[q] = wh[q]
  BY OneRunGoesOn
<1>1. CASE t # PostTxn(p)
  BY <1>w, <1>o, <1>1, UntouchedAgrees
<1>2. CASE t = PostTxn(p)
  <2>1. /\ p[1] \in Hook /\ HookTxn(p[1]) = t /\ hookAt[p[1]] = "unacked" /\ Channel(p) = 0
        /\ InStep(t, p)
    BY <1>w, <1>2, TxnOfIds DEF RunUnacked, Agrees
  <2>2. ASSUME NEW q \in Post, PostTxn(q) = t, q # p
        PROVE  wh[q].pc = "idle" /\ wh'[q] = wh[q]
    <3>1. wh[q].pc # "idle" => q[1] = p[1] /\ Channel(q) = 0
      BY <2>1, <2>2, TxnOfIds DEF RunUnacked, OneWebhook
    <3>2. q[1] = p[1] /\ Channel(q) = 0 => q = p
      BY <2>1 DEF Post, Channel
    <3>q. QED BY <1>o, <2>2, <3>1, <3>2
  <2>3. hookAt'[p[1]] \notin {"none", "ready"} /\ Published(t)'
    BY <1>w, <2>1 DEF Published
  <2>4. ASSUME cached'[t] # "none", wh'[p].pc \notin {"idle", "ack", "nack"}
        PROVE  FALSE
    <3>1. CASE cached[t] # "none"
      <4>1. wh[p].pc \in {"ack", "nack"}
        BY <1>w, <2>1, <3>1 DEF InStep
      <4>q. QED BY <1>o, <2>4, <4>1, FreshRuns DEF RunGoesOn
    <3>2. CASE cached[t] = "none"
      <4>1. wh[p].pc = "cache" /\ cached'[t] # cached[t]
        BY <1>w, <1>2, <2>4, <3>2
      <4>2. wh[p].plan \in Outcome
        BY <4>1, RunType
      <4>3. wh'[p] # wh[p]
        <5>1. CacheResult(p)
          BY <4>1 DEF HookStep, SendSucceeds, SendExhausted, RefuseUrl, MarkResult, LogResult,
             AckWebhook, NackWebhook, SettleWebhook, PostAttempt, SendThrows, FailUpdate, CanPost
        <5>2. wh'[p] = Run(Settlement(wh[p].plan), wh[p].plan)
          BY <5>1 DEF CacheResult, HookGoes, TypeOK
        <5>q. QED BY <4>1, <4>2, <5>2, DataTypes, FreshRuns
      <4>q. QED BY <1>o, <2>4, <4>1, <4>2, <4>3, DataTypes, FreshRuns DEF RunGoesOn
    <3>q. QED BY <3>1, <3>2
  <2>5. ASSUME wh'[p].pc \in {"log", "cache"}, status'[t] \in Terminal
        PROVE  status'[t] = StatusOf(wh'[p].plan)
    <3>1. CASE wh'[p] = Run("log", wh[p].plan) /\ status'[t] = StatusOf(wh[p].plan)
      BY <3>1, FreshRuns
    <3>2. CASE status'[t] = status[t]
      <4>1. CASE wh'[p] = wh[p]
        BY <2>1, <2>5, <3>2, <4>1 DEF InStep
      <4>2. CASE wh[p].pc = "log" /\ wh'[p] = Run("cache", wh[p].plan)
        BY <2>1, <2>5, <3>2, <4>2, FreshRuns DEF InStep
      <4>3. CASE wh[p].pc = "mark" /\ wh'[p] = Run("log", wh[p].plan)
        <5>1. MarkResult(p)
          BY <4>3, FreshRuns DEF HookStep, SendSucceeds, SendExhausted, RefuseUrl, LogResult,
             CacheResult, AckWebhook, NackWebhook, SettleWebhook, PostAttempt, SendThrows, FailUpdate,
             CanPost, HookGoes, WhenUpdateFails, TypeOK
        <5>q. QED BY <1>2, <4>3, <5>1, FreshRuns DEF MarkResult, SetStatus, TypeOK
      <4>4. wh[p].plan \in Outcome \/ wh[p].pc = "send"
        BY <1>w, RunType
      <4>q. QED BY <1>o, <2>5, <4>1, <4>2, <4>3, <4>4, DataTypes, FreshRuns DEF RunGoesOn
    <3>q. QED BY <1>w, <1>2, <3>1, <3>2
  <2>6. ASSUME cached'[t] # "none", status'[t] \in Terminal
        PROVE  cached'[t] = status'[t]
    <3>1. status'[t] = status[t]
      <4>1. CASE wh[p].pc = "mark" /\ wh'[p] = Run("log", wh[p].plan)
        BY <2>4, <2>6, <4>1, FreshRuns
      <4>q. QED BY <1>w, <1>2, <4>1
    <3>2. CASE cached'[t] = cached[t]
      BY <2>6, <3>1, <3>2 DEF Agrees
    <3>3. CASE wh[p].pc = "cache" /\ cached'[t] = StatusOf(wh[p].plan)
      BY <2>1, <2>6, <3>1, <3>3 DEF InStep
    <3>q. QED BY <1>w, <1>2, <3>2, <3>3
  <2>7. InStep(t, p)'
    BY <2>3, <2>4, <2>5 DEF InStep
  <2>8. ASSUME NEW q \in Post, PostTxn(q) = t, q # p
        PROVE  InStep(t, q)'
    <3>1. wh'[q].pc = "idle"
      BY <2>2, <2>8
    <3>2. cached'[t] # "none" => hookAt'[q[1]] # "ready"
      <4>1. ASSUME q[1] # p[1] PROVE hookAt'[q[1]] = "none"
        BY <1>w, <2>1, <2>8, <4>1, TxnOfIds DEF OneWebhook
      <4>q. QED BY <2>3, <4>1
    <3>q. QED BY <3>1, <3>2 DEF InStep
  <2>q. QED BY <2>3, <2>6, <2>7, <2>8 DEF Agrees
<1>q. QED BY <1>1, <1>2

(* handleResponse publishes the first webhook of a transaction before anything
   of it is cached, and with a second one the premise is gone. *)
LEMMA AloneByPublish ==
    ASSUME TypeOK, RunUnpublished, [Next]_vars, NEW d \in Delivery, PublishWebhook(d),
           NEW t \in Txn, OneWebhook(t)', Agrees(t)
    PROVE  Agrees(t)'
<1>1. /\ d \in Hook /\ hookAt[d] = "none" /\ UNCHANGED <<cached, status, wh>>
      /\ \A h \in Hook : hookAt'[h] = IF h = d THEN "ready" ELSE hookAt[h]
  BY DEF PublishWebhook, RespGoes, RunUnpublished, db, Hook, TypeOK
<1>2. CASE HookTxn(d) # t
  BY <1>1, <1>2, UntouchedAgrees
<1>3. CASE HookTxn(d) = t
  <2>1. ~Published(t)
    BY <1>1, <1>3 DEF Published, OneWebhook
  <2>2. cached'[t] = "none"
    BY <1>1, <2>1 DEF Agrees
  <2>q. QED BY <1>1, <2>2 DEF Agrees, InStep
<1>q. QED BY <1>2, <1>3

(* A published webhook is never unpublished. *)
LEMMA OneWebhookBefore ==
    ASSUME NEW t \in Txn, OneWebhook(t)',
           \A h \in Hook : hookAt'[h] = "none" => hookAt[h] = "none"
    PROVE  OneWebhook(t)
BY DEF OneWebhook

(* While the first channel lasts, every step keeps AloneAgrees. *)
LEMMA AloneStep == TypeOK /\ FirstChannel /\ AloneAgrees /\ [Next]_vars => AloneAgrees'
<1> SUFFICES ASSUME TypeOK, FirstChannel, AloneAgrees, [Next]_vars, epoch' = 0,
                    NEW t \in Txn, OneWebhook(t)'
             PROVE  Agrees(t)'
  BY DEF AloneAgrees
<1>r. /\ epoch = 0 /\ ~Drop /\ ~Crash /\ RunUnacked /\ RunUnpublished
      /\ OneWebhook(t) => Agrees(t)
  BY EpochGrows DEF FirstChannel, AloneAgrees
<1>1. ASSUME NEW p \in Post, HookStep(p) \/ PostAttempt(p) \/ SendThrows(p) \/ FailUpdate(p)
      PROVE  Agrees(t)'
  <2>1. \A h \in Hook : hookAt'[h] = "none" => hookAt[h] = "none"
    BY <1>1, HandlerWrites
  <2>q. QED BY <1>r, <1>1, <2>1, OneWebhookBefore, AloneByWebhook
<1>2. ASSUME NEW d \in Delivery, PublishWebhook(d)
      PROVE  Agrees(t)'
  <2>1. \A h \in Hook : hookAt'[h] = "none" => hookAt[h] = "none"
    BY <1>2 DEF PublishWebhook, TypeOK
  <2>q. QED BY <1>r, <1>2, <2>1, OneWebhookBefore, AloneByPublish
<1>3. CASE /\ ~ \E p \in Post : HookStep(p) \/ PostAttempt(p) \/ SendThrows(p) \/ FailUpdate(p)
           /\ ~ \E d \in Delivery : PublishWebhook(d)
  <2>1. /\ cached'[t] = cached[t]
        /\ status'[t] = status[t] \/ status'[t] \notin Terminal
    BY <1>3, OthersWriteNoEnd
  <2>2. \A h \in Hook : \/ hookAt'[h] = hookAt[h]
                        \/ hookAt[h] = "ready" /\ hookAt'[h] = "unacked"
    <3>1. CASE \E h \in Hook : DeliverWebhook(h)
      BY <3>1 DEF DeliverWebhook, TypeOK
    <3>2. CASE ~ \E h \in Hook : DeliverWebhook(h)
      <4>1. hookAt' = hookAt
        BY <1>r, <1>3, <3>2 DEF Next, vars, broker, Reconnect, RequestStep, Reject, Begin,
           CreateRow, CreateLog, PublishRequest, MarkPublished, LogPublished, FailRequest,
           AcceptUnseen, Answer, DeliverResponse, RespStep, FindTransaction, UpdateProcessing,
           AckResponse, NackResponse, SettleResponse, PublishWebhookFails, FailResponse
      <4>q. QED BY <4>1
    <3>q. QED BY <3>1, <3>2
  <2>3. \A p \in Post : wh'[p] = wh[p] \/ (wh'[p] = Sending /\ hookAt[p[1]] = "ready")
    <3>1. CASE \E h \in Hook : DeliverWebhook(h)
      <4>1. PICK h \in Hook : DeliverWebhook(h)
        BY <3>1
      <4>2. hookAt[h] = "ready" /\ \A p \in Post : wh'[p] = wh[p] \/ (p = <<h, epoch>> /\ wh'[p] = Sending)
        BY <4>1 DEF DeliverWebhook, HookGoes, TypeOK
      <4>q. QED BY <4>2
    <3>2. CASE ~ \E h \in Hook : DeliverWebhook(h)
      <4>1. wh' = wh
        BY <1>r, <1>3, <3>2 DEF Next, vars, Reconnect, RequestStep, Reject, Begin,
           CreateRow, CreateLog, PublishRequest, MarkPublished, LogPublished, FailRequest,
           AcceptUnseen, Answer, DeliverResponse, RespStep, FindTransaction, UpdateProcessing,
           AckResponse, NackResponse, SettleResponse, PublishWebhookFails, FailResponse
      <4>q. QED BY <4>1
    <3>q. QED BY <3>1, <3>2
  <2>4. Agrees(t)
    BY <1>r, <2>2, OneWebhookBefore
  <2>q. QED BY <2>1, <2>2, <2>3, <2>4, UntouchedAgrees
<1>q. QED BY <1>1, <1>2, <1>3

(* What the cache says has its log row, and it is the final status of the row
   as long as one webhook has been published and nothing was redelivered:
   no failing write and no late answer to the HTTP request comes between. *)
THEOREM CachedStatusAgrees == Spec => []CacheTellsStatus
<1>1. Init => FirstChannel
  BY FreshRuns DEF Init, FirstChannel, RunUnacked, RunUnpublished, RunDelivered, NotDelivered, Hook
<1>2. Init => CacheInv
  BY FreshRuns DEF Init, CacheInv, RunLogged, CachedLogged, AloneAgrees, Agrees, InStep
<1>3. TypeOK /\ FirstChannel /\ CacheInv /\ [Next]_vars => CacheInv'
  BY LoggedStep, AloneStep DEF CacheInv
<1>4. CacheInv => CacheTellsStatus
  BY DEF CacheInv, CachedLogged, AloneAgrees, Agrees, CacheTellsStatus
<1>q. QED BY <1>1, <1>2, <1>3, <1>4, FirstChannelStep, TypeCorrect, PTL DEF Spec
=============================================================================
