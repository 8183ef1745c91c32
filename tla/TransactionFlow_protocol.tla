---------------------- MODULE TransactionFlow_protocol ----------------------
(***************************************************************************)
(* The flow implements AccessProtocol.  It rests on one invariant: the     *)
(* facts of a transaction appear in the order row, request, answer,        *)
(* SENT_WEBHOOK row, webhook, acceptance, although several handlers work   *)
(* on it at once.                                                          *)
(***************************************************************************)
EXTENDS TransactionFlow_proofs

(* The request is published once its row is there, by one run only. *)
RequestOrder ==
    \A t \in Txn :
        /\ req[t] \in {"idle", "create", "createLog", "publish"} => ~requested[t]
        /\ req[t] \in {"createLog", "publish", "mark", "markLog"} => Known(t)
        /\ req[t] \in {"mark", "markLog"} => requested[t]
        /\ requested[t] => Known(t)

(* The bridge never works for an id that it did not create. *)
StraySilent ==
    \A t \in Stray : req[t] = "idle" /\ ~requested[t] /\ ~Known(t)

AnswerOrder == \A r \in Response :
                  respAt[r] # "none" => requested[TxnOf(r)] \/ TxnOf(r) \in Stray
RunOrder    == \A d \in Delivery : rh[d] # "idle" => respAt[d[1]] # "none"
RecordOrder == \A t \in Txn : Recorded(t) => requested[t]
PostOrder   == \A t \in Txn : posted[t] \/ accepted[t] => Recorded(t)

RequestInv == RequestOrder /\ StraySilent
AnswerInv  == AnswerOrder /\ RunOrder /\ RecordOrder /\ PostOrder
OrderInv   == RequestInv /\ AnswerInv
FlowInv    == TypeOK /\ RowInv /\ RecordedInv /\ SuccessInv /\ OrderInv
-----------------------------------------------------------------------------
(* A step that leaves the requests alone and creates no row keeps RequestInv. *)
LEMMA RequestKept ==
    ASSUME RequestInv, requested' = requested,
           \A t \in Txn : req'[t] = req[t] \/ (req[t] \in InFlight /\ req'[t] \in {"lost", "error"}),
           \A t \in Txn : Known(t)' <=> Known(t)
    PROVE  RequestInv'
<1>1. RequestOrder'
  BY DEF RequestInv, RequestOrder
<1>2. StraySilent'
  BY StrayAssumption DEF RequestInv, StraySilent, InFlight
<1>q. QED BY <1>1, <1>2 DEF RequestInv

(* The steps of an HTTP request publish what they have recorded. *)
LEMMA RequestByRequest ==
    ASSUME TypeOK, RowInv, RequestInv, NEW t \in Txn,
           RequestStep(t) \/ FailRequest(t) \/ AcceptUnseen(t)
    PROVE  RequestInv'
<1>r. /\ \A u \in Txn : req[u] \in {"idle", "create"} => ~Known(u)
      /\ \A u \in Txn :
            /\ req[u] \in {"idle", "create", "createLog", "publish"} => ~requested[u]
            /\ req[u] \in {"createLog", "publish", "mark", "markLog"} => Known(u)
            /\ req[u] \in {"mark", "markLog"} => requested[u]
            /\ requested[u] => Known(u)
      /\ \A u \in Stray : req[u] = "idle" /\ ~requested[u] /\ ~Known(u)
  BY DEF RowInv, RequestBeforeRow, RequestInv, RequestOrder, StraySilent
<1> USE StrayAssumption DEF TypeOK, ReqGoes, SetStatus, db, broker, Known
<1>1. CASE Reject(t)
  BY <1>r, <1>1 DEF Reject, RequestInv, RequestOrder, StraySilent
<1>2. CASE Begin(t)
  BY <1>r, <1>2 DEF Begin, RequestInv, RequestOrder, StraySilent
<1>3. CASE CreateRow(t)
  BY <1>r, <1>3 DEF CreateRow, RequestInv, RequestOrder, StraySilent
<1>4. CASE CreateLog(t)
  BY <1>r, <1>4 DEF CreateLog, RequestInv, RequestOrder, StraySilent
<1>5. CASE PublishRequest(t)
  BY <1>r, <1>5 DEF PublishRequest, RequestInv, RequestOrder, StraySilent
<1>6. CASE MarkPublished(t)
  BY <1>r, <1>6 DEF MarkPublished, RequestInv, RequestOrder, StraySilent
<1>7. CASE LogPublished(t)
  BY <1>r, <1>7 DEF LogPublished, RequestInv, RequestOrder, StraySilent
<1>8. CASE FailRequest(t)
  BY <1>r, <1>8 DEF FailRequest, RequestInv, RequestOrder, StraySilent, InFlight
<1>9. CASE AcceptUnseen(t)
  BY <1>r, <1>9 DEF AcceptUnseen, RequestInv, RequestOrder, StraySilent
<1>q. QED BY <1>1, <1>2, <1>3, <1>4, <1>5, <1>6, <1>7, <1>8, <1>9 DEF RequestStep

(* The handlers only write rows that are there: no step but CreateRow makes
   a transaction known. *)
LEMMA OthersKeepRows ==
    ASSUME TypeOK, RowInv, [Next]_vars,
           ~ \E t \in Txn : RequestStep(t) \/ FailRequest(t) \/ AcceptUnseen(t)
    PROVE  /\ requested' = requested
           /\ \A t \in Txn : req'[t] = req[t] \/ (req[t] \in InFlight /\ req'[t] \in {"lost", "error"})
           /\ \A t \in Txn : Known(t)' <=> Known(t)
<1>r. /\ \A e \in Delivery : rh[e] \in {"update", "publish"} => Known(HookTxn(e))
      /\ \A q \in Post : wh[q].pc # "idle" => Known(PostTxn(q))
  BY DEF RowInv, HandlerKnows, WebhookKnows
<1>1. CASE \E r \in Response : Answer(r) \/ DeliverResponse(r)
  BY <1>1 DEF Answer, DeliverResponse, db, Known
<1>2. ASSUME NEW d \in Delivery, RespStep(d) \/ PublishWebhookFails(d) \/ FailResponse(d)
      PROVE  /\ requested' = requested /\ req' = req
             /\ \A t \in Txn : Known(t)' <=> Known(t)
  <2>1. CASE UpdateProcessing(d)
    BY <1>r, <2>1 DEF UpdateProcessing, RespGoes, SetStatus, broker, Known, TypeOK
  <2>2. CASE ~UpdateProcessing(d)
    BY <1>2, <2>2 DEF RespStep, FindTransaction, PublishWebhook, AckResponse, NackResponse,
       SettleResponse, PublishWebhookFails, FailResponse, broker, db, Known
  <2>q. QED BY <2>1, <2>2
<1>3. CASE \E h \in Hook : DeliverWebhook(h)
  BY <1>3 DEF DeliverWebhook, db, Known
<1>4. ASSUME NEW p \in Post, HookStep(p) \/ PostAttempt(p) \/ SendThrows(p) \/ FailUpdate(p)
      PROVE  /\ requested' = requested /\ req' = req
             /\ \A t \in Txn : Known(t)' <=> Known(t)
  <2>1. CASE MarkResult(p)
    <3>1. StatusOf(wh[p].plan) # "none" /\ Known(PostTxn(p))
      BY <1>r, <2>1, RunType, DataTypes DEF MarkResult, Terminal
    <3>q. QED BY <2>1, <3>1 DEF MarkResult, SetStatus, broker, Known, TypeOK
  <2>2. CASE ~MarkResult(p)
    BY <1>4, <2>2 DEF HookStep, SendSucceeds, SendExhausted, RefuseUrl, LogResult, CacheResult,
       AckWebhook, NackWebhook, SettleWebhook, PostAttempt, SendThrows, FailUpdate, broker,
       db, Known
  <2>q. QED BY <2>1, <2>2
<1>5. CASE Drop \/ Reconnect \/ Crash \/ UNCHANGED vars
  BY <1>5 DEF Drop, Reconnect, Crash, NewChannel, vars, db, broker, Known
<1>q. QED BY <1>1, <1>2, <1>3, <1>4, <1>5 DEF Next

(* Every step of the bridge keeps RequestInv. *)
LEMMA RequestInvStep ==
    ASSUME TypeOK, RowInv, RequestInv, [Next]_vars
    PROVE  RequestInv'
<1>1. CASE \E t \in Txn : RequestStep(t) \/ FailRequest(t) \/ AcceptUnseen(t)
  BY <1>1, RequestByRequest
<1>2. CASE ~ \E t \in Txn : RequestStep(t) \/ FailRequest(t) \/ AcceptUnseen(t)
  BY <1>2, OthersKeepRows, RequestKept
<1>q. QED BY <1>1, <1>2

(* The facts of AnswerInv, once there, stay. *)
LEMMA RequestedStays ==
    ASSUME TypeOK, RowInv, [Next]_vars
    PROVE  \A t \in Txn : requested[t] => requested'[t]
<1>1. CASE \E t \in Txn : RequestStep(t) \/ FailRequest(t) \/ AcceptUnseen(t)
  BY <1>1 DEF RequestStep, Reject, Begin, CreateRow, CreateLog, PublishRequest,
     MarkPublished, LogPublished, FailRequest, AcceptUnseen, broker, TypeOK
<1>2. CASE ~ \E t \in Txn : RequestStep(t) \/ FailRequest(t) \/ AcceptUnseen(t)
  BY <1>2, OthersKeepRows
<1>q. QED BY <1>1, <1>2

(* What a step must respect to keep AnswerInv. *)
LEMMA AnswerKept ==
    ASSUME TypeOK, RowInv, AnswerInv, [Next]_vars,
           \A r \in Response : respAt'[r] # "none" =>
              respAt[r] # "none" \/ requested[TxnOf(r)] \/ TxnOf(r) \in Stray,
           \A r \in Response : respAt[r] # "none" => respAt'[r] # "none",
           \A d \in Delivery : rh'[d] # "idle" => respAt[d[1]] # "none",
           \A t \in Txn : Recorded(t)' => Recorded(t) \/ requested[t],
           \A t \in Txn : posted'[t] \/ accepted'[t] => Recorded(t)
    PROVE  AnswerInv'
<1>1. \A t \in Txn : /\ requested[t] => requested'[t]
                     /\ Recorded(t) => Recorded(t)'
  BY RequestedStays, AuditGrows
<1>2. AnswerOrder'
  BY <1>1, TxnOfIds DEF AnswerInv, AnswerOrder
<1>3. RunOrder'
  BY TxnOfIds DEF RunOrder
<1>4. RecordOrder'
  BY <1>1 DEF AnswerInv, RecordOrder
<1>5. PostOrder'
  BY <1>1 DEF PostOrder
<1>q. QED BY <1>2, <1>3, <1>4, <1>5 DEF AnswerInv

(* A response that the bridge acts on belongs to a request that it sent: a
   run that passed handleResponse's checks found the row. *)
LEMMA UpdateIsRequested ==
    ASSUME RowInv, OrderInv, NEW d \in Delivery, rh[d] = "update"
    PROVE  requested[HookTxn(d)]
<1>1. Known(HookTxn(d))
  BY DEF RowInv, HandlerKnows
<1>2. HookTxn(d) \notin Stray
  BY <1>1 DEF OrderInv, RequestInv, StraySilent
<1>3. respAt[d[1]] # "none"
  BY DEF OrderInv, AnswerInv, RunOrder
<1>q. QED BY <1>2, <1>3, TxnOfIds DEF OrderInv, AnswerInv, AnswerOrder

(* Every step of the bridge keeps AnswerInv. *)
LEMMA AnswerInvStep ==
    ASSUME FlowInv, [Next]_vars
    PROVE  AnswerInv'
<1>r. /\ TypeOK /\ RowInv /\ AnswerInv
      /\ \A r \in Response : respAt[r] # "none" => requested[TxnOf(r)] \/ TxnOf(r) \in Stray
      /\ \A d \in Delivery : rh[d] # "idle" => respAt[d[1]] # "none"
      /\ \A t \in Txn : posted[t] \/ accepted[t] => Recorded(t)
  BY DEF FlowInv, OrderInv, AnswerInv, AnswerOrder, RunOrder, PostOrder
<1>0. CASE /\ UNCHANGED <<respAt, hst>>
           /\ \A d \in Delivery : rh'[d] # "idle" => rh[d] # "idle"
           /\ \A t \in Txn : Recorded(t)' => Recorded(t)
  BY <1>r, <1>0, AnswerKept DEF hst
<1>1. CASE \E t \in Txn : RequestStep(t) \/ FailRequest(t)
  <2>1. UNCHANGED <<respAt, hst, rh>>
    BY <1>1 DEF RequestStep, Reject, Begin, CreateRow, CreateLog, PublishRequest,
       MarkPublished, LogPublished, FailRequest, broker
  <2>2. \A t \in Txn : Recorded(t)' => Recorded(t)
    BY <1>r, <1>1 DEF RequestStep, Reject, Begin, CreateRow, CreateLog, PublishRequest,
       MarkPublished, LogPublished, FailRequest, db, AddLog, ActionFor, Recorded, TypeOK
  <2>q. QED BY <1>0, <2>1, <2>2
<1>2. CASE \E t \in Txn : AcceptUnseen(t)
  <2>1. UNCHANGED <<respAt, rh, audit>>
    BY <1>2 DEF AcceptUnseen, broker, db
  <2>2. \A t \in Txn : posted'[t] \/ accepted'[t] => posted[t] \/ accepted[t]
    BY <1>r, <1>2 DEF AcceptUnseen, TypeOK
  <2>q. QED BY <1>r, <2>1, <2>2, AnswerKept DEF Recorded
<1>3. ASSUME NEW r \in Response, Answer(r) \/ DeliverResponse(r)
      PROVE  AnswerInv'
  <2>1. UNCHANGED <<audit, hst>>
    BY <1>3 DEF Answer, DeliverResponse, db
  <2>2. \A x \in Response : respAt'[x] # "none" =>
           respAt[x] # "none" \/ requested[TxnOf(x)] \/ TxnOf(x) \in Stray
    BY <1>r, <1>3 DEF Answer, DeliverResponse, TypeOK
  <2>3. \A x \in Response : respAt[x] # "none" => respAt'[x] # "none"
    BY <1>r, <1>3 DEF Answer, DeliverResponse, TypeOK
  <2>4. \A d \in Delivery : rh'[d] # "idle" => rh[d] # "idle" \/ respAt[d[1]] # "none"
    BY <1>r, <1>3 DEF Answer, DeliverResponse, TypeOK
  <2>q. QED BY <1>r, <2>1, <2>2, <2>3, <2>4, AnswerKept DEF Recorded, hst
<1>4. ASSUME NEW d \in Delivery, RespStep(d) \/ PublishWebhookFails(d) \/ FailResponse(d)
      PROVE  AnswerInv'
  <2>1. UNCHANGED hst
    BY <1>4 DEF RespStep, FindTransaction, UpdateProcessing, PublishWebhook, AckResponse,
       NackResponse, SettleResponse, PublishWebhookFails, FailResponse
  <2>2. \A x \in Response : respAt'[x] # "none" <=> respAt[x] # "none" \/ (x = d[1] /\ respAt'[x] # "none")
    BY <1>r, <1>4, TxnOfIds DEF RespStep, FindTransaction, UpdateProcessing, PublishWebhook,
       AckResponse, NackResponse, SettleResponse, PublishWebhookFails, FailResponse, broker, TypeOK
  <2>3. rh[d] # "idle"
    BY <1>4 DEF RespStep, FindTransaction, UpdateProcessing, PublishWebhook, AckResponse,
       NackResponse, SettleResponse, PublishWebhookFails, FailResponse, RespGoes
  <2>4. \A e \in Delivery : rh'[e] # "idle" => rh[e] # "idle"
    BY <1>r, <1>4, <2>3 DEF RespStep, FindTransaction, UpdateProcessing, PublishWebhook,
       AckResponse, NackResponse, SettleResponse, PublishWebhookFails, FailResponse, RespGoes, TypeOK
  <2>5. \A t \in Txn : Recorded(t)' => Recorded(t) \/ requested[t]
    <3>1. CASE UpdateProcessing(d)
      <4>1. requested[HookTxn(d)]
        BY <3>1, UpdateIsRequested DEF UpdateProcessing, RespGoes, FlowInv
      <4>q. QED BY <1>r, <3>1, <4>1 DEF UpdateProcessing, AddLog, Recorded, TypeOK
    <3>2. CASE ~UpdateProcessing(d)
      BY <1>4, <3>2 DEF RespStep, FindTransaction, PublishWebhook, AckResponse, NackResponse,
         SettleResponse, PublishWebhookFails, FailResponse, db, Recorded
    <3>q. QED BY <3>1, <3>2
  <2>6. d[1] \in Response /\ respAt[d[1]] # "none"
    BY <1>r, <2>3, TxnOfIds
  <2>7. \A x \in Response : respAt'[x] # "none" => respAt[x] # "none"
    BY <2>2, <2>6
  <2>8. \A x \in Response : respAt[x] # "none" => respAt'[x] # "none"
    BY <2>2
  <2>q. QED BY <1>r, <2>1, <2>4, <2>5, <2>7, <2>8, AnswerKept DEF hst
<1>5. ASSUME NEW h \in Hook, DeliverWebhook(h)
      PROVE  AnswerInv'
  BY <1>0, <1>5 DEF DeliverWebhook, db, Recorded
<1>6. ASSUME NEW p \in Post, HookStep(p) \/ PostAttempt(p) \/ SendThrows(p) \/ FailUpdate(p)
      PROVE  AnswerInv'
  <2>1. UNCHANGED <<respAt, rh>>
    BY <1>6 DEF HookStep, SendSucceeds, SendExhausted, RefuseUrl, MarkResult, LogResult,
       CacheResult, AckWebhook, NackWebhook, SettleWebhook, PostAttempt, SendThrows,
       FailUpdate, broker
  <2>2. wh[p].pc # "idle"
    BY <1>6 DEF HookStep, SendSucceeds, SendExhausted, RefuseUrl, MarkResult, LogResult,
       CacheResult, AckWebhook, NackWebhook, SettleWebhook, PostAttempt, SendThrows,
       FailUpdate, CanPost
  <2>3. Recorded(PostTxn(p))
    BY <2>2 DEF FlowInv, RecordedInv, WebhookRecorded
  <2>4. \A t \in Txn : posted'[t] \/ accepted'[t] => posted[t] \/ accepted[t] \/ t = PostTxn(p)
    BY <1>r, <1>6 DEF HookStep, SendSucceeds, SendExhausted, RefuseUrl, MarkResult, LogResult,
       CacheResult, AckWebhook, NackWebhook, SettleWebhook, PostAttempt, SendThrows,
       FailUpdate, hst, TypeOK
  <2>5. \A t \in Txn : Recorded(t)' => Recorded(t)
    <3>1. CASE LogResult(p)
      <4>1. StatusOf(wh[p].plan) \in Terminal
        BY <1>r, <3>1, RunType, DataTypes DEF LogResult
      <4>2. ActionFor(StatusOf(wh[p].plan)) # "SENT_WEBHOOK"
        BY <4>1 DEF ActionFor, Terminal
      <4>q. QED BY <1>r, <3>1, <4>2 DEF LogResult, AddLog, Recorded, TypeOK
    <3>2. CASE ~LogResult(p)
      BY <1>6, <3>2 DEF HookStep, SendSucceeds, SendExhausted, RefuseUrl, MarkResult,
         CacheResult, AckWebhook, NackWebhook, SettleWebhook, PostAttempt, SendThrows,
         FailUpdate, db, Recorded
    <3>q. QED BY <3>1, <3>2
  <2>q. QED BY <1>r, <2>1, <2>3, <2>4, <2>5, AnswerKept
<1>7. CASE Drop \/ Crash
  <2>1. UNCHANGED <<audit, hst>>
    BY <1>7 DEF Drop, Crash, db
  <2>2. \A x \in Response : respAt'[x] # "none" <=> respAt[x] # "none"
    BY <1>r, <1>7 DEF Drop, Crash, NewChannel, Requeued, TypeOK
  <2>3. \A d \in Delivery : rh'[d] # "idle" => rh[d] # "idle"
    BY <1>7 DEF Drop, Crash
  <2>q. QED BY <1>r, <2>1, <2>2, <2>3, AnswerKept DEF Recorded, hst
<1>8. CASE Reconnect \/ UNCHANGED vars
  BY <1>0, <1>8 DEF Reconnect, vars, db, broker, hst, Recorded
<1>q. QED BY <1>1, <1>2, <1>3, <1>4, <1>5, <1>6, <1>7, <1>8 DEF Next

(* The facts of every transaction stay in the order of the protocol. *)
LEMMA FlowInvariant == Spec => []FlowInv
<1>1. Init => OrderInv
  BY StrayAssumption, TxnOfIds DEF Init, OrderInv, RequestInv, RequestOrder, StraySilent,
     AnswerInv, AnswerOrder, RunOrder, RecordOrder, PostOrder, Known, Recorded
<1>2. Init => RecordedInv
  BY TxnOfIds DEF Init, RecordedInv, StatusRecorded, HandlerRecorded, MessageRecorded,
     WebhookRecorded, AckedResponseRecorded, Terminal, Idle, Run
<1>3. Init => SuccessInv
  BY TxnOfIds DEF Init, SuccessInv, SuccessPlanned, SuccessMeansAccepted, Idle, Run
<1>4. Init => RowInv
  BY TxnOfIds DEF Init, RowInv, RequestBeforeRow, HandlerKnows, MessageKnown, WebhookKnows,
     Known, Idle, Run
<1>5. Init => FlowInv
  BY <1>1, <1>2, <1>3, <1>4, InitType DEF FlowInv
<1>6. ASSUME FlowInv, [Next]_vars PROVE OrderInv'
  BY <1>6, RequestInvStep, AnswerInvStep DEF FlowInv, OrderInv
<1>7. FlowInv /\ [Next]_vars => FlowInv'
  BY <1>6, TypeStep, RowStep, RecordedStep, SuccessStep DEF FlowInv
<1>q. QED BY <1>5, <1>7, PTL DEF Spec
-----------------------------------------------------------------------------
(* The refinement.  A step of the bridge touches the facts of one transaction
   at most; the abstract step is read off what it does to them. *)

PhaseBar   == [t \in Txn |-> PhaseOf(t)]
VerdictBar == [t \in Txn |-> VerdictOf(t)]

(* The step leaves the facts of transaction t as they were. *)
SameFacts(t) ==
    /\ status'[t] = status[t] /\ requested'[t] = requested[t] /\ accepted'[t] = accepted[t]
    /\ Recorded(t)' <=> Recorded(t)

OnlyTouches(t) == \A u \in Txn \ {t} : SameFacts(u)

(* What each phase says, given the order of the facts. *)
LEMMA PhaseFacts ==
    ASSUME FlowInv, NEW t \in Txn
    PROVE  /\ PhaseOf(t) = "notified"  <=> accepted[t]
           /\ PhaseOf(t) = "answered"  <=> ~accepted[t] /\ Recorded(t)
           /\ PhaseOf(t) = "requested" <=> ~Recorded(t) /\ requested[t]
           /\ PhaseOf(t) = "recorded"  <=> ~requested[t] /\ Known(t)
           /\ PhaseOf(t) = "absent"    <=> ~Known(t)
           /\ PhaseOf(t) \in {"notified", "answered", "requested", "recorded", "absent"}
<1>1. /\ accepted[t] => Recorded(t)
      /\ Recorded(t) => requested[t]
      /\ requested[t] => Known(t)
  BY DEF FlowInv, OrderInv, AnswerInv, RequestInv, PostOrder, RecordOrder, RequestOrder
<1>q. QED BY <1>1 DEF PhaseOf, Recorded, Known

(* A transaction whose facts stay keeps its phase and its verdict. *)
LEMMA SameFactsSameView ==
    ASSUME NEW t \in Txn, SameFacts(t)
    PROVE  PhaseOf(t)' = PhaseOf(t) /\ VerdictOf(t)' = VerdictOf(t)
BY DEF SameFacts, PhaseOf, VerdictOf, Recorded

(* A step that touches one transaction only changes the view of that one. *)
LEMMA ViewOfOne ==
    ASSUME NEW t \in Txn, OnlyTouches(t)
    PROVE  /\ PhaseBar' = [PhaseBar EXCEPT ![t] = PhaseOf(t)']
           /\ VerdictBar' = [VerdictBar EXCEPT ![t] = VerdictOf(t)']
           /\ PhaseBar[t] = PhaseOf(t) /\ VerdictBar[t] = VerdictOf(t)
<1>1. \A u \in Txn \ {t} : PhaseOf(u)' = PhaseOf(u) /\ VerdictOf(u)' = VerdictOf(u)
  BY SameFactsSameView DEF OnlyTouches
<1>q. QED BY <1>1 DEF PhaseBar, VerdictBar

(* A step that keeps the facts of every transaction is a stutter. *)
LEMMA ViewOfNone ==
    ASSUME \A t \in Txn : SameFacts(t)
    PROVE  PhaseBar' = PhaseBar /\ VerdictBar' = VerdictBar
BY SameFactsSameView DEF PhaseBar, VerdictBar

(* createCheckin's steps record the transaction, publish its request, or
   reopen its verdict with the late PUBLISHED. *)
LEMMA RequestSimulates ==
    ASSUME FlowInv, NEW t \in Txn, RequestStep(t) \/ FailRequest(t)
    PROVE  [Protocol!Next]_<<PhaseBar, VerdictBar>>
<1>r. /\ TypeOK
      /\ accepted[t] => Recorded(t)
      /\ Recorded(t) => requested[t]
      /\ req[t] \in {"idle", "create", "createLog", "publish"} => ~requested[t]
      /\ req[t] \in {"createLog", "publish", "mark", "markLog"} => Known(t)
      /\ req[t] \in {"mark", "markLog"} => requested[t]
      /\ req[t] \in {"idle", "create"} => ~Known(t)
  BY DEF FlowInv, OrderInv, RequestInv, RequestOrder, AnswerInv, RecordOrder, PostOrder,
     RowInv, RequestBeforeRow
<1>1. CASE CreateRow(t)
  <2>1. OnlyTouches(t)
    BY <1>r, <1>1 DEF OnlyTouches, SameFacts, CreateRow, SetStatus, broker, hst, Recorded, TypeOK
  <2>2. PhaseOf(t) = "absent" /\ PhaseOf(t)' = "recorded"
    BY <1>r, <1>1 DEF PhaseOf, CreateRow, ReqGoes, SetStatus, broker, hst, Recorded, Known, TypeOK
  <2>3. VerdictOf(t)' = VerdictOf(t)
    BY <1>r, <1>1 DEF VerdictOf, CreateRow, ReqGoes, SetStatus, Terminal, Known, TypeOK
  <2>4. Protocol!Record(t)
    BY <2>1, <2>2, <2>3, ViewOfOne DEF Protocol!Record, Protocol!Advance, VerdictBar, PhaseBar
  <2>q. QED BY <2>4 DEF Protocol!Next
<1>2. CASE PublishRequest(t)
  <2>1. OnlyTouches(t)
    BY <1>r, <1>2 DEF OnlyTouches, SameFacts, PublishRequest, db, hst, Recorded, TypeOK
  <2>2. PhaseOf(t) = "recorded" /\ PhaseOf(t)' = "requested"
    BY <1>r, <1>2 DEF PhaseOf, PublishRequest, ReqGoes, db, hst, Recorded, Known, TypeOK
  <2>3. VerdictOf(t)' = VerdictOf(t)
    BY <1>2 DEF VerdictOf, PublishRequest, db
  <2>4. Protocol!Request(t)
    BY <2>1, <2>2, <2>3, ViewOfOne DEF Protocol!Request, Protocol!Advance, VerdictBar, PhaseBar
  <2>q. QED BY <2>4 DEF Protocol!Next
<1>3. CASE MarkPublished(t)
  <2>1. OnlyTouches(t)
    BY <1>r, <1>3 DEF OnlyTouches, SameFacts, MarkPublished, SetStatus, broker, hst, Recorded, TypeOK
  <2>2. PhaseOf(t)' = PhaseOf(t) /\ PhaseOf(t) \in {"requested", "answered", "notified"}
    BY <1>r, <1>3 DEF PhaseOf, MarkPublished, ReqGoes, broker, hst, Recorded
  <2>3. VerdictOf(t)' = "open"
    BY <1>r, <1>3 DEF VerdictOf, MarkPublished, SetStatus, Terminal, TypeOK
  <2>4. Protocol!Reopen(t)
    BY <2>1, <2>2, <2>3, ViewOfOne DEF Protocol!Reopen, VerdictBar, PhaseBar
  <2>q. QED BY <2>4 DEF Protocol!Next
<1>4. CASE \/ Reject(t) \/ Begin(t) \/ CreateLog(t) \/ LogPublished(t) \/ FailRequest(t)
  <2>1. \A u \in Txn : SameFacts(u)
    BY <1>r, <1>4 DEF SameFacts, Reject, Begin, CreateLog, LogPublished, FailRequest, AddLog,
       ActionFor, db, broker, hst, Recorded, TypeOK
  <2>q. QED BY <2>1, ViewOfNone
<1>q. QED BY <1>1, <1>2, <1>3, <1>4 DEF RequestStep

(* handleResponse's database transaction takes the answer; its other steps
   change nothing that the protocol speaks of. *)
LEMMA ResponseSimulates ==
    ASSUME FlowInv, NEW d \in Delivery, RespStep(d) \/ PublishWebhookFails(d) \/ FailResponse(d)
    PROVE  [Protocol!Next]_<<PhaseBar, VerdictBar>>
<1> DEFINE t == HookTxn(d)
<1>t. t \in Txn /\ TypeOK
  BY TxnOfIds DEF FlowInv
<1>1. CASE UpdateProcessing(d)
  <2>r. requested[t] /\ (accepted[t] => Recorded(t))
    BY <1>1, <1>t, UpdateIsRequested DEF UpdateProcessing, RespGoes, FlowInv, OrderInv,
       AnswerInv, PostOrder
  <2>1. OnlyTouches(t)
    BY <1>t, <1>1 DEF OnlyTouches, SameFacts, UpdateProcessing, SetStatus, AddLog, broker, hst,
       Recorded, TypeOK
  <2>2. /\ PhaseOf(t) \in {"requested", "answered", "notified"}
        /\ PhaseOf(t)' = IF PhaseOf(t) = "requested" THEN "answered" ELSE PhaseOf(t)
    <3>1. /\ Recorded(t)' /\ requested'[t] = requested[t] /\ accepted'[t] = accepted[t]
      BY <1>t, <1>1 DEF UpdateProcessing, AddLog, broker, hst, Recorded, TypeOK
    <3>q. QED BY <2>r, <3>1 DEF PhaseOf, Recorded
  <2>3. VerdictOf(t)' = "open"
    BY <1>t, <1>1 DEF VerdictOf, UpdateProcessing, SetStatus, Terminal, TypeOK
  <2>4. Protocol!TakeAnswer(t)
    <3> HIDE DEF t
    <3>q. QED BY <1>t, <2>1, <2>2, <2>3, ViewOfOne DEF Protocol!TakeAnswer, VerdictBar, PhaseBar
  <2>q. QED BY <1>t, <2>4 DEF Protocol!Next
<1>2. CASE ~UpdateProcessing(d)
  <2>1. \A u \in Txn : SameFacts(u)
    BY <1>2 DEF RespStep, FindTransaction, PublishWebhook, AckResponse, NackResponse,
       SettleResponse, PublishWebhookFails, FailResponse, SameFacts, db, broker, hst, Recorded
  <2>q. QED BY <2>1, ViewOfNone
<1>q. QED BY <1>1, <1>2

(* HST accepts a webhook of a transaction: a notification, unless HST had
   accepted one before. *)
LEMMA AcceptanceSimulates ==
    ASSUME FlowInv, NEW t \in Txn, Recorded(t),
           UNCHANGED <<db, broker>>, accepted' = [accepted EXCEPT ![t] = TRUE]
    PROVE  [Protocol!Next]_<<PhaseBar, VerdictBar>>
<1>t. TypeOK
  BY DEF FlowInv
<1>1. OnlyTouches(t)
  BY <1>t DEF OnlyTouches, SameFacts, db, broker, Recorded, TypeOK
<1>2. VerdictOf(t)' = VerdictOf(t)
  BY DEF VerdictOf, db
<1>3. PhaseOf(t)' = "notified"
  BY <1>t DEF PhaseOf, TypeOK
<1>4. CASE accepted[t]
  <2>1. PhaseOf(t)' = PhaseOf(t)
    BY <1>3, <1>4, PhaseFacts
  <2>q. QED BY <1>1, <1>2, <2>1, ViewOfOne DEF PhaseBar, VerdictBar
<1>5. CASE ~accepted[t]
  <2>1. PhaseOf(t) = "answered"
    BY <1>5, PhaseFacts
  <2>2. Protocol!Notify(t)
    BY <1>1, <1>2, <1>3, <2>1, ViewOfOne DEF Protocol!Notify, Protocol!Advance, VerdictBar, PhaseBar
  <2>q. QED BY <2>2 DEF Protocol!Next
<1>q. QED BY <1>4, <1>5

(* handleWebhook notifies HST and keeps the verdict of its send. *)
LEMMA WebhookSimulates ==
    ASSUME FlowInv, NEW p \in Post,
           HookStep(p) \/ PostAttempt(p) \/ SendThrows(p) \/ FailUpdate(p)
    PROVE  [Protocol!Next]_<<PhaseBar, VerdictBar>>
<1> DEFINE t == PostTxn(p)
<1>t. t \in Txn /\ TypeOK
  BY TxnOfIds DEF FlowInv
<1>1. CASE SendSucceeds(p)
  <2>1. Recorded(t)
    BY <1>1 DEF SendSucceeds, CanPost, FlowInv, RecordedInv, WebhookRecorded
  <2>q. QED BY <1>1, <1>t, <2>1, AcceptanceSimulates DEF SendSucceeds
<1>2. CASE MarkResult(p)
  <2> DEFINE v == StatusOf(wh[p].plan)
  <2>r. /\ Recorded(t)
        /\ wh[p].plan \in Outcome
        /\ wh[p].plan = "SUCCESS" => accepted[t]
    BY <1>t, <1>2, RunType DEF MarkResult, FlowInv, RecordedInv, WebhookRecorded, SuccessInv,
       SuccessPlanned
  <2>v. v \in {"SUCCESS", "FAILED"} /\ (v = "SUCCESS" => accepted[t])
    BY <2>r DEF StatusOf, Outcome
  <2>1. OnlyTouches(t)
    BY <1>t, <1>2 DEF OnlyTouches, SameFacts, MarkResult, SetStatus, broker, hst, Recorded, TypeOK
  <2>2. /\ PhaseOf(t)' = PhaseOf(t)
        /\ PhaseOf(t) \in {"answered", "notified"}
        /\ v = "SUCCESS" => PhaseOf(t) = "notified"
    <3>1. /\ audit' = audit /\ requested' = requested /\ accepted' = accepted
      BY <1>2 DEF MarkResult, broker, hst
    <3>2. PhaseOf(t) \in {"answered", "notified"} /\ (v = "SUCCESS" => PhaseOf(t) = "notified")
      BY <1>t, <2>r, <2>v, PhaseFacts
    <3>3. PhaseOf(t)' = PhaseOf(t)
      BY <2>r, <3>1 DEF PhaseOf, Recorded
    <3>q. QED BY <3>2, <3>3
  <2>3. VerdictOf(t)' = v
    BY <1>t, <1>2, <2>v DEF VerdictOf, MarkResult, SetStatus, Terminal, TypeOK
  <2>4. Protocol!Conclude(t, v)
    <3> HIDE DEF t, v
    <3>q. QED BY <1>t, <2>v, <2>1, <2>2, <2>3, ViewOfOne DEF Protocol!Conclude, VerdictBar, PhaseBar
  <2>q. QED BY <1>t, <2>v, <2>4 DEF Protocol!Next
<1>3. CASE ~SendSucceeds(p) /\ ~MarkResult(p)
  <2>1. ASSUME LogResult(p)
        PROVE  \A u \in Txn : SameFacts(u)
    <3>1. StatusOf(wh[p].plan) \in Terminal
      BY <1>t, <2>1, RunType, DataTypes DEF LogResult
    <3>2. ActionFor(StatusOf(wh[p].plan)) # "SENT_WEBHOOK"
      BY <3>1 DEF ActionFor, Terminal
    <3>q. QED BY <1>t, <2>1, <3>2 DEF LogResult, AddLog, SameFacts, broker, hst, Recorded, TypeOK
  <2>2. ASSUME ~LogResult(p)
        PROVE  \A u \in Txn : SameFacts(u)
    BY <1>3, <2>2 DEF HookStep, SendExhausted, RefuseUrl, CacheResult, AckWebhook, NackWebhook,
       SettleWebhook, PostAttempt, SendThrows, FailUpdate, SameFacts, db, broker, hst, Recorded
  <2>q. QED BY <2>1, <2>2, ViewOfNone
<1>q. QED BY <1>1, <1>2, <1>3

(* Every step of the bridge is a step of AccessProtocol or a stutter. *)
LEMMA StepSimulates ==
    ASSUME FlowInv, [Next]_vars
    PROVE  [Protocol!Next]_<<PhaseBar, VerdictBar>>
<1>1. ASSUME NEW t \in Txn, AcceptUnseen(t)
      PROVE  [Protocol!Next]_<<PhaseBar, VerdictBar>>
  <2>1. Recorded(t)
    BY <1>1 DEF AcceptUnseen, FlowInv, OrderInv, AnswerInv, PostOrder
  <2>q. QED BY <1>1, <2>1, AcceptanceSimulates DEF AcceptUnseen
<1>2. ASSUME \/ \E r \in Response : Answer(r) \/ DeliverResponse(r)
             \/ \E h \in Hook : DeliverWebhook(h)
             \/ Drop \/ Reconnect \/ Crash \/ UNCHANGED vars
      PROVE  [Protocol!Next]_<<PhaseBar, VerdictBar>>
  <2>1. UNCHANGED <<status, audit, requested, accepted>>
    BY <1>2 DEF Answer, DeliverResponse, DeliverWebhook, Drop, Reconnect, Crash, NewChannel,
       vars, db, broker, hst
  <2>q. QED BY <2>1, ViewOfNone DEF SameFacts, Recorded
<1>q. QED BY <1>1, <1>2, RequestSimulates, ResponseSimulates, WebhookSimulates DEF Next

(* The bridge implements AccessProtocol for every number of transactions,
   answers, channels and failures: SUCCESS is only kept for what HST
   accepted, and HST only hears of what was recorded, requested, answered. *)
THEOREM FlowImplementsProtocol == Spec => ImplementsProtocol
<1>1. Init => Protocol!Init
  <2> SUFFICES ASSUME Init PROVE Protocol!Init
    OBVIOUS
  <2>1. \A t \in Txn : PhaseOf(t) = "absent" /\ VerdictOf(t) = "open"
    BY DEF Init, PhaseOf, VerdictOf, Terminal
  <2>q. QED BY <2>1 DEF Protocol!Init
<1>2. FlowInv /\ [Next]_vars =>
         [Protocol!Next]_<<[t \in Txn |-> PhaseOf(t)], [t \in Txn |-> VerdictOf(t)]>>
  BY StepSimulates DEF PhaseBar, VerdictBar
<1>q. QED
  BY <1>1, <1>2, FlowInvariant, PTL DEF Spec, ImplementsProtocol, Protocol!Spec
=============================================================================
