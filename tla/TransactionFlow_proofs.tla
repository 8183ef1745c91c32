----------------------- MODULE TransactionFlow_proofs -----------------------
(***************************************************************************)
(* Theorems of TransactionFlow, for every set of transactions and every    *)
(* bound on answers, channels and failing calls.                           *)
(***************************************************************************)
EXTENDS TransactionFlow, TLAPS

(* The stages, places and actions that the operators on data return are
   those of TypeOK (getActionForStatus, the checks of handleResponse). *)
LEMMA DataTypes ==
    /\ \A s \in Statuses : ActionFor(s) \in Actions
    /\ \A s, r : AfterFind(s, r) \in {"update", "ack", "nack"}
    /\ Verdict(TRUE) = "SUCCESS" /\ Verdict(FALSE) = "FAILED"
    /\ \A q \in Outcome : /\ StatusOf(q) \in Terminal
                            /\ WhenUpdateFails(q) \in {"mark", "nack"}
                            /\ Settlement(q) \in {"ack", "nack"}
    /\ Terminal \subseteq Statuses
    /\ Idle \in HookRun /\ Sending \in HookRun
    /\ \A pc \in {"mark", "log", "cache", "ack", "nack"}, q \in Outcome :
          Run(pc, q) \in HookRun
BY DEF Statuses, ActionFor, Actions, AfterFind, AlreadyProcessed, Terminal, Verdict,
       Outcome, StatusOf, WhenUpdateFails, Settlement, Run, HookRun

(* Giving unacknowledged messages back keeps every message somewhere. *)
LEMMA RequeuedType ==
    ASSUME NEW M, NEW at \in [M -> Place]
    PROVE  Requeued(at) \in [M -> Place]
BY DEF Requeued, Place
-----------------------------------------------------------------------------
(* Type correctness. *)

(* Before the first request every variable has its type. *)
LEMMA InitType == Init => TypeOK
BY BoundAssumption DEF Init, TypeOK, Statuses, Place, ReqStage, RespStage, HookRun,
   Epoch, Response, Delivery, Hook, Post

(* The steps of an HTTP request (createCheckin) keep the types. *)
LEMMA RequestType ==
    ASSUME TypeOK, NEW t \in Txn, RequestStep(t) \/ FailRequest(t) \/ AcceptUnseen(t)
    PROVE  TypeOK'
<1> USE DataTypes DEF TypeOK, db, broker, link, hst, ReqGoes, SetStatus, AddLog,
        Statuses, ReqStage, Fault
<1>1. CASE Reject(t)
  BY <1>1 DEF Reject
<1>2. CASE Begin(t)
  BY <1>2 DEF Begin
<1>3. CASE CreateRow(t)
  BY <1>3 DEF CreateRow
<1>4. CASE CreateLog(t)
  BY <1>4 DEF CreateLog
<1>5. CASE PublishRequest(t)
  BY <1>5 DEF PublishRequest
<1>6. CASE MarkPublished(t)
  BY <1>6 DEF MarkPublished
<1>7. CASE LogPublished(t)
  BY <1>7 DEF LogPublished
<1>8. CASE FailRequest(t)
  BY <1>8, BoundAssumption DEF FailRequest
<1>9. CASE AcceptUnseen(t)
  BY <1>9 DEF AcceptUnseen
<1>q. QED BY <1>1, <1>2, <1>3, <1>4, <1>5, <1>6, <1>7, <1>8, <1>9 DEF RequestStep

(* An answer of the processor, and its delivery, keep the types. *)
LEMMA DeliveryType ==
    ASSUME TypeOK, NEW r \in Response, Answer(r) \/ DeliverResponse(r)
    PROVE  TypeOK'
<1> USE DEF TypeOK, db, broker, link, hst, RespStage, Place
<1>1. CASE Answer(r)
  BY <1>1 DEF Answer
<1>2. CASE DeliverResponse(r)
  BY <1>2 DEF DeliverResponse
<1>q. QED BY <1>1, <1>2

(* The steps of handleResponse keep the types. *)
LEMMA ResponseType ==
    ASSUME TypeOK, NEW d \in Delivery,
           RespStep(d) \/ PublishWebhookFails(d) \/ FailResponse(d)
    PROVE  TypeOK'
<1> USE DataTypes DEF TypeOK, db, broker, link, hst, RespGoes, SetStatus, AddLog,
        RespStage, Place, Fault
<1>t. HookTxn(d) \in Txn
  BY DEF Delivery, Response, HookTxn
<1>1. CASE FindTransaction(d)
  BY <1>t, <1>1 DEF FindTransaction
<1>2. CASE UpdateProcessing(d)
  <2>1. ActionFor("PROCESSING") \in Actions /\ "SENT_WEBHOOK" \in Actions
    BY DEF Statuses, Actions
  <2>2. audit' \in [Txn -> SUBSET Actions]
    BY <1>t, <1>2, <2>1 DEF UpdateProcessing
  <2>q. QED BY <1>2, <2>2 DEF UpdateProcessing, Statuses
<1>3. CASE PublishWebhook(d)
  BY <1>3 DEF PublishWebhook
<1>4. CASE AckResponse(d) \/ NackResponse(d)
  BY <1>4 DEF AckResponse, NackResponse, SettleResponse
<1>5. CASE PublishWebhookFails(d) \/ FailResponse(d)
  BY <1>5, BoundAssumption DEF PublishWebhookFails, FailResponse
<1>q. QED BY <1>1, <1>2, <1>3, <1>4, <1>5 DEF RespStep

(* The delivery of a webhook message keeps the types. *)
LEMMA HookDeliveryType ==
    ASSUME TypeOK, NEW h \in Hook, DeliverWebhook(h)
    PROVE  TypeOK'
BY DataTypes DEF TypeOK, DeliverWebhook, HookGoes, Place, db, broker, link, hst

(* Past its send, a run knows the outcome that it writes. *)
LEMMA RunType ==
    ASSUME TypeOK, NEW p \in Post, wh[p].pc \notin {"idle", "send"}
    PROVE  wh[p].plan \in Outcome
BY DEF TypeOK, HookRun, Idle, Sending, Run

(* The steps of handleWebhook keep the types. *)
LEMMA WebhookType ==
    ASSUME TypeOK, NEW p \in Post,
           HookStep(p) \/ PostAttempt(p) \/ SendThrows(p) \/ FailUpdate(p)
    PROVE  TypeOK'
<1> USE DataTypes DEF TypeOK, db, broker, link, hst, HookGoes, SetStatus, AddLog,
        Fault, CanPost
<1>0. \A q \in Outcome : HookGoes(p, Run("mark", q)) => wh' \in [Post -> HookRun]
  OBVIOUS
<1>1. CASE SendSucceeds(p)
  BY <1>0, <1>1 DEF SendSucceeds, Outcome
<1>8. CASE SendExhausted(p) \/ RefuseUrl(p)
  BY <1>0, <1>8 DEF SendExhausted, RefuseUrl, Outcome
<1>9. CASE PostAttempt(p)
  BY <1>9 DEF PostAttempt
<1>2. CASE SendThrows(p)
  BY <1>2, BoundAssumption DEF SendThrows, Outcome
<1>3. CASE FailUpdate(p)
  <2>1. wh[p].plan \in Outcome
    BY <1>3, RunType DEF FailUpdate
  <2>q. QED BY <1>3, <2>1, BoundAssumption DEF FailUpdate, Outcome
<1>4. CASE MarkResult(p)
  <2>1. wh[p].plan \in Outcome
    BY <1>4, RunType DEF MarkResult
  <2>2. status' \in [Txn -> Statuses \cup {"none"}]
    BY <1>4, <2>1 DEF MarkResult
  <2>3. wh' \in [Post -> HookRun]
    BY <1>4, <2>1 DEF MarkResult
  <2>q. QED BY <1>4, <2>2, <2>3 DEF MarkResult
<1>5. CASE LogResult(p)
  <2>1. wh[p].plan \in Outcome
    BY <1>5, RunType DEF LogResult
  <2>2. ActionFor(StatusOf(wh[p].plan)) \in Actions
    BY <2>1
  <2>q. QED BY <1>5, <2>1, <2>2 DEF LogResult
<1>6. CASE CacheResult(p)
  <2>1. wh[p].plan \in Outcome
    BY <1>6, RunType DEF CacheResult
  <2>q. QED BY <1>6, <2>1 DEF CacheResult
<1>7. CASE AckWebhook(p) \/ NackWebhook(p)
  BY <1>7 DEF AckWebhook, NackWebhook, SettleWebhook, Place
<1>q. QED BY <1>1, <1>2, <1>3, <1>4, <1>5, <1>6, <1>7, <1>8, <1>9 DEF HookStep

(* Drops, reconnections and crashes keep the types. *)
LEMMA LinkType ==
    ASSUME TypeOK, Drop \/ Reconnect \/ Crash
    PROVE  TypeOK'
<1>1. ASSUME NewChannel, epoch < MaxEpoch
      PROVE  /\ respAt' \in [Response -> Place] /\ hookAt' \in [Hook -> Place]
             /\ epoch' \in Epoch /\ connected' \in BOOLEAN /\ requested' = requested
  <2>1. Requeued(respAt) \in [Response -> Place]
    BY RequeuedType DEF TypeOK
  <2>2. Requeued(hookAt) \in [Hook -> Place]
    BY RequeuedType DEF TypeOK
  <2>3. epoch + 1 \in Epoch
    BY <1>1, BoundAssumption DEF TypeOK, Epoch
  <2>q. QED BY <1>1, <2>1, <2>2, <2>3 DEF NewChannel
<1>2. CASE Drop
  <2>1. epoch < MaxEpoch
    BY <1>2, BoundAssumption DEF Drop, TypeOK, Epoch
  <2>q. QED BY <1>1, <1>2, <2>1 DEF Drop, TypeOK, db, hst
<1>3. CASE Reconnect
  BY <1>3 DEF Reconnect, TypeOK, db, broker, hst
<1>4. CASE Crash
  <2>1. /\ req' \in [Txn -> ReqStage] /\ rh' \in [Delivery -> RespStage]
        /\ wh' \in [Post -> HookRun]
    BY <1>4, DataTypes DEF Crash, TypeOK, ReqStage, RespStage
  <2>q. QED BY <1>1, <1>4, <2>1 DEF Crash, TypeOK, db, hst
<1>q. QED BY <1>2, <1>3, <1>4

(* Every step keeps the types. *)
LEMMA TypeStep == TypeOK /\ [Next]_vars => TypeOK'
<1> SUFFICES ASSUME TypeOK, [Next]_vars
             PROVE  TypeOK'
  OBVIOUS
<1>1. CASE UNCHANGED vars
  BY <1>1 DEF TypeOK, vars, db, broker, link, hst
<1>2. CASE Next
  BY <1>2, RequestType, DeliveryType, ResponseType, HookDeliveryType, WebhookType,
     LinkType DEF Next
<1>q. QED BY <1>1, <1>2

(* TypeOK holds of the flow for every number of transactions, answers,
   channels and failing calls. *)
THEOREM TypeCorrect == Spec => []TypeOK
BY InitType, TypeStep, PTL DEF Spec
-----------------------------------------------------------------------------
(* No success without HST's acceptance.  SuccessMeansAccepted is not inductive:
   a run that is about to write SUCCESS must already have been accepted. *)

SuccessPlanned == \A p \in Post : wh[p].plan = "SUCCESS" => accepted[PostTxn(p)]

SuccessInv == SuccessPlanned /\ SuccessMeansAccepted

(* Messages and deliveries are about a transaction of Txn. *)
LEMMA TxnOfIds ==
    /\ \A r \in Response : TxnOf(r) \in Txn
    /\ \A d \in Delivery : HookTxn(d) \in Txn /\ d[1] \in Response /\ TxnOf(d[1]) = HookTxn(d)
    /\ \A p \in Post : PostTxn(p) \in Txn /\ p[1] \in Hook /\ HookTxn(p[1]) = PostTxn(p)
    /\ \A h \in Hook, e \in Epoch : <<h, e>> \in Post /\ PostTxn(<<h, e>>) = HookTxn(h)
    /\ \A r \in Response, e \in Epoch : <<r, e>> \in Delivery /\ HookTxn(<<r, e>>) = TxnOf(r)
BY DEF Response, Delivery, Hook, Post, TxnOf, HookTxn, PostTxn

(* Once HST has accepted a webhook of a transaction, it has. *)
LEMMA AcceptedIsStable ==
    ASSUME TypeOK, [Next]_vars, NEW t \in Txn, accepted[t]
    PROVE  accepted'[t]
<1> USE DEF TypeOK, hst
<1>1. CASE UNCHANGED accepted
  BY <1>1
<1>2. CASE \E u \in Txn : AcceptUnseen(u)
  BY <1>2 DEF AcceptUnseen
<1>3. CASE \E p \in Post : SendSucceeds(p)
  BY <1>3 DEF SendSucceeds
<1>4. ASSUME Next PROVE \/ UNCHANGED accepted
                        \/ \E u \in Txn : AcceptUnseen(u)
                        \/ \E p \in Post : SendSucceeds(p)
  <2>1. CASE \E u \in Txn : RequestStep(u) \/ FailRequest(u) \/ AcceptUnseen(u)
    BY <2>1 DEF RequestStep, Reject, Begin, CreateRow, CreateLog, PublishRequest,
       MarkPublished, LogPublished, FailRequest
  <2>2. CASE \/ \E r \in Response : Answer(r) \/ DeliverResponse(r)
             \/ \E d \in Delivery :
                   RespStep(d) \/ PublishWebhookFails(d) \/ FailResponse(d)
             \/ \E h \in Hook : DeliverWebhook(h)
    BY <2>2 DEF Answer, DeliverResponse, RespStep, FindTransaction, UpdateProcessing,
       PublishWebhook, AckResponse, NackResponse, SettleResponse,
       PublishWebhookFails, FailResponse, DeliverWebhook
  <2>3. CASE \E p \in Post :
                HookStep(p) \/ PostAttempt(p) \/ SendThrows(p) \/ FailUpdate(p)
    BY <2>3 DEF HookStep, SendExhausted, RefuseUrl, MarkResult, LogResult,
       CacheResult, AckWebhook, NackWebhook, SettleWebhook, PostAttempt, SendThrows,
       FailUpdate
  <2>4. CASE Drop \/ Reconnect \/ Crash
    BY <2>4 DEF Drop, Reconnect, Crash
  <2>q. QED BY <1>4, <2>1, <2>2, <2>3, <2>4 DEF Next
<1>q. QED BY <1>1, <1>2, <1>3, <1>4 DEF vars

(* No step calls a transaction successful that HST has not accepted. *)
LEMMA SuccessStep ==
    ASSUME TypeOK, SuccessInv, [Next]_vars
    PROVE  SuccessInv'
<1> USE DEF SuccessInv
<1>a. \A t \in Txn : accepted[t] => accepted'[t]
  BY AcceptedIsStable
<1>1. CASE /\ UNCHANGED <<wh, cached>>
           /\ \A t \in Txn : status'[t] = "SUCCESS" => status[t] = "SUCCESS"
  BY <1>1, <1>a, TxnOfIds DEF SuccessPlanned, SuccessMeansAccepted
<1>2. CASE \E t \in Txn : RequestStep(t) \/ FailRequest(t) \/ AcceptUnseen(t)
  <2>1. UNCHANGED <<wh, cached>>
    BY <1>2 DEF RequestStep, Reject, Begin, CreateRow, CreateLog, PublishRequest,
       MarkPublished, LogPublished, FailRequest, AcceptUnseen, db
  <2>2. \A t \in Txn : status'[t] = "SUCCESS" => status[t] = "SUCCESS"
    BY <1>2 DEF RequestStep, Reject, Begin, CreateRow, CreateLog, PublishRequest,
       MarkPublished, LogPublished, FailRequest, AcceptUnseen, db, SetStatus, TypeOK
  <2>q. QED BY <1>1, <2>1, <2>2
<1>3. CASE \/ \E r \in Response : Answer(r) \/ DeliverResponse(r)
           \/ \E d \in Delivery : RespStep(d) \/ PublishWebhookFails(d) \/ FailResponse(d)
  <2>1. UNCHANGED <<wh, cached>>
    BY <1>3 DEF Answer, DeliverResponse, RespStep, FindTransaction, UpdateProcessing,
       PublishWebhook, AckResponse, NackResponse, SettleResponse,
       PublishWebhookFails, FailResponse, db
  <2>2. \A t \in Txn : status'[t] = "SUCCESS" => status[t] = "SUCCESS"
    BY <1>3 DEF Answer, DeliverResponse, RespStep, FindTransaction, UpdateProcessing,
       PublishWebhook, AckResponse, NackResponse, SettleResponse,
       PublishWebhookFails, FailResponse, db, SetStatus, TypeOK
  <2>q. QED BY <1>1, <2>1, <2>2
<1>4. CASE \E h \in Hook : DeliverWebhook(h)
  BY <1>4, <1>a, TxnOfIds DEF DeliverWebhook, HookGoes, Sending, Run, db, hst, TypeOK,
     SuccessPlanned, SuccessMeansAccepted
<1>5. ASSUME NEW p \in Post,
             HookStep(p) \/ PostAttempt(p) \/ SendThrows(p) \/ FailUpdate(p)
      PROVE  SuccessInv'
  <2> USE TxnOfIds DEF SuccessPlanned, SuccessMeansAccepted, HookGoes, Run, TypeOK, db, hst
  <2>1. CASE SendSucceeds(p)
    BY <1>a, <2>1 DEF SendSucceeds
  <2>2. CASE SendExhausted(p)
    BY <2>2, DataTypes DEF SendExhausted
  <2>8. CASE RefuseUrl(p) \/ SendThrows(p)
    BY <2>8 DEF RefuseUrl, SendThrows
  <2>9. CASE FailUpdate(p)
    BY <2>9 DEF FailUpdate
  <2>3. CASE PostAttempt(p)
    BY <2>3 DEF PostAttempt
  <2>4. CASE MarkResult(p)
    <3>1. SuccessPlanned'
      BY <2>4 DEF MarkResult
    <3>2. SuccessMeansAccepted'
      BY <2>4 DEF MarkResult, StatusOf, SetStatus
    <3>q. QED BY <3>1, <3>2
  <2>5. CASE LogResult(p)
    BY <2>5 DEF LogResult
  <2>6. CASE CacheResult(p)
    <3>1. SuccessPlanned'
      BY <2>6 DEF CacheResult
    <3>2. SuccessMeansAccepted'
      BY <2>6 DEF CacheResult, StatusOf
    <3>q. QED BY <3>1, <3>2
  <2>7. CASE AckWebhook(p) \/ NackWebhook(p)
    BY <2>7 DEF AckWebhook, NackWebhook, SettleWebhook, Idle
  <2>q. QED BY <1>5, <2>1, <2>2, <2>3, <2>4, <2>5, <2>6, <2>7, <2>8, <2>9 DEF HookStep
<1>6. CASE Drop \/ Reconnect \/ Crash
  BY <1>6, <1>a, TxnOfIds DEF Drop, Reconnect, Crash, Idle, Run, db, hst, SuccessPlanned,
     SuccessMeansAccepted
<1>7. CASE UNCHANGED vars
  BY <1>7, <1>1 DEF vars, db
<1>q. QED BY <1>2, <1>3, <1>4, <1>5, <1>6, <1>7 DEF Next

(* A transaction the bridge calls successful was accepted by HST, for any
   number of answers, redeliveries, drops, crashes and failing calls. *)
THEOREM SuccessIsAccepted == Spec => []SuccessMeansAccepted
<1>1. Init => SuccessInv
  BY TxnOfIds DEF Init, SuccessInv, SuccessPlanned, SuccessMeansAccepted, Idle, Run
<1>2. TypeOK /\ SuccessInv /\ [Next]_vars => SuccessInv'
  BY SuccessStep
<1>3. SuccessInv => SuccessMeansAccepted
  BY DEF SuccessInv
<1>q. QED BY <1>1, <1>2, <1>3, TypeCorrect, PTL DEF Spec
-----------------------------------------------------------------------------
(* An acknowledged response left its trace.  The duplicate that handleResponse
   drops is the hard case: it read a terminal status, so the strengthening says
   that every fact a webhook leaves behind comes after the SENT_WEBHOOK row. *)

Recorded(t) == "SENT_WEBHOOK" \in audit[t]

StatusRecorded   == \A t \in Txn : status[t] \in Terminal => Recorded(t)
HandlerRecorded  == \A d \in Delivery : rh[d] \in {"publish", "ack"} => Recorded(HookTxn(d))
MessageRecorded  == \A h \in Hook : hookAt[h] # "none" => Recorded(HookTxn(h))
WebhookRecorded  == \A p \in Post : wh[p].pc # "idle" => Recorded(PostTxn(p))

RecordedInv == /\ StatusRecorded /\ HandlerRecorded /\ MessageRecorded
               /\ WebhookRecorded /\ AckedResponseRecorded

(* Log rows are only ever added. *)
LEMMA AuditGrows ==
    ASSUME TypeOK, [Next]_vars
    PROVE  \A t \in Txn : Recorded(t) => Recorded(t)'
<1> USE DEF Recorded, TypeOK
<1>1. CASE UNCHANGED audit
  BY <1>1
<1>2. CASE \E t \in Txn, as \in SUBSET Actions : AddLog(t, as)
  BY <1>2 DEF AddLog
<1>3. CASE \E t \in Txn : RequestStep(t) \/ FailRequest(t) \/ AcceptUnseen(t)
  BY <1>1, <1>3 DEF RequestStep, Reject, Begin, CreateRow, CreateLog, PublishRequest,
     MarkPublished, LogPublished, FailRequest, AcceptUnseen, db, AddLog
<1>4. CASE \/ \E r \in Response : Answer(r) \/ DeliverResponse(r)
           \/ \E d \in Delivery : RespStep(d) \/ PublishWebhookFails(d) \/ FailResponse(d)
           \/ \E h \in Hook : DeliverWebhook(h)
  <2>1. CASE \E d \in Delivery : UpdateProcessing(d)
    BY <2>1 DEF UpdateProcessing, AddLog
  <2>2. CASE ~\E d \in Delivery : UpdateProcessing(d)
    BY <1>1, <1>4, <2>2 DEF Answer, DeliverResponse, RespStep, FindTransaction,
       PublishWebhook, AckResponse, NackResponse, SettleResponse,
       PublishWebhookFails, FailResponse, DeliverWebhook, db
  <2>q. QED BY <2>1, <2>2
<1>5. CASE \E p \in Post : HookStep(p) \/ PostAttempt(p) \/ SendThrows(p) \/ FailUpdate(p)
  <2>1. CASE \E p \in Post : LogResult(p)
    BY <2>1 DEF LogResult, AddLog
  <2>2. CASE ~\E p \in Post : LogResult(p)
    BY <1>1, <1>5, <2>2 DEF HookStep, SendSucceeds, SendExhausted, RefuseUrl,
       MarkResult, CacheResult, AckWebhook, NackWebhook, SettleWebhook,
       PostAttempt, SendThrows, FailUpdate, db
  <2>q. QED BY <2>1, <2>2
<1>6. CASE Drop \/ Reconnect \/ Crash \/ UNCHANGED vars
  BY <1>1, <1>6 DEF Drop, Reconnect, Crash, vars, db
<1>q. QED BY <1>3, <1>4, <1>5, <1>6 DEF Next

(* What a step must respect to keep RecordedInv. *)
LEMMA RecordedKept ==
    ASSUME TypeOK, RecordedInv, [Next]_vars,
           \A t \in Txn : status'[t] \in Terminal => Recorded(t) \/ Recorded(t)',
           \A d \in Delivery : rh'[d] \in {"publish", "ack"} =>
              rh[d] \in {"publish", "ack"} \/ Recorded(HookTxn(d)) \/ Recorded(HookTxn(d))',
           \A h \in Hook : hookAt'[h] # "none" => Recorded(HookTxn(h)),
           \A p \in Post : wh'[p].pc # "idle" => Recorded(PostTxn(p)),
           \A x \in Response : respAt'[x] = "acked" => Recorded(TxnOf(x))
    PROVE  RecordedInv'
<1>a. \A t \in Txn : Recorded(t) => Recorded(t)'
  BY AuditGrows
<1>1. StatusRecorded'
  BY <1>a DEF StatusRecorded
<1>2. HandlerRecorded'
  BY <1>a, TxnOfIds DEF HandlerRecorded, RecordedInv
<1>3. MessageRecorded'
  BY <1>a, TxnOfIds DEF MessageRecorded, Hook
<1>4. WebhookRecorded'
  BY <1>a, TxnOfIds DEF WebhookRecorded
<1>5. AckedResponseRecorded'
  BY <1>a, TxnOfIds DEF AckedResponseRecorded, Recorded
<1>q. QED BY <1>1, <1>2, <1>3, <1>4, <1>5 DEF RecordedInv

(* The steps of an HTTP request keep RecordedInv. *)
LEMMA RecordedByRequest ==
    ASSUME TypeOK, RecordedInv, [Next]_vars, NEW t \in Txn,
           RequestStep(t) \/ FailRequest(t) \/ AcceptUnseen(t)
    PROVE  RecordedInv'
<1>1. UNCHANGED <<rh, wh, hookAt, respAt>>
  BY DEF RequestStep, Reject, Begin, CreateRow, CreateLog, PublishRequest,
     MarkPublished, LogPublished, FailRequest, AcceptUnseen, broker
<1>2. \A u \in Txn : status'[u] \in Terminal => status[u] \in Terminal
  BY DEF RequestStep, Reject, Begin, CreateRow, CreateLog, PublishRequest,
     MarkPublished, LogPublished, FailRequest, AcceptUnseen, db, SetStatus, TypeOK, Terminal
<1>q. QED
  BY <1>1, <1>2, RecordedKept DEF RecordedInv, StatusRecorded, HandlerRecorded,
     MessageRecorded, WebhookRecorded, AckedResponseRecorded, Recorded

(* The steps of handleResponse keep RecordedInv: only a run that
   recorded the answer, or found it recorded, acknowledges. *)
LEMMA RecordedByResponse ==
    ASSUME TypeOK, RecordedInv, [Next]_vars, NEW d \in Delivery,
           RespStep(d) \/ PublishWebhookFails(d) \/ FailResponse(d)
    PROVE  RecordedInv'
<1>r. /\ \A t \in Txn : status[t] \in Terminal => Recorded(t)
      /\ \A e \in Delivery : rh[e] \in {"publish", "ack"} => Recorded(HookTxn(e))
      /\ \A h \in Hook : hookAt[h] # "none" => Recorded(HookTxn(h))
      /\ \A p \in Post : wh[p].pc # "idle" => Recorded(PostTxn(p))
      /\ \A x \in Response : respAt[x] = "acked" => Recorded(TxnOf(x))
  BY DEF RecordedInv, StatusRecorded, HandlerRecorded, MessageRecorded,
     WebhookRecorded, AckedResponseRecorded, Recorded
<1>w. UNCHANGED wh
  BY DEF RespStep, FindTransaction, UpdateProcessing, PublishWebhook, AckResponse,
     NackResponse, SettleResponse, PublishWebhookFails, FailResponse
<1>1. CASE FindTransaction(d)
  <2>1. AfterFind(status[HookTxn(d)], d[1]) = "ack" => status[HookTxn(d)] \in Terminal
    BY DEF AfterFind, AlreadyProcessed
  <2>2. AfterFind(status[HookTxn(d)], d[1]) # "publish"
    BY DataTypes, TxnOfIds DEF TypeOK
  <2>3. \A e \in Delivery : rh'[e] \in {"publish", "ack"} =>
              rh[e] \in {"publish", "ack"} \/ Recorded(HookTxn(e))
    BY <1>1, <1>r, <2>1, <2>2, TxnOfIds DEF FindTransaction, RespGoes, TypeOK
  <2>4. UNCHANGED <<status, hookAt, respAt>>
    BY <1>1 DEF FindTransaction, db, broker
  <2>q. QED BY <1>r, <1>w, <2>3, <2>4, RecordedKept
<1>2. CASE UpdateProcessing(d)
  <2>1. Recorded(HookTxn(d))'
    BY <1>2, TxnOfIds DEF UpdateProcessing, AddLog, Recorded, TypeOK
  <2>2. \A u \in Txn : status'[u] \in Terminal => status[u] \in Terminal
    BY <1>2 DEF UpdateProcessing, SetStatus, Terminal, TypeOK
  <2>3. \A e \in Delivery : rh'[e] \in {"publish", "ack"} => rh[e] \in {"publish", "ack"} \/ e = d
    BY <1>2 DEF UpdateProcessing, RespGoes, TypeOK
  <2>4. UNCHANGED <<hookAt, respAt>>
    BY <1>2 DEF UpdateProcessing, broker
  <2>q. QED BY <1>r, <1>w, <2>1, <2>2, <2>3, <2>4, RecordedKept
<1>3. CASE PublishWebhook(d) \/ PublishWebhookFails(d) \/ FailResponse(d)
  <2>1. UNCHANGED <<status, respAt>>
    BY <1>3 DEF PublishWebhook, PublishWebhookFails, FailResponse, db, broker
  <2>2. \A e \in Delivery : rh'[e] \in {"publish", "ack"} => rh[e] \in {"publish", "ack"}
    BY <1>3 DEF PublishWebhook, PublishWebhookFails, FailResponse, RespGoes, TypeOK
  <2>3. \A h \in Hook : hookAt'[h] # "none" => hookAt[h] # "none" \/ (h = d /\ rh[d] = "publish")
    BY <1>3 DEF PublishWebhook, PublishWebhookFails, FailResponse, RespGoes, TypeOK, broker
  <2>q. QED BY <1>r, <1>w, <2>1, <2>2, <2>3, RecordedKept
<1>4. CASE AckResponse(d) \/ NackResponse(d)
  <2>1. UNCHANGED <<status, hookAt>>
    BY <1>4 DEF AckResponse, NackResponse, SettleResponse, db
  <2>2. \A e \in Delivery : rh'[e] \in {"publish", "ack"} => rh[e] \in {"publish", "ack"}
    BY <1>4 DEF AckResponse, NackResponse, SettleResponse, RespGoes, TypeOK
  <2>3. \A x \in Response : respAt'[x] = "acked" =>
              respAt[x] = "acked" \/ (x = d[1] /\ rh[d] = "ack")
    BY <1>4 DEF AckResponse, NackResponse, SettleResponse, RespGoes, TypeOK
  <2>q. QED BY <1>r, <1>w, <2>1, <2>2, <2>3, TxnOfIds, RecordedKept
<1>q. QED BY <1>1, <1>2, <1>3, <1>4 DEF RespStep

(* The steps of handleWebhook keep RecordedInv. *)
LEMMA RecordedByWebhook ==
    ASSUME TypeOK, RecordedInv, [Next]_vars, NEW p \in Post,
           HookStep(p) \/ PostAttempt(p) \/ SendThrows(p) \/ FailUpdate(p)
    PROVE  RecordedInv'
<1>r. /\ \A t \in Txn : status[t] \in Terminal => Recorded(t)
      /\ \A h \in Hook : hookAt[h] # "none" => Recorded(HookTxn(h))
      /\ \A q \in Post : wh[q].pc # "idle" => Recorded(PostTxn(q))
      /\ \A x \in Response : respAt[x] = "acked" => Recorded(TxnOf(x))
  BY DEF RecordedInv, StatusRecorded, MessageRecorded, WebhookRecorded,
     AckedResponseRecorded, Recorded
<1>1. UNCHANGED <<rh, respAt>>
  BY DEF HookStep, SendSucceeds, SendExhausted, RefuseUrl, MarkResult, LogResult,
     CacheResult, AckWebhook, NackWebhook, SettleWebhook, PostAttempt, SendThrows,
     FailUpdate, broker
<1>2. wh[p].pc # "idle"
  BY DEF HookStep, SendSucceeds, SendExhausted, RefuseUrl, MarkResult, LogResult,
     CacheResult, AckWebhook, NackWebhook, SettleWebhook, PostAttempt, SendThrows,
     FailUpdate, CanPost
<1>3. \A q \in Post : wh'[q].pc # "idle" => wh[q].pc # "idle" \/ q = p
  BY DEF HookStep, SendSucceeds, SendExhausted, RefuseUrl, MarkResult, LogResult,
     CacheResult, AckWebhook, NackWebhook, SettleWebhook, PostAttempt, SendThrows,
     FailUpdate, HookGoes, TypeOK
<1>4. \A u \in Txn : status'[u] \in Terminal => status[u] \in Terminal \/ u = PostTxn(p)
  BY DEF HookStep, SendSucceeds, SendExhausted, RefuseUrl, MarkResult, LogResult,
     CacheResult, AckWebhook, NackWebhook, SettleWebhook, PostAttempt, SendThrows,
     FailUpdate, SetStatus, db, TypeOK
<1>5. \A h \in Hook : hookAt'[h] # "none" => hookAt[h] # "none" \/ h = p[1]
  BY DEF HookStep, SendSucceeds, SendExhausted, RefuseUrl, MarkResult, LogResult,
     CacheResult, AckWebhook, NackWebhook, SettleWebhook, PostAttempt, SendThrows,
     FailUpdate, broker, TypeOK
<1>6. Recorded(PostTxn(p)) /\ HookTxn(p[1]) = PostTxn(p)
  BY <1>r, <1>2, TxnOfIds
<1>7. \A d \in Delivery : rh'[d] \in {"publish", "ack"} => rh[d] \in {"publish", "ack"}
  BY <1>1
<1>q. QED BY <1>r, <1>1, <1>3, <1>4, <1>5, <1>6, <1>7, RecordedKept

(* Every step of the bridge keeps RecordedInv. *)
LEMMA RecordedStep ==
    ASSUME TypeOK, RecordedInv, [Next]_vars
    PROVE  RecordedInv'
<1>r. /\ \A t \in Txn : status[t] \in Terminal => Recorded(t)
      /\ \A e \in Delivery : rh[e] \in {"publish", "ack"} => Recorded(HookTxn(e))
      /\ \A h \in Hook : hookAt[h] # "none" => Recorded(HookTxn(h))
      /\ \A q \in Post : wh[q].pc # "idle" => Recorded(PostTxn(q))
      /\ \A x \in Response : respAt[x] = "acked" => Recorded(TxnOf(x))
  BY DEF RecordedInv, StatusRecorded, HandlerRecorded, MessageRecorded,
     WebhookRecorded, AckedResponseRecorded, Recorded
<1>1. ASSUME NEW x \in Response, Answer(x) \/ DeliverResponse(x)
      PROVE  RecordedInv'
  <2>1. UNCHANGED <<status, wh, hookAt>>
    BY <1>1 DEF Answer, DeliverResponse, db
  <2>2. \A y \in Response : respAt'[y] = "acked" => respAt[y] = "acked"
    BY <1>1 DEF Answer, DeliverResponse, TypeOK
  <2>3. \A d \in Delivery : rh'[d] \in {"publish", "ack"} => rh[d] \in {"publish", "ack"}
    BY <1>1 DEF Answer, DeliverResponse, TypeOK
  <2>q. QED BY <1>r, <2>1, <2>2, <2>3, RecordedKept
<1>2. ASSUME NEW h \in Hook, DeliverWebhook(h)
      PROVE  RecordedInv'
  <2>1. UNCHANGED <<status, rh, respAt>>
    BY <1>2 DEF DeliverWebhook, db
  <2>2. \A g \in Hook : hookAt'[g] # "none" => hookAt[g] # "none"
    BY <1>2 DEF DeliverWebhook, TypeOK
  <2>3. hookAt[h] # "none"
    BY <1>2 DEF DeliverWebhook
  <2>4. \A p \in Post : wh'[p].pc # "idle" => wh[p].pc # "idle" \/ p = <<h, epoch>>
    BY <1>2 DEF DeliverWebhook, HookGoes, TypeOK
  <2>q. QED BY <1>r, <2>1, <2>2, <2>3, <2>4, TxnOfIds, RecordedKept DEF TypeOK
<1>3. CASE Drop \/ Crash
  <2>1. UNCHANGED status
    BY <1>3 DEF Drop, Crash, db
  <2>2. \A h \in Hook : hookAt'[h] # "none" => hookAt[h] # "none"
    BY <1>3 DEF Drop, Crash, NewChannel, Requeued, TypeOK
  <2>3. \A x \in Response : respAt'[x] = "acked" => respAt[x] = "acked"
    BY <1>3 DEF Drop, Crash, NewChannel, Requeued, TypeOK
  <2>4. \A p \in Post : wh'[p].pc # "idle" => wh[p].pc # "idle"
    BY <1>3 DEF Drop, Crash, Idle, Run
  <2>5. \A d \in Delivery : rh'[d] \in {"publish", "ack"} => rh[d] \in {"publish", "ack"}
    BY <1>3 DEF Drop, Crash
  <2>q. QED BY <1>r, <2>1, <2>2, <2>3, <2>4, <2>5, RecordedKept
<1>4. CASE Reconnect \/ UNCHANGED vars
  BY <1>r, <1>4, RecordedKept DEF Reconnect, vars, db, broker
<1>q. QED
  BY <1>1, <1>2, <1>3, <1>4, RecordedByRequest, RecordedByResponse,
     RecordedByWebhook DEF Next

(* No acknowledged response is lost: its transaction was taken to
   PROCESSING and logged as SENT_WEBHOOK, whatever was redelivered. *)
THEOREM AckedResponseIsRecorded == Spec => []AckedResponseRecorded
<1>1. Init => RecordedInv
  BY TxnOfIds DEF Init, RecordedInv, StatusRecorded, HandlerRecorded, MessageRecorded,
     WebhookRecorded, AckedResponseRecorded, Terminal, Idle, Run
<1>2. TypeOK /\ RecordedInv /\ [Next]_vars => RecordedInv'
  BY RecordedStep
<1>3. RecordedInv => AckedResponseRecorded
  BY DEF RecordedInv
<1>q. QED BY <1>1, <1>2, <1>3, TypeCorrect, PTL DEF Spec
-----------------------------------------------------------------------------
(* A settled transaction stays settled.  The strengthening keeps its HTTP
   request from starting over: whatever works on a row comes after it. *)

Known(t) == status[t] # "none"

RequestBeforeRow == \A t \in Txn : req[t] \in {"idle", "create"} => ~Known(t)
HandlerKnows     == \A d \in Delivery : rh[d] \in {"update", "publish"} => Known(HookTxn(d))
MessageKnown     == \A h \in Hook : hookAt[h] # "none" => Known(HookTxn(h))
WebhookKnows     == \A p \in Post : wh[p].pc # "idle" => Known(PostTxn(p))

RowInv == RequestBeforeRow /\ HandlerKnows /\ MessageKnown /\ WebhookKnows

(* What a step must respect to keep RowInv. *)
LEMMA RowKept ==
    ASSUME TypeOK, RowInv,
           \A t \in Txn : Known(t) => Known(t)',
           \A t \in Txn : req'[t] \in {"idle", "create"} =>
              req[t] \in {"idle", "create"} /\ (status'[t] = status[t] \/ Known(t)),
           \A d \in Delivery : rh'[d] \in {"update", "publish"} => Known(HookTxn(d)),
           \A h \in Hook : hookAt'[h] # "none" => Known(HookTxn(h)),
           \A p \in Post : wh'[p].pc # "idle" => Known(PostTxn(p))
    PROVE  RowInv'
<1>1. RequestBeforeRow'
  BY DEF RowInv, RequestBeforeRow, Known
<1>2. HandlerKnows' /\ MessageKnown' /\ WebhookKnows'
  BY TxnOfIds DEF HandlerKnows, MessageKnown, WebhookKnows, Hook
<1>q. QED BY <1>1, <1>2 DEF RowInv

(* The steps of an HTTP request keep RowInv. *)
LEMMA RowByRequest ==
    ASSUME TypeOK, RowInv, NEW t \in Txn, RequestStep(t) \/ FailRequest(t) \/ AcceptUnseen(t)
    PROVE  RowInv'
<1>r. /\ \A u \in Txn : req[u] \in {"idle", "create"} => ~Known(u)
      /\ \A e \in Delivery : rh[e] \in {"update", "publish"} => Known(HookTxn(e))
      /\ \A h \in Hook : hookAt[h] # "none" => Known(HookTxn(h))
      /\ \A q \in Post : wh[q].pc # "idle" => Known(PostTxn(q))
  BY DEF RowInv, RequestBeforeRow, HandlerKnows, MessageKnown, WebhookKnows
<1>1. UNCHANGED <<rh, wh, hookAt>>
  BY DEF RequestStep, Reject, Begin, CreateRow, CreateLog, PublishRequest,
     MarkPublished, LogPublished, FailRequest, AcceptUnseen, broker
<1>2. \A u \in Txn : Known(u) => Known(u)'
  BY DEF RequestStep, Reject, Begin, CreateRow, CreateLog, PublishRequest,
     MarkPublished, LogPublished, FailRequest, AcceptUnseen, db, SetStatus, TypeOK, Known
<1>3. \A u \in Txn : req'[u] \in {"idle", "create"} =>
         req[u] \in {"idle", "create"} /\ (status'[u] = status[u] \/ Known(u))
  BY DEF RequestStep, Reject, Begin, CreateRow, CreateLog, PublishRequest,
     MarkPublished, LogPublished, FailRequest, AcceptUnseen, db, ReqGoes, SetStatus, TypeOK
<1>q. QED BY <1>r, <1>1, <1>2, <1>3, RowKept

(* The steps of handleResponse keep RowInv. *)
LEMMA RowByResponse ==
    ASSUME TypeOK, RowInv, NEW d \in Delivery,
           RespStep(d) \/ PublishWebhookFails(d) \/ FailResponse(d)
    PROVE  RowInv'
<1>r. /\ \A e \in Delivery : rh[e] \in {"update", "publish"} => Known(HookTxn(e))
      /\ \A h \in Hook : hookAt[h] # "none" => Known(HookTxn(h))
      /\ \A q \in Post : wh[q].pc # "idle" => Known(PostTxn(q))
  BY DEF RowInv, HandlerKnows, MessageKnown, WebhookKnows
<1>0. AfterFind(status[HookTxn(d)], d[1]) \in {"update", "publish"} => Known(HookTxn(d))
  BY DEF AfterFind, Known
<1>1. UNCHANGED <<req, wh>>
  BY DEF RespStep, FindTransaction, UpdateProcessing, PublishWebhook, AckResponse,
     NackResponse, SettleResponse, PublishWebhookFails, FailResponse
<1>2. \A e \in Delivery : rh'[e] \in {"update", "publish"} => Known(HookTxn(e))
  <2>1. CASE FindTransaction(d)
    BY <1>r, <1>0, <2>1 DEF FindTransaction, RespGoes, TypeOK
  <2>2. CASE UpdateProcessing(d)
    BY <1>r, <2>2 DEF UpdateProcessing, RespGoes, TypeOK
  <2>3. CASE PublishWebhook(d) \/ PublishWebhookFails(d) \/ FailResponse(d)
    BY <1>r, <2>3 DEF PublishWebhook, PublishWebhookFails, FailResponse, RespGoes, TypeOK
  <2>4. CASE AckResponse(d) \/ NackResponse(d)
    BY <1>r, <2>4 DEF AckResponse, NackResponse, SettleResponse, RespGoes, TypeOK
  <2>q. QED BY <2>1, <2>2, <2>3, <2>4 DEF RespStep
<1>3. \A h \in Hook : hookAt'[h] # "none" => hookAt[h] # "none" \/ (h = d /\ rh[d] = "publish")
  BY DEF RespStep, FindTransaction, UpdateProcessing, PublishWebhook, AckResponse,
     NackResponse, SettleResponse, PublishWebhookFails, FailResponse, broker, RespGoes, TypeOK
<1>4. \A u \in Txn : status'[u] = status[u] \/ (u = HookTxn(d) /\ rh[d] = "update" /\ Known(u)')
  BY DEF RespStep, FindTransaction, UpdateProcessing, PublishWebhook, AckResponse,
     NackResponse, SettleResponse, PublishWebhookFails, FailResponse, db, RespGoes,
     SetStatus, TypeOK, Known
<1>5. \A u \in Txn : /\ Known(u) => Known(u)'
                     /\ status'[u] = status[u] \/ Known(u)
  BY <1>r, <1>4 DEF Known
<1>6. \A u \in Txn : req'[u] \in {"idle", "create"} =>
         req[u] \in {"idle", "create"} /\ (status'[u] = status[u] \/ Known(u))
  BY <1>1, <1>5
<1>q. QED BY <1>r, <1>1, <1>2, <1>3, <1>5, <1>6, RowKept

(* The steps of handleWebhook keep RowInv. *)
LEMMA RowByWebhook ==
    ASSUME TypeOK, RowInv, NEW p \in Post,
           HookStep(p) \/ PostAttempt(p) \/ SendThrows(p) \/ FailUpdate(p)
    PROVE  RowInv'
<1>r. /\ \A e \in Delivery : rh[e] \in {"update", "publish"} => Known(HookTxn(e))
      /\ \A h \in Hook : hookAt[h] # "none" => Known(HookTxn(h))
      /\ \A q \in Post : wh[q].pc # "idle" => Known(PostTxn(q))
  BY DEF RowInv, HandlerKnows, MessageKnown, WebhookKnows
<1>1. UNCHANGED <<req, rh>>
  BY DEF HookStep, SendSucceeds, SendExhausted, RefuseUrl, MarkResult, LogResult,
     CacheResult, AckWebhook, NackWebhook, SettleWebhook, PostAttempt, SendThrows,
     FailUpdate
<1>2. wh[p].pc # "idle"
  BY DEF HookStep, SendSucceeds, SendExhausted, RefuseUrl, MarkResult, LogResult,
     CacheResult, AckWebhook, NackWebhook, SettleWebhook, PostAttempt, SendThrows,
     FailUpdate, CanPost
<1>3. \A q \in Post : wh'[q].pc # "idle" => wh[q].pc # "idle" \/ q = p
  BY DEF HookStep, SendSucceeds, SendExhausted, RefuseUrl, MarkResult, LogResult,
     CacheResult, AckWebhook, NackWebhook, SettleWebhook, PostAttempt, SendThrows,
     FailUpdate, HookGoes, TypeOK
<1>4. \A u \in Txn : status'[u] = status[u] \/ (u = PostTxn(p) /\ Known(u)')
  <2>1. CASE MarkResult(p)
    <3>1. StatusOf(wh[p].plan) \in Terminal
      BY <2>1, RunType, DataTypes DEF MarkResult
    <3>q. QED BY <2>1, <3>1 DEF MarkResult, SetStatus, TypeOK, Known, Terminal
  <2>2. CASE ~MarkResult(p)
    BY <2>2 DEF HookStep, SendSucceeds, SendExhausted, RefuseUrl, LogResult,
       CacheResult, AckWebhook, NackWebhook, SettleWebhook, PostAttempt, SendThrows,
       FailUpdate, db
  <2>q. QED BY <2>1, <2>2
<1>5. \A h \in Hook : hookAt'[h] # "none" => hookAt[h] # "none" \/ h = p[1]
  BY DEF HookStep, SendSucceeds, SendExhausted, RefuseUrl, MarkResult, LogResult,
     CacheResult, AckWebhook, NackWebhook, SettleWebhook, PostAttempt, SendThrows,
     FailUpdate, broker, TypeOK
<1>6. Known(PostTxn(p)) /\ HookTxn(p[1]) = PostTxn(p)
  BY <1>r, <1>2, TxnOfIds
<1>7. \A u \in Txn : /\ Known(u) => Known(u)'
                     /\ status'[u] = status[u] \/ Known(u)
  BY <1>4, <1>6 DEF Known
<1>8. \A u \in Txn : req'[u] \in {"idle", "create"} =>
         req[u] \in {"idle", "create"} /\ (status'[u] = status[u] \/ Known(u))
  BY <1>1, <1>7
<1>q. QED BY <1>r, <1>1, <1>3, <1>5, <1>6, <1>7, <1>8, RowKept

(* Every step of the bridge keeps RowInv. *)
LEMMA RowStep == TypeOK /\ RowInv /\ [Next]_vars => RowInv'
<1> SUFFICES ASSUME TypeOK, RowInv, [Next]_vars
             PROVE  RowInv'
  OBVIOUS
<1>r. /\ \A e \in Delivery : rh[e] \in {"update", "publish"} => Known(HookTxn(e))
      /\ \A h \in Hook : hookAt[h] # "none" => Known(HookTxn(h))
      /\ \A q \in Post : wh[q].pc # "idle" => Known(PostTxn(q))
  BY DEF RowInv, HandlerKnows, MessageKnown, WebhookKnows
<1>1. CASE /\ UNCHANGED status
           /\ \A u \in Txn : req'[u] \in {"idle", "create"} => req[u] \in {"idle", "create"}
           /\ \A d \in Delivery : rh'[d] \in {"update", "publish"} => rh[d] \in {"update", "publish"}
           /\ \A h \in Hook : hookAt'[h] # "none" => hookAt[h] # "none"
           /\ \A p \in Post : wh'[p].pc # "idle" => Known(PostTxn(p))
  BY <1>r, <1>1, RowKept DEF Known
<1>2. CASE \E x \in Response : Answer(x) \/ DeliverResponse(x)
  <2>1. UNCHANGED <<status, req, wh, hookAt>>
    BY <1>2 DEF Answer, DeliverResponse, db
  <2>2. \A d \in Delivery : rh'[d] \in {"update", "publish"} => rh[d] \in {"update", "publish"}
    BY <1>2 DEF Answer, DeliverResponse, TypeOK
  <2>q. QED BY <1>r, <1>1, <2>1, <2>2
<1>3. ASSUME NEW h \in Hook, DeliverWebhook(h)
      PROVE  RowInv'
  <2>1. UNCHANGED <<status, req, rh>>
    BY <1>3 DEF DeliverWebhook, db
  <2>2. \A g \in Hook : hookAt'[g] # "none" => hookAt[g] # "none"
    BY <1>3 DEF DeliverWebhook, TypeOK
  <2>3. hookAt[h] # "none"
    BY <1>3 DEF DeliverWebhook
  <2>4. \A p \in Post : wh'[p].pc # "idle" => wh[p].pc # "idle" \/ p = <<h, epoch>>
    BY <1>3 DEF DeliverWebhook, HookGoes, TypeOK
  <2>5. \A p \in Post : wh'[p].pc # "idle" => Known(PostTxn(p))
    BY <1>r, <2>3, <2>4, TxnOfIds DEF TypeOK
  <2>q. QED BY <1>1, <2>1, <2>2, <2>5
<1>4. CASE Drop \/ Crash
  <2>1. UNCHANGED status
    BY <1>4 DEF Drop, Crash, db
  <2>2. \A h \in Hook : hookAt'[h] # "none" => hookAt[h] # "none"
    BY <1>4 DEF Drop, Crash, NewChannel, Requeued, TypeOK
  <2>3. \A u \in Txn : req'[u] \in {"idle", "create"} => req[u] \in {"idle", "create"}
    BY <1>4 DEF Drop, Crash
  <2>4. \A p \in Post : wh'[p].pc # "idle" => wh[p].pc # "idle"
    BY <1>4 DEF Drop, Crash, Idle, Run
  <2>5. \A d \in Delivery : rh'[d] \in {"update", "publish"} => rh[d] \in {"update", "publish"}
    BY <1>4 DEF Drop, Crash
  <2>q. QED BY <1>r, <1>1, <2>1, <2>2, <2>3, <2>4, <2>5
<1>5. CASE Reconnect \/ UNCHANGED vars
  BY <1>r, <1>1, <1>5 DEF Reconnect, vars, db, broker
<1>q. QED
  BY <1>2, <1>3, <1>4, <1>5, RowByRequest, RowByResponse, RowByWebhook DEF Next

(* RowInv is an invariant of the flow. *)
LEMMA RowInvariant == Spec => []RowInv
<1>1. Init => RowInv
  BY TxnOfIds DEF Init, RowInv, RequestBeforeRow, HandlerKnows, MessageKnown, WebhookKnows,
     Known, Idle, Run
<1>q. QED BY <1>1, RowStep, TypeCorrect, PTL DEF Spec

(* What a step must respect to leave a settled transaction alone. *)
Leaves(t) ==
    /\ status'[t] = status[t] /\ cached'[t] = cached[t]
    /\ req'[t] \notin InFlight
    /\ \A d \in Delivery : HookTxn(d) = t =>
          /\ rh'[d] \notin {"update", "publish"}
          /\ hookAt'[d] \notin {"ready", "unacked"}
    /\ \A p \in Post : PostTxn(p) = t => wh'[p].pc = "idle"

(* No step of the bridge disturbs a transaction that is settled. *)
LEMMA SettledStep ==
    ASSUME TypeOK, RowInv, [Next]_vars, NEW t \in Txn, Settled(t)
    PROVE  Leaves(t)
<1>r. /\ status[t] \in Terminal /\ req[t] \notin InFlight \cup {"idle"}
      /\ \A d \in Delivery : HookTxn(d) = t =>
            rh[d] \notin {"update", "publish"} /\ hookAt[d] \notin {"ready", "unacked"}
      /\ \A p \in Post : PostTxn(p) = t => wh[p].pc = "idle"
  BY DEF Settled, RowInv, RequestBeforeRow, Known, Terminal
<1> USE DEF Leaves
<1>1. CASE \E u \in Txn : RequestStep(u) \/ FailRequest(u) \/ AcceptUnseen(u)
  <2>1. PICK u \in Txn : RequestStep(u) \/ FailRequest(u) \/ AcceptUnseen(u)
    BY <1>1
  <2>2. UNCHANGED <<rh, wh, hookAt, cached>>
    BY <2>1 DEF RequestStep, Reject, Begin, CreateRow, CreateLog, PublishRequest,
       MarkPublished, LogPublished, FailRequest, AcceptUnseen, broker, db
  <2>3. req'[t] = req[t] /\ status'[t] = status[t]
    BY <1>r, <2>1 DEF RequestStep, Reject, Begin, CreateRow, CreateLog, PublishRequest,
       MarkPublished, LogPublished, FailRequest, AcceptUnseen, db, ReqGoes, SetStatus,
       TypeOK, InFlight
  <2>q. QED BY <1>r, <2>2, <2>3
<1>2. CASE \E x \in Response : Answer(x) \/ DeliverResponse(x)
  <2>1. UNCHANGED <<status, cached, req, wh, hookAt>>
    BY <1>2 DEF Answer, DeliverResponse, db
  <2>2. \A d \in Delivery : rh'[d] \in {"update", "publish"} => rh[d] \in {"update", "publish"}
    BY <1>2 DEF Answer, DeliverResponse, TypeOK
  <2>q. QED BY <1>r, <2>1, <2>2
<1>3. ASSUME NEW d \in Delivery, RespStep(d) \/ PublishWebhookFails(d) \/ FailResponse(d)
      PROVE  Leaves(t)
  <2>1. UNCHANGED <<cached, req, wh>>
    BY <1>3 DEF RespStep, FindTransaction, UpdateProcessing, PublishWebhook, AckResponse,
       NackResponse, SettleResponse, PublishWebhookFails, FailResponse, db
  <2>2. HookTxn(d) = t => AfterFind(status[HookTxn(d)], d[1]) = "ack"
    BY <1>r DEF AfterFind, AlreadyProcessed, Terminal
  <2>3. status'[t] = status[t]
    BY <1>3, <1>r DEF RespStep, FindTransaction, UpdateProcessing, PublishWebhook,
       AckResponse, NackResponse, SettleResponse, PublishWebhookFails, FailResponse, db,
       RespGoes, SetStatus, TypeOK
  <2>4. \A e \in Delivery : HookTxn(e) = t => rh'[e] \notin {"update", "publish"}
    <3>1. \A e \in Delivery : e # d => rh'[e] = rh[e]
      BY <1>3 DEF RespStep, FindTransaction, UpdateProcessing, PublishWebhook, AckResponse,
         NackResponse, SettleResponse, PublishWebhookFails, FailResponse, RespGoes, TypeOK
    <3>2. HookTxn(d) = t => rh'[d] \notin {"update", "publish"}
      BY <1>3, <1>r, <2>2 DEF RespStep, FindTransaction, UpdateProcessing, PublishWebhook,
         AckResponse, NackResponse, SettleResponse, PublishWebhookFails, FailResponse,
         RespGoes, TypeOK
    <3>q. QED BY <1>r, <3>1, <3>2
  <2>5. \A e \in Delivery : HookTxn(e) = t => hookAt'[e] = hookAt[e]
    BY <1>3, <1>r DEF RespStep, FindTransaction, UpdateProcessing, PublishWebhook,
       AckResponse, NackResponse, SettleResponse, PublishWebhookFails, FailResponse, broker,
       RespGoes, TypeOK, Hook
  <2>q. QED BY <1>r, <2>1, <2>3, <2>4, <2>5
<1>4. ASSUME NEW h \in Hook, DeliverWebhook(h)
      PROVE  Leaves(t)
  <2>1. UNCHANGED <<status, cached, req, rh>> /\ hookAt[h] = "ready"
    BY <1>4 DEF DeliverWebhook, db
  <2>2. HookTxn(h) # t
    BY <1>r, <2>1 DEF Hook
  <2>3. \A d \in Delivery : HookTxn(d) = t => hookAt'[d] = hookAt[d]
    BY <1>4, <2>2 DEF DeliverWebhook, TypeOK, Hook
  <2>4. \A p \in Post : PostTxn(p) = t => wh'[p] = wh[p]
    BY <1>4, <2>2, TxnOfIds DEF DeliverWebhook, HookGoes, TypeOK
  <2>q. QED BY <1>r, <2>1, <2>3, <2>4
<1>5. ASSUME NEW p \in Post, HookStep(p) \/ PostAttempt(p) \/ SendThrows(p) \/ FailUpdate(p)
      PROVE  Leaves(t)
  <2> USE DEF HookStep, SendSucceeds, SendExhausted, RefuseUrl, MarkResult, LogResult,
          CacheResult, AckWebhook, NackWebhook, SettleWebhook, PostAttempt, SendThrows,
          FailUpdate
  <2>1. UNCHANGED <<req, rh>>
    BY <1>5
  <2>2. PostTxn(p) # t
    BY <1>5, <1>r DEF CanPost
  <2>3. status'[t] = status[t] /\ cached'[t] = cached[t]
    BY <1>5, <2>2 DEF SetStatus, db, TypeOK
  <2>4. \A q \in Post : PostTxn(q) = t => wh'[q] = wh[q]
    BY <1>5, <2>2 DEF HookGoes, TypeOK
  <2>5. \A d \in Delivery : HookTxn(d) = t => hookAt'[d] = hookAt[d]
    BY <1>5, <2>2, TxnOfIds DEF broker, TypeOK, Hook
  <2>q. QED BY <1>r, <2>1, <2>3, <2>4, <2>5
<1>6. CASE Drop \/ Crash
  <2>1. UNCHANGED <<status, cached>>
    BY <1>6 DEF Drop, Crash, db
  <2>2. \A h \in Hook : hookAt'[h] \in {"ready", "unacked"} => hookAt[h] \in {"ready", "unacked"}
    BY <1>6 DEF Drop, Crash, NewChannel, Requeued, TypeOK
  <2>3. req'[t] = req[t]
    BY <1>6, <1>r DEF Drop, Crash
  <2>4. \A p \in Post : wh'[p].pc # "idle" => wh[p].pc # "idle"
    BY <1>6 DEF Drop, Crash, Idle, Run
  <2>5. \A d \in Delivery : rh'[d] \in {"update", "publish"} => rh[d] \in {"update", "publish"}
    BY <1>6 DEF Drop, Crash
  <2>q. QED BY <1>r, <2>1, <2>2, <2>3, <2>4, <2>5 DEF Hook
<1>7. CASE Reconnect \/ UNCHANGED vars
  BY <1>r, <1>7 DEF Reconnect, vars, db, broker
<1>q. QED BY <1>1, <1>2, <1>3, <1>4, <1>5, <1>6, <1>7 DEF Next

(* Once nothing is left to write about a finished transaction, no answer,
   redelivery, drop or crash ever reopens it or changes its cached status. *)
THEOREM SettledStaysSettled == Spec => SettledIsForever
<1>1. TypeOK /\ RowInv /\ [Next]_vars =>
         [KeepsSettled]_vars
  <2> SUFFICES ASSUME TypeOK, RowInv, [Next]_vars, NEW t \in Txn, Settled(t)
               PROVE  Settled(t)' /\ UNCHANGED <<status[t], cached[t]>>
    BY DEF KeepsSettled
  <2>1. Leaves(t)
    BY SettledStep
  <2>q. QED BY <2>1 DEF Leaves, Settled
<1>q. QED BY <1>1, TypeCorrect, RowInvariant, PTL DEF Spec, SettledIsForever
=============================================================================
