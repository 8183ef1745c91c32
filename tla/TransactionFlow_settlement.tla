--------------------- MODULE TransactionFlow_settlement ---------------------
(***************************************************************************)
(* What the place of a message in RabbitMQ means: a dead-lettered message  *)
(* has a cause, a webhook that left its queue left a conclusion behind,    *)
(* and an unacknowledged message has the one run that will settle it.      *)
(***************************************************************************)
EXTENDS TransactionFlow_protocol

(* A failed call stays failed. *)
LEMMA FaultsGrow ==
    ASSUME TypeOK, [Next]_vars
    PROVE  /\ faults \in Nat /\ faults' \in Nat
           /\ faults > 0 => faults' > 0
           /\ Fault => faults' > 0
<1>t. faults \in Nat
  BY BoundAssumption DEF TypeOK
<1>0. CASE faults' = faults
  BY <1>t, <1>0 DEF Fault
<1>1. CASE Fault
  BY <1>t, <1>1 DEF Fault
<1>2. CASE \E t \in Txn : RequestStep(t) \/ FailRequest(t) \/ AcceptUnseen(t)
  BY <1>0, <1>1, <1>2 DEF RequestStep, Reject, Begin, CreateRow, CreateLog, PublishRequest,
     MarkPublished, LogPublished, FailRequest, AcceptUnseen
<1>3. CASE \/ \E r \in Response : Answer(r) \/ DeliverResponse(r)
           \/ \E d \in Delivery : RespStep(d) \/ PublishWebhookFails(d) \/ FailResponse(d)
           \/ \E h \in Hook : DeliverWebhook(h)
  BY <1>0, <1>1, <1>3 DEF Answer, DeliverResponse, RespStep, FindTransaction,
     UpdateProcessing, PublishWebhook, AckResponse, NackResponse, SettleResponse,
     PublishWebhookFails, FailResponse, DeliverWebhook
<1>4. CASE \E p \in Post : HookStep(p) \/ PostAttempt(p) \/ SendThrows(p) \/ FailUpdate(p)
  BY <1>0, <1>1, <1>4 DEF HookStep, SendSucceeds, SendExhausted, RefuseUrl, MarkResult,
     LogResult, CacheResult, AckWebhook, NackWebhook, SettleWebhook, PostAttempt, SendThrows,
     FailUpdate
<1>5. CASE Drop \/ Reconnect \/ Crash \/ UNCHANGED vars
  BY <1>0, <1>5 DEF Drop, Reconnect, Crash, vars
<1>q. QED BY <1>2, <1>3, <1>4, <1>5 DEF Next

(* A settled run is forgotten, and a new one starts without an outcome. *)
LEMMA FreshRuns ==
    /\ Idle.pc = "idle" /\ Idle.plan = "none" /\ Sending.pc = "send" /\ Sending.plan = "none"
    /\ \A pc, plan : Run(pc, plan).pc = pc /\ Run(pc, plan).plan = plan
BY DEF Idle, Sending, Run

(* How a run of handleWebhook goes on. *)
RunGoesOn(p) ==
    \/ wh'[p] \in {wh[p], Idle}
    \/ wh[p].pc = "send" /\ wh'[p] \in {Run("mark", "SUCCESS"), Run("mark", "FAILED")}
    \/ wh[p].pc = "send" /\ wh'[p] = Run("mark", "SYSTEM_ERROR")
          /\ (PostTxn(p) \in BadUrl \/ faults' > 0)
    \/ wh[p].pc = "mark" /\ wh'[p] = Run("log", wh[p].plan)
    \/ wh[p].pc = "log" /\ wh'[p] = Run("cache", wh[p].plan)
          /\ audit' = [audit EXCEPT ![PostTxn(p)] = @ \cup {ActionFor(StatusOf(wh[p].plan))}]
    \/ wh[p].pc = "cache" /\ wh'[p] = Run(Settlement(wh[p].plan), wh[p].plan)
    \/ wh[p].pc \in {"mark", "log"} /\ faults' > 0
          /\ wh'[p] = Run(WhenUpdateFails(wh[p].plan), "SYSTEM_ERROR")

(* A step of handleWebhook moves one run on, and none of another delivery. *)
LEMMA OneRunGoesOn ==
    ASSUME TypeOK, [Next]_vars, NEW p \in Post,
           HookStep(p) \/ PostAttempt(p) \/ SendThrows(p) \/ FailUpdate(p)
    PROVE  RunGoesOn(p) /\ \A q \in Post \ {p} : wh'[q] = wh[q]
<1> USE DEF TypeOK, HookGoes, RunGoesOn
<1>1. CASE SendSucceeds(p) \/ SendExhausted(p)
  <2>1. wh[p].pc = "send"
    BY <1>1 DEF SendSucceeds, SendExhausted, CanPost
  <2>2. \/ wh' = [wh EXCEPT ![p] = Run("mark", "SUCCESS")]
        \/ wh' = [wh EXCEPT ![p] = Run("mark", "FAILED")]
    BY <1>1 DEF SendSucceeds, SendExhausted, Verdict
  <2>q. QED BY <2>1, <2>2
<1>2. CASE RefuseUrl(p) \/ SendThrows(p)
  BY <1>2, FaultsGrow DEF RefuseUrl, SendThrows, CanPost
<1>3. CASE MarkResult(p)
  BY <1>3 DEF MarkResult
<1>4. CASE LogResult(p)
  <2>1. wh[p].pc = "log" /\ wh' = [wh EXCEPT ![p] = Run("cache", wh[p].plan)]
    BY <1>4 DEF LogResult
  <2>2. audit' = [audit EXCEPT ![PostTxn(p)] = @ \cup {ActionFor(StatusOf(wh[p].plan))}]
    BY <1>4 DEF LogResult, AddLog
  <2>q. QED BY <2>1, <2>2
<1>5. CASE CacheResult(p)
  BY <1>5 DEF CacheResult
<1>6. CASE FailUpdate(p)
  <2>1. faults' > 0
    BY <1>6, FaultsGrow DEF FailUpdate
  <2>q. QED BY <1>6, <2>1 DEF FailUpdate
<1>7. CASE AckWebhook(p) \/ NackWebhook(p) \/ PostAttempt(p)
  BY <1>7 DEF AckWebhook, NackWebhook, SettleWebhook, PostAttempt
<1>q. QED BY <1>1, <1>2, <1>3, <1>4, <1>5, <1>6, <1>7 DEF HookStep
-----------------------------------------------------------------------------
(* Dead letters have a cause.  The strengthening follows the cause from the
   failing call, or the refused URL, to the nack. *)

ResponseCause == \A d \in Delivery :
                    rh[d] = "nack" => faults > 0 \/ HookTxn(d) \in Stray \/ d[1] \in Malformed
ErrorCause    == \A p \in Post :
                    wh[p].plan = "SYSTEM_ERROR" => faults > 0 \/ PostTxn(p) \in BadUrl
NackIsError   == \A p \in Post : wh[p].pc = "nack" => wh[p].plan = "SYSTEM_ERROR"

CauseInv == ResponseCause /\ ErrorCause /\ NackIsError /\ DeadLetterNeedsCause

(* What a step must respect to keep CauseInv. *)
LEMMA CauseKept ==
    ASSUME TypeOK, CauseInv, [Next]_vars,
           \A d \in Delivery : rh'[d] = "nack" =>
              rh[d] = "nack" \/ faults' > 0 \/ HookTxn(d) \in Stray \/ d[1] \in Malformed,
           \A p \in Post : wh'[p].plan = "SYSTEM_ERROR" =>
              wh[p].plan = "SYSTEM_ERROR" \/ faults' > 0 \/ PostTxn(p) \in BadUrl,
           \A p \in Post : wh'[p].pc = "nack" =>
              wh'[p].plan = "SYSTEM_ERROR",
           \A r \in Response : respAt'[r] = "dlq" =>
              respAt[r] = "dlq" \/ \E d \in Delivery : d[1] = r /\ rh[d] = "nack",
           \A h \in Hook : hookAt'[h] = "dlq" =>
              hookAt[h] = "dlq" \/ \E p \in Post : p[1] = h /\ wh[p].pc = "nack"
    PROVE  CauseInv'
<1>a. faults > 0 => faults' > 0
  BY FaultsGrow
<1>1. ResponseCause'
  BY <1>a DEF CauseInv, ResponseCause
<1>2. ErrorCause'
  BY <1>a DEF CauseInv, ErrorCause
<1>3. NackIsError'
  BY DEF NackIsError
<1>4. \A r \in Response : respAt'[r] = "dlq" =>
         faults' > 0 \/ TxnOf(r) \in Stray \/ r \in Malformed
  BY <1>a, TxnOfIds DEF CauseInv, ResponseCause, DeadLetterNeedsCause
<1>5. \A h \in Hook : hookAt'[h] = "dlq" => faults' > 0 \/ HookTxn(h) \in BadUrl
  <2>1. \A h \in Hook, p \in Post : p[1] = h /\ wh[p].pc = "nack" => faults > 0 \/ HookTxn(h) \in BadUrl
    BY TxnOfIds DEF CauseInv, ErrorCause, NackIsError
  <2>q. QED BY <1>a, <2>1 DEF CauseInv, DeadLetterNeedsCause
<1>6. DeadLetterNeedsCause'
  BY <1>4, <1>5 DEF DeadLetterNeedsCause
<1>q. QED BY <1>1, <1>2, <1>3, <1>6 DEF CauseInv

(* handleResponse throws only for a failing call, an id nobody created or an
   answer without a status: the row of a transaction that was answered is there. *)
LEMMA CauseByResponse ==
    ASSUME FlowInv, CauseInv, [Next]_vars, NEW d \in Delivery,
           RespStep(d) \/ PublishWebhookFails(d) \/ FailResponse(d)
    PROVE  CauseInv'
<1>t. TypeOK /\ NackIsError /\ d[1] \in Response /\ HookTxn(d) \in Txn
  BY TxnOfIds DEF FlowInv, CauseInv
<1>1. UNCHANGED wh
  BY DEF RespStep, FindTransaction, UpdateProcessing, PublishWebhook, AckResponse,
     NackResponse, SettleResponse, PublishWebhookFails, FailResponse
<1>2. \A e \in Delivery : rh'[e] = "nack" =>
         rh[e] = "nack" \/ faults' > 0 \/ HookTxn(e) \in Stray \/ e[1] \in Malformed
  <2>1. CASE FindTransaction(d)
    <3>1. status[HookTxn(d)] = "none" => HookTxn(d) \in Stray
      <4>1. respAt[d[1]] # "none"
        BY <2>1 DEF FindTransaction, RespGoes, FlowInv, OrderInv, AnswerInv, RunOrder
      <4>2. requested[HookTxn(d)] \/ HookTxn(d) \in Stray
        BY <4>1, TxnOfIds DEF FlowInv, OrderInv, AnswerInv, AnswerOrder
      <4>q. QED BY <1>t, <4>2 DEF FlowInv, OrderInv, RequestInv, RequestOrder, Known
    <3>2. AfterFind(status[HookTxn(d)], d[1]) = "nack" =>
             status[HookTxn(d)] = "none" \/ d[1] \in Malformed
      BY DEF AfterFind
    <3>q. QED BY <1>t, <2>1, <3>1, <3>2 DEF FindTransaction, RespGoes, TypeOK
  <2>2. CASE FailResponse(d)
    BY <1>t, <2>2, FaultsGrow DEF FailResponse
  <2>3. CASE ~FindTransaction(d) /\ ~FailResponse(d)
    BY <1>t, <2>3 DEF RespStep, UpdateProcessing, PublishWebhook, AckResponse, NackResponse,
       SettleResponse, PublishWebhookFails, RespGoes, TypeOK
  <2>q. QED BY <2>1, <2>2, <2>3
<1>3. \A r \in Response : respAt'[r] = "dlq" =>
         respAt[r] = "dlq" \/ (r = d[1] /\ rh[d] = "nack")
  BY <1>t DEF RespStep, FindTransaction, UpdateProcessing, PublishWebhook, AckResponse,
     NackResponse, SettleResponse, PublishWebhookFails, FailResponse, RespGoes, broker, TypeOK
<1>4. \A h \in Hook : hookAt'[h] = "dlq" => hookAt[h] = "dlq"
  BY <1>t DEF RespStep, FindTransaction, UpdateProcessing, PublishWebhook, AckResponse,
     NackResponse, SettleResponse, PublishWebhookFails, FailResponse, broker, TypeOK
<1>q. QED BY <1>t, <1>1, <1>2, <1>3, <1>4, CauseKept DEF NackIsError

(* handleWebhook throws only for a failing call or a refused URL. *)
LEMMA CauseByWebhook ==
    ASSUME FlowInv, CauseInv, [Next]_vars, NEW p \in Post,
           HookStep(p) \/ PostAttempt(p) \/ SendThrows(p) \/ FailUpdate(p)
    PROVE  CauseInv'
<1>t. TypeOK /\ NackIsError /\ p[1] \in Hook
  BY TxnOfIds DEF FlowInv, CauseInv
<1>1. UNCHANGED <<rh, respAt>>
  BY DEF HookStep, SendSucceeds, SendExhausted, RefuseUrl, MarkResult, LogResult,
     CacheResult, AckWebhook, NackWebhook, SettleWebhook, PostAttempt, SendThrows,
     FailUpdate, broker
<1>2. RunGoesOn(p) /\ \A q \in Post : q # p => wh'[q] = wh[q]
  BY <1>t, OneRunGoesOn
<1>3. wh'[p].plan = "SYSTEM_ERROR" =>
         wh[p].plan = "SYSTEM_ERROR" \/ faults' > 0 \/ PostTxn(p) \in BadUrl
  BY <1>2, FreshRuns DEF RunGoesOn
<1>4. wh'[p].pc = "nack" => wh'[p].plan = "SYSTEM_ERROR"
  <2>1. Settlement(wh[p].plan) = "nack" => wh[p].plan = "SYSTEM_ERROR"
    BY DEF Settlement
  <2>q. QED BY <1>t, <1>2, <2>1, FreshRuns DEF RunGoesOn, NackIsError
<1>5. \A h \in Hook : hookAt'[h] = "dlq" =>
         hookAt[h] = "dlq" \/ (h = p[1] /\ wh[p].pc = "nack")
  BY <1>t DEF HookStep, SendSucceeds, SendExhausted, RefuseUrl, MarkResult, LogResult,
     CacheResult, AckWebhook, NackWebhook, SettleWebhook, PostAttempt, SendThrows,
     FailUpdate, broker, TypeOK
<1>6. \A q \in Post : wh'[q].pc = "nack" => wh'[q].plan = "SYSTEM_ERROR"
  BY <1>t, <1>2, <1>4 DEF NackIsError
<1>q. QED BY <1>t, <1>1, <1>2, <1>3, <1>5, <1>6, CauseKept

(* A step that nacks nothing, plans nothing and dead-letters nothing. *)
NoNewCause ==
    /\ \A d \in Delivery : rh'[d] = "nack" => rh[d] = "nack"
    /\ \A p \in Post : wh'[p] \in {wh[p], Idle, Sending}
    /\ \A r \in Response : respAt'[r] = "dlq" => respAt[r] = "dlq"
    /\ \A h \in Hook : hookAt'[h] = "dlq" => hookAt[h] = "dlq"

(* Such a step keeps CauseInv. *)
LEMMA CauseUntouched ==
    ASSUME TypeOK, CauseInv, [Next]_vars, NoNewCause
    PROVE  CauseInv'
<1>1. \A p \in Post : /\ wh'[p].plan = "SYSTEM_ERROR" => wh[p].plan = "SYSTEM_ERROR"
                      /\ wh'[p].pc = "nack" => wh'[p].plan = "SYSTEM_ERROR"
  BY FreshRuns DEF NoNewCause, CauseInv, NackIsError
<1>q. QED BY <1>1, CauseKept DEF NoNewCause

(* Every step of the bridge keeps CauseInv. *)
LEMMA CauseStep == FlowInv /\ CauseInv /\ [Next]_vars => CauseInv'
<1> SUFFICES ASSUME FlowInv, CauseInv, [Next]_vars
             PROVE  CauseInv'
  OBVIOUS
<1>t. TypeOK
  BY DEF FlowInv
<1>1. CASE NoNewCause
  BY <1>t, <1>1, CauseUntouched
<1> USE DEF NoNewCause
<1>2. CASE \E t \in Txn : RequestStep(t) \/ FailRequest(t) \/ AcceptUnseen(t)
  <2>1. UNCHANGED <<rh, wh, respAt, hookAt>>
    BY <1>2 DEF RequestStep, Reject, Begin, CreateRow, CreateLog, PublishRequest,
       MarkPublished, LogPublished, FailRequest, AcceptUnseen, broker
  <2>q. QED BY <1>1, <2>1
<1>3. CASE \E r \in Response : Answer(r) \/ DeliverResponse(r)
  <2>1. UNCHANGED <<wh, hookAt>>
    BY <1>3 DEF Answer, DeliverResponse
  <2>2. \A r \in Response : respAt'[r] = "dlq" => respAt[r] = "dlq"
    BY <1>t, <1>3 DEF Answer, DeliverResponse, TypeOK
  <2>3. \A d \in Delivery : rh'[d] = "nack" => rh[d] = "nack"
    BY <1>t, <1>3 DEF Answer, DeliverResponse, TypeOK
  <2>q. QED BY <1>1, <2>1, <2>2, <2>3
<1>4. CASE \E h \in Hook : DeliverWebhook(h)
  <2>1. UNCHANGED <<rh, respAt>>
    BY <1>4 DEF DeliverWebhook
  <2>2. \A h \in Hook : hookAt'[h] = "dlq" => hookAt[h] = "dlq"
    BY <1>t, <1>4 DEF DeliverWebhook, TypeOK
  <2>3. \A p \in Post : wh'[p] = wh[p] \/ wh'[p] = Sending
    BY <1>t, <1>4 DEF DeliverWebhook, HookGoes, TypeOK
  <2>q. QED BY <1>1, <2>1, <2>2, <2>3
<1>5. CASE Drop \/ Crash
  <2>1. /\ \A r \in Response : respAt'[r] = "dlq" => respAt[r] = "dlq"
        /\ \A h \in Hook : hookAt'[h] = "dlq" => hookAt[h] = "dlq"
    BY <1>t, <1>5 DEF Drop, Crash, NewChannel, Requeued, TypeOK
  <2>2. \A d \in Delivery : rh'[d] = "nack" => rh[d] = "nack"
    BY <1>5 DEF Drop, Crash
  <2>3. \A p \in Post : wh'[p] = wh[p] \/ wh'[p] = Idle
    BY <1>5 DEF Drop, Crash
  <2>q. QED BY <1>1, <2>1, <2>2, <2>3
<1>6. CASE Reconnect \/ UNCHANGED vars
  <2>1. UNCHANGED <<rh, wh, respAt, hookAt>>
    BY <1>6 DEF Reconnect, vars, broker
  <2>q. QED BY <1>1, <2>1
<1>q. QED BY <1>2, <1>3, <1>4, <1>5, <1>6, CauseByResponse, CauseByWebhook DEF Next

(* A dead letter means a failing call, an unknown id or a refused URL, however
   often the message was redelivered and the connection lost. *)
THEOREM DeadLettersHaveCause == Spec => []DeadLetterNeedsCause
<1>1. Init => CauseInv
  BY FreshRuns DEF Init, CauseInv, ResponseCause, ErrorCause, NackIsError, DeadLetterNeedsCause
<1>2. CauseInv => DeadLetterNeedsCause
  BY DEF CauseInv
<1>q. QED BY <1>1, <1>2, CauseStep, FlowInvariant, PTL DEF Spec
-----------------------------------------------------------------------------
(* A webhook that left its queue left a conclusion behind.  The strengthening
   says so of the runs that are past the log row of updateStatus. *)

Marked(t) == audit[t] \cap {"MARK_SUCCESS", "MARK_FAILED"} # {}

RunMarked == \A p \in Post :
                wh[p].pc \in {"cache", "ack"} \/ (wh[p].pc = "nack" /\ faults = 0)
                    => Marked(PostTxn(p))

ConcludedInv == RunMarked /\ SettledWebhookConcluded

(* transaction_logs rows are only ever added. *)
LEMMA AuditOnlyGrows ==
    ASSUME TypeOK, [Next]_vars
    PROVE  \A t \in Txn : audit[t] \subseteq audit'[t]
<1> USE DEF TypeOK
<1>1. CASE UNCHANGED audit
  BY <1>1
<1>2. CASE \E t \in Txn, as \in SUBSET Actions : AddLog(t, as)
  BY <1>2 DEF AddLog
<1>3. CASE \E t \in Txn : RequestStep(t) \/ FailRequest(t) \/ AcceptUnseen(t)
  BY <1>1, <1>3 DEF RequestStep, Reject, Begin, CreateRow, CreateLog, PublishRequest,
     MarkPublished, LogPublished, FailRequest, AcceptUnseen, db, AddLog
<1>4. CASE \E d \in Delivery : UpdateProcessing(d)
  BY <1>4 DEF UpdateProcessing, AddLog
<1>5. CASE \E p \in Post : LogResult(p)
  BY <1>5 DEF LogResult, AddLog
<1>6. CASE \/ \E r \in Response : Answer(r) \/ DeliverResponse(r)
           \/ \E d \in Delivery : /\ RespStep(d) \/ PublishWebhookFails(d) \/ FailResponse(d)
                                  /\ ~UpdateProcessing(d)
           \/ \E h \in Hook : DeliverWebhook(h)
  BY <1>1, <1>6 DEF Answer, DeliverResponse, RespStep, FindTransaction, PublishWebhook,
     AckResponse, NackResponse, SettleResponse, PublishWebhookFails, FailResponse,
     DeliverWebhook, db
<1>7. CASE \E p \in Post : /\ HookStep(p) \/ PostAttempt(p) \/ SendThrows(p) \/ FailUpdate(p)
                           /\ ~LogResult(p)
  BY <1>1, <1>7 DEF HookStep, SendSucceeds, SendExhausted, RefuseUrl, MarkResult, CacheResult,
     AckWebhook, NackWebhook, SettleWebhook, PostAttempt, SendThrows, FailUpdate, db
<1>8. CASE Drop \/ Reconnect \/ Crash \/ UNCHANGED vars
  BY <1>1, <1>8 DEF Drop, Reconnect, Crash, vars, db
<1>q. QED BY <1>3, <1>4, <1>5, <1>6, <1>7, <1>8 DEF Next

(* What a step must respect to keep ConcludedInv. *)
LEMMA ConcludedKept ==
    ASSUME TypeOK, ConcludedInv, [Next]_vars,
           \A p \in Post :
              wh'[p].pc \in {"cache", "ack"} \/ (wh'[p].pc = "nack" /\ faults' = 0)
                  => \/ wh[p].pc \in {"cache", "ack"} \/ (wh[p].pc = "nack" /\ faults = 0)
                     \/ Marked(PostTxn(p))',
           \A h \in Hook : hookAt'[h] = "acked" =>
              hookAt[h] = "acked" \/ \E p \in Post : p[1] = h /\ wh[p].pc = "ack",
           \A h \in Hook : hookAt'[h] = "dlq" =>
              hookAt[h] = "dlq" \/ \E p \in Post : p[1] = h /\ wh[p].pc = "nack"
    PROVE  ConcludedInv'
<1>a. \A t \in Txn : Marked(t) => Marked(t)'
  BY AuditOnlyGrows DEF Marked
<1>b. faults' = 0 => faults = 0
  BY FaultsGrow
<1>1. RunMarked'
  BY <1>a, TxnOfIds DEF ConcludedInv, RunMarked
<1>2. \A h \in Hook, p \in Post : p[1] = h /\ (wh[p].pc = "ack" \/ (wh[p].pc = "nack" /\ faults = 0))
         => Marked(HookTxn(h))
  BY TxnOfIds DEF ConcludedInv, RunMarked
<1>3. \A h \in Hook : hookAt[h] = "acked" \/ (hookAt[h] = "dlq" /\ faults = 0) => Marked(HookTxn(h))
  BY DEF ConcludedInv, SettledWebhookConcluded, Marked
<1>4. \A h \in Hook : hookAt'[h] = "acked" \/ (hookAt'[h] = "dlq" /\ faults' = 0) => Marked(HookTxn(h))'
  BY <1>a, <1>b, <1>2, <1>3, TxnOfIds DEF Hook
<1>5. SettledWebhookConcluded'
  BY <1>4 DEF SettledWebhookConcluded, Marked
<1>q. QED BY <1>1, <1>5 DEF ConcludedInv

(* handleWebhook returns, or throws without a failing call, only past the log
   row of its updateStatus. *)
LEMMA ConcludedByWebhook ==
    ASSUME TypeOK, ConcludedInv, [Next]_vars, NEW p \in Post,
           HookStep(p) \/ PostAttempt(p) \/ SendThrows(p) \/ FailUpdate(p)
    PROVE  ConcludedInv'
<1>1. RunGoesOn(p) /\ \A q \in Post : q # p => wh'[q] = wh[q]
  BY OneRunGoesOn
<1>2. faults' = 0 => faults = 0
  BY FaultsGrow
<1>3. wh'[p].pc \in {"cache", "ack"} \/ (wh'[p].pc = "nack" /\ faults' = 0)
          => \/ wh[p].pc \in {"cache", "ack"} \/ (wh[p].pc = "nack" /\ faults = 0)
             \/ Marked(PostTxn(p))'
  <2>1. CASE wh'[p].pc = "cache"
    <3>0. /\ wh[p].pc = "cache" => Settlement(wh[p].plan) # "cache"
          /\ wh[p].pc \in {"mark", "log"} => WhenUpdateFails(wh[p].plan) # "cache"
      BY RunType, DataTypes
    <3>1. \/ wh'[p] = wh[p]
          \/ wh[p].pc = "log" /\ audit' = [audit EXCEPT ![PostTxn(p)] = @ \cup {ActionFor(StatusOf(wh[p].plan))}]
      BY <1>1, <2>1, <3>0, FreshRuns DEF RunGoesOn
    <3>2. wh[p].pc = "log" => ActionFor(StatusOf(wh[p].plan)) \in {"MARK_SUCCESS", "MARK_FAILED"}
      <4>1. wh[p].pc = "log" => StatusOf(wh[p].plan) \in Terminal
        BY RunType, DataTypes
      <4>2. ActionFor("SUCCESS") = "MARK_SUCCESS" /\ ActionFor("FAILED") = "MARK_FAILED"
        BY DEF ActionFor
      <4>q. QED BY <4>1, <4>2 DEF Terminal
    <3>q. QED BY <2>1, <3>1, <3>2, TxnOfIds DEF Marked, TypeOK
  <2>2. CASE wh'[p].pc = "ack"
    BY <1>1, <2>2, FreshRuns, RunType, DataTypes DEF RunGoesOn
  <2>3. CASE wh'[p].pc = "nack" /\ faults' = 0
    BY <1>1, <1>2, <2>3, FreshRuns DEF RunGoesOn
  <2>q. QED BY <2>1, <2>2, <2>3
<1>4. \A h \in Hook : /\ hookAt'[h] = "acked" => hookAt[h] = "acked" \/ (h = p[1] /\ wh[p].pc = "ack")
                      /\ hookAt'[h] = "dlq" => hookAt[h] = "dlq" \/ (h = p[1] /\ wh[p].pc = "nack")
  BY TxnOfIds DEF HookStep, SendSucceeds, SendExhausted, RefuseUrl, MarkResult, LogResult,
     CacheResult, AckWebhook, NackWebhook, SettleWebhook, PostAttempt, SendThrows,
     FailUpdate, broker, TypeOK
<1>5. \A q \in Post :
         wh'[q].pc \in {"cache", "ack"} \/ (wh'[q].pc = "nack" /\ faults' = 0)
             => \/ wh[q].pc \in {"cache", "ack"} \/ (wh[q].pc = "nack" /\ faults = 0)
                \/ Marked(PostTxn(q))'
  BY <1>1, <1>2, <1>3
<1>q. QED BY <1>4, <1>5, ConcludedKept

(* A step that moves no run on and settles no webhook. *)
SettlesNothing ==
    /\ \A p \in Post : wh'[p] \in {wh[p], Idle, Sending}
    /\ \A h \in Hook : /\ hookAt'[h] = "acked" => hookAt[h] = "acked"
                       /\ hookAt'[h] = "dlq" => hookAt[h] = "dlq"

(* Such a step keeps ConcludedInv. *)
LEMMA ConcludedUntouched ==
    ASSUME TypeOK, ConcludedInv, [Next]_vars, SettlesNothing
    PROVE  ConcludedInv'
<1>1. faults' = 0 => faults = 0
  BY FaultsGrow
<1>2. \A p \in Post : wh'[p].pc \in {"cache", "ack", "nack"} => wh'[p].pc = wh[p].pc
  BY FreshRuns DEF SettlesNothing
<1>q. QED BY <1>1, <1>2, ConcludedKept DEF SettlesNothing

(* Every step of the bridge keeps ConcludedInv. *)
LEMMA ConcludedStep == TypeOK /\ ConcludedInv /\ [Next]_vars => ConcludedInv'
<1> SUFFICES ASSUME TypeOK, ConcludedInv, [Next]_vars
             PROVE  ConcludedInv'
  OBVIOUS
<1>1. CASE SettlesNothing
  BY <1>1, ConcludedUntouched
<1> USE DEF SettlesNothing
<1>2. CASE \E t \in Txn : RequestStep(t) \/ FailRequest(t) \/ AcceptUnseen(t)
  <2>1. UNCHANGED <<wh, hookAt>>
    BY <1>2 DEF RequestStep, Reject, Begin, CreateRow, CreateLog, PublishRequest,
       MarkPublished, LogPublished, FailRequest, AcceptUnseen, broker
  <2>q. QED BY <1>1, <2>1
<1>3. CASE \E r \in Response : Answer(r) \/ DeliverResponse(r)
  <2>1. UNCHANGED <<wh, hookAt>>
    BY <1>3 DEF Answer, DeliverResponse
  <2>q. QED BY <1>1, <2>1
<1>4. CASE \E d \in Delivery : RespStep(d) \/ PublishWebhookFails(d) \/ FailResponse(d)
  <2>1. UNCHANGED wh
    BY <1>4 DEF RespStep, FindTransaction, UpdateProcessing, PublishWebhook, AckResponse,
       NackResponse, SettleResponse, PublishWebhookFails, FailResponse
  <2>2. \A h \in Hook : /\ hookAt'[h] = "acked" => hookAt[h] = "acked"
                        /\ hookAt'[h] = "dlq" => hookAt[h] = "dlq"
    BY <1>4 DEF RespStep, FindTransaction, UpdateProcessing, PublishWebhook, AckResponse,
       NackResponse, SettleResponse, PublishWebhookFails, FailResponse, broker, TypeOK
  <2>q. QED BY <1>1, <2>1, <2>2
<1>5. CASE \E h \in Hook : DeliverWebhook(h)
  <2>1. \A h \in Hook : /\ hookAt'[h] = "acked" => hookAt[h] = "acked"
                        /\ hookAt'[h] = "dlq" => hookAt[h] = "dlq"
    BY <1>5 DEF DeliverWebhook, TypeOK
  <2>2. \A p \in Post : wh'[p] = wh[p] \/ wh'[p] = Sending
    BY <1>5 DEF DeliverWebhook, HookGoes, TypeOK
  <2>q. QED BY <1>1, <2>1, <2>2
<1>6. CASE \E p \in Post : HookStep(p) \/ PostAttempt(p) \/ SendThrows(p) \/ FailUpdate(p)
  BY <1>6, ConcludedByWebhook
<1>7. CASE Drop \/ Crash
  <2>1. \A h \in Hook : /\ hookAt'[h] = "acked" => hookAt[h] = "acked"
                        /\ hookAt'[h] = "dlq" => hookAt[h] = "dlq"
    BY <1>7 DEF Drop, Crash, NewChannel, Requeued, TypeOK
  <2>2. \A p \in Post : wh'[p] = wh[p] \/ wh'[p] = Idle
    BY <1>7 DEF Drop, Crash
  <2>q. QED BY <1>1, <2>1, <2>2
<1>8. CASE Reconnect \/ UNCHANGED vars
  <2>1. UNCHANGED <<wh, hookAt>>
    BY <1>8 DEF Reconnect, vars, broker
  <2>q. QED BY <1>1, <2>1
<1>q. QED BY <1>2, <1>3, <1>4, <1>5, <1>6, <1>7, <1>8 DEF Next

(* No webhook message is lost to its queue without a logged conclusion, unless
   a call failed: a crash or a dead channel alone never loses one. *)
THEOREM SettledWebhooksAreConcluded == Spec => []SettledWebhookConcluded
<1>1. Init => ConcludedInv
  BY FreshRuns DEF Init, ConcludedInv, RunMarked, SettledWebhookConcluded
<1>2. ConcludedInv => SettledWebhookConcluded
  BY DEF ConcludedInv
<1>q. QED BY <1>1, <1>2, ConcludedStep, TypeCorrect, PTL DEF Spec
-----------------------------------------------------------------------------
(* A status without its log row needs a writer, a failed call or a restart.
   While the first channel lasts nothing is delivered twice, so that no second
   run takes the place of a writer that has not logged yet. *)

RunUnacked     == \A p \in Post :
                     wh[p].pc # "idle" => Channel(p) = 0 /\ hookAt[p[1]] = "unacked"
RunUnpublished == \A d \in Delivery :
                     rh[d] \in {"find", "update", "publish"} => hookAt[d] = "none"
RunDelivered   == \A d \in Delivery :
                     rh[d] # "idle" => Channel(d) = 0 /\ respAt[d[1]] \notin {"none", "ready"}
NotDelivered   == \A d \in Delivery :
                     Channel(d) = 0 /\ respAt[d[1]] \in {"none", "ready"} => hookAt[d] = "none"

FirstChannel ==
    epoch = 0 => RunUnacked /\ RunUnpublished /\ RunDelivered /\ NotDelivered

(* The first channel, once closed, is not opened again. *)
LEMMA EpochGrows ==
    ASSUME TypeOK, [Next]_vars, epoch' = 0
    PROVE  epoch = 0 /\ ~Drop /\ ~Crash
<1>t. epoch \in Nat
  BY BoundAssumption DEF TypeOK, Epoch
<1>1. CASE Drop \/ Crash
  BY <1>t, <1>1 DEF Drop, Crash, NewChannel
<1>2. CASE epoch' = epoch
  BY <1>t, <1>2, <1>1
<1>3. CASE \E t \in Txn : RequestStep(t) \/ FailRequest(t) \/ AcceptUnseen(t)
  BY <1>2, <1>3 DEF RequestStep, Reject, Begin, CreateRow, CreateLog, PublishRequest,
     MarkPublished, LogPublished, FailRequest, AcceptUnseen, link
<1>4. CASE \/ \E r \in Response : Answer(r) \/ DeliverResponse(r)
           \/ \E d \in Delivery : RespStep(d) \/ PublishWebhookFails(d) \/ FailResponse(d)
           \/ \E h \in Hook : DeliverWebhook(h)
  BY <1>2, <1>4 DEF Answer, DeliverResponse, RespStep, FindTransaction,
     UpdateProcessing, PublishWebhook, AckResponse, NackResponse, SettleResponse,
     PublishWebhookFails, FailResponse, DeliverWebhook, link
<1>5. CASE \E p \in Post : HookStep(p) \/ PostAttempt(p) \/ SendThrows(p) \/ FailUpdate(p)
  BY <1>2, <1>5 DEF HookStep, SendSucceeds, SendExhausted, RefuseUrl, MarkResult,
     LogResult, CacheResult, AckWebhook, NackWebhook, SettleWebhook, PostAttempt, SendThrows,
     FailUpdate, link
<1>6. CASE Reconnect \/ UNCHANGED vars
  BY <1>2, <1>6 DEF Reconnect, vars, link
<1>q. QED BY <1>1, <1>3, <1>4, <1>5, <1>6 DEF Next

(* handleResponse publishes one webhook for a delivery, and then stops. *)
LEMMA FirstChannelByResponse ==
    ASSUME TypeOK, RunUnacked, RunUnpublished, RunDelivered, NotDelivered, [Next]_vars,
           NEW d \in Delivery, RespStep(d) \/ PublishWebhookFails(d) \/ FailResponse(d)
    PROVE  RunUnacked' /\ RunUnpublished' /\ RunDelivered' /\ NotDelivered'
<1>t. d[1] \in Response /\ d \in Hook
  BY TxnOfIds DEF Hook
<1>w. UNCHANGED wh
  BY DEF RespStep, FindTransaction, UpdateProcessing, PublishWebhook, AckResponse,
     NackResponse, SettleResponse, PublishWebhookFails, FailResponse
<1>r. rh[d] # "idle" /\ Channel(d) = 0 /\ respAt[d[1]] \notin {"none", "ready"}
  BY DEF RespStep, FindTransaction, UpdateProcessing, PublishWebhook, AckResponse,
     NackResponse, SettleResponse, PublishWebhookFails, FailResponse, RespGoes, RunDelivered
<1>1. /\ \A e \in Delivery : e # d => rh'[e] = rh[e]
      /\ rh'[d] \in {"find", "update", "publish"} =>
            rh[d] \in {"find", "update", "publish"} /\ hookAt'[d] = hookAt[d]
  <2>1. CASE FindTransaction(d)
    BY <2>1 DEF FindTransaction, RespGoes, broker, TypeOK
  <2>2. CASE UpdateProcessing(d)
    BY <2>2 DEF UpdateProcessing, RespGoes, broker, TypeOK
  <2>3. CASE PublishWebhook(d) \/ PublishWebhookFails(d) \/ FailResponse(d)
    BY <2>3 DEF PublishWebhook, PublishWebhookFails, FailResponse, RespGoes, broker, TypeOK
  <2>4. CASE AckResponse(d) \/ NackResponse(d)
    BY <2>4 DEF AckResponse, NackResponse, SettleResponse, RespGoes, TypeOK
  <2>q. QED BY <2>1, <2>2, <2>3, <2>4 DEF RespStep
<1>2. \A h \in Hook : hookAt'[h] = hookAt[h] \/ (h = d /\ rh[d] = "publish")
  BY <1>t DEF RespStep, FindTransaction, UpdateProcessing, PublishWebhook, AckResponse,
     NackResponse, SettleResponse, PublishWebhookFails, FailResponse, broker, RespGoes, TypeOK
<1>3. \A r \in Response : respAt'[r] = respAt[r] \/ respAt'[r] \in {"acked", "dlq"}
  BY <1>t DEF RespStep, FindTransaction, UpdateProcessing, PublishWebhook, AckResponse,
     NackResponse, SettleResponse, PublishWebhookFails, FailResponse, broker, TypeOK
<1>4. rh[d] = "publish" => hookAt[d] = "none"
  BY DEF RunUnpublished
<1>5. RunUnacked'
  BY <1>w, <1>2, <1>4, TxnOfIds DEF RunUnacked
<1>6. RunUnpublished'
  BY <1>1, <1>2 DEF RunUnpublished, Hook
<1>7. RunDelivered'
  BY <1>r, <1>1, <1>3, TxnOfIds DEF RunDelivered
<1>8. NotDelivered'
  BY <1>r, <1>2, <1>3, TxnOfIds DEF NotDelivered, Hook
<1>q. QED BY <1>5, <1>6, <1>7, <1>8

(* A step of handleWebhook settles its own message only. *)
LEMMA FirstChannelByWebhook ==
    ASSUME TypeOK, RunUnacked, RunUnpublished, RunDelivered, NotDelivered, [Next]_vars,
           NEW p \in Post, HookStep(p) \/ PostAttempt(p) \/ SendThrows(p) \/ FailUpdate(p)
    PROVE  RunUnacked' /\ RunUnpublished' /\ RunDelivered' /\ NotDelivered'
<1>1. UNCHANGED <<rh, respAt>>
  BY DEF HookStep, SendSucceeds, SendExhausted, RefuseUrl, MarkResult, LogResult,
     CacheResult, AckWebhook, NackWebhook, SettleWebhook, PostAttempt, SendThrows,
     FailUpdate, broker
<1>2. wh[p].pc # "idle"
  BY DEF HookStep, SendSucceeds, SendExhausted, RefuseUrl, MarkResult, LogResult,
     CacheResult, AckWebhook, NackWebhook, SettleWebhook, PostAttempt, SendThrows,
     FailUpdate, CanPost
<1>3. \A q \in Post : q # p => wh'[q] = wh[q]
  BY OneRunGoesOn
<1>4. \A h \in Hook : hookAt'[h] = hookAt[h] \/ (h = p[1] /\ wh'[p] = Idle)
  BY DEF HookStep, SendSucceeds, SendExhausted, RefuseUrl, MarkResult, LogResult,
     CacheResult, AckWebhook, NackWebhook, SettleWebhook, PostAttempt, SendThrows,
     FailUpdate, HookGoes, broker, TypeOK
<1>5. p[1] \in Hook /\ hookAt[p[1]] = "unacked" /\ Channel(p) = 0
  BY <1>2, TxnOfIds DEF RunUnacked
<1>6. \A q \in Post : Channel(q) = 0 /\ q[1] = p[1] => q = p
  BY <1>5 DEF Post, Channel
<1>7. RunUnacked'
  <2> SUFFICES ASSUME NEW q \in Post, wh'[q].pc # "idle"
               PROVE  Channel(q) = 0 /\ hookAt'[q[1]] = "unacked"
    BY DEF RunUnacked
  <2>1. CASE q = p
    BY <1>4, <1>5, <2>1, FreshRuns
  <2>2. CASE q # p
    <3>1. Channel(q) = 0 /\ hookAt[q[1]] = "unacked"
      BY <1>3, <2>2 DEF RunUnacked
    <3>q. QED BY <1>4, <1>6, <2>2, <3>1, TxnOfIds
  <2>q. QED BY <2>1, <2>2
<1>8. \A d \in Delivery : hookAt[d] = "none" => hookAt'[d] = "none"
  BY <1>4, <1>5 DEF Hook
<1>9. RunUnpublished' /\ RunDelivered' /\ NotDelivered'
  BY <1>1, <1>8 DEF RunUnpublished, RunDelivered, NotDelivered
<1>q. QED BY <1>7, <1>9

(* Every step of the bridge keeps FirstChannel. *)
LEMMA FirstChannelStep == TypeOK /\ FirstChannel /\ [Next]_vars => FirstChannel'
<1> SUFFICES ASSUME TypeOK, FirstChannel, [Next]_vars, epoch' = 0
             PROVE  RunUnacked' /\ RunUnpublished' /\ RunDelivered' /\ NotDelivered'
  BY DEF FirstChannel
<1>r. epoch = 0 /\ ~Drop /\ ~Crash /\ RunUnacked /\ RunUnpublished /\ RunDelivered /\ NotDelivered
  BY EpochGrows DEF FirstChannel
<1>1. CASE UNCHANGED <<rh, wh, respAt, hookAt>>
  BY <1>r, <1>1 DEF RunUnacked, RunUnpublished, RunDelivered, NotDelivered
<1>2. CASE \/ \E t \in Txn : RequestStep(t) \/ FailRequest(t) \/ AcceptUnseen(t)
           \/ Reconnect \/ UNCHANGED vars
  BY <1>1, <1>2 DEF RequestStep, Reject, Begin, CreateRow, CreateLog, PublishRequest,
     MarkPublished, LogPublished, FailRequest, AcceptUnseen, Reconnect, vars, broker
<1>3. ASSUME NEW r \in Response, Answer(r)
      PROVE  RunUnacked' /\ RunUnpublished' /\ RunDelivered' /\ NotDelivered'
  <2>1. UNCHANGED <<rh, wh, hookAt>> /\ respAt[r] = "none"
    BY <1>3 DEF Answer
  <2>2. \A x \in Response : respAt'[x] = respAt[x] \/ (x = r /\ respAt'[x] = "ready")
    BY <1>3 DEF Answer, TypeOK
  <2>q. QED
    BY <1>r, <2>1, <2>2, TxnOfIds DEF RunUnacked, RunUnpublished, RunDelivered, NotDelivered
<1>4. ASSUME NEW r \in Response, DeliverResponse(r)
      PROVE  RunUnacked' /\ RunUnpublished' /\ RunDelivered' /\ NotDelivered'
  <2>1. UNCHANGED <<wh, hookAt>> /\ respAt[r] = "ready"
    BY <1>4 DEF DeliverResponse
  <2>2. \A x \in Response : respAt'[x] = IF x = r THEN "unacked" ELSE respAt[x]
    BY <1>4 DEF DeliverResponse, TypeOK
  <2>3. \A d \in Delivery : rh'[d] = rh[d] \/ d = <<r, 0>>
    BY <1>r, <1>4 DEF DeliverResponse, TypeOK
  <2>4. <<r, 0>> \in Delivery => hookAt[<<r, 0>>] = "none"
    BY <1>r, <2>1 DEF NotDelivered, Channel
  <2>5. RunUnacked' /\ NotDelivered'
    BY <1>r, <2>1, <2>2, TxnOfIds DEF RunUnacked, NotDelivered
  <2>6. RunUnpublished'
    BY <1>r, <2>1, <2>3, <2>4 DEF RunUnpublished
  <2>7. RunDelivered'
    BY <1>r, <2>2, <2>3, TxnOfIds DEF RunDelivered, Channel
  <2>q. QED BY <2>5, <2>6, <2>7
<1>5. ASSUME NEW h \in Hook, DeliverWebhook(h)
      PROVE  RunUnacked' /\ RunUnpublished' /\ RunDelivered' /\ NotDelivered'
  <2>1. UNCHANGED <<rh, respAt>> /\ hookAt[h] = "ready"
    BY <1>5 DEF DeliverWebhook
  <2>2. \A g \in Hook : hookAt'[g] = IF g = h THEN "unacked" ELSE hookAt[g]
    BY <1>5 DEF DeliverWebhook, TypeOK
  <2>3. \A p \in Post : wh'[p] = wh[p] \/ p = <<h, 0>>
    BY <1>r, <1>5 DEF DeliverWebhook, HookGoes, TypeOK
  <2>4. RunUnacked'
    BY <1>r, <2>2, <2>3, TxnOfIds DEF RunUnacked, Channel
  <2>5. RunUnpublished' /\ RunDelivered' /\ NotDelivered'
    BY <1>r, <2>1, <2>2 DEF RunUnpublished, RunDelivered, NotDelivered, Hook
  <2>q. QED BY <2>4, <2>5
<1>q. QED
  BY <1>r, <1>2, <1>3, <1>4, <1>5, FirstChannelByResponse, FirstChannelByWebhook DEF Next

Written(t) == ActionFor(status[t]) \in audit[t] \/ LogPending(t, status[t])

(* What a step must respect to leave a written status written: each writer
   keeps its place until its log row is there. *)
LEMMA WrittenKept ==
    ASSUME TypeOK, [Next]_vars, NEW t \in Txn, Written(t), status'[t] = status[t],
           req[t] = "createLog" => req'[t] = "createLog" \/ ActionFor("PENDING") \in audit'[t],
           req[t] = "markLog" => req'[t] = "markLog" \/ ActionFor("PUBLISHED") \in audit'[t],
           \A p \in Post : PostTxn(p) = t /\ wh[p].pc = "log" =>
              wh'[p] = wh[p] \/ ActionFor(StatusOf(wh[p].plan)) \in audit'[t]
    PROVE  Written(t)'
<1>a. audit[t] \subseteq audit'[t]
  BY AuditOnlyGrows
<1>1. CASE ActionFor(status[t]) \in audit[t]
  BY <1>a, <1>1 DEF Written
<1>2. CASE status[t] = "PENDING" /\ req[t] = "createLog"
  BY <1>2 DEF Written, LogPending
<1>3. CASE status[t] = "PUBLISHED" /\ req[t] = "markLog"
  BY <1>3 DEF Written, LogPending
<1>4. ASSUME NEW p \in Post, PostTxn(p) = t, wh[p].pc = "log", StatusOf(wh[p].plan) = status[t]
      PROVE  Written(t)'
  BY <1>4 DEF Written, LogPending
<1>q. QED BY <1>1, <1>2, <1>3, <1>4 DEF Written, LogPending

AllWritten == \A t \in Txn : Known(t) => Written(t)

(* No step of an HTTP request leaves a status unwritten behind. *)
LEMMA WrittenByRequest ==
    ASSUME TypeOK, AllWritten, [Next]_vars, faults' = 0, NEW t \in Txn,
           RequestStep(t) \/ FailRequest(t) \/ AcceptUnseen(t)
    PROVE  AllWritten'
<1> SUFFICES ASSUME NEW u \in Txn, Known(u)'
             PROVE  Written(u)'
  BY DEF AllWritten
<1>0. ~Fault
  BY FaultsGrow
<1>1. UNCHANGED wh
  BY DEF RequestStep, Reject, Begin, CreateRow, CreateLog, PublishRequest,
     MarkPublished, LogPublished, FailRequest, AcceptUnseen
<1>2. CASE u # t
  <2>1. status'[u] = status[u] /\ req'[u] = req[u]
    BY <1>2 DEF RequestStep, Reject, Begin, CreateRow, CreateLog, PublishRequest,
       MarkPublished, LogPublished, FailRequest, AcceptUnseen, ReqGoes, SetStatus, db, TypeOK
  <2>q. QED BY <1>1, <2>1, WrittenKept DEF AllWritten, Known
<1>3. CASE u = t /\ (CreateRow(t) \/ MarkPublished(t))
  <2>1. \/ status'[t] = "PENDING" /\ req'[t] = "createLog"
        \/ status'[t] = "PUBLISHED" /\ req'[t] = "markLog"
    BY <1>3 DEF CreateRow, MarkPublished, ReqGoes, SetStatus, TypeOK
  <2>q. QED BY <1>3, <2>1 DEF Written, LogPending
<1>4. CASE u = t /\ ~CreateRow(t) /\ ~MarkPublished(t)
  <2>1. status'[t] = status[t]
    BY <1>4 DEF RequestStep, Reject, Begin, CreateLog, PublishRequest, LogPublished,
       FailRequest, AcceptUnseen, db
  <2>2. req[t] = "createLog" => req'[t] = "createLog" \/ ActionFor("PENDING") \in audit'[t]
    BY <1>0, <1>4 DEF RequestStep, Reject, Begin, CreateLog, PublishRequest, LogPublished,
       FailRequest, AcceptUnseen, ReqGoes, AddLog, TypeOK
  <2>3. req[t] = "markLog" => req'[t] = "markLog" \/ ActionFor("PUBLISHED") \in audit'[t]
    BY <1>0, <1>4 DEF RequestStep, Reject, Begin, CreateLog, PublishRequest, LogPublished,
       FailRequest, AcceptUnseen, ReqGoes, AddLog, TypeOK
  <2>q. QED BY <1>1, <1>4, <2>1, <2>2, <2>3, WrittenKept DEF AllWritten, Known
<1>q. QED BY <1>2, <1>3, <1>4

(* The database transaction of handleResponse writes status and log at once. *)
LEMMA WrittenByResponse ==
    ASSUME TypeOK, AllWritten, [Next]_vars, NEW d \in Delivery,
           RespStep(d) \/ PublishWebhookFails(d) \/ FailResponse(d)
    PROVE  AllWritten'
<1> SUFFICES ASSUME NEW u \in Txn, Known(u)'
             PROVE  Written(u)'
  BY DEF AllWritten
<1>1. UNCHANGED <<req, wh>>
  BY DEF RespStep, FindTransaction, UpdateProcessing, PublishWebhook, AckResponse,
     NackResponse, SettleResponse, PublishWebhookFails, FailResponse
<1>2. CASE UpdateProcessing(d) /\ u = HookTxn(d)
  BY <1>2 DEF UpdateProcessing, SetStatus, AddLog, Written, TypeOK
<1>3. CASE ~(UpdateProcessing(d) /\ u = HookTxn(d))
  <2>1. status'[u] = status[u]
    BY <1>3 DEF RespStep, FindTransaction, UpdateProcessing, PublishWebhook, AckResponse,
       NackResponse, SettleResponse, PublishWebhookFails, FailResponse, SetStatus, db, TypeOK
  <2>q. QED BY <1>1, <2>1, WrittenKept DEF AllWritten, Known
<1>q. QED BY <1>2, <1>3

(* updateStatus of handleWebhook: status, then log row, unless it fails. *)
LEMMA WrittenByWebhook ==
    ASSUME TypeOK, AllWritten, [Next]_vars, faults' = 0, NEW p \in Post,
           HookStep(p) \/ PostAttempt(p) \/ SendThrows(p) \/ FailUpdate(p)
    PROVE  AllWritten'
<1> SUFFICES ASSUME NEW u \in Txn, Known(u)'
             PROVE  Written(u)'
  BY DEF AllWritten
<1>0. ~Fault
  BY FaultsGrow
<1>1. UNCHANGED req
  BY DEF HookStep, SendSucceeds, SendExhausted, RefuseUrl, MarkResult, LogResult,
     CacheResult, AckWebhook, NackWebhook, SettleWebhook, PostAttempt, SendThrows, FailUpdate
<1>2. CASE MarkResult(p) /\ u = PostTxn(p)
  <2>1. status'[u] = StatusOf(wh[p].plan)
    BY <1>2 DEF MarkResult, SetStatus, TypeOK
  <2>2. wh'[p].pc = "log" /\ wh'[p].plan = wh[p].plan
    BY <1>2, FreshRuns DEF MarkResult, HookGoes, TypeOK
  <2>q. QED BY <1>2, <2>1, <2>2 DEF Written, LogPending
<1>3. CASE ~(MarkResult(p) /\ u = PostTxn(p))
  <2>1. status'[u] = status[u]
    BY <1>3 DEF HookStep, SendSucceeds, SendExhausted, RefuseUrl, MarkResult, LogResult,
       CacheResult, AckWebhook, NackWebhook, SettleWebhook, PostAttempt, SendThrows,
       FailUpdate, SetStatus, db, TypeOK
  <2>2. wh[p].pc = "log" => wh'[p] = wh[p] \/ LogResult(p)
    BY <1>0 DEF HookStep, SendSucceeds, SendExhausted, RefuseUrl, MarkResult,
       CacheResult, AckWebhook, NackWebhook, SettleWebhook, PostAttempt, SendThrows,
       FailUpdate, CanPost
  <2>3. LogResult(p) => ActionFor(StatusOf(wh[p].plan)) \in audit'[PostTxn(p)]
    BY TxnOfIds DEF LogResult, AddLog, TypeOK
  <2>4. \A q \in Post \ {p} : wh'[q] = wh[q]
    BY OneRunGoesOn
  <2>q. QED BY <1>1, <2>1, <2>2, <2>3, <2>4, WrittenKept DEF AllWritten, Known
<1>q. QED BY <1>2, <1>3

(* Every step of the bridge keeps AuditGapNeedsDisruption. *)
LEMMA AuditGapStep ==
    TypeOK /\ FirstChannel /\ AuditGapNeedsDisruption /\ [Next]_vars => AuditGapNeedsDisruption'
<1> SUFFICES ASSUME TypeOK, FirstChannel, AuditGapNeedsDisruption, [Next]_vars,
                    faults' = 0, epoch' = 0
             PROVE  AllWritten'
  BY DEF AuditGapNeedsDisruption, AllWritten, Known, Written
<1>r. epoch = 0 /\ ~Drop /\ ~Crash /\ RunUnacked /\ AllWritten
  BY EpochGrows, FaultsGrow DEF FirstChannel, AuditGapNeedsDisruption, AllWritten, Known, Written
<1>1. CASE \/ \E r \in Response : Answer(r) \/ DeliverResponse(r)
           \/ Reconnect \/ UNCHANGED vars
  <2>1. UNCHANGED <<status, req, wh>>
    BY <1>1 DEF Answer, DeliverResponse, Reconnect, vars, db
  <2>q. QED BY <1>r, <2>1, WrittenKept DEF AllWritten, Known
<1>2. ASSUME NEW h \in Hook, DeliverWebhook(h)
      PROVE  AllWritten'
  <2>1. UNCHANGED <<status, req>> /\ hookAt[h] = "ready"
    BY <1>2 DEF DeliverWebhook, db
  <2>2. \A p \in Post : wh'[p] = wh[p] \/ p = <<h, 0>>
    BY <1>r, <1>2 DEF DeliverWebhook, HookGoes, TypeOK
  <2>3. <<h, 0>> \in Post => wh[<<h, 0>>].pc = "idle"
    BY <1>r, <2>1 DEF RunUnacked
  <2>q. QED BY <1>r, <2>1, <2>2, <2>3, WrittenKept DEF AllWritten, Known
<1>q. QED
  BY <1>r, <1>1, <1>2, WrittenByRequest, WrittenByResponse, WrittenByWebhook DEF Next

(* As long as no call fails and nothing is restarted, whatever the order of
   the handlers, a status without its log row has a writer about to add it. *)
THEOREM AuditGapsHaveCause == Spec => []AuditGapNeedsDisruption
<1>1. Init => FirstChannel
  BY FreshRuns DEF Init, FirstChannel, RunUnacked, RunUnpublished, RunDelivered, NotDelivered, Hook
<1>2. Init => AuditGapNeedsDisruption
  BY DEF Init, AuditGapNeedsDisruption
<1>q. QED BY <1>1, <1>2, FirstChannelStep, AuditGapStep, TypeCorrect, PTL DEF Spec
-----------------------------------------------------------------------------
(* An unacknowledged message has its run.  The strengthening says that no run
   is ahead of the channel that is open, and that the webhook of a delivery
   waits to be published until its run does. *)

NoLaterRun == /\ \A d \in Delivery : Channel(d) > epoch => rh[d] = "idle"
              /\ \A p \in Post : Channel(p) > epoch => wh[p].pc = "idle"

ToPublish(d) == \/ rh[d] \in {"find", "update", "publish"}
                \/ Channel(d) > epoch
                \/ Channel(d) = epoch /\ respAt[d[1]] \in {"none", "ready"}
Unpublished  == \A d \in Delivery : ToPublish(d) => hookAt[d] = "none"

HandledInv == NoLaterRun /\ Unpublished /\ UnackedIsHandled

(* A delivery is its message and its channel. *)
LEMMA DeliveredOn ==
    /\ \A d \in Delivery : d = <<d[1], Channel(d)>> /\ Channel(d) \in Nat
    /\ \A p \in Post : p = <<p[1], Channel(p)>> /\ Channel(p) \in Nat
BY BoundAssumption DEF Delivery, Post, Channel, Epoch

(* A run of handleResponse goes on, publishing its webhook once, or settles on
   the channel that is open. *)
LEMMA ResponseRuns ==
    ASSUME TypeOK, NEW d \in Delivery, RespStep(d) \/ PublishWebhookFails(d) \/ FailResponse(d)
    PROVE  /\ rh[d] # "idle" /\ \A e \in Delivery \ {d} : rh'[e] = rh[e]
           /\ rh'[d] \in {"find", "update", "publish"} =>
                 rh[d] \in {"find", "update", "publish"} /\ hookAt' = hookAt
           /\ \/ rh'[d] # "idle" /\ respAt' = respAt
              \/ /\ Channel(d) = epoch /\ rh'[d] = "idle" /\ rh[d] \in {"ack", "nack"}
                 /\ \E at \in {"acked", "dlq"} : respAt' = [respAt EXCEPT ![d[1]] = at]
           /\ \/ hookAt' = hookAt
              \/ rh[d] = "publish" /\ hookAt' = [hookAt EXCEPT ![d] = "ready"]
           /\ UNCHANGED <<wh, epoch>>
<1> USE DEF RespGoes, broker, link, TypeOK
<1>1. CASE FindTransaction(d)
  <2>1. AfterFind(status[HookTxn(d)], d[1]) \in {"update", "ack", "nack"}
    BY TxnOfIds, DataTypes
  <2>q. QED BY <1>1, <2>1 DEF FindTransaction
<1>2. CASE UpdateProcessing(d)
  BY <1>2 DEF UpdateProcessing
<1>3. CASE PublishWebhook(d) \/ PublishWebhookFails(d)
  BY <1>3 DEF PublishWebhook, PublishWebhookFails
<1>4. CASE FailResponse(d)
  BY <1>4 DEF FailResponse
<1>5. CASE AckResponse(d) \/ NackResponse(d)
  BY <1>5 DEF AckResponse, NackResponse, SettleResponse
<1>q. QED BY <1>1, <1>2, <1>3, <1>4, <1>5 DEF RespStep

(* So does a run of handleWebhook. *)
LEMMA WebhookRuns ==
    ASSUME TypeOK, [Next]_vars, NEW p \in Post,
           HookStep(p) \/ PostAttempt(p) \/ SendThrows(p) \/ FailUpdate(p)
    PROVE  /\ wh[p].pc # "idle" /\ \A q \in Post \ {p} : wh'[q] = wh[q]
           /\ \/ wh'[p].pc # "idle" /\ hookAt' = hookAt
              \/ /\ Channel(p) = epoch /\ wh'[p].pc = "idle"
                 /\ \E at \in {"acked", "dlq"} : hookAt' = [hookAt EXCEPT ![p[1]] = at]
           /\ UNCHANGED <<rh, respAt, epoch>>
<1>1. RunGoesOn(p) /\ \A q \in Post \ {p} : wh'[q] = wh[q]
  BY OneRunGoesOn
<1>2. wh[p].pc # "idle" /\ UNCHANGED <<rh, respAt, epoch>>
  BY DEF HookStep, SendSucceeds, SendExhausted, RefuseUrl, MarkResult, LogResult,
     CacheResult, AckWebhook, NackWebhook, SettleWebhook, PostAttempt, SendThrows,
     FailUpdate, CanPost, broker, link
<1>3. CASE AckWebhook(p) \/ NackWebhook(p)
  BY <1>1, <1>2, <1>3, FreshRuns DEF AckWebhook, NackWebhook, SettleWebhook, HookGoes, TypeOK
<1>4. CASE ~AckWebhook(p) /\ ~NackWebhook(p)
  <2>1. hookAt' = hookAt
    BY <1>4 DEF HookStep, SendSucceeds, SendExhausted, RefuseUrl, MarkResult, LogResult,
       CacheResult, PostAttempt, SendThrows, FailUpdate, broker
  <2>2. wh'[p] # Idle
    <3>1. CASE PostAttempt(p)
      BY <1>2, <3>1, FreshRuns DEF PostAttempt
    <3>2. CASE SendSucceeds(p) \/ SendExhausted(p) \/ RefuseUrl(p) \/ SendThrows(p)
      <4>1. \E o \in {Verdict(TRUE), Verdict(FALSE), "SYSTEM_ERROR"} : wh'[p] = Run("mark", o)
        BY <3>2 DEF SendSucceeds, SendExhausted, RefuseUrl, SendThrows, HookGoes, TypeOK
      <4>q. QED BY <4>1, FreshRuns
    <3>3. CASE MarkResult(p) \/ LogResult(p)
      BY <3>3, FreshRuns DEF MarkResult, LogResult, HookGoes, TypeOK
    <3>4. CASE CacheResult(p) \/ FailUpdate(p)
      <4>1. wh[p].plan \in Outcome
        BY <3>4, RunType DEF CacheResult, FailUpdate
      <4>2. /\ Settlement(wh[p].plan) # "idle"
            /\ WhenUpdateFails(wh[p].plan) # "idle"
        BY <4>1, DataTypes
      <4>q. QED BY <3>4, <4>2, FreshRuns DEF CacheResult, FailUpdate, HookGoes, TypeOK
    <3>q. QED BY <1>4, <3>1, <3>2, <3>3, <3>4 DEF HookStep
  <2>3. wh'[p].pc # "idle"
    <3>1. wh'[p] \in HookRun
      BY TypeStep DEF TypeOK
    <3>q. QED BY <2>2, <3>1 DEF HookRun, Idle, Sending, Run
  <2>q. QED BY <1>1, <1>2, <2>1, <2>3
<1>q. QED BY <1>3, <1>4

(* A response settles on the channel that delivered it, and has published its
   webhook, if any, into a queue that had none of this delivery. *)
LEMMA HandledByResponse ==
    ASSUME TypeOK, HandledInv, [Next]_vars, NEW d \in Delivery,
           RespStep(d) \/ PublishWebhookFails(d) \/ FailResponse(d)
    PROVE  HandledInv'
<1>t. d[1] \in Response /\ d \in Hook /\ epoch \in Nat /\ d = <<d[1], Channel(d)>>
  BY TxnOfIds, DeliveredOn, BoundAssumption DEF Hook, TypeOK, Epoch
<1>r. /\ rh[d] # "idle" /\ \A e \in Delivery \ {d} : rh'[e] = rh[e]
      /\ UNCHANGED <<wh, epoch>>
  BY ResponseRuns
<1>1. Channel(d) <= epoch /\ (Channel(d) = epoch => respAt[d[1]] = "unacked")
  BY <1>t, <1>r, DeliveredOn DEF HandledInv, NoLaterRun, UnackedIsHandled
<1>2. \A h \in Hook : \/ hookAt'[h] = hookAt[h]
                      \/ h = d /\ rh[d] = "publish" /\ hookAt'[h] = "ready"
  BY ResponseRuns DEF TypeOK
<1>3. rh[d] = "publish" => hookAt[d] = "none"
  BY DEF HandledInv, Unpublished, ToPublish
<1>4. \A r \in Response : \/ respAt'[r] = respAt[r] /\ (r = d[1] => rh'[d] # "idle")
                          \/ /\ r = d[1] /\ Channel(d) = epoch /\ rh'[d] = "idle"
                             /\ respAt'[r] \in {"acked", "dlq"}
  BY <1>t, ResponseRuns DEF TypeOK
<1>5. NoLaterRun'
  BY <1>t, <1>r, <1>1 DEF HandledInv, NoLaterRun
<1>6. Unpublished'
  <2> SUFFICES ASSUME NEW e \in Delivery,
                      \/ rh'[e] \in {"find", "update", "publish"}
                      \/ Channel(e) > epoch
                      \/ Channel(e) = epoch /\ respAt'[e[1]] \in {"none", "ready"}
               PROVE  hookAt'[e] = "none"
    BY <1>r DEF Unpublished, ToPublish
  <2>1. CASE e # d
    BY <1>r, <1>2, <1>4, <2>1, TxnOfIds DEF HandledInv, Unpublished, ToPublish, Hook
  <2>2. CASE e = d /\ rh'[d] \in {"find", "update", "publish"}
    BY <2>2, ResponseRuns DEF HandledInv, Unpublished, ToPublish
  <2>3. CASE e = d /\ rh'[d] \notin {"find", "update", "publish"}
    BY <1>t, <1>1, <1>4, <2>3, DeliveredOn
  <2>q. QED BY <2>1, <2>2, <2>3
<1>7. UnackedIsHandled'
  <2>1. ASSUME NEW r \in Response
        PROVE  respAt'[r] = "unacked" <=> rh'[<<r, epoch>>] # "idle"
    <3>1. <<r, epoch>> \in Delivery
      BY TxnOfIds DEF TypeOK
    <3>2. CASE <<r, epoch>> # d
      <4>1. respAt'[r] = respAt[r]
        BY <1>t, <1>4, <3>2
      <4>q. QED BY <1>r, <3>1, <3>2, <4>1 DEF HandledInv, UnackedIsHandled
    <3>3. CASE <<r, epoch>> = d
      <4>1. r = d[1] /\ Channel(d) = epoch
        BY <3>3 DEF Channel
      <4>q. QED BY <1>1, <1>4, <3>3, <4>1
    <3>q. QED BY <3>2, <3>3
  <2>2. \A h \in Hook : hookAt'[h] = "unacked" <=> wh'[<<h, epoch>>].pc # "idle"
    BY <1>r, <1>2, <1>3 DEF HandledInv, UnackedIsHandled
  <2>q. QED BY <1>r, <2>1, <2>2 DEF UnackedIsHandled
<1>q. QED BY <1>5, <1>6, <1>7 DEF HandledInv

(* A webhook settles on the channel that delivered it. *)
LEMMA HandledByWebhook ==
    ASSUME TypeOK, HandledInv, [Next]_vars, NEW p \in Post,
           HookStep(p) \/ PostAttempt(p) \/ SendThrows(p) \/ FailUpdate(p)
    PROVE  HandledInv'
<1>t. p[1] \in Hook /\ epoch \in Nat /\ p = <<p[1], Channel(p)>>
  BY TxnOfIds, DeliveredOn, BoundAssumption DEF TypeOK, Epoch
<1>r. /\ wh[p].pc # "idle" /\ \A q \in Post \ {p} : wh'[q] = wh[q]
      /\ UNCHANGED <<rh, respAt, epoch>>
  BY WebhookRuns
<1>1. Channel(p) <= epoch /\ (Channel(p) = epoch => hookAt[p[1]] = "unacked")
  BY <1>t, <1>r, DeliveredOn DEF HandledInv, NoLaterRun, UnackedIsHandled
<1>2. \A h \in Hook : \/ hookAt'[h] = hookAt[h] /\ (h = p[1] => wh'[p].pc # "idle")
                      \/ /\ h = p[1] /\ Channel(p) = epoch /\ wh'[p].pc = "idle"
                         /\ hookAt'[h] \in {"acked", "dlq"}
  BY <1>t, WebhookRuns DEF TypeOK
<1>3. NoLaterRun'
  BY <1>t, <1>r, <1>1 DEF HandledInv, NoLaterRun
<1>4. Unpublished'
  BY <1>r, <1>1, <1>2 DEF HandledInv, Unpublished, ToPublish, Hook
<1>5. ASSUME NEW h \in Hook
      PROVE  hookAt'[h] = "unacked" <=> wh'[<<h, epoch>>].pc # "idle"
  <2>1. <<h, epoch>> \in Post
    BY TxnOfIds DEF TypeOK
  <2>2. CASE <<h, epoch>> # p
    <3>1. hookAt'[h] = hookAt[h]
      BY <1>t, <1>2, <2>2
    <3>q. QED BY <1>r, <2>1, <2>2, <3>1 DEF HandledInv, UnackedIsHandled
  <2>3. CASE <<h, epoch>> = p
    <3>1. h = p[1] /\ Channel(p) = epoch
      BY <2>3 DEF Channel
    <3>q. QED BY <1>1, <1>2, <2>3, <3>1
  <2>q. QED BY <2>2, <2>3
<1>6. UnackedIsHandled'
  BY <1>r, <1>5 DEF HandledInv, UnackedIsHandled
<1>q. QED BY <1>3, <1>4, <1>6 DEF HandledInv

(* A new channel has no run and no unacknowledged message. *)
LEMMA HandledByNewChannel ==
    ASSUME TypeOK, HandledInv, Drop \/ Crash
    PROVE  HandledInv'
<1>1. /\ epoch \in Nat /\ epoch' = epoch + 1 /\ epoch' \in Epoch
      /\ \A d \in Delivery : rh'[d] \in {rh[d], "idle"}
      /\ \A p \in Post : wh'[p] \in {wh[p], Idle}
  BY BoundAssumption DEF Drop, Crash, NewChannel, TypeOK, Epoch
<1>2. /\ \A r \in Response : respAt'[r] # "unacked"
      /\ \A h \in Hook : hookAt'[h] # "unacked" /\ (hookAt[h] = "none" => hookAt'[h] = "none")
  BY DEF Drop, Crash, NewChannel, Requeued, TypeOK
<1>3. NoLaterRun'
  BY <1>1, DeliveredOn, FreshRuns DEF HandledInv, NoLaterRun
<1>4. Unpublished'
  <2>1. \A d \in Delivery : /\ Channel(d) \in Nat
                            /\ Channel(d) > epoch' \/ Channel(d) = epoch' => Channel(d) > epoch
    BY <1>1, DeliveredOn
  <2>2. \A d \in Delivery : rh'[d] \in {"find", "update", "publish"} => rh'[d] = rh[d]
    BY <1>1
  <2>q. QED BY <1>2, <2>1, <2>2 DEF HandledInv, Unpublished, ToPublish, Hook
<1>5. /\ \A r \in Response : rh[<<r, epoch'>>] = "idle" /\ <<r, epoch'>> \in Delivery
      /\ \A h \in Hook : wh[<<h, epoch'>>].pc = "idle" /\ <<h, epoch'>> \in Post
  BY <1>1, TxnOfIds DEF HandledInv, NoLaterRun, Channel
<1>6. UnackedIsHandled'
  BY <1>1, <1>2, <1>5, FreshRuns DEF UnackedIsHandled
<1>q. QED BY <1>3, <1>4, <1>6 DEF HandledInv

(* Every step of the bridge keeps HandledInv. *)
LEMMA HandledStep == TypeOK /\ HandledInv /\ [Next]_vars => HandledInv'
<1> SUFFICES ASSUME TypeOK, HandledInv, [Next]_vars
             PROVE  HandledInv'
  OBVIOUS
<1>e. epoch \in Epoch
  BY DEF TypeOK
<1> USE DEF HandledInv, NoLaterRun, Unpublished, ToPublish, UnackedIsHandled
<1>1. CASE UNCHANGED <<rh, wh, respAt, hookAt, epoch>>
  BY <1>1
<1>2. CASE \/ \E t \in Txn : RequestStep(t) \/ FailRequest(t) \/ AcceptUnseen(t)
           \/ Reconnect \/ UNCHANGED vars
  BY <1>1, <1>2 DEF RequestStep, Reject, Begin, CreateRow, CreateLog, PublishRequest,
     MarkPublished, LogPublished, FailRequest, AcceptUnseen, Reconnect, vars, broker, link
<1>3. ASSUME NEW r \in Response, Answer(r)
      PROVE  HandledInv'
  <2>1. /\ UNCHANGED <<rh, wh, hookAt, epoch>> /\ respAt[r] = "none"
        /\ \A x \in Response : respAt'[x] = IF x = r THEN "ready" ELSE respAt[x]
    BY <1>3 DEF Answer, link, TypeOK
  <2>2. \A x \in Response : /\ respAt'[x] = "unacked" <=> respAt[x] = "unacked"
                            /\ respAt'[x] \in {"none", "ready"} => respAt[x] \in {"none", "ready"}
    BY <2>1
  <2>q. QED BY <2>1, <2>2, TxnOfIds
<1>4. ASSUME NEW r \in Response, DeliverResponse(r)
      PROVE  HandledInv'
  <2>1. /\ UNCHANGED <<wh, hookAt, epoch>> /\ respAt[r] = "ready"
        /\ \A x \in Response : respAt'[x] = IF x = r THEN "unacked" ELSE respAt[x]
        /\ \A d \in Delivery : rh'[d] = IF d = <<r, epoch>> THEN "find" ELSE rh[d]
    BY <1>4 DEF DeliverResponse, link, TypeOK
  <2>2. hookAt[<<r, epoch>>] = "none" /\ <<r, epoch>> \in Delivery /\ ~(epoch > epoch)
    BY <1>e, <2>1, TxnOfIds, BoundAssumption DEF Channel, Epoch
  <2>3. NoLaterRun'
    BY <2>1, <2>2 DEF Channel
  <2>4. Unpublished'
    BY <2>1, <2>2, TxnOfIds
  <2>5. \A x \in Response : respAt'[x] = "unacked" <=> rh'[<<x, epoch>>] # "idle"
    BY <1>e, <2>1, TxnOfIds
  <2>q. QED BY <2>1, <2>3, <2>4, <2>5
<1>5. ASSUME NEW h \in Hook, DeliverWebhook(h)
      PROVE  HandledInv'
  <2>1. /\ UNCHANGED <<rh, respAt, epoch>> /\ hookAt[h] = "ready"
        /\ \A g \in Hook : hookAt'[g] = IF g = h THEN "unacked" ELSE hookAt[g]
        /\ \A p \in Post : wh'[p] = IF p = <<h, epoch>> THEN Sending ELSE wh[p]
    BY <1>5 DEF DeliverWebhook, HookGoes, link, TypeOK
  <2>2. ~(epoch > epoch)
    BY <1>e, BoundAssumption DEF Epoch
  <2>3. NoLaterRun'
    BY <2>1, <2>2 DEF Channel
  <2>4. Unpublished'
    BY <2>1 DEF Hook
  <2>5. \A g \in Hook : hookAt'[g] = "unacked" <=> wh'[<<g, epoch>>].pc # "idle"
    BY <1>e, <2>1, TxnOfIds, FreshRuns
  <2>q. QED BY <2>1, <2>3, <2>4, <2>5
<1>q. QED
  BY <1>2, <1>3, <1>4, <1>5, HandledByResponse, HandledByWebhook, HandledByNewChannel DEF Next

(* An unacknowledged message is the one its run will settle, however often the
   connection drops, handlers outlive their channel and the process dies. *)
THEOREM UnackedMessagesAreHandled == Spec => []UnackedIsHandled
<1>1. Init => HandledInv
  BY FreshRuns, TxnOfIds, BoundAssumption DEF Init, HandledInv, NoLaterRun, Unpublished, ToPublish,
     UnackedIsHandled, Epoch, Hook
<1>2. HandledInv => UnackedIsHandled
  BY DEF HandledInv
<1>q. QED BY <1>1, <1>2, HandledStep, TypeCorrect, PTL DEF Spec
=============================================================================
