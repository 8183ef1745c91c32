-------------------------- MODULE TransactionFlow --------------------------
(***************************************************************************)
(* The life of a transaction through the bridge: the HTTP request that     *)
(* records and publishes it (CheckinService, CheckimageService), the       *)
(* processor's response (AccessResponseConsumer), the webhook to HST       *)
(* (WebhookConsumer) and the acknowledgements of AmqpService, over a       *)
(* RabbitMQ connection that drops and a Node process that crashes.         *)
(*                                                                         *)
(* Every step is what runs between two awaits.  Nothing sets a prefetch    *)
(* limit, so the handlers of all delivered messages interleave.  What      *)
(* WebhookService.send does inside one call is module WebhookDelivery;     *)
(* here a call shows what it may have done to HST and how it ends.         *)
(***************************************************************************)
EXTENDS Naturals

CONSTANTS
    Txn,            \* the transactions (uuids) that may ever be created
    Stray,          \* ids the bridge never creates, answered all the same
    Malformed,      \* responses that carry no status
    BadUrl,         \* transactions whose webhook URL is refused by send
    MaxResponses,   \* responses the processor may send for one id
    MaxEpoch,       \* channels that may be opened after the first one
    MaxFaults       \* database or publish calls that may fail

ASSUME StrayAssumption  == Stray \subseteq Txn
ASSUME BadUrlAssumption == BadUrl \subseteq Txn
ASSUME BoundAssumption  ==
    MaxResponses \in Nat /\ MaxEpoch \in Nat /\ MaxFaults \in Nat

Epoch    == 0..MaxEpoch
Response == Txn \X (1..MaxResponses)    \* messages of q.access_response.*
Delivery == Response \X Epoch           \* a response delivered on a channel
Hook     == Delivery                    \* messages of q.webhook.*: a run of
                                        \* handleResponse publishes one at most
Post     == Hook \X Epoch               \* a webhook delivered on a channel

ASSUME MalformedAssumption == Malformed \subseteq Response

TxnOf(r)     == r[1]
HookTxn(h)   == h[1][1]
PostTxn(p)   == p[1][1][1]
Channel(x)   == x[2]                    \* of a Delivery or a Post

VARIABLES
    status,     \* transactions.status, "none" while there is no row
    audit,      \* the actions of the transaction's transaction_logs rows
    cached,     \* the status kept in Redis under txn:<id>
    requested,  \* the access request reached its queue
    req,        \* the HTTP request that creates the transaction
    respAt,     \* where RabbitMQ has each response
    hookAt,     \* where RabbitMQ has each webhook message
    rh,         \* the run of handleResponse for each delivery
    wh,         \* the run of handleWebhook for each delivery
    posted,     \* a webhook of the transaction has been sent to HST
    accepted,   \* HST has accepted one (answered it with 2xx)
    connected,  \* AmqpService.isConnected
    epoch,      \* the channel that is open, or was last
    faults      \* calls that have failed so far

db      == <<status, audit, cached>>
broker  == <<requested, respAt, hookAt>>
hst     == <<posted, accepted>>
link    == <<connected, epoch>>
vars    == <<db, broker, hst, link, req, rh, wh, faults>>

-----------------------------------------------------------------------------
(* Data. *)

Statuses == {"PENDING", "PUBLISHED", "PROCESSING", "SUCCESS", "FAILED"}
Terminal == {"SUCCESS", "FAILED"}
Actions  == {"CREATE_TRANSACTION", "PUBLISH_TO_QUEUE", "MARK_PROCESSING",
             "SENT_WEBHOOK", "MARK_SUCCESS", "MARK_FAILED"}
Place    == {"none", "ready", "unacked", "acked", "dlq"}

ReqStage  == {"idle", "create", "createLog", "publish", "mark", "markLog",
              "accepted", "error", "unavailable", "lost"}
InFlight  == {"create", "createLog", "publish", "mark", "markLog"}
RespStage == {"idle", "find", "update", "publish", "ack", "nack"}

(* A run of handleWebhook: before its send ends it has no outcome to write. *)
Outcome       == {"SUCCESS", "FAILED", "SYSTEM_ERROR"}
Run(pc, plan) == [pc |-> pc, plan |-> plan]
Idle          == Run("idle", "none")
Sending       == Run("send", "none")
HookRun       == {Idle, Sending}
                     \cup [pc : {"mark", "log", "cache", "ack", "nack"}, plan : Outcome]

(* getActionForStatus. *)
ActionForNoFailed(s) ==      \* slip: the FAILED case forgotten
    CASE s = "PENDING"    -> "CREATE_TRANSACTION"
      [] s = "PUBLISHED"  -> "PUBLISH_TO_QUEUE"
      [] s = "PROCESSING" -> "MARK_PROCESSING"
      [] s = "SUCCESS"    -> "MARK_SUCCESS"
      [] OTHER            -> "UPDATE_FAILED"
ActionFor(s) ==
    CASE s = "PENDING"    -> "CREATE_TRANSACTION"
      [] s = "PUBLISHED"  -> "PUBLISH_TO_QUEUE"
      [] s = "PROCESSING" -> "MARK_PROCESSING"
      [] s = "SUCCESS"    -> "MARK_SUCCESS"
      [] s = "FAILED"     -> "MARK_FAILED"

(* The duplicate check of handleResponse. *)
AlreadyProcessedNoFailed(s)    == s = "SUCCESS"                   \* slip
AlreadyProcessedProcessing(s)  == s \in Terminal \cup {"PROCESSING"} \* slip
AlreadyProcessed(s)            == s \in Terminal

(* Where a run of handleResponse for response r goes once it has read the
   row: the status of the response is read last, and throws if it is missing. *)
AfterFindQuiet(s, r) ==      \* slip: a missing row returns instead of throwing
    IF s = "none" \/ AlreadyProcessed(s) THEN "ack" ELSE "update"
AfterFindLoud(s, r) ==       \* slip: a duplicate throws instead of returning
    IF s = "none" \/ AlreadyProcessed(s) \/ r \in Malformed THEN "nack" ELSE "update"
AfterFind(s, r) ==
    CASE s = "none"          -> "nack"
      [] AlreadyProcessed(s) -> "ack"
      [] OTHER               -> IF r \in Malformed THEN "nack" ELSE "update"

(* The status that handleWebhook writes for the result of send. *)
VerdictInverted(success) == IF success THEN "FAILED" ELSE "SUCCESS" \* slip
Verdict(success)         == IF success THEN "SUCCESS" ELSE "FAILED"

(* The status that a run writes: SYSTEM_ERROR is an error code of FAILED. *)
StatusOf(plan) == IF plan = "SYSTEM_ERROR" THEN "FAILED" ELSE plan

(* The step after a failing updateStatus: the catch block writes again, and
   a failure inside the catch block leaves by throwing. *)
WhenUpdateFailsQuietly(plan) ==   \* slip: the second failure only logged
    IF plan = "SYSTEM_ERROR" THEN "cache" ELSE "mark"
WhenUpdateFails(plan) == IF plan = "SYSTEM_ERROR" THEN "nack" ELSE "mark"

(* ack after a normal return, nack after the rethrow of the catch block. *)
Settlement(plan) == IF plan = "SYSTEM_ERROR" THEN "nack" ELSE "ack"

(* A closed channel gives its unacknowledged messages back to their queue. *)
RequeuedNoAck(at) ==         \* slip: consumers registered with noAck: true
    [m \in DOMAIN at |-> IF at[m] = "unacked" THEN "acked" ELSE at[m]]
Requeued(at) == [m \in DOMAIN at |->
                    IF at[m] = "unacked" THEN "ready" ELSE at[m]]
-----------------------------------------------------------------------------
Init ==
    /\ status    = [t \in Txn |-> "none"]
    /\ audit     = [t \in Txn |-> {}]
    /\ cached    = [t \in Txn |-> "none"]
    /\ requested = [t \in Txn |-> FALSE]
    /\ req       = [t \in Txn |-> "idle"]
    /\ respAt    = [r \in Response |-> "none"]
    /\ hookAt    = [h \in Hook |-> "none"]
    /\ rh        = [d \in Delivery |-> "idle"]
    /\ wh        = [p \in Post |-> Idle]
    /\ posted    = [t \in Txn |-> FALSE]
    /\ accepted  = [t \in Txn |-> FALSE]
    /\ connected = TRUE
    /\ epoch     = 0
    /\ faults    = 0

SetStatus(t, s) == status' = [status EXCEPT ![t] = s]
AddLog(t, as)   == audit' = [audit EXCEPT ![t] = @ \cup as]
Fault           == faults < MaxFaults /\ faults' = faults + 1
-----------------------------------------------------------------------------
(* The HTTP request: createCheckin and createCheckimage. *)

ReqGoes(t, from, to) == req[t] = from /\ req' = [req EXCEPT ![t] = to]

(* isReady is false: 503, nothing recorded. *)
Reject(t) ==
    /\ ~connected
    /\ t \notin Stray
    /\ ReqGoes(t, "idle", "unavailable")
    /\ UNCHANGED <<db, broker, link, rh, wh, hst, faults>>

BeginUnrecorded(t) ==        \* slip: published before the row is created
    /\ connected
    /\ t \notin Stray
    /\ ReqGoes(t, "idle", "publish")
    /\ UNCHANGED <<db, broker, link, rh, wh, hst, faults>>
Begin(t) ==
    /\ connected
    /\ t \notin Stray
    /\ ReqGoes(t, "idle", "create")
    /\ UNCHANGED <<db, broker, link, rh, wh, hst, faults>>

CreateRow(t) ==
    /\ ReqGoes(t, "create", "createLog")
    /\ SetStatus(t, "PENDING")
    /\ UNCHANGED <<audit, cached, broker, link, rh, wh, hst, faults>>

CreateLog(t) ==
    /\ ReqGoes(t, "createLog", "publish")
    /\ AddLog(t, {ActionFor("PENDING")})
    /\ UNCHANGED <<status, cached, broker, link, rh, wh, hst, faults>>

(* sendToQueue resolves with the broker's confirm: while the connection is
   down the message waits in the channel wrapper's buffer. *)
PublishRequest(t) ==
    /\ connected
    /\ ReqGoes(t, "publish", "mark")
    /\ requested' = [requested EXCEPT ![t] = TRUE]
    /\ UNCHANGED <<db, respAt, hookAt, link, rh, wh, hst, faults>>

(* updateStatus(PUBLISHED) does not look at the status it replaces. *)
MarkPublishedUnlogged(t) ==  \* slip: the row is updated without a log row
    /\ ReqGoes(t, "mark", "accepted")
    /\ SetStatus(t, "PUBLISHED")
    /\ UNCHANGED <<audit, cached, broker, link, rh, wh, hst, faults>>
MarkPublished(t) ==
    /\ ReqGoes(t, "mark", "markLog")
    /\ SetStatus(t, "PUBLISHED")
    /\ UNCHANGED <<audit, cached, broker, link, rh, wh, hst, faults>>

LogPublished(t) ==
    /\ ReqGoes(t, "markLog", "accepted")
    /\ AddLog(t, {ActionFor("PUBLISHED")})
    /\ UNCHANGED <<status, cached, broker, link, rh, wh, hst, faults>>

(* Any of the awaited calls throws: HTTP 500, what was written stays. *)
FailRequest(t) ==
    /\ req[t] \in InFlight
    /\ Fault
    /\ req' = [req EXCEPT ![t] = "error"]
    /\ UNCHANGED <<db, broker, link, rh, wh, hst>>

RequestStep(t) ==
    \/ Reject(t) \/ Begin(t) \/ CreateRow(t) \/ CreateLog(t)
    \/ PublishRequest(t) \/ MarkPublished(t) \/ LogPublished(t)
-----------------------------------------------------------------------------
(* The processor (external): it answers a request it has received, maybe
   more than once, and it may name an id the bridge does not know. *)
Answer(r) ==
    /\ respAt[r] = "none"
    /\ requested[TxnOf(r)] \/ TxnOf(r) \in Stray
    /\ r[2] > 1 => respAt[<<TxnOf(r), r[2] - 1>>] # "none"
    /\ respAt' = [respAt EXCEPT ![r] = "ready"]
    /\ UNCHANGED <<db, requested, hookAt, link, req, rh, wh, hst, faults>>
-----------------------------------------------------------------------------
(* AccessResponseConsumer and processAccessResponseMessage. *)

RespGoes(d, from, to) == rh[d] = from /\ rh' = [rh EXCEPT ![d] = to]

DeliverResponse(r) ==
    /\ connected
    /\ respAt[r] = "ready"
    /\ respAt' = [respAt EXCEPT ![r] = "unacked"]
    /\ rh' = [rh EXCEPT ![<<r, epoch>>] = "find"]
    /\ UNCHANGED <<db, requested, hookAt, link, req, wh, hst, faults>>

(* findById and the checks on the row as it is now. *)
FindTransaction(d) ==
    /\ RespGoes(d, "find", AfterFind(status[HookTxn(d)], d[1]))
    /\ UNCHANGED <<db, broker, link, req, wh, hst, faults>>

(* One database transaction: the status and both log rows. *)
UpdateProcessing(d) ==
    /\ RespGoes(d, "update", "publish")
    /\ SetStatus(HookTxn(d), "PROCESSING")
    /\ AddLog(HookTxn(d), {ActionFor("PROCESSING"), "SENT_WEBHOOK"})
    /\ UNCHANGED <<cached, broker, link, req, wh, hst, faults>>

PublishWebhook(d) ==
    /\ connected
    /\ RespGoes(d, "publish", "ack")
    /\ hookAt' = [hookAt EXCEPT ![d] = "ready"]
    /\ UNCHANGED <<db, requested, respAt, link, req, wh, hst, faults>>

(* The inner catch logs the failure and lets the handler return. *)
PublishWebhookFails(d) ==
    /\ RespGoes(d, "publish", "ack")
    /\ Fault
    /\ UNCHANGED <<db, broker, link, req, wh, hst>>

(* findById or the database transaction throws: the handler rethrows. *)
FailResponse(d) ==
    /\ rh[d] \in {"find", "update"}
    /\ Fault
    /\ rh' = [rh EXCEPT ![d] = "nack"]
    /\ UNCHANGED <<db, broker, link, req, wh, hst>>

(* ack, or nack without requeue, on the channel that delivered. *)
SettleResponse(d, pc, at) ==
    /\ connected
    /\ Channel(d) = epoch
    /\ RespGoes(d, pc, "idle")
    /\ respAt' = [respAt EXCEPT ![d[1]] = at]
    /\ UNCHANGED <<db, requested, hookAt, link, req, wh, hst, faults>>

AckResponse(d)  == SettleResponse(d, "ack", "acked")
NackResponse(d) == SettleResponse(d, "nack", "dlq")

RespStep(d) ==
    \/ FindTransaction(d) \/ UpdateProcessing(d) \/ PublishWebhook(d)
    \/ AckResponse(d) \/ NackResponse(d)
-----------------------------------------------------------------------------
(* WebhookConsumer and processWebhookMessage. *)

HookGoes(p, run) == wh' = [wh EXCEPT ![p] = run]

DeliverWebhook(h) ==
    /\ connected
    /\ hookAt[h] = "ready"
    /\ hookAt' = [hookAt EXCEPT ![h] = "unacked"]
    /\ HookGoes(<<h, epoch>>, Sending)
    /\ UNCHANGED <<db, requested, respAt, link, req, rh, hst, faults>>

CanPost(p) == wh[p].pc = "send" /\ PostTxn(p) \notin BadUrl

(* An attempt leaves the bridge. *)
PostAttempt(p) ==
    /\ CanPost(p)
    /\ posted' = [posted EXCEPT ![PostTxn(p)] = TRUE]
    /\ UNCHANGED <<db, broker, accepted, link, req, rh, wh, faults>>

(* HST (external) accepts an attempt without the bridge seeing it: the answer
   comes after the timeout, even after send returned or the process died, or
   the write of its webhook_logs row fails. *)
AcceptUnseen(t) ==
    /\ posted[t]
    /\ accepted' = [accepted EXCEPT ![t] = TRUE]
    /\ UNCHANGED <<db, broker, posted, link, req, rh, wh, faults>>

(* HST answers 2xx in time and send returns success. *)
SendSucceeds(p) ==
    /\ CanPost(p)
    /\ posted' = [posted EXCEPT ![PostTxn(p)] = TRUE]
    /\ accepted' = [accepted EXCEPT ![PostTxn(p)] = TRUE]
    /\ HookGoes(p, Run("mark", Verdict(TRUE)))
    /\ UNCHANGED <<db, broker, link, req, rh, faults>>

(* Every attempt counted as failed. *)
SendExhausted(p) ==
    /\ CanPost(p)
    /\ HookGoes(p, Run("mark", Verdict(FALSE)))
    /\ UNCHANGED <<db, broker, link, req, rh, hst, faults>>

(* validateWebhookUrl throws: the catch block of handleWebhook. *)
RefuseUrl(p) ==
    /\ wh[p].pc = "send"
    /\ PostTxn(p) \in BadUrl
    /\ HookGoes(p, Run("mark", "SYSTEM_ERROR"))
    /\ UNCHANGED <<db, broker, link, req, rh, hst, faults>>

(* A write of webhook_logs throws out of send. *)
SendThrows(p) ==
    /\ CanPost(p)
    /\ Fault
    /\ HookGoes(p, Run("mark", "SYSTEM_ERROR"))
    /\ UNCHANGED <<db, broker, link, req, rh, hst>>

(* updateStatus, its three awaits. *)
MarkResult(p) ==
    /\ wh[p].pc = "mark"
    /\ SetStatus(PostTxn(p), StatusOf(wh[p].plan))
    /\ HookGoes(p, Run("log", wh[p].plan))
    /\ UNCHANGED <<audit, cached, broker, link, req, rh, hst, faults>>

LogResult(p) ==
    /\ wh[p].pc = "log"
    /\ AddLog(PostTxn(p), {ActionFor(StatusOf(wh[p].plan))})
    /\ HookGoes(p, Run("cache", wh[p].plan))
    /\ UNCHANGED <<status, cached, broker, link, req, rh, hst, faults>>

(* CacheService.set never throws: it may leave the key as it was. *)
CacheResult(p) ==
    /\ wh[p].pc = "cache"
    /\ \/ cached' = [cached EXCEPT ![PostTxn(p)] = StatusOf(wh[p].plan)]
       \/ cached' = cached
    /\ HookGoes(p, Run(Settlement(wh[p].plan), wh[p].plan))
    /\ UNCHANGED <<status, audit, broker, link, req, rh, hst, faults>>

FailUpdate(p) ==
    /\ wh[p].pc \in {"mark", "log"}
    /\ Fault
    /\ HookGoes(p, Run(WhenUpdateFails(wh[p].plan), "SYSTEM_ERROR"))
    /\ UNCHANGED <<db, broker, link, req, rh, hst>>

SettleWebhookAnywhere(p, pc, at) ==   \* slip: acknowledged on whatever channel is open
    /\ connected
    /\ wh[p].pc = pc
    /\ HookGoes(p, Idle)
    /\ hookAt' = [hookAt EXCEPT ![p[1]] = at]
    /\ UNCHANGED <<db, requested, respAt, link, req, rh, hst, faults>>
SettleWebhook(p, pc, at) ==
    /\ connected
    /\ Channel(p) = epoch
    /\ wh[p].pc = pc
    /\ HookGoes(p, Idle)
    /\ hookAt' = [hookAt EXCEPT ![p[1]] = at]
    /\ UNCHANGED <<db, requested, respAt, link, req, rh, hst, faults>>

AckWebhook(p)  == SettleWebhook(p, "ack", "acked")
NackWebhook(p) == SettleWebhook(p, "nack", "dlq")

HookStep(p) ==
    \/ SendSucceeds(p) \/ SendExhausted(p) \/ RefuseUrl(p)
    \/ MarkResult(p) \/ LogResult(p) \/ CacheResult(p)
    \/ AckWebhook(p) \/ NackWebhook(p)
-----------------------------------------------------------------------------
(* The connection and the process. *)

NewChannel ==
    /\ epoch' = epoch + 1
    /\ connected' = FALSE
    /\ respAt' = Requeued(respAt)
    /\ hookAt' = Requeued(hookAt)
    /\ UNCHANGED requested

(* The connection drops; handlers keep running on the dead channel.  The
   bound leaves an epoch for the crash that such a handler ends in. *)
Drop ==
    /\ connected
    /\ epoch + 2 <= MaxEpoch
    /\ NewChannel
    /\ UNCHANGED <<db, req, rh, wh, hst, faults>>

(* Reconnected, set up again, consumers registered (see AmqpTopology). *)
Reconnect ==
    /\ ~connected
    /\ connected' = TRUE
    /\ UNCHANGED <<db, broker, epoch, req, rh, wh, hst, faults>>

(* The process dies and is started again: its handlers are gone and the
   clients of its requests see the connection reset. *)
Crash ==
    /\ epoch < MaxEpoch
    /\ NewChannel
    /\ req' = [t \in Txn |-> IF req[t] \in InFlight THEN "lost" ELSE req[t]]
    /\ rh'  = [d \in Delivery |-> "idle"]
    /\ wh'  = [p \in Post |-> Idle]
    /\ UNCHANGED <<db, hst, faults>>

(* A run settles on a channel that is closed: ack throws, the catch block's
   nack throws too, the promise nobody awaits rejects and Node exits. *)
SettlesOnClosedChannel ==
    \/ \E d \in Delivery :
          rh[d] \in {"ack", "nack"} /\ Channel(d) # epoch
    \/ \E p \in Post :
          wh[p].pc \in {"ack", "nack"} /\ Channel(p) # epoch

UnhandledRejection == SettlesOnClosedChannel /\ Crash
-----------------------------------------------------------------------------
Next ==
    \/ \E t \in Txn : RequestStep(t) \/ FailRequest(t) \/ AcceptUnseen(t)
    \/ \E r \in Response : Answer(r) \/ DeliverResponse(r)
    \/ \E d \in Delivery :
          RespStep(d) \/ PublishWebhookFails(d) \/ FailResponse(d)
    \/ \E h \in Hook : DeliverWebhook(h)
    \/ \E p \in Post :
          HookStep(p) \/ PostAttempt(p) \/ SendThrows(p) \/ FailUpdate(p)
    \/ Drop \/ Reconnect \/ Crash

Spec == Init /\ [][Next]_vars

(* The event loop runs every callback that is due and a broker delivers to a
   live consumer; faults, drops, crashes and the processor owe nothing. *)
Fairness ==
    /\ WF_vars(Reconnect)
    /\ WF_vars(UnhandledRejection)
    /\ \A r \in Response : WF_vars(DeliverResponse(r))
    /\ \A d \in Delivery : WF_vars(RespStep(d))
    /\ \A h \in Hook : WF_vars(DeliverWebhook(h))
    /\ \A p \in Post : WF_vars(HookStep(p))

FairSpec == Spec /\ Fairness
-----------------------------------------------------------------------------
(* Properties. *)

(* Every variable keeps its type: handlers, queues and rows only take the
   values the code and RabbitMQ know. *)
TypeOK ==
    /\ status    \in [Txn -> Statuses \cup {"none"}]
    /\ audit     \in [Txn -> SUBSET Actions]
    /\ cached    \in [Txn -> Terminal \cup {"none"}]
    /\ requested \in [Txn -> BOOLEAN]
    /\ req       \in [Txn -> ReqStage]
    /\ respAt    \in [Response -> Place]
    /\ hookAt    \in [Hook -> Place]
    /\ rh        \in [Delivery -> RespStage]
    /\ wh        \in [Post -> HookRun]
    /\ posted    \in [Txn -> BOOLEAN]
    /\ accepted  \in [Txn -> BOOLEAN]
    /\ connected \in BOOLEAN
    /\ epoch     \in Epoch
    /\ faults    \in 0..MaxFaults

(* A transaction whose status or cached status is SUCCESS was accepted by
   HST: no interleaving of concurrent, redelivered or failing webhook
   handlers (webhook.consumer.ts) invents a success. *)
SuccessMeansAccepted ==
    \A t \in Txn :
        status[t] = "SUCCESS" \/ cached[t] = "SUCCESS" => accepted[t]

(* A response is acknowledged to RabbitMQ only when its transaction has the
   SENT_WEBHOOK row, even when it was a duplicate that handleResponse
   dropped because the row it read was terminal. *)
AckedResponseRecorded ==
    \A r \in Response :
        respAt[r] = "acked" => "SENT_WEBHOOK" \in audit[TxnOf(r)]

(* A webhook message leaves its queue, acknowledged or dead-lettered, only
   when the audit trail says how the transaction ended, unless a database
   call failed: crashes and dead channels alone lose no conclusion. *)
SettledWebhookConcluded ==
    \A h \in Hook :
        hookAt[h] = "acked" \/ (hookAt[h] = "dlq" /\ faults = 0)
            => audit[HookTxn(h)] \cap {"MARK_SUCCESS", "MARK_FAILED"} # {}

(* A message is dead-lettered only for a failing call, an id the bridge does
   not know, an answer without a status or a refused URL: duplicates,
   redeliveries, dropped connections and restarts alone never fill a
   dead-letter queue. *)
DeadLetterNeedsCause ==
    /\ \A r \in Response :
          respAt[r] = "dlq" => faults > 0 \/ TxnOf(r) \in Stray \/ r \in Malformed
    /\ \A h \in Hook :
          hookAt[h] = "dlq" => faults > 0 \/ HookTxn(h) \in BadUrl

(* RabbitMQ waits for a message exactly while a run on the open channel works
   on it: no throw, duplicate or stale run leaves a message unacknowledged
   that nobody will settle (consumers have no prefetch limit, so nothing would
   show it), and none is settled twice, which closes the channel for all. *)
UnackedIsHandled ==
    /\ \A r \in Response : respAt[r] = "unacked" <=> rh[<<r, epoch>>] # "idle"
    /\ \A h \in Hook : hookAt[h] = "unacked" <=> wh[<<h, epoch>>].pc # "idle"

(* The writer that still has to log status s of transaction t. *)
LogPending(t, s) ==
    \/ s = "PENDING" /\ req[t] = "createLog"
    \/ s = "PUBLISHED" /\ req[t] = "markLog"
    \/ \E p \in Post : PostTxn(p) = t /\ wh[p].pc = "log"
                        /\ StatusOf(wh[p].plan) = s

(* transaction.update and transactionLog.create are two calls: a status
   without its log row needs a writer between the two, a failed call or a
   process that died there. *)
AuditGapNeedsDisruption ==
    faults = 0 /\ epoch = 0 =>
        \A t \in Txn :
            status[t] # "none" =>
                ActionFor(status[t]) \in audit[t] \/ LogPending(t, status[t])

(* At most one webhook message of transaction t has been published. *)
OneWebhook(t) ==
    \A g, h \in Hook :
        HookTxn(g) = t /\ HookTxn(h) = t /\ hookAt[g] # "none" /\ hookAt[h] # "none"
            => g = h

(* The row, the audit trail and the cache are written one after the other,
   by every run again: what the cache says has its log row, and a final
   status is the cached one, unless two runs of handleWebhook could race,
   for two answers or for one delivered again on a later channel.  No failing
   write of a single run makes them disagree. *)
CacheTellsStatus ==
    \A t \in Txn : cached[t] # "none" =>
        /\ ActionFor(cached[t]) \in audit[t]
        /\ status[t] \in Terminal /\ epoch = 0 /\ OneWebhook(t) => cached[t] = status[t]

(* Nothing that could still write about transaction t is left. *)
Settled(t) ==
    /\ status[t] \in Terminal
    /\ req[t] \notin InFlight
    /\ \A d \in Delivery : HookTxn(d) = t =>
          rh[d] \notin {"update", "publish"} /\ hookAt[d] \notin {"ready", "unacked"}
    /\ \A p \in Post : PostTxn(p) = t => wh[p].pc = "idle"

KeepsSettled ==
    \A t \in Txn : Settled(t) => Settled(t)' /\ UNCHANGED <<status[t], cached[t]>>

(* Once the request is over and every webhook settled, no response that
   still comes, and no crash, drop or restart, reopens the transaction, puts
   a webhook of it in the queue or in a handler again (so HST hears no more
   of it), or changes the cached status. *)
SettledIsForever == [][KeepsSettled]_vars

(* A response with a status that RabbitMQ holds for a known transaction ends,
   through crashes and dropped connections, with a logged conclusion, as long
   as no database or publish call fails. *)
ResponseReachesConclusion ==
    \A r \in Response :
        respAt[r] = "ready" /\ TxnOf(r) \notin Stray /\ r \notin Malformed
            ~> audit[TxnOf(r)] \cap {"MARK_SUCCESS", "MARK_FAILED"} # {}

(* "status akhir sukses / status akhir gagal" (update-status.dto.ts): a
   transaction in a final status stays in it. *)
TerminalIsFinal ==
    [][\A t \in Txn : status[t] \in Terminal => status'[t] = status[t]]_vars

(* "Log but don't throw - webhook consumer will handle retry": a
   transaction logged as SENT_WEBHOOK has, sooner or later, a message that
   the webhook consumer can retry. *)
SentWebhookReachesConsumer ==
    \A t \in Txn :
        "SENT_WEBHOOK" \in audit[t]
            ~> \E h \in Hook : HookTxn(h) = t /\ hookAt[h] # "none"
-----------------------------------------------------------------------------
(* The abstract protocol: a phase read off the facts that never go back. *)

PhaseOf(t) ==
    CASE accepted[t]                     -> "notified"
      [] ~accepted[t] /\ "SENT_WEBHOOK" \in audit[t] -> "answered"
      [] ~accepted[t] /\ "SENT_WEBHOOK" \notin audit[t] /\ requested[t]
                                         -> "requested"
      [] OTHER -> IF status[t] = "none" THEN "absent" ELSE "recorded"

VerdictOf(t) == IF status[t] \in Terminal THEN status[t] ELSE "open"

Protocol == INSTANCE AccessProtocol WITH
    phase   <- [t \in Txn |-> PhaseOf(t)],
    verdict <- [t \in Txn |-> VerdictOf(t)]

(* Every step of the bridge is a step of AccessProtocol or changes nothing
   that it speaks of. *)
ImplementsProtocol == Protocol!Spec
=============================================================================
