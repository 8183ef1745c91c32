---------------------------- MODULE AmqpTopology ----------------------------
(***************************************************************************)
(* How the queues come to exist and get their consumers: the setup         *)
(* functions that AmqpService hands to the channel wrapper of              *)
(* amqp-connection-manager, the start-up loops of AccessResponseConsumer   *)
(* and WebhookConsumer, and the requests that declare the queues of their  *)
(* processor before they publish.                                          *)
(*                                                                         *)
(* The channel wrapper (external): addSetup waits for the setups that the  *)
(* opening of the channel runs, keeps the function, runs it now if there   *)
(* is a channel, and again, concurrently with all others, on every channel *)
(* that is opened later.  A declaration or check that RabbitMQ refuses     *)
(* closes the channel, and no other is opened until the connection drops.  *)
(***************************************************************************)
EXTENDS Naturals, Sequences, FiniteSets, Functions

CONSTANTS
    Name,           \* processor codes, as requests and applications spell them
    Sanitize,       \* sanitizeApplicationCode
    StartApps,      \* the applications that findMany returns
    Image,          \* requests for a check-image, the others are check-ins
    Established,    \* the names whose queues the broker may have from earlier runs
    MaxRetries,     \* the maxRetries of the two consume methods
    MaxChannel,     \* connections that may be made
    MaxRequests,    \* requests that may be made
    MaxFaults       \* queries of the applications that may fail

ASSUME NameAssumption ==
    /\ Sanitize \in [Name -> Name]
    /\ StartApps \subseteq Name /\ Image \subseteq Name
    /\ Established \subseteq SUBSET Name
ASSUME LimitAssumption ==
    /\ MaxRetries \in Nat \ {0} /\ MaxChannel \in Nat \ {0}
    /\ MaxRequests \in Nat /\ MaxFaults \in Nat

Kind    == {"response", "webhook"}      \* the two consumer services
Caller  == Kind \cup Name               \* who calls addSetup: a service, a request
Channel == 0..MaxChannel
Queue   == {"check-in", "check-image", "response", "webhook"} \X Name

(* Setup functions: the exchanges, ensureAllQueuesForProcessor called by o
   for n, and the consumer of kind k for n. *)
Exchanges     == <<"exchanges", "amqp", "amqp">>
Ensure(o, n)  == <<"ensure", o, n>>
Consume(k, n) == <<"consume", k, n>>
Ensures  == {Ensure(k, n) : k \in Kind, n \in StartApps}
                \cup {Ensure(o, Sanitize[o]) : o \in Name}
Consumes == {Consume(k, n) : k \in Kind, n \in StartApps}
Setup    == {Exchanges} \cup Ensures \cup Consumes

VARIABLES
    link,       \* "down", "up" (no channel yet), "open", or "dead": its channel
                \* is closed while the connection is up
    channel,    \* the last connection's number
    exchanges,  \* all exchanges are declared in the broker
    queue,      \* the queues declared in the broker
    setups,     \* the functions the channel wrapper keeps, in order
    opened,     \* those that the opening of each channel runs
    rpc,        \* the calls that wait for the broker's answer
    run,        \* where the run of a setup on a channel is
    tries,      \* the retryCount of each consume setup
    call,       \* where each caller is
    todo,       \* the applications a service has not come to yet
    sent,       \* the access request of each request
    hook,       \* the webhook message of each request
    faults

wrapper == <<link, channel, setups, opened, rpc>>
broker  == <<exchanges, queue>>
data    == <<sent, hook>>
vars    == <<wrapper, broker, run, tries, call, todo, data, faults>>

Up         == link # "down"                         \* isReady
Ended      == {"done", "failed", "gaveup"}
Settled(c) == \A s \in opened[c] : run[<<s, c>>] \in Ended

(* The while condition of the consume setups. *)
MayTryShort(s) == tries[s] + 1 < MaxRetries       \* slip: off by one
MayTry(s)      == tries[s] < MaxRetries

(* Where a setup starts when it is run. *)
FirstStage(s) ==
    CASE s = Exchanges                  -> "declare"
      [] s \in Ensures                  -> "request"
      [] s \in Consumes /\ MayTry(s)    -> "check"
      [] s \in Consumes /\ ~MayTry(s)   -> "gaveup"

(* The setups of q whose run begins with a call to the broker, in order. *)
Awaiting(q) ==
    LET kept[i \in 0..Len(q)] ==
            IF i = 0 THEN <<>>
            ELSE IF FirstStage(q[i]) = "gaveup" THEN kept[i - 1]
                 ELSE Append(kept[i - 1], q[i])
    IN  kept[Len(q)]

RequestQueue(o) == IF o \in Image THEN "check-image" ELSE "check-in"

(* The queues of ensureAllQueuesForProcessor, in its order. *)
DeclaredAt(s, stage) ==
    <<IF stage = "request" THEN RequestQueue(s[2]) ELSE stage, s[3]>>
AfterQueueShort(stage) ==    \* slip: the webhook queue left to its consumer
    IF stage = "request" THEN "response" ELSE "done"
AfterQueue(stage) ==
    CASE stage = "request"  -> "response"
      [] stage = "response" -> "webhook"
      [] stage = "webhook"  -> "done"

(* The queue that a consumer checks and consumes. *)
ConsumedQueueMisspelt(s) == <<"access-response", s[3]>>   \* slip
ConsumedQueue(s)         == <<s[2], s[3]>>

(* A call of addSetup: the opening it waits for, none if it is over. *)
At(pc, app) == [pc |-> pc, app |-> app,
                on |-> IF link = "open" /\ ~Settled(channel) THEN channel ELSE 0]
Rest(pc)    == [pc |-> pc, app |-> "none", on |-> 0]

(* What follows the ensure of a caller: a service registers its consumer, a
   request publishes; if it failed the service skips the application. *)
AfterEnsure(x, app) == IF x \in Kind THEN At("consume", app) ELSE Rest("send")
AfterFailure(x)     == IF x \in Kind THEN Rest("next") ELSE Rest("failed")
-----------------------------------------------------------------------------
Init ==
    /\ link = "down"
    /\ channel = 0
    /\ \E names \in Established :
          exchanges = (names # {}) /\ queue = {q \in Queue : q[2] \in names}
    /\ setups = <<Exchanges>>
    /\ rpc = <<>>
    /\ opened = [c \in Channel |-> {}]
    /\ run = [x \in Setup \X Channel |-> "none"]
    /\ tries = [s \in Consumes |-> 0]
    /\ call = [x \in Caller |-> IF x \in Kind THEN Rest("waiting") ELSE Rest("idle")]
    /\ todo = [k \in Kind |-> {}]
    /\ sent = [o \in Name |-> "none"]
    /\ hook = [o \in Name |-> "none"]
    /\ faults = 0

(* Continuations of promises run before anything that comes from outside:
   a caller that can go on does so first. *)
CanGoOn(x) ==
    LET y == call[x]
    IN  \/ y.pc = "next" /\ todo[x] # {}
        \/ y.pc \in {"ensure", "consume"} /\ Settled(y.on)
        \/ y.pc = "ensuring" /\ run[<<Ensure(x, y.app), y.on>>] \in Ended
        \/ y.pc = "consuming" /\ run[<<Consume(x, y.app), y.on>>] \in Ended
Quiet == \A x \in Caller : ~CanGoOn(x)

RunGoes(s, c, stage) == run' = [run EXCEPT ![<<s, c>>] = stage]
CallGoes(x, to)      == call' = [call EXCEPT ![x] = to]
-----------------------------------------------------------------------------
(* The connection (external) and the events AmqpService listens to. *)

Connect ==
    /\ link = "down"
    /\ Quiet
    /\ link' = "up"
    /\ channel' = channel + 1
    /\ UNCHANGED <<setups, opened, rpc, broker, run, tries, call, todo, data, faults>>

Open ==
    /\ link = "up"
    /\ Quiet
    /\ link' = "open"
    /\ opened' = [opened EXCEPT ![channel] = Range(setups)]
    /\ rpc' = Awaiting(setups)
    /\ run' = [x \in Setup \X Channel |->
                  IF x[1] \in Range(setups) /\ x[2] = channel
                  THEN FirstStage(x[1]) ELSE run[x]]
    /\ UNCHANGED <<channel, setups, broker, tries, call, todo, data, faults>>

(* The channel closes: the calls that wait for its answer throw, which ends
   an ensure and counts as a try of a consume. *)
AfterThrow(s) == IF s \notin Consumes THEN "failed"
                 ELSE IF tries[s] + 1 < MaxRetries THEN "backoff" ELSE "gaveup"
CloseChannel ==
    /\ rpc' = <<>>
    /\ run' = [x \in Setup \X Channel |->
                  IF x[1] \in Range(rpc) /\ x[2] = channel
                  THEN AfterThrow(x[1]) ELSE run[x]]
    /\ tries' = [s \in Consumes |-> IF s \in Range(rpc) THEN tries[s] + 1 ELSE tries[s]]

Drop ==
    /\ link # "down"
    /\ channel < MaxChannel
    /\ Quiet
    /\ link' = "down"
    /\ CloseChannel
    /\ UNCHANGED <<channel, setups, opened, broker, call, todo, data, faults>>

(* The process dies, or waitForRabbitMQ times out, and is started again. *)
Restart ==
    /\ channel < MaxChannel
    /\ Quiet
    /\ link' = "down"
    /\ setups' = <<Exchanges>>
    /\ opened' = [c \in Channel |-> {}]
    /\ rpc' = <<>>
    /\ run' = [x \in Setup \X Channel |-> "none"]
    /\ tries' = [s \in Consumes |-> 0]
    /\ call' = [x \in Caller |->
                   IF x \in Kind THEN Rest("waiting")
                   ELSE IF call[x].pc = "idle" THEN call[x] ELSE Rest("over")]
    /\ todo' = [k \in Kind |-> {}]
    /\ UNCHANGED <<channel, broker, data, faults>>
-----------------------------------------------------------------------------
(* The runs of the setup functions.  The channel has one call to the broker
   outstanding and keeps the others in order. *)

IsNext(s, stages) ==
    /\ rpc # <<>>
    /\ s = Head(rpc)
    /\ run[<<s, channel>>] \in stages
    /\ Quiet

Proceed(s, stage) ==
    /\ RunGoes(s, channel, stage)
    /\ rpc' = IF stage \in Ended THEN Tail(rpc) ELSE Append(Tail(rpc), s)
    /\ UNCHANGED <<link, channel, setups, opened, tries, call, todo, data, faults>>

(* RabbitMQ answers with an error and closes the channel; the connection,
   and so isReady, stays as it is. *)
Refuse ==
    /\ link' = "dead"
    /\ CloseChannel
    /\ UNCHANGED <<channel, setups, opened, broker, call, todo, data, faults>>

(* The main exchanges, and then the dead-letter exchanges. *)
DeclareExchanges(s) ==
    /\ IsNext(s, {"declare", "declareDlx"})
    /\ IF run[<<s, channel>>] = "declare"
       THEN Proceed(s, "declareDlx") /\ UNCHANGED exchanges
       ELSE Proceed(s, "done") /\ exchanges' = TRUE
    /\ UNCHANGED queue

DeclareQueue(s) ==
    /\ IsNext(s, {"request", "response", "webhook"})
    /\ exchanges
    /\ queue' = queue \cup {DeclaredAt(s, run[<<s, channel>>])}
    /\ Proceed(s, AfterQueue(run[<<s, channel>>]))
    /\ UNCHANGED exchanges

(* The dead-letter queue cannot be bound: its exchange does not exist. *)
RefuseBind(s) ==
    /\ IsNext(s, {"request", "response", "webhook"})
    /\ ~exchanges
    /\ Refuse

CheckQueue(s) ==
    /\ IsNext(s, {"check"})
    /\ ConsumedQueue(s) \in queue
    /\ Proceed(s, "consume")
    /\ UNCHANGED broker

RefuseCheck(s) ==
    /\ IsNext(s, {"check"})
    /\ ConsumedQueue(s) \notin queue
    /\ Refuse

Register(s) ==
    /\ IsNext(s, {"consume"})
    /\ Proceed(s, "done")
    /\ UNCHANGED broker

(* The backoff is over.  Only a closed channel makes a try fail, so the next
   one throws at once, unless the count, which all the runs of the setup
   share and nothing resets, has reached its limit. *)
WakeForever(s, c) ==         \* slip: while (true)
    /\ run[<<s, c>>] = "backoff"
    /\ Quiet
    /\ tries' = [tries EXCEPT ![s] = @ + 1]
    /\ UNCHANGED <<wrapper, broker, run, call, todo, data, faults>>
WakeUncounted(s, c) ==       \* slip: the try is not counted
    /\ run[<<s, c>>] = "backoff"
    /\ Quiet
    /\ UNCHANGED vars
Wake(s, c) ==
    /\ run[<<s, c>>] = "backoff"
    /\ Quiet
    /\ IF MayTry(s)
       THEN tries' = [tries EXCEPT ![s] = @ + 1] /\ RunGoes(s, c, AfterThrow(s))
       ELSE RunGoes(s, c, "gaveup") /\ UNCHANGED tries
    /\ UNCHANGED <<wrapper, broker, call, todo, data, faults>>

SetupStep(s) ==
    \/ DeclareExchanges(s) \/ DeclareQueue(s) \/ RefuseBind(s)
    \/ CheckQueue(s) \/ RefuseCheck(s) \/ Register(s)
-----------------------------------------------------------------------------
(* The start of the services, and the requests up to their publish. *)

FindApplications(k) ==
    /\ call[k].pc = "waiting"
    /\ Up
    /\ Quiet
    /\ CallGoes(k, Rest("next"))
    /\ todo' = [todo EXCEPT ![k] = StartApps]
    /\ UNCHANGED <<wrapper, broker, run, tries, data, faults>>

(* The error is logged and the service goes without consumers. *)
FindFails(k) ==
    /\ call[k].pc = "waiting"
    /\ Up
    /\ Quiet
    /\ faults < MaxFaults
    /\ faults' = faults + 1
    /\ CallGoes(k, Rest("next"))
    /\ UNCHANGED <<wrapper, broker, run, tries, todo, data>>

NextApplication(k, n) ==
    /\ call[k].pc = "next"
    /\ n \in todo[k]
    /\ todo' = [todo EXCEPT ![k] = @ \ {n}]
    /\ CallGoes(k, At("ensure", n))
    /\ UNCHANGED <<wrapper, broker, run, tries, data, faults>>

(* createCheckin or createCheckimage finds isReady, records the transaction
   and publishes, whatever became of the connection in between. *)
Request(o) ==
    /\ call[o].pc = "idle"
    /\ Up
    /\ Cardinality({x \in Name : call[x].pc # "idle"}) < MaxRequests
    /\ Quiet
    /\ CallGoes(o, Rest("record"))
    /\ UNCHANGED <<wrapper, broker, run, tries, todo, data, faults>>

Publish(o) ==
    /\ call[o].pc = "record"
    /\ Quiet
    /\ CallGoes(o, At("ensure", Sanitize[o]))
    /\ UNCHANGED <<wrapper, broker, run, tries, todo, data, faults>>

(* addSetup keeps s; its caller awaits the run if the channel is open, and
   goes on at once if it is not. *)
AddSetup(x, s, waiting, after) ==
    /\ Settled(call[x].on)
    /\ setups' = Append(setups, s)
    /\ IF link = "open"
       THEN /\ RunGoes(s, channel, FirstStage(s))
            /\ rpc' = IF FirstStage(s) = "gaveup" THEN rpc ELSE Append(rpc, s)
            /\ CallGoes(x, [call[x] EXCEPT !.pc = waiting, !.on = channel])
       ELSE CallGoes(x, after) /\ UNCHANGED <<run, rpc>>
    /\ UNCHANGED <<link, channel, opened, broker, tries, todo, data, faults>>

AddEnsure(x) ==
    /\ call[x].pc = "ensure"
    /\ AddSetup(x, Ensure(x, call[x].app), "ensuring", AfterEnsure(x, call[x].app))

AwaitEnsureOutside(x) ==     \* slip: the try is around the loop, not in it
    /\ call[x].pc = "ensuring"
    /\ LET end == run[<<Ensure(x, call[x].app), call[x].on>>]
       IN  \/ /\ end = "done"
              /\ CallGoes(x, AfterEnsure(x, call[x].app))
              /\ UNCHANGED todo
           \/ /\ end = "failed"
              /\ CallGoes(x, AfterFailure(x))
              /\ todo' = IF x \in Kind THEN [todo EXCEPT ![x] = {}] ELSE todo
    /\ UNCHANGED <<wrapper, broker, run, tries, data, faults>>
AwaitEnsure(x) ==
    /\ call[x].pc = "ensuring"
    /\ LET end == run[<<Ensure(x, call[x].app), call[x].on>>]
       IN  \/ end = "done" /\ CallGoes(x, AfterEnsure(x, call[x].app))
           \/ end = "failed" /\ CallGoes(x, AfterFailure(x))
    /\ UNCHANGED <<wrapper, broker, run, tries, todo, data, faults>>

AddConsume(k) ==
    /\ call[k].pc = "consume"
    /\ AddSetup(k, Consume(k, call[k].app), "consuming", Rest("next"))

AwaitConsume(k) ==
    /\ call[k].pc = "consuming"
    /\ run[<<Consume(k, call[k].app), call[k].on>>] \in Ended
    /\ CallGoes(k, Rest("next"))
    /\ UNCHANGED <<wrapper, broker, run, tries, todo, data, faults>>

(* The wrapper sends what sendToQueue gave it when the channel is open and
   set up.  A message for a queue that does not exist is confirmed and lost. *)
CanSendEarly == link = "open"                 \* slip: before the setups ran
CanSend      == link = "open" /\ Settled(channel)
Placed(q) == IF q \in queue THEN "queued" ELSE "dropped"

SendRequest(o) ==
    /\ call[o].pc = "send"
    /\ CanSend
    /\ Quiet
    /\ sent' = [sent EXCEPT ![o] = Placed(<<RequestQueue(o), Sanitize[o]>>)]
    /\ CallGoes(o, Rest("over"))
    /\ UNCHANGED <<wrapper, broker, run, tries, todo, hook, faults>>

(* The processor (external) answers in the queue of its code; the consumer
   publishes the webhook under the processor_code that the request gave. *)
PublishWebhook(o) ==
    /\ sent[o] = "queued"
    /\ hook[o] = "none"
    /\ Quiet
    /\ Sanitize[o] \in StartApps
    /\ run[<<Consume("response", Sanitize[o]), channel>>] = "done"
    /\ CanSend
    /\ hook' = [hook EXCEPT ![o] = Placed(<<"webhook", o>>)]
    /\ UNCHANGED <<wrapper, broker, run, tries, call, todo, sent, faults>>

CallStep(x) == AddEnsure(x) \/ AwaitEnsure(x)
ServiceStep(k) ==
    \/ FindApplications(k) \/ (\E n \in Name : NextApplication(k, n))
    \/ CallStep(k) \/ AddConsume(k) \/ AwaitConsume(k)

Next ==
    \/ Connect \/ Open \/ Drop \/ Restart
    \/ \E s \in Setup : SetupStep(s) \/ (\E c \in Channel : Wake(s, c))
    \/ \E k \in Kind : ServiceStep(k) \/ FindFails(k)
    \/ \E o \in Name :
          Request(o) \/ Publish(o) \/ CallStep(o) \/ SendRequest(o) \/ PublishWebhook(o)

Spec == Init /\ [][Next]_vars

(* The manager reconnects for ever, RabbitMQ answers, and the event loop runs
   every continuation and timer.  Requests, drops and restarts owe nothing. *)
Fairness ==
    /\ WF_vars(Connect) /\ WF_vars(Open)
    /\ \A s \in Setup : WF_vars(SetupStep(s))
    /\ \A s \in Setup, c \in Channel : WF_vars(Wake(s, c))
    /\ \A k \in Kind : WF_vars(ServiceStep(k))
    /\ \A o \in Name : WF_vars(Publish(o) \/ CallStep(o) \/ SendRequest(o))

FairSpec == Spec /\ Fairness
-----------------------------------------------------------------------------
(* Properties. *)

Stage == {"none", "declare", "declareDlx", "request", "response", "webhook", "check",
          "consume", "backoff"} \cup Ended
CallStage == {"waiting", "idle", "next", "ensure", "ensuring", "consume",
              "consuming", "record", "send", "failed", "over"}

(* Types; a retryCount passes maxRetries by one at most, when the loops on
   closed channels use it up while the check on the open one is under way. *)
TypeOK ==
    /\ link \in {"down", "up", "open", "dead"}
    /\ channel \in Channel
    /\ exchanges \in BOOLEAN
    /\ queue \subseteq Queue
    /\ setups \in Seq(Setup) /\ rpc \in Seq(Setup)
    /\ opened \in [Channel -> SUBSET Setup]
    /\ run \in [Setup \X Channel -> Stage]
    /\ tries \in [Consumes -> 0..(MaxRetries + 1)]
    /\ call \in [Caller -> [pc : CallStage, app : Name \cup {"none"}, on : Channel]]
    /\ todo \in [Kind -> SUBSET StartApps]
    /\ sent \in [Name -> {"none", "queued", "dropped"}]
    /\ hook \in [Name -> {"none", "queued", "dropped"}]
    /\ faults \in 0..MaxFaults

(* A request that isReady let through reaches its queue, however drops,
   restarts and concurrent setups interleave: publishAccessRequest and
   publishCheckimageRequest never send before the queue is declared. *)
RequestNeverDropped == \A o \in Name : sent[o] # "dropped"

(* The webhook of a transaction is lost only when its processor_code is not
   as the queues spell it: q.webhook.<code> exists whenever an answer can
   come for a code that sanitizeApplicationCode leaves alone. *)
WebhookDropNeedsOddCode ==
    \A o \in Name : hook[o] = "dropped" => Sanitize[o] # o

(* Once the queues of the services exist, a consumer setup counts a try only
   when the connection drops under it, or when its own loop goes on after
   that: the check and the consume of a queue that the ensure before them
   declared are never refused, on whatever channel they run. *)
AllQueues == \A k \in Kind, n \in StartApps : <<k, n>> \in queue
RetriesNeedDisruption ==
    [][AllQueues => \A s \in Consumes :
          tries'[s] > tries[s] =>
              link' = "down" \/ \E c \in Channel : run[<<s, c>>] = "backoff"]_vars

(* The try is inside the loop over the applications: a service that found
   them leaves at most one without a consumer setup for each channel that
   was closed or dropped under a setup, and goes on with the others. *)
InHand(k)  == IF call[k].pc = "next" THEN {} ELSE {call[k].app}
Skipped(k) ==
    {n \in StartApps \ (todo[k] \cup InHand(k)) : Consume(k, n) \notin Range(setups)}
Lost == {c \in Channel : \E s \in Setup : run[<<s, c>>] = "failed"}
SkipsNeedLostChannels ==
    \A k \in Kind :
        call[k].pc # "waiting" /\ faults = 0 => Cardinality(Skipped(k)) <= Cardinality(Lost)

Consumed(k, n) == link = "open" /\ run[<<Consume(k, n), channel>>] = "done"

(* "Start consumers for all existing processors": both consumers of every
   application found at start-up end up registered, for good. *)
StartupConsumersRegister ==
    \A k \in Kind, n \in StartApps : <>[]Consumed(k, n)

(* What of it is true: if in the end the channel stays open, the setup of the
   consumer is kept and its retries are not used up, the consumer ends up
   registered on that channel, for good, however many there were before.
   (webhook.consumer.spec.ts, "no auto consumer start", has the start-up of
   WebhookConsumer start none; onModuleInit, the source here, starts them.) *)
Registrable(k, n) ==
    link = "open" /\ Consume(k, n) \in Range(setups) /\ tries[Consume(k, n)] < MaxRetries
ConsumersComeBack ==
    \A k \in Kind, n \in StartApps : <>[]Registrable(k, n) => <>[]Consumed(k, n)

(* A request that isReady let through is answered, or the process that took
   it dies, or it waits for ever on a connection that stays up with its
   channel closed: the retries of the consumer setups, which addSetup waits
   for, never keep it waiting for good. *)
RequestAnswered ==
    \A o \in Name :
        call[o].pc = "record" ~> (call[o].pc \in {"failed", "over"} \/ [](link = "dead"))

(* "Queue was created by consumer during startup": no webhook is published
   to a queue that does not exist. *)
WebhookNeverDropped == \A o \in Name : hook[o] # "dropped"
=============================================================================
