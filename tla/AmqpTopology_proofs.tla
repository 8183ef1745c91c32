-------------------------- MODULE AmqpTopology_proofs --------------------------
(***************************************************************************)
(* Theorems of AmqpTopology, for every set of codes and applications,      *)
(* every spelling and every number of connections, tries and faults.       *)
(***************************************************************************)
EXTENDS AmqpTopology, FiniteSetTheorems, WellFoundedInduction, TLAPS

EnsureStage   == {"none", "request", "response", "webhook", "done", "failed"}
ConsumeStage  == {"none", "check", "consume", "backoff", "done", "gaveup"}
ExchangeStage == {"none", "declare", "declareDlx", "done", "failed"}
StagesOf(s)   == IF s \in Consumes THEN ConsumeStage
                 ELSE IF s \in Ensures THEN EnsureStage ELSE ExchangeStage

ServiceStage == {"waiting", "next", "ensure", "ensuring", "consume", "consuming"}
RequestStage == {"idle", "record", "ensure", "ensuring", "send", "failed", "over"}
Call         == [pc : CallStage, app : Name \cup {"none"}, on : Channel]

(* A service deals with an application it found, a request with its code. *)
ShapeOf(x, y) ==
    /\ y.pc \in IF x \in Kind THEN ServiceStage ELSE RequestStage
    /\ y.pc \in {"ensure", "ensuring", "consume", "consuming"} =>
          IF x \in Kind THEN y.app \in StartApps ELSE y.app = Sanitize[x]
CallShape(x) == ShapeOf(x, call[x])

LinkShape ==
    /\ link \in {"down", "up", "open", "dead"}
    /\ channel \in Channel
    /\ link = "down" => channel < MaxChannel
    /\ link # "down" => channel > 0
    /\ link # "open" => rpc = <<>>

WrapperShape ==
    /\ setups \in Seq(Setup)
    /\ opened \in [Channel -> SUBSET Setup]
    /\ tries \in [Consumes -> Nat]
    /\ run \in [Setup \X Channel -> Stage]
    /\ \A s \in Setup, c \in Channel : run[<<s, c>>] \in StagesOf(s)

CallerShape ==
    /\ call \in [Caller -> Call]
    /\ \A x \in Caller : CallShape(x)
    /\ todo \in [Kind -> SUBSET StartApps]
    /\ sent \in [Name -> {"none", "queued", "dropped"}]
    /\ hook \in [Name -> {"none", "queued", "dropped"}]
    /\ faults \in Nat

Shape == LinkShape /\ WrapperShape /\ CallerShape
-----------------------------------------------------------------------------
(* The setup functions are told apart by their first component. *)
LEMMA SetupFacts ==
    /\ \A s \in Ensures : /\ s[2] \in Caller /\ s[3] \in Name /\ s = <<"ensure", s[2], s[3]>>
                          /\ s \in Setup /\ s \notin Consumes /\ s # Exchanges
    /\ \A s \in Consumes : /\ s[2] \in Kind /\ s[3] \in StartApps /\ s = <<"consume", s[2], s[3]>>
                           /\ s \in Setup /\ s \notin Ensures /\ s # Exchanges
    /\ Exchanges \in Setup /\ Exchanges \notin Ensures /\ Exchanges \notin Consumes
    /\ \A s \in Setup : s \in Ensures \/ s \in Consumes \/ s = Exchanges
    /\ \A k \in Kind, n \in StartApps : Ensure(k, n) \in Ensures /\ Consume(k, n) \in Consumes
    /\ \A o \in Name : Ensure(o, Sanitize[o]) \in Ensures /\ Sanitize[o] \in Name
<1>1. StartApps \subseteq Name /\ \A o \in Name : Sanitize[o] \in Name
  BY NameAssumption
<1>2. \A s \in Ensures : s[1] = "ensure" /\ s[2] \in Caller /\ s[3] \in Name /\ s = <<"ensure", s[2], s[3]>>
  BY <1>1 DEF Ensures, Ensure, Caller
<1>3. \A s \in Consumes : s[1] = "consume" /\ s[2] \in Kind /\ s[3] \in StartApps
                          /\ s = <<"consume", s[2], s[3]>>
  BY DEF Consumes, Consume
<1>4. Exchanges[1] = "exchanges"
  BY DEF Exchanges
<1>5. /\ \A k \in Kind, n \in StartApps : Ensure(k, n) \in Ensures /\ Consume(k, n) \in Consumes
      /\ \A o \in Name : Ensure(o, Sanitize[o]) \in Ensures
  BY DEF Ensures, Consumes
<1>6. \A s : s \in Setup <=> (s \in Ensures \/ s \in Consumes \/ s = Exchanges)
  BY DEF Setup
<1>q. QED BY <1>1, <1>2, <1>3, <1>4, <1>5, <1>6

(* The numbers of channels. *)
LEMMA ChannelFacts ==
    /\ 0 \in Channel /\ MaxChannel \in Nat /\ MaxRetries \in Nat /\ MaxFaults \in Nat
    /\ \A n \in Channel : n \in Nat
    /\ \A n \in Channel : n < MaxChannel => n + 1 \in Channel
BY LimitAssumption DEF Channel

(* Where a setup starts, and where a failing call takes it. *)
LEMMA StageFacts ==
    ASSUME NEW s \in Setup
    PROVE  /\ FirstStage(s) \in StagesOf(s) /\ FirstStage(s) \notin {"none", "backoff", "failed", "done"}
           /\ s \in Ensures => FirstStage(s) = "request"
           /\ AfterThrow(s) \in StagesOf(s) /\ AfterThrow(s) \notin {"none", "done"}
           /\ s \in Consumes => AfterThrow(s) # "failed"
           /\ "none" \in StagesOf(s)
           /\ StagesOf(s) \subseteq Stage
<1>1. CASE s \in Ensures
  BY <1>1, SetupFacts DEF FirstStage, StagesOf, AfterThrow, EnsureStage, Stage, Ended
<1>2. CASE s \in Consumes
  BY <1>2, SetupFacts DEF FirstStage, StagesOf, AfterThrow, ConsumeStage, Stage, Ended
<1>3. CASE s = Exchanges
  BY <1>3, SetupFacts DEF FirstStage, StagesOf, AfterThrow, ExchangeStage, Stage, Ended
<1>q. QED BY <1>1, <1>2, <1>3, SetupFacts

(* What a call of addSetup waits for. *)
LEMMA CallFacts ==
    ASSUME Shape, NEW p \in CallStage, NEW n \in Name \cup {"none"}
    PROVE  /\ At(p, n) \in Call /\ At(p, n).pc = p /\ At(p, n).app = n
           /\ Rest(p) \in Call /\ Rest(p).pc = p
BY ChannelFacts DEF Shape, LinkShape, At, Rest, Call
-----------------------------------------------------------------------------
(* What a step does to the run of setup s on channel c. *)

Cleared(s, c) == Restart /\ run'[<<s, c>>] = "none" /\ link' = "down"
Begun(s, c) ==
    /\ run'[<<s, c>>] = FirstStage(s)
    /\ c = channel /\ channel' = channel /\ link' = "open"
Advanced(s, c) ==
    /\ c = channel /\ channel' = channel /\ link = "open" /\ link' = "open"
    /\ run'[<<s, c>>] \in StagesOf(s) \ {"none", "failed", "backoff"}
    /\ s \in Ensures => /\ run[<<s, c>>] \in {"request", "response", "webhook"}
                        /\ run'[<<s, c>>] = AfterQueue(run[<<s, c>>])
                        /\ DeclaredAt(s, run[<<s, c>>]) \in queue'
Thrown(s, c) ==
    /\ run'[<<s, c>>] = AfterThrow(s)
    /\ c = channel /\ channel' = channel /\ link = "open" /\ link' \in {"down", "dead"}
Woken(s, c) ==
    /\ s \in Consumes /\ run[<<s, c>>] = "backoff"
    /\ run'[<<s, c>>] \in {AfterThrow(s), "gaveup"}
    /\ UNCHANGED <<link, channel>>

Moved(s, c) ==
    \/ run'[<<s, c>>] = run[<<s, c>>]
    \/ Cleared(s, c) \/ Begun(s, c) \/ Advanced(s, c) \/ Thrown(s, c) \/ Woken(s, c)

RunMoves ==
    /\ run' = [x \in Setup \X Channel |-> run'[x]]
    /\ \A s \in Setup, c \in Channel : Moved(s, c)

(* A run that goes on is that of the setup at the head of the channel's calls;
   nothing else moves. *)
LEMMA ProceedMoves ==
    ASSUME Shape, NEW s \in Setup, NEW stage, Proceed(s, stage), rpc # <<>>,
           stage \in StagesOf(s) \ {"none", "failed", "backoff"},
           s \in Ensures => /\ run[<<s, channel>>] \in {"request", "response", "webhook"}
                           /\ stage = AfterQueue(run[<<s, channel>>])
                           /\ DeclaredAt(s, run[<<s, channel>>]) \in queue'
    PROVE  RunMoves
<1>1. /\ link = "open" /\ link' = "open" /\ channel' = channel /\ channel \in Channel
      /\ run \in [Setup \X Channel -> Stage]
      /\ run' = [run EXCEPT ![<<s, channel>>] = stage]
  BY DEF Proceed, RunGoes, Shape, LinkShape, WrapperShape
<1>2. \A d \in Setup, c \in Channel :
         run'[<<d, c>>] = IF d = s /\ c = channel THEN stage ELSE run[<<d, c>>]
  BY <1>1
<1>3. ASSUME NEW d \in Setup, NEW c \in Channel
      PROVE  Moved(d, c)
  <2>1. CASE d = s /\ c = channel
    <3>1. Advanced(d, c)
      BY <1>1, <1>2, <2>1 DEF Advanced
    <3>q. QED BY <3>1 DEF Moved
  <2>2. CASE ~(d = s /\ c = channel)
    BY <1>2, <2>2 DEF Moved
  <2>q. QED BY <2>1, <2>2
<1>q. QED BY <1>1, <1>3 DEF RunMoves

(* The channel closes: every run that waits for the broker throws. *)
LEMMA CloseMoves ==
    ASSUME Shape, CloseChannel, channel' = channel, link' \in {"down", "dead"}
    PROVE  RunMoves
<1>1. /\ run \in [Setup \X Channel -> Stage] /\ channel \in Channel
      /\ run' = [x \in Setup \X Channel |->
                    IF x[1] \in Range(rpc) /\ x[2] = channel THEN AfterThrow(x[1]) ELSE run[x]]
  BY DEF CloseChannel, Shape, LinkShape, WrapperShape
<1>2. Range(rpc) # {} => link = "open"
  BY DEF Range, Shape, LinkShape
<1>3. ASSUME NEW d \in Setup, NEW c \in Channel
      PROVE  Moved(d, c)
  <2>1. run'[<<d, c>>] = IF d \in Range(rpc) /\ c = channel THEN AfterThrow(d) ELSE run[<<d, c>>]
    BY <1>1
  <2>2. CASE d \in Range(rpc) /\ c = channel
    BY <1>2, <2>1, <2>2 DEF Moved, Thrown
  <2>3. CASE ~(d \in Range(rpc) /\ c = channel)
    BY <2>1, <2>3 DEF Moved
  <2>q. QED BY <2>2, <2>3
<1>q. QED BY <1>1, <1>3 DEF RunMoves

(* The steps of a setup function. *)
LEMMA SetupStepMoves ==
    ASSUME Shape, NEW s \in Setup, SetupStep(s)
    PROVE  RunMoves
<1>t. channel \in Channel /\ run[<<s, channel>>] \in StagesOf(s) /\ (link = "up" => rpc = <<>>)
  BY DEF Shape, LinkShape, WrapperShape
<1>1. CASE RefuseBind(s) \/ RefuseCheck(s)
  BY <1>t, <1>1, CloseMoves DEF RefuseBind, RefuseCheck, Refuse
<1>2. CASE DeclareExchanges(s)
  <2>1. s = Exchanges /\ s \notin Ensures /\ s \notin Consumes /\ rpc # <<>>
    BY <1>t, <1>2, SetupFacts DEF DeclareExchanges, IsNext, StagesOf, ConsumeStage, EnsureStage
  <2>2. PICK stage \in {"declareDlx", "done"} : Proceed(s, stage)
    BY <1>2 DEF DeclareExchanges
  <2>3. stage \in StagesOf(s) \ {"none", "failed", "backoff"}
    BY <2>1 DEF StagesOf, ExchangeStage
  <2>q. QED BY <2>1, <2>2, <2>3, ProceedMoves
<1>3. CASE DeclareQueue(s)
  <2>1. s \in Ensures /\ s \notin Consumes /\ rpc # <<>>
        /\ run[<<s, channel>>] \in {"request", "response", "webhook"}
    BY <1>t, <1>3, SetupFacts DEF DeclareQueue, IsNext, StagesOf, ConsumeStage, ExchangeStage
  <2>2. AfterQueue(run[<<s, channel>>]) \in StagesOf(s) \ {"none", "failed", "backoff"}
    BY <2>1 DEF AfterQueue, StagesOf, EnsureStage
  <2>3. DeclaredAt(s, run[<<s, channel>>]) \in queue'
    BY <1>3 DEF DeclareQueue
  <2>q. QED BY <1>3, <2>1, <2>2, <2>3, ProceedMoves DEF DeclareQueue
<1>4. CASE CheckQueue(s) \/ Register(s)
  <2>1. s \in Consumes /\ s \notin Ensures /\ rpc # <<>>
    BY <1>t, <1>4, SetupFacts DEF CheckQueue, Register, IsNext, StagesOf, EnsureStage, ExchangeStage
  <2>2. PICK stage \in {"consume", "done"} : Proceed(s, stage)
    BY <1>4 DEF CheckQueue, Register
  <2>3. stage \in StagesOf(s) \ {"none", "failed", "backoff"}
    BY <2>1 DEF StagesOf, ConsumeStage
  <2>q. QED BY <2>1, <2>2, <2>3, ProceedMoves
<1>q. QED BY <1>1, <1>2, <1>3, <1>4 DEF SetupStep

(* The setup that AddSetup keeps begins at once on an open channel. *)
LEMMA AddSetupMoves ==
    ASSUME Shape, NEW x \in Caller, NEW s \in Setup, NEW waiting, NEW after,
           AddSetup(x, s, waiting, after)
    PROVE  RunMoves
<1>1. run \in [Setup \X Channel -> Stage] /\ channel \in Channel
      /\ channel' = channel /\ link' = link
  BY DEF AddSetup, Shape, LinkShape, WrapperShape
<1>2. CASE link = "open"
  <2>1. run' = [run EXCEPT ![<<s, channel>>] = FirstStage(s)]
    BY <1>2 DEF AddSetup, RunGoes
  <2>2. \A d \in Setup, c \in Channel :
           run'[<<d, c>>] = IF d = s /\ c = channel THEN FirstStage(s) ELSE run[<<d, c>>]
    BY <1>1, <2>1
  <2>q. QED BY <1>1, <1>2, <2>1, <2>2 DEF RunMoves, Moved, Begun
<1>3. CASE link # "open"
  BY <1>1, <1>3 DEF AddSetup, RunMoves, Moved
<1>q. QED BY <1>2, <1>3

(* Which setup a caller adds. *)
LEMMA AddedSetups ==
    ASSUME Shape, NEW x \in Caller
    PROVE  /\ call[x].pc \in {"ensure", "ensuring"} => Ensure(x, call[x].app) \in Ensures
           /\ call[x].pc \in {"consume", "consuming"} =>
                 x \in Kind /\ Consume(x, call[x].app) \in Consumes
<1>1. CallShape(x)
  BY DEF Shape, CallerShape
<1>2. CASE x \in Kind
  BY <1>1, <1>2, SetupFacts DEF CallShape, ShapeOf
<1>3. CASE x \notin Kind
  <2>1. x \in Name
    BY <1>3 DEF Caller
  <2>q. QED BY <1>1, <1>3, <2>1, SetupFacts DEF CallShape, ShapeOf, RequestStage
<1>q. QED BY <1>2, <1>3

(* Every step moves the runs as described. *)
LEMMA StepMoves ==
    ASSUME Shape, [Next]_vars
    PROVE  RunMoves
<1>t. /\ run \in [Setup \X Channel -> Stage] /\ channel \in Channel
      /\ link = "up" => rpc = <<>>
  BY DEF Shape, LinkShape, WrapperShape
<1>0. ASSUME run' = run
      PROVE  RunMoves
  BY <1>t, <1>0 DEF RunMoves, Moved
<1>1. CASE Open
  <2>1. /\ link' = "open" /\ channel' = channel
        /\ run' = [x \in Setup \X Channel |->
                      IF x[1] \in Range(setups) /\ x[2] = channel THEN FirstStage(x[1]) ELSE run[x]]
    BY <1>1 DEF Open
  <2>2. \A d \in Setup, c \in Channel :
           run'[<<d, c>>] = IF d \in Range(setups) /\ c = channel THEN FirstStage(d) ELSE run[<<d, c>>]
    BY <2>1
  <2>q. QED BY <2>1, <2>2 DEF RunMoves, Moved, Begun
<1>2. CASE Drop
  BY <1>t, <1>2, CloseMoves DEF Drop
<1>3. CASE Restart
  BY <1>3 DEF Restart, RunMoves, Moved, Cleared
<1>4. ASSUME NEW s \in Setup, SetupStep(s)
      PROVE  RunMoves
  BY <1>4, SetupStepMoves
<1>5. ASSUME NEW s \in Setup, NEW c \in Channel, Wake(s, c)
      PROVE  RunMoves
  <2>1. s \in Consumes
    BY <1>5, SetupFacts DEF Wake, Shape, WrapperShape, StagesOf, EnsureStage, ExchangeStage
  <2>2. PICK stage \in {AfterThrow(s), "gaveup"} : run' = [run EXCEPT ![<<s, c>>] = stage]
    BY <1>5 DEF Wake, RunGoes
  <2>3. UNCHANGED <<link, channel>> /\ run[<<s, c>>] = "backoff"
    BY <1>5 DEF Wake, wrapper
  <2>4. \A d \in Setup, e \in Channel :
           run'[<<d, e>>] = IF d = s /\ e = c THEN stage ELSE run[<<d, e>>]
    BY <1>t, <2>2
  <2>5. Woken(s, c)
    BY <1>5, <2>1, <2>3, <2>4 DEF Woken
  <2>6. run' = [x \in Setup \X Channel |-> run'[x]]
    BY <1>t, <2>2
  <2>q. QED BY <2>4, <2>5, <2>6 DEF RunMoves, Moved
<1>6. ASSUME NEW x \in Caller, AddEnsure(x)
      PROVE  RunMoves
  <2>1. Ensure(x, call[x].app) \in Setup
    BY <1>6, AddedSetups, SetupFacts DEF AddEnsure
  <2>q. QED BY <1>6, <2>1, AddSetupMoves DEF AddEnsure
<1>7. ASSUME NEW k \in Kind, AddConsume(k)
      PROVE  RunMoves
  <2>1. Consume(k, call[k].app) \in Setup /\ k \in Caller
    BY <1>7, AddedSetups, SetupFacts DEF AddConsume, Caller
  <2>q. QED BY <1>7, <2>1, AddSetupMoves DEF AddConsume
<1>8. ASSUME \/ Connect \/ UNCHANGED vars
             \/ \E k \in Kind : \/ FindApplications(k) \/ FindFails(k) \/ AwaitConsume(k)
                                \/ \E n \in Name : NextApplication(k, n)
             \/ \E x \in Caller : AwaitEnsure(x)
             \/ \E o \in Name : Request(o) \/ Publish(o) \/ SendRequest(o) \/ PublishWebhook(o)
      PROVE  RunMoves
  BY <1>0, <1>8 DEF Connect, vars, FindApplications, FindFails, AwaitConsume, NextApplication,
     AwaitEnsure, Request, Publish, SendRequest, PublishWebhook
<1>9. Kind \subseteq Caller /\ Name \subseteq Caller
  BY DEF Caller
<1>q. QED
  BY <1>1, <1>2, <1>3, <1>4, <1>5, <1>6, <1>7, <1>8, <1>9 DEF Next, ServiceStep, CallStep
-----------------------------------------------------------------------------
(* The shape of the state is kept. *)

(* Append adds its element to the range, as addSetup adds to the list. *)
LEMMA AppendRange ==
    ASSUME NEW S, NEW q \in Seq(S), NEW e \in S
    PROVE  /\ Append(q, e) \in Seq(S) /\ Range(Append(q, e)) = Range(q) \cup {e}
           /\ Range(q) \subseteq S
<1>1. Append(q, e) \in Seq(S) /\ Len(Append(q, e)) = Len(q) + 1 /\ Len(q) \in Nat
      /\ \A i \in 1..Len(q) : Append(q, e)[i] = q[i]
      /\ Append(q, e)[Len(q) + 1] = e
  OBVIOUS
<1>2. DOMAIN q = 1..Len(q) /\ DOMAIN Append(q, e) = 1..(Len(q) + 1)
  BY <1>1
<1>3. \A i \in 1..(Len(q) + 1) : i \in 1..Len(q) \/ i = Len(q) + 1
  BY <1>1
<1>4. \A i \in 1..Len(q) : i \in 1..(Len(q) + 1) /\ q[i] \in S
  BY <1>1
<1>5. Len(q) + 1 \in 1..(Len(q) + 1)
  BY <1>1
<1>q. QED BY <1>1, <1>2, <1>3, <1>4, <1>5 DEF Range

(* The runs stay in the stages of their setups. *)
LEMMA RunShape ==
    ASSUME Shape, RunMoves
    PROVE  /\ run' \in [Setup \X Channel -> Stage]
           /\ \A s \in Setup, c \in Channel : run'[<<s, c>>] \in StagesOf(s)
<1>1. ASSUME NEW s \in Setup, NEW c \in Channel
      PROVE  run'[<<s, c>>] \in StagesOf(s) /\ run'[<<s, c>>] \in Stage
  <2>1. run[<<s, c>>] \in StagesOf(s) /\ Moved(s, c)
    BY DEF Shape, WrapperShape, RunMoves
  <2>2. run'[<<s, c>>] \in StagesOf(s)
    BY <2>1, StageFacts DEF Moved, Cleared, Begun, Advanced, Thrown, Woken, StagesOf, ConsumeStage
  <2>q. QED BY <2>2, StageFacts
<1>2. \A x \in Setup \X Channel : run'[x] \in Stage
  BY <1>1
<1>q. QED BY <1>1, <1>2 DEF RunMoves

(* The connection's numbers and states. *)
LEMMA LinkShapeStep ==
    ASSUME Shape, [Next]_vars
    PROVE  LinkShape'
<1> USE ChannelFacts DEF Shape, LinkShape
<1>1. CASE Connect \/ Open \/ Drop \/ Restart
  BY <1>1 DEF Connect, Open, Drop, Restart, CloseChannel
<1>2. ASSUME NEW s \in Setup, SetupStep(s)
      PROVE  LinkShape'
  <2>1. rpc # <<>> /\ link = "open"
    BY <1>2 DEF SetupStep, DeclareExchanges, DeclareQueue, RefuseBind, CheckQueue, RefuseCheck,
       Register, IsNext
  <2>2. \/ link' = link /\ channel' = channel
        \/ link' = "dead" /\ channel' = channel /\ rpc' = <<>>
    BY <1>2 DEF SetupStep, DeclareExchanges, DeclareQueue, RefuseBind, CheckQueue, RefuseCheck,
       Register, Refuse, Proceed, CloseChannel
  <2>q. QED BY <2>1, <2>2
<1>3. ASSUME NEW x \in Caller, AddEnsure(x) \/ AddConsume(x)
      PROVE  LinkShape'
  <2>1. link' = link /\ channel' = channel /\ (link # "open" => rpc' = rpc)
    BY <1>3 DEF AddEnsure, AddConsume, AddSetup
  <2>q. QED BY <2>1
<1>4. ASSUME UNCHANGED wrapper
      PROVE  LinkShape'
  BY <1>4 DEF wrapper
<1>5. Kind \subseteq Caller /\ Name \subseteq Caller
  BY DEF Caller
<1>q. QED
  BY <1>1, <1>2, <1>3, <1>4, <1>5 DEF Next, ServiceStep, CallStep, vars, Wake, FindApplications,
     FindFails, AwaitConsume, NextApplication, AwaitEnsure, Request, Publish, SendRequest,
     PublishWebhook

(* The wrapper's list and the opened setups. *)
LEMMA WrapperShapeStep ==
    ASSUME Shape, [Next]_vars
    PROVE  WrapperShape'
<1>t. WrapperShape /\ LinkShape
  BY DEF Shape
<1>r. /\ run' \in [Setup \X Channel -> Stage]
      /\ \A s \in Setup, c \in Channel : run'[<<s, c>>] \in StagesOf(s)
  BY StepMoves, RunShape
<1>0. ASSUME UNCHANGED <<setups, opened>>, tries' \in [Consumes -> Nat]
      PROVE  WrapperShape'
  BY <1>t, <1>r, <1>0 DEF WrapperShape
<1>c. CloseChannel => tries' \in [Consumes -> Nat]
  BY <1>t DEF CloseChannel, WrapperShape
<1>1. CASE Connect \/ Drop
  BY <1>t, <1>0, <1>1, <1>c DEF Connect, Drop, WrapperShape
<1>2. CASE Open
  <2>1. Range(setups) \subseteq Setup
    BY <1>t, AppendRange, SetupFacts DEF WrapperShape
  <2>q. QED BY <1>t, <1>r, <1>2, <2>1 DEF Open, WrapperShape
<1>3. CASE Restart
  <2>1. <<Exchanges>> \in Seq(Setup)
    BY SetupFacts
  <2>2. tries' \in [Consumes -> Nat] /\ opened' \in [Channel -> SUBSET Setup]
    BY <1>3 DEF Restart
  <2>q. QED BY <1>r, <1>3, <2>1, <2>2 DEF Restart, WrapperShape
<1>4. ASSUME NEW s \in Setup, SetupStep(s)
      PROVE  WrapperShape'
  <2>1. \/ UNCHANGED <<setups, opened, tries>>
        \/ UNCHANGED <<setups, opened>> /\ CloseChannel
    BY <1>4 DEF SetupStep, DeclareExchanges, DeclareQueue, RefuseBind, CheckQueue, RefuseCheck,
       Register, Refuse, Proceed
  <2>q. QED BY <1>t, <1>0, <1>c, <2>1 DEF WrapperShape
<1>5. ASSUME NEW s \in Setup, NEW c \in Channel, Wake(s, c)
      PROVE  WrapperShape'
  <2>1. tries' \in [Consumes -> Nat]
    BY <1>t, <1>5 DEF Wake, WrapperShape
  <2>q. QED BY <1>0, <1>5, <2>1 DEF Wake, wrapper
<1>6. ASSUME NEW x \in Caller, AddEnsure(x) \/ (x \in Kind /\ AddConsume(x))
      PROVE  WrapperShape'
  <2>1. PICK s \in Setup : setups' = Append(setups, s)
    BY <1>6, AddedSetups, SetupFacts DEF AddEnsure, AddConsume, AddSetup
  <2>2. UNCHANGED <<opened, tries>>
    BY <1>6 DEF AddEnsure, AddConsume, AddSetup
  <2>q. QED BY <1>t, <1>r, <2>1, <2>2 DEF WrapperShape
<1>7. ASSUME UNCHANGED <<setups, opened, tries>>
      PROVE  WrapperShape'
  BY <1>t, <1>0, <1>7 DEF WrapperShape
<1>8. Kind \subseteq Caller /\ Name \subseteq Caller
  BY DEF Caller
<1>q. QED
  BY <1>1, <1>2, <1>3, <1>4, <1>5, <1>6, <1>7, <1>8 DEF Next, ServiceStep, CallStep, vars, wrapper,
     FindApplications, FindFails, AwaitConsume, NextApplication, AwaitEnsure, Request, Publish,
     SendRequest, PublishWebhook

(* A caller goes on to another await of its own. *)
LEMMA CallGoesShape ==
    ASSUME Shape, NEW x \in Caller, NEW y \in Call, ShapeOf(x, y), CallGoes(x, y),
           UNCHANGED <<sent, hook, todo, faults>>
    PROVE  CallerShape'
<1>1. call' \in [Caller -> Call] /\ \A z \in Caller : call'[z] = IF z = x THEN y ELSE call[z]
  BY DEF Shape, CallerShape, CallGoes
<1>2. \A z \in Caller : CallShape(z)'
  BY <1>1 DEF Shape, CallerShape, CallShape
<1>q. QED BY <1>1, <1>2 DEF Shape, CallerShape

(* Where a caller goes after its setup, or its failure, is one of its awaits. *)
LEMMA AfterShape ==
    ASSUME Shape, NEW x \in Caller, call[x].pc \in {"ensure", "ensuring"}
    PROVE  /\ AfterEnsure(x, call[x].app) \in Call /\ ShapeOf(x, AfterEnsure(x, call[x].app))
           /\ AfterFailure(x) \in Call /\ ShapeOf(x, AfterFailure(x))
           /\ x \notin Kind => AfterEnsure(x, call[x].app).pc = "send" /\ call[x].app = Sanitize[x]
           /\ AfterFailure(x).pc # "send"
<1>1. /\ call[x].app \in Name \cup {"none"} /\ ShapeOf(x, call[x])
      /\ {"consume", "send", "next", "failed"} \subseteq CallStage
  BY DEF Shape, CallerShape, CallShape, Call, CallStage
<1>2. CASE x \in Kind
  BY <1>1, <1>2, CallFacts DEF AfterEnsure, AfterFailure, ShapeOf, ServiceStage
<1>3. CASE x \notin Kind
  BY <1>1, <1>3, CallFacts DEF AfterEnsure, AfterFailure, ShapeOf, RequestStage
<1>q. QED BY <1>2, <1>3

(* addSetup leaves its caller at the await of the run, or past it. *)
LEMMA AddSetupShape ==
    ASSUME Shape, NEW x \in Caller, NEW s, NEW waiting \in CallStage, NEW after \in Call,
           AddSetup(x, s, waiting, after), ShapeOf(x, after), UNCHANGED <<sent, hook>>,
           ShapeOf(x, [call[x] EXCEPT !.pc = waiting, !.on = channel])
    PROVE  CallerShape'
<1>1. [call[x] EXCEPT !.pc = waiting, !.on = channel] \in Call
  BY DEF Shape, CallerShape, LinkShape, Call
<1>2. UNCHANGED <<todo, faults>>
  BY DEF AddSetup
<1>3. \/ CallGoes(x, [call[x] EXCEPT !.pc = waiting, !.on = channel])
      \/ CallGoes(x, after)
  BY DEF AddSetup
<1>q. QED BY <1>1, <1>2, <1>3, CallGoesShape

(* The steps of the services keep the shape of the callers. *)
LEMMA ServiceShape ==
    ASSUME Shape, NEW k \in Kind,
           \/ FindApplications(k) \/ FindFails(k) \/ AddConsume(k) \/ AwaitConsume(k)
           \/ \E n \in Name : NextApplication(k, n)
    PROVE  CallerShape'
<1>t. /\ k \in Caller /\ CallerShape
      /\ {"next", "ensure", "consuming"} \subseteq CallStage
  BY DEF Caller, Shape, CallStage
<1>n. /\ Rest("next") \in Call /\ ShapeOf(k, Rest("next"))
  BY <1>t, CallFacts DEF ShapeOf, ServiceStage
<1>1. CASE FindApplications(k)
  <2>1. todo' \in [Kind -> SUBSET StartApps] /\ UNCHANGED <<sent, hook, faults>>
    BY <1>t, <1>1 DEF FindApplications, CallerShape, data
  <2>2. call' \in [Caller -> Call] /\ \A z \in Caller : CallShape(z)'
    BY <1>t, <1>n, <1>1 DEF FindApplications, CallGoes, CallerShape, CallShape
  <2>q. QED BY <1>t, <2>1, <2>2 DEF CallerShape
<1>2. CASE FindFails(k)
  <2>1. faults' \in Nat /\ UNCHANGED <<sent, hook, todo>>
    BY <1>t, <1>2 DEF FindFails, CallerShape, data
  <2>2. call' \in [Caller -> Call] /\ \A z \in Caller : CallShape(z)'
    BY <1>t, <1>n, <1>2 DEF FindFails, CallGoes, CallerShape, CallShape
  <2>q. QED BY <1>t, <2>1, <2>2 DEF CallerShape
<1>3. CASE AddConsume(k)
  <2>1. ShapeOf(k, [call[k] EXCEPT !.pc = "consuming", !.on = channel])
    BY <1>t, <1>3 DEF AddConsume, CallerShape, CallShape, ShapeOf, ServiceStage, Call
  <2>q. QED BY <1>t, <1>n, <1>3, <2>1, AddSetupShape DEF AddConsume, data, AddSetup
<1>4. CASE AwaitConsume(k)
  BY <1>t, <1>n, <1>4, CallGoesShape DEF AwaitConsume, data
<1>5. ASSUME NEW n \in Name, NextApplication(k, n)
      PROVE  CallerShape'
  <2>1. n \in StartApps /\ todo' \in [Kind -> SUBSET StartApps] /\ UNCHANGED <<sent, hook, faults>>
    BY <1>t, <1>5 DEF NextApplication, CallerShape, data
  <2>2. At("ensure", n) \in Call /\ ShapeOf(k, At("ensure", n))
    BY <1>t, <2>1, CallFacts DEF ShapeOf, ServiceStage
  <2>3. call' \in [Caller -> Call] /\ \A z \in Caller : CallShape(z)'
    BY <1>t, <1>5, <2>2 DEF NextApplication, CallGoes, CallerShape, CallShape
  <2>q. QED BY <1>t, <2>1, <2>3 DEF CallerShape
<1>q. QED BY <1>1, <1>2, <1>3, <1>4, <1>5

(* The awaits of addSetup keep the shape of the callers. *)
LEMMA CallStepShape ==
    ASSUME Shape, NEW x \in Caller, CallStep(x)
    PROVE  CallerShape'
<1>1. CASE AddEnsure(x)
  <2>1. "ensuring" \in CallStage /\ ShapeOf(x, [call[x] EXCEPT !.pc = "ensuring", !.on = channel])
    BY <1>1 DEF AddEnsure, Shape, CallerShape, CallShape, ShapeOf, ServiceStage, RequestStage, Call,
       CallStage
  <2>q. QED BY <1>1, <2>1, AfterShape, AddSetupShape DEF AddEnsure, data, AddSetup
<1>2. CASE AwaitEnsure(x)
  BY <1>2, AfterShape, CallGoesShape DEF AwaitEnsure, data
<1>q. QED BY <1>1, <1>2 DEF CallStep

(* The steps of the requests keep the shape of the callers. *)
LEMMA RequestShape ==
    ASSUME Shape, NEW o \in Name,
           Request(o) \/ Publish(o) \/ SendRequest(o) \/ PublishWebhook(o)
    PROVE  CallerShape'
<1>t. /\ o \in Caller /\ CallerShape /\ Sanitize[o] \in Name
      /\ {"record", "ensure", "over"} \subseteq CallStage
      /\ call[o].pc \in {"idle", "record", "send"} => o \notin Kind
  BY SetupFacts DEF Caller, Shape, CallStage, CallerShape, CallShape, ShapeOf, ServiceStage
<1>1. CASE Request(o)
  <2>1. Rest("record") \in Call /\ ShapeOf(o, Rest("record"))
    BY <1>t, <1>1, CallFacts DEF Request, ShapeOf, RequestStage
  <2>q. QED BY <1>t, <1>1, <2>1, CallGoesShape DEF Request, data
<1>2. CASE Publish(o)
  <2>1. At("ensure", Sanitize[o]) \in Call /\ ShapeOf(o, At("ensure", Sanitize[o]))
    BY <1>t, <1>2, CallFacts DEF Publish, ShapeOf, RequestStage
  <2>q. QED BY <1>t, <1>2, <2>1, CallGoesShape DEF Publish, data
<1>3. CASE SendRequest(o)
  <2>1. Rest("over") \in Call /\ ShapeOf(o, Rest("over"))
    BY <1>t, <1>3, CallFacts DEF SendRequest, ShapeOf, RequestStage
  <2>2. call' \in [Caller -> Call] /\ \A z \in Caller : CallShape(z)'
    BY <1>t, <1>3, <2>1 DEF SendRequest, CallGoes, CallerShape, CallShape
  <2>3. sent' \in [Name -> {"none", "queued", "dropped"}] /\ UNCHANGED <<hook, todo, faults>>
    BY <1>t, <1>3 DEF SendRequest, CallerShape, Placed
  <2>q. QED BY <1>t, <2>2, <2>3 DEF CallerShape
<1>4. CASE PublishWebhook(o)
  <2>1. hook' \in [Name -> {"none", "queued", "dropped"}] /\ UNCHANGED <<sent, call, todo, faults>>
    BY <1>t, <1>4 DEF PublishWebhook, CallerShape, Placed
  <2>q. QED BY <1>t, <2>1 DEF CallerShape, CallShape
<1>q. QED BY <1>1, <1>2, <1>3, <1>4

(* Every step keeps the shape of the state. *)
LEMMA ShapeStep == Shape /\ [Next]_vars => Shape'
<1> SUFFICES ASSUME Shape, [Next]_vars PROVE Shape'
  OBVIOUS
<1>0. Kind \subseteq Caller /\ Name \subseteq Caller
  BY DEF Caller
<1>1. ASSUME UNCHANGED <<call, todo, sent, hook, faults>>
      PROVE  CallerShape'
  BY <1>1 DEF Shape, CallerShape, CallShape
<1>2. ASSUME NEW s \in Setup, SetupStep(s) \/ \E c \in Channel : Wake(s, c)
      PROVE  CallerShape'
  BY <1>1, <1>2 DEF SetupStep, DeclareExchanges, DeclareQueue, RefuseBind, CheckQueue, RefuseCheck,
     Register, Refuse, Proceed, Wake, data
<1>3. ASSUME Restart
      PROVE  CallerShape'
  <2>1. /\ {"waiting", "over"} \subseteq CallStage /\ Rest("waiting") \in Call /\ Rest("over") \in Call
        /\ \A x \in Kind : ShapeOf(x, Rest("waiting"))
        /\ \A x \in Caller \ Kind : ShapeOf(x, Rest("over"))
    <3>1. {"waiting", "over"} \subseteq CallStage
      BY DEF CallStage
    <3>q. QED BY <3>1, CallFacts DEF ShapeOf, ServiceStage, RequestStage
  <2>2. call' \in [Caller -> Call] /\ \A x \in Caller : CallShape(x)'
    BY <1>3, <2>1 DEF Restart, Shape, CallerShape, CallShape
  <2>3. todo' \in [Kind -> SUBSET StartApps] /\ UNCHANGED <<sent, hook, faults>>
    BY <1>3 DEF Restart, data
  <2>q. QED BY <2>2, <2>3 DEF Shape, CallerShape
<1>4. Connect \/ Open \/ Drop \/ UNCHANGED vars => CallerShape'
  BY <1>1 DEF vars, data, Connect, Open, Drop
<1>5. \A k \in Kind : ServiceStep(k) \/ FindFails(k) => CallerShape'
  BY <1>0, ServiceShape, CallStepShape DEF ServiceStep
<1>6. \A o \in Name : Request(o) \/ Publish(o) \/ CallStep(o) \/ SendRequest(o) \/ PublishWebhook(o)
          => CallerShape'
  BY <1>0, CallStepShape, RequestShape
<1>7. CallerShape'
  BY <1>2, <1>3, <1>4, <1>5, <1>6 DEF Next
<1>q. QED BY <1>7, LinkShapeStep, WrapperShapeStep DEF Shape
-----------------------------------------------------------------------------
(* The runs tell what the broker has. *)

(* The queues that a run has declared when it is at a stage. *)
Reached(s, stage) ==
    /\ stage \in {"response", "webhook", "done"} => <<RequestQueue(s[2]), s[3]>> \in queue
    /\ stage \in {"webhook", "done"} => <<"response", s[3]>> \in queue
    /\ stage = "done" => <<"webhook", s[3]>> \in queue

DeclaredInv == \A s \in Ensures, c \in Channel : Reached(s, run[<<s, c>>])

(* Nothing has run on a channel that has not been opened. *)
Unopened(c) == c > channel \/ c = 0 \/ (c = channel /\ link = "up")
FreshInv == \A s \in Setup, c \in Channel : Unopened(c) => run[<<s, c>>] = "none"

(* On a channel that is open no setup has failed. *)
NoFailInv == link = "open" => \A s \in Setup : run[<<s, channel>>] # "failed"

RunInv == DeclaredInv /\ FreshInv /\ NoFailInv

(* What a step does to the connection, the queues and the list of setups. *)
WrapperMoves ==
    /\ queue \subseteq queue'
    /\ channel' = channel \/ (channel' = channel + 1 /\ link' = "up" /\ link = "down")
    /\ link' = "up" /\ channel' = channel => link = "up"
    /\ link' # "down" /\ channel' = channel => link # "down"
    /\ link' = "open" => /\ channel' = channel
                         /\ \/ link = "open" /\ opened' = opened
                            \/ link = "up" /\ opened'[channel] = Range(setups)
    /\ link' # "down" => Range(setups) \subseteq Range(setups')
    /\ link' = "down" => Restart \/ Range(setups) \subseteq Range(setups')

(* Every step does so. *)
LEMMA WrapperStep ==
    ASSUME Shape, [Next]_vars
    PROVE  WrapperMoves
<1>t. /\ LinkShape /\ WrapperShape
      /\ \A c \in Channel : c \in Nat
  BY ChannelFacts DEF Shape
<1>0. ASSUME UNCHANGED <<link, channel, opened>>, queue \subseteq queue',
             Range(setups) \subseteq Range(setups'), link # "open" \/ opened' = opened
      PROVE  WrapperMoves
  BY <1>0 DEF WrapperMoves
<1>1. CASE Connect \/ Drop \/ Open
  BY <1>t, <1>1 DEF Connect, Drop, Open, WrapperMoves, LinkShape, WrapperShape, broker
<1>2. CASE Restart
  BY <1>2 DEF Restart, WrapperMoves, broker
<1>3. ASSUME NEW s \in Setup, SetupStep(s)
      PROVE  WrapperMoves
  <2>1. UNCHANGED <<channel, setups, opened>> /\ queue \subseteq queue' /\ (link' = link \/ link' = "dead")
    BY <1>3 DEF SetupStep, DeclareExchanges, DeclareQueue, RefuseBind, CheckQueue, RefuseCheck,
       Register, Refuse, Proceed, broker
  <2>2. rpc # <<>> /\ link = "open"
    BY <1>t, <1>3 DEF SetupStep, DeclareExchanges, DeclareQueue, RefuseBind, CheckQueue, RefuseCheck,
       Register, IsNext, LinkShape
  <2>q. QED BY <1>0, <2>1, <2>2 DEF WrapperMoves
<1>4. ASSUME NEW x \in Caller, AddEnsure(x) \/ (x \in Kind /\ AddConsume(x))
      PROVE  WrapperMoves
  <2>1. PICK s \in Setup : setups' = Append(setups, s)
    BY <1>4, AddedSetups, SetupFacts DEF AddEnsure, AddConsume, AddSetup
  <2>2. UNCHANGED <<link, channel, opened, queue>>
    BY <1>4 DEF AddEnsure, AddConsume, AddSetup, broker
  <2>3. Range(setups) \subseteq Range(setups')
    BY <1>t, <2>1, AppendRange DEF WrapperShape
  <2>q. QED BY <1>0, <2>2, <2>3
<1>5. ASSUME UNCHANGED <<wrapper, broker>>
      PROVE  WrapperMoves
  BY <1>0, <1>5 DEF wrapper, broker
<1>6. Kind \subseteq Caller /\ Name \subseteq Caller
  BY DEF Caller
<1>7. \A k \in Kind : ServiceStep(k) \/ FindFails(k) => WrapperMoves
  BY <1>4, <1>5, <1>6 DEF ServiceStep, CallStep, FindApplications, FindFails, AwaitConsume,
     NextApplication, AwaitEnsure
<1>8. \A o \in Name : Request(o) \/ Publish(o) \/ CallStep(o) \/ SendRequest(o) \/ PublishWebhook(o)
          => WrapperMoves
  BY <1>4, <1>5, <1>6 DEF CallStep, AwaitEnsure, Request, Publish, SendRequest, PublishWebhook
<1>9. ASSUME NEW s \in Setup, NEW c \in Channel, Wake(s, c)
      PROVE  WrapperMoves
  BY <1>5, <1>9 DEF Wake
<1>10. UNCHANGED vars => WrapperMoves
  BY <1>5 DEF vars
<1>q. QED BY <1>1, <1>2, <1>3, <1>7, <1>8, <1>9, <1>10 DEF Next

(* Every step keeps what the runs tell. *)
LEMMA RunInvStep ==
    ASSUME Shape, Shape', RunInv, RunMoves, WrapperMoves
    PROVE  RunInv'
<1>t. /\ LinkShape /\ LinkShape' /\ channel \in Nat /\ channel' \in Nat
      /\ \A c \in Channel : c \in Nat
      /\ \A s \in Setup, c \in Channel : run[<<s, c>>] \in StagesOf(s) /\ Moved(s, c)
  BY ChannelFacts DEF Shape, LinkShape, WrapperShape, RunMoves
<1>1. DeclaredInv'
  <2> SUFFICES ASSUME NEW s \in Ensures, NEW c \in Channel
               PROVE  Reached(s, run[<<s, c>>])'
    BY DEF DeclaredInv
  <2>1. Reached(s, run[<<s, c>>]) /\ Moved(s, c) /\ s \in Setup /\ s \notin Consumes
    BY <1>t, SetupFacts DEF RunInv, DeclaredInv
  <2>2. queue \subseteq queue'
    BY DEF WrapperMoves
  <2>3. CASE Advanced(s, c)
    BY <2>1, <2>2, <2>3 DEF Advanced, Reached, AfterQueue, DeclaredAt
  <2>4. CASE ~Advanced(s, c)
    <3>1. run'[<<s, c>>] = run[<<s, c>>] \/ run'[<<s, c>>] \in {"none", "request", "failed"}
      BY <2>1, <2>4, StageFacts DEF Moved, Cleared, Begun, Thrown, Woken, AfterThrow
    <3>q. QED BY <2>1, <2>2, <3>1 DEF Reached
  <2>q. QED BY <2>3, <2>4
<1>2. FreshInv'
  <2> SUFFICES ASSUME NEW s \in Setup, NEW c \in Channel, Unopened(c)'
               PROVE  run'[<<s, c>>] = "none"
    BY DEF FreshInv
  <2>1. Moved(s, c) /\ c \in Nat
    BY <1>t
  <2>2. Unopened(c)
    BY <1>t, <2>1 DEF Unopened, WrapperMoves
  <2>3. run[<<s, c>>] = "none"
    BY <2>2 DEF RunInv, FreshInv
  <2>4. ~Begun(s, c) /\ ~Advanced(s, c) /\ ~Thrown(s, c)
    BY <1>t, <2>1, <2>2 DEF Begun, Advanced, Thrown, Unopened, LinkShape
  <2>q. QED BY <2>1, <2>3, <2>4 DEF Moved, Cleared, Woken
<1>3. NoFailInv'
  <2> SUFFICES ASSUME link' = "open", NEW s \in Setup
               PROVE  run'[<<s, channel'>>] # "failed"
    BY DEF NoFailInv
  <2>1. channel' = channel /\ link \in {"open", "up"} /\ channel \in Channel
    BY <1>t DEF WrapperMoves, LinkShape
  <2>2. run[<<s, channel>>] # "failed"
    BY <2>1 DEF RunInv, NoFailInv, FreshInv, Unopened
  <2>3. Moved(s, channel)
    BY <1>t, <2>1
  <2>q. QED
    BY <2>1, <2>2, <2>3, StageFacts DEF Moved, Cleared, Begun, Advanced, Thrown, Woken
<1>q. QED BY <1>1, <1>2, <1>3 DEF RunInv
-----------------------------------------------------------------------------
(* Requests and webhooks. *)

OwnSetup(o) == Ensure(o, Sanitize[o])
AllDeclared(o) ==
    /\ <<RequestQueue(o), Sanitize[o]>> \in queue
    /\ <<"response", Sanitize[o]>> \in queue
    /\ <<"webhook", Sanitize[o]>> \in queue

(* The queues of a request that is about to send exist, or will exist before
   the next channel sends anything. *)
Prepared(o) ==
    \/ AllDeclared(o)
    \/ /\ OwnSetup(o) \in Range(setups)
       /\ link = "open" => OwnSetup(o) \in opened[channel]

RequestInv ==
    \A o \in Name :
        /\ call[o].pc = "send" => Prepared(o)
        /\ sent[o] # "none" => sent[o] = "queued" /\ AllDeclared(o)
        /\ hook[o] = "dropped" => Sanitize[o] # o

(* A request that is about to send when a step begins stays prepared. *)
LEMMA PreparedStep ==
    ASSUME Shape, WrapperMoves, ~Restart, NEW o \in Name, Prepared(o)
    PROVE  Prepared(o)'
<1>1. CASE AllDeclared(o)
  BY <1>1 DEF WrapperMoves, AllDeclared, Prepared
<1>2. CASE ~AllDeclared(o)
  <2>1. /\ OwnSetup(o) \in Range(setups)
        /\ link = "open" => OwnSetup(o) \in opened[channel]
    BY <1>2 DEF Prepared
  <2>2. OwnSetup(o) \in Range(setups')
    BY <2>1 DEF WrapperMoves
  <2>3. link' = "open" => OwnSetup(o) \in opened'[channel']
    BY <2>1 DEF WrapperMoves
  <2>q. QED BY <2>2, <2>3 DEF Prepared, OwnSetup, Ensure
<1>q. QED BY <1>1, <1>2

(* A service sends no request of its own. *)
LEMMA ServiceNeverSends ==
    ASSUME Shape', NEW x \in Kind
    PROVE  call'[x].pc # "send"
BY DEF Shape, CallerShape, CallShape, ShapeOf, ServiceStage, Caller

(* How a request comes to send. *)
LEMMA ComesToSend ==
    ASSUME Shape, Shape', RunInv, WrapperMoves, NEW o \in Name, CallStep(o), call'[o].pc = "send"
    PROVE  Prepared(o)'
<1>t. /\ o \in Caller /\ CallShape(o) /\ link \in {"down", "up", "open", "dead"}
      /\ call \in [Caller -> Call] /\ setups \in Seq(Setup) /\ OwnSetup(o) \in Setup
      /\ OwnSetup(o) \in Ensures
  BY SetupFacts DEF Caller, Shape, CallerShape, LinkShape, WrapperShape, OwnSetup
<1>1. o \notin Kind
  BY <1>t, ServiceNeverSends
<1>2. CASE AddEnsure(o)
  <2>1. call[o].app = Sanitize[o]
    BY <1>t, <1>1, <1>2 DEF AddEnsure, CallShape, ShapeOf
  <2>2. link # "open"
    BY <1>t, <1>2 DEF AddEnsure, AddSetup, CallGoes, Call
  <2>3. setups' = Append(setups, OwnSetup(o)) /\ link' = link
    BY <1>2, <2>1 DEF AddEnsure, AddSetup, OwnSetup
  <2>4. OwnSetup(o) \in Range(setups')
    BY <1>t, <2>3, AppendRange
  <2>q. QED BY <2>2, <2>3, <2>4 DEF Prepared, OwnSetup, Ensure
<1>3. CASE AwaitEnsure(o)
  <2>1. call[o].app = Sanitize[o] /\ call[o].on \in Channel
    BY <1>t, <1>1, <1>3 DEF AwaitEnsure, CallShape, ShapeOf, Call
  <2>2. run[<<OwnSetup(o), call[o].on>>] = "done"
    <3>1. AfterFailure(o).pc # "send"
      BY <1>t, <1>3, AfterShape DEF AwaitEnsure
    <3>q. QED BY <1>t, <1>3, <2>1, <3>1 DEF AwaitEnsure, CallGoes, OwnSetup
  <2>3. Reached(OwnSetup(o), "done")
    BY <1>t, <2>1, <2>2 DEF RunInv, DeclaredInv
  <2>4. AllDeclared(o)
    BY <2>3 DEF Reached, AllDeclared, OwnSetup, Ensure
  <2>q. QED BY <2>4 DEF WrapperMoves, AllDeclared, Prepared
<1>q. QED BY <1>2, <1>3 DEF CallStep

(* What the wrapper sends has its queues. *)
LEMMA SentIsDeclared ==
    ASSUME Shape, RunInv, RequestInv, NEW o \in Name, SendRequest(o)
    PROVE  AllDeclared(o)
<1>t. /\ OwnSetup(o) \in Ensures /\ OwnSetup(o) \in Setup /\ OwnSetup(o) \notin Consumes
      /\ channel \in Channel /\ link = "open" /\ Settled(channel) /\ Prepared(o)
  BY SetupFacts DEF OwnSetup, Shape, LinkShape, SendRequest, CanSend, RequestInv
<1>1. CASE ~AllDeclared(o)
  <2>1. OwnSetup(o) \in opened[channel]
    BY <1>t, <1>1 DEF Prepared
  <2>2. run[<<OwnSetup(o), channel>>] \in Ended /\ run[<<OwnSetup(o), channel>>] # "failed"
        /\ run[<<OwnSetup(o), channel>>] \in EnsureStage
    BY <1>t, <2>1 DEF Settled, RunInv, NoFailInv, Shape, WrapperShape, StagesOf
  <2>3. Reached(OwnSetup(o), "done")
    BY <1>t, <2>2 DEF Ended, EnsureStage, RunInv, DeclaredInv
  <2>q. QED BY <2>3 DEF Reached, AllDeclared, OwnSetup, Ensure
<1>q. QED BY <1>1

(* Every step keeps every request prepared before it is sent. *)
LEMMA RequestStep ==
    ASSUME Shape, Shape', RunInv, RequestInv, WrapperMoves, [Next]_vars
    PROVE  RequestInv'
<1> SUFFICES ASSUME NEW o \in Name
             PROVE  /\ call'[o].pc = "send" => Prepared(o)'
                    /\ sent'[o] # "none" => sent'[o] = "queued" /\ AllDeclared(o)'
                    /\ hook'[o] = "dropped" => Sanitize[o] # o
  BY DEF RequestInv
<1>t. /\ call \in [Caller -> Call] /\ o \in Caller /\ Name \subseteq Caller /\ Kind \subseteq Caller
      /\ sent \in [Name -> {"none", "queued", "dropped"}]
      /\ hook \in [Name -> {"none", "queued", "dropped"}]
      /\ \A x \in Caller : CallShape(x)
      /\ AllDeclared(o) => AllDeclared(o)'
  BY DEF Shape, CallerShape, Caller, WrapperMoves, AllDeclared
<1>i. /\ call[o].pc = "send" => Prepared(o)
      /\ sent[o] # "none" => sent[o] = "queued" /\ AllDeclared(o)
      /\ hook[o] = "dropped" => Sanitize[o] # o
  BY DEF RequestInv
<1> DEFINE Goal == /\ call'[o].pc = "send" => Prepared(o)'
                   /\ sent'[o] # "none" => sent'[o] = "queued" /\ AllDeclared(o)'
                   /\ hook'[o] = "dropped" => Sanitize[o] # o
<1>0. ASSUME ~Restart, sent'[o] = sent[o], hook'[o] = hook[o],
             call'[o].pc = "send" => call[o].pc = "send"
      PROVE  Goal
  BY <1>t, <1>i, <1>0, PreparedStep
<1>r. CASE Restart
  <2>1. call'[o].pc # "send" /\ sent' = sent /\ hook' = hook
    BY <1>t, <1>r DEF Restart, Rest, data
  <2>q. QED BY <1>t, <1>i, <2>1
<1> HIDE DEF Goal
<1>1. ASSUME ~Restart,
             \/ Connect \/ Open \/ Drop \/ UNCHANGED vars
             \/ \E s \in Setup : SetupStep(s) \/ (\E c \in Channel : Wake(s, c))
      PROVE  Goal
  <2>1. UNCHANGED <<call, sent, hook>>
    BY <1>1 DEF Connect, Open, Drop, vars, SetupStep, DeclareExchanges, DeclareQueue, RefuseBind,
       CheckQueue, RefuseCheck, Register, Refuse, Proceed, Wake, data
  <2>q. QED BY <1>0, <1>1, <2>1
<1>2. ASSUME ~Restart, NEW x \in Caller, CallStep(x)
      PROVE  Goal
  <2>1. UNCHANGED <<sent, hook>>
    BY <1>2 DEF CallStep, AddEnsure, AwaitEnsure, AddSetup, data
  <2>2. CASE x = o
    BY <1>t, <1>i, <1>2, <2>1, <2>2, ComesToSend DEF Goal
  <2>3. CASE x # o
    <3>1. call'[o] = call[o]
      BY <1>t, <1>2, <2>3 DEF CallStep, AddEnsure, AwaitEnsure, AddSetup, CallGoes
    <3>q. QED BY <1>0, <1>2, <2>1, <3>1
  <2>q. QED BY <2>2, <2>3
<1>3. ASSUME ~Restart, NEW k \in Kind,
             \/ FindApplications(k) \/ FindFails(k) \/ AddConsume(k) \/ AwaitConsume(k)
             \/ \E n \in Name : NextApplication(k, n)
      PROVE  Goal
  <2>1. UNCHANGED <<sent, hook>>
    BY <1>3 DEF FindApplications, FindFails, AddConsume, AwaitConsume, NextApplication, AddSetup, data
  <2>2. PICK y : call' = [call EXCEPT ![k] = y]
    BY <1>3 DEF FindApplications, FindFails, AddConsume, AwaitConsume, NextApplication, AddSetup,
       CallGoes
  <2>3. o # k => call'[o] = call[o]
    BY <1>t, <2>2
  <2>q. QED BY <1>0, <1>3, <2>1, <2>3, ServiceNeverSends
<1>4. ASSUME ~Restart, NEW p \in Name, Request(p) \/ Publish(p)
      PROVE  Goal
  <2>1. UNCHANGED <<sent, hook>>
    BY <1>4 DEF Request, Publish, data
  <2>2. PICK y : call' = [call EXCEPT ![p] = y] /\ y.pc # "send"
    BY <1>4 DEF Request, Publish, CallGoes, Rest, At
  <2>3. call'[o] = IF o = p THEN y ELSE call[o]
    BY <1>t, <2>2
  <2>q. QED BY <1>0, <1>4, <2>1, <2>2, <2>3
<1>5. ASSUME ~Restart, NEW p \in Name, SendRequest(p)
      PROVE  Goal
  <2>1. hook' = hook
    BY <1>5 DEF SendRequest
  <2>2. CASE p = o
    <3>1. AllDeclared(o)
      BY <1>5, <2>2, SentIsDeclared
    <3>2. sent'[o] = "queued"
      BY <1>t, <1>5, <2>2, <3>1 DEF SendRequest, Placed, AllDeclared
    <3>3. call'[o].pc # "send"
      BY <1>t, <1>5, <2>2 DEF SendRequest, CallGoes, Rest
    <3>q. QED BY <1>t, <1>i, <2>1, <3>1, <3>2, <3>3 DEF Goal
  <2>3. CASE p # o
    <3>1. call'[o] = call[o] /\ sent'[o] = sent[o]
      BY <1>t, <1>5, <2>3 DEF SendRequest, CallGoes
    <3>q. QED BY <1>0, <1>5, <2>1, <3>1
  <2>q. QED BY <2>2, <2>3
<1>6. ASSUME ~Restart, NEW p \in Name, PublishWebhook(p)
      PROVE  Goal
  <2>1. UNCHANGED <<call, sent>>
    BY <1>6 DEF PublishWebhook
  <2>2. CASE p = o
    <3>1. sent[o] = "queued" /\ <<"webhook", Sanitize[o]>> \in queue
      BY <1>i, <1>6, <2>2 DEF PublishWebhook, AllDeclared
    <3>2. hook'[o] = Placed(<<"webhook", o>>)
      BY <1>t, <1>6, <2>2 DEF PublishWebhook
    <3>3. hook'[o] = "dropped" => Sanitize[o] # o
      BY <3>1, <3>2 DEF Placed
    <3>q. QED BY <1>t, <1>i, <1>6, <2>1, <3>3, PreparedStep DEF Goal
  <2>3. CASE p # o
    BY <1>t, <1>0, <1>6, <2>1, <2>3 DEF PublishWebhook
  <2>q. QED BY <2>2, <2>3
<1>q. QED
  <2>1. ~Restart => Goal
    BY <1>t, <1>1, <1>2, <1>3, <1>4, <1>5, <1>6 DEF Next, ServiceStep
  <2>q. QED BY <1>r, <2>1 DEF Goal
-----------------------------------------------------------------------------
(* The invariant, and what it says of requests and webhooks. *)

TopologyInv == Shape /\ RunInv /\ RequestInv

(* Before the process has a connection nothing has run and nothing is sent. *)
LEMMA TopologyInit == Init => TopologyInv
<1> SUFFICES ASSUME Init PROVE TopologyInv
  OBVIOUS
<1>1. LinkShape
  BY ChannelFacts, LimitAssumption DEF Init, LinkShape
<1>2. WrapperShape
  <2>1. run \in [Setup \X Channel -> Stage] /\ \A s \in Setup, c \in Channel : run[<<s, c>>] = "none"
    BY DEF Init, Stage
  <2>2. setups \in Seq(Setup)
    BY SetupFacts DEF Init
  <2>3. opened \in [Channel -> SUBSET Setup] /\ tries \in [Consumes -> Nat]
    BY DEF Init
  <2>q. QED BY <2>1, <2>2, <2>3, StageFacts DEF WrapperShape
<1>3. CallerShape
  <2>1. call \in [Caller -> Call] /\ \A x \in Caller : CallShape(x)
    <3>1. {"waiting", "idle"} \subseteq CallStage /\ 0 \in Channel
      BY ChannelFacts DEF CallStage
    <3>q. QED BY <3>1 DEF Init, Rest, Call, CallShape, ShapeOf, ServiceStage, RequestStage
  <2>2. /\ todo \in [Kind -> SUBSET StartApps]
        /\ sent \in [Name -> {"none", "queued", "dropped"}]
        /\ hook \in [Name -> {"none", "queued", "dropped"}]
        /\ faults \in Nat
    BY DEF Init
  <2>q. QED BY <2>1, <2>2 DEF CallerShape
<1>4. RunInv
  <2>1. \A s \in Setup, c \in Channel : run[<<s, c>>] = "none"
    BY DEF Init
  <2>2. \A s \in Ensures : s \in Setup
    BY SetupFacts
  <2>q. QED BY <2>1, <2>2 DEF Init, RunInv, DeclaredInv, FreshInv, NoFailInv, Reached
<1>5. RequestInv
  BY DEF Init, RequestInv, Rest, Caller
<1>q. QED BY <1>1, <1>2, <1>3, <1>4, <1>5 DEF TopologyInv, Shape

(* Every step keeps the invariant. *)
LEMMA TopologyStep == TopologyInv /\ [Next]_vars => TopologyInv'
BY ShapeStep, StepMoves, WrapperStep, RunInvStep, RequestStep DEF TopologyInv

(* The inductive invariant of the topology. *)
LEMMA TopologyInvariant == Spec => []TopologyInv
BY TopologyInit, TopologyStep, PTL DEF Spec

(* No access request is published to a queue that is not there, for every
   interleaving of drops, restarts, start-up loops and requests. *)
THEOREM RequestsAreNeverDropped == Spec => []RequestNeverDropped
<1>1. TopologyInv => RequestNeverDropped
  BY DEF TopologyInv, RequestInv, RequestNeverDropped
<1>q. QED BY <1>1, TopologyInvariant, PTL

(* Only a webhook under a code that sanitizing changes can be lost for want
   of a queue. *)
THEOREM DroppedWebhooksHaveOddCodes == Spec => []WebhookDropNeedsOddCode
<1>1. TopologyInv => WebhookDropNeedsOddCode
  BY DEF TopologyInv, RequestInv, WebhookDropNeedsOddCode
<1>q. QED BY <1>1, TopologyInvariant, PTL
-----------------------------------------------------------------------------
(* The tries of the consumer setups. *)

ExchangesFirst == queue # {} => exchanges

(* A queue is declared only after the exchanges it is bound to. *)
LEMMA ExchangesFirstStep ==
    ASSUME ExchangesFirst, [Next]_vars
    PROVE  ExchangesFirst'
<1>1. exchanges => exchanges'
  BY DEF Next, vars, Connect, Open, Drop, Restart, SetupStep, DeclareExchanges, DeclareQueue,
     RefuseBind, CheckQueue, RefuseCheck, Register, Refuse, Wake, ServiceStep, CallStep,
     FindApplications, FindFails, NextApplication, AddEnsure, AwaitEnsure, AddConsume, AwaitConsume,
     AddSetup, Request, Publish, SendRequest, PublishWebhook, broker
<1>2. queue' # queue => exchanges
  BY DEF Next, vars, Connect, Open, Drop, Restart, SetupStep, DeclareExchanges, DeclareQueue,
     RefuseBind, CheckQueue, RefuseCheck, Register, Refuse, Wake, ServiceStep, CallStep,
     FindApplications, FindFails, NextApplication, AddEnsure, AwaitEnsure, AddConsume, AwaitConsume,
     AddSetup, Request, Publish, SendRequest, PublishWebhook, broker
<1>q. QED BY <1>1, <1>2 DEF ExchangesFirst

(* ... in every run. *)
LEMMA ExchangesComeFirst == Spec => []ExchangesFirst
<1>1. Init => ExchangesFirst
  BY DEF Init, ExchangesFirst
<1>q. QED BY <1>1, ExchangesFirstStep, PTL DEF Spec

(* RabbitMQ refuses nothing when the queues of every application exist. *)
LEMMA NothingRefused ==
    ASSUME Shape, ExchangesFirst, AllQueues, Consumes # {}, NEW s \in Setup, SetupStep(s)
    PROVE  tries' = tries
<1>1. StartApps # {} /\ exchanges
  BY SetupFacts DEF AllQueues, ExchangesFirst, Kind
<1>2. ~RefuseBind(s)
  BY <1>1 DEF RefuseBind
<1>3. ~RefuseCheck(s)
  <2> SUFFICES ASSUME RefuseCheck(s) PROVE FALSE
    OBVIOUS
  <2>1. channel \in Channel /\ run[<<s, channel>>] = "check" /\ run[<<s, channel>>] \in StagesOf(s)
    BY DEF RefuseCheck, IsNext, Shape, LinkShape, WrapperShape
  <2>2. s \in Consumes
    BY <2>1 DEF StagesOf, EnsureStage, ExchangeStage
  <2>3. <<s[2], s[3]>> \in queue
    BY <2>2, SetupFacts DEF AllQueues
  <2>q. QED BY <2>3 DEF RefuseCheck, ConsumedQueue
<1>q. QED
  BY <1>2, <1>3 DEF SetupStep, DeclareExchanges, DeclareQueue, CheckQueue, Register, Proceed

(* Once the queues of the applications exist, a try of a consumer setup fails
   only because the connection drops, or in a loop whose try failed before. *)
THEOREM RetriesHaveCause == Spec => RetriesNeedDisruption
<1>1. ASSUME TopologyInv, ExchangesFirst, [Next]_vars, AllQueues, NEW s \in Consumes,
             tries'[s] > tries[s]
      PROVE  link' = "down" \/ \E c \in Channel : run[<<s, c>>] = "backoff"
  <2>t. Shape /\ tries \in [Consumes -> Nat]
    BY <1>1 DEF TopologyInv, Shape, WrapperShape
  <2>1. tries' # tries
    BY <1>1, <2>t
  <2>2. CASE Drop \/ Restart
    BY <2>2 DEF Drop, Restart
  <2>3. ASSUME NEW d \in Setup, SetupStep(d)
        PROVE  FALSE
    BY <1>1, <2>t, <2>1, <2>3, NothingRefused
  <2>4. ASSUME NEW d \in Setup, NEW c \in Channel, Wake(d, c)
        PROVE  run[<<s, c>>] = "backoff"
    <3>1. tries' = [tries EXCEPT ![d] = @ + 1] /\ run[<<d, c>>] = "backoff"
      BY <2>1, <2>4 DEF Wake
    <3>2. d = s
      BY <1>1, <2>t, <3>1
    <3>q. QED BY <3>1, <3>2
  <2>5. Connect \/ Open \/ UNCHANGED vars \/ (\E k \in Kind : ServiceStep(k) \/ FindFails(k))
          \/ (\E o \in Name : Request(o) \/ Publish(o) \/ CallStep(o) \/ SendRequest(o)
                                \/ PublishWebhook(o))
            => tries' = tries
    BY DEF Connect, Open, vars, ServiceStep, CallStep, FindApplications, FindFails,
       NextApplication, AddEnsure, AwaitEnsure, AddConsume, AwaitConsume, AddSetup, Request,
       Publish, SendRequest, PublishWebhook
  <2>q. QED BY <1>1, <2>1, <2>2, <2>3, <2>4, <2>5 DEF Next
<1>2. TopologyInv /\ ExchangesFirst /\ [Next]_vars =>
          [AllQueues => \A s \in Consumes :
              tries'[s] > tries[s] =>
                  link' = "down" \/ \E c \in Channel : run[<<s, c>>] = "backoff"]_vars
  BY <1>1
<1>q. QED BY <1>2, TopologyInvariant, ExchangesComeFirst, PTL DEF Spec, RetriesNeedDisruption
-----------------------------------------------------------------------------
(* The applications that a service passes over. *)

AtMost(S, T) == IsFiniteSet(S) /\ IsFiniteSet(T) /\ Cardinality(S) <= Cardinality(T)

(* The set that is bounded may shrink and the one that bounds it grow. *)
LEMMA AtMostFacts ==
    /\ \A S, T : IsFiniteSet(T) /\ S \subseteq T => AtMost(S, T)
    /\ \A R, S, T : AtMost(R, S) /\ AtMost(S, T) => AtMost(R, T)
<1>1. ASSUME NEW S, NEW T, IsFiniteSet(T), S \subseteq T
      PROVE  AtMost(S, T)
  BY <1>1, FS_Subset DEF AtMost
<1>2. ASSUME NEW R, NEW S, NEW T, AtMost(R, S), AtMost(S, T)
      PROVE  AtMost(R, T)
  <2>1. Cardinality(R) \in Nat /\ Cardinality(S) \in Nat /\ Cardinality(T) \in Nat
    BY <1>2, FS_CardinalityType DEF AtMost
  <2>q. QED BY <1>2, <2>1 DEF AtMost
<1>q. QED BY <1>1, <1>2

(* One more on either side. *)
LEMMA AtMostAdds ==
    ASSUME NEW S, NEW T, NEW x, NEW y, AtMost(S, T), y \notin T
    PROVE  AtMost(S \cup {x}, T \cup {y})
<1>1. Cardinality(S) \in Nat /\ Cardinality(T) \in Nat
  BY FS_CardinalityType DEF AtMost
<1>2. IsFiniteSet(S \cup {x}) /\ Cardinality(S \cup {x}) <= Cardinality(S) + 1
  <2>1. /\ IsFiniteSet(S \cup {x})
        /\ Cardinality(S \cup {x}) = IF x \in S THEN Cardinality(S) ELSE Cardinality(S) + 1
    BY FS_AddElement DEF AtMost
  <2>q. QED BY <1>1, <2>1
<1>3. IsFiniteSet(T \cup {y}) /\ Cardinality(T \cup {y}) = Cardinality(T) + 1
  BY FS_AddElement DEF AtMost
<1>4. Cardinality(S \cup {x}) \in Nat
  BY <1>2, FS_CardinalityType
<1>q. QED BY <1>1, <1>2, <1>3, <1>4 DEF AtMost

LostBefore(d) == {c \in Lost : c < d}

(* A service that awaits an ensure has passed over at most one application
   for each channel lost before the one on which the ensure runs. *)
Bounded(k) ==
    /\ call[k].pc = "consuming" => Consume(k, call[k].app) \in Range(setups)
    /\ call[k].pc # "waiting" /\ faults = 0 =>
          /\ AtMost(Skipped(k), Lost)
          /\ call[k].pc = "ensuring" => AtMost(Skipped(k), LostBefore(call[k].on))
SkipInv == \A k \in Kind : Bounded(k)

(* A channel is lost for good, until the process starts again, and the one
   that is open is not lost. *)
LEMMA LostGrows ==
    ASSUME Shape, RunInv, RunMoves, WrapperMoves
    PROVE  /\ ~Restart => Lost \subseteq Lost'
           /\ IsFiniteSet(Lost) /\ IsFiniteSet(Lost')
           /\ \A d : IsFiniteSet(LostBefore(d)) /\ IsFiniteSet(LostBefore(d)')
           /\ link = "open" => Lost \subseteq LostBefore(channel)
<1>t. channel \in Nat /\ \A c \in Channel : c \in Nat
  BY ChannelFacts DEF Shape, LinkShape
<1>1. IsFiniteSet(Channel)
  BY LimitAssumption, FS_Interval DEF Channel
<1>2. IsFiniteSet(Lost) /\ IsFiniteSet(Lost')
  <2>1. Lost \subseteq Channel /\ Lost' \subseteq Channel
    BY DEF Lost
  <2>q. QED BY <1>1, <2>1, FS_Subset
<1>3. \A d : IsFiniteSet(LostBefore(d)) /\ IsFiniteSet(LostBefore(d)')
  <2>1. \A d : LostBefore(d) \subseteq Lost /\ LostBefore(d)' \subseteq Lost'
    BY DEF LostBefore
  <2>q. QED BY <1>2, <2>1, FS_Subset
<1>4. ASSUME ~Restart, NEW s \in Setup, NEW c \in Channel, run[<<s, c>>] = "failed"
      PROVE  run'[<<s, c>>] = "failed"
  <2>1. Moved(s, c) /\ ~Cleared(s, c) /\ ~Woken(s, c)
    BY <1>4 DEF RunMoves, Cleared, Woken
  <2>2. c = channel => link # "open" /\ link # "up"
    BY <1>4 DEF RunInv, NoFailInv, FreshInv, Unopened
  <2>3. ~Begun(s, c) /\ ~Advanced(s, c) /\ ~Thrown(s, c)
    BY <2>2 DEF Begun, Advanced, Thrown, WrapperMoves
  <2>q. QED BY <1>4, <2>1, <2>3 DEF Moved
<1>5. ~Restart => Lost \subseteq Lost'
  BY <1>4 DEF Lost
<1>6. ASSUME link = "open", NEW c \in Lost
      PROVE  c < channel
  <2>1. PICK s \in Setup : run[<<s, c>>] = "failed"
    BY <1>6 DEF Lost
  <2>2. c \in Channel /\ c # channel /\ ~Unopened(c)
    BY <1>6, <2>1 DEF RunInv, NoFailInv, FreshInv, Lost
  <2>q. QED BY <1>t, <2>2 DEF Unopened
<1>7. link = "open" => Lost \subseteq LostBefore(channel)
  BY <1>6 DEF LostBefore
<1>q. QED BY <1>2, <1>3, <1>5, <1>7

(* A step that passes over no further application keeps the bound. *)
LEMMA StaysBounded ==
    ASSUME Shape, RunInv, RunMoves, WrapperMoves, ~Restart, NEW k \in Kind, Bounded(k),
           faults' = 0 => faults = 0, call[k].pc # "waiting",
           Skipped(k)' \subseteq Skipped(k),
           call'[k].pc = "consuming" => Consume(k, call'[k].app) \in Range(setups'),
           call'[k].pc = "ensuring" => \/ link = "open" /\ call'[k].on = channel
                                       \/ call[k].pc = "ensuring" /\ call'[k].on = call[k].on
    PROVE  Bounded(k)'
<1> DEFINE After(d) == {c \in Lost' : c < d}
<1>1. Lost \subseteq Lost' /\ IsFiniteSet(Lost) /\ IsFiniteSet(Lost')
  BY LostGrows
<1>2. CASE faults' # 0
  BY <1>2 DEF Bounded, Consume
<1>3. CASE faults' = 0
  <2>1. AtMost(Skipped(k), Lost)
    BY <1>3 DEF Bounded
  <2>2. AtMost(Skipped(k)', Skipped(k))
    BY <2>1, AtMostFacts DEF AtMost
  <2>3. AtMost(Skipped(k)', Lost)
    BY <2>1, <2>2, AtMostFacts
  <2>4. AtMost(Skipped(k)', Lost')
    <3>1. AtMost(Lost, Lost')
      BY <1>1, AtMostFacts
    <3>q. QED BY <2>3, <3>1, AtMostFacts
  <2>5. \A d : LostBefore(d) \subseteq After(d) /\ IsFiniteSet(After(d))
    <3>1. \A d : LostBefore(d) \subseteq After(d) /\ After(d) \subseteq Lost'
      BY <1>1 DEF LostBefore
    <3>q. QED BY <1>1, <3>1, FS_Subset
  <2>6. ASSUME call'[k].pc = "ensuring"
        PROVE  AtMost(Skipped(k)', After(call'[k].on))
    <3>1. CASE link = "open" /\ call'[k].on = channel
      <4>1. Lost \subseteq After(channel)
        BY <2>5, <3>1, LostGrows
      <4>2. AtMost(Lost, After(channel))
        BY <2>5, <4>1, AtMostFacts
      <4>q. QED BY <2>3, <3>1, <4>2, AtMostFacts
    <3>2. CASE call[k].pc = "ensuring" /\ call'[k].on = call[k].on
      <4>1. AtMost(Skipped(k), LostBefore(call[k].on))
        BY <1>3, <3>2 DEF Bounded
      <4>2. AtMost(LostBefore(call[k].on), After(call[k].on))
        BY <2>5, AtMostFacts
      <4>q. QED BY <2>2, <3>2, <4>1, <4>2, AtMostFacts
    <3>q. QED BY <2>6, <3>1, <3>2
  <2>q. QED BY <2>4, <2>6 DEF Bounded, LostBefore, Consume
<1>q. QED BY <1>2, <1>3

(* The steps of the service itself. *)
LEMMA ServiceBounded ==
    ASSUME Shape, Shape', RunInv, RunMoves, WrapperMoves, ~Restart, NEW k \in Kind, Bounded(k),
           ServiceStep(k)
    PROVE  Bounded(k)'
<1>t. /\ call \in [Caller -> Call] /\ k \in Caller /\ channel \in Channel
      /\ todo \in [Kind -> SUBSET StartApps] /\ setups \in Seq(Setup)
      /\ Range(setups) \subseteq Range(setups')
  BY DEF Shape, LinkShape, CallerShape, WrapperShape, Caller, WrapperMoves
<1>f. faults' = faults
  BY DEF ServiceStep, CallStep, FindApplications, NextApplication, AddEnsure, AwaitEnsure,
     AddConsume, AwaitConsume, AddSetup
<1>1. CASE FindApplications(k)
  <2>1. call'[k] = Rest("next") /\ todo'[k] = StartApps
    BY <1>t, <1>1 DEF FindApplications, CallGoes
  <2>2. Skipped(k)' = {} /\ call'[k].pc = "next"
    BY <2>1 DEF Skipped, Rest
  <2>3. AtMost({}, Lost')
    BY LostGrows, AtMostFacts
  <2>q. QED BY <2>2, <2>3 DEF Bounded
<1>2. ASSUME NEW n \in Name, NextApplication(k, n)
      PROVE  Bounded(k)'
  <2>1. /\ call[k].pc = "next" /\ call'[k] = At("ensure", n) /\ todo'[k] = todo[k] \ {n}
        /\ n \in todo[k]
    BY <1>t, <1>2 DEF NextApplication, CallGoes
  <2>2. call'[k].pc = "ensure" /\ call'[k].app = n
    BY <2>1 DEF At
  <2>3. Skipped(k)' \subseteq Skipped(k)
    BY <1>t, <2>1, <2>2 DEF Skipped, InHand, Consume
  <2>q. QED BY <1>f, <2>1, <2>2, <2>3, StaysBounded
<1>3. ASSUME AddEnsure(k)
      PROVE  Bounded(k)'
  <2>1. call[k].pc = "ensure" /\ todo' = todo
    BY <1>3 DEF AddEnsure, AddSetup
  <2>2. /\ call'[k].app = call[k].app
        /\ \/ call'[k].pc = "ensuring" /\ call'[k].on = channel /\ link = "open"
           \/ call'[k].pc = "consume"
    <3>1. /\ [call[k] EXCEPT !.pc = "ensuring", !.on = channel].pc = "ensuring"
          /\ [call[k] EXCEPT !.pc = "ensuring", !.on = channel].on = channel
          /\ [call[k] EXCEPT !.pc = "ensuring", !.on = channel].app = call[k].app
      BY <1>t DEF Call
    <3>2. AfterEnsure(k, call[k].app).pc = "consume" /\ AfterEnsure(k, call[k].app).app = call[k].app
      BY DEF AfterEnsure, At
    <3>q. QED BY <1>t, <1>3, <3>1, <3>2 DEF AddEnsure, AddSetup, CallGoes
  <2>3. Skipped(k)' \subseteq Skipped(k)
    BY <1>t, <2>1, <2>2 DEF Skipped, InHand, Consume
  <2>q. QED BY <1>f, <2>1, <2>2, <2>3, StaysBounded
<1>4. ASSUME AwaitEnsure(k), run[<<Ensure(k, call[k].app), call[k].on>>] # "failed"
      PROVE  Bounded(k)'
  <2>1. call[k].pc = "ensuring" /\ todo' = todo /\ call'[k] = AfterEnsure(k, call[k].app)
    BY <1>t, <1>4 DEF AwaitEnsure, CallGoes
  <2>2. call'[k].pc = "consume" /\ call'[k].app = call[k].app
    BY <2>1 DEF AfterEnsure, At
  <2>3. Skipped(k)' \subseteq Skipped(k)
    BY <1>t, <2>1, <2>2 DEF Skipped, InHand, Consume
  <2>q. QED BY <1>f, <2>1, <2>2, <2>3, StaysBounded
<1>5. ASSUME AwaitEnsure(k), run[<<Ensure(k, call[k].app), call[k].on>>] = "failed"
      PROVE  Bounded(k)'
  <2>1. /\ call[k].pc = "ensuring" /\ todo' = todo /\ call'[k] = AfterFailure(k)
        /\ UNCHANGED <<setups, run>>
    BY <1>t, <1>5 DEF AwaitEnsure, CallGoes, wrapper
  <2>2. call'[k].pc = "next" /\ Ensure(k, call[k].app) \in Setup /\ call[k].on \in Channel
    BY <1>t, <2>1, AddedSetups, SetupFacts DEF AfterFailure, Rest, Call
  <2>3. call[k].on \in Lost /\ call[k].on \notin LostBefore(call[k].on)
    BY <1>5, <2>2, ChannelFacts DEF Lost, LostBefore
  <2>4. Skipped(k)' \subseteq Skipped(k) \cup {call[k].app}
    BY <2>1, <2>2 DEF Skipped, InHand, Consume
  <2>5. LostBefore(call[k].on) \cup {call[k].on} \subseteq Lost /\ Lost' = Lost
    BY <2>1, <2>3 DEF LostBefore, Lost
  <2>6. ASSUME faults' = 0
        PROVE  AtMost(Skipped(k)', Lost')
    <3>1. AtMost(Skipped(k), LostBefore(call[k].on))
      BY <1>f, <2>1, <2>6 DEF Bounded
    <3>2. AtMost(Skipped(k) \cup {call[k].app}, LostBefore(call[k].on) \cup {call[k].on})
      BY <2>3, <3>1, AtMostAdds
    <3>3. AtMost(Skipped(k)', Skipped(k) \cup {call[k].app})
      BY <2>4, <3>2, AtMostFacts DEF AtMost
    <3>4. AtMost(LostBefore(call[k].on) \cup {call[k].on}, Lost')
      BY <2>5, LostGrows, AtMostFacts
    <3>q. QED BY <3>2, <3>3, <3>4, AtMostFacts
  <2>q. QED BY <2>2, <2>6 DEF Bounded
<1>6. ASSUME AddConsume(k)
      PROVE  Bounded(k)'
  <2>1. /\ call[k].pc = "consume" /\ todo' = todo
        /\ setups' = Append(setups, Consume(k, call[k].app)) /\ Consume(k, call[k].app) \in Setup
    BY <1>6, <1>t, AddedSetups, SetupFacts DEF AddConsume, AddSetup
  <2>2. Consume(k, call[k].app) \in Range(setups')
    BY <1>t, <2>1, AppendRange
  <2>3. \/ call'[k].pc = "consuming" /\ call'[k].app = call[k].app
        \/ call'[k].pc = "next"
    <3>1. /\ [call[k] EXCEPT !.pc = "consuming", !.on = channel].pc = "consuming"
          /\ [call[k] EXCEPT !.pc = "consuming", !.on = channel].app = call[k].app
      BY <1>t DEF Call
    <3>2. Rest("next").pc = "next"
      BY DEF Rest
    <3>q. QED BY <1>t, <1>6, <3>1, <3>2 DEF AddConsume, AddSetup, CallGoes
  <2>4. Skipped(k)' \subseteq Skipped(k)
    BY <1>t, <2>1, <2>2, <2>3 DEF Skipped, InHand, Consume
  <2>q. QED BY <1>f, <2>1, <2>2, <2>3, <2>4, StaysBounded
<1>7. ASSUME AwaitConsume(k)
      PROVE  Bounded(k)'
  <2>1. call[k].pc = "consuming" /\ todo' = todo /\ call'[k] = Rest("next") /\ setups' = setups
    BY <1>t, <1>7 DEF AwaitConsume, CallGoes, wrapper
  <2>2. Consume(k, call[k].app) \in Range(setups) /\ call'[k].pc = "next"
    BY <2>1 DEF Bounded, Rest
  <2>3. Skipped(k)' \subseteq Skipped(k)
    BY <2>1, <2>2 DEF Skipped, InHand, Consume
  <2>q. QED BY <1>f, <2>1, <2>2, <2>3, StaysBounded
<1>q. QED BY <1>1, <1>2, <1>3, <1>4, <1>5, <1>6, <1>7 DEF ServiceStep, CallStep

(* Every step keeps the bound of every service. *)
LEMMA SkipStep ==
    ASSUME Shape, Shape', RunInv, RunMoves, WrapperMoves, SkipInv, [Next]_vars
    PROVE  SkipInv'
<1> SUFFICES ASSUME NEW k \in Kind
             PROVE  Bounded(k)'
  BY DEF SkipInv
<1>t. /\ call \in [Caller -> Call] /\ k \in Caller /\ faults \in Nat /\ Bounded(k)
      /\ Name \subseteq Caller /\ Kind \subseteq Caller
  BY DEF Shape, CallerShape, Caller, SkipInv
<1>1. CASE Restart
  BY <1>t, <1>1 DEF Restart, Bounded, Rest
<1>2. CASE ~Restart
  <2>1. Range(setups) \subseteq Range(setups')
    BY <1>2 DEF WrapperMoves
  <2>2. ASSUME call'[k] = call[k], todo'[k] = todo[k], faults' = faults
        PROVE  Bounded(k)'
    <3>1. CASE call[k].pc = "waiting"
      BY <2>2, <3>1 DEF Bounded
    <3>2. CASE call[k].pc # "waiting"
      <4>1. Skipped(k)' \subseteq Skipped(k)
        BY <2>1, <2>2 DEF Skipped, InHand, Consume
      <4>2. call'[k].pc = "consuming" => Consume(k, call'[k].app) \in Range(setups')
        BY <1>t, <2>1, <2>2 DEF Bounded
      <4>q. QED BY <1>2, <1>t, <2>2, <3>2, <4>1, <4>2, StaysBounded
    <3>q. QED BY <3>1, <3>2
  <2>3. ASSUME NEW l \in Kind, ServiceStep(l)
        PROVE  Bounded(k)'
    <3>1. CASE l = k
      BY <1>2, <1>t, <2>3, <3>1, ServiceBounded
    <3>2. CASE l # k
      <4>1. faults' = faults /\ (todo' = todo \/ \E S : todo' = [todo EXCEPT ![l] = S])
        BY <2>3 DEF ServiceStep, CallStep, FindApplications, NextApplication, AddEnsure,
           AwaitEnsure, AddConsume, AwaitConsume, AddSetup
      <4>2. \E y : call' = [call EXCEPT ![l] = y]
        BY <2>3 DEF ServiceStep, CallStep, FindApplications, NextApplication, AddEnsure,
           AwaitEnsure, AddConsume, AwaitConsume, AddSetup, CallGoes
      <4>3. todo \in [Kind -> SUBSET StartApps]
        BY DEF Shape, CallerShape
      <4>q. QED BY <1>t, <2>2, <3>2, <4>1, <4>2, <4>3
    <3>q. QED BY <3>1, <3>2
  <2>4. ASSUME NEW l \in Kind, FindFails(l)
        PROVE  Bounded(k)'
    <3>1. faults' # 0 /\ (l # k => call'[k] = call[k]) /\ (l = k => call'[k].pc = "next")
      BY <1>t, <2>4 DEF FindFails, CallGoes, Rest
    <3>2. call'[k].pc = "consuming" => Consume(k, call'[k].app) \in Range(setups')
      BY <1>t, <2>1, <3>1 DEF Bounded
    <3>q. QED BY <3>1, <3>2 DEF Bounded, Consume
  <2>5. ASSUME NEW o \in Name, CallStep(o)
        PROVE  Bounded(k)'
    <3>1. CASE o = k
      BY <1>2, <1>t, <2>5, <3>1, ServiceBounded DEF ServiceStep
    <3>2. CASE o # k
      BY <1>t, <2>2, <2>5, <3>2 DEF CallStep, AddEnsure, AwaitEnsure, AddSetup, CallGoes
    <3>q. QED BY <3>1, <3>2
  <2>6. ASSUME NEW o \in Name, Request(o) \/ Publish(o) \/ SendRequest(o)
        PROVE  Bounded(k)'
    <3>1. o # k
      BY <1>t, <2>6 DEF Request, Publish, SendRequest, Shape, CallerShape, CallShape, ShapeOf,
         ServiceStage
    <3>q. QED BY <1>t, <2>2, <2>6, <3>1 DEF Request, Publish, SendRequest, CallGoes
  <2>7. Connect \/ Open \/ Drop \/ UNCHANGED vars
           \/ (\E s \in Setup : SetupStep(s) \/ (\E c \in Channel : Wake(s, c)))
           \/ (\E o \in Name : PublishWebhook(o)) => UNCHANGED <<call, todo, faults>>
    BY DEF Connect, Open, Drop, vars, SetupStep, DeclareExchanges, DeclareQueue, RefuseBind,
       CheckQueue, RefuseCheck, Register, Refuse, Proceed, Wake, PublishWebhook
  <2>q. QED BY <1>2, <2>2, <2>3, <2>4, <2>5, <2>6, <2>7 DEF Next
<1>q. QED BY <1>1, <1>2

(* A service that found its applications passes over at most one of them for
   each channel that was lost under a setup: the failure of one does not take
   the others with it. *)
THEOREM SkipsHaveCause == Spec => []SkipsNeedLostChannels
<1>1. Init => SkipInv
  BY DEF Init, SkipInv, Bounded, Rest, Caller
<1>2. TopologyInv /\ TopologyInv' /\ SkipInv /\ [Next]_vars => SkipInv'
  BY StepMoves, WrapperStep, SkipStep DEF TopologyInv
<1>3. SkipInv => SkipsNeedLostChannels
  BY DEF SkipInv, Bounded, AtMost, SkipsNeedLostChannels
<1>q. QED BY <1>1, <1>2, <1>3, TopologyInvariant, PTL DEF Spec
-----------------------------------------------------------------------------
(* The calls that wait for the broker, and the tries they may still cost. *)

(* A nonempty set of naturals has a least element: induction over a sequence
   is done by looking at the least index at which a claim fails. *)
LEMMA LeastNatural ==
    ASSUME NEW T \in SUBSET Nat, T # {}
    PROVE  \E m \in T : \A n \in T : m <= n
<1>1. IsWellFoundedOn(OpToRel(<, Nat), Nat)
  BY NatLessThanWellFounded
<1>2. PICK m \in T : \A n \in T : ~ (<<n, m>> \in OpToRel(<, Nat))
  BY <1>1, WFMin
<1>3. \A n \in T : ~ (n < m)
  BY <1>2 DEF OpToRel
<1>q. QED BY <1>3

(* The setups that begin with a call to the broker. *)
Beginners == {s \in Setup : FirstStage(s) # "gaveup"}

(* The step of Awaiting, from what was kept of the first i - 1 setups of q. *)
Keep(q, f, i) ==
    IF i = 0 THEN <<>>
    ELSE IF FirstStage(q[i]) = "gaveup" THEN f[i - 1] ELSE Append(f[i - 1], q[i])

(* The recursion of Awaiting is well defined ... *)
LEMMA KeepingExists ==
    ASSUME NEW q \in Seq(Setup)
    PROVE  \E f : f = [i \in 0..Len(q) |-> Keep(q, f, i)]
<1> DEFINE Found(n) == \E f : f = [i \in 0..n |-> Keep(q, f, i)]
           Missing  == {n \in Nat : ~Found(n)}
<1>1. Missing = {}
  <2> SUFFICES ASSUME Missing # {} PROVE FALSE
    OBVIOUS
  <2>1. PICK m \in Missing : \A n \in Missing : m <= n
    <3>1. Missing \in SUBSET Nat
      OBVIOUS
    <3> HIDE DEF Missing
    <3>q. QED BY <3>1, LeastNatural
  <2>2. CASE m = 0
    <3> DEFINE g == [i \in 0..0 |-> <<>>]
    <3>1. g = [i \in 0..0 |-> Keep(q, g, i)]
      BY DEF Keep
    <3>q. QED BY <2>2, <3>1
  <2>3. CASE m # 0
    <3>1. m - 1 \in Nat /\ ~(m <= m - 1)
      BY <2>3
    <3>2. m - 1 \notin Missing
      <4> HIDE DEF Missing
      <4>q. QED BY <2>1, <3>1
    <3>3. PICK f : f = [i \in 0..(m - 1) |-> Keep(q, f, i)]
      BY <3>1, <3>2
    <3> DEFINE g == [i \in 0..m |-> IF i = m THEN Keep(q, f, m) ELSE f[i]]
    <3>4. ASSUME NEW i \in 0..m
          PROVE  g[i] = Keep(q, g, i)
      <4>1. i # 0 => i - 1 \in 0..m /\ i - 1 # m /\ g[i - 1] = f[i - 1]
        BY <3>1
      <4>2. Keep(q, g, i) = Keep(q, f, i)
        BY <4>1 DEF Keep
      <4>3. CASE i = m
        BY <4>2, <4>3
      <4>4. CASE i # m
        <5>1. i \in 0..(m - 1)
          BY <4>4, <3>1
        <5>2. f[i] = Keep(q, f, i)
          BY <3>3, <5>1
        <5>q. QED BY <4>2, <4>4, <5>2
      <4>q. QED BY <4>3, <4>4
    <3>5. g = [i \in 0..m |-> Keep(q, g, i)]
      BY <3>4
    <3>6. Found(m)
      BY <3>5
    <3>q. QED BY <3>6
  <2>q. QED BY <2>2, <2>3
<1>2. Len(q) \in Nat
  OBVIOUS
<1>q. QED BY <1>1, <1>2

(* ... and what it returns are setups that call the broker. *)
LEMMA AwaitingBegins ==
    ASSUME NEW q \in Seq(Setup)
    PROVE  Awaiting(q) \in Seq(Beginners)
<1> DEFINE kept   == CHOOSE f : f = [i \in 0..Len(q) |-> Keep(q, f, i)]
           Astray == {i \in 0..Len(q) : kept[i] \notin Seq(Beginners)}
<1>1. kept = [i \in 0..Len(q) |-> Keep(q, kept, i)]
  BY KeepingExists
<1>2. Awaiting(q) = kept[Len(q)]
  BY DEF Awaiting, Keep
<1> HIDE DEF kept
<1>3. Astray = {}
  <2> SUFFICES ASSUME Astray # {} PROVE FALSE
    OBVIOUS
  <2>1. PICK m \in Astray : \A n \in Astray : m <= n
    <3>1. Astray \in SUBSET Nat
      OBVIOUS
    <3> HIDE DEF Astray
    <3>q. QED BY <3>1, LeastNatural
  <2>2. m \in 0..Len(q) /\ kept[m] = Keep(q, kept, m) /\ kept[m] \notin Seq(Beginners)
    BY <1>1
  <2>3. CASE m = 0
    BY <2>2, <2>3 DEF Keep
  <2>4. CASE m # 0
    <3>1. m - 1 \in 0..Len(q) /\ ~(m <= m - 1) /\ m \in 1..Len(q) /\ q[m] \in Setup
      BY <2>2, <2>4
    <3>2. m - 1 \notin Astray
      <4> HIDE DEF Astray
      <4>q. QED BY <2>1, <3>1
    <3>3. kept[m - 1] \in Seq(Beginners)
      BY <3>1, <3>2
    <3>4. CASE FirstStage(q[m]) = "gaveup"
      BY <2>2, <2>4, <3>3, <3>4 DEF Keep
    <3>5. CASE FirstStage(q[m]) # "gaveup"
      <4>1. q[m] \in Beginners
        BY <3>1, <3>5 DEF Beginners
      <4>q. QED BY <2>2, <2>4, <3>3, <3>5, <4>1 DEF Keep
    <3>q. QED BY <3>4, <3>5
  <2>q. QED BY <2>3, <2>4
<1>4. Len(q) \in 0..Len(q)
  OBVIOUS
<1>q. QED BY <1>2, <1>3, <1>4

(* Proceeding takes the call at the head away, and may put the next one of
   the same setup at the end. *)
LEMMA TailRange ==
    ASSUME NEW S, NEW q \in Seq(S), q # <<>>
    PROVE  /\ Head(q) \in S /\ Tail(q) \in Seq(S)
           /\ Head(q) \in Range(q) /\ Range(Tail(q)) \subseteq Range(q)
<1>1. /\ Len(q) \in Nat /\ Len(q) >= 1 /\ Head(q) = q[1] /\ DOMAIN q = 1..Len(q)
      /\ Tail(q) \in Seq(S) /\ Len(Tail(q)) = Len(q) - 1 /\ Head(q) \in S
      /\ \A i \in 1..(Len(q) - 1) : Tail(q)[i] = q[i + 1]
  OBVIOUS
<1>2. DOMAIN Tail(q) = 1..(Len(q) - 1)
  BY <1>1
<1>3. 1 \in 1..Len(q) /\ \A i \in 1..(Len(q) - 1) : i + 1 \in 1..Len(q)
  BY <1>1
<1>q. QED BY <1>1, <1>2, <1>3 DEF Range

(* A setup waits for the broker with tries left, so that the throw of a
   closing channel brings its count past the limit by one at most. *)
TriesInv ==
    /\ rpc \in Seq(Setup)
    /\ \A s \in Consumes : /\ tries[s] <= MaxRetries + 1
                           /\ s \in Range(rpc) => tries[s] <= MaxRetries

(* The calls that wait become fewer, or begin with a try left. *)
LEMMA CallsKept ==
    ASSUME Shape, TriesInv, tries' = tries, rpc' \in Seq(Setup),
           \A s \in Range(rpc') : s \in Range(rpc) \/ FirstStage(s) # "gaveup"
    PROVE  TriesInv'
<1>1. ASSUME NEW s \in Consumes, s \in Range(rpc')
      PROVE  tries[s] <= MaxRetries
  <2>1. CASE s \in Range(rpc)
    BY <2>1 DEF TriesInv
  <2>2. CASE s \notin Range(rpc)
    <3>1. FirstStage(s) # "gaveup" /\ s # Exchanges /\ s \notin Ensures
      BY <1>1, <2>2, SetupFacts
    <3>2. MayTry(s)
      BY <3>1 DEF FirstStage
    <3>q. QED BY <3>2, ChannelFacts DEF MayTry, Shape, WrapperShape
  <2>q. QED BY <2>1, <2>2
<1>q. QED BY <1>1 DEF TriesInv

(* A closing channel costs every waiting consume setup a try. *)
LEMMA CloseTries ==
    ASSUME Shape, TriesInv, CloseChannel
    PROVE  TriesInv'
<1>1. Range(rpc') = {} /\ rpc' \in Seq(Setup)
  BY DEF CloseChannel, Range
<1>2. ASSUME NEW s \in Consumes
      PROVE  tries'[s] <= MaxRetries + 1
  <2>1. tries[s] \in Nat /\ MaxRetries \in Nat
    BY ChannelFacts DEF Shape, WrapperShape
  <2>q. QED BY <2>1 DEF CloseChannel, TriesInv
<1>q. QED BY <1>1, <1>2 DEF TriesInv

(* Every step keeps the tries within their limit. *)
LEMMA TriesStep == Shape /\ TriesInv /\ [Next]_vars => TriesInv'
<1> SUFFICES ASSUME Shape, TriesInv, [Next]_vars PROVE TriesInv'
  OBVIOUS
<1>t. setups \in Seq(Setup) /\ rpc \in Seq(Setup) /\ tries \in [Consumes -> Nat]
  BY DEF Shape, WrapperShape, TriesInv
<1>0. ASSUME UNCHANGED <<rpc, tries>>
      PROVE  TriesInv'
  BY <1>0 DEF TriesInv
<1>1. CASE Open
  <2>1. rpc' = Awaiting(setups) /\ rpc' \in Seq(Beginners) /\ tries' = tries
    BY <1>t, <1>1, AwaitingBegins DEF Open
  <2>2. Range(rpc') \subseteq Beginners
    BY <2>1 DEF Range
  <2>3. rpc' \in Seq(Setup)
    BY <2>1 DEF Beginners
  <2>q. QED BY <2>1, <2>2, <2>3, CallsKept DEF Beginners
<1>2. CASE Drop
  BY <1>2, CloseTries DEF Drop
<1>3. CASE Restart
  <2>1. rpc' = <<>> /\ \A s \in Consumes : tries'[s] = 0
    BY <1>3 DEF Restart
  <2>q. QED BY <2>1, ChannelFacts DEF TriesInv, Range
<1>4. ASSUME NEW s \in Setup, SetupStep(s)
      PROVE  TriesInv'
  <2>1. CASE RefuseBind(s) \/ RefuseCheck(s)
    BY <2>1, CloseTries DEF RefuseBind, RefuseCheck, Refuse
  <2>2. CASE ~(RefuseBind(s) \/ RefuseCheck(s))
    <3>1. /\ rpc # <<>> /\ s = Head(rpc) /\ tries' = tries
          /\ rpc' = Tail(rpc) \/ rpc' = Append(Tail(rpc), s)
      BY <1>4, <2>2 DEF SetupStep, DeclareExchanges, DeclareQueue, CheckQueue, Register, IsNext,
         Proceed
    <3>2. /\ Tail(rpc) \in Seq(Setup) /\ Range(Tail(rpc)) \subseteq Range(rpc)
          /\ s \in Range(rpc)
      BY <1>t, <3>1, TailRange
    <3>3. \A q \in Seq(Setup) :
             Append(q, s) \in Seq(Setup) /\ Range(Append(q, s)) = Range(q) \cup {s}
      BY AppendRange
    <3>4. rpc' \in Seq(Setup)
      BY <3>1, <3>2, <3>3
    <3>5. Range(rpc') \subseteq Range(rpc)
      BY <3>1, <3>2, <3>3
    <3>q. QED BY <3>1, <3>4, <3>5, CallsKept
  <2>q. QED BY <2>1, <2>2
<1>5. ASSUME NEW s \in Setup, NEW c \in Channel, Wake(s, c)
      PROVE  TriesInv'
  <2>1. rpc' = rpc /\ (tries' = tries \/ (tries' = [tries EXCEPT ![s] = @ + 1] /\ MayTry(s)))
    BY <1>5 DEF Wake, wrapper
  <2>2. CASE tries' = tries
    BY <1>0, <2>1, <2>2
  <2>3. CASE tries' # tries
    <3>1. s \in Consumes => tries[s] + 1 <= MaxRetries /\ tries'[s] = tries[s] + 1
      BY <1>t, <2>1, <2>3, ChannelFacts DEF MayTry
    <3>2. \A d \in Consumes : d # s => tries'[d] = tries[d]
      BY <1>t, <2>1, <2>3
    <3>3. ASSUME NEW d \in Consumes
          PROVE  /\ tries'[d] <= MaxRetries + 1
                 /\ d \in Range(rpc') => tries'[d] <= MaxRetries
      <4>1. CASE d = s
        BY <1>t, <3>1, <4>1, ChannelFacts
      <4>2. CASE d # s
        BY <2>1, <3>2, <4>2 DEF TriesInv
      <4>q. QED BY <4>1, <4>2
    <3>q. QED BY <1>t, <2>1, <3>3 DEF TriesInv
  <2>q. QED BY <2>2, <2>3
<1>6. ASSUME NEW x \in Caller, AddEnsure(x) \/ (x \in Kind /\ AddConsume(x))
      PROVE  TriesInv'
  <2>1. PICK s \in Setup : /\ tries' = tries
                           /\ \/ rpc' = rpc
                              \/ FirstStage(s) # "gaveup" /\ rpc' = Append(rpc, s)
    BY <1>6, AddedSetups, SetupFacts DEF AddEnsure, AddConsume, AddSetup
  <2>2. CASE rpc' = rpc
    BY <1>0, <2>1, <2>2
  <2>3. CASE rpc' # rpc
    <3>1. Append(rpc, s) \in Seq(Setup) /\ Range(Append(rpc, s)) = Range(rpc) \cup {s}
      BY <1>t, AppendRange
    <3>2. rpc' = Append(rpc, s) /\ FirstStage(s) # "gaveup"
      BY <2>1, <2>3
    <3>q. QED BY <2>1, <3>1, <3>2, CallsKept
  <2>q. QED BY <2>2, <2>3
<1>7. Kind \subseteq Caller /\ Name \subseteq Caller
  BY DEF Caller
<1>q. QED
  BY <1>0, <1>1, <1>2, <1>3, <1>4, <1>5, <1>6, <1>7 DEF Next, ServiceStep, CallStep, vars, wrapper,
     Connect, FindApplications, FindFails, AwaitConsume, NextApplication, AwaitEnsure, Request,
     Publish, SendRequest, PublishWebhook

(* What the broker holds, and the queries that failed. *)
BrokerInv ==
    /\ exchanges \in BOOLEAN
    /\ queue \subseteq Queue
    /\ faults <= MaxFaults

(* Only the queues of a setup's processor are declared. *)
LEMMA BrokerStep == Shape /\ BrokerInv /\ [Next]_vars => BrokerInv'
<1> SUFFICES ASSUME Shape, BrokerInv, [Next]_vars PROVE BrokerInv'
  OBVIOUS
<1>1. ASSUME NEW s \in Setup, SetupStep(s)
      PROVE  BrokerInv'
  <2>1. CASE DeclareQueue(s)
    <3>1. channel \in Channel /\ run[<<s, channel>>] \in {"request", "response", "webhook"}
          /\ run[<<s, channel>>] \in StagesOf(s)
      BY <2>1 DEF DeclareQueue, IsNext, Shape, LinkShape, WrapperShape
    <3>2. s \in Ensures
      BY <3>1 DEF StagesOf, ConsumeStage, ExchangeStage
    <3>3. DeclaredAt(s, run[<<s, channel>>]) \in Queue
      BY <3>1, <3>2, SetupFacts DEF DeclaredAt, RequestQueue, Queue
    <3>q. QED BY <2>1, <3>3 DEF DeclareQueue, Proceed, BrokerInv
  <2>2. CASE ~DeclareQueue(s)
    BY <1>1, <2>2 DEF SetupStep, DeclareExchanges, RefuseBind, CheckQueue, RefuseCheck, Register,
       Refuse, Proceed, broker, BrokerInv
  <2>q. QED BY <2>1, <2>2
<1>2. ASSUME UNCHANGED broker, faults' = faults
      PROVE  BrokerInv'
  BY <1>2 DEF broker, BrokerInv
<1>3. ASSUME NEW k \in Kind, FindFails(k)
      PROVE  BrokerInv'
  <2>1. faults < MaxFaults /\ faults' = faults + 1 /\ faults \in Nat /\ UNCHANGED broker
    BY <1>3 DEF FindFails, Shape, CallerShape
  <2>q. QED BY <2>1, ChannelFacts DEF broker, BrokerInv
<1>4. Connect \/ Open \/ Drop \/ Restart \/ UNCHANGED vars
        \/ (\E s \in Setup, c \in Channel : Wake(s, c))
        \/ (\E k \in Kind : ServiceStep(k))
        \/ (\E o \in Name : Request(o) \/ Publish(o) \/ CallStep(o) \/ SendRequest(o)
                              \/ PublishWebhook(o))
          => UNCHANGED broker /\ faults' = faults
  BY DEF Connect, Open, Drop, Restart, vars, Wake, ServiceStep, CallStep, FindApplications,
     NextApplication, AddEnsure, AwaitEnsure, AddConsume, AwaitConsume, AddSetup, Request, Publish,
     SendRequest, PublishWebhook
<1>q. QED BY <1>1, <1>2, <1>3, <1>4 DEF Next

(* Types; above all, a retryCount passes maxRetries by one at most, however
   many channels share it. *)
THEOREM TypeCorrect == Spec => []TypeOK
<1>1. Init => TriesInv /\ BrokerInv
  BY ChannelFacts, SetupFacts DEF Init, TriesInv, BrokerInv, Range, Queue
<1>2. Spec => [](TriesInv /\ BrokerInv)
  <2>1. TopologyInv /\ TriesInv /\ BrokerInv /\ [Next]_vars => (TriesInv /\ BrokerInv)'
    BY TriesStep, BrokerStep DEF TopologyInv
  <2>q. QED BY <1>1, <2>1, TopologyInvariant, PTL DEF Spec
<1>3. TopologyInv /\ TriesInv /\ BrokerInv => TypeOK
  <2> SUFFICES ASSUME TopologyInv, TriesInv, BrokerInv PROVE TypeOK
    OBVIOUS
  <2>1. LinkShape /\ WrapperShape /\ CallerShape
    BY DEF TopologyInv, Shape
  <2>2. tries \in [Consumes -> 0..(MaxRetries + 1)]
    BY <2>1, ChannelFacts DEF WrapperShape, TriesInv
  <2>3. faults \in 0..MaxFaults
    BY <2>1, ChannelFacts DEF CallerShape, BrokerInv
  <2>q. QED BY <2>1, <2>2, <2>3 DEF LinkShape, WrapperShape, CallerShape, Call, TriesInv, BrokerInv,
            TypeOK
<1>q. QED BY <1>2, <1>3, TopologyInvariant, PTL
=============================================================================
