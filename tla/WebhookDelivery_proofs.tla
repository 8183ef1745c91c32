----------------------- MODULE WebhookDelivery_proofs -----------------------
(***************************************************************************)
(* Theorems of WebhookDelivery, for every number of calls, every           *)
(* WEBHOOK_MAX_RETRIES and every list of delays.                           *)
(***************************************************************************)
EXTENDS WebhookDelivery, TLAPS

RowState  == {"none", "PENDING", "SUCCESS", "FAILED"}
PostState == {"none", "flying", "accepted", "rejected"}

Types ==
    /\ pc      \in [Call -> Stage]
    /\ attempt \in [Call -> 0..MaxRetries]
    /\ row     \in [Try -> RowState]
    /\ post    \in [Try -> PostState]
    /\ last    \in [Call -> {"none", "answer", "message"}]
    /\ slept   \in [Call -> Seq(Nat)]
    /\ result  \in [Call -> Result]
    /\ faults  \in 0..MaxFaults
    /\ crashes \in 0..MaxCrashes

Waiting  == {"await", "toSuccess", "toFailed"}     \* the attempt's row is open
InTheTry == Waiting \cup {"create"}

(* The attempts of a call behind the current one are closed, those ahead of it
   do not exist. *)
Trail(c) ==
    \A a \in Attempt :
        /\ a < attempt[c] => row[<<c, a>>] = "FAILED"
        /\ a > attempt[c] => row[<<c, a>>] = "none" /\ post[<<c, a>>] = "none"
        /\ row[<<c, a>>] = "SUCCESS" => post[<<c, a>>] = "accepted"
        /\ row[<<c, a>>] = "none" => post[<<c, a>>] = "none"

(* The current attempt, at each await of the loop. *)
Here(c) ==
    /\ pc[c] \in InTheTry \cup {"sleep"} => attempt[c] \in Attempt
    /\ pc[c] = "idle"      => attempt[c] = 0 /\ last[c] = "none"
    /\ pc[c] = "create"    => row[Current(c)] = "none"
    /\ pc[c] \in Waiting   => row[Current(c)] = "PENDING"
    /\ pc[c] = "toSuccess" => post[Current(c)] = "accepted"
    /\ pc[c] = "toFailed" /\ last[c] = "answer" => post[Current(c)] = "rejected"
    /\ pc[c] = "sleep"     => row[Current(c)] = "FAILED" /\ attempt[c] < MaxRetries

(* One delay is slept between two attempts, none of them zero. *)
Paced(c) ==
    /\ \A i \in 1..Len(slept[c]) : slept[c][i] > 0
    /\ attempt[c] - 1 <= Len(slept[c])
    /\ pc[c] = "idle" => slept[c] = <<>>
    /\ pc[c] \in InTheTry => Len(slept[c]) = attempt[c] - 1
    /\ pc[c] = "sleep" => Len(slept[c]) = attempt[c]
    /\ slept[c] # <<>> => Len(slept[c]) < MaxRetries

(* How the call has ended. *)
Outcome(c) ==
    /\ result[c] = "none" <=> pc[c] # "done"
    /\ result[c] = "success" => attempt[c] \in Attempt /\ row[Current(c)] = "SUCCESS"
    /\ result[c] = "failure" => /\ \A a \in Attempt : row[<<c, a>>] = "FAILED"
                                /\ last[c] = "answer" =>
                                      MaxRetries \in Attempt /\ post[<<c, MaxRetries>>] = "rejected"
    /\ result[c] \in {"success", "failure"} \/ (result[c] = "threw" /\ faults = 0)
          => \A a \in Attempt : row[<<c, a>>] # "PENDING"

Sound(c) == Trail(c) /\ Here(c) /\ Paced(c) /\ Outcome(c)

CallInv == Types /\ \A c \in Call : Sound(c)
-----------------------------------------------------------------------------
(* The delay that getRetryDelay returns is a positive number: an entry that is
   missing, 0 or not a number falls back to a multiple of the default. *)
LEMMA DelayIsPositive ==
    ASSUME NEW a \in Nat \ {0}
    PROVE  GetRetryDelay(a) \in Nat /\ GetRetryDelay(a) > 0
<1>1. CASE a \in 1..Len(RetryDelays) /\ RetryDelays[a] # 0
  BY <1>1, RetryAssumption DEF GetRetryDelay
<1>2. CASE ~(a \in 1..Len(RetryDelays) /\ RetryDelays[a] # 0)
  <2>1. DefaultDelay * a \in Nat /\ DefaultDelay * a > 0
    BY RetryAssumption
  <2>q. QED BY <1>2, <2>1 DEF GetRetryDelay
<1>q. QED BY <1>1, <1>2

(* One more delay that is not zero. *)
LEMMA AppendKeepsPositive ==
    ASSUME NEW s \in Seq(Nat), NEW d \in Nat, d > 0,
           \A i \in 1..Len(s) : s[i] > 0
    PROVE  /\ Len(Append(s, d)) = Len(s) + 1 /\ Append(s, d) # <<>>
           /\ \A i \in 1..Len(Append(s, d)) : Append(s, d)[i] > 0
<1>1. Len(Append(s, d)) = Len(s) + 1 /\ Len(s) \in Nat
  OBVIOUS
<1>3. Append(s, d) # <<>>
  BY <1>1
<1>2. ASSUME NEW i \in 1..Len(Append(s, d))
      PROVE  Append(s, d)[i] > 0
  <2>1. CASE i \in 1..Len(s)
    BY <2>1
  <2>2. CASE i = Len(s) + 1
    BY <2>2
  <2>q. QED BY <1>1, <2>1, <2>2
<1>q. QED BY <1>1, <1>2, <1>3

(* The step leaves call c alone. *)
Same(c) ==
    /\ pc'[c] = pc[c] /\ attempt'[c] = attempt[c] /\ last'[c] = last[c]
    /\ slept'[c] = slept[c] /\ result'[c] = result[c]
    /\ \A a \in Attempt : row'[<<c, a>>] = row[<<c, a>>] /\ post'[<<c, a>>] = post[<<c, a>>]
    /\ faults > 0 => faults' > 0

(* The attempts that a call can be at. *)
LEMMA AttemptFacts ==
    /\ Attempt \subseteq Nat /\ MaxRetries \in Nat
    /\ \A n \in 0..MaxRetries : n \in Attempt \/ n = 0
    /\ \A n \in Nat : n < MaxRetries => n + 1 \in Attempt
    /\ \A c \in Call, a \in Attempt : <<c, a>> \in Try
    /\ \A x \in Try : x[1] \in Call /\ x[2] \in Attempt /\ x = <<x[1], x[2]>>
BY RetryAssumption DEF Attempt, Try

(* A call that a step leaves alone stays sound. *)
LEMMA SameIsSound ==
    ASSUME Types, Types', NEW c \in Call, Sound(c), Same(c)
    PROVE  Sound(c)'
<1>t. faults \in Nat /\ faults' \in Nat /\ attempt[c] \in 0..MaxRetries
  BY LimitAssumption DEF Types
<1>1. Trail(c)'
  BY DEF Sound, Same, Trail
<1>2. Here(c)'
  <2>1. attempt[c] \in Attempt => row'[Current(c)] = row[Current(c)] /\ post'[Current(c)] = post[Current(c)]
    BY DEF Same, Current
  <2>2. Current(c)' = Current(c)
    BY DEF Same, Current
  <2>q. QED BY <2>1, <2>2 DEF Sound, Same, Here, InTheTry, Waiting
<1>3. Paced(c)'
  BY DEF Sound, Same, Paced
<1>4. Outcome(c)'
  <2>1. attempt[c] \in Attempt => row'[<<c, attempt[c]>>] = row[<<c, attempt[c]>>]
    BY DEF Same
  <2>2. \A a \in Attempt : row[<<c, a>>] = "FAILED" => row'[<<c, a>>] = "FAILED"
    BY DEF Same
  <2>3. result[c] = "failure" /\ last[c] = "answer" => post'[<<c, MaxRetries>>] = "rejected"
    BY DEF Sound, Same, Outcome
  <2>q. QED BY <1>t, <2>1, <2>2, <2>3 DEF Sound, Same, Outcome, Current
<1>q. QED BY <1>1, <1>2, <1>3, <1>4 DEF Sound

(* The end of the loop's head: attempt a of call c begins, or none is left. *)
LEMMA EnterIsSound ==
    ASSUME Types, Types', NEW c \in Call, Sound(c), NEW a \in Nat \ {0},
           Enter(c, a), UNCHANGED <<row, post, last, slept, limits>>,
           \/ pc[c] = "idle" /\ a = 1
           \/ pc[c] = "sleep" /\ a = attempt[c] + 1
    PROVE  Sound(c)'
<1>t. /\ attempt[c] \in 0..MaxRetries /\ pc \in [Call -> Stage] /\ attempt \in [Call -> 0..MaxRetries]
      /\ result \in [Call -> Result] /\ row \in [Try -> RowState] /\ slept[c] \in Seq(Nat)
  BY DEF Types
<1>r. /\ a = attempt[c] + 1 /\ result[c] = "none"
      /\ \A b \in Attempt : /\ b < a => row[<<c, b>>] = "FAILED"
                            /\ b >= a => row[<<c, b>>] = "none" /\ post[<<c, b>>] = "none"
                            /\ row[<<c, b>>] # "PENDING"
      /\ Len(slept[c]) = attempt[c]
      /\ \A i \in 1..Len(slept[c]) : slept[c][i] > 0
      /\ slept[c] # <<>> => Len(slept[c]) < MaxRetries
      /\ pc[c] = "idle" => last[c] = "none"
      /\ pc[c] = "sleep" => attempt[c] < MaxRetries
  <2>1. a = attempt[c] + 1 /\ Len(slept[c]) = attempt[c]
    BY <1>t DEF Sound, Here, Paced
  <2>2. /\ result[c] = "none" /\ \A i \in 1..Len(slept[c]) : slept[c][i] > 0
        /\ slept[c] # <<>> => Len(slept[c]) < MaxRetries
        /\ pc[c] = "idle" => last[c] = "none"
        /\ pc[c] = "sleep" => attempt[c] < MaxRetries /\ attempt[c] \in Attempt
        /\ pc[c] = "sleep" => row[<<c, attempt[c]>>] = "FAILED"
    BY DEF Sound, Here, Paced, Outcome, Current
  <2>3. ASSUME NEW b \in Attempt
        PROVE  /\ b < a => row[<<c, b>>] = "FAILED"
               /\ b >= a => row[<<c, b>>] = "none" /\ post[<<c, b>>] = "none"
    <3>1. b \in Nat /\ attempt[c] \in Nat /\ b > 0
      BY <1>t, RetryAssumption DEF Attempt
    <3>2. /\ b < attempt[c] => row[<<c, b>>] = "FAILED"
          /\ b > attempt[c] => row[<<c, b>>] = "none" /\ post[<<c, b>>] = "none"
      BY DEF Sound, Trail
    <3>3. b = attempt[c] => row[<<c, b>>] = "FAILED"
      <4>1. pc[c] = "idle" => attempt[c] = 0
        BY DEF Sound, Here
      <4>q. QED BY <2>2, <3>1, <4>1
    <3>q. QED BY <2>1, <3>1, <3>2, <3>3
  <2>q. QED BY <1>t, <2>1, <2>2, <2>3, AttemptFacts
<1>1. CASE a <= MaxRetries
  <2>1. pc'[c] = "create" /\ attempt'[c] = a /\ result'[c] = "none" /\ a \in Attempt
    BY <1>t, <1>r, <1>1, AttemptFacts DEF Enter, Goes
  <2>2. Trail(c)'
    BY <1>r, <2>1, AttemptFacts DEF Trail
  <2>3. Here(c)'
    BY <1>r, <2>1 DEF Here, InTheTry, Waiting, Current
  <2>4. Paced(c)'
    BY <1>t, <1>r, <2>1, AttemptFacts DEF Paced, InTheTry, Waiting
  <2>5. Outcome(c)'
    BY <2>1 DEF Outcome
  <2>q. QED BY <2>2, <2>3, <2>4, <2>5 DEF Sound
<1>2. CASE ~(a <= MaxRetries)
  <2>1. pc'[c] = "done" /\ attempt'[c] = attempt[c] /\ result'[c] = "failure"
    BY <1>t, <1>r, <1>2 DEF Enter, Ends
  <2>2. MaxRetries = 0 /\ Attempt = {} /\ last[c] = "none" /\ attempt[c] = 0
    BY <1>t, <1>r, <1>2, RetryAssumption DEF Attempt
  <2>3. Trail(c)' /\ Here(c)'
    BY <2>1, <2>2 DEF Trail, Here, InTheTry, Waiting
  <2>4. Paced(c)'
    BY <1>t, <1>r, <2>1, <2>2 DEF Paced, InTheTry, Waiting
  <2>5. Outcome(c)'
    BY <2>1, <2>2 DEF Outcome
  <2>q. QED BY <2>3, <2>4, <2>5 DEF Sound
<1>q. QED BY <1>1, <1>2
-----------------------------------------------------------------------------
(* Types. *)

(* Every step keeps the types of rows, posts, attempts and delays. *)
LEMMA TypesStep == CallInv /\ [Next]_vars => Types'
<1> SUFFICES ASSUME CallInv, [Next]_vars
             PROVE  Types'
  OBVIOUS
<1>t. Types /\ \A c \in Call : attempt[c] \in Nat /\ (pc[c] \in InTheTry \cup {"sleep"} => Current(c) \in Try)
  BY AttemptFacts DEF CallInv, Types, Sound, Here, Current
<1> USE LimitAssumption DEF Types, limits, Goes, Ends, Blames, SetRow, Fault, Answered, Stage,
        Result, RowState, PostState
<1>0. ASSUME NEW c \in Call, NEW a \in Nat, Enter(c, a)
      PROVE  /\ pc' \in [Call -> Stage] /\ result' \in [Call -> Result]
             /\ attempt' \in [Call -> 0..MaxRetries]
  <2>1. CASE a <= MaxRetries
    <3>1. a \in 0..MaxRetries
      BY <2>1, RetryAssumption
    <3>q. QED BY <1>t, <1>0, <2>1, <3>1 DEF Enter
  <2>2. CASE ~(a <= MaxRetries)
    BY <1>t, <1>0, <2>2 DEF Enter
  <2>q. QED BY <2>1, <2>2
<1>f. Fault => faults' \in 0..MaxFaults /\ crashes' \in 0..MaxCrashes
  BY <1>t
<1>1. ASSUME NEW c \in Call, Refuse(c) \/ ThrowOut(c) \/ MarkRowSuccessFails(c)
      PROVE  Types'
  <2>1. CASE Refuse(c)
    BY <1>t, <2>1 DEF Refuse
  <2>2. CASE ThrowOut(c)
    BY <1>t, <1>f, <2>2 DEF ThrowOut
  <2>3. CASE MarkRowSuccessFails(c)
    BY <1>t, <1>f, <2>3 DEF MarkRowSuccessFails
  <2>q. QED BY <1>1, <2>1, <2>2, <2>3
<1>2. ASSUME NEW c \in Call, Start(c) \/ Wake(c)
      PROVE  Types'
  BY <1>t, <1>0, <1>2 DEF Start, Wake
<1>3. ASSUME NEW c \in Call, PostAttempt(c)
      PROVE  Types'
  BY <1>t, <1>3 DEF PostAttempt
<1>4. ASSUME NEW c \in Call, SeeAccepted(c) \/ SeeRejected(c) \/ NoAnswer(c)
      PROVE  Types'
  BY <1>t, <1>4 DEF SeeAccepted, SeeRejected, NoAnswer
<1>5. ASSUME NEW c \in Call, MarkRowSuccess(c)
      PROVE  Types'
  BY <1>t, <1>5 DEF MarkRowSuccess
<1>6. ASSUME NEW c \in Call, MarkRowFailed(c)
      PROVE  Types'
  <2>1. attempt[c] \in Nat \ {0}
    BY <1>t, <1>6, AttemptFacts DEF MarkRowFailed, CallInv, Sound, Here, InTheTry, Waiting, Attempt
  <2>2. Append(slept[c], GetRetryDelay(attempt[c])) \in Seq(Nat)
    BY <1>t, <2>1, DelayIsPositive
  <2>3. slept' \in [Call -> Seq(Nat)]
    BY <1>t, <1>6, <2>2 DEF MarkRowFailed
  <2>q. QED BY <1>t, <1>6, <2>3 DEF MarkRowFailed
<1>7. ASSUME NEW x \in Try, HstAccepts(x) \/ HstRejects(x)
      PROVE  Types'
  BY <1>t, <1>7 DEF HstAccepts, HstRejects
<1>8. CASE Crash
  BY <1>t, <1>8 DEF Crash
<1>9. CASE UNCHANGED vars
  BY <1>t, <1>9 DEF vars
<1>q. QED
  BY <1>1, <1>2, <1>3, <1>4, <1>5, <1>6, <1>7, <1>8, <1>9 DEF Next, Progress
-----------------------------------------------------------------------------
(* The steps of one call. *)

(* What is known of a call that is inside the try block of an attempt. *)
LEMMA InTheTryFacts ==
    ASSUME CallInv, NEW c \in Call, pc[c] \in InTheTry
    PROVE  /\ attempt[c] \in Attempt /\ attempt[c] \in Nat \ {0} /\ Current(c) \in Try
           /\ Current(c) = <<c, attempt[c]>>
           /\ result[c] = "none"
           /\ Len(slept[c]) = attempt[c] - 1 /\ slept[c] \in Seq(Nat)
           /\ \A i \in 1..Len(slept[c]) : slept[c][i] > 0
           /\ slept[c] # <<>> => Len(slept[c]) < MaxRetries
           /\ pc[c] = "create" => row[Current(c)] = "none"
           /\ pc[c] \in Waiting => row[Current(c)] = "PENDING"
           /\ \A a \in Attempt : /\ a < attempt[c] => row[<<c, a>>] = "FAILED"
                                 /\ a > attempt[c] => row[<<c, a>>] = "none" /\ post[<<c, a>>] = "none"
                                 /\ row[<<c, a>>] = "SUCCESS" => post[<<c, a>>] = "accepted"
<1>1. /\ attempt[c] \in Attempt /\ result[c] = "none" /\ Len(slept[c]) = attempt[c] - 1
      /\ \A i \in 1..Len(slept[c]) : slept[c][i] > 0
      /\ slept[c] # <<>> => Len(slept[c]) < MaxRetries
      /\ pc[c] = "create" => row[Current(c)] = "none"
      /\ pc[c] \in Waiting => row[Current(c)] = "PENDING"
  BY DEF CallInv, Sound, Here, Paced, Outcome, InTheTry, Waiting
<1>2. attempt[c] \in Nat \ {0} /\ Current(c) \in Try /\ slept[c] \in Seq(Nat)
  BY <1>1, AttemptFacts DEF Attempt, Current, CallInv, Types
<1>q. QED BY <1>1, <1>2 DEF Current, CallInv, Sound, Trail

(* A step inside the try block that writes no row keeps the call sound. *)
LEMMA WaitingIsSound ==
    ASSUME CallInv, Types', NEW c \in Call, pc[c] \in Waiting, pc'[c] \in Waiting,
           UNCHANGED <<attempt, row, post, slept, result>>,
           pc'[c] = "toSuccess" => post[Current(c)] = "accepted",
           pc'[c] = "toFailed" /\ last'[c] = "answer" => post[Current(c)] = "rejected"
    PROVE  Sound(c)'
<1>r. pc[c] \in InTheTry
  BY DEF InTheTry
<1>1. Trail(c)'
  BY DEF CallInv, Sound, Trail
<1>2. Here(c)'
  BY <1>r, InTheTryFacts DEF Here, Current, InTheTry, Waiting
<1>3. Paced(c)'
  <2>1. Paced(c) /\ attempt'[c] = attempt[c] /\ slept'[c] = slept[c]
    BY DEF CallInv, Sound
  <2>2. pc'[c] \notin {"idle", "sleep"}
    BY DEF Waiting
  <2>q. QED BY <1>r, <2>1, <2>2 DEF Paced
<1>4. Outcome(c)'
  BY <1>r, InTheTryFacts DEF Outcome, Waiting
<1>q. QED BY <1>1, <1>2, <1>3, <1>4 DEF Sound

(* The PENDING row and the POST of the current attempt. *)
LEMMA PostAttemptIsSound ==
    ASSUME CallInv, Types', NEW c \in Call, PostAttempt(c)
    PROVE  Sound(c)'
<1>r. pc[c] = "create" /\ pc[c] \in InTheTry
  BY DEF PostAttempt, InTheTry
<1>1. /\ attempt[c] \in Attempt /\ attempt[c] \in Nat \ {0} /\ Current(c) = <<c, attempt[c]>>
      /\ Current(c) \in Try /\ result[c] = "none" /\ row \in [Try -> RowState]
      /\ pc \in [Call -> Stage] /\ post \in [Try -> PostState]
  BY <1>r, InTheTryFacts DEF CallInv, Types
<1>2. /\ pc'[c] = "await" /\ result'[c] = "none" /\ attempt'[c] = attempt[c] /\ slept'[c] = slept[c]
      /\ \A x \in Try : row'[x] = IF x = Current(c) THEN "PENDING" ELSE row[x]
      /\ \A x \in Try : post'[x] = IF x = Current(c) THEN "flying" ELSE post[x]
  BY <1>1 DEF PostAttempt, SetRow, Goes
<1>3. \A a \in Attempt : a # attempt[c] => row'[<<c, a>>] = row[<<c, a>>] /\ post'[<<c, a>>] = post[<<c, a>>]
  BY <1>1, <1>2, AttemptFacts
<1>4. Trail(c)'
  <2>1. row'[<<c, attempt[c]>>] = "PENDING"
    BY <1>1, <1>2
  <2>q. QED BY <1>r, <1>1, <1>2, <1>3, <2>1, InTheTryFacts, AttemptFacts DEF Trail
<1>5. Here(c)'
  BY <1>1, <1>2 DEF Here, Current, InTheTry, Waiting
<1>6. Paced(c)'
  BY <1>r, <1>1, <1>2, InTheTryFacts DEF Paced, InTheTry, Waiting
<1>7. Outcome(c)'
  BY <1>2 DEF Outcome
<1>q. QED BY <1>4, <1>5, <1>6, <1>7 DEF Sound

(* The row of the current attempt is closed: SUCCESS ends the call, FAILED
   is followed by the delay or, after the last attempt, by failure. *)
LEMMA CloseRowIsSound ==
    ASSUME CallInv, Types', NEW c \in Call, MarkRowSuccess(c) \/ MarkRowFailed(c)
    PROVE  Sound(c)'
<1>r. pc[c] \in InTheTry
  BY DEF MarkRowSuccess, MarkRowFailed, InTheTry, Waiting
<1>t. /\ row \in [Try -> RowState] /\ pc \in [Call -> Stage] /\ result \in [Call -> Result]
      /\ slept \in [Call -> Seq(Nat)] /\ MaxRetries \in Nat /\ attempt[c] <= MaxRetries
  BY RetryAssumption DEF CallInv, Types
<1>1. /\ attempt[c] \in Attempt /\ attempt[c] \in Nat \ {0} /\ Current(c) = <<c, attempt[c]>>
      /\ Current(c) \in Try /\ result[c] = "none"
      /\ Len(slept[c]) = attempt[c] - 1 /\ slept[c] \in Seq(Nat)
      /\ \A i \in 1..Len(slept[c]) : slept[c][i] > 0
      /\ slept[c] # <<>> => Len(slept[c]) < MaxRetries
      /\ \A a \in Attempt : /\ a < attempt[c] => row[<<c, a>>] = "FAILED"
                            /\ a > attempt[c] => row[<<c, a>>] = "none" /\ post[<<c, a>>] = "none"
                            /\ row[<<c, a>>] = "SUCCESS" => post[<<c, a>>] = "accepted"
  BY <1>r, InTheTryFacts
<1>2. UNCHANGED <<attempt, post, last, limits>>
  BY DEF MarkRowSuccess, MarkRowFailed
<1>3. CASE MarkRowSuccess(c)
  <2>1. /\ pc'[c] = "done" /\ result'[c] = "success" /\ slept' = slept
        /\ \A x \in Try : row'[x] = IF x = Current(c) THEN "SUCCESS" ELSE row[x]
    BY <1>t, <1>1, <1>3 DEF MarkRowSuccess, SetRow, Ends
  <2>2. post[Current(c)] = "accepted"
    BY <1>3 DEF MarkRowSuccess, CallInv, Sound, Here
  <2>3. \A a \in Attempt : row'[<<c, a>>] = IF a = attempt[c] THEN "SUCCESS" ELSE row[<<c, a>>]
    BY <1>1, <2>1, AttemptFacts
  <2>4. Trail(c)'
    <3>1. post[<<c, attempt[c]>>] = "accepted" /\ UNCHANGED <<attempt, post>>
      BY <1>1, <1>2, <2>2
    <3>2. ASSUME NEW a \in Attempt
          PROVE  /\ a < attempt[c] => row'[<<c, a>>] = "FAILED"
                 /\ a > attempt[c] => row'[<<c, a>>] = "none" /\ post[<<c, a>>] = "none"
                 /\ row'[<<c, a>>] = "SUCCESS" => post[<<c, a>>] = "accepted"
                 /\ row'[<<c, a>>] = "none" => post[<<c, a>>] = "none"
      <4>1. CASE a = attempt[c]
        BY <1>1, <2>3, <3>1, <4>1
      <4>2. CASE a # attempt[c]
        <5>1. row'[<<c, a>>] = row[<<c, a>>] /\ a \in Nat
          BY <2>3, <4>2, AttemptFacts
        <5>2. row[<<c, a>>] = "none" => post[<<c, a>>] = "none"
          BY DEF CallInv, Sound, Trail
        <5>q. QED BY <1>1, <5>1, <5>2
      <4>q. QED BY <4>1, <4>2
    <3>q. QED BY <3>1, <3>2 DEF Trail
  <2>5. Here(c)'
    BY <2>1 DEF Here, InTheTry, Waiting
  <2>6. Paced(c)'
    BY <1>1, <1>2, <2>1 DEF Paced, InTheTry, Waiting
  <2>7. Outcome(c)'
    <3>1. \A a \in Attempt : row'[<<c, a>>] # "PENDING"
      BY <1>1, <2>3, AttemptFacts
    <3>q. QED BY <1>1, <1>2, <2>1, <2>3, <3>1 DEF Outcome, Current
  <2>q. QED BY <2>4, <2>5, <2>6, <2>7 DEF Sound
<1>4. CASE MarkRowFailed(c)
  <2>1. \A x \in Try : row'[x] = IF x = Current(c) THEN "FAILED" ELSE row[x]
    BY <1>t, <1>1, <1>4 DEF MarkRowFailed, SetRow
  <2>2. \A a \in Attempt : row'[<<c, a>>] = IF a = attempt[c] THEN "FAILED" ELSE row[<<c, a>>]
    BY <1>1, <2>1, AttemptFacts
  <2>3. Trail(c)'
    BY <1>1, <1>2, <2>2, AttemptFacts DEF Trail
  <2>4. CASE HasRetriesLeft(attempt[c])
    <3>1. /\ pc'[c] = "sleep" /\ result'[c] = "none" /\ attempt[c] < MaxRetries
          /\ slept'[c] = Append(slept[c], GetRetryDelay(attempt[c]))
      BY <1>t, <1>1, <1>4, <2>4 DEF MarkRowFailed, Goes, HasRetriesLeft
    <3>2. GetRetryDelay(attempt[c]) \in Nat /\ GetRetryDelay(attempt[c]) > 0
      BY <1>1, DelayIsPositive
    <3>3. /\ Len(slept'[c]) = attempt[c] /\ slept'[c] # <<>>
          /\ \A i \in 1..Len(slept'[c]) : slept'[c][i] > 0
      <4> DEFINE d == GetRetryDelay(attempt[c])
      <4>1. /\ Len(Append(slept[c], d)) = Len(slept[c]) + 1 /\ Append(slept[c], d) # <<>>
            /\ \A i \in 1..Len(Append(slept[c], d)) : Append(slept[c], d)[i] > 0
        BY <1>1, <3>2, AppendKeepsPositive
      <4>2. Len(slept[c]) + 1 = attempt[c]
        BY <1>1
      <4>3. slept'[c] = Append(slept[c], d)
        BY <3>1
      <4> HIDE DEF d
      <4>q. QED BY <4>1, <4>2, <4>3
    <3>4. Here(c)'
      BY <1>1, <1>2, <2>2, <3>1 DEF Here, InTheTry, Waiting, Current
    <3>5. Paced(c)'
      <4>1. attempt'[c] = attempt[c] /\ attempt[c] \in Nat
        BY <1>1, <1>2
      <4>2. pc'[c] # "idle" /\ pc'[c] \notin InTheTry
        BY <3>1 DEF InTheTry, Waiting
      <4>q. QED BY <3>1, <3>3, <4>1, <4>2 DEF Paced
    <3>6. Outcome(c)'
      BY <3>1 DEF Outcome
    <3>q. QED BY <2>3, <3>4, <3>5, <3>6 DEF Sound
  <2>5. CASE ~HasRetriesLeft(attempt[c])
    <3>1. pc'[c] = "done" /\ result'[c] = "failure" /\ slept' = slept /\ attempt[c] = MaxRetries
      BY <1>t, <1>1, <1>4, <2>5 DEF MarkRowFailed, Ends, HasRetriesLeft
    <3>2. \A a \in Attempt : row'[<<c, a>>] = "FAILED"
      <4>1. \A a \in Attempt : a = attempt[c] \/ a < attempt[c]
        BY <3>1, RetryAssumption DEF Attempt
      <4>q. QED BY <1>1, <2>2, <4>1
    <3>3. last[c] = "answer" => post[<<c, MaxRetries>>] = "rejected"
      BY <1>1, <1>4, <3>1 DEF MarkRowFailed, CallInv, Sound, Here
    <3>4. Here(c)'
      BY <3>1 DEF Here, InTheTry, Waiting
    <3>5. Paced(c)'
      BY <1>1, <1>2, <3>1 DEF Paced, InTheTry, Waiting
    <3>6. Outcome(c)'
      BY <1>1, <1>2, <3>1, <3>2, <3>3 DEF Outcome
    <3>q. QED BY <2>3, <3>4, <3>5, <3>6 DEF Sound
  <2>q. QED BY <2>4, <2>5
<1>q. QED BY <1>3, <1>4

(* A call that ends by an exception, or is lost with the process, keeps its
   rows and posts as they are. *)
LEMMA EndedIsSound ==
    ASSUME CallInv, Types', NEW c \in Call, UNCHANGED <<attempt, row, post, last, slept>>,
           pc[c] # "done", pc'[c] = "done",
           \/ result'[c] = "lost"
           \/ result'[c] = "threw" /\ (faults' > 0 \/ pc[c] = "idle")
    PROVE  Sound(c)'
<1>t. faults' \in Nat /\ Attempt \subseteq Nat /\ \A a \in Attempt : a > 0
  BY LimitAssumption, RetryAssumption DEF Types, Attempt
<1>1. Trail(c)'
  BY DEF CallInv, Sound, Trail
<1>2. Here(c)'
  BY DEF Here, InTheTry, Waiting
<1>3. Paced(c)'
  BY DEF CallInv, Sound, Paced, InTheTry, Waiting
<1>4. Outcome(c)'
  <2>1. pc[c] = "idle" => \A a \in Attempt : row[<<c, a>>] = "none"
    BY <1>t DEF CallInv, Sound, Here, Trail
  <2>q. QED BY <1>t, <2>1 DEF Outcome
<1>q. QED BY <1>1, <1>2, <1>3, <1>4 DEF Sound

(* HST answers a post: the call does not move. *)
LEMMA AnswerIsSound ==
    ASSUME CallInv, Types', NEW x \in Try, HstAccepts(x) \/ HstRejects(x), NEW c \in Call
    PROVE  Sound(c)'
<1>1. /\ UNCHANGED <<pc, attempt, row, last, slept, result, limits>>
      /\ post[x] = "flying" /\ \A y \in Try : y # x => post'[y] = post[y]
  BY DEF HstAccepts, HstRejects, Answered, CallInv, Types
<1>2. \A y \in Try : /\ post[y] = "none" => post'[y] = "none"
                     /\ post[y] = "accepted" => post'[y] = "accepted"
                     /\ post[y] = "rejected" => post'[y] = "rejected"
  BY <1>1
<1>3. Trail(c)'
  BY <1>1, <1>2, AttemptFacts DEF CallInv, Sound, Trail
<1>4. Here(c)'
  <2>1. attempt[c] \in Attempt => Current(c) \in Try
    BY AttemptFacts DEF Current
  <2>q. QED BY <1>1, <1>2, <2>1 DEF CallInv, Sound, Here, InTheTry, Waiting, Current
<1>5. Paced(c)'
  BY <1>1 DEF CallInv, Sound, Paced, InTheTry, Waiting
<1>6. Outcome(c)'
  BY <1>1, <1>2, AttemptFacts DEF CallInv, Sound, Outcome, Current, limits
<1>q. QED BY <1>3, <1>4, <1>5, <1>6 DEF Sound

(* A step of one call keeps that call sound. *)
LEMMA CallStepIsSound ==
    ASSUME CallInv, Types', NEW c \in Call,
           Refuse(c) \/ Start(c) \/ Progress(c) \/ MarkRowSuccessFails(c) \/ ThrowOut(c)
    PROVE  Sound(c)'
<1>t. /\ pc \in [Call -> Stage] /\ last \in [Call -> {"none", "answer", "message"}]
      /\ result \in [Call -> Result] /\ faults \in Nat /\ attempt[c] \in Nat /\ Types /\ Sound(c)
  BY LimitAssumption DEF CallInv, Types
<1>f. Fault => faults' > 0
  BY <1>t DEF Fault
<1>1. CASE Refuse(c) \/ ThrowOut(c)
  <2>1. /\ UNCHANGED <<attempt, row, post, last, slept>>
        /\ pc[c] # "done" /\ pc'[c] = "done" /\ result'[c] = "threw"
        /\ faults' > 0 \/ pc[c] = "idle"
    BY <1>t, <1>f, <1>1 DEF Refuse, ThrowOut, Ends
  <2>q. QED BY <2>1, EndedIsSound
<1>2. CASE Start(c)
  BY <1>t, <1>2, EnterIsSound DEF Start
<1>3. CASE Wake(c)
  BY <1>t, <1>3, EnterIsSound DEF Wake
<1>4. CASE PostAttempt(c)
  BY <1>4, PostAttemptIsSound
<1>5. CASE SeeAccepted(c)
  <2>1. /\ pc[c] \in Waiting /\ pc'[c] = "toSuccess" /\ post[Current(c)] = "accepted"
        /\ UNCHANGED <<attempt, row, post, slept, result>>
    BY <1>t, <1>5 DEF SeeAccepted, Goes, Waiting
  <2>q. QED BY <2>1, WaitingIsSound DEF Waiting
<1>6. CASE SeeRejected(c)
  <2>1. /\ pc[c] \in Waiting /\ pc'[c] = "toFailed" /\ post[Current(c)] = "rejected"
        /\ UNCHANGED <<attempt, row, post, slept, result>>
    BY <1>t, <1>6 DEF SeeRejected, Goes, Waiting
  <2>q. QED BY <2>1, WaitingIsSound DEF Waiting
<1>7. CASE NoAnswer(c) \/ MarkRowSuccessFails(c)
  <2>1. /\ pc[c] \in Waiting /\ pc'[c] = "toFailed" /\ last'[c] = "message"
        /\ UNCHANGED <<attempt, row, post, slept, result>>
    BY <1>t, <1>7 DEF NoAnswer, MarkRowSuccessFails, Goes, Blames, Waiting
  <2>q. QED BY <2>1, WaitingIsSound DEF Waiting
<1>8. CASE MarkRowSuccess(c) \/ MarkRowFailed(c)
  BY <1>8, CloseRowIsSound
<1>q. QED BY <1>1, <1>2, <1>3, <1>4, <1>5, <1>6, <1>7, <1>8 DEF Progress

(* A step of one call leaves every other call alone. *)
LEMMA CallStepIsLocal ==
    ASSUME CallInv, NEW c \in Call, NEW d \in Call, c # d,
           Refuse(c) \/ Start(c) \/ Progress(c) \/ MarkRowSuccessFails(c) \/ ThrowOut(c)
    PROVE  Same(d)
<1>t. Types /\ faults \in Nat
  BY LimitAssumption DEF CallInv, Types
<1>0. \A a \in Attempt : Current(c) # <<d, a>> /\ <<d, a>> \in Try
  BY AttemptFacts DEF Current
<1> USE DEF Same, Types, limits, Goes, Ends, Blames, SetRow, Fault, Enter
<1>1. CASE Refuse(c) \/ ThrowOut(c)
  BY <1>t, <1>1 DEF Refuse, ThrowOut
<1>2. CASE Start(c) \/ Wake(c)
  BY <1>t, <1>2 DEF Start, Wake
<1>3. CASE PostAttempt(c)
  BY <1>t, <1>0, <1>3 DEF PostAttempt
<1>4. CASE SeeAccepted(c) \/ SeeRejected(c) \/ NoAnswer(c) \/ MarkRowSuccessFails(c)
  BY <1>t, <1>4 DEF SeeAccepted, SeeRejected, NoAnswer, MarkRowSuccessFails
<1>5. CASE MarkRowSuccess(c) \/ MarkRowFailed(c)
  BY <1>t, <1>0, <1>5 DEF MarkRowSuccess, MarkRowFailed
<1>q. QED BY <1>1, <1>2, <1>3, <1>4, <1>5 DEF Progress

(* Every step keeps every call sound. *)
LEMMA CallInvStep == CallInv /\ [Next]_vars => CallInv'
<1> SUFFICES ASSUME CallInv, [Next]_vars, NEW d \in Call
             PROVE  Sound(d)'
  BY TypesStep DEF CallInv
<1>t. Types /\ Types' /\ Sound(d)
  BY TypesStep DEF CallInv
<1>1. ASSUME NEW c \in Call,
             Refuse(c) \/ Start(c) \/ Progress(c) \/ MarkRowSuccessFails(c) \/ ThrowOut(c)
      PROVE  Sound(d)'
  <2>1. CASE c = d
    BY <1>t, <1>1, <2>1, CallStepIsSound
  <2>2. CASE c # d
    BY <1>t, <1>1, <2>2, CallStepIsLocal, SameIsSound
  <2>q. QED BY <2>1, <2>2
<1>2. ASSUME NEW x \in Try, HstAccepts(x) \/ HstRejects(x)
      PROVE  Sound(d)'
  BY <1>t, <1>2, AnswerIsSound
<1>3. CASE Crash
  <2>1. CASE Running(d)
    <3>1. /\ UNCHANGED <<attempt, row, post, last, slept>>
          /\ pc[d] # "done" /\ pc'[d] = "done" /\ result'[d] = "lost"
      BY <1>3, <2>1 DEF Crash, Running
    <3>q. QED BY <1>t, <3>1, EndedIsSound
  <2>2. CASE ~Running(d)
    BY <1>t, <1>3, <2>2, SameIsSound DEF Crash, Same
  <2>q. QED BY <2>1, <2>2
<1>4. CASE UNCHANGED vars
  BY <1>t, <1>4, SameIsSound DEF vars, limits, Same
<1>q. QED BY <1>1, <1>2, <1>3, <1>4 DEF Next

(* Before the first call nothing has been attempted. *)
LEMMA CallInvInit == Init => CallInv
<1> SUFFICES ASSUME Init PROVE CallInv
  OBVIOUS
<1>1. Types
  BY LimitAssumption, RetryAssumption DEF Init, Types, Stage, Result, RowState, PostState
<1>2. \A a \in Attempt : a \in Nat /\ a > 0
  BY RetryAssumption DEF Attempt
<1>3. ASSUME NEW c \in Call PROVE Sound(c)
  <2>1. Trail(c)
    BY <1>2, AttemptFacts DEF Init, Trail
  <2>2. Here(c) /\ Outcome(c)
    BY DEF Init, Here, Outcome, InTheTry, Waiting
  <2>3. Paced(c)
    BY DEF Init, Paced, InTheTry, Waiting
  <2>q. QED BY <2>1, <2>2, <2>3 DEF Sound
<1>q. QED BY <1>1, <1>3 DEF CallInv

(* The invariant of the attempts of every call. *)
LEMMA CallInvariant == Spec => []CallInv
BY CallInvInit, CallInvStep, PTL DEF Spec
-----------------------------------------------------------------------------
(* The properties. *)

(* What CallInv says of the row of an attempt. *)
LEMMA RowFacts ==
    ASSUME CallInv, NEW x \in Try
    PROVE  /\ x[1] \in Call /\ x[2] \in Attempt /\ x = <<x[1], x[2]>> /\ x[2] \in Nat
           /\ attempt[x[1]] \in Nat
           /\ x[2] > attempt[x[1]] => row[x] = "none"
           /\ row[x] = "SUCCESS" => post[x] = "accepted"
           /\ row[x] = "PENDING" => x[2] = attempt[x[1]]
           /\ \A a \in Attempt : a < attempt[x[1]] => row[<<x[1], a>>] = "FAILED"
<1>1. /\ x[1] \in Call /\ x[2] \in Attempt /\ x = <<x[1], x[2]>> /\ x[2] \in Nat
      /\ attempt[x[1]] \in Nat /\ Trail(x[1])
  BY AttemptFacts DEF CallInv, Types, Sound
<1>q. QED BY <1>1 DEF Trail

(* The rows, posts and delays of send stay within its loop. *)
THEOREM SendTypeCorrect == Spec => []TypeOK
<1>1. CallInv => TypeOK
  BY DEF CallInv, Types, TypeOK, Sound, Paced, RowState, PostState
<1>q. QED BY <1>1, CallInvariant, PTL

(* A SUCCESS row, and a call that returns success, were accepted by HST. *)
THEOREM SuccessRowsAreAccepted == Spec => []SuccessIsAccepted
<1>1. CallInv => SuccessIsAccepted
  BY RowFacts DEF CallInv, Sound, Outcome, SuccessIsAccepted
<1>q. QED BY <1>1, CallInvariant, PTL

(* No attempt is made while the row of an earlier one is open. *)
THEOREM EarlierAttemptsAreClosed == Spec => []EarlierAttemptsClosed
<1>1. CallInv => EarlierAttemptsClosed
  <2> SUFFICES ASSUME CallInv, NEW x \in Try, row[x] # "none", NEW a \in 1..(x[2] - 1)
               PROVE  row[<<x[1], a>>] = "FAILED"
    BY DEF EarlierAttemptsClosed
  <2>1. a \in Attempt /\ a < attempt[x[1]]
    BY RowFacts, RetryAssumption DEF Attempt
  <2>q. QED BY <2>1, RowFacts
<1>q. QED BY <1>1, CallInvariant, PTL

(* A PENDING row is that of a running attempt, or a write failed, or the
   process died: no path through the loop forgets a row. *)
THEOREM PendingRowsHaveCause == Spec => []PendingRowNeedsCause
<1>1. CallInv => PendingRowNeedsCause
  <2> SUFFICES ASSUME CallInv, NEW x \in Try, row[x] = "PENDING"
               PROVE  \/ x = Current(x[1]) /\ pc[x[1]] \in {"await", "toSuccess", "toFailed"}
                      \/ result[x[1]] = "threw" /\ faults > 0
                      \/ result[x[1]] = "lost"
    BY DEF PendingRowNeedsCause
  <2>1. x[1] \in Call /\ x[2] \in Attempt /\ x = <<x[1], x[2]>> /\ x = Current(x[1])
    BY RowFacts DEF Current
  <2>2. Here(x[1]) /\ Outcome(x[1]) /\ pc[x[1]] \in Stage /\ result[x[1]] \in Result /\ faults \in Nat
    BY <2>1, LimitAssumption DEF CallInv, Types, Sound
  <2>3. CASE pc[x[1]] = "done"
    <3>1. result[x[1]] \notin {"success", "failure"} /\ ~(result[x[1]] = "threw" /\ faults = 0)
      BY <2>1, <2>2 DEF Outcome
    <3>q. QED BY <2>2, <2>3, <3>1 DEF Outcome, Result
  <2>4. CASE pc[x[1]] # "done"
    <3>1. attempt[x[1]] # 0
      BY <2>1, RowFacts, RetryAssumption DEF Attempt
    <3>q. QED BY <2>1, <2>2, <2>4, <3>1 DEF Here, Stage
  <2>q. QED BY <2>3, <2>4
<1>q. QED BY <1>1, CallInvariant, PTL

(* The answer that send reports for a failure is that of its last attempt. *)
THEOREM FailuresReportLastAttempt == Spec => []FailureReportsLastAttempt
<1>1. CallInv => FailureReportsLastAttempt
  BY DEF CallInv, Sound, Outcome, FailureReportsLastAttempt
<1>q. QED BY <1>1, CallInvariant, PTL

(* A positive delay was slept before every retry, whatever the environment
   puts into WEBHOOK_RETRY_DELAYS. *)
THEOREM RetriesAreAlwaysPaced == Spec => []RetriesArePaced
<1>1. CallInv => RetriesArePaced
  <2> SUFFICES ASSUME CallInv, NEW x \in Try, row[x] # "none"
               PROVE  /\ Len(slept[x[1]]) >= x[2] - 1
                      /\ \A a \in 1..(x[2] - 1) : slept[x[1]][a] > 0
    BY DEF RetriesArePaced
  <2>1. x[1] \in Call /\ x[2] \in Nat /\ x[2] <= attempt[x[1]] /\ attempt[x[1]] \in Nat
    BY RowFacts
  <2>2. Paced(x[1]) /\ slept[x[1]] \in Seq(Nat)
    BY <2>1 DEF CallInv, Types, Sound
  <2>3. Len(slept[x[1]]) \in Nat /\ attempt[x[1]] - 1 <= Len(slept[x[1]])
    BY <2>2 DEF Paced
  <2>q. QED BY <2>1, <2>2, <2>3 DEF Paced
<1>q. QED BY <1>1, CallInvariant, PTL
-----------------------------------------------------------------------------
(* Termination without fairness: the measure that each step of a call lowers. *)

(* The measure of a call that has not ended is a positive number. *)
LEMMA StepsLeftIsPositive ==
    ASSUME CallInv, NEW c \in Call, pc[c] # "done"
    PROVE  /\ StepsLeft(c) = 5 * (MaxRetries - attempt[c]) + StepsInAttempt[pc[c]]
           /\ StepsLeft(c) \in Nat /\ StepsLeft(c) > 0
<1>1. MaxRetries \in Nat /\ attempt[c] \in 0..MaxRetries
  BY RetryAssumption DEF CallInv, Types
<1>2. StepsInAttempt[pc[c]] \in 1..5
  BY DEF StepsInAttempt, CallInv, Types, Stage
<1>q. QED BY <1>1, <1>2 DEF StepsLeft

(* A call that ends has nothing left to do. *)
LEMMA EndAdvances ==
    ASSUME CallInv, NEW c \in Call, pc[c] # "done", pc'[c] = "done"
    PROVE  StepsLeft(c)' \in 0..(StepsLeft(c) - 1)
<1>1. StepsLeft(c)' = 0
  BY DEF StepsLeft
<1>q. QED BY <1>1, StepsLeftIsPositive

(* A step to a later await of the same attempt. *)
LEMMA AwaitAdvances ==
    ASSUME CallInv, CallInv', NEW c \in Call, pc[c] # "done", pc'[c] # "done",
           attempt'[c] = attempt[c], StepsInAttempt[pc'[c]] < StepsInAttempt[pc[c]]
    PROVE  StepsLeft(c)' \in 0..(StepsLeft(c) - 1)
<1>1. MaxRetries \in Nat /\ attempt[c] \in 0..MaxRetries
  BY RetryAssumption DEF CallInv, Types
<1>2. StepsInAttempt[pc[c]] \in Nat /\ StepsInAttempt[pc'[c]] \in Nat
  BY DEF StepsInAttempt, CallInv, Types, Stage
<1>q. QED BY <1>1, <1>2 DEF StepsLeft

(* The head of the loop: the next attempt has the five steps of the last one
   less. *)
LEMMA EnterAdvances ==
    ASSUME CallInv, CallInv', NEW c \in Call, Enter(c, attempt[c] + 1),
           pc[c] \in {"idle", "sleep"}
    PROVE  StepsLeft(c)' \in 0..(StepsLeft(c) - 1)
<1>1. MaxRetries \in Nat /\ attempt[c] \in 0..MaxRetries /\ pc \in [Call -> Stage]
  BY RetryAssumption DEF CallInv, Types
<1>2. CASE attempt[c] + 1 <= MaxRetries
  <2>1. pc'[c] = "create" /\ attempt'[c] = attempt[c] + 1
    BY <1>1, <1>2 DEF Enter, Goes, CallInv, Types
  <2>2. StepsLeft(c) = 5 * (MaxRetries - attempt[c]) + 1
    BY DEF StepsLeft, StepsInAttempt
  <2>3. StepsLeft(c)' = 5 * (MaxRetries - (attempt[c] + 1)) + 5
    BY <2>1 DEF StepsLeft, StepsInAttempt
  <2>q. QED BY <1>1, <1>2, <2>2, <2>3
<1>3. CASE ~(attempt[c] + 1 <= MaxRetries)
  BY <1>1, <1>3, EndAdvances DEF Enter, Ends
<1>q. QED BY <1>2, <1>3

(* A step of a call brings the call nearer to its end. *)
LEMMA CallStepAdvances ==
    ASSUME CallInv, CallInv', NEW c \in Call,
           Refuse(c) \/ Start(c) \/ Progress(c) \/ MarkRowSuccessFails(c) \/ ThrowOut(c)
    PROVE  StepsLeft(c)' \in 0..(StepsLeft(c) - 1)
<1>t. pc \in [Call -> Stage]
  BY DEF CallInv, Types
<1>1. CASE Refuse(c) \/ ThrowOut(c) \/ MarkRowSuccess(c)
  BY <1>t, <1>1, EndAdvances DEF Refuse, ThrowOut, MarkRowSuccess, Ends
<1>2. CASE Start(c) \/ Wake(c)
  <2>1. pc[c] = "idle" => attempt[c] = 0
    BY DEF CallInv, Sound, Here
  <2>q. QED BY <1>2, <2>1, EnterAdvances DEF Start, Wake
<1>3. CASE \/ PostAttempt(c) \/ SeeAccepted(c) \/ SeeRejected(c) \/ NoAnswer(c)
           \/ MarkRowSuccessFails(c) \/ (MarkRowFailed(c) /\ HasRetriesLeft(attempt[c]))
  <2>1. /\ attempt'[c] = attempt[c]
        /\ <<pc[c], pc'[c]>> \in {<<"create", "await">>, <<"await", "toSuccess">>,
              <<"await", "toFailed">>, <<"toSuccess", "toFailed">>, <<"toFailed", "sleep">>}
    BY <1>t, <1>3 DEF PostAttempt, SeeAccepted, SeeRejected, NoAnswer, MarkRowSuccessFails,
       MarkRowFailed, Goes
  <2>2. StepsInAttempt[pc'[c]] < StepsInAttempt[pc[c]]
    BY <2>1 DEF StepsInAttempt
  <2>3. pc[c] # "done" /\ pc'[c] # "done"
    BY <2>1
  <2>q. QED BY <2>1, <2>2, <2>3, AwaitAdvances
<1>4. CASE MarkRowFailed(c) /\ ~HasRetriesLeft(attempt[c])
  BY <1>t, <1>4, EndAdvances DEF MarkRowFailed, Ends
<1>q. QED BY <1>1, <1>2, <1>3, <1>4 DEF Progress

(* Every call of send ends after at most 5 * WEBHOOK_MAX_RETRIES + 1 steps,
   whatever HST and the database do: no step goes back. *)
THEOREM SendAlwaysAdvances == Spec => SendAdvances
<1>1. ASSUME CallInv, CallInv', [Next]_vars, NEW d \in Call
      PROVE  Untouched(d) \/ StepsLeft(d)' \in 0..(StepsLeft(d) - 1)
  <2>1. Same(d) => Untouched(d)
    BY DEF Same, Untouched
  <2>2. CASE \E c \in Call : \/ Refuse(c) \/ Start(c) \/ Progress(c)
                            \/ MarkRowSuccessFails(c) \/ ThrowOut(c)
    BY <1>1, <2>1, <2>2, CallStepIsLocal, CallStepAdvances
  <2>3. CASE \E x \in Try : HstAccepts(x) \/ HstRejects(x)
    <3>1. PICK x \in Try : HstAccepts(x) \/ HstRejects(x)
      BY <2>3
    <3>2. /\ UNCHANGED <<pc, attempt, row, last, slept, result>>
          /\ \A y \in Try : post'[y] = post[y] \/ post'[y] \in {"accepted", "rejected"}
      BY <1>1, <3>1 DEF HstAccepts, HstRejects, Answered, CallInv, Types
    <3>q. QED BY <3>2, AttemptFacts DEF Untouched
  <2>4. CASE Crash
    <3>1. CASE Running(d)
      BY <1>1, <2>4, <3>1, EndAdvances DEF Crash, Running
    <3>2. CASE ~Running(d)
      BY <2>4, <3>2 DEF Crash, Untouched
    <3>q. QED BY <3>1, <3>2
  <2>5. CASE UNCHANGED vars
    BY <2>5 DEF vars, Untouched
  <2>q. QED BY <1>1, <2>2, <2>3, <2>4, <2>5 DEF Next
<1>2. CallInv /\ CallInv' /\ [Next]_vars
         => [\A c \in Call : Untouched(c) \/ StepsLeft(c)' \in 0..(StepsLeft(c) - 1)]_vars
  BY <1>1
<1>q. QED BY <1>2, CallInvariant, PTL DEF Spec, SendAdvances
-----------------------------------------------------------------------------
(* The refinement of SendContract. *)

Posted(c)   == \E a \in Attempt : post[<<c, a>>] # "none"
Accepted(c) == \E a \in Attempt : post[<<c, a>>] = "accepted"

StateBar    == [c \in Call |-> StateOf(c)]
PostedBar   == [c \in Call |-> Posted(c)]
AcceptedBar == [c \in Call |-> Accepted(c)]
ContractStep == [Contract!Next]_<<StateBar, PostedBar, AcceptedBar>>

(* A step inside the loop is invisible to the caller of send. *)
LEMMA LoopIsInvisible ==
    ASSUME UNCHANGED <<post, result>>,
           \A c \in Call : result[c] = "none" => (pc'[c] = "idle" <=> pc[c] = "idle")
    PROVE  ContractStep
BY DEF ContractStep, StateBar, PostedBar, AcceptedBar, StateOf, Posted, Accepted

(* What a step that starts or ends one call does to the contract's state. *)
LEMMA StateOfOne ==
    ASSUME UNCHANGED post, NEW c \in Call,
           \A d \in Call \ {c} : pc'[d] = pc[d] /\ result'[d] = result[d]
    PROVE  /\ StateBar' = [StateBar EXCEPT ![c] = StateOf(c)']
           /\ PostedBar' = PostedBar /\ AcceptedBar' = AcceptedBar
           /\ StateBar[c] = StateOf(c) /\ AcceptedBar[c] = Accepted(c)
BY DEF StateBar, PostedBar, AcceptedBar, StateOf, Posted, Accepted

(* A call that starts. *)
LEMMA StartSimulates ==
    ASSUME UNCHANGED post, NEW c \in Call,
           \A d \in Call \ {c} : pc'[d] = pc[d] /\ result'[d] = result[d],
           StateOf(c) = "idle", StateOf(c)' = "running"
    PROVE  ContractStep
<1>1. Contract!Start(c)
  BY StateOfOne DEF Contract!Start, Contract!Goes, StateBar, PostedBar, AcceptedBar, Posted, Accepted
<1>q. QED BY <1>1 DEF ContractStep, Contract!Next

(* A call that ends without success. *)
LEMMA FailureSimulates ==
    ASSUME UNCHANGED post, NEW c \in Call,
           \A d \in Call \ {c} : pc'[d] = pc[d] /\ result'[d] = result[d],
           StateOf(c) \in {"idle", "running"}, StateOf(c)' \in {"failure", "threw"}
    PROVE  ContractStep
<1>1. Contract!Fail(c) \/ Contract!Throw(c)
  BY StateOfOne DEF Contract!Fail, Contract!Throw, Contract!Goes, StateBar, PostedBar, AcceptedBar,
     Posted, Accepted
<1>q. QED BY <1>1 DEF ContractStep, Contract!Next

(* A call that succeeds: HST has accepted its last post. *)
LEMMA SuccessSimulates ==
    ASSUME UNCHANGED post, NEW c \in Call,
           \A d \in Call \ {c} : pc'[d] = pc[d] /\ result'[d] = result[d],
           StateOf(c) = "running", StateOf(c)' = "success", Accepted(c)
    PROVE  ContractStep
<1>1. Contract!Succeed(c)
  BY StateOfOne DEF Contract!Succeed, Contract!Goes, StateBar, PostedBar, AcceptedBar, Posted,
     Accepted
<1>q. QED BY <1>1 DEF ContractStep, Contract!Next

(* The mapped functions change only where the calls they speak of change. *)
LEMMA BarsFollow ==
    /\ (\A d \in Call : Posted(d)' = Posted(d)) => PostedBar' = PostedBar
    /\ (\A d \in Call : Accepted(d)' = Accepted(d)) => AcceptedBar' = AcceptedBar
<1>1. ASSUME \A d \in Call : Posted(d)' = Posted(d)
      PROVE  PostedBar' = PostedBar
  BY <1>1, Zenon DEF PostedBar
<1>2. ASSUME \A d \in Call : Accepted(d)' = Accepted(d)
      PROVE  AcceptedBar' = AcceptedBar
  BY <1>2, Zenon DEF AcceptedBar
<1>q. QED BY <1>1, <1>2

(* Posts of a call are only ever added, and one that HST has accepted stays
   accepted. *)
LEMMA PostSimulates ==
    ASSUME CallInv, NEW c \in Call, PostAttempt(c)
    PROVE  ContractStep
<1>r. pc[c] = "create" /\ pc[c] \in InTheTry
  BY DEF PostAttempt, InTheTry
<1>1. /\ attempt[c] \in Attempt /\ Current(c) = <<c, attempt[c]>> /\ Current(c) \in Try
      /\ result[c] = "none" /\ row[Current(c)] = "none"
  BY <1>r, InTheTryFacts
<1>2. post[Current(c)] = "none"
  BY <1>1 DEF CallInv, Sound, Trail
<1>3. /\ \A x \in Try : post'[x] = IF x = Current(c) THEN "flying" ELSE post[x]
      /\ \A d \in Call : pc'[d] = IF d = c THEN "await" ELSE pc[d]
      /\ result' = result
  BY <1>1 DEF PostAttempt, Goes, CallInv, Types
<1>4. StateBar' = StateBar /\ StateBar[c] = "running"
  BY <1>r, <1>1, <1>3 DEF StateBar, StateOf
<1>5. \A d \in Call : Accepted(d)' = Accepted(d)
  BY <1>1, <1>2, <1>3, AttemptFacts DEF Accepted
<1>6. ASSUME NEW d \in Call
      PROVE  Posted(d)' = (d = c \/ Posted(d))
  <2>1. CASE d = c
    <3>1. post'[<<d, attempt[c]>>] # "none"
      BY <1>1, <1>3, <2>1
    <3>q. QED BY <1>1, <2>1, <3>1 DEF Posted
  <2>2. CASE d # c
    <3>1. \A a \in Attempt : post'[<<d, a>>] = post[<<d, a>>]
      BY <1>1, <1>3, <2>2, AttemptFacts
    <3>2. Posted(d)' = Posted(d)
      BY <3>1 DEF Posted
    <3>q. QED BY <2>2, <3>2 DEF Posted
  <2>q. QED BY <2>1, <2>2
<1>7. AcceptedBar' = AcceptedBar
  <2> HIDE DEF Accepted
  <2>q. QED BY <1>5, BarsFollow
<1>8. PostedBar' = [PostedBar EXCEPT ![c] = TRUE]
  <2>1. \A d \in Call : Posted(d) \in BOOLEAN /\ Posted(d)' \in BOOLEAN
    BY DEF Posted
  <2>q. QED BY <1>6, <2>1, Zenon DEF PostedBar
<1>9. Contract!Post(c)
  BY <1>4, <1>7, <1>8 DEF Contract!Post, StateBar, PostedBar, AcceptedBar, Posted, Accepted
<1>q. QED BY <1>9 DEF ContractStep, Contract!Next

(* HST accepts a post: it was posted. *)
LEMMA AcceptSimulates ==
    ASSUME CallInv, NEW x \in Try, HstAccepts(x)
    PROVE  ContractStep
<1>1. x[1] \in Call /\ x[2] \in Attempt /\ x = <<x[1], x[2]>>
  BY AttemptFacts
<1>2. /\ post[x] = "flying" /\ UNCHANGED <<pc, result>>
      /\ \A y \in Try : post'[y] = IF y = x THEN "accepted" ELSE post[y]
  BY DEF HstAccepts, Answered, CallInv, Types
<1>3. StateBar' = StateBar
  BY <1>2 DEF StateBar, StateOf
<1>4. Posted(x[1])
  BY <1>1, <1>2 DEF Posted
<1>5. \A d \in Call : Posted(d)' = Posted(d)
  BY <1>1, <1>2, AttemptFacts DEF Posted
<1>6. ASSUME NEW d \in Call
      PROVE  Accepted(d)' = (d = x[1] \/ Accepted(d))
  <2>1. CASE d = x[1]
    <3>1. post'[<<d, x[2]>>] = "accepted"
      BY <1>1, <1>2, <2>1
    <3>q. QED BY <1>1, <2>1, <3>1 DEF Accepted
  <2>2. CASE d # x[1]
    <3>1. \A a \in Attempt : post'[<<d, a>>] = post[<<d, a>>]
      BY <1>1, <1>2, <2>2, AttemptFacts
    <3>2. Accepted(d)' = Accepted(d)
      BY <3>1 DEF Accepted
    <3>q. QED BY <2>2, <3>2 DEF Accepted
  <2>q. QED BY <2>1, <2>2
<1>7. PostedBar' = PostedBar /\ PostedBar[x[1]]
  <2>1. PostedBar[x[1]] = Posted(x[1])
    BY <1>1 DEF PostedBar
  <2>q. QED BY <1>4, <1>5, <2>1, BarsFollow
<1>8. AcceptedBar' = [AcceptedBar EXCEPT ![x[1]] = TRUE]
  <2>1. \A d \in Call : Accepted(d) \in BOOLEAN /\ Accepted(d)' \in BOOLEAN
    BY DEF Accepted
  <2>q. QED BY <1>1, <1>6, <2>1, Zenon DEF AcceptedBar
<1>9. Contract!Accept(x[1])
  BY <1>3, <1>7, <1>8 DEF Contract!Accept, StateBar, PostedBar, AcceptedBar, Posted, Accepted
<1>q. QED BY <1>1, <1>9 DEF ContractStep, Contract!Next

(* HST refuses a post: nobody who relies on the contract can tell. *)
LEMMA RejectSimulates ==
    ASSUME CallInv, NEW x \in Try, HstRejects(x)
    PROVE  ContractStep
<1>1. /\ post[x] = "flying" /\ UNCHANGED <<pc, result>>
      /\ \A y \in Try : post'[y] = IF y = x THEN "rejected" ELSE post[y]
  BY DEF HstRejects, Answered, CallInv, Types
<1>2. StateBar' = StateBar
  BY <1>1 DEF StateBar, StateOf
<1>3. \A d \in Call : Posted(d)' = Posted(d)
  BY <1>1, AttemptFacts DEF Posted
<1>4. \A d \in Call : Accepted(d)' = Accepted(d)
  BY <1>1, AttemptFacts DEF Accepted
<1>5. PostedBar' = PostedBar /\ AcceptedBar' = AcceptedBar
  BY <1>3, <1>4, BarsFollow
<1>q. QED BY <1>2, <1>5 DEF ContractStep

(* The process dies: every running call is lost. *)
LEMMA CrashSimulates ==
    ASSUME CallInv, Crash
    PROVE  ContractStep
<1>1. /\ pc' = [c \in Call |-> IF Running(c) THEN "done" ELSE pc[c]]
      /\ result' = [c \in Call |-> IF Running(c) THEN "lost" ELSE result[c]]
      /\ UNCHANGED post
  BY DEF Crash
<1>2. \A c \in Call : result[c] = "none" <=> pc[c] # "done"
  BY DEF CallInv, Sound, Outcome
<1>3. ASSUME NEW c \in Call
      PROVE  StateOf(c)' = IF StateOf(c) = "running" THEN "lost" ELSE StateOf(c)
  <2>1. result[c] \in Result
    BY DEF CallInv, Types
  <2>2. CASE Running(c)
    BY <1>1, <1>2, <2>2 DEF StateOf, Running
  <2>3. CASE ~Running(c)
    BY <1>1, <1>2, <2>1, <2>3 DEF StateOf, Running, Result
  <2>q. QED BY <2>2, <2>3
<1>4. StateBar' = [c \in Call |-> IF StateBar[c] = "running" THEN "lost" ELSE StateBar[c]]
  BY <1>3 DEF StateBar
<1>5. PostedBar' = PostedBar /\ AcceptedBar' = AcceptedBar
  BY <1>1 DEF PostedBar, AcceptedBar, Posted, Accepted
<1>6. Contract!Lose
  BY <1>4, <1>5 DEF Contract!Lose, StateBar, PostedBar, AcceptedBar, Posted, Accepted
<1>q. QED BY <1>6 DEF ContractStep, Contract!Next

(* The head of the loop: it starts, goes on, or (with no attempt to make) ends
   the call with failure. *)
LEMMA EnterSimulates ==
    ASSUME CallInv, NEW c \in Call, NEW a \in Nat, Enter(c, a), UNCHANGED post,
           pc[c] \in {"idle", "sleep"}
    PROVE  ContractStep
<1>1. result[c] = "none" /\ pc \in [Call -> Stage] /\ result \in [Call -> Result]
  BY DEF CallInv, Sound, Outcome, Types
<1>2. \A d \in Call \ {c} : pc'[d] = pc[d] /\ result'[d] = result[d]
  BY <1>1 DEF Enter, Goes, Ends
<1>3. CASE a <= MaxRetries
  <2>1. pc'[c] = "create" /\ result' = result
    BY <1>1, <1>3 DEF Enter, Goes
  <2>2. CASE pc[c] = "idle"
    BY <1>1, <1>2, <2>1, <2>2, StartSimulates DEF StateOf
  <2>3. CASE pc[c] # "idle"
    BY <1>2, <2>1, <2>3, LoopIsInvisible
  <2>q. QED BY <2>2, <2>3
<1>4. CASE ~(a <= MaxRetries)
  <2>1. result'[c] = "failure"
    BY <1>1, <1>4 DEF Enter, Ends
  <2>q. QED BY <1>1, <1>2, <2>1, FailureSimulates DEF StateOf
<1>q. QED BY <1>3, <1>4

(* A step of send is a step of the contract or a stutter. *)
LEMMA CallStepSimulates ==
    ASSUME CallInv, NEW c \in Call,
           Refuse(c) \/ Start(c) \/ Progress(c) \/ MarkRowSuccessFails(c) \/ ThrowOut(c)
    PROVE  ContractStep
<1>t. /\ pc \in [Call -> Stage] /\ result \in [Call -> Result] /\ attempt[c] \in Nat
      /\ result[c] = "none" <=> pc[c] # "done"
  <2>1. attempt[c] \in Nat
    BY RetryAssumption DEF CallInv, Types
  <2>q. QED BY <2>1 DEF CallInv, Types, Sound, Outcome
<1>1. CASE Start(c) \/ Wake(c)
  BY <1>t, <1>1, EnterSimulates DEF Start, Wake
<1>2. CASE Refuse(c) \/ ThrowOut(c)
  <2>1. /\ UNCHANGED post /\ pc[c] # "done" /\ result'[c] = "threw"
        /\ \A d \in Call \ {c} : pc'[d] = pc[d] /\ result'[d] = result[d]
    BY <1>t, <1>2 DEF Refuse, ThrowOut, Ends
  <2>q. QED BY <1>t, <2>1, FailureSimulates DEF StateOf
<1>3. CASE SeeAccepted(c) \/ SeeRejected(c) \/ NoAnswer(c) \/ MarkRowSuccessFails(c)
  <2>1. /\ UNCHANGED <<post, result>> /\ pc[c] # "idle" /\ pc'[c] # "idle"
        /\ \A d \in Call \ {c} : pc'[d] = pc[d]
    BY <1>t, <1>3 DEF SeeAccepted, SeeRejected, NoAnswer, MarkRowSuccessFails, Goes
  <2>q. QED BY <2>1, LoopIsInvisible
<1>4. CASE MarkRowSuccess(c)
  <2>1. /\ UNCHANGED post /\ pc[c] = "toSuccess" /\ result'[c] = "success"
        /\ \A d \in Call \ {c} : pc'[d] = pc[d] /\ result'[d] = result[d]
    BY <1>t, <1>4 DEF MarkRowSuccess, Ends
  <2>2. attempt[c] \in Attempt /\ post[Current(c)] = "accepted"
    BY <2>1 DEF CallInv, Sound, Here, InTheTry, Waiting
  <2>3. Accepted(c)
    BY <2>2 DEF Accepted, Current
  <2>q. QED BY <1>t, <2>1, <2>3, SuccessSimulates DEF StateOf
<1>5. CASE MarkRowFailed(c) /\ HasRetriesLeft(attempt[c])
  <2>1. /\ UNCHANGED <<post, result>> /\ pc[c] # "idle" /\ pc'[c] # "idle"
        /\ \A d \in Call \ {c} : pc'[d] = pc[d]
    BY <1>t, <1>5 DEF MarkRowFailed, Goes
  <2>q. QED BY <2>1, LoopIsInvisible
<1>6. CASE MarkRowFailed(c) /\ ~HasRetriesLeft(attempt[c])
  <2>1. /\ UNCHANGED post /\ pc[c] = "toFailed" /\ result'[c] = "failure"
        /\ \A d \in Call \ {c} : pc'[d] = pc[d] /\ result'[d] = result[d]
    BY <1>t, <1>6 DEF MarkRowFailed, Ends
  <2>q. QED BY <1>t, <2>1, FailureSimulates DEF StateOf
<1>q. QED BY <1>1, <1>2, <1>3, <1>4, <1>5, <1>6, PostSimulates DEF Progress

(* send keeps the contract that its callers rely on, whatever HST, the
   database and the process do: success is only reported for a post of the
   call that HST accepted, and a call ends at most once. *)
THEOREM SendKeepsContract == Spec => ImplementsContract
<1>1. Init => Contract!Init
  <2> SUFFICES ASSUME Init PROVE Contract!Init
    OBVIOUS
  <2>1. \A c \in Call : StateOf(c) = "idle" /\ Posted(c) = FALSE /\ Accepted(c) = FALSE
    BY AttemptFacts DEF Init, StateOf, Posted, Accepted
  <2>2. /\ [c \in Call |-> StateOf(c)] = [c \in Call |-> "idle"]
        /\ PostedBar = [c \in Call |-> FALSE] /\ AcceptedBar = [c \in Call |-> FALSE]
    BY <2>1 DEF PostedBar, AcceptedBar
  <2>q. QED BY <2>2 DEF Contract!Init, PostedBar, AcceptedBar, Posted, Accepted
<1>2. CallInv /\ [Next]_vars =>
         [Contract!Next]_<<[c \in Call |-> StateOf(c)],
                           [c \in Call |-> \E a \in Attempt : post[<<c, a>>] # "none"],
                           [c \in Call |-> \E a \in Attempt : post[<<c, a>>] = "accepted"]>>
  <2> SUFFICES ASSUME CallInv, [Next]_vars PROVE ContractStep
    BY DEF ContractStep, StateBar, PostedBar, AcceptedBar, Posted, Accepted
  <2>1. CASE UNCHANGED vars
    BY <2>1, LoopIsInvisible DEF vars
  <2>q. QED
    BY <2>1, CallStepSimulates, AcceptSimulates, RejectSimulates, CrashSimulates DEF Next
<1>q. QED
  BY <1>1, <1>2, CallInvariant, PTL DEF Spec, ImplementsContract, Contract!Spec
=============================================================================
