-------------------------- MODULE WebhookDelivery --------------------------
(***************************************************************************)
(* WebhookService.send with WebhookLogService: the attempts of a call, the *)
(* webhook_logs row of each attempt, the timeout that races HST's answer,  *)
(* the delays between attempts, failing database calls and the process     *)
(* dying in the middle of a call.  A new delivery of the same message is   *)
(* another call.                                                           *)
(***************************************************************************)
EXTENDS Naturals, Sequences

CONSTANTS
    Call,           \* calls of send
    BadUrl,         \* those whose URL validateWebhookUrl refuses
    MaxRetries,     \* WEBHOOK_MAX_RETRIES
    RetryDelays,    \* WEBHOOK_RETRY_DELAYS, 0 for an entry that is not a number
    DefaultDelay,   \* the 5000 of getRetryDelay, in the unit of RetryDelays
    MaxFaults,      \* database calls that may fail
    MaxCrashes      \* times the process may die

ASSUME CallAssumption  == BadUrl \subseteq Call
ASSUME RetryAssumption ==
    MaxRetries \in Nat /\ RetryDelays \in Seq(Nat) /\ DefaultDelay \in Nat \ {0}
ASSUME LimitAssumption == MaxFaults \in Nat /\ MaxCrashes \in Nat

Attempt == 1..MaxRetries
Try     == Call \X Attempt

VARIABLES
    pc,         \* the await the call is at
    attempt,    \* attemptsMade
    row,        \* webhook_logs.status of each attempt
    post,       \* what became of the POST of each attempt at HST
    last,       \* what lastHttpStatus and lastResponseBody tell
    slept,      \* the delays slept so far
    result,     \* how the call ended
    faults, crashes

limits == <<faults, crashes>>
vars   == <<pc, attempt, row, post, last, slept, result, limits>>

Stage  == {"idle", "create", "await", "toSuccess", "toFailed", "sleep", "done"}
Result == {"none", "success", "failure", "threw", "lost"}

(* The last attempt is not followed by a retry. *)
HasRetriesLeftOnce(a) == a <= MaxRetries     \* slip: off by one
HasRetriesLeft(a) == a < MaxRetries

(* getRetryDelay: 0 and NaN are falsy. *)
GetRetryDelayRaw(a) ==       \* slip: an entry that is not a number is used
    IF a \in 1..Len(RetryDelays) THEN RetryDelays[a] ELSE DefaultDelay * a
GetRetryDelay(a) ==
    IF a \in 1..Len(RetryDelays) /\ RetryDelays[a] # 0
    THEN RetryDelays[a] ELSE DefaultDelay * a
-----------------------------------------------------------------------------
Init ==
    /\ pc      = [c \in Call |-> "idle"]
    /\ attempt = [c \in Call |-> 0]
    /\ row     = [x \in Try |-> "none"]
    /\ post    = [x \in Try |-> "none"]
    /\ last    = [c \in Call |-> "none"]
    /\ slept   = [c \in Call |-> <<>>]
    /\ result  = [c \in Call |-> "none"]
    /\ faults  = 0
    /\ crashes = 0

Current(c)       == <<c, attempt[c]>>
Goes(c, to)      == pc' = [pc EXCEPT ![c] = to] /\ UNCHANGED result
Ends(c, r)       == pc' = [pc EXCEPT ![c] = "done"] /\ result' = [result EXCEPT ![c] = r]
Blames(c, what)  == last' = [last EXCEPT ![c] = what]
SetRow(c, s)     == row' = [row EXCEPT ![Current(c)] = s]
Fault            == faults < MaxFaults /\ faults' = faults + 1 /\ UNCHANGED crashes
Answered(x, how) == post[x] = "flying" /\ post' = [post EXCEPT ![x] = how]
-----------------------------------------------------------------------------
(* The head of the for loop, for attempt a. *)
Enter(c, a) ==
    IF a <= MaxRetries
    THEN Goes(c, "create") /\ attempt' = [attempt EXCEPT ![c] = a]
    ELSE Ends(c, "failure") /\ UNCHANGED attempt

(* send is called with an URL that validateWebhookUrl refuses: it throws. *)
Refuse(c) ==
    /\ pc[c] = "idle"
    /\ c \in BadUrl
    /\ Ends(c, "threw")
    /\ UNCHANGED <<attempt, row, post, last, slept, limits>>

Start(c) ==
    /\ pc[c] = "idle"
    /\ c \notin BadUrl
    /\ Enter(c, 1)
    /\ UNCHANGED <<row, post, last, slept, limits>>

(* The PENDING row exists; axios.post follows without another await. *)
PostAttempt(c) ==
    /\ pc[c] = "create"
    /\ SetRow(c, "PENDING")
    /\ post' = [post EXCEPT ![Current(c)] = "flying"]
    /\ Goes(c, "await")
    /\ UNCHANGED <<attempt, last, slept, limits>>

(* HST (external) handles a post when it likes, even when nobody waits. *)
HstAccepts(x) ==
    /\ Answered(x, "accepted")
    /\ UNCHANGED <<pc, attempt, row, last, slept, result, limits>>
HstRejects(x) ==
    /\ Answered(x, "rejected")
    /\ UNCHANGED <<pc, attempt, row, last, slept, result, limits>>

(* axios.post resolves (2xx), or rejects with HST's answer in the error. *)
SeeAcceptedAny(c) ==         \* slip: an answer of any status is a success
    /\ pc[c] = "await"
    /\ post[Current(c)] \in {"accepted", "rejected"}
    /\ Goes(c, "toSuccess")
    /\ UNCHANGED <<attempt, row, post, last, slept, limits>>
SeeAccepted(c) ==
    /\ pc[c] = "await"
    /\ post[Current(c)] = "accepted"
    /\ Goes(c, "toSuccess")
    /\ UNCHANGED <<attempt, row, post, last, slept, limits>>

SeeRejected(c) ==
    /\ pc[c] = "await"
    /\ post[Current(c)] = "rejected"
    /\ Goes(c, "toFailed")
    /\ Blames(c, "answer")
    /\ UNCHANGED <<attempt, row, post, slept, limits>>

(* The timeout or a broken connection: axios.post rejects with no answer,
   whatever HST does with the post. *)
NoAnswerKeepsLast(c) ==      \* slip: only an error with an answer is stored
    /\ pc[c] = "await"
    /\ Goes(c, "toFailed")
    /\ UNCHANGED <<attempt, row, post, last, slept, limits>>
NoAnswerUntimed(c) ==        \* slip: axios.post without a timeout
    /\ pc[c] = "await"
    /\ post[Current(c)] # "flying"
    /\ Goes(c, "toFailed")
    /\ Blames(c, "message")
    /\ UNCHANGED <<attempt, row, post, slept, limits>>
NoAnswer(c) ==
    /\ pc[c] = "await"
    /\ Goes(c, "toFailed")
    /\ Blames(c, "message")
    /\ UNCHANGED <<attempt, row, post, slept, limits>>

MarkRowSuccess(c) ==
    /\ pc[c] = "toSuccess"
    /\ SetRow(c, "SUCCESS")
    /\ Ends(c, "success")
    /\ UNCHANGED <<attempt, post, last, slept, limits>>

(* updateToSuccess is inside the try block: its failure is caught as the
   failure of the attempt. *)
MarkRowSuccessFails(c) ==
    /\ pc[c] = "toSuccess"
    /\ Fault
    /\ Goes(c, "toFailed")
    /\ Blames(c, "message")
    /\ UNCHANGED <<attempt, row, post, slept>>

MarkRowFailedSkips(c) ==     \* slip: the row of a failed attempt is left PENDING
    /\ pc[c] = "toFailed"
    /\ IF HasRetriesLeft(attempt[c])
       THEN /\ Goes(c, "sleep")
            /\ slept' = [slept EXCEPT ![c] = Append(@, GetRetryDelay(attempt[c]))]
       ELSE Ends(c, "failure") /\ UNCHANGED slept
    /\ UNCHANGED <<attempt, row, post, last, limits>>
MarkRowFailed(c) ==
    /\ pc[c] = "toFailed"
    /\ SetRow(c, "FAILED")
    /\ IF HasRetriesLeft(attempt[c])
       THEN /\ Goes(c, "sleep")
            /\ slept' = [slept EXCEPT ![c] = Append(@, GetRetryDelay(attempt[c]))]
       ELSE Ends(c, "failure") /\ UNCHANGED slept
    /\ UNCHANGED <<attempt, post, last, limits>>

WakeUncounted(c) ==          \* slip: the delayed attempt is made again
    /\ pc[c] = "sleep"
    /\ Enter(c, attempt[c])
    /\ UNCHANGED <<row, post, last, slept, limits>>
Wake(c) ==
    /\ pc[c] = "sleep"
    /\ Enter(c, attempt[c] + 1)
    /\ UNCHANGED <<row, post, last, slept, limits>>

(* Creating the row, or marking it failed, throws out of send. *)
ThrowOut(c) ==
    /\ pc[c] \in {"create", "toFailed"}
    /\ Fault
    /\ Ends(c, "threw")
    /\ UNCHANGED <<attempt, row, post, last, slept>>

(* The process dies; rows and posts stay as they are. *)
Running(c) == pc[c] \notin {"idle", "done"}
Crash ==
    /\ crashes < MaxCrashes
    /\ crashes' = crashes + 1
    /\ pc' = [c \in Call |-> IF Running(c) THEN "done" ELSE pc[c]]
    /\ result' = [c \in Call |-> IF Running(c) THEN "lost" ELSE result[c]]
    /\ UNCHANGED <<attempt, row, post, last, slept, faults>>

Progress(c) ==
    \/ PostAttempt(c) \/ SeeAccepted(c) \/ SeeRejected(c) \/ NoAnswer(c)
    \/ MarkRowSuccess(c) \/ MarkRowFailed(c) \/ Wake(c)

Next ==
    \/ \E c \in Call : \/ Refuse(c) \/ Start(c) \/ Progress(c)
                       \/ MarkRowSuccessFails(c) \/ ThrowOut(c)
    \/ \E x \in Try : HstAccepts(x) \/ HstRejects(x)
    \/ Crash

Spec == Init /\ [][Next]_vars

(* A started call runs on: the database answers, axios has a timeout and
   setTimeout fires.  HST owes nothing. *)
FairSpec == Spec /\ \A c \in Call : WF_vars(Progress(c))
-----------------------------------------------------------------------------
(* Properties. *)

(* The attempts, rows and posts stay within the bounds of the loop, and the
   last attempt is followed by no delay. *)
TypeOK ==
    /\ pc      \in [Call -> Stage]
    /\ attempt \in [Call -> 0..MaxRetries]
    /\ row     \in [Try -> {"none", "PENDING", "SUCCESS", "FAILED"}]
    /\ post    \in [Try -> {"none", "flying", "accepted", "rejected"}]
    /\ last    \in [Call -> {"none", "answer", "message"}]
    /\ slept   \in [Call -> Seq(Nat)]
    /\ \A c \in Call : slept[c] # <<>> => Len(slept[c]) < MaxRetries
    /\ result  \in [Call -> Result]
    /\ faults  \in 0..MaxFaults
    /\ crashes \in 0..MaxCrashes

(* A row is SUCCESS only when HST accepted exactly that attempt, and a call
   that returns success leaves such a row for its last attempt. *)
SuccessIsAccepted ==
    /\ \A x \in Try : row[x] = "SUCCESS" => post[x] = "accepted"
    /\ \A c \in Call : result[c] = "success" => row[Current(c)] = "SUCCESS"

(* A new attempt is made only after the row of every earlier one says
   FAILED: rows are never skipped, reused or left open behind a retry. *)
EarlierAttemptsClosed ==
    \A x \in Try : row[x] # "none" =>
        \A a \in 1..(x[2] - 1) : row[<<x[1], a>>] = "FAILED"

(* A row left PENDING tells of an attempt still running, or of a call that
   threw for a failed write or died with the process. *)
PendingRowNeedsCause ==
    \A x \in Try : row[x] = "PENDING" =>
        \/ x = Current(x[1]) /\ pc[x[1]] \in {"await", "toSuccess", "toFailed"}
        \/ result[x[1]] = "threw" /\ faults > 0
        \/ result[x[1]] = "lost"

(* A call that returns failure has made all its attempts, and the HTTP status
   and body it returns are those of the last attempt, never of an earlier
   one: handleWebhook takes the transaction's error code from them. *)
FailureReportsLastAttempt ==
    \A c \in Call : result[c] = "failure" =>
        /\ \A a \in Attempt : row[<<c, a>>] = "FAILED"
        /\ last[c] = "answer" => post[<<c, MaxRetries>>] = "rejected"

(* A call that starts ends: its attempts, timeouts and delays do not go on
   for ever, whatever HST does. *)
SendReturns == \A c \in Call : pc[c] # "idle" ~> result[c] # "none"

(* The steps that a call may still make: five for an attempt and its delay. *)
StepsInAttempt == [idle |-> 1, create |-> 5, await |-> 4, toSuccess |-> 3, toFailed |-> 2, sleep |-> 1]
StepsLeft(c) ==
    IF pc[c] = "done" THEN 0
    ELSE 5 * (MaxRetries - attempt[c]) + StepsInAttempt[pc[c]]

Untouched(c) ==
    /\ UNCHANGED <<pc[c], attempt[c], last[c], slept[c], result[c]>>
    /\ \A a \in Attempt : /\ UNCHANGED row[<<c, a>>]
                          /\ post'[<<c, a>>] = "flying" => post[<<c, a>>] = "flying"

(* Whatever a step does for a call, to its rows, its delays or by sending a
   post, brings the call nearer to its end: the catch that turns a failing
   updateToSuccess into a failed attempt, the retries and the timeouts never
   go in a circle, however HST and the database behave. *)
SendAdvances ==
    [][\A c \in Call : Untouched(c) \/ StepsLeft(c)' \in 0..(StepsLeft(c) - 1)]_vars

(* Before every retry its delay was slept, and no retry follows at once, not
   even for an entry of WEBHOOK_RETRY_DELAYS that is missing or no number. *)
RetriesArePaced ==
    \A x \in Try : row[x] # "none" =>
        /\ Len(slept[x[1]]) >= x[2] - 1
        /\ \A a \in 1..(x[2] - 1) : slept[x[1]][a] > 0

-----------------------------------------------------------------------------
StateOf(c) ==
    IF result[c] # "none" THEN result[c]
    ELSE IF pc[c] = "idle" THEN "idle" ELSE "running"

Contract == INSTANCE SendContract WITH
    state    <- [c \in Call |-> StateOf(c)],
    posted   <- [c \in Call |-> \E a \in Attempt : post[<<c, a>>] # "none"],
    accepted <- [c \in Call |-> \E a \in Attempt : post[<<c, a>>] = "accepted"]

(* send keeps the contract that TransactionFlow builds on. *)
ImplementsContract == Contract!Spec
=============================================================================
