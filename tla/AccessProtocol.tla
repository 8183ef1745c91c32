--------------------------- MODULE AccessProtocol ---------------------------
(***************************************************************************)
(* What the bridge promises about one access transaction, whatever its     *)
(* retries, redeliveries and crashes: a request reaches the processor only *)
(* when it is recorded, an answer is taken only for a request that was     *)
(* sent, HST hears of a transaction only when it was answered, and the     *)
(* verdict kept for the transaction is SUCCESS only when HST accepted it.  *)
(* A verdict may still be replaced or withdrawn: the bridge's status is    *)
(* not final (see TerminalIsFinal in TransactionFlow).                     *)
(***************************************************************************)
CONSTANT Txn

VARIABLES
    phase,      \* how far the transaction has come
    verdict     \* "open", or the result kept for it

Phase   == {"absent", "recorded", "requested", "answered", "notified"}
Verdict == {"open", "SUCCESS", "FAILED"}

Init == /\ phase   = [t \in Txn |-> "absent"]
        /\ verdict = [t \in Txn |-> "open"]

Advance(t, from, to) ==
    /\ phase[t] = from
    /\ phase' = [phase EXCEPT ![t] = to]
    /\ UNCHANGED verdict

Record(t)  == Advance(t, "absent", "recorded")
Request(t) == Advance(t, "recorded", "requested")

(* HST accepted the webhook. *)
Notify(t)  == Advance(t, "answered", "notified")

(* Taking an answer, the first or a later one, leaves the verdict open. *)
TakeAnswer(t) ==
    /\ phase[t] \in {"requested", "answered", "notified"}
    /\ phase' = [phase EXCEPT ![t] = IF @ = "requested" THEN "answered" ELSE @]
    /\ verdict' = [verdict EXCEPT ![t] = "open"]

(* A result is kept once there is an answer, SUCCESS once HST accepted. *)
Conclude(t, v) ==
    /\ phase[t] \in {"answered", "notified"}
    /\ v = "SUCCESS" => phase[t] = "notified"
    /\ verdict' = [verdict EXCEPT ![t] = v]
    /\ UNCHANGED phase

(* The late confirmation that the request was published. *)
Reopen(t) ==
    /\ phase[t] \in {"requested", "answered", "notified"}
    /\ verdict' = [verdict EXCEPT ![t] = "open"]
    /\ UNCHANGED phase

Next == \E t \in Txn :
    \/ Record(t) \/ Request(t) \/ TakeAnswer(t) \/ Notify(t) \/ Reopen(t)
    \/ \E v \in {"SUCCESS", "FAILED"} : Conclude(t, v)

Spec == Init /\ [][Next]_<<phase, verdict>>
=============================================================================
