---------------------------- MODULE SendContract ----------------------------
(***************************************************************************)
(* What the callers of WebhookService.send may rely on, and all that       *)
(* TransactionFlow assumes of it: a call ends at most once; it reports     *)
(* success only when HST accepted one of its posts; it may report failure  *)
(* or throw although HST accepted one, because HST's acceptance may stay   *)
(* unseen and may even come after the call has ended.                      *)
(***************************************************************************)
CONSTANT Call

VARIABLES
    state,      \* of the call
    posted,     \* a post of the call has left the bridge
    accepted    \* HST has accepted a post of the call

State == {"idle", "running", "success", "failure", "threw", "lost"}

Init == /\ state    = [c \in Call |-> "idle"]
        /\ posted   = [c \in Call |-> FALSE]
        /\ accepted = [c \in Call |-> FALSE]

Goes(c, from, to) == state[c] \in from /\ state' = [state EXCEPT ![c] = to]

Start(c) == Goes(c, {"idle"}, "running") /\ UNCHANGED <<posted, accepted>>

Post(c) ==
    /\ state[c] = "running"
    /\ posted' = [posted EXCEPT ![c] = TRUE]
    /\ UNCHANGED <<state, accepted>>

Accept(c) ==
    /\ posted[c]
    /\ accepted' = [accepted EXCEPT ![c] = TRUE]
    /\ UNCHANGED <<state, posted>>

Succeed(c) ==
    /\ accepted[c]
    /\ Goes(c, {"running"}, "success")
    /\ UNCHANGED <<posted, accepted>>

(* An ended call: all attempts failed, or an exception (which may come before
   anything is posted). *)
Fail(c)  == Goes(c, {"idle", "running"}, "failure") /\ UNCHANGED <<posted, accepted>>
Throw(c) == Goes(c, {"idle", "running"}, "threw") /\ UNCHANGED <<posted, accepted>>

(* The process dies: every running call is lost. *)
Lose == /\ state' = [c \in Call |-> IF state[c] = "running" THEN "lost" ELSE state[c]]
        /\ UNCHANGED <<posted, accepted>>

Next ==
    \/ \E c \in Call : Start(c) \/ Post(c) \/ Accept(c) \/ Succeed(c) \/ Fail(c) \/ Throw(c)
    \/ Lose

Spec == Init /\ [][Next]_<<state, posted, accepted>>
=============================================================================
