--------------------------- MODULE IntentService ----------------------------
(***************************************************************************)
(* What the gateway promises of the intents it accepts: one command at a   *)
(* time, each task attempted until the outcome of an attempt is on record, *)
(* and an outcome that stays.  It does not promise a single attempt: one   *)
(* that is cut off is made again.                                          *)
(***************************************************************************)
CONSTANTS Task, Outcome

VARIABLES
    ledger,     \* per task: unknown, accepted, or its outcome
    attempt     \* the task being attempted, if any

Init ==
    /\ ledger = [t \in Task |-> "unknown"]
    /\ attempt = {}

Accept(t) ==
    /\ ledger[t] = "unknown"
    /\ ledger' = [ledger EXCEPT ![t] = "accepted"]
    /\ UNCHANGED attempt

Begin(t) ==
    /\ attempt = {}
    /\ ledger[t] = "accepted"
    /\ attempt' = {t}
    /\ UNCHANGED ledger

Conclude(t, o) ==
    /\ attempt = {t}
    /\ ledger' = [ledger EXCEPT ![t] = o]
    /\ attempt' = {}

CutOff ==
    /\ attempt # {}
    /\ attempt' = {}
    /\ UNCHANGED ledger

Next ==
    \/ \E t \in Task : Accept(t) \/ Begin(t) \/ \E o \in Outcome : Conclude(t, o)
    \/ CutOff

vars == <<ledger, attempt>>

Safe == Init /\ [][Next]_vars

=============================================================================
