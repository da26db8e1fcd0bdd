-------------------------- MODULE ExecutionLedger --------------------------
(***************************************************************************)
(* What services/action_execution promises about an idempotency key,       *)
(* whatever number of clients submit it and wherever a handler dies: one   *)
(* action request gets the key, the adapter is called for it at most once, *)
(* and the outcome, once known, stays.                                     *)
(***************************************************************************)
EXTENDS Naturals

CONSTANTS Keys, Requests, NoRow

VARIABLES
  owner,    \* the action request a key was claimed for
  calls,    \* how often the adapter was called with a key
  outcome   \* what the call came to

vars == <<owner, calls, outcome>>

Outcomes == {"SUCCEEDED", "FAILED", "UNKNOWN"}

Init ==
  /\ owner = [k \in Keys |-> NoRow]
  /\ calls = [k \in Keys |-> 0]
  /\ outcome = [k \in Keys |-> NoRow]

Claim(k, r) ==
  /\ owner[k] = NoRow
  /\ owner' = [owner EXCEPT ![k] = r]
  /\ UNCHANGED <<calls, outcome>>

Call(k) ==
  /\ owner[k] # NoRow
  /\ calls[k] = 0
  /\ calls' = [calls EXCEPT ![k] = 1]
  /\ UNCHANGED <<owner, outcome>>

Settle(k, o) ==
  /\ calls[k] = 1
  /\ outcome[k] = NoRow
  /\ outcome' = [outcome EXCEPT ![k] = o]
  /\ UNCHANGED <<owner, calls>>

Next ==
  \E k \in Keys :
    \/ \E r \in Requests : Claim(k, r)
    \/ Call(k)
    \/ \E o \in Outcomes : Settle(k, o)

Spec == Init /\ [][Next]_vars
=============================================================================
