------------------------- MODULE InvestigationTables -------------------------
(***************************************************************************)
(* What services/investigation stores, what its requests hold on to        *)
(* meanwhile, and what is promised of the two together; Investigation has  *)
(* the steps.                                                              *)
(***************************************************************************)
CONSTANTS
  Discrepancies,
  Investigations,  \* ids of investigation rows
  Attempts,        \* ids of investigation_attempt rows
  Requests,        \* HTTP requests in flight
  NoRow

VARIABLES
  investigation,  \* the committed investigation table
  attempt,        \* the committed investigation_attempt table
  notified,       \* the attempts whose outcome was sent, and as what
  proposed,       \* investigations put before the policy engine, with the
                  \* attempt that was active when they were read
  request         \* what each request is doing

investigationVars == <<investigation, attempt, notified, proposed, request>>

-----------------------------------------------------------------------------
Outcomes == {"COMPLETED", "FAILED", "UNAVAILABLE"}
Statuses == Outcomes \cup {"PENDING"}

Row == [discrepancy : Discrepancies, status : Statuses,
        active : Attempts \cup {NoRow}]

AttemptRow == [investigation : Investigations, valid : BOOLEAN]

ASSUME NoRowAssumption ==
  /\ NoRow \notin Discrepancies \cup Investigations \cup Attempts
  /\ NoRow \notin Statuses \cup Row \cup AttemptRow

-----------------------------------------------------------------------------
Exists(i) == investigation[i] # NoRow

About(d) ==
  {i \in Investigations : Exists(i) /\ investigation[i].discrepancy = d}

Approvable(i) == Exists(i) /\ investigation[i].status = "COMPLETED"

(* The requests whose transaction has inserted the row it works on.          *)
Inserted(x) == /\ request[x].pc \in {"attempt", "ask", "commit"}
               /\ request[x].loaded = NoRow

-----------------------------------------------------------------------------
ValidAttempts(i) ==
  {a \in Attempts : /\ attempt[a] # NoRow
                    /\ attempt[a].investigation = i
                    /\ attempt[a].valid}

(* However runs overlap, an investigation is COMPLETED only when some answer *)
(* of the model passed the validation against the evidence.                  *)
CompletedHasValidAttempt ==
  \A i \in Investigations :
    Approvable(i) => ValidAttempts(i) # {}

StatusAgrees(i) ==
  investigation[i].status = "COMPLETED" <=> attempt[investigation[i].active].valid

Stale(x) == ~Inserted(x)
  /\ investigation[request[x].investigation].status # request[x].loaded

(* Only a run that works on a stale status breaks the agreement: one whose   *)
(* investigation still has, when it commits, the status that it loaded,      *)
(* restores it, even where an earlier run had broken it.                     *)
FreshRunRestoresAgreement ==
  [][\A x \in Requests :
       request[x].pc = "commit" /\ request'[x].pc = "notify" /\ ~Stale(x)
         => StatusAgrees(request[x].investigation)']_investigationVars
=============================================================================
