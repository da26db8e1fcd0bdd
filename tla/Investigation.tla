--------------------------- MODULE Investigation ---------------------------
(***************************************************************************)
(* services/investigation: a language model is asked what explains a       *)
(* discrepancy.  Each run adds an attempt to the investigation of the      *)
(* discrepancy, which is made by the first run, and points the             *)
(* investigation at it.  A completed investigation may be approved, which  *)
(* puts its findings before the policy engine.                             *)
(*                                                                         *)
(* A run is one transaction that stays open while the model answers: what  *)
(* it inserts and updates is seen by the others when it commits.           *)
(***************************************************************************)
EXTENDS Naturals, FiniteSets, InvestigationTables

CONSTANT Mortal  \* the requests that may die between two of their steps

ASSUME MortalAssumption == Mortal \subseteq Requests

-----------------------------------------------------------------------------
Activity == [pc            : {"idle", "insert", "attempt", "ask", "commit",
                              "notify", "propose"},
             discrepancy   : Discrepancies \cup {NoRow},
             investigation : Investigations \cup {NoRow},
             attempt       : Attempts \cup {NoRow},
             loaded        : Statuses \cup {NoRow},
             outcome       : Outcomes \cup {NoRow}]

TypeOK ==
  /\ investigation \in [Investigations -> Row \cup {NoRow}]
  /\ attempt \in [Attempts -> AttemptRow \cup {NoRow}]
  /\ notified \subseteq [attempt : Attempts, valid : BOOLEAN]
  /\ proposed \subseteq [investigation : Investigations,
                         active : Attempts \cup {NoRow}]
  /\ request \in [Requests -> Activity]

-----------------------------------------------------------------------------
Idle == [pc |-> "idle", discrepancy |-> NoRow, investigation |-> NoRow,
         attempt |-> NoRow, loaded |-> NoRow, outcome |-> NoRow]

Init ==
  /\ investigation = [i \in Investigations |-> NoRow]
  /\ attempt = [a \in Attempts |-> NoRow]
  /\ notified = {}
  /\ proposed = {}
  /\ request = [x \in Requests |-> Idle]

Release(x) == request' = [request EXCEPT ![x] = Idle]

-----------------------------------------------------------------------------
(* run_investigation *)

FreeAttempt(a) ==
  attempt[a] = NoRow /\ \A y \in Requests : request[y].attempt # a

(* The bound on runs: the ids in Attempts.  None starts without one to take. *)
AttemptLeft ==
  Cardinality({y \in Requests : request[y].pc \in {"insert", "attempt"}})
    < Cardinality({a \in Attempts : FreeAttempt(a)})

LoadInvestigation(x, d) ==
  /\ request[x].pc = "idle"
  /\ AttemptLeft
  /\ \E i \in About(d) :
       request' = [request EXCEPT ![x] =
         [Idle EXCEPT !.pc = "attempt", !.discrepancy = d,
                      !.investigation = i, !.loaded = investigation[i].status]]
  /\ UNCHANGED <<investigation, attempt, notified, proposed>>

FindNone(x, d) ==
  /\ request[x].pc = "idle"
  /\ AttemptLeft
  /\ About(d) = {}
  /\ request' = [request EXCEPT ![x] =
       [Idle EXCEPT !.pc = "insert", !.discrepancy = d]]
  /\ UNCHANGED <<investigation, attempt, notified, proposed>>

(* The flush of the new row, against the UNIQUE constraint on discrepancy_id *)
(* : it waits while another transaction holds an uncommitted duplicate, and  *)
(* fails when a duplicate is committed.                                      *)
HeldByOther(x) ==
  \E y \in Requests \ {x} :
    Inserted(y) /\ request[y].discrepancy = request[x].discrepancy

MayInsert(x) == About(request[x].discrepancy) = {} /\ ~HeldByOther(x)

FreshId(i) == /\ ~Exists(i)
              /\ \A y \in Requests : request[y].investigation # i

InsertInvestigation(x, i) ==
  /\ request[x].pc = "insert"
  /\ MayInsert(x)
  /\ FreshId(i)
  /\ request' = [request EXCEPT ![x].pc = "attempt", ![x].investigation = i]
  /\ UNCHANGED <<investigation, attempt, notified, proposed>>

(* Fault: a refused INSERT is tried again.                                  *)
InsertRefused_Retries(x) ==
  /\ request[x].pc = "insert"
  /\ About(request[x].discrepancy) # {}
  /\ UNCHANGED investigationVars

(* Nobody catches the IntegrityError: the request fails.                     *)
InsertRefused(x) ==
  /\ request[x].pc = "insert"
  /\ About(request[x].discrepancy) # {}
  /\ Release(x)
  /\ UNCHANGED <<investigation, attempt, notified, proposed>>

(* The context is built and the attempt is flushed, which gives it its id.   *)
StartAttempt(x, a) ==
  /\ request[x].pc = "attempt"
  /\ FreeAttempt(a)
  /\ request' = [request EXCEPT ![x].pc = "ask", ![x].attempt = a]
  /\ UNCHANGED <<investigation, attempt, notified, proposed>>

(* The provider answers and the answer is validated against the context:     *)
(* COMPLETED when it holds, FAILED when it cites an unknown entity or breaks *)
(* the schema, UNAVAILABLE on any other exception.                           *)
Answered(x, o) ==
  /\ request[x].pc = "ask"
  /\ request' = [request EXCEPT ![x].pc = "commit", ![x].outcome = o]
  /\ UNCHANGED <<investigation, attempt, notified, proposed>>

(* Fault: COMPLETED is never overwritten.                                   *)
StatusWritten_Sticky(x) ==
  LET i == request[x].investigation IN
  IF Exists(i) /\ investigation[i].status = "COMPLETED" THEN "COMPLETED"
  ELSE request[x].outcome

(* Fault: an answer that failed the validation completes.                   *)
StatusWritten_Unvalidated(x) ==
  IF request[x].outcome = "FAILED" THEN "COMPLETED" ELSE request[x].outcome

(* The UPDATE sets the columns whose value is not the one that was loaded:   *)
(* active_attempt_id always, status only when the outcome is a new one.      *)
StatusWritten(x) ==
  LET i == request[x].investigation
      o == request[x].outcome
  IN IF Inserted(x) \/ o # request[x].loaded THEN o ELSE investigation[i].status

ActiveWritten(x) == request[x].attempt

CommitRun(x) ==
  LET i == request[x].investigation
      a == request[x].attempt
  IN
  /\ request[x].pc = "commit"
  /\ attempt' = [attempt EXCEPT ![a] =
       [investigation |-> i, valid |-> request[x].outcome = "COMPLETED"]]
  /\ investigation' = [investigation EXCEPT ![i] =
       [discrepancy |-> request[x].discrepancy, status |-> StatusWritten(x),
        active |-> ActiveWritten(x)]]
  /\ request' = [request EXCEPT ![x].pc = "notify"]
  /\ UNCHANGED <<notified, proposed>>

(* Fault: only valid answers are told of.                                   *)
NotifyOutcome_ValidOnly(x) ==
  /\ request[x].pc = "notify"
  /\ notified' = notified \cup
       {n \in {[attempt |-> request[x].attempt, valid |-> TRUE]} :
          request[x].outcome # "UNAVAILABLE"}
  /\ Release(x)
  /\ UNCHANGED <<investigation, attempt, proposed>>

(* The route tells the acting user, in a commit of its own.                  *)
NotifyOutcome(x) ==
  /\ request[x].pc = "notify"
  /\ notified' = notified \cup
       {[attempt |-> request[x].attempt,
         valid |-> request[x].outcome = "COMPLETED"]}
  /\ Release(x)
  /\ UNCHANGED <<investigation, attempt, proposed>>

-----------------------------------------------------------------------------
(* approve_investigation: a completed investigation is read, then its        *)
(* RESOLVE_DISCREPANCY action goes to the policy engine.                     *)
ReadForApproval(x, i) ==
  /\ request[x].pc = "idle"
  /\ Approvable(i)
  /\ request' = [request EXCEPT ![x] =
       [Idle EXCEPT !.pc = "propose", !.investigation = i,
                    !.attempt = investigation[i].active]]
  /\ UNCHANGED <<investigation, attempt, notified, proposed>>

Propose(x) ==
  /\ request[x].pc = "propose"
  /\ proposed' = proposed \cup
       {[investigation |-> request[x].investigation, active |-> request[x].attempt]}
  /\ Release(x)
  /\ UNCHANGED <<investigation, attempt, notified>>

-----------------------------------------------------------------------------
Crash(x) ==
  /\ x \in Mortal
  /\ request[x].pc # "idle"
  /\ Release(x)
  /\ UNCHANGED <<investigation, attempt, notified, proposed>>

Arrive(x) ==
  \/ \E d \in Discrepancies : LoadInvestigation(x, d) \/ FindNone(x, d)
  \/ \E i \in Investigations : ReadForApproval(x, i)

Proceed(x) ==
  \/ \E i \in Investigations : InsertInvestigation(x, i)
  \/ InsertRefused(x)
  \/ \E a \in Attempts : StartAttempt(x, a)
  \/ CommitRun(x)
  \/ NotifyOutcome(x)
  \/ Propose(x)

ProviderAnswers(x) == \E o \in Outcomes : Answered(x, o)

Next ==
  \E x \in Requests : Arrive(x) \/ Proceed(x) \/ ProviderAnswers(x) \/ Crash(x)

Spec == Init /\ [][Next]_investigationVars

(* The event loop resumes a request whose await has completed.  The call of  *)
(* the provider has no timeout: nothing says that it ever comes back.        *)
FairSpec == Spec /\ \A x \in Requests : WF_investigationVars(Proceed(x))

-----------------------------------------------------------------------------
(* As long as the provider comes back, and requests do not die one after the *)
(* other for ever, no request hangs: the wait for the uncommitted row of     *)
(* another request ends.                                                     *)
RequestIsAnswered ==
  (/\ \A x \in Requests : []<>(request[x].pc # "ask")
   /\ <>[][\A y \in Mortal : ~Crash(y)]_investigationVars) =>
    \A x \in Requests : request[x].pc # "idle" ~> request[x].pc = "idle"

(* Unless its request dies, an attempt that has an outcome is recorded with  *)
(* it, and the acting user is told of it as it was recorded.                 *)
OutcomeIsTold ==
  \A x \in Requests \ Mortal, a \in Attempts, v \in BOOLEAN :
    (/\ request[x].pc = "commit"
     /\ request[x].attempt = a
     /\ (request[x].outcome = "COMPLETED") = v)
    ~> (/\ attempt[a] # NoRow /\ attempt[a].valid = v
        /\ [attempt |-> a, valid |-> v] \in notified)
=============================================================================
