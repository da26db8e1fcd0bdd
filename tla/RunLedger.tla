----------------------------- MODULE RunLedger -----------------------------
(***************************************************************************)
(* What services/ingestion promises of its runs, however submissions and   *)
(* retries overlap, fail or die: a run is posted in one step with its      *)
(* records and its facts, never changes afterwards, and repeats neither    *)
(* the batch nor a fact of another run.                                    *)
(***************************************************************************)
CONSTANTS Runs, NoRun

VARIABLES
  runs,     \* the runs that are posted, with their records
  prints,   \* the fingerprint of each posted run
  entries   \* the identities of the facts of each posted run

vars == <<runs, prints, entries>>

Init ==
  /\ runs = [r \in Runs |-> NoRun]
  /\ prints = {}
  /\ entries = {}

(* A key that run r posts and nobody has posted before.                      *)
IsNew(e, r, posted) == e.run = r /\ \A d \in posted : d.key # e.key

Post(r) ==
  LET newPrints  == prints' \ prints
      newEntries == entries' \ entries
  IN
  /\ runs[r] = NoRun /\ runs'[r] # NoRun
  /\ \A s \in Runs \ {r} : runs'[s] = runs[s]
  /\ prints \subseteq prints' /\ entries \subseteq entries'
  /\ \E p \in newPrints : newPrints = {p} /\ IsNew(p, r, prints)
  /\ \A e \in newEntries : IsNew(e, r, entries)

Next == \E r \in Runs : Post(r)

Spec == Init /\ [][Next]_vars
=============================================================================
