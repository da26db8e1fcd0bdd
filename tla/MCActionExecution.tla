------------------------- MODULE MCActionExecution -------------------------
(* The instances of ActionExecution that TLC explores. *)
EXTENDS ActionExecution, TLC

CONSTANTS r1, r2, k1, k2, k3

(* The first requests have the first keys as their defaults; any key can be  *)
(* given by a client, the default key of another request included.           *)
DefaultKeys == (r1 :> k1 @@ r2 :> k2)
OneDefaultKey == (r1 :> k1)

=============================================================================
