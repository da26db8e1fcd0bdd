----------------------------- MODULE MCAccounts -----------------------------
(* A founder whose password stays, and a user who signs up, is promoted,     *)
(* demoted, deactivated and reset, and changes passwords.                    *)
EXTENDS Accounts, TLC

CONSTANTS founder, other

MCMaxEpoch == [u \in {founder, other} |-> IF u = founder THEN 0 ELSE 2]

(* A login takes any token that was not issued, a call any request that is   *)
(* idle: which one makes no difference.                                      *)
Symmetry == Permutations(Sessions) \cup Permutations(Requests)
=============================================================================
