----------------------------- MODULE MCThrottle ------------------------------
(* Instances of Throttle for TLC. *)
EXTENDS Throttle, TLC

(* Keys and attempts differ in nothing but their names.                    *)
SameNames == Permutations(Keys) \cup Permutations(Attempts)
=============================================================================
