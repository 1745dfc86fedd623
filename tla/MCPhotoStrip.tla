---------------------------- MODULE MCPhotoStrip ----------------------------
(* Instances of PhotoStrip for TLC. *)
EXTENDS PhotoStrip, TLC

(* Photos, files and requests differ in nothing but their names.           *)
SameNames == Permutations(Photos) \cup Permutations(Keys) \cup Permutations(Clients)
=============================================================================
