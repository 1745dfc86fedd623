--------------------------- MODULE MCTemplateItems ---------------------------
(* Instances of TemplateItems for TLC. *)
EXTENDS TemplateItems, TLC

(* Rows, types and requests differ in nothing but their names.             *)
SameNames == Permutations(Items) \cup Permutations(Types) \cup Permutations(Clients)
=============================================================================
