---------------------------- MODULE MCTemplates -----------------------------
(* Instances of Templates for TLC, and of the forms, the controls and the  *)
(* reads of the screens.                                                   *)
EXTENDS Templates, TLC

CONSTANTS Blank, Garbled

(* Templates and requests differ in nothing but their names.               *)
SameNames == Permutations(TemplateIDs) \cup Permutations(Clients)

Screens == INSTANCE Cards

(* A form that is refused writes nothing and says what is wrong with it,   *)
(* box by box; what a control offers, the write behind it accepts; and a   *)
(* screen is shown whole, whatever is added while it is read.  None reads  *)
(* the tables of Templates, so the states before the first                 *)
(* request are enough.                                                     *)
FormsHold ==
  asked = 0 =>
    /\ Screens!FormsStand /\ Screens!RowsStand /\ Screens!OrdersStand
    /\ Screens!FormsTellAll /\ Screens!PickersHold /\ Screens!CardsHold
=============================================================================
