----------------------------- MODULE OrderedList -----------------------------
(***************************************************************************)
(* What a list the user arranges promises: an entry goes to its end, an    *)
(* entry is taken out and the others close up, or the whole list takes     *)
(* another order.  The words are those of AddTemplateItem, RemoveItem and  *)
(* ReorderItems, and of the photo strip, where the head is the cover.      *)
(***************************************************************************)
EXTENDS Sequences, SequencesExt

CONSTANT Entries

VARIABLE list

Append1 == \E e \in Entries \ ToSet(list) : list' = Append(list, e)

TakeOut == \E n \in DOMAIN list : list' = RemoveAt(list, n)

Arrange == \E order \in SetToSeqs(ToSet(list)) : list' = order

Init == list = <<>>

Next == Append1 \/ TakeOut \/ Arrange

Spec == Init /\ [][Next]_list
=============================================================================
