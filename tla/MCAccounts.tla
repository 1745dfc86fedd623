----------------------------- MODULE MCAccounts ------------------------------
(* Instances of Accounts for TLC, with the cookies, the hashes and the      *)
(* routes its requests go through.                                          *)
EXTENDS Access, TLC

(* Users and browsers differ in nothing but their names.                   *)
SameNames == Permutations(Users) \cup Permutations(Clients)

Cost(time, memory, threads) == [time |-> time, memory |-> memory, threads |-> threads]

TodaysCost == Cost(2, 2, 2)
LeastCost  == Cost(1, 1, 1)
MostCost   == Cost(3, 3, 3)

(* Below, at and above the range in every part, and a part that is no      *)
(* number.                                                                 *)
SomeCosts ==
  [time : 0..4, memory : {1, 2}, threads : {2, 3, 4}]
    \cup {[TodaysCost EXCEPT !.memory = Unread]}

TwoKeys == {<<"k">>, <<"l">>}
=============================================================================
