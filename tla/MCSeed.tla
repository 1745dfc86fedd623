------------------------------ MODULE MCSeed ------------------------------
(* Four employees of whom the last left, two drops with three designs and   *)
(* four models, a critical path of two steps.  The second design of the     *)
(* first drop has the article that is listed first: a run that adds it      *)
(* moves the places of the models an earlier run stamped.                   *)
EXTENDS SeedFacts, TLC

TheColors == <<1, 1>> :> 1 @@ <<1, 2>> :> 2 @@ <<2, 1>> :> 1
TheArticles == <<1, 1>> :> 2 @@ <<1, 2>> :> 1 @@ <<2, 1>> :> 3
TheEarly == {<<<<1, 1>>, 0>>, <<<<1, 2>>, 0>>, <<<<1, 2>>, 1>>}
TheLeavers == {4}

ThePath == <<-2, 0>>
TheJitter == <<0, 2, -1>>
TheLate == <<{<<0, 1>>, <<3, 2>>}, {}>>
TheStamped == TheEarly \X {1, 2} \X {1}
TheSlipped == TheEarly \X {1} \X {1}

\* Asked for the first of these and then for the second, the seed adds a model
\* to a finished season: the numbers it draws are none the first run left.
Asked(users, models, domain) == [users |-> users, models |-> models, domain |-> domain]
TheOptions ==
  {Asked(4, 1, "a"), Asked(1, 2, "a"), Asked(4, 4, "a"), Asked(2, 3, "b")}

\* Two runs of one company, the second asked for the whole of the plan.
Growing == {Asked(1, 1, "a"), Asked(4, 4, "a")}

\* The two drops go on sale today and in three days; a model that is first in
\* its drop, or fourth, runs late.
TheGoods == <<10, 13>>
SomeTargets == 0..4
SomeDays == 0..4
SomePlaces == 0..3
=============================================================================
