----------------------------- MODULE MCAlgorithms -----------------------------
(***************************************************************************)
(* Inputs of Algorithms for TLC: two blocks of the largest WRAP burst; two *)
(* agents of one kind; names in two scopes, and values on either side of   *)
(* the dead-band.                                                          *)
(***************************************************************************)
EXTENDS Algorithms, TLC

MC_Starts    == 0 .. 127
MC_Lens      == {0, 1, 2, 3, 4, 7, 15}
MC_LabelOf   == ("t1" :> "tester") @@ ("t2" :> "tester") @@ ("t3" :> "scout")
MC_DOMAINS   == <<"verif", "compute">>
MC_Series    == {<<"verif", "", "tests_passing">>, <<"compute", "gate", "wall_s">>,
                 <<"compute", "ooo", "wall_s">>}
MC_HEADLINES == {<<"verif", "tests_passing">>, <<"compute", "wall_s">>}
MC_Values    == {NULL, 0, 100, 101, 110}
MC_direction == ("tests_passing" :> "up") @@ ("wall_s" :> "down")
===============================================================================
