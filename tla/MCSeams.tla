------------------------------- MODULE MCSeams -------------------------------
(***************************************************************************)
(* Three chunks around a corner, and others far from them.  At the corner  *)
(* "x" all three meet, at "p" the first and the second, one vertex above.  *)
(* A tree of the first at "a" covers both; one of the second, on its       *)
(* border at "p", reaches into the third at "d".  Below "d" is "e".        *)
(***************************************************************************)
EXTENDS Seams

Far == {<<9, 9>>, <<19, 9>>}
Near == {<<0, 0>>, <<1, 0>>, <<1, 1>>}
MCChunks == Near \cup Far
MCOn == [c \in MCChunks |->
    CASE c = <<0, 0>> -> {"a", "p", "x"} [] c = <<1, 0>> -> {"p", "x"}
      [] c = <<1, 1>> -> {"x", "d", "e"} [] OTHER -> {}]
MCTrees == [c \in MCChunks |->
    CASE c = <<0, 0>> -> {[at |-> "a", foot |-> {"a", "p", "x"}]}
      [] c = <<1, 0>> -> {[at |-> "p", foot |-> {"p", "x", "d"}]}
      [] c = <<1, 1>> -> {[at |-> "x", foot |-> {"x", "d", "e"}]}
      [] OTHER -> {}]
MCCrowded == {<<"p", "x">>}
MCDoors == [c \in MCChunks |->
    CASE c = <<1, 1>> -> {[door |-> {"x"}, step |-> {"d"}, edge |-> TRUE],
                          [door |-> {"d"}, step |-> {"e"}, edge |-> FALSE]}
      [] OTHER -> {}]
=============================================================================
