----------------------------- MODULE MCAttrLoop -----------------------------
(* An instance of AttrLoop for TLC: two values, a message of another block *)
(* with good, refused and unparsable entries, and an attr_source of each   *)
(* way to treat a number.  That of the second value fits no int, that of   *)
(* the first lies halfway between two floats.                              *)
EXTENDS AttrLoop

BlockKinds == {<<0, 0>>, <<1, 1>>, <<0, 4>>, <<3, 0>>}

Limits == [float |-> 2, int |-> 1]

EvenNumbers == {0, 2}
=============================================================================
