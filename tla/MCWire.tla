------------------------------ MODULE MCWire ------------------------------
(* Instances of Wire for TLC: values at the edges of a byte and of the types. *)
EXTENDS Wire

EdgeIds     == {256, 65535}
EdgeBitsets == {10}
ShortTexts  == {<<>>, <<255, 1>>}
==========================================================================
