------------------------------ MODULE MCLight ------------------------------
(* The light with one colour to command besides the red of the start, in   *)
(* the fifth slice of the wheel and with a saturation that counts, and red, *)
(* green and blue that are not what hue and saturation come to.            *)
EXTENDS Light

MCColours == {[rgb |-> Colour(90, 40, 250), hue |-> 1100, saturation |-> 200]}
=============================================================================
