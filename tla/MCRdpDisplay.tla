----------------------------- MODULE MCRdpDisplay -----------------------------
(* RdpDisplay on small desktops. *)
EXTENDS RdpDisplay

OneCell == {<<1, 1>>}
TwoSizes == {<<1, 2>>, <<2, 2>>}

ColorSymmetry == Permutations(Colors)
===============================================================================
