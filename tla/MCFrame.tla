------------------------------ MODULE MCFrame -------------------------------
(* Sizes below and above the minimum of 4, one that is no multiple of 8,   *)
(* and one larger than the save area of a variadic function.               *)
EXTENDS Frame

MCSizes == {1, 200}
MCAligns == {1, 8, 16}

=============================================================================
