----------------------------- MODULE MCRegAlloc -----------------------------
(* Three registers play the roles of %r10, %r11 and %rsi; a callee leaves  *)
(* one value in all of them.                                               *)
EXTENDS RegAlloc

MCVal == {0, 1}
MCJunk == {[r \in CallerSaved |-> v] : v \in MCVal}
MCOp(a, b) == (a + b) % 2

=============================================================================
