----------------------------- MODULE MCPeephole -----------------------------
(* Bodies of the lines gen() prints: registers of two bits and two.        *)
EXTENDS Peephole, TLC

R10 == Reg(10, TRUE)
R10d == Reg(10, FALSE)
R11 == Reg(11, TRUE)
R11d == Reg(11, FALSE)
Rax == Reg(0, TRUE)
L1 == Label(1)

Moves == {Line("mov", "", Imm(0), R11d), Line("mov", "", Imm(1), R11d), Line("mov", "", Imm(-1), R11),
          Line("mov", "", R11d, R11d), Line("mov", "", R11, R10), Line("mov", "", R10, Rax), Line("mov", "q", R10, Rax)}
Frame == {Line("mov", "l", Slot(4), R10d), Line("mov", "l", Slot(4), R11d), Line("mov", "", R10d, Slot(4)),
          Line("mov", "q", Slot(8), R11), Line("mov", "", R10, Slot(8)), Line("mov", "l", Slot(8), R11d)}
Ops == {Line("add", "", R11d, R10d), Line("and", "", R11d, R10d), Line("imul", "", R11d, R10d), Line("xor", "", R11, R10),
        Line("cmp", "", R11d, R10d), Line("sub", "l", Imm(1), R11d)}
Jumps == {Line("je", "", L1, None), Line("jmp", "", L1, None), Line("label", "", L1, None)}

(* The compiler prints a conditional jump right after the comparison, a    *)
(* label once, and a result is read before its register is written again.  *)
Generated(s) ==
  /\ \A i \in DOMAIN s : s[i].op = "je" => i > 1 /\ s[i - 1].op = "cmp"
  /\ \A i, j \in DOMAIN s : s[i].op = "label" /\ s[i] = s[j] => i = j
  /\ \A i \in 1..(Len(s) - 1) :
       TwoOperands(s[i]) /\ PlainMov(s[i + 1]) /\ s[i].b = s[i + 1].b => s[i + 1].a = s[i + 1].b
BodiesOf(lines, n) == {s \in [1..n -> lines] : Generated(s)}

Every == Moves \cup Frame \cup Ops \cup Jumps
Chains == (Moves \cup Ops \cup {Line("mov", "l", Slot(4), R11d)}) \ {Line("mov", "q", R10, Rax), Line("imul", "", R11d, R10d)}
Branches == {Line("mov", "", Imm(0), R11d), Line("cmp", "", R11d, R10d), Line("je", "", L1, None), Line("jmp", "", L1, None),
             Line("label", "", L1, None)}
MCBodies == BodiesOf(Every, 3) \cup BodiesOf(Chains, 4) \cup BodiesOf(Branches, 5)

Machine(a, b, c, d, e) ==
  [reg |-> (0 :> Value(a, TRUE)) @@ (10 :> Value(b, TRUE)) @@ (11 :> Value(c, TRUE)),
   slot |-> (4 :> Value(d, FALSE)) @@ (8 :> Value(e, TRUE)),
   zero |-> FALSE, valid |-> TRUE, exit |-> 0]
MCStarts == {Machine(1, 14, 7, 2, 9), Machine(6, 3, 12, 3, 5)}
=============================================================================
