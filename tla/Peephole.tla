------------------------------ MODULE Peephole ------------------------------
(***************************************************************************)
(* The peephole optimizer (x86_64): the assembly text of a function body   *)
(* passes through a window of three lines; after each new line five        *)
(* patterns are tried on the window until none matches.                    *)
(*                                                                         *)
(* A line is [op, sz, a, b]: mnemonic, size suffix, and the operands in    *)
(* the order of the text (source first).  The machine that gives lines a   *)
(* meaning has registers of two halves: writing the low one clears the     *)
(* high one.                                                               *)
(***************************************************************************)
EXTENDS Integers, Sequences, FiniteSetsExt, Bitwise

CONSTANTS
  HalfBits,       \* bits of the low half of a register
  ScanLines,      \* lines reg_live_in_text() looks ahead
  Bodies,         \* the function bodies
  Starts          \* machine states at the start of a body

VARIABLES
  text,           \* the body
  read,           \* lines read of it
  w,              \* the window
  out,            \* the lines written
  ended
vars == <<text, read, w, out, ended>>

Operand(k, n, wide) == [k |-> k, n |-> n, wide |-> wide]
Reg(n, wide) == Operand("reg", n, wide)
Imm(v) == Operand("imm", v, FALSE)
Slot(n) == Operand("slot", n, FALSE)
Label(n) == Operand("label", n, FALSE)
None == Operand("none", 0, FALSE)
Line(op, sz, a, b) == [op |-> op, sz |-> sz, a |-> a, b |-> b]
Empty == Line("", "", None, None)

HalfMod == 2 ^ HalfBits
FullMod == HalfMod * HalfMod

-----------------------------------------------------------------------------
(* What a line matches: "  mov " without a suffix, between any operands;  *)
(* a move of any suffix to a slot, to a register, of a constant; a move of *)
(* a slot, with a suffix; a line of two operands; jump and label.          *)
IsReg(o) == o.k = "reg"
PlainMov(x) == x.op = "mov" /\ x.sz = ""
Store(x) == x.op = "mov" /\ x.b.k = "slot"
ImmStore(x) == Store(x) /\ x.sz = "l" /\ x.a.k = "imm"
ToReg(x) == x.op = "mov" /\ IsReg(x.b)
ImmToReg(x) == ToReg(x) /\ x.a.k = "imm"
Load(x) == x.op = "mov" /\ x.sz # "" /\ x.a.k = "slot"
TwoOperands(x) == x.b.k # "none"
JumpTo(x, l) == x.op = "jmp" /\ x.a = l
LabelIs(x, l) == x.op = "label" /\ x.a = l
SamePhys(o, p) == IsReg(o) /\ IsReg(p) /\ o.n = p.n
FitsInt(v) == -HalfMod <= 2 * v /\ 2 * v < HalfMod

(* to32() knows the 64-bit names only.                                     *)
HasTo32(o) == IsReg(o) /\ o.wide
To32(o) == [o EXCEPT !.wide = FALSE]

(* Mutant: without the test that the two sources differ.                   *)
Pattern1Loose(x, y) ==
  PlainMov(x) /\ PlainMov(y) /\ y.a = x.b /\ IsReg(x.a) /\ IsReg(x.b) /\ IsReg(y.b)

(* mov SRC, REG; mov REG, DST: the second reads SRC.                       *)
Pattern1(x, y) ==
  PlainMov(x) /\ PlainMov(y) /\ y.a = x.b /\ x.a # y.a /\ IsReg(x.a) /\ IsReg(x.b) /\ IsReg(y.b)
Apply1(x, y) == Line("mov", "", x.a, y.b)

(* A store to the frame and a load of the same slot: the load reads the    *)
(* register.                                                               *)
Pattern2(x, y) ==
  /\ Store(x) /\ Load(y) /\ x.b = y.a
  /\ y.sz = "l" => HasTo32(x.a) \/ ImmStore(x)
Apply2(x, y) ==
  CASE y.sz = "q" -> Line("mov", "", x.a, y.b)
    [] y.sz = "l" /\ HasTo32(x.a) -> Line("mov", "", To32(x.a), y.b)
    [] OTHER -> Line("mov", "l", x.a, y.b)

(* A jump to the next line.                                                *)
Pattern3(x, y) == JumpTo(x, y.a) /\ LabelIs(y, x.a)

(* The last letter of sub and imul is taken for a size suffix.             *)
OpName(y) == IF y.sz = "" /\ y.op \in {"sub", "imul"} THEN "" ELSE y.op

(* A constant as the source of an operation.  One that changes nothing is  *)
(* deleted.                                                                *)
Pattern4(x, y) ==
  /\ ImmToReg(x) /\ FitsInt(x.a.n)
  /\ TwoOperands(y) /\ SamePhys(y.a, x.b)
  /\ OpName(y) \in {"cmp", "add", "sub", "and", "or", "xor", "imul"}

(* Mutant: and with 0 changes nothing.                                     *)
NeutralAnd(op, v) == (op \in {"add", "sub", "or", "xor", "and"} /\ v = 0) \/ (op = "imul" /\ v = 1)

Neutral(op, v) == (op \in {"add", "sub", "or", "xor"} /\ v = 0) \/ (op = "imul" /\ v = 1)
Apply4(x, y) == IF Neutral(OpName(y), x.a.n) THEN Empty ELSE [y EXCEPT !.a = x.a]

(* reg_live_in_text(): a label, or the register named in the lines ahead.  *)
LiveInText(rest, r) ==
  \E i \in 1..Min({Len(rest), ScanLines}) :
    rest[i].op = "label" \/ SamePhys(rest[i].a, r) \/ SamePhys(rest[i].b, r)

(* mov MEM, R; OP X, R; mov D, R with R dead: D in the place of R.  R may  *)
(* be any operand (peep_mov_reg_mem() does not look at it); only a         *)
(* register is searched for in the lines ahead.                            *)
Pattern5(x, y, z, rest) ==
  /\ x.op = "mov" /\ x.sz \in {"", "l", "q"} /\ ~IsReg(x.a)
  /\ TwoOperands(y) /\ PlainMov(z)
  /\ x.b = y.b /\ y.b = z.b /\ IsReg(z.a)
  /\ IsReg(x.b) => ~LiveInText(rest, x.b)

-----------------------------------------------------------------------------
Rest == SubSeq(text, read + 1, Len(text))
Adjacent(i, j) == i < j /\ w[i] # Empty /\ w[j] # Empty /\ \A n \in (i + 1)..(j - 1) : w[n] = Empty

(* The patterns that match at lines i and j, and k for the fifth.          *)
Matches(i, j) ==
  {p \in 1..5 :
     CASE p = 1 -> Pattern1(w[i], w[j])
       [] p = 2 -> Pattern2(w[i], w[j])
       [] p = 3 -> Pattern3(w[i], w[j])
       [] p = 4 -> Pattern4(w[i], w[j])
       [] p = 5 -> \E k \in DOMAIN w : Adjacent(j, k) /\ Pattern5(w[i], w[j], w[k], Rest)}
MatchesAt(i) == \E j \in DOMAIN w : Adjacent(i, j) /\ Matches(i, j) # {}
Quiet == \A i \in DOMAIN w : ~MatchesAt(i)

(* The window after pattern p.                                             *)
Applied(p, i, j) ==
  CASE p = 1 -> [w EXCEPT ![j] = Apply1(w[i], w[j])]
    [] p = 2 -> [w EXCEPT ![j] = Apply2(w[i], w[j])]
    [] p = 3 -> [w EXCEPT ![i] = Empty]
    [] p = 4 -> [w EXCEPT ![j] = Apply4(w[i], w[j])]
    [] p = 5 -> [w EXCEPT ![i] = Line("mov", "", @.a, w[3].a), ![j] = [@ EXCEPT !.b = w[3].a], ![3] = Empty]

Written(lines) == SelectSeq(lines, LAMBDA x : x # Empty)

Init == text \in Bodies /\ read = 0 /\ w = <<>> /\ out = <<>> /\ ended = FALSE

(* One round of the do loop: the first match is applied.                   *)
Rewrite ==
  /\ \E i, j \in DOMAIN w :
       /\ Adjacent(i, j) /\ Matches(i, j) # {}
       /\ \A n \in 1..(i - 1) : ~MatchesAt(n)
       /\ w' = Applied(Min(Matches(i, j)), i, j)
  /\ UNCHANGED <<text, read, out, ended>>

(* The oldest line leaves a full window, the next one enters.              *)
ReadLine ==
  /\ Quiet /\ read < Len(text)
  /\ read' = read + 1
  /\ w' = Append(IF Len(w) = 3 THEN Tail(w) ELSE w, text[read + 1])
  /\ out' = IF Len(w) = 3 THEN out \o Written(<<Head(w)>>) ELSE out
  /\ UNCHANGED <<text, ended>>

(* The end of the text: the window is written.                             *)
Flush == /\ Quiet /\ read = Len(text) /\ ~ended
         /\ ended' = TRUE /\ out' = out \o Written(w) /\ w' = <<>>
         /\ UNCHANGED <<text, read>>

Next == Rewrite \/ ReadLine \/ Flush

(* A sequential loop goes on while it can.                                 *)
Spec == Init /\ [][Next]_vars /\ WF_vars(Next)

-----------------------------------------------------------------------------
(* The machine.  A value is [v, full]; full is false after a write of the  *)
(* low half, whose value the compiler extends before it uses all of it: a  *)
(* mov of the low half onto itself.  valid: no operation has used a value  *)
(* before that.                                                            *)
Value(v, full) == [v |-> v, full |-> full]
Wide(x) == IF IsReg(x.b) THEN x.b.wide ELSE IsReg(x.a) /\ x.a.wide
Signed(v) == v % FullMod
Fetch(o, m) ==
  CASE o.k = "reg" -> m.reg[o.n]
    [] o.k = "slot" -> m.slot[o.n]
    [] OTHER -> Value(Signed(o.n), TRUE)
Put(o, val, m) ==
  IF o.k = "reg" THEN [m EXCEPT !.reg[o.n] = val] ELSE [m EXCEPT !.slot[o.n] = val]
Low(val) == val.v % HalfMod
Compute(op, p, q) ==
  CASE op = "add" -> p + q
    [] op \in {"sub", "cmp"} -> p - q
    [] op = "imul" -> p * q
    [] op = "and" -> p & q
    [] op = "or" -> p | q
    [] op = "xor" -> p ^^ q

Step(x, m) ==
  LET s == Fetch(x.a, m)
      d == Fetch(x.b, m)
      mod == IF Wide(x) THEN FullMod ELSE HalfMod
      r == Compute(x.op, d.v % mod, s.v % mod) % mod
      used == IF Wide(x) THEN s.full /\ d.full ELSE TRUE
  IN  CASE x.op = "mov" ->
             Put(x.b, IF Wide(x) THEN s ELSE Value(Low(s), x.a = x.b), m)
        [] x.op = "cmp" -> [m EXCEPT !.zero = (r = 0), !.valid = @ /\ used]
        [] OTHER -> [Put(x.b, Value(r, Wide(x)), m) EXCEPT !.zero = (r = 0), !.valid = @ /\ used]

(* A jump to a label that does not follow leaves the body there.           *)
Exit(m, l) == [m EXCEPT !.exit = l]
RECURSIVE Run(_, _, _)
Run(code, i, m) ==
  LET x == code[i]
      to == {j \in DOMAIN code : j > i /\ code[j].op = "label" /\ code[j].a = x.a}
      jump == IF to = {} THEN Exit(m, x.a.n) ELSE Run(code, Min(to), m)
  IN  CASE i > Len(code) -> m
        [] x.op = "jmp" -> jump
        [] x.op = "je" -> IF m.zero THEN jump ELSE Run(code, i + 1, m)
        [] x.op = "label" -> Run(code, i + 1, m)
        [] OTHER -> Run(code, i + 1, Step(x, m))

SameValue(v, u) == Low(v) = Low(u) /\ (v.full => u.v = v.v)
SameEnd(m, n) ==
  /\ m.exit = n.exit
  /\ \A r \in DOMAIN m.reg : SameValue(m.reg[r], n.reg[r])
  /\ \A s \in DOMAIN m.slot : SameValue(m.slot[s], n.slot[s])

-----------------------------------------------------------------------------
(* At every moment the lines written, the window and the unread text do    *)
(* what the body does: they leave the same values in registers and frame   *)
(* and take the same jumps (emit_peephole_body()).                         *)
MeaningKept ==
  \A m \in Starts :
    LET before == Run(text, 1, m)
    IN  before.valid => SameEnd(before, Run(Written(out \o w \o Rest), 1, m))

(* The patterns do not feed each other for ever: every body is written.    *)
BodyWritten == <>ended
=============================================================================
