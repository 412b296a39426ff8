----------------------------- MODULE ConstExpr -----------------------------
(***************************************************************************)
(* Integer expressions and the five places of the compiler that work on    *)
(* them: the parser's precedence levels, the types check_type() gives the  *)
(* nodes and the casts it inserts, the parser's eval_const_expr(), the     *)
(* constant folding and the compile-time function evaluation of opt.c, and *)
(* the evaluator of #if, which reads the same tokens with a parser of its  *)
(* own.  They are compared with each other and with C.                     *)
(*                                                                         *)
(* Here are the trees; ExprText has the tokens and the properties.  A byte *)
(* has ByteBits bits, so that the limits of the types are small numbers.   *)
(***************************************************************************)
EXTENDS Integers, SequencesExt, Bitwise

CONSTANTS
  ByteBits,       \* bits of a byte
  LongSize,       \* bytes of long: 8, and 4 on Windows
  Args            \* the arguments of a function that returns the expression

T(rank, size, uns) == [rank |-> rank, size |-> size, uns |-> uns]
TChar == T(1, 1, FALSE)
TUchar == T(1, 1, TRUE)
TInt == T(3, 4, FALSE)
TUint == T(3, 4, TRUE)
TLong == T(4, LongSize, FALSE)
TUlong == T(4, LongSize, TRUE)
TLlong == T(5, 8, FALSE)
TUllong == T(5, 8, TRUE)
NoType == T(-1, 0, FALSE)

Modulus(ty) == 2 ^ (ByteBits * ty.size)
Wrap(v, ty) ==
  LET r == v % Modulus(ty)
  IN  IF ~ty.uns /\ 2 * r >= Modulus(ty) THEN r - Modulus(ty) ELSE r
IntMax == (Modulus(TInt) \div 2) - 1
Max64 == (Modulus(TLlong) \div 2) - 1

(* A node, and the nodes with two, one and no operands.                    *)
Node(op, kids, val, ty) == [op |-> op, kids |-> kids, val |-> val, ty |-> ty]
NewBinary(op, l, r) == Node(op, <<l, r>>, 0, NoType)
NewUnary(op, k) == Node(op, <<k>>, 0, NoType)
Leaves == {"num", "param"}
Arith == {"+", "-", "*", "/", "%", "&", "^", "|"}
Compare == {"==", "!=", "<", "<="}

-----------------------------------------------------------------------------
(* new_num(): the type of a literal, a record [v, suffix, hex].            *)
NumType(l) ==
  LET val == Wrap(l.v, TLlong)
  IN  CASE l.suffix = "ll" -> TLlong
        [] l.suffix = "ull" -> TUllong
        [] l.suffix = "l" -> TLong
        [] l.suffix = "ul" -> TUlong
        [] l.suffix = "u" -> IF val >= 0 /\ val < Modulus(TInt) THEN TUint ELSE TUllong
        [] OTHER -> IF val >= -IntMax - 1 /\ val <= IntMax THEN TInt
                    ELSE IF l.hex /\ val >= 0 /\ val < Modulus(TInt) THEN TUint
                    ELSE TLlong

(* The type C gives it.                                                    *)
CNumType(l) ==
  CASE l.suffix = "ll" -> IF l.v <= Max64 THEN TLlong ELSE TUllong
    [] l.suffix = "ull" -> TUllong
    [] l.suffix = "l" -> TLong
    [] l.suffix = "ul" -> TUlong
    [] l.suffix = "u" -> IF l.v < Modulus(TInt) THEN TUint ELSE TUllong
    [] OTHER -> IF l.v <= IntMax THEN TInt
                ELSE IF l.hex /\ l.v < Modulus(TInt) THEN TUint
                ELSE IF l.v <= Max64 THEN TLlong ELSE TUllong

(* Mutant: only the left operand makes the result unsigned.                *)
UsualArithTypeLeft(a, b) ==
  LET l == IF a.size < 4 THEN TInt ELSE a
      r == IF b.size < 4 THEN TInt ELSE b
      higher == IF l.rank >= r.rank THEN l ELSE r
  IN  T(higher.rank, higher.size, l.uns)

(* integer_promotion(), int_rank(), usual_arith_type(): the result is      *)
(* unsigned when an operand is.                                            *)
Promote(ty) == IF ty.size < 4 THEN TInt ELSE ty
GetIntegerType(size, uns) ==
  CASE size <= 1 -> T(1, 1, uns) [] size = 2 -> T(2, 2, uns) [] size = 4 -> T(3, 4, uns) [] OTHER -> T(5, 8, uns)
UsualArithType(a, b) ==
  LET l == Promote(a)
      r == Promote(b)
      higher == IF l.rank >= r.rank THEN l ELSE r
      uns == l.uns \/ r.uns
  IN  IF uns = higher.uns THEN higher ELSE GetIntegerType(higher.size, uns)

(* The usual arithmetic conversions of C: a signed type that can hold all  *)
(* values of an unsigned one of lower rank stays signed.                   *)
CArithType(a, b) ==
  LET l == Promote(a)
      r == Promote(b)
      higher == IF l.rank >= r.rank THEN l ELSE r
      lower == IF l.rank >= r.rank THEN r ELSE l
  IN  CASE l.uns = r.uns \/ higher.uns -> higher
        [] higher.rank = lower.rank -> lower
        [] higher.size > lower.size -> higher
        [] OTHER -> [higher EXCEPT !.uns = TRUE]
Common(a, b, std) == IF std THEN CArithType(a, b) ELSE UsualArithType(a, b)

(* add_type_internal(): the types of the nodes, and a cast around an       *)
(* operand narrower than the common type.  With std, the types of C.       *)
InsertArithCast(k, to) == IF to.size > k.ty.size THEN Node("cast", <<k>>, 0, to) ELSE k
RECURSIVE AddType(_, _)
AddType(t, std) ==
  LET k1 == AddType(t.kids[1], std)
      k2 == AddType(t.kids[2], std)
      kids == IF Len(t.kids) = 1 THEN <<k1>> ELSE <<k1, k2>>
      both == Common(k1.ty, k2.ty, std)
      cast == <<InsertArithCast(k1, both), InsertArithCast(k2, both)>>
      k3 == AddType(t.kids[3], std)
  IN  CASE t.op \in Leaves -> t
        [] t.op = "cast" -> [t EXCEPT !.kids = kids]
        [] t.op \in Arith -> [t EXCEPT !.kids = cast, !.ty = both]
        [] t.op \in Compare -> [t EXCEPT !.kids = cast, !.ty = TInt]
        [] t.op \in {"<<", ">>", "neg", "~"} -> [t EXCEPT !.kids = kids, !.ty = Promote(k1.ty)]
        [] t.op = "?" -> [t EXCEPT !.kids = <<k1, k2, k3>>, !.ty = Common(k2.ty, k3.ty, std)]
        [] OTHER -> [t EXCEPT !.kids = kids, !.ty = TInt]

-----------------------------------------------------------------------------
(* Arithmetic without limits, and within a type.                           *)
Abs(n) == IF n < 0 THEN -n ELSE n
Quotient(a, b) == (IF (a < 0) = (b < 0) THEN 1 ELSE -1) * (Abs(a) \div Abs(b))
Truth(b) == IF b THEN 1 ELSE 0
Bitop(op, a, b, ty) ==
  LET x == a % Modulus(ty)
      y == b % Modulus(ty)
  IN  Wrap(CASE op = "&" -> x & y [] op = "^" -> x ^^ y [] OTHER -> x | y, ty)
Apply(op, a, b, ty) ==
  CASE op = "+" -> a + b
    [] op = "-" -> a - b
    [] op = "*" -> a * b
    [] op = "/" -> Quotient(a, b)
    [] op = "%" -> a - Quotient(a, b) * b
    [] op = "<<" -> a * 2 ^ b
    [] op = ">>" -> a \div 2 ^ b
    [] op = "==" -> Truth(a = b)
    [] op = "!=" -> Truth(a # b)
    [] op = "<" -> Truth(a < b)
    [] op = "<=" -> Truth(a <= b)
    [] op = "&&" -> Truth(a # 0 /\ b # 0)
    [] op = "||" -> Truth(a # 0 \/ b # 0)
    [] OTHER -> Bitop(op, a, b, ty)
Divides(op) == op \in {"/", "%"}
Shifts(op) == op \in {"<<", ">>"}

Value(v) == [ok |-> TRUE, val |-> v]
Failed == [ok |-> FALSE, val |-> 0]

(* eval_const_expr(): 64-bit arithmetic whatever the types; a cast is      *)
(* skipped; both operands of && and || are evaluated.                      *)
RECURSIVE EvalConst(_)
EvalConst(t) ==
  LET k1 == EvalConst(t.kids[1])
      k2 == EvalConst(t.kids[2])
      w(v) == Value(Wrap(v, TLlong))
  IN  CASE t.op = "num" -> Value(t.val)
        [] t.op = "param" -> Failed
        [] t.op = "?" -> IF ~k1.ok THEN Failed ELSE IF k1.val # 0 THEN k2 ELSE EvalConst(t.kids[3])
        [] ~k1.ok -> Failed
        [] t.op = "cast" -> k1
        [] t.op = "neg" -> w(-k1.val)
        [] t.op = "~" -> w(-k1.val - 1)
        [] t.op = "!" -> Value(Truth(k1.val = 0))
        [] ~k2.ok -> Failed
        [] Divides(t.op) /\ k2.val = 0 -> Failed
        [] Shifts(t.op) /\ k2.val \notin 0..(8 * ByteBits - 1) -> Failed
        [] OTHER -> w(Apply(t.op, k1.val, k2.val, TLlong))

(* What C makes of a typed tree.  exact: no conversion changed a value and *)
(* no unsigned result wrapped around.                                      *)
CValue(v, raw, ok, exact) == [ok |-> ok, val |-> v, exact |-> exact /\ v = raw]
RECURSIVE CEval(_, _)
CEval(t, std) ==
  LET k1 == CEval(t.kids[1], std)
      k2 == CEval(t.kids[2], std)
      ct == IF t.op \in Compare THEN Common(t.kids[1].ty, t.kids[2].ty, std) ELSE t.ty
      a == Wrap(k1.val, ct)
      b == IF Shifts(t.op) THEN k2.val ELSE Wrap(k2.val, ct)
      kept == k1.exact /\ k2.exact /\ a = k1.val /\ b = k2.val
      defined ==
        /\ k1.ok /\ k2.ok
        /\ Divides(t.op) => b # 0
        /\ Shifts(t.op) => b \in 0..(ByteBits * ct.size - 1) /\ (t.op = "<<" => a >= 0)
      r == IF defined THEN Apply(t.op, a, b, ct) ELSE 0
      decided == (t.op = "&&") = (k1.val = 0)
      arm == IF k1.val # 0 THEN k2 ELSE CEval(t.kids[3], std)
      one(v) == CValue(Wrap(v, t.ty), v, k1.ok /\ (t.ty.uns \/ Wrap(v, t.ty) = v), k1.exact)
  IN  CASE t.op = "num" -> CValue(t.val, t.val, TRUE, TRUE)
        [] t.op = "param" -> CValue(Args[t.val], Args[t.val], TRUE, TRUE)
        [] t.op = "cast" -> CValue(Wrap(k1.val, t.ty), k1.val, k1.ok, k1.exact)
        [] t.op = "neg" -> one(-k1.val)
        [] t.op = "~" -> one(-k1.val - 1)
        [] t.op = "!" -> one(Truth(k1.val = 0))
        [] t.op \in {"&&", "||"} ->
             IF decided THEN CValue(Truth(t.op = "||"), Truth(t.op = "||"), k1.ok, k1.exact)
             ELSE CValue(Truth(k2.val # 0), Truth(k2.val # 0), k1.ok /\ k2.ok, k1.exact /\ k2.exact)
        [] t.op = "?" -> CValue(Wrap(arm.val, t.ty), arm.val, k1.ok /\ arm.ok, k1.exact /\ arm.exact)
        [] t.op \in Compare -> CValue(r, r, defined, kept)
        [] OTHER -> CValue(Wrap(r, t.ty), r, defined /\ (t.ty.uns \/ Wrap(r, t.ty) = r), kept)

-----------------------------------------------------------------------------
(* optimize_node(): an operation on two literals becomes one, of the same  *)
(* type, its value computed in 64 bits.                                    *)
Folds == {"+", "-", "*", "/", "%"}
(* Mutant: the operands exchanged.                                         *)
FoldValueSwapped(op, a, b) ==
  IF Divides(op) /\ a = 0 THEN 0 ELSE Wrap(Apply(op, b, a, TLlong), TLlong)

FoldValue(op, a, b) == Wrap(Apply(op, a, b, TLlong), TLlong)

RECURSIVE Fold(_)
Fold(t) ==
  LET k1 == Fold(t.kids[1])
      k2 == Fold(t.kids[2])
  IN  CASE t.op \in Leaves -> t
        [] Len(t.kids) = 1 -> [t EXCEPT !.kids = <<k1>>]
        [] Len(t.kids) = 3 -> [t EXCEPT !.kids = <<k1, k2, Fold(t.kids[3])>>]
        [] t.op \in Folds /\ k1.op = "num" /\ k2.op = "num" /\ (Divides(t.op) => k2.val # 0) ->
             Node("num", <<>>, FoldValue(t.op, k1.val, k2.val), t.ty)
        [] OTHER -> [t EXCEPT !.kids = <<k1, k2>>]

(* eval_ast() of a function that returns the expression: int arithmetic.   *)
(* The parameters are ints at the offsets 84, 88, 92...; the environment   *)
(* has one entry for eight bytes.                                          *)
Slot(i) == (80 + 4 * i) \div 8
Env(slot) == Args[Max({i \in DOMAIN Args : Slot(i) = slot})]
RECURSIVE EvalAst(_)
EvalAst(t) ==
  LET k1 == EvalAst(t.kids[1])
      k2 == EvalAst(t.kids[2])
  IN  CASE t.op = "num" -> Value(Wrap(t.val, TInt))
        [] t.op = "param" -> Value(Env(Slot(t.val)))
        [] t.op \notin Folds \cup Compare -> Failed
        [] ~k1.ok \/ ~k2.ok -> Failed
        [] Divides(t.op) /\ k2.val = 0 -> Failed
        [] OTHER -> Value(Wrap(Apply(t.op, k1.val, k2.val, TInt), TInt))
=============================================================================
