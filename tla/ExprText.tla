------------------------------ MODULE ExprText ------------------------------
(***************************************************************************)
(* Expressions as the parser and the preprocessor read them.  The state is *)
(* one expression: its tokens, with the parentheses C needs and no more,   *)
(* its tree, and the operators in it.  A step puts an operator around it.  *)
(***************************************************************************)
EXTENDS ConstExpr

CONSTANT
  Grammars        \* a sequence of [ops, leaves, casts, steps]: operators and operands used, and
                  \* a bound on the operators of an expression

VARIABLES uses, e, steps
vars == <<uses, e, steps>>
Uses == Grammars[uses]

Token(t, leaf, ty) == [t |-> t, leaf |-> leaf, ty |-> ty]
NoLeaf == [v |-> 0, suffix |-> "", hex |-> FALSE]
Op(t) == Token(t, NoLeaf, NoType)
Is(ts, set) == ts # <<>> /\ Head(ts).t \in set

(* A name in #if is undefined or a macro, whose body is a number or an     *)
(* expression, or which takes arguments; leaf.v is the value of the body.  *)
(* "defined" is defined X, "defined()" is defined(X).                     *)
IsDefined(leaf) == leaf.suffix # "undef"
NameValue(leaf) == IF leaf.suffix \in {"number", "expr"} THEN leaf.v ELSE 0
LeafNode(tok) ==
  CASE tok.t = "param" -> Node("param", <<>>, tok.leaf.v, tok.ty)
    [] tok.t = "name" -> Node("num", <<>>, NameValue(tok.leaf), tok.ty)
    [] tok.t \in {"defined", "defined()"} -> Node("num", <<>>, Truth(IsDefined(tok.leaf)), tok.ty)
    [] OTHER -> Node("num", <<>>, Wrap(tok.leaf.v, TLlong), tok.ty)

-----------------------------------------------------------------------------
(* C's grammar: the level of each binary operator.                         *)
CLevel(op) ==
  CASE op = "||" -> 2 [] op = "&&" -> 3 [] op = "|" -> 4 [] op = "^" -> 5 [] op = "&" -> 6
    [] op \in {"==", "!="} -> 7 [] op \in {"<", "<=", ">", ">="} -> 8 [] op \in {"<<", ">>"} -> 9
    [] op \in {"+", "-"} -> 10 [] OTHER -> 11
Unary == 12
Binary == {"||", "&&", "|", "^", "&", "==", "!=", "<", "<=", ">", ">=", "<<", ">>", "+", "-", "*", "/", "%"}
UnaryOps == {"plus", "neg", "!", "~"}
Sign(op) == CASE op = "plus" -> "+" [] op = "neg" -> "-" [] OTHER -> op

Expr(toks, level, tree, ops) == [toks |-> toks, level |-> level, tree |-> tree, ops |-> ops]
Leaf(tok) == Expr(<<tok>>, 13, LeafNode(tok), {})
At(x, level) == IF x.level >= level THEN x.toks ELSE <<Op("(")>> \o x.toks \o <<Op(")")>>
Flip(op) == IF op = ">" THEN "<" ELSE "<="
BinTree(op, a, b) == IF op \in {">", ">="} THEN NewBinary(Flip(op), b, a) ELSE NewBinary(op, a, b)
Bin(op, a, b) ==
  Expr(At(a, CLevel(op)) \o <<Op(op)>> \o At(b, CLevel(op) + 1), CLevel(op), BinTree(op, a.tree, b.tree),
       a.ops \cup b.ops \cup {op})
Un(op, a) ==
  Expr(<<Op(Sign(op))>> \o At(a, Unary), Unary, IF op = "plus" THEN a.tree ELSE NewUnary(op, a.tree),
       a.ops \cup {op})
CastTo(ty, a) == Expr(<<Token("cast", NoLeaf, ty)>> \o At(a, Unary), Unary, Node("cast", <<a.tree>>, 0, ty), a.ops \cup {"cast"})
Cond(c, t, f) ==
  Expr(At(c, 2) \o <<Op("?")>> \o t.toks \o <<Op(":")>> \o At(f, 1), 1,
       Node("?", <<c.tree, t.tree, f.tree>>, 0, NoType), c.ops \cup t.ops \cup f.ops \cup {"?"})

(* The operands: a literal of the type the parser gives it, a parameter.   *)
Literal(l) == Token("num", l, NumType(l))
Param(i) == Token("param", [NoLeaf EXCEPT !.v = i], TInt)
Name(t, kind, v) == Token(t, [NoLeaf EXCEPT !.v = v, !.suffix = kind], TInt)

Init == /\ uses \in DOMAIN Grammars
        /\ e \in {Leaf(x) : x \in Uses.leaves}
        /\ steps = 0

Grow(x) == e' = x
Around ==
  \/ \E op \in Uses.ops \cap Binary, x \in Uses.leaves : Grow(Bin(op, e, Leaf(x))) \/ Grow(Bin(op, Leaf(x), e))
  \/ \E op \in Uses.ops \cap UnaryOps : Grow(Un(op, e))
  \/ \E ty \in Uses.casts : Grow(CastTo(ty, e))
  \/ /\ "?" \in Uses.ops
     /\ \E x, y \in Uses.leaves :
          Grow(Cond(e, Leaf(x), Leaf(y))) \/ Grow(Cond(Leaf(x), e, Leaf(y))) \/ Grow(Cond(Leaf(x), Leaf(y), e))

Next == /\ steps < Uses.steps /\ steps' = steps + 1
        /\ Around
        /\ UNCHANGED uses

Spec == Init /\ [][Next]_vars

-----------------------------------------------------------------------------
(* Mutant: & binds tighter than ==.                                        *)
LevelOpsSwapped(level) ==
  CASE level = 2 -> {"||"} [] level = 3 -> {"&&"} [] level = 4 -> {"|"} [] level = 5 -> {"^"} [] level = 7 -> {"&"}
    [] level = 6 -> {"==", "!="} [] level = 8 -> {"<", "<=", ">", ">="} [] level = 9 -> {"<<", ">>"}
    [] level = 10 -> {"+", "-"} [] OTHER -> {"*", "/", "%"}

(* logor(), logand(), bitor(), bitxor(), bitand(), equality(),             *)
(* relational(), shift(), add(), mul(): the operators each one takes.      *)
LevelOps(level) ==
  CASE level = 2 -> {"||"} [] level = 3 -> {"&&"} [] level = 4 -> {"|"} [] level = 5 -> {"^"} [] level = 6 -> {"&"}
    [] level = 7 -> {"==", "!="} [] level = 8 -> {"<", "<=", ">", ">="} [] level = 9 -> {"<<", ">>"}
    [] level = 10 -> {"+", "-"} [] OTHER -> {"*", "/", "%"}

Parsed(tree, rest) == [tree |-> tree, rest |-> rest]
RECURSIVE Parse(_, _)
(* The loop of one level: left-associative; > and >= exchange the operands.*)
RECURSIVE Chain(_, _, _)
Chain(level, tree, ts) ==
  IF Is(ts, LevelOps(level))
  THEN LET r == Parse(level + 1, Tail(ts))
       IN  Chain(level, BinTree(Head(ts).t, tree, r.tree), r.rest)
  ELSE Parsed(tree, ts)

(* conditional().                                                          *)
Conditional(ts) ==
  LET c == Parse(2, ts)
      t == Parse(1, Tail(c.rest))
      f == Parse(1, Tail(t.rest))
  IN  IF Is(c.rest, {"?"}) THEN Parsed(Node("?", <<c.tree, t.tree, f.tree>>, 0, NoType), f.rest) ELSE c

(* unary(), primary().                                                     *)
UnaryExpr(ts) ==
  LET r == Parse(Unary, Tail(ts))
      p == Parse(1, Tail(ts))
  IN  CASE Is(ts, {"+"}) -> r
        [] Is(ts, {"-"}) -> Parsed(NewUnary("neg", r.tree), r.rest)
        [] Is(ts, {"!", "~"}) -> Parsed(NewUnary(Head(ts).t, r.tree), r.rest)
        [] Is(ts, {"cast"}) -> Parsed(Node("cast", <<r.tree>>, 0, Head(ts).ty), r.rest)
        [] Is(ts, {"("}) -> Parsed(p.tree, Tail(p.rest))
        [] OTHER -> Parsed(LeafNode(Head(ts)), Tail(ts))

Parse(level, ts) ==
  CASE level = 1 -> Conditional(ts)
    [] level = Unary -> UnaryExpr(ts)
    [] OTHER -> LET l == Parse(level + 1, ts) IN Chain(level, l.tree, l.rest)

-----------------------------------------------------------------------------
(* The evaluator of #if.  It reads characters: a shift is two of <, a      *)
(* suffix stays behind its number, defined is followed by a name or by one *)
(* in parentheses.                                                         *)
PpToken(tok) ==
  CASE tok.t = "<<" -> <<Op("<"), Op("<")>>
    [] tok.t = ">>" -> <<Op(">"), Op(">")>>
    [] tok.t = "num" /\ tok.leaf.suffix # "" -> <<tok, Op("suffix")>>
    [] tok.t = "defined" -> <<Op("defined"), [tok EXCEPT !.t = "name"]>>
    [] tok.t = "defined()" -> <<Op("defined"), Op("("), [tok EXCEPT !.t = "name"], Op(")")>>
    [] OTHER -> <<tok>>
PpTokens(ts) == FlattenSeq([i \in DOMAIN ts |-> PpToken(ts[i])])

(* eval_land(), eval_eq(), eval_rel(), eval_add(), eval_mul(): a level has *)
(* no bit operators.                                                       *)
PpOps(level) ==
  CASE level = 2 -> {"||"} [] level = 3 -> {"&&"} [] level = 4 -> {"==", "!="}
    [] level = 5 -> {"<=", ">=", "<", ">"} [] level = 6 -> {"+", "-"} [] OTHER -> {"*", "/", "%"}
PpPrimaryLevel == 8

(* Mutant: > is taken for >=.                                              *)
PpApplyLoose(op, a, b) ==
  CASE Divides(op) /\ b = 0 -> 0
    [] op \in {">", ">="} -> Truth(a >= b)
    [] OTHER -> Wrap(Apply(op, a, b, TLong), TLong)

PpApply(op, a, b) ==
  CASE Divides(op) /\ b = 0 -> 0
    [] op = ">" -> Truth(a > b)
    [] op = ">=" -> Truth(a >= b)
    [] OTHER -> Wrap(Apply(op, a, b, TLong), TLong)

Read(val, rest) == [val |-> val, rest |-> rest]
RECURSIVE PpEval(_, _), PpChain(_, _, _)
PpChain(level, val, ts) ==
  IF Is(ts, PpOps(level))
  THEN LET r == PpEval(level + 1, Tail(ts)) IN PpChain(level, PpApply(Head(ts).t, val, r.val), r.rest)
  ELSE Read(val, ts)

(* eval_primary(): strtol() of a macro's body; anything that is no operand *)
(* is 0 and is left where it is.  After defined X a ) is skipped whether   *)
(* or not there was a (.                                                   *)
PastOpen(ts) == IF Is(ts, {"("}) THEN Tail(ts) ELSE ts
PastClose(ts) == IF Is(ts, {")"}) THEN Tail(ts) ELSE ts
PpPrimary(ts) ==
  LET r == PpEval(PpPrimaryLevel, Tail(ts))
      p == PpEval(1, Tail(ts))
      name == PastOpen(Tail(ts))
  IN  CASE Is(ts, {"("}) -> Read(p.val, PastClose(p.rest))
        [] Is(ts, {"!"}) -> Read(Truth(r.val = 0), r.rest)
        [] Is(ts, {"-"}) -> Read(Wrap(-r.val, TLong), r.rest)
        [] Is(ts, {"num"}) -> Read(Wrap(Head(ts).leaf.v, TLong), Tail(ts))
        [] Is(ts, {"defined"}) -> Read(Truth(IsDefined(Head(name).leaf)), PastClose(Tail(name)))
        [] Is(ts, {"name", "param"}) -> Read(IF Head(ts).leaf.suffix = "number" THEN Head(ts).leaf.v ELSE 0, Tail(ts))
        [] OTHER -> Read(0, ts)

(* eval_pp_expr().                                                         *)
PpExpr(ts) ==
  LET c == PpEval(2, ts)
      t == PpEval(1, Tail(c.rest))
      f == PpEval(1, IF Is(t.rest, {":"}) THEN Tail(t.rest) ELSE t.rest)
  IN  IF Is(c.rest, {"?"}) THEN Read(IF c.val # 0 THEN t.val ELSE f.val, f.rest) ELSE c

PpEval(level, ts) ==
  CASE level = 1 -> PpExpr(ts)
    [] level = PpPrimaryLevel -> PpPrimary(ts)
    [] OTHER -> LET l == PpEval(level + 1, ts) IN PpChain(level, l.val, l.rest)

-----------------------------------------------------------------------------
Typed == AddType(e.tree, FALSE)
CTyped == AddType(e.tree, TRUE)
CResult == CEval(CTyped, TRUE)

LiteralTypes ==
  \A i \in DOMAIN e.toks :
    LET tok == e.toks[i]
    IN  tok.t = "num" /\ tok.leaf.v <= Max64 =>
          tok.ty.size = CNumType(tok.leaf).size /\ tok.ty.uns = CNumType(tok.leaf).uns
OperationTypes ==
  LET t == Typed
      c == CTyped
      Unmixed(a, b) == ~(a.size # b.size /\ a.size > 4 /\ ~a.uns /\ b.uns /\ b.size >= 4)
  IN  /\ t.ty.size = c.ty.size
      /\ t.op \in Arith =>
           LET a == AddType(e.tree.kids[1], TRUE).ty
               b == AddType(e.tree.kids[2], TRUE).ty
           IN  /\ AddType(e.tree.kids[1], FALSE).ty.uns = a.uns
               /\ AddType(e.tree.kids[2], FALSE).ty.uns = b.uns
               /\ Unmixed(a, b) /\ Unmixed(b, a)
               => t.ty.uns = c.ty.uns
(* A literal is as wide and as signed as C says (new_num()), unless it is  *)
(* above the largest signed value and so taken for a negative number.      *)
(* Every operation has the width C gives it, and its signedness when its   *)
(* operands have (add_type_internal()), but for a signed operand wider     *)
(* than an unsigned one: the compiler's result is unsigned.                *)
TypesAgree == LiteralTypes /\ OperationTypes

(* The parser gives the tokens the tree C's grammar gives them, and reads  *)
(* all of them (mul() to conditional(), unary()).                          *)
ParserTree == Parse(1, e.toks) = Parsed(e.tree, <<>>)

Supported == e.ops \cap {"plus", "~", "&", "^", "|", "<<", ">>", "cast"} = {}
PlainNumbers ==
  \A i \in DOMAIN e.toks :
    CASE e.toks[i].t = "num" -> e.toks[i].leaf.suffix = ""
      [] e.toks[i].t = "name" -> e.toks[i].leaf.suffix # "expr"
      [] OTHER -> e.toks[i].t # "param"
(* The ) that defined X takes is that of an enclosing expression.          *)
TakesEnclosing ==
  \E i \in 1..(Len(e.toks) - 1) : e.toks[i].t = "defined" /\ e.toks[i + 1].t = ")"
(* #if and the parser's constant evaluator agree on every expression of    *)
(* unsuffixed numbers, macros for them, defined X and defined(X), and the  *)
(* operators #if knows, unless defined X stands before a ).                *)
PpAgrees ==
  Supported /\ PlainNumbers /\ ~TakesEnclosing /\ EvalConst(Typed).ok =>
    PpEval(1, PpTokens(e.toks)) = Read(EvalConst(Typed).val, <<>>)

ConstExact ==
  EvalConst(Typed).ok /\ CResult.ok /\ CResult.exact => EvalConst(Typed).val = CResult.val
FoldExact ==
  LET r == CEval(Typed, FALSE)
  IN  r.ok /\ r.exact => LET f == CEval(Fold(Typed), FALSE) IN f.ok /\ f.val = r.val
CtfeExact ==
  LET used == {e.toks[i].leaf.v : i \in {j \in DOMAIN e.toks : e.toks[j].t = "param"}}
      ints == \A i \in DOMAIN e.toks : e.toks[i].ty \in {TInt, NoType}
  IN  EvalAst(Typed).ok /\ CResult.ok /\ CResult.exact /\ ints /\ used \cap {2, 3} = {} =>
        EvalAst(Typed).val = CResult.val
(* A constant expression (array bounds, case labels, enum values, static   *)
(* initializers) has the value C gives it (eval_const_expr()), folding at  *)
(* -O1 does not change what a typed tree computes (optimize_node()), and a *)
(* call evaluated at compile time returns what the call would              *)
(* (eval_ast()): whenever no conversion changes a value and nothing wraps  *)
(* around, for none of the three knows types, and, for the calls, when the *)
(* parameters 2 and 3, which share an entry, are not used.                 *)
ValuesExact == ConstExact /\ FoldExact /\ CtfeExact
=============================================================================
