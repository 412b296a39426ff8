------------------------------ MODULE MCLayout ------------------------------
(* Structs of up to three members and pragmas before them, four in all.    *)
EXTENDS InitData

M(sort, size, align, width) == [sort |-> sort, size |-> size, align |-> align, width |-> width]
MCMembers ==
  {M("field", 1, 1, 0), M("field", 4, 4, 0), M("field", 2, 8, 0), M("anon", 8, 4, 0),
   M("bits", 1, 1, 3), M("bits", 4, 4, 3), M("bits", 4, 4, 30), M("bits", 8, 8, 40), M("bits", 1, 4, 4),
   M("pad", 1, 1, 0), M("pad", 4, 4, 0), M("pad", 4, 4, 7)}
S(union, mode, packed, align) == [union |-> union, mode |-> mode, packed |-> packed, align |-> align]
MCStructs ==
  {S(FALSE, "gcc", FALSE, 0), S(FALSE, "gcc", TRUE, 0), S(FALSE, "gcc", TRUE, 8), S(FALSE, "ms", FALSE, 0),
   S(TRUE, "gcc", FALSE, 0)}

(* Items of the initialisers.                                              *)
Num(v) == Value("num", v, <<>>)
Plain(v) == Item("none", 0, 0, v)
MCItems ==
  {Plain(Num(1)), Plain(Value("str", 1, <<>>)), Plain(Value("addr", 7, <<>>)),
   Plain(Value("list", 0, <<Plain(Num(3)), Plain(Num(4))>>)),
   Item("dot", 1, 0, Value("str", 2, <<>>)), Item("dot", 2, 0, Num(5)),
   Item("chain", 2, 1, Num(6)), Item("idx", 0, 1, Value("list", 0, <<Item("dot", 2, 0, Num(8))>>))}
MCSecond ==
  {Plain(Num(1)), Plain(Value("list", 0, <<Plain(Num(3)), Plain(Num(4))>>)),
   Item("dot", 1, 0, Value("str", 2, <<>>)), Item("dot", 2, 0, Num(5))}
MCLists == {<<i>> : i \in MCItems} \union {<<i, j>> : i \in MCItems, j \in MCSecond}
MCObjects == {"struct", "unsized", "outer"}
=============================================================================
