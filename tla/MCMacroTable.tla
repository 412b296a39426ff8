---------------------------- MODULE MCMacroTable ----------------------------
(* Two names that share a hash bucket, the first of them predefined, with  *)
(* two definitions and all directives; and three names with all kinds of   *)
(* bodies, in one file, with lines that use them.                          *)
EXTENDS MacroExpand

a == <<"a">>
f == <<"f">>
pq == <<"p", "q">>
x == <<"x">>
r == <<"r">>
One == Tok("num", <<"1">>)
Two == Tok("num", <<"2">>)
A == Id(a)
F == Id(f)
PQ == Id(pq)
P == Id(<<"p">>)
Q == Id(<<"q">>)
X == Id(x)
R == Id(r)

Obj(s) == [fn |-> FALSE, params |-> <<>>, va |-> "no", toks |-> s]
Fun(s) == [fn |-> TRUE, params |-> <<x>>, va |-> "no", toks |-> s]
Var(s) == [fn |-> TRUE, params |-> <<x>>, va |-> "std", toks |-> s]
Gnu(s) == [fn |-> TRUE, params |-> <<x, r>>, va |-> "gnu", toks |-> s]

Plain == {Obj(<<One>>), Obj(<<Two>>)}
All ==
  {Obj(<<One>>), Obj(<<F>>), Obj(<<A, One>>), Obj(<<F, Open, A, Close>>), Obj(<<PQ>>), Obj(<<F, Open, One>>),
   Fun(<<X>>), Fun(<<X, F>>), Fun(<<A, Open, X, Close>>), Fun(<<P, Paste, X>>), Fun(<<A, X, Paste, Q>>),
   Fun(<<Hash, X, X>>), Fun(<<PQ>>),
   Var(<<X, Comma, Paste, VaArgs>>), Var(<<VaArgs, X>>), Gnu(<<X, Comma, Paste, R>>)}
Call(m, args) == <<m, Open>> \o Joined(args) \o <<Close>>
Lines ==
  {<<A>>, <<PQ, A>>, <<F>>, <<A, Close>>, Call(F, <<<<A>>>>), Call(F, <<<<P>>>>), Call(F, <<<<Q>>>>), Call(F, <<<<>>>>),
   Call(F, <<<<One>>>>) \o <<Open, Two, Close>>, Call(A, <<<<F>>>>) \o <<Open, Q, Close>>,
   Call(F, <<Call(F, <<<<A>>>>)>>), Call(F, <<<<A>>, <<Two>>>>), Call(F, <<<<One>>, <<A>>, <<P>>>>),
   Call(F, <<<<Open, A, Comma, One, Close>>>>), Call(PQ, <<<<Q>>, <<F>>>>)}

MCSources ==
  {[names |-> {a, f}, bodies |-> Plain, texts |-> {}, tables |-> TRUE],
   [names |-> {a, f, pq}, bodies |-> All, texts |-> Lines, tables |-> FALSE]}

MCNames == {a, f, pq}
MCBodies == Plain \union All
MCBuckets == {0, 1}
MCBucket(n) == 0
MCPredefined == <<<<a, Obj(<<One>>)>>>>

=============================================================================
