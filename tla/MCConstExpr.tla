---------------------------- MODULE MCConstExpr ----------------------------
(* A byte of two bits: int is -128..127, unsigned 0..255.  The first       *)
(* grammar has every operator and type, the second the operators of #if in *)
(* expressions of three, the third every suffix, the fourth functions      *)
(* evaluated at compile time, the fifth macros in #if.                     *)
EXTENDS ExprText

Lit(v, suffix, hex) == Literal([v |-> v, suffix |-> suffix, hex |-> hex])
MCArgs == <<1, 2, 3>>
MCGrammars ==
  <<[ops |-> Binary \cup UnaryOps \cup {"?"}, casts |-> {TUchar, TLlong}, steps |-> 2,
    leaves |-> {Lit(0, "", FALSE), Lit(IntMax, "", FALSE), Lit(2 * IntMax, "", TRUE),
                Lit(1, "u", FALSE), Lit(2, "ll", FALSE)}],
   [ops |-> {"-", "<", "==", "&&", "||", "?", "neg"}, casts |-> {}, steps |-> 3,
    leaves |-> {Lit(0, "", FALSE), Lit(2, "", FALSE)}],
   [ops |-> {"-", "/", ">>", "<"}, casts |-> {TChar}, steps |-> 1,
    leaves |-> {Lit(5, suffix, FALSE) : suffix \in {"", "u", "l", "ul", "ll", "ull"}}],
   [ops |-> {"-", "*", "<"}, casts |-> {}, steps |-> 2, leaves |-> {Param(1), Param(2), Param(3), Lit(3, "", FALSE)}],
   [ops |-> {"&&", "||", "!", ">", ">=", "!=", "%"}, casts |-> {}, steps |-> 2,
    leaves |-> {Name("name", "number", 2), Name("name", "undef", 0), Name("name", "expr", 2), Name("defined", "func", 1),
                Name("defined", "undef", 0), Name("defined()", "number", 1), Name("defined()", "undef", 0)}]>>
=============================================================================
