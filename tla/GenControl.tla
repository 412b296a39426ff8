----------------------------- MODULE GenControl -----------------------------
(***************************************************************************)
(* Templates of gen()'s statements and short-circuit operators.  A child   *)
(* statement's register, if it has one, is released at once.  A jump back  *)
(* to the head of a loop is left out: what holds at the jump held there.   *)
(***************************************************************************)
EXTENDS GenOps

stmt(t) == <<gen(t), free(t)>>

(* emit_cleanup_range(): a bare call for each variable with a cleanup      *)
(* function.                                                               *)
CleanupX86 == opt(<<ins({}, "rdi"), call({"rdi"}, "none")>>)
CleanupArm == opt(<<ins({}, "x0"), call({"x0"}, "none")>>)

(* The node's name tells whether cleanups are called.                      *)
Left(node, c) == IF c = <<>> THEN node ELSE "cleanup in " \o node

(* emit_vla_dealloc() undoes ND_ALLOCA's move of the stack pointer.        *)
VlaDealloc == opt(<<stack(0)>>)

(* gen_cond_branch_inv(): floats, a constant, two operands, anything else. *)
CondBranch(l) ==
  {<<gen("lhs"), gen("rhs"), use({"lhs", "rhs"}), jcc(l), jcc(l), free("rhs"), free("lhs")>>,
   <<gen("lhs"), gen("rhs"), use({"lhs", "rhs"}), jcc("fc_skip"), jcc(l), label("fc_skip"),
     free("rhs"), free("lhs")>>,
   <<gen("lhs"), use({"lhs"}), free("lhs"), jcc(l)>>,
   <<gen("lhs"), gen("rhs"), use({"lhs", "rhs"}), free("rhs"), free("lhs"), jcc(l)>>,
   <<gen("cond"), use({"cond"}), free("cond"), jcc(l)>>}

-----------------------------------------------------------------------------
(* ND_RETURN of a struct: %r11 or x11 holds the hidden buffer's address,   *)
(* whatever register the value's address is in.                            *)
ReturnStruct ==
  UNION {x86(Left("RETURN struct", c),
             <<addr("src"), ins({}, "r11"), ins({}, "rcx"), use({"rcx"}), jcc("end"),
               ins({"src", "rcx"}, "rax"), use({"rax", "r11", "rcx"}), ins({"rcx"}, "rcx"),
               label("end"), ins({"r11"}, "rax"), free("src")>>
               \o c \o <<use({"rax"}), jmp("return")>>, "none") : c \in CleanupX86}
    \union
  UNION {arm(Left("RETURN struct", c),
             <<addr("src"), ins({}, "x16"), ins({}, "x11"), ins({}, "x9"), use({"x9"}), jcc("end"),
               ins({"x9"}, "x9"), ins({"src", "x9"}, "x16"), use({"x16", "x11", "x9"}),
               label("end"), ins({"x11"}, "x0"), free("src")>>
               \o c \o <<use({"x0"}), jmp("return")>>, "none") : c \in CleanupArm}

(* ND_RETURN of an integer: in %rax or x0 while the cleanups run.          *)
ReturnInt ==
  UNION {x86(Left("RETURN int", c),
             <<gen("r"), ins({"r"}, "rax")>> \o m \o <<free("r")>> \o c
               \o <<use({"rax"}), jmp("return")>>, "none")
           : m \in opt(<<ins({"rax"}, "rax")>>), c \in CleanupX86}
    \union
  UNION {arm(Left("RETURN int", c),
             <<gen("r")>> \o m \o <<ins({"r"}, "x0"), free("r")>> \o c
               \o <<use({"x0"}), jmp("return")>>, "none")
           : m \in opt(<<ins({"r"}, "r")>>), c \in CleanupArm}

(* A float function returns through %xmm0 or d0, converting if need be.    *)
ReturnFloat ==
  UNION {x86(Left("RETURN float", c), <<gen("r")>> \o v \o <<free("r")>> \o c
               \o <<use({"xmm0"}), jmp("return")>>, "none")
           : v \in {<<ins({"r"}, "xmm0"), ins({"xmm0"}, "xmm0")>>,
                    <<use({"r"}), jcc("high"), ins({"r"}, "xmm0"), jmp("end"), label("high"),
                      ins({"r"}, "rcx"), ins({"rcx"}, "rcx"), ins({"rcx"}, "xmm0"),
                      ins({"xmm0"}, "xmm0"), label("end")>>},
             c \in CleanupX86}
    \union
  UNION {arm(Left("RETURN float", c), <<gen("r"), ins({"r"}, "d0"), free("r")>> \o c
               \o <<use({"d0"}), jmp("return")>>, "none") : c \in CleanupArm}

(* An integer function returns a float: the conversion reads %xmm0 or d0,  *)
(* which nothing in this case has loaded from r.                           *)
ReturnFloatAsInt ==
  UNION {x86(Left("RETURN float as int", c),
             <<gen("r"), ins({"xmm0"}, "r"), ins({"r"}, "rax"), free("r")>> \o c
               \o <<use({"rax"}), jmp("return")>>, "none") : c \in CleanupX86}
    \union
  UNION {arm(Left("RETURN float as int", c),
             <<gen("r"), ins({"d0"}, "r"), ins({"r"}, "x0"), free("r")>> \o c
               \o <<use({"x0"}), jmp("return")>>, "none") : c \in CleanupArm}

ReturnVoid ==
  UNION {x86("RETURN void", c \o <<jmp("return")>>, "none") : c \in CleanupX86}
    \union UNION {arm("RETURN void", c \o <<jmp("return")>>, "none") : c \in CleanupArm}

ND_COMMA == both("COMMA", stmt("r1") \o <<gen("r")>>, "r")

(* ND_ALLOCA: the old stack pointer is kept in the variable, the size in   *)
(* %rax and %rcx, or x16, while the new block is probed or cleared; a size *)
(* of 0 restores the stack pointer.                                        *)
ND_ALLOCA ==
  both("ALLOCA release", <<stack(0)>>, "none")
    \union x86("ALLOCA",
               <<gen("r"), ins({"r"}, "rax"), free("r"), ins({}, "rcx"), use({"rax"}),
                 ins({"rcx"}, "rcx"), ins({"rcx"}, "rcx"), jcc("done"), use({"rcx"}),
                 label("done"), ins({}, "rax")>>, "none")
    \union arm("ALLOCA",
               <<gen("r"), ins({}, "x16"), use({"x16"}), ins({"r"}, "r"), ins({"r"}, "x16"),
                 free("r"), use({"x16"}), ins({"x16"}, "x16"), jcc("done"), use({"x16"}),
                 label("done"), ins({}, "x16"), use({"x16"})>>, "none")

ND_BLOCK == both("BLOCK", stmt("s1") \o stmt("s2"), "none")

(* ND_STMT_EXPR: the last expression's register, or a register with 0.     *)
ND_STMT_EXPR ==
  both("STMT_EXPR", stmt("s") \o <<gen("result")>>, "result")
    \union both("STMT_EXPR void", stmt("s") \o <<alloc("result"), ins({}, "result")>>, "result")

ND_EXPR_STMT == both("EXPR_STMT", stmt("r"), "none")

-----------------------------------------------------------------------------
(* ND_LOGAND: x86_64 passes the outcome through the slot spill_logand,     *)
(* which the operands may use as well; ARM64 through a register taken      *)
(* before them.                                                            *)
ND_LOGAND ==
  x86("LOGAND",
      <<gen("lhs"), use({"lhs"}), ins({}, "logand"), jcc("end"), free("lhs"), gen("rhs"),
        use({"rhs"}), ins({}, "rax"), ins({"rax"}, "logand"), free("rhs"), label("end"),
        alloc("r"), ins({"logand"}, "r")>>, "r")
    \union arm("LOGAND",
      <<alloc("r"), gen("lhs"), use({"lhs"}), ins({}, "r"), jcc("end"), free("lhs"), gen("rhs"),
        ins({"rhs"}, "r"), free("rhs"), label("end")>>, "r")

(* ND_LOGOR: the same with the other condition.                            *)
ND_LOGOR ==
  x86("LOGOR",
      <<gen("lhs"), use({"lhs"}), ins({}, "logand"), jcc("end"), free("lhs"), gen("rhs"),
        use({"rhs"}), ins({}, "rax"), ins({"rax"}, "logand"), free("rhs"), label("end"),
        alloc("r"), ins({"logand"}, "r")>>, "r")
    \union arm("LOGOR",
      <<alloc("r"), gen("lhs"), use({"lhs"}), ins({}, "r"), jcc("end"), free("lhs"), gen("rhs"),
        ins({"rhs"}, "r"), free("rhs"), label("end")>>, "r")

(* ND_COND: both arms move into the register taken first.                  *)
ND_COND ==
  both("COND",
       <<alloc("r"), gen("cond"), use({"cond"}), jcc("else"), free("cond"),
         gen("then_r"), ins({"then_r"}, "r"), free("then_r"), jmp("end"), label("else"),
         gen("else_r"), ins({"else_r"}, "r"), free("else_r"), label("end")>>, "r")

(* ND_IF: a constant condition generates one arm, or the arm from its      *)
(* first case label on.                                                    *)
IfConstant == both("IF constant", stmt("s"), "none") \union both("IF constant", <<>>, "none")

ND_IF ==
  UNION {both("IF else", b \o stmt("r1") \o <<jmp("end"), label("else")>> \o stmt("r2")
                \o <<label("end")>>, "none") : b \in CondBranch("else")}
    \union UNION {both("IF", b \o stmt("r1") \o <<label("end")>>, "none") : b \in CondBranch("end")}

ND_FOR ==
  UNION {both("FOR", i \o b \o stmt("r_then") \o n \o <<label("end")>>, "none")
           : i \in opt(stmt("r_init")), n \in opt(stmt("r_inc")),
             b \in CondBranch("end") \union {<<>>}}

ND_DO == both("DO", stmt("r_then") \o <<gen("r"), use({"r"}), free("r"), label("end")>>, "none")

(* ND_SWITCH: a compare and a jump per case, through a temporary when the  *)
(* constant does not fit; a range takes two.                               *)
CaseTest ==
  {<<use({"cond"}), jcc("case")>>,
   <<alloc("tmp"), ins({}, "tmp"), use({"tmp", "cond"}), free("tmp"), jcc("case")>>}
CaseRange ==
  {<<use({"cond"}), jcc("skip"), use({"cond"}), jcc("case"), label("skip")>>,
   <<alloc("tmp"), ins({}, "tmp"), use({"tmp", "cond"}), free("tmp"), jcc("skip"),
     alloc("tmp"), ins({}, "tmp"), use({"tmp", "cond"}), free("tmp"), jcc("case"), label("skip")>>}

ND_SWITCH ==
  UNION {both("SWITCH", <<gen("cond")>> \o a \o b \o <<jmp(d), free("cond"), label("case")>>
                \o stmt("r_body") \o <<label("end")>>, "none")
           : a \in CaseTest, b \in CaseRange, d \in {"case", "end"}}

ND_CASE == both("CASE", <<gen("r")>>, "r")

(* ND_BREAK, ND_CONTINUE and ND_GOTO: cleanups and VLAs of the scopes that *)
(* are left, then the jump.  They may sit in a statement expression whose  *)
(* enclosing expression goes on.                                           *)
ND_BREAK ==
  UNION {x86(Left("BREAK", c), c \o v, "none") : c \in CleanupX86, v \in VlaDealloc}
    \union UNION {arm(Left("BREAK", c), c \o v, "none") : c \in CleanupArm, v \in VlaDealloc}

ND_GOTO_IND == both("GOTO_IND", <<gen("r"), use({"r"}), free("r"), jmp("elsewhere")>>, "none")

ND_LABEL == both("LABEL", <<gen("r")>>, "r")

ND_LABEL_VAL == both("LABEL_VAL", <<alloc("r"), ins({}, "r")>>, "r")

ControlTemplates ==
  UNION {ReturnStruct, ReturnInt, ReturnFloat, ReturnFloatAsInt, ReturnVoid, ND_COMMA, ND_ALLOCA,
         ND_BLOCK, ND_STMT_EXPR, ND_EXPR_STMT, ND_LOGAND, ND_LOGOR, ND_COND, IfConstant, ND_IF,
         ND_FOR, ND_DO, ND_SWITCH, ND_CASE, ND_BREAK, ND_GOTO_IND, ND_LABEL, ND_LABEL_VAL}
=============================================================================
