------------------------------ MODULE GenArith ------------------------------
(***************************************************************************)
(* Templates of gen()'s binary operators, atomic operations and va_list    *)
(* operations.  A loop that repeats an atomic operation is walked once;    *)
(* module Atomics is about its repetition.                                 *)
(***************************************************************************)
EXTENDS GenOps

(* ND_VA_START fills the va_list through one address register.             *)
ND_VA_START ==
  x86("VA_START", <<gen("r"), use({"r"}), ins({}, "rdx"), use({"rdx", "r"}), free("r")>>, "none")
    \union arm("VA_START", <<gen("r"), ins({}, "x16"), use({"x16", "r"}), free("r")>>, "none")

(* ND_VA_COPY: x86_64 keeps the destination on the stack meanwhile.        *)
ND_VA_COPY ==
  x86("VA_COPY",
      <<gen("rd"), push("rd"), free("rd"), gen("rs"), alloc("rpop"), popAs("rpop", "rd"),
        ins({"rs"}, "rcx"), use({"rcx", "rpop"}), free("rs"), free("rpop")>>, "none")
    \union arm("VA_COPY",
      <<gen("rd"), gen("rs"), ins({"rs"}, "x16"), use({"x16", "rd"}), free("rd"), free("rs")>>, "none")

(* ND_VA_ARG: from the register save area or from the overflow area, the   *)
(* value's address in %rcx or x12.                                         *)
ND_VA_ARG ==
  x86("VA_ARG",
      <<gen("r"), use({"r"}), jcc("va_overflow"), ins({"r"}, "rcx"), ins({"rcx", "r"}, "rcx"),
        use({"r"}), jmp("va_done"), label("va_overflow"), ins({"r"}, "rcx"), ins({"rcx"}, "rdx"),
        use({"rdx", "r"}), ins({"rcx"}, "rcx"), label("va_done"), ins({"rcx"}, "r")>>, "r")
    \union arm("VA_ARG",
      <<gen("r"), ins({"r"}, "x16"), use({"x16"}), jcc("va_overflow"), ins({"r"}, "x12"),
        ins({"x16"}, "x17"), ins({"x12", "x17"}, "x12"), ins({"x16"}, "x16"), use({"x16", "r"}),
        jmp("va_done"), label("va_overflow"), ins({"r"}, "x12"), ins({"x12"}, "x16"),
        use({"x16", "r"}), label("va_done"), ins({"x12"}, "r")>>, "r")

-----------------------------------------------------------------------------
ND_ATOMIC_LOAD ==
  both("ATOMIC_LOAD", <<gen("r_addr"), alloc("r"), ins({"r_addr"}, "r"), free("r_addr")>>, "r")

ND_ATOMIC_STORE ==
  both("ATOMIC_STORE",
       <<gen("r_addr"), gen("r_val"), use({"r_val", "r_addr"}), free("r_val"), free("r_addr")>>,
       "none")

ND_ATOMIC_EXCHANGE ==
  x86("ATOMIC_EXCHANGE",
      <<gen("r_addr"), gen("r_val"), alloc("r_result"),
        ins({"r_val", "r_addr"}, "r_val"), ins({"r_val"}, "r_result"), free("r_val"), free("r_addr")>>, "r_result")
    \union arm("ATOMIC_EXCHANGE",
      <<gen("r_addr"), gen("r_val"), alloc("r_result"), ins({"r_addr"}, "r_result"),
        ins({"r_val", "r_addr"}, "x9"), use({"x9"}), free("r_val"), free("r_addr")>>, "r_result")

ND_ATOMIC_CAS ==
  x86("ATOMIC_CAS",
      <<gen("r_addr"), gen("r_expectedaddr"), gen("r_desired"), alloc("r_result"),
        alloc("r_expected"), ins({"r_expectedaddr"}, "rax"),
        ins({"rax", "r_desired", "r_addr"}, "rax"), ins({}, "r_result"),
        use({"rax", "r_expectedaddr"}), ins({"r_result"}, "r_result"), free("r_expected"),
        free("r_desired"), free("r_expectedaddr"), free("r_addr")>>, "r_result")
    \union arm("ATOMIC_CAS",
      <<gen("r_addr"), gen("r_expectedaddr"), gen("r_desired"), alloc("r_result"),
        alloc("r_expected"), alloc("r_old"), ins({"r_expectedaddr"}, "r_expected"),
        ins({"r_addr"}, "r_old"), use({"r_old", "r_expected"}), jcc("fail"),
        ins({"r_desired", "r_addr"}, "x9"), use({"x9"}), ins({}, "r_result"), jmp("done"),
        label("fail"), use({"r_old", "r_expectedaddr"}), ins({}, "r_result"), label("done"),
        free("r_old"), free("r_expected"), free("r_desired"), free("r_expectedaddr"),
        free("r_addr")>>, "r_result")

ND_ATOMIC_FENCE == both("ATOMIC_FENCE", <<use({})>>, "none")

(* ND_ATOMIC_FETCH_OP: x86_64 adds with xadd and does the other operations *)
(* with cmpxchg, which reads %rax and writes it, although no instruction   *)
(* of the case loads it; the operand is in the slot spill_logand.  ARM64   *)
(* keeps the operand in x9 and the old value in the slot of a register it  *)
(* has just freed.                                                         *)
FetchAdd ==
  UNION {x86("ATOMIC_FETCH_OP add",
             <<gen("r_addr"), gen("r_val"), alloc("r_old")>> \o n
               \o <<ins({"r_val"}, "logand"), ins({"r_val"}, "r_old"), free("r_val"),
                    ins({"r_old", "r_addr"}, "r_old"), free("r_addr")>> \o a, "r_old")
           : n \in opt(<<ins({"r_val"}, "r_val")>>), a \in opt(<<ins({"r_old", "logand"}, "r_old")>>)}

FetchOther ==
  UNION {x86("ATOMIC_FETCH_OP cmpxchg",
             <<gen("r_addr"), gen("r_val"), alloc("r_old"), ins({"r_val"}, "logand"),
               free("r_val"), alloc("r_new"), ins({"r_addr"}, "r_old"),
               ins({"r_old"}, "atomic_old"), ins({"r_old"}, "r_new"), ins({"r_new", "logand"}, "r_new"),
               ins({"rax", "r_new", "r_addr"}, "rax"), free("r_addr")>> \o e[1], e[2])
           : e \in {<<<<free("r_old"), ins({"r_new"}, "r_new")>>, "r_new">>,
                    <<<<free("r_new"), ins({"r_old"}, "r_old")>>, "r_old">>}}

FetchArm ==
  arm("ATOMIC_FETCH_OP",
      <<gen("r_addr"), gen("r_val"), ins({"r_val"}, "x9"), free("r_val"), alloc("old"),
        free("old"), alloc("r_tmp"), ins({"r_addr"}, "r_tmp"), use({"r_tmp"}),
        ins({"r_tmp", "x9"}, "r_tmp"), ins({"r_tmp", "r_addr"}, "x8"), use({"x8"}),
        ins({}, "r_tmp"), free("r_addr")>>, "r_tmp")

-----------------------------------------------------------------------------
(* The operators from here on begin with int r_lhs = gen(node->lhs).       *)
rhs(ops) == <<gen("r_lhs"), gen("r_rhs")>> \o ops \o <<free("r_rhs")>>
Binary == <<ins({"r_rhs", "r_lhs"}, "r_lhs")>>

(* x86_64 frees the right operand twice.                                   *)
FloatBinary ==
  arm("float op", rhs(Binary), "r_lhs")
    \union x86("float op", rhs(<<use({"r_lhs", "r_rhs"}), free("r_rhs"), ins({}, "r_lhs")>>), "r_lhs")

FloatCompare ==
  arm("float compare", rhs(Binary), "r_lhs")
    \union UNION {x86("float compare",
                      rhs(<<use({"r_lhs", "r_rhs"}), ins({}, "rax")>> \o p
                            \o <<ins({"rax"}, "r_lhs")>>), "r_lhs")
                    : p \in opt(<<ins({}, "rcx"), ins({"rcx", "rax"}, "rax")>>)}

DivMod ==
  UNION {x86("DIV", rhs(<<ins({"r_lhs"}, "rax"), ins({"rax"}, "rdx"), use({"rax", "rdx", "r_rhs"}),
                          ins({}, "rax"), ins({}, "rdx"), ins({q}, "r_lhs")>>), "r_lhs")
           : q \in {"rax", "rdx"}}
    \union arm("DIV", rhs(Binary), "r_lhs")
    \union arm("MOD", rhs(<<alloc("tmp"), ins({"r_lhs", "r_rhs"}, "tmp"),
                            ins({"tmp", "r_rhs"}, "tmp"), ins({"r_lhs", "tmp"}, "r_lhs"),
                            free("tmp")>>), "r_lhs")

Shift ==
  both("SHL constant", <<gen("r_lhs"), ins({"r_lhs"}, "r_lhs")>>, "r_lhs")
    \union x86("SHL", rhs(<<ins({"r_rhs"}, "rcx"), ins({"rcx", "r_lhs"}, "r_lhs")>>), "r_lhs")
    \union arm("SHL", rhs(Binary), "r_lhs")

(* The tail of the arithmetic operators: a comparison's outcome, or the    *)
(* mask of a wide bit-field.                                               *)
TailX86 == {<<>>, <<ins({}, "rax"), ins({"rax"}, "r_lhs")>>, <<ins({}, "rax"), ins({"rax", "r_lhs"}, "r_lhs")>>}
TailArm == {<<>>, <<ins({}, "r_lhs")>>, <<ins({}, "x16"), ins({"x16", "r_lhs"}, "r_lhs")>>}

(* A constant right operand: folded away, an immediate, or in a temporary. *)
ArithImmediate ==
  UNION {x86("op immediate", <<gen("r_lhs")>> \o i \o t, "r_lhs")
           : i \in opt(<<ins({"r_lhs"}, "r_lhs")>>), t \in TailX86}
    \union
  UNION {arm("op immediate", <<gen("r_lhs")>> \o i \o t, "r_lhs")
           : i \in {<<>>, <<ins({"r_lhs"}, "r_lhs")>>,
                    <<alloc("tmp"), ins({}, "tmp"), ins({"r_lhs", "tmp"}, "r_lhs"), free("tmp")>>,
                    <<ins({}, "x16"), use({"r_lhs", "x16"})>>},
             t \in TailArm}

Arith ==
  UNION {x86("op", rhs(e \o Binary \o s) \o t, "r_lhs")
           : e \in opt(<<ins({"r_rhs"}, "r_rhs")>>), s \in opt(<<ins({"r_lhs"}, "r_lhs")>>),
             t \in TailX86}
    \union
  UNION {arm("op", rhs(e \o Binary \o s) \o t, "r_lhs")
           : e \in opt(<<ins({"r_rhs"}, "r_rhs")>>),
             s \in {<<>>, <<ins({"r_lhs"}, "r_lhs")>>,
                    <<alloc("tmp"), ins({}, "tmp"), ins({"r_lhs", "tmp"}, "r_lhs"), free("tmp")>>},
             t \in TailArm}

(* p - q, the size no power of two: x86_64 divides by %r11, whoever has it.*)
PointerDifference ==
  x86("SUB pointers",
      rhs(Binary \o <<ins({"r_lhs"}, "rax"), ins({"rax"}, "rdx"), ins({}, "r11"),
                      use({"rax", "rdx", "r11"}), ins({}, "rax"), ins({"rax"}, "r_lhs")>>), "r_lhs")

ArithTemplates ==
  UNION {ND_VA_START, ND_VA_COPY, ND_VA_ARG, ND_ATOMIC_LOAD, ND_ATOMIC_STORE, ND_ATOMIC_EXCHANGE,
         ND_ATOMIC_CAS, ND_ATOMIC_FENCE, FetchAdd, FetchOther, FetchArm, FloatBinary,
         FloatCompare, DivMod, Shift, ArithImmediate, Arith, PointerDifference}
=============================================================================
