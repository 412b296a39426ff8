------------------------------ MODULE GenCall -------------------------------
(***************************************************************************)
(* Templates of gen_funcall(): the calls of the System V and AAPCS64       *)
(* conventions, and the builtins that are expanded in line.                *)
(***************************************************************************)
EXTENDS GenOps

(* One operand, one or two temporaries: __builtin_bswap*, _clz*, _ctz*,    *)
(* _popcount*, _parity*, _clrsb*, _ffs*.                                   *)
Bswap == both("bswap", <<gen("r"), ins({"r"}, "r")>>, "r")

CountZeros ==
  both("clz", <<gen("r"), alloc("r2"), ins({"r"}, "r2"), free("r")>>, "r2")
    \union arm("ctz", <<gen("r"), alloc("r2"), ins({"r"}, "r"), ins({"r"}, "r2"), free("r")>>, "r2")

Popcount == both("popcount", <<gen("r"), alloc("r2"), ins({"r"}, "r2"), ins({"r2"}, "r2"), free("r")>>, "r2")

Clrsb ==
  arm("clrsb", <<gen("r"), alloc("r2"), ins({"r"}, "r2"), free("r")>>, "r2")
    \union x86("clrsb", <<gen("r"), alloc("r2"), alloc("r3"), ins({"r"}, "r3"), ins({"r", "r3"}, "r"),
                          ins({"r"}, "r2"), free("r3"), free("r")>>, "r2")

Ffs ==
  both("ffs", <<gen("r"), alloc("r2"), alloc("r3"), ins({}, "r2"), ins({"r"}, "r3"),
                ins({"r", "r3"}, "r2"), free("r3"), free("r")>>, "r2")

(* __builtin_prefetch evaluates its other arguments for their effects.     *)
Prefetch ==
  UNION {both("prefetch", <<gen("r"), use({"r"}), free("r")>> \o a, "none")
           : a \in opt(<<gen("ar"), free("ar")>>)}

Signbit ==
  both("signbit", <<gen("r_arg"), alloc("r"), ins({"r_arg"}, "r"), free("r_arg")>>, "r")

Abs ==
  arm("abs", <<gen("r"), ins({"r"}, "r")>>, "r")
    \union x86("abs", <<gen("r"), alloc("r2"), ins({"r"}, "r2"), ins({"r", "r2"}, "r"), free("r2")>>, "r")

FrameAddress == both("frame_address", <<alloc("r"), ins({}, "r"), ins({"r"}, "r")>>, "r")

(* __builtin_setjmp: %rax or x0 is 0, or what longjmp put there.           *)
Setjmp ==
  x86("setjmp", <<gen("rbuf"), alloc("r"), ins({}, "r"), use({"r", "rbuf"}), ins({}, "rax"),
                  ins({"rax"}, "r"), free("rbuf")>>, "r")
    \union arm("setjmp", <<gen("rbuf"), alloc("r"), ins({}, "x16"), use({"x16", "rbuf"}),
                           ins({}, "x0"), ins({"x0"}, "r"), free("rbuf")>>, "r")

Longjmp ==
  x86("longjmp", <<gen("rbuf"), gen("rval"), alloc("rtmp"), ins({"rbuf"}, "rtmp"),
                   ins({"rval"}, "rax"), use({"rbuf", "rtmp", "rax"}), free("rtmp"),
                   free("rbuf"), free("rval")>>, "none")
    \union arm("longjmp", <<gen("rbuf"), gen("rval"), ins({"rbuf"}, "x16"), use({"x16"}),
                            ins({"rbuf"}, "x16"), ins({"rval"}, "x0"), use({"x16", "x0"}),
                            free("rbuf"), free("rval")>>, "none")

(* __builtin_{add,sub,mul}_overflow: x86_64 keeps the flag in %al while    *)
(* the result's address is computed, ARM64 in a register.                  *)
OverflowArm ==
  UNION {arm("overflow", <<gen("ra"), gen("rb"), alloc("r_result")>> \o c \o s
                           \o <<free("ra"), free("rb")>>, "r_result")
           : c \in {<<ins({"ra", "rb"}, "ra"), ins({}, "r_result")>>,
                    <<alloc("r2"), ins({"ra", "rb"}, "r2"), ins({"ra", "rb"}, "ra"),
                      use({"r2"}), ins({}, "r_result"), free("r2")>>,
                    <<alloc("r2"), alloc("r3"), ins({"ra", "rb"}, "r2"), ins({"ra", "rb"}, "ra"),
                      ins({"ra"}, "r3"), use({"r2", "r3"}), ins({}, "r_result"), free("r3"),
                      free("r2")>>},
             s \in opt(<<addr("rr"), use({"ra", "rr"}), free("rr")>>)}

OverflowCompute ==
  {<<ins({"ra", "rb"}, "rb"), ins({}, "rax")>>,
   <<ins({"ra", "rb"}, "ra"), ins({}, "rax")>>,
   <<alloc("r2"), ins({"ra"}, "rax"), ins({"rax", "rb"}, "rax"), ins({}, "rdx"),
     ins({"rax"}, "ra"), ins({"rdx"}, "r2"), use({"r2"}), ins({}, "rax"), free("r2")>>}

OverflowX86 ==
  UNION {x86("overflow", <<gen("ra"), gen("rb")>> \o c
               \o <<alloc("r_result"), ins({"rax"}, "r_result"), free("ra"), free("rb")>>, "r_result")
           : c \in OverflowCompute}

OverflowX86Store ==
  UNION {x86("overflow with result", <<gen("ra"), gen("rb")>> \o c
               \o <<addr("rr"), use({"ra", "rr"}), free("rr"),
                    alloc("r_result"), ins({"rax"}, "r_result"), free("ra"), free("rb")>>, "r_result")
           : c \in OverflowCompute}

-----------------------------------------------------------------------------
(* The string functions x86_64 expands: %rdi, %rsi and %rcx are pushed,    *)
(* loaded from the operands one after the other, and popped.  The loops    *)
(* are walked once.                                                        *)
Memset ==
  x86("memset",
      <<alloc("r"), gen("dst_r"), gen("v2_r"), gen("len_r"), ins({"dst_r"}, "r"),
        push("rdi"), push("rcx"), ins({"dst_r"}, "rdi"), ins({"len_r"}, "rcx"),
        ins({"v2_r"}, "rax"), use({"rax", "rcx", "rdi"}), pop("rcx"), pop("rdi"),
        free("dst_r"), free("v2_r"), free("len_r")>>, "r")

Memcpy ==
  x86("memcpy",
      <<alloc("r"), gen("dst_r"), gen("v2_r"), gen("len_r"), ins({"dst_r"}, "r"),
        push("rdi"), push("rsi"), push("rcx"), ins({"dst_r"}, "rdi"), ins({"len_r"}, "rcx"),
        ins({"v2_r"}, "rsi"), use({"rsi", "rcx", "rdi"}), pop("rcx"), pop("rsi"), pop("rdi"),
        free("dst_r"), free("v2_r"), free("len_r")>>, "r")

(* memcmp loads %rsi before it reads the length.                           *)
Memcmp ==
  x86("memcmp",
      <<gen("s1_r"), gen("s2_r"), gen("len_r"), push("rdi"), push("rsi"), push("rcx"),
        ins({"s1_r"}, "rdi"), ins({"s2_r"}, "rsi"), ins({"len_r"}, "rcx"),
        use({"rdi", "rsi", "rcx"}), jcc("memcmp_diff"), ins({}, "rax"), jmp("memcmp_end"),
        label("memcmp_diff"), ins({"rdi"}, "rax"), ins({"rsi"}, "rcx"), ins({"rcx", "rax"}, "rax"),
        label("memcmp_end"), pop("rcx"), pop("rsi"), pop("rdi"), free("s1_r"), free("s2_r"),
        free("len_r"), alloc("r"), ins({"rax"}, "r")>>, "r")

Strlen ==
  x86("strlen",
      <<gen("str_r"), push("rdi"), push("rcx"), ins({"str_r"}, "rdi"), ins({}, "rax"),
        ins({}, "rcx"), ins({"rdi", "rax", "rcx"}, "rcx"), ins({"rcx"}, "rax"), pop("rcx"),
        pop("rdi"), free("str_r"), alloc("r"), ins({"rax"}, "r")>>, "r")

Strcmp ==
  x86("strcmp",
      <<gen("r1"), gen("r2"), push("rdi"), push("rsi"), ins({"r1"}, "rdi"), ins({"r2"}, "rsi"),
        ins({"rdi"}, "rax"), use({"rsi", "rax"}), jcc("strcmp_diff"), jmp("strcmp_eq"),
        label("strcmp_diff"), ins({"rsi"}, "rcx"), ins({"rcx", "rax"}, "rax"), jmp("strcmp_end"),
        label("strcmp_eq"), ins({}, "rax"), label("strcmp_end"), pop("rsi"), pop("rdi"),
        free("r1"), free("r2"), alloc("ret"), ins({"rax"}, "ret")>>, "ret")

Strchr ==
  x86("strchr",
      <<gen("sr"), gen("cr"), push("rdi"), push("rcx"), ins({"sr"}, "rdi"), ins({"cr"}, "rax"),
        use({"rax", "rdi"}), jcc("strchr_found"), use({"rdi"}), jmp("strchr_null"),
        label("strchr_found"), ins({"rdi"}, "rax"), jmp("strchr_end"), label("strchr_null"),
        ins({}, "rax"), label("strchr_end"), pop("rcx"), pop("rdi"), free("sr"), free("cr"),
        alloc("ret"), ins({"rax"}, "ret")>>, "ret")

(* ARM64 moves the stack pointer itself; the register it returns is its    *)
(* operand's.                                                              *)
AllocaArm == arm("alloca", <<gen("ra"), ins({"ra"}, "ra"), use({"ra"}), ins({}, "ra")>>, "ra")

-----------------------------------------------------------------------------
(* The arguments that go in registers, in order, and where: arg_gp_idx and *)
(* arg_fp_idx.  With a hidden buffer the first integer register is taken.  *)
ArgsX86(hidden) ==
  {<<>>, <<<<"a1", "xmm0">>>>}
    \union (IF hidden THEN {<<<<"a1", "rsi">>, <<"a2", "rdx">>>>}
                      ELSE {<<<<"a1", "rdi">>, <<"a2", "rsi">>>>, <<<<"a1", "xmm0">>, <<"a2", "rdi">>>>})
ArgsArm == {<<>>, <<<<"a1", "x0">>>>, <<<<"a1", "d0">>, <<"a2", "x0">>>>}

Evaluate(args) == [i \in DOMAIN args |-> gen(args[i][1])]
Placed(args) == {args[i][2] : i \in DOMAIN args}

(* Arguments on the stack are evaluated after the stack pointer moved.     *)
StackArgs == {<<<<>>, <<>>>>, <<<<stack(2), gen("s"), use({"s"}), free("s")>>, <<stack(-2)>>>>}

(* The x86_64 call: saved_scratch first, the callee's address if it is     *)
(* computed, the arguments, then the call and the reloads.                 *)
CallX86(keep, hidden, callee, args, stk) ==
  <<save(keep)>> \o (IF callee = "none" THEN <<>> ELSE <<gen(callee)>>)
    \o Evaluate(args) \o stk[1]
    \o (IF hidden = "temp_ret" THEN <<alloc("temp_ret"), ins({}, "temp_ret")>> ELSE <<>>)
    \o (IF hidden = "none" THEN <<>> ELSE <<ins({hidden}, "rdi")>>)
    \o <<place(args), ins({}, "rax"),
         call(Placed(args) \union {"rax"} \union ({callee} \ {"none"})
                \union (IF hidden = "none" THEN {} ELSE {"rdi"}), "rax")>>
    \o (IF callee = "none" THEN <<>> ELSE <<free(callee)>>) \o stk[2] \o <<restore>>

FuncallX86 ==
  UNION {x86("FUNCALL", CallX86("none", "none", callee, args, stk) \o <<alloc("r"), ins({"rax"}, "r")>>, "r")
           : callee \in {"none", "callee"}, args \in ArgsX86(FALSE), stk \in StackArgs}

(* A struct is returned in a buffer of the frame, whose address is loaded  *)
(* again after the call ...                                                *)
FuncallStructX86 ==
  UNION {x86("FUNCALL struct",
             CallX86("none", "temp_ret", callee, args, stk) \o <<ins({}, "temp_ret")>>, "temp_ret")
           : callee \in {"none", "callee"}, args \in ArgsX86(TRUE), stk \in StackArgs}

(* ... or, in an assignment, in its left side, whose address is not.       *)
AssignCallX86 ==
  UNION {x86("ASSIGN struct from call",
             <<addr("dst")>> \o CallX86("dst", "dst", "none", args, stk), "dst")
           : args \in ArgsX86(TRUE), stk \in StackArgs}

(* The ARM64 call: the arguments, then a block for the registers in use    *)
(* and the stack arguments; the callee's address comes last.               *)
CallArm(hidden, callee, args, stk) ==
  Evaluate(args) \o <<save("none")>> \o stk[1]
    \o (IF hidden = "temp_ret" THEN <<alloc("temp_ret"), ins({}, "temp_ret")>> ELSE <<>>)
    \o (IF hidden = "none" THEN <<>> ELSE <<ins({hidden}, "x8")>>)
    \o <<place(args)>> \o callee
    \o <<call(Placed(args) \union (IF callee = <<>> THEN {} ELSE {"callee"})
                \union (IF hidden = "none" THEN {} ELSE {"x8"}), "x0")>>
    \o (IF callee = <<>> THEN <<>> ELSE <<free("callee")>>) \o <<restore>> \o stk[2]

(* A callee that is called by name, or read from a variable.               *)
SimpleCallee == {<<>>, <<alloc("callee"), ins({}, "callee")>>}

FuncallArm ==
  UNION {arm("FUNCALL", CallArm("none", callee, args, stk) \o <<alloc("r"), ins({"x0"}, "r")>>, "r")
           : callee \in SimpleCallee, args \in ArgsArm, stk \in StackArgs}

FuncallStructArm ==
  UNION {arm("FUNCALL struct",
             CallArm("temp_ret", callee, args, stk) \o <<ins({}, "temp_ret")>>, "temp_ret")
           : callee \in SimpleCallee, args \in ArgsArm, stk \in StackArgs}

AssignCallArm ==
  UNION {arm("ASSIGN struct from call",
             <<addr("dst")>> \o CallArm("dst", <<>>, args, stk), "dst")
           : args \in ArgsArm, stk \in StackArgs}

(* A callee that is any expression is evaluated after the arguments have   *)
(* been placed.                                                            *)
ComputedCalleeArm ==
  UNION {arm("FUNCALL computed",
             CallArm("none", <<gen("callee")>>, args, <<<<>>, <<>>>>)
               \o <<alloc("r"), ins({"x0"}, "r")>>, "r") : args \in ArgsArm \ {<<>>}}

CallTemplates ==
  UNION {Bswap, CountZeros, Popcount, Clrsb, Ffs, Prefetch, Signbit, Abs, FrameAddress, Setjmp,
         Longjmp, OverflowArm, OverflowX86, OverflowX86Store, Memset, Memcpy, Memcmp, Strlen,
         Strcmp, Strchr, AllocaArm, FuncallX86, FuncallStructX86, AssignCallX86, FuncallArm,
         FuncallStructArm, AssignCallArm, ComputedCalleeArm}
=============================================================================
