----------------------------- MODULE GenScalar ------------------------------
(***************************************************************************)
(* Templates of gen_addr(), of gen()'s loads and stores, of the bit-field  *)
(* accesses and of the conversions.  %rax, %rcx, x9 and x16 are the fixed  *)
(* registers a case uses between two instructions of its own.  %xmm0, d0   *)
(* and their like are written and read back by one group of instructions   *)
(* everywhere but in ND_RETURN, and appear only there.                     *)
(***************************************************************************)
EXTENDS GenOps

(* emit_load() through the destination register itself, "[r]": ARM64 takes *)
(* a temporary for the address.                                            *)
LoadThrough(r) == <<alloc("ta"), ins({r}, "ta"), ins({"ta"}, r), free("ta")>>

(* emit_store_offset(): a large frame offset is computed in a temporary.   *)
StoreOffset(r) ==
  {<<use({r})>>, <<alloc("ta"), ins({}, "ta"), use({r, "ta"}), free("ta")>>}

(* emit_load() of [x29, #-offset]: the same for a load.                    *)
LoadOffset(r) ==
  {<<ins({}, r)>>, <<alloc("tr"), ins({}, "tr"), ins({"tr"}, r), free("tr")>>}

-----------------------------------------------------------------------------
(* gen_addr()                                                              *)
AddrLVAR == both("addr LVAR", <<alloc("r"), ins({}, "r")>>, "r")

AddrMEMBER ==
  both("addr MEMBER", <<addr("r"), ins({"r"}, "r")>>, "r")
    \union arm("addr MEMBER far",
               <<addr("r"), alloc("ti"), ins({}, "ti"), ins({"r", "ti"}, "r"), free("ti")>>, "r")

AddrCOND ==
  both("addr COND",
       <<alloc("r"), gen("cond"), use({"cond"}), jcc("else"), free("cond"),
         addr("then_r"), ins({"then_r"}, "r"), free("then_r"), jmp("end"), label("else"),
         addr("else_r"), ins({"else_r"}, "r"), free("else_r"), label("end")>>, "r")

(* ND_CAST, ND_DEREF and ND_ASSIGN pass the child's address on.            *)
AddrThrough == both("addr CAST", <<addr("r")>>, "r")

AddrCOMMA == both("addr COMMA", <<gen("r1"), free("r1"), addr("r")>>, "r")

(* The statement before the last one and the last one, whose address is    *)
(* taken while its value is still held.                                    *)
AddrSTMT_EXPR ==
  both("addr STMT_EXPR",
       <<gen("s"), free("s"), gen("r"), addr("result"), free("r")>>, "result")

-----------------------------------------------------------------------------
ND_NUM == both("NUM", <<alloc("r"), ins({}, "r")>>, "r")

(* .LF%d is loaded through d0 or %xmm0.                                    *)
ND_FNUM ==
  x86("FNUM", <<alloc("r"), ins({}, "r")>>, "r")
    \union arm("FNUM", <<alloc("r"), ins({}, "r"), ins({"r"}, "r")>>, "r")

(* Arrays, functions, locals, floats: one register; a global scalar on     *)
(* ARM64 holds the address in a second one, on x86_64 in the same.         *)
ND_LVAR ==
  both("LVAR address", <<alloc("r"), ins({}, "r")>>, "r")
    \union both("LVAR through GOT", <<alloc("r"), ins({}, "r"), ins({"r"}, "r")>>, "r")
    \union arm("LVAR global",
               <<alloc("r"), alloc("ta"), ins({}, "ta"), ins({"ta"}, "r"), free("ta")>>, "r")
    \union UNION {arm("LVAR local", <<alloc("r")>> \o l, "r") : l \in LoadOffset("r")}

(* The loop that copies, or clears, bytes counts down in %rcx or x9.       *)
CopyX86(rd) ==
  <<ins({}, "rcx"), use({"rcx"}), jcc("end"), ins(rd \union {"rcx"}, "rax"),
    use({"rax", "rcx"} \union rd), ins({"rcx"}, "rcx"), label("end")>>
CopyArm(rd) ==
  <<ins({}, "x9"), use({"x9"}), jcc("end"), ins({"x9"}, "x9"), ins(rd \union {"x9"}, "x16"),
    use({"x16", "x9"} \union rd), label("end")>>
ClearX86(rd) ==
  <<ins({}, "rcx"), use({"rcx"}), jcc("clear"), use({"rcx"} \union rd),
    ins({"rcx"}, "rcx"), label("clear")>>
ClearArm(rd) ==
  <<ins({}, "x9"), ins({}, "x16"), use({"x9", "x16"}), jcc("clear"), ins({"x9"}, "x9"),
    use({"x9"} \union rd), label("clear")>>

(* ND_ASSIGN of a string literal to a char array.                          *)
AssignString ==
  UNION {x86("ASSIGN string", <<addr("dst"), gen("src")>> \o c \o <<free("src")>>, "dst")
           : c \in {CopyX86({"src", "dst"}), ClearX86({"dst"}),
                    CopyX86({"src", "dst"}) \o ClearX86({"dst"})}}
    \union
  UNION {arm("ASSIGN string", <<addr("dst"), gen("src")>> \o c \o <<free("src")>>, "dst")
           : c \in {CopyArm({"src", "dst"}), ClearArm({"dst"}),
                    CopyArm({"src", "dst"}) \o ClearArm({"dst"})}}

(* ND_ASSIGN of a struct, union or array: byte by byte, the size of a      *)
(* VLA struct in a third register; a scalar in a small union in one store. *)
AssignStruct ==
  both("ASSIGN struct by value", <<addr("dst"), gen("src"), use({"src", "dst"}), free("src")>>, "dst")
    \union x86("ASSIGN struct",
               <<addr("dst"), addr("src")>> \o CopyX86({"src", "dst"}) \o <<free("src")>>, "dst")
    \union arm("ASSIGN struct",
               <<addr("dst"), addr("src")>> \o CopyArm({"src", "dst"}) \o <<free("src")>>, "dst")
    \union x86("ASSIGN VLA struct",
               <<gen("dst"), addr("src"), gen("sz"), use({"sz"})>> \o CopyX86({"src", "dst"})
                  \o <<free("sz"), free("src")>>, "dst")
    \union arm("ASSIGN VLA struct",
               <<gen("dst"), addr("src"), gen("sz"), use({"sz"})>> \o CopyArm({"src", "dst"})
                  \o <<free("sz"), free("src")>>, "dst")

(* ND_ASSIGN of a float: the value first, then the address.                *)
AssignFloat ==
  both("ASSIGN float", <<gen("r2"), addr("r1"), use({"r2", "r1"}), free("r1")>>, "r2")
    \union x86("ASSIGN long double",
               <<gen("r2"), addr("r1"), use({"r2", "r1"}), free("r2"), free("r1"),
                 alloc("dummy"), ins({}, "dummy")>>, "dummy")

(* ND_ASSIGN of a scalar to a local, and to anything else.                 *)
AssignScalar ==
  UNION {arm("ASSIGN local", <<gen("r2")>> \o s \o m, "r2")
           : s \in StoreOffset("r2"), m \in opt(<<ins({"r2"}, "r2")>>)}
    \union UNION {x86("ASSIGN local", <<gen("r2"), use({"r2"})>> \o m, "r2")
                    : m \in opt(<<ins({"r2"}, "r2")>>)}
    \union both("ASSIGN", <<addr("r1"), gen("r2"), use({"r2", "r1"}), free("r1")>>, "r2")

(* Masking a bit-field value t with a constant held in fixed register f.   *)
Mask(t, f) == <<ins({}, f), ins({t, f}, t)>>

(* Reading the unit, clearing the field, inserting rv, storing it back.    *)
InsertField(f) ==
  <<ins({"ra"}, "rt")>> \o Mask("rt", f) \o <<alloc("rv"), ins({"r2"}, "rv")>> \o Mask("rv", f)
    \o <<ins({"rv", "rt"}, "rt"), use({"rt", "ra"})>>

(* The bits beyond the first 8 bytes of a packed unit.                     *)
InsertOverflow ==
  <<ins({"ra"}, "ra"), ins({"ra"}, "rt"), ins({"r2"}, "rv"), ins({"rv", "rt"}, "rt"),
    use({"rt", "ra"})>>

(* The stored field is loaded again as the value of the assignment.        *)
ReloadField(f) ==
  {<<ins({"ra"}, "rt")>> \o m \o <<free("r2"), free("ra")>>
     : m \in {Mask("rt", f), <<ins({"rt"}, "rt")>>}}

(* ND_ASSIGN of a bit-field: with the field also on the right-hand side,   *)
(* and without (the address is generated twice).                           *)
AssignBitfieldX86 ==
  UNION {x86("ASSIGN bit-field rhs reads",
             <<gen("r2"), addr("ra"), alloc("rt"), ins({"ra"}, "rt")>> \o Mask("rt", "rax")
                \o InsertField("rax") \o <<free("rv")>> \o r, "rt") : r \in ReloadField("rax")}
    \union
  UNION {x86("ASSIGN bit-field",
             <<gen("r2"), addr("rd"), free("rd"), addr("ra"), alloc("rt")>>
                \o InsertField("rax") \o o \o <<free("rv")>> \o r, "rt")
           : r \in ReloadField("rax"), o \in opt(InsertOverflow)}

AssignBitfieldArm ==
  UNION {arm("ASSIGN bit-field rhs reads",
             <<gen("r2"), addr("ra"), alloc("rt")>> \o InsertField("x16") \o <<free("rv")>> \o r, "rt")
           : r \in ReloadField("x16")}
    \union
  UNION {arm("ASSIGN bit-field",
             <<gen("r2"), addr("rd"), free("rd"), addr("ra"), alloc("rt")>>
                \o InsertField("x16") \o o \o <<free("rv")>> \o r, "rt")
           : r \in ReloadField("x16"), o \in opt(InsertOverflow)}

-----------------------------------------------------------------------------
(* ND_NEG and ND_NOT work in the operand's register; !float goes through   *)
(* %cl and %al on x86_64.                                                  *)
ND_NEG == both("NEG", <<gen("r"), ins({"r"}, "r")>>, "r")

ND_NOT ==
  both("NOT", <<gen("r"), ins({"r"}, "r")>>, "r")
    \union x86("NOT float",
               <<gen("r"), use({"r"}), ins({}, "rcx"), ins({}, "rax"), ins({"rcx", "rax"}, "rax"),
                 ins({"rax"}, "r")>>, "r")

(* ND_ZERO_INIT: ARM64 takes x11, and x12 for a large object, without      *)
(* asking the allocator.                                                   *)
ND_ZERO_INIT ==
  x86("ZERO_INIT", ClearX86({}), "none")
    \union arm("ZERO_INIT", <<ins({}, "x11")>> \o ClearArm({"x11"}), "none")

(* ND_POST_INC and ND_POST_DEC of a bit-field.  The four registers are     *)
(* released and r3 is returned all the same.                               *)
PostIncBitfieldOps(f) ==
  <<addr("r"), alloc("r2"), ins({"r"}, "r2"), alloc("r3"), ins({"r2"}, "r3")>> \o Mask("r3", f)
    \o Mask("r2", f) \o <<alloc("rn"), ins({"r3"}, "rn")>> \o Mask("rn", f)
    \o <<ins({"rn", "r2"}, "r2"), use({"r2", "r"}),
         free("rn"), free("r3"), free("r2"), free("r")>>

PostIncBitfield ==
  x86("POST_INC bit-field", PostIncBitfieldOps("rax"), "r3")
    \union arm("POST_INC bit-field", PostIncBitfieldOps("x16"), "r3")

ND_POST_INC ==
  x86("POST_INC", <<addr("r"), alloc("r2"), ins({"r"}, "r2"), use({"r", "r2"}), free("r")>>, "r2")
    \union arm("POST_INC",
               <<addr("r"), alloc("r2"), ins({"r"}, "r2"), alloc("r3"), ins({"r"}, "r3"),
                 ins({"r3"}, "r3"), use({"r3", "r"}), free("r3"), free("r")>>, "r2")

(* ND_MEMBER: an array's address, a value, a bit-field that crosses the    *)
(* eighth byte of its unit.                                                *)
ND_MEMBER ==
  both("MEMBER array", <<addr("r")>>, "r")
    \union both("MEMBER", <<addr("r"), ins({"r"}, "r")>>, "r")
    \union arm("MEMBER", <<addr("r")>> \o LoadThrough("r"), "r")

MemberBitfieldOps(f) ==
  {<<addr("r")>> \o o \o m :
     o \in {<<ins({"r"}, "r")>>,
            <<alloc("r_addr"), ins({"r"}, "r_addr"), ins({"r"}, "r"), alloc("tmp"),
              ins({"r_addr"}, "tmp"), ins({"tmp", "r"}, "r"), free("tmp"), free("r_addr")>>},
     m \in {Mask("r", f), <<ins({"r"}, "r")>>}}

MemberBitfield ==
  UNION {x86("MEMBER bit-field", o, "r") : o \in MemberBitfieldOps("rax")}
    \union UNION {arm("MEMBER bit-field", o, "r") : o \in MemberBitfieldOps("x16")}

ND_ADDR == both("ADDR", <<addr("r")>>, "r")

(* ND_CAST works in the operand's register; unsigned and saturating        *)
(* conversions take %rax and %rcx and branch.                              *)
CastFloatToInt ==
  both("CAST float to int", <<gen("r"), ins({"r"}, "r")>>, "r")
    \union x86("CAST float to unsigned",
               <<gen("r"), ins({}, "rax"), use({"r", "rax"}), jcc("ucast"), ins({"r"}, "r"),
                 ins({}, "rcx"), ins({"rcx", "r"}, "r"), jmp("ucast_end"), label("ucast"),
                 ins({"r"}, "r"), label("ucast_end")>>, "r")
    \union x86("CAST float to signed",
               <<gen("r"), ins({"r"}, "r"), use({"r"}), jcc("sat_end"), jcc("sat_end"),
                 ins({}, "r"), label("sat_end")>>, "r")

CastIntToFloat ==
  both("CAST int to float", <<gen("r"), ins({"r"}, "r")>>, "r")
    \union x86("CAST unsigned long to float",
               <<gen("r"), use({"r"}), jcc("high"), use({"r"}), jmp("end"), label("high"),
                 ins({"r"}, "rcx"), ins({"rcx"}, "rcx"), use({"rcx"}), label("end"),
                 ins({}, "r")>>, "r")

(* A cast that changes the width, and one that changes nothing.            *)
CastWidth ==
  both("CAST", <<gen("r")>>, "r") \union both("CAST width", <<gen("r"), ins({"r"}, "r")>>, "r")

ND_BITNOT == both("BITNOT", <<gen("r"), ins({"r"}, "r")>>, "r")

ND_STR == both("STR", <<alloc("r"), ins({}, "r")>>, "r")

ND_DEREF ==
  both("DEREF array", <<gen("r")>>, "r")
    \union both("DEREF", <<gen("r"), ins({"r"}, "r")>>, "r")
    \union arm("DEREF", <<gen("r")>> \o LoadThrough("r"), "r")

ScalarTemplates ==
  UNION {AddrLVAR, AddrMEMBER, AddrCOND, AddrThrough, AddrCOMMA, AddrSTMT_EXPR,
         ND_NUM, ND_FNUM, ND_LVAR, AssignString, AssignStruct, AssignFloat, AssignScalar,
         AssignBitfieldX86, AssignBitfieldArm, ND_NEG, ND_NOT, ND_ZERO_INIT, PostIncBitfield,
         ND_POST_INC, ND_MEMBER, MemberBitfield, ND_ADDR, CastFloatToInt, CastIntToFloat,
         CastWidth, ND_BITNOT, ND_STR, ND_DEREF}
=============================================================================
