------------------------------- MODULE GenAsm -------------------------------
(***************************************************************************)
(* Templates of inline assembly, ND_ASM, with two operands.  Operand i has *)
(* a value register v (op_regs[i]) and, when it is an output, an address   *)
(* register a (op_addr[i]).  The text of the statement is opaque: it reads *)
(* its inputs and writes its outputs.                                      *)
(***************************************************************************)
EXTENDS GenOps

(* First pass, x86_64: "m", "=r", "+r", "r"; a digit waits.                *)
OperandX86(k, v, a) ==
  CASE k = "mem"   -> <<addr(v)>>
    [] k = "out"   -> <<addr(a), alloc(v)>>
    [] k = "rw"    -> <<addr(a), alloc(v), ins({a}, v)>>
    [] k = "match" -> <<>>
    [] k = "in"    -> <<gen(v)>>

(* First pass, ARM64: also floating outputs, which the statement leaves in *)
(* d0, and constants, which need no register.                              *)
OperandArm(k, v, a) ==
  CASE k = "mem"   -> <<addr(v)>>
    [] k = "fpout" -> <<addr(a)>>
    [] k = "imm"   -> <<>>
    [] k = "out"   -> <<addr(a), alloc(v)>>
    [] k = "rw"    -> <<addr(a), alloc(v), ins({a}, v)>>
    [] k = "match" -> <<>>
    [] k = "in"    -> <<gen(v)>>

(* Second pass: a matching input is moved to the register of its output    *)
(* and shares it.                                                          *)
MatchArm(k) ==
  IF k = "match" THEN <<gen("r_in"), ins({"r_in"}, "v1"), free("r_in"), alias("v2", "v1")>> ELSE <<>>
MatchX86(k) ==
  IF k = "match" THEN <<gen("r_in"), ins({"r_in"}, "v1"), free("r_in"), alias("v2", "v1")>> ELSE <<>>

HasValue(k) == k \notin {"fpout", "imm"}
HasAddress(k) == k \in {"fpout", "out", "rw"}
Reads(k, v) == IF k \in {"mem", "in", "rw", "match"} THEN {v} ELSE {}

(* The statement, with its operands substituted into the text.  Operand 1  *)
(* shares its register with a matching operand 2.                          *)
TextArm(k1, k2) ==
  <<use((IF k2 = "match" THEN {} ELSE Reads(k1, "v1")) \union Reads(k2, "v2"))>>
    \o (IF k2 \in {"out", "rw"} THEN <<ins({}, "v2")>> ELSE <<>>)
    \o (IF k1 \in {"out", "rw"} THEN <<ins({}, "v1")>> ELSE <<>>)
    \o (IF "fpout" \in {k1, k2} THEN <<ins({}, "d0")>> ELSE <<>>)
TextX86(k1, k2) ==
  <<use((IF k2 = "match" THEN {} ELSE Reads(k1, "v1")) \union Reads(k2, "v2"))>>
    \o (IF k2 \in {"out", "rw"} THEN <<ins({}, "v2")>> ELSE <<>>)
    \o (IF k1 \in {"out", "rw"} THEN <<ins({}, "v1")>> ELSE <<>>)

(* Outputs are stored back; then all value and all address registers are   *)
(* released, a shared one twice.                                           *)
StoreBack(k, v, a) ==
  IF k = "fpout" THEN <<use({"d0", a})>> ELSE IF HasAddress(k) THEN <<use({v, a})>> ELSE <<>>
FreeValue(k, v) == IF HasValue(k) THEN <<free(v)>> ELSE <<>>
FreeAddress(k, a) == IF HasAddress(k) THEN <<free(a)>> ELSE <<>>

StoreAndFree(k1, k2) ==
  StoreBack(k1, "v1", "a1") \o StoreBack(k2, "v2", "a2")
    \o FreeValue(k1, "v1") \o FreeValue(k2, "v2") \o FreeAddress(k1, "a1") \o FreeAddress(k2, "a2")

(* A digit refers to an output.                                            *)
Pairs(kinds) ==
  {p \in (kinds \ {"match"}) \X kinds : p[2] = "match" => p[1] \in {"out", "rw"}}

AsmX86 ==
  UNION {x86("ASM", OperandX86(p[1], "v1", "a1") \o OperandX86(p[2], "v2", "a2")
               \o MatchX86(p[2]) \o TextX86(p[1], p[2]) \o StoreAndFree(p[1], p[2]), "none")
           : p \in Pairs({"mem", "out", "rw", "in", "match"})}

AsmArm ==
  UNION {arm("ASM", OperandArm(p[1], "v1", "a1") \o OperandArm(p[2], "v2", "a2")
               \o MatchArm(p[2]) \o TextArm(p[1], p[2]) \o StoreAndFree(p[1], p[2]), "none")
           : p \in Pairs({"mem", "fpout", "imm", "out", "rw", "in", "match"})}

AsmTemplates == AsmX86 \union AsmArm
=============================================================================
