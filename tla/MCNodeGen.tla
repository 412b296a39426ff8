------------------------------ MODULE MCNodeGen -----------------------------
(***************************************************************************)
(* All templates, with the eight allocatable registers of x86_64 and eight *)
(* of the twelve of ARM64.                                                 *)
(***************************************************************************)
EXTENDS FiniteSets, NodeGen, GenScalar, GenControl, GenArith, GenCall, GenAsm

AllTemplates == UNION {ScalarTemplates, ControlTemplates, ArithTemplates, CallTemplates, AsmTemplates}

MCOrder(arch) ==
  IF arch = "x86" THEN <<"r10", "r11", "rbx", "r12", "r13", "r14", "r15", "rsi">>
                  ELSE <<"x10", "x11", "x12", "x13", "x14", "x15", "x19", "x20">>

MCScratch(arch) ==
  IF arch = "x86" THEN {"r10", "r11"} ELSE {"x10", "x11", "x12", "x13", "x14", "x15"}

MCCallerSaved(arch) ==
  MCScratch(arch) \union
    IF arch = "x86" THEN {"rsi", "rax", "rcx", "rdx", "rdi", "xmm0", "logand", "atomic_old"}
                    ELSE {"x0", "x8", "x9", "x16", "x17", "d0"}

(* Registers a node takes, at most.                                        *)
Demand(t) == Cardinality({i \in DOMAIN t.ops : t.ops[i].op \in {"gen", "alloc"}})

(* The first k registers, as an expression without calls holds them, as    *)
(* far as the node finds enough others.                                    *)
FirstRegs(t) == {{MCOrder(t.arch)[i] : i \in 1 .. k} : k \in {j \in 0 .. 7 : j + Demand(t) <= 8}}

(* None, one or two of the first four registers.                           *)
AnyTwo(t) == {S \in SUBSET {MCOrder(t.arch)[i] : i \in 1 .. 4} : Cardinality(S) <= 2}

(* Nodes that break the contract wherever they stand: section 6 of the     *)
(* README says how.                                                        *)
Defective ==
  {"POST_INC bit-field", "overflow with result", "FUNCALL computed", "ATOMIC_FETCH_OP cmpxchg",
   "RETURN float as int", "cleanup in RETURN int", "cleanup in RETURN float",
   "cleanup in RETURN float as int", "cleanup in RETURN struct"}

(* Nodes that break it when the code around them holds certain registers.  *)
DefectiveWith(t, S) ==
  \/ t.node = "RETURN struct" /\ S \intersect {"r10", "x10"} # {}
  \/ t.node = "cleanup in BREAK" /\ S \intersect (MCScratch("x86") \union MCScratch("arm64")) # {}
  \/ /\ t.node = "ASSIGN struct from call" /\ t.arch = "x86"
     /\ ~(MCScratch("x86") \subseteq S) \/ Cardinality(S) = 7
  \/ t.node = "SUB pointers" /\ "r11" \in S
  \/ t.node = "memcmp" /\ Cardinality(S) = 5
  \/ t.node = "ZERO_INIT" /\ S \intersect {"x11", "x12"} # {}
  \/ t.node = "VA_ARG" /\ S \intersect {"x11", "x12"} # {}

MCOuterSets(t) ==
  {S \in FirstRegs(t) \union AnyTwo(t) : t.node \notin Defective /\ ~DefectiveWith(t, S)}
=============================================================================
