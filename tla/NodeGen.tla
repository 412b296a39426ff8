------------------------------ MODULE NodeGen -------------------------------
(***************************************************************************)
(* The code gen() and gen_addr() emit for one AST node, for every kind of  *)
(* node, on x86_64 and on ARM64.                                           *)
(*                                                                         *)
(* A node's case in gen() is a straight sequence of calls: gen() of a      *)
(* child, alloc_reg(), instructions, free_reg().  A template (module       *)
(* GenOps) is that sequence, for one path through the case's tests of the  *)
(* types.  The machine below walks over a template as gen() does and, at   *)
(* the same time, runs the instructions it emits:                          *)
(*   - used and reg are the compiler's (used_regs and the int variables    *)
(*     that hold register numbers); they follow the order of emission,     *)
(*     whatever jumps the code contains;                                   *)
(*   - val, slot and stk are the machine's (which value each register,     *)
(*     each save slot and each word on the stack holds).  A jump that is   *)
(*     taken makes them skip to its label while the compiler goes on.      *)
(*                                                                         *)
(* A child is one step that does what gen() promises its callers: a fresh  *)
(* register with the child's value, everything in use kept, everything     *)
(* else overwritten.  The properties say that every node keeps the same    *)
(* promise, so that by induction on the tree every expression does.        *)
(***************************************************************************)
EXTENDS Integers, SequencesExt

CONSTANTS
  Library,      \* the templates
  Order(_),     \* Order(arch): reg64[], the allocatable registers
  Scratch(_),   \* Scratch(arch): those a call saves if they are in use
  CallerSaved(_), \* Scratch(arch) and the fixed registers a callee may change
  OuterSets(_)  \* the registers the code around a node may hold: sets of registers

VARIABLES
  tmpl,         \* the node being generated
  outer,        \* registers in use when gen() was called
  pc,           \* next element of tmpl.ops
  used,         \* used_regs
  reg,          \* the register held by each of the case's variables
  saved,        \* saved_scratch of gen_funcall()
  val,          \* whose value each register holds
  slot,         \* whose value each save slot holds
  stk,          \* what was pushed below the frame, the top last
  skip          \* label a taken jump is heading for, or None

vars == <<tmpl, outer, pc, used, reg, saved, val, slot, stk, skip>>

None == "none"
Junk == "junk"
Outer == "outer"

RegSet(arch) == {Order(arch)[i] : i \in DOMAIN Order(arch)}
Regs == RegSet(tmpl.arch)
Locs(arch) == RegSet(arch) \union CallerSaved(arch)

(* A name in a template is a variable of the case, which names the         *)
(* register it holds, or a register the instruction spells out.            *)
Loc(x) == IF x \in DOMAIN reg THEN reg[x] ELSE x

Running == skip = None
Op == tmpl.ops[pc]
At(kind) == pc <= Len(tmpl.ops) /\ Op.op = kind

(* Writing v to location l, unless the code is being jumped over.          *)
Put(l, v) == val' = IF Running THEN [val EXCEPT ![l] = v] ELSE val

-----------------------------------------------------------------------------
Init ==
  \E t \in Library : \E S \in OuterSets(t) :
    /\ tmpl = t
    /\ outer = S
    /\ pc = 1
    /\ used = S
    /\ reg = <<>>
    /\ saved = {}
    /\ val = [l \in Locs(t.arch) |-> IF l \in S THEN Outer ELSE Junk]
    /\ slot = [r \in RegSet(t.arch) |-> Junk]
    /\ stk = <<>>
    /\ skip = None

(* alloc_reg(): the first free register.  Module RegAlloc models what it   *)
(* does when there is none; here the enclosing expression leaves enough of *)
(* them, and a template that needs more deadlocks.                         *)
FirstFree ==
  Order(tmpl.arch)[CHOOSE i \in DOMAIN Order(tmpl.arch) :
                     /\ Order(tmpl.arch)[i] \notin used
                     /\ \A j \in 1 .. (i - 1) : Order(tmpl.arch)[j] \in used]

Take(t) ==
  /\ used # Regs
  /\ reg' = (t :> FirstFree) @@ reg
  /\ used' = used \union {FirstFree}

Alloc ==
  /\ At("alloc")
  /\ Take(Op.t)
  /\ pc' = pc + 1
  /\ UNCHANGED <<tmpl, outer, saved, val, slot, stk, skip>>

(* gen() or gen_addr() of a child.  A call inside it may store %r10 and    *)
(* %r11 to their slots again.                                              *)
Child ==
  /\ At("gen")
  /\ Take(Op.t)
  /\ val' = IF Running
              THEN [l \in DOMAIN val |->
                      IF l = FirstFree THEN Op.t
                      ELSE IF l \in used THEN val[l] ELSE Junk]
              ELSE val
  /\ \E calls \in BOOLEAN :
       slot' = [r \in DOMAIN slot |->
                  IF calls /\ Running /\ r \in used \intersect Scratch(tmpl.arch)
                    THEN val[r] ELSE slot[r]]
  /\ pc' = pc + 1
  /\ UNCHANGED <<tmpl, outer, saved, stk, skip>>

(* One or more instructions that read Op.rd and leave a value in Op.t.     *)
Instruction ==
  /\ At("ins")
  /\ IF Op.t = None THEN UNCHANGED val ELSE Put(Loc(Op.t), Op.t)
  /\ pc' = pc + 1
  /\ UNCHANGED <<tmpl, outer, used, reg, saved, slot, stk, skip>>

(* free_reg()                                                              *)
Free ==
  /\ At("free")
  /\ used' = used \ {Loc(Op.t)}
  /\ pc' = pc + 1
  /\ UNCHANGED <<tmpl, outer, reg, saved, val, slot, stk, skip>>

(* int x = y: another variable for the same register.                      *)
Alias ==
  /\ At("alias")
  /\ reg' = (Op.t :> Loc(Op.of)) @@ reg
  /\ Put(Loc(Op.of), Op.t)
  /\ pc' = pc + 1
  /\ UNCHANGED <<tmpl, outer, used, saved, slot, stk, skip>>

(* A conditional jump is taken or not, a jump always is.                   *)
Jump ==
  /\ At("jcc") \/ At("jmp")
  /\ skip' \in IF ~Running THEN {skip}
               ELSE IF At("jmp") THEN {Op.l} ELSE {None, Op.l}
  /\ pc' = pc + 1
  /\ UNCHANGED <<tmpl, outer, used, reg, saved, val, slot, stk>>

Label ==
  /\ At("label")
  /\ skip' = IF skip = Op.l THEN None ELSE skip
  /\ pc' = pc + 1
  /\ UNCHANGED <<tmpl, outer, used, reg, saved, val, slot, stk>>

(* sub and add of the stack pointer.                                       *)
Stack ==
  /\ At("stack")
  /\ stk' = IF ~Running THEN stk
            ELSE IF Op.n >= 0 THEN stk \o [i \in 1 .. Op.n |-> Junk]
            ELSE SubSeq(stk, 1, Len(stk) + Op.n)
  /\ pc' = pc + 1
  /\ UNCHANGED <<tmpl, outer, used, reg, saved, val, slot, skip>>

Push ==
  /\ At("push")
  /\ stk' = IF Running THEN Append(stk, val[Loc(Op.t)]) ELSE stk
  /\ pc' = pc + 1
  /\ UNCHANGED <<tmpl, outer, used, reg, saved, val, slot, skip>>

Pop ==
  /\ At("pop")
  /\ ~Running \/ stk # <<>>
  /\ IF Running
       THEN /\ Put(Loc(Op.t), IF Last(stk) = Op.of THEN Op.t ELSE Last(stk))
            /\ stk' = Front(stk)
       ELSE UNCHANGED <<val, stk>>
  /\ pc' = pc + 1
  /\ UNCHANGED <<tmpl, outer, used, reg, saved, slot, skip>>

(* gen_funcall(): saved_scratch, all of it but the register of the hidden  *)
(* buffer, stored now and reloaded after the call.                         *)
Save ==
  /\ At("save")
  /\ saved' = (used \intersect Scratch(tmpl.arch)) \ {Loc(Op.keep)}
  /\ slot' = IF Running
               THEN [r \in DOMAIN slot |-> IF r \in saved' THEN val[r] ELSE slot[r]]
               ELSE slot
  /\ pc' = pc + 1
  /\ UNCHANGED <<tmpl, outer, used, reg, val, stk, skip>>

(* Mutant: only the first scratch register is reloaded.                    *)
RestoreFirst ==
  /\ At("restore")
  /\ used' = IF tmpl.arch = "x86" THEN used \union saved ELSE used
  /\ val' = IF Running
              THEN [l \in DOMAIN val |->
                      IF l \in saved /\ l = Order(tmpl.arch)[1] THEN slot[l] ELSE val[l]]
              ELSE val
  /\ pc' = pc + 1
  /\ UNCHANGED <<tmpl, outer, reg, saved, slot, stk, skip>>

Restore ==
  /\ At("restore")
  /\ used' = IF tmpl.arch = "x86" THEN used \union saved ELSE used
  /\ val' = IF Running
              THEN [l \in DOMAIN val |-> IF l \in saved THEN slot[l] ELSE val[l]]
              ELSE val
  /\ pc' = pc + 1
  /\ UNCHANGED <<tmpl, outer, reg, saved, slot, stk, skip>>

(* Mutant: the arguments are moved in their order.                         *)
PlaceOrderGiven(args) == args

(* The arguments that sit in %rsi are moved first, because %rsi is an      *)
(* argument register as well; then the others, in order.                   *)
PlaceOrder(args) ==
  SelectSeq(args, LAMBDA a : Loc(a[1]) = "rsi") \o SelectSeq(args, LAMBDA a : Loc(a[1]) # "rsi")

Move(v, a) == [v EXCEPT ![a[2]] = IF v[Loc(a[1])] = a[1] THEN a[2] ELSE Junk]

Place ==
  /\ At("place")
  /\ val' = IF Running THEN FoldLeft(Move, val, PlaceOrder(Op.args)) ELSE val
  /\ used' = used \ {Loc(Op.args[i][1]) : i \in DOMAIN Op.args}
  /\ pc' = pc + 1
  /\ UNCHANGED <<tmpl, outer, reg, saved, slot, stk, skip>>

(* A call instruction: the callee may change the caller-saved registers    *)
(* and leaves its result in Op.t.                                          *)
Call ==
  /\ At("call")
  /\ val' = IF Running
              THEN [l \in DOMAIN val |->
                      IF l = Op.t THEN Op.t
                      ELSE IF l \in CallerSaved(tmpl.arch) THEN Junk ELSE val[l]]
              ELSE val
  /\ pc' = pc + 1
  /\ UNCHANGED <<tmpl, outer, used, reg, saved, slot, stk, skip>>

(* return: the last step.                                                  *)
Return ==
  /\ pc = Len(tmpl.ops) + 1
  /\ pc' = pc + 1
  /\ UNCHANGED <<tmpl, outer, used, reg, saved, val, slot, stk, skip>>

Done == pc = Len(tmpl.ops) + 2

Terminated == Done /\ UNCHANGED vars

Next ==
  \/ Alloc
  \/ Child
  \/ Instruction
  \/ Free
  \/ Alias
  \/ Jump
  \/ Label
  \/ Stack
  \/ Push
  \/ Pop
  \/ Save
  \/ Place
  \/ Restore
  \/ Call
  \/ Return
  \/ Terminated

Spec == Init /\ [][Next]_vars

-----------------------------------------------------------------------------
(* used_regs holds registers of the target, every variable of the case     *)
(* names one of them, and registers and slots hold known values.           *)
TypeOK ==
  /\ pc \in 1 .. (Len(tmpl.ops) + 2)
  /\ outer \subseteq Regs /\ used \subseteq Regs /\ saved \subseteq Regs
  /\ \A x \in DOMAIN reg : reg[x] \in Regs
  /\ val \in [Locs(tmpl.arch) -> STRING] /\ slot \in [Regs -> STRING]
  /\ stk \in Seq(STRING)

(* Every instruction reads what the case put there: between the step that  *)
(* produced an operand and the instruction that reads it, no register was  *)
(* given away, overwritten by a fixed use of it or lost in a call.         *)
ReadsIntact ==
  Running /\ pc \in DOMAIN tmpl.ops => \A x \in Op.rd : val[Loc(x)] = x

(* What gen() promises its callers (module GenContract).                   *)
Finished == Done /\ Running
ResultReg == IF tmpl.result = None THEN None ELSE Loc(tmpl.result)
Contents(r) == IF r = ResultReg /\ val[r] = tmpl.result THEN "result" ELSE val[r]

Contract == INSTANCE GenContract WITH
  Registers <- RegSet("x86") \union RegSet("arm64"),
  busy <- IF Finished THEN used ELSE outer,
  held <- IF Finished THEN [r \in used |-> Contents(r)] ELSE [r \in outer |-> Outer],
  level <- IF Finished THEN Len(stk) ELSE 0,
  ret <- IF Finished THEN ResultReg ELSE "pending"

(* The code of every node implements the contract: at its end the          *)
(* registers in use are the ones before it and the one it returns, all of  *)
(* them hold what they should, and the stack pointer is back.              *)
ImplementsContract == Contract!Spec
=============================================================================
