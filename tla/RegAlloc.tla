------------------------------ MODULE RegAlloc ------------------------------
(***************************************************************************)
(* The x86_64 register allocator of codegen.c (alloc_reg, free_reg, the    *)
(* spill slots) together with the two users that stress it: the binary     *)
(* expressions of gen() and the calls of gen_funcall().                    *)
(*                                                                         *)
(* The code generator emits instructions while it allocates; inside one    *)
(* straight-line expression they run in the order they are emitted, so the *)
(* model executes each instruction when it is emitted.  One record, cg,    *)
(* holds the allocator's globals and the machine they describe:            *)
(*   used       used_regs          ever      ever_used_regs                *)
(*   spilled    spilled_regs       count     spill_count                   *)
(*   slot       spill_slot[]       next      next_spill_slot               *)
(*   reg        contents of the allocatable registers                      *)
(*   mem        contents of the slots below %rbp, by (positive) offset     *)
(* Register numbers are the indices of reg64[]: 0 and 1 are the scratch    *)
(* registers %r10 and %r11, the last one is %rsi, the ones between are     *)
(* callee-saved.                                                           *)
(***************************************************************************)
EXTENDS Integers, Sequences

CONSTANTS
  NumRegs,      \* NUM_REGS: 8 on x86_64
  Val,          \* what a register can hold
  Op(_, _),     \* the value a two-operand instruction leaves in its target
  Junk,         \* what a callee may leave in the registers it need not keep
  MaxTemps,     \* bound: values an expression keeps alive
  MaxCalls,     \* bound: nesting depth of calls
  MaxSpills     \* bound: spills in one function

ASSUME NumRegsAssumption == NumRegs \in Nat /\ NumRegs >= 3
ASSUME ValAssumption == 0 \in Val
ASSUME OpAssumption == \A a, b \in Val : Op(a, b) \in Val
ASSUME BoundAssumption == {MaxTemps, MaxCalls, MaxSpills} \subseteq Nat

Regs == 0 .. (NumRegs - 1)

(* reg64[NUM_REGS - 1] is %rsi, which is also argreg64[1].                 *)
Top == NumRegs - 1

(* saved_scratch = used_regs & 3: %r10 and %r11.                           *)
Scratch == {0, 1}

(* The allocatable registers a callee may change (System V).               *)
CallerSaved == Scratch \union {Top}

(* spill_logand and spill_atomic_old take the first two slots.             *)
SpillLogand == 8
SpillAtomicOld == 16

VARIABLES
  cg,           \* the code generator's globals and the machine
  temps,        \* values held by the gen() calls in progress, oldest first
  calls,        \* gen_funcall() calls in progress, outermost first
  lastCall      \* what the call instruction of the last step was given

vars == <<cg, temps, calls, lastCall>>

ASSUME JunkAssumption == Junk \subseteq [CallerSaved -> Val]

-----------------------------------------------------------------------------
(* Slot offsets are multiples of 8; two fixed slots and one per register.  *)
Slots == {8 * k : k \in 1 .. (NumRegs + 2)}

(* Mutant: the fixed slots are not reserved.                               *)
FreshFunctionNoFixed(reg, mem) ==
  [used |-> {}, ever |-> {}, spilled |-> {}, count |-> 0,
   slot |-> [r \in Regs |-> 0], next |-> 8, reg |-> reg, mem |-> mem]

(* init_spill_slots and the resets at the head of codegen()'s loop body.   *)
FreshFunction(reg, mem) ==
  [used |-> {}, ever |-> {}, spilled |-> {}, count |-> 0,
   slot |-> [r \in Regs |-> 0], next |-> 24, reg |-> reg, mem |-> mem]

(* spill_offset: the slot of r, allocated on first use.                    *)
SpillOffset(c, r) == IF c.slot[r] = 0 THEN c.next ELSE c.slot[r]

(* mov %r, -spill_offset(r)(%rbp)                                          *)
SaveReg(c, r) ==
  [c EXCEPT !.slot[r] = SpillOffset(c, r),
            !.next = IF c.slot[r] = 0 THEN c.next + 8 ELSE c.next,
            !.mem[SpillOffset(c, r)] = c.reg[r]]

(* The register alloc_reg's first loop stops at.                           *)
IsFirstFree(c, r) == r \notin c.used /\ \A i \in 0 .. (r - 1) : i \in c.used

(* Mutant: ever_used_regs is not updated.                                  *)
TakeFreeUnrecorded(c, r) == [c EXCEPT !.used = @ \union {r}]

(* alloc_reg, first loop.                                                  *)
TakeFree(c, r) ==
  [c EXCEPT !.used = @ \union {r}, !.ever = @ \union {r}]

(* alloc_reg, second loop: every register is in use, so the highest one is *)
(* stored to its slot and handed out again.                                *)
SpillTop(c) ==
  [SaveReg(c, Top) EXCEPT !.spilled = @ \union {Top},
                          !.count = @ + 1,
                          !.ever = @ \union {Top}]

(* alloc_reg: the set holds the one pair <<register, new state>>.          *)
AllocReg(c) ==
  {<<r, TakeFree(c, r)>> : r \in {i \in Regs : IsFirstFree(c, i)}}
    \union (IF c.used = Regs THEN {<<Top, SpillTop(c)>>} ELSE {})

(* free_reg for each register of S.                                        *)
FreeRegs(c, S) ==
  [c EXCEPT !.used = @ \ S,
            !.spilled = @ \ S,
            !.reg = [r \in Regs |-> IF r \in S /\ r \in c.spilled
                                      THEN c.mem[c.slot[r]]
                                      ELSE c.reg[r]]]

FreeReg(c, r) == FreeRegs(c, {r})

(* An instruction that leaves v in register r.                             *)
Write(c, r, v) == [c EXCEPT !.reg[r] = v]

-----------------------------------------------------------------------------
Temp == [reg : Regs, val : Val]

(* The values below Base belong to outer calls and outer operands; they    *)
(* are not touched until the innermost call has returned.                  *)
Base == IF calls = <<>> THEN 0 ELSE calls[Len(calls)].base

Push(s, r, v) == Append(s, [reg |-> r, val |-> v])

NoCall == [got |-> <<>>, want |-> <<>>]

Init ==
  /\ cg = FreshFunction([r \in Regs |-> 0], [o \in Slots |-> 0])
  /\ temps = <<>>
  /\ calls = <<>>
  /\ lastCall = NoCall

(* codegen() reaches the next function.                                    *)
BeginFunction ==
  /\ temps = <<>> /\ calls = <<>>
  /\ cg.ever # {}
  /\ cg' = FreshFunction(cg.reg, cg.mem)
  /\ lastCall' = NoCall
  /\ UNCHANGED <<temps, calls>>

(* gen() of a leaf: a register is allocated and loaded with v.             *)
Load(v) ==
  /\ Len(temps) < MaxTemps
  /\ \E a \in AllocReg(cg) :
       /\ a[2].count <= MaxSpills
       /\ cg' = Write(a[2], a[1], v)
       /\ temps' = Push(temps, a[1], v)
  /\ lastCall' = NoCall
  /\ UNCHANGED calls

(* The tail of a binary gen(): op rhs, lhs; free_reg(rhs); return lhs.     *)
Binary ==
  LET n == Len(temps)
      l == temps[n - 1]
      r == temps[n]
  IN
    /\ n >= Base + 2
    /\ cg' = FreeReg(Write(cg, l.reg, Op(cg.reg[l.reg], cg.reg[r.reg])), r.reg)
    /\ temps' = Push(SubSeq(temps, 1, n - 2), l.reg, Op(l.val, r.val))
    /\ lastCall' = NoCall
    /\ UNCHANGED calls

(* ND_EXPR_STMT and the left operand of a comma: the value is dropped.     *)
Discard ==
  LET n == Len(temps) IN
    /\ n >= Base + 1
    /\ cg' = FreeReg(cg, temps[n].reg)
    /\ temps' = SubSeq(temps, 1, n - 1)
    /\ lastCall' = NoCall
    /\ UNCHANGED calls

(* gen_funcall, head: the live scratch registers go to their slots and     *)
(* stay marked as used.                                                    *)
SaveScratch(c) ==
  LET s0 == IF 0 \in c.used THEN SaveReg(c, 0) ELSE c
  IN IF 1 \in c.used THEN SaveReg(s0, 1) ELSE s0

CallBegin ==
  /\ Len(calls) < MaxCalls
  /\ cg' = SaveScratch(cg)
  /\ calls' = Append(calls, [base |-> Len(temps), saved |-> cg.used \intersect Scratch])
  /\ lastCall' = NoCall
  /\ UNCHANGED temps

(* Mutant: a single pass, in argument order.                               *)
PassSingle(args, i) == 1

(* The two passes that move arguments into argreg64[]: the ones that sit   *)
(* in %rsi first, because the second argument is written to %rsi.          *)
Pass(args, i) == IF args[i].reg = Top THEN 0 ELSE 1

PlacedBefore(args, i, j) ==
  \/ Pass(args, i) < Pass(args, j)
  \/ Pass(args, i) = Pass(args, j) /\ i < j

(* What the argument register of argument i receives.                      *)
Delivered(c, args, i) ==
  IF args[i].reg = Top /\ i # 2 /\ 2 \in DOMAIN args /\ PlacedBefore(args, 2, i)
    THEN c.reg[args[2].reg]
    ELSE c.reg[args[i].reg]

(* The callee leaves junk in the registers it need not keep.               *)
Clobber(c, junk) ==
  [c EXCEPT !.reg = [r \in Regs |-> IF r \in CallerSaved THEN junk[r] ELSE c.reg[r]]]

(* Mutants: both scratch registers are marked as used after every call;    *)
(* only %r10 is reloaded.                                                  *)
RestoreScratchAlways(c, saved) ==
  [c EXCEPT !.used = @ \union Scratch,
            !.reg = [r \in Regs |-> IF r \in saved THEN c.mem[c.slot[r]] ELSE c.reg[r]]]

RestoreScratchR10(c, saved) ==
  [c EXCEPT !.used = @ \union saved,
            !.reg = [r \in Regs |-> IF r \in saved \intersect {0} THEN c.mem[c.slot[r]] ELSE c.reg[r]]]

(* The reloads after the call instruction; the bits are set again because  *)
(* argument evaluation may have cleared them.                              *)
RestoreScratch(c, saved) ==
  [c EXCEPT !.used = @ \union saved,
            !.reg = [r \in Regs |-> IF r \in saved THEN c.mem[c.slot[r]] ELSE c.reg[r]]]

(* gen_funcall, tail, for a call whose n arguments are in registers: place *)
(* and free the arguments, call, reload, take a register for the result v. *)
CallEnd(junk, v) ==
  LET call == calls[Len(calls)]
      args == SubSeq(temps, call.base + 1, Len(temps))
      argRegs == {args[i].reg : i \in 1 .. Len(args)}
      after == RestoreScratch(Clobber(FreeRegs(cg, argRegs), junk), call.saved)
  IN
    /\ calls # <<>>
    /\ \E a \in AllocReg(after) :
         /\ a[2].count <= MaxSpills
         /\ cg' = Write(a[2], a[1], v)
         /\ temps' = Push(SubSeq(temps, 1, call.base), a[1], v)
    /\ calls' = SubSeq(calls, 1, Len(calls) - 1)
    /\ lastCall' = [got |-> [i \in 1 .. Len(args) |-> Delivered(cg, args, i)],
                    want |-> [i \in 1 .. Len(args) |-> args[i].val]]

Next ==
  \/ BeginFunction
  \/ \E v \in Val : Load(v)
  \/ Binary
  \/ Discard
  \/ CallBegin
  \/ \E junk \in Junk, v \in Val : CallEnd(junk, v)

Spec == Init /\ [][Next]_vars

-----------------------------------------------------------------------------
CGType ==
  [used : SUBSET Regs, ever : SUBSET Regs, spilled : SUBSET Regs, count : Nat,
   slot : [Regs -> Slots \union {0}], next : Nat,
   reg : [Regs -> Val], mem : [Slots -> Val]]

(* Every global of the allocator stays in its range; in particular a slot  *)
(* offset handed out by spill_offset is one of the NumRegs + 2 slots.      *)
TypeOK ==
  /\ cg \in CGType
  /\ temps \in Seq(Temp)
  /\ calls \in Seq([base : Nat, saved : SUBSET Scratch])
  /\ lastCall.got \in Seq(Val) /\ lastCall.want \in Seq(Val)

(* No two users of the spill area share a slot: the per-register slots     *)
(* differ from each other and from spill_logand and spill_atomic_old, and  *)
(* all lie below next_spill_slot, which the frame size is computed from.   *)
SlotsDisjoint ==
  /\ \A r \in Regs : cg.slot[r] # 0 =>
       /\ cg.slot[r] \notin {SpillLogand, SpillAtomicOld}
       /\ cg.slot[r] < cg.next
  /\ \A r, s \in Regs : r # s /\ cg.slot[r] # 0 => cg.slot[r] # cg.slot[s]

(* A callee-saved register that holds a value was recorded in              *)
(* ever_used_regs, from which the prologue's pushes are computed.          *)
HeldRegsRecorded ==
  \A i \in 1 .. Len(temps) : temps[i].reg \in cg.ever

IntactTemp(t) == cg.reg[t.reg] = t.val

(* As long as no spill was needed in the function, every value that a      *)
(* gen() call still holds is in its register, untouched by the values      *)
(* computed after it and by the calls made while it was alive.             *)
TempsIntact ==
  cg.count = 0 => \A i \in 1 .. Len(temps) : IntactTemp(temps[i])

(* As long as no spill was needed, a call receives the values of its       *)
(* argument expressions, in order.                                         *)
ArgsDelivered ==
  cg.count = 0 => lastCall.got = lastCall.want

(* With no expression in progress no register is marked as used: nothing   *)
(* leaks from one statement to the next.                                   *)
NoLeak ==
  temps = <<>> /\ calls = <<>> => cg.used = {} /\ cg.spilled = {}

=============================================================================
