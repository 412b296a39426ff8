------------------------------- MODULE Frame --------------------------------
(***************************************************************************)
(* The stack frame of one function on x86_64 System V.  Four places in the *)
(* code give out bytes below %rbp without knowing of each other:           *)
(*   new_var()            locals and parameters, while the body is parsed; *)
(*   spill slots          while the body is generated;                     *)
(*   gen_funcall()        buffers for struct results and struct arguments; *)
(*   codegen()            the register save area of a variadic function,   *)
(*                        the pushes of the callee-saved registers and the *)
(*                        final subq, once the body has been generated.    *)
(* A region [off, size] is the size bytes that end off bytes below %rbp:   *)
(* the distances off - size + 1 .. off.                                    *)
(***************************************************************************)
EXTENDS Integers, FiniteSets

CONSTANTS
  NumRegs,      \* NUM_REGS: 8
  Sizes,        \* ty->size of the locals and of the struct buffers
  Aligns,       \* ty->align
  MaxLocals,    \* bound: locals and parameters of the function
  MaxTemps      \* bound: struct buffers of the function

ASSUME NumRegsAssumption == NumRegs \in Nat /\ NumRegs >= 3
ASSUME SizesAssumption == Sizes \subseteq Nat
ASSUME AlignsAssumption == Aligns \subseteq {1, 2, 4, 8, 16, 32}
ASSUME BoundAssumption == {MaxLocals, MaxTemps} \subseteq Nat

(* The registers that ever get a slot: %r10 and %r11 around calls, and the *)
(* register alloc_reg() evicts.                                            *)
Spillable == {0, 1, NumRegs - 1}

(* reg64[2 ..]: %rbx, %r12 .. %r15, in the order they are pushed.          *)
CalleeSaved == 2 .. (NumRegs - 2)

VARIABLES
  phase,        \* "parse", "gen", "done"
  locals,       \* regions of the locals
  offset,       \* stack_offset
  variadic,     \* fn->is_variadic
  fixed,        \* the fixed slots the body uses
  slot,         \* spill_slot[], 0 when none
  nextSlot,     \* next_spill_slot
  temps,        \* regions of the struct buffers
  retOff,       \* fn_struct_ret_off (= fn_struct_ret_total: it only grows)
  ever,         \* callee-saved registers of ever_used_regs
  sub           \* sub_amount

vars == <<phase, locals, offset, variadic, fixed, slot, nextSlot, temps, retOff, ever, sub>>

-----------------------------------------------------------------------------
Region == [off : Nat, size : Nat]

(* a and b have no byte in common.                                         *)
Apart(a, b) == a.off <= b.off - b.size \/ b.off <= a.off - a.size

(* align_to: (n + align - 1) & ~(align - 1), align a power of two.         *)
AlignTo(n, a) == ((n + a - 1) \div a) * a

AtLeast(n, m) == IF n < m THEN m ELSE n

(* Mutant: room for the fixed slots only.                                  *)
FirstLocalLow == 16

(* parse(): stack_offset = 80 at the head of every function.               *)
FirstLocal == 80

(* new_var: where the next local ends.                                     *)
Place(off, size, align) ==
  AlignTo(off + AtLeast(size, 4), AtLeast(align, 4))

(* fn->stack_size                                                          *)
StackSize == AlignTo(offset, 16)

(* va_reg_save_ofs: 6 * 8 bytes of integer and 8 * 16 of vector registers. *)
VaRegSave == StackSize + 176

(* init_spill_slots: spill_logand and spill_atomic_old.                    *)
FixedSlots == {8, 16}

(* The slots the function stores to.                                       *)
Slots ==
  {[off |-> o, size |-> 8] : o \in fixed \union {slot[r] : r \in {q \in Spillable : slot[q] # 0}}}

SaveArea == IF variadic THEN {[off |-> VaRegSave, size |-> 176]} ELSE {}

(* The pushes that follow movq %rsp, %rbp.                                 *)
PushedAt(r) == 8 * Cardinality({q \in ever : q <= r})
Pushes == {[off |-> PushedAt(r), size |-> 8] : r \in ever}
PushBytes == 8 * Cardinality(ever)

-----------------------------------------------------------------------------
Init ==
  /\ phase = "parse"
  /\ locals = {} /\ offset = FirstLocal
  /\ variadic = FALSE
  /\ fixed = {}
  /\ slot = [r \in Spillable |-> 0] /\ nextSlot = 24
  /\ temps = {} /\ retOff = 0
  /\ ever = {} /\ sub = 0

(* new_var() for a local or a parameter.                                   *)
NewVar(size, align) ==
  /\ phase = "parse"
  /\ Cardinality(locals) < MaxLocals
  /\ offset' = Place(offset, size, align)
  /\ locals' = locals \union {[off |-> offset', size |-> AtLeast(size, 4)]}
  /\ UNCHANGED <<phase, variadic, fixed, slot, nextSlot, temps, retOff, ever, sub>>

(* parse() has read the function's body; codegen() starts on it.           *)
BeginGen(v) ==
  /\ phase = "parse"
  /\ phase' = "gen"
  /\ variadic' = v
  /\ UNCHANGED <<locals, offset, fixed, slot, nextSlot, temps, retOff, ever, sub>>

(* spill_offset(r): the slot of r, given out on first use.                 *)
SlotFor(r) == IF slot[r] = 0 THEN nextSlot ELSE slot[r]
NextAfter(r) == IF slot[r] = 0 THEN nextSlot + 8 ELSE nextSlot

(* %r10 and %r11 are saved around calls; the last register is evicted when *)
(* every other one is in use.                                              *)
UseSlot(r) ==
  /\ phase = "gen"
  /\ slot[r] = 0
  /\ r = NumRegs - 1 => ever = CalleeSaved
  /\ slot' = [slot EXCEPT ![r] = SlotFor(r)]
  /\ nextSlot' = NextAfter(r)
  /\ UNCHANGED <<phase, locals, offset, variadic, fixed, temps, retOff, ever, sub>>

(* A && or || stores to spill_logand, a fetch-and-modify to both.          *)
UseFixed(s) ==
  /\ phase = "gen"
  /\ ~(s \subseteq fixed)
  /\ fixed' = fixed \union s
  /\ UNCHANGED <<phase, locals, offset, variadic, slot, nextSlot, temps, retOff, ever, sub>>

(* alloc_reg() hands out a callee-saved register: the lower ones are in    *)
(* use.                                                                    *)
UseReg(r) ==
  /\ phase = "gen"
  /\ r \notin ever
  /\ \A q \in CalleeSaved : q < r => q \in ever
  /\ ever' = ever \union {r}
  /\ UNCHANGED <<phase, locals, offset, variadic, fixed, slot, nextSlot, temps, retOff, sub>>

(* Mutant: the buffer is placed before the running offset is advanced.     *)
BufferAtStale(off, alloc) == off

(* gen_funcall: fn_struct_ret_off is advanced past the buffer, which then  *)
(* ends at current_fn_stack_size + fn_struct_ret_off.                      *)
BufferAt(off, alloc) == off + alloc

(* A buffer for a struct result (unit 16) or a struct argument that is not *)
(* an lvalue (unit 8).                                                     *)
StructBuffer(size, unit) ==
  /\ phase = "gen"
  /\ Cardinality(temps) < MaxTemps
  /\ size > 0
  /\ retOff' = retOff + AlignTo(size, unit)
  /\ temps' = temps \union
       {[off |-> StackSize + BufferAt(retOff, AlignTo(size, unit)), size |-> size]}
  /\ UNCHANGED <<phase, locals, offset, variadic, fixed, slot, nextSlot, ever, sub>>

(* Mutants: the pushes are counted twice; no correction of the alignment.  *)
SubAmountTwice(need, push) ==
  AtLeast(need - 2 * push, 32) + (IF (push + AtLeast(need - push, 32)) % 16 # 0 THEN 8 ELSE 0)

SubAmountUncorrected(need, push) == AtLeast(need - push, 32)

(* codegen: sub_amount, at least 32 and 16-aligned together with the       *)
(* pushes.                                                                 *)
SubAmount(need, push) ==
  LET s == AtLeast(need - push, 32)
  IN IF (push + s) % 16 # 0 THEN s + 8 ELSE s

(* codegen: locals + struct buffers + shadow space, or the save area, and  *)
(* never less than the spill slots.                                        *)
Need ==
  AtLeast(IF variadic THEN VaRegSave ELSE StackSize + retOff + 32, nextSlot)

(* codegen, pass 2: the prologue is fixed; an epilogue that calls          *)
(* __cleanup__ functions keeps %rax in the slot of %r10, given out after   *)
(* the frame has been sized.                                               *)
EmitFrame(cleanup) ==
  /\ phase = "gen"
  /\ phase' = "done"
  /\ sub' = SubAmount(Need, PushBytes)
  /\ slot' = IF cleanup THEN [slot EXCEPT ![0] = SlotFor(0)] ELSE slot
  /\ nextSlot' = IF cleanup THEN NextAfter(0) ELSE nextSlot
  /\ UNCHANGED <<locals, offset, variadic, fixed, temps, retOff, ever>>

(* The next function: parse() and codegen() reset everything.              *)
NextFunction ==
  /\ phase = "done"
  /\ phase' = "parse"
  /\ locals' = {} /\ offset' = FirstLocal
  /\ variadic' = FALSE
  /\ fixed' = {}
  /\ slot' = [r \in Spillable |-> 0] /\ nextSlot' = 24
  /\ temps' = {} /\ retOff' = 0
  /\ ever' = {} /\ sub' = 0

Next ==
  \/ \E s \in Sizes, a \in Aligns : NewVar(s, a)
  \/ \E v \in BOOLEAN : BeginGen(v)
  \/ \E r \in Spillable : UseSlot(r)
  \/ \E s \in {{8}, FixedSlots} : UseFixed(s)
  \/ \E r \in CalleeSaved : UseReg(r)
  \/ \E s \in Sizes, u \in {8, 16} : StructBuffer(s, u)
  \/ \E c \in BOOLEAN : EmitFrame(c)
  \/ NextFunction

Spec == Init /\ [][Next]_vars

-----------------------------------------------------------------------------
(* Every variable has its type.                                            *)
TypeOK ==
  /\ phase \in {"parse", "gen", "done"}
  /\ locals \subseteq Region /\ temps \subseteq Region
  /\ {offset, retOff, sub, nextSlot} \subseteq Nat
  /\ variadic \in BOOLEAN
  /\ fixed \subseteq FixedSlots
  /\ slot \in [Spillable -> {0} \union {8 * k : k \in 3 .. 5}]
  /\ ever \subseteq CalleeSaved

(* The locals new_var() placed share no byte with each other nor with a    *)
(* spill slot: the slots grow down from %rbp and the locals start at 80,   *)
(* a distance nothing in the generator checks.                             *)
LocalsApart ==
  /\ \A a, b \in locals : a # b => Apart(a, b)
  /\ \A a \in locals, s \in Slots : Apart(a, s)

(* The struct buffers of gen_funcall() share no byte with each other, with *)
(* a local or with a spill slot.                                           *)
BuffersApart ==
  /\ \A a, b \in temps : a # b => Apart(a, b)
  /\ \A a \in temps, b \in locals \union Slots : Apart(a, b)

(* When the frame is emitted, %rsp is below every byte that was given out: *)
(* a callee or a signal handler cannot overwrite them.  It does not hold   *)
(* of the struct buffers of a variadic function (README, section 6).       *)
FrameCovers ==
  phase = "done" =>
    \A g \in locals \union Slots \union SaveArea \union (IF variadic THEN {} ELSE temps) :
      g.off <= PushBytes + sub

(* %rsp is 16-aligned at every call, as the ABI asks, and so is the save   *)
(* area, whose vector registers are stored with movaps.                    *)
StackAligned ==
  phase = "done" =>
    /\ (PushBytes + sub) % 16 = 0
    /\ \A g \in SaveArea : g.off % 16 = 0

=============================================================================
