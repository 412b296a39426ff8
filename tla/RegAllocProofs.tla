--------------------------- MODULE RegAllocProofs ---------------------------
(***************************************************************************)
(* Proofs about the register allocator, for every number of registers,     *)
(* every set of values and every meaning of the binary instructions.       *)
(***************************************************************************)
EXTENDS RegAlloc, FiniteSetTheorems, SequenceTheorems, TLAPS

(* The registers that own a spill slot.                                    *)
Owners(c) == {r \in Regs : c.slot[r] # 0}

(* Slots are handed out one after the other, so next_spill_slot counts the *)
(* owners; a spilled register owns a slot.                                 *)
SlotInv(c) ==
  /\ c.next = 24 + 8 * Cardinality(Owners(c))
  /\ \A r \in Regs : c.slot[r] # 0 => c.slot[r] >= 24 /\ c.slot[r] < c.next
  /\ \A r, s \in Regs : r # s /\ c.slot[r] # 0 => c.slot[r] # c.slot[s]
  /\ \A r \in c.spilled : c.slot[r] # 0

(* A register without a slot finds one left among the NumRegs + 2.         *)
LEMMA NextSlotExists ==
  ASSUME NEW c \in CGType, SlotInv(c), NEW r \in Regs, c.slot[r] = 0
  PROVE  c.next \in Slots /\ Cardinality(Owners(c)) \in Nat
  <1>1. IsFiniteSet(Regs) /\ Cardinality(Regs) = NumRegs
    BY FS_Interval, NumRegsAssumption DEF Regs
  <1>2. Owners(c) \in SUBSET Regs /\ Owners(c) # Regs
    BY DEF Owners
  <1>3. Cardinality(Owners(c)) \in Nat /\ Cardinality(Owners(c)) < NumRegs
    <2>1. IsFiniteSet(Owners(c)) /\ Cardinality(Owners(c)) <= NumRegs
          /\ Cardinality(Owners(c)) # NumRegs
      BY <1>1, <1>2, FS_Subset
    <2>2. Cardinality(Owners(c)) \in Nat
      BY <2>1, FS_CardinalityType
    <2> QED
      BY <2>1, <2>2, NumRegsAssumption
  <1>4. c.next = 8 * (3 + Cardinality(Owners(c)))
    BY <1>3 DEF SlotInv
  <1>5. 3 + Cardinality(Owners(c)) \in 1 .. (NumRegs + 2)
    BY <1>3, NumRegsAssumption
  <1> QED
    BY <1>3, <1>4, <1>5 DEF Slots

(* spill_offset and the store to the slot keep the slots apart and change  *)
(* no register and no bit mask.                                            *)
LEMMA SaveRegOK ==
  ASSUME NEW c \in CGType, SlotInv(c), NEW r \in Regs
  PROVE  /\ SaveReg(c, r) \in CGType
         /\ SlotInv(SaveReg(c, r))
         /\ SaveReg(c, r).slot[r] # 0
         /\ SaveReg(c, r).used = c.used
         /\ SaveReg(c, r).ever = c.ever
         /\ SaveReg(c, r).spilled = c.spilled
         /\ SaveReg(c, r).count = c.count
         /\ SaveReg(c, r).reg = c.reg
         /\ SaveReg(c, r).mem[SaveReg(c, r).slot[r]] = c.reg[r]
         /\ \A s \in Regs \ {r} :
              /\ SaveReg(c, r).slot[s] = c.slot[s]
              /\ c.slot[s] # 0 => SaveReg(c, r).mem[c.slot[s]] = c.mem[c.slot[s]]
  <1> DEFINE d == SaveReg(c, r)
  <1>1. CASE c.slot[r] = 0
    <2>1. c.next \in Slots /\ Cardinality(Owners(c)) \in Nat
      BY <1>1, NextSlotExists
    <2>2. d = [c EXCEPT !.slot = [@ EXCEPT ![r] = c.next], !.next = c.next + 8,
                        !.mem = [@ EXCEPT ![c.next] = c.reg[r]]]
      BY <1>1 DEF SaveReg, SpillOffset
    <2>3. d \in CGType
      <3>1. [c.slot EXCEPT ![r] = c.next] \in [Regs -> Slots \union {0}]
        BY <2>1 DEF CGType
      <3>2. [c.mem EXCEPT ![c.next] = c.reg[r]] \in [Slots -> Val]
        BY <2>1 DEF CGType
      <3>3. c.next + 8 \in Nat
        BY DEF CGType
      <3> QED
        BY <2>2, <3>1, <3>2, <3>3 DEF CGType
    <2>4. c.next >= 24 /\ c.next \in Nat
      BY <2>1 DEF SlotInv, CGType
    <2>5. \A s \in Regs : d.slot[s] = IF s = r THEN c.next ELSE c.slot[s]
      BY <2>2 DEF CGType
    <2>6. d.next = c.next + 8 /\ d.spilled = c.spilled
      BY <2>2 DEF CGType
    <2>7. Owners(d) = Owners(c) \union {r} /\ r \notin Owners(c)
      BY <1>1, <2>4, <2>5 DEF Owners
    <2>8. d.next = 24 + 8 * Cardinality(Owners(d))
      <3>1. IsFiniteSet(Owners(c))
        <4>1. IsFiniteSet(Regs) /\ Owners(c) \in SUBSET Regs
          BY FS_Interval, NumRegsAssumption DEF Regs, Owners
        <4> QED
          BY <4>1, FS_Subset
      <3>2. Cardinality(Owners(d)) = Cardinality(Owners(c)) + 1
        BY <2>7, <3>1, FS_AddElement
      <3> QED
        BY <2>1, <2>6, <3>2 DEF SlotInv
    <2>9. SlotInv(d)
      <3>1. \A s \in Regs : c.slot[s] \in Int
        BY DEF CGType, Slots
      <3>2. \A s \in Regs : d.slot[s] # 0 => d.slot[s] >= 24 /\ d.slot[s] < d.next
        BY <2>4, <2>5, <2>6, <3>1 DEF SlotInv
      <3>3. \A s, t \in Regs : s # t /\ d.slot[s] # 0 => d.slot[s] # d.slot[t]
        BY <2>4, <2>5, <3>1 DEF SlotInv
      <3>4. \A s \in d.spilled : d.slot[s] # 0
        BY <2>4, <2>5, <2>6 DEF SlotInv, CGType
      <3> QED
        BY <2>8, <3>2, <3>3, <3>4 DEF SlotInv
    <2>10. \A s \in Regs \ {r} : c.slot[s] # 0 => d.mem[c.slot[s]] = c.mem[c.slot[s]]
      BY <2>1, <2>2, <2>4 DEF SlotInv, CGType
    <2> QED
      BY <2>1, <2>2, <2>3, <2>4, <2>5, <2>9, <2>10 DEF CGType
  <1>2. CASE c.slot[r] # 0
    <2>1. d = [c EXCEPT !.slot = [@ EXCEPT ![r] = c.slot[r]], !.next = c.next,
                        !.mem = [@ EXCEPT ![c.slot[r]] = c.reg[r]]]
      BY <1>2 DEF SaveReg, SpillOffset
    <2>2. c.slot[r] \in Slots
      BY <1>2 DEF CGType
    <2>3. d \in CGType /\ d.slot = c.slot /\ d.next = c.next /\ d.spilled = c.spilled
      <3>1. [c.slot EXCEPT ![r] = c.slot[r]] = c.slot
        BY DEF CGType
      <3>2. [c.mem EXCEPT ![c.slot[r]] = c.reg[r]] \in [Slots -> Val]
        BY <2>2 DEF CGType
      <3> QED
        BY <2>1, <3>1, <3>2 DEF CGType
    <2>4. SlotInv(d)
      BY <2>3 DEF SlotInv, Owners
    <2>5. \A s \in Regs \ {r} : c.slot[s] # 0 => d.mem[c.slot[s]] = c.mem[c.slot[s]]
      BY <1>2, <2>1, <2>2 DEF SlotInv, CGType
    <2> QED
      BY <1>2, <2>1, <2>2, <2>3, <2>4, <2>5 DEF CGType
  <1> QED
    BY <1>1, <1>2

(* Steps of the allocator that leave the slots alone keep SlotInv.         *)
LEMMA SlotInvFrame ==
  ASSUME NEW c, NEW d, SlotInv(c), d.slot = c.slot, d.next = c.next,
         \A r \in d.spilled : r \in c.spilled
  PROVE  SlotInv(d)
  BY DEF SlotInv, Owners

(* alloc_reg marks one more register as used, changes no register's        *)
(* contents, and only stores to memory when it counts a spill.             *)
LEMMA AllocRegOK ==
  ASSUME NEW c \in CGType, SlotInv(c), NEW a \in AllocReg(c)
  PROVE  /\ a[1] \in Regs
         /\ a[2] \in CGType
         /\ SlotInv(a[2])
         /\ a[2].used = c.used \union {a[1]}
         /\ a[2].ever = c.ever \union {a[1]}
         /\ a[2].spilled \subseteq c.spilled \union {a[1]}
         /\ a[2].reg = c.reg
         /\ \A r \in Regs : c.slot[r] # 0 => a[2].slot[r] = c.slot[r]
         /\ a[2].count = 0 =>
              /\ c.count = 0
              /\ IsFirstFree(c, a[1])
              /\ a[2].spilled = c.spilled
              /\ a[2].slot = c.slot
              /\ a[2].mem = c.mem
  <1>1. CASE \E r \in Regs : IsFirstFree(c, r) /\ a = <<r, TakeFree(c, r)>>
    <2>1. PICK r \in Regs : IsFirstFree(c, r) /\ a = <<r, TakeFree(c, r)>>
      BY <1>1
    <2>2. a[1] = r /\ a[2] = [c EXCEPT !.used = c.used \union {r}, !.ever = c.ever \union {r}]
      BY <2>1 DEF TakeFree
    <2>3. /\ a[2] \in CGType /\ a[2].slot = c.slot /\ a[2].next = c.next
          /\ a[2].spilled = c.spilled /\ a[2].reg = c.reg /\ a[2].mem = c.mem
          /\ a[2].count = c.count
          /\ a[2].used = c.used \union {r} /\ a[2].ever = c.ever \union {r}
      <3>1. c.used \union {r} \in SUBSET Regs /\ c.ever \union {r} \in SUBSET Regs
        BY DEF CGType
      <3> QED
        BY <2>2, <3>1 DEF CGType
    <2>4. SlotInv(a[2])
      BY <2>3, SlotInvFrame
    <2> QED
      BY <2>1, <2>2, <2>3, <2>4
  <1>2. CASE c.used = Regs /\ a = <<Top, SpillTop(c)>>
    <2>1. Top \in Regs
      BY NumRegsAssumption DEF Top, Regs
    <2> DEFINE s == SaveReg(c, Top)
    <2>2. /\ s \in CGType /\ SlotInv(s) /\ s.slot[Top] # 0 /\ s.reg = c.reg
          /\ s.used = c.used /\ s.ever = c.ever /\ s.spilled = c.spilled /\ s.count = c.count
          /\ \A r \in Regs \ {Top} : s.slot[r] = c.slot[r]
      BY <2>1, SaveRegOK
    <2>3. c.slot[Top] # 0 => s.slot[Top] = c.slot[Top]
      BY <2>1 DEF SaveReg, SpillOffset, CGType
    <2> HIDE DEF s
    <2>4. a[1] = Top /\ a[2] = [s EXCEPT !.spilled = s.spilled \union {Top},
                                         !.count = s.count + 1,
                                         !.ever = s.ever \union {Top}]
      BY <1>2 DEF SpillTop, s
    <2>5. /\ a[2] \in CGType /\ a[2].slot = s.slot /\ a[2].next = s.next
          /\ a[2].spilled = s.spilled \union {Top} /\ a[2].reg = s.reg
          /\ a[2].used = s.used /\ a[2].ever = s.ever \union {Top}
          /\ a[2].count = s.count + 1
      <3>1. /\ s.spilled \union {Top} \in SUBSET Regs
            /\ s.ever \union {Top} \in SUBSET Regs
            /\ s.count + 1 \in Nat
        BY <2>1, <2>2 DEF CGType
      <3> QED
        BY <2>2, <2>4, <3>1, ZenonT(20) DEF CGType
    <2>6. SlotInv(a[2])
      <3>1. Owners(a[2]) = Owners(s)
        BY <2>5 DEF Owners
      <3> QED
        BY <2>2, <2>5, <3>1 DEF SlotInv
    <2>7. a[2].count # 0
      BY <2>2, <2>5 DEF CGType
    <2>8. a[2].used = c.used \union {Top}
      BY <1>2, <2>1, <2>2, <2>5
    <2> QED
      BY <2>1, <2>2, <2>3, <2>4, <2>5, <2>6, <2>7, <2>8
  <1> QED
    BY <1>1, <1>2 DEF AllocReg

(* free_reg clears the bits of the freed registers and, when one of them   *)
(* was spilled, reloads it.                                                *)
LEMMA FreeRegsOK ==
  ASSUME NEW c \in CGType, SlotInv(c), NEW S \in SUBSET Regs
  PROVE  /\ FreeRegs(c, S) \in CGType
         /\ SlotInv(FreeRegs(c, S))
         /\ FreeRegs(c, S).used = c.used \ S
         /\ FreeRegs(c, S).spilled = c.spilled \ S
         /\ FreeRegs(c, S).ever = c.ever
         /\ FreeRegs(c, S).count = c.count
         /\ FreeRegs(c, S).slot = c.slot
         /\ FreeRegs(c, S).mem = c.mem
         /\ c.spilled = {} => FreeRegs(c, S).reg = c.reg
  <1> DEFINE R == [r \in Regs |-> IF r \in S /\ r \in c.spilled
                                    THEN c.mem[c.slot[r]] ELSE c.reg[r]]
             d == FreeRegs(c, S)
  <1>1. R \in [Regs -> Val]
    BY DEF CGType, SlotInv
  <1>2. d = [c EXCEPT !.used = c.used \ S, !.spilled = c.spilled \ S, !.reg = R]
    BY DEF FreeRegs
  <1>3. c.spilled = {} => R = c.reg
    BY DEF CGType
  <1> HIDE DEF R, d
  <1>4. /\ d \in CGType /\ d.used = c.used \ S /\ d.spilled = c.spilled \ S
        /\ d.ever = c.ever /\ d.count = c.count /\ d.slot = c.slot /\ d.mem = c.mem
        /\ d.next = c.next /\ d.reg = R
    BY <1>1, <1>2 DEF CGType
  <1>5. SlotInv(d)
    BY <1>4, SlotInvFrame
  <1> QED
    BY <1>3, <1>4, <1>5 DEF d

(* An instruction that writes register r changes nothing else.             *)
LEMMA WriteOK ==
  ASSUME NEW c \in CGType, SlotInv(c), NEW r \in Regs, NEW v \in Val
  PROVE  /\ Write(c, r, v) \in CGType
         /\ SlotInv(Write(c, r, v))
         /\ Write(c, r, v).used = c.used
         /\ Write(c, r, v).spilled = c.spilled
         /\ Write(c, r, v).ever = c.ever
         /\ Write(c, r, v).count = c.count
         /\ Write(c, r, v).slot = c.slot
         /\ Write(c, r, v).mem = c.mem
         /\ \A s \in Regs : Write(c, r, v).reg[s] = IF s = r THEN v ELSE c.reg[s]
  <1>1. [c.reg EXCEPT ![r] = v] \in [Regs -> Val]
    BY DEF CGType
  <1>2. Write(c, r, v) = [c EXCEPT !.reg = [c.reg EXCEPT ![r] = v]]
    BY DEF Write
  <1>3. /\ Write(c, r, v) \in CGType
        /\ Write(c, r, v).slot = c.slot /\ Write(c, r, v).next = c.next
        /\ Write(c, r, v).spilled = c.spilled
    BY <1>1, <1>2 DEF CGType
  <1> QED
    BY <1>2, <1>3, SlotInvFrame DEF CGType

-----------------------------------------------------------------------------
CallType == [base : Nat, saved : SUBSET Scratch]

(* Value i of the expression in progress is held in register r.            *)
HeldBelow(r, n) == \E i \in 1 .. n : temps[i].reg = r

(* True in every reachable state, spills or not: used registers are held   *)
(* by somebody, and the registers a pending call will reload are held by   *)
(* values older than the call.                                             *)
Bookkeeping ==
  /\ cg \in CGType /\ SlotInv(cg)
  /\ temps \in Seq(Temp) /\ calls \in Seq(CallType)
  /\ lastCall.got \in Seq(Val) /\ lastCall.want \in Seq(Val)
  /\ \A r \in cg.used : HeldBelow(r, Len(temps))
  /\ cg.spilled \subseteq cg.used
  /\ \A i \in 1 .. Len(temps) : temps[i].reg \in cg.ever
  /\ \A k \in 1 .. Len(calls) :
       /\ calls[k].base <= Len(temps)
       /\ \A r \in calls[k].saved : cg.slot[r] # 0 /\ HeldBelow(r, calls[k].base)
  /\ \A j, k \in 1 .. Len(calls) : j < k => calls[j].base <= calls[k].base

(* True while the function has not spilled: registers are used as a stack, *)
(* value i sits in register i - 1, and a pending call has copies of the    *)
(* live scratch registers in their slots.                                  *)
StackLike ==
  /\ cg.spilled = {}
  /\ Len(temps) <= NumRegs
  /\ cg.used = 0 .. (Len(temps) - 1)
  /\ \A i \in 1 .. Len(temps) :
       temps[i].reg = i - 1 /\ cg.reg[temps[i].reg] = temps[i].val
  /\ \A k \in 1 .. Len(calls) :
       /\ calls[k].saved = Scratch \intersect (0 .. (calls[k].base - 1))
       /\ \A r \in calls[k].saved : cg.mem[cg.slot[r]] = cg.reg[r]
  /\ lastCall.got = lastCall.want

IInv == Bookkeeping /\ (cg.count = 0 => StackLike)

-----------------------------------------------------------------------------
(* Sequence facts: what is left after popping, and after pushing a value.  *)
LEMMA PrefixFacts ==
  ASSUME NEW T, NEW s \in Seq(T), NEW n \in 0 .. Len(s)
  PROVE  /\ SubSeq(s, 1, n) \in Seq(T)
         /\ Len(SubSeq(s, 1, n)) = n
         /\ \A i \in 1 .. n : SubSeq(s, 1, n)[i] = s[i]
  <1>1. \A i \in 1 .. n : s[i] \in T
    BY ElementOfSeq
  <1>2. n \in Int /\ 1 \in Int /\ Len(s) \in Nat
    BY LenProperties
  <1>3. /\ SubSeq(s, 1, n) \in Seq(T)
        /\ Len(SubSeq(s, 1, n)) = IF 1 <= n THEN n - 1 + 1 ELSE 0
        /\ \A i \in 1 .. (n - 1 + 1) : SubSeq(s, 1, n)[i] = s[1 + i - 1]
    BY <1>1, <1>2, SubSeqProperties
  <1> QED
    BY <1>2, <1>3

LEMMA PushFacts ==
  ASSUME NEW s \in Seq(Temp), NEW r \in Regs, NEW v \in Val
  PROVE  /\ Push(s, r, v) \in Seq(Temp)
         /\ Len(Push(s, r, v)) = Len(s) + 1
         /\ \A i \in 1 .. Len(s) : Push(s, r, v)[i] = s[i]
         /\ Push(s, r, v)[Len(s) + 1].reg = r
         /\ Push(s, r, v)[Len(s) + 1].val = v
  <1>1. [reg |-> r, val |-> v] \in Temp
    BY DEF Temp
  <1> QED
    BY <1>1, AppendProperties DEF Push

LEMMA TempFacts ==
  ASSUME Bookkeeping
  PROVE  /\ Len(temps) \in Nat
         /\ Len(calls) \in Nat
         /\ \A i \in 1 .. Len(temps) : temps[i] \in Temp /\ temps[i].reg \in Regs /\ temps[i].val \in Val
         /\ \A k \in 1 .. Len(calls) :
              calls[k] \in CallType /\ calls[k].base \in Nat /\ calls[k].saved \in SUBSET Scratch
         /\ Scratch \subseteq Regs
         /\ Top \in Regs /\ Top \notin Scratch
  <1>1. Len(temps) \in Nat /\ Len(calls) \in Nat
    BY LenProperties DEF Bookkeeping
  <1>2. \A i \in 1 .. Len(temps) : temps[i] \in Temp
    BY ElementOfSeq DEF Bookkeeping
  <1>3. \A k \in 1 .. Len(calls) : calls[k] \in CallType
    BY ElementOfSeq DEF Bookkeeping
  <1>4. Scratch \subseteq Regs /\ Top \in Regs /\ Top \notin Scratch
    BY NumRegsAssumption DEF Scratch, Regs, Top
  <1> QED
    BY <1>1, <1>2, <1>3, <1>4 DEF Temp, CallType

(* Base is a position of the value stack, at or above every call's base.   *)
LEMMA BaseFacts ==
  ASSUME Bookkeeping
  PROVE  /\ Base \in 0 .. Len(temps)
         /\ \A k \in 1 .. Len(calls) : calls[k].base <= Base
  <1>1. CASE calls = <<>>
    BY <1>1, TempFacts, EmptySeq DEF Base
  <1>2. CASE calls # <<>>
    <2>1. Len(calls) \in Nat \ {0}
      BY <1>2, TempFacts, EmptySeq DEF Bookkeeping
    <2>2. Base = calls[Len(calls)].base /\ Len(calls) \in 1 .. Len(calls)
      BY <1>2, <2>1 DEF Base
    <2>3. Base \in 0 .. Len(temps)
      BY <2>1, <2>2, TempFacts DEF Bookkeeping
    <2>4. ASSUME NEW k \in 1 .. Len(calls)
          PROVE  calls[k].base <= Base
      <3>1. CASE k = Len(calls)
        BY <2>2, <3>1, TempFacts
      <3>2. CASE k < Len(calls)
        BY <2>1, <2>2, <3>2 DEF Bookkeeping
      <3> QED
        BY <2>1, <3>1, <3>2
    <2> QED
      BY <2>3, <2>4
  <1> QED
    BY <1>1, <1>2

(* init_spill_slots leaves the per-register slots unassigned.              *)
LEMMA FreshFunctionOK ==
  ASSUME NEW reg \in [Regs -> Val], NEW mem \in [Slots -> Val]
  PROVE  FreshFunction(reg, mem) \in CGType /\ SlotInv(FreshFunction(reg, mem))
  <1> DEFINE f == FreshFunction(reg, mem)
  <1>1. f \in CGType /\ f.next = 24 /\ f.spilled = {} /\ f.slot = [r \in Regs |-> 0]
    BY DEF FreshFunction, CGType
  <1> HIDE DEF f
  <1>2. Owners(f) = {}
    BY <1>1 DEF Owners
  <1>3. Cardinality(Owners(f)) = 0
    BY <1>2, FS_EmptySet
  <1> QED
    BY <1>1, <1>3 DEF SlotInv, f

LEMMA InitInv == Init => IInv
  <1> SUFFICES ASSUME Init PROVE IInv
    OBVIOUS
  <1>1. [r \in Regs |-> 0] \in [Regs -> Val] /\ [o \in Slots |-> 0] \in [Slots -> Val]
    BY ValAssumption
  <1>2. cg \in CGType /\ SlotInv(cg)
    BY <1>1, FreshFunctionOK DEF Init
  <1>3. cg.used = {} /\ cg.spilled = {}
    BY DEF Init, FreshFunction
  <1>4. temps = <<>> /\ calls = <<>> /\ lastCall.got = <<>> /\ lastCall.want = <<>>
    BY DEF Init, NoCall
  <1>5. Len(temps) = 0 /\ Len(calls) = 0 /\ temps \in Seq(Temp) /\ calls \in Seq(CallType)
        /\ <<>> \in Seq(Val)
    BY <1>4, EmptySeq
  <1> QED
    BY <1>2, <1>3, <1>4, <1>5, NumRegsAssumption DEF IInv, Bookkeeping, StackLike, HeldBelow

-----------------------------------------------------------------------------
LEMMA BeginFunctionInv == IInv /\ BeginFunction => IInv'
  <1> SUFFICES ASSUME IInv, BeginFunction PROVE IInv'
    OBVIOUS
  <1>1. cg' \in CGType /\ SlotInv(cg')
    BY FreshFunctionOK DEF BeginFunction, IInv, Bookkeeping, CGType
  <1>2. cg'.used = {} /\ cg'.spilled = {}
    BY DEF BeginFunction, FreshFunction
  <1>3. temps' = <<>> /\ calls' = <<>> /\ lastCall'.got = <<>> /\ lastCall'.want = <<>>
    BY DEF BeginFunction, NoCall
  <1>4. /\ Len(temps') = 0 /\ Len(calls') = 0
        /\ temps' \in Seq(Temp) /\ calls' \in Seq(CallType) /\ <<>> \in Seq(Val)
    BY <1>3, EmptySeq
  <1> QED
    BY <1>1, <1>2, <1>3, <1>4, NumRegsAssumption
    DEF IInv, Bookkeeping, StackLike, HeldBelow

(* While registers are used as a stack, alloc_reg's first free register is *)
(* the one just above the values held.                                     *)
LEMMA FirstFreeIsNext ==
  ASSUME NEW c \in CGType, NEW n \in Nat, c.used = 0 .. (n - 1),
         NEW r \in Regs, IsFirstFree(c, r)
  PROVE  r = n
  <1>1. r \in Nat
    BY NumRegsAssumption DEF Regs
  <1>2. r >= n
    BY <1>1 DEF IsFirstFree
  <1>3. ~(r > n)
    BY <1>1 DEF IsFirstFree
  <1> QED
    BY <1>1, <1>2, <1>3

-----------------------------------------------------------------------------
(* A step that pops the values above m, pushes v held in r and keeps the   *)
(* K outermost calls: what it must respect to keep the bookkeeping.        *)
PopPush(m, K, r, v) ==
  /\ m \in 0 .. Len(temps) /\ K \in 0 .. Len(calls) /\ r \in Regs /\ v \in Val
  /\ temps' = Push(SubSeq(temps, 1, m), r, v)
  /\ calls' = SubSeq(calls, 1, K)
  /\ \A k \in 1 .. K : calls[k].base <= m
  /\ cg' \in CGType /\ SlotInv(cg')
  /\ r \in cg'.ever /\ cg.ever \subseteq cg'.ever
  /\ \A q \in cg'.used : q = r \/ HeldBelow(q, m)
  /\ cg'.spilled \subseteq cg'.used
  /\ \A q \in Regs : cg.slot[q] # 0 => cg'.slot[q] # 0
  /\ lastCall'.got \in Seq(Val) /\ lastCall'.want \in Seq(Val)

LEMMA PopPushBookkeeping ==
  ASSUME Bookkeeping, NEW m, NEW K, NEW r, NEW v, PopPush(m, K, r, v)
  PROVE  /\ Bookkeeping'
         /\ Len(temps') = m + 1
         /\ \A i \in 1 .. m : temps'[i] = temps[i]
         /\ temps'[m + 1].reg = r /\ temps'[m + 1].val = v
         /\ Len(calls') = K
         /\ \A k \in 1 .. K : calls'[k] = calls[k]
  <1> USE DEF PopPush
  <1>1. temps \in Seq(Temp) /\ calls \in Seq(CallType)
    BY DEF Bookkeeping
  <1>2. /\ SubSeq(temps, 1, m) \in Seq(Temp) /\ Len(SubSeq(temps, 1, m)) = m
        /\ \A i \in 1 .. m : SubSeq(temps, 1, m)[i] = temps[i]
    BY <1>1, PrefixFacts
  <1>3. /\ temps' \in Seq(Temp) /\ Len(temps') = m + 1
        /\ \A i \in 1 .. m : temps'[i] = temps[i]
        /\ temps'[m + 1].reg = r /\ temps'[m + 1].val = v
    <2> DEFINE p == SubSeq(temps, 1, m)
    <2>1. p \in Seq(Temp) /\ Len(p) = m /\ temps' = Push(p, r, v)
      BY <1>2
    <2> HIDE DEF p
    <2>2. /\ temps' \in Seq(Temp) /\ Len(temps') = Len(p) + 1
          /\ \A i \in 1 .. Len(p) : temps'[i] = p[i]
          /\ temps'[Len(p) + 1].reg = r /\ temps'[Len(p) + 1].val = v
      BY <2>1, PushFacts
    <2>3. \A i \in 1 .. m : p[i] = temps[i]
      BY <1>2 DEF p
    <2> QED
      BY <2>1, <2>2, <2>3
  <1>4. /\ calls' \in Seq(CallType) /\ Len(calls') = K
        /\ \A k \in 1 .. K : calls'[k] = calls[k]
    BY <1>1, PrefixFacts
  <1>5. m \in Nat /\ K \in Nat /\ m <= Len(temps) /\ K <= Len(calls) /\ Len(calls) \in Nat
        /\ Len(temps) \in Nat
    BY TempFacts
  <1>6. ASSUME NEW q, NEW b \in 0 .. m, HeldBelow(q, b)
        PROVE  \E i \in 1 .. b : temps'[i].reg = q
    <2>1. PICK i \in 1 .. b : temps[i].reg = q
      BY <1>6 DEF HeldBelow
    <2>2. i \in 1 .. m
      BY <1>5
    <2> QED
      BY <1>3, <2>1, <2>2
  <1>7. ASSUME NEW q \in cg'.used
        PROVE  \E i \in 1 .. (m + 1) : temps'[i].reg = q
    <2>1. CASE q = r
      <3>1. m + 1 \in 1 .. (m + 1)
        BY <1>5
      <3> QED
        BY <1>3, <2>1, <3>1
    <2>2. CASE HeldBelow(q, m)
      <3>1. PICK i \in 1 .. m : temps[i].reg = q
        BY <2>2 DEF HeldBelow
      <3>2. i \in 1 .. (m + 1) /\ temps'[i].reg = q
        BY <1>3, <1>5, <3>1
      <3> QED
        BY <3>2
    <2> QED
      BY <2>1, <2>2
  <1>8. ASSUME NEW i \in 1 .. (m + 1)
        PROVE  temps'[i].reg \in cg'.ever
    <2>1. CASE i = m + 1
      BY <1>3, <2>1
    <2>2. CASE i \in 1 .. m
      <3>1. i \in 1 .. Len(temps) /\ temps'[i] = temps[i]
        BY <1>3, <1>5, <2>2
      <3> QED
        BY <3>1 DEF Bookkeeping
    <2> QED
      BY <1>5, <2>1, <2>2
  <1>9. ASSUME NEW k \in 1 .. K
        PROVE  /\ calls'[k].base <= m + 1
               /\ \A q \in calls'[k].saved :
                    cg'.slot[q] # 0 /\ \E i \in 1 .. calls'[k].base : temps'[i].reg = q
    <2>1. k \in 1 .. Len(calls) /\ calls'[k] = calls[k]
      BY <1>4, <1>5
    <2>2. calls[k].base \in 0 .. m /\ calls[k].saved \subseteq Regs
      BY <1>5, <2>1, TempFacts
    <2>3. \A q \in calls[k].saved : cg.slot[q] # 0 /\ HeldBelow(q, calls[k].base)
      BY <2>1 DEF Bookkeeping
    <2> QED
      BY <1>5, <1>6, <2>1, <2>2, <2>3
  <1>10. \A j, k \in 1 .. K : j < k => calls'[j].base <= calls'[k].base
    BY <1>4, <1>5 DEF Bookkeeping
  <1>11. Bookkeeping'
    <2>1. \A k \in 1 .. Len(calls') :
           /\ calls'[k].base <= Len(temps')
           /\ \A q \in calls'[k].saved : cg'.slot[q] # 0 /\ (\E i \in 1 .. calls'[k].base : temps'[i].reg = q)
      BY <1>3, <1>4, <1>5, <1>9
    <2>2. \A q \in cg'.used : \E i \in 1 .. Len(temps') : temps'[i].reg = q
      BY <1>3, <1>7
    <2> QED
      BY <1>3, <1>4, <1>8, <1>10, <2>1, <2>2 DEF Bookkeeping, HeldBelow
  <1> QED
    BY <1>3, <1>4, <1>11

(* The same step in a function that has not spilled.                       *)
PopPushNoSpill(m, K, v) ==
  /\ Len(temps') = m + 1
  /\ \A i \in 1 .. m : temps'[i] = temps[i]
  /\ temps'[m + 1].reg = m /\ temps'[m + 1].val = v
  /\ Len(calls') = K
  /\ \A k \in 1 .. K : calls'[k] = calls[k]
  /\ cg'.spilled = {} /\ cg'.used = 0 .. m
  /\ \A q \in 0 .. (m - 1) : cg'.reg[q] = cg.reg[q]
  /\ cg'.reg[m] = v
  /\ \A q \in Scratch : cg.slot[q] # 0 /\ q < m => cg'.mem[cg'.slot[q]] = cg.mem[cg.slot[q]]
  /\ lastCall'.got = lastCall'.want

LEMMA PopPushStackLike ==
  ASSUME Bookkeeping, StackLike, NEW m, NEW K, NEW v,
         PopPush(m, K, m, v), PopPushNoSpill(m, K, v)
  PROVE  StackLike'
  <1> USE DEF PopPush, PopPushNoSpill
  <1>1. m \in Nat /\ K \in Nat /\ m <= Len(temps) /\ K <= Len(calls)
        /\ Len(temps) \in Nat /\ Len(calls) \in Nat
    BY TempFacts
  <1>2. m + 1 <= NumRegs
    BY <1>1, NumRegsAssumption DEF Regs
  <1>3. ASSUME NEW i \in 1 .. (m + 1)
        PROVE  temps'[i].reg = i - 1 /\ cg'.reg[temps'[i].reg] = temps'[i].val
    <2>1. CASE i = m + 1
      BY <1>1, <2>1
    <2>2. CASE i \in 1 .. m
      <3>1. temps'[i] = temps[i] /\ temps[i].reg = i - 1 /\ cg.reg[i - 1] = temps[i].val
        BY <1>1, <2>2, SMTT(20) DEF StackLike
      <3>2. i - 1 \in 0 .. (m - 1)
        BY <1>1, <2>2
      <3> QED
        BY <3>1, <3>2
    <2> QED
      BY <1>1, <2>1, <2>2
  <1>4. ASSUME NEW k \in 1 .. K
        PROVE  /\ calls'[k].saved = Scratch \intersect (0 .. (calls'[k].base - 1))
               /\ \A q \in calls'[k].saved : cg'.mem[cg'.slot[q]] = cg'.reg[q]
    <2>1. k \in 1 .. Len(calls) /\ calls'[k] = calls[k] /\ calls[k].base \in 0 .. m
      BY <1>1, TempFacts
    <2>2. calls[k].saved = Scratch \intersect (0 .. (calls[k].base - 1))
      BY <2>1 DEF StackLike
    <2>3. ASSUME NEW q \in calls[k].saved
          PROVE  cg'.mem[cg'.slot[q]] = cg'.reg[q]
      <3>1. q \in Scratch /\ q \in 0 .. (m - 1) /\ q < m
        BY <1>1, <2>1, <2>2
      <3>2. cg.slot[q] # 0 /\ cg.mem[cg.slot[q]] = cg.reg[q]
        BY <2>1 DEF Bookkeeping, StackLike
      <3> QED
        BY <3>1, <3>2
    <2> QED
      BY <2>1, <2>2, <2>3
  <1>5. cg'.used = 0 .. (Len(temps') - 1)
    BY <1>1
  <1> QED
    BY <1>1, <1>2, <1>3, <1>4, <1>5 DEF StackLike

-----------------------------------------------------------------------------
LEMMA LoadInv ==
  ASSUME IInv, NEW v \in Val, Load(v)
  PROVE  IInv'
  <1> DEFINE n == Len(temps)
             K == Len(calls)
  <1>1. PICK a \in AllocReg(cg) : cg' = Write(a[2], a[1], v) /\ temps' = Push(temps, a[1], v)
    BY DEF Load
  <1>2. cg \in CGType /\ SlotInv(cg) /\ Bookkeeping
    BY DEF IInv, Bookkeeping
  <1> DEFINE r == a[1]
             c == a[2]
  <1>3. /\ r \in Regs /\ c \in CGType /\ SlotInv(c) /\ c.used = cg.used \union {r}
        /\ c.ever = cg.ever \union {r} /\ c.spilled \subseteq cg.spilled \union {r}
        /\ c.reg = cg.reg
        /\ \A q \in Regs : cg.slot[q] # 0 => c.slot[q] = cg.slot[q]
        /\ c.count = 0 => /\ cg.count = 0 /\ IsFirstFree(cg, r) /\ c.spilled = cg.spilled
                          /\ c.slot = cg.slot /\ c.mem = cg.mem
    BY <1>2, AllocRegOK
  <1>4. cg' = Write(c, r, v) /\ temps' = Push(temps, r, v)
    BY <1>1
  <1> HIDE DEF r, c
  <1>5. /\ cg' \in CGType /\ SlotInv(cg') /\ cg'.used = c.used /\ cg'.spilled = c.spilled
        /\ cg'.ever = c.ever /\ cg'.count = c.count /\ cg'.slot = c.slot /\ cg'.mem = c.mem
        /\ \A q \in Regs : cg'.reg[q] = IF q = r THEN v ELSE c.reg[q]
    BY <1>3, <1>4, WriteOK
  <1>6. /\ n \in 0 .. n /\ K \in 0 .. K /\ n \in Nat /\ K \in Nat
        /\ temps' = Push(SubSeq(temps, 1, n), r, v)
        /\ calls' = SubSeq(calls, 1, K) /\ calls' = calls
    <2>1. temps = SubSeq(temps, 1, n) /\ calls = SubSeq(calls, 1, K)
      BY <1>2, SubSeqFull DEF Bookkeeping
    <2>2. n \in Nat /\ K \in Nat
      BY <1>2, TempFacts
    <2>3. calls' = calls
      BY DEF Load
    <2>4. n \in 0 .. n /\ K \in 0 .. K
      BY <2>2
    <2>5. temps' = Push(SubSeq(temps, 1, n), r, v)
      BY <1>4, <2>1, Zenon
    <2>6. calls' = SubSeq(calls, 1, K)
      BY <2>1, <2>3, Zenon
    <2> QED
      BY <2>2, <2>3, <2>4, <2>5, <2>6
  <1>7. lastCall'.got = <<>> /\ lastCall'.want = <<>> /\ <<>> \in Seq(Val)
    BY EmptySeq DEF Load, NoCall
  <1>8. \A k \in 1 .. K : calls[k].base <= n
    BY <1>2 DEF Bookkeeping
  <1>9. \A q \in cg'.used : q = r \/ HeldBelow(q, n)
    BY <1>2, <1>3, <1>5 DEF Bookkeeping
  <1>10. /\ cg'.spilled \subseteq cg'.used /\ r \in cg'.ever /\ cg.ever \subseteq cg'.ever
         /\ \A q \in Regs : cg.slot[q] # 0 => cg'.slot[q] # 0
    BY <1>2, <1>3, <1>5 DEF Bookkeeping
  <1>11. PopPush(n, K, r, v)
    BY <1>3, <1>5, <1>6, <1>7, <1>8, <1>9, <1>10 DEF PopPush
  <1>12. /\ Bookkeeping'
         /\ Len(temps') = n + 1
         /\ \A i \in 1 .. n : temps'[i] = temps[i]
         /\ temps'[n + 1].reg = r /\ temps'[n + 1].val = v
    BY <1>2, <1>11, PopPushBookkeeping
  <1>13. cg'.count = 0 => StackLike'
    <2> SUFFICES ASSUME cg'.count = 0 PROVE StackLike'
      OBVIOUS
    <2>1. StackLike /\ IsFirstFree(cg, r) /\ c.spilled = cg.spilled /\ c.slot = cg.slot
          /\ c.mem = cg.mem
      BY <1>3, <1>5 DEF IInv
    <2>2. r = n
      BY <1>2, <1>3, <1>6, <2>1, FirstFreeIsNext DEF StackLike
    <2>3. cg'.used = 0 .. n /\ cg'.spilled = {}
      BY <1>3, <1>5, <1>6, <2>1, <2>2 DEF StackLike
    <2>4. \A q \in 0 .. (n - 1) : q \in Regs /\ q # r
      BY <1>3, <1>6, <2>2, NumRegsAssumption DEF Regs
    <2>5. cg'.reg[n] = v /\ \A q \in 0 .. (n - 1) : cg'.reg[q] = cg.reg[q]
      BY <1>3, <1>5, <2>2, <2>4
    <2>6. Len(calls') = K /\ \A k \in 1 .. K : calls'[k] = calls[k]
      BY <1>6
    <2>7. \A q \in Scratch : cg'.mem[cg'.slot[q]] = cg.mem[cg.slot[q]]
      BY <1>5, <2>1
    <2>8. lastCall'.got = lastCall'.want
      BY <1>7
    <2>9. PopPushNoSpill(n, K, v)
      BY <1>12, <2>2, <2>3, <2>5, <2>6, <2>7, <2>8 DEF PopPushNoSpill
    <2> QED
      BY <1>2, <1>11, <2>1, <2>2, <2>9, PopPushStackLike
  <1> QED
    BY <1>12, <1>13 DEF IInv

LEMMA BinaryInv ==
  ASSUME IInv, Binary
  PROVE  IInv'
  <1> DEFINE n == Len(temps)
             m == n - 2
             l == temps[n - 1]
             r == temps[n]
             x == Op(cg.reg[l.reg], cg.reg[r.reg])
             w == Write(cg, l.reg, x)
  <1>1. cg \in CGType /\ SlotInv(cg) /\ Bookkeeping
    BY DEF IInv, Bookkeeping
  <1>2. n \in Nat /\ n >= Base + 2 /\ Base \in 0 .. n
    BY <1>1, TempFacts, BaseFacts DEF Binary
  <1>3. n - 1 \in 1 .. n /\ n \in 1 .. n /\ m \in 0 .. n /\ m >= Base
    BY <1>2
  <1>4. l.reg \in Regs /\ r.reg \in Regs /\ l.val \in Val /\ r.val \in Val
    BY <1>1, <1>3, TempFacts
  <1>5. x \in Val /\ Op(l.val, r.val) \in Val
    BY <1>1, <1>4, OpAssumption DEF CGType
  <1>6. cg' = FreeRegs(w, {r.reg})
    BY DEF Binary, FreeReg
  <1>7. temps' = Push(SubSeq(temps, 1, m), l.reg, Op(l.val, r.val))
    BY DEF Binary
  <1> HIDE DEF m, l, r, x
  <1>8. /\ w \in CGType /\ SlotInv(w) /\ w.used = cg.used /\ w.spilled = cg.spilled
        /\ w.ever = cg.ever /\ w.count = cg.count /\ w.slot = cg.slot /\ w.mem = cg.mem
        /\ \A q \in Regs : w.reg[q] = IF q = l.reg THEN x ELSE cg.reg[q]
    <2>1. cg \in CGType /\ SlotInv(cg) /\ l.reg \in Regs /\ x \in Val
      BY <1>1, <1>4, <1>5
    <2> QED
      BY <2>1, WriteOK
  <1> HIDE DEF w
  <1>9. /\ cg' \in CGType /\ SlotInv(cg') /\ cg'.used = cg.used \ {r.reg}
        /\ cg'.spilled = cg.spilled \ {r.reg} /\ cg'.ever = cg.ever
        /\ cg'.count = cg.count /\ cg'.slot = cg.slot /\ cg'.mem = cg.mem
        /\ cg.spilled = {} => cg'.reg = w.reg
    BY <1>4, <1>8, <1>6, FreeRegsOK
  <1>10. calls' = SubSeq(calls, 1, Len(calls)) /\ Len(calls) \in 0 .. Len(calls) /\ calls' = calls
    BY <1>1, TempFacts, SubSeqFull DEF Binary, Bookkeeping
  <1>11. lastCall'.got = <<>> /\ lastCall'.want = <<>> /\ <<>> \in Seq(Val)
    BY EmptySeq DEF Binary, NoCall
  <1>12. \A k \in 1 .. Len(calls) : calls[k].base <= m
    BY <1>1, <1>2, <1>3, BaseFacts, TempFacts
  <1>13. l.reg \in cg'.ever /\ cg.ever \subseteq cg'.ever
    BY <1>1, <1>3, <1>9 DEF Bookkeeping, l
  <1>14. ASSUME NEW q \in cg'.used
         PROVE  q = l.reg \/ HeldBelow(q, m)
    <2>1. q \in cg.used /\ q # r.reg
      BY <1>9
    <2>2. PICK i \in 1 .. n : temps[i].reg = q
      BY <1>1, <2>1 DEF Bookkeeping, HeldBelow
    <2>3. i # n
      BY <2>1, <2>2 DEF r
    <2>4. i = n - 1 \/ i \in 1 .. m
      BY <1>2, <2>2, <2>3 DEF m
    <2> QED
      BY <2>2, <2>4 DEF HeldBelow, l
  <1>15. cg'.spilled \subseteq cg'.used
    BY <1>1, <1>9 DEF Bookkeeping
  <1>16. PopPush(m, Len(calls), l.reg, Op(l.val, r.val))
    BY <1>3, <1>4, <1>5, <1>7, <1>9, <1>10, <1>11, <1>12, <1>13, <1>14, <1>15 DEF PopPush
  <1>17. /\ Bookkeeping'
         /\ Len(temps') = m + 1
         /\ \A i \in 1 .. m : temps'[i] = temps[i]
         /\ temps'[m + 1].reg = l.reg /\ temps'[m + 1].val = Op(l.val, r.val)
    BY <1>1, <1>16, PopPushBookkeeping
  <1>18. cg'.count = 0 => StackLike'
    <2> SUFFICES ASSUME cg'.count = 0 PROVE StackLike'
      OBVIOUS
    <2>1. StackLike
      BY <1>9 DEF IInv
    <2>2. l.reg = m /\ r.reg = m + 1 /\ cg.reg[m] = l.val /\ cg.reg[m + 1] = r.val
      BY <1>2, <1>3, <2>1 DEF StackLike, l, r, m
    <2>3. cg'.reg = w.reg /\ cg'.spilled = {}
      BY <1>9, <2>1 DEF StackLike
    <2>4. cg'.used = 0 .. m
      BY <1>2, <1>9, <2>1, <2>2 DEF StackLike, m
    <2>5. x = Op(l.val, r.val)
      BY <2>2 DEF x
    <2>6. \A q \in 0 .. (m - 1) : q \in Regs /\ q # m
      BY <1>2, <1>4, <2>2, NumRegsAssumption DEF Regs, m
    <2>7. cg'.reg[m] = Op(l.val, r.val) /\ \A q \in 0 .. (m - 1) : cg'.reg[q] = cg.reg[q]
      BY <1>4, <1>8, <2>2, <2>3, <2>5, <2>6
    <2>8. PopPushNoSpill(m, Len(calls), Op(l.val, r.val))
      <3>1. Len(calls') = Len(calls) /\ \A k \in 1 .. Len(calls) : calls'[k] = calls[k]
        BY <1>10
      <3>2. \A q \in Scratch : cg'.mem[cg'.slot[q]] = cg.mem[cg.slot[q]]
        BY <1>9
      <3>3. /\ Len(temps') = m + 1 /\ \A i \in 1 .. m : temps'[i] = temps[i]
            /\ temps'[m + 1].reg = m /\ temps'[m + 1].val = Op(l.val, r.val)
        BY <1>17, <2>2
      <3>4. lastCall'.got = lastCall'.want
        BY <1>11
      <3> QED
        BY <2>3, <2>4, <2>7, <3>1, <3>2, <3>3, <3>4 DEF PopPushNoSpill
    <2> QED
      BY <1>1, <1>16, <2>1, <2>2, <2>8, PopPushStackLike
  <1> QED
    BY <1>17, <1>18 DEF IInv

LEMMA DiscardInv ==
  ASSUME IInv, Discard
  PROVE  IInv'
  <1> DEFINE n == Len(temps)
             m == n - 1
             r == temps[n].reg
  <1>1. cg \in CGType /\ SlotInv(cg) /\ Bookkeeping
    BY DEF IInv, Bookkeeping
  <1>2. n \in Nat /\ n >= Base + 1 /\ Base \in 0 .. n
    BY <1>1, TempFacts, BaseFacts DEF Discard
  <1>3. n \in 1 .. n /\ m \in 0 .. n /\ m >= Base
    BY <1>2
  <1>4. r \in Regs
    BY <1>1, <1>3, TempFacts
  <1>5. cg' = FreeRegs(cg, {r})
    BY DEF Discard, FreeReg
  <1>6. /\ cg' \in CGType /\ SlotInv(cg') /\ cg'.used = cg.used \ {r}
        /\ cg'.spilled = cg.spilled \ {r} /\ cg'.ever = cg.ever
        /\ cg'.count = cg.count /\ cg'.slot = cg.slot /\ cg'.mem = cg.mem
        /\ cg.spilled = {} => cg'.reg = cg.reg
    BY <1>1, <1>4, <1>5, FreeRegsOK
  <1>7. temps' = SubSeq(temps, 1, m)
    BY DEF Discard
  <1>8. calls' = calls /\ lastCall'.got = <<>> /\ lastCall'.want = <<>> /\ <<>> \in Seq(Val)
    BY EmptySeq DEF Discard, NoCall
  <1>9. temps' \in Seq(Temp) /\ Len(temps') = m /\ \A i \in 1 .. m : temps'[i] = temps[i]
    BY <1>1, <1>3, <1>7, PrefixFacts DEF Bookkeeping
  <1>10. \A k \in 1 .. Len(calls) : calls[k].base <= m /\ calls[k].base \in Nat
    BY <1>1, <1>2, <1>3, BaseFacts, TempFacts
  <1>11. Bookkeeping'
    <2>1. ASSUME NEW q \in cg'.used
          PROVE  \E i \in 1 .. m : temps'[i].reg = q
      <3>1. q \in cg.used /\ q # r
        BY <1>6
      <3>2. PICK i \in 1 .. n : temps[i].reg = q
        BY <1>1, <3>1 DEF Bookkeeping, HeldBelow
      <3>3. i \in 1 .. m
        BY <1>2, <3>1, <3>2
      <3> QED
        BY <1>9, <3>2, <3>3
    <2>2. cg'.spilled \subseteq cg'.used
      BY <1>1, <1>6 DEF Bookkeeping
    <2>3. ASSUME NEW i \in 1 .. m PROVE temps'[i].reg \in cg'.ever
      <3>1. i \in 1 .. n /\ temps'[i] = temps[i]
        BY <1>2, <1>9
      <3> QED
        BY <1>1, <1>6, <3>1 DEF Bookkeeping
    <2>4. ASSUME NEW k \in 1 .. Len(calls), NEW q \in calls[k].saved
          PROVE  cg'.slot[q] # 0 /\ \E i \in 1 .. calls[k].base : temps'[i].reg = q
      <3>1. cg.slot[q] # 0
        BY <1>1 DEF Bookkeeping
      <3>2. PICK i \in 1 .. calls[k].base : temps[i].reg = q
        BY <1>1 DEF Bookkeeping, HeldBelow
      <3>3. i \in 1 .. m
        BY <1>2, <1>10
      <3> QED
        BY <1>6, <1>9, <3>1, <3>2, <3>3
    <2>5. calls \in Seq(CallType) /\ \A j, k \in 1 .. Len(calls) : j < k => calls[j].base <= calls[k].base
      BY <1>1 DEF Bookkeeping
    <2> QED
      BY <1>6, <1>8, <1>9, <1>10, <2>1, <2>2, <2>3, <2>4, <2>5 DEF Bookkeeping, HeldBelow
  <1>12. cg'.count = 0 => StackLike'
    <2> SUFFICES ASSUME cg'.count = 0 PROVE StackLike'
      OBVIOUS
    <2>1. StackLike
      BY <1>6 DEF IInv
    <2>2. r = m
      BY <1>3, <2>1 DEF StackLike
    <2>3. cg'.used = 0 .. (m - 1) /\ cg'.spilled = {} /\ cg'.reg = cg.reg /\ m <= NumRegs
      BY <1>2, <1>6, <2>1, <2>2, NumRegsAssumption DEF StackLike
    <2> QED
      BY <1>2, <1>6, <1>8, <1>9, <2>1, <2>3, SMTT(20) DEF StackLike
  <1> QED
    BY <1>11, <1>12 DEF IInv

-----------------------------------------------------------------------------
(* Saving the scratch registers: each live one has a copy in its slot, and *)
(* the slots of the other registers are not written.                       *)
LEMMA SaveScratchOK ==
  ASSUME NEW c \in CGType, SlotInv(c)
  PROVE  /\ SaveScratch(c) \in CGType /\ SlotInv(SaveScratch(c))
         /\ SaveScratch(c).used = c.used /\ SaveScratch(c).ever = c.ever
         /\ SaveScratch(c).spilled = c.spilled /\ SaveScratch(c).count = c.count
         /\ SaveScratch(c).reg = c.reg
         /\ \A r \in Regs : c.slot[r] # 0 => SaveScratch(c).slot[r] # 0
         /\ \A r \in Scratch \intersect c.used :
              /\ SaveScratch(c).slot[r] # 0
              /\ SaveScratch(c).mem[SaveScratch(c).slot[r]] = c.reg[r]
  <1> DEFINE a == IF 0 \in c.used THEN SaveReg(c, 0) ELSE c
             b == IF 1 \in a.used THEN SaveReg(a, 1) ELSE a
  <1>1. 0 \in Regs /\ 1 \in Regs
    BY NumRegsAssumption DEF Regs
  <1>2. /\ a \in CGType /\ SlotInv(a) /\ a.used = c.used /\ a.ever = c.ever
        /\ a.spilled = c.spilled /\ a.count = c.count /\ a.reg = c.reg
        /\ \A r \in Regs : c.slot[r] # 0 => a.slot[r] # 0
        /\ 0 \in c.used => a.slot[0] # 0 /\ a.mem[a.slot[0]] = c.reg[0]
    <2>1. CASE 0 \in c.used
      BY <1>1, <2>1, SaveRegOK, SMTT(20)
    <2>2. CASE 0 \notin c.used
      BY <2>2
    <2> QED
      BY <2>1, <2>2
  <1>3. SaveScratch(c) = b
    BY <1>2 DEF SaveScratch
  <1> HIDE DEF a
  <1>4. /\ b \in CGType /\ SlotInv(b) /\ b.used = a.used /\ b.ever = a.ever
        /\ b.spilled = a.spilled /\ b.count = a.count /\ b.reg = a.reg
        /\ \A r \in Regs : a.slot[r] # 0 => b.slot[r] # 0
        /\ 1 \in a.used => b.slot[1] # 0 /\ b.mem[b.slot[1]] = a.reg[1]
        /\ a.slot[0] # 0 => b.mem[b.slot[0]] = a.mem[a.slot[0]]
    <2>1. CASE 1 \in a.used
      <3>1. /\ b \in CGType /\ SlotInv(b) /\ b.slot[1] # 0 /\ b.used = a.used /\ b.ever = a.ever
            /\ b.spilled = a.spilled /\ b.count = a.count /\ b.reg = a.reg
            /\ b.mem[b.slot[1]] = a.reg[1]
            /\ \A s \in Regs \ {1} :
                 b.slot[s] = a.slot[s] /\ (a.slot[s] # 0 => b.mem[a.slot[s]] = a.mem[a.slot[s]])
        BY <1>1, <1>2, <2>1, SaveRegOK
      <3>2. \A r \in Regs : a.slot[r] # 0 => b.slot[r] # 0
        BY <3>1
      <3>3. a.slot[0] # 0 => b.mem[b.slot[0]] = a.mem[a.slot[0]]
        BY <1>1, <3>1
      <3> QED
        BY <3>1, <3>2, <3>3
    <2>2. CASE 1 \notin a.used
      BY <1>2, <2>2
    <2> QED
      BY <2>1, <2>2
  <1> HIDE DEF b
  <1>5. ASSUME NEW r \in Scratch \intersect c.used
        PROVE  b.slot[r] # 0 /\ b.mem[b.slot[r]] = c.reg[r]
    <2>1. CASE r = 0
      BY <1>1, <1>2, <1>4, <2>1
    <2>2. CASE r = 1
      BY <1>2, <1>4, <2>2
    <2> QED
      BY <2>1, <2>2 DEF Scratch
  <1> QED
    BY <1>2, <1>3, <1>4, <1>5

LEMMA CallBeginInv ==
  ASSUME IInv, CallBegin
  PROVE  IInv'
  <1> DEFINE n == Len(temps)
             K == Len(calls)
             e == [base |-> n, saved |-> cg.used \intersect Scratch]
  <1>1. cg \in CGType /\ SlotInv(cg) /\ Bookkeeping
    BY DEF IInv, Bookkeeping
  <1>2. n \in Nat /\ K \in Nat /\ Scratch \subseteq Regs
    BY <1>1, TempFacts
  <1>3. e \in CallType /\ calls \in Seq(CallType)
    BY <1>1, <1>2 DEF CallType, Bookkeeping
  <1>4. calls' = Append(calls, e) /\ temps' = temps /\ cg' = SaveScratch(cg)
        /\ lastCall'.got = <<>> /\ lastCall'.want = <<>> /\ <<>> \in Seq(Val)
    BY EmptySeq DEF CallBegin, NoCall
  <1>5. e.base = n /\ e.saved = cg.used \intersect Scratch
    OBVIOUS
  <1> HIDE DEF e
  <1>6. /\ calls' \in Seq(CallType) /\ Len(calls') = K + 1
        /\ \A k \in 1 .. K : calls'[k] = calls[k]
        /\ calls'[K + 1] = e
    BY <1>3, <1>4, AppendProperties
  <1>7. /\ cg' \in CGType /\ SlotInv(cg') /\ cg'.used = cg.used /\ cg'.ever = cg.ever
        /\ cg'.spilled = cg.spilled /\ cg'.count = cg.count /\ cg'.reg = cg.reg
        /\ \A r \in Regs : cg.slot[r] # 0 => cg'.slot[r] # 0
        /\ \A r \in Scratch \intersect cg.used :
              cg'.slot[r] # 0 /\ cg'.mem[cg'.slot[r]] = cg.reg[r]
    BY <1>1, <1>4, SaveScratchOK
  <1>8. Bookkeeping'
    <2>1. ASSUME NEW k \in 1 .. (K + 1)
          PROVE  /\ calls'[k].base <= n
                 /\ \A r \in calls'[k].saved :
                      cg'.slot[r] # 0 /\ \E i \in 1 .. calls'[k].base : temps[i].reg = r
      <3>1. CASE k = K + 1
        <4>1. calls'[k] = e
          BY <1>6, <3>1
        <4> QED
          BY <1>1, <1>2, <1>5, <1>7, <4>1 DEF Bookkeeping, HeldBelow
      <3>2. CASE k \in 1 .. K
        <4>1. calls'[k] = calls[k] /\ calls[k].saved \subseteq Regs /\ calls[k].base <= n
          BY <1>1, <1>2, <1>6, <3>2, TempFacts DEF Bookkeeping
        <4>2. \A r \in calls[k].saved :
                cg.slot[r] # 0 /\ \E i \in 1 .. calls[k].base : temps[i].reg = r
          BY <1>1, <3>2 DEF Bookkeeping, HeldBelow
        <4> QED
          BY <1>7, <4>1, <4>2
      <3> QED
        BY <1>2, <3>1, <3>2
    <2>2. ASSUME NEW j \in 1 .. (K + 1), NEW k \in 1 .. (K + 1), j < k
          PROVE  calls'[j].base <= calls'[k].base
      <3>1. CASE k = K + 1
        BY <1>2, <1>5, <1>6, <2>1, <3>1
      <3>2. CASE k \in 1 .. K
        <4>1. j \in 1 .. K
          BY <1>2, <2>2, <3>2
        <4> QED
          BY <1>1, <1>6, <2>2, <3>2, <4>1 DEF Bookkeeping
      <3> QED
        BY <1>2, <3>1, <3>2
    <2> QED
      BY <1>1, <1>4, <1>6, <1>7, <2>1, <2>2 DEF Bookkeeping, HeldBelow
  <1>9. cg'.count = 0 => StackLike'
    <2> SUFFICES ASSUME cg'.count = 0 PROVE StackLike'
      OBVIOUS
    <2>1. StackLike
      BY <1>7 DEF IInv
    <2>2. ASSUME NEW k \in 1 .. (K + 1)
          PROVE  /\ calls'[k].saved = Scratch \intersect (0 .. (calls'[k].base - 1))
                 /\ calls'[k].saved \subseteq Scratch \intersect cg.used
      <3>1. CASE k = K + 1
        BY <1>5, <1>6, <2>1, <3>1 DEF StackLike
      <3>2. CASE k \in 1 .. K
        <4>1. calls'[k] = calls[k] /\ calls[k].base \in Nat /\ calls[k].base <= n
          BY <1>1, <1>6, <3>2, TempFacts DEF Bookkeeping
        <4>2. calls[k].saved = Scratch \intersect (0 .. (calls[k].base - 1)) /\ cg.used = 0 .. (n - 1)
          BY <2>1, <3>2 DEF StackLike
        <4> QED
          BY <1>2, <4>1, <4>2
      <3> QED
        BY <1>2, <3>1, <3>2
    <2>3. \A k \in 1 .. (K + 1) : \A r \in calls'[k].saved : cg'.mem[cg'.slot[r]] = cg'.reg[r]
      BY <1>7, <2>2
    <2> QED
      BY <1>4, <1>6, <1>7, <2>1, <2>2, <2>3 DEF StackLike
  <1> QED
    BY <1>8, <1>9 DEF IInv

-----------------------------------------------------------------------------
(* The two passes of the argument moves never read %rsi after the second   *)
(* argument has been written to it.                                        *)
LEMMA DeliveredOK ==
  ASSUME NEW c, NEW args \in Seq(Temp), NEW i \in 1 .. Len(args)
  PROVE  Delivered(c, args, i) = c.reg[args[i].reg]
  <1>1. CASE args[i].reg = Top /\ PlacedBefore(args, 2, i)
    <2>1. Pass(args, i) = 0 /\ Pass(args, 2) \in {0, 1}
      BY <1>1 DEF Pass
    <2>2. Pass(args, 2) = 0
      BY <1>1, <2>1 DEF PlacedBefore
    <2>3. args[2].reg = Top
      BY <2>2 DEF Pass
    <2> QED
      BY <1>1, <2>3 DEF Delivered
  <1>2. CASE ~(args[i].reg = Top /\ PlacedBefore(args, 2, i))
    BY <1>2 DEF Delivered
  <1> QED
    BY <1>1, <1>2

(* What the registers hold once the callee has returned and the saved      *)
(* scratch registers are reloaded.                                         *)
LEMMA ReturnOK ==
  ASSUME NEW f \in CGType, SlotInv(f), NEW junk \in Junk,
         NEW saved \in SUBSET Scratch, \A r \in saved : f.slot[r] # 0
  PROVE  LET d == RestoreScratch(Clobber(f, junk), saved) IN
         /\ d \in CGType /\ SlotInv(d)
         /\ d.used = f.used \union saved /\ d.ever = f.ever /\ d.spilled = f.spilled
         /\ d.count = f.count /\ d.slot = f.slot /\ d.mem = f.mem
         /\ \A r \in Regs : d.reg[r] = IF r \in saved THEN f.mem[f.slot[r]]
                                       ELSE IF r \in CallerSaved THEN junk[r] ELSE f.reg[r]
  <1> DEFINE R1 == [r \in Regs |-> IF r \in CallerSaved THEN junk[r] ELSE f.reg[r]]
             g == Clobber(f, junk)
             R2 == [r \in Regs |-> IF r \in saved THEN g.mem[g.slot[r]] ELSE g.reg[r]]
             d == RestoreScratch(g, saved)
  <1>1. Scratch \subseteq Regs /\ CallerSaved \subseteq Regs
    BY NumRegsAssumption DEF Scratch, Regs, Top, CallerSaved
  <1>2. R1 \in [Regs -> Val]
    BY JunkAssumption DEF CGType
  <1>3. g = [f EXCEPT !.reg = R1]
    BY DEF Clobber
  <1> HIDE DEF R1, g
  <1>4. /\ g \in CGType /\ g.used = f.used /\ g.ever = f.ever /\ g.spilled = f.spilled
        /\ g.count = f.count /\ g.slot = f.slot /\ g.mem = f.mem /\ g.next = f.next /\ g.reg = R1
    BY <1>2, <1>3 DEF CGType
  <1>5. \A r \in saved : g.slot[r] \in Slots
    BY <1>1, <1>4 DEF CGType
  <1>6. R2 \in [Regs -> Val] /\ g.used \union saved \in SUBSET Regs
    BY <1>1, <1>4, <1>5 DEF CGType
  <1>7. d = [g EXCEPT !.used = g.used \union saved, !.reg = R2]
    BY DEF RestoreScratch
  <1>8. \A r \in Regs : R2[r] = IF r \in saved THEN f.mem[f.slot[r]] ELSE R1[r]
    BY <1>4
  <1> HIDE DEF R2, d
  <1>9. /\ d \in CGType /\ d.used = g.used \union saved /\ d.ever = g.ever /\ d.spilled = g.spilled
        /\ d.count = g.count /\ d.slot = g.slot /\ d.mem = g.mem /\ d.next = g.next /\ d.reg = R2
    BY <1>4, <1>6, <1>7 DEF CGType
  <1>10. SlotInv(d)
    BY <1>4, <1>9, SlotInvFrame
  <1>11. \A r \in Regs : R1[r] = IF r \in CallerSaved THEN junk[r] ELSE f.reg[r]
    BY DEF R1
  <1> QED
    BY <1>4, <1>8, <1>9, <1>10, <1>11 DEF d, g

LEMMA CallEndInv ==
  ASSUME IInv, NEW junk \in Junk, NEW v \in Val, CallEnd(junk, v)
  PROVE  IInv'
  <1> DEFINE K == Len(calls)
             n == Len(temps)
             b == calls[K].base
             S == calls[K].saved
             args == SubSeq(temps, b + 1, n)
             A == {args[i].reg : i \in 1 .. Len(args)}
             f == FreeRegs(cg, A)
             d == RestoreScratch(Clobber(f, junk), S)
  <1>1. cg \in CGType /\ SlotInv(cg) /\ Bookkeeping /\ calls # <<>>
    BY DEF IInv, Bookkeeping, CallEnd
  <1>2. /\ n \in Nat /\ K \in Nat \ {0} /\ K \in 1 .. K
        /\ Scratch \subseteq Regs /\ Top \in Regs /\ Top \notin Scratch
    BY <1>1, TempFacts, EmptySeq DEF Bookkeeping
  <1>3. /\ b \in 0 .. n /\ S \in SUBSET Scratch
        /\ \A q \in S : cg.slot[q] # 0 /\ HeldBelow(q, b)
        /\ \A k \in 1 .. (K - 1) : calls[k].base <= b
    BY <1>1, <1>2, TempFacts, SMTT(20) DEF Bookkeeping
  <1>4. /\ args \in Seq(Temp) /\ Len(args) = n - b
        /\ \A i \in 1 .. (n - b) : args[i] = temps[b + i]
    <2>1. \A i \in (b + 1) .. n : temps[i] \in Temp
      BY <1>1, <1>2, <1>3, TempFacts
    <2>2. /\ args \in Seq(Temp) /\ Len(args) = IF b + 1 <= n THEN n - (b + 1) + 1 ELSE 0
          /\ \A i \in 1 .. (n - (b + 1) + 1) : args[i] = temps[b + 1 + i - 1]
      BY <1>2, <1>3, <2>1, SubSeqProperties, SMTT(20)
    <2> QED
      BY <1>2, <1>3, <2>2
  <1>5. PICK a \in AllocReg(d) : cg' = Write(a[2], a[1], v)
                                 /\ temps' = Push(SubSeq(temps, 1, b), a[1], v)
    BY DEF CallEnd
  <1>6. /\ calls' = SubSeq(calls, 1, K - 1)
        /\ lastCall'.got = [i \in 1 .. Len(args) |-> Delivered(cg, args, i)]
        /\ lastCall'.want = [i \in 1 .. Len(args) |-> args[i].val]
    BY DEF CallEnd
  <1> HIDE DEF args
  <1>7. /\ A \in SUBSET Regs
        /\ \A i \in (b + 1) .. n : temps[i].reg \in A
        /\ \A q \in A : \E i \in (b + 1) .. n : temps[i].reg = q
    <2>1. ASSUME NEW i \in 1 .. (n - b)
          PROVE  args[i].reg \in Regs /\ b + i \in (b + 1) .. n /\ temps[b + i].reg = args[i].reg
      <3>1. b + i \in (b + 1) .. n /\ b + i \in 1 .. n
        BY <1>2, <1>3
      <3>2. args[i] = temps[b + i] /\ temps[b + i].reg \in Regs
        BY <1>1, <1>4, <3>1, TempFacts
      <3> QED
        BY <3>1, <3>2
    <2>2. ASSUME NEW i \in (b + 1) .. n
          PROVE  i - b \in 1 .. (n - b) /\ temps[i].reg = args[i - b].reg
      <3>1. i - b \in 1 .. (n - b) /\ b + (i - b) = i
        BY <1>2, <1>3
      <3> QED
        BY <1>4, <3>1
    <2>3. A = {args[i].reg : i \in 1 .. (n - b)}
      BY <1>4
    <2> HIDE DEF A, b, n
    <2> QED
      BY <2>1, <2>2, <2>3, SMTT(20)
  <1> HIDE DEF A
  <1>8. /\ f \in CGType /\ SlotInv(f) /\ f.used = cg.used \ A /\ f.spilled = cg.spilled \ A
        /\ f.ever = cg.ever /\ f.count = cg.count /\ f.slot = cg.slot /\ f.mem = cg.mem
        /\ cg.spilled = {} => f.reg = cg.reg
    BY <1>1, <1>7, FreeRegsOK
  <1> HIDE DEF f
  <1>9. /\ d \in CGType /\ SlotInv(d) /\ d.used = f.used \union S /\ d.ever = f.ever
        /\ d.spilled = f.spilled /\ d.count = f.count /\ d.slot = f.slot /\ d.mem = f.mem
        /\ \A r \in Regs : d.reg[r] = IF r \in S THEN f.mem[f.slot[r]]
                                      ELSE IF r \in CallerSaved THEN junk[r] ELSE f.reg[r]
    BY <1>3, <1>8, ReturnOK
  <1> HIDE DEF d
  <1> DEFINE r == a[1]
             c == a[2]
  <1>10. /\ r \in Regs /\ c \in CGType /\ SlotInv(c) /\ c.used = d.used \union {r}
         /\ c.ever = d.ever \union {r} /\ c.spilled \subseteq d.spilled \union {r}
         /\ c.reg = d.reg
         /\ \A q \in Regs : d.slot[q] # 0 => c.slot[q] = d.slot[q]
         /\ c.count = 0 => /\ d.count = 0 /\ IsFirstFree(d, r) /\ c.spilled = d.spilled
                           /\ c.slot = d.slot /\ c.mem = d.mem
    BY <1>5, <1>9, AllocRegOK
  <1>11. cg' = Write(c, r, v) /\ temps' = Push(SubSeq(temps, 1, b), r, v)
    BY <1>5
  <1> HIDE DEF r, c
  <1>12. /\ cg' \in CGType /\ SlotInv(cg') /\ cg'.used = c.used /\ cg'.spilled = c.spilled
         /\ cg'.ever = c.ever /\ cg'.count = c.count /\ cg'.slot = c.slot /\ cg'.mem = c.mem
         /\ \A q \in Regs : cg'.reg[q] = IF q = r THEN v ELSE c.reg[q]
    BY <1>10, <1>11, WriteOK
  <1>13. ASSUME NEW i \in 1 .. Len(args)
         PROVE  /\ lastCall'.got[i] = cg.reg[args[i].reg] /\ lastCall'.got[i] \in Val
                /\ lastCall'.want[i] = args[i].val /\ lastCall'.want[i] \in Val
    <2>1. args[i] \in Temp
      BY <1>4, ElementOfSeq
    <2>2. args[i].reg \in Regs /\ args[i].val \in Val
      BY <2>1 DEF Temp
    <2>3. Delivered(cg, args, i) = cg.reg[args[i].reg]
      BY <1>4, DeliveredOK
    <2> QED
      BY <1>1, <1>6, <2>2, <2>3 DEF CGType
  <1>14. lastCall'.got \in Seq(Val) /\ lastCall'.want \in Seq(Val)
    <2>1. Len(args) \in Nat
      BY <1>4, LenProperties
    <2>2. lastCall'.got \in [1 .. Len(args) -> Val] /\ lastCall'.want \in [1 .. Len(args) -> Val]
      BY <1>6, <1>13
    <2> QED
      BY <2>1, <2>2, SeqDef
  <1>15. ASSUME NEW q \in cg.used, q \notin A
         PROVE  HeldBelow(q, b)
    <2>1. PICK i \in 1 .. n : temps[i].reg = q
      BY <1>1 DEF Bookkeeping, HeldBelow
    <2>2. i \in 1 .. b
      BY <1>2, <1>3, <1>7, <1>15, <2>1
    <2> QED
      BY <2>1, <2>2 DEF HeldBelow
  <1>16. \A q \in cg'.used : q = r \/ HeldBelow(q, b)
    BY <1>3, <1>8, <1>9, <1>10, <1>12, <1>15
  <1>17. cg'.spilled \subseteq cg'.used
    BY <1>1, <1>8, <1>9, <1>10, <1>12 DEF Bookkeeping
  <1>18. r \in cg'.ever /\ cg.ever \subseteq cg'.ever /\ \A q \in Regs : cg.slot[q] # 0 => cg'.slot[q] # 0
    BY <1>8, <1>9, <1>10, <1>12
  <1>19. K - 1 \in 0 .. K /\ b \in 0 .. n
    BY <1>2, <1>3
  <1>20. PopPush(b, K - 1, r, v)
    BY <1>3, <1>6, <1>10, <1>11, <1>12, <1>14, <1>16, <1>17, <1>18, <1>19 DEF PopPush
  <1>21. /\ Bookkeeping'
         /\ Len(temps') = b + 1
         /\ \A i \in 1 .. b : temps'[i] = temps[i]
         /\ temps'[b + 1].reg = r /\ temps'[b + 1].val = v
         /\ Len(calls') = K - 1
         /\ \A k \in 1 .. (K - 1) : calls'[k] = calls[k]
    BY <1>1, <1>20, PopPushBookkeeping
  <1>22. cg'.count = 0 => StackLike'
    <2> SUFFICES ASSUME cg'.count = 0 PROVE StackLike'
      OBVIOUS
    <2>1. /\ IsFirstFree(d, r) /\ c.spilled = d.spilled /\ c.slot = d.slot /\ c.mem = d.mem
          /\ StackLike
      BY <1>8, <1>9, <1>10, <1>12 DEF IInv
    <2>2. S = Scratch \intersect (0 .. (b - 1)) /\ \A q \in S : cg.mem[cg.slot[q]] = cg.reg[q]
      BY <1>2, <2>1 DEF StackLike
    <2>3. A = b .. (n - 1)
      <3>1. \A i \in (b + 1) .. n : temps[i].reg = i - 1
        BY <1>2, <1>3, <2>1 DEF StackLike
      <3>2. \A q \in b .. (n - 1) : q + 1 \in (b + 1) .. n /\ q = temps[q + 1].reg
        BY <1>2, <1>3, <3>1
      <3>3. A \subseteq b .. (n - 1)
        <4> SUFFICES ASSUME NEW q \in A PROVE q \in b .. (n - 1)
          OBVIOUS
        <4>1. PICK i \in (b + 1) .. n : temps[i].reg = q
          BY <1>7
        <4> QED
          BY <1>2, <1>3, <3>1, <4>1
      <3>4. b .. (n - 1) \subseteq A
        BY <1>7, <3>2
      <3> QED
        BY <3>3, <3>4
    <2>4. d.used = 0 .. (b - 1)
      BY <1>2, <1>3, <1>8, <1>9, <2>1, <2>2, <2>3 DEF StackLike
    <2>5. r = b
      BY <1>3, <1>9, <1>10, <2>1, <2>4, FirstFreeIsNext
    <2>6. cg'.used = 0 .. b /\ cg'.spilled = {}
      BY <1>3, <1>8, <1>9, <1>10, <1>12, <2>1, <2>4, <2>5 DEF StackLike
    <2>7. ASSUME NEW q \in 0 .. (b - 1)
          PROVE  cg'.reg[q] = cg.reg[q]
      <3>1. q \in Regs /\ q # r /\ q # Top /\ q < b
        BY <1>3, <1>10, <2>5, NumRegsAssumption DEF Regs, Top
      <3>2. cg'.reg[q] = d.reg[q]
        BY <1>10, <1>12, <3>1
      <3>3. CASE q \in S
        BY <1>8, <1>9, <2>2, <3>1, <3>2, <3>3
      <3>4. CASE q \notin S
        <4>1. q \notin CallerSaved
          BY <2>2, <3>1, <3>4 DEF CallerSaved
        <4>2. f.reg = cg.reg
          BY <1>8, <2>1 DEF StackLike
        <4> QED
          BY <1>9, <3>1, <3>2, <3>4, <4>1, <4>2
      <3> QED
        BY <3>3, <3>4
    <2>8. cg'.reg[b] = v
      BY <1>10, <1>12, <2>5
    <2>9. \A q \in Scratch : cg'.mem[cg'.slot[q]] = cg.mem[cg.slot[q]]
      BY <1>8, <1>9, <1>12, <2>1
    <2>10. lastCall'.got = lastCall'.want
      <3>1. ASSUME NEW i \in 1 .. Len(args)
            PROVE  Delivered(cg, args, i) = args[i].val
        <4>1. Delivered(cg, args, i) = cg.reg[args[i].reg]
          BY <1>4, DeliveredOK
        <4>2. args[i] = temps[b + i] /\ b + i \in 1 .. n
          BY <1>2, <1>3, <1>4, SMTT(20)
        <4> QED
          BY <2>1, <4>1, <4>2 DEF StackLike
      <3> QED
        BY <1>6, <3>1
    <2>11. PopPushNoSpill(b, K - 1, v)
      BY <1>21, <2>5, <2>6, <2>7, <2>8, <2>9, <2>10 DEF PopPushNoSpill
    <2>12. PopPush(b, K - 1, b, v)
      BY <1>20, <2>5
    <2> QED
      BY <1>1, <2>1, <2>11, <2>12, PopPushStackLike
  <1> QED
    BY <1>21, <1>22 DEF IInv

-----------------------------------------------------------------------------
LEMMA StutterInv == IInv /\ UNCHANGED vars => IInv'
  BY DEF IInv, Bookkeeping, StackLike, HeldBelow, SlotInv, Owners, vars

LEMMA StepInv == IInv /\ [Next]_vars => IInv'
  <1> SUFFICES ASSUME IInv, [Next]_vars PROVE IInv'
    OBVIOUS
  <1>1. CASE BeginFunction
    BY <1>1, BeginFunctionInv
  <1>2. ASSUME NEW v \in Val, Load(v) PROVE IInv'
    BY <1>2, LoadInv
  <1>3. CASE Binary
    BY <1>3, BinaryInv
  <1>4. CASE Discard
    BY <1>4, DiscardInv
  <1>5. CASE CallBegin
    BY <1>5, CallBeginInv
  <1>6. ASSUME NEW junk \in Junk, NEW v \in Val, CallEnd(junk, v) PROVE IInv'
    BY <1>6, CallEndInv
  <1>7. CASE UNCHANGED vars
    BY <1>7, StutterInv
  <1> QED
    BY <1>1, <1>2, <1>3, <1>4, <1>5, <1>6, <1>7 DEF Next

LEMMA Invariance == Spec => []IInv
  BY InitInv, StepInv, PTL DEF Spec

(* Type correctness: the allocator's globals stay in range and no slot     *)
(* offset lies outside the NumRegs + 2 slots (80 bytes with 8 registers,   *)
(* the space the parser leaves above the first local variable).            *)
THEOREM TypeCorrect == Spec => []TypeOK
  <1>1. IInv => TypeOK
    BY DEF IInv, Bookkeeping, TypeOK, CallType
  <1> QED
    BY <1>1, Invariance, PTL

(* No two users of the spill area of codegen.c share a slot.               *)
THEOREM SlotSafety == Spec => []SlotsDisjoint
  <1>1. IInv => SlotsDisjoint
    <2> SUFFICES ASSUME IInv PROVE SlotsDisjoint
      OBVIOUS
    <2>1. \A r \in Regs : cg.slot[r] # 0 =>
            cg.slot[r] >= 24 /\ cg.slot[r] < cg.next /\ cg.slot[r] \in Int
      BY DEF IInv, Bookkeeping, SlotInv, CGType, Slots
    <2>2. \A r, s \in Regs : r # s /\ cg.slot[r] # 0 => cg.slot[r] # cg.slot[s]
      BY DEF IInv, Bookkeeping, SlotInv
    <2> QED
      BY <2>1, <2>2 DEF SlotsDisjoint, SpillLogand, SpillAtomicOld
  <1> QED
    BY <1>1, Invariance, PTL

(* The mask the prologue's pushes are computed from covers every register  *)
(* that ever held a value in the function.                                 *)
THEOREM PushesCoverHeld == Spec => []HeldRegsRecorded
  <1>1. IInv => HeldRegsRecorded
    BY DEF IInv, Bookkeeping, HeldRegsRecorded
  <1> QED
    BY <1>1, Invariance, PTL

(* Without spills, gen()'s values survive everything computed and called   *)
(* while they are held.                                                    *)
THEOREM ValuesSurvive == Spec => []TempsIntact
  <1>1. IInv => TempsIntact
    BY DEF IInv, StackLike, TempsIntact, IntactTemp
  <1> QED
    BY <1>1, Invariance, PTL

(* Without spills, every call receives its arguments' values.              *)
THEOREM CallsGetArgs == Spec => []ArgsDelivered
  <1>1. IInv => ArgsDelivered
    BY DEF IInv, StackLike, ArgsDelivered
  <1> QED
    BY <1>1, Invariance, PTL

(* free_reg is called for whatever alloc_reg handed out, spills or not.    *)
THEOREM NothingLeaks == Spec => []NoLeak
  <1>1. IInv => NoLeak
    <2> SUFFICES ASSUME IInv, temps = <<>> PROVE cg.used = {} /\ cg.spilled = {}
      BY DEF NoLeak
    <2>1. Len(temps) = 0
      BY EmptySeq
    <2> QED
      BY <2>1 DEF IInv, Bookkeeping, HeldBelow
  <1> QED
    BY <1>1, Invariance, PTL
=============================================================================
