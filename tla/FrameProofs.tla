---------------------------- MODULE FrameProofs -----------------------------
(***************************************************************************)
(* The frame layout is right for every number of registers, every size and *)
(* every alignment up to 32.  The inductive invariant IInv says between    *)
(* which distances from %rbp each kind of region lies; the properties of   *)
(* Frame follow from it region by region.                                  *)
(***************************************************************************)
EXTENDS Frame, FiniteSetTheorems, TLAPS

Has(r) == IF slot[r] = 0 THEN 0 ELSE 8

(* Spill slots: the next one lies past the ones given out, of which there  *)
(* are three at most.                                                      *)
SlotsBelow40 ==
  /\ nextSlot = 24 + Has(0) + Has(1) + Has(NumRegs - 1)
  /\ \A r \in Spillable : slot[r] <= 40

(* Locals lie between FirstLocal and stack_offset.                         *)
LocalsPlaced ==
  /\ offset >= FirstLocal
  /\ \A a \in locals : a.size >= 4 /\ a.off - a.size >= FirstLocal /\ a.off <= offset
  /\ \A a, b \in locals : a # b => Apart(a, b)

(* Struct buffers lie between stack_size and stack_size + the high-water   *)
(* mark; there are none before the body is generated.                      *)
BuffersPlaced ==
  /\ retOff % 8 = 0
  /\ phase = "parse" => temps = {}
  /\ \A t \in temps : t.size > 0 /\ t.off - t.size >= StackSize /\ t.off <= StackSize + retOff
  /\ \A a, b \in temps : a # b => Apart(a, b)

(* What the frame is sized for.                                            *)
Content == IF variadic THEN VaRegSave ELSE StackSize + retOff + 32

FrameSized ==
  phase = "done" => PushBytes + sub >= Content /\ (PushBytes + sub) % 16 = 0

IInv == TypeOK /\ SlotsBelow40 /\ LocalsPlaced /\ BuffersPlaced /\ FrameSized

-----------------------------------------------------------------------------
(* align_to() rounds up to a multiple of the alignment, by less than the   *)
(* alignment.                                                              *)
LEMMA AlignToUp ==
  ASSUME NEW n \in Nat, NEW a \in {4, 8, 16, 32}
  PROVE  /\ AlignTo(n, a) \in Nat
         /\ AlignTo(n, a) >= n
         /\ AlignTo(n, a) % a = 0
<1>1. CASE a = 4
  BY <1>1 DEF AlignTo
<1>2. CASE a = 8
  BY <1>2 DEF AlignTo
<1>3. CASE a = 16
  BY <1>3 DEF AlignTo
<1>4. CASE a = 32
  BY <1>4 DEF AlignTo
<1> QED
  BY <1>1, <1>2, <1>3, <1>4

(* stack_size covers stack_offset and is a multiple of 16.                 *)
LEMMA StackSizeUp ==
  ASSUME offset \in Nat
  PROVE  StackSize \in Nat /\ StackSize >= offset /\ StackSize % 16 = 0
BY AlignToUp DEF StackSize

(* The pushes take 8 bytes each.                                           *)
LEMMA PushBytesMultiple ==
  ASSUME ever \subseteq CalleeSaved
  PROVE  PushBytes \in Nat /\ PushBytes % 8 = 0
<1>1. IsFiniteSet(CalleeSaved)
  BY FS_Interval, NumRegsAssumption DEF CalleeSaved
<1>2. Cardinality(ever) \in Nat
  BY <1>1, FS_Subset, FS_CardinalityType
<1> QED
  BY <1>2 DEF PushBytes

(* sub_amount makes the frame large enough and 16-aligned.                 *)
LEMMA SubAmountFits ==
  ASSUME NEW need \in Nat, NEW push \in Nat, need % 8 = 0, push % 8 = 0
  PROVE  /\ SubAmount(need, push) \in Nat
         /\ push + SubAmount(need, push) >= need
         /\ (push + SubAmount(need, push)) % 16 = 0
BY DEF SubAmount, AtLeast

-----------------------------------------------------------------------------
LEMMA InitIInv == Init => IInv
<1> SUFFICES ASSUME Init PROVE IInv
  OBVIOUS
<1>1. TypeOK
  <2>1. slot \in [Spillable -> {0} \union {8 * k : k \in 3 .. 5}]
    BY DEF Init
  <2>2. variadic \in BOOLEAN /\ phase \in {"parse", "gen", "done"}
    BY DEF Init
  <2> QED
    BY <2>1, <2>2 DEF Init, TypeOK, FirstLocal
<1>2. SlotsBelow40
  BY NumRegsAssumption DEF Init, SlotsBelow40, Has, Spillable
<1>3. LocalsPlaced /\ BuffersPlaced /\ FrameSized
  BY DEF Init, LocalsPlaced, BuffersPlaced, FrameSized, FirstLocal
<1> QED
  BY <1>1, <1>2, <1>3 DEF IInv

LEMMA NewVarIInv ==
  ASSUME IInv, NEW s \in Sizes, NEW a \in Aligns, NewVar(s, a)
  PROVE  IInv'
<1> DEFINE size == AtLeast(s, 4)
           new == [off |-> offset', size |-> size]
<1>1. s \in Nat /\ size \in Nat /\ size >= 4
  BY SizesAssumption DEF AtLeast
<1>2. AtLeast(a, 4) \in {4, 8, 16, 32}
  BY AlignsAssumption DEF AtLeast
<1>3. offset \in Nat /\ offset >= FirstLocal
  BY DEF IInv, TypeOK, LocalsPlaced
<1>4. offset' = AlignTo(offset + size, AtLeast(a, 4))
  BY DEF NewVar, Place
<1>5. offset' \in Nat /\ offset' >= offset + size
  <2> HIDE DEF size
  <2>1. offset + size \in Nat
    BY <1>1, <1>3
  <2> QED
    BY <1>2, <1>4, <2>1, AlignToUp
<1>6. locals' = locals \union {new}
  BY DEF NewVar
<1>7. new \in Region /\ new.off = offset' /\ new.size = size
  BY <1>1, <1>5 DEF Region
<1> HIDE DEF new, size
<1>8. TypeOK'
  BY <1>5, <1>6, <1>7 DEF IInv, TypeOK, NewVar
<1>9. SlotsBelow40'
  BY DEF IInv, SlotsBelow40, Has, NewVar
<1>10. LocalsPlaced'
  <2>1. \A b \in locals : b \in Region /\ b.off <= offset
    BY DEF IInv, TypeOK, LocalsPlaced
  <2>2. \A b \in locals : Apart(b, new) /\ Apart(new, b)
    BY <1>1, <1>3, <1>5, <1>7, <2>1 DEF Apart, Region
  <2>3. new.size >= 4 /\ new.off - new.size >= FirstLocal /\ new.off <= offset'
    <3>1. offset >= 80
      BY <1>3 DEF FirstLocal
    <3>2. offset' - size >= 80 /\ offset' <= offset'
      <4>1. \A x, y, z \in Nat : x >= y + z /\ y >= 80 => x - z >= 80 /\ x <= x
        OBVIOUS
      <4> QED
        BY <1>1, <1>3, <1>5, <3>1, <4>1
    <3>3. size >= 4
      BY <1>1
    <3> QED
      BY <1>7, <3>2, <3>3, Zenon DEF FirstLocal
  <2>4. \A b \in locals' : b.size >= 4 /\ b.off - b.size >= FirstLocal /\ b.off <= offset'
    BY <1>1, <1>3, <1>5, <1>6, <2>1, <2>3 DEF IInv, LocalsPlaced, Region
  <2>5. \A b, c \in locals' : b # c => Apart(b, c)
    BY <1>6, <2>2 DEF IInv, LocalsPlaced
  <2> QED
    BY <1>1, <1>3, <1>5, <2>4, <2>5 DEF LocalsPlaced, FirstLocal, Apart
<1>11. BuffersPlaced' /\ FrameSized'
  BY DEF IInv, BuffersPlaced, FrameSized, NewVar
<1> QED
  BY <1>8, <1>9, <1>10, <1>11 DEF IInv

(* Steps that leave the regions alone.                                     *)
LEMMA BeginGenIInv ==
  ASSUME IInv, NEW v \in BOOLEAN, BeginGen(v)
  PROVE  IInv'
<1>1. TypeOK'
  BY DEF IInv, TypeOK, BeginGen
<1>2. SlotsBelow40' /\ LocalsPlaced'
  BY DEF IInv, SlotsBelow40, Has, LocalsPlaced, BeginGen, Apart
<1>3. BuffersPlaced' /\ FrameSized'
  BY DEF IInv, BuffersPlaced, FrameSized, BeginGen, StackSize, Apart
<1> QED
  BY <1>1, <1>2, <1>3 DEF IInv

(* Giving out a slot keeps the slots below 40.                             *)
LEMMA SlotStep ==
  ASSUME TypeOK, SlotsBelow40, NEW r \in Spillable, slot[r] = 0,
         slot' = [slot EXCEPT ![r] = SlotFor(r)], nextSlot' = NextAfter(r)
  PROVE  /\ slot' \in [Spillable -> {0} \union {8 * k : k \in 3 .. 5}]
         /\ nextSlot' \in Nat
         /\ SlotsBelow40'
<1>1. Spillable = {0, 1, NumRegs - 1} /\ NumRegs - 1 # 0 /\ NumRegs - 1 # 1
  BY NumRegsAssumption DEF Spillable
<1>2. Has(r) = 0
  BY DEF Has
<1>3. nextSlot \in {24, 32, 40}
  BY <1>1, <1>2 DEF SlotsBelow40, Has
<1>4. slot' = [slot EXCEPT ![r] = nextSlot] /\ nextSlot' = nextSlot + 8
  BY DEF SlotFor, NextAfter
<1>5. slot' \in [Spillable -> {0} \union {8 * k : k \in 3 .. 5}]
  <2>1. nextSlot \in {8 * k : k \in 3 .. 5}
    BY <1>3
  <2> QED
    BY <1>4, <2>1 DEF TypeOK
<1>6. Has(r)' = 8 /\ \A q \in Spillable : q # r => Has(q)' = Has(q)
  BY <1>3, <1>4 DEF Has, TypeOK
<1>7. \A q \in Spillable : Has(q) \in {0, 8}
  BY DEF Has
<1>8. nextSlot' = 24 + Has(0)' + Has(1)' + Has(NumRegs - 1)'
  <2>1. CASE r = 0
    BY <1>1, <1>2, <1>4, <1>6, <1>7, <2>1 DEF SlotsBelow40
  <2>2. CASE r = 1
    BY <1>1, <1>2, <1>4, <1>6, <1>7, <2>2 DEF SlotsBelow40
  <2>3. CASE r = NumRegs - 1
    BY <1>1, <1>2, <1>4, <1>6, <1>7, <2>3 DEF SlotsBelow40
  <2> QED
    BY <1>1, <2>1, <2>2, <2>3
<1>9. \A q \in Spillable : slot'[q] <= 40
  BY <1>3, <1>4 DEF SlotsBelow40, TypeOK
<1>10. Has(NumRegs - 1)' = (IF slot'[NumRegs - 1] = 0 THEN 0 ELSE 8)
  BY DEF Has
<1> QED
  BY <1>3, <1>4, <1>5, <1>8, <1>9 DEF SlotsBelow40

LEMMA UseSlotIInv ==
  ASSUME IInv, NEW r \in Spillable, UseSlot(r)
  PROVE  IInv'
<1>1. /\ slot' \in [Spillable -> {0} \union {8 * k : k \in 3 .. 5}]
      /\ nextSlot' \in Nat
      /\ SlotsBelow40'
  BY SlotStep DEF IInv, UseSlot
<1>2. TypeOK'
  BY <1>1 DEF IInv, TypeOK, UseSlot
<1>3. LocalsPlaced'
  BY DEF IInv, LocalsPlaced, UseSlot, Apart
<1>4. BuffersPlaced' /\ FrameSized'
  BY DEF IInv, BuffersPlaced, FrameSized, UseSlot, StackSize, Apart
<1> QED
  BY <1>1, <1>2, <1>3, <1>4 DEF IInv

LEMMA UseFixedIInv ==
  ASSUME IInv, NEW s \in {{8}, FixedSlots}, UseFixed(s)
  PROVE  IInv'
<1>1. TypeOK'
  BY DEF IInv, TypeOK, UseFixed, FixedSlots
<1>2. SlotsBelow40' /\ LocalsPlaced'
  BY DEF IInv, SlotsBelow40, Has, LocalsPlaced, UseFixed, Apart
<1>3. BuffersPlaced' /\ FrameSized'
  BY DEF IInv, BuffersPlaced, FrameSized, UseFixed, StackSize, Apart
<1> QED
  BY <1>1, <1>2, <1>3 DEF IInv

LEMMA UseRegIInv ==
  ASSUME IInv, NEW r \in CalleeSaved, UseReg(r)
  PROVE  IInv'
<1>1. TypeOK'
  BY DEF IInv, TypeOK, UseReg
<1>2. SlotsBelow40' /\ LocalsPlaced'
  BY DEF IInv, SlotsBelow40, Has, LocalsPlaced, UseReg, Apart
<1>3. BuffersPlaced' /\ FrameSized'
  BY DEF IInv, BuffersPlaced, FrameSized, UseReg, StackSize, Apart
<1> QED
  BY <1>1, <1>2, <1>3 DEF IInv

LEMMA StructBufferIInv ==
  ASSUME IInv, NEW s \in Sizes, NEW u \in {8, 16}, StructBuffer(s, u)
  PROVE  IInv'
<1> DEFINE alloc == AlignTo(s, u)
           new == [off |-> StackSize + (retOff + alloc), size |-> s]
<1>1. s \in Nat /\ s > 0
  BY SizesAssumption DEF StructBuffer
<1>2. alloc \in Nat /\ alloc >= s /\ alloc % 8 = 0
  <2>1. alloc \in Nat /\ alloc >= s /\ alloc % u = 0
    BY <1>1, AlignToUp
  <2> QED
    BY <2>1
<1>3. StackSize \in Nat /\ StackSize' = StackSize
  BY StackSizeUp DEF IInv, TypeOK, StructBuffer, StackSize
<1>4. retOff \in Nat /\ retOff' = retOff + alloc
  BY DEF IInv, TypeOK, StructBuffer
<1>5. temps' = temps \union {new}
  BY DEF StructBuffer, BufferAt
<1> HIDE DEF alloc
<1>6. new \in Region /\ new.off = StackSize + (retOff + alloc) /\ new.size = s
  BY <1>1, <1>2, <1>3, <1>4 DEF Region
<1> HIDE DEF new
<1>7. TypeOK'
  BY <1>2, <1>4, <1>5, <1>6 DEF IInv, TypeOK, StructBuffer
<1>8. SlotsBelow40' /\ LocalsPlaced'
  BY DEF IInv, SlotsBelow40, Has, LocalsPlaced, StructBuffer, Apart
<1>9. BuffersPlaced'
  <2>1. \A t \in temps : t \in Region /\ t.off <= StackSize + retOff
    BY DEF IInv, TypeOK, BuffersPlaced
  <2>2. \A t \in temps : Apart(t, new) /\ Apart(new, t)
    BY <1>1, <1>2, <1>3, <1>4, <1>6, <2>1 DEF Apart, Region
  <2>3. retOff' % 8 = 0
    BY <1>2, <1>4 DEF IInv, BuffersPlaced
  <2>4. \A t \in temps' : /\ t.size > 0
                          /\ t.off - t.size >= StackSize'
                          /\ t.off <= StackSize' + retOff'
    BY <1>1, <1>2, <1>3, <1>4, <1>5, <1>6, <2>1 DEF IInv, BuffersPlaced, Region
  <2>5. \A t, w \in temps' : t # w => Apart(t, w)
    BY <1>5, <2>2 DEF IInv, BuffersPlaced
  <2>6. phase' # "parse"
    BY DEF StructBuffer
  <2> QED
    BY <2>3, <2>4, <2>5, <2>6 DEF BuffersPlaced, Apart
<1>10. FrameSized'
  BY DEF StructBuffer, FrameSized
<1> QED
  BY <1>7, <1>8, <1>9, <1>10 DEF IInv

LEMMA EmitFrameIInv ==
  ASSUME IInv, NEW c \in BOOLEAN, EmitFrame(c)
  PROVE  IInv'
<1>1. /\ StackSize \in Nat /\ StackSize >= offset /\ StackSize % 16 = 0
      /\ offset \in Nat /\ offset >= 80
  BY StackSizeUp DEF IInv, TypeOK, LocalsPlaced, FirstLocal
<1>2. PushBytes \in Nat /\ PushBytes % 8 = 0
  BY PushBytesMultiple DEF IInv, TypeOK
<1>3. retOff \in Nat /\ retOff % 8 = 0
  BY DEF IInv, TypeOK, BuffersPlaced
<1>4. nextSlot \in Nat /\ nextSlot <= 48
  BY DEF IInv, SlotsBelow40, TypeOK, Has
<1>5. Content \in Nat /\ Content % 8 = 0 /\ Content >= 48
  <2>1. CASE variadic
    <3>1. Content = StackSize + 176
      BY <2>1 DEF Content, VaRegSave
    <3> QED
      BY <1>1, <3>1
  <2>2. CASE ~variadic
    <3>1. Content = StackSize + retOff + 32
      BY <2>2 DEF Content
    <3> QED
      BY <1>1, <1>3, <3>1
  <2> QED
    BY <2>1, <2>2
<1>6. Need = Content
  BY <1>4, <1>5 DEF Need, Content, AtLeast
<1>7. sub' = SubAmount(Content, PushBytes)
  BY <1>6 DEF EmitFrame
<1>8. sub' \in Nat /\ PushBytes + sub' >= Content /\ (PushBytes + sub') % 16 = 0
  BY <1>2, <1>5, <1>7, SubAmountFits
<1>9. /\ slot' \in [Spillable -> {0} \union {8 * k : k \in 3 .. 5}]
      /\ nextSlot' \in Nat
      /\ SlotsBelow40'
  <2>1. 0 \in Spillable
    BY DEF Spillable
  <2>2. CASE c /\ slot[0] = 0
    BY <2>1, <2>2, SlotStep DEF IInv, EmitFrame
  <2>3. CASE ~(c /\ slot[0] = 0)
    <3>1. slot' = slot /\ nextSlot' = nextSlot
      BY <2>1, <2>3 DEF IInv, TypeOK, EmitFrame, SlotFor, NextAfter
    <3> QED
      BY <3>1 DEF IInv, TypeOK, SlotsBelow40, Has
  <2> QED
    BY <2>2, <2>3
<1>10. TypeOK'
  BY <1>8, <1>9 DEF IInv, TypeOK, EmitFrame
<1>11. LocalsPlaced'
  BY DEF IInv, LocalsPlaced, EmitFrame, Apart
<1>12. BuffersPlaced'
  BY DEF IInv, BuffersPlaced, EmitFrame, StackSize, Apart
<1>13. FrameSized'
  <2>1. PushBytes' = PushBytes /\ Content' = Content
    BY DEF EmitFrame, PushBytes, Content, VaRegSave, StackSize
  <2> QED
    BY <1>8, <2>1 DEF FrameSized
<1> QED
  BY <1>9, <1>10, <1>11, <1>12, <1>13 DEF IInv

LEMMA NextFunctionIInv ==
  ASSUME NextFunction
  PROVE  IInv'
<1>1. TypeOK'
  <2>1. slot' \in [Spillable -> {0} \union {8 * k : k \in 3 .. 5}]
    BY DEF NextFunction
  <2>2. variadic' \in BOOLEAN /\ phase' \in {"parse", "gen", "done"}
    BY DEF NextFunction
  <2> QED
    BY <2>1, <2>2 DEF NextFunction, TypeOK, FirstLocal
<1>2. SlotsBelow40'
  BY NumRegsAssumption DEF NextFunction, SlotsBelow40, Has, Spillable
<1>3. LocalsPlaced' /\ BuffersPlaced' /\ FrameSized'
  BY DEF NextFunction, LocalsPlaced, BuffersPlaced, FrameSized, FirstLocal
<1> QED
  BY <1>1, <1>2, <1>3 DEF IInv

LEMMA StutterIInv ==
  ASSUME IInv, UNCHANGED vars
  PROVE  IInv'
<1>1. TypeOK'
  BY DEF IInv, TypeOK, vars
<1>2. SlotsBelow40' /\ LocalsPlaced'
  BY DEF IInv, SlotsBelow40, Has, LocalsPlaced, vars, Apart
<1>3. BuffersPlaced'
  BY DEF IInv, BuffersPlaced, vars, StackSize, Apart
<1>4. FrameSized'
  BY DEF IInv, FrameSized, vars, PushBytes, Content, VaRegSave, StackSize
<1> QED
  BY <1>1, <1>2, <1>3, <1>4 DEF IInv

LEMMA FrameInductive == Spec => []IInv
<1>1. IInv /\ [Next]_vars => IInv'
  BY NewVarIInv, BeginGenIInv, UseSlotIInv, UseFixedIInv, UseRegIInv,
     StructBufferIInv, EmitFrameIInv, NextFunctionIInv, StutterIInv DEF Next
<1> QED
  BY InitIInv, <1>1, PTL DEF Spec

-----------------------------------------------------------------------------
(* Every variable of the frame layout keeps its type.                      *)
THEOREM FrameTypeCorrect == Spec => []TypeOK
<1>1. IInv => TypeOK
  BY DEF IInv
<1> QED
  BY <1>1, FrameInductive, PTL

(* new_var() never gives out a byte twice, and never a byte of a slot,     *)
(* whatever the sizes and alignments.                                      *)
THEOREM LocalsNeverOverlap == Spec => []LocalsApart
<1>1. IInv => LocalsApart
  <2> SUFFICES ASSUME IInv PROVE LocalsApart
    OBVIOUS
  <2>1. \A s \in Slots : s.off \in Nat /\ s.size = 8 /\ s.off <= 40
    BY DEF IInv, TypeOK, SlotsBelow40, Slots, FixedSlots
  <2>2. \A a \in locals : a \in Region /\ a.off - a.size >= 80
    BY DEF IInv, TypeOK, LocalsPlaced, FirstLocal
  <2>3. \A a \in locals, s \in Slots : Apart(a, s)
    BY <2>1, <2>2 DEF Apart, Region
  <2> QED
    BY <2>3 DEF IInv, LocalsPlaced, LocalsApart
<1> QED
  BY <1>1, FrameInductive, PTL

(* gen_funcall()'s struct buffers overlap nothing that is in use.          *)
THEOREM BuffersNeverOverlap == Spec => []BuffersApart
<1>1. IInv => BuffersApart
  <2> SUFFICES ASSUME IInv PROVE BuffersApart
    OBVIOUS
  <2>1. StackSize \in Nat /\ StackSize >= offset /\ offset >= 80
    BY StackSizeUp DEF IInv, TypeOK, LocalsPlaced, FirstLocal
  <2>2. offset \in Nat
    BY DEF IInv, TypeOK
  <2>3. \A s \in Slots : s.off \in Nat /\ s.off <= 40
    BY DEF IInv, TypeOK, SlotsBelow40, Slots, FixedSlots
  <2>4. \A a \in locals : a \in Region /\ a.off <= offset
    BY DEF IInv, TypeOK, LocalsPlaced
  <2>5. \A t \in temps : t \in Region /\ t.off - t.size >= StackSize
    BY DEF IInv, TypeOK, BuffersPlaced
  <2>6. \A t \in temps, b \in locals \union Slots : Apart(t, b)
    BY <2>1, <2>2, <2>3, <2>4, <2>5 DEF Apart, Region
  <2> QED
    BY <2>6 DEF IInv, BuffersPlaced, BuffersApart
<1> QED
  BY <1>1, FrameInductive, PTL

(* The subq of the prologue leaves every region above %rsp.                *)
THEOREM FrameLargeEnough == Spec => []FrameCovers
<1>1. IInv => FrameCovers
  <2> SUFFICES ASSUME IInv, phase = "done",
                      NEW g \in locals \union Slots \union SaveArea
                                  \union (IF variadic THEN {} ELSE temps)
               PROVE  g.off <= PushBytes + sub
    BY DEF FrameCovers
  <2>1. StackSize \in Nat /\ StackSize >= offset /\ offset >= 80 /\ offset \in Nat
    BY StackSizeUp DEF IInv, TypeOK, LocalsPlaced, FirstLocal
  <2>2. PushBytes \in Nat /\ sub \in Nat /\ retOff \in Nat
    BY PushBytesMultiple DEF IInv, TypeOK
  <2>3. PushBytes + sub >= Content
    BY DEF IInv, FrameSized
  <2>4. Content >= StackSize /\ Content \in Nat
    BY <2>1, <2>2 DEF Content, VaRegSave
  <2>5. CASE g \in locals
    <3>1. g.off \in Nat /\ g.off <= offset
      BY <2>5 DEF IInv, TypeOK, LocalsPlaced, Region
    <3> QED
      BY <2>1, <2>2, <2>3, <2>4, <3>1
  <2>6. CASE g \in Slots
    <3>1. g.off \in Nat /\ g.off <= 40
      BY <2>6 DEF IInv, TypeOK, SlotsBelow40, Slots, FixedSlots
    <3> QED
      BY <2>1, <2>2, <2>3, <2>4, <3>1
  <2>7. CASE g \in SaveArea
    <3>1. g.off = VaRegSave /\ variadic
      BY <2>7 DEF SaveArea
    <3> QED
      BY <2>3, <3>1 DEF Content
  <2>8. CASE ~variadic /\ g \in temps
    <3>1. g.off \in Nat /\ g.off <= StackSize + retOff
      BY <2>8 DEF IInv, TypeOK, BuffersPlaced, Region
    <3>2. Content = StackSize + retOff + 32
      BY <2>8 DEF Content
    <3> QED
      BY <2>1, <2>2, <2>3, <3>1, <3>2
  <2> QED
    BY <2>5, <2>6, <2>7, <2>8
<1> QED
  BY <1>1, FrameInductive, PTL

(* Calls are made with %rsp 16-aligned and the save area can be stored to  *)
(* with movaps.                                                            *)
THEOREM FrameAligned == Spec => []StackAligned
<1>1. IInv => StackAligned
  <2> SUFFICES ASSUME IInv, phase = "done"
               PROVE  /\ (PushBytes + sub) % 16 = 0
                      /\ \A g \in SaveArea : g.off % 16 = 0
    BY DEF StackAligned
  <2>1. StackSize \in Nat /\ StackSize % 16 = 0
    BY StackSizeUp DEF IInv, TypeOK
  <2>2. VaRegSave % 16 = 0
    BY <2>1 DEF VaRegSave
  <2> QED
    BY <2>2 DEF IInv, FrameSized, SaveArea
<1> QED
  BY <1>1, FrameInductive, PTL

=============================================================================
