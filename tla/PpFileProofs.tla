---------------------------- MODULE PpFileProofs ----------------------------
(***************************************************************************)
(* The conditional stack of preprocess_file() implements C's rule for      *)
(* every nesting and every chain of groups, and the line counters are      *)
(* right as far as LineMacroExact and NewlinesConserved claim, for files   *)
(* of any length.                                                          *)
(*                                                                         *)
(* SelectedLinesActive is not inductive: #endif restores parent_active and *)
(* #elif consults branch_taken, so the invariant CondsOK says what these   *)
(* two mean for every open conditional.                                    *)
(*                                                                         *)
(* LineMacroExact is not inductive either: acc_line_no is read lines after *)
(* it was set, and line_no only catches up when the loop's last statement  *)
(* is reached, which is an #include later for the activations below the    *)
(* innermost.  Reading and Waiting say how the counters stand in the one   *)
(* and in the others.                                                      *)
(***************************************************************************)
EXTENDS PpFile, SequenceTheorems, TLAPS

(* The k outermost groups of f are all selected.                           *)
AllSelected(f, k) == \A i \in 1 .. k : Selected(f.groups[i])

SomeTrue(g) == \E j \in 1 .. Len(g.vals) : g.vals[j]

(* parent_active: all enclosing groups are selected.  branch_taken: some   *)
(* condition of the chain held; meaningful where the parent is active.     *)
CondOK(f, i) ==
  /\ f.conds[i].parent <=> AllSelected(f, i - 1)
  /\ f.conds[i].parent => (f.conds[i].taken <=> SomeTrue(f.groups[i]))

CondsOK(f) ==
  /\ f.active <=> AllSelected(f, Len(f.groups))
  /\ \A i \in 1 .. Len(f.groups) : CondOK(f, i)

Shape(f) ==
  /\ f \in FrameType
  /\ Len(f.conds) = Len(f.groups)
  /\ \A i \in 1 .. Len(f.groups) : Len(f.groups[i].vals) > 0

FrameOK(f) == Shape(f) /\ (f.wf => CondsOK(f))

(* The activation that reads: every count taken was added to line_no, and  *)
(* acc_line_no is the line on which the text held back begins.             *)
Reading(f) ==
  /\ f.counts = <<>>
  /\ f.acc < f.src
  /\ f.incs = 0 => f.lineNo = f.src /\ (f.acc > 0 => f.accLine = f.src - f.acc)

(* An activation below it: the #include line is read but not counted yet.  *)
Waiting(f) ==
  /\ f.counts = <<1>>
  /\ f.acc = 0 /\ 0 < f.src
  /\ f.incs = 0 => f.lineNo + 1 = f.src

(* What __LINE__ stands for is true where it is meant to be.               *)
Told(e) ==
  /\ e \in [said : Nat, real : Nat, exact : BOOLEAN]
  /\ e.exact => e.said = e.real

(* The lexer's line, in the source file up to its second #include.         *)
LexOK ==
  /\ lex \in [err : Nat, tok : Nat]
  /\ NewlinesConserved

Rest ==
  /\ once \subseteq Files \union {Root}
  /\ Told(expanded)
  /\ phase \in {"run", "done", "failed"}

FramesOK ==
  /\ frames \in Seq(FrameType) /\ Len(frames) > 0
  /\ \A k \in 1 .. Len(frames) : FrameOK(frames[k])
  /\ \A k \in 1 .. (Len(frames) - 1) : Waiting(frames[k])
  /\ Reading(frames[Len(frames)])

IInv == FramesOK /\ LexOK /\ Rest

-----------------------------------------------------------------------------
(* A new activation has no open conditional.                               *)
LEMMA NewFrameOK ==
  ASSUME NEW f \in Files \union {Root}
  PROVE  FrameOK(NewFrame(f)) /\ Reading(NewFrame(f))
<1> DEFINE g == NewFrame(f)
<1>1. g \in FrameType
  BY DEF NewFrame, FrameType
<1>2. g.groups = <<>> /\ g.conds = <<>> /\ g.active = TRUE /\ g.counts = <<>>
      /\ g.lineNo = 1 /\ g.src = 1 /\ g.acc = 0
  BY DEF NewFrame
<1>3. CondsOK(g)
  BY <1>2 DEF CondsOK, AllSelected
<1> QED
  BY <1>1, <1>2, <1>3 DEF FrameOK, Shape, Reading

(* #if, #ifdef, #ifndef.                                                   *)
LEMMA OpenCondOK ==
  ASSUME NEW f, FrameOK(f), NEW v \in BOOLEAN
  PROVE  FrameOK(OpenCond(f, v))
<1> DEFINE a == f.active /\ v
           c == [parent |-> f.active, active |-> a, taken |-> a]
           h == [vals |-> <<v>>, els |-> FALSE]
           g == OpenCond(f, v)
           m == Len(f.groups)
<1>1. f \in FrameType /\ f.groups \in Seq(Group) /\ f.conds \in Seq(Cond)
      /\ Len(f.conds) = m /\ m \in Nat /\ f.active \in BOOLEAN
  BY DEF FrameOK, Shape, FrameType
<1>2. c \in Cond /\ h \in Group
  BY <1>1 DEF Cond, Group
<1>3. g = [f EXCEPT !.conds = Append(@, c), !.groups = Append(@, h), !.active = a]
  BY DEF OpenCond
<1>4. c.parent = f.active /\ c.taken = a /\ h.vals = <<v>>
  OBVIOUS
<1> HIDE DEF c, h
<1>5. /\ g.conds = Append(f.conds, c) /\ g.groups = Append(f.groups, h) /\ g.active = a
      /\ g.wf = f.wf
  BY <1>1, <1>3 DEF FrameType
<1>6. g \in FrameType
  <2>1. Append(f.conds, c) \in Seq(Cond) /\ Append(f.groups, h) \in Seq(Group)
    BY <1>1, <1>2
  <2>2. a \in BOOLEAN
    BY <1>1
  <2> HIDE DEF a
  <2> QED
    BY <1>1, <1>3, <2>1, <2>2 DEF FrameType
<1> HIDE DEF g
<1>7. /\ Len(g.conds) = m + 1 /\ Len(g.groups) = m + 1
      /\ \A i \in 1 .. m : g.conds[i] = f.conds[i] /\ g.groups[i] = f.groups[i]
      /\ g.conds[m + 1] = c /\ g.groups[m + 1] = h
  BY <1>1, <1>2, <1>5
<1>8. Selected(h) <=> v
  BY <1>4 DEF Selected
<1>9. SomeTrue(h) <=> v
  BY <1>4 DEF SomeTrue
<1>10. Shape(g)
  <2>1. Len(h.vals) > 0
    BY <1>4
  <2>2. \A i \in 1 .. m : Len(f.groups[i].vals) > 0
    BY DEF FrameOK, Shape
  <2>3. \A i \in 1 .. (m + 1) : i \in 1 .. m \/ i = m + 1
    BY <1>1
  <2>4. \A i \in 1 .. (m + 1) : Len(g.groups[i].vals) > 0
    BY <1>7, <2>1, <2>2, <2>3
  <2> QED
    BY <1>6, <1>7, <2>4 DEF Shape
<1>11. ASSUME f.wf PROVE CondsOK(g)
  <2>1. CondsOK(f)
    BY <1>11 DEF FrameOK
  <2>2. \A k \in 0 .. m : AllSelected(g, k) <=> AllSelected(f, k)
    BY <1>1, <1>7 DEF AllSelected
  <2>3. f.active <=> AllSelected(g, m)
    BY <1>1, <2>1, <2>2 DEF CondsOK
  <2>4. AllSelected(g, m + 1) <=> AllSelected(g, m) /\ Selected(g.groups[m + 1])
    BY <1>1 DEF AllSelected
  <2>5. g.active <=> AllSelected(g, m + 1)
    BY <1>5, <1>7, <1>8, <2>3, <2>4
  <2>6. \A i \in 1 .. m : CondOK(g, i)
    <3> SUFFICES ASSUME NEW i \in 1 .. m PROVE CondOK(g, i)
      OBVIOUS
    <3>1. CondOK(f, i)
      BY <2>1 DEF CondsOK
    <3>2. i - 1 \in 0 .. m
      BY <1>1
    <3> QED
      BY <1>7, <2>2, <3>1, <3>2 DEF CondOK
  <2>7. CondOK(g, m + 1)
    <3>1. (m + 1) - 1 = m
      BY <1>1
    <3> QED
      BY <1>4, <1>7, <1>9, <2>3, <3>1 DEF CondOK
  <2> QED
    BY <1>1, <1>7, <2>5, <2>6, <2>7 DEF CondsOK
<1>12. FrameOK(g)
  BY <1>5, <1>10, <1>11 DEF FrameOK
<1> QED
  BY <1>12 DEF g

(* The common part of #elif and #else: the innermost conditional becomes   *)
(* c2 and its chain gets the condition v.                                  *)
LEMMA NextGroupOK ==
  ASSUME NEW f, FrameOK(f), f.conds # <<>>,
         NEW v \in BOOLEAN, NEW e \in BOOLEAN, NEW c2 \in Cond,
         c2.parent = Inner(f).parent,
         c2.active <=> (c2.parent /\ ~Inner(f).taken /\ v),
         c2.parent => (c2.taken <=> (Inner(f).taken \/ v))
  PROVE  FrameOK(NextGroup(SetInner(f, c2), v, e))
<1> DEFINE m == Len(f.groups)
           s == SetInner(f, c2)
           h0 == f.groups[m]
           h == [vals |-> Append(h0.vals, v), els |-> e]
           g == NextGroup(s, v, e)
<1>1. f \in FrameType /\ f.groups \in Seq(Group) /\ f.conds \in Seq(Cond)
      /\ Len(f.conds) = m /\ m \in Nat /\ m > 0 /\ f.active \in BOOLEAN
  BY DEF FrameOK, Shape, FrameType
<1>2. h0 \in Group /\ Len(h0.vals) > 0
  BY <1>1 DEF FrameOK, Shape
<1>3. h0.vals \in Seq(BOOLEAN) /\ h0.els \in BOOLEAN
  BY <1>2 DEF Group
<1>4. /\ s = [f EXCEPT !.conds = [f.conds EXCEPT ![m] = c2], !.active = c2.active]
      /\ Inner(f) = f.conds[m]
  BY <1>1 DEF SetInner, Inner
<1>5. c2.active \in BOOLEAN /\ [f.conds EXCEPT ![m] = c2] \in Seq(Cond)
  BY <1>1 DEF Cond
<1>6. /\ s.conds = [f.conds EXCEPT ![m] = c2] /\ s.active = c2.active /\ s.groups = f.groups
      /\ s.wf = f.wf /\ s \in FrameType
  BY <1>1, <1>4, <1>5 DEF FrameType
<1> HIDE DEF s
<1>7. g = [s EXCEPT !.groups = [f.groups EXCEPT ![m] = h], !.wf = f.wf /\ ~h0.els]
  BY <1>6 DEF NextGroup, FrameType
<1>8. h \in Group /\ h.vals = Append(h0.vals, v)
  <2>1. Append(h0.vals, v) \in Seq(BOOLEAN)
    BY <1>3
  <2> QED
    BY <2>1 DEF Group
<1> HIDE DEF h
<1>9. [f.groups EXCEPT ![m] = h] \in Seq(Group)
  BY <1>1, <1>8
<1>10. (f.wf /\ ~h0.els) \in BOOLEAN
  OBVIOUS
<1>11. /\ g.conds = s.conds /\ g.active = s.active /\ g.groups = [f.groups EXCEPT ![m] = h]
       /\ (g.wf => f.wf) /\ g \in FrameType
  BY <1>6, <1>7, <1>9, <1>10 DEF FrameType
<1> HIDE DEF g, h0
<1>12. /\ Len(g.conds) = m /\ Len(g.groups) = m
       /\ \A i \in 1 .. m : i # m => g.conds[i] = f.conds[i] /\ g.groups[i] = f.groups[i]
       /\ g.conds[m] = c2 /\ g.groups[m] = h
  BY <1>1, <1>6, <1>11
<1>13. /\ Len(h.vals) = Len(h0.vals) + 1
       /\ h.vals[Len(h0.vals) + 1] = v
       /\ \A j \in 1 .. Len(h0.vals) : h.vals[j] = h0.vals[j]
  BY <1>3, <1>8
<1>14. SomeTrue(h) <=> (SomeTrue(h0) \/ v)
  BY <1>3, <1>13 DEF SomeTrue
<1>15. Selected(h) <=> (v /\ ~SomeTrue(h0))
  <2>1. (Len(h0.vals) + 1) - 1 = Len(h0.vals)
    BY <1>3
  <2> QED
    BY <1>13, <2>1 DEF Selected, SomeTrue
<1>16. Shape(g)
  <2>1. Len(h.vals) > 0
    BY <1>3, <1>13
  <2> QED
    BY <1>1, <1>11, <1>12, <2>1 DEF FrameOK, Shape
<1>17. ASSUME f.wf PROVE CondsOK(g)
  <2>1. CondsOK(f)
    BY <1>17 DEF FrameOK
  <2>2. \A k \in 0 .. (m - 1) : AllSelected(g, k) <=> AllSelected(f, k)
    BY <1>1, <1>12 DEF AllSelected
  <2>3. CondOK(f, m)
    BY <1>1, <2>1 DEF CondsOK
  <2>4. c2.parent <=> AllSelected(g, m - 1)
    BY <1>1, <1>4, <2>2, <2>3 DEF CondOK
  <2>5. c2.parent => (f.conds[m].taken <=> SomeTrue(h0))
    BY <1>4, <2>3 DEF CondOK, h0
  <2>6. AllSelected(g, m) <=> AllSelected(g, m - 1) /\ Selected(g.groups[m])
    BY <1>1 DEF AllSelected
  <2>7. g.active <=> AllSelected(g, m)
    BY <1>4, <1>6, <1>11, <1>12, <1>15, <2>4, <2>5, <2>6
  <2>8. \A i \in 1 .. m : i # m => CondOK(g, i)
    <3> SUFFICES ASSUME NEW i \in 1 .. m, i # m PROVE CondOK(g, i)
      OBVIOUS
    <3>1. CondOK(f, i)
      BY <2>1 DEF CondsOK
    <3>2. i - 1 \in 0 .. (m - 1)
      BY <1>1
    <3> QED
      BY <1>12, <2>2, <3>1, <3>2 DEF CondOK
  <2>9. CondOK(g, m)
    BY <1>4, <1>12, <1>14, <2>4, <2>5 DEF CondOK
  <2> QED
    BY <1>12, <2>7, <2>8, <2>9 DEF CondsOK
<1>18. FrameOK(g)
  BY <1>6, <1>11, <1>16, <1>17 DEF FrameOK
<1> QED
  BY <1>18 DEF g, s

(* #elif                                                                   *)
LEMMA ElifOK ==
  ASSUME NEW f, FrameOK(f), f.conds # <<>>, NEW v \in BOOLEAN
  PROVE  FrameOK(NextGroup(SetInner(f, ElifCond(Inner(f), v)), v, FALSE))
<1> DEFINE c == Inner(f)
           d == ElifCond(c, v)
<1>1. c \in Cond
  BY DEF Inner, FrameOK, Shape, FrameType
<1> HIDE DEF c
<1>2. d \in Cond /\ d.parent = c.parent
  BY <1>1 DEF ElifCond, Cond
<1>3. d.active <=> (c.parent /\ ~c.taken /\ v)
  BY <1>1 DEF ElifCond, Cond
<1>4. d.parent => (d.taken <=> (c.taken \/ v))
  BY <1>1 DEF ElifCond, Cond
<1> HIDE DEF d
<1>5. FrameOK(NextGroup(SetInner(f, d), v, FALSE))
  BY <1>2, <1>3, <1>4, NextGroupOK DEF c
<1> QED
  BY <1>5 DEF c, d

(* #else                                                                   *)
LEMMA ElseOK ==
  ASSUME NEW f, FrameOK(f), f.conds # <<>>
  PROVE  FrameOK(NextGroup(SetInner(f, ElseCond(Inner(f))), TRUE, TRUE))
<1> DEFINE c == Inner(f)
           d == ElseCond(c)
<1>1. c \in Cond
  BY DEF Inner, FrameOK, Shape, FrameType
<1> HIDE DEF c
<1>2. d \in Cond /\ d.parent = c.parent
  BY <1>1 DEF ElseCond, Cond
<1>3. d.active <=> (c.parent /\ ~c.taken /\ TRUE)
  BY <1>1 DEF ElseCond, Cond
<1>4. d.parent => (d.taken <=> (c.taken \/ TRUE))
  BY <1>1 DEF ElseCond, Cond
<1> HIDE DEF d
<1>5. FrameOK(NextGroup(SetInner(f, d), TRUE, TRUE))
  BY <1>2, <1>3, <1>4, NextGroupOK DEF c
<1> QED
  BY <1>5 DEF c, d

(* #endif                                                                  *)
LEMMA CloseCondOK ==
  ASSUME NEW f, FrameOK(f), f.conds # <<>>
  PROVE  FrameOK(CloseCond(f))
<1> DEFINE m == Len(f.groups)
           cs == SubSeq(f.conds, 1, Len(f.conds) - 1)
           gs == SubSeq(f.groups, 1, Len(f.groups) - 1)
           g == CloseCond(f)
<1>1. f \in FrameType /\ f.groups \in Seq(Group) /\ f.conds \in Seq(Cond)
      /\ Len(f.conds) = m /\ m \in Nat /\ m > 0 /\ f.active \in BOOLEAN
  BY DEF FrameOK, Shape, FrameType
<1>2. g = [f EXCEPT !.active = Inner(f).parent, !.conds = cs, !.groups = gs]
  BY DEF CloseCond
<1>3. Inner(f) = f.conds[m] /\ Inner(f).parent \in BOOLEAN
  <2>1. Inner(f) = f.conds[m]
    BY <1>1 DEF Inner
  <2>2. f.conds[m] \in Cond
    BY <1>1
  <2> QED
    BY <2>1, <2>2 DEF Cond
<1>4. /\ cs \in Seq(Cond) /\ gs \in Seq(Group)
      /\ Len(cs) = m - 1 /\ Len(gs) = m - 1
      /\ \A i \in 1 .. (m - 1) : cs[i] = f.conds[i] /\ gs[i] = f.groups[i]
  BY <1>1
<1> HIDE DEF cs, gs
<1>5. /\ g \in FrameType /\ g.conds = cs /\ g.groups = gs /\ g.active = Inner(f).parent
      /\ g.wf = f.wf
  BY <1>1, <1>2, <1>3, <1>4 DEF FrameType
<1> HIDE DEF g
<1>6. Shape(g)
  <2>1. \A i \in 1 .. m : Len(f.groups[i].vals) > 0
    BY DEF FrameOK, Shape
  <2> HIDE DEF m
  <2>2. \A i \in 1 .. (m - 1) : g.groups[i] = f.groups[i] /\ i \in 1 .. m
    BY <1>1, <1>4, <1>5
  <2>3. \A i \in 1 .. (m - 1) : Len(g.groups[i].vals) > 0
    BY <2>1, <2>2
  <2>4. Len(g.conds) = m - 1 /\ Len(g.groups) = m - 1
    BY <1>4, <1>5
  <2> QED
    BY <1>5, <2>3, <2>4 DEF Shape
<1>7. ASSUME f.wf PROVE CondsOK(g)
  <2>1. CondsOK(f)
    BY <1>7 DEF FrameOK
  <2>2. \A k \in 0 .. (m - 1) : AllSelected(g, k) <=> AllSelected(f, k)
    <3>1. \A i \in 1 .. (m - 1) : g.groups[i] = f.groups[i]
      BY <1>4, <1>5
    <3>2. \A k \in 0 .. (m - 1) : \A i \in 1 .. k : i \in 1 .. (m - 1)
      BY <1>1
    <3> QED
      BY <3>1, <3>2 DEF AllSelected
  <2>3. CondOK(f, m)
    BY <1>1, <2>1 DEF CondsOK
  <2>4. g.active <=> AllSelected(g, m - 1)
    BY <1>1, <1>3, <1>5, <2>2, <2>3 DEF CondOK
  <2>5. \A i \in 1 .. (m - 1) : CondOK(g, i)
    <3> SUFFICES ASSUME NEW i \in 1 .. (m - 1) PROVE CondOK(g, i)
      OBVIOUS
    <3>1. CondOK(f, i)
      BY <1>1, <2>1 DEF CondsOK
    <3>2. i - 1 \in 0 .. (m - 1)
      BY <1>1
    <3> QED
      BY <1>4, <1>5, <2>2, <3>1, <3>2 DEF CondOK
  <2> QED
    BY <1>4, <1>5, <2>4, <2>5 DEF CondsOK
<1>8. FrameOK(g)
  BY <1>5, <1>6, <1>7 DEF FrameOK
<1> QED
  BY <1>8 DEF g

-----------------------------------------------------------------------------
(* The line counters of two frames agree.                                  *)
SameLines(g, f) ==
  /\ g.lineNo = f.lineNo /\ g.counts = f.counts /\ g.acc = f.acc
  /\ g.accLine = f.accLine /\ g.src = f.src /\ g.incs = f.incs /\ g.odd = f.odd

(* The conditionals of two frames agree.                                   *)
SameConds(g, f) ==
  g.conds = f.conds /\ g.groups = f.groups /\ g.active = f.active /\ g.wf = f.wf

LEMMA CondsKeepLines ==
  ASSUME NEW f \in FrameType, NEW v, NEW e, NEW c
  PROVE  /\ SameLines(OpenCond(f, v), f)
         /\ SameLines(NextGroup(SetInner(f, c), v, e), f)
         /\ SameLines(CloseCond(f), f)
<1>1. SameLines(OpenCond(f, v), f)
  BY DEF SameLines, OpenCond, FrameType
<1>2. SameLines(NextGroup(SetInner(f, c), v, e), f)
  <2>1. SameLines(SetInner(f, c), f)
    BY DEF SameLines, SetInner, FrameType
  <2>2. /\ DOMAIN SetInner(f, c) = DOMAIN f
        /\ SetInner(f, c) = [x \in DOMAIN f |-> SetInner(f, c)[x]]
    BY DEF SetInner, FrameType
  <2>3. SameLines(NextGroup(SetInner(f, c), v, e), SetInner(f, c))
    BY <2>2 DEF SameLines, NextGroup, FrameType
  <2> QED
    BY <2>1, <2>3 DEF SameLines
<1>3. SameLines(CloseCond(f), f)
  BY DEF SameLines, CloseCond, FrameType
<1> QED
  BY <1>1, <1>2, <1>3

LEMMA LinesKeepConds ==
  ASSUME NEW f, FrameOK(f), NEW g \in FrameType, SameConds(g, f)
  PROVE  FrameOK(g)
<1>1. Shape(g)
  BY DEF FrameOK, Shape, SameConds
<1>2. CondsOK(f) => CondsOK(g)
  BY DEF CondsOK, CondOK, AllSelected, SameConds
<1> QED
  BY <1>1, <1>2 DEF FrameOK, SameConds

LEMMA SameReading ==
  ASSUME NEW f, NEW g, SameLines(g, f), Reading(f)
  PROVE  Reading(g)
BY DEF SameLines, Reading

(* One count appended and taken off again.                                 *)
LEMMA OneCount ==
  ASSUME NEW n \in Nat
  PROVE  /\ Append(<<>>, n) = <<n>>
         /\ Head(<<n>>) = n
         /\ Tail(<<n>>) = <<>>
         /\ <<n>> \in Seq(Nat) /\ <<>> \in Seq(Nat)
OBVIOUS

LEMMA ReadOK ==
  ASSUME NEW f, FrameOK(f), f.counts = <<>>, NEW n \in Nat
  PROVE  /\ FrameOK(Read(f, n))
         /\ Read(f, n).counts = <<n>>
         /\ Read(f, n).src = f.src + n
         /\ Read(f, n).lineNo = f.lineNo
         /\ Read(f, n).acc = f.acc
         /\ Read(f, n).accLine = f.accLine
         /\ Read(f, n).incs = f.incs
         /\ Read(f, n).odd = f.odd
<1> DEFINE x == f.src + n
           c == Append(f.counts, n)
           g == Read(f, n)
<1>1. f \in FrameType
  BY DEF FrameOK, Shape
<1>2. c = <<n>> /\ c \in Seq(Nat)
  BY OneCount
<1>3. x \in Nat
  BY <1>1 DEF FrameType
<1>4. g = [f EXCEPT !.counts = c, !.src = x]
  BY DEF Read
<1> HIDE DEF c, x, g
<1>5. /\ g \in FrameType /\ SameConds(g, f) /\ g.counts = c /\ g.src = x
      /\ g.lineNo = f.lineNo /\ g.acc = f.acc /\ g.accLine = f.accLine
      /\ g.incs = f.incs /\ g.odd = f.odd
  BY <1>1, <1>2, <1>3, <1>4 DEF FrameType, SameConds
<1>6. FrameOK(g)
  BY <1>5, LinesKeepConds
<1> QED
  BY <1>2, <1>5, <1>6 DEF g, x

LEMMA EmptiedOK ==
  ASSUME NEW f, FrameOK(f)
  PROVE  /\ FrameOK(Emptied(f))
         /\ Emptied(f).counts = f.counts
         /\ Emptied(f).src = f.src
         /\ Emptied(f).lineNo = f.lineNo
         /\ Emptied(f).acc = 0
         /\ Emptied(f).incs = f.incs
         /\ Emptied(f).odd = f.odd
<1> DEFINE g == Emptied(f)
<1>1. f \in FrameType
  BY DEF FrameOK, Shape
<1>2. /\ g \in FrameType /\ SameConds(g, f) /\ g.counts = f.counts /\ g.src = f.src
      /\ g.lineNo = f.lineNo /\ g.acc = 0 /\ g.incs = f.incs /\ g.odd = f.odd
  BY <1>1 DEF Emptied, FrameType, SameConds
<1> HIDE DEF g
<1>3. FrameOK(g)
  BY <1>2, LinesKeepConds
<1> QED
  BY <1>2, <1>3 DEF g

LEMMA OddOK ==
  ASSUME NEW f, FrameOK(f), NEW o \in BOOLEAN
  PROVE  /\ FrameOK([f EXCEPT !.odd = o])
         /\ [f EXCEPT !.odd = o].counts = f.counts
         /\ [f EXCEPT !.odd = o].src = f.src
         /\ [f EXCEPT !.odd = o].lineNo = f.lineNo
         /\ [f EXCEPT !.odd = o].acc = f.acc
         /\ [f EXCEPT !.odd = o].incs = f.incs
         /\ [f EXCEPT !.odd = o].odd = o
<1> DEFINE g == [f EXCEPT !.odd = o]
<1>1. f \in FrameType
  BY DEF FrameOK, Shape
<1>2. /\ g \in FrameType /\ SameConds(g, f) /\ g.counts = f.counts /\ g.src = f.src
      /\ g.lineNo = f.lineNo /\ g.acc = f.acc /\ g.incs = f.incs /\ g.odd = o
  BY <1>1 DEF FrameType, SameConds
<1> HIDE DEF g
<1>3. FrameOK(g)
  BY <1>2, LinesKeepConds
<1> QED
  BY <1>2, <1>3 DEF g

LEMMA LoopEndOK ==
  ASSUME NEW f, FrameOK(f), NEW n \in Nat, f.counts = <<n>>
  PROVE  /\ FrameOK(LoopEnd(f))
         /\ LoopEnd(f).counts = <<>>
         /\ LoopEnd(f).src = f.src
         /\ LoopEnd(f).lineNo = f.lineNo + n
         /\ LoopEnd(f).acc = f.acc
         /\ LoopEnd(f).accLine = f.accLine
         /\ LoopEnd(f).incs = f.incs
         /\ LoopEnd(f).odd = f.odd
         /\ EarlyContinue(f) = LoopEnd(f)
<1> DEFINE y == f.lineNo + Head(f.counts)
           c == Tail(f.counts)
           g == LoopEnd(f)
<1>1. f \in FrameType
  BY DEF FrameOK, Shape
<1>2. c = <<>> /\ c \in Seq(Nat) /\ y = f.lineNo + n
  BY OneCount
<1>3. y \in Nat
  BY <1>1, <1>2 DEF FrameType
<1>4. g = [f EXCEPT !.lineNo = y, !.counts = c]
  BY DEF LoopEnd
<1>5. EarlyContinue(f) = g
  BY DEF LoopEnd, EarlyContinue
<1> HIDE DEF c, y, g
<1>6. /\ g \in FrameType /\ SameConds(g, f) /\ g.counts = c /\ g.lineNo = y
      /\ g.src = f.src /\ g.acc = f.acc /\ g.accLine = f.accLine
      /\ g.incs = f.incs /\ g.odd = f.odd
  BY <1>1, <1>2, <1>3, <1>4 DEF FrameType, SameConds
<1>7. FrameOK(g)
  BY <1>6, LinesKeepConds
<1> QED
  BY <1>2, <1>5, <1>6, <1>7 DEF g

(* line_counts[line_idx] is the count of the line just read.               *)
LEMMA CountOK ==
  ASSUME NEW f, f.counts = <<>>, NEW n \in Nat
  PROVE  Count(f, n) = n
BY OneCount DEF Count

(* What is expanded where the counters are right.                          *)
LEMMA ExpansionOK ==
  ASSUME NEW f, FrameOK(f), Reading(f)
  PROVE  Told(Expansion(f)) /\ Told(HeldText(f)) /\ Told(NoText)
<1>1. /\ f.acc \in Nat /\ f.src \in Nat /\ f.lineNo \in Nat /\ f.accLine \in Nat
      /\ f.incs \in Nat
  BY DEF FrameOK, Shape, FrameType
<1>2. f.acc < f.src /\ f.src - f.acc \in Nat
  BY <1>1 DEF Reading
<1>3. f.acc = 0 => f.src - f.acc = f.src
  BY <1>1
<1>4. f.incs = 0 =>
        f.src - f.acc = IF f.acc = 0 THEN f.lineNo ELSE f.accLine
  <2>1. f.acc # 0 => f.acc > 0
    BY <1>1
  <2> QED
    BY <1>3, <2>1 DEF Reading
<1>5. Told(Expansion(f))
  <2>1. /\ Expansion(f).said = IF f.acc = 0 THEN f.lineNo ELSE f.accLine
        /\ Expansion(f).real = f.src - f.acc
        /\ Expansion(f).exact = (f.incs = 0)
    BY DEF Expansion
  <2>2. Expansion(f) \in [said : Nat, real : Nat, exact : BOOLEAN]
    BY <1>1, <1>2 DEF Expansion
  <2> QED
    BY <1>4, <2>1, <2>2 DEF Told
<1>6. Told(NoText)
  BY DEF Told, NoText
<1> QED
  BY <1>5, <1>6 DEF HeldText

-----------------------------------------------------------------------------
(* A step that changes the innermost activation only.                      *)
LEMMA ReplaceTop ==
  ASSUME FramesOK, NEW g, FrameOK(g), Reading(g), frames' = [frames EXCEPT ![Depth] = g]
  PROVE  /\ FramesOK'
         /\ Depth' = Depth
         /\ Top' = g
<1>1. frames \in Seq(FrameType) /\ Len(frames) \in Nat /\ Len(frames) > 0
  BY DEF FramesOK
<1>2. g \in FrameType
  BY DEF FrameOK, Shape
<1>3. /\ frames' \in Seq(FrameType) /\ Len(frames') = Len(frames)
      /\ \A k \in 1 .. Len(frames) :
           frames'[k] = IF k = Len(frames) THEN g ELSE frames[k]
  BY <1>1, <1>2 DEF Depth
<1>4. \A k \in 1 .. Len(frames') : FrameOK(frames'[k])
  <2>1. \A k \in 1 .. Len(frames) : FrameOK(frames[k])
    BY DEF FramesOK
  <2> QED
    BY <1>3, <2>1, ZenonT(30)
<1>5. \A k \in 1 .. (Len(frames') - 1) : Waiting(frames'[k])
  <2>1. \A k \in 1 .. (Len(frames) - 1) : k \in 1 .. Len(frames) /\ k # Len(frames)
    BY <1>1
  <2> QED
    BY <1>3, <2>1 DEF FramesOK
<1>6. frames'[Len(frames')] = g
  <2>1. Len(frames) \in 1 .. Len(frames)
    BY <1>1
  <2>2. frames'[Len(frames)] = g
    BY <1>3, <2>1
  <2> QED
    BY <1>3, <2>2
<1>7. Depth' = Depth /\ Top' = g
  BY <1>3, <1>6 DEF Depth, Top
<1> QED
  BY <1>1, <1>3, <1>4, <1>5, <1>6, <1>7 DEF FramesOK

(* The current activation.                                                 *)
LEMMA TopFacts ==
  ASSUME FramesOK
  PROVE  /\ Depth \in Nat /\ Depth > 0
         /\ Top \in FrameType /\ FrameOK(Top) /\ Reading(Top) /\ Top.counts = <<>>
         /\ Top.src \in Nat /\ Top.acc \in Nat /\ Top.incs \in Nat
         /\ Top.lineNo \in Nat /\ Top.odd \in BOOLEAN
<1>1. Depth \in Nat /\ Depth > 0 /\ FrameOK(Top) /\ Reading(Top)
  BY DEF FramesOK, Depth, Top
<1>2. Top \in FrameType
  BY <1>1 DEF FrameOK, Shape
<1> QED
  BY <1>1, <1>2 DEF FrameType, Reading

(* Lines read by the innermost activation; k newlines stand for n lines    *)
(* together with the accumulated ones, unless odd is set.                  *)
LEMMA LineStep ==
  ASSUME IInv, NEW g, FrameOK(g), Reading(g), NEW k \in Nat,
         frames' = [frames EXCEPT ![Depth] = g],
         lex' = Newlines(lex, k),
         phase' = phase,
         g.incs = Top.incs,
         ~g.odd => ~Top.odd /\ g.src = Top.src - Top.acc + k + g.acc
  PROVE  FramesOK' /\ LexOK'
<1>1. FramesOK' /\ Depth' = Depth /\ Top' = g
  BY ReplaceTop DEF IInv
<1>2. lex \in [err : Nat, tok : Nat]
  BY DEF IInv, LexOK
<1>3. lex' \in [err : Nat, tok : Nat] /\ lex'.err = lex.err + k
  BY <1>2 DEF Newlines
<1>4. Top.src \in Nat /\ Top.acc \in Nat /\ lex.err \in Nat /\ g.acc \in Nat /\ g.src \in Nat
  BY <1>2, TopFacts DEF IInv, FrameOK, Shape, FrameType
<1>5. ASSUME phase' = "run", Depth' = 1, Top'.incs <= 1, ~Top'.odd
      PROVE  lex'.err + Top'.acc = Top'.src
  <2>1. lex.err + Top.acc = Top.src
    BY <1>1, <1>5 DEF IInv, LexOK, NewlinesConserved
  <2>2. g.src = Top.src - Top.acc + k + g.acc
    BY <1>1, <1>5
  <2> QED
    BY <1>1, <1>3, <1>4, <2>1, <2>2
<1>6. NewlinesConserved'
  BY <1>5 DEF NewlinesConserved
<1> QED
  BY <1>1, <1>3, <1>6 DEF LexOK

(* The frame in which a line of n physical ones has been dealt with.       *)
LEMMA LeaveLine ==
  ASSUME NEW f, FrameOK(f), Reading(f), NEW n \in Nat,
         NEW e, FrameOK(e), e.counts = <<n>>, e.src = f.src + n, e.lineNo = f.lineNo,
         e.acc = 0, e.incs = f.incs
  PROVE  FrameOK(LoopEnd(e)) /\ Reading(LoopEnd(e))
<1> DEFINE g == LoopEnd(e)
<1>1. /\ f.src \in Nat /\ f.acc \in Nat /\ f.lineNo \in Nat /\ f.acc < f.src
      /\ f.incs = 0 => f.lineNo = f.src
  BY DEF FrameOK, Shape, FrameType, Reading
<1>2. /\ FrameOK(g) /\ g.counts = <<>> /\ g.src = f.src + n /\ g.lineNo = f.lineNo + n
      /\ g.acc = 0 /\ g.incs = f.incs
  BY LoopEndOK
<1> HIDE DEF g
<1>3. Reading(g)
  BY <1>1, <1>2 DEF Reading
<1> QED
  BY <1>2, <1>3 DEF g

(* The frame a directive is dealt with in.                                 *)
LEMMA PassedOK ==
  ASSUME NEW f, FrameOK(f), Reading(f), NEW n \in Nat, NEW k \in Nat
  PROVE  /\ FrameOK(Passed(f, n, k)) /\ Passed(f, n, k).counts = <<n>>
         /\ Passed(f, n, k).src = f.src + n /\ Passed(f, n, k).lineNo = f.lineNo
         /\ Passed(f, n, k).acc = 0 /\ Passed(f, n, k).incs = f.incs
         /\ Passed(f, n, k).odd = (f.odd \/ k # n)
<1> DEFINE r == Read(f, n)
           e == Emptied(r)
           o == f.odd \/ k # n
<1>1. f.counts = <<>>
  BY DEF Reading
<1>2. /\ FrameOK(r) /\ r.counts = <<n>> /\ r.src = f.src + n /\ r.lineNo = f.lineNo
      /\ r.incs = f.incs /\ r.odd = f.odd
  BY <1>1, ReadOK
<1> HIDE DEF r
<1>3. /\ FrameOK(e) /\ e.counts = <<n>> /\ e.src = f.src + n /\ e.lineNo = f.lineNo
      /\ e.acc = 0 /\ e.incs = f.incs /\ e.odd = f.odd
  BY <1>2, EmptiedOK
<1> HIDE DEF e
<1>4. o \in BOOLEAN
  BY DEF FrameOK, Shape, FrameType
<1>5. Passed(f, n, k) = [e EXCEPT !.odd = o]
  BY <1>3 DEF Passed, e, r
<1> HIDE DEF o
<1>6. /\ FrameOK([e EXCEPT !.odd = o])
      /\ [e EXCEPT !.odd = o].counts = <<n>>
      /\ [e EXCEPT !.odd = o].src = f.src + n
      /\ [e EXCEPT !.odd = o].lineNo = f.lineNo
      /\ [e EXCEPT !.odd = o].acc = 0
      /\ [e EXCEPT !.odd = o].incs = f.incs
      /\ [e EXCEPT !.odd = o].odd = o
  BY <1>3, <1>4, OddOK
<1> QED
  BY <1>5, <1>6 DEF o

LEMMA DirectiveStep ==
  ASSUME IInv, NEW f, FrameOK(f), SameLines(f, Top), NEW n \in Nat, NEW k \in Nat,
         Directive(f, n, k)
  PROVE  FramesOK' /\ LexOK' /\ Told(expanded') /\ phase' = phase
<1> DEFINE p == Passed(f, n, k)
           h == LoopEnd(p)
<1>1. /\ Top.acc \in Nat /\ Top.src \in Nat /\ FrameOK(Top) /\ Reading(Top)
  BY TopFacts DEF IInv
<1>2. Reading(f)
  BY <1>1, SameReading
<1>3. /\ FrameOK(p) /\ p.counts = <<n>> /\ p.src = f.src + n /\ p.lineNo = f.lineNo
      /\ p.acc = 0 /\ p.incs = f.incs /\ p.odd = (f.odd \/ k # n)
  BY <1>2, PassedOK
<1>4. frames' = [frames EXCEPT ![Depth] = h]
  BY DEF Directive
<1> HIDE DEF p
<1>5. FrameOK(h) /\ Reading(h)
  BY <1>2, <1>3, LeaveLine
<1>6. h.src = f.src + n /\ h.acc = 0 /\ h.incs = f.incs /\ h.odd = (f.odd \/ k # n)
  BY <1>3, LoopEndOK
<1> HIDE DEF h
<1>7. ~h.odd => ~Top.odd /\ h.src = Top.src - Top.acc + (Top.acc + k) + h.acc
  <2>1. ~h.odd => ~Top.odd /\ k = n
    BY <1>6, Zenon DEF SameLines
  <2>2. Top.src + n = Top.src - Top.acc + (Top.acc + n) + 0
    BY <1>1
  <2>3. h.src = Top.src + n /\ h.acc = 0
    BY <1>6 DEF SameLines
  <2> QED
    BY <2>1, <2>2, <2>3
<1>8. Top.acc + k \in Nat /\ lex' = Newlines(lex, Top.acc + k) /\ phase' = phase
  BY <1>1 DEF Directive, PutOut
<1>9. h.incs = Top.incs
  BY <1>6 DEF SameLines
<1>10. FramesOK' /\ LexOK'
  BY <1>4, <1>5, <1>7, <1>8, <1>9, LineStep
<1>11. Told(expanded')
  BY <1>1, ExpansionOK DEF Directive, PutOut
<1> QED
  BY <1>8, <1>10, <1>11

(* The variable no directive but #pragma once changes.                     *)
LEMMA RestStep ==
  ASSUME Rest, once' = once, phase' = phase, Told(expanded')
  PROVE  Rest'
BY DEF Rest, Told

-----------------------------------------------------------------------------
LEMMA IfStep ==
  ASSUME IInv, NEW v \in BOOLEAN, NEW n \in Nat, If(v, n)
  PROVE  IInv'
<1>1. FrameOK(Top) /\ Top \in FrameType
  BY TopFacts DEF IInv
<1>2. FramesOK' /\ LexOK' /\ Told(expanded') /\ phase' = phase
  BY <1>1, OpenCondOK, CondsKeepLines, DirectiveStep DEF If
<1> QED
  BY <1>2, RestStep DEF IInv, If

LEMMA ElifStep ==
  ASSUME IInv, NEW v \in BOOLEAN, NEW n \in Nat, Elif(v, n)
  PROVE  IInv'
<1>1. FrameOK(Top) /\ Top \in FrameType
  BY TopFacts DEF IInv
<1>2. FramesOK' /\ LexOK' /\ Told(expanded') /\ phase' = phase
  BY <1>1, ElifOK, CondsKeepLines, DirectiveStep DEF Elif, GroupFits
<1> QED
  BY <1>2, RestStep DEF IInv, Elif

LEMMA ElseStep ==
  ASSUME IInv, NEW n \in Nat, Else(n)
  PROVE  IInv'
<1>1. FrameOK(Top) /\ Top \in FrameType
  BY TopFacts DEF IInv
<1>2. FramesOK' /\ LexOK' /\ Told(expanded') /\ phase' = phase
  BY <1>1, ElseOK, CondsKeepLines, DirectiveStep DEF Else, GroupFits
<1> QED
  BY <1>2, RestStep DEF IInv, Else

LEMMA EndifStep ==
  ASSUME IInv, NEW n \in Nat, Endif(n)
  PROVE  IInv'
<1>1. FrameOK(Top) /\ Top \in FrameType
  BY TopFacts DEF IInv
<1>2. FramesOK' /\ LexOK' /\ Told(expanded') /\ phase' = phase
  BY <1>1, CloseCondOK, CondsKeepLines, DirectiveStep DEF Endif
<1> QED
  BY <1>2, RestStep DEF IInv, Endif

LEMMA StrayStep ==
  ASSUME IInv, NEW v \in BOOLEAN, NEW n \in Nat, Stray(v, n)
  PROVE  IInv'
<1> DEFINE a == Top.active /\ ~v
           g == [Top EXCEPT !.wf = FALSE, !.active = a]
<1>1. FrameOK(Top) /\ Top \in FrameType
  BY TopFacts DEF IInv
<1>2. a \in BOOLEAN
  BY <1>1 DEF FrameType
<1>3. Directive(g, n, 1) /\ once' = once
  BY DEF Stray
<1> HIDE DEF a
<1>4. /\ g \in FrameType /\ SameLines(g, Top) /\ g.wf = FALSE
      /\ g.conds = Top.conds /\ g.groups = Top.groups
  BY <1>1, <1>2 DEF FrameType, SameLines
<1> HIDE DEF g
<1>5. FrameOK(g)
  BY <1>1, <1>4 DEF FrameOK, Shape
<1>6. FramesOK' /\ LexOK' /\ Told(expanded') /\ phase' = phase
  BY <1>3, <1>4, <1>5, DirectiveStep
<1> QED
  BY <1>3, <1>6, RestStep DEF IInv

LEMMA PlainDirectiveStep ==
  ASSUME IInv, NEW n \in Nat, NEW k \in Nat, Directive(Top, n, k)
  PROVE  FramesOK' /\ LexOK' /\ Told(expanded') /\ phase' = phase
<1>1. FrameOK(Top) /\ SameLines(Top, Top)
  BY TopFacts DEF IInv, SameLines
<1> QED
  BY <1>1, DirectiveStep

LEMMA OtherSteps ==
  ASSUME IInv, NEW v \in BOOLEAN, NEW n \in Nat,
         \/ OtherDirective(n) \/ DefineFunction(n) \/ Pragma(v, n) \/ Silent(n)
  PROVE  IInv'
<1>1. Top.counts = <<>> /\ Count(Top, n) = n /\ FrameOK(Top) /\ Reading(Top)
  BY TopFacts, CountOK DEF IInv
<1>2. ASSUME NEW k \in Nat, Directive(Top, n, k), once' = once PROVE IInv'
  <2>1. FramesOK' /\ LexOK' /\ Told(expanded') /\ phase' = phase
    BY <1>2, PlainDirectiveStep
  <2> QED
    BY <1>2, <2>1, RestStep DEF IInv
<1>3. CASE OtherDirective(n)
  BY <1>1, <1>2, <1>3 DEF OtherDirective
<1>4. CASE Silent(n)
  BY <1>2, <1>4 DEF Silent
<1>5. CASE DefineFunction(n)
  <2> DEFINE p == Passed(Top, n, n)
  <2>1. frames' = [frames EXCEPT ![Depth] = EarlyContinue(p)] /\ PutOut(n) /\ once' = once
    BY <1>1, <1>5 DEF DefineFunction
  <2>2. FrameOK(p) /\ p.counts = <<n>>
    BY <1>1, PassedOK
  <2>3. Directive(Top, n, n)
    BY <2>1, <2>2, LoopEndOK DEF Directive
  <2> QED
    BY <1>2, <2>1, <2>3
<1>6. CASE Pragma(v, n)
  <2>1. FramesOK' /\ LexOK' /\ Told(expanded') /\ phase' = phase
    BY <1>6, PlainDirectiveStep DEF Pragma
  <2>2. Top.file \in Files \union {Root}
    BY TopFacts DEF IInv, FrameType
  <2>3. once' \subseteq Files \union {Root}
    BY <1>6, <2>2 DEF IInv, Rest, Pragma
  <2>4. Rest'
    BY <2>1, <2>3 DEF IInv, Rest, Told
  <2> QED
    BY <2>1, <2>4 DEF IInv
<1> QED
  BY <1>3, <1>4, <1>5, <1>6

(* Text that is put out, or turned off.                                    *)
LEMMA TextSteps ==
  ASSUME IInv, NEW n \in Nat, Text(n) \/ TextOff(n)
  PROVE  IInv'
<1> DEFINE r == Read(Top, n)
           e == Emptied(r)
           g == LoopEnd(e)
<1>1. /\ FrameOK(Top) /\ Reading(Top) /\ Top.acc \in Nat /\ Top.src \in Nat
      /\ Top.counts = <<>>
  BY TopFacts DEF IInv
<1>2. /\ FrameOK(r) /\ r.counts = <<n>> /\ r.src = Top.src + n /\ r.lineNo = Top.lineNo
      /\ r.incs = Top.incs /\ r.odd = Top.odd
  BY <1>1, ReadOK
<1>3. /\ frames' = [frames EXCEPT ![Depth] = g] /\ lex' = Newlines(lex, Flush(Top, n))
      /\ phase' = phase /\ once' = once
      /\ expanded' = Expansion(Top) \/ expanded' = HeldText(Top)
  BY DEF Text, TextOff
<1> HIDE DEF r
<1>4. /\ FrameOK(e) /\ e.counts = <<n>> /\ e.src = Top.src + n /\ e.lineNo = Top.lineNo
      /\ e.acc = 0 /\ e.incs = Top.incs /\ e.odd = Top.odd
  BY <1>2, EmptiedOK
<1> HIDE DEF e
<1>5. FrameOK(g) /\ Reading(g)
  BY <1>1, <1>4, LeaveLine
<1>6. g.src = Top.src + n /\ g.acc = 0 /\ g.incs = Top.incs /\ g.odd = Top.odd
  BY <1>4, LoopEndOK
<1> HIDE DEF g
<1>7. Flush(Top, n) = Top.acc + n /\ Top.acc + n \in Nat
  BY <1>1, CountOK DEF Flush
<1>8. ~g.odd => ~Top.odd /\ g.src = Top.src - Top.acc + (Top.acc + n) + g.acc
  BY <1>1, <1>6
<1>9. FramesOK' /\ LexOK'
  BY <1>3, <1>5, <1>6, <1>7, <1>8, LineStep
<1>10. Told(expanded')
  BY <1>1, <1>3, ExpansionOK
<1> QED
  BY <1>3, <1>9, <1>10, RestStep DEF IInv

(* acc_line_no is set by the first line held back.                         *)
LEMMA HoldOK ==
  ASSUME NEW f, FrameOK(f), NEW n \in Nat
  PROVE  /\ FrameOK(Hold(f, n))
         /\ Hold(f, n).counts = f.counts
         /\ Hold(f, n).src = f.src
         /\ Hold(f, n).lineNo = f.lineNo
         /\ Hold(f, n).acc = f.acc + n
         /\ Hold(f, n).accLine = IF f.acc = 0 THEN f.lineNo ELSE f.accLine
         /\ Hold(f, n).incs = f.incs
         /\ Hold(f, n).odd = f.odd
<1> DEFINE x == f.acc + n
           y == IF f.acc = 0 THEN f.lineNo ELSE f.accLine
           g == Hold(f, n)
<1>1. f \in FrameType
  BY DEF FrameOK, Shape
<1>2. x \in Nat /\ y \in Nat
  BY <1>1 DEF FrameType
<1>3. g = [f EXCEPT !.acc = x, !.accLine = y]
  BY DEF Hold
<1> HIDE DEF x, y, g
<1>4. /\ g \in FrameType /\ SameConds(g, f) /\ g.counts = f.counts /\ g.lineNo = f.lineNo
      /\ g.src = f.src /\ g.acc = x /\ g.accLine = y
      /\ g.incs = f.incs /\ g.odd = f.odd
  BY <1>1, <1>2, <1>3 DEF FrameType, SameConds
<1>5. FrameOK(g)
  BY <1>4, LinesKeepConds
<1> QED
  BY <1>4, <1>5 DEF g, x, y

LEMMA TextOpenStep ==
  ASSUME IInv, NEW n \in Nat, TextOpen(n)
  PROVE  IInv'
<1> DEFINE d == Hold(Top, n)
           r == Read(d, n)
           g == LoopEnd(r)
<1>1. /\ FrameOK(Top) /\ Reading(Top) /\ Top.acc \in Nat /\ Top.src \in Nat
      /\ Top.lineNo \in Nat /\ Top.counts = <<>>
  BY TopFacts DEF IInv
<1>2. Count(Top, n) = n
  BY <1>1, CountOK
<1>3. frames' = [frames EXCEPT ![Depth] = g] /\ lex' = lex /\ expanded' = NoText
      /\ phase' = phase /\ once' = once
  BY <1>2 DEF TextOpen
<1>4. /\ FrameOK(d) /\ d.counts = <<>> /\ d.src = Top.src /\ d.lineNo = Top.lineNo
      /\ d.acc = Top.acc + n
      /\ d.accLine = IF Top.acc = 0 THEN Top.lineNo ELSE Top.accLine
      /\ d.incs = Top.incs /\ d.odd = Top.odd
  BY <1>1, HoldOK
<1> HIDE DEF d
<1>5. /\ FrameOK(r) /\ r.counts = <<n>> /\ r.src = Top.src + n /\ r.lineNo = Top.lineNo
      /\ r.acc = Top.acc + n /\ r.accLine = d.accLine /\ r.incs = Top.incs
      /\ r.odd = Top.odd
  BY <1>4, ReadOK
<1> HIDE DEF r
<1>6. /\ FrameOK(g) /\ g.counts = <<>> /\ g.src = Top.src + n /\ g.lineNo = Top.lineNo + n
      /\ g.acc = Top.acc + n /\ g.accLine = d.accLine /\ g.incs = Top.incs
      /\ g.odd = Top.odd
  BY <1>5, LoopEndOK
<1> HIDE DEF g
<1>7. Reading(g)
  <2>1. Top.acc < Top.src
    BY <1>1 DEF Reading
  <2>2. g.acc < g.src /\ g.src - g.acc = Top.src - Top.acc
    BY <1>1, <1>6, <2>1
  <2>3. ASSUME g.incs = 0
        PROVE  g.lineNo = g.src /\ g.accLine = g.src - g.acc
    <3>1. Top.lineNo = Top.src /\ (Top.acc > 0 => Top.accLine = Top.src - Top.acc)
      BY <1>1, <1>6, <2>3 DEF Reading
    <3>2. g.lineNo = g.src
      BY <1>6, <3>1
    <3>3. d.accLine = Top.src - Top.acc
      BY <1>1, <1>4, <3>1
    <3> QED
      BY <1>6, <2>2, <3>2, <3>3
  <2> QED
    BY <1>6, <2>2, <2>3 DEF Reading
<1>8. lex' = Newlines(lex, 0)
  <2>1. lex \in [err : Nat, tok : Nat]
    BY DEF IInv, LexOK
  <2>2. lex = [err |-> lex.err, tok |-> lex.tok] /\ lex.err \in Nat /\ lex.tok \in Nat
    BY <2>1
  <2>3. lex.err + 0 = lex.err /\ lex.tok + 0 = lex.tok
    BY <2>2
  <2> QED
    BY <1>3, <2>2, <2>3 DEF Newlines
<1>9. ~g.odd => ~Top.odd /\ g.src = Top.src - Top.acc + 0 + g.acc
  <2>1. Top.src + n = Top.src - Top.acc + 0 + (Top.acc + n)
    BY <1>1
  <2> QED
    BY <1>6, <2>1
<1>10. FramesOK' /\ LexOK'
  <2>1. 0 \in Nat
    OBVIOUS
  <2> QED
    BY <1>3, <1>6, <1>7, <1>8, <1>9, <2>1, LineStep
<1>11. Told(expanded')
  BY <1>1, <1>3, ExpansionOK
<1> QED
  BY <1>3, <1>10, <1>11, RestStep DEF IInv

-----------------------------------------------------------------------------
(* The includer while the included file is read.                           *)
LEMMA WaitingOK ==
  ASSUME NEW f, FrameOK(f), Reading(f)
  PROVE  /\ FrameOK(Emptied(Read(f, 1))) /\ Waiting(Emptied(Read(f, 1)))
         /\ Emptied(Read(f, 1)).lineNo = f.lineNo
<1> DEFINE r == Read(f, 1)
           e == Emptied(r)
<1>1. /\ f.counts = <<>> /\ f.src \in Nat /\ f.lineNo \in Nat
      /\ f.incs = 0 => f.lineNo = f.src
  BY DEF FrameOK, Shape, FrameType, Reading
<1>2. /\ FrameOK(r) /\ r.counts = <<1>> /\ r.src = f.src + 1 /\ r.lineNo = f.lineNo
      /\ r.incs = f.incs
  BY <1>1, ReadOK
<1> HIDE DEF r
<1>3. /\ FrameOK(e) /\ e.counts = <<1>> /\ e.src = f.src + 1 /\ e.lineNo = f.lineNo
      /\ e.acc = 0 /\ e.incs = f.incs
  BY <1>2, EmptiedOK
<1> HIDE DEF e
<1>4. Waiting(e)
  BY <1>1, <1>3 DEF Waiting
<1> QED
  BY <1>3, <1>4 DEF e, r

(* The includer after it.                                                  *)
LEMMA BackFromOK ==
  ASSUME NEW f, FrameOK(f), Waiting(f), NEW len \in Nat
  PROVE  /\ FrameOK(BackFrom(f, len)) /\ Reading(BackFrom(f, len))
         /\ BackFrom(f, len).src = f.src
         /\ BackFrom(f, len).acc = 0
         /\ BackFrom(f, len).incs = f.incs + 1
<1> DEFINE x == f.lineNo + len
           h == [f EXCEPT !.lineNo = x]
           p == LoopEnd(h)
           y == f.incs + 1
           g == BackFrom(f, len)
<1>1. f \in FrameType /\ x \in Nat /\ f.src \in Nat /\ f.incs \in Nat
  BY DEF FrameOK, Shape, FrameType
<1> HIDE DEF x
<1>2. /\ h \in FrameType /\ SameConds(h, f) /\ h.counts = f.counts /\ h.src = f.src
      /\ h.acc = f.acc /\ h.incs = f.incs
  BY <1>1 DEF FrameType, SameConds
<1>3. BackFrom(f, len) = [p EXCEPT !.incs = @ + 1, !.odd = FALSE]
  BY DEF BackFrom, x
<1> HIDE DEF h
<1>4. FrameOK(h)
  BY <1>2, LinesKeepConds
<1>5. h.counts = <<1>> /\ h.acc = 0 /\ 0 < h.src
  BY <1>2 DEF Waiting
<1>6. /\ FrameOK(p) /\ p.counts = <<>> /\ p.src = f.src /\ p.acc = 0 /\ p.incs = f.incs
  BY <1>2, <1>4, <1>5, LoopEndOK
<1> HIDE DEF p
<1>7. p \in FrameType
  BY <1>6 DEF FrameOK, Shape
<1>8. g = [p EXCEPT !.incs = y, !.odd = FALSE]
  BY <1>3, <1>6
<1>9. y \in Nat /\ y # 0
  BY <1>1
<1>10. /\ g \in FrameType /\ SameConds(g, p) /\ g.src = p.src /\ g.acc = p.acc
       /\ g.counts = p.counts /\ g.incs = y
  <2> HIDE DEF y, g
  <2> QED
    BY <1>7, <1>8, <1>9 DEF FrameType, SameConds
<1> HIDE DEF g
<1>11. FrameOK(g)
  BY <1>6, <1>10, LinesKeepConds
<1>12. Reading(g)
  BY <1>2, <1>5, <1>6, <1>9, <1>10 DEF Reading
<1> QED
  BY <1>6, <1>10, <1>11, <1>12 DEF g

(* After an include the marker resumes at the includer's next line, if it  *)
(* is its first include.                                                   *)
LEMMA ResumeStep ==
  ASSUME NEW f, FrameOK(f), Waiting(f), NEW len \in Nat, lex' = Marker(f.lineNo + 1),
         Depth' = 1 => Top' = BackFrom(f, len)
  PROVE  LexOK'
<1>1. f.src \in Nat /\ f.lineNo \in Nat /\ f.incs \in Nat
  BY DEF FrameOK, Shape, FrameType
<1>2. lex' = [err |-> f.lineNo + 1, tok |-> f.lineNo + 1 + 2]
  BY DEF Marker
<1>3. lex' \in [err : Nat, tok : Nat] /\ lex'.err = f.lineNo + 1
  BY <1>1, <1>2
<1>4. ASSUME Depth' = 1, Top'.incs <= 1 PROVE lex'.err + Top'.acc = Top'.src
  <2>1. /\ Top'.src = f.src
        /\ Top'.acc = 0
        /\ Top'.incs = f.incs + 1
    BY <1>4, BackFromOK
  <2>2. f.incs = 0
    BY <1>1, <1>4, <2>1
  <2>3. f.lineNo + 1 = f.src
    BY <2>2 DEF Waiting
  <2> QED
    BY <1>1, <1>3, <2>1, <2>3
<1>5. NewlinesConserved'
  BY <1>4 DEF NewlinesConserved
<1> QED
  BY <1>3, <1>5 DEF LexOK

LEMMA IncludeStep ==
  ASSUME IInv, NEW f \in Files, Include(f)
  PROVE  IInv'
<1> DEFINE t == Emptied(Read(Top, 1))
           fs == [frames EXCEPT ![Depth] = t]
<1>1. frames \in Seq(FrameType) /\ Depth \in 1 .. Len(frames) /\ Len(frames) \in Nat
      /\ Depth = Len(frames)
  BY DEF IInv, FramesOK, Depth
<1>2. FrameOK(Top) /\ Reading(Top) /\ Top.lineNo \in Nat
  BY TopFacts DEF IInv
<1>3. FrameOK(t) /\ Waiting(t) /\ t \in FrameType
  BY <1>2, WaitingOK DEF FrameOK, Shape
<1>4. frames' = Append(fs, NewFrame(f)) /\ lex' = Marker(Top.lineNo + 1)
      /\ expanded' = HeldText(Top) /\ once' = once /\ phase' = phase
  BY DEF Include
<1> HIDE DEF t
<1>5. FrameOK(NewFrame(f)) /\ Reading(NewFrame(f)) /\ NewFrame(f) \in FrameType
  BY NewFrameOK DEF FrameOK, Shape
<1>6. /\ fs \in Seq(FrameType) /\ Len(fs) = Len(frames)
      /\ \A k \in 1 .. Len(frames) : fs[k] = IF k = Depth THEN t ELSE frames[k]
  BY <1>1, <1>3
<1> HIDE DEF fs
<1>7. /\ frames' \in Seq(FrameType) /\ Len(frames') = Len(frames) + 1
      /\ \A k \in 1 .. Len(frames) : frames'[k] = fs[k]
      /\ frames'[Len(frames) + 1] = NewFrame(f)
  BY <1>4, <1>5, <1>6
<1>8. \A k \in 1 .. Len(frames) : FrameOK(frames'[k]) /\ Waiting(frames'[k])
  <2>1. \A k \in 1 .. Len(frames) : k = Depth \/ k \in 1 .. (Len(frames) - 1)
    BY <1>1
  <2> QED
    BY <1>3, <1>6, <1>7, <2>1 DEF IInv, FramesOK
<1>9. FramesOK'
  <2>1. \A k \in 1 .. (Len(frames) + 1) : k \in 1 .. Len(frames) \/ k = Len(frames) + 1
    BY <1>1
  <2>2. \A k \in 1 .. Len(frames') : FrameOK(frames'[k])
    BY <1>5, <1>7, <1>8, <2>1
  <2>3. Len(frames') - 1 = Len(frames) /\ Len(frames') > 0
    BY <1>1, <1>7
  <2>4. \A k \in 1 .. (Len(frames') - 1) : Waiting(frames'[k])
    BY <1>8, <2>3
  <2>5. Reading(frames'[Len(frames')])
    BY <1>5, <1>7
  <2> QED
    BY <1>7, <2>2, <2>3, <2>4, <2>5 DEF FramesOK
<1>10. Depth' # 1
  BY <1>1, <1>7 DEF Depth
<1>11. LexOK'
  <2>1. lex' \in [err : Nat, tok : Nat]
    BY <1>2, <1>4 DEF Marker
  <2> QED
    BY <1>10, <2>1 DEF LexOK, NewlinesConserved
<1>12. Told(expanded')
  BY <1>2, <1>4, ExpansionOK
<1> QED
  BY <1>4, <1>9, <1>11, <1>12, RestStep DEF IInv

LEMMA IncludeOnceStep ==
  ASSUME IInv, NEW f \in Files, NEW len \in 1 .. MaxLines, IncludeOnce(f, len)
  PROVE  IInv'
<1> DEFINE t == Emptied(Read(Top, 1))
<1>1. FrameOK(Top) /\ Reading(Top) /\ len \in Nat
  BY TopFacts, BoundsAssumption DEF IInv
<1>2. FrameOK(t) /\ Waiting(t) /\ t.lineNo = Top.lineNo
  BY <1>1, WaitingOK
<1>3. /\ frames' = [frames EXCEPT ![Depth] = BackFrom(t, len)]
      /\ lex' = Marker(Top.lineNo + 1) /\ expanded' = HeldText(Top)
      /\ once' = once /\ phase' = phase
  BY DEF IncludeOnce, AfterInclude
<1> HIDE DEF t
<1>4. FrameOK(BackFrom(t, len)) /\ Reading(BackFrom(t, len))
  BY <1>1, <1>2, BackFromOK
<1>5. FramesOK' /\ Top' = BackFrom(t, len)
  BY <1>3, <1>4, ReplaceTop DEF IInv
<1>6. LexOK'
  BY <1>1, <1>2, <1>3, <1>5, ResumeStep
<1>7. Told(expanded')
  BY <1>1, <1>3, ExpansionOK
<1> QED
  BY <1>3, <1>5, <1>6, <1>7, RestStep DEF IInv

LEMMA EndIncludeStep ==
  ASSUME IInv, EndInclude
  PROVE  IInv'
<1> DEFINE d == Len(frames)
           f == frames[d - 1]
           len == Top.src - 1
           g == BackFrom(f, len)
           fs == SubSeq(frames, 1, d - 2)
<1>1. frames \in Seq(FrameType) /\ d \in Nat /\ d > 1
  BY DEF IInv, FramesOK, EndInclude, Depth
<1>2. FrameOK(f) /\ Waiting(f)
  <2>1. d - 1 \in 1 .. d /\ d - 1 \in 1 .. (d - 1)
    BY <1>1
  <2> QED
    BY <2>1 DEF IInv, FramesOK
<1>3. len \in Nat /\ FrameOK(Top) /\ Reading(Top)
  BY TopFacts DEF IInv, EndInclude
<1>4. frames' = Append(fs, g) /\ lex' = Marker(f.lineNo + 1) /\ expanded' = HeldText(Top)
      /\ once' = once /\ phase' = phase
  BY DEF EndInclude, Depth, AfterInclude
<1> HIDE DEF len, f
<1>5. FrameOK(g) /\ Reading(g) /\ g \in FrameType
  BY <1>2, <1>3, BackFromOK DEF FrameOK, Shape
<1>6. /\ fs \in Seq(FrameType) /\ Len(fs) = d - 2
      /\ \A k \in 1 .. (d - 2) : fs[k] = frames[k]
  <2>1. 1 \in 1 .. (d + 1) /\ d - 2 \in (1 - 1) .. d
    BY <1>1
  <2>2. \A k \in 1 .. (d - 2) : 1 + k - 1 = k
    BY <1>1
  <2>3. d - 2 - 1 + 1 = d - 2
    BY <1>1
  <2> QED
    BY <1>1, <2>1, <2>2, <2>3, SubSeqProperties
<1> HIDE DEF fs, g
<1>7. /\ frames' \in Seq(FrameType) /\ Len(frames') = d - 1
      /\ \A k \in 1 .. (d - 2) : frames'[k] = frames[k]
      /\ frames'[d - 1] = g
  BY <1>1, <1>4, <1>5, <1>6
<1>8. FramesOK'
  <2>1. /\ \A k \in 1 .. (d - 1) : k = d - 1 \/ (k \in 1 .. (d - 2) /\ k \in 1 .. d)
        /\ \A k \in 1 .. (d - 2) : k \in 1 .. (d - 1)
        /\ (d - 1) - 1 = d - 2
    BY <1>1
  <2>2. /\ \A k \in 1 .. d : FrameOK(frames[k])
        /\ \A k \in 1 .. (d - 1) : Waiting(frames[k])
    BY DEF IInv, FramesOK
  <2>3. \A k \in 1 .. (d - 1) : FrameOK(frames'[k])
    BY <1>5, <1>7, <2>1, <2>2
  <2>4. \A k \in 1 .. (d - 2) : Waiting(frames'[k])
    BY <1>7, <2>1, <2>2
  <2>5. Reading(frames'[d - 1])
    BY <1>5, <1>7
  <2> QED
    BY <1>1, <1>7, <2>1, <2>3, <2>4, <2>5 DEF FramesOK
<1>9. Top' = BackFrom(f, len)
  BY <1>7 DEF Top, Depth, g
<1>10. LexOK'
  BY <1>2, <1>3, <1>4, <1>9, ResumeStep
<1>11. Told(expanded')
  BY <1>3, <1>4, ExpansionOK
<1> QED
  BY <1>4, <1>8, <1>10, <1>11, RestStep DEF IInv

(* Steps after which nothing more is read, and stuttering.                 *)
LEMMA FinalSteps ==
  ASSUME IInv, EndRoot \/ (\E m \in BOOLEAN : IncludeFails(m)) \/ UNCHANGED vars
  PROVE  IInv'
<1>1. frames' = frames /\ once' = once
  BY DEF EndRoot, IncludeFails, vars
<1>2. FramesOK' /\ Depth' = Depth /\ Top' = Top
  BY <1>1 DEF IInv, FramesOK, Depth, Top
<1>3. FrameOK(Top) /\ Reading(Top) /\ Top.acc \in Nat
  BY TopFacts DEF IInv
<1>4. CASE EndRoot
  <2>1. lex' \in [err : Nat, tok : Nat]
    <3>1. lex \in [err : Nat, tok : Nat]
      BY DEF IInv, LexOK
    <3> QED
      BY <1>3, <1>4, <3>1 DEF EndRoot, Newlines
  <2>2. phase' = "done" /\ Told(expanded')
    BY <1>3, <1>4, ExpansionOK DEF EndRoot
  <2>3. LexOK' /\ Rest'
    BY <1>1, <2>1, <2>2 DEF LexOK, NewlinesConserved, IInv, Rest, Told
  <2> QED
    BY <1>2, <2>3 DEF IInv
<1>5. CASE \E m \in BOOLEAN : IncludeFails(m)
  <2>1. phase' = "failed" /\ lex' = lex /\ Told(expanded')
    BY <1>3, <1>5, ExpansionOK DEF IncludeFails
  <2>2. LexOK' /\ Rest'
    BY <1>1, <2>1 DEF LexOK, NewlinesConserved, IInv, Rest, Told
  <2> QED
    BY <1>2, <2>2 DEF IInv
<1>6. CASE UNCHANGED vars
  <2>1. LexOK'
    BY <1>2, <1>6 DEF IInv, LexOK, NewlinesConserved, vars
  <2>2. Rest'
    BY <1>6 DEF IInv, Rest, Told, vars
  <2> QED
    BY <1>2, <2>1, <2>2 DEF IInv
<1> QED
  BY <1>4, <1>5, <1>6

LEMMA InitStep == Init => IInv
<1> SUFFICES ASSUME Init PROVE IInv
  OBVIOUS
<1>1. FrameOK(NewFrame(Root)) /\ Reading(NewFrame(Root)) /\ NewFrame(Root) \in FrameType
  BY NewFrameOK DEF FrameOK, Shape
<1>2. frames = <<NewFrame(Root)>>
  BY DEF Init
<1>3. FramesOK
  BY <1>1, <1>2 DEF FramesOK
<1>4. Depth = 1 /\ Top = NewFrame(Root)
  BY <1>2 DEF Depth, Top
<1>5. LexOK
  BY <1>4 DEF Init, LexOK, NewlinesConserved, NewFrame
<1>6. Told(NoText)
  BY DEF Told, NoText
<1>7. Rest
  BY <1>6 DEF Init, Rest
<1> QED
  BY <1>3, <1>5, <1>7 DEF IInv

LEMMA PpInductive == Spec => []IInv
<1>1. ASSUME IInv, [Next]_vars PROVE IInv'
  <2>1. ASSUME NEW n \in Counts,
               \/ \E v \in BOOLEAN : If(v, n) \/ Elif(v, n) \/ Stray(v, n) \/ Pragma(v, n)
               \/ Else(n) \/ Endif(n)
               \/ OtherDirective(n) \/ DefineFunction(n) \/ Silent(n)
               \/ Text(n) \/ TextOpen(n) \/ TextOff(n)
        PROVE  IInv'
    <3>1. n \in Nat /\ TRUE \in BOOLEAN
      BY CountsAssumption
    <3> QED
      BY <1>1, <2>1, <3>1, IfStep, ElifStep, ElseStep, EndifStep, StrayStep, OtherSteps,
         TextSteps, TextOpenStep
  <2>2. ASSUME NEW f \in Files,
               Include(f) \/ \E len \in 1 .. MaxLines : IncludeOnce(f, len)
        PROVE  IInv'
    BY <1>1, <2>2, IncludeStep, IncludeOnceStep
  <2>3. CASE EndInclude
    BY <1>1, <2>3, EndIncludeStep
  <2>4. CASE EndRoot \/ (\E m \in BOOLEAN : IncludeFails(m)) \/ UNCHANGED vars
    BY <1>1, <2>4, FinalSteps
  <2> QED
    BY <1>1, <2>1, <2>2, <2>3, <2>4 DEF Next
<1> QED
  BY InitStep, <1>1, PTL DEF Spec

-----------------------------------------------------------------------------
(* Every variable keeps its type, and every open conditional its chain.    *)
THEOREM PpTypeCorrect == Spec => []TypeOK
<1>1. IInv => TypeOK
  BY DEF IInv, FramesOK, FrameOK, Shape, LexOK, Rest, Told, TypeOK
<1> QED
  BY <1>1, PpInductive, PTL

(* #if / #elif / #else / #endif select exactly the groups C selects, for   *)
(* any nesting, any number of groups and any include depth.                *)
THEOREM ConditionalsCorrect == Spec => []SelectedLinesActive
<1>1. IInv => SelectedLinesActive
  BY DEF IInv, FramesOK, FrameOK, CondsOK, AllSelected, SelectedLinesActive
<1> QED
  BY <1>1, PpInductive, PTL

(* In a file that has not included another, text is expanded with the line *)
(* it begins on, whenever it is put out, and line_no is the line read next *)
(* along both ways out of the loop's body.                                 *)
THEOREM LineNumbersExact == Spec => []LineMacroExact
<1>1. IInv => LineMacroExact
  BY DEF IInv, FramesOK, Reading, Rest, Told, Top, Depth, LineMacroExact
<1> QED
  BY <1>1, PpInductive, PTL

(* No newline is lost or added up to the second #include of the source     *)
(* file, but by the directives that odd names.                             *)
THEOREM LexerLinesExact == Spec => []NewlinesConserved
<1>1. IInv => NewlinesConserved
  BY DEF IInv, LexOK
<1> QED
  BY <1>1, PpInductive, PTL

=============================================================================
