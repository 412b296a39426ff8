---------------------------- MODULE ScopesProofs ----------------------------
(***************************************************************************)
(* The scopes, for any names, labels, programs and bounds: a name means    *)
(* its innermost declaration, and every way out of a block cleans what it  *)
(* leaves.  Four invariants, each inductive with those before it: Base (the*)
(* lists mirror the C scopes), Shared (lists of locals share their tails), *)
(* Targets (current_switch and current_loop belong to the innermost        *)
(* statement) and Returns (a return's list and the epilogue's meet).       *)
(***************************************************************************)
EXTENDS Scopes, SequenceTheorems, WellFoundedInduction, TLAPS

(* Induction on the natural numbers, for a set.                            *)
Less == {ss \in Nat \X Nat : ss[1] < ss[2]}

LEMMA LessFounded == IsWellFoundedOn(Less, Nat)
<1>1. Less = OpToRel(<, Nat)
  BY DEF Less, OpToRel
<1> QED
  BY <1>1, NatLessThanWellFounded

LEMMA NatSetInduction ==
  ASSUME NEW S, 0 \in S, \A n \in Nat : n \in S => n + 1 \in S
  PROVE  Nat \subseteq S
<1>1. IsWellFoundedOn(Less, Nat)
  BY LessFounded
<1>2. SUFFICES ASSUME Nat \ S # {} PROVE FALSE
  OBVIOUS
<1>3. Nat \ S \subseteq Nat
  OBVIOUS
<1>4. PICK x \in Nat \ S : \A y \in Nat \ S : ~(<<y, x>> \in Less)
  BY <1>1, <1>2, <1>3, WFMin
<1>5. x # 0
  OBVIOUS
<1>6. x - 1 \in Nat /\ <<x - 1, x>> \in Less
  BY <1>5 DEF Less
<1>7. x - 1 \in S
  BY <1>4, <1>6
<1> QED
  BY <1>6, <1>7

-----------------------------------------------------------------------------
(* Sequences.                                                              *)
LEMMA Empty ==
  ASSUME NEW V
  PROVE  <<>> \in Seq(V) /\ Len(<<>>) = 0 /\ \A s \in Seq(V) : Len(s) \in Nat /\ (Len(s) = 0 => s = <<>>)
OBVIOUS

LEMMA Single == ASSUME NEW V, NEW x \in V PROVE <<x>> \in Seq(V) /\ Len(<<x>>) = 1 /\ <<x>>[1] = x
OBVIOUS

LEMMA Joined ==
  ASSUME NEW V, NEW p \in Seq(V), NEW s \in Seq(V), NEW m, NEW n, Len(p) = m, Len(s) = n
  PROVE  /\ p \o s \in Seq(V) /\ Len(p \o s) = m + n
         /\ \A i \in 1 .. m : (p \o s)[i] = p[i]
         /\ \A i \in 1 .. n : (p \o s)[m + i] = s[i]
<1>1. m \in Nat /\ n \in Nat
  BY Empty
<1>2. p \o s \in Seq(V) /\ Len(p \o s) = m + n
  BY ConcatProperties
<1>3. \A i \in 1 .. m + n : (p \o s)[i] = IF i <= m THEN p[i] ELSE s[i - m]
  BY ConcatProperties
<1>4. \A i \in 1 .. m : i \in 1 .. m + n /\ i <= m
  BY <1>1
<1>5. \A i \in 1 .. n : m + i \in 1 .. m + n /\ ~(m + i <= m) /\ (m + i) - m = i
  BY <1>1
<1>6. \A i \in 1 .. m : (p \o s)[i] = p[i]
  BY <1>3, <1>4
<1>7. \A i \in 1 .. n : (p \o s)[m + i] = s[i]
  BY <1>3, <1>5
<1> QED
  BY <1>2, <1>6, <1>7

-----------------------------------------------------------------------------
(* The entries of the lists.                                               *)
E == [id : Nat \ {0}, name : Names \cup {"param"}, sort : VarSorts \cup {"typedef", "enum", "tag"}]

AppendsTo(V) == \A a, b \in Seq(V), x \in V : Append(a \o b, x) = a \o Append(b, x)
LEMMA AppendTo == ASSUME NEW V PROVE AppendsTo(V)
<1> SUFFICES ASSUME NEW a \in Seq(V), NEW b \in Seq(V), NEW x \in V PROVE Append(a \o b, x) = a \o Append(b, x)
  BY DEF AppendsTo
<1>1. PICK c \in Seq(V) : c = <<x>>
  BY Single
<1>2. Append(b, x) = b \o c /\ a \o b \in Seq(V)
  BY <1>1, AppendIsConcat, ConcatProperties
<1>3. Append(a \o b, x) = (a \o b) \o c
  BY <1>1, <1>2, AppendIsConcat
<1>4. (a \o b) \o c = a \o (b \o c)
  BY ConcatAssociative, SMTT(30)
<1> QED
  BY <1>2, <1>3, <1>4

LEMMA Assoc == \A p, s, t \in Seq(E) : (p \o s) \o t = p \o (s \o t)
<1> SUFFICES ASSUME NEW p \in Seq(E), NEW s \in Seq(E), NEW t \in Seq(E) PROVE (p \o s) \o t = p \o (s \o t)
  OBVIOUS
<1> QED
  BY ConcatAssociative, SMTT(30)

(* A sequence split before its i-th element, and its ends.                 *)
SplitAt(l, i) ==
  \E p, s \in Seq(E) : l = p \o s /\ Len(s) = Len(l) - i + 1 /\ s # <<>> /\ s[1] = l[i]
EndsWith(l, s) == \E q \in Seq(E) : l = q \o s

LEMMA Cut ==
  ASSUME NEW l \in Seq(E), NEW i \in 1 .. Len(l)
  PROVE  SplitAt(l, i)
<1>0. PICK n : n = Len(l)
  OBVIOUS
<1> DEFINE p == SubSeq(l, 1, i - 1)
<1> DEFINE s == SubSeq(l, i, n)
<1>1. n \in Nat /\ i \in Int /\ i - 1 \in Int /\ n \in Int /\ 1 <= i /\ i <= n
  BY <1>0, Empty
<1>2. \A j \in 1 .. n : l[j] \in E
  BY <1>0, ElementOfSeq
<1>3. p \in Seq(E) /\ Len(p) = i - 1
  <2>1. \A j \in 1 .. i - 1 : l[j] \in E
    BY <1>1, <1>2
  <2>2. p \in Seq(E) /\ Len(p) = IF 1 <= i - 1 THEN i - 1 - 1 + 1 ELSE 0
    BY <1>1, <2>1, SubSeqProperties
  <2> QED
    BY <1>1, <2>2
<1>4. s \in Seq(E) /\ Len(s) = n - i + 1 /\ s[1] = l[i]
  <2>1. \A j \in i .. n : l[j] \in E
    BY <1>1, <1>2
  <2>2. /\ s \in Seq(E) /\ Len(s) = IF i <= n THEN n - i + 1 ELSE 0
        /\ \A j \in 1 .. n - i + 1 : s[j] = l[i + j - 1]
    BY <1>1, <2>1, SubSeqProperties
  <2>3. 1 \in 1 .. n - i + 1 /\ i + 1 - 1 = i
    BY <1>1
  <2> QED
    BY <1>1, <2>2, <2>3
<1>5. p \o s = l
  <2>1. 1 \in 1 .. n + 1 /\ i - 1 \in 1 - 1 .. n /\ n \in i - 1 .. n /\ (i - 1) + 1 = i
    BY <1>1
  <2>2. SubSeq(l, 1, i - 1) \o SubSeq(l, (i - 1) + 1, n) = SubSeq(l, 1, n)
    BY <1>0, <2>1, ConcatAdjacentSubSeq
  <2>3. SubSeq(l, 1, n) = l
    BY <1>0, SubSeqFull
  <2> QED
    BY <2>1, <2>2, <2>3
<1> HIDE DEF p, s
<1>6. s # <<>>
  BY <1>1, <1>4, Empty
<1> QED
  BY <1>0, <1>3, <1>4, <1>5, <1>6 DEF SplitAt

(* Two splits of a sequence with something in front of it.                 *)
LEMMA SplitPushed ==
  ASSUME NEW x \in E, NEW l \in Seq(E), NEW p \in Seq(E), NEW s \in Seq(E), <<x>> \o l = p \o s, p # <<>>
  PROVE  EndsWith(l, s)
<1>1. Head(p) \in E /\ Tail(p) \in Seq(E)
  BY HeadTailProperties
<1>2. p = <<Head(p)>> \o Tail(p)
  <2>1. Len(p) \in Nat /\ Len(p) # 0 /\ Len(Tail(p)) = Len(p) - 1 /\ \A i \in 1 .. Len(Tail(p)) : Tail(p)[i] = p[i + 1]
    BY HeadTailProperties, Empty
  <2>2. Head(p) = p[1]
    OBVIOUS
  <2> QED
    BY <1>1, <2>1, <2>2
<1>3. p \o s = <<Head(p)>> \o (Tail(p) \o s)
  BY <1>1, <1>2, Single, ConcatAssociative
<1> DEFINE q == Tail(p) \o s
<1>4. q \in Seq(E)
  BY <1>1, ConcatProperties
<1>5. <<x>> \o l = <<Head(p)>> \o q
  BY <1>3
<1> HIDE DEF q
<1>6. l = q
  <2>1. Len(<<x>> \o l) = 1 + Len(l) /\ Len(<<Head(p)>> \o q) = 1 + Len(q)
    BY <1>1, <1>4, Single, Joined
  <2>2. Len(l) = Len(q)
    BY <1>4, <1>5, <2>1, Empty
  <2>3. \A i \in 1 .. Len(l) : (<<x>> \o l)[1 + i] = l[i]
    BY Single, Joined
  <2>4. \A i \in 1 .. Len(q) : (<<Head(p)>> \o q)[1 + i] = q[i]
    BY <1>1, <1>4, Single, Joined
  <2> QED
    BY <1>4, <1>5, <2>2, <2>3, <2>4, SeqEqual
<1> QED
  BY <1>1, <1>4, <1>6 DEF EndsWith, q

(* The ids of the entries that are in a set.                               *)
IdsRun(l, S, g) ==
  g = [i \in 0 .. Len(l) |->
        IF i = 0 THEN <<>> ELSE IF l[i] \in S THEN Append(g[i - 1], l[i].id) ELSE g[i - 1]]

LEMMA IdsExist ==
  ASSUME NEW l, NEW S, Len(l) \in Nat
  PROVE  \E g : IdsRun(l, S, g)
<1> DEFINE F(i, a) == IF i = 0 THEN <<>> ELSE IF l[i] \in S THEN Append(a, l[i].id) ELSE a
<1> DEFINE Built == {n \in Nat : \E g : g = [i \in 0 .. n |-> F(i, g[i - 1])]}
<1>1. 0 \in Built
  <2> DEFINE g == [i \in 0 .. 0 |-> <<>>]
  <2>1. \A i \in 0 .. 0 : g[i] = F(i, g[i - 1])
    OBVIOUS
  <2>2. g = [i \in 0 .. 0 |-> g[i]]
    OBVIOUS
  <2> HIDE DEF g, F
  <2>3. g = [i \in 0 .. 0 |-> F(i, g[i - 1])]
    BY <2>1, <2>2
  <2> QED
    BY <2>3
<1>2. \A a, c : F(0, a) = F(0, c)
  OBVIOUS
<1> HIDE DEF F
<1>3. ASSUME NEW n \in Nat, n \in Built PROVE n + 1 \in Built
  <2>1. PICK f : f = [i \in 0 .. n |-> F(i, f[i - 1])]
    BY <1>3
  <2> DEFINE g == [i \in 0 .. n + 1 |-> IF i <= n THEN f[i] ELSE F(i, f[n])]
  <2>2. ASSUME NEW i \in 0 .. n + 1 PROVE g[i] = F(i, g[i - 1])
    <3>1. CASE i = 0
      <4>1. 0 \in 0 .. n /\ 0 <= n
        OBVIOUS
      <4>2. g[i] = f[0] /\ f[0] = F(0, f[0 - 1])
        BY <2>1, <3>1, <4>1
      <4> QED
        BY <1>2, <3>1, <4>2
    <3>2. CASE i # 0 /\ i <= n
      <4>1. i \in 0 .. n /\ i - 1 \in 0 .. n + 1 /\ i - 1 <= n
        BY <3>2
      <4>2. f[i] = F(i, f[i - 1])
        BY <2>1, <4>1
      <4> QED
        BY <3>2, <4>1, <4>2
    <3>3. CASE i = n + 1
      <4>1. n \in 0 .. n + 1 /\ n <= n /\ i - 1 = n /\ ~(i <= n)
        BY <3>3
      <4> QED
        BY <4>1
    <3> QED
      BY <3>1, <3>2, <3>3
  <2>3. g = [i \in 0 .. n + 1 |-> g[i]]
    OBVIOUS
  <2> HIDE DEF g
  <2>4. g = [i \in 0 .. n + 1 |-> F(i, g[i - 1])]
    BY <2>2, <2>3
  <2> QED
    BY <2>4
<1> HIDE DEF Built
<1>4. Len(l) \in Built
  BY <1>1, <1>3, NatSetInduction
<1> QED
  BY <1>4 DEF Built, F, IdsRun

(* The run of a longer list agrees with that of the shorter one.           *)
LEMMA IdsAgree ==
  ASSUME NEW l, NEW k, NEW S, NEW f, NEW g, IdsRun(l, S, f), IdsRun(k, S, g),
         Len(l) \in Nat, Len(k) \in Nat, Len(l) <= Len(k), \A i \in 1 .. Len(l) : k[i] = l[i]
  PROVE  \A i \in 0 .. Len(l) : g[i] = f[i]
<1> DEFINE Same == {n \in Nat : n <= Len(l) => g[n] = f[n]}
<1>1. 0 \in Same
  <2>1. 0 \in 0 .. Len(l) /\ 0 \in 0 .. Len(k)
    OBVIOUS
  <2>2. f[0] = <<>>
    BY <2>1 DEF IdsRun
  <2>3. g[0] = <<>>
    BY <2>1 DEF IdsRun
  <2> QED
    BY <2>2, <2>3
<1>2. ASSUME NEW n \in Nat, n \in Same PROVE n + 1 \in Same
  <2>1. SUFFICES ASSUME n + 1 <= Len(l) PROVE g[n + 1] = f[n + 1]
    OBVIOUS
  <2>2. n <= Len(l) /\ n + 1 \in 0 .. Len(l) /\ n + 1 \in 0 .. Len(k) /\ n + 1 \in 1 .. Len(l) /\ n + 1 # 0 /\ (n + 1) - 1 = n
    BY <2>1
  <2>3. f[n + 1] = IF l[n + 1] \in S THEN Append(f[n], l[n + 1].id) ELSE f[n]
    BY <2>2 DEF IdsRun
  <2>4. g[n + 1] = IF k[n + 1] \in S THEN Append(g[n], k[n + 1].id) ELSE g[n]
    BY <2>2 DEF IdsRun
  <2>5. g[n] = f[n] /\ k[n + 1] = l[n + 1]
    BY <1>2, <2>2
  <2> QED
    BY <2>3, <2>4, <2>5
<1> HIDE DEF Same
<1>3. Nat \subseteq Same
  BY <1>1, <1>2, NatSetInduction
<1> QED
  BY <1>3 DEF Same

LEMMA IdsIs ==
  ASSUME NEW l, NEW S, NEW g, IdsRun(l, S, g), Len(l) \in Nat
  PROVE  IdsIn(l, S) = g[Len(l)]
<1> DEFINE ids == CHOOSE h : IdsRun(l, S, h)
<1>1. IdsRun(l, S, ids)
  BY IdsExist
<1>2. IdsIn(l, S) = ids[Len(l)]
  BY DEF IdsIn, IdsRun
<1> HIDE DEF ids
<1>3. ids[Len(l)] = g[Len(l)]
  BY <1>1, IdsAgree
<1> QED
  BY <1>2, <1>3

LEMMA IdsNil == ASSUME NEW S PROVE IdsIn(<<>>, S) = <<>>
<1>1. Len(<<>>) = 0 /\ 0 \in Nat
  OBVIOUS
<1>2. PICK g : IdsRun(<<>>, S, g)
  BY <1>1, IdsExist
<1>3. g[0] = <<>>
  BY <1>1, <1>2 DEF IdsRun
<1>4. IdsIn(<<>>, S) = g[Len(<<>>)]
  BY <1>1, <1>2, IdsIs
<1> QED
  BY <1>1, <1>3, <1>4

LEMMA IdsAppend ==
  ASSUME NEW l \in Seq(E), NEW e \in E, NEW S
  PROVE  IdsIn(Append(l, e), S) = IF e \in S THEN Append(IdsIn(l, S), e.id) ELSE IdsIn(l, S)
<1>1. PICK n \in Nat : n = Len(l)
  BY Empty
<1>2. PICK k : k = Append(l, e)
  OBVIOUS
<1>3. Len(k) = n + 1 /\ k[n + 1] = e /\ \A i \in 1 .. n : k[i] = l[i]
  BY <1>1, <1>2, AppendProperties
<1>0. Len(l) \in Nat /\ Len(k) \in Nat
  BY <1>1, <1>3
<1>4. PICK f : IdsRun(l, S, f)
  BY <1>0, IdsExist
<1>5. PICK g : IdsRun(k, S, g)
  BY <1>0, IdsExist
<1>6. n <= n + 1 /\ n \in 0 .. n
  OBVIOUS
<1>7. g[n] = f[n]
  <2>1. Len(l) <= Len(k) /\ \A i \in 1 .. Len(l) : k[i] = l[i]
    BY <1>1, <1>3
  <2>2. \A i \in 0 .. Len(l) : g[i] = f[i]
    BY <1>0, <1>4, <1>5, <2>1, IdsAgree
  <2> QED
    BY <1>1, <1>6, <2>2
<1>8. g[n + 1] = IF e \in S THEN Append(g[n], e.id) ELSE g[n]
  <2>1. n + 1 \in 0 .. n + 1 /\ n + 1 # 0 /\ (n + 1) - 1 = n
    OBVIOUS
  <2>2. g[n + 1] = IF k[n + 1] \in S THEN Append(g[n], k[n + 1].id) ELSE g[n]
    BY <1>3, <1>5, <2>1 DEF IdsRun
  <2> QED
    BY <1>3, <2>2
<1>9. IdsIn(l, S) = f[n]
  BY <1>0, <1>1, <1>4, IdsIs
<1>10. IdsIn(k, S) = g[n + 1]
  BY <1>0, <1>3, <1>5, IdsIs
<1> QED
  BY <1>2, <1>7, <1>8, <1>9, <1>10

LEMMA IdsTyped == ASSUME NEW S PROVE \A l \in Seq(E) : IdsIn(l, S) \in Seq(Nat)
<1> DEFINE Good == {n \in Nat : \A l \in Seq(E) : Len(l) = n => IdsIn(l, S) \in Seq(Nat)}
<1>1. 0 \in Good
  BY Empty, IdsNil
<1>2. ASSUME NEW n \in Nat, n \in Good PROVE n + 1 \in Good
  <2>1. SUFFICES ASSUME NEW l \in Seq(E), Len(l) = n + 1 PROVE IdsIn(l, S) \in Seq(Nat)
    OBVIOUS
  <2>2. l # <<>>
    BY <2>1
  <2>3. PICK k \in Seq(E), e \in E : l = Append(k, e)
    BY <2>2, SequenceEmptyOrAppend
  <2>4. Len(k) = n
    BY <2>1, <2>3, Empty, AppendProperties
  <2>5. IdsIn(k, S) \in Seq(Nat)
    BY <1>2, <2>4
  <2>6. IdsIn(l, S) = IF e \in S THEN Append(IdsIn(k, S), e.id) ELSE IdsIn(k, S)
    BY <2>3, IdsAppend
  <2>7. e.id \in Nat
    BY DEF E
  <2> QED
    BY <2>5, <2>6, <2>7, AppendProperties
<1> HIDE DEF Good
<1>3. Nat \subseteq Good
  BY <1>1, <1>2, NatSetInduction
<1> QED
  BY <1>3, Empty DEF Good

(* The ids of a sequence of two parts.                                     *)
LEMMA IdsJoin ==
  ASSUME NEW S, NEW p \in Seq(E)
  PROVE  \A s \in Seq(E) : IdsIn(p \o s, S) = IdsIn(p, S) \o IdsIn(s, S)
<1> DEFINE Good == {n \in Nat : \A s \in Seq(E) : Len(s) = n => IdsIn(p \o s, S) = IdsIn(p, S) \o IdsIn(s, S)}
<1>0. IdsIn(p, S) \in Seq(Nat)
  BY IdsTyped
<1>1. 0 \in Good
  <2>1. \A s \in Seq(E) : Len(s) = 0 => s = <<>>
    BY Empty
  <2>2. p \o <<>> = p /\ IdsIn(p, S) \o <<>> = IdsIn(p, S) /\ IdsIn(<<>>, S) = <<>>
    BY <1>0, ConcatEmptySeq, IdsNil
  <2> QED
    BY <2>1, <2>2
<1>2. ASSUME NEW n \in Nat, n \in Good PROVE n + 1 \in Good
  <2>1. SUFFICES ASSUME NEW s \in Seq(E), Len(s) = n + 1
                 PROVE  IdsIn(p \o s, S) = IdsIn(p, S) \o IdsIn(s, S)
    OBVIOUS
  <2>2. s # <<>>
    BY <2>1
  <2>3. PICK k \in Seq(E), e \in E : s = Append(k, e)
    BY <2>2, SequenceEmptyOrAppend
  <2>4. Len(k) = n
    BY <2>1, <2>3, Empty, AppendProperties
  <2>5. IdsIn(p \o k, S) = IdsIn(p, S) \o IdsIn(k, S)
    BY <1>2, <2>4
  <2>6. p \o k \in Seq(E) /\ <<e>> \in Seq(E)
    BY ConcatProperties
  <2>7. p \o s = Append(p \o k, e)
    <3>1. s = k \o <<e>> /\ Append(p \o k, e) = (p \o k) \o <<e>>
      BY <2>3, <2>6, AppendIsConcat
    <3> QED
      BY <2>6, <3>1, ConcatAssociative
  <2>8. IdsIn(p \o s, S) = IF e \in S THEN Append(IdsIn(p \o k, S), e.id) ELSE IdsIn(p \o k, S)
    <3>1. IdsIn(Append(p \o k, e), S) = IF e \in S THEN Append(IdsIn(p \o k, S), e.id) ELSE IdsIn(p \o k, S)
      BY <2>6, IdsAppend
    <3> QED
      BY <2>7, <3>1
  <2>9. IdsIn(s, S) = IF e \in S THEN Append(IdsIn(k, S), e.id) ELSE IdsIn(k, S)
    BY <2>3, IdsAppend
  <2>10. IdsIn(k, S) \in Seq(Nat) /\ e.id \in Nat
    BY IdsTyped DEF E
  <2>11. Append(IdsIn(p, S) \o IdsIn(k, S), e.id) = IdsIn(p, S) \o Append(IdsIn(k, S), e.id)
    <3>1. PICK a \in Seq(Nat) : a = IdsIn(p, S)
      BY <1>0
    <3>2. PICK b \in Seq(Nat) : b = IdsIn(k, S)
      BY <2>10
    <3>3. PICK x \in Nat : x = e.id
      BY <2>10
    <3>4. AppendsTo(Nat)
      BY AppendTo
    <3>5. Append(a \o b, x) = a \o Append(b, x)
      BY <3>4 DEF AppendsTo
    <3> QED
      BY <3>1, <3>2, <3>3, <3>5
  <2> QED
    BY <2>5, <2>8, <2>9, <2>11
<1> HIDE DEF Good
<1>3. Nat \subseteq Good
  BY <1>1, <1>2, NatSetInduction
<1> QED
  BY <1>3, Empty DEF Good

(* Which ids they are.                                                     *)
LEMMA IdsSet ==
  ASSUME NEW S
  PROVE  \A l \in Seq(E) : ToSet(IdsIn(l, S)) = {l[i].id : i \in {j \in 1 .. Len(l) : l[j] \in S}}
<1> DEFINE Of(l) == {l[i].id : i \in {j \in 1 .. Len(l) : l[j] \in S}}
<1> DEFINE Good == {n \in Nat : \A l \in Seq(E) : Len(l) = n => ToSet(IdsIn(l, S)) = Of(l)}
<1>1. 0 \in Good
  <2>1. \A l \in Seq(E) : Len(l) = 0 => l = <<>>
    BY Empty
  <2>2. ToSet(<<>>) = {}
    BY DEF ToSet
  <2>3. Of(<<>>) = {}
    OBVIOUS
  <2> QED
    BY <2>1, <2>2, <2>3, IdsNil
<1>2. ASSUME NEW n \in Nat, n \in Good PROVE n + 1 \in Good
  <2>1. SUFFICES ASSUME NEW l \in Seq(E), Len(l) = n + 1 PROVE ToSet(IdsIn(l, S)) = Of(l)
    OBVIOUS
  <2>2. l # <<>>
    BY <2>1
  <2>3. PICK k \in Seq(E), e \in E : l = Append(k, e)
    BY <2>2, SequenceEmptyOrAppend
  <2>4. Len(k) = n /\ l[n + 1] = e /\ \A i \in 1 .. n : l[i] = k[i]
    BY <2>1, <2>3, Empty, AppendProperties
  <2>5. ToSet(IdsIn(k, S)) = Of(k)
    BY <1>2, <2>4
  <2>6. IdsIn(l, S) = IF e \in S THEN Append(IdsIn(k, S), e.id) ELSE IdsIn(k, S)
    BY <2>3, IdsAppend
  <2>7. ToSet(IdsIn(l, S)) = ToSet(IdsIn(k, S)) \cup (IF e \in S THEN {e.id} ELSE {})
    <3>1. IdsIn(k, S) \in Seq(Nat) /\ e.id \in Nat
      BY IdsTyped DEF E
    <3>2. PICK a \in Seq(Nat) : a = IdsIn(k, S)
      BY <3>1
    <3>3. PICK x \in Nat : x = e.id
      BY <3>1
    <3>4. ToSet(Append(a, x)) = ToSet(a) \cup {x}
      <4>1. PICK m \in Nat : m = Len(a)
        BY Empty
      <4>2. PICK b \in Seq(Nat) : b = Append(a, x)
        BY AppendProperties
      <4>3. Len(b) = m + 1 /\ b[m + 1] = x /\ \A i \in 1 .. m : b[i] = a[i]
        BY <4>1, <4>2, AppendProperties
      <4>4. DOMAIN a = 1 .. m /\ DOMAIN b = 1 .. m + 1
        BY <4>1, <4>3, LenProperties
      <4>5. 1 .. m + 1 = (1 .. m) \cup {m + 1}
        OBVIOUS
      <4> QED
        BY <4>2, <4>3, <4>4, <4>5 DEF ToSet
    <3> QED
      BY <2>6, <3>2, <3>3, <3>4
  <2>8. Of(l) = Of(k) \cup (IF e \in S THEN {e.id} ELSE {})
    <3>1. 1 .. n + 1 = (1 .. n) \cup {n + 1}
      OBVIOUS
    <3>2. ASSUME NEW x PROVE x \in Of(l) <=> x \in Of(k) \cup (IF e \in S THEN {e.id} ELSE {})
      BY <2>1, <2>4, <3>1
    <3> QED
      BY <3>2
  <2> HIDE DEF Of
  <2> QED
    BY <2>5, <2>7, <2>8
<1> HIDE DEF Good
<1>3. Nat \subseteq Good
  BY <1>1, <1>2, NatSetInduction
<1> QED
  BY <1>3, Empty DEF Good

(* Two sets that agree on the entries of a list.                           *)
LEMMA IdsSame ==
  ASSUME NEW S, NEW R
  PROVE  \A l \in Seq(E) : (\A i \in 1 .. Len(l) : l[i] \in S <=> l[i] \in R) => IdsIn(l, S) = IdsIn(l, R)
<1> DEFINE Agree(l) == \A i \in 1 .. Len(l) : l[i] \in S <=> l[i] \in R
<1> DEFINE Good == {n \in Nat : \A l \in Seq(E) : Len(l) = n /\ Agree(l) => IdsIn(l, S) = IdsIn(l, R)}
<1>1. 0 \in Good
  <2>1. \A l \in Seq(E) : Len(l) = 0 => l = <<>>
    BY Empty
  <2>2. IdsIn(<<>>, S) = <<>> /\ IdsIn(<<>>, R) = <<>>
    BY IdsNil
  <2> HIDE DEF Agree
  <2> QED
    BY <2>1, <2>2
<1>2. ASSUME NEW n \in Nat, n \in Good PROVE n + 1 \in Good
  <2>1. SUFFICES ASSUME NEW l \in Seq(E), Len(l) = n + 1, Agree(l) PROVE IdsIn(l, S) = IdsIn(l, R)
    OBVIOUS
  <2>2. l # <<>>
    BY <2>1
  <2>3. PICK k \in Seq(E), e \in E : l = Append(k, e)
    BY <2>2, SequenceEmptyOrAppend
  <2>4. Len(k) = n /\ l[n + 1] = e /\ \A i \in 1 .. n : l[i] = k[i]
    BY <2>1, <2>3, Empty, AppendProperties
  <2>5. (e \in S <=> e \in R) /\ Agree(k)
    <3>1. n + 1 \in 1 .. n + 1 /\ \A i \in 1 .. n : i \in 1 .. n + 1
      OBVIOUS
    <3> QED
      BY <2>1, <2>4, <3>1
  <2> HIDE DEF Agree
  <2>6. IdsIn(k, S) = IdsIn(k, R)
    BY <1>2, <2>4, <2>5
  <2>7. IdsIn(l, S) = IF e \in S THEN Append(IdsIn(k, S), e.id) ELSE IdsIn(k, S)
    BY <2>3, IdsAppend
  <2>8. IdsIn(l, R) = IF e \in R THEN Append(IdsIn(k, R), e.id) ELSE IdsIn(k, R)
    BY <2>3, IdsAppend
  <2> QED
    BY <2>5, <2>6, <2>7, <2>8
<1> HIDE DEF Good, Agree
<1>3. Nat \subseteq Good
  BY <1>1, <1>2, NatSetInduction
<1> QED
  BY <1>3, Empty DEF Good, Agree

(* A list with no entry of the set.                                        *)
LEMMA IdsNone ==
  ASSUME NEW S, NEW l \in Seq(E), \A i \in 1 .. Len(l) : l[i] \notin S
  PROVE  IdsIn(l, S) = <<>>
<1>1. IdsIn(l, S) \in Seq(Nat)
  BY IdsTyped
<1>2. ToSet(IdsIn(l, S)) = {}
  BY IdsSet
<1>3. Len(IdsIn(l, S)) = 0
  <2>1. DOMAIN IdsIn(l, S) = 1 .. Len(IdsIn(l, S)) /\ Len(IdsIn(l, S)) \in Nat
    BY <1>1, LenProperties
  <2>2. DOMAIN IdsIn(l, S) = {}
    BY <1>2 DEF ToSet
  <2>3. ASSUME Len(IdsIn(l, S)) # 0 PROVE FALSE
    <3>1. 1 \in 1 .. Len(IdsIn(l, S))
      BY <2>1, <2>3
    <3> QED
      BY <2>1, <2>2, <3>1
  <2> QED
    BY <2>3
<1> QED
  BY <1>1, <1>3, Empty

-----------------------------------------------------------------------------
(* What the first n C scopes declare.                                      *)
FlatRun(open, field, n, g) ==
  g = [i \in 0 .. n |-> IF i = 0 THEN <<>> ELSE open[i][field] \o g[i - 1]]

LEMMA FlatExist ==
  ASSUME NEW open, NEW field, NEW n \in Nat
  PROVE  \E g : FlatRun(open, field, n, g)
<1> DEFINE F(i, a) == IF i = 0 THEN <<>> ELSE open[i][field] \o a
<1> DEFINE Built == {k \in Nat : \E g : g = [i \in 0 .. k |-> F(i, g[i - 1])]}
<1>1. 0 \in Built
  <2> DEFINE g == [i \in 0 .. 0 |-> <<>>]
  <2>1. \A i \in 0 .. 0 : g[i] = F(i, g[i - 1])
    OBVIOUS
  <2>2. g = [i \in 0 .. 0 |-> g[i]]
    OBVIOUS
  <2> HIDE DEF g, F
  <2>3. g = [i \in 0 .. 0 |-> F(i, g[i - 1])]
    BY <2>1, <2>2
  <2> QED
    BY <2>3
<1>2. \A a, c : F(0, a) = F(0, c)
  OBVIOUS
<1> HIDE DEF F
<1>3. ASSUME NEW k \in Nat, k \in Built PROVE k + 1 \in Built
  <2>1. PICK f : f = [i \in 0 .. k |-> F(i, f[i - 1])]
    BY <1>3
  <2> DEFINE g == [i \in 0 .. k + 1 |-> IF i <= k THEN f[i] ELSE F(i, f[k])]
  <2>2. ASSUME NEW i \in 0 .. k + 1 PROVE g[i] = F(i, g[i - 1])
    <3>1. CASE i = 0
      <4>1. 0 \in 0 .. k /\ 0 <= k
        OBVIOUS
      <4>2. g[i] = f[0] /\ f[0] = F(0, f[0 - 1])
        BY <2>1, <3>1, <4>1
      <4> QED
        BY <1>2, <3>1, <4>2
    <3>2. CASE i # 0 /\ i <= k
      <4>1. i \in 0 .. k /\ i - 1 \in 0 .. k + 1 /\ i - 1 <= k
        BY <3>2
      <4>2. f[i] = F(i, f[i - 1])
        BY <2>1, <4>1
      <4> QED
        BY <3>2, <4>1, <4>2
    <3>3. CASE i = k + 1
      <4>1. k \in 0 .. k + 1 /\ k <= k /\ i - 1 = k /\ ~(i <= k)
        BY <3>3
      <4> QED
        BY <4>1
    <3> QED
      BY <3>1, <3>2, <3>3
  <2>3. g = [i \in 0 .. k + 1 |-> g[i]]
    OBVIOUS
  <2> HIDE DEF g
  <2>4. g = [i \in 0 .. k + 1 |-> F(i, g[i - 1])]
    BY <2>2, <2>3
  <2> QED
    BY <2>4
<1> HIDE DEF Built
<1>4. n \in Built
  BY <1>1, <1>3, NatSetInduction
<1> QED
  BY <1>4 DEF Built, F, FlatRun

LEMMA FlatAgree ==
  ASSUME NEW field, NEW open, NEW n \in Nat, NEW f, FlatRun(open, field, n, f),
         NEW other, NEW m \in Nat, NEW g, FlatRun(other, field, m, g),
         n <= m, \A i \in 1 .. n : other[i][field] = open[i][field]
  PROVE  \A i \in 0 .. n : g[i] = f[i]
<1> DEFINE Same == {k \in Nat : k <= n => g[k] = f[k]}
<1>1. 0 \in Same
  <2>1. 0 \in 0 .. n /\ 0 \in 0 .. m
    OBVIOUS
  <2>2. f[0] = <<>>
    BY <2>1 DEF FlatRun
  <2>3. g[0] = <<>>
    BY <2>1 DEF FlatRun
  <2> QED
    BY <2>2, <2>3
<1>2. ASSUME NEW k \in Nat, k \in Same PROVE k + 1 \in Same
  <2>1. SUFFICES ASSUME k + 1 <= n PROVE g[k + 1] = f[k + 1]
    OBVIOUS
  <2>2. k <= n /\ k + 1 \in 0 .. n /\ k + 1 \in 0 .. m /\ k + 1 \in 1 .. n /\ k + 1 # 0 /\ (k + 1) - 1 = k
    BY <2>1
  <2>3. f[k + 1] = open[k + 1][field] \o f[k]
    BY <2>2 DEF FlatRun
  <2>4. g[k + 1] = other[k + 1][field] \o g[k]
    BY <2>2 DEF FlatRun
  <2>5. g[k] = f[k] /\ other[k + 1][field] = open[k + 1][field]
    BY <1>2, <2>2
  <2> QED
    BY <2>3, <2>4, <2>5
<1> HIDE DEF Same
<1>3. Nat \subseteq Same
  BY <1>1, <1>2, NatSetInduction
<1> QED
  BY <1>3 DEF Same

LEMMA FlatIs ==
  ASSUME NEW open, NEW field, NEW n \in Nat, NEW g, FlatRun(open, field, n, g)
  PROVE  FlatTo(open, field, n) = g[n]
<1> DEFINE flat == CHOOSE h : FlatRun(open, field, n, h)
<1>1. FlatRun(open, field, n, flat)
  BY FlatExist
<1>2. FlatTo(open, field, n) = flat[n]
  BY DEF FlatTo, FlatRun
<1> HIDE DEF flat
<1>3. n <= n /\ n \in 0 .. n
  OBVIOUS
<1>4. flat[n] = g[n]
  BY <1>1, <1>3, FlatAgree
<1> QED
  BY <1>2, <1>4

LEMMA FlatSame ==
  ASSUME NEW open, NEW other, NEW field, NEW n \in Nat, \A i \in 1 .. n : other[i][field] = open[i][field]
  PROVE  FlatTo(other, field, n) = FlatTo(open, field, n)
<1>1. PICK f : FlatRun(open, field, n, f)
  BY FlatExist
<1>2. PICK g : FlatRun(other, field, n, g)
  BY FlatExist
<1>3. n <= n /\ n \in 0 .. n
  OBVIOUS
<1>4. \A i \in 0 .. n : g[i] = f[i]
  BY <1>1, <1>2, <1>3, FlatAgree
<1>5. FlatTo(open, field, n) = f[n]
  BY <1>1, FlatIs
<1>6. FlatTo(other, field, n) = g[n]
  BY <1>2, FlatIs
<1> QED
  BY <1>3, <1>4, <1>5, <1>6

LEMMA FlatNil == ASSUME NEW open, NEW field PROVE FlatTo(open, field, 0) = <<>>
<1>1. PICK g : FlatRun(open, field, 0, g)
  BY FlatExist
<1>2. g[0] = <<>>
  BY <1>1 DEF FlatRun
<1> QED
  BY <1>1, <1>2, FlatIs

LEMMA FlatStep ==
  ASSUME NEW open, NEW field, NEW n \in Nat \ {0}
  PROVE  FlatTo(open, field, n) = open[n][field] \o FlatTo(open, field, n - 1)
<1>1. n - 1 \in Nat /\ n \in Nat /\ n - 1 <= n /\ n - 1 \in 0 .. n - 1 /\ n \in 0 .. n /\ n # 0
  OBVIOUS
<1>2. PICK g : FlatRun(open, field, n, g)
  BY <1>1, FlatExist
<1>3. PICK f : FlatRun(open, field, n - 1, f)
  BY <1>1, FlatExist
<1>4. g[n - 1] = f[n - 1]
  BY <1>1, <1>2, <1>3, FlatAgree
<1>5. g[n] = open[n][field] \o g[n - 1]
  BY <1>1, <1>2 DEF FlatRun
<1>6. FlatTo(open, field, n) = g[n] /\ FlatTo(open, field, n - 1) = f[n - 1]
  BY <1>1, <1>2, <1>3, FlatIs
<1> QED
  BY <1>4, <1>5, <1>6

LEMMA FlatTyped ==
  ASSUME NEW open, NEW field, NEW m \in Nat, \A i \in 1 .. m : open[i][field] \in Seq(E)
  PROVE  \A n \in 0 .. m : FlatTo(open, field, n) \in Seq(E)
<1> DEFINE Good == {n \in Nat : n <= m => FlatTo(open, field, n) \in Seq(E)}
<1>1. 0 \in Good
  BY FlatNil, Empty
<1>2. ASSUME NEW n \in Nat, n \in Good PROVE n + 1 \in Good
  <2>1. SUFFICES ASSUME n + 1 <= m PROVE FlatTo(open, field, n + 1) \in Seq(E)
    OBVIOUS
  <2>2. n + 1 \in Nat \ {0} /\ n + 1 \in 1 .. m /\ n <= m /\ (n + 1) - 1 = n
    BY <2>1
  <2>3. FlatTo(open, field, n) \in Seq(E)
    BY <1>2, <2>2
  <2>4. FlatTo(open, field, n + 1) = open[n + 1][field] \o FlatTo(open, field, (n + 1) - 1)
    BY <2>2, FlatStep
  <2>5. PICK a \in Seq(E) : a = FlatTo(open, field, n)
    BY <2>3
  <2>6. PICK b \in Seq(E) : b = open[n + 1][field]
    BY <2>2
  <2>7. b \o a \in Seq(E)
    BY ConcatProperties
  <2> QED
    BY <2>2, <2>4, <2>5, <2>6, <2>7
<1> HIDE DEF Good
<1>3. Nat \subseteq Good
  BY <1>1, <1>2, NatSetInduction
<1> QED
  BY <1>3 DEF Good

(* What an outer scope sees is the end of what an inner one sees.          *)
LEMMA FlatEnds ==
  ASSUME NEW open, NEW field, NEW m \in Nat, \A i \in 1 .. m : open[i][field] \in Seq(E), NEW n \in 0 .. m
  PROVE  \E x \in Seq(E) : FlatTo(open, field, m) = x \o FlatTo(open, field, n)
<1>0. n \in Nat
  OBVIOUS
<1> DEFINE Ends(k) == \E x \in Seq(E) : FlatTo(open, field, k) = x \o FlatTo(open, field, n)
<1> DEFINE Good == {k \in Nat : n + k <= m => Ends(n + k)}
<1>1. 0 \in Good
  <2>1. FlatTo(open, field, n) \in Seq(E)
    BY FlatTyped
  <2>2. FlatTo(open, field, n) = <<>> \o FlatTo(open, field, n) /\ <<>> \in Seq(E)
    BY <2>1, ConcatEmptySeq, Empty
  <2>3. n + 0 = n
    OBVIOUS
  <2> QED
    BY <2>2, <2>3
<1>2. ASSUME NEW k \in Nat, k \in Good PROVE k + 1 \in Good
  <2>1. SUFFICES ASSUME n + (k + 1) <= m PROVE Ends(n + (k + 1))
    OBVIOUS
  <2>2. PICK j \in Nat \ {0} : j = n + (k + 1)
    BY <1>0
  <2>3. j \in 1 .. m /\ j - 1 = n + k /\ n + k <= m
    BY <1>0, <2>1, <2>2
  <2>4. PICK x \in Seq(E) : FlatTo(open, field, n + k) = x \o FlatTo(open, field, n)
    BY <1>2, <2>3
  <2>5. FlatTo(open, field, j) = open[j][field] \o FlatTo(open, field, j - 1)
    BY FlatStep
  <2>6. FlatTo(open, field, n) \in Seq(E) /\ open[j][field] \in Seq(E)
    BY <2>3, FlatTyped
  <2>7. PICK a \in Seq(E) : a = FlatTo(open, field, n)
    BY <2>6
  <2>8. PICK b \in Seq(E) : b = open[j][field]
    BY <2>6
  <2>9. b \o (x \o a) = (b \o x) \o a /\ b \o x \in Seq(E)
    <3>1. b \o x \in Seq(E)
      BY ConcatProperties
    <3> QED
      BY <3>1, Assoc
  <2> QED
    BY <2>2, <2>3, <2>4, <2>5, <2>7, <2>8, <2>9
<1> HIDE DEF Good
<1>3. Nat \subseteq Good
  BY <1>1, <1>2, NatSetInduction
<1>4. m - n \in Nat /\ n + (m - n) = m /\ n + (m - n) <= m
  BY <1>0
<1>5. m - n \in Good
  BY <1>3, <1>4
<1> QED
  BY <1>4, <1>5 DEF Good

-----------------------------------------------------------------------------
(* The lists of locals share their tails: T gives, for each entry, the list*)
(* that begins with it, and n is above the ids.                            *)
ListAt(T, x) == IF x = NULL THEN <<>> ELSE T[x]
Chain(l, T, n) ==
  /\ l \in Seq(E)
  /\ \A i \in 1 .. Len(l) : l[i].id < n
  /\ \A p, s \in Seq(E) : l = p \o s => s = ListAt(T, Ptr(s))

LEMMA EntryId == \A e \in E : e.id \in Nat /\ e.id # 0
BY DEF E

LEMMA PtrFacts ==
  ASSUME NEW s \in Seq(E)
  PROVE  /\ s = <<>> => Ptr(s) = 0
         /\ s # <<>> => Ptr(s) = s[1].id /\ Ptr(s) \in Nat \ {0} /\ 1 \in 1 .. Len(s)
<1>1. CASE s = <<>>
  BY <1>1 DEF Ptr, NULL
<1>2. CASE s # <<>>
  <2>1. Len(s) \in Nat \ {0}
    BY <1>2, EmptySeq
  <2>2. 1 \in 1 .. Len(s) /\ Head(s) = s[1]
    BY <1>2, <2>1
  <2>3. s[1] \in E
    BY <2>2, ElementOfSeq
  <2>4. Ptr(s) = s[1].id
    BY <1>2, <2>2 DEF Ptr
  <2> QED
    BY <1>2, <2>2, <2>3, <2>4, EntryId
<1> QED
  BY <1>1, <1>2

LEMMA ChainTail ==
  ASSUME NEW T, NEW n, NEW p \in Seq(E), NEW s \in Seq(E), Chain(p \o s, T, n)
  PROVE  Chain(s, T, n) /\ s = ListAt(T, Ptr(s))
<1>1. PICK a \in Nat : a = Len(p)
  BY Empty
<1>2. PICK b \in Nat : b = Len(s)
  BY Empty
<1>3. Len(p \o s) = a + b /\ \A i \in 1 .. b : (p \o s)[a + i] = s[i]
  BY <1>1, <1>2, Joined
<1>4. \A i \in 1 .. b : s[i].id < n
  <2>1. SUFFICES ASSUME NEW i \in 1 .. b PROVE s[i].id < n
    OBVIOUS
  <2>2. a + i \in 1 .. a + b
    OBVIOUS
  <2>3. (p \o s)[a + i].id < n
    BY <1>3, <2>2 DEF Chain
  <2> QED
    BY <1>3, <2>3
<1>5. ASSUME NEW q \in Seq(E), NEW t \in Seq(E), s = q \o t PROVE t = ListAt(T, Ptr(t))
  <2>1. p \o s = (p \o q) \o t /\ p \o q \in Seq(E)
    <3>1. p \o q \in Seq(E)
      BY ConcatProperties
    <3>2. (p \o q) \o t = p \o (q \o t)
      BY Assoc, SMTT(30)
    <3> QED
      BY <1>5, <3>1, <3>2
  <2> QED
    BY <2>1 DEF Chain
<1>6. s = ListAt(T, Ptr(s))
  BY DEF Chain
<1> QED
  BY <1>2, <1>4, <1>5, <1>6 DEF Chain

(* No entry is in a list twice.                                            *)
LEMMA ChainOnce ==
  ASSUME NEW l, NEW T, NEW n, Chain(l, T, n)
  PROVE  \A i, j \in 1 .. Len(l) : l[i].id = l[j].id => i = j
<1>0. l \in Seq(E)
  BY DEF Chain
<1>1. SUFFICES ASSUME NEW i \in 1 .. Len(l), NEW j \in 1 .. Len(l), l[i].id = l[j].id
               PROVE  i = j
  OBVIOUS
<1>2. PICK m \in Nat : m = Len(l)
  BY <1>0, Empty
<1>3. PICK p \in Seq(E), s \in Seq(E) : l = p \o s /\ Len(s) = Len(l) - i + 1 /\ s # <<>> /\ s[1] = l[i]
  <2>1. SplitAt(l, i)
    BY <1>0, <1>1, Cut
  <2> QED
    BY <2>1 DEF SplitAt
<1>4. PICK q \in Seq(E), t \in Seq(E) : l = q \o t /\ Len(t) = Len(l) - j + 1 /\ t # <<>> /\ t[1] = l[j]
  <2>1. SplitAt(l, j)
    BY <1>0, <1>1, Cut
  <2> QED
    BY <2>1 DEF SplitAt
<1>5. Ptr(s) = l[i].id /\ Ptr(t) = l[j].id
  BY <1>3, <1>4, PtrFacts
<1>6. s = ListAt(T, Ptr(s)) /\ t = ListAt(T, Ptr(t))
  BY <1>3, <1>4 DEF Chain
<1>7. m - i + 1 = m - j + 1
  BY <1>1, <1>2, <1>3, <1>4, <1>5, <1>6
<1> QED
  BY <1>2, <1>7

(* What comes before a tail has none of its entries.                       *)
LEMMA ChainApart ==
  ASSUME NEW T, NEW n, NEW p \in Seq(E), NEW s \in Seq(E), Chain(p \o s, T, n)
  PROVE  \A i \in 1 .. Len(p), j \in 1 .. Len(s) : p[i].id # s[j].id
<1>1. PICK a \in Nat : a = Len(p)
  BY Empty
<1>2. PICK b \in Nat : b = Len(s)
  BY Empty
<1>3. /\ Len(p \o s) = a + b
      /\ \A i \in 1 .. a : (p \o s)[i] = p[i]
      /\ \A i \in 1 .. b : (p \o s)[a + i] = s[i]
  BY <1>1, <1>2, Joined
<1>4. SUFFICES ASSUME NEW i \in 1 .. a, NEW j \in 1 .. b, p[i].id = s[j].id PROVE FALSE
  BY <1>1, <1>2
<1>5. i \in 1 .. a + b /\ a + j \in 1 .. a + b /\ i # a + j
  OBVIOUS
<1>6. (p \o s)[i].id = (p \o s)[a + j].id
  BY <1>3, <1>4
<1>7. \A x, y \in 1 .. Len(p \o s) : (p \o s)[x].id = (p \o s)[y].id => x = y
  BY ChainOnce
<1> QED
  BY <1>3, <1>5, <1>6, <1>7

Extends(T, U, n) == \A y \in 0 .. n - 1 : ListAt(U, y) = ListAt(T, y)
LEMMA ListAtKept == ASSUME NEW T \in [Nat -> Seq(E)], NEW n \in Nat, NEW x PROVE Extends(T, [T EXCEPT ![n] = x], n)
BY DEF ListAt, Extends

LEMMA ChainBelow ==
  ASSUME NEW T, NEW n \in Nat \ {0}, NEW s \in Seq(E), Chain(s, T, n)
  PROVE  Ptr(s) \in 0 .. n - 1
<1>1. CASE s = <<>>
  <2>1. Ptr(s) = 0
    BY <1>1, PtrFacts
  <2>2. 0 \in 0 .. n - 1
    OBVIOUS
  <2> QED
    BY <2>1, <2>2
<1>2. CASE s # <<>>
  <2>1. Ptr(s) = s[1].id /\ Ptr(s) \in Nat \ {0} /\ 1 \in 1 .. Len(s)
    BY <1>2, PtrFacts
  <2>2. s[1].id < n
    BY <2>1 DEF Chain
  <2> QED
    BY <2>1, <2>2
<1> QED
  BY <1>1, <1>2

LEMMA ChainKept ==
  ASSUME NEW T \in [Nat -> Seq(E)], NEW n \in Nat \ {0}, NEW l, Chain(l, T, n), NEW x
  PROVE  Chain(l, [T EXCEPT ![n] = x], n + 1)
<1> DEFINE R == [T EXCEPT ![n] = x]
<1>0. l \in Seq(E)
  BY DEF Chain
<1>1. \A i \in 1 .. Len(l) : l[i].id < n + 1
  <2>1. SUFFICES ASSUME NEW i \in 1 .. Len(l) PROVE l[i].id < n + 1
    OBVIOUS
  <2>2. l[i].id < n /\ l[i] \in E
    BY <1>0, ElementOfSeq DEF Chain
  <2>3. PICK x1 \in Nat : x1 = l[i].id
    BY <2>2, EntryId
  <2>4. x1 < n
    BY <2>2, <2>3
  <2>5. x1 < n + 1
    BY <2>4
  <2> QED
    BY <2>3, <2>5
<1>2. ASSUME NEW p \in Seq(E), NEW s \in Seq(E), l = p \o s PROVE s = ListAt(R, Ptr(s))
  <2>1. Chain(s, T, n) /\ s = ListAt(T, Ptr(s))
    BY <1>2, ChainTail
  <2>2. Ptr(s) \in 0 .. n - 1
    BY <2>1, ChainBelow
  <2>3. ListAt(R, Ptr(s)) = ListAt(T, Ptr(s))
    <3>1. PICK y \in 0 .. n - 1 : y = Ptr(s)
      BY <2>2
    <3>2. Extends(T, R, n)
      BY ListAtKept
    <3> QED
      BY <3>1, <3>2 DEF Extends
  <2> QED
    BY <2>1, <2>3
<1> HIDE DEF R
<1>3. Chain(l, R, n + 1)
  BY <1>0, <1>1, <1>2 DEF Chain
<1> QED
  BY <1>3 DEF R

LEMMA ChainPush ==
  ASSUME NEW T \in [Nat -> Seq(E)], NEW n \in Nat \ {0}, NEW l, Chain(l, T, n), NEW e \in E, e.id = n
  PROVE  Chain(<<e>> \o l, [T EXCEPT ![n] = <<e>> \o l], n + 1)
<1> DEFINE R == [T EXCEPT ![n] = <<e>> \o l]
<1>0. l \in Seq(E) /\ <<e>> \in Seq(E) /\ Len(<<e>>) = 1 /\ <<e>>[1] = e
  BY Single DEF Chain
<1>1. PICK m \in Nat : m = Len(l)
  BY <1>0, Empty
<1>2. PICK k \in Seq(E) : k = <<e>> \o l
  BY <1>0, ConcatProperties
<1>3. Len(k) = 1 + m /\ k[1] = e /\ \A i \in 1 .. m : k[1 + i] = l[i]
  <2>1. /\ Len(<<e>> \o l) = 1 + m
        /\ \A i \in 1 .. 1 : (<<e>> \o l)[i] = <<e>>[i]
        /\ \A i \in 1 .. m : (<<e>> \o l)[1 + i] = l[i]
    BY <1>0, <1>1, Joined
  <2>2. 1 \in 1 .. 1
    OBVIOUS
  <2> QED
    BY <1>0, <1>2, <2>1, <2>2
<1>4. Chain(l, R, n + 1)
  BY ChainKept
<1>5. ListAt(R, n) = k
  BY <1>2 DEF ListAt, NULL
<1> HIDE DEF R
<1>6. \A i \in 1 .. Len(k) : k[i].id < n + 1
  <2>1. SUFFICES ASSUME NEW i \in 1 .. 1 + m PROVE k[i].id < n + 1
    BY <1>3
  <2>2. CASE i = 1
    <3>1. k[i].id = n /\ n < n + 1
      BY <1>3, <2>2
    <3> QED
      BY <3>1
  <2>3. CASE i # 1
    <3>1. i - 1 \in 1 .. m /\ 1 + (i - 1) = i
      BY <2>3
    <3>2. k[i] = l[i - 1]
      BY <1>3, <3>1
    <3> QED
      BY <1>1, <1>4, <3>1, <3>2 DEF Chain
  <2> QED
    BY <2>2, <2>3
<1>7. ASSUME NEW p \in Seq(E), NEW s \in Seq(E), k = p \o s PROVE s = ListAt(R, Ptr(s))
  <2>1. CASE p = <<>>
    <3>1. s = k
      BY <1>7, <2>1, ConcatEmptySeq
    <3>2. k # <<>>
      BY <1>1, <1>3
    <3>3. Ptr(k) = n
      BY <1>3, <3>2, PtrFacts
    <3> QED
      BY <1>5, <3>1, <3>3
  <2>2. CASE p # <<>>
    <3>1. <<e>> \o l = p \o s
      BY <1>2, <1>7
    <3>2. EndsWith(l, s)
      BY <1>0, <2>2, <3>1, SplitPushed
    <3> QED
      BY <1>4, <3>2 DEF Chain, EndsWith
  <2> QED
    BY <2>1, <2>2
<1>8. Chain(k, R, n + 1)
  BY <1>6, <1>7 DEF Chain
<1> QED
  BY <1>2, <1>8 DEF R

LEMMA ChainNil == ASSUME NEW T, NEW n PROVE Chain(<<>>, T, n)
<1>1. <<>> \in Seq(E) /\ Len(<<>>) = 0
  BY Empty
<1>2. ASSUME NEW p \in Seq(E), NEW s \in Seq(E), <<>> = p \o s PROVE s = ListAt(T, Ptr(s))
  <2>1. s = <<>>
    BY <1>2, ConcatEqualIffEmpty, SMTT(30)
  <2> QED
    BY <2>1, PtrFacts DEF ListAt, NULL
<1> QED
  BY <1>1, <1>2 DEF Chain

-----------------------------------------------------------------------------
(* Walking a list up to one of its tails, and to an entry it does not have.*)
LEMMA WalkMiss ==
  ASSUME NEW l \in Seq(E), NEW x, \A i \in 1 .. Len(l) : l[i].id # x
  PROVE  Walk(l, x) = l
<1>1. DOMAIN l = 1 .. Len(l)
  BY LenProperties
<1>2. {i \in DOMAIN l : l[i].id = x} = {}
  BY <1>1
<1> QED
  BY <1>2 DEF Walk

LEMMA WalkNull == ASSUME NEW l \in Seq(E) PROVE Walk(l, NULL) = l
<1>1. \A i \in 1 .. Len(l) : l[i].id # NULL
  <2>1. SUFFICES ASSUME NEW i \in 1 .. Len(l) PROVE l[i].id # NULL
    OBVIOUS
  <2>2. l[i] \in E
    BY ElementOfSeq
  <2> QED
    BY <2>2, EntryId DEF NULL
<1> QED
  BY <1>1, WalkMiss

LEMMA WalkTail ==
  ASSUME NEW T, NEW n, NEW p \in Seq(E), NEW s \in Seq(E), Chain(p \o s, T, n)
  PROVE  Walk(p \o s, Ptr(s)) = p
<1>1. PICK l \in Seq(E) : l = p \o s
  BY ConcatProperties
<1>2. CASE s = <<>>
  <2>1. p \o s = p
    BY <1>2, ConcatEmptySeq
  <2>2. Ptr(s) = NULL
    BY <1>2, PtrFacts DEF NULL
  <2> QED
    BY <2>1, <2>2, WalkNull
<1>3. CASE s # <<>>
  <2>1. PICK a \in Nat : a = Len(p)
    BY Empty
  <2>2. PICK b \in Nat : b = Len(s)
    BY Empty
  <2>3. /\ Len(l) = a + b
        /\ \A i \in 1 .. a : l[i] = p[i]
        /\ \A i \in 1 .. b : l[a + i] = s[i]
    BY <1>1, <2>1, <2>2, Joined
  <2>4. Ptr(s) = s[1].id /\ 1 \in 1 .. b
    BY <1>3, <2>2, PtrFacts
  <2>5. \A i \in 1 .. a : p[i].id # Ptr(s)
    BY <2>1, <2>2, <2>4, ChainApart
  <2> DEFINE stop == {i \in DOMAIN l : l[i].id = Ptr(s)}
  <2>6. DOMAIN l = 1 .. a + b
    BY <2>3, LenProperties
  <2>7. a + 1 \in stop
    BY <2>3, <2>4, <2>6
  <2>8. \A i \in stop : i \in Int /\ a + 1 <= i
    <3>1. SUFFICES ASSUME NEW i \in stop, ~(a + 1 <= i) PROVE FALSE
      BY <2>6
    <3>2. i \in 1 .. a
      BY <2>6, <3>1
    <3>3. l[i].id = Ptr(s)
      OBVIOUS
    <3> QED
      BY <2>3, <2>5, <3>2, <3>3
  <2>9. Min(stop) = a + 1
    <3> HIDE DEF stop
    <3>1. \A x \in stop : (\A y \in stop : x <= y) => x = a + 1
      BY <2>7, <2>8
    <3> QED
      BY <2>7, <2>8, <3>1 DEF Min
  <2>10. Walk(l, Ptr(s)) = SubSeq(l, 1, a)
    <3>1. Walk(l, Ptr(s)) = IF stop = {} THEN l ELSE SubSeq(l, 1, Min(stop) - 1)
      BY DEF Walk
    <3> HIDE DEF stop
    <3>2. stop # {} /\ (a + 1) - 1 = a
      BY <2>7
    <3> QED
      BY <2>9, <3>1, <3>2
  <2>11. SubSeq(l, 1, a) = p
    <3>1. \A i \in 1 .. a : l[i] \in E
      BY <2>1, <2>3, ElementOfSeq
    <3>2. 1 \in Int /\ a \in Int /\ a - 1 + 1 = a
      OBVIOUS
    <3>3. /\ SubSeq(l, 1, a) \in Seq(E) /\ Len(SubSeq(l, 1, a)) = (IF 1 <= a THEN a - 1 + 1 ELSE 0)
          /\ \A i \in 1 .. a - 1 + 1 : SubSeq(l, 1, a)[i] = l[1 + i - 1]
      BY <3>1, <3>2, SubSeqProperties
    <3>4. PICK z \in Seq(E) : z = SubSeq(l, 1, a)
      BY <3>3
    <3>5. Len(z) = a /\ \A i \in 1 .. a : z[i] = l[i]
      BY <3>2, <3>3, <3>4
    <3>6. z = p
      BY <2>1, <2>3, <3>5, SeqEqual
    <3> QED
      BY <3>4, <3>6
  <2> QED
    BY <1>1, <2>10, <2>11
<1> QED
  BY <1>2, <1>3

(* A list with the entry x ends with the list that begins with x.          *)
LEMMA Occurs ==
  ASSUME NEW l, NEW T, NEW n, Chain(l, T, n), NEW i \in 1 .. Len(l)
  PROVE  \E p \in Seq(E) : ListAt(T, l[i].id) \in Seq(E) /\ l = p \o ListAt(T, l[i].id)
<1>0. l \in Seq(E)
  BY DEF Chain
<1>1. SplitAt(l, i)
  BY <1>0, Cut
<1>2. PICK p \in Seq(E), s \in Seq(E) : l = p \o s /\ s # <<>> /\ s[1] = l[i]
  BY <1>1 DEF SplitAt
<1>3. Ptr(s) = l[i].id
  BY <1>2, PtrFacts
<1>4. s = ListAt(T, Ptr(s))
  BY <1>2 DEF Chain
<1> QED
  BY <1>2, <1>3, <1>4

-----------------------------------------------------------------------------
(* What the ways out clean.                                                *)
Carried == Entries({"clean", "array"})
Plain(s) == \A i \in 1 .. Len(s) : s[i].sort \notin {"clean", "array"}
Apart(r, b) == \A i \in 1 .. Len(r), j \in 1 .. Len(b) : r[i].id # b[j].id

Within(a, b) == ToSet(a) \subseteq ToSet(b)

LEMMA EntryIn == ASSUME NEW sorts, NEW e \in E PROVE e \in Entries(sorts) <=> e.sort \in sorts
BY DEF E, Entries

LEMMA ToCleanIs == \A l : ToClean(l) = IdsIn(l, Carried)
BY DEF ToClean, Ids, Carried

LEMMA SeqSet == ASSUME NEW V, NEW l \in Seq(V) PROVE ToSet(l) = {l[i] : i \in 1 .. Len(l)}
<1>1. DOMAIN l = 1 .. Len(l)
  BY LenProperties
<1> QED
  BY <1>1 DEF ToSet

LEMMA PlainNone == ASSUME NEW s \in Seq(E), Plain(s) PROVE IdsIn(s, Carried) = <<>>
<1>1. \A i \in 1 .. Len(s) : s[i] \notin Carried
  BY ElementOfSeq, EntryIn DEF Plain, Carried
<1> QED
  BY <1>1, IdsNone

LEMMA CleanTail ==
  ASSUME NEW T, NEW n, NEW p \in Seq(E), NEW s \in Seq(E), Chain(p \o s, T, n)
  PROVE  Emitted(p \o s, Ptr(s)) = ToClean(p) /\ Appended(p \o s, Ptr(s)) = Own(p)
<1>1. Walk(p \o s, Ptr(s)) = p
  BY WalkTail
<1> QED
  BY <1>1 DEF Emitted, Appended, ToClean, Own

LEMMA CleanFar ==
  ASSUME NEW T, NEW n, NEW q \in Seq(E), NEW s \in Seq(E), NEW k \in Seq(E), Chain(q \o (s \o k), T, n)
  PROVE  Emitted(q \o (s \o k), Ptr(k)) = ToClean(q \o s)
<1>1. PICK p \in Seq(E) : p = q \o s
  BY ConcatProperties
<1>2. p \o k = q \o (s \o k)
  BY <1>1, Assoc
<1>3. Chain(p \o k, T, n)
  BY <1>2
<1>4. Emitted(p \o k, Ptr(k)) = ToClean(p)
  BY <1>3, CleanTail
<1> QED
  BY <1>1, <1>2, <1>4

LEMMA LeavingTail ==
  ASSUME NEW T, NEW n, NEW p \in Seq(E), NEW s \in Seq(E), Chain(p \o s, T, n)
  PROVE  Leaving(p \o s, s) = ToClean(p)
<1> DEFINE R == Carried \ ToSet(s)
<1>1. IdsIn(p \o s, R) = IdsIn(p, R) \o IdsIn(s, R)
  BY IdsJoin
<1>2. ToSet(s) = {s[i] : i \in 1 .. Len(s)}
  BY SeqSet
<1>3. IdsIn(s, R) = <<>>
  <2>1. \A i \in 1 .. Len(s) : s[i] \notin R
    BY <1>2
  <2> QED
    BY <2>1, IdsNone
<1>4. IdsIn(p, R) = IdsIn(p, Carried)
  <2>1. \A i \in 1 .. Len(p), j \in 1 .. Len(s) : p[i].id # s[j].id
    BY ChainApart
  <2>2. \A i \in 1 .. Len(p) : p[i] \notin ToSet(s)
    BY <1>2, <2>1
  <2>3. \A i \in 1 .. Len(p) : p[i] \in R <=> p[i] \in Carried
    BY <2>2
  <2> HIDE DEF R
  <2> QED
    BY <2>3, IdsSame
<1>5. IdsIn(p, Carried) \o <<>> = IdsIn(p, Carried)
  <2>1. IdsIn(p, Carried) \in Seq(Nat)
    BY IdsTyped
  <2> QED
    BY <2>1, ConcatEmptySeq
<1>6. Leaving(p \o s, s) = IdsIn(p \o s, R)
  BY DEF Leaving, Carried
<1> QED
  BY <1>1, <1>3, <1>4, <1>5, <1>6, ToCleanIs

(* A goto cleans at least what it leaves when its range ends with a list   *)
(* whose entries are in scope at the label.                                *)
LEMMA GotoAtLeast ==
  ASSUME NEW T \in [Nat -> Seq(E)], NEW n, NEW b, Chain(b, T, n), NEW v \in Seq(E), NEW x \in Nat,
         ToSet(ListAt(T, x)) \subseteq ToSet(v)
  PROVE  ToSet(Leaving(b, v)) \subseteq ToSet(Emitted(b, x))
<1> DEFINE R == Carried \ ToSet(v)
<1>0. b \in Seq(E)
  BY DEF Chain
<1>1. Leaving(b, v) = IdsIn(b, R) /\ Emitted(b, x) = IdsIn(Walk(b, x), Carried)
  BY DEF Leaving, Emitted, Ids, Carried
<1>2. ToSet(IdsIn(b, R)) = {b[i].id : i \in {j \in 1 .. Len(b) : b[j] \in R}}
  BY <1>0, IdsSet
<1>3. CASE \A i \in 1 .. Len(b) : b[i].id # x
  <2>1. Walk(b, x) = b
    BY <1>0, <1>3, WalkMiss
  <2>2. ToSet(IdsIn(b, Carried)) = {b[i].id : i \in {j \in 1 .. Len(b) : b[j] \in Carried}}
    BY <1>0, IdsSet
  <2> QED
    BY <1>1, <1>2, <2>1, <2>2
<1>4. CASE \E i \in 1 .. Len(b) : b[i].id = x
  <2>1. PICK i \in 1 .. Len(b) : b[i].id = x
    BY <1>4
  <2>2. PICK d : d = ListAt(T, x)
    OBVIOUS
  <2>3. PICK p \in Seq(E) : d \in Seq(E) /\ b = p \o d
    BY <2>1, <2>2, Occurs
  <2>4. Walk(b, x) = p
    <3>1. x # 0
      BY <1>0, <2>1, ElementOfSeq, EntryId
    <3>2. Ptr(d) = x
      <4>1. PICK q \in Seq(E), s \in Seq(E) : b = q \o s /\ s # <<>> /\ s[1] = b[i]
        <5>1. SplitAt(b, i)
          BY <1>0, Cut
        <5> QED
          BY <5>1 DEF SplitAt
      <4>2. Ptr(s) = x
        BY <2>1, <4>1, PtrFacts
      <4>3. s = ListAt(T, Ptr(s))
        BY <4>1 DEF Chain
      <4> QED
        BY <2>2, <4>2, <4>3
    <3>3. Chain(p \o d, T, n)
      BY <2>3
    <3>4. Walk(p \o d, Ptr(d)) = p
      BY <2>3, <3>3, WalkTail
    <3> QED
      BY <2>3, <3>2, <3>4
  <2>5. ToSet(IdsIn(p, Carried)) = {p[k].id : k \in {j \in 1 .. Len(p) : p[j] \in Carried}}
    BY IdsSet
  <2>6. ASSUME NEW k \in 1 .. Len(b), b[k] \in R PROVE b[k].id \in ToSet(IdsIn(p, Carried))
    <3>1. PICK a \in Nat : a = Len(p)
      BY Empty
    <3>2. PICK c \in Nat : c = Len(d)
      BY <2>3, Empty
    <3>3. Len(b) = a + c /\ (\A j \in 1 .. a : b[j] = p[j]) /\ \A j \in 1 .. c : b[a + j] = d[j]
      BY <2>3, <3>1, <3>2, Joined
    <3>4. CASE k <= a
      <4>1. k \in 1 .. Len(p) /\ b[k] = p[k]
        BY <3>1, <3>3, <3>4
      <4> QED
        BY <2>5, <2>6, <4>1
    <3>5. CASE ~(k <= a)
      <4>1. k - a \in 1 .. c /\ a + (k - a) = k
        BY <3>3, <3>5
      <4>2. b[k] = d[k - a]
        BY <3>3, <4>1
      <4>3. ToSet(d) = {d[j] : j \in 1 .. Len(d)}
        BY <2>3, SeqSet
      <4>4. b[k] \in ToSet(v)
        BY <2>2, <3>2, <4>1, <4>2, <4>3
      <4> QED
        BY <2>6, <4>4
    <3> QED
      BY <3>4, <3>5
  <2> HIDE DEF R
  <2>7. \A k \in {j \in 1 .. Len(b) : b[j] \in R} : b[k].id \in ToSet(IdsIn(p, Carried))
    BY <2>6
  <2>8. ToSet(IdsIn(b, R)) \subseteq ToSet(IdsIn(p, Carried))
    BY <1>2, <2>7
  <2> QED
    BY <1>1, <2>4, <2>8
<1> QED
  BY <1>3, <1>4

(* And exactly that when they are in scope at the goto too.                *)
LEMMA GotoExact ==
  ASSUME NEW T, NEW n, NEW b, Chain(b, T, n), NEW v, Chain(v, T, n), ToSet(v) \subseteq ToSet(b)
  PROVE  Emitted(b, Ptr(v)) = Leaving(b, v)
<1>0. b \in Seq(E) /\ v \in Seq(E)
  BY DEF Chain
<1>1. PICK p \in Seq(E) : b = p \o v
  <2>1. CASE v = <<>>
    <3>1. b = b \o v
      BY <1>0, <2>1, ConcatEmptySeq
    <3> QED
      BY <1>0, <3>1
  <2>2. CASE v # <<>>
    <3>1. Ptr(v) = v[1].id /\ 1 \in 1 .. Len(v)
      BY <1>0, <2>2, PtrFacts
    <3>2. ToSet(v) = {v[i] : i \in 1 .. Len(v)} /\ ToSet(b) = {b[i] : i \in 1 .. Len(b)}
      BY <1>0, SeqSet
    <3>3. PICK i \in 1 .. Len(b) : b[i] = v[1]
      BY <3>1, <3>2
    <3>4. v = ListAt(T, Ptr(v))
      <4>1. v = <<>> \o v /\ <<>> \in Seq(E)
        BY <1>0, ConcatEmptySeq, Empty
      <4> QED
        BY <1>0, <4>1 DEF Chain
    <3>5. PICK p \in Seq(E) : b = p \o ListAt(T, b[i].id)
      BY Occurs
    <3> QED
      BY <3>1, <3>3, <3>4, <3>5
  <2> QED
    BY <2>1, <2>2
<1>2. Chain(p \o v, T, n)
  BY <1>1
<1>3. Emitted(p \o v, Ptr(v)) = ToClean(p)
  BY <1>0, <1>2, CleanTail
<1>4. Leaving(p \o v, v) = ToClean(p)
  BY <1>0, <1>2, LeavingTail
<1> QED
  BY <1>1, <1>3, <1>4

(* return and the epilogue clean everything once, when the epilogue cleans *)
(* nothing that the return did not know.                                   *)
Over(b, o, q, r, s, k) == q \o (s \o k) = b /\ r \o (s \o k) = o /\ Plain(s) /\ Apart(r, b)

CleanOnce(b, o, k) == Emitted(b, Ptr(k)) \o ToClean(o) = ToClean(b)

LEMMA ReturnCleans ==
  ASSUME NEW T, NEW n, NEW q \in Seq(E), NEW r \in Seq(E), NEW s \in Seq(E), NEW k \in Seq(E), NEW b, NEW o,
         Over(b, o, q, r, s, k), Chain(b, T, n), Within(ToClean(o), ToClean(b))
  PROVE  CleanOnce(b, o, k)
<1>0. q \o (s \o k) = b /\ r \o (s \o k) = o /\ Plain(s) /\ Apart(r, b)
  BY DEF Over
<1>1. PICK t \in Seq(E) : t = s \o k
  BY ConcatProperties
<1>2. b \in Seq(E) /\ q \o t = b
  BY <1>0, <1>1, ConcatProperties
<1>3. o \in Seq(E) /\ r \o t = o
  BY <1>0, <1>1, ConcatProperties
<1>4. \A l \in Seq(E) : IdsIn(l, Carried) \in Seq(Nat)
  BY IdsTyped
<1>5. IdsIn(t, Carried) = IdsIn(k, Carried)
  <2>1. IdsIn(s \o k, Carried) = IdsIn(s, Carried) \o IdsIn(k, Carried)
    BY IdsJoin
  <2>2. IdsIn(s, Carried) = <<>>
    BY <1>0, PlainNone
  <2>3. <<>> \o IdsIn(k, Carried) = IdsIn(k, Carried)
    BY <1>4, ConcatEmptySeq
  <2> QED
    BY <1>1, <2>1, <2>2, <2>3
<1>6. IdsIn(b, Carried) = IdsIn(q, Carried) \o IdsIn(t, Carried)
  BY <1>2, IdsJoin
<1>7. IdsIn(o, Carried) = IdsIn(r, Carried) \o IdsIn(t, Carried)
  BY <1>3, IdsJoin
<1>8. IdsIn(r, Carried) = <<>>
  <2>1. SUFFICES ASSUME NEW i \in 1 .. Len(r), r[i] \in Carried PROVE FALSE
    BY IdsNone
  <2>2. PICK a \in Nat : a = Len(r)
    BY Empty
  <2>3. PICK c \in Nat : c = Len(t)
    BY Empty
  <2>4. Len(o) = a + c /\ o[i] = r[i]
    BY <1>3, <2>2, <2>3, Joined
  <2>5. ToSet(IdsIn(o, Carried)) = {o[j].id : j \in {x \in 1 .. Len(o) : o[x] \in Carried}}
    BY <1>3, IdsSet
  <2>6. ToSet(IdsIn(b, Carried)) = {b[j].id : j \in {x \in 1 .. Len(b) : b[x] \in Carried}}
    BY <1>2, IdsSet
  <2>7. i \in 1 .. Len(o)
    BY <2>2, <2>4
  <2>8. r[i].id \in ToSet(IdsIn(o, Carried))
    BY <2>1, <2>4, <2>5, <2>7
  <2>9. ToSet(IdsIn(o, Carried)) \subseteq ToSet(IdsIn(b, Carried))
    BY ToCleanIs DEF Within
  <2>10. PICK j \in 1 .. Len(b) : b[j].id = r[i].id
    BY <2>6, <2>8, <2>9
  <2> QED
    BY <1>0, <2>10 DEF Apart
<1>9. Emitted(b, Ptr(k)) = IdsIn(q, Carried)
  <2>3. Emitted(q \o (s \o k), Ptr(k)) = ToClean(q \o s)
    <3>1. Chain(q \o (s \o k), T, n)
      BY <1>0
    <3> QED
      BY <3>1, CleanFar
  <2>4. IdsIn(q \o s, Carried) = IdsIn(q, Carried) \o IdsIn(s, Carried)
    BY IdsJoin
  <2>5. IdsIn(s, Carried) = <<>>
    BY <1>0, PlainNone
  <2>6. IdsIn(q, Carried) \o <<>> = IdsIn(q, Carried)
    BY <1>4, ConcatEmptySeq
  <2> QED
    BY <1>0, <2>3, <2>4, <2>5, <2>6, ToCleanIs
<1>10. <<>> \o IdsIn(t, Carried) = IdsIn(t, Carried)
  BY <1>4, ConcatEmptySeq
<1> QED
  BY <1>5, <1>6, <1>7, <1>8, <1>9, <1>10, ToCleanIs DEF CleanOnce

-----------------------------------------------------------------------------
(* The lists mirror the C scopes: the parser's lists are what all of them  *)
(* declare, and each statement has saved what the scopes outside it and    *)
(* those up to its head declare.                                           *)
ListsType == [locals : Seq(E), typedefs : Seq(E), tags : Seq(E), enums : Seq(E)]
ScopeType == [vars : Seq(E), typedefs : Seq(E), tags : Seq(E), enums : Seq(E)]

Sees(ls, sc, n) ==
  /\ ls.locals = FlatTo(sc, "vars", n)
  /\ ls.typedefs = FlatTo(sc, "typedefs", n)
  /\ ls.enums = FlatTo(sc, "enums", n)
SameNames(ls, ks) == ls.locals = ks.locals /\ ls.typedefs = ks.typedefs /\ ls.enums = ks.enums
SameScopes(sc, sd, n) ==
  \A i \in 1 .. n : sd[i].vars = sc[i].vars /\ sd[i].typedefs = sc[i].typedefs /\ sd[i].enums = sc[i].enums

FrameMirrors(f, sc, i) ==
  /\ f.kind # "fn"
  /\ Sees(f.before, sc, 2 * i - 2) /\ Sees(f.body, sc, 2 * i - 1)
  /\ f.kind # "for" => f.body.locals = f.before.locals /\ f.body.typedefs = f.before.typedefs
  /\ f.kind \in {"block", "expr"} => f.body.enums = f.before.enums

Level(fr) == IF fr = <<>> THEN 1 ELSE 2 * Len(fr)
OuterMirrors(f, sc) ==
  /\ f.kind = "fn"
  /\ f.body.typedefs = FlatTo(sc, "typedefs", 1) /\ f.body.enums = FlatTo(sc, "enums", 1)
ListsMirror(fr, sc, ls) ==
  /\ fr # <<>> => ls.locals = FlatTo(sc, "vars", Len(sc))
  /\ ls.typedefs = FlatTo(sc, "typedefs", Len(sc)) /\ ls.enums = FlatTo(sc, "enums", Len(sc))
Mirrored(fr, sc, ls) ==
  /\ Len(sc) = Level(fr) /\ sc[1].vars = <<>>
  /\ ListsMirror(fr, sc, ls)
  /\ fr # <<>> => OuterMirrors(fr[1], sc)
  /\ \A i \in 2 .. Len(fr) : FrameMirrors(fr[i], sc, i)

LEMMA FlatKept ==
  ASSUME NEW sc, NEW sd, NEW n \in Nat, SameScopes(sc, sd, n), NEW m \in 0 .. n
  PROVE  /\ FlatTo(sd, "vars", m) = FlatTo(sc, "vars", m)
         /\ FlatTo(sd, "typedefs", m) = FlatTo(sc, "typedefs", m)
         /\ FlatTo(sd, "enums", m) = FlatTo(sc, "enums", m)
<1>0. m \in Nat /\ \A i \in 1 .. m : i \in 1 .. n
  OBVIOUS
<1>1. \A i \in 1 .. m : sd[i]["vars"] = sc[i]["vars"]
  BY <1>0 DEF SameScopes
<1>2. \A i \in 1 .. m : sd[i]["typedefs"] = sc[i]["typedefs"]
  BY <1>0 DEF SameScopes
<1>3. \A i \in 1 .. m : sd[i]["enums"] = sc[i]["enums"]
  BY <1>0 DEF SameScopes
<1>4. FlatTo(sd, "vars", m) = FlatTo(sc, "vars", m)
  BY <1>0, <1>1, FlatSame
<1>5. FlatTo(sd, "typedefs", m) = FlatTo(sc, "typedefs", m)
  BY <1>0, <1>2, FlatSame
<1>6. FlatTo(sd, "enums", m) = FlatTo(sc, "enums", m)
  BY <1>0, <1>3, FlatSame
<1> QED
  BY <1>4, <1>5, <1>6

LEMMA SeesKept ==
  ASSUME NEW sc, NEW sd, NEW n \in Nat, SameScopes(sc, sd, n), NEW m \in 0 .. n, NEW ls, Sees(ls, sc, m)
  PROVE  Sees(ls, sd, m)
BY FlatKept DEF Sees

(* The outer frames are left as they are by a change of the scopes from    *)
(* the n-th frame's head on.                                               *)
LEMMA FramesKept ==
  ASSUME NEW sc, NEW sd, NEW fr, NEW n \in Nat, SameScopes(sc, sd, 2 * n - 1), NEW m \in Nat, m <= n,
         \A i \in 2 .. m : FrameMirrors(fr[i], sc, i)
  PROVE  \A i \in 2 .. m : FrameMirrors(fr[i], sd, i)
<1>1. SUFFICES ASSUME NEW i \in 2 .. m PROVE FrameMirrors(fr[i], sd, i)
  OBVIOUS
<1>2. 2 * n - 1 \in Nat /\ 2 * i - 2 \in 0 .. 2 * n - 1 /\ 2 * i - 1 \in 0 .. 2 * n - 1
  OBVIOUS
<1>3. FrameMirrors(fr[i], sc, i)
  OBVIOUS
<1>4. Sees(fr[i].before, sd, 2 * i - 2)
  BY <1>2, <1>3, SeesKept DEF FrameMirrors
<1>5. Sees(fr[i].body, sd, 2 * i - 1)
  BY <1>2, <1>3, SeesKept DEF FrameMirrors
<1> QED
  BY <1>3, <1>4, <1>5 DEF FrameMirrors

LEMMA OuterKept ==
  ASSUME NEW sc, NEW sd, NEW f, SameScopes(sc, sd, 1), OuterMirrors(f, sc)
  PROVE  OuterMirrors(f, sd)
<1>1. 1 \in Nat /\ 1 \in 0 .. 1
  OBVIOUS
<1> QED
  BY <1>1, FlatKept DEF OuterMirrors

Widens(field, sc, sd, n, x) ==
  /\ \A i \in 1 .. n : sc[i][field] \in Seq(E)
  /\ \A i \in 1 .. n - 1 : sd[i][field] = sc[i][field]
  /\ sd[n][field] = x \o sc[n][field]

LEMMA Widened ==
  ASSUME NEW field, NEW sc, NEW sd, NEW n \in Nat \ {0}, NEW x \in Seq(E), Widens(field, sc, sd, n, x)
  PROVE  FlatTo(sd, field, n) = x \o FlatTo(sc, field, n)
<1>0. n - 1 \in Nat /\ n \in 1 .. n /\ \A i \in 1 .. n - 1 : i \in 1 .. n
  OBVIOUS
<1>1. PICK a \in Seq(E) : a = FlatTo(sc, field, n - 1)
  <2>1. \A i \in 1 .. n - 1 : sc[i][field] \in Seq(E)
    BY <1>0 DEF Widens
  <2>2. n - 1 \in 0 .. n - 1
    BY <1>0
  <2>3. FlatTo(sc, field, n - 1) \in Seq(E)
    BY <1>0, <2>1, <2>2, FlatTyped
  <2> QED
    BY <2>3
<1>2. PICK b \in Seq(E) : b = sc[n][field]
  BY <1>0 DEF Widens
<1>3. FlatTo(sd, field, n - 1) = FlatTo(sc, field, n - 1)
  <2>1. \A i \in 1 .. n - 1 : sd[i][field] = sc[i][field]
    BY DEF Widens
  <2> QED
    BY <1>0, <2>1, FlatSame
<1>4. FlatTo(sd, field, n) = sd[n][field] \o FlatTo(sd, field, n - 1)
  BY FlatStep
<1>5. FlatTo(sc, field, n) = sc[n][field] \o FlatTo(sc, field, n - 1)
  BY FlatStep
<1>6. (x \o b) \o a = x \o (b \o a)
  BY Assoc
<1> QED
  BY <1>1, <1>2, <1>3, <1>4, <1>5, <1>6 DEF Widens

FrameType == [kind : Kinds, before : ListsType, body : ListsType, switch : Int, loop : Int]

LEMMA ScopeFields ==
  ASSUME NEW sc \in Seq(ScopeType), NEW i \in 1 .. Len(sc)
  PROVE  sc[i].vars \in Seq(E) /\ sc[i].typedefs \in Seq(E) /\ sc[i].enums \in Seq(E) /\ sc[i].tags \in Seq(E)
<1>1. sc[i] \in ScopeType
  BY ElementOfSeq
<1> QED
  BY <1>1 DEF ScopeType

LEMMA LevelFacts ==
  ASSUME NEW fr \in Seq(FrameType), NEW m \in Nat, Len(fr) = m
  PROVE  /\ fr = <<>> <=> m = 0
         /\ Level(fr) = (IF m = 0 THEN 1 ELSE 2 * m) /\ Level(fr) \in Nat \ {0}
<1>1. fr = <<>> <=> m = 0
  BY EmptySeq, Empty
<1> QED
  BY <1>1 DEF Level

(* A declaration: x, y and z are what it adds to the variables, the        *)
(* typedefs and the enumeration constants.                                 *)
Adds(sc, sd, n, x, y, z) ==
  /\ Len(sd) = n /\ SameScopes(sc, sd, n - 1)
  /\ sd[n].vars = x \o sc[n].vars /\ sd[n].typedefs = y \o sc[n].typedefs /\ sd[n].enums = z \o sc[n].enums
Grow(ls, ks, x, y, z) ==
  ks.locals = x \o ls.locals /\ ks.typedefs = y \o ls.typedefs /\ ks.enums = z \o ls.enums

LEMMA MirrorTop ==
  ASSUME NEW fr \in Seq(FrameType), NEW sc \in Seq(ScopeType), NEW sd, NEW ls, NEW ks, NEW n \in Nat \ {0}, Len(sc) = n,
         NEW x \in Seq(E), NEW y \in Seq(E), NEW z \in Seq(E),
         Mirrored(fr, sc, ls), Adds(sc, sd, n, x, y, z), Grow(ls, ks, x, y, z), n = 1 => x = <<>>
  PROVE  Mirrored(fr, sd, ks)
<1>1. PICK m \in Nat : m = Len(fr)
  BY Empty
<1>2. /\ fr = <<>> <=> m = 0
      /\ n = (IF m = 0 THEN 1 ELSE 2 * m) /\ n \in Nat \ {0}
  BY <1>1, LevelFacts DEF Mirrored
<1>3. Len(sd) = Level(fr)
  BY DEF Mirrored, Adds
<1>4. \A i \in 1 .. n : sc[i].vars \in Seq(E) /\ sc[i].typedefs \in Seq(E) /\ sc[i].enums \in Seq(E)
  BY ScopeFields
<1>5. sd[1].vars = <<>>
  <2>1. CASE n = 1
    <3>1. sd[1].vars = x \o sc[1].vars /\ x = <<>> /\ sc[1].vars = <<>>
      BY <2>1 DEF Adds, Mirrored
    <3> QED
      BY <3>1, ConcatEmptySeq, Empty
  <2>2. CASE n # 1
    <3>1. 1 \in 1 .. n - 1
      BY <1>2, <2>2
    <3> QED
      BY <3>1 DEF Adds, SameScopes, Mirrored
  <2> QED
    BY <2>1, <2>2
<1>6. FlatTo(sd, "vars", n) = x \o FlatTo(sc, "vars", n)
  <2>1. \A i \in 1 .. n : sc[i]["vars"] \in Seq(E)
    BY <1>4
  <2>2. \A i \in 1 .. n - 1 : sd[i]["vars"] = sc[i]["vars"]
    BY DEF Adds, SameScopes
  <2>3. sd[n]["vars"] = x \o sc[n]["vars"]
    BY DEF Adds
  <2>4. Widens("vars", sc, sd, n, x)
    BY <2>1, <2>2, <2>3 DEF Widens
  <2>5. n \in Nat \ {0}
    BY <1>2
  <2> QED
    BY <2>4, <2>5, Widened
<1>7. FlatTo(sd, "typedefs", n) = y \o FlatTo(sc, "typedefs", n)
  <2>1. \A i \in 1 .. n : sc[i]["typedefs"] \in Seq(E)
    BY <1>4
  <2>2. \A i \in 1 .. n - 1 : sd[i]["typedefs"] = sc[i]["typedefs"]
    BY DEF Adds, SameScopes
  <2>3. sd[n]["typedefs"] = y \o sc[n]["typedefs"]
    BY DEF Adds
  <2>4. Widens("typedefs", sc, sd, n, y)
    BY <2>1, <2>2, <2>3 DEF Widens
  <2>5. n \in Nat \ {0}
    BY <1>2
  <2> QED
    BY <2>4, <2>5, Widened
<1>8. FlatTo(sd, "enums", n) = z \o FlatTo(sc, "enums", n)
  <2>1. \A i \in 1 .. n : sc[i]["enums"] \in Seq(E)
    BY <1>4
  <2>2. \A i \in 1 .. n - 1 : sd[i]["enums"] = sc[i]["enums"]
    BY DEF Adds, SameScopes
  <2>3. sd[n]["enums"] = z \o sc[n]["enums"]
    BY DEF Adds
  <2>4. Widens("enums", sc, sd, n, z)
    BY <2>1, <2>2, <2>3 DEF Widens
  <2>5. n \in Nat \ {0}
    BY <1>2
  <2> QED
    BY <2>4, <2>5, Widened
<1>9. ListsMirror(fr, sd, ks)
  <2>1. ListsMirror(fr, sc, ls) /\ Len(sd) = n
    BY DEF Mirrored, Adds
  <2> QED
    BY <1>6, <1>7, <1>8, <2>1 DEF ListsMirror, Grow
<1>10. ASSUME fr # <<>> PROVE OuterMirrors(fr[1], sd)
  <2>1. 1 \in 1 .. n - 1
    BY <1>2, <1>10
  <2>2. SameScopes(sc, sd, 1)
    <3>1. \A i \in 1 .. 1 : i \in 1 .. n - 1
      BY <2>1
    <3> QED
      BY <3>1 DEF Adds, SameScopes
  <2> QED
    BY <1>10, <2>2, OuterKept DEF Mirrored
<1>11. \A i \in 2 .. m : FrameMirrors(fr[i], sd, i)
  <2>1. CASE m = 0
    BY <2>1
  <2>2. CASE m # 0
    <3>1. SameScopes(sc, sd, 2 * m - 1)
      BY <1>2, <2>2 DEF Adds
    <3>2. m <= m /\ \A i \in 2 .. m : FrameMirrors(fr[i], sc, i)
      BY <1>1 DEF Mirrored
    <3> QED
      BY <3>1, <3>2, FramesKept
  <2> QED
    BY <2>1, <2>2
<1> QED
  BY <1>1, <1>3, <1>5, <1>9, <1>10, <1>11 DEF Mirrored

(* The beginning of a statement: its head declares x, y and z.             *)
LEMMA MirrorOpen ==
  ASSUME NEW fr \in Seq(FrameType), fr # <<>>, NEW f \in FrameType, NEW sc \in Seq(ScopeType), NEW sd,
         NEW n \in Nat \ {0}, Len(sc) = n, NEW x \in Seq(E), NEW y \in Seq(E), NEW z \in Seq(E),
         Mirrored(fr, sc, f.before), Grow(f.before, f.body, x, y, z), Len(sd) = n + 2, SameScopes(sc, sd, n),
         sd[n + 1].vars = x /\ sd[n + 1].typedefs = y /\ sd[n + 1].enums = z,
         sd[n + 2].vars = <<>> /\ sd[n + 2].typedefs = <<>> /\ sd[n + 2].enums = <<>>,
         f.kind # "fn", f.kind # "for" => x = <<>> /\ y = <<>>, f.kind \in {"block", "expr"} => z = <<>>
  PROVE  Mirrored(Append(fr, f), sd, f.body)
<1>1. PICK m \in Nat : m = Len(fr)
  BY Empty
<1>2. m # 0 /\ n = 2 * m /\ n \in Nat \ {0}
  BY <1>1, LevelFacts DEF Mirrored
<1>3. PICK gr \in Seq(FrameType) : gr = Append(fr, f)
  BY AppendProperties
<1>4. Len(gr) = m + 1 /\ gr[m + 1] = f /\ \A i \in 1 .. m : gr[i] = fr[i]
  BY <1>1, <1>3, AppendProperties
<1>5. gr # <<>> /\ Len(sd) = Level(gr)
  <2>1. m + 1 \in Nat /\ m + 1 # 0
    OBVIOUS
  <2>2. (gr = <<>> <=> m + 1 = 0) /\ Level(gr) = IF m + 1 = 0 THEN 1 ELSE 2 * (m + 1)
    BY <1>4, <2>1, LevelFacts
  <2> QED
    BY <1>2, <2>1, <2>2
<1>6. 1 \in 1 .. n /\ 1 \in 1 .. m
  BY <1>2
<1>7. sd[1].vars = <<>>
  BY <1>6 DEF SameScopes, Mirrored
<1>8. OuterMirrors(gr[1], sd)
  <2>1. SameScopes(sc, sd, 1)
    <3>1. \A i \in 1 .. 1 : i \in 1 .. n
      BY <1>6
    <3> QED
      BY <3>1 DEF SameScopes
  <2>2. OuterMirrors(fr[1], sc)
    BY DEF Mirrored
  <2>3. OuterMirrors(fr[1], sd)
    BY <2>1, <2>2, OuterKept
  <2> QED
    BY <1>4, <1>6, <2>3
<1>9. ASSUME NEW i \in 2 .. m PROVE FrameMirrors(gr[i], sd, i)
  <2>1. SameScopes(sc, sd, 2 * m - 1)
    <3>1. \A j \in 1 .. 2 * m - 1 : j \in 1 .. n
      BY <1>2, SMTT(30)
    <3> QED
      BY <3>1 DEF SameScopes
  <2>2. m <= m /\ \A j \in 2 .. m : FrameMirrors(fr[j], sc, j)
    BY <1>1 DEF Mirrored
  <2>3. FrameMirrors(fr[i], sd, i)
    BY <2>1, <2>2, FramesKept
  <2>4. gr[i] = fr[i]
    BY <1>4
  <2> QED
    BY <2>3, <2>4
<1>10. /\ f.before.locals = FlatTo(sc, "vars", n) /\ f.before.typedefs = FlatTo(sc, "typedefs", n)
       /\ f.before.enums = FlatTo(sc, "enums", n)
  BY DEF Mirrored, ListsMirror
<1>11. Sees(f.before, sd, n)
  <2>1. n \in Nat /\ n \in 0 .. n
    BY <1>2
  <2>2. Sees(f.before, sc, n)
    BY <1>10 DEF Sees
  <2> QED
    BY <2>1, <2>2, SeesKept
<1>12. Sees(f.body, sd, n + 1)
  <2>1. n + 1 \in Nat \ {0} /\ (n + 1) - 1 = n
    BY <1>2
  <2>2. FlatTo(sd, "vars", n + 1) = sd[n + 1]["vars"] \o FlatTo(sd, "vars", (n + 1) - 1)
    BY <2>1, FlatStep
  <2>3. FlatTo(sd, "typedefs", n + 1) = sd[n + 1]["typedefs"] \o FlatTo(sd, "typedefs", (n + 1) - 1)
    BY <2>1, FlatStep
  <2>4. FlatTo(sd, "enums", n + 1) = sd[n + 1]["enums"] \o FlatTo(sd, "enums", (n + 1) - 1)
    BY <2>1, FlatStep
  <2> QED
    BY <1>11, <2>1, <2>2, <2>3, <2>4 DEF Sees, Grow
<1>13. Sees(f.body, sd, n + 2)
  <2>1. n + 2 \in Nat \ {0} /\ (n + 2) - 1 = n + 1
    BY <1>2
  <2>2. FlatTo(sd, "vars", n + 2) = sd[n + 2]["vars"] \o FlatTo(sd, "vars", (n + 2) - 1)
    BY <2>1, FlatStep
  <2>3. FlatTo(sd, "typedefs", n + 2) = sd[n + 2]["typedefs"] \o FlatTo(sd, "typedefs", (n + 2) - 1)
    BY <2>1, FlatStep
  <2>4. FlatTo(sd, "enums", n + 2) = sd[n + 2]["enums"] \o FlatTo(sd, "enums", (n + 2) - 1)
    BY <2>1, FlatStep
  <2>5. f.body.locals \in Seq(E) /\ f.body.typedefs \in Seq(E) /\ f.body.enums \in Seq(E)
    BY DEF FrameType, ListsType
  <2>6. <<>> \o f.body.locals = f.body.locals
    BY <2>5, ConcatEmptySeq
  <2>7. <<>> \o f.body.typedefs = f.body.typedefs
    BY <2>5, ConcatEmptySeq
  <2>8. <<>> \o f.body.enums = f.body.enums
    BY <2>5, ConcatEmptySeq
  <2> QED
    BY <1>12, <2>1, <2>2, <2>3, <2>4, <2>6, <2>7, <2>8 DEF Sees
<1>14. FrameMirrors(gr[m + 1], sd, m + 1)
  <2>1. 2 * (m + 1) - 2 = n /\ 2 * (m + 1) - 1 = n + 1
    BY <1>2
  <2>2. \A l \in Seq(E) : <<>> \o l = l
    BY ConcatEmptySeq
  <2>3. f.before.locals \in Seq(E) /\ f.before.typedefs \in Seq(E) /\ f.before.enums \in Seq(E)
    BY DEF FrameType, ListsType
  <2>4. f.kind # "for" => f.body.locals = f.before.locals /\ f.body.typedefs = f.before.typedefs
    BY <2>2, <2>3 DEF Grow
  <2>5. f.kind \in {"block", "expr"} => f.body.enums = f.before.enums
    BY <2>2, <2>3 DEF Grow
  <2> QED
    BY <1>4, <1>11, <1>12, <2>1, <2>4, <2>5 DEF FrameMirrors
<1>15. \A i \in 2 .. m + 1 : FrameMirrors(gr[i], sd, i)
  <2>1. \A i \in 2 .. m + 1 : i \in 2 .. m \/ i = m + 1
    OBVIOUS
  <2> QED
    BY <1>9, <1>14, <2>1
<1>16. ListsMirror(gr, sd, f.body)
  BY <1>13 DEF ListsMirror, Sees
<1> QED
  BY <1>3, <1>4, <1>5, <1>7, <1>8, <1>15, <1>16 DEF Mirrored

LEMMA FrontFacts ==
  ASSUME NEW V, NEW s \in Seq(V), NEW m \in Nat \ {0}, Len(s) = m
  PROVE  Front(s) \in Seq(V) /\ Len(Front(s)) = m - 1 /\ \A i \in 1 .. m - 1 : Front(s)[i] = s[i]
<1>1. \A i \in 1 .. m - 1 : s[i] \in V
  <2>1. \A i \in 1 .. m - 1 : i \in 1 .. Len(s)
    OBVIOUS
  <2> QED
    BY <2>1, ElementOfSeq
<1>2. 1 \in Int /\ m - 1 \in Int
  OBVIOUS
<1>3. /\ SubSeq(s, 1, m - 1) \in Seq(V) /\ Len(SubSeq(s, 1, m - 1)) = (IF 1 <= m - 1 THEN m - 1 - 1 + 1 ELSE 0)
      /\ \A i \in 1 .. m - 1 - 1 + 1 : SubSeq(s, 1, m - 1)[i] = s[1 + i - 1]
  BY <1>1, <1>2, SubSeqProperties
<1>4. Front(s) = SubSeq(s, 1, m - 1)
  BY DEF Front
<1>5. (IF 1 <= m - 1 THEN m - 1 - 1 + 1 ELSE 0) = m - 1 /\ m - 1 - 1 + 1 = m - 1 /\ \A i \in 1 .. m - 1 : 1 + i - 1 = i
  OBVIOUS
<1> QED
  BY <1>3, <1>4, <1>5

(* The end of a statement: the lists are those before it.                  *)
LEMMA MirrorClose ==
  ASSUME NEW fr \in Seq(FrameType), NEW m \in Nat \ {0, 1}, Len(fr) = m, NEW sc, NEW sd, NEW ls, NEW ks,
         Mirrored(fr, sc, ls), Len(sd) = 2 * m - 2, SameScopes(sc, sd, 2 * m - 2), SameNames(ks, fr[m].before)
  PROVE  Mirrored(Front(fr), sd, ks)
<1>1. PICK gr \in Seq(FrameType) : gr = Front(fr)
  BY FrontFacts
<1>2. Len(gr) = m - 1 /\ \A i \in 1 .. m - 1 : gr[i] = fr[i]
  BY <1>1, FrontFacts
<1>3. m - 1 \in Nat /\ m - 1 # 0 /\ 1 \in 1 .. m - 1 /\ 1 \in 1 .. 2 * m - 2 /\ m \in 2 .. m /\ 2 * m - 2 \in Nat
  OBVIOUS
<1>4. gr # <<>> /\ Len(sd) = Level(gr)
  <2>1. (gr = <<>> <=> m - 1 = 0) /\ Level(gr) = IF m - 1 = 0 THEN 1 ELSE 2 * (m - 1)
    BY <1>2, <1>3, LevelFacts
  <2> QED
    BY <1>3, <2>1
<1>5. fr # <<>>
  BY Empty
<1>6. sd[1].vars = <<>>
  BY <1>3 DEF SameScopes, Mirrored
<1>7. OuterMirrors(gr[1], sd)
  <2>1. SameScopes(sc, sd, 1)
    <3>1. \A i \in 1 .. 1 : i \in 1 .. 2 * m - 2
      BY <1>3
    <3> QED
      BY <3>1 DEF SameScopes
  <2>2. OuterMirrors(fr[1], sc)
    BY <1>5 DEF Mirrored
  <2>3. OuterMirrors(fr[1], sd)
    BY <2>1, <2>2, OuterKept
  <2> QED
    BY <1>2, <1>3, <2>3
<1>8. ASSUME NEW i \in 2 .. m - 1 PROVE FrameMirrors(gr[i], sd, i)
  <2>1. SameScopes(sc, sd, 2 * (m - 1) - 1)
    <3>1. \A j \in 1 .. 2 * (m - 1) - 1 : j \in 1 .. 2 * m - 2
      OBVIOUS
    <3> QED
      BY <3>1 DEF SameScopes
  <2>2. m - 1 <= m - 1 /\ \A j \in 2 .. m - 1 : FrameMirrors(fr[j], sc, j)
    <3>1. \A j \in 2 .. m - 1 : j \in 2 .. m
      OBVIOUS
    <3> QED
      BY <3>1 DEF Mirrored
  <2>3. FrameMirrors(fr[i], sd, i)
    BY <1>3, <2>1, <2>2, FramesKept
  <2>4. gr[i] = fr[i]
    BY <1>2
  <2> QED
    BY <2>3, <2>4
<1>9. Sees(fr[m].before, sc, 2 * m - 2)
  BY <1>3 DEF Mirrored, FrameMirrors
<1>10. Sees(fr[m].before, sd, 2 * m - 2)
  <2>1. 2 * m - 2 \in 0 .. 2 * m - 2
    BY <1>3
  <2> QED
    BY <1>3, <1>9, <2>1, SeesKept
<1>11. ListsMirror(gr, sd, ks)
  BY <1>10 DEF ListsMirror, Sees, SameNames
<1> QED
  BY <1>1, <1>2, <1>4, <1>6, <1>7, <1>8, <1>11 DEF Mirrored

(* Outside functions only the typedefs and the constants count.            *)
LEMMA MirrorOuter ==
  ASSUME NEW sc, Len(sc) = 1, sc[1].vars = <<>>, NEW ks,
         ks.typedefs = FlatTo(sc, "typedefs", 1), ks.enums = FlatTo(sc, "enums", 1)
  PROVE  Mirrored(<<>>, sc, ks)
<1>1. Level(<<>>) = 1 /\ Len(<<>>) = 0
  BY DEF Level
<1>2. ListsMirror(<<>>, sc, ks)
  BY DEF ListsMirror
<1>3. \A i \in 2 .. Len(<<>>) : FrameMirrors(<<>>[i], sc, i)
  BY <1>1
<1> QED
  BY <1>1, <1>2, <1>3 DEF Mirrored

(* The beginning of a function: e are its parameters.                      *)
LEMMA MirrorBegin ==
  ASSUME NEW sc \in Seq(ScopeType), NEW sd, NEW ls, NEW f, NEW e \in Seq(E),
         Mirrored(<<>>, sc, ls), Len(sd) = 2, SameScopes(sc, sd, 1),
         sd[2].vars = e /\ sd[2].typedefs = <<>> /\ sd[2].enums = <<>>,
         f.kind = "fn", f.body.locals = e, f.body.typedefs = ls.typedefs, f.body.enums = ls.enums
  PROVE  Mirrored(<<f>>, sd, f.body)
<1>1. Len(sc) = 1 /\ sc[1].vars = <<>> /\ ls.typedefs = FlatTo(sc, "typedefs", 1) /\ ls.enums = FlatTo(sc, "enums", 1)
  BY DEF Mirrored, Level, ListsMirror
<1>2. sd[1].vars = <<>>
  BY <1>1 DEF SameScopes
<1>3. Len(<<f>>) = 1 /\ <<f>> # <<>> /\ <<f>>[1] = f /\ Level(<<f>>) = 2
  BY DEF Level
<1>4. /\ FlatTo(sd, "vars", 1) = FlatTo(sc, "vars", 1)
      /\ FlatTo(sd, "typedefs", 1) = FlatTo(sc, "typedefs", 1)
      /\ FlatTo(sd, "enums", 1) = FlatTo(sc, "enums", 1)
  <2>1. 1 \in Nat /\ 1 \in 0 .. 1
    OBVIOUS
  <2> QED
    BY <2>1, FlatKept
<1>5. OuterMirrors(f, sd)
  BY <1>1, <1>4 DEF OuterMirrors
<1>6. 1 \in Nat \ {0} /\ 1 - 1 = 0 /\ 2 \in Nat \ {0} /\ 2 - 1 = 1 /\ 1 \in 1 .. Len(sc)
  BY <1>1
<1>7. FlatTo(sd, "vars", 2) = e
  <2>1. FlatTo(sd, "vars", 2) = sd[2]["vars"] \o FlatTo(sd, "vars", 2 - 1)
    BY <1>6, FlatStep
  <2>2. FlatTo(sd, "vars", 1) = sd[1]["vars"] \o FlatTo(sd, "vars", 1 - 1)
    BY <1>6, FlatStep
  <2>3. FlatTo(sd, "vars", 0) = <<>>
    BY FlatNil
  <2>4. <<>> \o <<>> = <<>> /\ e \o <<>> = e
    BY ConcatEmptySeq, Empty
  <2> QED
    BY <1>2, <1>6, <2>1, <2>2, <2>3, <2>4
<1>8. FlatTo(sd, "typedefs", 2) = ls.typedefs
  <2>1. FlatTo(sd, "typedefs", 2) = sd[2]["typedefs"] \o FlatTo(sd, "typedefs", 2 - 1)
    BY <1>6, FlatStep
  <2>2. FlatTo(sc, "typedefs", 1) \in Seq(E)
    <3>1. \A i \in 1 .. 1 : sc[i]["typedefs"] \in Seq(E)
      BY <1>6, ScopeFields
    <3>2. 1 \in 0 .. 1 /\ 1 \in Nat
      OBVIOUS
    <3> QED
      BY <3>1, <3>2, FlatTyped
  <2>3. <<>> \o FlatTo(sc, "typedefs", 1) = FlatTo(sc, "typedefs", 1)
    BY <2>2, ConcatEmptySeq
  <2> QED
    BY <1>1, <1>4, <1>6, <2>1, <2>3
<1>9. FlatTo(sd, "enums", 2) = ls.enums
  <2>1. FlatTo(sd, "enums", 2) = sd[2]["enums"] \o FlatTo(sd, "enums", 2 - 1)
    BY <1>6, FlatStep
  <2>2. FlatTo(sc, "enums", 1) \in Seq(E)
    <3>1. \A i \in 1 .. 1 : sc[i]["enums"] \in Seq(E)
      BY <1>6, ScopeFields
    <3>2. 1 \in 0 .. 1 /\ 1 \in Nat
      OBVIOUS
    <3> QED
      BY <3>1, <3>2, FlatTyped
  <2>3. <<>> \o FlatTo(sc, "enums", 1) = FlatTo(sc, "enums", 1)
    BY <2>2, ConcatEmptySeq
  <2> QED
    BY <1>1, <1>4, <1>6, <2>1, <2>3
<1>10. ListsMirror(<<f>>, sd, f.body)
  BY <1>7, <1>8, <1>9 DEF ListsMirror
<1>11. \A i \in 2 .. Len(<<f>>) : FrameMirrors(<<f>>[i], sd, i)
  BY <1>3
<1> QED
  BY <1>2, <1>3, <1>5, <1>10, <1>11 DEF Mirrored

-----------------------------------------------------------------------------
(* What a declaration adds.                                                *)
Spaces == {"var", "typedef", "enum", "tag"}
DeclType(d) == d.space \in Spaces /\ d.name \in Names /\ (d.space = "var" => d.sort \in VarSorts)
AddedVars(d) == IF d.space = "var" THEN <<Entry(d.name, d.sort)>> ELSE <<>>
AddedTypedefs(d) == IF d.space = "typedef" THEN <<Entry(d.name, "typedef")>> ELSE <<>>
AddedEnums(d) == IF d.space = "enum" THEN <<Entry(d.name, "enum")>> ELSE <<>>

LEMMA DeclTyped ==
  ASSUME uses \in Programs, NEW d \in VarDecls \cup OtherDecls
  PROVE  DeclType(d)
<1>1. uses.sorts \subseteq VarSorts /\ uses.spaces \subseteq {"typedef", "enum", "tag"}
  BY ProgramsAssumption
<1>2. CASE d \in VarDecls
  BY <1>1, <1>2 DEF VarDecls, Decl, DeclType, Spaces
<1>3. CASE d \in OtherDecls
  <2>1. PICK sp \in uses.spaces, n \in Names, f \in BOOLEAN : d = Decl(sp, n, sp, f)
    BY <1>3 DEF OtherDecls
  <2> QED
    BY <1>1, <2>1 DEF Decl, DeclType, Spaces
<1> QED
  BY <1>2, <1>3

LEMMA HeadTyped ==
  ASSUME uses \in Programs, NEW kind, NEW d \in HeadDecls(kind)
  PROVE  /\ d \in VarDecls \cup OtherDecls
         /\ kind # "for" => d.space # "var" /\ d.space # "typedef"
         /\ kind \in {"for", "if", "while", "switch"}
<1>1. CASE kind = "for"
  BY <1>1 DEF HeadDecls
<1>2. CASE kind \in {"if", "while", "switch"}
  <2>1. d \in OtherDecls /\ d.space # "typedef"
    BY <1>2 DEF HeadDecls
  <2>2. PICK sp \in uses.spaces, n \in Names, f \in BOOLEAN : d = Decl(sp, n, sp, f)
    BY <2>1 DEF OtherDecls
  <2>3. d.space \in {"typedef", "enum", "tag"}
    BY <2>2, ProgramsAssumption DEF Decl
  <2> QED
    BY <1>2, <2>1, <2>3
<1>3. CASE kind \notin {"for", "if", "while", "switch"}
  BY <1>3 DEF HeadDecls
<1> QED
  BY <1>1, <1>2, <1>3

LEMMA EntryTyped ==
  ASSUME fresh \in Nat \ {0}, NEW n \in Names, NEW s \in VarSorts \cup {"typedef", "enum", "tag"}
  PROVE  Entry(n, s) \in E /\ Entry(n, s).id = fresh
BY DEF Entry, E

LEMMA Added ==
  ASSUME fresh \in Nat \ {0}, NEW d, DeclType(d)
  PROVE  AddedVars(d) \in Seq(E) /\ AddedTypedefs(d) \in Seq(E) /\ AddedEnums(d) \in Seq(E)
<1>1. <<>> \in Seq(E)
  BY Empty
<1>2. AddedVars(d) \in Seq(E)
  <2>1. CASE d.space = "var"
    <3>1. Entry(d.name, d.sort) \in E
      BY <2>1, EntryTyped DEF DeclType
    <3> QED
      BY <2>1, <3>1, Single DEF AddedVars
  <2> QED
    BY <1>1, <2>1 DEF AddedVars
<1>3. Entry(d.name, "typedef") \in E /\ Entry(d.name, "enum") \in E
  BY EntryTyped DEF DeclType
<1>4. AddedTypedefs(d) \in Seq(E)
  BY <1>1, <1>3, Single DEF AddedTypedefs
<1>5. AddedEnums(d) \in Seq(E)
  BY <1>1, <1>3, Single DEF AddedEnums
<1> QED
  BY <1>2, <1>4, <1>5

LEMMA DeclaredFacts ==
  ASSUME fresh \in Nat \ {0}, lists \in ListsType, NEW d, DeclType(d)
  PROVE  Declared(d) \in ListsType /\ Grow(lists, Declared(d), AddedVars(d), AddedTypedefs(d), AddedEnums(d))
<1>0. lists.locals \in Seq(E) /\ lists.typedefs \in Seq(E) /\ lists.tags \in Seq(E) /\ lists.enums \in Seq(E)
  BY DEF ListsType
<1>1. \A l \in Seq(E) : <<>> \o l = l
  BY ConcatEmptySeq
<1>2. \A e \in E, l \in Seq(E) : <<e>> \o l \in Seq(E)
  BY Single, ConcatProperties
<1>3. CASE d.space = "var"
  <2>1. Entry(d.name, d.sort) \in E
    BY <1>3, EntryTyped DEF DeclType
  <2>2. Declared(d) = [lists EXCEPT !.locals = <<Entry(d.name, d.sort)>> \o @]
    BY <1>3 DEF Declared, NewLocal
  <2>3. <<Entry(d.name, d.sort)>> \o lists.locals \in Seq(E)
    BY <1>0, <1>2, <2>1
  <2>4. Declared(d) \in ListsType
    BY <2>2, <2>3 DEF ListsType
  <2>5. AddedVars(d) = <<Entry(d.name, d.sort)>> /\ AddedTypedefs(d) = <<>> /\ AddedEnums(d) = <<>>
    BY <1>3 DEF AddedVars, AddedTypedefs, AddedEnums
  <2>6. /\ Declared(d).locals = <<Entry(d.name, d.sort)>> \o lists.locals
        /\ Declared(d).typedefs = lists.typedefs /\ Declared(d).enums = lists.enums
    BY <2>2 DEF ListsType
  <2> QED
    BY <1>0, <1>1, <2>4, <2>5, <2>6 DEF Grow
<1>4. CASE d.space = "typedef"
  <2>1. Entry(d.name, "typedef") \in E
    BY EntryTyped DEF DeclType
  <2>2. Declared(d) = [lists EXCEPT !.typedefs = <<Entry(d.name, "typedef")>> \o @]
    BY <1>4 DEF Declared
  <2>3. <<Entry(d.name, "typedef")>> \o lists.typedefs \in Seq(E)
    BY <1>0, <1>2, <2>1
  <2>4. Declared(d) \in ListsType
    BY <2>2, <2>3 DEF ListsType
  <2>5. AddedVars(d) = <<>> /\ AddedTypedefs(d) = <<Entry(d.name, "typedef")>> /\ AddedEnums(d) = <<>>
    BY <1>4 DEF AddedVars, AddedTypedefs, AddedEnums
  <2>6. /\ Declared(d).typedefs = <<Entry(d.name, "typedef")>> \o lists.typedefs
        /\ Declared(d).locals = lists.locals /\ Declared(d).enums = lists.enums
    BY <2>2 DEF ListsType
  <2> QED
    BY <1>0, <1>1, <2>4, <2>5, <2>6 DEF Grow
<1>5. CASE d.space = "enum"
  <2>1. Entry(d.name, "enum") \in E
    BY EntryTyped DEF DeclType
  <2>2. Declared(d) = [lists EXCEPT !.enums = <<Entry(d.name, "enum")>> \o @]
    BY <1>5 DEF Declared
  <2>3. <<Entry(d.name, "enum")>> \o lists.enums \in Seq(E)
    BY <1>0, <1>2, <2>1
  <2>4. Declared(d) \in ListsType
    BY <2>2, <2>3 DEF ListsType
  <2>5. AddedVars(d) = <<>> /\ AddedTypedefs(d) = <<>> /\ AddedEnums(d) = <<Entry(d.name, "enum")>>
    BY <1>5 DEF AddedVars, AddedTypedefs, AddedEnums
  <2>6. /\ Declared(d).enums = <<Entry(d.name, "enum")>> \o lists.enums
        /\ Declared(d).locals = lists.locals /\ Declared(d).typedefs = lists.typedefs
    BY <2>2 DEF ListsType
  <2> QED
    BY <1>0, <1>1, <2>4, <2>5, <2>6 DEF Grow
<1>6. CASE d.space = "tag"
  <2>1. Entry(d.name, "tag") \in E
    BY EntryTyped DEF DeclType
  <2>2. Declared(d) = lists \/ Declared(d) = [lists EXCEPT !.tags = <<Entry(d.name, "tag")>> \o @]
    BY <1>6 DEF Declared, Tagged
  <2>3. <<Entry(d.name, "tag")>> \o lists.tags \in Seq(E)
    BY <1>0, <1>2, <2>1
  <2>4. Declared(d) \in ListsType
    BY <2>2, <2>3 DEF ListsType
  <2>5. AddedVars(d) = <<>> /\ AddedTypedefs(d) = <<>> /\ AddedEnums(d) = <<>>
    BY <1>6 DEF AddedVars, AddedTypedefs, AddedEnums
  <2>6. /\ Declared(d).enums = lists.enums
        /\ Declared(d).locals = lists.locals /\ Declared(d).typedefs = lists.typedefs
    BY <2>2 DEF ListsType
  <2> QED
    BY <1>0, <1>1, <2>4, <2>5, <2>6 DEF Grow
<1> QED
  BY <1>3, <1>4, <1>5, <1>6 DEF DeclType, Spaces

LEMMA RecordedFacts ==
  ASSUME fresh \in Nat \ {0}, NEW scope \in ScopeType, NEW d, DeclType(d)
  PROVE  /\ Recorded(scope, d) \in ScopeType
         /\ Recorded(scope, d).vars = AddedVars(d) \o scope.vars
         /\ Recorded(scope, d).typedefs = AddedTypedefs(d) \o scope.typedefs
         /\ Recorded(scope, d).enums = AddedEnums(d) \o scope.enums
<1>0. scope.vars \in Seq(E) /\ scope.typedefs \in Seq(E) /\ scope.tags \in Seq(E) /\ scope.enums \in Seq(E)
  BY DEF ScopeType
<1>1. \A l \in Seq(E) : <<>> \o l = l
  BY ConcatEmptySeq
<1>2. \A e \in E, l \in Seq(E) : <<e>> \o l \in Seq(E)
  BY Single, ConcatProperties
<1>3. CASE d.space = "var"
  <2>1. Entry(d.name, d.sort) \in E
    BY <1>3, EntryTyped DEF DeclType
  <2>2. Recorded(scope, d) = [scope EXCEPT !["vars"] = <<Entry(d.name, d.sort)>> \o @]
    BY <1>3 DEF Recorded, Push
  <2>3. <<Entry(d.name, d.sort)>> \o scope.vars \in Seq(E)
    BY <1>0, <1>2, <2>1
  <2>4. Recorded(scope, d) \in ScopeType
    BY <2>2, <2>3 DEF ScopeType
  <2>5. AddedVars(d) = <<Entry(d.name, d.sort)>> /\ AddedTypedefs(d) = <<>> /\ AddedEnums(d) = <<>>
    BY <1>3 DEF AddedVars, AddedTypedefs, AddedEnums
  <2>6. /\ Recorded(scope, d).vars = <<Entry(d.name, d.sort)>> \o scope.vars
        /\ Recorded(scope, d).typedefs = scope.typedefs /\ Recorded(scope, d).enums = scope.enums
    BY <2>2 DEF ScopeType
  <2> QED
    BY <1>0, <1>1, <2>4, <2>5, <2>6
<1>4. CASE d.space = "typedef"
  <2>1. Entry(d.name, "typedef") \in E
    BY EntryTyped DEF DeclType
  <2>2. Recorded(scope, d) = [scope EXCEPT !["typedefs"] = <<Entry(d.name, "typedef")>> \o @]
    BY <1>4 DEF Recorded, Push
  <2>3. <<Entry(d.name, "typedef")>> \o scope.typedefs \in Seq(E)
    BY <1>0, <1>2, <2>1
  <2>4. Recorded(scope, d) \in ScopeType
    BY <2>2, <2>3 DEF ScopeType
  <2>5. AddedVars(d) = <<>> /\ AddedTypedefs(d) = <<Entry(d.name, "typedef")>> /\ AddedEnums(d) = <<>>
    BY <1>4 DEF AddedVars, AddedTypedefs, AddedEnums
  <2>6. /\ Recorded(scope, d).typedefs = <<Entry(d.name, "typedef")>> \o scope.typedefs
        /\ Recorded(scope, d).vars = scope.vars /\ Recorded(scope, d).enums = scope.enums
    BY <2>2 DEF ScopeType
  <2> QED
    BY <1>0, <1>1, <2>4, <2>5, <2>6
<1>5. CASE d.space = "enum"
  <2>1. Entry(d.name, "enum") \in E
    BY EntryTyped DEF DeclType
  <2>2. Recorded(scope, d) = [scope EXCEPT !["enums"] = <<Entry(d.name, "enum")>> \o @]
    BY <1>5 DEF Recorded, Push
  <2>3. <<Entry(d.name, "enum")>> \o scope.enums \in Seq(E)
    BY <1>0, <1>2, <2>1
  <2>4. Recorded(scope, d) \in ScopeType
    BY <2>2, <2>3 DEF ScopeType
  <2>5. AddedVars(d) = <<>> /\ AddedTypedefs(d) = <<>> /\ AddedEnums(d) = <<Entry(d.name, "enum")>>
    BY <1>5 DEF AddedVars, AddedTypedefs, AddedEnums
  <2>6. /\ Recorded(scope, d).enums = <<Entry(d.name, "enum")>> \o scope.enums
        /\ Recorded(scope, d).vars = scope.vars /\ Recorded(scope, d).typedefs = scope.typedefs
    BY <2>2 DEF ScopeType
  <2> QED
    BY <1>0, <1>1, <2>4, <2>5, <2>6
<1>6. CASE d.space = "tag"
  <2>1. Entry(d.name, "tag") \in E
    BY EntryTyped DEF DeclType
  <2>2. Recorded(scope, d) = scope \/ Recorded(scope, d) = [scope EXCEPT !["tags"] = <<Entry(d.name, "tag")>> \o @]
    BY <1>6 DEF Recorded, Push
  <2>3. <<Entry(d.name, "tag")>> \o scope.tags \in Seq(E)
    BY <1>0, <1>2, <2>1
  <2>4. Recorded(scope, d) \in ScopeType
    BY <2>2, <2>3 DEF ScopeType
  <2>5. AddedVars(d) = <<>> /\ AddedTypedefs(d) = <<>> /\ AddedEnums(d) = <<>>
    BY <1>6 DEF AddedVars, AddedTypedefs, AddedEnums
  <2>6. /\ Recorded(scope, d).enums = scope.enums
        /\ Recorded(scope, d).vars = scope.vars /\ Recorded(scope, d).typedefs = scope.typedefs
    BY <2>2 DEF ScopeType
  <2> QED
    BY <1>0, <1>1, <2>4, <2>5, <2>6
<1> QED
  BY <1>3, <1>4, <1>5, <1>6 DEF DeclType, Spaces

-----------------------------------------------------------------------------
(* The names: what every action keeps of the lists and of the scopes.      *)
Base ==
  /\ uses \in Programs /\ fresh \in Nat \ {0} /\ switch \in Int /\ loop \in Int
  /\ lists \in ListsType /\ frames \in Seq(FrameType) /\ scopes \in Seq(ScopeType)
  /\ Mirrored(frames, scopes, lists)

LEMMA Replaced ==
  ASSUME NEW V, NEW s \in Seq(V), NEW n \in 1 .. Len(s), NEW x \in V
  PROVE  /\ [s EXCEPT ![n] = x] \in Seq(V) /\ Len([s EXCEPT ![n] = x]) = Len(s)
         /\ [s EXCEPT ![n] = x][n] = x
         /\ \A i \in 1 .. Len(s) : i # n => [s EXCEPT ![n] = x][i] = s[i]
<1>1. [s EXCEPT ![n] = x] \in Seq(V) /\ Len([s EXCEPT ![n] = x]) = Len(s)
  BY ExceptSeq
<1>2. DOMAIN s = 1 .. Len(s)
  BY LenProperties
<1>3. [s EXCEPT ![n] = x][n] = x /\ \A i \in 1 .. Len(s) : i # n => [s EXCEPT ![n] = x][i] = s[i]
  BY <1>2
<1> QED
  BY <1>1, <1>3

LEMMA DeclareAdds ==
  ASSUME fresh \in Nat \ {0}, scopes \in Seq(ScopeType), NEW n \in Nat \ {0}, Len(scopes) = n, NEW d, DeclType(d)
  PROVE  /\ [scopes EXCEPT ![n] = Recorded(@, d)] \in Seq(ScopeType)
         /\ Adds(scopes, [scopes EXCEPT ![n] = Recorded(@, d)], n, AddedVars(d), AddedTypedefs(d), AddedEnums(d))
<1>1. n \in 1 .. Len(scopes)
  OBVIOUS
<1>2. PICK c \in ScopeType : c = scopes[n]
  BY <1>1, ElementOfSeq
<1>3. PICK r \in ScopeType : r = Recorded(c, d)
  BY RecordedFacts
<1>4. r.vars = AddedVars(d) \o c.vars /\ r.typedefs = AddedTypedefs(d) \o c.typedefs /\ r.enums = AddedEnums(d) \o c.enums
  BY <1>3, RecordedFacts
<1>5. [scopes EXCEPT ![n] = Recorded(@, d)] = [scopes EXCEPT ![n] = r]
  BY <1>2, <1>3
<1>6. PICK sd : sd = [scopes EXCEPT ![n] = r]
  OBVIOUS
<1>7. sd \in Seq(ScopeType) /\ Len(sd) = n /\ sd[n] = r /\ \A i \in 1 .. Len(scopes) : i # n => sd[i] = scopes[i]
  BY <1>1, <1>6, Replaced
<1>8. SameScopes(scopes, sd, n - 1)
  <2>1. \A i \in 1 .. n - 1 : i \in 1 .. Len(scopes) /\ i # n
    OBVIOUS
  <2> QED
    BY <1>7, <2>1 DEF SameScopes
<1>9. Adds(scopes, sd, n, AddedVars(d), AddedTypedefs(d), AddedEnums(d))
  BY <1>2, <1>4, <1>7, <1>8 DEF Adds
<1> QED
  BY <1>5, <1>6, <1>7, <1>9

LEMMA BaseDeclare ==
  ASSUME Base, NEW d \in VarDecls \cup OtherDecls, Declare(d)
  PROVE  Base'
<1>1. fresh \in Nat \ {0} /\ lists \in ListsType /\ scopes \in Seq(ScopeType) /\ frames \in Seq(FrameType)
  BY DEF Base
<1>2. DeclType(d)
  BY DeclTyped DEF Base
<1>3. PICK n \in Nat : n = Len(scopes)
  BY <1>1, Empty
<1>4. PICK m \in Nat : m = Len(frames)
  BY <1>1, Empty
<1>5. n = Level(frames) /\ frames # <<>>
  BY <1>3 DEF Base, Mirrored, Declare, InFunction
<1>6. (frames = <<>> <=> m = 0) /\ Level(frames) = IF m = 0 THEN 1 ELSE 2 * m
  BY <1>1, <1>4, LevelFacts
<1>7. n \in Nat \ {0} /\ n # 1
  BY <1>5, <1>6
<1>8. lists' = Declared(d) /\ scopes' = [scopes EXCEPT ![n] = Recorded(@, d)]
      /\ fresh' = fresh + 1 /\ uses' = uses /\ switch' = switch /\ loop' = loop /\ frames' = frames
  BY <1>3 DEF Declare, Step
<1>9. lists' \in ListsType /\ Grow(lists, lists', AddedVars(d), AddedTypedefs(d), AddedEnums(d))
  BY <1>1, <1>2, <1>8, DeclaredFacts
<1>10. scopes' \in Seq(ScopeType) /\ Adds(scopes, scopes', n, AddedVars(d), AddedTypedefs(d), AddedEnums(d))
  BY <1>1, <1>2, <1>3, <1>7, <1>8, DeclareAdds
<1>11. AddedVars(d) \in Seq(E) /\ AddedTypedefs(d) \in Seq(E) /\ AddedEnums(d) \in Seq(E)
  BY <1>1, <1>2, Added
<1>12. Mirrored(frames, scopes, lists)
  BY DEF Base
<1>13. Mirrored(frames, scopes', lists')
  BY <1>1, <1>3, <1>7, <1>9, <1>10, <1>11, <1>12, MirrorTop
<1> QED
  BY <1>1, <1>8, <1>9, <1>10, <1>13 DEF Base

LEMMA BaseDeclareGlobal ==
  ASSUME Base, NEW d \in VarDecls \cup OtherDecls, DeclareGlobal(d)
  PROVE  Base'
<1>1. fresh \in Nat \ {0} /\ lists \in ListsType /\ scopes \in Seq(ScopeType) /\ frames \in Seq(FrameType)
  BY DEF Base
<1>2. DeclType(d)
  BY DeclTyped DEF Base
<1>3. frames = <<>> /\ Mirrored(frames, scopes, lists)
  BY DEF Base, DeclareGlobal, InFunction
<1>4. Len(scopes) = 1
  BY <1>3 DEF Mirrored, Level
<1>5. fresh' = fresh + 1 /\ uses' = uses /\ switch' = switch /\ loop' = loop /\ frames' = frames
  BY DEF DeclareGlobal, Step
<1>6. CASE d.space = "var"
  <2>1. lists' = lists /\ scopes' = [scopes EXCEPT ![1] = @]
    BY <1>6 DEF DeclareGlobal
  <2>2. scopes' = scopes
    BY <1>1, <2>1
  <2>5. lists' = lists
    BY <2>1
  <2>3. Mirrored(frames', scopes', lists')
    BY <1>3, <1>5, <2>1, <2>2
  <2>4. /\ uses' \in Programs /\ fresh' \in Nat \ {0} /\ switch' \in Int /\ loop' \in Int
        /\ frames' \in Seq(FrameType) /\ lists' \in ListsType /\ scopes' \in Seq(ScopeType)
    BY <1>5, <2>2, <2>5 DEF Base
  <2> QED
    BY <2>3, <2>4 DEF Base
<1>7. CASE d.space # "var"
  <2>1. lists' = Declared(d) /\ scopes' = [scopes EXCEPT ![1] = Recorded(@, d)]
    BY <1>7 DEF DeclareGlobal
  <2>2. lists' \in ListsType /\ Grow(lists, lists', AddedVars(d), AddedTypedefs(d), AddedEnums(d))
    BY <1>1, <1>2, <2>1, DeclaredFacts
  <2>3. 1 \in Nat \ {0}
    OBVIOUS
  <2>4. scopes' \in Seq(ScopeType) /\ Adds(scopes, scopes', 1, AddedVars(d), AddedTypedefs(d), AddedEnums(d))
    BY <1>1, <1>2, <1>4, <2>1, <2>3, DeclareAdds
  <2>5. AddedVars(d) \in Seq(E) /\ AddedTypedefs(d) \in Seq(E) /\ AddedEnums(d) \in Seq(E)
    BY <1>1, <1>2, Added
  <2>6. AddedVars(d) = <<>>
    BY <1>7 DEF AddedVars
  <2>7. Mirrored(frames, scopes', lists')
    BY <1>1, <1>3, <1>4, <2>2, <2>3, <2>4, <2>5, <2>6, MirrorTop
  <2> QED
    BY <1>1, <1>5, <2>2, <2>4, <2>7 DEF Base
<1> QED
  BY <1>6, <1>7

LEMMA NoScopeTyped == NoScope \in ScopeType
BY Empty DEF NoScope, ScopeType

LEMMA Two ==
  ASSUME NEW V, NEW x \in V, NEW y \in V
  PROVE  <<x, y>> \in Seq(V) /\ Len(<<x, y>>) = 2 /\ <<x, y>>[1] = x /\ <<x, y>>[2] = y
OBVIOUS

LEMMA JoinedTwo ==
  ASSUME NEW V, NEW p \in Seq(V), NEW n, Len(p) = n, NEW s \in Seq(V), Len(s) = 2
  PROVE  /\ p \o s \in Seq(V) /\ Len(p \o s) = n + 2
         /\ \A i \in 1 .. n : (p \o s)[i] = p[i]
         /\ \A i \in 1 .. 2 : (p \o s)[n + i] = s[i]
<1>1. PICK t \in Nat : Len(s) = t
  OBVIOUS
<1>2. /\ p \o s \in Seq(V) /\ Len(p \o s) = n + t
      /\ \A i \in 1 .. n : (p \o s)[i] = p[i]
      /\ \A i \in 1 .. t : (p \o s)[n + i] = s[i]
  BY <1>1, Joined
<1>3. t = 2
  BY <1>1
<1> QED
  BY <1>2, <1>3, SMTT(30)

LEMMA BaseOpened ==
  ASSUME Base, frames # <<>>, NEW kind \in Kinds \ {"fn"}, NEW after \in ListsType, NEW head \in ScopeType,
         NEW x \in Seq(E), NEW y \in Seq(E), NEW z \in Seq(E), Grow(lists, after, x, y, z),
         head.vars = x, head.typedefs = y, head.enums = z,
         kind # "for" => x = <<>> /\ y = <<>>, kind \in {"block", "expr"} => z = <<>>,
         Opened(kind, after, <<head, NoScope>>), uses' = uses, fresh' \in {fresh, fresh + 1}
  PROVE  Base'
<1>1. /\ fresh \in Nat \ {0} /\ lists \in ListsType /\ scopes \in Seq(ScopeType) /\ frames \in Seq(FrameType)
      /\ switch \in Int /\ loop \in Int /\ Mirrored(frames, scopes, lists)
  BY DEF Base
<1>2. PICK f : f = [kind |-> kind, before |-> lists, body |-> after, switch |-> switch, loop |-> loop]
  OBVIOUS
<1>3. f \in FrameType /\ f.before = lists /\ f.body = after /\ f.kind = kind
  BY <1>1, <1>2 DEF FrameType
<1>4. PICK n \in Nat : n = Len(scopes)
  BY <1>1, Empty
<1>5. PICK m \in Nat : m = Len(frames)
  BY <1>1, Empty
<1>6. n \in Nat \ {0}
  <2>1. n = Level(frames)
    BY <1>1, <1>4 DEF Mirrored
  <2>2. Level(frames) \in Nat \ {0}
    BY <1>1, <1>5, LevelFacts
  <2> QED
    BY <2>1, <2>2
<1>7. PICK k : k = <<head, NoScope>>
  OBVIOUS
<1>8. k \in Seq(ScopeType) /\ Len(k) = 2 /\ k[1] = head /\ k[2] = NoScope
  BY <1>7, NoScopeTyped, Two
<1>9. PICK sd : sd = scopes \o k
  OBVIOUS
<1>10. /\ sd \in Seq(ScopeType) /\ Len(sd) = n + 2
       /\ \A i \in 1 .. n : sd[i] = scopes[i]
       /\ \A i \in 1 .. 2 : sd[n + i] = k[i]
  <2>1. /\ scopes \o k \in Seq(ScopeType) /\ Len(scopes \o k) = n + 2
        /\ \A i \in 1 .. n : (scopes \o k)[i] = scopes[i]
        /\ \A i \in 1 .. 2 : (scopes \o k)[n + i] = k[i]
    <3>1. scopes \in Seq(ScopeType) /\ k \in Seq(ScopeType) /\ Len(scopes) = n /\ Len(k) = 2
      BY <1>1, <1>4, <1>8
    <3> QED
      BY <3>1, JoinedTwo, SMTT(30)
  <2> QED
    BY <1>9, <2>1
<1>11. sd[n + 1] = head /\ sd[n + 2] = NoScope
  BY <1>8, <1>10
<1>12. SameScopes(scopes, sd, n)
  BY <1>10 DEF SameScopes
<1>13. sd[n + 2].vars = <<>> /\ sd[n + 2].typedefs = <<>> /\ sd[n + 2].enums = <<>>
  BY <1>11 DEF NoScope
<1>14. Mirrored(Append(frames, f), sd, f.body)
  <2>1. Mirrored(frames, scopes, f.before) /\ Grow(f.before, f.body, x, y, z) /\ f.kind # "fn"
    BY <1>1, <1>3
  <2>2. sd[n + 1].vars = x /\ sd[n + 1].typedefs = y /\ sd[n + 1].enums = z
    BY <1>11
  <2>3. (f.kind # "for" => x = <<>> /\ y = <<>>) /\ (f.kind \in {"block", "expr"} => z = <<>>)
    BY <1>3
  <2> QED
    BY <1>1, <1>3, <1>4, <1>6, <1>10, <1>12, <1>13, <2>1, <2>2, <2>3, MirrorOpen
<1>15. lists' = after /\ frames' = Append(frames, f) /\ scopes' = sd
  BY <1>2, <1>7, <1>9 DEF Opened
<1>16. switch' \in Int /\ loop' \in Int
  <2>1. after.locals \in Seq(E)
    BY DEF ListsType
  <2>2. Ptr(after.locals) \in Int
    BY <2>1, PtrFacts
  <2> QED
    BY <1>1, <2>2 DEF Opened
<1>17. frames' \in Seq(FrameType)
  BY <1>1, <1>3, <1>15, AppendProperties
<1>18. fresh' \in Nat \ {0} /\ uses' \in Programs
  BY <1>1 DEF Base
<1>19. Mirrored(frames', scopes', lists')
  BY <1>3, <1>14, <1>15
<1>20. lists' \in ListsType /\ scopes' \in Seq(ScopeType)
  BY <1>10, <1>15
<1> QED
  BY <1>16, <1>17, <1>18, <1>19, <1>20 DEF Base

LEMMA BaseOpen ==
  ASSUME Base, NEW kind \in uses.kinds, Open(kind)
  PROVE  Base'
<1>1. kind \in Kinds \ {"fn"}
  BY ProgramsAssumption DEF Base
<1>2. frames # <<>> /\ uses' = uses /\ fresh' = fresh
  BY DEF Open, InFunction, Step
<1>3. Opened(kind, lists, <<NoScope, NoScope>>)
  BY DEF Open
<1>4. lists \in ListsType
  BY DEF Base
<1>5. Grow(lists, lists, <<>>, <<>>, <<>>)
  <2>1. lists.locals \in Seq(E) /\ lists.typedefs \in Seq(E) /\ lists.enums \in Seq(E)
    BY <1>4 DEF ListsType
  <2>2. \A l \in Seq(E) : <<>> \o l = l
    BY ConcatEmptySeq
  <2> QED
    BY <2>1, <2>2 DEF Grow
<1>6. NoScope.vars = <<>> /\ NoScope.typedefs = <<>> /\ NoScope.enums = <<>>
  BY DEF NoScope
<1>7. <<>> \in Seq(E)
  BY Empty
<1> QED
  BY <1>1, <1>2, <1>3, <1>4, <1>5, <1>6, <1>7, NoScopeTyped, BaseOpened

LEMMA BaseOpenHead ==
  ASSUME Base, NEW kind \in uses.kinds, NEW d \in HeadDecls(kind), OpenHead(kind, d)
  PROVE  Base'
<1>1. kind \in Kinds \ {"fn"} /\ uses \in Programs
  BY ProgramsAssumption DEF Base
<1>2. frames # <<>> /\ uses' = uses /\ fresh' = fresh + 1
  BY DEF OpenHead, InFunction, Step
<1>3. Opened(kind, Declared(d), <<Recorded(NoScope, d), NoScope>>)
  BY DEF OpenHead
<1>4. lists \in ListsType /\ fresh \in Nat \ {0}
  BY DEF Base
<1>5. d \in VarDecls \cup OtherDecls /\ (kind # "for" => d.space # "var" /\ d.space # "typedef")
      /\ kind \in {"for", "if", "while", "switch"}
  BY <1>1, HeadTyped
<1>6. DeclType(d)
  BY <1>1, <1>5, DeclTyped
<1>7. AddedVars(d) \in Seq(E) /\ AddedTypedefs(d) \in Seq(E) /\ AddedEnums(d) \in Seq(E)
  BY <1>4, <1>6, Added
<1>8. Declared(d) \in ListsType /\ Grow(lists, Declared(d), AddedVars(d), AddedTypedefs(d), AddedEnums(d))
  BY <1>4, <1>6, DeclaredFacts
<1>9. PICK h : h = Recorded(NoScope, d)
  OBVIOUS
<1>10. h \in ScopeType /\ h.vars = AddedVars(d) /\ h.typedefs = AddedTypedefs(d) /\ h.enums = AddedEnums(d)
  <2>1. /\ Recorded(NoScope, d) \in ScopeType
        /\ Recorded(NoScope, d).vars = AddedVars(d) \o NoScope.vars
        /\ Recorded(NoScope, d).typedefs = AddedTypedefs(d) \o NoScope.typedefs
        /\ Recorded(NoScope, d).enums = AddedEnums(d) \o NoScope.enums
    BY <1>4, <1>6, NoScopeTyped, RecordedFacts
  <2>2. NoScope.vars = <<>> /\ NoScope.typedefs = <<>> /\ NoScope.enums = <<>>
    BY DEF NoScope
  <2>3. \A l \in Seq(E) : l \o <<>> = l
    BY ConcatEmptySeq
  <2> QED
    BY <1>7, <1>9, <2>1, <2>2, <2>3
<1>11. kind # "for" => AddedVars(d) = <<>> /\ AddedTypedefs(d) = <<>>
  BY <1>5 DEF AddedVars, AddedTypedefs
<1>12. kind \in {"block", "expr"} => AddedEnums(d) = <<>>
  BY <1>5
<1>13. Opened(kind, Declared(d), <<h, NoScope>>)
  BY <1>3, <1>9
<1>14. PICK x \in Seq(E), y \in Seq(E), z \in Seq(E) : x = AddedVars(d) /\ y = AddedTypedefs(d) /\ z = AddedEnums(d)
  BY <1>7
<1>15. PICK after \in ListsType : after = Declared(d)
  BY <1>8
<1>16. h.vars = x /\ h.typedefs = y /\ h.enums = z /\ Grow(lists, after, x, y, z) /\ Opened(kind, after, <<h, NoScope>>)
  BY <1>8, <1>10, <1>13, <1>14, <1>15
<1>17. (kind # "for" => x = <<>> /\ y = <<>>) /\ (kind \in {"block", "expr"} => z = <<>>)
  BY <1>11, <1>12, <1>14
<1> QED
  BY <1>1, <1>2, <1>10, <1>14, <1>15, <1>16, <1>17, BaseOpened

LEMMA BaseBegin ==
  ASSUME Base, NEW params \in 0 .. MaxParams, BeginFunction(params)
  PROVE  Base'
<1>1. /\ fresh \in Nat \ {0} /\ lists \in ListsType /\ scopes \in Seq(ScopeType) /\ Mirrored(frames, scopes, lists)
      /\ uses \in Programs /\ frames = <<>>
  BY DEF Base, BeginFunction, InFunction
<1>0. params \in Nat
  BY BoundsAssumption
<1>2. PICK e : e = [i \in 1 .. params |-> [id |-> fresh + params - i, name |-> "param", sort |-> "auto"]]
  OBVIOUS
<1>3. e \in Seq(E)
  <2>1. \A i \in 1 .. params : [id |-> fresh + params - i, name |-> "param", sort |-> "auto"] \in E
    <3>1. SUFFICES ASSUME NEW i \in 1 .. params PROVE [id |-> fresh + params - i, name |-> "param", sort |-> "auto"] \in E
      OBVIOUS
    <3>2. fresh + params - i \in Nat \ {0}
      BY <1>0, <1>1
    <3> QED
      BY <3>2 DEF E, VarSorts
  <2> QED
    <3>1. e \in [1 .. params -> E]
      BY <1>2, <2>1
    <3> QED
      BY <1>0, <3>1, SeqDef
<1>4. PICK f : f = [kind |-> "fn", before |-> [lists EXCEPT !.locals = e], body |-> [lists EXCEPT !.locals = e],
                    switch |-> Absent, loop |-> Absent]
  OBVIOUS
<1>5. [lists EXCEPT !.locals = e] \in ListsType
  BY <1>1, <1>3 DEF ListsType
<1>6. f \in FrameType
  BY <1>4, <1>5 DEF FrameType, Kinds, Absent
<1>7. f.body = [lists EXCEPT !.locals = e] /\ f.kind = "fn"
  BY <1>4
<1>8. f.body.locals = e /\ f.body.typedefs = lists.typedefs /\ f.body.enums = lists.enums
  BY <1>1, <1>7 DEF ListsType
<1>9. PICK h : h = [NoScope EXCEPT !.vars = e]
  OBVIOUS
<1>10. h \in ScopeType /\ h.vars = e /\ h.typedefs = <<>> /\ h.enums = <<>>
  BY <1>3, <1>9, Empty DEF NoScope, ScopeType
<1>11. PICK sd : sd = Append(scopes, h)
  OBVIOUS
<1>12. Len(scopes) = 1
  BY <1>1 DEF Mirrored, Level
<1>13. sd \in Seq(ScopeType) /\ Len(sd) = 2 /\ sd[2] = h /\ sd[1] = scopes[1]
  <2>1. /\ Append(scopes, h) \in Seq(ScopeType) /\ Len(Append(scopes, h)) = Len(scopes) + 1
        /\ Append(scopes, h)[Len(scopes) + 1] = h
        /\ \A i \in 1 .. Len(scopes) : Append(scopes, h)[i] = scopes[i]
    BY <1>1, <1>10, AppendProperties
  <2> QED
    BY <1>11, <1>12, <2>1
<1>14. SameScopes(scopes, sd, 1)
  BY <1>13 DEF SameScopes
<1>15. Mirrored(<<>>, scopes, lists)
  BY <1>1
<1>16. sd[2].vars = e /\ sd[2].typedefs = <<>> /\ sd[2].enums = <<>>
  BY <1>10, <1>13
<1>17. Mirrored(<<f>>, sd, f.body)
  BY <1>1, <1>3, <1>7, <1>8, <1>13, <1>14, <1>15, <1>16, MirrorBegin
<1>18. lists' = f.body /\ frames' = <<f>> /\ scopes' = sd /\ fresh' = fresh + params
       /\ uses' = uses /\ switch' = Absent /\ loop' = Absent
  BY <1>2, <1>4, <1>7, <1>9, <1>11 DEF BeginFunction, Step
<1>19. frames' \in Seq(FrameType)
  BY <1>6, <1>18, Single
<1>20. lists' \in ListsType /\ scopes' \in Seq(ScopeType) /\ Mirrored(frames', scopes', lists')
  BY <1>5, <1>7, <1>13, <1>17, <1>18
<1>21. fresh' \in Nat \ {0} /\ switch' \in Int /\ loop' \in Int
  BY <1>0, <1>1, <1>18 DEF Absent
<1> QED
  BY <1>1, <1>18, <1>19, <1>20, <1>21 DEF Base

LEMMA ClosedFacts ==
  ASSUME scopes \in Seq(ScopeType), NEW n \in Nat \ {0, 1, 2}, Len(scopes) = n
  PROVE  Closed \in Seq(ScopeType) /\ Len(Closed) = n - 2 /\ SameScopes(scopes, Closed, n - 2)
<1>1. PICK k \in Nat \ {0} : k = n - 2
  OBVIOUS
<1>2. PICK s : s = SubSeq(scopes, 1, k)
  OBVIOUS
<1>3. s \in Seq(ScopeType) /\ Len(s) = k /\ \A i \in 1 .. k : s[i] = scopes[i]
  <2>1. 1 \in Int /\ k \in Int /\ 1 <= k /\ (k - 1) + 1 = k /\ \A i \in 1 .. k : (1 + i) - 1 = i
    BY <1>1
  <2>2. \A i \in 1 .. k : scopes[i] \in ScopeType
    <3>1. \A i \in 1 .. k : i \in 1 .. Len(scopes)
      BY <1>1
    <3> QED
      BY <3>1, ElementOfSeq
  <2>3. /\ SubSeq(scopes, 1, k) \in Seq(ScopeType) /\ Len(SubSeq(scopes, 1, k)) = (IF 1 <= k THEN k - 1 + 1 ELSE 0)
        /\ \A i \in 1 .. k - 1 + 1 : SubSeq(scopes, 1, k)[i] = scopes[1 + i - 1]
    BY <2>1, <2>2, SubSeqProperties
  <2> QED
    BY <1>2, <2>1, <2>3
<1>4. PICK t \in Seq(E) : t = scopes[k + 1].tags
  <2>1. k + 1 \in 1 .. Len(scopes)
    BY <1>1
  <2> QED
    BY <2>1, ScopeFields
<1>5. k \in 1 .. Len(s)
  BY <1>3
<1>6. PICK c \in ScopeType : c = s[k]
  BY <1>3, <1>5, ElementOfSeq
<1>7. PICK r : r = [c EXCEPT !.tags = t \o @]
  OBVIOUS
<1>8. r \in ScopeType /\ r.vars = c.vars /\ r.typedefs = c.typedefs /\ r.enums = c.enums
  <2>1. t \o c.tags \in Seq(E)
    BY ConcatProperties DEF ScopeType
  <2> QED
    BY <1>7, <2>1 DEF ScopeType
<1>9. Closed = [s EXCEPT ![k] = r]
  <2>1. Closed = [SubSeq(scopes, 1, k) EXCEPT ![k].tags = scopes[k + 1].tags \o @]
    BY <1>1 DEF Closed
  <2>2. Closed = [s EXCEPT ![k].tags = t \o @]
    BY <1>2, <1>4, <2>1
  <2> QED
    BY <1>6, <1>7, <2>2
<1>10. PICK sd : sd = Closed
  OBVIOUS
<1>11. sd \in Seq(ScopeType) /\ Len(sd) = Len(s) /\ sd[k] = r /\ \A i \in 1 .. Len(s) : i # k => sd[i] = s[i]
  BY <1>3, <1>5, <1>8, <1>9, <1>10, Replaced
<1>12. SameScopes(scopes, sd, k)
  <2>1. SUFFICES ASSUME NEW i \in 1 .. k
                 PROVE  sd[i].vars = scopes[i].vars /\ sd[i].typedefs = scopes[i].typedefs /\ sd[i].enums = scopes[i].enums
    BY DEF SameScopes
  <2>2. CASE i = k
    BY <1>3, <1>6, <1>8, <1>11, <2>2
  <2>3. CASE i # k
    BY <1>3, <1>11, <2>3
  <2> QED
    BY <2>2, <2>3
<1> QED
  BY <1>1, <1>3, <1>10, <1>11, <1>12

LEMMA RestoredFacts ==
  ASSUME NEW f \in FrameType, NEW sc, NEW i, FrameMirrors(f, sc, i)
  PROVE  Restored(f) \in ListsType /\ SameNames(Restored(f), f.before)
<1>1. f.before \in ListsType /\ f.body \in ListsType /\ f.kind \in Kinds \ {"fn"}
  BY DEF FrameType, FrameMirrors
<1>2. CASE f.kind \in {"block", "expr", "fn"}
  <2>1. Restored(f) = f.body
    BY <1>2 DEF Restored
  <2>2. f.body.locals = f.before.locals /\ f.body.typedefs = f.before.typedefs /\ f.body.enums = f.before.enums
    BY <1>1, <1>2 DEF FrameMirrors
  <2> QED
    BY <1>1, <2>1, <2>2 DEF SameNames
<1>3. CASE f.kind = "for"
  <2>1. Restored(f) = [f.before EXCEPT !.tags = f.body.tags]
    BY <1>3 DEF Restored
  <2> QED
    BY <1>1, <2>1 DEF SameNames, ListsType
<1>4. CASE f.kind \notin {"block", "expr", "fn", "for"}
  <2>1. Restored(f) = [f.body EXCEPT !.enums = f.before.enums]
    BY <1>4 DEF Restored
  <2>2. f.body.locals = f.before.locals /\ f.body.typedefs = f.before.typedefs
    BY <1>4 DEF FrameMirrors
  <2> QED
    BY <1>1, <2>1, <2>2 DEF SameNames, ListsType
<1> QED
  BY <1>2, <1>3, <1>4

LEMMA LastFacts ==
  ASSUME NEW V, NEW s \in Seq(V), NEW m \in Nat \ {0}, Len(s) = m
  PROVE  Last(s) = s[m] /\ s[m] \in V
<1>1. m \in 1 .. Len(s)
  OBVIOUS
<1> QED
  BY <1>1, ElementOfSeq DEF Last

LEMMA BaseClose ==
  ASSUME Base, Close
  PROVE  Base'
<1>1. /\ fresh \in Nat \ {0} /\ lists \in ListsType /\ scopes \in Seq(ScopeType) /\ frames \in Seq(FrameType)
      /\ Mirrored(frames, scopes, lists) /\ uses \in Programs
  BY DEF Base
<1>2. PICK m \in Nat : Len(frames) = m
  BY <1>1, Empty
<1>3. m \in Nat \ {0, 1}
  BY <1>2 DEF Close
<1>4. Len(scopes) = 2 * m
  <2>1. Level(frames) = 2 * m
    BY <1>1, <1>2, <1>3, LevelFacts
  <2> QED
    BY <1>1, <2>1 DEF Mirrored
<1>5. PICK f \in FrameType : f = frames[m] /\ f = Last(frames)
  <2>1. m \in Nat \ {0}
    BY <1>3
  <2> QED
    BY <1>1, <1>2, <2>1, LastFacts
<1>6. lists' = Restored(f) /\ switch' = f.switch /\ loop' = f.loop /\ scopes' = Closed /\ frames' = Front(frames)
      /\ fresh' = fresh /\ uses' = uses
  BY <1>5 DEF Close, Step
<1>7. FrameMirrors(f, scopes, m)
  <2>1. m \in 2 .. Len(frames)
    BY <1>2, <1>3
  <2> QED
    BY <1>1, <1>5, <2>1 DEF Mirrored
<1>8. Restored(f) \in ListsType /\ SameNames(Restored(f), frames[m].before)
  BY <1>5, <1>7, RestoredFacts
<1>9. Closed \in Seq(ScopeType) /\ Len(Closed) = 2 * m - 2 /\ SameScopes(scopes, Closed, 2 * m - 2)
  <2>1. 2 * m \in Nat \ {0, 1, 2}
    BY <1>3
  <2> QED
    BY <1>1, <1>4, <2>1, ClosedFacts
<1>10. Mirrored(Front(frames), Closed, Restored(f))
  BY <1>1, <1>2, <1>3, <1>8, <1>9, MirrorClose
<1>11. Front(frames) \in Seq(FrameType)
  <2>1. m \in Nat \ {0}
    BY <1>3
  <2> QED
    BY <1>1, <1>2, <2>1, FrontFacts
<1>12. f.switch \in Int /\ f.loop \in Int
  BY DEF FrameType
<1>13. Mirrored(frames', scopes', lists')
  BY <1>6, <1>10
<1>14. /\ uses' \in Programs /\ fresh' \in Nat \ {0} /\ switch' \in Int /\ loop' \in Int
       /\ frames' \in Seq(FrameType) /\ lists' \in ListsType /\ scopes' \in Seq(ScopeType)
  BY <1>1, <1>6, <1>8, <1>9, <1>11, <1>12
<1> QED
  BY <1>13, <1>14 DEF Base

LEMMA BaseEndFunction ==
  ASSUME Base, EndFunction
  PROVE  Base'
<1>1. /\ fresh \in Nat \ {0} /\ lists \in ListsType /\ scopes \in Seq(ScopeType) /\ frames \in Seq(FrameType)
      /\ Mirrored(frames, scopes, lists) /\ uses \in Programs /\ switch \in Int /\ loop \in Int
  BY DEF Base
<1>2. Len(frames) = 1 /\ 1 \in Nat /\ 1 \in Nat \ {0}
  BY DEF EndFunction
<1>3. Len(scopes) = 2
  <2>1. Level(frames) = 2 * 1
    BY <1>1, <1>2, LevelFacts
  <2> QED
    BY <1>1, <2>1 DEF Mirrored
<1>4. frames # <<>>
  BY <1>2, Empty
<1>5. PICK f \in FrameType : f = frames[1] /\ f = Last(frames)
  BY <1>1, <1>2, LastFacts
<1>6. lists' = Restored(f) /\ frames' = <<>> /\ scopes' = Front(scopes) /\ fresh' = fresh /\ uses' = uses
      /\ switch' = switch /\ loop' = loop
  BY <1>5 DEF EndFunction
<1>7. f.kind = "fn" /\ f.body.typedefs = FlatTo(scopes, "typedefs", 1) /\ f.body.enums = FlatTo(scopes, "enums", 1)
  BY <1>1, <1>4, <1>5 DEF Mirrored, OuterMirrors
<1>8. Restored(f) = f.body /\ f.body \in ListsType
  BY <1>7 DEF Restored, FrameType
<1>9. PICK sd : sd = Front(scopes)
  OBVIOUS
<1>10. sd \in Seq(ScopeType) /\ Len(sd) = 1 /\ sd[1] = scopes[1]
  <2>1. 2 \in Nat \ {0} /\ 2 - 1 = 1 /\ 1 \in 1 .. 2 - 1
    OBVIOUS
  <2> QED
    BY <1>1, <1>3, <1>9, <2>1, FrontFacts
<1>11. SameScopes(scopes, sd, 1)
  BY <1>10 DEF SameScopes
<1>12. FlatTo(sd, "typedefs", 1) = FlatTo(scopes, "typedefs", 1) /\ FlatTo(sd, "enums", 1) = FlatTo(scopes, "enums", 1)
  <2>1. 1 \in 0 .. 1
    OBVIOUS
  <2> QED
    BY <1>2, <1>11, <2>1, FlatKept
<1>13. sd[1].vars = <<>>
  BY <1>1, <1>10 DEF Mirrored
<1>14. Mirrored(<<>>, sd, f.body)
  BY <1>7, <1>10, <1>12, <1>13, MirrorOuter
<1>15. Mirrored(frames', scopes', lists')
  BY <1>6, <1>8, <1>9, <1>14
<1>16. frames' \in Seq(FrameType)
  BY <1>6, Empty
<1>17. /\ uses' \in Programs /\ fresh' \in Nat \ {0} /\ switch' \in Int /\ loop' \in Int
       /\ lists' \in ListsType /\ scopes' \in Seq(ScopeType)
  BY <1>1, <1>6, <1>8, <1>9, <1>10
<1> QED
  BY <1>15, <1>16, <1>17 DEF Base

Idle == UNCHANGED <<uses, lists, frames, scopes, switch, loop, fresh>>

LEMMA BaseIdle ==
  ASSUME Base, Idle
  PROVE  Base'
<1>1. /\ uses' = uses /\ lists' = lists /\ frames' = frames /\ scopes' = scopes /\ switch' = switch /\ loop' = loop
      /\ fresh' = fresh
  BY DEF Idle
<1>2. Mirrored(frames', scopes', lists')
  BY <1>1 DEF Base
<1> QED
  BY <1>1, <1>2 DEF Base

LEMMA BaseInit == Init => Base
<1> SUFFICES ASSUME Init PROVE Base
  OBVIOUS
<1>1. <<>> \in Seq(E) /\ <<>> \in Seq(FrameType)
  BY Empty
<1>2. lists \in ListsType /\ lists.typedefs = <<>> /\ lists.enums = <<>>
  BY <1>1 DEF Init, ListsType
<1>3. scopes = <<NoScope>> /\ frames = <<>> /\ uses \in Programs /\ fresh = 1 /\ switch = Absent /\ loop = Absent
  BY DEF Init
<1>4. scopes \in Seq(ScopeType) /\ Len(scopes) = 1 /\ scopes[1] = NoScope
  BY <1>3, NoScopeTyped, Single
<1>5. NoScope.vars = <<>> /\ NoScope.typedefs = <<>> /\ NoScope.enums = <<>>
  BY DEF NoScope
<1>6. 1 \in Nat \ {0} /\ 1 - 1 = 0
  OBVIOUS
<1>7. <<>> \o <<>> = <<>>
  BY <1>1, ConcatEmptySeq
<1>8. FlatTo(scopes, "typedefs", 1) = <<>>
  <2>1. FlatTo(scopes, "typedefs", 1) = scopes[1]["typedefs"] \o FlatTo(scopes, "typedefs", 1 - 1)
    BY <1>6, FlatStep
  <2>2. FlatTo(scopes, "typedefs", 0) = <<>>
    BY FlatNil
  <2> QED
    BY <1>4, <1>5, <1>6, <1>7, <2>1, <2>2
<1>9. FlatTo(scopes, "enums", 1) = <<>>
  <2>1. FlatTo(scopes, "enums", 1) = scopes[1]["enums"] \o FlatTo(scopes, "enums", 1 - 1)
    BY <1>6, FlatStep
  <2>2. FlatTo(scopes, "enums", 0) = <<>>
    BY FlatNil
  <2> QED
    BY <1>4, <1>5, <1>6, <1>7, <2>1, <2>2
<1>10. Mirrored(<<>>, scopes, lists)
  BY <1>2, <1>4, <1>5, <1>8, <1>9, MirrorOuter
<1>11. Mirrored(frames, scopes, lists)
  BY <1>3, <1>10
<1> QED
  BY <1>1, <1>2, <1>3, <1>4, <1>11 DEF Base, Absent

LEMMA BaseNext == Base /\ [Next]_vars => Base'
<1> SUFFICES ASSUME Base, [Next]_vars PROVE Base'
  OBVIOUS
<1>1. ASSUME NEW d \in VarDecls \cup OtherDecls, Declare(d) PROVE Base'
  BY <1>1, BaseDeclare
<1>2. ASSUME NEW d \in VarDecls \cup OtherDecls, DeclareGlobal(d) PROVE Base'
  BY <1>2, BaseDeclareGlobal
<1>3. ASSUME NEW n \in 0 .. MaxParams, BeginFunction(n) PROVE Base'
  BY <1>3, BaseBegin
<1>4. ASSUME NEW kind \in uses.kinds, Open(kind) PROVE Base'
  BY <1>4, BaseOpen
<1>5. ASSUME NEW kind \in uses.kinds, NEW d \in HeadDecls(kind), OpenHead(kind, d) PROVE Base'
  BY <1>5, BaseOpenHead
<1>6. CASE Close
  BY <1>6, BaseClose
<1>7. CASE EndFunction
  BY <1>7, BaseEndFunction
<1>8. CASE Break
  BY <1>8, BaseIdle DEF Break, Step, parser, Idle
<1>9. CASE Continue
  BY <1>9, BaseIdle DEF Continue, Step, parser, Idle
<1>10. CASE Return
  BY <1>10, BaseIdle DEF Return, Step, parser, Idle
<1>11. ASSUME NEW l \in Labels, Goto(l) PROVE Base'
  BY <1>11, BaseIdle DEF Goto, Step, parser, Idle
<1>12. ASSUME NEW l \in Labels, LocalLabel(l) PROVE Base'
  BY <1>12, BaseIdle DEF LocalLabel, Step, Idle
<1>13. ASSUME NEW l \in Labels, LabelStmt(l) PROVE Base'
  BY <1>13, BaseIdle DEF LabelStmt, Step, Idle
<1>14. CASE UNCHANGED vars
  BY <1>14, BaseIdle DEF vars, parser, Idle
<1> QED
  BY <1>1, <1>2, <1>3, <1>4, <1>5, <1>6, <1>7, <1>8, <1>9, <1>10, <1>11, <1>12, <1>13, <1>14 DEF Next

LEMMA BaseAlways == Spec => []Base
<1> QED
  BY BaseInit, BaseNext, PTL DEF Spec

(* What a name finds in a list.                                            *)
LEMMA MinIn == ASSUME NEW S, S \subseteq Nat, S # {} PROVE Min(S) \in S /\ \A y \in S : Min(S) <= y
<1>1. IsWellFoundedOn(Less, Nat)
  BY LessFounded
<1>2. PICK x \in S : \A y \in S : ~(<<y, x>> \in Less)
  BY <1>1, WFMin
<1>3. \A y \in S : x <= y
  <2>1. SUFFICES ASSUME NEW y \in S PROVE x <= y
    OBVIOUS
  <2>2. ~(<<y, x>> \in Less) /\ x \in Nat /\ y \in Nat
    BY <1>2
  <2>3. ~(y < x)
    BY <2>2 DEF Less
  <2> QED
    BY <2>2, <2>3
<1> QED
  BY <1>2, <1>3 DEF Min

LEMMA FirstTyped == ASSUME NEW l \in Seq(E), NEW n PROVE First(l, n) \in Nat
<1> DEFINE f == {i \in DOMAIN l : l[i].name = n}
<1>1. CASE f = {}
  BY <1>1 DEF First, NULL
<1>2. CASE f # {}
  <2>1. DOMAIN l = 1 .. Len(l) /\ Len(l) \in Nat
    BY LenProperties
  <2>2. f \subseteq Nat
    BY <2>1
  <2>3. Min(f) \in f
    BY <1>2, <2>2, MinIn
  <2>4. l[Min(f)] \in E
    BY <2>1, <2>3, ElementOfSeq
  <2>5. First(l, n) = l[Min(f)].id
    BY <1>2 DEF First
  <2> QED
    BY <2>4, <2>5, EntryId
<1> QED
  BY <1>1, <1>2

LEMMA BaseNames == Base => InnermostName
<1> SUFFICES ASSUME Base, InFunction, NEW n \in Names, Visible(n) # {}
             PROVE  \/ Find(n) = Max(Visible(n))
                    \/ Find(n) \in {First(Flat("typedefs"), n), First(Flat("enums"), n)} \ {NULL}
  BY DEF InnermostName
<1>1. lists.locals = Flat("vars") /\ lists.typedefs = Flat("typedefs") /\ lists.enums = Flat("enums")
  BY DEF Base, Mirrored, ListsMirror, InFunction, Flat
<1>2. lists.locals \in Seq(E)
  BY DEF Base, ListsType
<1>3. PICK a : a = First(lists.typedefs, n)
  OBVIOUS
<1>4. PICK b : b = First(lists.enums, n)
  OBVIOUS
<1>5. PICK c \in Nat : c = First(lists.locals, n)
  BY <1>2, FirstTyped
<1>6. Visible(n) = {a, b, c} \ {NULL}
  BY <1>1, <1>3, <1>4, <1>5 DEF Visible, InScope
<1>7. Find(n) = IF a # NULL THEN a ELSE IF b # NULL THEN b ELSE c
  BY <1>3, <1>4, <1>5 DEF Find
<1>8. First(Flat("typedefs"), n) = a /\ First(Flat("enums"), n) = b
  BY <1>1, <1>3, <1>4
<1>9. CASE a = NULL /\ b = NULL
  <2>1. Visible(n) = {c}
    BY <1>6, <1>9
  <2>2. Max({c}) = c
    BY DEF Max
  <2> QED
    BY <1>7, <1>9, <2>1, <2>2
<1> QED
  BY <1>7, <1>8, <1>9

(* A name means its innermost declaration: what primary() finds in the     *)
(* lists of typedefs, enum_consts and locals is the newest entry in scope, *)
(* since compound_stmt_ex() and stmt() put back what was saved and nothing *)
(* else is removed; but for the kinds a variable does not hide.            *)
THEOREM NamesAreInnermost == Spec => []InnermostName
<1> QED
  BY BaseAlways, BaseNames, PTL

-----------------------------------------------------------------------------
(* The lists of locals of a function share their tails: T is the list that *)
(* begins with each entry.  A label announced by __label__ and not seen yet*)
(* has only what its block and those around it declare in scope.           *)
LabelledType == [seen : BOOLEAN, vars : Seq(E), depth : Nat]
PendingType ==
  [kind : {"return", "goto"}, cleaned : Seq(Nat), due : Seq(Nat), begin : Seq(E), end : Nat, from : Seq(E),
   label : Labels \cup {"none"}, late : BOOLEAN]

Awaited(l) == labels[l] # Absent /\ ~labelled[l].seen
Held(T, l) ==
  /\ labelled[l].depth \in 1 .. Len(frames)
  /\ ToSet(ListAt(T, labels[l])) \subseteq ToSet(FlatTo(scopes, "vars", 2 * labelled[l].depth))
LabelOK(T, l) ==
  /\ labels[l] \in -1 .. fresh - 1 /\ Chain(labelled[l].vars, T, fresh)
  /\ labelled[l].seen => labels[l] = Ptr(labelled[l].vars)
  /\ Awaited(l) => Held(T, l)
GotoOK(T, j) ==
  /\ j.label \in Labels /\ j.from = j.begin
  /\ ~labelled[j.label].seen /\ ~j.late => labels[j.label] # Absent /\ j.end = labels[j.label]
  /\ labelled[j.label].seen => /\ ToSet(ListAt(T, j.end)) \subseteq ToSet(labelled[j.label].vars)
                               /\ labelled[j.label].depth = 0 => j.end = Ptr(labelled[j.label].vars)
JumpOK(T, j) == Chain(j.begin, T, fresh) /\ j.end \in 0 .. fresh - 1 /\ (j.kind = "goto" => GotoOK(T, j))

Sharing(T) ==
  /\ T \in [Nat -> Seq(E)] /\ labels \in [Labels -> Int] /\ labelled \in [Labels -> LabelledType]
  /\ pending \in SUBSET PendingType /\ fnScope \in 0 .. fresh - 1
  /\ frames # <<>> => Chain(lists.locals, T, fresh)
  /\ \A l \in Labels : LabelOK(T, l)
  /\ \A j \in pending : JumpOK(T, j)

LEMMA ChainExtends ==
  ASSUME NEW T, NEW U, NEW n \in Nat \ {0}, NEW m \in Nat, n <= m, Extends(T, U, n), NEW l, Chain(l, T, n)
  PROVE  Chain(l, U, m)
<1>0. l \in Seq(E)
  BY DEF Chain
<1>1. \A i \in 1 .. Len(l) : l[i].id < m
  <2>1. SUFFICES ASSUME NEW i \in 1 .. Len(l) PROVE l[i].id < m
    OBVIOUS
  <2>2. l[i].id < n /\ l[i] \in E
    BY <1>0, ElementOfSeq DEF Chain
  <2>3. PICK x \in Nat : x = l[i].id
    BY <2>2, EntryId
  <2>4. x < n
    BY <2>2, <2>3
  <2>5. x < m
    BY <2>4
  <2> QED
    BY <2>3, <2>5
<1>2. ASSUME NEW p \in Seq(E), NEW s \in Seq(E), l = p \o s PROVE s = ListAt(U, Ptr(s))
  <2>1. Chain(p \o s, T, n)
    BY <1>2
  <2>2. Chain(s, T, n) /\ s = ListAt(T, Ptr(s))
    BY <2>1, ChainTail
  <2>3. Ptr(s) \in 0 .. n - 1
    BY <2>2, ChainBelow
  <2>4. ListAt(U, Ptr(s)) = ListAt(T, Ptr(s))
    BY <2>3 DEF Extends
  <2> QED
    BY <2>2, <2>4
<1> QED
  BY <1>0, <1>1, <1>2 DEF Chain

LEMMA SetJoin ==
  ASSUME NEW x \in Seq(E), NEW l \in Seq(E)
  PROVE  ToSet(l) \subseteq ToSet(x \o l)
<1>1. PICK m \in Nat : m = Len(x)
  BY Empty
<1>2. PICK n \in Nat : n = Len(l)
  BY Empty
<1>3. PICK k \in Seq(E) : k = x \o l
  BY ConcatProperties
<1>4. Len(k) = m + n /\ \A i \in 1 .. n : k[m + i] = l[i]
  BY <1>1, <1>2, <1>3, Joined
<1>5. ToSet(l) = {l[i] : i \in 1 .. Len(l)} /\ ToSet(k) = {k[i] : i \in 1 .. Len(k)}
  BY SeqSet
<1>6. \A i \in 1 .. n : m + i \in 1 .. m + n
  OBVIOUS
<1>7. SUFFICES ASSUME NEW i \in 1 .. n PROVE l[i] \in ToSet(k)
  BY <1>2, <1>3, <1>5
<1>8. l[i] = k[m + i] /\ m + i \in 1 .. Len(k)
  BY <1>4, <1>6
<1> QED
  BY <1>5, <1>8

(* The locals at a level are the end of those at a higher one.             *)
LEMMA LocalsEnd ==
  ASSUME NEW sc \in Seq(ScopeType), NEW n \in Nat, Len(sc) = n, NEW m \in 0 .. n
  PROVE  /\ FlatTo(sc, "vars", n) \in Seq(E) /\ FlatTo(sc, "vars", m) \in Seq(E)
         /\ EndsWith(FlatTo(sc, "vars", n), FlatTo(sc, "vars", m))
<1>1. \A i \in 1 .. n : sc[i]["vars"] \in Seq(E)
  BY ScopeFields
<1>2. n \in 0 .. n
  OBVIOUS
<1>3. \A i \in 0 .. n : FlatTo(sc, "vars", i) \in Seq(E)
  BY <1>1, FlatTyped
<1>4. \E x \in Seq(E) : FlatTo(sc, "vars", n) = x \o FlatTo(sc, "vars", m)
  BY <1>1, FlatEnds
<1> QED
  BY <1>2, <1>3, <1>4 DEF EndsWith

(* What a step that is not about labels keeps of them.                     *)
LabelKept(l) ==
  /\ labels'[l] = labels[l]
  /\ labelled'[l].seen = labelled[l].seen /\ labelled'[l].vars = labelled[l].vars
  /\ \/ labelled'[l].depth = labelled[l].depth
     \/ labelled[l].seen /\ labelled[l].depth # 0 /\ labelled'[l].depth # 0
Room(l) ==
  Awaited(l) =>
    /\ labelled[l].depth \in 1 .. Len(frames')
    /\ ToSet(FlatTo(scopes, "vars", 2 * labelled[l].depth)) \subseteq ToSet(FlatTo(scopes', "vars", 2 * labelled[l].depth))

LEMMA LabelStays ==
  ASSUME Base, NEW T, Sharing(T), NEW U, Extends(T, U, fresh), fresh' \in Nat \ {0}, fresh <= fresh',
         NEW l \in Labels, LabelKept(l), Room(l)
  PROVE  LabelOK(U, l)'
<1>1. fresh \in Nat \ {0} /\ LabelOK(T, l) /\ fresh' \in Nat
  BY DEF Base, Sharing
<1>2. labels'[l] \in -1 .. fresh' - 1
  BY <1>1 DEF LabelOK, LabelKept
<1>3. Chain(labelled'[l].vars, U, fresh')
  <2>1. Chain(labelled[l].vars, U, fresh')
    BY <1>1, ChainExtends DEF LabelOK
  <2> QED
    BY <2>1 DEF LabelKept
<1>4. labelled'[l].seen => labels'[l] = Ptr(labelled'[l].vars)
  BY <1>1 DEF LabelOK, LabelKept
<1>5. ASSUME labels'[l] # Absent, ~labelled'[l].seen
      PROVE  /\ labelled'[l].depth \in 1 .. Len(frames')
             /\ ToSet(ListAt(U, labels'[l])) \subseteq ToSet(FlatTo(scopes', "vars", 2 * labelled'[l].depth))
  <2>1. Awaited(l) /\ labelled'[l].depth = labelled[l].depth /\ labels'[l] = labels[l]
    BY <1>5 DEF LabelKept, Awaited
  <2>2. ToSet(ListAt(T, labels[l])) \subseteq ToSet(FlatTo(scopes, "vars", 2 * labelled[l].depth))
    BY <1>1, <2>1 DEF LabelOK, Held
  <2>3. ListAt(U, labels[l]) = ListAt(T, labels[l])
    <3>1. labels[l] \in 0 .. fresh - 1
      BY <1>1, <2>1 DEF LabelOK, Awaited, Absent
    <3> QED
      BY <3>1 DEF Extends
  <2>4. /\ labelled[l].depth \in 1 .. Len(frames')
        /\ ToSet(FlatTo(scopes, "vars", 2 * labelled[l].depth)) \subseteq ToSet(FlatTo(scopes', "vars", 2 * labelled[l].depth))
    BY <2>1 DEF Room
  <2>5. ToSet(ListAt(U, labels[l])) \subseteq ToSet(FlatTo(scopes', "vars", 2 * labelled[l].depth))
    BY <2>2, <2>3, <2>4
  <2> QED
    BY <2>1, <2>4, <2>5
<1> QED
  BY <1>2, <1>3, <1>4, <1>5 DEF LabelOK, Awaited, Held, Absent

LEMMA JumpStays ==
  ASSUME Base, NEW T, Sharing(T), NEW U, Extends(T, U, fresh), fresh' \in Nat \ {0}, fresh <= fresh',
         NEW j \in pending, \A l \in Labels : LabelKept(l)
  PROVE  JumpOK(U, j)'
<1>1. fresh \in Nat \ {0} /\ JumpOK(T, j) /\ fresh' \in Nat
  BY DEF Base, Sharing
<1>2. Chain(j.begin, U, fresh')
  BY <1>1, ChainExtends DEF JumpOK
<1>3. j.end \in 0 .. fresh' - 1
  BY <1>1 DEF JumpOK
<1>4. ASSUME j.kind = "goto" PROVE GotoOK(U, j)'
  <2>1. GotoOK(T, j) /\ LabelKept(j.label)
    BY <1>1, <1>4 DEF JumpOK, GotoOK
  <2>2. ListAt(U, j.end) = ListAt(T, j.end)
    BY <1>1 DEF JumpOK, Extends
  <2>3. j.label \in Labels /\ j.from = j.begin
    BY <2>1 DEF GotoOK
  <2>4. ~labelled'[j.label].seen /\ ~j.late => labels'[j.label] # Absent /\ j.end = labels'[j.label]
    BY <2>1 DEF GotoOK, LabelKept
  <2>5. ASSUME labelled'[j.label].seen
        PROVE  /\ ToSet(ListAt(U, j.end)) \subseteq ToSet(labelled'[j.label].vars)
               /\ labelled'[j.label].depth = 0 => j.end = Ptr(labelled'[j.label].vars)
    BY <2>1, <2>2, <2>5 DEF GotoOK, LabelKept
  <2> QED
    BY <2>3, <2>4, <2>5 DEF GotoOK, Absent
<1> QED
  BY <1>2, <1>3, <1>4 DEF JumpOK

LEMMA SharingStays ==
  ASSUME Base, NEW T, Sharing(T), NEW U \in [Nat -> Seq(E)], Extends(T, U, fresh), fresh' \in Nat \ {0}, fresh <= fresh',
         labels' = labels, labelled' \in [Labels -> LabelledType], pending' \subseteq pending,
         fnScope' \in 0 .. fresh' - 1, frames' # <<>> => Chain(lists'.locals, U, fresh'),
         \A l \in Labels : LabelKept(l), \A l \in Labels : Room(l)
  PROVE  Sharing(U)'
<1>1. \A l \in Labels : LabelOK(U, l)'
  BY LabelStays
<1>2. \A j \in pending' : JumpOK(U, j)'
  BY JumpStays
<1>3. labels' \in [Labels -> Int] /\ pending' \in SUBSET PendingType
  BY DEF Sharing
<1> QED
  BY <1>1, <1>2, <1>3 DEF Sharing

LEMMA LevelNow ==
  ASSUME NEW fr \in Seq(FrameType), NEW m \in Nat \ {0}, Len(fr) = m, NEW sc, NEW ls, Mirrored(fr, sc, ls)
  PROVE  fr # <<>> /\ Len(sc) = 2 * m /\ ls.locals = FlatTo(sc, "vars", 2 * m)
<1>1. Level(fr) = 2 * m /\ fr # <<>>
  BY LevelFacts
<1> QED
  BY <1>1 DEF Mirrored, ListsMirror

LEMMA ExtendsSelf == ASSUME NEW T, NEW n PROVE Extends(T, T, n)
BY DEF Extends

LEMMA LabelsSame ==
  ASSUME labels' = labels, labelled' = labelled
  PROVE  \A l \in Labels : LabelKept(l)
BY DEF LabelKept

(* A declaration begins a new list.                                        *)
NewLists(T, d) ==
  \E U \in [Nat -> Seq(E)] : Extends(T, U, fresh) /\ Chain(Declared(d).locals, U, fresh + 1)
LEMMA NewChain ==
  ASSUME Base, frames # <<>>, NEW T, Sharing(T), NEW d, DeclType(d)
  PROVE  NewLists(T, d)
<1>1. fresh \in Nat \ {0} /\ lists \in ListsType /\ T \in [Nat -> Seq(E)] /\ Chain(lists.locals, T, fresh)
  BY DEF Base, Sharing
<1>2. fresh + 1 \in Nat /\ fresh <= fresh + 1
  BY <1>1
<1>3. Declared(d).locals = AddedVars(d) \o lists.locals
  BY <1>1, DeclaredFacts DEF Grow
<1>4. CASE d.space = "var"
  <2>1. PICK e \in E : e = Entry(d.name, d.sort) /\ e.id = fresh
    BY <1>1, <1>4, EntryTyped DEF DeclType
  <2>2. Declared(d).locals = <<e>> \o lists.locals
    BY <1>3, <1>4, <2>1 DEF AddedVars
  <2>3. PICK l \in Seq(E) : l = <<e>> \o lists.locals
    BY <1>1, Single, ConcatProperties DEF ListsType
  <2>4. PICK U : U = [T EXCEPT ![fresh] = l]
    OBVIOUS
  <2>5. U \in [Nat -> Seq(E)]
    BY <1>1, <2>4
  <2>6. Extends(T, U, fresh)
    <3>1. fresh \in Nat
      BY <1>1
    <3> QED
      BY <1>1, <2>4, <3>1, ListAtKept
  <2>7. Chain(l, U, fresh + 1)
    BY <1>1, <2>1, <2>3, <2>4, ChainPush
  <2> QED
    BY <2>2, <2>3, <2>5, <2>6, <2>7 DEF NewLists
<1>5. CASE d.space # "var"
  <2>1. Declared(d).locals = lists.locals
    <3>1. <<>> \o lists.locals = lists.locals
      BY <1>1, ConcatEmptySeq DEF ListsType
    <3> QED
      BY <1>3, <1>5, <3>1 DEF AddedVars
  <2>2. Extends(T, T, fresh)
    BY ExtendsSelf
  <2>3. Chain(lists.locals, T, fresh + 1)
    BY <1>1, <1>2, <2>2, ChainExtends
  <2> QED
    BY <1>1, <2>1, <2>2, <2>3 DEF NewLists
<1> QED
  BY <1>4, <1>5

Shared == \E T : Sharing(T)

LEMMA Above ==
  ASSUME NEW n \in Nat \ {0}, NEW x \in 0 .. n - 1, NEW y, y = x \/ y = n
  PROVE  y \in 0 .. (n + 1) - 1
OBVIOUS

LEMMA SharedDeclare ==
  ASSUME Base, NEW T, Sharing(T), NEW d \in VarDecls \cup OtherDecls, Declare(d)
  PROVE  Shared'
<1>1. /\ fresh \in Nat \ {0} /\ lists \in ListsType /\ scopes \in Seq(ScopeType) /\ frames \in Seq(FrameType)
      /\ Mirrored(frames, scopes, lists) /\ fnScope \in 0 .. fresh - 1
  BY DEF Base, Sharing
<1>2. DeclType(d)
  BY DeclTyped DEF Base
<1>3. frames # <<>> /\ lists' = Declared(d) /\ labels' = labels /\ labelled' = labelled /\ pending' = pending
      /\ frames' = frames /\ fresh' = fresh + 1
  BY DEF Declare, InFunction
<1>4. PICK U \in [Nat -> Seq(E)] : Extends(T, U, fresh) /\ Chain(Declared(d).locals, U, fresh + 1)
  BY <1>2, <1>3, NewChain DEF NewLists
<1>5. fnScope' \in 0 .. fresh' - 1
  <2>1. fnScope' = fnScope \/ fnScope' = fresh
    BY DEF Declare, FnScope, Entry
  <2>2. fnScope' \in 0 .. (fresh + 1) - 1
    BY <1>1, <2>1, Above
  <2> QED
    BY <1>3, <2>2
<1>6. PICK m \in Nat \ {0} : Len(frames) = m
  BY <1>1, <1>3, EmptySeq
<1>7. PICK n \in Nat \ {0} : n = 2 * m
  BY <1>6
<1>8. Len(scopes) = n /\ lists.locals = FlatTo(scopes, "vars", n)
  BY <1>1, <1>6, <1>7, LevelNow
<1>9. /\ scopes' \in Seq(ScopeType)
      /\ Adds(scopes, scopes', n, AddedVars(d), AddedTypedefs(d), AddedEnums(d))
  <2>1. scopes' = [scopes EXCEPT ![n] = Recorded(@, d)]
    BY <1>8 DEF Declare
  <2> QED
    BY <1>1, <1>2, <1>8, <2>1, DeclareAdds
<1>10. lists'.locals = FlatTo(scopes', "vars", n)
  <2>1. Base'
    BY BaseDeclare
  <2>2. Mirrored(frames, scopes', lists')
    BY <1>3, <2>1 DEF Base
  <2>3. lists'.locals = FlatTo(scopes', "vars", 2 * m)
    BY <1>1, <1>6, <2>2, LevelNow
  <2> QED
    BY <1>7, <2>3
<1>11. ASSUME NEW l \in Labels PROVE Room(l)
  <2>1. SUFFICES ASSUME Awaited(l)
                 PROVE  /\ labelled[l].depth \in 1 .. Len(frames')
                        /\ ToSet(FlatTo(scopes, "vars", 2 * labelled[l].depth))
                             \subseteq ToSet(FlatTo(scopes', "vars", 2 * labelled[l].depth))
    BY DEF Room
  <2>2. PICK k \in 1 .. m : k = labelled[l].depth
    BY <1>6, <2>1 DEF Sharing, LabelOK, Held
  <2>3. k \in 1 .. Len(frames')
    BY <1>3, <1>6
  <2>4. ToSet(FlatTo(scopes, "vars", 2 * k)) \subseteq ToSet(FlatTo(scopes', "vars", 2 * k))
    <3>1. CASE k = m
      <4>1. lists'.locals = AddedVars(d) \o lists.locals /\ AddedVars(d) \in Seq(E) /\ lists.locals \in Seq(E)
        BY <1>1, <1>2, <1>3, DeclaredFacts, Added DEF Grow, ListsType
      <4>2. ToSet(lists.locals) \subseteq ToSet(lists'.locals)
        BY <4>1, SetJoin
      <4> QED
        BY <1>7, <1>8, <1>10, <3>1, <4>2
    <3>2. CASE k # m
      <4>1. 2 * k \in 0 .. n - 1 /\ n - 1 \in Nat
        BY <1>7, <3>2
      <4>2. SameScopes(scopes, scopes', n - 1)
        BY <1>9 DEF Adds
      <4>3. FlatTo(scopes', "vars", 2 * k) = FlatTo(scopes, "vars", 2 * k)
        BY <4>1, <4>2, FlatKept
      <4> QED
        BY <4>3
    <3> QED
      BY <3>1, <3>2
  <2> QED
    BY <2>2, <2>3, <2>4
<1>12. \A l \in Labels : LabelKept(l)
  BY <1>3, LabelsSame
<1>13. fresh' \in Nat \ {0} /\ fresh <= fresh' /\ labelled' \in [Labels -> LabelledType] /\ pending' \subseteq pending
  <2>1. fresh + 1 \in Nat \ {0} /\ fresh <= fresh + 1
    BY <1>1
  <2>2. labelled \in [Labels -> LabelledType]
    BY DEF Sharing
  <2> QED
    BY <1>3, <2>1, <2>2
<1>14. Chain(lists'.locals, U, fresh')
  BY <1>3, <1>4
<1>15. Sharing(U)'
  BY <1>3, <1>4, <1>5, <1>11, <1>12, <1>13, <1>14, SharingStays
<1> QED
  BY <1>15 DEF Shared

LEMMA SharedDeclareGlobal ==
  ASSUME Base, NEW T, Sharing(T), NEW d \in VarDecls \cup OtherDecls, DeclareGlobal(d)
  PROVE  Shared'
<1>1. fresh \in Nat \ {0} /\ fnScope \in 0 .. fresh - 1 /\ T \in [Nat -> Seq(E)] /\ labelled \in [Labels -> LabelledType]
  BY DEF Base, Sharing
<1>2. frames = <<>> /\ labels' = labels /\ labelled' = labelled /\ pending' = {} /\ frames' = frames /\ fnScope' = fnScope
      /\ fresh' = fresh + 1
  BY DEF DeclareGlobal, InFunction
<1>3. \A l \in Labels : Room(l)
  <2>1. SUFFICES ASSUME NEW l \in Labels, Awaited(l) PROVE FALSE
    <3>1. ASSUME NEW l \in Labels, ~Awaited(l) PROVE Room(l)
      BY <3>1 DEF Room
    <3> QED
      BY <3>1
  <2>2. labelled[l].depth \in 1 .. Len(frames)
    BY <2>1 DEF Sharing, LabelOK, Held
  <2>3. Len(frames) = 0
    BY <1>2, Empty
  <2> QED
    BY <2>2, <2>3
<1>4. \A l \in Labels : LabelKept(l)
  BY <1>2, LabelsSame
<1>5. fresh' \in Nat \ {0} /\ fresh <= fresh' /\ labelled' \in [Labels -> LabelledType] /\ pending' \subseteq pending
      /\ fnScope' \in 0 .. fresh' - 1
  BY <1>1, <1>2
<1>6. Extends(T, T, fresh)
  BY ExtendsSelf
<1>7. Sharing(T)'
  BY <1>1, <1>2, <1>3, <1>4, <1>5, <1>6, SharingStays
<1> QED
  BY <1>7 DEF Shared

(* The steps that leave the scopes, the labels and the jumps as they are.  *)
LEMMA SharedIdle ==
  ASSUME Base, NEW T, Sharing(T), Idle, labels' = labels, labelled' = labelled, pending' = pending, fnScope' = fnScope
  PROVE  Shared'
<1>1. fresh \in Nat \ {0} /\ fnScope \in 0 .. fresh - 1 /\ T \in [Nat -> Seq(E)] /\ labelled \in [Labels -> LabelledType]
      /\ (frames # <<>> => Chain(lists.locals, T, fresh))
  BY DEF Base, Sharing
<1>2. lists' = lists /\ frames' = frames /\ scopes' = scopes /\ fresh' = fresh
  BY DEF Idle
<1>3. \A l \in Labels : Room(l)
  <2>1. SUFFICES ASSUME NEW l \in Labels, Awaited(l) PROVE labelled[l].depth \in 1 .. Len(frames)
    BY <1>2 DEF Room
  <2> QED
    BY <2>1 DEF Sharing, LabelOK, Held
<1>4. \A l \in Labels : LabelKept(l)
  BY LabelsSame
<1>5. fresh' \in Nat \ {0} /\ fresh <= fresh' /\ labelled' \in [Labels -> LabelledType] /\ pending' \subseteq pending
      /\ fnScope' \in 0 .. fresh' - 1
  BY <1>1, <1>2
<1>6. Extends(T, T, fresh)
  BY ExtendsSelf
<1>7. frames' # <<>> => Chain(lists'.locals, T, fresh')
  BY <1>1, <1>2
<1>8. Sharing(T)'
  BY <1>1, <1>3, <1>4, <1>5, <1>6, <1>7, SharingStays
<1> QED
  BY <1>8 DEF Shared

LEMMA OpenedKeeps ==
  ASSUME NEW sc \in Seq(ScopeType), NEW n \in Nat, Len(sc) = n, NEW head \in ScopeType
  PROVE  SameScopes(sc, sc \o <<head, NoScope>>, n)
<1>0. <<head, NoScope>> \in Seq(ScopeType) /\ Len(<<head, NoScope>>) = 2
  BY NoScopeTyped, Two
<1>1. PICK k \in Seq(ScopeType) : k = <<head, NoScope>> /\ Len(k) = 2
  BY <1>0
<1>2. \A i \in 1 .. n : (sc \o k)[i] = sc[i]
  BY <1>1, JoinedTwo
<1> QED
  BY <1>1, <1>2 DEF SameScopes

LEMMA SharedOpened ==
  ASSUME Base, NEW T, Sharing(T), frames # <<>>, NEW kind, NEW after, NEW head \in ScopeType,
         Opened(kind, after, <<head, NoScope>>), fresh' \in Nat \ {0}, fresh <= fresh', fnScope' \in 0 .. fresh' - 1,
         NEW U \in [Nat -> Seq(E)], Extends(T, U, fresh), Chain(after.locals, U, fresh')
  PROVE  Shared'
<1>1. /\ fresh \in Nat \ {0} /\ scopes \in Seq(ScopeType) /\ frames \in Seq(FrameType)
      /\ Mirrored(frames, scopes, lists) /\ labelled \in [Labels -> LabelledType]
  BY DEF Base, Sharing
<1>2. labels' = labels /\ labelled' = labelled /\ pending' = pending /\ lists' = after
      /\ scopes' = scopes \o <<head, NoScope>>
  BY DEF Opened
<1>3. PICK m \in Nat \ {0} : Len(frames) = m
  BY <1>1, EmptySeq
<1>4. Len(scopes) = 2 * m
  BY <1>1, <1>3, LevelNow
<1>5. SameScopes(scopes, scopes', 2 * m)
  BY <1>1, <1>2, <1>4, OpenedKeeps
<1>6. Len(frames') = m + 1
  <2>1. frames' = Append(frames, [kind |-> kind, before |-> lists, body |-> after, switch |-> switch, loop |-> loop])
    BY DEF Opened
  <2> QED
    BY <1>1, <1>3, <2>1
<1>7. ASSUME NEW l \in Labels PROVE Room(l)
  <2>1. SUFFICES ASSUME Awaited(l)
                 PROVE  /\ labelled[l].depth \in 1 .. Len(frames')
                        /\ ToSet(FlatTo(scopes, "vars", 2 * labelled[l].depth))
                             \subseteq ToSet(FlatTo(scopes', "vars", 2 * labelled[l].depth))
    BY DEF Room
  <2>2. PICK k \in 1 .. m : k = labelled[l].depth
    BY <1>3, <2>1 DEF Sharing, LabelOK, Held
  <2>3. k \in 1 .. Len(frames')
    BY <1>6
  <2>4. FlatTo(scopes', "vars", 2 * k) = FlatTo(scopes, "vars", 2 * k)
    <3>1. 2 * k \in 0 .. 2 * m /\ 2 * m \in Nat
      OBVIOUS
    <3> QED
      BY <1>5, <3>1, FlatKept
  <2> QED
    BY <2>2, <2>3, <2>4
<1>8. \A l \in Labels : LabelKept(l)
  BY <1>2, LabelsSame
<1>9. labelled' \in [Labels -> LabelledType] /\ pending' \subseteq pending
  BY <1>1, <1>2
<1>10. Chain(lists'.locals, U, fresh')
  BY <1>2
<1>11. Sharing(U)'
  BY <1>2, <1>7, <1>8, <1>9, <1>10, SharingStays
<1> QED
  BY <1>11 DEF Shared

LEMMA SharedOpen ==
  ASSUME Base, NEW T, Sharing(T), NEW kind \in uses.kinds, Open(kind)
  PROVE  Shared'
<1>1. /\ fresh \in Nat \ {0} /\ fnScope \in 0 .. fresh - 1 /\ T \in [Nat -> Seq(E)]
      /\ (frames # <<>> => Chain(lists.locals, T, fresh))
  BY DEF Base, Sharing
<1>2. frames # <<>> /\ Opened(kind, lists, <<NoScope, NoScope>>) /\ fresh' = fresh /\ fnScope' = fnScope
  BY DEF Open, InFunction
<1>3. Extends(T, T, fresh)
  BY ExtendsSelf
<1>4. fresh' \in Nat \ {0} /\ fresh <= fresh' /\ fnScope' \in 0 .. fresh' - 1 /\ Chain(lists.locals, T, fresh')
  BY <1>1, <1>2
<1>5. PICK h \in ScopeType : h = NoScope
  BY NoScopeTyped
<1>6. PICK after : after = lists
  OBVIOUS
<1>7. Opened(kind, after, <<h, NoScope>>) /\ Chain(after.locals, T, fresh') /\ T \in [Nat -> Seq(E)] /\ frames # <<>>
  BY <1>1, <1>2, <1>4, <1>5, <1>6
<1>8. fresh' \in Nat \ {0} /\ fresh <= fresh' /\ fnScope' \in 0 .. fresh' - 1
  BY <1>4
<1> QED
  BY <1>3, <1>7, <1>8, SharedOpened

LEMMA SharedOpenHead ==
  ASSUME Base, NEW T, Sharing(T), NEW kind \in uses.kinds, NEW d \in HeadDecls(kind), OpenHead(kind, d)
  PROVE  Shared'
<1>1. fresh \in Nat \ {0} /\ fnScope \in 0 .. fresh - 1 /\ uses \in Programs
  BY DEF Base, Sharing
<1>2. frames # <<>> /\ Opened(kind, Declared(d), <<Recorded(NoScope, d), NoScope>>) /\ fresh' = fresh + 1
  BY DEF OpenHead, InFunction
<1>3. DeclType(d)
  BY <1>1, HeadTyped, DeclTyped
<1>4. PICK U \in [Nat -> Seq(E)] : Extends(T, U, fresh) /\ Chain(Declared(d).locals, U, fresh + 1)
  BY <1>2, <1>3, NewChain DEF NewLists
<1>5. fnScope' \in 0 .. fresh' - 1
  <2>1. fnScope' = fnScope \/ fnScope' = fresh
    BY DEF OpenHead, FnScope, Entry
  <2>2. fnScope' \in 0 .. (fresh + 1) - 1
    BY <1>1, <2>1, Above
  <2> QED
    BY <1>2, <2>2
<1>6. fresh' \in Nat \ {0} /\ fresh <= fresh'
  BY <1>1, <1>2
<1>7. PICK h \in ScopeType : h = Recorded(NoScope, d)
  BY <1>1, <1>3, NoScopeTyped, RecordedFacts
<1>8. PICK after : after = Declared(d)
  OBVIOUS
<1>9. Opened(kind, after, <<h, NoScope>>) /\ Chain(after.locals, U, fresh')
  BY <1>2, <1>4, <1>7, <1>8
<1> QED
  BY <1>2, <1>4, <1>5, <1>6, <1>9, SharedOpened

LEMMA SharedClose ==
  ASSUME Base, NEW T, Sharing(T), Close
  PROVE  Shared'
<1>1. /\ fresh \in Nat \ {0} /\ scopes \in Seq(ScopeType) /\ frames \in Seq(FrameType) /\ fnScope \in 0 .. fresh - 1
      /\ Mirrored(frames, scopes, lists) /\ labelled \in [Labels -> LabelledType] /\ T \in [Nat -> Seq(E)]
      /\ (frames # <<>> => Chain(lists.locals, T, fresh))
  BY DEF Base, Sharing
<1>2. PICK m \in Nat : Len(frames) = m
  BY <1>1, Empty
<1>3. m \in Nat \ {0, 1} /\ m \in Nat \ {0} /\ m \in 2 .. m
  BY <1>2 DEF Close
<1>4. Len(scopes) = 2 * m /\ lists.locals = FlatTo(scopes, "vars", 2 * m) /\ frames # <<>>
  BY <1>1, <1>2, <1>3, LevelNow
<1>5. PICK f \in FrameType : f = frames[m] /\ f = Last(frames)
  BY <1>1, <1>2, <1>3, LastFacts
<1>6. /\ lists' = Restored(f) /\ scopes' = Closed /\ frames' = Front(frames) /\ labelled' = LabelsClosed
      /\ labels' = labels /\ pending' = pending /\ fnScope' = fnScope /\ fresh' = fresh /\ LabelsDefined
  BY <1>5 DEF Close
<1>7. SameScopes(scopes, scopes', 2 * m - 2)
  <2>1. 2 * m \in Nat \ {0, 1, 2}
    BY <1>3
  <2> QED
    BY <1>1, <1>4, <1>6, <2>1, ClosedFacts
<1>8. Len(frames') = m - 1
  BY <1>1, <1>2, <1>3, <1>6, FrontFacts
<1>9. lists'.locals = FlatTo(scopes, "vars", 2 * m - 2)
  <2>1. FrameMirrors(f, scopes, m)
    BY <1>1, <1>2, <1>3, <1>5 DEF Mirrored
  <2>2. SameNames(Restored(f), f.before)
    BY <2>1, RestoredFacts
  <2> QED
    BY <1>6, <2>1, <2>2 DEF SameNames, FrameMirrors, Sees
<1>10. Chain(lists'.locals, T, fresh')
  <2>1. 2 * m \in Nat /\ 2 * m - 2 \in 0 .. 2 * m
    BY <1>3
  <2>2. /\ FlatTo(scopes, "vars", 2 * m) \in Seq(E) /\ FlatTo(scopes, "vars", 2 * m - 2) \in Seq(E)
        /\ EndsWith(FlatTo(scopes, "vars", 2 * m), FlatTo(scopes, "vars", 2 * m - 2))
    BY <1>1, <1>4, <2>1, LocalsEnd
  <2>3. PICK q \in Seq(E), s \in Seq(E) : lists.locals = q \o s /\ s = FlatTo(scopes, "vars", 2 * m - 2)
    BY <1>4, <2>2 DEF EndsWith
  <2>4. Chain(q \o s, T, fresh)
    BY <1>1, <1>4, <2>3
  <2>5. Chain(s, T, fresh)
    BY <2>4, ChainTail
  <2> QED
    BY <1>6, <1>9, <2>3, <2>5
<1>11. ASSUME NEW l \in Labels
       PROVE  /\ LabelKept(l) /\ LabelsClosed[l] \in LabelledType
              /\ Awaited(l) => labelled[l].depth # m
  <2>1. labelled[l] \in LabelledType /\ Depth = m
    BY <1>1, <1>2 DEF Depth
  <2>2. CASE labelled[l].depth = m
    <3>1. LabelsClosed[l] = [labelled[l] EXCEPT !.depth = OutOfReach] /\ labelled[l].seen
      BY <1>6, <2>1, <2>2 DEF LabelsClosed, LabelsDefined
    <3>2. OutOfReach \in Nat \ {0}
      BY BoundsAssumption DEF OutOfReach
    <3>3. /\ LabelsClosed[l].seen = labelled[l].seen /\ LabelsClosed[l].vars = labelled[l].vars
          /\ LabelsClosed[l].depth # 0 /\ LabelsClosed[l] \in LabelledType
      BY <2>1, <3>1, <3>2 DEF LabelledType
    <3> QED
      BY <1>3, <1>6, <2>2, <3>1, <3>3 DEF LabelKept, Awaited
  <2>3. CASE labelled[l].depth # m
    <3>1. LabelsClosed[l] = labelled[l]
      BY <2>1, <2>3 DEF LabelsClosed
    <3> QED
      BY <1>6, <2>1, <2>3, <3>1 DEF LabelKept
  <2> QED
    BY <2>2, <2>3
<1>12. ASSUME NEW l \in Labels PROVE Room(l)
  <2>1. SUFFICES ASSUME Awaited(l)
                 PROVE  /\ labelled[l].depth \in 1 .. Len(frames')
                        /\ ToSet(FlatTo(scopes, "vars", 2 * labelled[l].depth))
                             \subseteq ToSet(FlatTo(scopes', "vars", 2 * labelled[l].depth))
    BY DEF Room
  <2>2. PICK k \in 1 .. m : k = labelled[l].depth
    BY <1>2, <2>1 DEF Sharing, LabelOK, Held
  <2>3. k # m
    BY <1>11, <2>1, <2>2
  <2>4. k \in 1 .. Len(frames') /\ 2 * k \in 0 .. 2 * m - 2 /\ 2 * m - 2 \in Nat
    BY <1>3, <1>8, <2>3
  <2>5. FlatTo(scopes', "vars", 2 * k) = FlatTo(scopes, "vars", 2 * k)
    BY <1>7, <2>4, FlatKept
  <2> QED
    BY <2>2, <2>4, <2>5
<1>13. labelled' \in [Labels -> LabelledType]
  <2>1. \A l \in Labels : LabelsClosed[l] \in LabelledType
    BY <1>11
  <2>2. LabelsClosed = [l \in Labels |-> LabelsClosed[l]]
    BY DEF LabelsClosed
  <2> HIDE DEF LabelsClosed
  <2> QED
    BY <1>6, <2>1, <2>2
<1>14. fresh' \in Nat \ {0} /\ fresh <= fresh' /\ fnScope' \in 0 .. fresh' - 1 /\ pending' \subseteq pending
  BY <1>1, <1>6
<1>15. \A l \in Labels : LabelKept(l)
  BY <1>11
<1>16. Extends(T, T, fresh)
  BY ExtendsSelf
<1>17. Sharing(T)'
  BY <1>1, <1>6, <1>10, <1>12, <1>13, <1>14, <1>15, <1>16, SharingStays
<1> QED
  BY <1>17 DEF Shared

LEMMA SharedEndFunction ==
  ASSUME Base, NEW T, Sharing(T), EndFunction
  PROVE  Shared'
<1>1. fresh \in Nat \ {0} /\ fnScope \in 0 .. fresh - 1 /\ T \in [Nat -> Seq(E)] /\ labelled \in [Labels -> LabelledType]
  BY DEF Base, Sharing
<1>2. /\ labels' = labels /\ labelled' = labelled /\ pending' = pending /\ frames' = <<>> /\ fnScope' = NULL
      /\ fresh' = fresh /\ LabelsDefined /\ Len(frames) = 1
  BY DEF EndFunction
<1>3. ASSUME NEW l \in Labels PROVE Room(l)
  <2>1. SUFFICES ASSUME Awaited(l) PROVE FALSE
    BY DEF Room
  <2>2. labelled[l].depth \in 1 .. Len(frames)
    BY <2>1 DEF Sharing, LabelOK, Held
  <2>3. labelled[l].depth = Depth
    BY <1>2, <2>2 DEF Depth
  <2> QED
    BY <1>2, <2>1, <2>3 DEF LabelsDefined, Awaited
<1>4. \A l \in Labels : LabelKept(l)
  BY <1>2, LabelsSame
<1>5. fresh' \in Nat \ {0} /\ fresh <= fresh' /\ labelled' \in [Labels -> LabelledType] /\ pending' \subseteq pending
      /\ fnScope' \in 0 .. fresh' - 1
  BY <1>1, <1>2 DEF NULL
<1>6. Extends(T, T, fresh)
  BY ExtendsSelf
<1>7. Sharing(T)'
  BY <1>1, <1>2, <1>3, <1>4, <1>5, <1>6, SharingStays
<1> QED
  BY <1>7 DEF Shared

(* The parameters begin a new sharing.                                     *)
LEMMA TailAt ==
  ASSUME NEW p \in Seq(E), NEW s \in Seq(E)
  PROVE  Len(p \o s) = Len(p) + Len(s) /\ \A i \in 1 .. Len(s) : (p \o s)[Len(p) + i] = s[i]
<1>1. PICK a \in Nat : a = Len(p)
  BY Empty
<1>2. PICK b \in Nat : b = Len(s)
  BY Empty
<1>3. Len(p \o s) = a + b /\ \A i \in 1 .. b : (p \o s)[a + i] = s[i]
  BY <1>1, <1>2, Joined
<1> QED
  BY <1>1, <1>2, <1>3

LEMMA TailsEqual ==
  ASSUME NEW e \in Seq(E), NEW p \in Seq(E), NEW s \in Seq(E), NEW q \in Seq(E), NEW t \in Seq(E),
         p \o s = e, q \o t = e, Len(p) = Len(q)
  PROVE  s = t
<1>1. PICK a \in Nat : a = Len(p)
  BY Empty
<1>2. PICK b \in Nat : b = Len(s)
  BY Empty
<1>3. PICK c \in Nat : c = Len(t)
  BY Empty
<1>4. Len(e) = a + b /\ \A i \in 1 .. b : e[a + i] = s[i]
  <2>1. Len(p \o s) = Len(p) + Len(s) /\ \A i \in 1 .. Len(s) : (p \o s)[Len(p) + i] = s[i]
    BY TailAt
  <2> QED
    BY <1>1, <1>2, <2>1
<1>5. Len(e) = a + c /\ \A i \in 1 .. c : e[a + i] = t[i]
  <2>1. Len(q \o t) = Len(q) + Len(t) /\ \A i \in 1 .. Len(t) : (q \o t)[Len(q) + i] = t[i]
    BY TailAt
  <2> QED
    BY <1>1, <1>3, <2>1
<1>6. b = c
  BY <1>4, <1>5
<1>7. \A i \in 1 .. b : s[i] = t[i]
  BY <1>4, <1>5, <1>6
<1>8. Len(s) = Len(t) /\ \A i \in 1 .. Len(s) : s[i] = t[i]
  BY <1>2, <1>3, <1>6, <1>7
<1> QED
  BY <1>8, SeqEqual

Begins(e, s, x) == s \in Seq(E) /\ s # <<>> /\ s[1].id = x /\ EndsWith(e, s)
Distinct(e) == \A i, j \in 1 .. Len(e) : e[i].id = e[j].id => i = j

LEMMA BeginsOnce ==
  ASSUME NEW e \in Seq(E), Distinct(e), NEW x, NEW s, Begins(e, s, x), NEW t, Begins(e, t, x)
  PROVE  s = t
<1>0. s \in Seq(E) /\ t \in Seq(E)
  BY DEF Begins
<1>1. PICK p \in Seq(E) : p \o s = e
  BY DEF Begins, EndsWith
<1>2. PICK q \in Seq(E) : q \o t = e
  BY DEF Begins, EndsWith
<1>3. PICK a \in Nat : a = Len(p)
  BY Empty
<1>4. PICK b \in Nat : b = Len(q)
  BY Empty
<1>5. PICK m \in Nat \ {0} : m = Len(s)
  BY <1>0, EmptySeq DEF Begins
<1>6. PICK n \in Nat \ {0} : n = Len(t)
  BY <1>0, EmptySeq DEF Begins
<1>7. Len(e) = a + m /\ \A i \in 1 .. m : e[a + i] = s[i]
  <2>1. Len(p \o s) = Len(p) + Len(s) /\ \A i \in 1 .. Len(s) : (p \o s)[Len(p) + i] = s[i]
    BY <1>0, TailAt
  <2> QED
    BY <1>1, <1>3, <1>5, <2>1
<1>8. Len(e) = b + n /\ \A i \in 1 .. n : e[b + i] = t[i]
  <2>1. Len(q \o t) = Len(q) + Len(t) /\ \A i \in 1 .. Len(t) : (q \o t)[Len(q) + i] = t[i]
    BY <1>0, TailAt
  <2> QED
    BY <1>2, <1>4, <1>6, <2>1
<1>9. e[a + 1] = s[1] /\ e[b + 1] = t[1] /\ a + 1 \in 1 .. Len(e) /\ b + 1 \in 1 .. Len(e)
  <2>1. 1 \in 1 .. m /\ 1 \in 1 .. n
    OBVIOUS
  <2> QED
    BY <1>7, <1>8, <2>1
<1>10. a + 1 = b + 1
  BY <1>9 DEF Distinct, Begins
<1>11. Len(p) = Len(q)
  BY <1>3, <1>4, <1>10
<1> QED
  BY <1>0, <1>1, <1>2, <1>11, TailsEqual

LEMMA ChainBegin ==
  ASSUME NEW e \in Seq(E), Distinct(e), NEW n, \A i \in 1 .. Len(e) : e[i].id < n
  PROVE  \E U \in [Nat -> Seq(E)] : Chain(e, U, n)
<1> DEFINE At(x) == IF \E s \in Seq(E) : Begins(e, s, x) THEN CHOOSE s \in Seq(E) : Begins(e, s, x) ELSE <<>>
<1> DEFINE U == [x \in Nat |-> At(x)]
<1>1. \A x : At(x) \in Seq(E)
  BY Empty
<1>2. U \in [Nat -> Seq(E)]
  <2> HIDE DEF At
  <2> QED
    BY <1>1
<1>3. ASSUME NEW p \in Seq(E), NEW s \in Seq(E), e = p \o s PROVE s = ListAt(U, Ptr(s))
  <2>1. CASE s = <<>>
    BY <2>1, PtrFacts DEF ListAt, NULL
  <2>2. CASE s # <<>>
    <3>1. Ptr(s) = s[1].id /\ Ptr(s) \in Nat \ {0}
      BY <2>2, PtrFacts
    <3>2. Begins(e, s, Ptr(s))
      BY <1>3, <2>2, <3>1 DEF Begins, EndsWith
    <3>3. Begins(e, At(Ptr(s)), Ptr(s))
      BY <3>2
    <3>4. U[Ptr(s)] = At(Ptr(s))
      BY <3>1
    <3> HIDE DEF U, At
    <3>5. s = At(Ptr(s))
      BY <3>2, <3>3, BeginsOnce
    <3> QED
      BY <3>1, <3>4, <3>5 DEF ListAt, NULL
  <2> QED
    BY <2>1, <2>2
<1> HIDE DEF U
<1>4. Chain(e, U, n)
  BY <1>3 DEF Chain
<1> QED
  BY <1>2, <1>4

ParamList(p) == [i \in 1 .. p |-> [id |-> fresh + p - i, name |-> "param", sort |-> "auto"]]
LEMMA ParamFacts ==
  ASSUME fresh \in Nat \ {0}, NEW params \in Nat
  PROVE  /\ ParamList(params) \in Seq(E) /\ Len(ParamList(params)) = params
         /\ Distinct(ParamList(params)) /\ \A i \in 1 .. params : ParamList(params)[i].id < fresh + params
<1>1. PICK e : e = ParamList(params)
  OBVIOUS
<1>2. \A i \in 1 .. params : [id |-> fresh + params - i, name |-> "param", sort |-> "auto"] \in E
  <2>1. SUFFICES ASSUME NEW i \in 1 .. params PROVE [id |-> fresh + params - i, name |-> "param", sort |-> "auto"] \in E
    OBVIOUS
  <2>2. fresh + params - i \in Nat \ {0}
    OBVIOUS
  <2> QED
    BY <2>2 DEF E, VarSorts
<1>3. e \in [1 .. params -> E]
  BY <1>1, <1>2 DEF ParamList
<1>4. e \in Seq(E) /\ Len(e) = params
  BY <1>3, SeqDef
<1>5. \A i \in 1 .. params : e[i].id = fresh + params - i
  BY <1>1 DEF ParamList
<1>6. Distinct(e)
  <2>1. SUFFICES ASSUME NEW i \in 1 .. params, NEW j \in 1 .. params, e[i].id = e[j].id PROVE i = j
    BY <1>4 DEF Distinct
  <2>2. fresh + params - i = fresh + params - j
    BY <1>5, <2>1
  <2> QED
    BY <2>2
<1>7. \A i \in 1 .. params : e[i].id < fresh + params
  BY <1>5
<1> QED
  BY <1>1, <1>4, <1>6, <1>7

LEMMA SharedBegin ==
  ASSUME Base, NEW params \in 0 .. MaxParams, BeginFunction(params)
  PROVE  Shared'
<1>1. fresh \in Nat \ {0} /\ params \in Nat /\ lists \in ListsType
  BY BoundsAssumption DEF Base
<1>2. PICK e \in Seq(E) : e = ParamList(params)
  BY <1>1, ParamFacts
<1>3. Len(e) = params /\ Distinct(e) /\ \A i \in 1 .. params : e[i].id < fresh + params
  BY <1>1, <1>2, ParamFacts
<1>4. PICK U \in [Nat -> Seq(E)] : Chain(e, U, fresh + params)
  BY <1>3, ChainBegin
<1>5. /\ lists' = [lists EXCEPT !.locals = e] /\ fnScope' = (IF params = 0 THEN NULL ELSE fresh)
      /\ labels' = [l \in Labels |-> Absent] /\ labelled' = [l \in Labels |-> Unlabelled]
      /\ pending' = {} /\ fresh' = fresh + params
  BY <1>2 DEF BeginFunction, ParamList
<1>6. Chain(lists'.locals, U, fresh')
  <2>1. lists'.locals = e
    BY <1>1, <1>5 DEF ListsType
  <2> QED
    BY <1>4, <1>5, <2>1
<1>7. fnScope' \in 0 .. fresh' - 1
  <2>1. fresh + params \in Nat \ {0} /\ (params # 0 => fresh \in 0 .. (fresh + params) - 1)
    BY <1>1
  <2>2. CASE params = 0
    BY <1>5, <2>1, <2>2 DEF NULL
  <2>3. CASE params # 0
    BY <1>5, <2>1, <2>3
  <2> QED
    BY <2>2, <2>3
<1>8. ASSUME NEW l \in Labels PROVE LabelOK(U, l)'
  <2>1. labels'[l] = -1 /\ labelled'[l] = Unlabelled
    BY <1>5 DEF Absent
  <2>2. labelled'[l].seen = FALSE /\ labelled'[l].vars = <<>>
    BY <2>1 DEF Unlabelled
  <2>3. Chain(<<>>, U, fresh')
    BY ChainNil
  <2>4. -1 \in -1 .. fresh' - 1
    BY <1>1, <1>5
  <2> QED
    BY <2>1, <2>2, <2>3, <2>4 DEF LabelOK, Awaited, Absent
<1>9. labels' \in [Labels -> Int] /\ labelled' \in [Labels -> LabelledType]
  <2>1. Absent \in Int /\ Unlabelled \in LabelledType
    BY Empty DEF Absent, Unlabelled, LabelledType
  <2> QED
    BY <1>5, <2>1
<1>10. Sharing(U)'
  BY <1>5, <1>6, <1>7, <1>8, <1>9 DEF Sharing
<1> QED
  BY <1>10 DEF Shared

-----------------------------------------------------------------------------
(* The jumps and the labels.                                               *)
LEMMA ChainSelf ==
  ASSUME NEW T, NEW n, NEW l, Chain(l, T, n)
  PROVE  l \in Seq(E) /\ ListAt(T, Ptr(l)) = l
<1>1. l \in Seq(E) /\ <<>> \in Seq(E)
  BY Empty DEF Chain
<1>2. l = <<>> \o l
  BY <1>1, ConcatEmptySeq
<1> QED
  BY <1>1, <1>2 DEF Chain

LEMMA InScopeIs ==
  ASSUME Base, frames # <<>>
  PROVE  InScope = lists.locals /\ lists.locals \in Seq(E)
BY DEF Base, ListsType, Mirrored, ListsMirror, InScope, Flat

LEMMA JumpStaysAt ==
  ASSUME Base, NEW T, Sharing(T), fresh' = fresh, NEW j \in pending, j.kind = "goto" => LabelKept(j.label)
  PROVE  JumpOK(T, j)'
<1>1. JumpOK(T, j)
  BY DEF Sharing
<1>2. Chain(j.begin, T, fresh') /\ j.end \in 0 .. fresh' - 1
  BY <1>1 DEF JumpOK
<1>3. ASSUME j.kind = "goto" PROVE GotoOK(T, j)'
  <2>1. GotoOK(T, j) /\ LabelKept(j.label)
    BY <1>1, <1>3 DEF JumpOK
  <2>2. j.label \in Labels /\ j.from = j.begin
    BY <2>1 DEF GotoOK
  <2>3. ~labelled'[j.label].seen /\ ~j.late => labels'[j.label] # Absent /\ j.end = labels'[j.label]
    BY <2>1 DEF GotoOK, LabelKept
  <2>4. ASSUME labelled'[j.label].seen
        PROVE  /\ ToSet(ListAt(T, j.end)) \subseteq ToSet(labelled'[j.label].vars)
               /\ labelled'[j.label].depth = 0 => j.end = Ptr(labelled'[j.label].vars)
    BY <2>1, <2>4 DEF GotoOK, LabelKept
  <2> QED
    BY <2>2, <2>3, <2>4 DEF GotoOK, Absent
<1> QED
  BY <1>2, <1>3 DEF JumpOK

LEMMA LabelStaysAt ==
  ASSUME Base, NEW T, Sharing(T), Idle, NEW l \in Labels, LabelKept(l)
  PROVE  LabelOK(T, l)'
<1>1. fresh \in Nat \ {0} /\ fresh' = fresh /\ frames' = frames /\ scopes' = scopes
  BY DEF Base, Idle
<1>2. Extends(T, T, fresh)
  BY ExtendsSelf
<1>3. fresh' \in Nat \ {0} /\ fresh <= fresh'
  BY <1>1
<1>4. Room(l)
  <2>1. SUFFICES ASSUME Awaited(l) PROVE labelled[l].depth \in 1 .. Len(frames)
    BY <1>1 DEF Room
  <2> QED
    BY <2>1 DEF Sharing, LabelOK, Held
<1> QED
  BY <1>2, <1>3, <1>4, LabelStays

LEMMA SharingIdle ==
  ASSUME Base, NEW T, Sharing(T), Idle, fnScope' = fnScope, labels' \in [Labels -> Int],
         labelled' \in [Labels -> LabelledType], pending' \in SUBSET PendingType,
         \A l \in Labels : LabelOK(T, l)', \A j \in pending' : JumpOK(T, j)'
  PROVE  Shared'
<1>1. lists' = lists /\ frames' = frames /\ fresh' = fresh
  BY DEF Idle
<1>2. /\ T \in [Nat -> Seq(E)] /\ fnScope' \in 0 .. fresh' - 1
      /\ frames' # <<>> => Chain(lists'.locals, T, fresh')
  BY <1>1 DEF Sharing
<1>3. Sharing(T)'
  BY <1>2 DEF Sharing
<1> QED
  BY <1>3 DEF Shared

LEMMA CleanTyped == ASSUME NEW l \in Seq(E) PROVE ToClean(l) \in Seq(Nat)
BY ToCleanIs, IdsTyped

LEMMA SharedReturn ==
  ASSUME Base, NEW T, Sharing(T), Return
  PROVE  Shared'
<1>1. Idle /\ labels' = labels /\ labelled' = labelled /\ fnScope' = fnScope /\ frames # <<>>
  BY DEF Return, Step, parser, Idle, InFunction
<1>2. InScope = lists.locals /\ lists.locals \in Seq(E) /\ Chain(lists.locals, T, fresh)
  BY <1>1, InScopeIs DEF Sharing
<1>3. PICK r : /\ pending' = pending \cup {r}
               /\ r = [Exit("return", <<>>, ToClean(InScope))
                         EXCEPT !.begin = lists.locals, !.end = fnScope, !.late = fnScope \in heads]
  BY DEF Return
<1>4. fnScope \in 0 .. fresh - 1 /\ fresh \in Nat \ {0} /\ pending \in SUBSET PendingType
  BY DEF Base, Sharing
<1>5. r \in PendingType
  <2>1. <<>> \in Seq(Nat) /\ <<>> \in Seq(E) /\ ToClean(InScope) \in Seq(Nat) /\ fnScope \in Nat
    BY <1>2, <1>4, CleanTyped, Empty
  <2>2. (fnScope \in heads) \in BOOLEAN /\ NULL \in Nat
    BY DEF NULL
  <2> QED
    BY <1>2, <1>3, <2>1, <2>2 DEF PendingType, Exit
<1>6. fresh' = fresh
  BY <1>1 DEF Idle
<1>7. JumpOK(T, r)'
  <2>1. r.kind = "return" /\ r.begin = lists.locals /\ r.end = fnScope
    BY <1>3 DEF Exit
  <2> QED
    BY <1>2, <1>4, <1>6, <2>1 DEF JumpOK
<1>8. \A l \in Labels : LabelKept(l)
  BY <1>1, LabelsSame
<1>9. \A l \in Labels : LabelOK(T, l)'
  BY <1>1, <1>8, LabelStaysAt
<1>10. ASSUME NEW j \in pending PROVE JumpOK(T, j)'
  <2>1. j.kind = "goto" => LabelKept(j.label)
    BY <1>8 DEF Sharing, JumpOK, GotoOK
  <2> QED
    BY <1>6, <2>1, JumpStaysAt
<1>11. pending' \in SUBSET PendingType /\ \A j \in pending' : JumpOK(T, j)'
  BY <1>3, <1>4, <1>5, <1>7, <1>10
<1>12. labels' \in [Labels -> Int] /\ labelled' \in [Labels -> LabelledType]
  BY <1>1 DEF Sharing
<1> QED
  BY <1>1, <1>9, <1>11, <1>12, SharingIdle

LEMMA SharedGoto ==
  ASSUME Base, NEW T, Sharing(T), NEW l \in Labels, Goto(l)
  PROVE  Shared'
<1>1. Idle /\ labels' = labels /\ labelled' = labelled /\ fnScope' = fnScope /\ frames # <<>>
  BY DEF Goto, Step, parser, Idle, InFunction
<1>2. InScope = lists.locals /\ lists.locals \in Seq(E) /\ Chain(lists.locals, T, fresh)
  BY <1>1, InScopeIs DEF Sharing
<1>3. PICK x : x = IF labels[l] # Absent THEN labels[l] ELSE fnScope
  OBVIOUS
<1>4. PICK r : /\ pending' = pending \cup {r}
               /\ r = [Exit("goto", <<>>, <<>>) EXCEPT !.begin = lists.locals, !.end = x,
                         !.from = InScope, !.label = l, !.late = labels[l] = Absent]
  BY <1>3 DEF Goto
<1>5. fnScope \in 0 .. fresh - 1 /\ fresh \in Nat \ {0} /\ pending \in SUBSET PendingType /\ LabelOK(T, l)
  BY DEF Base, Sharing
<1>6. x \in 0 .. fresh - 1
  BY <1>3, <1>5 DEF LabelOK, Absent
<1>7. r \in PendingType
  <2>1. <<>> \in Seq(Nat) /\ x \in Nat
    BY <1>5, <1>6, Empty
  <2>2. (labels[l] = Absent) \in BOOLEAN /\ NULL \in Nat
    BY DEF NULL
  <2> QED
    BY <1>2, <1>4, <2>1, <2>2 DEF PendingType, Exit
<1>8. fresh' = fresh
  BY <1>1 DEF Idle
<1>9. JumpOK(T, r)'
  <2>1. /\ r.kind = "goto" /\ r.begin = lists.locals /\ r.end = x /\ r.from = lists.locals /\ r.label = l
        /\ r.late = (labels[l] = Absent)
    BY <1>2, <1>4 DEF Exit
  <2>2. ASSUME labelled[l].seen
        PROVE  ToSet(ListAt(T, x)) \subseteq ToSet(labelled[l].vars) /\ x = Ptr(labelled[l].vars)
    <3>1. labels[l] = Ptr(labelled[l].vars) /\ Chain(labelled[l].vars, T, fresh)
      BY <1>5, <2>2 DEF LabelOK
    <3>2. labelled[l].vars \in Seq(E) /\ ListAt(T, Ptr(labelled[l].vars)) = labelled[l].vars
      BY <3>1, ChainSelf
    <3>3. Ptr(labelled[l].vars) \in Nat
      BY <3>2, PtrFacts
    <3>4. x = labels[l]
      BY <1>3, <3>1, <3>3 DEF Absent
    <3> QED
      BY <3>1, <3>2, <3>4
  <2>3. ~r.late => labels[l] # Absent /\ x = labels[l]
    BY <1>3, <2>1
  <2>4. GotoOK(T, r)'
    BY <1>1, <2>1, <2>2, <2>3 DEF GotoOK, Absent
  <2> QED
    BY <1>2, <1>6, <1>8, <2>1, <2>4 DEF JumpOK
<1>10. \A k \in Labels : LabelKept(k)
  BY <1>1, LabelsSame
<1>11. \A k \in Labels : LabelOK(T, k)'
  BY <1>1, <1>10, LabelStaysAt
<1>12. ASSUME NEW j \in pending PROVE JumpOK(T, j)'
  <2>1. j.kind = "goto" => LabelKept(j.label)
    BY <1>10 DEF Sharing, JumpOK, GotoOK
  <2> QED
    BY <1>8, <2>1, JumpStaysAt
<1>13. pending' \in SUBSET PendingType /\ \A j \in pending' : JumpOK(T, j)'
  BY <1>4, <1>5, <1>7, <1>9, <1>12
<1>14. labels' \in [Labels -> Int] /\ labelled' \in [Labels -> LabelledType]
  BY <1>1 DEF Sharing
<1> QED
  BY <1>1, <1>11, <1>13, <1>14, SharingIdle

(* What another label keeps when one label is set.                         *)
LEMMA LabelsSet ==
  ASSUME NEW l \in Labels, NEW x, NEW y, labels \in [Labels -> Int], labelled \in [Labels -> LabelledType],
         labels' = [labels EXCEPT ![l] = x], labelled' = [labelled EXCEPT ![l] = y]
  PROVE  /\ labels'[l] = x /\ labelled'[l] = y
         /\ \A k \in Labels : k # l => LabelKept(k)
BY DEF LabelKept

LEMMA SharedLocalLabel ==
  ASSUME Base, NEW T, Sharing(T), NEW l \in Labels, LocalLabel(l)
  PROVE  Shared'
<1>1. Idle /\ fnScope' = fnScope /\ frames # <<>> /\ pending' = pending /\ labels[l] = Absent
  BY DEF LocalLabel, Step, Idle, InFunction
<1>2. PICK s : InScope = s /\ lists.locals = s /\ s \in Seq(E) /\ Chain(s, T, fresh)
  BY <1>1, InScopeIs DEF Sharing
<1>3. PICK y : y = [labelled[l] EXCEPT !.depth = Depth]
  OBVIOUS
<1>4. labels' = [labels EXCEPT ![l] = Ptr(s)] /\ labelled' = [labelled EXCEPT ![l] = y]
  BY <1>2, <1>3 DEF LocalLabel
<1>5. /\ labels \in [Labels -> Int] /\ labelled \in [Labels -> LabelledType] /\ fresh \in Nat \ {0} /\ LabelOK(T, l)
      /\ frames \in Seq(FrameType) /\ Mirrored(frames, scopes, lists)
  BY DEF Base, Sharing
<1>6. PICK m \in Nat \ {0} : Len(frames) = m
  BY <1>1, <1>5, EmptySeq
<1>7. s = FlatTo(scopes, "vars", 2 * m)
  BY <1>2, <1>5, <1>6, LevelNow
<1>8. /\ labels'[l] = Ptr(s) /\ labelled'[l] = y /\ \A k \in Labels : k # l => LabelKept(k)
  BY <1>4, <1>5, LabelsSet
<1>9. /\ y \in LabelledType /\ y.seen = labelled[l].seen /\ y.vars = labelled[l].vars /\ y.depth = m
  BY <1>3, <1>5, <1>6 DEF LabelledType, Depth
<1>10. labels'[l] \in Nat /\ Ptr(s) \in 0 .. fresh - 1 /\ ListAt(T, Ptr(s)) = s
  BY <1>2, <1>5, <1>8, ChainBelow, ChainSelf, PtrFacts
<1>11. ~labelled[l].seen
  <2>1. SUFFICES ASSUME labelled[l].seen PROVE FALSE
    OBVIOUS
  <2>2. labels[l] = Ptr(labelled[l].vars) /\ Chain(labelled[l].vars, T, fresh)
    BY <1>5, <2>1 DEF LabelOK
  <2>3. Ptr(labelled[l].vars) \in Nat
    BY <2>2, ChainSelf, PtrFacts
  <2> QED
    BY <1>1, <2>2, <2>3 DEF Absent
<1>12. frames' = frames /\ scopes' = scopes /\ fresh' = fresh
  BY <1>1 DEF Idle
<1>13. LabelOK(T, l)'
  <2>1. labels'[l] \in -1 .. fresh' - 1
    BY <1>5, <1>8, <1>10, <1>12
  <2>2. Chain(labelled'[l].vars, T, fresh') /\ ~labelled'[l].seen
    BY <1>5, <1>8, <1>9, <1>11, <1>12 DEF LabelOK
  <2>3. /\ labelled'[l].depth \in 1 .. Len(frames')
        /\ ToSet(ListAt(T, labels'[l])) \subseteq ToSet(FlatTo(scopes', "vars", 2 * labelled'[l].depth))
    BY <1>6, <1>7, <1>8, <1>9, <1>10, <1>12
  <2> QED
    BY <2>1, <2>2, <2>3 DEF LabelOK, Held, Awaited
<1>14. \A k \in Labels : LabelOK(T, k)'
  BY <1>1, <1>8, <1>13, LabelStaysAt
<1>15. ASSUME NEW j \in pending PROVE JumpOK(T, j)'
  <2>1. JumpOK(T, j)
    BY DEF Sharing
  <2>2. CASE j.kind = "goto" => j.label # l
    <3>1. j.kind = "goto" => LabelKept(j.label)
      BY <1>8, <2>1, <2>2 DEF JumpOK, GotoOK
    <3> QED
      BY <1>12, <3>1, JumpStaysAt
  <2>3. CASE j.kind = "goto" /\ j.label = l
    <3>1. j.late /\ j.label \in Labels /\ j.from = j.begin
      BY <1>1, <1>11, <2>1, <2>3 DEF JumpOK, GotoOK
    <3>2. ~labelled'[j.label].seen
      BY <1>8, <1>9, <1>11, <2>3
    <3>3. GotoOK(T, j)'
      BY <3>1, <3>2 DEF GotoOK
    <3> QED
      BY <1>12, <2>1, <3>3 DEF JumpOK
  <2> QED
    BY <2>2, <2>3
<1>16. pending' \in SUBSET PendingType /\ \A j \in pending' : JumpOK(T, j)'
  BY <1>1, <1>15 DEF Sharing
<1>17. labels' \in [Labels -> Int] /\ labelled' \in [Labels -> LabelledType]
  BY <1>4, <1>5, <1>8, <1>9, <1>10
<1> QED
  BY <1>1, <1>14, <1>16, <1>17, SharingIdle

(* A label's scope is in that of the block it was announced in.            *)
LEMMA HeldInScope ==
  ASSUME Base, NEW T, NEW l \in Labels, Held(T, l)
  PROVE  ToSet(ListAt(T, labels[l])) \subseteq ToSet(lists.locals)
<1>1. scopes \in Seq(ScopeType) /\ frames \in Seq(FrameType) /\ Mirrored(frames, scopes, lists)
  BY DEF Base
<1>2. PICK m \in Nat : Len(frames) = m
  BY <1>1, Empty
<1>3. PICK k \in 1 .. m : k = labelled[l].depth /\ m \in Nat \ {0}
  BY <1>2 DEF Held
<1>4. Len(scopes) = 2 * m /\ lists.locals = FlatTo(scopes, "vars", 2 * m)
  BY <1>1, <1>2, <1>3, LevelNow
<1>5. 2 * m \in Nat /\ 2 * k \in 0 .. 2 * m
  OBVIOUS
<1>6. /\ FlatTo(scopes, "vars", 2 * m) \in Seq(E) /\ FlatTo(scopes, "vars", 2 * k) \in Seq(E)
      /\ EndsWith(FlatTo(scopes, "vars", 2 * m), FlatTo(scopes, "vars", 2 * k))
  BY <1>1, <1>4, <1>5, LocalsEnd
<1>7. PICK q \in Seq(E), s \in Seq(E) : lists.locals = q \o s /\ s = FlatTo(scopes, "vars", 2 * k)
  BY <1>4, <1>6 DEF EndsWith
<1>8. ToSet(s) \subseteq ToSet(q \o s)
  BY SetJoin
<1> QED
  BY <1>3, <1>7, <1>8 DEF Held

LEMMA SharedLabelStmt ==
  ASSUME Base, NEW T, Sharing(T), NEW l \in Labels, LabelStmt(l)
  PROVE  Shared'
<1>1. Idle /\ fnScope' = fnScope /\ frames # <<>> /\ ~labelled[l].seen
  BY DEF LabelStmt, Step, Idle, InFunction
<1>2. PICK s : InScope = s /\ lists.locals = s /\ s \in Seq(E) /\ Chain(s, T, fresh)
  BY <1>1, InScopeIs DEF Sharing
<1>3. PICK y : y = [labelled[l] EXCEPT !.seen = TRUE, !.vars = s]
  OBVIOUS
<1>4. labels' = [labels EXCEPT ![l] = Ptr(s)] /\ labelled' = [labelled EXCEPT ![l] = y]
  BY <1>2, <1>3 DEF LabelStmt
<1>5. /\ labels \in [Labels -> Int] /\ labelled \in [Labels -> LabelledType] /\ fresh \in Nat \ {0} /\ LabelOK(T, l)
      /\ pending \in SUBSET PendingType
  BY DEF Base, Sharing
<1>8. /\ labels'[l] = Ptr(s) /\ labelled'[l] = y /\ \A k \in Labels : k # l => LabelKept(k)
  BY <1>4, <1>5, LabelsSet
<1>9. /\ y \in LabelledType /\ y.seen = TRUE /\ y.vars = s /\ y.depth = labelled[l].depth
  BY <1>2, <1>3, <1>5 DEF LabelledType
<1>10. labels'[l] \in Nat /\ Ptr(s) \in 0 .. fresh - 1 /\ ListAt(T, Ptr(s)) = s
  BY <1>2, <1>5, <1>8, ChainBelow, ChainSelf, PtrFacts
<1>12. fresh' = fresh
  BY <1>1 DEF Idle
<1>13. LabelOK(T, l)'
  <2>1. labels'[l] \in -1 .. fresh' - 1
    BY <1>5, <1>8, <1>10, <1>12
  <2>2. Chain(labelled'[l].vars, T, fresh') /\ labelled'[l].seen /\ labels'[l] = Ptr(labelled'[l].vars)
    BY <1>2, <1>8, <1>9, <1>12
  <2> QED
    BY <2>1, <2>2 DEF LabelOK, Awaited
<1>14. \A k \in Labels : LabelOK(T, k)'
  BY <1>1, <1>8, <1>13, LabelStaysAt
<1>15. ASSUME NEW i \in pending' PROVE i \in PendingType /\ JumpOK(T, i)'
  <2>1. PICK j \in pending : i = IF j.label = l /\ j.late THEN [j EXCEPT !.end = Ptr(s)] ELSE j
    BY <1>2 DEF LabelStmt, Resolved
  <2>2. j \in PendingType /\ JumpOK(T, j) /\ Ptr(s) \in Nat
    BY <1>2, <1>5, PtrFacts DEF Sharing
  <2>3. CASE j.label = l /\ j.late
    <3>1. i = [j EXCEPT !.end = Ptr(s)]
      BY <2>1, <2>3
    <3>2. i \in PendingType /\ i.kind = j.kind /\ i.begin = j.begin /\ i.end = Ptr(s) /\ i.from = j.from /\ i.label = l
      BY <2>2, <2>3, <3>1 DEF PendingType
    <3>3. ASSUME i.kind = "goto" PROVE GotoOK(T, i)'
      <4>1. i.label \in Labels /\ i.from = i.begin
        BY <2>2, <3>2, <3>3 DEF JumpOK, GotoOK
      <4>2. labelled'[i.label].seen /\ labelled'[i.label].vars = s
        BY <1>8, <1>9, <3>2
      <4>3. ToSet(ListAt(T, i.end)) \subseteq ToSet(labelled'[i.label].vars) /\ i.end = Ptr(labelled'[i.label].vars)
        BY <1>10, <3>2, <4>2
      <4> QED
        BY <4>1, <4>2, <4>3 DEF GotoOK
    <3>4. Chain(i.begin, T, fresh') /\ i.end \in 0 .. fresh' - 1
      BY <1>10, <1>12, <2>2, <3>2 DEF JumpOK
    <3> QED
      BY <3>2, <3>3, <3>4 DEF JumpOK
  <2>4. CASE ~(j.label = l /\ j.late) /\ (j.kind = "goto" => j.label # l)
    <3>1. j.kind = "goto" => LabelKept(j.label)
      BY <1>8, <2>2, <2>4 DEF JumpOK, GotoOK
    <3>2. JumpOK(T, j)'
      BY <1>12, <3>1, JumpStaysAt
    <3> QED
      BY <2>1, <2>2, <2>4, <3>2
  <2>5. CASE ~j.late /\ j.kind = "goto" /\ j.label = l
    <3>1. i = j /\ GotoOK(T, j)
      BY <2>1, <2>2, <2>5 DEF JumpOK
    <3>2. labels[l] # Absent /\ j.end = labels[l] /\ j.from = j.begin
      BY <1>1, <2>5, <3>1 DEF GotoOK
    <3>3. Held(T, l)
      BY <1>1, <1>5, <3>2 DEF LabelOK, Awaited
    <3>4. ToSet(ListAt(T, j.end)) \subseteq ToSet(s)
      BY <1>2, <3>2, <3>3, HeldInScope
    <3>5. labelled'[l].seen /\ labelled'[l].vars = s /\ labelled'[l].depth # 0
      BY <1>8, <1>9, <3>3 DEF Held
    <3>6. GotoOK(T, j)'
      BY <2>5, <3>2, <3>4, <3>5 DEF GotoOK
    <3>7. JumpOK(T, j)'
      BY <1>12, <2>2, <3>6 DEF JumpOK
    <3> QED
      BY <2>2, <3>1, <3>7
  <2> QED
    BY <2>3, <2>4, <2>5
<1>16. pending' \in SUBSET PendingType /\ \A j \in pending' : JumpOK(T, j)'
  BY <1>15
<1>17. labels' \in [Labels -> Int] /\ labelled' \in [Labels -> LabelledType]
  BY <1>4, <1>5, <1>8, <1>9, <1>10
<1> QED
  BY <1>1, <1>14, <1>16, <1>17, SharingIdle

LEMMA SharedInit == Init => Shared
<1> SUFFICES ASSUME Init PROVE Shared
  OBVIOUS
<1>1. PICK T : T = [x \in Nat |-> <<>>]
  OBVIOUS
<1>2. <<>> \in Seq(E)
  BY Empty
<1>3. T \in [Nat -> Seq(E)]
  BY <1>1, <1>2
<1>4. labels = [l \in Labels |-> Absent] /\ labelled = [l \in Labels |-> Unlabelled] /\ fresh = 1 /\ fnScope = NULL
      /\ pending = {} /\ frames = <<>>
  BY DEF Init
<1>5. Absent = -1 /\ Unlabelled \in LabelledType /\ Unlabelled.seen = FALSE /\ Unlabelled.vars = <<>>
  BY <1>2 DEF Absent, Unlabelled, LabelledType
<1>6. Chain(<<>>, T, fresh)
  BY ChainNil
<1>7. \A l \in Labels : LabelOK(T, l)
  <2>1. SUFFICES ASSUME NEW l \in Labels PROVE LabelOK(T, l)
    OBVIOUS
  <2>2. labels[l] = Absent /\ labelled[l] = Unlabelled
    BY <1>4
  <2>3. Absent \in -1 .. fresh - 1
    BY <1>4, <1>5
  <2> QED
    BY <1>5, <1>6, <2>2, <2>3 DEF LabelOK, Awaited
<1>8. labels \in [Labels -> Int] /\ labelled \in [Labels -> LabelledType] /\ fnScope \in 0 .. fresh - 1
  BY <1>4, <1>5 DEF NULL
<1>9. Sharing(T)
  BY <1>3, <1>4, <1>7, <1>8 DEF Sharing
<1> QED
  BY <1>9 DEF Shared

LEMMA SharedNext == Base /\ Shared /\ [Next]_vars => Shared'
<1> SUFFICES ASSUME Base, Shared, [Next]_vars PROVE Shared'
  OBVIOUS
<1>0. PICK T : Sharing(T)
  BY DEF Shared
<1>1. ASSUME NEW d \in VarDecls \cup OtherDecls, Declare(d) PROVE Shared'
  BY <1>0, <1>1, SharedDeclare
<1>2. ASSUME NEW d \in VarDecls \cup OtherDecls, DeclareGlobal(d) PROVE Shared'
  BY <1>0, <1>2, SharedDeclareGlobal
<1>3. ASSUME NEW n \in 0 .. MaxParams, BeginFunction(n) PROVE Shared'
  BY <1>3, SharedBegin
<1>4. ASSUME NEW kind \in uses.kinds, Open(kind) PROVE Shared'
  BY <1>0, <1>4, SharedOpen
<1>5. ASSUME NEW kind \in uses.kinds, NEW d \in HeadDecls(kind), OpenHead(kind, d) PROVE Shared'
  BY <1>0, <1>5, SharedOpenHead
<1>6. CASE Close
  BY <1>0, <1>6, SharedClose
<1>7. CASE EndFunction
  BY <1>0, <1>7, SharedEndFunction
<1>8. CASE Break
  BY <1>0, <1>8, SharedIdle DEF Break, Step, parser, Idle
<1>9. CASE Continue
  BY <1>0, <1>9, SharedIdle DEF Continue, Step, parser, Idle
<1>10. CASE Return
  BY <1>0, <1>10, SharedReturn
<1>11. ASSUME NEW l \in Labels, Goto(l) PROVE Shared'
  BY <1>0, <1>11, SharedGoto
<1>12. ASSUME NEW l \in Labels, LocalLabel(l) PROVE Shared'
  BY <1>0, <1>12, SharedLocalLabel
<1>13. ASSUME NEW l \in Labels, LabelStmt(l) PROVE Shared'
  BY <1>0, <1>13, SharedLabelStmt
<1>14. CASE UNCHANGED vars
  BY <1>0, <1>14, SharedIdle DEF vars, parser, Idle
<1> QED
  BY <1>1, <1>2, <1>3, <1>4, <1>5, <1>6, <1>7, <1>8, <1>9, <1>10, <1>11, <1>12, <1>13, <1>14 DEF Next

-----------------------------------------------------------------------------
(* What a goto cleans, once its label is parsed.                           *)
GotosClean == \A j \in pending : j.kind = "goto" /\ Reached(j) => GotoCleans(j)

LEMMA SharedCleans == Base /\ Shared => GotosClean
<1> SUFFICES ASSUME Base, NEW T, Sharing(T), NEW j \in pending, j.kind = "goto", Reached(j)
             PROVE  GotoCleans(j)
  BY DEF Shared, GotosClean
<1>1. T \in [Nat -> Seq(E)] /\ JumpOK(T, j) /\ GotoOK(T, j) /\ fresh \in Nat \ {0}
  BY DEF Sharing, JumpOK, Base
<1>2. PICK b : b = j.begin /\ b = j.from /\ Chain(b, T, fresh)
  BY <1>1 DEF GotoOK, JumpOK
<1>3. PICK v : v = labelled[j.label].vars /\ Chain(v, T, fresh)
  BY <1>1 DEF GotoOK, Sharing, LabelOK
<1>4. PICK x \in Nat : x = j.end
  BY <1>1, SMTT(30) DEF JumpOK
<1>5. v \in Seq(E)
  BY <1>3 DEF Chain
<1>6. ToSet(ListAt(T, x)) \subseteq ToSet(v) /\ (labelled[j.label].depth = 0 => x = Ptr(v))
  BY <1>1, <1>3, <1>4 DEF GotoOK, Reached
<1>7. ToSet(Leaving(b, v)) \subseteq ToSet(Emitted(b, x))
  BY <1>1, <1>2, <1>5, <1>6, GotoAtLeast
<1>8. ASSUME ToSet(v) \subseteq ToSet(b), labelled[j.label].depth = 0 PROVE Emitted(b, x) = Leaving(b, v)
  <2>1. Emitted(b, Ptr(v)) = Leaving(b, v)
    BY <1>2, <1>3, <1>8, GotoExact
  <2> QED
    BY <1>6, <1>8, <2>1
<1> QED
  BY <1>2, <1>3, <1>4, <1>7, <1>8 DEF GotoCleans

-----------------------------------------------------------------------------
(* What break and continue leave for.                                      *)
LEMMA MaxIn ==
  ASSUME NEW n \in Nat, NEW S, S \subseteq 1 .. n, S # {}
  PROVE  Max(S) \in S /\ \A y \in S : y <= Max(S)
<1> DEFINE D == {n - x : x \in S}
<1>1. D \subseteq Nat /\ D # {}
  OBVIOUS
<1>2. PICK z \in D : \A y \in D : z <= y
  <2> HIDE DEF D
  <2> QED
    BY <1>1, MinIn
<1>3. PICK x \in S : z = n - x
  OBVIOUS
<1>4. \A y \in S : x >= y
  <2>1. SUFFICES ASSUME NEW y \in S PROVE x >= y
    OBVIOUS
  <2>2. n - x <= n - y
    BY <1>2, <1>3
  <2>3. x \in 1 .. n /\ y \in 1 .. n
    OBVIOUS
  <2> QED
    BY <2>2, <2>3
<1>5. Max(S) \in S /\ \A y \in S : Max(S) >= y
  BY <1>4 DEF Max
<1>6. \A y \in S : y \in 1 .. n
  OBVIOUS
<1> QED
  BY <1>5, <1>6

(* The target t is the body of the innermost statement of a kind in K.     *)
At(fr, n, K, t, m) ==
  fr[m].kind \in K /\ t = Ptr(fr[m].body.locals) /\ \A i \in m + 1 .. n : fr[i].kind \notin K
Inner(fr, n, K, t) ==
  \/ t = Absent /\ \A i \in 1 .. n : fr[i].kind \notin K
  \/ \E m \in 1 .. n : At(fr, n, K, t, m)
Switches == {"switch"}
LoopKinds == {"while", "for"}
Targeted(fr, sw, lp) ==
  fr # <<>> =>
    /\ Inner(fr, Len(fr), Switches, sw) /\ Inner(fr, Len(fr), LoopKinds, lp)
    /\ \A i \in 1 .. Len(fr) :
         Inner(fr, i - 1, Switches, fr[i].switch) /\ Inner(fr, i - 1, LoopKinds, fr[i].loop)
Targets == Targeted(frames, switch, loop)

LEMMA InnerKept ==
  ASSUME NEW fr, NEW fs, NEW n \in Nat, \A i \in 1 .. n : fs[i] = fr[i], NEW K, NEW t, Inner(fr, n, K, t)
  PROVE  Inner(fs, n, K, t)
<1>1. CASE t = Absent /\ \A i \in 1 .. n : fr[i].kind \notin K
  BY <1>1 DEF Inner
<1>2. ASSUME NEW m \in 1 .. n, At(fr, n, K, t, m) PROVE Inner(fs, n, K, t)
  <2>1. \A i \in m + 1 .. n : i \in 1 .. n
    OBVIOUS
  <2>2. At(fs, n, K, t, m)
    BY <1>2, <2>1 DEF At
  <2> QED
    BY <2>2 DEF Inner
<1> QED
  BY <1>1, <1>2 DEF Inner

(* A statement of another kind leaves the target, one of the kind sets it. *)
LEMMA InnerNext ==
  ASSUME NEW fr, NEW n \in Nat, NEW K, NEW t, Inner(fr, n, K, t), fr[n + 1].kind \notin K
  PROVE  Inner(fr, n + 1, K, t)
<1>1. CASE t = Absent /\ \A i \in 1 .. n : fr[i].kind \notin K
  <2>1. \A i \in 1 .. n + 1 : i \in 1 .. n \/ i = n + 1
    OBVIOUS
  <2> QED
    BY <1>1, <2>1 DEF Inner
<1>2. ASSUME NEW m \in 1 .. n, At(fr, n, K, t, m) PROVE Inner(fr, n + 1, K, t)
  <2>1. m \in 1 .. n + 1 /\ \A i \in m + 1 .. n + 1 : i \in m + 1 .. n \/ i = n + 1
    OBVIOUS
  <2>2. At(fr, n + 1, K, t, m)
    BY <1>2, <2>1 DEF At
  <2> QED
    BY <2>1, <2>2 DEF Inner
<1> QED
  BY <1>1, <1>2 DEF Inner

LEMMA InnerHere ==
  ASSUME NEW fr, NEW n \in Nat, NEW K, fr[n + 1].kind \in K
  PROVE  Inner(fr, n + 1, K, Ptr(fr[n + 1].body.locals))
<1>1. n + 1 \in 1 .. n + 1 /\ \A i \in (n + 1) + 1 .. n + 1 : FALSE
  OBVIOUS
<1>2. At(fr, n + 1, K, Ptr(fr[n + 1].body.locals), n + 1)
  BY <1>1 DEF At
<1> QED
  BY <1>1, <1>2 DEF Inner

(* The last statement of a kind in K is the target.                        *)
Top(fr, n, K, x) == x \in 1 .. n /\ fr[x].kind \in K /\ \A i \in 1 .. n : fr[i].kind \in K => i <= x

LEMMA TopIs ==
  ASSUME NEW n \in Nat, NEW fr, NEW K, NEW t, Inner(fr, n, K, t), NEW x, Top(fr, n, K, x)
  PROVE  t = Ptr(fr[x].body.locals)
<1>1. x \in 1 .. n /\ fr[x].kind \in K /\ \A i \in 1 .. n : fr[i].kind \in K => i <= x
  BY DEF Top
<1>2. PICK m \in 1 .. n : At(fr, n, K, t, m)
  BY <1>1 DEF Inner
<1>3. m <= x
  BY <1>1, <1>2 DEF At
<1>4. ~(x \in m + 1 .. n)
  BY <1>1, <1>2 DEF At
<1>5. m = x
  BY <1>1, <1>3, <1>4
<1> QED
  BY <1>2, <1>5 DEF At

LEMMA TargetsIdle ==
  ASSUME Targets, UNCHANGED <<frames, switch, loop>>
  PROVE  Targets'
<1>1. frames' = frames /\ switch' = switch /\ loop' = loop
  OBVIOUS
<1> QED
  BY <1>1 DEF Targets

LEMMA AppendOne ==
  ASSUME NEW V, NEW s \in Seq(V), NEW n \in Nat, Len(s) = n, NEW x \in V
  PROVE  /\ Append(s, x) \in Seq(V) /\ Len(Append(s, x)) = n + 1 /\ Append(s, x)[n + 1] = x
         /\ \A i \in 1 .. n : Append(s, x)[i] = s[i]
OBVIOUS

(* A statement f is opened.                                                *)
LEMMA TargetedOpen ==
  ASSUME NEW fr \in Seq(FrameType), NEW n \in Nat \ {0}, Len(fr) = n, NEW sw, NEW lp, Targeted(fr, sw, lp),
         NEW f \in FrameType, f.switch = sw, f.loop = lp,
         NEW s2, (IF f.kind = "switch" THEN Ptr(f.body.locals) ELSE sw) = s2,
         NEW l2, (IF f.kind \in {"while", "for"} THEN Ptr(f.body.locals) ELSE lp) = l2
  PROVE  Targeted(Append(fr, f), s2, l2)
<1>1. PICK fs \in Seq(FrameType) : fs = Append(fr, f)
  BY AppendOne
<1>2. Len(fs) = n + 1 /\ fs[n + 1] = f /\ \A i \in 1 .. n : fs[i] = fr[i]
  BY <1>1, AppendOne
<1>3. fr # <<>>
  BY Empty
<1>4. /\ Inner(fr, n, Switches, sw) /\ Inner(fr, n, LoopKinds, lp)
      /\ \A i \in 1 .. n : Inner(fr, i - 1, Switches, fr[i].switch) /\ Inner(fr, i - 1, LoopKinds, fr[i].loop)
  BY <1>3 DEF Targeted
<1>5. n \in Nat
  OBVIOUS
<1>6. Inner(fs, n, Switches, sw) /\ Inner(fs, n, LoopKinds, lp)
  BY <1>2, <1>4, <1>5, InnerKept
<1>7. Inner(fs, n + 1, Switches, s2)
  <2>1. CASE f.kind = "switch"
    <3>1. fs[n + 1].kind \in Switches /\ s2 = Ptr(fs[n + 1].body.locals)
      BY <1>2, <2>1 DEF Switches
    <3>2. Inner(fs, n + 1, Switches, Ptr(fs[n + 1].body.locals))
      BY <1>5, <3>1, InnerHere
    <3> QED
      BY <3>1, <3>2
  <2>2. CASE f.kind # "switch"
    <3>1. fs[n + 1].kind \notin Switches /\ s2 = sw
      BY <1>2, <2>2 DEF Switches
    <3>2. Inner(fs, n + 1, Switches, sw)
      BY <1>5, <1>6, <3>1, InnerNext
    <3> QED
      BY <3>1, <3>2
  <2> QED
    BY <2>1, <2>2
<1>8. Inner(fs, n + 1, LoopKinds, l2)
  <2>1. CASE f.kind \in {"while", "for"}
    <3>1. fs[n + 1].kind \in LoopKinds /\ l2 = Ptr(fs[n + 1].body.locals)
      BY <1>2, <2>1 DEF LoopKinds
    <3>2. Inner(fs, n + 1, LoopKinds, Ptr(fs[n + 1].body.locals))
      BY <1>5, <3>1, InnerHere
    <3> QED
      BY <3>1, <3>2
  <2>2. CASE f.kind \notin {"while", "for"}
    <3>1. fs[n + 1].kind \notin LoopKinds /\ l2 = lp
      BY <1>2, <2>2 DEF LoopKinds
    <3>2. Inner(fs, n + 1, LoopKinds, lp)
      BY <1>5, <1>6, <3>1, InnerNext
    <3> QED
      BY <3>1, <3>2
  <2> QED
    BY <2>1, <2>2
<1>9. ASSUME NEW i \in 1 .. n + 1
      PROVE  Inner(fs, i - 1, Switches, fs[i].switch) /\ Inner(fs, i - 1, LoopKinds, fs[i].loop)
  <2>1. CASE i = n + 1
    <3>1. i - 1 = n /\ fs[i] = f
      BY <1>2, <2>1
    <3> QED
      BY <1>6, <3>1
  <2>2. CASE i # n + 1
    <3>1. i \in 1 .. n /\ i - 1 \in Nat /\ \A j \in 1 .. i - 1 : j \in 1 .. n
      BY <2>2
    <3>2. fs[i] = fr[i] /\ \A j \in 1 .. i - 1 : fs[j] = fr[j]
      BY <1>2, <3>1
    <3>3. Inner(fr, i - 1, Switches, fr[i].switch) /\ Inner(fr, i - 1, LoopKinds, fr[i].loop)
      BY <1>4, <3>1
    <3>4. Inner(fs, i - 1, Switches, fr[i].switch) /\ Inner(fs, i - 1, LoopKinds, fr[i].loop)
      BY <3>1, <3>2, <3>3, InnerKept
    <3> QED
      BY <3>2, <3>4
  <2> QED
    BY <2>1, <2>2
<1>10. Targeted(fs, s2, l2)
  BY <1>2, <1>7, <1>8, <1>9 DEF Targeted
<1> QED
  BY <1>1, <1>10

LEMMA TargetsOpened ==
  ASSUME Base, Targets, frames # <<>>, NEW kind \in Kinds, NEW after \in ListsType, NEW decls, Opened(kind, after, decls)
  PROVE  Targets'
<1>1. lists \in ListsType /\ frames \in Seq(FrameType) /\ switch \in Int /\ loop \in Int
  BY DEF Base
<1>2. PICK n \in Nat \ {0} : Len(frames) = n
  BY <1>1, EmptySeq
<1>3. PICK f : f = [kind |-> kind, before |-> lists, body |-> after, switch |-> switch, loop |-> loop]
  OBVIOUS
<1>4. f \in FrameType /\ f.kind = kind /\ f.body = after /\ f.switch = switch /\ f.loop = loop
  BY <1>1, <1>3 DEF FrameType
<1>5. /\ frames' = Append(frames, f)
      /\ switch' = (IF f.kind = "switch" THEN Ptr(f.body.locals) ELSE switch)
      /\ loop' = (IF f.kind \in {"while", "for"} THEN Ptr(f.body.locals) ELSE loop)
  BY <1>3, <1>4 DEF Opened
<1>6. PICK s2 : s2 = (IF f.kind = "switch" THEN Ptr(f.body.locals) ELSE switch)
  OBVIOUS
<1>7. PICK l2 : l2 = (IF f.kind \in {"while", "for"} THEN Ptr(f.body.locals) ELSE loop)
  OBVIOUS
<1>8. Targeted(frames, switch, loop)
  BY DEF Targets
<1>9. Targeted(Append(frames, f), s2, l2)
  BY <1>1, <1>2, <1>4, <1>6, <1>7, <1>8, TargetedOpen
<1>10. Targeted(frames', switch', loop')
  BY <1>5, <1>6, <1>7, <1>9
<1> QED
  BY <1>10 DEF Targets

LEMMA TargetedClose ==
  ASSUME NEW fr \in Seq(FrameType), NEW m \in Nat \ {0}, Len(fr) = m, NEW sw, NEW lp, Targeted(fr, sw, lp)
  PROVE  Targeted(Front(fr), fr[m].switch, fr[m].loop)
<1>1. PICK fs \in Seq(FrameType) : fs = Front(fr)
  BY FrontFacts
<1>2. Len(fs) = m - 1 /\ \A i \in 1 .. m - 1 : fs[i] = fr[i]
  BY <1>1, FrontFacts
<1>3. fr # <<>>
  BY Empty
<1>4. \A i \in 1 .. m : Inner(fr, i - 1, Switches, fr[i].switch) /\ Inner(fr, i - 1, LoopKinds, fr[i].loop)
  BY <1>3 DEF Targeted
<1>5. ASSUME NEW i \in 1 .. m
      PROVE  Inner(fs, i - 1, Switches, fr[i].switch) /\ Inner(fs, i - 1, LoopKinds, fr[i].loop)
  <2>1. i - 1 \in Nat /\ \A j \in 1 .. i - 1 : j \in 1 .. m - 1
    OBVIOUS
  <2>2. \A j \in 1 .. i - 1 : fs[j] = fr[j]
    BY <1>2, <2>1
  <2> QED
    BY <1>4, <2>1, <2>2, InnerKept
<1>6. m \in 1 .. m
  OBVIOUS
<1>7. Inner(fs, m - 1, Switches, fr[m].switch) /\ Inner(fs, m - 1, LoopKinds, fr[m].loop)
  BY <1>5, <1>6
<1>8. \A i \in 1 .. m - 1 : Inner(fs, i - 1, Switches, fs[i].switch) /\ Inner(fs, i - 1, LoopKinds, fs[i].loop)
  <2>1. \A i \in 1 .. m - 1 : i \in 1 .. m
    OBVIOUS
  <2> QED
    BY <1>2, <1>5, <2>1
<1>9. Targeted(fs, fr[m].switch, fr[m].loop)
  BY <1>2, <1>7, <1>8 DEF Targeted
<1> QED
  BY <1>1, <1>9

LEMMA TargetsClose ==
  ASSUME Base, Targets, Close
  PROVE  Targets'
<1>1. frames \in Seq(FrameType) /\ Targeted(frames, switch, loop)
  BY DEF Base, Targets
<1>2. PICK m \in Nat : Len(frames) = m
  BY <1>1, Empty
<1>3. m \in Nat \ {0}
  BY <1>2 DEF Close
<1>4. Last(frames) = frames[m]
  BY <1>1, <1>2, <1>3, LastFacts
<1>5. frames' = Front(frames) /\ switch' = frames[m].switch /\ loop' = frames[m].loop
  BY <1>4 DEF Close
<1>6. Targeted(Front(frames), frames[m].switch, frames[m].loop)
  BY <1>1, <1>2, <1>3, TargetedClose
<1> QED
  BY <1>5, <1>6 DEF Targets

LEMMA TargetsBegin ==
  ASSUME NEW params, BeginFunction(params)
  PROVE  Targets'
<1>1. switch' = Absent /\ loop' = Absent
  BY DEF BeginFunction
<1>2. PICK f : frames' = <<f>> /\ f.kind = "fn" /\ f.switch = Absent /\ f.loop = Absent
  BY DEF BeginFunction
<1>3. frames'[1] = f /\ Len(frames') = 1
  <2>1. f \in {f}
    OBVIOUS
  <2>2. Len(<<f>>) = 1 /\ <<f>>[1] = f
    BY <2>1, Single
  <2> QED
    BY <1>2, <2>2
<1>4. Inner(frames', 0, Switches, Absent) /\ Inner(frames', 0, LoopKinds, Absent)
  BY DEF Inner
<1>5. Inner(frames', 0 + 1, Switches, Absent) /\ Inner(frames', 0 + 1, LoopKinds, Absent)
  <2>1. 0 \in Nat /\ 0 + 1 = 1
    OBVIOUS
  <2>2. frames'[0 + 1].kind \notin Switches /\ frames'[0 + 1].kind \notin LoopKinds
    BY <1>2, <1>3, <2>1 DEF Switches, LoopKinds
  <2> QED
    BY <1>4, <2>1, <2>2, InnerNext
<1>6. 0 + 1 = 1 /\ \A i \in 1 .. 1 : i = 1 /\ i - 1 = 0
  OBVIOUS
<1>7. Inner(frames', Len(frames'), Switches, switch') /\ Inner(frames', Len(frames'), LoopKinds, loop')
  BY <1>1, <1>3, <1>5, <1>6
<1>8. \A i \in 1 .. Len(frames') :
        Inner(frames', i - 1, Switches, frames'[i].switch) /\ Inner(frames', i - 1, LoopKinds, frames'[i].loop)
  BY <1>2, <1>3, <1>4, <1>6
<1>9. Targeted(frames', switch', loop')
  BY <1>7, <1>8 DEF Targeted
<1> QED
  BY <1>9 DEF Targets

LEMMA TargetsNext == Base /\ Targets /\ [Next]_vars => Targets'
<1> SUFFICES ASSUME Base, Targets, [Next]_vars PROVE Targets'
  OBVIOUS
<1>0. lists \in ListsType /\ fresh \in Nat \ {0} /\ uses \in Programs
  BY DEF Base
<1>1. ASSUME NEW d \in VarDecls \cup OtherDecls, Declare(d) PROVE Targets'
  BY <1>1, TargetsIdle DEF Declare
<1>2. ASSUME NEW d \in VarDecls \cup OtherDecls, DeclareGlobal(d) PROVE Targets'
  BY <1>2, TargetsIdle DEF DeclareGlobal
<1>3. ASSUME NEW n \in 0 .. MaxParams, BeginFunction(n) PROVE Targets'
  BY <1>3, TargetsBegin
<1>4. ASSUME NEW kind \in uses.kinds, Open(kind) PROVE Targets'
  <2>1. kind \in Kinds
    BY <1>0, ProgramsAssumption
  <2>2. Opened(kind, lists, <<NoScope, NoScope>>) /\ frames # <<>>
    BY <1>4 DEF Open, InFunction
  <2> QED
    BY <1>0, <2>1, <2>2, TargetsOpened
<1>5. ASSUME NEW kind \in uses.kinds, NEW d \in HeadDecls(kind), OpenHead(kind, d) PROVE Targets'
  <2>1. kind \in Kinds
    BY <1>0, ProgramsAssumption
  <2>2. Opened(kind, Declared(d), <<Recorded(NoScope, d), NoScope>>) /\ frames # <<>>
    BY <1>5 DEF OpenHead, InFunction
  <2>3. DeclType(d)
    BY <1>0, HeadTyped, DeclTyped
  <2>4. Declared(d) \in ListsType
    BY <1>0, <2>3, DeclaredFacts
  <2> QED
    BY <2>1, <2>2, <2>4, TargetsOpened
<1>6. CASE Close
  BY <1>6, TargetsClose
<1>7. CASE EndFunction
  BY <1>7 DEF EndFunction, Targets, Targeted
<1>8. CASE Break
  BY <1>8, TargetsIdle DEF Break, parser
<1>9. CASE Continue
  BY <1>9, TargetsIdle DEF Continue, parser
<1>10. CASE Return
  BY <1>10, TargetsIdle DEF Return, parser
<1>11. ASSUME NEW l \in Labels, Goto(l) PROVE Targets'
  BY <1>11, TargetsIdle DEF Goto, parser
<1>12. ASSUME NEW l \in Labels, LocalLabel(l) PROVE Targets'
  BY <1>12, TargetsIdle DEF LocalLabel
<1>13. ASSUME NEW l \in Labels, LabelStmt(l) PROVE Targets'
  BY <1>13, TargetsIdle DEF LabelStmt
<1>14. CASE UNCHANGED vars
  BY <1>14, TargetsIdle DEF vars, parser
<1> QED
  BY <1>1, <1>2, <1>3, <1>4, <1>5, <1>6, <1>7, <1>8, <1>9, <1>10, <1>11, <1>12, <1>13, <1>14 DEF Next

-----------------------------------------------------------------------------
(* What the ways out that are parsed in one step clean.                    *)
ExitOK(e) == IF e.late THEN IsPrefix(e.due, e.cleaned) ELSE e.cleaned = e.due
ExitsOK == \A e \in exits : ExitOK(e)

LEMMA HeadOf ==
  ASSUME NEW V, NEW p \in Seq(V), NEW s \in Seq(V)
  PROVE  SubSeq(p \o s, 1, Len(p)) = p
<1>1. PICK a \in Nat : a = Len(p)
  BY Empty
<1>2. PICK b \in Nat : b = Len(s)
  BY Empty
<1>3. PICK l \in Seq(V) : l = p \o s
  BY ConcatProperties
<1>4. Len(l) = a + b /\ \A i \in 1 .. a : l[i] = p[i]
  BY <1>1, <1>2, <1>3, Joined
<1>5. \A i \in 1 .. a : l[i] \in V
  BY <1>1, <1>4, ElementOfSeq
<1>6. 1 \in Int /\ a \in Int /\ a - 1 + 1 = a
  OBVIOUS
<1>7. /\ SubSeq(l, 1, a) \in Seq(V) /\ Len(SubSeq(l, 1, a)) = (IF 1 <= a THEN a - 1 + 1 ELSE 0)
      /\ \A i \in 1 .. a - 1 + 1 : SubSeq(l, 1, a)[i] = l[1 + i - 1]
  BY <1>5, <1>6, SubSeqProperties
<1>8. PICK z \in Seq(V) : z = SubSeq(l, 1, a)
  BY <1>7
<1>9. Len(z) = a /\ \A i \in 1 .. a : z[i] = l[i]
  BY <1>6, <1>7, <1>8
<1>10. z = p
  BY <1>1, <1>4, <1>9, SeqEqual
<1> QED
  BY <1>1, <1>3, <1>8, <1>10

LEMMA PrefixOf ==
  ASSUME NEW V, NEW p \in Seq(V), NEW s \in Seq(V)
  PROVE  IsPrefix(p, p \o s)
<1>1. <<>> \in Seq(V) /\ p \o <<>> = p
  BY Empty, ConcatEmptySeq
<1>2. SubSeq(p \o <<>>, 1, Len(p)) = p /\ SubSeq(p \o s, 1, Len(p)) = p
  BY <1>1, HeadOf
<1>3. Len(p) <= Len(p \o s)
  <2>1. PICK a \in Nat : a = Len(p)
    BY Empty
  <2>2. PICK b \in Nat : b = Len(s)
    BY Empty
  <2>3. Len(p \o s) = a + b
    BY <2>1, <2>2, Joined
  <2> QED
    BY <2>1, <2>2, <2>3
<1> QED
  BY <1>1, <1>2, <1>3 DEF IsPrefix

(* The locals in scope outside the i-th statement.                         *)
LEMMA AfterIs ==
  ASSUME Base, NEW n \in Nat, Len(frames) = n, NEW i \in 2 .. n
  PROVE  /\ After(i) = FlatTo(scopes, "vars", 2 * i - 1) /\ After(i) \in Seq(E)
         /\ \A k \in i .. n : EndsWith(After(k), After(i))
         /\ EndsWith(lists.locals, After(i))
<1>1. scopes \in Seq(ScopeType) /\ frames \in Seq(FrameType) /\ Mirrored(frames, scopes, lists)
  BY DEF Base
<1>2. n \in Nat \ {0} /\ 2 * n \in Nat
  OBVIOUS
<1>3. Len(scopes) = 2 * n /\ lists.locals = FlatTo(scopes, "vars", 2 * n)
  BY <1>1, <1>2, LevelNow
<1>4. \A k \in 2 .. n : After(k) = FlatTo(scopes, "vars", 2 * k - 1)
  BY <1>1 DEF Mirrored, FrameMirrors, Sees, After
<1>5. \A j \in 1 .. 2 * n : scopes[j]["vars"] \in Seq(E)
  BY <1>1, <1>3, ScopeFields
<1>6. \A k \in 0 .. 2 * n : FlatTo(scopes, "vars", k) \in Seq(E)
  BY <1>2, <1>5, FlatTyped
<1>7. ASSUME NEW k \in i .. n PROVE EndsWith(After(k), After(i))
  <2>1. 2 * k - 1 \in Nat /\ 2 * i - 1 \in 0 .. 2 * k - 1 /\ k \in 2 .. n /\ \A j \in 1 .. 2 * k - 1 : j \in 1 .. 2 * n
    OBVIOUS
  <2>2. \A j \in 1 .. 2 * k - 1 : scopes[j]["vars"] \in Seq(E)
    BY <1>5, <2>1
  <2>3. \E x \in Seq(E) : FlatTo(scopes, "vars", 2 * k - 1) = x \o FlatTo(scopes, "vars", 2 * i - 1)
    BY <2>1, <2>2, FlatEnds
  <2> QED
    BY <1>4, <2>1, <2>3 DEF EndsWith
<1>8. EndsWith(lists.locals, After(i))
  <2>1. 2 * i - 1 \in 0 .. 2 * n
    OBVIOUS
  <2>2. \E x \in Seq(E) : FlatTo(scopes, "vars", 2 * n) = x \o FlatTo(scopes, "vars", 2 * i - 1)
    BY <1>2, <1>5, <2>1, FlatEnds
  <2> QED
    BY <1>3, <1>4, <2>2 DEF EndsWith
<1>9. 2 * i - 1 \in 0 .. 2 * n
  OBVIOUS
<1> QED
  BY <1>4, <1>6, <1>7, <1>8, <1>9

(* Leaving for the innermost statement of a kind cleans what is declared   *)
(* in it.                                                                  *)
LEMMA LeaveFor ==
  ASSUME Base, NEW T, Sharing(T), NEW n \in Nat, Len(frames) = n, NEW i \in 2 .. n
  PROVE  Emitted(lists.locals, Ptr(After(i))) = Leaving(InScope, After(i))
<1>1. After(i) \in Seq(E) /\ EndsWith(lists.locals, After(i))
  BY AfterIs
<1>2. frames # <<>>
  BY Empty
<1>3. InScope = lists.locals /\ Chain(lists.locals, T, fresh)
  BY <1>2, InScopeIs DEF Sharing
<1>4. PICK s \in Seq(E) : s = After(i)
  BY <1>1
<1>5. PICK p \in Seq(E) : lists.locals = p \o s
  BY <1>1, <1>4 DEF EndsWith
<1>6. Chain(p \o s, T, fresh)
  BY <1>3, <1>5
<1>7. Emitted(p \o s, Ptr(s)) = ToClean(p) /\ Leaving(p \o s, s) = ToClean(p)
  BY <1>6, CleanTail, LeavingTail
<1> QED
  BY <1>3, <1>4, <1>5, <1>7

(* Leaving for one outside it cleans this first.                           *)
LEMMA LeaveFarther ==
  ASSUME Base, NEW T, Sharing(T), NEW n \in Nat, Len(frames) = n, NEW i \in 2 .. n, NEW m \in 2 .. n, m <= i
  PROVE  IsPrefix(Leaving(InScope, After(i)), Emitted(lists.locals, Ptr(After(m))))
<1>0. i \in m .. n
  OBVIOUS
<1>1. After(i) \in Seq(E) /\ EndsWith(lists.locals, After(i)) /\ After(m) \in Seq(E) /\ EndsWith(After(i), After(m))
  BY <1>0, AfterIs
<1>2. frames # <<>>
  BY Empty
<1>3. InScope = lists.locals /\ Chain(lists.locals, T, fresh)
  BY <1>2, InScopeIs DEF Sharing
<1>4. PICK u \in Seq(E) : u = After(i)
  BY <1>1
<1>5. PICK k \in Seq(E) : k = After(m)
  BY <1>1
<1>6. PICK q \in Seq(E) : lists.locals = q \o u
  BY <1>1, <1>4 DEF EndsWith
<1>7. PICK s \in Seq(E) : u = s \o k
  BY <1>1, <1>4, <1>5 DEF EndsWith
<1>8. Chain(q \o u, T, fresh) /\ Chain(q \o (s \o k), T, fresh)
  BY <1>3, <1>6, <1>7
<1>9. Leaving(q \o u, u) = ToClean(q)
  BY <1>8, LeavingTail
<1>10. Emitted(q \o (s \o k), Ptr(k)) = ToClean(q \o s)
  BY <1>8, CleanFar
<1>11. ToClean(q \o s) = ToClean(q) \o ToClean(s)
  <2>1. IdsIn(q \o s, Carried) = IdsIn(q, Carried) \o IdsIn(s, Carried)
    BY IdsJoin
  <2> QED
    BY <2>1, ToCleanIs
<1>12. ToClean(q) \in Seq(Nat) /\ ToClean(s) \in Seq(Nat)
  BY CleanTyped
<1>13. IsPrefix(ToClean(q), ToClean(q) \o ToClean(s))
  BY <1>12, PrefixOf
<1> QED
  BY <1>3, <1>4, <1>5, <1>6, <1>7, <1>9, <1>10, <1>11, <1>13

LEMMA FnFirst ==
  ASSUME Base, NEW n \in Nat, Len(frames) = n, NEW i \in 1 .. n, frames[i].kind # "fn"
  PROVE  i \in 2 .. n
<1>1. Mirrored(frames, scopes, lists) /\ frames # <<>>
  BY Empty DEF Base
<1>2. frames[1].kind = "fn"
  BY <1>1 DEF Mirrored, OuterMirrors
<1>3. i # 1
  BY <1>2
<1> QED
  BY <1>3

LEMMA ExitsAre ==
  ASSUME NEW S, exits' = S, \A e \in S : ExitOK(e)
  PROVE  ExitsOK'
BY DEF ExitsOK, ExitOK

LEMMA ExitsBreak ==
  ASSUME Base, NEW T, Sharing(T), Targets, Break
  PROVE  ExitsOK'
<1>1. frames \in Seq(FrameType) /\ Targeted(frames, switch, loop)
  BY DEF Base, Targets
<1>2. PICK n \in Nat : Len(frames) = n
  BY <1>1, Empty
<1>3. DOMAIN frames = 1 .. n
  BY <1>1, <1>2, LenProperties
<1>4. Breakable \subseteq 1 .. n /\ Breakable # {}
  BY <1>3 DEF Break, Breakable
<1>5. PICK i \in Breakable : i = Max(Breakable) /\ \A y \in Breakable : y <= i
  BY <1>4, MaxIn
<1>6. i \in 1 .. n /\ frames[i].kind \in {"while", "for", "switch"} /\ frames # <<>>
  BY <1>2, <1>4, <1>5, Empty DEF Breakable
<1>7. i \in 2 .. n
  BY <1>2, <1>6, FnFirst
<1>8. PICK x : /\ exits' = {x}
               /\ x.cleaned = Emitted(lists.locals, BreakEnd) /\ x.due = Leaving(InScope, After(i))
               /\ x.late <=> frames[i].kind # "switch" /\ switch # Absent
  <2>1. PICK z : z = (frames[i].kind # "switch" /\ switch # Absent)
    OBVIOUS
  <2>2. PICK x : /\ exits' = {x}
                 /\ x = [Exit("break", Emitted(lists.locals, BreakEnd), Leaving(InScope, After(i))) EXCEPT !.late = z]
    BY <1>5, <2>1 DEF Break
  <2>3. x.cleaned = Emitted(lists.locals, BreakEnd) /\ x.due = Leaving(InScope, After(i)) /\ x.late = z
    BY <2>2 DEF Exit
  <2> QED
    BY <2>1, <2>2, <2>3
<1>9. Inner(frames, n, Switches, switch) /\ Inner(frames, n, LoopKinds, loop)
  BY <1>1, <1>2, <1>6 DEF Targeted
<1>10. \A m \in 1 .. n : frames[m].kind \in Switches \/ frames[m].kind \in LoopKinds => m \in Breakable
  BY <1>3 DEF Switches, LoopKinds, Breakable
<1>11. After(i) \in Seq(E) /\ Ptr(After(i)) \in Nat
  BY <1>2, <1>7, AfterIs, PtrFacts
<1>12. CASE frames[i].kind = "switch"
  <2>1. Top(frames, n, Switches, i)
    BY <1>5, <1>6, <1>10, <1>12 DEF Switches, Top
  <2>2. switch = Ptr(frames[i].body.locals)
    BY <1>9, <2>1, TopIs
  <2>3. BreakEnd = Ptr(After(i))
    BY <1>5, <1>11, <2>2 DEF BreakEnd, After, Absent
  <2>4. x.cleaned = x.due
    BY <1>2, <1>7, <1>8, <2>3, LeaveFor
  <2>5. exits' = {x} /\ \A e \in {x} : ExitOK(e)
    BY <1>8, <1>12, <2>4 DEF ExitOK
  <2> QED
    BY <2>5, ExitsAre
<1>13. CASE frames[i].kind # "switch" /\ switch = Absent
  <2>1. Top(frames, n, LoopKinds, i)
    BY <1>5, <1>6, <1>10, <1>13 DEF LoopKinds, Top
  <2>2. loop = Ptr(frames[i].body.locals)
    BY <1>9, <2>1, TopIs
  <2>3. BreakEnd = Ptr(After(i))
    BY <1>5, <1>13, <2>2 DEF BreakEnd, After
  <2>4. x.cleaned = x.due
    BY <1>2, <1>7, <1>8, <2>3, LeaveFor
  <2>5. exits' = {x} /\ \A e \in {x} : ExitOK(e)
    BY <1>8, <1>13, <2>4 DEF ExitOK
  <2> QED
    BY <2>5, ExitsAre
<1>14. CASE frames[i].kind # "switch" /\ switch # Absent
  <2>1. PICK m \in 1 .. n : At(frames, n, Switches, switch, m)
    BY <1>9, <1>14 DEF Inner
  <2>2. frames[m].kind = "switch" /\ switch = Ptr(After(m))
    BY <2>1 DEF At, Switches, After
  <2>3. m \in 2 .. n
    BY <1>2, <2>2, FnFirst
  <2>4. m <= i
    BY <1>5, <1>10, <2>2 DEF Switches
  <2>5. BreakEnd = Ptr(After(m))
    BY <1>14, <2>2 DEF BreakEnd
  <2>6. IsPrefix(Leaving(InScope, After(i)), Emitted(lists.locals, Ptr(After(m))))
    BY <1>2, <1>7, <2>3, <2>4, LeaveFarther
  <2>7. IsPrefix(x.due, x.cleaned)
    BY <1>8, <2>5, <2>6
  <2>8. exits' = {x} /\ \A e \in {x} : ExitOK(e)
    BY <1>8, <1>14, <2>7 DEF ExitOK
  <2> QED
    BY <2>8, ExitsAre
<1> QED
  BY <1>12, <1>13, <1>14

LEMMA ExitFields ==
  ASSUME NEW kind, NEW cleaned, NEW due
  PROVE  ExitOK(Exit(kind, cleaned, due)) <=> cleaned = due
BY DEF ExitOK, Exit

LEMMA ExitsContinue ==
  ASSUME Base, NEW T, Sharing(T), Targets, Continue
  PROVE  ExitsOK'
<1>1. frames \in Seq(FrameType) /\ Targeted(frames, switch, loop)
  BY DEF Base, Targets
<1>2. PICK n \in Nat : Len(frames) = n
  BY <1>1, Empty
<1>3. DOMAIN frames = 1 .. n
  BY <1>1, <1>2, LenProperties
<1>4. Loops \subseteq 1 .. n /\ Loops # {}
  BY <1>3 DEF Continue, Loops
<1>5. PICK i \in Loops : i = Max(Loops) /\ \A y \in Loops : y <= i
  BY <1>4, MaxIn
<1>6. i \in 1 .. n /\ frames[i].kind \in LoopKinds /\ frames[i].kind # "fn" /\ frames # <<>>
  BY <1>2, <1>4, <1>5, Empty DEF Loops, LoopKinds
<1>7. i \in 2 .. n
  BY <1>2, <1>6, FnFirst
<1>8. Inner(frames, n, LoopKinds, loop)
  BY <1>1, <1>2, <1>6 DEF Targeted
<1>9. \A m \in 1 .. n : frames[m].kind \in LoopKinds => m \in Loops
  BY <1>3 DEF LoopKinds, Loops
<1>10. loop = Ptr(frames[i].body.locals)
  <2>1. Top(frames, n, LoopKinds, i)
    BY <1>5, <1>6, <1>9 DEF Top
  <2> QED
    BY <1>8, <2>1, TopIs
<1>11. Emitted(lists.locals, loop) = Leaving(InScope, After(i))
  <2>1. loop = Ptr(After(i))
    BY <1>5, <1>10 DEF After
  <2> QED
    BY <1>2, <1>7, <2>1, LeaveFor
<1>12. PICK x : exits' = {x} /\ x = Exit("continue", Emitted(lists.locals, loop), Leaving(InScope, After(i)))
  BY <1>5 DEF Continue
<1>13. exits' = {x} /\ \A e \in {x} : ExitOK(e)
  <2>1. ExitOK(x)
    BY <1>11, <1>12, ExitFields
  <2> QED
    BY <1>12, <2>1
<1> QED
  BY <1>13, ExitsAre

LEMMA ExitsClose ==
  ASSUME Base, NEW T, Sharing(T), Close
  PROVE  ExitsOK'
<1>1. /\ scopes \in Seq(ScopeType) /\ frames \in Seq(FrameType) /\ Mirrored(frames, scopes, lists)
      /\ (frames # <<>> => Chain(lists.locals, T, fresh))
  BY DEF Base, Sharing
<1>2. PICK m \in Nat : Len(frames) = m
  BY <1>1, Empty
<1>3. m \in Nat \ {0} /\ m \in 2 .. m /\ 2 * m \in Nat \ {0} /\ 2 * m - 1 \in Nat \ {0}
  BY <1>2 DEF Close
<1>4. Len(scopes) = 2 * m /\ lists.locals = FlatTo(scopes, "vars", 2 * m) /\ frames # <<>>
  BY <1>1, <1>2, <1>3, LevelNow
<1>5. PICK f \in FrameType : f = frames[m] /\ f = Last(frames)
  BY <1>1, <1>2, <1>3, LastFacts
<1>6. FrameMirrors(f, scopes, m)
  BY <1>1, <1>2, <1>3, <1>5 DEF Mirrored
<1>7. PICK b : b = f.body.locals /\ b = FlatTo(scopes, "vars", 2 * m - 1)
  BY <1>6 DEF FrameMirrors, Sees
<1>8. PICK a : a = f.before.locals /\ a = FlatTo(scopes, "vars", 2 * m - 2)
  BY <1>6 DEF FrameMirrors, Sees
<1>9. \A j \in 1 .. 2 * m : scopes[j]["vars"] \in Seq(E)
  BY <1>1, <1>4, ScopeFields
<1>10. b \in Seq(E) /\ a \in Seq(E)
  <2>1. \A k \in 0 .. 2 * m : FlatTo(scopes, "vars", k) \in Seq(E)
    BY <1>3, <1>9, FlatTyped
  <2>2. 2 * m - 1 \in 0 .. 2 * m /\ 2 * m - 2 \in 0 .. 2 * m
    BY <1>3
  <2> QED
    BY <1>7, <1>8, <2>1, <2>2
<1>11. PICK p \in Seq(E) : p = scopes[2 * m].vars
  <2>1. 2 * m \in 1 .. 2 * m
    BY <1>3
  <2> QED
    BY <1>9, <2>1
<1>12. PICK q \in Seq(E) : q = scopes[2 * m - 1].vars
  <2>1. 2 * m - 1 \in 1 .. 2 * m
    BY <1>3
  <2> QED
    BY <1>9, <2>1
<1>13. lists.locals = p \o b
  <2>1. FlatTo(scopes, "vars", 2 * m) = scopes[2 * m]["vars"] \o FlatTo(scopes, "vars", 2 * m - 1)
    BY <1>3, FlatStep
  <2> QED
    BY <1>4, <1>7, <1>11, <2>1
<1>14. b = q \o a
  <2>1. FlatTo(scopes, "vars", 2 * m - 1) = scopes[2 * m - 1]["vars"] \o FlatTo(scopes, "vars", 2 * m - 1 - 1)
    BY <1>3, FlatStep
  <2>2. 2 * m - 1 - 1 = 2 * m - 2
    OBVIOUS
  <2> QED
    BY <1>7, <1>8, <1>12, <2>1, <2>2
<1>15. Last(scopes).vars = p /\ scopes[Len(scopes) - 1].vars = q
  <2>1. Last(scopes) = scopes[2 * m]
    BY <1>1, <1>3, <1>4, LastFacts
  <2> QED
    BY <1>4, <1>11, <1>12, <2>1
<1>16. Appended(lists.locals, Ptr(b)) = Own(p)
  <2>1. Chain(p \o b, T, fresh)
    BY <1>1, <1>4, <1>13
  <2>2. Appended(p \o b, Ptr(b)) = Own(p)
    BY <1>10, <2>1, CleanTail
  <2> QED
    BY <1>13, <2>2
<1>17. Appended(b, Ptr(a)) = Own(q)
  <2>1. Chain(p \o b, T, fresh)
    BY <1>1, <1>4, <1>13
  <2>2. Chain(b, T, fresh)
    BY <1>10, <2>1, ChainTail
  <2>3. Chain(q \o a, T, fresh)
    BY <1>14, <2>2
  <2>4. Appended(q \o a, Ptr(a)) = Own(q)
    BY <1>10, <2>3, CleanTail
  <2> QED
    BY <1>14, <2>4
<1>18. ASSUME NEW x \in EndOf(f) PROVE ExitOK(x)
  <2>1. \/ x = Exit(f.kind, Appended(lists.locals, Ptr(b)), Own(p))
        \/ x = Exit("head", Appended(b, Ptr(a)), Own(q))
    BY <1>7, <1>8, <1>15, <1>18 DEF EndOf
  <2>2. CASE x = Exit(f.kind, Appended(lists.locals, Ptr(b)), Own(p))
    BY <1>16, <2>2, ExitFields
  <2>3. CASE x = Exit("head", Appended(b, Ptr(a)), Own(q))
    BY <1>17, <2>3, ExitFields
  <2> QED
    BY <2>1, <2>2, <2>3
<1>19. PICK S : S = EndOf(f)
  OBVIOUS
<1>20. exits' = S /\ \A x \in S : ExitOK(x)
  BY <1>5, <1>18, <1>19 DEF Close
<1> QED
  BY <1>20, ExitsAre

LEMMA EpilogueIs == ASSUME NEW l \in Seq(E) PROVE Epilogue(l) = ToClean(l)
BY WalkNull DEF Epilogue, Emitted, ToClean

LEMMA ExitsEnd ==
  ASSUME Base, EndFunction
  PROVE  ExitsOK'
<1>1. frames # <<>>
  <2>1. Len(frames) = 1
    BY DEF EndFunction
  <2> QED
    BY <2>1, Empty
<1>2. InScope = lists.locals /\ lists.locals \in Seq(E)
  BY <1>1, InScopeIs
<1>3. PICK x : exits' = {x} /\ x = Exit("end", Epilogue(lists.locals), ToClean(InScope))
  BY DEF EndFunction
<1>4. Epilogue(lists.locals) = ToClean(InScope)
  BY <1>2, EpilogueIs
<1>5. exits' = {x} /\ \A e \in {x} : ExitOK(e)
  <2>1. ExitOK(x)
    BY <1>3, <1>4, ExitFields
  <2> QED
    BY <1>3, <2>1
<1> QED
  BY <1>5, ExitsAre

LEMMA ExitsNone == ASSUME exits' = {} PROVE ExitsOK'
BY DEF ExitsOK

LEMMA ExitsNext == Base /\ Shared /\ Targets /\ ExitsOK /\ [Next]_vars => ExitsOK'
<1> SUFFICES ASSUME Base, Shared, Targets, ExitsOK, [Next]_vars PROVE ExitsOK'
  OBVIOUS
<1>0. PICK T : Sharing(T)
  BY DEF Shared
<1>1. ASSUME NEW d \in VarDecls \cup OtherDecls, Declare(d) PROVE ExitsOK'
  BY <1>1, ExitsNone DEF Declare
<1>2. ASSUME NEW d \in VarDecls \cup OtherDecls, DeclareGlobal(d) PROVE ExitsOK'
  BY <1>2, ExitsNone DEF DeclareGlobal
<1>3. ASSUME NEW n \in 0 .. MaxParams, BeginFunction(n) PROVE ExitsOK'
  BY <1>3, ExitsNone DEF BeginFunction
<1>4. ASSUME NEW kind \in uses.kinds, Open(kind) PROVE ExitsOK'
  BY <1>4, ExitsNone DEF Open, Opened
<1>5. ASSUME NEW kind \in uses.kinds, NEW d \in HeadDecls(kind), OpenHead(kind, d) PROVE ExitsOK'
  BY <1>5, ExitsNone DEF OpenHead, Opened
<1>6. CASE Close
  BY <1>0, <1>6, ExitsClose
<1>7. CASE EndFunction
  BY <1>7, ExitsEnd
<1>8. CASE Break
  BY <1>0, <1>8, ExitsBreak
<1>9. CASE Continue
  BY <1>0, <1>9, ExitsContinue
<1>10. CASE Return
  BY <1>10, ExitsNone DEF Return
<1>11. ASSUME NEW l \in Labels, Goto(l) PROVE ExitsOK'
  BY <1>11, ExitsNone DEF Goto
<1>12. ASSUME NEW l \in Labels, LocalLabel(l) PROVE ExitsOK'
  BY <1>12, ExitsNone DEF LocalLabel
<1>13. ASSUME NEW l \in Labels, LabelStmt(l) PROVE ExitsOK'
  BY <1>13, ExitsNone DEF LabelStmt
<1>14. CASE UNCHANGED vars
  <2>1. exits' = exits /\ \A e \in exits : ExitOK(e)
    BY <1>14 DEF vars, ExitsOK
  <2> QED
    BY <2>1, ExitsAre
<1> QED
  BY <1>1, <1>2, <1>3, <1>4, <1>5, <1>6, <1>7, <1>8, <1>9, <1>10, <1>11, <1>12, <1>13, <1>14 DEF Next

Exited == Shared /\ Targets /\ ExitsOK

LEMMA ExitedAlways == Spec => []Exited
<1>1. Init => Exited
  <2>1. Init => Targets /\ ExitsOK
    BY DEF Init, Targets, Targeted, ExitsOK
  <2> QED
    BY <2>1, SharedInit DEF Exited
<1>2. Base /\ Exited /\ [Next]_vars => Exited'
  BY SharedNext, TargetsNext, ExitsNext DEF Exited
<1> QED
  BY <1>1, <1>2, BaseAlways, PTL DEF Spec

(* The ends of blocks, for statements and functions, break and continue    *)
(* clean what they leave, innermost first, and nothing else; goto what it  *)
(* leaves for a label parsed before or after it.  The lists of locals of a *)
(* function share their tails, so a walk that meets the entry its range    *)
(* ends at has passed just what is not in scope at the target.  Arrays at  *)
(* a block's end and break of a loop in a switch are the exceptions.       *)
THEOREM ExitsClean == Spec => []ExitsCleanScope
<1>1. Base /\ Exited => ExitsCleanScope
  BY SharedCleans DEF Exited, ExitsOK, ExitOK, GotosClean, ExitsCleanScope
<1> QED
  BY <1>1, BaseAlways, ExitedAlways, PTL

-----------------------------------------------------------------------------
(* The returns.  The function's outermost locals end with those that the   *)
(* epilogue is left: what is before them there is static, and what has     *)
(* been declared there since a return is not in the list it walks.         *)
Outer == IF frames = <<>> THEN ended.locals ELSE FlatTo(scopes, "vars", 2)
TailOK(o, x) == \E s, k \in Seq(E) : s \o k = o /\ Plain(s) /\ Ptr(k) = x
Splits(o, j, q, r, s, k) == Over(j.begin, o, q, r, s, k) /\ Ptr(k) = j.end
ReturnOK(o, j) ==
  /\ j.label = "none" /\ j.due = ToClean(j.begin)
  /\ ~j.late => \E q, r, s, k \in Seq(E) : Splits(o, j, q, r, s, k)
Returns ==
  /\ heads \subseteq 1 .. fresh - 1
  /\ frames # <<>> /\ fnScope \notin heads => TailOK(Outer, fnScope)
  /\ \A j \in pending : j.kind = "return" => ReturnOK(Outer, j)
  /\ ended.over => frames = <<>>

LEMMA ReturnsClean1 ==
  ASSUME NEW T, NEW n, NEW j, Chain(j.begin, T, n), NEW o, ReturnOK(o, j), ~j.late,
         ToSet(Epilogue(o)) \subseteq ToSet(j.due)
  PROVE  Emitted(j.begin, j.end) \o Epilogue(o) = j.due
<1>1. PICK q \in Seq(E), r \in Seq(E), s \in Seq(E), k \in Seq(E) : Splits(o, j, q, r, s, k)
  BY DEF ReturnOK
<1>2. Over(j.begin, o, q, r, s, k) /\ Ptr(k) = j.end /\ j.due = ToClean(j.begin)
  BY <1>1 DEF Splits, ReturnOK
<1>3. o \in Seq(E)
  <2>1. s \o k \in Seq(E)
    BY ConcatProperties
  <2>2. r \o (s \o k) \in Seq(E)
    BY <2>1, ConcatProperties
  <2> QED
    BY <1>2, <2>2 DEF Over
<1>4. Epilogue(o) = ToClean(o)
  BY <1>3, EpilogueIs
<1>5. Within(ToClean(o), ToClean(j.begin))
  BY <1>2, <1>4 DEF Within
<1>6. PICK b : b = j.begin
  OBVIOUS
<1>7. Over(b, o, q, r, s, k)
  BY <1>2, <1>6
<1>8. Chain(b, T, n) /\ Within(ToClean(o), ToClean(b))
  BY <1>5, <1>6
<1>9. CleanOnce(b, o, k)
  BY <1>7, <1>8, ReturnCleans
<1> QED
  BY <1>2, <1>4, <1>6, <1>9 DEF CleanOnce

LEMMA ReturnedCleans == Shared /\ Returns => ReturnsCleanScope
<1> SUFFICES ASSUME NEW T, Sharing(T), Returns, ended.over, NEW j \in pending, j.kind = "return", ~j.late,
                    ToSet(Epilogue(ended.locals)) \subseteq ToSet(j.due)
             PROVE  Emitted(j.begin, j.end) \o Epilogue(ended.locals) = j.due
  BY DEF Shared, ReturnsCleanScope
<1>1. Outer = ended.locals
  BY DEF Returns, Outer
<1>2. Chain(j.begin, T, fresh) /\ ReturnOK(ended.locals, j)
  BY <1>1 DEF Sharing, JumpOK, Returns
<1> QED
  BY <1>2, ReturnsClean1

LEMMA Wider ==
  ASSUME NEW a \in Nat, NEW b \in Nat, a <= b, NEW S, S \subseteq 1 .. a - 1, NEW R, R \subseteq S \cup 1 .. b - 1
  PROVE  R \subseteq 1 .. b - 1
OBVIOUS

(* The steps that leave the outermost locals as they are.                  *)
LEMMA ReturnsStay ==
  ASSUME Base, Returns, fresh' \in Nat, fresh <= fresh', Outer' = Outer,
         frames' # <<>> => frames # <<>> /\ (fnScope' = fnScope \/ fnScope' \in heads'),
         heads \subseteq heads', heads' \subseteq heads \cup 1 .. fresh' - 1,
         \A j \in pending' : j.kind = "return" => j \in pending, ended'.over => frames' = <<>>
  PROVE  Returns'
<1>1. fresh \in Nat \ {0} /\ heads \subseteq 1 .. fresh - 1
  BY DEF Base, Returns
<1>2. heads' \subseteq 1 .. fresh' - 1
  <2>1. PICK a \in Nat : a = fresh
    BY <1>1
  <2>2. PICK b \in Nat : b = fresh'
    OBVIOUS
  <2> QED
    BY <1>1, <2>1, <2>2, Wider
<1>3. ASSUME frames' # <<>>, fnScope' \notin heads' PROVE TailOK(Outer', fnScope')
  <2>1. frames # <<>> /\ fnScope' = fnScope /\ fnScope \notin heads
    BY <1>3
  <2>2. TailOK(Outer, fnScope)
    BY <2>1 DEF Returns
  <2> QED
    BY <2>1, <2>2
<1>4. \A j \in pending' : j.kind = "return" => ReturnOK(Outer', j)
  BY DEF Returns
<1> QED
  BY <1>2, <1>3, <1>4 DEF Returns

LEMMA OuterKeptIn ==
  ASSUME frames # <<>>, frames' # <<>>, NEW n \in Nat, SameScopes(scopes, scopes', n), 2 \in 0 .. n
  PROVE  Outer' = Outer
<1>1. FlatTo(scopes', "vars", 2) = FlatTo(scopes, "vars", 2)
  BY FlatKept
<1> QED
  BY <1>1 DEF Outer

(* In the function's outermost block its locals are the list.              *)
LEMMA OuterNow ==
  ASSUME NEW fr \in Seq(FrameType), Len(fr) = 1, NEW sc, NEW ls, Mirrored(fr, sc, ls)
  PROVE  fr # <<>> /\ ls.locals = FlatTo(sc, "vars", 2)
<1>1. PICK m \in Nat \ {0} : m = 1 /\ 2 * m = 2
  OBVIOUS
<1>2. Len(fr) = m
  BY <1>1
<1>3. fr # <<>> /\ ls.locals = FlatTo(sc, "vars", 2 * m)
  BY <1>2, LevelNow
<1> QED
  BY <1>1, <1>3

LEMMA ReturnsIdle ==
  ASSUME Base, Returns, frames' = frames, scopes' = scopes, fresh' = fresh, fnScope' = fnScope, heads' = heads,
         \A j \in pending' : j.kind = "return" => j \in pending, ended' = Running, frames # <<>>
  PROVE  Returns'
<1>1. fresh \in Nat /\ fresh <= fresh
  BY DEF Base
<1>2. Outer' = Outer
  BY DEF Outer
<1>3. ~ended'.over
  BY DEF Running
<1> QED
  BY <1>1, <1>2, <1>3, ReturnsStay

(* A variable declared in the outermost block.                             *)
LEMMA PushFacts ==
  ASSUME NEW e \in E, NEW s \in Seq(E)
  PROVE  /\ <<e>> \o s \in Seq(E)
         /\ \A i \in 1 .. Len(<<e>> \o s) : (<<e>> \o s)[i] = e \/ \E j \in 1 .. Len(s) : (<<e>> \o s)[i] = s[j]
<1>1. <<e>> \in Seq(E) /\ Len(<<e>>) = 1 /\ <<e>>[1] = e
  BY Single
<1>2. PICK m \in Nat : m = Len(s)
  BY Empty
<1>3. PICK l \in Seq(E) : l = <<e>> \o s
  BY <1>1, ConcatProperties
<1>4. Len(l) = 1 + m /\ (\A i \in 1 .. 1 : l[i] = <<e>>[i]) /\ \A i \in 1 .. m : l[1 + i] = s[i]
  BY <1>1, <1>2, <1>3, Joined
<1>5. ASSUME NEW i \in 1 .. 1 + m PROVE l[i] = e \/ \E j \in 1 .. m : l[i] = s[j]
  <2>1. CASE i = 1
    <3>1. i \in 1 .. 1
      BY <2>1
    <3> QED
      BY <1>1, <1>4, <2>1, <3>1
  <2>2. CASE i # 1
    <3>1. i - 1 \in 1 .. m /\ 1 + (i - 1) = i
      BY <2>2
    <3>2. l[1 + (i - 1)] = s[i - 1]
      BY <1>4, <3>1
    <3> QED
      BY <3>1, <3>2
  <2> QED
    BY <2>1, <2>2
<1> QED
  BY <1>2, <1>3, <1>4, <1>5

LEMMA TailGrows ==
  ASSUME NEW e \in E, e.sort \notin {"clean", "array"}, NEW o, NEW x, TailOK(o, x), NEW p, <<e>> \o o = p
  PROVE  TailOK(p, x)
<1>1. PICK s \in Seq(E), k \in Seq(E) : s \o k = o /\ Plain(s) /\ Ptr(k) = x
  BY DEF TailOK
<1>2. PICK t \in Seq(E) : t = <<e>> \o s
  BY PushFacts
<1>3. <<e>> \in Seq(E)
  BY Single
<1>4. (<<e>> \o s) \o k = <<e>> \o (s \o k)
  BY <1>3, Assoc
<1>5. t \o k = p
  BY <1>1, <1>2, <1>4
<1>6. Plain(t)
  <2>1. \A i \in 1 .. Len(t) : t[i] = e \/ \E j \in 1 .. Len(s) : t[i] = s[j]
    BY <1>2, PushFacts
  <2> QED
    BY <1>1, <2>1 DEF Plain
<1> QED
  BY <1>1, <1>5, <1>6 DEF TailOK

LEMMA TailNew ==
  ASSUME NEW e \in E, NEW o \in Seq(E), NEW p, <<e>> \o o = p
  PROVE  TailOK(p, e.id)
<1>1. <<>> \in Seq(E) /\ Len(<<>>) = 0
  BY Empty
<1>2. <<e>> \in Seq(E) /\ Len(<<e>>) = 1 /\ <<e>>[1] = e
  BY Single
<1>3. PICK k \in Seq(E) : k = <<e>> \o o
  BY PushFacts
<1>4. <<>> \o k = p
  BY <1>3, ConcatEmptySeq
<1>5. Plain(<<>>)
  BY <1>1 DEF Plain
<1>6. Ptr(k) = e.id
  <2>1. PICK m \in Nat : m = Len(o)
    BY Empty
  <2>2. Len(k) = 1 + m /\ \A i \in 1 .. 1 : k[i] = <<e>>[i]
    BY <1>2, <1>3, <2>1, Joined
  <2>3. k[1] = e /\ Len(k) # 0
    BY <1>2, <2>2
  <2> QED
    BY <1>1, <2>3, PtrFacts
<1> QED
  BY <1>1, <1>4, <1>5, <1>6 DEF TailOK

NotIn(x, b) == \A i \in 1 .. Len(b) : b[i].id # x
LEMMA ReturnGrows ==
  ASSUME NEW e \in E, NEW o, NEW j, ReturnOK(o, j), NotIn(e.id, j.begin), NEW p, <<e>> \o o = p
  PROVE  ReturnOK(p, j)
<1>1. SUFFICES ASSUME ~j.late PROVE \E q, r, s, k \in Seq(E) : Splits(p, j, q, r, s, k)
  BY DEF ReturnOK
<1>2. PICK q \in Seq(E), r \in Seq(E), s \in Seq(E), k \in Seq(E) : Splits(o, j, q, r, s, k)
  BY <1>1 DEF ReturnOK
<1>3. PICK t \in Seq(E) : t = <<e>> \o r
  BY PushFacts
<1>4. PICK u \in Seq(E) : u = s \o k
  BY ConcatProperties
<1>5. r \o u = o /\ Apart(r, j.begin)
  BY <1>2, <1>4 DEF Splits, Over
<1>6. t \o u = p
  <2>1. <<e>> \in Seq(E)
    BY Single
  <2>2. (<<e>> \o r) \o u = <<e>> \o (r \o u)
    BY <2>1, Assoc, SMTT(30)
  <2> QED
    BY <1>3, <1>5, <2>2
<1>7. Apart(t, j.begin)
  <2>1. \A i \in 1 .. Len(t) : t[i] = e \/ \E i2 \in 1 .. Len(r) : t[i] = r[i2]
    BY <1>3, PushFacts
  <2>2. SUFFICES ASSUME NEW i \in 1 .. Len(t), NEW m \in 1 .. Len(j.begin) PROVE t[i].id # j.begin[m].id
    BY DEF Apart
  <2>3. CASE t[i] = e
    BY <2>3 DEF NotIn
  <2>4. ASSUME NEW i2 \in 1 .. Len(r), t[i] = r[i2] PROVE t[i].id # j.begin[m].id
    BY <1>5, <2>4 DEF Apart
  <2> QED
    BY <2>1, <2>3, <2>4
<1>8. Splits(p, j, q, t, s, k)
  BY <1>2, <1>4, <1>6, <1>7 DEF Splits, Over
<1> QED
  BY <1>8

LEMMA FreshNotIn ==
  ASSUME NEW T, NEW n \in Nat, NEW b, Chain(b, T, n)
  PROVE  NotIn(n, b)
<1>1. SUFFICES ASSUME NEW i \in 1 .. Len(b), b[i].id = n PROVE FALSE
  BY DEF NotIn
<1>2. b[i].id < n
  BY DEF Chain
<1> QED
  BY <1>1, <1>2

(* A return is in the outermost block or in one inside it.                 *)
LEMMA ReturnNew ==
  ASSUME NEW b \in Seq(E), NEW o \in Seq(E), EndsWith(b, o), NEW x, NEW j, j.begin = b, j.end = x, j.label = "none",
         j.due = ToClean(b), ~j.late => TailOK(o, x)
  PROVE  ReturnOK(o, j)
<1>1. SUFFICES ASSUME ~j.late PROVE \E q, r, s, k \in Seq(E) : Splits(o, j, q, r, s, k)
  BY DEF ReturnOK
<1>2. PICK s \in Seq(E), k \in Seq(E) : s \o k = o /\ Plain(s) /\ Ptr(k) = x
  BY <1>1 DEF TailOK
<1>3. PICK q \in Seq(E) : q \o o = b
  BY DEF EndsWith
<1>4. <<>> \in Seq(E) /\ Len(<<>>) = 0 /\ <<>> \o o = o
  BY Empty, ConcatEmptySeq
<1>5. Apart(<<>>, b)
  BY <1>4 DEF Apart
<1>6. q \o (s \o k) = j.begin /\ <<>> \o (s \o k) = o
  BY <1>2, <1>3, <1>4
<1>7. Splits(o, j, q, <<>>, s, k)
  BY <1>2, <1>5, <1>6 DEF Splits, Over
<1> QED
  BY <1>4, <1>7

LEMMA ReturnsDeclare ==
  ASSUME Base, NEW T, Sharing(T), Returns, NEW d \in VarDecls \cup OtherDecls, Declare(d)
  PROVE  Returns'
<1>1. /\ fresh \in Nat \ {0} /\ lists \in ListsType /\ scopes \in Seq(ScopeType) /\ frames \in Seq(FrameType)
      /\ Mirrored(frames, scopes, lists)
  BY DEF Base
<1>2. DeclType(d)
  BY DeclTyped DEF Base
<1>3. frames # <<>> /\ lists' = Declared(d) /\ pending' = pending /\ frames' = frames /\ fresh' = fresh + 1
      /\ heads' = heads /\ ended' = Running
  BY DEF Declare, InFunction, Step
<1>4. fnScope' = IF d.space = "var" THEN FnScope(Entry(d.name, d.sort), Depth) ELSE fnScope
  BY DEF Declare
<1>5. PICK m \in Nat \ {0} : Len(frames) = m /\ Depth = m
  BY <1>1, <1>3, EmptySeq DEF Depth
<1>6. fresh' \in Nat /\ fresh <= fresh' /\ ~ended'.over
  BY <1>1, <1>3 DEF Running
<1>7. ASSUME Outer' = Outer, fnScope' = fnScope PROVE Returns'
  BY <1>3, <1>6, <1>7, ReturnsStay
<1>8. CASE m # 1
  <2>1. fnScope' = fnScope
    BY <1>4, <1>5, <1>8 DEF FnScope
  <2>2. PICK n \in Nat \ {0} : n = 2 * m
    BY <1>5
  <2>3. Len(scopes) = n
    BY <1>1, <1>5, <2>2, LevelNow
  <2>4. Adds(scopes, scopes', n, AddedVars(d), AddedTypedefs(d), AddedEnums(d))
    <3>1. scopes' = [scopes EXCEPT ![n] = Recorded(@, d)]
      BY <2>3 DEF Declare
    <3> QED
      BY <1>1, <1>2, <2>3, <3>1, DeclareAdds
  <2>5. SameScopes(scopes, scopes', n - 1) /\ n - 1 \in Nat /\ 2 \in 0 .. n - 1
    BY <1>8, <2>2, <2>4 DEF Adds
  <2>6. Outer' = Outer
    BY <1>3, <2>5, OuterKeptIn
  <2> QED
    BY <1>7, <2>1, <2>6
<1>9. CASE m = 1
  <2>1. PICK o \in Seq(E) : o = lists.locals /\ o = Outer
    <3>1. lists.locals = FlatTo(scopes, "vars", 2)
      BY <1>1, <1>5, <1>9, OuterNow
    <3> QED
      BY <1>1, <1>3, <3>1 DEF Outer, ListsType
  <2>2. Outer' = lists'.locals
    <3>1. Base'
      BY BaseDeclare
    <3>2. Mirrored(frames, scopes', lists')
      BY <1>3, <3>1 DEF Base
    <3>3. lists'.locals = FlatTo(scopes', "vars", 2)
      BY <1>1, <1>5, <1>9, <3>2, OuterNow
    <3> QED
      BY <1>3, <3>3 DEF Outer
  <2>3. Outer' = AddedVars(d) \o o
    BY <1>1, <1>2, <1>3, <2>1, <2>2, DeclaredFacts DEF Grow
  <2>4. CASE d.space # "var"
    <3>1. <<>> \o o = o
      BY ConcatEmptySeq
    <3>2. Outer' = Outer
      BY <2>1, <2>3, <2>4, <3>1 DEF AddedVars
    <3> QED
      BY <1>4, <1>7, <2>4, <3>2
  <2>5. CASE d.space = "var"
    <3>1. PICK e \in E : e = Entry(d.name, d.sort) /\ e.id = fresh /\ e.sort = d.sort
      BY <1>1, <1>2, <2>5, EntryTyped DEF DeclType, Entry
    <3>2. PICK p \in Seq(E) : <<e>> \o o = p /\ Outer' = p
      <4>1. Outer' = <<e>> \o o
        BY <2>3, <2>5, <3>1 DEF AddedVars
      <4>2. <<e>> \o o \in Seq(E)
        BY PushFacts
      <4> QED
        BY <4>1, <4>2
    <3>3. ASSUME fnScope' \notin heads' PROVE TailOK(p, fnScope')
      <4>1. CASE d.sort = "static"
        <5>1. fnScope' = fnScope /\ fnScope \notin heads
          BY <1>3, <1>4, <2>5, <3>1, <3>3, <4>1 DEF FnScope
        <5>2. TailOK(o, fnScope)
          BY <1>3, <2>1, <5>1 DEF Returns
        <5>3. e.sort \notin {"clean", "array"}
          BY <3>1, <4>1
        <5>4. TailOK(p, fnScope)
          BY <3>2, <5>2, <5>3, TailGrows
        <5> QED
          BY <5>1, <5>4
      <4>2. CASE d.sort # "static"
        <5>1. fnScope' = e.id
          BY <1>4, <1>5, <1>9, <2>5, <3>1, <4>2 DEF FnScope
        <5>2. TailOK(p, e.id)
          BY <3>2, TailNew
        <5> QED
          BY <5>1, <5>2
      <4> QED
        BY <4>1, <4>2
    <3>4. ASSUME NEW j \in pending, j.kind = "return" PROVE ReturnOK(p, j)
      <4>1. ReturnOK(o, j)
        BY <2>1, <3>4 DEF Returns
      <4>2. Chain(j.begin, T, fresh) /\ fresh \in Nat
        BY <1>1 DEF Sharing, JumpOK
      <4>3. NotIn(e.id, j.begin)
        BY <3>1, <4>2, FreshNotIn
      <4> QED
        BY <3>2, <4>1, <4>3, ReturnGrows
    <3>5. heads' \subseteq 1 .. fresh' - 1
      <4>1. heads \subseteq 1 .. fresh - 1 /\ fresh \in Nat
        BY <1>1 DEF Returns
      <4>2. PICK b \in Nat : b = fresh' /\ fresh <= b
        BY <1>6
      <4>3. heads \subseteq 1 .. b - 1
        BY <4>1, <4>2, Wider
      <4> QED
        BY <1>3, <4>2, <4>3
    <3> QED
      BY <1>3, <1>6, <3>2, <3>3, <3>4, <3>5 DEF Returns
  <2> QED
    BY <2>4, <2>5
<1> QED
  BY <1>8, <1>9

LEMMA ReturnsReturn ==
  ASSUME Base, NEW T, Sharing(T), Returns, Return
  PROVE  Returns'
<1>1. /\ frames # <<>> /\ frames' = frames /\ scopes' = scopes /\ fresh' = fresh /\ fnScope' = fnScope /\ heads' = heads
      /\ ended' = Running
  BY DEF Return, InFunction, Step, parser
<1>2. /\ scopes \in Seq(ScopeType) /\ frames \in Seq(FrameType) /\ Mirrored(frames, scopes, lists)
      /\ InScope = lists.locals
  BY <1>1, InScopeIs DEF Base
<1>3. PICK m \in Nat \ {0} : Len(frames) = m
  BY <1>1, <1>2, EmptySeq
<1>4. Len(scopes) = 2 * m /\ lists.locals = FlatTo(scopes, "vars", 2 * m)
  BY <1>2, <1>3, LevelNow
<1>5. 2 * m \in Nat /\ 2 \in 0 .. 2 * m
  OBVIOUS
<1>6. /\ FlatTo(scopes, "vars", 2 * m) \in Seq(E) /\ FlatTo(scopes, "vars", 2) \in Seq(E)
      /\ EndsWith(FlatTo(scopes, "vars", 2 * m), FlatTo(scopes, "vars", 2))
  BY <1>2, <1>4, <1>5, LocalsEnd
<1>7. PICK b \in Seq(E) : b = lists.locals
  BY <1>4, <1>6
<1>8. PICK o \in Seq(E) : o = Outer /\ EndsWith(b, o)
  BY <1>1, <1>4, <1>6, <1>7 DEF Outer
<1>9. PICK z : z = (fnScope \in heads)
  OBVIOUS
<1>10. PICK r : /\ pending' = pending \cup {r}
                /\ r = [Exit("return", <<>>, ToClean(b)) EXCEPT !.begin = b, !.end = fnScope, !.late = z]
  BY <1>2, <1>7, <1>9 DEF Return
<1>11. r.begin = b /\ r.end = fnScope /\ r.label = "none" /\ r.due = ToClean(b) /\ r.late = z
  BY <1>10 DEF Exit
<1>12. ~r.late => TailOK(o, fnScope)
  BY <1>1, <1>8, <1>9, <1>11 DEF Returns
<1>13. ReturnOK(o, r)
  BY <1>8, <1>11, <1>12, ReturnNew
<1>14. Outer' = o
  BY <1>1, <1>8 DEF Outer
<1>15. \A j \in pending' : j.kind = "return" => ReturnOK(o, j)
  BY <1>8, <1>10, <1>13 DEF Returns
<1>16. heads' \subseteq 1 .. fresh' - 1 /\ (fnScope' \notin heads' => TailOK(o, fnScope')) /\ ~ended'.over
  BY <1>1, <1>8 DEF Returns, Running
<1> QED
  BY <1>14, <1>15, <1>16 DEF Returns

LEMMA ReturnsLabel ==
  ASSUME Base, NEW T, Sharing(T), Returns, NEW l \in Labels, LabelStmt(l)
  PROVE  Returns'
<1>1. /\ frames # <<>> /\ frames' = frames /\ scopes' = scopes /\ fresh' = fresh /\ fnScope' = fnScope /\ heads' = heads
      /\ ended' = Running
  BY DEF LabelStmt, InFunction, Step
<1>2. ASSUME NEW i \in pending', i.kind = "return" PROVE i \in pending
  <2>1. PICK j \in pending : i = IF j.label = l /\ j.late THEN [j EXCEPT !.end = Ptr(lists.locals)] ELSE j
    BY <1>2 DEF LabelStmt, Resolved
  <2>2. j \in PendingType
    BY DEF Sharing
  <2>3. i.kind = j.kind
    BY <2>1, <2>2 DEF PendingType
  <2>4. j.label = "none"
    BY <1>2, <2>3 DEF Returns, ReturnOK
  <2>5. j.label # l
    BY <2>4, LabelsAssumption
  <2> QED
    BY <2>1, <2>5
<1> QED
  BY <1>1, <1>2, ReturnsIdle

LEMMA ReturnsGoto ==
  ASSUME Base, Returns, NEW l \in Labels, Goto(l)
  PROVE  Returns'
<1>1. /\ frames # <<>> /\ frames' = frames /\ scopes' = scopes /\ fresh' = fresh /\ fnScope' = fnScope /\ heads' = heads
      /\ ended' = Running
  BY DEF Goto, InFunction, Step, parser
<1>2. PICK r : pending' = pending \cup {r} /\ r.kind = "goto"
  <2>1. PICK x, y, z : x = lists.locals /\ y = InScope /\ z = (labels[l] = Absent)
    OBVIOUS
  <2>2. PICK w : w = IF labels[l] # Absent THEN labels[l] ELSE fnScope
    OBVIOUS
  <2>3. PICK r : /\ pending' = pending \cup {r}
                 /\ r = [Exit("goto", <<>>, <<>>) EXCEPT !.begin = x, !.end = w, !.from = y, !.label = l, !.late = z]
    BY <2>1, <2>2 DEF Goto
  <2>4. r.kind = "goto"
    BY <2>3 DEF Exit
  <2> QED
    BY <2>3, <2>4
<1>3. \A j \in pending' : j.kind = "return" => j \in pending
  BY <1>2
<1> QED
  BY <1>1, <1>3, ReturnsIdle

LEMMA ReturnsOpened ==
  ASSUME Base, Returns, frames # <<>>, NEW kind, NEW after, NEW head \in ScopeType, Opened(kind, after, <<head, NoScope>>),
         fresh' \in Nat, fresh <= fresh', fnScope' = fnScope \/ fnScope' \in heads',
         heads \subseteq heads', heads' \subseteq heads \cup 1 .. fresh' - 1, ended' = Running
  PROVE  Returns'
<1>1. frames \in Seq(FrameType) /\ scopes \in Seq(ScopeType) /\ Mirrored(frames, scopes, lists)
  BY DEF Base
<1>2. PICK m \in Nat \ {0} : Len(frames) = m
  BY <1>1, EmptySeq
<1>3. Len(scopes) = 2 * m
  BY <1>1, <1>2, LevelNow
<1>4. SameScopes(scopes, scopes', 2 * m) /\ 2 * m \in Nat /\ 2 \in 0 .. 2 * m
  BY <1>1, <1>3, OpenedKeeps DEF Opened
<1>5. frames' # <<>> /\ pending' = pending
  BY <1>1 DEF Opened
<1>6. Outer' = Outer
  BY <1>4, <1>5, OuterKeptIn
<1>7. ~ended'.over
  BY DEF Running
<1> QED
  BY <1>5, <1>6, <1>7, ReturnsStay

LEMMA ReturnsOpen ==
  ASSUME Base, Returns, NEW kind, Open(kind)
  PROVE  Returns'
<1>1. frames # <<>> /\ fresh' = fresh /\ fnScope' = fnScope /\ heads' = heads /\ ended' = Running
  BY DEF Open, InFunction, Step
<1>2. Opened(kind, lists, <<NoScope, NoScope>>) /\ NoScope \in ScopeType
  BY NoScopeTyped DEF Open
<1>3. fresh' \in Nat /\ fresh <= fresh'
  BY <1>1 DEF Base
<1>4. heads \subseteq heads' /\ heads' \subseteq heads \cup 1 .. fresh' - 1
  BY <1>1
<1> QED
  BY <1>1, <1>2, <1>3, <1>4, ReturnsOpened

(* A variable of a for that is not static becomes current_fn_scope_locals  *)
(* when the for is in the outermost block.                                 *)
LEMMA ReturnsOpenHead ==
  ASSUME Base, Returns, NEW kind \in uses.kinds, NEW d \in HeadDecls(kind), OpenHead(kind, d)
  PROVE  Returns'
<1>1. fresh \in Nat \ {0} /\ lists \in ListsType /\ uses \in Programs
  BY DEF Base
<1>2. /\ frames # <<>> /\ fresh' = fresh + 1 /\ ended' = Running
      /\ Opened(kind, Declared(d), <<Recorded(NoScope, d), NoScope>>)
  BY DEF OpenHead, InFunction, Step
<1>3. fnScope' = IF d.space = "var" THEN FnScope(Entry(d.name, d.sort), Depth) ELSE fnScope
  BY DEF OpenHead
<1>4. heads' = IF d.space = "var" /\ Depth = 1 THEN heads \cup {fresh} ELSE heads
  BY DEF OpenHead
<1>5. DeclType(d)
  BY <1>1, HeadTyped, DeclTyped
<1>6. Recorded(NoScope, d) \in ScopeType
  BY <1>1, <1>5, NoScopeTyped, RecordedFacts
<1>7. fresh' \in Nat /\ fresh <= fresh' /\ fresh \in 1 .. fresh' - 1
  BY <1>1, <1>2
<1>8. heads \subseteq heads' /\ heads' \subseteq heads \cup 1 .. fresh' - 1
  BY <1>4, <1>7
<1>9. fnScope' = fnScope \/ fnScope' \in heads'
  <2>1. CASE d.space = "var" /\ Depth = 1
    <3>1. fnScope' = fresh \/ fnScope' = fnScope
      BY <1>3, <2>1 DEF FnScope, Entry
    <3>2. fresh \in heads'
      BY <1>4, <2>1
    <3> QED
      BY <3>1, <3>2
  <2>2. CASE ~(d.space = "var" /\ Depth = 1)
    BY <1>3, <2>2 DEF FnScope
  <2> QED
    BY <2>1, <2>2
<1> QED
  BY <1>2, <1>6, <1>7, <1>8, <1>9, ReturnsOpened

LEMMA ReturnsClose ==
  ASSUME Base, Returns, Close
  PROVE  Returns'
<1>1. frames \in Seq(FrameType) /\ scopes \in Seq(ScopeType) /\ Mirrored(frames, scopes, lists) /\ fresh \in Nat
  BY DEF Base
<1>2. PICK m \in Nat : Len(frames) = m
  BY <1>1, Empty
<1>3. m \in Nat \ {0, 1} /\ m \in Nat \ {0}
  BY <1>2 DEF Close
<1>4. Len(scopes) = 2 * m /\ frames # <<>>
  BY <1>1, <1>2, <1>3, LevelNow
<1>5. /\ scopes' = Closed /\ frames' = Front(frames) /\ fnScope' = fnScope /\ heads' = heads /\ fresh' = fresh
      /\ pending' = pending /\ ended' = Running
  BY DEF Close, Step
<1>6. SameScopes(scopes, scopes', 2 * m - 2) /\ 2 * m - 2 \in Nat /\ 2 \in 0 .. 2 * m - 2
  <2>1. 2 * m \in Nat \ {0, 1, 2} /\ 2 * m - 2 \in Nat /\ 2 \in 0 .. 2 * m - 2
    BY <1>3
  <2> QED
    BY <1>1, <1>4, <1>5, <2>1, ClosedFacts
<1>7. frames' # <<>>
  <2>1. Len(frames') = m - 1 /\ m - 1 # 0
    BY <1>1, <1>2, <1>3, <1>5, FrontFacts
  <2> QED
    BY <2>1, Empty
<1>8. Outer' = Outer
  BY <1>4, <1>6, <1>7, OuterKeptIn
<1>9. fresh' \in Nat /\ fresh <= fresh' /\ ~ended'.over
  BY <1>1, <1>5 DEF Running
<1> QED
  BY <1>4, <1>5, <1>8, <1>9, ReturnsStay

LEMMA ReturnsEnd ==
  ASSUME Base, Returns, EndFunction
  PROVE  Returns'
<1>1. frames \in Seq(FrameType) /\ Mirrored(frames, scopes, lists) /\ fresh \in Nat
  BY DEF Base
<1>2. Len(frames) = 1 /\ frames' = <<>> /\ heads' = heads /\ fresh' = fresh /\ pending' = pending
  BY DEF EndFunction
<1>3. ended'.locals = lists.locals
  BY DEF EndFunction
<1>4. frames # <<>> /\ lists.locals = FlatTo(scopes, "vars", 2)
  BY <1>1, <1>2, OuterNow
<1>5. Outer' = Outer
  BY <1>2, <1>3, <1>4 DEF Outer
<1>6. fresh' \in Nat /\ fresh <= fresh'
  BY <1>1, <1>2
<1> QED
  BY <1>2, <1>5, <1>6, ReturnsStay

LEMMA ReturnsGlobal ==
  ASSUME Base, Returns, NEW d, DeclareGlobal(d)
  PROVE  Returns'
<1>1. /\ frames = <<>> /\ frames' = frames /\ pending' = {} /\ heads' = heads /\ fresh' = fresh + 1
      /\ ended' = Running
  BY DEF DeclareGlobal, InFunction, Step
<1>2. PICK a \in Nat : a = fresh /\ heads \subseteq 1 .. a - 1
  BY DEF Base, Returns
<1>3. PICK b \in Nat : b = fresh' /\ a <= b
  BY <1>1, <1>2
<1>4. heads \subseteq 1 .. b - 1
  BY <1>2, <1>3, Wider
<1>5. heads' \subseteq 1 .. fresh' - 1 /\ frames' = <<>> /\ ~ended'.over
  BY <1>1, <1>3, <1>4 DEF Running
<1> QED
  BY <1>1, <1>5 DEF Returns

(* A function begins with its parameters, none of which has a cleanup      *)
(* function; current_fn_scope_locals is the oldest.                        *)
LEMMA ParamsTail ==
  ASSUME fresh \in Nat \ {0}, NEW params \in Nat
  PROVE  TailOK(ParamList(params), IF params = 0 THEN 0 ELSE fresh)
<1>1. PICK e \in Seq(E) : e = ParamList(params) /\ Len(e) = params
  BY ParamFacts
<1>2. \A i \in 1 .. params : e[i].id = fresh + params - i /\ e[i].sort = "auto"
  BY <1>1 DEF ParamList
<1>3. CASE params = 0
  <2>1. e = <<>> /\ <<>> \in Seq(E) /\ Len(<<>>) = 0
    BY <1>1, <1>3, Empty
  <2>2. <<>> \o e = e
    BY ConcatEmptySeq
  <2>3. Ptr(e) = 0
    BY <2>1, PtrFacts
  <2>4. Plain(<<>>)
    BY <2>1 DEF Plain
  <2>5. \E s, k \in Seq(E) : s \o k = e /\ Plain(s) /\ Ptr(k) = 0
    BY <2>1, <2>2, <2>3, <2>4
  <2> QED
    BY <1>1, <1>3, <2>5 DEF TailOK
<1>4. CASE params # 0
  <2>1. params \in 1 .. Len(e)
    BY <1>1, <1>4
  <2>2. PICK p \in Seq(E), s \in Seq(E) : e = p \o s /\ s # <<>> /\ s[1] = e[params] /\ Len(s) = Len(e) - params + 1
    BY <2>1, Cut DEF SplitAt
  <2>3. Ptr(s) = fresh
    <3>1. Ptr(s) = s[1].id
      BY <2>2, PtrFacts
    <3>2. e[params].id = fresh + params - params
      BY <1>1, <1>2, <2>1
    <3> QED
      BY <2>2, <3>1, <3>2
  <2>4. Plain(p)
    <3>1. PICK n \in Nat : n = Len(p)
      BY Empty
    <3>2. PICK w \in Nat : w = Len(s)
      BY Empty
    <3>3. Len(p \o s) = n + w /\ \A i \in 1 .. n : (p \o s)[i] = p[i]
      BY <3>1, <3>2, Joined
    <3>4. n + w = params /\ \A i \in 1 .. n : e[i] = p[i]
      BY <1>1, <2>2, <3>3
    <3>5. \A i \in 1 .. n : i \in 1 .. params
      BY <3>4
    <3>6. \A i \in 1 .. n : p[i].sort = "auto"
      BY <1>2, <3>4, <3>5
    <3> QED
      BY <3>1, <3>6 DEF Plain
  <2>5. \E s2, k2 \in Seq(E) : s2 \o k2 = e /\ Plain(s2) /\ Ptr(k2) = fresh
    BY <2>2, <2>3, <2>4
  <2> QED
    BY <1>1, <1>4, <2>5 DEF TailOK
<1> QED
  BY <1>3, <1>4

LEMMA ReturnsBegin ==
  ASSUME Base, NEW params \in 0 .. MaxParams, BeginFunction(params)
  PROVE  Returns'
<1>1. fresh \in Nat \ {0} /\ params \in Nat /\ lists \in ListsType
  BY BoundsAssumption DEF Base
<1>2. PICK e \in Seq(E) : e = ParamList(params)
  BY <1>1, ParamFacts
<1>3. /\ lists' = [lists EXCEPT !.locals = e] /\ fnScope' = (IF params = 0 THEN NULL ELSE fresh)
      /\ pending' = {} /\ heads' = {} /\ ended' = Running
  BY <1>2 DEF BeginFunction, ParamList, Step
<1>4. PICK f : frames' = <<f>>
  BY DEF BeginFunction
<1>5. Len(frames') = 1
  <2>1. f \in {f}
    OBVIOUS
  <2>2. Len(<<f>>) = 1
    BY <2>1, Single
  <2> QED
    BY <1>4, <2>2
<1>6. Base'
  BY BaseBegin
<1>7. frames' \in Seq(FrameType) /\ Mirrored(frames', scopes', lists')
  BY <1>6 DEF Base
<1>8. frames' # <<>> /\ lists'.locals = FlatTo(scopes', "vars", 2)
  BY <1>5, <1>7, OuterNow
<1>9. lists'.locals = e
  BY <1>1, <1>3 DEF ListsType
<1>10. Outer' = e
  BY <1>8, <1>9 DEF Outer
<1>11. TailOK(e, fnScope')
  BY <1>1, <1>2, <1>3, ParamsTail DEF NULL
<1>12. heads' \subseteq 1 .. fresh' - 1 /\ TailOK(Outer', fnScope') /\ ~ended'.over
  BY <1>3, <1>10, <1>11 DEF Running
<1> QED
  BY <1>3, <1>12 DEF Returns

LEMMA ReturnsNext == Base /\ Shared /\ Returns /\ [Next]_vars => Returns'
<1> SUFFICES ASSUME Base, Shared, Returns, [Next]_vars PROVE Returns'
  OBVIOUS
<1>0. PICK T : Sharing(T)
  BY DEF Shared
<1>1. ASSUME NEW d \in VarDecls \cup OtherDecls, Declare(d) PROVE Returns'
  BY <1>0, <1>1, ReturnsDeclare
<1>2. ASSUME NEW d \in VarDecls \cup OtherDecls, DeclareGlobal(d) PROVE Returns'
  BY <1>2, ReturnsGlobal
<1>3. ASSUME NEW n \in 0 .. MaxParams, BeginFunction(n) PROVE Returns'
  BY <1>3, ReturnsBegin
<1>4. ASSUME NEW kind \in uses.kinds, Open(kind) PROVE Returns'
  BY <1>4, ReturnsOpen
<1>5. ASSUME NEW kind \in uses.kinds, NEW d \in HeadDecls(kind), OpenHead(kind, d) PROVE Returns'
  BY <1>5, ReturnsOpenHead
<1>6. CASE Close
  BY <1>6, ReturnsClose
<1>7. CASE EndFunction
  BY <1>7, ReturnsEnd
<1>8. CASE Break
  <2>1. frames # <<>>
    BY <1>8, EmptySeq DEF Break, Breakable
  <2> QED
    BY <1>8, <2>1, ReturnsIdle DEF Break, Step, parser
<1>9. CASE Continue
  <2>1. frames # <<>>
    BY <1>9, EmptySeq DEF Continue, Loops
  <2> QED
    BY <1>9, <2>1, ReturnsIdle DEF Continue, Step, parser
<1>10. CASE Return
  BY <1>0, <1>10, ReturnsReturn
<1>11. ASSUME NEW l \in Labels, Goto(l) PROVE Returns'
  BY <1>11, ReturnsGoto
<1>12. ASSUME NEW l \in Labels, LocalLabel(l) PROVE Returns'
  BY <1>12, ReturnsIdle DEF LocalLabel, InFunction, Step
<1>13. ASSUME NEW l \in Labels, LabelStmt(l) PROVE Returns'
  BY <1>0, <1>13, ReturnsLabel
<1>14. CASE UNCHANGED vars
  <2>1. /\ frames' = frames /\ fnScope' = fnScope /\ heads' = heads /\ fresh' = fresh /\ pending' = pending
        /\ ended' = ended /\ scopes' = scopes
    BY <1>14 DEF vars, parser
  <2>2. Outer' = Outer
    BY <2>1 DEF Outer
  <2> QED
    BY <2>1, <2>2 DEF Returns
<1> QED
  BY <1>1, <1>2, <1>3, <1>4, <1>5, <1>6, <1>7, <1>8, <1>9, <1>10, <1>11, <1>12, <1>13, <1>14 DEF Next

(* A return and the epilogue together clean everything in scope at the     *)
(* return, once: what return_statement() walks ends at the function's      *)
(* current_fn_scope_locals, what gen_function() walks begins at fn->locals,*)
(* and the two lists meet there, unless a for of the outermost block or a  *)
(* later declaration with a cleanup function has moved the meeting point.  *)
THEOREM ReturnsClean == Spec => []ReturnsCleanScope
<1>1. Init => Returns
  BY DEF Init, Returns, Running
<1>2. Base /\ Exited /\ Returns /\ [Next]_vars => Returns'
  BY ReturnsNext DEF Exited
<1>3. Exited /\ Returns => ReturnsCleanScope
  BY ReturnedCleans DEF Exited
<1> QED
  BY <1>1, <1>2, <1>3, BaseAlways, ExitedAlways, PTL DEF Spec

=============================================================================
