-------------------------- MODULE MacroTableProofs --------------------------
(***************************************************************************)
(* The macro table, for any names, definitions, options and files: the     *)
(* list and the hash table hold the same nodes, and in the first file      *)
(* find_macro() finds what C says.                                         *)
(***************************************************************************)
EXTENDS MacroTable, SequenceTheorems, WellFoundedInduction, TLAPS

(* Induction on the natural numbers, for a set.                            *)
Less == {ss \in Nat \X Nat : ss[1] < ss[2]}

LEMMA NatSetInduction ==
  ASSUME NEW S, 0 \in S, \A n \in Nat : n \in S => n + 1 \in S
  PROVE  Nat \subseteq S
<1>1. IsWellFoundedOn(Less, Nat)
  <2>1. Less = OpToRel(<, Nat)
    BY DEF Less, OpToRel
  <2> QED
    BY <2>1, NatLessThanWellFounded
<1>2. SUFFICES ASSUME Nat \ S # {} PROVE FALSE
  OBVIOUS
<1>3. Nat \ S \subseteq Nat
  OBVIOUS
<1>4. PICK x \in Nat \ S : \A y \in Nat \ S : ~(<<y, x>> \in Less)
  BY <1>1, <1>2, <1>3, WFMin
<1>5. x # 0
  OBVIOUS
<1>6. x - 1 \in Nat /\ <<x - 1, x>> \in Less
  BY <1>5 DEF Less
<1>7. x - 1 \in S
  BY <1>4, <1>6
<1> QED
  BY <1>6, <1>7

(* Sequences with an element put in front or taken out.                    *)
LEMMA Empty == ASSUME NEW T PROVE <<>> \in Seq(T) /\ Len(<<>>) = 0 /\ \A s \in Seq(T) : Len(s) = 0 => s = <<>>
OBVIOUS

LEMMA Pushed ==
  ASSUME NEW T, NEW s \in Seq(T), NEW x \in T, NEW n \in Nat, n = Len(s)
  PROVE  /\ <<x>> \o s \in Seq(T) /\ Len(<<x>> \o s) = n + 1 /\ (<<x>> \o s)[1] = x
         /\ \A i \in 1 .. n : (<<x>> \o s)[i + 1] = s[i]
<1>1. <<x>> \in Seq(T) /\ Len(<<x>>) = 1 /\ <<x>>[1] = x
  OBVIOUS
<1>2. <<x>> \o s \in Seq(T) /\ Len(<<x>> \o s) = 1 + n
  BY <1>1
<1>3. \A i \in 1 .. 1 + n : (<<x>> \o s)[i] = IF i <= 1 THEN <<x>>[i] ELSE s[i - 1]
  BY <1>1
<1>4. \A i \in 1 .. n : i + 1 \in 1 .. 1 + n /\ ~(i + 1 <= 1) /\ (i + 1) - 1 = i
  OBVIOUS
<1>5. 1 \in 1 .. 1 + n /\ 1 <= 1 /\ 1 + n = n + 1
  OBVIOUS
<1> QED
  BY <1>1, <1>2, <1>3, <1>4, <1>5

LEMMA WithoutFacts ==
  ASSUME NEW T, NEW s \in Seq(T), NEW i \in 1 .. Len(s)
  PROVE  /\ Without(s, i) \in Seq(T) /\ Len(Without(s, i)) = Len(s) - 1
         /\ \A j \in 1 .. Len(s) - 1 : Without(s, i)[j] = IF j < i THEN s[j] ELSE s[j + 1]
<1>0. PICK n \in Nat : n = Len(s)
  OBVIOUS
<1> DEFINE a == SubSeq(s, 1, i - 1)
<1> DEFINE b == SubSeq(s, i + 1, n)
<1>1. 1 \in Int /\ i - 1 \in Int /\ i + 1 \in Int /\ n \in Int /\ i \in 1 .. n
  BY <1>0
<1>2. (\A j \in 1 .. i - 1 : s[j] \in T) /\ \A j \in i + 1 .. n : s[j] \in T
  BY <1>0
<1>3. /\ a \in Seq(T) /\ Len(a) = (IF 1 <= i - 1 THEN i - 1 - 1 + 1 ELSE 0)
      /\ \A j \in 1 .. i - 1 - 1 + 1 : a[j] = s[1 + j - 1]
  BY <1>1, <1>2, SubSeqProperties
<1>4. /\ b \in Seq(T) /\ Len(b) = (IF i + 1 <= n THEN n - (i + 1) + 1 ELSE 0)
      /\ \A j \in 1 .. n - (i + 1) + 1 : b[j] = s[i + 1 + j - 1]
  <2>1. PICK k \in Int : k = i + 1
    BY <1>1
  <2>2. \A j \in k .. n : s[j] \in T
    BY <1>2, <2>1
  <2>3. /\ SubSeq(s, k, n) \in Seq(T) /\ Len(SubSeq(s, k, n)) = (IF k <= n THEN n - k + 1 ELSE 0)
        /\ \A j \in 1 .. n - k + 1 : SubSeq(s, k, n)[j] = s[k + j - 1]
    BY <1>1, <2>2, SubSeqProperties
  <2> QED
    BY <2>1, <2>3
<1>5. Without(s, i) = a \o b
  BY <1>0 DEF Without
<1> HIDE DEF a, b
<1>6. Len(a) = i - 1 /\ Len(b) = n - i
  BY <1>1, <1>3, <1>4
<1>7. a \o b \in Seq(T) /\ Len(a \o b) = (i - 1) + (n - i)
  <2>1. a \in Seq(T) /\ b \in Seq(T)
    BY <1>3, <1>4
  <2>2. a \o b \in Seq(T) /\ Len(a \o b) = Len(a) + Len(b)
    BY <2>1, ConcatProperties
  <2> QED
    BY <1>6, <2>2
<1>8. \A j \in 1 .. (i - 1) + (n - i) : (a \o b)[j] = IF j <= i - 1 THEN a[j] ELSE b[j - (i - 1)]
  <2>1. a \in Seq(T) /\ b \in Seq(T)
    BY <1>3, <1>4
  <2>2. \A j \in 1 .. Len(a) + Len(b) : (a \o b)[j] = IF j <= Len(a) THEN a[j] ELSE b[j - Len(a)]
    BY <2>1, ConcatProperties
  <2> QED
    BY <1>6, <2>2
<1>9. ASSUME NEW j \in 1 .. n - 1 PROVE (a \o b)[j] = IF j < i THEN s[j] ELSE s[j + 1]
  <2>1. j \in 1 .. (i - 1) + (n - i)
    BY <1>1
  <2>2. CASE j < i
    <3>1. j <= i - 1 /\ j \in 1 .. i - 1 - 1 + 1 /\ 1 + j - 1 = j
      BY <1>1, <2>2
    <3>2. a[j] = s[j]
      BY <1>3, <3>1
    <3> QED
      BY <1>8, <2>1, <2>2, <3>1, <3>2
  <2>3. CASE ~(j < i)
    <3>1. ~(j <= i - 1) /\ j - (i - 1) \in 1 .. n - (i + 1) + 1 /\ i + 1 + (j - (i - 1)) - 1 = j + 1
      BY <1>1, <2>3
    <3>2. b[j - (i - 1)] = s[j + 1]
      BY <1>4, <3>1
    <3> QED
      BY <1>8, <2>1, <2>3, <3>1, <3>2
  <2> QED
    BY <2>2, <2>3
<1>10. (i - 1) + (n - i) = n - 1
  BY <1>1
<1> QED
  BY <1>0, <1>5, <1>7, <1>9, <1>10

-----------------------------------------------------------------------------
(* Lists.                                                                  *)
NodeType == [name : Names, body : Bodies, next : Nat]
Linked(h) == h \in Seq(NodeType) /\ \A x \in 1 .. Len(h) : h[x].next < x

(* l is the list from x on: what comes before its i-th link points to what *)
(* comes after.                                                            *)
Before(h, x, l, i) == IF i = 0 THEN x ELSE h[l[i]].next
After(l, i) == IF i = Len(l) THEN 0 ELSE l[i + 1]
IsList(h, x, l) ==
  /\ l \in Seq(1 .. Len(h))
  /\ \A i \in 0 .. Len(l) : Before(h, x, l, i) = After(l, i)
On(l) == {l[i] : i \in 1 .. Len(l)}
Descending(l) == \A i, j \in 1 .. Len(l) : i < j => l[j] < l[i]

LEMMA SamePrefix ==
  ASSUME NEW h, NEW x, NEW l, NEW k, Len(h) \in Nat, IsList(h, x, l), IsList(h, x, k)
  PROVE  Len(l) <= Len(k) /\ \A i \in 1 .. Len(l) : l[i] = k[i]
<1> DEFINE Same == {i \in Nat : i <= Len(l) => i <= Len(k) /\ (i > 0 => l[i] = k[i])}
<1>1. /\ Len(l) \in Nat /\ Len(k) \in Nat
      /\ \A i \in 1 .. Len(l) : l[i] \in 1 .. Len(h)
      /\ \A i \in 1 .. Len(k) : k[i] \in 1 .. Len(h)
  BY DEF IsList
<1>2. 0 \in Same
  BY <1>1
<1>3. ASSUME NEW i \in Nat, i \in Same PROVE i + 1 \in Same
  <2>1. SUFFICES ASSUME i + 1 <= Len(l) PROVE i + 1 <= Len(k) /\ l[i + 1] = k[i + 1]
    OBVIOUS
  <2>2. i <= Len(k) /\ (i > 0 => l[i] = k[i]) /\ i \in 0 .. Len(l) /\ i \in 0 .. Len(k) /\ i # Len(l)
    BY <1>1, <1>3, <2>1
  <2>3. Before(h, x, l, i) = Before(h, x, k, i)
    BY <2>2 DEF Before
  <2>4. After(l, i) = After(k, i)
    BY <2>2, <2>3 DEF IsList
  <2>5. After(l, i) = l[i + 1] /\ i + 1 \in 1 .. Len(l)
    BY <1>1, <2>1, <2>2 DEF After
  <2>6. l[i + 1] # 0
    BY <1>1, <2>5
  <2>7. i # Len(k) /\ After(k, i) = k[i + 1]
    BY <2>4, <2>5, <2>6 DEF After
  <2>8. i + 1 <= Len(k)
    BY <1>1, <2>2, <2>7
  <2> QED
    BY <2>4, <2>5, <2>7, <2>8
<1> HIDE DEF Same
<1>4. Nat \subseteq Same
  BY <1>2, <1>3, NatSetInduction
<1>5. Len(l) \in Same /\ \A i \in 1 .. Len(l) : i \in Same
  BY <1>1, <1>4
<1> QED
  BY <1>1, <1>5 DEF Same

LEMMA ListUnique ==
  ASSUME NEW h, NEW x, NEW l, NEW k, Len(h) \in Nat, IsList(h, x, l), IsList(h, x, k)
  PROVE  l = k
<1>1. l \in Seq(1 .. Len(h)) /\ k \in Seq(1 .. Len(h)) /\ Len(l) \in Nat /\ Len(k) \in Nat
  BY DEF IsList
<1>2. Len(l) <= Len(k) /\ Len(k) <= Len(l) /\ \A i \in 1 .. Len(l) : l[i] = k[i]
  BY SamePrefix
<1>3. Len(l) = Len(k)
  BY <1>1, <1>2
<1> QED
  BY <1>1, <1>2, <1>3, SeqEqual

(* A node put in front of the list it points to.                           *)
LEMMA ConsIsList ==
  ASSUME NEW h, Len(h) \in Nat, NEW y \in 1 .. Len(h), NEW l, IsList(h, h[y].next, l)
  PROVE  /\ IsList(h, y, <<y>> \o l) /\ Len(<<y>> \o l) = Len(l) + 1 /\ (<<y>> \o l)[1] = y
         /\ \A i \in 1 .. Len(l) : (<<y>> \o l)[i + 1] = l[i]
         /\ On(<<y>> \o l) = On(l) \union {y}
<1> DEFINE k == <<y>> \o l
<1>1. l \in Seq(1 .. Len(h)) /\ Len(l) \in Nat
  BY DEF IsList
<1>2. /\ k \in Seq(1 .. Len(h)) /\ Len(k) = Len(l) + 1 /\ k[1] = y
      /\ \A i \in 1 .. Len(l) : k[i + 1] = l[i]
  BY <1>1, Pushed
<1> HIDE DEF k
<1>3. ASSUME NEW i \in 0 .. Len(k) PROVE Before(h, y, k, i) = After(k, i)
  <2>1. CASE i = 0
    BY <1>1, <1>2, <2>1 DEF Before, After
  <2>2. CASE i # 0
    <3>1. PICK j \in 0 .. Len(l) : i = j + 1
      BY <1>1, <1>2, <2>2
    <3>2. Before(h, h[y].next, l, j) = After(l, j)
      BY DEF IsList
    <3>3. Before(h, y, k, i) = Before(h, h[y].next, l, j)
      <4>1. CASE j = 0
        BY <1>2, <3>1, <4>1 DEF Before
      <4>2. CASE j # 0
        <5>1. j \in 1 .. Len(l) /\ i # 0
          BY <1>1, <3>1, <4>2
        <5>2. k[i] = l[j]
          BY <1>2, <3>1, <5>1
        <5> QED
          BY <4>2, <5>1, <5>2 DEF Before
      <4> QED
        BY <4>1, <4>2
    <3>4. After(k, i) = After(l, j)
      <4>1. CASE j = Len(l)
        BY <1>2, <3>1, <4>1 DEF After
      <4>2. CASE j # Len(l)
        <5>1. j + 1 \in 1 .. Len(l) /\ i # Len(k) /\ i + 1 = (j + 1) + 1
          BY <1>1, <1>2, <3>1, <4>2
        <5>2. k[i + 1] = l[j + 1]
          BY <1>2, <5>1
        <5> QED
          BY <4>2, <5>1, <5>2 DEF After
      <4> QED
        BY <4>1, <4>2
    <3> QED
      BY <3>2, <3>3, <3>4
  <2> QED
    BY <2>1, <2>2
<1>4. On(k) = On(l) \union {y}
  <2>1. ASSUME NEW i \in 1 .. Len(k) PROVE k[i] \in On(l) \union {y}
    <3>1. CASE i = 1
      BY <1>2, <3>1
    <3>2. CASE i # 1
      <4>1. PICK j \in 1 .. Len(l) : i = j + 1
        BY <1>1, <1>2, <3>2
      <4> QED
        BY <1>2, <4>1 DEF On
    <3> QED
      BY <3>1, <3>2
  <2>2. ASSUME NEW i \in 1 .. Len(l) PROVE l[i] \in On(k)
    <3>1. i + 1 \in 1 .. Len(k) /\ k[i + 1] = l[i]
      BY <1>1, <1>2
    <3> QED
      BY <3>1 DEF On
  <2>3. y \in On(k)
    <3>1. 1 \in 1 .. Len(k)
      BY <1>1, <1>2
    <3> QED
      BY <1>2, <3>1 DEF On
  <2> QED
    BY <2>1, <2>2, <2>3 DEF On
<1> QED
  BY <1>2, <1>3, <1>4 DEF IsList, k

(* The recursive function in List has a value.                             *)
LEMMA PathExists ==
  ASSUME NEW h, Linked(h)
  PROVE  \E g : g = [i \in 0 .. Len(h) |-> IF i = 0 THEN <<>> ELSE <<i>> \o g[h[i].next]]
<1> DEFINE Built == {n \in Nat : n <= Len(h) =>
             \E g : g = [i \in 0 .. n |-> IF i = 0 THEN <<>> ELSE <<i>> \o g[h[i].next]]}
<1>1. Len(h) \in Nat /\ \A x \in 1 .. Len(h) : h[x].next \in 0 .. x - 1
  <2>1. \A x \in 1 .. Len(h) : h[x] \in NodeType
    BY DEF Linked
  <2>2. \A x \in 1 .. Len(h) : h[x].next \in Nat
    BY <2>1 DEF NodeType
  <2> QED
    BY <2>2 DEF Linked
<1>2. 0 \in Built
  <2> DEFINE g == [i \in 0 .. 0 |-> <<>>]
  <2>1. g = [i \in 0 .. 0 |-> IF i = 0 THEN <<>> ELSE <<i>> \o g[h[i].next]]
    OBVIOUS
  <2> QED
    BY <2>1
<1>3. ASSUME NEW n \in Nat, n \in Built PROVE n + 1 \in Built
  <2>1. SUFFICES ASSUME n + 1 <= Len(h)
                 PROVE  \E g : g = [i \in 0 .. n + 1 |-> IF i = 0 THEN <<>> ELSE <<i>> \o g[h[i].next]]
    OBVIOUS
  <2>2. PICK f : f = [i \in 0 .. n |-> IF i = 0 THEN <<>> ELSE <<i>> \o f[h[i].next]]
    <3>1. n <= Len(h)
      BY <1>1, <2>1
    <3> QED
      BY <1>3, <3>1
  <2> DEFINE g == [i \in 0 .. n + 1 |-> IF i <= n THEN f[i] ELSE <<i>> \o f[h[i].next]]
  <2>3. ASSUME NEW i \in 0 .. n + 1
        PROVE  g[i] = IF i = 0 THEN <<>> ELSE <<i>> \o g[h[i].next]
    <3>1. CASE i = 0
      BY <2>2, <3>1
    <3>2. CASE i # 0
      <4>1. i \in 1 .. Len(h)
        BY <1>1, <2>1, <3>2
      <4>2. h[i].next \in 0 .. n /\ h[i].next <= n /\ h[i].next \in 0 .. n + 1
        BY <1>1, <4>1
      <4>3. g[h[i].next] = f[h[i].next]
        BY <4>2
      <4>4. g[i] = <<i>> \o f[h[i].next]
        <5>1. CASE i <= n
          <6>1. i \in 0 .. n
            BY <5>1
          <6>2. f[i] = <<i>> \o f[h[i].next]
            BY <2>2, <3>2, <6>1
          <6> QED
            BY <5>1, <6>2
        <5>2. CASE ~(i <= n)
          BY <5>2
        <5> QED
          BY <5>1, <5>2
      <4> QED
        BY <3>2, <4>3, <4>4
    <3> QED
      BY <3>1, <3>2
  <2>4. g = [i \in 0 .. n + 1 |-> g[i]]
    OBVIOUS
  <2> HIDE DEF g
  <2>5. g = [i \in 0 .. n + 1 |-> IF i = 0 THEN <<>> ELSE <<i>> \o g[h[i].next]]
    BY <2>3, <2>4
  <2> QED
    BY <2>5
<1> HIDE DEF Built
<1>4. Len(h) \in Built
  BY <1>1, <1>2, <1>3, NatSetInduction
<1> QED
  BY <1>1, <1>4 DEF Built

LEMMA ListEq ==
  ASSUME NEW h, Linked(h)
  PROVE  List(h, 0) = <<>> /\ \A x \in 1 .. Len(h) : List(h, x) = <<x>> \o List(h, h[x].next)
<1> DEFINE path == CHOOSE g : g = [i \in 0 .. Len(h) |-> IF i = 0 THEN <<>> ELSE <<i>> \o g[h[i].next]]
<1>1. path = [i \in 0 .. Len(h) |-> IF i = 0 THEN <<>> ELSE <<i>> \o path[h[i].next]]
  BY PathExists
<1>2. \A x : List(h, x) = path[x]
  BY DEF List
<1> HIDE DEF path
<1>3. Len(h) \in Nat
  BY DEF Linked
<1>4. 0 \in 0 .. Len(h) /\ \A x \in 1 .. Len(h) : x \in 0 .. Len(h) /\ x # 0
  BY <1>3
<1>5. path[0] = <<>> /\ \A x \in 1 .. Len(h) : path[x] = <<x>> \o path[h[x].next]
  BY <1>1, <1>4
<1> QED
  BY <1>2, <1>5

(* List() gives the list, from newer to older nodes.                       *)
LEMMA ListFacts ==
  ASSUME NEW h, Linked(h), NEW x \in 0 .. Len(h)
  PROVE  /\ IsList(h, x, List(h, x)) /\ Descending(List(h, x))
         /\ \A i \in 1 .. Len(List(h, x)) : List(h, x)[i] <= x
<1> DEFINE Good(y) == /\ IsList(h, y, List(h, y)) /\ Descending(List(h, y))
                      /\ \A i \in 1 .. Len(List(h, y)) : List(h, y)[i] <= y
<1> DEFINE Reached == {n \in Nat : \A y \in 0 .. n : y <= Len(h) => Good(y)}
<1>1. Len(h) \in Nat /\ \A y \in 1 .. Len(h) : h[y].next \in 0 .. y - 1
  <2>1. \A y \in 1 .. Len(h) : h[y] \in NodeType
    BY DEF Linked
  <2>2. \A y \in 1 .. Len(h) : h[y].next \in Nat
    BY <2>1 DEF NodeType
  <2> QED
    BY <2>2 DEF Linked
<1>2. Good(0)
  <2>1. List(h, 0) = <<>>
    BY ListEq
  <2>2. PICK l : l = List(h, 0)
    OBVIOUS
  <2>3. l \in Seq(1 .. Len(h)) /\ Len(l) = 0
    BY <2>1, <2>2, Empty
  <2>4. \A i \in 0 .. Len(l) : Before(h, 0, l, i) = After(l, i)
    BY <2>3 DEF Before, After
  <2>5. Descending(l) /\ \A i \in 1 .. Len(l) : l[i] <= 0
    BY <2>3 DEF Descending
  <2> QED
    BY <2>2, <2>3, <2>4, <2>5 DEF IsList
<1>3. 0 \in Reached
  <2>1. \A y \in 0 .. 0 : y = 0
    OBVIOUS
  <2> QED
    BY <1>2, <2>1
<1>4. ASSUME NEW n \in Nat, n \in Reached PROVE n + 1 \in Reached
  <2>1. SUFFICES ASSUME n + 1 <= Len(h) PROVE Good(n + 1)
    <3>1. \A y \in 0 .. n + 1 : y \in 0 .. n \/ y = n + 1
      OBVIOUS
    <3> QED
      BY <1>4, <2>1, <3>1
  <2>2. PICK y \in 1 .. Len(h) : y = n + 1
    BY <2>1
  <2>3. PICK z \in 0 .. n : z = h[y].next /\ z < y /\ z <= Len(h)
    BY <1>1, <2>2
  <2>4. Good(z)
    BY <1>4, <2>3
  <2>5. PICK l : l = List(h, z)
    OBVIOUS
  <2>6. IsList(h, z, l) /\ Descending(l) /\ \A i \in 1 .. Len(l) : l[i] <= z
    BY <2>4, <2>5
  <2>7. PICK k : k = List(h, y)
    OBVIOUS
  <2>8. k = <<y>> \o l
    BY <2>3, <2>5, <2>7, ListEq
  <2>9. /\ IsList(h, y, k) /\ Len(k) = Len(l) + 1 /\ k[1] = y
        /\ \A i \in 1 .. Len(l) : k[i + 1] = l[i]
    BY <1>1, <2>3, <2>6, <2>8, ConsIsList
  <2>10. Len(l) \in Nat /\ \A i \in 1 .. Len(l) : l[i] \in 1 .. Len(h)
    BY <2>6 DEF IsList
  <2>11. \A i \in 1 .. Len(k) : i = 1 \/ \E j \in 1 .. Len(l) : i = j + 1
    BY <2>9, <2>10
  <2>12. \A i \in 1 .. Len(l) : l[i] < y
    BY <2>3, <2>6, <2>10
  <2>13. ASSUME NEW i \in 1 .. Len(k) PROVE k[i] <= y
    <3>1. CASE i = 1
      BY <2>3, <2>9, <3>1
    <3>2. CASE i # 1
      <4>1. PICK j \in 1 .. Len(l) : i = j + 1
        BY <2>11, <3>2
      <4>2. k[i] = l[j] /\ l[j] < y /\ l[j] \in Nat /\ y \in Nat
        BY <1>1, <2>3, <2>9, <2>10, <2>12, <4>1
      <4> QED
        BY <4>2
    <3> QED
      BY <3>1, <3>2
  <2>14. Descending(k)
    <3>1. SUFFICES ASSUME NEW i \in 1 .. Len(k), NEW j \in 1 .. Len(k), i < j PROVE k[j] < k[i]
      BY DEF Descending
    <3>2. PICK q \in 1 .. Len(l) : j = q + 1
      BY <2>11, <3>1
    <3>3. CASE i = 1
      BY <2>9, <2>12, <3>2, <3>3
    <3>4. CASE i # 1
      <4>1. PICK p \in 1 .. Len(l) : i = p + 1
        BY <2>11, <3>4
      <4>2. p < q
        BY <2>10, <3>1, <3>2, <4>1
      <4>3. l[q] < l[p]
        BY <2>6, <4>2 DEF Descending
      <4> QED
        BY <2>9, <3>2, <4>1, <4>3
    <3> QED
      BY <3>3, <3>4
  <2> QED
    BY <2>2, <2>7, <2>9, <2>13, <2>14
<1> HIDE DEF Reached
<1>5. x \in Nat /\ x \in Reached
  BY <1>1, <1>3, <1>4, NatSetInduction
<1> QED
  BY <1>1, <1>5 DEF Reached

-----------------------------------------------------------------------------
(* The list and the table agree.                                           *)
Once(s) == \A i, j \in 1 .. Len(s) : s[i] = s[j] => i = j
NamesApart(h, s) == \A i, j \in 1 .. Len(s) : h[s[i]].name = h[s[j]].name => i = j
TableType ==
  [heap : Seq(NodeType), htab : [Buckets -> Seq(Nat)], macros : Nat, saved : Nat, cmdline : Nat,
   stack : Seq(Entry)]
InTable(htab, h, l) ==
  \A b \in Buckets : Once(htab[b]) /\ On(htab[b]) = {x \in On(l) : Bucket(h[x].name) = b}
Agree(m, l) ==
  /\ m \in TableType /\ Linked(m.heap)
  /\ IsList(m.heap, m.macros, l) /\ NamesApart(m.heap, l)
  /\ InTable(m.htab, m.heap, l)

LEMMA AgreeTypes ==
  ASSUME NEW m, NEW l, Agree(m, l)
  PROVE  /\ m.heap \in Seq(NodeType) /\ Len(m.heap) \in Nat
         /\ \A x \in 1 .. Len(m.heap) : /\ m.heap[x] \in NodeType /\ m.heap[x].name \in Names
                                        /\ m.heap[x].body \in Bodies /\ m.heap[x].next \in 0 .. x - 1
         /\ m.htab \in [Buckets -> Seq(Nat)] /\ m.macros \in 0 .. Len(m.heap) /\ m.stack \in Seq(Entry)
         /\ l \in Seq(1 .. Len(m.heap)) /\ Len(l) \in Nat
         /\ On(l) \subseteq 1 .. Len(m.heap)
         /\ \A b \in Buckets : m.htab[b] \in Seq(Nat) /\ Len(m.htab[b]) \in Nat
<1>1. m.heap \in Seq(NodeType) /\ m.htab \in [Buckets -> Seq(Nat)] /\ m.macros \in Nat /\ m.stack \in Seq(Entry)
  BY DEF Agree, TableType
<1>2. Len(m.heap) \in Nat /\ \A x \in 1 .. Len(m.heap) : m.heap[x] \in NodeType /\ m.heap[x].next < x
  BY <1>1 DEF Agree, Linked
<1>3. \A x \in 1 .. Len(m.heap) : m.heap[x].name \in Names /\ m.heap[x].body \in Bodies /\ m.heap[x].next \in Nat
  BY <1>2 DEF NodeType
<1>4. \A x \in 1 .. Len(m.heap) : m.heap[x].next \in 0 .. x - 1
  BY <1>2, <1>3
<1>5. l \in Seq(1 .. Len(m.heap)) /\ Len(l) \in Nat /\ \A i \in 1 .. Len(l) : l[i] \in 1 .. Len(m.heap)
  BY DEF Agree, IsList
<1>6. On(l) \subseteq 1 .. Len(m.heap)
  BY <1>5 DEF On
<1>7. m.macros \in 0 .. Len(m.heap)
  <2>1. 0 \in 0 .. Len(l) /\ Before(m.heap, m.macros, l, 0) = After(l, 0)
    BY <1>5 DEF Agree, IsList
  <2>2. m.macros = IF Len(l) = 0 THEN 0 ELSE l[1]
    BY <2>1 DEF Before, After
  <2>3. CASE Len(l) = 0
    BY <1>2, <2>2, <2>3
  <2>4. CASE Len(l) # 0
    <3>1. 1 \in 1 .. Len(l)
      BY <1>5, <2>4
    <3> QED
      BY <1>2, <1>5, <2>2, <2>4, <3>1
  <2> QED
    BY <2>3, <2>4
<1>8. \A b \in Buckets : m.htab[b] \in Seq(Nat) /\ Len(m.htab[b]) \in Nat
  BY <1>1
<1> QED
  BY <1>1, <1>2, <1>3, <1>4, <1>5, <1>6, <1>7, <1>8

(* Names are apart on the list, so in each chain too.                      *)
LEMMA ChainApart ==
  ASSUME NEW m, NEW l, Agree(m, l), NEW b \in Buckets
  PROVE  NamesApart(m.heap, m.htab[b])
<1>1. Once(m.htab[b]) /\ On(m.htab[b]) = {x \in On(l) : Bucket(m.heap[x].name) = b}
  BY DEF Agree, InTable
<1>2. SUFFICES ASSUME NEW i \in 1 .. Len(m.htab[b]), NEW j \in 1 .. Len(m.htab[b]),
                      m.heap[m.htab[b][i]].name = m.heap[m.htab[b][j]].name
               PROVE  i = j
  BY DEF NamesApart
<1>3. m.htab[b][i] \in On(l) /\ m.htab[b][j] \in On(l)
  BY <1>1 DEF On
<1>4. PICK p \in 1 .. Len(l), q \in 1 .. Len(l) : l[p] = m.htab[b][i] /\ l[q] = m.htab[b][j]
  BY <1>3 DEF On
<1>5. p = q
  BY <1>2, <1>4 DEF Agree, NamesApart
<1> QED
  BY <1>1, <1>4, <1>5 DEF Once

LEMMA FirstUnique ==
  ASSUME NEW h, NEW s, Len(s) \in Nat, NamesApart(h, s), NEW n
  PROVE  /\ FirstAt(h, s, n) = {i \in 1 .. Len(s) : h[s[i]].name = n}
         /\ \A i, j \in FirstAt(h, s, n) : i = j
<1>1. ASSUME NEW i \in 1 .. Len(s), h[s[i]].name = n PROVE i \in FirstAt(h, s, n)
  <2>1. ASSUME NEW j \in 1 .. (i - 1) PROVE h[s[j]].name # n
    <3>1. j \in 1 .. Len(s) /\ j # i
      OBVIOUS
    <3> QED
      BY <1>1, <3>1 DEF NamesApart
  <2> QED
    BY <1>1, <2>1 DEF FirstAt
<1>2. \A i \in FirstAt(h, s, n) : i \in 1 .. Len(s) /\ h[s[i]].name = n
  BY DEF FirstAt
<1>3. \A i, j \in FirstAt(h, s, n) : i = j
  BY <1>2 DEF NamesApart
<1> QED
  BY <1>1, <1>2, <1>3

(* find_macro() finds the node of that name on the list.                   *)
LEMMA FindExact ==
  ASSUME NEW m, NEW l, Agree(m, l), NEW n \in Names
  PROVE  /\ FindMacro(m, n) = {x \in On(l) : m.heap[x].name = n}
         /\ \A x, y \in FindMacro(m, n) : x = y
<1> DEFINE c == m.htab[Bucket(n)]
<1>1. Bucket(n) \in Buckets
  BY BucketAssumption
<1>2. Len(c) \in Nat /\ NamesApart(m.heap, c) /\ On(c) = {x \in On(l) : Bucket(m.heap[x].name) = Bucket(n)}
  BY <1>1, AgreeTypes, ChainApart DEF Agree, InTable
<1>3. FindMacro(m, n) = {c[i] : i \in FirstAt(m.heap, c, n)}
  BY DEF FindMacro
<1> HIDE DEF c
<1>4. /\ FirstAt(m.heap, c, n) = {i \in 1 .. Len(c) : m.heap[c[i]].name = n}
      /\ \A i, j \in FirstAt(m.heap, c, n) : i = j
  BY <1>2, FirstUnique
<1>5. ASSUME NEW x \in On(l), m.heap[x].name = n PROVE x \in FindMacro(m, n)
  <2>1. x \in On(c)
    BY <1>2, <1>5
  <2>2. PICK i \in 1 .. Len(c) : x = c[i]
    BY <2>1 DEF On
  <2>3. i \in FirstAt(m.heap, c, n)
    BY <1>4, <1>5, <2>2
  <2> QED
    BY <1>3, <2>2, <2>3
<1>6. ASSUME NEW x \in FindMacro(m, n) PROVE x \in On(l) /\ m.heap[x].name = n
  <2>1. PICK i \in FirstAt(m.heap, c, n) : x = c[i]
    BY <1>3
  <2>2. i \in 1 .. Len(c) /\ m.heap[x].name = n
    BY <1>4, <2>1
  <2>3. x \in On(c)
    BY <2>1, <2>2 DEF On
  <2> QED
    BY <1>2, <2>2, <2>3
<1>7. \A x, y \in FindMacro(m, n) : x = y
  BY <1>3, <1>4
<1> QED
  BY <1>5, <1>6, <1>7

(* What is found: the definition of the list's node, or none.              *)
LEMMA LookupExact ==
  ASSUME NEW m, NEW l, Agree(m, l), NEW n \in Names
  PROVE  /\ \A x \in On(l) : m.heap[x].name = n => Lookup(m, n) = m.heap[x].body /\ FindMacro(m, n) = {x}
         /\ (\A x \in On(l) : m.heap[x].name # n) => Lookup(m, n) = None /\ FindMacro(m, n) = {}
<1>1. /\ FindMacro(m, n) = {x \in On(l) : m.heap[x].name = n}
      /\ \A x, y \in FindMacro(m, n) : x = y
  BY FindExact
<1>2. ASSUME NEW x \in On(l), m.heap[x].name = n PROVE Lookup(m, n) = m.heap[x].body /\ FindMacro(m, n) = {x}
  <2>1. x \in FindMacro(m, n) /\ FindMacro(m, n) = {x}
    BY <1>1, <1>2
  <2>2. (CHOOSE y \in FindMacro(m, n) : TRUE) = x
    BY <2>1
  <2> QED
    BY <2>1, <2>2 DEF Lookup
<1>3. ASSUME \A x \in On(l) : m.heap[x].name # n PROVE Lookup(m, n) = None /\ FindMacro(m, n) = {}
  <2>1. FindMacro(m, n) = {}
    BY <1>1, <1>3
  <2> QED
    BY <2>1 DEF Lookup
<1> QED
  BY <1>2, <1>3

-----------------------------------------------------------------------------
(* define_macro of a new name.                                             *)
LEMMA ConsOnce ==
  ASSUME NEW T, NEW s \in Seq(T), NEW x \in T
  PROVE  /\ On(<<x>> \o s) = On(s) \union {x}
         /\ Once(s) /\ x \notin On(s) => Once(<<x>> \o s)
<1> DEFINE k == <<x>> \o s
<1>1. Len(s) \in Nat
  OBVIOUS
<1>2. Len(k) = Len(s) + 1 /\ k[1] = x /\ \A i \in 1 .. Len(s) : k[i + 1] = s[i]
  BY <1>1, Pushed
<1> HIDE DEF k
<1>3. \A i \in 1 .. Len(k) : i = 1 \/ \E j \in 1 .. Len(s) : i = j + 1 /\ k[i] = s[j]
  <2>1. SUFFICES ASSUME NEW i \in 1 .. Len(k), i # 1 PROVE \E j \in 1 .. Len(s) : i = j + 1 /\ k[i] = s[j]
    OBVIOUS
  <2>2. PICK j \in 1 .. Len(s) : i = j + 1
    BY <1>1, <1>2, <2>1
  <2> QED
    BY <1>2, <2>2
<1>4. On(k) = On(s) \union {x}
  <2>1. ASSUME NEW i \in 1 .. Len(k) PROVE k[i] \in On(s) \union {x}
    BY <1>2, <1>3 DEF On
  <2>2. ASSUME NEW j \in 1 .. Len(s) PROVE s[j] \in On(k)
    <3>1. j + 1 \in 1 .. Len(k) /\ k[j + 1] = s[j]
      BY <1>1, <1>2
    <3> QED
      BY <3>1 DEF On
  <2>3. x \in On(k)
    <3>1. 1 \in 1 .. Len(k)
      BY <1>1, <1>2
    <3> QED
      BY <1>2, <3>1 DEF On
  <2> QED
    BY <2>1, <2>2, <2>3 DEF On
<1>5. ASSUME Once(s), x \notin On(s) PROVE Once(k)
  <2>1. SUFFICES ASSUME NEW i \in 1 .. Len(k), NEW j \in 1 .. Len(k), k[i] = k[j] PROVE i = j
    BY DEF Once
  <2>2. \A p \in 1 .. Len(s) : s[p] # x
    BY <1>5 DEF On
  <2>3. CASE i = 1
    BY <1>2, <1>3, <2>1, <2>2, <2>3
  <2>4. CASE j = 1
    BY <1>2, <1>3, <2>1, <2>2, <2>4
  <2>5. CASE i # 1 /\ j # 1
    <3>1. PICK p \in 1 .. Len(s), q \in 1 .. Len(s) : i = p + 1 /\ k[i] = s[p] /\ j = q + 1 /\ k[j] = s[q]
      BY <1>3, <2>5
    <3>2. p = q
      BY <1>5, <2>1, <3>1 DEF Once
    <3> QED
      BY <3>1, <3>2
  <2> QED
    BY <2>3, <2>4, <2>5
<1> QED
  BY <1>4, <1>5 DEF k

(* A list depends on the links of its own nodes only.                      *)
LEMMA ListKept ==
  ASSUME NEW h, NEW k, Len(h) \in Nat, Len(k) \in Nat, Len(h) <= Len(k), NEW x, NEW l,
         IsList(h, x, l), \A y \in On(l) : k[y].next = h[y].next
  PROVE  IsList(k, x, l)
<1>1. l \in Seq(1 .. Len(h)) /\ Len(l) \in Nat /\ \A i \in 1 .. Len(l) : l[i] \in 1 .. Len(k) /\ l[i] \in On(l)
  BY DEF IsList, On
<1>2. l \in Seq(1 .. Len(k))
  <2>1. 1 .. Len(h) \subseteq 1 .. Len(k)
    OBVIOUS
  <2> QED
    BY <1>1, <2>1
<1>3. ASSUME NEW i \in 0 .. Len(l) PROVE Before(k, x, l, i) = After(l, i)
  <2>1. Before(h, x, l, i) = After(l, i)
    BY DEF IsList
  <2>2. CASE i = 0
    BY <2>1, <2>2 DEF Before
  <2>3. CASE i # 0
    <3>1. i \in 1 .. Len(l)
      BY <1>1, <2>3
    <3>2. k[l[i]].next = h[l[i]].next
      BY <1>1, <3>1
    <3> QED
      BY <2>1, <2>3, <3>2 DEF Before
  <2> QED
    BY <2>2, <2>3
<1> QED
  BY <1>2, <1>3 DEF IsList

(* What no operation of a running file changes, and what a definition does *)
(* to what is found.                                                       *)
Kept(m, k) ==
  /\ k.saved = m.saved /\ k.cmdline = m.cmdline /\ k.stack = m.stack
  /\ Len(m.heap) <= Len(k.heap)
  /\ \A x \in 1 .. Len(m.heap) : k.heap[x].name = m.heap[x].name
Finds(m, k, n, b) == \A i \in Names : Lookup(k, i) = IF i = n THEN b ELSE Lookup(m, i)

LEMMA AddNodeKeeps ==
  ASSUME NEW m, NEW l, Agree(m, l), NEW n \in Names, NEW b \in Bodies,
         \A y \in On(l) : m.heap[y].name # n
  PROVE  \E l2 : /\ Agree(AddNode(m, n, b), l2) /\ Kept(m, AddNode(m, n, b))
                 /\ Finds(m, AddNode(m, n, b), n, b)
                 /\ On(l2) = On(l) \union {Len(m.heap) + 1}
                 /\ Len(AddNode(m, n, b).heap) = Len(m.heap) + 1
<1> DEFINE k == AddNode(m, n, b)
<1> DEFINE node == [name |-> n, body |-> b, next |-> m.macros]
<1>1. /\ m \in TableType /\ m.heap \in Seq(NodeType) /\ Len(m.heap) \in Nat
      /\ \A y \in 1 .. Len(m.heap) : m.heap[y].next \in 0 .. y - 1
      /\ m.htab \in [Buckets -> Seq(Nat)] /\ m.macros \in 0 .. Len(m.heap) /\ m.macros \in Nat
      /\ On(l) \subseteq 1 .. Len(m.heap)
  <2>1. m \in TableType
    BY DEF Agree
  <2>2. m.macros \in Nat
    BY <2>1 DEF TableType
  <2> QED
    BY <2>1, <2>2, AgreeTypes
<1>2. PICK x \in Nat : x = Len(m.heap) + 1
  BY <1>1
<1>3. node \in NodeType
  BY <1>1 DEF NodeType
<1>4. PICK h : h = Append(m.heap, node)
  OBVIOUS
<1>5. /\ h \in Seq(NodeType) /\ Len(h) = x /\ h[x] = node
      /\ \A y \in 1 .. Len(m.heap) : h[y] = m.heap[y]
  BY <1>1, <1>2, <1>3, <1>4, AppendProperties
<1>6. Bucket(n) \in Buckets
  BY BucketAssumption
<1>7. PICK ht : ht = [m.htab EXCEPT ![Bucket(n)] = <<x>> \o m.htab[Bucket(n)]]
  OBVIOUS
<1>8. /\ k.heap = h /\ k.macros = x /\ k.htab = ht
      /\ k.saved = m.saved /\ k.cmdline = m.cmdline /\ k.stack = m.stack
      /\ k \in TableType
  <2>1. k = [m EXCEPT !.heap = h, !.macros = x, !.htab = ht]
    BY <1>1, <1>2, <1>4, <1>6, <1>7 DEF AddNode, TableType
  <2>2. ht \in [Buckets -> Seq(Nat)]
    <3>1. m.htab[Bucket(n)] \in Seq(Nat)
      BY <1>1, <1>6
    <3>2. <<x>> \o m.htab[Bucket(n)] \in Seq(Nat)
      BY <3>1, Pushed
    <3> QED
      BY <1>1, <1>7, <3>2
  <2> HIDE DEF k
  <2> QED
    BY <1>1, <1>5, <2>1, <2>2 DEF TableType
<1> HIDE DEF k
<1>9. Linked(h)
  <2>1. ASSUME NEW y \in 1 .. x PROVE h[y].next < y
    <3>1. CASE y = x
      BY <1>1, <1>2, <1>5, <3>1
    <3>2. CASE y # x
      <4>1. y \in 1 .. Len(m.heap)
        BY <1>1, <1>2, <3>2
      <4> QED
        BY <1>1, <1>5, <4>1
    <3> QED
      BY <3>1, <3>2
  <2> QED
    BY <1>5, <2>1 DEF Linked
<1>10. IsList(h, m.macros, l)
  <2>1. \A y \in On(l) : h[y].next = m.heap[y].next
    BY <1>1, <1>5
  <2>2. IsList(m.heap, m.macros, l) /\ Len(h) \in Nat /\ Len(m.heap) <= Len(h)
    BY <1>1, <1>2, <1>5 DEF Agree
  <2> QED
    BY <1>1, <2>1, <2>2, ListKept
<1>11. PICK l2 : l2 = <<x>> \o l
  OBVIOUS
<1>12. /\ IsList(h, x, l2) /\ Len(l2) = Len(l) + 1 /\ l2[1] = x
       /\ \A i \in 1 .. Len(l) : l2[i + 1] = l[i]
       /\ On(l2) = On(l) \union {x}
  <2>1. Len(h) \in Nat /\ x \in 1 .. Len(h) /\ h[x].next = m.macros
    BY <1>1, <1>2, <1>5
  <2> QED
    BY <1>10, <1>11, <2>1, ConsIsList
<1>13. x \notin On(l)
  BY <1>1, <1>2
<1>14. Len(l) \in Nat /\ \A i \in 1 .. Len(l) : l[i] \in On(l)
  BY AgreeTypes DEF On
<1>15. NamesApart(h, l2)
  <2>1. SUFFICES ASSUME NEW i \in 1 .. Len(l2), NEW j \in 1 .. Len(l2), h[l2[i]].name = h[l2[j]].name
                 PROVE  i = j
    BY DEF NamesApart
  <2>2. \A p \in 1 .. Len(l2) : p = 1 \/ \E q \in 1 .. Len(l) : p = q + 1
    BY <1>12, <1>14
  <2>3. \A q \in 1 .. Len(l) : h[l2[q + 1]].name = m.heap[l[q]].name /\ m.heap[l[q]].name # n
    BY <1>1, <1>5, <1>12, <1>14
  <2>4. h[l2[1]].name = n
    BY <1>5, <1>12
  <2>5. CASE i = 1
    <3>1. SUFFICES ASSUME NEW q \in 1 .. Len(l), j = q + 1 PROVE FALSE
      BY <2>2, <2>5
    <3> QED
      BY <2>1, <2>3, <2>4, <2>5, <3>1
  <2>6. CASE j = 1
    <3>1. SUFFICES ASSUME NEW q \in 1 .. Len(l), i = q + 1 PROVE FALSE
      BY <2>2, <2>6
    <3> QED
      BY <2>1, <2>3, <2>4, <2>6, <3>1
  <2>7. CASE i # 1 /\ j # 1
    <3>1. PICK p \in 1 .. Len(l), q \in 1 .. Len(l) : i = p + 1 /\ j = q + 1
      BY <2>2, <2>7
    <3>2. m.heap[l[p]].name = m.heap[l[q]].name
      BY <2>1, <2>3, <3>1
    <3>3. p = q
      BY <3>2 DEF Agree, NamesApart
    <3> QED
      BY <3>1, <3>3
  <2> QED
    BY <2>5, <2>6, <2>7
<1>16. InTable(ht, h, l2)
  <2>1. SUFFICES ASSUME NEW c \in Buckets
                 PROVE  Once(ht[c]) /\ On(ht[c]) = {y \in On(l2) : Bucket(h[y].name) = c}
    BY DEF InTable
  <2>2. /\ Once(m.htab[c]) /\ On(m.htab[c]) = {y \in On(l) : Bucket(m.heap[y].name) = c}
        /\ m.htab[c] \in Seq(Nat)
    BY <1>1 DEF Agree, InTable
  <2>3. {y \in On(l) : Bucket(m.heap[y].name) = c} = {y \in On(l) : Bucket(h[y].name) = c}
    BY <1>1, <1>5
  <2>4. CASE c = Bucket(n)
    <3>1. ht[c] = <<x>> \o m.htab[c]
      BY <1>1, <1>7, <2>4
    <3>2. x \notin On(m.htab[c])
      BY <1>13, <2>2
    <3>3. Once(ht[c]) /\ On(ht[c]) = On(m.htab[c]) \union {x}
      BY <2>2, <3>1, <3>2, ConsOnce
    <3>4. Bucket(h[x].name) = c
      BY <1>5, <2>4
    <3> QED
      BY <1>12, <2>2, <2>3, <3>3, <3>4
  <2>5. CASE c # Bucket(n)
    <3>1. ht[c] = m.htab[c]
      BY <1>1, <1>7, <2>5
    <3>2. Bucket(h[x].name) # c
      BY <1>5, <2>5
    <3> QED
      BY <1>12, <2>2, <2>3, <3>1, <3>2
  <2> QED
    BY <2>4, <2>5
<1>17. Agree(k, l2)
  BY <1>8, <1>9, <1>12, <1>15, <1>16 DEF Agree
<1>18. Kept(m, k)
  BY <1>1, <1>2, <1>5, <1>8 DEF Kept
<1>19. Finds(m, k, n, b)
  <2>1. SUFFICES ASSUME NEW i \in Names PROVE Lookup(k, i) = IF i = n THEN b ELSE Lookup(m, i)
    BY DEF Finds
  <2>2. \A y \in On(l) : h[y] = m.heap[y]
    BY <1>1, <1>5
  <2>3. x \in On(l2) /\ h[x].name = n /\ h[x].body = b
    BY <1>5, <1>12
  <2>4. CASE i = n
    BY <1>8, <1>17, <2>3, <2>4, LookupExact
  <2>5. CASE i # n
    <3>1. CASE \E y \in On(l) : m.heap[y].name = i
      <4>1. PICK y \in On(l) : m.heap[y].name = i
        BY <3>1
      <4>2. y \in On(l2) /\ k.heap[y] = m.heap[y]
        BY <1>8, <1>12, <2>2
      <4>3. Lookup(m, i) = m.heap[y].body
        BY <4>1, LookupExact
      <4>4. Lookup(k, i) = k.heap[y].body
        BY <1>17, <4>1, <4>2, LookupExact
      <4> QED
        BY <2>5, <4>2, <4>3, <4>4
    <3>2. CASE ~ \E y \in On(l) : m.heap[y].name = i
      <4>1. \A y \in On(l2) : k.heap[y].name # i
        BY <1>8, <1>12, <2>2, <2>3, <2>5, <3>2
      <4>2. Lookup(m, i) = None
        BY <3>2, LookupExact
      <4>3. Lookup(k, i) = None
        BY <1>17, <4>1, LookupExact
      <4> QED
        BY <2>5, <4>2, <4>3
    <3> QED
      BY <3>1, <3>2
  <2> QED
    BY <2>4, <2>5
<1>20. On(l2) = On(l) \union {Len(m.heap) + 1} /\ Len(k.heap) = Len(m.heap) + 1
  BY <1>2, <1>5, <1>8, <1>12
<1> QED
  BY <1>17, <1>18, <1>19, <1>20 DEF k

-----------------------------------------------------------------------------
(* define_macro of a name that is defined.                                 *)
LEMMA RedefineKeeps ==
  ASSUME NEW m, NEW l, Agree(m, l), NEW n \in Names, NEW b \in Bodies,
         NEW x \in On(l), m.heap[x].name = n
  PROVE  LET k == [m EXCEPT !.heap[x].body = b] IN
         Agree(k, l) /\ Kept(m, k) /\ Finds(m, k, n, b) /\ Len(k.heap) = Len(m.heap)
<1> DEFINE k == [m EXCEPT !.heap[x].body = b]
<1>1. /\ m \in TableType /\ m.heap \in Seq(NodeType) /\ Len(m.heap) \in Nat
      /\ \A y \in 1 .. Len(m.heap) : m.heap[y] \in NodeType
      /\ On(l) \subseteq 1 .. Len(m.heap)
  <2>1. m \in TableType
    BY DEF Agree
  <2> QED
    BY <2>1, AgreeTypes
<1>2. PICK node : node = [m.heap[x] EXCEPT !.body = b]
  OBVIOUS
<1>3. /\ node \in NodeType /\ node.body = b
      /\ node.name = m.heap[x].name /\ node.next = m.heap[x].next
  <2>1. m.heap[x] \in NodeType
    BY <1>1
  <2> QED
    BY <1>2, <2>1 DEF NodeType
<1>4. PICK h : h = [m.heap EXCEPT ![x] = node]
  OBVIOUS
<1>5. /\ h \in Seq(NodeType) /\ Len(h) = Len(m.heap)
      /\ \A y \in 1 .. Len(m.heap) : h[y] = IF y = x THEN node ELSE m.heap[y]
  <2>1. x \in 1 .. Len(m.heap)
    BY <1>1
  <2> QED
    BY <1>1, <1>3, <1>4, <2>1, ExceptSeq
<1>6. /\ k.heap = h /\ k.macros = m.macros /\ k.htab = m.htab
      /\ k.saved = m.saved /\ k.cmdline = m.cmdline /\ k.stack = m.stack
      /\ k \in TableType
  <2>1. k = [m EXCEPT !.heap = h]
    BY <1>1, <1>2, <1>4 DEF TableType
  <2> HIDE DEF k
  <2> QED
    BY <1>1, <1>5, <2>1 DEF TableType
<1> HIDE DEF k
<1>7. \A y \in 1 .. Len(m.heap) : h[y].name = m.heap[y].name /\ h[y].next = m.heap[y].next
  BY <1>3, <1>5
<1>8. Linked(h)
  BY <1>5, <1>7 DEF Agree, Linked
<1>9. IsList(h, m.macros, l)
  <2>1. \A y \in On(l) : h[y].next = m.heap[y].next
    BY <1>1, <1>7
  <2>2. IsList(m.heap, m.macros, l) /\ Len(h) \in Nat /\ Len(m.heap) <= Len(h)
    BY <1>1, <1>5 DEF Agree
  <2> QED
    BY <1>1, <2>1, <2>2, ListKept
<1>10. \A y \in On(l) : h[y].name = m.heap[y].name
  BY <1>1, <1>7
<1>11. NamesApart(h, l)
  <2>1. \A i \in 1 .. Len(l) : h[l[i]].name = m.heap[l[i]].name
    BY <1>10 DEF On
  <2> QED
    BY <2>1 DEF Agree, NamesApart
<1>12. InTable(m.htab, h, l)
  BY <1>10 DEF Agree, InTable
<1>13. Agree(k, l)
  BY <1>6, <1>8, <1>9, <1>11, <1>12 DEF Agree
<1>14. Kept(m, k) /\ Len(k.heap) = Len(m.heap)
  BY <1>1, <1>5, <1>6, <1>7 DEF Kept
<1>15. Finds(m, k, n, b)
  <2>1. SUFFICES ASSUME NEW i \in Names PROVE Lookup(k, i) = IF i = n THEN b ELSE Lookup(m, i)
    BY DEF Finds
  <2>2. CASE i = n
    <3>1. k.heap[x].name = n /\ k.heap[x].body = b
      BY <1>1, <1>3, <1>5, <1>6
    <3> QED
      BY <1>13, <2>2, <3>1, LookupExact
  <2>3. CASE i # n
    <3>1. CASE \E y \in On(l) : m.heap[y].name = i
      <4>1. PICK y \in On(l) : m.heap[y].name = i
        BY <3>1
      <4>2. y # x /\ k.heap[y] = m.heap[y]
        BY <1>1, <1>5, <1>6, <2>3, <4>1
      <4>3. Lookup(m, i) = m.heap[y].body
        BY <4>1, LookupExact
      <4>4. Lookup(k, i) = k.heap[y].body
        BY <1>13, <4>1, <4>2, LookupExact
      <4> QED
        BY <2>3, <4>2, <4>3, <4>4
    <3>2. CASE ~ \E y \in On(l) : m.heap[y].name = i
      <4>1. \A y \in On(l) : k.heap[y].name # i
        BY <1>6, <1>10, <3>2
      <4>2. Lookup(m, i) = None
        BY <3>2, LookupExact
      <4>3. Lookup(k, i) = None
        BY <1>13, <4>1, LookupExact
      <4> QED
        BY <2>3, <4>2, <4>3
    <3> QED
      BY <3>1, <3>2
  <2> QED
    BY <2>2, <2>3
<1> QED
  BY <1>13, <1>14, <1>15 DEF k

(* #define keeps list and table in step and defines its name, whatever was *)
(* defined before.                                                         *)
LEMMA DefineKeeps ==
  ASSUME NEW m, NEW l, Agree(m, l), NEW n \in Names, NEW b \in Bodies
  PROVE  \E l2 : /\ Agree(DefineMacro(m, n, b), l2) /\ Kept(m, DefineMacro(m, n, b))
                 /\ Finds(m, DefineMacro(m, n, b), n, b)
                 /\ On(l2) = On(l) \union ((Len(m.heap) + 1) .. Len(DefineMacro(m, n, b).heap))
<1>1. Len(m.heap) \in Nat
  BY AgreeTypes
<1>2. CASE \E x \in On(l) : m.heap[x].name = n
  <2>1. PICK x \in On(l) : m.heap[x].name = n
    BY <1>2
  <2>2. FindMacro(m, n) = {x}
    BY <2>1, LookupExact
  <2>3. (CHOOSE y \in FindMacro(m, n) : TRUE) = x /\ FindMacro(m, n) # {}
    BY <2>2
  <2>4. PICK k : k = [m EXCEPT !.heap[x].body = b]
    OBVIOUS
  <2>5. DefineMacro(m, n, b) = k
    BY <2>3, <2>4 DEF DefineMacro
  <2>6. Agree(k, l) /\ Kept(m, k) /\ Finds(m, k, n, b) /\ Len(k.heap) = Len(m.heap)
    BY <2>1, <2>4, RedefineKeeps
  <2>7. (Len(m.heap) + 1) .. Len(k.heap) = {}
    BY <1>1, <2>6
  <2> QED
    BY <2>5, <2>6, <2>7
<1>3. CASE ~ \E x \in On(l) : m.heap[x].name = n
  <2>1. FindMacro(m, n) = {}
    BY <1>3, LookupExact
  <2>2. DefineMacro(m, n, b) = AddNode(m, n, b)
    BY <2>1 DEF DefineMacro
  <2>3. PICK l2 : /\ Agree(AddNode(m, n, b), l2) /\ Kept(m, AddNode(m, n, b))
                  /\ Finds(m, AddNode(m, n, b), n, b)
                  /\ On(l2) = On(l) \union {Len(m.heap) + 1}
                  /\ Len(AddNode(m, n, b).heap) = Len(m.heap) + 1
    BY <1>3, AddNodeKeeps
  <2>4. (Len(m.heap) + 1) .. (Len(m.heap) + 1) = {Len(m.heap) + 1}
    BY <1>1
  <2> QED
    BY <2>2, <2>3, <2>4
<1> QED
  BY <1>2, <1>3

-----------------------------------------------------------------------------
(* #undef.                                                                 *)
LEMMA WithoutOn ==
  ASSUME NEW T, NEW s \in Seq(T), Once(s), NEW p \in 1 .. Len(s)
  PROVE  On(Without(s, p)) = On(s) \ {s[p]} /\ Once(Without(s, p))
<1> DEFINE k == Without(s, p)
<1>1. PICK n \in Nat : n = Len(s)
  OBVIOUS
<1>2. Len(k) = n - 1 /\ \A j \in 1 .. n - 1 : k[j] = IF j < p THEN s[j] ELSE s[j + 1]
  BY <1>1, WithoutFacts
<1> HIDE DEF k
<1>3. \A j \in 1 .. n - 1 : (IF j < p THEN j ELSE j + 1) \in 1 .. n /\ (IF j < p THEN j ELSE j + 1) # p
  BY <1>1
<1>4. \A j \in 1 .. n - 1 : k[j] = s[IF j < p THEN j ELSE j + 1]
  BY <1>2
<1>5. On(k) = On(s) \ {s[p]}
  <2>1. ASSUME NEW j \in 1 .. Len(k) PROVE k[j] \in On(s) \ {s[p]}
    <3>1. PICK i \in 1 .. n : i = (IF j < p THEN j ELSE j + 1) /\ i # p
      BY <1>2, <1>3
    <3>2. k[j] = s[i]
      BY <1>2, <1>4, <3>1
    <3>3. s[i] # s[p]
      BY <1>1, <3>1 DEF Once
    <3> QED
      BY <1>1, <3>2, <3>3 DEF On
  <2>2. ASSUME NEW i \in 1 .. Len(s), s[i] # s[p] PROVE s[i] \in On(k)
    <3>1. i # p
      BY <2>2
    <3>2. PICK j \in 1 .. n - 1 : i = IF j < p THEN j ELSE j + 1
      <4>1. CASE i < p
        <5>1. i \in 1 .. n - 1 /\ i = IF i < p THEN i ELSE i + 1
          BY <1>1, <4>1
        <5> QED
          BY <5>1
      <4>2. CASE ~(i < p)
        <5>1. i - 1 \in 1 .. n - 1 /\ i = IF i - 1 < p THEN i - 1 ELSE (i - 1) + 1
          BY <1>1, <3>1, <4>2
        <5>2. ~(i - 1 < p) \/ i - 1 < p
          OBVIOUS
        <5>3. i - 1 \in 1 .. n - 1 /\ ~(i - 1 < p) /\ i = (i - 1) + 1
          BY <1>1, <3>1, <4>2
        <5> QED
          BY <5>3
      <4> QED
        BY <4>1, <4>2
    <3>3. k[j] = s[i]
      BY <1>4, <3>2
    <3> QED
      BY <1>2, <3>3 DEF On
  <2> QED
    BY <2>1, <2>2 DEF On
<1>6. Once(k)
  <2>1. SUFFICES ASSUME NEW i \in 1 .. n - 1, NEW j \in 1 .. n - 1, k[i] = k[j] PROVE i = j
    BY <1>2 DEF Once
  <2>2. PICK a \in 1 .. n, c \in 1 .. n : a = (IF i < p THEN i ELSE i + 1) /\ c = IF j < p THEN j ELSE j + 1
    BY <1>3
  <2>3. s[a] = s[c]
    BY <1>4, <2>1, <2>2
  <2>4. a = c
    BY <1>1, <2>3 DEF Once
  <2> QED
    BY <2>2, <2>4
<1> QED
  BY <1>5, <1>6 DEF k

(* g differs from h in that the node before the p-th of l skips the p-th.  *)
Unlinks(h, g, l, p) ==
  \A z \in 1 .. Len(h) : g[z].next = IF p > 1 /\ z = l[p - 1] THEN h[l[p]].next ELSE h[z].next

(* Taking a node out of a list by changing what points to it.              *)
LEMMA UnlinkedList ==
  ASSUME NEW h, NEW g, Len(h) \in Nat, Len(g) = Len(h), NEW x, NEW y, NEW l, IsList(h, x, l), Once(l),
         NEW p \in 1 .. Len(l),
         y = IF p = 1 THEN h[l[1]].next ELSE x, Unlinks(h, g, l, p)
  PROVE  IsList(g, y, Without(l, p))
<1> DEFINE k == Without(l, p)
<1>1. l \in Seq(1 .. Len(h))
  BY DEF IsList
<1>2. PICK n \in Nat : n = Len(l)
  BY <1>1
<1>3. k \in Seq(1 .. Len(h)) /\ Len(k) = n - 1 /\ \A j \in 1 .. n - 1 : k[j] = IF j < p THEN l[j] ELSE l[j + 1]
  <2>1. PICK T : T = 1 .. Len(h)
    OBVIOUS
  <2>2. l \in Seq(T) /\ p \in 1 .. n
    BY <1>1, <1>2, <2>1
  <2>3. k \in Seq(T) /\ Len(k) = n - 1 /\ \A j \in 1 .. n - 1 : k[j] = IF j < p THEN l[j] ELSE l[j + 1]
    BY <1>2, <2>2, WithoutFacts
  <2> QED
    BY <2>1, <2>3
<1> HIDE DEF k
<1>4. \A j \in 1 .. n : l[j] \in 1 .. Len(h)
  BY <1>1, <1>2
<1>5. \A j \in 1 .. n : p > 1 /\ j # p - 1 => l[j] # l[p - 1]
  BY <1>2 DEF Once
<1>6. ASSUME NEW i \in 0 .. n - 1 PROVE Before(g, y, k, i) = After(k, i)
  <2> DEFINE q == IF i < p - 1 THEN i ELSE i + 1
  <2>1. q \in 0 .. n
    BY <1>2
  <2>2. Before(h, x, l, q) = After(l, q)
    BY <1>2, <2>1 DEF IsList
  <2>3. After(k, i) = After(l, q)
    <3>1. CASE i = n - 1
      <4>1. q = n
        BY <1>2, <3>1
      <4> QED
        BY <1>2, <1>3, <3>1, <4>1 DEF After
    <3>2. CASE i # n - 1
      <4>1. i + 1 \in 1 .. n - 1 /\ q # n
        BY <1>2, <3>2
      <4>2. k[i + 1] = IF i + 1 < p THEN l[i + 1] ELSE l[(i + 1) + 1]
        BY <1>3, <4>1
      <4>3. k[i + 1] = l[q + 1]
        <5>1. CASE i < p - 1
          <6>1. i + 1 < p /\ q = i
            BY <5>1
          <6> QED
            BY <4>2, <6>1
        <5>2. CASE ~(i < p - 1)
          <6>1. ~(i + 1 < p) /\ q = i + 1
            BY <5>2
          <6> QED
            BY <4>2, <6>1
        <5> QED
          BY <5>1, <5>2
      <4> QED
        BY <1>2, <1>3, <3>2, <4>1, <4>3 DEF After
    <3> QED
      BY <3>1, <3>2
  <2>4. Before(g, y, k, i) = Before(h, x, l, q)
    <3>1. CASE i = 0
      <4>1. CASE p = 1
        <5>1. q = 1
          BY <3>1, <4>1
        <5> QED
          BY <3>1, <4>1, <5>1 DEF Before
      <4>2. CASE p # 1
        <5>1. q = 0
          BY <1>2, <3>1, <4>2
        <5> QED
          BY <3>1, <4>2, <5>1 DEF Before
      <4> QED
        BY <4>1, <4>2
    <3>2. CASE i # 0
      <4>1. i \in 1 .. n - 1 /\ q # 0
        BY <3>2
      <4>2. Before(g, y, k, i) = g[k[i]].next /\ Before(h, x, l, q) = h[l[q]].next
        BY <3>2, <4>1 DEF Before
      <4>3. CASE i < p - 1
        <5>1. q = i /\ k[i] = l[i] /\ p > 1 /\ i # p - 1 /\ i \in 1 .. n
          BY <1>3, <4>1, <4>3
        <5>2. l[i] # l[p - 1] /\ l[i] \in 1 .. Len(h)
          BY <1>4, <1>5, <5>1
        <5>3. g[l[i]].next = h[l[i]].next
          BY <5>1, <5>2 DEF Unlinks
        <5> QED
          BY <4>2, <5>1, <5>3
      <4>4. CASE i = p - 1
        <5>1. q = p /\ k[i] = l[p - 1] /\ p > 1 /\ p - 1 \in 1 .. n
          <6>1. i < p /\ ~(i < p - 1) /\ i + 1 = p /\ p > 1
            BY <4>1, <4>4
          <6>2. k[i] = l[i]
            BY <1>3, <4>1, <6>1
          <6> QED
            BY <4>1, <4>4, <6>1, <6>2
        <5>2. l[p - 1] \in 1 .. Len(h)
          BY <1>4, <5>1
        <5>3. g[l[p - 1]].next = h[l[p]].next
          BY <5>1, <5>2 DEF Unlinks
        <5> QED
          BY <4>2, <5>1, <5>3
      <4>5. CASE i > p - 1
        <5>1. q = i + 1 /\ ~(i < p) /\ i + 1 \in 1 .. n /\ (p > 1 => i + 1 # p - 1)
          BY <1>2, <4>1, <4>5
        <5>2. k[i] = l[i + 1]
          BY <1>3, <4>1, <5>1
        <5>3. l[i + 1] \in 1 .. Len(h) /\ (p > 1 => l[i + 1] # l[p - 1])
          BY <1>4, <1>5, <5>1
        <5>4. g[l[i + 1]].next = h[l[i + 1]].next
          BY <5>3 DEF Unlinks
        <5> QED
          BY <4>2, <5>1, <5>2, <5>4
      <4> QED
        BY <1>2, <4>1, <4>3, <4>4, <4>5
    <3> QED
      BY <3>1, <3>2
  <2> QED
    BY <2>2, <2>3, <2>4
<1>7. IsList(g, y, k)
  <2>1. k \in Seq(1 .. Len(g)) /\ 0 .. Len(k) = 0 .. n - 1
    BY <1>3
  <2> QED
    BY <1>6, <2>1 DEF IsList
<1> QED
  BY <1>7 DEF k

LEMMA UndefAbsent ==
  ASSUME NEW m, NEW l, Agree(m, l), NEW n \in Names, \A y \in On(l) : m.heap[y].name # n
  PROVE  UndefMacro(m, n) = m
<1>1. /\ Linked(m.heap) /\ Len(m.heap) \in Nat /\ m.macros \in 0 .. Len(m.heap)
      /\ Bucket(n) \in Buckets /\ IsList(m.heap, m.macros, l)
  BY AgreeTypes, BucketAssumption DEF Agree
<1>2. FirstAt(m.heap, m.htab[Bucket(n)], n) = {}
  <2>1. FindMacro(m, n) = {}
    BY LookupExact
  <2> QED
    BY <2>1 DEF FindMacro
<1>3. HtRemove(m, n) = m
  BY <1>2 DEF HtRemove
<1>4. List(m.heap, m.macros) = l
  BY <1>1, ListFacts, ListUnique
<1>5. FirstAt(m.heap, l, n) = {}
  <2>1. SUFFICES ASSUME NEW i \in FirstAt(m.heap, l, n) PROVE FALSE
    OBVIOUS
  <2>2. i \in 1 .. Len(l) /\ m.heap[l[i]].name = n
    BY DEF FirstAt
  <2> QED
    BY <2>2 DEF On
<1>6. Unlink(m, n) = m
  BY <1>4, <1>5 DEF Unlink
<1> QED
  BY <1>3, <1>6 DEF UndefMacro

LEMMA UndefPresent ==
  ASSUME NEW m, NEW l, Agree(m, l), NEW n \in Names, NEW p \in 1 .. Len(l), m.heap[l[p]].name = n
  PROVE  /\ Agree(UndefMacro(m, n), Without(l, p)) /\ Kept(m, UndefMacro(m, n))
         /\ \A y \in 1 .. Len(m.heap) : /\ UndefMacro(m, n).heap[y].name = m.heap[y].name
                                        /\ UndefMacro(m, n).heap[y].body = m.heap[y].body
         /\ Len(UndefMacro(m, n).heap) = Len(m.heap)
<1> DEFINE c == Bucket(n)
<1> DEFINE r == HtRemove(m, n)
<1> DEFINE k == UndefMacro(m, n)
<1>1. /\ m \in TableType /\ m.heap \in Seq(NodeType) /\ Len(m.heap) \in Nat /\ Linked(m.heap)
      /\ \A y \in 1 .. Len(m.heap) : m.heap[y] \in NodeType /\ m.heap[y].next \in 0 .. y - 1
      /\ m.htab \in [Buckets -> Seq(Nat)] /\ m.macros \in 0 .. Len(m.heap)
      /\ l \in Seq(1 .. Len(m.heap)) /\ Len(l) \in Nat /\ On(l) \subseteq 1 .. Len(m.heap)
      /\ \A i \in 1 .. Len(l) : l[i] \in 1 .. Len(m.heap)
  <2>1. m \in TableType /\ Linked(m.heap)
    BY DEF Agree
  <2>2. On(l) \subseteq 1 .. Len(m.heap)
    BY AgreeTypes
  <2>3. \A i \in 1 .. Len(l) : l[i] \in 1 .. Len(m.heap)
    BY <2>2 DEF On
  <2> QED
    BY <2>1, <2>2, <2>3, AgreeTypes
<1>31. Len(l) \in Nat /\ Len(m.heap) \in Nat /\ \A i \in 1 .. Len(l) : l[i] \in 1 .. Len(m.heap)
  BY <1>1
<1>32. /\ \A z \in 1 .. Len(m.heap) : m.heap[z].next \in Nat
       /\ \A z \in 1 .. Len(m.heap) : m.heap[z].next < z
  <2>1. SUFFICES ASSUME NEW z \in 1 .. Len(m.heap) PROVE m.heap[z].next \in Nat /\ m.heap[z].next < z
    OBVIOUS
  <2>2. m.heap[z].next \in 0 .. z - 1 /\ z \in Nat
    BY <1>1, <1>31
  <2> QED
    BY <2>2
<1>2. c \in Buckets /\ m.htab[c] \in Seq(Nat) /\ Len(m.htab[c]) \in Nat /\ NamesApart(m.heap, m.htab[c])
  BY <1>1, BucketAssumption, ChainApart
<1>3. l[p] \in On(l) /\ l[p] \in 1 .. Len(m.heap)
  BY <1>1 DEF On
<1>4. Once(l)
  BY DEF Once, Agree, NamesApart
<1>5. PICK q \in 1 .. Len(m.htab[c]) : m.htab[c][q] = l[p]
  <2>1. l[p] \in On(m.htab[c])
    BY <1>2, <1>3 DEF Agree, InTable
  <2> QED
    BY <2>1 DEF On
<1>6. FirstAt(m.heap, m.htab[c], n) = {q}
  <2>1. PICK s : s = m.htab[c]
    OBVIOUS
  <2>2. /\ FirstAt(m.heap, s, n) = {i \in 1 .. Len(s) : m.heap[s[i]].name = n}
        /\ \A i, j \in FirstAt(m.heap, s, n) : i = j
    <3>1. Len(s) \in Nat /\ NamesApart(m.heap, s)
      BY <1>2, <2>1
    <3> QED
      BY <3>1, FirstUnique
  <2>3. q \in FirstAt(m.heap, s, n)
    BY <1>5, <2>1, <2>2
  <2> QED
    BY <2>1, <2>2, <2>3
<1>7. PICK ht : ht = [m.htab EXCEPT ![c] = Without(m.htab[c], q)]
  OBVIOUS
<1>8. ht \in [Buckets -> Seq(Nat)]
  <2>1. Without(m.htab[c], q) \in Seq(Nat)
    BY <1>2, WithoutFacts
  <2> QED
    BY <1>1, <1>7, <2>1
<1>9. r = [m EXCEPT !.htab = ht]
  <2>1. (CHOOSE i \in FirstAt(m.heap, m.htab[c], n) : TRUE) = q
    BY <1>6
  <2>2. r = [m EXCEPT !.htab[c] = Without(@, q)]
    BY <1>6, <2>1 DEF HtRemove
  <2> HIDE DEF r
  <2> QED
    BY <1>1, <1>2, <1>7, <2>2 DEF TableType
<1> HIDE DEF r
<1>10. r.heap = m.heap /\ r.macros = m.macros /\ r.htab = ht
  BY <1>1, <1>9 DEF TableType
<1>11. List(r.heap, r.macros) = l
  <2>1. IsList(m.heap, m.macros, l)
    BY DEF Agree
  <2> QED
    BY <1>1, <1>10, <2>1, ListFacts, ListUnique
<1>12. FirstAt(r.heap, l, n) = {p}
  <2>1. NamesApart(m.heap, l)
    BY DEF Agree
  <2>2. /\ FirstAt(m.heap, l, n) = {i \in 1 .. Len(l) : m.heap[l[i]].name = n}
        /\ \A i, j \in FirstAt(m.heap, l, n) : i = j
    BY <1>31, <2>1, FirstUnique
  <2>3. p \in FirstAt(m.heap, l, n)
    BY <2>2
  <2> QED
    BY <1>10, <2>2, <2>3
<1>13. k = IF p = 1 THEN [r EXCEPT !.macros = m.heap[l[1]].next]
           ELSE [r EXCEPT !.heap[l[p - 1]].next = m.heap[l[p]].next]
  <2>1. (CHOOSE i \in FirstAt(r.heap, l, n) : TRUE) = p
    BY <1>12
  <2>2. k = Unlink(r, n)
    BY DEF UndefMacro, r
  <2> QED
    BY <1>10, <1>11, <1>12, <2>1, <2>2 DEF Unlink
<1> HIDE DEF k
<1>14. PICK y \in Nat : y = IF p = 1 THEN m.heap[l[1]].next ELSE m.macros
  <2>1. 1 \in 1 .. Len(l)
    BY <1>31
  <2>2. l[1] \in 1 .. Len(m.heap)
    BY <1>31, <2>1
  <2>3. m.heap[l[1]].next \in Nat
    BY <1>32, <2>2
  <2>4. m.macros \in Nat
    BY <1>1
  <2> QED
    BY <2>3, <2>4
<1>15. PICK g : g = IF p = 1 THEN m.heap
                    ELSE [m.heap EXCEPT ![l[p - 1]] = [@ EXCEPT !.next = m.heap[l[p]].next]]
  OBVIOUS
<1>16. p > 1 => p - 1 \in 1 .. Len(l) /\ l[p - 1] \in 1 .. Len(m.heap)
  <2>1. SUFFICES ASSUME p > 1 PROVE p - 1 \in 1 .. Len(l) /\ l[p - 1] \in 1 .. Len(m.heap)
    OBVIOUS
  <2>2. p - 1 \in 1 .. Len(l)
    BY <1>31, <2>1
  <2> QED
    BY <1>31, <2>2
<1>17. p > 1 => m.heap[l[p - 1]].next = l[p]
  <2>1. SUFFICES ASSUME p > 1 PROVE m.heap[l[p - 1]].next = l[p]
    OBVIOUS
  <2>2. p - 1 \in 0 .. Len(l) /\ p - 1 # 0 /\ p - 1 # Len(l) /\ (p - 1) + 1 = p
    BY <1>31, <2>1
  <2>3. Before(m.heap, m.macros, l, p - 1) = After(l, p - 1)
    BY <2>2 DEF Agree, IsList
  <2> QED
    BY <2>2, <2>3 DEF Before, After
<1>18. /\ g \in Seq(NodeType) /\ Len(g) = Len(m.heap)
       /\ \A z \in 1 .. Len(m.heap) :
            /\ g[z].name = m.heap[z].name /\ g[z].body = m.heap[z].body
            /\ g[z].next = IF p > 1 /\ z = l[p - 1] THEN m.heap[l[p]].next ELSE m.heap[z].next
  <2>1. CASE p = 1
    BY <1>1, <1>15, <2>1
  <2>2. CASE p # 1
    <3>1. p > 1 /\ l[p - 1] \in 1 .. Len(m.heap)
      BY <1>16, <2>2
    <3>2. PICK node : node = [m.heap[l[p - 1]] EXCEPT !.next = m.heap[l[p]].next]
      OBVIOUS
    <3>7. m.heap[l[p]].next \in Nat
      BY <1>3, <1>32
    <3>8. \A z \in 1 .. Len(m.heap) : m.heap[z] \in NodeType
      BY <1>1
    <3>3. m.heap[l[p - 1]] \in NodeType /\ m.heap[l[p]].next \in Nat
      BY <3>1, <3>7, <3>8
    <3>4. /\ node \in NodeType /\ node.next = m.heap[l[p]].next
          /\ node.name = m.heap[l[p - 1]].name /\ node.body = m.heap[l[p - 1]].body
      BY <3>2, <3>3 DEF NodeType
    <3>5. g = [m.heap EXCEPT ![l[p - 1]] = node]
      BY <1>1, <1>15, <2>2, <3>1, <3>2
    <3>6. /\ g \in Seq(NodeType) /\ Len(g) = Len(m.heap)
          /\ \A z \in 1 .. Len(m.heap) : g[z] = IF z = l[p - 1] THEN node ELSE m.heap[z]
      <4>1. PICK e \in 1 .. Len(m.heap) : e = l[p - 1]
        BY <3>1
      <4>2. PICK s \in Seq(NodeType) : s = m.heap
        BY <1>1
      <4>3. g = [s EXCEPT ![e] = node] /\ e \in 1 .. Len(s)
        BY <3>5, <4>1, <4>2
      <4>4. /\ g \in Seq(NodeType) /\ Len(g) = Len(s)
            /\ \A z \in 1 .. Len(s) : g[z] = IF z = e THEN node ELSE s[z]
        BY <3>4, <4>3, ExceptSeq
      <4> QED
        BY <4>1, <4>2, <4>4
    <3> QED
      BY <3>1, <3>4, <3>6
  <2> QED
    BY <2>1, <2>2
<1>19. /\ k.heap = g /\ k.macros = y /\ k.htab = ht
       /\ k.saved = m.saved /\ k.cmdline = m.cmdline /\ k.stack = m.stack
       /\ k \in TableType
  <2>1. k = [m EXCEPT !.htab = ht, !.macros = y, !.heap = g]
    <3>1. CASE p = 1
      BY <1>1, <1>9, <1>13, <1>14, <1>15, <3>1 DEF TableType
    <3>2. CASE p # 1
      BY <1>1, <1>9, <1>13, <1>14, <1>15, <3>2 DEF TableType
    <3> QED
      BY <3>1, <3>2
  <2> QED
    BY <1>1, <1>8, <1>14, <1>18, <2>1 DEF TableType
<1>20. Linked(g)
  <2>1. ASSUME NEW z \in 1 .. Len(g) PROVE g[z].next < z
    <3>1. z \in 1 .. Len(m.heap) /\ m.heap[z].next < z /\ m.heap[z].next \in Nat
      BY <1>18, <1>32
    <3>2. CASE p > 1 /\ z = l[p - 1]
      <4>1. l[p] < z
        BY <1>17, <3>1, <3>2
      <4>2. g[z].next = m.heap[l[p]].next /\ m.heap[l[p]].next \in Nat /\ m.heap[l[p]].next < l[p]
        BY <1>3, <1>18, <1>32, <3>1, <3>2
      <4> QED
        BY <1>3, <4>1, <4>2
    <3>3. CASE ~(p > 1 /\ z = l[p - 1])
      BY <1>18, <3>1, <3>3
    <3> QED
      BY <3>2, <3>3
  <2> QED
    BY <1>18, <2>1 DEF Linked
<1>21. PICK l2 : l2 = Without(l, p)
  OBVIOUS
<1>22. IsList(g, y, l2)
  <2>1. IsList(m.heap, m.macros, l)
    BY DEF Agree
  <2>2. Len(m.heap) \in Nat /\ Len(g) = Len(m.heap)
    BY <1>18, <1>31
  <2>3. Unlinks(m.heap, g, l, p)
    BY <1>18 DEF Unlinks
  <2>4. IsList(g, y, Without(l, p))
    BY <1>4, <1>14, <2>1, <2>2, <2>3, UnlinkedList
  <2> QED
    BY <1>21, <2>4
<1>23. On(l2) = On(l) \ {l[p]} /\ Once(l2)
  BY <1>1, <1>4, <1>21, WithoutOn
<1>24. NamesApart(g, l2)
  <2>1. SUFFICES ASSUME NEW i \in 1 .. Len(l2), NEW j \in 1 .. Len(l2), g[l2[i]].name = g[l2[j]].name
                 PROVE  i = j
    BY DEF NamesApart
  <2>2. l2[i] \in On(l) /\ l2[j] \in On(l)
    BY <1>23 DEF On
  <2>3. m.heap[l2[i]].name = m.heap[l2[j]].name
    BY <1>1, <1>18, <2>1, <2>2
  <2>4. PICK a \in 1 .. Len(l), b \in 1 .. Len(l) : l2[i] = l[a] /\ l2[j] = l[b]
    BY <2>2 DEF On
  <2>5. a = b
    BY <2>3, <2>4 DEF Agree, NamesApart
  <2> QED
    BY <1>23, <2>4, <2>5 DEF Once
<1>25. InTable(ht, g, l2)
  <2>1. SUFFICES ASSUME NEW e \in Buckets
                 PROVE  Once(ht[e]) /\ On(ht[e]) = {z \in On(l2) : Bucket(g[z].name) = e}
    BY DEF InTable
  <2>2. Once(m.htab[e]) /\ On(m.htab[e]) = {z \in On(l) : Bucket(m.heap[z].name) = e}
    BY DEF Agree, InTable
  <2>3. \A z \in On(l) : g[z].name = m.heap[z].name
    BY <1>1, <1>18
  <2>4. CASE e = c
    <3>1. ht[e] = Without(m.htab[c], q)
      BY <1>1, <1>7, <2>4
    <3>2. Once(ht[e]) /\ On(ht[e]) = On(m.htab[c]) \ {l[p]}
      BY <1>2, <1>5, <2>2, <2>4, <3>1, WithoutOn
    <3> QED
      BY <1>23, <2>2, <2>3, <2>4, <3>2
  <2>5. CASE e # c
    <3>1. ht[e] = m.htab[e]
      BY <1>1, <1>7, <2>5
    <3>2. Bucket(m.heap[l[p]].name) # e
      BY <2>5
    <3> QED
      BY <1>23, <2>2, <2>3, <3>1, <3>2
  <2> QED
    BY <2>4, <2>5
<1>26. Agree(k, l2)
  BY <1>19, <1>20, <1>22, <1>24, <1>25 DEF Agree
<1>27. Kept(m, k)
  <2>1. Len(m.heap) <= Len(k.heap)
    BY <1>18, <1>19, <1>31
  <2>2. \A z \in 1 .. Len(m.heap) : k.heap[z].name = m.heap[z].name
    BY <1>18, <1>19
  <2> QED
    BY <1>19, <2>1, <2>2 DEF Kept
<1> QED
  BY <1>18, <1>19, <1>21, <1>26, <1>27 DEF k

(* #undef keeps list and table in step, and its name is no longer defined. *)
LEMMA UndefKeeps ==
  ASSUME NEW m, NEW l, Agree(m, l), NEW n \in Names
  PROVE  \E l2 : /\ Agree(UndefMacro(m, n), l2) /\ Kept(m, UndefMacro(m, n))
                 /\ Finds(m, UndefMacro(m, n), n, None)
<1>1. CASE \A y \in On(l) : m.heap[y].name # n
  <2>1. UndefMacro(m, n) = m
    BY <1>1, UndefAbsent
  <2>2. Lookup(m, n) = None
    BY <1>1, LookupExact
  <2>3. Len(m.heap) \in Nat
    BY AgreeTypes
  <2>4. Kept(m, m)
    BY <2>3 DEF Kept
  <2> QED
    BY <2>1, <2>2, <2>4 DEF Finds
<1>2. CASE ~ \A y \in On(l) : m.heap[y].name # n
  <2>1. PICK p \in 1 .. Len(l) : m.heap[l[p]].name = n
    BY <1>2 DEF On
  <2>2. PICK k : k = UndefMacro(m, n)
    OBVIOUS
  <2>3. PICK l2 : l2 = Without(l, p)
    OBVIOUS
  <2>4. /\ Agree(k, l2) /\ Kept(m, k)
        /\ \A y \in 1 .. Len(m.heap) : k.heap[y].name = m.heap[y].name /\ k.heap[y].body = m.heap[y].body
    BY <2>1, <2>2, <2>3, UndefPresent
  <2>5. On(l) \subseteq 1 .. Len(m.heap) /\ l \in Seq(1 .. Len(m.heap))
    BY AgreeTypes
  <2>6. Once(l)
    BY DEF Once, Agree, NamesApart
  <2>7. On(l2) = On(l) \ {l[p]}
    BY <2>3, <2>5, <2>6, WithoutOn
  <2>8. \A y \in On(l) : m.heap[y].name = n => y = l[p]
    <3>1. SUFFICES ASSUME NEW i \in 1 .. Len(l), m.heap[l[i]].name = n PROVE l[i] = l[p]
      BY DEF On
    <3>2. i = p
      BY <2>1, <3>1 DEF Agree, NamesApart
    <3> QED
      BY <3>2
  <2>9. Finds(m, k, n, None)
    <3>1. SUFFICES ASSUME NEW i \in Names PROVE Lookup(k, i) = IF i = n THEN None ELSE Lookup(m, i)
      BY DEF Finds
    <3>2. CASE i = n
      <4>1. \A y \in On(l2) : k.heap[y].name # n
        BY <2>4, <2>5, <2>7, <2>8
      <4> QED
        BY <2>4, <3>2, <4>1, LookupExact
    <3>3. CASE i # n
      <4>1. CASE \E y \in On(l) : m.heap[y].name = i
        <5>1. PICK y \in On(l) : m.heap[y].name = i
          BY <4>1
        <5>2. y \in On(l2) /\ k.heap[y].name = i /\ k.heap[y].body = m.heap[y].body
          BY <2>1, <2>4, <2>5, <2>7, <3>3, <5>1
        <5>3. Lookup(m, i) = m.heap[y].body
          BY <5>1, LookupExact
        <5>4. Lookup(k, i) = k.heap[y].body
          BY <2>4, <5>2, LookupExact
        <5> QED
          BY <3>3, <5>2, <5>3, <5>4
      <4>2. CASE ~ \E y \in On(l) : m.heap[y].name = i
        <5>1. \A y \in On(l2) : k.heap[y].name # i
          BY <2>4, <2>5, <2>7, <4>2
        <5>2. Lookup(m, i) = None
          BY <4>2, LookupExact
        <5>3. Lookup(k, i) = None
          BY <2>4, <5>1, LookupExact
        <5> QED
          BY <3>3, <5>2, <5>3
      <4> QED
        BY <4>1, <4>2
    <3> QED
      BY <3>2, <3>3
  <2> QED
    BY <2>2, <2>4, <2>9
<1> QED
  BY <1>1, <1>2

-----------------------------------------------------------------------------
(* clear_macros.                                                           *)
Fills(h, l, g) ==
  g = [i \in 0 .. Len(l) |->
        IF i = 0 THEN [b \in Buckets |-> <<>>]
        ELSE [g[i - 1] EXCEPT ![Bucket(h[l[i]].name)] = <<l[i]>> \o @]]

LEMMA FillExists ==
  ASSUME NEW h, NEW l, Len(l) \in Nat
  PROVE  \E g : Fills(h, l, g)
<1> DEFINE F(i, a) == IF i = 0 THEN [b \in Buckets |-> <<>>]
                      ELSE [a EXCEPT ![Bucket(h[l[i]].name)] = <<l[i]>> \o @]
<1> DEFINE Built == {n \in Nat : \E g : g = [i \in 0 .. n |-> F(i, g[i - 1])]}
<1>1. 0 \in Built
  <2> DEFINE g == [i \in 0 .. 0 |-> [b \in Buckets |-> <<>>]]
  <2>1. \A i \in 0 .. 0 : g[i] = F(i, g[i - 1])
    OBVIOUS
  <2>2. g = [i \in 0 .. 0 |-> g[i]]
    OBVIOUS
  <2> HIDE DEF g, F
  <2>3. g = [i \in 0 .. 0 |-> F(i, g[i - 1])]
    BY <2>1, <2>2
  <2> QED
    BY <2>3
<1> HIDE DEF F
<1>2. ASSUME NEW n \in Nat, n \in Built PROVE n + 1 \in Built
  <2>1. PICK f : f = [i \in 0 .. n |-> F(i, f[i - 1])]
    BY <1>2
  <2>2. F(0, f[0 - 1]) = F(0, 0)
    BY DEF F
  <2> DEFINE g == [i \in 0 .. n + 1 |-> IF i <= n THEN f[i] ELSE F(i, f[n])]
  <2>3. ASSUME NEW i \in 0 .. n + 1 PROVE g[i] = F(i, g[i - 1])
    <3>1. CASE i = 0
      <4>1. 0 \in 0 .. n /\ 0 <= n
        OBVIOUS
      <4>2. g[i] = f[0] /\ f[0] = F(0, f[0 - 1])
        BY <2>1, <3>1, <4>1
      <4>3. \A a, c : F(0, a) = F(0, c)
        BY DEF F
      <4> QED
        BY <3>1, <4>2, <4>3
    <3>2. CASE i # 0 /\ i <= n
      <4>1. i \in 0 .. n /\ i - 1 \in 0 .. n + 1 /\ i - 1 <= n
        BY <3>2
      <4>2. f[i] = F(i, f[i - 1])
        BY <2>1, <4>1
      <4> QED
        BY <3>2, <4>1, <4>2
    <3>3. CASE i = n + 1
      <4>1. n \in 0 .. n + 1 /\ n <= n /\ i - 1 = n /\ ~(i <= n)
        BY <3>3
      <4> QED
        BY <4>1
    <3> QED
      BY <3>1, <3>2, <3>3
  <2>4. g = [i \in 0 .. n + 1 |-> g[i]]
    OBVIOUS
  <2> HIDE DEF g
  <2>5. g = [i \in 0 .. n + 1 |-> F(i, g[i - 1])]
    BY <2>3, <2>4
  <2> QED
    BY <2>5
<1> HIDE DEF Built
<1>3. Len(l) \in Built
  BY <1>1, <1>2, NatSetInduction
<1> QED
  BY <1>3 DEF Built, F, Fills

(* Each chain holds the nodes of its bucket.                               *)
LEMMA RefillFacts ==
  ASSUME NEW h \in Seq(NodeType), NEW l \in Seq(1 .. Len(h)), Once(l)
  PROVE  Refill(h, l) \in [Buckets -> Seq(Nat)] /\ InTable(Refill(h, l), h, l)
<1> DEFINE fill == CHOOSE g : Fills(h, l, g)
<1>1. Len(l) \in Nat
  OBVIOUS
<1>2. Fills(h, l, fill)
  BY <1>1, FillExists
<1>3. Refill(h, l) = fill[Len(l)]
  BY DEF Refill, Fills
<1> HIDE DEF fill
<1>4. /\ fill[0] = [b \in Buckets |-> <<>>]
      /\ \A i \in 1 .. Len(l) : fill[i] = [fill[i - 1] EXCEPT ![Bucket(h[l[i]].name)] = <<l[i]>> \o @]
  <2>1. 0 \in 0 .. Len(l) /\ \A i \in 1 .. Len(l) : i \in 0 .. Len(l) /\ i # 0
    BY <1>1
  <2> QED
    BY <1>2, <2>1 DEF Fills
<1>5. \A i \in 1 .. Len(l) : l[i] \in 1 .. Len(h) /\ l[i] \in Nat /\ Bucket(h[l[i]].name) \in Buckets
  <2>1. \A i \in 1 .. Len(l) : l[i] \in 1 .. Len(h)
    OBVIOUS
  <2>2. \A y \in 1 .. Len(h) : h[y] \in NodeType
    OBVIOUS
  <2>3. \A y \in 1 .. Len(h) : h[y].name \in Names
    BY <2>2 DEF NodeType
  <2> QED
    BY <2>1, <2>3, BucketAssumption
<1> DEFINE Nodes(i, b) == {x \in Nat : \E j \in 1 .. i : x = l[j] /\ Bucket(h[l[j]].name) = b}
<1> DEFINE Right(i) == /\ fill[i] \in [Buckets -> Seq(Nat)]
                       /\ \A b \in Buckets : Once(fill[i][b]) /\ On(fill[i][b]) = Nodes(i, b)
<1> DEFINE Done == {i \in Nat : i <= Len(l) => Right(i)}
<1>6. 0 \in Done
  <2>1. \A b \in Buckets : fill[0][b] = <<>>
    BY <1>4
  <2>2. PICK e \in Seq(Nat) : e = <<>> /\ Len(e) = 0
    BY Empty
  <2>3. fill[0] \in [Buckets -> Seq(Nat)]
    BY <1>4, <2>2
  <2>4. Once(e) /\ On(e) = {}
    BY <2>2 DEF Once, On
  <2>5. \A b : Nodes(0, b) = {}
    OBVIOUS
  <2> QED
    BY <2>1, <2>2, <2>3, <2>4, <2>5
<1> HIDE DEF Nodes, Right
<1>7. ASSUME NEW n \in Nat, n \in Done PROVE n + 1 \in Done
  <2>1. SUFFICES ASSUME n + 1 <= Len(l) PROVE Right(n + 1)
    OBVIOUS
  <2>2. Right(n)
    BY <1>1, <1>7, <2>1
  <2>12. /\ fill[n] \in [Buckets -> Seq(Nat)]
         /\ \A b \in Buckets : Once(fill[n][b]) /\ On(fill[n][b]) = Nodes(n, b)
    BY <2>2 DEF Right
  <2>3. PICK i \in 1 .. Len(l) : i = n + 1 /\ i - 1 = n
    BY <1>1, <2>1
  <2>4. PICK c \in Buckets : c = Bucket(h[l[i]].name)
    BY <1>5
  <2>5. PICK x \in Nat : x = l[i]
    BY <1>5
  <2>6. fill[i] = [fill[n] EXCEPT ![c] = <<x>> \o fill[n][c]]
    BY <1>4, <2>3, <2>4, <2>5
  <2>7. x \notin Nodes(n, c)
    <3>1. SUFFICES ASSUME NEW j \in 1 .. n, x = l[j] PROVE FALSE
      BY DEF Nodes
    <3>2. j \in 1 .. Len(l) /\ j # i
      BY <2>3, <1>1
    <3> QED
      BY <2>5, <3>1, <3>2 DEF Once
  <2>8. fill[n][c] \in Seq(Nat)
    BY <2>12
  <2>9. <<x>> \o fill[n][c] \in Seq(Nat)
    BY <2>8, Pushed
  <2>10. fill[i] \in [Buckets -> Seq(Nat)]
    BY <2>6, <2>9, <2>12
  <2>11. ASSUME NEW b \in Buckets PROVE Once(fill[i][b]) /\ On(fill[i][b]) = Nodes(i, b)
    <3>1. Once(fill[n][b]) /\ On(fill[n][b]) = Nodes(n, b)
      BY <2>12
    <3>2. \A j \in 1 .. i : j \in 1 .. n \/ j = i
      BY <2>3
    <3>3. \A j \in 1 .. n : j \in 1 .. i
      BY <2>3
    <3>4. CASE b = c
      <4>1. fill[i][b] = <<x>> \o fill[n][c]
        BY <2>6, <2>12, <3>4
      <4>2. Once(fill[i][b]) /\ On(fill[i][b]) = Nodes(n, c) \union {x}
        <5>1. PICK s \in Seq(Nat) : s = fill[n][c]
          BY <2>8
        <5>2. Once(s) /\ On(s) = Nodes(n, c) /\ x \notin On(s)
          BY <2>7, <3>1, <3>4, <5>1
        <5>3. On(<<x>> \o s) = On(s) \union {x} /\ Once(<<x>> \o s)
          BY <5>2, ConsOnce
        <5> QED
          BY <4>1, <5>1, <5>2, <5>3
      <4>3. Nodes(i, c) = Nodes(n, c) \union {x}
        BY <2>3, <2>4, <2>5, <3>2, <3>3 DEF Nodes
      <4> QED
        BY <3>4, <4>2, <4>3
    <3>5. CASE b # c
      <4>1. fill[i][b] = fill[n][b]
        BY <2>6, <2>12, <3>5
      <4>2. Nodes(i, b) = Nodes(n, b)
        BY <2>3, <2>4, <3>2, <3>3, <3>5 DEF Nodes
      <4> QED
        BY <3>1, <4>1, <4>2
    <3> QED
      BY <3>4, <3>5
  <2> QED
    BY <2>3, <2>10, <2>11 DEF Right
<1> HIDE DEF Done
<1>8. Len(l) \in Done
  BY <1>1, <1>6, <1>7, NatSetInduction
<1>9. Right(Len(l))
  BY <1>1, <1>8 DEF Done
<1>10. ASSUME NEW b PROVE Nodes(Len(l), b) = {x \in On(l) : Bucket(h[x].name) = b}
  BY <1>5 DEF Nodes, On
<1> QED
  BY <1>3, <1>9, <1>10 DEF InTable, Right

(* What clear_macros() leaves when it starts from head.                    *)
Restart(m, head) ==
  [m EXCEPT !.macros = head, !.stack = <<>>, !.htab = Refill(m.heap, List(m.heap, head))]

(* The start of a file: the nodes of a list, whatever links other nodes    *)
(* have, provided no two nodes up to its head have one name.               *)
LEMMA ClearAgrees ==
  ASSUME NEW m \in TableType, Linked(m.heap), NEW head \in 0 .. Len(m.heap),
         \A x, y \in 1 .. head : m.heap[x].name = m.heap[y].name => x = y
  PROVE  /\ Agree(Restart(m, head), List(m.heap, head))
         /\ Restart(m, head).heap = m.heap /\ Restart(m, head).saved = m.saved
         /\ Restart(m, head).cmdline = m.cmdline /\ Restart(m, head).stack = <<>>
<1> DEFINE c == Restart(m, head)
<1> DEFINE l == List(m.heap, head)
<1> DEFINE ht == Refill(m.heap, l)
<1>1. m.heap \in Seq(NodeType) /\ Len(m.heap) \in Nat /\ head \in Nat
  BY DEF TableType
<1>2. IsList(m.heap, head, l) /\ Descending(l) /\ \A i \in 1 .. Len(l) : l[i] <= head
  BY ListFacts
<1> HIDE DEF l
<1>3. l \in Seq(1 .. Len(m.heap)) /\ Len(l) \in Nat /\ \A i \in 1 .. Len(l) : l[i] \in 1 .. head
  <2>1. l \in Seq(1 .. Len(m.heap))
    BY <1>2 DEF IsList
  <2>2. \A i \in 1 .. Len(l) : l[i] \in 1 .. Len(m.heap)
    BY <2>1
  <2> QED
    BY <1>1, <1>2, <2>1, <2>2
<1>4. Once(l)
  <2>1. SUFFICES ASSUME NEW i \in 1 .. Len(l), NEW j \in 1 .. Len(l), l[i] = l[j], i # j PROVE FALSE
    BY DEF Once
  <2>2. i < j \/ j < i
    BY <1>3, <2>1
  <2>3. l[j] < l[i] \/ l[i] < l[j]
    BY <1>2, <2>2 DEF Descending
  <2> QED
    BY <1>3, <2>1, <2>3
<1>5. NamesApart(m.heap, l)
  <2>1. SUFFICES ASSUME NEW i \in 1 .. Len(l), NEW j \in 1 .. Len(l), m.heap[l[i]].name = m.heap[l[j]].name
                 PROVE  i = j
    BY DEF NamesApart
  <2>2. l[i] = l[j]
    BY <1>3, <2>1
  <2> QED
    BY <1>4, <2>2 DEF Once
<1>6. ht \in [Buckets -> Seq(Nat)] /\ InTable(ht, m.heap, l)
  BY <1>1, <1>3, <1>4, RefillFacts
<1> HIDE DEF ht
<1>7. c = [m EXCEPT !.macros = head, !.stack = <<>>, !.htab = ht]
  BY DEF ht, l, Restart
<1> HIDE DEF c
<1>8. <<>> \in Seq(Entry)
  BY Empty
<1>9. /\ c \in TableType /\ c.heap = m.heap /\ c.macros = head /\ c.htab = ht
      /\ c.saved = m.saved /\ c.cmdline = m.cmdline /\ c.stack = <<>>
  BY <1>1, <1>6, <1>7, <1>8 DEF TableType
<1>10. Agree(c, l)
  BY <1>2, <1>5, <1>6, <1>9 DEF Agree
<1> QED
  BY <1>9, <1>10 DEF l, c

(* A list on which every node points to the one allocated before it.       *)
LEMMA WholeList ==
  ASSUME NEW h, Linked(h), \A x \in 1 .. Len(h) : h[x].next = x - 1
  PROVE  On(List(h, Len(h))) = 1 .. Len(h)
<1>1. Len(h) \in Nat
  BY DEF Linked
<1> DEFINE Whole == {n \in Nat : n <= Len(h) => On(List(h, n)) = 1 .. n}
<1>2. 0 \in Whole
  <2>1. PICK e : e = List(h, 0) /\ Len(e) = 0
    BY ListEq, Empty
  <2>2. On(e) = {} /\ 1 .. 0 = {}
    BY <2>1 DEF On
  <2> QED
    BY <2>1, <2>2
<1>3. ASSUME NEW n \in Nat, n \in Whole PROVE n + 1 \in Whole
  <2>1. SUFFICES ASSUME n + 1 <= Len(h) PROVE On(List(h, n + 1)) = 1 .. n + 1
    OBVIOUS
  <2>2. PICK x \in 1 .. Len(h) : x = n + 1 /\ x - 1 = n
    BY <1>1, <2>1
  <2>3. PICK l : l = List(h, n)
    OBVIOUS
  <2>4. List(h, x) = <<x>> \o l
    BY <2>2, <2>3, ListEq
  <2>5. n \in 0 .. Len(h) /\ n <= Len(h)
    BY <1>1, <2>1
  <2>6. l \in Seq(1 .. Len(h)) /\ On(l) = 1 .. n
    BY <1>3, <2>3, <2>5, ListFacts DEF IsList
  <2>7. On(<<x>> \o l) = On(l) \union {x}
    BY <2>6, ConsOnce
  <2>8. (1 .. n) \union {n + 1} = 1 .. n + 1
    OBVIOUS
  <2> QED
    BY <2>2, <2>4, <2>6, <2>7, <2>8
<1> HIDE DEF Whole
<1>4. Len(h) \in Whole
  BY <1>1, <1>2, <1>3, NatSetInduction
<1> QED
  BY <1>1, <1>4 DEF Whole

-----------------------------------------------------------------------------
(* The define_pre() calls.                                                 *)
Defines(m, g) ==
  g = [i \in 0 .. Len(Predefined) |->
        IF i = 0 THEN m ELSE DefineMacro(g[i - 1], Predefined[i][1], Predefined[i][2])]

LEMMA DefinesExists == ASSUME NEW m PROVE \E g : Defines(m, g)
<1> DEFINE F(i, a) == IF i = 0 THEN m ELSE DefineMacro(a, Predefined[i][1], Predefined[i][2])
<1> DEFINE Built == {n \in Nat : \E g : g = [i \in 0 .. n |-> F(i, g[i - 1])]}
<1>1. 0 \in Built
  <2> DEFINE g == [i \in 0 .. 0 |-> m]
  <2>1. \A i \in 0 .. 0 : g[i] = F(i, g[i - 1])
    OBVIOUS
  <2>2. g = [i \in 0 .. 0 |-> g[i]]
    OBVIOUS
  <2> HIDE DEF g, F
  <2>3. g = [i \in 0 .. 0 |-> F(i, g[i - 1])]
    BY <2>1, <2>2
  <2> QED
    BY <2>3
<1> HIDE DEF F
<1>2. ASSUME NEW n \in Nat, n \in Built PROVE n + 1 \in Built
  <2>1. PICK f : f = [i \in 0 .. n |-> F(i, f[i - 1])]
    BY <1>2
  <2> DEFINE g == [i \in 0 .. n + 1 |-> IF i <= n THEN f[i] ELSE F(i, f[n])]
  <2>3. ASSUME NEW i \in 0 .. n + 1 PROVE g[i] = F(i, g[i - 1])
    <3>1. CASE i = 0
      <4>1. 0 \in 0 .. n /\ 0 <= n
        OBVIOUS
      <4>2. g[i] = f[0] /\ f[0] = F(0, f[0 - 1])
        BY <2>1, <3>1, <4>1
      <4>3. \A a, c : F(0, a) = F(0, c)
        BY DEF F
      <4> QED
        BY <3>1, <4>2, <4>3
    <3>2. CASE i # 0 /\ i <= n
      <4>1. i \in 0 .. n /\ i - 1 \in 0 .. n + 1 /\ i - 1 <= n
        BY <3>2
      <4>2. f[i] = F(i, f[i - 1])
        BY <2>1, <4>1
      <4> QED
        BY <3>2, <4>1, <4>2
    <3>3. CASE i = n + 1
      <4>1. n \in 0 .. n + 1 /\ n <= n /\ i - 1 = n /\ ~(i <= n)
        BY <3>3
      <4> QED
        BY <4>1
    <3> QED
      BY <3>1, <3>2, <3>3
  <2>4. g = [i \in 0 .. n + 1 |-> g[i]]
    OBVIOUS
  <2> HIDE DEF g
  <2>5. g = [i \in 0 .. n + 1 |-> F(i, g[i - 1])]
    BY <2>3, <2>4
  <2> QED
    BY <2>5
<1> HIDE DEF Built
<1>3. Len(Predefined) \in Nat
  BY PredefinedAssumption
<1>4. Len(Predefined) \in Built
  BY <1>1, <1>2, <1>3, NatSetInduction
<1> QED
  BY <1>4 DEF Built, F, Defines

(* The last predefinition of a name.                                       *)
LEMMA MaxExists ==
  ASSUME NEW N \in Nat, NEW S \in SUBSET (1 .. N), S # {}
  PROVE  \E i \in S : \A j \in S : j <= i
<1> DEFINE Bounds == {u \in Nat : \A x \in S : x <= u}
<1>1. IsWellFoundedOn(Less, Nat)
  <2>1. Less = OpToRel(<, Nat)
    BY DEF Less, OpToRel
  <2> QED
    BY <2>1, NatLessThanWellFounded
<1>2. Bounds \subseteq Nat /\ N \in Bounds
  OBVIOUS
<1>3. PICK u \in Bounds : \A v \in Bounds : ~(<<v, u>> \in Less)
  <2> HIDE DEF Bounds
  <2> QED
    BY <1>1, <1>2, WFMin
<1>4. ASSUME u \notin S PROVE FALSE
  <2>1. PICK x \in S : x \in 1 .. N
    OBVIOUS
  <2>2. u \in Nat /\ u # 0 /\ x <= u
    BY <2>1
  <2>3. u - 1 \in Bounds /\ <<u - 1, u>> \in Less
    <3>1. \A y \in S : y \in Nat /\ y <= u /\ y # u
      BY <1>4
    <3>2. u - 1 \in Nat /\ \A y \in S : y <= u - 1
      BY <2>2, <3>1
    <3> QED
      BY <2>2, <3>2 DEF Less
  <2> QED
    BY <1>3, <2>3
<1> QED
  BY <1>3, <1>4

LEMMA PredefinedFacts ==
  ASSUME NEW n \in Names
  PROVE  \/ /\ PredefinedBody(n) = None /\ \A j \in 1 .. Len(Predefined) : Predefined[j][1] # n
         \/ \E i \in 1 .. Len(Predefined) :
              /\ Predefined[i][1] = n /\ PredefinedBody(n) = Predefined[i][2] /\ PredefinedBody(n) # None
              /\ \A j \in (i + 1) .. Len(Predefined) : Predefined[j][1] # n
<1> DEFINE is == {i \in 1 .. Len(Predefined) : Predefined[i][1] = n}
<1>1. Len(Predefined) \in Nat /\ \A i \in 1 .. Len(Predefined) : Predefined[i] \in Names \X Bodies
  BY PredefinedAssumption
<1>2. CASE is = {}
  BY <1>2 DEF PredefinedBody
<1>3. CASE is # {}
  <2>1. \E i \in is : \A j \in is : j <= i
    <3>1. is \in SUBSET (1 .. Len(Predefined))
      OBVIOUS
    <3> HIDE DEF is
    <3> QED
      BY <1>1, <1>3, <3>1, MaxExists
  <2>2. PICK i : i = CHOOSE k \in is : \A j \in is : j <= k
    OBVIOUS
  <2>3. i \in is /\ \A j \in is : j <= i
    BY <2>1, <2>2
  <2>4. PredefinedBody(n) = Predefined[i][2]
    BY <1>3, <2>2 DEF PredefinedBody
  <2>5. Predefined[i][2] \in Bodies /\ Predefined[i][2] # None
    BY <1>1, <2>3, NoneAssumption
  <2>6. ASSUME NEW j \in (i + 1) .. Len(Predefined) PROVE Predefined[j][1] # n
    <3>1. j \in 1 .. Len(Predefined) /\ ~(j <= i)
      BY <1>1, <2>3
    <3> QED
      BY <2>3, <3>1
  <2> QED
    BY <2>3, <2>4, <2>5, <2>6
<1> QED
  BY <1>2, <1>3

(* After the predefined macros: list and table agree on all nodes, and a   *)
(* name is found as predefined, else as before.                            *)
LEMMA PredefinedKeeps ==
  ASSUME NEW m, NEW l, Agree(m, l), On(l) = 1 .. Len(m.heap)
  PROVE  \E l2 : /\ Agree(DefinePredefined(m), l2) /\ Kept(m, DefinePredefined(m))
                 /\ On(l2) = 1 .. Len(DefinePredefined(m).heap)
                 /\ \A n \in Names : Lookup(DefinePredefined(m), n) =
                      IF PredefinedBody(n) # None THEN PredefinedBody(n) ELSE Lookup(m, n)
<1> DEFINE after == CHOOSE g : Defines(m, g)
<1>1. Len(Predefined) \in Nat
      /\ \A i \in 1 .. Len(Predefined) : Predefined[i][1] \in Names /\ Predefined[i][2] \in Bodies
  <2>1. \A i \in 1 .. Len(Predefined) : Predefined[i] \in Names \X Bodies
    BY PredefinedAssumption
  <2> QED
    BY <2>1, PredefinedAssumption
<1>2. Defines(m, after)
  BY DefinesExists
<1>3. DefinePredefined(m) = after[Len(Predefined)]
  BY DEF DefinePredefined, Defines
<1> HIDE DEF after
<1>4. /\ after[0] = m
      /\ \A i \in 1 .. Len(Predefined) :
           after[i] = DefineMacro(after[i - 1], Predefined[i][1], Predefined[i][2])
  <2>1. 0 \in 0 .. Len(Predefined) /\ \A i \in 1 .. Len(Predefined) : i \in 0 .. Len(Predefined) /\ i # 0
    BY <1>1
  <2> QED
    BY <1>2, <2>1 DEF Defines
<1> DEFINE Tables(i) == \E k : /\ Agree(after[i], k) /\ Kept(m, after[i])
                               /\ On(k) = 1 .. Len(after[i].heap)
<1> DEFINE Others(i) == \A n \in Names : (\A j \in 1 .. i : Predefined[j][1] # n) =>
                          Lookup(after[i], n) = Lookup(m, n)
<1> DEFINE Latest(i) == \A j \in 1 .. i : (\A e \in (j + 1) .. i : Predefined[e][1] # Predefined[j][1]) =>
                          Lookup(after[i], Predefined[j][1]) = Predefined[j][2]
<1> DEFINE Done == {i \in Nat : i <= Len(Predefined) => Tables(i) /\ Others(i) /\ Latest(i)}
<1>5. 0 \in Done
  <2>1. Len(m.heap) \in Nat
    BY AgreeTypes
  <2>2. Kept(m, m)
    BY <2>1 DEF Kept
  <2> QED
    BY <1>4, <2>2
<1> HIDE DEF Tables, Others, Latest
<1>6. ASSUME NEW n \in Nat, n \in Done PROVE n + 1 \in Done
  <2>1. SUFFICES ASSUME n + 1 <= Len(Predefined) PROVE Tables(n + 1) /\ Others(n + 1) /\ Latest(n + 1)
    OBVIOUS
  <2>2. Tables(n) /\ Others(n) /\ Latest(n)
    BY <1>1, <1>6, <2>1
  <2>3. PICK i \in 1 .. Len(Predefined) : i = n + 1 /\ i - 1 = n
    BY <1>1, <2>1
  <2>4. PICK a \in Names, b \in Bodies : a = Predefined[i][1] /\ b = Predefined[i][2]
    BY <1>1
  <2>5. PICK p : p = after[n]
    OBVIOUS
  <2>6. PICK k : Agree(p, k) /\ Kept(m, p) /\ On(k) = 1 .. Len(p.heap)
    BY <2>2, <2>5 DEF Tables
  <2>7. PICK q : q = after[i]
    OBVIOUS
  <2>8. q = DefineMacro(p, a, b)
    BY <1>4, <2>3, <2>4, <2>5, <2>7
  <2>9. PICK k2 : /\ Agree(q, k2) /\ Kept(p, q) /\ Finds(p, q, a, b)
                  /\ On(k2) = On(k) \union ((Len(p.heap) + 1) .. Len(q.heap))
    <3>1. \E k2 : /\ Agree(DefineMacro(p, a, b), k2) /\ Kept(p, DefineMacro(p, a, b))
                  /\ Finds(p, DefineMacro(p, a, b), a, b)
                  /\ On(k2) = On(k) \union ((Len(p.heap) + 1) .. Len(DefineMacro(p, a, b).heap))
      <4>1. Agree(p, k) /\ a \in Names /\ b \in Bodies
        BY <2>4, <2>6
      <4> QED
        BY <4>1, DefineKeeps
    <3> QED
      BY <2>8, <3>1
  <2>10. Len(p.heap) \in Nat /\ Len(q.heap) \in Nat /\ Len(m.heap) \in Nat
         /\ Len(m.heap) <= Len(p.heap) /\ Len(p.heap) <= Len(q.heap)
    <3>1. Len(p.heap) \in Nat /\ Len(q.heap) \in Nat /\ Len(m.heap) \in Nat
      BY <2>6, <2>9, AgreeTypes
    <3> QED
      BY <2>6, <2>9, <3>1 DEF Kept
  <2>11. On(k2) = 1 .. Len(q.heap)
    <3>1. PICK x \in Nat, y \in Nat : x = Len(p.heap) /\ y = Len(q.heap) /\ x <= y
      BY <2>10
    <3>2. (1 .. x) \union ((x + 1) .. y) = 1 .. y
      BY <3>1
    <3> QED
      BY <2>6, <2>9, <3>1, <3>2
  <2>12. Kept(m, q)
    <3>1. \A x \in 1 .. Len(m.heap) : x \in 1 .. Len(p.heap)
      BY <2>10
    <3> QED
      BY <2>6, <2>9, <2>10, <3>1 DEF Kept
  <2>13. Tables(i)
    BY <2>7, <2>9, <2>11, <2>12 DEF Tables
  <2>14. Others(i)
    <3>1. SUFFICES ASSUME NEW c \in Names, \A j \in 1 .. i : Predefined[j][1] # c
                   PROVE  Lookup(q, c) = Lookup(m, c)
      BY <2>7 DEF Others
    <3>2. c # a /\ \A j \in 1 .. n : j \in 1 .. i
      BY <2>3, <2>4, <3>1
    <3>3. Lookup(p, c) = Lookup(m, c)
      BY <2>2, <2>5, <3>1, <3>2 DEF Others
    <3> QED
      BY <2>9, <3>2, <3>3 DEF Finds
  <2>15. Latest(i)
    <3>1. SUFFICES ASSUME NEW j \in 1 .. i, \A e \in (j + 1) .. i : Predefined[e][1] # Predefined[j][1]
                   PROVE  Lookup(q, Predefined[j][1]) = Predefined[j][2]
      BY <2>7 DEF Latest
    <3>2. CASE j = i
      BY <2>4, <2>9, <3>2 DEF Finds
    <3>3. CASE j # i
      <4>1. j \in 1 .. n /\ i \in (j + 1) .. i /\ j \in 1 .. Len(Predefined)
        BY <1>1, <2>3, <3>3
      <4>2. \A e \in (j + 1) .. n : e \in (j + 1) .. i
        BY <2>3, <4>1
      <4>3. Lookup(p, Predefined[j][1]) = Predefined[j][2]
        BY <2>2, <2>5, <3>1, <4>1, <4>2 DEF Latest
      <4>4. Predefined[j][1] # a /\ Predefined[j][1] \in Names
        BY <1>1, <2>4, <3>1, <4>1
      <4> QED
        BY <2>9, <4>3, <4>4 DEF Finds
    <3> QED
      BY <3>2, <3>3
  <2> QED
    BY <2>3, <2>13, <2>14, <2>15
<1> HIDE DEF Done
<1>7. Len(Predefined) \in Done
  BY <1>1, <1>5, <1>6, NatSetInduction
<1>8. Tables(Len(Predefined)) /\ Others(Len(Predefined)) /\ Latest(Len(Predefined))
  BY <1>1, <1>7 DEF Done
<1>9. ASSUME NEW n \in Names
      PROVE  Lookup(DefinePredefined(m), n) = IF PredefinedBody(n) # None THEN PredefinedBody(n) ELSE Lookup(m, n)
  <2>1. CASE PredefinedBody(n) = None /\ \A j \in 1 .. Len(Predefined) : Predefined[j][1] # n
    BY <1>3, <1>8, <2>1 DEF Others
  <2>2. CASE \E i \in 1 .. Len(Predefined) :
               /\ Predefined[i][1] = n /\ PredefinedBody(n) = Predefined[i][2] /\ PredefinedBody(n) # None
               /\ \A j \in (i + 1) .. Len(Predefined) : Predefined[j][1] # n
    BY <1>3, <1>8, <2>2 DEF Latest
  <2> QED
    BY <2>1, <2>2, PredefinedFacts
<1> QED
  BY <1>3, <1>8, <1>9 DEF Tables

-----------------------------------------------------------------------------
(* The invariant, as long as no name is given twice.  While options are    *)
(* read, the nodes are the -D options', one name each.                     *)
Options ==
  /\ t.macros = 0 /\ t.saved = 0 /\ t.stack = <<>> /\ t.htab = [b \in Buckets |-> <<>>]
  /\ t.cmdline = Len(t.heap)
  /\ \A x \in 1 .. Len(t.heap) :
       /\ t.heap[x].next = x - 1 /\ opts[t.heap[x].name] = t.heap[x].body
       /\ PredefinedBody(t.heap[x].name) = None
  /\ \A x, y \in 1 .. Len(t.heap) : t.heap[x].name = t.heap[y].name => x = y
  /\ \A n \in Names : (\A x \in 1 .. Len(t.heap) : t.heap[x].name # n) => opts[n] = PredefinedBody(n)

(* Afterwards list and table agree, the nodes of the snapshot have one     *)
(* name each, and the first file's table is what C says.                   *)
Running ==
  /\ \E l : Agree(t, l)
  /\ t.saved \in 1 .. Len(t.heap)
  /\ \A x, y \in 1 .. t.saved : t.heap[x].name = t.heap[y].name => x = y
  /\ file = 1 => t.stack = pushed /\ \A n \in Names : Lookup(t, n) = want[n]

IInv ==
  /\ file \in Nat /\ repeated \in BOOLEAN /\ pushed \in Seq(Entry)
  /\ opts \in [Names -> Bodies \union {None}] /\ want \in [Names -> Bodies \union {None}]
  /\ ~repeated => /\ t \in TableType /\ Linked(t.heap)
                  /\ IF file = 0 THEN Options ELSE Running

-----------------------------------------------------------------------------
LEMMA InitIInv == Init => IInv
<1> SUFFICES ASSUME Init PROVE IInv
  OBVIOUS
<1>1. /\ t = [heap |-> <<>>, htab |-> [b \in Buckets |-> <<>>],
              macros |-> 0, saved |-> 0, cmdline |-> 0, stack |-> <<>>]
      /\ file = 0 /\ repeated = FALSE /\ pushed = <<>>
      /\ want = [n \in Names |-> None] /\ opts = [n \in Names |-> PredefinedBody(n)]
  BY DEF Init
<1>2. \A n \in Names : PredefinedBody(n) \in Bodies \union {None}
  <2>1. \A i \in 1 .. Len(Predefined) : Predefined[i] \in Names \X Bodies
    BY PredefinedAssumption
  <2>2. \A i \in 1 .. Len(Predefined) : Predefined[i][2] \in Bodies
    BY <2>1
  <2>3. ASSUME NEW n \in Names PROVE PredefinedBody(n) = None \/ \E i \in 1 .. Len(Predefined) : PredefinedBody(n) = Predefined[i][2]
    BY PredefinedFacts
  <2> QED
    BY <2>2, <2>3
<1>3. opts \in [Names -> Bodies \union {None}] /\ want \in [Names -> Bodies \union {None}]
  BY <1>1, <1>2
<1>4. <<>> \in Seq(NodeType) /\ <<>> \in Seq(Entry) /\ <<>> \in Seq(Nat) /\ Len(<<>>) = 0
  BY Empty
<1>5. [b \in Buckets |-> <<>>] \in [Buckets -> Seq(Nat)]
  BY <1>4
<1>6. t \in TableType
  BY <1>1, <1>4, <1>5 DEF TableType
<1>7. Len(t.heap) = 0 /\ t.heap \in Seq(NodeType)
  BY <1>1, <1>4
<1>8. Linked(t.heap)
  BY <1>7 DEF Linked
<1>9. Options
  BY <1>1, <1>7 DEF Options
<1> QED
  BY <1>1, <1>3, <1>4, <1>6, <1>8, <1>9 DEF IInv

(* A name that no option gives is defined as the compiler predefines it;   *)
(* so a -D of a name that is not repeated adds a new name.                 *)
LEMMA OptionDKeeps ==
  ASSUME IInv, NEW n \in Names, NEW b \in Bodies, OptionD(n, b) PROVE IInv'
<1>1. /\ file = 0 /\ file' = file /\ want' = want /\ pushed' = pushed
      /\ t' = AddDefine(t, n, b)
      /\ opts' = [opts EXCEPT ![n] = b]
      /\ repeated' = (repeated \/ opts[n] # None \/ n \in undefs)
  BY DEF OptionD
<1>2. /\ file' \in Nat /\ repeated' \in BOOLEAN /\ pushed' \in Seq(Entry)
      /\ opts' \in [Names -> Bodies \union {None}] /\ want' \in [Names -> Bodies \union {None}]
  BY <1>1 DEF IInv
<1>3. SUFFICES ASSUME ~repeated' PROVE t' \in TableType /\ Linked(t'.heap) /\ Options'
  BY <1>1, <1>2 DEF IInv
<1>4. /\ ~repeated /\ opts[n] = None /\ t \in TableType /\ Linked(t.heap) /\ Options
      /\ opts \in [Names -> Bodies \union {None}]
  BY <1>1, <1>3 DEF IInv
<1> DEFINE node == [name |-> n, body |-> b, next |-> t.cmdline]
<1>5. t.heap \in Seq(NodeType) /\ Len(t.heap) \in Nat /\ t.cmdline = Len(t.heap)
      /\ \A y \in 1 .. Len(t.heap) : t.heap[y] \in NodeType
  BY <1>4 DEF TableType, Options
<1>6. \A y \in 1 .. Len(t.heap) : t.heap[y].name \in Names /\ t.heap[y].body \in Bodies
  BY <1>5 DEF NodeType
<1>7. PICK x \in Nat : x = Len(t.heap) + 1
  BY <1>5
<1>8. node \in NodeType
  BY <1>5 DEF NodeType
<1>9. PICK h : h = Append(t.heap, node)
  OBVIOUS
<1>10. /\ h \in Seq(NodeType) /\ Len(h) = x /\ h[x] = node
       /\ \A y \in 1 .. Len(t.heap) : h[y] = t.heap[y]
  BY <1>5, <1>7, <1>8, <1>9, AppendProperties
<1>11. t' = [t EXCEPT !.heap = h, !.cmdline = x]
  BY <1>1, <1>5, <1>7, <1>9 DEF AddDefine
<1>12. /\ t'.heap = h /\ t'.cmdline = x /\ t'.macros = t.macros /\ t'.saved = t.saved
       /\ t'.stack = t.stack /\ t'.htab = t.htab /\ t' \in TableType
  BY <1>4, <1>10, <1>11 DEF TableType
<1>13. \A y \in 1 .. x : y = x \/ y \in 1 .. Len(t.heap)
  BY <1>5, <1>7
<1>14. h[x].name = n /\ h[x].body = b /\ h[x].next = x - 1
  BY <1>5, <1>7, <1>10
<1>15. \A y \in 1 .. Len(t.heap) : t.heap[y].name # n
  BY <1>4, <1>6, NoneAssumption DEF Options
<1>16. PredefinedBody(n) = None
  BY <1>4, <1>15 DEF Options
<1>17. Linked(h)
  <2>1. \A y \in 1 .. x : h[y].next < y
    BY <1>4, <1>7, <1>10, <1>13, <1>14 DEF Linked
  <2> QED
    BY <1>10, <2>1 DEF Linked
<1>18. ASSUME NEW y \in 1 .. x
       PROVE  h[y].next = y - 1 /\ opts'[h[y].name] = h[y].body /\ PredefinedBody(h[y].name) = None
  <2>1. CASE y = x
    BY <1>1, <1>4, <1>14, <1>16, <2>1
  <2>2. CASE y \in 1 .. Len(t.heap)
    <3>1. h[y] = t.heap[y] /\ t.heap[y].name # n /\ t.heap[y].name \in Names
      BY <1>6, <1>10, <1>15, <2>2
    <3>2. t.heap[y].next = y - 1 /\ opts[t.heap[y].name] = t.heap[y].body /\ PredefinedBody(t.heap[y].name) = None
      BY <1>4, <2>2 DEF Options
    <3> QED
      BY <1>1, <1>4, <3>1, <3>2
  <2> QED
    BY <1>13, <2>1, <2>2
<1>19. ASSUME NEW y \in 1 .. x, NEW z \in 1 .. x, h[y].name = h[z].name PROVE y = z
  <2>1. CASE y = x
    BY <1>10, <1>13, <1>14, <1>15, <1>19, <2>1
  <2>2. CASE z = x
    BY <1>10, <1>13, <1>14, <1>15, <1>19, <2>2
  <2>3. CASE y \in 1 .. Len(t.heap) /\ z \in 1 .. Len(t.heap)
    <3>1. t.heap[y].name = t.heap[z].name
      BY <1>10, <1>19, <2>3
    <3> QED
      BY <1>4, <2>3, <3>1 DEF Options
  <2> QED
    BY <1>13, <2>1, <2>2, <2>3
<1>20. ASSUME NEW i \in Names, \A y \in 1 .. x : h[y].name # i PROVE opts'[i] = PredefinedBody(i)
  <2>1. x \in 1 .. x /\ \A y \in 1 .. Len(t.heap) : y \in 1 .. x
    BY <1>5, <1>7
  <2>2. i # n /\ \A y \in 1 .. Len(t.heap) : t.heap[y].name # i
    BY <1>10, <1>14, <1>20, <2>1
  <2>3. opts[i] = PredefinedBody(i)
    BY <1>4, <2>2 DEF Options
  <2> QED
    BY <1>1, <1>4, <2>2, <2>3
<1>21. /\ t'.macros = 0 /\ t'.saved = 0 /\ t'.stack = <<>> /\ t'.htab = [c \in Buckets |-> <<>>]
       /\ t'.cmdline = Len(t'.heap)
  BY <1>4, <1>10, <1>12 DEF Options
<1>22. Options'
  BY <1>10, <1>12, <1>18, <1>19, <1>20, <1>21 DEF Options
<1> QED
  BY <1>12, <1>17, <1>22

(* -U works on an empty list and an empty table.                           *)
LEMMA OptionUKeeps ==
  ASSUME IInv, NEW n \in Names, OptionU(n) PROVE IInv'
<1>1. /\ file = 0 /\ file' = file /\ want' = want /\ pushed' = pushed
      /\ t' = UndefMacro(t, n)
      /\ opts' = [opts EXCEPT ![n] = None]
      /\ repeated' = (repeated \/ opts[n] # None)
  BY DEF OptionU
<1>2. /\ file' \in Nat /\ repeated' \in BOOLEAN /\ pushed' \in Seq(Entry)
      /\ opts' \in [Names -> Bodies \union {None}] /\ want' \in [Names -> Bodies \union {None}]
  BY <1>1 DEF IInv
<1>3. SUFFICES ASSUME ~repeated' PROVE t' \in TableType /\ Linked(t'.heap) /\ Options'
  BY <1>1, <1>2 DEF IInv
<1>4. /\ ~repeated /\ opts[n] = None /\ t \in TableType /\ Linked(t.heap) /\ Options
      /\ opts \in [Names -> Bodies \union {None}]
  BY <1>1, <1>3 DEF IInv
<1>5. opts' = opts
  BY <1>1, <1>4
<1>6. t' = t
  <2>1. Bucket(n) \in Buckets
    BY BucketAssumption
  <2>2. t.htab[Bucket(n)] = <<>> /\ t.macros = 0
    BY <1>4, <2>1 DEF Options
  <2>3. PICK s : s = <<>> /\ Len(s) = 0
    BY Empty
  <2>4. FirstAt(t.heap, s, n) = {}
    BY <2>3 DEF FirstAt
  <2>5. HtRemove(t, n) = t
    BY <2>2, <2>3, <2>4 DEF HtRemove
  <2>6. List(t.heap, t.macros) = s
    BY <1>4, <2>2, <2>3, ListEq
  <2>7. Unlink(t, n) = t
    BY <2>4, <2>6 DEF Unlink
  <2> QED
    BY <1>1, <2>5, <2>7 DEF UndefMacro
<1>7. Options'
  BY <1>4, <1>5, <1>6 DEF Options
<1> QED
  BY <1>4, <1>6, <1>7

(* What is found depends on nodes and table only.                          *)
LEMMA SameTable ==
  ASSUME NEW m, NEW l, Agree(m, l), NEW k \in TableType,
         k.heap = m.heap, k.htab = m.htab, k.macros = m.macros
  PROVE  Agree(k, l) /\ \A n : Lookup(k, n) = Lookup(m, n)
<1>1. Agree(k, l)
  BY DEF Agree
<1>2. ASSUME NEW n PROVE Lookup(k, n) = Lookup(m, n)
  <2>1. FindMacro(k, n) = FindMacro(m, n)
    BY DEF FindMacro
  <2>2. PICK f : f = FindMacro(m, n)
    OBVIOUS
  <2> QED
    BY <2>1, <2>2 DEF Lookup
<1> QED
  BY <1>1, <1>2

LEMMA FirstFile ==
  ASSUME IInv, BeginFile, ~repeated, file = 0 PROVE t' \in TableType /\ Linked(t'.heap) /\ Running'
<1>1. /\ t' = Preprocess(t) /\ file' = 1 /\ want' = opts /\ pushed' = <<>> /\ file' = file + 1
  BY DEF BeginFile
<1>2. t \in TableType /\ Linked(t.heap) /\ Options
  BY DEF IInv
<1>3. /\ t.heap \in Seq(NodeType) /\ Len(t.heap) \in Nat /\ t.cmdline = Len(t.heap)
      /\ t.saved = 0
      /\ \A x \in 1 .. Len(t.heap) : t.heap[x] \in NodeType
  BY <1>2 DEF TableType, Options
<1>4. PICK l : l = List(t.heap, Len(t.heap))
  OBVIOUS
<1>5. PICK c : c = ClearMacros(t)
  OBVIOUS
<1>6. c = Restart(t, Len(t.heap))
  BY <1>3, <1>5 DEF ClearMacros, Restart
<1>7. /\ Agree(c, l) /\ c.heap = t.heap /\ c.saved = t.saved /\ c.cmdline = t.cmdline /\ c.stack = <<>>
  <2>1. PICK x \in 0 .. Len(t.heap) : x = Len(t.heap)
    BY <1>3
  <2>2. \A y, z \in 1 .. x : t.heap[y].name = t.heap[z].name => y = z
    BY <1>2, <2>1 DEF Options
  <2>3. t \in TableType /\ Linked(t.heap)
    BY <1>2
  <2>4. /\ Agree(Restart(t, x), List(t.heap, x)) /\ Restart(t, x).heap = t.heap
        /\ Restart(t, x).saved = t.saved /\ Restart(t, x).cmdline = t.cmdline
        /\ Restart(t, x).stack = <<>>
    BY <2>2, <2>3, ClearAgrees
  <2>5. c = Restart(t, x)
    BY <1>6, <2>1
  <2>6. List(t.heap, x) = l
    BY <1>4, <2>1
  <2> QED
    BY <2>4, <2>5, <2>6
<1>8. On(l) = 1 .. Len(c.heap)
  <2>1. \A x \in 1 .. Len(t.heap) : t.heap[x].next = x - 1
    BY <1>2 DEF Options
  <2> QED
    BY <1>2, <1>4, <1>7, <2>1, WholeList
<1>9. PICK p : p = DefinePredefined(c)
  OBVIOUS
<1>10. PICK l2 : /\ Agree(p, l2) /\ Kept(c, p) /\ On(l2) = 1 .. Len(p.heap)
                 /\ \A n \in Names : Lookup(p, n) =
                      IF PredefinedBody(n) # None THEN PredefinedBody(n) ELSE Lookup(c, n)
  <2>1. \E l2 : /\ Agree(DefinePredefined(c), l2) /\ Kept(c, DefinePredefined(c))
                /\ On(l2) = 1 .. Len(DefinePredefined(c).heap)
                /\ \A n \in Names : Lookup(DefinePredefined(c), n) =
                     IF PredefinedBody(n) # None THEN PredefinedBody(n) ELSE Lookup(c, n)
    BY <1>7, <1>8, PredefinedKeeps
  <2> QED
    BY <1>9, <2>1
<1>11. PICK k : k = [p EXCEPT !.saved = p.macros]
  OBVIOUS
<1>12. t' = k
  BY <1>1, <1>3, <1>5, <1>9, <1>11 DEF Preprocess
<1>13. p \in TableType /\ Linked(p.heap)
  BY <1>10 DEF Agree
<1>14. /\ k.heap = p.heap /\ k.htab = p.htab /\ k.macros = p.macros /\ k.saved = p.macros
       /\ k.stack = p.stack /\ k \in TableType
  BY <1>11, <1>13 DEF TableType
<1>15. Agree(k, l2) /\ \A n : Lookup(k, n) = Lookup(p, n)
  BY <1>10, <1>14, SameTable
<1>16. p.macros \in 1 .. Len(p.heap)
  <2>1. Len(Predefined) \in Nat /\ Len(Predefined) # 0 /\ 1 \in 1 .. Len(Predefined)
    <3>1. Predefined \in Seq(Names \X Bodies) /\ Predefined # <<>>
      BY PredefinedAssumption
    <3>2. Len(Predefined) \in Nat /\ Len(Predefined) # 0
      BY <3>1, Empty
    <3> QED
      BY <3>2
  <2>2. PICK n \in Names : n = Predefined[1][1]
    <3>1. Predefined[1] \in Names \X Bodies
      BY <2>1, PredefinedAssumption
    <3> QED
      BY <3>1
  <2>3. PredefinedBody(n) # None
    BY <2>1, <2>2, PredefinedFacts
  <2>4. Lookup(p, n) # None
    BY <1>10, <2>3
  <2>5. PICK x \in On(l2) : p.heap[x].name = n
    BY <1>10, <2>4, LookupExact
  <2>6. Len(l2) \in Nat /\ Len(l2) # 0
    <3>1. Len(l2) \in Nat
      BY <1>10, AgreeTypes
    <3> QED
      BY <2>5, <3>1 DEF On
  <2>7. IsList(p.heap, p.macros, l2) /\ 0 \in 0 .. Len(l2)
    BY <1>10, <2>6 DEF Agree
  <2>8. p.macros = l2[1]
    BY <2>6, <2>7 DEF IsList, Before, After
  <2>9. l2[1] \in On(l2)
    <3>1. 1 \in 1 .. Len(l2)
      BY <2>6
    <3> QED
      BY <3>1 DEF On
  <2> QED
    BY <1>10, <2>8, <2>9
<1>17. ASSUME NEW x \in 1 .. p.macros, NEW y \in 1 .. p.macros, p.heap[x].name = p.heap[y].name PROVE x = y
  <2>1. Len(p.heap) \in Nat
    BY <1>10, AgreeTypes
  <2>2. x \in On(l2) /\ y \in On(l2)
    BY <1>10, <1>16, <2>1
  <2>3. PICK i \in 1 .. Len(l2), j \in 1 .. Len(l2) : x = l2[i] /\ y = l2[j]
    BY <2>2 DEF On
  <2>4. i = j
    BY <1>10, <1>17, <2>3 DEF Agree, NamesApart
  <2> QED
    BY <2>3, <2>4
<1>18. ASSUME NEW n \in Names PROVE Lookup(p, n) = opts[n]
  <2>1. CASE \E x \in On(l) : c.heap[x].name = n
    <3>1. PICK x \in 1 .. Len(t.heap) : x \in On(l) /\ t.heap[x].name = n /\ c.heap[x] = t.heap[x]
      BY <1>7, <1>8, <2>1
    <3>2. opts[n] = t.heap[x].body /\ PredefinedBody(n) = None
      BY <1>2, <3>1 DEF Options
    <3>3. Lookup(c, n) = c.heap[x].body
      BY <1>7, <3>1, LookupExact
    <3> QED
      BY <1>10, <3>1, <3>2, <3>3
  <2>2. CASE ~ \E x \in On(l) : c.heap[x].name = n
    <3>1. \A x \in 1 .. Len(t.heap) : t.heap[x].name # n
      BY <1>7, <1>8, <2>2
    <3>2. opts[n] = PredefinedBody(n)
      BY <1>2, <3>1 DEF Options
    <3>3. Lookup(c, n) = None
      BY <1>7, <2>2, LookupExact
    <3> QED
      BY <1>10, <3>2, <3>3
  <2> QED
    BY <2>1, <2>2
<1>19. k.stack = <<>>
  BY <1>7, <1>10, <1>14 DEF Kept
<1>20. Running'
  <2>1. \E a : Agree(t', a)
    BY <1>12, <1>15
  <2>2. t'.saved \in 1 .. Len(t'.heap)
    BY <1>12, <1>14, <1>16
  <2>3. \A x, y \in 1 .. t'.saved : t'.heap[x].name = t'.heap[y].name => x = y
    BY <1>12, <1>14, <1>17
  <2>4. t'.stack = pushed' /\ \A n \in Names : Lookup(t', n) = want'[n]
    BY <1>1, <1>12, <1>15, <1>18, <1>19
  <2> QED
    BY <2>1, <2>2, <2>3, <2>4 DEF Running
<1> QED
  BY <1>12, <1>13, <1>14, <1>20

(* A later file starts from the snapshot's nodes, whatever the earlier     *)
(* ones made of their links.                                               *)
LEMMA LaterFile ==
  ASSUME IInv, BeginFile, ~repeated, file # 0 PROVE t' \in TableType /\ Linked(t'.heap) /\ Running'
<1>1. /\ t' = Preprocess(t) /\ file' = file + 1
  BY DEF BeginFile
<1>2. t \in TableType /\ Linked(t.heap) /\ Running /\ file \in Nat
  BY DEF IInv
<1>3. /\ t.saved \in 1 .. Len(t.heap) /\ t.saved # 0 /\ t.saved \in 0 .. Len(t.heap)
      /\ \A x, y \in 1 .. t.saved : t.heap[x].name = t.heap[y].name => x = y
  <2>1. Len(t.heap) \in Nat
    BY <1>2 DEF Linked
  <2> QED
    BY <1>2, <2>1 DEF Running
<1>4. PICK c : c = ClearMacros(t)
  OBVIOUS
<1>5. c = Restart(t, t.saved)
  BY <1>3, <1>4 DEF ClearMacros, Restart
<1>6. Agree(c, List(t.heap, t.saved)) /\ c.heap = t.heap /\ c.saved = t.saved
  <2>1. t \in TableType /\ Linked(t.heap) /\ t.saved \in 0 .. Len(t.heap)
    BY <1>2, <1>3
  <2>2. \A x, y \in 1 .. t.saved : t.heap[x].name = t.heap[y].name => x = y
    BY <1>3
  <2>3. /\ Agree(Restart(t, t.saved), List(t.heap, t.saved))
        /\ Restart(t, t.saved).heap = t.heap /\ Restart(t, t.saved).saved = t.saved
    BY <2>1, <2>2, ClearAgrees
  <2> QED
    BY <1>5, <2>3
<1>7. t' = c
  BY <1>1, <1>3, <1>4 DEF Preprocess
<1>8. file' # 1
  BY <1>1, <1>2, file # 0
<1> QED
  BY <1>3, <1>6, <1>7, <1>8 DEF Running, Agree

LEMMA BeginFileKeeps == ASSUME IInv, BeginFile PROVE IInv'
<1>1. /\ file' = file + 1 /\ want' = opts /\ opts' = opts /\ repeated' = repeated /\ pushed' = <<>>
  BY DEF BeginFile
<1>2. /\ file' \in Nat /\ file' # 0 /\ repeated' \in BOOLEAN /\ pushed' \in Seq(Entry)
      /\ opts' \in [Names -> Bodies \union {None}] /\ want' \in [Names -> Bodies \union {None}]
  <2>1. <<>> \in Seq(Entry)
    BY Empty
  <2> QED
    BY <1>1, <2>1 DEF IInv
<1>3. ~repeated => t' \in TableType /\ Linked(t'.heap) /\ Running'
  BY FirstFile, LaterFile
<1> QED
  BY <1>1, <1>2, <1>3 DEF IInv

(* A line of a running file that keeps list and table in step.             *)
LEMMA LineKeeps ==
  ASSUME IInv, ~repeated, file # 0, file' = file, NEW k, t' = k, NEW l, Agree(k, l),
         k.saved = t.saved, Len(t.heap) <= Len(k.heap),
         \A x \in 1 .. Len(t.heap) : k.heap[x].name = t.heap[x].name,
         file = 1 => k.stack = pushed' /\ \A n \in Names : Lookup(k, n) = want'[n]
  PROVE  t' \in TableType /\ Linked(t'.heap) /\ Running'
<1>1. Running /\ Linked(t.heap) /\ Len(t.heap) \in Nat /\ Len(k.heap) \in Nat
  BY AgreeTypes DEF IInv, Linked
<1>2. t.saved \in 1 .. Len(t.heap) /\ t.saved \in 1 .. Len(k.heap)
  BY <1>1 DEF Running
<1>3. ASSUME NEW x \in 1 .. t.saved, NEW y \in 1 .. t.saved, k.heap[x].name = k.heap[y].name PROVE x = y
  <2>1. x \in 1 .. Len(t.heap) /\ y \in 1 .. Len(t.heap)
    BY <1>1, <1>2
  <2>2. t.heap[x].name = t.heap[y].name
    BY <1>3, <2>1
  <2> QED
    BY <1>1, <2>2 DEF Running
<1>4. Running'
  BY <1>2, <1>3 DEF Running
<1> QED
  BY <1>4 DEF Agree

LEMMA DefineStep == ASSUME IInv, NEW n \in Names, NEW b \in Bodies, Define(n, b) PROVE IInv'
<1>1. /\ file > 0 /\ file' = file /\ t' = DefineMacro(t, n, b) /\ want' = [want EXCEPT ![n] = b]
      /\ pushed' = pushed /\ opts' = opts /\ repeated' = repeated
  BY DEF Define
<1>2. /\ file' \in Nat /\ file # 0 /\ repeated' \in BOOLEAN /\ pushed' \in Seq(Entry)
      /\ opts' \in [Names -> Bodies \union {None}] /\ want' \in [Names -> Bodies \union {None}]
      /\ want \in [Names -> Bodies \union {None}]
  BY <1>1 DEF IInv
<1>3. SUFFICES ASSUME ~repeated PROVE t' \in TableType /\ Linked(t'.heap) /\ Running'
  BY <1>1, <1>2 DEF IInv
<1>4. Running
  BY <1>2, <1>3 DEF IInv
<1>5. PICK l : Agree(t, l)
  BY <1>4 DEF Running
<1>6. PICK k : k = DefineMacro(t, n, b)
  OBVIOUS
<1>7. \E l2 : Agree(DefineMacro(t, n, b), l2) /\ Kept(t, DefineMacro(t, n, b)) /\ Finds(t, DefineMacro(t, n, b), n, b)
  BY <1>5, DefineKeeps
<1>8. PICK l2 : Agree(k, l2) /\ Kept(t, k) /\ Finds(t, k, n, b)
  BY <1>6, <1>7
<1>9. file = 1 => k.stack = pushed' /\ \A i \in Names : Lookup(k, i) = want'[i]
  <2>1. SUFFICES ASSUME file = 1 PROVE k.stack = pushed' /\ \A i \in Names : Lookup(k, i) = want'[i]
    OBVIOUS
  <2>2. t.stack = pushed /\ \A i \in Names : Lookup(t, i) = want[i]
    BY <1>4, <2>1 DEF Running
  <2> QED
    BY <1>1, <1>2, <1>8, <2>2 DEF Kept, Finds
<1> QED
  BY <1>1, <1>2, <1>3, <1>6, <1>8, <1>9, LineKeeps DEF Kept

LEMMA UndefStep == ASSUME IInv, NEW n \in Names, Undef(n) PROVE IInv'
<1>1. /\ file > 0 /\ file' = file /\ t' = UndefMacro(t, n) /\ want' = [want EXCEPT ![n] = None]
      /\ pushed' = pushed /\ opts' = opts /\ repeated' = repeated
  BY DEF Undef
<1>2. /\ file' \in Nat /\ file # 0 /\ repeated' \in BOOLEAN /\ pushed' \in Seq(Entry)
      /\ opts' \in [Names -> Bodies \union {None}] /\ want' \in [Names -> Bodies \union {None}]
      /\ want \in [Names -> Bodies \union {None}]
  BY <1>1 DEF IInv
<1>3. SUFFICES ASSUME ~repeated PROVE t' \in TableType /\ Linked(t'.heap) /\ Running'
  BY <1>1, <1>2 DEF IInv
<1>4. Running
  BY <1>2, <1>3 DEF IInv
<1>5. PICK l : Agree(t, l)
  BY <1>4 DEF Running
<1>6. PICK k : k = UndefMacro(t, n)
  OBVIOUS
<1>7. PICK l2 : Agree(k, l2) /\ Kept(t, k) /\ Finds(t, k, n, None)
  BY <1>5, <1>6, UndefKeeps
<1>8. file = 1 => k.stack = pushed' /\ \A i \in Names : Lookup(k, i) = want'[i]
  <2>1. SUFFICES ASSUME file = 1 PROVE k.stack = pushed' /\ \A i \in Names : Lookup(k, i) = want'[i]
    OBVIOUS
  <2>2. t.stack = pushed /\ \A i \in Names : Lookup(t, i) = want[i]
    BY <1>4, <2>1 DEF Running
  <2> QED
    BY <1>1, <1>2, <1>7, <2>2 DEF Kept, Finds
<1> QED
  BY <1>1, <1>2, <1>3, <1>6, <1>7, <1>8, LineKeeps DEF Kept

LEMMA PushStep == ASSUME IInv, NEW n \in Names, Push(n) PROVE IInv'
<1>1. /\ file > 0 /\ file' = file /\ t' = PushMacro(t, n) /\ want' = want
      /\ pushed' = Append(pushed, [name |-> n, body |-> want[n]]) /\ opts' = opts /\ repeated' = repeated
  BY DEF Push
<1>2. /\ file' \in Nat /\ file # 0 /\ repeated' \in BOOLEAN /\ pushed' \in Seq(Entry)
      /\ opts' \in [Names -> Bodies \union {None}] /\ want' \in [Names -> Bodies \union {None}]
  <2>1. pushed \in Seq(Entry) /\ want[n] \in Bodies \union {None}
    BY DEF IInv
  <2>2. [name |-> n, body |-> want[n]] \in Entry
    BY <2>1 DEF Entry
  <2>3. pushed' \in Seq(Entry)
    BY <1>1, <2>1, <2>2
  <2> QED
    BY <1>1, <2>3 DEF IInv
<1>3. SUFFICES ASSUME ~repeated PROVE t' \in TableType /\ Linked(t'.heap) /\ Running'
  BY <1>1, <1>2 DEF IInv
<1>4. Running /\ t \in TableType
  BY <1>2, <1>3 DEF IInv
<1>5. PICK l : Agree(t, l)
  BY <1>4 DEF Running
<1>6. Lookup(t, n) \in Bodies \union {None}
  <2>1. CASE \E x \in On(l) : t.heap[x].name = n
    <3>1. PICK x \in On(l) : t.heap[x].name = n
      BY <2>1
    <3>2. t.heap[x].body \in Bodies
      BY <1>5, AgreeTypes
    <3> QED
      BY <1>5, <3>1, <3>2, LookupExact
  <2>2. CASE ~ \E x \in On(l) : t.heap[x].name = n
    BY <1>5, <2>2, LookupExact
  <2> QED
    BY <2>1, <2>2
<1>7. PICK s : s = Append(t.stack, [name |-> n, body |-> Lookup(t, n)])
  OBVIOUS
<1>8. s \in Seq(Entry)
  <2>1. [name |-> n, body |-> Lookup(t, n)] \in Entry
    BY <1>6 DEF Entry
  <2>2. t.stack \in Seq(Entry)
    BY <1>4 DEF TableType
  <2> QED
    BY <1>7, <2>1, <2>2
<1>9. PICK k : k = [t EXCEPT !.stack = s]
  OBVIOUS
<1>10. t' = k
  BY <1>1, <1>4, <1>7, <1>9 DEF PushMacro, TableType
<1>11. /\ k \in TableType /\ k.heap = t.heap /\ k.htab = t.htab /\ k.macros = t.macros /\ k.saved = t.saved
       /\ k.stack = s
  BY <1>4, <1>8, <1>9 DEF TableType
<1>12. Agree(k, l) /\ \A i : Lookup(k, i) = Lookup(t, i)
  BY <1>5, <1>11, SameTable
<1>13. file = 1 => k.stack = pushed' /\ \A i \in Names : Lookup(k, i) = want'[i]
  <2>1. SUFFICES ASSUME file = 1 PROVE k.stack = pushed' /\ \A i \in Names : Lookup(k, i) = want'[i]
    OBVIOUS
  <2>2. t.stack = pushed /\ \A i \in Names : Lookup(t, i) = want[i]
    BY <1>4, <2>1 DEF Running
  <2> QED
    BY <1>1, <1>7, <1>11, <1>12, <2>2
<1>14. Len(t.heap) <= Len(k.heap)
  <2>1. Len(t.heap) \in Nat
    BY <1>5, AgreeTypes
  <2> QED
    BY <1>11, <2>1
<1> QED
  BY <1>1, <1>2, <1>3, <1>10, <1>11, <1>12, <1>13, <1>14, LineKeeps

(* A name has one innermost entry.                                         *)
LEMMA LastUnique ==
  ASSUME NEW s, Len(s) \in Nat, NEW n, NEW i \in LastAt(s, n)
  PROVE  i \in 1 .. Len(s) /\ s[i].name = n /\ (CHOOSE k \in LastAt(s, n) : TRUE) = i
<1>1. \A k \in LastAt(s, n) : k \in 1 .. Len(s) /\ s[k].name = n /\ \A j \in (k + 1) .. Len(s) : s[j].name # n
  BY DEF LastAt
<1>2. ASSUME NEW k \in LastAt(s, n) PROVE k = i
  <2>1. k \in 1 .. Len(s) /\ i \in 1 .. Len(s) /\ ~(k < i) /\ ~(i < k)
    <3>1. k \in 1 .. Len(s) /\ i \in 1 .. Len(s)
      BY <1>1
    <3>2. CASE k < i
      <4>1. i \in (k + 1) .. Len(s)
        BY <3>1, <3>2
      <4> QED
        BY <1>1, <4>1
    <3>3. CASE i < k
      <4>1. k \in (i + 1) .. Len(s)
        BY <3>1, <3>3
      <4> QED
        BY <1>1, <4>1
    <3> QED
      BY <3>1, <3>2, <3>3
  <2> QED
    BY <2>1
<1> QED
  BY <1>1, <1>2

(* Taking an entry off changes neither nodes nor table.                    *)
LEMMA EntryTaken ==
  ASSUME NEW m, NEW l, Agree(m, l), NEW i \in 1 .. Len(m.stack)
  PROVE  LET p == [m EXCEPT !.stack = Without(@, i)]
         IN /\ Agree(p, l) /\ p.stack = Without(m.stack, i) /\ p.heap = m.heap /\ p.saved = m.saved
            /\ \A j : Lookup(p, j) = Lookup(m, j)
<1>1. m \in TableType /\ m.stack \in Seq(Entry)
  BY AgreeTypes DEF Agree
<1>2. PICK s : s = Without(m.stack, i)
  OBVIOUS
<1>3. s \in Seq(Entry)
  BY <1>1, <1>2, WithoutFacts
<1>4. PICK p : p = [m EXCEPT !.stack = s]
  OBVIOUS
<1>5. p = [m EXCEPT !.stack = Without(@, i)]
  BY <1>1, <1>2, <1>4 DEF TableType
<1>6. /\ p \in TableType /\ p.stack = s /\ p.heap = m.heap /\ p.htab = m.htab /\ p.macros = m.macros
      /\ p.saved = m.saved
  BY <1>1, <1>3, <1>4 DEF TableType
<1>7. Agree(p, l) /\ \A j : Lookup(p, j) = Lookup(m, j)
  BY <1>6, SameTable
<1> QED
  BY <1>2, <1>5, <1>6, <1>7

(* pop_macro of a name that was pushed restores its definition, by an      *)
(* #undef or a #define, and nothing else.                                  *)
LEMMA PopKeeps ==
  ASSUME NEW m, NEW l, Agree(m, l), NEW n \in Names, NEW i \in LastAt(m.stack, n)
  PROVE  \E l2, k : /\ k = PopMacro(m, n) /\ Agree(k, l2) /\ k.stack = Without(m.stack, i) /\ k.saved = m.saved
                    /\ Len(m.heap) <= Len(k.heap)
                    /\ \A x \in 1 .. Len(m.heap) : k.heap[x].name = m.heap[x].name
                    /\ Finds(m, k, n, m.stack[i].body)
<1>1. m.stack \in Seq(Entry) /\ Len(m.stack) \in Nat
  BY AgreeTypes
<1>2. i \in 1 .. Len(m.stack) /\ (CHOOSE k \in LastAt(m.stack, n) : TRUE) = i /\ LastAt(m.stack, n) # {}
  BY <1>1, LastUnique
<1>3. PICK p : p = [m EXCEPT !.stack = Without(@, i)]
  OBVIOUS
<1>4. /\ Agree(p, l) /\ p.stack = Without(m.stack, i) /\ p.heap = m.heap /\ p.saved = m.saved
      /\ \A j : Lookup(p, j) = Lookup(m, j)
  BY <1>2, <1>3, EntryTaken
<1>5. PICK b : b = m.stack[i].body
  OBVIOUS
<1>6. PopMacro(m, n) = IF b = None THEN UndefMacro(p, n) ELSE DefineMacro(p, n, b)
  BY <1>2, <1>3, <1>5 DEF PopMacro
<1>7. b = None \/ b \in Bodies
  <2>1. m.stack[i] \in Entry
    BY <1>1, <1>2
  <2> QED
    BY <1>5, <2>1 DEF Entry
<1>8. PICK k : k = PopMacro(m, n)
  OBVIOUS
<1>9. \E l2 : Agree(k, l2) /\ Kept(p, k) /\ Finds(p, k, n, b)
  <2>1. CASE b = None
    <3>1. \E l2 : Agree(UndefMacro(p, n), l2) /\ Kept(p, UndefMacro(p, n)) /\ Finds(p, UndefMacro(p, n), n, None)
      BY <1>4, UndefKeeps
    <3>2. k = UndefMacro(p, n)
      BY <1>6, <1>8, <2>1
    <3> QED
      BY <2>1, <3>1, <3>2
  <2>2. CASE b \in Bodies
    <3>1. \E l2 : Agree(DefineMacro(p, n, b), l2) /\ Kept(p, DefineMacro(p, n, b))
                  /\ Finds(p, DefineMacro(p, n, b), n, b)
      BY <1>4, <2>2, DefineKeeps
    <3>2. k = DefineMacro(p, n, b)
      BY <1>6, <1>8, <2>2, NoneAssumption
    <3> QED
      BY <3>1, <3>2
  <2> QED
    BY <1>7, <2>1, <2>2
<1>10. PICK l2 : Agree(k, l2) /\ Kept(p, k) /\ Finds(p, k, n, b)
  BY <1>9
<1>11. Finds(m, k, n, m.stack[i].body)
  BY <1>4, <1>5, <1>10 DEF Finds
<1> QED
  BY <1>4, <1>8, <1>10, <1>11 DEF Kept

LEMMA PopStep == ASSUME IInv, NEW n \in Names, Pop(n) PROVE IInv'
<1> DEFINE at == LastAt(pushed, n)
<1> DEFINE e == CHOOSE k \in at : TRUE
<1>1. /\ file > 0 /\ file' = file /\ t' = PopMacro(t, n) /\ opts' = opts /\ repeated' = repeated
      /\ IF at = {} THEN want' = want /\ pushed' = pushed
         ELSE want' = [want EXCEPT ![n] = pushed[e].body] /\ pushed' = Without(pushed, e)
  BY DEF Pop
<1>2. pushed \in Seq(Entry) /\ Len(pushed) \in Nat /\ want \in [Names -> Bodies \union {None}]
  BY DEF IInv
<1>3. ASSUME at # {}
      PROVE  /\ e \in at /\ e \in 1 .. Len(pushed)
             /\ want' = [want EXCEPT ![n] = pushed[e].body] /\ pushed' = Without(pushed, e)
             /\ pushed[e].body \in Bodies \union {None} /\ pushed' \in Seq(Entry)
  <2>1. e \in at
    BY <1>3
  <2>2. e \in 1 .. Len(pushed)
    BY <2>1 DEF LastAt
  <2>3. pushed[e] \in Entry
    BY <1>2, <2>2
  <2>4. want' = [want EXCEPT ![n] = pushed[e].body] /\ pushed' = Without(pushed, e)
    BY <1>1, <1>3
  <2>5. PICK i \in 1 .. Len(pushed) : i = e
    BY <2>2
  <2>6. Without(pushed, i) \in Seq(Entry)
    BY <1>2, WithoutFacts
  <2> QED
    BY <2>1, <2>2, <2>3, <2>4, <2>5, <2>6 DEF Entry
<1> HIDE DEF e
<1>4. pushed' \in Seq(Entry) /\ want' \in [Names -> Bodies \union {None}]
  <2>1. CASE at = {}
    BY <1>1, <1>2, <2>1
  <2>2. CASE at # {}
    BY <1>2, <1>3, <2>2
  <2> QED
    BY <2>1, <2>2
<1>5. file' \in Nat /\ file # 0 /\ repeated' \in BOOLEAN /\ opts' \in [Names -> Bodies \union {None}]
  BY <1>1 DEF IInv
<1>6. SUFFICES ASSUME ~repeated PROVE t' \in TableType /\ Linked(t'.heap) /\ Running'
  BY <1>1, <1>4, <1>5 DEF IInv
<1>7. Running
  BY <1>5, <1>6 DEF IInv
<1>8. PICK l : Agree(t, l)
  BY <1>7 DEF Running
<1>9. t.stack \in Seq(Entry) /\ Len(t.stack) \in Nat /\ Len(t.heap) \in Nat
  BY <1>8, AgreeTypes
<1>10. CASE LastAt(t.stack, n) = {}
  <2>1. t' = t
    BY <1>1, <1>10 DEF PopMacro
  <2>2. file = 1 => t.stack = pushed' /\ \A j \in Names : Lookup(t, j) = want'[j]
    BY <1>1, <1>7, <1>10 DEF Running
  <2>3. Len(t.heap) <= Len(t.heap)
    BY <1>9
  <2> QED
    BY <1>1, <1>5, <1>6, <1>8, <2>1, <2>2, <2>3, LineKeeps
<1>11. CASE LastAt(t.stack, n) # {}
  <2>1. PICK i : i \in LastAt(t.stack, n)
    BY <1>11
  <2>2. PICK l2, k :
          /\ k = PopMacro(t, n) /\ Agree(k, l2) /\ k.stack = Without(t.stack, i) /\ k.saved = t.saved
          /\ Len(t.heap) <= Len(k.heap) /\ \A x \in 1 .. Len(t.heap) : k.heap[x].name = t.heap[x].name
          /\ Finds(t, k, n, t.stack[i].body)
    BY <1>8, <2>1, PopKeeps
  <2>3. file = 1 => k.stack = pushed' /\ \A j \in Names : Lookup(k, j) = want'[j]
    <3>1. SUFFICES ASSUME file = 1 PROVE k.stack = pushed' /\ \A j \in Names : Lookup(k, j) = want'[j]
      OBVIOUS
    <3>2. t.stack = pushed /\ \A j \in Names : Lookup(t, j) = want[j]
      BY <1>7, <3>1 DEF Running
    <3>3. (CHOOSE x \in LastAt(t.stack, n) : TRUE) = i
      BY <1>9, <2>1, LastUnique
    <3>4. e = i
      BY <3>2, <3>3 DEF e
    <3>5. want' = [want EXCEPT ![n] = t.stack[i].body] /\ pushed' = Without(t.stack, i)
      BY <1>3, <1>11, <3>2, <3>4
    <3> QED
      BY <1>2, <2>2, <3>2, <3>5 DEF Finds
  <2>4. t' = k
    BY <1>1, <2>2
  <2> QED
    BY <1>1, <1>5, <1>6, <2>2, <2>3, <2>4, LineKeeps
<1> QED
  BY <1>10, <1>11

-----------------------------------------------------------------------------
LEMMA StutterStep == ASSUME IInv, UNCHANGED vars PROVE IInv'
<1>1. /\ t' = t /\ file' = file /\ want' = want /\ pushed' = pushed /\ opts' = opts
      /\ repeated' = repeated
  BY DEF vars
<1>2. Options' = Options /\ Running' = Running
  BY <1>1 DEF Options, Running
<1> QED
  BY <1>1, <1>2 DEF IInv

(* Every option, directive and new file keeps the invariant.               *)
LEMMA StepKeeps == ASSUME IInv, [Next]_vars PROVE IInv'
<1>1. CASE UNCHANGED vars
  BY <1>1, StutterStep
<1>2. ASSUME NEW n \in Names, NEW b \in Bodies, OptionD(n, b) PROVE IInv'
  BY <1>2, OptionDKeeps
<1>3. ASSUME NEW n \in Names, NEW b \in Bodies, Define(n, b) PROVE IInv'
  BY <1>3, DefineStep
<1>4. ASSUME NEW n \in Names, OptionU(n) PROVE IInv'
  BY <1>4, OptionUKeeps
<1>5. ASSUME NEW n \in Names, Undef(n) PROVE IInv'
  BY <1>5, UndefStep
<1>6. ASSUME NEW n \in Names, Push(n) PROVE IInv'
  BY <1>6, PushStep
<1>7. ASSUME NEW n \in Names, Pop(n) PROVE IInv'
  BY <1>7, PopStep
<1>8. CASE BeginFile
  BY <1>8, BeginFileKeeps
<1> QED
  BY <1>1, <1>2, <1>3, <1>4, <1>5, <1>6, <1>7, <1>8 DEF Next

LEMMA Invariance == Spec => []IInv
<1>1. Init => IInv
  BY InitIInv
<1>2. IInv /\ [Next]_vars => IInv'
  BY StepKeeps
<1> QED
  BY <1>1, <1>2, PTL DEF Spec

(* In the first source file find_macro() finds what C says a name is       *)
(* defined as, after any options, directives, pushes and pops, as long as  *)
(* no name is given twice: redefinition in place, removal from both the    *)
(* list and the table, and pop_macro's search down the stack, for any      *)
(* names, hash function and predefined macros.                             *)
THEOREM FirstFileFinds == Spec => []FirstFileExact
<1>1. ASSUME IInv PROVE FirstFileExact
  <2>1. SUFFICES ASSUME file = 1, ~repeated, NEW n \in Names PROVE Lookup(t, n) = want[n]
    BY DEF FirstFileExact
  <2>2. Running
    BY <1>1, <2>1 DEF IInv
  <2> QED
    BY <2>1, <2>2 DEF Running
<1>2. IInv => FirstFileExact
  BY <1>1
<1> QED
  BY <1>2, Invariance, PTL

(* In every file, the list that -dM prints and the next file starts from   *)
(* and the hash table that expansion searches hold the same nodes, each    *)
(* once, although #undef unlinks from one and shifts chains of the other   *)
(* and clear_macros() rebuilds the table from the first file's snapshot.   *)
THEOREM ListAndTableAgree == Spec => []ListAgreesWithTable
<1>1. ASSUME IInv PROVE ListAgreesWithTable
  <2>1. SUFFICES ASSUME file > 0, ~repeated, NEW b \in Buckets
                 PROVE  LET l == List(t.heap, t.macros)
                        IN /\ \A i, j \in 1 .. Len(t.htab[b]) : i # j => t.htab[b][i] # t.htab[b][j]
                           /\ {t.htab[b][i] : i \in 1 .. Len(t.htab[b])} =
                                {l[i] : i \in {k \in 1 .. Len(l) : Bucket(t.heap[l[k]].name) = b}}
    BY DEF ListAgreesWithTable
  <2>2. Running
    BY <1>1, <2>1 DEF IInv
  <2>3. PICK l : Agree(t, l)
    BY <2>2 DEF Running
  <2>4. Linked(t.heap) /\ t.macros \in 0 .. Len(t.heap) /\ Len(t.heap) \in Nat
    BY <2>3, AgreeTypes DEF Agree
  <2>5. IsList(t.heap, t.macros, List(t.heap, t.macros))
    BY <2>4, ListFacts
  <2>6. PICK k : k = List(t.heap, t.macros)
    OBVIOUS
  <2>7. k = l
    <3>1. IsList(t.heap, t.macros, l) /\ IsList(t.heap, t.macros, k)
      BY <2>3, <2>5, <2>6 DEF Agree
    <3> QED
      BY <2>4, <3>1, ListUnique
  <2>8. Once(t.htab[b]) /\ On(t.htab[b]) = {x \in On(l) : Bucket(t.heap[x].name) = b}
    BY <2>3 DEF Agree, InTable
  <2>9. {x \in On(l) : Bucket(t.heap[x].name) = b} =
          {l[i] : i \in {j \in 1 .. Len(l) : Bucket(t.heap[l[j]].name) = b}}
    BY DEF On
  <2>10. \A i, j \in 1 .. Len(t.htab[b]) : i # j => t.htab[b][i] # t.htab[b][j]
    BY <2>8 DEF Once
  <2>11. {t.htab[b][i] : i \in 1 .. Len(t.htab[b])} =
           {l[i] : i \in {j \in 1 .. Len(l) : Bucket(t.heap[l[j]].name) = b}}
    BY <2>8, <2>9 DEF On
  <2>12. l = List(t.heap, t.macros)
    BY <2>6, <2>7
  <2> QED
    BY <2>10, <2>11, <2>12
<1>2. IInv => ListAgreesWithTable
  BY <1>1
<1> QED
  BY <1>2, Invariance, PTL

=============================================================================
