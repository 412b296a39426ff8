---------------------------- MODULE LayoutProofs ----------------------------
(***************************************************************************)
(* The layout of structs, for any members, structs and pack values: no two *)
(* members share a bit, a finished struct covers and aligns its members,   *)
(* and an unpacked one has the layout of the System V ABI.                 *)
(***************************************************************************)
EXTENDS Layout, SequenceTheorems, WellFoundedInduction, TLAPS

(* Multiples.                                                              *)
Multiple(a, x) == \E q \in Int : x = a * q

LEMMA MultipleMod ==
  ASSUME NEW a \in Nat \ {0}, NEW x \in Int, Multiple(a, x) PROVE x % a = 0
<1>1. PICK q \in Int : x = a * q
  BY DEF Multiple
<1> DEFINE d == x \div a
<1> DEFINE r == x % a
<1>2. d \in Int /\ r \in 0 .. a - 1 /\ x = a * d + r
  OBVIOUS
<1> HIDE DEF d, r
<1>3. r = a * (q - d)
  BY <1>1, <1>2
<1>4. q - d <= 0
  <2>1. SUFFICES ASSUME q - d >= 1 PROVE FALSE
    BY <1>2
  <2>2. a * (q - d) >= a
    BY <1>2, <2>1
  <2> QED
    BY <1>2, <1>3, <2>2
<1>5. q - d >= 0
  <2>1. SUFFICES ASSUME q - d <= -1 PROVE FALSE
    BY <1>2
  <2>2. a * (q - d) <= -a
    BY <1>2, <2>1
  <2> QED
    BY <1>2, <1>3, <2>2
<1>6. q - d = 0
  BY <1>2, <1>4, <1>5
<1> QED
  BY <1>2, <1>3, <1>6 DEF r

LEMMA MultipleTrans ==
  ASSUME NEW a \in Int, NEW b \in Int, NEW c \in Int, Multiple(a, b), Multiple(b, c) PROVE Multiple(a, c)
<1>1. PICK q \in Int : b = a * q
  BY DEF Multiple
<1>2. PICK r \in Int : c = b * r
  BY DEF Multiple
<1>3. c = a * (q * r)
  BY <1>1, <1>2
<1>4. q * r \in Int
  OBVIOUS
<1> QED
  BY <1>3, <1>4 DEF Multiple

(* Two different multiples of a are a apart.                               *)
LEMMA MultipleGap ==
  ASSUME NEW a \in Nat \ {0}, NEW x \in Int, NEW y \in Int, Multiple(a, x), Multiple(a, y), x < y
  PROVE  x + a <= y
<1>1. PICK q \in Int : x = a * q
  BY DEF Multiple
<1>2. PICK r \in Int : y = a * r
  BY DEF Multiple
<1>3. q + 1 <= r
  <2>1. SUFFICES ASSUME r <= q PROVE FALSE
    OBVIOUS
  <2>2. a * r <= a * q
    BY <2>1
  <2> QED
    BY <1>1, <1>2, <2>2
<1>4. a * (q + 1) <= a * r
  BY <1>3
<1> QED
  BY <1>1, <1>2, <1>4

LEMMA AlignToFacts ==
  ASSUME NEW n \in Int, NEW a \in Nat \ {0}
  PROVE  AlignTo(n, a) \in Int /\ n <= AlignTo(n, a) /\ AlignTo(n, a) < n + a /\ Multiple(a, AlignTo(n, a))
<1> DEFINE q == (n + a - 1) \div a
<1>1. q \in Int /\ n + a - 1 = a * q + ((n + a - 1) % a) /\ (n + a - 1) % a \in 0 .. a - 1
  OBVIOUS
<1>2. AlignTo(n, a) = q * a
  BY DEF AlignTo
<1> HIDE DEF q
<1>3. AlignTo(n, a) = a * q
  BY <1>1, <1>2
<1> QED
  BY <1>1, <1>3 DEF Multiple

LEMMA AlignToNat ==
  ASSUME NEW n \in Nat, NEW a \in Nat \ {0}
  PROVE  AlignTo(n, a) \in Nat /\ n <= AlignTo(n, a)
BY AlignToFacts

(* The multiple of a in an interval of that length is AlignTo's.           *)
LEMMA AlignToUnique ==
  ASSUME NEW n \in Int, NEW a \in Nat \ {0}, NEW x \in Int, Multiple(a, x), n <= x, x < n + a
  PROVE  x = AlignTo(n, a)
<1> DEFINE y == AlignTo(n, a)
<1>1. y \in Int /\ n <= y /\ y < n + a /\ Multiple(a, y)
  BY AlignToFacts
<1> HIDE DEF y
<1>2. ~(x < y)
  BY <1>1, MultipleGap
<1>3. ~(y < x)
  BY <1>1, MultipleGap
<1> QED
  BY <1>1, <1>2, <1>3 DEF y

(* Rounding bytes up is rounding bits up.                                  *)
LEMMA AlignToBits ==
  ASSUME NEW b \in Nat, NEW a \in Nat \ {0}
  PROVE  8 * AlignTo(BytesOf(b), a) = AlignTo(b, 8 * a)
<1> DEFINE n == BytesOf(b)
<1> DEFINE y == AlignTo(n, a)
<1>1. n \in Nat /\ b <= 8 * n /\ 8 * n <= b + 7
  BY DEF BytesOf
<1> HIDE DEF n
<1>2. y \in Int /\ n <= y /\ y < n + a /\ Multiple(a, y)
  BY <1>1, AlignToFacts
<1> HIDE DEF y
<1>3. Multiple(8 * a, 8 * y)
  <2>1. PICK q \in Int : y = a * q
    BY <1>2 DEF Multiple
  <2>2. 8 * y = (8 * a) * q
    BY <2>1
  <2> QED
    BY <2>2 DEF Multiple
<1>4. b <= 8 * y /\ 8 * y < b + 8 * a
  BY <1>1, <1>2
<1>5. 8 * y \in Int /\ 8 * a \in Nat \ {0}
  BY <1>2
<1>6. 8 * y = AlignTo(b, 8 * a)
  BY <1>3, <1>4, <1>5, AlignToUnique
<1> QED
  BY <1>6 DEF y, n

LEMMA AlignmentsTyped == Alignments \subseteq Nat \ {0} /\ 1 \in Alignments
<1>1. \A n \in PackValues : n \in Nat \ {0}
  BY PackAssumption
<1>2. \A n \in Nat \ {0} : FirstDigit(n) \in Nat \ {0}
  BY DEF FirstDigit
<1>3. {FirstDigit(n) : n \in PackValues} \subseteq Nat \ {0}
  BY <1>1, <1>2
<1>4. {m.align : m \in MemberChoices} \subseteq Nat \ {0}
  BY MembersAssumption
<1>5. {m.size : m \in {k \in MemberChoices : k.sort \in {"bits", "pad"}}} \subseteq {1, 2, 4, 8}
  BY MembersAssumption
<1>6. \A s \in StructChoices : s.align \in Nat
  BY StructsAssumption
<1>7. ({s.align : s \in StructChoices} \ {0}) \subseteq Nat \ {0}
  BY <1>6
<1>8. {1, 2, 4, 8} \subseteq Nat \ {0} /\ {1} \subseteq Nat \ {0}
  OBVIOUS
<1> QED
  BY <1>3, <1>4, <1>5, <1>7, <1>8, Zenon DEF Alignments

LEMMA Chain ==
  ASSUME NEW a \in Alignments, NEW b \in Alignments, a <= b
  PROVE  a \in Nat \ {0} /\ b \in Nat \ {0} /\ Multiple(a, b)
<1>1. Alignments \subseteq Nat \ {0}
  BY AlignmentsTyped
<1>2. a \in Nat \ {0} /\ b \in Nat \ {0} /\ b % a = 0
  BY <1>1, PowersAssumption
<1>3. b = a * (b \div a) + (b % a) /\ b \div a \in Int
  BY <1>2
<1>4. b = a * (b \div a)
  BY <1>2, <1>3
<1> QED
  BY <1>2, <1>3, <1>4 DEF Multiple

-----------------------------------------------------------------------------
(* The invariant.                                                          *)
Digits == {FirstDigit(n) : n \in PackValues}
MemberRec == [mem : MemberChoices, offset : Nat, bit : Nat, load : Nat]
LayType == [offset : Nat, size : Nat, align : Alignments, bit : Nat, base : Nat, kind : Nat, width : Nat]

PackTypes ==
  /\ pack \in Digits \union {0} /\ parserPack \in Digits \union {0}
  /\ packStack \in Seq(Digits \union {0}) /\ wantStack \in Seq(PackValues \union {0})
  /\ want \in PackValues \union {0}
  /\ Len(packStack) = Len(wantStack) /\ Len(packStack) <= MaxPackDepth

Types ==
  /\ struct \in StructChoices \union {None}
  /\ lay \in LayType /\ members \in Seq(MemberRec) /\ decls \in Seq(MemberChoices)
  /\ struct = None => members = <<>> /\ decls = <<>> /\ done = NotDone /\ lay = Fresh

(* The parser's pack value is the preprocessor's, or 0 after a pop.        *)
PackKnown == parserPack = pack \/ (last \in {"pop", "reset"} /\ parserPack = 0)

(* A member: its bits are in its load; an ordinary one is aligned.         *)
Sound(p, l) ==
  /\ p.mem.sort # "pad" /\ p.bit + p.mem.width <= 8 * p.load
  /\ p.mem.width = 0 => Multiple(Capped(p.mem.align), p.offset)
  /\ p.mem.width = 0 /\ ~(struct.union /\ p.mem.sort = "anon") => Capped(p.mem.align) <= Capped(l.align)

(* A member lies in what has been laid out, and so will its load: it does, *)
(* or it is the unit at l.offset, of which the rest will be padding.       *)
Inside(p, l) ==
  IF struct.union
    THEN p.offset = 0 /\ p.bit = 0 /\ p.load = p.mem.size /\ p.load <= l.size
    ELSE /\ EndBit(p) <= 8 * l.offset
         /\ ~Packed => \/ p.offset + p.load <= l.offset
                       \/ /\ p.load \in Alignments /\ p.load <= l.align
                          /\ Multiple(p.load, p.offset) /\ p.offset < l.offset

(* GCC's layout: the next bit is lay.bit.                                  *)
Gcc == ~struct.union /\ struct.mode = "gcc"
GccCursor ==
  Gcc => /\ lay.bit <= 8 * lay.offset
         /\ ~PutBack(Len(members)) => \A i \in 1 .. Len(members) : EndBit(members[i]) <= lay.bit

(* Microsoft's: a run of bit-fields of kind bytes starts at base, and the  *)
(* next bit in it is lay.bit.                                              *)
Ms == ~struct.union /\ struct.mode = "ms"
MsCursor ==
  Ms /\ ~LostRun =>
    /\ lay.kind # 0 => lay.base + lay.kind <= lay.offset
    /\ lay.kind # 0 /\ lay.bit < 8 * lay.kind =>
         \A i \in 1 .. Len(members) : EndBit(members[i]) <= 8 * lay.base + lay.bit
MsLast ==
  Ms /\ decls # <<>> /\ decls[Len(decls)].width > 0 =>
    lay.kind = decls[Len(decls)].size /\ lay.width = decls[Len(decls)].width

Apart ==
  ~struct.union /\ ~LostRun =>
    \A i, j \in 1 .. Len(members) : i < j /\ ~PutBack(j) => EndBit(members[i]) <= FirstBit(members[j])

Finished ==
  done # NotDone =>
    LET align == Most(Capped(lay.align), struct.align) IN
    done = [size |-> AlignTo(IF struct.union THEN lay.size ELSE lay.offset, align), align |-> align]

LInv ==
  /\ Types
  /\ \A i \in 1 .. Len(members) : Sound(members[i], lay)
  /\ ~LostRun => \A i \in 1 .. Len(members) : Inside(members[i], lay)
  /\ GccCursor /\ MsCursor /\ MsLast /\ Apart

IInv == PackTypes /\ PackKnown /\ PackAgrees /\ LInv /\ Finished

-----------------------------------------------------------------------------
(* #pragma pack: the values and the parser's view of them.                 *)
LEMMA PackInit == Init => PackTypes /\ PackKnown /\ PackAgrees
BY PackAssumption DEF Init, PackTypes, PackKnown, PackAgrees

LEMMA PopFacts ==
  ASSUME NEW T, NEW s \in Seq(T), s # <<>>
  PROVE  Last(s) \in T /\ Front(s) \in Seq(T) /\ Len(Front(s)) = Len(s) - 1
<1>1. Len(s) \in Nat /\ Len(s) > 0
  OBVIOUS
<1>2. Last(s) \in T
  BY <1>1 DEF Last
<1>3. PICK n \in Nat : n = Len(s)
  BY <1>1
<1>4. n - 1 \in Int /\ 1 \in Int /\ \A i \in 1 .. n - 1 : s[i] \in T
  BY <1>1, <1>3
<1>5. Front(s) = SubSeq(s, 1, n - 1)
  BY <1>3 DEF Front
<1>6. Front(s) \in Seq(T) /\ Len(Front(s)) = n - 1
  BY <1>1, <1>3, <1>4, <1>5, SubSeqProperties
<1> QED
  BY <1>2, <1>3, <1>6

LEMMA PackStep ==
  ASSUME PackTypes, PackKnown, PackAgrees, [Next]_vars PROVE (PackTypes /\ PackKnown /\ PackAgrees)'
<1> USE DEF PackTypes, PackKnown, PackAgrees
<1>1. 0 \notin Digits
  BY PackAssumption DEF Digits, FirstDigit
<1>2. ASSUME NEW n \in PackValues \union {0}, PackPush(n) PROVE (PackTypes /\ PackKnown /\ PackAgrees)'
  <2>1. pack' \in Digits \union {0} /\ want' \in PackValues \union {0}
    BY <1>2 DEF PackPush, Digits
  <2>2. packStack' \in Seq(Digits \union {0}) /\ Len(packStack') = Len(packStack) + 1
    BY <1>2 DEF PackPush
  <2>3. wantStack' \in Seq(PackValues \union {0}) /\ Len(wantStack') = Len(wantStack) + 1
    BY <1>2 DEF PackPush
  <2>4. Len(packStack') <= MaxPackDepth
    BY <1>2, <2>2, PackAssumption DEF PackPush
  <2> QED
    BY <1>2, <2>1, <2>2, <2>3, <2>4 DEF PackPush
<1>3. ASSUME PackPop PROVE (PackTypes /\ PackKnown /\ PackAgrees)'
  <2>1. wantStack # <<>> /\ packStack # <<>>
    BY <1>3 DEF PackPop
  <2>2. pack' \in Digits \union {0} /\ packStack' \in Seq(Digits \union {0}) /\ Len(packStack') = Len(packStack) - 1
    BY <1>3, <2>1, PopFacts DEF PackPop
  <2>3. want' \in PackValues \union {0} /\ wantStack' \in Seq(PackValues \union {0}) /\ Len(wantStack') = Len(wantStack) - 1
    BY <1>3, <2>1, PopFacts DEF PackPop
  <2>4. Len(packStack') <= MaxPackDepth
    BY <2>2, PackAssumption
  <2> QED
    BY <1>3, <2>2, <2>3, <2>4 DEF PackPop
<1>4. ASSUME NEW n \in PackValues, PackSet(n) PROVE (PackTypes /\ PackKnown /\ PackAgrees)'
  BY <1>4 DEF PackSet, Digits
<1>5. ASSUME PackReset PROVE (PackTypes /\ PackKnown /\ PackAgrees)'
  BY <1>5 DEF PackReset
<1>6. ASSUME UNCHANGED pragmas PROVE (PackTypes /\ PackKnown /\ PackAgrees)'
  BY <1>6 DEF pragmas
<1>7. UNCHANGED pragmas \/ PackPop \/ PackReset \/ (\E n \in PackValues \union {0} : PackPush(n))
        \/ (\E n \in PackValues : PackSet(n))
  BY DEF Next, vars, BeginStruct, AddMember, EndStruct, Parsed
<1> QED
  BY <1>2, <1>3, <1>4, <1>5, <1>6, <1>7

(* The parser packs as the directives say, whatever sequence of pushes,    *)
(* pops and sets came before, as long as the preprocessor itself holds the *)
(* value asked for, but after a pop that should restore one.               *)
THEOREM ParserPacksAsAsked == Spec => []PackAgrees
BY PackInit, PackStep, PTL DEF Spec
-----------------------------------------------------------------------------
(* The pack value caps alignments.                                         *)
LEMMA CappedFacts ==
  ASSUME PackTypes
  PROVE  /\ \A a \in Alignments : Capped(a) \in Alignments /\ Capped(a) <= a
         /\ \A a, b \in Alignments : a <= b => Capped(a) <= Capped(b)
         /\ \A a \in Alignments : Capped(Capped(a)) = Capped(a)
         /\ ~Packed => \A a : Capped(a) = a
         /\ Alignments \subseteq Nat \ {0} /\ 1 \in Alignments
<1>1. Alignments \subseteq Nat \ {0} /\ 1 \in Alignments
  BY AlignmentsTyped
<1>2. StructPack \in Alignments \union {0}
  BY DEF PackTypes, StructPack, Alignments, Digits
<1> HIDE DEF Alignments
<1>3. ~Packed => \A a : Capped(a) = a
  BY DEF Capped
<1>4. Packed => StructPack \in Alignments /\ \A a : Capped(a) = Least(a, StructPack)
  BY <1>1, <1>2 DEF Capped, Packed
<1>5. \A a, c \in Alignments : Least(a, c) \in Alignments /\ Least(a, c) <= a
  BY <1>1 DEF Least
<1>6. \A a, b, c \in Alignments : a <= b => Least(a, c) <= Least(b, c)
  BY <1>1 DEF Least
<1>7. \A a \in Alignments : a <= a
  BY <1>1
<1>8. \A a \in Alignments : Capped(a) \in Alignments /\ Capped(a) <= a
  BY <1>3, <1>4, <1>5, <1>7
<1>9. \A a, b \in Alignments : a <= b => Capped(a) <= Capped(b)
  <2>1. CASE Packed
    BY <2>1, <1>4, <1>6
  <2>2. CASE ~Packed
    BY <2>2, <1>3
  <2> QED
    BY <2>1, <2>2
<1>10. \A a, c \in Alignments : Least(Least(a, c), c) = Least(a, c)
  BY <1>1 DEF Least
<1>11. \A a \in Alignments : Capped(Capped(a)) = Capped(a)
  <2>1. CASE Packed
    BY <2>1, <1>4, <1>10
  <2>2. CASE ~Packed
    BY <2>2, <1>3
  <2> QED
    BY <2>1, <2>2
<1> QED
  BY <1>1, <1>3, <1>8, <1>9, <1>11

LEMMA SameStruct ==
  ASSUME UNCHANGED <<struct, parserPack>>
  PROVE  /\ Packed' = Packed /\ StructPack' = StructPack /\ Gcc' = Gcc /\ Ms' = Ms
         /\ \A a : Capped(a)' = Capped(a)
         /\ \A p, l : (Sound(p, l)' <=> Sound(p, l)) /\ (Inside(p, l)' <=> Inside(p, l))
<1>1. StructPack' = StructPack
  BY DEF StructPack
<1>2. Packed' = Packed /\ Gcc' = Gcc /\ Ms' = Ms
  BY <1>1 DEF Packed, Gcc, Ms
<1>3. \A a : Capped(a)' = Capped(a)
  BY <1>1, <1>2 DEF Capped
<1>4. ASSUME NEW p, NEW l PROVE Sound(p, l)' <=> Sound(p, l)
  <2>1. Capped(p.mem.align)' = Capped(p.mem.align) /\ Capped(l.align)' = Capped(l.align)
    BY <1>3
  <2> QED
    BY <2>1 DEF Sound
<1>5. \A p, l : Inside(p, l)' <=> Inside(p, l)
  BY <1>2 DEF Inside
<1> QED
  BY <1>1, <1>2, <1>3, <1>4, <1>5
LEMMA MemberFacts ==
  ASSUME NEW m \in MemberChoices
  PROVE  /\ m.size \in Nat /\ m.width \in Nat /\ m.align \in Alignments
         /\ m.sort \in {"field", "anon", "bits", "pad"}
         /\ m.sort \in {"field", "anon"} => m.width = 0
         /\ m.sort \in {"bits", "pad"} =>
              m.size \in {1, 2, 4, 8} /\ m.size \in Alignments /\ m.width <= 8 * m.size
         /\ m.sort = "bits" => m.width > 0
<1>1. m.align \in Alignments /\ (m.sort \in {"bits", "pad"} => m.size \in Alignments)
  BY DEF Alignments
<1>2. m.sort \in {"bits", "pad"} => m.size \in {1, 2, 4, 8} /\ m.width \in Nat /\ m.width <= 8 * m.size
  BY MembersAssumption
<1>3. m.sort \in {"field", "anon"} => m.width = 0
  BY MembersAssumption
<1>4. m.sort \in {"field", "anon", "bits", "pad"} /\ m.size \in Nat /\ (m.sort = "bits" => m.width > 0)
  BY MembersAssumption
<1> QED
  BY <1>1, <1>2, <1>3, <1>4

LEMMA BitsFacts ==
  ASSUME NEW p \in MemberRec
  PROVE  /\ FirstBit(p) \in Nat /\ EndBit(p) \in Nat /\ FirstBit(p) <= EndBit(p)
         /\ p.mem \in MemberChoices /\ p.offset \in Nat /\ p.bit \in Nat /\ p.load \in Nat
<1>1. p.mem \in MemberChoices /\ p.offset \in Nat /\ p.bit \in Nat /\ p.load \in Nat
  BY DEF MemberRec
<1>2. p.mem.size \in Nat /\ p.mem.width \in Nat
  BY <1>1, MemberFacts
<1> QED
  BY <1>1, <1>2 DEF FirstBit, EndBit

(* A member keeps what is said of it while the layout grows.               *)
LEMMA Grows ==
  ASSUME PackTypes, NEW p \in MemberRec, NEW l \in LayType, NEW k \in LayType,
         l.align <= k.align, l.offset <= k.offset, l.size <= k.size
  PROVE  (Sound(p, l) => Sound(p, k)) /\ (Inside(p, l) => Inside(p, k))
<1>1. l.align \in Alignments /\ k.align \in Alignments /\ l.offset \in Nat /\ k.offset \in Nat
        /\ l.size \in Nat /\ k.size \in Nat
  BY DEF LayType
<1>2. Capped(l.align) <= Capped(k.align) /\ Capped(l.align) \in Alignments /\ Capped(k.align) \in Alignments
  BY <1>1, CappedFacts
<1>3. Alignments \subseteq Nat \ {0}
  BY CappedFacts
<1>4. p.mem \in MemberChoices /\ p.offset \in Nat /\ p.load \in Nat /\ EndBit(p) \in Nat
  BY BitsFacts
<1>5. Capped(p.mem.align) \in Alignments
  BY <1>4, MemberFacts, CappedFacts
<1>6. Sound(p, l) => Sound(p, k)
  <2>1. Capped(p.mem.align) \in Nat /\ Capped(l.align) \in Nat /\ Capped(k.align) \in Nat
    BY <1>2, <1>3, <1>5
  <2>2. Capped(p.mem.align) <= Capped(l.align) => Capped(p.mem.align) <= Capped(k.align)
    BY <1>2, <2>1
  <2> QED
    BY <2>2 DEF Sound
<1>7. Inside(p, l) => Inside(p, k)
  <2>1. p.load <= l.size => p.load <= k.size
    BY <1>1, <1>4
  <2>2. EndBit(p) <= 8 * l.offset => EndBit(p) <= 8 * k.offset
    BY <1>1, <1>4
  <2>3. /\ p.offset + p.load <= l.offset => p.offset + p.load <= k.offset
        /\ p.offset < l.offset => p.offset < k.offset
    BY <1>1, <1>4
  <2>4. l.align \in Nat /\ k.align \in Nat
    BY <1>1, <1>3
  <2>5. p.load <= l.align => p.load <= k.align
    BY <1>4, <2>4
  <2> QED
    BY <2>1, <2>2, <2>3, <2>5 DEF Inside
<1> QED
  BY <1>6, <1>7

LEMMA Appended ==
  ASSUME NEW T, NEW s \in Seq(T), NEW x \in T, NEW n \in Nat, n = Len(s)
  PROVE  /\ Append(s, x) \in Seq(T) /\ Len(Append(s, x)) = n + 1 /\ Append(s, x)[n + 1] = x
         /\ \A i \in 1 .. n : Append(s, x)[i] = s[i]
OBVIOUS

LEMMA LostGrows ==
  ASSUME decls \in Seq(MemberChoices), NEW m \in MemberChoices, decls' = Append(decls, m), struct' = struct, ~LostRun'
  PROVE  /\ ~LostRun
         /\ Ms /\ m.sort = "pad" /\ m.width = 0 =>
              decls # <<>> /\ decls[Len(decls)].width > 0 /\ decls[Len(decls)].size = m.size
<1>1. PICK n \in Nat : n = Len(decls)
  OBVIOUS
<1>2. Len(decls') = n + 1 /\ decls'[n + 1] = m /\ \A i \in 1 .. n : decls'[i] = decls[i]
  BY <1>1, Appended
<1>3. DOMAIN decls = 1 .. n /\ DOMAIN decls' = 1 .. n + 1
  BY <1>1, <1>2
<1>4. \A i \in 1 .. n : i \in 1 .. n + 1 /\ (i > 1 => i - 1 \in 1 .. n)
  OBVIOUS
<1>5. struct.mode = "ms" =>
        \A i \in 1 .. n + 1 : decls'[i].sort = "pad" /\ decls'[i].width = 0 =>
          i > 1 /\ decls'[i - 1].width > 0 /\ decls'[i - 1].size = decls'[i].size
  BY <1>3 DEF LostRun
<1>6. ~LostRun
  BY <1>2, <1>3, <1>4, <1>5 DEF LostRun
<1>7. ASSUME Ms, m.sort = "pad", m.width = 0
      PROVE  decls # <<>> /\ decls[Len(decls)].width > 0 /\ decls[Len(decls)].size = m.size
  <2>1. n + 1 \in 1 .. n + 1 /\ n + 1 - 1 = n
    OBVIOUS
  <2>2. n + 1 > 1 /\ decls'[n].width > 0 /\ decls'[n].size = m.size
    BY <1>2, <1>5, <1>7, <2>1 DEF Ms
  <2>3. n \in 1 .. n
    BY <2>2
  <2> QED
    BY <1>1, <1>2, <2>2, <2>3
<1> QED
  BY <1>6, <1>7
-----------------------------------------------------------------------------
(* What each way of adding a member must establish: of the locals, and of  *)
(* the record it appends.                                                  *)
Odd(p) == p.mem.sort = "bits" /\ p.mem.align > p.mem.size
Longer(l) == l \in LayType /\ lay.align <= l.align /\ lay.offset <= l.offset /\ lay.size <= l.size

(* Bits from b on are free in Microsoft's layout: behind everything, or in *)
(* the unit of the current run.                                            *)
Free(b) == 8 * lay.offset <= b \/ (lay.kind # 0 /\ lay.bit < 8 * lay.kind /\ 8 * lay.base + lay.bit <= b)

MsNext(m, l) ==
  /\ l.kind # 0 => l.base + l.kind <= l.offset
  /\ l.kind # 0 /\ l.bit < 8 * l.kind => Free(8 * l.base + l.bit)
MsKept(m, l) == m.width > 0 => l.kind = m.size /\ l.width = m.width

LayPad(m, l) ==
  /\ Longer(l)
  /\ Gcc => l.bit <= 8 * l.offset /\ lay.bit <= l.bit
  /\ Ms => MsKept(m, l)

LayMember(r, l) ==
  /\ Longer(l) /\ r \in MemberRec /\ Sound(r, l)
  /\ Gcc => l.bit <= 8 * l.offset /\ Inside(r, l) /\ (~(~Packed /\ Odd(r)) => lay.bit <= FirstBit(r) /\ EndBit(r) <= l.bit)
  /\ struct.union => Inside(r, l)
  /\ Ms => MsKept(r.mem, l)

MsMember(r, l) ==
  /\ Inside(r, l) /\ Free(FirstBit(r))
  /\ l.kind # 0 => l.base + l.kind <= l.offset
  /\ l.kind # 0 /\ l.bit < 8 * l.kind => EndBit(r) <= 8 * l.base + l.bit

LEMMA FreeFacts ==
  ASSUME LInv, Ms, ~LostRun, NEW b \in Nat, Free(b)
  PROVE  \A i \in 1 .. Len(members) : EndBit(members[i]) <= b
<1> SUFFICES ASSUME NEW i \in 1 .. Len(members) PROVE EndBit(members[i]) <= b
  OBVIOUS
<1>1. members[i] \in MemberRec /\ lay \in LayType
  BY DEF LInv, Types
<1>2. EndBit(members[i]) \in Nat /\ lay.offset \in Nat /\ lay.base \in Nat /\ lay.bit \in Nat
  BY <1>1, BitsFacts DEF LayType
<1>3. EndBit(members[i]) <= 8 * lay.offset
  BY DEF LInv, Inside, Ms
<1>4. CASE 8 * lay.offset <= b
  BY <1>2, <1>3, <1>4
<1>5. CASE lay.kind # 0 /\ lay.bit < 8 * lay.kind /\ 8 * lay.base + lay.bit <= b
  <2>1. EndBit(members[i]) <= 8 * lay.base + lay.bit
    BY <1>5 DEF LInv, MsCursor
  <2> QED
    BY <1>2, <1>5, <2>1
<1> QED
  BY <1>4, <1>5 DEF Free

LEMMA MsLastKept ==
  ASSUME LInv, struct' = struct, NEW m \in MemberChoices, decls' = Append(decls, m), Ms => MsKept(m, lay')
  PROVE  MsLast'
<1>1. PICK n \in Nat : n = Len(decls)
  BY DEF LInv, Types
<1>2. Len(decls') = n + 1 /\ decls'[n + 1] = m
  BY <1>1, Appended DEF LInv, Types
<1> QED
  BY <1>2 DEF MsLast, MsKept, Ms

LEMMA AddNone ==
  ASSUME LInv, PackTypes, struct # None, NEW m \in MemberChoices, decls' = Append(decls, m), members' = members,
         UNCHANGED <<parserPack, struct>>, LayPad(m, lay'), Ms /\ ~LostRun' => MsNext(m, lay')
  PROVE  LInv'
<1>1. members \in Seq(MemberRec) /\ lay \in LayType /\ lay' \in LayType /\ decls \in Seq(MemberChoices)
  BY DEF LInv, Types, LayPad, Longer
<1>2. Types'
  <2>1. decls' \in Seq(MemberChoices)
    BY <1>1
  <2> QED
    BY <1>1, <2>1 DEF LInv, Types
<1>3. ~LostRun' => ~LostRun
  BY <1>1, LostGrows
<1>4. ASSUME NEW i \in 1 .. Len(members)
      PROVE  Sound(members[i], lay') /\ (Inside(members[i], lay) => Inside(members[i], lay'))
  <2>1. members[i] \in MemberRec
    BY <1>1
  <2>2. Sound(members[i], lay)
    BY DEF LInv
  <2>3. lay.align <= lay'.align /\ lay.offset <= lay'.offset /\ lay.size <= lay'.size
    BY DEF LayPad, Longer
  <2> QED
    BY <1>1, <2>1, <2>2, <2>3, Grows
<1>5. (\A i \in 1 .. Len(members) : Sound(members[i], lay))'
  BY <1>4, SameStruct
<1>6. (~LostRun => \A i \in 1 .. Len(members) : Inside(members[i], lay))'
  BY <1>3, <1>4, SameStruct DEF LInv
<1>7. \A n : PutBack(n)' <=> PutBack(n)
  BY SameStruct DEF PutBack
<1>8. GccCursor'
  <2>1. SUFFICES ASSUME Gcc, ~PutBack(Len(members)), NEW i \in 1 .. Len(members) PROVE EndBit(members[i]) <= lay'.bit
    BY <1>7, SameStruct DEF GccCursor, LayPad
  <2>2. EndBit(members[i]) <= lay.bit
    BY <2>1 DEF LInv, GccCursor
  <2>3. members[i] \in MemberRec /\ lay.bit \in Nat /\ lay'.bit \in Nat
    BY <1>1, SMTT(20) DEF LayType
  <2>4. lay.bit <= lay'.bit
    BY <2>1 DEF LayPad
  <2>5. EndBit(members[i]) \in Nat
    BY <2>3, BitsFacts
  <2> QED
    BY <2>2, <2>3, <2>4, <2>5
<1>9. MsCursor'
  <2>1. SUFFICES ASSUME Ms, ~LostRun', lay'.kind # 0, lay'.bit < 8 * lay'.kind, NEW i \in 1 .. Len(members)
                 PROVE EndBit(members[i]) <= 8 * lay'.base + lay'.bit
    BY SameStruct DEF MsCursor, MsNext
  <2>2. lay'.base \in Nat /\ lay'.bit \in Nat
    BY <1>1 DEF LayType
  <2>3. PICK b \in Nat : b = 8 * lay'.base + lay'.bit
    BY <2>2
  <2>4. Free(b)
    BY <2>1, <2>3 DEF MsNext
  <2>5. EndBit(members[i]) <= b
    BY <1>3, <2>1, <2>4, FreeFacts
  <2> QED
    BY <2>3, <2>5
<1>10. MsLast'
  BY MsLastKept DEF LayPad
<1>11. Apart'
  BY <1>3, <1>7 DEF LInv, Apart
<1> QED
  BY <1>2, <1>5, <1>6, <1>8, <1>9, <1>10, <1>11 DEF LInv
LEMMA PutBackGrows ==
  ASSUME members \in Seq(MemberRec), NEW r \in MemberRec, members' = Append(members, r),
         UNCHANGED <<parserPack, struct>>, NEW n \in Nat, n = Len(members)
  PROVE  /\ \A j \in 1 .. n : PutBack(j)' <=> PutBack(j)
         /\ Gcc /\ ~PutBack(n + 1)' => ~PutBack(n) /\ ~(~Packed /\ Odd(r))
<1>1. Packed' = Packed
  BY SameStruct
<1>2. members'[n + 1] = r /\ \A i \in 1 .. n : members'[i] = members[i]
  BY Appended
<1>3. \A j \in 1 .. n : \A i \in 1 .. j : i \in 1 .. n
  OBVIOUS
<1>4. \A j \in 1 .. n : PutBack(j)' <=> PutBack(j)
  BY <1>1, <1>2, <1>3 DEF PutBack
<1>5. n + 1 \in 1 .. n + 1 /\ \A i \in 1 .. n : i \in 1 .. n + 1
  OBVIOUS
<1>6. ASSUME Gcc, ~PutBack(n + 1)' PROVE ~PutBack(n) /\ ~(~Packed /\ Odd(r))
  BY <1>1, <1>2, <1>5, <1>6 DEF PutBack, Gcc, Odd
<1> QED
  BY <1>4, <1>6

LEMMA AddOne ==
  ASSUME LInv, PackTypes, struct \in StructChoices, NEW r \in MemberRec, decls' = Append(decls, r.mem),
         members' = Append(members, r), UNCHANGED <<parserPack, struct>>,
         struct # None, LayMember(r, lay'), Ms /\ ~LostRun' => MsMember(r, lay')
  PROVE  LInv'
<1>1. members \in Seq(MemberRec) /\ lay \in LayType /\ lay' \in LayType /\ decls \in Seq(MemberChoices)
        /\ r.mem \in MemberChoices
  BY BitsFacts DEF LInv, Types, LayMember, Longer
<1>2. PICK n \in Nat : n = Len(members)
  BY <1>1
<1>3. members' \in Seq(MemberRec) /\ Len(members') = n + 1 /\ members'[n + 1] = r
        /\ \A i \in 1 .. n : members'[i] = members[i]
  BY <1>1, <1>2, Appended
<1>4. Types'
  <2>1. decls' \in Seq(MemberChoices)
    BY <1>1
  <2> QED
    BY <1>1, <1>3, <2>1 DEF LInv, Types
<1>5. ~LostRun' => ~LostRun
  BY <1>1, LostGrows
<1>6. \A i \in 1 .. n + 1 : i \in 1 .. n \/ i = n + 1
  OBVIOUS
<1>7. ASSUME NEW i \in 1 .. n
      PROVE  Sound(members[i], lay') /\ (Inside(members[i], lay) => Inside(members[i], lay'))
  <2>1. members[i] \in MemberRec
    BY <1>1, <1>2
  <2>2. Sound(members[i], lay)
    BY <1>2 DEF LInv
  <2>3. lay.align <= lay'.align /\ lay.offset <= lay'.offset /\ lay.size <= lay'.size
    BY DEF LayMember, Longer
  <2> QED
    BY <1>1, <2>1, <2>2, <2>3, Grows
<1>8. (\A i \in 1 .. Len(members) : Sound(members[i], lay))'
  BY <1>3, <1>6, <1>7, SameStruct DEF LayMember
<1>9. Gcc \/ Ms \/ struct.union
  BY StructsAssumption DEF Gcc, Ms
<1>10. ~LostRun' => Inside(r, lay')
  BY <1>9 DEF LayMember, MsMember
<1>11. (~LostRun => \A i \in 1 .. Len(members) : Inside(members[i], lay))'
  BY <1>2, <1>3, <1>5, <1>6, <1>7, <1>10, SameStruct DEF LInv
<1>12. FirstBit(r) \in Nat /\ EndBit(r) \in Nat /\ FirstBit(r) <= EndBit(r)
  BY BitsFacts
<1>13. \A i \in 1 .. n : EndBit(members[i]) \in Nat
  BY <1>1, <1>2, BitsFacts
<1>14. lay.bit \in Nat /\ lay'.bit \in Nat /\ lay'.base \in Nat
  BY <1>1 DEF LayType
<1>15. ASSUME Gcc, ~PutBack(n + 1)' PROVE \A i \in 1 .. n : EndBit(members[i]) <= FirstBit(r)
  <2>1. ~PutBack(n) /\ ~(~Packed /\ Odd(r))
    BY <1>1, <1>2, <1>15, PutBackGrows
  <2>2. \A i \in 1 .. n : EndBit(members[i]) <= lay.bit
    BY <1>2, <1>15, <2>1 DEF LInv, GccCursor
  <2>3. lay.bit <= FirstBit(r)
    BY <1>15, <2>1 DEF LayMember
  <2> QED
    BY <1>12, <1>13, <1>14, <2>2, <2>3
<1>16. ASSUME Ms, ~LostRun' PROVE \A i \in 1 .. n : EndBit(members[i]) <= FirstBit(r)
  BY <1>2, <1>5, <1>12, <1>16, FreeFacts DEF MsMember
<1>17. GccCursor'
  <2>1. Gcc => lay'.bit <= 8 * lay'.offset
    BY DEF LayMember
  <2>2. ASSUME Gcc, ~PutBack(n + 1)' PROVE \A i \in 1 .. n + 1 : EndBit(members'[i]) <= lay'.bit
    <3>1. EndBit(r) <= lay'.bit
      BY <1>1, <1>2, <2>2, PutBackGrows DEF LayMember
    <3>2. \A i \in 1 .. n : EndBit(members[i]) <= lay'.bit
      BY <1>12, <1>13, <1>14, <1>15, <2>2, <3>1
    <3> QED
      BY <1>3, <1>6, <3>1, <3>2
  <2> QED
    BY <1>3, <2>1, <2>2, SameStruct DEF GccCursor, EndBit, FirstBit
<1>18. MsCursor'
  <2>1. Ms /\ ~LostRun' => (lay'.kind # 0 => lay'.base + lay'.kind <= lay'.offset)
    BY DEF MsMember
  <2>2. ASSUME Ms, ~LostRun', lay'.kind # 0, lay'.bit < 8 * lay'.kind
        PROVE  \A i \in 1 .. n + 1 : EndBit(members'[i]) <= 8 * lay'.base + lay'.bit
    <3>1. EndBit(r) <= 8 * lay'.base + lay'.bit
      BY <2>2 DEF MsMember
    <3>2. \A i \in 1 .. n : EndBit(members[i]) <= 8 * lay'.base + lay'.bit
      BY <1>12, <1>13, <1>14, <1>16, <2>2, <3>1, SMTT(20)
    <3> QED
      BY <1>3, <1>6, <3>1, <3>2
  <2> QED
    BY <1>3, <2>1, <2>2, SameStruct DEF MsCursor, EndBit, FirstBit
<1>19. MsLast'
  BY <1>1, MsLastKept DEF LayMember
<1>20. Apart'
  <2>1. SUFFICES ASSUME ~struct.union, ~LostRun', NEW i \in 1 .. n + 1, NEW j \in 1 .. n + 1, i < j, ~PutBack(j)'
                 PROVE  EndBit(members'[i]) <= FirstBit(members'[j])
    BY <1>3 DEF Apart, EndBit, FirstBit
  <2>2. i \in 1 .. n
    BY <2>1
  <2>3. CASE j = n + 1
    BY <1>3, <1>9, <1>15, <1>16, <2>1, <2>2, <2>3
  <2>4. CASE j \in 1 .. n
    <3>1. ~PutBack(j)
      BY <1>1, <1>2, <2>1, <2>4, PutBackGrows
    <3> QED
      BY <1>2, <1>3, <1>5, <2>1, <2>2, <2>4, <3>1 DEF LInv, Apart
  <2> QED
    BY <1>6, <2>3, <2>4
<1> QED
  BY <1>4, <1>8, <1>11, <1>17, <1>18, <1>19, <1>20 DEF LInv
-----------------------------------------------------------------------------
(* The units of a bit-field's type.                                        *)
LEMMA UnitFacts ==
  ASSUME NEW b \in Nat, NEW s \in {1, 2, 4, 8}
  PROVE  /\ b \div (8 * s) \in Nat /\ 8 * ((b \div (8 * s)) * s) <= b /\ b < 8 * ((b \div (8 * s)) * s) + 8 * s
         /\ b % (8 * s) = b - 8 * ((b \div (8 * s)) * s)
         /\ (b \div (8 * s)) * s \in Nat /\ Multiple(s, (b \div (8 * s)) * s) /\ Multiple(s, (b \div (8 * s)) * s + s)
<1> DEFINE q == b \div (8 * s)
<1>1. q \in Nat /\ 8 * (q * s) <= b /\ b < 8 * (q * s) + 8 * s /\ b % (8 * s) = b - 8 * (q * s)
  <2>1. CASE s = 1
    BY <2>1
  <2>2. CASE s = 2
    BY <2>2
  <2>3. CASE s = 4
    BY <2>3
  <2>4. CASE s = 8
    BY <2>4
  <2> QED
    BY <2>1, <2>2, <2>3, <2>4
<1> HIDE DEF q
<1>2. q * s \in Nat /\ q * s = s * q /\ q * s + s = s * (q + 1) /\ q \in Int /\ q + 1 \in Int
  BY <1>1
<1>3. Multiple(s, q * s) /\ Multiple(s, q * s + s)
  BY <1>2 DEF Multiple
<1> QED
  BY <1>1, <1>2, <1>3 DEF q

LEMMA BytesFacts ==
  ASSUME NEW b \in Nat
  PROVE  BytesOf(b) \in Nat /\ b <= 8 * BytesOf(b) /\ 8 * BytesOf(b) <= b + 7
BY DEF BytesOf

LEMMA MostFacts ==
  /\ \A a, b \in Nat : Most(a, b) \in Nat /\ a <= Most(a, b) /\ b <= Most(a, b)
  /\ \A a, b \in Alignments : Most(a, b) \in Alignments /\ a <= Most(a, b) /\ b <= Most(a, b)
<1>1. Alignments \subseteq Nat \ {0}
  BY AlignmentsTyped
<1>2. \A a, b \in Nat : Most(a, b) \in Nat /\ a <= Most(a, b) /\ b <= Most(a, b)
  BY DEF Most
<1>3. \A a, b \in Alignments : Most(a, b) \in Alignments
  BY DEF Most
<1> QED
  BY <1>1, <1>2, <1>3

(* GCC's unit for a bit-field.                                             *)
LEMMA GccUnitFacts ==
  ASSUME NEW m \in MemberChoices, m.sort \in {"bits", "pad"}, lay.bit \in Nat
  PROVE  /\ GccUnit(m).base \in Nat /\ GccUnit(m).bit \in Nat /\ Multiple(m.size, GccUnit(m).base)
         /\ GccUnit(m).bit + m.width <= 8 * m.size
         /\ lay.bit <= 8 * GccUnit(m).base + GccUnit(m).bit
<1>1. m.size \in {1, 2, 4, 8} /\ m.width \in Nat /\ m.width <= 8 * m.size
  BY MemberFacts
<1> DEFINE unit == (lay.bit \div (8 * m.size)) * m.size
<1>2. unit \in Nat /\ 8 * unit <= lay.bit /\ lay.bit < 8 * unit + 8 * m.size
        /\ Multiple(m.size, unit) /\ Multiple(m.size, unit + m.size)
  BY <1>1, UnitFacts
<1>3. GccUnit(m) = IF lay.bit - 8 * unit + m.width > 8 * m.size THEN [base |-> unit + m.size, bit |-> 0]
                   ELSE [base |-> unit, bit |-> lay.bit - 8 * unit]
  BY DEF GccUnit
<1> HIDE DEF unit
<1>4. CASE lay.bit - 8 * unit + m.width > 8 * m.size
  <2>1. GccUnit(m).base = unit + m.size /\ GccUnit(m).bit = 0
    BY <1>3, <1>4
  <2> QED
    BY <1>1, <1>2, <2>1
<1>5. CASE ~(lay.bit - 8 * unit + m.width > 8 * m.size)
  <2>1. GccUnit(m).base = unit /\ GccUnit(m).bit = lay.bit - 8 * unit
    BY <1>3, <1>5
  <2> QED
    BY <1>1, <1>2, <1>5, <2>1
<1> QED
  BY <1>4, <1>5

LEMMA Locals ==
  ASSUME LInv
  PROVE  /\ lay \in LayType /\ members \in Seq(MemberRec) /\ decls \in Seq(MemberChoices)
         /\ lay.offset \in Nat /\ lay.size \in Nat /\ lay.align \in Alignments /\ lay.bit \in Nat
         /\ lay.base \in Nat /\ lay.kind \in Nat /\ lay.width \in Nat
BY DEF LInv, Types, LayType
-----------------------------------------------------------------------------
(* Each way of adding a member keeps the invariant.                        *)
Adding(m) ==
  /\ LInv /\ PackTypes /\ struct \in StructChoices /\ struct # None /\ m \in MemberChoices
  /\ decls' = Append(decls, m) /\ UNCHANGED <<parserPack, struct>>

LEMMA FieldUnionStep ==
  ASSUME NEW m, Adding(m), AddField(m), struct.union PROVE LInv'
<1> DEFINE r == [mem |-> m, offset |-> 0, bit |-> 0, load |-> m.size]
<1>1. m \in MemberChoices /\ m.size \in Nat /\ m.width = 0 /\ m.align \in Alignments /\ m.sort \in {"field", "anon"}
  BY MemberFacts DEF Adding, AddField
<1>2. lay \in LayType /\ lay.size \in Nat /\ lay.align \in Alignments
  BY Locals DEF Adding
<1>3. members' = Append(members, r) /\ r \in MemberRec
  BY <1>1 DEF AddField, Placed, MemberRec
<1> DEFINE al == IF m.sort = "anon" THEN lay.align ELSE Most(lay.align, m.align)
<1>4. lay' = [lay EXCEPT !.size = Most(lay.size, m.size), !.align = al]
  BY DEF AddField
<1>5. al \in Alignments /\ lay.align <= al /\ (m.sort # "anon" => m.align <= al)
  <2>1. lay.align <= lay.align
    BY <1>2, CappedFacts DEF Adding
  <2> QED
    BY <1>1, <1>2, <2>1, MostFacts
<1>6. Most(lay.size, m.size) \in Nat /\ lay.size <= Most(lay.size, m.size) /\ m.size <= Most(lay.size, m.size)
  BY <1>1, <1>2, MostFacts
<1> HIDE DEF al
<1>7. lay' \in LayType /\ lay'.align = al /\ lay'.size = Most(lay.size, m.size) /\ lay'.offset = lay.offset
  BY <1>2, <1>4, <1>5, <1>6 DEF LayType
<1>8. lay.offset <= lay.offset
  BY Locals DEF Adding
<1>9. Longer(lay')
  BY <1>5, <1>6, <1>7, <1>8 DEF Longer
<1>10. Sound(r, lay')
  <2>1. Capped(m.align) \in Nat /\ 0 = Capped(m.align) * 0
    BY <1>1, CappedFacts DEF Adding
  <2>2. Multiple(Capped(m.align), 0)
    BY <2>1 DEF Multiple
  <2>3. m.sort # "anon" => Capped(m.align) <= Capped(al)
    BY <1>1, <1>5, CappedFacts DEF Adding
  <2>4. 0 + 0 <= 8 * m.size
    BY <1>1
  <2> QED
    BY <1>1, <1>7, <2>2, <2>3, <2>4 DEF Sound
<1>11. Inside(r, lay')
  BY <1>6, <1>7 DEF Inside
<1>12. LayMember(r, lay')
  BY <1>3, <1>9, <1>10, <1>11 DEF LayMember, Gcc, Ms
<1> QED
  BY <1>3, <1>12, AddOne DEF Adding, Ms

LEMMA FieldStep ==
  ASSUME NEW m, Adding(m), AddField(m), ~struct.union PROVE LInv'
<1> DEFINE offset == AlignTo(lay.offset, Capped(m.align))
<1> DEFINE r == [mem |-> m, offset |-> offset, bit |-> 0, load |-> m.size]
<1>1. m \in MemberChoices /\ m.size \in Nat /\ m.width = 0 /\ m.align \in Alignments /\ m.sort \in {"field", "anon"}
  BY MemberFacts DEF Adding, AddField
<1>2. lay \in LayType /\ lay.offset \in Nat /\ lay.align \in Alignments /\ lay.bit \in Nat /\ lay.size \in Nat
        /\ lay.base \in Nat /\ lay.kind \in Nat /\ lay.width \in Nat /\ decls \in Seq(MemberChoices)
  BY Locals DEF Adding
<1>3. Capped(m.align) \in Alignments /\ Capped(m.align) \in Nat \ {0}
  BY <1>1, CappedFacts DEF Adding
<1>4. offset \in Nat /\ lay.offset <= offset /\ Multiple(Capped(m.align), offset)
  <2>1. lay.offset \in Int
    BY <1>2
  <2>2. Multiple(Capped(m.align), offset)
    BY <1>3, <2>1, AlignToFacts
  <2> QED
    BY <1>2, <1>3, <2>2, AlignToNat
<1>5. members' = Append(members, r)
  BY DEF AddField, Placed
<1> DEFINE al == Most(lay.align, Capped(m.align))
<1> DEFINE kd == IF m.sort = "anon" THEN lay.kind ELSE 0
<1>6. lay' = [lay EXCEPT !.offset = offset + m.size, !.bit = 8 * (offset + m.size), !.align = al,
                         !.kind = kd, !.width = IF m.sort = "anon" THEN lay.width ELSE 0]
  BY DEF AddField
<1>7. al \in Alignments /\ lay.align <= al /\ Capped(m.align) <= al
  BY <1>2, <1>3, MostFacts
<1>8. kd \in Nat /\ (kd # 0 => kd = lay.kind)
  BY <1>2
<1> HIDE DEF offset, al, kd
<1>9. r \in MemberRec /\ r.mem = m
  BY <1>1, <1>4 DEF MemberRec
<1>10. offset + m.size \in Nat /\ 8 * (offset + m.size) \in Nat
  BY <1>1, <1>4
<1>11. /\ lay' \in LayType /\ lay'.align = al /\ lay'.size = lay.size /\ lay'.offset = offset + m.size
       /\ lay'.bit = 8 * (offset + m.size) /\ lay'.kind = kd /\ lay'.base = lay.base
  BY <1>2, <1>6, <1>7, <1>8, <1>10 DEF LayType
<1>12. Longer(lay')
  <2>1. lay.offset <= offset + m.size /\ lay.size <= lay.size
    BY <1>1, <1>2, <1>4
  <2> QED
    BY <1>7, <1>11, <2>1 DEF Longer
<1>13. Sound(r, lay')
  <2>1. Capped(m.align) <= Capped(al)
    <3>1. Capped(Capped(m.align)) <= Capped(al) /\ Capped(Capped(m.align)) = Capped(m.align)
      BY <1>1, <1>3, <1>7, CappedFacts DEF Adding
    <3> QED
      BY <3>1
  <2>2. 0 + 0 <= 8 * m.size
    BY <1>1
  <2> QED
    BY <1>1, <1>4, <1>11, <2>1, <2>2 DEF Sound
<1>14. FirstBit(r) = 8 * offset /\ EndBit(r) = 8 * (offset + m.size)
  BY <1>1, <1>4 DEF FirstBit, EndBit
<1>15. Inside(r, lay')
  <2>1. EndBit(r) <= 8 * lay'.offset /\ r.offset + r.load <= lay'.offset
    BY <1>1, <1>4, <1>10, <1>11, <1>14
  <2> QED
    BY <2>1 DEF Inside
<1>16. Gcc => lay'.bit <= 8 * lay'.offset /\ lay.bit <= FirstBit(r) /\ EndBit(r) <= lay'.bit
  <2>1. Gcc => lay.bit <= 8 * lay.offset
    BY DEF Adding, LInv, GccCursor
  <2> QED
    BY <1>2, <1>4, <1>10, <1>11, <1>14, <2>1, SMTT(20)
<1>17. LayMember(r, lay')
  BY <1>1, <1>9, <1>12, <1>13, <1>15, <1>16 DEF LayMember, MsKept
<1>18. ASSUME Ms, ~LostRun' PROVE MsMember(r, lay')
  <2>1. ~LostRun
    BY <1>2, <1>18, LostGrows DEF Adding
  <2>2. lay.kind # 0 => lay.base + lay.kind <= lay.offset
    BY <1>18, <2>1 DEF Adding, LInv, MsCursor
  <2>3. 8 * lay.offset <= FirstBit(r)
    BY <1>2, <1>4, <1>14
  <2>4. lay'.kind # 0 => lay'.base + lay'.kind <= lay'.offset /\ ~(lay'.bit < 8 * lay'.kind)
    BY <1>1, <1>2, <1>4, <1>8, <1>11, <2>2, SMTT(20)
  <2> QED
    BY <1>15, <2>3, <2>4 DEF MsMember, Free
<1> QED
  BY <1>5, <1>9, <1>17, <1>18, AddOne DEF Adding
(* Microsoft's runs.                                                       *)
LEMMA MsRunFacts ==
  ASSUME NEW m, LInv, PackTypes, m \in MemberChoices, m.sort \in {"bits", "pad"}
  PROVE  /\ Longer(MsRun(m)) /\ MsRun(m).kind = m.size /\ MsRun(m).width = m.width
         /\ MsRun(m).base \in Nat /\ MsRun(m).bit - m.width \in Nat /\ MsRun(m).bit \in Nat /\ MsRun(m).offset \in Nat
         /\ m.width > 0 => MsRun(m).bit <= 8 * m.size
         /\ Ms /\ ~LostRun /\ (m.width = 0 => lay.kind = m.size /\ lay.width > 0) =>
              MsRun(m).base + m.size <= MsRun(m).offset /\ Free(8 * MsRun(m).base + (MsRun(m).bit - m.width))
<1> DEFINE newRun == lay.bit + m.width > 8 * m.size \/ ((m.width > 0) = (m.size # lay.kind))
<1> DEFINE at == AlignTo(lay.offset, Capped(m.align))
<1> DEFINE al == IF m.width > 0 THEN Most(lay.align, Capped(m.align)) ELSE lay.align
<1> DEFINE off == IF ~newRun THEN lay.offset ELSE IF m.width > 0 \/ lay.width > 0 THEN at + m.size ELSE at
<1> DEFINE base == IF newRun THEN at ELSE lay.base
<1> DEFINE bit == (IF newRun THEN 0 ELSE lay.bit) + m.width
<1>1. m.size \in {1, 2, 4, 8} /\ m.width \in Nat /\ m.width <= 8 * m.size /\ m.align \in Alignments /\ m.size \in Nat
  BY MemberFacts
<1>2. lay \in LayType /\ lay.offset \in Nat /\ lay.align \in Alignments /\ lay.bit \in Nat /\ lay.size \in Nat
        /\ lay.base \in Nat /\ lay.kind \in Nat /\ lay.width \in Nat
  BY Locals
<1>3. Capped(m.align) \in Alignments /\ Capped(m.align) \in Nat \ {0}
  BY <1>1, CappedFacts
<1>4. at \in Nat /\ lay.offset <= at
  BY <1>2, <1>3, AlignToNat
<1>5. MsRun(m) = [lay EXCEPT !.offset = off, !.base = base, !.bit = bit, !.kind = m.size, !.width = m.width, !.align = al]
  BY DEF MsRun
<1>6. al \in Alignments /\ lay.align <= al
  <2>1. lay.align <= lay.align
    BY <1>2, CappedFacts
  <2> QED
    BY <1>2, <1>3, <2>1, MostFacts
<1> HIDE DEF at
<1>7. off \in Nat /\ lay.offset <= off /\ base \in Nat /\ bit \in Nat /\ bit - m.width \in Nat
  BY <1>1, <1>2, <1>4
<1>8. m.width > 0 => bit <= 8 * m.size
  BY <1>1, <1>2
<1>9. Ms /\ ~LostRun /\ (m.width = 0 => lay.kind = m.size /\ lay.width > 0) =>
        base + m.size <= off /\ Free(8 * base + (bit - m.width))
  <2>1. SUFFICES ASSUME Ms, ~LostRun, m.width = 0 => lay.kind = m.size /\ lay.width > 0
                 PROVE  base + m.size <= off /\ Free(8 * base + (bit - m.width))
    OBVIOUS
  <2>2. lay.kind # 0 => lay.base + lay.kind <= lay.offset
    BY <2>1 DEF LInv, MsCursor
  <2>3. CASE newRun
    <3>1. off = at + m.size /\ base = at /\ bit = m.width
      BY <1>1, <1>2, <2>1, <2>3
    <3>2. 8 * lay.offset <= 8 * base + (bit - m.width)
      BY <1>1, <1>2, <1>4, <3>1
    <3>3. base + m.size <= off
      BY <1>1, <1>4, <3>1
    <3> QED
      BY <3>2, <3>3 DEF Free
  <2>4. CASE ~newRun
    <3>1. m.width > 0 /\ m.size = lay.kind /\ lay.bit + m.width <= 8 * m.size
      BY <1>1, <1>2, <2>1, <2>4
    <3>2. off = lay.offset /\ base = lay.base /\ bit = lay.bit + m.width
      BY <2>4
    <3>3. lay.kind # 0 /\ lay.bit < 8 * lay.kind
      BY <1>1, <1>2, <3>1
    <3>4. 8 * lay.base + lay.bit <= 8 * base + (bit - m.width)
      BY <1>1, <1>2, <3>2
    <3>5. base + m.size <= off
      BY <2>2, <3>1, <3>2, <3>3
    <3> QED
      BY <3>3, <3>4, <3>5 DEF Free
  <2> QED
    BY <2>3, <2>4
<1> HIDE DEF off, base, bit, al
<1>10. /\ MsRun(m) \in LayType /\ MsRun(m).offset = off /\ MsRun(m).base = base /\ MsRun(m).bit = bit
       /\ MsRun(m).kind = m.size /\ MsRun(m).width = m.width /\ MsRun(m).align = al /\ MsRun(m).size = lay.size
  BY <1>1, <1>2, <1>5, <1>6, <1>7, ZenonT(20) DEF LayType
<1>11. lay.size <= lay.size
  BY <1>2
<1>12. Longer(MsRun(m))
  BY <1>6, <1>7, <1>10, <1>11 DEF Longer
<1> QED
  BY <1>7, <1>8, <1>9, <1>10, <1>12

LEMMA BitsMsStep ==
  ASSUME NEW m, Adding(m), AddBitsMs(m) PROVE LInv'
<1> DEFINE l == MsRun(m)
<1> DEFINE r == [mem |-> m, offset |-> l.base, bit |-> l.bit - m.width, load |-> m.size]
<1>1. /\ LInv /\ PackTypes /\ m \in MemberChoices /\ m.sort = "bits" /\ Ms /\ ~Gcc /\ ~struct.union
  BY DEF Adding, AddBitsMs, Ms, Gcc
<1>2. m.size \in Nat /\ m.size \in Alignments /\ m.width \in Nat /\ m.width > 0
  BY <1>1, MemberFacts
<1>3. Longer(l) /\ l.kind = m.size /\ l.width = m.width /\ l.base \in Nat /\ l.bit - m.width \in Nat /\ l.bit \in Nat
        /\ l.offset \in Nat /\ l.bit <= 8 * m.size
  BY <1>1, <1>2, MsRunFacts
<1>4. ASSUME ~LostRun PROVE l.base + m.size <= l.offset /\ Free(8 * l.base + (l.bit - m.width))
  <2>1. m.width # 0
    BY <1>2
  <2> QED
    BY <1>1, <1>4, <2>1, MsRunFacts
<1>5. members' = Append(members, r) /\ lay' = [l EXCEPT !.align = Most(l.align, m.size)]
  BY DEF AddBitsMs, Placed
<1> HIDE DEF l
<1>6. l \in LayType /\ l.align \in Alignments /\ lay.align <= l.align /\ lay.align \in Alignments
  BY <1>1, <1>3, Locals DEF Longer, LayType
<1>7. Most(l.align, m.size) \in Alignments /\ lay.align <= Most(l.align, m.size)
  <2>1. Most(l.align, m.size) \in Alignments /\ l.align <= Most(l.align, m.size)
    BY <1>2, <1>6, MostFacts
  <2>2. lay.align \in Nat /\ l.align \in Nat /\ Most(l.align, m.size) \in Nat
    BY <1>1, <1>6, <2>1, CappedFacts
  <2> QED
    BY <1>6, <2>1, <2>2
<1>8. /\ lay' \in LayType /\ lay'.offset = l.offset /\ lay'.base = l.base /\ lay'.bit = l.bit /\ lay'.kind = m.size
      /\ lay'.width = m.width /\ lay'.size = l.size /\ lay'.align = Most(l.align, m.size)
  BY <1>3, <1>5, <1>6, <1>7 DEF LayType
<1>9. Longer(lay')
  BY <1>3, <1>7, <1>8 DEF Longer
<1>10. r \in MemberRec /\ r.mem = m
  BY <1>1, <1>2, <1>3 DEF MemberRec
<1>11. (l.bit - m.width) + m.width <= 8 * m.size /\ m.width # 0
  BY <1>2, <1>3
<1>12. Sound(r, lay')
  BY <1>1, <1>11 DEF Sound
<1>13. LayMember(r, lay')
  BY <1>1, <1>8, <1>9, <1>10, <1>12 DEF LayMember, MsKept
<1>14. ASSUME ~LostRun' PROVE MsMember(r, lay')
  <2>1. ~LostRun
    BY <1>1, <1>14, Locals, LostGrows DEF Adding
  <2>2. FirstBit(r) = 8 * l.base + (l.bit - m.width) /\ EndBit(r) = 8 * l.base + l.bit
    BY <1>2, <1>3 DEF FirstBit, EndBit
  <2>3. l.base + m.size <= l.offset /\ Free(FirstBit(r))
    BY <1>4, <2>1, <2>2
  <2>4. EndBit(r) <= 8 * l.offset
    BY <1>2, <1>3, <2>2, <2>3
  <2>5. Inside(r, lay')
    BY <1>1, <1>8, <2>3, <2>4 DEF Inside
  <2>6. EndBit(r) <= 8 * l.base + l.bit
    BY <1>3, <2>2
  <2> QED
    BY <1>8, <2>3, <2>5, <2>6 DEF MsMember
<1> QED
  BY <1>5, <1>10, <1>13, <1>14, AddOne DEF Adding

LEMMA PadMsStep ==
  ASSUME NEW m, Adding(m), AddPadMs(m) PROVE LInv'
<1> DEFINE l == MsRun(m)
<1>1. LInv /\ PackTypes /\ m \in MemberChoices /\ m.sort = "pad" /\ Ms /\ ~Gcc /\ lay' = l /\ members' = members
  BY DEF Adding, AddPadMs, Ms, Gcc
<1>2. m.size \in Nat /\ m.width \in Nat
  BY <1>1, MemberFacts
<1>3. Longer(l) /\ l.kind = m.size /\ l.width = m.width /\ l.base \in Nat /\ l.bit - m.width \in Nat /\ l.bit \in Nat
  BY <1>1, MsRunFacts
<1>4. LayPad(m, lay')
  BY <1>1, <1>3 DEF LayPad, MsKept
<1>5. ASSUME ~LostRun' PROVE MsNext(m, lay')
  <2>1. /\ ~LostRun
        /\ m.width = 0 => decls # <<>> /\ decls[Len(decls)].width > 0 /\ decls[Len(decls)].size = m.size
    BY <1>1, <1>5, Locals, LostGrows DEF Adding
  <2>2. m.width = 0 => lay.kind = m.size /\ lay.width > 0
    BY <1>1, <2>1 DEF LInv, MsLast
  <2>3. l.base + m.size <= l.offset /\ Free(8 * l.base + (l.bit - m.width))
    BY <1>1, <2>1, <2>2, MsRunFacts
  <2> HIDE DEF l
  <2>4. lay.offset \in Nat /\ lay.base \in Nat /\ lay.bit \in Nat
    BY <1>1, Locals
  <2>5. Free(8 * l.base + l.bit)
    BY <1>2, <1>3, <2>3, <2>4 DEF Free
  <2> QED
    BY <1>1, <1>3, <2>3, <2>5 DEF MsNext
<1> QED
  BY <1>1, <1>4, <1>5, AddNone DEF Adding
LEMMA BitsPackedStep ==
  ASSUME NEW m, Adding(m), AddBitsPacked(m) PROVE LInv'
<1> DEFINE bit == IF m.align > m.size THEN 8 * AlignTo(BytesOf(lay.bit), Capped(m.align)) ELSE lay.bit
<1> DEFINE load == LoadSize(m.size, BytesOf((bit % 8) + m.width))
<1> DEFINE r == [mem |-> m, offset |-> bit \div 8, bit |-> bit % 8, load |-> load]
<1>1. LInv /\ PackTypes /\ m \in MemberChoices /\ m.sort = "bits" /\ Gcc /\ ~Ms /\ ~struct.union /\ Packed
  BY DEF Adding, AddBitsPacked, Gcc, Ms
<1>2. m.size \in {1, 2, 4, 8} /\ m.size \in Alignments /\ m.width \in Nat /\ m.width > 0 /\ m.width <= 8 * m.size
        /\ m.align \in Alignments
  BY <1>1, MemberFacts
<1>3. lay \in LayType /\ lay.offset \in Nat /\ lay.align \in Alignments /\ lay.bit \in Nat /\ lay.size \in Nat
  BY <1>1, Locals
<1>4. bit \in Nat /\ lay.bit <= bit
  <2>1. Capped(m.align) \in Nat \ {0}
    BY <1>1, <1>2, CappedFacts
  <2>2. BytesOf(lay.bit) \in Nat /\ lay.bit <= 8 * BytesOf(lay.bit)
    BY <1>3, BytesFacts
  <2>3. AlignTo(BytesOf(lay.bit), Capped(m.align)) \in Nat
          /\ BytesOf(lay.bit) <= AlignTo(BytesOf(lay.bit), Capped(m.align))
    BY <2>1, <2>2, AlignToNat
  <2> QED
    BY <1>3, <2>2, <2>3
<1>5. members' = Append(members, r)
  BY DEF AddBitsPacked, Placed
<1>6. lay' = [lay EXCEPT !.offset = Most(lay.offset, BytesOf(bit + m.width)), !.bit = bit + m.width,
                         !.align = Most(lay.align, m.size)]
  BY DEF AddBitsPacked
<1> HIDE DEF bit
<1>7. bit \div 8 \in Nat /\ bit % 8 \in 0 .. 7 /\ bit = 8 * (bit \div 8) + (bit % 8)
  BY <1>4
<1>8. load \in Nat /\ (bit % 8) + m.width <= 8 * load
  <2>1. PICK k \in Nat : k = (bit % 8) + m.width /\ k <= 7 + 8 * m.size
    BY <1>2, <1>7
  <2>2. PICK n \in Nat : n = BytesOf(k) /\ k <= 8 * n /\ 8 * n <= k + 7
    BY BytesFacts
  <2>3. n <= 2 * m.size
    BY <1>2, <2>1, <2>2
  <2>4. load = LoadSize(m.size, n)
    BY <2>1, <2>2
  <2>5. LoadSize(m.size, n) \in Nat /\ n <= LoadSize(m.size, n)
    BY <1>2, <2>3 DEF LoadSize
  <2> QED
    BY <2>1, <2>2, <2>4, <2>5
<1> HIDE DEF load
<1>9. r \in MemberRec /\ r.mem = m
  BY <1>1, <1>7, <1>8 DEF MemberRec
<1>10. FirstBit(r) = bit /\ EndBit(r) = bit + m.width
  BY <1>2, <1>7 DEF FirstBit, EndBit
<1>11. bit + m.width \in Nat
  BY <1>2, <1>4
<1> DEFINE off == Most(lay.offset, BytesOf(bit + m.width))
<1>12. off \in Nat /\ lay.offset <= off /\ bit + m.width <= 8 * off
  <2>1. PICK n \in Nat : n = BytesOf(bit + m.width) /\ bit + m.width <= 8 * n
    BY <1>11, BytesFacts
  <2>2. off \in Nat /\ lay.offset <= off /\ n <= off
    BY <1>3, <2>1, MostFacts
  <2> QED
    BY <1>11, <2>1, <2>2
<1>13. Most(lay.align, m.size) \in Alignments /\ lay.align <= Most(lay.align, m.size)
  BY <1>2, <1>3, MostFacts
<1> HIDE DEF off
<1>14. /\ lay' \in LayType /\ lay'.offset = off /\ lay'.bit = bit + m.width /\ lay'.align = Most(lay.align, m.size)
       /\ lay'.size = lay.size
  BY <1>3, <1>6, <1>11, <1>12, <1>13 DEF LayType, off
<1>15. lay.size <= lay.size
  BY <1>3
<1>16. Longer(lay')
  BY <1>12, <1>13, <1>14, <1>15 DEF Longer
<1>17. m.width # 0
  BY <1>2
<1>18. Sound(r, lay')
  BY <1>1, <1>8, <1>17 DEF Sound
<1>19. Inside(r, lay')
  BY <1>1, <1>10, <1>12, <1>14 DEF Inside
<1>20. EndBit(r) <= lay'.bit /\ lay.bit <= FirstBit(r) /\ lay'.bit <= 8 * lay'.offset
  BY <1>4, <1>10, <1>11, <1>12, <1>14
<1>21. LayMember(r, lay')
  BY <1>1, <1>9, <1>16, <1>18, <1>19, <1>20 DEF LayMember
<1> QED
  BY <1>1, <1>5, <1>9, <1>21, AddOne DEF Adding

LEMMA BitsGccStep ==
  ASSUME NEW m, Adding(m), AddBitsGcc(m) PROVE LInv'
<1> DEFINE u == GccUnit(m)
<1> DEFINE base == IF m.align > m.size THEN AlignTo(u.base, m.align) ELSE u.base
<1> DEFINE bit == IF m.align > m.size THEN 0 ELSE u.bit
<1> DEFINE end == 8 * base + bit + m.width
<1> DEFINE off == Most(lay.offset, BytesOf(end))
<1> DEFINE al == Most(Most(lay.align, m.align), m.size)
<1> DEFINE r == [mem |-> m, offset |-> base, bit |-> bit, load |-> m.size]
<1>1. LInv /\ PackTypes /\ m \in MemberChoices /\ m.sort = "bits" /\ Gcc /\ ~Ms /\ ~struct.union /\ ~Packed
  BY DEF Adding, AddBitsGcc, Gcc, Ms
<1>2. m.size \in {1, 2, 4, 8} /\ m.size \in Alignments /\ m.width \in Nat /\ m.width > 0 /\ m.width <= 8 * m.size
        /\ m.align \in Alignments /\ m.align \in Nat \ {0} /\ m.size \in Nat
  BY <1>1, MemberFacts, CappedFacts
<1>3. lay \in LayType /\ lay.offset \in Nat /\ lay.align \in Alignments /\ lay.bit \in Nat /\ lay.size \in Nat
  BY <1>1, Locals
<1>4. u.base \in Nat /\ u.bit \in Nat /\ Multiple(m.size, u.base) /\ u.bit + m.width <= 8 * m.size
        /\ lay.bit <= 8 * u.base + u.bit
  BY <1>1, <1>3, GccUnitFacts
<1>5. members' = Append(members, r) /\ lay' = [lay EXCEPT !.offset = off, !.bit = end, !.align = al]
  BY DEF AddBitsGcc, Placed
<1> HIDE DEF u
<1>6. base \in Nat /\ bit \in Nat /\ Multiple(m.size, base) /\ bit + m.width <= 8 * m.size
        /\ (~(m.align > m.size) => lay.bit <= 8 * base + bit)
  <2>1. CASE m.align > m.size
    <3>1. base = AlignTo(u.base, m.align) /\ bit = 0
      BY <2>1
    <3>2. base \in Nat
      BY <1>2, <1>4, <3>1, AlignToNat
    <3>3. Multiple(m.align, base)
      <4>1. u.base \in Int
        BY <1>4
      <4> QED
        BY <1>2, <3>1, <4>1, AlignToFacts
    <3>4. m.size <= m.align
      BY <1>2, <2>1
    <3>5. Multiple(m.size, m.align)
      BY <1>2, <3>4, Chain
    <3>6. Multiple(m.size, base)
      BY <1>2, <3>2, <3>3, <3>5, MultipleTrans
    <3> QED
      BY <1>2, <2>1, <3>1, <3>2, <3>6
  <2>2. CASE ~(m.align > m.size)
    BY <1>4, <2>2
  <2> QED
    BY <2>1, <2>2
<1> HIDE DEF base, bit
<1>7. end \in Nat /\ 8 * base + m.width <= end
  BY <1>2, <1>6
<1>8. off \in Nat /\ lay.offset <= off /\ end <= 8 * off
  <2>1. PICK n \in Nat : n = BytesOf(end) /\ end <= 8 * n
    BY <1>7, BytesFacts
  <2>2. off \in Nat /\ lay.offset <= off /\ n <= off
    BY <1>3, <2>1, MostFacts
  <2> QED
    BY <1>7, <2>1, <2>2
<1>9. al \in Alignments /\ lay.align <= al /\ m.size <= al
  <2>1. PICK k \in Alignments : k = Most(lay.align, m.align) /\ lay.align <= k
    BY <1>2, <1>3, MostFacts
  <2>2. al \in Alignments /\ k <= al /\ m.size <= al
    BY <1>2, <2>1, MostFacts
  <2>3. lay.align \in Nat /\ k \in Nat /\ al \in Nat
    BY <1>1, <1>3, <2>1, <2>2, CappedFacts
  <2> QED
    BY <2>1, <2>2, <2>3
<1>10. r \in MemberRec /\ r.mem = m
  BY <1>1, <1>2, <1>6 DEF MemberRec
<1>11. FirstBit(r) = 8 * base + bit /\ EndBit(r) = end
  BY <1>2, <1>6 DEF FirstBit, EndBit
<1> HIDE DEF end, off, al
<1>12. /\ lay' \in LayType /\ lay'.offset = off /\ lay'.bit = end /\ lay'.align = al /\ lay'.size = lay.size
  BY <1>3, <1>5, <1>7, <1>8, <1>9 DEF LayType
<1>13. lay.size <= lay.size
  BY <1>3
<1>14. Longer(lay')
  BY <1>8, <1>9, <1>12, <1>13 DEF Longer
<1>15. m.width # 0 /\ base < off
  BY <1>2, <1>6, <1>7, <1>8
<1>16. Sound(r, lay')
  BY <1>1, <1>6, <1>15 DEF Sound
<1>17. Inside(r, lay')
  BY <1>1, <1>2, <1>6, <1>8, <1>9, <1>11, <1>12, <1>15 DEF Inside
<1>18. end <= end
  BY <1>7
<1>19. LayMember(r, lay')
  BY <1>1, <1>6, <1>8, <1>10, <1>11, <1>12, <1>14, <1>16, <1>17, <1>18 DEF LayMember, Odd
<1> QED
  BY <1>1, <1>5, <1>10, <1>19, AddOne DEF Adding

LEMMA PadGccStep ==
  ASSUME NEW m, Adding(m), AddPadGcc(m) PROVE LInv'
<1> DEFINE unit == (lay.bit \div (8 * m.size)) * m.size
<1> DEFINE next == IF lay.bit % (8 * m.size) # 0 THEN unit + m.size ELSE unit
<1> DEFINE u == GccUnit(m)
<1> DEFINE end == IF Packed THEN lay.bit + m.width ELSE 8 * u.base + u.bit + m.width
<1>1. LInv /\ PackTypes /\ m \in MemberChoices /\ m.sort = "pad" /\ Gcc /\ ~Ms /\ members' = members
  BY DEF Adding, AddPadGcc, Gcc, Ms
<1>2. m.size \in {1, 2, 4, 8} /\ m.width \in Nat /\ m.size \in Nat
  BY <1>1, MemberFacts
<1>3. lay \in LayType /\ lay.offset \in Nat /\ lay.align \in Alignments /\ lay.bit \in Nat /\ lay.size \in Nat
  BY <1>1, Locals
<1>4. u.base \in Nat /\ u.bit \in Nat /\ lay.bit <= 8 * u.base + u.bit
  BY <1>1, <1>3, GccUnitFacts
<1>5. unit \in Nat /\ 8 * unit <= lay.bit /\ lay.bit < 8 * unit + 8 * m.size /\ lay.bit % (8 * m.size) = lay.bit - 8 * unit
  BY <1>2, <1>3, UnitFacts
<1>6. lay' = IF m.width = 0 THEN [lay EXCEPT !.offset = Most(lay.offset, next), !.bit = 8 * next]
             ELSE [lay EXCEPT !.offset = Most(lay.offset, BytesOf(end)), !.bit = end]
  BY DEF AddPadGcc
<1> HIDE DEF unit, u
<1>7. next \in Nat /\ lay.bit <= 8 * next
  BY <1>2, <1>3, <1>5
<1>8. end \in Nat /\ lay.bit <= end
  BY <1>2, <1>3, <1>4
<1> HIDE DEF next, end
<1>9. PICK off \in Nat, b \in Nat : /\ lay' = [lay EXCEPT !.offset = off, !.bit = b]
                                    /\ lay.offset <= off /\ lay.bit <= b /\ b <= 8 * off
  <2>1. CASE m.width = 0
    <3>1. Most(lay.offset, next) \in Nat /\ lay.offset <= Most(lay.offset, next) /\ next <= Most(lay.offset, next)
      BY <1>3, <1>7, MostFacts
    <3>2. 8 * next \in Nat /\ 8 * next <= 8 * Most(lay.offset, next)
      BY <1>7, <3>1
    <3> QED
      BY <1>6, <1>7, <2>1, <3>1, <3>2
  <2>2. CASE m.width # 0
    <3>1. BytesOf(end) \in Nat /\ end <= 8 * BytesOf(end)
      BY <1>8, BytesFacts
    <3>2. PICK off \in Nat : off = Most(lay.offset, BytesOf(end)) /\ lay.offset <= off /\ BytesOf(end) <= off
      BY <1>3, <3>1, MostFacts
    <3>3. end <= 8 * off
      BY <1>8, <3>1, <3>2
    <3> QED
      BY <1>6, <1>8, <2>2, <3>2, <3>3
  <2> QED
    BY <2>1, <2>2
<1>10. lay' \in LayType /\ lay'.offset = off /\ lay'.bit = b /\ lay'.align = lay.align /\ lay'.size = lay.size
  BY <1>3, <1>9 DEF LayType
<1>11. lay.size <= lay.size /\ lay.align <= lay.align
  BY <1>1, <1>3, CappedFacts
<1>12. LayPad(m, lay')
  BY <1>1, <1>9, <1>10, <1>11 DEF LayPad, Longer
<1> QED
  BY <1>1, <1>12, AddNone DEF Adding

LEMMA BitsUnionStep ==
  ASSUME NEW m, Adding(m), AddBitsUnion(m) PROVE LInv'
<1>1. LInv /\ PackTypes /\ m \in MemberChoices /\ m.sort \in {"bits", "pad"} /\ struct.union /\ ~Gcc /\ ~Ms
  BY DEF Adding, AddBitsUnion, Gcc, Ms
<1>2. m.size \in Nat /\ m.size \in Alignments /\ m.width \in Nat /\ m.width <= 8 * m.size
        /\ (m.sort = "bits" => m.width > 0)
  BY <1>1, MemberFacts
<1>3. lay \in LayType /\ lay.offset \in Nat /\ lay.align \in Alignments /\ lay.size \in Nat
  BY <1>1, Locals
<1>4. lay.size <= lay.size /\ lay.align <= lay.align /\ lay.offset <= lay.offset
  BY <1>1, <1>3, CappedFacts
<1>5. CASE m.sort = "pad"
  <2>1. lay' = lay /\ members' = members
    BY <1>5 DEF AddBitsUnion
  <2>2. LayPad(m, lay')
    BY <1>1, <1>3, <1>4, <2>1 DEF LayPad, Longer
  <2> QED
    BY <1>1, <2>1, <2>2, AddNone DEF Adding
<1>6. CASE m.sort = "bits"
  <2> DEFINE r == [mem |-> m, offset |-> 0, bit |-> 0, load |-> m.size]
  <2>1. members' = Append(members, r)
          /\ lay' = [lay EXCEPT !.size = Most(lay.size, m.size), !.align = Most(lay.align, m.size)]
    BY <1>6 DEF AddBitsUnion, Placed
  <2>2. r \in MemberRec /\ r.mem = m
    BY <1>1, <1>2 DEF MemberRec
  <2>3. Most(lay.size, m.size) \in Nat /\ lay.size <= Most(lay.size, m.size) /\ m.size <= Most(lay.size, m.size)
    BY <1>2, <1>3, MostFacts
  <2>4. Most(lay.align, m.size) \in Alignments /\ lay.align <= Most(lay.align, m.size)
    BY <1>2, <1>3, MostFacts
  <2>5. lay' \in LayType /\ lay'.size = Most(lay.size, m.size) /\ lay'.align = Most(lay.align, m.size)
          /\ lay'.offset = lay.offset
    BY <1>3, <2>1, <2>3, <2>4 DEF LayType
  <2>6. m.width # 0 /\ 0 + m.width <= 8 * m.size
    BY <1>2, <1>6
  <2>7. Sound(r, lay')
    BY <1>6, <2>6 DEF Sound
  <2>8. Inside(r, lay')
    BY <1>1, <2>3, <2>5 DEF Inside
  <2>9. LayMember(r, lay')
    BY <1>1, <1>4, <2>2, <2>3, <2>4, <2>5, <2>7, <2>8 DEF LayMember, Longer
  <2> QED
    BY <1>1, <2>1, <2>2, <2>9, AddOne DEF Adding
<1> QED
  BY <1>1, <1>5, <1>6
-----------------------------------------------------------------------------
Nothing ==
  struct \in StructChoices \union {None} /\ lay = Fresh /\ members = <<>> /\ decls = <<>> /\ done = NotDone

LEMMA NothingLaidOut == Nothing => LInv /\ Finished
<1> SUFFICES ASSUME Nothing PROVE LInv /\ Finished
  OBVIOUS
<1> USE DEF Nothing
<1>1. lay \in LayType /\ members \in Seq(MemberRec) /\ decls \in Seq(MemberChoices)
  <2>1. 1 \in Alignments
    BY DEF Alignments
  <2> QED
    BY <2>1 DEF Fresh, LayType
<1>2. Len(members) = 0 /\ 1 .. Len(members) = {}
  OBVIOUS
<1>3. lay.bit = 0 /\ lay.offset = 0 /\ lay.kind = 0
  BY DEF Fresh
<1>4. lay.bit <= 8 * lay.offset
  BY <1>3
<1>5. Types
  BY <1>1 DEF Types
<1>6. GccCursor /\ MsCursor /\ MsLast /\ Apart
  BY <1>2, <1>3, <1>4 DEF GccCursor, MsCursor, MsLast, Apart
<1> QED
  BY <1>2, <1>5, <1>6 DEF LInv, Finished

LEMMA NothingLaidOutNext == Nothing' => LInv' /\ Finished'
BY NothingLaidOut, PTL

LEMMA AddMemberStep ==
  ASSUME IInv, NEW m \in MemberChoices, AddMember(m) PROVE LInv' /\ Finished'
<1>1. Adding(m)
  BY DEF IInv, LInv, Types, AddMember, Adding, pragmas
<1>2. LInv'
  <2>1. ASSUME AddField(m) PROVE LInv'
    BY <1>1, <2>1, FieldStep, FieldUnionStep
  <2> QED
    BY <1>1, <2>1, BitsMsStep, PadMsStep, BitsPackedStep, BitsGccStep, PadGccStep, BitsUnionStep DEF AddMember
<1>3. Finished'
  BY DEF AddMember, Finished
<1> QED
  BY <1>2, <1>3

LEMMA LayoutInit == Init => IInv
<1> SUFFICES ASSUME Init PROVE IInv
  OBVIOUS
<1>1. PackTypes /\ PackKnown /\ PackAgrees
  BY PackInit
<1>2. LInv /\ Finished
  BY NothingLaidOut DEF Init, Nothing
<1> QED
  BY <1>1, <1>2 DEF IInv

LEMMA LayoutStep ==
  ASSUME IInv, [Next]_vars PROVE IInv'
<1>1. (PackTypes /\ PackKnown /\ PackAgrees)'
  BY PackStep DEF IInv
<1>2. struct \in StructChoices \union {None}
        /\ (struct = None => lay = Fresh /\ members = <<>> /\ decls = <<>> /\ done = NotDone)
  BY DEF IInv, LInv, Types
<1>3. ASSUME struct = None, UNCHANGED <<struct, lay, members, decls, done>> PROVE LInv' /\ Finished'
  <2>1. Nothing'
    BY <1>2, <1>3 DEF Nothing
  <2> QED
    BY <2>1, NothingLaidOutNext
<1>4. ASSUME NEW s \in StructChoices, BeginStruct(s) PROVE LInv' /\ Finished'
  <2>1. Nothing'
    BY <1>2, <1>4 DEF Nothing, BeginStruct
  <2> QED
    BY <2>1, NothingLaidOutNext
<1>5. ASSUME Parsed PROVE LInv' /\ Finished'
  <2>1. Nothing'
    BY <1>5 DEF Nothing, Parsed
  <2> QED
    BY <2>1, NothingLaidOutNext
<1>6. ASSUME UNCHANGED <<parserPack, struct, lay, members, decls>>, struct # None PROVE LInv'
  <2>1. \A n : PutBack(n)' <=> PutBack(n)
    BY <1>6, SameStruct DEF PutBack
  <2>2. LostRun' <=> LostRun
    BY <1>6 DEF LostRun
  <2>3. Types'
    BY <1>6 DEF IInv, LInv, Types
  <2>4. (\A i \in 1 .. Len(members) : Sound(members[i], lay))'
    BY <1>6, SameStruct DEF IInv, LInv
  <2>5. (~LostRun => \A i \in 1 .. Len(members) : Inside(members[i], lay))'
    BY <1>6, <2>2, SameStruct DEF IInv, LInv
  <2>6. GccCursor'
    BY <1>6, <2>1, SameStruct DEF IInv, LInv, GccCursor
  <2>7. MsCursor' /\ MsLast'
    BY <1>6, <2>2, SameStruct DEF IInv, LInv, MsCursor, MsLast
  <2>8. Apart'
    BY <1>6, <2>1, <2>2 DEF IInv, LInv, Apart
  <2> QED
    BY <2>3, <2>4, <2>5, <2>6, <2>7, <2>8 DEF LInv
<1>7. ASSUME EndStruct PROVE LInv' /\ Finished'
  <2>1. UNCHANGED <<parserPack, struct, lay, members, decls>> /\ struct # None
    BY <1>7 DEF EndStruct, pragmas
  <2>2. Capped(lay.align)' = Capped(lay.align)
    BY <2>1, SameStruct
  <2>3. Finished'
    BY <1>7, <2>1, <2>2 DEF EndStruct, Finished
  <2> QED
    BY <1>6, <2>1, <2>3
<1>8. ASSUME UNCHANGED vars PROVE LInv' /\ Finished'
  <2>1. UNCHANGED <<parserPack, struct, lay, members, decls, done>>
    BY <1>8 DEF vars, pragmas
  <2>2. CASE struct = None
    BY <1>3, <2>1, <2>2
  <2>3. CASE struct # None
    <3>1. Capped(lay.align)' = Capped(lay.align)
      BY <2>1, SameStruct
    <3>2. Finished'
      BY <2>1, <3>1 DEF IInv, Finished
    <3> QED
      BY <1>6, <2>1, <2>3, <3>2
  <2> QED
    BY <2>2, <2>3
<1>9. LInv' /\ Finished'
  <2>1. ASSUME NEW n, PackPush(n) \/ PackPop \/ PackSet(n) \/ PackReset PROVE LInv' /\ Finished'
    BY <1>3, <2>1 DEF PackPush, PackPop, PackSet, PackReset, Pragma
  <2> QED
    BY <1>4, <1>5, <1>7, <1>8, <2>1, AddMemberStep DEF Next
<1> QED
  BY <1>1, <1>9 DEF IInv

(* What a finished struct covers.                                          *)
LEMMA DoneFacts ==
  ASSUME IInv, done # NotDone
  PROVE  LET x == IF struct.union THEN lay.size ELSE lay.offset IN
         /\ struct \in StructChoices
         /\ done.align \in Alignments /\ Capped(lay.align) <= done.align
         /\ x \in Nat /\ done.size \in Nat /\ x <= done.size /\ Multiple(done.align, done.size)
<1> DEFINE x == IF struct.union THEN lay.size ELSE lay.offset
<1>1. struct \in StructChoices
  BY DEF IInv, LInv, Types
<1>2. x \in Nat /\ lay.align \in Alignments
  BY Locals DEF IInv
<1>3. Capped(lay.align) \in Alignments /\ Capped(lay.align) \in Nat \ {0}
  BY <1>2, CappedFacts DEF IInv
<1>4. struct.align \in Nat /\ (struct.align # 0 => struct.align \in Alignments)
  BY <1>1, StructsAssumption DEF Alignments
<1> DEFINE align == Most(Capped(lay.align), struct.align)
<1>5. align \in Alignments /\ Capped(lay.align) <= align
  <2>1. Capped(lay.align) <= Capped(lay.align)
    BY <1>3
  <2>2. CASE struct.align = 0
    <3>1. align = Capped(lay.align)
      BY <1>3, <2>2 DEF Most
    <3> QED
      BY <1>3, <2>1, <3>1
  <2>3. CASE struct.align # 0
    BY <1>3, <1>4, <2>3, MostFacts
  <2> QED
    BY <2>2, <2>3
<1>6. done = [size |-> AlignTo(x, align), align |-> align]
  BY DEF IInv, Finished
<1> HIDE DEF x, align
<1>7. align \in Nat \ {0}
  BY <1>5, CappedFacts DEF IInv
<1>8. AlignTo(x, align) \in Nat /\ x <= AlignTo(x, align)
  BY <1>2, <1>7, AlignToNat
<1>9. Multiple(align, AlignTo(x, align))
  <2>1. x \in Int
    BY <1>2
  <2> QED
    BY <1>7, <2>1, AlignToFacts
<1>10. done.size = AlignTo(x, align) /\ done.align = align
  BY <1>6
<1> QED
  BY <1>1, <1>2, <1>5, <1>8, <1>9, <1>10 DEF x

LEMMA DoneCovers ==
  ASSUME IInv, done # NotDone, ~LostRun, NEW i \in 1 .. Len(members) PROVE Covers(members[i])
<1> DEFINE p == members[i]
<1> DEFINE x == IF struct.union THEN lay.size ELSE lay.offset
<1>1. p \in MemberRec /\ Sound(p, lay) /\ Inside(p, lay)
  BY Locals DEF IInv, LInv
<1>2. struct \in StructChoices /\ done.align \in Alignments /\ Capped(lay.align) <= done.align
        /\ x \in Nat /\ done.size \in Nat /\ x <= done.size /\ Multiple(done.align, done.size)
  BY DoneFacts
<1>3. lay.offset \in Nat /\ lay.size \in Nat /\ lay.align \in Alignments
  BY Locals DEF IInv
<1> HIDE DEF p
<1>4. p.mem \in MemberChoices /\ p.offset \in Nat /\ p.bit \in Nat /\ p.load \in Nat /\ EndBit(p) \in Nat
  BY <1>1, BitsFacts
<1>5. p.mem.size \in Nat /\ p.mem.width \in Nat /\ p.mem.align \in Alignments
  BY <1>4, MemberFacts
<1>6. Capped(p.mem.align) \in Alignments /\ Capped(lay.align) \in Alignments
  BY <1>3, <1>5, CappedFacts DEF IInv
<1>7. Capped(p.mem.align) \in Nat \ {0} /\ Capped(lay.align) \in Nat /\ done.align \in Nat
  BY <1>2, <1>6, CappedFacts DEF IInv
<1>8. EndBit(p) <= 8 * done.size
  <2>1. CASE struct.union
    <3>1. p.offset = 0 /\ p.bit = 0 /\ p.load = p.mem.size /\ p.load <= lay.size /\ p.mem.width <= 8 * p.load
      BY <1>1, <1>5, <2>1 DEF Sound, Inside
    <3>2. EndBit(p) <= 8 * p.load
      BY <1>4, <1>5, <3>1 DEF EndBit, FirstBit
    <3>3. lay.size <= done.size
      BY <1>2, <2>1
    <3> QED
      BY <1>2, <1>3, <1>4, <3>1, <3>2, <3>3
  <2>2. CASE ~struct.union
    <3>1. EndBit(p) <= 8 * lay.offset /\ lay.offset <= done.size
      BY <1>1, <1>2, <2>2 DEF Inside
    <3> QED
      BY <1>2, <1>3, <1>4, <3>1
  <2> QED
    BY <2>1, <2>2
<1>9. p.mem.width = 0 => p.offset % Capped(p.mem.align) = 0
  <2>1. p.offset \in Int
    BY <1>4
  <2> QED
    BY <1>1, <1>7, <2>1, MultipleMod DEF Sound
<1>10. ASSUME p.mem.width = 0, ~(struct.union /\ p.mem.sort = "anon") PROVE done.align % Capped(p.mem.align) = 0
  <2>1. Capped(p.mem.align) <= Capped(lay.align)
    BY <1>1, <1>10 DEF Sound
  <2>2. Capped(p.mem.align) <= done.align
    BY <1>2, <1>7, <2>1
  <2>3. Multiple(Capped(p.mem.align), done.align) /\ done.align \in Int
    BY <1>2, <1>6, <1>7, <2>2, Chain
  <2> QED
    BY <1>7, <2>3, MultipleMod
<1>11. ASSUME ~Packed PROVE p.offset + p.load <= done.size
  <2>1. CASE struct.union
    <3>1. p.offset = 0 /\ p.load <= lay.size /\ lay.size <= done.size
      BY <1>1, <1>2, <2>1 DEF Inside
    <3> QED
      BY <1>2, <1>3, <1>4, <3>1
  <2>2. CASE ~struct.union /\ p.offset + p.load <= lay.offset
    <3>1. lay.offset <= done.size
      BY <1>2, <2>2
    <3> QED
      BY <1>2, <1>3, <1>4, <2>2, <3>1
  <2>3. CASE ~struct.union /\ p.load \in Alignments /\ p.load <= lay.align /\ Multiple(p.load, p.offset)
               /\ p.offset < lay.offset
    <3>1. Capped(lay.align) = lay.align
      BY <1>11, CappedFacts DEF IInv
    <3>2. p.load <= done.align
      BY <1>2, <1>4, <1>7, <2>3, <3>1
    <3>3. Multiple(p.load, done.align) /\ p.load \in Nat \ {0} /\ done.align \in Nat \ {0}
      BY <1>2, <2>3, <3>2, Chain
    <3>4. Multiple(p.load, done.size)
      BY <1>2, <3>3, MultipleTrans
    <3>5. p.offset < done.size /\ p.offset \in Int /\ done.size \in Int
      BY <1>2, <1>3, <1>4, <2>3
    <3> QED
      BY <2>3, <3>3, <3>4, <3>5, MultipleGap
  <2> QED
    BY <1>1, <1>11, <2>1, <2>2, <2>3 DEF Inside
<1> QED
  BY <1>8, <1>9, <1>10, <1>11 DEF Covers, p

LEMMA LayoutApart == IInv => MembersApart
<1> SUFFICES ASSUME IInv PROVE MembersApart
  OBVIOUS
<1>1. DOMAIN members = 1 .. Len(members)
  BY Locals DEF IInv
<1>2. ~struct.union /\ ~LostRun =>
        \A i, j \in DOMAIN members : i < j /\ ~PutBack(j) => EndBit(members[i]) <= FirstBit(members[j])
  BY <1>1 DEF IInv, LInv, Apart
<1>3. done # NotDone /\ ~LostRun => \A i \in DOMAIN members : Covers(members[i])
  BY <1>1, DoneCovers
<1> QED
  BY <1>2, <1>3 DEF MembersApart

(* Whatever members a struct has, in whichever of the three ways they are  *)
(* laid out and under whichever pack value, no two share a bit, and the    *)
(* finished struct covers and aligns them, but for the two cases that      *)
(* MembersApart names.                                                     *)
THEOREM MembersAreApart == Spec => []MembersApart
BY LayoutInit, LayoutStep, LayoutApart, PTL DEF Spec

LEMMA LayoutTypes == IInv => TypeOK
<1> SUFFICES ASSUME IInv PROVE TypeOK
  OBVIOUS
<1>1. Len(packStack) = Len(wantStack) /\ Len(packStack) <= MaxPackDepth
  BY DEF IInv, PackTypes
<1>2. lay.offset \in Nat /\ lay.bit \in Nat /\ lay.align \in Nat \ {0}
  BY Locals, CappedFacts DEF IInv
<1>3. DOMAIN members = 1 .. Len(members)
  BY Locals DEF IInv
<1>4. \A i \in DOMAIN members : members[i].bit + members[i].mem.width <= 8 * members[i].load
  BY <1>3 DEF IInv, LInv, Sound
<1>5. done # NotDone => done.size % done.align = 0
  <2>1. SUFFICES ASSUME done # NotDone PROVE done.size % done.align = 0
    OBVIOUS
  <2>2. done.align \in Alignments /\ done.size \in Nat /\ Multiple(done.align, done.size)
    BY <2>1, DoneFacts
  <2>3. done.align \in Nat \ {0} /\ done.size \in Int
    BY <2>2, CappedFacts DEF IInv
  <2> QED
    BY <2>2, <2>3, MultipleMod
<1> QED
  BY <1>1, <1>2, <1>4, <1>5 DEF TypeOK

(* The stacks keep the same height, a bit-field's bits lie in the unit     *)
(* loaded for it, and a finished struct's size is a multiple of its        *)
(* alignment.                                                              *)
THEOREM LayoutTypeCorrect == Spec => []TypeOK
BY LayoutInit, LayoutStep, LayoutTypes, PTL DEF Spec
-----------------------------------------------------------------------------
(* The System V layout: GCC's, unpacked.                                   *)

(* Induction on the natural numbers, for a set.                            *)
Less == {ss \in Nat \X Nat : ss[1] < ss[2]}

LEMMA NatSetInduction ==
  ASSUME NEW S, 0 \in S, \A n \in Nat : n \in S => n + 1 \in S
  PROVE  Nat \subseteq S
<1>1. IsWellFoundedOn(Less, Nat)
  <2>1. Less = OpToRel(<, Nat)
    BY DEF Less, OpToRel
  <2> QED
    BY <2>1, NatLessThanWellFounded
<1>2. SUFFICES ASSUME Nat \ S # {} PROVE FALSE
  OBVIOUS
<1>3. Nat \ S \subseteq Nat
  OBVIOUS
<1>4. PICK x \in Nat \ S : \A y \in Nat \ S : ~(<<y, x>> \in Less)
  BY <1>1, <1>2, <1>3, WFMin
<1>5. x # 0
  OBVIOUS
<1>6. x - 1 \in Nat /\ <<x - 1, x>> \in Less
  BY <1>5 DEF Less
<1>7. x - 1 \in S
  BY <1>4, <1>6
<1> QED
  BY <1>6, <1>7

(* A bit-field fits at b if it does not cross the end of b's unit.         *)
LEMMA FitsFacts ==
  ASSUME NEW m \in MemberChoices, m.sort \in {"bits", "pad"}, m.width > 0, NEW b \in Nat
  PROVE  Fits(m, b) <=> (b % (8 * m.size)) + m.width <= 8 * m.size
<1>1. m.size \in {1, 2, 4, 8} /\ m.width \in Nat /\ m.width <= 8 * m.size
  BY MemberFacts
<1>2. PICK w \in Nat : w = m.width
  BY <1>1
<1>3. CASE m.size = 1
  <2>1. (b \div 8 = (b + w - 1) \div 8) <=> (b % 8) + w <= 8
    BY <1>1, <1>2, <1>3
  <2> QED
    BY <1>2, <1>3, <2>1 DEF Fits
<1>4. CASE m.size = 2
  <2>1. (b \div 16 = (b + w - 1) \div 16) <=> (b % 16) + w <= 16
    BY <1>1, <1>2, <1>4
  <2>2. 8 * m.size = 16
    BY <1>4
  <2> QED
    BY <1>2, <2>1, <2>2 DEF Fits
<1>5. CASE m.size = 4
  <2>1. (b \div 32 = (b + w - 1) \div 32) <=> (b % 32) + w <= 32
    BY <1>1, <1>2, <1>5
  <2>2. 8 * m.size = 32
    BY <1>5
  <2> QED
    BY <1>2, <2>1, <2>2 DEF Fits
<1>6. CASE m.size = 8
  <2>1. (b \div 64 = (b + w - 1) \div 64) <=> (b % 64) + w <= 64
    BY <1>1, <1>2, <1>6
  <2>2. 8 * m.size = 64
    BY <1>6
  <2> QED
    BY <1>2, <2>1, <2>2 DEF Fits
<1> QED
  BY <1>1, <1>3, <1>4, <1>5, <1>6

(* GCC's unit is where the bit-field first fits.                           *)
LEMMA FirstFit ==
  ASSUME NEW m \in MemberChoices, m.sort \in {"bits", "pad"}, m.width > 0, lay.bit \in Nat
  PROVE  8 * GccUnit(m).base + GccUnit(m).bit + m.width = AbiNext(lay.bit, m)
<1> DEFINE M == 8 * m.size
<1> DEFINE unit == (lay.bit \div (8 * m.size)) * m.size
<1> DEFINE B == 8 * GccUnit(m).base + GccUnit(m).bit
<1> DEFINE First(b) == Fits(m, b) /\ \A c \in lay.bit .. b - 1 : ~Fits(m, c)
<1>1. m.size \in {1, 2, 4, 8} /\ m.width \in Nat /\ m.width <= M
  BY MemberFacts
<1>2. unit \in Nat /\ 8 * unit <= lay.bit /\ lay.bit < 8 * unit + M /\ lay.bit % M = lay.bit - 8 * unit
  BY <1>1, UnitFacts
<1>3. GccUnit(m) = IF lay.bit - 8 * unit + m.width > M THEN [base |-> unit + m.size, bit |-> 0]
                   ELSE [base |-> unit, bit |-> lay.bit - 8 * unit]
  BY DEF GccUnit
<1>4. \A c \in Nat : 8 * unit <= c /\ c < 8 * unit + M => c % M = c - 8 * unit
  <2>1. PICK q \in Nat : unit = q * m.size
    BY <1>1, UnitFacts
  <2> HIDE DEF unit
  <2>2. CASE m.size = 1
    BY <1>2, <2>1, <2>2
  <2>3. CASE m.size = 2
    BY <1>2, <2>1, <2>3
  <2>4. CASE m.size = 4
    BY <1>2, <2>1, <2>4
  <2>5. CASE m.size = 8
    BY <1>2, <2>1, <2>5
  <2> QED
    BY <1>1, <2>2, <2>3, <2>4, <2>5
<1>5. (8 * unit + M) % M = 0
  <2>1. PICK q \in Nat : unit = q * m.size
    BY <1>1, UnitFacts
  <2> HIDE DEF unit
  <2>2. 8 * unit + M = M * (q + 1) /\ q + 1 \in Int /\ M \in Nat \ {0} /\ 8 * unit + M \in Int
    BY <1>1, <1>2, <2>1
  <2>3. Multiple(M, 8 * unit + M)
    BY <2>2 DEF Multiple
  <2> QED
    BY <2>2, <2>3, MultipleMod
<1>6. \A c \in Nat : Fits(m, c) <=> (c % M) + m.width <= M
  BY FitsFacts
<1> HIDE DEF unit
<1>7. B \in lay.bit .. lay.bit + M /\ First(B)
  <2>1. CASE lay.bit - 8 * unit + m.width > M
    <3>1. B = 8 * unit + M
      <4>1. GccUnit(m).base = unit + m.size /\ GccUnit(m).bit = 0
        BY <1>3, <2>1
      <4> QED
        BY <1>1, <1>2, <4>1
    <3>2. B \in Nat /\ B \in lay.bit .. lay.bit + M
      BY <1>1, <1>2, <3>1
    <3>3. Fits(m, B)
      BY <1>1, <1>5, <1>6, <3>1, <3>2
    <3>4. ASSUME NEW c \in lay.bit .. B - 1 PROVE ~Fits(m, c)
      <4>1. c \in Nat /\ 8 * unit <= c /\ c < 8 * unit + M /\ lay.bit <= c
        BY <1>1, <1>2, <3>1, <3>2
      <4>2. c % M = c - 8 * unit
        BY <1>4, <4>1
      <4>3. ~(c - 8 * unit + m.width <= M)
        BY <1>1, <1>2, <2>1, <4>1
      <4> QED
        BY <1>6, <4>1, <4>2, <4>3
    <3> QED
      BY <3>2, <3>3, <3>4
  <2>2. CASE ~(lay.bit - 8 * unit + m.width > M)
    <3>1. B = lay.bit
      <4>1. GccUnit(m).base = unit /\ GccUnit(m).bit = lay.bit - 8 * unit
        BY <1>3, <2>2
      <4> QED
        BY <1>1, <1>2, <4>1
    <3>2. (lay.bit % M) + m.width <= M
      BY <1>1, <1>2, <2>2
    <3>3. Fits(m, B)
      BY <1>6, <3>1, <3>2
    <3>4. B \in lay.bit .. lay.bit + M /\ lay.bit .. B - 1 = {}
      BY <1>1, <3>1
    <3> QED
      BY <3>3, <3>4
  <2> QED
    BY <2>1, <2>2
<1> HIDE DEF B
<1>8. \A b \in lay.bit .. lay.bit + M : First(b) => b = B
  <2>1. SUFFICES ASSUME NEW b \in lay.bit .. lay.bit + M, First(b) PROVE b = B
    OBVIOUS
  <2>2. ~(b < B)
    BY <1>7, <2>1
  <2>3. ~(B < b)
    BY <1>7, <2>1
  <2> QED
    BY <1>1, <1>7, <2>2, <2>3
<1>9. (CHOOSE b \in lay.bit .. lay.bit + M : First(b)) = B
  BY <1>7, <1>8
<1>10. AbiNext(lay.bit, m) = m.width + CHOOSE b \in lay.bit .. lay.bit + M : First(b)
  <2>1. m.sort \notin {"field", "anon"} /\ m.width # 0
    BY <1>1
  <2> QED
    BY <2>1 DEF AbiNext
<1>11. B \in Nat
  BY <1>1, <1>7
<1> QED
  <2>1. B + m.width = m.width + B
    BY <1>1, <1>11
  <2>2. B + m.width = AbiNext(lay.bit, m)
    BY <1>9, <1>10, <2>1
  <2> QED
    BY <2>2 DEF B
(* One declaration: the locals follow AbiNext.                             *)
AbiAdds(m) == lay'.bit = AbiNext(lay.bit, m) /\ lay'.offset = BytesOf(lay'.bit)
AbiMember(m) == \E r \in MemberRec : r.mem = m /\ members' = Append(members, r) /\ EndBit(r) = lay'.bit

LEMMA AbiField ==
  ASSUME NEW m, Adding(m), AddField(m), Gcc, ~Packed, lay.offset = BytesOf(lay.bit)
  PROVE  AbiAdds(m) /\ AbiMember(m)
<1> DEFINE offset == AlignTo(lay.offset, m.align)
<1> DEFINE r == [mem |-> m, offset |-> offset, bit |-> 0, load |-> m.size]
<1>1. m \in MemberChoices /\ m.size \in Nat /\ m.width = 0 /\ m.align \in Alignments /\ m.sort \in {"field", "anon"}
  BY MemberFacts DEF Adding, AddField
<1>2. lay \in LayType /\ lay.offset \in Nat /\ lay.bit \in Nat
  BY Locals DEF Adding
<1>3. Capped(m.align) = m.align /\ m.align \in Nat \ {0}
  BY <1>1, CappedFacts DEF Adding
<1>4. offset \in Nat
  BY <1>2, <1>3, AlignToNat
<1>5. members' = Append(members, r) /\ lay'.offset = offset + m.size /\ lay'.bit = 8 * (offset + m.size)
  BY <1>2, <1>3, ZenonT(20) DEF AddField, Placed, Gcc, LayType
<1>6. 8 * offset = AlignTo(lay.bit, 8 * m.align)
  BY <1>2, <1>3, AlignToBits
<1>7. AbiNext(lay.bit, m) = AlignTo(lay.bit, 8 * m.align) + 8 * m.size
  BY <1>1 DEF AbiNext
<1> HIDE DEF offset
<1>8. lay'.bit = AbiNext(lay.bit, m)
  <2>1. AbiNext(lay.bit, m) = 8 * offset + 8 * m.size
    BY <1>6, <1>7
  <2>2. 8 * (offset + m.size) = 8 * offset + 8 * m.size
    BY <1>1, <1>4
  <2> QED
    BY <1>5, <2>1, <2>2
<1>9. offset + m.size = BytesOf(8 * (offset + m.size))
  <2>1. \A n \in Nat : BytesOf(8 * n) = n
    BY DEF BytesOf
  <2>2. offset + m.size \in Nat
    BY <1>1, <1>4
  <2> QED
    BY <2>1, <2>2
<1>10. r \in MemberRec /\ EndBit(r) = 8 * (offset + m.size)
  BY <1>1, <1>4 DEF MemberRec, EndBit, FirstBit
<1> QED
  BY <1>5, <1>8, <1>9, <1>10 DEF AbiAdds, AbiMember

LEMMA MostBytes ==
  ASSUME NEW a \in Nat, NEW b \in Nat, a <= b
  PROVE  Most(BytesOf(a), BytesOf(b)) = BytesOf(b)
<1>1. BytesOf(a) \in Nat /\ BytesOf(b) \in Nat /\ BytesOf(a) <= BytesOf(b)
  BY DEF BytesOf
<1> QED
  BY <1>1 DEF Most

LEMMA AbiBits ==
  ASSUME NEW m, Adding(m), AddBitsGcc(m), ~(m.align > m.size), lay.offset = BytesOf(lay.bit)
  PROVE  AbiAdds(m) /\ AbiMember(m)
<1> DEFINE u == GccUnit(m)
<1> DEFINE end == 8 * u.base + u.bit + m.width
<1> DEFINE r == [mem |-> m, offset |-> u.base, bit |-> u.bit, load |-> m.size]
<1>1. m \in MemberChoices /\ m.sort = "bits" /\ m.size \in Nat /\ m.width \in Nat /\ m.width > 0
  BY MemberFacts DEF Adding, AddBitsGcc
<1>2. lay \in LayType /\ lay.offset \in Nat /\ lay.bit \in Nat
  BY Locals DEF Adding
<1>3. u.base \in Nat /\ u.bit \in Nat /\ lay.bit <= 8 * u.base + u.bit
  BY <1>1, <1>2, GccUnitFacts
<1>4. end = AbiNext(lay.bit, m)
  BY <1>1, <1>2, FirstFit
<1>5. members' = Append(members, r) /\ lay'.offset = Most(lay.offset, BytesOf(end)) /\ lay'.bit = end
  BY <1>2 DEF AddBitsGcc, Placed, LayType
<1> HIDE DEF u
<1>6. end \in Nat /\ lay.bit <= end
  BY <1>1, <1>2, <1>3
<1>7. r \in MemberRec /\ EndBit(r) = end
  BY <1>1, <1>3 DEF MemberRec, EndBit, FirstBit
<1> HIDE DEF end
<1>8. lay'.offset = BytesOf(end)
  BY <1>2, <1>5, <1>6, MostBytes
<1> QED
  BY <1>4, <1>5, <1>7, <1>8 DEF AbiAdds, AbiMember

LEMMA AbiPad ==
  ASSUME NEW m, Adding(m), AddPadGcc(m), ~Packed, lay.offset = BytesOf(lay.bit)
  PROVE  AbiAdds(m)
<1> DEFINE u == GccUnit(m)
<1> DEFINE end == 8 * u.base + u.bit + m.width
<1> DEFINE unit == (lay.bit \div (8 * m.size)) * m.size
<1> DEFINE next == IF lay.bit % (8 * m.size) # 0 THEN unit + m.size ELSE unit
<1>1. m \in MemberChoices /\ m.sort = "pad" /\ m.size \in {1, 2, 4, 8} /\ m.size \in Nat /\ m.width \in Nat
  BY MemberFacts DEF Adding, AddPadGcc
<1>2. lay \in LayType /\ lay.offset \in Nat /\ lay.bit \in Nat
  BY Locals DEF Adding
<1>3. CASE m.width = 0
  <2>1. lay'.offset = Most(lay.offset, next) /\ lay'.bit = 8 * next
    BY <1>2, <1>3 DEF AddPadGcc, LayType
  <2>2. AbiNext(lay.bit, m) = AlignTo(lay.bit, 8 * m.size)
    BY <1>1, <1>3 DEF AbiNext
  <2>3. unit \in Nat /\ 8 * unit <= lay.bit /\ lay.bit < 8 * unit + 8 * m.size /\ lay.bit % (8 * m.size) = lay.bit - 8 * unit
          /\ Multiple(m.size, unit) /\ Multiple(m.size, unit + m.size)
    BY <1>1, <1>2, UnitFacts
  <2> HIDE DEF unit
  <2>4. next \in Nat /\ lay.bit <= 8 * next /\ 8 * next < lay.bit + 8 * m.size /\ Multiple(m.size, next)
    BY <1>1, <1>2, <2>3
  <2> HIDE DEF next
  <2>5. Multiple(8 * m.size, 8 * next)
    <3>1. PICK q \in Int : next = m.size * q
      BY <2>4 DEF Multiple
    <3>2. 8 * next = (8 * m.size) * q
      BY <1>1, <3>1
    <3> QED
      BY <3>2 DEF Multiple
  <2>6. 8 * m.size \in Nat \ {0} /\ 8 * next \in Int /\ lay.bit \in Int
    BY <1>1, <1>2, <2>4
  <2>7. 8 * next = AlignTo(lay.bit, 8 * m.size)
    BY <2>4, <2>5, <2>6, AlignToUnique
  <2>8. 8 * next \in Nat /\ BytesOf(8 * next) = next
    BY <2>4 DEF BytesOf
  <2>9. lay'.offset = BytesOf(8 * next)
    BY <1>2, <2>1, <2>4, <2>8, MostBytes
  <2> QED
    BY <2>1, <2>2, <2>7, <2>9 DEF AbiAdds
<1>4. CASE m.width > 0
  <2>1. lay'.offset = Most(lay.offset, BytesOf(end)) /\ lay'.bit = end
    BY <1>1, <1>2, <1>4 DEF AddPadGcc, LayType
  <2>2. u.base \in Nat /\ u.bit \in Nat /\ lay.bit <= 8 * u.base + u.bit
    BY <1>1, <1>2, GccUnitFacts
  <2>3. end = AbiNext(lay.bit, m)
    BY <1>1, <1>2, <1>4, FirstFit
  <2> HIDE DEF u
  <2>4. end \in Nat /\ lay.bit <= end
    BY <1>1, <1>2, <2>2
  <2> HIDE DEF end
  <2>5. lay'.offset = BytesOf(end)
    BY <1>2, <2>1, <2>4, MostBytes
  <2> QED
    BY <2>1, <2>3, <2>5 DEF AbiAdds
<1> QED
  BY <1>1, <1>3, <1>4
(* What the bits declared so far add up to, declaration by declaration.    *)
History(f) ==
  /\ f[0] = 0 /\ f[Len(decls)] = lay.bit
  /\ \A n \in 1 .. Len(decls) : f[n] = AbiNext(f[n - 1], decls[n])

AbiCursor ==
  Gcc /\ ~Packed /\ ~PutBack(Len(members)) =>
    /\ lay.offset = BytesOf(lay.bit)
    /\ \E f \in [0 .. Len(decls) -> Nat] : History(f)
    /\ decls # <<>> /\ decls[Len(decls)].sort # "pad" =>
         members # <<>> /\ EndBit(members[Len(members)]) = lay.bit

LEMMA AbiNothing == Nothing => AbiCursor
<1> SUFFICES ASSUME Nothing PROVE AbiCursor
  OBVIOUS
<1>1. lay.offset = 0 /\ lay.bit = 0 /\ Len(decls) = 0 /\ decls = <<>>
  BY DEF Nothing, Fresh
<1>2. BytesOf(0) = 0
  BY DEF BytesOf
<1> DEFINE f == [n \in 0 .. Len(decls) |-> 0]
<1>3. f \in [0 .. Len(decls) -> Nat]
  OBVIOUS
<1>4. 0 \in 0 .. Len(decls) /\ 1 .. Len(decls) = {}
  BY <1>1
<1>5. History(f)
  BY <1>1, <1>4 DEF History
<1> QED
  BY <1>1, <1>2, <1>3, <1>5 DEF AbiCursor

LEMMA AbiNothingNext == Nothing' => AbiCursor'
BY AbiNothing, PTL

LEMMA HistoryGrows ==
  ASSUME NEW m, Adding(m), AbiAdds(m), lay'.bit \in Nat, NEW f \in [0 .. Len(decls) -> Nat], History(f)
  PROVE  (\E g \in [0 .. Len(decls) -> Nat] : History(g))'
<1>1. PICK n \in Nat : n = Len(decls)
  BY Locals DEF Adding
<1>2. Len(decls') = n + 1 /\ decls'[n + 1] = m /\ \A i \in 1 .. n : decls'[i] = decls[i]
  BY <1>1, Locals, Appended DEF Adding
<1>3. PICK b \in Nat : b = lay'.bit
  OBVIOUS
<1>4. \A i \in 0 .. n : f[i] \in Nat /\ i \in 0 .. n + 1 /\ i # n + 1
  BY <1>1
<1>5. \A i \in 0 .. n + 1 : i = n + 1 \/ i \in 0 .. n
  OBVIOUS
<1>6. PICK g \in [0 .. n + 1 -> Nat] : g[n + 1] = b /\ \A i \in 0 .. n : g[i] = f[i]
  <2> DEFINE h == [i \in 0 .. n + 1 |-> IF i = n + 1 THEN b ELSE f[i]]
  <2>1. n + 1 \in 0 .. n + 1
    OBVIOUS
  <2>2. h \in [0 .. n + 1 -> Nat]
    BY <1>4, <1>5
  <2>3. h[n + 1] = b /\ \A i \in 0 .. n : h[i] = f[i]
    BY <1>4, <2>1
  <2> HIDE DEF h
  <2> QED
    BY <2>2, <2>3
<1>7. g[0] = 0
  BY <1>6 DEF History
<1>8. ASSUME NEW i \in 1 .. n + 1 PROVE g[i] = AbiNext(g[i - 1], decls'[i])
  <2>1. CASE i = n + 1
    <3>1. i - 1 = n /\ n \in 0 .. n
      BY <2>1
    <3>2. g[i - 1] = lay.bit
      BY <1>1, <1>6, <3>1 DEF History
    <3> QED
      BY <1>2, <1>3, <1>6, <2>1, <3>2 DEF AbiAdds
  <2>2. CASE i \in 1 .. n
    <3>1. i \in 0 .. n /\ i - 1 \in 0 .. n
      BY <2>2
    <3>2. f[i] = AbiNext(f[i - 1], decls[i])
      BY <1>1, <2>2 DEF History
    <3> QED
      BY <1>2, <1>6, <2>2, <3>1, <3>2
  <2> QED
    BY <2>1, <2>2
<1>9. History(g)'
  BY <1>2, <1>3, <1>6, <1>7, <1>8 DEF History, AbiNext, Fits, AlignTo
<1> QED
  BY <1>2, <1>6, <1>9

LEMMA AbiMemberStep ==
  ASSUME IInv, AbiCursor, NEW m \in MemberChoices, AddMember(m) PROVE AbiCursor'
<1>1. Adding(m)
  BY DEF IInv, LInv, Types, AddMember, Adding, pragmas
<1>2. SUFFICES ASSUME Gcc, ~Packed, ~PutBack(Len(members))' PROVE AbiCursor'
  BY <1>1, SameStruct DEF AbiCursor, Adding
<1>3. Gcc /\ ~Packed /\ UNCHANGED <<parserPack, struct>> /\ members \in Seq(MemberRec) /\ decls \in Seq(MemberChoices)
  BY <1>1, <1>2, Locals DEF Adding
<1>4. lay'.bit \in Nat
  BY AddMemberStep DEF LInv, Types, LayType
<1>5. PICK n \in Nat : n = Len(members)
  BY <1>3
<1>6. ASSUME NEW r \in MemberRec, members' = Append(members, r)
      PROVE  ~PutBack(Len(members)) /\ ~Odd(r) /\ members' # <<>> /\ members'[Len(members')] = r
  <2>1. Len(members') = n + 1 /\ members'[n + 1] = r
    BY <1>3, <1>5, <1>6, Appended
  <2>2. ~PutBack(n + 1)'
    BY <1>2, <2>1 DEF PutBack
  <2>3. ~PutBack(n) /\ ~(~Packed /\ Odd(r))
    BY <1>3, <1>5, <1>6, <2>2, PutBackGrows
  <2>4. members' # <<>>
    BY <2>1
  <2> QED
    BY <1>3, <1>5, <2>1, <2>3, <2>4
<1>7. ASSUME members' = members PROVE ~PutBack(Len(members))
  BY <1>2, <1>3, <1>7, SameStruct DEF PutBack
<1>8. ASSUME ~PutBack(Len(members)) PROVE lay.offset = BytesOf(lay.bit)
  BY <1>3, <1>8 DEF AbiCursor
<1>9. m.sort \in {"field", "anon", "bits", "pad"}
  BY MemberFacts
<1>10. ~PutBack(Len(members)) /\ AbiAdds(m) /\ (m.sort # "pad" => AbiMember(m))
  <2>1. CASE AddField(m)
    <3>1. PICK r \in MemberRec : members' = Append(members, r)
      <4>1. ~struct.union
        BY <1>3 DEF Gcc
      <4>2. lay.offset \in Nat /\ Capped(m.align) \in Nat \ {0} /\ m.size \in Nat
        BY <1>1, MemberFacts, Locals, CappedFacts DEF Adding
      <4>3. AlignTo(lay.offset, Capped(m.align)) \in Nat
        BY <4>2, AlignToNat
      <4> QED
        BY <2>1, <4>1, <4>2, <4>3 DEF AddField, Placed, MemberRec
    <3> QED
      BY <1>1, <1>3, <1>6, <1>8, <2>1, <3>1, AbiField
  <2>2. CASE AddBitsGcc(m)
    <3> DEFINE u == GccUnit(m)
    <3> DEFINE base == IF m.align > m.size THEN AlignTo(u.base, m.align) ELSE u.base
    <3> DEFINE bit == IF m.align > m.size THEN 0 ELSE u.bit
    <3> DEFINE r == [mem |-> m, offset |-> base, bit |-> bit, load |-> m.size]
    <3>1. m.sort = "bits" /\ lay.bit \in Nat /\ m.align \in Nat \ {0} /\ m.size \in Nat
      BY <1>1, <2>2, MemberFacts, Locals, CappedFacts DEF Adding, AddBitsGcc
    <3>2. u.base \in Nat /\ u.bit \in Nat
      BY <3>1, GccUnitFacts
    <3>3. members' = Append(members, r)
      BY <2>2 DEF AddBitsGcc, Placed
    <3> HIDE DEF u
    <3>4. base \in Nat /\ bit \in Nat
      BY <3>1, <3>2, AlignToNat
    <3> HIDE DEF base, bit
    <3>5. r \in MemberRec /\ r.mem = m
      BY <3>1, <3>4 DEF MemberRec
    <3>6. ~PutBack(Len(members)) /\ ~Odd(r)
      BY <1>6, <3>3, <3>5
    <3>7. ~(m.align > m.size)
      BY <3>1, <3>5, <3>6 DEF Odd
    <3> QED
      BY <1>1, <1>8, <2>2, <3>6, <3>7, AbiBits
  <2>3. CASE AddPadGcc(m)
    <3>1. members' = members /\ m.sort = "pad"
      BY <2>3 DEF AddPadGcc
    <3> QED
      BY <1>1, <1>3, <1>7, <1>8, <2>3, <3>1, AbiPad
  <2> QED
    BY <1>3, <2>1, <2>2, <2>3 DEF AddMember, Gcc, AddBitsMs, AddPadMs, AddBitsPacked, AddBitsUnion
<1>11. PICK f \in [0 .. Len(decls) -> Nat] : History(f)
  BY <1>3, <1>10 DEF AbiCursor
<1>12. (\E g \in [0 .. Len(decls) -> Nat] : History(g))'
  BY <1>1, <1>4, <1>10, <1>11, HistoryGrows
<1>13. decls'[Len(decls')] = m
  BY <1>1, <1>3 DEF Adding
<1>14. m.sort # "pad" => members' # <<>> /\ EndBit(members'[Len(members')]) = lay'.bit
  BY <1>6, <1>10 DEF AbiMember
<1> QED
  BY <1>10, <1>12, <1>13, <1>14 DEF AbiCursor, AbiAdds, BytesOf, EndBit, FirstBit

LEMMA AbiStep ==
  ASSUME IInv, AbiCursor, [Next]_vars PROVE AbiCursor'
<1>1. struct \in StructChoices \union {None}
        /\ (struct = None => lay = Fresh /\ members = <<>> /\ decls = <<>> /\ done = NotDone)
  BY DEF IInv, LInv, Types
<1>2. ASSUME UNCHANGED <<parserPack, struct, lay, members, decls>> PROVE AbiCursor'
  <2>1. \A n : PutBack(n)' <=> PutBack(n)
    BY <1>2, SameStruct DEF PutBack
  <2>2. \A f : History(f)' <=> History(f)
    BY <1>2 DEF History, AbiNext, Fits, AlignTo
  <2> QED
    BY <1>2, <2>1, <2>2, SameStruct DEF AbiCursor
<1>3. Nothing' \/ UNCHANGED <<parserPack, struct, lay, members, decls>> \/ \E m \in MemberChoices : AddMember(m)
  <2>1. ASSUME NEW n, PackPush(n) \/ PackPop \/ PackSet(n) \/ PackReset PROVE Nothing'
    BY <1>1, <2>1 DEF PackPush, PackPop, PackSet, PackReset, Pragma, Nothing
  <2>2. ASSUME NEW s \in StructChoices, BeginStruct(s) PROVE Nothing'
    BY <1>1, <2>2 DEF BeginStruct, Nothing
  <2>3. ASSUME Parsed PROVE Nothing'
    BY <2>3 DEF Parsed, Nothing
  <2>4. ASSUME EndStruct \/ UNCHANGED vars PROVE UNCHANGED <<parserPack, struct, lay, members, decls>>
    BY <2>4 DEF EndStruct, vars, pragmas
  <2> QED
    BY <2>1, <2>2, <2>3, <2>4 DEF Next
<1> QED
  BY <1>2, <1>3, AbiNothingNext, AbiMemberStep

(* AbiEnd is the only history.                                             *)
LEMMA AbiEndIs ==
  ASSUME decls \in Seq(MemberChoices), NEW f \in [0 .. Len(decls) -> Nat], History(f)
  PROVE  AbiEnd[Len(decls)] = lay.bit
<1>1. PICK N \in Nat : N = Len(decls)
  OBVIOUS
<1> DEFINE Body(g) == [n \in 0 .. N |-> IF n = 0 THEN 0 ELSE AbiNext(g[n - 1], decls[n])]
<1>2. f = Body(f)
  <2>1. \A n \in 0 .. N : n = 0 \/ n \in 1 .. N
    OBVIOUS
  <2>2. \A n \in 0 .. N : f[n] = IF n = 0 THEN 0 ELSE AbiNext(f[n - 1], decls[n])
    BY <1>1, <2>1 DEF History
  <2> QED
    BY <1>1, <2>2
<1>3. AbiEnd = CHOOSE g : g = Body(g)
  BY <1>1 DEF AbiEnd
<1>4. AbiEnd = Body(AbiEnd)
  BY <1>2, <1>3
<1> DEFINE S == {n \in Nat : n <= N => AbiEnd[n] = f[n]}
<1>5. 0 \in S
  <2>1. 0 \in 0 .. N
    OBVIOUS
  <2>2. AbiEnd[0] = 0 /\ f[0] = 0
    BY <1>2, <1>4, <2>1
  <2> QED
    BY <2>2
<1>6. ASSUME NEW n \in Nat, n \in S PROVE n + 1 \in S
  <2>1. SUFFICES ASSUME n + 1 <= N PROVE AbiEnd[n + 1] = f[n + 1]
    OBVIOUS
  <2>2. n + 1 \in 0 .. N /\ n + 1 # 0 /\ n + 1 - 1 = n /\ n <= N
    BY <2>1
  <2>3. AbiEnd[n] = f[n]
    BY <1>6, <2>2
  <2>4. AbiEnd[n + 1] = AbiNext(AbiEnd[n], decls[n + 1])
    BY <1>4, <2>2
  <2>5. f[n + 1] = AbiNext(f[n], decls[n + 1])
    BY <1>2, <2>2
  <2> QED
    BY <2>3, <2>4, <2>5
<1> HIDE DEF S
<1>7. Nat \subseteq S
  BY <1>5, <1>6, NatSetInduction
<1>8. AbiEnd[N] = f[N]
  BY <1>7 DEF S
<1> QED
  BY <1>1, <1>8 DEF History

LEMMA AbiAgrees == IInv /\ AbiCursor => MatchesAbi
<1> SUFFICES ASSUME IInv, AbiCursor, Gcc, ~Packed, ~PutBack(Len(members)), decls # <<>>
             PROVE  /\ lay.bit = AbiEnd[Len(decls)]
                    /\ Last(decls).sort # "pad" => EndBit(Last(members)) = lay.bit
  BY DEF MatchesAbi, Gcc
<1>1. PICK f \in [0 .. Len(decls) -> Nat] : History(f)
  BY DEF AbiCursor
<1>2. lay.bit = AbiEnd[Len(decls)]
  BY <1>1, AbiEndIs, Locals DEF IInv
<1>3. Last(decls).sort # "pad" => EndBit(Last(members)) = lay.bit
  BY DEF AbiCursor, Last
<1> QED
  BY <1>2, <1>3

(* Every unpacked struct, of any members, has the layout of the System V   *)
(* ABI, but for the bit-fields with an alignment of their own.             *)
THEOREM LayoutMatchesAbi == Spec => []MatchesAbi
<1>1. Init => AbiCursor
  BY AbiNothing DEF Init, Nothing
<1>2. IInv /\ AbiCursor /\ [Next]_vars => IInv' /\ AbiCursor'
  BY LayoutStep, AbiStep
<1> QED
  BY <1>1, <1>2, LayoutInit, AbiAgrees, PTL DEF Spec
=============================================================================
