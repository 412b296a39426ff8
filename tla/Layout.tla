------------------------------- MODULE Layout -------------------------------
(***************************************************************************)
(* struct_or_union_specifier(): the offsets, bit offsets, size and         *)
(* alignment of a struct or union, member by member, in the three ways the *)
(* compiler lays out bit-fields (GCC's, packed, Microsoft's), under the    *)
(* #pragma pack directives before it.  The preprocessor keeps a stack of   *)
(* pack values and tells the parser about them in the text it produces.    *)
(*                                                                         *)
(* A member is a record [sort, size, align, width]: sort "field" (also an  *)
(* anonymous struct, "anon"), "bits" (a named bit-field of a type of that  *)
(* size and alignment) or "pad" (an unnamed one).                          *)
(***************************************************************************)
EXTENDS Integers, SequencesExt

CONSTANTS
  MemberChoices,  \* the members a struct may have
  StructChoices,  \* [union, mode, packed, align]: the kinds of structs
  PackValues,     \* arguments of #pragma pack
  MaxPackDepth,   \* entries of pack_align_stack[]
  MaxSteps        \* bound: pragmas and members together

ASSUME MembersAssumption ==
  \A m \in MemberChoices :
    /\ m.sort \in {"field", "anon", "bits", "pad"} /\ m.size \in Nat /\ m.align \in Nat \ {0}
    /\ m.sort \in {"field", "anon"} => m.width = 0
    /\ m.sort \in {"bits", "pad"} => m.size \in {1, 2, 4, 8} /\ m.width \in 0 .. 8 * m.size
    /\ m.sort = "bits" => m.width > 0
ASSUME StructsAssumption ==
  StructChoices \subseteq [union : BOOLEAN, mode : {"gcc", "ms"}, packed : BOOLEAN, align : Nat]
ASSUME PackAssumption == PackValues \subseteq Nat \ {0} /\ MaxPackDepth \in Nat /\ MaxSteps \in Nat

VARIABLES
  pack,           \* pack_align in the preprocessor
  packStack,      \* pack_align_stack[]
  parserPack,     \* pack_align in the parser
  want, wantStack,\* what the directives ask for
  last,           \* the last directive
  struct,         \* the struct being defined, or None
  lay,            \* the locals of struct_or_union_specifier()
  members,        \* the members so far: [mem, offset, bit, load]
  decls,          \* everything declared in it so far
  done,           \* the struct is complete: its size and alignment
  steps

pragmas == <<pack, packStack, parserPack, want, wantStack, last>>
vars == <<pragmas, struct, lay, members, decls, done, steps>>

None == [union |-> FALSE, mode |-> "none", packed |-> FALSE, align |-> 0]
NotDone == [size |-> -1, align |-> -1]
Least(a, b) == IF a < b THEN a ELSE b
Most(a, b) == IF a > b THEN a ELSE b
AlignTo(n, a) == ((n + a - 1) \div a) * a
BytesOf(bits) == (bits + 7) \div 8

Fresh == [offset |-> 0, size |-> 0, align |-> 1, bit |-> 0, base |-> 0, kind |-> 0, width |-> 0]

Init ==
  /\ pack = 0 /\ packStack = <<>> /\ parserPack = 0
  /\ want = 0 /\ wantStack = <<>> /\ last = "none"
  /\ struct = None /\ lay = Fresh /\ members = <<>> /\ decls = <<>> /\ done = NotDone
  /\ steps = 0

-----------------------------------------------------------------------------
(* #pragma pack.  The preprocessor reads one digit of the value.           *)
FirstDigit(n) == IF n >= 10 THEN n \div 10 ELSE n

(* Alignments and the sizes of integer types are powers of two, so each    *)
(* divides the larger ones.                                                *)
Alignments ==
  {1} \union {m.align : m \in MemberChoices}
    \union {m.size : m \in {k \in MemberChoices : k.sort \in {"bits", "pad"}}}
    \union {FirstDigit(n) : n \in PackValues} \union ({s.align : s \in StructChoices} \ {0})
ASSUME PowersAssumption == \A a, b \in Alignments : a <= b => b % a = 0

Pragma == struct = None /\ steps < MaxSteps /\ steps' = steps + 1

PackPush(n) ==
  /\ Pragma /\ Len(packStack) < MaxPackDepth
  /\ packStack' = Append(packStack, pack)
  /\ pack' = IF n = 0 THEN pack ELSE FirstDigit(n)
  /\ parserPack' = pack'
  /\ wantStack' = Append(wantStack, want)
  /\ want' = IF n = 0 THEN want ELSE n
  /\ last' = "push"
  /\ UNCHANGED <<struct, lay, members, decls, done>>

(* Mutant: nothing is told to the parser.                                  *)
PackPopSilent ==
  /\ Pragma /\ packStack # <<>>
  /\ pack' = Last(packStack) /\ packStack' = Front(packStack)
  /\ want' = Last(wantStack) /\ wantStack' = Front(wantStack)
  /\ last' = "pop"
  /\ UNCHANGED <<parserPack, struct, lay, members, decls, done>>

(* The parser is told to reset its value, whatever was restored here.      *)
PackPop ==
  /\ Pragma /\ packStack # <<>>
  /\ pack' = Last(packStack) /\ packStack' = Front(packStack)
  /\ parserPack' = 0
  /\ want' = Last(wantStack) /\ wantStack' = Front(wantStack)
  /\ last' = "pop"
  /\ UNCHANGED <<struct, lay, members, decls, done>>

PackSet(n) ==
  /\ Pragma
  /\ pack' = FirstDigit(n) /\ parserPack' = FirstDigit(n)
  /\ want' = n
  /\ last' = "set"
  /\ UNCHANGED <<packStack, wantStack, struct, lay, members, decls, done>>

(* #pragma pack() is dropped.                                              *)
PackReset ==
  /\ Pragma
  /\ want' = 0
  /\ last' = "reset"
  /\ UNCHANGED <<pack, packStack, parserPack, wantStack, struct, lay, members, decls, done>>

-----------------------------------------------------------------------------
BeginStruct(s) ==
  /\ struct = None
  /\ struct' = s
  /\ UNCHANGED <<pragmas, lay, members, decls, done, steps>>

StructPack == IF struct.packed /\ parserPack = 0 THEN 1 ELSE parserPack
Packed == StructPack > 0
Capped(a) == IF Packed THEN Least(a, StructPack) ELSE a
Placed(m, offset, bit, load) == Append(members, [mem |-> m, offset |-> offset, bit |-> bit, load |-> load])

(* A member that is no bit-field.  In a union an anonymous struct does not *)
(* count for the alignment.                                                *)
AddField(m) ==
  LET offset == AlignTo(lay.offset, Capped(m.align)) IN
  /\ m.sort \in {"field", "anon"}
  /\ IF struct.union
       THEN /\ lay' = [lay EXCEPT !.size = Most(@, m.size),
                                  !.align = IF m.sort = "anon" THEN @ ELSE Most(@, m.align)]
            /\ members' = Placed(m, 0, 0, m.size)
       ELSE /\ lay' = [lay EXCEPT !.offset = offset + m.size, !.bit = 8 * (offset + m.size),
                                  !.align = Most(@, Capped(m.align)),
                                  !.kind = IF m.sort = "anon" THEN @ ELSE 0,
                                  !.width = IF m.sort = "anon" THEN @ ELSE 0]
            /\ members' = Placed(m, offset, 0, m.size)

(* Microsoft's way: runs of bit-fields of one type share a unit.           *)
MsRun(m) ==
  LET newRun == lay.bit + m.width > 8 * m.size \/ ((m.width > 0) = (m.size # lay.kind))
      at == AlignTo(lay.offset, Capped(m.align)) IN
  [lay EXCEPT
     !.offset = IF ~newRun THEN @ ELSE IF m.width > 0 \/ lay.width > 0 THEN at + m.size ELSE at,
     !.base = IF newRun THEN at ELSE @,
     !.bit = (IF newRun THEN 0 ELSE @) + m.width,
     !.kind = m.size, !.width = m.width,
     !.align = IF m.width > 0 THEN Most(@, Capped(m.align)) ELSE @]

AddBitsMs(m) ==
  /\ m.sort = "bits" /\ ~struct.union /\ struct.mode = "ms"
  /\ lay' = LET l == MsRun(m) IN [l EXCEPT !.align = Most(@, m.size)]
  /\ members' = Placed(m, MsRun(m).base, MsRun(m).bit - m.width, m.size)

AddPadMs(m) ==
  /\ m.sort = "pad" /\ ~struct.union /\ struct.mode = "ms"
  /\ lay' = MsRun(m)
  /\ UNCHANGED members

(* The load that covers a packed bit-field crossing its type's size.       *)
LoadSize(size, needed) ==
  IF needed <= size THEN size
  ELSE IF needed <= 2 * size THEN 2 * size ELSE IF needed <= 4 * size THEN 4 * size ELSE 8 * size

(* Packed: at the next bit, or at the next byte (up to the pack value) if  *)
(* the member has an explicit alignment.                                   *)
AddBitsPacked(m) ==
  LET bit == IF m.align > m.size
               THEN 8 * AlignTo(BytesOf(lay.bit), Capped(m.align)) ELSE lay.bit IN
  /\ m.sort = "bits" /\ ~struct.union /\ struct.mode = "gcc" /\ Packed
  /\ lay' = [lay EXCEPT !.offset = Most(@, BytesOf(bit + m.width)), !.bit = bit + m.width,
                        !.align = Most(@, m.size)]
  /\ members' = Placed(m, bit \div 8, bit % 8, LoadSize(m.size, BytesOf((bit % 8) + m.width)))

(* Mutant: >= in place of >.                                               *)
GccUnitFull(m) ==
  LET unit == (lay.bit \div (8 * m.size)) * m.size IN
  IF lay.bit - 8 * unit + m.width >= 8 * m.size THEN [base |-> unit + m.size, bit |-> 0]
  ELSE [base |-> unit, bit |-> lay.bit - 8 * unit]

(* GCC's way: in the unit of its type that holds the next bit, or in the   *)
(* next unit if it does not fit.                                           *)
GccUnit(m) ==
  LET unit == (lay.bit \div (8 * m.size)) * m.size IN
  IF lay.bit - 8 * unit + m.width > 8 * m.size THEN [base |-> unit + m.size, bit |-> 0]
  ELSE [base |-> unit, bit |-> lay.bit - 8 * unit]

(* Mutant: offset follows the unit but not the bits in it.                 *)
AddBitsGccShort(m) ==
  LET u == GccUnit(m)
      base == IF m.align > m.size THEN AlignTo(u.base, m.align) ELSE u.base
      bit == IF m.align > m.size THEN 0 ELSE u.bit IN
  /\ m.sort = "bits" /\ ~struct.union /\ struct.mode = "gcc" /\ ~Packed
  /\ lay' = [lay EXCEPT !.offset = Most(@, base), !.bit = 8 * base + bit + m.width,
                        !.align = Most(Most(@, m.align), m.size)]
  /\ members' = Placed(m, base, bit, m.size)

AddBitsGcc(m) ==
  LET u == GccUnit(m)
      base == IF m.align > m.size THEN AlignTo(u.base, m.align) ELSE u.base
      bit == IF m.align > m.size THEN 0 ELSE u.bit
      end == 8 * base + bit + m.width IN
  /\ m.sort = "bits" /\ ~struct.union /\ struct.mode = "gcc" /\ ~Packed
  /\ lay' = [lay EXCEPT !.offset = Most(@, BytesOf(end)), !.bit = end,
                        !.align = Most(Most(@, m.align), m.size)]
  /\ members' = Placed(m, base, bit, m.size)

AddPadGcc(m) ==
  LET unit == (lay.bit \div (8 * m.size)) * m.size
      next == IF lay.bit % (8 * m.size) # 0 THEN unit + m.size ELSE unit
      u == GccUnit(m)
      end == IF Packed THEN lay.bit + m.width ELSE 8 * u.base + u.bit + m.width IN
  /\ m.sort = "pad" /\ ~struct.union /\ struct.mode = "gcc"
  /\ lay' = IF m.width = 0
              THEN [lay EXCEPT !.offset = Most(@, next), !.bit = 8 * next]
              ELSE [lay EXCEPT !.offset = Most(@, BytesOf(end)), !.bit = end]
  /\ UNCHANGED members

AddBitsUnion(m) ==
  /\ m.sort \in {"bits", "pad"} /\ struct.union
  /\ lay' = IF m.sort = "pad" THEN lay
            ELSE [lay EXCEPT !.size = Most(@, m.size), !.align = Most(@, m.size)]
  /\ members' = IF m.sort = "pad" THEN members ELSE Placed(m, 0, 0, m.size)

AddMember(m) ==
  /\ struct # None /\ done = NotDone /\ steps < MaxSteps /\ steps' = steps + 1
  /\ decls' = Append(decls, m)
  /\ \/ AddField(m) \/ AddBitsMs(m) \/ AddPadMs(m) \/ AddBitsPacked(m)
     \/ AddBitsGcc(m) \/ AddPadGcc(m) \/ AddBitsUnion(m)
  /\ UNCHANGED <<pragmas, struct, done>>

EndStruct ==
  LET align == Most(Capped(lay.align), struct.align) IN
  /\ struct # None /\ done = NotDone
  /\ done' = [size |-> AlignTo(IF struct.union THEN lay.size ELSE lay.offset, align), align |-> align]
  /\ UNCHANGED <<pragmas, struct, lay, members, decls, steps>>

(* The next struct.                                                        *)
Parsed ==
  /\ done # NotDone
  /\ struct' = None /\ lay' = Fresh /\ members' = <<>> /\ decls' = <<>> /\ done' = NotDone
  /\ UNCHANGED <<pragmas, steps>>

Next ==
  \/ \E n \in PackValues \union {0} : PackPush(n)
  \/ PackPop
  \/ \E n \in PackValues : PackSet(n)
  \/ PackReset
  \/ \E s \in StructChoices : BeginStruct(s)
  \/ \E m \in MemberChoices : AddMember(m)
  \/ EndStruct
  \/ Parsed

Spec == Init /\ [][Next]_vars

-----------------------------------------------------------------------------
(* The two stacks have the same height, and the layout never goes back.    *)
TypeOK ==
  /\ Len(packStack) = Len(wantStack) /\ Len(packStack) <= MaxPackDepth
  /\ lay.offset \in Nat /\ lay.bit \in Nat /\ lay.align \in Nat \ {0}
  /\ \A i \in DOMAIN members : members[i].bit + members[i].mem.width <= 8 * members[i].load
  /\ done # NotDone => done.size % done.align = 0

(* The bits of a member, from the start of the struct.                     *)
FirstBit(p) == 8 * p.offset + p.bit
EndBit(p) == FirstBit(p) + (IF p.mem.width > 0 THEN p.mem.width ELSE 8 * p.mem.size)

(* Members the layout handles wrongly (README, section 6): a bit-field     *)
(* with an explicit alignment, which may be put back into a unit that is   *)
(* in use, and with Microsoft's layout what follows an unnamed bit-field   *)
(* of width 0 that is not directly behind a bit-field of its type.         *)
PutBack(n) ==
  struct.mode = "gcc" /\ ~Packed
    /\ \E i \in 1 .. n : members[i].mem.sort = "bits" /\ members[i].mem.align > members[i].mem.size
LostRun ==
  struct.mode = "ms"
    /\ \E i \in DOMAIN decls : /\ decls[i].sort = "pad" /\ decls[i].width = 0
                               /\ ~(i > 1 /\ decls[i - 1].width > 0 /\ decls[i - 1].size = decls[i].size)

Covers(p) ==
  /\ EndBit(p) <= 8 * done.size
  /\ p.mem.width = 0 => p.offset % Capped(p.mem.align) = 0
  /\ p.mem.width = 0 /\ ~(struct.union /\ p.mem.sort = "anon") => done.align % Capped(p.mem.align) = 0
  /\ ~Packed => p.offset + p.load <= done.size

(* No two members of a struct share a bit, whatever mixture of fields,     *)
(* bit-fields, unnamed bit-fields and pack values it has.  The finished    *)
(* struct covers its members, each ordinary member is aligned as the pack  *)
(* value allows, also when the struct itself is (but for an anonymous      *)
(* struct in a union), and unless it is packed the unit that is loaded and *)
(* stored for a bit-field lies inside it.                                  *)
MembersApart ==
  /\ ~struct.union /\ ~LostRun =>
       \A i, j \in DOMAIN members :
         i < j /\ ~PutBack(j) => EndBit(members[i]) <= FirstBit(members[j])
  /\ done # NotDone /\ ~LostRun => \A i \in DOMAIN members : Covers(members[i])

(* The System V layout, said member by member: a field at the next         *)
(* multiple of its alignment; a bit-field, named or not, at the first bit  *)
(* from which it does not cross a unit of its type; a width of 0 ends the  *)
(* unit.                                                                   *)
Fits(m, b) == (b \div (8 * m.size)) = ((b + m.width - 1) \div (8 * m.size))
AbiNext(cur, m) ==
  IF m.sort \in {"field", "anon"} THEN AlignTo(cur, 8 * m.align) + 8 * m.size
  ELSE IF m.width = 0 THEN AlignTo(cur, 8 * m.size)
  ELSE m.width + CHOOSE b \in cur .. cur + 8 * m.size :
                   Fits(m, b) /\ \A c \in cur .. b - 1 : ~Fits(m, c)

(* The first bit after the first n declarations.                           *)
AbiEnd[n \in 0 .. Len(decls)] == IF n = 0 THEN 0 ELSE AbiNext(AbiEnd[n - 1], decls[n])

(* Unpacked structs have that layout, so that they agree with what other   *)
(* compilers make of the same header.                                      *)
MatchesAbi ==
  ~struct.union /\ struct.mode = "gcc" /\ ~Packed /\ ~PutBack(Len(members)) /\ decls # <<>> =>
    /\ lay.bit = AbiEnd[Len(decls)]
    /\ Last(decls).sort # "pad" => EndBit(Last(members)) = lay.bit

(* The parser packs as the directives say, as long as the preprocessor     *)
(* itself does (it reads one digit and drops pack()), but after a pop that *)
(* should restore a value.                                                 *)
PackAgrees ==
  pack = want => parserPack = want \/ (last = "pop" /\ want # 0)
=============================================================================
