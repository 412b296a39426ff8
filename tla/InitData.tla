------------------------------ MODULE InitData ------------------------------
(***************************************************************************)
(* Initialised objects of the struct types that Layout lays out: the       *)
(* initialiser of a global or static object, which the parser turns into   *)
(* bytes and relocations and codegen() writes out, and the one of a local  *)
(* object, which it turns into assignments.                                *)
(*                                                                         *)
(* Memory is a sequence of bits; a bit is <<v, j>>, bit j of the value v,  *)
(* and Zero when nothing was stored.  An initialiser is a sequence of      *)
(* items [des, to, val]: des "none", "dot" (.name =), "chain" (.name.to =) *)
(* or "idx" ([name ... to] =), and val a number, a string, the address of  *)
(* an object, or a braced list of items.  The parser sees its tokens.      *)
(***************************************************************************)
EXTENDS Layout

CONSTANTS
  Lists,          \* the initialiser lists of the objects
  ObjectChoices,  \* "struct", "array", "unsized", "outer"
  MaxInitMembers  \* bound: members of a struct whose objects are initialised

VARIABLES object, image

declVars == <<vars, object, image>>

Zero == <<0, 0>>
NoObject == [choice |-> "none", where |-> "none", list |-> <<>>]
NoImage == [ok |-> FALSE, type |-> <<>>, bits |-> <<>>]

-----------------------------------------------------------------------------
(* Types.  An anonymous struct has two int members; a field of two bytes   *)
(* is an array of two chars.  leaves, the number of scalars, is there for  *)
(* the definitions of what C says.                                         *)
Scalar(kind, size) == [kind |-> kind, size |-> size, leaves |-> 1, members |-> <<>>, base |-> <<>>]
Array(base, len) ==
  [kind |-> "array", size |-> len * base.size, leaves |-> len * base.leaves, members |-> <<>>, base |-> base]
Member(name, ty, offset, bit, width) ==
  [name |-> name, ty |-> ty, offset |-> offset, bit |-> bit, width |-> width]
SumLeaves(ms) == FoldLeft(LAMBDA n, m : n + m.ty.leaves, 0, ms)
Aggregate(kind, size, ms) ==
  [kind |-> kind, size |-> size, leaves |-> IF kind = "union" THEN ms[1].ty.leaves ELSE SumLeaves(ms),
   members |-> ms, base |-> <<>>]
IntType == Scalar("int", 4)
CharType == Scalar("char", 1)
InnerName(i, j) == 10 * i + j
MemberType(i, m) ==
  IF m.sort = "anon"
    THEN Aggregate("struct", 8, <<Member(InnerName(i, 1), IntType, 0, 0, 0), Member(InnerName(i, 2), IntType, 4, 0, 0)>>)
  ELSE IF m.sort = "field" /\ m.size = 2 THEN Array(CharType, 2)
  ELSE IF m.size = 1 THEN CharType ELSE Scalar("int", m.size)
StructType ==
  Aggregate(IF struct.union THEN "union" ELSE "struct", done.size,
            [i \in DOMAIN members |->
               Member(IF members[i].mem.sort = "anon" THEN 0 ELSE i, MemberType(i, members[i].mem),
                      members[i].offset, members[i].bit, members[i].mem.width)])
(* struct { char *p; S s; int c; }                                         *)
OuterType ==
  LET s == AlignTo(8, done.align)
      c == AlignTo(s + done.size, 4) IN
  Aggregate("struct", AlignTo(c + 4, Most(8, done.align)),
            <<Member(1, Scalar("ptr", 8), 0, 0, 0), Member(2, StructType, s, 0, 0), Member(3, IntType, c, 0, 0)>>)
ObjectType(choice, len) ==
  CASE choice = "struct" -> StructType [] choice = "outer" -> OuterType [] OTHER -> Array(StructType, len)

ArrayLen(ty) == IF ty.base.size = 0 THEN 0 ELSE ty.size \div ty.base.size
InRange(ty, i) == ArrayLen(ty) = 0 \/ i < ArrayLen(ty)
IsAggregate(ty) == ty.kind \in {"struct", "union"}
IsCharArray(ty) == ty.kind = "array" /\ ty.base.kind = "char"

-----------------------------------------------------------------------------
(* The tokens of an initialiser; a designator with its = is one token.     *)
Token(k, v, w) == [k |-> k, v |-> v, w |-> w]
Item(des, name, to, val) == [des |-> des, name |-> name, to |-> to, val |-> val]
Value(k, v, items) == [k |-> k, v |-> v, items |-> items]

RECURSIVE ItemTokens(_)
ListTokens(items) ==
  <<Token("{", 0, 0)>>
    \o FlattenSeq([i \in DOMAIN items |-> (IF i > 1 THEN <<Token(",", 0, 0)>> ELSE <<>>) \o ItemTokens(items[i])])
    \o <<Token("}", 0, 0)>>
ItemTokens(item) ==
  (IF item.des = "none" THEN <<>> ELSE <<Token(item.des, item.name, item.to)>>)
    \o (IF item.val.k = "list" THEN ListTokens(item.val.items) ELSE <<Token(item.val.k, item.val.v, 0)>>)
Tokens(items) == ListTokens(items) \o <<Token(";", 0, 0)>>

(* The state of the parser's functions: the next token, what is stored,    *)
(* the relocations, and whether an error has ended the compilation.        *)
Is(t, s, k) == t[s.p].k = k
Step(s) == [s EXCEPT !.p = @ + 1]
Fail(s) == [s EXCEPT !.ok = FALSE]
Skip(t, s, k) == IF s.ok /\ Is(t, s, k) THEN Step(s) ELSE Fail(s)
Assign(t, s) == IF s.ok /\ t[s.p].k \in {"num", "str", "addr"} THEN Step(s) ELSE Fail(s)
SkipComma(t, s) == IF s.ok /\ Is(t, s, ",") THEN Step(s) ELSE s
Stops(t, s) == ~s.ok \/ Is(t, s, "}")

(* width bits of v, from its bit 0, at bit b.                              *)
Store(data, b, width, v) ==
  [i \in DOMAIN data |-> IF i - 1 \in b .. b + width - 1 THEN <<v, i - 1 - b>> ELSE data[i]]
(* The first n bytes of a string of that length, and its terminator.       *)
StoreString(data, at, n, len) ==
  [i \in DOMAIN data |->
     IF i - 1 \in 8 * at .. 8 * (at + n) - 1
       THEN IF i - 1 < 8 * (at + len) THEN <<100 + (i - 1 - 8 * at) \div 8, (i - 1) % 8>> ELSE Zero
       ELSE data[i]]

(* find_member_by_name(): the member, and the members after it.  One that  *)
(* is found in an anonymous struct gets its offset in the outer struct,    *)
(* the members after it keep theirs.                                       *)
FindMember(ty, name) ==
  LET named == {i \in DOMAIN ty.members : ty.members[i].name = name}
      within == {i \in DOMAIN ty.members :
                   /\ ty.members[i].name = 0 /\ IsAggregate(ty.members[i].ty)
                   /\ \E j \in DOMAIN ty.members[i].ty.members : ty.members[i].ty.members[j].name = name} IN
  IF named # {} THEN LET i == CHOOSE i \in named : TRUE IN SubSeq(ty.members, i, Len(ty.members))
  ELSE IF within # {}
    THEN LET i == CHOOSE i \in within : TRUE
             in == ty.members[i].ty.members
             j == CHOOSE j \in DOMAIN in : in[j].name = name IN
         <<[in[j] EXCEPT !.offset = @ + ty.members[i].offset]>> \o SubSeq(in, j + 1, Len(in))
  ELSE <<>>

RECURSIVE SkipInit(_, _)
SkipInit(t, s) ==
  IF ~s.ok THEN s
  ELSE IF t[s.p].k \in {"dot", "idx"} THEN SkipInit(t, Step(s))
  ELSE IF ~Is(t, s, "{") THEN Assign(t, s)
  ELSE LET Depth(q) == Cardinality({r \in s.p .. q : t[r].k = "{"}) - Cardinality({r \in s.p .. q : t[r].k = "}"}) IN
       [s EXCEPT !.p = 1 + CHOOSE q \in s.p .. Len(t) : Depth(q) = 0 /\ \A r \in s.p .. q - 1 : Depth(r) > 0]


-----------------------------------------------------------------------------
(* Relocations, at most one at an offset; a label and its addend are one   *)
(* value.                                                                  *)
RemoveReloc(rel, at) == {r \in rel : r.at # at}
AppendReloc(rel, at, v) == RemoveReloc(rel, at) \union {[at |-> at, v |-> v]}
IsLabel(t, s) == t[s.p].k \in {"str", "addr"}

(* A constant for a scalar of a global object: bytes, or for a pointer a   *)
(* relocation.  A number removes the relocation that was there.            *)
GlobalScalar(t, s, ty, at) ==
  CASE ~s.ok -> s
    [] s.ok /\ Is(t, s, "num") -> [Step(s) EXCEPT !.data = Store(@, 8 * at, 8 * ty.size, t[s.p].v),
                                                 !.rel = RemoveReloc(@, at)]
    [] s.ok /\ IsLabel(t, s) /\ ty.kind = "ptr" -> [Step(s) EXCEPT !.rel = AppendReloc(@, at, t[s.p].v)]
    [] OTHER -> Fail(s)

(* A bit-field is stored through a unit of its type's size, whatever unit  *)
(* Layout says is needed to reach all of it; what is no constant is        *)
(* dropped.                                                                *)
GlobalBits(t, s, m, at) ==
  LET after == Assign(t, s) IN
  IF after.ok /\ Is(t, s, "num")
    THEN [after EXCEPT !.data = Store(@, 8 * (at + m.offset) + m.bit,
                                      Least(m.width, 8 * m.ty.size - m.bit), t[s.p].v)]
    ELSE after

RECURSIVE GlobalOne(_, _, _, _), GlobalFlat(_, _, _, _), GlobalFlatFrom(_, _, _, _, _),
          GlobalStructList(_, _, _, _, _), GlobalArrayList(_, _, _, _, _), GlobalElements(_, _, _, _, _, _),
          GlobalMembers(_, _, _, _)

GlobalFlatFrom(t, s, ty, at, i) ==
  IF i = ArrayLen(ty) \/ Stops(t, s) THEN s
  ELSE LET e == GlobalFlat(t, s, ty.base, at + i * ty.base.size) IN
       GlobalFlatFrom(t, IF i < ArrayLen(ty) - 1 THEN SkipComma(t, e) ELSE e, ty, at, i + 1)
GlobalFlat(t, s, ty, at) ==
  IF ty.kind = "array" THEN GlobalFlatFrom(t, s, ty, at, 0) ELSE GlobalOne(t, s, ty, at)

GlobalMember(t, s, m, at) ==
  IF m.width > 0 THEN GlobalBits(t, s, m, at)
  ELSE IF m.ty.kind = "array" /\ ~Is(t, s, "{") /\ ~(IsCharArray(m.ty) /\ Is(t, s, "str"))
    THEN GlobalFlat(t, s, m.ty, at + m.offset)
  ELSE GlobalOne(t, s, m.ty, at + m.offset)

(* One value for the elements lo .. hi, read again for each of them.       *)
GlobalElements(t, s, ty, at, lo, hi) ==
  IF lo > hi THEN s
  ELSE LET e == IF InRange(ty, lo) THEN GlobalOne(t, s, ty.base, at + lo * ty.base.size) ELSE SkipInit(t, s) IN
       IF lo = hi THEN e ELSE GlobalElements(t, [e EXCEPT !.p = s.p], ty, at, lo + 1, hi)

(* Mutant: after a range the next element is the one after its first.      *)
NextIndexFirst(lo, hi) == lo + 1

NextIndex(lo, hi) == hi + 1

GlobalArrayList(t, s, ty, at, idx) ==
  IF Stops(t, s) THEN s
  ELSE LET des == Is(t, s, "idx")
           lo == IF des THEN t[s.p].v ELSE idx
           hi == IF des THEN t[s.p].w ELSE idx
           e == GlobalElements(t, IF des THEN Step(s) ELSE s, ty, at, lo, hi) IN
       IF e.ok /\ Is(t, e, ",") THEN GlobalArrayList(t, Step(e), ty, at, NextIndex(lo, hi)) ELSE e

(* rest: the members from mem on.                                          *)
GlobalStructList(t, s, ty, at, rest) ==
  IF Stops(t, s) THEN s
  ELSE LET des == Is(t, s, "dot")
           found == IF des THEN FindMember(ty, t[s.p].v) ELSE <<>>
           todo == IF des THEN found ELSE rest
           from == IF des THEN Step(s) ELSE s
           e == IF todo = <<>> THEN SkipInit(t, from) ELSE GlobalMember(t, from, Head(todo), at)
           left == IF todo = <<>> THEN rest ELSE Tail(todo) IN
       IF Is(t, s, "chain") THEN Fail(s)
       ELSE IF e.ok /\ Is(t, e, ",") THEN GlobalStructList(t, Step(e), ty, at, left) ELSE e

(* Without braces: the members in turn, of a union the first.              *)
GlobalMembers(t, s, at, rest) ==
  IF rest = <<>> \/ Stops(t, s) THEN s
  ELSE LET n == SkipComma(t, s) IN
       IF Stops(t, n) THEN n ELSE GlobalMembers(t, GlobalMember(t, n, Head(rest), at), at, Tail(rest))

GlobalOne(t, s, ty, at) ==
  CASE ~s.ok -> s
    [] IsCharArray(ty) /\ Is(t, s, "str") ->
         LET len == t[s.p].v IN
         [Step(s) EXCEPT !.data = StoreString(@, at, Least(len + 1, ty.size), len)]
    [] ty.kind = "array" /\ Is(t, s, "{") -> Skip(t, GlobalArrayList(t, Step(s), ty, at, 0), "}")
    [] IsAggregate(ty) /\ Is(t, s, "{") -> Skip(t, GlobalStructList(t, Step(s), ty, at, ty.members), "}")
    [] IsAggregate(ty) /\ ~Is(t, s, "{") ->
         LET first == GlobalMember(t, s, Head(ty.members), at) IN
         IF ty.kind = "union" THEN first ELSE GlobalMembers(t, first, at, Tail(ty.members))
    [] ty.kind = "array" /\ ~Is(t, s, "{") -> GlobalOne(t, s, ty.base, at)
    [] ~IsAggregate(ty) /\ ty.kind # "array" /\ Is(t, s, "{") -> Skip(t, GlobalOne(t, Step(s), ty, at), "}")
    [] OTHER -> GlobalScalar(t, s, ty, at)

-----------------------------------------------------------------------------
(* A local object is zeroed, then assigned to.  The object assigned to     *)
(* begins at bit b; width is 0 unless it is a bit-field.                   *)
LocalScalar(t, s, ty, b, width) ==
  LET after == Assign(t, s) IN
  IF after.ok THEN [after EXCEPT !.data = Store(@, b, IF width > 0 THEN width ELSE 8 * ty.size, t[s.p].v)]
  ELSE after

RECURSIVE LocalOne(_, _, _, _, _), LocalFlat(_, _, _, _, _), LocalFlatFrom(_, _, _, _, _),
          LocalStructList(_, _, _, _, _), LocalArrayList(_, _, _, _, _), LocalElements(_, _, _, _, _, _),
          LocalMembers(_, _, _, _), LocalChain(_, _, _, _, _)

LocalFlatFrom(t, s, ty, b, i) ==
  IF i = ArrayLen(ty) \/ Stops(t, s) THEN s
  ELSE LET e == LocalFlat(t, s, ty.base, b + 8 * i * ty.base.size, 0) IN
       LocalFlatFrom(t, IF i < ArrayLen(ty) - 1 THEN SkipComma(t, e) ELSE e, ty, b, i + 1)
LocalFlat(t, s, ty, b, width) ==
  IF ty.kind = "array" THEN LocalFlatFrom(t, s, ty, b, 0) ELSE LocalOne(t, s, ty, b, width)

LocalMember(t, s, m, b) ==
  LET at == b + 8 * m.offset + m.bit IN
  IF m.ty.kind = "array" /\ ~Is(t, s, "{") /\ ~(IsCharArray(m.ty) /\ Is(t, s, "str"))
    THEN LocalFlat(t, s, m.ty, at, 0)
  ELSE LocalOne(t, s, m.ty, at, m.width)

(* One value for the elements lo .. hi.  Without braces it is evaluated    *)
(* once, into a temporary.                                                 *)
LocalElements(t, s, ty, b, lo, hi) ==
  IF lo > hi THEN s
  ELSE LET e == IF InRange(ty, lo) THEN LocalOne(t, s, ty.base, b + 8 * lo * ty.base.size, 0) ELSE SkipInit(t, s) IN
       IF lo = hi THEN e ELSE LocalElements(t, [e EXCEPT !.p = s.p], ty, b, lo + 1, hi)

LocalArrayList(t, s, ty, b, idx) ==
  IF Stops(t, s) THEN s
  ELSE LET des == Is(t, s, "idx")
           lo == IF des THEN t[s.p].v ELSE idx
           hi == IF des THEN t[s.p].w ELSE idx
           e == LocalElements(t, IF des THEN Step(s) ELSE s, ty, b, lo, hi) IN
       IF e.ok /\ Is(t, e, ",") THEN LocalArrayList(t, Step(e), ty, b, NextIndex(lo, hi)) ELSE e

(* .name = and .name.to = : the members named, one inside the other.       *)
LocalChain(t, s, ty, b, names) ==
  LET found == FindMember(ty, Head(names))
      m == Head(found)
      at == b + 8 * m.offset + m.bit IN
  IF found = <<>> THEN IF Len(names) = 1 THEN SkipInit(t, s) ELSE Fail(s)
  ELSE IF Len(names) = 1 THEN LocalOne(t, s, m.ty, at, m.width)
  ELSE LocalChain(t, s, m.ty, at, Tail(names))

LocalStructList(t, s, ty, b, rest) ==
  IF Stops(t, s) THEN s
  ELSE LET des == Is(t, s, "dot") \/ Is(t, s, "chain")
           found == IF des THEN FindMember(ty, t[s.p].v) ELSE rest
           e == IF des THEN LocalChain(t, Step(s), ty, b, <<t[s.p].v>> \o (IF Is(t, s, "chain") THEN <<t[s.p].w>> ELSE <<>>))
                ELSE IF rest = <<>> THEN SkipInit(t, s) ELSE LocalMember(t, s, Head(rest), b)
           left == IF found = <<>> THEN <<>> ELSE Tail(found) IN
       IF e.ok /\ Is(t, e, ",") THEN LocalStructList(t, Step(e), ty, b, left) ELSE e

LocalMembers(t, s, b, rest) ==
  IF rest = <<>> \/ Stops(t, s) THEN s
  ELSE LET n == SkipComma(t, s) IN
       IF Stops(t, n) THEN n ELSE LocalMembers(t, LocalMember(t, n, Head(rest), b), b, Tail(rest))

LocalOne(t, s, ty, b, width) ==
  CASE ~s.ok -> s
    [] IsCharArray(ty) /\ Is(t, s, "str") ->
         [Step(s) EXCEPT !.data = StoreString(@, b \div 8, ty.size, t[s.p].v)]
    [] ty.kind = "array" /\ Is(t, s, "{") -> Skip(t, LocalArrayList(t, Step(s), ty, b, 0), "}")
    [] IsAggregate(ty) /\ Is(t, s, "{") -> Skip(t, LocalStructList(t, Step(s), ty, b, ty.members), "}")
    [] IsAggregate(ty) /\ ~Is(t, s, "{") ->
         LET first == LocalMember(t, s, Head(ty.members), b) IN
         IF ty.kind = "union" THEN first ELSE LocalMembers(t, first, b, Tail(ty.members))
    [] ty.kind = "array" /\ ~Is(t, s, "{") -> LocalOne(t, s, ty.base, b, 0)
    [] ~IsAggregate(ty) /\ ty.kind # "array" /\ Is(t, s, "{") -> Skip(t, LocalOne(t, Step(s), ty, b, width), "}")
    [] OTHER -> LocalScalar(t, s, ty, b, width)

-----------------------------------------------------------------------------
(* The length of an array that is declared without one.                    *)
RECURSIVE SkipFlat(_, _, _), SkipFlatMembers(_, _, _, _), SkipFlatElements(_, _, _, _), CountFrom(_, _, _, _, _, _)
SkipFlatMembers(t, s, ty, i) ==
  IF i > Len(ty.members) \/ Stops(t, s) THEN s
  ELSE LET e == SkipFlat(t, s, ty.members[i].ty)
           n == IF i < Len(ty.members) THEN SkipComma(t, e) ELSE e IN
       IF ty.kind = "union" THEN n ELSE SkipFlatMembers(t, n, ty, i + 1)
SkipFlatElements(t, s, ty, i) ==
  IF i = ArrayLen(ty) \/ Stops(t, s) THEN s
  ELSE LET e == SkipFlat(t, s, ty.base) IN
       SkipFlatElements(t, IF i < ArrayLen(ty) - 1 THEN SkipComma(t, e) ELSE e, ty, i + 1)
SkipFlat(t, s, ty) ==
  CASE ~s.ok -> s
    [] IsAggregate(ty) -> SkipFlatMembers(t, s, ty, 1)
    [] ty.kind = "array" /\ (Is(t, s, "{") \/ (IsCharArray(ty) /\ Is(t, s, "str"))) -> SkipInit(t, s)
    [] ty.kind = "array" /\ ~(Is(t, s, "{") \/ (IsCharArray(ty) /\ Is(t, s, "str"))) -> SkipFlatElements(t, s, ty, 0)
    [] OTHER -> Assign(t, s)

CountFrom(t, s, base, idx, count, maxIdx) ==
  LET des == Is(t, s, "idx")
      here == IF des THEN t[s.p].w ELSE idx
      from == IF des THEN Step(s) ELSE s
      e == IF IsAggregate(base) /\ ~Is(t, from, "{") THEN SkipFlat(t, from, base) ELSE SkipInit(t, from)
      most == Most(maxIdx, here) IN
  IF Stops(t, s) THEN [s |-> s, len |-> IF maxIdx >= count THEN maxIdx + 1 ELSE count]
  ELSE IF e.ok /\ Is(t, e, ",") THEN CountFrom(t, Step(e), base, here + 1, count + 1, most)
  ELSE [s |-> e, len |-> IF most >= count + 1 THEN most + 1 ELSE count + 1]
CountArray(t, base) ==
  LET c == CountFrom(t, [p |-> 2, data |-> <<>>, rel |-> {}, ok |-> TRUE], base, 0, 0, -1) IN
  [len |-> c.len, ok |-> Skip(t, c.s, "}").ok]

-----------------------------------------------------------------------------
Blank(ty) == [p |-> 1, data |-> [i \in 1 .. 8 * ty.size |-> Zero], rel |-> {}, ok |-> TRUE]

(* codegen(): bytes up to the next relocation, eight bytes for that, and   *)
(* the bytes behind the last one.                                          *)
EmitReloc(r, out, data) ==
  out \o SubSeq(data, Len(out) + 1, 8 * r.at) \o [j \in 1 .. 64 |-> <<r.v, j - 1>>]
Emit(s) ==
  LET rels == SetToSortSeq(s.rel, LAMBDA r, q : r.at < q.at)
      out == FoldLeft(LAMBDA o, r : EmitReloc(r, o, s.data), <<>>, rels) IN
  out \o SubSeq(s.data, Len(out) + 1, Len(s.data))

(* An object of the struct type just defined is declared, with an          *)
(* initialiser.                                                            *)
Initialise(choice, where, list) ==
  /\ done # NotDone /\ object = NoObject
  /\ members # <<>> /\ Len(decls) <= MaxInitMembers /\ steps = Len(decls)
  /\ object' = [choice |-> choice, where |-> where, list |-> list]
  /\ image' =
       LET t == Tokens(list)
           count == IF choice = "unsized" THEN CountArray(t, StructType) ELSE [len |-> 2, ok |-> TRUE]
           ty == ObjectType(choice, count.len)
           s == IF where = "global" THEN GlobalOne(t, Blank(ty), ty, 0) ELSE LocalOne(t, Blank(ty), ty, 0, 0) IN
       IF ~count.ok \/ ~s.ok THEN NoImage
       ELSE [ok |-> TRUE, type |-> ty, bits |-> IF where = "global" THEN Emit(s) ELSE s.data]
  /\ UNCHANGED vars

(* A declaration of the layout's or of an object.                          *)
DeclNext ==
  \/ Next /\ object' = NoObject /\ image' = NoImage
  \/ \E choice \in ObjectChoices, where \in {"global", "local"}, list \in Lists : Initialise(choice, where, list)

DeclInit == Init /\ object = NoObject /\ image = NoImage
DeclSpec == DeclInit /\ [][DeclNext]_declVars

-----------------------------------------------------------------------------
(* What C says.  The scalars of a type are numbered in order (of a union   *)
(* only the first member counts); an item without braces goes to the       *)
(* scalar at the current position, an item in braces to the largest part   *)
(* of the object that begins there.  pos counts from 0.                    *)
(* A part of an aggregate has a name (0: none), a type, a first bit, a     *)
(* width if it is a bit-field, and a first scalar.                         *)
Part(m, pos) == [name |-> m.name, ty |-> m.ty, b |-> 8 * m.offset + m.bit, width |-> m.width, pos |-> pos]
Parts(ty) ==
  CASE ty.kind = "array" -> {Part(Member(0, ty.base, i * ty.base.size, 0, 0), i * ty.base.leaves) : i \in 0 .. ArrayLen(ty) - 1}
    [] ty.kind = "union" -> {Part(ty.members[1], 0)}
    [] ty.kind = "struct" -> {Part(ty.members[i], SumLeaves(SubSeq(ty.members, 1, i - 1))) : i \in DOMAIN ty.members}
    [] OTHER -> {}
Inside(outer, p) == [p EXCEPT !.b = @ + outer.b, !.pos = @ + outer.pos]

(* The parts that begin at scalar pos of a part, the largest first.        *)
RECURSIVE PartsAt(_, _)
PartsAt(outer, pos) ==
  LET Within(ps) == IF ps = {} THEN <<>>
                    ELSE LET p == CHOOSE p \in ps : TRUE IN
                         (IF p.pos = pos THEN <<p>> ELSE <<>>) \o PartsAt(p, pos)
  IN Within({p \in {Inside(outer, q) : q \in Parts(outer.ty)} : p.pos <= pos /\ pos < p.pos + p.ty.leaves})

(* The part a designator names, if there is one; a member of an anonymous  *)
(* struct is one of the struct it is in.                                   *)
Named(outer, name) ==
  LET Both(ps) == ps \union UNION {{Inside(p, q) : q \in Parts(p.ty)} : p \in {p \in ps : p.name = 0}}
  IN {Inside(outer, p) : p \in {q \in Both(IF outer.ty.kind = "struct" THEN Parts(outer.ty) ELSE {}) : q.name = name}}
Designated(outer, item, idx) ==
  CASE item.des = "dot" -> Named(outer, item.name)
    [] item.des = "chain" -> UNION {Named(p, item.to) : p \in Named(outer, item.name)}
    [] item.des = "idx" /\ outer.ty.kind = "array" -> {p \in {Inside(outer, q) : q \in Parts(outer.ty)} :
                                                        p.pos = outer.pos + idx * outer.ty.base.leaves}
    [] OTHER -> {}

(* What an initialiser list stores, in order: st.pos is the position after *)
(* the last item, st.end the furthest one; twice says that an aggregate    *)
(* was initialised again.                                                  *)
Fresh0 == [pos |-> 0, end |-> 0, seen |-> {}, writes |-> <<>>, ok |-> TRUE, twice |-> FALSE]
Moved(st, pos, n, whole, writes) ==
  [st EXCEPT !.pos = pos + n, !.end = Most(@, pos + n), !.seen = @ \union pos .. pos + n - 1,
             !.twice = @ \/ (whole /\ pos .. pos + n - 1 \cap st.seen # {}), !.writes = @ \o writes]
Write(sort, part, width, v) == <<[sort |-> sort, b |-> part.b, width |-> width, v |-> v]>>
PutScalar(st, part, v) ==
  Moved(st, part.pos, 1, FALSE, Write("scalar", part, IF part.width > 0 THEN part.width ELSE 8 * part.ty.size, v))
PutString(st, part, v) == Moved(st, part.pos, part.ty.leaves, TRUE, Write("string", part, part.ty.size, v))
(* An aggregate is cleared before r, what its braced list stores.          *)
PutList(st, part, r) ==
  [Moved(st, part.pos, part.ty.leaves, TRUE, Write("clear", part, 8 * part.ty.size, 0) \o r.writes)
     EXCEPT !.twice = @ \/ r.twice, !.ok = @ /\ r.ok]

(* val for the parts that begin at the current position.                   *)
RECURSIVE Listed(_, _), Put(_, _, _)
Put(st, parts, val) ==
  CASE ~st.ok \/ parts = <<>> -> [st EXCEPT !.ok = FALSE]
    [] st.ok /\ parts # <<>> /\ val.k = "list" /\ Len(parts) = 1 ->
         IF Len(val.items) = 1 /\ val.items[1].des = "none" THEN Put(st, parts, val.items[1].val)
         ELSE [st EXCEPT !.ok = FALSE]
    [] st.ok /\ Len(parts) > 1 /\ val.k = "list" -> PutList(st, parts[1], Listed(parts[1], val.items))
    [] st.ok /\ val.k = "str" /\ (\E i \in DOMAIN parts : IsCharArray(parts[i].ty)) ->
         PutString(st, SelectSeq(parts, LAMBDA q : IsCharArray(q.ty))[1], val.v)
    [] st.ok /\ parts # <<>> /\ (val.k = "num" \/ (val.k \in {"str", "addr"} /\ Last(parts).ty.kind = "ptr")) ->
         PutScalar(st, Last(parts), val.v)
    [] OTHER -> [st EXCEPT !.ok = FALSE]

(* Where an item goes, once or, for a range, several times.                *)
Places(outer, st, item) ==
  IF item.des = "none" THEN <<PartsAt(outer, st.pos)>>
  ELSE [i \in 1 .. (IF item.des = "idx" THEN item.to - item.name + 1 ELSE 1) |->
          FoldSet(LAMBDA p, ps : <<p>> \o PartsAt(p, p.pos), <<>>, Designated(outer, item, item.name + i - 1))]

(* Of a union an item can name a member; no second item is allowed.        *)
AsStruct(outer, items) ==
  IF outer.ty.kind # "union" THEN outer
  ELSE [outer EXCEPT !.ty = Aggregate("struct", @.size,
          IF items[1].des = "dot" THEN SelectSeq(@.members, LAMBDA m : m.name = items[1].name) ELSE <<@.members[1]>>)]
Listed(outer, items) ==
  FoldLeft(LAMBDA st, item : FoldLeft(LAMBDA q, parts : Put(q, parts, item.val), st, Places(AsStruct(outer, items), st, item)),
           [Fresh0 EXCEPT !.pos = outer.pos, !.ok = outer.ty.kind = "union" => Len(items) = 1], items)

Stored(size, writes) ==
  FoldLeft(LAMBDA d, w : CASE w.sort = "string" -> StoreString(d, w.b \div 8, w.width, w.v)
                           [] w.sort = "clear" -> [i \in DOMAIN d |-> IF i - 1 \in w.b .. w.b + w.width - 1 THEN Zero ELSE d[i]]
                           [] w.sort = "scalar" -> Store(d, w.b, w.width, w.v),
           [i \in 1 .. 8 * size |-> Zero], writes)

(* Initialisers that are handled wrongly (README, section 6): an item      *)
(* without a designator behind one that names a member of a member, or     *)
(* locally the first element of an array, goes to the wrong place; and the *)
(* bits of a packed bit-field of a global object that its type's unit does *)
(* not reach are lost.                                                     *)
RECURSIVE LosesPlace(_, _, _)
LosesPlace(outer, items, where) ==
  \E i \in DOMAIN items :
    \/ /\ i < Len(items) /\ items[i + 1].des = "none" /\ items[i].des \in {"dot", "chain"}
       /\ \E d \in Designated(outer, items[i], 0) :
            \/ items[i].des = "chain" \/ \A j \in DOMAIN outer.ty.members : outer.ty.members[j].name # items[i].name
            \/ where = "local" /\ d.ty.kind = "array" /\ items[i].val.k = "num"
    \/ /\ items[i].val.k = "list"
       /\ \E p \in Parts(outer.ty) : LosesPlace(p, items[i].val.items, where)
Truncated == object.where = "global" /\ \E i \in DOMAIN members : members[i].bit + members[i].mem.width > 8 * members[i].mem.size

(* An object has, when the program starts or its declaration is executed,  *)
(* exactly the value C gives it, in every bit: braces or none, designators *)
(* in any order, ranges, overriding, strings, addresses, bit-fields that   *)
(* share bytes, parts left out (zero), arrays without a length.  A correct *)
(* initialiser without designators and inner braces is never rejected, but *)
(* for an array of unions without a length.                                *)
InitializersExact ==
  LET Exact(whole, r, leaves) ==
        r.ok =>
          IF ~image.ok
            THEN \/ struct.union /\ object.choice = "unsized"
                 \/ \E i \in DOMAIN object.list : object.list[i].des # "none" \/ object.list[i].val.k = "list"
          ELSE r.twice \/ Truncated \/ LosesPlace(whole, object.list, object.where)
               \/ /\ object.choice = "unsized" => ArrayLen(image.type) = (r.end + leaves - 1) \div leaves
                  /\ image.bits = Stored(image.type.size, r.writes)
      Of(whole) == Exact(whole, Listed(whole, object.list), StructType.leaves)
  IN object # NoObject => Of(Part(Member(0, ObjectType(object.choice, 9), 0, 0, 0), 0))
=============================================================================
