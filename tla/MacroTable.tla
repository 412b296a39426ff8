----------------------------- MODULE MacroTable -----------------------------
(***************************************************************************)
(* The macro table of preprocess.c over one run of the compiler: -D and -U *)
(* options, then one preprocess() per source file, each with its #define,  *)
(* #undef, #pragma push_macro and pop_macro lines.                         *)
(*                                                                         *)
(* Every Macro node is on a singly linked list (macros) and in a hash      *)
(* table; a later file starts again from the list head saved after the     *)
(* first file's predefined macros, sharing the nodes.  The record t holds  *)
(*   heap     the nodes, by allocation order: name, body, next (0 = NULL)  *)
(*   htab     per bucket the nodes of its chain, first found first         *)
(*   macros, saved, cmdline    the heads of the lists, 0 = NULL            *)
(*   stack    macro_stack, innermost last                                  *)
(* A node's body stands for everything #define sets (is_function, params,  *)
(* param_len, body and the variadic flags): they are always set together.  *)
(***************************************************************************)
EXTENDS Integers, Sequences

CONSTANTS
  Names,        \* macro names
  Bodies,       \* definitions
  None,         \* no definition
  Bucket(_),    \* macro_hash
  Buckets,      \* its values
  Predefined,   \* the define_pre() calls: a sequence of <<name, body>>
  MaxNodes,     \* bound: Macro nodes
  MaxStack,     \* bound: push_macro nesting
  MaxFiles      \* bound: source files on the command line

ASSUME NoneAssumption == None \notin Bodies
ASSUME BucketAssumption == \A n \in Names : Bucket(n) \in Buckets
ASSUME PredefinedAssumption == Predefined \in Seq(Names \X Bodies) /\ Predefined # <<>>
ASSUME BoundAssumption == {MaxNodes, MaxStack, MaxFiles} \subseteq Nat

VARIABLES
  t,            \* the table
  file,         \* source files begun; 0 while options are read
  fresh,        \* no directive was seen in this file yet
  want,         \* what C says each name is defined as
  pushed,       \* what C says push_macro has saved, innermost last
  opts,         \* per name the definition the options ask for
  undefs,       \* names whose last option is -U
  repeated      \* some name occurs in two options or is predefined as well

vars == <<t, file, fresh, want, pushed, opts, undefs, repeated>>

-----------------------------------------------------------------------------
Node == [name : Names, body : Bodies, next : 0 .. MaxNodes]

(* The nodes of a list, from its head on; next always is an older node.    *)
List(heap, head) ==
  LET path[i \in 0 .. Len(heap)] == IF i = 0 THEN <<>> ELSE <<i>> \o path[heap[i].next]
  IN path[head]

(* The positions in a sequence of nodes at which a search for n stops: the *)
(* first match, if any.                                                    *)
FirstAt(heap, s, n) ==
  {i \in 1 .. Len(s) : heap[s[i]].name = n /\ \A j \in 1 .. (i - 1) : heap[s[j]].name # n}

Without(s, i) == SubSeq(s, 1, i - 1) \o SubSeq(s, i + 1, Len(s))

(* find_macro: the node, as a set of at most one.                          *)
FindMacro(m, n) ==
  {m.htab[Bucket(n)][i] : i \in FirstAt(m.heap, m.htab[Bucket(n)], n)}

Lookup(m, n) == IF FindMacro(m, n) = {} THEN None
                ELSE m.heap[CHOOSE x \in FindMacro(m, n) : TRUE].body

(* macro_ht_add for a node just put at the head of macros.                 *)
AddNode(m, n, b) ==
  LET x == Len(m.heap) + 1
  IN [m EXCEPT !.heap = Append(@, [name |-> n, body |-> b, next |-> m.macros]),
               !.macros = x,
               !.htab[Bucket(n)] = <<x>> \o @]

(* define_macro: redefinition overwrites the node in place.                *)
DefineMacro(m, n, b) ==
  IF FindMacro(m, n) = {} THEN AddNode(m, n, b)
  ELSE [m EXCEPT !.heap[CHOOSE x \in FindMacro(m, n) : TRUE].body = b]

(* macro_ht_remove                                                         *)
HtRemove(m, n) ==
  LET at == FirstAt(m.heap, m.htab[Bucket(n)], n)
  IN IF at = {} THEN m
     ELSE [m EXCEPT !.htab[Bucket(n)] = Without(@, CHOOSE i \in at : TRUE)]

(* The loop that unlinks the first node named n from macros.               *)
Unlink(m, n) ==
  LET l == List(m.heap, m.macros)
      at == FirstAt(m.heap, l, n)
      i == CHOOSE k \in at : TRUE
  IN IF at = {} THEN m
     ELSE IF i = 1 THEN [m EXCEPT !.macros = m.heap[l[1]].next]
     ELSE [m EXCEPT !.heap[l[i - 1]].next = m.heap[l[i]].next]

(* Mutant: the node stays on the list.                                     *)
UndefMacroTableOnly(m, n) == HtRemove(m, n)

(* #undef, and pop_macro of a name that was undefined when it was pushed.  *)
UndefMacro(m, n) == Unlink(HtRemove(m, n), n)

(* push_macro                                                              *)
PushMacro(m, n) ==
  [m EXCEPT !.stack = Append(@, [name |-> n, body |-> Lookup(m, n)])]

(* The innermost entry of n on a stack, as a set of at most one index.     *)
LastAt(s, n) ==
  {i \in 1 .. Len(s) : s[i].name = n /\ \A j \in (i + 1) .. Len(s) : s[j].name # n}

(* Mutant: the innermost entry is taken whatever its name.                 *)
PopMacroTop(m, n) ==
  IF m.stack = <<>> THEN m
  ELSE LET e == m.stack[Len(m.stack)]
           p == [m EXCEPT !.stack = SubSeq(@, 1, Len(@) - 1)]
       IN IF e.body = None THEN UndefMacro(p, n) ELSE DefineMacro(p, n, e.body)

(* pop_macro: the innermost entry of that name is taken off and restored;  *)
(* nothing happens without one.                                            *)
PopMacro(m, n) ==
  LET at == LastAt(m.stack, n)
      i == CHOOSE k \in at : TRUE
      p == [m EXCEPT !.stack = Without(@, i)]
  IN IF at = {} THEN m
     ELSE IF m.stack[i].body = None THEN UndefMacro(p, n)
     ELSE DefineMacro(p, n, m.stack[i].body)

(* add_define: the node goes to cmdline_macros only.                       *)
AddDefine(m, n, b) ==
  [m EXCEPT !.heap = Append(@, [name |-> n, body |-> b, next |-> m.cmdline]),
            !.cmdline = Len(m.heap) + 1]

(* The loop of clear_macros: macro_ht_add for each node of a list, in list *)
(* order, so that the last one is found first.                             *)
Refill(heap, l) ==
  LET fill[i \in 0 .. Len(l)] ==
        IF i = 0 THEN [b \in Buckets |-> <<>>]
        ELSE [fill[i - 1] EXCEPT ![Bucket(heap[l[i]].name)] = <<l[i]>> \o @]
  IN fill[Len(l)]

(* clear_macros: the list of the first file's start, or the options'.      *)
ClearMacros(m) ==
  LET head == IF m.saved # 0 THEN m.saved ELSE m.cmdline
  IN [m EXCEPT !.macros = head, !.stack = <<>>, !.htab = Refill(m.heap, List(m.heap, head))]

(* The define_pre() calls of the first preprocess().                       *)
DefinePredefined(m) ==
  LET after[i \in 0 .. Len(Predefined)] ==
        IF i = 0 THEN m
        ELSE DefineMacro(after[i - 1], Predefined[i][1], Predefined[i][2])
  IN after[Len(Predefined)]

(* The head of preprocess(); saved_macros is set once.                     *)
Preprocess(m) ==
  LET c == ClearMacros(m)
      p == DefinePredefined(c)
  IN IF m.saved # 0 THEN c ELSE [p EXCEPT !.saved = p.macros]

-----------------------------------------------------------------------------
(* A name may be predefined more than once: the last definition counts.    *)
PredefinedBody(n) ==
  LET is == {i \in 1 .. Len(Predefined) : Predefined[i][1] = n}
  IN IF is = {} THEN None ELSE Predefined[CHOOSE i \in is : \A j \in is : j <= i][2]

Init ==
  /\ t = [heap |-> <<>>, htab |-> [b \in Buckets |-> <<>>],
          macros |-> 0, saved |-> 0, cmdline |-> 0, stack |-> <<>>]
  /\ file = 0
  /\ fresh = TRUE
  /\ want = [n \in Names |-> None]
  /\ pushed = <<>>
  /\ opts = [n \in Names |-> PredefinedBody(n)]
  /\ undefs = {}
  /\ repeated = FALSE

Room == Len(t.heap) < MaxNodes

(* -Dname=val                                                              *)
OptionD(n, b) ==
  /\ file = 0 /\ Room
  /\ t' = AddDefine(t, n, b)
  /\ opts' = [opts EXCEPT ![n] = b]
  /\ undefs' = undefs \ {n}
  /\ repeated' = (repeated \/ opts[n] # None \/ n \in undefs)
  /\ UNCHANGED <<file, fresh, want, pushed>>

(* -Uname: add_undef() works on the list and the table of the running      *)
(* file, which are still empty.                                            *)
OptionU(n) ==
  /\ file = 0
  /\ n \notin undefs
  /\ t' = UndefMacro(t, n)
  /\ opts' = [opts EXCEPT ![n] = None]
  /\ undefs' = undefs \union {n}
  /\ repeated' = (repeated \/ opts[n] # None)
  /\ UNCHANGED <<file, fresh, want, pushed>>

(* main() calls preprocess() for the next source file.                     *)
BeginFile ==
  /\ file < MaxFiles
  /\ Len(t.heap) + Len(Predefined) <= MaxNodes
  /\ t' = Preprocess(t)
  /\ file' = file + 1
  /\ fresh' = TRUE
  /\ want' = opts
  /\ pushed' = <<>>
  /\ UNCHANGED <<opts, undefs, repeated>>

(* #define                                                                 *)
Define(n, b) ==
  /\ file > 0 /\ Room
  /\ t' = DefineMacro(t, n, b)
  /\ want' = [want EXCEPT ![n] = b]
  /\ fresh' = FALSE
  /\ UNCHANGED <<file, pushed, opts, undefs, repeated>>

(* #undef                                                                  *)
Undef(n) ==
  /\ file > 0
  /\ t' = UndefMacro(t, n)
  /\ want' = [want EXCEPT ![n] = None]
  /\ fresh' = FALSE
  /\ UNCHANGED <<file, pushed, opts, undefs, repeated>>

(* #pragma push_macro                                                      *)
Push(n) ==
  /\ file > 0 /\ Len(t.stack) < MaxStack
  /\ t' = PushMacro(t, n)
  /\ pushed' = Append(pushed, [name |-> n, body |-> want[n]])
  /\ fresh' = FALSE
  /\ UNCHANGED <<file, want, opts, undefs, repeated>>

(* #pragma pop_macro                                                       *)
Pop(n) ==
  /\ file > 0 /\ Room
  /\ t' = PopMacro(t, n)
  /\ LET at == LastAt(pushed, n)
         i == CHOOSE k \in at : TRUE
     IN IF at = {} THEN UNCHANGED <<want, pushed>>
        ELSE /\ want' = [want EXCEPT ![n] = pushed[i].body]
             /\ pushed' = Without(pushed, i)
  /\ fresh' = FALSE
  /\ UNCHANGED <<file, opts, undefs, repeated>>

Next ==
  \/ \E n \in Names :
       \/ \E b \in Bodies : OptionD(n, b) \/ Define(n, b)
       \/ OptionU(n) \/ Undef(n) \/ Push(n) \/ Pop(n)
  \/ BeginFile

Spec == Init /\ [][Next]_vars

-----------------------------------------------------------------------------
Entry == [name : Names, body : Bodies \union {None}]
NodeOrNull == 0 .. Len(t.heap)

(* Every variable has its type; a list runs from newer to older nodes, so  *)
(* that no walk over macros can loop.                                      *)
TypeOK ==
  /\ t.heap \in Seq(Node)
  /\ \A x \in 1 .. Len(t.heap) : t.heap[x].next < x
  /\ t.htab \in [Buckets -> Seq(1 .. Len(t.heap))]
  /\ {t.macros, t.saved, t.cmdline} \subseteq NodeOrNull
  /\ t.stack \in Seq(Entry) /\ pushed \in Seq(Entry)
  /\ file \in 0 .. MaxFiles
  /\ {fresh, repeated} \subseteq BOOLEAN
  /\ {want, opts} \subseteq [Names -> Bodies \union {None}]
  /\ undefs \subseteq Names

(* In the first source file, whatever is defined, undefined, pushed and    *)
(* popped in whatever order, find_macro() finds what C says a name is      *)
(* defined as -- as long as no name is given twice on the command line or  *)
(* both there and by the compiler.                                         *)
FirstFileExact ==
  file = 1 /\ undefs = {} /\ ~repeated => \A n \in Names : Lookup(t, n) = want[n]

(* The list (which -dM prints and later files start from) and the table    *)
(* (which expansion uses) hold the same nodes, each once.                  *)
ListAgreesWithTable ==
  file > 0 /\ ~repeated =>
    LET l == List(t.heap, t.macros)
    IN \A b \in Buckets :
         /\ \A i, j \in 1 .. Len(t.htab[b]) : i # j => t.htab[b][i] # t.htab[b][j]
         /\ {t.htab[b][i] : i \in 1 .. Len(t.htab[b])} =
              {l[i] : i \in {k \in 1 .. Len(l) : Bucket(t.heap[l[k]].name) = b}}

=============================================================================
