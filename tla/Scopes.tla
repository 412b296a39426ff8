------------------------------- MODULE Scopes -------------------------------
(***************************************************************************)
(* The parser's scopes: the linked lists locals, typedefs, tags and        *)
(* enum_consts, newest entry first, that blocks and statements save and    *)
(* put back, what a name finds in them, and the ranges of locals whose     *)
(* __cleanup__ functions each way out of a block calls: the end of a block,*)
(* of a for statement and of a statement expression, break, continue,      *)
(* goto and return.  A range is walked from its begin until its end entry  *)
(* is met, or to the end of the list.                                      *)
(*                                                                         *)
(* One step is one declaration or statement of the source.  The body of a  *)
(* loop or switch is a compound statement.  scopes is not part of the      *)
(* parser: it is the C scopes that are open, innermost last, with what     *)
(* each declares.                                                          *)
(***************************************************************************)
EXTENDS Integers, SequencesExt

CONSTANTS
  Names,          \* identifiers
  Labels,         \* label names
  Programs,       \* what a program is made of: [sorts, spaces, kinds, jumps,
                  \* steps], the last a bound on declarations and statements
  MaxParams,      \* bound: parameters of a function
  MaxDepth        \* bound: nested statements

(* A local variable, one with a cleanup function, an array of a type with  *)
(* one, a static or extern variable, a function.                           *)
VarSorts == {"auto", "clean", "array", "static", "func"}
Kinds == {"fn", "block", "if", "while", "for", "switch", "expr"}
Jumps == {"break", "continue", "return", "goto", "label"}
ASSUME ProgramsAssumption ==
  \A p \in Programs :
    /\ p.sorts \subseteq VarSorts /\ p.spaces \subseteq {"typedef", "enum", "tag"}
    /\ p.kinds \subseteq Kinds \ {"fn"} /\ p.jumps \subseteq Jumps /\ p.steps \in Nat
ASSUME BoundsAssumption == MaxParams \in Nat /\ MaxDepth \in Nat
ASSUME LabelsAssumption == "none" \notin Labels       \* the label of an exit that is no goto

VARIABLES
  uses,           \* the member of Programs that is parsed
  lists,          \* [locals, typedefs, tags, enums]
  complete,       \* the tags whose types are complete
  globals,        \* names of globals
  labels,         \* label_scopes: the locals at each label
  fnScope,        \* current_fn_scope_locals
  switch,         \* current_switch and current_loop: the cleanup_end of
  loop,           \*   each, or Absent
  frames,         \* the statements being parsed, and what they saved
  exits,          \* the ways out parsed by the last step
  pending,        \* gotos and returns, complete only at the end of the function
  ended,          \* whether a function has just ended, and its fn->locals
  scopes,         \* the C scopes that are open
  labelled,       \* each label: [seen, vars, depth], the locals in scope at it
                  \*   and the depth of the block it is local to, or 0
  heads,          \* variables declared by a for of the function's outermost block
  fresh, steps

parser == <<lists, complete, globals, labels, fnScope, switch, loop, frames>>
vars == <<uses, parser, exits, pending, ended, scopes, labelled, heads, fresh, steps>>

Absent == -1
Running == [over |-> FALSE, locals |-> <<>>]
Unlabelled == [seen |-> FALSE, vars |-> <<>>, depth |-> 0]
NoScope == [vars |-> <<>>, typedefs |-> <<>>, tags |-> <<>>, enums |-> <<>>]
NULL == 0
Ptr(list) == IF list = <<>> THEN NULL ELSE Head(list).id
Entry(n, s) == [id |-> fresh, name |-> n, sort |-> s]
InFunction == frames # <<>>
Depth == Len(frames)               \* current_block_depth

Init ==
  /\ uses \in Programs
  /\ lists = [locals |-> <<>>, typedefs |-> <<>>, tags |-> <<>>, enums |-> <<>>]
  /\ complete = {} /\ globals = {} /\ labels = [l \in Labels |-> Absent] /\ fnScope = NULL
  /\ switch = Absent /\ loop = Absent /\ frames = <<>>
  /\ exits = {} /\ pending = {} /\ ended = Running
  /\ scopes = <<NoScope>> /\ labelled = [l \in Labels |-> Unlabelled]
  /\ heads = {} /\ fresh = 1 /\ steps = 0

-----------------------------------------------------------------------------
(* The C scopes.  A function has one, a statement in it two: that of its   *)
(* head, empty for a block, and that of its body.                          *)
FlatTo(open, field, n) ==
  LET flat[i \in 0..n] == IF i = 0 THEN <<>> ELSE open[i][field] \o flat[i - 1]
  IN  flat[n]
Flat(field) == FlatTo(scopes, field, Len(scopes))
InScope == Flat("vars")
Push(scope, field, e) == [scope EXCEPT ![field] = <<e>> \o @]
DeclaredHere(n) ==
  LET top == Last(scopes)
  IN  \E e \in ToSet(top.vars \o top.typedefs \o top.enums) : e.name = n
(* A label declared with __label__ is defined and used in its block.       *)
OutOfReach == MaxDepth + 1
LabelsDefined == \A l \in Labels : labelled[l].depth = Depth => labelled[l].seen
LabelsClosed == [l \in Labels |-> IF labelled[l].depth = Depth
                                  THEN [labelled[l] EXCEPT !.depth = OutOfReach] ELSE labelled[l]]
(* The tags of the head of a statement outlive it in the parser: they are  *)
(* counted to the enclosing scope.                                         *)
Closed ==
  LET keep == Len(scopes) - 2
  IN  [SubSeq(scopes, 1, keep) EXCEPT ![keep].tags = scopes[keep + 1].tags \o @]

-----------------------------------------------------------------------------
(* emit_cleanup_range(), append_cleanup_range(), append_cleanup_flat().    *)
Walk(begin, end) ==
  LET stop == {i \in DOMAIN begin : begin[i].id = end}
  IN  IF stop = {} THEN begin ELSE SubSeq(begin, 1, Min(stop) - 1)
Entries(sorts) == [id : Nat, name : Names \cup {"param"}, sort : sorts]
IdsIn(list, S) ==
  LET ids[i \in 0..Len(list)] ==
        IF i = 0 THEN <<>> ELSE IF list[i] \in S THEN Append(ids[i - 1], list[i].id) ELSE ids[i - 1]
  IN  ids[Len(list)]
Ids(list, sorts) == IdsIn(list, Entries(sorts))
(* The statements appended to a block clean a variable with a cleanup      *)
(* function of its own; the code generator also the arrays of a type that  *)
(* has one.                                                                *)
Appended(begin, end) == Ids(Walk(begin, end), {"clean"})
Emitted(begin, end) == Ids(Walk(begin, end), {"clean", "array"})
ToClean(list) == Ids(list, {"clean", "array"})
Own(list) == Ids(list, {"clean"})

(* What leaving for a place where the locals "to" are in scope cleans.     *)
Leaving(from, to) == IdsIn(from, Entries({"clean", "array"}) \ ToSet(to))

Exit(kind, cleaned, due) == [kind |-> kind, cleaned |-> cleaned, due |-> due, begin |-> <<>>, end |-> NULL,
                             from |-> <<>>, label |-> "none", late |-> FALSE]

-----------------------------------------------------------------------------
Step ==
  /\ UNCHANGED uses
  /\ steps < uses.steps /\ steps' = steps + 1
  /\ ended' = Running

(* Mutant: a declaration leaves current_fn_scope_locals at the parameters. *)
FnScopeParams(e, depth) == fnScope

(* new_var() of a local, and the entries made for static, extern and       *)
(* function declarations.  Only static leaves current_fn_scope_locals.     *)
NewLocal(ls, e) == [ls EXCEPT !.locals = <<e>> \o @]
FnScope(e, depth) == IF depth = 1 /\ e.sort # "static" THEN e.id ELSE fnScope

(* struct_or_union_specifier(): a definition completes a tag that is still *)
(* incomplete, wherever it was declared; a use finds any tag.              *)
TagNamed(n) == {i \in DOMAIN lists.tags : lists.tags[i].name = n}
FoundTag(n) == Min(TagNamed(n))
PushTag(n, def) == TagNamed(n) = {} \/ (def /\ lists.tags[FoundTag(n)].id \in complete)
Tagged(n, def) == IF PushTag(n, def) THEN [lists EXCEPT !.tags = <<Entry(n, "tag")>> \o @] ELSE lists
Completed(d) ==
  IF d.space # "tag" \/ ~d.def THEN complete
  ELSE complete \cup {IF PushTag(d.name, d.def) THEN fresh ELSE lists.tags[FoundTag(d.name)].id}

(* The lists and the C scope after a declaration.                          *)
Declared(d) ==
  CASE d.space = "var" -> NewLocal(lists, Entry(d.name, d.sort))
    [] d.space = "typedef" -> [lists EXCEPT !.typedefs = <<Entry(d.name, "typedef")>> \o @]
    [] d.space = "enum" -> [lists EXCEPT !.enums = <<Entry(d.name, "enum")>> \o @]
    [] d.space = "tag" -> Tagged(d.name, d.def)
Recorded(scope, d) ==
  CASE d.space = "var" -> Push(scope, "vars", Entry(d.name, d.sort))
    [] d.space = "typedef" -> Push(scope, "typedefs", Entry(d.name, "typedef"))
    [] d.space = "enum" -> Push(scope, "enums", Entry(d.name, "enum"))
    [] d.space = "tag" -> IF PushTag(d.name, d.def) THEN Push(scope, "tags", Entry(d.name, "tag")) ELSE scope

Decl(space, n, s, def) == [space |-> space, name |-> n, sort |-> s, def |-> def]
VarDecls == {Decl("var", n, s, FALSE) : n \in Names, s \in uses.sorts}
OtherDecls == {d \in {Decl(sp, n, sp, f) : sp \in uses.spaces, n \in Names, f \in BOOLEAN} : d.def => d.space = "tag"}
Legal(d) == d.space = "tag" \/ ~DeclaredHere(d.name)

(* declaration() in a block.  A function or extern declaration makes a     *)
(* global of that name too.                                                *)
Declare(d) ==
  /\ InFunction /\ Step /\ Legal(d)
  /\ lists' = Declared(d) /\ complete' = Completed(d)
  /\ scopes' = [scopes EXCEPT ![Len(scopes)] = Recorded(@, d)]
  /\ fnScope' = IF d.space = "var" THEN FnScope(Entry(d.name, d.sort), Depth) ELSE fnScope
  /\ globals' = IF d.space = "var" /\ d.sort = "func" THEN globals \cup {d.name} ELSE globals
  /\ fresh' = fresh + 1 /\ exits' = {}
  /\ UNCHANGED <<labels, switch, loop, frames, pending, labelled, heads>>

(* A declaration at file scope, in parse().                                *)
DeclareGlobal(d) ==
  /\ ~InFunction /\ Step /\ Legal(d)
  /\ lists' = IF d.space = "var" THEN lists ELSE Declared(d)
  /\ complete' = Completed(d)
  /\ globals' = IF d.space = "var" THEN globals \cup {d.name} ELSE globals
  /\ scopes' = [scopes EXCEPT ![1] = IF d.space = "var" THEN @ ELSE Recorded(@, d)]
  /\ fresh' = fresh + 1 /\ exits' = {} /\ pending' = {}
  /\ UNCHANGED <<labels, fnScope, switch, loop, frames, labelled, heads>>

(* parse(), a function definition: params is the first parameter, the last *)
(* entry of the list of locals.                                            *)
BeginFunction(params) ==
  /\ ~InFunction /\ Step
  /\ LET entries == [i \in 1..params |-> [id |-> fresh + params - i, name |-> "param", sort |-> "auto"]]
     IN  /\ lists' = [lists EXCEPT !.locals = entries]
         /\ fnScope' = IF params = 0 THEN NULL ELSE fresh
         /\ frames' = <<[kind |-> "fn", before |-> [lists EXCEPT !.locals = entries],
                         body |-> [lists EXCEPT !.locals = entries],
                         switch |-> Absent, loop |-> Absent]>>
         /\ scopes' = Append(scopes, [NoScope EXCEPT !.vars = entries])
  /\ labels' = [l \in Labels |-> Absent] /\ labelled' = [l \in Labels |-> Unlabelled]
  /\ switch' = Absent /\ loop' = Absent
  /\ fresh' = fresh + params /\ exits' = {} /\ pending' = {} /\ heads' = {}
  /\ UNCHANGED <<complete, globals>>

(* The head of if, while, do, for and switch: an expression may define an  *)
(* enum or a struct; only for has declarations.  cleanup_end is the locals *)
(* after the head.                                                         *)
HeadDecls(kind) ==
  CASE kind = "for" -> VarDecls \cup OtherDecls
    [] kind \in {"if", "while", "switch"} -> {d \in OtherDecls : d.space # "typedef"}
    [] OTHER -> {}

Opened(kind, after, decls) ==
  /\ lists' = after
  /\ frames' = Append(frames, [kind |-> kind, before |-> lists, body |-> after, switch |-> switch, loop |-> loop])
  /\ switch' = IF kind = "switch" THEN Ptr(after.locals) ELSE switch
  /\ loop' = IF kind \in {"while", "for"} THEN Ptr(after.locals) ELSE loop
  /\ scopes' = scopes \o decls
  /\ exits' = {}
  /\ UNCHANGED <<globals, labels, pending, labelled>>

Open(kind) ==
  /\ InFunction /\ Step /\ Len(frames) < MaxDepth
  /\ Opened(kind, lists, <<NoScope, NoScope>>)
  /\ UNCHANGED <<complete, fnScope, heads, fresh>>

OpenHead(kind, d) ==
  /\ InFunction /\ Step /\ Len(frames) < MaxDepth
  /\ Opened(kind, Declared(d), <<Recorded(NoScope, d), NoScope>>)
  /\ fnScope' = IF d.space = "var" THEN FnScope(Entry(d.name, d.sort), Depth) ELSE fnScope
  /\ complete' = Completed(d)
  /\ heads' = IF d.space = "var" /\ Depth = 1 THEN heads \cup {fresh} ELSE heads
  /\ fresh' = fresh + 1

-----------------------------------------------------------------------------
(* Mutant: the block leaves its enumeration constants behind.              *)
RestoredNoEnums(f) ==
  CASE f.kind \in {"block", "expr", "fn"} -> [f.body EXCEPT !.enums = lists.enums]
    [] f.kind = "for" -> [f.before EXCEPT !.tags = f.body.tags]
    [] OTHER -> [f.body EXCEPT !.enums = f.before.enums]

(* The lists a statement puts back at its end: a block all four; for the   *)
(* locals, typedefs and enums; if, while and switch the enums alone.       *)
Restored(f) ==
  CASE f.kind \in {"block", "expr", "fn"} -> f.body
    [] f.kind = "for" -> [f.before EXCEPT !.tags = f.body.tags]
    [] OTHER -> [f.body EXCEPT !.enums = f.before.enums]

(* What the ends of the block and, for "for", of its head clean.           *)
EndOf(f) ==
  {Exit(f.kind, Appended(lists.locals, Ptr(f.body.locals)), Own(Last(scopes).vars))}
  \cup (IF f.kind = "for"
        THEN {Exit("head", Appended(f.body.locals, Ptr(f.before.locals)), Own(scopes[Len(scopes) - 1].vars))}
        ELSE {})

Close ==
  /\ Len(frames) > 1 /\ Step /\ LabelsDefined
  /\ LET f == Last(frames)
     IN  /\ lists' = Restored(f)
         /\ switch' = f.switch /\ loop' = f.loop
         /\ exits' = EndOf(f)
  /\ scopes' = Closed /\ frames' = Front(frames) /\ labelled' = LabelsClosed
  /\ UNCHANGED <<complete, globals, labels, fnScope, pending, heads, fresh>>

(* The end of a function body: nothing is appended, the epilogue cleans    *)
(* fn->locals.                                                             *)
Epilogue(fnLocals) == Emitted(fnLocals, NULL)

EndFunction ==
  /\ UNCHANGED uses /\ LabelsDefined
  /\ Len(frames) = 1 /\ steps < uses.steps /\ steps' = steps + 1
  /\ ended' = [over |-> TRUE, locals |-> lists.locals]
  /\ exits' = {Exit("end", Epilogue(lists.locals), ToClean(InScope))}
  /\ lists' = Restored(Last(frames))
  /\ frames' = <<>> /\ fnScope' = NULL
  /\ scopes' = Front(scopes)
  /\ UNCHANGED <<complete, globals, labels, switch, loop, pending, labelled, heads, fresh>>

-----------------------------------------------------------------------------
(* Jumps.  Innermost breakable statement of the source, and the locals in  *)
(* scope outside it.                                                       *)
Breakable == {i \in DOMAIN frames : frames[i].kind \in {"while", "for", "switch"}}
Loops == {i \in DOMAIN frames : frames[i].kind \in {"while", "for"}}
After(i) == frames[i].body.locals

(* Mutant: the loop first.                                                 *)
BreakEndLoop == IF loop # Absent THEN loop ELSE switch

BreakEnd == IF switch # Absent THEN switch ELSE loop

Break ==
  /\ "break" \in uses.jumps
  /\ Breakable # {} /\ Step
  /\ exits' = {[Exit("break", Emitted(lists.locals, BreakEnd), Leaving(InScope, After(Max(Breakable))))
                  EXCEPT !.late = frames[Max(Breakable)].kind # "switch" /\ switch # Absent]}
  /\ UNCHANGED <<parser, pending, scopes, labelled, heads, fresh>>

Continue ==
  /\ "continue" \in uses.jumps
  /\ Loops # {} /\ Step
  /\ exits' = {Exit("continue", Emitted(lists.locals, loop), Leaving(InScope, After(Max(Loops))))}
  /\ UNCHANGED <<parser, pending, scopes, labelled, heads, fresh>>

Return ==
  /\ "return" \in uses.jumps
  /\ InFunction /\ Step
  /\ pending' = pending \cup {[Exit("return", <<>>, ToClean(InScope))
                                 EXCEPT !.begin = lists.locals, !.end = fnScope, !.late = fnScope \in heads]}
  /\ exits' = {}
  /\ UNCHANGED <<parser, scopes, labelled, heads, fresh>>

(* goto to a label not seen yet is completed when the label is parsed.     *)
Goto(l) ==
  /\ "goto" \in uses.jumps
  /\ InFunction /\ Step /\ labelled[l].depth # OutOfReach
  /\ pending' = pending \cup {[Exit("goto", <<>>, <<>>)
       EXCEPT !.begin = lists.locals, !.end = IF labels[l] # Absent THEN labels[l] ELSE fnScope,
              !.from = InScope, !.label = l, !.late = labels[l] = Absent]}
  /\ exits' = {}
  /\ UNCHANGED <<parser, scopes, labelled, heads, fresh>>

(* __label__: a scope is recorded although the label is yet to come.  The  *)
(* parser lets another block announce the same label, which is of use only *)
(* to define it again; but gen() names an assembler label after function   *)
(* and label alone, so that no such program assembles (README, section 6). *)
LocalLabel(l) ==
  /\ "label" \in uses.jumps
  /\ InFunction /\ Step /\ labels[l] = Absent
  /\ labels' = [labels EXCEPT ![l] = Ptr(lists.locals)]
  /\ labelled' = [labelled EXCEPT ![l].depth = Depth]
  /\ exits' = {}
  /\ UNCHANGED <<lists, complete, globals, fnScope, switch, loop, frames, pending, scopes, heads, fresh>>

(* record_label_scope(), resolve_pending_gotos().                          *)
Resolved(l) ==
  {IF j.label = l /\ j.late THEN [j EXCEPT !.end = Ptr(lists.locals)] ELSE j : j \in pending}

LabelStmt(l) ==
  /\ "label" \in uses.jumps
  /\ InFunction /\ Step /\ ~labelled[l].seen
  /\ labels' = [labels EXCEPT ![l] = Ptr(lists.locals)]
  /\ labelled' = [labelled EXCEPT ![l] = [@ EXCEPT !.seen = TRUE, !.vars = InScope]]
  /\ pending' = Resolved(l)
  /\ exits' = {}
  /\ UNCHANGED <<lists, complete, globals, fnScope, switch, loop, frames, scopes, heads, fresh>>

Next ==
  \/ \E d \in VarDecls \cup OtherDecls : Declare(d) \/ DeclareGlobal(d)
  \/ \E n \in 0..MaxParams : BeginFunction(n)
  \/ \E kind \in uses.kinds : Open(kind) \/ \E d \in HeadDecls(kind) : OpenHead(kind, d)
  \/ Close \/ EndFunction
  \/ Break \/ Continue \/ Return
  \/ \E l \in Labels : Goto(l) \/ LocalLabel(l) \/ LabelStmt(l)

Spec == Init /\ [][Next]_vars

-----------------------------------------------------------------------------
(* primary(): a typedef name starts a declaration, then the enumeration    *)
(* constants, the locals (and the globals: NULL here).                     *)
First(list, n) == LET f == {i \in DOMAIN list : list[i].name = n} IN IF f = {} THEN NULL ELSE list[Min(f)].id
Find(n) ==
  IF First(lists.typedefs, n) # NULL THEN First(lists.typedefs, n)
  ELSE IF First(lists.enums, n) # NULL THEN First(lists.enums, n)
  ELSE First(lists.locals, n)

(* What C finds: the newest of the three kinds of names in scope, ids being*)
(* given out in the order of the source.                                   *)
Visible(n) == {First(Flat("typedefs"), n), First(Flat("enums"), n), First(InScope, n)} \ {NULL}

(* Every list has one entry per declaration, and the saved values are      *)
(* values the lists had.                                                   *)
TypeOK ==
  /\ fresh \in 1..(1 + (1 + MaxParams) * uses.steps) /\ steps \in 0..uses.steps
  /\ \A f \in {"locals", "typedefs", "tags", "enums"} :
       \A i \in DOMAIN lists[f] : lists[f][i].id < fresh /\ (i > 1 => lists[f][i].id < lists[f][i - 1].id)
  /\ \A i \in DOMAIN frames :
       /\ frames[i].kind \in Kinds /\ (frames[i].kind = "fn") = (i = 1)
       /\ IsSuffix(frames[i].body.locals, lists.locals)
       /\ IsSuffix(frames[i].before.typedefs, lists.typedefs)
  /\ InFunction => (loop = Absent) = (Loops = {})

(* A name means its innermost declaration (primary(), is_typename()), but  *)
(* a variable does not hide a typedef or an enumeration constant of an     *)
(* outer block, nor an enumeration constant a typedef.                     *)
InnermostName ==
  InFunction =>
    \A n \in Names : Visible(n) # {} =>
      \/ Find(n) = Max(Visible(n))
      \/ Find(n) \in {First(Flat("typedefs"), n), First(Flat("enums"), n)} \ {NULL}

Reached(j) == labelled[j.label].seen
GotoCleans(j) ==
  LET at == labelled[j.label]
      due == Leaving(j.from, at.vars)
  IN  /\ ToSet(due) \subseteq ToSet(Emitted(j.begin, j.end))
      /\ ToSet(at.vars) \subseteq ToSet(j.from) /\ at.depth = 0 => Emitted(j.begin, j.end) = due

(* Falling out of a block, a for, a statement expression or the function,  *)
(* break and continue clean the variables they leave, innermost first, and *)
(* nothing else.  Two exceptions: an array of a type with a cleanup        *)
(* function is not cleaned at the end of a block, and break of a loop in a *)
(* switch cleans up to the switch.  goto cleans the variables in scope at  *)
(* it and not at its label, when nothing in scope at the label is declared *)
(* after the goto and the label was not announced by __label__; otherwise  *)
(* at least these.                                                         *)
ExitsCleanScope ==
  /\ \A e \in exits : IF e.late THEN IsPrefix(e.due, e.cleaned) ELSE e.cleaned = e.due
  /\ \A j \in pending : j.kind = "goto" /\ Reached(j) => GotoCleans(j)

(* return and the epilogue together clean everything in scope, once, when  *)
(* current_fn_scope_locals is a variable of the function's outermost block *)
(* (it is not once a for there has declared one) and nothing with a        *)
(* cleanup function is declared there after the return.                    *)
ReturnsCleanScope ==
  ended.over =>
    \A j \in pending : j.kind = "return" =>
      \/ Emitted(j.begin, j.end) \o Epilogue(ended.locals) = j.due
      \/ j.late
      \/ ~(ToSet(Epilogue(ended.locals)) \subseteq ToSet(j.due))
=============================================================================
