# A TLA+ verification of RCC

RCC (`src/src/`) is a C compiler: it preprocesses, tokenizes, parses, folds
constants and writes x86_64 or ARM64 assembly that `gcc` assembles and links.
It runs as one process and one thread; what makes it hard to get right is
global state that many functions update in an order no single function sees:
the registers in use, the bytes below `%rbp`, the line counters, the macro
lists, the scopes.  The code it emits for atomic operations does run
concurrently.  The modules here model that state, TLC explores every order of
the operations on small instances, and TLAPS proves the main properties of eight of
them for all instances.

The main target is x86_64 System V (Linux); NodeGen and Atomics also cover ARM64,
Calls also ARM64 and Windows.  Paths below are relative to `src/src/` unless they
start with `src/`.

## 1. Inventory

| component | state | operations | interacts with | what makes it correct |
|---|---|---|---|---|
| driver, `main.c` | option flags, include paths, lists of temporary files | `main` | calls every phase once per source file; phases keep globals between files | options take effect; files are compiled independently; temporary files removed; failures reported |
| arena and interning, `alloc.c` | chunk list, 4096 hash chains | `arena_alloc`, `format`, `str_intern` | used by everyone; nothing is freed | blocks disjoint and aligned; equal strings have one pointer |
| macro table, `preprocess.c` | `macros`, `macro_htab`, `cmdline_macros`, `saved_macros`, `macro_stack` | `define_macro`, `#undef`, `push_macro`, `pop_macro`, `add_define`, `add_undef`, `clear_macros` | options from `main.c`; looked up by expansion and `#ifdef` | a look-up finds the definition in force |
| source lines, `preprocess_file` | conditional stack, `line_no`, accumulator, `once_files` | one per directive and kind of line; recursion on `#include` | line markers read by the lexer | exactly the selected lines are compiled; line numbers are right |
| macro expansion, `expand_text` | `disabled` flags, argument arrays | expansion, substitution, pasting | macro table | C's rescanning rule, termination |
| `#if` expressions, `eval_pp_expr` | none | recursive descent | macro table | value of the expression |
| pack state | `pack_align`, its stack; the parser's copy | `#pragma pack` | two readers of one global | parser and preprocessor agree |
| lexer, `lexer.c` | `current_input`, `line_num`, `current_line_offset`, `cur_lineno` | `tokenize`, `compute_line_no` | markers from the preprocessor, errors from the parser | a token's line is its source line |
| Unicode, `unicode.c` | scripts seen | identifier checks | lexer, preprocessor | table look-ups |
| parser, `parser.c` | scopes, tags, typedefs, `locals`, `stack_offset`, labels and pending gotos | declarations, statements, expressions | writes the AST and the frame layout of locals | scoping, layout, initialisers |
| types and folding, `type.c`, `opt.c` | none / evaluation environment | `add_type`, `optimize` | AST | folding keeps the value |
| register allocator, `codegen.c` | `used_regs`, `ever_used_regs`, `spilled_regs`, `spill_slot[]` | `alloc_reg`, `free_reg`, `spill_offset` | every `gen` case; prologue | a live value is not overwritten |
| calls, `gen_funcall` | saved scratch registers, argument arrays, struct buffers | one call | allocator, frame | arguments arrive, live values survive |
| frame, `codegen` and `new_var` | offsets below `%rbp` | prologue, epilogue | parser (locals), allocator (slots), calls (buffers) | regions apart, covered, aligned |
| expressions and statements, `gen` | break/continue stacks, label counter | one case per node kind | all of the above | compiled code computes the expression |
| atomics, `gen` | the object, each thread's registers | one instruction sequence per builtin | other threads | each operation is one step, and returns |
| peephole, `emit_peephole_body` | window over the emitted lines | rewrite rules | text of the body | a rewrite keeps the meaning; the loop ends |

Hard behaviours: running out of registers; values live across calls and nested
calls; five independent users of the stack frame; conditionals nested in
skipped groups; line numbers through continuation lines, multi-line macro calls
and includes; state that survives from one source file to the next; caller and
callee that must agree without talking; clean-up ranges fixed before the code they
cover is known; the same arithmetic done in three evaluators; threads in the
emitted atomics; failures of one file among several.  The compiler itself has no
threads, messages, timeouts or persistent state, so no such hazards are listed.
`PROJECT.json` lists each hazard at its line with the properties that cover it.

## 2. Plan

Done, in this order: RegAlloc, Frame, PpFile, MacroTable with their first proofs;
then NodeGen with its templates and GenContract, Calls, Atomics with AtomicSpec,
Driver, Layout, Scopes, ConstExpr and ExprText, Peephole, InitData, MacroExpand.

Composition.  MacroExpand extends MacroTable (a line is expanded with the macros
the table's operations left) and InitData extends Layout (an object is initialised
with the layout its struct got under the pack directives before it).  GenScalar,
GenControl, GenArith, GenCall and GenAsm give the node templates NodeGen runs;
NodeGen uses the allocator's discipline that RegAlloc proves.  ExprText extends
ConstExpr.  GenContract and AtomicSpec are abstract specifications, implemented by
NodeGen and Atomics.

Proofs: RegAlloc, Frame and PpFile first; then Atomics (the refinement), Calls
(agreement for any number of parameters and registers), Layout (disjoint members
and the ABI's layout for any members), MacroTable (list and table) and Scopes (names
and clean-up for any nesting).  Left: Driver (temporary files).  The modules with
RECURSIVE operators (InitData, MacroExpand, ConstExpr, ExprText, Peephole) stay with TLC.

## 3. Modules and the code

### RegAlloc

One record `cg` holds `used_regs`, `ever_used_regs`, `spilled_regs` (as sets),
`spill_count`, `spill_slot[]` and `next_spill_slot`, and the machine they describe:
the contents of the allocatable registers and of the slots.  `gen()` emits an
instruction at the moment it allocates, and within one straight-line expression
instructions run in the order they are emitted, so the model executes them at
once.  `temps` holds the values of the `gen()` calls in progress (register and
intended value), `calls` the `gen_funcall()` calls in progress.

| action | code |
|---|---|
| `Load` | `gen()` of a constant or variable: `alloc_reg`, then a load |
| `Binary` | the tail of a two-operand node: `op rhs, lhs; free_reg(rhs)` |
| `Discard` | `ND_EXPR_STMT`, the left side of a comma |
| `CallBegin` | `saved_scratch`, the stores of `%r10` and `%r11` |
| `CallEnd` | two-pass argument placement, `free_reg` of each, the call, reloads, result register |
| `BeginFunction` | the resets in `codegen()` |

Any C expression made of those nodes is a sequence of these actions, nested
calls included.  Everything else `gen()` does is in NodeGen.  The callee is
external: it leaves arbitrary values (`Junk`) in the registers System V lets it
change.

### Frame

The offsets below `%rbp` of one function after another: `NewVar` (`new_var`, while
parsing), `UseSlot`, `UseFixed`, `UseReg`, `StructBuffer` (while generating),
`EmitFrame` (the prologue computed last, and the slot an epilogue with
`__cleanup__` takes after that).  `AlignTo` is `align_to` for powers of two, by
division.  Sizes are natural numbers: a function whose frame exceeds the range of
`int` is not considered.  `alloca` and VLAs lie below the frame and are not part of it.

### NodeGen, GenContract and the templates

A case of `gen()` or `gen_addr()` is, for one outcome of its tests on types and
sizes, a fixed sequence of calls of `gen()`, `alloc_reg()`, `printf()` of
instructions, and `free_reg()`.  A *template* is that sequence.  GenScalar has the
addresses, loads, stores, bit-fields and conversions, GenControl statements and
short-circuit operators, GenArith binary operators, atomics and `va_arg`, GenCall
calls and builtins, GenAsm inline assembly; a definition is a family of templates
(the parameters are the tests).  GenOps has their elements.

NodeGen walks over one template as the compiler does and runs the emitted
instructions at the same time.  The compiler's part (`used`, `reg`) follows the text;
the machine's part (`val`, `slot`, `stk`) skips to the label when a jump is taken, so
the two come apart exactly as they do in reality.  Values are named by what they are
(operand, old value, result), not computed.  A child node is one step that keeps the
contract; hence the property, *every case keeps the contract*, gives by induction on
the tree that every expression does.  The contract (GenContract): what is in use stays
in use with its value, at most one more register is in use and holds the node's value,
the stack pointer is back.  `ImplementsContract` is that refinement; `ReadsIntact`
says that an instruction reads what the case put in its operands.

The surroundings of a node are every prefix of the register order that leaves enough
registers, and every set of up to two of the first four.  `MCNodeGen` names the nodes
and surroundings that are left out because they break the contract (section 6).

### Calls

One call between two separately compiled functions.  `ArgSysV`, `ArgWin`, `ArgArm` are
the caller's loop over arguments, `ParamSysV`, `ParamWin`, `ParamArm` the prologue's
loop over parameters, `VaStart` and `VaArg...` the variadic callee.  A place is a
register or stack word and the form in which the value is there (by value, by pointer,
single or double, x87 or quad).

### Atomics and AtomicSpec

An action is one instruction that touches the shared object, with what the thread does
in registers up to the next one.  x86_64 uses `lock` instructions and `cmpxchg` loops,
ARM64 exclusive loads and stores with a monitor that any write to the object clears and
that may also be lost for no reason.  AtomicSpec has one step per operation.

### Peephole

The window `w` of three lines, the lines written and the rest of the body.  `ReadLine`
shifts a line in, `Rewrite` tries the patterns in the code's order, `Flush` writes
what is left.  `LiveInText` is the code's scan of what follows, up to `ScanLines` lines.
A small machine, with registers of two halves whose low half's write clears the high
one, says what a body means.

### Driver

The command line (`Option`), the loop over the files (`ObjectFile`, `SourceFile`, `Phase`,
`Codegen`, `Error`), the `gcc` command (`Link`), the removal of temporary files.  An
argument's length is counted in units so that both fixed buffers can fill up.  `fate`
chooses the phase in which a source fails; `gcc`, external, succeeds or fails.

### PpFile

Each step of the specification is one logical line of the source chosen on the
spot, so every possible file is covered.  A frame is one activation of
`preprocess_file()`; `Include` pushes one and `EndInclude` pops it, which is the
recursion of the code.  The value of a condition is an input.  `line_no` is moved by the
counts that `splice_lines_with_counts()` made, at the end of the loop's body (`LoopEnd`)
and where a function-like `#define` leaves it early (`EarlyContinue`); `Hold` notes the
line on which held-back text begins, and `expanded` is what the step before gave to
`expand_text()` as `__LINE__`, beside the line on which that text really begins.  The
lexer's two line counters are kept for the end of the output.  Fields used only by
properties (`src`, `groups`, `wf`, `incs`, `odd`) are listed in the module's head.  Every
file has at least one line; `#include` lines are not continued with a backslash.

### MacroTable and MacroExpand

The heap of `Macro` nodes with their `next` links, the hash chains, the three list
heads and `macro_stack`.  Nodes are shared between lists as in the code.  A body
stands for all fields a definition sets.  `want`, `pushed` and `opts` are what C
says; they do not influence the table.  The main program's part is `OptionD`,
`OptionU` and `BeginFile`.

MacroExpand adds source lines.  `ExpandText` and `Scan` are `expand_text()`: one pass over
the tokens, calls of itself for arguments and bodies, and further passes until the text
stays the same; `disabled` is the set `off`, the `\x02` paint the field `blue`.  The
reference `CExpand` is the standard's rule in its usual form with a hide set per token.

### Layout and InitData

Layout is `struct_or_union_specifier()` member by member (`AddField`, `AddBitsGcc`,
`AddBitsPacked`, `AddBitsMs`, `AddPad...`, `AddBitsUnion`, `EndStruct`) and the pack
directives on both sides (`PackPush`, `PackPop`, `PackSet`, `PackReset`).  `AbiNext` is the
System V rule for the next member, stated independently.

InitData then initialises an object of the finished struct, an array of it without a
length, or a struct that contains it, as a global or as a local.  The parser's functions
are operators over the list of items; memory is bits that name their origin, so that
equality of two objects compares every bit.  `Listed` is C's rule.

### Scopes

The four lists, newest first, and one action per declaration, opening or closing of a
block, loop, switch or statement expression, jump and label.  A jump records the range of
locals it will clean up as the code does; the ranges are evaluated when the code is
emitted.  `scopes`, not part of the parser, is what C says is open: one C scope for the
file, one for the function, and two for each statement, that of its head (empty unless
the head declares something) and that of its body.

### ConstExpr and ExprText

The state is an expression as tokens and as the tree C's grammar gives them; a step puts
an operator around it.  `Parse` is the precedence climb from `conditional()` to `unary()`,
`Typed` is `add_type_internal()`, `EvalConst` is `eval_const_expr()`, `FoldValue` is
`optimize_node()`, `PpEval` is `eval_pp_expr()`.  Bytes of two bits bring all limits of the
types into reach.

## 4. Runs

| run | states | what it shows |
|---|---|---|
| `regalloc` | 184 thousand | slots never shared, registers recorded, nothing leaks; without a spill live values survive nested calls and arguments arrive |
| `frame` | 269 thousand | locals, slots and buffers apart, frame large enough, 16-aligned |
| `nodegen` | 161 thousand | every node's code keeps the contract (refinement) and reads intact operands |
| `calls` | 110 thousand | caller and callee agree on every argument; places are apart; `va_arg` finds the unnamed ones |
| `atomics` | 163 thousand | the instruction sequences implement one-step operations (refinement) and every operation returns (ARM64's fetch operations excepted) |
| `peephole` | 145 thousand | every rewrite keeps the body's meaning; every body is written |
| `driver` | 92 thousand | temporary files, output files, the gcc command, termination |
| `pp` | 706 thousand | a line is active exactly when C selects it; text is expanded with the line it begins on, and `line_no` right, until a file includes another, the lexer's lines until the second include |
| `macros` | 878 thousand | lists and table agree, the first file sees C's definitions, a line expands to what C says |
| `layout` | 583 thousand | members apart and where the ABI puts them, pack values agree, initialised objects exact |
| `scopes` | 372 thousand | names find the innermost declaration; every exit cleans what it leaves |
| `constexpr` | 219 thousand | parser, types, folding, constant evaluation and `#if` agree with C and each other |

Where the code is known to be wrong, a property excludes the case by a condition that
names it (`Mismatched`, `PutBack`, `LostRun`, `LosesPlace`, `Truncated`, `Unknown`,
`DefectiveWith`, `TakesEnclosing`, ...), and section 6 lists it.  Outside those conditions the
properties hold without exception.

Bounds.  `regalloc` uses four registers (two scratch, one callee-saved, `%rsi`:
one of each kind) and five values, so that every register can be in use and one
more is asked for, and calls nested twice, so that an inner call uses the slots of
an outer one; one spill is enough for the properties that do not exclude it.
`frame` uses the real eight registers, sizes and alignments on both sides of the
roundings (in `MCFrame`), two locals and two buffers, since overlap is a property
of pairs.  `nodegen` uses all eight registers of x86_64 and eight of the twelve of ARM64.
`calls` has two registers per class, so that each of up to five arguments can be the first
on the stack.  `atomics` has two threads, two operations each, on a two-bit object.
`peephole` has bodies of three lines of all kinds, four of the kinds that match patterns,
and five with jumps; the scan for a later read looks at two lines, where the code's looks
at more, so that both sides of its end are reached.  `driver` has command lines
of a flag, up to three files and three linker arguments that fit, just fit and do not fit.
`pp` has four lines of one or two physical ones, two levels, three groups and one include:
a complete inner conditional in a skipped group needs no more.  `macros` has two names in
one bucket, one of them predefined, three nodes, two pushes and two files: an undefined
macro can be defined again, and a name pushed twice is popped in turn; its lines use three
names, among them one that only `##` can make, and sixteen bodies.  The expansion depth of 20 is
the code's and is not reached.  `layout` has three members or pragmas and members, twelve
kinds of members around every rounding and unit size, initialisers of two items, eight
kinds for the first and four for the second.  `scopes` has functions of five to eight statements and three levels, in four
vocabularies.  `constexpr` has up to three operators, in five grammars.

`CHECK_DEADLOCK FALSE` is set where the system ends: a source file is read, the
last file or function is compiled, the body is written, every thread has done its
operations, or the bound is reached.  The other runs check deadlock.

Fairness.  `driver` and `peephole` are sequential programs: weak fairness of the whole
next-state relation says that the process runs.  `atomics` assumes weak fairness of each
thread's instructions (the scheduler) and, on ARM64, strong fairness of the store-exclusive
of an exchange and of a compare-and-exchange: the architecture promises that such a loop
does not fail for ever when it accesses no other memory between load and store.  The
loops of the fetch operations store to the frame there (6058), which may also cost them
the monitor (`LoadExclusive`); nothing is promised of them, no fairness is assumed, and
`OperationsReturn` leaves them out (`StoresInside`).  A `cmpxchg` loop needs only weak fairness, since an iteration fails only if
another operation has succeeded, and the model's threads do a bounded number of them.

## 5. Proofs

The theorems hold for every value of the constants allowed by the assumptions
named in the modules (at least three registers, any value set, any sizes, power of
two alignments up to 32, any number of lines, files and depth).

**RegAllocProofs.**  `TempsIntact` is not inductive: that a live value is not
overwritten needs that live values have different registers, that those are in
`used_regs`, and that what a pending call has saved is still in its slot.  `IInv`
is `Bookkeeping` (types, slots below `next_spill_slot` and distinct, the number of
slots given out, a register is used only if some value is held in it, what a pending call
saved has a slot) and, as long as nothing was spilled, `StackLike`: registers are given
out like a stack, so that the i-th live value is in register i - 1 and the used registers
are exactly these, and the slot of a register that a pending call has saved holds
the register's value.  One step per action shows that
each part is kept; `TypeCorrect`, `SlotSafety`, `PushesCoverHeld`, `ValuesSurvive`,
`CallsGetArgs` and `NothingLeaks` follow.

**FrameProofs.**  `IInv` is the type invariant with `SlotsBelow40` (three registers
ever get a slot, so slots end at 40 and, with the fixed ones, before the first
local at 80), `LocalsPlaced` and `BuffersPlaced` (each region lies between its
predecessors and the running offset) and `FrameSized` (`sub` is computed from the
final values).  Arithmetic on `AlignTo` is in lemmas of its own.

**PpFileProofs.**  `IInv` is `FramesOK /\ LexOK /\ Rest`.  `FramesOK` describes each
frame: for every open conditional of a well-formed frame, `parent` is the selection of
the enclosing groups, `taken` says whether a condition of the chain has held there and
`active` whether the current group is selected.  The innermost frame is `Reading`: every
count taken was added to `line_no`, which is the line read next until the file includes
another, and `acc_line_no` is the line on which the text held back begins.  The frames
below are `Waiting`: their `#include` line is read and not yet counted, which is what the
marker after it compensates.  `LexOK` ties the lexer's line to the physical line of the
source file, and `Rest` says that the last expansion was `Told` the right line and types
the remaining variables.  `SelectedLinesActive` is not
inductive by itself: after `#endif` the answer comes from the record below.

**AtomicsProofs.**  The refinement: every instruction of the emitted code is a step of
AtomicSpec or a stutter, under the mapping that makes an operation's outcome appear when
its last instruction runs.  `IInv` says what a thread between two instructions knows: on
x86_64, `%rax` and the new value belong to what the object holds now; on ARM64, they
belong to what was loaded, and that is what the object holds as long as the monitor is
set.  The second survives other threads' writes, since a write clears the monitor.  The
first survives only if nobody writes, which is the hypothesis `LoopsBesideReaders` of
`Linearizable`: the `cmpxchg` of the loops compares with a `%rax` that is not loaded
again.  The run's programs satisfy it and contain every operation.  `Spec` is stated
with fairness, which the proof does not use.

**CallsProofs.**  `IInv` has a caller's and a callee's half.  `Caller`: what has been
passed lies below the counters, each argument after the earlier ones of its kind.
`Agreed` and `Callee`: the callee's counters at argument n are those the caller had
there.  The caller has gone on, so its counters at n exist only in the past: `History`
is a function from positions to counters that satisfies the caller's step at each
position, and the invariant says that one exists.  On Windows and ARM64 the callee
recomputes some counters from the signature; `Entry` and `Varargs` say how.

**LayoutProofs.**  `PackAgrees` is inductive with `PackKnown`.  For `MembersApart`,
`GccCursor` and `MsCursor` say where the next bit of GCC's and of Microsoft's layout lies
relative to the members laid out; `Apart` orders the members.  The excluded cases
(`PutBack`, `LostRun`) appear in the same places as in the property.  For `MatchesAbi`,
`AbiCursor` says that the running bit offset is what the ABI's rule adds up to,
declaration by declaration, again with a function that exists.  `PowersAssumption` says
that of two alignments or unit sizes the smaller divides the larger.  For the types'
that is so; for `_Alignas`, `aligned` and `#pragma pack` C and GCC allow powers of two
only, which the compiler does not check: with 3 and 2 the members' alignments could not
all be kept, whatever the code did.
`FitsFacts` compares the code's test, by division, with the rule, by remainder.

**MacroTableProofs.**  `IInv` describes the table as long as no name is given twice: in
later files a name that was is found by its older node, and the properties say nothing
of it.  While options are read (`Options`), the nodes are those of the `-D` options, one
name each, on one list in order of allocation, and no predefined name among them; the
list and the table of the running file are empty.  Afterwards (`Running`) some sequence
of nodes is the list from `macros` on, with one name per node, and each bucket's chain
holds exactly its nodes with that hash, each once (`Agree`); in the first file moreover
`macro_stack` is what C's pushes and pops leave and `find_macro()` finds what C says.
Two more facts carry it over the next file: links lead from newer to older nodes
(`Linked`), so that the snapshot is a list whatever became of its nodes' links, and the
nodes up to `saved_macros` keep the different names they had when it was taken.  The
list is treated as a sequence of links, so that
unlinking and insertion are lemmas about sequences; `RefillFacts` and `PredefinedKeeps`
are the two loops.  `PredefinedAssumption` says that the compiler predefines some macro
(with none, `saved_macros` would be NULL and the next file would take a snapshot again).

**ScopesProofs.**  Four layers, each inductive given those before it, and each a relation
between lists of unbounded length.
`Base`: the lists mirror the C scopes.  For each open statement, what it has saved of
the lists is what its enclosing C scopes declare, scope by scope (`FrameMirrors`), and
the current lists are what all open scopes declare; so putting a saved list back is
leaving a scope, and `NamesAreInnermost` follows.
`Sharing`: the parser's lists are linked, and a range is walked until the entry it ends at
is met, which only makes sense because lists share their tails.  `T` gives the tail that
begins at each entry; some `T` exists such that the current list, the list at every label
and the list at every pending jump are built from it (`Chain`), and a declaration only
extends it.  A walk of such a list stops after what the target's list does not contain.
A label that `__label__` has announced and that is yet to come is `Held`: its list is part
of what its block and those around it declare.  This gives `goto`, forward and backward.
`Targets`: `current_switch` and `current_loop` hold the list after the head of the innermost
switch and loop, and each open statement has saved the values of the statements around it;
with it come break and continue (`ExitsClean`).
`Returns`: of a return's list and the list the epilogue will be left with, what follows
`current_fn_scope_locals` is the same (`Splits`); what has been declared in the outermost
block since the return is not in the return's list (`Apart`), and what precedes the
common end there has no cleanup function (`Plain`), since only a static variable leaves
`current_fn_scope_locals` where it was.  Hence `ReturnsClean`.

Histories.  A proof about a recursive function over a sequence of unbounded length needs
induction.  The library's induction theorems cannot be used (they take an operator), but
`NatSetInduction`, which quantifies over a set instead, follows from well-foundedness; it
and functions that exist are enough for the sums above.

Only model-checked.  Liveness (`driver`, `peephole`, `atomics`) is out of the prover's
reach.  ExprText, ConstExpr, InitData, MacroExpand and Peephole are RECURSIVE algorithms
whose results for all inputs need induction over their data.  NodeGen's properties range
over a table of several hundred templates: a proof would be the table once more, one
case per template, and TLC covers each in every surrounding.  Driver is built from
sequence operators of the community modules (`SelectSeq`, `FlattenSeq`, `FoldLeft`) about
which the provers know nothing; Scopes has recursive functions of its own in their place.

## 6. Not modelled, and known defects

Not modelled: text handling (tokenisation, comments, escapes), path search, the
Unicode tables, the arena and the string table, declarators and most of the type
system, floating-point and complex arithmetic, vectors, VLAs, compound literals,
`codegen.c.intel` (not built), the runtime stubs in `src/lib` and the headers; the
frame and the peephole patterns of ARM64.

Defects met while modelling.  Those marked * were also observed by compiling a small
program; the others come from reading.  Each is excluded from the properties by a
named condition, or lies outside the modelled part.

Registers and frame
- * A spilled `%rsi` is handed to a second operand: the operation computes `op(rhs, rhs)` (codegen.c:2560; README.md:51 says additional registers are spilled).
- * Spill slots are the bytes of the pushed callee-saved registers (codegen.c:7962); a variadic function's struct buffers lie in its save area (7965).
- * Bit-field post-increment returns a released register (4047-4051).
- * A `__cleanup__` call in `return` overwrites `%rax` (4638); `return d++` of a double as int reads a stale `%xmm0` (4594-4615).
- * Pointer difference overwrites a live `%r11` (6473); a struct return in a statement expression overwrites it too.
- * `p = (q = f())` of structs loses its destination (1806-1813, 2043-2056).
- Clean-up calls of break, continue and goto overwrite live scratch registers; `%rsi` live across a call is not saved; inline `memcmp` loads `%rsi` before it reads the length (1243); overflow builtins keep a flag in `%al` over `gen_addr`; `break_stack` has 128 entries and is not checked (4965).
- ARM64: `ZERO_INIT` and `VA_ARG` overwrite x11 and x12; a computed callee is evaluated after the arguments are placed (1747-1750).

Calls
- * A struct of more than 8 bytes on the stack is passed by pointer and read by value (1922, 7515); a ninth float is read as a single from a double; `va_arg(long double)` reads the vector area; a named long double gets one stack word and writes two.
- ARM64: float and homogeneous aggregates beyond the vector registers are misread, variadic functions restore callee-saved registers from the wrong place (7717, 7913).  Windows: `va_start` ignores named stack parameters.

Atomics
- * x86_64 `or`, `xor`, `and`, `nand` retry `cmpxchg` with a stale `%rax` (6141; README.md:75 claims atomics), which no instruction of the case loads: the node is left out of `nodegen`.  ARM64's 64-bit exchange stores 32 bits (5923); its fetch operations store to the frame between `ldxr` and `stxr` (6058), where the architecture promises no progress: `OperationsReturn` leaves them out (`StoresInside`).

Peephole
- Pattern 5 swaps operands; `sub` and `imul` never match pattern 4; pattern 4 ignores flags and zero extension; a conditional jump is no boundary of the scan; ARM64's patterns 1 and 3 are wrong (6860-6948).

Driver
- * `-S` of two files appends to a stale file of the second (main.c:456); an error in a later file leaves temporary files; `-c` with two files is refused by gcc; the command is cut at 1024 bytes.
- * `-U` has no effect and `-D` of a predefined name is overwritten (preprocess.c:575).
- Lists that survive to the next file: `once_files`, typedefs, the snapshot's macro nodes (107).

Preprocessor and lexer
- * The marker after a second `#include` is too far down (preprocess.c:1614, comment 1610); tokens after an include are two lines too low (lexer.c:333); errors before the last include are on line 1 (lexer.c:325).
- * `##` joins expanded arguments (817-821); with an empty operand it joins its neighbours across the space; `#` of `__VA_ARGS__` is not replaced and `#` of a named variable argument takes only its first; `, ## args` keeps the comma when `args` is missing; a call begun in a body and ended outside it is an error; `#` of an argument of a call completed outside the body of its name sees the expanded argument; `-x` with `x` = `-1` becomes `--1`; letters after a digit are taken for a macro's name.
- The 33rd argument of a call is written past the array (872); expansion stops at depth 20.
- * `#if`: no shifts and bit operators, `1L == 2` is true, bodies that are no number are 0, division by zero is 0; `defined X` takes a `)` that follows it, so that `(A || defined X) && Z` is read as `A || (defined X && Z)` (1064-1065; `TakesEnclosing`).  `#error` is ignored.
- * `#pragma pack(pop)` resets the parser's value, `pack(16)` is read as 1, `pack()` is ignored, the pack stack is not checked.

Layout and initialisers
- * A union with an anonymous struct has alignment 1 (parser.c:1270-1273); an explicitly aligned bit-field is put over its predecessor (1474-1478); in Microsoft's layout a width of 0 loses the run (1346-1358).
- * Elided braces before a designator are rejected; a second designator keeps what the first left; a packed bit-field that crosses its type's unit is truncated (2287); an inner row of an array takes one scalar (2494); items after a designated member of an anonymous or nested struct go astray (390-412, 2722); braced strings and braced bit-fields are rejected; arrays of unions without a length are rejected; an array shorter than its string is written in full (codegen.c:5203-5208).

Scopes
- * break in a loop inside a switch cleans up to the switch (3429); a forward goto past a later declaration cleans everything (3466); return cleans variables declared after it (codegen.c:8079); after a `for` with a declaration return cleans twice (2965); `__label__` labels clean variables still in scope (3034-3044), and two blocks that announce the same one give the assembler one label twice (codegen.c:5159): the model's programs announce and define a label once; arrays of a type with clean-up are not cleaned at a block's end.
- * A variable does not hide an enumeration constant or typedef of an outer block; tags of `for` heads leak; a struct defined in an inner block completes an outer one (1202).

Constants
- * `unsigned` with `long long` is unsigned (type.c:119-127); `eval_const_expr` and `-O1` folding ignore types; at `-O1` evaluated calls share the slot of parameters 2 and 3 (opt.c:115), lose stores to globals and read globals as 0.
