------------------------------- MODULE PpFile -------------------------------
(***************************************************************************)
(* preprocess_file(): the loop over the logical lines of a source file,    *)
(* its stack of conditionals, nested #include, #pragma once, and the line  *)
(* accounting that ties a token to its source line.                        *)
(*                                                                         *)
(* A source file is not given in advance: each step chooses the next line. *)
(* A logical line is n physical ones (splice_lines_with_counts).  Every    *)
(* frame is one activation of preprocess_file() and holds its locals:      *)
(*   file     fpath               conds    CondIncl list, innermost last   *)
(*   active   active              lineNo   line_no                         *)
(*   counts   line_counts from line_idx on, as far as lines have been read *)
(*   acc      acc_phys_count: physical lines of the text held back in acc  *)
(*            while a macro call has open parentheses                      *)
(*   accLine  acc_line_no                                                  *)
(* and, for the properties only,                                           *)
(*   src      the physical line that is read next                          *)
(*   groups   per open conditional, the values its #if / #elif conditions  *)
(*            have (#else counts as TRUE), so far                          *)
(*   wf       no #elif, #else or #endif was out of place                   *)
(*   incs     #include lines taken so far                                  *)
(*   odd      since the last line marker some line was not replaced by as  *)
(*            many newlines as it has physical lines                       *)
(* lex is what tokenize() counts at the end of the output so far: err the  *)
(* line compute_line_no() finds there, tok the line stored in Token.lineno.*)
(* expanded is the text the last step gave to expand_text(), if it did.    *)
(***************************************************************************)
EXTENDS Integers, Sequences

CONSTANTS
  Files,        \* the files that can be included
  Root,         \* the source file on the command line
  Counts,       \* physical lines of one logical line
  MaxLines,     \* bound: physical lines of a file
  MaxConds,     \* bound: nesting of conditionals
  MaxGroups,    \* bound: groups of one conditional
  MaxDepth      \* the include depth preprocess_file() accepts: 245

ASSUME CountsAssumption == Counts \subseteq Nat \ {0}
ASSUME BoundsAssumption == {MaxLines, MaxConds, MaxGroups, MaxDepth} \subseteq Nat

VARIABLES
  frames,       \* activations of preprocess_file(), outermost first
  once,         \* once_files
  lex,          \* line counters of the lexer
  expanded,     \* the line __LINE__ stood for in the text expanded last, and the truth
  phase         \* "run", "done", or "failed" after error() or exit(1)

vars == <<frames, once, lex, expanded, phase>>

Depth == Len(frames)
Top == frames[Depth]

Cond == [parent : BOOLEAN, active : BOOLEAN, taken : BOOLEAN]

(* The head of preprocess_file().                                          *)
NewFrame(f) ==
  [file |-> f, conds |-> <<>>, active |-> TRUE, lineNo |-> 1, counts |-> <<>>, acc |-> 0,
   accLine |-> 0, src |-> 1, groups |-> <<>>, wf |-> TRUE, incs |-> 0, odd |-> FALSE]

NoText == [said |-> 0, real |-> 0, exact |-> FALSE]

Init ==
  /\ frames = <<NewFrame(Root)>>
  /\ once = {}
  /\ lex = [err |-> 1, tok |-> 1]
  /\ expanded = NoText
  /\ phase = "run"

-----------------------------------------------------------------------------
(* There is a next logical line, of n physical ones.                       *)
Reads(n) == phase = "run" /\ Top.src + n <= MaxLines + 1

(* Line n of the file is split off; its count is the one at line_idx when  *)
(* the loop has kept up.                                                   *)
Read(f, n) == [f EXCEPT !.counts = Append(@, n), !.src = @ + n]
Count(f, n) == Head(Append(f.counts, n))

(* The loop's last statement: line_no += line_counts[line_idx++].          *)
LoopEnd(f) == [f EXCEPT !.lineNo = @ + Head(f.counts), !.counts = Tail(@)]

(* Mutant: line_idx is not moved.                                          *)
EarlyContinueStuck(f) == [f EXCEPT !.lineNo = @ + Head(f.counts)]

(* A function-like #define leaves the loop's body early and does the same  *)
(* in a place of its own.                                                  *)
EarlyContinue(f) == [f EXCEPT !.lineNo = @ + Head(f.counts), !.counts = Tail(@)]

(* Mutant: acc_line_no is set for every line held back.                    *)
HoldAnew(f, n) == [f EXCEPT !.acc = @ + n, !.accLine = f.lineNo]

(* n more lines are held back, and the accumulator is emptied.             *)
Hold(f, n) == [f EXCEPT !.acc = @ + n, !.accLine = IF f.acc = 0 THEN f.lineNo ELSE @]
Emptied(f) == [f EXCEPT !.acc = 0]

(* expand_text() is given line_no, or acc_line_no for text that was held   *)
(* back, which begins acc physical lines above.                            *)
Expansion(f) ==
  [said |-> IF f.acc = 0 THEN f.lineNo ELSE f.accLine,
   real |-> f.src - f.acc, exact |-> f.incs = 0]
HeldText(f) == IF f.acc = 0 THEN NoText ELSE Expansion(f)

(* k newlines go to the output and are counted by the lexer.               *)
Newlines(l, k) == [err |-> l.err + k, tok |-> l.tok + k]

(* A line that starts with # puts out what is held back, and a directive   *)
(* of n physical lines is replaced by k newlines.                          *)
PutOut(k) ==
  /\ lex' = Newlines(lex, Top.acc + k)
  /\ expanded' = HeldText(Top)
  /\ UNCHANGED phase
Passed(f, n, k) == [Emptied(Read(f, n)) EXCEPT !.odd = @ \/ k # n]

(* The directive leaves frame f.                                           *)
Directive(f, n, k) ==
  /\ frames' = [frames EXCEPT ![Depth] = LoopEnd(Passed(f, n, k))]
  /\ PutOut(k)

(* The innermost conditional of f, its replacement, and the next condition *)
(* of its chain; a group after the #else is out of place.                  *)
Inner(f) == f.conds[Len(f.conds)]
SetInner(f, c) == [f EXCEPT !.conds[Len(f.conds)] = c, !.active = c.active]
NextGroup(f, v, isElse) ==
  [f EXCEPT !.groups[Len(f.groups)] = [vals |-> Append(@.vals, v), els |-> isElse],
            !.wf = @ /\ ~f.groups[Len(f.groups)].els]

(* #if, #ifdef, #ifndef: v is the value of the condition, which the code   *)
(* evaluates even where the line is not active.                            *)
OpenCond(f, v) ==
  LET a == f.active /\ v
  IN [f EXCEPT !.conds = Append(@, [parent |-> f.active, active |-> a, taken |-> a]),
               !.groups = Append(@, [vals |-> <<v>>, els |-> FALSE]),
               !.active = a]

If(v, n) ==
  /\ Reads(n)
  /\ Len(Top.conds) < MaxConds
  /\ Directive(OpenCond(Top, v), n, 1)
  /\ UNCHANGED once

(* Mutant: branch_taken is not consulted.                                  *)
ElifCondUntaken(c, v) ==
  [c EXCEPT !.active = c.parent /\ v, !.taken = c.parent /\ v]

(* #elif: the condition is evaluated only if no branch was taken.          *)
ElifCond(c, v) ==
  IF c.taken THEN [c EXCEPT !.active = FALSE]
  ELSE [c EXCEPT !.active = c.parent /\ v, !.taken = c.parent /\ v]

(* #else                                                                   *)
ElseCond(c) == [c EXCEPT !.active = c.parent /\ ~c.taken, !.taken = TRUE]

(* #elif and #else of an open conditional.                                 *)
GroupFits == Top.conds # <<>> /\ Len(Top.groups[Len(Top.groups)].vals) < MaxGroups

Elif(v, n) ==
  /\ Reads(n)
  /\ GroupFits
  /\ Directive(NextGroup(SetInner(Top, ElifCond(Inner(Top), v)), v, FALSE), n, 1)
  /\ UNCHANGED once

Else(n) ==
  /\ Reads(n)
  /\ GroupFits
  /\ Directive(NextGroup(SetInner(Top, ElseCond(Inner(Top))), TRUE, TRUE), n, 1)
  /\ UNCHANGED once

(* Mutant: conds is not advanced.                                          *)
CloseCondKept(f) ==
  [f EXCEPT !.active = Inner(f).parent, !.groups = SubSeq(@, 1, Len(@) - 1)]

(* #endif                                                                  *)
CloseCond(f) ==
  [f EXCEPT !.active = Inner(f).parent,
            !.conds = SubSeq(@, 1, Len(@) - 1),
            !.groups = SubSeq(@, 1, Len(@) - 1)]

Endif(n) ==
  /\ Reads(n)
  /\ Top.conds # <<>>
  /\ Directive(CloseCond(Top), n, 1)
  /\ UNCHANGED once

(* #elif without #if turns the rest of the file off; #else and #endif      *)
(* without #if are ignored.                                                *)
Stray(isElif, n) ==
  /\ Reads(n)
  /\ Top.conds = <<>>
  /\ Directive([Top EXCEPT !.wf = FALSE, !.active = @ /\ ~isElif], n, 1)
  /\ UNCHANGED once

(* #define of a name and #undef (see MacroTable), and every other          *)
(* directive in a part that is off.                                        *)
OtherDirective(n) ==
  /\ Reads(n)
  /\ Directive(Top, n, Count(Top, n))
  /\ UNCHANGED once

(* #define of a function-like macro.                                       *)
DefineFunction(n) ==
  /\ Reads(n)
  /\ Top.active
  /\ frames' = [frames EXCEPT ![Depth] = EarlyContinue(Passed(Top, n, Count(Top, n)))]
  /\ PutOut(Count(Top, n))
  /\ UNCHANGED once

(* #pragma once, and the pragmas replaced by one line.                     *)
Pragma(isOnce, n) ==
  /\ Reads(n)
  /\ Top.active
  /\ Directive(Top, n, 1)
  /\ once' = IF isOnce THEN once \union {Top.file} ELSE once

(* #pragma pack(), an unfinished push_macro and an #include that names no  *)
(* file leave no newline at all.                                           *)
Silent(n) ==
  /\ Reads(n)
  /\ Top.active
  /\ Directive(Top, n, 0)
  /\ UNCHANGED once

-----------------------------------------------------------------------------
(* Mutant: the accumulated lines are not given their newlines.             *)
FlushLost(f, n) == Count(f, n)

(* The newlines that follow the text of a logical line together with the   *)
(* lines accumulated before it.                                            *)
Flush(f, n) == f.acc + Count(f, n)

(* Text that is complete: output, with what was accumulated, followed by   *)
(* as many newlines as lines were read.                                    *)
Text(n) ==
  /\ Reads(n)
  /\ Top.active
  /\ frames' = [frames EXCEPT ![Depth] = LoopEnd(Emptied(Read(Top, n)))]
  /\ lex' = Newlines(lex, Flush(Top, n))
  /\ expanded' = Expansion(Top)
  /\ UNCHANGED <<once, phase>>

(* Text with more ( than ) so far: held back.                              *)
TextOpen(n) ==
  /\ Reads(n)
  /\ Top.active
  /\ frames' = [frames EXCEPT ![Depth] = LoopEnd(Read(Hold(Top, Count(Top, n)), n))]
  /\ expanded' = NoText
  /\ UNCHANGED <<once, lex, phase>>

(* Text in a part that is off; what is held back is put out.               *)
TextOff(n) ==
  /\ Reads(n)
  /\ ~Top.active
  /\ frames' = [frames EXCEPT ![Depth] = LoopEnd(Emptied(Read(Top, n)))]
  /\ lex' = Newlines(lex, Flush(Top, n))
  /\ expanded' = HeldText(Top)
  /\ UNCHANGED <<once, phase>>

-----------------------------------------------------------------------------
(* The lexer at a marker # m "file": compute_line_no() counts from the     *)
(* marker on (line_num = m - 1, then the marker's own newline); cur_lineno *)
(* is set to m, incremented for the newline, and incremented again when    *)
(* the same newline is skipped as white space.                             *)
Marker(m) == [err |-> m, tok |-> m + 2]

(* src_resume = line_no + 1, computed before the include is read.          *)
AfterInclude(f) == f.lineNo + 1

(* Back in the includer: line_no += incl_lines, and the line is left.      *)
BackFrom(f, len) ==
  [LoopEnd([f EXCEPT !.lineNo = @ + len]) EXCEPT !.incs = @ + 1, !.odd = FALSE]

(* #include of a file that is not a once file: a marker, then the file.    *)
(* The logical line is left behind when the file ends.                     *)
Include(f) ==
  /\ Reads(1)
  /\ Top.active
  /\ f \notin once
  /\ Depth <= MaxDepth
  /\ frames' = Append([frames EXCEPT ![Depth] = Emptied(Read(Top, 1))], NewFrame(f))
  /\ lex' = Marker(Top.lineNo + 1)
  /\ expanded' = HeldText(Top)
  /\ UNCHANGED <<once, phase>>

(* #include of a once file: preprocess_file() returns "" at once, but both *)
(* markers are output and its lines (len) are counted.                     *)
IncludeOnce(f, len) ==
  /\ Reads(1)
  /\ Top.active
  /\ f \in once
  /\ frames' = [frames EXCEPT ![Depth] = BackFrom(Emptied(Read(Top, 1)), len)]
  /\ lex' = Marker(AfterInclude(Top))
  /\ expanded' = HeldText(Top)
  /\ UNCHANGED <<once, phase>>

(* The file is not found or cannot be read, or the depth is exceeded.      *)
IncludeFails(missing) ==
  /\ Reads(1)
  /\ Top.active
  /\ missing \/ (Depth > MaxDepth /\ \E f \in Files : f \notin once)
  /\ phase' = "failed"
  /\ expanded' = HeldText(Top)
  /\ UNCHANGED <<frames, once, lex>>

(* The end of an included file: what is accumulated is put out, open       *)
(* conditionals are dropped, and the includer goes on.                     *)
EndInclude ==
  /\ phase = "run" /\ Depth > 1 /\ Top.src > 1
  /\ frames' = Append(SubSeq(frames, 1, Depth - 2),
                      BackFrom(frames[Depth - 1], Top.src - 1))
  /\ lex' = Marker(AfterInclude(frames[Depth - 1]))
  /\ expanded' = HeldText(Top)
  /\ UNCHANGED <<once, phase>>

(* The end of the root file.                                               *)
EndRoot ==
  /\ phase = "run" /\ Depth = 1 /\ Top.src > 1
  /\ phase' = "done"
  /\ lex' = Newlines(lex, Top.acc)
  /\ expanded' = HeldText(Top)
  /\ UNCHANGED <<frames, once>>

Next ==
  \/ \E n \in Counts :
       \/ \E v \in BOOLEAN : If(v, n) \/ Elif(v, n) \/ Stray(v, n) \/ Pragma(v, n)
       \/ Else(n) \/ Endif(n)
       \/ OtherDirective(n) \/ DefineFunction(n) \/ Silent(n)
       \/ Text(n) \/ TextOpen(n) \/ TextOff(n)
  \/ \E f \in Files : Include(f) \/ \E len \in 1 .. MaxLines : IncludeOnce(f, len)
  \/ \E m \in BOOLEAN : IncludeFails(m)
  \/ EndInclude
  \/ EndRoot

Spec == Init /\ [][Next]_vars

-----------------------------------------------------------------------------
Group == [vals : Seq(BOOLEAN), els : BOOLEAN]

FrameType ==
  [file : Files \union {Root}, conds : Seq(Cond), active : BOOLEAN, lineNo : Nat,
   counts : Seq(Nat), acc : Nat, accLine : Nat, src : Nat, groups : Seq(Group),
   wf : BOOLEAN, incs : Nat, odd : BOOLEAN]

(* Every variable has its type, and the conditionals of a frame and their  *)
(* chains go together.                                                     *)
TypeOK ==
  /\ frames \in Seq(FrameType) /\ frames # <<>>
  /\ \A k \in 1 .. Len(frames) : Len(frames[k].conds) = Len(frames[k].groups)
  /\ once \subseteq Files \union {Root}
  /\ lex \in [err : Nat, tok : Nat]
  /\ expanded \in [said : Nat, real : Nat, exact : BOOLEAN]
  /\ phase \in {"run", "done", "failed"}

(* A group of lines is in the program iff its condition holds and no       *)
(* condition before it in the same conditional does.                       *)
Selected(g) == g.vals[Len(g.vals)] /\ \A j \in 1 .. (Len(g.vals) - 1) : ~g.vals[j]

(* A line of a file whose directives nest properly is active exactly when  *)
(* every enclosing group is selected: parent_active, active and            *)
(* branch_taken implement C's rule for every nesting and every chain.      *)
SelectedLinesActive ==
  \A k \in 1 .. Len(frames) :
    frames[k].wf =>
      (frames[k].active <=>
         \A i \in 1 .. Len(frames[k].groups) : Selected(frames[k].groups[i]))

(* Until a file includes another, __LINE__ is the physical line on which   *)
(* the text begins that is expanded, however long it was held back and     *)
(* whatever put it out (its end, a directive, a part that is off, the end  *)
(* of the file), and the line number of the diagnostics is that of the     *)
(* line to be read: line_no and acc_line_no keep up with line_counts along *)
(* every way through the loop.                                             *)
LineMacroExact ==
  /\ expanded.exact => expanded.said = expanded.real
  /\ Top.incs = 0 => Top.lineNo = Top.src

(* In the source file, up to its second #include, the lexer's line is the  *)
(* physical line: all text is replaced by as many newlines as it had lines *)
(* and the marker after the include resumes at the right line.  (odd       *)
(* excludes directives continued with \ and #pragma pack().)               *)
NewlinesConserved ==
  phase = "run" /\ Depth = 1 /\ Top.incs <= 1 /\ ~Top.odd =>
    lex.err + Top.acc = Top.src

=============================================================================
