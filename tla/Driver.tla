------------------------------- MODULE Driver -------------------------------
(***************************************************************************)
(* main(): the options, then each input file in turn through preprocess(), *)
(* tokenize(), parse(), check_type(), optimize() and codegen() into an     *)
(* assembly file, then one gcc command that assembles and links, then the  *)
(* removal of the temporary files.  Any phase may end the program through  *)
(* error(); gcc may fail.                                                  *)
(*                                                                         *)
(* A command line argument is a record [opt, val, size]; strings are       *)
(* counted, not spelled: size is the argument's length, in units.          *)
(***************************************************************************)
EXTENDS Integers, SequencesExt

CONSTANTS
  ArgLists,     \* the command lines
  Fates,        \* functions: the phase in which each source fails, or "none"
  StaleSets,    \* sets of assembly files that exist already
  LibsMax,      \* sizeof(libs)
  CmdMax        \* sizeof(cmd) - 1, less the fixed part of the command

VARIABLES
  argv, i,      \* the command line and the argument looked at
  fate,         \* what is wrong with each source file
  stale,        \* assembly files left by an earlier run
  pc,           \* "options", a phase of the loop, "link", "remove" or "exit"
  opts,         \* the opt_ flags that are set
  inputs,       \* input_paths, newest first; in command line order once reversed
  k,            \* file_index
  libs,         \* libs[]: the arguments that fitted, whole (libs_len)
  libsCut,      \* libs[] goes on with the beginning of one that did not fit
  first,        \* first_input
  files,        \* assembly file -> the sources whose code it holds
  outs, objs,   \* out_paths and obj_paths, newest first
  cmd,          \* the gcc command's arguments
  status        \* exit status, or -1

loop == <<k, first, files, outs, objs>>
given == <<argv, fate, stale>>
options == <<i, opts, inputs, libs, libsCut>>
vars == <<given, pc, options, loop, cmd, status>>

Is(a, o) == a.opt = o
Size(s) == FoldLeft(LAMBDA n, a : n + a.size, 0, s)
Cut(n) == [opt |-> "cut", val |-> "cut", size |-> n]
Phases == <<"read", "preprocess", "tokenize", "parse", "check_type", "optimize", "open", "codegen">>

Init ==
  /\ argv \in ArgLists /\ i = 1
  /\ fate \in Fates
  /\ stale \in StaleSets
  /\ pc = "options"
  /\ opts = {} /\ inputs = <<>> /\ libs = <<>> /\ libsCut = FALSE
  /\ k = 0 /\ first = TRUE
  /\ files = [s \in stale |-> <<"stale">>]
  /\ outs = <<>> /\ objs = <<>> /\ cmd = <<>>
  /\ status = -1

Exit(code) == pc' = "exit" /\ status' = code

(* One argument: a flag, an argument for the linker, an input file, or     *)
(* something that only the preprocessor sees.  libs_len grows only by what *)
(* fits, but snprintf() has written as much as there was room for.         *)
Option ==
  LET a == argv[i]
      fits == Size(libs) + a.size < LibsMax IN
  /\ pc = "options" /\ i <= Len(argv)
  /\ a.opt \notin {"help", "missing"}
  /\ i' = i + 1
  /\ opts' = IF Is(a, "flag") THEN opts \union {a.val} ELSE opts
  /\ inputs' = IF a.opt \in {"source", "object"} THEN <<a>> \o inputs ELSE inputs
  /\ libs' = IF Is(a, "lib") /\ fits THEN Append(libs, a) ELSE libs
  /\ libsCut' = IF Is(a, "lib") THEN ~fits ELSE libsCut
  /\ UNCHANGED <<given, loop, pc, cmd, status>>

(* --help, --version, -print-search-dirs; an option without its argument.  *)
EndAtOnce ==
  /\ pc = "options" /\ i <= Len(argv) /\ argv[i].opt \in {"help", "missing"}
  /\ Exit(IF Is(argv[i], "help") THEN 0 ELSE 1)
  /\ UNCHANGED <<given, options, loop, cmd>>

(* No input files is an error; otherwise the list is reversed.             *)
Start ==
  /\ pc = "options" /\ i > Len(argv)
  /\ IF inputs = <<>> THEN Exit(1) ELSE pc' = "next" /\ UNCHANGED status
  /\ inputs' = Reverse(inputs)
  /\ UNCHANGED <<given, i, opts, libs, libsCut, loop, cmd>>

-----------------------------------------------------------------------------
Source == inputs[k + 1].val

(* The assembly file: the user's for -S, a temporary one otherwise.        *)
AsmPath ==
  IF "S" \notin opts THEN <<"tmp", k, Source>>
  ELSE IF "o" \in opts THEN <<"out">> ELSE <<"asm", Source>>

(* An object file goes to the linker as it is.                             *)
ObjectFile ==
  /\ pc = "next" /\ k < Len(inputs) /\ Is(inputs[k + 1], "object")
  /\ objs' = <<inputs[k + 1]>> \o objs
  /\ k' = k + 1
  /\ UNCHANGED <<given, options, pc, first, files, outs, cmd, status>>

SourceFile ==
  /\ pc = "next" /\ k < Len(inputs) /\ Is(inputs[k + 1], "source")
  /\ pc' = "read"
  /\ UNCHANGED <<given, options, loop, cmd, status>>

(* optimize() runs with -O1 only.                                          *)
Following(phase) ==
  IF phase = "check_type" /\ "O1" \notin opts THEN "open"
  ELSE Phases[1 + CHOOSE n \in DOMAIN Phases : Phases[n] = phase]

(* After -E's output, or with -### instead of opening the assembly file,   *)
(* the next source follows.                                                *)
FileDone(phase) ==
  \/ phase = "preprocess" /\ "E" \in opts
  \/ Following(phase) = "open" /\ "dryrun" \in opts

(* Mutant: the loop goes on without its ip->next after -E.                 *)
PhaseAgain ==
  /\ pc \in ToSet(Phases) \ {"codegen"}
  /\ fate[Source] # pc
  /\ pc' = IF FileDone(pc) THEN "next" ELSE Following(pc)
  /\ UNCHANGED <<given, options, loop, cmd, status>>

Phase ==
  /\ pc \in ToSet(Phases) \ {"codegen"}
  /\ fate[Source] # pc
  /\ IF FileDone(pc)
       THEN /\ pc' = "next" /\ k' = k + 1
            /\ first' = (first /\ pc = "preprocess")
       ELSE /\ pc' = Following(pc)
            /\ UNCHANGED <<k, first>>
  /\ UNCHANGED <<given, options, files, outs, objs, cmd, status>>

(* Mutant: mode "w" always.                                                *)
WrittenAfresh(with) ==
  [p \in DOMAIN files \union {AsmPath} |-> IF p = AsmPath THEN with ELSE files[p]]

(* freopen(): mode "w" for the first file, "a" for the others.             *)
Written(with) ==
  IF AsmPath \in DOMAIN files /\ ~first THEN [files EXCEPT ![AsmPath] = @ \o with]
  ELSE [p \in DOMAIN files \union {AsmPath} |-> IF p = AsmPath THEN with ELSE files[p]]

Codegen ==
  /\ pc = "codegen"
  /\ fate[Source] # "codegen"
  /\ files' = Written(<<Source>>)
  /\ first' = FALSE
  /\ outs' = IF "S" \in opts THEN outs
             ELSE <<[inputs[k + 1] EXCEPT !.val = AsmPath]>> \o outs
  /\ k' = k + 1
  /\ pc' = "next"
  /\ UNCHANGED <<given, options, objs, cmd, status>>

(* error(): exit(1) at once.  During codegen() the file is already open.   *)
Error ==
  /\ pc \in ToSet(Phases)
  /\ fate[Source] = pc
  /\ files' = IF pc = "codegen" THEN Written(<<"partial">>) ELSE files
  /\ Exit(1)
  /\ UNCHANGED <<given, options, k, first, outs, objs, cmd>>

-----------------------------------------------------------------------------
LoopDone ==
  /\ pc = "next" /\ k = Len(inputs)
  /\ IF opts \intersect {"S", "E"} # {} THEN Exit(0) ELSE pc' = "link" /\ UNCHANGED status
  /\ UNCHANGED <<given, options, loop, cmd>>

(* strncat(): as much as there is room for; the last argument may be cut.  *)
Strncat(c, a) ==
  LET room == CmdMax - Size(c) IN
  IF room = 0 THEN c ELSE Append(c, IF a.size <= room THEN a ELSE Cut(room))

(* The assembly files, the objects, then libs[] as one string.             *)
LibsText ==
  IF libs = <<>> THEN <<>>
  ELSE IF libsCut THEN Append(libs, Cut(LibsMax - 1 - Size(libs))) ELSE libs

(* Mutant: the lists are not reversed.                                     *)
CommandUnreversed == FoldLeft(Strncat, <<>>, outs \o objs \o LibsText)

Command == FoldLeft(Strncat, <<>>, Reverse(outs) \o Reverse(objs) \o LibsText)

(* gcc (external) refuses -c -o with several inputs.                       *)
GccStatus == IF "c" \in opts /\ Len(outs) + Len(objs) > 1 THEN {1} ELSE {0, 1}

Link ==
  /\ pc = "link"
  /\ cmd' = Command
  /\ IF "dryrun" \in opts THEN Exit(0) ELSE pc' = "remove" /\ status' \in GccStatus
  /\ UNCHANGED <<given, options, loop>>

(* Mutant: a failing gcc returns before the files are removed.             *)
RemoveTempsAfterSuccess ==
  /\ pc = "remove"
  /\ files' = IF status # 0 THEN files
              ELSE [p \in DOMAIN files \ {outs[n].val : n \in DOMAIN outs} |-> files[p]]
  /\ pc' = "exit"
  /\ UNCHANGED <<given, options, k, first, outs, objs, cmd, status>>

(* remove() of every file in out_paths, whether gcc succeeded or not.      *)
RemoveTemps ==
  /\ pc = "remove"
  /\ files' = [p \in DOMAIN files \ {outs[n].val : n \in DOMAIN outs} |-> files[p]]
  /\ pc' = "exit"
  /\ UNCHANGED <<given, options, k, first, outs, objs, cmd, status>>

Exited == pc = "exit" /\ UNCHANGED vars

Next ==
  \/ Option \/ EndAtOnce \/ Start
  \/ ObjectFile \/ SourceFile \/ Phase \/ Codegen \/ Error \/ LoopDone
  \/ Link \/ RemoveTemps \/ Exited

(* One process, which the operating system lets run.                       *)
Spec == Init /\ [][Next]_vars /\ WF_vars(Next)

-----------------------------------------------------------------------------
(* What the command line asks for, said without the program's lists.       *)
Given(kinds) == SelectSeq(argv, LAMBDA a : a.opt \in kinds)
Flag(f) == \E n \in DOMAIN argv : Is(argv[n], "flag") /\ argv[n].val = f
FirstBad ==
  LET g == Given({"source", "object"})
      Fails(n) == Is(g[n], "source") /\ fate[g[n].val] # "none"
                  /\ (fate[g[n].val] = "optimize" => Flag("O1")) IN
  IF \E n \in DOMAIN g : Fails(n) THEN CHOOSE n \in DOMAIN g : Fails(n) /\ \A j \in 1..n - 1 : ~Fails(j)
  ELSE Len(g) + 1
Clean == FirstBad > Len(Given({"source", "object"}))

(* The lists hold arguments, the exit status is set at the end only, and   *)
(* neither buffer holds more than its size.                                *)
TypeOK ==
  /\ pc \in ToSet(Phases) \union {"options", "next", "link", "remove", "exit"}
  /\ status \in {-1, 0, 1} /\ (pc = "exit" => status # -1)
  /\ pc \in ToSet(Phases) => k < Len(inputs)
  /\ Size(libs) < LibsMax /\ Size(cmd) <= CmdMax

(* When no source is in error the compiler leaves none of its temporary    *)
(* files behind, whether gcc succeeds or fails; when one is, what it       *)
(* leaves is the assembly of the sources before it (main.c:569 is not      *)
(* reached), and the exit status says so.                                  *)
TempsRemoved ==
  LET g == Given({"source", "object"})
      temps == {p \in DOMAIN files : p[1] = "tmp"} IN
  pc = "exit" =>
    /\ Clean => temps = {}
    /\ temps # {} => status = 1
    /\ \A p \in temps : p[2] < FirstBad /\ p[3] = g[p[2] + 1].val

(* gcc is given the assembly of every source of the command line, in that  *)
(* order and each complete, then the objects, then every linker argument,  *)
(* unless one of the two buffers is too small for them.                    *)
CommandComplete ==
  LET s == Given({"source"})
      o == Given({"object"})
      l == Given({"lib"}) IN
  pc = "remove" /\ Size(l) < LibsMax /\ Size(s \o o \o l) <= CmdMax =>
    /\ Len(cmd) = Len(s \o o \o l)
    /\ SubSeq(cmd, Len(s) + 1, Len(cmd)) = o \o l
    /\ \A n \in DOMAIN s : files[cmd[n].val] = <<s[n].val>> /\ cmd[n].val[3] = s[n].val

(* With -S each assembly file holds the code of the sources that share its *)
(* name, in order, each once per mention, after what an earlier run left   *)
(* there if the file is not the first one written.                         *)
OutputsExact ==
  LET g == Given({"source", "object"})
      Out(n) == IF Flag("o") THEN <<"out">> ELSE <<"asm", g[n].val>>
      done == SelectSeq([n \in 1..Len(g) |-> n], LAMBDA n : Is(g[n], "source") /\ n < FirstBad)
      Expected(p) ==
        LET mine == SelectSeq(done, LAMBDA n : Out(n) = p)
            kept == p \in stale /\ (mine = <<>> \/ mine[1] # done[1]) IN
        (IF kept THEN <<"stale">> ELSE <<>>) \o [n \in DOMAIN mine |-> g[mine[n]].val] IN
  pc = "exit" /\ status = 0 /\ Flag("S") /\ ~Flag("E") /\ ~Flag("dryrun") /\ Clean
     /\ Given({"help"}) = <<>> =>
    \A p \in DOMAIN files : files[p] = Expected(p)

(* The compiler ends, whatever is wrong with the files and whatever gcc    *)
(* does.                                                                   *)
Terminates == <>(pc = "exit")
=============================================================================
