---------------------------- MODULE MacroExpand -----------------------------
(***************************************************************************)
(* The expansion of a source line (expand_text()) with the macros of the   *)
(* table, and C's own rule for it.  The compiler marks a macro disabled    *)
(* while its body is expanded, paints a disabled macro's name so that no   *)
(* later pass takes it, and expands the whole text again until it stays    *)
(* the same; C keeps, per token, the set of macros it came from.           *)
(*                                                                         *)
(* A text is a sequence of tokens [k, n, blue]: k "id", "num", "str" or    *)
(* "pu"; n the spelling, a sequence of pieces, so that ## is concatenation *)
(* of spellings; blue the paint (\x02).  White space is left out.  A body  *)
(* is [fn, params, va, toks], va "no", "std" (...) or "gnu" (name...).     *)
(***************************************************************************)
EXTENDS MacroTable, SequencesExt

CONSTANTS
  DepthLimit,   \* expand_text() returns the text as it is beyond this depth
  Sources       \* bound: what the source of a behaviour may contain, as
                \* [names, bodies, texts, tables], tables for all directives

VARIABLES
  uses,         \* one of Sources
  line,         \* the source line read last
  out           \* what it expanded to

expandVars == <<vars, uses, line, out>>

-----------------------------------------------------------------------------
Tok(k, n) == [k |-> k, n |-> n, blue |-> FALSE]
Id(n) == Tok("id", n)
Pu(c) == Tok("pu", <<c>>)
Open == Pu("(")
Close == Pu(")")
Comma == Pu(",")
Hash == Pu("#")
Paste == Pu("##")
VaArgs == Id(<<"__VA_ARGS__">>)
Failed == Tok("error", <<>>)    \* error(): the compiler ends

Spelling(s) == FlattenSeq([i \in DOMAIN s |-> s[i].n])
String(s) == Tok("str", <<"'">> \o Spelling(s))   \* quote_string

(* parse_macro_args: the ")" that ends the arguments that begin at i, as a *)
(* set of at most one, and the arguments.                                  *)
Level(s, i, j) == Len(SelectSeq(SubSeq(s, i, j), LAMBDA x : x = Open))
                - Len(SelectSeq(SubSeq(s, i, j), LAMBDA x : x = Close))
CloseAt(s, i) == {j \in i .. Len(s) : Level(s, i, j) = -1 /\ \A k \in i .. (j - 1) : Level(s, i, k) >= 0}
Cuts(s, i, c) ==
  SetToSortSeq({i - 1, c} \union {k \in i .. (c - 1) : s[k] = Comma /\ Level(s, i, k) = 0}, <)
Split(u, s, i, c) ==
  IF c = i THEN <<>>
  ELSE LET cuts == Cuts(s, i, c)
       IN [k \in 1 .. (Len(cuts) - 1) |-> SubSeq(u, cuts[k] + 1, cuts[k + 1] - 1)]
Joined(args) ==
  FoldLeft(LAMBDA s, a : s \o <<Comma>> \o a, args[1], Tail(args))

-----------------------------------------------------------------------------
(* substitute_macro: the body with the arguments in the parameters' place. *)
ParamIndex(m, x) == {i \in DOMAIN m.params : Id(m.params[i]) = x}
VaSlot(m) == IF m.va = "gnu" THEN Len(m.params) ELSE Len(m.params) + 1
Merged(m, args) ==
  IF m.va # "no" /\ Len(args) > Len(m.params)
    THEN SubSeq(args, 1, VaSlot(m) - 1) \o <<Joined(SubSeq(args, VaSlot(m), Len(args)))>>
    ELSE args
Argument(args, i) == IF i \in DOMAIN args THEN args[i] ELSE <<>>

WithoutComma(s) == IF s # <<>> /\ Last(s) = Comma THEN Front(s) ELSE s

Substituted(m, args, raw) ==
  LET b == m.toks
      n == Len(b)
      IsVa(i) == m.va # "no" /\ i <= n /\ b[i] = VaArgs
      Param(i) == IF i <= n /\ b[i].k = "id" THEN ParamIndex(m, b[i]) \intersect DOMAIN args ELSE {}
      The(S) == CHOOSE i \in S : TRUE
      \* what is put out up to position i, and the position behind it
      Step(i, s) ==
        IF b[i] = Paste /\ IsVa(i + 1)
          THEN <<i + 2, IF VaSlot(m) \in DOMAIN args THEN s \o args[VaSlot(m)] ELSE WithoutComma(s)>>
        ELSE IF b[i] = Hash /\ Param(i + 1) # {}
          THEN <<i + 2, Append(s, String(raw[The(Param(i + 1))]))>>
        ELSE IF b[i] = Hash /\ i < n /\ b[i + 1].k = "id"
          THEN <<i + 2, s \o <<Hash, b[i + 1]>>>>
        ELSE IF IsVa(i) THEN <<i + 1, s \o Argument(args, VaSlot(m))>>
        ELSE IF Param(i) # {} THEN <<i + 1, s \o args[The(Param(i))]>>
        ELSE <<i + 1, Append(s, b[i])>>
      at[k \in 0 .. n] ==
        IF k = 0 THEN <<1, <<>>>>
        ELSE IF at[k - 1][1] > n THEN at[k - 1] ELSE Step(at[k - 1][1], at[k - 1][2])
  IN at[n][2]

(* Two spellings run together: a name or a number goes on, anything else   *)
(* is still two tokens.  (A number is never pasted with a macro's name.)   *)
Glued(x, y) ==
  IF x.k \in {"id", "num"} /\ y.k \in {"id", "num"}
    THEN <<[x EXCEPT !.n = x.n \o y.n]>> ELSE <<x, y>>

(* paste_tokens: ## and the space around it go.                            *)
PasteTokens(s) ==
  LET Add(p, x) ==
        IF x = Paste THEN [p EXCEPT !.on = TRUE]
        ELSE IF p.on /\ p.s # <<>> THEN [s |-> Front(p.s) \o Glued(Last(p.s), x), on |-> FALSE]
        ELSE [s |-> Append(p.s, x), on |-> FALSE]
  IN FoldLeft(Add, [s |-> <<>>, on |-> FALSE], s).s

SubstituteMacro(m, args, raw) == PasteTokens(Substituted(m, Merged(m, args), raw))

(* Mutant: a disabled macro's name is put out without paint.               *)
PaintedNot(x) == x

(* The name of a disabled macro.                                           *)
Painted(x) == [x EXCEPT !.blue = TRUE]

RECURSIVE ExpandText(_, _, _)
RECURSIVE Scan(_, _, _, _)

(* One pass over the text from token i on.  off is the macros with         *)
(* disabled set.                                                           *)
Scan(s, i, off, depth) ==
  IF i > Len(s) THEN <<>>
  ELSE LET x == s[i]
           m == IF x.k = "id" /\ ~x.blue /\ x.n \in Names THEN Lookup(t, x.n) ELSE None
           close == IF i < Len(s) /\ s[i + 1] = Open THEN CloseAt(s, i + 2) ELSE {}
           c == CHOOSE j \in close : TRUE
           given == Split(s, s, i + 2, c)
           raw == given \o [k \in 1 .. (Len(m.params) - Len(given)) |-> <<>>]
           args == [k \in DOMAIN raw |-> ExpandText(raw[k], off, depth + 1)]
       IN IF m = None THEN <<x>> \o Scan(s, i + 1, off, depth)
          ELSE IF x.n \in off THEN <<Painted(x)>> \o Scan(s, i + 1, off, depth)
          ELSE IF ~m.fn THEN ExpandText(m.toks, off \union {x.n}, depth + 1) \o Scan(s, i + 1, off, depth)
          ELSE IF i = Len(s) \/ s[i + 1] # Open THEN <<x>> \o Scan(s, i + 1, off, depth)
          ELSE IF close = {} THEN <<Failed>>
          ELSE IF m.va = "no" /\ Len(given) > Len(m.params)
            THEN SubSeq(s, i, c) \o Scan(s, c + 1, off, depth)
          ELSE IF \E k \in DOMAIN args : Contains(args[k], Failed) THEN <<Failed>>
          ELSE ExpandText(SubstituteMacro(m, args, raw), off \union {x.n}, depth + 1)
               \o Scan(s, c + 1, off, depth)

(* expand_text: passes until the text stays the same.                      *)
ExpandText(s, off, depth) ==
  IF depth > DepthLimit THEN s
  ELSE LET r == Scan(s, 1, off, depth)
       IN IF r = s \/ Contains(r, Failed) THEN r ELSE ExpandText(r, off, depth + 1)

(* strip_bluepaint                                                         *)
Stripped(s) == [i \in DOMAIN s |-> [s[i] EXCEPT !.blue = FALSE]]

-----------------------------------------------------------------------------
NoLine == <<>>

(* A source line that is no directive.                                     *)
TextLine(s) ==
  /\ file > 0 /\ line = NoLine
  /\ line' = s
  /\ out' = Stripped(ExpandText(s, {}, 0))
  /\ UNCHANGED <<vars, uses>>

(* The next line.                                                          *)
LineDone ==
  /\ line # NoLine
  /\ line' = NoLine /\ out' = <<>>
  /\ UNCHANGED <<vars, uses>>

(* A directive of the source at hand.  Without tables a source defines     *)
(* macros, in one file.                                                    *)
Directive ==
  /\ line = NoLine
  /\ Next
  /\ \A x \in DOMAIN t'.heap : t'.heap[x].name \in uses.names /\ t'.heap[x].body \in uses.bodies
  /\ \A i \in DOMAIN t'.stack : t'.stack[i].name \in uses.names
  /\ undefs' \subseteq uses.names
  /\ uses.tables \/ /\ file' = 1 /\ t'.cmdline = 0 /\ t'.stack = <<>> /\ undefs' = {}
                    /\ Len(List(t'.heap, t'.macros)) = Len(t'.heap)
  /\ UNCHANGED <<uses, line, out>>

ExpandInit == Init /\ uses \in Sources /\ line = NoLine /\ out = <<>>
ExpandNext == Directive \/ (\E s \in uses.texts : TextLine(s)) \/ LineDone
ExpandSpec == ExpandInit /\ [][ExpandNext]_expandVars

-----------------------------------------------------------------------------
(* C.  A token is [t, hs], hs the macros it came out of.  Unknown stands   *)
(* where C says nothing, or where the compiler is known to do otherwise    *)
(* (README, section 6): an operand of ## that is itself a macro, or empty  *)
(* with something beside the pasted token; # of a variable argument, or in *)
(* a call that is only completed by what follows its body; a missing named *)
(* variable argument.                                                      *)
Unknown == Tok("unknown", <<>>)
Marked(s, hs) == [i \in DOMAIN s |-> [t |-> s[i], hs |-> hs]]
Toks(s) == [i \in DOMAIN s |-> s[i].t]

RECURSIVE CExpand(_)

(* The arguments by parameter, the variable one last.                      *)
CParams(m) == IF m.va = "std" THEN Append(m.params, VaArgs.n) ELSE m.params
CArgs(m, given) ==
  LET n == Len(CParams(m))
      comma == Marked(<<Comma>>, {})
      rest == SubSeq(given, n, Len(given))
  IN IF m.va = "no" \/ Len(given) <= n THEN given
     ELSE Append(SubSeq(given, 1, n - 1), FoldLeft(LAMBDA s, a : s \o comma \o a, rest[1], Tail(rest)))
Fits(m, given) ==
  \/ given = <<>> /\ Len(CParams(m)) = 1
  \/ m.va = "no" /\ Len(given) = Len(m.params)
  \/ m.va # "no" /\ Len(given) >= Len(CParams(m)) - 1

(* Names and numbers make one token; others are left as they are.          *)
CPasted(x, y) == IF {x.k, y.k} \subseteq {"id", "num"} THEN <<Tok(x.k, x.n \o y.n)>> ELSE <<x, y>>

CSubst(m, args, hs) ==
  LET b == m.toks
      At(i) == IF i \in DOMAIN b THEN b[i] ELSE Unknown
      Index(i) == {k \in DOMAIN CParams(m) : At(i) = Id(CParams(m)[k])}
      The(i) == CHOOSE k \in Index(i) : TRUE
      Missing(i) == The(i) \notin DOMAIN args
      Arg(i) == Argument(args, The(i))
      Variable(i) == m.va # "no" /\ The(i) = Len(CParams(m))
      Operand(i) == At(i - 1) = Paste \/ At(i + 1) = Paste
      CommaArgs(i) == At(i) = Comma /\ At(i + 1) = Paste /\ Index(i + 2) # {} /\ Variable(i + 2)
      Odd(i) == IF Arg(i) = <<>> THEN Len(b) > 3 ELSE CExpand(Arg(i)) # Arg(i)
      unknown == Marked(<<Unknown>>, {})
      Piece(i) ==
        IF At(i - 1) = Hash /\ Index(i) # {} THEN <<>>
        ELSE IF At(i) = Hash /\ Index(i + 1) # {}
          THEN IF Variable(i + 1) THEN unknown ELSE Marked(<<String(Toks(Arg(i + 1)))>>, {})
        ELSE IF CommaArgs(i) /\ Missing(i + 2)
          THEN IF m.va = "gnu" THEN unknown ELSE <<>>
        ELSE IF CommaArgs(i - 1) THEN <<>>
        ELSE IF Index(i) = {} THEN Marked(<<b[i]>>, {})
        ELSE IF CommaArgs(i - 2) \/ ~Operand(i) THEN CExpand(Arg(i))
        ELSE IF Odd(i) THEN unknown ELSE Arg(i)
      \* ## between two pieces
      Put(s, i) ==
        IF i > 1 /\ At(i - 1) = Paste /\ ~CommaArgs(i - 2) /\ s # <<>> /\ Piece(i) # <<>>
          THEN Front(s) \o Marked(CPasted(Last(s).t, Head(Piece(i)).t), Last(s).hs \intersect Head(Piece(i)).hs)
                 \o Tail(Piece(i))
        ELSE IF At(i) = Paste THEN s ELSE s \o Piece(i)
      pieces == FoldLeft(Put, <<>>, [i \in DOMAIN b |-> i])
  IN [i \in DOMAIN pieces |-> [pieces[i] EXCEPT !.hs = @ \union hs]]

(* A call whose end is not in the text its name is in, with # of an        *)
(* argument that is a macro.                                               *)
QuotesLate(m, given, x, close) ==
  x.hs # close.hs /\ Contains(m.toks, Hash) /\ \E k \in DOMAIN given : CExpand(given[k]) # given[k]

(* The first token, replaced and looked at again if it is a macro's.       *)
CExpand(s) ==
  IF s = <<>> THEN <<>>
  ELSE LET x == Head(s)
           r == Tail(s)
           m == IF x.t.k = "id" /\ x.t.n \in Names \ x.hs THEN want[x.t.n] ELSE None
           close == IF r # <<>> /\ r[1].t = Open THEN CloseAt(Toks(r), 2) ELSE {}
           c == CHOOSE j \in close : TRUE
           given == Split(r, Toks(r), 2, c)
       IN IF m = None \/ (m.fn /\ (r = <<>> \/ r[1].t # Open)) THEN <<x>> \o CExpand(r)
          ELSE IF ~m.fn THEN CExpand(CSubst(m, <<>>, x.hs \union {x.t.n}) \o r)
          ELSE IF close = {} \/ ~Fits(m, given) \/ QuotesLate(m, given, x, r[c]) THEN Marked(<<Unknown>>, {})
          ELSE CExpand(CSubst(m, CArgs(m, given), (x.hs \intersect r[c].hs) \union {x.t.n})
                         \o SubSeq(r, c + 1, Len(r)))

(* A line expands to what C says, with any definitions in force: macros    *)
(* that name themselves or each other, names that become a call only with  *)
(* what follows, calls in arguments, # and ##, variable arguments.  No     *)
(* line is rejected unless a body begins a call and does not end it.       *)
ExpansionExact ==
  line # NoLine =>
    LET c == Toks(CExpand(Marked(line, {})))
    IN \/ Contains(c, Unknown)
       \/ out = c
       \/ Contains(out, Failed) /\ \E n \in Names : want[n] # None /\ Level(want[n].toks, 1, Len(want[n].toks)) # 0
=============================================================================
