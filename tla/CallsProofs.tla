----------------------------- MODULE CallsProofs ----------------------------
(***************************************************************************)
(* Caller and callee agree on the place of every argument, for any         *)
(* signature and any number of argument registers.                         *)
(*                                                                         *)
(* The argument: the caller's counters before each argument are a history  *)
(* (there is a function c with c[i] what they were after i arguments).  A  *)
(* callee that has met no mismatch so far has its own counters equal to    *)
(* the history at the parameter it is at, so it looks where the caller     *)
(* put that argument.                                                      *)
(***************************************************************************)
EXTENDS Calls, FiniteSetTheorems, TLAPS

Targets == {"sysv", "win", "arm"}
Sorts == {"gp", "fp", "reg", "stack"}
Forms == {"value", "pointer", "double", "single", "x87", "quad"}
Place == [at : Sorts \X Nat, form : Forms]
Taken == [at : (Sorts \union {"none"}) \X Nat, form : Forms \union {"none"}]
Counters == [gp : Nat, fp : Nat, stk : Nat]

Types ==
  /\ sig \in Signatures
  /\ gp \in Nat /\ fp \in Nat /\ stk \in Nat
  /\ gp <= MaxGp(Target) /\ fp <= MaxFp(Target) /\ Hidden <= gp
  /\ place \in Seq(Place) /\ Len(place) <= Len(sig.args)
  /\ pgp \in Nat /\ pfp \in Nat /\ pstk \in Nat
  /\ pgp <= MaxGp(Target)
  /\ got \in Seq(Taken) /\ Len(got) <= Len(sig.args)
  /\ va \in [gp : Int, fp : Int, st : Int]
  /\ va # NoVaList => va.gp \in Nat /\ va.fp \in Nat /\ va.st \in Nat

(* The callee starts when the caller is done, and reads unnamed arguments  *)
(* after va_start, when it has saved the named ones.                       *)
Phases ==
  /\ Len(place) < Len(sig.args) =>
       got = <<>> /\ va = NoVaList /\ pgp = Hidden /\ pfp = 0 /\ pstk = 0
  /\ va = NoVaList => Len(got) <= sig.named
  /\ va # NoVaList => Len(got) >= sig.named /\ sig.variadic

-----------------------------------------------------------------------------
(* The caller.  Bad(i, p): passing argument i at p is a mismatch by        *)
(* itself, whatever the other arguments are.                               *)
Bad(i, p) ==
  LET k == sig.args[i] IN
  \/ /\ Target = "sysv"
     /\ \/ i <= sig.named /\ p.at[1] = "stack" /\ (ByPointer(k) \/ k \in {"float", "ldouble"})
        \/ i > sig.named /\ k = "ldouble"
  \/ /\ Target = "arm"
     /\ \/ IsFlonum(k) /\ p.at[1] # "fp"
        \/ HfaCount(k) > 0 /\ i <= sig.named /\ (sig.variadic \/ p.at[1] # "fp")
        \/ ByPointer(k) /\ i <= sig.named /\ p.at[1] = "stack"

WidthOf(i, p) ==
  IF p.at[1] = "fp" /\ HfaCount(sig.args[i]) > 0 THEN HfaCount(sig.args[i])
  ELSE IF p.form = "x87" THEN 2 ELSE 1

Form(i) ==
  LET k == sig.args[i] IN
  IF ~IsFlonum(k) THEN StructForm(k)
  ELSE IF Target # "arm" THEN "double"
  ELSE IF k = "float" /\ i <= sig.named THEN "single"
  ELSE IF k = "ldouble" /\ i > sig.named THEN "quad" ELSE "double"

(* What the caller does with argument i when its counters are a: it passes *)
(* it at p and goes on with b.                                             *)
Moves(p, a, b, sort, n, form, dgp, dfp, dstk) ==
  p = Put(sort, n, form) /\ b = [gp |-> a.gp + dgp, fp |-> a.fp + dfp, stk |-> a.stk + dstk]
Passes(i, p, a, b) ==
  LET k == sig.args[i] IN
  CASE Target = "sysv" ->
         IF IsFlonum(k) /\ a.fp < MaxFp("sysv") THEN Moves(p, a, b, "fp", a.fp, Form(i), 0, 1, 0)
         ELSE IF ~IsFlonum(k) /\ a.gp < MaxGp("sysv") THEN Moves(p, a, b, "gp", a.gp, Form(i), 1, 0, 0)
         ELSE Moves(p, a, b, "stack", a.stk, Form(i), 0, 0, 1)
    [] Target = "win" ->
         IF a.gp < MaxGp("win") THEN Moves(p, a, b, "reg", a.gp, Form(i), 1, 0, 0)
         ELSE Moves(p, a, b, "stack", a.stk, Form(i), 0, 0, 1)
    [] Target = "arm" ->
         IF IsFlonum(k) THEN a.fp < MaxFp("arm") /\ Moves(p, a, b, "fp", a.fp, Form(i), 0, 1, 0)
         ELSE IF HfaCount(k) > 0 /\ ~sig.variadic
           THEN /\ a.fp + HfaCount(k) <= MaxFp("arm")
                /\ Moves(p, a, b, "fp", a.fp, "value", 0, HfaCount(k), 0)
         ELSE IF a.gp < MaxGp("arm") THEN Moves(p, a, b, "gp", a.gp, Form(i), 1, 0, 0)
         ELSE Moves(p, a, b, "stack", a.stk, Form(i), 0, 0, 1)

Used(sort, a) == IF sort = "fp" THEN a.fp ELSE IF sort = "stack" THEN a.stk ELSE a.gp
Now == [gp |-> gp, fp |-> fp, stk |-> stk]

(* What has been passed lies below the counters, each argument after the   *)
(* ones before it, and above the hidden buffer's register.                 *)
Within ==
  \A i \in 1 .. Len(place) : ~Bad(i, place[i]) =>
    place[i].at[2] + WidthOf(i, place[i]) <= Used(place[i].at[1], Now)
Ordered ==
  \A i, j \in 1 .. Len(place) :
    i < j /\ ~Bad(i, place[i]) /\ place[i].at[1] = place[j].at[1] =>
      place[i].at[2] + WidthOf(i, place[i]) <= place[j].at[2]
AboveHidden ==
  \A i \in 1 .. Len(place) : place[i].at[1] \in {"gp", "reg"} => Hidden <= place[i].at[2]
Caller == Within /\ Ordered /\ AboveHidden

History(c) ==
  /\ c[0] = [gp |-> Hidden, fp |-> 0, stk |-> 0]
  /\ c[Len(place)] = Now
  /\ \A i \in 1 .. Len(place) : ~Bad(i, place[i]) => Passes(i, place[i], c[i - 1], c[i])

-----------------------------------------------------------------------------
(* The callee, as long as no argument it has met is a mismatch.            *)
Clean(n) == \A j \in 1 .. n : ~Mismatched(j)
Stacked(n) == \E j \in 1 .. n : place[j].at[1] = "stack"

Agreed == \A i \in 1 .. Len(got) : Clean(i) => got[i] = place[i]

Entry(n, a) ==
  /\ pgp = a.gp /\ pstk = a.stk /\ (Target # "win" => pfp = a.fp)
  /\ Target # "sysv" /\ pstk > 0 => pgp = MaxGp(Target)
  /\ Target = "win" /\ pstk > 0 => Stacked(n)
  /\ Target = "arm" => pfp <= MaxFp("arm")
  /\ Target = "arm" /\ sig.variadic => pgp + pstk = NonFlonums(n) /\ pfp = Flonums(n)
Varargs(a) ==
  IF Target = "win"
    THEN ~Stacked(sig.named) =>
           va.gp = a.gp + a.stk /\ a.gp <= MaxGp("win") /\ (a.stk > 0 => a.gp = MaxGp("win"))
    ELSE va.gp = a.gp /\ va.fp = a.fp /\ va.st = a.stk

Callee(c) ==
  Clean(Len(got)) =>
    IF va = NoVaList THEN Entry(Len(got), c[Len(got)]) ELSE Varargs(c[Len(got)])

IInv ==
  /\ Types /\ Phases /\ Caller /\ Agreed
  /\ \E c \in [0 .. Len(sig.args) -> Counters] : History(c) /\ Callee(c)

-----------------------------------------------------------------------------
(* Facts about a signature.                                                *)
LEMMA SigFacts ==
  ASSUME sig \in Signatures
  PROVE  /\ Target \in Targets /\ sig.hidden \in BOOLEAN /\ sig.variadic \in BOOLEAN
         /\ sig.args \in Seq(Kinds) /\ Len(sig.args) \in Nat
         /\ sig.named \in Nat /\ sig.named <= Len(sig.args)
         /\ ~sig.variadic => sig.named = Len(sig.args)
         /\ MaxGp(Target) \in Nat /\ MaxGp(Target) > 0 /\ MaxFp(Target) \in Nat /\ MaxFp(Target) > 0
         /\ Hidden \in 0 .. 1
BY SignaturesAssumption, RegistersAssumption DEF Target, Targets, Hidden

LEMMA KindFacts ==
  ASSUME NEW k \in Kinds
  PROVE  /\ HfaCount(k) \in 0 .. 2 /\ (HfaCount(k) > 0 => ~IsFlonum(k))
         /\ StructForm(k) \in {"value", "pointer"} /\ (~ByPointer(k) => StructForm(k) = "value")
         /\ (k = "float" => IsFlonum(k)) /\ (k = "ldouble" => IsFlonum(k))
         /\ (k = "ldouble" => k # "float")
BY DEF Kinds, HfaCount, IsFlonum, StructForm, ByPointer

LEMMA InitIInv == Init => IInv
<1> SUFFICES ASSUME Init PROVE IInv
  OBVIOUS
<1> DEFINE c == [i \in 0 .. Len(sig.args) |-> [gp |-> Hidden, fp |-> 0, stk |-> 0]]
<1>1. sig \in Signatures /\ place = <<>> /\ got = <<>> /\ va = NoVaList
  BY DEF Init
<1>2. Types
  BY <1>1, SigFacts DEF Init, Types, NoVaList
<1>3. Phases /\ Caller /\ Agreed
  BY <1>1, SigFacts DEF Init, Phases, Caller, Within, Ordered, AboveHidden, Agreed
<1>4. c \in [0 .. Len(sig.args) -> Counters] /\ c[0] = [gp |-> Hidden, fp |-> 0, stk |-> 0]
  BY <1>1, SigFacts DEF Counters
<1>5. History(c)
  BY <1>1, <1>4 DEF Init, History, Now
<1>6. NonFlonums(0) = 0 /\ Flonums(0) = 0
  <2>1. {i \in 1 .. 0 : ~IsFlonum(sig.args[i])} = {} /\ {i \in 1 .. 0 : IsFlonum(sig.args[i])} = {}
    OBVIOUS
  <2> QED
    BY <2>1, FS_EmptySet DEF NonFlonums, Flonums
<1>7. Entry(0, c[0])
  <2> HIDE DEF c
  <2> QED
    BY <1>1, <1>4, <1>6, SigFacts DEF Init, Entry, Hidden
<1>8. Callee(c)
  BY <1>1, <1>7 DEF Callee
<1> QED
  BY <1>2, <1>3, <1>4, <1>5, <1>8 DEF IInv

-----------------------------------------------------------------------------
(* The effect of passing argument n + 1 at p.                              *)
Effect(n, p) ==
  /\ n = Len(place) /\ n < Len(sig.args) /\ p \in Place /\ place' = Append(place, p)
  /\ gp' \in Nat /\ fp' \in Nat /\ stk' \in Nat
  /\ gp <= gp' /\ gp' <= MaxGp(Target) /\ fp <= fp' /\ fp' <= MaxFp(Target) /\ stk <= stk'
  /\ Used(p.at[1], Now) <= p.at[2]
  /\ ~Bad(n + 1, p) => /\ p.at[2] + WidthOf(n + 1, p) <= Used(p.at[1], Now')
                       /\ Passes(n + 1, p, Now, Now')
  /\ UNCHANGED <<sig, pgp, pfp, pstk, got, va>>

LEMMA PutFacts ==
  ASSUME NEW sort, NEW n, NEW form
  PROVE  /\ Put(sort, n, form).at[1] = sort /\ Put(sort, n, form).at[2] = n
         /\ Put(sort, n, form).form = form
         /\ sort \in Sorts /\ n \in Nat /\ form \in Forms => Put(sort, n, form) \in Place
BY DEF Put, Place

LEMMA ArgFacts ==
  ASSUME sig \in Signatures, NEW i \in 1 .. Len(sig.args), NEW p
  PROVE  sig.args[i] \in Kinds /\ WidthOf(i, p) \in 1 .. 2 /\ Form(i) \in Forms
<1>1. sig.args[i] \in Kinds
  BY SigFacts
<1> QED
  BY <1>1, KindFacts DEF WidthOf, Form, Forms

(* The ways of passing an argument.                                        *)
LEMMA InFpEffect ==
  ASSUME Types, NEW n \in Nat, n = Len(place), n < Len(sig.args), NEW w \in Nat, NEW form \in Forms,
         InFp(w, form), fp + w <= MaxFp(Target), NEW p, p = Put("fp", fp, form),
         ~Bad(n + 1, p) => /\ WidthOf(n + 1, p) <= w
                           /\ Passes(n + 1, p, Now, [gp |-> gp, fp |-> fp + w, stk |-> stk])
  PROVE  Effect(n, p)
<1>1. p \in Place /\ p.at[1] = "fp" /\ p.at[2] = fp
  BY PutFacts DEF Types, Sorts
<1>2. Now' = [gp |-> gp, fp |-> fp + w, stk |-> stk]
  BY DEF InFp, Now
<1>3. Used("fp", Now) = fp /\ Used("fp", Now') = fp + w
  BY <1>2 DEF Used, Now
<1>4. WidthOf(n + 1, p) \in Nat
  <2>1. sig \in Signatures /\ n + 1 \in 1 .. Len(sig.args)
    BY SigFacts, SMTT(20) DEF Types
  <2>2. WidthOf(n + 1, p) \in 1 .. 2
    BY <2>1, ArgFacts
  <2> QED
    BY <2>2
<1>5. UNCHANGED <<sig, gp, stk, pgp, pfp, pstk, got, va>> /\ fp' = fp + w /\ place' = Append(place, p)
  BY DEF InFp
<1>6. gp \in Nat /\ fp \in Nat /\ stk \in Nat /\ gp <= MaxGp(Target)
  BY DEF Types
<1> QED
  BY <1>1, <1>2, <1>3, <1>4, <1>5, <1>6 DEF Effect

LEMMA InGpEffect ==
  ASSUME Types, NEW n \in Nat, n = Len(place), n < Len(sig.args), NEW form \in Forms, form # "x87",
         NEW sort \in {"gp", "reg"}, NEW p, p = Put(sort, gp, form),
         place' = Append(place, p), gp' = gp + 1, UNCHANGED <<sig, fp, stk, pgp, pfp, pstk, got, va>>,
         gp < MaxGp(Target),
         ~Bad(n + 1, p) => Passes(n + 1, p, Now, [gp |-> gp + 1, fp |-> fp, stk |-> stk])
  PROVE  Effect(n, p)
<1>1. p \in Place /\ p.at[1] = sort /\ p.at[2] = gp /\ p.form = form
  BY PutFacts DEF Types, Sorts
<1>2. Now' = [gp |-> gp + 1, fp |-> fp, stk |-> stk]
  BY DEF Now
<1>3. Used(sort, Now) = gp /\ Used(sort, Now') = gp + 1
  BY <1>2 DEF Used, Now
<1>4. WidthOf(n + 1, p) = 1
  BY <1>1 DEF WidthOf
<1>5. gp \in Nat /\ fp \in Nat /\ stk \in Nat /\ fp <= MaxFp(Target)
  BY DEF Types
<1>6. MaxGp(Target) \in Nat
  BY SigFacts DEF Types
<1> QED
  BY <1>1, <1>2, <1>3, <1>4, <1>5, <1>6 DEF Effect

LEMMA OnStackEffect ==
  ASSUME Types, NEW n \in Nat, n = Len(place), n < Len(sig.args), NEW form \in Forms,
         NEW at \in Nat, stk <= at, NEW w \in Nat, OnStack(at, w, form),
         NEW p, p = Put("stack", at, form),
         ~Bad(n + 1, p) => /\ WidthOf(n + 1, p) <= w
                           /\ Passes(n + 1, p, Now, [gp |-> gp, fp |-> fp, stk |-> at + w])
  PROVE  Effect(n, p)
<1>1. p \in Place /\ p.at[1] = "stack" /\ p.at[2] = at /\ p.form = form
  BY PutFacts, SMTT(20) DEF Types, Sorts
<1>2. Now' = [gp |-> gp, fp |-> fp, stk |-> at + w]
  BY DEF Now, OnStack
<1>3. Used("stack", Now) = stk /\ Used("stack", Now') = at + w
  BY <1>2 DEF Used, Now
<1>4. WidthOf(n + 1, p) \in Nat
  <2>1. sig \in Signatures /\ n + 1 \in 1 .. Len(sig.args)
    BY SigFacts, SMTT(20) DEF Types
  <2>2. WidthOf(n + 1, p) \in 1 .. 2
    BY <2>1, ArgFacts
  <2> QED
    BY <2>2
<1>5. UNCHANGED <<sig, gp, fp, pgp, pfp, pstk, got, va>> /\ stk' = at + w /\ place' = Append(place, p)
  BY DEF OnStack
<1>6. gp \in Nat /\ fp \in Nat /\ stk \in Nat /\ fp <= MaxFp(Target) /\ gp <= MaxGp(Target)
  BY DEF Types
<1> QED
  BY <1>1, <1>2, <1>3, <1>4, <1>5, <1>6 DEF Effect

LEMMA NowFacts == Now.gp = gp /\ Now.fp = fp /\ Now.stk = stk
BY DEF Now

LEMMA ArgWinEffect ==
  ASSUME Types, ArgWin PROVE \E n \in Nat, p \in Place : Effect(n, p)
<1>1. PICK n \in Nat : n = Len(place)
  BY DEF Types
<1> DEFINE k == sig.args[n + 1]
<1> DEFINE form == IF IsFlonum(k) THEN "double" ELSE StructForm(k)
<1>2. Target = "win" /\ n < Len(sig.args) /\ NextArg = k
  BY <1>1 DEF ArgWin, Calling, NextArg
<1>3. k \in Kinds /\ form = Form(n + 1) /\ form \in Forms /\ form # "x87"
  <2>1. sig \in Signatures /\ n + 1 \in 1 .. Len(sig.args)
    BY <1>2, SigFacts DEF Types
  <2>2. k \in Kinds
    BY <2>1, ArgFacts
  <2> QED
    BY <1>2, <2>2, KindFacts DEF Form, Forms
<1>4. gp \in Nat /\ stk \in Nat /\ fp \in Nat
  BY DEF Types
<1>5. CASE gp < MaxGp("win")
  <2>1. /\ place' = Append(place, Put("reg", gp, form)) /\ gp' = gp + 1
        /\ UNCHANGED <<sig, fp, stk, pgp, pfp, pstk, got, va>>
    BY <1>2, <1>5 DEF ArgWin
  <2>2. Passes(n + 1, Put("reg", gp, form), Now, [gp |-> gp + 1, fp |-> fp, stk |-> stk])
    BY <1>2, <1>3, <1>4, <1>5, NowFacts DEF Passes, Moves
  <2> HIDE DEF form
  <2>3. Effect(n, Put("reg", gp, form))
    BY <1>1, <1>2, <1>3, <1>5, <2>1, <2>2, InGpEffect
  <2> QED
    BY <2>3 DEF Effect
<1>6. CASE ~(gp < MaxGp("win"))
  <2>1. OnStack(stk, 1, form)
    BY <1>2, <1>6 DEF ArgWin
  <2>2. Passes(n + 1, Put("stack", stk, form), Now, [gp |-> gp, fp |-> fp, stk |-> stk + 1])
    BY <1>2, <1>3, <1>4, <1>6, NowFacts DEF Passes, Moves
  <2> HIDE DEF form
  <2>3. WidthOf(n + 1, Put("stack", stk, form)) = 1
    BY <1>3, PutFacts DEF WidthOf
  <2>4. Effect(n, Put("stack", stk, form))
    BY <1>1, <1>2, <1>3, <1>4, <2>1, <2>2, <2>3, OnStackEffect
  <2> QED
    BY <2>4 DEF Effect
<1> QED
  BY <1>5, <1>6

LEMMA ArgSysVEffect ==
  ASSUME Types, ArgSysV PROVE \E n \in Nat, p \in Place : Effect(n, p)
<1>1. PICK n \in Nat : n = Len(place)
  BY DEF Types
<1> DEFINE k == sig.args[n + 1]
<1>2. Target = "sysv" /\ n < Len(sig.args) /\ NextArg = k
  BY <1>1 DEF ArgSysV, Calling, NextArg
<1>3. sig \in Signatures /\ n + 1 \in 1 .. Len(sig.args)
  BY <1>2, SigFacts DEF Types
<1>4. k \in Kinds
  BY <1>3, ArgFacts
<1>5. gp \in Nat /\ stk \in Nat /\ fp \in Nat
  BY DEF Types
<1>6. sig.named \in Nat /\ (Unnamed <=> n + 1 > sig.named)
  BY <1>1, <1>2, <1>3, SigFacts DEF Unnamed
<1>7. CASE k = "ldouble" /\ Unnamed
  <2> DEFINE at == stk + (stk % 2)
  <2>1. OnStack(at, 2, "x87")
    BY <1>2, <1>7 DEF ArgSysV
  <2>2. at \in Nat /\ stk <= at
    BY <1>5
  <2>3. Bad(n + 1, Put("stack", at, "x87"))
    BY <1>2, <1>6, <1>7 DEF Bad
  <2> HIDE DEF at
  <2>4. Effect(n, Put("stack", at, "x87"))
    BY <1>1, <1>2, <2>1, <2>2, <2>3, OnStackEffect DEF Forms
  <2> QED
    BY <2>4 DEF Effect
<1>8. CASE ~(k = "ldouble" /\ Unnamed) /\ IsFlonum(k) /\ fp < MaxFp("sysv")
  <2> DEFINE p == Put("fp", fp, "double")
  <2>1. InFp(1, "double")
    BY <1>2, <1>8 DEF ArgSysV
  <2>2. p.at[1] = "fp" /\ p.form = "double"
    BY PutFacts
  <2>3. Form(n + 1) = "double"
    BY <1>2, <1>8 DEF Form
  <2>4. Passes(n + 1, p, Now, [gp |-> gp, fp |-> fp + 1, stk |-> stk])
    BY <1>2, <1>5, <1>8, <2>3, NowFacts DEF Passes, Moves
  <2> HIDE DEF p
  <2>5. WidthOf(n + 1, p) = 1
    BY <1>4, <1>8, <2>2, KindFacts DEF WidthOf
  <2>6. fp + 1 <= MaxFp(Target)
    BY <1>2, <1>3, <1>5, <1>8, SigFacts
  <2>7. Effect(n, p)
    BY <1>1, <1>2, <2>1, <2>4, <2>5, <2>6, InFpEffect DEF Forms, p
  <2> QED
    BY <2>7 DEF Effect
<1>9. CASE ~(k = "ldouble" /\ Unnamed) /\ IsFlonum(k) /\ ~(fp < MaxFp("sysv"))
  <2> DEFINE form == IF k = "ldouble" THEN "x87" ELSE "double"
  <2> DEFINE p == Put("stack", stk, form)
  <2>1. OnStack(stk, 1, form) /\ form \in Forms
    BY <1>2, <1>9 DEF ArgSysV, Forms
  <2>2. p.at[1] = "stack" /\ p.form = form
    BY PutFacts
  <2>3. k = "ldouble" => Bad(n + 1, p)
    BY <1>2, <1>3, <1>6, <2>2 DEF Bad
  <2>4. k # "ldouble" => form = Form(n + 1)
    BY <1>2, <1>9 DEF Form
  <2>5. k # "ldouble" => Passes(n + 1, p, Now, [gp |-> gp, fp |-> fp, stk |-> stk + 1])
    BY <1>2, <1>5, <1>9, <2>4, NowFacts DEF Passes, Moves
  <2>6. k # "ldouble" => WidthOf(n + 1, p) = 1
    BY <2>2 DEF WidthOf
  <2> HIDE DEF form, p
  <2>7. Effect(n, p)
    BY <1>1, <1>2, <1>5, <2>1, <2>3, <2>5, <2>6, OnStackEffect DEF p
  <2> QED
    BY <2>7 DEF Effect
<1>10. CASE ~IsFlonum(k) /\ gp < MaxGp("sysv")
  <2> DEFINE p == Put("gp", gp, StructForm(k))
  <2>1. k # "ldouble" /\ StructForm(k) \in Forms /\ StructForm(k) # "x87"
    BY <1>4, <1>10, KindFacts DEF Forms
  <2>2. InGp(StructForm(k))
    BY <1>2, <1>10, <2>1 DEF ArgSysV
  <2>3. Form(n + 1) = StructForm(k)
    BY <1>10 DEF Form
  <2>4. Passes(n + 1, p, Now, [gp |-> gp + 1, fp |-> fp, stk |-> stk])
    BY <1>2, <1>5, <1>10, <2>3, NowFacts DEF Passes, Moves
  <2> HIDE DEF p
  <2>5. Effect(n, p)
    BY <1>1, <1>2, <1>10, <2>1, <2>2, <2>4, InGpEffect DEF InGp, p
  <2> QED
    BY <2>5 DEF Effect
<1>11. CASE ~IsFlonum(k) /\ ~(gp < MaxGp("sysv"))
  <2> DEFINE p == Put("stack", stk, StructForm(k))
  <2>1. k # "ldouble" /\ StructForm(k) \in Forms /\ StructForm(k) # "x87"
    BY <1>4, <1>11, KindFacts DEF Forms
  <2>2. OnStack(stk, 1, StructForm(k))
    BY <1>2, <1>11, <2>1 DEF ArgSysV
  <2>3. Form(n + 1) = StructForm(k)
    BY <1>11 DEF Form
  <2>4. Passes(n + 1, p, Now, [gp |-> gp, fp |-> fp, stk |-> stk + 1])
    BY <1>2, <1>5, <1>11, <2>3, NowFacts DEF Passes, Moves
  <2>5. WidthOf(n + 1, p) = 1
    BY <2>1, PutFacts DEF WidthOf
  <2> HIDE DEF p
  <2>6. Effect(n, p)
    BY <1>1, <1>2, <1>5, <2>1, <2>2, <2>4, <2>5, OnStackEffect DEF p
  <2> QED
    BY <2>6 DEF Effect
<1> QED
  BY <1>7, <1>8, <1>9, <1>10, <1>11

LEMMA ArgArmEffect ==
  ASSUME Types, ArgArm PROVE \E n \in Nat, p \in Place : Effect(n, p)
<1>1. PICK n \in Nat : n = Len(place)
  BY DEF Types
<1> DEFINE k == sig.args[n + 1]
<1> DEFINE w == HfaCount(k)
<1>2. Target = "arm" /\ n < Len(sig.args) /\ NextArg = k
  BY <1>1 DEF ArgArm, Calling, NextArg
<1>3. sig \in Signatures /\ n + 1 \in 1 .. Len(sig.args)
  BY <1>2, SigFacts DEF Types
<1>4. /\ k \in Kinds /\ w \in Nat /\ (w > 0 => ~IsFlonum(k))
      /\ StructForm(k) \in Forms /\ StructForm(k) # "x87"
  <2>1. k \in Kinds
    BY <1>3, ArgFacts
  <2> QED
    BY <2>1, KindFacts DEF Forms
<1>5. gp \in Nat /\ stk \in Nat /\ fp \in Nat
  BY DEF Types
<1>6. /\ sig.named \in Nat /\ (Unnamed <=> n + 1 > sig.named)
      /\ ~sig.variadic => n + 1 <= sig.named
  BY <1>1, <1>2, <1>3, SigFacts DEF Unnamed
<1>7. CASE IsFlonum(k) /\ fp < MaxFp("arm")
  <2> DEFINE p == Put("fp", fp, FpFormArm(k))
  <2>1. InFp(1, FpFormArm(k)) /\ FpFormArm(k) \in Forms /\ FpFormArm(k) # "x87"
    BY <1>2, <1>7 DEF ArgArm, FpFormArm, Forms
  <2>2. Form(n + 1) = FpFormArm(k)
    BY <1>2, <1>6, <1>7 DEF Form, FpFormArm
  <2>3. Passes(n + 1, p, Now, [gp |-> gp, fp |-> fp + 1, stk |-> stk])
    BY <1>2, <1>5, <1>7, <2>2, NowFacts DEF Passes, Moves
  <2>4. WidthOf(n + 1, p) = 1
    BY <1>4, <1>7, <2>1, PutFacts DEF WidthOf
  <2> HIDE DEF p
  <2>5. fp + 1 <= MaxFp(Target)
    BY <1>2, <1>3, <1>5, <1>7, SigFacts
  <2>6. Effect(n, p)
    BY <1>1, <1>2, <2>1, <2>3, <2>4, <2>5, InFpEffect DEF p
  <2> QED
    BY <2>6 DEF Effect
<1>8. CASE w > 0 /\ ~sig.variadic /\ fp + w <= MaxFp("arm")
  <2> DEFINE p == Put("fp", fp, "value")
  <2>1. InFp(w, "value")
    BY <1>2, <1>4, <1>8 DEF ArgArm
  <2>2. Passes(n + 1, p, Now, [gp |-> gp, fp |-> fp + w, stk |-> stk])
    BY <1>2, <1>4, <1>5, <1>8, NowFacts DEF Passes, Moves
  <2>3. WidthOf(n + 1, p) = w
    BY <1>8, PutFacts DEF WidthOf
  <2> HIDE DEF p, w
  <2>4. Effect(n, p)
    BY <1>1, <1>2, <1>4, <1>8, <2>1, <2>2, <2>3, InFpEffect DEF p, Forms
  <2> QED
    BY <2>4 DEF Effect
<1>9. CASE w > 0 /\ ~sig.variadic /\ ~(fp + w <= MaxFp("arm"))
  <2> DEFINE p == Put("stack", stk, StructForm(k))
  <2>1. OnStack(stk, w, StructForm(k))
    BY <1>2, <1>4, <1>9 DEF ArgArm
  <2>2. Bad(n + 1, p)
    BY <1>2, <1>6, <1>9, PutFacts DEF Bad
  <2>3. w \in Nat /\ StructForm(k) \in Forms /\ stk \in Nat /\ stk <= stk
    BY <1>4, <1>5
  <2> DEFINE form == StructForm(k)
  <2> HIDE DEF w, k, form
  <2>4. Effect(n, Put("stack", stk, form))
    BY <1>1, <1>2, <2>1, <2>2, <2>3, OnStackEffect DEF form
  <2> QED
    BY <2>4 DEF Effect
<1>10. CASE IsFlonum(k) /\ ~(fp < MaxFp("arm"))
  <2>1. ~(w > 0) /\ "double" \in Forms
    BY <1>4, <1>10 DEF Forms
  <2>2. (InGp("double") /\ gp < MaxGp("arm")) \/ OnStack(stk, 1, "double")
    BY <1>2, <1>10, <2>1 DEF ArgArm
  <2>3. Bad(n + 1, Put("gp", gp, "double")) /\ Bad(n + 1, Put("stack", stk, "double"))
    BY <1>2, <1>10, PutFacts DEF Bad
  <2>4. ASSUME InGp("double"), gp < MaxGp("arm") PROVE Effect(n, Put("gp", gp, "double"))
    BY <1>1, <1>2, <2>1, <2>3, <2>4, InGpEffect DEF InGp
  <2>5. ASSUME OnStack(stk, 1, "double") PROVE Effect(n, Put("stack", stk, "double"))
    <3>1. stk \in Nat /\ stk <= stk
      BY <1>5
    <3> HIDE DEF k, w
    <3> QED
      BY <1>1, <1>2, <2>1, <2>3, <2>5, <3>1, OnStackEffect
  <2> QED
    BY <2>2, <2>4, <2>5 DEF Effect
<1>11. CASE ~IsFlonum(k) /\ ~(w > 0 /\ ~sig.variadic) /\ gp < MaxGp("arm")
  <2> DEFINE p == Put("gp", gp, StructForm(k))
  <2>1. k # "ldouble"
    BY <1>4, <1>11, KindFacts
  <2>2. InGp(StructForm(k))
    BY <1>2, <1>11, <2>1 DEF ArgArm
  <2>3. Form(n + 1) = StructForm(k)
    BY <1>11 DEF Form
  <2>4. Passes(n + 1, p, Now, [gp |-> gp + 1, fp |-> fp, stk |-> stk])
    BY <1>2, <1>5, <1>11, <2>3, NowFacts DEF Passes, Moves
  <2> HIDE DEF p
  <2>5. Effect(n, p)
    BY <1>1, <1>2, <1>4, <1>11, <2>2, <2>4, InGpEffect DEF InGp, p
  <2> QED
    BY <2>5 DEF Effect
<1>12. CASE ~IsFlonum(k) /\ ~(w > 0 /\ ~sig.variadic) /\ ~(gp < MaxGp("arm"))
  <2> DEFINE p == Put("stack", stk, StructForm(k))
  <2>1. OnStack(stk, 1, StructForm(k))
    BY <1>2, <1>12 DEF ArgArm
  <2>2. Form(n + 1) = StructForm(k)
    BY <1>12 DEF Form
  <2>3. Passes(n + 1, p, Now, [gp |-> gp, fp |-> fp, stk |-> stk + 1])
    BY <1>2, <1>5, <1>12, <2>2, NowFacts DEF Passes, Moves
  <2>4. WidthOf(n + 1, p) = 1
    BY <1>4, PutFacts DEF WidthOf
  <2> HIDE DEF p
  <2>5. Effect(n, p)
    BY <1>1, <1>2, <1>4, <1>5, <2>1, <2>3, <2>4, OnStackEffect DEF p
  <2> QED
    BY <2>5 DEF Effect
<1> QED
  BY <1>7, <1>8, <1>9, <1>10, <1>11, <1>12

-----------------------------------------------------------------------------
(* The call itself does not change.                                        *)
LEMMA SameSig ==
  ASSUME UNCHANGED sig
  PROVE  /\ Target' = Target /\ Hidden' = Hidden
         /\ \A i, q : Bad(i, q)' = Bad(i, q) /\ WidthOf(i, q)' = WidthOf(i, q)
         /\ \A i, q, a, b : Passes(i, q, a, b)' = Passes(i, q, a, b)
         /\ \A n : NonFlonums(n)' = NonFlonums(n) /\ Flonums(n)' = Flonums(n)
<1>1. Target' = Target /\ Hidden' = Hidden
  BY DEF Target, Hidden
<1>2. \A i, q : Bad(i, q)' = Bad(i, q) /\ WidthOf(i, q)' = WidthOf(i, q)
  BY <1>1 DEF Bad, WidthOf
<1>3. \A i, q, a, b : Passes(i, q, a, b)' = Passes(i, q, a, b)
  <2> TAKE i, q, a, b
  <2>1. Form(i)' = Form(i)
    BY <1>1 DEF Form
  <2> DEFINE Fp(f) == Moves(q, a, b, "fp", a.fp, f, 0, 1, 0)
  <2> DEFINE Gp(f) == Moves(q, a, b, "gp", a.gp, f, 1, 0, 0)
  <2> DEFINE Reg(f) == Moves(q, a, b, "reg", a.gp, f, 1, 0, 0)
  <2> DEFINE St(f) == Moves(q, a, b, "stack", a.stk, f, 0, 0, 1)
  <2> DEFINE Hf(n) == Moves(q, a, b, "fp", a.fp, "value", 0, n, 0)
  <2>2. /\ Fp(Form(i))' = Fp(Form(i)) /\ Gp(Form(i))' = Gp(Form(i)) /\ Reg(Form(i))' = Reg(Form(i))
        /\ St(Form(i))' = St(Form(i)) /\ Hf(HfaCount(sig.args[i]))' = Hf(HfaCount(sig.args[i]))
    BY <2>1 DEF Moves
  <2> HIDE DEF Fp, Gp, Reg, St, Hf
  <2> QED
    BY <1>1, <2>2 DEF Passes, Fp, Gp, Reg, St, Hf
<1>4. \A n : NonFlonums(n)' = NonFlonums(n) /\ Flonums(n)' = Flonums(n)
  BY DEF NonFlonums, Flonums
<1> QED
  BY <1>1, <1>2, <1>3, <1>4

LEMMA AppendFacts ==
  ASSUME NEW T, NEW s \in Seq(T), NEW e \in T
  PROVE  /\ Append(s, e) \in Seq(T) /\ Len(Append(s, e)) = Len(s) + 1 /\ Len(s) \in Nat
         /\ \A i \in 1 .. Len(s) : Append(s, e)[i] = s[i] /\ s[i] \in T
         /\ Append(s, e)[Len(s) + 1] = e
OBVIOUS

(* Passing an argument keeps the invariant.                                *)
LEMMA EffectCaller ==
  ASSUME Types, Caller, NEW n \in Nat, NEW p \in Place, Effect(n, p)
  PROVE  Caller'
<1>1. /\ Len(place') = n + 1 /\ place'[n + 1] = p
      /\ \A i \in 1 .. n : place'[i] = place[i] /\ place[i] \in Place
  BY AppendFacts, SMTT(20) DEF Types, Effect
<1>2. sig' = sig /\ sig \in Signatures /\ n + 1 <= Len(sig.args) /\ n = Len(place) /\ Len(sig.args) \in Nat
  BY SigFacts, SMTT(20) DEF Effect, Types
<1>3. /\ \A i, q : Bad(i, q)' = Bad(i, q) /\ WidthOf(i, q)' = WidthOf(i, q)
      /\ Hidden' = Hidden
  BY <1>2, SameSig
<1>4. \A i \in 1 .. n + 1 : \A q : WidthOf(i, q) \in Nat
  <2> TAKE i \in 1 .. n + 1
  <2> TAKE q
  <2>1. i \in 1 .. Len(sig.args)
    BY <1>2
  <2> QED
    BY <1>2, <2>1, ArgFacts
<1>5. /\ gp \in Nat /\ fp \in Nat /\ stk \in Nat /\ gp' \in Nat /\ fp' \in Nat /\ stk' \in Nat
      /\ gp <= gp' /\ fp <= fp' /\ stk <= stk'
  BY DEF Types, Effect
<1>6. \A so : /\ Used(so, Now) \in Nat /\ Used(so, Now') \in Nat /\ Used(so, Now) <= Used(so, Now')
              /\ Used(so, Now)' = Used(so, Now')
  BY <1>5 DEF Used, Now
<1>7. \A i \in 1 .. n + 1 : place'[i].at[2] \in Nat
  BY <1>1 DEF Place
<1>8. Within'
  <2> SUFFICES ASSUME NEW i \in 1 .. n + 1, ~Bad(i, place'[i])
               PROVE  place'[i].at[2] + WidthOf(i, place'[i]) <= Used(place'[i].at[1], Now')
    BY <1>1, <1>3, <1>6 DEF Within
  <2>1. CASE i = n + 1
    BY <1>1, <2>1 DEF Effect
  <2>2. CASE i \in 1 .. n
    <3>1. place'[i] = place[i] /\ place[i].at[2] + WidthOf(i, place[i]) <= Used(place[i].at[1], Now)
      BY <1>1, <1>2, <2>2 DEF Caller, Within
    <3> QED
      BY <1>4, <1>6, <1>7, <3>1
  <2> QED
    BY <2>1, <2>2
<1>9. Ordered'
  <2> SUFFICES ASSUME NEW i \in 1 .. n + 1, NEW j \in 1 .. n + 1, i < j, ~Bad(i, place'[i]),
                      place'[i].at[1] = place'[j].at[1]
               PROVE  place'[i].at[2] + WidthOf(i, place'[i]) <= place'[j].at[2]
    BY <1>1, <1>3 DEF Ordered
  <2>1. i \in 1 .. n /\ place'[i] = place[i]
    BY <1>1
  <2>2. CASE j \in 1 .. n
    BY <1>1, <1>2, <2>1, <2>2 DEF Caller, Ordered
  <2>3. CASE j = n + 1
    <3>1. place[i].at[2] + WidthOf(i, place[i]) <= Used(place[i].at[1], Now)
      BY <1>2, <2>1 DEF Caller, Within
    <3>2. Used(place[i].at[1], Now) <= p.at[2] /\ place'[j] = p
      BY <1>1, <2>1, <2>3 DEF Effect
    <3>3. p.at[2] \in Nat
      BY DEF Place
    <3> QED
      BY <1>4, <1>6, <1>7, <2>1, <3>1, <3>2, <3>3
  <2> QED
    BY <2>2, <2>3
<1>10. AboveHidden'
  <2> SUFFICES ASSUME NEW i \in 1 .. n + 1, place'[i].at[1] \in {"gp", "reg"} PROVE Hidden <= place'[i].at[2]
    BY <1>1, <1>3 DEF AboveHidden
  <2>1. CASE i \in 1 .. n
    BY <1>1, <1>2, <2>1 DEF Caller, AboveHidden
  <2>2. CASE i = n + 1
    <3>1. Hidden <= gp /\ Hidden \in Nat
      BY <1>2, SigFacts DEF Types
    <3>2. gp <= p.at[2]
      BY <1>1, <2>2 DEF Effect, Used, Now
    <3> QED
      BY <1>1, <1>5, <1>7, <2>2, <3>1, <3>2
  <2> QED
    BY <2>1, <2>2
<1> QED
  BY <1>8, <1>9, <1>10 DEF Caller

LEMMA EffectKeeps ==
  ASSUME IInv, NEW n \in Nat, NEW p \in Place, Effect(n, p)
  PROVE  IInv'
<1>1. /\ Len(place') = n + 1 /\ place' \in Seq(Place) /\ place'[n + 1] = p
      /\ \A i \in 1 .. n : place'[i] = place[i]
  BY AppendFacts DEF IInv, Types, Effect
<1>2. /\ sig' = sig /\ sig \in Signatures /\ n + 1 <= Len(sig.args) /\ n = Len(place) /\ Len(sig.args) \in Nat
      /\ UNCHANGED <<pgp, pfp, pstk, got, va>>
  BY SigFacts, SMTT(20) DEF IInv, Effect, Types
<1>3. Target' = Target /\ Hidden' = Hidden /\ Hidden \in Nat
  BY <1>2, SameSig, SigFacts
<1>4. Types'
  BY <1>1, <1>2, <1>3 DEF IInv, Types, Effect
<1>5. got = <<>> /\ va = NoVaList /\ pgp = Hidden /\ pfp = 0 /\ pstk = 0
  BY <1>2 DEF IInv, Phases
<1>6. Phases'
  BY <1>2, <1>3, <1>5 DEF IInv, Phases
<1>7. Caller'
  BY EffectCaller DEF IInv
<1>8. Agreed'
  BY <1>2, <1>5 DEF Agreed
<1>9. PICK c \in [0 .. Len(sig.args) -> Counters] : History(c) /\ Callee(c)
  BY DEF IInv
<1>10. PICK now \in Counters : now = Now'
  BY <1>4 DEF Types, Now, Counters
<1> DEFINE d == [c EXCEPT ![n + 1] = now]
<1>11. /\ d \in [0 .. Len(sig.args) -> Counters] /\ d[n + 1] = now /\ d[0] = c[0]
       /\ \A i \in 0 .. n : d[i] = c[i]
  BY <1>2
<1> HIDE DEF d
<1>12. History(d)'
  <2>1. d[0] = [gp |-> Hidden, fp |-> 0, stk |-> 0]
    BY <1>9, <1>11 DEF History
  <2>2. ASSUME NEW i \in 1 .. n + 1, ~Bad(i, place'[i]) PROVE Passes(i, place'[i], d[i - 1], d[i])
    <3>1. CASE i = n + 1
      <4>1. d[i - 1] = Now
        BY <1>2, <1>9, <1>11, <3>1 DEF History
      <4> QED
        BY <1>1, <1>10, <1>11, <2>2, <3>1, <4>1 DEF Effect
    <3>2. CASE i \in 1 .. n
      <4>1. Passes(i, place[i], c[i - 1], c[i])
        BY <1>1, <1>2, <1>9, <2>2, <3>2 DEF History
      <4>2. d[i - 1] = c[i - 1] /\ d[i] = c[i]
        BY <1>11, <3>2
      <4> QED
        BY <1>1, <3>2, <4>1, <4>2
    <3> QED
      BY <3>1, <3>2
  <2>3. \A i, q : Bad(i, q)' = Bad(i, q)
    BY <1>2, SameSig
  <2>4. \A i, q, a, b : Passes(i, q, a, b)' = Passes(i, q, a, b)
    BY <1>2, SameSig
  <2> QED
    BY <1>1, <1>3, <1>10, <1>11, <2>1, <2>2, <2>3, <2>4 DEF History
<1>13. Callee(d)'
  <2>1. Entry(0, c[0])
    BY <1>5, <1>9 DEF Callee, Clean
  <2>2. NonFlonums(0)' = NonFlonums(0) /\ Flonums(0)' = Flonums(0)
    BY <1>2, SameSig
  <2>3. Entry(0, d[0])'
    BY <1>2, <1>3, <1>5, <1>11, <2>1, <2>2 DEF Entry
  <2> QED
    BY <1>2, <1>5, <2>3 DEF Callee
<1> QED
  BY <1>2, <1>4, <1>6, <1>7, <1>8, <1>11, <1>12, <1>13 DEF IInv

-----------------------------------------------------------------------------
(* A mismatch by itself is a mismatch; what else Mismatched says.          *)
LEMMA BadMismatched ==
  ASSUME sig \in Signatures, NEW i
  PROVE  /\ Bad(i, place[i]) => Mismatched(i)
         /\ ~Mismatched(i) /\ Target = "win" =>
              /\ ~(i <= sig.named /\ place[i].at[1] = "stack" /\ (ByPointer(sig.args[i]) \/ sig.args[i] = "float"))
              /\ ~(i > sig.named /\ Stacked(sig.named))
<1>1. Target \in Targets
  BY SigFacts
<1> QED
  BY <1>1 DEF Bad, Mismatched, Stacked, Targets

(* va_start's counts of the named parameters, parameter by parameter.      *)
LEMMA CountStep ==
  ASSUME NEW n \in Nat
  PROVE  /\ NonFlonums(n) \in Nat /\ Flonums(n) \in Nat
         /\ NonFlonums(n + 1) = NonFlonums(n) + (IF IsFlonum(sig.args[n + 1]) THEN 0 ELSE 1)
         /\ Flonums(n + 1) = Flonums(n) + (IF IsFlonum(sig.args[n + 1]) THEN 1 ELSE 0)
<1> DEFINE N == {i \in 1 .. n : ~IsFlonum(sig.args[i])}
<1> DEFINE F == {i \in 1 .. n : IsFlonum(sig.args[i])}
<1>1. IsFiniteSet(1 .. n)
  BY FS_Interval
<1>2. IsFiniteSet(N) /\ IsFiniteSet(F)
  BY <1>1, FS_Subset
<1>3. {i \in 1 .. n + 1 : ~IsFlonum(sig.args[i])} = IF IsFlonum(sig.args[n + 1]) THEN N ELSE N \union {n + 1}
  OBVIOUS
<1>4. {i \in 1 .. n + 1 : IsFlonum(sig.args[i])} = IF IsFlonum(sig.args[n + 1]) THEN F \union {n + 1} ELSE F
  OBVIOUS
<1>5. n + 1 \notin N /\ n + 1 \notin F
  OBVIOUS
<1>6. NonFlonums(n) = Cardinality(N) /\ Flonums(n) = Cardinality(F)
  BY DEF NonFlonums, Flonums
<1> HIDE DEF N, F
<1>7. Cardinality(N) \in Nat /\ Cardinality(F) \in Nat
  BY <1>2, FS_CardinalityType
<1>8. /\ Cardinality(N \union {n + 1}) = Cardinality(N) + 1
      /\ Cardinality(F \union {n + 1}) = Cardinality(F) + 1
  BY <1>2, <1>5, FS_AddElement
<1>9. CASE IsFlonum(sig.args[n + 1])
  <2>1. NonFlonums(n + 1) = Cardinality(N) /\ Flonums(n + 1) = Cardinality(F \union {n + 1})
    BY <1>3, <1>4, <1>9 DEF NonFlonums, Flonums
  <2> QED
    BY <1>6, <1>7, <1>8, <1>9, <2>1
<1>10. CASE ~IsFlonum(sig.args[n + 1])
  <2>1. NonFlonums(n + 1) = Cardinality(N \union {n + 1}) /\ Flonums(n + 1) = Cardinality(F)
    BY <1>3, <1>4, <1>10 DEF NonFlonums, Flonums
  <2> QED
    BY <1>6, <1>7, <1>8, <1>10, <2>1
<1> QED
  BY <1>9, <1>10

LEMMA SamePlace ==
  ASSUME UNCHANGED <<sig, place>>
  PROVE  /\ \A n : Clean(n)' = Clean(n) /\ Stacked(n)' = Stacked(n)
         /\ \A c : History(c)' = (/\ c[0] = [gp |-> Hidden, fp |-> 0, stk |-> 0]
                                  /\ c[Len(place)] = Now'
                                  /\ \A i \in 1 .. Len(place) : ~Bad(i, place[i]) =>
                                       Passes(i, place[i], c[i - 1], c[i]))
<1>1. \A i : Mismatched(i)' = Mismatched(i)
  BY DEF Mismatched, Target
<1>2. \A i, q : Bad(i, q)' = Bad(i, q)
  BY SameSig
<1>3. \A i, q, a, b : Passes(i, q, a, b)' = Passes(i, q, a, b)
  BY SameSig
<1>4. Hidden' = Hidden
  BY SameSig
<1>5. \A n : Clean(n)' = Clean(n) /\ Stacked(n)' = Stacked(n)
  BY <1>1 DEF Clean, Stacked
<1>6. ASSUME NEW c
      PROVE  History(c)' = (/\ c[0] = [gp |-> Hidden, fp |-> 0, stk |-> 0]
                            /\ c[Len(place)] = Now'
                            /\ \A i \in 1 .. Len(place) : ~Bad(i, place[i]) =>
                                 Passes(i, place[i], c[i - 1], c[i]))
  BY <1>2, <1>3, <1>4 DEF History
<1> QED
  BY <1>5, <1>6

(* Where the callee is, in terms of the caller's counters a.               *)
At(n, a) == IF va = NoVaList THEN Entry(n, a) ELSE Varargs(a)

(* Taking an argument keeps the invariant, if it is taken where it was     *)
(* passed and the callee goes on as the caller did.                        *)
LEMMA TakeKeeps ==
  ASSUME IInv, NEW n \in Nat, NEW q \in Taken, n = Len(got), n < Len(sig.args), Len(place) = Len(sig.args),
         got' = Append(got, q), UNCHANGED <<sig, gp, fp, stk, place>>,
         pgp' \in Nat, pfp' \in Nat, pstk' \in Nat, pgp' <= MaxGp(Target),
         va' \in [gp : Int, fp : Int, st : Int],
         va' = NoVaList => n + 1 <= sig.named,
         va' # NoVaList => /\ va'.gp \in Nat /\ va'.fp \in Nat /\ va'.st \in Nat
                           /\ n >= sig.named /\ sig.variadic,
         \A a, b \in Counters :
           Clean(n + 1) /\ Passes(n + 1, place[n + 1], a, b) /\ At(n, a) =>
             q = place[n + 1] /\ At(n + 1, b)'
  PROVE  IInv'
<1>1. /\ Len(got') = n + 1 /\ got' \in Seq(Taken) /\ got'[n + 1] = q
      /\ \A i \in 1 .. n : got'[i] = got[i]
  BY AppendFacts DEF IInv, Types
<1>2. sig \in Signatures /\ Len(sig.args) \in Nat /\ sig.named \in Nat
  BY SigFacts DEF IInv, Types
<1>3. Target' = Target /\ Hidden' = Hidden
  BY SameSig
<1>4. Types'
  BY <1>1, <1>2, <1>3, SMTT(20) DEF IInv, Types
<1>5. Phases'
  BY <1>1, <1>2 DEF IInv, Phases
<1>6. Caller'
  <2>1. \A i, p : Bad(i, p)' = Bad(i, p) /\ WidthOf(i, p)' = WidthOf(i, p)
    BY SameSig
  <2> QED
    BY <1>3, <2>1 DEF IInv, Caller, Within, Ordered, AboveHidden, Now, Used
<1>7. PICK c \in [0 .. Len(sig.args) -> Counters] : History(c) /\ Callee(c)
  BY DEF IInv
<1>8. Now' = Now /\ History(c)'
  <2>1. Now' = Now
    BY DEF Now
  <2> QED
    BY <1>7, <2>1, SamePlace DEF History
<1>9. ASSUME Clean(n + 1) PROVE q = place[n + 1] /\ At(n + 1, c[n + 1])'
  <2>1. Clean(n) /\ ~Mismatched(n + 1)
    BY <1>9 DEF Clean
  <2>2. ~Bad(n + 1, place[n + 1])
    BY <1>2, <2>1, BadMismatched
  <2>3. Passes(n + 1, place[n + 1], c[n], c[n + 1])
    <3>1. n + 1 \in 1 .. Len(place) /\ (n + 1) - 1 = n
      BY <1>2
    <3> QED
      BY <1>7, <2>2, <3>1 DEF History
  <2>4. At(n, c[n])
    BY <1>7, <2>1 DEF Callee, At
  <2>5. c[n] \in Counters /\ c[n + 1] \in Counters
    BY <1>2, <1>7
  <2> QED
    BY <1>9, <2>3, <2>4, <2>5
<1>10. Callee(c)'
  <2>1. Clean(n + 1)' = Clean(n + 1)
    BY SamePlace
  <2> QED
    BY <1>1, <1>9, <2>1 DEF Callee, At
<1>11. Agreed'
  <2> SUFFICES ASSUME NEW i \in 1 .. n + 1, Clean(i) PROVE got'[i] = place[i]
    <3>1. \A i : Clean(i)' = Clean(i)
      BY SamePlace
    <3> QED
      BY <1>1, <3>1 DEF Agreed
  <2>1. CASE i \in 1 .. n
    BY <1>1, <2>1 DEF IInv, Agreed
  <2>2. CASE i = n + 1
    BY <1>1, <1>9, <2>2
  <2> QED
    BY <2>1, <2>2
<1> QED
  BY <1>4, <1>5, <1>6, <1>7, <1>8, <1>10, <1>11 DEF IInv

-----------------------------------------------------------------------------
(* The callee's steps, one lemma each.  First what they have in common.    *)
LEMMA EnteringFacts ==
  ASSUME IInv, NEW t, Entering(t)
  PROVE  \E n \in Nat :
           /\ n = Len(got) /\ n < sig.named /\ n < Len(sig.args) /\ Len(place) = Len(sig.args)
           /\ Target = t /\ Target \in Targets /\ NextParam = sig.args[n + 1] /\ sig.args[n + 1] \in Kinds
           /\ sig.named \in Nat /\ va = NoVaList /\ n + 1 <= sig.named
           /\ pgp \in Nat /\ pfp \in Nat /\ pstk \in Nat /\ pgp <= MaxGp(Target)
           /\ MaxGp(Target) \in Nat /\ MaxFp(Target) \in Nat
           /\ va \in [gp : Int, fp : Int, st : Int]
<1>1. /\ sig \in Signatures /\ got \in Seq(Taken)
      /\ pgp \in Nat /\ pfp \in Nat /\ pstk \in Nat /\ pgp <= MaxGp(Target)
      /\ va \in [gp : Int, fp : Int, st : Int]
  BY DEF IInv, Types
<1>2. PICK n \in Nat : n = Len(got)
  BY <1>1
<1>3. /\ Target \in Targets /\ sig.named \in Nat /\ sig.named <= Len(sig.args) /\ Len(sig.args) \in Nat
      /\ MaxGp(Target) \in Nat /\ MaxFp(Target) \in Nat
  BY <1>1, SigFacts
<1>4. n < sig.named /\ Target = t /\ Len(place) = Len(sig.args)
  BY <1>2 DEF Entering
<1>5. n + 1 \in 1 .. Len(sig.args)
  BY <1>3, <1>4
<1>6. sig.args[n + 1] \in Kinds
  BY <1>1, <1>5, ArgFacts
<1>7. NextParam = sig.args[n + 1]
  BY <1>2 DEF NextParam
<1>8. va = NoVaList
  BY <1>2, <1>3, <1>4 DEF IInv, Phases
<1>9. n < Len(sig.args) /\ n + 1 <= sig.named
  BY <1>3, <1>4
<1> QED
  BY <1>1, <1>2, <1>3, <1>4, <1>6, <1>7, <1>8, <1>9, SMTT(20)

(* A parameter taken from q leaves the callee's counters as given.         *)
LEMMA ParamKeeps ==
  ASSUME IInv, NEW n \in Nat, n = Len(got), n < Len(sig.args), Len(place) = Len(sig.args),
         va = NoVaList, n + 1 <= sig.named,
         NEW sort \in Sorts \union {"none"}, NEW m \in Nat, NEW form \in Forms \union {"none"},
         NEW dgp \in Nat, NEW dfp \in Nat, NEW dstk \in Nat, Take(sort, m, form, dgp, dfp, dstk),
         pgp + dgp <= MaxGp(Target),
         \A a, b \in Counters :
           Clean(n + 1) /\ Passes(n + 1, place[n + 1], a, b) /\ Entry(n, a) =>
             Put(sort, m, form) = place[n + 1] /\ Entry(n + 1, b)'
  PROVE  IInv'
<1>1. Put(sort, m, form) \in Taken
  BY DEF Put, Taken
<1>2. PICK q \in Taken : q = Put(sort, m, form)
  BY <1>1
<1>3. /\ pgp \in Nat /\ pfp \in Nat /\ pstk \in Nat
      /\ va \in [gp : Int, fp : Int, st : Int]
  BY DEF IInv, Types
<1>4. /\ got' = Append(got, q) /\ pgp' = pgp + dgp /\ pfp' = pfp + dfp /\ pstk' = pstk + dstk
      /\ UNCHANGED <<sig, gp, fp, stk, place, va>>
  BY <1>2 DEF Take
<1>5. \A a, b \in Counters :
        Clean(n + 1) /\ Passes(n + 1, place[n + 1], a, b) /\ At(n, a) => q = place[n + 1] /\ At(n + 1, b)'
  BY <1>2, <1>4 DEF At
<1> QED
  BY <1>3, <1>4, <1>5, TakeKeeps

LEMMA ParamWinKeeps ==
  ASSUME IInv, ParamWin PROVE IInv'
<1>1. PICK n \in Nat :
        /\ n = Len(got) /\ n < sig.named /\ n < Len(sig.args) /\ Len(place) = Len(sig.args)
        /\ Target = "win" /\ NextParam = sig.args[n + 1] /\ sig.args[n + 1] \in Kinds
        /\ sig.named \in Nat /\ va = NoVaList /\ n + 1 <= sig.named
        /\ pgp \in Nat /\ pfp \in Nat /\ pstk \in Nat /\ pgp <= MaxGp(Target)
        /\ MaxGp(Target) \in Nat
  BY EnteringFacts DEF ParamWin
<1> DEFINE k == sig.args[n + 1]
<1> DEFINE form == IF IsFlonum(k) THEN "double" ELSE StructForm(k)
<1>2. form \in Forms /\ form = Form(n + 1) /\ sig \in Signatures
  BY <1>1, KindFacts DEF Form, Forms, IInv, Types
<1>3. CASE pgp < MaxGp("win")
  <2> DEFINE df == IF IsFlonum(k) THEN 1 ELSE 0
  <2>1. Take("reg", pgp, form, 1, df, 0)
    BY <1>1, <1>3 DEF ParamWin
  <2>2. ASSUME NEW a \in Counters, NEW b \in Counters, Passes(n + 1, place[n + 1], a, b), Entry(n, a)
        PROVE  Put("reg", pgp, form) = place[n + 1] /\ Entry(n + 1, b)'
    <3>1. /\ Put("reg", pgp, form) = place[n + 1]
          /\ b = [gp |-> a.gp + 1, fp |-> a.fp + 0, stk |-> a.stk + 0]
      BY <1>1, <1>2, <1>3, <2>2 DEF Passes, Moves, Entry
    <3>2. pgp = a.gp /\ pstk = a.stk /\ (pstk > 0 => pgp = MaxGp("win"))
      BY <1>1, <2>2 DEF Entry
    <3>3. pgp' = pgp + 1 /\ pstk' = pstk /\ Target' = "win"
      BY <1>1, <2>1 DEF Take, Target
    <3>4. b.gp = pgp + 1 /\ b.stk = pstk /\ pstk = 0
      BY <1>1, <1>3, <3>1, <3>2
    <3> QED
      BY <3>1, <3>3, <3>4 DEF Entry
  <2> HIDE DEF form, df
  <2>3. df \in Nat /\ pgp + 1 <= MaxGp(Target)
    BY <1>1, <1>3 DEF df
  <2> QED
    BY <1>1, <1>2, <2>1, <2>2, <2>3, ParamKeeps DEF Sorts
<1>4. CASE ~(pgp < MaxGp("win"))
  <2> DEFINE f == IF k = "float" THEN "single" ELSE IF IsFlonum(k) THEN "double" ELSE "value"
  <2>1. Take("stack", pstk, f, 0, 0, 1) /\ f \in Forms
    BY <1>1, <1>4 DEF ParamWin, Forms
  <2>2. ASSUME NEW a \in Counters, NEW b \in Counters, Clean(n + 1),
               Passes(n + 1, place[n + 1], a, b), Entry(n, a)
        PROVE  Put("stack", pstk, f) = place[n + 1] /\ Entry(n + 1, b)'
    <3>1. pgp = a.gp /\ pstk = a.stk
      BY <2>2 DEF Entry
    <3>2. /\ place[n + 1] = Put("stack", pstk, form)
          /\ b = [gp |-> a.gp + 0, fp |-> a.fp + 0, stk |-> a.stk + 1]
      BY <1>1, <1>2, <1>4, <2>2, <3>1 DEF Passes, Moves
    <3>3. place[n + 1].at[1] = "stack" /\ ~Mismatched(n + 1)
      BY <2>2, <3>2, PutFacts DEF Clean
    <3>4. ~ByPointer(k) /\ k # "float"
      BY <1>1, <1>2, <3>3, BadMismatched
    <3>5. form = f
      BY <1>1, <3>4, KindFacts
    <3>6. pgp' = pgp /\ pstk' = pstk + 1 /\ Target' = "win" /\ Stacked(n + 1)'
      BY <1>1, <2>1, <3>3 DEF Take, Target, Stacked
    <3>7. b.gp = pgp /\ b.stk = pstk + 1 /\ pgp = MaxGp("win")
      BY <1>1, <1>4, <3>1, <3>2
    <3> QED
      BY <3>2, <3>5, <3>6, <3>7 DEF Entry
  <2> HIDE DEF f
  <2>3. pgp + 0 <= MaxGp(Target)
    BY <1>1
  <2> QED
    BY <1>1, <2>1, <2>2, <2>3, ParamKeeps DEF Sorts
<1> QED
  BY <1>3, <1>4

LEMMA ParamSysVKeeps ==
  ASSUME IInv, ParamSysV PROVE IInv'
<1>1. PICK n \in Nat :
        /\ n = Len(got) /\ n < sig.named /\ n < Len(sig.args) /\ Len(place) = Len(sig.args)
        /\ Target = "sysv" /\ NextParam = sig.args[n + 1] /\ sig.args[n + 1] \in Kinds
        /\ sig.named \in Nat /\ va = NoVaList /\ n + 1 <= sig.named
        /\ pgp \in Nat /\ pfp \in Nat /\ pstk \in Nat /\ pgp <= MaxGp(Target)
        /\ MaxGp(Target) \in Nat /\ MaxFp(Target) \in Nat
  BY EnteringFacts DEF ParamSysV
<1> DEFINE k == sig.args[n + 1]
<1>2. /\ Form(n + 1) = IF IsFlonum(k) THEN "double" ELSE StructForm(k)
      /\ sig \in Signatures /\ StructForm(k) \in Forms
  BY <1>1, KindFacts DEF Form, Forms, IInv, Types
<1>3. ASSUME NEW a \in Counters, NEW b \in Counters, Entry(n, a),
             pgp' = b.gp, pfp' = b.fp, pstk' = b.stk, UNCHANGED sig
      PROVE  Entry(n + 1, b)'
  BY <1>1, <1>3 DEF Entry, Target
<1>4. CASE IsFlonum(k) /\ pfp < MaxFp("sysv")
  <2>1. Take("fp", pfp, "double", 0, 1, 0)
    BY <1>1, <1>4 DEF ParamSysV
  <2>2. ASSUME NEW a \in Counters, NEW b \in Counters, Passes(n + 1, place[n + 1], a, b), Entry(n, a)
        PROVE  Put("fp", pfp, "double") = place[n + 1] /\ Entry(n + 1, b)'
    <3>1. pgp = a.gp /\ pstk = a.stk /\ pfp = a.fp
      BY <1>1, <2>2 DEF Entry
    <3>2. /\ place[n + 1] = Put("fp", pfp, "double")
          /\ b = [gp |-> a.gp + 0, fp |-> a.fp + 1, stk |-> a.stk + 0]
      BY <1>1, <1>2, <1>4, <2>2, <3>1 DEF Passes, Moves
    <3>3. pgp' = b.gp /\ pfp' = b.fp /\ pstk' = b.stk /\ UNCHANGED sig
      BY <2>1, <3>1, <3>2 DEF Take
    <3> QED
      BY <1>3, <2>2, <3>2, <3>3
  <2>3. pgp + 0 <= MaxGp(Target) /\ "double" \in Forms
    BY <1>1 DEF Forms
  <2> HIDE DEF k
  <2> QED
    BY <1>1, <2>1, <2>2, <2>3, ParamKeeps DEF Sorts
<1>5. CASE IsFlonum(k) /\ ~(pfp < MaxFp("sysv"))
  <2> DEFINE f == IF k = "float" THEN "single" ELSE "double"
  <2>1. Take("stack", pstk, f, 0, 0, 1) /\ f \in Forms
    BY <1>1, <1>5 DEF ParamSysV, Forms
  <2>2. ASSUME NEW a \in Counters, NEW b \in Counters, Clean(n + 1),
               Passes(n + 1, place[n + 1], a, b), Entry(n, a)
        PROVE  Put("stack", pstk, f) = place[n + 1] /\ Entry(n + 1, b)'
    <3>1. pgp = a.gp /\ pstk = a.stk /\ pfp = a.fp
      BY <1>1, <2>2 DEF Entry
    <3>2. /\ place[n + 1] = Put("stack", pstk, "double")
          /\ b = [gp |-> a.gp + 0, fp |-> a.fp + 0, stk |-> a.stk + 1]
      BY <1>1, <1>2, <1>5, <2>2, <3>1 DEF Passes, Moves
    <3>3. place[n + 1].at[1] = "stack" /\ ~Mismatched(n + 1)
      BY <2>2, <3>2, PutFacts DEF Clean
    <3>4. k # "float"
      BY <1>1, <1>2, <3>3, BadMismatched DEF Bad
    <3>5. pgp' = b.gp /\ pfp' = b.fp /\ pstk' = b.stk /\ UNCHANGED sig
      BY <2>1, <3>1, <3>2 DEF Take
    <3> QED
      BY <1>3, <2>2, <3>2, <3>4, <3>5
  <2>3. pgp + 0 <= MaxGp(Target)
    BY <1>1
  <2> HIDE DEF k, f
  <2> QED
    BY <1>1, <2>1, <2>2, <2>3, ParamKeeps DEF Sorts
<1>6. CASE ~IsFlonum(k) /\ pgp < MaxGp("sysv")
  <2>1. Take("gp", pgp, StructForm(k), 1, 0, 0)
    BY <1>1, <1>6 DEF ParamSysV
  <2>2. ASSUME NEW a \in Counters, NEW b \in Counters, Passes(n + 1, place[n + 1], a, b), Entry(n, a)
        PROVE  Put("gp", pgp, StructForm(k)) = place[n + 1] /\ Entry(n + 1, b)'
    <3>1. pgp = a.gp /\ pstk = a.stk /\ pfp = a.fp
      BY <1>1, <2>2 DEF Entry
    <3>2. /\ place[n + 1] = Put("gp", pgp, StructForm(k))
          /\ b = [gp |-> a.gp + 1, fp |-> a.fp + 0, stk |-> a.stk + 0]
      BY <1>1, <1>2, <1>6, <2>2, <3>1 DEF Passes, Moves
    <3>3. pgp' = b.gp /\ pfp' = b.fp /\ pstk' = b.stk /\ UNCHANGED sig
      BY <2>1, <3>1, <3>2 DEF Take
    <3> QED
      BY <1>3, <2>2, <3>2, <3>3
  <2>3. pgp + 1 <= MaxGp(Target)
    BY <1>1, <1>6
  <2> DEFINE f == StructForm(k)
  <2> HIDE DEF k, f
  <2> QED
    BY <1>1, <1>2, <2>1, <2>2, <2>3, ParamKeeps DEF Sorts
<1>7. CASE ~IsFlonum(k) /\ ~(pgp < MaxGp("sysv"))
  <2>1. Take("stack", pstk, "value", 0, 0, 1)
    BY <1>1, <1>7 DEF ParamSysV
  <2>2. ASSUME NEW a \in Counters, NEW b \in Counters, Clean(n + 1),
               Passes(n + 1, place[n + 1], a, b), Entry(n, a)
        PROVE  Put("stack", pstk, "value") = place[n + 1] /\ Entry(n + 1, b)'
    <3>1. pgp = a.gp /\ pstk = a.stk /\ pfp = a.fp
      BY <1>1, <2>2 DEF Entry
    <3>2. /\ place[n + 1] = Put("stack", pstk, StructForm(k))
          /\ b = [gp |-> a.gp + 0, fp |-> a.fp + 0, stk |-> a.stk + 1]
      BY <1>1, <1>2, <1>7, <2>2, <3>1 DEF Passes, Moves
    <3>3. place[n + 1].at[1] = "stack" /\ ~Mismatched(n + 1)
      BY <2>2, <3>2, PutFacts DEF Clean
    <3>4. StructForm(k) = "value"
      BY <1>1, <1>2, <3>3, BadMismatched, KindFacts DEF Bad
    <3>5. pgp' = b.gp /\ pfp' = b.fp /\ pstk' = b.stk /\ UNCHANGED sig
      BY <2>1, <3>1, <3>2 DEF Take
    <3> QED
      BY <1>3, <2>2, <3>2, <3>4, <3>5
  <2>3. pgp + 0 <= MaxGp(Target) /\ "value" \in Forms
    BY <1>1 DEF Forms
  <2> HIDE DEF k
  <2> QED
    BY <1>1, <2>1, <2>2, <2>3, ParamKeeps DEF Sorts
<1> QED
  BY <1>4, <1>5, <1>6, <1>7

LEMMA ParamArmKeeps ==
  ASSUME IInv, ParamArm PROVE IInv'
<1>1. PICK n \in Nat :
        /\ n = Len(got) /\ n < sig.named /\ n < Len(sig.args) /\ Len(place) = Len(sig.args)
        /\ Target = "arm" /\ NextParam = sig.args[n + 1] /\ sig.args[n + 1] \in Kinds
        /\ sig.named \in Nat /\ va = NoVaList /\ n + 1 <= sig.named
        /\ pgp \in Nat /\ pfp \in Nat /\ pstk \in Nat /\ pgp <= MaxGp(Target)
        /\ MaxGp(Target) \in Nat /\ MaxFp(Target) \in Nat
  BY EnteringFacts DEF ParamArm
<1> DEFINE k == sig.args[n + 1]
<1> DEFINE w == HfaCount(k)
<1>2. /\ Form(n + 1) = (IF ~IsFlonum(k) THEN StructForm(k) ELSE IF k = "float" THEN "single" ELSE "double")
      /\ sig \in Signatures /\ StructForm(k) \in Forms
      /\ w \in Nat /\ (w > 0 => ~IsFlonum(k))
  <2>1. ~(n + 1 > sig.named)
    BY <1>1
  <2>2. Form(n + 1) = (IF ~IsFlonum(k) THEN StructForm(k) ELSE IF k = "float" THEN "single" ELSE "double")
    BY <1>1, <2>1 DEF Form
  <2>3. sig \in Signatures
    BY DEF IInv, Types
  <2>4. StructForm(k) \in Forms /\ w \in Nat /\ (w > 0 => ~IsFlonum(k))
    BY <1>1, KindFacts DEF Forms
  <2> QED
    BY <2>2, <2>3, <2>4
(* The counts of a variadic function: it has no clean hfa.                 *)
<1>3. ASSUME NEW a \in Counters, NEW b \in Counters, Entry(n, a),
             pgp' = b.gp, pfp' = b.fp, pstk' = b.stk, UNCHANGED sig,
             pstk' > 0 => pgp' = MaxGp("arm"), pfp' <= MaxFp("arm"),
             sig.variadic => /\ pgp' + pstk' = pgp + pstk + (IF IsFlonum(k) THEN 0 ELSE 1)
                             /\ pfp' = pfp + (IF IsFlonum(k) THEN 1 ELSE 0)
      PROVE  Entry(n + 1, b)'
  <2>1. Target' = "arm"
    BY <1>1, <1>3 DEF Target
  <2>2. sig.variadic => pgp + pstk = NonFlonums(n) /\ pfp = Flonums(n)
    BY <1>1, <1>3 DEF Entry
  <2>3. sig.variadic => pgp' + pstk' = NonFlonums(n + 1) /\ pfp' = Flonums(n + 1)
    BY <1>3, <2>2, CountStep
  <2>4. NonFlonums(n + 1)' = NonFlonums(n + 1) /\ Flonums(n + 1)' = Flonums(n + 1)
    BY <1>3, SameSig
  <2> QED
    BY <1>3, <2>1, <2>3, <2>4 DEF Entry
<1>4. ASSUME Clean(n + 1) PROVE ~Bad(n + 1, place[n + 1])
  BY <1>1, <1>2, <1>4, BadMismatched DEF Clean
<1>5. CASE w > 0 /\ pfp + w <= MaxFp("arm")
  <2>1. Take("fp", pfp, "value", 0, w, 0)
    BY <1>1, <1>5 DEF ParamArm
  <2>2. ASSUME NEW a \in Counters, NEW b \in Counters, Clean(n + 1),
               Passes(n + 1, place[n + 1], a, b), Entry(n, a)
        PROVE  Put("fp", pfp, "value") = place[n + 1] /\ Entry(n + 1, b)'
    <3>1. /\ pgp = a.gp /\ pstk = a.stk /\ pfp = a.fp /\ (pstk > 0 => pgp = MaxGp("arm"))
          /\ ~sig.variadic
      BY <1>1, <1>4, <1>5, <2>2 DEF Entry, Bad
    <3>2. /\ place[n + 1] = Put("fp", pfp, "value")
          /\ b = [gp |-> a.gp + 0, fp |-> a.fp + w, stk |-> a.stk + 0]
      BY <1>1, <1>2, <1>5, <2>2, <3>1 DEF Passes, Moves
    <3>3. pgp' = pgp + 0 /\ pfp' = pfp + w /\ pstk' = pstk + 0 /\ UNCHANGED sig
      BY <2>1 DEF Take
    <3>4. pgp' = b.gp /\ pfp' = b.fp /\ pstk' = b.stk
      BY <3>1, <3>2, <3>3
    <3>5. pstk' > 0 => pgp' = MaxGp("arm")
      BY <1>1, <3>1, <3>3
    <3>6. pfp' <= MaxFp("arm")
      BY <1>5, <3>3
    <3> HIDE DEF w, k
    <3> QED
      BY <1>3, <2>2, <3>1, <3>2, <3>3, <3>4, <3>5, <3>6
  <2>3. pgp + 0 <= MaxGp(Target) /\ "value" \in Forms
    BY <1>1 DEF Forms
  <2> HIDE DEF k, w
  <2> QED
    BY <1>1, <1>2, <2>1, <2>2, <2>3, ParamKeeps DEF Sorts
<1>6. CASE ~(w > 0 /\ pfp + w <= MaxFp("arm")) /\ IsFlonum(k) /\ pfp < MaxFp("arm")
  <2> DEFINE f == IF k = "float" THEN "single" ELSE "double"
  <2>1. Take("fp", pfp, f, 0, 1, 0) /\ f \in Forms
    BY <1>1, <1>6 DEF ParamArm, Forms
  <2>2. ASSUME NEW a \in Counters, NEW b \in Counters,
               Passes(n + 1, place[n + 1], a, b), Entry(n, a)
        PROVE  Put("fp", pfp, f) = place[n + 1] /\ Entry(n + 1, b)'
    <3>1. pgp = a.gp /\ pstk = a.stk /\ pfp = a.fp /\ (pstk > 0 => pgp = MaxGp("arm"))
      BY <1>1, <2>2 DEF Entry
    <3>2. /\ place[n + 1] = Put("fp", pfp, f)
          /\ b = [gp |-> a.gp + 0, fp |-> a.fp + 1, stk |-> a.stk + 0]
      BY <1>1, <1>2, <1>6, <2>2, <3>1 DEF Passes, Moves
    <3>3. pgp' = pgp + 0 /\ pfp' = pfp + 1 /\ pstk' = pstk + 0 /\ UNCHANGED sig
      BY <2>1 DEF Take
    <3>4. pgp' = b.gp /\ pfp' = b.fp /\ pstk' = b.stk
      BY <3>1, <3>2, <3>3
    <3>5. (pstk' > 0 => pgp' = MaxGp("arm")) /\ pfp' <= MaxFp("arm")
      BY <1>1, <1>6, <3>1, <3>3
    <3>6. pgp' + pstk' = pgp + pstk + (IF IsFlonum(k) THEN 0 ELSE 1) /\ pfp' = pfp + (IF IsFlonum(k) THEN 1 ELSE 0)
      BY <1>1, <1>6, <3>3
    <3> HIDE DEF f, k
    <3> QED
      BY <1>3, <2>2, <3>2, <3>3, <3>4, <3>5, <3>6
  <2>3. pgp + 0 <= MaxGp(Target)
    BY <1>1
  <2> HIDE DEF k, f, w
  <2> QED
    BY <1>1, <2>1, <2>2, <2>3, ParamKeeps DEF Sorts
<1>7. CASE ~(w > 0 /\ pfp + w <= MaxFp("arm")) /\ IsFlonum(k) /\ ~(pfp < MaxFp("arm"))
  <2>1. Take("none", 0, "none", 0, 0, 0)
    BY <1>1, <1>7 DEF ParamArm
  <2>2. ASSUME NEW a \in Counters, NEW b \in Counters,
               Passes(n + 1, place[n + 1], a, b), Entry(n, a)
        PROVE  FALSE
    BY <1>1, <1>7, <2>2 DEF Entry, Passes
  <2>3. pgp + 0 <= MaxGp(Target)
    BY <1>1
  <2> HIDE DEF k, w
  <2> QED
    BY <1>1, <2>1, <2>2, <2>3, ParamKeeps
<1>8. CASE ~(w > 0 /\ pfp + w <= MaxFp("arm")) /\ ~IsFlonum(k) /\ pgp < MaxGp("arm")
  <2>1. Take("gp", pgp, StructForm(k), 1, 0, 0)
    BY <1>1, <1>8 DEF ParamArm
  <2>2. ASSUME NEW a \in Counters, NEW b \in Counters, Clean(n + 1),
               Passes(n + 1, place[n + 1], a, b), Entry(n, a)
        PROVE  Put("gp", pgp, StructForm(k)) = place[n + 1] /\ Entry(n + 1, b)'
    <3>1. /\ pgp = a.gp /\ pstk = a.stk /\ pfp = a.fp /\ (pstk > 0 => pgp = MaxGp("arm"))
          /\ pfp <= MaxFp("arm")
      BY <1>1, <2>2 DEF Entry
    <3>2. ~(w > 0 /\ ~sig.variadic)
      BY <1>1, <1>2, <1>8, <2>2, <3>1 DEF Passes
    <3>3. /\ place[n + 1] = Put("gp", pgp, StructForm(k))
          /\ b = [gp |-> a.gp + 1, fp |-> a.fp + 0, stk |-> a.stk + 0]
      BY <1>1, <1>2, <1>8, <2>2, <3>1, <3>2 DEF Passes, Moves
    <3>4. pgp' = pgp + 1 /\ pfp' = pfp + 0 /\ pstk' = pstk + 0 /\ UNCHANGED sig
      BY <2>1 DEF Take
    <3>5. pgp' = b.gp /\ pfp' = b.fp /\ pstk' = b.stk
      BY <3>1, <3>3, <3>4
    <3>6. (pstk' > 0 => pgp' = MaxGp("arm")) /\ pfp' <= MaxFp("arm")
      BY <1>1, <1>8, <3>1, <3>4
    <3>7. pgp' + pstk' = pgp + pstk + (IF IsFlonum(k) THEN 0 ELSE 1) /\ pfp' = pfp + (IF IsFlonum(k) THEN 1 ELSE 0)
      BY <1>1, <1>8, <3>4
    <3> HIDE DEF k
    <3> QED
      BY <1>3, <2>2, <3>3, <3>4, <3>5, <3>6, <3>7
  <2>3. pgp + 1 <= MaxGp(Target)
    BY <1>1, <1>8
  <2> DEFINE f == StructForm(k)
  <2> HIDE DEF k, f, w
  <2> QED
    BY <1>1, <1>2, <2>1, <2>2, <2>3, ParamKeeps DEF Sorts
<1>9. CASE ~(w > 0 /\ pfp + w <= MaxFp("arm")) /\ ~IsFlonum(k) /\ ~(pgp < MaxGp("arm"))
  <2>1. Take("stack", pstk, "value", 0, 0, 1)
    BY <1>1, <1>9 DEF ParamArm
  <2>2. ASSUME NEW a \in Counters, NEW b \in Counters, Clean(n + 1),
               Passes(n + 1, place[n + 1], a, b), Entry(n, a)
        PROVE  Put("stack", pstk, "value") = place[n + 1] /\ Entry(n + 1, b)'
    <3>1. /\ pgp = a.gp /\ pstk = a.stk /\ pfp = a.fp /\ pfp <= MaxFp("arm")
      BY <1>1, <2>2 DEF Entry
    <3>2. ~(w > 0 /\ ~sig.variadic)
      BY <1>1, <1>2, <1>9, <2>2, <3>1 DEF Passes
    <3>3. /\ place[n + 1] = Put("stack", pstk, StructForm(k))
          /\ b = [gp |-> a.gp + 0, fp |-> a.fp + 0, stk |-> a.stk + 1]
      BY <1>1, <1>2, <1>9, <2>2, <3>1, <3>2 DEF Passes, Moves
    <3>4. StructForm(k) = "value"
      <4>1. place[n + 1].at[1] = "stack"
        BY <3>3, PutFacts
      <4> QED
        BY <1>1, <1>4, <2>2, <4>1, KindFacts DEF Bad
    <3>5. pgp' = pgp + 0 /\ pfp' = pfp + 0 /\ pstk' = pstk + 1 /\ UNCHANGED sig
      BY <2>1 DEF Take
    <3>6. pgp' = b.gp /\ pfp' = b.fp /\ pstk' = b.stk
      BY <3>1, <3>3, <3>5
    <3>7. (pstk' > 0 => pgp' = MaxGp("arm")) /\ pfp' <= MaxFp("arm")
      BY <1>1, <1>9, <3>1, <3>5
    <3>8. pgp' + pstk' = pgp + pstk + (IF IsFlonum(k) THEN 0 ELSE 1) /\ pfp' = pfp + (IF IsFlonum(k) THEN 1 ELSE 0)
      BY <1>1, <1>9, <3>5
    <3> HIDE DEF k
    <3> QED
      BY <1>3, <2>2, <3>3, <3>4, <3>5, <3>6, <3>7, <3>8
  <2>3. pgp + 0 <= MaxGp(Target) /\ "value" \in Forms
    BY <1>1 DEF Forms
  <2> HIDE DEF k, w
  <2> QED
    BY <1>1, <2>1, <2>2, <2>3, ParamKeeps DEF Sorts
<1> QED
  BY <1>5, <1>6, <1>7, <1>8, <1>9

-----------------------------------------------------------------------------
(* va_start: from the callee's counters, or on ARM64 from its own counts,  *)
(* to where the caller's were after the named arguments.                   *)
LEMMA VaStartKeeps ==
  ASSUME IInv, VaStart PROVE IInv'
<1>1. /\ sig \in Signatures /\ Len(place) = Len(sig.args) /\ Len(got) = sig.named /\ sig.variadic
      /\ va = NoVaList /\ UNCHANGED <<sig, gp, fp, stk, place, pgp, pfp, pstk, got>>
      /\ pgp \in Nat /\ pfp \in Nat /\ pstk \in Nat
  BY DEF IInv, Types, VaStart, Entered
<1>2. /\ Target \in Targets /\ sig.named \in Nat
      /\ MaxGp(Target) \in Nat /\ MaxFp(Target) \in Nat
  BY <1>1, SigFacts
<1>3. NonFlonums(sig.named) \in Nat /\ Flonums(sig.named) \in Nat
  BY <1>2, CountStep
<1>4. va' \in [gp : Nat, fp : Nat, st : Nat]
  BY <1>1, <1>2, <1>3 DEF VaStart, Targets, Least
<1>5. va' # NoVaList /\ va' \in [gp : Int, fp : Int, st : Int]
  BY <1>4 DEF NoVaList
<1>6. Target' = Target /\ Hidden' = Hidden
  BY <1>1, SameSig
<1>7. Types'
  BY <1>1, <1>4, <1>5, <1>6 DEF IInv, Types
<1>8. Phases'
  BY <1>1, <1>2, <1>5 DEF IInv, Phases
<1>9. Caller'
  <2>1. \A i, p : Bad(i, p)' = Bad(i, p) /\ WidthOf(i, p)' = WidthOf(i, p)
    BY <1>1, SameSig
  <2> QED
    BY <1>1, <1>6, <2>1 DEF IInv, Caller, Within, Ordered, AboveHidden, Now, Used
<1>10. \A i : Clean(i)' = Clean(i) /\ Stacked(i)' = Stacked(i)
  BY <1>1, SamePlace
<1>11. Agreed'
  BY <1>1, <1>10 DEF IInv, Agreed
<1>12. PICK c \in [0 .. Len(sig.args) -> Counters] : History(c) /\ Callee(c)
  BY DEF IInv
<1>13. History(c)'
  <2>1. Now' = Now
    BY <1>1 DEF Now
  <2> QED
    BY <1>1, <1>12, <2>1, SamePlace DEF History
<1>14. PICK a \in Counters : a = c[Len(got)]
  BY <1>1, <1>2, <1>12, SigFacts
<1>15. ASSUME Clean(sig.named) PROVE Varargs(a)'
  <2>1. Entry(sig.named, a)
    BY <1>1, <1>12, <1>14, <1>15 DEF Callee
  <2>2. pgp = a.gp /\ pstk = a.stk
    BY <2>1 DEF Entry
  <2>3. CASE Target = "sysv"
    <3>1. va' = [gp |-> pgp, fp |-> pfp, st |-> pstk] /\ pfp = a.fp
      BY <2>1, <2>3 DEF VaStart, Entry
    <3> QED
      BY <1>6, <2>2, <2>3, <3>1 DEF Varargs
  <2>4. CASE Target = "win"
    <3>1. va'.gp = pgp /\ (pstk > 0 => Stacked(sig.named)) /\ pgp <= MaxGp("win")
      BY <2>1, <2>4 DEF VaStart, Entry, IInv, Types
    <3>2. Stacked(sig.named)' = Stacked(sig.named) /\ sig.named' = sig.named
      BY <1>1, <1>10
    <3> QED
      BY <1>1, <1>6, <2>2, <2>4, <3>1, <3>2 DEF Varargs, Counters
  <2>5. CASE Target = "arm"
    <3> DEFINE integers == NonFlonums(sig.named)
    <3>1. /\ va'.gp = Least(integers, MaxGp("arm")) /\ va'.fp = Least(Flonums(sig.named), MaxFp("arm"))
          /\ va'.st = IF integers > MaxGp("arm") THEN integers - MaxGp("arm") ELSE 0
      BY <2>5 DEF VaStart
    <3>2. /\ pgp + pstk = integers /\ pfp = Flonums(sig.named) /\ pfp <= MaxFp("arm") /\ pfp = a.fp
          /\ pstk > 0 => pgp = MaxGp("arm")
      BY <1>1, <2>1, <2>5 DEF Entry
    <3>3. pgp <= MaxGp("arm") /\ MaxGp("arm") \in Nat /\ MaxFp("arm") \in Nat
      BY <1>2, <2>5 DEF IInv, Types
    <3> HIDE DEF integers
    <3>4. va'.gp = pgp /\ va'.fp = pfp /\ va'.st = pstk
      <4>1. pgp \in Nat /\ pfp \in Nat /\ pstk \in Nat
        BY <1>1
      <4>2. va'.fp = pfp
        BY <3>1, <3>2, <3>3, <4>1 DEF Least
      <4>3. CASE pstk = 0
        BY <3>1, <3>2, <3>3, <4>1, <4>2, <4>3 DEF Least
      <4>4. CASE pstk > 0
        BY <3>1, <3>2, <3>3, <4>1, <4>2, <4>4 DEF Least
      <4> QED
        BY <4>1, <4>3, <4>4
    <3> QED
      BY <1>6, <2>2, <2>5, <3>2, <3>4 DEF Varargs
  <2> QED
    BY <1>2, <2>3, <2>4, <2>5 DEF Targets
<1>16. Callee(c)'
  BY <1>1, <1>5, <1>10, <1>14, <1>15 DEF Callee
<1> QED
  BY <1>1, <1>7, <1>8, <1>9, <1>11, <1>12, <1>13, <1>16 DEF IInv

-----------------------------------------------------------------------------
(* va_arg.                                                                 *)
LEMMA ReadingFacts ==
  ASSUME IInv, NEW t, Reading(t)
  PROVE  \E n \in Nat :
           /\ n = Len(got) /\ n < Len(sig.args) /\ Len(place) = Len(sig.args)
           /\ Target = t /\ NextParam = sig.args[n + 1] /\ sig.args[n + 1] \in Kinds
           /\ sig \in Signatures /\ sig.named \in Nat /\ sig.named <= n /\ sig.variadic /\ va # NoVaList
           /\ va \in [gp : Nat, fp : Nat, st : Nat]
           /\ MaxGp(Target) \in Nat /\ MaxFp(Target) \in Nat
<1>1. /\ sig \in Signatures /\ got \in Seq(Taken) /\ va \in [gp : Int, fp : Int, st : Int]
      /\ va # NoVaList => va.gp \in Nat /\ va.fp \in Nat /\ va.st \in Nat
      /\ Len(place) <= Len(sig.args) /\ place \in Seq(Place)
  BY DEF IInv, Types
<1>2. PICK n \in Nat : n = Len(got)
  BY <1>1
<1>3. /\ sig.named \in Nat /\ Len(sig.args) \in Nat
      /\ MaxGp(Target) \in Nat /\ MaxFp(Target) \in Nat
  BY <1>1, SigFacts
<1>4. n < Len(sig.args) /\ Target = t /\ va # NoVaList
  BY <1>2 DEF Reading
<1>5. sig.named <= n /\ sig.variadic /\ Len(place) = Len(sig.args)
  BY <1>1, <1>2, <1>3, <1>4 DEF IInv, Phases
<1>6. va \in [gp : Nat, fp : Nat, st : Nat]
  BY <1>1, <1>4
<1>7. n + 1 \in 1 .. Len(sig.args)
  BY <1>3, <1>4
<1>8. sig.args[n + 1] \in Kinds
  BY <1>1, <1>7, ArgFacts
<1>9. NextParam = sig.args[n + 1]
  BY <1>2 DEF NextParam
<1> QED
  BY <1>1, <1>2, <1>3, <1>4, <1>5, <1>6, <1>8, <1>9

LEMMA VaKeeps ==
  ASSUME IInv, NEW n \in Nat, n = Len(got), n < Len(sig.args), Len(place) = Len(sig.args),
         va # NoVaList, sig.named \in Nat, sig.named <= n, sig.variadic,
         NEW sort \in Sorts, NEW m \in Nat, NEW form \in Forms, NEW list \in [gp : Nat, fp : Nat, st : Nat],
         VaTake(sort, m, form, list),
         \A a, b \in Counters :
           Clean(n + 1) /\ Passes(n + 1, place[n + 1], a, b) /\ Varargs(a) =>
             Put(sort, m, form) = place[n + 1] /\ Varargs(b)'
  PROVE  IInv'
<1>1. Put(sort, m, form) \in Taken
  BY DEF Put, Taken
<1>2. PICK q \in Taken : q = Put(sort, m, form)
  BY <1>1
<1>3. /\ pgp \in Nat /\ pfp \in Nat /\ pstk \in Nat /\ pgp <= MaxGp(Target)
  BY DEF IInv, Types
<1>4. /\ got' = Append(got, q) /\ va' = list
      /\ UNCHANGED <<sig, gp, fp, stk, place, pgp, pfp, pstk>>
  BY <1>2 DEF VaTake
<1>5. /\ va' # NoVaList /\ va' \in [gp : Int, fp : Int, st : Int]
      /\ va'.gp \in Nat /\ va'.fp \in Nat /\ va'.st \in Nat
  BY <1>4 DEF NoVaList
<1>6. \A a, b \in Counters :
        Clean(n + 1) /\ Passes(n + 1, place[n + 1], a, b) /\ At(n, a) => q = place[n + 1] /\ At(n + 1, b)'
  BY <1>2, <1>5 DEF At
<1> QED
  BY <1>3, <1>4, <1>5, <1>6, TakeKeeps

LEMMA VaArgSysVKeeps ==
  ASSUME IInv, VaArgSysV PROVE IInv'
<1>1. PICK n \in Nat :
        /\ n = Len(got) /\ n < Len(sig.args) /\ Len(place) = Len(sig.args)
        /\ Target = "sysv" /\ NextParam = sig.args[n + 1] /\ sig.args[n + 1] \in Kinds
        /\ sig \in Signatures /\ sig.named \in Nat /\ sig.named <= n /\ sig.variadic /\ va # NoVaList
        /\ va \in [gp : Nat, fp : Nat, st : Nat]
        /\ MaxGp(Target) \in Nat /\ MaxFp(Target) \in Nat
  BY ReadingFacts DEF VaArgSysV
<1> DEFINE k == sig.args[n + 1]
<1> DEFINE form == IF IsFlonum(k) THEN "double" ELSE StructForm(k)
<1>2. form = Form(n + 1) /\ form \in Forms
  BY <1>1, KindFacts DEF Form, Forms
<1> DEFINE sort == IF IsFlonum(k) /\ va.fp < MaxFp("sysv") THEN "fp"
                   ELSE IF ~IsFlonum(k) /\ va.gp < MaxGp("sysv") THEN "gp" ELSE "stack"
<1> DEFINE m == IF sort = "fp" THEN va.fp ELSE IF sort = "gp" THEN va.gp ELSE va.st
<1> DEFINE list == [gp |-> va.gp + (IF sort = "gp" THEN 1 ELSE 0), fp |-> va.fp + (IF sort = "fp" THEN 1 ELSE 0),
                    st |-> va.st + (IF sort = "stack" THEN 1 ELSE 0)]
<1>3. m \in Nat /\ list \in [gp : Nat, fp : Nat, st : Nat] /\ sort \in Sorts
  BY <1>1, SMTT(20) DEF Sorts
<1>4. VaTake(sort, m, form, list)
  <2>1. CASE sort = "fp"
    <3>1. list = [va EXCEPT !.fp = @ + 1]
      BY <1>1, <2>1
    <3> QED
      BY <1>1, <2>1, <3>1 DEF VaArgSysV
  <2>2. CASE sort = "gp"
    <3>1. list = [va EXCEPT !.gp = @ + 1]
      BY <1>1, <2>2
    <3> QED
      BY <1>1, <2>2, <3>1 DEF VaArgSysV
  <2>3. CASE sort = "stack"
    <3>1. list = [va EXCEPT !.st = @ + 1]
      BY <1>1, <2>3
    <3> QED
      BY <1>1, <2>3, <3>1 DEF VaArgSysV
  <2> QED
    BY <2>1, <2>2, <2>3
<1>5. ASSUME NEW a \in Counters, NEW b \in Counters, Passes(n + 1, place[n + 1], a, b), Varargs(a)
      PROVE  Put(sort, m, form) = place[n + 1] /\ Varargs(b)'
  <2>1. va.gp = a.gp /\ va.fp = a.fp /\ va.st = a.stk
    BY <1>1, <1>5 DEF Varargs
  <2>2. place[n + 1] = Put(sort, m, form)
    BY <1>1, <1>2, <1>5, <2>1 DEF Passes, Moves
  <2>3. list.gp = b.gp /\ list.fp = b.fp /\ list.st = b.stk
    BY <1>1, <1>2, <1>5, <2>1 DEF Passes, Moves, Counters
  <2>4. va' = list /\ Target' = "sysv"
    BY <1>1, <1>4 DEF VaTake, Target
  <2> QED
    BY <2>2, <2>3, <2>4 DEF Varargs
<1> HIDE DEF sort, m, list, form, k
<1> QED
  BY <1>1, <1>2, <1>3, <1>4, <1>5, VaKeeps

(* On Windows the va_list counts on past the registers, so it is right     *)
(* when the named arguments left the stack alone.                          *)
LEMMA VaArgWinKeeps ==
  ASSUME IInv, VaArgWin PROVE IInv'
<1>1. PICK n \in Nat :
        /\ n = Len(got) /\ n < Len(sig.args) /\ Len(place) = Len(sig.args)
        /\ Target = "win" /\ NextParam = sig.args[n + 1] /\ sig.args[n + 1] \in Kinds
        /\ sig \in Signatures /\ sig.named \in Nat /\ sig.named <= n /\ sig.variadic /\ va # NoVaList
        /\ va \in [gp : Nat, fp : Nat, st : Nat]
        /\ MaxGp(Target) \in Nat /\ MaxFp(Target) \in Nat
  BY ReadingFacts DEF VaArgWin
<1> DEFINE k == sig.args[n + 1]
<1> DEFINE form == IF IsFlonum(k) THEN "double" ELSE StructForm(k)
<1> DEFINE home == va.gp < MaxGp("win")
<1> DEFINE sort == IF home THEN "reg" ELSE "stack"
<1> DEFINE m == IF home THEN va.gp ELSE va.gp - MaxGp("win")
<1> DEFINE list == [va EXCEPT !.gp = @ + 1]
<1>2. form = Form(n + 1) /\ form \in Forms
  BY <1>1, KindFacts DEF Form, Forms
<1>3. m \in Nat /\ list \in [gp : Nat, fp : Nat, st : Nat] /\ sort \in Sorts /\ list.gp = va.gp + 1
  BY <1>1, SMTT(20) DEF Sorts
<1>4. VaTake(sort, m, form, list)
  BY <1>1 DEF VaArgWin
<1>5. ASSUME NEW a \in Counters, NEW b \in Counters, Clean(n + 1),
             Passes(n + 1, place[n + 1], a, b), Varargs(a)
      PROVE  Put(sort, m, form) = place[n + 1] /\ Varargs(b)'
  <2>1. ~Stacked(sig.named)
    <3>1. ~Mismatched(n + 1) /\ n + 1 > sig.named
      BY <1>1, <1>5 DEF Clean
    <3> QED
      BY <1>1, <3>1, BadMismatched
  <2>2. /\ va.gp = a.gp + a.stk /\ a.gp <= MaxGp("win") /\ (a.stk > 0 => a.gp = MaxGp("win"))
        /\ a.gp \in Nat /\ a.stk \in Nat
    BY <1>1, <1>5, <2>1 DEF Varargs, Counters
  <2>3. va' = list /\ Target' = "win" /\ MaxGp("win") \in Nat
    BY <1>1, <1>4 DEF VaTake, Target
  <2>4. CASE a.gp < MaxGp("win")
    <3>1. a.stk = 0 /\ va.gp = a.gp
      BY <2>2, <2>3, <2>4
    <3>2. /\ place[n + 1] = Put("reg", a.gp, form)
          /\ b = [gp |-> a.gp + 1, fp |-> a.fp + 0, stk |-> a.stk + 0]
      BY <1>1, <1>2, <1>5, <2>4 DEF Passes, Moves
    <3>3. b.gp = a.gp + 1 /\ b.stk = 0
      BY <3>1, <3>2
    <3> QED
      BY <1>3, <2>2, <2>3, <2>4, <3>1, <3>2, <3>3 DEF Varargs
  <2>5. CASE ~(a.gp < MaxGp("win"))
    <3>1. /\ place[n + 1] = Put("stack", a.stk, form)
          /\ b = [gp |-> a.gp + 0, fp |-> a.fp + 0, stk |-> a.stk + 1]
      BY <1>1, <1>2, <1>5, <2>5 DEF Passes, Moves
    <3>2. a.gp = MaxGp("win")
      BY <2>2, <2>3, <2>5
    <3>3. b.gp = a.gp /\ b.stk = a.stk + 1
      BY <2>2, <3>1
    <3>4. ~home /\ m = a.stk
      BY <2>2, <2>3, <3>2
    <3> QED
      BY <1>3, <2>2, <2>3, <3>1, <3>2, <3>3, <3>4 DEF Varargs
  <2> QED
    BY <2>4, <2>5
<1> HIDE DEF sort, m, list, form, k, home
<1> QED
  BY <1>1, <1>2, <1>3, <1>4, <1>5, VaKeeps

LEMMA VaArgArmKeeps ==
  ASSUME IInv, VaArgArm PROVE IInv'
<1>1. PICK n \in Nat :
        /\ n = Len(got) /\ n < Len(sig.args) /\ Len(place) = Len(sig.args)
        /\ Target = "arm" /\ NextParam = sig.args[n + 1] /\ sig.args[n + 1] \in Kinds
        /\ sig \in Signatures /\ sig.named \in Nat /\ sig.named <= n /\ sig.variadic /\ va # NoVaList
        /\ va \in [gp : Nat, fp : Nat, st : Nat]
        /\ MaxGp(Target) \in Nat /\ MaxFp(Target) \in Nat
  BY ReadingFacts DEF VaArgArm
<1> DEFINE k == sig.args[n + 1]
<1> DEFINE form == IF k = "ldouble" THEN "quad" ELSE IF IsFlonum(k) THEN "double" ELSE StructForm(k)
<1>2. form = Form(n + 1) /\ form \in Forms
  <2>1. ~(n + 1 <= sig.named) /\ n + 1 > sig.named
    BY <1>1
  <2>2. form = Form(n + 1)
    BY <1>1, <2>1, KindFacts DEF Form
  <2> QED
    BY <1>1, <2>2, KindFacts DEF Forms
<1> DEFINE st == IF k = "ldouble" THEN va.st + (va.st % 2) ELSE va.st
<1> DEFINE sort == IF IsFlonum(k) /\ va.fp < MaxFp("arm") THEN "fp"
                   ELSE IF ~IsFlonum(k) /\ va.gp < MaxGp("arm") THEN "gp" ELSE "stack"
<1> DEFINE m == IF sort = "fp" THEN va.fp ELSE IF sort = "gp" THEN va.gp ELSE st
<1> DEFINE list == IF sort = "fp" THEN [va EXCEPT !.fp = @ + 1]
                   ELSE IF sort = "gp" THEN [va EXCEPT !.gp = @ + 1]
                   ELSE [va EXCEPT !.st = st + (IF k = "ldouble" THEN 2 ELSE 1)]
<1>3. st \in Nat
  BY <1>1
<1>4. m \in Nat /\ list \in [gp : Nat, fp : Nat, st : Nat] /\ sort \in Sorts
  <2> DEFINE w == IF k = "ldouble" THEN 2 ELSE 1
  <2>1. w \in Nat
    OBVIOUS
  <2> HIDE DEF st, w
  <2>2. /\ [va EXCEPT !.fp = @ + 1] \in [gp : Nat, fp : Nat, st : Nat]
        /\ [va EXCEPT !.gp = @ + 1] \in [gp : Nat, fp : Nat, st : Nat]
        /\ [va EXCEPT !.st = st + w] \in [gp : Nat, fp : Nat, st : Nat]
    <3>1. va \in [gp : Nat, fp : Nat, st : Nat] /\ st + w \in Nat
      BY <1>1, <1>3, <2>1
    <3> QED
      BY <3>1
  <2>3. list \in [gp : Nat, fp : Nat, st : Nat]
    BY <2>2 DEF w
  <2>4. va.fp \in Nat /\ va.gp \in Nat
    BY <1>1
  <2> QED
    BY <1>3, <2>3, <2>4 DEF Sorts
<1>5. VaTake(sort, m, form, list)
  <2>1. CASE IsFlonum(k) /\ va.fp < MaxFp("arm")
    <3>1. VaTake("fp", va.fp, form, [va EXCEPT !.fp = @ + 1])
      BY <1>1, <2>1 DEF VaArgArm
    <3> QED
      BY <2>1, <3>1
  <2>2. CASE ~IsFlonum(k) /\ va.gp < MaxGp("arm")
    <3>1. VaTake("gp", va.gp, form, [va EXCEPT !.gp = @ + 1])
      BY <1>1, <2>2 DEF VaArgArm
    <3> QED
      BY <2>2, <3>1
  <2>3. CASE ~(IsFlonum(k) /\ va.fp < MaxFp("arm")) /\ ~(~IsFlonum(k) /\ va.gp < MaxGp("arm"))
    <3>1. VaTake("stack", st, form, [va EXCEPT !.st = st + (IF k = "ldouble" THEN 2 ELSE 1)])
      BY <1>1, <2>3 DEF VaArgArm
    <3>2. sort = "stack"
      BY <2>3
    <3> QED
      BY <3>1, <3>2
  <2> QED
    BY <2>1, <2>2, <2>3
<1>6. ASSUME NEW a \in Counters, NEW b \in Counters,
             Passes(n + 1, place[n + 1], a, b), Varargs(a)
      PROVE  Put(sort, m, form) = place[n + 1] /\ Varargs(b)'
  <2>1. va.gp = a.gp /\ va.fp = a.fp /\ va.st = a.stk
    BY <1>1, <1>6 DEF Varargs
  <2>2. va' = list /\ Target' = "arm"
    BY <1>1, <1>5 DEF VaTake, Target
  <2>3. CASE IsFlonum(k)
    <3>1. /\ a.fp < MaxFp("arm") /\ place[n + 1] = Put("fp", a.fp, form)
          /\ b = [gp |-> a.gp + 0, fp |-> a.fp + 1, stk |-> a.stk + 0]
      BY <1>1, <1>2, <1>6, <2>3 DEF Passes, Moves
    <3>2. sort = "fp" /\ list.gp = va.gp /\ list.st = va.st /\ list.fp = va.fp + 1
      BY <1>1, <2>1, <2>3, <3>1
    <3> QED
      BY <1>1, <2>1, <2>2, <3>1, <3>2 DEF Varargs
  <2>4. CASE ~IsFlonum(k) /\ a.gp < MaxGp("arm")
    <3>1. /\ place[n + 1] = Put("gp", a.gp, form)
          /\ b = [gp |-> a.gp + 1, fp |-> a.fp + 0, stk |-> a.stk + 0]
      BY <1>1, <1>2, <1>6, <2>4 DEF Passes, Moves
    <3>2. sort = "gp" /\ list.gp = va.gp + 1 /\ list.st = va.st /\ list.fp = va.fp
      BY <1>1, <2>1, <2>4
    <3> QED
      BY <1>1, <2>1, <2>2, <3>1, <3>2 DEF Varargs
  <2>5. CASE ~IsFlonum(k) /\ ~(a.gp < MaxGp("arm"))
    <3>1. /\ place[n + 1] = Put("stack", a.stk, form)
          /\ b = [gp |-> a.gp + 0, fp |-> a.fp + 0, stk |-> a.stk + 1]
      BY <1>1, <1>2, <1>6, <2>5 DEF Passes, Moves
    <3>2. k # "ldouble" /\ st = va.st
      BY <1>1, <2>5, KindFacts
    <3>3. sort = "stack" /\ m = va.st /\ list.gp = va.gp /\ list.st = va.st + 1 /\ list.fp = va.fp
      BY <1>1, <2>1, <2>5, <3>2
    <3> QED
      BY <1>1, <2>1, <2>2, <3>1, <3>3 DEF Varargs
  <2> QED
    BY <2>3, <2>4, <2>5
<1> HIDE DEF sort, m, list, form, k, st
<1> QED
  BY <1>1, <1>2, <1>4, <1>5, <1>6, VaKeeps

-----------------------------------------------------------------------------
LEMMA IInvStep == IInv /\ [Next]_vars => IInv'
<1> SUFFICES ASSUME IInv, [Next]_vars PROVE IInv'
  OBVIOUS
<1>1. CASE ArgSysV \/ ArgWin \/ ArgArm
  <2>1. \E n \in Nat, p \in Place : Effect(n, p)
    BY <1>1, ArgSysVEffect, ArgWinEffect, ArgArmEffect DEF IInv
  <2> QED
    BY <2>1, EffectKeeps
<1>2. CASE UNCHANGED vars
  <2>1. UNCHANGED <<sig, gp, fp, stk, place, pgp, pfp, pstk, got, va>>
    BY <1>2 DEF vars
  <2>2. Types' /\ Phases'
    BY <2>1 DEF IInv, Types, Phases, Target, Hidden
  <2>3. Caller'
    <3>1. \A i, p : Bad(i, p)' = Bad(i, p) /\ WidthOf(i, p)' = WidthOf(i, p)
      BY <2>1, SameSig
    <3>2. Hidden' = Hidden
      BY <2>1, SameSig
    <3> QED
      BY <2>1, <3>1, <3>2 DEF IInv, Caller, Within, Ordered, AboveHidden, Now, Used
  <2>4. \A n : Clean(n)' = Clean(n) /\ Stacked(n)' = Stacked(n)
    BY <2>1, SamePlace
  <2>5. Agreed'
    BY <2>1, <2>4 DEF IInv, Agreed
  <2>6. PICK c \in [0 .. Len(sig.args) -> Counters] : History(c) /\ Callee(c)
    BY DEF IInv
  <2>7. History(c)'
    <3>1. Now' = Now
      BY <2>1 DEF Now
    <3> QED
      BY <2>1, <2>6, <3>1, SamePlace DEF History
  <2>8. \A n, a : Entry(n, a)' = Entry(n, a) /\ Varargs(a)' = Varargs(a)
    <3>1. \A n : NonFlonums(n)' = NonFlonums(n) /\ Flonums(n)' = Flonums(n)
      BY <2>1, SameSig
    <3> QED
      BY <2>1, <2>4, <3>1 DEF Entry, Varargs, Target
  <2>9. Callee(c)'
    BY <2>1, <2>4, <2>6, <2>8 DEF Callee
  <2> QED
    BY <2>1, <2>2, <2>3, <2>5, <2>6, <2>7, <2>9 DEF IInv
<1> QED
  BY <1>1, <1>2, ParamSysVKeeps, ParamWinKeeps, ParamArmKeeps, VaStartKeeps,
     VaArgSysVKeeps, VaArgWinKeeps, VaArgArmKeeps DEF Next, Returned

LEMMA Invariance == Spec => []IInv
BY InitIInv, IInvStep, PTL DEF Spec

(* Caller and callee count within the argument list and the registers.     *)
THEOREM TypeCorrect == Spec => []TypeOK
<1>1. IInv => TypeOK
  <2> SUFFICES ASSUME IInv PROVE TypeOK
    OBVIOUS
  <2>1. Types /\ Phases
    BY DEF IInv
  <2>2. /\ sig \in Signatures /\ Target \in Targets /\ sig.args \in Seq(Kinds) /\ sig.named \in 0 .. Len(sig.args)
        /\ MaxGp(Target) \in Nat /\ MaxFp(Target) \in Nat
    BY <2>1, SigFacts DEF Types
  <2> QED
    BY <2>1, <2>2 DEF TypeOK, Types, Phases
<1> QED
  BY <1>1, Invariance, PTL

(* The caller passes no two arguments in the same place, nor any in the    *)
(* register of the hidden result buffer: for any argument list, however    *)
(* many registers the target has.                                          *)
THEOREM PlacesAreApart == Spec => []PlacesApart
<1>1. IInv => PlacesApart
  <2> SUFFICES ASSUME IInv PROVE PlacesApart
    OBVIOUS
  <2>1. /\ sig \in Signatures /\ place \in Seq(Place) /\ DOMAIN place = 1 .. Len(place)
        /\ Len(place) <= Len(sig.args) /\ Len(place) \in Nat /\ Len(sig.args) \in Nat
    BY SigFacts DEF IInv, Types
  <2>2. \A i \in 1 .. Len(place) :
          place[i].at[2] \in Nat /\ Width(i) \in Nat /\ Width(i) = WidthOf(i, place[i])
    <3> TAKE i \in 1 .. Len(place)
    <3>1. place[i].at[2] \in Nat /\ i \in 1 .. Len(sig.args)
      <4>1. place[i] \in Place
        BY <2>1
      <4> QED
        BY <2>1, <4>1 DEF Place
    <3>2. WidthOf(i, place[i]) \in 1 .. 2
      BY <2>1, <3>1, ArgFacts
    <3> QED
      BY <3>1, <3>2 DEF Width, WidthOf
  <2>3. ASSUME NEW i \in 1 .. Len(place), NEW j \in 1 .. Len(place), i < j, ~Mismatched(i)
        PROVE  Words(i) \intersect Words(j) = {}
    <3>1. ~Bad(i, place[i])
      BY <2>1, <2>3, BadMismatched
    <3>2. place[i].at[1] = place[j].at[1] => place[i].at[2] + Width(i) <= place[j].at[2]
      BY <2>2, <2>3, <3>1 DEF IInv, Caller, Ordered
    <3> SUFFICES ASSUME NEW x \in Words(i), x \in Words(j) PROVE FALSE
      OBVIOUS
    <3>3. PICK u \in 0 .. Width(i) - 1 : x = <<place[i].at[1], place[i].at[2] + u>>
      BY DEF Words
    <3>4. PICK v \in 0 .. Width(j) - 1 : x = <<place[j].at[1], place[j].at[2] + v>>
      BY DEF Words
    <3>5. place[i].at[1] = place[j].at[1] /\ place[i].at[2] + u = place[j].at[2] + v
      <4>1. <<place[i].at[1], place[i].at[2] + u>> = <<place[j].at[1], place[j].at[2] + v>>
        BY <3>3, <3>4
      <4>2. \A a, b, c, d : <<a, b>> = <<c, d>> => a = c /\ b = d
        OBVIOUS
      <4> QED
        BY <4>1, <4>2
    <3>6. /\ place[i].at[2] \in Nat /\ place[j].at[2] \in Nat /\ Width(i) \in Nat /\ Width(j) \in Nat
          /\ u \in Nat /\ u <= Width(i) - 1 /\ v \in Nat
      BY <2>2
    <3>7. \A a, b, w, x1, x2 \in Nat : a + w <= b /\ x1 <= w - 1 => a + x1 # b + x2
      OBVIOUS
    <3> QED
      BY <3>2, <3>5, <3>6, <3>7
  <2>4. \A i, j \in DOMAIN place : i # j /\ ~Mismatched(i) /\ ~Mismatched(j) => Words(i) \intersect Words(j) = {}
    <3> SUFFICES ASSUME NEW i \in 1 .. Len(place), NEW j \in 1 .. Len(place), i # j,
                        ~Mismatched(i), ~Mismatched(j)
                 PROVE  Words(i) \intersect Words(j) = {}
      BY <2>1
    <3>1. i < j \/ j < i
      OBVIOUS
    <3>2. CASE i < j
      BY <2>3, <3>2
    <3>3. CASE j < i
      <4>1. Words(j) \intersect Words(i) = {}
        BY <2>3, <3>3
      <4> QED
        BY <4>1
    <3> QED
      BY <3>1, <3>2, <3>3
  <2>5. ASSUME sig.hidden, Target # "arm", NEW i \in 1 .. Len(place)
        PROVE  place[i].at \notin {<<"gp", 0>>, <<"reg", 0>>}
    <3>1. Hidden = 1
      BY <2>5 DEF Hidden
    <3>2. place[i].at[1] \in {"gp", "reg"} => 1 <= place[i].at[2]
      BY <3>1 DEF IInv, Caller, AboveHidden
    <3> QED
      BY <3>2
  <2> QED
    BY <2>1, <2>4, <2>5 DEF PlacesApart
<1> QED
  BY <1>1, Invariance, PTL

(* The callee's prologue finds every named argument where the caller put   *)
(* it and in the form the caller gave it, up to the first mismatch.        *)
THEOREM ParametersAgree == Spec => []ParamsAgree
<1>1. IInv => ParamsAgree
  <2> SUFFICES ASSUME IInv PROVE ParamsAgree
    OBVIOUS
  <2>1. DOMAIN got = 1 .. Len(got)
    BY DEF IInv, Types
  <2> QED
    BY <2>1 DEF IInv, Agreed, Clean, ParamsAgree
<1> QED
  BY <1>1, Invariance, PTL

(* va_arg finds every unnamed argument, up to the first mismatch, whatever *)
(* registers the named ones used.                                          *)
THEOREM VariadicAgree == Spec => []VarargsAgree
<1>1. IInv => VarargsAgree
  <2> SUFFICES ASSUME IInv PROVE VarargsAgree
    OBVIOUS
  <2>1. DOMAIN got = 1 .. Len(got)
    BY DEF IInv, Types
  <2> QED
    BY <2>1 DEF IInv, Agreed, Clean, VarargsAgree
<1> QED
  BY <1>1, Invariance, PTL
=============================================================================
