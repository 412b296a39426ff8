------------------------------- MODULE Calls --------------------------------
(***************************************************************************)
(* A call between two functions the compiler translates separately: the    *)
(* caller's choice of a place for each argument (gen_funcall()), the       *)
(* callee's saving of its parameters (the prologue codegen() emits), and   *)
(* va_start and va_arg in a variadic callee, on x86_64 Linux ("sysv"),     *)
(* x86_64 Windows ("win") and ARM64 Linux ("arm").                         *)
(*                                                                         *)
(* Each side counts the registers by itself; nothing but their agreement   *)
(* makes a call work.  A place is <<"gp", n>>, <<"fp", n>> or              *)
(* <<"stack", n>> (words above the return address), n from 0; on Windows   *)
(* the n-th argument is in <<"reg", n>>, an integer and an xmm register.   *)
(* What is in it is the form: the value, a pointer to the struct, a float  *)
(* as a double or as a single, a long double as the x87 has it or a quad.  *)
(***************************************************************************)
EXTENDS Integers, Sequences, FiniteSets

CONSTANTS
  MaxGp(_), MaxFp(_),  \* argument registers of each target
  Signatures           \* calls: [target, hidden, variadic, named, args]

(* Types an argument can have.  A small struct fits a register; an hfa is  *)
(* a struct of two doubles, hfa1 one of a single float (ARM64 tells them   *)
(* from other structs).                                                    *)
Kinds == {"int", "float", "double", "ldouble", "small", "big", "hfa", "hfa1"}
IsFlonum(k) == k \in {"float", "double", "ldouble"}
ByPointer(k) == k \in {"big", "hfa"}
HfaCount(k) == IF k = "hfa" THEN 2 ELSE IF k = "hfa1" THEN 1 ELSE 0

ASSUME RegistersAssumption ==
  \A t \in {"sysv", "win", "arm"} : MaxGp(t) \in Nat \ {0} /\ MaxFp(t) \in Nat \ {0}
ASSUME SignaturesAssumption ==
  \A s \in Signatures :
    /\ s.target \in {"sysv", "win", "arm"} /\ s.hidden \in BOOLEAN /\ s.variadic \in BOOLEAN
    /\ s.args \in Seq(Kinds) /\ s.named \in 0 .. Len(s.args)
    /\ ~s.variadic => s.named = Len(s.args)

VARIABLES
  sig,            \* the call
  gp, fp, stk,    \* gp_reg_args, fp_reg_args, stack_args of the caller
  place,          \* where and in which form the caller passes each argument
  pgp, pfp, pstk, \* param_index, param_xmm_index, stack_param_index
  got,            \* where and in which form the callee takes each argument
  va              \* the va_list: the next integer, fp and stack position

vars == <<sig, gp, fp, stk, place, pgp, pfp, pstk, got, va>>

Target == sig.target
Put(sort, n, form) == [at |-> <<sort, n>>, form |-> form]
Nowhere == Put("none", 0, "none")
NoVaList == [gp |-> -1, fp |-> -1, st |-> -1]

(* The hidden result buffer takes the first integer register, but on ARM64 *)
(* where it has x8.                                                        *)
Hidden == IF sig.hidden /\ Target # "arm" THEN 1 ELSE 0

Init ==
  /\ sig \in Signatures
  /\ gp = Hidden /\ fp = 0 /\ stk = 0
  /\ place = <<>>
  /\ pgp = Hidden /\ pfp = 0 /\ pstk = 0
  /\ got = <<>>
  /\ va = NoVaList

-----------------------------------------------------------------------------
(* The caller, argument by argument.                                       *)
NextArg == sig.args[Len(place) + 1]
Unnamed == sig.variadic /\ Len(place) >= sig.named
Calling(t) == Target = t /\ Len(place) < Len(sig.args)

(* Mutant: an hfa counts as one register.                                  *)
InFpOne(n, form) ==
  /\ place' = Append(place, Put("fp", fp, form))
  /\ fp' = fp + 1
  /\ UNCHANGED <<sig, gp, stk, pgp, pfp, pstk, got, va>>

InFp(n, form) ==
  /\ place' = Append(place, Put("fp", fp, form))
  /\ fp' = fp + n
  /\ UNCHANGED <<sig, gp, stk, pgp, pfp, pstk, got, va>>
InGp(form) ==
  /\ place' = Append(place, Put("gp", gp, form))
  /\ gp' = gp + 1
  /\ UNCHANGED <<sig, fp, stk, pgp, pfp, pstk, got, va>>
OnStack(at, n, form) ==
  /\ place' = Append(place, Put("stack", at, form))
  /\ stk' = at + n
  /\ UNCHANGED <<sig, gp, fp, pgp, pfp, pstk, got, va>>

StructForm(k) == IF ByPointer(k) THEN "pointer" ELSE "value"

(* System V: a float travels as a double; an unnamed long double on the    *)
(* stack, on an even word.                                                 *)
ArgSysV ==
  LET k == NextArg IN
  /\ Calling("sysv")
  /\ IF k = "ldouble" /\ Unnamed THEN OnStack(stk + (stk % 2), 2, "x87")
     ELSE IF IsFlonum(k)
       THEN IF fp < MaxFp("sysv") THEN InFp(1, "double")
            ELSE OnStack(stk, 1, IF k = "ldouble" THEN "x87" ELSE "double")
     ELSE IF gp < MaxGp("sysv") THEN InGp(StructForm(k)) ELSE OnStack(stk, 1, StructForm(k))

(* Windows: the position decides.                                          *)
ArgWin ==
  LET k == NextArg
      form == IF IsFlonum(k) THEN "double" ELSE StructForm(k) IN
  /\ Calling("win")
  /\ IF gp < MaxGp("win")
       THEN /\ place' = Append(place, Put("reg", gp, form))
            /\ gp' = gp + 1
            /\ UNCHANGED <<sig, fp, stk, pgp, pfp, pstk, got, va>>
       ELSE OnStack(stk, 1, form)

(* ARM64: a float that finds no fp register takes an integer register; an  *)
(* hfa goes to fp registers or, whole, to the stack, but in a call of a    *)
(* variadic function it is passed as any struct.                           *)
FpFormArm(k) ==
  IF k = "float" /\ ~Unnamed THEN "single"
  ELSE IF k = "ldouble" /\ Unnamed THEN "quad" ELSE "double"
ArgArm ==
  LET k == NextArg IN
  /\ Calling("arm")
  /\ IF IsFlonum(k) /\ fp < MaxFp("arm") THEN InFp(1, FpFormArm(k))
     ELSE IF HfaCount(k) > 0 /\ ~sig.variadic
       THEN IF fp + HfaCount(k) <= MaxFp("arm") THEN InFp(HfaCount(k), "value")
            ELSE OnStack(stk, HfaCount(k), StructForm(k))
     ELSE IF gp < MaxGp("arm") /\ k # "ldouble"
       THEN InGp(IF IsFlonum(k) THEN "double" ELSE StructForm(k))
     ELSE OnStack(stk, 1, IF IsFlonum(k) THEN "double" ELSE StructForm(k))

-----------------------------------------------------------------------------
(* The callee: its parameters, one by one.                                 *)
NextParam == sig.args[Len(got) + 1]
Entering(t) ==
  Target = t /\ Len(place) = Len(sig.args) /\ Len(got) < sig.named

Take(sort, n, form, dgp, dfp, dstk) ==
  /\ got' = Append(got, Put(sort, n, form))
  /\ pgp' = pgp + dgp /\ pfp' = pfp + dfp /\ pstk' = pstk + dstk
  /\ UNCHANGED <<sig, gp, fp, stk, place, va>>

(* Mutant: one counter for both sorts of registers.                        *)
ParamSysVShared ==
  LET k == NextParam IN
  /\ Entering("sysv")
  /\ IF IsFlonum(k)
       THEN IF pfp < MaxFp("sysv") THEN Take("fp", pfp, "double", 1, 1, 0)
            ELSE Take("stack", pstk, IF k = "float" THEN "single" ELSE "double", 0, 0, 1)
     ELSE IF pgp < MaxGp("sysv") THEN Take("gp", pgp, StructForm(k), 1, 0, 0)
     ELSE Take("stack", pstk, "value", 0, 0, 1)

(* A struct that was pushed is copied from the stack itself; a float there *)
(* is read with movss, a long double with movsd.                           *)
ParamSysV ==
  LET k == NextParam IN
  /\ Entering("sysv")
  /\ IF IsFlonum(k)
       THEN IF pfp < MaxFp("sysv") THEN Take("fp", pfp, "double", 0, 1, 0)
            ELSE Take("stack", pstk, IF k = "float" THEN "single" ELSE "double", 0, 0, 1)
     ELSE IF pgp < MaxGp("sysv") THEN Take("gp", pgp, StructForm(k), 1, 0, 0)
     ELSE Take("stack", pstk, "value", 0, 0, 1)

ParamWin ==
  LET k == NextParam
      form == IF IsFlonum(k) THEN "double" ELSE StructForm(k) IN
  /\ Entering("win")
  /\ IF pgp < MaxGp("win") THEN Take("reg", pgp, form, 1, IF IsFlonum(k) THEN 1 ELSE 0, 0)
     ELSE Take("stack", pstk, IF k = "float" THEN "single" ELSE IF IsFlonum(k) THEN "double" ELSE "value",
               0, 0, 1)

(* A float parameter for which there is no fp register is not saved.       *)
ParamArm ==
  LET k == NextParam IN
  /\ Entering("arm")
  /\ IF HfaCount(k) > 0 /\ pfp + HfaCount(k) <= MaxFp("arm")
       THEN Take("fp", pfp, "value", 0, HfaCount(k), 0)
     ELSE IF IsFlonum(k)
       THEN IF pfp < MaxFp("arm")
              THEN Take("fp", pfp, IF k = "float" THEN "single" ELSE "double", 0, 1, 0)
              ELSE Take("none", 0, "none", 0, 0, 0)
     ELSE IF pgp < MaxGp("arm") THEN Take("gp", pgp, StructForm(k), 1, 0, 0)
     ELSE Take("stack", pstk, "value", 0, 0, 1)

-----------------------------------------------------------------------------
(* va_start: the registers after the named ones (on Windows their home     *)
(* slots), and the stack after the named parameters.  ARM64 counts the     *)
(* parameters again, an hfa as an integer.                                 *)
Entered == Len(place) = Len(sig.args) /\ Len(got) = sig.named
Flonums(n) == Cardinality({i \in 1 .. n : IsFlonum(sig.args[i])})
NonFlonums(n) == Cardinality({i \in 1 .. n : ~IsFlonum(sig.args[i])})
Least(a, b) == IF a < b THEN a ELSE b

(* Mutant: the named parameters on the stack are forgotten.                *)
VaStartAtFirst ==
  /\ Entered /\ sig.variadic /\ va = NoVaList
  /\ va' = [gp |-> pgp, fp |-> pfp, st |-> 0]
  /\ UNCHANGED <<sig, gp, fp, stk, place, pgp, pfp, pstk, got>>

VaStart ==
  LET integers == NonFlonums(sig.named) IN
  /\ Entered /\ sig.variadic /\ va = NoVaList
  /\ va' = CASE Target = "sysv" -> [gp |-> pgp, fp |-> pfp, st |-> pstk]
             [] Target = "win" -> [gp |-> pgp, fp |-> 0, st |-> 0]
             [] Target = "arm" -> [gp |-> Least(integers, MaxGp("arm")),
                                   fp |-> Least(Flonums(sig.named), MaxFp("arm")),
                                   st |-> IF integers > MaxGp("arm") THEN integers - MaxGp("arm") ELSE 0]
  /\ UNCHANGED <<sig, gp, fp, stk, place, pgp, pfp, pstk, got>>

Reading(t) ==
  Target = t /\ va # NoVaList /\ Len(got) < Len(sig.args)

VaTake(sort, n, form, list) ==
  /\ got' = Append(got, Put(sort, n, form))
  /\ va' = list
  /\ UNCHANGED <<sig, gp, fp, stk, place, pgp, pfp, pstk>>

(* A long double is looked for among the doubles.                          *)
VaArgSysV ==
  LET k == NextParam
      form == IF IsFlonum(k) THEN "double" ELSE StructForm(k) IN
  /\ Reading("sysv")
  /\ IF IsFlonum(k) /\ va.fp < MaxFp("sysv") THEN VaTake("fp", va.fp, form, [va EXCEPT !.fp = @ + 1])
     ELSE IF ~IsFlonum(k) /\ va.gp < MaxGp("sysv") THEN VaTake("gp", va.gp, form, [va EXCEPT !.gp = @ + 1])
     ELSE VaTake("stack", va.st, form, [va EXCEPT !.st = @ + 1])

(* va_list is a pointer that walks over the home slots into the stack.     *)
VaArgWin ==
  LET k == NextParam
      form == IF IsFlonum(k) THEN "double" ELSE StructForm(k)
      home == va.gp < MaxGp("win") IN
  /\ Reading("win")
  /\ VaTake(IF home THEN "reg" ELSE "stack", IF home THEN va.gp ELSE va.gp - MaxGp("win"), form,
            [va EXCEPT !.gp = @ + 1])

VaArgArm ==
  LET k == NextParam
      form == IF k = "ldouble" THEN "quad" ELSE IF IsFlonum(k) THEN "double" ELSE StructForm(k)
      st == IF k = "ldouble" THEN va.st + (va.st % 2) ELSE va.st IN
  /\ Reading("arm")
  /\ IF IsFlonum(k) /\ va.fp < MaxFp("arm") THEN VaTake("fp", va.fp, form, [va EXCEPT !.fp = @ + 1])
     ELSE IF ~IsFlonum(k) /\ va.gp < MaxGp("arm") THEN VaTake("gp", va.gp, form, [va EXCEPT !.gp = @ + 1])
     ELSE VaTake("stack", st, form, [va EXCEPT !.st = st + (IF k = "ldouble" THEN 2 ELSE 1)])

Returned == Len(got) = Len(sig.args) /\ UNCHANGED vars

Next ==
  \/ ArgSysV \/ ArgWin \/ ArgArm
  \/ ParamSysV \/ ParamWin \/ ParamArm
  \/ VaStart
  \/ VaArgSysV \/ VaArgWin \/ VaArgArm
  \/ Returned

Spec == Init /\ [][Next]_vars

-----------------------------------------------------------------------------
(* Both sides count within the argument list, and the callee looks at its  *)
(* arguments when all of them are in place.                                *)
TypeOK ==
  /\ sig.args \in Seq(Kinds) /\ sig.named \in 0 .. Len(sig.args)
  /\ gp \in 0 .. MaxGp(Target) /\ fp \in 0 .. MaxFp(Target) /\ stk \in Nat
  /\ pgp \in 0 .. MaxGp(Target) /\ pfp \in Nat /\ pstk \in Nat
  /\ Len(place) <= Len(sig.args)
  /\ got # <<>> => Len(place) = Len(sig.args)
  /\ va # NoVaList => sig.variadic /\ va.gp >= 0 /\ va.fp >= 0 /\ va.st >= 0

(* Arguments that the two sides treat differently (README, section 6):     *)
(* System V and Windows, a struct over 8 bytes or a float on the stack,    *)
(* and with System V a long double there or unnamed; Windows, unnamed      *)
(* arguments after named ones on the stack; ARM64, a float or an hfa that  *)
(* finds no fp register, a named hfa of a variadic function and a named    *)
(* struct over 8 bytes on the stack.                                       *)
Mismatched(i) ==
  LET k == sig.args[i]
      stacked == place[i].at[1] = "stack" IN
  CASE Target = "sysv" ->
         \/ i <= sig.named /\ stacked /\ (ByPointer(k) \/ k \in {"float", "ldouble"})
         \/ i > sig.named /\ k = "ldouble"
    [] Target = "win" ->
         \/ i <= sig.named /\ stacked /\ (ByPointer(k) \/ k = "float")
         \/ i > sig.named /\ \E j \in 1 .. sig.named : place[j].at[1] = "stack"
    [] Target = "arm" ->
         \/ IsFlonum(k) /\ place[i].at[1] # "fp"
         \/ HfaCount(k) > 0 /\ i <= sig.named /\ (sig.variadic \/ place[i].at[1] # "fp")
         \/ ByPointer(k) /\ i <= sig.named /\ stacked

(* The words an argument takes: an hfa several registers, a long double of *)
(* the x87 two words.                                                      *)
Width(i) ==
  IF place[i].at[1] = "fp" /\ HfaCount(sig.args[i]) > 0 THEN HfaCount(sig.args[i])
  ELSE IF place[i].form = "x87" THEN 2 ELSE 1
Words(i) == {<<place[i].at[1], place[i].at[2] + n>> : n \in 0 .. Width(i) - 1}

(* The caller never passes two arguments in the same place, the hidden     *)
(* buffer's register included (but for a named long double on the System V *)
(* stack, to which it gives one word and writes two).                      *)
PlacesApart ==
  /\ \A i, j \in DOMAIN place : i # j /\ ~Mismatched(i) /\ ~Mismatched(j) => Words(i) \intersect Words(j) = {}
  /\ sig.hidden /\ Target # "arm" =>
       \A i \in DOMAIN place : place[i].at \notin {<<"gp", 0>>, <<"reg", 0>>}

(* Caller and callee agree on every parameter up to the first that is      *)
(* passed in a way one of them does not expect.                            *)
ParamsAgree ==
  \A i \in DOMAIN got : i <= sig.named /\ (\A j \in 1 .. i : ~Mismatched(j)) => got[i] = place[i]

(* va_arg finds every unnamed argument where the caller put it, however    *)
(* the named ones used up the registers.                                   *)
VarargsAgree ==
  \A i \in DOMAIN got : i > sig.named /\ (\A j \in 1 .. i : ~Mismatched(j)) => got[i] = place[i]
=============================================================================
