------------------------------ MODULE MCDriver ------------------------------
(* Command lines of the driver for TLC: flags, then up to three files, of  *)
(* which two are sources, then linker arguments that fill both buffers.    *)
EXTENDS Driver

Arg(o, v, n) == [opt |-> o, val |-> v, size |-> n]
F(v) == Arg("flag", v, 0)
Src(v) == Arg("source", v, 2)
Lib(v, n) == Arg("lib", v, n)

MCFlags == {<<>>, <<F("S")>>, <<F("S"), F("o")>>, <<F("c")>>, <<F("E")>>, <<F("O1")>>,
            <<F("dryrun")>>, <<F("O1"), F("dryrun")>>, <<Arg("help", "--help", 0)>>,
            <<F("S"), F("E")>>, <<Arg("-D", "X", 0), Arg("missing", "-o", 0)>>}
X == Arg("object", "x.o", 1)
MCFiles == {<<>>, <<X, Src("b.c"), Src("a.c")>>, <<Src("a.c"), Src("b.c"), X>>, <<Src("a.c"), Src("a.c"), Src("b.c")>>}
           \union [1..1 -> {Src("a.c"), X}] \union [1..2 -> {Src("a.c"), Src("b.c"), X}]
MCLibs == {<<>>, <<Lib("-lm", 1)>>, <<Lib("-lm", 1), Lib("-Wl,long", 3), Lib("-lc", 2)>>,
           <<Lib("-Wl,longer", 4)>>}
MCArgLists == {f \o s \o l : f \in MCFlags, s \in MCFiles, l \in MCLibs}
MCFateFns == {[x \in {"a.c", "b.c"} |-> IF x = "a.c" THEN "none" ELSE p] :
                p \in {"none", "parse", "optimize", "open", "codegen"}}
MCStale == {{}, {<<"asm", "a.c">>, <<"asm", "b.c">>, <<"out">>}}
=============================================================================
