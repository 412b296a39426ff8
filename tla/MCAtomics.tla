------------------------------ MODULE MCAtomics -----------------------------
(***************************************************************************)
(* Atomics on a two-bit object.                                            *)
(***************************************************************************)
EXTENDS Atomics, Bitwise, TLC

CONSTANTS t1, t2

MCThreads == {t1, t2}
MCValues == 0 .. 3

MCFetch(kind, m, v) ==
  CASE kind = "add" -> (m + v) % 4
    [] kind = "sub" -> (m - v) % 4
    [] kind = "or" -> m | v
    [] kind = "xor" -> m ^^ v
    [] kind = "and" -> m & v
    [] kind = "nand" -> 3 - (m & v)

MCNegate(v) == (0 - v) % 4

(* Operands 1 and 2; a compare-and-exchange expects 0 or 1.                *)
Plain(kinds) == [kind : kinds, val : {1}, expected : {0}, weak : {FALSE}, isStore : {FALSE}]
Fetches(kinds) == [kind : kinds, val : {1, 2}, expected : {0}, weak : {FALSE}, isStore : BOOLEAN]
Cas(weak) == [kind : {"cas"}, val : {2}, expected : {0, 1}, weak : weak, isStore : {FALSE}]

MCOps == UNION {Plain({"load", "store", "exchange"}), Cas(BOOLEAN),
                Fetches({"add", "sub", "or", "xor", "nand"})}

(* Two threads doing all kinds of operations.  The loop of x86_64's or,    *)
(* xor, and and nand runs beside a reader: beside a writer it may give a   *)
(* wrong result (README, section 6).                                       *)
MCPrograms(target) ==
  IF target = "x86"
    THEN {[t \in MCThreads |-> UNION {Fetches({"add", "sub"}), Cas({FALSE}), Plain({"store", "exchange"})}],
          (t1 :> Fetches({"or", "nand"}) @@ t2 :> Plain({"load"}))}
    ELSE {[t \in MCThreads |-> UNION {Fetches({"sub", "xor"}), Cas(BOOLEAN), Plain({"store", "exchange"})}]}

ASSUME MCLoopsBesideReaders == LoopsBesideReaders
=============================================================================
