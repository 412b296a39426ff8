---------------------------- MODULE GenContract -----------------------------
(***************************************************************************)
(* What gen() and gen_addr() promise whoever calls them, whatever the      *)
(* node: the registers in use stay in use and keep their values, at most   *)
(* one more is in use and it holds the node's value, and the stack pointer *)
(* is where it was.  A node may also never come back (return, goto).       *)
(***************************************************************************)
EXTENDS Integers

CONSTANT Registers

VARIABLES
  busy,         \* the registers in use
  held,         \* what each of them holds
  level,        \* words on the stack below the frame
  ret           \* "pending", the register returned, or "none" for -1

vars == <<busy, held, level, ret>>

Init ==
  /\ busy \in SUBSET Registers
  /\ held = [r \in busy |-> "outer"]
  /\ level = 0
  /\ ret = "pending"

ReturnValue(r) ==
  /\ ret = "pending" /\ ret' = r
  /\ busy' = busy \union {r}
  /\ held' = [s \in busy' |-> IF s = r THEN "result" ELSE held[s]]
  /\ UNCHANGED level

ReturnNothing ==
  /\ ret = "pending" /\ ret' = "none"
  /\ UNCHANGED <<busy, held, level>>

Next == ReturnNothing \/ \E r \in Registers \ busy : ReturnValue(r)

Spec == Init /\ [][Next]_vars
=============================================================================
