------------------------------- MODULE GenOps -------------------------------
(***************************************************************************)
(* The elements of a template: what a case of gen() does, in its order.    *)
(***************************************************************************)
EXTENDS Integers, Sequences

(* int t = gen(child), int t = gen_addr(child)                             *)
gen(t) == [op |-> "gen", t |-> t, rd |-> {}]
addr(t) == gen(t)

(* int t = alloc_reg(), free_reg(t), int t = of                            *)
alloc(t) == [op |-> "alloc", t |-> t, rd |-> {}]
free(t) == [op |-> "free", t |-> t, rd |-> {}]
alias(t, of) == [op |-> "alias", t |-> t, of |-> of, rd |-> {of}]

(* Instructions that read rd and write t; instructions that only read.     *)
ins(rd, t) == [op |-> "ins", t |-> t, rd |-> rd]
use(rd) == ins(rd, "none")

(* A jump reads nothing: the compare before it does.                       *)
jcc(l) == [op |-> "jcc", l |-> l, rd |-> {}]
jmp(l) == [op |-> "jmp", l |-> l, rd |-> {}]
label(l) == [op |-> "label", l |-> l, rd |-> {}]

(* The stack pointer moves down n units of 8 bytes (up when negative).     *)
stack(n) == [op |-> "stack", n |-> n, rd |-> {}]

(* push x, pop x; pop as: what was pushed from of is now x.                *)
push(x) == [op |-> "push", t |-> x, rd |-> {}]
popAs(x, of) == [op |-> "pop", t |-> x, of |-> of, rd |-> {}]
pop(x) == popAs(x, "none")

(* gen_funcall(): save the registers in use but keep, move the arguments   *)
(* (pairs of a variable and an argument register), call, reload.           *)
save(keep) == [op |-> "save", keep |-> keep, rd |-> {}]
place(args) == [op |-> "place", args |-> args, rd |-> {args[i][1] : i \in DOMAIN args}]
call(rd, t) == [op |-> "call", t |-> t, rd |-> rd]
restore == [op |-> "restore", rd |-> {}]

(* A case that ends in "return t" on one architecture or on both.  None    *)
(* stands for return -1.                                                   *)
x86(node, ops, t) == {[node |-> node, arch |-> "x86", ops |-> ops, result |-> t]}
arm(node, ops, t) == {[node |-> node, arch |-> "arm64", ops |-> ops, result |-> t]}
both(node, ops, t) == x86(node, ops, t) \union arm(node, ops, t)

(* Part of a case that is there or not, depending on the types.            *)
opt(s) == {<<>>, s}
=============================================================================
