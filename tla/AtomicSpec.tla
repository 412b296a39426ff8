----------------------------- MODULE AtomicSpec -----------------------------
(***************************************************************************)
(* What the __atomic builtins promise: each operation reads and changes    *)
(* the object in one step.                                                 *)
(***************************************************************************)
EXTENDS Integers

CONSTANTS
  Threads,
  Values,       \* what the object can hold
  Ops,          \* the operations a thread may do
  Fetch(_, _, _) \* Fetch(kind, m, v): the object after fetch_add and the like

VARIABLES
  mem,          \* the object
  todo,         \* the operation of each thread
  out           \* what it returned: Pending, or [ret, expected]

vars == <<mem, todo, out>>

Pending == [ret |-> -1, expected |-> -1]

FetchOps == {"add", "sub", "or", "xor", "and", "nand"}

(* The object after the operation, and what the operation returns.         *)
After(o, m) ==
  CASE o.kind = "load" -> m
    [] o.kind \in {"store", "exchange"} -> o.val
    [] o.kind = "cas" -> IF m = o.expected THEN o.val ELSE m
    [] o.kind \in FetchOps -> Fetch(o.kind, m, o.val)

Outcome(o, m) ==
  [ret |-> CASE o.kind \in {"load", "exchange"} -> m
             [] o.kind = "store" -> 0
             [] o.kind = "cas" -> IF m = o.expected THEN 1 ELSE 0
             [] o.kind \in FetchOps -> IF o.isStore THEN Fetch(o.kind, m, o.val) ELSE m,
   expected |-> IF o.kind = "cas" THEN m ELSE o.expected]

Init ==
  /\ mem \in Values
  /\ todo \in [Threads -> Ops]
  /\ out = [t \in Threads |-> Pending]

Perform(t) ==
  /\ out[t] = Pending
  /\ mem' = After(todo[t], mem)
  /\ out' = [out EXCEPT ![t] = Outcome(todo[t], mem)]
  /\ UNCHANGED todo

(* A weak compare-and-exchange may fail for no reason; *expected stays.    *)
FailSpuriously(t) ==
  /\ out[t] = Pending
  /\ todo[t].kind = "cas" /\ todo[t].weak
  /\ out' = [out EXCEPT ![t] = [ret |-> 0, expected |-> todo[t].expected]]
  /\ UNCHANGED <<mem, todo>>

(* The thread goes on to another operation.                                *)
Again(t) ==
  /\ out[t] # Pending
  /\ \E o \in Ops : todo' = [todo EXCEPT ![t] = o]
  /\ out' = [out EXCEPT ![t] = Pending]
  /\ UNCHANGED mem

Next == \E t \in Threads : Perform(t) \/ FailSpuriously(t) \/ Again(t)

Spec == Init /\ [][Next]_vars
=============================================================================
