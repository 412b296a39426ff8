------------------------------ MODULE Atomics -------------------------------
(***************************************************************************)
(* The instructions gen() emits for the __atomic builtins, run by several  *)
(* threads on one object.  One action is one instruction that reads or     *)
(* writes the object, together with what the thread does with its own      *)
(* registers up to the next one.  x86_64 uses locked instructions, ARM64   *)
(* load-exclusive and store-exclusive.  The object is a single location,   *)
(* so the memory orders, which relate several, are left out.               *)
(***************************************************************************)
EXTENDS Integers

CONSTANTS
  Threads,
  Values,       \* what the object can hold
  Fetch(_, _, _), \* Fetch(kind, m, v): what add, sub, or, xor, and, nand compute
  Negate(_),    \* the neg instruction
  Ops,          \* the operations
  Programs(_),  \* Programs(arch): which of them each thread may do, functions
  Stale,        \* what earlier code may have left in %rax
  MaxOps        \* bound: operations of one thread

(* The object holds an unsigned number of its size.                        *)
ASSUME ValuesAssumption == Values \subseteq Nat /\ 0 \in Values /\ Stale \subseteq Values
ASSUME OpsAssumption ==
  Ops \subseteq [kind : {"load", "store", "exchange", "cas", "add", "sub", "or", "xor", "and", "nand"},
                val : Values, expected : Values, weak : BOOLEAN, isStore : BOOLEAN]
ASSUME ProgramsAssumption == \A a \in {"x86", "arm64"} : Programs(a) \subseteq [Threads -> SUBSET Ops]
ASSUME FetchAssumption ==
  \A kind \in {"add", "sub", "or", "xor", "and", "nand"} : \A m, v \in Values :
    Fetch(kind, m, v) \in Values
ASSUME NegateAssumption ==
  \A m, v \in Values : Negate(v) \in Values /\ Fetch("add", m, Negate(v)) = Fetch("sub", m, v)

VARIABLES
  arch,         \* the target
  prog,         \* the operations of each thread's code
  mem,          \* the object
  todo,         \* the operation of each thread
  th,           \* each thread's program counter and registers
  count         \* operations each thread has started

vars == <<arch, prog, mem, todo, th, count>>

Atomic == INSTANCE AtomicSpec WITH
  out <- [t \in Threads |-> IF th[t].pc = "done" THEN th[t].out
                            ELSE [ret |-> -1, expected |-> -1]]

FetchOps == {"add", "sub", "or", "xor", "and", "nand"}
LoopOps == FetchOps \ {"add", "sub"}      \* on x86_64 a loop around cmpxchg
NoOut == [ret |-> -1, expected |-> -1]

(* A thread about to run an operation: %rax and the result register hold   *)
(* what earlier code left there; monitor is the ARM64 exclusive monitor.   *)
Begin(rax) == [pc |-> "start", rax |-> rax, old |-> 0, new |-> 0, monitor |-> FALSE, out |-> NoOut]

Init ==
  /\ arch \in {"x86", "arm64"}
  /\ mem \in Values
  /\ prog \in Programs(arch)
  /\ todo \in {f \in [Threads -> Ops] : \A t \in Threads : f[t] \in prog[t]}
  /\ \E rax \in [Threads -> Stale] : th = [t \in Threads |-> Begin(rax[t])]
  /\ count = [t \in Threads |-> 1]

Is(t, kinds) == todo[t].kind \in kinds
At(t, label) == th[t].pc = label

(* Thread t goes on with record r; when the object is written, the other   *)
(* threads lose their monitors.                                            *)
Step(t, r) == th' = [th EXCEPT ![t] = r]
StepAfterWrite(t, r) ==
  th' = [u \in Threads |-> IF u = t THEN r ELSE [th[u] EXCEPT !.monitor = FALSE]]

Finish(t, ret, expected) ==
  [th[t] EXCEPT !.pc = "done", !.monitor = FALSE, !.out = [ret |-> ret, expected |-> expected]]
Return(t, ret) == Finish(t, ret, todo[t].expected)

-----------------------------------------------------------------------------
(* ND_ATOMIC_LOAD: movl, ldar.                                             *)
AtomicLoad(t) ==
  /\ At(t, "start") /\ Is(t, {"load"})
  /\ Step(t, Return(t, mem))
  /\ UNCHANGED <<arch, prog, mem, todo, count>>

(* ND_ATOMIC_STORE: movl, stlr.                                            *)
AtomicStore(t) ==
  /\ At(t, "start") /\ Is(t, {"store"})
  /\ mem' = todo[t].val
  /\ StepAfterWrite(t, Return(t, 0))
  /\ UNCHANGED <<arch, prog, todo, count>>

(* ND_ATOMIC_EXCHANGE on x86_64: xchg locks by itself.                     *)
Xchg(t) ==
  /\ arch = "x86" /\ At(t, "start") /\ Is(t, {"exchange"})
  /\ mem' = todo[t].val
  /\ Step(t, Return(t, mem))
  /\ UNCHANGED <<arch, prog, todo, count>>

(* lock cmpxchg with %rax: the outcome is in the zero flag, and in %rax    *)
(* the object's value if it differed.                                      *)
Cmpxchg(t, new, expected) == mem' = IF mem = expected THEN new ELSE mem

(* ND_ATOMIC_CAS on x86_64: *expected is loaded into %rax and %rax stored  *)
(* there afterwards, also when they were equal.                            *)
CasX86(t) ==
  /\ arch = "x86" /\ At(t, "start") /\ Is(t, {"cas"})
  /\ Cmpxchg(t, todo[t].val, todo[t].expected)
  /\ Step(t, IF mem = todo[t].expected THEN Finish(t, 1, todo[t].expected) ELSE Finish(t, 0, mem))
  /\ UNCHANGED <<arch, prog, todo, count>>

(* ND_ATOMIC_FETCH_OP on x86_64, add and sub: lock xadd of val or of its   *)
(* negation; op_fetch adds it to the old value once more.                  *)
Xadd(t) ==
  LET v == IF todo[t].kind = "sub" THEN Negate(todo[t].val) ELSE todo[t].val IN
  /\ arch = "x86" /\ At(t, "start") /\ Is(t, {"add", "sub"})
  /\ mem' = Fetch("add", mem, v)
  /\ Step(t, Return(t, IF todo[t].isStore THEN Fetch("add", mem, v) ELSE mem))
  /\ UNCHANGED <<arch, prog, todo, count>>

(* The other operations on x86_64: the head of the loop loads the object   *)
(* into r_old and computes r_new ...                                       *)
FetchLoad(t) ==
  /\ arch = "x86" /\ At(t, "start") /\ Is(t, LoopOps)
  /\ Step(t, [th[t] EXCEPT !.pc = "loaded", !.old = mem,
                           !.new = Fetch(todo[t].kind, mem, todo[t].val)])
  /\ UNCHANGED <<arch, prog, mem, todo, count>>

(* ... and its end compares the object with %rax, which is r_old nowhere.  *)
FetchCmpxchg(t) ==
  /\ At(t, "loaded") /\ arch = "x86"
  /\ Cmpxchg(t, th[t].new, th[t].rax)
  /\ Step(t, IF mem = th[t].rax
               THEN Return(t, IF todo[t].isStore THEN th[t].new ELSE th[t].old)
               ELSE [th[t] EXCEPT !.pc = "start", !.rax = mem])
  /\ UNCHANGED <<arch, prog, todo, count>>

-----------------------------------------------------------------------------
(* ldxr: the object is loaded and the monitor set.  A compare-and-exchange *)
(* that finds another value stops here.  A fetch operation then stores the *)
(* loaded value into the thread's frame, before its stxr: as the           *)
(* architecture has it, a store that may cost the monitor.                 *)
LoadExclusive(t) ==
  /\ arch = "arm64" /\ At(t, "start") /\ Is(t, {"exchange", "cas"} \union FetchOps)
  /\ IF Is(t, {"cas"}) /\ mem # todo[t].expected
       THEN Step(t, Finish(t, 0, mem))
       ELSE \E kept \in IF Is(t, FetchOps) THEN BOOLEAN ELSE {TRUE} :
              Step(t, [th[t] EXCEPT !.pc = "loaded", !.old = mem, !.monitor = kept,
                                    !.new = IF Is(t, FetchOps)
                                              THEN Fetch(todo[t].kind, mem, todo[t].val)
                                              ELSE todo[t].val])
  /\ UNCHANGED <<arch, prog, mem, todo, count>>

(* Mutant: a plain store, whatever the monitor says.                       *)
StorePlain(t) ==
  /\ arch = "arm64" /\ At(t, "loaded")
  /\ mem' = th[t].new
  /\ StepAfterWrite(t, CASE todo[t].kind = "cas" -> Return(t, 1)
                         [] todo[t].kind = "exchange" -> Return(t, th[t].old)
                         [] OTHER -> Return(t, IF todo[t].isStore THEN th[t].new ELSE th[t].old))
  /\ UNCHANGED <<arch, prog, todo, count>>

(* stxr with the monitor still set: the object is written.                 *)
StoreExclusive(t) ==
  /\ arch = "arm64" /\ At(t, "loaded") /\ th[t].monitor
  /\ mem' = th[t].new
  /\ StepAfterWrite(t, CASE todo[t].kind = "exchange" -> Return(t, th[t].old)
                         [] todo[t].kind = "cas" -> Return(t, 1)
                         [] OTHER -> Return(t, IF todo[t].isStore THEN th[t].new ELSE th[t].old))
  /\ UNCHANGED <<arch, prog, todo, count>>

(* Mutant: the retry jumps to the stxr, not to the ldxr before it.         *)
StoreExclusiveAgain(t) ==
  /\ arch = "arm64" /\ At(t, "loaded")
  /\ Step(t, IF Is(t, {"cas"}) /\ todo[t].weak THEN Finish(t, 0, th[t].old)
             ELSE [th[t] EXCEPT !.monitor = FALSE])
  /\ UNCHANGED <<arch, prog, mem, todo, count>>

(* stxr fails: the monitor is lost, or the processor gives no reason.  The *)
(* code tries again, but for a weak compare-and-exchange, which returns 0  *)
(* and stores the value it loaded.                                         *)
StoreExclusiveFails(t) ==
  /\ arch = "arm64" /\ At(t, "loaded")
  /\ Step(t, IF Is(t, {"cas"}) /\ todo[t].weak THEN Finish(t, 0, th[t].old)
             ELSE [th[t] EXCEPT !.pc = "start", !.monitor = FALSE])
  /\ UNCHANGED <<arch, prog, mem, todo, count>>

(* The code after the operation, up to the thread's next one.              *)
NextOperation(t) ==
  /\ At(t, "done") /\ count[t] < MaxOps
  /\ count' = [count EXCEPT ![t] = @ + 1]
  /\ \E o \in prog[t], rax \in Stale :
       todo' = [todo EXCEPT ![t] = o] /\ Step(t, Begin(rax))
  /\ UNCHANGED <<arch, prog, mem>>

Instruction(t) ==
  \/ AtomicLoad(t) \/ AtomicStore(t) \/ Xchg(t) \/ CasX86(t) \/ Xadd(t)
  \/ FetchLoad(t) \/ FetchCmpxchg(t)
  \/ LoadExclusive(t) \/ StoreExclusive(t) \/ StoreExclusiveFails(t)

Next == \E t \in Threads : Instruction(t) \/ NextOperation(t)

(* On ARM64 a fetch operation accesses its frame between ldxr and stxr,    *)
(* and the architecture promises progress only to loops that access no     *)
(* memory there.                                                           *)
StoresInside(t) == arch = "arm64" /\ Is(t, FetchOps)

(* A thread that can run does (the scheduler), and the store-exclusive of  *)
(* an exchange or a compare-and-exchange that is tried again and again     *)
(* with its monitor set succeeds (the processor).                          *)
Fairness ==
  \A t \in Threads :
    WF_vars(Instruction(t)) /\ SF_vars(StoreExclusive(t) /\ ~StoresInside(t))

Spec == Init /\ [][Next]_vars /\ Fairness

-----------------------------------------------------------------------------
(* Every thread is at a known instruction and its registers hold values of *)
(* the object's size.                                                      *)
TypeOK ==
  /\ mem \in Values /\ prog \in [Threads -> SUBSET Ops]
  /\ \A t \in Threads :
       /\ th[t].pc \in {"start", "loaded", "done"}
       /\ {th[t].rax, th[t].old, th[t].new} \subseteq Values
       /\ th[t].pc = "done" <=> th[t].out # NoOut

(* On x86_64 the loop ends with a compare of %rax, not of what the loop    *)
(* loaded, so it is right only beside threads that do not write (README,   *)
(* section 6).                                                             *)
LoopsBesideReaders ==
  \A p \in Programs("x86") : \A t, u \in Threads : t # u =>
    \A o \in p[t], q \in p[u] : o.kind \in LoopOps => q.kind = "load"

(* Linearizability: however the instructions of the threads interleave,    *)
(* every operation acts on the object in one step and returns, and stores  *)
(* in *expected, what it found in that step.                               *)
ImplementsAtomic == Atomic!Spec

(* Every operation returns: the loops end, although each thread's write    *)
(* makes the others try again, and although another thread may try its     *)
(* ARM64 fetch operation for ever, which no rule keeps it from.            *)
OperationsReturn == \A t \in Threads : []<>(th[t].pc = "done" \/ StoresInside(t))
=============================================================================
