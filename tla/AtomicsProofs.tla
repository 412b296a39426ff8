---------------------------- MODULE AtomicsProofs ---------------------------
(***************************************************************************)
(* The instruction sequences of Atomics implement AtomicSpec, for any      *)
(* number of threads, any values and operations, on both targets.          *)
(***************************************************************************)
EXTENDS Atomics, TLAPS

Thread == [pc : {"start", "loaded", "done"}, rax : Values, old : Values, new : Values,
           monitor : BOOLEAN, out : [ret : Int, expected : Int]]

Types ==
  /\ arch \in {"x86", "arm64"} /\ prog \in Programs(arch)
  /\ mem \in Values
  /\ todo \in [Threads -> Ops] /\ \A t \in Threads : todo[t] \in prog[t]
  /\ th \in [Threads -> Thread]

(* What a thread between the two instructions of a loop knows: on x86_64   *)
(* that nobody wrote since, on ARM64 that nobody did if it still has its   *)
(* monitor, and in any case that its compare-and-exchange found what it    *)
(* expected.                                                               *)
Computed(t, m) ==
  IF todo[t].kind \in FetchOps THEN Fetch(todo[t].kind, m, todo[t].val) ELSE todo[t].val
KnowsX86(t) ==
  arch = "x86" => todo[t].kind \in LoopOps /\ th[t].old = mem /\ th[t].new = Computed(t, mem)
KnowsArm(t) ==
  arch = "arm64" =>
    /\ todo[t].kind \in {"exchange", "cas"} \union FetchOps
    /\ todo[t].kind = "cas" => th[t].old = todo[t].expected
    /\ th[t].new = Computed(t, th[t].old)
    /\ th[t].monitor => th[t].old = mem
Between == \A t \in Threads : th[t].pc = "loaded" => KnowsX86(t) /\ KnowsArm(t)

Returned == \A t \in Threads : (th[t].pc = "done") = (th[t].out # NoOut)

IInv == Types /\ Between /\ Returned

-----------------------------------------------------------------------------
(* The records of a thread: those it begins, goes on and returns with.     *)
LEMMA BeginType ==
  ASSUME NEW rax \in Stale PROVE Begin(rax) \in Thread /\ Begin(rax).pc = "start" /\ Begin(rax).out = NoOut
<1>1. rax \in Values /\ 0 \in Values
  BY ValuesAssumption
<1>2. NoOut \in [ret : Int, expected : Int]
  BY DEF NoOut
<1> QED
  BY <1>1, <1>2 DEF Begin, Thread

LEMMA FinishType ==
  ASSUME NEW t \in Threads, th[t] \in Thread, NEW ret \in Nat, NEW expected \in Nat
  PROVE  /\ Finish(t, ret, expected) \in Thread
         /\ Finish(t, ret, expected).pc = "done"
         /\ Finish(t, ret, expected).out = [ret |-> ret, expected |-> expected]
         /\ Finish(t, ret, expected).out # NoOut
<1>1. [ret |-> ret, expected |-> expected] \in [ret : Int, expected : Int]
  OBVIOUS
<1>2. [ret |-> ret, expected |-> expected] # NoOut
  BY DEF NoOut
<1> QED
  BY <1>1, <1>2 DEF Finish, Thread

LEMMA OpType ==
  ASSUME Types, NEW t \in Threads
  PROVE  /\ todo[t].val \in Values /\ todo[t].val \in Nat
         /\ todo[t].expected \in Values /\ todo[t].expected \in Nat
         /\ todo[t].kind \in {"load", "store", "exchange", "cas"} \union FetchOps
         /\ mem \in Nat /\ th[t] \in Thread
BY OpsAssumption, ValuesAssumption DEF Types, FetchOps

LEMMA FetchType ==
  ASSUME NEW kind \in FetchOps, NEW m \in Values, NEW v \in Values
  PROVE  Fetch(kind, m, v) \in Values /\ Fetch(kind, m, v) \in Nat
BY FetchAssumption, ValuesAssumption DEF FetchOps

LEMMA InitIInv == Init => IInv
<1> SUFFICES ASSUME Init PROVE IInv
  OBVIOUS
<1>1. PICK rax \in [Threads -> Stale] : th = [t \in Threads |-> Begin(rax[t])]
  BY DEF Init
<1>2. th \in [Threads -> Thread]
  BY <1>1, BeginType
<1>3. \A t \in Threads : th[t].pc = "start" /\ th[t].out = NoOut
  BY <1>1, BeginType
<1> QED
  BY <1>2, <1>3 DEF Init, IInv, Types, Between, Returned

-----------------------------------------------------------------------------
(* A step of thread t leaves the others as they are, but for the monitors  *)
(* that a write on ARM64 clears.                                           *)
Keeps(t) ==
  /\ th' \in [Threads -> Thread]
  /\ \A u \in Threads \ {t} : th'[u] = th[u] \/ th'[u] = [th[u] EXCEPT !.monitor = FALSE]
  /\ arch = "arm64" /\ mem' # mem => \A u \in Threads \ {t} : th'[u].monitor = FALSE

LEMMA StepKeeps ==
  ASSUME Types, NEW t \in Threads, NEW r \in Thread, Step(t, r), mem' = mem \/ arch = "x86"
  PROVE  Keeps(t) /\ th'[t] = r
BY DEF Types, Step, Keeps

LEMMA WriteKeeps ==
  ASSUME Types, NEW t \in Threads, NEW r \in Thread, StepAfterWrite(t, r)
  PROVE  Keeps(t) /\ th'[t] = r
<1>1. \A u \in Threads : [th[u] EXCEPT !.monitor = FALSE] \in Thread
  BY DEF Types, Thread
<1>2. \A u \in Threads : [th[u] EXCEPT !.monitor = FALSE].monitor = FALSE
  BY DEF Types, Thread
<1> QED
  BY <1>1, <1>2 DEF StepAfterWrite, Keeps

(* Every step that does not end an operation wrongly keeps the invariant.  *)
LEMMA IInvStep ==
  ASSUME IInv, LoopsBesideReaders, NEW t \in Threads, Keeps(t),
         UNCHANGED <<arch, prog, todo>>, mem' \in Values,
         mem' # mem => todo[t].kind # "load",
         th'[t].pc = "loaded" => (KnowsX86(t) /\ KnowsArm(t))',
         (th'[t].pc = "done") = (th'[t].out # NoOut)
  PROVE  IInv'
<1> USE DEF IInv
<1>1. Types'
  BY DEF Types, Keeps
<1>2. ASSUME NEW u \in Threads \ {t}
      PROVE  /\ th'[u].pc = th[u].pc /\ th'[u].old = th[u].old /\ th'[u].new = th[u].new
             /\ th'[u].out = th[u].out /\ (th'[u].monitor => th[u].monitor)
  BY <1>2 DEF Keeps, Types, Thread
<1>3. Returned'
  BY <1>2 DEF Returned
<1>4. ASSUME NEW u \in Threads \ {t}, th'[u].pc = "loaded" PROVE KnowsX86(u)'
  <2>1. SUFFICES ASSUME arch = "x86" PROVE KnowsX86(u)'
    BY DEF KnowsX86
  <2>2. KnowsX86(u) /\ th[u].pc = "loaded"
    BY <1>2, <1>4 DEF Between
  <2>3. todo[u].kind \in LoopOps /\ todo[u] \in prog[u] /\ todo[t] \in prog[t] /\ prog \in Programs("x86")
    BY <2>1, <2>2 DEF KnowsX86, Types
  <2>4. todo[t].kind = "load"
    BY <2>3 DEF LoopsBesideReaders
  <2>5. mem' = mem
    BY <2>4
  <2> QED
    BY <1>2, <2>2, <2>5 DEF KnowsX86, Computed
<1>5. ASSUME NEW u \in Threads \ {t}, th'[u].pc = "loaded" PROVE KnowsArm(u)'
  <2>1. SUFFICES ASSUME arch = "arm64" PROVE KnowsArm(u)'
    BY DEF KnowsArm
  <2>2. KnowsArm(u)
    BY <1>2, <1>5 DEF Between
  <2>3. th'[u].monitor => mem' = mem /\ th[u].monitor
    BY <1>2, <2>1 DEF Keeps
  <2> QED
    BY <1>2, <2>1, <2>2, <2>3 DEF KnowsArm, Computed
<1>6. Between'
  BY <1>4, <1>5 DEF Between
<1> QED
  BY <1>1, <1>3, <1>6

(* The mapped variable out: what the step does to it.                      *)
Out == [t \in Threads |-> IF th[t].pc = "done" THEN th[t].out ELSE [ret |-> -1, expected |-> -1]]

LEMMA OutStep ==
  ASSUME IInv, NEW t \in Threads, Keeps(t)
  PROVE  Out' = [Out EXCEPT ![t] = IF th'[t].pc = "done" THEN th'[t].out ELSE NoOut]
<1>1. ASSUME NEW u \in Threads \ {t} PROVE th'[u].pc = th[u].pc /\ th'[u].out = th[u].out
  BY <1>1 DEF Keeps, IInv, Types, Thread
<1> QED
  BY <1>1 DEF Out, NoOut

LEMMA PerformStep ==
  ASSUME IInv, NEW t \in Threads, Keeps(t), th[t].pc # "done", th'[t].pc = "done",
         mem' = Atomic!After(todo[t], mem), th'[t].out = Atomic!Outcome(todo[t], mem), UNCHANGED todo
  PROVE  Atomic!Next
<1>1. Out[t] = NoOut
  BY DEF Out, NoOut
<1>2. Out' = [Out EXCEPT ![t] = Atomic!Outcome(todo[t], mem)]
  BY OutStep
<1>3. Atomic!Perform(t)
  BY <1>1, <1>2 DEF Atomic!Perform, Atomic!Pending, Out, NoOut
<1> QED
  BY <1>3 DEF Atomic!Next

LEMMA StutterStep ==
  ASSUME IInv, NEW t \in Threads, Keeps(t), th[t].pc # "done", th'[t].pc # "done", UNCHANGED <<mem, todo>>
  PROVE  UNCHANGED Atomic!vars
<1>1. Out' = [Out EXCEPT ![t] = NoOut]
  BY OutStep
<1>2. Out' = Out
  BY <1>1 DEF Out, NoOut
<1> QED
  BY <1>2 DEF Atomic!vars, Out

(* A weak compare-and-exchange of ARM64 that lost its monitor.             *)
LEMMA FailStep ==
  ASSUME IInv, NEW t \in Threads, Keeps(t), th[t].pc # "done", th'[t].pc = "done",
         todo[t].kind = "cas", todo[t].weak,
         th'[t].out = [ret |-> 0, expected |-> todo[t].expected], UNCHANGED <<mem, todo>>
  PROVE  Atomic!Next
<1>1. Out[t] = NoOut
  BY DEF Out, NoOut
<1>2. Out' = [Out EXCEPT ![t] = [ret |-> 0, expected |-> todo[t].expected]]
  BY OutStep
<1>3. Atomic!FailSpuriously(t)
  BY <1>1, <1>2 DEF Atomic!FailSpuriously, Atomic!Pending, Out, NoOut
<1> QED
  BY <1>3 DEF Atomic!Next

-----------------------------------------------------------------------------
(* One lemma per instruction: it keeps the invariant, and is a step of     *)
(* AtomicSpec or changes nothing there.                                    *)
Correct == IInv' /\ [Atomic!Next]_(Atomic!vars)

(* An instruction that ends the operation with the record r.               *)
LEMMA EndStep ==
  ASSUME IInv, LoopsBesideReaders, NEW t \in Threads, Keeps(t), th[t].pc # "done",
         NEW ret \in Nat, NEW expected \in Nat, th'[t] = Finish(t, ret, expected),
         mem' \in Values, mem' # mem => todo[t].kind # "load",
         UNCHANGED <<arch, prog, todo>>,
         \/ /\ mem' = Atomic!After(todo[t], mem)
            /\ [ret |-> ret, expected |-> expected] = Atomic!Outcome(todo[t], mem)
         \/ /\ todo[t].kind = "cas" /\ todo[t].weak /\ mem' = mem
            /\ ret = 0 /\ expected = todo[t].expected
  PROVE  Correct
<1>1. /\ th'[t].pc = "done" /\ th'[t].out # NoOut
      /\ th'[t].out = [ret |-> ret, expected |-> expected]
  BY OpType, FinishType DEF IInv
<1>2. IInv'
  BY <1>1, IInvStep
<1>3. Atomic!Next
  BY <1>1, PerformStep, FailStep
<1> QED
  BY <1>2, <1>3 DEF Correct

LEMMA LoadStep ==
  ASSUME IInv, LoopsBesideReaders, NEW t \in Threads, AtomicLoad(t) PROVE Correct
<1>1. Types /\ todo[t].expected \in Nat /\ mem \in Nat /\ mem \in Values
  BY OpType DEF IInv, Types
<1>2. Finish(t, mem, todo[t].expected) \in Thread
  BY <1>1, OpType, FinishType
<1>3. Keeps(t) /\ th'[t] = Finish(t, mem, todo[t].expected)
  BY <1>1, <1>2, StepKeeps DEF AtomicLoad, Return
<1>4. /\ mem' = Atomic!After(todo[t], mem)
      /\ [ret |-> mem, expected |-> todo[t].expected] = Atomic!Outcome(todo[t], mem)
  BY DEF AtomicLoad, Is, Atomic!After, Atomic!Outcome, Atomic!FetchOps
<1> QED
  BY <1>1, <1>3, <1>4, EndStep DEF AtomicLoad, At

LEMMA StoreStep ==
  ASSUME IInv, LoopsBesideReaders, NEW t \in Threads, AtomicStore(t) PROVE Correct
<1>1. Types /\ todo[t].expected \in Nat /\ todo[t].val \in Values
  BY OpType DEF IInv, Types
<1>2. Finish(t, 0, todo[t].expected) \in Thread
  BY <1>1, OpType, FinishType
<1>3. Keeps(t) /\ th'[t] = Finish(t, 0, todo[t].expected)
  BY <1>1, <1>2, WriteKeeps DEF AtomicStore, Return
<1>4. /\ mem' = Atomic!After(todo[t], mem)
      /\ [ret |-> 0, expected |-> todo[t].expected] = Atomic!Outcome(todo[t], mem)
  BY DEF AtomicStore, Is, Atomic!After, Atomic!Outcome, Atomic!FetchOps
<1> QED
  BY <1>1, <1>3, <1>4, EndStep DEF AtomicStore, At, Is

LEMMA XchgStep ==
  ASSUME IInv, LoopsBesideReaders, NEW t \in Threads, Xchg(t) PROVE Correct
<1>1. Types /\ todo[t].expected \in Nat /\ todo[t].val \in Values /\ mem \in Nat
  BY OpType DEF IInv, Types
<1>2. Finish(t, mem, todo[t].expected) \in Thread
  BY <1>1, OpType, FinishType
<1>3. Keeps(t) /\ th'[t] = Finish(t, mem, todo[t].expected)
  BY <1>1, <1>2, StepKeeps DEF Xchg, Return
<1>4. /\ mem' = Atomic!After(todo[t], mem)
      /\ [ret |-> mem, expected |-> todo[t].expected] = Atomic!Outcome(todo[t], mem)
  BY DEF Xchg, Is, Atomic!After, Atomic!Outcome, Atomic!FetchOps
<1> QED
  BY <1>1, <1>3, <1>4, EndStep DEF Xchg, At, Is

LEMMA CasX86Step ==
  ASSUME IInv, LoopsBesideReaders, NEW t \in Threads, CasX86(t) PROVE Correct
<1> DEFINE ret == IF mem = todo[t].expected THEN 1 ELSE 0
<1>1. Types /\ todo[t].expected \in Nat /\ todo[t].val \in Values /\ mem \in Nat /\ mem \in Values
  BY OpType DEF IInv, Types
<1>2. Finish(t, ret, mem) \in Thread /\ ret \in Nat
  BY <1>1, OpType, FinishType
<1>3. Step(t, Finish(t, ret, mem))
  BY DEF CasX86
<1>4. Keeps(t) /\ th'[t] = Finish(t, ret, mem)
  BY <1>1, <1>2, <1>3, StepKeeps DEF CasX86
<1>5. mem' \in Values /\ mem' = Atomic!After(todo[t], mem)
  BY <1>1 DEF CasX86, Cmpxchg, Is, Atomic!After, Atomic!FetchOps
<1>6. [ret |-> ret, expected |-> mem] = Atomic!Outcome(todo[t], mem)
  BY DEF CasX86, Is, Atomic!Outcome, Atomic!FetchOps
<1> HIDE DEF ret
<1> QED
  BY <1>1, <1>2, <1>4, <1>5, <1>6, EndStep DEF CasX86, At, Is

(* xadd of the negated operand subtracts it.                               *)
LEMMA XaddStep ==
  ASSUME IInv, LoopsBesideReaders, NEW t \in Threads, Xadd(t) PROVE Correct
<1> DEFINE new == Fetch(todo[t].kind, mem, todo[t].val)
<1> DEFINE ret == IF todo[t].isStore THEN new ELSE mem
<1>1. /\ Types /\ todo[t].expected \in Nat /\ todo[t].val \in Values /\ mem \in Nat /\ mem \in Values
      /\ todo[t].kind \in {"add", "sub"} /\ todo[t].kind \in FetchOps
  BY OpType DEF IInv, Types, Xadd, Is, FetchOps
<1>2. new = Fetch("add", mem, IF todo[t].kind = "sub" THEN Negate(todo[t].val) ELSE todo[t].val)
  BY <1>1, NegateAssumption
<1>3. new \in Values /\ new \in Nat
  BY <1>1, FetchType
<1>4. ret \in Nat
  BY <1>1, <1>3
<1>5. Finish(t, ret, todo[t].expected) \in Thread
  BY <1>1, <1>4, OpType, FinishType
<1>6. mem' = new /\ Step(t, Finish(t, ret, todo[t].expected))
  BY <1>2 DEF Xadd, Return
<1>7. Keeps(t) /\ th'[t] = Finish(t, ret, todo[t].expected)
  BY <1>1, <1>5, <1>6, StepKeeps DEF Xadd
<1>8. mem' = Atomic!After(todo[t], mem)
  BY <1>1, <1>6 DEF Atomic!After, Atomic!FetchOps
<1>9. [ret |-> ret, expected |-> todo[t].expected] = Atomic!Outcome(todo[t], mem)
  BY <1>1 DEF Atomic!Outcome, Atomic!FetchOps
<1>10. th[t].pc # "done" /\ UNCHANGED <<arch, prog, todo>> /\ todo[t].kind # "load"
  BY <1>1 DEF Xadd, At
<1> HIDE DEF ret, new
<1> QED
  BY <1>1, <1>3, <1>4, <1>6, <1>7, <1>8, <1>9, <1>10, EndStep

(* An instruction after which the operation goes on.                       *)
LEMMA GoOnStep ==
  ASSUME IInv, LoopsBesideReaders, NEW t \in Threads, Keeps(t), th[t].pc # "done",
         th'[t].pc # "done", th'[t].out = th[t].out, UNCHANGED <<arch, prog, mem, todo>>,
         th'[t].pc = "loaded" => (KnowsX86(t) /\ KnowsArm(t))'
  PROVE  Correct
<1>1. th'[t].out = NoOut
  BY DEF IInv, Returned
<1>2. IInv'
  BY <1>1, IInvStep DEF IInv, Types
<1>3. UNCHANGED Atomic!vars
  BY StutterStep
<1> QED
  BY <1>2, <1>3 DEF Correct

LEMMA FetchLoadStep ==
  ASSUME IInv, LoopsBesideReaders, NEW t \in Threads, FetchLoad(t) PROVE Correct
<1> DEFINE r == [th[t] EXCEPT !.pc = "loaded", !.old = mem,
                              !.new = Fetch(todo[t].kind, mem, todo[t].val)]
<1>1. Types /\ todo[t].val \in Values /\ mem \in Values /\ th[t] \in Thread
  BY OpType DEF IInv, Types
<1>2. todo[t].kind \in LoopOps /\ todo[t].kind \in FetchOps
  BY DEF FetchLoad, Is, LoopOps
<1>3. Fetch(todo[t].kind, mem, todo[t].val) \in Values
  BY <1>1, <1>2, FetchType
<1>4. /\ r \in Thread /\ r.pc = "loaded" /\ r.old = mem /\ r.out = th[t].out
      /\ r.new = Fetch(todo[t].kind, mem, todo[t].val)
  BY <1>1, <1>3 DEF Thread
<1>5. Step(t, r)
  BY DEF FetchLoad
<1> HIDE DEF r
<1>6. Keeps(t) /\ th'[t] = r
  BY <1>1, <1>4, <1>5, StepKeeps DEF FetchLoad
<1>7. (KnowsX86(t) /\ KnowsArm(t))'
  BY <1>2, <1>4, <1>6 DEF FetchLoad, KnowsX86, KnowsArm, Computed
<1> QED
  BY <1>4, <1>6, <1>7, GoOnStep DEF FetchLoad, At

(* The compare with %rax succeeds only on the value the loop loaded, which *)
(* is still there.                                                         *)
LEMMA FetchCmpxchgStep ==
  ASSUME IInv, LoopsBesideReaders, NEW t \in Threads, FetchCmpxchg(t) PROVE Correct
<1>1. /\ Types /\ todo[t].expected \in Nat /\ todo[t].val \in Values /\ mem \in Nat /\ mem \in Values
      /\ th[t] \in Thread
  BY OpType DEF IInv, Types
<1>2. /\ arch = "x86" /\ th[t].pc = "loaded"
      /\ todo[t].kind \in LoopOps /\ th[t].old = mem /\ th[t].new = Computed(t, mem)
  BY DEF FetchCmpxchg, At, IInv, Between, KnowsX86
<1>3. todo[t].kind \in FetchOps /\ todo[t].kind # "load"
  BY <1>2 DEF LoopOps, FetchOps
<1>4. th[t].new = Fetch(todo[t].kind, mem, todo[t].val)
  BY <1>2, <1>3 DEF Computed
<1>5. th[t].new \in Values /\ th[t].new \in Nat
  BY <1>1, <1>3, <1>4, FetchType
<1>6. CASE mem = th[t].rax
  <2> DEFINE ret == IF todo[t].isStore THEN th[t].new ELSE th[t].old
  <2>1. ret \in Nat
    BY <1>1, <1>2, <1>5
  <2>2. Finish(t, ret, todo[t].expected) \in Thread
    BY <1>1, <2>1, FinishType
  <2>3. mem' = th[t].new /\ Step(t, Finish(t, ret, todo[t].expected))
    BY <1>6 DEF FetchCmpxchg, Cmpxchg, Return
  <2>4. Keeps(t) /\ th'[t] = Finish(t, ret, todo[t].expected)
    BY <1>1, <1>2, <2>2, <2>3, StepKeeps
  <2>5. mem' = Atomic!After(todo[t], mem)
    BY <1>3, <1>4, <2>3 DEF Atomic!After, Atomic!FetchOps, FetchOps
  <2>6. [ret |-> ret, expected |-> todo[t].expected] = Atomic!Outcome(todo[t], mem)
    BY <1>2, <1>3, <1>4 DEF Atomic!Outcome, Atomic!FetchOps, FetchOps
  <2>7. UNCHANGED <<arch, prog, todo>>
    BY DEF FetchCmpxchg
  <2> HIDE DEF ret
  <2> QED
    BY <1>1, <1>2, <1>3, <1>5, <2>1, <2>3, <2>4, <2>5, <2>6, <2>7, EndStep
<1>7. CASE mem # th[t].rax
  <2> DEFINE r == [th[t] EXCEPT !.pc = "start", !.rax = mem]
  <2>1. r \in Thread /\ r.pc = "start" /\ r.out = th[t].out
    BY <1>1 DEF Thread
  <2>2. Step(t, r) /\ UNCHANGED <<arch, prog, mem, todo>>
    BY <1>7 DEF FetchCmpxchg, Cmpxchg
  <2> HIDE DEF r
  <2>3. Keeps(t) /\ th'[t] = r
    BY <1>1, <2>1, <2>2, StepKeeps
  <2> QED
    BY <1>2, <2>1, <2>2, <2>3, GoOnStep
<1> QED
  BY <1>6, <1>7

LEMMA LoadExclusiveStep ==
  ASSUME IInv, LoopsBesideReaders, NEW t \in Threads, LoadExclusive(t) PROVE Correct
<1>1. /\ Types /\ todo[t].expected \in Nat /\ todo[t].val \in Values /\ mem \in Nat /\ mem \in Values
      /\ th[t] \in Thread
  BY OpType DEF IInv, Types
<1>2. /\ arch = "arm64" /\ th[t].pc = "start" /\ UNCHANGED <<arch, prog, mem, todo>>
      /\ todo[t].kind \in {"exchange", "cas"} \union FetchOps
  BY DEF LoadExclusive, At, Is
<1>3. CASE todo[t].kind = "cas" /\ mem # todo[t].expected
  <2>1. Finish(t, 0, mem) \in Thread
    BY <1>1, FinishType
  <2>2. Step(t, Finish(t, 0, mem))
    BY <1>3 DEF LoadExclusive, Is
  <2>3. Keeps(t) /\ th'[t] = Finish(t, 0, mem)
    BY <1>1, <1>2, <2>1, <2>2, StepKeeps
  <2>4. /\ mem' = Atomic!After(todo[t], mem)
        /\ [ret |-> 0, expected |-> mem] = Atomic!Outcome(todo[t], mem)
    BY <1>2, <1>3 DEF Atomic!After, Atomic!Outcome, Atomic!FetchOps
  <2> QED
    BY <1>1, <1>2, <2>3, <2>4, EndStep
<1>4. CASE ~ (todo[t].kind = "cas" /\ mem # todo[t].expected)
  <2>0. PICK kept \in BOOLEAN :
          Step(t, [th[t] EXCEPT !.pc = "loaded", !.old = mem, !.monitor = kept, !.new = Computed(t, mem)])
    BY <1>4 DEF LoadExclusive, Is, Computed
  <2> DEFINE r == [th[t] EXCEPT !.pc = "loaded", !.old = mem, !.monitor = kept, !.new = Computed(t, mem)]
  <2>1. Computed(t, mem) \in Values
    BY <1>1, FetchType DEF Computed
  <2>2. /\ r \in Thread /\ r.pc = "loaded" /\ r.old = mem /\ r.out = th[t].out
        /\ r.new = Computed(t, mem)
    BY <1>1, <2>1 DEF Thread
  <2>3. Step(t, r)
    BY <2>0
  <2> HIDE DEF r
  <2>4. Keeps(t) /\ th'[t] = r
    BY <1>1, <1>2, <2>2, <2>3, StepKeeps
  <2>5. (KnowsX86(t) /\ KnowsArm(t))'
    BY <1>2, <1>4, <2>2, <2>4 DEF KnowsX86, KnowsArm, Computed
  <2> QED
    BY <1>2, <2>2, <2>4, <2>5, GoOnStep
<1> QED
  BY <1>3, <1>4

(* A monitor that is still set proves that the object is what was loaded.  *)
LEMMA StoreExclusiveStep ==
  ASSUME IInv, LoopsBesideReaders, NEW t \in Threads, StoreExclusive(t) PROVE Correct
<1> DEFINE ret == CASE todo[t].kind = "exchange" -> th[t].old
                    [] todo[t].kind = "cas" -> 1
                    [] OTHER -> IF todo[t].isStore THEN th[t].new ELSE th[t].old
<1>1. /\ Types /\ todo[t].expected \in Nat /\ todo[t].val \in Values /\ mem \in Nat /\ mem \in Values
      /\ th[t] \in Thread
  BY OpType DEF IInv, Types
<1>2. /\ th[t].pc = "loaded" /\ th[t].monitor /\ mem' = th[t].new /\ UNCHANGED <<arch, prog, todo>>
      /\ todo[t].kind \in {"exchange", "cas"} \union FetchOps
      /\ todo[t].kind = "cas" => mem = todo[t].expected
      /\ th[t].old = mem /\ th[t].new = Computed(t, mem)
  BY DEF StoreExclusive, At, IInv, Between, KnowsArm
<1>3. th[t].new \in Values /\ th[t].new \in Nat
  BY <1>1, ValuesAssumption DEF Thread
<1>4. ret \in Nat
  BY <1>1, <1>2, <1>3
<1>5. Finish(t, ret, todo[t].expected) \in Thread
  BY <1>1, <1>4, FinishType
<1>6. StepAfterWrite(t, Finish(t, ret, todo[t].expected))
  BY DEF StoreExclusive, Return
<1>7. Keeps(t) /\ th'[t] = Finish(t, ret, todo[t].expected)
  BY <1>1, <1>5, <1>6, WriteKeeps
<1>8. mem' = Atomic!After(todo[t], mem)
  BY <1>2 DEF Atomic!After, Atomic!FetchOps, FetchOps, Computed
<1>9. [ret |-> ret, expected |-> todo[t].expected] = Atomic!Outcome(todo[t], mem)
  BY <1>2 DEF Atomic!Outcome, Atomic!FetchOps, FetchOps, Computed
<1>10. todo[t].kind # "load"
  BY <1>2 DEF FetchOps
<1> HIDE DEF ret
<1> QED
  BY <1>1, <1>2, <1>3, <1>4, <1>7, <1>8, <1>9, <1>10, EndStep

LEMMA StoreExclusiveFailsStep ==
  ASSUME IInv, LoopsBesideReaders, NEW t \in Threads, StoreExclusiveFails(t) PROVE Correct
<1>1. /\ Types /\ todo[t].expected \in Nat /\ mem \in Nat /\ mem \in Values /\ th[t] \in Thread
  BY OpType DEF IInv, Types
<1>2. /\ th[t].pc = "loaded" /\ UNCHANGED <<arch, prog, mem, todo>>
      /\ todo[t].kind = "cas" => th[t].old = todo[t].expected
  BY DEF StoreExclusiveFails, At, IInv, Between, KnowsArm
<1>3. CASE todo[t].kind = "cas" /\ todo[t].weak
  <2>1. Finish(t, 0, todo[t].expected) \in Thread
    BY <1>1, FinishType
  <2>2. Step(t, Finish(t, 0, todo[t].expected))
    BY <1>2, <1>3 DEF StoreExclusiveFails, Is
  <2>3. Keeps(t) /\ th'[t] = Finish(t, 0, todo[t].expected)
    BY <1>1, <1>2, <2>1, <2>2, StepKeeps
  <2> QED
    BY <1>1, <1>2, <1>3, <2>3, EndStep
<1>4. CASE ~ (todo[t].kind = "cas" /\ todo[t].weak)
  <2> DEFINE r == [th[t] EXCEPT !.pc = "start", !.monitor = FALSE]
  <2>1. r \in Thread /\ r.pc = "start" /\ r.out = th[t].out
    BY <1>1 DEF Thread
  <2>2. Step(t, r)
    BY <1>4 DEF StoreExclusiveFails, Is
  <2> HIDE DEF r
  <2>3. Keeps(t) /\ th'[t] = r
    BY <1>1, <1>2, <2>1, <2>2, StepKeeps
  <2> QED
    BY <1>2, <2>1, <2>3, GoOnStep
<1> QED
  BY <1>3, <1>4

LEMMA NextOperationStep ==
  ASSUME IInv, LoopsBesideReaders, NEW t \in Threads, NextOperation(t) PROVE Correct
<1>1. PICK o \in prog[t], rax \in Stale : todo' = [todo EXCEPT ![t] = o] /\ Step(t, Begin(rax))
  BY DEF NextOperation
<1>2. Types /\ UNCHANGED <<arch, prog, mem>> /\ th[t].pc = "done" /\ arch \in {"x86", "arm64"}
  BY DEF IInv, Types, NextOperation, At
<1>3. prog[t] \subseteq Ops
  BY <1>2, ProgramsAssumption DEF Types
<1>4. Begin(rax) \in Thread /\ Begin(rax).pc = "start" /\ Begin(rax).out = NoOut
  BY BeginType
<1>5. Keeps(t) /\ th'[t] = Begin(rax)
  BY <1>1, <1>2, <1>4, StepKeeps
<1>6. \A u \in Threads \ {t} : th'[u] = th[u] /\ todo'[u] = todo[u]
  BY <1>1, <1>2 DEF Types, Step
<1>7. Types'
  BY <1>1, <1>2, <1>3, <1>5 DEF Types, Keeps
<1>8. Between'
  BY <1>2, <1>4, <1>5, <1>6 DEF IInv, Between, KnowsX86, KnowsArm, Computed
<1>9. Returned'
  BY <1>4, <1>5, <1>6 DEF IInv, Returned
<1>10. Out[t] # NoOut
  BY <1>2 DEF IInv, Returned, Out
<1>11. Out' = [Out EXCEPT ![t] = NoOut]
  BY <1>4, <1>5, OutStep
<1>12. Atomic!Again(t)
  BY <1>1, <1>2, <1>3, <1>10, <1>11 DEF Atomic!Again, Atomic!Pending, Out, NoOut
<1> QED
  BY <1>7, <1>8, <1>9, <1>12 DEF IInv, Correct, Atomic!Next

LEMMA NextCorrect ==
  ASSUME IInv, LoopsBesideReaders, [Next]_vars PROVE Correct
<1>1. CASE UNCHANGED vars
  <2>1. IInv'
    BY <1>1 DEF vars, IInv, Types, Between, Returned, KnowsX86, KnowsArm, Computed
  <2>2. UNCHANGED Atomic!vars
    BY <1>1 DEF vars, Atomic!vars
  <2> QED
    BY <2>1, <2>2 DEF Correct
<1>2. ASSUME NEW t \in Threads, Instruction(t) PROVE Correct
  BY <1>2, LoadStep, StoreStep, XchgStep, CasX86Step, XaddStep, FetchLoadStep, FetchCmpxchgStep,
     LoadExclusiveStep, StoreExclusiveStep, StoreExclusiveFailsStep DEF Instruction
<1> QED
  BY <1>1, <1>2, NextOperationStep DEF Next

-----------------------------------------------------------------------------
(* Linearizability of the code of the atomic builtins: for any number of   *)
(* threads, any values and any operations, on x86_64 and on ARM64, each    *)
(* operation acts on the object in one step and returns what it found      *)
(* there.  The hypothesis is the one the loop of x86_64 needs: its         *)
(* cmpxchg compares with %rax, which the loop does not load.               *)
THEOREM Linearizable == LoopsBesideReaders => (Spec => ImplementsAtomic)
<1> SUFFICES ASSUME LoopsBesideReaders PROVE Spec => ImplementsAtomic
  OBVIOUS
<1>1. Init => Atomic!Init
  <2> SUFFICES ASSUME Init PROVE Atomic!Init
    OBVIOUS
  <2>1. PICK rax \in [Threads -> Stale] : th = [t \in Threads |-> Begin(rax[t])]
    BY DEF Init
  <2>2. \A t \in Threads : th[t].pc = "start"
    BY <2>1, BeginType
  <2> QED
    BY <2>2 DEF Init, Atomic!Init, Atomic!Pending
<1>2. IInv /\ [Next]_vars => IInv' /\ [Atomic!Next]_(Atomic!vars)
  BY NextCorrect DEF Correct
<1> QED
  BY <1>1, <1>2, InitIInv, PTL DEF Spec, ImplementsAtomic, Atomic!Spec
=============================================================================
