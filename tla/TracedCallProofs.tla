-------------------------- MODULE TracedCallProofs --------------------------
(***************************************************************************)
(* Proofs about one traced call (TracedCall), for every program, every     *)
(* client callback and every filter of calls of the tables.                *)
(***************************************************************************)
EXTENDS TracedCall, Lemmas

(***************************************************************************)
(* The inductive invariant.                                                *)
(***************************************************************************)
Bank == [Regs -> Int]
TraceeType ==
    [cur : Bank, orig : Bank, changed : BOOLEAN, restore : BOOLEAN, status : Int,
     how : {"CONT", "SYSCALL"}, mode : {32, 64}, load : {32, 64}, in_proot : BOOLEAN]
CallType ==
    [n : Nat, asked : Bank, error : Int, exit : BOOLEAN, touched : BOOLEAN, ran : Nat,
     result : Int, exec : BOOLEAN, poked : BOOLEAN, restarts : Nat]

DataOK(d) == \A p \in DOMAIN d : p \in Nat \ {0} /\ d[p] \in DOMAIN Files

Typed ==
    /\ phase \in {"user", "enter", "kernel", "exit", "gone"}
    /\ cpu \in Bank /\ kcall \in Int /\ class \in {32, 64}
    /\ tracee \in TraceeType /\ call \in CallType /\ DataOK(data) /\ filter \in Filters

\* The stack and the instruction pointer, and the stages.
Staged ==
    /\ cpu.sp > 0 /\ tracee.orig.sp > 0 /\ cpu.ip \in {AfterTrap, AfterTrap - SYSTRAP_SIZE}
    /\ phase \in {"enter", "kernel", "exit"} => cpu.ip = AfterTrap
    /\ tracee.status <= 1 /\ (phase = "exit" => tracee.status # 0)
    /\ phase \in {"user", "enter"} => tracee.status = 0
    /\ call.n = 0 => phase = "user" /\ cpu.ip = AfterTrap

\* A call before its enter stage: at first, and after a restart.
Asked ==
    /\ call.asked.ip = AfterTrap /\ call.asked.sp > 0 /\ call.asked.num >= 0 /\ call.error <= 0
    /\ phase = "enter" \/ (phase = "user" /\ cpu.ip # AfterTrap) =>
         /\ tracee.mode = class /\ ~call.exec /\ call.error = 0 /\ call.ran = 0
         /\ cpu = [call.asked EXCEPT !.ip = cpu.ip]
         /\ FlagOf(call.asked.num) # "none"
    /\ phase = "enter" => kcall = call.asked.num

\* Between the stages.
InKernel ==
    phase = "kernel" =>
        /\ tracee.orig = call.asked /\ tracee.mode = class
        /\ ~call.exec /\ call.ran = 0 /\ kcall \in {call.asked.num, SYSCALL_AVOIDER}
        /\ call.touched = tracee.changed /\ (~tracee.changed => cpu = call.asked)
        /\ call.exit <=> tracee.status # 0
        /\ ~call.exit => cpu.sp = call.asked.sp
        /\ call.error < 0 => /\ kcall = SYSCALL_AVOIDER /\ cpu.a1 = call.error
                             /\ tracee.status \in {0, call.error}
        /\ call.error = 0 => tracee.status \in {0, 1}
        /\ PrOf(call.asked.num) = "execve" /\ call.error = 0 =>
             kcall = call.asked.num /\ tracee.load = Files[Named(data, cpu.a1)].class
        /\ tracee.in_proot => kcall = SYSCALL_AVOIDER /\ PrOf(call.asked.num) = "wait4"
        /\ FlagOf(call.asked.num) # "none"

NrIn(mode, pr) == detranslate_sysnum("arm64", IF mode = 32 THEN "2" ELSE "DEFAULT", pr)
PrIn(mode, nr) == translate_sysnum("arm64", IF mode = 32 THEN "2" ELSE "DEFAULT", nr)

\* At the exit stage.
Leaving ==
    phase = "exit" =>
        /\ tracee.orig = call.asked /\ call.exit
        /\ ~call.exec => tracee.mode = class /\ (~tracee.changed =>
                           \A r \in Regs \ {"a1"} : cpu[r] = call.asked[r])
        /\ call.touched = tracee.changed
        /\ call.error < 0 => call.ran = 0 /\ tracee.status = call.error
        /\ call.error = 0 => tracee.status = 1
        /\ call.exec => /\ cpu.sp = NewStack /\ tracee.load = class
                        /\ PrIn(tracee.mode, call.asked.num) = "execve" /\ call.error = 0
        /\ PrIn(tracee.mode, call.asked.num) = "execve" /\ ~call.exec /\ call.error = 0 => call.result < 0
        /\ tracee.in_proot => /\ call.ran = 0 /\ ~call.exec
                              /\ FlagOf(call.asked.num) # "none"
                              /\ PrOf(call.asked.num) = "wait4"

Sound ==
    /\ Typed /\ Staged
    /\ call.n > 0 => Asked /\ InKernel /\ Leaving
    /\ RegistersKept /\ ErrorIsResult /\ NewProgramKnown

-----------------------------------------------------------------------------
(***************************************************************************)
(* System call numbers.                                                    *)
(***************************************************************************)
LEMMA Numbers ==
    ASSUME NEW m \in {32, 64}
    PROVE  /\ NrIn(m, PR_void) = SYSCALL_AVOIDER
           /\ \A pr : NrIn(m, pr) \in Int /\ NrIn(m, pr) >= -1
           /\ \A nr \in Int : PrIn(m, nr) \in Sysnums /\ (nr < 0 => PrIn(m, nr) = PR_void)
<1> DEFINE s == IF m = 32 THEN [table |-> sysnums_arm, offset |-> 0]
                ELSE [table |-> sysnums_arm64, offset |-> 0]
<1>1. /\ \A pr : NrIn(m, pr) = index_of(s, pr)
      /\ \A nr : PrIn(m, nr) = entry_of(s, nr)
  BY DEF NrIn, PrIn, translate_sysnum, detranslate_sysnum, get_sysnums
<1>2. /\ s.offset = 0
      /\ PR_void \notin DOMAIN s.table.entries
      /\ DOMAIN s.table.entries \subseteq Sysnums
      /\ \A pr \in DOMAIN s.table.entries : s.table.entries[pr] \in Nat
  <2>1. CASE m = 32
    BY <2>1 DEF sysnums_arm, Table, PR_void, Sysnums
  <2>2. CASE m # 32
    BY <2>2 DEF sysnums_arm64, Table, PR_void, Sysnums
  <2> QED
    BY <2>1, <2>2
<1> HIDE DEF s
<1>3. \A pr : index_of(s, pr) \in Int /\ index_of(s, pr) >= -1
  BY <1>2 DEF index_of, SYSCALL_AVOIDER
<1>4. \A nr \in Int : entry_of(s, nr) \in Sysnums /\ (nr < 0 => entry_of(s, nr) = PR_void)
  <2> TAKE nr \in Int
  <2> DEFINE named == {pr \in DOMAIN s.table.entries : s.table.entries[pr] = nr - s.offset}
  <2>1. CASE named = {}
    BY <1>2, <2>1 DEF entry_of, Sysnums
  <2>2. CASE named # {}
    <3>1. (CHOOSE pr \in named : TRUE) \in Sysnums
      BY <1>2, <2>2
    <3>2. nr < s.offset <=> nr < 0
      BY <1>2
    <3> DEFINE c == CHOOSE pr \in named : TRUE
    <3>3. /\ nr < 0 => entry_of(s, nr) = PR_void
          /\ entry_of(s, nr) \in {PR_void, "past", "opaque", c}
      BY <3>2 DEF entry_of
    <3> HIDE DEF c
    <3> QED
      BY <3>1, <3>3, ZenonT(60) DEF Sysnums, c
  <2> QED
    BY <2>1, <2>2
<1> QED
  BY <1>1, <1>2, <1>3, <1>4 DEF index_of

-----------------------------------------------------------------------------
(***************************************************************************)
(* The register cache.                                                     *)
(***************************************************************************)
\* u has the settings of t: everything but the cached registers.
Like(u, t) ==
    /\ u.orig = t.orig /\ u.restore = t.restore /\ u.status = t.status /\ u.how = t.how
    /\ u.mode = t.mode /\ u.load = t.load /\ u.in_proot = t.in_proot

\* u is t with registers of the set rs changed, if any, and the tracer knows.
Changed(u, t, rs) ==
    /\ u \in TraceeType
    /\ \A r \in Regs \ rs : u.cur[r] = t.cur[r]
    /\ t.changed => u.changed
    /\ ~u.changed => u.cur = t.cur

\* poke_reg changes the register, and nothing else but the mark that says so.
LEMMA PokeReg ==
    ASSUME NEW t \in TraceeType, NEW r \in Regs, NEW v \in Int
    PROVE  LET u == poke_reg(t, r, v)
           IN  Changed(u, t, {r}) /\ Like(u, t) /\ u.cur[r] = v
<1> DEFINE u == poke_reg(t, r, v)
           b == [t.cur EXCEPT ![r] = v]
<1>1. CASE t.cur[r] = v
  BY <1>1 DEF poke_reg, Changed, Like
<1>2. CASE t.cur[r] # v
  <2>1. b \in Bank /\ b[r] = v /\ \A q \in Regs \ {r} : b[q] = t.cur[q]
    BY DEF TraceeType, Bank
  <2>2. u = [t EXCEPT !.cur = b, !.changed = TRUE]
    BY <1>2 DEF poke_reg
  <2> HIDE DEF b, u
  <2>3. u \in TraceeType /\ Like(u, t) /\ u.cur = b /\ u.changed
    <3> DEFINE w == [t EXCEPT !.cur = b]
    <3>1. w \in TraceeType /\ Like(w, t) /\ w.cur = b
      BY <2>1 DEF TraceeType, Like
    <3>2. u = [w EXCEPT !.changed = TRUE]
      BY <2>2
    <3> HIDE DEF w
    <3>3. u \in TraceeType /\ Like(u, w) /\ u.cur = w.cur /\ u.changed
      BY <3>1, <3>2 DEF TraceeType, Like
    <3> QED
      BY <3>1, <3>3 DEF Like
  <2> QED
    BY <2>1, <2>3 DEF Changed, u
<1> QED
  BY <1>1, <1>2

\* Changes one after the other.
LEMMA ChangedAgain ==
    ASSUME NEW u, NEW v, NEW w, NEW rs, NEW qs, Changed(v, u, rs), Changed(w, v, qs), u \in TraceeType
    PROVE  Changed(w, u, rs \cup qs)
  BY DEF Changed

LEMMA LikeAgain ==
    ASSUME NEW u, NEW v, NEW w, Like(v, u), Like(w, v)
    PROVE  Like(w, u)
  BY DEF Like

-----------------------------------------------------------------------------
(***************************************************************************)
(* The callbacks.                                                          *)
(***************************************************************************)
Usable(t) == t \in TraceeType /\ t.cur.sp > 0

\* s is what a callback has left of the tracee t.
After(s, t) ==
    /\ s = [t |-> s.t, d |-> s.d]
    /\ Changed(s.t, t, {"a1", "a2", "sp"}) /\ s.t.cur.sp > 0 /\ DataOK(s.d) /\ Like(s.t, t)

\* The stack or the registers are those of t, if the callback leaves them alone.
Spares(s, t, ops, n) ==
    /\ (\A k \in 1..n : ops[k].op # "data") => s.t.cur.sp = t.cur.sp
    /\ (\A k \in 1..n : ops[k].op \notin {"data", "poke"}) => s.t.cur = t.cur /\ s.t.changed = t.changed

\* set_sysarg_data moves the stack pointer down, and never to 0.
LEMMA SetData ==
    ASSUME NEW t \in TraceeType, t.cur.sp > 0, NEW size \in Nat \ {0}, NEW r \in {"a1", "a2"}
    PROVE  LET u == set_sysarg_data(t, size, r)
           IN  Changed(u, t, {"a1", "a2", "sp"}) /\ Like(u, t) /\ u.cur.sp > 0
<1> DEFINE u == set_sysarg_data(t, size, r)
           a == alloc_mem(t, size)
           v == poke_reg(t, "sp", a)
<1>1. a \in Nat
  BY DEF alloc_mem, peek_reg, STACK_ALIGNMENT, TraceeType, Bank, Regs
<1>2. CASE a = 0
  BY <1>2 DEF set_sysarg_data, Changed, Like
<1>3. CASE a # 0
  <2> HIDE DEF a
  <2>1. Changed(v, t, {"sp"}) /\ Like(v, t) /\ v.cur["sp"] = a
    BY <1>1, PokeReg DEF Regs
  <2> HIDE DEF v
  <2>2. Changed(poke_reg(v, r, a), v, {r}) /\ Like(poke_reg(v, r, a), v)
    <3>1. v \in TraceeType /\ r \in Regs /\ a \in Int
      BY <1>1, <2>1 DEF Changed, Regs
    <3> QED
      BY <3>1, PokeReg
  <2>3. u = poke_reg(v, r, a)
    BY <1>3 DEF set_sysarg_data, a, v
  <2> HIDE DEF u
  <2>4. u.cur["sp"] = a
    BY <2>1, <2>2, <2>3 DEF Changed, Regs
  <2> QED
    BY <1>1, <1>3, <2>1, <2>2, <2>3, <2>4 DEF Changed, Like, u
<1> QED
  BY <1>2, <1>3

LEMMA ClientOp ==
    ASSUME NEW t, Usable(t), NEW s, After(s, t), NEW o, Operation(o)
    PROVE  LET u == client_op(s, o)
           IN  /\ After(u, t)
               /\ o.op # "data" => u.t.cur.sp = s.t.cur.sp
               /\ o.op \notin {"data", "poke"} => u.t.cur = s.t.cur /\ u.t.changed = s.t.changed
<1> DEFINE u == client_op(s, o)
<1>0. t \in TraceeType /\ s.t \in TraceeType
  BY DEF After, Changed, Usable
<1>1. CASE o.op = "poke"
  <2> DEFINE v == poke_reg(s.t, o.reg, o.value)
  <2>1. o.reg \in {"a1", "a2"} /\ o.value \in Int
    BY <1>1 DEF Operation
  <2>2. Changed(v, s.t, {o.reg}) /\ Like(v, s.t)
    <3>1. o.reg \in Regs
      BY <2>1 DEF Regs
    <3> QED
      BY <1>0, <2>1, <3>1, PokeReg
  <2>3. u = [t |-> v, d |-> s.d]
    BY <1>1 DEF client_op, After
  <2> HIDE DEF u, v
  <2>4. v.cur["sp"] = s.t.cur["sp"]
    BY <2>1, <2>2 DEF Changed, Regs
  <2>5. Changed(v, t, {"a1", "a2", "sp"}) /\ Like(v, t)
    BY <1>0, <2>1, <2>2 DEF After, Changed, Like
  <2> QED
    BY <1>1, <2>2, <2>3, <2>4, <2>5 DEF After, u
<1>2. CASE o.op = "data"
  <2> DEFINE v == set_sysarg_data(s.t, o.size, o.reg)
             d == IF v = s.t THEN s.d
                  ELSE [p \in DOMAIN s.d \cup {v.cur.sp} |-> IF p = v.cur.sp THEN o.value ELSE s.d[p]]
  <2>1. o.reg \in {"a1", "a2"} /\ o.size \in Nat \ {0} /\ o.value \in DOMAIN Files /\ s.t.cur.sp > 0
    BY <1>2 DEF Operation, After
  <2>2. Changed(v, s.t, {"a1", "a2", "sp"}) /\ Like(v, s.t) /\ v.cur.sp > 0
    BY <1>0, <2>1, SetData
  <2>3. u = [t |-> v, d |-> d]
    BY <1>2 DEF client_op
  <2> HIDE DEF u, v
  <2>4. DataOK(d)
    <3>1. v \in TraceeType /\ DataOK(s.d)
      BY <2>2 DEF Changed, After
    <3>2. v.cur["sp"] \in Int
      BY <3>1 DEF TraceeType, Bank, Regs
    <3>3. v.cur.sp \in Nat \ {0}
      BY <2>2, <3>2
    <3> QED
      BY <2>1, <3>1, <3>3 DEF DataOK
  <2> HIDE DEF d
  <2>5. Changed(v, t, {"a1", "a2", "sp"}) /\ Like(v, t)
    BY <1>0, <2>2 DEF After, Changed, Like
  <2> QED
    BY <1>2, <2>2, <2>3, <2>4, <2>5 DEF After, u
<1> QED
  BY <1>1, <1>2 DEF Operation

\* What a callback does, operation by operation.
LEMMA CallbackSteps ==
    ASSUME NEW t, NEW d, NEW ops, Len(ops) \in Nat
    PROVE  \E f : /\ f = [n \in 0..Len(ops) |-> IF n = 0 THEN [t |-> t, d |-> d] ELSE client_op(f[n - 1], ops[n])]
                 /\ callback(t, d, ops) = f[Len(ops)]
<1> DEFINE At(f, n) == IF n = 0 THEN [t |-> t, d |-> d] ELSE client_op(f[n - 1], ops[n])
           Is(f, m) == f = [n \in 0..m |-> At(f, n)]
<1>1. ASSUME NEW m \in Nat
      PROVE  \E f : Is(f, m)
  <2> DEFINE N == {k \in Nat : \E f : Is(f, k)}
  <2>1. 0 \in N
    <3>1. Is([n \in 0..0 |-> [t |-> t, d |-> d]], 0)
      OBVIOUS
    <3> QED
      BY <3>1
  <2>2. ASSUME NEW k \in N
        PROVE  k + 1 \in N
    <3>1. PICK f : Is(f, k)
      BY <2>2
    <3> DEFINE g == [n \in 0..(k + 1) |-> IF n = k + 1 THEN client_op(f[k], ops[k + 1]) ELSE f[n]]
    <3>0. k \in Nat /\ \A n \in 0..k : f[n] = At(f, n)
      BY <2>2, <3>1
    <3>2. ASSUME NEW n \in 0..(k + 1)
          PROVE  g[n] = At(g, n)
      <4>1. CASE n = k + 1
        BY <3>0, <4>1
      <4>2. CASE n # k + 1
        <5>1. n \in 0..k /\ (n # 0 => n - 1 \in 0..k)
          BY <3>0, <4>2
        <5>2. g[n] = f[n] /\ (n # 0 => g[n - 1] = f[n - 1])
          BY <3>0, <5>1
        <5> QED
          BY <3>0, <5>1, <5>2
      <4> QED
        BY <4>1, <4>2
    <3>3. Is(g, k + 1)
      <4>1. g = [n \in 0..(k + 1) |-> g[n]]
        OBVIOUS
      <4> HIDE DEF g
      <4> QED
        BY <3>2, <4>1
    <3> HIDE DEF g, Is
    <3> QED
      BY <3>0, <3>3
  <2> HIDE DEF N
  <2>3. N = Nat
    BY <2>1, <2>2, InductionOverNat DEF N
  <2> QED
    BY <2>3 DEF N
<1> DEFINE done == CHOOSE f : Is(f, Len(ops))
<1>2. Is(done, Len(ops))
  BY <1>1
<1>3. callback(t, d, ops) = done[Len(ops)]
  BY DEF callback
<1> HIDE DEF done
<1> QED
  BY <1>2, <1>3

\* Whatever the client does, it has kept the settings, the call number and the
\* instruction pointer, and the tracer knows which registers it has changed.
LEMMA CallbackKeeps ==
    ASSUME NEW t, Usable(t), NEW d, DataOK(d), NEW ops \in Callbacks
    PROVE  /\ After(callback(t, d, ops), t)
           /\ Spares(callback(t, d, ops), t, ops, Len(ops))
<1>0. Len(ops) \in Nat /\ \A n \in 1..Len(ops) : Operation(ops[n])
  BY TracedCallAssumption
<1>1. PICK f : /\ f = [n \in 0..Len(ops) |-> IF n = 0 THEN [t |-> t, d |-> d] ELSE client_op(f[n - 1], ops[n])]
               /\ callback(t, d, ops) = f[Len(ops)]
  BY <1>0, CallbackSteps, SMTT(60)
<1>2. f[0] = [t |-> t, d |-> d] /\ \A n \in 1..Len(ops) : f[n] = client_op(f[n - 1], ops[n])
  BY <1>0, <1>1
<1> DEFINE Good(n) == After(f[n], t) /\ Spares(f[n], t, ops, n)
           N == {n \in Nat : n <= Len(ops) => Good(n)}
<1>3. 0 \in N
  <2>1. After([t |-> t, d |-> d], t)
    BY DEF Usable, After, Changed, Like
  <2>2. Spares([t |-> t, d |-> d], t, ops, 0)
    BY DEF Spares
  <2> QED
    BY <1>2, <2>1, <2>2
<1>4. ASSUME NEW n \in N
      PROVE  n + 1 \in N
  <2>1. SUFFICES ASSUME n + 1 <= Len(ops) PROVE Good(n + 1)
    OBVIOUS
  <2>2. n \in Nat /\ n + 1 \in 1..Len(ops) /\ (n + 1) - 1 = n /\ Good(n)
    BY <1>0, <2>1
  <2> DEFINE o == ops[n + 1]
             s == f[n]
  <2>3. f[n + 1] = client_op(s, o)
    BY <1>2, <2>2
  <2>4. After(s, t) /\ Operation(o)
    BY <1>0, <2>2
  <2>5. (\A k \in 1..(n + 1) : ops[k].op # "data") => o.op # "data" /\ \A k \in 1..n : ops[k].op # "data"
    BY <2>2
  <2>6. (\A k \in 1..(n + 1) : ops[k].op \notin {"data", "poke"}) =>
          o.op \notin {"data", "poke"} /\ \A k \in 1..n : ops[k].op \notin {"data", "poke"}
    BY <2>2
  <2>7. Spares(s, t, ops, n)
    BY <2>2
  <2> HIDE DEF o, s
  <2>8. /\ After(f[n + 1], t)
        /\ o.op # "data" => f[n + 1].t.cur.sp = s.t.cur.sp
        /\ o.op \notin {"data", "poke"} =>
             f[n + 1].t.cur = s.t.cur /\ f[n + 1].t.changed = s.t.changed
    BY <2>3, <2>4, ClientOp
  <2>9. Spares(f[n + 1], t, ops, n + 1)
    BY <2>5, <2>6, <2>7, <2>8 DEF Spares
  <2> QED
    BY <2>8, <2>9
<1> HIDE DEF N
<1>5. N = Nat
  BY <1>3, <1>4, InductionOverNat DEF N
<1>6. Good(Len(ops))
  BY <1>0, <1>5 DEF N
<1> QED
  BY <1>1, <1>6

-----------------------------------------------------------------------------
(***************************************************************************)
(* The actions that leave the registers alone.                             *)
(***************************************************************************)
LEMMA FetchFailsKeeps ==
    ASSUME Sound, FetchFails
    PROVE  Sound'
<1>1. /\ phase \in {"enter", "exit"} /\ phase' = "gone"
      /\ UNCHANGED <<cpu, kcall, class, tracee, data, filter, call>>
  BY DEF FetchFails
<1>2. call.n \in Nat /\ call.n > 0
  BY <1>1 DEF Sound, Typed, CallType, Staged
<1>3. Typed' /\ Staged'
  BY <1>1, <1>2 DEF Sound, Typed, Staged, DataOK
<1>4. Asked' /\ InKernel' /\ Leaving'
  BY <1>1, <1>2 DEF Sound, Asked, InKernel, Leaving
<1>5. RegistersKept' /\ ErrorIsResult' /\ NewProgramKnown'
  BY <1>1 DEF Sound, RegistersKept, ErrorIsResult, NewProgramKnown, NewStackKept, ModeKnown, Returned
<1> QED
  BY <1>3, <1>4, <1>5 DEF Sound

LEMMA SkipKeeps ==
    ASSUME Sound, Skip
    PROVE  Sound'
<1>0. /\ call.n \in Nat /\ call.error \in Int /\ tracee.status \in Int /\ kcall \in Int
      /\ call.n > 0
  BY DEF Sound, Typed, CallType, TraceeType, Skip, Staged
<1>1. /\ phase = "kernel" /\ phase' = (IF tracee.status # 0 THEN "exit" ELSE "user") /\ kcall < 0
      /\ UNCHANGED <<cpu, kcall, class, tracee, data, filter, call>>
  BY DEF Skip, Leave
<1>2. Asked /\ InKernel
  BY <1>0 DEF Sound
<1>3. Typed' /\ Staged'
  BY <1>0, <1>1 DEF Sound, Typed, Staged, DataOK
<1>4. Asked' /\ InKernel'
  BY <1>0, <1>1, <1>2 DEF Sound, Asked, InKernel, Staged
<1>5. Leaving'
  <2>1. call.error = 0 => PrOf(call.asked.num) # "execve"
    BY <1>0, <1>1, <1>2 DEF InKernel, Asked
  <2> QED
    BY <1>0, <1>1, <1>2, <2>1 DEF Leaving, InKernel, Asked, PrOf, PrIn, FlagOf
<1>6. RegistersKept'
  BY <1>0, <1>1, <1>2 DEF Sound, RegistersKept, Returned, InKernel
<1>7. ErrorIsResult'
  BY <1>0, <1>1, <1>2 DEF Sound, ErrorIsResult, Returned, InKernel
<1>8. NewProgramKnown'
  BY <1>0, <1>1, <1>2 DEF Returned, InKernel, NewProgramKnown, NewStackKept, ModeKnown
<1> QED
  BY <1>3, <1>4, <1>5, <1>6, <1>7, <1>8 DEF Sound

-----------------------------------------------------------------------------
(***************************************************************************)
(* The kernel.                                                             *)
(***************************************************************************)
\* A call that the kernel executes is the one that was asked, and the enter
\* stage has not refused it.
LEMMA ExecutedWasAsked ==
    ASSUME Sound, phase = "kernel", kcall >= 0
    PROVE  /\ Asked /\ InKernel /\ call.error = 0 /\ kcall = call.asked.num /\ ~tracee.in_proot
           /\ call.ran = 0 /\ tracee.mode = class /\ tracee.status \in {0, 1} /\ call.n > 0
<1>1. kcall \in Int /\ call.error \in Int /\ call.n \in Nat /\ call.n # 0
  BY DEF Sound, Typed, CallType, Staged
<1>2. Asked /\ InKernel
  BY <1>1 DEF Sound
<1> QED
  BY <1>1, <1>2 DEF Asked, InKernel, SYSCALL_AVOIDER

LEMMA ExecuteKeeps ==
    ASSUME Sound, Execute
    PROVE  Sound'
<1>0. /\ call.n \in Nat /\ call.error \in Int /\ tracee.status \in Int
      /\ call.ran \in Nat /\ cpu \in Bank /\ call \in CallType
  BY DEF Sound, Typed, CallType, TraceeType
<1>1. PICK result \in {0, -2} :
        /\ phase = "kernel" /\ kcall >= 0 /\ phase' = (IF tracee.status # 0 THEN "exit" ELSE "user")
        /\ PrOf(kcall) = "execve" => result # 0
        /\ cpu' = [cpu EXCEPT ![SYSARG_RESULT] = result]
        /\ call' = [call EXCEPT !.ran = @ + 1, !.result = result]
        /\ UNCHANGED <<kcall, class, tracee, data, filter>>
  BY DEF Execute, Leave
<1>2. cpu' \in Bank /\ cpu'["a1"] = result /\ \A r \in Regs \ {"a1"} : cpu'[r] = cpu[r]
  BY <1>0, <1>1 DEF Bank, Regs, SYSARG_RESULT
<1>3. cpu'.sp = cpu.sp /\ cpu'.ip = cpu.ip
  BY <1>2 DEF Regs
<1>4. /\ call' \in CallType /\ call'.result = result
      /\ call'.n = call.n /\ call'.asked = call.asked /\ call'.error = call.error
      /\ call'.exit = call.exit /\ call'.touched = call.touched
      /\ call'.exec = call.exec /\ call'.poked = call.poked
  <2> DEFINE ran == call.ran + 1
  <2>1. ran \in Nat /\ result \in Int
    BY <1>0
  <2>2. call' = [call EXCEPT !.ran = ran, !.result = result]
    BY <1>1
  <2> HIDE DEF ran
  <2> QED
    BY <1>0, <2>1, <2>2 DEF CallType
<1>5. /\ Asked /\ InKernel /\ call.error = 0 /\ kcall = call.asked.num /\ ~tracee.in_proot
      /\ tracee.mode = class /\ tracee.status \in {0, 1} /\ call.n > 0
  BY <1>1, ExecutedWasAsked
<1>6. Typed'
  BY <1>1, <1>2, <1>4 DEF Sound, Typed, DataOK
<1>7. Staged'
  BY <1>0, <1>1, <1>3, <1>4, <1>5 DEF Sound, Staged
<1>8. Asked' /\ InKernel'
  BY <1>0, <1>1, <1>3, <1>4, <1>5 DEF Sound, Asked, InKernel, Staged, AfterTrap
<1>9. Leaving'
  <2>1. PrIn(tracee.mode, call.asked.num) = "execve" => result < 0
    BY <1>1, <1>5 DEF PrIn, PrOf
  <2> QED
    BY <1>1, <1>2, <1>4, <1>5, <2>1 DEF Leaving, InKernel
<1>10. RegistersKept'
  BY <1>0, <1>1, <1>3, <1>4, <1>5 DEF Sound, RegistersKept, Returned, InKernel
<1>11. ErrorIsResult'
  BY <1>4, <1>5 DEF ErrorIsResult
<1>12. NewProgramKnown'
  BY <1>1, <1>4, <1>5 DEF Returned, InKernel, NewProgramKnown, NewStackKept, ModeKnown
<1> QED
  BY <1>6, <1>7, <1>8, <1>9, <1>10, <1>11, <1>12 DEF Sound

LEMMA ExecKeeps ==
    ASSUME Sound, Exec
    PROVE  Sound'
<1> DEFINE p == Named(data, cpu.a1)
<1>0. /\ call.n \in Nat /\ call.error \in Int /\ tracee.status \in Int
      /\ call.ran \in Nat /\ cpu \in Bank /\ call \in CallType
  BY DEF Sound, Typed, CallType, TraceeType
<1>1. /\ phase = "kernel" /\ kcall >= 0 /\ phase' = (IF tracee.status # 0 THEN "exit" ELSE "user")
      /\ PrOf(kcall) = "execve" /\ p # 0
      /\ class' = Files[p].class /\ data' = <<>>
      /\ cpu' = [r \in Regs |-> CASE r = "sp" -> NewStack [] r = "ip" -> AfterTrap [] OTHER -> 0]
      /\ call' = [call EXCEPT !.ran = @ + 1, !.result = 0, !.exec = TRUE]
      /\ UNCHANGED <<kcall, tracee, filter>>
  BY DEF Exec, Leave
<1>2. cpu' \in Bank /\ cpu'["sp"] = NewStack /\ cpu'["ip"] = AfterTrap
  BY <1>1 DEF Bank, Regs, NewStack, AfterTrap
<1>3. class' \in {32, 64}
  <2>1. p \in DOMAIN Files
    BY <1>1 DEF Named, Sound, Typed, DataOK
  <2> QED
    BY <1>1, <2>1, TracedCallAssumption
<1>4. /\ call' \in CallType /\ call'.exec
      /\ call'.n = call.n /\ call'.asked = call.asked /\ call'.error = call.error
      /\ call'.exit = call.exit /\ call'.touched = call.touched /\ call'.poked = call.poked
  <2> DEFINE ran == call.ran + 1
  <2>1. ran \in Nat /\ 0 \in Int
    BY <1>0
  <2>2. call' = [call EXCEPT !.ran = ran, !.result = 0, !.exec = TRUE]
    BY <1>1
  <2> HIDE DEF ran
  <2> QED
    BY <1>0, <2>1, <2>2 DEF CallType
<1>5. /\ Asked /\ InKernel /\ call.error = 0 /\ kcall = call.asked.num /\ ~tracee.in_proot
      /\ tracee.mode = class /\ tracee.status \in {0, 1} /\ call.n > 0
  BY <1>1, ExecutedWasAsked
<1>6. PrOf(call.asked.num) = "execve" /\ PrIn(tracee.mode, call.asked.num) = "execve"
  BY <1>1, <1>5 DEF PrIn, PrOf
<1>7. tracee.load = class' /\ (call.exit <=> tracee.status # 0)
  BY <1>1, <1>5, <1>6 DEF InKernel
<1>8. Typed'
  BY <1>1, <1>2, <1>3, <1>4 DEF Sound, Typed, DataOK
<1>9. Staged'
  BY <1>0, <1>1, <1>2, <1>4, <1>5 DEF Sound, Staged, NewStack
<1>10. Asked' /\ InKernel'
  BY <1>0, <1>1, <1>2, <1>4, <1>5 DEF Asked, InKernel
<1>11. Leaving'
  BY <1>1, <1>2, <1>4, <1>5, <1>6, <1>7 DEF Leaving, InKernel
<1>12. RegistersKept'
  BY <1>4 DEF RegistersKept
<1>13. ErrorIsResult'
  BY <1>4, <1>5 DEF ErrorIsResult
<1>14. NewProgramKnown'
  BY <1>1, <1>2, <1>4, <1>7 DEF Returned, NewProgramKnown, NewStackKept, ModeKnown
<1> QED
  BY <1>8, <1>9, <1>10, <1>11, <1>12, <1>13, <1>14 DEF Sound

-----------------------------------------------------------------------------
(***************************************************************************)
(* The program.                                                            *)
(***************************************************************************)
\* A call that the filter reports has a number of its own.
LEMMA ReportedIsNumbered ==
    ASSUME Sound, NEW nr \in Int, FlagOf(nr) # "none"
    PROVE  nr >= 0
<1>1. class \in {32, 64} /\ filter \in Filters
  BY DEF Sound, Typed
<1>2. PrOf(nr) = PrIn(class, nr)
  BY DEF PrOf, PrIn
<1>3. PR_void \notin DOMAIN filter
  BY <1>1, TracedCallAssumption
<1>4. nr < 0 => PrOf(nr) = PR_void
  BY <1>1, <1>2, Numbers
<1> QED
  BY <1>3, <1>4 DEF FlagOf

\* The tracee stops before a call that is reported.
LEMMA StopEffect ==
    ASSUME Sound, NEW flag, Stop(flag)
    PROVE  /\ tracee' \in TraceeType /\ flag # "none" /\ phase' = "enter"
           /\ tracee'.orig = tracee.orig /\ tracee'.status = tracee.status
           /\ tracee'.mode = tracee.mode
<1>1. tracee \in TraceeType
  BY DEF Sound, Typed
<1> DEFINE how == IF flag = "exit" THEN "SYSCALL" ELSE "CONT"
<1>2. tracee' = [tracee EXCEPT !.how = how] /\ phase' = "enter" /\ flag # "none"
  BY DEF Stop
<1>3. how \in {"CONT", "SYSCALL"}
  OBVIOUS
<1> HIDE DEF how
<1> QED
  BY <1>1, <1>2, <1>3 DEF TraceeType

LEMMA TrapAgainKeeps ==
    ASSUME Sound, TrapAgain
    PROVE  Sound'
<1>0. /\ call.n \in Nat /\ tracee.status \in Int /\ cpu \in Bank
      /\ cpu["num"] \in Int /\ call.asked \in Bank
  BY DEF Sound, Typed, CallType, TraceeType, Bank, Regs
<1>1. /\ phase = "user" /\ cpu.ip = AfterTrap - SYSTRAP_SIZE
      /\ cpu' = [cpu EXCEPT !.ip = AfterTrap] /\ kcall' = cpu.num /\ Stop(FlagOf(cpu.num))
      /\ UNCHANGED <<class, data, filter, call>>
  BY DEF TrapAgain
<1>2. /\ tracee' \in TraceeType /\ phase' = "enter"
      /\ tracee'.orig = tracee.orig /\ tracee'.status = tracee.status /\ tracee'.mode = tracee.mode
  BY <1>1, StopEffect
<1>3. cpu' \in Bank /\ cpu'["ip"] = AfterTrap /\ \A r \in Regs \ {"ip"} : cpu'[r] = cpu[r]
  BY <1>0, <1>1 DEF Bank, Regs, AfterTrap
<1>4. cpu.ip # AfterTrap /\ call.n > 0
  BY <1>0, <1>1 DEF AfterTrap, SYSTRAP_SIZE, Sound, Staged
<1>5. Typed'
  BY <1>0, <1>1, <1>2, <1>3 DEF Sound, Typed, DataOK
<1>6. Staged'
  BY <1>0, <1>1, <1>2, <1>3, <1>4 DEF Sound, Staged, Regs
<1>7. Asked'
  <2>1. /\ tracee.mode = class /\ ~call.exec /\ call.error = 0 /\ call.ran = 0
        /\ cpu = [call.asked EXCEPT !.ip = cpu.ip] /\ FlagOf(call.asked.num) # "none"
        /\ call.asked.ip = AfterTrap /\ call.asked.sp > 0 /\ call.asked.num >= 0
    BY <1>1, <1>4 DEF Sound, Asked
  <2>2. cpu.num = call.asked.num
    BY <1>0, <2>1 DEF Bank, Regs
  <2>3. \A r \in Regs : cpu'[r] = call.asked[r]
    BY <1>0, <1>3, <2>1 DEF Bank, Regs
  <2>4. cpu' = [call.asked EXCEPT !.ip = cpu'.ip]
    BY <1>0, <1>3, <2>3 DEF Bank
  <2>5. FlagOf(call.asked.num) = FlagOf(call.asked.num)'
    BY <1>1 DEF FlagOf, PrOf
  <2> QED
    BY <1>0, <1>1, <1>2, <2>1, <2>2, <2>4, <2>5 DEF Asked
<1>8. InKernel' /\ Leaving'
  BY <1>2 DEF InKernel, Leaving
<1>9. RegistersKept' /\ ErrorIsResult' /\ NewProgramKnown'
  BY <1>1, <1>2 DEF Sound, RegistersKept, ErrorIsResult, NewProgramKnown, NewStackKept, ModeKnown, Returned
<1> QED
  BY <1>5, <1>6, <1>7, <1>8, <1>9 DEF Sound

LEMMA AppCallKeeps ==
    ASSUME Sound, NEW p \in Programs, AppCall(p)
    PROVE  Sound'
<1> DEFINE nr == detranslate_sysnum("arm64", IF class = 32 THEN "2" ELSE "DEFAULT", p.pr)
           regs == [num |-> nr, a1 |-> p.a1, a2 |-> p.a2, sp |-> cpu.sp, ip |-> AfterTrap]
<1>0. call.n \in Nat /\ tracee.status \in Int /\ cpu["sp"] \in Int
  BY DEF Sound, Typed, CallType, TraceeType, Bank, Regs
<1>1. /\ phase = "user" /\ cpu.ip = AfterTrap /\ tracee.mode = class
      /\ cpu' = regs /\ kcall' = nr /\ Stop(FlagOf(nr))
      /\ call' = [NoCall EXCEPT !.n = call.n + 1, !.asked = regs]
      /\ data' = <<>> /\ UNCHANGED <<class, filter>>
  BY DEF AppCall
<1>2. /\ tracee' \in TraceeType /\ phase' = "enter" /\ FlagOf(nr) # "none"
      /\ tracee'.orig = tracee.orig /\ tracee'.status = tracee.status /\ tracee'.mode = tracee.mode
  BY <1>1, StopEffect
<1>3. nr \in Int /\ nr >= 0
  <2>1. class \in {32, 64} /\ nr = NrIn(class, p.pr)
    BY DEF Sound, Typed, NrIn
  <2>2. nr \in Int
    BY <2>1, Numbers
  <2> QED
    BY <1>2, <2>2, ReportedIsNumbered
<1> HIDE DEF nr
<1>4. regs \in Bank /\ regs.num = nr /\ regs.sp = cpu.sp /\ regs.ip = AfterTrap
  BY <1>0, <1>3, TracedCallAssumption DEF Bank, Regs, AfterTrap
<1>5. regs = [regs EXCEPT !.ip = regs.ip]
  OBVIOUS
<1> HIDE DEF regs
<1>6. /\ call' \in CallType /\ call'.n = call.n + 1 /\ call'.asked = regs /\ call'.error = 0
      /\ call'.ran = 0 /\ ~call'.exec
  <2>1. [r \in Regs |-> 0] \in Bank
    BY DEF Bank
  <2>2. NoCall \in CallType
    BY <2>1 DEF NoCall, CallType
  <2>3. call.n + 1 \in Nat
    BY <1>0
  <2>4. call' \in CallType
    BY <1>1, <1>4, <2>2, <2>3 DEF CallType
  <2>5. /\ call'.n = call.n + 1 /\ call'.asked = regs /\ call'.error = 0 /\ call'.ran = 0 /\ ~call'.exec
    BY <1>1 DEF NoCall
  <2> QED
    BY <2>4, <2>5
<1>7. Typed'
  BY <1>1, <1>2, <1>3, <1>4, <1>6 DEF Sound, Typed, DataOK
<1>8. Staged'
  BY <1>0, <1>1, <1>2, <1>4, <1>6 DEF Sound, Staged
<1>9. Asked'
  <2>1. call'.asked.ip = AfterTrap /\ call'.asked.sp > 0 /\ call'.asked.num >= 0
        /\ cpu' = call'.asked /\ kcall' = call'.asked.num
    BY <1>1, <1>3, <1>4, <1>6 DEF Sound, Staged
  <2>2. FlagOf(call.asked.num)' # "none"
    <3>1. call'.asked.num = nr /\ class' = class /\ filter' = filter
      BY <1>1, <1>4, <1>6
    <3>2. FlagOf(call.asked.num)' = FlagOf(nr)
      BY <3>1 DEF FlagOf, PrOf
    <3> QED
      BY <1>2, <3>2
  <2>3. cpu' = [call'.asked EXCEPT !.ip = cpu'.ip]
    BY <1>1, <1>5, <1>6
  <2> QED
    BY <1>1, <1>2, <1>6, <2>1, <2>2, <2>3 DEF Asked
<1>10. InKernel' /\ Leaving'
  BY <1>2 DEF InKernel, Leaving
<1>11. RegistersKept' /\ ErrorIsResult' /\ NewProgramKnown'
  BY <1>2, <1>6 DEF RegistersKept, ErrorIsResult, NewProgramKnown, NewStackKept, ModeKnown, Returned
<1> QED
  BY <1>7, <1>8, <1>9, <1>10, <1>11 DEF Sound

-----------------------------------------------------------------------------
(***************************************************************************)
(* The stages.                                                             *)
(***************************************************************************)
\* The registers that restore puts back, and those it leaves.
LEMMA RestoreEffect ==
    ASSUME NEW t \in TraceeType
    PROVE  LET u == restore(t)
           IN  /\ u \in TraceeType /\ Like(u, t) /\ u.changed = t.changed
               /\ u.cur.ip = t.cur.ip /\ u.cur.a2 = t.orig.a2
               /\ t.mode = class =>
                    u.cur.num = t.orig.num /\ u.cur.sp = t.orig.sp /\ u.cur.a1 = t.cur.a1
               /\ t.mode # class => u.cur.num = t.cur.num /\ u.cur.sp = t.cur.sp
<1> DEFINE u == restore(t)
           b == [r \in Regs |->
                   CASE r \in Restored(t) -> t.orig[r]
                     [] r = SYSARG_RESULT /\ t.mode # class /\ t.cur[r] < 0 -> Garbage
                     [] OTHER -> t.cur[r]]
<1>1. u = [t EXCEPT !.cur = b]
  BY DEF restore
<1>2. t.cur \in Bank /\ t.orig \in Bank
  BY DEF TraceeType
<1>3. /\ b \in Bank /\ b["ip"] = t.cur["ip"] /\ b["a2"] = t.orig["a2"]
      /\ t.mode = class => b["num"] = t.orig["num"] /\ b["sp"] = t.orig["sp"] /\ b["a1"] = t.cur["a1"]
      /\ t.mode # class => b["num"] = t.cur["num"] /\ b["sp"] = t.cur["sp"]
  <2>1. CASE t.mode = class
    BY <1>2, <2>1 DEF Bank, Regs, Restored, Garbage, SYSARG_RESULT
  <2>2. CASE t.mode # class
    BY <1>2, <2>2 DEF Bank, Regs, Restored, Garbage, SYSARG_RESULT
  <2> QED
    BY <2>1, <2>2
<1> HIDE DEF b
<1>4. u \in TraceeType /\ Like(u, t) /\ u.changed = t.changed /\ u.cur = b
  BY <1>1, <1>3 DEF TraceeType, Like
<1> HIDE DEF u
<1> QED
  BY <1>3, <1>4 DEF u

LEMMA PushRegs ==
    ASSUME NEW t \in TraceeType, push_regs(t), cpu \in Bank, kcall \in Int
    PROVE  /\ tracee' \in TraceeType /\ Like(tracee', t)
           /\ tracee'.changed = t.changed
           /\ cpu' \in Bank /\ kcall' \in Int
           /\ ~t.changed => cpu' = cpu /\ kcall' = kcall
           /\ t.changed => kcall' = IF cpu'.num # t.orig.num THEN cpu'.num ELSE kcall
           /\ t.changed /\ ~t.restore => cpu' = t.cur
           /\ t.changed /\ t.restore =>
                /\ cpu'.ip = t.cur.ip /\ cpu'.a2 = t.orig.a2
                /\ t.mode = class =>
                     cpu'.num = t.orig.num /\ cpu'.sp = t.orig.sp /\ cpu'.a1 = t.cur.a1
                /\ t.mode # class => cpu'.num = t.cur.num /\ cpu'.sp = t.cur.sp
<1> DEFINE u == IF t.restore THEN restore(t) ELSE t
<1>1. CASE ~t.changed
  BY <1>1 DEF push_regs, Like
<1>2. CASE t.changed
  <2>1. cpu' = u.cur /\ tracee' = u /\ kcall' = IF u.cur.num # u.orig.num THEN u.cur.num ELSE kcall
    BY <1>2 DEF push_regs
  <2>2. u \in TraceeType /\ Like(u, t) /\ u.changed = t.changed
        /\ (~t.restore => u = t)
        /\ (t.restore => /\ u.cur.ip = t.cur.ip /\ u.cur.a2 = t.orig.a2
                         /\ t.mode = class => /\ u.cur.num = t.orig.num /\ u.cur.sp = t.orig.sp
                                              /\ u.cur.a1 = t.cur.a1
                         /\ t.mode # class => u.cur.num = t.cur.num /\ u.cur.sp = t.cur.sp)
    BY RestoreEffect DEF Like
  <2> HIDE DEF u
  <2>3. u.cur \in Bank /\ u.cur["num"] \in Int /\ u.orig = t.orig
    BY <2>2 DEF TraceeType, Bank, Regs, Like
  <2> QED
    BY <1>2, <2>1, <2>2, <2>3
<1> QED
  BY <1>1, <1>2

\* What a stage begins with: the registers are fetched.
LEMMA Fetched ==
    ASSUME Sound, NEW restoring \in BOOLEAN, NEW how \in {"CONT", "SYSCALL"}
    PROVE  LET t == [tracee EXCEPT !.cur = cpu, !.restore = restoring, !.how = how]
           IN  /\ t \in TraceeType /\ t.cur = cpu /\ t.restore = restoring /\ t.how = how
               /\ t.orig = tracee.orig /\ t.changed = tracee.changed /\ t.status = tracee.status
               /\ t.mode = tracee.mode /\ t.load = tracee.load
               /\ t.in_proot = tracee.in_proot
<1>1. tracee \in TraceeType /\ cpu \in Bank
  BY DEF Sound, Typed
<1> QED
  BY <1>1 DEF TraceeType

\* What the enter stage of a call makes of it, before its result is looked at.
LEMMA Translated ==
    ASSUME NEW b \in TraceeType, NEW d, DataOK(d), NEW in_proot \in BOOLEAN
    PROVE  LET s == translate_syscall_enter(b, d, in_proot)
               pr == PrIn(b.mode, b.orig.num)
           IN  /\ s = [t |-> s.t, status |-> s.status] /\ s.status \in Int
               /\ Changed(s.t, b, {"num"}) /\ s.t.cur.num \in {b.cur.num, SYSCALL_AVOIDER}
               /\ s.t.orig = b.orig /\ s.t.restore = b.restore /\ s.t.status = b.status
               /\ s.t.how = b.how /\ s.t.mode = b.mode /\ s.t.in_proot = b.in_proot
               /\ pr = "execve" => s.t.cur = b.cur /\ s.t.changed = b.changed
               /\ pr = "execve" /\ s.status >= 0 => s.t.load = Files[Named(d, b.cur.a1)].class
               /\ pr = "wait4" /\ in_proot => s.t.cur.num = SYSCALL_AVOIDER /\ s.status = 0
<1> DEFINE pr == PrIn(b.mode, b.orig.num)
           s == translate_syscall_enter(b, d, in_proot)
<1>0. /\ s = enter_by_number(b, d, pr, in_proot)
      /\ b.cur["a1"] \in Int /\ b.cur["a2"] \in Int /\ b.mode \in {32, 64}
  BY DEF translate_syscall_enter, get_sysnum, get_abi, PrIn, TraceeType, Bank, Regs
<1> HIDE DEF pr, s
<1>1. CASE pr = "execve"
  <2> DEFINE p == get_sysarg_path(b, d, "a1")
             file == Files[Named(d, p)]
  <2>1. s = IF p < 0 THEN [t |-> b, status |-> p]
            ELSE IF p = 0 THEN [t |-> b, status |-> -ENOEXEC]
            ELSE [t |-> [b EXCEPT !.load = file.class], status |-> file.status]
    <3>1. s = translate_execve_enter(b, d)
      BY <1>0, <1>1 DEF enter_by_number, voided
    <3> QED
      BY <3>1 DEF translate_execve_enter
  <2>2. p \in Int /\ (p >= 0 => p = b.cur.a1) /\ (p > 0 => Named(d, p) # 0)
    BY <1>0 DEF get_sysarg_path, peek_reg, EFAULT
  <2>3. p > 0 => Named(d, p) \in DOMAIN Files
    BY <2>2 DEF Named, DataOK
  <2>4. p > 0 => file.class \in {32, 64} /\ file.status \in Int
    BY <2>3, TracedCallAssumption
  <2>5. p > 0 => file = Files[Named(d, b.cur.a1)]
    BY <2>2
  <2> HIDE DEF p, file
  <2>6. CASE p <= 0
    <3>1. s.t = b /\ s.status \in Int /\ s.status < 0 /\ s = [t |-> s.t, status |-> s.status]
      BY <2>1, <2>2, <2>6 DEF ENOEXEC
    <3> QED
      BY <1>1, <3>1 DEF Changed, pr, s
  <2>7. CASE p > 0
    <3> DEFINE u == [b EXCEPT !.load = file.class]
    <3>1. s = [t |-> u, status |-> file.status]
      BY <2>1, <2>2, <2>7
    <3>2. u \in TraceeType /\ Changed(u, b, {}) /\ u.load = file.class /\ u.cur = b.cur
          /\ u.orig = b.orig /\ u.restore = b.restore /\ u.status = b.status
          /\ u.how = b.how /\ u.mode = b.mode /\ u.in_proot = b.in_proot
          /\ u.changed = b.changed
      BY <2>4, <2>7 DEF TraceeType, Changed
    <3> HIDE DEF u
    <3> QED
      BY <1>1, <2>4, <2>5, <2>7, <3>1, <3>2 DEF Changed, pr, s
  <2> QED
    BY <2>2, <2>6, <2>7
<1>2. CASE pr # "execve"
  <2> DEFINE u == set_sysnum(b, PR_void)
  <2>1. u = poke_reg(b, "num", SYSCALL_AVOIDER)
    BY <1>0, Numbers DEF set_sysnum, get_abi, NrIn
  <2>2. Changed(u, b, {"num"}) /\ Like(u, b) /\ u.cur["num"] = SYSCALL_AVOIDER
    BY <2>1, PokeReg DEF Regs, SYSCALL_AVOIDER
  <2>3. \/ s.t = b /\ s.status \in Int /\ ~(pr = "wait4" /\ in_proot)
        \/ s.t = u /\ s.status = 0
    BY <1>0, <1>2 DEF enter_by_number, voided, get_sysarg_path, peek_reg, EFAULT
  <2>4. s = [t |-> s.t, status |-> s.status]
    BY <1>0, <1>2 DEF enter_by_number
  <2> HIDE DEF u
  <2>5. CASE s.t = b /\ s.status \in Int /\ ~(pr = "wait4" /\ in_proot)
    BY <1>2, <2>4, <2>5 DEF Changed, pr, s
  <2>6. CASE s.t = u /\ s.status = 0
    BY <1>2, <2>2, <2>4, <2>6 DEF Like, pr, s
  <2> QED
    BY <2>3, <2>5, <2>6
<1> QED
  BY <1>1, <1>2

\* The registers and the status that the enter stage leaves.
LEMMA EnteredEffect ==
    ASSUME NEW b \in TraceeType, NEW status \in Int
    PROVE  LET e == entered([t |-> b, status |-> status])
           IN  /\ Changed(e, b, {"num", "a1", "sp"})
               /\ e.orig = b.orig /\ e.restore = b.restore /\ e.how = b.how /\ e.mode = b.mode
               /\ e.load = b.load
               /\ e.status = IF b.how = "CONT" THEN 0 ELSE IF status < 0 THEN status ELSE 1
               /\ e.cur.a1 = IF status < 0 THEN status ELSE b.cur.a1
               /\ e.cur.num = IF status < 0 THEN SYSCALL_AVOIDER ELSE b.cur.num
               /\ e.cur.sp = IF b.how = "CONT" THEN b.orig.sp ELSE b.cur.sp
<1> DEFINE k == IF status < 0 THEN refuse(b, status) ELSE [b EXCEPT !.status = 1]
           e == entered([t |-> b, status |-> status])
<1>0. b.mode \in {32, 64} /\ b.orig["sp"] \in Int /\ b.how \in {"CONT", "SYSCALL"}
  BY DEF TraceeType, Bank, Regs
<1>1. /\ Changed(k, b, {"num", "a1"})
      /\ k.orig = b.orig /\ k.restore = b.restore /\ k.how = b.how /\ k.mode = b.mode
      /\ k.load = b.load
      /\ k.status = IF status < 0 THEN status ELSE 1
      /\ k.cur.a1 = IF status < 0 THEN status ELSE b.cur.a1
      /\ k.cur.num = IF status < 0 THEN SYSCALL_AVOIDER ELSE b.cur.num
  <2>1. CASE status < 0
    <3> DEFINE u == poke_reg(b, "num", SYSCALL_AVOIDER)
               v == poke_reg(u, "a1", status)
    <3>1. Changed(u, b, {"num"}) /\ Like(u, b) /\ u.cur["num"] = SYSCALL_AVOIDER
      BY PokeReg DEF Regs, SYSCALL_AVOIDER
    <3>2. k = [v EXCEPT !.status = status]
      BY <1>0, <2>1, Numbers DEF refuse, set_sysnum, get_abi, NrIn, SYSARG_RESULT
    <3> HIDE DEF u
    <3>3. Changed(v, u, {"a1"}) /\ Like(v, u) /\ v.cur["a1"] = status
      <4>1. u \in TraceeType /\ "a1" \in Regs
        BY <3>1 DEF Changed, Regs
      <4> QED
        BY <4>1, PokeReg
    <3> HIDE DEF v
    <3>4. Changed(v, b, {"num", "a1"}) /\ Like(v, b)
          /\ v.cur.a1 = status /\ v.cur.num = SYSCALL_AVOIDER
      BY <3>1, <3>3 DEF Changed, Like, Regs
    <3>5. /\ k \in TraceeType /\ k.cur = v.cur /\ k.changed = v.changed /\ k.status = status
          /\ k.orig = v.orig /\ k.restore = v.restore /\ k.how = v.how /\ k.mode = v.mode
          /\ k.load = v.load
      BY <3>2, <3>4 DEF Changed, TraceeType
    <3> HIDE DEF k
    <3> QED
      BY <2>1, <3>4, <3>5 DEF Changed, Like
  <2>2. CASE ~(status < 0)
    <3>1. k = [b EXCEPT !.status = 1]
      BY <2>2
    <3>2. 1 \in Int
      OBVIOUS
    <3>3. k \in TraceeType /\ k.cur = b.cur /\ k.changed = b.changed /\ k.status = 1
          /\ k.orig = b.orig /\ k.restore = b.restore /\ k.how = b.how /\ k.mode = b.mode
          /\ k.load = b.load
      BY <3>1, <3>2 DEF TraceeType
    <3> HIDE DEF k
    <3> QED
      BY <2>2, <3>3 DEF Changed
  <2> QED
    BY <2>1, <2>2
<1>2. e = IF k.how = "CONT" THEN poke_reg([k EXCEPT !.status = 0], "sp", k.orig.sp) ELSE k
  BY DEF entered, settle, no_exit
<1> HIDE DEF k
<1>3. CASE b.how = "CONT"
  <2> DEFINE z == [k EXCEPT !.status = 0]
             v == poke_reg(z, "sp", k.orig.sp)
  <2>1. /\ z \in TraceeType /\ z.cur = k.cur /\ z.changed = k.changed /\ z.status = 0
        /\ z.orig = k.orig /\ z.restore = k.restore /\ z.how = k.how /\ z.mode = k.mode
        /\ z.load = k.load
    BY <1>1 DEF Changed, TraceeType
  <2>2. e = v
    BY <1>1, <1>2, <1>3
  <2> HIDE DEF z
  <2>3. Changed(v, z, {"sp"}) /\ Like(v, z) /\ v.cur["sp"] = b.orig["sp"]
    BY <1>0, <1>1, <2>1, PokeReg DEF Regs
  <2> HIDE DEF v, e
  <2> QED
    BY <1>1, <1>3, <2>1, <2>2, <2>3 DEF Changed, Like, Regs, e
<1>4. CASE b.how = "SYSCALL"
  <2>1. e = k
    BY <1>1, <1>2, <1>4
  <2> HIDE DEF e
  <2> QED
    BY <1>1, <1>4, <2>1 DEF Changed, Regs, e
<1> QED
  BY <1>0, <1>3, <1>4

\* The whole enter stage of a call of the program: e is the tracee after it, d
\* the data on its stack, status what the translation returns.
Requested(e, d, status, in_proot) ==
    /\ status \in Int /\ DataOK(d) /\ data' = d
    /\ push_regs([e EXCEPT !.in_proot = in_proot])
    /\ e \in TraceeType /\ ~e.restore /\ (~e.changed => e.cur = cpu)
    /\ e.orig = cpu /\ e.how = tracee.how /\ e.mode = tracee.mode
    /\ e.status = IF e.how = "CONT" THEN 0 ELSE IF status < 0 THEN status ELSE 1
    /\ e.cur.ip = cpu.ip /\ e.cur.sp > 0 /\ e.cur.num \in {cpu.num, SYSCALL_AVOIDER}
    /\ e.how = "CONT" => e.cur.sp = cpu.sp
    /\ status < 0 => e.cur.a1 = status /\ e.cur.num = SYSCALL_AVOIDER
    /\ PrIn(e.mode, cpu.num) = "execve" /\ status >= 0 =>
         e.cur.num = cpu.num /\ e.load = Files[Named(d, e.cur.a1)].class
    /\ in_proot /\ PrIn(e.mode, cpu.num) = "wait4" => e.cur.num = SYSCALL_AVOIDER
    /\ call' = [call EXCEPT !.error = IF status < 0 THEN status ELSE call.error,
                            !.exit = e.how = "SYSCALL",
                            !.touched = e.changed]

LEMMA RequestedEffect ==
    ASSUME Sound, NEW ops \in EnterOps, NEW in_proot \in BOOLEAN, phase = "enter",
           EnterWith(callback(save_original([tracee EXCEPT !.cur = cpu, !.restore = FALSE]), data, ops),
                     in_proot)
    PROVE  \E e, d, status : Requested(e, d, status, in_proot)
<1> DEFINE t == [tracee EXCEPT !.cur = cpu, !.restore = FALSE]
           z == save_original(t)
           c == callback(z, data, ops)
           s == translate_syscall_enter(c.t, c.d, in_proot)
           e == entered(s)
<1>1. tracee \in TraceeType /\ cpu \in Bank /\ cpu["sp"] > 0 /\ DataOK(data)
  BY DEF Sound, Typed, Staged
<1>2. /\ z \in TraceeType /\ z.cur = cpu /\ z.orig = cpu /\ ~z.changed /\ ~z.restore
      /\ z.how = tracee.how /\ z.mode = tracee.mode
  <2>1. t \in TraceeType /\ t.cur = cpu /\ ~t.restore /\ t.how = tracee.how /\ t.mode = tracee.mode
    BY <1>1 DEF TraceeType
  <2> HIDE DEF t
  <2> QED
    BY <1>1, <2>1 DEF save_original, TraceeType
<1>3. EnterAfter(c, s, in_proot)
  BY DEF EnterWith
<1>4. /\ push_regs([e EXCEPT !.in_proot = in_proot]) /\ data' = c.d
      /\ call' = [call EXCEPT !.error = IF s.status < 0 THEN s.status ELSE call.error,
                              !.exit = e.how = "SYSCALL",
                              !.touched = e.changed]
  BY <1>3 DEF EnterAfter
<1> HIDE DEF z
<1>5. After(c, z)
  <2>1. Usable(z) /\ ops \in Callbacks
    BY <1>1, <1>2 DEF Usable, EnterOps
  <2> QED
    BY <1>1, <2>1, CallbackKeeps
<1> HIDE DEF c
<1>6. /\ c.t \in TraceeType /\ DataOK(c.d)
      /\ c.t.orig = cpu /\ c.t.mode = tracee.mode /\ c.t.how = tracee.how /\ ~c.t.restore
      /\ ~c.t.changed => c.t.cur = cpu
      /\ c.t.cur.num = cpu.num /\ c.t.cur.ip = cpu.ip /\ c.t.cur.sp > 0
  BY <1>2, <1>5 DEF After, Changed, Like, Regs
<1>7. /\ s = [t |-> s.t, status |-> s.status] /\ s.status \in Int
      /\ Changed(s.t, c.t, {"num"}) /\ s.t.cur.num \in {c.t.cur.num, SYSCALL_AVOIDER}
      /\ s.t.orig = cpu /\ ~s.t.restore
      /\ s.t.how = tracee.how /\ s.t.mode = tracee.mode
      /\ PrIn(tracee.mode, cpu.num) = "execve" => s.t.cur = c.t.cur /\ s.t.changed = c.t.changed
      /\ PrIn(tracee.mode, cpu.num) = "execve" /\ s.status >= 0 =>
           s.t.load = Files[Named(c.d, c.t.cur.a1)].class
      /\ PrIn(tracee.mode, cpu.num) = "wait4" /\ in_proot => s.t.cur.num = SYSCALL_AVOIDER /\ s.status = 0
  BY <1>6, Translated
<1> HIDE DEF s
<1>8. /\ Changed(e, s.t, {"num", "a1", "sp"})
      /\ e.orig = cpu /\ ~e.restore /\ e.how = tracee.how /\ e.mode = tracee.mode
      /\ e.load = s.t.load
      /\ e.status = IF e.how = "CONT" THEN 0 ELSE IF s.status < 0 THEN s.status ELSE 1
      /\ e.cur.a1 = IF s.status < 0 THEN s.status ELSE s.t.cur.a1
      /\ e.cur.num = IF s.status < 0 THEN SYSCALL_AVOIDER ELSE s.t.cur.num
      /\ e.cur.sp = IF e.how = "CONT" THEN cpu.sp ELSE s.t.cur.sp
  <2>1. e = entered([t |-> s.t, status |-> s.status]) /\ s.t \in TraceeType
    BY <1>7 DEF Changed
  <2> QED
    BY <1>7, <2>1, EnteredEffect
<1> HIDE DEF e
<1>9. e \in TraceeType /\ (~e.changed => e.cur = cpu) /\ e.cur.ip = cpu.ip /\ e.cur.sp > 0
      /\ e.cur.num \in {cpu.num, SYSCALL_AVOIDER}
  BY <1>1, <1>6, <1>7, <1>8 DEF Changed, Regs
<1>10. PrIn(e.mode, cpu.num) = "execve" /\ s.status >= 0 =>
          e.cur.num = cpu.num /\ e.load = Files[Named(c.d, e.cur.a1)].class
  BY <1>6, <1>7, <1>8
<1>11. in_proot /\ PrIn(e.mode, cpu.num) = "wait4" => e.cur.num = SYSCALL_AVOIDER
  BY <1>7, <1>8
<1>12. Requested(e, c.d, s.status, in_proot)
  BY <1>4, <1>6, <1>7, <1>8, <1>9, <1>10, <1>11 DEF Requested
<1> QED
  BY <1>12

LEMMA SysEnterKeeps ==
    ASSUME Sound, NEW ops \in EnterOps, NEW in_proot \in BOOLEAN, SysEnter(ops, in_proot)
    PROVE  Sound'
<1>0. /\ call \in CallType /\ tracee \in TraceeType /\ cpu \in Bank /\ kcall \in Int
      /\ call.n \in Nat /\ call.n > 0
      /\ phase = "enter" /\ phase' = "kernel" /\ UNCHANGED <<class, filter>>
  <2>1. call \in CallType /\ tracee \in TraceeType /\ cpu \in Bank /\ kcall \in Int /\ call.n \in Nat
    BY DEF Sound, Typed, CallType
  <2>2. phase = "enter" /\ phase' = "kernel" /\ UNCHANGED <<class, filter>>
    BY DEF SysEnter
  <2> QED
    BY <2>1, <2>2 DEF Sound, Staged
<1>s. in_proot => PrIn(tracee.mode, cpu.num) = "wait4"
  <2> DEFINE t == [tracee EXCEPT !.cur = cpu, !.restore = FALSE]
  <2>1. in_proot => get_sysnum(t, cpu) = "wait4"
    BY DEF SysEnter
  <2>2. get_sysnum(t, cpu) = PrIn(tracee.mode, cpu.num)
    BY <1>0 DEF get_sysnum, get_abi, PrIn, TraceeType
  <2> QED
    BY <2>1, <2>2
<1>p. PICK e, d, status : Requested(e, d, status, in_proot)
  <2>1. EnterWith(callback(save_original([tracee EXCEPT !.cur = cpu, !.restore = FALSE]), data, ops),
                  in_proot)
    BY DEF SysEnter
  <2> QED
    BY <1>0, <2>1, RequestedEffect
<1>1. /\ status \in Int /\ DataOK(d) /\ data' = d
      /\ push_regs([e EXCEPT !.in_proot = in_proot])
      /\ e \in TraceeType /\ ~e.restore /\ (~e.changed => e.cur = cpu)
      /\ e.orig = cpu /\ e.how = tracee.how /\ e.mode = tracee.mode
      /\ e.status = IF e.how = "CONT" THEN 0 ELSE IF status < 0 THEN status ELSE 1
      /\ e.cur.ip = cpu.ip /\ e.cur.sp > 0 /\ e.cur.num \in {cpu.num, SYSCALL_AVOIDER}
      /\ e.how = "CONT" => e.cur.sp = cpu.sp
      /\ status < 0 => e.cur.a1 = status /\ e.cur.num = SYSCALL_AVOIDER
      /\ PrIn(e.mode, cpu.num) = "execve" /\ status >= 0 =>
           e.cur.num = cpu.num /\ e.load = Files[Named(d, e.cur.a1)].class
      /\ in_proot /\ PrIn(e.mode, cpu.num) = "wait4" => e.cur.num = SYSCALL_AVOIDER
      /\ call' = [call EXCEPT !.error = IF status < 0 THEN status ELSE call.error,
                              !.exit = e.how = "SYSCALL",
                              !.touched = e.changed]
  BY <1>p DEF Requested
<1>2. Asked
  BY <1>0 DEF Sound
<1>3. /\ cpu = call.asked /\ kcall = call.asked.num /\ call.asked.num >= 0 /\ cpu.ip = AfterTrap
      /\ tracee.mode = class /\ ~call.exec /\ call.error = 0 /\ call.ran = 0
      /\ FlagOf(call.asked.num) # "none"
      /\ call.asked.sp > 0 /\ call.asked.ip = AfterTrap
  <2>1. cpu = [call.asked EXCEPT !.ip = cpu.ip] /\ call.asked.ip = AfterTrap /\ cpu.ip = AfterTrap
    BY <1>0, <1>2 DEF Asked, Sound, Staged
  <2>2. call.asked \in Bank
    BY <1>0 DEF CallType
  <2>3. cpu = call.asked
    BY <2>1, <2>2 DEF Bank
  <2> QED
    BY <1>0, <1>2, <2>1, <2>3 DEF Asked
<1> DEFINE f == [e EXCEPT !.in_proot = in_proot]
<1>4. /\ f \in TraceeType /\ f.cur = e.cur /\ f.orig = e.orig /\ f.changed = e.changed
      /\ f.restore = e.restore /\ f.status = e.status /\ f.how = e.how /\ f.mode = e.mode
      /\ f.load = e.load /\ f.in_proot = in_proot
  BY <1>1 DEF TraceeType
<1> HIDE DEF f
<1>5. push_regs(f)
  BY <1>1 DEF f
<1>6. /\ tracee' \in TraceeType /\ tracee'.orig = cpu /\ tracee'.changed = e.changed
      /\ tracee'.status = e.status /\ tracee'.how = tracee.how /\ tracee'.mode = tracee.mode
      /\ tracee'.load = e.load /\ tracee'.in_proot = in_proot
      /\ cpu' \in Bank /\ kcall' \in Int
      /\ ~e.changed => kcall' = kcall
      /\ e.changed => kcall' = IF cpu'.num # cpu.num THEN cpu'.num ELSE kcall
      /\ cpu' = e.cur
  BY <1>0, <1>1, <1>4, <1>5, PushRegs DEF Like
<1>7. /\ call' \in CallType /\ call'.n = call.n /\ call'.asked = call.asked
      /\ call'.error = (IF status < 0 THEN status ELSE 0) /\ (call'.exit <=> e.how = "SYSCALL")
      /\ call'.touched = e.changed /\ call'.ran = 0 /\ ~call'.exec
  <2> DEFINE err == IF status < 0 THEN status ELSE call.error
             x == e.how = "SYSCALL"
  <2>1. call' = [call EXCEPT !.error = err, !.exit = x, !.touched = e.changed]
    BY <1>1
  <2>2. err \in Int /\ x \in BOOLEAN /\ e.changed \in BOOLEAN
    BY <1>0, <1>1 DEF CallType, TraceeType
  <2>3. err = (IF status < 0 THEN status ELSE 0) /\ (x <=> e.how = "SYSCALL")
    BY <1>3
  <2> HIDE DEF err, x
  <2>4. call' \in CallType
    BY <1>0, <2>1, <2>2 DEF CallType
  <2>5. /\ call'.n = call.n /\ call'.asked = call.asked /\ call'.error = err /\ call'.exit = x
        /\ call'.touched = e.changed /\ call'.ran = call.ran /\ call'.exec = call.exec
    BY <1>0, <2>1 DEF CallType
  <2> QED
    BY <1>3, <2>3, <2>4, <2>5
<1>8. e.how \in {"CONT", "SYSCALL"}
  BY <1>1 DEF TraceeType
<1>9. Typed'
  BY <1>0, <1>1, <1>6, <1>7 DEF Sound, Typed, DataOK
<1>10. Staged'
  BY <1>0, <1>1, <1>3, <1>6, <1>7, <1>8 DEF Staged
<1>11. Asked'
  BY <1>0, <1>1, <1>3, <1>7 DEF Asked
<1>12. InKernel'
  <2>3. /\ PrOf(call.asked.num)' = PrIn(tracee.mode, cpu.num)
        /\ PrOf(call.asked.num)' = PrOf(call.asked.num) /\ FlagOf(call.asked.num)' = FlagOf(call.asked.num)
    BY <1>0, <1>3, <1>7 DEF PrOf, PrIn, FlagOf
  <2>4. /\ kcall' \in {call.asked.num, SYSCALL_AVOIDER}
        /\ e.cur.num = SYSCALL_AVOIDER => kcall' = SYSCALL_AVOIDER
        /\ e.cur.num = cpu.num => kcall' = call.asked.num
    BY <1>1, <1>3, <1>6 DEF SYSCALL_AVOIDER
  <2>5. call'.exit <=> tracee'.status # 0
    BY <1>1, <1>6, <1>7, <1>8
  <2>6. ~call'.exit => cpu'.sp = call'.asked.sp
    BY <1>1, <1>3, <1>6, <1>7, <1>8
  <2>7. call'.error < 0 => kcall' = SYSCALL_AVOIDER /\ cpu'.a1 = call'.error
                           /\ tracee'.status \in {0, call'.error}
    BY <1>1, <1>6, <1>7, <2>4
  <2>8. call'.error = 0 => tracee'.status \in {0, 1}
    BY <1>1, <1>6, <1>7
  <2>9. PrOf(call.asked.num)' = "execve" /\ call'.error = 0 =>
          kcall' = call'.asked.num /\ tracee'.load = Files[Named(data', cpu'.a1)].class
    BY <1>1, <1>3, <1>6, <1>7, <2>3, <2>4
  <2>10. in_proot => kcall' = SYSCALL_AVOIDER /\ PrOf(call.asked.num)' = "wait4"
    BY <1>1, <1>s, <2>3, <2>4
  <2>11. (Named(data, cpu.a1))' = Named(data', cpu'.a1)
    BY DEF Named
  <2> QED
    BY <1>0, <1>1, <1>3, <1>6, <1>7, <2>3, <2>4, <2>5, <2>6, <2>7, <2>8, <2>9, <2>10, <2>11 DEF InKernel
<1>13. Leaving'
  BY <1>0 DEF Leaving
<1>14. RegistersKept' /\ ErrorIsResult' /\ NewProgramKnown'
  BY <1>0, <1>3, <1>7 DEF RegistersKept, ErrorIsResult, NewProgramKnown, NewStackKept, ModeKnown, Returned
<1> QED
  BY <1>9, <1>10, <1>11, <1>12, <1>13, <1>14 DEF Sound

\* What the exit stage makes of the result of a call.
LEMMA ExitTranslated ==
    ASSUME NEW b \in TraceeType, NEW outcome \in {"value", "restart"}
    PROVE  LET u == translate_syscall_exit(b, outcome)
               pr == PrIn(b.mode, b.orig.num)
               again == b.status >= 0 /\ pr = "wait4" /\ b.in_proot /\ outcome = "restart"
           IN  /\ u.orig = b.orig /\ u.restore = b.restore /\ u.status = b.status /\ u.how = b.how
               /\ u.load = b.load /\ u.in_proot = b.in_proot
               /\ u.mode = IF b.status >= 0 /\ pr = "execve" THEN b.load ELSE b.mode
               /\ b.status < 0 => u.cur.a1 = b.status
               /\ b.status >= 0 /\ pr = "execve" => u.cur = b.cur /\ u.changed = b.changed
               /\ ~again => Changed(u, b, {"a1"})
               /\ again => /\ Changed(u, b, {"num", "a1", "a2", "ip"}) /\ u.cur.a1 = b.orig.a1
                           /\ u.cur.a2 = b.orig.a2 /\ u.cur.num = b.orig.num
                           /\ u.cur.ip = b.cur.ip - SYSTRAP_SIZE
<1> DEFINE u == translate_syscall_exit(b, outcome)
           pr == PrIn(b.mode, b.orig.num)
<1>0. /\ u = exit_by_number(b, pr, outcome) /\ b.status \in Int
      /\ b.orig["a1"] \in Int /\ b.orig["a2"] \in Int /\ b.orig["num"] \in Int
  BY DEF translate_syscall_exit, get_sysnum, get_abi, PrIn, TraceeType, Bank, Regs
<1> HIDE DEF pr, u
<1>1. CASE b.status < 0
  <2>1. u = poke_reg(b, "a1", b.status)
    BY <1>0, <1>1 DEF exit_by_number, SYSARG_RESULT
  <2>2. Changed(u, b, {"a1"}) /\ Like(u, b) /\ u.cur["a1"] = b.status
    BY <1>0, <2>1, PokeReg DEF Regs
  <2> QED
    BY <1>0, <1>1, <2>2 DEF Like, u
<1>2. CASE b.status >= 0 /\ pr = "execve"
  <2>1. u = [b EXCEPT !.mode = b.load]
    BY <1>0, <1>2 DEF exit_by_number, translate_execve_exit
  <2>2. /\ u \in TraceeType /\ u.cur = b.cur /\ u.changed = b.changed /\ u.mode = b.load
        /\ u.orig = b.orig /\ u.restore = b.restore /\ u.status = b.status /\ u.how = b.how
        /\ u.load = b.load /\ u.in_proot = b.in_proot
    BY <2>1 DEF TraceeType
  <2> QED
    BY <1>0, <1>2, <2>2 DEF Changed, pr, u
<1>3. CASE b.status >= 0 /\ pr = "wait4" /\ b.in_proot /\ outcome = "restart"
  <2> DEFINE x == poke_reg(b, "a1", b.orig.a1)
             y == poke_reg(x, "a2", b.orig.a2)
             z == poke_reg(y, "num", b.orig.num)
             w == poke_reg(z, "ip", z.cur.ip - SYSTRAP_SIZE)
  <2>1. u = w
    BY <1>0, <1>3 DEF exit_by_number, restart_original_syscall, trap_again, peek_reg
  <2>2. Changed(x, b, {"a1"}) /\ Like(x, b) /\ x.cur["a1"] = b.orig["a1"]
    BY <1>0, PokeReg DEF Regs
  <2> HIDE DEF x
  <2>3. Changed(y, x, {"a2"}) /\ Like(y, x) /\ y.cur["a2"] = b.orig["a2"]
    <3>1. x \in TraceeType /\ "a2" \in Regs
      BY <2>2 DEF Changed, Regs
    <3> QED
      BY <1>0, <3>1, PokeReg
  <2> HIDE DEF y
  <2>4. Changed(z, y, {"num"}) /\ Like(z, y) /\ z.cur["num"] = b.orig["num"]
    <3>1. y \in TraceeType /\ "num" \in Regs
      BY <2>3 DEF Changed, Regs
    <3> QED
      BY <1>0, <3>1, PokeReg
  <2> HIDE DEF z
  <2>5. Changed(w, z, {"ip"}) /\ Like(w, z)
        /\ w.cur["ip"] = z.cur["ip"] - SYSTRAP_SIZE
    <3>1. z \in TraceeType /\ "ip" \in Regs
      BY <2>4 DEF Changed, Regs
    <3>2. z.cur["ip"] - SYSTRAP_SIZE \in Int
      BY <3>1 DEF TraceeType, Bank, SYSTRAP_SIZE
    <3> QED
      BY <3>1, <3>2, PokeReg
  <2> HIDE DEF w
  <2>6. /\ Changed(w, b, {"num", "a1", "a2", "ip"}) /\ Like(w, b)
        /\ w.cur.a1 = b.orig.a1 /\ w.cur.a2 = b.orig.a2 /\ w.cur.num = b.orig.num
        /\ w.cur.ip = b.cur.ip - SYSTRAP_SIZE
    BY <2>2, <2>3, <2>4, <2>5 DEF Changed, Like, Regs
  <2>7. /\ Changed(u, b, {"num", "a1", "a2", "ip"})
        /\ u.orig = b.orig /\ u.restore = b.restore /\ u.status = b.status /\ u.how = b.how
        /\ u.mode = b.mode /\ u.load = b.load /\ u.in_proot = b.in_proot
        /\ u.cur.a1 = b.orig.a1 /\ u.cur.a2 = b.orig.a2 /\ u.cur.num = b.orig.num
        /\ u.cur.ip = b.cur.ip - SYSTRAP_SIZE
    BY <2>1, <2>6 DEF Like
  <2>8. pr # "execve" /\ ~(b.status < 0)
    BY <1>0, <1>3
  <2> QED
    BY <1>3, <2>7, <2>8, Zenon DEF pr, u
<1>4. CASE /\ b.status >= 0 /\ pr # "execve"
           /\ ~(pr = "wait4" /\ b.in_proot /\ outcome = "restart")
  <2>1. u = b \/ u = poke_reg(b, "a1", 0)
    BY <1>0, <1>4 DEF exit_by_number, SYSARG_RESULT
  <2>2. Changed(poke_reg(b, "a1", 0), b, {"a1"}) /\ Like(poke_reg(b, "a1", 0), b)
    BY PokeReg DEF Regs
  <2>3. Changed(u, b, {"a1"}) /\ Like(u, b)
    BY <2>1, <2>2 DEF Changed, Like
  <2> QED
    BY <1>0, <1>4, <2>3 DEF Like, pr, u
<1> QED
  BY <1>0, <1>1, <1>2, <1>3, <1>4

\* What a callback of the exit stage leaves: no data can be written there.
Left(c, ops) ==
    /\ c.t \in TraceeType /\ c.t.restore
    /\ c.t.orig = tracee.orig /\ c.t.status = tracee.status /\ c.t.mode = tracee.mode
    /\ c.t.load = tracee.load /\ c.t.in_proot = tracee.in_proot
    /\ tracee.changed => c.t.changed
    /\ ~c.t.changed => c.t.cur = cpu
    /\ \A r \in {"num", "sp", "ip"} : c.t.cur[r] = cpu[r]
    /\ (\A n \in DOMAIN ops : ops[n].op # "poke") => c.t.cur = cpu /\ c.t.changed = tracee.changed

\* How the exit stage ends, when w is the tracee it leaves.
Exits(w, ops, outcome) ==
    /\ phase = "exit" /\ phase' = "user"
    /\ outcome = "restart" => tracee.in_proot
    /\ push_regs(w)
    /\ call' = [call EXCEPT !.poked = \E n \in DOMAIN ops : ops[n].op = "poke",
                            !.restarts = call.restarts + (IF outcome = "restart" THEN 1 ELSE 0)]
    /\ UNCHANGED <<class, data, filter>>

LEMMA ExitEffect ==
    ASSUME Sound, NEW ops \in ExitOps, NEW outcome \in {"value", "restart"}, SysExit(ops, outcome)
    PROVE  \E c : /\ Left(c, ops)
                  /\ Exits([translate_syscall_exit(c.t, outcome) EXCEPT !.status = 0], ops, outcome)
<1> DEFINE t == [tracee EXCEPT !.cur = cpu, !.restore = TRUE, !.how = "CONT"]
           c == callback(t, data, ops)
<1>1. tracee \in TraceeType /\ cpu \in Bank /\ cpu["sp"] > 0 /\ DataOK(data)
  BY DEF Sound, Typed, Staged, SysExit, TraceeType
<1>2. /\ t \in TraceeType /\ t.cur = cpu /\ t.restore
      /\ t.orig = tracee.orig /\ t.changed = tracee.changed /\ t.status = tracee.status
      /\ t.mode = tracee.mode /\ t.load = tracee.load /\ t.in_proot = tracee.in_proot
  <2>1. TRUE \in BOOLEAN /\ "CONT" \in {"CONT", "SYSCALL"}
    OBVIOUS
  <2> QED
    BY <2>1, Fetched
<1>3. Exits([translate_syscall_exit(c.t, outcome) EXCEPT !.status = 0], ops, outcome)
  BY DEF SysExit, Exits
<1>4. /\ After(c, t) /\ Spares(c, t, ops, Len(ops))
      /\ \A n \in 1..Len(ops) : ops[n].op # "data"
      /\ DOMAIN ops = 1..Len(ops)
  <2> HIDE DEF t, c
  <2>1. Usable(t) /\ ops \in Callbacks
    BY <1>1, <1>2 DEF Usable, ExitOps
  <2>2. \A n \in DOMAIN ops : ops[n].op # "data"
    BY DEF ExitOps
  <2>3. DOMAIN ops = 1..Len(ops)
    BY <2>1, TracedCallAssumption
  <2> QED
    BY <1>1, <2>1, <2>2, <2>3, CallbackKeeps DEF c
<1> HIDE DEF t, c
<1>5. Left(c, ops)
  <2>1. (\A n \in DOMAIN ops : ops[n].op # "poke") => c.t.cur = cpu /\ c.t.changed = tracee.changed
    BY <1>2, <1>4 DEF Spares
  <2>2. c.t.cur["sp"] = cpu["sp"]
    BY <1>2, <1>4 DEF Spares
  <2> QED
    BY <1>2, <1>4, <2>1, <2>2 DEF Left, After, Changed, Like, Regs
<1> QED
  BY <1>3, <1>5

LEMMA ExitCall ==
    ASSUME Sound, NEW w, NEW ops, NEW outcome, Exits(w, ops, outcome)
    PROVE  /\ call' \in CallType /\ call'.n = call.n /\ call'.asked = call.asked
           /\ call'.error = call.error /\ call'.exit = call.exit /\ call'.touched = call.touched
           /\ call'.ran = call.ran /\ call'.result = call.result /\ call'.exec = call.exec
           /\ call'.poked <=> \E n \in DOMAIN ops : ops[n].op = "poke"
<1> DEFINE poked == \E n \in DOMAIN ops : ops[n].op = "poke"
           restarts == call.restarts + (IF outcome = "restart" THEN 1 ELSE 0)
<1>1. call' = [call EXCEPT !.poked = poked, !.restarts = restarts]
  BY DEF Exits
<1>2. call \in CallType
  BY DEF Sound, Typed
<1>3. poked \in BOOLEAN /\ restarts \in Nat
  BY <1>2 DEF CallType
<1>4. poked <=> \E n \in DOMAIN ops : ops[n].op = "poke"
  OBVIOUS
<1> HIDE DEF poked, restarts
<1> QED
  BY <1>1, <1>2, <1>3, <1>4 DEF CallType

LEMMA SysExitKeeps ==
    ASSUME Sound, NEW ops \in ExitOps, NEW outcome \in {"value", "restart"}, SysExit(ops, outcome)
    PROVE  Sound'
<1>e. PICK c : /\ Left(c, ops)
               /\ Exits([translate_syscall_exit(c.t, outcome) EXCEPT !.status = 0], ops, outcome)
  BY ExitEffect
<1> DEFINE u == translate_syscall_exit(c.t, outcome)
           w == [u EXCEPT !.status = 0]
           pr == PrIn(tracee.mode, call.asked.num)
           again == tracee.status >= 0 /\ pr = "wait4" /\ tracee.in_proot /\ outcome = "restart"
<1>0. /\ call \in CallType /\ tracee \in TraceeType /\ cpu \in Bank /\ kcall \in Int
      /\ call.n \in Nat /\ call.error \in Int /\ tracee.status \in Int
      /\ call.n > 0 /\ phase = "exit" /\ call.asked \in Bank
  BY <1>e DEF Sound, Typed, CallType, TraceeType, Staged, Exits
<1>2. Asked /\ Leaving
  BY <1>0 DEF Sound
<1>3. /\ tracee.orig = call.asked /\ call.exit /\ cpu.ip = AfterTrap
      /\ ~call.exec => tracee.mode = class
      /\ ~call.exec /\ ~tracee.changed => cpu.num = call.asked.num /\ cpu.a2 = call.asked.a2
                                          /\ cpu.sp = call.asked.sp
      /\ call.touched = tracee.changed
      /\ call.error < 0 => call.ran = 0 /\ tracee.status = call.error
      /\ call.error = 0 => tracee.status = 1
      /\ call.exec => cpu.sp = NewStack /\ tracee.load = class /\ pr = "execve" /\ call.error = 0
      /\ pr = "execve" /\ ~call.exec /\ call.error = 0 => call.result < 0
      /\ tracee.in_proot => /\ call.ran = 0 /\ ~call.exec /\ FlagOf(call.asked.num) # "none"
                            /\ PrOf(call.asked.num) = "wait4"
      /\ call.asked.ip = AfterTrap /\ call.asked.sp > 0 /\ call.asked.num >= 0 /\ call.error <= 0
  BY <1>0, <1>2 DEF Leaving, Asked, Sound, Staged, Regs
<1>4. /\ c.t \in TraceeType /\ c.t.restore /\ c.t.orig = call.asked
      /\ c.t.status = tracee.status /\ c.t.mode = tracee.mode
      /\ c.t.load = tracee.load /\ c.t.in_proot = tracee.in_proot
      /\ tracee.changed => c.t.changed
      /\ ~c.t.changed => c.t.cur = cpu
      /\ c.t.cur.sp = cpu.sp /\ c.t.cur.ip = cpu.ip
      /\ (\A n \in DOMAIN ops : ops[n].op # "poke") => c.t.cur = cpu /\ c.t.changed = tracee.changed
  BY <1>3, <1>e DEF Left
<1>5. /\ u \in TraceeType /\ u.orig = call.asked /\ u.restore
      /\ u.load = tracee.load /\ u.in_proot = tracee.in_proot
      /\ u.mode = IF tracee.status >= 0 /\ pr = "execve" THEN tracee.load ELSE tracee.mode
      /\ tracee.status < 0 => u.cur.a1 = tracee.status
      /\ tracee.status >= 0 /\ pr = "execve" => u.cur = c.t.cur /\ u.changed = c.t.changed
      /\ c.t.changed => u.changed
      /\ ~u.changed => u.cur = c.t.cur
      /\ u.cur.sp = cpu.sp
      /\ ~again => u.cur.ip = AfterTrap
      /\ again => u.cur.a1 = call.asked.a1 /\ u.cur.ip = AfterTrap - SYSTRAP_SIZE
  BY <1>3, <1>4, ExitTranslated DEF Changed, Regs
<1> HIDE DEF u, pr, again
<1>6. /\ w \in TraceeType /\ w.cur = u.cur /\ w.orig = u.orig /\ w.changed = u.changed
      /\ w.restore /\ w.status = 0 /\ w.mode = u.mode /\ w.load = u.load
  <2>1. 0 \in Int
    OBVIOUS
  <2> QED
    BY <1>5, <2>1 DEF TraceeType
<1>7. Exits(w, ops, outcome)
  BY <1>e DEF u
<1> HIDE DEF w
<1>8. /\ tracee' \in TraceeType /\ tracee'.orig = call.asked /\ tracee'.status = 0
      /\ tracee'.mode = u.mode
      /\ cpu' \in Bank /\ kcall' \in Int
      /\ ~u.changed => cpu' = cpu
      /\ u.changed =>
           /\ cpu'.ip = u.cur.ip /\ cpu'.a2 = call.asked.a2
           /\ u.mode = class => cpu'.num = call.asked.num /\ cpu'.sp = call.asked.sp /\ cpu'.a1 = u.cur.a1
           /\ u.mode # class => cpu'.num = u.cur.num /\ cpu'.sp = u.cur.sp
  <2>1. push_regs(w)
    BY <1>7 DEF Exits
  <2> QED
    BY <1>0, <1>5, <1>6, <2>1, PushRegs DEF Like
<1>9. /\ call' \in CallType /\ call'.n = call.n /\ call'.asked = call.asked
      /\ call'.error = call.error /\ call'.exit = call.exit /\ call'.touched = call.touched
      /\ call'.ran = call.ran /\ call'.result = call.result /\ call'.exec = call.exec
      /\ call'.poked <=> \E n \in DOMAIN ops : ops[n].op = "poke"
  BY <1>7, ExitCall
<1>10. phase' = "user" /\ UNCHANGED <<class, data, filter>>
  BY <1>7 DEF Exits
<1>11. cpu'.sp > 0 /\ cpu'.ip = (IF again THEN AfterTrap - SYSTRAP_SIZE ELSE AfterTrap)
  <2>1. cpu.sp > 0 /\ cpu.ip = AfterTrap
    BY <1>3 DEF Sound, Staged
  <2>2. CASE u.changed
    BY <1>3, <1>5, <1>8, <2>1, <2>2
  <2>3. CASE ~u.changed
    <3>1. u.cur = cpu
      BY <1>4, <1>5, <2>3
    <3> QED
      BY <1>3, <1>5, <1>8, <2>1, <2>3, <3>1
  <2> QED
    BY <2>2, <2>3
<1>12. Typed'
  BY <1>8, <1>9, <1>10 DEF Sound, Typed, DataOK
<1>13. Staged'
  BY <1>0, <1>3, <1>8, <1>9, <1>10, <1>11 DEF Staged
<1>15. again => u.changed /\ u.mode = class /\ ~call.exec /\ call.error = 0 /\ call.ran = 0
                /\ FlagOf(call.asked.num) # "none"
  <2>1. SUFFICES ASSUME again PROVE u.changed /\ u.mode = class /\ ~call.exec /\ call.error = 0
                                    /\ call.ran = 0 /\ FlagOf(call.asked.num) # "none"
    OBVIOUS
  <2>2. u.changed
    BY <1>3, <1>4, <1>5, <2>1 DEF AfterTrap, SYSTRAP_SIZE
  <2>3. tracee.in_proot /\ tracee.status >= 0 /\ pr # "execve"
    BY <2>1 DEF again
  <2> QED
    BY <1>0, <1>3, <1>5, <2>2, <2>3
<1>16. Asked'
  <2>1. again => cpu' = [call'.asked EXCEPT !.ip = cpu'.ip]
    <3>1. again => \A r \in Regs \ {"ip"} : cpu'[r] = call.asked[r]
      BY <1>5, <1>8, <1>15 DEF Regs
    <3> QED
      BY <1>0, <1>8, <1>9, <3>1, SMTT(60) DEF Bank, Regs
  <2>2. FlagOf(call.asked.num)' = FlagOf(call.asked.num)
    BY <1>9, <1>10 DEF FlagOf, PrOf
  <2> QED
    BY <1>3, <1>8, <1>9, <1>10, <1>11, <1>15, <2>1, <2>2 DEF Asked
<1>17. InKernel' /\ Leaving'
  BY <1>10 DEF InKernel, Leaving
<1>18. RegistersKept'
  <2>1. SUFFICES ASSUME ~call.exec, u.mode = class
                 PROVE  cpu'.num = call.asked.num /\ cpu'.a2 = call.asked.a2 /\ cpu'.sp = call.asked.sp
    BY <1>3, <1>8, <1>9, <1>10 DEF RegistersKept
  <2>2. CASE u.changed
    BY <1>8, <2>1, <2>2
  <2>3. CASE ~u.changed
    BY <1>3, <1>4, <1>5, <1>8, <2>1, <2>3
  <2> QED
    BY <2>2, <2>3
<1>19. ErrorIsResult'
  <2>1. SUFFICES ASSUME call.error < 0 PROVE call.ran = 0 /\ cpu'.a1 = call.error
    BY <1>9 DEF ErrorIsResult
  <2>2. tracee.status = call.error /\ ~call.exec /\ u.mode = class /\ u.cur.a1 = call.error
    BY <1>0, <1>3, <1>5, <2>1
  <2>3. CASE u.changed
    BY <1>3, <1>8, <2>1, <2>2, <2>3
  <2>4. CASE ~u.changed
    BY <1>3, <1>4, <1>5, <1>8, <2>1, <2>2, <2>4
  <2> QED
    BY <2>3, <2>4
<1>20. NewStackKept'
  <2>1. SUFFICES ASSUME call.exec, ~call.touched, ~call'.poked PROVE cpu'.sp = NewStack
    BY <1>9 DEF NewStackKept
  <2>2. c.t.cur = cpu /\ ~c.t.changed
    BY <1>3, <1>4, <1>9, <2>1
  <2>3. ~u.changed
    BY <1>0, <1>3, <1>5, <2>1, <2>2
  <2> QED
    BY <1>3, <1>8, <2>1, <2>3
<1>21. ModeKnown'
  <2>1. SUFFICES ASSUME u.mode # class
                 PROVE  PrOf(call.asked.num)' = "execve" /\ ~call.exec /\ call.exit /\ call.result < 0
    BY <1>8, <1>9, <1>10 DEF ModeKnown
  <2>2. tracee.status >= 0 /\ pr = "execve" /\ ~call.exec /\ tracee.mode = class
    BY <1>0, <1>3, <1>5, <2>1
  <2>3. call.error = 0
    BY <1>0, <1>3, <2>2
  <2>4. PrOf(call.asked.num)' = pr
    BY <1>9, <1>10, <2>2 DEF PrOf, PrIn, pr
  <2> QED
    BY <1>3, <2>2, <2>3, <2>4
<1> QED
  BY <1>12, <1>13, <1>16, <1>17, <1>18, <1>19, <1>20, <1>21 DEF Sound, NewProgramKnown

-----------------------------------------------------------------------------
(***************************************************************************)
(* Every step.                                                             *)
(***************************************************************************)
LEMMA InitIsSound ==
    ASSUME TracedInit
    PROVE  Sound
<1> DEFINE zero == [r \in Regs |-> 0]
<1>1. cpu \in Bank /\ cpu["sp"] = StackTop /\ cpu["ip"] = AfterTrap
  BY DEF TracedInit, Bank, Regs, StackTop, AfterTrap
<1>2. tracee \in TraceeType /\ tracee.orig = cpu /\ tracee.status = 0 /\ tracee.mode = 64
  <2>1. 0 \in Int
    OBVIOUS
  <2>2. tracee = [cur |-> cpu, orig |-> cpu, changed |-> FALSE, restore |-> FALSE, status |-> 0,
                  how |-> "CONT", mode |-> 64, load |-> 64, in_proot |-> FALSE]
    BY DEF TracedInit
  <2> QED
    BY <1>1, <2>1, <2>2 DEF TraceeType
<1>3. call \in CallType /\ call.n = 0 /\ call.error = 0
  <2>1. zero \in Bank
    BY DEF Bank
  <2>2. call = NoCall
    BY DEF TracedInit
  <2> QED
    BY <2>1, <2>2 DEF NoCall, CallType
<1>4. phase = "user" /\ kcall = -1 /\ class = 64 /\ data = <<>> /\ filter \in Filters
  BY DEF TracedInit
<1>5. Typed
  BY <1>1, <1>2, <1>3, <1>4 DEF Typed, DataOK
<1>6. Staged
  BY <1>1, <1>2, <1>3, <1>4 DEF Staged, StackTop
<1>7. RegistersKept /\ ErrorIsResult /\ NewProgramKnown
  BY <1>3 DEF RegistersKept, ErrorIsResult, NewProgramKnown, NewStackKept, ModeKnown, Returned
<1> QED
  BY <1>3, <1>5, <1>6, <1>7 DEF Sound

LEMMA NextIsSound ==
    ASSUME Sound, TracedNext
    PROVE  Sound'
  BY AppCallKeeps, TrapAgainKeeps, SysEnterKeeps, SkipKeeps, ExecuteKeeps, ExecKeeps, SysExitKeeps,
     FetchFailsKeeps DEF TracedNext

LEMMA StutterIsSound ==
    ASSUME Sound, UNCHANGED traced
    PROVE  Sound'
<1>1. UNCHANGED <<phase, cpu, kcall, class, tracee, data, filter, call>>
  BY DEF traced
<1>2. Typed' /\ Staged'
  BY <1>1 DEF Sound, Typed, Staged, DataOK
<1>3. (call.n > 0)' => Asked' /\ InKernel' /\ Leaving'
  BY <1>1 DEF Sound, Asked, InKernel, Leaving, PrOf, FlagOf, Named
<1>4. RegistersKept' /\ ErrorIsResult' /\ NewProgramKnown'
  BY <1>1 DEF Sound, RegistersKept, ErrorIsResult, NewProgramKnown, NewStackKept, ModeKnown,
              Returned, PrOf
<1> QED
  BY <1>2, <1>3, <1>4 DEF Sound

-----------------------------------------------------------------------------
(***************************************************************************)
(* The theorems.                                                           *)
(***************************************************************************)
\* Sound is an invariant of the stages of a traced call, whatever the program
\* asks, whatever the client's callbacks do and whatever the filter reports.
THEOREM TracedSound == TracedSpec => []Sound
  BY InitIsSound, NextIsSound, StutterIsSound, PTL DEF TracedSpec

\* The state of a traced call is well formed: among others, no exit stage is
\* entered for a call whose status says that none was wanted.
THEOREM TracedTyped == TracedSpec => []TracedTypeOK
<1>1. ASSUME Sound
      PROVE  TracedTypeOK
  <2>1. tracee \in TraceeType /\ cpu \in Bank
    BY <1>1 DEF Sound, Typed
  <2>2. DOMAIN cpu = Regs /\ DOMAIN tracee.cur = Regs /\ DOMAIN tracee.orig = Regs
        /\ tracee.mode \in {32, 64} /\ tracee.load \in {32, 64} /\ tracee.how \in {"CONT", "SYSCALL"}
    BY <2>1 DEF TraceeType, Bank
  <2> QED
    BY <1>1, <2>2 DEF Sound, Typed, Staged, TracedTypeOK
<1> QED
  BY <1>1, TracedSound, PTL

\* push_regs and the two stages: the program gets its registers back, all but
\* the result of a call with an exit stage, the stack pointer of one without.
THEOREM RegistersKeptHolds == TracedSpec => []RegistersKept
<1>1. Sound => RegistersKept
  BY DEF Sound
<1> QED
  BY <1>1, TracedSound, PTL

\* translate_syscall: a call refused at its enter stage is never executed and
\* its error is what the program gets.
THEOREM ErrorIsResultHolds == TracedSpec => []ErrorIsResult
<1>1. Sound => ErrorIsResult
  BY DEF Sound
<1> QED
  BY <1>1, TracedSound, PTL

\* translate_execve_exit and push_regs: the stack pointer of a new program is
\* the kernel's, and the tracer knows the class of the program that runs, but
\* for an execve that failed or that the filter reported without its exit.
THEOREM NewProgramKnownHolds == TracedSpec => []NewProgramKnown
<1>1. Sound => NewProgramKnown
  BY DEF Sound
<1> QED
  BY <1>1, TracedSound, PTL

=============================================================================
