----------------------------- MODULE TracedCall -----------------------------
(***************************************************************************)
(* One system call of a tracee as the tracer handles it, on arm64: the     *)
(* cached registers (tracee/reg.c), the two stages of translate_syscall    *)
(* (syscall/syscall.c, enter.c, exit.c), and the client's callbacks with   *)
(* what the interface lets them do (library.c).  Nothing in the repository *)
(* registers a chained call, so that tracee.chain.syscalls is always NULL. *)
(*                                                                         *)
(* A register bank has the system call number, two arguments, the stack    *)
(* and the instruction pointer.  The other arguments are treated as a2 is. *)
(* The result of a call is in a1.  Pointers are numbers: Files has those   *)
(* of the program, and what set_sysarg_data wrote is at the address it     *)
(* returned.  The kernel and the program are the environment.              *)
(***************************************************************************)
EXTENDS Sysnum, Sequences

CONSTANTS Programs,   \* the calls the program may make: [pr, a1, a2]
          Callbacks,  \* what the client may do at a stage: sequences of operations
          Filters,    \* what the filter does with a call: "none", "trace" or "exit"
          Files,      \* pointer -> [status, class, data]: the file a path names
          MaxCalls,   \* bound on the calls the program makes
          MaxRestarts \* bound on the restarts of one of them

\* What the interface offers a callback that changes registers: an argument
\* changed, or data written on the stack for one.
Operation(o) ==
    \/ o.op = "poke" /\ o.reg \in {"a1", "a2"} /\ o.value \in Int
    \/ o.op = "data" /\ o.reg \in {"a1", "a2"} /\ o.size \in Nat \ {0} /\ o.value \in DOMAIN Files

\* The filter names calls of the tables only.
ASSUME TracedCallAssumption ==
    /\ MaxCalls \in Nat /\ MaxRestarts \in Nat
    /\ \A p \in DOMAIN Files :
         p \in Nat \ {0} /\ Files[p].class \in {32, 64} /\ Files[p].status \in Int
    /\ \A p \in Programs : p.a1 \in Int /\ p.a2 \in Int
    /\ \A ops \in Callbacks :
         Len(ops) \in Nat /\ DOMAIN ops = 1..Len(ops) /\ \A n \in 1..Len(ops) : Operation(ops[n])
    /\ \A f \in Filters : {PR_void, "past", "opaque"} \cap DOMAIN f = {}

VARIABLES phase,   \* where the tracee is
          cpu,     \* its registers
          kcall,   \* the call the kernel will execute
          class,   \* 32 or 64: the program it runs
          tracee,  \* what the tracer keeps about it
          data,    \* what was written on its stack: address -> pointer of Files
          filter,
          call     \* the call under way: what was asked, what happened so far

traced == <<phase, cpu, kcall, class, tracee, data, filter, call>>

Regs == {"num", "a1", "a2", "sp", "ip"}
SYSARG_RESULT == "a1"
AfterTrap == 8        \* the address after the trap
SYSTRAP_SIZE == 4
StackTop == 100
NewStack == 200       \* the stack pointer of a program that execve has started
STACK_ALIGNMENT == 16
PR_SET_DUMPABLE == 4
EFAULT == 14
ENOEXEC == 8
Garbage == 7777       \* a value made of two halves of others

(***************************************************************************)
(* Register cache.                                                         *)
(***************************************************************************)
peek_reg(t, r) == t.cur[r]

poke_reg(t, r, v) ==
    IF t.cur[r] = v THEN t ELSE [t EXCEPT !.cur[r] = v, !.changed = TRUE]

save_original(t) == [t EXCEPT !.orig = t.cur, !.changed = FALSE]

get_abi(t) == IF t.mode = 32 THEN "2" ELSE "DEFAULT"
get_sysnum(t, bank) == translate_sysnum("arm64", get_abi(t), bank.num)
set_sysnum(t, pr) == poke_reg(t, "num", detranslate_sysnum("arm64", get_abi(t), pr))

\* Mutant: the stack pointer is not one of the registers put back.
Restored_not_sp(t) == {"num", "a2"}

\* The registers RESTORE puts back: not the first argument, which is the
\* result too.  In the wrong mode the offsets are those of other registers.
Restored(t) == IF t.mode = class THEN {"num", "a2", "sp"} ELSE {"a2"}

restore(t) ==
    [t EXCEPT !.cur = [r \in Regs |->
        CASE r \in Restored(t) -> t.orig[r]
          [] r = SYSARG_RESULT /\ t.mode # class /\ t.cur[r] < 0 -> Garbage
          [] OTHER -> t.cur[r]]]

\* Mutant: the registers are put back whether or not the tracer changed one.
push_regs_always(t) ==
    LET u == IF t.restore THEN restore(t) ELSE t
    IN  cpu' = u.cur /\ tracee' = u /\ kcall' = IF u.cur.num # u.orig.num THEN u.cur.num ELSE kcall

push_regs(t) ==
    LET u == IF t.restore THEN restore(t) ELSE t
    IN  IF ~t.changed THEN UNCHANGED <<cpu, kcall>> /\ tracee' = t
        ELSE /\ cpu' = u.cur
             /\ tracee' = u
             /\ kcall' = IF u.cur.num # u.orig.num THEN u.cur.num ELSE kcall

(***************************************************************************)
(* Data of the tracee.                                                     *)
(***************************************************************************)
\* Mutant: without the check.
alloc_mem_unchecked(t, size) ==
    peek_reg(t, "sp") - ((size - 1) \div STACK_ALIGNMENT + 1) * STACK_ALIGNMENT

\* The address of size bytes on the stack, 0 when they do not fit.  There is
\* no red zone on this architecture.
alloc_mem(t, size) ==
    LET bytes == ((size - 1) \div STACK_ALIGNMENT + 1) * STACK_ALIGNMENT
        sp == peek_reg(t, "sp")
    IN  IF sp <= bytes THEN 0 ELSE sp - bytes

set_sysarg_data(t, size, reg) ==
    LET address == alloc_mem(t, size)
    IN  IF address = 0 THEN t ELSE poke_reg(poke_reg(t, "sp", address), reg, address)

\* What a pointer names: 0 when nothing can be read there.
Named(d, p) == IF p \in DOMAIN d THEN d[p] ELSE IF p \in DOMAIN Files THEN p ELSE 0

get_sysarg_path(t, d, reg) ==
    LET p == peek_reg(t, reg)
    IN  IF p # 0 /\ Named(d, p) = 0 THEN -EFAULT ELSE p

(***************************************************************************)
(* A call made again.                                                      *)
(***************************************************************************)
trap_again(t) == poke_reg(t, "ip", peek_reg(t, "ip") - SYSTRAP_SIZE)

restart_original_syscall(t) ==
    trap_again(poke_reg(poke_reg(poke_reg(t, "a1", t.orig.a1), "a2", t.orig.a2), "num", t.orig.num))

(***************************************************************************)
(* The client's callbacks.                                                 *)
(***************************************************************************)
client_op(s, o) ==
    CASE o.op = "poke"  -> [s EXCEPT !.t = poke_reg(@, o.reg, o.value)]
      [] o.op = "data"  ->
            LET u == set_sysarg_data(s.t, o.size, o.reg)
            IN  [t |-> u, d |-> IF u = s.t THEN s.d
                                ELSE [p \in DOMAIN s.d \cup {u.cur.sp} |->
                                        IF p = u.cur.sp THEN o.value ELSE s.d[p]]]

callback(t, d, ops) ==
    LET done[n \in 0..Len(ops)] ==
          IF n = 0 THEN [t |-> t, d |-> d] ELSE client_op(done[n - 1], ops[n])
    IN  done[Len(ops)]

EnterOps == Callbacks
\* alloc_mem asserts that it is called at the enter stage.
ExitOps == {ops \in Callbacks : \A n \in DOMAIN ops : ops[n].op # "data"}

(***************************************************************************)
(* The enter stage.  in_proot: this wait is for a process the tracer       *)
(* emulates ptrace for.                                                    *)
(***************************************************************************)
translate_execve_enter(t, d) ==
    LET p == get_sysarg_path(t, d, "a1")
        file == Files[Named(d, p)]
    IN  IF p < 0 THEN [t |-> t, status |-> p]
        ELSE IF p = 0 THEN [t |-> t, status |-> -ENOEXEC]
        ELSE [t |-> [t EXCEPT !.load = file.class], status |-> file.status]

\* The calls whose number is replaced with PR_void.
voided(t, pr, in_proot) ==
    \/ pr = "ptrace"
    \/ pr = "wait4" /\ in_proot
    \/ pr = "prctl" /\ peek_reg(t, "a1") = PR_SET_DUMPABLE

enter_by_number(t, d, pr, in_proot) ==
    CASE pr = "execve" -> translate_execve_enter(t, d)
      [] pr = "openat" -> [t |-> t, status |-> get_sysarg_path(t, d, "a2")]
      [] voided(t, pr, in_proot) -> [t |-> set_sysnum(t, PR_void), status |-> 0]
      [] OTHER -> [t |-> t, status |-> 0]

translate_syscall_enter(t, d, in_proot) == enter_by_number(t, d, get_sysnum(t, t.orig), in_proot)

\* Mutant: the error of the translation is only remembered.
refuse_remembers(t, status) == [t EXCEPT !.status = status]

refuse(t, status) ==
    [poke_reg(set_sysnum(t, PR_void), SYSARG_RESULT, status) EXCEPT !.status = status]

no_exit(t) == poke_reg([t EXCEPT !.status = 0], "sp", t.orig.sp)

settle(t) == IF t.how = "CONT" THEN no_exit(t) ELSE t

entered(s) == settle(IF s.status < 0 THEN refuse(s.t, s.status) ELSE [s.t EXCEPT !.status = 1])

EnterAfter(c, s, in_proot) ==
    LET t == entered(s)
    IN  /\ push_regs([t EXCEPT !.in_proot = in_proot])
        /\ data' = c.d
        /\ call' = [call EXCEPT !.error = IF s.status < 0 THEN s.status ELSE @,
                                !.exit = t.how = "SYSCALL",
                                !.touched = t.changed]

EnterWith(c, in_proot) == EnterAfter(c, translate_syscall_enter(c.t, c.d, in_proot), in_proot)

SysEnter(ops, in_proot) ==
    LET t == [tracee EXCEPT !.cur = cpu, !.restore = FALSE]
    IN  /\ phase = "enter"
        /\ in_proot => get_sysnum(t, cpu) = "wait4"
        /\ EnterWith(callback(save_original(t), data, ops), in_proot)
        /\ phase' = "kernel"
        /\ UNCHANGED <<class, filter>>

(***************************************************************************)
(* The kernel.                                                             *)
(***************************************************************************)
PrOf(nr) == translate_sysnum("arm64", IF class = 32 THEN "2" ELSE "DEFAULT", nr)

\* After the call: the exit stage, or the program.
Leave(exit) == phase' = IF exit THEN "exit" ELSE "user"

\* A call that was cancelled leaves the registers as they are.
Skip ==
    /\ phase = "kernel" /\ kcall < 0
    /\ Leave(tracee.status # 0)
    /\ UNCHANGED <<cpu, kcall, class, tracee, data, filter, call>>

Execute ==
    \E result \in {0, -2} :
        /\ phase = "kernel" /\ kcall >= 0
        /\ PrOf(kcall) = "execve" => result # 0
        /\ cpu' = [cpu EXCEPT ![SYSARG_RESULT] = result]
        /\ Leave(tracee.status # 0)
        /\ call' = [call EXCEPT !.ran = @ + 1, !.result = result]
        /\ UNCHANGED <<kcall, class, tracee, data, filter>>

Exec ==
    LET p == Named(data, cpu.a1)
    IN  /\ phase = "kernel" /\ kcall >= 0 /\ PrOf(kcall) = "execve"
        /\ p # 0 /\ Files[p].status = 0
        /\ class' = Files[p].class
        /\ cpu' = [r \in Regs |-> CASE r = "sp" -> NewStack [] r = "ip" -> AfterTrap [] OTHER -> 0]
        /\ data' = <<>>
        /\ Leave(tracee.status # 0)
        /\ call' = [call EXCEPT !.ran = @ + 1, !.result = 0, !.exec = TRUE]
        /\ UNCHANGED <<kcall, tracee, filter>>

(***************************************************************************)
(* The exit stage.  outcome: what the emulation of wait and ptrace says.   *)
(***************************************************************************)
\* The mode is that of the program, before the result is looked at.
translate_execve_exit(t) == [t EXCEPT !.mode = t.load]

exit_by_number(t, pr, outcome) ==
    CASE t.status < 0 -> poke_reg(t, SYSARG_RESULT, t.status)
      [] t.status >= 0 /\ pr = "execve" -> translate_execve_exit(t)
      [] t.status >= 0 /\ pr = "wait4" /\ t.in_proot /\ outcome = "restart" ->
            restart_original_syscall(t)
      [] t.status >= 0 /\ (pr = "ptrace" \/ (pr = "wait4" /\ t.in_proot /\ outcome # "restart")) ->
            poke_reg(t, SYSARG_RESULT, 0)
      [] OTHER -> t

translate_syscall_exit(t, outcome) == exit_by_number(t, get_sysnum(t, t.orig), outcome)

SysExit(ops, outcome) ==
    LET t == [tracee EXCEPT !.cur = cpu, !.restore = TRUE, !.how = "CONT"]
        u == translate_syscall_exit(callback(t, data, ops).t, outcome)
    IN  /\ phase = "exit"
        /\ outcome = "restart" => tracee.in_proot /\ call.restarts < MaxRestarts
        /\ push_regs([u EXCEPT !.status = 0])
        /\ phase' = "user"
        /\ call' = [call EXCEPT !.poked = \E n \in DOMAIN ops : ops[n].op = "poke",
                                !.restarts = @ + (IF outcome = "restart" THEN 1 ELSE 0)]
        /\ UNCHANGED <<class, data, filter>>

(***************************************************************************)
(* The program.  A call that the filter does not report is executed        *)
(* without the tracer and left out.                                        *)
(***************************************************************************)
NoCall == [n |-> 0, asked |-> [r \in Regs |-> 0], error |-> 0, exit |-> FALSE, touched |-> FALSE,
           ran |-> 0, result |-> 0, exec |-> FALSE, poked |-> FALSE, restarts |-> 0]

Stop(flag) ==
    /\ flag # "none"
    /\ phase' = "enter"
    /\ tracee' = [tracee EXCEPT !.how = IF flag = "exit" THEN "SYSCALL" ELSE "CONT"]

FlagOf(nr) == IF PrOf(nr) \in DOMAIN filter THEN filter[PrOf(nr)] ELSE "none"

\* The program makes a call.  Once the tracer takes it for a program of the
\* other class, every register it reads is another one: not modelled.
AppCall(p) ==
    LET nr == detranslate_sysnum("arm64", IF class = 32 THEN "2" ELSE "DEFAULT", p.pr)
        regs == [num |-> nr, a1 |-> p.a1, a2 |-> p.a2, sp |-> cpu.sp, ip |-> AfterTrap]
    IN  /\ phase = "user" /\ cpu.ip = AfterTrap
        /\ call.n < MaxCalls /\ tracee.mode = class
        /\ cpu' = regs
        /\ kcall' = nr
        /\ Stop(FlagOf(nr))
        /\ call' = [NoCall EXCEPT !.n = call.n + 1, !.asked = regs]
        /\ data' = <<>>
        /\ UNCHANGED <<class, filter>>

\* The instruction pointer was moved back: the trap is executed again.
TrapAgain ==
    /\ phase = "user" /\ cpu.ip = AfterTrap - SYSTRAP_SIZE
    /\ cpu' = [cpu EXCEPT !.ip = AfterTrap]
    /\ kcall' = cpu.num
    /\ Stop(FlagOf(cpu.num))
    /\ UNCHANGED <<class, data, filter, call>>

\* The tracee is killed while it is stopped: fetch_regs fails, and nothing is
\* done.
FetchFails ==
    /\ phase \in {"enter", "exit"}
    /\ phase' = "gone"
    /\ UNCHANGED <<cpu, kcall, class, tracee, data, filter, call>>

TracedInit ==
    /\ phase = "user"
    /\ cpu = [num |-> 0, a1 |-> 0, a2 |-> 0, sp |-> StackTop, ip |-> AfterTrap]
    /\ kcall = -1
    /\ class = 64
    /\ tracee = [cur |-> cpu, orig |-> cpu, changed |-> FALSE, restore |-> FALSE, status |-> 0,
                 how |-> "CONT", mode |-> 64, load |-> 64, in_proot |-> FALSE]
    /\ data = <<>>
    /\ filter \in Filters
    /\ call = NoCall

TracedNext ==
    \/ \E p \in Programs : AppCall(p)
    \/ TrapAgain
    \/ \E ops \in EnterOps, in_proot \in BOOLEAN : SysEnter(ops, in_proot)
    \/ Skip
    \/ Execute
    \/ Exec
    \/ \E ops \in ExitOps, outcome \in {"value", "restart"} : SysExit(ops, outcome)
    \/ FetchFails

TracedSpec == TracedInit /\ [][TracedNext]_traced

(***************************************************************************)
(* Properties.                                                             *)
(***************************************************************************)
\* The state of one traced call, its registers and its stages.
TracedTypeOK ==
    /\ phase \in {"user", "enter", "kernel", "exit", "gone"}
    /\ DOMAIN cpu = Regs /\ cpu.sp > 0 /\ cpu.ip \in {AfterTrap, AfterTrap - SYSTRAP_SIZE}
    /\ class \in {32, 64} /\ tracee.mode \in {32, 64} /\ tracee.load \in {32, 64}
    /\ DOMAIN tracee.cur = Regs /\ DOMAIN tracee.orig = Regs
    /\ tracee.how \in {"CONT", "SYSCALL"} /\ tracee.status <= 1
    /\ phase = "exit" => tracee.status # 0

\* The program has got the answer to its call.
Returned == phase = "user" /\ cpu.ip = AfterTrap /\ call.n > 0

\* push_regs: whatever the callbacks did to the registers and the stack at
\* either stage, and however often the call was made again, a call that has an
\* exit stage gives the program back every register but the result; one without
\* gives back its stack pointer only.  A failed execve of a program of the other
\* class is the exception.
RegistersKept ==
    Returned /\ ~call.exec /\ tracee.mode = class =>
        \A r \in (IF call.exit THEN {"num", "a2", "sp"} ELSE {"sp"}) : cpu[r] = call.asked[r]

\* A call that the enter stage refuses never reaches the kernel, with or
\* without an exit stage, and the program gets the error whatever a callback
\* says of the result.
ErrorIsResult ==
    call.error < 0 =>
        /\ call.ran = 0
        /\ Returned => cpu.a1 = call.error

\* A program that execve has started has the stack the kernel made for it, as
\* long as no register was changed at either stage of the execve.
NewStackKept ==
    Returned /\ call.exec /\ ~call.touched /\ ~call.poked => cpu.sp = NewStack

\* The tracer reads the registers of a program of the right class, but for a
\* program that was started by an execve the filter reports without its exit, and
\* after an execve that the kernel refused: translate_execve_exit sets is_aarch32
\* before the result is looked at.
ModeKnown ==
    Returned /\ tracee.mode # class =>
        \/ call.exec /\ ~call.exit
        \/ ~call.exec /\ call.exit /\ PrOf(call.asked.num) = "execve" /\ call.result < 0

\* translate_execve_exit and push_regs: what the tracer has of a program that an
\* execve reported with its exit has started, or that execve left as it was, is
\* true of it, in the cases named above.
NewProgramKnown == NewStackKept /\ ModeKnown

=============================================================================
