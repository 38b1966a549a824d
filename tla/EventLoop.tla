----------------------------- MODULE EventLoop -----------------------------
(***************************************************************************)
(* The tracer's event loop (tracee/event.c), the life of a Tracee          *)
(* structure (tracee/tracee.c) and the two stages of a system call         *)
(* (syscall/syscall.c), together with the part of the kernel they drive:   *)
(* a traced process runs, enters system calls, meets the seccomp filter,   *)
(* forks, is signalled and dies, and stops for the tracer on the way.      *)
(*                                                                         *)
(* One iteration of event_loop is one action: waitpid takes the event of   *)
(* one process, handle_tracee_event computes what to do and restart_tracee *)
(* resumes the process.  The loop is single-threaded, so iterations never  *)
(* overlap; the traced processes run between and during them.  A process   *)
(* killed while its event is being handled makes every ptrace request on   *)
(* it fail: that is the parameter "alive" of the handlers.                 *)
(*                                                                         *)
(* What the tracer gains from seccomp is that only filtered system calls   *)
(* stop; the price is that one stop may be an entry or an exit depending   *)
(* on what the tracer remembers in Tracee.status.  The properties of the   *)
(* module are about that memory and the kernel staying in step.            *)
(*                                                                         *)
(* An event of a ptracee (a tracee with an emulated ptracer) is handled    *)
(* and restarted like the others: what its ptracer does with it meanwhile  *)
(* only delays the restart, and is the subject of another module.  Of the  *)
(* bare SIGTRAPs only the first stop of a root is modelled.                *)
(***************************************************************************)
EXTENDS Naturals

CONSTANTS Proc,          \* process identifiers
          Roots,         \* the processes handed to trace_new_pid
          NoProc,        \* the NULL Tracee pointer
          Sys,           \* the kinds of system calls the processes make
          KernelSeccomp  \* may the kernel accept PTRACE_O_TRACESECCOMP, refuse it?

(***************************************************************************)
(* "plain", "fork", "exit" and "install" are not in the filter ("install"  *)
(* is the prctl of tracee_init that loads it); "enter" is filtered with    *)
(* flags 0, the others with FILTER_SYSEXIT.                                *)
(***************************************************************************)
SysKinds == {"plain", "enter", "both", "execve", "traceme", "fork",
             "install", "exit"}

ASSUME EventLoopAssumption ==
    /\ Roots \subseteq Proc
    /\ NoProc \notin Proc
    /\ Sys \subseteq SysKinds
    /\ KernelSeccomp \subseteq BOOLEAN

Filtered(s) == s \in {"enter", "both", "execve", "traceme"}
FilterSysexit(s) == s \in {"both", "execve", "traceme"}

VARIABLES
    \* the kernel's view of each process
    at,      \* where it is: see Places
    ev,      \* the event waitpid would report for it, or "none"
    sys,     \* the system call it is in, or made last
    tif,     \* last resumed with PTRACE_SYSCALL (not PTRACE_CONT)
    opts,    \* its ptrace options: "none", "nosec" or "sec"(comp)
    filter,  \* has it loaded, or inherited, the seccomp filter?
    msg,     \* PTRACE_GETEVENTMSG of its fork event: the new process
    \* the tracer
    T,       \* its list of Tracee structures
    tracer,  \* "running", "exited" or "crashed"
    \* history, read by no action
    birth,   \* how the tracer met the process: see Births
    enters,  \* on_sysenter callbacks of the current system call
    exits    \* on_sysexit callbacks of the current system call

kernel == <<at, ev, sys, tif, opts, filter, msg>>
history == <<birth, enters, exits>>
vars == <<at, ev, sys, tif, opts, filter, msg, T, tracer, birth, enters, exits>>

Places == {"absent", "untraced", "user", "entry", "filter", "body", "after",
           "leave", "dying", "dead"}
Events == {"none", "sigstop", "signal", "sigtrap", "sysgood", "seccomp",
           "clone", "note", "gone"}
Births == {"unknown", "pending", "announced", "early", "late"}

(***************************************************************************)
(* struct tracee.  "listed" is membership of the tracees list; status is 0 *)
(* when the next stage is sysenter and 1 (or -errno) when it is sysexit.   *)
(***************************************************************************)
TraceeType ==
    [listed : BOOLEAN, terminated : BOOLEAN, is_root : BOOLEAN,
     parent : Proc \cup {NoProc}, ptracer : Proc \cup {NoProc},
     status : {0, 1}, seccomp : {"DISABLED", "DISABLING", "ENABLED"},
     sysexit_pending : BOOLEAN, restart_how : {"none", "CONT", "SYSCALL"},
     sigstop : {"IGNORED", "ALLOWED"}, deliver_sigtrap : BOOLEAN,
     seccomp_enabled : BOOLEAN, seccomp_detected : BOOLEAN]

NoTracee ==
    [listed |-> FALSE, terminated |-> FALSE, is_root |-> FALSE,
     parent |-> NoProc, ptracer |-> NoProc,
     status |-> 0, seccomp |-> "DISABLED",
     sysexit_pending |-> FALSE, restart_how |-> "none",
     sigstop |-> "IGNORED", deliver_sigtrap |-> FALSE,
     seccomp_enabled |-> FALSE, seccomp_detected |-> FALSE]

NewTracee == [NoTracee EXCEPT !.listed = TRUE]

TypeOK ==
    /\ at \in [Proc -> Places]
    /\ ev \in [Proc -> Events]
    /\ sys \in [Proc -> SysKinds]
    /\ tif \in [Proc -> BOOLEAN]
    /\ opts \in [Proc -> {"none", "nosec", "sec"}]
    /\ filter \in [Proc -> BOOLEAN]
    /\ msg \in [Proc -> Proc \cup {NoProc}]
    /\ T \in [Proc -> TraceeType]
    /\ tracer \in {"running", "exited", "crashed"}
    /\ birth \in [Proc -> Births]
    /\ enters \in [Proc -> 0..2]
    /\ exits \in [Proc -> 0..2]

Init ==
    /\ at = [p \in Proc |-> IF p \in Roots THEN "untraced" ELSE "absent"]
    /\ ev = [p \in Proc |-> "none"]
    /\ sys = [p \in Proc |-> "plain"]
    /\ tif = [p \in Proc |-> FALSE]
    /\ opts = [p \in Proc |-> "none"]
    /\ filter = [p \in Proc |-> FALSE]
    /\ msg = [p \in Proc |-> NoProc]
    /\ T = [p \in Proc |-> NoTracee]
    /\ tracer = "running"
    /\ birth = [p \in Proc |-> "unknown"]
    /\ enters = [p \in Proc |-> 0]
    /\ exits = [p \in Proc |-> 0]

-----------------------------------------------------------------------------
(***************************************************************************)
(* The kernel.  A process that has an event is stopped (or dead) until the *)
(* tracer has taken the event and resumed it.                              *)
(***************************************************************************)
Runs(p, place) == tracer = "running" /\ at[p] = place /\ ev[p] = "none"

\* Without PTRACE_O_TRACESYSGOOD a syscall stop is a bare SIGTRAP.
SyscallStop(p) == IF opts[p] = "none" THEN "sigtrap" ELSE "sysgood"

Move(p, place, event) ==
    /\ at' = [at EXCEPT ![p] = place]
    /\ ev' = [ev EXCEPT ![p] = event]

\* A process in user mode calls the kernel.
EnterKernel(p, s) ==
    /\ Runs(p, "user")
    /\ Move(p, "entry", IF tif[p] THEN SyscallStop(p) ELSE "none")
    /\ sys' = [sys EXCEPT ![p] = s]
    /\ enters' = [enters EXCEPT ![p] = 0]
    /\ exits' = [exits EXCEPT ![p] = 0]
    /\ UNCHANGED <<tif, opts, filter, msg, T, tracer, birth>>

\* The seccomp filter is run after the syscall-enter stop (Linux >= 4.8).
MeetFilter(p) ==
    /\ Runs(p, "entry")
    /\ IF filter[p] /\ Filtered(sys[p])
         THEN Move(p, "filter", "seccomp")
         ELSE Move(p, "body", "none")
    /\ UNCHANGED <<sys, tif, opts, filter, msg, T, tracer, history>>

\* The call itself; a failed fork or execve causes no event.
Execute(p) ==
    /\ Runs(p, "body")
    /\ sys[p] # "exit"
    /\ Move(p, "after", "none")
    /\ filter' = [filter EXCEPT ![p] = @ \/ (sys[p] = "install" /\ opts[p] = "sec")]
    /\ UNCHANGED <<sys, tif, opts, msg, T, tracer, history>>

\* PTRACE_EVENT_EXEC comes between the two stages of execve.
Exec(p) ==
    /\ Runs(p, "body")
    /\ sys[p] = "execve"
    /\ Move(p, "after", "note")
    /\ UNCHANGED <<sys, tif, opts, filter, msg, T, tracer, history>>

(***************************************************************************)
(* History: how the tracer meets a process.  "pending": its fork event is  *)
(* still to be handled; "announced": it was, before the process was first  *)
(* resumed; "early": the process was resumed first; "late": it runs under  *)
(* a structure that does not come from its own fork event in time (the     *)
(* event came after it ran, its pid was known from somebody else's event,  *)
(* or its parent is itself late).                                          *)
(***************************************************************************)
Mistakable(p, c) ==
    \/ T[c].listed /\ ~T[c].terminated
    \/ \E q \in Proc \ {p} : ev[q] = "clone" /\ msg[q] = c

\* The child is attached to the tracer and stopped by a SIGSTOP, the parent
\* stops with PTRACE_EVENT_(V)FORK or CLONE; waitpid may report either first.
Fork(p, c) ==
    /\ Runs(p, "body")
    /\ sys[p] = "fork"
    /\ at[c] = "absent"
    /\ at' = [at EXCEPT ![p] = "after", ![c] = "user"]
    /\ ev' = [ev EXCEPT ![p] = "clone", ![c] = "sigstop"]
    /\ msg' = [msg EXCEPT ![p] = c]
    /\ tif' = [tif EXCEPT ![c] = FALSE]
    /\ opts' = [opts EXCEPT ![c] = opts[p]]
    /\ filter' = [filter EXCEPT ![c] = filter[p]]
    /\ sys' = [sys EXCEPT ![c] = "fork"]
    /\ birth' = [birth EXCEPT ![c] = IF Mistakable(p, c) THEN "late" ELSE "pending"]
    /\ enters' = [enters EXCEPT ![c] = 0]
    /\ exits' = [exits EXCEPT ![c] = 0]
    /\ UNCHANGED <<T, tracer>>

\* PTRACE_EVENT_EXIT, then the death itself.
Exit(p) ==
    /\ Runs(p, "body")
    /\ sys[p] = "exit"
    /\ Move(p, "dying", "note")
    /\ UNCHANGED <<sys, tif, opts, filter, msg, T, tracer, history>>

Die(p) ==
    /\ Runs(p, "dying")
    /\ Move(p, "dead", "gone")
    /\ UNCHANGED <<sys, tif, opts, filter, msg, T, tracer, history>>

\* The end of a system call: a syscall-exit stop, or straight to user mode.
Leave(p) ==
    /\ Runs(p, "after")
    /\ IF tif[p] THEN Move(p, "leave", SyscallStop(p)) ELSE Move(p, "user", "none")
    /\ UNCHANGED <<sys, tif, opts, filter, msg, T, tracer, history>>

\* Any signal but the SIGSTOP that announces a tracee.
GetSignal(p) ==
    /\ Runs(p, "user")
    /\ ev' = [ev EXCEPT ![p] = "signal"]
    /\ UNCHANGED <<at, sys, tif, opts, filter, msg, T, tracer, history>>

\* SIGKILL: whatever the process was stopped for is replaced by its death.
Killed(p) ==
    /\ tracer = "running"
    /\ at[p] \notin {"absent", "untraced", "dead"}
    /\ Move(p, "dead", "gone")
    /\ UNCHANGED <<sys, tif, opts, filter, msg, T, tracer, history>>

-----------------------------------------------------------------------------
(***************************************************************************)
(* Wrong versions of the definitions below, one plausible bug each: with   *)
(* any of them in its place a property of this module fails.               *)
(***************************************************************************)

\* event.c without the test of sysexit_pending in the default restart.
DefaultIgnoresPending(t) ==
    IF t.restart_how # "none" THEN t
    ELSE [t EXCEPT !.restart_how = IF t.seccomp = "ENABLED" THEN "CONT" ELSE "SYSCALL"]

\* The acceleration switched on though the kernel refused it.
DetectUntested(t) ==
    IF ~t.seccomp_detected
      THEN [t EXCEPT !.seccomp = "ENABLED", !.seccomp_detected = TRUE]
      ELSE t

\* PTRACE_TRACEME leaving the acceleration on.
TracemeKeepsSeccomp(t) ==
    IF t.ptracer # NoProc THEN t ELSE [t EXCEPT !.ptracer = t.parent]

\* translate_syscall counting stages.
TranslateSyscallCounts(t, s) ==
    [t EXCEPT !.status = IF t.restart_how = "CONT" THEN @ ELSE @ + 1]

\* translate_syscall expecting the exit stage of a call restarted with CONT.
TranslateSyscallAlwaysToggles(t, s) == [t EXCEPT !.status = 1 - @]

\* The exit stage leaving sysexit_pending set.
SysexitKeepsPending(t) ==
    IF t.seccomp # "ENABLED" THEN t
    ELSE IF t.status = 0 THEN [t EXCEPT !.restart_how = "SYSCALL", !.sysexit_pending = TRUE]
         ELSE [t EXCEPT !.restart_how = "CONT"]

\* new_child not copying sysexit_pending.
InheritForgetsPending(child, t, p) ==
    [child EXCEPT !.seccomp = t.seccomp, !.restart_how = t.restart_how, !.parent = p]

-----------------------------------------------------------------------------
(***************************************************************************)
(* free_terminated_tracees, run before each waitpid: remove_tracee unlinks *)
(* the structure and makes its children orphans and its ptracees free.     *)
(***************************************************************************)
Gone(q) == q # NoProc /\ T[q].terminated

FreeTerminated ==
    [q \in Proc |->
        IF T[q].terminated THEN NoTracee
        ELSE [T[q] EXCEPT !.parent = IF Gone(@) THEN NoProc ELSE @,
                          !.ptracer = IF Gone(@) THEN NoProc ELSE @]]

\* get_tracee(NULL, pid, true): the structure of p, allocated if need be.
Lookup(tracees, p) == IF tracees[p].listed THEN tracees[p] ELSE NewTracee

\* The default way to restart, unless it was set elsewhere.
Default(t) ==
    IF t.restart_how # "none" THEN t
    ELSE [t EXCEPT !.restart_how =
            IF t.seccomp = "ENABLED" /\ ~t.sysexit_pending THEN "CONT" ELSE "SYSCALL"]

\* What an iteration of the loop knows of p when it starts to handle its event.
Current(p) == Default(Lookup(FreeTerminated, p))

(***************************************************************************)
(* translate_ptrace_exit for PTRACE_TRACEME: the parent becomes the        *)
(* ptracer and acceleration is switched off.                               *)
(***************************************************************************)
Traceme(t) ==
    IF t.ptracer # NoProc THEN t
    ELSE [t EXCEPT !.ptracer = t.parent,
                   !.seccomp = IF @ = "ENABLED" THEN "DISABLING" ELSE @]

\* translate_syscall: the stage is what status says it is.
TranslateSyscall(t, s) ==
    IF t.status = 0
      THEN [t EXCEPT !.status = IF t.restart_how = "CONT" THEN 0 ELSE 1]
      ELSE [(IF s = "traceme" THEN Traceme(t) ELSE t) EXCEPT !.status = 0]

\* "case SIGTRAP | 0x80": restart_how and sysexit_pending before the stage...
Sysexit(t) ==
    IF t.seccomp # "ENABLED" THEN t
    ELSE IF t.status = 0 THEN [t EXCEPT !.restart_how = "SYSCALL", !.sysexit_pending = TRUE]
         ELSE [t EXCEPT !.restart_how = "CONT", !.sysexit_pending = FALSE]

\* ... and seccomp after it.
CommonFlow(t, s, alive) ==
    IF t.seccomp = "DISABLING"
      THEN [t EXCEPT !.seccomp = "DISABLED", !.status = 1]
      ELSE LET u == IF alive THEN TranslateSyscall(Sysexit(t), s) ELSE Sysexit(t)
           IN  IF u.seccomp = "DISABLING"
                 THEN [u EXCEPT !.seccomp = "DISABLED", !.restart_how = "SYSCALL"]
                 ELSE u

\* The first event that shows seccomp at work switches the acceleration on.
Detect(t) ==
    IF ~t.seccomp_detected /\ t.seccomp_enabled
      THEN [t EXCEPT !.seccomp = "ENABLED", !.seccomp_detected = TRUE]
      ELSE t

\* "case SIGTRAP | PTRACE_EVENT_SECCOMP"
SeccompFlow(t, s, alive) ==
    IF t.seccomp # "ENABLED" \/ ~alive THEN t
    ELSE IF FilterSysexit(s) THEN CommonFlow(t, s, alive)
    ELSE LET u == TranslateSyscall([t EXCEPT !.restart_how = "CONT"], s)
         IN  IF u.seccomp = "DISABLING" THEN [u EXCEPT !.restart_how = "SYSCALL"] ELSE u

(***************************************************************************)
(* The callbacks of the stage that is translated: on_sysenter when status  *)
(* says enter, on_sysexit otherwise.                                       *)
(***************************************************************************)
Count(n) == IF n < 2 THEN n + 1 ELSE n

Callbacks(p, t, translated) ==
    /\ enters' = [enters EXCEPT ![p] = IF translated /\ t.status = 0 THEN Count(@) ELSE @]
    /\ exits' = [exits EXCEPT ![p] = IF translated /\ t.status # 0 THEN Count(@) ELSE @]

(***************************************************************************)
(* restart_tracee(p): resume it as t.restart_how says.  A process resumed  *)
(* from the seccomp stop executes its system call, one resumed from the    *)
(* exit stop is back in user mode.  The request fails on a dead process.   *)
(***************************************************************************)
Resumed(place) ==
    CASE place = "filter" -> "body" [] place = "leave" -> "user" [] OTHER -> place

Restart(p, tracees, t, alive) ==
    /\ T' = [tracees EXCEPT ![p] = IF alive THEN [t EXCEPT !.restart_how = "none"] ELSE t]
    /\ tif' = [tif EXCEPT ![p] = IF alive THEN t.restart_how = "SYSCALL" ELSE @]
    /\ IF alive THEN Move(p, Resumed(at[p]), "none") ELSE Move(p, "dead", "gone")

\* History: a process resumed before its parent's fork event is "early".
RanAhead(p, alive) ==
    birth' = [birth EXCEPT ![p] = IF alive /\ @ = "pending" THEN "early" ELSE @]

Event(p, e) == tracer = "running" /\ ev[p] = e

-----------------------------------------------------------------------------
(***************************************************************************)
(* The iterations of event_loop, one action per case.                      *)
(***************************************************************************)

\* The helper's exit: PTRACE_ATTACH to the process given to trace_new_pid.
Attach(r) ==
    /\ tracer = "running"
    /\ at[r] = "untraced"
    /\ Move(r, "user", "sigstop")
    /\ T' = [FreeTerminated EXCEPT ![r] = [NewTracee EXCEPT !.is_root = TRUE]]
    /\ birth' = [birth EXCEPT ![r] = "announced"]
    /\ UNCHANGED <<sys, tif, opts, filter, msg, tracer, enters, exits>>

\* A bare SIGTRAP: the first syscall-enter stop of a root, where its ptrace
\* options are set.
OnSigtrap(p, accepted) ==
    /\ Event(p, "sigtrap")
    /\ accepted \in KernelSeccomp
    /\ LET t == Current(p)
           u == Detect([t EXCEPT !.deliver_sigtrap = TRUE, !.seccomp_enabled = accepted])
       IN  /\ t.is_root /\ ~t.deliver_sigtrap
           /\ Restart(p, FreeTerminated, CommonFlow(u, sys[p], TRUE), TRUE)
           /\ Callbacks(p, u, TRUE)
    /\ opts' = [opts EXCEPT ![p] = IF accepted THEN "sec" ELSE "nosec"]
    /\ UNCHANGED <<sys, filter, msg, tracer, birth>>

(***************************************************************************)
(* PTRACE_SETOPTIONS failed because the root was killed: exit(), hence     *)
(* kill_all_tracees on the processes that have a structure.                *)
(***************************************************************************)
OnSigtrapFails(p) ==
    /\ Event(p, "sigtrap")
    /\ LET live == [FreeTerminated EXCEPT ![p] = Current(p)]
           Hit(q) == live[q].listed /\ at[q] # "absent"
       IN  /\ at' = [q \in Proc |-> IF Hit(q) THEN "dead" ELSE at[q]]
           /\ ev' = [q \in Proc |-> IF Hit(q) THEN "gone" ELSE ev[q]]
           /\ T' = live
    /\ tracer' = "exited"
    /\ UNCHANGED <<sys, tif, opts, filter, msg, history>>

\* translate_syscall has ptrace(PTRACE_TRACEME) to emulate for a process
\* whose parent is unknown: attach_to_ptracer would follow a NULL pointer.
OrphanTraceme(p, t) ==
    /\ sys[p] = "traceme" /\ t.status # 0
    /\ t.ptracer = NoProc /\ t.parent = NoProc
    /\ IF ev[p] = "seccomp" THEN t.seccomp = "ENABLED" ELSE t.seccomp # "DISABLING"

OnSeccomp(p, alive) ==
    /\ Event(p, "seccomp")
    /\ LET t == Detect(Current(p))
       IN  /\ alive => ~OrphanTraceme(p, t)
           /\ Restart(p, FreeTerminated, SeccompFlow(t, sys[p], alive), alive)
           /\ Callbacks(p, t, t.seccomp = "ENABLED" /\ alive)
    /\ RanAhead(p, alive)
    /\ UNCHANGED <<sys, opts, filter, msg, tracer>>

OnSysgood(p, alive) ==
    /\ Event(p, "sysgood")
    /\ LET t == Current(p)
       IN  /\ alive => ~OrphanTraceme(p, t)
           /\ Restart(p, FreeTerminated, CommonFlow(t, sys[p], alive), alive)
           /\ Callbacks(p, t, t.seccomp # "DISABLING" /\ alive)
    /\ RanAhead(p, alive)
    /\ UNCHANGED <<sys, opts, filter, msg, tracer>>

\* SIGSEGV in the tracer: its handler, kill_all_tracees2, ends it and kills
\* nobody.
OnOrphanTraceme(p) ==
    /\ tracer = "running"
    /\ ev[p] \in {"sysgood", "seccomp"}
    /\ OrphanTraceme(p, Detect(Current(p)))
    /\ tracer' = "crashed"
    /\ UNCHANGED <<kernel, T, history>>

(***************************************************************************)
(* new_child: the child gets a structure, or its early one, and inherits   *)
(* from its parent.  A parent killed meanwhile fails PTRACE_GETEVENTMSG.   *)
(***************************************************************************)
Child(p) == Lookup([FreeTerminated EXCEPT ![p] = Current(p)], msg[p])

Inherit(child, t, p) ==
    [child EXCEPT !.seccomp = t.seccomp, !.sysexit_pending = t.sysexit_pending,
                  !.restart_how = t.restart_how, !.parent = p]

FreshChild(child) == child.parent = NoProc /\ child.ptracer = NoProc

OnClone(p, alive) ==
    /\ Event(p, "clone")
    /\ LET t == Current(p)
           c == msg[p]
       IN  IF alive
             THEN /\ FreshChild(Child(p))
                  /\ Restart(p, [FreeTerminated EXCEPT ![c] = Inherit(Child(p), t, p)], t, TRUE)
                  /\ birth' = [birth EXCEPT ![c] =
                                 IF @ = "pending" /\ birth[p] # "late" THEN "announced" ELSE "late"]
             ELSE Restart(p, FreeTerminated, t, FALSE) /\ UNCHANGED birth
    /\ UNCHANGED <<sys, opts, filter, msg, tracer, enters, exits>>

\* The sanity check of new_child fails: SIGABRT, with the same handler.
OnCloneAsserts(p) ==
    /\ Event(p, "clone")
    /\ ~FreshChild(Child(p))
    /\ tracer' = "crashed"
    /\ UNCHANGED <<kernel, T, history>>

\* PTRACE_EVENT_EXEC, EXIT and VFORK_DONE.
OnNote(p, alive) ==
    /\ Event(p, "note")
    /\ Restart(p, FreeTerminated, Current(p), alive)
    /\ RanAhead(p, alive)
    /\ UNCHANGED <<sys, opts, filter, msg, tracer, enters, exits>>

\* The first SIGSTOP only announces the tracee and is not delivered.
OnSigstop(p, alive) ==
    /\ Event(p, "sigstop")
    /\ Restart(p, FreeTerminated, [Current(p) EXCEPT !.sigstop = "ALLOWED"], alive)
    /\ RanAhead(p, alive)
    /\ UNCHANGED <<sys, opts, filter, msg, tracer, enters, exits>>

\* Any other signal is delivered as it is.
OnSignal(p, alive) ==
    /\ Event(p, "signal")
    /\ Restart(p, FreeTerminated, Current(p), alive)
    /\ RanAhead(p, alive)
    /\ UNCHANGED <<sys, opts, filter, msg, tracer, enters, exits>>

\* WIFEXITED or WIFSIGNALED: terminate_tracee; the pid may be used again.
OnGone(p) ==
    /\ Event(p, "gone")
    /\ T' = [FreeTerminated EXCEPT ![p] = [Current(p) EXCEPT !.terminated = TRUE]]
    /\ Move(p, "absent", "none")
    /\ tif' = [tif EXCEPT ![p] = FALSE]
    /\ opts' = [opts EXCEPT ![p] = "none"]
    /\ filter' = [filter EXCEPT ![p] = FALSE]
    /\ msg' = [msg EXCEPT ![p] = NoProc]
    /\ birth' = [birth EXCEPT ![p] = "unknown"]
    /\ UNCHANGED <<sys, tracer, enters, exits>>

Kernel(p) ==
    \/ \E s \in Sys : EnterKernel(p, s)
    \/ MeetFilter(p)
    \/ Execute(p)
    \/ Exec(p)
    \/ \E c \in Proc : Fork(p, c)
    \/ Exit(p)
    \/ Die(p)
    \/ Leave(p)
    \/ GetSignal(p)
    \/ Killed(p)

Iteration(p) ==
    \/ Attach(p)
    \/ \E accepted \in BOOLEAN : OnSigtrap(p, accepted)
    \/ OnSigtrapFails(p)
    \/ \E alive \in BOOLEAN : OnSeccomp(p, alive)
    \/ \E alive \in BOOLEAN : OnSysgood(p, alive)
    \/ OnOrphanTraceme(p)
    \/ \E alive \in BOOLEAN : OnClone(p, alive)
    \/ OnCloneAsserts(p)
    \/ \E alive \in BOOLEAN : OnNote(p, alive)
    \/ \E alive \in BOOLEAN : OnSigstop(p, alive)
    \/ \E alive \in BOOLEAN : OnSignal(p, alive)
    \/ OnGone(p)

Next == \E p \in Proc : Kernel(p) \/ Iteration(p)

Spec == Init /\ [][Next]_vars

-----------------------------------------------------------------------------
(***************************************************************************)
(* Properties.                                                             *)
(***************************************************************************)

(***************************************************************************)
(* When a syscall stop reaches the tracer, the stage it remembers is the   *)
(* stage the process is in: an entry (or seccomp) stop finds status = 0,   *)
(* an exit stop does not.  It holds of every process whose fork event was  *)
(* handled before it was resumed, and of those whose fork event never      *)
(* comes.                                                                  *)
(***************************************************************************)
StageAgrees ==
    \A p \in Proc : birth[p] # "late" /\ tracer = "running" =>
        /\ ev[p] \in {"sysgood", "sigtrap"} /\ at[p] = "entry" => T[p].status = 0
        /\ ev[p] = "seccomp" /\ T[p].seccomp = "ENABLED" => T[p].status = 0
        /\ ev[p] = "sysgood" /\ at[p] = "leave" => T[p].status = 1

(***************************************************************************)
(* A system call never executes behind the tracer's back when it is in the *)
(* filter, when the kernel has no PTRACE_O_TRACESECCOMP or when the        *)
(* process is a ptracee: by the time the kernel runs it, on_sysenter was   *)
(* called for it, exactly once, and on_sysexit not yet.                    *)
(***************************************************************************)
Watched(p) ==
    \/ filter[p] /\ Filtered(sys[p])
    \/ opts[p] = "nosec"
    \/ T[p].ptracer # NoProc

NeverUnseen ==
    \A p \in Proc : birth[p] # "late" /\ tracer = "running" =>
        (at[p] = "body" /\ Watched(p) => enters[p] = 1 /\ exits[p] = 0)

(***************************************************************************)
(* A system call filtered with FILTER_SYSEXIT has had both callbacks, once *)
(* each, when the process is back in user mode, even if an event such as   *)
(* PTRACE_EVENT_EXEC came between the two stages.                          *)
(***************************************************************************)
BothStagesSeen ==
    \A p \in Proc : birth[p] # "late" /\ tracer = "running" =>
        (at[p] = "user" /\ filter[p] /\ FilterSysexit(sys[p])
            => enters[p] = 1 /\ exits[p] = 1)

Live(p) == at[p] \notin {"absent", "untraced", "dying", "dead"}

(***************************************************************************)
(* ptrace(PTRACE_TRACEME) switches the acceleration off "for this tracee   *)
(* and all its children": a ptracee runs with PTRACE_SYSCALL, so that each *)
(* of its system calls stops for its ptracer.                              *)
(***************************************************************************)
PtraceeStopsAtEachCall ==
    \A p \in Proc :
        /\ birth[p] # "late" /\ tracer = "running" /\ Live(p)
        /\ T[p].listed /\ ~T[p].terminated /\ T[p].ptracer # NoProc
        =>
        /\ T[p].seccomp = "DISABLED"
        /\ at[p] \in {"user", "entry", "body", "after"} => tif[p]

-----------------------------------------------------------------------------
(***************************************************************************)
(* The inductive invariant: how the structure of a process that is not     *)
(* late mirrors the kernel, place by place.                                *)
(***************************************************************************)
\* The default restart of an accelerated tracee is PTRACE_CONT.
Fast(t) == t.seccomp = "ENABLED" /\ ~t.sysexit_pending

\* The tracer has no structure for a process it has not heard of, and keeps
\* the structure of the others as long as they live.
Listing(p) ==
    /\ birth[p] # "unknown"
    /\ IF birth[p] = "pending"
         THEN at[p] = "user" /\ ev[p] = "sigstop" /\ (T[p].listed => T[p].terminated)
         ELSE T[p].listed /\ ~T[p].terminated
    /\ ev[p] = "sigstop" => at[p] = "user" /\ ~FilterSysexit(sys[p])

\* Before the first bare SIGTRAP a root runs as any process not accelerated.
Unset(p) ==
    opts[p] = "none" =>
        /\ T[p].is_root /\ ~T[p].deliver_sigtrap /\ ~T[p].seccomp_detected
        /\ T[p].ptracer = NoProc
        /\ T[p].seccomp = "DISABLED" /\ ~filter[p]
        /\ at[p] = "user" \/ (at[p] = "entry" /\ ev[p] = "sigtrap")

InUser(p, t) ==
    at[p] = "user" =>
        /\ ev[p] \in {"none", "signal", "sigstop"}
        /\ t.status = 0
        /\ ev[p] # "sigstop" => tif[p] = ~Fast(t)
        /\ ev[p] = "sigstop" => t.ptracer = NoProc
        /\ t.restart_how # "none" =>
              ev[p] = "sigstop" /\ (t.restart_how = "CONT" <=> Fast(t))
        /\ t.seccomp = "ENABLED" /\ t.sysexit_pending => ~filter[p]
        /\ ev[p] # "sigstop" /\ filter[p] /\ FilterSysexit(sys[p]) =>
              enters[p] = 1 /\ exits[p] = 1

InEntry(p, t) ==
    at[p] = "entry" =>
        /\ ev[p] \in {"none", "sysgood", "sigtrap"}
        /\ ev[p] = "sigtrap" <=> opts[p] = "none"
        /\ ev[p] # "none" => tif[p]
        /\ t.status = (IF tif[p] /\ ev[p] = "none" THEN 1 ELSE 0)
        /\ t.seccomp = "ENABLED" => tif[p] = t.sysexit_pending
        /\ t.seccomp = "DISABLED" => tif[p]
        /\ t.seccomp = "ENABLED" /\ tif[p] => ~filter[p]
        /\ enters[p] = t.status /\ exits[p] = 0

InFilter(p, t) ==
    at[p] = "filter" =>
        /\ ev[p] = "seccomp" /\ filter[p]
        /\ t.seccomp = "ENABLED" => ~tif[p] /\ t.status = 0 /\ ~t.sysexit_pending
        /\ t.seccomp = "DISABLED" => tif[p] /\ t.status = 1
        /\ enters[p] = t.status /\ exits[p] = 0

InBody(p, t) ==
    at[p] \in {"body", "after"} =>
        /\ IF at[p] = "body" THEN ev[p] = "none" ELSE ev[p] \in {"none", "clone", "note"}
        /\ t.status = (IF tif[p] THEN 1 ELSE 0)
        /\ t.seccomp = "ENABLED" => tif[p] = t.sysexit_pending
        /\ t.seccomp = "DISABLED" => tif[p]
        /\ t.seccomp = "ENABLED" /\ filter[p] /\ ~Filtered(sys[p]) /\ sys[p] # "install" => ~tif[p]
        /\ filter[p] /\ FilterSysexit(sys[p]) => tif[p]
        /\ (filter[p] /\ Filtered(sys[p])) \/ t.status = 1 => enters[p] = 1
        /\ exits[p] = 0
        /\ ev[p] = "clone" => sys[p] = "fork"
        /\ ev[p] = "note" => sys[p] = "execve"

InLeave(p, t) ==
    at[p] = "leave" =>
        /\ ev[p] = "sysgood" /\ tif[p] /\ t.status = 1
        /\ t.seccomp = "ENABLED" => t.sysexit_pending
        /\ enters[p] = 1 /\ exits[p] = 0

Mirrors(p) ==
    /\ Listing(p)
    /\ birth[p] # "pending" =>
        /\ T[p].seccomp # "DISABLING"
        /\ opts[p] = "nosec" \/ T[p].ptracer # NoProc => T[p].seccomp = "DISABLED"
        /\ T[p].seccomp_enabled => T[p].seccomp_detected
        /\ T[p].restart_how # "none" => at[p] = "user"
        /\ Unset(p)
        /\ InUser(p, T[p]) /\ InEntry(p, T[p]) /\ InFilter(p, T[p])
        /\ InBody(p, T[p]) /\ InLeave(p, T[p])

\* Only a root that has not reached its first syscall stop has no options.
Optioned == \A p \in Proc : Live(p) /\ opts[p] = "none" => birth[p] = "announced"

Untouched ==
    \A p \in Proc : at[p] = "untraced" =>
        ev[p] = "none" /\ opts[p] = "none" /\ ~filter[p] /\ sys[p] = "plain"

\* The child of a fork event is as its parent made it until it is resumed.
Linked ==
    \A p \in Proc : ev[p] = "clone" =>
        /\ at[p] = "after" /\ msg[p] \in Proc
        /\ at[msg[p]] # "untraced"
        /\ Live(msg[p]) => opts[msg[p]] # "none"
        /\ Live(msg[p]) /\ birth[msg[p]] = "pending" =>
              filter[msg[p]] = filter[p] /\ opts[msg[p]] = opts[p]

Placed == \A p \in Proc : ev[p] = "seccomp" => at[p] = "filter"

IInv ==
    tracer = "running" =>
        /\ \A p \in Proc : Live(p) /\ birth[p] # "late" => Mirrors(p)
        /\ Optioned /\ Untouched /\ Linked /\ Placed

=============================================================================
