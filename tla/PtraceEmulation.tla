-------------------------- MODULE PtraceEmulation --------------------------
(***************************************************************************)
(* The ptrace(2) and wait(2) that the tracer emulates for its tracees      *)
(* (ptrace/ptrace.c, ptrace/wait.c, and the parts of tracee/tracee.c and   *)
(* tracee/event.c that serve them).                                        *)
(*                                                                         *)
(* The kernel allows one ptracer per process, and the tracer is it.  When  *)
(* a tracee traces another, the tracer keeps the latter, the ptracee,      *)
(* stopped after an event until the former, its ptracer, restarts it; and  *)
(* it answers the waits of the ptracer, which it keeps stopped at the exit *)
(* of its void system call as long as there is nothing to answer.          *)
(*                                                                         *)
(* One iteration of event_loop is one action, Handle.  It is written with  *)
(* functions from world to world, as handlers call each other: the exit of *)
(* a ptrace call of one process handles the pending event of another.      *)
(* Waits are made with __WALL; system calls that neither trace nor wait    *)
(* are all "plain", but for fork.  Nothing is accelerated here: TRACEME    *)
(* switches seccomp off, and EventLoop is about the rest.                  *)
(***************************************************************************)
EXTENDS Naturals, FiniteSets

CONSTANTS Proc,    \* process identifiers, none of which is used twice
          NoProc,  \* the NULL Tracee pointer, and the pid 0 of wait_pid
          AnyPid,  \* the pid -1
          Father,  \* the parent of each initial process, or NoProc
          Initial, \* the processes that exist at first
          Menus    \* what the processes may do: the system calls of each one

Restarts == {"cont", "syscall", "detach", "kill"}
Requests == Restarts \cup {"options", "attach"}
Waits == {"wait", "poll"}
CallType == [op : {"plain", "fork", "traceme"} \cup Waits \cup Requests,
             pid : Proc \cup {AnyPid, NoProc}]

ASSUME PtraceAssumption ==
    /\ IsFiniteSet(Proc)
    /\ NoProc \notin Proc /\ AnyPid \notin Proc /\ NoProc # AnyPid
    /\ Initial \subseteq Proc
    /\ Father \in [Proc -> Initial \cup {NoProc}]
    /\ \A p \in Proc : Father[p] # p
    /\ Menus \subseteq [Proc -> SUBSET CallType]

VARIABLES
    menu,   \* the system calls each process may make
    \* the kernel
    at,     \* where a process is, or is stopped: see Places
    stop,   \* "no", "event" (to be reported by waitpid) or "taken"
    call,   \* its system call, while it makes one
    void,   \* was the system call replaced with PR_void?
    poked,  \* has it a SIGSTOP pending?
    father, \* its parent
    \* the tracer
    T,      \* its Tracee structures
    zombies, \* the dead ptracees, in the list of a ptracer not yet told
    tracer, \* "running", "crashed" or "traced"
    \* history, read by no action
    twice   \* the ptracees an event of which was handled twice

vars == <<menu, at, stop, call, void, poked, father, T, zombies, tracer, twice>>

\* "note" is a special event, of a fork or an exec; "again" is before a call
\* that is restarted; a "zombie" is dead for the tracer, not for its parent.
Places == {"absent", "user", "enter", "note", "exit", "again", "dead", "zombie", "gone"}

\* struct tracee.  untold is as_ptracee.event4.ptracer.pending, proot the
\* pending of event4.proot; how tells that restart_how is not 0.
TraceeType ==
    [listed : BOOLEAN, running : BOOLEAN,
     parent : Proc \cup {NoProc}, status : {0, 1}, how : BOOLEAN,
     nb_ptracees : Nat, wait_pid : Proc \cup {NoProc, AnyPid},
     waits_in : {"none", "kernel", "proot"},
     ptracer : Proc \cup {NoProc}, proot : BOOLEAN, untold : BOOLEAN,
     tracing_started : BOOLEAN, ignore_syscalls : BOOLEAN, options : BOOLEAN]

NoTracee ==
    [listed |-> FALSE, running |-> FALSE,
     parent |-> NoProc, status |-> 0, how |-> FALSE,
     nb_ptracees |-> 0, wait_pid |-> NoProc, waits_in |-> "none",
     ptracer |-> NoProc, proot |-> FALSE, untold |-> FALSE,
     tracing_started |-> FALSE, ignore_syscalls |-> FALSE, options |-> FALSE]

ZombieType == [ptracer : Proc \cup {NoProc}, parent : Proc \cup {NoProc}]
NoZombie == [ptracer |-> NoProc, parent |-> NoProc]

NewTracee == [NoTracee EXCEPT !.listed = TRUE]

NoCall == [op |-> "plain", pid |-> NoProc]

TypeOK ==
    /\ menu \in Menus
    /\ at \in [Proc -> Places]
    /\ stop \in [Proc -> {"no", "event", "taken"}]
    /\ call \in [Proc -> CallType]
    /\ void \in [Proc -> BOOLEAN]
    /\ poked \in [Proc -> BOOLEAN]
    /\ father \in [Proc -> Proc \cup {NoProc}]
    /\ T \in [Proc -> TraceeType]
    /\ zombies \in [Proc -> ZombieType]
    /\ tracer \in {"running", "crashed", "traced"}
    /\ twice \subseteq Proc

Init ==
    /\ menu \in Menus
    /\ at = [p \in Proc |-> IF p \in Initial THEN "user" ELSE "absent"]
    /\ stop = [p \in Proc |-> "no"]
    /\ call = [p \in Proc |-> NoCall]
    /\ void = [p \in Proc |-> FALSE]
    /\ poked = [p \in Proc |-> FALSE]
    /\ father = Father
    /\ T = [p \in Proc |->
              IF p \in Initial
                THEN [NewTracee EXCEPT !.running = TRUE, !.parent = Father[p]]
                ELSE NoTracee]
    /\ zombies = [p \in Proc |-> NoZombie]
    /\ tracer = "running"
    /\ twice = {}

-----------------------------------------------------------------------------
(***************************************************************************)
(* The kernel.                                                             *)
(***************************************************************************)
Runs(p) == tracer = "running" /\ stop[p] = "no"
InUser(p) == Runs(p) /\ at[p] = "user"
InCall(p) == Runs(p) /\ at[p] \in {"enter", "note"}
IsPtracee(p) == T[p].ptracer # NoProc

Stops(p, place) ==
    /\ at' = [at EXCEPT ![p] = place]
    /\ stop' = [stop EXCEPT ![p] = "event"]

\* Every system call of a ptracee stops, and those that trace or wait.
Call(p, c) ==
    /\ InUser(p)
    /\ c \in menu[p]
    /\ c.op \in {"plain", "fork"} => IsPtracee(p)
    /\ Stops(p, "enter")
    /\ call' = [call EXCEPT ![p] = c]
    /\ void' = [void EXCEPT ![p] = FALSE]
    /\ UNCHANGED <<poked, father, T, zombies, tracer, twice>>

\* The system call that restart_original_syscall has made restart.
Again(p) ==
    /\ Runs(p)
    /\ at[p] = "again"
    /\ Stops(p, "enter")
    /\ void' = [void EXCEPT ![p] = FALSE]
    /\ UNCHANGED <<call, poked, father, T, zombies, tracer, twice>>

\* Only the signals of ptracees, and SIGSTOP, mean something here.
Signal(p) ==
    /\ InUser(p)
    /\ IsPtracee(p) \/ poked[p]
    /\ Stops(p, "user")
    /\ poked' = [poked EXCEPT ![p] = FALSE]
    /\ UNCHANGED <<call, void, father, T, zombies, tracer, twice>>

\* PTRACE_EVENT_EXEC and EXIT, in the middle of a system call.
Note(p) ==
    /\ InCall(p)
    /\ at[p] = "enter" /\ call[p].op = "plain" /\ IsPtracee(p)
    /\ Stops(p, "note")
    /\ UNCHANGED <<call, void, poked, father, T, zombies, tracer, twice>>

Fork(p, c) ==
    /\ InCall(p)
    /\ at[p] = "enter" /\ call[p].op = "fork"
    /\ at[c] = "absent"
    /\ at' = [at EXCEPT ![p] = "note", ![c] = "user"]
    /\ stop' = [stop EXCEPT ![p] = "event", ![c] = "event"]
    /\ call' = [call EXCEPT ![p].pid = c]
    /\ father' = [father EXCEPT ![c] = p]
    /\ UNCHANGED <<void, poked, T, zombies, tracer, twice>>

\* A wait that the kernel answers: with a dead child, at once, or because a
\* signal interrupts it.
InKernelWait(p) == call[p].op \in Waits /\ ~void[p]

Matches(pid, q) == pid = AnyPid \/ pid = q

Collect(p, q) ==
    /\ InCall(p) /\ InKernelWait(p)
    /\ father[q] = p /\ at[q] = "zombie" /\ Matches(call[p].pid, q)
    /\ at' = [at EXCEPT ![p] = "exit", ![q] = "gone"]
    /\ stop' = [stop EXCEPT ![p] = "event"]
    /\ UNCHANGED <<call, void, poked, father, T, zombies, tracer, twice>>

NothingToWaitFor(p) ==
    \/ call[p].op = "poll"
    \/ poked[p]
    \/ \A q \in Proc : father[q] = p /\ Matches(call[p].pid, q) => at[q] \in {"absent", "gone"}

Return(p) ==
    /\ InCall(p)
    /\ InKernelWait(p) => NothingToWaitFor(p)
    /\ Stops(p, "exit")
    /\ UNCHANGED <<call, void, poked, father, T, zombies, tracer, twice>>

Killed(p) ==
    /\ tracer = "running"
    /\ at[p] \notin {"absent", "dead", "zombie", "gone"}
    /\ Stops(p, "dead")
    /\ call' = [call EXCEPT ![p] = NoCall]
    /\ void' = [void EXCEPT ![p] = FALSE]
    /\ poked' = [poked EXCEPT ![p] = FALSE]
    /\ UNCHANGED <<father, T, zombies, tracer, twice>>

-----------------------------------------------------------------------------
(***************************************************************************)
(* What the handlers read and write.                                       *)
(***************************************************************************)
World == [T |-> T, zombies |-> zombies, at |-> at, stop |-> stop, void |-> void, poked |-> poked,
          tracer |-> tracer]

(***************************************************************************)
(* restart_tracee.  A ptracer in an emulated wait stays stopped.  With a   *)
(* restart_how of 0 the request is PTRACE_TRACEME: the tracer asks to be   *)
(* traced itself.                                                          *)
(***************************************************************************)
Restartable(w, p) ==
    /\ w.T[p].wait_pid = NoProc
    /\ w.T[p].how
    /\ w.stop[p] # "no" /\ w.at[p] # "dead"

Resumed(w, p) ==
    IF w.at[p] = "exit"
      THEN [w EXCEPT !.stop[p] = "no", !.at[p] = "user", !.void[p] = FALSE]
      ELSE [w EXCEPT !.stop[p] = "no"]

RestartTracee(w, p) ==
    IF Restartable(w, p)
      THEN Resumed([w EXCEPT !.T[p].how = FALSE, !.T[p].running = TRUE], p)
    ELSE IF w.T[p].wait_pid = NoProc /\ ~w.T[p].how
      THEN [w EXCEPT !.tracer = "traced", !.T[p].running = TRUE]
    ELSE w

AttachToPtracer(w, q, p) ==
    [w EXCEPT !.T[q].ptracer = p, !.T[q].proot = FALSE, !.T[q].untold = FALSE,
              !.T[q].tracing_started = FALSE, !.T[q].ignore_syscalls = FALSE,
              !.T[q].options = FALSE,
              !.T[p].nb_ptracees = @ + 1]

DetachFromPtracer(w, q) ==
    [w EXCEPT !.T[w.T[q].ptracer].nb_ptracees = @ - 1, !.T[q].ptracer = NoProc]

\* get_ptracee(p, pid, false, ...)
ZombiesOf(w, p, pid) == {q \in Proc : w.zombies[q].ptracer = p /\ Matches(pid, q)}
PtraceesOf(w, p, pid) ==
    ZombiesOf(w, p, pid) \cup {q \in Proc : w.T[q].ptracer = p /\ Matches(pid, q)}

(***************************************************************************)
(* The enter stage.  A wait is emulated when it may concern a ptracee;     *)
(* ptrace always is.                                                       *)
(***************************************************************************)
WaitEnter(w, p, pid) ==
    IF w.T[p].nb_ptracees = 0 \/ (pid # AnyPid /\ PtraceesOf(w, p, pid) = {})
      THEN [w EXCEPT !.T[p].waits_in = "kernel"]
      ELSE [w EXCEPT !.T[p].waits_in = "proot", !.void[p] = TRUE]

EnterStage(w, p) ==
    LET v == [w EXCEPT !.T[p].status = 1]
    IN  CASE call[p].op \in Waits -> WaitEnter(v, p, call[p].pid)
          [] call[p].op \in Requests \cup {"traceme"} -> [v EXCEPT !.void[p] = TRUE]
          [] OTHER -> v

\* The event of a stopped ptracee, handled when its ptracer restarts it: an
\* enter stage, or nothing that matters here.  The registers of a dead process
\* cannot be read.
HandlePending(w, q) ==
    LET v == [w EXCEPT !.T[q].how = TRUE, !.T[q].proot = FALSE]
    IN  IF w.at[q] \in {"enter", "exit"} THEN EnterStage(v, q) ELSE v

(***************************************************************************)
(* update_wait_status: p, which waits, is told of the event of q, or of    *)
(* its zombie.  The kernel has to tell a parent of the death of its child: *)
(* the wait is restarted.  Nothing is written to a ptracer that is dead.   *)
(***************************************************************************)
RestartOriginal(w, p) == [w EXCEPT !.at[p] = IF @ = "dead" THEN @ ELSE "again"]

BuryZombie(w, p, q) ==
    [w EXCEPT !.T[p].nb_ptracees = @ - 1, !.zombies[q] = NoZombie]

\* Mutant: a zombie that was told is freed and not detached.
UpdateWaitStatusForgets(w, p, q) ==
    IF q \in ZombiesOf(w, p, q) THEN [w EXCEPT !.zombies[q] = NoZombie]
    ELSE [w EXCEPT !.T[q].untold = FALSE]

UpdateWaitStatus(w, p, q) ==
    IF q \in ZombiesOf(w, p, q)
      THEN BuryZombie(IF w.zombies[q].parent = p THEN RestartOriginal(w, p) ELSE w, p, q)
    ELSE IF w.at[q] = "dead" /\ w.T[q].parent = p
      THEN DetachFromPtracer(RestartOriginal(w, p), q)
    ELSE IF w.at[p] = "dead" THEN w
    ELSE [w EXCEPT !.T[q].untold = FALSE]

(***************************************************************************)
(* translate_wait_exit: zombies are found first.  "first" stands for the   *)
(* order of a list: it is the ptracee found if it can be.                  *)
(***************************************************************************)
WithNews(w, p, pid) ==
    {q \in PtraceesOf(w, p, pid) : w.T[q].ptracer = p /\ ~w.T[q].running /\ w.T[q].untold}

WaitExit(w, p, first) ==
    LET c == call[p]
        v == [w EXCEPT !.T[p].waits_in = "none"]
        found == IF ZombiesOf(w, p, c.pid) # {} THEN ZombiesOf(w, p, c.pid)
                 ELSE WithNews(w, p, c.pid)
        q == IF first \in found THEN first ELSE CHOOSE r \in found : TRUE
    IN  IF found # {} THEN UpdateWaitStatus(v, p, q)
        ELSE IF v.T[p].nb_ptracees = 0 \/ c.op = "poll" THEN v
        ELSE [v EXCEPT !.T[p].wait_pid = c.pid]

(***************************************************************************)
(* translate_ptrace_exit.                                                  *)
(***************************************************************************)
\* A parent that waits in the kernel is interrupted by a SIGSTOP, and its wait
\* emulated at its exit.
Traceme(w, q) ==
    LET p == w.T[q].parent
        v == AttachToPtracer(w, q, p)
    IN  IF w.T[q].ptracer # NoProc THEN w
        ELSE IF p = NoProc THEN [w EXCEPT !.tracer = "crashed"]
        ELSE IF w.T[p].waits_in = "kernel"
          THEN [v EXCEPT !.poked[p] = TRUE, !.T[p].waits_in = "proot"]
        ELSE v

Attach(w, p, q) ==
    IF ~w.T[q].listed \/ w.T[q].ptracer # NoProc \/ q = p THEN w
    ELSE [AttachToPtracer(w, q, p) EXCEPT !.poked[q] = TRUE]

Configure(w, p, op, q) ==
    CASE op = "cont" -> [w EXCEPT !.T[q].ignore_syscalls = TRUE]
      [] op = "syscall" -> [w EXCEPT !.T[q].ignore_syscalls = FALSE]
      [] op = "detach" -> DetachFromPtracer(w, q)
      [] op = "kill" -> IF w.at[q] \in {"dead", "zombie", "gone"} THEN w
                        ELSE [w EXCEPT !.at[q] = "dead", !.stop[q] = "event", !.void[q] = FALSE,
                                       !.poked[q] = FALSE]
      [] op = "options" -> [w EXCEPT !.T[q].options = TRUE]

\* Mutants: the event kept pending is lost; SETOPTIONS restarts the ptracee.
RequestLosesEvent(w, p, op, q) ==
    IF w.T[q].ptracer # p \/ w.zombies[q].ptracer = p \/ w.T[q].running THEN w
    ELSE IF op = "options" THEN Configure(w, p, op, q)
    ELSE RestartTracee([Configure(w, p, op, q) EXCEPT !.T[q].how = TRUE], q)

RequestAlwaysRestarts(w, p, op, q) ==
    IF w.T[q].ptracer # p \/ w.zombies[q].ptracer = p \/ w.T[q].running THEN w
    ELSE RestartTracee(HandlePending(Configure(w, p, op, q), q), q)

Request(w, p, op, q) ==
    IF w.T[q].ptracer # p \/ w.zombies[q].ptracer = p \/ w.T[q].running THEN w
    ELSE LET v == Configure(w, p, op, q)
         IN  IF op = "options" THEN v
             ELSE RestartTracee(IF v.T[q].proot THEN HandlePending(v, q) ELSE v, q)

ExitStage(w, p, first) ==
    LET v == [w EXCEPT !.T[p].status = 0]
        c == call[p]
    IN  CASE c.op \in Waits /\ w.T[p].waits_in = "proot" -> WaitExit(v, p, first)
          [] c.op = "traceme" -> Traceme(v, p)
          [] c.op = "attach" /\ c.pid \in Proc -> Attach(v, p, c.pid)
          [] c.op \in Restarts \cup {"options"} /\ c.pid \in Proc -> Request(v, p, c.op, c.pid)
          [] OTHER -> v

(***************************************************************************)
(* new_child: the child of a ptracee is a ptracee too if the options of    *)
(* its parent say so.                                                      *)
(***************************************************************************)
FreshChild(w, c) == w.T[c].parent = NoProc /\ w.T[c].ptracer = NoProc

NewChild(w, p, c) ==
    LET child == IF w.T[c].listed THEN w.T[c] ELSE NewTracee
        v == [w EXCEPT !.T[c] = [child EXCEPT !.parent = p, !.how = w.T[p].how]]
        r == w.T[p].ptracer
    IN  IF ~FreshChild(w, c) THEN [w EXCEPT !.tracer = "crashed"]
        ELSE IF r # NoProc /\ w.T[p].options
          THEN [AttachToPtracer(v, c, r) EXCEPT !.T[c].options = TRUE]
        ELSE v

\* handle_tracee_event
HandleTraceeEvent(w, p, first) ==
    LET v == [w EXCEPT !.T[p].how = TRUE]
        u == IF w.at[p] \in {"enter", "exit"}
               THEN IF w.T[p].status = 0 THEN EnterStage(v, p) ELSE ExitStage(v, p, first)
             ELSE IF w.at[p] = "note" /\ call[p].op = "fork" THEN NewChild(v, p, call[p].pid)
             ELSE v
    IN  [u EXCEPT !.T[p].proot = FALSE]

(***************************************************************************)
(* handle_ptracee_event.  An event the ptracer did not ask for is handled  *)
(* as that of any tracee.                                                  *)
(***************************************************************************)
SyscallStop(w, q) == w.at[q] \in {"enter", "exit"}

Unexpected(w, q) ==
    \/ SyscallStop(w, q) /\ (w.T[q].ignore_syscalls \/ ~w.T[q].tracing_started)
    \/ w.at[q] = "note" /\ ~w.T[q].options

HandledFirst(w, q) == w.at[q] = "note" \/ (SyscallStop(w, q) /\ w.T[q].status # 0)

\* The ptracee's event reaches its ptracer, which is woken if it waits for it.
Notified(w, q, first) ==
    LET v == [w EXCEPT !.T[q].proot = TRUE,
                       !.T[q].tracing_started = @ \/ ~SyscallStop(w, q)]
        u == IF HandledFirst(w, q) THEN HandleTraceeEvent(v, q, first) ELSE v
    IN  [u EXCEPT !.T[q].untold = TRUE]

\* Mutant: only a wait for any ptracee is answered.
AwaitedByAnyOnly(w, q) == w.T[w.T[q].ptracer].wait_pid = AnyPid

Awaited(w, q) == w.T[w.T[q].ptracer].wait_pid \in {AnyPid, q}

Woken(w, q) ==
    LET p == w.T[q].ptracer
    IN  [UpdateWaitStatus(w, p, q) EXCEPT !.T[p].wait_pid = NoProc]

(***************************************************************************)
(* remove_tracee, for the death of q.                                      *)
(***************************************************************************)
\* A ptracee of the dead is released, with the event that is pending.
Release(w, r) ==
    LET v == [w EXCEPT !.T[r].ptracer = NoProc]
        u == IF w.T[r].proot THEN RestartTracee(HandlePending(v, r), r)
             ELSE IF w.T[r].untold THEN RestartTracee(v, r)
             ELSE v
    IN  [u EXCEPT !.T[r].proot = FALSE, !.T[r].untold = FALSE,
                  !.T[r].tracing_started = FALSE, !.T[r].ignore_syscalls = FALSE,
                  !.T[r].options = FALSE]

ReleaseAll(w, q) ==
    LET mine == {r \in Proc : w.T[r].ptracer = q}
        Orphan(t) == [t EXCEPT !.parent = IF @ = q THEN NoProc ELSE @]
    IN  [w EXCEPT
          !.T = [r \in Proc |-> Orphan(IF r \in mine THEN Release(w, r).T[r] ELSE @[r])],
          !.at = [r \in Proc |-> IF r \in mine THEN Release(w, r).at[r] ELSE @[r]],
          !.stop = [r \in Proc |-> IF r \in mine THEN Release(w, r).stop[r] ELSE @[r]],
          !.void = [r \in Proc |-> IF r \in mine THEN Release(w, r).void[r] ELSE @[r]],
          !.zombies = [r \in Proc |-> IF @[r].ptracer = q THEN NoZombie ELSE @[r]],
          !.tracer = IF \E r \in mine : Release(w, r).tracer = "traced" THEN "traced" ELSE @]

\* A ptracee whose death was not told becomes a zombie; the ptracer of the
\* last one is woken.
Free(w, q) == [w EXCEPT !.T[q] = NoTracee]

\* Mutant: the zombie is not attached in place of the dead ptracee.
LeavePtracerUncounted(w, q) ==
    LET p == w.T[q].ptracer
    IN  IF p = NoProc THEN Free(w, q)
        ELSE IF w.T[q].untold
          THEN [Free(DetachFromPtracer(w, q), q) EXCEPT
                  !.zombies[q] = [ptracer |-> p, parent |-> w.T[q].parent]]
        ELSE Free(DetachFromPtracer(w, q), q)

LeavePtracer(w, q) ==
    LET p == w.T[q].ptracer
        v == Free(DetachFromPtracer(w, q), q)
    IN  IF p = NoProc THEN Free(w, q)
        ELSE IF w.T[q].untold
          THEN [Free(w, q) EXCEPT !.zombies[q] = [ptracer |-> p, parent |-> w.T[q].parent]]
        ELSE IF v.T[p].nb_ptracees = 0 /\ v.T[p].wait_pid # NoProc
          THEN RestartTracee([v EXCEPT !.T[p].wait_pid = NoProc], p)
        ELSE v

RemoveTracee(w, q) ==
    [LeavePtracer(ReleaseAll(w, q), q) EXCEPT !.at[q] = "zombie", !.stop[q] = "no"]

(***************************************************************************)
(* An iteration of event_loop for the event of q.                          *)
(***************************************************************************)
Taken(q) ==
    LET t == IF T[q].listed THEN T[q] ELSE NewTracee
    IN  [World EXCEPT !.T[q] = [t EXCEPT !.running = FALSE], !.stop[q] = "taken"]

\* The common end: handle_tracee_event and restart_tracee, or the end of the
\* structure, which free_terminated_tracees frees before the next waitpid.
HandleAndRestart(w, q, first) ==
    LET v == HandleTraceeEvent(w, q, first)
    IN  IF w.at[q] = "dead" THEN RemoveTracee(v, q) ELSE RestartTracee(v, q)

Become(w) ==
    /\ T' = w.T
    /\ zombies' = w.zombies
    /\ at' = w.at
    /\ stop' = w.stop
    /\ void' = w.void
    /\ poked' = w.poked
    /\ tracer' = w.tracer
    /\ call' = [p \in Proc |-> IF w.at[p] = "user" THEN NoCall ELSE call[p]]
    /\ UNCHANGED father

Event(q) == tracer = "running" /\ stop[q] = "event"

\* The event of a tracee that is nobody's ptracee, or that its ptracer does
\* not expect.
HandleTracee(q, first) ==
    /\ Event(q)
    /\ T[q].ptracer = NoProc \/ Unexpected(World, q)
    /\ Become(HandleAndRestart(Taken(q), q, first))
    /\ UNCHANGED twice

\* The event of a ptracee nobody waits for yet.
HandlePtracee(q, first) ==
    /\ Event(q)
    /\ T[q].ptracer # NoProc /\ ~Unexpected(World, q)
    /\ LET v == Notified(Taken(q), q, first)
       IN  /\ ~Awaited(v, q)
           /\ Become(IF v.at[q] = "dead" THEN HandleAndRestart(v, q, first) ELSE v)
    /\ UNCHANGED twice

\* The event of a ptracee its ptracer waits for.  When the ptracer cannot be
\* restarted the ptracee is not kept, and its event is handled again.
HandleAwaited(q, first) ==
    /\ Event(q)
    /\ T[q].ptracer # NoProc /\ ~Unexpected(World, q)
    /\ LET v == Notified(Taken(q), q, first)
           p == T[q].ptracer
           u == Woken(v, q)
           x == RestartTracee(u, p)
       IN  /\ Awaited(v, q)
           /\ Become(IF v.at[q] = "dead" \/ ~Restartable(u, p)
                       THEN HandleAndRestart(x, q, first)
                       ELSE x)
           /\ twice' = IF HandledFirst(World, q) /\ ~Restartable(u, p)
                         THEN twice \cup {q} ELSE twice

Kernel(p) ==
    \/ \E c \in menu[p] : Call(p, c)
    \/ Again(p)
    \/ Signal(p)
    \/ Note(p)
    \/ \E c \in Proc : Fork(p, c)
    \/ \E q \in Proc : Collect(p, q)
    \/ Return(p)
    \/ Killed(p)

Iteration(q) ==
    \E first \in Proc :
        HandleTracee(q, first) \/ HandlePtracee(q, first) \/ HandleAwaited(q, first)

Next == (\E p \in Proc : Kernel(p) \/ Iteration(p)) /\ UNCHANGED menu

Spec == Init /\ [][Next]_vars

-----------------------------------------------------------------------------
(***************************************************************************)
(* as_ptracer.nb_ptracees, which decides whether a wait is emulated, fails *)
(* with ECHILD or sleeps, is the number of ptracees and of zombies.  It is *)
(* changed in attach_to_ptracer and detach_from_ptracer, which TRACEME,    *)
(* ATTACH, DETACH, new_child, update_wait_status and remove_tracee call.   *)
(***************************************************************************)
CountAgrees ==
    \A p \in Proc : T[p].nb_ptracees =
        Cardinality({q \in Proc : T[q].ptracer = p})
            + Cardinality({q \in Proc : zombies[q].ptracer = p})

(***************************************************************************)
(* A ptracer that handle_ptracee_event has to wake (wait_pid is set) has   *)
(* something left to wait for, and sleeps over nothing: no zombie and no   *)
(* ptracee kept stopped is there that it waits for and was not told of.    *)
(***************************************************************************)
KeptStopped(q) == stop[q] = "taken" /\ T[q].wait_pid = NoProc

NoLostWakeup ==
    \A p \in Proc : tracer = "running" /\ T[p].wait_pid # NoProc =>
        /\ T[p].nb_ptracees > 0
        /\ ZombiesOf(World, p, T[p].wait_pid) = {}
        /\ \A q \in WithNews(World, p, T[p].wait_pid) : ~KeptStopped(q)

(***************************************************************************)
(* Tracee.status tells the enter from the exit stage of a process whose    *)
(* events are handled late, by the ptrace calls of another, or by its      *)
(* death.  Left out are the ptracees of which handle_ptracee_event and     *)
(* then event_loop handled the same event: their ptracer was dead, and     *)
(* could not be restarted.                                                 *)
(***************************************************************************)
StagesKept ==
    \A q \in Proc \ twice : stop[q] = "event" /\ tracer = "running" =>
        /\ at[q] = "enter" => T[q].status = 0
        /\ at[q] = "exit" => T[q].status = 1

(***************************************************************************)
(* A ptracee kept stopped by handle_ptracee_event is resumed by a request  *)
(* of its own ptracer, or by the death of this one, and by nothing else:   *)
(* neither by another event nor by another process.                        *)
(***************************************************************************)
ResumedByPtracer ==
    [][\A q \in Proc :
        LET p == T[q].ptracer
        IN  KeptStopped(q) /\ stop'[q] = "no" /\ p # NoProc /\ at[q] # "dead" =>
                \/ at[p] = "dead"
                \/ stop[p] = "event" /\ call[p].op \in Restarts /\ call[p].pid = q
      ]_vars

=============================================================================
