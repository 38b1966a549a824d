-------------------------- MODULE EventLoopProofs --------------------------
(***************************************************************************)
(* Theorems about EventLoop, for any set of processes, any system calls    *)
(* and any kernel; the last one is that it implements Interception.        *)
(***************************************************************************)
EXTENDS EventLoopRefinement, TLAPS

-----------------------------------------------------------------------------
(***************************************************************************)
(* What the parts of the loop do to a Tracee structure keeps its type.     *)
(***************************************************************************)
LEMMA NewTraceeType == NewTracee \in TraceeType
  BY DEF NewTracee, NoTracee, TraceeType

LEMMA FreeTerminatedType ==
    ASSUME TypeOK
    PROVE  FreeTerminated \in [Proc -> TraceeType]
<1> SUFFICES ASSUME NEW q \in Proc PROVE FreeTerminated[q] \in TraceeType
  BY DEF FreeTerminated
<1>1. T[q] \in TraceeType
  BY DEF TypeOK
<1> QED
  BY <1>1 DEF FreeTerminated, TraceeType, NoTracee

LEMMA CurrentType ==
    ASSUME TypeOK, NEW p \in Proc
    PROVE  Current(p) \in TraceeType
<1>1. Lookup(FreeTerminated, p) \in TraceeType
  BY FreeTerminatedType, NewTraceeType DEF Lookup
<1>2. ASSUME NEW t \in TraceeType PROVE Default(t) \in TraceeType
  BY <1>2 DEF Default, TraceeType
<1> QED
  BY <1>1, <1>2 DEF Current

LEMMA DetectType ==
    ASSUME NEW t \in TraceeType
    PROVE  Detect(t) \in TraceeType
<1>1. [t EXCEPT !.seccomp = "ENABLED", !.seccomp_detected = TRUE] \in TraceeType
  BY DEF TraceeType
<1> QED
  BY <1>1 DEF Detect

LEMMA TracemeType ==
    ASSUME NEW t \in TraceeType
    PROVE  Traceme(t) \in TraceeType
<1>1. ASSUME NEW a \in Proc \cup {NoProc}, NEW b \in {"DISABLED", "DISABLING", "ENABLED"}
      PROVE  [t EXCEPT !.ptracer = a, !.seccomp = b] \in TraceeType
  BY <1>1 DEF TraceeType
<1>2. t.parent \in Proc \cup {NoProc} /\ t.seccomp \in {"DISABLED", "DISABLING", "ENABLED"}
  BY DEF TraceeType
<1> QED
  BY <1>1, <1>2 DEF Traceme

LEMMA TranslateSyscallType ==
    ASSUME NEW t \in TraceeType, NEW s \in SysKinds
    PROVE  TranslateSyscall(t, s) \in TraceeType
<1>1. CASE t.status = 0
  BY <1>1 DEF TranslateSyscall, TraceeType
<1>2. CASE t.status # 0
  <2> DEFINE u == IF s = "traceme" THEN Traceme(t) ELSE t
  <2>1. u \in TraceeType
    BY TracemeType
  <2>2. TranslateSyscall(t, s) = [u EXCEPT !.status = 0]
    BY <1>2 DEF TranslateSyscall
  <2> QED
    BY <2>1, <2>2 DEF TraceeType
<1> QED
  BY <1>1, <1>2

LEMMA SysexitType ==
    ASSUME NEW t \in TraceeType
    PROVE  Sysexit(t) \in TraceeType
<1>1. [t EXCEPT !.restart_how = "SYSCALL", !.sysexit_pending = TRUE] \in TraceeType
  BY DEF TraceeType
<1>2. [t EXCEPT !.restart_how = "CONT", !.sysexit_pending = FALSE] \in TraceeType
  BY DEF TraceeType
<1> QED
  BY <1>1, <1>2 DEF Sysexit

LEMMA CommonFlowType ==
    ASSUME NEW t \in TraceeType, NEW s \in SysKinds, NEW alive \in BOOLEAN
    PROVE  CommonFlow(t, s, alive) \in TraceeType
<1> DEFINE u == IF alive THEN TranslateSyscall(Sysexit(t), s) ELSE Sysexit(t)
<1>1. u \in TraceeType
  BY SysexitType, TranslateSyscallType
<1>2. CASE t.seccomp = "DISABLING"
  BY <1>2 DEF CommonFlow, TraceeType
<1>3. CASE t.seccomp # "DISABLING"
  <2>1. CommonFlow(t, s, alive) =
          IF u.seccomp = "DISABLING"
            THEN [u EXCEPT !.seccomp = "DISABLED", !.restart_how = "SYSCALL"] ELSE u
    BY <1>3 DEF CommonFlow
  <2> QED
    BY ZenonT(60), <1>1, <2>1 DEF TraceeType
<1> QED
  BY <1>2, <1>3

LEMMA SeccompFlowType ==
    ASSUME NEW t \in TraceeType, NEW s \in SysKinds, NEW alive \in BOOLEAN
    PROVE  SeccompFlow(t, s, alive) \in TraceeType
<1> DEFINE u == TranslateSyscall([t EXCEPT !.restart_how = "CONT"], s)
<1>1. u \in TraceeType
  <2>1. [t EXCEPT !.restart_how = "CONT"] \in TraceeType
    BY DEF TraceeType
  <2> QED
    BY <2>1, TranslateSyscallType
<1>2. (IF u.seccomp = "DISABLING" THEN [u EXCEPT !.restart_how = "SYSCALL"] ELSE u) \in TraceeType
  BY <1>1 DEF TraceeType
<1> QED
  BY <1>2, CommonFlowType DEF SeccompFlow

\* A new child inherits from a structure of the right type.
LEMMA InheritType ==
    ASSUME NEW child \in TraceeType, NEW t \in TraceeType, NEW p \in Proc
    PROVE  Inherit(child, t, p) \in TraceeType
  BY DEF Inherit, TraceeType

LEMMA ChildType ==
    ASSUME TypeOK, NEW p \in Proc, msg[p] \in Proc
    PROVE  Child(p) \in TraceeType
  BY FreeTerminatedType, CurrentType, NewTraceeType DEF Child, Lookup

\* restart_tracee, with any structure of the right type.
LEMMA RestartType ==
    ASSUME TypeOK, NEW p \in Proc, NEW tracees \in [Proc -> TraceeType],
           NEW t \in TraceeType, NEW alive \in BOOLEAN,
           Restart(p, tracees, t, alive)
    PROVE  /\ T' \in [Proc -> TraceeType]
           /\ tif' \in [Proc -> BOOLEAN]
           /\ at' \in [Proc -> Places]
           /\ ev' \in [Proc -> Events]
<1>1. [t EXCEPT !.restart_how = "none"] \in TraceeType
  BY DEF TraceeType
<1>2. T' \in [Proc -> TraceeType]
  BY <1>1 DEF Restart
<1>3. at[p] \in Places /\ Resumed(at[p]) \in Places
  BY DEF TypeOK, Places, Resumed
<1>4. tif' \in [Proc -> BOOLEAN]
  <2>1. tif' = [tif EXCEPT ![p] = IF alive THEN t.restart_how = "SYSCALL" ELSE tif[p]]
    BY DEF Restart
  <2> QED
    BY <2>1 DEF TypeOK
<1>5. at' \in [Proc -> Places] /\ ev' \in [Proc -> Events]
  <2>1. CASE alive
    <3>1. at' = [at EXCEPT ![p] = Resumed(at[p])] /\ ev' = [ev EXCEPT ![p] = "none"]
      BY <2>1 DEF Restart, Move
    <3> QED
      BY <1>3, <3>1 DEF TypeOK, Events
  <2>2. CASE ~alive
    <3>1. at' = [at EXCEPT ![p] = "dead"] /\ ev' = [ev EXCEPT ![p] = "gone"]
      BY <2>2 DEF Restart, Move
    <3> QED
      BY <3>1 DEF TypeOK, Places, Events
  <2> QED
    BY <2>1, <2>2
<1> QED
  BY <1>2, <1>4, <1>5

LEMMA CallbacksType ==
    ASSUME TypeOK, NEW p \in Proc, NEW t, NEW translated, Callbacks(p, t, translated)
    PROVE  enters' \in [Proc -> 0..2] /\ exits' \in [Proc -> 0..2]
<1>1. \A n \in 0..2 : Count(n) \in 0..2
  BY DEF Count
<1> QED
  BY <1>1 DEF TypeOK, Callbacks

LEMMA RanAheadType ==
    ASSUME TypeOK, NEW p \in Proc, NEW alive, RanAhead(p, alive)
    PROVE  birth' \in [Proc -> Births]
  BY DEF TypeOK, RanAhead, Births

-----------------------------------------------------------------------------
(***************************************************************************)
(* The variables of EventLoop keep their types.                            *)
(***************************************************************************)
LEMMA KernelType ==
    ASSUME TypeOK, NEW p \in Proc, Kernel(p)
    PROVE  TypeOK'
<1> USE DEF TypeOK, Runs, Move, history
<1>1. ASSUME NEW s \in Sys, EnterKernel(p, s) PROVE TypeOK'
  BY <1>1, EventLoopAssumption DEF EnterKernel, Places, Events, SyscallStop
<1>2. CASE MeetFilter(p)
  BY <1>2 DEF MeetFilter, Places, Events
<1>3. CASE Execute(p)
  BY <1>3 DEF Execute, Places, Events
<1>4. CASE Exec(p) \/ Exit(p) \/ Die(p) \/ Killed(p)
  BY <1>4 DEF Exec, Exit, Die, Killed, Places, Events
<1>5. ASSUME NEW c \in Proc, Fork(p, c) PROVE TypeOK'
  <2>1. /\ at' \in [Proc -> Places] /\ ev' \in [Proc -> Events] /\ sys' \in [Proc -> SysKinds]
        /\ msg' \in [Proc -> Proc \cup {NoProc}]
    BY <1>5 DEF Fork, Places, Events, SysKinds
  <2>2. tif' \in [Proc -> BOOLEAN] /\ opts' \in [Proc -> {"none", "nosec", "sec"}]
    BY <1>5 DEF Fork
  <2>3. filter' \in [Proc -> BOOLEAN]
    BY <1>5 DEF Fork
  <2>4. enters' \in [Proc -> 0..2] /\ exits' \in [Proc -> 0..2]
    BY <1>5 DEF Fork
  <2>5. birth' \in [Proc -> Births]
    BY <1>5 DEF Fork, Births
  <2> QED
    BY <1>5, <2>1, <2>2, <2>3, <2>4, <2>5 DEF Fork
<1>6. CASE Leave(p)
  BY <1>6 DEF Leave, SyscallStop, Places, Events
<1>7. CASE GetSignal(p)
  BY <1>7 DEF GetSignal, Events
<1> QED
  BY <1>1, <1>2, <1>3, <1>4, <1>5, <1>6, <1>7 DEF Kernel

LEMMA IterationType ==
    ASSUME TypeOK, NEW p \in Proc, Iteration(p)
    PROVE  TypeOK'
<1> DEFINE C == Current(p)
<1>t. /\ C \in TraceeType
      /\ FreeTerminated \in [Proc -> TraceeType]
      /\ sys[p] \in SysKinds
  BY CurrentType, FreeTerminatedType DEF TypeOK
<1>1. CASE Attach(p)
  <2> DEFINE n == [NewTracee EXCEPT !.is_root = TRUE]
  <2>1. n \in TraceeType
    BY NewTraceeType DEF TraceeType
  <2>2. T' = [FreeTerminated EXCEPT ![p] = n] /\ birth' = [birth EXCEPT ![p] = "announced"]
    BY <1>1 DEF Attach
  <2> HIDE DEF n
  <2>3. T' \in [Proc -> TraceeType] /\ birth' \in [Proc -> Births]
    BY <1>t, <2>1, <2>2 DEF TypeOK, Births
  <2> QED
    BY <1>1, <2>3 DEF TypeOK, Attach, Move, Places, Events
<1>2. ASSUME NEW accepted \in BOOLEAN, OnSigtrap(p, accepted) PROVE TypeOK'
  <2> DEFINE w == [C EXCEPT !.deliver_sigtrap = TRUE, !.seccomp_enabled = accepted]
             u == Detect(w)
  <2>1. w \in TraceeType
    BY <1>t DEF TraceeType
  <2>2. u \in TraceeType
    BY <2>1, DetectType
  <2>3. CommonFlow(u, sys[p], TRUE) \in TraceeType
    BY <1>t, <2>2, CommonFlowType
  <2>4. Restart(p, FreeTerminated, CommonFlow(u, sys[p], TRUE), TRUE) /\ Callbacks(p, u, TRUE)
    BY <1>2 DEF OnSigtrap
  <2> HIDE DEF u
  <2>5. opts' \in [Proc -> {"none", "nosec", "sec"}]
    BY <1>2 DEF OnSigtrap, TypeOK
  <2> QED
    BY <1>2, <1>t, <2>3, <2>4, <2>5, RestartType, CallbacksType DEF OnSigtrap, TypeOK
<1>3. CASE OnSigtrapFails(p)
  BY <1>3, <1>t DEF OnSigtrapFails, TypeOK, Places, Events, history
<1>4. ASSUME NEW alive \in BOOLEAN, OnSeccomp(p, alive) PROVE TypeOK'
  <2> DEFINE u == Detect(C)
  <2>1. u \in TraceeType
    BY <1>t, DetectType
  <2>2. SeccompFlow(u, sys[p], alive) \in TraceeType
    BY <1>t, <2>1, SeccompFlowType
  <2>3. /\ Restart(p, FreeTerminated, SeccompFlow(u, sys[p], alive), alive)
        /\ Callbacks(p, u, u.seccomp = "ENABLED" /\ alive)
        /\ RanAhead(p, alive)
    BY <1>4 DEF OnSeccomp
  <2> HIDE DEF u
  <2> QED
    BY <1>4, <1>t, <2>2, <2>3, RestartType, CallbacksType, RanAheadType DEF OnSeccomp, TypeOK
<1>5. ASSUME NEW alive \in BOOLEAN, OnSysgood(p, alive) PROVE TypeOK'
  <2>1. CommonFlow(C, sys[p], alive) \in TraceeType
    BY <1>t, CommonFlowType
  <2>2. /\ Restart(p, FreeTerminated, CommonFlow(C, sys[p], alive), alive)
        /\ Callbacks(p, C, C.seccomp # "DISABLING" /\ alive)
        /\ RanAhead(p, alive)
    BY <1>5 DEF OnSysgood
  <2>3. enters' \in [Proc -> 0..2] /\ exits' \in [Proc -> 0..2]
    BY <2>2, CallbacksType
  <2> HIDE DEF C
  <2> QED
    BY <1>5, <1>t, <2>1, <2>2, <2>3, RestartType, RanAheadType DEF OnSysgood, TypeOK
<1>6. CASE OnOrphanTraceme(p) \/ OnCloneAsserts(p)
  BY <1>6 DEF OnOrphanTraceme, OnCloneAsserts, TypeOK, kernel, history
<1>7. ASSUME NEW alive \in BOOLEAN, OnClone(p, alive) PROVE TypeOK'
  <2>1. CASE alive
    <3> DEFINE I == Inherit(Child(p), C, p)
               F == [FreeTerminated EXCEPT ![msg[p]] = I]
    <3>1. F \in [Proc -> TraceeType]
      <4>1. CASE msg[p] \in Proc
        BY <1>t, <4>1, ChildType, InheritType
      <4>2. CASE msg[p] \notin Proc
        BY <1>t, <4>2
      <4> QED
        BY <4>1, <4>2
    <3>2. Restart(p, F, C, TRUE)
      BY <1>7, <2>1 DEF OnClone
    <3>3. birth' \in [Proc -> Births]
      BY <1>7, <2>1 DEF OnClone, TypeOK, Births
    <3> HIDE DEF F
    <3> QED
      BY <1>7, <1>t, <3>1, <3>2, <3>3, RestartType DEF OnClone, TypeOK
  <2>2. CASE ~alive
    <3>1. Restart(p, FreeTerminated, C, FALSE) /\ UNCHANGED birth
      BY <1>7, <2>2 DEF OnClone
    <3> QED
      BY <1>7, <1>t, <3>1, RestartType DEF OnClone, TypeOK
  <2> QED
    BY <2>1, <2>2
<1>8. ASSUME NEW alive \in BOOLEAN, OnNote(p, alive) \/ OnSignal(p, alive) PROVE TypeOK'
  <2>1. Restart(p, FreeTerminated, C, alive) /\ RanAhead(p, alive)
    BY <1>8 DEF OnNote, OnSignal
  <2> HIDE DEF C
  <2> QED
    BY SMTT(60), <1>8, <1>t, <2>1, RestartType, RanAheadType DEF OnNote, OnSignal, TypeOK
<1>9. ASSUME NEW alive \in BOOLEAN, OnSigstop(p, alive) PROVE TypeOK'
  <2> DEFINE u == [C EXCEPT !.sigstop = "ALLOWED"]
  <2>1. u \in TraceeType
    BY <1>t DEF TraceeType
  <2>2. Restart(p, FreeTerminated, u, alive) /\ RanAhead(p, alive)
    BY <1>9 DEF OnSigstop
  <2> HIDE DEF u
  <2> QED
    BY SMTT(60), <1>9, <1>t, <2>1, <2>2, RestartType, RanAheadType DEF OnSigstop, TypeOK
<1>10. CASE OnGone(p)
  <2>1. [C EXCEPT !.terminated = TRUE] \in TraceeType
    BY <1>t DEF TraceeType
  <2>2. T' \in [Proc -> TraceeType]
    BY <1>10, <1>t, <2>1 DEF OnGone
  <2>3. /\ filter' \in [Proc -> BOOLEAN] /\ tif' \in [Proc -> BOOLEAN]
        /\ msg' \in [Proc -> Proc \cup {NoProc}]
        /\ opts' \in [Proc -> {"none", "nosec", "sec"}]
        /\ birth' \in [Proc -> Births]
    BY <1>10 DEF OnGone, TypeOK, Births
  <2> QED
    BY <1>10, <2>2, <2>3 DEF OnGone, TypeOK, Move, Places, Events
<1> QED
  BY <1>1, <1>2, <1>3, <1>4, <1>5, <1>6, <1>7, <1>8, <1>9, <1>10 DEF Iteration

THEOREM EventLoopTypeOK == Spec => []TypeOK
<1>1. Init => TypeOK
  <2>1. NoTracee \in TraceeType
    BY DEF NoTracee, TraceeType
  <2> QED
    BY <2>1 DEF Init, TypeOK, Places, Events, SysKinds, Births
<1>2. TypeOK /\ [Next]_vars => TypeOK'
  <2>1. CASE UNCHANGED vars
    BY <2>1 DEF vars, TypeOK
  <2> QED
    BY <2>1, KernelType, IterationType DEF Next
<1> QED
  BY <1>1, <1>2, PTL DEF Spec


-----------------------------------------------------------------------------
(***************************************************************************)
(* What the parts of the loop leave alone, and what the two stages of a    *)
(* system call do to the fields the invariant is about.                    *)
(***************************************************************************)
Alike(a, b) ==
    /\ a.listed = b.listed /\ a.terminated = b.terminated /\ a.is_root = b.is_root
    /\ a.deliver_sigtrap = b.deliver_sigtrap
    /\ a.seccomp_enabled = b.seccomp_enabled /\ a.seccomp_detected = b.seccomp_detected

AlikeStage(a, b) ==
    /\ a.status = b.status /\ a.seccomp = b.seccomp
    /\ a.sysexit_pending = b.sysexit_pending

\* free_terminated_tracees changes the links of the structures it keeps.
LEMMA FreeTerminatedKeeps ==
    ASSUME TypeOK, NEW q \in Proc
    PROVE  /\ T[q].terminated => FreeTerminated[q] = NoTracee
           /\ ~T[q].terminated =>
                /\ Alike(FreeTerminated[q], T[q]) /\ AlikeStage(FreeTerminated[q], T[q])
                /\ FreeTerminated[q].restart_how = T[q].restart_how
                /\ FreeTerminated[q].ptracer \in {T[q].ptracer, NoProc}
<1>1. T[q] \in TraceeType
  BY DEF TypeOK
<1>2. CASE T[q].terminated
  BY <1>2 DEF FreeTerminated
<1>3. CASE ~T[q].terminated
  <2> DEFINE a == IF Gone(T[q].parent) THEN NoProc ELSE T[q].parent
             b == IF Gone(T[q].ptracer) THEN NoProc ELSE T[q].ptracer
  <2>1. FreeTerminated[q] = [T[q] EXCEPT !.parent = a, !.ptracer = b]
    BY <1>3 DEF FreeTerminated
  <2>2. b \in {T[q].ptracer, NoProc}
    OBVIOUS
  <2> HIDE DEF a, b
  <2> QED
    BY <1>1, <1>3, <2>1, <2>2 DEF TraceeType, Alike, AlikeStage
<1> QED
  BY <1>2, <1>3

\* The structure of a process the tracer has heard of, as an iteration finds it.
LEMMA CurrentKeeps ==
    ASSUME TypeOK, NEW p \in Proc, T[p].listed, ~T[p].terminated
    PROVE  /\ Alike(Current(p), T[p]) /\ AlikeStage(Current(p), T[p])
           /\ Current(p).ptracer \in {T[p].ptracer, NoProc}
           /\ Current(p).restart_how =
                IF T[p].restart_how # "none" THEN T[p].restart_how
                ELSE IF Fast(T[p]) THEN "CONT" ELSE "SYSCALL"
<1> DEFINE f == FreeTerminated[p]
<1>1. f \in TraceeType
  BY FreeTerminatedType
<1>2. /\ Alike(f, T[p]) /\ AlikeStage(f, T[p])
      /\ f.restart_how = T[p].restart_how
      /\ f.ptracer \in {T[p].ptracer, NoProc}
  BY FreeTerminatedKeeps
<1>3. Current(p) = Default(f)
  BY <1>2 DEF Current, Lookup, Alike
<1> HIDE DEF f
<1>4. CASE f.restart_how # "none"
  BY <1>2, <1>3, <1>4 DEF Default
<1>5. CASE f.restart_how = "none"
  <2> DEFINE h == IF Fast(f) THEN "CONT" ELSE "SYSCALL"
  <2>1. Current(p) = [f EXCEPT !.restart_how = h]
    BY <1>3, <1>5 DEF Default, Fast
  <2>2. h = IF Fast(T[p]) THEN "CONT" ELSE "SYSCALL"
    BY <1>2 DEF Fast, AlikeStage
  <2> HIDE DEF h
  <2>3. /\ Alike(Current(p), f) /\ AlikeStage(Current(p), f)
        /\ Current(p).ptracer = f.ptracer /\ Current(p).restart_how = h
    BY <1>1, <2>1 DEF TraceeType, Alike, AlikeStage
  <2>4. Alike(Current(p), T[p]) /\ AlikeStage(Current(p), T[p])
    BY <1>2, <2>3 DEF Alike, AlikeStage
  <2> QED
    BY <1>2, <1>5, <2>2, <2>3, <2>4
<1> QED
  BY <1>4, <1>5

\* The structure made for a process the tracer has not heard of.
LEMMA CurrentOfNew ==
    ASSUME TypeOK, NEW p \in Proc, T[p].listed => T[p].terminated
    PROVE  /\ Lookup(FreeTerminated, p) = NewTracee
           /\ Alike(Current(p), NewTracee) /\ AlikeStage(Current(p), NewTracee)
           /\ Current(p).ptracer = NoProc
           /\ Current(p).restart_how = "SYSCALL"
<1>1. ~FreeTerminated[p].listed
  <2>1. CASE T[p].terminated
    BY <2>1, FreeTerminatedKeeps DEF NoTracee
  <2>2. CASE ~T[p].terminated
    BY <2>2, FreeTerminatedKeeps DEF Alike
  <2> QED
    BY <2>1, <2>2
<1>2. Lookup(FreeTerminated, p) = NewTracee
  BY <1>1 DEF Lookup
<1>3. Current(p) = [NewTracee EXCEPT !.restart_how = "SYSCALL"]
  BY <1>2 DEF Current, Default, NewTracee, NoTracee
<1> QED
  BY <1>2, <1>3, NewTraceeType DEF TraceeType, Alike, AlikeStage, NewTracee, NoTracee

\* The entry stage, at a syscall stop or at a filter stop.
LEMMA EntryStage ==
    ASSUME NEW t \in TraceeType, NEW s \in SysKinds,
           t.status = 0, t.seccomp # "DISABLING",
           t.seccomp = "DISABLED" => t.restart_how = "SYSCALL"
    PROVE  LET r == CommonFlow(t, s, TRUE)
           IN  /\ Alike(r, t) /\ r.ptracer = t.ptracer
               /\ r.status = 1 /\ r.seccomp = t.seccomp /\ r.restart_how = "SYSCALL"
               /\ r.seccomp = "ENABLED" => r.sysexit_pending
<1>1. CASE t.seccomp = "ENABLED"
  <2> DEFINE x == [t EXCEPT !.restart_how = "SYSCALL", !.sysexit_pending = TRUE]
             r == [x EXCEPT !.status = 1]
  <2>1. Sysexit(t) = x
    BY <1>1 DEF Sysexit
  <2>2. x \in TraceeType /\ x.status = 0 /\ x.restart_how = "SYSCALL" /\ x.sysexit_pending
        /\ x.seccomp = "ENABLED" /\ Alike(x, t) /\ x.ptracer = t.ptracer
    BY <1>1 DEF TraceeType, Alike
  <2> HIDE DEF x
  <2>3. TranslateSyscall(x, s) = r
    BY <2>2 DEF TranslateSyscall
  <2>4. r.seccomp = "ENABLED" /\ r.status = 1 /\ r.sysexit_pending
        /\ r.restart_how = "SYSCALL" /\ Alike(r, t) /\ r.ptracer = t.ptracer
    BY <2>2 DEF TraceeType, Alike
  <2>5. CommonFlow(t, s, TRUE) = r
    BY <1>1, <2>1, <2>3, <2>4 DEF CommonFlow
  <2> QED
    BY <1>1, <2>4, <2>5
<1>2. CASE t.seccomp = "DISABLED"
  <2> DEFINE r == [t EXCEPT !.status = 1]
  <2>1. Sysexit(t) = t
    BY <1>2 DEF Sysexit
  <2>2. TranslateSyscall(t, s) = r
    BY <1>2 DEF TranslateSyscall
  <2>3. r.seccomp = "DISABLED" /\ r.status = 1 /\ r.restart_how = "SYSCALL"
        /\ Alike(r, t) /\ r.ptracer = t.ptracer
    BY <1>2 DEF TraceeType, Alike
  <2>4. CommonFlow(t, s, TRUE) = r
    BY <1>2, <2>1, <2>2, <2>3 DEF CommonFlow
  <2> QED
    BY <1>2, <2>3, <2>4
<1> QED
  BY <1>1, <1>2 DEF TraceeType

\* The exit stage, at a syscall stop: PTRACE_TRACEME may end the acceleration.
LEMMA ExitStage ==
    ASSUME NEW t \in TraceeType, NEW s \in SysKinds,
           t.status = 1, t.seccomp # "DISABLING",
           t.ptracer # NoProc => t.seccomp = "DISABLED",
           t.seccomp = "DISABLED" => t.restart_how = "SYSCALL"
    PROVE  LET r == CommonFlow(t, s, TRUE)
           IN  /\ Alike(r, t) /\ r.status = 0 /\ r.seccomp # "DISABLING"
               /\ r.seccomp = "ENABLED" =>
                    t.seccomp = "ENABLED" /\ ~r.sysexit_pending /\ r.restart_how = "CONT"
               /\ r.seccomp = "DISABLED" => r.restart_how = "SYSCALL"
               /\ r.ptracer # NoProc => r.seccomp = "DISABLED"
<1> DEFINE x == Sysexit(t)
           y == IF s = "traceme" THEN Traceme(x) ELSE x
           z == [y EXCEPT !.status = 0]
<1>1. /\ x \in TraceeType /\ Alike(x, t) /\ x.status = 1
      /\ x.seccomp = t.seccomp /\ x.ptracer = t.ptracer
      /\ x.seccomp = "ENABLED" => x.restart_how = "CONT" /\ ~x.sysexit_pending
      /\ x.seccomp = "DISABLED" => x.restart_how = "SYSCALL"
  <2>1. CASE t.seccomp = "ENABLED"
    <3>1. x = [t EXCEPT !.restart_how = "CONT", !.sysexit_pending = FALSE]
      BY <2>1 DEF Sysexit
    <3> HIDE DEF x
    <3> QED
      BY <2>1, <3>1 DEF TraceeType, Alike
  <2>2. CASE t.seccomp = "DISABLED"
    <3>1. x = t
      BY <2>2 DEF Sysexit
    <3> QED
      BY <2>2, <3>1 DEF Alike
  <2> QED
    BY <2>1, <2>2 DEF TraceeType
<1> HIDE DEF x
<1>2. /\ y \in TraceeType /\ Alike(y, x)
      /\ y.restart_how = x.restart_how /\ y.sysexit_pending = x.sysexit_pending
      /\ y.seccomp = "DISABLED" => x.seccomp = "DISABLED"
      /\ y.seccomp = "ENABLED" => x.seccomp = "ENABLED" /\ y.ptracer = NoProc
  <2>1. CASE s = "traceme" /\ x.ptracer = NoProc
    <3> DEFINE c == IF x.seccomp = "ENABLED" THEN "DISABLING" ELSE x.seccomp
    <3>1. y = [x EXCEPT !.ptracer = x.parent, !.seccomp = c]
      BY <2>1 DEF Traceme
    <3>2. c \in {"DISABLED", "DISABLING"} /\ (c = "DISABLED" => x.seccomp = "DISABLED")
      BY <1>1 DEF TraceeType
    <3> HIDE DEF c, y
    <3> QED
      BY <1>1, <3>1, <3>2 DEF TraceeType, Alike
  <2>2. CASE ~(s = "traceme" /\ x.ptracer = NoProc)
    <3>1. y = x
      BY <2>2 DEF Traceme
    <3>2. x.seccomp = "ENABLED" => x.ptracer = NoProc
      BY <1>1
    <3> HIDE DEF y
    <3> QED
      BY <1>1, <3>1, <3>2 DEF Alike
  <2> QED
    BY <2>1, <2>2
<1>3. TranslateSyscall(x, s) = z
  BY <1>1 DEF TranslateSyscall
<1> HIDE DEF y
<1>4. /\ z \in TraceeType /\ Alike(z, t) /\ z.status = 0
      /\ z.seccomp = y.seccomp /\ z.ptracer = y.ptracer
      /\ z.restart_how = x.restart_how /\ z.sysexit_pending = x.sysexit_pending
  BY <1>1, <1>2 DEF TraceeType, Alike
<1> HIDE DEF z
<1>5. CASE z.seccomp = "DISABLING"
  <2>1. CommonFlow(t, s, TRUE) = [z EXCEPT !.seccomp = "DISABLED", !.restart_how = "SYSCALL"]
    BY <1>3, <1>5 DEF CommonFlow, x
  <2> QED
    BY ZenonT(60), <1>4, <2>1 DEF TraceeType, Alike
<1>6. CASE z.seccomp # "DISABLING"
  <2>1. CommonFlow(t, s, TRUE) = z
    BY <1>3, <1>6 DEF CommonFlow, x
  <2>2. z.seccomp \in {"ENABLED", "DISABLED"}
    BY <1>4, <1>6 DEF TraceeType
  <2> QED
    BY <1>1, <1>2, <1>4, <1>6, <2>1, <2>2
<1> QED
  BY <1>5, <1>6

\* A filter stop of a call that has no exit stage.
LEMMA FilterStage ==
    ASSUME NEW t \in TraceeType, NEW s \in SysKinds,
           t.status = 0, t.seccomp = "ENABLED", ~FilterSysexit(s)
    PROVE  LET r == SeccompFlow(t, s, TRUE)
           IN  /\ Alike(r, t) /\ AlikeStage(r, t) /\ r.ptracer = t.ptracer
               /\ r.restart_how = "CONT"
<1> DEFINE x == [t EXCEPT !.restart_how = "CONT"]
           r == [x EXCEPT !.status = 0]
<1>1. x \in TraceeType /\ x.status = 0 /\ x.seccomp = "ENABLED" /\ x.restart_how = "CONT"
      /\ Alike(x, t) /\ AlikeStage(x, t) /\ x.ptracer = t.ptracer
  BY DEF TraceeType, Alike, AlikeStage
<1>2. TranslateSyscall(x, s) = r
  BY <1>1 DEF TranslateSyscall
<1> HIDE DEF x
<1>3. r.seccomp = "ENABLED" /\ Alike(r, t) /\ AlikeStage(r, t) /\ r.ptracer = t.ptracer
      /\ r.restart_how = "CONT"
  BY <1>1 DEF TraceeType, Alike, AlikeStage
<1>4. SeccompFlow(t, s, TRUE) = r
  BY <1>2, <1>3 DEF SeccompFlow, x
<1> QED
  BY <1>3, <1>4


-----------------------------------------------------------------------------
(***************************************************************************)
(* The invariant, process by process.                                      *)
(***************************************************************************)
Sound(p) == Live(p) /\ birth[p] # "late" => Mirrors(p)

\* A step of another process keeps q sound: free_terminated_tracees may only
\* clear the links of its structure.
LEMMA OtherStaysSound ==
    ASSUME TypeOK, NEW q \in Proc, Sound(q),
           at'[q] = at[q], ev'[q] = ev[q], sys'[q] = sys[q], tif'[q] = tif[q],
           opts'[q] = opts[q], filter'[q] = filter[q], birth'[q] = birth[q],
           enters'[q] = enters[q], exits'[q] = exits[q],
           T'[q] \in {T[q], FreeTerminated[q]}
    PROVE  Sound(q)'
<1> SUFFICES ASSUME Live(q), birth[q] # "late" PROVE Mirrors(q)'
  BY DEF Sound, Live
<1>1. Mirrors(q)
  BY DEF Sound
<1>2. CASE birth[q] = "pending"
  <2>1. T'[q].listed => T'[q].terminated
    BY <1>1, <1>2, FreeTerminatedKeeps DEF Mirrors, Listing, NoTracee, Alike
  <2> QED
    BY <1>1, <1>2, <2>1 DEF Mirrors, Listing
<1>3. CASE birth[q] # "pending"
  <2>1. T[q].listed /\ ~T[q].terminated
    BY <1>1, <1>3 DEF Mirrors, Listing
  <2>2. /\ Alike(T'[q], T[q]) /\ AlikeStage(T'[q], T[q])
        /\ T'[q].restart_how = T[q].restart_how
        /\ T'[q].ptracer \in {T[q].ptracer, NoProc}
    BY ZenonT(60), <2>1, FreeTerminatedKeeps DEF Alike, AlikeStage
  <2>3. Listing(q)' /\ Unset(q)'
    BY <1>1, <1>3, <2>2 DEF Mirrors, Listing, Unset, Alike, AlikeStage
  <2>4. InUser(q, T[q])'
    BY <1>1, <1>3, <2>2 DEF Mirrors, InUser, Fast, AlikeStage
  <2>5. InEntry(q, T[q])' /\ InFilter(q, T[q])' /\ InBody(q, T[q])' /\ InLeave(q, T[q])'
    BY <1>1, <1>3, <2>2 DEF Mirrors, InEntry, InFilter, InBody, InLeave, AlikeStage
  <2> QED
    BY <1>1, <1>3, <2>2, <2>3, <2>4, <2>5 DEF Mirrors, Alike, AlikeStage
<1> QED
  BY <1>2, <1>3

\* The conjuncts of the invariant that relate processes to each other.
Shared == Optioned /\ Untouched /\ Linked /\ Placed

LEMMA InvariantSplits ==
    IInv <=> (tracer = "running" => (\A p \in Proc : Sound(p)) /\ Shared)
  BY DEF IInv, Sound, Shared

\* A step of the kernel that changes one process, and none of what is shared.
LEMMA LocalStepFrame ==
    ASSUME TypeOK, NEW p \in Proc, \A q \in Proc : Sound(q),
           \A q \in Proc \ {p} :
               /\ at'[q] = at[q] /\ ev'[q] = ev[q] /\ sys'[q] = sys[q] /\ tif'[q] = tif[q]
               /\ opts'[q] = opts[q] /\ filter'[q] = filter[q] /\ birth'[q] = birth[q]
               /\ enters'[q] = enters[q] /\ exits'[q] = exits[q]
               /\ T'[q] \in {T[q], FreeTerminated[q]}
    PROVE  \A q \in Proc \ {p} : Sound(q)'
  BY OtherStaysSound

\* Shared is kept by a step of p that brings no process to life and changes
\* neither its filter, unless it executes, nor its options, unless they are set.
LEMMA LocalStepShared ==
    ASSUME TypeOK, Shared, NEW p \in Proc, Sound(p),
           at[p] # "untraced", NEW place \in Places \ {"untraced"}, NEW event \in Events,
           Move(p, place, event), msg' = msg,
           \A q \in Proc \ {p} :
               sys'[q] = sys[q] /\ filter'[q] = filter[q] /\ birth'[q] = birth[q]
               /\ opts'[q] = opts[q],
           opts'[p] = opts[p] \/ (ev[p] = "sigtrap" /\ opts'[p] # "none"),
           filter'[p] = filter[p] \/ (at[p] = "body" /\ ev[p] # "clone"),
           birth'[p] = birth[p] \/ (birth[p] = "pending" /\ birth'[p] = "early"),
           place \notin {"dying", "dead", "absent"} => Live(p),
           event = "clone" => place = "after" /\ ev[p] = "clone",
           event = "seccomp" => place = "filter"
    PROVE  Shared'
<1> USE DEF TypeOK, Shared, Move
<1>1. Optioned'
  BY DEF Optioned, Live
<1>2. Untouched'
  BY DEF Untouched
<1>3. Linked'
  <2> SUFFICES ASSUME NEW q \in Proc, ev'[q] = "clone"
               PROVE  /\ at'[q] = "after" /\ msg[q] \in Proc
                      /\ at'[msg[q]] # "untraced"
                      /\ Live(msg[q])' => opts'[msg[q]] # "none"
                      /\ Live(msg[q])' /\ birth'[msg[q]] = "pending" =>
                            filter'[msg[q]] = filter'[q] /\ opts'[msg[q]] = opts'[q]
    BY DEF Linked, Live
  <2>1. ev[q] = "clone"
    OBVIOUS
  <2>2. /\ at[q] = "after" /\ msg[q] \in Proc /\ at[msg[q]] # "untraced"
        /\ Live(msg[q]) => opts[msg[q]] # "none"
        /\ Live(msg[q]) /\ birth[msg[q]] = "pending" =>
              filter[msg[q]] = filter[q] /\ opts[msg[q]] = opts[q]
    BY <2>1 DEF Linked
  <2>3. at'[q] = "after" /\ at'[msg[q]] # "untraced"
    BY <2>1, <2>2
  <2>4. Live(msg[q])' => Live(msg[q])
    BY <2>2 DEF Live
  <2>5. Live(msg[q])' /\ birth'[msg[q]] = "pending" => birth[msg[q]] = "pending"
    BY <2>2
  <2>6. filter'[q] = filter[q] /\ opts'[q] = opts[q]
    BY <2>1, <2>2
  <2>7. Live(msg[q]) /\ birth[msg[q]] = "pending" =>
           filter'[msg[q]] = filter[msg[q]] /\ opts'[msg[q]] = opts[msg[q]]
    <3>1. CASE msg[q] = p
      BY <3>1 DEF Sound, Mirrors, Listing
    <3>2. CASE msg[q] # p
      BY <2>2, <3>2
    <3> QED
      BY <3>1, <3>2
  <2> QED
    BY <2>2, <2>3, <2>4, <2>5, <2>6, <2>7
<1>4. Placed'
  BY DEF Placed
<1> QED
  BY <1>1, <1>2, <1>3, <1>4

-----------------------------------------------------------------------------
(***************************************************************************)
(* The steps of the kernel keep the invariant.                             *)
(***************************************************************************)
LocalKernel(p) == Kernel(p) /\ \A c \in Proc : ~Fork(p, c)

LEMMA LocalKernelSound ==
    ASSUME TypeOK, NEW p \in Proc, Sound(p), LocalKernel(p)
    PROVE  Sound(p)'
<1> SUFFICES ASSUME Live(p)', birth'[p] # "late" PROVE Mirrors(p)'
  BY DEF Sound
<1> USE DEF TypeOK, Runs, Move, history
<1>a. UNCHANGED <<T, birth>>
  BY DEF LocalKernel, Kernel, EnterKernel, MeetFilter, Execute, Exec, Exit, Die, Leave,
         GetSignal, Killed
<1>b. Live(p) /\ at[p] # "dying"
  BY DEF LocalKernel, Kernel, EnterKernel, MeetFilter, Execute, Exec, Exit, Die, Leave,
         GetSignal, Killed, Live
<1>c. Mirrors(p)
  BY <1>a, <1>b DEF Sound
<1>1. ASSUME NEW s \in Sys, EnterKernel(p, s) PROVE Mirrors(p)'
  <2>1. birth[p] # "pending" /\ T[p].restart_how = "none" /\ T[p].status = 0
    BY <1>1, <1>c DEF EnterKernel, Mirrors, Listing, InUser
  <2>2. /\ tif[p] = ~Fast(T[p])
        /\ T[p].seccomp = "ENABLED" /\ T[p].sysexit_pending => ~filter[p]
    BY <1>1, <1>c, <2>1 DEF EnterKernel, Mirrors, InUser
  <2>3. Listing(p)' /\ Unset(p)'
    BY <1>1, <1>c, <1>a, <2>1, <2>2 DEF EnterKernel, Mirrors, Listing, Unset, SyscallStop, Fast
  <2>4. InEntry(p, T[p])'
    <3>1. T[p].seccomp = "ENABLED" => tif[p] = T[p].sysexit_pending
      BY <2>2 DEF Fast, TraceeType
    <3>2. T[p].seccomp = "DISABLED" => tif[p]
      BY <2>2 DEF Fast
    <3>3. opts[p] = "none" => tif[p]
      BY <1>c, <2>1, <3>2 DEF Mirrors, Unset
    <3> QED
      BY <1>1, <1>a, <2>1, <2>2, <3>1, <3>2, <3>3 DEF EnterKernel, InEntry, SyscallStop
  <2> QED
    BY <1>1, <1>c, <1>a, <2>1, <2>3, <2>4
       DEF EnterKernel, Mirrors, InUser, InFilter, InBody, InLeave
<1>2. CASE MeetFilter(p)
  <2>1. birth[p] # "pending" /\ opts[p] # "none" /\ InEntry(p, T[p])
    BY <1>2, <1>c DEF MeetFilter, Mirrors, Listing, InEntry
  <2>2. Listing(p)' /\ Unset(p)'
    BY <1>2, <1>c, <1>a, <2>1 DEF MeetFilter, Mirrors, Listing, Unset
  <2>3. InFilter(p, T[p])' /\ InBody(p, T[p])'
    BY <1>2, <1>c, <1>a, <2>1
       DEF MeetFilter, Mirrors, InEntry, InFilter, InBody, Filtered, FilterSysexit
  <2> QED
    BY <1>2, <1>c, <1>a, <2>1, <2>2, <2>3 DEF MeetFilter, Mirrors, InUser, InEntry, InLeave
<1>3. CASE Execute(p) \/ Exec(p) \/ Exit(p)
  <2>1. birth[p] # "pending" /\ opts[p] # "none" /\ InBody(p, T[p])
    BY <1>3, <1>c DEF Execute, Exec, Exit, Mirrors, Listing, Unset
  <2>2. Listing(p)' /\ Unset(p)'
    BY <1>3, <1>c, <1>a, <2>1 DEF Execute, Exec, Exit, Mirrors, Listing, Unset
  <2>3. InBody(p, T[p])'
    BY <1>3, <1>c, <1>a, <2>1
       DEF Execute, Exec, Exit, Mirrors, InBody, Filtered, FilterSysexit
  <2> QED
    BY <1>3, <1>c, <1>a, <2>1, <2>2, <2>3
       DEF Execute, Exec, Exit, Mirrors, InUser, InEntry, InFilter, InLeave, Live
<1>4. CASE Leave(p)
  <2>1. birth[p] # "pending" /\ opts[p] # "none" /\ InBody(p, T[p]) /\ T[p].restart_how = "none"
    BY <1>4, <1>c DEF Leave, Mirrors, Listing, Unset
  <2>2. T[p].seccomp \in {"ENABLED", "DISABLED"}
    BY <1>c, <2>1 DEF Mirrors, TraceeType
  <2>3. Listing(p)' /\ Unset(p)'
    BY <1>4, <1>c, <1>a, <2>1 DEF Leave, Mirrors, Listing, Unset, SyscallStop
  <2>4. InUser(p, T[p])' /\ InLeave(p, T[p])'
    BY <1>4, <1>c, <1>a, <2>1, <2>2
       DEF Leave, Mirrors, InBody, InUser, InLeave, SyscallStop, Fast, Filtered, FilterSysexit
  <2> QED
    BY <1>4, <1>c, <1>a, <2>1, <2>3, <2>4 DEF Leave, Mirrors, InEntry, InFilter, InBody
<1>5. CASE GetSignal(p)
  <2>1. birth[p] # "pending"
    BY <1>5, <1>c DEF GetSignal, Mirrors, Listing
  <2> QED
    BY <1>5, <1>c, <1>a, <2>1
       DEF GetSignal, Mirrors, Listing, Unset, InUser, InEntry, InFilter, InBody, InLeave
<1>6. CASE Die(p) \/ Killed(p)
  BY <1>6 DEF Die, Killed, Live
<1> QED
  BY <1>1, <1>2, <1>3, <1>4, <1>5, <1>6 DEF LocalKernel, Kernel

LEMMA LocalKernelShared ==
    ASSUME TypeOK, Shared, NEW p \in Proc, Sound(p), LocalKernel(p)
    PROVE  Shared'
<1> USE DEF Runs
<1>1. /\ Live(p) \/ at[p] = "dying"
      /\ opts' = opts /\ msg' = msg /\ birth' = birth
      /\ \A q \in Proc \ {p} : sys'[q] = sys[q] /\ filter'[q] = filter[q]
  BY DEF LocalKernel, Kernel, EnterKernel, MeetFilter, Execute, Exec, Exit, Die, Leave,
         GetSignal, Killed, Live, TypeOK, history
<1>2. ASSUME NEW place \in Places \ {"untraced"}, NEW event \in Events, Move(p, place, event),
             filter'[p] = filter[p] \/ (at[p] = "body" /\ ev[p] # "clone"),
             place \notin {"dying", "dead", "absent"} => Live(p),
             event # "clone", event = "seccomp" => place = "filter"
      PROVE  Shared'
  BY <1>1, <1>2, LocalStepShared DEF Live
<1>3. ASSUME NEW s \in Sys, EnterKernel(p, s) PROVE Shared'
  <2> DEFINE event == IF tif[p] THEN SyscallStop(p) ELSE "none"
  <2>1. event \in Events \ {"clone", "seccomp"}
    BY DEF SyscallStop, Events
  <2>2. Move(p, "entry", event) /\ Live(p) /\ filter' = filter
    BY <1>3 DEF EnterKernel, Live
  <2> HIDE DEF event
  <2> QED
    BY <1>2, <2>1, <2>2 DEF Places
<1>4. CASE MeetFilter(p)
  <2>1. Live(p) /\ sys' = sys /\ filter' = filter
    BY <1>4 DEF MeetFilter, Live
  <2>2. CASE filter[p] /\ Filtered(sys[p])
    <3>1. Move(p, "filter", "seccomp")
      BY <1>4, <2>2 DEF MeetFilter
    <3> QED
      BY <1>2, <2>1, <3>1 DEF Places, Events
  <2>3. CASE ~(filter[p] /\ Filtered(sys[p]))
    <3>1. Move(p, "body", "none")
      BY <1>4, <2>3 DEF MeetFilter
    <3> QED
      BY <1>2, <2>1, <3>1 DEF Places, Events
  <2> QED
    BY <2>2, <2>3
<1>5. CASE Execute(p)
  <2>1. Live(p) /\ sys' = sys /\ Move(p, "after", "none") /\ at[p] = "body" /\ ev[p] = "none"
    BY <1>5 DEF Execute, Live
  <2> QED
    BY <1>2, <2>1 DEF Places, Events
<1>6. CASE Exec(p)
  <2>1. Live(p) /\ sys' = sys /\ Move(p, "after", "note") /\ filter' = filter
    BY <1>6 DEF Exec, Live
  <2> QED
    BY <1>2, <2>1 DEF Places, Events
<1>7. CASE Exit(p)
  <2>1. sys' = sys /\ Move(p, "dying", "note") /\ filter' = filter
    BY <1>7 DEF Exit
  <2> QED
    BY <1>2, <2>1 DEF Places, Events
<1>8. CASE Die(p) \/ Killed(p)
  <2>1. sys' = sys /\ Move(p, "dead", "gone") /\ filter' = filter
    BY <1>8 DEF Die, Killed
  <2> QED
    BY <1>2, <2>1 DEF Places, Events
<1>9. CASE Leave(p)
  <2>1. Live(p) /\ sys' = sys /\ filter' = filter
    BY <1>9 DEF Leave, Live
  <2>2. CASE tif[p]
    <3>1. Move(p, "leave", SyscallStop(p)) /\ SyscallStop(p) \in {"sigtrap", "sysgood"}
      BY <1>9, <2>2 DEF Leave, SyscallStop
    <3> QED
      BY <1>2, <2>1, <3>1 DEF Places, Events
  <2>3. CASE ~tif[p]
    <3>1. Move(p, "user", "none")
      BY <1>9, <2>3 DEF Leave
    <3> QED
      BY <1>2, <2>1, <3>1 DEF Places, Events
  <2> QED
    BY <2>2, <2>3
<1>10. CASE GetSignal(p)
  <2>1. Live(p) /\ sys' = sys /\ Move(p, "user", "signal") /\ filter' = filter
    BY <1>10 DEF GetSignal, Move, Live, TypeOK
  <2> QED
    BY <1>2, <2>1 DEF Places, Events
<1> QED
  BY <1>3, <1>4, <1>5, <1>6, <1>7, <1>8, <1>9, <1>10 DEF LocalKernel, Kernel

\* The child of a fork is as its parent made it, unless it can be mistaken.
LEMMA ForkKeeps ==
    ASSUME TypeOK, \A q \in Proc : Sound(q), Shared, NEW p \in Proc, NEW c \in Proc, Fork(p, c)
    PROVE  (\A q \in Proc : Sound(q))' /\ Shared'
<1> USE DEF TypeOK, Runs
<1>1. /\ at[p] = "body" /\ ev[p] = "none" /\ sys[p] = "fork" /\ at[c] = "absent" /\ c # p
      /\ Live(p) /\ ~Live(c)
  BY DEF Fork, Live
<1>2. opts[p] # "none"
  <2>1. CASE birth[p] = "late"
    BY <1>1, <2>1 DEF Shared, Optioned
  <2>2. CASE birth[p] # "late"
    BY <1>1, <2>2 DEF Sound, Mirrors, Listing, Unset
  <2> QED
    BY <2>1, <2>2
<1>3. /\ at'[p] = "after" /\ ev'[p] = "clone" /\ msg'[p] = c
      /\ at'[c] = "user" /\ ev'[c] = "sigstop" /\ sys'[c] = "fork"
      /\ opts'[c] = opts[p] /\ filter'[c] = filter[p]
      /\ birth'[c] = (IF Mistakable(p, c) THEN "late" ELSE "pending")
      /\ T' = T
  BY <1>1 DEF Fork
<1>4. \A q \in Proc \ {c} :
        /\ sys'[q] = sys[q] /\ tif'[q] = tif[q] /\ opts'[q] = opts[q] /\ filter'[q] = filter[q]
        /\ birth'[q] = birth[q] /\ enters'[q] = enters[q] /\ exits'[q] = exits[q]
  BY DEF Fork
<1>5. \A q \in Proc \ {p, c} : at'[q] = at[q] /\ ev'[q] = ev[q] /\ msg'[q] = msg[q]
  BY DEF Fork
<1>6. \A q \in Proc \ {p, c} : Sound(q)'
  BY <1>3, <1>4, <1>5, OtherStaysSound
<1>7. Sound(p)'
  <2> SUFFICES ASSUME birth[p] # "late" PROVE Mirrors(p)'
    BY <1>1, <1>4 DEF Sound
  <2>1. birth[p] # "pending" /\ Mirrors(p)
    BY <1>1 DEF Sound, Mirrors, Listing
  <2> QED
    BY <1>1, <1>2, <1>3, <1>4, <2>1
       DEF Mirrors, Listing, Unset, InUser, InEntry, InFilter, InBody, InLeave
<1>8. Sound(c)'
  BY <1>3 DEF Sound, Mirrors, Listing, Mistakable, FilterSysexit
<1>9. Optioned'
  BY <1>1, <1>2, <1>3, <1>4, <1>5 DEF Shared, Optioned, Live
<1>10. Untouched'
  BY <1>3, <1>4, <1>5 DEF Shared, Untouched
<1>11. Linked'
  <2> SUFFICES ASSUME NEW q \in Proc, ev'[q] = "clone", NEW d, d = msg'[q]
               PROVE  /\ at'[q] = "after" /\ d \in Proc
                      /\ at'[d] # "untraced"
                      /\ Live(d)' => opts'[d] # "none"
                      /\ Live(d)' /\ birth'[d] = "pending" =>
                            filter'[d] = filter'[q] /\ opts'[d] = opts'[q]
    BY DEF Linked, Live
  <2>1. CASE q = p
    BY <1>1, <1>2, <1>3, <1>4, <2>1
  <2>2. CASE q # p
    <3>1. q # c /\ ev[q] = "clone" /\ at[q] = "after" /\ at'[q] = "after" /\ msg[q] = d
      BY <1>3, <1>5, <2>2 DEF Shared, Linked
    <3>2. /\ d \in Proc /\ at[d] # "untraced"
          /\ Live(d) => opts[d] # "none"
          /\ Live(d) /\ birth[d] = "pending" => filter[d] = filter[q] /\ opts[d] = opts[q]
      BY <3>1 DEF Shared, Linked
    <3>3. CASE d = c
      <4>1. Mistakable(p, c)
        BY <2>2, <3>1, <3>3 DEF Mistakable
      <4> QED
        BY <1>2, <1>3, <3>1, <3>3, <4>1
    <3>4. CASE d # c
      <4>1. Live(d)' => Live(d)
        BY <1>1, <1>5, <3>2, <3>4 DEF Live
      <4>2. at'[d] # "untraced"
        BY <1>3, <1>5, <3>2, <3>4
      <4> QED
        BY <1>4, <3>1, <3>2, <3>4, <4>1, <4>2
    <3> QED
      BY <3>3, <3>4
  <2> QED
    BY <2>1, <2>2
<1>12. Placed'
  BY <1>3, <1>5 DEF Shared, Placed
<1> QED
  BY <1>6, <1>7, <1>8, <1>9, <1>10, <1>11, <1>12 DEF Shared

LEMMA KernelKeeps ==
    ASSUME TypeOK, \A q \in Proc : Sound(q), Shared, NEW p \in Proc, Kernel(p)
    PROVE  (\A q \in Proc : Sound(q))' /\ Shared'
<1>1. ASSUME NEW c \in Proc, Fork(p, c) PROVE (\A q \in Proc : Sound(q))' /\ Shared'
  BY <1>1, ForkKeeps
<1>2. CASE LocalKernel(p)
  <2>1. \A q \in Proc \ {p} :
               /\ at'[q] = at[q] /\ ev'[q] = ev[q] /\ sys'[q] = sys[q] /\ tif'[q] = tif[q]
               /\ opts'[q] = opts[q] /\ filter'[q] = filter[q] /\ birth'[q] = birth[q]
               /\ enters'[q] = enters[q] /\ exits'[q] = exits[q]
               /\ T'[q] \in {T[q], FreeTerminated[q]}
    BY <1>2 DEF LocalKernel, Kernel, EnterKernel, MeetFilter, Execute, Exec, Exit, Die, Leave,
                GetSignal, Killed, Move, TypeOK, history
  <2>2. \A q \in Proc \ {p} : Sound(q)'
    BY <2>1, LocalStepFrame
  <2> QED
    BY <1>2, <2>2, LocalKernelSound, LocalKernelShared
<1> QED
  BY <1>1, <1>2 DEF LocalKernel

-----------------------------------------------------------------------------
(***************************************************************************)
(* The iterations of the loop keep the invariant.                          *)
(***************************************************************************)

\* Everything but p itself, when p is handled and restarted or found dead.
LEMMA RestartKeeps ==
    ASSUME TypeOK, \A q \in Proc : Sound(q), Shared,
           NEW p \in Proc, ev[p] # "none", NEW t \in TraceeType, NEW alive \in BOOLEAN,
           Restart(p, FreeTerminated, t, alive), RanAhead(p, alive) \/ birth' = birth,
           sys' = sys, filter' = filter, msg' = msg,
           \A q \in Proc \ {p} :
               opts'[q] = opts[q] /\ enters'[q] = enters[q] /\ exits'[q] = exits[q],
           opts'[p] = opts[p] \/ (ev[p] = "sigtrap" /\ opts'[p] # "none")
    PROVE  /\ \A q \in Proc \ {p} : Sound(q)'
           /\ Shared'
           /\ ~alive => Sound(p)'
<1> USE DEF TypeOK
<1>1. at[p] # "untraced"
  BY DEF Shared, Untouched
<1>2. /\ \A q \in Proc \ {p} : birth'[q] = birth[q]
      /\ birth'[p] = birth[p] \/ (birth[p] = "pending" /\ birth'[p] = "early")
  BY DEF RanAhead
<1>3. \A q \in Proc \ {p} :
          at'[q] = at[q] /\ ev'[q] = ev[q] /\ tif'[q] = tif[q] /\ T'[q] = FreeTerminated[q]
  <2>1. T' = [FreeTerminated EXCEPT ![p] = IF alive THEN [t EXCEPT !.restart_how = "none"] ELSE t]
    BY DEF Restart
  <2>2. \A q \in Proc \ {p} : T'[q] = FreeTerminated[q]
    BY <2>1, FreeTerminatedType
  <2> QED
    BY <2>2 DEF Restart, Move
<1>4. \A q \in Proc \ {p} : Sound(q)'
  BY <1>2, <1>3, LocalStepFrame
<1>5. PICK place \in Places \ {"untraced"}, event \in {"none", "gone"} :
        /\ Move(p, place, event)
        /\ place \notin {"dying", "dead", "absent"} => Live(p)
        /\ ~alive => place = "dead"
  <2>1. CASE alive
    <3>1. Move(p, Resumed(at[p]), "none")
      BY <2>1 DEF Restart
    <3>2. /\ Resumed(at[p]) \in Places \ {"untraced"}
          /\ Resumed(at[p]) \notin {"dying", "dead", "absent"} => Live(p)
      BY <1>1 DEF Resumed, Places, Live
    <3> QED
      BY <2>1, <3>1, <3>2
  <2>2. CASE ~alive
    BY <2>2 DEF Restart, Places
  <2> QED
    BY <2>1, <2>2
<1>6. Shared'
  <2>1. event \in Events /\ event # "clone" /\ event # "seccomp"
    BY DEF Events
  <2> QED
    BY <1>1, <1>2, <1>5, <2>1, LocalStepShared
<1>7. ~alive => Sound(p)'
  BY <1>5 DEF Sound, Live, Move
<1> QED
  BY <1>4, <1>6, <1>7

\* p, when it is restarted.
LEMMA RestartResumes ==
    ASSUME TypeOK, NEW p \in Proc, NEW tracees \in [Proc -> TraceeType], NEW t \in TraceeType,
           Restart(p, tracees, t, TRUE)
    PROVE  /\ at'[p] = Resumed(at[p]) /\ ev'[p] = "none"
           /\ tif'[p] = (t.restart_how = "SYSCALL")
           /\ Alike(T'[p], t) /\ AlikeStage(T'[p], t)
           /\ T'[p].ptracer = t.ptracer /\ T'[p].restart_how = "none"
<1> DEFINE u == [t EXCEPT !.restart_how = "none"]
<1>1. Alike(u, t) /\ AlikeStage(u, t) /\ u.ptracer = t.ptracer /\ u.restart_how = "none"
  BY DEF TraceeType, Alike, AlikeStage
<1>2. T' = [tracees EXCEPT ![p] = u]
  BY DEF Restart
<1> HIDE DEF u
<1>3. T'[p] = u
  BY <1>2
<1>4. tif' = [tif EXCEPT ![p] = (t.restart_how = "SYSCALL")]
  BY DEF Restart
<1> QED
  BY <1>1, <1>3, <1>4 DEF Restart, Move, TypeOK

\* What the tracer finds of a process it has heard of.
LEMMA CurrentMirrors ==
    ASSUME TypeOK, NEW p \in Proc, Mirrors(p), birth[p] # "pending"
    PROVE  /\ Current(p) \in TraceeType
           /\ Alike(Current(p), T[p]) /\ AlikeStage(Current(p), T[p])
           /\ Current(p).ptracer \in {T[p].ptracer, NoProc}
           /\ Current(p).restart_how = (IF Fast(T[p]) THEN "CONT" ELSE "SYSCALL")
<1>1. T[p].listed /\ ~T[p].terminated
  BY DEF Mirrors, Listing
<1>2. T[p].restart_how # "none" => T[p].restart_how = (IF Fast(T[p]) THEN "CONT" ELSE "SYSCALL")
  BY DEF Mirrors, InUser, TypeOK, TraceeType
<1> QED
  BY <1>1, <1>2, CurrentKeeps, CurrentType

\* An event that is no stage of a system call leaves the tracer's memory as it
\* is, or makes it that of a new tracee.
LEMMA PassedOnSound ==
    ASSUME TypeOK, NEW p \in Proc, Sound(p), Optioned,
           ev[p] \in {"signal", "note", "sigstop", "clone"},
           NEW tracees \in [Proc -> TraceeType], NEW t \in TraceeType,
           Alike(t, Current(p)), AlikeStage(t, Current(p)),
           t.ptracer = Current(p).ptracer, t.restart_how = Current(p).restart_how,
           Restart(p, tracees, t, TRUE),
           sys'[p] = sys[p], opts'[p] = opts[p], filter'[p] = filter[p],
           enters'[p] = enters[p], exits'[p] = exits[p],
           birth'[p] = (IF birth[p] = "pending" THEN "early" ELSE birth[p])
    PROVE  Sound(p)'
<1> SUFFICES ASSUME Live(p)', birth'[p] # "late" PROVE Mirrors(p)'
  BY DEF Sound
<1>r. /\ at'[p] = Resumed(at[p]) /\ ev'[p] = "none"
      /\ tif'[p] = (t.restart_how = "SYSCALL")
      /\ Alike(T'[p], t) /\ AlikeStage(T'[p], t)
      /\ T'[p].ptracer = t.ptracer /\ T'[p].restart_how = "none"
  BY RestartResumes
<1>l. Live(p) /\ birth[p] # "late"
  BY <1>r DEF Live, Resumed, TypeOK, Births
<1>m. Mirrors(p)
  BY <1>l DEF Sound
<1>1. CASE birth[p] = "pending"
  <2>1. at[p] = "user" /\ ev[p] = "sigstop" /\ ~FilterSysexit(sys[p]) /\ opts[p] # "none"
        /\ (T[p].listed => T[p].terminated)
    BY <1>1, <1>l, <1>m DEF Mirrors, Listing, Optioned
  <2>2. /\ Alike(T'[p], NewTracee) /\ AlikeStage(T'[p], NewTracee)
        /\ T'[p].ptracer = NoProc /\ tif'[p] /\ at'[p] = "user"
    BY <1>r, <2>1, CurrentOfNew DEF Alike, AlikeStage, Resumed
  <2>3. /\ T'[p].listed /\ ~T'[p].terminated /\ ~T'[p].seccomp_enabled
        /\ T'[p].status = 0 /\ T'[p].seccomp = "DISABLED"
    BY <2>2 DEF Alike, AlikeStage, NewTracee, NoTracee
  <2>4. InUser(p, T[p])'
    BY <1>r, <2>1, <2>2, <2>3 DEF InUser, Fast
  <2> QED
    BY <1>1, <1>r, <2>1, <2>2, <2>3, <2>4
       DEF Mirrors, Listing, Unset, InEntry, InFilter, InBody, InLeave
<1>2. CASE birth[p] # "pending"
  <2>1. /\ Alike(T'[p], T[p]) /\ AlikeStage(T'[p], T[p])
        /\ T'[p].ptracer \in {T[p].ptracer, NoProc}
        /\ tif'[p] = ~Fast(T[p])
    BY <1>2, <1>m, <1>r, CurrentMirrors DEF Alike, AlikeStage
  <2>2. birth'[p] = birth[p] /\ T'[p].listed /\ ~T'[p].terminated
    BY <1>2, <1>m, <2>1 DEF Mirrors, Listing, Alike
  <2>3. at'[p] = at[p] /\ at[p] \in {"user", "after"}
    BY <1>2, <1>m, <1>r, <1>l
       DEF Mirrors, InUser, InEntry, InFilter, InBody, InLeave, Live, TypeOK, Places, Resumed
  <2>4. Listing(p)'
    BY <1>2, <1>m, <1>r, <2>2 DEF Mirrors, Listing
  <2>5. Unset(p)'
    BY <1>2, <1>m, <2>1, <2>3 DEF Mirrors, Unset, Alike, AlikeStage
  <2>6. InUser(p, T[p])'
    BY <1>2, <1>m, <1>r, <2>1, <2>3 DEF Mirrors, Listing, InUser, Fast, AlikeStage
  <2>7. InBody(p, T[p])'
    <3> SUFFICES ASSUME at[p] = "after" PROVE InBody(p, T[p])'
      BY <2>3 DEF InBody
    <3>1. InBody(p, T[p]) /\ T[p].seccomp \in {"ENABLED", "DISABLED"}
      BY <1>2, <1>m DEF Mirrors, TypeOK, TraceeType
    <3>2. tif'[p] = tif[p]
      BY <2>1, <3>1 DEF InBody, Fast, TypeOK, TraceeType
    <3> QED
      BY <1>r, <2>1, <2>3, <3>1, <3>2 DEF InBody, AlikeStage
  <2>8. InEntry(p, T[p])' /\ InFilter(p, T[p])' /\ InLeave(p, T[p])'
    BY <2>3 DEF InEntry, InFilter, InLeave
  <2>9. /\ T'[p].seccomp # "DISABLING"
        /\ opts'[p] = "nosec" \/ T'[p].ptracer # NoProc => T'[p].seccomp = "DISABLED"
        /\ T'[p].seccomp_enabled => T'[p].seccomp_detected
    BY <1>2, <1>m, <2>1 DEF Mirrors, Alike, AlikeStage
  <2> QED
    BY <1>r, <2>4, <2>5, <2>6, <2>7, <2>8, <2>9 DEF Mirrors
<1> QED
  BY <1>1, <1>2

\* The callbacks of p are counted, up to the bound of the model.
LEMMA CallbacksCount ==
    ASSUME TypeOK, NEW p \in Proc, NEW t, NEW translated \in BOOLEAN, Callbacks(p, t, translated)
    PROVE  /\ enters'[p] = IF translated /\ t.status = 0 THEN Count(enters[p]) ELSE enters[p]
           /\ exits'[p] = IF translated /\ t.status # 0 THEN Count(exits[p]) ELSE exits[p]
           /\ \A q \in Proc \ {p} : enters'[q] = enters[q] /\ exits'[q] = exits[q]
  BY DEF Callbacks, TypeOK

\* An entry stop, at a system call or at the filter, when both stages follow.
LEMMA EntrySound ==
    ASSUME TypeOK, NEW p \in Proc, Mirrors(p), birth[p] # "pending",
           at[p] \in {"entry", "filter"}, ev[p] # "none", opts'[p] # "none",
           NEW t \in TraceeType, t.listed, ~t.terminated,
           t.seccomp_enabled => t.seccomp_detected,
           t.seccomp # "DISABLING", t.seccomp = "ENABLED" /\ at[p] = "entry" => ~filter[p],
           t.seccomp = "DISABLED" => t.restart_how = "SYSCALL" /\ at[p] = "entry",
           opts'[p] = "nosec" \/ t.ptracer # NoProc => t.seccomp = "DISABLED",
           at[p] = "filter" => filter[p] /\ FilterSysexit(sys[p]),
           t.status = 0, enters[p] = 0, exits[p] = 0, Callbacks(p, t, TRUE),
           Restart(p, FreeTerminated, CommonFlow(t, sys[p], TRUE), TRUE),
           sys'[p] = sys[p], filter'[p] = filter[p], birth'[p] = birth[p]
    PROVE  Mirrors(p)'
<1> DEFINE r == CommonFlow(t, sys[p], TRUE)
<1>t. sys[p] \in SysKinds /\ r \in TraceeType
  BY CommonFlowType DEF TypeOK
<1>1. /\ Alike(r, t) /\ r.ptracer = t.ptracer
      /\ r.status = 1 /\ r.seccomp = t.seccomp /\ r.restart_how = "SYSCALL"
      /\ r.seccomp = "ENABLED" => r.sysexit_pending
  BY <1>t, EntryStage
<1>2. /\ at'[p] = Resumed(at[p]) /\ ev'[p] = "none"
      /\ tif'[p] = (r.restart_how = "SYSCALL")
      /\ Alike(T'[p], r) /\ AlikeStage(T'[p], r)
      /\ T'[p].ptracer = r.ptracer /\ T'[p].restart_how = "none"
  BY <1>t, FreeTerminatedType, RestartResumes
<1> HIDE DEF r
<1>3. enters'[p] = 1 /\ exits'[p] = 0
  BY DEF Callbacks, Count, TypeOK
<1>4. /\ T'[p].listed /\ ~T'[p].terminated /\ T'[p].status = 1 /\ tif'[p]
      /\ T'[p].seccomp = t.seccomp /\ T'[p].ptracer = t.ptracer
      /\ T'[p].seccomp = "ENABLED" => T'[p].sysexit_pending
      /\ T'[p].seccomp_enabled => T'[p].seccomp_detected
  BY <1>1, <1>2 DEF Alike, AlikeStage
<1>5. t.seccomp \in {"ENABLED", "DISABLED"} /\ T'[p].sysexit_pending \in BOOLEAN
  BY <1>t, <1>2 DEF TraceeType, AlikeStage
<1>6. Listing(p)'
  BY <1>2, <1>4 DEF Mirrors, Listing
<1>7. InEntry(p, T[p])'
  BY <1>2, <1>3, <1>4, <1>5 DEF InEntry, Resumed
<1>8. InBody(p, T[p])'
  BY <1>2, <1>3, <1>4, <1>5 DEF InBody, Resumed, Filtered, FilterSysexit
<1>9. InUser(p, T[p])' /\ InFilter(p, T[p])' /\ InLeave(p, T[p])'
  BY <1>2 DEF InUser, InFilter, InLeave, Resumed
<1> QED
  BY <1>2, <1>4, <1>5, <1>6, <1>7, <1>8, <1>9 DEF Mirrors, Unset

LEMMA SysgoodSound ==
    ASSUME TypeOK, NEW p \in Proc, Sound(p), OnSysgood(p, TRUE)
    PROVE  Sound(p)'
<1> DEFINE C == Current(p)
           r == CommonFlow(C, sys[p], TRUE)
<1>e. /\ ev[p] = "sysgood"
      /\ Restart(p, FreeTerminated, r, TRUE)
      /\ Callbacks(p, C, C.seccomp # "DISABLING" /\ TRUE)
      /\ RanAhead(p, TRUE)
      /\ sys' = sys /\ opts' = opts /\ filter' = filter
  BY DEF OnSysgood, Event
<1>t. C \in TraceeType /\ sys[p] \in SysKinds /\ r \in TraceeType
  BY CurrentType, CommonFlowType DEF TypeOK
<1>r. /\ at'[p] = Resumed(at[p]) /\ ev'[p] = "none"
      /\ tif'[p] = (r.restart_how = "SYSCALL")
      /\ Alike(T'[p], r) /\ AlikeStage(T'[p], r)
      /\ T'[p].ptracer = r.ptracer /\ T'[p].restart_how = "none"
  BY <1>e, <1>t, FreeTerminatedType, RestartResumes
<1> SUFFICES ASSUME Live(p)', birth'[p] # "late" PROVE Mirrors(p)'
  BY DEF Sound
<1>l. Live(p) /\ birth[p] # "late"
  BY <1>e, <1>r DEF Live, Resumed, TypeOK, Births, RanAhead
<1>m. Mirrors(p) /\ birth[p] # "pending"
  BY <1>e, <1>l DEF Sound, Mirrors, Listing
<1>b. birth'[p] = birth[p]
  BY <1>e, <1>m DEF RanAhead, TypeOK
<1>c. /\ Alike(C, T[p]) /\ AlikeStage(C, T[p])
      /\ C.ptracer \in {T[p].ptracer, NoProc}
      /\ C.restart_how = (IF Fast(T[p]) THEN "CONT" ELSE "SYSCALL")
  BY <1>m, CurrentMirrors
<1>d. /\ C.listed /\ ~C.terminated /\ C.seccomp # "DISABLING"
      /\ C.seccomp_enabled => C.seccomp_detected
      /\ opts[p] = "nosec" \/ C.ptracer # NoProc => C.seccomp = "DISABLED"
      /\ C.seccomp = "DISABLED" => C.restart_how = "SYSCALL"
  BY <1>m, <1>c DEF Mirrors, Listing, Alike, AlikeStage, Fast
<1>p. at[p] \in {"entry", "leave"} /\ opts[p] # "none"
  BY <1>e, <1>l, <1>m
     DEF Mirrors, Unset, InUser, InEntry, InFilter, InBody, InLeave, Live, TypeOK, Places
<1> HIDE DEF C, r
<1>1. CASE at[p] = "entry"
  <2>1. /\ C.status = 0 /\ enters[p] = 0 /\ exits[p] = 0
        /\ C.seccomp = "ENABLED" => ~filter[p]
    BY <1>1, <1>e, <1>m, <1>c DEF Mirrors, InEntry, AlikeStage
  <2>2. Callbacks(p, C, TRUE)
    BY <1>e, <1>d
  <2>3. Restart(p, FreeTerminated, CommonFlow(C, sys[p], TRUE), TRUE)
    BY <1>e DEF r
  <2> QED
    BY <1>1, <1>e, <1>t, <1>m, <1>b, <1>d, <1>p, <2>1, <2>2, <2>3, EntrySound
<1>2. CASE at[p] = "leave"
  <2>1. C.status = 1 /\ enters[p] = 1 /\ exits[p] = 0
    BY <1>2, <1>m, <1>c DEF Mirrors, InLeave, AlikeStage
  <2>2. /\ Alike(r, C) /\ r.status = 0 /\ r.seccomp # "DISABLING"
        /\ r.seccomp = "ENABLED" =>
             C.seccomp = "ENABLED" /\ ~r.sysexit_pending /\ r.restart_how = "CONT"
        /\ r.seccomp = "DISABLED" => r.restart_how = "SYSCALL"
        /\ r.ptracer # NoProc => r.seccomp = "DISABLED"
    BY <1>t, <1>d, <2>1, ExitStage DEF r
  <2>3. enters'[p] = 1 /\ exits'[p] = 1
    <3>1. Callbacks(p, C, TRUE)
      BY <1>e, <1>d
    <3> QED
      BY <2>1, <3>1 DEF Callbacks, Count, TypeOK
  <2>4. /\ T'[p].listed /\ ~T'[p].terminated /\ T'[p].status = 0 /\ T'[p].seccomp # "DISABLING"
        /\ T'[p].seccomp = "ENABLED" => C.seccomp = "ENABLED" /\ ~T'[p].sysexit_pending /\ ~tif'[p]
        /\ T'[p].seccomp = "DISABLED" => tif'[p]
        /\ T'[p].ptracer # NoProc => T'[p].seccomp = "DISABLED"
        /\ T'[p].seccomp_enabled => T'[p].seccomp_detected
        /\ T'[p].seccomp \in {"ENABLED", "DISABLED"}
    BY <1>t, <1>r, <1>d, <2>2 DEF Alike, AlikeStage, TraceeType
  <2>5. opts[p] = "nosec" => T'[p].seccomp = "DISABLED"
    BY <1>d, <2>4
  <2>6. at'[p] = "user"
    BY <1>2, <1>r DEF Resumed
  <2>7. InUser(p, T[p])'
    BY <1>e, <1>r, <2>3, <2>4, <2>6 DEF InUser, Fast
  <2> QED
    BY <1>e, <1>r, <1>m, <1>b, <1>p, <2>4, <2>5, <2>6, <2>7
       DEF Mirrors, Listing, Unset, InEntry, InFilter, InBody, InLeave
<1> QED
  BY <1>p, <1>1, <1>2

LEMMA SeccompSound ==
    ASSUME TypeOK, NEW p \in Proc, Sound(p), Placed, OnSeccomp(p, TRUE)
    PROVE  Sound(p)'
<1> DEFINE C == Current(p)
           r == SeccompFlow(C, sys[p], TRUE)
<1>e. ev[p] = "seccomp" /\ at[p] = "filter" /\ RanAhead(p, TRUE)
      /\ sys' = sys /\ opts' = opts /\ filter' = filter
  BY DEF OnSeccomp, Event, Placed
<1>b. birth'[p] = (IF birth[p] = "pending" THEN "early" ELSE birth[p])
  BY <1>e DEF RanAhead, TypeOK
<1> SUFFICES ASSUME birth'[p] # "late" PROVE Mirrors(p)'
  BY DEF Sound
<1>m. Mirrors(p) /\ birth[p] # "pending" /\ birth'[p] = birth[p]
  BY <1>e, <1>b DEF Sound, Live, Mirrors, Listing
<1>c. /\ C \in TraceeType
      /\ Alike(C, T[p]) /\ AlikeStage(C, T[p])
      /\ C.ptracer \in {T[p].ptracer, NoProc}
      /\ C.restart_how = (IF Fast(T[p]) THEN "CONT" ELSE "SYSCALL")
  BY <1>m, CurrentMirrors
<1>d. /\ C.listed /\ ~C.terminated /\ C.seccomp \in {"ENABLED", "DISABLED"}
      /\ C.seccomp_enabled => C.seccomp_detected
      /\ opts[p] = "nosec" \/ C.ptracer # NoProc => C.seccomp = "DISABLED"
      /\ C.seccomp = "DISABLED" => C.restart_how = "SYSCALL"
  BY <1>m, <1>c DEF Mirrors, Listing, Alike, AlikeStage, Fast, TraceeType
<1>u. Detect(C) = C
  BY <1>d DEF Detect
<1>f. Restart(p, FreeTerminated, r, TRUE) /\ Callbacks(p, C, C.seccomp = "ENABLED" /\ TRUE)
  BY <1>u DEF OnSeccomp
<1>t. sys[p] \in SysKinds /\ r \in TraceeType
  BY <1>c, SeccompFlowType DEF TypeOK
<1>r. /\ at'[p] = "body" /\ ev'[p] = "none"
      /\ tif'[p] = (r.restart_how = "SYSCALL")
      /\ Alike(T'[p], r) /\ AlikeStage(T'[p], r)
      /\ T'[p].ptracer = r.ptracer /\ T'[p].restart_how = "none"
  BY <1>e, <1>f, <1>t, FreeTerminatedType, RestartResumes DEF Resumed
<1>p. /\ filter[p] /\ opts[p] # "none" /\ enters[p] = C.status /\ exits[p] = 0
      /\ C.seccomp = "ENABLED" => ~tif[p] /\ C.status = 0 /\ ~C.sysexit_pending
      /\ C.seccomp = "DISABLED" => C.status = 1
  BY <1>e, <1>m, <1>c DEF Mirrors, Unset, InFilter, AlikeStage
<1> HIDE DEF C
<1>1. CASE C.seccomp = "ENABLED" /\ FilterSysexit(sys[p])
  <2>1. Callbacks(p, C, TRUE)
    BY <1>f, <1>1
  <2>2. Restart(p, FreeTerminated, CommonFlow(C, sys[p], TRUE), TRUE)
    BY <1>f, <1>1 DEF SeccompFlow
  <2> QED
    BY <1>1, <1>e, <1>m, <1>c, <1>d, <1>p, <2>1, <2>2, EntrySound
<1>2. CASE C.seccomp = "ENABLED" /\ ~FilterSysexit(sys[p])
  <2>1. Alike(r, C) /\ AlikeStage(r, C) /\ r.ptracer = C.ptracer /\ r.restart_how = "CONT"
    BY <1>2, <1>c, <1>t, <1>p, FilterStage
  <2> HIDE DEF r
  <2>2. /\ T'[p].listed /\ ~T'[p].terminated /\ T'[p].status = 0 /\ T'[p].seccomp = "ENABLED"
        /\ T'[p].sysexit_pending = FALSE /\ T'[p].ptracer = C.ptracer /\ tif'[p] = FALSE
        /\ T'[p].seccomp_enabled => T'[p].seccomp_detected
    BY <1>2, <1>c, <1>r, <1>d, <1>p, <2>1 DEF Alike, AlikeStage, TraceeType
  <2>3. Callbacks(p, C, TRUE)
    BY <1>f, <1>2
  <2>4. enters'[p] = 1 /\ exits'[p] = 0
    BY <1>2, <1>p, <2>3 DEF Callbacks, Count, TypeOK
  <2>5. InBody(p, T[p])'
    BY <1>2, <1>e, <1>r, <2>2, <2>4 DEF InBody
  <2> QED
    BY <1>2, <1>e, <1>r, <1>m, <1>d, <1>p, <2>2, <2>5
       DEF Mirrors, Listing, Unset, InUser, InEntry, InFilter, InLeave
<1>3. CASE C.seccomp = "DISABLED"
  <2>1. r = C
    BY <1>3 DEF SeccompFlow
  <2> HIDE DEF r
  <2>2. /\ T'[p].listed /\ ~T'[p].terminated /\ T'[p].status = 1 /\ T'[p].seccomp = "DISABLED"
        /\ tif'[p]
        /\ T'[p].seccomp_enabled => T'[p].seccomp_detected
    BY <1>3, <1>r, <1>d, <1>p, <2>1 DEF Alike, AlikeStage
  <2>3. Callbacks(p, C, FALSE)
    BY <1>f, <1>3
  <2>4. enters'[p] = 1 /\ exits'[p] = 0
    BY <1>3, <1>p, <2>3 DEF Callbacks, TypeOK
  <2>5. InBody(p, T[p])'
    BY <1>e, <1>r, <2>2, <2>4 DEF InBody
  <2> QED
    BY <1>e, <1>r, <1>m, <1>d, <1>p, <2>2, <2>5
       DEF Mirrors, Listing, Unset, InUser, InEntry, InFilter, InLeave
<1> QED
  BY <1>d, <1>1, <1>2, <1>3

LEMMA SigtrapSound ==
    ASSUME TypeOK, NEW p \in Proc, Sound(p), NEW accepted \in BOOLEAN, OnSigtrap(p, accepted)
    PROVE  Sound(p)'
<1> DEFINE C == Current(p)
           w == [C EXCEPT !.deliver_sigtrap = TRUE, !.seccomp_enabled = accepted]
           u == Detect(w)
<1>e. /\ ev[p] = "sigtrap" /\ sys' = sys /\ filter' = filter /\ birth' = birth
      /\ opts'[p] = (IF accepted THEN "sec" ELSE "nosec")
      /\ Restart(p, FreeTerminated, CommonFlow(u, sys[p], TRUE), TRUE)
      /\ Callbacks(p, u, TRUE)
  BY DEF OnSigtrap, Event, TypeOK
<1>u. C \in TraceeType /\ w \in TraceeType /\ u \in TraceeType
  <2>1. C \in TraceeType
    BY CurrentType
  <2>2. w \in TraceeType
    BY <2>1 DEF TraceeType
  <2> QED
    BY <2>1, <2>2, DetectType
<1>r. at'[p] = Resumed(at[p])
  BY <1>e, <1>u, FreeTerminatedType, CommonFlowType, RestartResumes DEF TypeOK
<1> SUFFICES ASSUME Live(p)', birth[p] # "late" PROVE Mirrors(p)'
  BY <1>e DEF Sound
<1>m. Mirrors(p) /\ birth[p] # "pending"
  BY <1>e, <1>r DEF Sound, Live, Resumed, Mirrors, Listing
<1>p. /\ at[p] = "entry" /\ opts[p] = "none" /\ T[p].status = 0 /\ enters[p] = 0 /\ exits[p] = 0
  BY <1>e, <1>r, <1>m
     DEF Mirrors, InUser, InEntry, InFilter, InBody, InLeave, Live, Resumed, TypeOK, Places
<1>q. T[p].ptracer = NoProc /\ ~T[p].seccomp_detected /\ T[p].seccomp = "DISABLED" /\ ~filter[p]
  BY <1>m, <1>p DEF Mirrors, Unset
<1>c. /\ C.listed /\ ~C.terminated /\ ~C.seccomp_detected /\ C.status = 0
      /\ C.seccomp = "DISABLED" /\ C.ptracer = NoProc /\ C.restart_how = "SYSCALL"
  BY <1>m, <1>p, <1>q, CurrentMirrors DEF Mirrors, Listing, Alike, AlikeStage, Fast
<1> HIDE DEF C
<1>w. /\ w.listed /\ ~w.terminated /\ ~w.seccomp_detected /\ w.status = 0
      /\ w.seccomp = "DISABLED" /\ w.ptracer = NoProc /\ w.restart_how = "SYSCALL"
      /\ w.seccomp_enabled = accepted
  BY <1>u, <1>c DEF TraceeType
<1> HIDE DEF w
<1>1. /\ u.listed /\ ~u.terminated /\ u.status = 0 /\ u.ptracer = NoProc
      /\ u.restart_how = "SYSCALL"
      /\ u.seccomp = (IF accepted THEN "ENABLED" ELSE "DISABLED")
      /\ u.seccomp_enabled => u.seccomp_detected
  <2>1. CASE accepted
    <3>1. u = [w EXCEPT !.seccomp = "ENABLED", !.seccomp_detected = TRUE]
      BY <1>w, <2>1 DEF Detect
    <3> HIDE DEF u
    <3> QED
      BY <1>u, <1>w, <2>1, <3>1 DEF TraceeType
  <2>2. CASE ~accepted
    <3>1. u = w
      BY <1>w, <2>2 DEF Detect
    <3> HIDE DEF u
    <3> QED
      BY <1>w, <2>2, <3>1
  <2> QED
    BY <2>1, <2>2
<1> HIDE DEF u
<1> QED
  BY <1>e, <1>u, <1>m, <1>p, <1>q, <1>1, EntrySound

\* The structure of a child announced by its parent's fork event in time.
LEMMA ChildSound ==
    ASSUME TypeOK, NEW p \in Proc, NEW c \in Proc, p # c, msg[p] = c,
           Mirrors(p), at[p] = "after", ev[p] = "clone", opts[p] # "none",
           Live(c), birth[c] = "pending", Mirrors(c), filter[c] = filter[p], opts[c] = opts[p],
           T'[c] = Inherit(Child(p), Current(p), p),
           at'[c] = at[c], ev'[c] = ev[c], sys'[c] = sys[c], tif'[c] = tif[c],
           opts'[c] = opts[c], filter'[c] = filter[c], birth'[c] = "announced"
    PROVE  Mirrors(c)'
<1> DEFINE C == Current(p)
<1>1. birth[p] # "pending"
  BY DEF Mirrors, Listing
<1>2. /\ C \in TraceeType /\ AlikeStage(C, T[p])
      /\ C.restart_how = (IF Fast(T[p]) THEN "CONT" ELSE "SYSCALL")
      /\ C.ptracer \in {T[p].ptracer, NoProc}
  BY <1>1, CurrentMirrors
<1>3. /\ at[c] = "user" /\ ev[c] = "sigstop" /\ ~FilterSysexit(sys[c])
      /\ T[c].listed => T[c].terminated
  BY DEF Mirrors, Listing
<1>4. Child(p) = NewTracee
  <2>1. [FreeTerminated EXCEPT ![p] = C][c] = FreeTerminated[c]
    BY FreeTerminatedType
  <2>2. Lookup(FreeTerminated, c) = NewTracee
    BY <1>3, CurrentOfNew
  <2> QED
    BY <2>1, <2>2 DEF Child, Lookup
<1> HIDE DEF C
<1>5. T'[c] = [NewTracee EXCEPT !.seccomp = C.seccomp, !.sysexit_pending = C.sysexit_pending,
                                !.restart_how = C.restart_how, !.parent = p]
  BY <1>4 DEF Inherit, C
<1>6. /\ T'[c].listed /\ ~T'[c].terminated /\ T'[c].status = 0 /\ T'[c].ptracer = NoProc
      /\ ~T'[c].seccomp_enabled
      /\ T'[c].seccomp = T[p].seccomp /\ T'[c].sysexit_pending = T[p].sysexit_pending
      /\ T'[c].restart_how = (IF Fast(T[p]) THEN "CONT" ELSE "SYSCALL")
  BY <1>2, <1>5 DEF NewTracee, NoTracee, AlikeStage
<1>7. /\ T[p].seccomp # "DISABLING"
      /\ opts[p] = "nosec" => T[p].seccomp = "DISABLED"
      /\ T[p].seccomp = "ENABLED" /\ T[p].sysexit_pending => ~filter[p]
  BY <1>1 DEF Mirrors, InBody, Filtered
<1>8. InUser(c, T[c])'
  BY <1>3, <1>6, <1>7 DEF InUser, Fast
<1> QED
  BY <1>3, <1>6, <1>7, <1>8 DEF Mirrors, Listing, Unset, InEntry, InFilter, InBody, InLeave

LEMMA CloneKeeps ==
    ASSUME TypeOK, \A q \in Proc : Sound(q), Shared, NEW p \in Proc, OnClone(p, TRUE)
    PROVE  (\A q \in Proc : Sound(q))' /\ Shared'
<1> USE DEF TypeOK
<1>c. PICK c \in Proc : c = msg[p]
  BY DEF OnClone, Event, Shared, Linked
<1> DEFINE C == Current(p)
           F == [FreeTerminated EXCEPT ![c] = Inherit(Child(p), C, p)]
<1>1. /\ ev[p] = "clone" /\ at[p] = "after" /\ at[c] # "untraced"
      /\ Live(c) => opts[c] # "none"
      /\ Live(c) /\ birth[c] = "pending" => filter[c] = filter[p] /\ opts[c] = opts[p]
  BY <1>c DEF OnClone, Event, Shared, Linked
<1>2. /\ Restart(p, F, C, TRUE)
      /\ birth' = [birth EXCEPT ![c] =
                     IF birth[c] = "pending" /\ birth[p] # "late" THEN "announced" ELSE "late"]
      /\ sys' = sys /\ opts' = opts /\ filter' = filter /\ msg' = msg
      /\ enters' = enters /\ exits' = exits
  BY <1>c DEF OnClone
<1>t. C \in TraceeType /\ F \in [Proc -> TraceeType]
  BY <1>c, CurrentType, ChildType, InheritType, FreeTerminatedType
<1>f. /\ F[c] = Inherit(Child(p), C, p)
      /\ \A q \in Proc \ {c} : F[q] = FreeTerminated[q]
  BY <1>1, FreeTerminatedType
<1> HIDE DEF F
<1>3. /\ at' = at /\ ev' = [ev EXCEPT ![p] = "none"]
      /\ \A q \in Proc \ {p} : tif'[q] = tif[q] /\ T'[q] = F[q]
  <2>1. Move(p, "after", "none")
    BY <1>1, <1>2 DEF Restart, Resumed
  <2>2. at' = at /\ ev' = [ev EXCEPT ![p] = "none"]
    BY <1>1, <2>1 DEF Move
  <2>3. \A q \in Proc \ {p} : tif'[q] = tif[q]
    BY <1>2 DEF Restart
  <2>4. \A q \in Proc \ {p} : T'[q] = F[q]
    BY <1>2, <1>t DEF Restart
  <2> QED
    BY <2>2, <2>3, <2>4
<1>4. \A q \in Proc \ {p, c} : Sound(q)'
  <2> SUFFICES ASSUME NEW q \in Proc \ {p, c} PROVE Sound(q)'
    OBVIOUS
  <2>1. T'[q] = FreeTerminated[q]
    BY <1>3, <1>f
  <2>2. birth'[q] = birth[q]
    BY <1>2
  <2>3. at'[q] = at[q] /\ ev'[q] = ev[q] /\ tif'[q] = tif[q]
    BY <1>3
  <2> QED
    BY <1>2, <2>1, <2>2, <2>3, OtherStaysSound
<1>o. birth[p] # "late" => Mirrors(p) /\ birth[p] # "pending" /\ opts[p] # "none"
  BY <1>1 DEF Sound, Live, Mirrors, Listing, Unset
<1>5. Sound(p)'
  <2>1. CASE p = c
    BY <1>o, <1>1, <1>2, <2>1 DEF Sound
  <2>2. CASE p # c
    <3>1. birth'[p] = birth[p]
      BY <1>2, <2>2
    <3>2. birth[p] = "pending" => birth'[p] = "early"
      BY <1>o
    <3>3. Alike(C, C) /\ AlikeStage(C, C)
      BY DEF Alike, AlikeStage
    <3> QED
      BY <1>1, <1>2, <1>t, <3>1, <3>2, <3>3, PassedOnSound DEF Shared
  <2> QED
    BY <2>1, <2>2
<1>6. ASSUME c # p PROVE Sound(c)'
  <2>1. T'[c] = Inherit(Child(p), C, p) /\ ev'[c] = ev[c] /\ at'[c] = at[c] /\ tif'[c] = tif[c]
    BY <1>1, <1>3, <1>f, <1>6
  <2>2. Sound(c)'
    <3> SUFFICES ASSUME Live(c)', birth'[c] # "late" PROVE Mirrors(c)'
      BY DEF Sound
    <3>1. birth[c] = "pending" /\ birth[p] # "late" /\ birth'[c] = "announced"
      BY <1>1, <1>2
    <3>2. Live(c)
      BY <2>1, <1>2 DEF Live
    <3>3. Mirrors(c)
      BY <1>1, <3>1, <3>2 DEF Sound
    <3> QED
      BY <1>1, <1>2, <1>6, <1>c, <1>o, <2>1, <3>1, <3>2, <3>3, ChildSound
  <2> QED
    BY <2>2
<1>7. Optioned'
  <2> SUFFICES ASSUME NEW q \in Proc, Live(q)', opts'[q] = "none" PROVE birth'[q] = "announced"
    BY DEF Optioned
  <2>1. Live(q) /\ opts[q] = "none"
    BY <1>2, <1>3 DEF Live
  <2>2. q # c /\ birth[q] = "announced"
    BY <1>1, <2>1 DEF Shared, Optioned
  <2> QED
    BY <1>2, <2>2
<1>8. Untouched'
  BY <1>1, <1>2, <1>3 DEF Shared, Untouched
<1>9. Linked'
  <2> SUFFICES ASSUME NEW q \in Proc, ev'[q] = "clone", NEW d, d = msg'[q]
               PROVE  /\ at'[q] = "after" /\ d \in Proc
                      /\ at'[d] # "untraced"
                      /\ Live(d)' => opts'[d] # "none"
                      /\ Live(d)' /\ birth'[d] = "pending" =>
                            filter'[d] = filter'[q] /\ opts'[d] = opts'[q]
    BY DEF Linked, Live
  <2>1. ev[q] = "clone" /\ msg[q] = d
    BY <1>2, <1>3
  <2>2. /\ at[q] = "after" /\ d \in Proc /\ at[d] # "untraced"
        /\ Live(d) => opts[d] # "none"
        /\ Live(d) /\ birth[d] = "pending" => filter[d] = filter[q] /\ opts[d] = opts[q]
    BY <2>1 DEF Shared, Linked
  <2>3. Live(d)' <=> Live(d)
    BY <1>3 DEF Live
  <2>4. birth'[d] = "pending" => birth[d] = "pending"
    BY <1>2, <2>2
  <2> QED
    BY <1>2, <1>3, <2>2, <2>3, <2>4
<1>10. Placed'
  BY <1>3 DEF Shared, Placed
<1>11. (\A q \in Proc : Sound(q))'
  BY <1>4, <1>5, <1>6
<1> QED
  BY <1>7, <1>8, <1>9, <1>10, <1>11 DEF Shared

LEMMA AttachKeeps ==
    ASSUME TypeOK, \A q \in Proc : Sound(q), Shared, NEW p \in Proc, Attach(p)
    PROVE  (\A q \in Proc : Sound(q))' /\ Shared'
<1> USE DEF TypeOK
<1> DEFINE n == [NewTracee EXCEPT !.is_root = TRUE]
<1>1. /\ at[p] = "untraced" /\ opts[p] = "none" /\ ~filter[p] /\ sys[p] = "plain"
  BY DEF Attach, Shared, Untouched
<1>n. n \in TraceeType
  BY NewTraceeType DEF TraceeType
<1>2. /\ at' = [at EXCEPT ![p] = "user"] /\ ev' = [ev EXCEPT ![p] = "sigstop"]
      /\ T' = [FreeTerminated EXCEPT ![p] = n] /\ birth' = [birth EXCEPT ![p] = "announced"]
      /\ UNCHANGED <<sys, tif, opts, filter, msg, enters, exits>>
  BY DEF Attach, Move
<1>3. /\ n.listed /\ ~n.terminated /\ n.is_root /\ ~n.deliver_sigtrap /\ ~n.seccomp_detected
      /\ ~n.seccomp_enabled /\ n.seccomp = "DISABLED" /\ n.status = 0 /\ n.restart_how = "none"
      /\ n.ptracer = NoProc
  BY DEF NewTracee, NoTracee
<1> HIDE DEF n
<1>4. T'[p] = n /\ \A q \in Proc \ {p} : T'[q] = FreeTerminated[q]
  BY <1>2, <1>n, FreeTerminatedType
<1>5. \A q \in Proc \ {p} : Sound(q)'
  BY <1>2, <1>4, OtherStaysSound
<1>6. Sound(p)'
  <2>1. at'[p] = "user" /\ ev'[p] = "sigstop" /\ birth'[p] = "announced"
    BY <1>2
  <2>2. InUser(p, T[p])'
    BY <1>3, <1>4, <2>1 DEF InUser, Fast
  <2> QED
    BY <1>1, <1>2, <1>3, <1>4, <2>1, <2>2
       DEF Sound, Mirrors, Listing, Unset, InEntry, InFilter, InBody, InLeave, FilterSysexit
<1>7. Optioned' /\ Untouched' /\ Placed'
  BY <1>2 DEF Shared, Optioned, Untouched, Placed, Live
<1>8. Linked'
  <2> SUFFICES ASSUME NEW q \in Proc, ev'[q] = "clone", NEW d, d = msg'[q]
               PROVE  /\ at'[q] = "after" /\ d \in Proc
                      /\ at'[d] # "untraced"
                      /\ Live(d)' => opts'[d] # "none"
                      /\ Live(d)' /\ birth'[d] = "pending" =>
                            filter'[d] = filter'[q] /\ opts'[d] = opts'[q]
    BY DEF Linked, Live
  <2>1. q # p /\ ev[q] = "clone" /\ msg[q] = d
    BY <1>2
  <2>2. /\ at[q] = "after" /\ d \in Proc /\ at[d] # "untraced"
        /\ Live(d) => opts[d] # "none"
        /\ Live(d) /\ birth[d] = "pending" => filter[d] = filter[q] /\ opts[d] = opts[q]
    BY <2>1 DEF Shared, Linked
  <2>3. d # p
    BY <1>1, <2>2
  <2> QED
    BY <1>2, <2>1, <2>2, <2>3 DEF Live
<1> QED
  BY <1>5, <1>6, <1>7, <1>8 DEF Shared

LEMMA GoneKeeps ==
    ASSUME TypeOK, \A q \in Proc : Sound(q), Shared, NEW p \in Proc, OnGone(p)
    PROVE  (\A q \in Proc : Sound(q))' /\ Shared'
<1> USE DEF TypeOK
<1>1. /\ at' = [at EXCEPT ![p] = "absent"] /\ ev' = [ev EXCEPT ![p] = "none"]
      /\ UNCHANGED <<sys, enters, exits>>
      /\ \A q \in Proc \ {p} :
           /\ tif'[q] = tif[q] /\ opts'[q] = opts[q] /\ filter'[q] = filter[q]
           /\ msg'[q] = msg[q] /\ birth'[q] = birth[q]
  BY DEF OnGone, Move
<1>2. \A q \in Proc \ {p} : T'[q] = FreeTerminated[q]
  BY FreeTerminatedType DEF OnGone
<1>3. \A q \in Proc \ {p} : Sound(q)'
  BY <1>1, <1>2, OtherStaysSound
<1>4. Sound(p)'
  BY <1>1 DEF Sound, Live
<1>5. Optioned' /\ Untouched' /\ Placed'
  BY <1>1 DEF Shared, Optioned, Untouched, Placed, Live
<1>6. Linked'
  <2> SUFFICES ASSUME NEW q \in Proc, ev'[q] = "clone", NEW d, d = msg'[q]
               PROVE  /\ at'[q] = "after" /\ d \in Proc
                      /\ at'[d] # "untraced"
                      /\ Live(d)' => opts'[d] # "none"
                      /\ Live(d)' /\ birth'[d] = "pending" =>
                            filter'[d] = filter'[q] /\ opts'[d] = opts'[q]
    BY DEF Linked, Live
  <2>1. q # p /\ ev[q] = "clone" /\ msg[q] = d
    BY <1>1
  <2>2. /\ at[q] = "after" /\ d \in Proc /\ at[d] # "untraced"
        /\ Live(d) => opts[d] # "none"
        /\ Live(d) /\ birth[d] = "pending" => filter[d] = filter[q] /\ opts[d] = opts[q]
    BY <2>1 DEF Shared, Linked
  <2> QED
    BY <1>1, <2>1, <2>2 DEF Live
<1> QED
  BY <1>3, <1>4, <1>5, <1>6 DEF Shared

LEMMA IterationKeeps ==
    ASSUME TypeOK, \A q \in Proc : Sound(q), Shared, NEW p \in Proc, Iteration(p),
           tracer' = "running"
    PROVE  (\A q \in Proc : Sound(q))' /\ Shared'
<1> DEFINE C == Current(p)
<1>t. C \in TraceeType /\ sys[p] \in SysKinds
  BY CurrentType DEF TypeOK
<1>a. Alike(C, C) /\ AlikeStage(C, C)
  BY DEF Alike, AlikeStage
<1>f. FreeTerminated \in [Proc -> TraceeType]
  BY FreeTerminatedType
<1>1. ASSUME NEW accepted \in BOOLEAN, OnSigtrap(p, accepted)
      PROVE  (\A q \in Proc : Sound(q))' /\ Shared'
  <2> DEFINE w == [C EXCEPT !.deliver_sigtrap = TRUE, !.seccomp_enabled = accepted]
             u == Detect(w)
             r == CommonFlow(u, sys[p], TRUE)
  <2>1. w \in TraceeType
    BY <1>t DEF TraceeType
  <2>2. r \in TraceeType
    BY <1>t, <2>1, DetectType, CommonFlowType
  <2>3. Restart(p, FreeTerminated, r, TRUE) /\ Callbacks(p, u, TRUE)
    BY <1>1 DEF OnSigtrap
  <2>4. \A q \in Proc \ {p} : enters'[q] = enters[q] /\ exits'[q] = exits[q]
    BY <2>3 DEF Callbacks, TypeOK
  <2> HIDE DEF r, u
  <2>s. Sound(p)'
    BY <1>1, SigtrapSound
  <2>5. /\ ev[p] = "sigtrap" /\ opts'[p] # "none"
        /\ \A q \in Proc \ {p} : opts'[q] = opts[q]
        /\ sys' = sys /\ filter' = filter /\ msg' = msg /\ birth' = birth
    BY <1>1 DEF OnSigtrap, Event, TypeOK
  <2> QED
    BY <2>2, <2>3, <2>4, <2>5, <2>s, RestartKeeps
<1>2. ASSUME NEW alive \in BOOLEAN, OnSeccomp(p, alive)
      PROVE  (\A q \in Proc : Sound(q))' /\ Shared'
  <2> DEFINE u == Detect(C)
             r == SeccompFlow(u, sys[p], alive)
  <2>1. r \in TraceeType
    BY <1>t, DetectType, SeccompFlowType
  <2>2. /\ Restart(p, FreeTerminated, r, alive) /\ RanAhead(p, alive)
        /\ Callbacks(p, u, u.seccomp = "ENABLED" /\ alive)
        /\ ev[p] = "seccomp" /\ sys' = sys /\ opts' = opts /\ filter' = filter /\ msg' = msg
    BY <1>2 DEF OnSeccomp, Event
  <2>3. \A q \in Proc \ {p} : enters'[q] = enters[q] /\ exits'[q] = exits[q]
    BY <2>2 DEF Callbacks, TypeOK
  <2> HIDE DEF r, u
  <2>4. alive => Sound(p)'
    BY <1>2, SeccompSound DEF Shared
  <2> QED
    BY <2>1, <2>2, <2>3, <2>4, RestartKeeps
<1>3. ASSUME NEW alive \in BOOLEAN, OnSysgood(p, alive)
      PROVE  (\A q \in Proc : Sound(q))' /\ Shared'
  <2> DEFINE r == CommonFlow(C, sys[p], alive)
  <2>1. r \in TraceeType
    BY <1>t, CommonFlowType
  <2>2. /\ Restart(p, FreeTerminated, r, alive) /\ RanAhead(p, alive)
        /\ Callbacks(p, C, C.seccomp # "DISABLING" /\ alive)
        /\ ev[p] = "sysgood" /\ sys' = sys /\ opts' = opts /\ filter' = filter /\ msg' = msg
    BY <1>3 DEF OnSysgood, Event
  <2>3. \A q \in Proc \ {p} : enters'[q] = enters[q] /\ exits'[q] = exits[q]
    BY <2>2 DEF Callbacks, TypeOK
  <2> HIDE DEF r
  <2>4. alive => Sound(p)'
    BY <1>3, SysgoodSound
  <2> QED
    BY <2>1, <2>2, <2>3, <2>4, RestartKeeps
<1>4. ASSUME NEW alive \in BOOLEAN, OnNote(p, alive) \/ OnSignal(p, alive)
      PROVE  (\A q \in Proc : Sound(q))' /\ Shared'
  <2>1. /\ Restart(p, FreeTerminated, C, alive) /\ RanAhead(p, alive)
        /\ ev[p] \in {"note", "signal"}
        /\ UNCHANGED <<sys, opts, filter, msg, enters, exits>>
    BY <1>4 DEF OnNote, OnSignal, Event
  <2>2. ASSUME alive PROVE Sound(p)'
    <3>1. birth'[p] = (IF birth[p] = "pending" THEN "early" ELSE birth[p])
      BY <2>1, <2>2 DEF RanAhead, TypeOK
    <3>2. Restart(p, FreeTerminated, C, TRUE)
      BY <2>1, <2>2
    <3> QED
      BY <1>t, <1>a, <1>f, <2>1, <3>1, <3>2, PassedOnSound DEF Shared
  <2> QED
    BY <1>t, <2>1, <2>2, RestartKeeps
<1>5. ASSUME NEW alive \in BOOLEAN, OnSigstop(p, alive)
      PROVE  (\A q \in Proc : Sound(q))' /\ Shared'
  <2> DEFINE r == [C EXCEPT !.sigstop = "ALLOWED"]
  <2>1. /\ r \in TraceeType /\ Alike(r, C) /\ AlikeStage(r, C)
        /\ r.ptracer = C.ptracer /\ r.restart_how = C.restart_how
    BY <1>t DEF TraceeType, Alike, AlikeStage
  <2>2. /\ Restart(p, FreeTerminated, r, alive) /\ RanAhead(p, alive)
        /\ ev[p] = "sigstop"
        /\ UNCHANGED <<sys, opts, filter, msg, enters, exits>>
    BY <1>5 DEF OnSigstop, Event
  <2> HIDE DEF r
  <2>3. ASSUME alive PROVE Sound(p)'
    <3>1. birth'[p] = (IF birth[p] = "pending" THEN "early" ELSE birth[p])
      BY <2>2, <2>3 DEF RanAhead, TypeOK
    <3>2. Restart(p, FreeTerminated, r, TRUE)
      BY <2>2, <2>3
    <3> QED
      BY <1>t, <1>f, <2>1, <2>2, <3>1, <3>2, PassedOnSound DEF Shared
  <2> QED
    BY <2>1, <2>2, <2>3, RestartKeeps
<1>6. ASSUME OnClone(p, FALSE)
      PROVE  (\A q \in Proc : Sound(q))' /\ Shared'
  <2>1. /\ Restart(p, FreeTerminated, C, FALSE) /\ birth' = birth
        /\ ev[p] = "clone"
        /\ UNCHANGED <<sys, opts, filter, msg, enters, exits>>
    BY <1>6 DEF OnClone, Event
  <2> QED
    BY <1>t, <2>1, RestartKeeps
<1>7. CASE OnSigtrapFails(p) \/ OnOrphanTraceme(p) \/ OnCloneAsserts(p)
  BY <1>7 DEF OnSigtrapFails, OnOrphanTraceme, OnCloneAsserts
<1> QED
  BY <1>1, <1>2, <1>3, <1>4, <1>5, <1>6, <1>7, CloneKeeps, AttachKeeps, GoneKeeps DEF Iteration

-----------------------------------------------------------------------------
(***************************************************************************)
(* The tracer's memory of every process that is not late mirrors what the  *)
(* process does, whatever the processes call, in whatever order their      *)
(* events are reported and whenever they are killed.                       *)
(***************************************************************************)
THEOREM TracerMirrorsKernel == Spec => []IInv
<1>1. Init => IInv
  <2> SUFFICES ASSUME Init PROVE IInv
    OBVIOUS
  <2>1. \A p \in Proc : ~Live(p) /\ ev[p] = "none" /\ opts[p] = "none" /\ ~filter[p]
                        /\ sys[p] = "plain"
    BY DEF Init, Live
  <2> QED
    BY <2>1 DEF IInv, Optioned, Untouched, Linked, Placed
<1>2. TypeOK /\ IInv /\ [Next]_vars => IInv'
  <2> SUFFICES ASSUME TypeOK, IInv, [Next]_vars, tracer' = "running"
               PROVE  (\A q \in Proc : Sound(q))' /\ Shared'
    BY DEF IInv, Sound, Shared
  <2>1. CASE UNCHANGED vars
    <3>1. (\A q \in Proc : Sound(q)) /\ Shared
      BY <2>1, InvariantSplits DEF vars
    <3>2. Shared'
      BY <2>1, <3>1 DEF vars, Shared, Optioned, Untouched, Linked, Placed, Live
    <3> QED
      BY <2>1, <3>1, <3>2, OtherStaysSound DEF vars
  <2>2. ASSUME NEW p \in Proc, Kernel(p) \/ Iteration(p)
        PROVE  (\A q \in Proc : Sound(q))' /\ Shared'
    <3>1. tracer = "running"
      BY <2>2 DEF Kernel, EnterKernel, MeetFilter, Execute, Exec, Fork, Exit, Die, Leave,
                  GetSignal, Killed, Runs, Iteration, Attach, OnSigtrap, OnSigtrapFails,
                  OnSeccomp, OnSysgood, OnOrphanTraceme, OnClone, OnCloneAsserts, OnNote,
                  OnSigstop, OnSignal, OnGone, Event
    <3>2. (\A q \in Proc : Sound(q)) /\ Shared
      BY <3>1, InvariantSplits
    <3> QED
      BY <2>2, <3>2, KernelKeeps, IterationKeeps
  <2> QED
    BY <2>1, <2>2 DEF Next
<1> QED
  BY <1>1, <1>2, EventLoopTypeOK, PTL DEF Spec

-----------------------------------------------------------------------------
(***************************************************************************)
(* The stage the tracer remembers is the stage a stopped process is in.    *)
(***************************************************************************)
THEOREM StagesAgree == Spec => []StageAgrees
<1>1. IInv => StageAgrees
  <2> SUFFICES ASSUME IInv, NEW p \in Proc, birth[p] # "late", tracer = "running"
               PROVE  /\ ev[p] \in {"sysgood", "sigtrap"} /\ at[p] = "entry" => T[p].status = 0
                      /\ ev[p] = "seccomp" /\ T[p].seccomp = "ENABLED" => T[p].status = 0
                      /\ ev[p] = "sysgood" /\ at[p] = "leave" => T[p].status = 1
    BY DEF StageAgrees
  <2>1. ev[p] = "seccomp" => at[p] = "filter"
    BY DEF IInv, Placed
  <2>2. at[p] \in {"entry", "filter", "leave"} => Mirrors(p) /\ birth[p] # "pending"
    BY DEF IInv, Live, Mirrors, Listing
  <2> QED
    BY <2>1, <2>2 DEF Mirrors, InEntry, InFilter, InLeave
<1> QED
  BY <1>1, TracerMirrorsKernel, PTL

(***************************************************************************)
(* No system call that must be seen executes before on_sysenter was called *)
(* for it.                                                                 *)
(***************************************************************************)
THEOREM NoneUnseen == Spec => []NeverUnseen
<1>1. TypeOK /\ IInv => NeverUnseen
  <2> SUFFICES ASSUME TypeOK, IInv, NEW p \in Proc, birth[p] # "late", tracer = "running",
                      at[p] = "body", Watched(p)
               PROVE  enters[p] = 1 /\ exits[p] = 0
    BY DEF NeverUnseen
  <2>1. Mirrors(p) /\ birth[p] # "pending"
    BY DEF IInv, Live, Mirrors, Listing
  <2> QED
    BY <2>1 DEF Watched, Mirrors, InBody
<1> QED
  BY <1>1, EventLoopTypeOK, TracerMirrorsKernel, PTL

(***************************************************************************)
(* Both callbacks of a call filtered with FILTER_SYSEXIT have been made    *)
(* when the process is back in user mode.                                  *)
(***************************************************************************)
THEOREM BothStagesAreSeen == Spec => []BothStagesSeen
<1>1. IInv => BothStagesSeen
  <2> SUFFICES ASSUME IInv, NEW p \in Proc, birth[p] # "late", tracer = "running",
                      at[p] = "user", filter[p], FilterSysexit(sys[p])
               PROVE  enters[p] = 1 /\ exits[p] = 1
    BY DEF BothStagesSeen
  <2>1. Mirrors(p) /\ birth[p] # "pending" /\ ev[p] # "sigstop"
    BY DEF IInv, Live, Mirrors, Listing
  <2> QED
    BY <2>1 DEF Mirrors, InUser
<1> QED
  BY <1>1, TracerMirrorsKernel, PTL

(***************************************************************************)
(* A ptracee is not accelerated and stops at each of its system calls.     *)
(***************************************************************************)
THEOREM PtraceesStop == Spec => []PtraceeStopsAtEachCall
<1>1. TypeOK /\ IInv => PtraceeStopsAtEachCall
  <2> SUFFICES ASSUME TypeOK, IInv, NEW p \in Proc, birth[p] # "late", tracer = "running",
                      Live(p), T[p].listed, ~T[p].terminated, T[p].ptracer # NoProc
               PROVE  /\ T[p].seccomp = "DISABLED"
                      /\ at[p] \in {"user", "entry", "body", "after"} => tif[p]
    BY DEF PtraceeStopsAtEachCall
  <2>1. Mirrors(p)
    BY DEF IInv
  <2>2. birth[p] # "pending"
    BY <2>1 DEF Mirrors, Listing
  <2>3. T[p].seccomp = "DISABLED"
    BY <2>1, <2>2 DEF Mirrors
  <2> QED
    BY <2>1, <2>2, <2>3 DEF Mirrors, InUser, InEntry, InBody, Fast
<1> QED
  BY <1>1, EventLoopTypeOK, TracerMirrorsKernel, PTL

-----------------------------------------------------------------------------
(***************************************************************************)
(* The proof that the event loop implements Interception: seen through the *)
(* refinement mapping of EventLoopRefinement, each step of a process or of *)
(* the loop is one step of the promise, for one process, or makes some     *)
(* processes vanish from it (none of them, when the step is a stutter).    *)
(***************************************************************************)

-----------------------------------------------------------------------------
(***************************************************************************)
(* What the mapping shows of one process.                                  *)
(***************************************************************************)
ShownStage(p) == IF Concerned(p) THEN Stage(p) ELSE "idle"
ShownWants(p) == Concerned(p) /\ Stage(p) # "idle" /\ FilterSysexit(sys[p])
ShownEnters(p) == IF Concerned(p) THEN enters[p] ELSE 0
ShownExits(p) == IF Concerned(p) THEN exits[p] ELSE 0

\* A step shows nothing new of p, or shows it gone.
Still(p) ==
    /\ ShownStage(p)' = ShownStage(p)
    /\ ShownWants(p)' = ShownWants(p)
    /\ ShownEnters(p)' = ShownEnters(p)
    /\ ShownExits(p)' = ShownExits(p)

Hidden(p) ==
    /\ ShownStage(p)' = "idle" /\ ShownWants(p)' = FALSE
    /\ ShownEnters(p)' = 0 /\ ShownExits(p)' = 0

\* The other steps of Interception, as they show.
ShowsCall(p) ==
    /\ ShownStage(p) = "idle" /\ ShownStage(p)' = "called"
    /\ ShownEnters(p)' = 0 /\ ShownExits(p)' = 0

ShowsEnter(p) ==
    /\ ShownStage(p) = "called" /\ ShownStage(p)' = "entered"
    /\ ShownEnters(p)' = ShownEnters(p) + 1
    /\ ShownExits(p)' = ShownExits(p)
    /\ ShownWants(p)' = ShownWants(p)

ShowsExecute(p) ==
    /\ ShownStage(p) = "entered" /\ ShownStage(p)' = "executed"
    /\ ShownEnters(p)' = ShownEnters(p)
    /\ ShownExits(p)' = ShownExits(p)
    /\ ShownWants(p)' = ShownWants(p)

ShowsReturn(p) ==
    /\ ShownStage(p) = "executed" /\ ShownStage(p)' = "idle"
    /\ ShownEnters(p)' = ShownEnters(p)
    /\ ShownWants(p)' = FALSE
    /\ \/ ~ShownWants(p) /\ ShownExits(p)' = ShownExits(p)
       \/ ShownExits(p)' = ShownExits(p) + 1

ShowsStep(p) == ShowsCall(p) \/ ShowsEnter(p) \/ ShowsExecute(p) \/ ShowsReturn(p)

(***************************************************************************)
(* From what a step shows of each process to a step of Interception.       *)
(***************************************************************************)
LEMMA NobodyMoves ==
    ASSUME \A q \in Proc : Still(q) \/ Hidden(q)
    PROVE  Hooks!Next
<1>1. PICK gone \in SUBSET Proc : gone = {q \in Proc : ~Still(q)}
  OBVIOUS
<1>2. ASSUME NEW q \in Proc
      PROVE  /\ ShownStage(q)' = IF q \in gone THEN "idle" ELSE ShownStage(q)
             /\ ShownWants(q)' = (ShownWants(q) /\ q \notin gone)
             /\ ShownEnters(q)' = IF q \in gone THEN 0 ELSE ShownEnters(q)
             /\ ShownExits(q)' = IF q \in gone THEN 0 ELSE ShownExits(q)
  <2>1. ShownWants(q) \in BOOLEAN
    BY DEF ShownWants
  <2> QED
    BY <1>1, <2>1 DEF Still, Hidden
<1>3. Hooks!Vanish(gone)
  BY <1>2 DEF Hooks!Vanish, ShownStage, ShownWants, ShownEnters, ShownExits
<1> QED
  BY <1>3 DEF Hooks!Next

LEMMA OneMoves ==
    ASSUME NEW p \in Proc, ShowsStep(p), \A q \in Proc \ {p} : Still(q)
    PROVE  Hooks!Next
<1>1. ASSUME NEW q \in Proc \ {p}
      PROVE  /\ ShownStage(q)' = ShownStage(q)
             /\ ShownWants(q)' = ShownWants(q)
             /\ ShownEnters(q)' = ShownEnters(q)
             /\ ShownExits(q)' = ShownExits(q)
  BY DEF Still
<1>2. CASE ShowsCall(p)
  <2>1. PICK sysexit \in BOOLEAN : ShownWants(p)' = sysexit
    BY DEF ShownWants
  <2>2. Hooks!Call(p, sysexit)
    BY <1>1, <1>2, <2>1 DEF ShowsCall, Hooks!Call, Hooks!Step, ShownStage, ShownWants, ShownEnters, ShownExits
  <2> QED
    BY <2>1, <2>2 DEF Hooks!Next
<1>3. CASE ShowsEnter(p)
  <2>1. Hooks!Enter(p)
    BY <1>1, <1>3 DEF ShowsEnter, Hooks!Enter, Hooks!Step, ShownStage, ShownWants, ShownEnters, ShownExits
  <2> QED
    BY <2>1 DEF Hooks!Next
<1>4. CASE ShowsExecute(p)
  <2>1. Hooks!Execute(p)
    BY <1>1, <1>4 DEF ShowsExecute, Hooks!Execute, Hooks!Step, ShownStage, ShownWants, ShownEnters, ShownExits
  <2> QED
    BY <2>1 DEF Hooks!Next
<1>5. CASE ShowsReturn(p)
  <2>1. Hooks!Return(p, FALSE) \/ Hooks!Return(p, TRUE)
    BY <1>1, <1>5 DEF ShowsReturn, Hooks!Return, Hooks!Step, ShownStage, ShownWants, ShownEnters, ShownExits
  <2> QED
    BY <2>1 DEF Hooks!Next
<1> QED
  BY <1>2, <1>3, <1>4, <1>5 DEF ShowsStep

-----------------------------------------------------------------------------
(***************************************************************************)
(* What each step shows of the processes it concerns.                      *)
(***************************************************************************)

\* What the mapping reads of q is as it was.
Alone(q) ==
    /\ at'[q] = at[q] /\ sys'[q] = sys[q] /\ filter'[q] = filter[q]
    /\ enters'[q] = enters[q] /\ exits'[q] = exits[q]
    /\ birth'[q] = "late" <=> birth[q] = "late"

LEMMA AloneIsStill ==
    ASSUME NEW q \in Proc, Alone(q)
    PROVE  Still(q)
<1>1. Concerned(q)' <=> Concerned(q)
  BY DEF Alone, Concerned, Promised
<1>2. Stage(q)' = Stage(q) /\ FilterSysexit(sys[q])' = FilterSysexit(sys[q])
  BY DEF Alone, Stage, FilterSysexit
<1> QED
  BY <1>1, <1>2 DEF Alone, Still, ShownStage, ShownWants, ShownEnters, ShownExits

LEMMA UnconcernedIsHidden ==
    ASSUME NEW q \in Proc, ~Concerned(q)'
    PROVE  Hidden(q)
  BY DEF Hidden, ShownStage, ShownWants, ShownEnters, ShownExits

\* Only p is touched by the step.
LEMMA StepOfOne ==
    ASSUME NEW p \in Proc, \A q \in Proc \ {p} : Alone(q),
           Concerned(p)' => ShowsStep(p) \/ Still(p)
    PROVE  Hooks!Next
<1>1. \A q \in Proc \ {p} : Still(q)
  BY AloneIsStill
<1>2. CASE ShowsStep(p)
  BY <1>1, <1>2, OneMoves
<1>3. CASE ~ShowsStep(p)
  <2>1. Still(p) \/ Hidden(p)
    BY <1>3, UnconcernedIsHidden
  <2> QED
    BY <1>1, <2>1, NobodyMoves
<1> QED
  BY <1>2, <1>3

\* A step of the kernel, but Fork, leaves every other process alone.
LEMMA LocalKernelAlone ==
    ASSUME TypeOK, NEW p \in Proc, LocalKernel(p)
    PROVE  \A q \in Proc \ {p} : Alone(q)
<1> USE DEF TypeOK, Alone, Move, history
<1>1. ASSUME NEW s \in Sys, EnterKernel(p, s) PROVE \A q \in Proc \ {p} : Alone(q)
  BY <1>1 DEF EnterKernel
<1>2. CASE MeetFilter(p)
  BY <1>2 DEF MeetFilter
<1>3. CASE Execute(p)
  BY <1>3 DEF Execute
<1>4. CASE Exec(p) \/ Exit(p) \/ Die(p) \/ Killed(p)
  BY <1>4 DEF Exec, Exit, Die, Killed
<1>5. CASE Leave(p)
  BY <1>5 DEF Leave
<1>6. CASE GetSignal(p)
  BY <1>6 DEF GetSignal
<1> QED
  BY <1>1, <1>2, <1>3, <1>4, <1>5, <1>6 DEF LocalKernel, Kernel

LEMMA LocalKernelShows ==
    ASSUME TypeOK, tracer = "running", NEW p \in Proc, Sound(p), LocalKernel(p),
           Concerned(p)'
    PROVE  ShowsStep(p) \/ Still(p)
<1> USE DEF TypeOK, Move, Runs, history
<1>1. ASSUME NEW s \in Sys, EnterKernel(p, s) PROVE ShowsCall(p)
  <2>1. ShownStage(p) = "idle"
    BY <1>1 DEF EnterKernel, ShownStage, Stage
  <2>2. at'[p] = "entry" /\ enters'[p] = 0 /\ exits'[p] = 0
    BY <1>1 DEF EnterKernel
  <2> QED
    BY <2>1, <2>2 DEF ShowsCall, ShownStage, Stage, ShownEnters, ShownExits
<1>2. ASSUME MeetFilter(p) PROVE Still(p)
  <2>1. /\ at[p] = "entry" /\ at'[p] \in {"filter", "body"} /\ sys' = sys /\ filter' = filter
        /\ enters' = enters /\ exits' = exits /\ birth' = birth
    BY <1>2 DEF MeetFilter
  <2>2. Concerned(p)
    BY <2>1 DEF Concerned, Promised
  <2>3. Stage(p)' = Stage(p)
    BY <2>1 DEF Stage
  <2> QED
    BY <2>1, <2>2, <2>3 DEF Still, ShownStage, ShownWants, ShownEnters, ShownExits
<1>3. ASSUME Execute(p) \/ Exec(p) PROVE ShowsExecute(p)
  <2>1. /\ at[p] = "body" /\ at'[p] = "after" /\ sys' = sys
        /\ enters' = enters /\ exits' = exits /\ birth' = birth
        /\ filter'[p] => filter[p] \/ sys[p] = "install"
    BY <1>3 DEF Execute, Exec
  <2>2. filter[p] /\ Filtered(sys[p]) /\ birth[p] # "late"
    BY <2>1 DEF Concerned, Promised, Filtered
  <2>3. Concerned(p)
    BY <2>1, <2>2 DEF Concerned, Promised
  <2>4. Mirrors(p) /\ birth[p] # "pending"
    BY <2>1, <2>2 DEF Sound, Live, Mirrors, Listing
  <2>5. enters[p] = 1
    BY <2>1, <2>2, <2>4 DEF Mirrors, InBody
  <2>6. Stage(p) = "entered" /\ Stage(p)' = "executed"
    BY <2>1, <2>5 DEF Stage
  <2> QED
    BY <2>1, <2>3, <2>6 DEF ShowsExecute, ShownStage, ShownWants, ShownEnters, ShownExits
<1>4. CASE Exit(p) \/ Die(p) \/ Killed(p)
  BY <1>4 DEF Exit, Die, Killed, Concerned
<1>5. ASSUME Leave(p) PROVE ShowsReturn(p) \/ Still(p)
  <2>1. /\ at[p] = "after" /\ at'[p] = (IF tif[p] THEN "leave" ELSE "user")
        /\ sys' = sys /\ filter' = filter
        /\ enters' = enters /\ exits' = exits /\ birth' = birth
    BY <1>5 DEF Leave
  <2>2. Concerned(p)
    BY <2>1 DEF Concerned, Promised
  <2>3. CASE tif[p]
    <3>1. Stage(p)' = Stage(p)
      BY <2>1, <2>3 DEF Stage
    <3> QED
      BY <2>1, <2>2, <3>1 DEF Still, ShownStage, ShownWants, ShownEnters, ShownExits
  <2>4. CASE ~tif[p]
    <3>1. Mirrors(p) /\ birth[p] # "pending"
      BY <2>1, <2>2 DEF Sound, Concerned, Promised, Live, Mirrors, Listing
    <3>2. ~FilterSysexit(sys[p])
      BY <2>1, <2>2, <2>4, <3>1 DEF Mirrors, InBody, Concerned, Promised
    <3>3. Stage(p) = "executed" /\ Stage(p)' = "idle"
      BY <2>1, <2>4 DEF Stage
    <3> QED
      BY <2>1, <2>2, <3>2, <3>3 DEF ShowsReturn, ShownStage, ShownWants, ShownEnters, ShownExits
  <2> QED
    BY <2>3, <2>4
<1>6. ASSUME GetSignal(p) PROVE Still(p)
  <2>1. Alone(p)
    BY <1>6 DEF GetSignal, Alone
  <2> QED
    BY <2>1, AloneIsStill
<1> QED
  BY <1>1, <1>2, <1>3, <1>4, <1>5, <1>6 DEF LocalKernel, Kernel, ShowsStep

\* A fork is in no filter: the promise is about neither parent nor child.
LEMMA ForkShows ==
    ASSUME TypeOK, NEW p \in Proc, NEW c \in Proc, Fork(p, c)
    PROVE  Hooks!Next
<1>1. ASSUME NEW q \in Proc \ {p, c} PROVE Alone(q)
  BY DEF Fork, Alone, TypeOK
<1>2. sys'[p] = "fork" /\ sys'[c] = "fork"
  BY DEF Fork, TypeOK
<1>3. ~Concerned(p)' /\ ~Concerned(c)'
  BY <1>2 DEF Concerned, Promised, Filtered
<1>4. \A q \in Proc : Still(q) \/ Hidden(q)
  BY <1>1, <1>3, AloneIsStill, UnconcernedIsHidden
<1> QED
  BY <1>4, NobodyMoves

LEMMA KernelShows ==
    ASSUME TypeOK, tracer = "running", NEW p \in Proc, Sound(p), Kernel(p)
    PROVE  Hooks!Next
<1>1. ASSUME NEW c \in Proc, Fork(p, c) PROVE Hooks!Next
  BY <1>1, ForkShows
<1>2. CASE LocalKernel(p)
  BY <1>2, LocalKernelAlone, LocalKernelShows, StepOfOne
<1> QED
  BY <1>1, <1>2 DEF LocalKernel

\* An iteration restarts p, or finds it dead, and touches no other process.
LEMMA RestartAlone ==
    ASSUME TypeOK, NEW p \in Proc, NEW tracees, NEW t, NEW alive \in BOOLEAN,
           Restart(p, tracees, t, alive), sys' = sys, filter' = filter,
           \A q \in Proc \ {p} :
               birth'[q] = birth[q] /\ enters'[q] = enters[q] /\ exits'[q] = exits[q]
    PROVE  /\ \A q \in Proc \ {p} : Alone(q)
           /\ alive => at'[p] = Resumed(at[p])
           /\ ~alive => ~Concerned(p)'
<1> USE DEF TypeOK
<1>1. CASE alive
  <2>1. at' = [at EXCEPT ![p] = Resumed(at[p])]
    BY <1>1 DEF Restart, Move
  <2> QED
    BY <1>1, <2>1 DEF Alone
<1>2. CASE ~alive
  <2>1. at' = [at EXCEPT ![p] = "dead"]
    BY <1>2 DEF Restart, Move
  <2> QED
    BY <1>2, <2>1 DEF Alone, Concerned
<1> QED
  BY <1>1, <1>2

\* An event that is no stage of a system call shows nothing of p.
LEMMA PassedOnShows ==
    ASSUME TypeOK, NEW p \in Proc, Sound(p), Placed, NEW alive \in BOOLEAN,
           \/ OnNote(p, alive) \/ OnSigstop(p, alive) \/ OnSignal(p, alive)
    PROVE  Hooks!Next
<1>1. PICK t : /\ Restart(p, FreeTerminated, t, alive)
               /\ ev[p] \in {"note", "sigstop", "signal"} /\ RanAhead(p, alive)
               /\ sys' = sys /\ filter' = filter /\ enters' = enters /\ exits' = exits
  BY DEF OnNote, OnSigstop, OnSignal, Event
<1>2. /\ \A q \in Proc \ {p} : birth'[q] = birth[q]
      /\ birth'[p] = "late" <=> birth[p] = "late"
  BY <1>1 DEF RanAhead, TypeOK, Births
<1>3. /\ \A q \in Proc \ {p} : Alone(q)
      /\ alive => at'[p] = Resumed(at[p])
      /\ ~alive => ~Concerned(p)'
  BY <1>1, <1>2, RestartAlone
<1>4. ASSUME Concerned(p)' PROVE Still(p)
  <2>1. at'[p] = Resumed(at[p])
    BY <1>3, <1>4
  <2>2. Live(p) /\ birth[p] # "late"
    BY <1>2, <1>4, <2>1 DEF Concerned, Promised, Live, Resumed, TypeOK, Births
  <2>3. at[p] \in {"user", "after"}
    BY <1>1, <2>2
       DEF Sound, Mirrors, Listing, InUser, InEntry, InFilter, InBody, InLeave, Live, TypeOK, Places
  <2>4. Alone(p)
    BY <1>1, <1>2, <2>1, <2>3 DEF Alone, Resumed
  <2> QED
    BY <2>4, AloneIsStill
<1> QED
  BY <1>3, <1>4, StepOfOne

\* The first stop of a root comes before it may have loaded the filter.
LEMMA SigtrapShows ==
    ASSUME TypeOK, NEW p \in Proc, Sound(p), NEW accepted \in BOOLEAN, OnSigtrap(p, accepted)
    PROVE  Hooks!Next
<1>1. PICK u : /\ Restart(p, FreeTerminated, CommonFlow(u, sys[p], TRUE), TRUE)
               /\ Callbacks(p, u, TRUE)
               /\ ev[p] = "sigtrap" /\ sys' = sys /\ filter' = filter /\ birth' = birth
  BY DEF OnSigtrap, Event
<1>2. \A q \in Proc \ {p} : enters'[q] = enters[q] /\ exits'[q] = exits[q]
  BY <1>1, CallbacksCount
<1>3. (\A q \in Proc \ {p} : Alone(q)) /\ at'[p] = Resumed(at[p])
  BY <1>1, <1>2, RestartAlone
<1>4. ~Concerned(p)'
  <2> SUFFICES ASSUME Concerned(p)' PROVE FALSE
    OBVIOUS
  <2>1. Live(p) /\ birth[p] # "late" /\ filter[p]
    BY <1>1, <1>3 DEF Concerned, Promised, Live, Resumed
  <2>2. Mirrors(p) /\ birth[p] # "pending"
    BY <1>1, <2>1 DEF Sound, Mirrors, Listing
  <2>3. opts[p] = "none"
    BY <1>1, <2>1, <2>2
       DEF Mirrors, InUser, InEntry, InFilter, InBody, InLeave, Live, TypeOK, Places
  <2> QED
    BY <2>1, <2>2, <2>3 DEF Mirrors, Unset
<1> QED
  BY <1>3, <1>4, StepOfOne

\* kill_all_tracees.
LEMMA SigtrapFailsShows ==
    ASSUME TypeOK, NEW p \in Proc, OnSigtrapFails(p)
    PROVE  Hooks!Next
<1>1. ASSUME NEW q \in Proc PROVE Still(q) \/ Hidden(q)
  <2>1. CASE at'[q] = at[q]
    <3>1. Alone(q)
      BY <2>1 DEF OnSigtrapFails, Alone, history
    <3> QED
      BY <3>1, AloneIsStill
  <2>2. CASE at'[q] # at[q]
    <3>1. at'[q] = "dead"
      BY <2>2 DEF OnSigtrapFails
    <3> QED
      BY <3>1, UnconcernedIsHidden DEF Concerned
  <2> QED
    BY <2>1, <2>2
<1> QED
  BY <1>1, NobodyMoves

\* A stage of a system call, at a syscall stop.
LEMMA SysgoodShows ==
    ASSUME TypeOK, NEW p \in Proc, Sound(p), NEW alive \in BOOLEAN, OnSysgood(p, alive)
    PROVE  Hooks!Next
<1> DEFINE C == Current(p)
<1>1. /\ Restart(p, FreeTerminated, CommonFlow(C, sys[p], alive), alive)
      /\ Callbacks(p, C, C.seccomp # "DISABLING" /\ alive)
      /\ ev[p] = "sysgood" /\ RanAhead(p, alive) /\ sys' = sys /\ filter' = filter
  BY DEF OnSysgood, Event
<1>2. /\ \A q \in Proc \ {p} :
            birth'[q] = birth[q] /\ enters'[q] = enters[q] /\ exits'[q] = exits[q]
      /\ birth'[p] = "late" <=> birth[p] = "late"
  BY <1>1, CallbacksCount DEF RanAhead, TypeOK, Births
<1>3. /\ \A q \in Proc \ {p} : Alone(q)
      /\ alive => at'[p] = Resumed(at[p])
      /\ ~alive => ~Concerned(p)'
  BY <1>1, <1>2, RestartAlone
<1>4. ASSUME Concerned(p)' PROVE ShowsStep(p)
  <2>1. alive /\ at'[p] = Resumed(at[p])
    BY <1>3, <1>4
  <2>2. Concerned(p) /\ Live(p) /\ birth[p] # "late"
    BY <1>1, <1>2, <1>4, <2>1 DEF Concerned, Promised, Live, Resumed
  <2>3. Mirrors(p) /\ birth[p] # "pending"
    BY <1>1, <2>2 DEF Sound, Mirrors, Listing
  <2>4. C.seccomp # "DISABLING" /\ C.status = T[p].status
    BY <2>3, CurrentMirrors DEF Mirrors, AlikeStage
  <2>5. Callbacks(p, C, TRUE)
    BY <1>1, <2>1, <2>4
  <2>6. CASE at[p] = "entry"
    <3>1. enters[p] = 0 /\ C.status = 0
      BY <1>1, <2>3, <2>4, <2>6 DEF Mirrors, InEntry
    <3>2. at'[p] = "entry" /\ enters'[p] = 1 /\ exits'[p] = exits[p]
      BY <2>1, <2>5, <2>6, <3>1 DEF Callbacks, Count, Resumed, TypeOK
    <3>3. Stage(p) = "called" /\ Stage(p)' = "entered"
      BY <2>6, <3>1, <3>2 DEF Stage
    <3>4. ShowsEnter(p)
      BY <1>1, <1>4, <2>2, <3>1, <3>2, <3>3
         DEF ShowsEnter, ShownStage, ShownWants, ShownEnters, ShownExits
    <3> QED
      BY <3>4 DEF ShowsStep
  <2>7. CASE at[p] = "leave"
    <3>1. exits[p] = 0 /\ C.status = 1
      BY <2>3, <2>4, <2>7 DEF Mirrors, InLeave
    <3>2. at'[p] = "user" /\ enters'[p] = enters[p] /\ exits'[p] = 1
      BY <2>1, <2>5, <2>7, <3>1 DEF Callbacks, Count, Resumed, TypeOK
    <3>3. Stage(p) = "executed" /\ Stage(p)' = "idle"
      BY <2>7, <3>2 DEF Stage
    <3>4. ShowsReturn(p)
      BY <1>1, <1>4, <2>2, <3>1, <3>2, <3>3
         DEF ShowsReturn, ShownStage, ShownWants, ShownEnters, ShownExits
    <3> QED
      BY <3>4 DEF ShowsStep
  <2>8. at[p] \in {"entry", "leave"}
    BY <1>1, <2>2, <2>3
       DEF Mirrors, InUser, InEntry, InFilter, InBody, InLeave, Live, TypeOK, Places
  <2> QED
    BY <2>6, <2>7, <2>8
<1> QED
  BY <1>3, <1>4, StepOfOne

\* A filter stop: the entry stage of an accelerated tracee.
LEMMA SeccompShows ==
    ASSUME TypeOK, NEW p \in Proc, Sound(p), Placed, NEW alive \in BOOLEAN, OnSeccomp(p, alive)
    PROVE  Hooks!Next
<1> DEFINE C == Current(p)
           t == Detect(C)
<1>1. /\ Restart(p, FreeTerminated, SeccompFlow(t, sys[p], alive), alive)
      /\ Callbacks(p, t, t.seccomp = "ENABLED" /\ alive)
      /\ ev[p] = "seccomp" /\ RanAhead(p, alive) /\ sys' = sys /\ filter' = filter
  BY DEF OnSeccomp, Event
<1>2. /\ \A q \in Proc \ {p} :
            birth'[q] = birth[q] /\ enters'[q] = enters[q] /\ exits'[q] = exits[q]
      /\ birth'[p] = "late" <=> birth[p] = "late"
  BY <1>1, CallbacksCount DEF RanAhead, TypeOK, Births
<1>3. /\ \A q \in Proc \ {p} : Alone(q)
      /\ alive => at'[p] = Resumed(at[p])
      /\ ~alive => ~Concerned(p)'
  BY <1>1, <1>2, RestartAlone
<1>4. ASSUME Concerned(p)' PROVE ShowsStep(p) \/ Still(p)
  <2>1. alive /\ at[p] = "filter" /\ at'[p] = "body"
    BY <1>1, <1>3, <1>4 DEF Placed, Resumed
  <2>2. Concerned(p) /\ Live(p) /\ birth[p] # "late"
    BY <1>1, <1>2, <1>4, <2>1 DEF Concerned, Promised, Live
  <2>3. Mirrors(p) /\ birth[p] # "pending"
    BY <1>1, <2>2 DEF Sound, Mirrors, Listing
  <2>4. /\ C.seccomp \in {"ENABLED", "DISABLED"} /\ AlikeStage(C, T[p])
        /\ C.seccomp_enabled => C.seccomp_detected
    BY <2>3, CurrentMirrors DEF Mirrors, Alike, AlikeStage, TraceeType
  <2>5. t = C
    BY <2>4 DEF Detect
  <2>6. CASE C.seccomp = "ENABLED"
    <3>1. C.status = 0 /\ enters[p] = 0 /\ Callbacks(p, C, TRUE)
      BY <1>1, <2>1, <2>3, <2>4, <2>5, <2>6 DEF Mirrors, InFilter, AlikeStage
    <3>2. enters'[p] = 1 /\ exits'[p] = exits[p]
      BY <3>1 DEF Callbacks, Count, TypeOK
    <3>3. Stage(p) = "called" /\ Stage(p)' = "entered"
      BY <2>1, <3>1, <3>2 DEF Stage
    <3>4. ShowsEnter(p)
      BY <1>1, <1>4, <2>2, <3>1, <3>2, <3>3
         DEF ShowsEnter, ShownStage, ShownWants, ShownEnters, ShownExits
    <3> QED
      BY <3>4 DEF ShowsStep
  <2>7. CASE C.seccomp = "DISABLED"
    <3>1. enters[p] = 1 /\ Callbacks(p, C, FALSE)
      BY <1>1, <2>1, <2>3, <2>4, <2>5, <2>7 DEF Mirrors, InFilter, AlikeStage
    <3>2. enters'[p] = enters[p] /\ exits'[p] = exits[p]
      BY <3>1, CallbacksCount
    <3>3. Stage(p)' = Stage(p)
      BY <2>1, <3>1, <3>2 DEF Stage
    <3> QED
      BY <1>1, <1>4, <2>2, <3>2, <3>3 DEF Still, ShownStage, ShownWants, ShownEnters, ShownExits
  <2> QED
    BY <2>4, <2>6, <2>7
<1> QED
  BY <1>3, <1>4, StepOfOne

\* A fork event: the child may turn out to be late.
LEMMA CloneShows ==
    ASSUME TypeOK, NEW p \in Proc, Linked, NEW alive \in BOOLEAN, OnClone(p, alive)
    PROVE  Hooks!Next
<1> USE DEF TypeOK
<1>1. ev[p] = "clone" /\ at[p] = "after"
  BY DEF OnClone, Event, Linked
<1>2. sys' = sys /\ filter' = filter /\ enters' = enters /\ exits' = exits
  BY DEF OnClone
<1>3. CASE alive
  <2>1. at' = [at EXCEPT ![p] = "after"]
    BY <1>1, <1>3 DEF OnClone, Restart, Move, Resumed
  <2>2. at' = at
    BY <1>1, <2>1
  <2>3. \A q \in Proc : birth'[q] = birth[q] \/ birth'[q] = "late"
                         \/ (birth[q] = "pending" /\ birth'[q] = "announced")
    BY <1>3 DEF OnClone
  <2>4. ASSUME NEW q \in Proc PROVE Still(q) \/ Hidden(q)
    <3>1. CASE birth'[q] = "late" /\ birth[q] # "late"
      BY <3>1, UnconcernedIsHidden DEF Concerned, Promised
    <3>2. CASE birth'[q] = "late" <=> birth[q] = "late"
      <4>1. Alone(q)
        BY <1>2, <2>2, <3>2 DEF Alone
      <4> QED
        BY <4>1, AloneIsStill
    <3> QED
      BY <2>3, <3>1, <3>2
  <2> QED
    BY <2>4, NobodyMoves
<1>4. CASE ~alive
  <2>1. Restart(p, FreeTerminated, Current(p), FALSE) /\ birth' = birth
    BY <1>4 DEF OnClone
  <2>2. (\A q \in Proc \ {p} : Alone(q)) /\ ~Concerned(p)'
    BY <1>2, <2>1, RestartAlone
  <2> QED
    BY <2>2, StepOfOne
<1> QED
  BY <1>3, <1>4

LEMMA IterationShows ==
    ASSUME TypeOK, \A q \in Proc : Sound(q), Shared, NEW p \in Proc, Iteration(p)
    PROVE  Hooks!Next
<1> USE DEF TypeOK
<1>1. CASE Attach(p)
  <2>1. \A q \in Proc \ {p} : Alone(q)
    BY <1>1 DEF Attach, Move, Alone
  <2>2. ~Concerned(p)'
    BY <1>1 DEF Attach, Shared, Untouched, Concerned, Promised
  <2> QED
    BY <2>1, <2>2, StepOfOne
<1>2. ASSUME NEW accepted \in BOOLEAN, OnSigtrap(p, accepted) PROVE Hooks!Next
  BY <1>2, SigtrapShows
<1>3. CASE OnSigtrapFails(p)
  BY <1>3, SigtrapFailsShows
<1>4. ASSUME NEW alive \in BOOLEAN, OnSeccomp(p, alive) PROVE Hooks!Next
  BY <1>4, SeccompShows DEF Shared
<1>5. ASSUME NEW alive \in BOOLEAN, OnSysgood(p, alive) PROVE Hooks!Next
  BY <1>5, SysgoodShows
<1>6. CASE OnOrphanTraceme(p) \/ OnCloneAsserts(p)
  <2>1. \A q \in Proc : Alone(q)
    BY <1>6 DEF OnOrphanTraceme, OnCloneAsserts, kernel, history, Alone
  <2> QED
    BY <2>1, AloneIsStill, NobodyMoves
<1>7. ASSUME NEW alive \in BOOLEAN, OnClone(p, alive) PROVE Hooks!Next
  BY <1>7, CloneShows DEF Shared
<1>8. ASSUME NEW alive \in BOOLEAN, OnNote(p, alive) \/ OnSigstop(p, alive) \/ OnSignal(p, alive)
      PROVE  Hooks!Next
  BY <1>8, PassedOnShows DEF Shared
<1>9. CASE OnGone(p)
  <2>1. \A q \in Proc \ {p} : Alone(q)
    BY <1>9 DEF OnGone, Move, Alone
  <2>2. at'[p] = "absent"
    BY <1>9 DEF OnGone, Move
  <2> QED
    BY <2>1, <2>2, StepOfOne DEF Concerned
<1> QED
  BY <1>1, <1>2, <1>3, <1>4, <1>5, <1>6, <1>7, <1>8, <1>9 DEF Iteration

-----------------------------------------------------------------------------
(***************************************************************************)
(* Every behaviour of event_loop is one Interception allows: for each call *)
(* in the filter, on_sysenter once and before the kernel executes the      *)
(* call, on_sysexit after it, at most once, and always when the call was   *)
(* filtered with FILTER_SYSEXIT.  The mapping leaves out only the          *)
(* processes whose fork event came too late.                               *)
(***************************************************************************)
THEOREM LoopImplementsInterception == Spec => ImplementsInterception
<1>1. Init => Hooks!Init
  <2> SUFFICES ASSUME Init PROVE Hooks!Init
    OBVIOUS
  <2>1. \A q \in Proc : ~Concerned(q)
    BY DEF Init, Concerned, Promised
  <2> QED
    BY <2>1 DEF Hooks!Init
<1>2. TypeOK /\ IInv /\ [Next]_vars => [Hooks!Next]_(Hooks!vars)
  <2> SUFFICES ASSUME TypeOK, IInv, [Next]_vars PROVE [Hooks!Next]_(Hooks!vars)
    OBVIOUS
  <2>1. CASE UNCHANGED vars
    <3>1. \A q \in Proc : Still(q)
      BY <2>1, AloneIsStill DEF vars, Alone
    <3>2. Hooks!Next
      BY <3>1, NobodyMoves
    <3> QED
      BY <3>2
  <2>2. ASSUME NEW p \in Proc, Kernel(p) \/ Iteration(p) PROVE Hooks!Next
    <3>1. tracer = "running"
      BY <2>2 DEF Kernel, Iteration, EnterKernel, MeetFilter, Execute, Exec, Fork, Exit, Die,
                  Leave, GetSignal, Killed, Runs, Attach, OnSigtrap, OnSigtrapFails, OnSeccomp,
                  OnSysgood, OnOrphanTraceme, OnClone, OnCloneAsserts, OnNote, OnSigstop,
                  OnSignal, OnGone, Event
    <3>2. (\A q \in Proc : Sound(q)) /\ Shared
      BY <3>1, InvariantSplits
    <3> QED
      BY <2>2, <3>1, <3>2, KernelShows, IterationShows
  <2> QED
    BY <2>1, <2>2 DEF Next
<1> QED
  BY <1>1, <1>2, EventLoopTypeOK, TracerMirrorsKernel, PTL DEF Spec, ImplementsInterception, Hooks!Spec

=============================================================================
