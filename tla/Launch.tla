------------------------------ MODULE Launch ------------------------------
(***************************************************************************)
(* How a process gets traced (library.c, and the helper branch of          *)
(* event_loop in tracee/event.c).  An app process calls attachMe; a thread *)
(* of the tracer runs trace_new_pid for it: it publishes the pid in        *)
(* snew_attach_pid and forks a helper that exits at once with 255.  The    *)
(* work thread, blocked in waitpid, is woken by that exit, attaches the    *)
(* process and signals spctx, where the calling thread waits.              *)
(*                                                                         *)
(* The work thread and the threads of the calls share snew_attach_pid,     *)
(* s_work_thread_doing and two condition variables; every unprotected read *)
(* and write of them is a step of its own.  A call is identified with the  *)
(* process it is made for.                                                 *)
(***************************************************************************)
EXTENDS Naturals, FiniteSets

CONSTANTS App,        \* the app processes, and the calls made for them
          NoPid,      \* the pid -1
          Concurrent, \* may calls overlap?
          ForkFails,  \* may fork() fail?
          Spurious,   \* may pthread_cond_wait return though nobody signalled?
          Refusals,   \* may PTRACE_ATTACH be refused for a live, untraced process?
          Deaths      \* may app processes die?

ASSUME LaunchAssumption ==
    /\ NoPid \notin App
    /\ Concurrent \in BOOLEAN
    /\ ForkFails \in BOOLEAN
    /\ Spurious \in BOOLEAN
    /\ Refusals \in BOOLEAN
    /\ Deaths \in BOOLEAN

VARIABLES
    work,     \* where the work thread is
    target,   \* the process of the last PTRACE_ATTACH that succeeded
    roots,    \* the pids recorded in root Tracee structures
    pc,       \* where each call is
    helper,   \* the helper process of each call
    app,      \* the kernel's view of each app process
    s_work_thread_doing,
    snew_attach_pid,
    waitting_for_tracee,
    unsignalled, \* history: the calls that left cmn_pt_wait and nobody signalled
    refused      \* history: the live, untraced processes PTRACE_ATTACH was refused for

calls == <<pc, helper>>
globals == <<s_work_thread_doing, snew_attach_pid, waitting_for_tracee>>
history == <<unsignalled, refused>>
vars == <<work, target, roots, pc, helper, app, s_work_thread_doing,
          snew_attach_pid, waitting_for_tracee, unsignalled, refused>>

Places == {"idle", "launching", "launchwait", "ready", "published", "forked",
           "waiting", "leaving", "returned"}

TypeOK ==
    /\ work \in {"created", "loop", "attach", "record", "notify", "clear", "ended"}
    /\ target \in App \cup {NoPid}
    /\ roots \subseteq App \cup {NoPid}
    /\ pc \in [App -> Places]
    /\ helper \in [App -> {"none", "running", "exited", "reaped"}]
    /\ app \in [App -> {"untraced", "traced", "zombie", "gone"}]
    /\ s_work_thread_doing \in BOOLEAN
    /\ snew_attach_pid \in App \cup {NoPid}
    /\ waitting_for_tracee \in BOOLEAN
    /\ unsignalled \subseteq App
    /\ refused \subseteq App

Init ==
    /\ work = "created"
    /\ target = NoPid
    /\ roots = {}
    /\ pc = [c \in App |-> "idle"]
    /\ helper = [c \in App |-> "none"]
    /\ app = [c \in App |-> "untraced"]
    /\ s_work_thread_doing = FALSE
    /\ snew_attach_pid = NoPid
    /\ waitting_for_tracee = TRUE
    /\ unsignalled = {}
    /\ refused = {}

Goto(c, from, to) == pc[c] = from /\ pc' = [pc EXCEPT ![c] = to]

\* pthread_cond_signal: one of the calls that wait at "from", if any, goes on.
CondSignal(from, to) ==
    IF \E c \in App : pc[c] = from
      THEN \E c \in App : Goto(c, from, to)
      ELSE UNCHANGED pc

InProgress(c) == pc[c] \notin {"idle", "returned"}

-----------------------------------------------------------------------------
(***************************************************************************)
(* Wrong versions of the steps below, one plausible bug each: with any of  *)
(* them in its place a property of this module fails.                      *)
(***************************************************************************)

\* snew_attach_pid not reset at the end of the call.
ReturnKeepsPid(c) ==
    /\ Goto(c, "leaving", "returned")
    /\ UNCHANGED <<work, target, roots, helper, app, globals, history>>

\* snew_attach_pid consumed by PTRACE_ATTACH.
AttachClears ==
    /\ work = "attach"
    /\ snew_attach_pid \in App
    /\ app[snew_attach_pid] = "untraced"
    /\ app' = [app EXCEPT ![snew_attach_pid] = "traced"]
    /\ target' = snew_attach_pid
    /\ snew_attach_pid' = NoPid
    /\ waitting_for_tracee' = FALSE
    /\ work' = "record"
    /\ UNCHANGED <<roots, calls, s_work_thread_doing, history>>

\* The waiting call told of the helper's exit, before PTRACE_ATTACH.
TakeHelperNotifies(c) ==
    /\ work = "loop"
    /\ helper[c] = "exited"
    /\ helper' = [helper EXCEPT ![c] = "reaped"]
    /\ work' = IF snew_attach_pid # NoPid THEN "attach" ELSE "loop"
    /\ CondSignal("waiting", "leaving")
    /\ UNCHANGED <<target, roots, app, globals, history>>

\* The new structure filled in, and nobody told.
RecordForgetsNotify ==
    /\ work = "record"
    /\ roots' = roots \cup {snew_attach_pid}
    /\ work' = "clear"
    /\ UNCHANGED <<target, calls, app, globals, history>>

\* 0 taken for "no pid".
ClearWithZero ==
    /\ work = "clear"
    /\ snew_attach_pid' = 0
    /\ work' = "loop"
    /\ UNCHANGED <<target, roots, calls, app, s_work_thread_doing, waitting_for_tracee, history>>

-----------------------------------------------------------------------------
(***************************************************************************)
(* trace_new_pid and trace_new_pid_internal, run for process c.            *)
(***************************************************************************)

\* s_work_thread_doing is read without the mutex.
Call(c) ==
    /\ Concurrent \/ \A d \in App : ~InProgress(d)
    /\ app[c] = "untraced"
    /\ Goto(c, "idle", IF s_work_thread_doing THEN "ready" ELSE "launching")
    /\ UNCHANGED <<work, target, roots, helper, app, globals, history>>

\* cmn_pt_wait2: the check and the beginning of the wait are atomic.
WaitLaunch(c) ==
    /\ Goto(c, "launching", IF s_work_thread_doing THEN "ready" ELSE "launchwait")
    /\ UNCHANGED <<work, target, roots, helper, app, globals, history>>

Publish(c) ==
    /\ Goto(c, "ready", "published")
    /\ snew_attach_pid' = c
    /\ UNCHANGED <<work, target, roots, helper, app, s_work_thread_doing, waitting_for_tracee, history>>

ForkHelper(c) ==
    /\ Goto(c, "published", "forked")
    /\ helper' = [helper EXCEPT ![c] = "running"]
    /\ UNCHANGED <<work, target, roots, app, globals, history>>

\* fork() < 0 is logged and otherwise treated as the end of the wait.
ForkHelperFails(c) ==
    /\ ForkFails
    /\ Goto(c, "published", "leaving")
    /\ UNCHANGED <<work, target, roots, helper, app, globals, history>>

\* cmn_pt_wait: there is nothing to check before waiting.
WaitHelper(c) ==
    /\ Goto(c, "forked", "waiting")
    /\ UNCHANGED <<work, target, roots, helper, app, globals, history>>

\* pthread_cond_wait may return though nobody signalled, and neither wait
\* looks again at what it waited for.
WakesByItself(c) ==
    /\ Spurious
    /\ \/ Goto(c, "launchwait", "ready") /\ UNCHANGED unsignalled
       \/ Goto(c, "waiting", "leaving") /\ unsignalled' = unsignalled \cup {c}
    /\ UNCHANGED <<work, target, roots, helper, app, globals, refused>>

\* snew_attach_pid = -1; the join; return 0.
Return(c) ==
    /\ Goto(c, "leaving", "returned")
    /\ snew_attach_pid' = NoPid
    /\ UNCHANGED <<work, target, roots, helper, app, s_work_thread_doing, waitting_for_tracee, history>>

HelperExits(c) ==
    /\ helper[c] = "running"
    /\ helper' = [helper EXCEPT ![c] = "exited"]
    /\ UNCHANGED <<work, target, roots, pc, app, globals, history>>

-----------------------------------------------------------------------------
(***************************************************************************)
(* work_main and event_loop.                                               *)
(***************************************************************************)

\* cmn_pt_signal2 with need_signal_launch.
Launched ==
    /\ work = "created"
    /\ work' = "loop"
    /\ s_work_thread_doing' = TRUE
    /\ CondSignal("launchwait", "ready")
    /\ UNCHANGED <<target, roots, helper, app, snew_attach_pid, waitting_for_tracee, history>>

\* waitpid returns a helper; without a published pid it passes for a tracee
\* that has exited.
TakeHelper(c) ==
    /\ work = "loop"
    /\ helper[c] = "exited"
    /\ helper' = [helper EXCEPT ![c] = "reaped"]
    /\ work' = IF snew_attach_pid # NoPid THEN "attach" ELSE "loop"
    /\ UNCHANGED <<target, roots, pc, app, globals, history>>

Attach ==
    /\ work = "attach"
    /\ snew_attach_pid \in App
    /\ app[snew_attach_pid] = "untraced"
    /\ app' = [app EXCEPT ![snew_attach_pid] = "traced"]
    /\ target' = snew_attach_pid
    /\ waitting_for_tracee' = FALSE
    /\ work' = "record"
    /\ UNCHANGED <<roots, calls, s_work_thread_doing, snew_attach_pid, history>>

\* Dead, traced already, or refused with EPERM: a process that is not
\* dumpable, the failure of before_attach to make it so being ignored.  The
\* call that waits is told nothing.
AttachFails ==
    /\ work = "attach"
    /\ \/ /\ snew_attach_pid \in App => app[snew_attach_pid] # "untraced"
          /\ UNCHANGED refused
       \/ /\ Refusals
          /\ snew_attach_pid \in App
          /\ app[snew_attach_pid] = "untraced"
          /\ refused' = refused \cup {snew_attach_pid}
    /\ work' = "loop"
    /\ UNCHANGED <<target, roots, calls, app, globals, unsignalled>>

\* new_tracee->pid = snew_attach_pid
Record ==
    /\ work = "record"
    /\ roots' = roots \cup {snew_attach_pid}
    /\ work' = "notify"
    /\ UNCHANGED <<target, calls, app, globals, history>>

\* cmn_pt_signal, without the mutex.
Notify ==
    /\ work = "notify"
    /\ CondSignal("waiting", "leaving")
    /\ work' = "clear"
    /\ UNCHANGED <<target, roots, helper, app, globals, history>>

Clear ==
    /\ work = "clear"
    /\ snew_attach_pid' = NoPid
    /\ work' = "loop"
    /\ UNCHANGED <<target, roots, calls, app, s_work_thread_doing, waitting_for_tracee, history>>

\* The end of a tracee is reported.
TakeTracee(c) ==
    /\ work = "loop"
    /\ app[c] = "zombie"
    /\ app' = [app EXCEPT ![c] = "gone"]
    /\ roots' = roots \ {c}
    /\ UNCHANGED <<work, target, calls, globals, history>>

\* waitpid fails with ECHILD: the loop spins until it has had a tracee, and
\* ends when it has had one.
NoMoreTracee ==
    /\ work = "loop"
    /\ \A c \in App : helper[c] \notin {"running", "exited"}
    /\ \A c \in App : app[c] \notin {"traced", "zombie"}
    /\ ~waitting_for_tracee
    /\ work' = "ended"
    /\ UNCHANGED <<target, roots, calls, app, globals, history>>

Dies(c) ==
    /\ Deaths
    /\ app[c] \in {"untraced", "traced"}
    /\ app' = [app EXCEPT ![c] = IF @ = "traced" THEN "zombie" ELSE "gone"]
    /\ UNCHANGED <<work, target, roots, calls, globals, history>>

-----------------------------------------------------------------------------
CallStep(c) ==
    \/ WaitLaunch(c)
    \/ Publish(c)
    \/ ForkHelper(c)
    \/ ForkHelperFails(c)
    \/ WaitHelper(c)
    \/ Return(c)

Work ==
    \/ Launched
    \/ \E c \in App : TakeHelper(c) \/ TakeTracee(c)
    \/ Attach
    \/ AttachFails
    \/ Record
    \/ Notify
    \/ Clear
    \/ NoMoreTracee

Next ==
    \/ \E c \in App : Call(c) \/ CallStep(c) \/ WakesByItself(c) \/ HelperExits(c) \/ Dies(c)
    \/ Work

Spec == Init /\ [][Next]_vars

\* Threads and helper processes that can run do; nobody has to call.
Fairness ==
    /\ WF_vars(Work)
    /\ \A c \in App : WF_vars(CallStep(c)) /\ WF_vars(HelperExits(c))

FairSpec == Spec /\ Fairness

-----------------------------------------------------------------------------
(***************************************************************************)
(* trace_new_pid returns 0, which attachMe documents as success, only when *)
(* the process it was called for is traced, or has died.  It holds while   *)
(* calls do not overlap, fork succeeds and the wait of cmn_pt_wait, which  *)
(* tests no predicate, ends by a signal only.                              *)
(***************************************************************************)
ReturnMeansTraced ==
    unsignalled = {} => \A c \in App : pc[c] = "returned" => app[c] # "untraced"

(***************************************************************************)
(* The structure made for an attached process bears its pid, though        *)
(* snew_attach_pid is read again for it after PTRACE_ATTACH.  It holds     *)
(* under the same conditions: a call that leaves its wait early clears     *)
(* snew_attach_pid between the two.                                        *)
(***************************************************************************)
RootIsTarget ==
    unsignalled = {} /\ work \in {"notify", "clear"} => target \in roots

(***************************************************************************)
(* Overlapping calls or not, and even if waits end by themselves, a        *)
(* process is attached only while a call made for it is in progress:       *)
(* neither snew_attach_pid nor a helper's exit that is left over from an   *)
(* earlier call attaches anything.                                         *)
(***************************************************************************)
AttachInProgress ==
    [][\A c \in App : app[c] # app'[c] /\ app'[c] = "traced" => InProgress(c)]_vars

(***************************************************************************)
(* The inductive invariant behind them.  Published needs no assumption;    *)
(* the others are about calls that do not overlap, a fork that does not    *)
(* fail and waits that end by a signal: then the call the work thread      *)
(* answers is the only one.                                                *)
(***************************************************************************)
Published ==
    \A c \in App : snew_attach_pid = c =>
        pc[c] \in {"published", "forked", "waiting", "leaving"}

OneCall == \A c, d \in App : InProgress(c) /\ InProgress(d) => c = d

Answered ==
    \A c \in App : pc[c] \in {"leaving", "returned"} => app[c] # "untraced"

Answering ==
    /\ work \in {"record", "notify"} =>
          /\ target \in App
          /\ app[target] # "untraced"
          /\ pc[target] \in {"published", "forked", "waiting"}
    /\ work = "record" => snew_attach_pid = target

SerialInv ==
    /\ Published
    /\ OneCall
    /\ unsignalled = {} => Answered /\ Answering

(***************************************************************************)
(* A call that has begun to wait before the work thread looks at its       *)
(* helper, for a process that stays alive, returns, unless the kernel      *)
(* refuses PTRACE_ATTACH for that process.                                 *)
(***************************************************************************)
InTime(c) ==
    /\ work = "loop"
    /\ pc[c] = "waiting"
    /\ helper[c] \in {"running", "exited"}
    /\ snew_attach_pid = c

WaiterIsWoken ==
    \A c \in App :
        InTime(c) ~> \/ pc[c] = "returned"
                    \/ app[c] \in {"zombie", "gone"}
                    \/ c \in refused

=============================================================================
