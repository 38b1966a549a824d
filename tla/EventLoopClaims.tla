------------------------- MODULE EventLoopClaims -------------------------
(***************************************************************************)
(* What comments and assertions of the sources say of the event loop and   *)
(* the model refutes.                                                      *)
(***************************************************************************)
EXTENDS EventLoop

(***************************************************************************)
(* tracee.h: "Current status: 0: enter syscall, 1: exit syscall no error".  *)
(* It is not the stage of a process that ran before its fork event was     *)
(* handled: new_child then gives it its parent's acceleration while it is  *)
(* between two syscall stops, which "case SIGSTOP: Stop this tracee until  *)
(* PRoot has received the EVENT_*FORK|CLONE notification" of event.c would *)
(* prevent if its body were not commented out.                             *)
(***************************************************************************)
StatusIsStage ==
    tracer = "running" =>
        \A p \in Proc :
            /\ ev[p] \in {"sysgood", "sigtrap"} /\ at[p] = "entry" => T[p].status = 0
            /\ ev[p] = "seccomp" /\ T[p].seccomp = "ENABLED" => T[p].status = 0
            /\ ev[p] = "sysgood" /\ at[p] = "leave" => T[p].status = 1

(***************************************************************************)
(* event.c: "Kill all tracees on abnormal termination signals.  This       *)
(* ensures no process is left untraced."  kill_all_tracees2, the handler   *)
(* that is installed, has the call commented out; the tracer may abort in  *)
(* new_child, whose sanity check does not hold of a structure made for a   *)
(* child that was already dead, once its pid is used again.                *)
(***************************************************************************)
Attached(p) == at[p] \notin {"absent", "untraced", "dead"}

NobodyLeftUntraced == tracer = "crashed" => \A p \in Proc : ~Attached(p)

=============================================================================
