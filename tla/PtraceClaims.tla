---------------------------- MODULE PtraceClaims ----------------------------
(***************************************************************************)
(* What a comment of the sources says of the ptrace emulation and the      *)
(* model refutes.                                                          *)
(***************************************************************************)
EXTENDS MCPtrace

(***************************************************************************)
(* tracee.c, in remove_tracee, for the death of a ptracer: "Its tracees    *)
(* are now free."  A process that is nobody's ptracee, and sleeps in no    *)
(* wait, is not kept stopped.                                              *)
(***************************************************************************)
PtraceesAreFreed ==
    tracer = "running" =>
        \A q \in Proc : KeptStopped(q) /\ at[q] # "dead" => T[q].ptracer # NoProc

=============================================================================
