---------------------------- MODULE Interception ----------------------------
(***************************************************************************)
(* What the tracer promises the code hooked to a system call: for every    *)
(* call in the filter, on_sysenter runs once, before the kernel executes   *)
(* the call; on_sysexit runs at most once, after it, and always if the     *)
(* call was filtered with FILTER_SYSEXIT.  A process may vanish anywhere,  *)
(* and nothing more is called for a call it was in.                        *)
(***************************************************************************)
EXTENDS Naturals

CONSTANT Proc

VARIABLES stage,  \* where the process is in its filtered system call
          wants,  \* was the call filtered with FILTER_SYSEXIT?
          enters, \* on_sysenter callbacks of the current, or last, call
          exits   \* on_sysexit callbacks of the current, or last, call

vars == <<stage, wants, enters, exits>>

Init ==
    /\ stage = [p \in Proc |-> "idle"]
    /\ wants = [p \in Proc |-> FALSE]
    /\ enters = [p \in Proc |-> 0]
    /\ exits = [p \in Proc |-> 0]

Step(p, from, to) == stage[p] = from /\ stage' = [stage EXCEPT ![p] = to]

Call(p, sysexit) ==
    /\ Step(p, "idle", "called")
    /\ wants' = [wants EXCEPT ![p] = sysexit]
    /\ enters' = [enters EXCEPT ![p] = 0]
    /\ exits' = [exits EXCEPT ![p] = 0]

Enter(p) ==
    /\ Step(p, "called", "entered")
    /\ enters' = [enters EXCEPT ![p] = @ + 1]
    /\ UNCHANGED <<wants, exits>>

Execute(p) ==
    /\ Step(p, "entered", "executed")
    /\ UNCHANGED <<wants, enters, exits>>

Return(p, called) ==
    /\ Step(p, "executed", "idle")
    /\ wants[p] => called
    /\ exits' = [exits EXCEPT ![p] = IF called THEN @ + 1 ELSE @]
    /\ wants' = [wants EXCEPT ![p] = FALSE]
    /\ UNCHANGED enters

\* The processes that are killed, or make a call the filter does not hold, or
\* whose fork event comes too late to promise anything.
Vanish(gone) ==
    /\ stage' = [p \in Proc |-> IF p \in gone THEN "idle" ELSE stage[p]]
    /\ wants' = [p \in Proc |-> wants[p] /\ p \notin gone]
    /\ enters' = [p \in Proc |-> IF p \in gone THEN 0 ELSE enters[p]]
    /\ exits' = [p \in Proc |-> IF p \in gone THEN 0 ELSE exits[p]]

Next ==
    \/ \E p \in Proc :
        \/ \E sysexit \in BOOLEAN : Call(p, sysexit)
        \/ Enter(p)
        \/ Execute(p)
        \/ \E called \in BOOLEAN : Return(p, called)
    \/ \E gone \in SUBSET Proc : Vanish(gone)

Spec == Init /\ [][Next]_vars

=============================================================================
