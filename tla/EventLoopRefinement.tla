------------------------ MODULE EventLoopRefinement ------------------------
(***************************************************************************)
(* The event loop implements Interception for every process that has       *)
(* loaded, or inherited, the filter and whose fork event did not come too  *)
(* late.                                                                   *)
(***************************************************************************)
EXTENDS EventLoop

\* The calls the promise is about.
Promised(p) == filter[p] /\ Filtered(sys[p]) /\ birth[p] # "late"

Stage(p) ==
    CASE at[p] \in {"entry", "filter", "body"} ->
            IF enters[p] = 0 THEN "called" ELSE "entered"
      [] at[p] \in {"after", "leave"} -> "executed"
      [] OTHER -> "idle"

\* Is p in a promised call, or just back from one?
Concerned(p) ==
    Promised(p) /\ at[p] \notin {"absent", "untraced", "dying", "dead"}

Hooks == INSTANCE Interception WITH
    stage <- [p \in Proc |-> IF Concerned(p) THEN Stage(p) ELSE "idle"],
    wants <- [p \in Proc |-> Concerned(p) /\ Stage(p) # "idle" /\ FilterSysexit(sys[p])],
    enters <- [p \in Proc |-> IF Concerned(p) THEN enters[p] ELSE 0],
    exits <- [p \in Proc |-> IF Concerned(p) THEN exits[p] ELSE 0]

(***************************************************************************)
(* Every behaviour of event_loop is one the hooks were promised: the       *)
(* callbacks of translate_syscall_enter and _exit come once each, in       *)
(* order, around the execution of the call they are for.                   *)
(***************************************************************************)
ImplementsInterception == Hooks!Spec

=============================================================================
