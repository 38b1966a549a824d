------------------------------ MODULE MCPtrace ------------------------------
(***************************************************************************)
(* Model checking PtraceEmulation: p1 is the parent of p2, and p2 forks p3.*)
(***************************************************************************)
EXTENDS PtraceEmulation, TLC

CONSTANTS p1, p2, p3

MCFather == (p1 :> NoProc) @@ (p2 :> p1) @@ (p3 :> NoProc)

Op(op, pid) == [op |-> op, pid |-> pid]

\* p1 traces p2, and p3 with it if it asks for it.
FamilyCalls ==
    (p1 :> {Op("wait", AnyPid), Op("wait", p3), Op("poll", p2), Op("cont", p2),
            Op("syscall", p3), Op("options", p2), Op("kill", p3)})
    @@ (p2 :> {Op("traceme", NoProc), Op("fork", NoProc), Op("plain", NoProc)})
    @@ (p3 :> {Op("plain", NoProc)})

\* p1 lets p2 go, which may have forked p3 to it.
LeavingCalls ==
    (p1 :> {Op("wait", AnyPid), Op("options", p2), Op("cont", p2), Op("detach", p2)})
    @@ (p2 :> {Op("traceme", NoProc), Op("fork", NoProc)})
    @@ (p3 :> {})

\* p1 traces p2, which may trace p3, unless p1 attaches to it first.
NestedCalls ==
    (p1 :> {Op("wait", AnyPid), Op("syscall", p2), Op("attach", p3)})
    @@ (p2 :> {Op("traceme", NoProc), Op("fork", NoProc), Op("wait", p3), Op("cont", p3)})
    @@ (p3 :> {Op("traceme", NoProc)})

MCMenus == {FamilyCalls, LeavingCalls, NestedCalls}

OneMenu == {FamilyCalls}

=============================================================================
