---------------------------- MODULE MCEventLoop ----------------------------
(***************************************************************************)
(* Model checking EventLoop with three generations of processes.           *)
(***************************************************************************)
EXTENDS EventLoopRefinement, TLC

\* Processes that are not roots are interchangeable: none is named.
Symmetry == Permutations(Proc \ Roots)

\* What one child is enough to show is left to OneTree.cfg: deaths, pids used
\* twice, signals, and the late processes that nothing is promised of.
Generations ==
    \A p \in Proc : at[p] # "dead" /\ ev[p] # "signal" /\ birth[p] # "late"

=============================================================================
