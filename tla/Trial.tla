------------------------------- MODULE Trial -------------------------------
(***************************************************************************)
(* One call of a function that keeps no state: the modules on such         *)
(* functions try them on small inputs, and their properties relate what    *)
(* came out to what went in.                                               *)
(***************************************************************************)
VARIABLE trial

NoTrial == [op |-> "none"]

TrialInit == trial = NoTrial

Try(op, in, out) ==
    /\ trial = NoTrial
    /\ trial' = [op |-> op, in |-> in, out |-> out]

=============================================================================
