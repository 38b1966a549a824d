--------------------------- MODULE LaunchClaims ---------------------------
(***************************************************************************)
(* What the comments say of attachMe and the model refutes: "return 0:     *)
(* success, not 0: failure" (Nativee.attachMe).                            *)
(***************************************************************************)
EXTENDS Launch

(***************************************************************************)
(* A call made for a process that stays alive does not return when the     *)
(* helper's exit is handled before the call waits on spctx: the signal     *)
(* wakes nobody.                                                           *)
(***************************************************************************)
CallReturns == \A c \in App : InProgress(c) ~> pc[c] = "returned"

(***************************************************************************)
(* A call that returns 0 had its process traced.  It did not when calls    *)
(* overlap, the second pid replacing the first in snew_attach_pid and      *)
(* either call being woken.                                                *)
(***************************************************************************)
ZeroMeansTraced == \A c \in App : pc[c] = "returned" => app[c] # "untraced"

=============================================================================
