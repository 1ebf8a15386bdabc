----------------------------- MODULE AtomicUpdate -----------------------------
(***************************************************************************)
(* What the update service promises of the installed binary: at every      *)
(* moment it is one whole release, and it changes in a single step, either *)
(* to another release or back to the one it had just replaced.             *)
(***************************************************************************)
CONSTANTS
    Releases,
    None            \* nothing is installed, nothing to go back to

VARIABLES
    installed,
    fallback        \* what installed was before the last Install

vars == <<installed, fallback>>

Init ==
    /\ installed \in Releases \cup {None}
    /\ fallback = None

Install(r) ==
    /\ installed' = r
    /\ fallback' = installed

Restore ==
    /\ fallback # None
    /\ installed' = fallback
    /\ fallback' = None

Next == Restore \/ \E r \in Releases : Install(r)

Spec == Init /\ [][Next]_vars
=============================================================================
