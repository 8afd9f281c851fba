----------------------------- MODULE MCUserMode -----------------------------
(* Sessions one after the other in five units of time.  Addresses only matter up to
   comparison. *)
EXTENDS UserMode

\* Two limits that are granted and one whose sum wraps to zero.
MCLimits == {1, 2, 14}
\* A register that is its own exit code, and one whose lower half is negative.
MCValues == {1, 15}
=============================================================================
