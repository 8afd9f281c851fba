---------------------------- MODULE MCPageAlloc ----------------------------
(* Constants for model checking PageAlloc. *)
EXTENDS PageAlloc

Region(start, n) == [start |-> start, n |-> n]

\* One region behind a hole, as on the board; two adjacent ones; two with a
\* hole between them; memory that starts at page 0.
MCLayouts ==
  {<<Region(8, 12)>>, <<Region(4, 4), Region(8, 8)>>,
   <<Region(8, 4), Region(16, 4)>>, <<Region(0, 12)>>}
=============================================================================
