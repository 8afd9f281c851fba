---------------------------- MODULE AddressSpace ----------------------------
(***************************************************************************)
(* What the page tables of a judged program promise: a partial map from    *)
(* virtual pages to a set of flags and a page of words.  Pages are         *)
(* independent of each other, the first mapping of a page fixes its        *)
(* permissions, a new page is all zero, and nothing is ever unmapped.      *)
(* Module PageTable implements it with the radix tree of src/vm.c.         *)
(***************************************************************************)
EXTENDS PageLayout

CONSTANTS
  VPages,     \* virtual pages
  Word,       \* what a word may hold
  Piece,      \* what may be written into a page at once: sequences of words
  MapFlags    \* sets of access rights a page may be mapped with

VARIABLE space  \* page -> [flags, words]; unmapped pages are not in the domain

SpaceInit == space = << >>

\* Map the page unless it is mapped, and write into it.
Put(v, flags, off, data) ==
  LET old == IF v \in DOMAIN space THEN space[v] ELSE [flags |-> flags, words |-> ZeroPage]
      new == [flags |-> old.flags, words |-> Overwrite(old.words, off, data)]
  IN  space' = [w \in DOMAIN space \cup {v} |-> IF w = v THEN new ELSE space[w]]

\* An access, or the page fault that precedes it, marks the page.
Mark(v, bits) ==
  /\ v \in DOMAIN space
  /\ space' = [space EXCEPT ![v].flags = @ \cup bits]

SpaceNext ==
  \E v \in VPages :
    \/ \E flags \in MapFlags, off \in Offsets, data \in Piece : Put(v, flags, off, data)
    \/ \E bits \in SUBSET {"A", "D"} : Mark(v, bits)

SpaceSpec == SpaceInit /\ [][SpaceNext]_space
=============================================================================
