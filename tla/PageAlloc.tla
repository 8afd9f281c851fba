----------------------------- MODULE PageAlloc -----------------------------
(***************************************************************************)
(* The physical page allocator (src/mm.c): a bitmap of used pages with a   *)
(* counter and a cursor, and one snapshot of all three.  The judge daemon  *)
(* takes the snapshot before a session, allocates until the session ends,  *)
(* whichever way it ends, and restores it: restoring is how pages are      *)
(* freed.  Page numbers stand for page addresses; 0 is also the failure    *)
(* value.                                                                  *)
(***************************************************************************)
EXTENDS Integers, FiniteSets, Sequences, FiniteSetsExt

CONSTANTS
  BlockBits,   \* pages per word of the bitmap (64)
  Layouts,     \* memory layouts: sequences of regions [start, n] in pages
  KernelEnds   \* where the kernel and the two bitmaps may end, in pages

\* Regions come in ascending order and fill whole words of the bitmap, as the
\* one region the platform adds does.
ASSUME BlockBitsAssumption == BlockBits \in Nat \ {0}
ASSUME LayoutsAssumption ==
  \A regions \in Layouts :
    /\ regions # <<>> /\ regions \in Seq([start : Nat, n : Nat])
    /\ \A k \in DOMAIN regions :
         /\ regions[k].start % BlockBits = 0 /\ regions[k].n % BlockBits = 0
         /\ regions[k].n > 0
         /\ k > 1 => regions[k].start >= regions[k-1].start + regions[k-1].n
ASSUME KernelEndsAssumption == KernelEnds \subseteq Nat \ {0}

VARIABLES
  layout,    \* the regions still to be added
  size,      \* pages covered by the bitmap
  bits,      \* the pages whose bit is set
  used,      \* the counter beside the bitmap
  next,      \* the word get_free_page looks at first
  snapshot,  \* the copy mm_take_snapshot made
  phase,     \* "boot", "idle" between sessions, "session" inside one
  reserved,  \* history: the pages in use when boot was over
  live,      \* history: pages handed out in this session
  count,     \* history: how many times a page was handed out in it
  result     \* what the last get_free_page of the session returned

vars == <<layout, size, bits, used, next, snapshot, phase, reserved, live, count, result>>
history == <<reserved, live, count>>

Image == [size |-> size, bits |-> bits, used |-> used, next |-> next]
NBlocks == size \div BlockBits
NoCall == -1
Pages(first, n) == first .. first + n - 1

TypeOK ==
  /\ size \in Nat /\ size % BlockBits = 0
  /\ bits \subseteq Pages(0, size)
  /\ used \in Nat
  /\ next \in Nat /\ (size > 0 => next < NBlocks)
  /\ phase \in {"boot", "idle", "session"}
  /\ reserved \subseteq Pages(0, size) /\ live \subseteq Pages(0, size)
  /\ count \in Nat
  /\ result \in Pages(0, size) \cup {0, NoCall}

\* init_mm
Init ==
  /\ layout \in Layouts
  /\ size = 0 /\ bits = {} /\ used = 0 /\ next = 0
  /\ snapshot = [size |-> 0, bits |-> {}, used |-> 0, next |-> 0]
  /\ phase = "boot"
  /\ reserved = {} /\ live = {} /\ count = 0
  /\ result = NoCall

-----------------------------------------------------------------------------
(* Boot: the regions are added, then the kernel's own pages are taken. *)

BadTakePages(S) ==
  /\ bits' = bits \cup S
  /\ used' = used + Cardinality(S)
\* take_pages counts the bits it sets, not the pages it is asked for.
TakePages(S) ==
  /\ bits' = bits \cup S
  /\ used' = used + Cardinality(S \ bits)

\* add_pages: the bitmap grows to the end of the region, and the hole before
\* the region counts as used.
AddPages ==
  /\ phase = "boot" /\ layout # <<>>
  /\ LET region == Head(layout)
     IN  /\ size' = region.start + region.n
         /\ TakePages(Pages(size, region.start - size))
  /\ layout' = Tail(layout)
  /\ UNCHANGED <<next, snapshot, phase, result, history>>

\* finish_add_pages
FinishAddPages ==
  /\ phase = "boot" /\ layout = <<>>
  /\ \E end \in KernelEnds :
       /\ end <= size
       /\ TakePages(Pages(0, end))
  /\ phase' = "idle"
  /\ reserved' = bits'
  /\ UNCHANGED <<layout, size, next, snapshot, live, count, result>>

-----------------------------------------------------------------------------
(* Sessions. *)

BlockPages(b) == Pages(b * BlockBits, BlockBits)

\* The words in the order get_free_page looks at them.
BlockAt(k) == (next + k) % NBlocks
BadOpenBlocks == {k \in 0 .. NBlocks - 2 : ~ (BlockPages(BlockAt(k)) \subseteq bits)}
OpenBlocks == {k \in 0 .. NBlocks - 1 : ~ (BlockPages(BlockAt(k)) \subseteq bits)}

\* bits_find_zero: the lowest clear bit of a word.
BadFirstFree(b) == Min(BlockPages(b))
FirstFree(b) == Min(BlockPages(b) \ bits)

GetFreePage ==
  /\ phase = "session"
  /\ IF used = size \/ OpenBlocks = {}
     THEN /\ result' = 0
          /\ UNCHANGED <<bits, used, next, live, count>>
     ELSE LET b == BlockAt(Min(OpenBlocks))
              page == FirstFree(b)
          IN  /\ bits' = bits \cup {page}
              /\ next' = b
              /\ used' = used + 1
              /\ result' = page
              /\ live' = live \cup {page}
              /\ count' = count + 1
  /\ UNCHANGED <<layout, size, snapshot, phase, reserved>>

\* mm_take_snapshot
TakeSnapshot ==
  /\ phase = "idle"
  /\ snapshot' = Image
  /\ phase' = "session"
  /\ result' = NoCall
  /\ UNCHANGED <<layout, size, bits, used, next, history>>

BadRestore ==
  /\ bits' = bits /\ size' = snapshot.size
  /\ used' = snapshot.used /\ next' = snapshot.next
Restore ==
  /\ bits' = snapshot.bits /\ size' = snapshot.size
  /\ used' = snapshot.used /\ next' = snapshot.next

\* mm_restore_snapshot, after do_judge has returned, with or without an error.
RestoreSnapshot ==
  /\ phase = "session"
  /\ Restore
  /\ phase' = "idle"
  /\ live' = {} /\ count' = 0
  /\ UNCHANGED <<layout, snapshot, reserved, result>>

Next == AddPages \/ FinishAddPages \/ GetFreePage \/ TakeSnapshot \/ RestoreSnapshot

Spec == Init /\ [][Next]_vars

-----------------------------------------------------------------------------
(* Properties. *)

\* The counter is the number of set bits, through boot, allocation and restore:
\* get_free_page trusts it to say that memory is exhausted.
UsedExact == used = Cardinality(bits)

\* No page is handed out twice in a session, nor is one that the kernel, the
\* bitmaps or a hole occupies.
PagesExclusive == Cardinality(live) = count /\ live \cap reserved = {}

\* Between sessions exactly the pages in use after boot are in use: a session
\* leaks nothing, however it ended.
NothingLeaks == phase = "idle" => bits = reserved

\* get_free_page fails only when no page is free, wherever the cursor stands;
\* page 0, its failure value, is never free.
FailsOnlyWhenFull == phase = "session" /\ result = 0 => bits = Pages(0, size)

\* The invariant behind the first three: a session's pages and the reserved
\* ones make up the bitmap, and the snapshot is the bitmap without the former.
Disjoint ==
  /\ IsFiniteSet(bits) /\ used = Cardinality(bits)
  /\ IsFiniteSet(live) /\ count = Cardinality(live)
  /\ live \cap reserved = {}
SessionOK ==
  /\ phase = "boot" => live = {} /\ reserved = {}
  /\ phase # "boot" => bits = reserved \cup live
  /\ phase = "idle" => live = {}
  /\ phase = "session" => snapshot.bits = reserved /\ snapshot.used = Cardinality(reserved)
IInv == Disjoint /\ SessionOK

\* ... and behind the last: the bitmap ends where the last region does, the
\* regions still to come lie behind it, and the cursor stays inside it, also in
\* the snapshot.
Ordered(regions) ==
  \A k \in DOMAIN regions :
    /\ regions[k].start % BlockBits = 0 /\ regions[k].n % BlockBits = 0
    /\ regions[k].n > 0
    /\ k > 1 => regions[k].start >= regions[k-1].start + regions[k-1].n
SearchOK ==
  /\ TypeOK
  /\ Ordered(layout) /\ (layout # <<>> => layout[1].start >= size)
  /\ phase = "boot" => next = 0
  /\ phase # "boot" => 0 \in reserved
  /\ phase = "session" => snapshot.size = size /\ snapshot.next < NBlocks
  /\ FailsOnlyWhenFull
=============================================================================
