-------------------------- MODULE PageAllocProofs --------------------------
(***************************************************************************)
(* Theorems about PageAlloc, for every word size, memory layout and kernel *)
(* size.  The inductive invariant is PageAlloc!IInv.                       *)
(***************************************************************************)
EXTENDS PageAlloc, TLAPS, FiniteSetTheorems, SequenceTheorems

\* The lowest element of a non-empty set of naturals is in the set.
LEMMA MinInSet ==
  ASSUME NEW S \in SUBSET Nat, S # {}
  PROVE  Min(S) \in S
<1>. DEFINE R == {p \in Nat \X Nat : p[1] < p[2]}
<1>1. IsWellFoundedOn(R, Nat)
  BY NatLessThanWellFounded DEF OpToRel
<1>2. PICK m \in S : \A k \in S : ~ (<<k, m>> \in R)
  BY <1>1, WFMin
<1>3. \A k \in S : m =< k
  <2>1. SUFFICES ASSUME NEW k \in S PROVE m =< k
    OBVIOUS
  <2>2. k \in Nat /\ m \in Nat /\ <<k, m>> \notin R
    BY <1>2
  <2> QED
    BY <2>2 DEF R
<1> QED
  BY <1>3 DEF Min

\* take_pages adds a finite set of pages and counts it exactly.
LEMMA TakeCounts ==
  ASSUME NEW S, IsFiniteSet(S), IsFiniteSet(bits), used = Cardinality(bits), TakePages(S)
  PROVE  IsFiniteSet(bits') /\ used' = Cardinality(bits')
<1>1. IsFiniteSet(S \ bits)
  BY FS_Subset
<1>2. bits \cap (S \ bits) = {} /\ bits \cup S = bits \cup (S \ bits)
  OBVIOUS
<1>3. /\ IsFiniteSet(bits \cup (S \ bits))
      /\ Cardinality(bits \cup (S \ bits))
           = Cardinality(bits) + Cardinality(S \ bits) - Cardinality(bits \cap (S \ bits))
  BY <1>1, FS_Union
<1>4. Cardinality(bits \cap (S \ bits)) = 0
  BY <1>2, FS_EmptySet
<1>5. Cardinality(bits) \in Nat /\ Cardinality(S \ bits) \in Nat
  BY <1>1, FS_CardinalityType
<1>6. IsFiniteSet(bits \cup S)
  BY <1>2, <1>3
<1>7. Cardinality(bits \cup S) = Cardinality(bits) + Cardinality(S \ bits)
  <2>1. Cardinality(bits \cup S) = Cardinality(bits) + Cardinality(S \ bits) - 0
    BY <1>2, <1>3, <1>4
  <2> QED
    BY <1>5, <2>1
<1> QED
  BY <1>6, <1>7 DEF TakePages

\* The numbers the search and the regions are computed from are naturals.
NumbersOK ==
  /\ size \in Nat /\ next \in Nat
  /\ layout \in Seq([start : Nat, n : Nat])
  /\ snapshot.size \in Nat /\ snapshot.next \in Nat

LEMMA InitIInv == Init => IInv /\ NumbersOK
  BY FS_EmptySet, LayoutsAssumption DEF Init, IInv, Disjoint, SessionOK, NumbersOK

LEMMA AddPagesIInv ==
  ASSUME IInv, NumbersOK, AddPages
  PROVE  IInv' /\ NumbersOK'
<1>. DEFINE region == Head(layout)
<1>. DEFINE S == Pages(size, region.start - size)
<1>1. region \in [start : Nat, n : Nat] /\ layout' \in Seq([start : Nat, n : Nat])
  <2>1. layout \in Seq([start : Nat, n : Nat]) /\ layout # <<>> /\ layout' = Tail(layout)
    BY DEF AddPages, NumbersOK
  <2>2. Head(layout) \in [start : Nat, n : Nat] /\ Tail(layout) \in Seq([start : Nat, n : Nat])
    BY <2>1, HeadTailProperties
  <2> QED
    BY <2>1, <2>2
<1>2. IsFiniteSet(S)
  <2>1. size \in Int /\ size + (region.start - size) - 1 \in Int
    BY <1>1 DEF NumbersOK
  <2> QED
    BY <2>1, FS_Interval DEF Pages
<1>3. TakePages(S) /\ size' = region.start + region.n
  BY DEF AddPages
<1>4. IsFiniteSet(bits') /\ used' = Cardinality(bits')
  BY <1>2, <1>3, TakeCounts DEF IInv, Disjoint
<1>5. phase = "boot" /\ UNCHANGED <<next, snapshot, phase, result, reserved, live, count>>
  BY DEF AddPages, history
<1> QED
  BY <1>1, <1>3, <1>4, <1>5 DEF IInv, Disjoint, SessionOK, NumbersOK

LEMMA FinishAddPagesIInv ==
  ASSUME IInv, NumbersOK, FinishAddPages
  PROVE  IInv' /\ NumbersOK'
<1>1. PICK end \in KernelEnds : TakePages(Pages(0, end))
  BY DEF FinishAddPages
<1>2. IsFiniteSet(Pages(0, end))
  BY KernelEndsAssumption, FS_Interval DEF Pages
<1>3. IsFiniteSet(bits') /\ used' = Cardinality(bits')
  BY <1>1, <1>2, TakeCounts DEF IInv, Disjoint
<1>4. /\ phase = "boot" /\ phase' = "idle" /\ reserved' = bits'
      /\ UNCHANGED <<layout, size, next, snapshot, live, count, result>>
  BY DEF FinishAddPages
<1> QED
  BY <1>3, <1>4 DEF IInv, Disjoint, SessionOK, NumbersOK

LEMMA GetFreePageIInv ==
  ASSUME IInv, NumbersOK, GetFreePage
  PROVE  IInv' /\ NumbersOK'
<1>1. CASE used = size \/ OpenBlocks = {}
  BY <1>1 DEF GetFreePage, IInv, Disjoint, SessionOK, NumbersOK
<1>2. CASE ~ (used = size \/ OpenBlocks = {})
  <2>. DEFINE k == Min(OpenBlocks)
  <2>. DEFINE b == BlockAt(k)
  <2>. DEFINE page == FirstFree(b)
  <2>1. k \in OpenBlocks
    <3>1. OpenBlocks \in SUBSET Nat
      BY BlockBitsAssumption DEF OpenBlocks, NumbersOK, NBlocks
    <3> QED
      BY <1>2, <3>1, MinInSet
  <2>2. b \in Nat
    <3>1. NBlocks \in Nat
      BY BlockBitsAssumption DEF NBlocks, NumbersOK
    <3>2. k \in 0 .. NBlocks - 1
      BY <2>1 DEF OpenBlocks
    <3> QED
      BY <3>1, <3>2 DEF BlockAt, NumbersOK
  <2>3. page \in BlockPages(b) \ bits
    <3>1. BlockPages(b) \ bits # {}
      BY <2>1 DEF OpenBlocks
    <3>2. b * BlockBits \in Nat
      BY <2>2, BlockBitsAssumption
    <3>3. BlockPages(b) \ bits \in SUBSET Nat
      BY <3>2, BlockBitsAssumption DEF BlockPages, Pages
    <3> QED
      BY <3>1, <3>3, MinInSet DEF FirstFree
  <2>. HIDE DEF page
  <2>4. /\ bits' = bits \cup {page} /\ next' = b /\ used' = used + 1
        /\ live' = live \cup {page} /\ count' = count + 1
        /\ UNCHANGED <<layout, size, snapshot, phase, reserved>> /\ phase = "session"
    BY <1>2 DEF GetFreePage, page
  <2>5. page \notin bits /\ page \notin live /\ page \notin reserved
    BY <2>3, <2>4 DEF IInv, SessionOK
  <2>6. IsFiniteSet(bits') /\ used' = Cardinality(bits')
    BY <2>4, <2>5, FS_AddElement DEF IInv, Disjoint
  <2>7. IsFiniteSet(live') /\ count' = Cardinality(live')
    BY <2>4, <2>5, FS_AddElement DEF IInv, Disjoint
  <2>8. NumbersOK'
    BY <2>2, <2>4 DEF NumbersOK
  <2> QED
    BY <2>4, <2>5, <2>6, <2>7, <2>8 DEF IInv, Disjoint, SessionOK
<1> QED
  BY <1>1, <1>2

LEMMA SnapshotIInv ==
  ASSUME IInv, NumbersOK, TakeSnapshot \/ RestoreSnapshot
  PROVE  IInv' /\ NumbersOK'
<1>1. CASE TakeSnapshot
  <2>1. /\ snapshot'.bits = bits /\ snapshot'.used = used
        /\ snapshot'.size = size /\ snapshot'.next = next
    BY <1>1 DEF TakeSnapshot, Image
  <2> QED
    BY <1>1, <2>1 DEF TakeSnapshot, history, IInv, Disjoint, SessionOK, NumbersOK
<1>2. CASE RestoreSnapshot
  <2>1. IsFiniteSet(reserved)
    BY <1>2, FS_Subset DEF RestoreSnapshot, IInv, Disjoint, SessionOK
  <2> QED
    BY <1>2, <2>1, FS_EmptySet
    DEF RestoreSnapshot, Restore, IInv, Disjoint, SessionOK, NumbersOK
<1> QED
  BY <1>1, <1>2

\* IInv is an invariant of the allocator.
THEOREM Invariance == Spec => [](IInv /\ NumbersOK)
<1>1. IInv /\ NumbersOK /\ [Next]_vars => (IInv /\ NumbersOK)'
  <2>1. CASE UNCHANGED vars
    BY <2>1 DEF vars, IInv, Disjoint, SessionOK, NumbersOK
  <2> QED
    BY <2>1, AddPagesIInv, FinishAddPagesIInv, GetFreePageIInv, SnapshotIInv DEF Next
<1> QED
  BY InitIInv, <1>1, PTL DEF Spec

\* The counter equals the number of set bits.
THEOREM CounterExact == Spec => []UsedExact
<1>1. IInv => UsedExact
  BY DEF IInv, Disjoint, UsedExact
<1> QED
  BY <1>1, Invariance, PTL

\* No page is handed out twice, nor one in use since boot.
THEOREM NoDoubleAllocation == Spec => []PagesExclusive
<1>1. IInv => PagesExclusive
  BY DEF IInv, Disjoint, PagesExclusive
<1> QED
  BY <1>1, Invariance, PTL

\* Restoring the snapshot gives back exactly the pages of the session.
THEOREM SessionsLeakNothing == Spec => []NothingLeaks
<1>1. IInv => NothingLeaks
  BY DEF IInv, SessionOK, NothingLeaks
<1> QED
  BY <1>1, Invariance, PTL

-----------------------------------------------------------------------------
(* get_free_page finds a free page when there is one.                        *)

\* Division with remainder.
LEMMA DivMod ==
  ASSUME NEW a \in Nat, NEW b \in Nat, b > 0
  PROVE  a \div b \in Nat /\ a % b \in Nat /\ a % b < b /\ a = (a \div b) * b + (a % b)
  OBVIOUS

LEMMA DivModUnique ==
  ASSUME NEW q \in Nat, NEW r \in Nat, NEW b \in Nat, b > 0, r < b
  PROVE  (q * b + r) \div b = q /\ (q * b + r) % b = r
  OBVIOUS

\* A run of pages is finite, and has as many pages as it should.
LEMMA IntervalOfPages ==
  ASSUME NEW first \in Nat, NEW n \in Nat
  PROVE  IsFiniteSet(Pages(first, n)) /\ Cardinality(Pages(first, n)) = n
<1>1. first \in Int /\ first + n - 1 \in Int
  OBVIOUS
<1>2. /\ IsFiniteSet(first .. first + n - 1)
      /\ Cardinality(first .. first + n - 1)
           = IF first > first + n - 1 THEN 0 ELSE (first + n - 1) - first + 1
  BY <1>1, FS_Interval
<1> QED
  BY <1>2 DEF Pages

LEMMA PagesWithin ==
  ASSUME NEW first \in Nat, NEW n \in Nat, NEW end \in Nat, first + n <= end
  PROVE  Pages(first, n) \subseteq Pages(0, end)
  BY DEF Pages

\* Sums of whole words are whole words.
LEMMA WholeWords ==
  ASSUME NEW a \in Nat, NEW c \in Nat, a % BlockBits = 0, c % BlockBits = 0
  PROVE  (a + c) % BlockBits = 0
<1>. DEFINE p == a \div BlockBits
<1>. DEFINE q == c \div BlockBits
<1>1. p \in Nat /\ q \in Nat /\ a = p * BlockBits + 0 /\ c = q * BlockBits + 0
  BY BlockBitsAssumption, DivMod
<1>. HIDE DEF p, q
<1>2. a + c = (p + q) * BlockBits + 0 /\ p + q \in Nat
  BY <1>1, BlockBitsAssumption
<1>3. BlockBits \in Nat /\ BlockBits > 0
  BY BlockBitsAssumption
<1>4. ((p + q) * BlockBits + 0) % BlockBits = 0
  BY <1>2, <1>3, DivModUnique
<1> QED
  BY <1>2, <1>4, Zenon

\* The bitmap is made of words: every page lies in one, and no word sticks out.
LEMMA WordsCover ==
  ASSUME size \in Nat, size % BlockBits = 0
  PROVE  /\ NBlocks \in Nat
         /\ \A p \in Pages(0, size) : p \div BlockBits \in 0 .. NBlocks - 1 /\ p \in BlockPages(p \div BlockBits)
         /\ \A b \in 0 .. NBlocks - 1 : BlockPages(b) \subseteq Pages(0, size)
<1>1. NBlocks \in Nat /\ size = NBlocks * BlockBits
  BY BlockBitsAssumption, DivMod DEF NBlocks
<1>. HIDE DEF NBlocks
<1>2. ASSUME NEW p \in Pages(0, size)
      PROVE  p \div BlockBits \in 0 .. NBlocks - 1 /\ p \in BlockPages(p \div BlockBits)
  <2>. DEFINE q == p \div BlockBits
  <2>. DEFINE r == p % BlockBits
  <2>1. p \in Nat /\ p < NBlocks * BlockBits
    BY <1>1, <1>2 DEF Pages
  <2>2. q \in Nat /\ r \in Nat /\ r < BlockBits /\ p = q * BlockBits + r
    BY <2>1, BlockBitsAssumption, DivMod
  <2>. HIDE DEF q, r
  <2>3. q < NBlocks
    BY <1>1, <2>1, <2>2, BlockBitsAssumption
  <2>4. p \in BlockPages(q)
    BY <2>2, BlockBitsAssumption DEF BlockPages, Pages
  <2> QED
    BY <1>1, <2>2, <2>3, <2>4 DEF q
<1>3. ASSUME NEW b \in 0 .. NBlocks - 1, NEW p \in BlockPages(b)
      PROVE  p \in Pages(0, size)
  <2>1. b \in Nat /\ b < NBlocks /\ b * BlockBits \in Nat
    BY <1>1, BlockBitsAssumption
  <2>2. b * BlockBits + BlockBits <= NBlocks * BlockBits
    BY <1>1, <2>1, BlockBitsAssumption
  <2>3. p \in Nat /\ p < b * BlockBits + BlockBits
    BY <1>3, <2>1, BlockBitsAssumption DEF BlockPages, Pages
  <2> QED
    BY <1>1, <2>1, <2>2, <2>3, BlockBitsAssumption DEF Pages
<1> QED
  BY <1>1, <1>2, <1>3

\* Memory that is not empty has a word.
LEMMA WordsOfMemory ==
  ASSUME NEW n \in Nat, n % BlockBits = 0, n > 0
  PROVE  n \div BlockBits \in Nat /\ n \div BlockBits > 0
<1>. DEFINE q == n \div BlockBits
<1>1. BlockBits \in Nat /\ BlockBits > 0
  BY BlockBitsAssumption
<1>2. q \in Nat /\ n = q * BlockBits + (n % BlockBits)
  BY <1>1, DivMod
<1>. HIDE DEF q
<1>3. n = q * BlockBits
  BY <1>1, <1>2
<1>4. q # 0
  BY <1>1, <1>2, <1>3
<1> QED
  BY <1>2, <1>4 DEF q

\* Starting at the cursor, the search goes through every word.
LEMMA SearchIsComplete ==
  ASSUME size \in Nat, size % BlockBits = 0, next \in Nat, next < NBlocks,
         NEW b \in 0 .. NBlocks - 1
  PROVE  \E k \in 0 .. NBlocks - 1 : BlockAt(k) = b
<1>1. NBlocks \in Nat /\ NBlocks > 0 /\ b \in Nat /\ b < NBlocks
  BY WordsCover
<1>. HIDE DEF NBlocks
<1>2. CASE b >= next
  <2>1. b - next \in 0 .. NBlocks - 1 /\ next + (b - next) = 0 * NBlocks + b
    BY <1>1, <1>2
  <2>2. BlockAt(b - next) = b
    BY <1>1, <2>1, DivModUnique DEF BlockAt
  <2> QED
    BY <2>1, <2>2
<1>3. CASE b < next
  <2>1. /\ NBlocks + b - next \in 0 .. NBlocks - 1
        /\ next + (NBlocks + b - next) = 1 * NBlocks + b
    BY <1>1, <1>3
  <2>2. BlockAt(NBlocks + b - next) = b
    BY <1>1, <2>1, DivModUnique DEF BlockAt
  <2> QED
    BY <2>1, <2>2
<1> QED
  BY <1>1, <1>2, <1>3

\* The two reasons get_free_page has to give up mean that memory is full.
LEMMA GivesUpWhenFull ==
  ASSUME IInv, SearchOK, phase = "session", used = size \/ OpenBlocks = {}
  PROVE  bits = Pages(0, size)
<1>1. /\ size \in Nat /\ size % BlockBits = 0 /\ next \in Nat /\ bits \subseteq Pages(0, size)
      /\ IsFiniteSet(bits) /\ used = Cardinality(bits) /\ (size > 0 => next < NBlocks)
  BY DEF IInv, Disjoint, SearchOK, TypeOK
<1>2. CASE used = size
  <2>1. IsFiniteSet(Pages(0, size)) /\ Cardinality(Pages(0, size)) = size
    BY <1>1, IntervalOfPages
  <2> QED
    BY <1>1, <1>2, <2>1, FS_Subset
<1>3. CASE OpenBlocks = {}
  <2>. SUFFICES ASSUME NEW p \in Pages(0, size)
                PROVE  p \in bits
    BY <1>1
  <2>1. p \div BlockBits \in 0 .. NBlocks - 1 /\ p \in BlockPages(p \div BlockBits)
    BY <1>1, WordsCover
  <2>2. next < NBlocks
    BY <1>1 DEF Pages
  <2>3. PICK k \in 0 .. NBlocks - 1 : BlockAt(k) = p \div BlockBits
    BY <1>1, <2>1, <2>2, SearchIsComplete
  <2>4. BlockPages(BlockAt(k)) \subseteq bits
    BY <1>3 DEF OpenBlocks
  <2> QED
    BY <2>1, <2>3, <2>4
<1> QED
  BY <1>2, <1>3

\* The first element of a sequence.
LEMMA FirstOf ==
  ASSUME NEW S, NEW seq \in Seq(S), seq # <<>>
  PROVE  1 \in DOMAIN seq /\ seq[1] \in S /\ seq[1] = Head(seq)
<1>1. Head(seq) \in S
  BY HeadTailProperties
<1> QED
  BY <1>1

LEMMA InitSearch == Init => SearchOK
<1>. SUFFICES ASSUME Init
              PROVE  SearchOK
  OBVIOUS
<1>1. layout \in Seq([start : Nat, n : Nat]) /\ layout # <<>> /\ Ordered(layout)
  BY LayoutsAssumption DEF Init, Ordered
<1>2. layout[1].start >= 0
  <2>1. layout[1] \in [start : Nat, n : Nat]
    BY <1>1, FirstOf
  <2> QED
    BY <2>1
<1>3. 0 % BlockBits = 0
  BY BlockBitsAssumption, DivModUnique
<1> QED
  BY <1>1, <1>2, <1>3 DEF Init, SearchOK, TypeOK, FailsOnlyWhenFull, Pages, NoCall

LEMMA AddPagesSearch ==
  ASSUME NumbersOK, SearchOK, AddPages
  PROVE  SearchOK'
<1>. DEFINE region == layout[1]
<1>1. /\ layout \in Seq([start : Nat, n : Nat]) /\ layout # <<>> /\ layout' = Tail(layout)
      /\ region = Head(layout) /\ region \in [start : Nat, n : Nat]
      /\ region.start \in Nat /\ region.n \in Nat
      /\ region.start % BlockBits = 0 /\ region.n % BlockBits = 0 /\ region.n > 0
      /\ region.start >= size
  <2>1. layout \in Seq([start : Nat, n : Nat]) /\ layout # <<>> /\ layout' = Tail(layout)
    BY DEF AddPages, NumbersOK
  <2>2. region = Head(layout) /\ 1 \in DOMAIN layout
    BY <2>1
  <2>3. region \in [start : Nat, n : Nat]
    BY <2>1, <2>2, HeadTailProperties
  <2>4. region.start \in Nat /\ region.n \in Nat
    BY <2>3
  <2>5. /\ region.start % BlockBits = 0 /\ region.n % BlockBits = 0 /\ region.n > 0
        /\ region.start >= size
    BY <2>1, <2>2 DEF SearchOK, Ordered
  <2> QED
    BY <2>1, <2>2, <2>3, <2>4, <2>5
<1>2. /\ size' = region.start + region.n
      /\ bits' = bits \cup Pages(size, region.start - size)
      /\ used' = used + Cardinality(Pages(size, region.start - size) \ bits)
      /\ phase = "boot" /\ UNCHANGED <<next, snapshot, phase, result, reserved, live, count>>
  BY <1>1 DEF AddPages, TakePages, history
<1>. HIDE DEF region
<1>3. size \in Nat /\ size' \in Nat /\ size' > size /\ size' % BlockBits = 0
  <2>1. size \in Nat
    BY DEF SearchOK, TypeOK
  <2>2. (region.start + region.n) % BlockBits = 0
    BY <1>1, WholeWords
  <2> QED
    BY <1>1, <1>2, <2>1, <2>2, SMTT(30)
<1>4. NBlocks' \in Nat /\ NBlocks' > 0
  BY <1>3, WordsOfMemory DEF NBlocks
<1>5. Pages(0, size) \subseteq Pages(0, size') /\ Pages(size, region.start - size) \subseteq Pages(0, size')
  <2>1. /\ size \in Nat /\ size' \in Nat /\ 0 + size <= size'
        /\ region.start - size \in Nat /\ size + (region.start - size) <= size'
    BY <1>1, <1>2, <1>3, SMTT(30)
  <2> QED
    BY <2>1, PagesWithin
<1>6. used' \in Nat
  <2>1. IsFiniteSet(Pages(size, region.start - size))
    BY <1>1, <1>3, IntervalOfPages
  <2>2. Cardinality(Pages(size, region.start - size) \ bits) \in Nat
    BY <2>1, FS_Subset, FS_CardinalityType
  <2> QED
    BY <1>2, <2>2 DEF SearchOK, TypeOK
<1>7. TypeOK'
  BY <1>2, <1>3, <1>4, <1>5, <1>6 DEF SearchOK, TypeOK, NoCall
<1>8. /\ Ordered(layout)' /\ (layout' # <<>> => layout'[1].start >= size')
  <2>1. /\ layout' \in Seq([start : Nat, n : Nat]) /\ Len(layout') = Len(layout) - 1
        /\ \A k \in 1 .. Len(layout') : layout'[k] = layout[k + 1]
    BY <1>1, HeadTailProperties
  <2>2. ASSUME NEW k \in DOMAIN layout'
        PROVE  /\ layout'[k] = layout[k + 1] /\ k + 1 \in DOMAIN layout
               /\ k > 1 => layout'[k - 1] = layout[k]
               /\ layout[k + 1].start >= layout[k].start + layout[k].n
    <3>1. k \in 1 .. Len(layout) - 1 /\ k + 1 \in DOMAIN layout /\ k + 1 > 1 /\ (k + 1) - 1 = k
      BY <1>1, <2>1, SMTT(30)
    <3>2. layout[k + 1].start >= layout[(k + 1) - 1].start + layout[(k + 1) - 1].n
      BY <3>1 DEF SearchOK, Ordered
    <3>3. k > 1 => k - 1 \in 1 .. Len(layout') /\ (k - 1) + 1 = k
      BY <2>1, <3>1
    <3> QED
      BY <2>1, <3>1, <3>2, <3>3
  <2>3. Ordered(layout)'
    BY <1>1, <2>1, <2>2 DEF SearchOK, Ordered
  <2>4. ASSUME layout' # <<>>
        PROVE  layout'[1].start >= size'
    <3>1. 1 \in DOMAIN layout'
      BY <2>1, <2>4, FirstOf
    <3>2. layout'[1] = layout[2] /\ layout[2].start >= layout[1].start + layout[1].n
      BY <2>2, <3>1
    <3> QED
      BY <1>2, <3>2 DEF region
  <2> QED
    BY <2>3, <2>4
<1> QED
  BY <1>2, <1>7, <1>8 DEF SearchOK, FailsOnlyWhenFull

LEMMA FinishAddPagesSearch ==
  ASSUME SearchOK, FinishAddPages
  PROVE  SearchOK'
<1>1. PICK end \in KernelEnds : end <= size /\ TakePages(Pages(0, end))
  BY DEF FinishAddPages
<1>2. end \in Nat /\ end > 0 /\ size \in Nat
  BY KernelEndsAssumption DEF SearchOK, TypeOK
<1>3. 0 \in Pages(0, end) /\ Pages(0, end) \subseteq Pages(0, size)
  BY <1>1, <1>2 DEF Pages
<1>4. /\ bits' = bits \cup Pages(0, end) /\ reserved' = bits' /\ phase' = "idle"
      /\ UNCHANGED <<layout, size, next, snapshot, live, count, result>>
  BY <1>1 DEF FinishAddPages, TakePages
<1>5. used' \in Nat
  <2>1. Cardinality(Pages(0, end) \ bits) \in Nat
    BY <1>2, IntervalOfPages, FS_Subset, FS_CardinalityType
  <2> QED
    BY <1>1, <2>1 DEF SearchOK, TypeOK, TakePages
<1> QED
  BY <1>3, <1>4, <1>5 DEF SearchOK, TypeOK, Ordered, FailsOnlyWhenFull, NBlocks

LEMMA GetFreePageSearch ==
  ASSUME IInv, NumbersOK, SearchOK, GetFreePage
  PROVE  SearchOK'
<1>1. phase = "session" /\ UNCHANGED <<layout, size, snapshot, phase, reserved>>
  BY DEF GetFreePage
<1>2. CASE used = size \/ OpenBlocks = {}
  <2>1. result' = 0 /\ UNCHANGED <<bits, used, next, live, count>>
    BY <1>2 DEF GetFreePage
  <2>2. bits = Pages(0, size)
    BY <1>1, <1>2, GivesUpWhenFull
  <2> QED
    BY <1>1, <2>1, <2>2 DEF SearchOK, TypeOK, Ordered, FailsOnlyWhenFull, NBlocks
<1>3. CASE ~ (used = size \/ OpenBlocks = {})
  <2>. DEFINE k == Min(OpenBlocks)
  <2>. DEFINE b == BlockAt(k)
  <2>. DEFINE page == FirstFree(b)
  <2>1. size \in Nat /\ size % BlockBits = 0 /\ next \in Nat /\ NBlocks \in Nat
    BY WordsCover DEF SearchOK, TypeOK
  <2>2. k \in OpenBlocks
    <3>1. OpenBlocks \in SUBSET Nat
      BY <2>1 DEF OpenBlocks
    <3> QED
      BY <1>3, <3>1, MinInSet
  <2>3. b \in 0 .. NBlocks - 1 /\ BlockPages(b) \ bits # {}
    <3>1. k \in 0 .. NBlocks - 1 /\ ~ (BlockPages(b) \subseteq bits)
      BY <2>2 DEF OpenBlocks
    <3>. HIDE DEF k
    <3>2. NBlocks > 0 /\ next + k \in Nat
      BY <2>1, <3>1
    <3>3. (next + k) % NBlocks \in 0 .. NBlocks - 1
      BY <2>1, <3>2, DivMod
    <3> QED
      BY <3>1, <3>3 DEF BlockAt
  <2>4. BlockPages(b) \subseteq Pages(0, size)
    BY <2>1, <2>3, WordsCover
  <2>5. page \in BlockPages(b) \ bits
    <3>1. BlockPages(b) \ bits \in SUBSET Nat
      BY <2>4 DEF Pages
    <3> QED
      BY <2>3, <3>1, MinInSet DEF FirstFree
  <2>6. /\ bits' = bits \cup {page} /\ next' = b /\ used' = used + 1
        /\ live' = live \cup {page} /\ count' = count + 1 /\ result' = page
    BY <1>3 DEF GetFreePage
  <2>. HIDE DEF page, b
  <2>7. page \in Pages(0, size) /\ page # 0
    BY <1>1, <2>4, <2>5 DEF SearchOK, IInv, SessionOK
  <2>8. TypeOK'
    BY <1>1, <2>1, <2>3, <2>6, <2>7 DEF SearchOK, TypeOK, NBlocks
  <2> QED
    BY <1>1, <2>6, <2>7, <2>8 DEF SearchOK, Ordered, FailsOnlyWhenFull, NBlocks
<1> QED
  BY <1>2, <1>3

LEMMA SnapshotSearch ==
  ASSUME IInv, NumbersOK, SearchOK, TakeSnapshot \/ RestoreSnapshot
  PROVE  SearchOK'
<1>1. CASE TakeSnapshot
  <2>1. /\ snapshot'.size = size /\ snapshot'.next = next
        /\ UNCHANGED <<layout, size, bits, used, next, reserved, live, count>>
        /\ phase = "idle" /\ phase' = "session" /\ result' = NoCall
    BY <1>1 DEF TakeSnapshot, Image, history
  <2>2. size > 0
    BY <2>1 DEF SearchOK, TypeOK, Pages
  <2> QED
    BY <2>1, <2>2 DEF SearchOK, TypeOK, Ordered, FailsOnlyWhenFull, NBlocks, NoCall
<1>2. CASE RestoreSnapshot
  <2>1. /\ bits' = snapshot.bits /\ size' = snapshot.size /\ used' = snapshot.used
        /\ next' = snapshot.next /\ phase = "session" /\ phase' = "idle"
        /\ live' = {} /\ count' = 0 /\ UNCHANGED <<layout, snapshot, reserved, result>>
    BY <1>2 DEF RestoreSnapshot, Restore
  <2>2. snapshot.bits = reserved /\ snapshot.size = size /\ used' = Cardinality(reserved)
    BY <2>1 DEF IInv, SessionOK, SearchOK
  <2>3. used' \in Nat
    <3>1. reserved \subseteq bits /\ IsFiniteSet(bits)
      BY <2>1 DEF IInv, Disjoint, SessionOK
    <3> QED
      BY <2>2, <3>1, FS_Subset, FS_CardinalityType
  <2>4. next' \in Nat /\ next' < NBlocks'
    BY <2>1, <2>2 DEF NumbersOK, SearchOK, NBlocks
  <2> QED
    BY <2>1, <2>2, <2>3, <2>4 DEF SearchOK, TypeOK, Ordered, FailsOnlyWhenFull, NBlocks
<1> QED
  BY <1>1, <1>2

\* The allocator keeps SearchOK.
THEOREM SearchInvariance == Spec => []SearchOK
<1>1. IInv /\ NumbersOK /\ SearchOK /\ [Next]_vars => SearchOK'
  <2>1. CASE UNCHANGED vars
    BY <2>1 DEF vars, SearchOK, TypeOK, Ordered, FailsOnlyWhenFull, NBlocks
  <2> QED
    BY <2>1, AddPagesSearch, FinishAddPagesSearch, GetFreePageSearch, SnapshotSearch DEF Next
<1> QED
  BY InitSearch, <1>1, Invariance, PTL DEF Spec

\* get_free_page returns 0 only when every page is in use.
THEOREM FailsWhenFull == Spec => []FailsOnlyWhenFull
<1>1. SearchOK => FailsOnlyWhenFull
  BY DEF SearchOK
<1> QED
  BY <1>1, SearchInvariance, PTL

\* Every variable keeps its type; the cursor stays inside the bitmap.
THEOREM TypeCorrect == Spec => []TypeOK
<1>1. SearchOK => TypeOK
  BY DEF SearchOK
<1> QED
  BY <1>1, SearchInvariance, PTL
=============================================================================
