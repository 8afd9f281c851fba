------------------------------ MODULE PageTable ------------------------------
(***************************************************************************)
(* The page tables of a judged program (src/vm.c, the entry format of      *)
(* src/arch/riscv/include/mmu.h) and the part of the trap handler that     *)
(* answers page faults (src/arch/riscv/trap_handler.c).  The tables live   *)
(* in the same untyped pages as the program's data: a page is PageWords     *)
(* words, and a word is whatever it would mean as a table entry.  Each     *)
(* call of vm.c is a walk, one action per level.  The allocator hands out  *)
(* its pages in some fixed order, each once (module PageAlloc).            *)
(***************************************************************************)
EXTENDS PageLayout, FiniteSets

CONSTANTS
  Levels,     \* PGLEVEL
  Page,       \* physical pages
  Order,      \* the order in which the allocator hands them out
  NoPage,     \* NULL
  Targets,    \* the pages that map_page is called with, and that the program uses
  MapFlags,   \* the flags map_page and map_and_copy are called with
  Addresses,  \* the word addresses map_and_copy is called with
  Sources     \* the data it copies

ASSUME ShapeAssumption == Levels \in Nat \ {0} /\ NoPage \notin Page
ASSUME OrderAssumption == Order \in Seq(Page) /\ IsInjective(Order)

Flags == {"R", "W", "X", "U", "A", "D"}
Access == {"fetch", "load", "store"}
Word == [valid : BOOLEAN, page : Page \cup {NoPage}, flags : SUBSET Flags]
ASSUME ZeroAssumption == Zero = [valid |-> FALSE, page |-> NoPage, flags |-> {}]
\* what a page that was used before may hold: it would pass for an entry
Junk == [valid |-> TRUE, page |-> NoPage, flags |-> {"R"}]

\* The pages that an entry at a level stands for, and one at the level above the
\* root for all there are.
Span[l \in 0 .. Levels] == IF l = 0 THEN 1 ELSE PageWords * Span[l - 1]
VPages == 0 .. Span[Levels] - 1
Top == Levels - 1
Level == 0 .. Top

ASSUME InputAssumption ==
  /\ Targets \subseteq VPages
  /\ MapFlags \subseteq SUBSET Flags
  /\ Sources \subseteq Seq(Word)
  /\ \A a \in Addresses, s \in Sources : a \in Nat /\ a + Len(s) <= PageWords * Span[Levels]

VARIABLES
  mem,     \* contents of the physical pages
  free,    \* pages the allocator has left, in the order it hands them out
  root,    \* what create_pt returned
  call,    \* the call of vm.c in progress, with the walk it is at
  status   \* how the last call ended

vars == <<mem, free, root, call, status>>

\* make_pte: an entry that points to a table is marked as used at once.
Entry(level, p, flags) ==
  [valid |-> TRUE, page |-> p,
   flags |-> IF level = 0 THEN flags ELSE {"A", "D"} \cup (flags \cap {"U"})]
\* PTE_TABLE
IsTable(e) == e.valid /\ e.flags \cap {"R", "W", "X"} = {}
\* PT_IDX
PtIdx(level, v) == (v \div Span[level]) % PageWords

\* The table that the entry for v in a table leads to: NoPage where the tree ends.
Under(m, table, level, v) ==
  LET e == IF table = NoPage THEN Zero ELSE m[table][PtIdx(level, v)]
  IN  IF e.valid THEN e.page ELSE NoPage
\* The table at each level on the way to v.
Walk(m, r, v) ==
  LET at[l \in Level] == IF l = Top THEN r ELSE Under(m, at[l + 1], l + 1, v)
  IN  at
TableAt(v) == Walk(mem, root, v)
Leaf(v) == LET t == TableAt(v)[0] IN IF t = NoPage THEN Zero ELSE mem[t][PtIdx(0, v)]
Mapped == {v \in VPages : Leaf(v).valid}

\* The address space that the tables describe.
Space == [v \in Mapped |-> [flags |-> Leaf(v).flags, words |-> mem[Leaf(v).page]]]

-----------------------------------------------------------------------------
(* The calls.  Idle is the kernel outside vm.c. *)

Idle == [op |-> "none"]
NoData == << >>

\* get_free_page, when it succeeds
Take(p) == free # << >> /\ p = Head(free) /\ free' = Tail(free)

Begin(op, todo, flags, va, data) ==
  call' = [op |-> op, todo |-> todo, flags |-> flags, va |-> va, data |-> data,
           level |-> Top, table |-> root]

chunk == Head(call.todo)
index == PtIdx(call.level, chunk.page)
entry == mem[call.table][index]

\* The next page of the call, or its end.
Advance ==
  IF Len(call.todo) = 1
  THEN call' = Idle /\ status' = "ok"
  ELSE /\ call' = [call EXCEPT !.todo = Tail(@), !.level = Top, !.table = root]
       /\ UNCHANGED status

Init ==
  /\ mem = [p \in Page |-> [i \in Offsets |-> Junk]]
  /\ free \in {Order, << >>}
  /\ root = NoPage
  /\ call = Idle
  /\ status = "new"

\* create_pt: kernel_pt is never set, so the table starts empty.
CreatePt ==
  /\ status = "new" /\ status' = "ok"
  /\ \/ /\ free = << >>
        /\ UNCHANGED <<mem, free, root>>
     \/ \E p \in Page :
          /\ Take(p)
          /\ root' = p
          /\ mem' = [mem EXCEPT ![p] = ZeroPage]
  /\ UNCHANGED call

MapPage ==
  /\ call = Idle /\ status \in {"ok", "retry", "killed"}
  /\ \E v \in Targets, flags \in MapFlags :
       Begin("map", <<Chunk(v, 0, NoData)>>, flags, v * PageWords, NoData)
  /\ UNCHANGED <<mem, free, root, status>>

MapAndCopy ==
  /\ call = Idle /\ status = "ok"
  /\ \E va \in Addresses, data \in Sources, flags \in MapFlags :
       IF data = NoData
       THEN call' = Idle /\ status' = "ok"
       ELSE Begin("copy", Chunks(va, data), flags, va, data) /\ UNCHANGED status
  /\ UNCHANGED <<mem, free, root>>

\* get_pt_level, a table that exists
Descend ==
  /\ call # Idle /\ call.table # NoPage /\ call.level > 0
  /\ entry.valid
  /\ call' = [call EXCEPT !.level = @ - 1, !.table = entry.page]
  /\ UNCHANGED <<mem, free, root, status>>

BadGrow ==
  /\ call # Idle /\ call.table # NoPage /\ call.level > 0
  /\ ~ entry.valid
  /\ \E p \in Page :
       /\ Take(p)
       /\ mem' = [mem EXCEPT ![call.table][index] = Entry(call.level, p, {})]
       /\ call' = [call EXCEPT !.level = @ - 1, !.table = p]
  /\ UNCHANGED <<root, status>>
\* get_pt_level, a table that is made on the way
Grow ==
  /\ call # Idle /\ call.table # NoPage /\ call.level > 0
  /\ ~ entry.valid
  /\ \E p \in Page :
       /\ Take(p)
       /\ mem' = [mem EXCEPT ![p] = ZeroPage,
                             ![call.table][index] = Entry(call.level, p, {})]
       /\ call' = [call EXCEPT !.level = @ - 1, !.table = p]
  /\ UNCHANGED <<root, status>>

BadMapLeaf ==
  /\ call # Idle /\ call.table # NoPage /\ call.level = 0 /\ call.op \notin Access
  /\ ~ entry.valid
  /\ \E p \in Page :
       /\ Take(p)
       /\ mem' = [mem EXCEPT ![p] = Overwrite(@, chunk.off, chunk.data),
                             ![call.table][index] = Entry(0, p, call.flags)]
  /\ Advance
  /\ UNCHANGED root
\* map_page of a new page, and the copy into it
MapLeaf ==
  /\ call # Idle /\ call.table # NoPage /\ call.level = 0 /\ call.op \notin Access
  /\ ~ entry.valid
  /\ \E p \in Page :
       /\ Take(p)
       /\ mem' = [mem EXCEPT ![p] = Overwrite(ZeroPage, chunk.off, chunk.data),
                             ![call.table][index] = Entry(0, p, call.flags)]
  /\ Advance
  /\ UNCHANGED root

\* map_page of a page that is mapped: its flags stay, the copy goes into it.
Reuse ==
  /\ call # Idle /\ call.table # NoPage /\ call.level = 0 /\ call.op \notin Access
  /\ entry.valid
  /\ mem' = [mem EXCEPT ![entry.page] = Overwrite(@, chunk.off, chunk.data)]
  /\ Advance
  /\ UNCHANGED <<free, root>>

\* get_free_page returned 0, in create_pt, get_pt_level or map_page.  What was
\* built on the way stays.
OutOfMemory ==
  /\ call # Idle
  /\ \/ call.table = NoPage
     \/ /\ call.table # NoPage /\ free = << >> /\ ~ entry.valid
        /\ call.level = 0 => call.op \notin Access
  /\ call' = Idle
  /\ status' = IF call.op \in Access THEN "killed" ELSE "oom"
  /\ UNCHANGED <<mem, free, root>>

-----------------------------------------------------------------------------
(* User mode: accesses of the program, and the faults the handler answers. *)

\* What the handler asks of the entry, and what it sets in it.
Needs(access) ==
  {"U"} \cup (CASE access = "fetch" -> {"X"} [] access = "load" -> {"R"}
                [] access = "store" -> {"R", "W"})
Marks(access) == IF access = "store" THEN {"A", "D"} ELSE {"A"}
\* The processor's own walk.
Allowed(v, access) == v \in Mapped /\ Needs(access) \subseteq Leaf(v).flags
Translates(v, access) == Allowed(v, access) /\ Marks(access) \subseteq Leaf(v).flags

InUser == call = Idle /\ status \in {"ok", "retry"} /\ root # NoPage

UserStore ==
  /\ InUser
  /\ \E v \in Mapped \cap Targets :
       /\ Translates(v, "store")
       /\ mem' = [mem EXCEPT ![Leaf(v).page][0] = Junk]
  /\ UNCHANGED <<free, root, call, status>>

\* trap_handler, an access the processor refuses
PageFault ==
  /\ InUser
  /\ \E v \in Targets, access \in Access :
       /\ ~ Translates(v, access)
       /\ Begin(access, <<Chunk(v, 0, NoData)>>, Needs(access), v * PageWords, NoData)
  /\ UNCHANGED <<mem, free, root, status>>

BadResolve ==
  /\ call # Idle /\ call.table # NoPage /\ call.level = 0 /\ call.op \in Access
  /\ call' = Idle
  /\ IF entry.valid /\ call.flags \subseteq entry.flags
     THEN /\ mem' = [mem EXCEPT ![call.table][index].flags = @ \cup {"A"}]
          /\ status' = "retry"
     ELSE UNCHANGED mem /\ status' = "killed"
  /\ UNCHANGED <<free, root>>
\* The handler marks the entry and lets the program try again, or ends it.
Resolve ==
  /\ call # Idle /\ call.table # NoPage /\ call.level = 0 /\ call.op \in Access
  /\ call' = Idle
  /\ IF entry.valid /\ call.flags \subseteq entry.flags
     THEN /\ mem' = [mem EXCEPT ![call.table][index].flags = @ \cup Marks(call.op)]
          /\ status' = "retry"
     ELSE UNCHANGED mem /\ status' = "killed"
  /\ UNCHANGED <<free, root>>

Next ==
  \/ CreatePt \/ MapPage \/ MapAndCopy
  \/ Descend \/ Grow \/ MapLeaf \/ Reuse \/ OutOfMemory
  \/ UserStore \/ PageFault \/ Resolve

Spec == Init /\ [][Next]_vars

-----------------------------------------------------------------------------
(* Counting. *)

BadCountEntry(e, level, below, bits) ==
  CASE ~ e.valid -> 0
    [] e.valid /\ IsTable(e) /\ level > 0 -> below[e.page]
    [] OTHER -> IF bits \cap e.flags # {} THEN Span[level] ELSE 0
\* What count_pt adds up for an entry, where below is what it returns for the tables
\* of the level below.
CountEntry(e, level, below, bits) ==
  CASE ~ e.valid -> 0
    [] e.valid /\ IsTable(e) /\ level > 0 -> below[e.page]
    [] OTHER -> IF bits \subseteq e.flags THEN Span[level] ELSE 0
CountPtLevel(table, level, below, bits) ==
  SumFunction([i \in Offsets |-> CountEntry(mem[table][i], level, below, bits)])
\* count_pt: the pages whose entries have all the bits
CountPt(bits) ==
  LET count[level \in Level] ==
        LET below == IF level = 0 THEN << >> ELSE count[level - 1]
        IN  [table \in Page |-> CountPtLevel(table, level, below, bits)]
  IN  IF root = NoPage THEN 0 ELSE count[Top][root]

-----------------------------------------------------------------------------
(* Properties. *)

Calls ==
  [op : {"map", "copy"} \cup Access, todo : Seq([page : VPages, off : Offsets, data : Seq(Word)]),
   flags : SUBSET Flags, va : Nat, data : Seq(Word),
   level : Level, table : Page \cup {NoPage}]

\* Every variable keeps its type, and a walk that has begun has a page to map.
TypeOK ==
  /\ mem \in [Page -> [Offsets -> Word]]
  /\ free \in Seq(Page)
  /\ root \in Page \cup {NoPage}
  /\ call = Idle \/ (call \in Calls /\ call.todo # <<>>)
  /\ status \in {"new", "ok", "oom", "retry", "killed"}

\* The pages used as tables, and as pages of the program.
TablePages == {TableAt(v)[l] : v \in VPages, l \in Level} \ {NoPage}
DataPages == {Leaf(v).page : v \in Mapped}

\* A page is a table at one place only, or the data of one page.
TablesApart ==
  LET table == [v \in VPages |-> TableAt(v)]
  IN  \A v, w \in VPages : \A l, m \in Level :
        (table[v][l] = table[w][m] /\ table[v][l] # NoPage)
          => l = m /\ v \div Span[l + 1] = w \div Span[l + 1]
LeavesApart == IsInjective([v \in Mapped |-> Leaf(v).page])
OneUse == DataPages \subseteq Page \ TablePages
NoneFree == (DataPages \cup TablePages) \cap Range(free) = {}
EntriesPoint == \A t \in TablePages : \A i \in Offsets : mem[t][i].valid => mem[t][i].page \in Page

\* The tables and the mapped pages form a tree: a page is in it at one place
\* only, as a table or as data, none of them is still free, and every valid entry
\* of a table points to a page.  A page that is linked before it is cleared, or
\* handed out twice, breaks this.
TreeShape == TablesApart /\ LeavesApart /\ OneUse /\ NoneFree /\ EntriesPoint

\* count_pt counts the mapped pages that have the bits, each once, whatever the
\* program wrote into its pages: it is the memory usage the daemon reports.
CountExact ==
  \A bits \in {{"U", "A"}, {"U"}} :
    CountPt(bits) = Cardinality({v \in Mapped : bits \subseteq Leaf(v).flags})

WordAt(a) == mem[Leaf(a \div PageWords).page][a % PageWords]

\* When map_and_copy succeeds, the whole range is mapped and holds the data.
CopyExact ==
  [][ \A va \in Addresses, data \in Sources :
        (call.op = "copy" /\ call.va = va /\ call.data = data /\ call' = Idle /\ status' = "ok") =>
          \A i \in DOMAIN data :
            /\ ((va + i - 1) \div PageWords) \in Mapped'
            /\ WordAt(va + i - 1)' = data[i] ]_vars

\* A fault that the handler answers does not happen again, and the program is
\* ended only for an access its mapping forbids, never because memory ran out
\* on the way to a page it has.
FaultVerdict ==
  [][ \A v \in VPages, access \in Access :
        (call.op = access /\ chunk.page = v /\ call' = Idle) =>
          /\ status' = "retry" => Translates(v, access)'
          /\ status' = "killed" => ~ Allowed(v, access) ]_vars

\* The tables implement the address space.
Cuts == UNION {{c.data : c \in Range(Chunks(va, s))} : va \in Addresses, s \in Sources}
Abs == INSTANCE AddressSpace WITH
         space <- Space, Piece <- {NoData, <<Junk>>} \cup Cuts
Implements == Abs!SpaceSpec
-----------------------------------------------------------------------------
(* The invariant behind the properties. *)

\* The walk is at the table of its level, on the way to its page.
WalkInPlace == call # Idle => call.table = TableAt(chunk.page)[call.level]

\* What a fault asks for, and what map_page and map_and_copy were called with.
FaultAsks == call.op \in Access => Len(call.todo) = 1 /\ call.flags = Needs(call.op)
MapAsks ==
  /\ call.op \in {"map", "copy"} =>
       call.flags \in MapFlags /\ \A c \in Range(call.todo) : c.data \in {NoData} \cup Cuts
  /\ Mapped # {} => MapFlags # {}

\* What is still to be copied belongs where it goes to, and the rest is in place.
Copying(va, data, todo) ==
  /\ va \in Addresses /\ data \in Sources
  /\ \A c \in Range(todo) : HoldsOf(c, va, data)
  /\ \A i \in 1 .. Len(data) :
       \/ \E c \in Range(todo) : \E j \in 1 .. Len(c.data) : Place(c, j) = va + i - 1
       \/ /\ ((va + i - 1) \div PageWords) \in Mapped
          /\ WordAt(va + i - 1) = data[i]
CopyInPlace == call.op = "copy" => Copying(call.va, call.data, call.todo)

\* A valid entry above the lowest level leads to a table.
InnerTables ==
  \A v \in VPages : \A l \in 1 .. Top :
    LET t == TableAt(v)[l]
    IN  t # NoPage /\ mem[t][PtIdx(l, v)].valid => IsTable(mem[t][PtIdx(l, v)])

\* Before create_pt there is no table and no call.
StartsEmpty == status = "new" => root = NoPage /\ call = Idle

IInv ==
  /\ TypeOK /\ TreeShape /\ IsInjective(free) /\ StartsEmpty
  /\ WalkInPlace /\ FaultAsks /\ MapAsks /\ CopyInPlace
=============================================================================
