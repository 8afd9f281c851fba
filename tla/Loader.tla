------------------------------- MODULE Loader -------------------------------
(***************************************************************************)
(* How a judged program gets into memory: the ELF loader (src/elf.c) and   *)
(* the areas the judge daemon adds around it before it enters user mode    *)
(* (do_judge in src/judge.c): the first page of the file, the input, the   *)
(* output buffer, the stack with its arguments, and the heap.  Everything  *)
(* is mapped a page at a time into the address space that module PageTable *)
(* implements; any page that is not mapped yet may find memory exhausted.  *)
(* Sizes and addresses are unsigned words and wrap around.                 *)
(***************************************************************************)
EXTENDS PageLayout

CONSTANTS
  Modulus,       \* of size_t and uintptr_t
  UserBottom,    \* USER_BOTTOM
  UserTop,       \* USER_TOP
  HeaderWords,   \* sizeof(Elf64_Ehdr)
  PhdrWords,     \* sizeof(Elf64_Phdr)
  StdoutWords,   \* STDOUT_LIMIT
  StackWords,    \* STACK_SIZE
  HeapBase,      \* HEAP_VA
  HeapWords,     \* HEAP_SIZE
  Args,          \* the words of aux_t and the initial stack
  Stale,         \* what judge_tftp_buff holds beyond the end of the file
  Files,         \* the programs that may be fetched
  Inputs         \* and their inputs

\* What a file, an input or the arguments are made of.
Words == Range(Args) \cup UNION {Range(f.words) : f \in Files} \cup UNION {Range(i) : i \in Inputs}

\* A program header as it lies in the file: any number of the width of size_t.
Size == 0 .. Modulus - 1
Phdr ==
  [load : BOOLEAN, offset : Size, vaddr : Size, filesz : Size, memsz : Size,
   flags : SUBSET {"R", "W", "X"}]

\* A file that was fetched fits the buffer.  Stale is told from all other words.
ASSUME FilesAssumption ==
  /\ \A f \in Files : f.words \in Seq(Words) /\ Len(f.words) \in Size /\ f.phdrs \in Seq(Phdr)
  /\ Inputs \subseteq Seq(Words) /\ Args \in Seq(Words)
  /\ Stale \notin Words \cup {Zero}

UserPages == UserBottom \div PageWords .. UserTop \div PageWords - 1
Aligned(a) == a % PageWords = 0

ASSUME LoaderAssumption ==
  /\ Modulus \in Nat /\ UserTop \in 1 .. Modulus - 1 /\ UserBottom \in 0 .. UserTop
  /\ \A a \in {UserBottom, UserTop, StdoutWords, StackWords, HeapBase, HeapWords} :
       a \in Nat /\ Aligned(a)
  /\ HeaderWords \in Nat /\ PhdrWords \in Nat
  /\ Len(Args) <= PageWords /\ PageWords <= StackWords
  /\ UserBottom <= HeapBase
  \* the areas below USER_TOP stay clear of the heap
  /\ \A input \in Inputs :
       HeapBase + HeapWords <= UserTop - PageWords - Ceil(Len(input)) - StdoutWords - StackWords

VARIABLES
  file,    \* the fetched file: its words and what its headers say
  stdin,   \* the fetched input
  space,   \* the address space
  stage,   \* what is being loaded
  next,    \* the program header load_elf looks at
  todo,    \* the pages still to be mapped for it
  ret      \* what do_judge has to return, "ok" so far

loadVars == <<file, stdin, space, stage, next, todo, ret>>

Memory == INSTANCE AddressSpace WITH VPages <- UserPages, Word <- {}, Piece <- {}, MapFlags <- {}

-----------------------------------------------------------------------------
(* load_elf *)

Add(a, b) == (a + b) % Modulus

\* A range given by offset and size lies below a limit: both comparisons of the
\* code, for the sum may wrap.
BadBelow(a, n, limit) == Add(a, n) <= limit
Below(a, n, limit) == a <= Add(a, n) /\ Add(a, n) <= limit

FileAt(k) == IF k < Len(file.words) THEN file.words[k + 1] ELSE Stale
FilePart(from, n) == [i \in 1 .. n |-> FileAt(from + i - 1)]

\* The checks of the ELF header, in their order.
HeaderError ==
  IF Len(file.words) < HeaderWords THEN "EOOB"
  ELSE IF ~ file.magic \/ ~ file.exec \/ file.phdrs = <<>> THEN "EBADPKT"
  ELSE IF ~ file.phent THEN "ENOIMPL"
  ELSE IF ~ Below(file.phoff, Len(file.phdrs) * PhdrWords, Len(file.words)) THEN "EOOB"
  ELSE "ok"

\* The checks of a loadable segment, in their order.
SegmentError(p) ==
  IF p.filesz # 0 /\ ~ Below(p.offset, p.filesz, Len(file.words)) THEN "EOOB"
  ELSE IF ~ (UserBottom <= p.vaddr /\ Below(p.vaddr, p.memsz, UserTop)) THEN "EOOB"
  ELSE IF p.filesz > p.memsz THEN "EBADPKT"
  ELSE "ok"

SegmentFlags(p) ==
  {"U", "A"} \cup p.flags \cup (IF "W" \in p.flags THEN {"D"} ELSE {})

With(flags, chunks) == [k \in DOMAIN chunks |-> [chunk |-> chunks[k], flags |-> flags]]
BadFresh(from, to) ==
  [k \in 1 .. (to - from) \div PageWords - 1 |-> Chunk(from \div PageWords + k - 1, 0, << >>)]
\* a loop over map_page, from one page boundary to another
Fresh(from, to) ==
  [k \in 1 .. (to - from) \div PageWords |-> Chunk(from \div PageWords + k - 1, 0, << >>)]

BadBss(p) == Fresh(Ceil(p.vaddr + p.filesz), Ceil(p.vaddr + p.memsz))
\* .bss starts in the page where the file part ends.
Bss(p) ==
  IF p.filesz < p.memsz
  THEN Fresh(Floor(p.vaddr + p.filesz), Ceil(p.vaddr + p.memsz))
  ELSE << >>

SegmentPages(p) ==
  With(SegmentFlags(p), Chunks(p.vaddr, FilePart(p.offset, p.filesz)) \o Bss(p))

-----------------------------------------------------------------------------
(* do_judge *)

HeaderVa == UserTop - PageWords
StdinVa == HeaderVa - Ceil(Len(stdin))
StdoutVa == StdinVa - StdoutWords
StackVa == StdoutVa - StackWords

ReadOnly == {"U", "R", "A"}
ReadWrite == {"U", "R", "W"}

Areas == <<"segments", "header", "stdin", "stdout", "stack", "heap", "args", "user">>
Following(area) == Areas[1 + CHOOSE k \in DOMAIN Areas : Areas[k] = area]

AreaPages(area) ==
  CASE area = "header" ->
         With(ReadOnly, Chunks(HeaderVa, FilePart(0, Min({PageWords, Len(file.words)}))))
    [] area = "stdin" -> With(ReadOnly, Chunks(StdinVa, stdin))
    [] area = "stdout" -> With(ReadWrite, Fresh(StdoutVa, StdoutVa + StdoutWords))
    [] area = "stack" -> With(ReadWrite, Fresh(StackVa, StackVa + StackWords))
    [] area = "heap" -> With(ReadWrite, Fresh(HeapBase, HeapBase + HeapWords))
    [] area = "args" -> With(ReadWrite, Chunks(StdoutVa - Len(Args), Args))
    [] area = "user" -> << >>

LoadInit ==
  /\ file \in Files /\ stdin \in Inputs
  /\ Memory!SpaceInit
  /\ stage = "check"
  /\ next = 1
  /\ todo = << >>
  /\ ret = "ok"

Fail(error) ==
  /\ ret' = error
  /\ stage' = "failed"
  /\ todo' = << >>

CheckHeader ==
  /\ stage = "check"
  /\ \/ HeaderError = "ok" /\ stage' = "segments" /\ UNCHANGED <<todo, ret>>
     \/ HeaderError # "ok" /\ Fail(HeaderError)
  /\ UNCHANGED <<file, stdin, space, next>>

LoadSegment ==
  /\ stage = "segments" /\ todo = << >> /\ next \in DOMAIN file.phdrs
  /\ LET p == file.phdrs[next]
     IN  \/ ~ p.load /\ UNCHANGED <<stage, todo, ret>>
         \/ p.load /\ SegmentError(p) # "ok" /\ Fail(SegmentError(p))
         \/ p.load /\ SegmentError(p) = "ok" /\ todo' = SegmentPages(p) /\ UNCHANGED <<stage, ret>>
  /\ next' = next + 1
  /\ UNCHANGED <<file, stdin, space>>

\* map_page, and the copy into the page if there is one
PutPage ==
  /\ todo # << >>
  /\ LET put == Head(todo) IN Memory!Put(put.chunk.page, put.flags, put.chunk.off, put.chunk.data)
  /\ todo' = Tail(todo)
  /\ UNCHANGED <<file, stdin, stage, next, ret>>

NoMemory ==
  /\ todo # << >>
  /\ Head(todo).chunk.page \notin DOMAIN space
  /\ Fail("EOOM")
  /\ UNCHANGED <<file, stdin, space, next>>

NextArea ==
  /\ todo = << >>
  /\ stage \in {"header", "stdin", "stdout", "stack", "heap", "args"} \/
     (stage = "segments" /\ next > Len(file.phdrs))
  /\ stage' = Following(stage)
  /\ todo' = AreaPages(Following(stage))
  /\ UNCHANGED <<file, stdin, space, next, ret>>

\* tftp_get_file does not get the input.
NoStdin ==
  /\ stage = "header" /\ todo = << >>
  /\ Fail("EBADPKT")
  /\ UNCHANGED <<file, stdin, space, next>>

LoadNext == CheckHeader \/ LoadSegment \/ PutPage \/ NoMemory \/ NextArea \/ NoStdin

LoadSpec == LoadInit /\ [][LoadNext]_loadVars

-----------------------------------------------------------------------------
(* Properties. *)

\* Every variable keeps its type.
LoadTypeOK ==
  /\ file \in Files /\ stdin \in Inputs
  /\ \A v \in DOMAIN space : DOMAIN space[v].words = Offsets
  /\ stage \in Range(Areas) \cup {"check", "failed"}
  /\ next \in 1 .. Len(file.phdrs) + 1
  /\ ret \in {"ok", "EOOB", "EBADPKT", "ENOIMPL", "EOOM"}
  /\ ret = "ok" <=> stage # "failed"

\* Whatever the headers say, nothing is mapped outside user memory (sizes that
\* wrap around are refused), and nothing the buffer held before this file gets
\* into the program's memory.
InUserMemory == DOMAIN space \subseteq UserPages
NoStaleWords == \A v \in DOMAIN space : Stale \notin Range(space[v].words)
LoadContained == InUserMemory /\ NoStaleWords

\* The invariant behind it: pages still to be mapped lie in user memory too, and
\* bring nothing that was not in the file, the input or the arguments.
Put == [chunk : [page : UserPages, off : Nat, data : Seq(Words)],
        flags : SUBSET {"R", "W", "X", "U", "A", "D"}]
LoadInv ==
  /\ LoadTypeOK
  /\ InUserMemory
  /\ \A v \in DOMAIN space : space[v].words \in [Offsets -> Words \cup {Zero}]
  /\ todo \in Seq(Put)

ProgramWord(a) == space[a \div PageWords].words[a % PageWords]
Holds(a, word) == a \div PageWords \in DOMAIN space /\ ProgramWord(a) = word
Loaded == {k \in DOMAIN file.phdrs : file.phdrs[k].load}
FilePlace(k) == file.phdrs[k].vaddr .. file.phdrs[k].vaddr + file.phdrs[k].filesz - 1
MemPlace(k) == file.phdrs[k].vaddr .. file.phdrs[k].vaddr + file.phdrs[k].memsz - 1
\* addresses the daemon writes to after the segments
KernelPlace ==
  (HeaderVa .. UserTop - 1) \cup (StdinVa .. StdinVa + Len(stdin) - 1)
    \cup (StdoutVa - Len(Args) .. StdoutVa - 1)

\* When user mode is entered every segment is in place: its part of the file,
\* and zeros behind it, wherever neither another segment nor an area of the
\* daemon's lies on top.
SegmentsInPlace ==
  \A k \in Loaded :
    /\ \A a \in FilePlace(k) \ (KernelPlace \cup UNION {FilePlace(m) : m \in {m \in Loaded : m > k}}) :
         Holds(a, FileAt(file.phdrs[k].offset + a - file.phdrs[k].vaddr))
    /\ \A a \in MemPlace(k) \ (KernelPlace \cup UNION {FilePlace(m) : m \in Loaded}) : Holds(a, Zero)

\* The first page of the file, the input and the arguments are where the program
\* is told they are, even if its segments claim the same memory.
ArgumentsInPlace ==
  /\ \A k \in 0 .. Min({PageWords, Len(file.words)}) - 1 : Holds(HeaderVa + k, file.words[k + 1])
  /\ \A k \in DOMAIN stdin : Holds(StdinVa + k - 1, stdin[k])
  /\ \A k \in DOMAIN Args : Holds(StdoutVa - Len(Args) + k - 1, Args[k])

\* Output buffer, stack and heap are mapped, and writable unless a segment got
\* there first; the page of the arguments is mapped before they are written,
\* which do_judge does not check.
AreasMapped ==
  LET segments == UNION {MemPlace(k) : k \in Loaded}
  IN  /\ stage = "args" => (StdoutVa - 1) \div PageWords \in DOMAIN space
      /\ stage = "user" =>
           \A a \in (StackVa .. StdinVa - 1) \cup (HeapBase .. HeapBase + HeapWords - 1) :
             /\ a \div PageWords \in DOMAIN space
             /\ {b \in segments : b \div PageWords = a \div PageWords} = {}
                  => ReadWrite \subseteq space[a \div PageWords].flags

\* What the program is entered with: its own segments, what it is told about
\* itself, its input and its arguments, and the memory it may use.
ImageInPlace ==
  /\ stage = "user" => SegmentsInPlace /\ ArgumentsInPlace
  /\ AreasMapped
-----------------------------------------------------------------------------
(* The invariant behind ImageInPlace: what is not in place yet is to come. *)

Brings(puts, a) == \E put \in Range(puts) : \E j \in 1 .. Len(put.chunk.data) : Place(put.chunk, j) = a
Maps(puts, v) == \E put \in Range(puts) : put.chunk.page = v
InPlace(va, data) ==
  \A i \in 1 .. Len(data) : Brings(todo, va + i - 1) \/ Holds(va + i - 1, data[i])
Reached(a) == a \div PageWords \in DOMAIN space \/ Maps(todo, a \div PageWords)
MappedFrom(from, to) == \A a \in from .. to - 1 : Reached(a)

\* The range that is being written in a stage.
SegmentData(k) == FilePart(file.phdrs[k].offset, file.phdrs[k].filesz)
HeaderData == FilePart(0, Min({PageWords, Len(file.words)}))
ArgsVa == StdoutVa - Len(Args)
Belonging(c) ==
  \/ c.data = << >>
  \/ stage = "segments" /\ HoldsOf(c, file.phdrs[next - 1].vaddr, SegmentData(next - 1))
  \/ stage = "header" /\ HoldsOf(c, HeaderVa, HeaderData)
  \/ stage = "stdin" /\ HoldsOf(c, StdinVa, stdin)
  \/ stage = "args" /\ HoldsOf(c, ArgsVa, Args)

\* Pages to come are of the segment or area that is being loaded.
ComingOK ==
  \A put \in Range(todo) :
    /\ Belonging(put.chunk)
    /\ stage = "segments" =>
         next - 1 \in Loaded /\ \E a \in MemPlace(next - 1) : a \div PageWords = put.chunk.page
    /\ stage \in {"header", "stdin"} => put.chunk.page * PageWords >= StdinVa
    /\ stage \notin {"segments", "header", "stdin"} => put.flags = ReadWrite

\* Segments that have been looked at are in place under the later ones, all of
\* them is mapped, and nothing else is written to.
Seen == {k \in Loaded : k < next}
FileWord(k, a) == FileAt(file.phdrs[k].offset + a - file.phdrs[k].vaddr)
SegmentsOK ==
  /\ \A k \in Seen :
       /\ \A a \in FilePlace(k) :
            \/ a \in KernelPlace \/ \E m \in Seen : m > k /\ a \in FilePlace(m)
            \/ Brings(todo, a) \/ Holds(a, FileWord(k, a))
       /\ \A a \in MemPlace(k) : Reached(a)
  /\ \A v \in DOMAIN space, i \in Offsets :
       \/ v * PageWords + i \in KernelPlace \/ \E m \in Seen : v * PageWords + i \in FilePlace(m)
       \/ space[v].words[i] = Zero

\* So are the areas that have been, and the pages of the program's data are its own.
AreasOK ==
  /\ stage \in {"header", "stdin", "stdout", "stack", "heap", "args", "user"} => InPlace(HeaderVa, HeaderData)
  /\ stage \in {"stdin", "stdout", "stack", "heap", "args", "user"} => InPlace(StdinVa, stdin)
  /\ stage \in {"args", "user"} => InPlace(ArgsVa, Args)
  /\ stage \in {"stdout", "stack", "heap", "args", "user"} => MappedFrom(StdoutVa, StdinVa)
  /\ stage \in {"stack", "heap", "args", "user"} => MappedFrom(StackVa, StdoutVa)
  /\ stage \in {"heap", "args", "user"} =>
       /\ MappedFrom(HeapBase, HeapBase + HeapWords)
       /\ \A a \in StackVa .. StdoutVa - 1 : a \div PageWords \in DOMAIN space
RightsOK ==
  \A v \in DOMAIN space :
    \/ \E k \in Loaded : \E a \in MemPlace(k) : a \div PageWords = v
    \/ v * PageWords >= StdinVa
    \/ ReadWrite \subseteq space[v].flags

ImageInv ==
  /\ stage \in {"check", "user"} => todo = << >>
  /\ stage \notin {"check", "segments", "failed"} => next > Len(file.phdrs)
  /\ stage # "failed" => ComingOK /\ SegmentsOK /\ AreasOK /\ RightsOK
=============================================================================
