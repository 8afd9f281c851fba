----------------------------- MODULE PageLayout -----------------------------
(***************************************************************************)
(* Ranges of words and the pages they lie in (src/vm.c, src/utils.c), as   *)
(* the page tables and the loader share them.                              *)
(***************************************************************************)
EXTENDS Integers, Sequences, TLC, FiniteSetsExt

CONSTANTS
  PageWords,  \* words in a page
  Zero        \* the word that zero_page writes

ASSUME PageWordsAssumption == PageWords \in Nat \ {0}

Offsets == 0 .. PageWords - 1
ZeroPage == [i \in Offsets |-> Zero]

\* memcpy of data into a page at an offset
Overwrite(words, off, data) ==
  [i \in Offsets |-> IF i - off + 1 \in DOMAIN data THEN data[i - off + 1] ELSE words[i]]

Chunk(v, off, data) == [page |-> v, off |-> off, data |-> data]
\* The address of a word of a chunk.
Place(c, j) == c.page * PageWords + c.off + j - 1
\* A chunk lies in its page and holds words of the range, each where it belongs.
HoldsOf(c, va, data) ==
  /\ Len(c.data) # 0 /\ c.off + Len(c.data) <= PageWords
  /\ \A j \in 1 .. Len(c.data) :
       /\ Place(c, j) - va + 1 \in 1 .. Len(data)
       /\ c.data[j] = data[Place(c, j) - va + 1]

\* map_and_copy cuts the range at page boundaries: a first part up to one, whole
\* pages, and what is left.
Floor(a) == a - (a % PageWords)
Ceil(a) == Floor(a + PageWords - 1)
BadChunks(va, data) ==
  LET end == va + Len(data)
      head == IF va = Floor(va) THEN 0 ELSE Min({PageWords - (va - Floor(va)), Len(data)})
      pages == IF Ceil(va) < Floor(end) THEN (Floor(end) - Ceil(va)) \div PageWords ELSE 0
      done == head + pages * PageWords
  IN  (IF head = 0 THEN <<>> ELSE <<Chunk(va \div PageWords, va % PageWords, SubSeq(data, 1, head))>>)
      \o [k \in 1 .. pages |-> Chunk(Ceil(va) \div PageWords + k - 1, 0,
                                     SubSeq(data, (k - 1) * PageWords + 1, k * PageWords))]
      \o (IF done = Len(data) THEN <<>>
          ELSE <<Chunk(end \div PageWords, 0, SubSeq(data, done + 1, Len(data)))>>)
Chunks(va, data) ==
  LET end == va + Len(data)
      head == IF va = Floor(va) THEN 0 ELSE Min({PageWords - (va - Floor(va)), Len(data)})
      pages == IF Ceil(va) < Floor(end) THEN (Floor(end) - Ceil(va)) \div PageWords ELSE 0
      done == head + pages * PageWords
  IN  (IF head = 0 THEN <<>> ELSE <<Chunk(va \div PageWords, va % PageWords, SubSeq(data, 1, head))>>)
      \o [k \in 1 .. pages |-> Chunk(Ceil(va) \div PageWords + k - 1, 0,
                                     SubSeq(data, head + (k - 1) * PageWords + 1, head + k * PageWords))]
      \o (IF done = Len(data) THEN <<>>
          ELSE <<Chunk(end \div PageWords, 0, SubSeq(data, done + 1, Len(data)))>>)
=============================================================================
