---------------------------- MODULE MemoryProofs ----------------------------
(***************************************************************************)
(* Theorems about the memory of a judged program: the loader (module       *)
(* Loader) and the page tables under it (module PageTable), for every size *)
(* of a page, every width of size_t, every number of levels, every file    *)
(* and every order of calls.                                               *)
(***************************************************************************)
EXTENDS Loader, PageTable, SequenceTheorems, FiniteSetTheorems, WellFoundedInduction, TLAPS

-----------------------------------------------------------------------------
(* Pages.                                                                    *)

\* An address is a page and an offset in it.
LEMMA DivMod ==
  ASSUME NEW a \in Nat
  PROVE  /\ a \div PageWords \in Nat /\ a % PageWords \in Nat /\ a % PageWords < PageWords
         /\ a = (a \div PageWords) * PageWords + (a % PageWords)
  BY PageWordsAssumption, SMT

\* The start of page q.
LEMMA PageStart ==
  ASSUME NEW q \in Nat
  PROVE  /\ q * PageWords \in Nat /\ (q * PageWords) \div PageWords = q
         /\ (q * PageWords) % PageWords = 0
  BY PageWordsAssumption, SMT

\* Pages are in the order of their addresses.
LEMMA PageOrder ==
  ASSUME NEW a \in Int, NEW b \in Int
  PROVE  /\ a * PageWords \in Int
         /\ a <= b => a * PageWords <= b * PageWords
         /\ a * PageWords < b * PageWords => a < b
         /\ a * PageWords <= b * PageWords => a <= b
         /\ (a + 1) * PageWords = a * PageWords + PageWords
         /\ (b - a) * PageWords = b * PageWords - a * PageWords
  BY PageWordsAssumption, SMT

\* The page and the offset of a word of a chunk.
LEMMA PlaceIn ==
  ASSUME NEW q \in Nat, NEW off \in Nat, NEW j \in Nat, j >= 1, off + j <= PageWords,
         NEW a, a = q * PageWords + off + j - 1
  PROVE  a \in Nat /\ a \div PageWords = q /\ a % PageWords = off + j - 1
<1> DEFINE z == q * PageWords
           r == off + j - 1
<1>1. PageWords \in Nat /\ PageWords >= 1 /\ z \in Nat
  BY PageWordsAssumption, PageStart
<1>2. r \in Nat /\ r < PageWords /\ a = z + r
  BY <1>1
<1>3. \A x, y \in Nat, p \in Nat \ {0} :
         y < p => (x * p + y) \div p = x /\ (x * p + y) % p = y /\ x * p + y \in Nat
  BY SMT
<1> HIDE DEF r
<1>4. a \div PageWords = q /\ a % PageWords = r /\ a \in Nat
  BY <1>1, <1>2, <1>3
<1> QED
  BY <1>4 DEF r

\* FLOOR and CEIL of an address: the page it lies in, and the first that starts
\* at it or behind it.
LEMMA FloorCeil ==
  ASSUME NEW a \in Nat
  PROVE  \E f \in Nat, c \in Nat :
           /\ f = a \div PageWords /\ Floor(a) = f * PageWords
           /\ f * PageWords <= a /\ a < f * PageWords + PageWords
           /\ Ceil(a) = c * PageWords /\ a <= c * PageWords
           /\ IF a = Floor(a) THEN c = f ELSE c = f + 1
<1> DEFINE f == a \div PageWords
           r == a % PageWords
           e == a + PageWords - 1
           g == e \div PageWords
           s == e % PageWords
<1>1. PageWords \in Nat /\ PageWords >= 1 /\ e \in Nat
  BY PageWordsAssumption
<1>2. f \in Nat /\ r \in Nat /\ r < PageWords /\ a = f * PageWords + r
  BY DivMod
<1>3. g \in Nat /\ s \in Nat /\ s < PageWords /\ e = g * PageWords + s
  BY <1>1, DivMod
<1>4. Floor(a) = a - r /\ Ceil(a) = e - s
  BY DEF Floor, Ceil
<1> HIDE DEF f, r, g, s, e
<1>5. e = f * PageWords + r + PageWords - 1
  BY <1>2 DEF e
<1>6. f * PageWords \in Int /\ g * PageWords \in Int /\ (f + 1) * PageWords = f * PageWords + PageWords
      /\ (f + 2) * PageWords = f * PageWords + PageWords + PageWords
  <2>1. f \in Int /\ f + 1 \in Int /\ g \in Int /\ (f + 1) + 1 = f + 2
    BY <1>2, <1>3
  <2> QED
    BY <1>1, <2>1, PageOrder
<1>7. IF r = 0 THEN g = f ELSE g = f + 1
  <2>1. CASE r = 0
    <3>1. g * PageWords < (f + 1) * PageWords /\ f * PageWords <= e
      BY <1>1, <1>2, <1>3, <1>5, <1>6, <2>1
    <3>2. f * PageWords < (g + 1) * PageWords
      BY <1>1, <1>2, <1>3, <1>5, <1>6, <2>1, PageOrder
    <3>3. g < f + 1 /\ f < g + 1
      BY <1>2, <1>3, <3>1, <3>2, PageOrder
    <3> QED
      BY <1>2, <1>3, <2>1, <3>3
  <2>2. CASE r # 0
    <3>1. g * PageWords < (f + 2) * PageWords
      BY <1>1, <1>2, <1>3, <1>5, <1>6, <2>2
    <3>2. (f + 1) * PageWords < (g + 1) * PageWords
      BY <1>1, <1>2, <1>3, <1>5, <1>6, <2>2, PageOrder
    <3>3. g < f + 2 /\ f + 1 < g + 1
      BY <1>2, <1>3, <3>1, <3>2, PageOrder
    <3> QED
      BY <1>2, <1>3, <2>2, <3>3
  <2> QED
    BY <2>1, <2>2
<1>8. (a = Floor(a)) <=> r = 0
  BY <1>2, <1>4
<1>9. Floor(a) = f * PageWords /\ Ceil(a) = g * PageWords
  BY <1>1, <1>2, <1>3, <1>4, <1>6
<1>10. f * PageWords <= a /\ a < f * PageWords + PageWords /\ a <= g * PageWords
  BY <1>1, <1>2, <1>6, <1>7
<1>11. f = a \div PageWords
  BY DEF f
<1> QED
  BY <1>2, <1>3, <1>7, <1>8, <1>9, <1>10, <1>11

\* What may be written into the pages from lo up to hi.
Pieces(lo, hi, S) == [page : lo .. hi - 1, off : Nat, data : Seq(S)]

\* A part of a sequence.
LEMMA PartOf ==
  ASSUME NEW S, NEW data \in Seq(S), NEW m \in Int, NEW n \in Int, m >= 1, n <= Len(data)
  PROVE  SubSeq(data, m, n) \in Seq(S)
<1>1. \A i \in m .. n : data[i] \in S
  BY ElementOfSeq, LenProperties
<1> QED
  BY <1>1, SubSeqProperties

\* What may be in a chunk.
ChunkOf(S) == [page : Nat, off : Offsets, data : Seq(S)]

\* How map_and_copy cuts a range: up to a page boundary, whole pages, the rest.
\* Page f is the one the range starts in, c the first whole one, e the last.
CutInto(va, data, f, c, e, head, pages, done) ==
  /\ va % PageWords = va - f * PageWords
  /\ f * PageWords <= va /\ va < f * PageWords + PageWords
  /\ head # 0 => va + head <= f * PageWords + PageWords
  /\ pages # 0 => c * PageWords = va + head
  /\ done = head + pages * PageWords /\ done <= Len(data)
  /\ done # Len(data) => e * PageWords = va + done
  /\ va + Len(data) < e * PageWords + PageWords
  /\ Chunks(va, data) =
       (IF head = 0 THEN << >>
        ELSE <<Chunk(f, va - f * PageWords, SubSeq(data, 1, head))>>)
       \o [j \in 1 .. pages |->
             Chunk(c + j - 1, 0, SubSeq(data, head + (j - 1) * PageWords + 1,
                                        head + j * PageWords))]
       \o (IF done = Len(data) THEN << >>
           ELSE <<Chunk(e, 0, SubSeq(data, done + 1, Len(data)))>>)

\* Every range is cut like that.
LEMMA Cut ==
  ASSUME NEW S, NEW va \in Nat, NEW data \in Seq(S)
  PROVE  \E f, c, e, head, pages, done \in Nat : CutInto(va, data, f, c, e, head, pages, done)
<1> DEFINE end == va + Len(data)
           head == IF va = Floor(va) THEN 0 ELSE Min({PageWords - (va - Floor(va)), Len(data)})
           pages == IF Ceil(va) < Floor(end) THEN (Floor(end) - Ceil(va)) \div PageWords ELSE 0
           done == head + pages * PageWords
<1>2. PageWords \in Nat /\ PageWords >= 1 /\ Len(data) \in Nat /\ end \in Nat
  BY PageWordsAssumption, LenProperties
<1> HIDE DEF end
<1>3. PICK f \in Nat, c \in Nat :
        /\ f = va \div PageWords /\ Floor(va) = f * PageWords
        /\ f * PageWords <= va /\ va < f * PageWords + PageWords
        /\ Ceil(va) = c * PageWords /\ va <= c * PageWords
        /\ IF va = Floor(va) THEN c = f ELSE c = f + 1
  BY FloorCeil
<1>4. PICK e \in Nat :
        /\ e = end \div PageWords /\ Floor(end) = e * PageWords
        /\ e * PageWords <= end /\ end < e * PageWords + PageWords
  BY <1>2, FloorCeil
<1>5. /\ f * PageWords \in Nat /\ c * PageWords \in Nat /\ e * PageWords \in Nat
      /\ (f + 1) * PageWords = f * PageWords + PageWords
      /\ end = va + Len(data) /\ va % PageWords = va - f * PageWords
  <2>1. f * PageWords \in Nat /\ c * PageWords \in Nat /\ e * PageWords \in Nat
    BY PageStart
  <2>2. (f + 1) * PageWords = f * PageWords + PageWords
    BY PageOrder
  <2>3. va % PageWords \in Nat /\ va = f * PageWords + (va % PageWords)
    BY <1>3, DivMod
  <2> QED
    BY <2>1, <2>2, <2>3 DEF end
<1>6. IF va = Floor(va) THEN head = 0
      ELSE /\ head \in Nat /\ c * PageWords = f * PageWords + PageWords
           /\ head = IF c * PageWords - va <= Len(data) THEN c * PageWords - va ELSE Len(data)
  <2> SUFFICES ASSUME va # Floor(va)
               PROVE  /\ head \in Nat /\ c * PageWords = f * PageWords + PageWords
                      /\ head = IF c * PageWords - va <= Len(data) THEN c * PageWords - va ELSE Len(data)
    OBVIOUS
  <2> DEFINE a == PageWords - (va - Floor(va))
  <2>1. c = f + 1 /\ c * PageWords = f * PageWords + PageWords
    BY <1>3, <1>5
  <2>2. a = c * PageWords - va /\ a \in Nat
    BY <1>2, <1>3, <1>5, <2>1
  <2>3. head = Min({a, Len(data)})
    BY <1>3
  <2> HIDE DEF a
  <2>4. Min({a, Len(data)}) = IF a <= Len(data) THEN a ELSE Len(data)
    BY <1>2, <2>2 DEF Min
  <2> QED
    BY <1>2, <2>1, <2>2, <2>3, <2>4
<1>7. IF c < e THEN pages = e - c ELSE pages = 0
  <2>1. Ceil(va) < Floor(end) <=> c < e
    <3>1. c * PageWords < e * PageWords <=> c < e
      <4>1. c * PageWords < e * PageWords => c < e
        BY PageOrder
      <4>2. e * PageWords <= c * PageWords => e <= c
        BY PageOrder
      <4>3. e <= c => e * PageWords <= c * PageWords
        BY PageOrder
      <4> QED
        BY <1>5, <4>1, <4>2, <4>3
    <3> QED
      BY <1>3, <1>4, <3>1
  <2>2. ASSUME c < e
        PROVE  (Floor(end) - Ceil(va)) \div PageWords = e - c
    <3>1. e - c \in Nat
      BY <2>2
    <3>2. (e - c) * PageWords = e * PageWords - c * PageWords
      BY PageOrder
    <3>3. ((e - c) * PageWords) \div PageWords = e - c
      BY <3>1, PageStart
    <3> QED
      BY <1>3, <1>4, <3>2, <3>3
  <2> QED
    BY <2>1, <2>2
<1>8. /\ Chunks(va, data) =
           (IF head = 0 THEN << >>
            ELSE <<Chunk(f, va - f * PageWords, SubSeq(data, 1, head))>>)
           \o [j \in 1 .. pages |->
                 Chunk(c + j - 1, 0, SubSeq(data, head + (j - 1) * PageWords + 1,
                                            head + j * PageWords))]
           \o (IF done = Len(data) THEN << >>
               ELSE <<Chunk(e, 0, SubSeq(data, done + 1, Len(data)))>>)
  <2>1. Ceil(va) \div PageWords = c
    BY <1>3, PageStart
  <2>2. /\ Chunks(va, data) =
           (IF head = 0 THEN << >>
            ELSE <<Chunk(va \div PageWords, va % PageWords, SubSeq(data, 1, head))>>)
           \o [j \in 1 .. pages |->
                 Chunk(Ceil(va) \div PageWords + j - 1, 0, SubSeq(data, head + (j - 1) * PageWords + 1,
                                            head + j * PageWords))]
           \o (IF done = Len(data) THEN << >>
               ELSE <<Chunk(end \div PageWords, 0, SubSeq(data, done + 1, Len(data)))>>)
    BY DEF Chunks, end
  <2> HIDE DEF head, pages, done
  <2> QED
    BY <1>3, <1>4, <1>5, <2>1, <2>2
<1> HIDE DEF pages
<1>9. pages \in Nat /\ pages * PageWords = IF c < e THEN e * PageWords - c * PageWords ELSE 0
  <2>1. (e - c) * PageWords = e * PageWords - c * PageWords
    BY PageOrder
  <2>2. 0 * PageWords = 0
    BY <1>2
  <2> QED
    BY <1>7, <2>1, <2>2
<1>10. c < e => head = c * PageWords - va
  <2>1. c < e => c * PageWords <= e * PageWords
    BY PageOrder
  <2> QED
    BY <1>2, <1>3, <1>4, <1>5, <1>6, <2>1
<1>11. head \in Nat /\ head <= Len(data)
  BY <1>2, <1>3, <1>5, <1>6
<1>12. head # 0 => va + head <= f * PageWords + PageWords
  BY <1>2, <1>3, <1>5, <1>6
<1> HIDE DEF head
<1>13. pages # 0 => c * PageWords = va + head
  <2> SUFFICES ASSUME pages # 0 PROVE c * PageWords = va + head
    OBVIOUS
  <2>1. c < e
    BY <1>7
  <2>2. head = c * PageWords - va
    BY <1>10, <2>1
  <2> QED
    BY <1>5, <2>2
<1>14. done \in Nat /\ done <= Len(data) /\ (done # Len(data) => e * PageWords = va + done)
  <2>1. CASE c < e
    <3>1. pages * PageWords = e * PageWords - c * PageWords /\ head = c * PageWords - va
      BY <1>9, <1>10, <2>1
    <3>2. done = e * PageWords - va
      BY <1>5, <3>1
    <3> HIDE DEF done
    <3>3. done \in Nat
      <4>1. pages * PageWords \in Nat
        BY <1>9, PageStart
      <4> QED
        BY <1>11, <4>1 DEF done
    <3> QED
      BY <1>2, <1>4, <1>5, <3>2, <3>3
  <2>2. CASE ~ c < e
    <3>1. done = head /\ e <= c /\ e * PageWords <= c * PageWords
      <4>1. e <= c
        BY <2>2
      <4>2. e * PageWords <= c * PageWords
        BY <4>1, PageOrder
      <4> QED
        BY <1>9, <1>11, <2>2, <4>1, <4>2
    <3>2. CASE va = Floor(va)
      <4>1. f * PageWords <= end /\ head = 0 /\ c = f
        BY <1>2, <1>3, <1>5, <1>6, <3>2
      <4>2. f * PageWords < (e + 1) * PageWords
        <5>1. (e + 1) * PageWords = e * PageWords + PageWords
          BY PageOrder
        <5> QED
          BY <1>2, <1>4, <1>5, <4>1, <5>1
      <4>3. f < e + 1
        BY <4>2, PageOrder
      <4>4. e = f
        BY <3>1, <4>1, <4>3
      <4> QED
        BY <1>2, <1>3, <1>5, <3>1, <3>2, <4>1, <4>4
    <3>3. CASE va # Floor(va)
      <4> SUFFICES ASSUME head # Len(data) PROVE e * PageWords = va + head
        BY <1>11, <3>1
      <4>1. head = c * PageWords - va /\ c * PageWords <= end
        BY <1>2, <1>3, <1>5, <1>6, <1>11, <3>3
      <4>2. c * PageWords < (e + 1) * PageWords
        <5>1. (e + 1) * PageWords = e * PageWords + PageWords
          BY PageOrder
        <5> QED
          BY <1>2, <1>4, <1>5, <4>1, <5>1
      <4>3. c < e + 1
        BY <4>2, PageOrder
      <4>4. e = c
        BY <3>1, <4>3
      <4> QED
        BY <1>5, <4>1, <4>4
    <3> QED
      BY <3>2, <3>3
  <2> QED
    BY <2>1, <2>2
<1>15. va + Len(data) < e * PageWords + PageWords
  BY <1>4, <1>5
<1> HIDE DEF done
<1>16. done = head + pages * PageWords
  BY DEF done
<1>17. CutInto(va, data, f, c, e, head, pages, done)
  BY <1>3, <1>5, <1>8, <1>12, <1>13, <1>14, <1>15, <1>16 DEF CutInto
<1> QED
  BY <1>9, <1>11, <1>14, <1>17

\* A part of a range as a chunk.
Covers(c, va, m, n) ==
  \A i \in m + 1 .. n : \E j \in 1 .. Len(c.data) : Place(c, j) = va + i - 1
IsPart(c, q, off, va, data, m, n) ==
  /\ c = Chunk(q, off, SubSeq(data, m + 1, n)) /\ m < n /\ n <= Len(data)
  /\ q * PageWords + off = va + m /\ off + n - m <= PageWords

\* A part that fits its page is a chunk of the range, and covers that part of it.
LEMMA ChunkHolds ==
  ASSUME NEW S, NEW va \in Nat, NEW data \in Seq(S), NEW q \in Nat, NEW off \in Offsets,
         NEW m \in Nat, NEW n \in Nat, NEW c, IsPart(c, q, off, va, data, m, n)
  PROVE  c \in ChunkOf(S) /\ HoldsOf(c, va, data) /\ Covers(c, va, m, n)
<1> DEFINE part == SubSeq(data, m + 1, n)
<1>0. PICK z \in Nat : z = q * PageWords
  BY PageStart
<1>1. /\ Len(data) \in Nat /\ off \in Nat /\ PageWords \in Nat
      /\ c = Chunk(q, off, part) /\ m < n /\ n <= Len(data)
      /\ z + off = va + m /\ off + n - m <= PageWords
  BY <1>0, LenProperties, PageWordsAssumption DEF Offsets, IsPart
<1>2. \A i \in m + 1 .. n : data[i] \in S
  BY <1>1, ElementOfSeq
<1>3. part \in Seq(S) /\ Len(part) = n - m /\ \A j \in 1 .. n - m : part[j] = data[m + j]
  <2>1. m + 1 \in Int /\ n \in Int
    OBVIOUS
  <2>2. /\ part \in Seq(S) /\ Len(part) = IF m + 1 <= n THEN n - (m + 1) + 1 ELSE 0
        /\ \A j \in 1 .. n - (m + 1) + 1 : part[j] = data[(m + 1) + j - 1]
    BY <1>2, <2>1, SubSeqProperties, SMTT(30)
  <2>3. \A j \in 1 .. n - m : (m + 1) + j - 1 = m + j
    OBVIOUS
  <2> HIDE DEF part
  <2> QED
    BY <1>1, <2>2, <2>3
<1> HIDE DEF part
<1>4. c.page = q /\ c.off = off /\ c.data = part /\ c \in ChunkOf(S)
  BY <1>1, <1>3 DEF Chunk, ChunkOf
<1>5. ASSUME NEW j \in 1 .. n - m PROVE Place(c, j) = va + m + j - 1
  <2>1. Place(c, j) = z + off + j - 1
    BY <1>0, <1>4 DEF Place
  <2> QED
    BY <1>1, <2>1
<1>6. ASSUME NEW j \in 1 .. n - m PROVE Place(c, j) - va + 1 = m + j
  BY <1>5
<1>7. HoldsOf(c, va, data)
  <2>1. \A j \in 1 .. n - m : m + j \in 1 .. Len(data)
    BY <1>1
  <2>2. Len(c.data) = n - m /\ n - m # 0 /\ c.off + (n - m) <= PageWords
    BY <1>1, <1>3, <1>4
  <2> QED
    BY <1>3, <1>4, <1>6, <2>1, <2>2 DEF HoldsOf
<1>8. ASSUME NEW i \in m + 1 .. n PROVE \E j \in 1 .. Len(c.data) : Place(c, j) = va + i - 1
  <2>1. i - m \in 1 .. n - m /\ va + m + (i - m) - 1 = va + i - 1
    OBVIOUS
  <2> QED
    BY <1>3, <1>4, <1>5, <2>1
<1> QED
  BY <1>4, <1>7, <1>8 DEF Covers

\* map_and_copy copies the range, all of it and each word to its place.
LEMMA ChunksExact ==
  ASSUME NEW S, NEW va \in Nat, NEW data \in Seq(S)
  PROVE  /\ Chunks(va, data) \in Seq(ChunkOf(S))
         /\ \A c \in Range(Chunks(va, data)) : HoldsOf(c, va, data)
         /\ \A i \in 1 .. Len(data) : \E c \in Range(Chunks(va, data)) :
              \E j \in 1 .. Len(c.data) : Place(c, j) = va + i - 1
<1>1. PageWords \in Nat /\ PageWords >= 1 /\ Len(data) \in Nat
  BY PageWordsAssumption, LenProperties
<1>2. PICK f, c, e, head, pages, done \in Nat : CutInto(va, data, f, c, e, head, pages, done)
  BY Cut
<1> DEFINE first == IF head = 0 THEN << >>
                    ELSE <<Chunk(f, va - f * PageWords, SubSeq(data, 1, head))>>
           piece(j) == Chunk(c + j - 1, 0, SubSeq(data, head + (j - 1) * PageWords + 1,
                                                  head + j * PageWords))
           whole == [j \in 1 .. pages |-> piece(j)]
           rest == IF done = Len(data) THEN << >>
                   ELSE <<Chunk(e, 0, SubSeq(data, done + 1, Len(data)))>>
           Good(x) == x \in ChunkOf(S) /\ HoldsOf(x, va, data)
           Has(s, i) == \E x \in Range(s) : \E j \in 1 .. Len(x.data) : Place(x, j) = va + i - 1
<1>3. Chunks(va, data) = (first \o whole) \o rest
  BY <1>2 DEF CutInto
<1>4. /\ f * PageWords \in Nat /\ c * PageWords \in Nat /\ e * PageWords \in Nat
      /\ pages * PageWords \in Nat
      /\ done = head + pages * PageWords /\ done <= Len(data)
      /\ f * PageWords <= va /\ va < f * PageWords + PageWords
      /\ head # 0 => va + head <= f * PageWords + PageWords
      /\ done # Len(data) => e * PageWords = va + done
      /\ va + Len(data) < e * PageWords + PageWords
  BY <1>2, PageStart DEF CutInto
<1>5. /\ first \in Seq(ChunkOf(S)) /\ \A x \in Range(first) : HoldsOf(x, va, data)
      /\ \A i \in 1 .. head : Has(first, i)
  <2>1. CASE head = 0
    <3>1. first = << >>
      BY <2>1
    <3>2. first \in Seq(ChunkOf(S)) /\ Range(first) = {}
      BY <3>1, EmptySeq DEF Range
    <3> HIDE DEF first
    <3> QED
      BY <2>1, <3>2
  <2>2. CASE head # 0
    <3> DEFINE x == Chunk(f, va - f * PageWords, SubSeq(data, 1, head))
    <3>1. va - f * PageWords \in Offsets
      BY <1>1, <1>4 DEF Offsets
    <3>2. /\ f * PageWords + (va - f * PageWords) = va + 0 /\ head <= Len(data)
          /\ (va - f * PageWords) + head - 0 <= PageWords /\ 0 + 1 = 1
      BY <1>1, <1>4, <2>2
    <3>3. /\ x \in ChunkOf(S) /\ HoldsOf(x, va, data)
          /\ \A i \in 1 .. head : \E j \in 1 .. Len(x.data) : Place(x, j) = va + i - 1
      <4> DEFINE y == Chunk(f, va - f * PageWords, SubSeq(data, 0 + 1, head))
      <4>1. /\ y \in ChunkOf(S) /\ HoldsOf(y, va, data)
            /\ \A i \in 0 + 1 .. head : \E j \in 1 .. Len(y.data) : Place(y, j) = va + i - 1
        <5> DEFINE off == va - f * PageWords
        <5>1. 0 \in Nat /\ 0 < head /\ head <= Len(data) /\ off \in Offsets
              /\ f * PageWords + off = va + 0 /\ off + head - 0 <= PageWords
          BY <2>2, <3>1, <3>2
        <5>2. y = Chunk(f, off, SubSeq(data, 0 + 1, head))
          OBVIOUS
        <5>3. IsPart(y, f, off, va, data, 0, head)
          BY <5>1, <5>2 DEF IsPart
        <5> HIDE DEF off, y
        <5>4. y \in ChunkOf(S) /\ HoldsOf(y, va, data) /\ Covers(y, va, 0, head)
          BY <5>1, <5>3, ChunkHolds
        <5> QED
          BY <5>4 DEF Covers
      <4> QED
        BY <3>2, <4>1
    <3> HIDE DEF x
    <3>4. first = <<x>>
      BY <2>2 DEF x
    <3>5. first \in Seq(ChunkOf(S)) /\ Range(first) = {x}
      BY <3>3, <3>4 DEF Range
    <3> HIDE DEF first
    <3> QED
      BY <3>3, <3>5
  <2> QED
    BY <2>1, <2>2
<1>6. ASSUME NEW k \in 1 .. pages
      PROVE  /\ Good(piece(k)) /\ (k - 1) * PageWords \in Nat
             /\ \A i \in head + (k - 1) * PageWords + 1 .. head + (k - 1) * PageWords + PageWords :
                  \E j \in 1 .. Len(piece(k).data) : Place(piece(k), j) = va + i - 1
  <2>1. (k - 1) * PageWords \in Nat /\ k * PageWords = (k - 1) * PageWords + PageWords
    <3>1. k - 1 \in Nat /\ k - 1 \in Int /\ (k - 1) + 1 = k
      OBVIOUS
    <3> QED
      BY <3>1, PageStart, PageOrder
  <2>2. k * PageWords <= pages * PageWords
    BY PageOrder
  <2>3. (c + k - 1) * PageWords = c * PageWords + (k - 1) * PageWords
    <3>1. (k - 1) * PageWords = (c + k - 1) * PageWords - c * PageWords
      <4>1. c + k - 1 \in Int /\ c \in Int /\ (c + k - 1) - c = k - 1
        OBVIOUS
      <4>2. ((c + k - 1) - c) * PageWords = (c + k - 1) * PageWords - c * PageWords
        BY <4>1, PageOrder
      <4> QED
        BY <4>1, <4>2
    <3>2. (c + k - 1) * PageWords \in Nat
      BY PageStart
    <3> QED
      <4>1. PICK x \in Nat, y \in Nat, z \in Nat :
               x = (k - 1) * PageWords /\ y = (c + k - 1) * PageWords /\ z = c * PageWords
        BY <1>4, <2>1, <3>2
      <4>2. x = y - z
        BY <3>1, <4>1
      <4>3. y = z + x
        BY <4>2
      <4> QED
        BY <4>1, <4>3
  <2>4. c * PageWords = va + head
    BY <1>2 DEF CutInto
  <2> DEFINE m == head + (k - 1) * PageWords
             n == head + k * PageWords
  <2>5. /\ m \in Nat /\ n \in Nat /\ m < n /\ n <= Len(data) /\ n = m + PageWords
        /\ c + k - 1 \in Nat /\ 0 \in Offsets /\ m + 1 = head + (k - 1) * PageWords + 1
    BY <1>1, <1>4, <2>1, <2>2 DEF Offsets
  <2>6. (c + k - 1) * PageWords + 0 = va + m /\ 0 + n - m <= PageWords
    BY <1>1, <1>4, <2>1, <2>3, <2>4, <2>5
  <2> HIDE DEF m, n
  <2> DEFINE x == Chunk(c + k - 1, 0, SubSeq(data, m + 1, n))
  <2>7. /\ x \in ChunkOf(S) /\ HoldsOf(x, va, data)
        /\ \A i \in m + 1 .. n : \E j \in 1 .. Len(x.data) : Place(x, j) = va + i - 1
    <3> DEFINE q == c + k - 1
    <3>1. /\ q \in Nat /\ m \in Nat /\ n \in Nat /\ m < n /\ n <= Len(data) /\ 0 \in Offsets
          /\ q * PageWords + 0 = va + m /\ 0 + n - m <= PageWords
      BY <2>5, <2>6
    <3>2. x = Chunk(q, 0, SubSeq(data, m + 1, n))
      OBVIOUS
    <3>3. IsPart(x, q, 0, va, data, m, n)
      BY <3>1, <3>2 DEF IsPart
    <3> HIDE DEF q, x
    <3>4. x \in ChunkOf(S) /\ HoldsOf(x, va, data) /\ Covers(x, va, m, n)
      BY <3>1, <3>3, ChunkHolds
    <3> QED
      BY <3>4 DEF Covers
  <2>8. x = piece(k)
    BY DEF m, n
  <2>9. m + 1 = head + (k - 1) * PageWords + 1 /\ n = head + (k - 1) * PageWords + PageWords
    BY <2>5 DEF m
  <2> HIDE DEF x, piece
  <2> QED
    BY <2>1, <2>7, <2>8, <2>9
<1> HIDE DEF piece
<1>7. /\ whole \in Seq(ChunkOf(S)) /\ \A x \in Range(whole) : HoldsOf(x, va, data)
      /\ \A i \in head + 1 .. done : Has(whole, i)
  <2>1. whole \in [1 .. pages -> ChunkOf(S)]
    BY <1>6
  <2>2. Range(whole) = {piece(k) : k \in 1 .. pages}
    BY DEF Range
  <2>3. ASSUME NEW i \in head + 1 .. done
        PROVE  \E k \in 1 .. pages : i \in head + (k - 1) * PageWords + 1 .. head + (k - 1) * PageWords + PageWords
    <3> DEFINE a == i - head - 1
               k == a \div PageWords
               r == a % PageWords
    <3>1. a \in Nat /\ a < pages * PageWords
      <4>1. PICK w \in Nat : w = pages * PageWords /\ done = head + w
        BY <1>4
      <4>2. a \in Nat /\ a < w
        BY <4>1
      <4> QED
        BY <4>1, <4>2
    <3>2. k \in Nat /\ r \in Nat /\ r < PageWords /\ a = k * PageWords + r
      BY <3>1, DivMod
    <3>3. k * PageWords \in Nat
      BY <3>2, PageStart
    <3> HIDE DEF k, r
    <3>4. k * PageWords < pages * PageWords
      <4>1. \A x, y, z, w \in Nat : w < x /\ w = y + z => y < x
        OBVIOUS
      <4> QED
        BY <1>4, <3>1, <3>2, <3>3, <4>1
    <3>5. k < pages
      BY <3>2, <3>4, PageOrder
    <3>6. k + 1 \in 1 .. pages /\ (k + 1) - 1 = k
      BY <3>2, <3>5
    <3>7. i \in head + k * PageWords + 1 .. head + k * PageWords + PageWords
      BY <1>1, <3>2, <3>3
    <3> QED
      BY <3>6, <3>7
  <2>4. ASSUME NEW i \in head + 1 .. done PROVE Has(whole, i)
    <3>1. PICK k \in 1 .. pages :
             i \in head + (k - 1) * PageWords + 1 .. head + (k - 1) * PageWords + PageWords
      BY <2>3
    <3>2. \E j \in 1 .. Len(piece(k).data) : Place(piece(k), j) = va + i - 1
      BY <1>6, <3>1
    <3>3. piece(k) \in Range(whole)
      BY <2>2
    <3> HIDE DEF whole
    <3> QED
      BY <3>2, <3>3
  <2>5. \A x \in Range(whole) : HoldsOf(x, va, data)
    BY <1>6, <2>2
  <2> HIDE DEF whole
  <2> QED
    BY <2>1, <2>4, <2>5
<1>8. /\ rest \in Seq(ChunkOf(S)) /\ \A x \in Range(rest) : HoldsOf(x, va, data)
      /\ \A i \in done + 1 .. Len(data) : Has(rest, i)
  <2>1. CASE done = Len(data)
    <3>1. rest = << >>
      BY <2>1
    <3>2. rest \in Seq(ChunkOf(S)) /\ Range(rest) = {}
      BY <3>1, EmptySeq DEF Range
    <3> HIDE DEF rest
    <3> QED
      BY <1>1, <2>1, <3>2
  <2>2. CASE done # Len(data)
    <3> DEFINE x == Chunk(e, 0, SubSeq(data, done + 1, Len(data)))
    <3>1. 0 \in Offsets
      BY <1>1 DEF Offsets
    <3>2. e * PageWords + 0 = va + done /\ 0 + Len(data) - done <= PageWords /\ done < Len(data)
      BY <1>1, <1>4, <2>2
    <3>3. /\ x \in ChunkOf(S) /\ HoldsOf(x, va, data)
          /\ \A i \in done + 1 .. Len(data) : \E j \in 1 .. Len(x.data) : Place(x, j) = va + i - 1
      <4>1. /\ Len(data) \in Nat /\ done < Len(data) /\ Len(data) <= Len(data) /\ 0 \in Offsets
            /\ e * PageWords + 0 = va + done /\ 0 + Len(data) - done <= PageWords
        BY <1>1, <3>1, <3>2
      <4>2. x = Chunk(e, 0, SubSeq(data, done + 1, Len(data)))
        OBVIOUS
      <4>3. IsPart(x, e, 0, va, data, done, Len(data))
        BY <4>1, <4>2 DEF IsPart
      <4> HIDE DEF x
      <4>4. x \in ChunkOf(S) /\ HoldsOf(x, va, data) /\ Covers(x, va, done, Len(data))
        BY <4>1, <4>3, ChunkHolds
      <4> QED
        BY <4>4 DEF Covers
    <3> HIDE DEF x
    <3>4. rest = <<x>>
      BY <2>2 DEF x
    <3>5. rest \in Seq(ChunkOf(S)) /\ Range(rest) = {x}
      BY <3>3, <3>4 DEF Range
    <3> HIDE DEF rest
    <3> QED
      BY <3>3, <3>5
  <2> QED
    BY <2>1, <2>2
<1> HIDE DEF first, whole, rest
<1>9. /\ first \o whole \in Seq(ChunkOf(S)) /\ (first \o whole) \o rest \in Seq(ChunkOf(S))
      /\ Range((first \o whole) \o rest) = Range(first) \cup Range(whole) \cup Range(rest)
  <2>1. first \o whole \in Seq(ChunkOf(S)) /\ Range(first \o whole) = Range(first) \cup Range(whole)
    <3>1. first \o whole \in Seq(ChunkOf(S))
      BY <1>5, <1>7, ConcatProperties
    <3>2. Range(first \o whole) = Range(first) \cup Range(whole)
      BY <1>5, <1>7, RangeConcatenation
    <3> QED
      BY <3>1, <3>2
  <2>2. /\ (first \o whole) \o rest \in Seq(ChunkOf(S))
        /\ Range((first \o whole) \o rest) = Range(first \o whole) \cup Range(rest)
    <3>1. (first \o whole) \o rest \in Seq(ChunkOf(S))
      <4> DEFINE s == first \o whole
      <4>1. s \in Seq(ChunkOf(S)) /\ rest \in Seq(ChunkOf(S))
        BY <1>8, <2>1
      <4> HIDE DEF s
      <4>2. s \o rest \in Seq(ChunkOf(S))
        BY <4>1, ConcatProperties
      <4> QED
        BY <4>2 DEF s
    <3>2. Range((first \o whole) \o rest) = Range(first \o whole) \cup Range(rest)
      <4> DEFINE s == first \o whole
      <4>1. s \in Seq(ChunkOf(S)) /\ rest \in Seq(ChunkOf(S))
        BY <1>8, <2>1
      <4> HIDE DEF s
      <4>2. Range(s \o rest) = Range(s) \cup Range(rest)
        BY <4>1, RangeConcatenation
      <4> QED
        BY <4>2 DEF s
    <3> QED
      BY <3>1, <3>2
  <2> QED
    BY <2>1, <2>2
<1>10. \A x \in Range(Chunks(va, data)) : HoldsOf(x, va, data)
  BY <1>3, <1>5, <1>7, <1>8, <1>9
<1>11. ASSUME NEW i \in 1 .. Len(data) PROVE Has(Chunks(va, data), i)
  <2>1. i \in 1 .. head \/ i \in head + 1 .. done \/ i \in done + 1 .. Len(data)
    BY <1>1, <1>4
  <2> QED
    BY <1>3, <1>5, <1>7, <1>8, <1>9, <2>1
<1> QED
  BY <1>3, <1>9, <1>10, <1>11

\* A range between the starts of two pages is cut into chunks between them.
LEMMA ChunksInside ==
  ASSUME NEW S, NEW va \in Nat, NEW data \in Seq(S), NEW lo \in Nat, NEW hi \in Nat,
         lo * PageWords <= va, va + Len(data) <= hi * PageWords
  PROVE  Chunks(va, data) \in Seq(Pieces(lo, hi, S))
<1> DEFINE s == Chunks(va, data)
<1>1. s \in Seq(ChunkOf(S)) /\ \A x \in Range(s) : HoldsOf(x, va, data)
  BY ChunksExact
<1> HIDE DEF s
<1>2. PageWords \in Nat /\ Len(data) \in Nat /\ Len(s) \in Nat
  BY <1>1, PageWordsAssumption, LenProperties
<1>3. ASSUME NEW i \in 1 .. Len(s) PROVE s[i] \in Pieces(lo, hi, S)
  <2>1. s[i] \in ChunkOf(S) /\ s[i] \in Range(s)
    BY <1>1, ElementOfSeq, LenProperties DEF Range
  <2>2. PICK q \in Nat, off \in Offsets, d \in Seq(S) : q = s[i].page /\ off = s[i].off /\ d = s[i].data
    BY <2>1 DEF ChunkOf
  <2>3. Len(d) \in Nat /\ Len(d) # 0 /\ \A j \in 1 .. Len(d) : Place(s[i], j) - va + 1 \in 1 .. Len(data)
    <3>1. HoldsOf(s[i], va, data) /\ Len(d) \in Nat
      BY <1>1, <2>1, <2>2, LenProperties
    <3> QED
      BY <2>2, <3>1 DEF HoldsOf
  <2>4. Place(s[i], 1) = q * PageWords + off /\ q * PageWords \in Nat /\ off \in Nat /\ off < PageWords
    <3>1. Place(s[i], 1) = q * PageWords + off + 1 - 1
      BY <2>2 DEF Place
    <3>2. q * PageWords \in Nat /\ off \in Nat /\ off < PageWords
      BY <1>2, PageStart DEF Offsets
    <3> QED
      BY <3>1, <3>2
  <2>5. lo * PageWords \in Nat /\ hi * PageWords \in Nat /\ (q + 1) * PageWords = q * PageWords + PageWords
    BY PageStart, PageOrder
  <2>6. PICK x \in Nat, first \in Nat, last \in Nat, n \in Nat :
          x = q * PageWords /\ first = lo * PageWords /\ last = hi * PageWords /\ n = Len(data)
    BY <2>4, <2>5, LenProperties
  <2>7. q * PageWords < hi * PageWords /\ lo * PageWords < (q + 1) * PageWords
    <3>1. PICK y \in Nat : y = Place(s[i], 1) /\ y = x + off
      BY <2>4, <2>6
    <3>2. y - va + 1 \in 1 .. n
      <4>1. 1 \in 1 .. Len(d)
        BY <2>3
      <4>2. Place(s[i], 1) - va + 1 \in 1 .. Len(data)
        BY <2>3, <4>1
      <4> QED
        BY <2>6, <3>1, <4>2
    <3>3. off \in Nat /\ off < PageWords /\ PageWords \in Nat
      BY <2>4, PageWordsAssumption
    <3>4. first <= va /\ va + n <= last
      BY <2>6
    <3>5. x < last /\ first < x + PageWords
      BY <3>1, <3>2, <3>3, <3>4, SMTT(30)
    <3> QED
      BY <2>5, <2>6, <3>5
  <2>8. q < hi /\ lo < q + 1
    BY <2>7, PageOrder
  <2>9. s[i] \in [page : Nat, off : Nat, data : Seq(S)] /\ s[i].page \in lo .. hi - 1
    BY <2>1, <2>2, <2>4, <2>8 DEF ChunkOf, Offsets
  <2> QED
    BY <2>9 DEF Pieces
<1>4. s \in Seq(Pieces(lo, hi, S))
  <2> DEFINE P == Pieces(lo, hi, S)
  <2>1. s \in [1 .. Len(s) -> P]
    BY <1>1, <1>3, LenProperties
  <2> HIDE DEF P
  <2>2. s \in Seq(P)
    BY <1>2, <2>1
  <2> QED
    BY <2>2 DEF P
<1> QED
  BY <1>4 DEF s

-----------------------------------------------------------------------------
(* The loader. *)

\* From the page a range starts in to the first behind it, within the pages around it.
LEMMA Between ==
  ASSUME NEW a \in Nat, NEW b \in Nat, a <= b, NEW lo \in Nat, NEW hi \in Nat,
         lo * PageWords <= a, b <= hi * PageWords
  PROVE  \E f \in Nat, c \in Nat :
           /\ Floor(a) = f * PageWords /\ Ceil(b) = c * PageWords
           /\ lo <= f /\ f <= c /\ c <= hi
<1>1. PageWords \in Nat /\ PageWords >= 1
  BY PageWordsAssumption
<1>2. PICK f \in Nat :
        Floor(a) = f * PageWords /\ f * PageWords <= a /\ a < f * PageWords + PageWords
  BY FloorCeil
<1>3. PICK g \in Nat, c \in Nat :
        /\ Floor(b) = g * PageWords /\ g * PageWords <= b
        /\ Ceil(b) = c * PageWords /\ b <= c * PageWords
        /\ IF b = Floor(b) THEN c = g ELSE c = g + 1
  BY FloorCeil
<1>4. /\ f * PageWords \in Nat /\ g * PageWords \in Nat /\ c * PageWords \in Nat
      /\ lo * PageWords \in Nat /\ hi * PageWords \in Nat
  BY PageStart
<1>5. lo <= f
  <2>1. (f + 1) * PageWords = f * PageWords + PageWords
    BY PageOrder
  <2>2. lo * PageWords < (f + 1) * PageWords
    BY <1>1, <1>2, <1>4, <2>1
  <2>3. lo < f + 1
    BY <2>2, PageOrder
  <2> QED
    BY <2>3
<1>6. f <= c
  <2>1. f * PageWords <= c * PageWords
    BY <1>2, <1>3, <1>4
  <2> QED
    BY <2>1, PageOrder
<1>7. c <= hi
  <2>1. CASE b = Floor(b)
    <3>1. c * PageWords <= hi * PageWords
      BY <1>3, <2>1
    <3> QED
      BY <3>1, PageOrder
  <2>2. CASE b # Floor(b)
    <3>1. g * PageWords < hi * PageWords
      BY <1>3, <1>4, <2>2
    <3>2. g < hi
      BY <3>1, PageOrder
    <3> QED
      BY <1>3, <2>2, <3>2
  <2> QED
    BY <2>1, <2>2
<1> QED
  BY <1>2, <1>3, <1>5, <1>6, <1>7

\* A loop over map_page takes the pages of its range.
LEMMA FreshInside ==
  ASSUME NEW S, NEW f \in Nat, NEW t \in Nat, f <= t, NEW lo \in Nat, NEW hi \in Nat, lo <= f, t <= hi
  PROVE  Fresh(f * PageWords, t * PageWords) \in Seq(Pieces(lo, hi, S))
<1> DEFINE P == Pieces(lo, hi, S)
<1>1. (t * PageWords - f * PageWords) \div PageWords = t - f
  <2>1. t - f \in Nat
    OBVIOUS
  <2>2. (t - f) * PageWords = t * PageWords - f * PageWords
    BY PageOrder
  <2>3. ((t - f) * PageWords) \div PageWords = t - f
    BY <2>1, PageStart
  <2> QED
    BY <2>2, <2>3
<1>2. (f * PageWords) \div PageWords = f
  BY PageStart
<1>3. ASSUME NEW j \in 1 .. t - f
      PROVE  Chunk(f + j - 1, 0, << >>) \in P
  <2>1. f + j - 1 \in lo .. hi - 1
    OBVIOUS
  <2> QED
    BY <2>1, EmptySeq DEF Chunk, Pieces
<1> HIDE DEF P
<1>4. PICK n \in Nat : n = t - f
  OBVIOUS
<1>5. [j \in 1 .. n |-> Chunk(f + j - 1, 0, << >>)] \in [1 .. n -> P]
  BY <1>3, <1>4
<1>6. [j \in 1 .. n |-> Chunk(f + j - 1, 0, << >>)] \in Seq(P)
  BY <1>5
<1>7. Fresh(f * PageWords, t * PageWords) = [j \in 1 .. n |-> Chunk(f + j - 1, 0, << >>)]
  BY <1>1, <1>2, <1>4 DEF Fresh
<1> QED
  BY <1>6, <1>7 DEF P

-----------------------------------------------------------------------------
(* What the loader is about to map.                                          *)

AllFlags == {"R", "W", "X", "U", "A", "D"}

\* User memory is whole pages.
LEMMA UserMemory ==
  \E lo \in Nat, hi \in Nat :
    /\ UserBottom = lo * PageWords /\ UserTop = hi * PageWords
    /\ UserPages = lo .. hi - 1
<1> DEFINE lo == UserBottom \div PageWords
           hi == UserTop \div PageWords
<1>1. /\ UserBottom \in Nat /\ UserTop \in Nat
      /\ UserBottom % PageWords = 0 /\ UserTop % PageWords = 0
  BY LoaderAssumption DEF Aligned
<1>2. /\ lo \in Nat /\ UserBottom = lo * PageWords + (UserBottom % PageWords)
      /\ hi \in Nat /\ UserTop = hi * PageWords + (UserTop % PageWords)
  BY <1>1, DivMod
<1>3. lo * PageWords \in Nat /\ hi * PageWords \in Nat
  BY <1>2, PageStart
<1>4. UserPages = lo .. hi - 1
  BY DEF UserPages
<1> HIDE DEF lo, hi
<1>5. UserBottom = lo * PageWords /\ UserTop = hi * PageWords
  BY <1>1, <1>2, <1>3
<1> QED
  BY <1>2, <1>4, <1>5

\* A range of user memory is mapped a page at a time, with some rights.
LEMMA WithInside ==
  ASSUME NEW lo \in Nat, NEW hi \in Nat, UserPages = lo .. hi - 1,
         NEW chunks \in Seq(Pieces(lo, hi, Words)), NEW flags \in SUBSET AllFlags
  PROVE  With(flags, chunks) \in Seq(Put)
<1>1. Len(chunks) \in Nat /\ DOMAIN chunks = 1 .. Len(chunks)
  BY LenProperties
<1>2. \A j \in 1 .. Len(chunks) : chunks[j] \in Pieces(lo, hi, Words)
  BY ElementOfSeq
<1>3. \A j \in 1 .. Len(chunks) : [chunk |-> chunks[j], flags |-> flags] \in Put
  BY <1>2 DEF Put, Pieces, AllFlags
<1>4. With(flags, chunks) \in [1 .. Len(chunks) -> Put]
  BY <1>1, <1>3 DEF With
<1> QED
  BY <1>1, <1>4

\* A part of the file that lies in it is made of its words.
LEMMA FilePartOK ==
  ASSUME file \in Files, NEW from \in Nat, NEW n \in Nat, n # 0 => from + n <= Len(file.words)
  PROVE  FilePart(from, n) \in Seq(Words) /\ Len(FilePart(from, n)) = n
<1>1. file.words \in Seq(Words) /\ Len(file.words) \in Nat
  BY FilesAssumption, LenProperties
<1>2. ASSUME NEW i \in 1 .. n
      PROVE  FileAt(from + i - 1) \in Words
  <2>1. from + i - 1 < Len(file.words) /\ (from + i - 1) + 1 \in 1 .. Len(file.words)
    BY <1>1
  <2>2. FileAt(from + i - 1) = file.words[(from + i - 1) + 1]
    BY <2>1 DEF FileAt
  <2> QED
    BY <1>1, <2>1, <2>2, ElementOfSeq
<1>3. FilePart(from, n) \in [1 .. n -> Words]
  BY <1>2 DEF FilePart
<1> QED
  BY <1>3

\* Both comparisons of the code together leave no way to wrap around.
LEMMA NoWrap ==
  ASSUME NEW a \in Size, NEW n \in Size, NEW limit \in Nat, limit < Modulus, Below(a, n, limit)
  PROVE  a + n <= limit
<1>1. Modulus \in Nat /\ a \in Nat /\ n \in Nat /\ a < Modulus /\ n < Modulus /\ a + n \in Nat
  BY LoaderAssumption DEF Size
<1>2. a <= (a + n) % Modulus /\ (a + n) % Modulus <= limit
  BY DEF Below, Add
<1>3. (a + n) % Modulus = IF a + n < Modulus THEN a + n ELSE a + n - Modulus
  BY <1>1, SMT
<1> QED
  BY <1>1, <1>2, <1>3

\* What the checks of a segment leave.
LEMMA SegmentFacts ==
  ASSUME file \in Files, NEW p \in Phdr, SegmentError(p) = "ok"
  PROVE  /\ p.vaddr \in Nat /\ p.filesz \in Nat /\ p.memsz \in Nat /\ p.filesz <= p.memsz
         /\ UserBottom <= p.vaddr /\ p.vaddr + p.memsz <= UserTop
         /\ FilePart(p.offset, p.filesz) \in Seq(Words) /\ Len(FilePart(p.offset, p.filesz)) = p.filesz
<1>2. /\ p.offset \in Size /\ p.vaddr \in Size /\ p.filesz \in Size /\ p.memsz \in Size
  BY DEF Phdr
<1>3. /\ p.offset \in Nat /\ p.vaddr \in Nat /\ p.filesz \in Nat /\ p.memsz \in Nat
      /\ UserTop \in Nat /\ UserTop < Modulus /\ UserBottom \in Nat
  BY <1>2, LoaderAssumption DEF Size
<1>4. /\ p.filesz # 0 => Below(p.offset, p.filesz, Len(file.words))
      /\ UserBottom <= p.vaddr /\ Below(p.vaddr, p.memsz, UserTop)
      /\ p.filesz <= p.memsz
  BY <1>3 DEF SegmentError
<1>5. p.filesz # 0 => p.offset + p.filesz <= Len(file.words)
  <2>1. Len(file.words) \in Nat /\ Len(file.words) < Modulus
    BY FilesAssumption, LoaderAssumption DEF Size
  <2> QED
    BY <1>2, <1>4, <2>1, NoWrap
<1>6. p.vaddr + p.memsz <= UserTop
  BY <1>2, <1>3, <1>4, NoWrap
<1> QED
  BY <1>3, <1>4, <1>5, <1>6, FilePartOK

\* A segment that passes its checks stays in user memory, its .bss included.
LEMMA SegmentInside ==
  ASSUME file \in Files, NEW p \in Phdr, SegmentError(p) = "ok"
  PROVE  SegmentPages(p) \in Seq(Put)
<1>1. PICK lo \in Nat, hi \in Nat :
        /\ UserBottom = lo * PageWords /\ UserTop = hi * PageWords
        /\ UserPages = lo .. hi - 1
  BY UserMemory
<1> DEFINE part == FilePart(p.offset, p.filesz)
<1>2. /\ p.vaddr \in Nat /\ p.filesz \in Nat /\ p.memsz \in Nat /\ p.filesz <= p.memsz
      /\ UserBottom <= p.vaddr /\ p.vaddr + p.memsz <= UserTop
      /\ part \in Seq(Words) /\ Len(part) = p.filesz
  BY SegmentFacts
<1>3. p.flags \in SUBSET {"R", "W", "X"}
  BY DEF Phdr
<1>8. Chunks(p.vaddr, part) \in Seq(Pieces(lo, hi, Words))
  <2>1. lo * PageWords <= p.vaddr /\ p.vaddr + Len(part) <= hi * PageWords
    BY <1>1, <1>2
  <2> HIDE DEF part
  <2> QED
    BY <1>2, <2>1, ChunksInside
<1>9. Bss(p) \in Seq(Pieces(lo, hi, Words))
  <2>1. CASE p.filesz < p.memsz
    <3>1. /\ p.vaddr + p.filesz \in Nat /\ p.vaddr + p.memsz \in Nat
          /\ p.vaddr + p.filesz <= p.vaddr + p.memsz
          /\ lo * PageWords <= p.vaddr + p.filesz /\ p.vaddr + p.memsz <= hi * PageWords
      <4>1. lo * PageWords <= p.vaddr /\ p.vaddr + p.memsz <= hi * PageWords /\ lo * PageWords \in Nat
        BY <1>1, <1>2, PageStart
      <4> QED
        BY <1>2, <4>1
    <3>2. PICK f \in Nat, c \in Nat :
            /\ Floor(p.vaddr + p.filesz) = f * PageWords /\ Ceil(p.vaddr + p.memsz) = c * PageWords
            /\ lo <= f /\ f <= c /\ c <= hi
      BY <3>1, Between
    <3>3. Fresh(f * PageWords, c * PageWords) \in Seq(Pieces(lo, hi, Words))
      BY <3>2, FreshInside
    <3> QED
      BY <2>1, <3>2, <3>3 DEF Bss
  <2>2. CASE ~ p.filesz < p.memsz
    BY <2>2, EmptySeq DEF Bss
  <2> QED
    BY <2>1, <2>2
<1>10. Chunks(p.vaddr, part) \o Bss(p) \in Seq(Pieces(lo, hi, Words))
  BY <1>8, <1>9, ConcatProperties
<1>11. SegmentFlags(p) \in SUBSET AllFlags
  BY <1>3 DEF SegmentFlags, AllFlags
<1> QED
  BY <1>1, <1>10, <1>11, WithInside DEF SegmentPages

\* The areas of the daemon are whole pages of user memory, one below the other.
LEMMA AreaPlaces ==
  ASSUME stdin \in Inputs
  PROVE  \E lo \in Nat, hi \in Nat, in \in Nat, out \in Nat, stack \in Nat, heap \in Nat, brk \in Nat :
           /\ UserBottom = lo * PageWords /\ UserTop = hi * PageWords /\ UserPages = lo .. hi - 1
           /\ HeaderVa = (hi - 1) * PageWords /\ StdinVa = in * PageWords
           /\ StdinVa + Len(stdin) <= HeaderVa
           /\ StdoutVa = out * PageWords /\ StdoutVa + StdoutWords = in * PageWords
           /\ StackVa = stack * PageWords /\ StackVa + StackWords = out * PageWords
           /\ HeapBase = heap * PageWords /\ HeapBase + HeapWords = brk * PageWords
           /\ lo <= heap /\ heap <= brk /\ brk <= stack /\ stack <= out /\ out <= in /\ in <= hi - 1
           /\ StackVa <= StdoutVa - Len(Args)
<1>1. PICK lo \in Nat, hi \in Nat :
        /\ UserBottom = lo * PageWords /\ UserTop = hi * PageWords
        /\ UserPages = lo .. hi - 1
  BY UserMemory
<1>2. \A a \in {StdoutWords, StackWords, HeapBase, HeapWords} :
        a \in Nat /\ (a \div PageWords) \in Nat /\ a = (a \div PageWords) * PageWords
  <2> SUFFICES ASSUME NEW a \in {StdoutWords, StackWords, HeapBase, HeapWords}
               PROVE  a \in Nat /\ (a \div PageWords) \in Nat /\ a = (a \div PageWords) * PageWords
    OBVIOUS
  <2>1. a \in Nat /\ a % PageWords = 0
    BY LoaderAssumption DEF Aligned
  <2>2. /\ (a \div PageWords) \in Nat
        /\ a = (a \div PageWords) * PageWords + (a % PageWords)
    BY <2>1, DivMod
  <2>3. (a \div PageWords) * PageWords \in Nat
    BY <2>2, PageStart
  <2> QED
    BY <2>1, <2>2, <2>3
<1>3. PICK so \in Nat, st \in Nat, hb \in Nat, hw \in Nat :
        /\ StdoutWords = so * PageWords /\ StackWords = st * PageWords
        /\ HeapBase = hb * PageWords /\ HeapWords = hw * PageWords
  BY <1>2
<1>4. Len(stdin) \in Nat /\ Len(Args) \in Nat
  BY FilesAssumption, LenProperties
<1>5. PICK ci \in Nat : Ceil(Len(stdin)) = ci * PageWords /\ Len(stdin) <= ci * PageWords
  BY <1>4, FloorCeil
<1> DEFINE in == hi - 1 - ci
           out == in - so
           stack == out - st
           brk == hb + hw
<1>6. /\ in * PageWords = hi * PageWords - PageWords - ci * PageWords
      /\ out * PageWords = in * PageWords - so * PageWords
      /\ stack * PageWords = out * PageWords - st * PageWords
      /\ brk * PageWords = hb * PageWords + hw * PageWords
      /\ (hi - 1) * PageWords = hi * PageWords - PageWords
  <2>1. (hi - 1) * PageWords = hi * PageWords - 1 * PageWords
    BY PageOrder
  <2>2. 1 * PageWords = PageWords
    BY PageWordsAssumption
  <2>3. in * PageWords = (hi - 1) * PageWords - ci * PageWords
    BY PageOrder
  <2>4. out * PageWords = in * PageWords - so * PageWords
    BY PageOrder
  <2>5. stack * PageWords = out * PageWords - st * PageWords
    BY PageOrder
  <2>6. ((hb + hw) - hw) * PageWords = (hb + hw) * PageWords - hw * PageWords /\ (hb + hw) - hw = hb
    BY PageOrder
  <2>7. hb * PageWords \in Int /\ hw * PageWords \in Int /\ (hb + hw) * PageWords \in Int
    BY PageOrder
  <2>8. brk * PageWords = hb * PageWords + hw * PageWords
    BY <2>6, <2>7
  <2> HIDE DEF in, out, stack, brk
  <2>9. /\ hi * PageWords \in Int /\ ci * PageWords \in Int
        /\ PageWords \in Int /\ (hi - 1) * PageWords \in Int
    BY PageOrder, PageWordsAssumption
  <2> QED
    BY <2>1, <2>2, <2>3, <2>4, <2>5, <2>8, <2>9
<1>7. /\ in \in Int /\ out \in Int /\ stack \in Int /\ brk \in Nat
      /\ out <= in /\ stack <= out /\ in <= hi - 1 /\ hb <= brk
  OBVIOUS
<1> HIDE DEF in, out, stack, brk
<1>8. /\ HeaderVa = (hi - 1) * PageWords /\ StdinVa = in * PageWords
      /\ StdoutVa = out * PageWords /\ StackVa = stack * PageWords
      /\ HeapBase + HeapWords = brk * PageWords
  BY <1>1, <1>3, <1>5, <1>6 DEF HeaderVa, StdinVa, StdoutVa, StackVa
<1>9. brk * PageWords <= stack * PageWords
  <2>1. HeapBase + HeapWords <= UserTop - PageWords - Ceil(Len(stdin)) - StdoutWords - StackWords
    BY LoaderAssumption
  <2> QED
    BY <1>8, <2>1 DEF HeaderVa, StdinVa, StdoutVa, StackVa
<1>10. brk <= stack
  BY <1>7, <1>9, PageOrder
<1>11. lo <= hb
  <2>1. lo * PageWords <= hb * PageWords
    BY <1>1, <1>3, LoaderAssumption
  <2> QED
    BY <2>1, PageOrder
<1>12. stack \in Nat /\ out \in Nat /\ in \in Nat
  BY <1>7, <1>10
<1>13. /\ in * PageWords \in Nat /\ out * PageWords \in Nat /\ stack * PageWords \in Nat
       /\ so * PageWords \in Nat /\ st * PageWords \in Nat /\ ci * PageWords \in Nat
       /\ hi * PageWords \in Nat
  BY <1>12, PageStart
<1>14. /\ StdoutVa + StdoutWords = in * PageWords /\ StackVa + StackWords = out * PageWords
       /\ StdinVa + Len(stdin) <= HeaderVa
  <2>1. StdoutVa + StdoutWords = in * PageWords
    BY <1>3, <1>6, <1>8, <1>13
  <2>2. StackVa + StackWords = out * PageWords
    BY <1>3, <1>6, <1>8, <1>13
  <2>3. StdinVa + Len(stdin) <= HeaderVa
    <3>1. StdinVa = HeaderVa - ci * PageWords
      BY <1>3, <1>4, <1>5 DEF StdinVa
    <3>2. HeaderVa = hi * PageWords - PageWords /\ PageWords \in Int
      BY <1>6, <1>8, PageWordsAssumption
    <3> QED
      BY <1>3, <1>4, <1>5, <1>13, <3>1, <3>2
  <2> QED
    BY <2>1, <2>2, <2>3
<1>15. StackVa <= StdoutVa - Len(Args)
  <2>1. Len(Args) <= StackWords
    BY <1>3, <1>4, <1>13, LoaderAssumption, PageWordsAssumption
  <2>2. /\ StackVa \in Int /\ StackWords \in Int /\ StdoutVa \in Int
        /\ StackVa + StackWords = StdoutVa
    BY <1>3, <1>8, <1>13, <1>14
  <2> QED
    BY <1>4, <2>1, <2>2
<1>16. /\ HeaderVa = (hi - 1) * PageWords /\ StdinVa = in * PageWords
       /\ StdinVa + Len(stdin) <= HeaderVa
       /\ StdoutVa = out * PageWords /\ StdoutVa + StdoutWords = in * PageWords
       /\ StackVa = stack * PageWords /\ StackVa + StackWords = out * PageWords
       /\ HeapBase = hb * PageWords /\ HeapBase + HeapWords = brk * PageWords
  BY <1>3, <1>8, <1>14
<1>17. lo <= hb /\ hb <= brk /\ brk <= stack /\ stack <= out /\ out <= in /\ in <= hi - 1
  BY <1>7, <1>10, <1>11
<1>18. hb \in Nat /\ brk \in Nat
  BY <1>3, <1>7
<1> DEFINE Placed(a, b, c, d, e, f, g) ==
             /\ UserBottom = a * PageWords /\ UserTop = b * PageWords /\ UserPages = a .. b - 1
             /\ HeaderVa = (b - 1) * PageWords /\ StdinVa = c * PageWords
             /\ StdinVa + Len(stdin) <= HeaderVa
             /\ StdoutVa = d * PageWords /\ StdoutVa + StdoutWords = c * PageWords
             /\ StackVa = e * PageWords /\ StackVa + StackWords = d * PageWords
             /\ HeapBase = f * PageWords /\ HeapBase + HeapWords = g * PageWords
             /\ a <= f /\ f <= g /\ g <= e /\ e <= d /\ d <= c /\ c <= b - 1
             /\ StackVa <= StdoutVa - Len(Args)
<1>19. Placed(lo, hi, in, out, stack, hb, brk)
  BY <1>1, <1>15, <1>16, <1>17
<1> HIDE DEF Placed
<1>20. \E a \in Nat, b \in Nat, c \in Nat, d \in Nat, e \in Nat, f \in Nat, g \in Nat :
         Placed(a, b, c, d, e, f, g)
  BY <1>12, <1>18, <1>19
<1> QED
  BY <1>20, Zenon DEF Placed

\* So the daemon maps nothing else either.
LEMMA AreaInside ==
  ASSUME file \in Files, stdin \in Inputs,
         NEW area \in {"header", "stdin", "stdout", "stack", "heap", "args", "user"}
  PROVE  AreaPages(area) \in Seq(Put)
<1>1. PICK lo \in Nat, hi \in Nat, in \in Nat, out \in Nat, stack \in Nat, heap \in Nat, brk \in Nat :
           /\ UserBottom = lo * PageWords /\ UserTop = hi * PageWords /\ UserPages = lo .. hi - 1
           /\ HeaderVa = (hi - 1) * PageWords /\ StdinVa = in * PageWords
           /\ StdinVa + Len(stdin) <= HeaderVa
           /\ StdoutVa = out * PageWords /\ StdoutVa + StdoutWords = in * PageWords
           /\ StackVa = stack * PageWords /\ StackVa + StackWords = out * PageWords
           /\ HeapBase = heap * PageWords /\ HeapBase + HeapWords = brk * PageWords
           /\ lo <= heap /\ heap <= brk /\ brk <= stack /\ stack <= out /\ out <= in /\ in <= hi - 1
           /\ StackVa <= StdoutVa - Len(Args)
  BY AreaPlaces
<1> DEFINE InOrder == /\ lo <= heap /\ heap <= brk /\ brk <= stack /\ stack <= out /\ out <= in
                      /\ in <= hi - 1
<1>order. InOrder
  BY <1>1
<1> HIDE DEF InOrder
<1>2. hi - 1 \in Nat
  BY <1>order DEF InOrder
<1>3. /\ lo * PageWords \in Nat /\ (hi - 1) * PageWords \in Nat /\ hi * PageWords \in Nat
      /\ in * PageWords \in Nat /\ out * PageWords \in Nat /\ stack * PageWords \in Nat
  BY <1>2, PageStart
<1>4. /\ lo * PageWords <= stack * PageWords /\ stack * PageWords <= in * PageWords
      /\ stack * PageWords <= (hi - 1) * PageWords
      /\ out * PageWords <= hi * PageWords /\ (hi - 1) * PageWords <= hi * PageWords
      /\ hi * PageWords = (hi - 1) * PageWords + PageWords
  <2>1. /\ lo \in Int /\ stack \in Int /\ in \in Int /\ out \in Int /\ hi \in Int /\ hi - 1 \in Int
        /\ lo <= stack /\ stack <= in /\ stack <= hi - 1 /\ out <= hi /\ hi - 1 <= hi
        /\ (hi - 1) + 1 = hi
    BY <1>order DEF InOrder
  <2>2. lo * PageWords <= stack * PageWords /\ stack * PageWords <= in * PageWords
    BY <2>1, PageOrder
  <2>3. /\ stack * PageWords <= (hi - 1) * PageWords /\ (hi - 1) * PageWords <= hi * PageWords
    BY <2>1, PageOrder
  <2>4. out * PageWords <= hi * PageWords
    BY <2>1, PageOrder
  <2>5. ((hi - 1) + 1) * PageWords = (hi - 1) * PageWords + PageWords
    BY <2>1, PageOrder
  <2> QED
    BY <2>1, <2>2, <2>3, <2>4, <2>5
<1>5. PageWords \in Nat /\ PageWords >= 1 /\ Len(stdin) \in Nat /\ Len(Args) \in Nat /\ Len(file.words) \in Nat
      /\ stdin \in Seq(Words) /\ Args \in Seq(Words)
  BY PageWordsAssumption, FilesAssumption, LenProperties
<1>6. ReadOnly \in SUBSET AllFlags /\ ReadWrite \in SUBSET AllFlags
  BY DEF ReadOnly, ReadWrite, AllFlags
<1>7. CASE area = "header"
  <2> DEFINE n == Min({PageWords, Len(file.words)})
             part == FilePart(0, n)
  <2>1. n \in Nat /\ n <= PageWords /\ n <= Len(file.words)
    BY <1>5 DEF Min
  <2> HIDE DEF n
  <2>2. part \in Seq(Words) /\ Len(part) = n
    BY <1>5, <2>1, FilePartOK
  <2> HIDE DEF part
  <2>3. HeaderVa \in Nat /\ lo * PageWords <= HeaderVa /\ HeaderVa + Len(part) <= hi * PageWords
    BY <1>1, <1>3, <1>4, <1>5, <2>1, <2>2
  <2>4. Chunks(HeaderVa, part) \in Seq(Pieces(lo, hi, Words))
    BY <2>2, <2>3, ChunksInside
  <2> QED
    BY <1>1, <1>6, <1>7, <2>4, WithInside DEF AreaPages, part, n
<1>8. CASE area = "stdin"
  <2>1. StdinVa \in Nat /\ lo * PageWords <= StdinVa /\ StdinVa + Len(stdin) <= hi * PageWords
    BY <1>1, <1>3, <1>4, <1>5
  <2>2. Chunks(StdinVa, stdin) \in Seq(Pieces(lo, hi, Words))
    BY <1>5, <2>1, ChunksInside
  <2> QED
    BY <1>1, <1>6, <1>8, <2>2, WithInside DEF AreaPages
<1>9. CASE area = "stdout"
  <2>1. Fresh(out * PageWords, in * PageWords) \in Seq(Pieces(lo, hi, Words))
    <3>1. lo <= out /\ out <= in /\ in <= hi
      BY <1>order DEF InOrder
    <3> QED
      BY <3>1, FreshInside
  <2> QED
    BY <1>1, <1>6, <1>9, <2>1, WithInside DEF AreaPages
<1>10. CASE area = "stack"
  <2>1. Fresh(stack * PageWords, out * PageWords) \in Seq(Pieces(lo, hi, Words))
    <3>1. lo <= stack /\ stack <= out /\ out <= hi
      BY <1>order DEF InOrder
    <3> QED
      BY <3>1, FreshInside
  <2> QED
    BY <1>1, <1>6, <1>10, <2>1, WithInside DEF AreaPages
<1>11. CASE area = "heap"
  <2>1. Fresh(heap * PageWords, brk * PageWords) \in Seq(Pieces(lo, hi, Words))
    <3>1. lo <= heap /\ heap <= brk /\ brk <= hi
      BY <1>order DEF InOrder
    <3> QED
      BY <3>1, FreshInside
  <2> QED
    BY <1>1, <1>6, <1>11, <2>1, WithInside DEF AreaPages
<1>12. CASE area = "args"
  <2> DEFINE va == StdoutVa - Len(Args)
  <2>1. va \in Nat /\ lo * PageWords <= va /\ va + Len(Args) <= hi * PageWords
    <3>1. va + Len(Args) = out * PageWords /\ va \in Int
      BY <1>1, <1>3, <1>5
    <3>2. stack * PageWords <= va
      BY <1>1
    <3> HIDE DEF va
    <3> QED
      BY <1>3, <1>4, <3>1, <3>2
  <2>2. Chunks(va, Args) \in Seq(Pieces(lo, hi, Words))
    <3> HIDE DEF va
    <3> QED
      BY <1>5, <2>1, ChunksInside
  <2> QED
    BY <1>1, <1>6, <1>12, <2>2, WithInside DEF AreaPages
<1>13. CASE area = "user"
  BY <1>13, EmptySeq DEF AreaPages
<1> QED
  BY <1>7, <1>8, <1>9, <1>10, <1>11, <1>12, <1>13

-----------------------------------------------------------------------------
(* The invariant.                                                            *)

Loading == {"header", "stdin", "stdout", "stack", "heap", "args", "user"}

\* do_judge goes from one area to the next.
LEMMA FollowingArea ==
  ASSUME NEW area \in {"segments", "header", "stdin", "stdout", "stack", "heap", "args"}
  PROVE  Following(area) \in Loading
<1>1. DOMAIN Areas = 1 .. 8
  BY DEF Areas
<1>2. PICK k \in 1 .. 7 : Areas[k] = area
  <2>1. /\ Areas[1] = "segments" /\ Areas[2] = "header" /\ Areas[3] = "stdin" /\ Areas[4] = "stdout"
        /\ Areas[5] = "stack" /\ Areas[6] = "heap" /\ Areas[7] = "args"
    BY DEF Areas
  <2> QED
    BY <2>1
<1> DEFINE j == CHOOSE j \in DOMAIN Areas : Areas[j] = area
<1>3. j \in 1 .. 8 /\ Areas[j] = area
  BY <1>1, <1>2
<1> HIDE DEF j
<1>4. j \in 1 .. 7
  BY <1>3 DEF Areas
<1>5. 1 + j \in 2 .. 8 /\ Areas[1 + j] \in Loading
  <2>1. \A i \in 2 .. 8 : Areas[i] \in Loading
    BY DEF Areas, Loading
  <2> QED
    BY <1>4, <2>1
<1> QED
  BY <1>5 DEF Following, j

\* The words of a mapped page.
PageOfWords == [Offsets -> Words \cup {Zero}]

\* The names of the stages.
LEMMA StageNames ==
  Range(Areas) = {"segments"} \cup Loading
<1>1. Areas = <<"segments", "header", "stdin", "stdout", "stack", "heap", "args", "user">>
  BY DEF Areas
<1>2. DOMAIN Areas = 1 .. 8
  BY <1>1
<1>3. \A k \in 1 .. 8 : Areas[k] \in {"segments"} \cup Loading
  BY <1>1 DEF Loading
<1>4. \A a \in {"segments"} \cup Loading : \E k \in 1 .. 8 : Areas[k] = a
  <2>1. /\ Areas[1] = "segments" /\ Areas[2] = "header" /\ Areas[3] = "stdin" /\ Areas[4] = "stdout"
        /\ Areas[5] = "stack" /\ Areas[6] = "heap" /\ Areas[7] = "args" /\ Areas[8] = "user"
    BY <1>1
  <2> QED
    BY <2>1 DEF Loading
<1> QED
  BY <1>2, <1>3, <1>4 DEF Range

\* The steps of the loader and of do_judge keep the invariant.
LEMMA LoadInitInv == LoadInit => LoadInv
<1> SUFFICES ASSUME LoadInit PROVE LoadInv
  OBVIOUS
<1>1. DOMAIN space = {}
  BY DEF LoadInit, Memory!SpaceInit
<1>2. Len(file.phdrs) \in Nat
  BY FilesAssumption, LenProperties DEF LoadInit
<1> QED
  BY <1>1, <1>2, EmptySeq DEF LoadInit, LoadInv, LoadTypeOK, InUserMemory

LEMMA CheckHeaderInv == LoadInv /\ CheckHeader => LoadInv'
<1> SUFFICES ASSUME LoadInv, CheckHeader PROVE LoadInv'
  OBVIOUS
<1>1. HeaderError \in {"ok", "EOOB", "EBADPKT", "ENOIMPL"}
  BY DEF HeaderError
<1>2. LoadTypeOK'
  BY <1>1, StageNames DEF LoadInv, LoadTypeOK, CheckHeader, Fail, Loading
<1>3. todo' \in Seq(Put)
  BY EmptySeq DEF LoadInv, CheckHeader, Fail
<1> QED
  BY <1>2, <1>3 DEF LoadInv, InUserMemory, CheckHeader

LEMMA LoadSegmentInv == LoadInv /\ LoadSegment => LoadInv'
<1> SUFFICES ASSUME LoadInv, LoadSegment PROVE LoadInv'
  OBVIOUS
<1> DEFINE p == file.phdrs[next]
<1>1. /\ file \in Files /\ file.phdrs \in Seq(Phdr) /\ Len(file.phdrs) \in Nat
      /\ next \in 1 .. Len(file.phdrs)
  BY FilesAssumption, LenProperties DEF LoadInv, LoadTypeOK, LoadSegment
<1>2. p \in Phdr
  BY <1>1, ElementOfSeq
<1>3. next' \in 1 .. Len(file.phdrs) + 1
  BY <1>1 DEF LoadSegment
<1> HIDE DEF p
<1>4. SegmentError(p) \in {"ok", "EOOB", "EBADPKT"}
  BY DEF SegmentError
<1>5. /\ UNCHANGED <<file, stdin, space>>
      /\ \/ UNCHANGED <<stage, todo, ret>>
         \/ SegmentError(p) # "ok" /\ Fail(SegmentError(p))
         \/ SegmentError(p) = "ok" /\ todo' = SegmentPages(p) /\ UNCHANGED <<stage, ret>>
  BY DEF LoadSegment, p
<1>6. todo' \in Seq(Put)
  BY <1>1, <1>2, <1>5, EmptySeq, SegmentInside DEF LoadInv, Fail
<1>7. LoadTypeOK'
  BY <1>1, <1>3, <1>4, <1>5 DEF LoadInv, LoadTypeOK, Fail
<1> QED
  BY <1>5, <1>6, <1>7 DEF LoadInv, InUserMemory

LEMMA PutPageInv == LoadInv /\ PutPage => LoadInv'
<1> SUFFICES ASSUME LoadInv, PutPage PROVE LoadInv'
  OBVIOUS
<1> DEFINE put == Head(todo)
           v == put.chunk.page
           old == IF v \in DOMAIN space THEN space[v]
                  ELSE [flags |-> put.flags, words |-> ZeroPage]
           new == [flags |-> old.flags,
                   words |-> Overwrite(old.words, put.chunk.off, put.chunk.data)]
<1>1. put \in Put /\ Tail(todo) \in Seq(Put)
  BY HeadTailProperties DEF LoadInv, PutPage
<1>2. v \in UserPages /\ put.chunk.off \in Nat /\ put.chunk.data \in Seq(Words)
  BY <1>1 DEF Put
<1>3. space' = [w \in DOMAIN space \cup {v} |-> IF w = v THEN new ELSE space[w]]
  BY DEF PutPage, Memory!Put, Memory!Overwrite, Memory!ZeroPage, Memory!Offsets,
         Overwrite, ZeroPage, Offsets
<1>4. old.words \in PageOfWords
  BY DEF LoadInv, ZeroPage, PageOfWords
<1>5. new.words \in PageOfWords
  <2> DEFINE data == put.chunk.data
             off == put.chunk.off
             words == old.words
  <2>1. new.words = Overwrite(words, off, data)
    OBVIOUS
  <2>2. \A i \in Offsets : words[i] \in Words \cup {Zero}
    BY <1>4 DEF PageOfWords
  <2>3. \A i \in DOMAIN data : data[i] \in Words
    BY <1>2, ElementOfSeq, LenProperties
  <2> HIDE DEF data, off, words, new
  <2>4. Overwrite(words, off, data) \in [Offsets -> Words \cup {Zero}]
    BY <2>2, <2>3 DEF Overwrite
  <2> QED
    BY <2>1, <2>4 DEF PageOfWords
<1> HIDE DEF new, old, v, put
<1>6. DOMAIN space' = DOMAIN space \cup {v}
  BY <1>3
<1>7. \A w \in DOMAIN space' : space'[w].words \in PageOfWords
  <2> SUFFICES ASSUME NEW w \in DOMAIN space' PROVE space'[w].words \in PageOfWords
    OBVIOUS
  <2>1. CASE w = v
    BY <1>3, <1>5, <1>6, <2>1
  <2>2. CASE w # v
    BY <1>3, <1>6, <2>2 DEF LoadInv, PageOfWords
  <2> QED
    BY <2>1, <2>2
<1>8. \A w \in DOMAIN space' : DOMAIN space'[w].words = Offsets
  BY <1>7 DEF PageOfWords
<1>9. /\ UNCHANGED <<file, stdin, stage, next, ret>> /\ todo' = Tail(todo)
  BY DEF PutPage
<1>10. LoadTypeOK'
  BY <1>8, <1>9 DEF LoadInv, LoadTypeOK
<1>11. InUserMemory'
  BY <1>2, <1>6 DEF LoadInv, InUserMemory
<1> QED
  BY <1>1, <1>7, <1>9, <1>10, <1>11 DEF LoadInv, PageOfWords, put

LEMMA NoMemoryInv == LoadInv /\ NoMemory => LoadInv'
<1> SUFFICES ASSUME LoadInv, NoMemory PROVE LoadInv'
  OBVIOUS
<1>1. LoadTypeOK'
  BY DEF LoadInv, LoadTypeOK, NoMemory, Fail
<1> QED
  BY <1>1, EmptySeq DEF LoadInv, InUserMemory, NoMemory, Fail

LEMMA NextAreaInv == LoadInv /\ NextArea => LoadInv'
<1> SUFFICES ASSUME LoadInv, NextArea PROVE LoadInv'
  OBVIOUS
<1> DEFINE area == Following(stage)
<1>1. stage \in {"segments", "header", "stdin", "stdout", "stack", "heap", "args"}
  BY DEF NextArea
<1>2. area \in Loading
  BY <1>1, FollowingArea
<1>3. stage' = area /\ todo' = AreaPages(area) /\ UNCHANGED <<file, stdin, space, next, ret>>
  BY DEF NextArea
<1> HIDE DEF area
<1>4. todo' \in Seq(Put)
  BY <1>2, <1>3, AreaInside DEF LoadInv, LoadTypeOK, Loading
<1>5. stage # "failed" /\ area # "failed"
  BY <1>1, <1>2 DEF Loading
<1>6. LoadTypeOK'
  BY <1>2, <1>3, <1>5, StageNames DEF LoadInv, LoadTypeOK
<1> QED
  BY <1>3, <1>4, <1>6 DEF LoadInv, InUserMemory

LEMMA NoStdinInv == LoadInv /\ NoStdin => LoadInv'
<1> SUFFICES ASSUME LoadInv, NoStdin PROVE LoadInv'
  OBVIOUS
<1>1. LoadTypeOK'
  BY DEF LoadInv, LoadTypeOK, NoStdin, Fail
<1> QED
  BY <1>1, EmptySeq DEF LoadInv, InUserMemory, NoStdin, Fail

LEMMA LoadNextInv == LoadInv /\ [LoadNext]_loadVars => LoadInv'
<1> SUFFICES ASSUME LoadInv, [LoadNext]_loadVars PROVE LoadInv'
  OBVIOUS
<1>1. CASE UNCHANGED loadVars
  BY <1>1 DEF loadVars, LoadInv, LoadTypeOK, InUserMemory
<1> QED
  BY <1>1, CheckHeaderInv, LoadSegmentInv, PutPageInv, NoMemoryInv, NextAreaInv, NoStdinInv DEF LoadNext

\* Of every program, whatever its headers say: what is mapped and what is still
\* to be mapped lies in user memory and holds only words that were fetched, the
\* arguments and zeros (load_elf, do_judge, map_and_copy).
THEOREM LoadInvariance == LoadSpec => []LoadInv
<1>1. LoadInit => LoadInv
  BY LoadInitInv
<1>2. LoadInv /\ [LoadNext]_loadVars => LoadInv'
  BY LoadNextInv
<1> QED
  BY <1>1, <1>2, PTL DEF LoadSpec

\* Nothing is mapped outside user memory, and nothing the buffer held before the
\* file was fetched gets into the program's memory.
THEOREM StaysContained == LoadSpec => []LoadContained
<1>1. LoadInv => LoadContained
  <2> SUFFICES ASSUME LoadInv PROVE LoadContained
    OBVIOUS
  <2>1. InUserMemory
    BY DEF LoadInv
  <2>2. ASSUME NEW v \in DOMAIN space, Stale \in Range(space[v].words)
        PROVE  FALSE
    <3>1. space[v].words \in [Offsets -> Words \cup {Zero}]
      BY DEF LoadInv
    <3>2. PICK i \in Offsets : space[v].words[i] = Stale
      BY <2>2, <3>1 DEF Range
    <3>3. Stale \in Words \cup {Zero}
      BY <3>1, <3>2
    <3> QED
      BY <3>3, FilesAssumption
  <2> QED
    BY <2>1, <2>2 DEF LoadContained, NoStaleWords
<1> QED
  BY <1>1, LoadInvariance, PTL

\* Every variable keeps its type; the error do_judge returns is set when and only
\* when loading has stopped.
THEOREM LoadTypeCorrect == LoadSpec => []LoadTypeOK
<1>1. LoadInv => LoadTypeOK
  BY DEF LoadInv
<1> QED
  BY <1>1, LoadInvariance, PTL

-----------------------------------------------------------------------------
(* The image of the program. *)

\* What lies where depends on the file and the input only.
LEMMA SameProgram ==
  ASSUME UNCHANGED <<file, stdin>>
  PROVE  /\ Loaded' = Loaded /\ KernelPlace' = KernelPlace /\ HeaderData' = HeaderData
         /\ StdinVa' = StdinVa /\ StdoutVa' = StdoutVa /\ StackVa' = StackVa /\ ArgsVa' = ArgsVa
         /\ \A k : /\ FilePlace(k)' = FilePlace(k) /\ MemPlace(k)' = MemPlace(k)
                   /\ SegmentData(k)' = SegmentData(k) /\ \A a : FileWord(k, a)' = FileWord(k, a)
<1>1. StdinVa' = StdinVa
  BY DEF StdinVa
<1>2. StdoutVa' = StdoutVa
  BY <1>1 DEF StdoutVa
<1>3. StackVa' = StackVa /\ ArgsVa' = ArgsVa
  BY <1>2 DEF StackVa, ArgsVa
<1>4. KernelPlace' = KernelPlace
  BY <1>1, <1>2 DEF KernelPlace
<1>5. \A i : FileAt(i)' = FileAt(i)
  BY DEF FileAt
<1>6. HeaderData' = HeaderData
  BY <1>5 DEF HeaderData, FilePart
<1>7. \A k : SegmentData(k)' = SegmentData(k)
  BY <1>5 DEF SegmentData, FilePart
<1>8. \A k, a : FileWord(k, a)' = FileWord(k, a)
  BY <1>5 DEF FileWord
<1>9. Loaded' = Loaded
  BY DEF Loaded
<1>10. \A k : FilePlace(k)' = FilePlace(k) /\ MemPlace(k)' = MemPlace(k)
  BY DEF FilePlace, MemPlace
<1> QED
  BY <1>1, <1>2, <1>3, <1>4, <1>6, <1>7, <1>9, <1>10, <1>8

\* A chunk stays in its page.
Fits(c) == c.data = << >> \/ c.off + Len(c.data) <= PageWords

\* The words at an address after a page has been mapped or a chunk copied into it.
WordsOf(c, a) ==
  \/ \E j \in 1 .. Len(c.data) : Place(c, j) = a /\ Holds(a, c.data[j])'
  \/ /\ \A j \in 1 .. Len(c.data) : Place(c, j) # a
     /\ (a \div PageWords) \in DOMAIN space => ProgramWord(a)' = ProgramWord(a)
     /\ (a \div PageWords) \in DOMAIN space' \ DOMAIN space => ProgramWord(a)' = Zero

LEMMA PutWord ==
  ASSUME LoadInv, PutPage, NEW put, put = Head(todo), NEW c, c = put.chunk, Fits(c)
  PROVE  /\ put \in Put /\ c.page \in Nat /\ c.off \in Nat /\ c.data \in Seq(Words)
         /\ DOMAIN space' = DOMAIN space \cup {c.page}
         /\ \A v \in DOMAIN space' :
              space'[v].flags = IF v \in DOMAIN space THEN space[v].flags ELSE put.flags
         /\ \A a \in Nat : WordsOf(c, a)
<1> DEFINE v == c.page
           old == IF v \in DOMAIN space THEN space[v] ELSE [flags |-> put.flags, words |-> ZeroPage]
           new == [flags |-> old.flags, words |-> Overwrite(old.words, c.off, c.data)]
<1>1. put \in Put
  BY HeadTailProperties DEF LoadInv, PutPage
<1>2. v \in UserPages /\ c.off \in Nat /\ c.data \in Seq(Words)
  BY <1>1 DEF Put
<1>3. v \in Nat
  BY <1>2, UserMemory
<1>4. space' = [w \in DOMAIN space \cup {v} |-> IF w = v THEN new ELSE space[w]]
  BY DEF PutPage, Memory!Put, Memory!Overwrite, Memory!ZeroPage, Memory!Offsets,
         Overwrite, ZeroPage, Offsets
<1>5. DOMAIN space' = DOMAIN space \cup {v}
  BY <1>4
<1>6. \A w \in DOMAIN space' : space'[w].flags = IF w \in DOMAIN space THEN space[w].flags ELSE put.flags
  BY <1>4
<1>7. ASSUME NEW a \in Nat PROVE WordsOf(c, a)
  <2>1. PICK q \in Nat, r \in Nat : q = a \div PageWords /\ r = a % PageWords /\ r \in Offsets
                                    /\ a = q * PageWords + r /\ q * PageWords \in Nat
    <3>1. /\ a \div PageWords \in Nat /\ a % PageWords \in Nat /\ a % PageWords < PageWords
          /\ a = (a \div PageWords) * PageWords + (a % PageWords)
      BY DivMod
    <3>2. a % PageWords \in Offsets
      BY <3>1, PageWordsAssumption DEF Offsets
    <3>3. (a \div PageWords) * PageWords \in Nat
      BY <3>1, PageStart
    <3> QED
      BY <3>1, <3>2, <3>3
  <2>2. ProgramWord(a)' = space'[q].words[r] /\ ProgramWord(a) = space[q].words[r]
    BY <2>1 DEF ProgramWord
  <2>3. DOMAIN c.data = 1 .. Len(c.data) /\ Len(c.data) \in Nat
    BY <1>2, LenProperties
  <2>4. ASSUME NEW j \in 1 .. Len(c.data), Place(c, j) = a
        PROVE  v = q /\ r = c.off + j - 1
    <3>1. c.off + j <= PageWords
      BY <1>2, <2>3, <2>4, PageWordsAssumption DEF Fits
    <3>2. a = v * PageWords + c.off + j - 1
      BY <2>4 DEF Place
    <3>3. j \in Nat /\ j >= 1
      BY <2>3, <2>4
    <3>4. PICK x \in Nat, off \in Nat : x = v /\ off = c.off
      BY <1>2, <1>3
    <3>5. off + j <= PageWords /\ a = x * PageWords + off + j - 1
      BY <3>1, <3>2, <3>4
    <3>6. a \div PageWords = x /\ a % PageWords = off + j - 1
      BY <3>3, <3>5, PlaceIn
    <3> QED
      BY <2>1, <3>4, <3>6
  <2>5. CASE v # q
    <3>1. \A j \in 1 .. Len(c.data) : Place(c, j) # a
      BY <2>4, <2>5
    <3>2. q \in DOMAIN space' => q \in DOMAIN space /\ space'[q] = space[q]
      BY <1>4, <2>5
    <3>3. q \in DOMAIN space => space'[q] = space[q]
      BY <1>4, <2>5
    <3> QED
      BY <2>1, <2>2, <3>1, <3>2, <3>3 DEF WordsOf
  <2>6. CASE v = q
    <3> DEFINE k == r - c.off + 1
    <3>1. q \in DOMAIN space' /\ space'[q].words[r] = IF k \in DOMAIN c.data THEN c.data[k] ELSE old.words[r]
      <4>1. space'[q] = new
        BY <1>4, <2>6
      <4>2. Overwrite(old.words, c.off, c.data)[r] = IF k \in DOMAIN c.data THEN c.data[k] ELSE old.words[r]
        BY <2>1 DEF Overwrite
      <4> QED
        BY <1>5, <2>6, <4>1, <4>2
    <3>2. CASE k \in 1 .. Len(c.data)
      <4>1. Place(c, k) = a
        BY <1>2, <2>1, <2>6 DEF Place
      <4>2. Holds(a, c.data[k])'
        BY <2>1, <2>2, <2>3, <3>1, <3>2 DEF Holds
      <4> QED
        BY <3>2, <4>1, <4>2 DEF WordsOf
    <3>3. CASE k \notin 1 .. Len(c.data)
      <4>1. ASSUME NEW j \in 1 .. Len(c.data), Place(c, j) = a PROVE FALSE
        <5>1. r = c.off + j - 1
          BY <2>4, <4>1
        <5>2. PICK off \in Nat : off = c.off
          BY <1>2
        <5>3. r - off + 1 = j
          BY <2>3, <5>1, <5>2
        <5> QED
          BY <3>3, <5>2, <5>3
      <4>2. ProgramWord(a)' = old.words[r]
        BY <2>2, <2>3, <3>1, <3>3
      <4>3. q \in DOMAIN space => old.words[r] = ProgramWord(a)
        BY <2>2, <2>6
      <4>4. q \notin DOMAIN space => old.words[r] = Zero
        BY <2>1, <2>6 DEF ZeroPage
      <4> QED
        BY <2>1, <4>1, <4>2, <4>3, <4>4 DEF WordsOf
    <3> QED
      BY <3>2, <3>3
  <2> QED
    BY <2>5, <2>6
<1> QED
  BY <1>1, <1>2, <1>3, <1>5, <1>6, <1>7

\* What is mapped, or is to be, in a sequence of puts.
LEMMA WithRange ==
  ASSUME NEW S, NEW chunks \in Seq(S), NEW flags
  PROVE  /\ \A put \in Range(With(flags, chunks)) : put.chunk \in Range(chunks) /\ put.flags = flags
         /\ \A c \in Range(chunks) : \E put \in Range(With(flags, chunks)) : put.chunk = c
<1>1. DOMAIN With(flags, chunks) = DOMAIN chunks
  BY DEF With
<1>2. \A i \in DOMAIN chunks : With(flags, chunks)[i] = [chunk |-> chunks[i], flags |-> flags]
  BY DEF With
<1> QED
  BY <1>1, <1>2 DEF Range

LEMMA FreshRange ==
  ASSUME NEW f \in Nat, NEW t \in Nat, f <= t
  PROVE  /\ Fresh(f * PageWords, t * PageWords) \in Seq(Pieces(f, t, Words))
         /\ \A c \in Range(Fresh(f * PageWords, t * PageWords)) : c.data = << >> /\ c.page \in f .. t - 1
         /\ \A q \in f .. t - 1 : \E c \in Range(Fresh(f * PageWords, t * PageWords)) : c.page = q
<1>1. Fresh(f * PageWords, t * PageWords) \in Seq(Pieces(f, t, Words))
  BY FreshInside
<1>2. (t * PageWords - f * PageWords) \div PageWords = t - f
  <2>1. t - f \in Nat
    OBVIOUS
  <2>2. (t - f) * PageWords = t * PageWords - f * PageWords
    BY PageOrder
  <2>3. ((t - f) * PageWords) \div PageWords = t - f
    BY <2>1, PageStart
  <2> QED
    BY <2>2, <2>3
<1>3. (f * PageWords) \div PageWords = f
  BY PageStart
<1> DEFINE s == Fresh(f * PageWords, t * PageWords)
<1>4. s = [k \in 1 .. t - f |-> Chunk(f + k - 1, 0, << >>)]
  BY <1>2, <1>3 DEF Fresh
<1>5. DOMAIN s = 1 .. t - f /\ \A k \in 1 .. t - f : s[k].data = << >> /\ s[k].page = f + k - 1
  BY <1>4 DEF Chunk
<1> HIDE DEF s
<1>6. ASSUME NEW q \in f .. t - 1 PROVE \E c \in Range(s) : c.page = q
  <2>1. q - f + 1 \in 1 .. t - f /\ f + (q - f + 1) - 1 = q
    OBVIOUS
  <2> QED
    BY <1>5, <2>1 DEF Range
<1>7. \A c \in Range(s) : c.data = << >> /\ c.page \in f .. t - 1
  BY <1>5 DEF Range
<1> QED
  BY <1>1, <1>6, <1>7 DEF s

\* The addresses of a chunk are in its page.
LEMMA PlaceOfChunk ==
  ASSUME NEW S, NEW c \in ChunkOf(S), NEW va, NEW data, HoldsOf(c, va, data),
         NEW j \in 1 .. Len(c.data)
  PROVE  Place(c, j) \in Nat /\ Place(c, j) \div PageWords = c.page
<1>1. PICK q \in Nat, off \in Nat : q = c.page /\ off = c.off
  BY DEF ChunkOf, Offsets
<1>2. Len(c.data) \in Nat /\ off + Len(c.data) <= PageWords
  BY <1>1, LenProperties DEF ChunkOf, HoldsOf
<1>3. j \in Nat /\ j >= 1 /\ off + j <= PageWords
  BY <1>1, <1>2, PageWordsAssumption
<1>4. Place(c, j) = q * PageWords + off + j - 1
  BY <1>1 DEF Place
<1>5. PICK a : a = Place(c, j)
  OBVIOUS
<1>6. a \in Nat /\ a \div PageWords = q
  BY <1>3, <1>4, <1>5, PlaceIn
<1> QED
  BY <1>1, <1>5, <1>6

\* The pages from the one an address is in to the first behind another.
LEMMA PagesOf ==
  ASSUME NEW a \in Nat, NEW b \in Nat, a < b
  PROVE  \E f \in Nat, t \in Nat :
           /\ Floor(a) = f * PageWords /\ Ceil(b) = t * PageWords /\ f <= t
           /\ \A x \in a .. b - 1 : x \div PageWords \in f .. t - 1
           /\ \A q \in f .. t - 1 : \E x \in a .. b - 1 : x \div PageWords = q
<1>1. PICK f \in Nat :
        /\ f = a \div PageWords /\ Floor(a) = f * PageWords
        /\ f * PageWords <= a /\ a < f * PageWords + PageWords
  BY FloorCeil
<1>2. PICK g \in Nat, t \in Nat :
        /\ g = b \div PageWords /\ Floor(b) = g * PageWords
        /\ g * PageWords <= b /\ Ceil(b) = t * PageWords /\ b <= t * PageWords
        /\ IF b = Floor(b) THEN t = g ELSE t = g + 1
  BY FloorCeil
<1>3. f * PageWords \in Nat /\ g * PageWords \in Nat /\ t * PageWords \in Nat /\ PageWords \in Nat
  BY PageStart, PageWordsAssumption
<1>4. f < t
  <2>1. f * PageWords < t * PageWords
    BY <1>1, <1>2, <1>3
  <2> QED
    BY <2>1, PageOrder
<1>5. (t - 1) * PageWords < b /\ (t - 1) * PageWords \in Nat
  <2>1. t - 1 \in Nat
    BY <1>4
  <2>2. (t - 1) * PageWords \in Nat /\ ((t - 1) + 1) * PageWords = (t - 1) * PageWords + PageWords
        /\ (t - 1) + 1 = t
    BY <2>1, PageStart, PageOrder
  <2>3. CASE b = Floor(b)
    BY <1>2, <1>3, <2>2, <2>3, PageWordsAssumption
  <2>4. CASE b # Floor(b)
    <3>1. t - 1 = g
      BY <1>2, <2>4
    <3>2. g * PageWords < b
      BY <1>2, <1>3, <2>4
    <3> QED
      BY <2>2, <3>1, <3>2
  <2> QED
    BY <2>3, <2>4
<1>6. ASSUME NEW x \in a .. b - 1 PROVE x \div PageWords \in f .. t - 1
  <2>1. x \in Nat
    OBVIOUS
  <2>2. PICK q \in Nat : q = x \div PageWords /\ q * PageWords <= x /\ x < q * PageWords + PageWords
    BY <2>1, FloorCeil
  <2>3. q * PageWords \in Nat /\ (q + 1) * PageWords = q * PageWords + PageWords
    BY PageStart, PageOrder
  <2>4. f * PageWords < (q + 1) * PageWords /\ q * PageWords < t * PageWords
    BY <1>1, <1>2, <1>3, <2>2, <2>3
  <2>5. f < q + 1 /\ q < t
    BY <2>4, PageOrder
  <2> QED
    BY <2>2, <2>5
<1>7. ASSUME NEW q \in f .. t - 1 PROVE \E x \in a .. b - 1 : x \div PageWords = q
  <2>1. CASE q = f
    BY <1>1, <2>1
  <2>2. CASE q # f
    <3>1. q \in Nat /\ f + 1 <= q /\ q <= t - 1
      BY <2>2
    <3>2. (f + 1) * PageWords <= q * PageWords /\ q * PageWords <= (t - 1) * PageWords
      BY <1>4, <3>1, PageOrder
    <3>3. (f + 1) * PageWords = f * PageWords + PageWords /\ q * PageWords \in Nat
      BY <3>1, PageStart, PageOrder
    <3>4. q * PageWords \in a .. b - 1
      BY <1>1, <1>3, <1>5, <3>2, <3>3
    <3>5. (q * PageWords) \div PageWords = q
      BY <3>1, PageStart
    <3> QED
      BY <3>4, <3>5
  <2> QED
    BY <2>1, <2>2
<1> QED
  BY <1>1, <1>2, <1>4, <1>6, <1>7

\* A range that is copied: each put brings its part of it, and together they
\* bring all of it.
CopiedArea(puts, flags, va, data) ==
  /\ \A put \in Range(puts) :
       /\ put.flags = flags /\ HoldsOf(put.chunk, va, data)
       /\ \E i \in 1 .. Len(data) : (va + i - 1) \div PageWords = put.chunk.page
  /\ \A i \in 1 .. Len(data) : Brings(puts, va + i - 1) /\ Maps(puts, (va + i - 1) \div PageWords)

LEMMA CopyBrings ==
  ASSUME NEW va \in Nat, NEW data \in Seq(Words), NEW flags
  PROVE  CopiedArea(With(flags, Chunks(va, data)), flags, va, data)
<1> DEFINE chunks == Chunks(va, data)
<1>1. /\ chunks \in Seq(ChunkOf(Words)) /\ \A c \in Range(chunks) : HoldsOf(c, va, data)
      /\ \A i \in 1 .. Len(data) : \E c \in Range(chunks) :
           \E j \in 1 .. Len(c.data) : Place(c, j) = va + i - 1
  BY ChunksExact
<1> HIDE DEF chunks
<1>2. PICK s : s = With(flags, chunks)
  OBVIOUS
<1>3. /\ \A put \in Range(s) : put.chunk \in Range(chunks) /\ put.flags = flags
      /\ \A c \in Range(chunks) : \E put \in Range(s) : put.chunk = c
  BY <1>1, <1>2, WithRange
<1>4. \A c \in Range(chunks) : c \in ChunkOf(Words)
  BY <1>1, ElementOfSeq, LenProperties DEF Range
<1>5. ASSUME NEW put \in Range(s)
      PROVE  \E i \in 1 .. Len(data) : (va + i - 1) \div PageWords = put.chunk.page
  <2>1. PICK c \in ChunkOf(Words) : c = put.chunk /\ HoldsOf(c, va, data)
    BY <1>1, <1>3, <1>4
  <2>2. Len(c.data) \in Nat /\ Len(c.data) # 0 /\ Place(c, 1) - va + 1 \in 1 .. Len(data)
    <3>1. Len(c.data) \in Nat
      BY LenProperties DEF ChunkOf
    <3> QED
      BY <2>1, <3>1 DEF HoldsOf
  <2>3. Place(c, 1) \in Nat /\ Place(c, 1) \div PageWords = c.page
    BY <2>1, <2>2, PlaceOfChunk
  <2>4. va + (Place(c, 1) - va + 1) - 1 = Place(c, 1)
    BY <2>3
  <2> QED
    BY <2>1, <2>2, <2>3, <2>4
<1>6. ASSUME NEW i \in 1 .. Len(data) PROVE Brings(s, va + i - 1) /\ Maps(s, (va + i - 1) \div PageWords)
  <2>1. PICK c \in Range(chunks) : \E j \in 1 .. Len(c.data) : Place(c, j) = va + i - 1
    BY <1>1
  <2>2. PICK j \in 1 .. Len(c.data) : Place(c, j) = va + i - 1
    BY <2>1
  <2>3. PICK put \in Range(s) : put.chunk = c
    BY <1>3
  <2>4. Place(c, j) \div PageWords = c.page
    BY <1>1, <1>4, <2>2, PlaceOfChunk
  <2> QED
    BY <2>2, <2>3, <2>4 DEF Brings, Maps
<1> QED
  <2>1. \A put \in Range(s) : put.flags = flags /\ HoldsOf(put.chunk, va, data)
    BY <1>1, <1>3
  <2>2. CopiedArea(s, flags, va, data)
    BY <2>1, <1>5, <1>6 DEF CopiedArea
  <2> QED
    BY <1>2, <2>2 DEF chunks

\* A range that is mapped.
LEMMA FreshBrings ==
  ASSUME NEW f \in Nat, NEW t \in Nat, f <= t, NEW flags,
         NEW s, s = With(flags, Fresh(f * PageWords, t * PageWords))
  PROVE  /\ \A put \in Range(s) : put.flags = flags /\ put.chunk.data = << >> /\ put.chunk.page \in f .. t - 1
         /\ \A q \in f .. t - 1 : Maps(s, q)
<1> DEFINE chunks == Fresh(f * PageWords, t * PageWords)
<1>1. /\ chunks \in Seq(Pieces(f, t, Words))
      /\ \A c \in Range(chunks) : c.data = << >> /\ c.page \in f .. t - 1
      /\ \A q \in f .. t - 1 : \E c \in Range(chunks) : c.page = q
  BY FreshRange
<1> HIDE DEF chunks
<1>2. s = With(flags, chunks)
  BY DEF chunks
<1>3. /\ \A put \in Range(s) : put.chunk \in Range(chunks) /\ put.flags = flags
      /\ \A c \in Range(chunks) : \E put \in Range(s) : put.chunk = c
  BY <1>1, <1>2, WithRange
<1> QED
  BY <1>1, <1>3 DEF Maps

\* A segment: its part of the file is copied, and all of it is mapped.
LEMMA SegmentBrings ==
  ASSUME file \in Files, NEW k \in DOMAIN file.phdrs, NEW p, p = file.phdrs[k], SegmentError(p) = "ok",
         NEW s, s = SegmentPages(p)
  PROVE  /\ p \in Phdr /\ p.vaddr \in Nat /\ p.filesz \in Nat /\ p.memsz \in Nat
         /\ SegmentData(k) \in Seq(Words) /\ Len(SegmentData(k)) = p.filesz
         /\ \A put \in Range(s) :
              /\ put.chunk.data = << >> \/ HoldsOf(put.chunk, p.vaddr, SegmentData(k))
              /\ \E a \in MemPlace(k) : a \div PageWords = put.chunk.page
         /\ \A i \in 1 .. p.filesz : Brings(s, p.vaddr + i - 1)
         /\ \A a \in p.vaddr .. p.vaddr + p.memsz - 1 : Maps(s, a \div PageWords)
<1>1. p \in Phdr
  BY FilesAssumption, ElementOfSeq, LenProperties
<1>2. PICK va \in Nat, n \in Nat, m \in Nat, data \in Seq(Words) :
        /\ va = p.vaddr /\ n = p.filesz /\ m = p.memsz /\ n <= m
        /\ data = FilePart(p.offset, p.filesz) /\ Len(data) = n
  BY <1>1, SegmentFacts
<1>3. PICK flags, part, bss :
        /\ flags = SegmentFlags(p) /\ part = With(flags, Chunks(va, data)) /\ bss = With(flags, Bss(p))
  OBVIOUS
<1>4. n <= m /\ Len(data) = n
  BY <1>2
<1>5. SegmentData(k) = data /\ MemPlace(k) = va .. va + m - 1
  BY <1>2 DEF SegmentData, MemPlace
<1>6. Chunks(va, data) \in Seq(ChunkOf(Words))
  BY ChunksExact
<1>7. /\ Bss(p) \in Seq([page : Nat, off : Nat, data : Seq(Words)])
      /\ \A put \in Range(bss) :
           put.chunk.data = << >> /\ \E a \in va .. va + m - 1 : a \div PageWords = put.chunk.page
      /\ \A a \in va + n .. va + m - 1 : Maps(bss, a \div PageWords)
  <2>1. CASE ~ n < m
    <3>1. Bss(p) = << >>
      BY <1>2, <2>1 DEF Bss
    <3>2. Range(bss) = {}
      BY <1>3, <3>1 DEF With, Range
    <3>3. n = m
      BY <1>2, <2>1
    <3>4. va + n .. va + m - 1 = {}
      BY <3>3
    <3> QED
      BY <3>1, <3>2, <3>4, EmptySeq
  <2>2. CASE n < m
    <3>1. PICK a \in Nat, b \in Nat : a = va + n /\ b = va + m /\ a < b
      BY <2>2
    <3>2. a < b
      BY <3>1
    <3>3. PICK f \in Nat, t \in Nat :
           /\ Floor(a) = f * PageWords /\ Ceil(b) = t * PageWords /\ f <= t
           /\ \A x \in a .. b - 1 : x \div PageWords \in f .. t - 1
           /\ \A q \in f .. t - 1 : \E x \in a .. b - 1 : x \div PageWords = q
      BY <3>2, PagesOf, ZenonT(60)
    <3>4. Bss(p) = Fresh(f * PageWords, t * PageWords)
      <4>1. Bss(p) = Fresh(Floor(va + n), Ceil(va + m))
        BY <1>2, <2>2 DEF Bss
      <4> QED
        BY <3>1, <3>3, <4>1
    <3>5. bss = With(flags, Fresh(f * PageWords, t * PageWords))
      BY <1>3, <3>4
    <3>6. /\ \A put \in Range(bss) : put.chunk.data = << >> /\ put.chunk.page \in f .. t - 1
          /\ \A q \in f .. t - 1 : Maps(bss, q)
      BY <3>3, <3>5, FreshBrings
    <3>7. Bss(p) \in Seq(Pieces(f, t, Words))
      BY <3>3, <3>4, FreshInside
    <3>8. Bss(p) \in Seq([page : Nat, off : Nat, data : Seq(Words)])
      <4> DEFINE P == Pieces(f, t, Words)
                 Q == [page : Nat, off : Nat, data : Seq(Words)]
                 rest == Bss(p)
      <4>1. \A x \in P : x \in Q
        BY DEF Pieces
      <4>2. rest \in Seq(P)
        BY <3>7
      <4> HIDE DEF P, Q, rest
      <4>3. rest \in Seq(Q)
        BY <4>1, <4>2
      <4> QED
        BY <4>3 DEF rest, Q
    <3>9. a .. b - 1 \subseteq va .. va + m - 1 /\ a .. b - 1 = va + n .. va + m - 1
      BY <1>4, <3>1
    <3>10. \A put \in Range(bss) : \E x \in va .. va + m - 1 : x \div PageWords = put.chunk.page
      BY <3>3, <3>6, <3>9
    <3>11. \A x \in a .. b - 1 : Maps(bss, x \div PageWords)
      BY <3>3, <3>6
    <3> QED
      BY <3>6, <3>8, <3>9, <3>10, <3>11
  <2> QED
    BY <2>1, <2>2
<1>8. /\ \A put \in Range(part) :
           /\ HoldsOf(put.chunk, va, data)
           /\ \E i \in 1 .. Len(data) : (va + i - 1) \div PageWords = put.chunk.page
      /\ \A i \in 1 .. Len(data) : Brings(part, va + i - 1) /\ Maps(part, (va + i - 1) \div PageWords)
  <2>1. part = With(flags, Chunks(va, data))
    BY <1>3
  <2>2. CopiedArea(part, flags, va, data)
    BY <2>1, CopyBrings
  <2> QED
    BY <2>2 DEF CopiedArea
<1>9. Range(s) = Range(part) \cup Range(bss)
  <2> DEFINE c == Chunks(va, data)
             rest == Bss(p)
             Q == [page : Nat, off : Nat, data : Seq(Words)]
  <2>1. s = With(flags, c \o rest)
    BY <1>2, <1>3 DEF SegmentPages
  <2>2. \A x \in ChunkOf(Words) : x \in Q
    BY PageWordsAssumption DEF ChunkOf, Offsets
  <2>3. c \in Seq(ChunkOf(Words)) /\ rest \in Seq(Q)
    BY <1>6, <1>7
  <2>4. part = With(flags, c) /\ bss = With(flags, rest)
    BY <1>3
  <2> HIDE DEF c, rest, Q
  <2>5. c \in Seq(Q)
    BY <2>2, <2>3
  <2>6. c \o rest \in Seq(Q) /\ Len(c) \in Nat /\ Len(rest) \in Nat /\ Len(c \o rest) = Len(c) + Len(rest)
        /\ \A i \in 1 .. Len(c) + Len(rest) : (c \o rest)[i] = IF i <= Len(c) THEN c[i] ELSE rest[i - Len(c)]
    BY <2>3, <2>5, ConcatProperties, LenProperties
  <2>7. /\ DOMAIN s = 1 .. Len(c) + Len(rest) /\ DOMAIN part = 1 .. Len(c) /\ DOMAIN bss = 1 .. Len(rest)
        /\ \A i \in 1 .. Len(c) + Len(rest) : s[i] = [chunk |-> (c \o rest)[i], flags |-> flags]
        /\ \A i \in 1 .. Len(c) : part[i] = [chunk |-> c[i], flags |-> flags]
        /\ \A i \in 1 .. Len(rest) : bss[i] = [chunk |-> rest[i], flags |-> flags]
    BY <2>1, <2>3, <2>4, <2>5, <2>6, LenProperties DEF With
  <2>8. \A i \in 1 .. Len(c) + Len(rest) : s[i] \in Range(part) \cup Range(bss)
    <3> SUFFICES ASSUME NEW i \in 1 .. Len(c) + Len(rest) PROVE s[i] \in Range(part) \cup Range(bss)
      OBVIOUS
    <3>1. CASE i <= Len(c)
      <4>1. i \in 1 .. Len(c) /\ s[i] = part[i]
        BY <2>6, <2>7, <3>1
      <4> QED
        BY <2>7, <4>1 DEF Range
    <3>2. CASE ~ i <= Len(c)
      <4>1. PICK j \in 1 .. Len(rest) : j = i - Len(c)
        BY <2>6, <3>2
      <4>2. s[i] = bss[j]
        BY <2>6, <2>7, <3>2, <4>1
      <4> QED
        BY <2>7, <4>2 DEF Range
    <3> QED
      BY <3>1, <3>2
  <2>9. \A i \in 1 .. Len(c) : part[i] \in Range(s)
    <3> SUFFICES ASSUME NEW i \in 1 .. Len(c) PROVE part[i] \in Range(s)
      OBVIOUS
    <3>1. i \in 1 .. Len(c) + Len(rest) /\ s[i] = part[i]
      BY <2>6, <2>7
    <3> QED
      BY <2>7, <3>1 DEF Range
  <2>10. \A i \in 1 .. Len(rest) : bss[i] \in Range(s)
    <3> SUFFICES ASSUME NEW i \in 1 .. Len(rest) PROVE bss[i] \in Range(s)
      OBVIOUS
    <3>1. i + Len(c) \in 1 .. Len(c) + Len(rest) /\ s[i + Len(c)] = bss[i]
      BY <2>6, <2>7
    <3> QED
      BY <2>7, <3>1 DEF Range
  <2>11. \A x \in Range(s) : x \in Range(part) \cup Range(bss)
    BY <2>7, <2>8 DEF Range
  <2>12. \A x \in Range(part) : x \in Range(s)
    BY <2>7, <2>9 DEF Range
  <2>13. \A x \in Range(bss) : x \in Range(s)
    BY <2>7, <2>10 DEF Range
  <2> QED
    BY <2>11, <2>12, <2>13
<1>10. ASSUME NEW put \in Range(s)
      PROVE  /\ put.chunk.data = << >> \/ HoldsOf(put.chunk, va, data)
             /\ \E a \in va .. va + m - 1 : a \div PageWords = put.chunk.page
  <2>1. CASE put \in Range(part)
    <3>1. PICK i \in 1 .. Len(data) : (va + i - 1) \div PageWords = put.chunk.page
      BY <1>8, <2>1
    <3>2. va + i - 1 \in va .. va + m - 1
      BY <1>4
    <3> QED
      BY <1>8, <2>1, <3>1, <3>2
  <2>2. CASE put \in Range(bss)
    BY <1>7, <2>2
  <2> QED
    BY <1>9, <2>1, <2>2
<1>11. ASSUME NEW a \in va .. va + m - 1 PROVE Maps(s, a \div PageWords)
  <2>1. CASE a < va + n
    <3>1. PICK i \in 1 .. Len(data) : a = va + i - 1
      <4>1. a - va + 1 \in 1 .. Len(data) /\ va + (a - va + 1) - 1 = a
        BY <1>4, <2>1
      <4> QED
        BY <4>1
    <3>2. Maps(part, a \div PageWords)
      BY <1>8, <3>1
    <3> QED
      BY <1>9, <3>2 DEF Maps
  <2>2. CASE ~ a < va + n
    <3>1. a \in va + n .. va + m - 1
      BY <1>2, <2>2
    <3> QED
      BY <1>7, <1>9, <3>1 DEF Maps
  <2> QED
    BY <2>1, <2>2
<1>12. \A i \in 1 .. n : Brings(s, va + i - 1)
  BY <1>8, <1>9, <1>4 DEF Brings
<1> QED
  BY <1>1, <1>2, <1>5, <1>10, <1>11, <1>12

\* Every address is a page and an offset in it.
LEMMA WordPlace ==
  ASSUME NEW v \in Nat, NEW i \in Offsets
  PROVE  /\ v * PageWords + i \in Nat
         /\ (v * PageWords + i) \div PageWords = v /\ (v * PageWords + i) % PageWords = i
<1>1. i \in Nat /\ i < PageWords
  BY PageWordsAssumption DEF Offsets
<1>2. 0 + (i + 1) <= PageWords /\ v * PageWords + i = v * PageWords + 0 + (i + 1) - 1
  <2>1. v * PageWords \in Nat /\ PageWords \in Nat
    BY PageStart, PageWordsAssumption
  <2> QED
    BY <1>1, <2>1
<1>3. i + 1 \in Nat /\ i + 1 >= 1 /\ 0 \in Nat /\ 0 + (i + 1) - 1 = i
  BY <1>1
<1> QED
  BY <1>2, <1>3, PlaceIn

\* What is to come and what is mapped after a page has been put.
LEMMA PutComing ==
  ASSUME LoadInv, PutPage, NEW put, put = Head(todo)
  PROVE  /\ put \in Range(todo)
         /\ \A x \in Range(todo') : x \in Range(todo)
         /\ \A a : Brings(todo, a) =>
              Brings(todo', a) \/ \E j \in 1 .. Len(put.chunk.data) : Place(put.chunk, j) = a
         /\ \A v : Maps(todo, v) => Maps(todo', v) \/ v = put.chunk.page
<1>1. todo \in Seq(Put) /\ todo # << >> /\ todo' = Tail(todo)
  BY DEF LoadInv, PutPage
<1>2. PICK n \in Nat : n = Len(todo) /\ n >= 1 /\ DOMAIN todo = 1 .. n /\ DOMAIN todo' = 1 .. n - 1
                       /\ put = todo[1] /\ \A i \in 1 .. n - 1 : todo'[i] = todo[i + 1]
  <2>1. Len(todo) \in Nat /\ Len(todo) # 0 /\ DOMAIN todo = 1 .. Len(todo) /\ Head(todo) = todo[1]
    BY <1>1, LenProperties, EmptySeq
  <2>2. /\ Tail(todo) \in Seq(Put) /\ Len(Tail(todo)) = Len(todo) - 1
        /\ \A i \in 1 .. Len(Tail(todo)) : Tail(todo)[i] = todo[i + 1]
    BY <1>1, HeadTailProperties
  <2>3. DOMAIN Tail(todo) = 1 .. Len(todo) - 1
    BY <2>2, LenProperties
  <2>4. PICK n \in Nat : n = Len(todo)
    BY <2>1
  <2>5. n >= 1 /\ DOMAIN todo = 1 .. n /\ put = todo[1]
    BY <2>1, <2>4
  <2>6. DOMAIN todo' = 1 .. n - 1
    BY <1>1, <2>3, <2>4
  <2>7. \A i \in 1 .. n - 1 : todo'[i] = todo[i + 1]
    BY <1>1, <2>2, <2>4
  <2> QED
    BY <2>4, <2>5, <2>6, <2>7
<1>3. put \in Range(todo)
  BY <1>2 DEF Range
<1>4. ASSUME NEW x \in Range(todo') PROVE x \in Range(todo)
  <2>1. PICK i \in 1 .. n - 1 : todo'[i] = x
    BY <1>2 DEF Range
  <2>2. i + 1 \in 1 .. n /\ todo[i + 1] = x
    BY <1>2, <2>1
  <2> QED
    BY <1>2, <2>2 DEF Range
<1>5. ASSUME NEW x \in Range(todo) PROVE x = put \/ x \in Range(todo')
  <2>1. PICK i \in 1 .. n : todo[i] = x
    BY <1>2 DEF Range
  <2>2. CASE i = 1
    BY <1>2, <2>1, <2>2
  <2>3. CASE i # 1
    <3>1. i - 1 \in 1 .. n - 1 /\ (i - 1) + 1 = i
      BY <2>3
    <3> QED
      BY <1>2, <2>1, <3>1 DEF Range
  <2> QED
    BY <2>2, <2>3
<1>6. \A a : Brings(todo, a) =>
        Brings(todo', a) \/ \E j \in 1 .. Len(put.chunk.data) : Place(put.chunk, j) = a
  BY <1>5 DEF Brings
<1>7. \A v : Maps(todo, v) => Maps(todo', v) \/ v = put.chunk.page
  BY <1>5 DEF Maps
<1> QED
  BY <1>3, <1>4, <1>6, <1>7

\* Copying a chunk keeps every word in place, unless it belongs to another range
\* and lies on top.
LEMMA WordKept ==
  ASSUME LoadInv, PutPage, NEW put, put = Head(todo), Fits(put.chunk),
         NEW a \in Nat, NEW word, Brings(todo, a) \/ Holds(a, word),
         \A j \in 1 .. Len(put.chunk.data) : Place(put.chunk, j) = a => put.chunk.data[j] = word
  PROVE  Brings(todo, a)' \/ Holds(a, word)'
<1> DEFINE c == put.chunk
<1>1. WordsOf(c, a) /\ DOMAIN space' = DOMAIN space \cup {c.page}
  BY PutWord
<1>2. CASE \E j \in 1 .. Len(c.data) : Place(c, j) = a
  <2>1. \E j \in 1 .. Len(c.data) : Place(c, j) = a /\ Holds(a, c.data[j])'
    BY <1>1, <1>2 DEF WordsOf
  <2> QED
    BY <2>1
<1>3. CASE \A j \in 1 .. Len(c.data) : Place(c, j) # a
  <2>1. Brings(todo, a) => Brings(todo', a)
    BY <1>3, PutComing
  <2>2. Holds(a, word) => Holds(a, word)'
    BY <1>1, <1>3 DEF WordsOf, Holds
  <2> QED
    BY <2>1, <2>2
<1> QED
  BY <1>2, <1>3

\* So a range stays in place.
LEMMA RangeKept ==
  ASSUME LoadInv, PutPage, NEW put, put = Head(todo), Fits(put.chunk),
         NEW va \in Nat, NEW data \in Seq(Words), InPlace(va, data),
         \A j \in 1 .. Len(put.chunk.data) : \A i \in 1 .. Len(data) :
           Place(put.chunk, j) = va + i - 1 => put.chunk.data[j] = data[i]
  PROVE  InPlace(va, data)'
<1> SUFFICES ASSUME NEW i \in 1 .. Len(data)
             PROVE  Brings(todo, va + i - 1)' \/ Holds(va + i - 1, data[i])'
  BY DEF InPlace
<1>1. PICK a \in Nat : a = va + i - 1
  BY LenProperties
<1>2. Brings(todo, a) \/ Holds(a, data[i])
  BY <1>1 DEF InPlace
<1>3. \A j \in 1 .. Len(put.chunk.data) : Place(put.chunk, j) = a => put.chunk.data[j] = data[i]
  BY <1>1
<1>4. Brings(todo, a)' \/ Holds(a, data[i])'
  BY <1>2, <1>3, WordKept
<1> QED
  BY <1>1, <1>4

\* What was mapped or was to be stays so.
LEMMA MappedKept ==
  ASSUME LoadInv, PutPage, NEW put, put = Head(todo), Fits(put.chunk),
         NEW a, Reached(a)
  PROVE  Reached(a)'
<1>1. DOMAIN space' = DOMAIN space \cup {put.chunk.page}
  BY PutWord
<1>2. \A v : Maps(todo, v) => Maps(todo', v) \/ v = put.chunk.page
  BY PutComing
<1> QED
  BY <1>1, <1>2 DEF Reached

\* A program header and the part of the file it names.
LEMMA HeaderFacts ==
  ASSUME LoadInv, NEW k \in Loaded
  PROVE  /\ k \in Nat /\ k >= 1 /\ k \in DOMAIN file.phdrs /\ file.phdrs[k] \in Phdr
         /\ file.phdrs[k].vaddr \in Nat /\ file.phdrs[k].filesz \in Nat /\ file.phdrs[k].memsz \in Nat
         /\ Len(SegmentData(k)) = file.phdrs[k].filesz
         /\ \A a \in FilePlace(k) : /\ a \in Nat /\ a - file.phdrs[k].vaddr + 1 \in 1 .. file.phdrs[k].filesz
                                    /\ SegmentData(k)[a - file.phdrs[k].vaddr + 1] = FileWord(k, a)
<1>1. file.phdrs \in Seq(Phdr) /\ DOMAIN file.phdrs = 1 .. Len(file.phdrs) /\ Len(file.phdrs) \in Nat
  BY FilesAssumption, LenProperties DEF LoadInv, LoadTypeOK
<1>2. k \in 1 .. Len(file.phdrs) /\ file.phdrs[k] \in Phdr
  BY <1>1, ElementOfSeq DEF Loaded
<1>3. /\ file.phdrs[k].vaddr \in Nat /\ file.phdrs[k].filesz \in Nat /\ file.phdrs[k].memsz \in Nat
      /\ file.phdrs[k].offset \in Nat
  <2>1. /\ file.phdrs[k].vaddr \in Size /\ file.phdrs[k].filesz \in Size /\ file.phdrs[k].memsz \in Size
        /\ file.phdrs[k].offset \in Size
    BY <1>2 DEF Phdr
  <2> QED
    BY <2>1, LoaderAssumption DEF Size
<1> DEFINE n == file.phdrs[k].filesz
           data == SegmentData(k)
<1>4. DOMAIN data = 1 .. n
  BY DEF SegmentData, FilePart
<1>5. data \in Seq({data[i] : i \in 1 .. n})
  <2>1. data = [i \in 1 .. n |-> data[i]]
    BY DEF SegmentData, FilePart
  <2> HIDE DEF data, n
  <2>2. data \in [1 .. n -> {data[i] : i \in 1 .. n}]
    BY <2>1
  <2>3. n \in Nat
    BY <1>3 DEF n
  <2> QED
    BY <2>2, <2>3
<1>6. Len(data) = n
  <2> HIDE DEF data, n
  <2>1. Len(data) \in Nat /\ DOMAIN data = 1 .. Len(data)
    BY <1>5, LenProperties
  <2>2. n \in Nat
    BY <1>3 DEF n
  <2> QED
    BY <1>4, <2>1, <2>2
<1>7. ASSUME NEW a \in FilePlace(k)
      PROVE  /\ a \in Nat /\ a - file.phdrs[k].vaddr + 1 \in 1 .. n
             /\ data[a - file.phdrs[k].vaddr + 1] = FileWord(k, a)
  <2>1. PICK va \in Nat, l \in Nat, off \in Nat :
          va = file.phdrs[k].vaddr /\ l = n /\ off = file.phdrs[k].offset
    BY <1>3
  <2>2. a \in va .. va + l - 1
    BY <2>1 DEF FilePlace
  <2>3. a \in Nat /\ a - va + 1 \in 1 .. l /\ off + (a - va + 1) - 1 = off + a - va
    BY <2>2
  <2>4. data[a - va + 1] = FileAt(off + (a - va + 1) - 1)
    BY <2>1, <2>3 DEF SegmentData, FilePart
  <2> QED
    BY <2>1, <2>3, <2>4 DEF FileWord
<1> QED
  BY <1>1, <1>2, <1>3, <1>6, <1>7

\* The ranges the daemon writes to, one above the other.
LEMMA DataPlaces ==
  ASSUME LoadInv
  PROVE  /\ HeaderVa \in Nat /\ StdinVa \in Nat /\ StdoutVa \in Nat /\ ArgsVa \in Nat
         /\ HeaderData \in Seq(Words) /\ stdin \in Seq(Words) /\ Args \in Seq(Words)
         /\ Len(HeaderData) = Min({PageWords, Len(file.words)})
         /\ ArgsVa + Len(Args) = StdoutVa /\ StdoutVa <= StdinVa /\ StdinVa + Len(stdin) <= HeaderVa
         /\ HeaderVa + Len(HeaderData) <= UserTop
<1>1. PICK lo \in Nat, hi \in Nat, in \in Nat, out \in Nat, stack \in Nat, heap \in Nat, brk \in Nat :
           /\ UserBottom = lo * PageWords /\ UserTop = hi * PageWords /\ UserPages = lo .. hi - 1
           /\ HeaderVa = (hi - 1) * PageWords /\ StdinVa = in * PageWords
           /\ StdinVa + Len(stdin) <= HeaderVa
           /\ StdoutVa = out * PageWords /\ StdoutVa + StdoutWords = in * PageWords
           /\ StackVa = stack * PageWords /\ StackVa + StackWords = out * PageWords
           /\ HeapBase = heap * PageWords /\ HeapBase + HeapWords = brk * PageWords
           /\ lo <= heap /\ heap <= brk /\ brk <= stack /\ stack <= out /\ out <= in /\ in <= hi - 1
           /\ StackVa <= StdoutVa - Len(Args)
  BY AreaPlaces DEF LoadInv, LoadTypeOK
<1>2. hi - 1 \in Nat
  BY <1>1
<1>3. HeaderVa \in Nat /\ StdinVa \in Nat /\ StdoutVa \in Nat /\ StackVa \in Nat
  BY <1>1, <1>2, PageStart
<1>4. StdoutVa <= StdinVa
  BY <1>1, <1>3, PageOrder
<1>5. Len(stdin) \in Nat /\ Len(Args) \in Nat /\ Len(file.words) \in Nat /\ PageWords \in Nat
      /\ stdin \in Seq(Words) /\ Args \in Seq(Words)
  BY FilesAssumption, LenProperties, PageWordsAssumption DEF LoadInv, LoadTypeOK
<1>6. ArgsVa \in Nat /\ ArgsVa + Len(Args) = StdoutVa
  <2>1. StackVa <= StdoutVa - Len(Args) /\ ArgsVa = StdoutVa - Len(Args)
    BY <1>1 DEF ArgsVa
  <2> QED
    BY <1>3, <1>5, <2>1
<1> DEFINE n == Min({PageWords, Len(file.words)})
<1>7. n \in Nat /\ n <= PageWords /\ n <= Len(file.words)
  BY <1>5 DEF Min
<1>8. HeaderData = FilePart(0, n)
  BY DEF HeaderData
<1> HIDE DEF n
<1>9. HeaderData \in Seq(Words) /\ Len(HeaderData) = n
  BY <1>5, <1>7, <1>8, FilePartOK DEF LoadInv, LoadTypeOK
<1>10. HeaderVa + Len(HeaderData) <= UserTop
  <2>1. HeaderVa = UserTop - PageWords /\ UserTop \in Nat
    BY LoaderAssumption DEF HeaderVa
  <2> QED
    BY <1>5, <1>7, <1>9, <2>1
<1> QED
  BY <1>1, <1>3, <1>4, <1>5, <1>6, <1>9, <1>10 DEF n

\* What is copied belongs to the segment or area that is being loaded.
Copied(a, word, va, data) == a - va + 1 \in 1 .. Len(data) /\ word = data[a - va + 1]
LEMMA CopiedWhere ==
  ASSUME LoadInv, ComingOK, NEW put \in Range(todo), NEW c, c = put.chunk
  PROVE  /\ Fits(c)
         /\ \A j \in 1 .. Len(c.data) :
              \/ /\ stage = "segments" /\ next - 1 \in Loaded
                 /\ Copied(Place(c, j), c.data[j], file.phdrs[next - 1].vaddr, SegmentData(next - 1))
              \/ stage = "header" /\ Copied(Place(c, j), c.data[j], HeaderVa, HeaderData)
              \/ stage = "stdin" /\ Copied(Place(c, j), c.data[j], StdinVa, stdin)
              \/ stage = "args" /\ Copied(Place(c, j), c.data[j], ArgsVa, Args)
<1>1. Belonging(c) /\ (stage = "segments" => next - 1 \in Loaded)
  BY DEF ComingOK
<1>2. CASE c.data = << >>
  <2>1. Len(c.data) = 0
    BY <1>2
  <2> QED
    BY <1>2, <2>1 DEF Fits
<1>3. CASE stage = "segments" /\ HoldsOf(c, file.phdrs[next - 1].vaddr, SegmentData(next - 1))
  BY <1>1, <1>3 DEF HoldsOf, Fits, Copied
<1>4. CASE stage = "header" /\ HoldsOf(c, HeaderVa, HeaderData)
  BY <1>4 DEF HoldsOf, Fits, Copied
<1>5. CASE stage = "stdin" /\ HoldsOf(c, StdinVa, stdin)
  BY <1>5 DEF HoldsOf, Fits, Copied
<1>6. CASE stage = "args" /\ HoldsOf(c, ArgsVa, Args)
  BY <1>6 DEF HoldsOf, Fits, Copied
<1> QED
  BY <1>1, <1>2, <1>3, <1>4, <1>5, <1>6 DEF Belonging

\* What a step that leaves the program alone leaves alone.
LEMMA BelongingKept ==
  ASSUME UNCHANGED <<file, stdin, stage, next>>, NEW c
  PROVE  Belonging(c)' <=> Belonging(c)
<1>1. /\ HeaderData' = HeaderData /\ StdinVa' = StdinVa /\ ArgsVa' = ArgsVa
      /\ SegmentData(next - 1)' = SegmentData(next - 1)
  <2>1. /\ HeaderData' = HeaderData /\ StdinVa' = StdinVa /\ ArgsVa' = ArgsVa
        /\ \A k : SegmentData(k)' = SegmentData(k)
    BY SameProgram
  <2>2. SegmentData(next - 1)' = FilePart(file.phdrs[next - 1].offset, file.phdrs[next - 1].filesz)'
    BY DEF SegmentData
  <2>3. \A i : FileAt(i)' = FileAt(i)
    BY DEF FileAt
  <2>4. SegmentData(next - 1)' = SegmentData(next - 1)
    BY <2>2, <2>3 DEF SegmentData, FilePart
  <2> QED
    BY <2>1, <2>4
<1> QED
  BY <1>1 DEF Belonging

\* Putting a page keeps what is to come in the area that is loaded, ...
LEMMA PutComingOK ==
  ASSUME LoadInv, ComingOK, PutPage
  PROVE  ComingOK'
<1>1. UNCHANGED <<file, stdin, stage, next>>
  BY DEF PutPage
<1>2. \A x \in Range(todo') : x \in Range(todo)
  BY PutComing
<1>3. \A c : Belonging(c)' <=> Belonging(c)
  BY <1>1, BelongingKept
<1>4. Loaded' = Loaded /\ StdinVa' = StdinVa /\ MemPlace(next - 1)' = MemPlace(next - 1)
  BY <1>1, SameProgram DEF MemPlace
<1> QED
  BY <1>1, <1>2, <1>3, <1>4 DEF ComingOK

\* ... the segments in place under the later ones, ...
LEMMA PutSegmentsOK ==
  ASSUME LoadInv, ComingOK, SegmentsOK, PutPage
  PROVE  SegmentsOK'
<1> DEFINE put == Head(todo)
           c == put.chunk
<1>1. UNCHANGED <<file, stdin, stage, next>>
  BY DEF PutPage
<1>2. /\ Loaded' = Loaded /\ KernelPlace' = KernelPlace
      /\ \A k : /\ FilePlace(k)' = FilePlace(k) /\ MemPlace(k)' = MemPlace(k)
                /\ \A a : FileWord(k, a)' = FileWord(k, a)
  BY <1>1, SameProgram
<1>3. Seen' = Seen /\ Seen \subseteq Loaded
  BY <1>1, <1>2 DEF Seen
<1>4. put \in Range(todo)
  BY PutComing
<1>5. /\ Fits(c)
      /\ \A j \in 1 .. Len(c.data) :
           \/ /\ stage = "segments" /\ next - 1 \in Loaded
              /\ Copied(Place(c, j), c.data[j], file.phdrs[next - 1].vaddr, SegmentData(next - 1))
           \/ stage = "header" /\ Copied(Place(c, j), c.data[j], HeaderVa, HeaderData)
           \/ stage = "stdin" /\ Copied(Place(c, j), c.data[j], StdinVa, stdin)
           \/ stage = "args" /\ Copied(Place(c, j), c.data[j], ArgsVa, Args)
  BY <1>4, CopiedWhere
<1>6. DOMAIN space' = DOMAIN space \cup {c.page} /\ \A a \in Nat : WordsOf(c, a)
  BY <1>5, PutWord
<1> HIDE DEF c, put
\* where a word is copied to
<1>7. ASSUME NEW a \in Nat, a \notin KernelPlace, NEW j \in 1 .. Len(c.data), Place(c, j) = a
      PROVE  /\ next - 1 \in Seen /\ a \in FilePlace(next - 1)
             /\ c.data[j] = FileWord(next - 1, a)
  <2>1. /\ stage = "segments" /\ next - 1 \in Loaded
        /\ Copied(Place(c, j), c.data[j], file.phdrs[next - 1].vaddr, SegmentData(next - 1))
    <3>1. /\ HeaderVa \in Nat /\ StdinVa \in Nat /\ StdoutVa \in Nat /\ ArgsVa \in Nat
          /\ Len(HeaderData) \in Nat /\ Len(stdin) \in Nat /\ Len(Args) \in Nat
          /\ ArgsVa + Len(Args) = StdoutVa /\ HeaderVa + Len(HeaderData) <= UserTop /\ UserTop \in Nat
      BY DataPlaces, LenProperties, LoaderAssumption
    <3>2. ArgsVa = StdoutVa - Len(Args)
      BY DEF ArgsVa
    <3>3. ~ Copied(a, c.data[j], HeaderVa, HeaderData)
      <4>1. a - HeaderVa + 1 \in 1 .. Len(HeaderData) => a \in HeaderVa .. UserTop - 1
        BY <3>1
      <4> QED
        BY <1>7, <4>1 DEF Copied, KernelPlace
    <3>4. ~ Copied(a, c.data[j], StdinVa, stdin)
      <4>1. a - StdinVa + 1 \in 1 .. Len(stdin) => a \in StdinVa .. StdinVa + Len(stdin) - 1
        BY <3>1
      <4> QED
        BY <1>7, <4>1 DEF Copied, KernelPlace
    <3>5. ~ Copied(a, c.data[j], ArgsVa, Args)
      <4>1. a - ArgsVa + 1 \in 1 .. Len(Args) => a \in ArgsVa .. StdoutVa - 1
        BY <3>1
      <4> QED
        BY <1>7, <3>2, <4>1 DEF Copied, KernelPlace
    <3> QED
      BY <1>5, <1>7, <3>3, <3>4, <3>5
  <2>2. file.phdrs[next - 1].vaddr \in Nat /\ file.phdrs[next - 1].filesz \in Nat
        /\ Len(SegmentData(next - 1)) = file.phdrs[next - 1].filesz
    BY <2>1, HeaderFacts
  <2>3. next \in Nat
    BY HeaderFacts, LenProperties, FilesAssumption DEF LoadInv, LoadTypeOK
  <2>4. next - 1 \in Seen
    BY <2>1, <2>3 DEF Seen
  <2>5. a \in FilePlace(next - 1)
    <3>1. PICK va \in Nat, n \in Nat :
            va = file.phdrs[next - 1].vaddr /\ n = file.phdrs[next - 1].filesz
      BY <2>2
    <3>2. a - va + 1 \in 1 .. n
      BY <1>7, <2>1, <2>2, <3>1 DEF Copied
    <3>3. a \in va .. va + n - 1
      <4>1. va \in Nat /\ n \in Nat /\ a \in Nat
        BY <1>7, <3>1
      <4> QED
        BY <3>2, <4>1
    <3> QED
      BY <3>1, <3>3 DEF FilePlace
  <2>6. SegmentData(next - 1)[a - file.phdrs[next - 1].vaddr + 1] = FileWord(next - 1, a)
    BY <2>1, <2>5, HeaderFacts
  <2> QED
    BY <1>7, <2>1, <2>4, <2>5, <2>6 DEF Copied
<1>8. ASSUME NEW k \in Seen, NEW a \in FilePlace(k), a \notin KernelPlace,
             ~ \E m \in Seen : m > k /\ a \in FilePlace(m)
      PROVE  Brings(todo, a)' \/ Holds(a, FileWord(k, a))'
  <2>1. a \in Nat
    BY <1>3, HeaderFacts
  <2>2. PICK word : word = FileWord(k, a) /\ word = FileWord(k, a)'
    BY <1>2
  <2>3. Brings(todo, a) \/ Holds(a, word)
    BY <1>8, <2>2 DEF SegmentsOK
  <2>4. ASSUME NEW j \in 1 .. Len(c.data), Place(c, j) = a PROVE c.data[j] = word
    <3>1. next - 1 \in Seen /\ a \in FilePlace(next - 1) /\ c.data[j] = FileWord(next - 1, a)
      BY <1>7, <1>8, <2>1, <2>4
    <3>2. k \in Nat /\ next \in Nat /\ next - 1 \in Nat /\ k < next
      BY <1>3, <3>1, HeaderFacts, LenProperties, FilesAssumption DEF LoadInv, LoadTypeOK, Seen
    <3>3. next - 1 = k
      BY <1>8, <3>1, <3>2
    <3> QED
      BY <2>2, <3>1, <3>3
  <2>5. Brings(todo, a)' \/ Holds(a, word)'
    BY <1>5, <2>1, <2>3, <2>4, WordKept DEF put, c
  <2> QED
    BY <2>2, <2>5
<1>9. \A k \in Seen : \A a \in MemPlace(k) : Reached(a)'
  BY <1>5, MappedKept DEF SegmentsOK, put, c
<1>10. ASSUME NEW v \in DOMAIN space', NEW i \in Offsets,
             v * PageWords + i \notin KernelPlace, ~ \E m \in Seen : v * PageWords + i \in FilePlace(m)
      PROVE  space'[v].words[i] = Zero
  <2>1. v \in Nat
    BY LoadNextInv, UserMemory DEF LoadInv, InUserMemory, LoadNext
  <2>2. PICK a \in Nat : a = v * PageWords + i /\ a \div PageWords = v /\ a % PageWords = i
    BY <2>1, WordPlace
  <2>3. space'[v].words[i] = ProgramWord(a)' /\ space[v].words[i] = ProgramWord(a)
    BY <2>2 DEF ProgramWord
  <2>4. \A j \in 1 .. Len(c.data) : Place(c, j) # a
    BY <1>7, <1>10, <2>2
  <2>5. v \in DOMAIN space => space[v].words[i] = Zero
    BY <1>10 DEF SegmentsOK
  <2>6. WordsOf(c, a)
    BY <1>6
  <2> QED
    BY <1>10, <2>2, <2>3, <2>4, <2>5, <2>6 DEF WordsOf
<1> QED
  BY <1>2, <1>3, <1>8, <1>10, <1>9 DEF SegmentsOK

\* ... the areas that have been, ...
LEMMA PutAreasOK ==
  ASSUME LoadInv, ComingOK, AreasOK, PutPage
  PROVE  AreasOK'
<1> DEFINE put == Head(todo)
           c == put.chunk
<1>1. UNCHANGED <<file, stdin, stage, next>>
  BY DEF PutPage
<1>2. put \in Range(todo)
  BY PutComing
<1>3. /\ Fits(c)
      /\ \A j \in 1 .. Len(c.data) :
           \/ /\ stage = "segments" /\ next - 1 \in Loaded
              /\ Copied(Place(c, j), c.data[j], file.phdrs[next - 1].vaddr, SegmentData(next - 1))
           \/ stage = "header" /\ Copied(Place(c, j), c.data[j], HeaderVa, HeaderData)
           \/ stage = "stdin" /\ Copied(Place(c, j), c.data[j], StdinVa, stdin)
           \/ stage = "args" /\ Copied(Place(c, j), c.data[j], ArgsVa, Args)
  BY <1>2, CopiedWhere
<1>4. PICK header \in Nat, in \in Nat, args \in Nat, out \in Nat, top \in Seq(Words), input \in Seq(Words) :
        /\ header = HeaderVa /\ in = StdinVa /\ args = ArgsVa /\ out = StdoutVa
        /\ top = HeaderData /\ input = stdin
        /\ args + Len(Args) = out /\ out <= in /\ in + Len(input) <= header
  BY DataPlaces
<1>5. /\ header = HeaderVa' /\ in = StdinVa' /\ args = ArgsVa' /\ out = StdoutVa'
      /\ top = HeaderData' /\ input = stdin' /\ StackVa' = StackVa
  BY <1>1, <1>4, SameProgram
<1>6. Len(top) \in Nat /\ Len(input) \in Nat /\ Len(Args) \in Nat /\ Args \in Seq(Words)
  BY DataPlaces, LenProperties
<1>7. DOMAIN space' = DOMAIN space \cup {c.page}
  BY <1>3, PutWord
<1> HIDE DEF c, put
<1>8. /\ \A j \in 1 .. Len(c.data) :
           \/ stage = "segments"
           \/ stage = "header" /\ Copied(Place(c, j), c.data[j], header, top)
           \/ stage = "stdin" /\ Copied(Place(c, j), c.data[j], in, input)
           \/ stage = "args" /\ Copied(Place(c, j), c.data[j], args, Args)
  BY <1>3, <1>4
<1>9. ASSUME stage \in {"header", "stdin", "stdout", "stack", "heap", "args", "user"}
      PROVE  InPlace(HeaderVa, HeaderData)'
  <2>1. InPlace(header, top)
    BY <1>4, <1>9 DEF AreasOK
  <2>2. \A j \in 1 .. Len(c.data) : \A i \in 1 .. Len(top) :
          Place(c, j) = header + i - 1 => c.data[j] = top[i]
    <3> SUFFICES ASSUME NEW j \in 1 .. Len(c.data), NEW i \in 1 .. Len(top), Place(c, j) = header + i - 1
                 PROVE  c.data[j] = top[i]
      OBVIOUS
    <3>1. PICK a \in Nat : a = Place(c, j) /\ a = header + i - 1 /\ a >= header /\ a - header + 1 = i
      BY <1>6
    <3>2. ~ Copied(a, c.data[j], in, input) /\ ~ Copied(a, c.data[j], args, Args)
      <4>1. PICK n \in Nat, k \in Nat :
              n = Len(input) /\ a - in + 1 > n /\ k = Len(Args) /\ a - args + 1 > k
        BY <1>4, <1>6, <3>1
      <4>2. a - in + 1 \notin 1 .. n /\ a - args + 1 \notin 1 .. k
        BY <4>1
      <4> QED
        BY <4>1, <4>2 DEF Copied
    <3>3. Copied(a, c.data[j], header, top)
      BY <1>8, <1>9, <3>1, <3>2
    <3> QED
      BY <3>1, <3>3 DEF Copied
  <2>3. InPlace(header, top)'
    BY <1>3, <2>1, <2>2, RangeKept DEF c, put
  <2> QED
    BY <1>5, <2>3 DEF InPlace
<1>10. ASSUME stage \in {"stdin", "stdout", "stack", "heap", "args", "user"}
       PROVE  InPlace(StdinVa, stdin)'
  <2>1. InPlace(in, input)
    BY <1>4, <1>10 DEF AreasOK
  <2>2. \A j \in 1 .. Len(c.data) : \A i \in 1 .. Len(input) :
          Place(c, j) = in + i - 1 => c.data[j] = input[i]
    <3> SUFFICES ASSUME NEW j \in 1 .. Len(c.data), NEW i \in 1 .. Len(input), Place(c, j) = in + i - 1
                 PROVE  c.data[j] = input[i]
      OBVIOUS
    <3>1. PICK a \in Nat : a = Place(c, j) /\ a = in + i - 1 /\ a >= in /\ a - in + 1 = i
      BY <1>6
    <3>2. ~ Copied(a, c.data[j], args, Args)
      <4>1. PICK n \in Nat : n = Len(Args) /\ a - args + 1 > n
        BY <1>4, <1>6, <3>1
      <4>2. a - args + 1 \notin 1 .. n
        BY <4>1
      <4> QED
        BY <4>1, <4>2 DEF Copied
    <3>3. Copied(a, c.data[j], in, input)
      BY <1>8, <1>10, <3>1, <3>2
    <3> QED
      BY <3>1, <3>3 DEF Copied
  <2>3. InPlace(in, input)'
    BY <1>3, <2>1, <2>2, RangeKept DEF c, put
  <2> QED
    BY <1>5, <2>3 DEF InPlace
<1>11. ASSUME stage \in {"args", "user"}
       PROVE  InPlace(ArgsVa, Args)'
  <2>1. InPlace(args, Args)
    BY <1>4, <1>11 DEF AreasOK
  <2>2. \A j \in 1 .. Len(c.data) : \A i \in 1 .. Len(Args) :
          Place(c, j) = args + i - 1 => c.data[j] = Args[i]
    <3> SUFFICES ASSUME NEW j \in 1 .. Len(c.data), NEW i \in 1 .. Len(Args), Place(c, j) = args + i - 1
                 PROVE  c.data[j] = Args[i]
      OBVIOUS
    <3>1. PICK a \in Nat : a = Place(c, j) /\ a - args + 1 = i
      BY <1>6
    <3>2. Copied(a, c.data[j], args, Args)
      BY <1>8, <1>11, <3>1
    <3> QED
      BY <3>1, <3>2 DEF Copied
  <2>3. InPlace(args, Args)'
    BY <1>3, <1>6, <2>1, <2>2, RangeKept DEF c, put
  <2> QED
    BY <1>5, <2>3 DEF InPlace
<1>12. \A from, to : MappedFrom(from, to) => MappedFrom(from, to)'
  BY <1>3, MappedKept DEF c, put, MappedFrom
<1>13. PICK stack : stack = StackVa /\ stack = StackVa'
  BY <1>5
<1>14. stage \in {"stdout", "stack", "heap", "args", "user"} => MappedFrom(out, in)'
  BY <1>4, <1>12 DEF AreasOK
<1>15. stage \in {"stack", "heap", "args", "user"} => MappedFrom(stack, out)'
  BY <1>4, <1>12, <1>13 DEF AreasOK
<1>16. stage \in {"heap", "args", "user"} => MappedFrom(HeapBase, HeapBase + HeapWords)'
  BY <1>12 DEF AreasOK
<1>17. stage \in {"heap", "args", "user"} => \A a \in stack .. out - 1 : a \div PageWords \in DOMAIN space'
  BY <1>4, <1>7, <1>13 DEF AreasOK
<1> QED
  BY <1>1, <1>5, <1>9, <1>10, <1>11, <1>13, <1>14, <1>15, <1>16, <1>17 DEF AreasOK, MappedFrom

\* ... and the rights of the pages.
LEMMA PutRightsOK ==
  ASSUME LoadInv, ComingOK, RightsOK, PutPage
  PROVE  RightsOK'
<1> DEFINE put == Head(todo)
           c == put.chunk
<1>1. UNCHANGED <<file, stdin, stage, next>>
  BY DEF PutPage
<1>2. put \in Range(todo)
  BY PutComing
<1>3. Fits(c)
  BY <1>2, CopiedWhere
<1>4. /\ DOMAIN space' = DOMAIN space \cup {c.page}
      /\ \A v \in DOMAIN space' :
           space'[v].flags = IF v \in DOMAIN space THEN space[v].flags ELSE put.flags
  BY <1>3, PutWord
<1>5. /\ stage = "segments" => next - 1 \in Loaded /\ \E a \in MemPlace(next - 1) : a \div PageWords = c.page
      /\ stage \in {"header", "stdin"} => c.page * PageWords >= StdinVa
      /\ stage \notin {"segments", "header", "stdin"} => put.flags = ReadWrite
  BY <1>2 DEF ComingOK
<1>6. /\ Loaded' = Loaded /\ StdinVa' = StdinVa /\ \A k : MemPlace(k)' = MemPlace(k)
  BY <1>1, SameProgram
<1> HIDE DEF c, put
<1>7. ASSUME NEW v \in DOMAIN space'
      PROVE  \/ \E k \in Loaded : \E a \in MemPlace(k) : a \div PageWords = v
             \/ v * PageWords >= StdinVa
             \/ ReadWrite \subseteq space'[v].flags
  <2>1. CASE v \in DOMAIN space
    BY <1>4, <2>1 DEF RightsOK
  <2>2. CASE v \notin DOMAIN space
    <3>1. v = c.page /\ space'[v].flags = put.flags
      BY <1>4, <2>2
    <3> QED
      BY <1>5, <3>1
  <2> QED
    BY <2>1, <2>2
<1> QED
  BY <1>6, <1>7 DEF RightsOK

LEMMA PutPageImage == LoadInv /\ ImageInv /\ PutPage => ImageInv'
<1> SUFFICES ASSUME LoadInv, ImageInv, PutPage PROVE ImageInv'
  OBVIOUS
<1>1. UNCHANGED <<file, stdin, stage, next>> /\ todo # << >>
  BY DEF PutPage
<1>2. stage \notin {"check", "user"}
  BY <1>1 DEF ImageInv
<1>3. stage # "failed" => ComingOK' /\ SegmentsOK' /\ AreasOK' /\ RightsOK'
  BY PutComingOK, PutSegmentsOK, PutAreasOK, PutRightsOK DEF ImageInv
<1> QED
  BY <1>1, <1>2, <1>3 DEF ImageInv

\* Nothing is to come when nothing is left to be put.
LEMMA NothingComes ==
  ASSUME todo = << >>
  PROVE  Range(todo) = {} /\ (\A a : ~ Brings(todo, a)) /\ (\A v : ~ Maps(todo, v))
<1>1. Range(todo) = {}
  BY DEF Range
<1> QED
  BY <1>1 DEF Brings, Maps

LEMMA LoadInitImage == LoadInit => ImageInv
<1> SUFFICES ASSUME LoadInit PROVE ImageInv
  OBVIOUS
<1>1. stage = "check" /\ todo = << >> /\ next = 1 /\ DOMAIN space = {}
  BY DEF LoadInit, Memory!SpaceInit
<1>2. Range(todo) = {}
  BY <1>1, NothingComes
<1>3. Seen = {}
  <2>1. LoadInv
    BY LoadInitInv
  <2>2. \A k \in Loaded : k \in Nat /\ k >= 1
    BY <2>1, HeaderFacts
  <2> QED
    BY <1>1, <2>2 DEF Seen
<1> QED
  BY <1>1, <1>2, <1>3 DEF ImageInv, ComingOK, SegmentsOK, AreasOK, RightsOK

\* A step that puts nothing: the segments that have been looked at and the puts
\* to come are as given.
LEMMA SegmentsCarry ==
  ASSUME UNCHANGED <<file, stdin, space>>, NEW puts, puts = todo', NEW seen, seen = Seen',
         \A k \in seen : \A a \in FilePlace(k) :
           \/ a \in KernelPlace \/ \E m \in seen : m > k /\ a \in FilePlace(m)
           \/ Brings(puts, a) \/ Holds(a, FileWord(k, a)),
         \A k \in seen : \A a \in MemPlace(k) :
           a \div PageWords \in DOMAIN space \/ Maps(puts, a \div PageWords),
         \A v \in DOMAIN space, i \in Offsets :
           \/ v * PageWords + i \in KernelPlace \/ \E m \in seen : v * PageWords + i \in FilePlace(m)
           \/ space[v].words[i] = Zero
  PROVE  SegmentsOK'
<1>1. /\ KernelPlace' = KernelPlace
      /\ \A k : /\ FilePlace(k)' = FilePlace(k) /\ MemPlace(k)' = MemPlace(k)
                /\ \A a : FileWord(k, a)' = FileWord(k, a)
  BY SameProgram
<1>2. \A a, word : Holds(a, word)' <=> Holds(a, word)
  BY DEF Holds, ProgramWord
<1>3. \A a : Reached(a)' <=> (a \div PageWords \in DOMAIN space \/ Maps(puts, a \div PageWords))
  BY DEF Reached
<1>4. \A k, a : Holds(a, FileWord(k, a))' <=> Holds(a, FileWord(k, a))
  BY <1>1, <1>2
<1>5. \A k \in seen : \A a \in FilePlace(k)' :
        \/ a \in KernelPlace' \/ \E m \in seen : m > k /\ a \in FilePlace(m)'
        \/ Brings(puts, a) \/ Holds(a, FileWord(k, a))'
  BY <1>1, <1>4
<1>6. \A k \in seen : \A a \in MemPlace(k)' : Reached(a)'
  BY <1>1, <1>3
<1>7. \A v \in DOMAIN space', i \in Offsets :
        \/ v * PageWords + i \in KernelPlace' \/ \E m \in seen : v * PageWords + i \in FilePlace(m)'
        \/ space'[v].words[i] = Zero
  BY <1>1
<1> QED
  BY <1>5, <1>6, <1>7 DEF SegmentsOK

\* What is in place when nothing is left to be put.
LEMMA SegmentsDone ==
  ASSUME SegmentsOK, todo = << >>
  PROVE  /\ \A k \in Seen : \A a \in FilePlace(k) :
              \/ a \in KernelPlace \/ \E m \in Seen : m > k /\ a \in FilePlace(m)
              \/ Holds(a, FileWord(k, a))
         /\ \A k \in Seen : \A a \in MemPlace(k) : a \div PageWords \in DOMAIN space
         /\ \A v \in DOMAIN space, i \in Offsets :
              \/ v * PageWords + i \in KernelPlace \/ \E m \in Seen : v * PageWords + i \in FilePlace(m)
              \/ space[v].words[i] = Zero
<1>1. (\A a : ~ Brings(todo, a)) /\ (\A v : ~ Maps(todo, v))
  BY NothingComes
<1> QED
  BY <1>1 DEF SegmentsOK, Reached

\* If no segment has been looked at since, they stay in place.
LEMMA SegmentsStay ==
  ASSUME SegmentsOK, todo = << >>, UNCHANGED <<file, stdin, space>>, Seen' = Seen
  PROVE  SegmentsOK'
<1>1. PICK puts, seen : puts = todo' /\ seen = Seen' /\ seen = Seen
  OBVIOUS
<1> QED
  BY <1>1, SegmentsDone, SegmentsCarry

\* The next segment is cut into pages, and all of them are to come.
LEMMA LoadSegmentImage == LoadInv /\ ImageInv /\ LoadSegment => ImageInv'
<1> SUFFICES ASSUME LoadInv, ImageInv, LoadSegment PROVE ImageInv'
  OBVIOUS
<1>1. /\ stage = "segments" /\ todo = << >> /\ next \in DOMAIN file.phdrs /\ next' = next + 1
      /\ UNCHANGED <<file, stdin, space>>
  BY DEF LoadSegment
<1>2. /\ Loaded' = Loaded /\ KernelPlace' = KernelPlace /\ StdinVa' = StdinVa
      /\ \A k : /\ FilePlace(k)' = FilePlace(k) /\ MemPlace(k)' = MemPlace(k)
                /\ SegmentData(k)' = SegmentData(k)
  BY <1>1, SameProgram
<1>3. next \in Nat /\ \A k \in Loaded : k \in Nat
  BY <1>1, HeaderFacts, FilesAssumption, LenProperties DEF LoadInv, LoadTypeOK
<1>4. Seen' = IF next \in Loaded THEN Seen \cup {next} ELSE Seen
  BY <1>1, <1>2, <1>3 DEF Seen
<1>5. SegmentsOK /\ RightsOK
  BY <1>1 DEF ImageInv
<1>6. CASE stage' = "failed" /\ todo' = << >>
  BY <1>6 DEF ImageInv
<1>7. CASE next \notin Loaded /\ UNCHANGED <<stage, todo>>
  <2>1. Range(todo') = {}
    BY <1>1, <1>7, NothingComes
  <2>2. ComingOK'
    BY <2>1 DEF ComingOK
  <2>3. SegmentsOK'
    BY <1>1, <1>4, <1>7, <1>5, SegmentsStay
  <2>4. RightsOK'
    BY <1>1, <1>2, <1>5 DEF RightsOK
  <2> QED
    BY <1>1, <1>7, <2>2, <2>3, <2>4 DEF ImageInv, AreasOK
<1>8. ASSUME NEW p, p = file.phdrs[next], p.load, SegmentError(p) = "ok",
             todo' = SegmentPages(p), stage' = stage
      PROVE  ImageInv'
  <2>1. PICK puts : puts = todo'
    OBVIOUS
  <2>2. /\ p \in Phdr /\ p.vaddr \in Nat /\ p.filesz \in Nat /\ p.memsz \in Nat
        /\ SegmentData(next) \in Seq(Words) /\ Len(SegmentData(next)) = p.filesz
        /\ \A put \in Range(puts) :
             /\ put.chunk.data = << >> \/ HoldsOf(put.chunk, p.vaddr, SegmentData(next))
             /\ \E a \in MemPlace(next) : a \div PageWords = put.chunk.page
        /\ \A i \in 1 .. p.filesz : Brings(puts, p.vaddr + i - 1)
        /\ \A a \in p.vaddr .. p.vaddr + p.memsz - 1 : Maps(puts, a \div PageWords)
    BY <1>1, <1>8, <2>1, SegmentBrings DEF LoadInv, LoadTypeOK
  <2>3. next \in Loaded /\ next' - 1 = next /\ Seen' = Seen \cup {next}
    BY <1>1, <1>3, <1>4, <1>8 DEF Loaded
  <2>4. ComingOK'
    <3>1. PICK n : n = next /\ n = next' - 1
      BY <2>3
    <3>2. SegmentData(n)' = SegmentData(n) /\ MemPlace(n)' = MemPlace(n) /\ file'.phdrs[n] = p
      BY <1>1, <1>2, <1>8, <3>1
    <3>3. SegmentData(next - 1)' = SegmentData(n) /\ MemPlace(next - 1)' = MemPlace(n)
      BY <3>1, <3>2 DEF SegmentData, MemPlace
    <3>4. \A put \in Range(puts) : Belonging(put.chunk)'
      <4> SUFFICES ASSUME NEW put \in Range(puts) PROVE Belonging(put.chunk)'
        OBVIOUS
      <4>1. PICK c : c = put.chunk
        OBVIOUS
      <4>2. c.data = << >> \/ HoldsOf(c, p.vaddr, SegmentData(n))
        BY <2>2, <3>1, <4>1
      <4>3. stage' = "segments" /\ file'.phdrs[next' - 1].vaddr = p.vaddr
        BY <1>1, <1>8, <3>1, <3>2
      <4>4. Belonging(c)'
        BY <3>3, <4>2, <4>3 DEF Belonging
      <4> QED
        BY <4>1, <4>4
    <3>5. \A put \in Range(puts) : \E a \in MemPlace(n) : a \div PageWords = put.chunk.page
      BY <2>2, <3>1
    <3>6. stage' = "segments" /\ (next - 1)' \in Loaded'
      BY <1>1, <1>2, <1>8, <2>3
    <3> QED
      BY <2>1, <3>3, <3>4, <3>5, <3>6 DEF ComingOK
  <2>5. SegmentsOK'
    <3>1. PICK seen : seen = Seen' /\ seen = Seen \cup {next}
      BY <2>3
    <3>2. /\ \A k \in Seen : \A a \in FilePlace(k) :
               \/ a \in KernelPlace \/ \E m \in Seen : m > k /\ a \in FilePlace(m)
               \/ Holds(a, FileWord(k, a))
          /\ \A k \in Seen : \A a \in MemPlace(k) : a \div PageWords \in DOMAIN space
          /\ \A v \in DOMAIN space, i \in Offsets :
               \/ v * PageWords + i \in KernelPlace \/ \E m \in Seen : v * PageWords + i \in FilePlace(m)
               \/ space[v].words[i] = Zero
      BY <1>1, <1>5, SegmentsDone
    <3>3. \A a \in FilePlace(next) : Brings(puts, a)
      <4> SUFFICES ASSUME NEW a \in FilePlace(next) PROVE Brings(puts, a)
        OBVIOUS
      <4>1. a - p.vaddr + 1 \in 1 .. p.filesz /\ p.vaddr + (a - p.vaddr + 1) - 1 = a
        <5>1. a \in Nat /\ a - p.vaddr + 1 \in 1 .. p.filesz
          BY <1>8, <2>3, HeaderFacts
        <5> QED
          BY <2>2, <5>1
      <4>2. Brings(puts, p.vaddr + (a - p.vaddr + 1) - 1)
        BY <2>2, <4>1
      <4> QED
        BY <4>1, <4>2
    <3>4. \A a \in MemPlace(next) : Maps(puts, a \div PageWords)
      BY <1>8, <2>2 DEF MemPlace
    <3>5. \A k \in seen : \A a \in FilePlace(k) :
           \/ a \in KernelPlace \/ \E m \in seen : m > k /\ a \in FilePlace(m)
           \/ Brings(puts, a) \/ Holds(a, FileWord(k, a))
      BY <3>1, <3>2, <3>3
    <3>6. \A k \in seen : \A a \in MemPlace(k) :
           a \div PageWords \in DOMAIN space \/ Maps(puts, a \div PageWords)
      BY <3>1, <3>2, <3>4
    <3>7. \A v \in DOMAIN space, i \in Offsets :
           \/ v * PageWords + i \in KernelPlace \/ \E m \in seen : v * PageWords + i \in FilePlace(m)
           \/ space[v].words[i] = Zero
      BY <3>1, <3>2
    <3> QED
      BY <1>1, <2>1, <3>1, <3>5, <3>6, <3>7, SegmentsCarry
  <2>6. RightsOK'
    BY <1>1, <1>2, <1>5 DEF RightsOK
  <2> QED
    BY <1>1, <1>8, <2>4, <2>5, <2>6 DEF ImageInv, AreasOK
<1> QED
  BY <1>1, <1>6, <1>7, <1>8 DEF LoadSegment, Fail, Loaded

LEMMA CheckHeaderImage == LoadInv /\ ImageInv /\ CheckHeader => ImageInv'
<1> SUFFICES ASSUME LoadInv, ImageInv, CheckHeader PROVE ImageInv'
  OBVIOUS
<1>1. stage = "check" /\ todo = << >> /\ UNCHANGED <<file, stdin, space, next>>
  BY DEF CheckHeader, ImageInv
<1>2. CASE stage' = "failed" /\ todo' = << >>
  BY <1>2 DEF ImageInv
<1>3. CASE stage' = "segments" /\ UNCHANGED todo
  <2>1. ComingOK'
    BY <1>1, <1>3, NothingComes DEF ComingOK
  <2>2. /\ Loaded' = Loaded /\ KernelPlace' = KernelPlace /\ StdinVa' = StdinVa
        /\ \A k : /\ FilePlace(k)' = FilePlace(k) /\ MemPlace(k)' = MemPlace(k)
                  /\ SegmentData(k)' = SegmentData(k)
    BY <1>1, SameProgram
  <2>3. Seen' = Seen
    BY <1>1, <2>2 DEF Seen
  <2>4. SegmentsOK'
    BY <1>1, <2>3, SegmentsStay DEF ImageInv
  <2>5. RightsOK'
    BY <1>1, <2>2 DEF ImageInv, RightsOK
  <2> QED
    BY <1>3, <2>1, <2>4, <2>5 DEF ImageInv, AreasOK
<1> QED
  BY <1>1, <1>2, <1>3 DEF CheckHeader, Fail

\* The areas, in their order.
LEMMA AreaOrder ==
  /\ Following("segments") = "header" /\ Following("header") = "stdin" /\ Following("stdin") = "stdout"
  /\ Following("stdout") = "stack" /\ Following("stack") = "heap" /\ Following("heap") = "args"
  /\ Following("args") = "user"
<1>1. Areas = <<"segments", "header", "stdin", "stdout", "stack", "heap", "args", "user">>
  BY DEF Areas
<1>2. ASSUME NEW k \in 1 .. 7 PROVE Following(Areas[k]) = Areas[1 + k]
  <2>1. \A j \in DOMAIN Areas : Areas[j] = Areas[k] => j = k
    <3>1. DOMAIN Areas = 1 .. 8
      BY <1>1
    <3>2. \A j \in 1 .. 8 : Areas[j] = Areas[k] => j = k
      BY <1>1
    <3> QED
      BY <3>1, <3>2
  <2>2. k \in DOMAIN Areas
    BY <1>1
  <2>3. (CHOOSE j \in DOMAIN Areas : Areas[j] = Areas[k]) = k
    BY <2>1, <2>2
  <2> QED
    BY <2>3 DEF Following
<1>3. /\ Areas[1] = "segments" /\ Areas[2] = "header" /\ Areas[3] = "stdin" /\ Areas[4] = "stdout"
      /\ Areas[5] = "stack" /\ Areas[6] = "heap" /\ Areas[7] = "args" /\ Areas[8] = "user"
  BY <1>1
<1>4. /\ Following(Areas[1]) = Areas[2] /\ Following(Areas[2]) = Areas[3] /\ Following(Areas[3]) = Areas[4]
      /\ Following(Areas[4]) = Areas[5] /\ Following(Areas[5]) = Areas[6] /\ Following(Areas[6]) = Areas[7]
      /\ Following(Areas[7]) = Areas[8]
  <2>1. 1 + 1 = 2 /\ 1 + 2 = 3 /\ 1 + 3 = 4 /\ 1 + 4 = 5 /\ 1 + 5 = 6 /\ 1 + 6 = 7 /\ 1 + 7 = 8
    OBVIOUS
  <2> QED
    BY <1>2, <2>1
<1> QED
  BY <1>3, <1>4

\* What the pages of an area bring: the header, the input and the arguments are
\* copied (CopiedArea), the others are mapped.
MappedArea(puts, from, to) ==
  /\ \A put \in Range(puts) : put.flags = ReadWrite /\ put.chunk.data = << >>
  /\ \A a \in from .. to - 1 : Maps(puts, a \div PageWords)

LEMMA CopiedAreas ==
  ASSUME LoadInv
  PROVE  /\ CopiedArea(AreaPages("header"), ReadOnly, HeaderVa, HeaderData)
         /\ CopiedArea(AreaPages("stdin"), ReadOnly, StdinVa, stdin)
         /\ CopiedArea(AreaPages("args"), ReadWrite, ArgsVa, Args)
<1>1. /\ HeaderVa \in Nat /\ StdinVa \in Nat /\ ArgsVa \in Nat
      /\ HeaderData \in Seq(Words) /\ stdin \in Seq(Words) /\ Args \in Seq(Words)
  BY DataPlaces
<1>2. ASSUME NEW flags, NEW va \in Nat, NEW data \in Seq(Words)
      PROVE  CopiedArea(With(flags, Chunks(va, data)), flags, va, data)
  BY CopyBrings
<1>3. /\ AreaPages("header") = With(ReadOnly, Chunks(HeaderVa, HeaderData))
      /\ AreaPages("stdin") = With(ReadOnly, Chunks(StdinVa, stdin))
      /\ AreaPages("args") = With(ReadWrite, Chunks(ArgsVa, Args))
  BY DEF AreaPages, HeaderData, ArgsVa
<1> QED
  BY <1>1, <1>2, <1>3

LEMMA MappedAreas ==
  ASSUME LoadInv
  PROVE  /\ MappedArea(AreaPages("stdout"), StdoutVa, StdinVa)
         /\ MappedArea(AreaPages("stack"), StackVa, StdoutVa)
         /\ MappedArea(AreaPages("heap"), HeapBase, HeapBase + HeapWords)
<1>1. PICK lo \in Nat, hi \in Nat, in \in Nat, out \in Nat, stack \in Nat, heap \in Nat, brk \in Nat :
           /\ UserBottom = lo * PageWords /\ UserTop = hi * PageWords /\ UserPages = lo .. hi - 1
           /\ HeaderVa = (hi - 1) * PageWords /\ StdinVa = in * PageWords
           /\ StdinVa + Len(stdin) <= HeaderVa
           /\ StdoutVa = out * PageWords /\ StdoutVa + StdoutWords = in * PageWords
           /\ StackVa = stack * PageWords /\ StackVa + StackWords = out * PageWords
           /\ HeapBase = heap * PageWords /\ HeapBase + HeapWords = brk * PageWords
           /\ lo <= heap /\ heap <= brk /\ brk <= stack /\ stack <= out /\ out <= in /\ in <= hi - 1
           /\ StackVa <= StdoutVa - Len(Args)
  BY AreaPlaces DEF LoadInv, LoadTypeOK
<1>2. ASSUME NEW f \in Nat, NEW t \in Nat, f <= t
      PROVE  MappedArea(With(ReadWrite, Fresh(f * PageWords, t * PageWords)), f * PageWords, t * PageWords)
  <2>1. PICK s : s = With(ReadWrite, Fresh(f * PageWords, t * PageWords))
    OBVIOUS
  <2>2. /\ \A put \in Range(s) : put.flags = ReadWrite /\ put.chunk.data = << >>
        /\ \A q \in f .. t - 1 : Maps(s, q)
    BY <1>2, <2>1, FreshBrings
  <2>3. f * PageWords \in Nat /\ t * PageWords \in Nat
    BY PageStart
  <2>4. ASSUME NEW a \in Nat, f * PageWords <= a, a < t * PageWords PROVE Maps(s, a \div PageWords)
    <3>1. PICK q \in Nat : q = a \div PageWords /\ q * PageWords <= a /\ a < q * PageWords + PageWords
      BY FloorCeil
    <3>2. q * PageWords \in Nat /\ (q + 1) * PageWords = q * PageWords + PageWords
      BY PageStart, PageOrder
    <3>3. f * PageWords < (q + 1) * PageWords /\ q * PageWords < t * PageWords
      BY <2>4, <2>3, <3>1, <3>2, PageWordsAssumption
    <3>4. f < q + 1 /\ q < t
      BY <3>3, PageOrder
    <3>5. q \in f .. t - 1
      BY <3>4
    <3> QED
      BY <2>2, <3>1, <3>5
  <2>5. \A a \in f * PageWords .. t * PageWords - 1 : a \in Nat /\ f * PageWords <= a /\ a < t * PageWords
    BY <2>3
  <2> QED
    BY <2>1, <2>2, <2>4, <2>5 DEF MappedArea
<1>3. /\ AreaPages("stdout") = With(ReadWrite, Fresh(StdoutVa, StdinVa))
      /\ AreaPages("stack") = With(ReadWrite, Fresh(StackVa, StdoutVa))
      /\ AreaPages("heap") = With(ReadWrite, Fresh(HeapBase, HeapBase + HeapWords))
  BY <1>1 DEF AreaPages
<1> QED
  BY <1>1, <1>2, <1>3

\* The page of an address behind the start of a page is that page or one behind.
LEMMA PageAbove ==
  ASSUME NEW q \in Nat, NEW a \in Nat
  PROVE  q * PageWords <= a => q * PageWords <= (a \div PageWords) * PageWords
<1>1. PICK r \in Nat : r = a \div PageWords /\ r * PageWords <= a /\ a < r * PageWords + PageWords
  BY FloorCeil
<1>2. q * PageWords \in Nat /\ r * PageWords \in Nat /\ (r + 1) * PageWords = r * PageWords + PageWords
  BY PageStart, PageOrder
<1>3. q * PageWords <= a => q * PageWords < (r + 1) * PageWords
  BY <1>1, <1>2, PageWordsAssumption
<1>4. q * PageWords <= a => q < r + 1
  BY <1>3, PageOrder
<1> QED
  BY <1>1, <1>4, PageOrder

\* What is in place stays so while nothing is put.
LEMMA InPlaceStays ==
  ASSUME todo = << >>, UNCHANGED space
  PROVE  /\ \A va, data : InPlace(va, data) => InPlace(va, data)'
         /\ \A a : Reached(a) => a \div PageWords \in DOMAIN space /\ Reached(a)'
<1>1. (\A a : ~ Brings(todo, a)) /\ (\A v : ~ Maps(todo, v))
  BY NothingComes
<1>2. \A a, word : Holds(a, word)' <=> Holds(a, word)
  BY DEF Holds, ProgramWord
<1> QED
  BY <1>1, <1>2 DEF InPlace, Reached

\* The pages of an area that is copied belong to it, ...
LEMMA NextComing ==
  ASSUME LoadInv, NextArea
  PROVE  ComingOK'
<1>1. /\ stage \in {"segments", "header", "stdin", "stdout", "stack", "heap", "args"}
      /\ stage' = Following(stage) /\ todo' = AreaPages(Following(stage)) /\ UNCHANGED <<file, stdin>>
  BY DEF NextArea
<1>2. PICK puts : puts = todo'
  OBVIOUS
<1>3. PICK header \in Nat, in \in Nat, args \in Nat, top \in Seq(Words), input \in Seq(Words) :
        /\ header = HeaderVa /\ in = StdinVa /\ args = ArgsVa /\ top = HeaderData /\ input = stdin
        /\ in <= header
  <2>1. StdinVa <= HeaderVa
    BY DataPlaces, LenProperties
  <2> QED
    BY <2>1, DataPlaces
<1>4. header = HeaderVa' /\ in = StdinVa' /\ args = ArgsVa' /\ top = HeaderData' /\ input = stdin'
  BY <1>1, <1>3, SameProgram
<1>5. ASSUME NEW va \in Nat, in <= va, NEW data \in Seq(Words), NEW i \in 1 .. Len(data)
      PROVE  ((va + i - 1) \div PageWords) * PageWords >= in
  <2>1. PICK q \in Nat : in = q * PageWords
    BY <1>3, AreaPlaces DEF LoadInv, LoadTypeOK
  <2>2. va + i - 1 \in Nat /\ q * PageWords <= va + i - 1
    BY <1>5, <2>1, LenProperties
  <2>3. PICK a \in Nat : a = va + i - 1
    BY <2>2
  <2>4. q * PageWords <= (a \div PageWords) * PageWords
    BY <2>2, <2>3, PageAbove
  <2>5. (a \div PageWords) * PageWords \in Nat /\ q * PageWords \in Nat
    BY DivMod, PageStart
  <2> QED
    BY <2>1, <2>3, <2>4, <2>5
<1>6. CASE stage' = "header"
  <2>1. CopiedArea(puts, ReadOnly, header, top)
    BY <1>1, <1>2, <1>3, <1>6, CopiedAreas
  <2>2. \A put \in Range(puts) : Belonging(put.chunk)'
    BY <1>4, <1>6, <2>1 DEF CopiedArea, Belonging
  <2>3. \A put \in Range(puts) : put.chunk.page * PageWords >= in
    BY <1>3, <1>5, <2>1 DEF CopiedArea
  <2> QED
    BY <1>2, <1>4, <1>6, <2>2, <2>3 DEF ComingOK
<1>7. CASE stage' = "stdin"
  <2>1. CopiedArea(puts, ReadOnly, in, input)
    BY <1>1, <1>2, <1>3, <1>7, CopiedAreas
  <2>2. \A put \in Range(puts) : Belonging(put.chunk)'
    BY <1>4, <1>7, <2>1 DEF CopiedArea, Belonging
  <2>3. \A put \in Range(puts) : put.chunk.page * PageWords >= in
    <3>1. \A i \in 1 .. Len(input) : ((in + i - 1) \div PageWords) * PageWords >= in
      <4>1. in <= in
        OBVIOUS
      <4> QED
        BY <1>5, <4>1
    <3> QED
      BY <2>1, <3>1 DEF CopiedArea
  <2> QED
    BY <1>2, <1>4, <1>7, <2>2, <2>3 DEF ComingOK
<1>8. CASE stage' = "args"
  <2>1. CopiedArea(puts, ReadWrite, args, Args)
    BY <1>1, <1>2, <1>3, <1>8, CopiedAreas
  <2>2. \A put \in Range(puts) : Belonging(put.chunk)' /\ put.flags = ReadWrite
    BY <1>4, <1>8, <2>1 DEF CopiedArea, Belonging
  <2> QED
    BY <1>2, <1>8, <2>2 DEF ComingOK
<1>9. CASE stage' \in {"stdout", "stack", "heap"}
  <2>1. \A put \in Range(puts) : put.flags = ReadWrite /\ put.chunk.data = << >>
    BY <1>1, <1>2, <1>9, MappedAreas DEF MappedArea
  <2>2. \A put \in Range(puts) : Belonging(put.chunk)'
    BY <2>1 DEF Belonging
  <2> QED
    BY <1>2, <1>9, <2>1, <2>2 DEF ComingOK
<1>10. CASE stage' = "user"
  <2>1. puts = << >>
    BY <1>1, <1>2, <1>10 DEF AreaPages
  <2>2. Range(puts) = {}
    BY <2>1 DEF Range
  <2> QED
    BY <1>2, <2>2 DEF ComingOK
<1> QED
  BY <1>1, <1>6, <1>7, <1>8, <1>9, <1>10, AreaOrder

\* ... and bring all of it, while the areas before it stay in place.
LEMMA NextAreas ==
  ASSUME LoadInv, AreasOK, NextArea
  PROVE  AreasOK'
<1>1. /\ stage \in {"segments", "header", "stdin", "stdout", "stack", "heap", "args"} /\ todo = << >>
      /\ stage' = Following(stage) /\ todo' = AreaPages(Following(stage)) /\ UNCHANGED <<file, stdin, space>>
  BY DEF NextArea
<1>2. PICK puts : puts = todo'
  OBVIOUS
<1>3. PICK header, in, args, top, input, out, stack :
        /\ header = HeaderVa /\ in = StdinVa /\ args = ArgsVa /\ top = HeaderData /\ input = stdin
        /\ out = StdoutVa /\ stack = StackVa
  OBVIOUS
<1>4. /\ header = HeaderVa' /\ in = StdinVa' /\ args = ArgsVa' /\ top = HeaderData' /\ input = stdin'
      /\ out = StdoutVa' /\ stack = StackVa'
  BY <1>1, <1>3, SameProgram
<1>5. /\ stage' = "header" <=> stage = "segments"
      /\ stage' = "stdin" <=> stage = "header"
      /\ stage' = "stdout" <=> stage = "stdin"
      /\ stage' = "stack" <=> stage = "stdout"
      /\ stage' = "heap" <=> stage = "stack"
      /\ stage' = "args" <=> stage = "heap"
      /\ stage' = "user" <=> stage = "args"
  BY <1>1, AreaOrder
<1>6. /\ \A va, data : InPlace(va, data) => InPlace(va, data)'
      /\ \A a : Reached(a) => a \div PageWords \in DOMAIN space /\ Reached(a)'
  BY <1>1, InPlaceStays
<1>7. \A from, to : MappedFrom(from, to) => MappedFrom(from, to)'
  BY <1>6 DEF MappedFrom
<1>8. \A va, data : (\A i \in 1 .. Len(data) : Brings(puts, va + i - 1)) => InPlace(va, data)'
  BY <1>2 DEF InPlace
<1>9. \A from, to : (\A a \in from .. to - 1 : Maps(puts, a \div PageWords)) => MappedFrom(from, to)'
  BY <1>2 DEF MappedFrom, Reached
<1>10. stage' \in {"header", "stdin", "stdout", "stack", "heap", "args", "user"} => InPlace(header, top)'
  <2>1. stage' = "header" => InPlace(header, top)'
    BY <1>1, <1>2, <1>3, <1>8, CopiedAreas DEF CopiedArea
  <2> QED
    BY <1>1, <1>3, <1>5, <1>6, <2>1 DEF AreasOK
<1>11. stage' \in {"stdin", "stdout", "stack", "heap", "args", "user"} => InPlace(in, input)'
  <2>1. stage' = "stdin" => InPlace(in, input)'
    BY <1>1, <1>2, <1>3, <1>8, CopiedAreas DEF CopiedArea
  <2> QED
    BY <1>1, <1>3, <1>5, <1>6, <2>1 DEF AreasOK
<1>12. stage' \in {"args", "user"} => InPlace(args, Args)'
  <2>1. stage' = "args" => InPlace(args, Args)'
    BY <1>1, <1>2, <1>3, <1>8, CopiedAreas DEF CopiedArea
  <2> QED
    BY <1>1, <1>3, <1>5, <1>6, <2>1 DEF AreasOK
<1>13. stage' \in {"stdout", "stack", "heap", "args", "user"} => MappedFrom(out, in)'
  <2>1. stage' = "stdout" => MappedFrom(out, in)'
    BY <1>1, <1>2, <1>3, <1>9, MappedAreas DEF MappedArea
  <2> QED
    BY <1>1, <1>3, <1>5, <1>7, <2>1 DEF AreasOK
<1>14. stage' \in {"stack", "heap", "args", "user"} => MappedFrom(stack, out)'
  <2>1. stage' = "stack" => MappedFrom(stack, out)'
    BY <1>1, <1>2, <1>3, <1>9, MappedAreas DEF MappedArea
  <2> QED
    BY <1>1, <1>3, <1>5, <1>7, <2>1 DEF AreasOK
<1>15. stage' \in {"heap", "args", "user"} => MappedFrom(HeapBase, HeapBase + HeapWords)'
  <2>1. stage' = "heap" => MappedFrom(HeapBase, HeapBase + HeapWords)'
    BY <1>1, <1>2, <1>3, <1>9, MappedAreas DEF MappedArea
  <2> QED
    BY <1>1, <1>5, <1>7, <2>1 DEF AreasOK
<1>16. stage' \in {"heap", "args", "user"} => \A a \in stack .. out - 1 : a \div PageWords \in DOMAIN space'
  <2>1. stage \in {"stack", "heap", "args"} => \A a \in stack .. out - 1 : a \div PageWords \in DOMAIN space
    BY <1>3, <1>6 DEF AreasOK, MappedFrom
  <2> QED
    BY <1>1, <1>5, <2>1
<1>17. /\ InPlace(header, top)' <=> InPlace(HeaderVa, HeaderData)'
       /\ InPlace(in, input)' <=> InPlace(StdinVa, stdin)'
       /\ InPlace(args, Args)' <=> InPlace(ArgsVa, Args)'
       /\ MappedFrom(out, in)' <=> MappedFrom(StdoutVa, StdinVa)'
       /\ MappedFrom(stack, out)' <=> MappedFrom(StackVa, StdoutVa)'
  BY <1>4 DEF InPlace, MappedFrom
<1> QED
  BY <1>4, <1>10, <1>11, <1>12, <1>13, <1>14, <1>15, <1>16, <1>17 DEF AreasOK

LEMMA NextAreaImage == LoadInv /\ ImageInv /\ NextArea => ImageInv'
<1> SUFFICES ASSUME LoadInv, ImageInv, NextArea PROVE ImageInv'
  OBVIOUS
<1>1. /\ stage \in {"segments", "header", "stdin", "stdout", "stack", "heap", "args"} /\ todo = << >>
      /\ stage = "segments" => next > Len(file.phdrs)
      /\ stage' = Following(stage) /\ todo' = AreaPages(Following(stage))
      /\ UNCHANGED <<file, stdin, space, next>>
  BY DEF NextArea
<1>2. ComingOK /\ SegmentsOK /\ AreasOK /\ RightsOK /\ next > Len(file.phdrs)
  BY <1>1 DEF ImageInv
<1>3. ComingOK' /\ AreasOK'
  BY <1>2, NextComing, NextAreas
<1>4. /\ Loaded' = Loaded /\ StdinVa' = StdinVa /\ \A k : MemPlace(k)' = MemPlace(k)
  BY <1>1, SameProgram
<1>5. SegmentsOK'
  <2>1. Seen' = Seen
    BY <1>1, <1>4 DEF Seen
  <2> QED
    BY <1>1, <1>2, <2>1, SegmentsStay
<1>6. RightsOK'
  BY <1>1, <1>2, <1>4 DEF RightsOK
<1>7. stage' = "user" => todo' = << >>
  BY <1>1 DEF AreaPages
<1>8. stage' # "check"
  BY <1>1, AreaOrder
<1> QED
  BY <1>1, <1>2, <1>3, <1>5, <1>6, <1>7, <1>8 DEF ImageInv

LEMMA ImageNext == LoadInv /\ ImageInv /\ [LoadNext]_loadVars => ImageInv'
<1> SUFFICES ASSUME LoadInv, ImageInv, [LoadNext]_loadVars PROVE ImageInv'
  OBVIOUS
<1>1. CASE NoMemory \/ NoStdin
  <2>1. stage' = "failed" /\ todo' = << >>
    BY <1>1 DEF NoMemory, NoStdin, Fail
  <2> QED
    BY <2>1 DEF ImageInv
<1>2. CASE UNCHANGED loadVars
  <2>1. UNCHANGED <<file, stdin, space, stage, next, todo>>
    BY <1>2 DEF loadVars
  <2>2. /\ Loaded' = Loaded /\ KernelPlace' = KernelPlace /\ HeaderData' = HeaderData
        /\ StdinVa' = StdinVa /\ StdoutVa' = StdoutVa /\ StackVa' = StackVa /\ ArgsVa' = ArgsVa
        /\ \A k : /\ FilePlace(k)' = FilePlace(k) /\ MemPlace(k)' = MemPlace(k)
                  /\ \A a : FileWord(k, a)' = FileWord(k, a)
    BY <2>1, SameProgram
  <2>3. Seen' = Seen
    BY <2>1, <2>2 DEF Seen
  <2>4. \A c : Belonging(c)' <=> Belonging(c)
    BY <2>1, BelongingKept
  <2>5. ComingOK => ComingOK'
    BY <2>1, <2>2, <2>4 DEF ComingOK, MemPlace
  <2>6. /\ \A a, word : Holds(a, word)' <=> Holds(a, word)
        /\ \A a : Brings(todo, a)' <=> Brings(todo, a)
        /\ \A a : Reached(a)' <=> Reached(a)
    BY <2>1 DEF Holds, ProgramWord, Reached
  <2>7. \A k, a : Holds(a, FileWord(k, a))' <=> Holds(a, FileWord(k, a))
    BY <2>2, <2>6
  <2>8. SegmentsOK => SegmentsOK'
    BY <2>1, <2>2, <2>3, <2>6, <2>7 DEF SegmentsOK
  <2>9. /\ \A va, data : InPlace(va, data)' <=> InPlace(va, data)
        /\ \A from, to : MappedFrom(from, to)' <=> MappedFrom(from, to)
    BY <2>6 DEF InPlace, MappedFrom
  <2>10. /\ InPlace(HeaderVa, HeaderData)' <=> InPlace(HeaderVa, HeaderData)
         /\ InPlace(StdinVa, stdin)' <=> InPlace(StdinVa, stdin)
         /\ InPlace(ArgsVa, Args)' <=> InPlace(ArgsVa, Args)
         /\ MappedFrom(StdoutVa, StdinVa)' <=> MappedFrom(StdoutVa, StdinVa)
         /\ MappedFrom(StackVa, StdoutVa)' <=> MappedFrom(StackVa, StdoutVa)
         /\ MappedFrom(HeapBase, HeapBase + HeapWords)' <=> MappedFrom(HeapBase, HeapBase + HeapWords)
    BY <2>1, <2>2, <2>6 DEF InPlace, MappedFrom
  <2>11. AreasOK => AreasOK'
    BY <2>1, <2>2, <2>10 DEF AreasOK
  <2>12. RightsOK => RightsOK'
    BY <2>1, <2>2 DEF RightsOK
  <2> QED
    BY <2>1, <2>5, <2>8, <2>11, <2>12 DEF ImageInv
<1> QED
  BY <1>1, <1>2, CheckHeaderImage, LoadSegmentImage, PutPageImage, NextAreaImage DEF LoadNext

\* A segment that has been looked at is in place when all pages have been put.
LEMMA ImageSegments ==
  ASSUME LoadInv, ImageInv, stage = "user"
  PROVE  SegmentsInPlace
<1>1. SegmentsOK /\ todo = << >> /\ next > Len(file.phdrs)
  BY DEF ImageInv
<1>2. next \in Nat /\ Len(file.phdrs) \in Nat /\ DOMAIN file.phdrs = 1 .. Len(file.phdrs)
  BY FilesAssumption, LenProperties DEF LoadInv, LoadTypeOK
<1>3. Seen = Loaded
  BY <1>1, <1>2 DEF Seen, Loaded
<1>4. /\ \A k \in Seen : \A a \in FilePlace(k) :
           \/ a \in KernelPlace \/ \E m \in Seen : m > k /\ a \in FilePlace(m)
           \/ Holds(a, FileWord(k, a))
      /\ \A k \in Seen : \A a \in MemPlace(k) : a \div PageWords \in DOMAIN space
      /\ \A v \in DOMAIN space, i \in Offsets :
           \/ v * PageWords + i \in KernelPlace \/ \E m \in Seen : v * PageWords + i \in FilePlace(m)
           \/ space[v].words[i] = Zero
  BY <1>1, SegmentsDone
<1>5. ASSUME NEW k \in Loaded,
             NEW a \in FilePlace(k) \ (KernelPlace \cup UNION {FilePlace(m) : m \in {m \in Loaded : m > k}})
      PROVE  Holds(a, FileAt(file.phdrs[k].offset + a - file.phdrs[k].vaddr))
  BY <1>3, <1>4 DEF FileWord
<1>6. ASSUME NEW k \in Loaded,
             NEW a \in MemPlace(k) \ (KernelPlace \cup UNION {FilePlace(m) : m \in Loaded})
      PROVE  Holds(a, Zero)
  <2>1. a \in Nat
    <3>1. file.phdrs[k].vaddr \in Nat /\ file.phdrs[k].memsz \in Nat
      BY HeaderFacts
    <3> QED
      BY <3>1 DEF MemPlace
  <2>2. PICK v \in Nat, i \in Offsets : v = a \div PageWords /\ i = a % PageWords /\ a = v * PageWords + i
    <3>1. /\ a \div PageWords \in Nat /\ a % PageWords \in Nat /\ a % PageWords < PageWords
          /\ a = (a \div PageWords) * PageWords + (a % PageWords)
      BY <2>1, DivMod
    <3>2. a % PageWords \in Offsets
      BY <3>1, PageWordsAssumption DEF Offsets
    <3> QED
      BY <3>1, <3>2
  <2>3. v \in DOMAIN space
    BY <1>3, <1>4, <2>2
  <2>4. a \notin KernelPlace /\ ~ \E m \in Seen : a \in FilePlace(m)
    BY <1>3, <1>6
  <2>5. space[v].words[i] = Zero
    BY <1>4, <2>2, <2>3, <2>4
  <2> QED
    BY <2>2, <2>3, <2>5 DEF Holds, ProgramWord
<1> QED
  BY <1>5, <1>6 DEF SegmentsInPlace

LEMMA ImageArguments ==
  ASSUME LoadInv, ImageInv, stage = "user"
  PROVE  ArgumentsInPlace
<1>1. AreasOK /\ todo = << >>
  BY DEF ImageInv
<1>2. \A a : ~ Brings(todo, a)
  BY <1>1, NothingComes
<1>3. /\ \A i \in 1 .. Len(HeaderData) : Holds(HeaderVa + i - 1, HeaderData[i])
      /\ \A i \in 1 .. Len(stdin) : Holds(StdinVa + i - 1, stdin[i])
      /\ \A i \in 1 .. Len(Args) : Holds(ArgsVa + i - 1, Args[i])
  BY <1>1, <1>2 DEF AreasOK, InPlace
<1>4. /\ HeaderVa \in Nat /\ DOMAIN stdin = 1 .. Len(stdin) /\ DOMAIN Args = 1 .. Len(Args)
      /\ Len(HeaderData) = Min({PageWords, Len(file.words)}) /\ Len(HeaderData) \in Nat
  BY DataPlaces, LenProperties
<1>5. Len(HeaderData) <= Len(file.words) /\ Len(file.words) \in Nat
  <2>1. Len(file.words) \in Nat /\ PageWords \in Nat
    BY FilesAssumption, LenProperties, PageWordsAssumption DEF LoadInv, LoadTypeOK
  <2> QED
    BY <1>4, <2>1 DEF Min
<1>6. ASSUME NEW k \in 0 .. Len(HeaderData) - 1
      PROVE  Holds(HeaderVa + k, file.words[k + 1])
  <2>1. k + 1 \in 1 .. Len(HeaderData) /\ HeaderVa + (k + 1) - 1 = HeaderVa + k /\ 0 + (k + 1) - 1 = k
        /\ k < Len(file.words)
    BY <1>4, <1>5
  <2>2. HeaderData[k + 1] = FileAt(0 + (k + 1) - 1)
    <3>1. k + 1 \in 1 .. Min({PageWords, Len(file.words)})
      BY <1>4, <2>1
    <3> QED
      BY <3>1 DEF HeaderData, FilePart
  <2>3. HeaderData[k + 1] = file.words[k + 1]
    BY <2>1, <2>2 DEF FileAt
  <2> QED
    BY <1>3, <2>1, <2>3
<1>7. \A k \in DOMAIN Args : Holds(StdoutVa - Len(Args) + k - 1, Args[k])
  BY <1>3, <1>4 DEF ArgsVa
<1> QED
  BY <1>3, <1>4, <1>6, <1>7 DEF ArgumentsInPlace

LEMMA ImageAreas ==
  ASSUME LoadInv, ImageInv
  PROVE  AreasMapped
<1>1. PICK lo \in Nat, hi \in Nat, in \in Nat, out \in Nat, stack \in Nat, heap \in Nat, brk \in Nat :
           /\ UserBottom = lo * PageWords /\ UserTop = hi * PageWords /\ UserPages = lo .. hi - 1
           /\ HeaderVa = (hi - 1) * PageWords /\ StdinVa = in * PageWords
           /\ StdinVa + Len(stdin) <= HeaderVa
           /\ StdoutVa = out * PageWords /\ StdoutVa + StdoutWords = in * PageWords
           /\ StackVa = stack * PageWords /\ StackVa + StackWords = out * PageWords
           /\ HeapBase = heap * PageWords /\ HeapBase + HeapWords = brk * PageWords
           /\ lo <= heap /\ heap <= brk /\ brk <= stack /\ stack <= out /\ out <= in /\ in <= hi - 1
           /\ StackVa <= StdoutVa - Len(Args)
  BY AreaPlaces DEF LoadInv, LoadTypeOK
<1>2. PICK si \in Nat, so \in Nat, st \in Nat, hb \in Nat, ht \in Nat :
        /\ si = StdinVa /\ so = StdoutVa /\ st = StackVa /\ hb = HeapBase /\ ht = HeapBase + HeapWords
        /\ ht <= st /\ st < so /\ so <= si
  <2>1. /\ in * PageWords \in Nat /\ out * PageWords \in Nat /\ stack * PageWords \in Nat
        /\ heap * PageWords \in Nat /\ brk * PageWords \in Nat
    BY PageStart
  <2>2. brk * PageWords <= stack * PageWords /\ out * PageWords <= in * PageWords
    <3>1. brk <= stack /\ out <= in
      BY <1>1
    <3> QED
      BY <3>1, PageOrder
  <2>3. StackWords \in Nat /\ StackWords >= 1
    BY LoaderAssumption, PageWordsAssumption
  <2>4. PICK x \in Nat, y \in Nat, z \in Nat, g \in Nat, t \in Nat :
          x = StdinVa /\ y = StdoutVa /\ z = StackVa /\ g = HeapBase /\ t = HeapBase + HeapWords
          /\ y = out * PageWords /\ x = in * PageWords /\ z = stack * PageWords /\ t = brk * PageWords
          /\ z + StackWords = y
    BY <1>1, <2>1
  <2>5. t <= z /\ z < y /\ y <= x
    BY <2>2, <2>3, <2>4
  <2> QED
    BY <2>4, <2>5
<1>3. stage = "args" => (StdoutVa - 1) \div PageWords \in DOMAIN space
  <2>1. so - 1 \in st .. so - 1
    BY <1>2
  <2> QED
    BY <1>2, <2>1 DEF ImageInv, AreasOK
<1>4. ASSUME stage = "user", NEW a \in (st .. si - 1) \cup (hb .. ht - 1)
      PROVE  /\ a \div PageWords \in DOMAIN space
             /\ \/ \E k \in Loaded : \E b \in MemPlace(k) : b \div PageWords = a \div PageWords
                \/ ReadWrite \subseteq space[a \div PageWords].flags
  <2>1. AreasOK /\ RightsOK /\ todo = << >>
    BY <1>4 DEF ImageInv
  <2>2. \A x : Reached(x) => x \div PageWords \in DOMAIN space
    BY <2>1, NothingComes DEF Reached
  <2>3. MappedFrom(so, si) /\ MappedFrom(st, so) /\ MappedFrom(hb, ht)
    BY <1>2, <1>4, <2>1 DEF AreasOK
  <2>4. a \in st .. so - 1 \/ a \in so .. si - 1 \/ a \in hb .. ht - 1
    BY <1>2
  <2>5. a \div PageWords \in DOMAIN space
    BY <2>2, <2>3, <2>4 DEF MappedFrom
  <2>6. a \in Nat /\ a < si
    BY <1>2
  <2>7. PICK v \in Nat : v = a \div PageWords /\ v * PageWords <= a
    BY <2>6, FloorCeil
  <2>8. ~ v * PageWords >= si
    <3>1. v * PageWords \in Nat
      BY PageStart
    <3> QED
      BY <2>6, <2>7, <3>1
  <2> QED
    BY <1>2, <2>1, <2>5, <2>7, <2>8 DEF RightsOK
<1>5. ASSUME stage = "user",
             NEW a \in (StackVa .. StdinVa - 1) \cup (HeapBase .. HeapBase + HeapWords - 1)
      PROVE  /\ a \div PageWords \in DOMAIN space
             /\ {b \in UNION {MemPlace(k) : k \in Loaded} : b \div PageWords = a \div PageWords} = {}
                  => ReadWrite \subseteq space[a \div PageWords].flags
  <2>1. a \in (st .. si - 1) \cup (hb .. ht - 1)
    <3>1. StackVa .. StdinVa - 1 = st .. si - 1
      BY <1>2
    <3>2. HeapBase .. HeapBase + HeapWords - 1 = hb .. ht - 1
      <4>1. HeapBase \in Nat /\ HeapWords \in Nat
        BY LoaderAssumption
      <4>2. ht = hb + HeapWords
        BY <1>2
      <4> QED
        BY <1>2, <4>1, <4>2
    <3> QED
      BY <1>5, <3>1, <3>2
  <2>2. /\ a \div PageWords \in DOMAIN space
        /\ \/ \E k \in Loaded : \E b \in MemPlace(k) : b \div PageWords = a \div PageWords
           \/ ReadWrite \subseteq space[a \div PageWords].flags
    BY <1>4, <1>5, <2>1
  <2>3. PICK v : v = a \div PageWords
    OBVIOUS
  <2> QED
    BY <2>2, <2>3
<1> QED
  BY <1>3, <1>5 DEF AreasMapped

\* What a program is entered with, whatever its headers say and however its
\* segments overlap: its own segments, the later ones on top, with zeros behind
\* them; the first page of its file, its input and its arguments; and an output
\* buffer, a stack and a heap that are mapped (load_elf, do_judge, map_and_copy).
THEOREM ImageComplete == LoadSpec => []ImageInPlace
<1>1. LoadInit => ImageInv
  BY LoadInitImage
<1>2. LoadInv /\ ImageInv /\ [LoadNext]_loadVars => ImageInv'
  BY ImageNext
<1>3. LoadInv /\ ImageInv => ImageInPlace
  BY ImageSegments, ImageArguments, ImageAreas DEF ImageInPlace
<1> QED
  BY <1>1, <1>2, <1>3, LoadInvariance, PTL DEF LoadSpec

-----------------------------------------------------------------------------
(* Numbers and levels. *)

\* A set of naturals has a least element.
LEMMA Least ==
  ASSUME NEW S \in SUBSET Nat, S # {}
  PROVE  \E m \in S : \A k \in S : m <= k
<1> DEFINE R == {p \in Nat \X Nat : p[1] < p[2]}
<1>1. IsWellFoundedOn(R, Nat)
  BY NatLessThanWellFounded DEF OpToRel
<1>2. PICK m \in S : \A k \in S : ~ (<<k, m>> \in R)
  BY <1>1, WFMin
<1>3. ASSUME NEW k \in S PROVE m <= k
  <2>1. k \in Nat /\ m \in Nat /\ <<k, m>> \notin R
    BY <1>2
  <2> QED
    BY <2>1 DEF R
<1> QED
  BY <1>3

\* What holds of 0 and of every number after one it holds of, holds up to n.
LEMMA UpTo ==
  ASSUME NEW n \in Nat, NEW S \in SUBSET (0 .. n), 0 \in S,
         \A l \in 0 .. n - 1 : l \in S => l + 1 \in S
  PROVE  S = 0 .. n
<1> DEFINE E == (0 .. n) \ S
<1> SUFFICES ASSUME ~ (0 .. n \subseteq S) PROVE FALSE
  OBVIOUS
<1>0. E \in SUBSET Nat /\ E # {}
  OBVIOUS
<1>1. PICK k \in E : \A j \in E : k <= j
  BY <1>0, Least
<1>2. k \in 1 .. n
  OBVIOUS
<1>3. k - 1 \in S
  BY <1>1, <1>2
<1>4. (k - 1) + 1 \in S
  BY <1>2, <1>3
<1> QED
  BY <1>2, <1>4

\* And downwards.
LEMMA DownTo ==
  ASSUME NEW n \in Nat, NEW S \in SUBSET (0 .. n), n \in S,
         \A l \in 0 .. n - 1 : l + 1 \in S => l \in S
  PROVE  S = 0 .. n
<1> DEFINE T == {k \in 0 .. n : n - k \in S}
<1>1. 0 \in T
  OBVIOUS
<1>2. ASSUME NEW k \in 0 .. n - 1, k \in T PROVE k + 1 \in T
  <2>1. n - (k + 1) \in 0 .. n - 1 /\ (n - (k + 1)) + 1 \in S
    BY <1>2
  <2> QED
    BY <2>1
<1>3. T = 0 .. n
  <2> HIDE DEF T
  <2>1. T \in SUBSET (0 .. n)
    BY DEF T
  <2> QED
    BY <1>1, <1>2, <2>1, UpTo
<1>4. ASSUME NEW k \in 0 .. n PROVE k \in S
  <2>1. n - k \in T
    BY <1>3
  <2> QED
    BY <2>1
<1> QED
  BY <1>4

\* Span is a function.
LEMMA SpanDef ==
  Span = [l \in 0 .. Levels |-> IF l = 0 THEN 1 ELSE PageWords * Span[l - 1]]
<1> DEFINE P(f) == f = [l \in 0 .. Levels |-> IF l = 0 THEN 1 ELSE PageWords * f[l - 1]]
           Q(n, f) == f[0] = 1 /\ \A l \in 1 .. n : f[l] = PageWords * f[l - 1]
           S == {n \in 0 .. Levels : \E f \in [0 .. n -> Int] : Q(n, f)}
<1>1. 0 \in S
  <2>1. Q(0, [l \in 0 .. 0 |-> 1])
    OBVIOUS
  <2>2. [l \in 0 .. 0 |-> 1] \in [0 .. 0 -> Int]
    OBVIOUS
  <2>3. 0 \in 0 .. Levels
    BY ShapeAssumption
  <2> HIDE DEF Q
  <2> QED
    BY <2>1, <2>2, <2>3
<1>2. ASSUME NEW n \in 0 .. Levels - 1, n \in S PROVE n + 1 \in S
  <2>1. PICK f \in [0 .. n -> Int] : Q(n, f)
    BY <1>2
  <2> DEFINE g == [l \in 0 .. n + 1 |-> IF l <= n THEN f[l] ELSE PageWords * f[n]]
  <2>2. Levels \in Nat /\ PageWords \in Int
    BY ShapeAssumption, PageWordsAssumption
  <2>3. g \in [0 .. n + 1 -> Int]
    <3>1. \A x, y \in Int : x * y \in Int
      OBVIOUS
    <3>2. PageWords * f[n] \in Int
      BY <2>2, <3>1
    <3> HIDE DEF P, Q, S
    <3> QED
      BY <2>2, <3>2
  <2>4. Q(n + 1, g)
    <3>1. g[0] = 1
      BY <2>1, <2>2
    <3>2. ASSUME NEW l \in 1 .. n + 1 PROVE g[l] = PageWords * g[l - 1]
      BY <2>1, <2>2
    <3> QED
      BY <3>1, <3>2
  <2> HIDE DEF g, Q
  <2> QED
    BY <2>2, <2>3, <2>4
<1>3. Levels \in S
  <2>1. Levels \in Nat /\ S \in SUBSET (0 .. Levels)
    BY ShapeAssumption
  <2> HIDE DEF S
  <2>2. S = 0 .. Levels
    BY <1>1, <1>2, <2>1, UpTo
  <2> QED
    BY <2>1, <2>2
<1>4. PICK f \in [0 .. Levels -> Int] : Q(Levels, f)
  BY <1>3
<1>5. P(f)
  BY <1>4, ShapeAssumption
<1>6. P(CHOOSE g : P(g))
  <2> HIDE DEF P
  <2> QED
    BY <1>5, Zenon
<1> QED
  BY <1>6, Zenon DEF Span

\* The pages under an entry: as many as the tables below it have entries.
LEMMA SpanFacts ==
  /\ Span[0] = 1
  /\ \A l \in 0 .. Levels : Span[l] \in Nat \ {0}
  /\ \A l \in 0 .. Levels - 1 : Span[l + 1] = PageWords * Span[l]
<1>1. Levels \in Nat /\ Levels > 0 /\ PageWords \in Nat \ {0}
  BY ShapeAssumption, PageWordsAssumption
<1>2. Span[0] = 1 /\ \A l \in 1 .. Levels : Span[l] = PageWords * Span[l - 1]
  BY <1>1, SpanDef
<1>3. \A l \in 0 .. Levels - 1 : Span[l + 1] = PageWords * Span[l]
  BY <1>1, <1>2
<1> DEFINE S == {l \in 0 .. Levels : Span[l] \in Nat \ {0}}
<1>4. 0 \in S
  BY <1>1, <1>2
<1>5. ASSUME NEW l \in 0 .. Levels - 1, l \in S PROVE l + 1 \in S
  <2>1. \A x, y \in Nat \ {0} : x * y \in Nat \ {0}
    OBVIOUS
  <2>2. Span[l + 1] \in Nat \ {0}
    BY <1>1, <1>3, <1>5, <2>1
  <2> QED
    BY <1>1, <2>2
<1>6. S = 0 .. Levels
  <2>1. S \in SUBSET (0 .. Levels)
    OBVIOUS
  <2> HIDE DEF S
  <2> QED
    BY <1>1, <1>4, <1>5, <2>1, UpTo
<1> QED
  BY <1>2, <1>3, <1>6

\* Division by a product is one division after the other.
LEMMA DivDiv ==
  ASSUME NEW v \in Nat, NEW p \in Nat \ {0}, NEW s \in Nat \ {0}
  PROVE  v \div (p * s) = (v \div s) \div p
<1> DEFINE x == v \div s
           a == v % s
           y == x \div p
           b == x % p
<1>1. x \in Nat /\ a \in Nat /\ a < s /\ v = s * x + a
  BY SMT
<1>2. y \in Nat /\ b \in Nat /\ b < p /\ x = p * y + b
  <2> HIDE DEF x
  <2> QED
    BY <1>1, SMT
<1> HIDE DEF x, a, y, b
<1>3. v = (p * s) * y + (s * b + a)
  <2>1. s * x = s * (p * y) + s * b
    BY <1>1, <1>2, SMT
  <2>2. s * (p * y) = (p * s) * y
    BY <1>2, SMT
  <2> QED
    BY <1>1, <1>2, <2>1, <2>2, SMT
<1>4. s * b + a < p * s /\ s * b + a \in Nat
  <2>1. s * b <= s * (p - 1)
    BY <1>2, SMT
  <2>2. s * (p - 1) = p * s - s
    BY SMT
  <2>3. s * b \in Nat
    BY <1>2, SMT
  <2> QED
    BY <1>1, <2>1, <2>2, <2>3, SMT
<1>5. p * s \in Nat \ {0}
  BY SMT
<1>6. \A q \in Nat \ {0} : \A d \in Nat, e \in Nat : e < q => (q * d + e) \div q = d
  BY SMT
<1>7. v \div (p * s) = y
  <2> DEFINE q == p * s
             e == s * b + a
  <2>1. v = q * y + e /\ e < q /\ e \in Nat /\ q \in Nat \ {0}
    BY <1>3, <1>4, <1>5
  <2> HIDE DEF q, e
  <2>2. v \div q = y
    BY <1>2, <1>6, <2>1
  <2> QED
    BY <2>2 DEF q
<1> QED
  BY <1>7 DEF y, x

\* Levels.
LEMMA LevelFacts ==
  /\ Top \in Nat /\ Level = 0 .. Top /\ Top + 1 = Levels /\ Levels \in Nat /\ Levels > 0
  /\ \A l \in Level : l \in 0 .. Levels /\ l + 1 \in 0 .. Levels /\ l \in 0 .. Levels - 1
  BY ShapeAssumption DEF Top, Level

\* The entry that v belongs to, among all there are at a level.
Path(l, v) == v \div Span[l]

\* Two pages with the same path at a level have it at every level above.
LEMMA PathFacts ==
  ASSUME NEW v \in Nat
  PROVE  /\ \A l \in 0 .. Levels : Path(l, v) \in Nat
         /\ Path(0, v) = v
         /\ v \in VPages => Path(Levels, v) = 0
         /\ \A l \in Level : PtIdx(l, v) \in Offsets /\ PtIdx(l, v) = Path(l, v) % PageWords
         /\ \A l \in Level : Path(l + 1, v) = Path(l, v) \div PageWords
<1>1. \A s \in Nat \ {0} : v \div s \in Nat /\ v \div 1 = v /\ (v \in 0 .. s - 1 => v \div s = 0)
  BY SMT
<1>2. \A l \in 0 .. Levels : Path(l, v) \in Nat
  BY <1>1, SpanFacts DEF Path
<1>3. Path(0, v) = v
  BY <1>1, SpanFacts DEF Path
<1>4. ASSUME v \in VPages PROVE Path(Levels, v) = 0
  <2>1. Span[Levels] \in Nat \ {0} /\ v \in 0 .. Span[Levels] - 1
    BY <1>4, SpanFacts, LevelFacts DEF VPages
  <2> QED
    BY <1>1, <2>1 DEF Path
<1>5. ASSUME NEW l \in Level
      PROVE  PtIdx(l, v) \in Offsets /\ PtIdx(l, v) = Path(l, v) % PageWords
  <2>1. \A x \in Nat, p \in Nat \ {0} : x % p \in 0 .. p - 1
    BY SMT
  <2>2. Path(l, v) \in Nat /\ PtIdx(l, v) = Path(l, v) % PageWords
    BY <1>2, LevelFacts DEF Path, PtIdx
  <2> QED
    BY <2>1, <2>2, PageWordsAssumption DEF Offsets
<1>6. ASSUME NEW l \in Level PROVE Path(l + 1, v) = Path(l, v) \div PageWords
  <2>1. Span[l] \in Nat \ {0} /\ Span[l + 1] = PageWords * Span[l]
    BY SpanFacts, LevelFacts
  <2>2. v \div (PageWords * Span[l]) = (v \div Span[l]) \div PageWords
    BY <2>1, DivDiv, PageWordsAssumption
  <2> QED
    BY <2>1, <2>2 DEF Path
<1> QED
  BY <1>2, <1>3, <1>4, <1>5, <1>6

\* Two pages belong to one entry when they belong to one table, at one index.
LEMMA SameEntry ==
  ASSUME NEW v \in Nat, NEW w \in Nat, NEW l \in Level
  PROVE  Path(l, v) = Path(l, w) <=>
           Path(l + 1, v) = Path(l + 1, w) /\ PtIdx(l, v) = PtIdx(l, w)
<1>1. \A x, y \in Nat, p \in Nat \ {0} : x \div p = y \div p /\ x % p = y % p => x = y
  <2> SUFFICES ASSUME NEW x \in Nat, NEW y \in Nat, NEW p \in Nat \ {0},
                      x \div p = y \div p, x % p = y % p
               PROVE  x = y
    OBVIOUS
  <2>1. x = p * (x \div p) + (x % p) /\ y = p * (y \div p) + (y % p)
    BY SMT
  <2> QED
    BY <2>1
<1>2. Path(l, v) \in Nat /\ Path(l, w) \in Nat
  BY PathFacts, LevelFacts
<1>3. /\ PtIdx(l, v) = Path(l, v) % PageWords /\ PtIdx(l, w) = Path(l, w) % PageWords
      /\ Path(l + 1, v) = Path(l, v) \div PageWords /\ Path(l + 1, w) = Path(l, w) \div PageWords
  BY PathFacts
<1> QED
  BY <1>1, <1>2, <1>3, PageWordsAssumption

\* The memory that tables lie in.
Memories == [Page -> [Offsets -> Word]]
PageOrNone == Page \cup {NoPage}

\* What an entry leads to is a page, or nothing.
LEMMA UnderType ==
  ASSUME NEW m \in Memories, NEW t \in PageOrNone, NEW l \in Level, NEW v \in Nat
  PROVE  Under(m, t, l, v) \in PageOrNone
<1>1. PtIdx(l, v) \in Offsets
  BY PathFacts
<1>2. t # NoPage => m[t][PtIdx(l, v)] \in Word
  BY <1>1 DEF Memories, PageOrNone
<1> QED
  BY <1>2, ZeroAssumption DEF Under, Word, PageOrNone

\* A walk starts at the root and goes on from each table to the one below.
LEMMA WalkDef ==
  ASSUME NEW m \in Memories, NEW r \in PageOrNone, NEW v \in Nat
  PROVE  /\ Walk(m, r, v) \in [Level -> PageOrNone]
         /\ Walk(m, r, v)[Top] = r
         /\ \A l \in 0 .. Top - 1 : Walk(m, r, v)[l] = Under(m, Walk(m, r, v)[l + 1], l + 1, v)
<1> DEFINE P(f) == f = [l \in Level |-> IF l = Top THEN r ELSE Under(m, f[l + 1], l + 1, v)]
           Q(n, f) == f[Top] = r /\ \A l \in n .. Top - 1 : f[l] = Under(m, f[l + 1], l + 1, v)
           S == {n \in 0 .. Top : \E f \in [n .. Top -> PageOrNone] : Q(n, f)}
<1>0. Top \in Nat /\ Level = 0 .. Top
  BY LevelFacts
<1>1. Top \in S
  <2>1. Q(Top, [l \in Top .. Top |-> r])
    BY <1>0
  <2>2. [l \in Top .. Top |-> r] \in [Top .. Top -> PageOrNone]
    OBVIOUS
  <2>3. Top \in 0 .. Top
    BY <1>0
  <2> HIDE DEF Q
  <2> QED
    BY <2>1, <2>2, <2>3
<1>2. ASSUME NEW n \in 0 .. Top - 1, n + 1 \in S PROVE n \in S
  <2>1. PICK f \in [n + 1 .. Top -> PageOrNone] : Q(n + 1, f)
    BY <1>2
  <2> DEFINE g == [l \in n .. Top |-> IF l = n THEN Under(m, f[n + 1], n + 1, v) ELSE f[l]]
  <2>2. n + 1 \in Level /\ n + 1 \in n + 1 .. Top
    BY <1>0
  <2>3. Under(m, f[n + 1], n + 1, v) \in PageOrNone
    BY <2>2, UnderType
  <2>4. g \in [n .. Top -> PageOrNone]
    BY <1>0, <2>3
  <2>5. Q(n, g)
    <3>1. g[Top] = r
      BY <1>0, <2>1
    <3>2. ASSUME NEW l \in n .. Top - 1 PROVE g[l] = Under(m, g[l + 1], l + 1, v)
      <4>1. g[l + 1] = f[l + 1]
        BY <1>0
      <4>2. CASE l = n
        BY <1>0, <4>1, <4>2
      <4>3. CASE l # n
        <5>1. l \in n + 1 .. Top - 1 /\ g[l] = f[l]
          BY <1>0, <4>3
        <5> QED
          BY <2>1, <4>1, <5>1
      <4> QED
        BY <4>2, <4>3
    <3> QED
      BY <3>1, <3>2
  <2>6. n \in 0 .. Top
    BY <1>0
  <2> HIDE DEF g, Q
  <2> QED
    BY <2>4, <2>5, <2>6
<1>3. 0 \in S
  <2>1. S \in SUBSET (0 .. Top)
    OBVIOUS
  <2> HIDE DEF S
  <2>2. S = 0 .. Top
    BY <1>0, <1>1, <1>2, <2>1, DownTo
  <2> QED
    BY <1>0, <2>2
<1>4. PICK f \in [0 .. Top -> PageOrNone] : Q(0, f)
  BY <1>3
<1>5. P(f)
  BY <1>0, <1>4
<1>6. P(CHOOSE g : P(g))
  <2> HIDE DEF P
  <2> QED
    BY <1>5, Zenon
<1>7. P(Walk(m, r, v))
  BY <1>6, Zenon DEF Walk
<1> DEFINE g == Walk(m, r, v)
<1>8. g = [l \in Level |-> IF l = Top THEN r ELSE Under(m, g[l + 1], l + 1, v)]
  BY <1>7
<1> HIDE DEF g, P, S, Q
<1>9. g[Top] = r /\ \A l \in 0 .. Top - 1 : g[l] = Under(m, g[l + 1], l + 1, v)
  BY <1>0, <1>8
<1> DEFINE T == {l \in 0 .. Top : g[l] \in PageOrNone}
<1>10. Top \in T
  BY <1>0, <1>9
<1>11. ASSUME NEW l \in 0 .. Top - 1, l + 1 \in T PROVE l \in T
  <2>1. l + 1 \in Level /\ l \in 0 .. Top
    BY <1>0
  <2>2. g[l] \in PageOrNone
    BY <1>9, <1>11, <2>1, UnderType
  <2> QED
    BY <2>1, <2>2
<1>12. T = 0 .. Top
  <2>1. T \in SUBSET (0 .. Top)
    OBVIOUS
  <2> HIDE DEF T
  <2> QED
    BY <1>0, <1>10, <1>11, <2>1, DownTo
<1>13. g \in [Level -> PageOrNone]
  <2>1. g = [l \in Level |-> g[l]]
    BY <1>8
  <2>2. \A l \in Level : g[l] \in PageOrNone
    BY <1>0, <1>12
  <2> QED
    BY <2>1, <2>2
<1> QED
  BY <1>9, <1>13 DEF g

\* Nothing else does.
LEMMA WalkUnique ==
  ASSUME NEW m \in Memories, NEW r \in PageOrNone, NEW v \in Nat, NEW f \in [Level -> PageOrNone],
         f[Top] = r, \A l \in 0 .. Top - 1 : f[l] = Under(m, f[l + 1], l + 1, v)
  PROVE  Walk(m, r, v) = f
<1> DEFINE g == Walk(m, r, v)
           S == {l \in 0 .. Top : g[l] = f[l]}
<1>1. /\ g \in [Level -> PageOrNone] /\ g[Top] = r
      /\ \A l \in 0 .. Top - 1 : g[l] = Under(m, g[l + 1], l + 1, v)
  BY WalkDef
<1>2. Top \in Nat /\ Level = 0 .. Top
  BY LevelFacts
<1> HIDE DEF g
<1>3. Top \in S
  BY <1>1, <1>2
<1>4. ASSUME NEW l \in 0 .. Top - 1, l + 1 \in S PROVE l \in S
  <2>1. g[l + 1] = f[l + 1] /\ l \in 0 .. Top
    BY <1>2, <1>4
  <2> QED
    BY <1>1, <2>1
<1>5. S = 0 .. Top
  <2>1. S \in SUBSET (0 .. Top)
    OBVIOUS
  <2> HIDE DEF S
  <2> QED
    BY <1>2, <1>3, <1>4, <2>1, DownTo
<1>6. \A l \in Level : g[l] = f[l]
  BY <1>2, <1>5
<1> HIDE DEF S
<1> QED
  BY <1>1, <1>6 DEF g

\* The table at a level depends on the path to it only.
LEMMA WalkPath ==
  ASSUME NEW m \in Memories, NEW r \in PageOrNone, NEW v \in VPages, NEW w \in VPages,
         NEW l \in Level, Path(l + 1, v) = Path(l + 1, w)
  PROVE  Walk(m, r, v)[l] = Walk(m, r, w)[l]
<1> DEFINE f == Walk(m, r, v)
           g == Walk(m, r, w)
           S == {k \in 0 .. Top : Path(k + 1, v) = Path(k + 1, w) => f[k] = g[k]}
<1>1. Top \in Nat /\ Level = 0 .. Top /\ Top + 1 = Levels /\ v \in Nat /\ w \in Nat
  BY LevelFacts DEF VPages
<1>2. /\ f[Top] = r /\ \A k \in 0 .. Top - 1 : f[k] = Under(m, f[k + 1], k + 1, v)
      /\ g[Top] = r /\ \A k \in 0 .. Top - 1 : g[k] = Under(m, g[k + 1], k + 1, w)
  <2>1. f[Top] = r /\ \A k \in 0 .. Top - 1 : f[k] = Under(m, f[k + 1], k + 1, v)
    BY <1>1, WalkDef
  <2>2. g[Top] = r /\ \A k \in 0 .. Top - 1 : g[k] = Under(m, g[k + 1], k + 1, w)
    BY <1>1, WalkDef
  <2> QED
    BY <2>1, <2>2
<1> HIDE DEF f, g
<1>3. Top \in S
  BY <1>1, <1>2
<1>4. ASSUME NEW k \in 0 .. Top - 1, k + 1 \in S PROVE k \in S
  <2> SUFFICES ASSUME Path(k + 1, v) = Path(k + 1, w) PROVE f[k] = g[k]
    BY <1>1
  <2>1. k + 1 \in Level /\ (k + 1) + 1 = k + 2
    BY <1>1
  <2>2. Path((k + 1) + 1, v) = Path((k + 1) + 1, w) /\ PtIdx(k + 1, v) = PtIdx(k + 1, w)
    BY <1>1, <2>1, SameEntry
  <2>3. f[k + 1] = g[k + 1]
    BY <1>4, <2>2
  <2> QED
    BY <1>1, <1>2, <2>2, <2>3 DEF Under
<1>5. S = 0 .. Top
  <2>1. S \in SUBSET (0 .. Top)
    OBVIOUS
  <2> HIDE DEF S
  <2> QED
    BY <1>1, <1>3, <1>4, <2>1, DownTo
<1> QED
  BY <1>1, <1>5 DEF f, g

\* Where the entries of the tables on the way to v stay, so does the way.
LEMMA SameWalk ==
  ASSUME NEW m \in Memories, NEW n \in Memories, NEW r \in PageOrNone, NEW v \in Nat,
         \A l \in 1 .. Top : Walk(m, r, v)[l] # NoPage =>
           n[Walk(m, r, v)[l]][PtIdx(l, v)] = m[Walk(m, r, v)[l]][PtIdx(l, v)]
  PROVE  Walk(n, r, v) = Walk(m, r, v)
<1> DEFINE f == Walk(m, r, v)
<1>1. Top \in Nat /\ Level = 0 .. Top
  BY LevelFacts
<1>2. f \in [Level -> PageOrNone] /\ f[Top] = r /\ \A l \in 0 .. Top - 1 : f[l] = Under(m, f[l + 1], l + 1, v)
  BY WalkDef
<1>3. \A l \in 1 .. Top : f[l] # NoPage => n[f[l]][PtIdx(l, v)] = m[f[l]][PtIdx(l, v)]
  OBVIOUS
<1> HIDE DEF f
<1>4. ASSUME NEW l \in 0 .. Top - 1 PROVE f[l] = Under(n, f[l + 1], l + 1, v)
  <2>1. l + 1 \in 1 .. Top
    BY <1>1
  <2>2. Under(n, f[l + 1], l + 1, v) = Under(m, f[l + 1], l + 1, v)
    BY <1>3, <2>1 DEF Under
  <2> QED
    BY <1>2, <2>2
<1>5. Walk(n, r, v) = f
  BY <1>2, <1>4, WalkUnique
<1> QED
  BY <1>5 DEF f

\* A new empty table in place of an entry that was not valid is on the way to the
\* pages of that entry, one level below, and nothing else changes.
LEMMA GrownWalk ==
  ASSUME NEW m \in Memories, NEW n \in Memories, NEW r \in PageOrNone,
         NEW v0 \in VPages, NEW k \in 1 .. Top, NEW t \in Page, t = Walk(m, r, v0)[k],
         ~ m[t][PtIdx(k, v0)].valid,
         NEW p \in Page, n[p] = ZeroPage,
         n[t][PtIdx(k, v0)].valid, n[t][PtIdx(k, v0)].page = p,
         \A q \in Page \ {p}, i \in Offsets :
           ~ (q = t /\ i = PtIdx(k, v0)) => n[q][i] = m[q][i],
         NEW v \in VPages,
         \A l \in Level : Walk(m, r, v)[l] # p,
         \A l \in Level : Walk(m, r, v)[l] = t => l = k /\ Path(k + 1, v) = Path(k + 1, v0)
  PROVE  Walk(n, r, v) =
           [l \in Level |-> IF l = k - 1 /\ Path(k, v) = Path(k, v0) THEN p ELSE Walk(m, r, v)[l]]
<1> DEFINE w == Walk(m, r, v)
           f == [l \in Level |-> IF l = k - 1 /\ Path(k, v) = Path(k, v0) THEN p ELSE w[l]]
           i0 == PtIdx(k, v0)
<1>1. Top \in Nat /\ Level = 0 .. Top /\ v \in Nat /\ v0 \in Nat /\ k \in Level
  BY LevelFacts DEF VPages
<1>2. /\ w \in [Level -> PageOrNone] /\ w[Top] = r
      /\ \A l \in 0 .. Top - 1 : w[l] = Under(m, w[l + 1], l + 1, v)
  <2> HIDE DEF f, i0
  <2>1. w \in [Level -> PageOrNone]
    BY <1>1, WalkDef
  <2>2. w[Top] = r
    BY <1>1, WalkDef
  <2>3. \A l \in 0 .. Top - 1 : w[l] = Under(m, w[l + 1], l + 1, v)
    BY <1>1, WalkDef
  <2> QED
    BY <2>1, <2>2, <2>3
<1>3. NoPage \notin Page /\ ~ Zero.valid
  BY ShapeAssumption, ZeroAssumption
<1>4. Path(k, v) = Path(k, v0) <=> Path(k + 1, v) = Path(k + 1, v0) /\ PtIdx(k, v) = i0
  BY <1>1, SameEntry
<1>5. ASSUME Path(k, v) = Path(k, v0) PROVE w[k] = t
  <2>1. Path(k + 1, v) = Path(k + 1, v0)
    BY <1>4, <1>5
  <2>2. Walk(m, r, v)[k] = Walk(m, r, v0)[k]
    BY <1>1, <2>1, WalkPath
  <2> QED
    BY <2>2
<1>6. \A l \in Level : PtIdx(l, v) \in Offsets
  BY <1>1, PathFacts
<1>7. \A l \in Level : w[l] # p /\ (w[l] = t => l = k /\ Path(k + 1, v) = Path(k + 1, v0))
  OBVIOUS
<1>8. \A i \in Offsets : n[p][i] = Zero
  BY DEF ZeroPage
<1> HIDE DEF w, i0
<1>9. ASSUME NEW l \in 0 .. Top - 1 PROVE f[l] = Under(n, f[l + 1], l + 1, v)
  <2>1. l \in Level /\ l + 1 \in Level /\ w[l] = Under(m, w[l + 1], l + 1, v)
    BY <1>1, <1>2
  <2>2. CASE l = k - 1 /\ Path(k, v) = Path(k, v0)
    <3>1. f[l] = p /\ l + 1 = k /\ f[l + 1] = t
      BY <1>1, <1>5, <2>1, <2>2
    <3>2. PtIdx(k, v) = i0
      BY <1>4, <2>2
    <3> HIDE DEF f
    <3> QED
      BY <1>3, <3>1, <3>2 DEF Under, i0
  <2>3. CASE l + 1 = k - 1 /\ Path(k, v) = Path(k, v0)
    <3>1. f[l] = w[l] /\ f[l + 1] = p
      BY <1>1, <2>1, <2>3
    <3>2. w[k - 1] = Under(m, w[k], k, v)
      <4>1. k - 1 \in 0 .. Top - 1 /\ (k - 1) + 1 = k
        BY <1>1
      <4>2. w[k - 1] = Under(m, w[(k - 1) + 1], (k - 1) + 1, v)
        BY <1>2, <4>1
      <4> QED
        BY <4>1, <4>2
    <3>3. w[k - 1] = NoPage
      <4>1. w[k] = t /\ PtIdx(k, v) = PtIdx(k, v0)
        BY <1>4, <1>5, <2>3 DEF i0
      <4>2. ~ m[t][PtIdx(k, v)].valid /\ t # NoPage
        BY <1>3, <4>1
      <4> QED
        BY <3>2, <4>1, <4>2 DEF Under
    <3>4. w[l] = NoPage
      BY <1>3, <2>1, <2>3, <3>3 DEF Under
    <3>5. Under(n, p, l + 1, v) = NoPage
      BY <1>3, <1>6, <1>8, <2>1 DEF Under
    <3> HIDE DEF f
    <3> QED
      BY <3>1, <3>4, <3>5
  <2>4. CASE Path(k, v) # Path(k, v0) \/ (l # k - 1 /\ l + 1 # k - 1)
    <3>1. f[l] = w[l] /\ f[l + 1] = w[l + 1]
      BY <1>1, <2>1, <2>4
    <3>2. ASSUME w[l + 1] # NoPage
          PROVE  n[w[l + 1]][PtIdx(l + 1, v)] = m[w[l + 1]][PtIdx(l + 1, v)]
      <4>1. w[l + 1] \in Page \ {p} /\ PtIdx(l + 1, v) \in Offsets
        BY <1>2, <1>6, <1>7, <2>1, <3>2 DEF PageOrNone
      <4>2. ~ (w[l + 1] = t /\ PtIdx(l + 1, v) = i0)
        <5> SUFFICES ASSUME w[l + 1] = t, PtIdx(l + 1, v) = i0 PROVE FALSE
          OBVIOUS
        <5>1. l + 1 = k /\ Path(k + 1, v) = Path(k + 1, v0)
          BY <1>7, <2>1
        <5>2. Path(k, v) = Path(k, v0)
          BY <1>4, <5>1
        <5> QED
          BY <2>4, <5>1, <5>2
      <4> QED
        BY <4>1, <4>2 DEF i0
    <3> HIDE DEF f
    <3> QED
      BY <2>1, <3>1, <3>2 DEF Under
  <2> HIDE DEF f
  <2> QED
    BY <2>2, <2>3, <2>4
<1>10. f \in [Level -> PageOrNone] /\ f[Top] = r
  BY <1>1, <1>2 DEF PageOrNone
<1> HIDE DEF f
<1>11. Walk(n, r, v) = f
  BY <1>1, <1>9, <1>10, WalkUnique
<1> QED
  BY <1>11 DEF f, w

-----------------------------------------------------------------------------
(* The tree. *)

\* What the walks are made over.
LEMMA MemType ==
  ASSUME TypeOK
  PROVE  mem \in Memories /\ root \in PageOrNone
  BY DEF TypeOK, Memories, PageOrNone

\* The walk to a page, level by level.
LEMMA TableFacts ==
  ASSUME TypeOK, NEW v \in VPages
  PROVE  /\ TableAt(v) \in [Level -> PageOrNone] /\ TableAt(v)[Top] = root
         /\ \A l \in 0 .. Top - 1 : TableAt(v)[l] = Under(mem, TableAt(v)[l + 1], l + 1, v)
  BY MemType, WalkDef DEF TableAt, VPages

\* A table is found at one place only.
LEMMA Apart ==
  ASSUME TreeShape, NEW v \in VPages, NEW w \in VPages, NEW l \in Level, NEW k \in Level,
         TableAt(v)[l] = TableAt(w)[k], TableAt(v)[l] # NoPage
  PROVE  l = k /\ Path(l + 1, v) = Path(l + 1, w)
  BY DEF TreeShape, TablesApart, Path

\* A table on the way to a page is one of the table pages.
LEMMA TablePage ==
  ASSUME NEW v \in VPages, NEW l \in Level, TableAt(v)[l] # NoPage
  PROVE  TableAt(v)[l] \in TablePages
  BY DEF TablePages

\* What a walk ends at.
LEMMA LeafFacts ==
  ASSUME TypeOK, NEW v \in VPages
  PROVE  /\ Leaf(v) \in Word /\ PtIdx(0, v) \in Offsets
         /\ Leaf(v) = IF TableAt(v)[0] = NoPage THEN Zero ELSE mem[TableAt(v)[0]][PtIdx(0, v)]
         /\ v \in Mapped <=> Leaf(v).valid
         /\ v \in Mapped => TableAt(v)[0] \in Page
<1>1. 0 \in Level /\ v \in Nat /\ NoPage \notin Page
  BY LevelFacts, ShapeAssumption DEF VPages
<1>2. PtIdx(0, v) \in Offsets /\ TableAt(v)[0] \in PageOrNone /\ mem \in Memories
  BY <1>1, PathFacts, TableFacts, MemType
<1>3. Leaf(v) = IF TableAt(v)[0] = NoPage THEN Zero ELSE mem[TableAt(v)[0]][PtIdx(0, v)]
  BY DEF Leaf
<1>4. Leaf(v) \in Word
  BY <1>2, <1>3, ZeroAssumption DEF Memories, PageOrNone, Word
<1>5. v \in Mapped <=> Leaf(v).valid
  BY DEF Mapped
<1>6. v \in Mapped => TableAt(v)[0] \in Page
  BY <1>2, <1>3, <1>5, ZeroAssumption DEF PageOrNone
<1> QED
  BY <1>2, <1>3, <1>4, <1>5, <1>6

\* The data of the program lies in pages of its own.
LEMMA DataFacts ==
  ASSUME TypeOK, TreeShape, NEW v \in Mapped
  PROVE  /\ v \in VPages /\ Leaf(v).page \in Page /\ Leaf(v).page \in DataPages
         /\ Leaf(v).page \notin TablePages
         /\ \A w \in Mapped : Leaf(v).page = Leaf(w).page => v = w
<1>1. v \in VPages /\ Leaf(v).page \in DataPages
  BY DEF Mapped, DataPages
<1>2. Leaf(v).page \in Page \ TablePages
  BY <1>1 DEF TreeShape, OneUse
<1>3. \A w \in Mapped : Leaf(v).page = Leaf(w).page => v = w
  BY DEF TreeShape, LeavesApart, IsInjective
<1> QED
  BY <1>1, <1>2, <1>3

\* A step that changes no table but one entry of the lowest level.
LEMMA EntryStep ==
  ASSUME TypeOK, TreeShape, mem' \in Memories, root' = root,
         NEW v0 \in VPages, NEW t \in Page, t = TableAt(v0)[0],
         \A q \in TablePages, i \in Offsets :
           ~ (q = t /\ i = PtIdx(0, v0)) => mem'[q][i] = mem[q][i],
         NEW v \in VPages
  PROVE  /\ TableAt(v)' = TableAt(v)
         /\ Leaf(v)' = IF v = v0 THEN mem'[t][PtIdx(0, v0)] ELSE Leaf(v)
<1>1. /\ v \in Nat /\ v0 \in Nat /\ Top \in Nat /\ Level = 0 .. Top /\ 0 \in Level
      /\ mem \in Memories /\ root \in PageOrNone
  BY MemType, LevelFacts DEF VPages
<1>2. \A l \in Level : PtIdx(l, v) \in Offsets
  BY <1>1, PathFacts
<1>3. NoPage \notin Page
  BY ShapeAssumption
<1>4. ASSUME NEW l \in 1 .. Top, TableAt(v)[l] # NoPage
      PROVE  mem'[TableAt(v)[l]][PtIdx(l, v)] = mem[TableAt(v)[l]][PtIdx(l, v)]
  <2>1. l \in Level /\ l # 0
    BY <1>1
  <2>2. TableAt(v)[l] # t
    BY <1>1, <1>4, <2>1, Apart
  <2>3. TableAt(v)[l] \in TablePages
    BY <1>4, <2>1, TablePage
  <2> QED
    BY <1>2, <2>1, <2>2, <2>3
<1>5. TableAt(v)' = TableAt(v)
  <2>1. \A l \in 1 .. Top : Walk(mem, root, v)[l] # NoPage =>
          mem'[Walk(mem, root, v)[l]][PtIdx(l, v)] = mem[Walk(mem, root, v)[l]][PtIdx(l, v)]
    BY <1>4 DEF TableAt
  <2>2. Walk(mem', root, v) = Walk(mem, root, v)
    BY <1>1, <2>1, SameWalk
  <2> QED
    BY <2>2 DEF TableAt
<1>6. Leaf(v)' = IF TableAt(v)[0] = NoPage THEN Zero ELSE mem'[TableAt(v)[0]][PtIdx(0, v)]
  BY <1>5 DEF Leaf
<1>7. CASE v = v0
  BY <1>3, <1>5, <1>6, <1>7
<1>8. CASE v # v0
  <2>1. SUFFICES ASSUME TableAt(v)[0] # NoPage
                 PROVE  mem'[TableAt(v)[0]][PtIdx(0, v)] = mem[TableAt(v)[0]][PtIdx(0, v)]
    BY <1>5, <1>6, <1>8 DEF Leaf
  <2>2. TableAt(v)[0] \in TablePages
    BY <1>1, <2>1, TablePage
  <2>3. ~ (TableAt(v)[0] = t /\ PtIdx(0, v) = PtIdx(0, v0))
    <3> SUFFICES ASSUME TableAt(v)[0] = TableAt(v0)[0], PtIdx(0, v) = PtIdx(0, v0) PROVE FALSE
      OBVIOUS
    <3>1. Path(0 + 1, v) = Path(0 + 1, v0)
      BY <1>1, <2>1, Apart
    <3>2. Path(0, v) = Path(0, v0)
      BY <1>1, <3>1, SameEntry
    <3> QED
      BY <1>1, <1>8, <3>2, PathFacts
  <2> QED
    BY <1>1, <1>2, <2>2, <2>3
<1> QED
  BY <1>5, <1>7, <1>8

\* A step that changes no table.
LEMMA DataStep ==
  ASSUME TypeOK, TreeShape, mem' \in Memories, root' = root,
         \A q \in TablePages, i \in Offsets : mem'[q][i] = mem[q][i],
         NEW v \in VPages
  PROVE  TableAt(v)' = TableAt(v) /\ Leaf(v)' = Leaf(v)
<1>1. /\ v \in Nat /\ Top \in Nat /\ Level = 0 .. Top /\ 0 \in Level
      /\ mem \in Memories /\ root \in PageOrNone
  BY MemType, LevelFacts DEF VPages
<1>2. \A l \in Level : PtIdx(l, v) \in Offsets
  BY <1>1, PathFacts
<1>3. ASSUME NEW l \in Level, TableAt(v)[l] # NoPage
      PROVE  mem'[TableAt(v)[l]][PtIdx(l, v)] = mem[TableAt(v)[l]][PtIdx(l, v)]
  BY <1>2, <1>3, TablePage
<1>4. TableAt(v)' = TableAt(v)
  <2>1. \A l \in 1 .. Top : Walk(mem, root, v)[l] # NoPage =>
          mem'[Walk(mem, root, v)[l]][PtIdx(l, v)] = mem[Walk(mem, root, v)[l]][PtIdx(l, v)]
    BY <1>1, <1>3 DEF TableAt
  <2>2. Walk(mem', root, v) = Walk(mem, root, v)
    BY <1>1, <2>1, SameWalk
  <2> QED
    BY <2>2 DEF TableAt
<1> QED
  BY <1>1, <1>3, <1>4 DEF Leaf

\* A step that keeps the tables, and what valid leaves point to, keeps the tree.
LEMMA KeptTree ==
  ASSUME TypeOK, TreeShape, Range(free') \subseteq Range(free),
         \A v \in VPages : /\ TableAt(v)' = TableAt(v)
                           /\ Leaf(v)'.valid = Leaf(v).valid /\ Leaf(v)'.page = Leaf(v).page,
         \A t \in TablePages, i \in Offsets : mem'[t][i].valid => mem'[t][i].page \in Page
  PROVE  TreeShape' /\ Mapped' = Mapped
<1>1. Mapped' = Mapped
  BY DEF Mapped
<1>2. TablePages' = TablePages
  BY DEF TablePages
<1>3. DataPages' = DataPages
  BY <1>1 DEF DataPages, Mapped
<1>4. TablesApart'
  BY DEF TreeShape, TablesApart
<1>5. LeavesApart'
  <2>1. \A v, w \in Mapped : Leaf(v).page = Leaf(w).page => v = w
    BY DataFacts
  <2>2. \A v, w \in Mapped' : Leaf(v)'.page = Leaf(w)'.page => v = w
    BY <1>1, <2>1 DEF Mapped
  <2> QED
    BY <2>2 DEF LeavesApart, IsInjective
<1>6. OneUse' /\ NoneFree'
  BY <1>2, <1>3 DEF TreeShape, OneUse, NoneFree
<1>7. EntriesPoint'
  BY <1>2 DEF EntriesPoint
<1> QED
  BY <1>1, <1>4, <1>5, <1>6, <1>7 DEF TreeShape

\* A step that maps a page that was free keeps it.
LEMMA LeafTree ==
  ASSUME TypeOK, TreeShape, NEW v0 \in VPages, v0 \notin Mapped,
         NEW p \in Page, p \in Range(free), Range(free') \subseteq Range(free) \ {p},
         \A v \in VPages : /\ TableAt(v)' = TableAt(v)
                           /\ v # v0 => Leaf(v)' = Leaf(v),
         Leaf(v0)'.valid, Leaf(v0)'.page = p,
         \A t \in TablePages, i \in Offsets : mem'[t][i].valid => mem'[t][i].page \in Page
  PROVE  TreeShape' /\ Mapped' = Mapped \cup {v0}
<1>1. Mapped' = Mapped \cup {v0}
  BY DEF Mapped
<1>2. TablePages' = TablePages
  BY DEF TablePages
<1>3. DataPages' = DataPages \cup {p}
  <2>1. \A q : q \in DataPages' <=> \E v \in Mapped' : q = Leaf(v)'.page
    BY DEF DataPages
  <2>2. \A q : q \in DataPages <=> \E v \in Mapped : q = Leaf(v).page
    BY DEF DataPages
  <2>3. \A v \in Mapped : v # v0 /\ v \in VPages
    BY DEF Mapped
  <2> QED
    BY <1>1, <2>1, <2>2, <2>3
<1>4. p \notin DataPages /\ p \notin TablePages
  BY DEF TreeShape, NoneFree
<1>5. TablesApart'
  BY DEF TreeShape, TablesApart
<1>6. LeavesApart'
  <2>1. \A v, w \in Mapped : Leaf(v).page = Leaf(w).page => v = w
    BY DataFacts
  <2>2. \A v \in Mapped : v \in VPages /\ v # v0 /\ Leaf(v)'.page # p /\ Leaf(v)'.page = Leaf(v).page
    BY <1>4 DEF Mapped, DataPages
  <2>3. \A v, w \in Mapped' : Leaf(v)'.page = Leaf(w)'.page => v = w
    BY <1>1, <2>1, <2>2
  <2> QED
    BY <2>3 DEF LeavesApart, IsInjective
<1>7. OneUse' /\ NoneFree'
  BY <1>2, <1>3, <1>4 DEF TreeShape, OneUse, NoneFree
<1>8. EntriesPoint'
  BY <1>2 DEF EntriesPoint
<1> QED
  BY <1>1, <1>5, <1>6, <1>7, <1>8 DEF TreeShape

\* A step that puts an empty table that was free in the place of an entry which
\* was not valid.
LEMMA GrowStep ==
  ASSUME TypeOK, TreeShape, mem' \in Memories, root' = root,
         NEW v0 \in VPages, NEW k \in 1 .. Top, NEW t \in Page, t = TableAt(v0)[k],
         ~ mem[t][PtIdx(k, v0)].valid,
         NEW p \in Page, p \in Range(free), Range(free') \subseteq Range(free) \ {p},
         mem'[p] = ZeroPage, mem'[t][PtIdx(k, v0)].valid, mem'[t][PtIdx(k, v0)].page = p,
         \A q \in Page \ {p}, i \in Offsets :
           ~ (q = t /\ i = PtIdx(k, v0)) => mem'[q][i] = mem[q][i]
  PROVE  /\ \A v \in VPages :
              /\ TableAt(v)' = [l \in Level |-> IF l = k - 1 /\ Path(k, v) = Path(k, v0)
                                                THEN p ELSE TableAt(v)[l]]
              /\ Leaf(v)' = Leaf(v)
         /\ TreeShape'
         /\ Mapped' = Mapped
<1>1. /\ v0 \in Nat /\ Top \in Nat /\ Level = 0 .. Top /\ k \in Level /\ k - 1 \in Level /\ 0 \in Level
      /\ mem \in Memories /\ root \in PageOrNone /\ NoPage \notin Page /\ ~ Zero.valid
  BY MemType, LevelFacts, ShapeAssumption, ZeroAssumption DEF VPages
<1>2. p \notin DataPages /\ p \notin TablePages /\ t \in TablePages
  BY <1>1, TablePage DEF TreeShape, NoneFree
<1>3. ASSUME NEW v \in VPages
      PROVE  TableAt(v)' = [l \in Level |-> IF l = k - 1 /\ Path(k, v) = Path(k, v0)
                                            THEN p ELSE TableAt(v)[l]]
  <2>1. \A l \in Level : TableAt(v)[l] # p
    BY <1>1, <1>2, TablePage
  <2>2. \A l \in Level : TableAt(v)[l] = t => l = k /\ Path(k + 1, v) = Path(k + 1, v0)
    BY <1>1, Apart
  <2>3. TableAt(v) = Walk(mem, root, v) /\ TableAt(v0) = Walk(mem, root, v0)
        /\ TableAt(v)' = Walk(mem', root, v)
    BY DEF TableAt
  <2>4. /\ t = Walk(mem, root, v0)[k] /\ mem'[p] = ZeroPage
        /\ \A l \in Level : Walk(mem, root, v)[l] # p
        /\ \A l \in Level : Walk(mem, root, v)[l] = t => l = k /\ Path(k + 1, v) = Path(k + 1, v0)
    BY <2>1, <2>2, <2>3
  <2>5. Walk(mem', root, v) =
          [l \in Level |-> IF l = k - 1 /\ Path(k, v) = Path(k, v0) THEN p ELSE Walk(mem, root, v)[l]]
    BY <1>1, <2>4, GrownWalk, SMTT(60)
  <2>6. Walk(mem', root', v) = Walk(mem', root, v)
    OBVIOUS
  <2> QED
    BY <2>3, <2>5, <2>6
<1>4. ASSUME NEW v \in VPages, Path(k, v) = Path(k, v0)
      PROVE  TableAt(v)[k - 1] = NoPage
  <2>1. v \in Nat /\ Path(k + 1, v) = Path(k + 1, v0) /\ PtIdx(k, v) = PtIdx(k, v0)
    BY <1>1, <1>4, SameEntry DEF VPages
  <2>2. TableAt(v)[k] = t
    BY <1>1, <2>1, WalkPath DEF TableAt
  <2>3. k - 1 \in 0 .. Top - 1 /\ (k - 1) + 1 = k
    BY <1>1
  <2>4. TableAt(v)[k - 1] = Under(mem, TableAt(v)[(k - 1) + 1], (k - 1) + 1, v)
    BY <2>3, TableFacts
  <2> QED
    BY <1>1, <2>1, <2>2, <2>3, <2>4 DEF Under
<1>5. ASSUME NEW v \in VPages PROVE Leaf(v)' = Leaf(v)
  <2>1. v \in Nat /\ PtIdx(0, v) \in Offsets
    BY <1>1, PathFacts DEF VPages
  <2>2. CASE k - 1 = 0 /\ Path(k, v) = Path(k, v0)
    <3>1. TableAt(v)[0] = NoPage /\ TableAt(v)'[0] = p
      <4>1. TableAt(v)[k - 1] = NoPage
        BY <1>4, <2>2
      <4>2. TableAt(v)'[k - 1] = p
        BY <1>1, <1>3, <2>2
      <4> QED
        BY <2>2, <4>1, <4>2
    <3>2. Leaf(v) = Zero
      BY <3>1 DEF Leaf
    <3>3. Leaf(v)' = mem'[p][PtIdx(0, v)]
      BY <1>1, <3>1 DEF Leaf
    <3> QED
      BY <2>1, <3>2, <3>3 DEF ZeroPage
  <2>3. CASE ~ (k - 1 = 0 /\ Path(k, v) = Path(k, v0))
    <3>1. TableAt(v)'[0] = TableAt(v)[0]
      BY <1>1, <1>3, <2>3
    <3>2. ASSUME TableAt(v)[0] # NoPage
          PROVE  mem'[TableAt(v)[0]][PtIdx(0, v)] = mem[TableAt(v)[0]][PtIdx(0, v)]
      <4>1. TableAt(v)[0] \in Page \ {p}
        BY <1>1, <1>2, <3>2, TableFacts, TablePage DEF PageOrNone
      <4>2. TableAt(v)[0] # t
        <5> SUFFICES ASSUME TableAt(v)[0] = TableAt(v0)[k] PROVE FALSE
          OBVIOUS
        <5>1. 0 = k
          BY <1>1, <3>2, Apart
        <5> QED
          BY <5>1
      <4> QED
        BY <2>1, <4>1, <4>2
    <3> QED
      BY <3>1, <3>2 DEF Leaf
  <2> QED
    BY <2>2, <2>3
<1>6. Mapped' = Mapped
  BY <1>5 DEF Mapped
<1>7. DataPages' = DataPages
  BY <1>5, <1>6 DEF DataPages, Mapped
<1>8. TablePages' \subseteq TablePages \cup {p}
  <2> SUFFICES ASSUME NEW q \in TablePages' PROVE q \in TablePages \cup {p}
    OBVIOUS
  <2>1. PICK v \in VPages, l \in Level : q = TableAt(v)'[l] /\ q # NoPage
    BY DEF TablePages
  <2>2. q = p \/ q = TableAt(v)[l]
    BY <1>3, <2>1
  <2> QED
    BY <2>1, <2>2, TablePage
<1>9. TablesApart'
  <2> SUFFICES ASSUME NEW v \in VPages, NEW w \in VPages, NEW l \in Level, NEW m \in Level,
                      TableAt(v)'[l] = TableAt(w)'[m], TableAt(v)'[l] # NoPage
               PROVE  l = m /\ Path(l + 1, v) = Path(l + 1, w)
    BY DEF TablesApart, Path
  <2>1. /\ TableAt(v)'[l] = IF l = k - 1 /\ Path(k, v) = Path(k, v0) THEN p ELSE TableAt(v)[l]
        /\ TableAt(w)'[m] = IF m = k - 1 /\ Path(k, w) = Path(k, v0) THEN p ELSE TableAt(w)[m]
    BY <1>3
  <2>2. TableAt(v)[l] # p /\ TableAt(w)[m] # p
    BY <1>1, <1>2, TablePage
  <2>3. CASE TableAt(v)'[l] = p
    <3>1. l = k - 1 /\ m = k - 1 /\ Path(k, v) = Path(k, v0) /\ Path(k, w) = Path(k, v0)
      BY <2>1, <2>2, <2>3
    <3>2. l + 1 = k
      BY <1>1, <3>1
    <3> QED
      BY <3>1, <3>2
  <2>4. CASE TableAt(v)'[l] # p
    <3>1. TableAt(v)[l] = TableAt(w)[m] /\ TableAt(v)[l] # NoPage
      BY <2>1, <2>4
    <3> QED
      BY <3>1, Apart
  <2> QED
    BY <2>3, <2>4
<1>10. LeavesApart'
  <2>1. \A v, w \in Mapped : Leaf(v).page = Leaf(w).page => v = w
    BY DataFacts
  <2>2. \A v, w \in Mapped' : Leaf(v)'.page = Leaf(w)'.page => v = w
    BY <1>5, <1>6, <2>1 DEF Mapped
  <2> QED
    BY <2>2 DEF LeavesApart, IsInjective
<1>11. OneUse' /\ NoneFree'
  BY <1>2, <1>7, <1>8 DEF TreeShape, OneUse, NoneFree
<1>12. EntriesPoint'
  <2> SUFFICES ASSUME NEW q \in TablePages', NEW i \in Offsets, mem'[q][i].valid
               PROVE  mem'[q][i].page \in Page
    BY DEF EntriesPoint
  <2>1. CASE q = p
    BY <1>1, <2>1 DEF ZeroPage
  <2>2. CASE q # p
    <3>1. q \in TablePages
      BY <1>8, <2>2
    <3>2. q \in Page
      <4>1. PICK v \in VPages, l \in Level : q = TableAt(v)[l] /\ q # NoPage
        BY <3>1 DEF TablePages
      <4> QED
        BY <4>1, TableFacts DEF PageOrNone
    <3>3. mem[q][i].valid => mem[q][i].page \in Page
      BY <3>1 DEF TreeShape, EntriesPoint
    <3> QED
      BY <2>2, <3>2, <3>3
  <2> QED
    BY <2>1, <2>2
<1> QED
  BY <1>3, <1>5, <1>6, <1>9, <1>10, <1>11, <1>12 DEF TreeShape

-----------------------------------------------------------------------------
(* The calls keep the tree, and do to the address space what they promise.   *)

TreeInv == TypeOK /\ TreeShape /\ IsInjective(free) /\ WalkInPlace

\* get_free_page hands out a page that is free, and only one.
LEMMA TakeFacts ==
  ASSUME TreeInv, NEW p, Take(p)
  PROVE  /\ p \in Page /\ p \in Range(free)
         /\ free' \in Seq(Page) /\ IsInjective(free)' /\ Range(free') \subseteq Range(free) \ {p}
<1>1. free \in Seq(Page) /\ free # << >> /\ p = Head(free) /\ free' = Tail(free)
  BY DEF TreeInv, TypeOK, Take
<1>2. /\ Len(free) \in Nat /\ Len(free) >= 1 /\ DOMAIN free = 1 .. Len(free) /\ p = free[1]
      /\ free' \in Seq(Page) /\ Len(free') = Len(free) - 1 /\ DOMAIN free' = 1 .. Len(free')
      /\ \A i \in 1 .. Len(free') : free'[i] = free[i + 1]
  BY <1>1, HeadTailProperties, LenProperties, EmptySeq
<1>3. \A i, j \in 1 .. Len(free) : free[i] = free[j] => i = j
  BY <1>2 DEF TreeInv, IsInjective
<1>4. p \in Page /\ p \in Range(free)
  BY <1>1, <1>2, ElementOfSeq DEF Range
<1>5. IsInjective(free)'
  BY <1>2, <1>3 DEF IsInjective
<1>6. Range(free') \subseteq Range(free) \ {p}
  BY <1>2, <1>3 DEF Range
<1> QED
  BY <1>2, <1>4, <1>5, <1>6

\* The first element of a sequence, and the rest.
LEMMA FirstAndRest ==
  ASSUME NEW S, NEW s \in Seq(S), s # << >>
  PROVE  /\ Head(s) \in S /\ Tail(s) \in Seq(S)
         /\ Tail(s) # << >> <=> Len(s) # 1
         /\ Range(s) = {Head(s)} \cup Range(Tail(s))
         /\ \A c \in Range(s) : c \in S
<1>1. /\ Len(s) \in Nat /\ Len(s) >= 1 /\ DOMAIN s = 1 .. Len(s) /\ Head(s) = s[1]
      /\ Tail(s) \in Seq(S) /\ Len(Tail(s)) = Len(s) - 1 /\ DOMAIN Tail(s) = 1 .. Len(s) - 1
      /\ \A i \in 1 .. Len(s) - 1 : Tail(s)[i] = s[i + 1]
  BY HeadTailProperties, LenProperties, EmptySeq
<1>2. \A i \in 1 .. Len(s) : s[i] \in S
  BY <1>1, ElementOfSeq
<1>3. Tail(s) # << >> <=> Len(s) # 1
  <2> DEFINE r == Tail(s)
             n == Len(s)
  <2>1. r \in Seq(S) /\ Len(r) = n - 1 /\ n \in Nat
    BY <1>1
  <2> HIDE DEF r, n
  <2>2. r # << >> => Len(r) \in Nat \ {0}
    BY <2>1, EmptySeq
  <2>3. Len(<< >>) = 0
    BY EmptySeq
  <2>4. r = << >> => Len(r) = 0
    BY <2>3, Zenon
  <2>5. r # << >> <=> n # 1
    BY <2>1, <2>2, <2>4
  <2> QED
    BY <2>5 DEF r, n
<1>4. ASSUME NEW c \in Range(s) PROVE c \in S /\ c \in {Head(s)} \cup Range(Tail(s))
  <2>1. PICK i \in 1 .. Len(s) : c = s[i]
    BY <1>1 DEF Range
  <2>2. i = 1 \/ (i - 1 \in 1 .. Len(s) - 1 /\ (i - 1) + 1 = i)
    BY <1>1
  <2>3. CASE i = 1
    BY <1>1, <1>2, <2>1, <2>3
  <2>4. CASE i # 1
    <3>1. c = Tail(s)[i - 1]
      BY <1>1, <2>1, <2>2, <2>4
    <3> QED
      BY <1>1, <1>2, <2>1, <2>2, <2>4, <3>1 DEF Range
  <2> QED
    BY <2>3, <2>4
<1>5. ASSUME NEW c \in {Head(s)} \cup Range(Tail(s)) PROVE c \in Range(s)
  <2>1. CASE c = Head(s)
    BY <1>1, <2>1 DEF Range
  <2>2. CASE c \in Range(Tail(s))
    <3>1. PICK i \in 1 .. Len(s) - 1 : c = Tail(s)[i]
      BY <1>1, <2>2 DEF Range
    <3>2. c = s[i + 1] /\ i + 1 \in 1 .. Len(s)
      BY <1>1, <3>1
    <3> QED
      BY <1>1, <3>2 DEF Range
  <2> QED
    BY <2>1, <2>2
<1>6. Range(s) = {Head(s)} \cup Range(Tail(s))
  BY <1>4, <1>5
<1> QED
  BY <1>1, <1>2, <1>3, <1>4, <1>6

ChunkSet == [page : VPages, off : Offsets, data : Seq(Word)]

\* A call in progress: what it has still to do, and where its walk is.
LEMMA CallFacts ==
  ASSUME TreeInv, call # Idle
  PROVE  /\ call \in Calls /\ call.todo # << >>
         /\ chunk.page \in VPages /\ chunk.off \in Offsets /\ chunk.data \in Seq(Word)
         /\ chunk \in Range(call.todo)
         /\ call.level \in Level /\ call.table = TableAt(chunk.page)[call.level]
         /\ index \in Offsets /\ index = PtIdx(call.level, chunk.page)
         /\ call.table # NoPage => /\ call.table \in Page /\ call.table \in TablePages
                                   /\ entry \in Word /\ (entry.valid => entry.page \in Page)
<1>1. call \in Calls /\ call.todo # << >>
  BY DEF TreeInv, TypeOK
<1>2. /\ call.todo \in Seq([page : VPages, off : Offsets, data : Seq(Word)]) /\ call.level \in Level
      /\ call.table \in Page \cup {NoPage}
  BY <1>1 DEF Calls
<1>3. chunk \in [page : VPages, off : Offsets, data : Seq(Word)] /\ chunk \in Range(call.todo)
  <2>1. call.todo \in Seq(ChunkSet)
    BY <1>2 DEF ChunkSet
  <2>2. chunk \in ChunkSet /\ chunk \in Range(call.todo)
    BY <1>1, <2>1, FirstAndRest DEF chunk
  <2> QED
    BY <2>2 DEF ChunkSet
<1>4. chunk.page \in VPages /\ chunk.off \in Offsets /\ chunk.data \in Seq(Word)
  BY <1>3
<1>5. call.table = TableAt(chunk.page)[call.level]
  BY DEF TreeInv, WalkInPlace
<1>6. index \in Offsets
  BY <1>2, <1>4, PathFacts DEF index, VPages
<1>7. ASSUME call.table # NoPage
      PROVE  /\ call.table \in Page /\ call.table \in TablePages
             /\ entry \in Word /\ (entry.valid => entry.page \in Page)
  <2>1. call.table \in Page
    BY <1>2, <1>7
  <2>2. call.table \in TablePages
    BY <1>2, <1>4, <1>5, <1>7, TablePage
  <2>3. entry \in Word
    BY <1>6, <2>1 DEF TreeInv, TypeOK, entry
  <2>4. entry.valid => entry.page \in Page
    BY <1>6, <2>2 DEF TreeInv, TreeShape, EntriesPoint, entry
  <2> QED
    BY <2>1, <2>2, <2>3, <2>4
<1> QED
  BY <1>1, <1>2, <1>3, <1>4, <1>5, <1>6, <1>7 DEF index

\* The next page of a call is walked to from the root.
LEMMA Advances ==
  ASSUME TreeInv, call # Idle, Advance, root' = root,
         \A v \in VPages : TableAt(v)'[Top] = root
  PROVE  /\ call' = Idle \/ (call' \in Calls /\ call'.todo # << >>)
         /\ WalkInPlace'
         /\ status' \in {"new", "ok", "oom", "retry", "killed"}
<1>1. call \in Calls /\ call.todo # << >> /\ call.todo \in Seq(ChunkSet)
  BY CallFacts DEF Calls, ChunkSet
<1>2. status \in {"new", "ok", "oom", "retry", "killed"} /\ root \in Page \cup {NoPage}
  BY DEF TreeInv, TypeOK
<1>3. CASE Len(call.todo) = 1
  <2>1. call' = Idle /\ status' = "ok"
    BY <1>3 DEF Advance
  <2> QED
    BY <2>1 DEF WalkInPlace
<1>4. CASE Len(call.todo) # 1
  <2>1. call' = [call EXCEPT !.todo = Tail(@), !.level = Top, !.table = root] /\ status' = status
    BY <1>4 DEF Advance
  <2>2. Tail(call.todo) \in Seq(ChunkSet) /\ Tail(call.todo) # << >>
    BY <1>1, <1>4, FirstAndRest
  <2>3. Top \in Level
    BY LevelFacts
  <2>4. call' \in Calls /\ call'.todo = Tail(call.todo) /\ call'.level = Top /\ call'.table = root
    BY <1>1, <1>2, <2>1, <2>2, <2>3 DEF Calls, ChunkSet
  <2>5. Head(Tail(call.todo)) \in ChunkSet
    BY <2>2, FirstAndRest
  <2>6. WalkInPlace'
    BY <2>4, <2>5 DEF WalkInPlace, chunk, ChunkSet
  <2> QED
    BY <1>2, <2>1, <2>2, <2>4, <2>6
<1> QED
  BY <1>3, <1>4

\* The words of a page after a copy into it.
LEMMA OverwriteType ==
  ASSUME NEW words \in [Offsets -> Word], NEW off \in Offsets, NEW data \in Seq(Word)
  PROVE  Overwrite(words, off, data) \in [Offsets -> Word]
<1>1. \A i \in DOMAIN data : data[i] \in Word
  BY ElementOfSeq, LenProperties
<1> QED
  BY <1>1 DEF Overwrite

\* Zero and the words a program may write are words.
LEMMA WordFacts ==
  /\ Zero \in Word /\ ZeroPage \in [Offsets -> Word] /\ Junk \in Word
  /\ \A level \in Level, p \in Page, flags \in SUBSET Flags :
       /\ Entry(level, p, flags) \in Word
       /\ Entry(level, p, flags).valid /\ Entry(level, p, flags).page = p
       /\ level = 0 => Entry(level, p, flags).flags = flags
<1>1. Zero \in Word /\ Junk \in Word
  BY ZeroAssumption DEF Word, Junk, Flags
<1>2. ZeroPage \in [Offsets -> Word]
  BY <1>1 DEF ZeroPage
<1>3. \A level \in Level, p \in Page, flags \in SUBSET Flags :
       /\ Entry(level, p, flags) \in Word
       /\ Entry(level, p, flags).valid /\ Entry(level, p, flags).page = p
       /\ level = 0 => Entry(level, p, flags).flags = flags
  BY DEF Entry, Word, Flags
<1> QED
  BY <1>1, <1>2, <1>3

\* What a put of AddressSpace says of the map that the tables describe.
LEMMA PutMeans ==
  ASSUME NEW v, NEW flags, NEW off, NEW data
  PROVE  Abs!Put(v, flags, off, data) <=>
           Space' = [w \in Mapped \cup {v} |->
             IF w = v
             THEN [flags |-> IF v \in Mapped THEN Leaf(v).flags ELSE flags,
                   words |-> Overwrite(IF v \in Mapped THEN mem[Leaf(v).page] ELSE ZeroPage, off, data)]
             ELSE [flags |-> Leaf(w).flags, words |-> mem[Leaf(w).page]]]
<1> DEFINE old == IF v \in DOMAIN Space THEN Space[v] ELSE [flags |-> flags, words |-> ZeroPage]
           new == [flags |-> old.flags, words |-> Overwrite(old.words, off, data)]
<1>1. DOMAIN Space = Mapped
  BY DEF Space
<1>2. \A w \in Mapped : Space[w] = [flags |-> Leaf(w).flags, words |-> mem[Leaf(w).page]]
  BY DEF Space
<1>3. Abs!Put(v, flags, off, data) <=>
        Space' = [w \in DOMAIN Space \cup {v} |-> IF w = v THEN new ELSE Space[w]]
  BY DEF Abs!Put, Abs!Overwrite, Abs!ZeroPage, Abs!Offsets, Overwrite, ZeroPage, Offsets
<1>4. /\ old.flags = IF v \in Mapped THEN Leaf(v).flags ELSE flags
      /\ old.words = IF v \in Mapped THEN mem[Leaf(v).page] ELSE ZeroPage
  BY <1>1, <1>2
<1> HIDE DEF old
<1>5. [w \in DOMAIN Space \cup {v} |-> IF w = v THEN new ELSE Space[w]] =
        [w \in Mapped \cup {v} |->
             IF w = v
             THEN [flags |-> IF v \in Mapped THEN Leaf(v).flags ELSE flags,
                   words |-> Overwrite(IF v \in Mapped THEN mem[Leaf(v).page] ELSE ZeroPage, off, data)]
             ELSE [flags |-> Leaf(w).flags, words |-> mem[Leaf(w).page]]]
  BY <1>1, <1>2, <1>4
<1> QED
  BY <1>3, <1>5

\* map_page of a new page, with the copy into it.
LEMMA MapLeafTree ==
  ASSUME TreeInv, MapLeaf
  PROVE  /\ TreeInv' /\ Mapped' = Mapped \cup {chunk.page}
         /\ Abs!Put(chunk.page, call.flags, chunk.off, chunk.data)
<1>1. PICK p \in Page : /\ Take(p)
                        /\ mem' = [mem EXCEPT ![p] = Overwrite(ZeroPage, chunk.off, chunk.data),
                                              ![call.table][index] = Entry(0, p, call.flags)]
  BY DEF MapLeaf
<1>2. /\ call # Idle /\ call.table # NoPage /\ call.level = 0 /\ ~ entry.valid
      /\ Advance /\ UNCHANGED root
  BY DEF MapLeaf
<1>3. PICK v0 \in VPages, t \in Page, i0 \in Offsets :
        /\ v0 = chunk.page /\ t = call.table /\ i0 = index
        /\ t = TableAt(v0)[0] /\ i0 = PtIdx(0, v0) /\ t \in TablePages
        /\ chunk.off \in Offsets /\ chunk.data \in Seq(Word)
        /\ call.flags \in SUBSET Flags /\ TypeOK /\ TreeShape
  BY <1>2, CallFacts DEF TreeInv, Calls
<1>4. /\ p \in Range(free) /\ free' \in Seq(Page) /\ IsInjective(free)'
      /\ Range(free') \subseteq Range(free) \ {p}
  BY <1>1, TakeFacts
<1>5. p \notin DataPages /\ p \notin TablePages
  BY <1>3, <1>4 DEF TreeShape, NoneFree
<1> DEFINE W == Overwrite(ZeroPage, chunk.off, chunk.data)
           E == Entry(0, p, call.flags)
<1>6. W \in [Offsets -> Word] /\ E \in Word /\ E.valid /\ E.page = p /\ E.flags = call.flags
  BY <1>3, OverwriteType, WordFacts, LevelFacts
<1>7. mem \in [Page -> [Offsets -> Word]]
  BY <1>3 DEF TypeOK
<1>8. mem' = [mem EXCEPT ![p] = W, ![t][i0] = E]
  BY <1>1, <1>3
<1>9. Leaf(v0) = mem[t][i0] /\ v0 \notin Mapped
  <2>1. t # NoPage
    BY <1>2, <1>3
  <2>2. Leaf(v0) = mem[t][i0] /\ (v0 \in Mapped <=> Leaf(v0).valid)
    BY <1>3, <2>1, LeafFacts
  <2> QED
    BY <1>2, <1>3, <2>2 DEF entry
<1> HIDE DEF W, E
<1>10. p # t
  BY <1>3, <1>5
<1>11. /\ mem' \in [Page -> [Offsets -> Word]]
       /\ mem'[p] = W /\ mem'[t][i0] = E
       /\ \A q \in Page \ {p}, i \in Offsets : ~ (q = t /\ i = i0) => mem'[q][i] = mem[q][i]
       /\ \A q \in Page \ {p, t} : mem'[q] = mem[q]
  BY <1>3, <1>6, <1>7, <1>8, <1>10
<1>12. TablePages \subseteq Page \ {p}
  <2>1. TablePages \subseteq Page
    BY <1>3, TableFacts DEF TablePages, PageOrNone
  <2> QED
    BY <1>5, <2>1
<1>13. ASSUME NEW v \in VPages
       PROVE  TableAt(v)' = TableAt(v) /\ Leaf(v)' = IF v = v0 THEN E ELSE Leaf(v)
  <2>1. \A q \in TablePages, i \in Offsets : ~ (q = t /\ i = PtIdx(0, v0)) => mem'[q][i] = mem[q][i]
    BY <1>3, <1>11, <1>12
  <2>2. mem' \in Memories /\ mem'[t][PtIdx(0, v0)] = E
    BY <1>3, <1>11 DEF Memories
  <2> QED
    BY <1>2, <1>3, <2>1, <2>2, EntryStep
<1>14. \A q \in TablePages, i \in Offsets : mem'[q][i].valid => mem'[q][i].page \in Page
  <2> SUFFICES ASSUME NEW q \in TablePages, NEW i \in Offsets, mem'[q][i].valid PROVE mem'[q][i].page \in Page
    OBVIOUS
  <2>1. mem[q][i].valid => mem[q][i].page \in Page
    BY <1>3 DEF TreeShape, EntriesPoint
  <2> QED
    BY <1>6, <1>11, <1>12, <2>1
<1>15. TreeShape' /\ Mapped' = Mapped \cup {v0}
  <2>1. Leaf(v0)'.valid /\ Leaf(v0)'.page = p
    BY <1>3, <1>6, <1>13
  <2> QED
    BY <1>3, <1>4, <1>9, <1>13, <1>14, <2>1, LeafTree
<1>16. /\ call' = Idle \/ (call' \in Calls /\ call'.todo # << >>)
       /\ WalkInPlace' /\ status' \in {"new", "ok", "oom", "retry", "killed"}
  <2>1. \A v \in VPages : TableAt(v)'[Top] = root
    BY <1>3, <1>13, TableFacts
  <2> QED
    BY <1>2, <2>1, Advances
<1>17. TypeOK'
  BY <1>2, <1>3, <1>4, <1>11, <1>16 DEF TypeOK
<1>18. Abs!Put(chunk.page, call.flags, chunk.off, chunk.data)
  <2>1. \A w \in Mapped : w # v0 /\ w \in VPages /\ mem'[Leaf(w).page] = mem[Leaf(w).page]
    <3> SUFFICES ASSUME NEW w \in Mapped
                 PROVE  w # v0 /\ w \in VPages /\ mem'[Leaf(w).page] = mem[Leaf(w).page]
      OBVIOUS
    <3>1. w \in VPages /\ Leaf(w).page \in Page /\ Leaf(w).page \in DataPages /\ Leaf(w).page \notin TablePages
      BY <1>3, DataFacts
    <3> QED
      BY <1>3, <1>5, <1>9, <1>11, <3>1
  <2>2. Space' = [w \in Mapped \cup {v0} |->
                    [flags |-> Leaf(w)'.flags, words |-> mem'[Leaf(w)'.page]]]
    BY <1>15 DEF Space
  <2>3. Leaf(v0)' = E /\ \A w \in Mapped : Leaf(w)' = Leaf(w)
    BY <1>3, <1>13, <2>1
  <2>4. Space' = [w \in Mapped \cup {v0} |->
             IF w = v0
             THEN [flags |-> IF v0 \in Mapped THEN Leaf(v0).flags ELSE call.flags,
                   words |-> Overwrite(IF v0 \in Mapped THEN mem[Leaf(v0).page] ELSE ZeroPage,
                                       chunk.off, chunk.data)]
             ELSE [flags |-> Leaf(w).flags, words |-> mem[Leaf(w).page]]]
    BY <1>6, <1>9, <1>11, <2>1, <2>2, <2>3 DEF W
  <2> QED
    BY <2>4, <1>3, PutMeans
<1> QED
  BY <1>3, <1>4, <1>15, <1>16, <1>17, <1>18 DEF TreeInv

\* A step of the program or of a copy into a page that is mapped.
LEMMA WriteTree ==
  ASSUME TypeOK, TreeShape, NEW v0 \in Mapped, NEW off \in Offsets, NEW data \in Seq(Word), NEW flags,
         mem' = [mem EXCEPT ![Leaf(v0).page] = Overwrite(@, off, data)],
         UNCHANGED <<free, root>>
  PROVE  /\ \A v \in VPages : TableAt(v)' = TableAt(v) /\ Leaf(v)' = Leaf(v)
         /\ mem' \in [Page -> [Offsets -> Word]] /\ TreeShape' /\ Mapped' = Mapped
         /\ Abs!Put(v0, flags, off, data)
<1>1. PICK d \in Page : d = Leaf(v0).page /\ d \notin TablePages
  BY DataFacts
<1> DEFINE W == Overwrite(mem[d], off, data)
<1>2. mem \in [Page -> [Offsets -> Word]]
  BY DEF TypeOK
<1>3. W \in [Offsets -> Word] /\ mem' = [mem EXCEPT ![d] = W]
  BY <1>1, <1>2, OverwriteType
<1> HIDE DEF W
<1>4. /\ mem' \in [Page -> [Offsets -> Word]] /\ mem'[d] = W
      /\ \A q \in Page \ {d} : mem'[q] = mem[q]
  BY <1>2, <1>3
<1>5. TablePages \subseteq Page \ {d}
  BY <1>1, TableFacts DEF TablePages, PageOrNone
<1>6. \A q \in TablePages, i \in Offsets : mem'[q][i] = mem[q][i]
  BY <1>4, <1>5
<1>7. ASSUME NEW v \in VPages PROVE TableAt(v)' = TableAt(v) /\ Leaf(v)' = Leaf(v)
  <2>1. mem' \in Memories
    BY <1>4 DEF Memories
  <2> QED
    BY <1>6, <2>1, DataStep
<1>8. \A q \in TablePages, i \in Offsets : mem'[q][i].valid => mem'[q][i].page \in Page
  BY <1>6 DEF TreeShape, EntriesPoint
<1>9. TreeShape' /\ Mapped' = Mapped
  BY <1>7, <1>8, KeptTree
<1>10. Abs!Put(v0, flags, off, data)
  <2>1. \A w \in Mapped : w \in VPages /\ Leaf(w)' = Leaf(w)
                          /\ (w # v0 => mem'[Leaf(w).page] = mem[Leaf(w).page])
    <3> SUFFICES ASSUME NEW w \in Mapped
                 PROVE  w \in VPages /\ Leaf(w)' = Leaf(w)
                        /\ (w # v0 => mem'[Leaf(w).page] = mem[Leaf(w).page])
      OBVIOUS
    <3>1. w \in VPages /\ Leaf(w).page \in Page /\ (Leaf(w).page = Leaf(v0).page => w = v0)
      BY DataFacts
    <3> QED
      BY <1>1, <1>4, <1>7, <3>1
  <2>2. Space' = [w \in Mapped |-> [flags |-> Leaf(w)'.flags, words |-> mem'[Leaf(w)'.page]]]
    BY <1>9 DEF Space
  <2>3. Mapped \cup {v0} = Mapped
    OBVIOUS
  <2>4. Space' = [w \in Mapped \cup {v0} |->
             IF w = v0
             THEN [flags |-> IF v0 \in Mapped THEN Leaf(v0).flags ELSE flags,
                   words |-> Overwrite(IF v0 \in Mapped THEN mem[Leaf(v0).page] ELSE ZeroPage, off, data)]
             ELSE [flags |-> Leaf(w).flags, words |-> mem[Leaf(w).page]]]
    BY <1>1, <1>4, <2>1, <2>2, <2>3 DEF W
  <2> QED
    BY <2>4, PutMeans
<1> QED
  BY <1>4, <1>7, <1>9, <1>10

\* map_page of a page that is mapped, with the copy into it.
LEMMA ReuseTree ==
  ASSUME TreeInv, Reuse
  PROVE  /\ TreeInv' /\ Mapped' = Mapped /\ chunk.page \in Mapped
         /\ Abs!Put(chunk.page, call.flags, chunk.off, chunk.data)
<1>1. /\ call # Idle /\ call.table # NoPage /\ call.level = 0 /\ entry.valid
      /\ mem' = [mem EXCEPT ![entry.page] = Overwrite(@, chunk.off, chunk.data)]
      /\ Advance /\ UNCHANGED <<free, root>>
  BY DEF Reuse
<1>2. PICK v0 \in VPages, off \in Offsets, data \in Seq(Word) :
        /\ v0 = chunk.page /\ off = chunk.off /\ data = chunk.data
        /\ call.table = TableAt(v0)[0] /\ index = PtIdx(0, v0) /\ TypeOK /\ TreeShape
  BY <1>1, CallFacts DEF TreeInv
<1>3. v0 \in Mapped /\ Leaf(v0) = entry
  BY <1>1, <1>2, LeafFacts DEF entry
<1>4. mem' = [mem EXCEPT ![Leaf(v0).page] = Overwrite(@, off, data)]
  BY <1>1, <1>2, <1>3
<1>5. PICK flags : flags = call.flags
  OBVIOUS
<1>6. /\ \A v \in VPages : TableAt(v)' = TableAt(v) /\ Leaf(v)' = Leaf(v)
      /\ mem' \in [Page -> [Offsets -> Word]] /\ TreeShape' /\ Mapped' = Mapped
      /\ Abs!Put(v0, flags, off, data)
  <2>1. TypeOK /\ TreeShape /\ v0 \in Mapped /\ UNCHANGED <<free, root>>
    BY <1>1, <1>2, <1>3
  <2> QED
    BY <1>4, <2>1, WriteTree
<1>7. /\ call' = Idle \/ (call' \in Calls /\ call'.todo # << >>)
      /\ WalkInPlace' /\ status' \in {"new", "ok", "oom", "retry", "killed"}
  BY <1>1, <1>2, <1>6, TableFacts, Advances
<1>8. TypeOK'
  BY <1>1, <1>2, <1>6, <1>7 DEF TypeOK
<1>9. IsInjective(free)'
  BY <1>1 DEF TreeInv, IsInjective
<1> QED
  BY <1>2, <1>3, <1>5, <1>6, <1>7, <1>8, <1>9 DEF TreeInv

\* A store of the program.
LEMMA UserStoreTree ==
  ASSUME TreeInv, UserStore
  PROVE  /\ TreeInv' /\ Mapped' = Mapped
         /\ \E v \in Mapped : \A flags : Abs!Put(v, flags, 0, <<Junk>>)
<1>1. PICK v0 \in Mapped : mem' = [mem EXCEPT ![Leaf(v0).page][0] = Junk]
  BY DEF UserStore
<1>2. UNCHANGED <<free, root, call, status>> /\ TypeOK /\ TreeShape
  BY DEF UserStore, TreeInv
<1>3. 0 \in Offsets /\ <<Junk>> \in Seq(Word)
  BY WordFacts, PageWordsAssumption DEF Offsets
<1>4. mem' = [mem EXCEPT ![Leaf(v0).page] = Overwrite(@, 0, <<Junk>>)]
  <2>1. PICK d \in Page : d = Leaf(v0).page
    BY <1>2, DataFacts
  <2>2. mem[d] \in [Offsets -> Word]
    BY <1>2 DEF TypeOK
  <2>3. Overwrite(mem[d], 0, <<Junk>>) = [mem[d] EXCEPT ![0] = Junk]
    <3>1. \A i \in Offsets : i - 0 + 1 \in DOMAIN <<Junk>> <=> i = 0
      BY PageWordsAssumption DEF Offsets
    <3>2. \A i \in Offsets : (IF i - 0 + 1 \in DOMAIN <<Junk>> THEN <<Junk>>[i - 0 + 1] ELSE mem[d][i])
                             = IF i = 0 THEN Junk ELSE mem[d][i]
      BY <3>1
    <3> QED
      BY <1>3, <2>2, <3>2 DEF Overwrite
  <2> QED
    BY <1>1, <2>1, <2>3
<1>5. ASSUME NEW flags
      PROVE  /\ \A v \in VPages : TableAt(v)' = TableAt(v) /\ Leaf(v)' = Leaf(v)
             /\ mem' \in [Page -> [Offsets -> Word]] /\ TreeShape' /\ Mapped' = Mapped
             /\ Abs!Put(v0, flags, 0, <<Junk>>)
  BY <1>2, <1>3, <1>4, WriteTree
<1>6. TypeOK'
  BY <1>2, <1>5 DEF TypeOK
<1>7. WalkInPlace'
  <2> SUFFICES ASSUME call # Idle PROVE FALSE
    BY <1>2 DEF WalkInPlace
  <2> QED
    BY DEF UserStore, InUser
<1>8. IsInjective(free)'
  BY <1>2 DEF TreeInv, IsInjective
<1> QED
  BY <1>5, <1>6, <1>7, <1>8 DEF TreeInv

\* Where the root is missing or empty, no page is mapped.
LEMMA EmptyWalk ==
  ASSUME NEW m \in Memories, NEW r \in PageOrNone, r # NoPage => m[r] = ZeroPage, NEW v \in VPages
  PROVE  Walk(m, r, v) = [l \in Level |-> IF l = Top THEN r ELSE NoPage]
<1> DEFINE f == [l \in Level |-> IF l = Top THEN r ELSE NoPage]
<1>1. Top \in Nat /\ Level = 0 .. Top /\ v \in Nat
  BY LevelFacts DEF VPages
<1>2. f \in [Level -> PageOrNone] /\ f[Top] = r
  BY <1>1 DEF PageOrNone
<1>3. ASSUME NEW l \in 0 .. Top - 1 PROVE f[l] = Under(m, f[l + 1], l + 1, v)
  <2>1. l \in Level /\ l + 1 \in Level /\ l # Top
    BY <1>1
  <2>2. PtIdx(l + 1, v) \in Offsets
    BY <1>1, <2>1, PathFacts
  <2>3. f[l] = NoPage /\ (f[l + 1] = NoPage \/ f[l + 1] = r)
    BY <2>1
  <2>4. r # NoPage => m[r][PtIdx(l + 1, v)] = Zero
    BY <2>2 DEF ZeroPage
  <2> HIDE DEF f
  <2> QED
    BY <2>3, <2>4, ZeroAssumption DEF Under
<1> HIDE DEF f
<1>4. Walk(m, r, v) = f
  BY <1>1, <1>2, <1>3, WalkUnique
<1> QED
  BY <1>4 DEF f

\* So no page is mapped then, and there are no tables but the root.
LEMMA NothingMapped ==
  ASSUME TypeOK, root # NoPage => mem[root] = ZeroPage
  PROVE  /\ \A v \in VPages, l \in Level : TableAt(v)[l] = IF l = Top THEN root ELSE NoPage
         /\ \A v \in VPages : Leaf(v) = Zero
         /\ Mapped = {}
<1>1. mem \in Memories /\ root \in PageOrNone /\ 0 \in Level
  BY MemType, LevelFacts
<1>2. ASSUME NEW v \in VPages
      PROVE  TableAt(v) = [l \in Level |-> IF l = Top THEN root ELSE NoPage]
  BY <1>1, EmptyWalk DEF TableAt
<1>3. ASSUME NEW v \in VPages PROVE Leaf(v) = Zero
  <2>1. v \in Nat
    BY DEF VPages
  <2>2. PtIdx(0, v) \in Offsets
    BY <1>1, <2>1, PathFacts
  <2>3. TableAt(v)[0] = NoPage \/ TableAt(v)[0] = root
    BY <1>1, <1>2
  <2>4. root # NoPage => mem[root][PtIdx(0, v)] = Zero
    BY <2>2 DEF ZeroPage
  <2> QED
    BY <2>3, <2>4 DEF Leaf
<1>4. Mapped = {}
  BY <1>3, ZeroAssumption DEF Mapped
<1> QED
  BY <1>2, <1>3, <1>4

\* An empty tree.
LEMMA EmptyTree ==
  TypeOK /\ (root # NoPage => mem[root] = ZeroPage /\ root \notin Range(free)) =>
    TreeShape /\ Mapped = {} /\ Space = << >>
<1> SUFFICES ASSUME TypeOK, root # NoPage => mem[root] = ZeroPage /\ root \notin Range(free)
             PROVE  TreeShape /\ Mapped = {} /\ Space = << >>
  OBVIOUS
<1>1. /\ \A v \in VPages, l \in Level : TableAt(v)[l] = IF l = Top THEN root ELSE NoPage
      /\ Mapped = {}
  BY NothingMapped
<1>2. /\ Top \in Level /\ Top + 1 = Levels /\ Level = 0 .. Top /\ NoPage \notin Page
      /\ mem \in Memories /\ root \in PageOrNone
  BY MemType, LevelFacts, ShapeAssumption
<1>3. TablePages \subseteq {root} \ {NoPage}
  BY <1>1 DEF TablePages
<1>4. TablesApart
  <2> SUFFICES ASSUME NEW v \in VPages, NEW w \in VPages, NEW l \in Level, NEW k \in Level,
                      TableAt(v)[l] = TableAt(w)[k], TableAt(v)[l] # NoPage
               PROVE  l = k /\ v \div Span[l + 1] = w \div Span[l + 1]
    BY DEF TablesApart
  <2>1. l = Top /\ k = Top
    BY <1>1
  <2>2. v \in Nat /\ w \in Nat
    BY DEF VPages
  <2>3. Path(Levels, v) = 0 /\ Path(Levels, w) = 0
    BY <2>2, PathFacts
  <2> QED
    BY <1>2, <2>1, <2>3 DEF Path
<1>5. DataPages = {} /\ LeavesApart
  BY <1>1 DEF DataPages, LeavesApart, IsInjective
<1>6. OneUse /\ NoneFree
  BY <1>3, <1>5 DEF OneUse, NoneFree
<1>7. EntriesPoint
  BY <1>3, ZeroAssumption DEF EntriesPoint, ZeroPage
<1>8. Space = << >>
  BY <1>1 DEF Space
<1> QED
  BY <1>1, <1>4, <1>5, <1>6, <1>7, <1>8 DEF TreeShape

\* The tree at the start.
LEMMA InitTree ==
  ASSUME Init
  PROVE  TreeInv /\ StartsEmpty /\ Mapped = {} /\ Space = << >>
<1>1. mem \in [Page -> [Offsets -> Word]]
  BY WordFacts DEF Init
<1>2. free \in Seq(Page) /\ IsInjective(free)
  <2>1. free = Order \/ free = << >>
    BY DEF Init
  <2>2. << >> \in Seq(Page) /\ IsInjective(<< >>)
    BY EmptySeq DEF IsInjective
  <2> QED
    BY <2>1, <2>2, OrderAssumption
<1>3. root = NoPage /\ call = Idle /\ status = "new"
  BY DEF Init
<1>4. TypeOK
  BY <1>1, <1>2, <1>3 DEF TypeOK
<1>5. WalkInPlace /\ StartsEmpty
  BY <1>3 DEF WalkInPlace, StartsEmpty
<1> QED
  BY <1>2, <1>3, <1>4, <1>5, EmptyTree DEF TreeInv

\* create_pt
LEMMA CreatePtTree ==
  ASSUME TreeInv, StartsEmpty, CreatePt
  PROVE  TreeInv' /\ Mapped = {} /\ Mapped' = {} /\ Space' = Space
<1>1. root = NoPage /\ call = Idle /\ call' = Idle /\ status' = "ok"
  BY DEF CreatePt, StartsEmpty
<1>2. Mapped = {} /\ Space = << >>
  BY <1>1, EmptyTree DEF TreeInv
<1>3. WalkInPlace'
  BY <1>1 DEF WalkInPlace
<1>4. TypeOK /\ IsInjective(free)
  BY DEF TreeInv
<1>5. TypeOK' /\ IsInjective(free)' /\ (root' # NoPage => mem'[root'] = ZeroPage /\ root' \notin Range(free'))
  <2>1. CASE free = << >> /\ UNCHANGED <<mem, free, root>>
    BY <1>1, <1>4, <2>1 DEF TypeOK, IsInjective
  <2>2. CASE \E p \in Page : Take(p) /\ root' = p /\ mem' = [mem EXCEPT ![p] = ZeroPage]
    <3>1. PICK p \in Page : Take(p) /\ root' = p /\ mem' = [mem EXCEPT ![p] = ZeroPage]
      BY <2>2
    <3>2. free' \in Seq(Page) /\ IsInjective(free)' /\ Range(free') \subseteq Range(free) \ {p}
      BY <3>1, TakeFacts
    <3>3. mem' \in [Page -> [Offsets -> Word]] /\ mem'[p] = ZeroPage
      BY <1>4, <3>1, WordFacts DEF TypeOK
    <3> QED
      BY <1>1, <3>1, <3>2, <3>3 DEF TypeOK
  <2>3. \/ free = << >> /\ UNCHANGED <<mem, free, root>>
        \/ \E p \in Page : Take(p) /\ root' = p /\ mem' = [mem EXCEPT ![p] = ZeroPage]
    BY DEF CreatePt
  <2> QED
    BY <2>1, <2>2, <2>3
<1>6. TreeShape' /\ Mapped' = {} /\ (Space = << >>)'
  <2>1. (TypeOK /\ (root # NoPage => mem[root] = ZeroPage /\ root \notin Range(free)))'
    BY <1>5
  <2>2. (TreeShape /\ Mapped = {} /\ Space = << >>)'
    BY <2>1, EmptyTree, PTL
  <2> QED
    BY <2>2
<1> QED
  BY <1>2, <1>3, <1>5, <1>6 DEF TreeInv

\* A step that leaves the memory alone.
LEMMA Still ==
  ASSUME TypeOK, TreeShape, IsInjective(free), UNCHANGED <<mem, free, root>>
  PROVE  /\ \A v \in VPages : TableAt(v)' = TableAt(v) /\ Leaf(v)' = Leaf(v)
         /\ TreeShape' /\ IsInjective(free)' /\ Mapped' = Mapped /\ Space' = Space
<1>1. \A v : TableAt(v)' = TableAt(v) /\ Leaf(v)' = Leaf(v)
  BY DEF TableAt, Leaf
<1>2. \A t \in TablePages, i \in Offsets : mem'[t][i].valid => mem'[t][i].page \in Page
  BY DEF TreeShape, EntriesPoint
<1>3. TreeShape' /\ Mapped' = Mapped
  BY <1>1, <1>2, KeptTree
<1>4. Space' = Space
  BY <1>1, <1>3 DEF Space
<1>5. IsInjective(free)'
  BY DEF IsInjective
<1> QED
  BY <1>1, <1>3, <1>4, <1>5

\* The start of a call.
LEMMA BeginTree ==
  ASSUME TreeInv, UNCHANGED <<mem, free, root, status>>,
         NEW op \in {"map", "copy"} \cup Access, NEW parts \in Seq(ChunkSet), parts # << >>,
         NEW flags \in SUBSET Flags, NEW va \in Nat, NEW data \in Seq(Word),
         Begin(op, parts, flags, va, data)
  PROVE  /\ TreeInv' /\ Mapped' = Mapped /\ Space' = Space
         /\ call' \in Calls /\ call'.op = op /\ call'.todo = parts /\ call'.flags = flags
         /\ call'.va = va /\ call'.data = data
<1>1. call' = [op |-> op, todo |-> parts, flags |-> flags, va |-> va, data |-> data,
               level |-> Top, table |-> root]
  BY DEF Begin
<1>2. TypeOK /\ TreeShape /\ IsInjective(free)
  BY DEF TreeInv
<1>3. Top \in Level /\ root \in Page \cup {NoPage}
  BY <1>2, LevelFacts DEF TypeOK
<1>4. call' \in Calls
  BY <1>1, <1>3 DEF Calls, ChunkSet
<1>5. TypeOK'
  BY <1>1, <1>2, <1>4 DEF TypeOK
<1>6. TreeShape' /\ IsInjective(free)' /\ Mapped' = Mapped /\ Space' = Space
  BY <1>2, Still
<1>7. WalkInPlace'
  <2>1. Head(parts) \in ChunkSet
    BY FirstAndRest
  <2>2. PICK v \in VPages : v = Head(parts).page
    BY <2>1 DEF ChunkSet
  <2>3. TableAt(v)'[Top] = root
    BY <1>2, Still, TableFacts
  <2>4. chunk' = Head(parts) /\ call'.level = Top /\ call'.table = root
    BY <1>1 DEF chunk
  <2> QED
    BY <2>2, <2>3, <2>4 DEF WalkInPlace
<1> QED
  BY <1>1, <1>4, <1>5, <1>6, <1>7 DEF TreeInv

\* The end of a call that leaves the memory alone.
LEMMA EndTree ==
  ASSUME TreeInv, UNCHANGED <<mem, free, root>>, call' = Idle,
         status' \in {"new", "ok", "oom", "retry", "killed"}
  PROVE  TreeInv' /\ Mapped' = Mapped /\ Space' = Space
<1>1. TypeOK /\ TreeShape /\ IsInjective(free)
  BY DEF TreeInv
<1>2. TypeOK' /\ WalkInPlace'
  BY <1>1 DEF TypeOK, WalkInPlace
<1> QED
  BY <1>1, <1>2, Still DEF TreeInv

\* get_pt_level
LEMMA DescendTree ==
  ASSUME TreeInv, Descend
  PROVE  /\ TreeInv' /\ Mapped' = Mapped /\ Space' = Space
         /\ call' = [call EXCEPT !.level = @ - 1, !.table = entry.page]
<1>1. /\ call # Idle /\ call.table # NoPage /\ call.level > 0 /\ entry.valid
      /\ call' = [call EXCEPT !.level = @ - 1, !.table = entry.page]
      /\ UNCHANGED <<mem, free, root, status>>
  BY DEF Descend
<1>2. TypeOK /\ TreeShape /\ IsInjective(free)
  BY DEF TreeInv
<1>3. PICK v0 \in VPages, k \in Level :
        /\ v0 = chunk.page /\ k = call.level /\ call \in Calls /\ call.todo # << >>
        /\ call.table = TableAt(v0)[k] /\ index = PtIdx(k, v0) /\ entry.page \in Page
  BY <1>1, CallFacts
<1>4. k - 1 \in Level /\ k - 1 \in 0 .. Top - 1 /\ (k - 1) + 1 = k
  BY <1>1, <1>3, LevelFacts
<1>5. TableAt(v0)[k - 1] = entry.page
  <2>1. TableAt(v0)[k - 1] = Under(mem, TableAt(v0)[k], k, v0)
    BY <1>2, <1>4, TableFacts
  <2> QED
    BY <1>1, <1>3, <2>1 DEF Under, entry
<1>6. call' \in Calls /\ call'.todo = call.todo /\ call'.level = k - 1 /\ call'.table = entry.page
  BY <1>1, <1>3, <1>4 DEF Calls
<1>7. TypeOK'
  BY <1>1, <1>2, <1>3, <1>6 DEF TypeOK
<1>8. TableAt(v0)' = TableAt(v0) /\ TreeShape' /\ IsInjective(free)' /\ Mapped' = Mapped /\ Space' = Space
  BY <1>1, <1>2, Still
<1>9. WalkInPlace'
  <2>1. chunk'.page = v0
    BY <1>3, <1>6 DEF chunk
  <2> QED
    BY <1>5, <1>6, <1>8, <2>1 DEF WalkInPlace
<1> QED
  BY <1>1, <1>7, <1>8, <1>9 DEF TreeInv

\* A table made on the way is empty, so nothing new is mapped under it.
LEMMA GrowTree ==
  ASSUME TreeInv, Grow
  PROVE  /\ TreeInv' /\ Mapped' = Mapped /\ Space' = Space
         /\ call' \in Calls /\ call'.op = call.op /\ call'.todo = call.todo /\ call'.flags = call.flags
         /\ call'.va = call.va /\ call'.data = call.data
<1>1. /\ call # Idle /\ call.table # NoPage /\ call.level > 0 /\ ~ entry.valid
      /\ UNCHANGED <<root, status>>
  BY DEF Grow
<1>2. PICK p \in Page :
        /\ Take(p)
        /\ mem' = [mem EXCEPT ![p] = ZeroPage, ![call.table][index] = Entry(call.level, p, {})]
        /\ call' = [call EXCEPT !.level = @ - 1, !.table = p]
  BY DEF Grow
<1>3. TypeOK /\ TreeShape /\ IsInjective(free)
  BY DEF TreeInv
<1>4. PICK v0 \in VPages, k \in Level, t \in Page, i0 \in Offsets :
        /\ v0 = chunk.page /\ k = call.level /\ call \in Calls /\ call.todo # << >>
        /\ t = call.table /\ t = TableAt(v0)[k] /\ i0 = index /\ i0 = PtIdx(k, v0)
        /\ t \in TablePages /\ ~ mem[t][i0].valid
  BY <1>1, CallFacts DEF entry
<1>5. k \in 1 .. Top /\ k - 1 \in Level
  BY <1>1, <1>4, LevelFacts
<1>6. /\ p \in Range(free) /\ free' \in Seq(Page) /\ IsInjective(free)'
      /\ Range(free') \subseteq Range(free) \ {p}
  BY <1>2, TakeFacts
<1>7. p \notin TablePages /\ p \notin DataPages
  BY <1>3, <1>6 DEF TreeShape, NoneFree
<1> DEFINE E == Entry(k, p, {})
<1>8. E \in Word /\ E.valid /\ E.page = p
  BY WordFacts
<1>9. mem \in [Page -> [Offsets -> Word]]
  BY <1>3 DEF TypeOK
<1>10. mem' = [mem EXCEPT ![p] = ZeroPage, ![t][i0] = E]
  BY <1>2, <1>4
<1> HIDE DEF E
<1>11. p # t
  BY <1>4, <1>7
<1>12. /\ mem' \in [Page -> [Offsets -> Word]]
       /\ mem'[p] = ZeroPage /\ mem'[t][i0] = E
       /\ \A q \in Page \ {p}, i \in Offsets : ~ (q = t /\ i = i0) => mem'[q][i] = mem[q][i]
       /\ \A q \in Page \ {p, t} : mem'[q] = mem[q]
  BY <1>8, <1>9, <1>10, <1>11, WordFacts
<1>13. /\ \A v \in VPages :
            /\ TableAt(v)' = [l \in Level |-> IF l = k - 1 /\ Path(k, v) = Path(k, v0)
                                              THEN p ELSE TableAt(v)[l]]
            /\ Leaf(v)' = Leaf(v)
       /\ TreeShape' /\ Mapped' = Mapped
  <2>1. mem' \in Memories /\ root' = root
    BY <1>1, <1>12 DEF Memories
  <2>2. mem'[t][PtIdx(k, v0)].valid /\ mem'[t][PtIdx(k, v0)].page = p /\ ~ mem[t][PtIdx(k, v0)].valid
    BY <1>4, <1>8, <1>12
  <2>3. \A q \in Page \ {p}, i \in Offsets : ~ (q = t /\ i = PtIdx(k, v0)) => mem'[q][i] = mem[q][i]
    BY <1>4, <1>12
  <2>4. /\ mem'[p] = ZeroPage /\ p \in Range(free) /\ Range(free') \subseteq Range(free) \ {p}
        /\ t = TableAt(v0)[k] /\ k \in 1 .. Top /\ TypeOK /\ TreeShape
    BY <1>3, <1>4, <1>5, <1>6, <1>12
  <2> QED
    BY <2>1, <2>2, <2>3, <2>4, GrowStep
<1>14. Space' = Space
  <2>1. \A v \in Mapped : v \in VPages /\ mem'[Leaf(v).page] = mem[Leaf(v).page]
    <3> SUFFICES ASSUME NEW v \in Mapped PROVE v \in VPages /\ mem'[Leaf(v).page] = mem[Leaf(v).page]
      OBVIOUS
    <3>1. v \in VPages /\ Leaf(v).page \in Page /\ Leaf(v).page \in DataPages /\ Leaf(v).page \notin TablePages
      BY <1>3, DataFacts
    <3> QED
      BY <1>4, <1>7, <1>12, <3>1
  <2>2. \A v \in Mapped : Leaf(v)' = Leaf(v)
    BY <1>13, <2>1
  <2> QED
    BY <1>13, <2>1, <2>2 DEF Space
<1>15. /\ call' \in Calls /\ call'.op = call.op /\ call'.todo = call.todo /\ call'.flags = call.flags
       /\ call'.va = call.va /\ call'.data = call.data /\ call'.level = k - 1 /\ call'.table = p
  BY <1>2, <1>4, <1>5 DEF Calls
<1>16. TypeOK'
  BY <1>1, <1>3, <1>4, <1>6, <1>12, <1>15 DEF TypeOK
<1>17. WalkInPlace'
  <2>1. chunk'.page = v0
    BY <1>4, <1>15 DEF chunk
  <2>2. TableAt(v0)'[k - 1] = p
    BY <1>5, <1>13
  <2> QED
    BY <1>15, <2>1, <2>2 DEF WalkInPlace
<1> QED
  BY <1>6, <1>13, <1>14, <1>15, <1>16, <1>17 DEF TreeInv

\* A way that has ended does not go on.
LEMMA WayEnds ==
  ASSUME TypeOK, NEW v \in VPages, NEW k \in Level, TableAt(v)[k] = NoPage
  PROVE  TableAt(v)[0] = NoPage /\ v \notin Mapped
<1> DEFINE f == TableAt(v)
           S == {l \in 0 .. k : f[l] = NoPage}
<1>1. /\ Top \in Nat /\ Level = 0 .. Top /\ k \in 0 .. Top /\ k \in Nat
      /\ \A l \in 0 .. Top - 1 : f[l] = Under(mem, f[l + 1], l + 1, v)
  BY LevelFacts, TableFacts
<1> HIDE DEF f
<1>2. k \in S
  BY <1>1 DEF f
<1>3. ASSUME NEW l \in 0 .. k - 1, l + 1 \in S PROVE l \in S
  <2>1. f[l + 1] = NoPage /\ f[l] = Under(mem, f[l + 1], l + 1, v) /\ l \in 0 .. k
    BY <1>1, <1>3
  <2> QED
    BY <2>1, ZeroAssumption DEF Under
<1>4. S = 0 .. k
  <2>1. S \in SUBSET (0 .. k)
    OBVIOUS
  <2> HIDE DEF S
  <2> QED
    BY <1>1, <1>2, <1>3, <2>1, DownTo
<1>5. f[0] = NoPage
  BY <1>1, <1>4
<1>6. v \notin Mapped
  BY <1>5, LeafFacts, ZeroAssumption DEF f
<1> QED
  BY <1>5, <1>6 DEF f

\* What the tables a walk is at say of the page it is for.
LEMMA WalkSays ==
  ASSUME TreeInv, call # Idle
  PROVE  /\ call.table = NoPage => chunk.page \notin Mapped
         /\ call.table # NoPage /\ call.level > 0 /\ ~ entry.valid => chunk.page \notin Mapped
         /\ call.table # NoPage /\ call.level = 0 =>
              /\ Leaf(chunk.page) = entry
              /\ chunk.page \in Mapped <=> entry.valid
<1>1. TypeOK
  BY DEF TreeInv
<1>2. PICK v \in VPages, k \in Level :
        /\ v = chunk.page /\ k = call.level /\ call.table = TableAt(v)[k] /\ index = PtIdx(k, v)
  BY CallFacts
<1>3. call.table = NoPage => v \notin Mapped
  BY <1>1, <1>2, WayEnds
<1>4. ASSUME call.table # NoPage, k > 0, ~ entry.valid PROVE v \notin Mapped
  <2>1. k - 1 \in Level /\ k - 1 \in 0 .. Top - 1 /\ (k - 1) + 1 = k
    BY <1>2, <1>4, LevelFacts
  <2>2. TableAt(v)[k - 1] = Under(mem, TableAt(v)[k], k, v)
    BY <1>1, <2>1, TableFacts
  <2>3. TableAt(v)[k - 1] = NoPage
    BY <1>2, <1>4, <2>2 DEF Under, entry
  <2> QED
    BY <1>1, <2>1, <2>3, WayEnds
<1>5. ASSUME call.table # NoPage, k = 0 PROVE Leaf(v) = entry /\ (v \in Mapped <=> entry.valid)
  BY <1>1, <1>2, <1>5, LeafFacts DEF entry
<1> QED
  BY <1>2, <1>3, <1>4, <1>5

\* The handler's answer at the end of its walk.
LEMMA ResolveTree ==
  ASSUME TreeInv, Resolve
  PROVE  /\ TreeInv' /\ Mapped' = Mapped /\ call' = Idle
         /\ \/ /\ status' = "retry"
               /\ \E v \in Mapped, bits \in SUBSET {"A", "D"} :
                    /\ v = chunk.page /\ bits = Marks(call.op)
                    /\ call.flags \cup bits \subseteq Leaf(v)'.flags
                    /\ Abs!Mark(v, bits)
            \/ /\ status' = "killed" /\ Space' = Space
               /\ ~ (chunk.page \in Mapped /\ call.flags \subseteq Leaf(chunk.page).flags)
<1>1. /\ call # Idle /\ call.table # NoPage /\ call.level = 0 /\ call.op \in Access
      /\ call' = Idle /\ UNCHANGED <<free, root>>
  BY DEF Resolve
<1>2. TypeOK /\ TreeShape /\ IsInjective(free)
  BY DEF TreeInv
<1>3. Leaf(chunk.page) = entry /\ (chunk.page \in Mapped <=> entry.valid)
  BY <1>1, WalkSays
<1>4. CASE entry.valid /\ call.flags \subseteq entry.flags
  <2>1. /\ mem' = [mem EXCEPT ![call.table][index].flags = @ \cup Marks(call.op)]
        /\ status' = "retry"
    BY <1>4 DEF Resolve
  <2>2. PICK v0 \in VPages, t \in Page, i0 \in Offsets, bits \in SUBSET {"A", "D"} :
          /\ v0 = chunk.page /\ t = call.table /\ i0 = index /\ bits = Marks(call.op)
          /\ t = TableAt(v0)[0] /\ i0 = PtIdx(0, v0) /\ t \in TablePages
    BY <1>1, CallFacts DEF Marks
  <2> DEFINE E == [mem[t][i0] EXCEPT !.flags = @ \cup bits]
  <2>3. mem \in [Page -> [Offsets -> Word]]
    BY <1>2 DEF TypeOK
  <2>4. mem[t][i0] \in Word /\ Leaf(v0) = mem[t][i0] /\ v0 \in Mapped
    BY <1>3, <1>4, <2>2, <2>3 DEF entry
  <2>5. /\ E \in Word /\ E.valid = Leaf(v0).valid /\ E.page = Leaf(v0).page
        /\ E.flags = Leaf(v0).flags \cup bits
    BY <2>4 DEF Word, Flags
  <2>6. mem' = [mem EXCEPT ![t][i0] = E]
    BY <2>1, <2>2, <2>3
  <2> HIDE DEF E
  <2>7. /\ mem' \in [Page -> [Offsets -> Word]] /\ mem'[t][i0] = E
        /\ \A q \in Page, i \in Offsets : ~ (q = t /\ i = i0) => mem'[q][i] = mem[q][i]
        /\ \A q \in Page \ {t} : mem'[q] = mem[q]
    BY <2>3, <2>5, <2>6
  <2>8. TablePages \subseteq Page
    BY <1>2, TableFacts DEF TablePages, PageOrNone
  <2>9. ASSUME NEW v \in VPages
        PROVE  TableAt(v)' = TableAt(v) /\ Leaf(v)' = IF v = v0 THEN E ELSE Leaf(v)
    <3>1. \A q \in TablePages, i \in Offsets : ~ (q = t /\ i = PtIdx(0, v0)) => mem'[q][i] = mem[q][i]
      BY <2>2, <2>7, <2>8
    <3>2. mem' \in Memories /\ mem'[t][PtIdx(0, v0)] = E
      BY <2>2, <2>7 DEF Memories
    <3> QED
      BY <1>1, <1>2, <2>2, <3>1, <3>2, EntryStep
  <2>10. \A q \in TablePages, i \in Offsets : mem'[q][i].valid => mem'[q][i].page \in Page
    <3> SUFFICES ASSUME NEW q \in TablePages, NEW i \in Offsets, mem'[q][i].valid PROVE mem'[q][i].page \in Page
      OBVIOUS
    <3>1. mem[q][i].valid => mem[q][i].page \in Page
      BY <1>2 DEF TreeShape, EntriesPoint
    <3>2. Leaf(v0).page \in Page
      BY <1>2, <2>4, DataFacts
    <3> QED
      BY <2>5, <2>7, <2>8, <3>1, <3>2
  <2>11. TreeShape' /\ Mapped' = Mapped
    <3>1. Range(free') \subseteq Range(free)
      BY <1>1
    <3> QED
      BY <1>2, <2>5, <2>9, <2>10, <3>1, KeptTree
  <2>12. TypeOK' /\ IsInjective(free)' /\ WalkInPlace'
    BY <1>1, <1>2, <2>1, <2>7 DEF TypeOK, IsInjective, WalkInPlace
  <2>13. Abs!Mark(v0, bits)
    <3>1. \A w \in Mapped : /\ w \in VPages /\ Leaf(w)'.page = Leaf(w).page
                            /\ mem'[Leaf(w).page] = mem[Leaf(w).page]
                            /\ Leaf(w)'.flags = IF w = v0 THEN Leaf(v0).flags \cup bits ELSE Leaf(w).flags
      <4> SUFFICES ASSUME NEW w \in Mapped
                   PROVE  /\ w \in VPages /\ Leaf(w)'.page = Leaf(w).page
                          /\ mem'[Leaf(w).page] = mem[Leaf(w).page]
                          /\ Leaf(w)'.flags = IF w = v0 THEN Leaf(v0).flags \cup bits ELSE Leaf(w).flags
        OBVIOUS
      <4>1. w \in VPages /\ Leaf(w).page \in Page /\ Leaf(w).page \notin TablePages
        BY <1>2, DataFacts
      <4> QED
        BY <2>2, <2>5, <2>7, <2>9, <4>1
    <3>2. Space' = [w \in Mapped |-> [flags |-> Leaf(w)'.flags, words |-> mem'[Leaf(w)'.page]]]
      BY <2>11 DEF Space
    <3>3. Space' = [w \in Mapped |->
                      [flags |-> IF w = v0 THEN Leaf(v0).flags \cup bits ELSE Leaf(w).flags,
                       words |-> mem[Leaf(w).page]]]
      BY <3>1, <3>2
    <3>4. Space = [w \in Mapped |-> [flags |-> Leaf(w).flags, words |-> mem[Leaf(w).page]]]
      BY DEF Space
    <3>5. [Space EXCEPT ![v0].flags = @ \cup bits] =
             [w \in Mapped |->
                      [flags |-> IF w = v0 THEN Leaf(v0).flags \cup bits ELSE Leaf(w).flags,
                       words |-> mem[Leaf(w).page]]]
      <4>1. [Space EXCEPT ![v0].flags = @ \cup bits] =
              [w \in Mapped |-> IF w = v0 THEN [Space[v0] EXCEPT !.flags = @ \cup bits] ELSE Space[w]]
        BY <2>4, <3>4
      <4>2. \A w \in Mapped : Space[w] = [flags |-> Leaf(w).flags, words |-> mem[Leaf(w).page]]
        BY <3>4
      <4>3. [Space[v0] EXCEPT !.flags = @ \cup bits] =
              [flags |-> Leaf(v0).flags \cup bits, words |-> mem[Leaf(v0).page]]
        <5>1. Space[v0] = [flags |-> Leaf(v0).flags, words |-> mem[Leaf(v0).page]]
          BY <2>4, <4>2
        <5> QED
          BY <5>1
      <4>4. \A w \in Mapped :
              (IF w = v0 THEN [Space[v0] EXCEPT !.flags = @ \cup bits] ELSE Space[w]) =
                [flags |-> IF w = v0 THEN Leaf(v0).flags \cup bits ELSE Leaf(w).flags,
                 words |-> mem[Leaf(w).page]]
        BY <4>2, <4>3
      <4> QED
        BY <4>1, <4>4
    <3>6. v0 \in DOMAIN Space
      BY <2>4, <3>4
    <3> QED
      BY <3>3, <3>5, <3>6 DEF Abs!Mark
  <2>14. Leaf(v0)'.flags = Leaf(v0).flags \cup bits
    BY <2>5, <2>9
  <2>15. call.flags \cup bits \subseteq Leaf(v0)'.flags
    BY <1>3, <1>4, <2>2, <2>14
  <2>16. TreeInv'
    BY <2>11, <2>12 DEF TreeInv
  <2> QED
    BY <1>1, <2>1, <2>2, <2>4, <2>11, <2>13, <2>15, <2>16
<1>5. CASE ~ (entry.valid /\ call.flags \subseteq entry.flags)
  <2>1. UNCHANGED mem /\ status' = "killed"
    BY <1>5 DEF Resolve
  <2>2. TreeInv' /\ Mapped' = Mapped /\ Space' = Space
    BY <1>1, <2>1, EndTree
  <2> QED
    BY <1>1, <1>3, <1>5, <2>1, <2>2
<1> QED
  BY <1>4, <1>5

-----------------------------------------------------------------------------
(* Copies. *)

\* The word at an address, where its page is mapped.
LEMMA WordOfSpace ==
  ASSUME NEW a, (a \div PageWords) \in Mapped
  PROVE  WordAt(a) = Space[a \div PageWords].words[a % PageWords]
  BY DEF WordAt, Space

\* A copy into a page changes the words it is about, and no others.
WordsPut(v, off, data, a) ==
  /\ (a \div PageWords) \in Mapped /\ a \div PageWords # v =>
       (a \div PageWords) \in Mapped' /\ WordAt(a)' = WordAt(a)
  /\ a \div PageWords = v /\ (a % PageWords) - off + 1 \in DOMAIN data =>
       v \in Mapped' /\ WordAt(a)' = data[(a % PageWords) - off + 1]
  /\ a \div PageWords = v /\ v \in Mapped /\ (a % PageWords) - off + 1 \notin DOMAIN data =>
       v \in Mapped' /\ WordAt(a)' = WordAt(a)

\* The words of the address space after a put.
LEMMA PutWords ==
  ASSUME NEW v \in VPages, NEW flags, NEW off \in Offsets, NEW data,
         Abs!Put(v, flags, off, data), Mapped' = Mapped \cup {v},
         NEW a \in Nat
  PROVE  WordsPut(v, off, data, a)
<1> DEFINE w == a \div PageWords
           r == a % PageWords
           old == IF v \in Mapped THEN mem[Leaf(v).page] ELSE ZeroPage
<1>1. r \in Offsets
  <2>1. r \in Nat /\ r < PageWords
    BY DivMod
  <2> QED
    BY <2>1, PageWordsAssumption DEF Offsets
<1>2. Space' = [x \in Mapped \cup {v} |->
             IF x = v
             THEN [flags |-> IF v \in Mapped THEN Leaf(v).flags ELSE flags,
                   words |-> Overwrite(old, off, data)]
             ELSE [flags |-> Leaf(x).flags, words |-> mem[Leaf(x).page]]]
  BY PutMeans
<1>3. Space' = [x \in Mapped' |-> [flags |-> Leaf(x)'.flags, words |-> mem'[Leaf(x)'.page]]]
  BY DEF Space
<1>4. ASSUME NEW x \in Mapped', x = w PROVE WordAt(a)' = Space'[x].words[r]
  <2>1. WordAt(a)' = mem'[Leaf(w)'.page][r]
    BY DEF WordAt
  <2> QED
    BY <1>3, <1>4, <2>1
<1> HIDE DEF w, r
<1>5. w \in Mapped => WordAt(a) = mem[Leaf(w).page][r]
  BY DEF WordAt, w, r
<1>6. ASSUME w \in Mapped, w # v PROVE w \in Mapped' /\ WordAt(a)' = WordAt(a)
  <2>1. w \in Mapped' /\ Space'[w].words = mem[Leaf(w).page]
    BY <1>2, <1>6
  <2> QED
    BY <1>4, <1>5, <1>6, <2>1
<1>7. ASSUME w = v PROVE v \in Mapped' /\ WordAt(a)' = Overwrite(old, off, data)[r]
  <2>1. w \in Mapped' /\ Space'[w].words = Overwrite(old, off, data)
    BY <1>2, <1>7
  <2> QED
    BY <1>4, <1>7, <2>1
<1>8. Overwrite(old, off, data)[r] = IF r - off + 1 \in DOMAIN data THEN data[r - off + 1] ELSE old[r]
  BY <1>1 DEF Overwrite
<1>9. ASSUME w = v, v \in Mapped PROVE old[r] = WordAt(a)
  BY <1>5, <1>9
<1> HIDE DEF old
<1>10. w = v /\ r - off + 1 \in DOMAIN data => v \in Mapped' /\ WordAt(a)' = data[r - off + 1]
  BY <1>7, <1>8
<1>11. w = v /\ v \in Mapped /\ r - off + 1 \notin DOMAIN data => v \in Mapped' /\ WordAt(a)' = WordAt(a)
  BY <1>7, <1>8, <1>9
<1> QED
  BY <1>6, <1>10, <1>11 DEF WordsPut, w, r

\* What a copy into one page leaves to the chunks that follow.
LEMMA CopyOne ==
  ASSUME TypeOK, NEW va, NEW data, NEW parts \in Seq(ChunkSet), parts # << >>, Copying(va, data, parts),
         NEW c \in ChunkSet, c = Head(parts), NEW flags, Abs!Put(c.page, flags, c.off, c.data),
         Mapped' = Mapped \cup {c.page}
  PROVE  Copying(va, data, Tail(parts))'
<1>1. /\ va \in Nat /\ va \in Addresses /\ data \in Sources /\ data \in Seq(Word)
      /\ \A x \in Range(parts) : HoldsOf(x, va, data)
  BY InputAssumption DEF Copying
<1>2. /\ Range(parts) = {c} \cup Range(Tail(parts))
      /\ c.page \in VPages /\ c.page \in Nat /\ c.off \in Offsets /\ c.off \in Nat /\ c.data \in Seq(Word)
  BY FirstAndRest DEF ChunkSet, VPages, Offsets
<1>3. HoldsOf(c, va, data)
  BY <1>1, <1>2
<1>4. Len(data) \in Nat /\ Len(c.data) \in Nat /\ DOMAIN c.data = 1 .. Len(c.data) /\ PageWords \in Nat
  BY <1>1, <1>2, LenProperties, PageWordsAssumption
<1>5. ASSUME NEW i \in 1 .. Len(data), NEW a, a = va + i - 1
      PROVE  \/ \E x \in Range(Tail(parts)) : \E j \in 1 .. Len(x.data) : Place(x, j) = a
             \/ (a \div PageWords) \in Mapped' /\ WordAt(a)' = data[i]
  <2>0. a \in Nat /\ a - va + 1 = i
    BY <1>1, <1>4, <1>5
  <2> DEFINE w == a \div PageWords
             r == a % PageWords
             k == r - c.off + 1
  <2>1. /\ w \in Mapped /\ w # c.page => w \in Mapped' /\ WordAt(a)' = WordAt(a)
        /\ w = c.page /\ k \in DOMAIN c.data => w \in Mapped' /\ WordAt(a)' = c.data[k]
        /\ w = c.page /\ w \in Mapped /\ k \notin DOMAIN c.data => w \in Mapped' /\ WordAt(a)' = WordAt(a)
    <3>1. PICK v \in VPages, off \in Offsets, d \in Seq(Word) : v = c.page /\ off = c.off /\ d = c.data
      BY <1>2
    <3>2. Abs!Put(v, flags, off, d) /\ Mapped' = Mapped \cup {v}
      BY <3>1
    <3>3. /\ w \in Mapped /\ w # v => w \in Mapped' /\ WordAt(a)' = WordAt(a)
          /\ w = v /\ r - off + 1 \in DOMAIN d => v \in Mapped' /\ WordAt(a)' = d[r - off + 1]
          /\ w = v /\ v \in Mapped /\ r - off + 1 \notin DOMAIN d => v \in Mapped' /\ WordAt(a)' = WordAt(a)
      <4>1. WordsPut(v, off, d, a)
        BY <2>0, <3>2, PutWords
      <4> QED
        BY <4>1 DEF WordsPut
    <3> HIDE DEF w, r
    <3> QED
      BY <3>1, <3>3
  <2>2. w \in Nat /\ r \in Nat /\ r < PageWords /\ a = w * PageWords + r /\ w * PageWords \in Nat
    BY <2>0, DivMod, PageStart
  <2>3. ASSUME w = c.page, k \in DOMAIN c.data PROVE WordAt(a)' = data[i]
    <3>1. Place(c, k) = a
      <4>1. Place(c, k) = w * PageWords + c.off + k - 1
        BY <2>3 DEF Place
      <4>2. c.off + k - 1 = r /\ k \in Int
        BY <1>2, <2>2
      <4> HIDE DEF w, r, k
      <4> QED
        BY <1>2, <2>2, <4>1, <4>2
    <3>2. c.data[k] = data[i]
      <4>1. k \in 1 .. Len(c.data)
        BY <1>4, <2>3
      <4> HIDE DEF k
      <4> QED
        BY <1>3, <2>0, <3>1, <4>1 DEF HoldsOf
    <3> QED
      BY <2>1, <2>3, <3>2
  <2>4. ASSUME NEW j \in 1 .. Len(c.data), Place(c, j) = a PROVE w = c.page /\ k \in DOMAIN c.data
    <3>1. c.off + j <= PageWords
      BY <1>2, <1>3, <1>4 DEF HoldsOf
    <3>2. w = c.page /\ r = c.off + j - 1
      <4>1. a = c.page * PageWords + c.off + j - 1 /\ j \in Nat /\ j >= 1
        BY <2>4 DEF Place
      <4> HIDE DEF w, r, k
      <4> QED
        BY <1>2, <3>1, <4>1, PlaceIn DEF w, r
    <3> HIDE DEF w, r
    <3>3. k = j
      BY <1>2, <3>2
    <3> QED
      BY <1>4, <3>2, <3>3
  <2> HIDE DEF w, r, k
  <2>5. w \in Mapped /\ WordAt(a) = data[i] => w \in Mapped' /\ WordAt(a)' = data[i]
    BY <2>1, <2>3
  <2>6. \/ \E x \in Range(parts) : \E j \in 1 .. Len(x.data) : Place(x, j) = a
        \/ w \in Mapped /\ WordAt(a) = data[i]
    BY <1>5 DEF Copying, w
  <2>7. ASSUME \E j \in 1 .. Len(c.data) : Place(c, j) = a PROVE w \in Mapped' /\ WordAt(a)' = data[i]
    BY <2>1, <2>3, <2>4, <2>7
  <2> QED
    BY <1>2, <2>5, <2>6, <2>7 DEF w
<1> QED
  BY <1>1, <1>2, <1>5 DEF Copying

\* A step that leaves the address space alone.
LEMMA CopyWaits ==
  ASSUME NEW va, NEW data, NEW parts, Copying(va, data, parts), Space' = Space, Mapped' = Mapped
  PROVE  Copying(va, data, parts)'
<1>1. \A a : (a \div PageWords) \in Mapped =>
        WordAt(a) = Space[a \div PageWords].words[a % PageWords]
  BY WordOfSpace
<1>2. \A a : (a \div PageWords) \in Mapped' =>
        WordAt(a)' = Space'[a \div PageWords].words[a % PageWords]
  <2>1. \A x \in Mapped' : Space'[x].words = mem'[Leaf(x)'.page]
    BY DEF Space
  <2> QED
    BY <2>1 DEF WordAt
<1>3. ASSUME NEW a, (a \div PageWords) \in Mapped PROVE WordAt(a)' = WordAt(a)
  BY <1>1, <1>2, <1>3
<1> QED
  BY <1>3 DEF Copying

\* map_and_copy starts with all of the range to be copied.
LEMMA CopyBegins ==
  ASSUME NEW va \in Addresses, NEW data \in Sources, data # << >>
  PROVE  /\ Chunks(va, data) \in Seq(ChunkSet) /\ Chunks(va, data) # << >>
         /\ Copying(va, data, Chunks(va, data))
<1> DEFINE s == Chunks(va, data)
<1>1. va \in Nat /\ data \in Seq(Word) /\ va + Len(data) <= PageWords * Span[Levels] /\ Len(data) \in Nat
  BY InputAssumption, LenProperties
<1>2. /\ s \in Seq(ChunkOf(Word)) /\ \A c \in Range(s) : HoldsOf(c, va, data)
      /\ \A i \in 1 .. Len(data) : \E c \in Range(s) : \E j \in 1 .. Len(c.data) : Place(c, j) = va + i - 1
  BY <1>1, ChunksExact
<1>3. s \in Seq(Pieces(0, Span[Levels], Word))
  <2>1. Span[Levels] \in Nat /\ PageWords \in Nat
    BY SpanFacts, LevelFacts, PageWordsAssumption
  <2>2. 0 * PageWords <= va /\ va + Len(data) <= Span[Levels] * PageWords
    BY <1>1, <2>1
  <2> QED
    BY <1>1, <2>1, <2>2, ChunksInside
<1> HIDE DEF s
<1>4. Len(s) \in Nat /\ DOMAIN s = 1 .. Len(s)
  BY <1>2, LenProperties
<1>5. ASSUME NEW i \in 1 .. Len(s) PROVE s[i] \in ChunkSet
  <2>1. s[i] \in ChunkOf(Word)
    BY <1>2, <1>5, ElementOfSeq
  <2>2. s[i] \in Pieces(0, Span[Levels], Word)
    BY <1>3, <1>5, ElementOfSeq
  <2> QED
    BY <2>1, <2>2 DEF ChunkOf, Pieces, ChunkSet, VPages
<1>6. s \in Seq(ChunkSet)
  <2> DEFINE P == ChunkSet
  <2>1. s \in [1 .. Len(s) -> P]
    BY <1>2, <1>5, LenProperties
  <2> HIDE DEF P
  <2>2. s \in Seq(P)
    BY <1>4, <2>1
  <2> QED
    BY <2>2 DEF P
<1>7. s # << >>
  <2>1. Len(data) # 0
    BY <1>1, EmptySeq
  <2>2. 1 \in 1 .. Len(data)
    BY <1>1, <2>1
  <2>3. Range(s) # {}
    BY <1>2, <2>2
  <2>4. Range(<< >>) = {}
    BY DEF Range
  <2> QED
    BY <2>3, <2>4
<1>8. Copying(va, data, s)
  BY <1>2 DEF Copying
<1> QED
  BY <1>6, <1>7, <1>8 DEF s

-----------------------------------------------------------------------------
(* Every step of the calls. *)

SpaceStep == Abs!SpaceNext \/ Space' = Space

\* A put of a piece is a step of the abstract space.
LEMMA PutIsStep ==
  ASSUME NEW v \in VPages, NEW flags \in MapFlags, NEW off \in Offsets,
         NEW data \in {NoData, <<Junk>>} \cup Cuts, Abs!Put(v, flags, off, data)
  PROVE  SpaceStep
  BY DEF SpaceStep, Abs!SpaceNext, Abs!Offsets, Offsets

\* Calls and the kernel outside of them.
LEMMA Operations ==
  /\ Idle \notin Calls /\ Idle.op = "none" /\ "none" \notin Access \cup {"map", "copy"}
  /\ "map" \notin Access /\ "copy" \notin Access
  /\ \A x \in Calls : /\ x.op \in {"map", "copy"} \cup Access /\ x.flags \in SUBSET Flags
                      /\ x.todo \in Seq(ChunkSet) /\ x.va \in Nat /\ x.data \in Seq(Word)
<1>1. Idle.op = "none" /\ "none" \notin Access \cup {"map", "copy"}
  BY DEF Idle, Access
<1>2. \A x \in Calls : /\ x.op \in {"map", "copy"} \cup Access /\ x.flags \in SUBSET Flags
                       /\ x.todo \in Seq(ChunkSet) /\ x.va \in Nat /\ x.data \in Seq(Word)
  BY DEF Calls, ChunkSet
<1>3. "map" \notin Access /\ "copy" \notin Access
  BY DEF Access
<1> QED
  BY <1>1, <1>2, <1>3

\* The parts of the invariant.
LEMMA Parts ==
  ASSUME IInv
  PROVE  TreeInv /\ TypeOK /\ TreeShape /\ StartsEmpty /\ FaultAsks /\ MapAsks /\ CopyInPlace
  BY DEF IInv, TreeInv

\* A call goes on with what it was called for.
LEMMA GoesOn ==
  ASSUME IInv, call # Idle, call' \in Calls, Space' = Space, Mapped' = Mapped, status' = status,
         call'.op = call.op, call'.todo = call.todo, call'.flags = call.flags,
         call'.va = call.va, call'.data = call.data
  PROVE  StartsEmpty' /\ FaultAsks' /\ MapAsks' /\ CopyInPlace'
<1>1. StartsEmpty'
  BY Parts DEF StartsEmpty
<1>2. FaultAsks'
  BY Parts DEF FaultAsks
<1>3. MapAsks'
  BY Parts DEF MapAsks
<1>4. CopyInPlace'
  <2> SUFFICES ASSUME call.op = "copy"
               PROVE  CopyInPlace'
    BY DEF CopyInPlace
  <2>1. PICK va, data, parts : va = call.va /\ data = call.data /\ parts = call.todo
    OBVIOUS
  <2>2. Copying(va, data, parts)
    BY <2>1, Parts DEF CopyInPlace
  <2>3. Copying(va, data, parts)'
    BY <2>2, CopyWaits
  <2> QED
    BY <2>1, <2>3 DEF CopyInPlace
<1> QED
  BY <1>1, <1>2, <1>3, <1>4

\* Outside of a call there is nothing to say but of the pages that are mapped.
LEMMA GoesHome ==
  ASSUME IInv, call' = Idle, status' # "new", Mapped' = Mapped
  PROVE  StartsEmpty' /\ FaultAsks' /\ MapAsks' /\ CopyInPlace'
<1>1. call'.op \notin Access /\ call'.op \notin {"map", "copy"}
  BY Operations
<1>2. Mapped' # {} => MapFlags # {}
  BY Parts DEF MapAsks
<1> QED
  BY <1>1, <1>2 DEF StartsEmpty, FaultAsks, MapAsks, CopyInPlace

\* Every step keeps the invariant and is a step of the address space or a stutter.
LEMMA CreatePtInv ==
  ASSUME IInv, CreatePt
  PROVE  IInv' /\ SpaceStep
<1>1. TreeInv' /\ Mapped' = Mapped /\ Space' = Space
  BY Parts, CreatePtTree
<1>2. call' = Idle /\ status' # "new"
  BY Parts DEF CreatePt, StartsEmpty
<1> QED
  BY <1>1, <1>2, GoesHome DEF IInv, TreeInv, SpaceStep

\* A call of map_page, or the handler's walk, is about one page.
LEMMA OnePage ==
  ASSUME NEW v \in VPages
  PROVE  /\ <<Chunk(v, 0, NoData)>> \in Seq(ChunkSet) /\ <<Chunk(v, 0, NoData)>> # << >>
         /\ Len(<<Chunk(v, 0, NoData)>>) = 1
         /\ \A c \in Range(<<Chunk(v, 0, NoData)>>) : c.data = NoData
         /\ v * PageWords \in Nat
<1>1. NoData \in Seq(Word) /\ 0 \in Offsets /\ v \in Nat
  BY EmptySeq, PageWordsAssumption DEF NoData, Offsets, VPages
<1>2. PICK c \in ChunkSet : c = Chunk(v, 0, NoData) /\ c.data = NoData
  <2>1. Chunk(v, 0, NoData) \in ChunkSet /\ Chunk(v, 0, NoData).data = NoData
    BY <1>1 DEF Chunk, ChunkSet
  <2> QED
    BY <2>1
<1>3. <<c>> \in Seq(ChunkSet) /\ <<c>> # << >> /\ Len(<<c>>) = 1 /\ Range(<<c>>) = {c}
  BY DEF Range
<1>4. v * PageWords \in Nat
  BY <1>1, PageStart
<1> QED
  BY <1>2, <1>3, <1>4

LEMMA MapPageInv ==
  ASSUME IInv, MapPage
  PROVE  IInv' /\ SpaceStep
<1>1. PICK v \in VPages, flags \in MapFlags :
         Begin("map", <<Chunk(v, 0, NoData)>>, flags, v * PageWords, NoData)
  BY InputAssumption DEF MapPage
<1>2. UNCHANGED <<mem, free, root, status>> /\ call = Idle /\ status # "new"
  BY DEF MapPage
<1> DEFINE parts == <<Chunk(v, 0, NoData)>>
           va == v * PageWords
<1>3. /\ "map" \in {"map", "copy"} \cup Access /\ parts \in Seq(ChunkSet) /\ parts # << >>
      /\ flags \in SUBSET Flags /\ va \in Nat /\ NoData \in Seq(Word)
      /\ \A c \in Range(parts) : c.data = NoData
  BY InputAssumption, OnePage, EmptySeq DEF NoData
<1>4. Begin("map", parts, flags, va, NoData)
  BY <1>1
<1> HIDE DEF parts, va
<1>5. /\ TreeInv' /\ Mapped' = Mapped /\ Space' = Space
      /\ call'.op = "map" /\ call'.todo = parts /\ call'.flags = flags
  BY <1>2, <1>3, <1>4, Parts, BeginTree
<1>6. StartsEmpty' /\ FaultAsks' /\ CopyInPlace'
  BY <1>2, <1>5, Operations DEF StartsEmpty, FaultAsks, CopyInPlace
<1>7. MapAsks'
  BY <1>3, <1>5, Parts DEF MapAsks
<1> QED
  BY <1>5, <1>6, <1>7 DEF IInv, TreeInv, SpaceStep

LEMMA PageFaultInv ==
  ASSUME IInv, PageFault
  PROVE  IInv' /\ SpaceStep
<1>1. PICK v \in VPages, access \in Access :
         Begin(access, <<Chunk(v, 0, NoData)>>, Needs(access), v * PageWords, NoData)
  BY InputAssumption DEF PageFault
<1>2. UNCHANGED <<mem, free, root, status>> /\ call = Idle /\ status # "new"
  BY DEF PageFault, InUser
<1> DEFINE parts == <<Chunk(v, 0, NoData)>>
           va == v * PageWords
           flags == Needs(access)
<1>3. /\ access \in {"map", "copy"} \cup Access /\ parts \in Seq(ChunkSet) /\ parts # << >>
      /\ flags \in SUBSET Flags /\ va \in Nat /\ NoData \in Seq(Word) /\ Len(parts) = 1
  BY OnePage, EmptySeq DEF NoData, Needs, Flags, Access
<1>4. Begin(access, parts, flags, va, NoData)
  BY <1>1
<1> HIDE DEF parts, va, flags
<1>5. /\ TreeInv' /\ Mapped' = Mapped /\ Space' = Space
      /\ call'.op = access /\ call'.todo = parts /\ call'.flags = flags
  BY <1>2, <1>3, <1>4, Parts, BeginTree
<1>6. StartsEmpty' /\ CopyInPlace'
  BY <1>2, <1>5, Operations DEF StartsEmpty, CopyInPlace
<1>7. FaultAsks'
  BY <1>3, <1>5 DEF FaultAsks, flags
<1>8. MapAsks'
  BY <1>5, Parts, Operations DEF MapAsks
<1> QED
  BY <1>5, <1>6, <1>7, <1>8 DEF IInv, TreeInv, SpaceStep

LEMMA MapAndCopyInv ==
  ASSUME IInv, MapAndCopy
  PROVE  IInv' /\ SpaceStep
<1>1. PICK va \in Addresses, data \in Sources, flags \in MapFlags :
         IF data = NoData
         THEN call' = Idle /\ status' = "ok"
         ELSE Begin("copy", Chunks(va, data), flags, va, data) /\ UNCHANGED status
  BY DEF MapAndCopy
<1>2. UNCHANGED <<mem, free, root>> /\ call = Idle /\ status = "ok"
  BY DEF MapAndCopy
<1>3. CASE data = NoData
  <2>1. call' = Idle /\ status' = "ok"
    BY <1>1, <1>3
  <2>2. TreeInv' /\ Mapped' = Mapped /\ Space' = Space
    BY <1>2, <2>1, Parts, EndTree
  <2> QED
    BY <2>1, <2>2, GoesHome DEF IInv, TreeInv, SpaceStep
<1>4. CASE data # NoData
  <2> DEFINE parts == Chunks(va, data)
  <2>1. Begin("copy", parts, flags, va, data) /\ UNCHANGED status
    BY <1>1, <1>4
  <2>2. parts \in Seq(ChunkSet) /\ parts # << >> /\ Copying(va, data, parts)
    BY <1>4, CopyBegins DEF NoData
  <2>3. \A c \in Range(parts) : c.data \in {NoData} \cup Cuts
    <3> DEFINE here == {c.data : c \in Range(parts)}
    <3>1. here \in {{c.data : c \in Range(Chunks(a, s))} : a \in Addresses, s \in Sources}
      OBVIOUS
    <3>2. \A c \in Range(parts) : c.data \in here
      OBVIOUS
    <3> HIDE DEF here
    <3>3. here \subseteq Cuts
      BY <3>1 DEF Cuts
    <3> QED
      BY <3>2, <3>3
  <2> HIDE DEF parts
  <2>4. /\ "copy" \in {"map", "copy"} \cup Access /\ flags \in SUBSET Flags
        /\ va \in Nat /\ data \in Seq(Word)
    BY InputAssumption
  <2>5. /\ TreeInv' /\ Mapped' = Mapped /\ Space' = Space
        /\ call'.op = "copy" /\ call'.todo = parts /\ call'.flags = flags
        /\ call'.va = va /\ call'.data = data
    BY <1>2, <2>1, <2>2, <2>4, Parts, BeginTree
  <2>6. Copying(va, data, parts)'
    BY <2>2, <2>5, CopyWaits
  <2>7. StartsEmpty' /\ FaultAsks' /\ CopyInPlace'
    BY <1>2, <2>1, <2>5, <2>6, Operations DEF StartsEmpty, FaultAsks, CopyInPlace
  <2>8. MapAsks'
    BY <2>3, <2>5, Parts DEF MapAsks
  <2> QED
    BY <2>5, <2>7, <2>8 DEF IInv, TreeInv, SpaceStep
<1> QED
  BY <1>3, <1>4

LEMMA DescendInv ==
  ASSUME IInv, Descend
  PROVE  IInv' /\ SpaceStep /\ call' # Idle
<1>1. /\ TreeInv' /\ Mapped' = Mapped /\ Space' = Space
      /\ call' = [call EXCEPT !.level = @ - 1, !.table = entry.page]
  BY Parts, DescendTree
<1>2. call # Idle /\ status' = status
  BY DEF Descend
<1>3. call \in Calls
  BY <1>2, Parts, CallFacts
<1>4. /\ call'.op = call.op /\ call'.todo = call.todo /\ call'.flags = call.flags
      /\ call'.va = call.va /\ call'.data = call.data
  BY <1>1, <1>3 DEF Calls
<1>5. call' # Idle
  BY <1>3, <1>4, Operations
<1>6. call' \in Calls
  BY <1>1, <1>5 DEF TreeInv, TypeOK
<1> QED
  BY <1>1, <1>2, <1>4, <1>5, <1>6, GoesOn DEF IInv, TreeInv, SpaceStep

LEMMA GrowInv ==
  ASSUME IInv, Grow
  PROVE  IInv' /\ SpaceStep /\ call' # Idle
<1>1. /\ TreeInv' /\ Mapped' = Mapped /\ Space' = Space
      /\ call' \in Calls /\ call'.op = call.op /\ call'.todo = call.todo /\ call'.flags = call.flags
      /\ call'.va = call.va /\ call'.data = call.data
  BY Parts, GrowTree
<1>2. call # Idle /\ status' = status
  BY DEF Grow
<1>3. call' # Idle
  BY <1>1, Operations
<1> QED
  BY <1>1, <1>2, <1>3, GoesOn DEF IInv, TreeInv, SpaceStep

\* One page of map_page or of map_and_copy is done.
OneDone ==
  /\ TreeInv' /\ Advance /\ call.op \in {"map", "copy"} /\ chunk.page \in VPages
  /\ Mapped' = Mapped \cup {chunk.page}
  /\ Abs!Put(chunk.page, call.flags, chunk.off, chunk.data)

\* What MapLeaf and Reuse have in common: one chunk is in its page, the call goes on.
LEMMA LeafDone ==
  ASSUME IInv, MapLeaf \/ Reuse
  PROVE  call # Idle /\ OneDone
<1>1. call # Idle /\ Advance /\ call.op \notin Access
  BY DEF MapLeaf, Reuse
<1>2. call \in Calls /\ chunk.page \in VPages
  BY <1>1, Parts, CallFacts
<1>3. call.op \in {"map", "copy"}
  BY <1>1, <1>2, Operations
<1>4. /\ TreeInv' /\ Mapped' = Mapped \cup {chunk.page}
      /\ Abs!Put(chunk.page, call.flags, chunk.off, chunk.data)
  <2>1. CASE MapLeaf
    BY <2>1, Parts, MapLeafTree
  <2>2. CASE Reuse
    <3>1. /\ TreeInv' /\ Mapped' = Mapped /\ chunk.page \in Mapped
          /\ Abs!Put(chunk.page, call.flags, chunk.off, chunk.data)
      BY <2>2, Parts, ReuseTree
    <3> QED
      BY <3>1
  <2> QED
    BY <2>1, <2>2
<1> QED
  BY <1>1, <1>2, <1>3, <1>4 DEF OneDone

\* What is copied is in place.
LEMMA CopyDone ==
  ASSUME IInv, call # Idle, OneDone, call.op = "copy",
         NEW va, NEW data, NEW parts, va = call.va, data = call.data, parts = call.todo
  PROVE  Copying(va, data, Tail(parts))'
<1>1. Copying(va, data, parts)
  BY Parts DEF CopyInPlace
<1>2. call \in Calls /\ call.todo # << >>
  BY Parts, CallFacts
<1>3. parts \in Seq(ChunkSet) /\ parts # << >>
  BY <1>2, Operations
<1>4. Head(parts) \in ChunkSet
  BY <1>3, FirstAndRest
<1>5. PICK c \in ChunkSet : c = Head(parts) /\ c = chunk
  BY <1>4 DEF chunk
<1> DEFINE flags == call.flags
<1>6. Abs!Put(c.page, flags, c.off, c.data) /\ Mapped' = Mapped \cup {c.page}
  BY <1>5 DEF OneDone
<1> HIDE DEF flags
<1> QED
  BY <1>1, <1>3, <1>5, <1>6, Parts, CopyOne

LEMMA LeafInv ==
  ASSUME IInv, MapLeaf \/ Reuse
  PROVE  IInv' /\ SpaceStep
<1>1. call # Idle /\ OneDone
  BY LeafDone
<1>2. call \in Calls /\ call.todo # << >> /\ chunk.off \in Offsets /\ chunk \in Range(call.todo)
  BY <1>1, Parts, CallFacts
<1>3. call.flags \in MapFlags /\ \A c \in Range(call.todo) : c.data \in {NoData} \cup Cuts
  BY <1>1, Parts DEF MapAsks, OneDone
<1>4. PICK v \in VPages, flags \in MapFlags, off \in Offsets, data \in {NoData} \cup Cuts :
         v = chunk.page /\ flags = call.flags /\ off = chunk.off /\ data = chunk.data
  BY <1>1, <1>2, <1>3 DEF OneDone
<1>5. SpaceStep
  <2>1. Abs!Put(v, flags, off, data)
    BY <1>1, <1>4 DEF OneDone
  <2> QED
    BY <2>1, PutIsStep
<1>6. status # "new"
  BY <1>1, Parts DEF StartsEmpty
<1>7. CASE Len(call.todo) = 1
  <2>1. call' = Idle /\ status' = "ok"
    BY <1>1, <1>7 DEF OneDone, Advance
  <2>2. call'.op \notin Access /\ call'.op \notin {"map", "copy"} /\ MapFlags # {}
    BY <1>4, <2>1, Operations
  <2>3. StartsEmpty' /\ FaultAsks' /\ MapAsks' /\ CopyInPlace'
    BY <2>1, <2>2 DEF StartsEmpty, FaultAsks, MapAsks, CopyInPlace
  <2> QED
    BY <1>1, <1>5, <2>3 DEF IInv, TreeInv, OneDone
<1>8. CASE Len(call.todo) # 1
  <2>1. call' = [call EXCEPT !.todo = Tail(@), !.level = Top, !.table = root] /\ status' = status
    BY <1>1, <1>8 DEF OneDone, Advance
  <2>2. /\ call'.op = call.op /\ call'.todo = Tail(call.todo) /\ call'.flags = call.flags
        /\ call'.va = call.va /\ call'.data = call.data
    BY <1>2, <2>1 DEF Calls
  <2>3. Range(Tail(call.todo)) \subseteq Range(call.todo)
    <3>1. call.todo \in Seq(ChunkSet)
      BY <1>2, Operations
    <3> QED
      BY <1>2, <3>1, FirstAndRest
  <2>4. StartsEmpty' /\ FaultAsks'
    BY <1>1, <1>6, <2>1, <2>2, Operations DEF StartsEmpty, FaultAsks, OneDone
  <2>5. MapAsks'
    BY <1>1, <1>3, <1>4, <2>2, <2>3 DEF MapAsks, OneDone
  <2>6. CopyInPlace'
    <3> SUFFICES ASSUME call.op = "copy" PROVE CopyInPlace'
      BY <2>2 DEF CopyInPlace
    <3>1. PICK va, words, parts : va = call.va /\ words = call.data /\ parts = call.todo
      OBVIOUS
    <3>2. Copying(va, words, Tail(parts))'
      BY <1>1, <3>1, CopyDone
    <3> QED
      BY <2>2, <3>1, <3>2 DEF CopyInPlace
  <2> QED
    BY <1>1, <1>5, <2>4, <2>5, <2>6 DEF IInv, TreeInv, OneDone
<1> QED
  BY <1>7, <1>8

LEMMA OutOfMemoryInv ==
  ASSUME IInv, OutOfMemory
  PROVE  IInv' /\ SpaceStep
<1>1. call' = Idle /\ status' \in {"killed", "oom"} /\ UNCHANGED <<mem, free, root>>
  BY DEF OutOfMemory
<1>2. TreeInv' /\ Mapped' = Mapped /\ Space' = Space
  BY <1>1, Parts, EndTree
<1> QED
  BY <1>1, <1>2, GoesHome DEF IInv, TreeInv, SpaceStep

LEMMA UserStoreInv ==
  ASSUME IInv, UserStore
  PROVE  IInv' /\ SpaceStep
<1>1. TreeInv' /\ Mapped' = Mapped /\ \E v \in Mapped : \A flags : Abs!Put(v, flags, 0, <<Junk>>)
  BY Parts, UserStoreTree
<1>2. PICK v \in Mapped : \A flags : Abs!Put(v, flags, 0, <<Junk>>)
  BY <1>1
<1>3. PICK flags \in MapFlags : TRUE
  BY Parts DEF MapAsks
<1>4. v \in VPages /\ 0 \in Offsets
  BY PageWordsAssumption DEF Mapped, Offsets
<1>5. SpaceStep
  BY <1>2, <1>3, <1>4, PutIsStep
<1>6. call' = Idle /\ status' # "new"
  BY DEF UserStore, InUser
<1> QED
  BY <1>1, <1>5, <1>6, GoesHome DEF IInv, TreeInv

LEMMA ResolveInv ==
  ASSUME IInv, Resolve
  PROVE  IInv' /\ SpaceStep
<1>1. /\ TreeInv' /\ Mapped' = Mapped /\ call' = Idle
      /\ \/ /\ status' = "retry"
            /\ \E v \in Mapped, bits \in SUBSET {"A", "D"} : Abs!Mark(v, bits)
         \/ status' = "killed" /\ Space' = Space
  BY Parts, ResolveTree
<1>2. SpaceStep
  <2>1. ASSUME NEW v \in Mapped, NEW bits \in SUBSET {"A", "D"}, Abs!Mark(v, bits)
        PROVE  SpaceStep
    BY <2>1 DEF Mapped, SpaceStep, Abs!SpaceNext
  <2> QED
    BY <1>1, <2>1 DEF SpaceStep
<1>3. status' # "new"
  BY <1>1
<1> QED
  BY <1>1, <1>2, <1>3, GoesHome DEF IInv, TreeInv

\* A step that changes nothing.
LEMMA StutterInv ==
  ASSUME IInv, UNCHANGED vars
  PROVE  IInv' /\ SpaceStep
<1>1. UNCHANGED <<mem, free, root, call, status>>
  BY DEF vars
<1>2. TreeShape' /\ IsInjective(free)' /\ Mapped' = Mapped /\ Space' = Space
  BY <1>1, Parts, Still DEF TreeInv
<1>3. \A v : TableAt(v)' = TableAt(v)
  BY <1>1 DEF TableAt
<1>4. TypeOK' /\ StartsEmpty' /\ WalkInPlace' /\ FaultAsks' /\ MapAsks'
  BY <1>1, <1>2, <1>3, Parts DEF TreeInv, TypeOK, StartsEmpty, WalkInPlace, chunk, FaultAsks, MapAsks
<1>5. CopyInPlace'
  <2> SUFFICES ASSUME call.op = "copy" PROVE CopyInPlace'
    BY <1>1 DEF CopyInPlace
  <2>1. PICK va, data, parts : va = call.va /\ data = call.data /\ parts = call.todo
    OBVIOUS
  <2>2. Copying(va, data, parts)'
    BY <1>2, <2>1, Parts, CopyWaits DEF CopyInPlace
  <2> QED
    BY <1>1, <2>1, <2>2 DEF CopyInPlace
<1> QED
  BY <1>2, <1>4, <1>5 DEF IInv, SpaceStep

\* The initial states.
LEMMA StartInv ==
  ASSUME Init
  PROVE  IInv /\ Space = << >>
<1>1. TreeInv /\ StartsEmpty /\ Mapped = {} /\ Space = << >>
  BY InitTree
<1>2. call.op = "none"
  BY Operations DEF Init
<1>3. FaultAsks /\ MapAsks /\ CopyInPlace
  BY <1>1, <1>2, Operations DEF FaultAsks, MapAsks, CopyInPlace
<1> QED
  BY <1>1, <1>3 DEF IInv, TreeInv

\* Every step of the specification.
LEMMA StepInv ==
  ASSUME IInv, [Next]_vars
  PROVE  IInv' /\ SpaceStep
  BY CreatePtInv, MapPageInv, MapAndCopyInv, DescendInv, GrowInv, LeafInv, OutOfMemoryInv,
     UserStoreInv, PageFaultInv, ResolveInv, StutterInv DEF Next

\* The verdict of the handler.
FaultStep ==
  \A v \in VPages, access \in Access :
    (call.op = access /\ chunk.page = v /\ call' = Idle) =>
      /\ status' = "retry" => Translates(v, access)'
      /\ status' = "killed" => ~ Allowed(v, access)

\* Of all steps only Resolve and OutOfMemory end a fault.
LEMMA FaultEnds ==
  ASSUME IInv, [Next]_vars
  PROVE  FaultStep
<1> SUFFICES ASSUME NEW v \in VPages, NEW access \in Access,
                    call.op = access, chunk.page = v, call' = Idle
             PROVE  /\ status' = "retry" => Translates(v, access)'
                    /\ status' = "killed" => ~ Allowed(v, access)
  BY DEF FaultStep
<1>1. call # Idle /\ call.op \in Access
  BY Operations
<1>2. call.flags = Needs(access)
  BY <1>1, Parts DEF FaultAsks
<1>3. CASE OutOfMemory
  <2>1. status' = "killed"
    BY <1>1, <1>3 DEF OutOfMemory
  <2>2. v \notin Mapped
    BY <1>1, <1>3, Parts, WalkSays, CallFacts, LevelFacts DEF OutOfMemory
  <2> QED
    BY <2>1, <2>2 DEF Allowed
<1>4. CASE Resolve
  <2>1. CASE /\ status' = "retry"
             /\ \E w \in Mapped, bits \in SUBSET {"A", "D"} :
                  /\ w = chunk.page /\ bits = Marks(call.op)
                  /\ call.flags \cup bits \subseteq Leaf(w)'.flags
    <3>1. v \in Mapped /\ Needs(access) \cup Marks(access) \subseteq Leaf(v)'.flags
      BY <1>2, <2>1
    <3>2. Mapped' = Mapped
      BY <1>4, Parts, ResolveTree
    <3> QED
      BY <2>1, <3>1, <3>2 DEF Translates, Allowed
  <2>2. CASE /\ status' = "killed"
             /\ ~ (chunk.page \in Mapped /\ call.flags \subseteq Leaf(chunk.page).flags)
    BY <1>2, <2>2 DEF Allowed
  <2> QED
    BY <1>4, <2>1, <2>2, Parts, ResolveTree
<1>5. ~ (CreatePt \/ MapPage \/ MapAndCopy \/ UserStore \/ PageFault \/ UNCHANGED vars)
  BY <1>1, Parts DEF CreatePt, StartsEmpty, MapPage, MapAndCopy, UserStore, PageFault, InUser, vars
<1>6. ~ (MapLeaf \/ Reuse)
  BY <1>1 DEF MapLeaf, Reuse
<1>7. ~ (Descend \/ Grow)
  BY DescendInv, GrowInv
<1> QED
  BY <1>3, <1>4, <1>5, <1>6, <1>7 DEF Next

\* The end of map_and_copy.
CopyStep ==
  \A va \in Addresses, data \in Sources :
    (call.op = "copy" /\ call.va = va /\ call.data = data /\ call' = Idle /\ status' = "ok") =>
      \A i \in DOMAIN data :
        /\ ((va + i - 1) \div PageWords) \in Mapped'
        /\ WordAt(va + i - 1)' = data[i]

\* Of all steps only MapLeaf and Reuse end a copy with success.
LEMMA CopyEnds ==
  ASSUME IInv, [Next]_vars
  PROVE  CopyStep
<1> SUFFICES ASSUME NEW va \in Addresses, NEW data \in Sources,
                    call.op = "copy", call.va = va, call.data = data, call' = Idle, status' = "ok",
                    NEW i \in DOMAIN data
             PROVE  /\ ((va + i - 1) \div PageWords) \in Mapped'
                    /\ WordAt(va + i - 1)' = data[i]
  BY DEF CopyStep
<1>1. call # Idle /\ call.op \notin Access
  BY Operations
<1>2. ~ (CreatePt \/ MapPage \/ MapAndCopy \/ UserStore \/ PageFault \/ UNCHANGED vars)
  BY <1>1, Parts DEF CreatePt, StartsEmpty, MapPage, MapAndCopy, UserStore, PageFault, InUser, vars
<1>3. ~ OutOfMemory
  BY <1>1 DEF OutOfMemory
<1>4. ~ Resolve
  BY <1>1 DEF Resolve
<1>5. ~ (Descend \/ Grow)
  BY DescendInv, GrowInv
<1>6. MapLeaf \/ Reuse
  BY <1>2, <1>3, <1>4, <1>5 DEF Next
<1>7. OneDone
  BY <1>6, LeafDone
<1>8. call \in Calls /\ call.todo # << >>
  BY <1>1, Parts, CallFacts
<1>9. PICK parts \in Seq(ChunkSet) : parts = call.todo /\ parts # << >> /\ Len(parts) = 1
  <2>1. call.todo \in Seq(ChunkSet)
    BY <1>8, Operations
  <2>2. ASSUME Len(call.todo) # 1 PROVE FALSE
    <3>1. call' = [call EXCEPT !.todo = Tail(@), !.level = Top, !.table = root]
      BY <1>7, <2>2 DEF OneDone, Advance
    <3>2. call'.op = "copy"
      BY <1>8, <3>1 DEF Calls
    <3> QED
      BY <3>2, Operations
  <2> QED
    BY <1>8, <2>1, <2>2
<1>10. Copying(va, data, Tail(parts))'
  BY <1>1, <1>7, <1>9, CopyDone
<1>11. Tail(parts) = << >>
  BY <1>9, FirstAndRest
<1>12. Range(Tail(parts)) = {} /\ i \in 1 .. Len(data)
  <2>1. Range(<< >>) = {}
    BY DEF Range
  <2>2. data \in Seq(Word)
    BY InputAssumption
  <2> QED
    BY <1>11, <2>1, <2>2, LenProperties
<1> QED
  BY <1>10, <1>12 DEF Copying

\* A sum counts what its parts count.
LEMMA SumCounts ==
  ASSUME NEW S, IsFiniteSet(S), NEW f, DOMAIN f = S, NEW U, IsFiniteSet(U), NEW at \in [U -> S],
         \A i \in S : f[i] = Cardinality({u \in U : at[u] = i})
  PROVE  SumFunction(f) = Cardinality(U)
<1> DEFINE first(s) == CHOOSE x \in s : TRUE
           P(h) == h = [s \in SUBSET S |->
                          IF s = {} THEN 0 ELSE f[first(s)] + h[s \ {first(s)}]]
           In(s) == {u \in U : at[u] \in s}
           n(s) == Cardinality(In(s))
<1>1. ASSUME NEW s \in SUBSET S, s # {}
      PROVE  first(s) \in s /\ n(s) = f[first(s)] + n(s \ {first(s)})
  <2>1. first(s) \in s
    BY <1>1, Zenon
  <2> HIDE DEF first
  <2> DEFINE A == {u \in U : at[u] = first(s)}
             B == In(s \ {first(s)})
  <2>2. IsFiniteSet(A) /\ IsFiniteSet(B)
    BY FS_Subset
  <2>3. A \cap B = {} /\ In(s) = A \cup B
    BY <2>1
  <2>4. Cardinality(A \cap B) = 0
    BY <2>3, FS_EmptySet
  <2>5. Cardinality(A) \in Nat /\ Cardinality(B) \in Nat
    BY <2>2, FS_CardinalityType
  <2>6. Cardinality(A \cup B) = Cardinality(A) + Cardinality(B) - Cardinality(A \cap B)
    BY <2>2, FS_Union
  <2>7. f[first(s)] = Cardinality(A)
    BY <2>1
  <2>8. n(s) = Cardinality(A \cup B) /\ n(s \ {first(s)}) = Cardinality(B)
    BY <2>3
  <2> HIDE DEF A, B, n
  <2>9. n(s) = Cardinality(A) + Cardinality(B)
    BY <2>4, <2>5, <2>6, <2>8
  <2> QED
    BY <2>1, <2>7, <2>8, <2>9
<1>2. n({}) = 0 /\ \A s \in SUBSET S : n(s) \in Nat
  <2>1. In({}) = {}
    OBVIOUS
  <2>2. \A s \in SUBSET S : IsFiniteSet(In(s))
    BY FS_Subset
  <2> QED
    BY <2>1, <2>2, FS_EmptySet, FS_CardinalityType
<1>3. n(S) = Cardinality(U)
  <2>1. In(S) = U
    OBVIOUS
  <2> QED
    BY <2>1
<1>4. P([s \in SUBSET S |-> n(s)])
  <2> DEFINE h == [s \in SUBSET S |-> n(s)]
  <2> HIDE DEF n
  <2>1. ASSUME NEW s \in SUBSET S
        PROVE  n(s) = IF s = {} THEN 0 ELSE f[first(s)] + h[s \ {first(s)}]
    <3>1. s # {} => h[s \ {first(s)}] = n(s \ {first(s)})
      BY <1>1
    <3> HIDE DEF h, first
    <3> QED
      BY <1>1, <1>2, <3>1
  <2> HIDE DEF first
  <2> QED
    BY <2>1
<1>5. P(CHOOSE h : P(h))
  <2> HIDE DEF P
  <2> QED
    BY <1>4, Zenon
<1> DEFINE g == CHOOSE h : P(h)
<1>6. SumFunction(f) = g[S]
  BY DEF SumFunction, SumFunctionOnSet, FoldFunctionOnSet, MapThenFoldSet
<1>7. \A s \in SUBSET S : g[s] = IF s = {} THEN 0 ELSE f[first(s)] + g[s \ {first(s)}]
  <2>1. P(g)
    BY <1>5
  <2> HIDE DEF g, first
  <2> QED
    BY <2>1
<1> HIDE DEF g, n, first, P
<1> DEFINE Bad == {s \in SUBSET S : g[s] # n(s)}
<1>8. ASSUME Bad # {} PROVE FALSE
  <2>1. \A s \in SUBSET S : IsFiniteSet(s) /\ Cardinality(s) \in Nat
    BY FS_Subset, FS_CardinalityType
  <2> DEFINE sizes == {Cardinality(s) : s \in Bad}
  <2>2. sizes \in SUBSET Nat /\ sizes # {}
    BY <1>8, <2>1
  <2>3. PICK m \in sizes : \A k \in sizes : m <= k
    <3> HIDE DEF sizes
    <3> QED
      BY <2>2, Least
  <2>4. PICK s \in Bad : m = Cardinality(s)
    BY <2>3
  <2>5. s # {}
    BY <1>2, <1>7, <2>4
  <2>6. first(s) \in s /\ n(s) = f[first(s)] + n(s \ {first(s)})
    BY <1>1, <2>4, <2>5
  <2>7. Cardinality(s \ {first(s)}) = Cardinality(s) - 1
    <3>1. PICK x : x = first(s)
      OBVIOUS
    <3>2. IsFiniteSet(s) /\ x \in s
      BY <2>1, <2>4, <2>6, <3>1
    <3>3. Cardinality(s \ {x}) = Cardinality(s) - 1
      BY <3>2, FS_RemoveElement
    <3> QED
      BY <3>1, <3>3
  <2>8. s \ {first(s)} \notin Bad
    <3>1. PICK c : c = Cardinality(s \ {first(s)})
      OBVIOUS
    <3>2. m \in Nat /\ c = m - 1
      BY <2>1, <2>4, <2>7, <3>1
    <3>3. c \notin sizes
      <4> HIDE DEF sizes
      <4> QED
        BY <2>3, <3>2
    <3>4. s \ {first(s)} \in SUBSET S
      BY <2>4
    <3> QED
      BY <3>1, <3>3, <3>4
  <2>9. g[s \ {first(s)}] = n(s \ {first(s)})
    BY <2>4, <2>8
  <2> QED
    BY <1>7, <2>4, <2>5, <2>6, <2>9
<1> QED
  BY <1>3, <1>6, <1>8

-----------------------------------------------------------------------------
(* Counting. *)

\* Every entry of a table is the one for some page.
LEMMA EntryOf ==
  ASSUME NEW v \in VPages, NEW l \in Level, NEW i \in Offsets
  PROVE  \E w \in VPages : Path(l + 1, w) = Path(l + 1, v) /\ PtIdx(l, w) = i
<1>1. /\ Top \in Nat /\ Level = 0 .. Top /\ Top + 1 = Levels /\ v \in Nat
      /\ l \in 0 .. Levels /\ l + 1 \in 0 .. Levels /\ Levels \in 0 .. Levels
  BY LevelFacts DEF VPages
<1>2. PICK p \in Nat : p = Path(l + 1, v)
  BY <1>1, PathFacts
<1>3. PICK n \in Nat \ {0}, s \in Nat \ {0} : n = PageWords /\ s = Span[l]
  BY <1>1, PageWordsAssumption, SpanFacts
<1>4. i \in 0 .. n - 1
  BY <1>3 DEF Offsets
<1> DEFINE q == n * p + i
           w == s * q
<1>5. q \in Nat /\ q \div n = p /\ q % n = i
  <2>1. \A a, b \in Nat, m \in Nat \ {0} : b < m => m * a + b \in Nat /\ (m * a + b) \div m = a
    BY SMT
  <2>2. \A a, b \in Nat, m \in Nat \ {0} : b < m => (m * a + b) % m = b
    BY SMT
  <2> QED
    BY <1>4, <2>1, <2>2
<1> HIDE DEF q
<1>6. w \in Nat /\ w \div s = q
  <2>1. \A a \in Nat, m \in Nat \ {0} : m * a \in Nat /\ (m * a) \div m = a
    BY SMT
  <2> QED
    BY <1>5, <2>1
<1> HIDE DEF w
<1>7. PtIdx(l, w) = i
  BY <1>3, <1>5, <1>6 DEF PtIdx
<1>8. Path(l + 1, w) = p
  <2>1. Path(l, w) = q
    BY <1>3, <1>6 DEF Path
  <2>2. Path(l + 1, w) = Path(l, w) \div PageWords
    BY <1>6, PathFacts
  <2> QED
    BY <1>3, <1>5, <2>1, <2>2
<1>9. Path(Levels, w) = Path(Levels, v)
  <2> DEFINE top == Levels - (l + 1)
             S == {k \in 0 .. top : Path(l + 1 + k, w) = Path(l + 1 + k, v)}
  <2>1. top \in Nat /\ l + 1 + top = Levels
    BY <1>1
  <2>2. 0 \in S
    BY <1>1, <1>2, <1>8, <2>1
  <2>3. ASSUME NEW k \in 0 .. top - 1, k \in S PROVE k + 1 \in S
    <3>1. l + 1 + k \in Level /\ k + 1 \in 0 .. top /\ l + 1 + (k + 1) = (l + 1 + k) + 1
      BY <1>1, <2>1
    <3>2. /\ Path((l + 1 + k) + 1, w) = Path(l + 1 + k, w) \div PageWords
          /\ Path((l + 1 + k) + 1, v) = Path(l + 1 + k, v) \div PageWords
      BY <1>1, <1>6, <3>1, PathFacts
    <3> QED
      BY <2>3, <3>1, <3>2
  <2>4. S = 0 .. top
    <3>1. S \in SUBSET (0 .. top)
      OBVIOUS
    <3> HIDE DEF S, top
    <3> QED
      BY <2>1, <2>2, <2>3, <3>1, UpTo
  <2>5. top \in S
    BY <2>1, <2>4
  <2> QED
    BY <2>1, <2>5
<1>10. w \in VPages
  <2>1. PICK m \in Nat \ {0} : m = Span[Levels]
    BY <1>1, SpanFacts
  <2>2. w \div m = 0
    BY <1>1, <1>9, <2>1, PathFacts DEF Path
  <2>3. \A a \in Nat, b \in Nat \ {0} : a \div b = 0 => a \in 0 .. b - 1
    BY SMT
  <2> QED
    BY <1>6, <2>1, <2>2, <2>3 DEF VPages
<1> QED
  BY <1>2, <1>7, <1>8, <1>10

\* The pages under an entry that have the bits.
Marked(l, v, bits) == {w \in Mapped : Path(l, w) = Path(l, v) /\ bits \subseteq Leaf(w).flags}

LEMMA MarkedFinite ==
  ASSUME NEW l, NEW v, NEW bits
  PROVE  IsFiniteSet(Marked(l, v, bits))
<1>1. 0 \in Int /\ Span[Levels] - 1 \in Int
  BY SpanFacts, LevelFacts
<1>2. IsFiniteSet(VPages)
  BY <1>1, FS_Interval DEF VPages
<1>3. Marked(l, v, bits) \subseteq VPages
  BY DEF Marked, Mapped
<1> QED
  BY <1>2, <1>3, FS_Subset

\* What count_pt adds up for an entry is the number of pages under it.
LEMMA EntryCounts ==
  ASSUME TypeOK, TreeShape, InnerTables, NEW bits, NEW l \in Level, NEW w \in VPages,
         TableAt(w)[l] # NoPage, NEW below,
         l > 0 => \A u \in VPages : TableAt(u)[l - 1] # NoPage =>
                    below[TableAt(u)[l - 1]] = Cardinality(Marked(l, u, bits))
  PROVE  CountEntry(mem[TableAt(w)[l]][PtIdx(l, w)], l, below, bits) = Cardinality(Marked(l, w, bits))
<1>1. Top \in Nat /\ Level = 0 .. Top /\ w \in Nat /\ NoPage \notin Page
  BY LevelFacts, ShapeAssumption DEF VPages
<1>2. PICK t \in Page, i \in Offsets : t = TableAt(w)[l] /\ i = PtIdx(l, w)
  BY <1>1, TableFacts, PathFacts DEF PageOrNone
<1>3. PICK e \in Word : e = mem[t][i]
  BY DEF TypeOK
<1>4. CountEntry(e, l, below, bits) =
        CASE ~ e.valid -> 0
          [] e.valid /\ IsTable(e) /\ l > 0 -> below[e.page]
          [] OTHER -> IF bits \subseteq e.flags THEN Span[l] ELSE 0
  BY DEF CountEntry
<1>5. e.valid \in BOOLEAN
  BY <1>3 DEF Word
<1>6. CASE l > 0
  <2>1. l - 1 \in Level /\ l - 1 \in 0 .. Top - 1 /\ (l - 1) + 1 = l /\ l \in 1 .. Top
    BY <1>1, <1>6
  <2>2. TableAt(w)[l - 1] = IF e.valid THEN e.page ELSE NoPage
    <3>1. TableAt(w)[l - 1] = Under(mem, TableAt(w)[l], l, w)
      BY <2>1, TableFacts
    <3> QED
      BY <1>1, <1>2, <1>3, <3>1 DEF Under
  <2>3. CASE ~ e.valid
    <3>1. Marked(l, w, bits) = {}
      <4> SUFFICES ASSUME NEW u \in Mapped, Path(l, u) = Path(l, w) PROVE FALSE
        BY DEF Marked
      <4>1. u \in VPages /\ root \in PageOrNone /\ mem \in Memories
        BY MemType DEF Mapped
      <4>2. TableAt(u)[l - 1] = TableAt(w)[l - 1]
        BY <2>1, <4>1, WalkPath DEF TableAt
      <4>3. u \notin Mapped
        BY <2>1, <2>2, <2>3, <4>1, <4>2, WayEnds
      <4> QED
        BY <4>3
    <3> QED
      BY <1>2, <1>3, <1>4, <2>3, <3>1, FS_EmptySet
  <2>4. CASE e.valid
    <3>1. IsTable(e)
      BY <1>1, <1>2, <1>3, <2>1, <2>4 DEF InnerTables
    <3>2. e.page \in Page
      BY <1>1, <1>2, <1>3, <2>4, TablePage DEF TreeShape, EntriesPoint
    <3>3. below[e.page] = Cardinality(Marked(l, w, bits))
      BY <1>1, <1>6, <2>2, <2>4, <3>2
    <3> QED
      BY <1>2, <1>3, <1>4, <1>6, <2>4, <3>1, <3>3
  <2> QED
    BY <1>5, <2>3, <2>4
<1>7. CASE l = 0
  <2>1. Leaf(w) = e /\ (w \in Mapped <=> e.valid)
    BY <1>1, <1>2, <1>3, <1>7, LeafFacts
  <2>2. Marked(l, w, bits) = IF e.valid /\ bits \subseteq e.flags THEN {w} ELSE {}
    <3>1. \A u \in Mapped : Path(l, u) = Path(l, w) <=> u = w
      <4> SUFFICES ASSUME NEW u \in Mapped PROVE Path(l, u) = Path(l, w) <=> u = w
        OBVIOUS
      <4>1. u \in Nat
        BY DEF Mapped, VPages
      <4> QED
        BY <1>1, <1>7, <4>1, PathFacts
    <3> QED
      BY <2>1, <3>1 DEF Marked
  <2>3. CountEntry(e, l, below, bits) = IF e.valid /\ bits \subseteq e.flags THEN 1 ELSE 0
    <3>1. ~ (l > 0) /\ Span[l] = 1
      BY <1>7, SpanFacts
    <3> QED
      BY <1>4, <1>5, <3>1
  <2>4. Cardinality({w}) = 1 /\ Cardinality({}) = 0
    BY FS_EmptySet, FS_Singleton
  <2> QED
    BY <1>2, <1>3, <2>2, <2>3, <2>4
<1> QED
  BY <1>1, <1>6, <1>7

\* A table counts the pages under it, if the tables below it do.
LEMMA TableCounts ==
  ASSUME TypeOK, TreeShape, InnerTables, NEW bits, NEW l \in Level, NEW v \in VPages,
         TableAt(v)[l] # NoPage, NEW below,
         l > 0 => \A u \in VPages : TableAt(u)[l - 1] # NoPage =>
                    below[TableAt(u)[l - 1]] = Cardinality(Marked(l, u, bits))
  PROVE  CountPtLevel(TableAt(v)[l], l, below, bits) = Cardinality(Marked(l + 1, v, bits))
<1>1. mem \in Memories /\ root \in PageOrNone
  BY MemType
<1> DEFINE U == Marked(l + 1, v, bits)
           at == [u \in U |-> PtIdx(l, u)]
           f == [i \in Offsets |-> CountEntry(mem[TableAt(v)[l]][i], l, below, bits)]
<1>2. \A u \in U : u \in VPages /\ u \in Nat /\ Path(l + 1, u) = Path(l + 1, v)
  BY DEF Marked, Mapped, VPages
<1>3. at \in [U -> Offsets]
  BY <1>2, PathFacts
<1>4. ASSUME NEW i \in Offsets
      PROVE  f[i] = Cardinality({u \in U : at[u] = i})
  <2>1. PICK w \in VPages : Path(l + 1, w) = Path(l + 1, v) /\ PtIdx(l, w) = i
    BY EntryOf
  <2>2. TableAt(w)[l] = TableAt(v)[l]
    BY <1>1, <2>1, WalkPath DEF TableAt
  <2>3. f[i] = Cardinality(Marked(l, w, bits))
    BY <2>1, <2>2, EntryCounts
  <2>4. {u \in U : at[u] = i} = Marked(l, w, bits)
    <3>1. \A u \in Mapped : Path(l, u) = Path(l, w) <=> Path(l + 1, u) = Path(l + 1, v) /\ PtIdx(l, u) = i
      <4> SUFFICES ASSUME NEW u \in Mapped
                   PROVE  Path(l, u) = Path(l, w) <=> Path(l + 1, u) = Path(l + 1, v) /\ PtIdx(l, u) = i
        OBVIOUS
      <4>1. u \in Nat /\ w \in Nat
        BY DEF Mapped, VPages
      <4> QED
        BY <2>1, <4>1, SameEntry
    <3> QED
      BY <3>1 DEF Marked
  <2> QED
    BY <2>3, <2>4
<1>5. CountPtLevel(TableAt(v)[l], l, below, bits) = SumFunction(f)
  BY DEF CountPtLevel
<1>6. IsFiniteSet(U) /\ IsFiniteSet(Offsets) /\ DOMAIN f = Offsets
  <2>1. 0 \in Int /\ PageWords - 1 \in Int
    BY PageWordsAssumption
  <2> QED
    BY <2>1, MarkedFinite, FS_Interval DEF Offsets
<1>7. SumFunction(f) = Cardinality(U)
  <2> HIDE DEF f, U, at
  <2> QED
    BY <1>3, <1>4, <1>6, SumCounts
<1> QED
  BY <1>5, <1>7

\* The counts of all tables: those of a level are made from those of the level below.
LEMMA CountDef ==
  ASSUME NEW bits
  PROVE  \E count :
           /\ count[0] = [t \in Page |-> CountPtLevel(t, 0, << >>, bits)]
           /\ \A l \in 1 .. Top : count[l] = [t \in Page |-> CountPtLevel(t, l, count[l - 1], bits)]
           /\ CountPt(bits) = IF root = NoPage THEN 0 ELSE count[Top][root]
<1> DEFINE Tables(l, below) == [t \in Page |-> CountPtLevel(t, l, below, bits)]
           Prior(f, l) == IF l = 0 THEN << >> ELSE f[l - 1]
           P(f) == f = [l \in Level |-> Tables(l, Prior(f, l))]
           Q(n, f) == \A l \in 0 .. n : f[l] = Tables(l, Prior(f, l))
           S == {n \in 0 .. Top : \E f : Q(n, f)}
<1>0. Top \in Nat /\ Level = 0 .. Top
  BY LevelFacts
<1> HIDE DEF Tables
<1>1. 0 \in S
  <2>1. Q(0, [l \in 0 .. 0 |-> Tables(0, << >>)])
    OBVIOUS
  <2> HIDE DEF Q
  <2> QED
    BY <1>0, <2>1
<1>2. ASSUME NEW n \in 0 .. Top - 1, n \in S PROVE n + 1 \in S
  <2>1. PICK f : Q(n, f)
    BY <1>2
  <2> DEFINE g == [l \in 0 .. n + 1 |-> IF l = n + 1 THEN Tables(n + 1, f[n]) ELSE f[l]]
  <2>2. Q(n + 1, g)
    <3> SUFFICES ASSUME NEW l \in 0 .. n + 1 PROVE g[l] = Tables(l, Prior(g, l))
      OBVIOUS
    <3>1. CASE l = n + 1
      <4>1. Prior(g, l) = f[n] /\ g[l] = Tables(n + 1, f[n])
        BY <1>0, <3>1
      <4> QED
        BY <3>1, <4>1
    <3>2. CASE l # n + 1
      <4>1. l \in 0 .. n /\ g[l] = f[l]
        BY <1>0, <3>2
      <4>2. Prior(g, l) = Prior(f, l)
        BY <1>0, <4>1
      <4> QED
        BY <2>1, <4>1, <4>2
    <3> QED
      BY <3>1, <3>2
  <2>3. n + 1 \in 0 .. Top
    BY <1>0
  <2> HIDE DEF g, Q
  <2> QED
    BY <2>2, <2>3
<1>3. Top \in S
  <2>1. S \in SUBSET (0 .. Top)
    OBVIOUS
  <2> HIDE DEF S
  <2>2. S = 0 .. Top
    BY <1>0, <1>1, <1>2, <2>1, UpTo
  <2> QED
    BY <1>0, <2>2
<1>4. PICK f : Q(Top, f)
  BY <1>3
<1>5. P([l \in Level |-> f[l]])
  <2> DEFINE h == [l \in Level |-> f[l]]
  <2>1. ASSUME NEW l \in Level PROVE h[l] = Tables(l, Prior(h, l))
    <3>1. Prior(h, l) = Prior(f, l)
      BY <1>0
    <3> QED
      BY <1>0, <1>4, <3>1
  <2> HIDE DEF Prior
  <2> QED
    BY <2>1
<1>6. P(CHOOSE g : P(g))
  <2> HIDE DEF P
  <2> QED
    BY <1>5, Zenon
<1> DEFINE count == CHOOSE g : P(g)
<1>7. CountPt(bits) = IF root = NoPage THEN 0 ELSE count[Top][root]
  BY DEF CountPt, Tables
<1>8. \A l \in 0 .. Top : count[l] = Tables(l, Prior(count, l))
  <2>1. P(count)
    BY <1>6
  <2> HIDE DEF count
  <2> QED
    BY <1>0, <2>1
<1> HIDE DEF count, P
<1>9. count[0] = Tables(0, << >>) /\ \A l \in 1 .. Top : count[l] = Tables(l, count[l - 1])
  BY <1>0, <1>8
<1> QED
  BY <1>7, <1>9 DEF Tables

\* So count_pt counts the pages that are mapped.
LEMMA CountIsExact ==
  ASSUME TypeOK, TreeShape, InnerTables, NEW bits
  PROVE  CountPt(bits) = Cardinality({v \in Mapped : bits \subseteq Leaf(v).flags})
<1>1. /\ Top \in Nat /\ Level = 0 .. Top /\ Top + 1 = Levels /\ NoPage \notin Page
      /\ Levels \in 0 .. Levels
  BY LevelFacts, ShapeAssumption
<1>2. PICK count :
        /\ count[0] = [t \in Page |-> CountPtLevel(t, 0, << >>, bits)]
        /\ \A l \in 1 .. Top : count[l] = [t \in Page |-> CountPtLevel(t, l, count[l - 1], bits)]
        /\ CountPt(bits) = IF root = NoPage THEN 0 ELSE count[Top][root]
  BY CountDef
<1>3. \A v \in VPages, l \in Level : TableAt(v)[l] # NoPage => TableAt(v)[l] \in Page
  BY TableFacts DEF PageOrNone
<1> DEFINE Counts(l) ==
             \A v \in VPages : TableAt(v)[l] # NoPage =>
               count[l][TableAt(v)[l]] = Cardinality(Marked(l + 1, v, bits))
           S == {l \in 0 .. Top : Counts(l)}
<1>4. 0 \in S
  <2>1. ASSUME NEW v \in VPages, TableAt(v)[0] # NoPage
        PROVE  count[0][TableAt(v)[0]] = Cardinality(Marked(0 + 1, v, bits))
    <3>1. 0 \in Level /\ ~ (0 > 0)
      BY <1>1
    <3>2. CountPtLevel(TableAt(v)[0], 0, << >>, bits) = Cardinality(Marked(0 + 1, v, bits))
      BY <2>1, <3>1, TableCounts
    <3>3. TableAt(v)[0] \in Page
      BY <1>3, <2>1, <3>1
    <3> QED
      BY <1>2, <3>2, <3>3
  <2> QED
    BY <1>1, <2>1
<1>5. ASSUME NEW l \in 0 .. Top - 1, l \in S PROVE l + 1 \in S
  <2>1. l + 1 \in Level /\ l + 1 \in 1 .. Top /\ (l + 1) - 1 = l /\ l + 1 \in 0 .. Top
    BY <1>1
  <2>2. PICK k \in Level : k = l + 1 /\ k - 1 = l
    BY <2>1
  <2>3. \A u \in VPages : TableAt(u)[k - 1] # NoPage =>
          count[l][TableAt(u)[k - 1]] = Cardinality(Marked(k, u, bits))
    BY <1>5, <2>2
  <2>4. ASSUME NEW v \in VPages, TableAt(v)[k] # NoPage
        PROVE  count[k][TableAt(v)[k]] = Cardinality(Marked(k + 1, v, bits))
    <3>1. CountPtLevel(TableAt(v)[k], k, count[l], bits) = Cardinality(Marked(k + 1, v, bits))
      BY <2>3, <2>4, TableCounts
    <3>2. count[k] = [t \in Page |-> CountPtLevel(t, k, count[l], bits)]
      BY <1>2, <2>1, <2>2
    <3>3. TableAt(v)[k] \in Page
      BY <1>3, <2>4
    <3> QED
      BY <3>1, <3>2, <3>3
  <2>5. Counts(k)
    BY <2>4
  <2> HIDE DEF Counts
  <2> QED
    BY <2>1, <2>2, <2>5
<1>6. Counts(Top)
  <2>1. S \in SUBSET (0 .. Top)
    OBVIOUS
  <2> HIDE DEF S
  <2>2. S = 0 .. Top
    BY <1>1, <1>4, <1>5, <2>1, UpTo
  <2>3. Top \in S
    BY <1>1, <2>2
  <2> HIDE DEF Counts
  <2> QED
    BY <2>3 DEF S
<1> HIDE DEF S
<1>7. PICK v \in VPages : TRUE
  <2>1. Span[Levels] \in Nat \ {0}
    BY <1>1, SpanFacts
  <2>2. 0 \in VPages
    BY <2>1 DEF VPages
  <2> QED
    BY <2>2
<1>8. TableAt(v)[Top] = root /\ Top \in Level
  BY <1>1, TableFacts
<1>9. Marked(Levels, v, bits) = {w \in Mapped : bits \subseteq Leaf(w).flags}
  <2>1. \A w \in VPages : Path(Levels, w) = 0
    BY PathFacts DEF VPages
  <2>2. \A w \in Mapped : Path(Levels, w) = Path(Levels, v)
    BY <2>1 DEF Mapped
  <2> QED
    BY <2>2 DEF Marked
<1>10. CASE root # NoPage
  BY <1>1, <1>2, <1>6, <1>8, <1>9, <1>10
<1>11. CASE root = NoPage
  <2>1. Mapped = {}
    BY <1>11, NothingMapped
  <2>2. {w \in Mapped : bits \subseteq Leaf(w).flags} = {}
    BY <2>1
  <2> QED
    BY <1>2, <1>11, <2>2, FS_EmptySet
<1> QED
  BY <1>10, <1>11

\* A step that changes no entry above the lowest level keeps these as they are.
LEMMA InnerKept ==
  ASSUME TypeOK, TreeShape, InnerTables, TypeOK', root' = root, NEW v0 \in VPages,
         \A q \in TablePages : q # TableAt(v0)[0] => mem'[q] = mem[q]
  PROVE  InnerTables'
<1>1. /\ Top \in Nat /\ Level = 0 .. Top /\ 0 \in Level
      /\ mem \in Memories /\ root \in PageOrNone /\ mem' \in Memories
  BY MemType, LevelFacts DEF TypeOK, Memories
<1>2. ASSUME NEW v \in VPages, NEW l \in 1 .. Top, TableAt(v)[l] # NoPage
      PROVE  mem'[TableAt(v)[l]] = mem[TableAt(v)[l]]
  <2>1. l \in Level /\ l # 0
    BY <1>1
  <2>2. TableAt(v)[l] # TableAt(v0)[0]
    BY <1>1, <1>2, <2>1, Apart
  <2> QED
    BY <1>2, <2>1, <2>2, TablePage
<1>3. ASSUME NEW v \in VPages PROVE TableAt(v)' = TableAt(v)
  <2>1. \A l \in 1 .. Top : Walk(mem, root, v)[l] # NoPage =>
          mem'[Walk(mem, root, v)[l]][PtIdx(l, v)] = mem[Walk(mem, root, v)[l]][PtIdx(l, v)]
    BY <1>2 DEF TableAt
  <2>2. v \in Nat
    BY DEF VPages
  <2>3. Walk(mem', root, v) = Walk(mem, root, v)
    BY <1>1, <2>1, <2>2, SameWalk
  <2> QED
    BY <2>3 DEF TableAt
<1> QED
  BY <1>2, <1>3 DEF InnerTables

\* Where there is no table but an empty root, no entry is valid.
LEMMA InnerEmpty ==
  ASSUME TypeOK, root # NoPage => mem[root] = ZeroPage
  PROVE  InnerTables
<1> SUFFICES ASSUME NEW v \in VPages, NEW l \in 1 .. Top, TableAt(v)[l] # NoPage
             PROVE  ~ mem[TableAt(v)[l]][PtIdx(l, v)].valid
  BY DEF InnerTables
<1>1. l \in Level /\ v \in Nat
  BY LevelFacts DEF VPages
<1>2. TableAt(v)[l] = root /\ root # NoPage
  BY <1>1, NothingMapped
<1>3. PtIdx(l, v) \in Offsets
  BY <1>1, PathFacts
<1> QED
  BY <1>2, <1>3, ZeroAssumption DEF ZeroPage

LEMMA CreatePtInner ==
  ASSUME IInv, CreatePt
  PROVE  InnerTables'
<1>1. IInv'
  BY CreatePtInv
<1>2. TypeOK /\ TypeOK' /\ root = NoPage
  BY <1>1, Parts DEF IInv, CreatePt, StartsEmpty
<1>3. root' # NoPage => mem'[root'] = ZeroPage
  <2>1. CASE UNCHANGED root
    BY <1>2, <2>1
  <2>2. ASSUME NEW p \in Page, root' = p, mem' = [mem EXCEPT ![p] = ZeroPage]
        PROVE  mem'[root'] = ZeroPage
    BY <1>2, <2>2 DEF TypeOK
  <2> QED
    BY <2>1, <2>2 DEF CreatePt
<1>4. (TypeOK /\ (root # NoPage => mem[root] = ZeroPage))'
  BY <1>2, <1>3
<1> QED
  BY <1>4, InnerEmpty, PTL

\* The entry that leads to a new table is marked as one, and the table is empty.
LEMMA GrowInner ==
  ASSUME IInv, InnerTables, Grow
  PROVE  InnerTables'
<1>1. /\ call # Idle /\ call.table # NoPage /\ call.level > 0 /\ ~ entry.valid
      /\ UNCHANGED <<root, status>>
  BY DEF Grow
<1>2. PICK p \in Page :
        /\ Take(p)
        /\ mem' = [mem EXCEPT ![p] = ZeroPage, ![call.table][index] = Entry(call.level, p, {})]
  BY DEF Grow
<1>3. TypeOK /\ TreeShape /\ TreeInv
  BY Parts
<1>4. PICK v0 \in VPages, k \in Level, t \in Page, i0 \in Offsets :
        /\ v0 = chunk.page /\ k = call.level
        /\ t = call.table /\ t = TableAt(v0)[k] /\ i0 = index /\ i0 = PtIdx(k, v0)
        /\ t \in TablePages /\ ~ mem[t][i0].valid
  BY <1>1, <1>3, CallFacts DEF entry
<1>5. k \in 1 .. Top /\ k - 1 \in Level
  BY <1>1, <1>4, LevelFacts
<1>6. p \in Range(free) /\ Range(free') \subseteq Range(free) \ {p} /\ p \notin TablePages
  <2>1. p \in Range(free) /\ Range(free') \subseteq Range(free) \ {p}
    BY <1>2, <1>3, TakeFacts DEF TreeInv
  <2> QED
    BY <1>3, <2>1 DEF TreeShape, NoneFree
<1> DEFINE E == Entry(k, p, {})
<1>7. E.valid /\ E.page = p /\ IsTable(E)
  <2>1. E = [valid |-> TRUE, page |-> p, flags |-> {"A", "D"}]
    <3>1. k # 0 /\ {"A", "D"} \cup ({} \cap {"U"}) = {"A", "D"}
      BY <1>5, LevelFacts
    <3> QED
      BY <3>1 DEF Entry
  <2> HIDE DEF E
  <2> QED
    BY <2>1 DEF IsTable
<1>8. mem \in [Page -> [Offsets -> Word]] /\ p # t
  BY <1>3, <1>4, <1>6 DEF TypeOK
<1>9. mem' = [mem EXCEPT ![p] = ZeroPage, ![t][i0] = E]
  BY <1>2, <1>4
<1>10. E \in Word
  BY WordFacts
<1> HIDE DEF E
<1>11. /\ mem' \in [Page -> [Offsets -> Word]] /\ mem'[p] = ZeroPage /\ mem'[t][i0] = E
       /\ \A q \in Page \ {p}, i \in Offsets : ~ (q = t /\ i = i0) => mem'[q][i] = mem[q][i]
  BY <1>8, <1>9, <1>10, WordFacts
<1>12. \A v \in VPages :
         TableAt(v)' = [l \in Level |-> IF l = k - 1 /\ Path(k, v) = Path(k, v0)
                                        THEN p ELSE TableAt(v)[l]]
  <2>1. mem' \in Memories /\ root' = root
    BY <1>1, <1>11 DEF Memories
  <2>2. mem'[t][PtIdx(k, v0)].valid /\ mem'[t][PtIdx(k, v0)].page = p /\ ~ mem[t][PtIdx(k, v0)].valid
    BY <1>4, <1>7, <1>11
  <2>3. \A q \in Page \ {p}, i \in Offsets : ~ (q = t /\ i = PtIdx(k, v0)) => mem'[q][i] = mem[q][i]
    BY <1>4, <1>11
  <2>4. /\ mem'[p] = ZeroPage /\ p \in Range(free) /\ Range(free') \subseteq Range(free) \ {p}
        /\ t = TableAt(v0)[k] /\ k \in 1 .. Top /\ TypeOK /\ TreeShape
    BY <1>3, <1>4, <1>5, <1>6, <1>11
  <2> QED
    BY <2>1, <2>2, <2>3, <2>4, GrowStep
<1>13. ASSUME NEW v \in VPages, NEW l \in 1 .. Top, NEW q, q = TableAt(v)'[l], q # NoPage,
              mem'[q][PtIdx(l, v)].valid
       PROVE  IsTable(mem'[q][PtIdx(l, v)])
  <2>1. PICK i \in Offsets : i = PtIdx(l, v)
    <3>1. l \in Level /\ v \in Nat
      BY LevelFacts DEF VPages
    <3> QED
      BY <3>1, PathFacts
  <2>2. l \in Level
    BY LevelFacts
  <2>3. q # p
    <3> SUFFICES ASSUME q = p PROVE FALSE
      OBVIOUS
    <3>1. mem'[q][i] = Zero
      BY <1>11 DEF ZeroPage
    <3> QED
      BY <1>13, <2>1, <3>1, ZeroAssumption
  <2>4. q = TableAt(v)[l]
    BY <1>12, <1>13, <2>2, <2>3
  <2>5. q \in Page \ {p}
    BY <1>3, <1>13, <2>2, <2>3, <2>4, TableFacts DEF PageOrNone
  <2>6. CASE q = t /\ i = i0
    BY <1>7, <1>11, <2>1, <2>6
  <2>7. CASE ~ (q = t /\ i = i0)
    <3>1. mem'[q][i] = mem[q][i]
      BY <1>11, <2>5, <2>7
    <3> QED
      BY <1>13, <2>1, <2>4, <3>1 DEF InnerTables
  <2> QED
    BY <2>6, <2>7
<1> QED
  BY <1>13 DEF InnerTables

\* All other steps change entries of the lowest level and data only.
LEMMA LeafInner ==
  ASSUME IInv, InnerTables, MapLeaf \/ Reuse \/ Resolve
  PROVE  InnerTables'
<1>1. IInv' /\ root' = root
  BY LeafInv, ResolveInv DEF MapLeaf, Reuse, Resolve
<1>2. TypeOK /\ TreeShape /\ TypeOK' /\ TreeInv
  BY <1>1, Parts DEF IInv
<1>3. call # Idle /\ call.table # NoPage /\ call.level = 0
  BY DEF MapLeaf, Reuse, Resolve
<1>4. PICK v0 \in VPages, t \in Page :
        /\ v0 = chunk.page /\ t = call.table /\ t = TableAt(v0)[0]
        /\ index = PtIdx(0, v0) /\ index \in Offsets
  BY <1>2, <1>3, CallFacts
<1>5. TablePages \subseteq Page /\ mem \in [Page -> [Offsets -> Word]]
  BY <1>2, TableFacts DEF TablePages, PageOrNone, TypeOK
<1>6. \A q \in TablePages : q # t => mem'[q] = mem[q]
  <2>1. CASE MapLeaf
    <3>1. PICK p \in Page :
            /\ Take(p)
            /\ mem' = [mem EXCEPT ![p] = Overwrite(ZeroPage, chunk.off, chunk.data),
                                  ![call.table][index] = Entry(0, p, call.flags)]
      BY <2>1 DEF MapLeaf
    <3>2. p \in Range(free)
      BY <1>2, <3>1, TakeFacts DEF TreeInv
    <3>3. p \notin TablePages
      BY <1>2, <3>2 DEF TreeShape, NoneFree
    <3> QED
      BY <1>4, <1>5, <3>1, <3>3
  <2>2. CASE Reuse
    <3>1. mem' = [mem EXCEPT ![entry.page] = Overwrite(@, chunk.off, chunk.data)] /\ entry.valid
      BY <2>2 DEF Reuse
    <3>2. Leaf(v0) = entry /\ v0 \in Mapped
      BY <1>2, <1>3, <1>4, <3>1, WalkSays
    <3>3. entry.page \notin TablePages
      BY <1>2, <3>2, DataFacts
    <3> QED
      BY <1>5, <3>1, <3>3
  <2>3. CASE Resolve
    <3>1. \/ mem' = [mem EXCEPT ![call.table][index].flags = @ \cup Marks(call.op)]
          \/ mem' = mem
      BY <2>3 DEF Resolve
    <3> QED
      BY <1>4, <1>5, <3>1
  <2> QED
    BY <2>1, <2>2, <2>3
<1> QED
  BY <1>1, <1>2, <1>4, <1>6, InnerKept

\* Every step keeps the levels apart.
LEMMA InnerStep ==
  ASSUME IInv, InnerTables, [Next]_vars
  PROVE  InnerTables'
<1>1. CASE CreatePt
  BY <1>1, CreatePtInner
<1>2. CASE Grow
  BY <1>2, GrowInner
<1>3. CASE MapLeaf \/ Reuse \/ Resolve
  BY <1>3, LeafInner
<1>4. CASE UserStore
  <2>1. PICK v0 \in Mapped : mem' = [mem EXCEPT ![Leaf(v0).page][0] = Junk]
    BY <1>4 DEF UserStore
  <2>2. IInv' /\ root' = root
    BY <1>4, UserStoreInv DEF UserStore
  <2>3. TypeOK /\ TreeShape /\ TypeOK' /\ v0 \in VPages
    BY <2>2, Parts DEF IInv, Mapped
  <2>4. Leaf(v0).page \notin TablePages
    BY <2>3, DataFacts
  <2>5. TablePages \subseteq Page /\ mem \in [Page -> [Offsets -> Word]]
    BY <2>3, TableFacts DEF TablePages, PageOrNone, TypeOK
  <2>6. \A q \in TablePages : mem'[q] = mem[q]
    BY <2>1, <2>4, <2>5
  <2> QED
    BY <2>2, <2>3, <2>6, InnerKept
<1>5. CASE UNCHANGED <<mem, root>>
  BY <1>5 DEF InnerTables, TableAt
<1> QED
  BY <1>1, <1>2, <1>3, <1>4, <1>5
  DEF Next, MapPage, MapAndCopy, Descend, OutOfMemory, PageFault, vars

-----------------------------------------------------------------------------
(* Theorems. *)

\* Between any two steps of the calls of vm.c, of the fault handler and of the
\* program: the tables form a tree, the allocator's pages are distinct and outside
\* it, a walk stands at the table of its level on the way to its page, and what
\* map_and_copy has not copied yet is what is still to be copied.
THEOREM TreeInvariance == Spec => []IInv
<1>1. Init => IInv
  BY StartInv
<1>2. IInv /\ [Next]_vars => IInv'
  BY StepInv
<1> QED
  BY <1>1, <1>2, PTL DEF Spec

\* Every variable keeps its type, and no call walks without a page to map.
THEOREM TreeTypeCorrect == Spec => []TypeOK
<1>1. IInv => TypeOK
  BY DEF IInv
<1> QED
  BY <1>1, TreeInvariance, PTL

\* A page is a table at one place, or the data of one page, or free: whatever the
\* program wrote into its pages, and wherever memory ran out (create_pt,
\* get_pt_level, map_page).
THEOREM StaysTree == Spec => []TreeShape
<1>1. IInv => TreeShape
  BY DEF IInv
<1> QED
  BY <1>1, TreeInvariance, PTL

\* A fault that trap_handler answers does not happen again, and a program is ended
\* only for an access that its mapping forbids.
THEOREM FaultsAnswered == Spec => FaultVerdict
<1>1. IInv /\ [Next]_vars => [FaultStep]_vars
  BY FaultEnds
<1> QED
  BY <1>1, TreeInvariance, PTL DEF Spec, FaultVerdict, FaultStep

\* A map_and_copy that succeeds has mapped the whole range, and every word of it
\* is the word of the data: none is left out, put elsewhere or overwritten.
THEOREM CopiesExactly == Spec => CopyExact
<1>1. IInv /\ [Next]_vars => [CopyStep]_vars
  BY CopyEnds
<1> QED
  BY <1>1, TreeInvariance, PTL DEF Spec, CopyExact, CopyStep

\* The radix tree of vm.c implements the partial map of AddressSpace: every step of
\* a walk puts or marks one page of the space, or does not change it.
THEOREM TablesImplement == Spec => Implements
<1>1. Init => Abs!SpaceInit
  BY StartInv DEF Abs!SpaceInit
<1>2. IInv /\ [Next]_vars => [Abs!SpaceNext]_Space
  BY StepInv DEF SpaceStep
<1> QED
  BY <1>1, <1>2, TreeInvariance, PTL DEF Spec, Implements, Abs!SpaceSpec

\* count_pt counts the mapped pages that have the bits, each once: every entry above
\* the lowest level leads to a table, so that no page of the program is taken for
\* one and no table for pages of the program, whatever the program wrote.
THEOREM CountsExactly == Spec => []CountExact
<1>1. IInv /\ InnerTables => CountExact
  <2> SUFFICES ASSUME IInv, InnerTables, NEW bits
               PROVE  CountPt(bits) = Cardinality({v \in Mapped : bits \subseteq Leaf(v).flags})
    BY DEF CountExact
  <2> QED
    BY Parts, CountIsExact
<1>2. Init => InnerTables
  BY StartInv, InnerEmpty DEF Init, IInv
<1>3. IInv /\ InnerTables /\ [Next]_vars => InnerTables'
  BY InnerStep
<1> QED
  BY <1>1, <1>2, <1>3, TreeInvariance, PTL DEF Spec
=============================================================================
