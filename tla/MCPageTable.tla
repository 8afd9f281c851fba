---------------------------- MODULE MCPageTable ----------------------------
(* The code's three levels, with pages of two words: a copy of four words from
   the middle of a page has a first part, a whole page and a rest, and seven
   pages of memory run out at every level of a walk. *)
EXTENDS PageTable

MCZero == [valid |-> FALSE, page |-> NoPage, flags |-> {}]
MCOrder == <<5, 2, 6, 1, 4, 3, 7>>
MCPage == Range(MCOrder)

RX == {"R", "X", "U", "A"}
RW == {"R", "W", "U"}
MCMapFlags == {RX, RW}

\* Words that differ from each other, some of which would pass for entries.
Data == <<Junk, [Zero EXCEPT !.flags = {"W"}], [Junk EXCEPT !.flags = {}],
          [Zero EXCEPT !.flags = {"X"}]>>
MCSources == {SubSeq(Data, 1, n) : n \in {0, 4}}
MCTargets == {1, 6}
MCAddresses == {1, 11}
=============================================================================
