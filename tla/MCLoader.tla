------------------------------ MODULE MCLoader ------------------------------
(* Addresses of five bits, pages of two words, user pages 1 to 11.  The program
   has one segment with every combination of boundary values, or two out of a
   smaller set that overlap in every way. *)
EXTENDS Loader

Text == <<"e", "f", "g", "h", "i">>
MCArgs == <<"x">>
MCInputs == {<< >>, <<"s", "t", "u">>}

Segment(load, offset, vaddr, filesz, memsz, flags) ==
  [load |-> load, offset |-> offset, vaddr |-> vaddr, filesz |-> filesz, memsz |-> memsz,
   flags |-> flags]

Single ==
  {<<Segment(TRUE, offset, vaddr, filesz, memsz, {"R"})>> :
     offset \in {0, 2, 3, 31}, vaddr \in {1, 2, 3, 21, 24, 31}, filesz \in {0, 1, 3}, memsz \in {0, 3, 4, 30}}
Several ==
  LET S == {Segment(TRUE, offset, vaddr, filesz, memsz, flags) :
              offset \in {1}, vaddr \in {3, 4, 15}, filesz \in {0, 3}, memsz \in {3, 6},
              flags \in {{"R", "X"}}}
           \cup {Segment(FALSE, 31, 31, 31, 0, {}), Segment(TRUE, 2, 5, 2, 2, {"R", "W"})}
  IN  S \X S

File(words, magic, exec, phent, phoff, phdrs) ==
  [words |-> words, magic |-> magic, exec |-> exec, phent |-> phent, phoff |-> phoff, phdrs |-> phdrs]
Good(phdrs) == File(Text, TRUE, TRUE, TRUE, 1, phdrs)
Plain == <<Segment(TRUE, 0, 4, 2, 2, {"R"})>>

MCFiles ==
  {Good(phdrs) : phdrs \in Single \cup Several \cup {<< >>}}
  \cup {File(<<"e">>, TRUE, TRUE, TRUE, 0, Plain), File(Text, FALSE, TRUE, TRUE, 1, Plain),
        File(Text, TRUE, FALSE, TRUE, 1, Plain), File(Text, TRUE, TRUE, FALSE, 1, Plain),
        File(Text, TRUE, TRUE, TRUE, 5, Plain), File(Text, TRUE, TRUE, TRUE, 31, Plain)}
=============================================================================
