------------------------------- MODULE MCTftp -------------------------------
(* Constants for model checking Tftp. *)
EXTENDS Tftp

\* The session of the judge daemon: program, input (a file of one block), output.
MCSession == <<[op |-> "get", blocks |-> 3], [op |-> "get", blocks |-> 1],
               [op |-> "put", blocks |-> 2]>>
\* A session that fetches and uploads two blocks.
MCTransfers == <<[op |-> "get", blocks |-> 2], [op |-> "put", blocks |-> 2]>>
MCNoStray == {}
\* Packets of earlier transfers to ports that are used again: to the first get a
\* block from each of two server ports, to the second one of the wrong kind, to
\* the put an acknowledgement.  Block 3 is ahead of the window at first.
Leftover(op, p, n, short) == [ToClient(op, p, n) EXCEPT !.file = 0, !.short = short]
MCStray ==
  {Leftover("data", <<1, 1>>, 1, FALSE), Leftover("data", <<1, 2>>, 3, TRUE),
   Leftover("ack", <<2, 1>>, 0, FALSE), Leftover("ack", <<3, 1>>, 2, FALSE)}
=============================================================================
