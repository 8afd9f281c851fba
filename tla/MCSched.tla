------------------------------ MODULE MCSched ------------------------------
(* Constants for model checking Sched. *)
EXTENDS Sched

Dgram(dport, saddr, empty) == [dport |-> dport, saddr |-> saddr, sport |-> "q1", empty |-> empty]
Filter(dport, saddr, sport) == [dport |-> dport, saddr |-> saddr, sport |-> sport]

\* Two senders to one port, one of them with an empty datagram; one filter takes
\* both, the other only the first.
MCDgrams == {Dgram("p1", "s1", FALSE), Dgram("p1", "s2", TRUE)}
MCFilters == {Filter("p1", Any, Any), Filter("p1", "s1", "q1")}
=============================================================================
