---------------------------- MODULE MCNetKernel ----------------------------
(* Constants for model checking NetKernel. *)
EXTENDS NetKernel

Dgram(dport, saddr, sport, empty) ==
  [dport |-> dport, saddr |-> saddr, sport |-> sport, empty |-> empty]

\* A DHCP reply, a judge request, a TFTP packet of the open transfer and an empty
\* one, one from another port of the TFTP server, and a datagram nobody ever
\* listens for.
MCDgrams ==
  {Dgram("dhcpc", "dhcpd", "dhcps", FALSE),
   Dgram("judge", "client", "any", FALSE),
   Dgram("tftpc", "server", "tid", FALSE),
   Dgram("tftpc", "server", "tid", TRUE),
   Dgram("tftpc", "server", "any", FALSE),
   Dgram("any", "client", "any", FALSE)}
MCFilters == {FilterAt[n] : n \in DOMAIN FilterAt}
=============================================================================
