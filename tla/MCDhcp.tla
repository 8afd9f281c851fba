------------------------------- MODULE MCDhcp -------------------------------
(* Constants for model checking Dhcp. *)
EXTENDS Dhcp

\* Each of two servers hands out an address of its own.
FirstAddr == CHOOSE a \in Addr : TRUE
MCPool == [s \in DhcpServers |-> IF s = Server THEN {FirstAddr} ELSE Addr \ {FirstAddr}]
\* Echo messages: the checksum at zero, in the middle and next to the top, sums
\* that wrap once and twice, the message of zeros, and one that is broken.
MCEchoes == {<<65527, 0>>, <<0, 65527>>, <<65526, 1>>, <<65535, 131062>>, <<7, 131055>>, <<8, 8>>}
=============================================================================
