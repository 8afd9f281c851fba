------------------------------ MODULE Checksum ------------------------------
(***************************************************************************)
(* The ones' complement sums of ip.h, and the way do_icmpv4_echo corrects  *)
(* one without summing the message again.  A message enters a checksum     *)
(* only through the sum of its 16-bit words (ip_checksum_partial; an odd   *)
(* last byte is a word), so here it is that sum.  Adding in 32 bits does   *)
(* not wrap, since frames are at most 4096 bytes long.                     *)
(***************************************************************************)
EXTENDS Naturals

MaxSum == 2048 * 65535

Complement(w) == 65535 - w
Fold(s) == (s % 65536) + (s \div 65536)
\* ip_checksum_final.
Final(s) == Complement(Fold(Fold(s)) % 65536)

\* The first word of an echo message: its type, its code being 0.
EchoRequest == 8
EchoReply == 0

BadUpdate(check) == Final(Complement(check) + EchoReply)
\* The checksum of the reply, from that of the request (do_icmpv4_echo).
Update(check) == Final(Complement(check) + Complement(EchoRequest) + EchoReply)
=============================================================================
