---------------------------- MODULE MCDatagrams ----------------------------
(* Instance: two sends; a TTL that is the least, one of its own, and one refused;
   addresses at both ends of the range and beside them, of octets of four bits. *)
EXTENDS Datagrams

CONSTANTS s1, s2

MCGroups == {<<14, 0, 0, 0>>, <<14, 15, 15, 15>>, <<13, 15, 15, 15>>, <<15, 0, 0, 0>>,
             <<14, 0, 0>>, <<14, 0, 0, 16>>, <<NaN, 0, 0, 0>>, <<0, 14, 0, 0>>}
=============================================================================
