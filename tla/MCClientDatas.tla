--------------------------- MODULE MCClientDatas ----------------------------
(* ClientDatas with three messages, so that one can be in the queue, one   *)
(* in the output and one on the wire, over three connections.              *)
EXTENDS ClientDatas

CONSTANT empty

MCMaxTyped == 3
MCMaxDrops == 2
=============================================================================
