-------------------------- MODULE MCConsumerDatas --------------------------
(* ConsumerDatas with two files, the fewest that can be taken in an order, *)
(* and two presses of Start, which make two consumers.                     *)
EXTENDS ConsumerDatas

CONSTANTS f1, f2

MCFiles == {f1, f2}
=============================================================================
