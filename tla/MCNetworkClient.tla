--------------------------- MODULE MCNetworkClient ---------------------------
(* Three calls of one object, with one method that is neither GET, POST     *)
(* nor PUT, and at most MaxSet settings standing when a call is made.       *)
EXTENDS NetworkClient

CONSTANT MaxSet

Standing(number) == IF number = 0 THEN 0 ELSE 1

FewSettings ==
  Cardinality({x \in m_QueryHeaders : x[1] = "header"}) + Cardinality(m_QueryParams)
  + Standing(m_method[2]) + Standing(m_OutFileName) + Standing(chunkOffset_)
  + Standing(chunkSize_) <= MaxSet
==============================================================================
