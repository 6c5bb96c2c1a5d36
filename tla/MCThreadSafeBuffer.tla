------------------------- MODULE MCThreadSafeBuffer -------------------------
(* Threads that add, read and clear the buffer of one device.    *)
EXTENDS ThreadSafeBuffer

CONSTANTS t1, t2, t3, d1

Asks(op, d, profiles, n, flags) ==
  [op |-> op, dev |-> d, data |-> profiles, count |-> n, notify |-> flags]

MCCalls == UNION {
  { Asks("Add", d, <<"p", "q">>, 0, {"batch"}), Asks("Add", d, <<"r">>, 0, {"stop"}),
    Asks("AddCount", d, <<>>, 3, {"batch", "stop"}),
    Asks("Get", d, <<>>, 0, {}), Asks("GetCount", d, <<>>, 0, {}),
    Asks("ClearBuffer", d, <<>>, 0, {}) } : d \in Devices }
==============================================================================
