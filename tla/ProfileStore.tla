---------------------------- MODULE ProfileStore ----------------------------
(* What the buffer between the laser's callback and its readers promises:  *)
(* every call takes effect at once, at some moment between its start and   *)
(* its return, whatever the other threads do.                              *)
EXTENDS Naturals, Sequences

CONSTANTS
  Threads, Devices,
  Calls,        (* what a thread may ask for                               *)
  NoCall,
  BatchBit,     (* the notification bit that says that a batch is complete *)
  CountSize     (* profile counts are unsigned and wrap around at CountSize *)

VARIABLES
  store,        (* per device: data, count, notify and batch               *)
  request,      (* per thread: the call it is making                       *)
  answer        (* per thread: what its last call returned                 *)
vars == <<store, request, answer>>

Empty  == [data |-> <<>>, count |-> 0, notify |-> {}, batch |-> 0]
Blank  == [data |-> <<>>, count |-> 0, notify |-> {}, batch |-> 0, threw |-> FALSE]
Thrown == [Blank EXCEPT !.threw = TRUE]

(* How many profiles a call that adds announces. *)
Added(c) == IF c.op = "Add" THEN Len(c.data) ELSE c.count

Counted(c, r) ==
  [r EXCEPT !.count  = (@ + Added(c)) % CountSize,
            !.notify = @ \cup c.notify,
            !.batch  = IF BatchBit \in c.notify THEN @ + 1 ELSE @]

(* What call c makes of the record of its device, and what it returns. *)
Applied(c, r) ==
  CASE c.op = "Add"         -> [Counted(c, r) EXCEPT !.data = @ \o c.data]
    [] c.op = "AddCount"    -> Counted(c, r)
    [] c.op = "Get"         -> [r EXCEPT !.data = <<>>, !.notify = {}]
    [] c.op = "GetCount"    -> [r EXCEPT !.notify = {}]
    [] c.op = "ClearBuffer" -> Empty

Reply(c, r) ==
  CASE c.op = "Get"      -> [Blank EXCEPT !.data = r.data, !.notify = r.notify,
                                          !.batch = r.batch]
    [] c.op = "GetCount" -> [Blank EXCEPT !.count = r.count, !.notify = r.notify,
                                          !.batch = r.batch]
    [] OTHER             -> Blank

Init ==
  /\ store = [d \in Devices |-> Empty]
  /\ request = [t \in Threads |-> NoCall]
  /\ answer = [t \in Threads |-> Blank]

Call(t, c) ==
  /\ request[t] = NoCall
  /\ request' = [request EXCEPT ![t] = c]
  /\ answer' = [answer EXCEPT ![t] = Blank]
  /\ UNCHANGED store

Perform(t) ==
  /\ request[t] # NoCall
  /\ LET c == request[t]
     IN  /\ store' = [store EXCEPT ![c.dev] = Applied(c, store[c.dev])]
         /\ answer' = [answer EXCEPT ![t] = Reply(c, store[c.dev])]
  /\ request' = [request EXCEPT ![t] = NoCall]

(* Memory runs out: Add keeps a part of its profiles, uncounted, and Get   *)
(* changes nothing.                                                        *)
Fail(t) ==
  /\ request[t] # NoCall
  /\ LET c == request[t]
     IN  \/ /\ c.op = "Add"
            /\ \E n \in 0 .. Len(c.data) :
                 store' = [store EXCEPT ![c.dev].data = @ \o SubSeq(c.data, 1, n)]
         \/ c.op = "Get" /\ UNCHANGED store
  /\ answer' = [answer EXCEPT ![t] = Thrown]
  /\ request' = [request EXCEPT ![t] = NoCall]

Next == \E t \in Threads : (\E c \in Calls : Call(t, c)) \/ Perform(t) \/ Fail(t)

Spec == Init /\ [][Next]_vars
==============================================================================
