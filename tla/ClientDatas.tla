---------------------------- MODULE ClientDatas -----------------------------
(***************************************************************************)
(* The upload client, ClientDatas.cpp: a thread that reads the terminal    *)
(* (SendMsg) and the thread of the event loop, which share writeQueue      *)
(* without a lock; one connection to the service, and what happens to it.  *)
(*                                                                         *)
(* Messages are numbered as they are typed; message m is written to the    *)
(* bufferevent as two pieces, 2m-1 and 2m, which stand for any division    *)
(* between two sends of all the bytes that bufferevent_write is given: for *)
(* a picture these go past its end, with its NUL and what lies behind.     *)
(* What the bytes of each kind are is left to PoliteUploads and UploadPath.*)
(*                                                                         *)
(* A push_back that overlaps a use of the vector by write_cb is a data     *)
(* race: it may end the process or leave anything in the vector, Blank     *)
(* being a string that was moved from.                                     *)
(***************************************************************************)
EXTENDS Naturals, Sequences

CONSTANTS
  MaxTyped,     (* bound: messages typed                                   *)
  MaxDrops,     (* bound: connections lost                                 *)
  MaxRaces,     (* bound: races on writeQueue                              *)
  TimeOut,      (* timeOut, the connects of one reconnection               *)
  Blank         (* an empty string in writeQueue                           *)

Entries  == 1 .. MaxTyped
Pieces   == 1 .. 2 * MaxTyped

ASSUME ClientAssumption ==
  /\ MaxTyped \in Nat /\ MaxDrops \in Nat /\ MaxRaces \in Nat
  /\ TimeOut \in Nat \ {0}
  /\ Blank \notin Entries

VARIABLES
  running,      (* the process has not ended                               *)
  typed,        (* messages typed                                          *)
  adding,       (* is SendMsg inside push_back?                            *)
  using,        (* is write_cb between front() and the end of erase()?     *)
  writeQueue,
  overlapped,   (* have the two ever been inside together?                 *)
  races,        (* how often that has done damage                          *)
  bev,          (* the bufferevent: "connecting", "up", "eof", "error",    *)
                (* "reconnecting", "freed", or "left" by the loop          *)
  ev,           (* is the event of write_cb on the socket that bev has?    *)
  timeOut,      (* connects left                                           *)
  output,       (* pieces in the output buffer of the bufferevent          *)
  wire,         (* pieces that the socket has taken                        *)
  received,     (* pieces that the service got, over all connections       *)
  lost,         (* pieces that were on the wire of a lost connection       *)
  drops         (* connections lost                                        *)

terminalVars == <<typed, adding>>
queueVars    == <<writeQueue, overlapped, races>>
linkVars     == <<bev, ev, timeOut>>
streamVars   == <<wire, received, lost, drops>>
vars == <<running, terminalVars, using, queueVars, linkVars, output, streamVars>>

Init ==
  /\ running = TRUE
  /\ typed = 0 /\ adding = FALSE /\ using = FALSE
  /\ writeQueue = <<>> /\ overlapped = FALSE /\ races = 0
  /\ bev = "connecting" /\ ev = TRUE /\ timeOut = 0
  /\ output = <<>> /\ wire = <<>> /\ received = <<>> /\ lost = {} /\ drops = 0

-----------------------------------------------------------------------------
(* writeQueue *)

(* What may be left in the vector by a race. *)
Spoilt == {<<>>} \cup {<<m>> : m \in Entries \cup {Blank}}

(* An operation ends: with its effect or, while the other thread is inside *)
(* an operation of its own, any way it can.                                *)
Completes(q) ==
  \/ writeQueue' = q /\ UNCHANGED <<running, races>>
  \/ /\ adding /\ using /\ races < MaxRaces /\ races' = races + 1
     /\ \/ running' = FALSE /\ UNCHANGED writeQueue
        \/ writeQueue' \in Spoilt /\ UNCHANGED running

(* SendMsg: a line of the terminal is pushed. *)
PushBegins ==
  /\ running /\ ~adding /\ typed < MaxTyped
  /\ typed' = typed + 1 /\ adding' = TRUE
  /\ overlapped' = (overlapped \/ using)
  /\ UNCHANGED <<running, using, writeQueue, races, linkVars, output, streamVars>>

PushEnds ==
  /\ running /\ adding /\ adding' = FALSE
  /\ Completes(Append(writeQueue, typed))
  /\ UNCHANGED <<typed, using, overlapped, linkVars, output, streamVars>>

PiecesOf(m) == IF m = Blank THEN <<>> ELSE <<2 * m - 1, 2 * m>>

(* write_cb: the socket takes bytes, and there is a message.  It is read   *)
(* at the front and written to the bufferevent; EraseEnds erases it.       *)
write_cb ==
  /\ running /\ ~using /\ bev = "up" /\ ev /\ writeQueue # <<>>
  /\ using' = TRUE
  /\ overlapped' = (overlapped \/ adding)
  /\ output' = output \o PiecesOf(Head(writeQueue))
  /\ UNCHANGED <<running, terminalVars, writeQueue, races, linkVars, streamVars>>

(* Mutant: the front is not erased. *)
EraseNothing(q) == q

(* Mutant: everything is erased that was pushed in the meantime. *)
EraseAll(q) == <<>>

erase(q) == IF q = <<>> THEN q ELSE Tail(q)

(* write_cb erases the front and returns. *)
EraseEnds ==
  /\ running /\ using /\ using' = FALSE
  /\ Completes(erase(writeQueue))
  /\ UNCHANGED <<terminalVars, overlapped, linkVars, output, streamVars>>

-----------------------------------------------------------------------------
(* The connection.  The loop does one thing at a time: nothing below is    *)
(* dispatched while write_cb uses the queue.                               *)

Dispatch == running /\ ~using

Connected ==
  /\ Dispatch /\ bev = "connecting" /\ bev' = "up"
  /\ UNCHANGED <<running, terminalVars, using, queueVars, ev, timeOut, output, streamVars>>

(* libevent moves a piece to the socket; the service gets a piece. *)
Flush ==
  /\ Dispatch /\ bev = "up" /\ output # <<>>
  /\ wire' = Append(wire, Head(output)) /\ output' = Tail(output)
  /\ UNCHANGED <<running, terminalVars, using, queueVars, linkVars, received, lost, drops>>

Arrive ==
  /\ running /\ bev = "up" /\ wire # <<>>
  /\ received' = Append(received, Head(wire)) /\ wire' = Tail(wire)
  /\ UNCHANGED <<running, terminalVars, using, queueVars, linkVars, output, lost, drops>>

(* The service closes the connection, or it breaks (or is not made). *)
Drop ==
  /\ running /\ bev \in {"connecting", "up"} /\ drops < MaxDrops
  /\ bev' \in {"eof", "error"} /\ (bev = "connecting" => bev' = "error")
  /\ drops' = drops + 1
  /\ lost' = lost \cup {wire[i] : i \in DOMAIN wire} /\ wire' = <<>>
  /\ UNCHANGED <<running, terminalVars, using, queueVars, ev, timeOut, output, received>>

(* error_cb, EOF: the bufferevent is freed, which closes its socket, and   *)
(* the event of write_cb is left on what is no socket.                     *)
EofEvent ==
  /\ Dispatch /\ bev = "eof" /\ bev' = "freed" /\ ev' = FALSE
  /\ UNCHANGED <<running, terminalVars, using, queueVars, timeOut, output, streamVars>>

(* error_cb, ERROR: the socket is closed, and a new one is connected. *)
ErrorEvent ==
  /\ Dispatch /\ bev = "error" /\ bev' = "reconnecting" /\ ev' = FALSE
  /\ timeOut' = TimeOut
  /\ UNCHANGED <<running, terminalVars, using, queueVars, output, streamVars>>

(* The bufferevent goes on with the new socket and what is left of its     *)
(* output.  The event of write_cb still names the old one: it is on the    *)
(* new one only if that was given the same number.                         *)
Reconnected ==
  /\ Dispatch /\ bev = "reconnecting" /\ timeOut > 0
  /\ bev' = "up" /\ ev' \in BOOLEAN
  /\ UNCHANGED <<running, terminalVars, using, queueVars, timeOut, output, streamVars>>

(* Mutant: while (timeOut-- >= 0), one connect too many. *)
ConnectFailsOnceMore ==
  /\ Dispatch /\ bev = "reconnecting" /\ timeOut >= 0
  /\ timeOut' = timeOut - 1
  /\ bev' = IF timeOut = 0 THEN "freed" ELSE bev
  /\ UNCHANGED <<running, terminalVars, using, queueVars, ev, output, streamVars>>

ConnectFails ==
  /\ Dispatch /\ bev = "reconnecting" /\ timeOut > 0
  /\ timeOut' = timeOut - 1
  /\ bev' = IF timeOut' = 0 THEN "freed" ELSE bev
  /\ UNCHANGED <<running, terminalVars, using, queueVars, ev, output, streamVars>>

(* An event on what is no socket: the loop may fail on it and end, and     *)
(* CreateClient returns, while SendMsg goes on.                            *)
LoopEnds ==
  /\ Dispatch /\ bev \in {"up", "freed"} /\ ~ev /\ bev' = "left"
  /\ UNCHANGED <<running, terminalVars, using, queueVars, ev, timeOut, output, streamVars>>

Loop ==
  \/ write_cb \/ EraseEnds \/ Connected \/ Flush \/ EofEvent \/ ErrorEvent
  \/ Reconnected \/ ConnectFails

Next == PushBegins \/ PushEnds \/ Loop \/ LoopEnds \/ Arrive \/ Drop

(* Both threads are scheduled: the loop dispatches what is ready and moves *)
(* its output too, the network delivers.  Typing may stop at any time.     *)
Spec ==
  /\ Init /\ [][Next]_vars
  /\ WF_vars(PushEnds) /\ WF_vars(Loop) /\ WF_vars(Flush) /\ WF_vars(Arrive)
  /\ SF_vars(write_cb)

-----------------------------------------------------------------------------
(* Every variable keeps its type, and no connect is made that timeOut does  *)
(* not allow: a reconnection has one left or is given up.                   *)
TypeOK ==
  /\ running \in BOOLEAN /\ overlapped \in BOOLEAN /\ adding \in BOOLEAN /\ using \in BOOLEAN
  /\ typed \in 0 .. MaxTyped /\ drops \in 0 .. MaxDrops /\ races \in 0 .. MaxRaces
  /\ writeQueue \in Seq(Entries \cup {Blank})
  /\ bev \in {"connecting", "up", "eof", "error", "reconnecting", "freed", "left"}
  /\ ev \in BOOLEAN /\ timeOut \in 0 .. TimeOut
  /\ bev = "reconnecting" => timeOut # 0
  /\ output \in Seq(Pieces) /\ wire \in Seq(Pieces) /\ received \in Seq(Pieces)
  /\ lost \subseteq Pieces

(* Over all connections together the service gets the bytes in the order   *)
(* they were typed, none of them twice, whatever is lost in between: what  *)
(* a broken connection had not taken is sent on the next one.  Only a push *)
(* that overlaps write_cb can break this.                                  *)
InOrderOnce ==
  ~overlapped =>
    \A i, j \in DOMAIN received : i < j => received[i] < received[j]

(* All of a message that was typed reaches the service, over as many       *)
(* reconnections as it takes, except what was on the wire of a connection  *)
(* that broke.  A reconnection that leaves the event of write_cb behind    *)
(* keeps from the service only what is still in writeQueue, and only if it *)
(* is the last one; else nothing is kept unless the reconnection fails,    *)
(* the service closes, the loop ends or a push overlaps write_cb.          *)
Stuck(m) ==
  \/ bev = "up" /\ ~ev /\ \E i \in DOMAIN writeQueue : writeQueue[i] = m
  \/ bev \in {"freed", "left"}
  \/ overlapped

TypedArrives ==
  \A m \in Entries :
    typed >= m ~>
      \/ {2 * m - 1, 2 * m} \subseteq lost \cup {received[i] : i \in DOMAIN received}
      \/ []Stuck(m)

(* Comments of error_cb: BEV_EVENT_EOF says that the connection is broken, *)
(* and a connection that is broken is made again.                          *)
BrokenIsReconnected == bev = "eof" ~> bev \in {"up", "reconnecting"} \/ ~running
=============================================================================
