----------------------------- MODULE UploadPath ------------------------------
(***************************************************************************)
(* One upload client and the upload service: from what is typed at the     *)
(* terminal to the files the service saves.  The client's connections are  *)
(* the service's clients; one that breaks for the client is one that the   *)
(* service may go on reading, and learns of later.                         *)
(***************************************************************************)
EXTENDS DoService

CONSTANTS
  Part,         (* the tokens of each piece that write_cb writes           *)
  MaxTyped, MaxDrops, MaxRaces, TimeOut, Blank

VARIABLES
  clientRuns, typed, adding, using, writeQueue, overlapped, races,
  bev, ev, timeOut, output, wire, received, lost, drops,
  conn,         (* how many connections the client has made                *)
  stranded      (* history: the tokens on the way, or not yet read, when   *)
                (* the connection they went by broke                       *)

Client == INSTANCE ClientDatas WITH running <- clientRuns

ASSUME PathAssumption ==
  /\ MaxTyped \in Nat /\ MaxDrops \in Nat /\ Blank \notin Client!Entries
  /\ Part \in [Client!Pieces -> Messages]
  /\ Clients = 1 .. MaxDrops + 1
  /\ MaxSent = 2 * MaxTyped

theClient == <<clientRuns, typed, adding, using, writeQueue, overlapped, races,
               bev, ev, timeOut, output, wire, received, lost, drops>>
pathVars == <<vars, theClient, conn, stranded>>

PathInit == Init /\ Client!Init /\ conn = 0 /\ stranded = {}

-----------------------------------------------------------------------------
InTransit(s) == {s[i] : i \in DOMAIN s}

(* The next connection; the service finds it when it accepts. *)
Connects ==
  /\ Client!Connected \/ Client!Reconnected
  /\ conn' = conn + 1
  /\ UNCHANGED <<vars, stranded>>

Arrives ==
  /\ Client!Arrive
  /\ Send(conn, Part[Head(wire)])
  /\ UNCHANGED <<conn, stranded>>

(* The connection breaks, and the client is the first to know.  The service *)
(* closes no connection by itself.                                          *)
Breaks ==
  /\ Client!Drop /\ bev' = "error"
  /\ stranded' = stranded \cup (UNION {InTransit(Part[wire[i]]) : i \in DOMAIN wire})
                    \cup (IF conn = 0 THEN {} ELSE InTransit(stream[conn]) \cup InTransit(input[conn]))
  /\ UNCHANGED <<vars, conn>>

ClientAlone ==
  /\ \/ Client!PushBegins \/ Client!PushEnds \/ Client!write_cb \/ Client!EraseEnds
     \/ Client!Flush \/ Client!ErrorEvent \/ Client!ConnectFails \/ Client!LoopEnds
  /\ UNCHANGED <<vars, conn, stranded>>

Broken(c) == c < conn \/ bev # "up"

(* The service accepts what has connected, reads what has arrived, and at   *)
(* any later time learns of what has broken.                                *)
ServiceAlone ==
  /\ \E c \in 1 .. conn :
       \/ Loop(c) /\ (phase[c] = "new" /\ running' = FALSE => Broken(c))
       \/ Broken(c) /\ Reset(c)
  /\ UNCHANGED <<theClient, conn, stranded>>

PathNext == Connects \/ Arrives \/ Breaks \/ ClientAlone \/ ServiceAlone

PathSpec == PathInit /\ [][PathNext]_pathVars

-----------------------------------------------------------------------------
(* Where a token was typed; a picture's tokens are saved decoded.  The     *)
(* tokens are labels: each tells the place it was typed at.                *)
Typed == UNION {{<<p, i>> : i \in DOMAIN Part[p]} : p \in Client!Pieces}
At(x) == Part[x[1]][x[2]]
Stands(b, t) == b = t \/ (t \in Base64Words /\ b = Decoded[t])
Place(b) == CHOOSE x \in Typed : Stands(b, At(x))
Precedes(x, y) == x[1] < y[1] \/ (x[1] = y[1] /\ x[2] < y[2])

ASSUME LabelAssumption ==
  \A b \in Bytes : \A x, y \in Typed : Stands(b, At(x)) /\ Stands(b, At(y)) => x = y

(* y follows x in a file: it was typed next, but for what was stranded. *)
Joined(x, y) ==
  \/ {At(x), At(y)} \cap stranded # {}
  \/ /\ Precedes(x, y)
     /\ \A z \in Typed : Precedes(x, z) /\ Precedes(z, y) => At(z) \in stranded

(* A file holds what was typed, in the order it was typed, over all the     *)
(* connections together, whatever reads and breaks cut it into.  It has a   *)
(* hole only where a connection broke: what the service had not read by     *)
(* then may be missing, or come late.  Only a push that overlaps write_cb   *)
(* can break this.                                                          *)
SavedAsTyped ==
  ~overlapped =>
    \A n \in DOMAIN written : LET content == written[n].content IN
      \A i \in 1 .. Len(content) - 1 : Joined(Place(content[i]), Place(content[i + 1]))
=============================================================================
