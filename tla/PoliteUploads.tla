---------------------------- MODULE PoliteUploads ----------------------------
(* The upload service used the way its code counts on: a client sends only *)
(* when everything sent before has been handled, stays until then, and its *)
(* messages reach the socket in one piece.  Nothing in the protocol or the *)
(* service enforces this; it is what ONE operator at ONE terminal does.    *)
(* Under it the service keeps the promise of UploadStore.                  *)
EXTENDS DoService

VARIABLES
  asked,   (* the last message sent                                         *)
  stored   (* history: the files written, but for the log of pictures       *)
politeVars == <<vars, asked, stored>>

Quiet ==
  /\ \A c \in Clients : stream[c] = <<>> /\ input[c] = <<>>
  /\ \A k \in Kinds : ~transFile[k]

PoliteInit == Init /\ asked = <<>> /\ stored = <<>>

(* A picture that takes several reads is written twice, first to the log. *)
Log == <<"123.log">>
WithoutLog(files) == IF files # <<>> /\ files[1].path = Log THEN Tail(files) ELSE files

Handle(c) ==
  /\ Readable(c) /\ UNCHANGED asked
  /\ stored' = stored \o WithoutLog(From(written', Len(written) + 1))

PoliteNext == \E c \in Clients :
  \/ \E fd \in Fds : do_accept(c, fd) /\ UNCHANGED <<asked, stored>>
  \/ Handle(c)
  \/ error_cb(c) /\ UNCHANGED <<asked, stored>>
  \/ Quiet /\ \E m \in Messages : Send(c, m) /\ asked' = m /\ UNCHANGED stored
  \/ Quiet /\ (Close(c) \/ Reset(c)) /\ UNCHANGED <<asked, stored>>

(* The loop dispatches what is ready. *)
PoliteSpec ==
  /\ PoliteInit /\ [][PoliteNext]_politeVars
  /\ \A c \in Clients : WF_politeVars(Handle(c))

-----------------------------------------------------------------------------
Uploads == {m \in Messages : m[1] \in Kinds}

(* The name and the content as the client wrote them (ClientDatas.cpp:265: *)
(* kind, name and marker, then the file); a picture arrives decoded.       *)
HeadLength(m) == Find(m, Marker[m[1]])

Path    == [m \in Uploads |-> SubSeq(m, 2, HeadLength(m) - 1)]
Content == [m \in Uploads |-> LET body == From(m, HeadLength(m) + 1)
                              IN  IF m[1] = "file" THEN base64_decode(body) ELSE body]

(* What the code counts on in a message.  Its length: n reads leave no rest *)
(* behind, and the last one is short.                                       *)
Fits(m) == \E n \in 1 .. Len(m) :
             (n - 1) * SocketRead < Len(m) /\ Len(m) < n * FileBuffers

(* No later read begins as a header does.                                   *)
GoesOn(m) == \A k \in 1 .. Len(m) :
               1 + k * FileBuffers <= Len(m) =>
                 m[1 + k * FileBuffers] \notin Kinds \cup Markers

(* The header is in the first read, and paraseHead meets its marker first.  *)
FirstRead(m) == CString(SubSeq(m, 1, AtMost(Len(m), FileBuffers)))
Before == [file |-> {}, iile |-> {"#"}, dile |-> {"#", "$"}]

IsFound(m) ==
  /\ HeadLength(m) \in DOMAIN FirstRead(m)
  /\ \A i \in DOMAIN FirstRead(m) : FirstRead(m)[i] \notin Before[m[1]]

(* The file system takes the name, and a picture has no "#" in it.          *)
IsTaken(m) ==
  /\ Find(Path[m], "*") = 0 /\ Path[m] # Log
  /\ m[1] = "file" => Find(From(m, HeadLength(m) + 1), "#") = 0

(* Of a text: that it is short, has no NUL and begins with no marker.      *)
PoliteMessages ==
  /\ FileBuffers <= SocketRead
  /\ \A m \in Messages : m # <<>> /\ Fits(m) /\ GoesOn(m)
  /\ \A m \in Uploads : IsFound(m) /\ IsTaken(m)
  /\ \A m \in Messages \ Uploads :
       Len(m) < FileBuffers /\ m[1] \notin Markers /\ CString(m) = m

Store == INSTANCE UploadStore WITH
  Texts   <- Messages \ Uploads,
  Nothing <- <<>>,
  members <- Registered,
  heard   <- outbox,
  files   <- stored,
  pending <- IF Quiet THEN <<>> ELSE asked

(* Every upload is saved exactly once, with its own name and content, and  *)
(* every text reaches every client exactly once, in the order they were    *)
(* sent.                                                                   *)
KeepsTheStore == Store!Init /\ [][Store!Next]_(Store!vars)

(* And each message is handled in the end.                                 *)
HandlesEach == Store!Handled

(* "If the transfer is complete in one go, save directly" (DoService.cpp:  *)
(* 131): a file saved on the read of its header was there in full.         *)
SavedDirectlyOnlyIfComplete ==
  [][written' # written /\ (\A k \in Kinds : ~transFile[k]) =>
       \A c \in Clients : stream'[c] = <<>> /\ input'[c] = <<>>]_politeVars
==============================================================================
