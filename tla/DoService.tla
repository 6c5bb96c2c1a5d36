------------------------------ MODULE DoService ------------------------------
(***************************************************************************)
(* The upload service, service/DoService.cpp: one libevent loop, one       *)
(* thread, and one set of STATIC transfer variables that the handlers of   *)
(* all connections share.                                                  *)
(*                                                                         *)
(* Bytes are modelled in runs, called tokens: the four letters that open   *)
(* an upload ("file", "dile", "iile"), the one-character markers that end  *)
(* a header ("#", "*", "$"), the terminator "NUL", and Words, any other    *)
(* run of at least four characters.  A token is never split between reads. *)
(* Buffer sizes are counted in tokens.                                     *)
(*                                                                         *)
(* An action is one dispatch of the loop (do_accept, read_cb with the      *)
(* libevent read before it, error_cb) or one step of a client.             *)
(***************************************************************************)
EXTENDS Naturals, Sequences

CONSTANTS
  Clients,      (* connections; a client that comes back is another one    *)
  Fds, NoFd,    (* socket descriptors, reused once closed                  *)
  Words,        (* tokens that are neither a kind, a marker nor NUL        *)
  Base64Words,  (* the Words that are whole groups of base64 characters    *)
  Decoded,      (* what each of them stands for                            *)
  Messages,     (* what a client may send: uploads and texts               *)
  FileBuffers,  (* read_cb takes at most this much: sizeof(msg) - 1        *)
  SocketRead,   (* libevent moves at most this much from the socket        *)
  Fragmented,   (* may a message reach the socket in several pieces?       *)
  m_bSendAll,   (* setSendAll: texts go to everyone, or are echoed         *)
  MaxSent       (* bound: messages sent in a behaviour                     *)

Kinds   == {"file", "dile", "iile"}
Marker  == [file |-> "#", dile |-> "*", iile |-> "$"]
Markers == {"#", "*", "$"}
Tokens  == Kinds \cup Markers \cup {"NUL"} \cup Words
Bytes   == Tokens \cup {Decoded[w] : w \in Base64Words}

ASSUME ServiceAssumption ==
  /\ NoFd \notin Fds
  /\ Words \cap (Kinds \cup Markers \cup {"NUL"}) = {}
  /\ Base64Words \subseteq Words /\ DOMAIN Decoded = Base64Words
  /\ "untiltled" \in Words /\ "123.log" \in Words
  /\ Messages \subseteq Seq(Tokens)
  /\ FileBuffers \in Nat \ {0}
  /\ SocketRead \in Nat \ {0}
  /\ Fragmented \in BOOLEAN
  /\ m_bSendAll \in BOOLEAN
  /\ MaxSent \in Nat

VARIABLES
  running,      (* the process has neither exited nor been terminated      *)
  transFile,    (* bTransFile, dTransFile and iTransFile, by kind          *)
  fileData,     (* what the open transfer has collected                    *)
  currentTransferFileName,
  client_vec,   (* the registered connections, in order of arrival         *)
  bevFd,        (* descriptor of each connection's bufferevent; NoFd: none *)
  input,        (* input buffer of each bufferevent                        *)
  outbox,       (* everything written to each connection                   *)
  written,      (* the files written, in order (a later one replaces)      *)
  phase,        (* client side: not connected, connected, closed or reset  *)
  stream,       (* bytes of each client that the service has not read      *)
  sent          (* how many messages the clients have sent                 *)

transferVars == <<transFile, fileData, currentTransferFileName>>
registryVars == <<client_vec, bevFd>>
clientVars   == <<phase, sent>>
vars == <<running, transferVars, registryVars, input, outbox, written,
          clientVars, stream>>

-----------------------------------------------------------------------------
(* The strings of the service *)

(* string::find: the first place of t in s, 0 where it has none (npos). *)
Find(s, t) ==
  IF \E i \in DOMAIN s : s[i] = t
  THEN CHOOSE i \in DOMAIN s : s[i] = t /\ \A j \in 1 .. i - 1 : s[j] # t
  ELSE 0

From(s, i) == SubSeq(s, i, Len(s))

(* What a char* that points at s denotes as a string. *)
CString(s) == IF Find(s, "NUL") = 0 THEN s ELSE SubSeq(s, 1, Find(s, "NUL") - 1)

(* Mutant: only the absence of the flag was handled. *)
FormatCharDatasUnstripped(s, flag) == s

FormatCharDatas(s, flag) == From(s, Find(s, flag) + 1)

(* base64_decode reads up to the first character outside its alphabet. *)
Base64Length(s) ==
  IF \A i \in DOMAIN s : s[i] \in Base64Words THEN Len(s)
  ELSE (CHOOSE i \in DOMAIN s : /\ s[i] \notin Base64Words
                               /\ \A j \in 1 .. i - 1 : s[j] \in Base64Words) - 1

base64_decode(s) == [i \in 1 .. Base64Length(s) |-> Decoded[s[i]]]

(* paraseHead looks for "#", then "$", then "*", in the whole string. *)
HeadMarker(s) == CASE Find(s, "#") # 0 -> "#"
                   [] Find(s, "#") = 0 /\ Find(s, "$") # 0 -> "$"
                   [] OTHER -> "*"

(* len > 4: a shorter read is not parsed.  The markers and NUL are one      *)
(* character long, all others at least four.                                *)
Letters == Markers \cup {"NUL"}

Parsed(msg) == Len(msg) > 4 \/ (Len(msg) > 1 /\ \E i \in DOMAIN msg : msg[i] \notin Letters)

MsgType(msg) == IF Parsed(msg) /\ msg[1] \in Kinds THEN msg[1] ELSE ""

HeadEnd(msg) == Find(CString(msg), HeadMarker(CString(msg)))

HeadName(msg) ==
  IF HeadEnd(msg) = 0 THEN <<"untiltled">> ELSE SubSeq(msg, 2, HeadEnd(msg) - 1)

(* msg + headLen up to msg + len.  For "$" and "*" the code computes the   *)
(* start from the place of "#", npos, so that the header stays in.         *)
HeadData(msg) ==
  CASE HeadEnd(msg) = 0                             -> From(msg, 2)
    [] HeadEnd(msg) # 0 /\ HeadMarker(CString(msg)) = "#" -> From(msg, HeadEnd(msg) + 1)
    [] OTHER                                        -> msg

(* name.assign from the fifth character to a marker before it: the length  *)
(* is negative, string throws length_error, and nothing catches it.  Before *)
(* such a marker there are only others, of the kinds that are looked for    *)
(* later.                                                                   *)
HeadThrows(msg) ==
  /\ Parsed(msg) /\ HeadEnd(msg) \in 1 .. 4
  /\ \A i \in 1 .. HeadEnd(msg) - 1 : msg[i] \in Markers

(* Mutant: nothing is written for empty content. *)
FileWrittenUnlessEmpty(path, content) ==
  IF content # <<>> THEN <<[path |-> path, content |-> content]>> ELSE <<>>

(* WritePictureFile and WriteTextFile: a name the file system refuses      *)
(* makes the open fail, which nothing looks at.                            *)
FileWritten(path, content) ==
  IF Find(path, "*") = 0 THEN <<[path |-> path, content |-> content]>> ELSE <<>>

Save(kind, name, content) ==
  FileWritten(name, IF kind = "file" THEN base64_decode(content) ELSE content)

-----------------------------------------------------------------------------
Init ==
  /\ running = TRUE
  /\ transFile = [k \in Kinds |-> FALSE]
  /\ fileData = <<>>
  /\ currentTransferFileName = <<>>
  /\ client_vec = <<>>
  /\ bevFd = [c \in Clients |-> NoFd]
  /\ input = [c \in Clients |-> <<>>]
  /\ outbox = [c \in Clients |-> <<>>]
  /\ written = <<>>
  /\ phase = [c \in Clients |-> "new"]
  /\ stream = [c \in Clients |-> <<>>]
  /\ sent = 0

Welcome == <<"Send from Server">>

(* do_accept: welcome the client, give it a bufferevent, register it. *)
do_accept(c, fd) ==
  /\ running /\ phase[c] = "new"
  /\ \A d \in Clients : bevFd[d] # fd
  /\ phase' = [phase EXCEPT ![c] = "open"]
  /\ bevFd' = [bevFd EXCEPT ![c] = fd]
  /\ client_vec' = Append(client_vec, [sock_fd |-> fd, m_pBev |-> c])
  /\ outbox' = [outbox EXCEPT ![c] = <<Welcome>>]
  /\ UNCHANGED <<running, transferVars, input, written, stream, sent>>

(* do_accept when accept fails: a client that is gone before it is accepted *)
(* ends the process.                                                        *)
AcceptError(c) ==
  /\ running /\ phase[c] = "new"
  /\ phase' = [phase EXCEPT ![c] = "closed"]
  /\ running' = FALSE
  /\ UNCHANGED <<transferVars, registryVars, input, outbox, written, stream, sent>>

-----------------------------------------------------------------------------
(* read_cb: the six branches for uploads come in this order, a header and  *)
(* an open transfer of each kind; the first that applies takes the read.   *)

(* Mutant: the branch for configurations comes first. *)
RankConfigurationFirst == [iile |-> 1, dile |-> 2, file |-> 3]

Rank == [file |-> 1, dile |-> 2, iile |-> 3]

(* Mutant: the branches for an open transfer are missing. *)
ClaimsHeadersOnly(k, msg) == MsgType(msg) = k

Claims(k, msg) == MsgType(msg) = k \/ transFile[k]

TakenBy(k, msg) ==
  Claims(k, msg) /\ \A j \in Kinds : Rank[j] < Rank[k] => ~Claims(j, msg)

(* A header: the transfer starts, and ends at once if the read was short. *)
HeaderRead(k, msg) ==
  /\ TakenBy(k, msg) /\ MsgType(msg) = k
  /\ currentTransferFileName' = HeadName(msg)
  /\ transFile' = [transFile EXCEPT ![k] = Len(msg) >= FileBuffers]
  /\ IF Len(msg) < FileBuffers
     THEN /\ fileData' = <<>>
          /\ written' = written \o
               Save(k, HeadName(msg), FormatCharDatas(HeadData(msg), Marker[k]))
     ELSE /\ fileData' = HeadData(msg)
          /\ UNCHANGED written
  /\ UNCHANGED outbox

(* More of an open transfer: a short read is taken for its end. *)
BodyRead(k, msg) ==
  /\ TakenBy(k, msg) /\ MsgType(msg) # k
  /\ transFile' = [transFile EXCEPT ![k] = Len(msg) >= FileBuffers]
  /\ IF Len(msg) < FileBuffers
     THEN /\ fileData' = FormatCharDatas(fileData \o msg, Marker[k])
          /\ written' = written
               \o (IF k = "file" THEN FileWritten(<<"123.log">>, fileData') ELSE <<>>)
               \o Save(k, currentTransferFileName, fileData')
     ELSE /\ fileData' = fileData \o msg
          /\ UNCHANGED written
  /\ UNCHANGED <<currentTransferFileName, outbox>>

(* Mutant: the loop over the clients starts one too far. *)
RegisteredButFirst == {client_vec[i].m_pBev : i \in DOMAIN client_vec \ {1}}

Registered == {client_vec[i].m_pBev : i \in DOMAIN client_vec}

(* HandleTXTMsg: everyone gets the text as a C string, or c gets it back. *)
TextRead(c, msg) ==
  /\ \A k \in Kinds : ~Claims(k, msg)
  /\ outbox' = IF m_bSendAll
               THEN [d \in Clients |-> IF d \in Registered
                                       THEN Append(outbox[d], CString(msg))
                                       ELSE outbox[d]]
               ELSE [outbox EXCEPT ![c] = Append(@, msg)]
  /\ UNCHANGED <<transferVars, written>>

read_cb(c, msg) ==
  IF HeadThrows(msg)
  THEN running' = FALSE /\ UNCHANGED <<transferVars, written, outbox>>
  ELSE /\ UNCHANGED running
       /\ \/ \E k \in Kinds : HeaderRead(k, msg) \/ BodyRead(k, msg)
          \/ TextRead(c, msg)

AtMost(n, m) == IF n < m THEN n ELSE m

(* The descriptor is readable: libevent moves what has arrived, SocketRead *)
(* at most, into the input buffer and calls read_cb ONCE, which takes      *)
(* FileBuffers at most.  What read_cb leaves waits for the next arrival.   *)
Readable(c) ==
  /\ running /\ bevFd[c] # NoFd /\ stream[c] # <<>>
  /\ \E n \in 1 .. AtMost(Len(stream[c]), SocketRead) :
       /\ Fragmented \/ n = AtMost(Len(stream[c]), SocketRead)
       /\ LET buf   == input[c] \o SubSeq(stream[c], 1, n)
              taken == AtMost(Len(buf), FileBuffers)
          IN  /\ stream' = [stream EXCEPT ![c] = From(stream[c], n + 1)]
              /\ input' = [input EXCEPT ![c] = From(buf, taken + 1)]
              /\ read_cb(c, SubSeq(buf, 1, taken))
  /\ UNCHANGED <<registryVars, clientVars>>

-----------------------------------------------------------------------------
(* Mutants: the last entry goes instead, or the entry is only marked. *)
EraseLast(s, i) == [j \in 1 .. Len(s) - 1 |-> s[j]]
EraseMarks(s, i) == [s EXCEPT ![i].sock_fd = NoFd]

(* vector::erase *)
Erase(s, i) == [j \in 1 .. Len(s) - 1 |-> IF j < i THEN s[j] ELSE s[j + 1]]

(* error_cb: at the end of the stream, or after a reset.  The transfer     *)
(* variables are left as they are, and unread input goes with the bev.     *)
error_cb(c) ==
  /\ running /\ bevFd[c] # NoFd
  /\ phase[c] \in {"closed", "reset"} /\ stream[c] = <<>>
  /\ LET found == {i \in DOMAIN client_vec : client_vec[i].sock_fd = bevFd[c]}
     IN  IF found = {} THEN UNCHANGED client_vec
         ELSE \E it \in found : /\ \A i \in found : it <= i
                                /\ client_vec' = Erase(client_vec, it)
  /\ bevFd' = [bevFd EXCEPT ![c] = NoFd]
  /\ input' = [input EXCEPT ![c] = <<>>]
  /\ UNCHANGED <<running, transferVars, outbox, written, clientVars, stream>>

-----------------------------------------------------------------------------
(* The clients; what they do once the service is gone is of no interest.  *)

Send(c, m) ==
  /\ running /\ phase[c] = "open" /\ sent < MaxSent
  /\ stream' = [stream EXCEPT ![c] = @ \o m]
  /\ sent' = sent + 1
  /\ UNCHANGED <<running, transferVars, registryVars, input, outbox, written, phase>>

Close(c) ==
  /\ running /\ phase[c] = "open"
  /\ phase' = [phase EXCEPT ![c] = "closed"]
  /\ UNCHANGED <<running, transferVars, registryVars, input, outbox, written, stream, sent>>

(* A reset throws away what the service has not read. *)
Reset(c) ==
  /\ running /\ phase[c] = "open"
  /\ phase' = [phase EXCEPT ![c] = "reset"]
  /\ stream' = [stream EXCEPT ![c] = <<>>]
  /\ UNCHANGED <<running, transferVars, registryVars, input, outbox, written, sent>>

Loop(c) ==
  \/ \E fd \in Fds : do_accept(c, fd)
  \/ AcceptError(c)
  \/ Readable(c)
  \/ error_cb(c)

Next == \E c \in Clients :
  \/ Loop(c)
  \/ \E m \in Messages : Send(c, m)
  \/ Close(c)
  \/ Reset(c)

Spec == Init /\ [][Next]_vars

-----------------------------------------------------------------------------
(* Properties *)

(* Every variable keeps its type; above all the strings that are cut,       *)
(* joined and erased at computed places stay strings of tokens.             *)
TypeOK ==
  /\ running \in BOOLEAN
  /\ transFile \in [Kinds -> BOOLEAN]
  /\ fileData \in Seq(Tokens)
  /\ currentTransferFileName \in Seq(Tokens)
  /\ client_vec \in Seq([sock_fd : Fds, m_pBev : Clients])
  /\ bevFd \in [Clients -> Fds \cup {NoFd}]
  /\ input \in [Clients -> Seq(Tokens)]
  /\ outbox \in [Clients -> Seq(Seq(Tokens \cup {"Send from Server"}))]
  /\ written \in Seq([path : Seq(Tokens), content : Seq(Bytes)])
  /\ phase \in [Clients -> {"new", "open", "closed", "reset"}]
  /\ stream \in [Clients -> Seq(Tokens)]
  /\ sent \in 0 .. MaxSent

(* The registry and the live bufferevents are the same set, one entry each, *)
(* with the descriptor the bufferevent has now: sendAll never writes to a   *)
(* bufferevent error_cb has freed, and error_cb, which searches by          *)
(* descriptor, never erases another client although descriptors are reused. *)
RegistryIsLive ==
  /\ \A i \in DOMAIN client_vec : bevFd[client_vec[i].m_pBev] = client_vec[i].sock_fd
  /\ \A i, j \in DOMAIN client_vec :
       client_vec[i].sock_fd = client_vec[j].sock_fd => i = j
  /\ \A c \in Clients : bevFd[c] # NoFd => c \in Registered

(* Texts are ordered: a client that registered earlier has been sent all    *)
(* the texts a later one has been sent, in the same order and with none in  *)
(* between, whatever uploads and departures happened meanwhile.             *)
Continues(s, t) ==
  /\ Len(t) <= Len(s)
  /\ \A k \in 0 .. Len(t) - 2 : s[Len(s) - k] = t[Len(t) - k]

TextsAreOrdered ==
  m_bSendAll =>
    \A i, j \in DOMAIN client_vec :
      i < j => Continues(outbox[client_vec[i].m_pBev], outbox[client_vec[j].m_pBev])

(* A transfer is closed only by a step that saves a file under the name of  *)
(* the last header read (or under one the file system refuses): no client's *)
(* departure, no text and no upload of another kind drops it silently; only *)
(* another header of its kind can take its place.                           *)
TransferEndsInSave ==
  [][\A k \in Kinds : transFile[k] /\ ~transFile'[k] =>
       \/ Find(currentTransferFileName', "*") # 0
       \/ /\ Len(written') > Len(written)
          /\ written'[Len(written')].path = currentTransferFileName']_vars

(* While a picture transfer is open, and until a step closes it, nothing    *)
(* else is saved and no text reaches a client that was already registered.  *)
PictureHoldsOthersBack ==
  [][transFile["file"] /\ transFile'["file"] =>
       /\ UNCHANGED written
       /\ \A c \in Registered : outbox'[c] = outbox[c]]_vars
=============================================================================
