--------------------------- MODULE DoServiceProofs ---------------------------
(* Proofs about the upload service: its types, its registry of clients,    *)
(* the order in which texts are sent, how transfers end, and what an open  *)
(* one holds back, for any clients, messages, buffer sizes and             *)
(* fragmentation; and that, used politely, it keeps the promise of         *)
(* UploadStore.                                                            *)
EXTENDS PoliteUploads, SequenceTheorems, WellFoundedInduction, TLAPS

-----------------------------------------------------------------------------
(* Strings *)

(* Every non-empty set of naturals has a least element. *)
LEMMA LeastNatural ==
  ASSUME NEW T \in SUBSET Nat, T # {}
  PROVE  \E m \in T : \A k \in T : m <= k
<1>1. \E m \in T : \A k \in T : ~(<<k, m>> \in OpToRel(<, Nat))
  BY NatLessThanWellFounded, WFMin
<1>2. PICK m \in T : \A k \in T : ~(<<k, m>> \in OpToRel(<, Nat))
  BY <1>1
<1>3. \A k \in T : ~(k < m)
  BY <1>2, Zenon DEF OpToRel
<1>4. QED
  BY <1>3

(* find returns npos, or the first place the token is at. *)
LEMMA FindProperties ==
  ASSUME NEW S, NEW s \in Seq(S), NEW t
  PROVE  /\ Find(s, t) \in 0 .. Len(s)
         /\ Find(s, t) # 0 => s[Find(s, t)] = t
         /\ \A j \in 1 .. Find(s, t) - 1 : s[j] # t
         /\ Find(s, t) = 0 => \A j \in DOMAIN s : s[j] # t
<1> DEFINE places == {i \in DOMAIN s : s[i] = t}
<1>1. DOMAIN s = 1 .. Len(s) /\ Len(s) \in Nat
  BY LenProperties
<1>2. CASE places = {}
  <2>1. Find(s, t) = 0
    BY <1>2 DEF Find
  <2>2. QED
    BY <2>1, <1>1, <1>2
<1>3. CASE places # {}
  <2>1. places \in SUBSET Nat
    BY <1>1
  <2>2. \E i \in places : \A k \in places : i <= k
    BY <1>3, <2>1, LeastNatural
  <2>3. PICK i \in places : \A k \in places : i <= k
    BY <2>2
  <2>4. \A j \in 1 .. i - 1 : s[j] # t
    <3> SUFFICES ASSUME NEW j \in 1 .. i - 1, s[j] = t PROVE FALSE
      OBVIOUS
    <3>1. j \in places /\ ~(i <= j)
      BY <1>1
    <3>2. QED
      BY <2>3, <3>1
  <2>5. \E k \in DOMAIN s : s[k] = t /\ \A j \in 1 .. k - 1 : s[j] # t
    BY <2>4
  <2>6. /\ Find(s, t) \in DOMAIN s
        /\ s[Find(s, t)] = t
        /\ \A j \in 1 .. Find(s, t) - 1 : s[j] # t
    BY <2>5 DEF Find
  <2>7. QED
    BY <2>6, <1>1
<1>4. QED
  BY <1>2, <1>3

(* A piece of a string of S is a string of S. *)
LEMMA SubSeqType ==
  ASSUME NEW S, NEW s \in Seq(S), NEW i \in Nat \ {0}, NEW j \in Int, j <= Len(s)
  PROVE  SubSeq(s, i, j) \in Seq(S)
<1>1. \A k \in i .. j : s[k] \in S
  BY ElementOfSeq, LenProperties
<1>2. QED
  BY <1>1, SubSeqProperties

LEMMA FromType ==
  ASSUME NEW S, NEW s \in Seq(S), NEW i \in Nat \ {0}
  PROVE  From(s, i) \in Seq(S)
BY SubSeqType, LenProperties DEF From

LEMMA CStringType ==
  ASSUME NEW S, NEW s \in Seq(S)
  PROVE  CString(s) \in Seq(S) /\ Len(CString(s)) <= Len(s)
<1>1. Find(s, "NUL") \in 0 .. Len(s) /\ Len(s) \in Nat
  BY FindProperties, LenProperties
<1>2. CASE Find(s, "NUL") = 0
  BY <1>1, <1>2 DEF CString
<1>3. CASE Find(s, "NUL") # 0
  <2>1. /\ SubSeq(s, 1, Find(s, "NUL") - 1) \in Seq(S)
        /\ Len(SubSeq(s, 1, Find(s, "NUL") - 1)) = Find(s, "NUL") - 1
    <3>1. \A k \in 1 .. Find(s, "NUL") - 1 : s[k] \in S
      BY <1>1, ElementOfSeq
    <3>2. QED
      BY <1>1, <1>3, <3>1, SubSeqProperties
  <2>2. QED
    BY <1>1, <1>3, <2>1 DEF CString
<1>4. QED
  BY <1>2, <1>3

LEMMA FormatCharDatasType ==
  ASSUME NEW S, NEW s \in Seq(S), NEW flag
  PROVE  FormatCharDatas(s, flag) \in Seq(S)
<1>1. Find(s, flag) + 1 \in Nat \ {0}
  BY FindProperties, LenProperties
<1>2. QED
  BY <1>1, FromType DEF FormatCharDatas

(* What base64_decode reads is in its alphabet. *)
LEMMA Base64Reads ==
  ASSUME NEW S, NEW s \in Seq(S)
  PROVE  /\ Base64Length(s) \in 0 .. Len(s)
         /\ \A j \in 1 .. Base64Length(s) : s[j] \in Base64Words
<1> DEFINE stops == {i \in DOMAIN s : s[i] \notin Base64Words}
<1>1. DOMAIN s = 1 .. Len(s) /\ Len(s) \in Nat
  BY LenProperties
<1>2. CASE stops = {}
  BY <1>1, <1>2 DEF Base64Length
<1>3. CASE stops # {}
  <2>1. PICK i \in stops : \A k \in stops : i <= k
    <3>1. stops \in SUBSET Nat
      BY <1>1
    <3>2. QED
      BY <1>3, <3>1, LeastNatural
  <2>2. \A j \in 1 .. i - 1 : s[j] \in Base64Words
    <3> SUFFICES ASSUME NEW j \in 1 .. i - 1, s[j] \notin Base64Words PROVE FALSE
      OBVIOUS
    <3>1. j \in stops /\ ~(i <= j)
      BY <1>1
    <3>2. QED
      BY <2>1, <3>1
  <2> DEFINE stop == CHOOSE k \in DOMAIN s :
                       /\ s[k] \notin Base64Words
                       /\ \A j \in 1 .. k - 1 : s[j] \in Base64Words
  <2>3. stop \in DOMAIN s /\ \A j \in 1 .. stop - 1 : s[j] \in Base64Words
    BY <2>2
  <2>4. Base64Length(s) = stop - 1
    BY <1>3 DEF Base64Length
  <2> HIDE DEF stop
  <2>5. QED
    BY <1>1, <2>3, <2>4
<1>4. QED
  BY <1>2, <1>3

LEMMA Base64Type ==
  ASSUME NEW S, NEW s \in Seq(S)
  PROVE  base64_decode(s) \in Seq(Bytes)
<1> DEFINE n == Base64Length(s)
<1>1. n \in Nat /\ \A j \in 1 .. n : s[j] \in Base64Words
  BY Base64Reads, LenProperties
<1> HIDE DEF n
<1>2. [i \in 1 .. n |-> Decoded[s[i]]] \in [1 .. n -> Bytes]
  BY <1>1 DEF Bytes
<1>3. QED
  BY <1>1, <1>2, SeqDef DEF base64_decode, n

-----------------------------------------------------------------------------
(* What a read is taken apart into *)

LEMMA HeadEndProperties ==
  ASSUME NEW msg \in Seq(Tokens)
  PROVE  HeadEnd(msg) \in 0 .. Len(msg)
<1>1. CString(msg) \in Seq(Tokens) /\ Len(CString(msg)) <= Len(msg)
  BY CStringType
<1>2. HeadEnd(msg) \in 0 .. Len(CString(msg))
  BY <1>1, FindProperties DEF HeadEnd
<1>3. QED
  BY <1>1, <1>2, LenProperties

(* A header that does not throw gives a name and data made of tokens. *)
LEMMA HeadTypes ==
  ASSUME NEW msg \in Seq(Tokens)
  PROVE  HeadName(msg) \in Seq(Tokens) /\ HeadData(msg) \in Seq(Tokens)
<1> USE ServiceAssumption
<1>1. HeadEnd(msg) \in 0 .. Len(msg) /\ Len(msg) \in Nat
  BY HeadEndProperties, LenProperties
<1>2. HeadName(msg) \in Seq(Tokens)
  <2>1. SubSeq(msg, 2, HeadEnd(msg) - 1) \in Seq(Tokens)
    BY <1>1, SubSeqType
  <2>2. "untiltled" \in Tokens
    BY DEF Tokens
  <2>3. <<"untiltled">> \in Seq(Tokens)
    BY <2>2
  <2>4. QED
    BY <2>1, <2>3 DEF HeadName
<1>3. HeadData(msg) \in Seq(Tokens)
  <2>1. From(msg, 2) \in Seq(Tokens) /\ From(msg, HeadEnd(msg) + 1) \in Seq(Tokens)
    <3>1. 2 \in Nat \ {0} /\ HeadEnd(msg) + 1 \in Nat \ {0}
      BY <1>1
    <3>2. QED
      BY <3>1, FromType
  <2>2. QED
    BY <2>1 DEF HeadData
<1>4. QED
  BY <1>2, <1>3

Files == [path : Seq(Tokens), content : Seq(Bytes)]

LEMMA SaveType ==
  ASSUME NEW name \in Seq(Tokens), NEW content \in Seq(Tokens), NEW kind
  PROVE  /\ FileWritten(name, content) \in Seq(Files)
         /\ Save(kind, name, content) \in Seq(Files)
<1>1. ASSUME NEW c \in Seq(Bytes)
      PROVE  FileWritten(name, c) \in Seq(Files)
  <2>1. [path |-> name, content |-> c] \in Files
    BY DEF Files
  <2>2. <<[path |-> name, content |-> c]>> \in Seq(Files) /\ <<>> \in Seq(Files)
    BY <2>1
  <2>3. QED
    BY <2>2 DEF FileWritten
<1>2. base64_decode(content) \in Seq(Bytes) /\ content \in Seq(Bytes)
  BY Base64Type, SeqMonotonic DEF Bytes
<1>3. FileWritten(name, content) \in Seq(Files) /\ Save(kind, name, content) \in Seq(Files)
  BY <1>1, <1>2 DEF Save
<1>4. QED
  BY <1>3

-----------------------------------------------------------------------------
(* Types *)

(* The part of the state read_cb works on. *)
TransferTypes ==
  /\ transFile \in [Kinds -> BOOLEAN]
  /\ fileData \in Seq(Tokens)
  /\ currentTransferFileName \in Seq(Tokens)
  /\ written \in Seq(Files)
  /\ outbox \in [Clients -> Seq(Seq(Tokens \cup {"Send from Server"}))]
  /\ running \in BOOLEAN

LEMMA HeaderReadTypes ==
  ASSUME TransferTypes, NEW msg \in Seq(Tokens), NEW k \in Kinds, HeaderRead(k, msg),
         UNCHANGED running
  PROVE  TransferTypes'
<1>1. HeadName(msg) \in Seq(Tokens) /\ HeadData(msg) \in Seq(Tokens)
  BY HeadTypes
<1>2. FormatCharDatas(HeadData(msg), Marker[k]) \in Seq(Tokens)
  BY <1>1, FormatCharDatasType
<1>3. Save(k, HeadName(msg), FormatCharDatas(HeadData(msg), Marker[k])) \in Seq(Files)
  BY <1>1, <1>2, SaveType
<1> DEFINE saved == Save(k, HeadName(msg), FormatCharDatas(HeadData(msg), Marker[k]))
<1> <<>> \in Seq(Tokens)
  BY EmptySeq
<1>4. written' \in Seq(Files)
  <2>1. written' = written \o saved \/ written' = written
    BY DEF HeaderRead
  <2>2. written \in Seq(Files) /\ saved \in Seq(Files)
    BY <1>3 DEF TransferTypes
  <2> HIDE DEF saved
  <2>3. QED
    BY <2>1, <2>2, ConcatProperties
<1>5. fileData' \in Seq(Tokens)
  <2>1. fileData' = <<>> \/ fileData' = HeadData(msg)
    BY DEF HeaderRead
  <2>2. QED
    BY <1>1, <2>1
<1>6. transFile' \in [Kinds -> BOOLEAN]
  <2>1. (Len(msg) >= FileBuffers) \in BOOLEAN
    OBVIOUS
  <2>2. QED
    BY <2>1 DEF HeaderRead, TransferTypes
<1>7. QED
  BY <1>1, <1>4, <1>5, <1>6 DEF HeaderRead, TransferTypes

LEMMA BodyReadTypes ==
  ASSUME TransferTypes, NEW msg \in Seq(Tokens), NEW k \in Kinds, BodyRead(k, msg),
         UNCHANGED running
  PROVE  TransferTypes'
<1>1. fileData \o msg \in Seq(Tokens)
  BY ConcatProperties DEF TransferTypes
<1>2. fileData' \in Seq(Tokens)
  <2>1. \/ fileData' = fileData \o msg
        \/ fileData' = FormatCharDatas(fileData \o msg, Marker[k])
    BY DEF BodyRead
  <2>2. FormatCharDatas(fileData \o msg, Marker[k]) \in Seq(Tokens)
    BY <1>1, FormatCharDatasType
  <2>3. QED
    BY <1>1, <2>1, <2>2
<1>3. <<"123.log">> \in Seq(Tokens)
  BY ServiceAssumption DEF Tokens
<1>4. written' \in Seq(Files)
  <2> DEFINE log   == FileWritten(<<"123.log">>, fileData')
             saved == Save(k, currentTransferFileName, fileData')
  <2>1. \/ written' = written \o log \o saved
        \/ written' = written \o <<>> \o saved
        \/ written' = written
    BY DEF BodyRead
  <2>2. currentTransferFileName \in Seq(Tokens) /\ written \in Seq(Files)
    BY DEF TransferTypes
  <2>3. log \in Seq(Files) /\ saved \in Seq(Files) /\ <<>> \in Seq(Files)
    BY <1>2, <1>3, <2>2, SaveType, EmptySeq
  <2> HIDE DEF log, saved
  <2>4. written \o log \in Seq(Files) /\ written \o <<>> \in Seq(Files)
    BY <2>2, <2>3, ConcatProperties
  <2>5. written \o log \o saved \in Seq(Files) /\ written \o <<>> \o saved \in Seq(Files)
    BY <2>3, <2>4, ConcatProperties
  <2>6. QED
    BY <2>1, <2>2, <2>5
<1>6. transFile' \in [Kinds -> BOOLEAN]
  <2>1. (Len(msg) >= FileBuffers) \in BOOLEAN
    OBVIOUS
  <2>2. QED
    BY <2>1 DEF BodyRead, TransferTypes
<1>7. QED
  BY <1>2, <1>4, <1>6 DEF BodyRead, TransferTypes

LEMMA TextReadTypes ==
  ASSUME TransferTypes, NEW msg \in Seq(Tokens), NEW c \in Clients, TextRead(c, msg),
         UNCHANGED running
  PROVE  TransferTypes'
<1> DEFINE Sent == Seq(Tokens \cup {"Send from Server"})
<1>1. msg \in Sent /\ CString(msg) \in Sent
  BY CStringType, SeqMonotonic
<1>2. ASSUME NEW d \in Clients
      PROVE  /\ outbox[d] \in Seq(Sent)
             /\ Append(outbox[d], CString(msg)) \in Seq(Sent)
             /\ Append(outbox[d], msg) \in Seq(Sent)
  <2>1. outbox[d] \in Seq(Sent)
    BY DEF TransferTypes
  <2>2. QED
    BY <1>1, <2>1, AppendProperties
<1>4. outbox' \in [Clients -> Seq(Sent)]
  BY <1>2 DEF TextRead, TransferTypes
<1>5. QED
  BY <1>4 DEF TextRead, TransferTypes, transferVars

LEMMA ReadTypes ==
  ASSUME TransferTypes, NEW msg \in Seq(Tokens), NEW c \in Clients, read_cb(c, msg)
  PROVE  TransferTypes'
<1>1. CASE HeadThrows(msg)
  BY <1>1 DEF read_cb, TransferTypes, transferVars
<1>2. CASE ~HeadThrows(msg)
  <2>1. CASE \E k \in Kinds : HeaderRead(k, msg) \/ BodyRead(k, msg)
    BY <1>2, <2>1, HeaderReadTypes, BodyReadTypes DEF read_cb
  <2>2. CASE TextRead(c, msg)
    BY <1>2, <2>2, TextReadTypes DEF read_cb
  <2>3. QED
    BY <1>2, <2>1, <2>2 DEF read_cb
<1>3. QED
  BY <1>1, <1>2

LEMMA TypeInit == Init => TypeOK
<1> SUFFICES ASSUME Init PROVE TypeOK
  OBVIOUS
<1> USE EmptySeq
<1>1. <<>> \in Seq(Tokens)
  OBVIOUS
<1>2. outbox \in [Clients -> Seq(Seq(Tokens \cup {"Send from Server"}))]
  BY DEF Init
<1>3. client_vec \in Seq([sock_fd : Fds, m_pBev : Clients])
  BY DEF Init
<1>4. written \in Seq([path : Seq(Tokens), content : Seq(Bytes)])
  BY DEF Init
<1>5. QED
  BY <1>1, <1>2, <1>3, <1>4, ServiceAssumption DEF Init, TypeOK, Kinds

LEMMA EraseType ==
  ASSUME NEW S, NEW s \in Seq(S), NEW i \in DOMAIN s
  PROVE  /\ Erase(s, i) \in Seq(S)
         /\ Len(Erase(s, i)) = Len(s) - 1
         /\ \A j \in 1 .. Len(s) - 1 : Erase(s, i)[j] = IF j < i THEN s[j] ELSE s[j + 1]
<1>1. Len(s) \in Nat /\ DOMAIN s = 1 .. Len(s) /\ \A j \in 1 .. Len(s) : s[j] \in S
  BY LenProperties, ElementOfSeq
<1>2. Len(s) - 1 \in Nat
  BY <1>1
<1>3. Erase(s, i) \in [1 .. Len(s) - 1 -> S]
  BY <1>1 DEF Erase
<1>4. Erase(s, i) \in Seq(S)
  BY <1>2, <1>3, SeqDef
<1>5. QED
  BY <1>2, <1>3, <1>4, LenProperties DEF Erase

(* What read_cb is given, and what is left for later, are strings of what  *)
(* was sent.                                                               *)
LEMMA ReadsTokens ==
  ASSUME TypeOK, NEW c \in Clients, Readable(c)
  PROVE  /\ \E msg \in Seq(Tokens) : read_cb(c, msg)
         /\ stream' \in [Clients -> Seq(Tokens)] /\ input' \in [Clients -> Seq(Tokens)]
<1> PICK n \in 1 .. AtMost(Len(stream[c]), SocketRead) :
       LET buf   == input[c] \o SubSeq(stream[c], 1, n)
           taken == AtMost(Len(buf), FileBuffers)
       IN  /\ stream' = [stream EXCEPT ![c] = From(stream[c], n + 1)]
           /\ input' = [input EXCEPT ![c] = From(buf, taken + 1)]
           /\ read_cb(c, SubSeq(buf, 1, taken))
  BY DEF Readable
<1> DEFINE buf   == input[c] \o SubSeq(stream[c], 1, n)
           taken == AtMost(Len(buf), FileBuffers)
<1>1. stream[c] \in Seq(Tokens) /\ input[c] \in Seq(Tokens) /\ Len(stream[c]) \in Nat
  BY LenProperties DEF TypeOK
<1>2. n \in Nat \ {0} /\ n <= Len(stream[c])
  BY <1>1, ServiceAssumption DEF AtMost
<1>3. buf \in Seq(Tokens) /\ Len(buf) \in Nat
  <2>1. SubSeq(stream[c], 1, n) \in Seq(Tokens)
    BY <1>1, <1>2, SubSeqType
  <2>2. QED
    BY <1>1, <2>1, ConcatProperties, LenProperties
<1>4. taken \in Nat /\ taken <= Len(buf)
  BY <1>3, ServiceAssumption DEF AtMost
<1>5. /\ From(stream[c], n + 1) \in Seq(Tokens)
      /\ From(buf, taken + 1) \in Seq(Tokens)
      /\ SubSeq(buf, 1, taken) \in Seq(Tokens)
  <2> HIDE DEF buf, taken
  <2>1. n + 1 \in Nat \ {0} /\ taken + 1 \in Nat \ {0} /\ taken \in Int
    BY <1>2, <1>4
  <2>2. From(stream[c], n + 1) \in Seq(Tokens)
    BY <1>1, <2>1, FromType
  <2>3. From(buf, taken + 1) \in Seq(Tokens)
    BY <1>3, <2>1, FromType
  <2>4. SubSeq(buf, 1, taken) \in Seq(Tokens)
    BY <1>3, <1>4, <2>1, SubSeqType
  <2>5. QED
    BY <2>2, <2>3, <2>4
<1>6. QED
  BY <1>5 DEF TypeOK

LEMMA ReadableTypes ==
  ASSUME TypeOK, NEW c \in Clients, Readable(c)
  PROVE  TypeOK'
<1>1. TransferTypes
  BY DEF TypeOK, TransferTypes, Files
<1>2. TransferTypes'
  BY <1>1, ReadsTokens, ReadTypes
<1>3. UNCHANGED <<client_vec, bevFd, phase, sent>>
  BY DEF Readable, registryVars, clientVars
<1>4. QED
  BY <1>2, <1>3, ReadsTokens DEF TypeOK, TransferTypes, Files

(* A step of the service keeps the types. *)
LEMMA TypesKept ==
  ASSUME TypeOK, [Next]_vars
  PROVE  TypeOK'
<1>1. CASE UNCHANGED vars
  BY <1>1 DEF vars, transferVars, registryVars, clientVars, TypeOK
<1>2. ASSUME NEW c \in Clients, NEW fd \in Fds, do_accept(c, fd)
      PROVE  TypeOK'
  <2>1. [sock_fd |-> fd, m_pBev |-> c] \in [sock_fd : Fds, m_pBev : Clients]
    OBVIOUS
  <2>2. client_vec' \in Seq([sock_fd : Fds, m_pBev : Clients])
    BY <1>2, <2>1, AppendProperties DEF do_accept, TypeOK
  <2>3. <<Welcome>> \in Seq(Seq(Tokens \cup {"Send from Server"}))
    BY DEF Welcome
  <2>4. outbox' \in [Clients -> Seq(Seq(Tokens \cup {"Send from Server"}))]
    BY <1>2, <2>3 DEF do_accept, TypeOK
  <2>5. QED
    BY <1>2, <2>2, <2>4 DEF do_accept, transferVars, TypeOK
<1>3. ASSUME NEW c \in Clients, AcceptError(c)
      PROVE  TypeOK'
  BY <1>3 DEF AcceptError, transferVars, registryVars, TypeOK
<1>4. ASSUME NEW c \in Clients, Readable(c)
      PROVE  TypeOK'
  BY <1>4, ReadableTypes
<1>5. ASSUME NEW c \in Clients, error_cb(c)
      PROVE  TypeOK'
  <2>1. client_vec' = client_vec \/ \E it \in DOMAIN client_vec : client_vec' = Erase(client_vec, it)
    BY <1>5 DEF error_cb
  <2>3. client_vec' \in Seq([sock_fd : Fds, m_pBev : Clients])
    <3> DEFINE Entries == [sock_fd : Fds, m_pBev : Clients]
    <3>1. client_vec \in Seq(Entries)
      BY DEF TypeOK
    <3> HIDE DEF Entries
    <3>2. \A it \in DOMAIN client_vec : Erase(client_vec, it) \in Seq(Entries)
      BY <3>1, EraseType
    <3>3. client_vec' \in Seq(Entries)
      BY <2>1, <3>1, <3>2
    <3>4. QED
      BY <3>3 DEF Entries
  <2>2. <<>> \in Seq(Tokens)
    BY EmptySeq
  <2>4. QED
    BY <1>5, <2>3, <2>2 DEF error_cb, transferVars, clientVars, TypeOK
<1>6. ASSUME NEW c \in Clients, NEW m \in Messages, Send(c, m)
      PROVE  TypeOK'
  <2>1. m \in Seq(Tokens)
    BY ServiceAssumption
  <2>2. stream[c] \o m \in Seq(Tokens)
    BY <2>1, ConcatProperties DEF TypeOK
  <2>3. sent' \in 0 .. MaxSent
    <3>1. sent < MaxSent /\ sent' = sent + 1 /\ sent \in 0 .. MaxSent
      BY <1>6 DEF Send, TypeOK
    <3>2. MaxSent \in Nat
      BY ServiceAssumption
    <3>3. QED
      BY <3>1, <3>2
  <2>4. QED
    BY <1>6, <2>2, <2>3 DEF Send, transferVars, registryVars, TypeOK
<1>7. ASSUME NEW c \in Clients, Close(c)
      PROVE  TypeOK'
  BY <1>7 DEF Close, transferVars, registryVars, TypeOK
<1>8. ASSUME NEW c \in Clients, Reset(c)
      PROVE  TypeOK'
  <2>1. <<>> \in Seq(Tokens)
    BY EmptySeq
  <2>2. QED
    BY <1>8, <2>1 DEF Reset, transferVars, registryVars, TypeOK
<1>9. QED
  BY <1>1, <1>2, <1>3, <1>4, <1>5, <1>6, <1>7, <1>8 DEF Next, Loop

(* Whatever the clients send and however it is cut up, the service's state *)
(* is well formed: the registry holds descriptors and connections, the     *)
(* buffers, names and files are strings of what was sent.                  *)
THEOREM Typing == Spec => []TypeOK
<1>1. TypeOK /\ [Next]_vars => TypeOK'
  BY TypesKept
<1>2. QED
  BY <1>1, TypeInit, PTL DEF Spec

-----------------------------------------------------------------------------
(* The registry *)

(* What the invariants rest on: a connection that was never accepted has   *)
(* no bufferevent, and every registered client has had its welcome.        *)
RegistryInv ==
  /\ RegistryIsLive
  /\ \A c \in Clients : phase[c] = "new" => bevFd[c] = NoFd
  /\ \A c \in Registered : outbox[c] # <<>>

(* What a registry entry looks like, from the types. *)
LEMMA Entries ==
  ASSUME TypeOK
  PROVE  /\ Len(client_vec) \in Nat
         /\ DOMAIN client_vec = 1 .. Len(client_vec)
         /\ \A i \in 1 .. Len(client_vec) :
              client_vec[i].sock_fd \in Fds /\ client_vec[i].m_pBev \in Clients
<1>1. client_vec \in Seq([sock_fd : Fds, m_pBev : Clients])
  BY DEF TypeOK
<1>2. \A i \in 1 .. Len(client_vec) : client_vec[i] \in [sock_fd : Fds, m_pBev : Clients]
  BY <1>1, ElementOfSeq
<1>3. QED
  BY <1>1, <1>2, LenProperties

(* Reading changes no registry entry and empties no outbox. *)
LEMMA ReadKeepsOutboxes ==
  ASSUME TypeOK, NEW c \in Clients, Readable(c)
  PROVE  /\ UNCHANGED <<client_vec, bevFd, phase>>
         /\ \/ UNCHANGED outbox
            \/ \E t : outbox' = [d \in Clients |-> IF d \in Registered
                                                 THEN Append(outbox[d], t)
                                                 ELSE outbox[d]]
            \/ ~m_bSendAll /\ \E t : outbox' = [outbox EXCEPT ![c] = Append(@, t)]
<1>1. PICK msg : read_cb(c, msg)
  BY DEF Readable
<1>2. UNCHANGED <<client_vec, bevFd, phase>>
  BY DEF Readable, registryVars, clientVars
<1>3. CASE UNCHANGED outbox
  BY <1>2, <1>3
<1>4. CASE TextRead(c, msg)
  BY <1>2, <1>4 DEF TextRead
<1>5. QED
  BY <1>1, <1>3, <1>4 DEF read_cb, HeaderRead, BodyRead

LEMMA AppendNotEmpty ==
  ASSUME NEW S, NEW s \in Seq(S), NEW t
  PROVE  Append(s, t) # <<>>
<1> DEFINE T == S \cup {t}
<1>1. s \in Seq(T) /\ t \in T
  BY SeqMonotonic
<1> HIDE DEF T
<1>2. Len(Append(s, t)) = Len(s) + 1 /\ Len(s) \in Nat
  BY <1>1, AppendProperties, LenProperties
<1>3. QED
  BY <1>2

LEMMA AcceptRegistry ==
  ASSUME TypeOK, RegistryInv, NEW c \in Clients, NEW fd \in Fds, do_accept(c, fd)
  PROVE  RegistryInv'
<1> DEFINE n == Len(client_vec)
<1>1. /\ n \in Nat /\ DOMAIN client_vec = 1 .. n
      /\ \A i \in 1 .. n : client_vec[i].sock_fd \in Fds /\ client_vec[i].m_pBev \in Clients
  BY Entries
<1>2. bevFd[c] = NoFd /\ NoFd \notin Fds
  BY ServiceAssumption DEF RegistryInv, do_accept
<1>3. /\ DOMAIN client_vec' = 1 .. n + 1
      /\ \A i \in 1 .. n : client_vec'[i] = client_vec[i]
      /\ client_vec'[n + 1] = [sock_fd |-> fd, m_pBev |-> c]
  <2>1. client_vec \in Seq([sock_fd : Fds, m_pBev : Clients])
    BY DEF TypeOK
  <2>2. client_vec' = Append(client_vec, [sock_fd |-> fd, m_pBev |-> c])
    BY DEF do_accept
  <2>3. [sock_fd |-> fd, m_pBev |-> c] \in [sock_fd : Fds, m_pBev : Clients]
    OBVIOUS
  <2>4. QED
    BY <2>1, <2>2, <2>3, AppendProperties, LenProperties
<1>4. bevFd' = [bevFd EXCEPT ![c] = fd] /\ bevFd \in [Clients -> Fds \cup {NoFd}]
  BY DEF do_accept, TypeOK
<1>5. \A i \in 1 .. n : client_vec[i].m_pBev # c /\ client_vec[i].sock_fd # fd
  BY <1>1, <1>2 DEF RegistryInv, RegistryIsLive, do_accept
<1>6. RegistryIsLive'
  <2>1. \A i \in DOMAIN client_vec' : bevFd'[client_vec'[i].m_pBev] = client_vec'[i].sock_fd
    BY <1>1, <1>3, <1>4, <1>5 DEF RegistryInv, RegistryIsLive
  <2>2. \A i, j \in DOMAIN client_vec' :
          client_vec'[i].sock_fd = client_vec'[j].sock_fd => i = j
    BY <1>1, <1>3, <1>5 DEF RegistryInv, RegistryIsLive
  <2>3. ASSUME NEW d \in Clients, bevFd'[d] # NoFd
        PROVE  d \in Registered'
    <3>1. CASE d = c
      BY <1>1, <1>3, <3>1 DEF Registered
    <3>2. CASE d # c
      BY <1>1, <1>3, <1>4, <2>3, <3>2 DEF RegistryInv, RegistryIsLive, Registered
    <3>3. QED
      BY <3>1, <3>2
  <2>4. QED
    BY <2>1, <2>2, <2>3 DEF RegistryIsLive
<1>7. \A d \in Clients : phase'[d] = "new" => bevFd'[d] = NoFd
  BY <1>4 DEF RegistryInv, do_accept, TypeOK
<1>8. \A d \in Registered' : outbox'[d] # <<>>
  <2>1. \A d \in Registered' : d = c \/ d \in Registered
    BY <1>1, <1>3 DEF Registered
  <2>2. /\ outbox' = [outbox EXCEPT ![c] = <<Welcome>>] /\ <<Welcome>> # <<>>
        /\ outbox \in [Clients -> Seq(Seq(Tokens \cup {"Send from Server"}))]
    BY DEF do_accept, TypeOK
  <2>3. \A d \in Registered : d \in Clients
    BY <1>1 DEF Registered
  <2>4. QED
    BY <2>1, <2>2, <2>3 DEF RegistryInv
<1>9. QED
  BY <1>6, <1>7, <1>8 DEF RegistryInv

(* error_cb takes out the entry of the connection that failed, and it is   *)
(* the only one with that descriptor.                                      *)
LEMMA FailedEntry ==
  ASSUME TypeOK, RegistryInv, NEW c \in Clients, error_cb(c)
  PROVE  \E it \in 1 .. Len(client_vec) :
            /\ client_vec[it].m_pBev = c
            /\ \A j \in 1 .. Len(client_vec) : client_vec[j].m_pBev = c => j = it
            /\ client_vec' = Erase(client_vec, it)
<1>1. PICK i \in DOMAIN client_vec : client_vec[i].m_pBev = c
  BY DEF error_cb, RegistryInv, RegistryIsLive, Registered
<1>2. client_vec[i].sock_fd = bevFd[c]
  BY <1>1 DEF RegistryInv, RegistryIsLive
<1>3. \A j \in DOMAIN client_vec : client_vec[j].sock_fd = bevFd[c] => j = i
  BY <1>2 DEF RegistryInv, RegistryIsLive
<1>4. client_vec' = Erase(client_vec, i)
  BY <1>2, <1>3 DEF error_cb
<1>5. \A j \in DOMAIN client_vec : client_vec[j].m_pBev = c => j = i
  BY <1>3 DEF RegistryInv, RegistryIsLive
<1>6. QED
  BY <1>1, <1>4, <1>5, Entries

LEMMA ErrorRegistry ==
  ASSUME TypeOK, RegistryInv, NEW c \in Clients, error_cb(c)
  PROVE  RegistryInv'
<1> DEFINE n == Len(client_vec)
<1>1. PICK it \in 1 .. n :
            /\ client_vec[it].m_pBev = c
            /\ \A j \in 1 .. n : client_vec[j].m_pBev = c => j = it
            /\ client_vec' = Erase(client_vec, it)
  BY FailedEntry
<1>2. n \in Nat /\ DOMAIN client_vec = 1 .. n
  BY Entries
<1>3. /\ DOMAIN client_vec' = 1 .. n - 1
      /\ \A j \in 1 .. n - 1 :
           client_vec'[j] = IF j < it THEN client_vec[j] ELSE client_vec[j + 1]
  BY <1>1, <1>2 DEF Erase
<1>4. bevFd' = [bevFd EXCEPT ![c] = NoFd] /\ bevFd \in [Clients -> Fds \cup {NoFd}]
  BY DEF error_cb, TypeOK
<1>5. \A j \in 1 .. n - 1 : \E k \in 1 .. n :
         client_vec'[j] = client_vec[k] /\ k # it /\ k = IF j < it THEN j ELSE j + 1
  BY <1>2, <1>3
<1>6. RegistryIsLive'
  <2>1. \A i \in DOMAIN client_vec' : bevFd'[client_vec'[i].m_pBev] = client_vec'[i].sock_fd
    <3> SUFFICES ASSUME NEW i \in 1 .. n - 1
                 PROVE  bevFd'[client_vec'[i].m_pBev] = client_vec'[i].sock_fd
      BY <1>3
    <3>1. PICK k \in 1 .. n : client_vec'[i] = client_vec[k] /\ k # it
      BY <1>5
    <3>2. client_vec[k].m_pBev # c /\ client_vec[k].m_pBev \in Clients
      BY <1>1, <3>1, Entries
    <3>3. QED
      BY <1>2, <1>4, <3>1, <3>2 DEF RegistryInv, RegistryIsLive
  <2>2. \A i, j \in DOMAIN client_vec' :
          client_vec'[i].sock_fd = client_vec'[j].sock_fd => i = j
    <3> SUFFICES ASSUME NEW i \in 1 .. n - 1, NEW j \in 1 .. n - 1,
                        client_vec'[i].sock_fd = client_vec'[j].sock_fd
                 PROVE  i = j
      BY <1>3
    <3>1. PICK k \in 1 .. n : client_vec'[i] = client_vec[k] /\ k = IF i < it THEN i ELSE i + 1
      BY <1>5
    <3>2. PICK l \in 1 .. n : client_vec'[j] = client_vec[l] /\ l = IF j < it THEN j ELSE j + 1
      BY <1>5
    <3>3. k = l
      BY <1>2, <3>1, <3>2 DEF RegistryInv, RegistryIsLive
    <3>4. QED
      BY <1>2, <3>1, <3>2, <3>3
  <2>3. ASSUME NEW d \in Clients, bevFd'[d] # NoFd
        PROVE  d \in Registered'
    <3>1. d # c /\ bevFd[d] # NoFd
      BY <1>4, <2>3
    <3>2. PICK k \in 1 .. n : client_vec[k].m_pBev = d
      BY <1>2, <3>1 DEF RegistryInv, RegistryIsLive, Registered
    <3>3. k # it
      BY <1>1, <3>1, <3>2
    <3>4. \E j \in 1 .. n - 1 : client_vec'[j] = client_vec[k]
      <4>1. CASE k < it
        BY <1>2, <1>3, <4>1
      <4>2. CASE k > it
        <5>1. k - 1 \in 1 .. n - 1 /\ ~(k - 1 < it) /\ (k - 1) + 1 = k
          BY <1>2, <4>2
        <5>2. QED
          BY <1>3, <5>1
      <4>3. QED
        BY <1>2, <3>3, <4>1, <4>2
    <3>5. QED
      BY <1>3, <3>2, <3>4 DEF Registered
  <2>4. QED
    BY <2>1, <2>2, <2>3 DEF RegistryIsLive
<1>7. \A d \in Clients : phase'[d] = "new" => bevFd'[d] = NoFd
  BY <1>4 DEF RegistryInv, error_cb, clientVars
<1>8. \A d \in Registered' : outbox'[d] # <<>>
  <2>1. \A d \in Registered' : d \in Registered
    BY <1>2, <1>3, <1>5 DEF Registered
  <2>2. QED
    BY <2>1 DEF RegistryInv, error_cb
<1>9. QED
  BY <1>6, <1>7, <1>8 DEF RegistryInv

LEMMA ReadRegistry ==
  ASSUME TypeOK, RegistryInv, NEW c \in Clients, Readable(c)
  PROVE  RegistryInv'
<1>1. UNCHANGED <<client_vec, bevFd, phase>>
  BY ReadKeepsOutboxes
<1>2. RegistryIsLive' /\ Registered' = Registered
  BY <1>1 DEF RegistryInv, RegistryIsLive, Registered
<1>3. ASSUME NEW d \in Registered PROVE outbox'[d] # <<>>
  <2>1. d \in Clients
    BY Entries DEF Registered
  <2>2. outbox[d] \in Seq(Seq(Tokens \cup {"Send from Server"})) /\ outbox[d] # <<>>
    BY <2>1 DEF TypeOK, RegistryInv
  <2>3. outbox'[d] = outbox[d] \/ \E t : outbox'[d] = Append(outbox[d], t)
    <3>1. DOMAIN outbox = Clients
      BY DEF TypeOK
    <3>2. CASE UNCHANGED outbox
      BY <3>2
    <3>3. CASE \E t : outbox' = [e \in Clients |-> IF e \in Registered
                                                  THEN Append(outbox[e], t)
                                                  ELSE outbox[e]]
      BY <2>1, <3>3
    <3>4. CASE \E t : outbox' = [outbox EXCEPT ![c] = Append(@, t)]
      BY <2>1, <3>1, <3>4
    <3>5. QED
      BY <3>2, <3>3, <3>4, ReadKeepsOutboxes
  <2>4. QED
    BY <2>2, <2>3, AppendNotEmpty
<1>4. QED
  BY <1>1, <1>2, <1>3 DEF RegistryInv

(* The remaining actions change neither the registry nor an outbox, and    *)
(* none makes a connection new again.                                      *)
LEMMA OtherRegistry ==
  ASSUME TypeOK, RegistryInv, UNCHANGED <<client_vec, bevFd, outbox>>,
         \A c \in Clients : phase'[c] = "new" => phase[c] = "new"
  PROVE  RegistryInv'
BY DEF RegistryInv, RegistryIsLive, Registered

LEMMA RegistryInvariance == Spec => []RegistryInv
<1>1. Init => RegistryInv
  BY DEF Init, RegistryInv, RegistryIsLive, Registered
<1>2. TypeOK /\ RegistryInv /\ [Next]_vars => RegistryInv'
  <2> SUFFICES ASSUME TypeOK, RegistryInv, [Next]_vars PROVE RegistryInv'
    OBVIOUS
  <2>1. CASE UNCHANGED vars
    BY <2>1, OtherRegistry DEF vars, registryVars, clientVars
  <2>2. ASSUME NEW c \in Clients, \E fd \in Fds : do_accept(c, fd)
        PROVE  RegistryInv'
    BY <2>2, AcceptRegistry
  <2>3. ASSUME NEW c \in Clients, Readable(c)
        PROVE  RegistryInv'
    BY <2>3, ReadRegistry
  <2>4. ASSUME NEW c \in Clients, error_cb(c)
        PROVE  RegistryInv'
    BY <2>4, ErrorRegistry
  <2>5. ASSUME NEW c \in Clients, AcceptError(c) \/ Close(c) \/ Reset(c)
        PROVE  RegistryInv'
    BY <2>5, OtherRegistry DEF AcceptError, Close, Reset, registryVars, TypeOK
  <2>6. ASSUME NEW c \in Clients, NEW m \in Messages, Send(c, m)
        PROVE  RegistryInv'
    BY <2>6, OtherRegistry DEF Send, registryVars
  <2>7. QED
    BY <2>1, <2>2, <2>3, <2>4, <2>5, <2>6 DEF Next, Loop
<1>3. QED
  BY <1>1, <1>2, Typing, PTL DEF Spec

(* sendAll writes to live bufferevents only and error_cb erases the right  *)
(* client, for any number of clients and any reuse of descriptors.         *)
THEOREM RegistryStaysLive == Spec => []RegistryIsLive
<1>1. RegistryInv => RegistryIsLive
  BY DEF RegistryInv
<1>2. QED
  BY <1>1, RegistryInvariance, PTL

-----------------------------------------------------------------------------
(* The order of texts *)

(* Appending the same text to both keeps one history at the end of another. *)
LEMMA SameTextSameEnd ==
  ASSUME NEW S, NEW s \in Seq(S), NEW t \in Seq(S), NEW e, Continues(s, t)
  PROVE  Continues(Append(s, e), Append(t, e))
<1> DEFINE T == S \cup {e}
<1>1. s \in Seq(T) /\ t \in Seq(T) /\ e \in T
  BY SeqMonotonic
<1> HIDE DEF T
<1> DEFINE s1 == Append(s, e)
           t1 == Append(t, e)
<1>2. /\ Len(s) \in Nat /\ Len(s1) = Len(s) + 1
      /\ s1[Len(s) + 1] = e
      /\ \A i \in 1 .. Len(s) : s1[i] = s[i]
  BY <1>1, AppendProperties, LenProperties
<1>3. /\ Len(t) \in Nat /\ Len(t1) = Len(t) + 1
      /\ t1[Len(t) + 1] = e
      /\ \A i \in 1 .. Len(t) : t1[i] = t[i]
  BY <1>1, AppendProperties, LenProperties
<1>4. Len(t) <= Len(s) /\ \A k \in 0 .. Len(t) - 2 : s[Len(s) - k] = t[Len(t) - k]
  BY DEF Continues
<1> HIDE DEF s1, t1
<1>5. ASSUME NEW k \in 0 .. Len(t1) - 2
      PROVE  s1[Len(s1) - k] = t1[Len(t1) - k]
  <2>1. CASE k = 0
    BY <1>2, <1>3, <2>1
  <2>2. CASE k # 0
    <3>1. /\ k - 1 \in 0 .. Len(t) - 2
          /\ Len(s) - (k - 1) \in 1 .. Len(s)
          /\ Len(t) - (k - 1) \in 1 .. Len(t)
          /\ Len(s1) - k = Len(s) - (k - 1)
          /\ Len(t1) - k = Len(t) - (k - 1)
      BY <1>2, <1>3, <1>4, <2>2
    <3>2. s[Len(s) - (k - 1)] = t[Len(t) - (k - 1)]
      BY <1>4, <3>1
    <3>3. QED
      BY <1>2, <1>3, <3>1, <3>2
  <2>3. QED
    BY <2>1, <2>2
<1>6. Len(t1) <= Len(s1)
  BY <1>2, <1>3, <1>4
<1>7. Continues(s1, t1)
  BY <1>5, <1>6 DEF Continues
<1>8. QED
  BY <1>7 DEF s1, t1

Outs == Seq(Seq(Tokens \cup {"Send from Server"}))

LEMMA AcceptOrder ==
  ASSUME TypeOK, RegistryInv, TextsAreOrdered, m_bSendAll,
         NEW c \in Clients, NEW fd \in Fds, do_accept(c, fd)
  PROVE  TextsAreOrdered'
<1> DEFINE n == Len(client_vec)
<1>1. /\ n \in Nat /\ DOMAIN client_vec = 1 .. n
      /\ \A i \in 1 .. n : client_vec[i].m_pBev \in Clients
  BY Entries
<1>2. /\ DOMAIN client_vec' = 1 .. n + 1
      /\ \A i \in 1 .. n : client_vec'[i] = client_vec[i]
      /\ client_vec'[n + 1].m_pBev = c
  <2>1. client_vec \in Seq([sock_fd : Fds, m_pBev : Clients])
    BY DEF TypeOK
  <2>2. client_vec' = Append(client_vec, [sock_fd |-> fd, m_pBev |-> c])
    BY DEF do_accept
  <2>3. [sock_fd |-> fd, m_pBev |-> c] \in [sock_fd : Fds, m_pBev : Clients]
    OBVIOUS
  <2>4. QED
    BY <2>1, <2>2, <2>3, AppendProperties, LenProperties
<1>3. \A i \in 1 .. n : client_vec[i].m_pBev # c
  BY <1>1, ServiceAssumption, Entries DEF RegistryInv, RegistryIsLive, do_accept
<1>4. outbox' = [outbox EXCEPT ![c] = <<Welcome>>] /\ outbox \in [Clients -> Outs]
  BY DEF do_accept, TypeOK, Outs
<1>5. \A i \in 1 .. n : outbox'[client_vec'[i].m_pBev] = outbox[client_vec[i].m_pBev]
  BY <1>1, <1>2, <1>3, <1>4
<1>6. outbox'[client_vec'[n + 1].m_pBev] = <<Welcome>>
  BY <1>2, <1>4
<1>7. ASSUME NEW i \in 1 .. n + 1, NEW j \in 1 .. n + 1, i < j
      PROVE  Continues(outbox'[client_vec'[i].m_pBev], outbox'[client_vec'[j].m_pBev])
  <2>1. i \in 1 .. n
    BY <1>1, <1>7
  <2> DEFINE s == outbox[client_vec[i].m_pBev]
  <2>2. CASE j = n + 1
    <3>1. s \in Outs /\ s # <<>>
      BY <1>1, <1>4, <2>1 DEF RegistryInv, Registered
    <3> HIDE DEF s
    <3>2. Len(s) \in Nat \ {0}
      BY <3>1, EmptySeq DEF Outs
    <3>3. Continues(s, <<Welcome>>)
      BY <3>2 DEF Continues
    <3>4. QED
      BY <1>5, <1>6, <2>1, <2>2, <3>3 DEF s
  <2>3. CASE j # n + 1
    <3>1. j \in 1 .. n
      BY <1>1, <2>3
    <3>2. Continues(s, outbox[client_vec[j].m_pBev])
      BY <1>1, <1>7, <2>1, <3>1 DEF TextsAreOrdered
    <3>3. QED
      BY <1>5, <2>1, <3>1, <3>2
  <2>4. QED
    BY <2>2, <2>3
<1>8. QED
  BY <1>2, <1>7 DEF TextsAreOrdered

LEMMA ReadOrder ==
  ASSUME TypeOK, TextsAreOrdered, m_bSendAll, NEW c \in Clients, Readable(c)
  PROVE  TextsAreOrdered'
<1>1. UNCHANGED client_vec
  BY ReadKeepsOutboxes
<1>2. ASSUME NEW i \in DOMAIN client_vec, NEW j \in DOMAIN client_vec, i < j
      PROVE  Continues(outbox'[client_vec[i].m_pBev], outbox'[client_vec[j].m_pBev])
  <2> DEFINE a == client_vec[i].m_pBev
             b == client_vec[j].m_pBev
  <2>1. /\ a \in Registered /\ b \in Registered /\ Continues(outbox[a], outbox[b])
        /\ a \in Clients /\ b \in Clients
    BY <1>2, Entries DEF Registered, TextsAreOrdered
  <2> HIDE DEF a, b
  <2>2. outbox[a] \in Outs /\ outbox[b] \in Outs
    BY <2>1 DEF TypeOK, Outs
  <2>3. CASE UNCHANGED outbox
    BY <2>1, <2>3 DEF a, b
  <2>4. CASE \E t : outbox' = [d \in Clients |-> IF d \in Registered
                                                THEN Append(outbox[d], t) ELSE outbox[d]]
    <3>1. PICK t : outbox'[a] = Append(outbox[a], t) /\ outbox'[b] = Append(outbox[b], t)
      BY <2>1, <2>4
    <3>2. Continues(Append(outbox[a], t), Append(outbox[b], t))
      BY <2>1, <2>2, SameTextSameEnd DEF Outs
    <3>3. QED
      BY <3>1, <3>2 DEF a, b
  <2>5. QED
    BY <2>3, <2>4, ReadKeepsOutboxes
<1>3. QED
  BY <1>1, <1>2 DEF TextsAreOrdered

LEMMA ErrorOrder ==
  ASSUME TypeOK, RegistryInv, TextsAreOrdered, m_bSendAll, NEW c \in Clients, error_cb(c)
  PROVE  TextsAreOrdered'
<1> DEFINE n == Len(client_vec)
<1>1. PICK it \in 1 .. n : client_vec' = Erase(client_vec, it)
  BY FailedEntry
<1>2. n \in Nat /\ DOMAIN client_vec = 1 .. n
  BY Entries
<1>3. /\ DOMAIN client_vec' = 1 .. n - 1
      /\ \A j \in 1 .. n - 1 :
           client_vec'[j] = IF j < it THEN client_vec[j] ELSE client_vec[j + 1]
  BY <1>1, <1>2 DEF Erase
<1>4. UNCHANGED outbox
  BY DEF error_cb
<1>5. ASSUME NEW i \in 1 .. n - 1, NEW j \in 1 .. n - 1, i < j
      PROVE  Continues(outbox'[client_vec'[i].m_pBev], outbox'[client_vec'[j].m_pBev])
  <2>1. \E k, l \in 1 .. n : /\ k < l
                             /\ client_vec'[i] = client_vec[k]
                             /\ client_vec'[j] = client_vec[l]
    BY <1>2, <1>3, <1>5
  <2>2. PICK k \in 1 .. n, l \in 1 .. n : /\ k < l
                                        /\ client_vec'[i] = client_vec[k]
                                        /\ client_vec'[j] = client_vec[l]
    BY <2>1
  <2>3. Continues(outbox[client_vec[k].m_pBev], outbox[client_vec[l].m_pBev])
    BY <1>2, <2>2 DEF TextsAreOrdered
  <2>4. QED
    BY <1>4, <2>2, <2>3
<1>6. QED
  BY <1>3, <1>5 DEF TextsAreOrdered

(* Clients agree on the texts: one that registered earlier has been sent   *)
(* everything a later one has been sent, in the same order.                *)
THEOREM TextsStayOrdered == Spec => []TextsAreOrdered
<1>1. Init => TextsAreOrdered
  BY DEF Init, TextsAreOrdered
<1>2. TypeOK /\ RegistryInv /\ TextsAreOrdered /\ [Next]_vars => TextsAreOrdered'
  <2> SUFFICES ASSUME TypeOK, RegistryInv, TextsAreOrdered, [Next]_vars, m_bSendAll
               PROVE  TextsAreOrdered'
    BY DEF TextsAreOrdered
  <2>1. CASE UNCHANGED <<client_vec, outbox>>
    BY <2>1 DEF TextsAreOrdered
  <2>2. ASSUME NEW c \in Clients, \E fd \in Fds : do_accept(c, fd)
        PROVE  TextsAreOrdered'
    BY <2>2, AcceptOrder
  <2>3. ASSUME NEW c \in Clients, Readable(c)
        PROVE  TextsAreOrdered'
    BY <2>3, ReadOrder
  <2>4. ASSUME NEW c \in Clients, error_cb(c)
        PROVE  TextsAreOrdered'
    BY <2>4, ErrorOrder
  <2>5. ASSUME NEW c \in Clients,
               AcceptError(c) \/ Close(c) \/ Reset(c) \/ \E m \in Messages : Send(c, m)
        PROVE  UNCHANGED <<client_vec, outbox>>
    BY <2>5 DEF AcceptError, Close, Reset, Send, registryVars
  <2>6. CASE UNCHANGED vars
    BY <2>1, <2>6 DEF vars, registryVars
  <2>7. QED
    BY <2>1, <2>2, <2>3, <2>4, <2>5, <2>6 DEF Next, Loop
<1>3. QED
  BY <1>1, <1>2, Typing, RegistryInvariance, PTL DEF Spec

-----------------------------------------------------------------------------
(* How transfers end *)

(* What is appended last is last. *)
LEMMA LastOfConcat ==
  ASSUME NEW S, NEW s \in Seq(S), NEW e \in S
  PROVE  /\ s \o <<e>> \in Seq(S) /\ Len(s \o <<e>>) = Len(s) + 1
         /\ (s \o <<e>>)[Len(s \o <<e>>)] = e
<1>1. /\ <<e>> \in Seq(S) /\ Len(<<e>>) = 1 /\ <<e>>[1] = e
  OBVIOUS
<1>2. Len(s) \in Nat
  BY LenProperties
<1> DEFINE t == <<e>>
<1> HIDE DEF t
<1>3. s \o t \in Seq(S) /\ Len(s \o t) = Len(s) + Len(t)
  BY <1>1, ConcatProperties DEF t
<1>4. (s \o t)[Len(s) + 1] = t[(Len(s) + 1) - Len(s)]
  BY <1>1, <1>2, ConcatProperties DEF t
<1>5. QED
  BY <1>1, <1>2, <1>3, <1>4 DEF t

(* A save under a name the file system takes is the last file written. *)
LEMMA SaveIsLast ==
  ASSUME NEW w \in Seq(Files), NEW k, NEW name \in Seq(Tokens),
         NEW content \in Seq(Tokens), Find(name, "*") = 0
  PROVE  LET r == w \o Save(k, name, content)
         IN  r \in Seq(Files) /\ Len(r) > Len(w) /\ r[Len(r)].path = name
<1>1. base64_decode(content) \in Seq(Bytes) /\ content \in Seq(Bytes)
  BY Base64Type, SeqMonotonic DEF Bytes
<1> DEFINE c == IF k = "file" THEN base64_decode(content) ELSE content
           e == [path |-> name, content |-> c]
<1>2. e \in Files /\ e.path = name
  BY <1>1 DEF Files
<1>3. Save(k, name, content) = <<e>>
  BY DEF Save, FileWritten
<1> HIDE DEF e
<1>4. Len(w) \in Nat
  BY LenProperties
<1>5. QED
  BY <1>2, <1>3, <1>4, LastOfConcat

LEMMA HeaderEndsInSave ==
  ASSUME TransferTypes, NEW msg \in Seq(Tokens), NEW j \in Kinds, HeaderRead(j, msg),
         NEW k \in Kinds, transFile[k], ~transFile'[k], Find(currentTransferFileName', "*") = 0
  PROVE  /\ Len(written') > Len(written)
         /\ written'[Len(written')].path = currentTransferFileName'
<1>1. /\ currentTransferFileName' = HeadName(msg)
      /\ transFile' = [transFile EXCEPT ![j] = Len(msg) >= FileBuffers]
      /\ Len(msg) < FileBuffers =>
           written' = written \o Save(j, HeadName(msg), FormatCharDatas(HeadData(msg), Marker[j]))
  BY DEF HeaderRead
<1>2. ~(Len(msg) >= FileBuffers)
  BY <1>1 DEF TransferTypes
<1>3. Len(msg) < FileBuffers
  BY <1>2, LenProperties, ServiceAssumption
<1>4. HeadName(msg) \in Seq(Tokens) /\ FormatCharDatas(HeadData(msg), Marker[j]) \in Seq(Tokens)
  BY HeadTypes, FormatCharDatasType
<1>5. written \in Seq(Files) /\ Find(HeadName(msg), "*") = 0
  BY <1>1 DEF TransferTypes
<1> DEFINE data == FormatCharDatas(HeadData(msg), Marker[j])
           r    == written \o Save(j, HeadName(msg), data)
<1> HIDE DEF data
<1>6. Len(r) > Len(written) /\ r[Len(r)].path = HeadName(msg)
  BY <1>4, <1>5, SaveIsLast DEF data
<1>7. written' = r
  BY <1>1, <1>3 DEF data
<1> HIDE DEF r
<1>8. QED
  BY <1>1, <1>6, <1>7

LEMMA BodyEndsInSave ==
  ASSUME TransferTypes, NEW msg \in Seq(Tokens), NEW j \in Kinds, BodyRead(j, msg),
         NEW k \in Kinds, transFile[k], ~transFile'[k], Find(currentTransferFileName', "*") = 0
  PROVE  /\ Len(written') > Len(written)
         /\ written'[Len(written')].path = currentTransferFileName'
<1> DEFINE log == IF j = "file" THEN FileWritten(<<"123.log">>, fileData') ELSE <<>>
           w   == written \o log
<1>1. /\ currentTransferFileName' = currentTransferFileName
      /\ transFile' = [transFile EXCEPT ![j] = Len(msg) >= FileBuffers]
      /\ Len(msg) < FileBuffers =>
           /\ fileData' = FormatCharDatas(fileData \o msg, Marker[j])
           /\ written' = w \o Save(j, currentTransferFileName, fileData')
  BY DEF BodyRead
<1>2. ~(Len(msg) >= FileBuffers)
  BY <1>1 DEF TransferTypes
<1>3. Len(msg) < FileBuffers
  BY <1>2, LenProperties, ServiceAssumption
<1>4. fileData' \in Seq(Tokens)
  <2>1. fileData \o msg \in Seq(Tokens)
    BY ConcatProperties DEF TransferTypes
  <2>2. FormatCharDatas(fileData \o msg, Marker[j]) \in Seq(Tokens)
    BY <2>1, FormatCharDatasType
  <2>3. QED
    BY <1>1, <1>3, <2>2
<1>5. /\ written \in Seq(Files) /\ currentTransferFileName \in Seq(Tokens)
      /\ Find(currentTransferFileName, "*") = 0
  BY <1>1 DEF TransferTypes
<1>6. log \in Seq(Files)
  <2>1. <<"123.log">> \in Seq(Tokens)
    BY ServiceAssumption DEF Tokens
  <2>2. QED
    BY <1>4, <2>1, SaveType, EmptySeq
<1> HIDE DEF log
<1>7. w \in Seq(Files) /\ Len(w) >= Len(written) /\ Len(written) \in Nat /\ Len(w) \in Nat
  <2>1. Len(log) \in Nat /\ Len(written) \in Nat
    BY <1>5, <1>6, LenProperties
  <2>2. QED
    BY <1>5, <1>6, <2>1, ConcatProperties
<1> DEFINE r == w \o Save(j, currentTransferFileName, fileData')
<1>8. r \in Seq(Files) /\ Len(r) > Len(w) /\ r[Len(r)].path = currentTransferFileName
  BY <1>4, <1>5, <1>7, SaveIsLast
<1>9. Len(r) \in Nat /\ written' = r
  BY <1>1, <1>3, <1>8, LenProperties
<1> HIDE DEF r, w
<1>10. QED
  BY <1>1, <1>7, <1>8, <1>9

(* Only reading opens or closes a transfer, or saves. *)
LEMMA OnlyReading ==
  ASSUME NEW c \in Clients,
         \/ \E fd \in Fds : do_accept(c, fd)
         \/ AcceptError(c) \/ error_cb(c) \/ Close(c) \/ Reset(c)
         \/ \E m \in Messages : Send(c, m)
  PROVE  UNCHANGED <<transFile, written>>
BY DEF do_accept, AcceptError, error_cb, Close, Reset, Send, transferVars

(* An open transfer, of whichever kind, is closed only by a step that      *)
(* saves under the name of the last header read, or that tries to and is   *)
(* refused by the file system (DoService.cpp, read_cb), whatever the       *)
(* clients send, and wherever it is cut.                                   *)
THEOREM TransfersEndInSave == Spec => TransferEndsInSave
<1> DEFINE Ends(k) ==
      transFile[k] /\ ~transFile'[k] =>
        \/ Find(currentTransferFileName', "*") # 0
        \/ /\ Len(written') > Len(written)
           /\ written'[Len(written')].path = currentTransferFileName'
<1>1. TypeOK /\ [Next]_vars => \A k \in Kinds : Ends(k)
  <2> SUFFICES ASSUME TypeOK, [Next]_vars, NEW k \in Kinds, transFile[k], ~transFile'[k],
                      Find(currentTransferFileName', "*") = 0
               PROVE  /\ Len(written') > Len(written)
                      /\ written'[Len(written')].path = currentTransferFileName'
    OBVIOUS
  <2>1. transFile' # transFile
    OBVIOUS
  <2>2. PICK c \in Clients : Readable(c)
    BY <2>1, OnlyReading DEF Next, Loop, vars, transferVars
  <2>3. PICK msg \in Seq(Tokens) : read_cb(c, msg)
    BY <2>2, ReadsTokens
  <2>4. PICK j \in Kinds : HeaderRead(j, msg) \/ BodyRead(j, msg)
    BY <2>1, <2>3 DEF read_cb, TextRead, transferVars
  <2>5. TransferTypes
    BY DEF TypeOK, TransferTypes, Files
  <2>6. QED
    BY <2>4, <2>5, HeaderEndsInSave, BodyEndsInSave
<1>2. QED
  BY <1>1, Typing, PTL DEF Spec, TransferEndsInSave

(* While a picture is being sent, and until a step closes its transfer,    *)
(* the service saves nothing and sends no text to a registered client: the *)
(* branch for pictures comes first (DoService.cpp, read_cb).               *)
THEOREM PicturesHoldOthersBack == Spec => PictureHoldsOthersBack
<1>1. TypeOK /\ RegistryInv /\ [Next]_vars =>
        (transFile["file"] /\ transFile'["file"] =>
           /\ UNCHANGED written
           /\ \A c \in Registered : outbox'[c] = outbox[c])
  <2> SUFFICES ASSUME TypeOK, RegistryInv, [Next]_vars, transFile["file"], transFile'["file"]
               PROVE  UNCHANGED written /\ \A c \in Registered : outbox'[c] = outbox[c]
    OBVIOUS
  <2>1. ASSUME NEW c \in Clients, Readable(c)
        PROVE  UNCHANGED <<written, outbox>>
    <3>1. PICK msg \in Seq(Tokens) : read_cb(c, msg)
      BY <2>1, ReadsTokens
    <3>2. Len(msg) \in Nat /\ FileBuffers \in Nat
      BY LenProperties, ServiceAssumption
    <3>3. "file" \in Kinds /\ Claims("file", msg) /\ \A k \in Kinds : k # "file" => Rank["file"] < Rank[k]
      BY DEF Kinds, Claims, Rank
    <3>4. ASSUME NEW k \in Kinds, TakenBy(k, msg) PROVE k = "file"
      BY <3>3, <3>4 DEF TakenBy
    <3>5. ~TextRead(c, msg)
      BY <3>3 DEF TextRead
    <3>6. ASSUME NEW k \in Kinds, HeaderRead(k, msg) \/ BodyRead(k, msg)
          PROVE  UNCHANGED <<written, outbox>>
      <4>1. k = "file"
        BY <3>4, <3>6 DEF HeaderRead, BodyRead
      <4>2. transFile' = [transFile EXCEPT !["file"] = Len(msg) >= FileBuffers]
        BY <3>6, <4>1 DEF HeaderRead, BodyRead
      <4>3. Len(msg) >= FileBuffers
        BY <4>2, <3>3 DEF TypeOK
      <4>4. ~(Len(msg) < FileBuffers)
        BY <3>2, <4>3
      <4>5. QED
        BY <3>6, <4>4 DEF HeaderRead, BodyRead
    <3>7. QED
      BY <3>1, <3>5, <3>6 DEF read_cb
  <2>2. ASSUME NEW c \in Clients, NEW fd \in Fds, do_accept(c, fd)
        PROVE  \A d \in Registered : outbox'[d] = outbox[d]
    <3>1. bevFd[c] = NoFd /\ NoFd \notin Fds /\ outbox' = [outbox EXCEPT ![c] = <<Welcome>>]
      BY <2>2, ServiceAssumption DEF RegistryInv, do_accept
    <3>2. c \notin Registered
      BY <3>1, Entries DEF RegistryInv, RegistryIsLive, Registered
    <3>3. \A d \in Registered : d \in Clients /\ d # c
      BY <3>2, Entries DEF Registered
    <3>4. QED
      BY <3>1, <3>3 DEF TypeOK
  <2>3. ASSUME NEW c \in Clients,
               \/ AcceptError(c) \/ error_cb(c) \/ Close(c) \/ Reset(c)
               \/ \E m \in Messages : Send(c, m)
        PROVE  UNCHANGED outbox
    BY <2>3 DEF AcceptError, error_cb, Close, Reset, Send
  <2>4. CASE UNCHANGED vars
    BY <2>4 DEF vars
  <2>5. QED
    BY <2>1, <2>2, <2>3, <2>4, OnlyReading DEF Next, Loop
<1>2. QED
  BY <1>1, Typing, RegistryInvariance, PTL DEF Spec, PictureHoldsOthersBack

-----------------------------------------------------------------------------
(* Strings that are cut and joined *)

(* The first place that holds t is the one Find returns. *)
LEMMA FindIs ==
  ASSUME NEW S, NEW s \in Seq(S), NEW t, NEW i \in 1 .. Len(s), s[i] = t,
         \A j \in 1 .. i - 1 : s[j] # t
  PROVE  Find(s, t) = i
<1>1. Len(s) \in Nat /\ DOMAIN s = 1 .. Len(s)
  BY LenProperties
<1>2. /\ Find(s, t) \in 0 .. Len(s)
      /\ Find(s, t) # 0 => s[Find(s, t)] = t
      /\ \A j \in 1 .. Find(s, t) - 1 : s[j] # t
      /\ Find(s, t) = 0 => \A j \in DOMAIN s : s[j] # t
  BY FindProperties
<1>3. Find(s, t) # 0
  BY <1>1, <1>2
<1>4. ~(Find(s, t) < i) /\ ~(i < Find(s, t))
  BY <1>1, <1>2, <1>3
<1>5. QED
  BY <1>1, <1>2, <1>4

(* Without t, Find returns none. *)
LEMMA FindNone ==
  ASSUME NEW s, NEW t, \A j \in DOMAIN s : s[j] # t
  PROVE  Find(s, t) = 0
BY DEF Find

(* A piece of a string, by its length and its places. *)
LEMMA PieceProperties ==
  ASSUME NEW S, NEW s \in Seq(S), NEW i \in Nat \ {0}, NEW j \in Nat,
         i <= j + 1, j <= Len(s)
  PROVE  /\ SubSeq(s, i, j) \in Seq(S)
         /\ Len(SubSeq(s, i, j)) = (j - i) + 1
         /\ DOMAIN SubSeq(s, i, j) = 1 .. (j - i) + 1
         /\ \A l \in 1 .. (j - i) + 1 : SubSeq(s, i, j)[l] = s[(i + l) - 1]
<1>1. SubSeq(s, i, j) \in Seq(S)
  BY SubSeqType
<1>2. Len(s) \in Nat
  BY LenProperties
<1>3. \A l \in i .. j : s[l] \in S
  BY <1>2, ElementOfSeq
<1>4. /\ Len(SubSeq(s, i, j)) = IF i <= j THEN (j - i) + 1 ELSE 0
      /\ \A l \in 1 .. (j - i) + 1 : SubSeq(s, i, j)[l] = s[(i + l) - 1]
  BY <1>3, SubSeqProperties
<1>5. Len(SubSeq(s, i, j)) = (j - i) + 1
  BY <1>4
<1>6. QED
  BY <1>1, <1>4, <1>5, LenProperties

(* What is left from i on, by its length and its places. *)
LEMMA FromProperties ==
  ASSUME NEW S, NEW s \in Seq(S), NEW i \in 1 .. Len(s) + 1
  PROVE  /\ From(s, i) \in Seq(S)
         /\ Len(From(s, i)) = (Len(s) - i) + 1
         /\ DOMAIN From(s, i) = 1 .. (Len(s) - i) + 1
         /\ \A l \in 1 .. (Len(s) - i) + 1 : From(s, i)[l] = s[(i + l) - 1]
<1>1. Len(s) \in Nat /\ i \in Nat \ {0} /\ i <= Len(s) + 1
  BY LenProperties
<1>2. QED
  BY <1>1, PieceProperties DEF From

(* Strings of the same length and places are the same. *)
LEMMA SameString ==
  ASSUME NEW S, NEW s \in Seq(S), NEW t \in Seq(S), Len(s) = Len(t),
         \A i \in 1 .. Len(s) : s[i] = t[i]
  PROVE  s = t
BY SeqEqual

(* Pieces that follow each other. *)
LEMMA PiecesJoin ==
  ASSUME NEW S, NEW s \in Seq(S), NEW i \in Nat \ {0}, NEW p \in Nat, NEW q \in Nat,
         i <= p + 1, p <= q, q <= Len(s)
  PROVE  SubSeq(s, i, p) \o SubSeq(s, p + 1, q) = SubSeq(s, i, q)
<1>1. Len(s) \in Nat
  BY LenProperties
<1>2. i \in 1 .. Len(s) + 1 /\ p \in i - 1 .. Len(s) /\ q \in p .. Len(s)
  BY <1>1
<1>3. QED
  BY <1>2, ConcatAdjacentSubSeq

(* What is behind the first p. *)
LEMMA RestProperties ==
  ASSUME NEW S, NEW s \in Seq(S), NEW p \in 0 .. Len(s)
  PROVE  /\ From(s, p + 1) \in Seq(S)
         /\ Len(From(s, p + 1)) = Len(s) - p
         /\ \A l \in 1 .. Len(s) - p : From(s, p + 1)[l] = s[p + l]
<1> DEFINE f == From(s, p + 1)
<1>1. Len(s) \in Nat /\ p \in Nat /\ p + 1 \in 1 .. Len(s) + 1
  BY LenProperties
<1>2. /\ f \in Seq(S) /\ Len(f) = (Len(s) - (p + 1)) + 1
      /\ \A l \in 1 .. (Len(s) - (p + 1)) + 1 : f[l] = s[((p + 1) + l) - 1]
  BY <1>1, FromProperties
<1> HIDE DEF f
<1>3. (Len(s) - (p + 1)) + 1 = Len(s) - p
  BY <1>1
<1>4. ASSUME NEW l \in 1 .. Len(s) - p PROVE f[l] = s[p + l]
  <2>1. l \in 1 .. (Len(s) - (p + 1)) + 1 /\ ((p + 1) + l) - 1 = p + l
    BY <1>1
  <2>2. QED
    BY <1>2, <2>1
<1>5. QED
  BY <1>2, <1>3, <1>4 DEF f

(* What is behind the first p and within the first q. *)
LEMMA NextProperties ==
  ASSUME NEW S, NEW s \in Seq(S), NEW p \in Nat, NEW q \in p .. Len(s)
  PROVE  /\ SubSeq(s, p + 1, q) \in Seq(S)
         /\ Len(SubSeq(s, p + 1, q)) = q - p
         /\ \A l \in 1 .. q - p : SubSeq(s, p + 1, q)[l] = s[p + l]
<1> DEFINE f == SubSeq(s, p + 1, q)
<1>1. Len(s) \in Nat /\ q \in Nat /\ p + 1 \in Nat \ {0} /\ p + 1 <= q + 1 /\ q <= Len(s)
  BY LenProperties
<1>2. /\ f \in Seq(S) /\ Len(f) = (q - (p + 1)) + 1
      /\ \A l \in 1 .. (q - (p + 1)) + 1 : f[l] = s[((p + 1) + l) - 1]
  BY <1>1, PieceProperties
<1> HIDE DEF f
<1>3. (q - (p + 1)) + 1 = q - p
  BY <1>1
<1>4. ASSUME NEW l \in 1 .. q - p PROVE f[l] = s[p + l]
  <2>1. l \in 1 .. (q - (p + 1)) + 1 /\ ((p + 1) + l) - 1 = p + l
    BY <1>1
  <2>2. QED
    BY <1>2, <2>1
<1>5. QED
  BY <1>2, <1>3, <1>4 DEF f

(* With b still to come behind a, what is in front of both. *)
LEMMA Moved ==
  ASSUME NEW S, NEW a \in Seq(S), NEW b \in Seq(S), NEW n \in 0 .. Len(b)
  PROVE  /\ a \o SubSeq(b, 1, n) \in Seq(S)
         /\ Len(a \o SubSeq(b, 1, n)) = Len(a) + n
         /\ \A l \in 1 .. Len(a) + n : (a \o SubSeq(b, 1, n))[l] = (a \o b)[l]
<1> DEFINE b1 == SubSeq(b, 1, n)
<1>1. Len(a) \in Nat /\ Len(b) \in Nat /\ n \in Nat
  BY LenProperties
<1>2. b1 \in Seq(S) /\ Len(b1) = n /\ \A l \in 1 .. n : b1[l] = b[l]
  <2>1. 1 \in Nat \ {0} /\ 1 <= n + 1 /\ n <= Len(b) /\ (n - 1) + 1 = n
    BY <1>1
  <2>2. QED
    BY <1>1, <2>1, PieceProperties
<1> HIDE DEF b1
<1>3. b1 \in Seq(S)
  BY <1>2
<1>4. /\ a \o b1 \in Seq(S) /\ Len(a \o b1) = Len(a) + Len(b1)
      /\ \A l \in 1 .. Len(a) + Len(b1) : (a \o b1)[l] = IF l <= Len(a) THEN a[l] ELSE b1[l - Len(a)]
  BY <1>3, ConcatProperties
<1>5. \A l \in 1 .. Len(a) + Len(b) : (a \o b)[l] = IF l <= Len(a) THEN a[l] ELSE b[l - Len(a)]
  BY ConcatProperties
<1>6. ASSUME NEW l \in 1 .. Len(a) + n
      PROVE  (a \o b1)[l] = (a \o b)[l]
  <2>1. l \in 1 .. Len(a) + Len(b1) /\ l \in 1 .. Len(a) + Len(b)
    BY <1>1, <1>2
  <2>2. CASE l <= Len(a)
    BY <1>4, <1>5, <2>1, <2>2
  <2>3. CASE ~(l <= Len(a))
    <3>1. l - Len(a) \in 1 .. n
      BY <1>1, <2>3
    <3>2. QED
      BY <1>2, <1>4, <1>5, <2>1, <2>3, <3>1
  <2>4. QED
    BY <2>2, <2>3
<1>7. QED
  BY <1>2, <1>4, <1>6 DEF b1

(* To go on p, and then t, is to go on p + t. *)
LEMMA RestOfRest ==
  ASSUME NEW S, NEW s \in Seq(S), NEW p \in 0 .. Len(s), NEW t \in 0 .. Len(s) - p
  PROVE  From(From(s, p + 1), t + 1) = From(s, (p + t) + 1)
<1> DEFINE f == From(s, p + 1)
           g == From(f, t + 1)
           q == p + t
           h == From(s, q + 1)
<1>1. Len(s) \in Nat /\ p \in Nat /\ t \in Nat /\ q \in 0 .. Len(s) /\ t \in 0 .. Len(s) - p
  BY LenProperties
<1>2. /\ f \in Seq(S) /\ Len(f) = Len(s) - p
      /\ \A l \in 1 .. Len(s) - p : f[l] = s[p + l]
  BY RestProperties
<1> HIDE DEF f, q
<1>3. /\ g \in Seq(S) /\ Len(g) = Len(f) - t
      /\ \A l \in 1 .. Len(f) - t : g[l] = f[t + l]
  <2>1. t \in 0 .. Len(f)
    BY <1>1, <1>2
  <2>2. QED
    BY <1>2, <2>1, RestProperties
<1>4. /\ h \in Seq(S) /\ Len(h) = Len(s) - q
      /\ \A l \in 1 .. Len(s) - q : h[l] = s[q + l]
  BY <1>1, RestProperties
<1> HIDE DEF g, h
<1>5. Len(s) - q = Len(f) - t
  BY <1>1, <1>2 DEF q
<1>6. ASSUME NEW l \in 1 .. Len(f) - t PROVE g[l] = h[l]
  <2>1. t + l \in 1 .. Len(s) - p /\ p + (t + l) = q + l
    BY <1>1, <1>2 DEF q
  <2>2. QED
    BY <1>2, <1>3, <1>4, <1>5, <2>1
<1>7. g = h
  BY <1>3, <1>4, <1>5, <1>6, SameString
<1>8. QED
  BY <1>7 DEF f, g, h, q

(* What is taken, and what is left, when n of b have come to a and t are    *)
(* taken.                                                                   *)
Taken(a, b, n, t) == SubSeq(a \o SubSeq(b, 1, n), 1, t)
Left(a, b, n, t)  == From(a \o SubSeq(b, 1, n), t + 1)

(* What is left of a and b together is what a \o b leaves. *)
LEMMA Cut ==
  ASSUME NEW S, NEW a \in Seq(S), NEW b \in Seq(S), NEW n \in 0 .. Len(b),
         NEW t \in 0 .. Len(a) + n
  PROVE  /\ Left(a, b, n, t) \o From(b, n + 1) = From(a \o b, t + 1)
         /\ Left(a, b, n, t) \in Seq(S)
         /\ Len(Left(a, b, n, t)) = (Len(a) + n) - t
         /\ From(b, n + 1) \in Seq(S)
         /\ Len(From(b, n + 1)) = Len(b) - n
<1> DEFINE buf == a \o SubSeq(b, 1, n)
           all == a \o b
           x   == From(buf, t + 1)
           y   == From(b, n + 1)
           z   == From(all, t + 1)
<1>1. Len(a) \in Nat /\ Len(b) \in Nat /\ n \in Nat /\ t \in Nat /\ t <= Len(a) + n /\ n <= Len(b)
  BY LenProperties
<1>2. /\ buf \in Seq(S) /\ Len(buf) = Len(a) + n
      /\ \A l \in 1 .. Len(a) + n : buf[l] = all[l]
  BY Moved
<1>3. /\ all \in Seq(S) /\ Len(all) = Len(a) + Len(b)
      /\ \A l \in 1 .. Len(a) + Len(b) : all[l] = IF l <= Len(a) THEN a[l] ELSE b[l - Len(a)]
  BY ConcatProperties
<1>4. /\ y \in Seq(S) /\ Len(y) = Len(b) - n
      /\ \A l \in 1 .. Len(b) - n : y[l] = b[n + l]
  BY RestProperties
<1> HIDE DEF buf, all
<1>5. /\ x \in Seq(S) /\ Len(x) = Len(buf) - t
      /\ \A l \in 1 .. Len(buf) - t : x[l] = buf[t + l]
  <2>1. t \in 0 .. Len(buf)
    BY <1>1, <1>2
  <2>2. QED
    BY <1>2, <2>1, RestProperties
<1>6. /\ z \in Seq(S) /\ Len(z) = Len(all) - t
      /\ \A l \in 1 .. Len(all) - t : z[l] = all[t + l]
  <2>1. t \in 0 .. Len(all)
    BY <1>1, <1>3
  <2>2. QED
    BY <1>3, <2>1, RestProperties
<1> HIDE DEF x, y, z
<1>7. /\ x \o y \in Seq(S) /\ Len(x \o y) = Len(x) + Len(y)
      /\ \A l \in 1 .. Len(x) + Len(y) : (x \o y)[l] = IF l <= Len(x) THEN x[l] ELSE y[l - Len(x)]
  <2>1. x \in Seq(S) /\ y \in Seq(S)
    BY <1>4, <1>5
  <2>2. QED
    BY <2>1, ConcatProperties
<1>8. /\ Len(x) = (Len(a) + n) - t /\ Len(y) = Len(b) - n
      /\ Len(z) = (Len(a) + Len(b)) - t /\ Len(x \o y) = (Len(a) + Len(b)) - t
  <2>1. Len(x) = (Len(a) + n) - t /\ Len(y) = Len(b) - n /\ Len(z) = (Len(a) + Len(b)) - t
    BY <1>2, <1>3, <1>4, <1>5, <1>6
  <2>2. Len(x \o y) = Len(x) + Len(y)
    BY <1>7
  <2>3. QED
    BY <1>1, <2>1, <2>2
<1>9. ASSUME NEW l \in 1 .. Len(x \o y)
      PROVE  (x \o y)[l] = z[l]
  <2>0. l \in Nat /\ l >= 1 /\ l <= (Len(a) + Len(b)) - t
    BY <1>1, <1>8
  <2>1. l \in 1 .. Len(x) + Len(y) /\ l \in 1 .. Len(all) - t
    BY <1>1, <1>3, <1>8, <2>0
  <2>2. z[l] = all[t + l]
    BY <1>6, <2>1
  <2>3. CASE l <= Len(x)
    <3>1. l \in 1 .. Len(buf) - t
      BY <1>1, <1>2, <1>8, <2>0, <2>3
    <3>2. t + l \in 1 .. Len(a) + n
      BY <1>1, <1>8, <2>0, <2>3
    <3>3. (x \o y)[l] = x[l] /\ x[l] = buf[t + l] /\ buf[t + l] = all[t + l]
      BY <1>2, <1>5, <1>7, <2>1, <2>3, <3>1, <3>2
    <3>4. QED
      BY <2>2, <3>3
  <2>4. CASE ~(l <= Len(x))
    <3> DEFINE j == l - Len(x)
    <3>1. /\ j \in 1 .. Len(b) - n
          /\ t + l \in 1 .. Len(a) + Len(b) /\ ~(t + l <= Len(a))
          /\ (t + l) - Len(a) = n + j
      BY <1>1, <1>8, <2>0, <2>4
    <3>2. (x \o y)[l] = y[j] /\ y[j] = b[n + j]
      BY <1>4, <1>7, <2>1, <2>4, <3>1
    <3>3. all[t + l] = b[n + j]
      BY <1>3, <3>1
    <3>4. QED
      BY <2>2, <3>2, <3>3
  <2>5. QED
    BY <2>3, <2>4
<1>10. x \o y = z
  <2>1. x \o y \in Seq(S) /\ z \in Seq(S) /\ Len(x \o y) = Len(z)
    BY <1>6, <1>7, <1>8
  <2>2. QED
    BY <1>9, <2>1, SameString
<1>11. QED
  BY <1>4, <1>5, <1>8, <1>10 DEF buf, all, x, y, z, Left

(* a, and b behind it, are what is left of m after p. *)
IsRest(m, p, a, b) == From(m, p + 1) = a \o b

(* A read takes what comes next of a message and leaves what comes after.  *)
LEMMA ReadCut ==
  ASSUME NEW S, NEW a \in Seq(S), NEW b \in Seq(S), NEW m \in Seq(S), NEW p \in 0 .. Len(m),
         IsRest(m, p, a, b),
         NEW n \in 0 .. Len(b), NEW t \in 0 .. Len(a) + n
  PROVE  /\ p + t <= Len(m) /\ Len(a) + Len(b) = Len(m) - p
         /\ Taken(a, b, n, t) = SubSeq(m, p + 1, p + t)
         /\ IsRest(m, p + t, Left(a, b, n, t), From(b, n + 1))
<1> DEFINE buf == a \o SubSeq(b, 1, n)
           u   == SubSeq(buf, 1, t)
           v   == SubSeq(m, p + 1, p + t)
<1>1. Len(a) \in Nat /\ Len(b) \in Nat /\ Len(m) \in Nat /\ p \in Nat /\ n \in Nat /\ t \in Nat
      /\ t <= Len(a) + n /\ n <= Len(b) /\ p <= Len(m)
  BY LenProperties
<1>2. /\ Len(From(m, p + 1)) = Len(m) - p
      /\ \A l \in 1 .. Len(m) - p : From(m, p + 1)[l] = m[p + l]
  BY RestProperties
<1>3. Len(a \o b) = Len(a) + Len(b)
  BY ConcatProperties
<1>4. Len(a) + Len(b) = Len(m) - p
  BY <1>2, <1>3 DEF IsRest
<1>5. p + t <= Len(m) /\ t \in 0 .. Len(m) - p
  BY <1>1, <1>4
<1>6. /\ buf \in Seq(S) /\ Len(buf) = Len(a) + n
      /\ \A l \in 1 .. Len(a) + n : buf[l] = (a \o b)[l]
  BY Moved
<1> HIDE DEF buf
<1>7. /\ u \in Seq(S) /\ Len(u) = t /\ \A l \in 1 .. t : u[l] = buf[l]
  <2>1. 1 \in Nat \ {0} /\ 1 <= t + 1 /\ t <= Len(buf) /\ (t - 1) + 1 = t
    BY <1>1, <1>6
  <2>2. /\ u \in Seq(S) /\ Len(u) = t
        /\ \A l \in 1 .. t : u[l] = buf[(1 + l) - 1]
    BY <1>1, <1>6, <2>1, PieceProperties
  <2>3. QED
    BY <2>2
<1>8. /\ v \in Seq(S) /\ Len(v) = t /\ \A l \in 1 .. t : v[l] = m[p + l]
  <2> DEFINE q == p + t
             w == SubSeq(m, p + 1, q)
  <2>1. q \in p .. Len(m) /\ q - p = t
    BY <1>1, <1>5
  <2> HIDE DEF q
  <2>2. /\ w \in Seq(S) /\ Len(w) = q - p
        /\ \A l \in 1 .. q - p : w[l] = m[p + l]
    BY <1>1, <2>1, NextProperties
  <2>3. w = v
    BY DEF q
  <2> HIDE DEF w
  <2>4. QED
    BY <2>1, <2>2, <2>3
<1> HIDE DEF u, v
<1>9. ASSUME NEW l \in 1 .. t PROVE u[l] = v[l]
  <2>1. l \in 1 .. Len(a) + n /\ l \in 1 .. Len(m) - p
    BY <1>1, <1>4
  <2>2. QED
    BY <1>2, <1>6, <1>7, <1>8, <2>1 DEF IsRest
<1>10. u = v
  BY <1>7, <1>8, <1>9, SameString
<1>11. IsRest(m, p + t, Left(a, b, n, t), From(b, n + 1))
  <2>1. Left(a, b, n, t) \o From(b, n + 1) = From(a \o b, t + 1)
    BY Cut
  <2>2. From(From(m, p + 1), t + 1) = From(m, (p + t) + 1)
    BY <1>5, RestOfRest
  <2>3. QED
    BY <2>1, <2>2 DEF IsRest
<1>12. QED
  BY <1>4, <1>5, <1>10, <1>11 DEF buf, u, v, Taken

-----------------------------------------------------------------------------
(* Messages *)

(* A C string is the front of what it is made of. *)
LEMMA CStringPrefix ==
  ASSUME NEW S, NEW s \in Seq(S)
  PROVE  /\ CString(s) \in Seq(S)
         /\ Len(CString(s)) \in 0 .. Len(s)
         /\ \A l \in 1 .. Len(CString(s)) : CString(s)[l] = s[l]
<1>1. Find(s, "NUL") \in 0 .. Len(s) /\ Len(s) \in Nat
  BY FindProperties, LenProperties
<1>2. CASE Find(s, "NUL") = 0
  BY <1>1, <1>2 DEF CString
<1>3. CASE Find(s, "NUL") # 0
  <2> DEFINE j == Find(s, "NUL") - 1
             f == SubSeq(s, 1, j)
  <2>1. j \in Nat /\ 1 \in Nat \ {0} /\ 1 <= j + 1 /\ j <= Len(s) /\ (j - 1) + 1 = j
    BY <1>1, <1>3
  <2> HIDE DEF j
  <2>2. f \in Seq(S) /\ Len(f) = j /\ \A l \in 1 .. j : f[l] = s[(1 + l) - 1]
    BY <2>1, PieceProperties
  <2>3. CString(s) = f
    BY <1>3 DEF CString, j
  <2> HIDE DEF f
  <2>4. QED
    BY <1>1, <2>1, <2>2, <2>3
<1>4. QED
  BY <1>2, <1>3

(* The first read of a message. *)
FirstLength(m) == AtMost(Len(m), FileBuffers)

(* The first read of a message is not empty. *)
LEMMA FirstReads ==
  ASSUME PoliteMessages, NEW m \in Messages
  PROVE  /\ m \in Seq(Tokens) /\ Len(m) \in Nat \ {0} /\ m # <<>>
         /\ FirstLength(m) \in 1 .. Len(m) /\ FirstLength(m) <= FileBuffers
         /\ SubSeq(m, 1, FirstLength(m)) \in Seq(Tokens)
         /\ Len(SubSeq(m, 1, FirstLength(m))) = FirstLength(m)
         /\ \A l \in 1 .. FirstLength(m) : SubSeq(m, 1, FirstLength(m))[l] = m[l]
         /\ FirstRead(m) = CString(SubSeq(m, 1, FirstLength(m)))
<1>1. m \in Seq(Tokens) /\ m # <<>>
  BY ServiceAssumption DEF PoliteMessages
<1>2. Len(m) \in Nat \ {0}
  BY <1>1, LenProperties, EmptySeq
<1> DEFINE n == FirstLength(m)
           f == SubSeq(m, 1, n)
<1>3. n \in 1 .. Len(m) /\ n <= FileBuffers
  BY <1>2, ServiceAssumption DEF FirstLength, AtMost
<1>4. FirstRead(m) = CString(f)
  BY DEF FirstRead, FirstLength
<1> HIDE DEF n
<1>5. n \in Nat /\ 1 \in Nat \ {0} /\ 1 <= n + 1 /\ n <= Len(m) /\ (n - 1) + 1 = n
  BY <1>2, <1>3
<1>6. f \in Seq(Tokens) /\ Len(f) = n /\ \A l \in 1 .. n : f[l] = m[(1 + l) - 1]
  BY <1>1, <1>5, PieceProperties
<1>7. \A l \in 1 .. n : f[l] = m[l]
  BY <1>5, <1>6
<1>8. QED
  BY <1>1, <1>2, <1>3, <1>4, <1>6, <1>7 DEF n

(* The kinds and their markers. *)
LEMMA Marks ==
  /\ Kinds \cap Markers = {}
  /\ \A k \in Kinds : Marker[k] \in Markers
  /\ Marker["file"] = "#" /\ Marker["dile"] = "*" /\ Marker["iile"] = "$"
BY DEF Kinds, Markers, Marker

(* Where an upload's header ends. *)
LEMMA HeadPlace ==
  ASSUME PoliteMessages, NEW m \in Uploads
  PROVE  /\ m \in Messages /\ m[1] \in Kinds
         /\ HeadLength(m) \in 2 .. FirstLength(m)
         /\ HeadLength(m) \in 1 .. Len(FirstRead(m))
         /\ m[HeadLength(m)] = Marker[m[1]]
         /\ \A l \in 1 .. HeadLength(m) - 1 : m[l] # Marker[m[1]]
<1> DEFINE h == HeadLength(m)
           n == FirstLength(m)
           f == SubSeq(m, 1, n)
           c == FirstRead(m)
<1>1. m \in Messages /\ m[1] \in Kinds
  BY DEF Uploads
<1>2. /\ m \in Seq(Tokens) /\ Len(m) \in Nat \ {0}
      /\ n \in 1 .. Len(m) /\ f \in Seq(Tokens) /\ Len(f) = n /\ c = CString(f)
  BY <1>1, FirstReads
<1>3. h \in DOMAIN c
  BY DEF PoliteMessages, IsFound
<1> HIDE DEF n, f, c
<1>4. c \in Seq(Tokens) /\ Len(c) \in 0 .. Len(f)
  BY <1>2, CStringPrefix
<1>5. h \in 1 .. Len(c)
  BY <1>3, <1>4, LenProperties
<1>6. h \in 1 .. n
  BY <1>2, <1>4, <1>5
<1>7. /\ h # 0 => m[h] = Marker[m[1]]
      /\ \A l \in 1 .. h - 1 : m[l] # Marker[m[1]]
  BY <1>2, FindProperties DEF HeadLength
<1>8. m[h] = Marker[m[1]]
  BY <1>6, <1>7
<1>9. h # 1
  BY <1>1, <1>8, Marks
<1>10. QED
  BY <1>1, <1>2, <1>5, <1>6, <1>7, <1>8, <1>9 DEF n, c

(* paraseHead finds the end of the header, and the type. *)
LEMMA HeadParsed ==
  ASSUME PoliteMessages, NEW m \in Uploads
  PROVE  LET first == SubSeq(m, 1, FirstLength(m))
         IN  /\ HeadEnd(first) = HeadLength(m)
             /\ HeadMarker(CString(first)) = Marker[m[1]]
             /\ MsgType(first) = m[1]
             /\ ~HeadThrows(first)
<1> DEFINE h == HeadLength(m)
           n == FirstLength(m)
           f == SubSeq(m, 1, n)
           c == FirstRead(m)
           k == m[1]
<1>1. /\ m \in Messages /\ k \in Kinds
      /\ h \in 2 .. n /\ h \in 1 .. Len(c) /\ m[h] = Marker[k]
      /\ \A l \in 1 .. h - 1 : m[l] # Marker[k]
  BY HeadPlace
<1>2. /\ m \in Seq(Tokens) /\ Len(m) \in Nat \ {0}
      /\ n \in 1 .. Len(m) /\ f \in Seq(Tokens) /\ Len(f) = n /\ c = CString(f)
      /\ \A l \in 1 .. n : f[l] = m[l]
  BY <1>1, FirstReads
<1>3. \A i \in DOMAIN c : c[i] \notin Before[k]
  BY DEF PoliteMessages, IsFound
<1> HIDE DEF h, n, f, c, k
<1>4. /\ c \in Seq(Tokens) /\ Len(c) \in 0 .. Len(f) /\ DOMAIN c = 1 .. Len(c)
      /\ \A l \in 1 .. Len(c) : c[l] = f[l]
  BY <1>2, CStringPrefix, LenProperties
<1>5. \A l \in 1 .. h : c[l] = m[l]
  BY <1>1, <1>2, <1>4
<1>6. Find(c, Marker[k]) = h
  <2>1. c[h] = Marker[k] /\ \A l \in 1 .. h - 1 : c[l] # Marker[k]
    BY <1>1, <1>5
  <2>2. QED
    BY <1>1, <1>4, <2>1, FindIs
<1>7. h # 0
  BY <1>1
<1>8. HeadMarker(c) = Marker[k]
  <2>1. CASE k = "file"
    BY <1>6, <1>7, <2>1, Marks DEF HeadMarker
  <2>2. CASE k = "iile"
    <3>1. Find(c, "#") = 0
      BY <1>3, <2>2, FindNone DEF Before
    <3>2. QED
      BY <1>6, <1>7, <2>2, <3>1, Marks DEF HeadMarker
  <2>3. CASE k = "dile"
    <3>1. Find(c, "#") = 0 /\ Find(c, "$") = 0
      BY <1>3, <2>3, FindNone DEF Before
    <3>2. QED
      BY <2>3, <3>1, Marks DEF HeadMarker
  <2>4. QED
    BY <1>1, <2>1, <2>2, <2>3 DEF Kinds
<1>9. HeadEnd(f) = h
  BY <1>2, <1>6, <1>8 DEF HeadEnd
<1>10. f[1] = k /\ Len(f) > 1 /\ 1 \in DOMAIN f
  BY <1>1, <1>2, LenProperties DEF k
<1>11. k \notin Markers /\ k \notin Letters
  BY <1>1, Marks DEF Letters, Kinds
<1>12. MsgType(f) = k
  BY <1>1, <1>10, <1>11 DEF MsgType, Parsed
<1>13. ~HeadThrows(f)
  <2>1. 1 \in 1 .. h - 1
    BY <1>1
  <2>2. QED
    BY <1>9, <1>10, <1>11, <2>1 DEF HeadThrows
<1>14. QED
  BY <1>2, <1>8, <1>9, <1>12, <1>13 DEF h, n, f, c, k

(* A piece of the start of a string is a piece of the string. *)
LEMMA PieceOfStart ==
  ASSUME NEW S, NEW s \in Seq(S), NEW n \in 0 .. Len(s), NEW i \in Nat \ {0}, NEW j \in Nat,
         i <= j + 1, j <= n
  PROVE  SubSeq(SubSeq(s, 1, n), i, j) = SubSeq(s, i, j)
<1> DEFINE f == SubSeq(s, 1, n)
           g == SubSeq(f, i, j)
           h == SubSeq(s, i, j)
<1>1. Len(s) \in Nat /\ n \in Nat /\ 1 \in Nat \ {0} /\ 1 <= n + 1 /\ n <= Len(s)
      /\ (n - 1) + 1 = n /\ j <= Len(s)
  BY LenProperties
<1>2. f \in Seq(S) /\ Len(f) = n /\ \A l \in 1 .. n : f[l] = s[(1 + l) - 1]
  BY <1>1, PieceProperties
<1> HIDE DEF f
<1>3. g \in Seq(S) /\ Len(g) = (j - i) + 1
      /\ \A l \in 1 .. (j - i) + 1 : g[l] = f[(i + l) - 1]
  BY <1>2, PieceProperties
<1>4. h \in Seq(S) /\ Len(h) = (j - i) + 1
      /\ \A l \in 1 .. (j - i) + 1 : h[l] = s[(i + l) - 1]
  BY <1>1, PieceProperties
<1> HIDE DEF g, h
<1>5. ASSUME NEW l \in 1 .. (j - i) + 1 PROVE g[l] = h[l]
  <2>1. (i + l) - 1 \in 1 .. n /\ (1 + ((i + l) - 1)) - 1 = (i + l) - 1
    BY <1>1
  <2>2. f[(i + l) - 1] = s[(i + l) - 1]
    BY <1>2, <2>1
  <2>3. QED
    BY <1>3, <1>4, <2>2
<1>6. g = h
  BY <1>3, <1>4, <1>5, SameString
<1>7. QED
  BY <1>6 DEF f, g, h

(* What the transfer of m holds after p of it have been read: a picture's  *)
(* header is cut off at once, the others' at the end.                      *)
DataStart(m) == IF m[1] = "file" THEN HeadLength(m) + 1 ELSE 1
Collected(m, p) == SubSeq(m, DataStart(m), p)

(* The first read gives the name, and what the transfer starts with. *)
LEMMA HeadTaken ==
  ASSUME PoliteMessages, NEW m \in Uploads
  PROVE  /\ HeadName(SubSeq(m, 1, FirstLength(m))) = Path[m]
         /\ HeadData(SubSeq(m, 1, FirstLength(m))) = Collected(m, FirstLength(m))
<1> DEFINE h == HeadLength(m)
           n == FirstLength(m)
           f == SubSeq(m, 1, n)
<1>1. m \in Messages /\ m[1] \in Kinds /\ h \in 2 .. n
  BY HeadPlace
<1>2. /\ m \in Seq(Tokens) /\ Len(m) \in Nat \ {0} /\ n \in 1 .. Len(m)
      /\ f \in Seq(Tokens) /\ Len(f) = n
  BY <1>1, FirstReads
<1>3. HeadEnd(f) = h /\ HeadMarker(CString(f)) = Marker[m[1]]
  BY HeadParsed
<1>4. Path[m] = SubSeq(m, 2, h - 1)
  BY DEF Path
<1>5. HeadName(f) = SubSeq(f, 2, h - 1) /\ HeadEnd(f) # 0
  <2>1. HeadEnd(f) # 0
    <3> HIDE DEF f, h
    <3>1. QED
      BY <1>1, <1>2, <1>3
  <2>2. HeadName(f) = SubSeq(f, 2, HeadEnd(f) - 1)
    BY <2>1 DEF HeadName
  <2>3. QED
    BY <1>3, <2>1, <2>2
<1> HIDE DEF h, n
<1>6. n \in 0 .. Len(m)
  BY <1>2
<1>7. SubSeq(f, 2, h - 1) = SubSeq(m, 2, h - 1)
  <2>1. 2 \in Nat \ {0} /\ h - 1 \in Nat /\ 2 <= (h - 1) + 1 /\ h - 1 <= n
    BY <1>1, <1>2
  <2>2. QED
    BY <1>2, <1>6, <2>1, PieceOfStart
<1>8. HeadData(f) = Collected(m, n)
  <2>1. CASE m[1] = "file"
    <3>1. HeadData(f) = From(f, h + 1)
      BY <1>3, <1>5, <2>1, Marks DEF HeadData
    <3>2. From(f, h + 1) = SubSeq(f, h + 1, n)
      BY <1>2 DEF From
    <3>3. h + 1 \in Nat \ {0} /\ n \in Nat /\ h + 1 <= n + 1 /\ n <= n
      BY <1>1, <1>2
    <3>4. SubSeq(f, h + 1, n) = SubSeq(m, h + 1, n)
      BY <1>2, <1>6, <3>3, PieceOfStart
    <3>5. Collected(m, n) = SubSeq(m, h + 1, n)
      BY <2>1 DEF Collected, DataStart, h
    <3>6. QED
      BY <3>1, <3>2, <3>4, <3>5
  <2>2. CASE m[1] # "file"
    <3>1. Marker[m[1]] # "#"
      BY <1>1, <2>2 DEF Kinds, Marker
    <3>2. HeadData(f) = f
      BY <1>3, <1>5, <3>1 DEF HeadData
    <3>3. QED
      BY <2>2, <3>2 DEF Collected, DataStart
  <2>3. QED
    BY <2>1, <2>2
<1>9. QED
  BY <1>4, <1>5, <1>7, <1>8 DEF n

(* What the transfer holds grows by what is read. *)
LEMMA CollectedGrows ==
  ASSUME PoliteMessages, NEW m \in Uploads, NEW p \in FirstLength(m) .. Len(m), NEW q \in p .. Len(m)
  PROVE  Collected(m, p) \o SubSeq(m, p + 1, q) = Collected(m, q)
<1> DEFINE i == DataStart(m)
<1>1. m \in Messages /\ HeadLength(m) \in 2 .. FirstLength(m)
  BY HeadPlace
<1>2. m \in Seq(Tokens) /\ Len(m) \in Nat /\ FirstLength(m) \in 1 .. Len(m)
  BY <1>1, FirstReads
<1>3. i \in Nat \ {0} /\ i <= p + 1 /\ p \in Nat /\ q \in Nat /\ p <= q /\ q <= Len(m)
  BY <1>1, <1>2 DEF DataStart
<1> HIDE DEF i
<1>4. SubSeq(m, i, p) \o SubSeq(m, p + 1, q) = SubSeq(m, i, q)
  BY <1>2, <1>3, PiecesJoin
<1>5. QED
  BY <1>4 DEF Collected, i

(* FormatCharDatas leaves the file of a whole upload. *)
LEMMA CollectedAll ==
  ASSUME PoliteMessages, NEW m \in Uploads
  PROVE  FormatCharDatas(Collected(m, Len(m)), Marker[m[1]]) = From(m, HeadLength(m) + 1)
<1> DEFINE h == HeadLength(m)
           d == From(m, h + 1)
<1>1. m \in Messages /\ m[1] \in Kinds /\ h \in 2 .. FirstLength(m)
  BY HeadPlace
<1>2. m \in Seq(Tokens) /\ Len(m) \in Nat /\ FirstLength(m) \in 1 .. Len(m)
  BY <1>1, FirstReads
<1>3. CASE m[1] = "file"
  <2>1. Collected(m, Len(m)) = d
    BY <1>3 DEF Collected, DataStart, From
  <2>2. Find(d, "#") = 0 /\ Marker[m[1]] = "#"
    BY <1>3, Marks DEF PoliteMessages, IsTaken
  <2>3. d \in Seq(Tokens)
    <3>1. h + 1 \in Nat \ {0}
      BY <1>1
    <3>2. QED
      BY <1>2, <3>1, FromType
  <2>4. FormatCharDatas(d, "#") = From(d, 1)
    BY <2>2 DEF FormatCharDatas
  <2>5. From(d, 1) = d
    BY <2>3, SubSeqFull DEF From
  <2>6. QED
    BY <2>1, <2>2, <2>4, <2>5
<1>4. CASE m[1] # "file"
  <2>1. Collected(m, Len(m)) = m
    BY <1>2, <1>4, SubSeqFull DEF Collected, DataStart
  <2>2. QED
    BY <2>1 DEF FormatCharDatas, HeadLength
<1>5. QED
  BY <1>3, <1>4

(* What is saved of it is what the store promises. *)
Filed(m) == [path |-> Path[m], content |-> Content[m]]

(* The file system takes the name: Save writes the file. *)
LEMMA SavedAsPromised ==
  ASSUME PoliteMessages, NEW m \in Uploads
  PROVE  Save(m[1], Path[m], From(m, HeadLength(m) + 1)) = <<Filed(m)>>
<1> DEFINE d == From(m, HeadLength(m) + 1)
           c == IF m[1] = "file" THEN base64_decode(d) ELSE d
<1>1. Find(Path[m], "*") = 0
  BY DEF PoliteMessages, IsTaken
<1>2. Save(m[1], Path[m], d) = <<[path |-> Path[m], content |-> c]>>
  BY <1>1 DEF Save, FileWritten
<1>3. Content[m] = c
  BY DEF Content
<1>4. QED
  BY <1>2, <1>3 DEF Filed

(* What the store promises is a file, and not the log. *)
LEMMA FiledType ==
  ASSUME PoliteMessages, NEW m \in Uploads
  PROVE  Filed(m) \in Files /\ Filed(m).path # Log /\ Path[m] \in Seq(Tokens)
<1> DEFINE d == From(m, HeadLength(m) + 1)
<1>1. m \in Messages /\ HeadLength(m) \in 2 .. FirstLength(m)
  BY HeadPlace
<1>2. m \in Seq(Tokens) /\ Len(m) \in Nat /\ FirstLength(m) \in 1 .. Len(m)
  BY <1>1, FirstReads
<1>3. Path[m] \in Seq(Tokens)
  <2>1. HeadLength(m) - 1 \in Nat /\ 2 \in Nat \ {0} /\ 2 <= (HeadLength(m) - 1) + 1
        /\ HeadLength(m) - 1 <= Len(m)
    BY <1>1, <1>2
  <2>2. SubSeq(m, 2, HeadLength(m) - 1) \in Seq(Tokens)
    BY <1>2, <2>1, PieceProperties
  <2>3. QED
    BY <2>2 DEF Path
<1>4. d \in Seq(Tokens)
  <2>1. HeadLength(m) + 1 \in Nat \ {0}
    BY <1>1, <1>2
  <2>2. QED
    BY <1>2, <2>1, FromType
<1>5. base64_decode(d) \in Seq(Bytes) /\ d \in Seq(Bytes)
  BY <1>4, Base64Type, SeqMonotonic DEF Bytes
<1>6. Content[m] = IF m[1] = "file" THEN base64_decode(d) ELSE d
  BY DEF Content
<1> HIDE DEF d
<1>7. Content[m] \in Seq(Bytes)
  BY <1>5, <1>6
<1>8. Path[m] # Log
  BY DEF PoliteMessages, IsTaken
<1>9. QED
  BY <1>3, <1>7, <1>8 DEF Filed, Files

-----------------------------------------------------------------------------
(* Numbers *)

(* One more, one less. *)
LEMMA OneMore ==
  ASSUME NEW x \in Nat, NEW y \in Nat
  PROVE  /\ x * y \in Nat /\ (x + 1) * y = x * y + y /\ 0 * y = 0 /\ 1 * y = y
         /\ x # 0 => (x - 1) * y = x * y - y /\ y <= x * y
<1>1. x * y \in Nat /\ (x + 1) * y = x * y + y /\ 0 * y = 0 /\ 1 * y = y
  OBVIOUS
<1>2. ASSUME x # 0 PROVE (x - 1) * y = x * y - y /\ y <= x * y
  <2>1. x - 1 \in Nat /\ ((x - 1) + 1) * y = (x - 1) * y + y
    BY <1>2
  <2>2. (x - 1) + 1 = x
    OBVIOUS
  <2>3. (x - 1) * y \in Nat
    BY <2>1
  <2> DEFINE z == (x - 1) * y
             w == x * y
  <2>4. w = z + y /\ z \in Nat
    BY <2>1, <2>2, <2>3
  <2> HIDE DEF z, w
  <2>5. z = w - y /\ y <= w
    BY <2>4
  <2>6. QED
    BY <2>5 DEF z, w
<1>3. QED
  BY <1>1, <1>2

(* r full reads and a short one are to come, with a in the buffer and b not *)
(* yet: a full read of F from arrivals of S leaves one less, and the last   *)
(* read takes everything.                                                   *)
LEMMA FullRead ==
  ASSUME NEW S \in Nat \ {0}, NEW F \in Nat \ {0}, F <= S,
         NEW a \in Nat, NEW b \in Nat, NEW r \in Nat \ {0},
         r * S < b, a + b < (r + 1) * F
  PROVE  /\ AtMost(b, S) = S /\ AtMost(a + S, F) = F /\ S < b
         /\ (r - 1) * S < b - S
         /\ ((a + S) - F) + (b - S) < r * F
<1>1. S <= r * S /\ (r - 1) * S = r * S - S /\ r * S \in Nat
  BY OneMore
<1>2. (r + 1) * F = r * F + F /\ r * F \in Nat
  BY OneMore
<1> DEFINE x == r * S
           y == r * F
<1>3. S <= x /\ (r - 1) * S = x - S /\ x \in Nat /\ y \in Nat /\ x < b /\ a + b < y + F
  BY <1>1, <1>2
<1> HIDE DEF x, y
<1>4. S < b /\ AtMost(b, S) = S
  BY <1>3 DEF AtMost
<1>5. AtMost(a + S, F) = F
  BY DEF AtMost
<1>6. x - S < b - S /\ ((a + S) - F) + (b - S) < y
  BY <1>3
<1>7. QED
  BY <1>3, <1>4, <1>5, <1>6 DEF y

(* No full read is to come: the next one takes all. *)
LEMMA LastRead ==
  ASSUME NEW S \in Nat \ {0}, NEW F \in Nat \ {0}, F <= S,
         NEW a \in Nat, NEW b \in Nat, 0 * S < b, a + b < (0 + 1) * F
  PROVE  AtMost(b, S) = b /\ AtMost(a + b, F) = a + b /\ 0 < b /\ a + b < F
<1>1. 0 * S = 0 /\ (0 + 1) * F = F
  BY OneMore
<1>2. 0 < b /\ a + b < F
  BY <1>1
<1>3. QED
  BY <1>2 DEF AtMost

-----------------------------------------------------------------------------
(* What is so between two messages, and within one *)

(* No transfer is open. *)
Idle == \A j \in Kinds : ~transFile[j]

(* Nothing of anyone else's is to come. *)
Others(c) == \A d \in Clients \ {c} : stream[d] = <<>> /\ input[d] = <<>>

(* k full reads of c's message have been made, and r are to come before    *)
(* the short one.                                                          *)
Underway(c, k, r) ==
  /\ asked \in Messages /\ phase[c] = "open" /\ Others(c)
  /\ k * FileBuffers < Len(asked)
  /\ IsRest(asked, k * FileBuffers, input[c], stream[c])
  /\ r * SocketRead < Len(stream[c])
  /\ Len(input[c]) + Len(stream[c]) < (r + 1) * FileBuffers
  /\ k = 0 => Idle
  /\ k # 0 => /\ asked \in Uploads
              /\ transFile = [j \in Kinds |-> j = asked[1]]
              /\ currentTransferFileName = Path[asked]
              /\ fileData = Collected(asked, k * FileBuffers)

(* What the next read takes of it. *)
ReadTo(k, r) == IF r = 0 THEN Len(asked) ELSE (k + 1) * FileBuffers

(* The two sizes: a read is no larger than what arrives for it. *)
LEMMA Sizes ==
  ASSUME PoliteMessages
  PROVE  SocketRead \in Nat \ {0} /\ FileBuffers \in Nat \ {0} /\ FileBuffers <= SocketRead
BY ServiceAssumption DEF PoliteMessages

(* The arrival and the read. *)
LEMMA ReadStep ==
  ASSUME PoliteMessages, TypeOK, ~Fragmented, NEW c \in Clients, Readable(c)
  PROVE  LET n == AtMost(Len(stream[c]), SocketRead)
             t == AtMost(Len(input[c] \o SubSeq(stream[c], 1, n)), FileBuffers)
         IN  /\ stream' = [stream EXCEPT ![c] = From(stream[c], n + 1)]
             /\ input' = [input EXCEPT ![c] = Left(input[c], stream[c], n, t)]
             /\ read_cb(c, Taken(input[c], stream[c], n, t))
             /\ n \in 1 .. Len(stream[c])
             /\ Len(input[c] \o SubSeq(stream[c], 1, n)) = Len(input[c]) + n
<1> DEFINE N == AtMost(Len(stream[c]), SocketRead)
<1>1. PICK n \in 1 .. N :
        /\ n = N
        /\ LET buf   == input[c] \o SubSeq(stream[c], 1, n)
               taken == AtMost(Len(buf), FileBuffers)
           IN  /\ stream' = [stream EXCEPT ![c] = From(stream[c], n + 1)]
               /\ input' = [input EXCEPT ![c] = From(buf, taken + 1)]
               /\ read_cb(c, SubSeq(buf, 1, taken))
  BY DEF Readable
<1>2. stream[c] \in Seq(Tokens) /\ input[c] \in Seq(Tokens) /\ Len(stream[c]) \in Nat
  BY LenProperties DEF TypeOK
<1>3. N \in 1 .. Len(stream[c]) /\ N \in 0 .. Len(stream[c])
  BY <1>1, <1>2, Sizes DEF AtMost
<1> HIDE DEF N
<1>4. Len(input[c] \o SubSeq(stream[c], 1, N)) = Len(input[c]) + N
  BY <1>2, <1>3, Moved
<1>5. QED
  BY <1>1, <1>3, <1>4 DEF Taken, Left, N

(* A full read takes the next FileBuffers of the message. *)
LEMMA FullReadStep ==
  ASSUME PoliteMessages, TypeOK, ~Fragmented, NEW c \in Clients, NEW k \in Nat, NEW r \in Nat \ {0},
         Underway(c, k, r), Readable(c)
  PROVE  /\ read_cb(c, SubSeq(asked, k * FileBuffers + 1, (k + 1) * FileBuffers))
         /\ (k + 1) * FileBuffers < Len(asked)
         /\ IsRest(asked, (k + 1) * FileBuffers, input'[c], stream'[c])
         /\ (r - 1) * SocketRead < Len(stream'[c])
         /\ Len(input'[c]) + Len(stream'[c]) < r * FileBuffers
         /\ Others(c)'
<1> DEFINE a == input[c]
           b == stream[c]
           S == SocketRead
           F == FileBuffers
           p == k * F
<1>1. /\ asked \in Messages /\ p < Len(asked) /\ IsRest(asked, p, a, b)
      /\ r * S < Len(b) /\ Len(a) + Len(b) < (r + 1) * F /\ Others(c)
  BY DEF Underway
<1>2. /\ asked \in Seq(Tokens) /\ Len(asked) \in Nat
      /\ a \in Seq(Tokens) /\ b \in Seq(Tokens) /\ Len(a) \in Nat /\ Len(b) \in Nat
  BY <1>1, FirstReads, LenProperties DEF TypeOK
<1>3. S \in Nat \ {0} /\ F \in Nat \ {0} /\ F <= S
  BY Sizes
<1>4. p \in Nat /\ (k + 1) * F = p + F
  BY <1>3, OneMore
<1>5. /\ AtMost(Len(b), S) = S /\ AtMost(Len(a) + S, F) = F /\ S < Len(b)
      /\ (r - 1) * S < Len(b) - S
      /\ ((Len(a) + S) - F) + (Len(b) - S) < r * F
  <2> HIDE DEF S, F, a, b, p
  <2>1. QED
    BY <1>1, <1>2, <1>3, FullRead
<1>6. /\ stream' = [stream EXCEPT ![c] = From(b, S + 1)]
      /\ input' = [input EXCEPT ![c] = Left(a, b, S, F)]
      /\ read_cb(c, Taken(a, b, S, F))
  <2>1. LET n == AtMost(Len(b), S)
            t == AtMost(Len(a \o SubSeq(b, 1, n)), F)
        IN  /\ stream' = [stream EXCEPT ![c] = From(b, n + 1)]
            /\ input' = [input EXCEPT ![c] = Left(a, b, n, t)]
            /\ read_cb(c, Taken(a, b, n, t))
            /\ Len(a \o SubSeq(b, 1, n)) = Len(a) + n
    BY ReadStep
  <2>2. QED
    BY <1>5, <2>1
<1>7. stream'[c] = From(b, S + 1) /\ input'[c] = Left(a, b, S, F)
  BY <1>6 DEF TypeOK
<1>8. Others(c)'
  BY <1>1, <1>6 DEF Others, TypeOK
<1> HIDE DEF S, F, a, b, p
<1>9. S \in 0 .. Len(b) /\ F \in 0 .. Len(a) + S /\ p \in 0 .. Len(asked)
  BY <1>1, <1>2, <1>3, <1>4, <1>5
<1>10. /\ Len(Left(a, b, S, F)) = (Len(a) + S) - F
       /\ Len(From(b, S + 1)) = Len(b) - S
  <2>1. Len(Left(a, b, S, F)) = (Len(a) + S) - F
    BY <1>2, <1>9, Cut
  <2>2. Len(From(b, S + 1)) = Len(b) - S
    BY <1>2, <1>9, RestProperties
  <2>3. QED
    BY <2>1, <2>2
<1>11. /\ p + F <= Len(asked) /\ Len(a) + Len(b) = Len(asked) - p
       /\ Taken(a, b, S, F) = SubSeq(asked, p + 1, p + F)
       /\ IsRest(asked, p + F, Left(a, b, S, F), From(b, S + 1))
  BY <1>1, <1>2, <1>9, ReadCut
<1>12. p + F < Len(asked)
  BY <1>2, <1>3, <1>4, <1>5, <1>11
<1>13. read_cb(c, SubSeq(asked, p + 1, (k + 1) * F))
  BY <1>4, <1>6, <1>11
<1>14. IsRest(asked, (k + 1) * F, input'[c], stream'[c])
  BY <1>4, <1>7, <1>11
<1>15. (r - 1) * S < Len(stream'[c]) /\ Len(input'[c]) + Len(stream'[c]) < r * F
  BY <1>5, <1>7, <1>10
<1>16. QED
  BY <1>4, <1>8, <1>12, <1>13, <1>14, <1>15 DEF S, F, p

(* A string without length is empty. *)
LEMMA EmptyRest ==
  ASSUME NEW S, NEW s \in Seq(S), Len(s) = 0
  PROVE  s = <<>>
BY EmptySeq

(* The short read takes the rest and leaves nothing. *)
LEMMA LastReadStep ==
  ASSUME PoliteMessages, TypeOK, ~Fragmented, NEW c \in Clients, NEW k \in Nat, Underway(c, k, 0), Readable(c)
  PROVE  /\ read_cb(c, SubSeq(asked, k * FileBuffers + 1, Len(asked)))
         /\ Len(asked) - k * FileBuffers < FileBuffers
         /\ \A d \in Clients : stream'[d] = <<>> /\ input'[d] = <<>>
<1> DEFINE a == input[c]
           b == stream[c]
           S == SocketRead
           F == FileBuffers
           p == k * F
           n == Len(b)
           t == Len(a) + n
<1>1. /\ asked \in Messages /\ p < Len(asked) /\ IsRest(asked, p, a, b)
      /\ 0 * S < Len(b) /\ Len(a) + Len(b) < (0 + 1) * F /\ Others(c)
  BY DEF Underway
<1>2. /\ asked \in Seq(Tokens) /\ Len(asked) \in Nat
      /\ a \in Seq(Tokens) /\ b \in Seq(Tokens) /\ Len(a) \in Nat /\ Len(b) \in Nat
  BY <1>1, FirstReads, LenProperties DEF TypeOK
<1>3. S \in Nat \ {0} /\ F \in Nat \ {0} /\ F <= S
  BY Sizes
<1>4. p \in Nat
  BY <1>3, OneMore
<1>5. AtMost(Len(b), S) = n /\ AtMost(Len(a) + n, F) = t /\ 0 < n /\ t < F
  <2> HIDE DEF S, F, a, b, p
  <2>1. QED
    BY <1>1, <1>2, <1>3, LastRead
<1>6. /\ stream' = [stream EXCEPT ![c] = From(b, n + 1)]
      /\ input' = [input EXCEPT ![c] = Left(a, b, n, t)]
      /\ read_cb(c, Taken(a, b, n, t))
  <2>1. LET l == AtMost(Len(b), S)
            u == AtMost(Len(a \o SubSeq(b, 1, l)), F)
        IN  /\ stream' = [stream EXCEPT ![c] = From(b, l + 1)]
            /\ input' = [input EXCEPT ![c] = Left(a, b, l, u)]
            /\ read_cb(c, Taken(a, b, l, u))
            /\ Len(a \o SubSeq(b, 1, l)) = Len(a) + l
    BY ReadStep
  <2>2. QED
    BY <1>5, <2>1
<1>7. stream'[c] = From(b, n + 1) /\ input'[c] = Left(a, b, n, t)
  BY <1>6 DEF TypeOK
<1>8. Others(c)'
  BY <1>1, <1>6 DEF Others, TypeOK
<1> HIDE DEF S, F, a, b, p, n, t
<1>9. n \in 0 .. Len(b) /\ t \in 0 .. Len(a) + n /\ p \in 0 .. Len(asked)
  BY <1>1, <1>2, <1>3, <1>4 DEF n, t
<1>10. /\ Left(a, b, n, t) \in Seq(Tokens) /\ Len(Left(a, b, n, t)) = (Len(a) + n) - t
       /\ From(b, n + 1) \in Seq(Tokens) /\ Len(From(b, n + 1)) = Len(b) - n
  BY <1>2, <1>9, Cut
<1>11. /\ Len(a) + Len(b) = Len(asked) - p
       /\ Taken(a, b, n, t) = SubSeq(asked, p + 1, p + t)
  BY <1>1, <1>2, <1>9, ReadCut
<1>12. p + t = Len(asked)
  BY <1>2, <1>4, <1>11 DEF n, t
<1>13. Left(a, b, n, t) = <<>> /\ From(b, n + 1) = <<>>
  <2>1. (Len(a) + n) - t = 0 /\ Len(b) - n = 0
    BY <1>2 DEF n, t
  <2>2. QED
    BY <1>10, <2>1, EmptyRest
<1>14. \A d \in Clients : stream'[d] = <<>> /\ input'[d] = <<>>
  BY <1>7, <1>8, <1>13 DEF Others
<1>15. read_cb(c, SubSeq(asked, p + 1, Len(asked)))
  BY <1>6, <1>11, <1>12
<1>16. Len(asked) - p < F
  BY <1>2, <1>4, <1>5, <1>11 DEF n, t
<1>17. QED
  BY <1>14, <1>15, <1>16 DEF F, p

-----------------------------------------------------------------------------
(* Which branch of read_cb takes a read *)

(* Only a read that begins with a kind is a header. *)
LEMMA NoType ==
  ASSUME NEW msg, msg[1] \notin Kinds
  PROVE  \A k \in Kinds : MsgType(msg) # k
<1>1. \A k \in Kinds : k # ""
  BY Zenon DEF Kinds
<1>2. MsgType(msg) = ""
  BY Zenon DEF MsgType
<1>3. QED
  BY <1>1, <1>2, Zenon

(* Only a read that begins with a marker throws. *)
LEMMA NoThrow ==
  ASSUME NEW msg \in Seq(Tokens), msg[1] \notin Markers
  PROVE  ~HeadThrows(msg)
<1> DEFINE c == CString(msg)
           t == HeadMarker(c)
<1>1. /\ c \in Seq(Tokens) /\ Len(c) \in Nat
      /\ \A l \in 1 .. Len(c) : c[l] = msg[l]
  BY CStringPrefix, LenProperties
<1>2. t \in Markers
  BY DEF HeadMarker, Markers
<1> HIDE DEF t, c
<1>3. Find(c, t) \in 0 .. Len(c) /\ (Find(c, t) # 0 => c[Find(c, t)] = t)
  BY <1>1, FindProperties
<1>4. Find(c, t) # 1
  BY <1>1, <1>2, <1>3
<1>5. HeadEnd(msg) # 1
  BY <1>4 DEF HeadEnd, c, t
<1>6. ASSUME HeadEnd(msg) \in 1 .. 4
      PROVE  \E i \in 1 .. HeadEnd(msg) - 1 : msg[i] \notin Markers
  BY <1>5, <1>6
<1>7. QED
  BY <1>6, Zenon DEF HeadThrows

(* A message of no kind is a text. *)
LEMMA TextHandled ==
  ASSUME PoliteMessages, Idle, NEW m \in Messages \ Uploads, NEW c \in Clients, read_cb(c, m)
  PROVE  TextRead(c, m)
<1>1. m \in Seq(Tokens) /\ m[1] \notin Markers /\ m[1] \notin Kinds
  BY FirstReads DEF PoliteMessages, Uploads
<1>2. ~HeadThrows(m)
  BY <1>1, NoThrow
<1>3. \A k \in Kinds : ~Claims(k, m)
  BY <1>1, NoType DEF Claims, Idle
<1>4. \A k \in Kinds : ~HeaderRead(k, m) /\ ~BodyRead(k, m)
  BY <1>3 DEF HeaderRead, BodyRead, TakenBy
<1>5. QED
  BY <1>2, <1>4 DEF read_cb

(* The first read of an upload is a header of its kind. *)
LEMMA HeaderHandled ==
  ASSUME PoliteMessages, Idle, NEW m \in Uploads, NEW c \in Clients,
         read_cb(c, SubSeq(m, 1, FirstLength(m)))
  PROVE  HeaderRead(m[1], SubSeq(m, 1, FirstLength(m)))
<1> DEFINE f == SubSeq(m, 1, FirstLength(m))
<1>1. m[1] \in Kinds /\ MsgType(f) = m[1] /\ ~HeadThrows(f)
  BY HeadPlace, HeadParsed
<1> HIDE DEF f
<1>2. \A k \in Kinds : Claims(k, f) <=> k = m[1]
  BY <1>1 DEF Claims, Idle
<1>3. ~TextRead(c, f)
  BY <1>1, <1>2 DEF TextRead
<1>4. \A k \in Kinds : HeaderRead(k, f) \/ BodyRead(k, f) => k = m[1]
  BY <1>2 DEF HeaderRead, BodyRead, TakenBy
<1>5. \A k \in Kinds : ~BodyRead(k, f)
  BY <1>1, <1>4 DEF BodyRead
<1>6. \E k \in Kinds : HeaderRead(k, f) \/ BodyRead(k, f)
  BY <1>1, <1>3 DEF read_cb, f
<1>7. HeaderRead(m[1], f)
  BY <1>4, <1>5, <1>6
<1>8. QED
  BY <1>7 DEF f

(* Within a transfer a read that begins as no header is its data. *)
LEMMA BodyHandled ==
  ASSUME NEW K \in Kinds, transFile = [j \in Kinds |-> j = K], NEW c \in Clients,
         NEW msg \in Seq(Tokens), msg[1] \notin Kinds, msg[1] \notin Markers, read_cb(c, msg)
  PROVE  BodyRead(K, msg)
<1>1. ~HeadThrows(msg) /\ \A k \in Kinds : MsgType(msg) # k
  BY NoType, NoThrow
<1>2. \A k \in Kinds : Claims(k, msg) <=> k = K
  BY <1>1 DEF Claims
<1>3. ~TextRead(c, msg)
  BY <1>2 DEF TextRead
<1>4. \A k \in Kinds : HeaderRead(k, msg) \/ BodyRead(k, msg) => k = K
  BY <1>2 DEF HeaderRead, BodyRead, TakenBy
<1>5. \A k \in Kinds : ~HeaderRead(k, msg)
  BY <1>1 DEF HeaderRead
<1>6. \E k \in Kinds : HeaderRead(k, msg) \/ BodyRead(k, msg)
  BY <1>1, <1>3 DEF read_cb
<1>7. QED
  BY <1>4, <1>5, <1>6

-----------------------------------------------------------------------------
(* What it does with it *)

(* An upload in one read: it is saved. *)
LEMMA ShortHeader ==
  ASSUME PoliteMessages, TypeOK, Idle, NEW m \in Uploads, Len(m) < FileBuffers,
         HeaderRead(m[1], SubSeq(m, 1, FirstLength(m)))
  PROVE  Idle' /\ written' = written \o <<Filed(m)>> /\ UNCHANGED outbox
<1> DEFINE n == FirstLength(m)
           f == SubSeq(m, 1, n)
           K == m[1]
<1>1. m \in Messages /\ K \in Kinds
  BY HeadPlace
<1>2. Len(f) = n /\ Len(m) \in Nat
  BY <1>1, FirstReads
<1>3. n = Len(m)
  BY DEF FirstLength, AtMost
<1>4. HeadName(f) = Path[m] /\ HeadData(f) = Collected(m, Len(m))
  BY <1>3, HeadTaken
<1> HIDE DEF n, f
<1>5. HeaderRead(K, f)
  BY DEF f, n
<1>6. /\ Len(f) < FileBuffers /\ ~(Len(f) >= FileBuffers)
  BY <1>2, <1>3, Sizes
<1>7. /\ transFile' = [transFile EXCEPT ![K] = Len(f) >= FileBuffers]
      /\ written' = written \o Save(K, HeadName(f), FormatCharDatas(HeadData(f), Marker[K]))
      /\ UNCHANGED outbox
  BY <1>5, <1>6 DEF HeaderRead
<1>8. FormatCharDatas(HeadData(f), Marker[K]) = From(m, HeadLength(m) + 1)
  BY <1>4, CollectedAll
<1>9. written' = written \o <<Filed(m)>>
  BY <1>4, <1>7, <1>8, SavedAsPromised
<1>10. Idle'
  BY <1>6, <1>7 DEF Idle, TypeOK
<1>11. QED
  BY <1>7, <1>9, <1>10

(* A longer one: its transfer is open. *)
LEMMA LongHeader ==
  ASSUME PoliteMessages, TypeOK, Idle, NEW m \in Uploads, FileBuffers <= Len(m),
         HeaderRead(m[1], SubSeq(m, 1, FirstLength(m)))
  PROVE  /\ FirstLength(m) = FileBuffers
         /\ transFile' = [j \in Kinds |-> j = m[1]]
         /\ currentTransferFileName' = Path[m]
         /\ fileData' = Collected(m, FileBuffers)
         /\ UNCHANGED <<written, outbox>>
<1> DEFINE n == FirstLength(m)
           f == SubSeq(m, 1, n)
           K == m[1]
<1>1. m \in Messages /\ K \in Kinds
  BY HeadPlace
<1>2. Len(f) = n /\ Len(m) \in Nat
  BY <1>1, FirstReads
<1>3. n = FileBuffers
  BY <1>2, Sizes DEF FirstLength, AtMost
<1>4. HeadName(f) = Path[m] /\ HeadData(f) = Collected(m, FileBuffers)
  BY <1>3, HeadTaken
<1> HIDE DEF n, f
<1>5. HeaderRead(K, f)
  BY DEF f, n
<1>6. ~(Len(f) < FileBuffers) /\ Len(f) >= FileBuffers
  BY <1>2, <1>3, Sizes
<1>7. /\ transFile' = [transFile EXCEPT ![K] = Len(f) >= FileBuffers]
      /\ currentTransferFileName' = HeadName(f) /\ fileData' = HeadData(f)
      /\ UNCHANGED <<written, outbox>>
  BY <1>5, <1>6 DEF HeaderRead
<1>8. transFile' = [j \in Kinds |-> j = K]
  <2>1. transFile \in [Kinds -> BOOLEAN] /\ \A j \in Kinds : transFile[j] = FALSE
    BY DEF TypeOK, Idle
  <2>2. (Len(f) >= FileBuffers) = TRUE
    BY <1>6
  <2>3. transFile' = [transFile EXCEPT ![K] = TRUE]
    BY <1>7, <2>2
  <2>4. \A j \in Kinds : transFile'[j] = (j = K)
    BY <1>1, <2>1, <2>3
  <2>5. QED
    BY <2>1, <2>3, <2>4
<1>9. QED
  BY <1>3, <1>4, <1>7, <1>8 DEF n

(* A short read in an open transfer ends it: the file is saved, a picture  *)
(* also to the log.                                                        *)
LogEntry(data) == [path |-> Log, content |-> data]

(* The log's name is one the file system takes. *)
LEMMA LogWritten ==
  ASSUME NEW data
  PROVE  FileWritten(Log, data) = <<LogEntry(data)>>
<1>1. Log = <<"123.log">> /\ DOMAIN Log = {1} /\ Log[1] = "123.log"
  BY DEF Log
<1>2. "123.log" # "*"
  BY ServiceAssumption, Marks DEF Markers
<1>3. \A j \in DOMAIN Log : Log[j] # "*"
  BY <1>1, <1>2
<1>4. Find(Log, "*") = 0
  BY <1>3, FindNone
<1>5. QED
  BY <1>4 DEF FileWritten, LogEntry

LEMMA ShortBody ==
  ASSUME PoliteMessages, TypeOK, NEW m \in Uploads, NEW p \in FirstLength(m) .. Len(m),
         transFile = [j \in Kinds |-> j = m[1]], currentTransferFileName = Path[m],
         fileData = Collected(m, p),
         Len(SubSeq(m, p + 1, Len(m))) < FileBuffers,
         BodyRead(m[1], SubSeq(m, p + 1, Len(m)))
  PROVE  /\ Idle' /\ UNCHANGED outbox
         /\ \/ written' = written \o <<>> \o <<Filed(m)>>
            \/ \E data \in Seq(Tokens) :
                 written' = written \o <<LogEntry(data)>> \o <<Filed(m)>>
<1> DEFINE msg == SubSeq(m, p + 1, Len(m))
           K   == m[1]
           d   == From(m, HeadLength(m) + 1)
           log == IF K = "file" THEN FileWritten(<<"123.log">>, fileData') ELSE <<>>
<1>1. m \in Messages /\ K \in Kinds /\ HeadLength(m) \in 2 .. FirstLength(m)
  BY HeadPlace
<1>2. m \in Seq(Tokens) /\ Len(m) \in Nat /\ Len(m) \in p .. Len(m)
  BY <1>1, FirstReads
<1>3. fileData \o msg = Collected(m, Len(m))
  BY <1>2, CollectedGrows
<1>4. Len(msg) < FileBuffers /\ BodyRead(K, msg)
  OBVIOUS
<1>5. ~(Len(msg) >= FileBuffers)
  <2>1. msg \in Seq(Tokens)
    <3>1. p + 1 \in Nat \ {0}
      BY <1>1, <1>2, FirstReads
    <3>2. QED
      BY <1>2, <3>1, SubSeqType
  <2>2. Len(msg) \in Nat
    BY <2>1, LenProperties
  <2> HIDE DEF msg
  <2>3. QED
    BY <1>4, <2>2, Sizes
<1> HIDE DEF msg
<1>6. /\ transFile' = [transFile EXCEPT ![K] = Len(msg) >= FileBuffers]
      /\ fileData' = FormatCharDatas(fileData \o msg, Marker[K])
      /\ written' = written \o log \o Save(K, currentTransferFileName, fileData')
      /\ UNCHANGED outbox
  BY <1>4 DEF BodyRead
<1>7. fileData' = d
  BY <1>3, <1>6, CollectedAll
<1>8. Save(K, currentTransferFileName, fileData') = <<Filed(m)>>
  BY <1>7, SavedAsPromised
<1>9. log = <<>> \/ log = <<LogEntry(d)>>
  <2>1. CASE K = "file"
    <3>1. FileWritten(Log, d) = <<LogEntry(d)>>
      BY LogWritten
    <3>2. QED
      BY <1>7, <2>1, <3>1 DEF Log
  <2>2. CASE K # "file"
    BY <2>2
  <2>3. QED
    BY <2>1, <2>2
<1>10. d \in Seq(Tokens)
  <2>1. HeadLength(m) + 1 \in Nat \ {0}
    BY <1>1, <1>2
  <2>2. QED
    BY <1>2, <2>1, FromType
<1>11. Idle'
  BY <1>1, <1>5, <1>6 DEF Idle
<1> HIDE DEF log, d
<1>12. \/ written' = written \o <<>> \o <<Filed(m)>>
       \/ written' = written \o <<LogEntry(d)>> \o <<Filed(m)>>
  BY <1>6, <1>8, <1>9
<1>13. QED
  BY <1>6, <1>10, <1>11, <1>12

(* A full one is kept. *)
LEMMA LongBody ==
  ASSUME PoliteMessages, TypeOK, NEW m \in Uploads, NEW p \in FirstLength(m) .. Len(m), NEW q \in p .. Len(m),
         transFile = [j \in Kinds |-> j = m[1]], currentTransferFileName = Path[m],
         fileData = Collected(m, p), q - p = FileBuffers,
         BodyRead(m[1], SubSeq(m, p + 1, q))
  PROVE  /\ transFile' = [j \in Kinds |-> j = m[1]]
         /\ currentTransferFileName' = Path[m]
         /\ fileData' = Collected(m, q)
         /\ UNCHANGED <<written, outbox>>
<1> DEFINE msg == SubSeq(m, p + 1, q)
           K   == m[1]
<1>1. m \in Messages /\ K \in Kinds
  BY HeadPlace
<1>2. m \in Seq(Tokens) /\ Len(m) \in Nat /\ p \in Nat /\ FirstLength(m) \in 1 .. Len(m)
  BY <1>1, FirstReads
<1>3. fileData \o msg = Collected(m, q)
  BY CollectedGrows
<1>4. Len(msg) = q - p
  BY <1>2, NextProperties
<1>5. BodyRead(K, msg)
  OBVIOUS
<1> HIDE DEF msg
<1>6. (Len(msg) >= FileBuffers) = TRUE /\ ~(Len(msg) < FileBuffers)
  BY <1>4, Sizes
<1>7. /\ transFile' = [transFile EXCEPT ![K] = TRUE]
      /\ fileData' = fileData \o msg
      /\ UNCHANGED <<currentTransferFileName, written, outbox>>
  BY <1>5, <1>6 DEF BodyRead
<1>8. transFile' = [j \in Kinds |-> j = K]
  BY <1>1, <1>7
<1>9. QED
  BY <1>3, <1>7, <1>8

-----------------------------------------------------------------------------
(* The history *)

(* What a step has added to a string. *)
LEMMA BehindWritten ==
  ASSUME NEW S, NEW w \in Seq(S), NEW x \in Seq(S)
  PROVE  From(w \o x, Len(w) + 1) = x
<1> DEFINE all == w \o x
           y   == From(all, Len(w) + 1)
<1>1. Len(w) \in Nat /\ Len(x) \in Nat
  BY LenProperties
<1>2. /\ all \in Seq(S) /\ Len(all) = Len(w) + Len(x)
      /\ \A l \in 1 .. Len(w) + Len(x) : all[l] = IF l <= Len(w) THEN w[l] ELSE x[l - Len(w)]
  BY ConcatProperties
<1> HIDE DEF all
<1>3. /\ y \in Seq(S) /\ Len(y) = Len(all) - Len(w)
      /\ \A l \in 1 .. Len(all) - Len(w) : y[l] = all[Len(w) + l]
  <2>1. Len(w) \in 0 .. Len(all)
    BY <1>1, <1>2
  <2>2. QED
    BY <1>2, <2>1, RestProperties
<1> HIDE DEF y
<1>4. Len(y) = Len(x) /\ Len(all) - Len(w) = Len(x)
  BY <1>1, <1>2, <1>3
<1>5. ASSUME NEW l \in 1 .. Len(x) PROVE y[l] = x[l]
  <2>1. /\ Len(w) + l \in 1 .. Len(w) + Len(x) /\ ~(Len(w) + l <= Len(w))
        /\ (Len(w) + l) - Len(w) = l
    BY <1>1
  <2>2. all[Len(w) + l] = x[l]
    BY <1>2, <2>1
  <2>3. QED
    BY <1>3, <1>4, <2>2
<1>6. y = x
  BY <1>3, <1>4, <1>5, SameString
<1>7. QED
  BY <1>6 DEF y, all

(* A step that writes nothing stores nothing. *)
LEMMA NothingStored ==
  ASSUME NEW w \in Seq(Files)
  PROVE  WithoutLog(From(w, Len(w) + 1)) = <<>>
<1>1. <<>> \in Seq(Files) /\ w \o <<>> = w
  BY EmptySeq, ConcatEmptySeq
<1>2. From(w \o <<>>, Len(w) + 1) = <<>>
  BY <1>1, BehindWritten
<1>3. QED
  BY <1>1, <1>2 DEF WithoutLog

(* A step that writes a file stores it. *)
LEMMA OneStored ==
  ASSUME NEW w \in Seq(Files), NEW e \in Files, e.path # Log
  PROVE  WithoutLog(From(w \o <<e>>, Len(w) + 1)) = <<e>>
<1> DEFINE x == <<e>>
<1>1. x \in Seq(Files) /\ x # <<>> /\ x[1] = e
  OBVIOUS
<1> HIDE DEF x
<1>2. From(w \o x, Len(w) + 1) = x
  BY <1>1, BehindWritten
<1>3. WithoutLog(x) = x
  BY <1>1 DEF WithoutLog
<1>4. QED
  BY <1>2, <1>3 DEF x

(* A step that writes the log and a file stores the file. *)
LEMMA LoggedStored ==
  ASSUME NEW w \in Seq(Files), NEW l \in Files, l.path = Log, NEW e \in Files
  PROVE  WithoutLog(From(w \o <<l>> \o <<e>>, Len(w) + 1)) = <<e>>
<1> DEFINE x   == <<l>>
           y   == <<e>>
           wx  == w \o x
           all == wx \o y
           f   == From(all, Len(w) + 1)
<1>1. x \in Seq(Files) /\ y \in Seq(Files) /\ Len(x) = 1 /\ x[1] = l /\ Len(y) = 1 /\ y[1] = e
  OBVIOUS
<1> HIDE DEF x, y
<1>2. Len(w) \in Nat
  BY LenProperties
<1>3. /\ wx \in Seq(Files) /\ Len(wx) = Len(w) + 1
      /\ \A i \in 1 .. Len(w) + Len(x) : wx[i] = IF i <= Len(w) THEN w[i] ELSE x[i - Len(w)]
  BY <1>1, ConcatProperties
<1> HIDE DEF wx
<1>4. /\ all \in Seq(Files) /\ Len(all) = Len(wx) + 1
      /\ \A i \in 1 .. Len(wx) + Len(y) : all[i] = IF i <= Len(wx) THEN wx[i] ELSE y[i - Len(wx)]
  <2>1. wx \in Seq(Files) /\ y \in Seq(Files) /\ Len(y) = 1
    BY <1>1, <1>3
  <2>2. /\ all \in Seq(Files) /\ Len(all) = Len(wx) + Len(y)
        /\ \A i \in 1 .. Len(wx) + Len(y) : all[i] = IF i <= Len(wx) THEN wx[i] ELSE y[i - Len(wx)]
    BY <2>1, ConcatProperties
  <2>3. QED
    BY <2>1, <2>2
<1> HIDE DEF all
<1>5. Len(all) = Len(w) + 2 /\ Len(all) - Len(w) = 2 /\ Len(w) \in 0 .. Len(all)
  BY <1>2, <1>3, <1>4
<1>6. /\ f \in Seq(Files) /\ Len(f) = Len(all) - Len(w)
      /\ \A i \in 1 .. Len(all) - Len(w) : f[i] = all[Len(w) + i]
  BY <1>4, <1>5, RestProperties
<1> HIDE DEF f
<1>7. f[1] = l
  <2>1. /\ Len(w) + 1 \in 1 .. Len(wx) + Len(y) /\ Len(w) + 1 <= Len(wx)
        /\ Len(w) + 1 \in 1 .. Len(w) + Len(x) /\ ~(Len(w) + 1 <= Len(w))
        /\ (Len(w) + 1) - Len(w) = 1
    BY <1>1, <1>2, <1>3
  <2>2. all[Len(w) + 1] = l
    BY <1>1, <1>3, <1>4, <2>1
  <2>3. QED
    BY <1>5, <1>6, <2>2
<1>8. f[2] = e
  <2>1. /\ Len(w) + 2 \in 1 .. Len(wx) + Len(y) /\ ~(Len(w) + 2 <= Len(wx))
        /\ (Len(w) + 2) - Len(wx) = 1
    BY <1>1, <1>2, <1>3
  <2>2. all[Len(w) + 2] = e
    BY <1>1, <1>4, <2>1
  <2>3. QED
    BY <1>5, <1>6, <2>2
<1>9. f # <<>> /\ Len(f) = 2
  <2>1. Len(f) = 2
    BY <1>5, <1>6
  <2>2. QED
    BY <2>1, EmptySeq
<1>10. Tail(f) = y
  <2> DEFINE r == Tail(f)
  <2>1. /\ r \in Seq(Files) /\ Len(r) = Len(f) - 1
        /\ \A i \in 1 .. Len(r) : r[i] = f[i + 1]
    BY <1>6, <1>9, HeadTailProperties
  <2> HIDE DEF r
  <2>2. Len(r) = 1 /\ r[1] = y[1]
    BY <1>1, <1>8, <1>9, <2>1
  <2>3. \A i \in 1 .. Len(r) : r[i] = y[i]
    BY <2>2
  <2>4. r = y
    BY <1>1, <2>1, <2>2, <2>3, SameString
  <2>5. QED
    BY <2>4 DEF r
<1>11. WithoutLog(f) = y
  BY <1>7, <1>9, <1>10 DEF WithoutLog
<1>12. QED
  BY <1>11 DEF f, all, wx, x, y

-----------------------------------------------------------------------------
(* The reads of an upload *)

(* A read behind the first begins neither as a header nor with a marker. *)
LEMMA LaterRead ==
  ASSUME PoliteMessages, NEW m \in Uploads, NEW k \in Nat \ {0}, k * FileBuffers < Len(m),
         NEW q \in k * FileBuffers + 1 .. Len(m)
  PROVE  LET msg == SubSeq(m, k * FileBuffers + 1, q)
         IN  /\ msg \in Seq(Tokens) /\ Len(msg) = q - k * FileBuffers
             /\ msg[1] \notin Kinds /\ msg[1] \notin Markers
             /\ k * FileBuffers \in FirstLength(m) .. Len(m)
<1> DEFINE F   == FileBuffers
           p   == k * F
           msg == SubSeq(m, p + 1, q)
<1>1. m \in Messages
  BY HeadPlace
<1>2. /\ m \in Seq(Tokens) /\ Len(m) \in Nat
      /\ FirstLength(m) \in 1 .. Len(m) /\ FirstLength(m) <= F
  BY <1>1, FirstReads
<1>3. F \in Nat \ {0}
  BY Sizes
<1>4. p \in Nat /\ F <= p /\ k <= p
  <2>1. p \in Nat /\ F <= p
    BY <1>3, OneMore
  <2>2. p = F * k
    BY <1>3
  <2>3. k <= F * k
    BY <1>3, OneMore
  <2>4. QED
    BY <2>1, <2>2, <2>3
<1>5. GoesOn(m)
  BY <1>1 DEF PoliteMessages
<1> HIDE DEF F
<1>6. \A i \in 1 .. Len(m) : 1 + i * F <= Len(m) => m[1 + i * F] \notin Kinds \cup Markers
  BY <1>5 DEF GoesOn, F
<1>7. 1 + k * F <= Len(m) => m[1 + k * F] \notin Kinds \cup Markers
  <2>1. k \in 1 .. Len(m)
    BY <1>2, <1>4 DEF F
  <2>2. QED
    BY <1>6, <2>1
<1>8. q \in p + 1 .. Len(m) /\ p < Len(m)
  BY DEF F
<1> HIDE DEF p
<1>9. /\ msg \in Seq(Tokens) /\ Len(msg) = q - p
      /\ \A l \in 1 .. q - p : msg[l] = m[p + l]
  <2>1. q \in p .. Len(m)
    BY <1>4, <1>8
  <2>2. QED
    BY <1>2, <1>4, <2>1, NextProperties
<1>10. msg[1] = m[p + 1]
  <2>1. 1 \in 1 .. q - p
    BY <1>2, <1>4, <1>8
  <2>2. QED
    BY <1>9, <2>1
<1>11. m[p + 1] \notin Kinds \cup Markers
  <2>1. 1 + p <= Len(m) /\ 1 + p = p + 1
    BY <1>2, <1>4, <1>8
  <2>2. m[1 + p] \notin Kinds \cup Markers
    BY <1>7, <2>1 DEF p
  <2>3. QED
    BY <2>1, <2>2
<1>12. p \in FirstLength(m) .. Len(m)
  BY <1>2, <1>3, <1>4, <1>8
<1>13. QED
  BY <1>9, <1>10, <1>11, <1>12 DEF p, F

(* A full read keeps the upload under way. *)
LEMMA FullReadKeeps ==
  ASSUME PoliteMessages, TypeOK, ~Fragmented, NEW c \in Clients, NEW k \in Nat, NEW r \in Nat \ {0},
         Underway(c, k, r), Readable(c), UNCHANGED asked
  PROVE  Underway(c, k + 1, r - 1)' /\ UNCHANGED <<written, outbox>>
<1> DEFINE F == FileBuffers
           p == k * F
           q == (k + 1) * F
           m == asked
<1>1. /\ read_cb(c, SubSeq(m, p + 1, q)) /\ q < Len(m)
      /\ IsRest(m, q, input'[c], stream'[c])
      /\ (r - 1) * SocketRead < Len(stream'[c])
      /\ Len(input'[c]) + Len(stream'[c]) < r * F
      /\ Others(c)'
  BY FullReadStep
<1>2. F \in Nat \ {0} /\ p \in Nat /\ q = p + F /\ q \in Nat
  BY Sizes, OneMore
<1>3. /\ m \in Messages /\ phase[c] = "open" /\ (k = 0 => Idle)
      /\ k # 0 => /\ m \in Uploads
                  /\ transFile = [j \in Kinds |-> j = m[1]]
                  /\ currentTransferFileName = Path[m]
                  /\ fileData = Collected(m, p)
  BY DEF Underway
<1>4. /\ m \in Seq(Tokens) /\ Len(m) \in Nat
      /\ m \notin Uploads => Len(m) < F
  BY <1>3, FirstReads DEF PoliteMessages
<1> DEFINE After == /\ transFile' = [j \in Kinds |-> j = m[1]]
                    /\ currentTransferFileName' = Path[m]
                    /\ fileData' = Collected(m, q)
                    /\ UNCHANGED <<written, outbox>>
<1>5. m \in Uploads /\ F <= Len(m)
  <2> HIDE DEF F, p, q
  <2>1. F <= Len(m) /\ ~(Len(m) < F)
    BY <1>1, <1>2, <1>4
  <2>2. QED
    BY <1>4, <2>1
<1>6. ASSUME k = 0 PROVE After
  <2>1. p = 0 /\ p + 1 = 1 /\ q = F
    BY <1>2, <1>6, OneMore
  <2>2. FirstLength(m) = F
    BY <1>4, <1>5, Sizes DEF FirstLength, AtMost
  <2>3. read_cb(c, SubSeq(m, 1, FirstLength(m)))
    BY <1>1, <2>1, <2>2
  <2>4. HeaderRead(m[1], SubSeq(m, 1, FirstLength(m)))
    BY <1>3, <1>5, <1>6, <2>3, HeaderHandled
  <2>5. /\ transFile' = [j \in Kinds |-> j = m[1]]
        /\ currentTransferFileName' = Path[m]
        /\ fileData' = Collected(m, F)
        /\ UNCHANGED <<written, outbox>>
    BY <1>3, <1>5, <1>6, <2>4, LongHeader
  <2>6. QED
    BY <2>1, <2>5
<1>7. ASSUME k # 0 PROVE After
  <2>1. k \in Nat \ {0} /\ p < Len(m) /\ q \in p + 1 .. Len(m) /\ q \in p .. Len(m)
        /\ q - p = F
    <3> HIDE DEF F, p, q
    <3>1. QED
      BY <1>1, <1>2, <1>4, <1>7
  <2> DEFINE msg == SubSeq(m, p + 1, q)
  <2>2. /\ msg \in Seq(Tokens) /\ msg[1] \notin Kinds /\ msg[1] \notin Markers
        /\ p \in FirstLength(m) .. Len(m)
    BY <1>5, <2>1, LaterRead
  <2>3. m[1] \in Kinds /\ transFile = [j \in Kinds |-> j = m[1]]
    BY <1>3, <1>5, <1>7, HeadPlace
  <2>4. BodyRead(m[1], msg)
    <3> HIDE DEF msg
    <3>1. read_cb(c, msg)
      BY <1>1 DEF msg
    <3>2. QED
      BY <2>2, <2>3, <3>1, BodyHandled
  <2>5. currentTransferFileName = Path[m] /\ fileData = Collected(m, p)
    BY <1>3, <1>7
  <2> HIDE DEF p, q, F
  <2>6. BodyRead(m[1], SubSeq(m, p + 1, q))
    BY <2>4
  <2>7. QED
    BY <1>5, <2>1, <2>2, <2>3, <2>5, <2>6, LongBody DEF F
<1>8. After
  BY <1>6, <1>7
<1>9. k + 1 # 0 /\ (r - 1) + 1 = r
  OBVIOUS
<1>10. phase' = phase
  BY DEF Readable, clientVars
<1>11. QED
  BY <1>1, <1>3, <1>5, <1>8, <1>9, <1>10 DEF Underway

(* The short read saves the upload. *)
LEMMA LastReadSaves ==
  ASSUME PoliteMessages, TypeOK, ~Fragmented, NEW c \in Clients, NEW k \in Nat,
         Underway(c, k, 0), Readable(c), asked \in Uploads
  PROVE  /\ Quiet' /\ UNCHANGED outbox
         /\ \/ written' = written \o <<>> \o <<Filed(asked)>>
            \/ written' = written \o <<Filed(asked)>>
            \/ \E data \in Seq(Tokens) :
                 written' = written \o <<LogEntry(data)>> \o <<Filed(asked)>>
<1> DEFINE F == FileBuffers
           p == k * F
           m == asked
           q == Len(m)
           Ends == /\ Idle' /\ UNCHANGED outbox
                   /\ \/ written' = written \o <<>> \o <<Filed(m)>>
                      \/ written' = written \o <<Filed(m)>>
                      \/ \E data \in Seq(Tokens) :
                           written' = written \o <<LogEntry(data)>> \o <<Filed(m)>>
<1>1. /\ read_cb(c, SubSeq(m, p + 1, q)) /\ q - p < F
      /\ \A d \in Clients : stream'[d] = <<>> /\ input'[d] = <<>>
  BY LastReadStep
<1>2. F \in Nat \ {0} /\ p \in Nat
  BY Sizes, OneMore
<1>3. /\ m \in Messages /\ p < q /\ (k = 0 => Idle)
      /\ k # 0 => /\ transFile = [j \in Kinds |-> j = m[1]]
                  /\ currentTransferFileName = Path[m]
                  /\ fileData = Collected(m, p)
  BY DEF Underway
<1>4. m \in Seq(Tokens) /\ q \in Nat
  BY <1>3, FirstReads
<1>5. ASSUME k = 0 PROVE Ends
  <2>1. p = 0 /\ p + 1 = 1 /\ q - p = q
    BY <1>2, <1>4, <1>5, OneMore
  <2>2. FirstLength(m) = q /\ q < F
    BY <1>1, <1>2, <1>4, <2>1 DEF FirstLength, AtMost
  <2>3. read_cb(c, SubSeq(m, 1, FirstLength(m)))
    BY <1>1, <2>1, <2>2
  <2>4. HeaderRead(m[1], SubSeq(m, 1, FirstLength(m)))
    BY <1>3, <1>5, <2>3, HeaderHandled
  <2>5. Idle' /\ written' = written \o <<Filed(m)>> /\ UNCHANGED outbox
    BY <1>3, <1>5, <2>2, <2>4, ShortHeader
  <2>6. QED
    BY <2>5
<1>6. ASSUME k # 0 PROVE Ends
  <2>1. k \in Nat \ {0} /\ q \in p + 1 .. Len(m)
    BY <1>2, <1>3, <1>4, <1>6
  <2> DEFINE msg == SubSeq(m, p + 1, q)
  <2>2. /\ msg \in Seq(Tokens) /\ msg[1] \notin Kinds /\ msg[1] \notin Markers
        /\ p \in FirstLength(m) .. Len(m) /\ Len(msg) = q - p
    BY <1>3, <2>1, LaterRead
  <2>3. m[1] \in Kinds /\ transFile = [j \in Kinds |-> j = m[1]]
    BY <1>3, <1>6, HeadPlace
  <2>4. BodyRead(m[1], msg)
    <3> HIDE DEF msg
    <3>1. read_cb(c, msg)
      BY <1>1 DEF msg
    <3>2. QED
      BY <2>2, <2>3, <3>1, BodyHandled
  <2>5. currentTransferFileName = Path[m] /\ fileData = Collected(m, p)
    BY <1>3, <1>6
  <2>6. Len(SubSeq(m, p + 1, Len(m))) < F /\ BodyRead(m[1], SubSeq(m, p + 1, Len(m)))
    BY <1>1, <2>2, <2>4
  <2> HIDE DEF p, F
  <2>7. /\ Idle' /\ UNCHANGED outbox
        /\ \/ written' = written \o <<>> \o <<Filed(m)>>
           \/ \E data \in Seq(Tokens) :
                written' = written \o <<LogEntry(data)>> \o <<Filed(m)>>
    BY <2>2, <2>3, <2>5, <2>6, ShortBody DEF F
  <2>8. QED
    BY <2>7
<1>7. Ends
  BY <1>5, <1>6
<1>8. QED
  BY <1>1, <1>7 DEF Idle, Quiet

(* Or it tells the text. *)
LEMMA LastReadTells ==
  ASSUME PoliteMessages, TypeOK, ~Fragmented, m_bSendAll, NEW c \in Clients, NEW k \in Nat,
         Underway(c, k, 0), Readable(c), asked \notin Uploads
  PROVE  /\ Quiet' /\ UNCHANGED written
         /\ outbox' = [d \in Clients |-> IF d \in Registered
                                         THEN Append(outbox[d], asked)
                                         ELSE outbox[d]]
<1> DEFINE F == FileBuffers
           m == asked
<1>1. /\ read_cb(c, SubSeq(m, k * F + 1, Len(m)))
      /\ \A d \in Clients : stream'[d] = <<>> /\ input'[d] = <<>>
  BY LastReadStep
<1>2. m \in Messages \ Uploads /\ k = 0 /\ Idle
  BY DEF Underway
<1>3. m \in Seq(Tokens) /\ CString(m) = m
  BY <1>2, FirstReads DEF PoliteMessages
<1>4. k * F + 1 = 1
  BY <1>2, Sizes, OneMore
<1>5. SubSeq(m, 1, Len(m)) = m
  BY <1>3, SubSeqFull
<1>6. read_cb(c, m)
  BY <1>1, <1>4, <1>5
<1>7. TextRead(c, m)
  BY <1>2, <1>6, TextHandled
<1>8. /\ UNCHANGED <<transFile, written>>
      /\ outbox' = [d \in Clients |-> IF d \in Registered
                                      THEN Append(outbox[d], m)
                                      ELSE outbox[d]]
  BY <1>3, <1>7 DEF TextRead, transferVars
<1>9. QED
  BY <1>1, <1>2, <1>8 DEF Idle, Quiet

-----------------------------------------------------------------------------
(* The invariant, and the steps *)

(* There is at most one message, and it is partly read. *)
OneAtATime ==
  Quiet \/ \E c \in Clients, k \in Nat, r \in Nat : Underway(c, k, r)

(* The invariant: with the history's type, and nobody told before he came. *)
PoliteInv ==
  /\ stored \in Seq(Files)
  /\ \A c \in Clients : phase[c] = "new" => outbox[c] = <<>>
  /\ OneAtATime

(* While a short read is to come there is something to read. *)
LEMMA SomethingToCome ==
  ASSUME PoliteMessages, NEW s \in Seq(Tokens), NEW r \in Nat, r * SocketRead < Len(s)
  PROVE  s # <<>>
<1> DEFINE x == r * SocketRead
<1>1. x < Len(s) /\ x \in Nat
  BY Sizes, OneMore
<1> HIDE DEF x
<1>2. Len(s) # 0
  BY <1>1
<1>3. QED
  BY <1>2, EmptySeq

(* While a message is under way only its client has anything to read. *)
LEMMA OnlyOne ==
  ASSUME PoliteMessages, TypeOK, NEW c \in Clients, NEW k \in Nat, NEW r \in Nat, Underway(c, k, r)
  PROVE  /\ stream[c] # <<>> /\ ~Quiet
         /\ \A d \in Clients : stream[d] # <<>> => d = c
<1>1. stream[c] # <<>>
  BY SomethingToCome DEF Underway, TypeOK
<1>2. QED
  BY <1>1 DEF Quiet, Underway, Others

(* A client that never connected is not registered. *)
LEMMA NewIsStranger ==
  ASSUME TypeOK, RegistryInv, NEW c \in Clients, phase[c] = "new"
  PROVE  c \notin Registered
<1>1. bevFd[c] = NoFd
  BY DEF RegistryInv
<1>2. \A i \in 1 .. Len(client_vec) :
        bevFd[client_vec[i].m_pBev] = client_vec[i].sock_fd /\ client_vec[i].sock_fd \in Fds
  BY Entries DEF RegistryInv, RegistryIsLive
<1>3. QED
  BY <1>1, <1>2, Entries, ServiceAssumption DEF Registered

(* One more file in the store. *)
LEMMA StoredTypes ==
  ASSUME NEW s \in Seq(Files), NEW e \in Files
  PROVE  s \o <<e>> = Append(s, e) /\ Append(s, e) \in Seq(Files) /\ s \o <<>> = s
BY AppendIsConcat, AppendProperties, ConcatEmptySeq

(* A read, one of the message that is under way. *)
LEMMA HandleStep ==
  ASSUME PoliteMessages, TypeOK, TypeOK', RegistryInv, PoliteInv, ~Fragmented, m_bSendAll, NEW c \in Clients, Handle(c)
  PROVE  PoliteInv' /\ (Store!Next \/ UNCHANGED Store!vars)
<1>1. /\ Readable(c) /\ asked' = asked
      /\ stored' = stored \o WithoutLog(From(written', Len(written) + 1))
      /\ stream[c] # <<>>
  BY DEF Handle, Readable
<1>2. PICK d \in Clients, k \in Nat, r \in Nat : Underway(d, k, r)
  BY <1>1 DEF PoliteInv, OneAtATime, Quiet
<1>3. d = c /\ ~Quiet
  BY <1>1, <1>2, OnlyOne
<1>4. Underway(c, k, r) /\ asked \in Messages /\ phase[c] = "open"
  BY <1>2, <1>3 DEF Underway
<1>5. client_vec' = client_vec /\ phase' = phase
  BY <1>1 DEF Readable, registryVars, clientVars
<1>6. Registered' = Registered
  BY <1>5 DEF Registered
<1>7. stored \in Seq(Files) /\ written \in Seq(Files)
  BY DEF PoliteInv, TypeOK, Files
<1>8. \A e \in Clients : phase'[e] = "new" => outbox[e] = <<>>
  BY <1>5 DEF PoliteInv
<1>9. CASE r # 0
  <2>1. Underway(c, k + 1, r - 1)' /\ UNCHANGED <<written, outbox>>
    BY <1>1, <1>4, <1>9, FullReadKeeps
  <2>2. stored' = stored
    <3>1. WithoutLog(From(written', Len(written) + 1)) = <<>>
      BY <1>7, <2>1, NothingStored
    <3>2. QED
      BY <1>1, <1>7, <3>1, ConcatEmptySeq
  <2>3. k + 1 \in Nat /\ r - 1 \in Nat
    BY <1>9
  <2>4. PoliteInv'
    BY <1>7, <1>8, <2>1, <2>2, <2>3 DEF PoliteInv, OneAtATime
  <2>5. ~Quiet'
    <3>1. stream'[c] # <<>>
      BY <2>1, <2>3, SomethingToCome DEF Underway, TypeOK
    <3>2. QED
      BY <3>1 DEF Quiet
  <2>6. UNCHANGED Store!vars
    BY <1>1, <1>3, <1>6, <2>1, <2>2, <2>5 DEF Store!vars
  <2>7. QED
    BY <2>4, <2>6
<1>10. CASE r = 0 /\ asked \in Uploads
  <2>1. /\ Quiet' /\ UNCHANGED outbox
        /\ \/ written' = written \o <<>> \o <<Filed(asked)>>
           \/ written' = written \o <<Filed(asked)>>
           \/ \E data \in Seq(Tokens) :
                written' = written \o <<LogEntry(data)>> \o <<Filed(asked)>>
    BY <1>1, <1>4, <1>10, LastReadSaves
  <2>2. Filed(asked) \in Files /\ Filed(asked).path # Log
    BY <1>10, FiledType
  <2>3. WithoutLog(From(written', Len(written) + 1)) = <<Filed(asked)>>
    <3>1. CASE written' = written \o <<>> \o <<Filed(asked)>>
      <4>1. written \o <<>> = written
        BY <1>7, ConcatEmptySeq
      <4>2. QED
        BY <1>7, <2>2, <3>1, <4>1, OneStored
    <3>2. CASE written' = written \o <<Filed(asked)>>
      BY <1>7, <2>2, <3>2, OneStored
    <3>3. ASSUME NEW data \in Seq(Tokens),
                 written' = written \o <<LogEntry(data)>> \o <<Filed(asked)>>
          PROVE  WithoutLog(From(written', Len(written) + 1)) = <<Filed(asked)>>
      <4>1. LogEntry(data) \in Files /\ LogEntry(data).path = Log
        <5>1. data \in Seq(Bytes)
          BY SeqMonotonic DEF Bytes
        <5>2. Log \in Seq(Tokens)
          BY ServiceAssumption DEF Tokens, Log
        <5>3. QED
          BY <5>1, <5>2 DEF LogEntry, Files
      <4>2. QED
        BY <1>7, <2>2, <3>3, <4>1, LoggedStored
    <3>4. QED
      BY <2>1, <3>1, <3>2, <3>3
  <2>4. stored' = Append(stored, Filed(asked)) /\ stored' \in Seq(Files)
    BY <1>1, <1>7, <2>2, <2>3, StoredTypes
  <2>5. PoliteInv'
    BY <1>8, <2>1, <2>4 DEF PoliteInv, OneAtATime
  <2>6. Store!Save
    BY <1>3, <1>6, <1>10, <2>1, <2>4 DEF Store!Save, Filed
  <2>7. QED
    BY <2>5, <2>6 DEF Store!Next
<1>11. CASE r = 0 /\ asked \notin Uploads
  <2>1. /\ Quiet' /\ UNCHANGED written
        /\ outbox' = [e \in Clients |-> IF e \in Registered
                                        THEN Append(outbox[e], asked)
                                        ELSE outbox[e]]
    BY <1>1, <1>4, <1>11, LastReadTells
  <2>2. stored' = stored
    <3>1. WithoutLog(From(written', Len(written) + 1)) = <<>>
      BY <1>7, <2>1, NothingStored
    <3>2. QED
      BY <1>1, <1>7, <3>1, ConcatEmptySeq
  <2>3. \A e \in Clients : phase'[e] = "new" => outbox'[e] = <<>>
    <3>1. ASSUME NEW e \in Clients, phase'[e] = "new" PROVE e \notin Registered
      BY <1>5, <3>1, NewIsStranger
    <3>2. QED
      BY <1>8, <2>1, <3>1
  <2>4. PoliteInv'
    BY <1>7, <2>1, <2>2, <2>3 DEF PoliteInv, OneAtATime
  <2>5. Store!Tell
    BY <1>3, <1>4, <1>6, <1>11, <2>1, <2>2 DEF Store!Tell
  <2>6. QED
    BY <2>4, <2>5 DEF Store!Next
<1>12. QED
  BY <1>9, <1>10, <1>11

(* What is registered is what has a bufferevent. *)
LEMMA LiveOnes ==
  ASSUME NEW v \in Seq([sock_fd : Fds, m_pBev : Clients]),
         NEW b \in [Clients -> Fds \cup {NoFd}],
         \A i \in DOMAIN v : b[v[i].m_pBev] = v[i].sock_fd,
         \A c \in Clients : b[c] # NoFd => c \in {v[i].m_pBev : i \in DOMAIN v}
  PROVE  {v[i].m_pBev : i \in DOMAIN v} = {c \in Clients : b[c] # NoFd}
<1>1. DOMAIN v = 1 .. Len(v) /\ \A i \in 1 .. Len(v) : v[i] \in [sock_fd : Fds, m_pBev : Clients]
  BY LenProperties, ElementOfSeq
<1>2. \A i \in DOMAIN v : v[i].m_pBev \in Clients /\ v[i].sock_fd \in Fds
  BY <1>1
<1>3. \A i \in DOMAIN v : b[v[i].m_pBev] # NoFd
  BY <1>2, ServiceAssumption
<1>4. QED
  BY <1>2, <1>3

(* The registered are those with a descriptor, before and after a step. *)
LEMMA RegisteredLive ==
  ASSUME TypeOK, TypeOK', RegistryInv, RegistryInv'
  PROVE  /\ Registered = {d \in Clients : bevFd[d] # NoFd}
         /\ Registered' = {d \in Clients : bevFd'[d] # NoFd}
<1>1. Registered = {d \in Clients : bevFd[d] # NoFd}
  BY LiveOnes DEF TypeOK, RegistryInv, RegistryIsLive, Registered
<1>2. Registered' = {d \in Clients : bevFd'[d] # NoFd}
  BY LiveOnes DEF TypeOK, RegistryInv, RegistryIsLive, Registered
<1>3. QED
  BY <1>1, <1>2

(* What a step must leave alone for a message to stay as it is. *)
LEMMA UnderwayKept ==
  ASSUME NEW c, NEW k, NEW r, Underway(c, k, r), phase'[c] = phase[c],
         UNCHANGED <<asked, stream, input, transFile, fileData, currentTransferFileName>>
  PROVE  Underway(c, k, r)'
BY DEF Underway, Others, Idle

(* And for there to be none. *)
LEMMA QuietKept ==
  ASSUME UNCHANGED <<stream, input, transFile>>
  PROVE  Quiet' = Quiet
BY DEF Quiet

(* do_accept is Join. *)
LEMMA AcceptStep ==
  ASSUME TypeOK, TypeOK', RegistryInv, RegistryInv', PoliteInv, NEW c \in Clients, NEW fd \in Fds,
         do_accept(c, fd), UNCHANGED <<asked, stored>>
  PROVE  PoliteInv' /\ Store!Join(c)
<1>1. /\ phase[c] = "new" /\ phase' = [phase EXCEPT ![c] = "open"]
      /\ bevFd' = [bevFd EXCEPT ![c] = fd]
      /\ outbox' = [outbox EXCEPT ![c] = <<Welcome>>]
      /\ UNCHANGED <<stream, input, transFile, fileData, currentTransferFileName>>
  BY DEF do_accept, transferVars
<1>2. c \notin Registered
  BY <1>1, NewIsStranger
<1>3. outbox[c] = <<>>
  BY <1>1 DEF PoliteInv
<1>4. Registered' = Registered \cup {c}
  <2>1. fd # NoFd
    BY ServiceAssumption
  <2>2. \A d \in Clients : bevFd'[d] # NoFd <=> (bevFd[d] # NoFd \/ d = c)
    BY <1>1, <2>1 DEF TypeOK
  <2>3. QED
    BY <2>2, RegisteredLive
<1>5. Quiet' = Quiet
  BY <1>1, QuietKept
<1>6. Store!Join(c)
  BY <1>1, <1>2, <1>3, <1>4, <1>5 DEF Store!Join
<1>7. PoliteInv'
  <2>1. \A d \in Clients : phase'[d] = "new" => outbox'[d] = <<>>
    BY <1>1 DEF PoliteInv, TypeOK
  <2>2. OneAtATime'
    <3>1. CASE Quiet
      BY <1>5, <3>1 DEF OneAtATime
    <3>2. ASSUME NEW d \in Clients, NEW k \in Nat, NEW r \in Nat, Underway(d, k, r)
          PROVE  OneAtATime'
      <4>1. phase'[d] = phase[d]
        BY <1>1, <3>2 DEF Underway, TypeOK
      <4>2. Underway(d, k, r)'
        BY <1>1, <3>2, <4>1, UnderwayKept
      <4>3. QED
        BY <4>2 DEF OneAtATime
    <3>3. QED
      BY <3>1, <3>2 DEF PoliteInv, OneAtATime
  <2>3. QED
    BY <2>1, <2>2 DEF PoliteInv
<1>8. QED
  BY <1>6, <1>7

(* error_cb is Leave: a client that is gone has nothing under way. *)
LEMMA ErrorStep ==
  ASSUME TypeOK, TypeOK', RegistryInv, RegistryInv', PoliteInv, NEW c \in Clients,
         error_cb(c), UNCHANGED <<asked, stored>>
  PROVE  PoliteInv' /\ Store!Leave(c)
<1>1. /\ bevFd[c] # NoFd /\ phase[c] # "open"
      /\ bevFd' = [bevFd EXCEPT ![c] = NoFd]
      /\ input' = [input EXCEPT ![c] = <<>>]
      /\ UNCHANGED <<stream, transFile, fileData, currentTransferFileName, outbox, phase>>
  BY DEF error_cb, transferVars, clientVars
<1>2. Registered' = Registered \ {c} /\ c \in Registered
  <2>1. \A d \in Clients : bevFd'[d] # NoFd <=> (bevFd[d] # NoFd /\ d # c)
    BY <1>1 DEF TypeOK
  <2>2. QED
    BY <1>1, <2>1, RegisteredLive
<1>3. input[c] = <<>>
  <2>1. CASE Quiet
    BY <2>1 DEF Quiet
  <2>2. ASSUME NEW d \in Clients, NEW k \in Nat, NEW r \in Nat, Underway(d, k, r)
        PROVE  input[c] = <<>>
    BY <1>1, <2>2 DEF Underway, Others
  <2>3. QED
    BY <2>1, <2>2 DEF PoliteInv, OneAtATime
<1>4. input' = input
  BY <1>1, <1>3 DEF TypeOK
<1>5. Quiet' = Quiet
  BY <1>1, <1>4, QuietKept
<1>6. Store!Leave(c)
  BY <1>1, <1>2, <1>5 DEF Store!Leave
<1>7. OneAtATime'
  <2>1. CASE Quiet
    BY <1>5, <2>1 DEF OneAtATime
  <2>2. ASSUME NEW d \in Clients, NEW k \in Nat, NEW r \in Nat, Underway(d, k, r)
        PROVE  OneAtATime'
    <3>1. Underway(d, k, r)'
      BY <1>1, <1>4, <2>2, UnderwayKept
    <3>2. QED
      BY <3>1 DEF OneAtATime
  <2>3. QED
    BY <2>1, <2>2 DEF PoliteInv, OneAtATime
<1>8. PoliteInv'
  BY <1>1, <1>7 DEF PoliteInv
<1>9. QED
  BY <1>6, <1>8

(* Send is Submit: the whole message is to come, in reads that fit it. *)
LEMMA SendStep ==
  ASSUME PoliteMessages, TypeOK, PoliteInv, Quiet, NEW c \in Clients, NEW m \in Messages, Send(c, m),
         asked' = m, UNCHANGED stored
  PROVE  PoliteInv' /\ Store!Submit(m)
<1>1. /\ phase[c] = "open" /\ stream' = [stream EXCEPT ![c] = stream[c] \o m]
      /\ UNCHANGED <<client_vec, input, transFile, outbox, phase>>
  BY DEF Send, transferVars, registryVars
<1>2. /\ m \in Seq(Tokens) /\ m # <<>> /\ Len(m) \in Nat \ {0}
  BY FirstReads
<1>3. stream[c] = <<>> /\ input[c] = <<>> /\ <<>> \o m = m
  BY <1>2, ConcatEmptySeq DEF Quiet
<1>4. stream'[c] = m /\ input'[c] = <<>>
  BY <1>1, <1>3 DEF TypeOK
<1>5. ~Quiet'
  BY <1>2, <1>4 DEF Quiet
<1>6. PICK n \in 1 .. Len(m) : (n - 1) * SocketRead < Len(m) /\ Len(m) < n * FileBuffers
  BY DEF PoliteMessages, Fits
<1> DEFINE r == n - 1
<1>7. r \in Nat /\ r + 1 = n
  BY <1>2
<1>8. 0 * FileBuffers = 0
  BY Sizes, OneMore
<1>9. IsRest(m, 0 * FileBuffers, <<>>, m)
  <2>1. From(m, 1) = m
    BY <1>2, SubSeqFull DEF From
  <2>2. QED
    BY <1>3, <1>8, <2>1 DEF IsRest
<1>10. Others(c)' /\ Idle'
  BY <1>1 DEF Quiet, Others, Idle, TypeOK
<1>11. Len(input'[c]) + Len(stream'[c]) < (r + 1) * FileBuffers
  <2>1. Len(input'[c]) = 0 /\ Len(stream'[c]) = Len(m) /\ 0 + Len(m) = Len(m)
    BY <1>2, <1>4, EmptySeq
  <2>2. Len(input'[c]) + Len(stream'[c]) = Len(m)
    BY <2>1
  <2>3. QED
    BY <1>6, <1>7, <2>2
<1>12. r * SocketRead < Len(stream'[c]) /\ 0 * FileBuffers < Len(m)
  BY <1>2, <1>4, <1>6, <1>8
<1>13. phase'[c] = "open"
  BY <1>1
<1> HIDE DEF r
<1>14. Underway(c, 0, r)'
  BY <1>4, <1>9, <1>10, <1>11, <1>12, <1>13 DEF Underway
<1>15. PoliteInv'
  BY <1>1, <1>7, <1>14 DEF PoliteInv, OneAtATime
<1>16. Store!Submit(m)
  BY <1>1, <1>5 DEF Store!Submit, Registered
<1>17. QED
  BY <1>15, <1>16

(* A client that leaves after its message is no step of the store. *)
LEMMA GoStep ==
  ASSUME TypeOK, PoliteInv, Quiet, NEW c \in Clients, Close(c) \/ Reset(c),
         UNCHANGED <<asked, stored>>
  PROVE  PoliteInv' /\ UNCHANGED Store!vars
<1>1. /\ UNCHANGED <<client_vec, input, transFile, outbox>>
      /\ stream' = stream \/ stream' = [stream EXCEPT ![c] = <<>>]
      /\ \A d \in Clients : phase'[d] = "new" => phase[d] = "new"
  BY DEF Close, Reset, transferVars, registryVars, TypeOK
<1>2. stream' = stream
  BY <1>1 DEF Quiet, TypeOK
<1>3. Quiet' = Quiet
  BY <1>1, <1>2, QuietKept
<1>4. UNCHANGED Store!vars
  BY <1>1, <1>3 DEF Store!vars, Registered
<1>5. PoliteInv'
  BY <1>1, <1>3 DEF PoliteInv, OneAtATime
<1>6. QED
  BY <1>4, <1>5

(* With clients that wait their turn, whose messages come in one piece and *)
(* fit the reads, and texts that go to everyone, the service (read_cb,     *)
(* do_accept, error_cb) implements the store: for any number of clients,   *)
(* any messages and any buffer sizes.                                      *)
THEOREM StoreIsKept ==
  ASSUME PoliteMessages, ~Fragmented, m_bSendAll
  PROVE  PoliteSpec => KeepsTheStore
<1>1. PoliteInit => Init /\ PoliteInv /\ Store!Init
  <2> SUFFICES ASSUME PoliteInit PROVE Init /\ PoliteInv /\ Store!Init
    OBVIOUS
  <2>1. Quiet
    BY DEF PoliteInit, Init, Quiet
  <2>2. PoliteInv
    BY <2>1, EmptySeq DEF PoliteInit, Init, PoliteInv, OneAtATime
  <2>3. Registered = {}
    BY DEF PoliteInit, Init, Registered
  <2>4. Store!Init
    BY <2>1, <2>3 DEF PoliteInit, Init, Store!Init
  <2>5. QED
    BY <2>2, <2>4 DEF PoliteInit
<1>2. [PoliteNext]_politeVars => [Next]_vars
  BY DEF PoliteNext, politeVars, Next, Loop, Handle
<1>3. /\ TypeOK /\ TypeOK' /\ RegistryInv /\ RegistryInv' /\ PoliteInv /\ [PoliteNext]_politeVars
      => PoliteInv' /\ [Store!Next]_(Store!vars)
  <2> SUFFICES ASSUME TypeOK, TypeOK', RegistryInv, RegistryInv', PoliteInv,
                      [PoliteNext]_politeVars
               PROVE  PoliteInv' /\ (Store!Next \/ UNCHANGED Store!vars)
    BY DEF Store!vars
  <2>1. ASSUME NEW c \in Clients, NEW fd \in Fds, do_accept(c, fd), UNCHANGED <<asked, stored>>
        PROVE  PoliteInv' /\ Store!Next
    BY <2>1, AcceptStep DEF Store!Next
  <2>2. ASSUME NEW c \in Clients, Handle(c)
        PROVE  PoliteInv' /\ (Store!Next \/ UNCHANGED Store!vars)
    BY <2>2, HandleStep
  <2>3. ASSUME NEW c \in Clients, error_cb(c), UNCHANGED <<asked, stored>>
        PROVE  PoliteInv' /\ Store!Next
    BY <2>3, ErrorStep DEF Store!Next
  <2>4. ASSUME NEW c \in Clients, Quiet, NEW m \in Messages, Send(c, m), asked' = m,
               UNCHANGED stored
        PROVE  PoliteInv' /\ Store!Next
    <3>1. PoliteInv' /\ Store!Submit(m)
      BY <2>4, SendStep
    <3>2. m \in Uploads \cup (Messages \ Uploads)
      OBVIOUS
    <3>3. QED
      BY <3>1, <3>2 DEF Store!Next
  <2>5. ASSUME NEW c \in Clients, Quiet, Close(c) \/ Reset(c), UNCHANGED <<asked, stored>>
        PROVE  PoliteInv' /\ UNCHANGED Store!vars
    BY <2>5, GoStep
  <2>6. CASE UNCHANGED politeVars
    <3>1. UNCHANGED <<client_vec, bevFd, stream, input, transFile, fileData, written,
                      currentTransferFileName, outbox, phase, asked, stored>>
      BY <2>6 DEF politeVars, vars, transferVars, registryVars, clientVars
    <3>2. Quiet' = Quiet
      BY <3>1, QuietKept
    <3>3. UNCHANGED Store!vars
      BY <3>1, <3>2 DEF Store!vars, Registered
    <3>4. OneAtATime'
      <4>1. CASE Quiet
        BY <3>2, <4>1 DEF OneAtATime
      <4>2. ASSUME NEW d \in Clients, NEW k \in Nat, NEW r \in Nat, Underway(d, k, r)
            PROVE  OneAtATime'
        <5>1. Underway(d, k, r)'
          BY <3>1, <4>2, UnderwayKept
        <5>2. QED
          BY <5>1 DEF OneAtATime
      <4>3. QED
        BY <4>1, <4>2 DEF PoliteInv, OneAtATime
    <3>5. QED
      BY <3>1, <3>3, <3>4 DEF PoliteInv
  <2>7. QED
    BY <2>1, <2>2, <2>3, <2>4, <2>5, <2>6 DEF PoliteNext
<1>4. Spec => []TypeOK /\ []RegistryInv
  BY Typing, RegistryInvariance
<1>5. QED
  BY <1>1, <1>2, <1>3, <1>4, PTL DEF PoliteSpec, Spec, KeepsTheStore
=============================================================================
