-------------------------- MODULE UploadPathProofs ---------------------------
(***************************************************************************)
(* Proofs about the path of an upload, from the terminal to the saved      *)
(* files: that the composition is made of its two parts, so that what is   *)
(* proved of the service holds in it, and that without an overlap of the   *)
(* client's two threads a file holds what was typed as it was typed.       *)
(*                                                                         *)
(* The argument: let Gone be how many pieces have left the client's wire.  *)
(* On a connection that is up everything typed in these that comes behind  *)
(* a place is stranded or still unread, and what is unread is in order, so *)
(* the next token read is the next one typed but for what is stranded.  On *)
(* a broken connection all that is unread is stranded.                     *)
(***************************************************************************)
EXTENDS UploadPath, DoServiceProofs

-----------------------------------------------------------------------------
(* The invariant *)

(* The queue without the front that is being sent, and the messages that   *)
(* are in it or were.                                                      *)
Queued == IF using THEN Tail(writeQueue) ELSE writeQueue
Pushed == IF adding THEN typed - 1 ELSE typed

(* The pieces that have left the wire, arrived or lost.                    *)
Gone == 2 * Pushed - 2 * Len(Queued) - Len(output) - Len(wire)

(* What is behind them is on the wire, then in the output buffer, then in  *)
(* the queue, with no gap.                                                 *)
ClientInv ==
  /\ adding \in BOOLEAN /\ using \in BOOLEAN
  /\ typed \in 0 .. MaxTyped /\ (adding => typed # 0)
  /\ writeQueue \in Seq(Client!Entries) /\ output \in Seq(Client!Pieces) /\ wire \in Seq(Client!Pieces)
  /\ ~(adding /\ using) /\ (using => writeQueue # <<>>)
  /\ Gone \in Nat
  /\ \A i \in 1 .. Len(wire) : wire[i] = Gone + i
  /\ \A i \in 1 .. Len(output) : output[i] = Gone + Len(wire) + i
  /\ \A i \in 1 .. Len(Queued) : 2 * Queued[i] = Gone + Len(wire) + Len(output) + 2 * i

(* The connections, as the client and the service know them.              *)
LinkInv ==
  /\ drops \in 0 .. MaxDrops /\ conn \in 0 .. drops + 1
  /\ bev \in {"connecting", "up", "error", "reconnecting", "freed", "left"}
  /\ bev = "up" => conn # 0 /\ phase[conn] \in {"new", "open"}
  /\ bev \notin {"up", "left"} => conn <= drops
  /\ \A c \in Clients : c > conn => phase[c] = "new" /\ stream[c] = <<>> /\ input[c] = <<>>

(* The tokens that are typed; the service has no others.                  *)
Labels == {At(x) : x \in Typed}
LabelsInv ==
  /\ fileData \in Seq(Labels)
  /\ stream \in [Clients -> Seq(Labels)] /\ input \in [Clients -> Seq(Labels)]

(* What the service has not taken of a connection. *)
Unread(c) == input[c] \o stream[c]

(* What the property says of a string. *)
Flows(s) == \A i \in 1 .. Len(s) - 1 : Joined(Place(s[i]), Place(s[i + 1]))

(* All of s is of a connection that broke. *)
Gave(s) == \A i \in 1 .. Len(s) : s[i] \in stranded

(* All that has left the wire and was typed behind x is stranded or in s. *)
Known(x, s) ==
  /\ x[1] <= Gone
  /\ \A z \in Typed : Precedes(x, z) /\ z[1] <= Gone => At(z) \in stranded \cup InTransit(s)
InOrder(s) == \A i, j \in 1 .. Len(s) : i < j => Precedes(Place(s[i]), Place(s[j]))

(* The end of what the open transfer has collected. *)
Latest == fileData[Len(fileData)]
Collecting == (\E k \in Kinds : transFile[k]) /\ fileData # <<>> /\ Latest \notin stranded

(* s is what comes behind x, all of it and in order. *)
Ahead(x, s) == Known(x, s) /\ \A i \in 1 .. Len(s) : Precedes(x, Place(s[i]))
Whole(s) ==
  /\ InOrder(s) /\ \A i \in 1 .. Len(s) : Known(Place(s[i]), s)
  /\ Collecting => Ahead(Place(Latest), s)

(* While the service runs. *)
ReadInv ==
  /\ Flows(fileData)
  /\ \A c \in Clients \ {conn} : Gave(Unread(c))
  /\ bev = "up" => Whole(Unread(conn))
  /\ bev = "left" /\ conn \in Clients =>
       Whole(Unread(conn)) \/ Gave(Unread(conn)) \/ stream[conn] = <<>>
  /\ bev \notin {"up", "left"} => /\ \A c \in Clients : Gave(Unread(c))
                                  /\ Collecting => Known(Place(Latest), <<>>)

-----------------------------------------------------------------------------
(* Places *)

(* A place is a piece and a number in it, and holds a token. *)
LEMMA TypedPlace ==
  ASSUME NEW x \in Typed
  PROVE  /\ x[1] \in Client!Pieces /\ x[1] \in Nat /\ x[2] \in Nat /\ x = <<x[1], x[2]>>
         /\ x[2] \in DOMAIN Part[x[1]]
         /\ At(x) \in Tokens /\ At(x) \in Labels
<1>1. PICK p \in Client!Pieces : x \in {<<p, i>> : i \in DOMAIN Part[p]}
  BY DEF Typed
<1>2. PICK i \in DOMAIN Part[p] : x = <<p, i>>
  BY <1>1
<1>3. Part[p] \in Seq(Tokens)
  BY <1>1, PathAssumption, ServiceAssumption
<1>4. p \in Nat
  BY <1>1, PathAssumption DEF Client!Pieces
<1>5. DOMAIN Part[p] = 1 .. Len(Part[p]) /\ Len(Part[p]) \in Nat
  BY <1>3, LenProperties
<1>6. Part[p][i] \in Tokens /\ i \in Nat
  BY <1>2, <1>3, <1>5, ElementOfSeq
<1>7. x[1] = p /\ x[2] = i
  BY <1>2
<1>8. QED
  BY <1>1, <1>2, <1>4, <1>6, <1>7 DEF At, Labels

(* Each piece's tokens are at its places. *)
LEMMA PieceTyped ==
  ASSUME NEW p \in Client!Pieces, NEW i \in DOMAIN Part[p]
  PROVE  <<p, i>> \in Typed /\ At(<<p, i>>) = Part[p][i] /\ <<p, i>>[1] = p /\ <<p, i>>[2] = i
BY DEF Typed, At

LEMMA PlaceIs ==
  ASSUME NEW b \in Bytes, NEW x \in Typed, Stands(b, At(x))
  PROVE  Place(b) = x
<1>1. \A y \in Typed : Stands(b, At(y)) => y = x
  BY LabelAssumption
<1>2. QED
  BY <1>1 DEF Place

(* A label tells where it was typed, and so does what it is decoded to. *)
LEMMA LabelPlace ==
  ASSUME NEW t \in Labels
  PROVE  /\ t \in Tokens /\ t \in Bytes
         /\ Place(t) \in Typed /\ At(Place(t)) = t
         /\ t \in Base64Words => Place(Decoded[t]) = Place(t)
<1>1. PICK x \in Typed : t = At(x)
  BY DEF Labels
<1>2. t \in Tokens /\ t \in Bytes
  BY <1>1, TypedPlace DEF Bytes
<1>3. Place(t) = x
  BY <1>1, <1>2, PlaceIs DEF Stands
<1>4. ASSUME t \in Base64Words PROVE Place(Decoded[t]) = x
  <2>1. Decoded[t] \in Bytes
    BY <1>4 DEF Bytes
  <2>2. Stands(Decoded[t], At(x))
    BY <1>1, <1>4 DEF Stands
  <2>3. QED
    BY <2>1, <2>2, PlaceIs
<1>5. QED
  BY <1>1, <1>2, <1>3, <1>4

LEMMA PlaceOfAt ==
  ASSUME NEW x \in Typed
  PROVE  Place(At(x)) = x
<1>1. At(x) \in Bytes
  BY TypedPlace DEF Bytes
<1>2. QED
  BY <1>1, PlaceIs DEF Stands

(* The order of the places. *)
LEMMA Order ==
  ASSUME NEW x \in Typed, NEW y \in Typed
  PROVE  /\ Precedes(x, y) \/ Precedes(y, x) \/ x = y
         /\ ~(Precedes(x, y) /\ Precedes(y, x)) /\ ~Precedes(x, x)
         /\ \A z \in Typed : Precedes(x, y) /\ Precedes(y, z) => Precedes(x, z)
<1>1. \A z \in Typed : z[1] \in Nat /\ z[2] \in Nat
  BY TypedPlace
<1>2. x = <<x[1], x[2]>> /\ y = <<y[1], y[2]>>
  BY TypedPlace
<1>3. Precedes(x, y) \/ Precedes(y, x) \/ (x[1] = y[1] /\ x[2] = y[2])
  BY <1>1 DEF Precedes
<1>4. (x[1] = y[1] /\ x[2] = y[2]) => x = y
  BY <1>2
<1>5. ~(Precedes(x, y) /\ Precedes(y, x)) /\ ~Precedes(x, x)
  BY <1>1 DEF Precedes
<1>6. \A z \in Typed : Precedes(x, y) /\ Precedes(y, z) => Precedes(x, z)
  BY <1>1 DEF Precedes
<1>7. QED
  BY <1>3, <1>4, <1>5, <1>6

-----------------------------------------------------------------------------
(* What flows *)

LEMMA PieceFlows ==
  ASSUME NEW S, NEW s \in Seq(S), Flows(s), NEW i \in Nat \ {0}, NEW j \in Nat,
         i <= j + 1, j <= Len(s)
  PROVE  Flows(SubSeq(s, i, j))
<1> DEFINE r == SubSeq(s, i, j)
<1>1. /\ Len(r) = (j - i) + 1
      /\ \A l \in 1 .. (j - i) + 1 : r[l] = s[(i + l) - 1]
  BY PieceProperties
<1>2. Len(s) \in Nat
  BY LenProperties
<1> HIDE DEF r
<1> SUFFICES ASSUME NEW l \in 1 .. Len(r) - 1
             PROVE  Joined(Place(r[l]), Place(r[l + 1]))
  BY DEF Flows, r
<1> DEFINE k == (i + l) - 1
<1>3. k \in 1 .. Len(s) - 1 /\ r[l] = s[k] /\ r[l + 1] = s[k + 1]
  <2>1. l \in 1 .. (j - i) + 1 /\ l + 1 \in 1 .. (j - i) + 1 /\ k \in 1 .. Len(s) - 1
    BY <1>1, <1>2
  <2>2. (i + (l + 1)) - 1 = k + 1
    OBVIOUS
  <2>3. QED
    BY <1>1, <2>1, <2>2
<1> HIDE DEF k
<1>4. QED
  BY <1>3 DEF Flows

LEMMA RestFlows ==
  ASSUME NEW S, NEW s \in Seq(S), Flows(s), NEW i \in 1 .. Len(s) + 1
  PROVE  Flows(From(s, i))
<1>1. i \in Nat \ {0} /\ i <= Len(s) + 1 /\ Len(s) \in Nat
  BY LenProperties
<1>2. QED
  BY <1>1, PieceFlows DEF From

LEMMA ShortFlows ==
  ASSUME NEW s, Len(s) \in {0, 1}
  PROVE  Flows(s)
<1>1. Len(s) = 0 \/ Len(s) = 1
  OBVIOUS
<1>2. \A l \in 1 .. Len(s) - 1 : FALSE
  <2>1. \A l \in 1 .. 0 - 1 : FALSE
    OBVIOUS
  <2>2. \A l \in 1 .. 1 - 1 : FALSE
    OBVIOUS
  <2>3. QED
    BY <1>1, <2>1, <2>2
<1>3. QED
  BY <1>2 DEF Flows

(* One behind the other. *)
LEMMA JoinFlows ==
  ASSUME NEW S, NEW s \in Seq(S), NEW t \in Seq(S), Flows(s), Flows(t),
         s # <<>> /\ t # <<>> => Joined(Place(s[Len(s)]), Place(t[1]))
  PROVE  Flows(s \o t)
<1> DEFINE r == s \o t
<1>1. Len(s) \in Nat /\ Len(t) \in Nat
  BY LenProperties
<1>2. /\ Len(r) = Len(s) + Len(t)
      /\ \A l \in 1 .. Len(s) + Len(t) : r[l] = IF l <= Len(s) THEN s[l] ELSE t[l - Len(s)]
  BY ConcatProperties
<1> HIDE DEF r
<1> SUFFICES ASSUME NEW l \in 1 .. Len(r) - 1
             PROVE  Joined(Place(r[l]), Place(r[l + 1]))
  BY DEF Flows, r
<1>3. l \in 1 .. Len(s) + Len(t) /\ l + 1 \in 1 .. Len(s) + Len(t)
  BY <1>1, <1>2
<1>4. CASE l + 1 <= Len(s)
  <2>1. r[l] = s[l] /\ r[l + 1] = s[l + 1] /\ l \in 1 .. Len(s) - 1
    BY <1>1, <1>2, <1>3, <1>4
  <2>2. QED
    BY <2>1 DEF Flows
<1>5. CASE l = Len(s)
  <2>1. r[l] = s[Len(s)] /\ (l + 1) - Len(s) = 1 /\ r[l + 1] = t[(l + 1) - Len(s)]
    BY <1>1, <1>2, <1>3, <1>5
  <2>2. s # <<>> /\ t # <<>>
    BY <1>1, <1>2, <1>5, EmptySeq
  <2>3. QED
    BY <2>1, <2>2
<1>6. CASE l > Len(s)
  <2> DEFINE k == l - Len(s)
  <2>1. r[l] = t[k] /\ r[l + 1] = t[(l + 1) - Len(s)] /\ k \in 1 .. Len(t) - 1
        /\ (l + 1) - Len(s) = k + 1
    BY <1>1, <1>2, <1>3, <1>6
  <2> HIDE DEF k
  <2>2. QED
    BY <2>1 DEF Flows
<1>7. QED
  BY <1>1, <1>4, <1>5, <1>6

-----------------------------------------------------------------------------
(* What is saved *)

FilesFlow(files) == \A n \in 1 .. Len(files) : Flows(files[n].content)

LEMMA LabelsAreTokens ==
  ASSUME NEW s \in Seq(Labels)
  PROVE  s \in Seq(Tokens)
<1>1. Labels \subseteq Tokens
  BY LabelPlace
<1>2. QED
  BY <1>1, SeqMonotonic

(* A picture's tokens stand for the same places when decoded. *)
LEMMA DecodedFlows ==
  ASSUME NEW s \in Seq(Labels), Flows(s)
  PROVE  Flows(base64_decode(s))
<1> DEFINE n == Base64Length(s)
           d == base64_decode(s)
<1>1. n \in 0 .. Len(s) /\ Len(s) \in Nat /\ \A j \in 1 .. n : s[j] \in Base64Words
  BY Base64Reads, LenProperties
<1>2. \A j \in 1 .. Len(s) : s[j] \in Labels
  BY ElementOfSeq
<1>3. d = [i \in 1 .. n |-> Decoded[s[i]]]
  BY DEF base64_decode
<1> HIDE DEF n
<1>4. Len(d) = n /\ \A i \in 1 .. n : d[i] = Decoded[s[i]]
  <2>1. d \in Seq(Bytes) /\ DOMAIN d = 1 .. n /\ n \in Nat
    BY <1>1, <1>3, Base64Type
  <2> HIDE DEF d
  <2>2. Len(d) = n
    BY <2>1, LenProperties
  <2>3. QED
    BY <1>3, <2>2
<1> HIDE DEF d
<1>5. \A i \in 1 .. n : Place(d[i]) = Place(s[i])
  <2> TAKE i \in 1 .. n
  <2>1. i \in 1 .. Len(s)
    BY <1>1
  <2>2. s[i] \in Labels /\ s[i] \in Base64Words /\ d[i] = Decoded[s[i]]
    BY <1>1, <1>2, <1>4, <2>1
  <2>3. QED
    BY <2>2, LabelPlace
<1>6. ASSUME NEW i \in 1 .. n - 1 PROVE Joined(Place(d[i]), Place(d[i + 1]))
  <2>1. i \in 1 .. n /\ i + 1 \in 1 .. n /\ i \in 1 .. Len(s) - 1
    BY <1>1
  <2>2. Place(d[i]) = Place(s[i]) /\ Place(d[i + 1]) = Place(s[i + 1])
    BY <1>5, <2>1
  <2>3. Joined(Place(s[i]), Place(s[i + 1]))
    BY <2>1 DEF Flows
  <2>4. QED
    BY <2>2, <2>3
<1>7. QED
  BY <1>4, <1>6 DEF d, Flows

LEMMA MoreFiles ==
  ASSUME NEW w \in Seq(Files), FilesFlow(w), NEW e \in Files, Flows(e.content)
  PROVE  FilesFlow(w \o <<e>>)
<1> DEFINE r == w \o <<e>>
<1>1. Len(w) \in Nat
  BY LenProperties
<1>2. Len(r) = Len(w) + 1 /\ r[Len(r)] = e
  BY LastOfConcat
<1>3. \A n \in 1 .. Len(w) : r[n] = w[n]
  <2>1. <<e>> \in Seq(Files) /\ Len(<<e>>) = 1
    OBVIOUS
  <2>2. \A l \in 1 .. Len(w) + Len(<<e>>) : r[l] = IF l <= Len(w) THEN w[l] ELSE <<e>>[l - Len(w)]
    BY <2>1, ConcatProperties
  <2>3. QED
    BY <1>1, <2>1, <2>2
<1> HIDE DEF r
<1>4. ASSUME NEW n \in 1 .. Len(r) PROVE Flows(r[n].content)
  <2>1. CASE n = Len(r)
    BY <1>2, <2>1
  <2>2. CASE n # Len(r)
    BY <1>1, <1>2, <1>3, <2>2 DEF FilesFlow
  <2>3. QED
    BY <2>1, <2>2
<1>5. QED
  BY <1>4 DEF r, FilesFlow

LEMMA MaybeFile ==
  ASSUME NEW w \in Seq(Files), FilesFlow(w), NEW name \in Seq(Tokens),
         NEW content \in Seq(Bytes), Flows(content)
  PROVE  /\ w \o FileWritten(name, content) \in Seq(Files)
         /\ FilesFlow(w \o FileWritten(name, content))
<1> DEFINE e == [path |-> name, content |-> content]
<1>1. e \in Files /\ e.content = content
  BY DEF Files
<1>2. FileWritten(name, content) = <<e>> \/ FileWritten(name, content) = <<>>
  BY DEF FileWritten
<1> HIDE DEF e
<1>3. CASE FileWritten(name, content) = <<e>>
  BY <1>1, <1>3, MoreFiles, LastOfConcat
<1>4. CASE FileWritten(name, content) = <<>>
  <2>1. w \o <<>> = w
    BY ConcatEmptySeq
  <2>2. QED
    BY <1>4, <2>1
<1>5. QED
  BY <1>2, <1>3, <1>4

(* What Save adds to the files. *)
LEMMA SavedFlows ==
  ASSUME NEW w \in Seq(Files), FilesFlow(w), NEW k, NEW name \in Seq(Tokens),
         NEW s \in Seq(Labels), Flows(s)
  PROVE  w \o Save(k, name, s) \in Seq(Files) /\ FilesFlow(w \o Save(k, name, s))
<1>1. s \in Seq(Bytes) /\ base64_decode(s) \in Seq(Bytes)
  <2>1. s \in Seq(Tokens)
    BY LabelsAreTokens
  <2>2. QED
    BY <2>1, Base64Type, SeqMonotonic DEF Bytes
<1>2. Flows(base64_decode(s))
  BY DecodedFlows
<1> DEFINE c == IF k = "file" THEN base64_decode(s) ELSE s
<1>3. c \in Seq(Bytes) /\ Flows(c)
  BY <1>1, <1>2
<1>4. Save(k, name, s) = FileWritten(name, c)
  BY DEF Save
<1> HIDE DEF c
<1>5. QED
  BY <1>3, <1>4, MaybeFile

(* FormatCharDatas cuts off a front. *)
LEMMA FormatCuts ==
  ASSUME NEW S, NEW s \in Seq(S), NEW flag
  PROVE  \E i \in 1 .. Len(s) + 1 : FormatCharDatas(s, flag) = From(s, i)
<1>1. Find(s, flag) \in 0 .. Len(s) /\ Len(s) \in Nat
  BY FindProperties, LenProperties
<1>2. Find(s, flag) + 1 \in 1 .. Len(s) + 1
  BY <1>1
<1>3. QED
  BY <1>2 DEF FormatCharDatas

LEMMA FormatFlows ==
  ASSUME NEW s \in Seq(Labels), Flows(s), NEW flag
  PROVE  FormatCharDatas(s, flag) \in Seq(Labels) /\ Flows(FormatCharDatas(s, flag))
<1>1. PICK i \in 1 .. Len(s) + 1 : FormatCharDatas(s, flag) = From(s, i)
  BY FormatCuts
<1>2. QED
  BY <1>1, RestFlows, FromProperties

(* And the data of a header is one read, or what is left of it. *)
LEMMA HeadCuts ==
  ASSUME NEW msg \in Seq(Tokens), msg # <<>>
  PROVE  \E i \in 1 .. Len(msg) + 1 : HeadData(msg) = From(msg, i)
<1>1. HeadEnd(msg) \in 0 .. Len(msg) /\ Len(msg) \in Nat /\ Len(msg) # 0
  BY HeadEndProperties, LenProperties, EmptySeq
<1>2. From(msg, 1) = msg
  <2>1. From(msg, 1) \in Seq(Tokens) /\ Len(From(msg, 1)) = (Len(msg) - 1) + 1
        /\ \A l \in 1 .. (Len(msg) - 1) + 1 : From(msg, 1)[l] = msg[(1 + l) - 1]
    <3>1. 1 \in 1 .. Len(msg) + 1
      BY <1>1
    <3>2. QED
      BY <3>1, FromProperties
  <2>2. Len(From(msg, 1)) = Len(msg) /\ \A l \in 1 .. Len(msg) : From(msg, 1)[l] = msg[l]
    BY <1>1, <2>1
  <2>3. QED
    BY <2>1, <2>2, SameString
<1>3. \/ HeadData(msg) = From(msg, 2) \/ HeadData(msg) = From(msg, HeadEnd(msg) + 1)
      \/ HeadData(msg) = msg
  BY DEF HeadData
<1>4. 2 \in 1 .. Len(msg) + 1 /\ HeadEnd(msg) + 1 \in 1 .. Len(msg) + 1 /\ 1 \in 1 .. Len(msg) + 1
  BY <1>1
<1>5. QED
  BY <1>2, <1>3, <1>4

-----------------------------------------------------------------------------
(* A read *)

LEMMA LastOfRest ==
  ASSUME NEW S, NEW s \in Seq(S), NEW i \in 1 .. Len(s) + 1, From(s, i) # <<>>
  PROVE  From(s, i)[Len(From(s, i))] = s[Len(s)]
<1> DEFINE r == From(s, i)
<1>1. /\ r \in Seq(S) /\ Len(r) = (Len(s) - i) + 1
      /\ \A l \in 1 .. (Len(s) - i) + 1 : r[l] = s[(i + l) - 1]
  BY FromProperties
<1>2. Len(r) # 0 /\ Len(r) \in Nat /\ Len(s) \in Nat
  BY <1>1, EmptySeq, LenProperties
<1> HIDE DEF r
<1>3. Len(r) \in 1 .. (Len(s) - i) + 1 /\ (i + Len(r)) - 1 = Len(s)
  BY <1>1, <1>2
<1>4. r[Len(r)] = s[(i + Len(r)) - 1]
  BY <1>1, <1>3
<1>5. QED
  BY <1>3, <1>4 DEF r

LEMMA LastOfJoin ==
  ASSUME NEW S, NEW s \in Seq(S), NEW t \in Seq(S), t # <<>>
  PROVE  s \o t \in Seq(S) /\ (s \o t)[Len(s \o t)] = t[Len(t)]
<1> DEFINE r == s \o t
<1>1. Len(s) \in Nat /\ Len(t) \in Nat /\ Len(t) # 0
  BY LenProperties, EmptySeq
<1>2. /\ r \in Seq(S) /\ Len(r) = Len(s) + Len(t)
      /\ \A l \in 1 .. Len(s) + Len(t) : r[l] = IF l <= Len(s) THEN s[l] ELSE t[l - Len(s)]
  BY ConcatProperties
<1> HIDE DEF r
<1>3. Len(r) \in 1 .. Len(s) + Len(t) /\ ~(Len(r) <= Len(s)) /\ Len(r) - Len(s) = Len(t)
  BY <1>1, <1>2
<1>4. r[Len(r)] = t[Len(r) - Len(s)]
  BY <1>2, <1>3
<1>5. QED
  BY <1>2, <1>3, <1>4 DEF r

(* What a read leaves: files and data that flow, and in an open transfer   *)
(* the end of the read is the end of the data.                             *)
Receives(msg) ==
  /\ fileData' \in Seq(Labels) /\ Flows(fileData')
  /\ FilesFlow(written')
  /\ running' /\ (\E k \in Kinds : transFile'[k]) /\ fileData' # <<>> =>
       fileData'[Len(fileData')] = msg[Len(msg)]

(* What it finds. *)
Ready(msg) ==
  /\ msg \in Seq(Labels) /\ msg # <<>> /\ Flows(msg)
  /\ fileData \in Seq(Labels) /\ Flows(fileData) /\ FilesFlow(written)
  /\ (\E k \in Kinds : transFile[k]) /\ fileData # <<>> => Joined(Place(Latest), Place(msg[1]))

LEMMA HeaderReceives ==
  ASSUME TransferTypes, NEW msg, Ready(msg), NEW k \in Kinds, HeaderRead(k, msg)
  PROVE  Receives(msg)
<1>1. msg \in Seq(Labels) /\ msg \in Seq(Tokens) /\ msg # <<>> /\ Flows(msg)
  BY LabelsAreTokens DEF Ready
<1>2. PICK i \in 1 .. Len(msg) + 1 : HeadData(msg) = From(msg, i)
  BY <1>1, HeadCuts
<1> DEFINE data == HeadData(msg)
<1>3. data \in Seq(Labels) /\ Flows(data)
  BY <1>1, <1>2, RestFlows, FromProperties
<1>4. data # <<>> => data[Len(data)] = msg[Len(msg)]
  BY <1>1, <1>2, LastOfRest
<1> HIDE DEF data
<1> DEFINE body == FormatCharDatas(data, Marker[k])
<1>5. body \in Seq(Labels) /\ Flows(body)
  BY <1>3, FormatFlows
<1>6. HeadName(msg) \in Seq(Tokens)
  BY <1>1, HeadTypes
<1>7. written \in Seq(Files) /\ FilesFlow(written)
  BY DEF TransferTypes, Ready
<1>8. FilesFlow(written \o Save(k, HeadName(msg), body))
  BY <1>5, <1>6, <1>7, SavedFlows
<1>9. written' = written \/ written' = written \o Save(k, HeadName(msg), body)
  BY DEF HeaderRead, data
<1>10. fileData' = <<>> \/ fileData' = data
  BY DEF HeaderRead, data
<1>11. <<>> \in Seq(Labels) /\ Flows(<<>>)
  BY ShortFlows
<1> HIDE DEF body
<1>12. QED
  BY <1>3, <1>4, <1>7, <1>8, <1>9, <1>10, <1>11 DEF Receives

LEMMA BodyReceives ==
  ASSUME TransferTypes, NEW msg, Ready(msg), NEW k \in Kinds, BodyRead(k, msg)
  PROVE  Receives(msg)
<1>1. msg \in Seq(Labels) /\ msg \in Seq(Tokens) /\ msg # <<>> /\ Flows(msg)
      /\ fileData \in Seq(Labels) /\ Flows(fileData)
  BY LabelsAreTokens DEF Ready
<1>2. transFile[k]
  BY DEF BodyRead, TakenBy, Claims
<1> DEFINE data == fileData \o msg
<1>3. data \in Seq(Labels) /\ Flows(data) /\ data[Len(data)] = msg[Len(msg)]
  <2>1. fileData # <<>> /\ msg # <<>> => Joined(Place(fileData[Len(fileData)]), Place(msg[1]))
    BY <1>2 DEF Ready, Latest
  <2>2. QED
    BY <1>1, <2>1, JoinFlows, LastOfJoin
<1> HIDE DEF data
<1> DEFINE body == FormatCharDatas(data, Marker[k])
<1>4. body \in Seq(Labels) /\ Flows(body) /\ (body # <<>> => body[Len(body)] = msg[Len(msg)])
  <2>1. PICK i \in 1 .. Len(data) + 1 : body = From(data, i)
    BY <1>3, FormatCuts
  <2>2. body # <<>> => body[Len(body)] = data[Len(data)]
    BY <1>3, <2>1, LastOfRest
  <2>3. QED
    BY <1>3, <2>2, FormatFlows
<1> HIDE DEF body
<1>5. fileData' = data \/ fileData' = body
  BY DEF BodyRead, data, body
<1> DEFINE log  == FileWritten(<<"123.log">>, fileData')
           w    == written \o log
           name == currentTransferFileName
<1>6. \/ written' = written
      \/ written' = w \o Save(k, name, fileData')
      \/ written' = written \o <<>> \o Save(k, name, fileData')
  BY DEF BodyRead
<1>7. written \in Seq(Files) /\ FilesFlow(written) /\ name \in Seq(Tokens)
  BY DEF TransferTypes, Ready
<1>8. fileData' \in Seq(Labels) /\ Flows(fileData')
  BY <1>3, <1>4, <1>5
<1>9. w \in Seq(Files) /\ FilesFlow(w)
  <2>1. <<"123.log">> \in Seq(Tokens)
    BY ServiceAssumption DEF Tokens
  <2>2. fileData' \in Seq(Bytes)
    <3>1. fileData' \in Seq(Tokens)
      BY <1>8, LabelsAreTokens
    <3>2. QED
      BY <3>1, SeqMonotonic DEF Bytes
  <2>3. QED
    BY <1>7, <1>8, <2>1, <2>2, MaybeFile
<1>10. written \o <<>> = written
  BY <1>7, ConcatEmptySeq
<1> HIDE DEF w, name
<1>11. FilesFlow(w \o Save(k, name, fileData')) /\ FilesFlow(written \o Save(k, name, fileData'))
  BY <1>7, <1>8, <1>9, SavedFlows DEF name
<1>12. FilesFlow(written')
  BY <1>6, <1>7, <1>10, <1>11
<1>13. fileData' # <<>> => fileData'[Len(fileData')] = msg[Len(msg)]
  BY <1>3, <1>4, <1>5
<1>14. QED
  BY <1>8, <1>12, <1>13 DEF Receives

(* A text is read when no transfer is open, and leaves all that. *)
LEMMA ReadReceives ==
  ASSUME TransferTypes, NEW msg, Ready(msg), NEW c, read_cb(c, msg)
  PROVE  Receives(msg)
<1>1. CASE HeadThrows(msg)
  BY <1>1 DEF read_cb, transferVars, Ready, Receives
<1>2. ASSUME NEW k \in Kinds, HeaderRead(k, msg) \/ BodyRead(k, msg)
      PROVE  Receives(msg)
  BY <1>2, HeaderReceives, BodyReceives
<1>3. CASE TextRead(c, msg)
  <2>1. \A k \in Kinds : ~transFile'[k]
    BY <1>3 DEF TextRead, Claims, transferVars
  <2>2. fileData' = fileData /\ written' = written
    BY <1>3 DEF TextRead, transferVars
  <2>3. QED
    BY <2>1, <2>2 DEF Ready, Receives
<1>4. QED
  BY <1>1, <1>2, <1>3 DEF read_cb

(* All of a string. *)
LEMMA FromFirst ==
  ASSUME NEW S, NEW s \in Seq(S)
  PROVE  From(s, 1) = s
<1>1. Len(s) \in Nat /\ 1 \in 1 .. Len(s) + 1
  BY LenProperties
<1>2. From(s, 1) \in Seq(S) /\ Len(From(s, 1)) = (Len(s) - 1) + 1
      /\ \A l \in 1 .. (Len(s) - 1) + 1 : From(s, 1)[l] = s[(1 + l) - 1]
  BY <1>1, FromProperties
<1>3. Len(From(s, 1)) = Len(s) /\ \A l \in 1 .. Len(s) : From(s, 1)[l] = s[l]
  BY <1>1, <1>2
<1>4. QED
  BY <1>2, <1>3, SameString

(* A read takes the front of what is unread. *)
LEMMA FrontRead ==
  ASSUME NEW a \in Seq(Labels), NEW b \in Seq(Labels), NEW n \in 1 .. Len(b),
         NEW t \in 1 .. Len(a) + n
  PROVE  /\ SubSeq(a \o SubSeq(b, 1, n), 1, t) = SubSeq(a \o b, 1, t)
         /\ From(a \o SubSeq(b, 1, n), t + 1) \o From(b, n + 1) = From(a \o b, t + 1)
         /\ From(a \o SubSeq(b, 1, n), t + 1) \in Seq(Labels) /\ From(b, n + 1) \in Seq(Labels)
         /\ Len(a \o SubSeq(b, 1, n)) = Len(a) + n /\ Len(a) + n <= Len(a \o b)
<1> DEFINE m == a \o b
<1>1. Len(a) \in Nat /\ Len(b) \in Nat /\ n \in 0 .. Len(b) /\ t \in 0 .. Len(a) + n
  BY LenProperties
<1>2. m \in Seq(Labels) /\ Len(m) = Len(a) + Len(b)
  BY ConcatProperties
<1>3. IsRest(m, 0, a, b)
  <2>1. From(m, 1) = m
    BY <1>2, FromFirst
  <2>2. 0 + 1 = 1
    OBVIOUS
  <2>3. QED
    BY <2>1, <2>2 DEF IsRest
<1>4. 0 \in 0 .. Len(m)
  BY <1>1, <1>2
<1> HIDE DEF m
<1>5. Taken(a, b, n, t) = SubSeq(m, 0 + 1, 0 + t)
  BY <1>1, <1>2, <1>3, <1>4, ReadCut
<1>6. 0 + 1 = 1 /\ 0 + t = t
  BY <1>1
<1>7. Taken(a, b, n, t) = SubSeq(m, 1, t)
  BY <1>5, <1>6
<1>8. /\ Left(a, b, n, t) \o From(b, n + 1) = From(a \o b, t + 1)
      /\ Left(a, b, n, t) \in Seq(Labels) /\ From(b, n + 1) \in Seq(Labels)
  BY <1>1, Cut
<1>9. Len(a \o SubSeq(b, 1, n)) = Len(a) + n
  BY <1>1, Moved
<1>10. QED
  BY <1>1, <1>2, <1>7, <1>8, <1>9 DEF Taken, Left, m

(* read_cb is called with the front of what c has not been read of. *)
LEMMA Arrival ==
  ASSUME LabelsInv, NEW c \in Clients, Readable(c)
  PROVE  /\ \E t \in 1 .. Len(Unread(c)) :
              /\ read_cb(c, SubSeq(Unread(c), 1, t))
              /\ Unread(c)' = From(Unread(c), t + 1)
         /\ stream' \in [Clients -> Seq(Labels)] /\ input' \in [Clients -> Seq(Labels)]
         /\ \A d \in Clients \ {c} : stream'[d] = stream[d] /\ input'[d] = input[d]
         /\ UNCHANGED <<registryVars, clientVars>>
<1>0. PICK n \in 1 .. AtMost(Len(stream[c]), SocketRead) :
       LET buf   == input[c] \o SubSeq(stream[c], 1, n)
           taken == AtMost(Len(buf), FileBuffers)
       IN  /\ stream' = [stream EXCEPT ![c] = From(stream[c], n + 1)]
           /\ input' = [input EXCEPT ![c] = From(buf, taken + 1)]
           /\ read_cb(c, SubSeq(buf, 1, taken))
  BY DEF Readable
<1> DEFINE a == input[c]
           b == stream[c]
           buf == a \o SubSeq(b, 1, n)
           t   == AtMost(Len(buf), FileBuffers)
<1>1. a \in Seq(Labels) /\ b \in Seq(Labels) /\ Len(a) \in Nat /\ Len(b) \in Nat
  BY LenProperties DEF LabelsInv
<1>2. n \in 1 .. Len(b)
  BY <1>1, ServiceAssumption DEF AtMost
<1>3. Len(buf) = Len(a) + n
  BY <1>1, <1>2, Moved
<1>4. t \in 1 .. Len(a) + n
  <2> HIDE DEF buf
  <2>1. n \in Nat \ {0}
    BY <1>1, <1>2
  <2>2. QED
    BY <1>1, <1>3, <2>1, ServiceAssumption DEF AtMost
<1>5. /\ stream' = [stream EXCEPT ![c] = From(b, n + 1)]
      /\ input' = [input EXCEPT ![c] = From(buf, t + 1)]
      /\ read_cb(c, SubSeq(buf, 1, t))
  BY <1>0
<1>6. Unread(c) = a \o b
  BY DEF Unread
<1> HIDE DEF t, a, b
<1>7. /\ SubSeq(buf, 1, t) = SubSeq(a \o b, 1, t)
      /\ From(buf, t + 1) \o From(b, n + 1) = From(a \o b, t + 1)
      /\ From(buf, t + 1) \in Seq(Labels) /\ From(b, n + 1) \in Seq(Labels)
      /\ Len(a) + n <= Len(a \o b)
  BY <1>1, <1>2, <1>4, FrontRead
<1> HIDE DEF buf
<1>8. stream \in [Clients -> Seq(Labels)] /\ input \in [Clients -> Seq(Labels)]
  BY DEF LabelsInv
<1>9. input'[c] = From(buf, t + 1) /\ stream'[c] = From(b, n + 1)
  BY <1>5, <1>8
<1>10. /\ read_cb(c, SubSeq(Unread(c), 1, t))
      /\ Unread(c)' = From(Unread(c), t + 1)
  BY <1>5, <1>7, <1>9, <1>6 DEF Unread
<1>11. t \in 1 .. Len(Unread(c))
  <2>1. Len(a \o b) \in Nat /\ n \in Nat
    BY <1>1, <1>2, ConcatProperties, LenProperties
  <2>2. t \in 1 .. Len(a \o b)
    BY <1>1, <1>4, <1>7, <2>1
  <2>3. QED
    BY <1>6, <2>2
<1>12. /\ stream' \in [Clients -> Seq(Labels)] /\ input' \in [Clients -> Seq(Labels)]
       /\ \A d \in Clients \ {c} : stream'[d] = stream[d] /\ input'[d] = input[d]
  BY <1>5, <1>7, <1>8
<1>13. UNCHANGED <<registryVars, clientVars>>
  BY DEF Readable
<1>14. QED
  BY <1>10, <1>11, <1>12, <1>13

-----------------------------------------------------------------------------
(* Monotonic: what is joined stays joined *)

LEMMA JoinedStays ==
  ASSUME stranded \subseteq stranded'
  PROVE  \A x, y : Joined(x, y) => Joined(x, y)'
<1> SUFFICES ASSUME NEW x, NEW y, Joined(x, y) PROVE Joined(x, y)'
  OBVIOUS
<1>1. /\ At(x)' = At(x) /\ At(y)' = At(y) /\ Precedes(x, y)' = Precedes(x, y) /\ Typed' = Typed
      /\ \A z : At(z)' = At(z) /\ Precedes(x, z)' = Precedes(x, z) /\ Precedes(z, y)' = Precedes(z, y)
  BY DEF At, Precedes, Typed
<1>2. QED
  BY <1>1 DEF Joined

LEMMA FlowsStay ==
  ASSUME stranded \subseteq stranded'
  PROVE  \A s : Flows(s) => Flows(s)'
<1> SUFFICES ASSUME NEW s, Flows(s) PROVE Flows(s)'
  OBVIOUS
<1>1. \A b : Place(b)' = Place(b)
  BY DEF Place, Typed, At, Stands
<1>2. \A x, y : Joined(x, y) => Joined(x, y)'
  BY JoinedStays
<1>3. QED
  BY <1>1, <1>2 DEF Flows

LEMMA FilesFlowStay ==
  ASSUME stranded \subseteq stranded'
  PROVE  \A w : FilesFlow(w) => FilesFlow(w)'
BY FlowsStay DEF FilesFlow

-----------------------------------------------------------------------------
(* What is unread of the connection of the day *)

(* The tokens of s in the places it has. *)
LEMMA Transit ==
  ASSUME NEW s \in Seq(Labels)
  PROVE  /\ Len(s) \in Nat /\ DOMAIN s = 1 .. Len(s)
         /\ \A i \in 1 .. Len(s) : s[i] \in Labels /\ Place(s[i]) \in Typed /\ At(Place(s[i])) = s[i]
         /\ \A z \in Typed : At(z) \in InTransit(s) <=> \E i \in 1 .. Len(s) : Place(s[i]) = z
<1>1. Len(s) \in Nat /\ DOMAIN s = 1 .. Len(s) /\ \A i \in 1 .. Len(s) : s[i] \in Labels
  BY LenProperties, ElementOfSeq
<1>2. \A i \in 1 .. Len(s) : Place(s[i]) \in Typed /\ At(Place(s[i])) = s[i]
  BY <1>1, LabelPlace
<1>3. ASSUME NEW z \in Typed, At(z) \in InTransit(s)
      PROVE  \E i \in 1 .. Len(s) : Place(s[i]) = z
  <2>1. PICK i \in 1 .. Len(s) : At(z) = s[i]
    BY <1>1, <1>3 DEF InTransit
  <2>2. Place(s[i]) = z
    BY <2>1, PlaceOfAt
  <2>3. QED
    BY <2>2
<1>4. ASSUME NEW z \in Typed, NEW i \in 1 .. Len(s), Place(s[i]) = z
      PROVE  At(z) \in InTransit(s)
  <2>1. At(z) = s[i]
    BY <1>2, <1>4
  <2>2. QED
    BY <1>1, <2>1 DEF InTransit
<1>5. QED
  BY <1>1, <1>2, <1>3, <1>4

(* What comes next in s behind a known place is joined to it. *)
LEMMA NextJoined ==
  ASSUME NEW s \in Seq(Labels), InOrder(s), NEW x \in Typed, Known(x, s), NEW i \in 1 .. Len(s),
         Precedes(x, Place(s[i])), Place(s[i])[1] <= Gone, Gone \in Nat,
         \A j \in 1 .. Len(s) : j < i => ~Precedes(x, Place(s[j]))
  PROVE  Joined(x, Place(s[i]))
<1> DEFINE y == Place(s[i])
<1>1. y \in Typed
  BY Transit
<1>2. ASSUME NEW z \in Typed, Precedes(x, z), Precedes(z, y), At(z) \notin stranded
      PROVE  FALSE
  <2>1. z[1] <= Gone
    <3>1. z[1] \in Nat /\ y[1] \in Nat
      BY <1>1, TypedPlace
    <3>2. z[1] <= y[1]
      BY <1>2, <3>1 DEF Precedes
    <3>3. QED
      BY <3>1, <3>2
  <2>2. PICK j \in 1 .. Len(s) : Place(s[j]) = z
    BY <1>2, <2>1, Transit DEF Known
  <2>3. CASE j < i
    BY <1>2, <2>2, <2>3
  <2>4. CASE j = i
    BY <1>1, <1>2, <2>2, <2>4, Order
  <2>5. CASE i < j
    BY <1>1, <1>2, <2>2, <2>5, Order DEF InOrder
  <2>6. QED
    BY <2>3, <2>4, <2>5
<1>3. QED
  BY <1>2 DEF Joined

LEMMA WholeFlows ==
  ASSUME NEW s \in Seq(Labels), InOrder(s), \A i \in 1 .. Len(s) : Known(Place(s[i]), s), Gone \in Nat
  PROVE  Flows(s)
<1> SUFFICES ASSUME NEW i \in 1 .. Len(s) - 1 PROVE Joined(Place(s[i]), Place(s[i + 1]))
  BY DEF Flows
<1>1. i \in 1 .. Len(s) /\ i + 1 \in 1 .. Len(s) /\ i < i + 1
  BY Transit
<1> DEFINE x == Place(s[i])
<1>2. x \in Typed /\ Known(x, s) /\ Precedes(x, Place(s[i + 1])) /\ Place(s[i + 1])[1] <= Gone
  BY <1>1, Transit DEF InOrder, Known
<1>3. \A j \in 1 .. Len(s) : j < i + 1 => ~Precedes(x, Place(s[j]))
  <2> SUFFICES ASSUME NEW j \in 1 .. Len(s), j < i + 1 PROVE ~Precedes(x, Place(s[j]))
    OBVIOUS
  <2>1. CASE j = i
    BY <1>2, <2>1, Order
  <2>2. CASE j < i
    <3>1. Precedes(Place(s[j]), x) /\ Place(s[j]) \in Typed
      BY <1>1, <2>2, Transit DEF InOrder
    <3>2. QED
      BY <1>2, <3>1, Order
  <2>3. QED
    BY <2>1, <2>2
<1> HIDE DEF x
<1>4. Joined(x, Place(s[i + 1]))
  BY <1>1, <1>2, <1>3, NextJoined
<1>5. QED
  BY <1>4 DEF x

LEMMA AheadJoined ==
  ASSUME NEW s \in Seq(Labels), InOrder(s), \A i \in 1 .. Len(s) : Known(Place(s[i]), s), Gone \in Nat,
         NEW x \in Typed, Ahead(x, s), s # <<>>
  PROVE  Joined(x, Place(s[1]))
<1>1. 1 \in 1 .. Len(s)
  BY Transit, EmptySeq
<1>2. Known(x, s) /\ Precedes(x, Place(s[1])) /\ Place(s[1])[1] <= Gone
  BY <1>1 DEF Ahead, Known
<1>3. \A j \in 1 .. Len(s) : j < 1 => ~Precedes(x, Place(s[j]))
  OBVIOUS
<1>4. QED
  BY <1>1, <1>2, <1>3, NextJoined

(* With t of s read, what is behind them stays known. *)
LEMMA RestKnown ==
  ASSUME NEW s \in Seq(Labels), NEW t \in 0 .. Len(s), NEW x, Known(x, s),
         \A j \in 1 .. t : ~Precedes(x, Place(s[j]))
  PROVE  Known(x, From(s, t + 1))
<1> DEFINE r == From(s, t + 1)
<1>1. /\ r \in Seq(Labels) /\ Len(r) = Len(s) - t
      /\ \A l \in 1 .. Len(s) - t : r[l] = s[t + l]
  BY RestProperties
<1>2. Len(s) \in Nat /\ t \in Nat /\ t <= Len(s)
  BY LenProperties
<1> HIDE DEF r
<1>3. ASSUME NEW z \in Typed, Precedes(x, z), z[1] <= Gone, At(z) \notin stranded
      PROVE  At(z) \in InTransit(r)
  <2>1. PICK j \in 1 .. Len(s) : Place(s[j]) = z
    BY <1>3, Transit DEF Known
  <2>2. ~(j <= t)
    BY <1>2, <1>3, <2>1
  <2> DEFINE l == j - t
  <2>3. l \in 1 .. Len(r) /\ l \in 1 .. Len(s) - t /\ t + l = j
    BY <1>1, <1>2, <2>2
  <2> HIDE DEF l
  <2>4. r[l] = s[j]
    BY <1>1, <2>3
  <2>5. QED
    BY <1>1, <2>1, <2>3, <2>4, Transit
<1>4. QED
  BY <1>3 DEF Known, r

(* A part of what is in order. *)
LEMMA RestInOrder ==
  ASSUME NEW s \in Seq(Labels), NEW t \in 0 .. Len(s), InOrder(s)
  PROVE  LET r == From(s, t + 1)
         IN  /\ r \in Seq(Labels) /\ Len(r) = Len(s) - t /\ InOrder(r)
             /\ \A l \in 1 .. Len(r) : t + l \in 1 .. Len(s) /\ r[l] = s[t + l]
<1> DEFINE r == From(s, t + 1)
<1>1. /\ r \in Seq(Labels) /\ Len(r) = Len(s) - t
      /\ \A l \in 1 .. Len(s) - t : r[l] = s[t + l]
  BY RestProperties
<1>2. Len(s) \in Nat /\ t \in Nat /\ t <= Len(s)
  BY LenProperties
<1> HIDE DEF r
<1>3. \A l \in 1 .. Len(r) : t + l \in 1 .. Len(s) /\ r[l] = s[t + l]
  BY <1>1, <1>2
<1>4. ASSUME NEW i \in 1 .. Len(r), NEW j \in 1 .. Len(r), i < j
      PROVE  Precedes(Place(r[i]), Place(r[j]))
  <2>1. t + i \in 1 .. Len(s) /\ t + j \in 1 .. Len(s) /\ t + i < t + j
    BY <1>2, <1>3, <1>4
  <2>2. Precedes(Place(s[t + i]), Place(s[t + j]))
    BY <2>1 DEF InOrder
  <2>3. QED
    BY <1>3, <2>2
<1>5. QED
  BY <1>1, <1>3, <1>4 DEF r, InOrder

(* So a read leaves the rest whole, with what it ended in ahead of it. *)
LEMMA RestWhole ==
  ASSUME NEW s \in Seq(Labels), InOrder(s), \A i \in 1 .. Len(s) : Known(Place(s[i]), s),
         NEW t \in 1 .. Len(s)
  PROVE  LET r == From(s, t + 1)
         IN  /\ InOrder(r) /\ \A i \in 1 .. Len(r) : Known(Place(r[i]), r)
             /\ Ahead(Place(s[t]), r)
<1> DEFINE r == From(s, t + 1)
<1>1. Len(s) \in Nat /\ t \in 0 .. Len(s) /\ t \in Nat
  BY LenProperties
<1>2. /\ r \in Seq(Labels) /\ Len(r) = Len(s) - t /\ InOrder(r)
      /\ \A l \in 1 .. Len(r) : t + l \in 1 .. Len(s) /\ r[l] = s[t + l]
  BY <1>1, RestInOrder
<1>3. ASSUME NEW i \in 1 .. Len(s), t <= i PROVE Known(Place(s[i]), r)
  <2>1. \A j \in 1 .. t : ~Precedes(Place(s[i]), Place(s[j]))
    <3> SUFFICES ASSUME NEW j \in 1 .. t PROVE ~Precedes(Place(s[i]), Place(s[j]))
      OBVIOUS
    <3>1. j \in 1 .. Len(s) /\ j <= i
      BY <1>1, <1>3
    <3>2. Place(s[i]) \in Typed /\ Place(s[j]) \in Typed
      BY <3>1, Transit
    <3>3. CASE j = i
      BY <3>2, <3>3, Order
    <3>4. CASE j < i
      BY <3>1, <3>2, <3>4, Order DEF InOrder
    <3>5. QED
      BY <3>1, <3>3, <3>4
  <2>2. QED
    BY <1>1, <2>1, RestKnown
<1> HIDE DEF r
<1>4. ASSUME NEW i \in 1 .. Len(r)
      PROVE  Known(Place(r[i]), r) /\ Precedes(Place(s[t]), Place(r[i]))
  <2>1. t + i \in 1 .. Len(s) /\ r[i] = s[t + i] /\ t <= t + i /\ t < t + i
    BY <1>1, <1>2, <1>4
  <2>2. QED
    BY <1>3, <2>1 DEF InOrder
<1>5. Known(Place(s[t]), r)
  BY <1>1, <1>3
<1>6. QED
  BY <1>2, <1>4, <1>5 DEF r, Ahead

-----------------------------------------------------------------------------
(* The client *)

LEMMA Longer ==
  ASSUME NEW S, NEW s \in Seq(S), NEW e \in S
  PROVE  /\ Append(s, e) \in Seq(S) /\ Len(Append(s, e)) = Len(s) + 1 /\ Len(s) \in Nat
         /\ \A i \in 1 .. Len(s) : Append(s, e)[i] = s[i]
         /\ Append(s, e)[Len(s) + 1] = e
BY AppendProperties, LenProperties

LEMMA Shorter ==
  ASSUME NEW S, NEW s \in Seq(S), s # <<>>
  PROVE  /\ Tail(s) \in Seq(S) /\ Len(Tail(s)) = Len(s) - 1 /\ Len(s) \in Nat \ {0}
         /\ \A i \in 1 .. Len(s) - 1 : Tail(s)[i] = s[i + 1]
         /\ Head(s) = s[1] /\ Head(s) \in S
<1>1. Len(s) \in Nat /\ Len(s) # 0
  BY LenProperties, EmptySeq
<1>2. /\ Tail(s) \in Seq(S) /\ Len(Tail(s)) = Len(s) - 1
      /\ \A i \in 1 .. Len(Tail(s)) : Tail(s)[i] = s[i + 1]
  BY HeadTailProperties
<1>3. Head(s) = s[1] /\ Head(s) \in S
  BY HeadTailProperties, <1>1, ElementOfSeq
<1>4. QED
  BY <1>1, <1>2, <1>3

(* Two more *)
LEMMA TwoLonger ==
  ASSUME NEW S, NEW s \in Seq(S), NEW a \in S, NEW b \in S
  PROVE  /\ s \o <<a, b>> \in Seq(S) /\ Len(s \o <<a, b>>) = Len(s) + 2
         /\ \A i \in 1 .. Len(s) : (s \o <<a, b>>)[i] = s[i]
         /\ (s \o <<a, b>>)[Len(s) + 1] = a /\ (s \o <<a, b>>)[Len(s) + 2] = b
<1> DEFINE p == <<a, b>>
<1>1. p \in Seq(S) /\ Len(p) = 2 /\ p[1] = a /\ p[2] = b
  OBVIOUS
<1>2. Len(s) \in Nat
  BY LenProperties
<1> HIDE DEF p
<1> DEFINE r == s \o p
<1>3. /\ r \in Seq(S) /\ Len(r) = Len(s) + Len(p)
      /\ \A l \in 1 .. Len(s) + Len(p) : r[l] = IF l <= Len(s) THEN s[l] ELSE p[l - Len(s)]
  BY <1>1, ConcatProperties
<1> HIDE DEF r
<1>4. Len(s) + 1 \in 1 .. Len(s) + Len(p) /\ ~(Len(s) + 1 <= Len(s)) /\ (Len(s) + 1) - Len(s) = 1
  BY <1>1, <1>2
<1>5. Len(s) + 2 \in 1 .. Len(s) + Len(p) /\ ~(Len(s) + 2 <= Len(s)) /\ (Len(s) + 2) - Len(s) = 2
  BY <1>1, <1>2
<1>6. r[Len(s) + 1] = a /\ r[Len(s) + 2] = b
  BY <1>1, <1>3, <1>4, <1>5
<1>7. \A i \in 1 .. Len(s) : r[i] = s[i]
  BY <1>1, <1>2, <1>3
<1>8. QED
  BY <1>1, <1>3, <1>6, <1>7 DEF r, p

(* The numbers of the client. *)
LEMMA ClientNumbers ==
  ASSUME ClientInv
  PROVE  /\ typed \in Nat /\ MaxTyped \in Nat
         /\ Len(Queued) \in Nat /\ Len(output) \in Nat /\ Len(wire) \in Nat
         /\ Queued \in Seq(Client!Entries) /\ Pushed \in Nat
<1>1. Queued \in Seq(Client!Entries)
  BY Shorter DEF ClientInv, Queued
<1>2. Pushed \in Nat
  BY PathAssumption DEF ClientInv, Pushed
<1>3. QED
  BY <1>1, <1>2, PathAssumption, LenProperties DEF ClientInv

LEMMA CompletesIn ==
  ASSUME NEW q, Client!Completes(q), ~(adding /\ using)
  PROVE  writeQueue' = q
BY DEF Client!Completes

LEMMA AfterPushBegins ==
  ASSUME ClientInv, Client!PushBegins, ~overlapped'
  PROVE  ClientInv' /\ Gone' = Gone
<1>1. /\ ~adding /\ adding' = TRUE /\ typed' = typed + 1 /\ typed < MaxTyped /\ ~using /\ using' = using
      /\ UNCHANGED <<writeQueue, output, wire>>
  BY DEF Client!PushBegins, Client!streamVars, ClientInv
<1>2. Queued' = Queued
  BY <1>1 DEF Queued
<1>3. Pushed' = Pushed
  BY <1>1, ClientNumbers DEF Pushed
<1>4. Gone' = Gone
  BY <1>1, <1>2, <1>3 DEF Gone
<1>5. QED
  BY <1>1, <1>2, <1>4, ClientNumbers DEF ClientInv, Client!Entries, Client!Pieces

LEMMA AfterPushEnds ==
  ASSUME ClientInv, Client!PushEnds
  PROVE  ClientInv' /\ Gone' = Gone
<1>1. /\ adding /\ adding' = FALSE /\ ~using /\ using' = using
      /\ UNCHANGED <<typed, output, wire>> /\ writeQueue' = Append(writeQueue, typed)
  BY CompletesIn DEF Client!PushEnds, Client!streamVars, ClientInv
<1>2. typed \in Client!Entries
  BY <1>1, ClientNumbers DEF ClientInv, Client!Entries
<1>3. Queued = writeQueue /\ Queued' = writeQueue'
  BY <1>1 DEF Queued
<1>4. /\ writeQueue' \in Seq(Client!Entries) /\ Len(writeQueue') = Len(writeQueue) + 1 /\ Len(writeQueue) \in Nat
      /\ \A i \in 1 .. Len(writeQueue) : writeQueue'[i] = writeQueue[i]
      /\ writeQueue'[Len(writeQueue) + 1] = typed
  BY <1>1, <1>2, Longer DEF ClientInv
<1>5. Pushed = typed - 1 /\ Pushed' = typed
  BY <1>1 DEF Pushed
<1>6. Gone' = Gone
  BY <1>1, <1>3, <1>4, <1>5, ClientNumbers DEF Gone
<1>7. 2 * typed = Gone + Len(wire) + Len(output) + 2 * (Len(writeQueue) + 1)
  <2>1. Gone = 2 * (typed - 1) - 2 * Len(writeQueue) - Len(output) - Len(wire)
    BY <1>3, <1>5 DEF Gone
  <2>2. Len(output) \in Nat /\ Len(wire) \in Nat /\ typed \in Nat /\ Len(writeQueue) \in Nat
    BY <1>4, ClientNumbers
  <2>3. QED
    BY <2>1, <2>2
<1>8. \A i \in 1 .. Len(writeQueue') : 2 * writeQueue'[i] = Gone + Len(wire) + Len(output) + 2 * i
  <2> SUFFICES ASSUME NEW i \in 1 .. Len(writeQueue')
               PROVE  2 * writeQueue'[i] = Gone + Len(wire) + Len(output) + 2 * i
    OBVIOUS
  <2>1. CASE i = Len(writeQueue) + 1
    BY <1>4, <1>7, <2>1
  <2>2. CASE i \in 1 .. Len(writeQueue)
    BY <1>3, <1>4, <2>2 DEF ClientInv
  <2>3. QED
    BY <1>4, <2>1, <2>2
<1>9. QED
  BY <1>1, <1>3, <1>4, <1>6, <1>8 DEF ClientInv, Client!Entries, Client!Pieces

LEMMA AfterWrite ==
  ASSUME ClientInv, Client!write_cb, ~overlapped'
  PROVE  ClientInv' /\ Gone' = Gone
<1> DEFINE m == Head(writeQueue)  q == Tail(writeQueue)
<1>1. /\ ~adding /\ adding' = adding /\ ~using /\ using' = TRUE /\ writeQueue # <<>>
      /\ UNCHANGED <<typed, writeQueue, wire>> /\ output' = output \o Client!PiecesOf(m)
  BY DEF Client!write_cb, Client!streamVars, Client!terminalVars, ClientInv
<1>2. /\ q \in Seq(Client!Entries) /\ Len(q) = Len(writeQueue) - 1 /\ Len(writeQueue) \in Nat \ {0}
      /\ \A i \in 1 .. Len(writeQueue) - 1 : q[i] = writeQueue[i + 1]
      /\ m = writeQueue[1] /\ m \in Client!Entries
  BY <1>1, Shorter DEF ClientInv
<1>3. Queued = writeQueue /\ Queued' = q /\ Pushed' = Pushed
  BY <1>1 DEF Queued, Pushed
<1>4. m \in Nat /\ 2 * m - 1 \in Client!Pieces /\ 2 * m \in Client!Pieces
  BY <1>2, PathAssumption DEF Client!Entries, Client!Pieces
<1>5. Client!PiecesOf(m) = <<2 * m - 1, 2 * m>>
  BY <1>2, PathAssumption DEF Client!PiecesOf
<1> HIDE DEF m, q
<1> DEFINE n == Len(output)  a == 2 * m - 1  b == 2 * m
<1>6. /\ output' \in Seq(Client!Pieces) /\ Len(output') = n + 2
      /\ \A i \in 1 .. n : output'[i] = output[i]
      /\ output'[n + 1] = a /\ output'[n + 2] = b
  BY <1>1, <1>4, <1>5, TwoLonger DEF ClientInv
<1>7. n \in Nat
  BY ClientNumbers
<1>8. Gone' = Gone
  <2>1. Gone = 2 * Pushed - 2 * Len(writeQueue) - n - Len(wire)
    BY <1>3 DEF Gone
  <2>2. Gone' = 2 * Pushed - 2 * (Len(writeQueue) - 1) - (n + 2) - Len(wire)
    BY <1>1, <1>2, <1>3, <1>6 DEF Gone
  <2>3. Pushed \in Nat /\ Len(writeQueue) \in Nat /\ Len(wire) \in Nat
    BY <1>2, ClientNumbers
  <2> HIDE DEF n
  <2>4. QED
    BY <1>7, <2>1, <2>2, <2>3
<1>9. b = Gone + Len(wire) + n + 2 /\ a = Gone + Len(wire) + n + 1
  <2>1. 2 * writeQueue[1] = Gone + Len(wire) + Len(output) + 2 * 1
    BY <1>2, <1>3 DEF ClientInv
  <2>2. QED
    BY <1>2, <1>4, <1>7, <2>1, ClientNumbers DEF ClientInv
<1> HIDE DEF n, a, b
<1>10. \A i \in 1 .. Len(output') : output'[i] = Gone + Len(wire) + i
  <2> SUFFICES ASSUME NEW i \in 1 .. Len(output') PROVE output'[i] = Gone + Len(wire) + i
    OBVIOUS
  <2>0. Gone \in Nat /\ Len(wire) \in Nat
    BY ClientNumbers DEF ClientInv
  <2>1. CASE i = n + 1
    BY <1>6, <1>7, <1>9, <2>0, <2>1
  <2>2. CASE i = n + 2
    BY <1>6, <1>7, <1>9, <2>0, <2>2
  <2>3. CASE i \in 1 .. n
    BY <1>6, <2>3 DEF ClientInv, n
  <2>4. QED
    BY <1>6, <1>7, <2>1, <2>2, <2>3
<1>11. \A i \in 1 .. Len(q) : 2 * q[i] = Gone + Len(wire) + Len(output') + 2 * i
  <2> SUFFICES ASSUME NEW i \in 1 .. Len(q)
               PROVE  2 * q[i] = Gone + Len(wire) + Len(output') + 2 * i
    OBVIOUS
  <2>1. i + 1 \in 1 .. Len(writeQueue) /\ q[i] = writeQueue[i + 1]
    BY <1>2
  <2>2. 2 * writeQueue[i + 1] = Gone + Len(wire) + Len(output) + 2 * (i + 1)
    BY <1>3, <2>1 DEF ClientInv
  <2>3. QED
    BY <1>6, <1>7, <2>1, <2>2, ClientNumbers DEF ClientInv, n
<1>12. QED
  BY <1>1, <1>3, <1>6, <1>8, <1>10, <1>11 DEF ClientInv, Client!Entries, Client!Pieces

LEMMA AfterErase ==
  ASSUME ClientInv, Client!EraseEnds
  PROVE  ClientInv' /\ Gone' = Gone
<1>1. /\ ~adding /\ adding' = adding /\ using /\ using' = FALSE /\ writeQueue # <<>>
      /\ UNCHANGED <<typed, output, wire>> /\ writeQueue' = Tail(writeQueue)
  BY CompletesIn DEF Client!EraseEnds, Client!erase, Client!streamVars, Client!terminalVars, ClientInv
<1>2. Queued = Tail(writeQueue) /\ Queued' = Queued /\ Pushed' = Pushed
  BY <1>1 DEF Queued, Pushed
<1>3. Gone' = Gone
  BY <1>1, <1>2 DEF Gone
<1>4. QED
  BY <1>1, <1>2, <1>3, ClientNumbers DEF ClientInv, Client!Entries, Client!Pieces

LEMMA AfterFlush ==
  ASSUME ClientInv, Client!Flush
  PROVE  ClientInv' /\ Gone' = Gone
<1>1. /\ UNCHANGED <<typed, adding, using, writeQueue>> /\ output # <<>>
      /\ wire' = Append(wire, Head(output)) /\ output' = Tail(output)
  BY DEF Client!Flush, Client!terminalVars, Client!queueVars
<1>2. /\ output' \in Seq(Client!Pieces) /\ Len(output') = Len(output) - 1 /\ Len(output) \in Nat \ {0}
      /\ \A i \in 1 .. Len(output) - 1 : output'[i] = output[i + 1]
      /\ Head(output) = output[1] /\ Head(output) \in Client!Pieces
  BY <1>1, Shorter DEF ClientInv
<1>3. /\ wire' \in Seq(Client!Pieces) /\ Len(wire') = Len(wire) + 1 /\ Len(wire) \in Nat
      /\ \A i \in 1 .. Len(wire) : wire'[i] = wire[i]
      /\ wire'[Len(wire) + 1] = output[1]
  BY <1>1, <1>2, Longer DEF ClientInv
<1>4. Queued' = Queued /\ Pushed' = Pushed
  BY <1>1 DEF Queued, Pushed
<1>5. Gone' = Gone
  BY <1>2, <1>3, <1>4, ClientNumbers DEF Gone
<1>6. Gone \in Nat /\ Len(wire) \in Nat
  BY ClientNumbers DEF ClientInv
<1>7. \A i \in 1 .. Len(wire') : wire'[i] = Gone + i
  <2> SUFFICES ASSUME NEW i \in 1 .. Len(wire') PROVE wire'[i] = Gone + i
    OBVIOUS
  <2>1. CASE i = Len(wire) + 1
    BY <1>2, <1>3, <1>6, <2>1 DEF ClientInv
  <2>2. CASE i \in 1 .. Len(wire)
    BY <1>3, <2>2 DEF ClientInv
  <2>3. QED
    BY <1>3, <2>1, <2>2
<1>8. \A i \in 1 .. Len(output') : output'[i] = Gone + Len(wire') + i
  <2> SUFFICES ASSUME NEW i \in 1 .. Len(output') PROVE output'[i] = Gone + Len(wire') + i
    OBVIOUS
  <2>1. i + 1 \in 1 .. Len(output) /\ output'[i] = output[i + 1]
    BY <1>2
  <2>2. output[i + 1] = Gone + Len(wire) + (i + 1)
    BY <2>1 DEF ClientInv
  <2>3. QED
    BY <1>3, <1>6, <2>1, <2>2
<1>9. \A i \in 1 .. Len(Queued) : 2 * Queued[i] = Gone + Len(wire') + Len(output') + 2 * i
  BY <1>2, <1>3, <1>6 DEF ClientInv
<1>10. QED
  BY <1>1, <1>2, <1>3, <1>4, <1>5, <1>7, <1>8, <1>9 DEF ClientInv, Client!Entries, Client!Pieces

(* The next piece arrives. *)
LEMMA AfterArrive ==
  ASSUME ClientInv, Client!Arrive
  PROVE  ClientInv' /\ Gone' = Gone + 1 /\ Head(wire) = Gone + 1 /\ Head(wire) \in Client!Pieces
<1>1. /\ UNCHANGED <<typed, adding, using, writeQueue, output>> /\ wire # <<>> /\ wire' = Tail(wire)
  BY DEF Client!Arrive, Client!terminalVars, Client!queueVars
<1>2. /\ wire' \in Seq(Client!Pieces) /\ Len(wire') = Len(wire) - 1 /\ Len(wire) \in Nat \ {0}
      /\ \A i \in 1 .. Len(wire) - 1 : wire'[i] = wire[i + 1]
      /\ Head(wire) = wire[1] /\ Head(wire) \in Client!Pieces
  BY <1>1, Shorter DEF ClientInv
<1>3. Queued' = Queued /\ Pushed' = Pushed
  BY <1>1 DEF Queued, Pushed
<1>4. Gone' = Gone + 1
  BY <1>1, <1>2, <1>3, ClientNumbers DEF Gone
<1>5. Gone \in Nat /\ Len(output) \in Nat
  BY ClientNumbers DEF ClientInv
<1>6. \A i \in 1 .. Len(wire') : wire'[i] = (Gone + 1) + i
  <2> SUFFICES ASSUME NEW i \in 1 .. Len(wire') PROVE wire'[i] = (Gone + 1) + i
    OBVIOUS
  <2>1. i + 1 \in 1 .. Len(wire) /\ wire'[i] = wire[i + 1]
    BY <1>2
  <2>2. wire[i + 1] = Gone + (i + 1)
    BY <2>1 DEF ClientInv
  <2>3. QED
    BY <1>5, <2>1, <2>2
<1>7. /\ \A i \in 1 .. Len(output) : output[i] = (Gone + 1) + Len(wire') + i
      /\ \A i \in 1 .. Len(Queued) : 2 * Queued[i] = (Gone + 1) + Len(wire') + Len(output) + 2 * i
  BY <1>2, <1>5 DEF ClientInv
<1>8. Head(wire) = Gone + 1
  BY <1>2, <1>5 DEF ClientInv
<1>9. QED
  BY <1>1, <1>2, <1>3, <1>4, <1>5, <1>6, <1>7, <1>8 DEF ClientInv, Client!Entries, Client!Pieces

(* The pieces on the wire are gone. *)
LEMMA AfterDrop ==
  ASSUME ClientInv, Client!Drop
  PROVE  ClientInv' /\ Gone' = Gone + Len(wire)
<1>1. /\ UNCHANGED <<typed, adding, using, writeQueue, output>> /\ wire' = <<>>
  BY DEF Client!Drop, Client!terminalVars, Client!queueVars
<1>2. Queued' = Queued /\ Pushed' = Pushed
  BY <1>1 DEF Queued, Pushed
<1>3. Len(wire') = 0 /\ wire' \in Seq(Client!Pieces)
  BY <1>1
<1>4. Gone' = Gone + Len(wire)
  BY <1>1, <1>2, <1>3, ClientNumbers DEF Gone
<1>5. Gone \in Nat /\ Len(output) \in Nat /\ Len(wire) \in Nat
  BY ClientNumbers DEF ClientInv
<1>6. /\ \A i \in 1 .. Len(output) : output[i] = (Gone + Len(wire)) + Len(wire') + i
      /\ \A i \in 1 .. Len(Queued) : 2 * Queued[i] = (Gone + Len(wire)) + Len(wire') + Len(output) + 2 * i
      /\ \A i \in 1 .. Len(wire') : wire'[i] = (Gone + Len(wire)) + i
  BY <1>3, <1>5 DEF ClientInv
<1>7. QED
  BY <1>1, <1>2, <1>3, <1>4, <1>5, <1>6 DEF ClientInv, Client!Entries, Client!Pieces

LEMMA ClientStays ==
  ASSUME ClientInv, UNCHANGED <<typed, adding, using, writeQueue, output, wire>>
  PROVE  ClientInv' /\ Gone' = Gone
<1>1. Queued' = Queued /\ Pushed' = Pushed
  BY DEF Queued, Pushed
<1>2. Gone' = Gone
  BY <1>1 DEF Gone
<1>3. QED
  BY <1>1, <1>2 DEF ClientInv, Client!Entries, Client!Pieces

-----------------------------------------------------------------------------
(* What the parts of the invariant depend on *)

LEMMA KnownStays ==
  ASSUME stranded \subseteq stranded', Gone' = Gone
  PROVE  \A x, s : Known(x, s) => Known(x, s)'
<1> SUFFICES ASSUME NEW x, NEW s, Known(x, s) PROVE Known(x, s)'
  OBVIOUS
<1>1. Typed' = Typed /\ \A z : At(z)' = At(z) /\ Precedes(x, z)' = Precedes(x, z)
  BY DEF At, Precedes, Typed
<1>2. InTransit(s)' = InTransit(s)
  BY DEF InTransit
<1>3. QED
  BY <1>1, <1>2 DEF Known

LEMMA OrderStays ==
  /\ \A b : Place(b)' = Place(b)
  /\ \A s : InOrder(s) => InOrder(s)'
<1>1. \A b : Place(b)' = Place(b)
  BY DEF Place, Typed, At, Stands
<1>2. \A x, y : Precedes(x, y)' = Precedes(x, y)
  BY DEF Precedes
<1>3. QED
  BY <1>1, <1>2 DEF InOrder

LEMMA GaveStays ==
  ASSUME stranded \subseteq stranded'
  PROVE  \A s : Gave(s) => Gave(s)'
BY DEF Gave

LEMMA AheadStays ==
  ASSUME stranded \subseteq stranded', Gone' = Gone
  PROVE  \A x, s : Ahead(x, s) => Ahead(x, s)'
<1> SUFFICES ASSUME NEW x, NEW s, Ahead(x, s) PROVE Ahead(x, s)'
  OBVIOUS
<1>1. Known(x, s)'
  BY KnownStays DEF Ahead
<1>2. \A y : Precedes(x, y)' = Precedes(x, y)
  BY DEF Precedes
<1>3. QED
  BY <1>1, <1>2, OrderStays DEF Ahead

LEMMA WholeStays ==
  ASSUME UNCHANGED <<transFile, fileData, stranded>>, Gone' = Gone
  PROVE  /\ Collecting' = Collecting /\ Latest' = Latest
         /\ \A s : Whole(s) => Whole(s)'
<1>1. Collecting' = Collecting /\ Latest' = Latest
  BY DEF Collecting, Latest, Kinds
<1> SUFFICES ASSUME NEW s, Whole(s) PROVE Whole(s)'
  BY <1>1
<1>2. \A b : Place(b)' = Place(b)
  BY OrderStays
<1>3. PICK x : x = Place(Latest)
  OBVIOUS
<1>4. x = Place(Latest)'
  BY <1>1, <1>2, <1>3
<1>5. Collecting => Ahead(x, s)'
  <2>1. Collecting => Ahead(x, s)
    BY <1>3 DEF Whole
  <2>2. QED
    BY <2>1, AheadStays
<1>6. Collecting' => Ahead(Place(Latest), s)'
  BY <1>1, <1>4, <1>5 DEF Ahead
<1>7. InOrder(s)'
  BY OrderStays DEF Whole
<1>8. \A i \in 1 .. Len(s) : Known(Place(s[i]), s)'
  <2> SUFFICES ASSUME NEW i \in 1 .. Len(s) PROVE Known(Place(s[i]), s)'
    OBVIOUS
  <2>1. PICK y : y = Place(s[i])
    OBVIOUS
  <2>2. Known(y, s)'
    BY <2>1, KnownStays DEF Whole
  <2>3. y = Place(s[i])'
    BY <1>2, <2>1
  <2>4. QED
    BY <2>2, <2>3 DEF Known
<1>9. QED
  BY <1>6, <1>7, <1>8 DEF Whole

-----------------------------------------------------------------------------
(* The steps *)

SharedInv == LinkInv /\ LabelsInv /\ FilesFlow(written) /\ (running => ReadInv)

(* The strings of the service are as they were. *)
LEMMA LabelsStay ==
  ASSUME LabelsInv, FilesFlow(written), stranded \subseteq stranded',
         UNCHANGED <<fileData, stream, input, written>>
  PROVE  LabelsInv' /\ FilesFlow(written)'
<1>1. Labels' = Labels
  BY DEF Labels, Typed, At
<1>2. PICK w : w = written
  OBVIOUS
<1>3. FilesFlow(w)'
  BY <1>2, FilesFlowStay
<1>4. FilesFlow(written)'
  BY <1>2, <1>3 DEF FilesFlow
<1>5. QED
  BY <1>1, <1>4 DEF LabelsInv

(* One string that stays as it is. *)
LEMMA GaveKept ==
  ASSUME stranded \subseteq stranded', NEW c, Gave(Unread(c)), Unread(c)' = Unread(c)
  PROVE  Gave(Unread(c))'
BY DEF Gave

LEMMA WholeKept ==
  ASSUME UNCHANGED <<transFile, fileData, stranded, conn>>, Gone' = Gone,
         Whole(Unread(conn)), Unread(conn)' = Unread(conn)
  PROVE  Whole(Unread(conn))'
<1>1. PICK s : s = Unread(conn)
  OBVIOUS
<1>2. Whole(s)' /\ s = Unread(conn)'
  BY <1>1, WholeStays
<1>3. QED
  BY <1>2 DEF Whole, InOrder

LEMMA FlowsKept ==
  ASSUME stranded \subseteq stranded', Flows(fileData), UNCHANGED fileData
  PROVE  Flows(fileData)'
<1>1. PICK s : s = fileData
  OBVIOUS
<1>2. Flows(s)' /\ s = fileData'
  BY <1>1, FlowsStay
<1>3. QED
  BY <1>2 DEF Flows

LEMMA KnownKept ==
  ASSUME UNCHANGED <<transFile, fileData, stranded>>, Gone' = Gone, NEW s,
         Collecting => Known(Place(Latest), s)
  PROVE  Collecting' => Known(Place(Latest), s)'
<1>1. Collecting' = Collecting /\ Latest' = Latest
  BY WholeStays
<1>2. PICK x : x = Place(Latest)
  OBVIOUS
<1>3. x = Place(Latest)'
  BY <1>1, <1>2, OrderStays
<1>4. Collecting => Known(x, s)'
  BY <1>2, KnownStays
<1>5. QED
  BY <1>1, <1>3, <1>4 DEF Known

(* A step of the client alone. *)
LEMMA AfterQuiet ==
  ASSUME SharedInv, UNCHANGED <<vars, conn, stranded, drops>>, Gone' = Gone,
         \/ bev' = bev
         \/ bev \notin {"up", "left"} /\ bev' \in {"reconnecting", "freed", "left"}
         \/ bev = "up" /\ bev' = "left"
  PROVE  SharedInv'
<1>1. UNCHANGED <<running, transFile, fileData, written, input, phase, stream>>
  BY DEF vars, transferVars, clientVars
<1>2. LinkInv'
  BY <1>1 DEF SharedInv, LinkInv
<1>3. LabelsInv' /\ FilesFlow(written)'
  BY <1>1, LabelsStay DEF SharedInv
<1>4. ASSUME ReadInv PROVE ReadInv'
  <2>1. Flows(fileData)'
    BY <1>1, <1>4, FlowsKept DEF ReadInv
  <2>2. \A c : Unread(c)' = Unread(c)
    BY <1>1 DEF Unread
  <2>3. Unread(conn)' = Unread(conn)
    BY <1>1 DEF Unread
  <2>4. \A c \in Clients : Gave(Unread(c)) => Gave(Unread(c))'
    BY <2>2, GaveKept
  <2>5. Whole(Unread(conn)) => Whole(Unread(conn))'
    BY <1>1, <2>3, WholeKept
  <2>6. bev \notin {"up", "left"} => (Collecting' => Known(Place(Latest), <<>>)')
    BY <1>1, <1>4, KnownKept DEF ReadInv
  <2>7. conn \in Clients /\ Gave(Unread(conn)) => Gave(Unread(conn))'
    BY <2>3 DEF Gave
  <2>8. QED
    BY <1>1, <1>4, <2>1, <2>4, <2>5, <2>6, <2>7 DEF ReadInv
<1>5. QED
  BY <1>1, <1>2, <1>3, <1>4 DEF SharedInv

LEMMA AfterConnects ==
  ASSUME SharedInv, ClientInv, Connects
  PROVE  SharedInv' /\ ClientInv'
<1>1. /\ bev \in {"connecting", "reconnecting"} /\ bev' = "up" /\ conn' = conn + 1
      /\ UNCHANGED <<vars, stranded, drops, typed, adding, using, writeQueue, output, wire>>
  BY DEF Connects, Client!Connected, Client!Reconnected, Client!terminalVars, Client!queueVars, Client!streamVars
<1>2. UNCHANGED <<running, transFile, fileData, written, input, phase, stream>>
  BY <1>1 DEF vars, transferVars, clientVars
<1>3. ClientInv' /\ Gone' = Gone
  BY <1>1, ClientStays
<1>4. conn \in Nat /\ drops \in Nat /\ conn <= drops /\ drops <= MaxDrops /\ MaxDrops \in Nat
  BY <1>1, PathAssumption DEF SharedInv, LinkInv
<1>5. conn' \in Clients /\ conn' # 0 /\ conn' \in 0 .. drops + 1
  BY <1>1, <1>4, PathAssumption
<1>6. phase[conn'] = "new" /\ stream[conn'] = <<>> /\ input[conn'] = <<>>
  BY <1>1, <1>4, <1>5 DEF SharedInv, LinkInv
<1>7. LinkInv'
  <2>1. \A c \in Clients : c > conn' => c > conn
    BY <1>1, <1>4, PathAssumption
  <2>2. QED
    BY <1>1, <1>2, <1>5, <1>6, <2>1 DEF SharedInv, LinkInv
<1>8. LabelsInv' /\ FilesFlow(written)'
  BY <1>1, <1>2, LabelsStay DEF SharedInv
<1>9. ASSUME ReadInv PROVE ReadInv'
  <2>1. Flows(fileData)'
    BY <1>1, <1>2, <1>9, FlowsKept DEF ReadInv
  <2>2. \A c : Unread(c)' = Unread(c)
    BY <1>2 DEF Unread
  <2>3. \A c \in Clients : Gave(Unread(c))'
    BY <1>1, <1>9, <2>2, GaveKept DEF ReadInv
  <2>4. Collecting' => Known(Place(Latest), <<>>)'
    BY <1>1, <1>2, <1>3, <1>9, KnownKept DEF ReadInv
  <2>5. Unread(conn)' = <<>>
    BY <1>2, <1>6 DEF Unread
  <2>6. Whole(<<>>)'
    <3>1. Len(<<>>) = 0 /\ 1 .. 0 = {}
      OBVIOUS
    <3>2. QED
      BY <2>4, <3>1 DEF Whole, InOrder, Ahead
  <2>7. Whole(Unread(conn))'
    BY <2>5, <2>6 DEF Whole, InOrder
  <2>8. QED
    BY <1>1, <2>1, <2>3, <2>7 DEF ReadInv
<1>10. QED
  BY <1>2, <1>3, <1>7, <1>8, <1>9 DEF SharedInv

LEMMA AfterBreaks ==
  ASSUME SharedInv, ClientInv, Breaks
  PROVE  SharedInv' /\ ClientInv'
<1> DEFINE lostNow == UNION {InTransit(Part[wire[i]]) : i \in DOMAIN wire}
           unread  == IF conn = 0 THEN {} ELSE InTransit(stream[conn]) \cup InTransit(input[conn])
<1>1. /\ bev \in {"connecting", "up"} /\ bev' = "error" /\ conn' = conn /\ drops' = drops + 1 /\ drops < MaxDrops
      /\ UNCHANGED vars /\ stranded' = stranded \cup lostNow \cup unread
  <2>1. stranded' = stranded \cup lostNow \cup unread
    BY DEF Breaks
  <2>2. Client!Drop /\ bev' = "error" /\ UNCHANGED <<vars, conn>>
    BY DEF Breaks
  <2> HIDE DEF lostNow, unread
  <2>3. bev \in {"connecting", "up"} /\ drops' = drops + 1 /\ drops < MaxDrops
    BY <2>2 DEF Client!Drop
  <2>4. QED
    BY <2>1, <2>2, <2>3
<1>2. UNCHANGED <<running, transFile, fileData, written, input, phase, stream>>
  BY <1>1 DEF vars, transferVars, clientVars
<1>3. ClientInv' /\ Gone' = Gone + Len(wire)
  BY AfterDrop DEF Breaks
<1>4. stranded \subseteq stranded'
  BY <1>1
<1>5. LinkInv'
  BY <1>1, <1>2, PathAssumption DEF SharedInv, LinkInv
<1>6. LabelsInv' /\ FilesFlow(written)'
  BY <1>2, <1>4, LabelsStay DEF SharedInv
<1>7. ASSUME ReadInv PROVE ReadInv'
  <2>1. Flows(fileData)'
    BY <1>2, <1>4, <1>7, FlowsKept DEF ReadInv
  <2>2. \A c : Unread(c)' = Unread(c)
    BY <1>2 DEF Unread
  <2>3. ASSUME NEW c \in Clients PROVE Gave(Unread(c))'
    <3>1. CASE c # conn \/ bev # "up"
      BY <1>1, <1>4, <1>7, <2>2, <3>1, GaveKept DEF ReadInv
    <3>2. CASE c = conn /\ bev = "up"
      <4>1. conn # 0
        BY <3>2 DEF SharedInv, LinkInv
      <4>2. input[c] \in Seq(Labels) /\ stream[c] \in Seq(Labels)
        BY DEF SharedInv, LabelsInv
      <4> DEFINE a == input[c]  b == stream[c]  s == a \o b
      <4>3. Len(a) \in Nat /\ Len(b) \in Nat /\ DOMAIN a = 1 .. Len(a) /\ DOMAIN b = 1 .. Len(b)
        BY <4>2, LenProperties
      <4>4. /\ Len(s) = Len(a) + Len(b)
            /\ \A i \in 1 .. Len(a) + Len(b) : s[i] = IF i <= Len(a) THEN a[i] ELSE b[i - Len(a)]
        BY <4>2, ConcatProperties
      <4>5. InTransit(a) \subseteq stranded' /\ InTransit(b) \subseteq stranded'
        BY <1>1, <3>2, <4>1
      <4>6. /\ \A i \in 1 .. Len(a) : a[i] \in stranded'
            /\ \A i \in 1 .. Len(b) : b[i] \in stranded'
        BY <4>3, <4>5 DEF InTransit
      <4> HIDE DEF a, b, s
      <4>7. ASSUME NEW i \in 1 .. Len(s) PROVE s[i] \in stranded'
        <5>1. CASE i <= Len(a)
          BY <4>3, <4>4, <4>6, <5>1
        <5>2. CASE ~(i <= Len(a))
          <6>1. i - Len(a) \in 1 .. Len(b) /\ i \in 1 .. Len(a) + Len(b)
            BY <4>3, <4>4, <5>2
          <6>2. QED
            BY <4>4, <4>6, <5>2, <6>1
        <5>3. QED
          BY <5>1, <5>2
      <4>8. Unread(c)' = s
        BY <1>2 DEF Unread, s, a, b
      <4>9. QED
        BY <4>7, <4>8 DEF Gave
    <3>3. QED
      BY <3>1, <3>2
  <2>4. ASSUME Collecting' PROVE Known(Place(Latest), <<>>)'
    <3>1. Collecting /\ Latest' = Latest
      BY <1>2, <1>4, <2>4 DEF Collecting, Latest, Kinds
    <3>2. PICK x : x = Place(Latest)
      OBVIOUS
    <3>3. x = Place(Latest)'
      BY <3>1, <3>2, OrderStays
    <3>4. PICK s : /\ Known(x, s)
                   /\ InTransit(s) \subseteq stranded'
      <4>1. CASE bev = "connecting"
        <5>1. Known(x, <<>>)
          BY <1>7, <3>1, <3>2, <4>1 DEF ReadInv
        <5>2. InTransit(<<>>) = {}
          BY DEF InTransit
        <5>3. QED
          BY <5>1, <5>2
      <4>2. CASE bev = "up"
        <5>1. Known(x, Unread(conn))
          BY <1>7, <3>1, <3>2, <4>2 DEF ReadInv, Whole, Ahead
        <5>2. conn \in Clients
          BY <4>2, PathAssumption DEF SharedInv, LinkInv
        <5>3. Unread(conn) \in Seq(Labels)
          BY <5>2, ConcatProperties DEF Unread, SharedInv, LabelsInv
        <5>4. PICK u : u = Unread(conn)
          OBVIOUS
        <5>5. \A i \in 1 .. Len(u) : u[i] \in stranded'
          BY <1>2, <2>3, <5>2, <5>4 DEF Gave, Unread
        <5>6. InTransit(u) \subseteq stranded'
          BY <5>3, <5>4, <5>5, LenProperties DEF InTransit
        <5>7. QED
          BY <5>1, <5>4, <5>6
      <4>3. QED
        BY <1>1, <4>1, <4>2
    <3>5. Gone \in Nat /\ Len(wire) \in Nat /\ DOMAIN wire = 1 .. Len(wire)
      BY ClientNumbers, LenProperties DEF ClientInv
    <3>6. x[1] <= Gone
      BY <3>4 DEF Known
    <3>7. ASSUME NEW z \in Typed, Precedes(x, z), z[1] <= Gone + Len(wire)
          PROVE  At(z) \in stranded'
      <4>1. CASE z[1] <= Gone
        BY <1>4, <3>4, <3>7, <4>1 DEF Known
      <4>2. CASE ~(z[1] <= Gone)
        <5> DEFINE i == z[1] - Gone
        <5>1. z[1] \in Nat /\ z[2] \in DOMAIN Part[z[1]]
          BY TypedPlace
        <5>2. i \in 1 .. Len(wire) /\ Gone + i = z[1]
          BY <3>5, <3>7, <4>2, <5>1
        <5> HIDE DEF i
        <5>3. wire[i] = z[1]
          BY <5>2 DEF ClientInv
        <5>4. At(z) \in InTransit(Part[wire[i]])
          BY <5>1, <5>3 DEF At, InTransit
        <5>5. QED
          BY <1>1, <3>5, <5>2, <5>4
      <4>3. QED
        BY <4>1, <4>2
    <3>8. x[1] \in Nat
      <4>1. Latest \in Labels
        <5>1. fileData \in Seq(Labels) /\ fileData # <<>>
          BY <3>1 DEF SharedInv, LabelsInv, Collecting
        <5>2. QED
          BY <5>1, LenProperties, EmptySeq, ElementOfSeq DEF Latest
      <4>2. QED
        BY <3>2, <4>1, LabelPlace, TypedPlace
    <3>9. x[1] <= Gone'
      BY <1>3, <3>5, <3>6, <3>8
    <3>10. Known(x, <<>>)'
      <4>1. Typed' = Typed /\ \A z : At(z)' = At(z) /\ Precedes(x, z)' = Precedes(x, z)
        BY DEF At, Precedes, Typed
      <4>2. QED
        BY <1>3, <3>7, <3>9, <4>1 DEF Known
    <3>11. QED
      BY <3>3, <3>10 DEF Known
  <2>5. QED
    BY <1>1, <2>1, <2>3, <2>4 DEF ReadInv
<1>8. QED
  BY <1>2, <1>3, <1>5, <1>6, <1>7 DEF SharedInv

(* A piece is a string of labels, in order. *)
LEMMA PieceInOrder ==
  ASSUME NEW p \in Client!Pieces
  PROVE  /\ Part[p] \in Seq(Labels)
         /\ \A i \in 1 .. Len(Part[p]) : Place(Part[p][i]) = <<p, i>>
         /\ InOrder(Part[p])
<1> DEFINE s == Part[p]
<1>1. s \in Seq(Tokens)
  BY PathAssumption, ServiceAssumption
<1>2. Len(s) \in Nat /\ DOMAIN s = 1 .. Len(s)
  BY <1>1, LenProperties
<1>3. ASSUME NEW i \in 1 .. Len(s) PROVE s[i] \in Labels /\ Place(s[i]) = <<p, i>>
  <2>1. <<p, i>> \in Typed /\ At(<<p, i>>) = s[i]
    BY <1>2, PieceTyped
  <2>2. QED
    BY <2>1, PlaceOfAt DEF Labels
<1>4. s \in Seq(Labels)
  <2> HIDE DEF s
  <2>1. s = [i \in 1 .. Len(s) |-> s[i]]
    BY <1>1, <1>2, ElementOfSeq, SeqDef
  <2>2. QED
    BY <1>2, <1>3, <2>1, IsASeq
<1>5. ASSUME NEW i \in 1 .. Len(s), NEW j \in 1 .. Len(s), i < j PROVE Precedes(Place(s[i]), Place(s[j]))
  <2>1. Place(s[i])[1] = p /\ Place(s[j])[1] = p /\ Place(s[i])[2] = i /\ Place(s[j])[2] = j
    BY <1>3
  <2>2. QED
    BY <1>5, <2>1 DEF Precedes
<1>6. QED
  BY <1>3, <1>4, <1>5 DEF InOrder

(* The next piece goes behind what is known. *)
LEMMA KnownGrows ==
  ASSUME NEW s \in Seq(Labels), NEW x \in Typed, Known(x, s), Gone \in Nat,
         NEW g \in Client!Pieces, g = Gone + 1, Gone' = g, stranded \subseteq stranded'
  PROVE  Known(x, s \o Part[g])'
<1>1. PICK t : t = Part[g]
  OBVIOUS
<1>2. t \in Seq(Labels) /\ \A i \in 1 .. Len(t) : Place(t[i]) = <<g, i>>
  BY <1>1, PieceInOrder
<1>3. PICK r : r = s \o t
  OBVIOUS
<1>4. DOMAIN s = 1 .. Len(s) /\ DOMAIN t = 1 .. Len(t) /\ Len(s) \in Nat /\ Len(t) \in Nat
  BY <1>2, LenProperties
<1>5. /\ r \in Seq(Labels) /\ Len(r) = Len(s) + Len(t)
      /\ \A l \in 1 .. Len(s) + Len(t) : r[l] = IF l <= Len(s) THEN s[l] ELSE t[l - Len(s)]
  BY <1>2, <1>3, ConcatProperties
<1>6. DOMAIN r = 1 .. Len(r)
  BY <1>5, LenProperties
<1>7. InTransit(s) \subseteq InTransit(r)
  <2> SUFFICES ASSUME NEW i \in 1 .. Len(s) PROVE s[i] \in InTransit(r)
    BY <1>4 DEF InTransit
  <2>1. i \in 1 .. Len(r) /\ i \in 1 .. Len(s) + Len(t) /\ i <= Len(s)
    BY <1>4, <1>5
  <2>2. r[i] = s[i]
    BY <1>5, <2>1
  <2>3. QED
    BY <1>6, <2>1, <2>2 DEF InTransit
<1>8. InTransit(t) \subseteq InTransit(r)
  <2> SUFFICES ASSUME NEW i \in 1 .. Len(t) PROVE t[i] \in InTransit(r)
    BY <1>4 DEF InTransit
  <2> DEFINE l == Len(s) + i
  <2>1. l \in 1 .. Len(r) /\ l \in 1 .. Len(s) + Len(t) /\ ~(l <= Len(s)) /\ l - Len(s) = i
    BY <1>4, <1>5
  <2> HIDE DEF l
  <2>2. r[l] = t[i]
    BY <1>5, <2>1
  <2>3. QED
    BY <1>6, <2>1, <2>2 DEF InTransit
<1>9. ASSUME NEW z \in Typed, Precedes(x, z), z[1] <= g
      PROVE  At(z) \in stranded \cup InTransit(r)
  <2>1. z[1] \in Nat /\ z[2] \in DOMAIN Part[z[1]]
    BY TypedPlace
  <2>2. CASE z[1] <= Gone
    BY <1>7, <1>9, <2>2 DEF Known
  <2>3. CASE z[1] = g
    <3>1. At(z) \in InTransit(t)
      BY <1>1, <2>1, <2>3 DEF At, InTransit
    <3>2. QED
      BY <1>8, <3>1
  <2>4. QED
    BY <1>9, <2>1, <2>2, <2>3
<1>10. x[1] <= Gone'
  <2>1. x[1] \in Nat
    BY TypedPlace
  <2>2. QED
    BY <2>1 DEF Known
<1>11. Known(x, r)'
  <2>1. Typed' = Typed /\ \A z : At(z)' = At(z) /\ Precedes(x, z)' = Precedes(x, z)
    BY DEF At, Precedes, Typed
  <2>2. InTransit(r)' = InTransit(r)
    BY DEF InTransit
  <2>3. QED
    BY <1>9, <1>10, <2>1, <2>2 DEF Known
<1>12. QED
  BY <1>1, <1>3, <1>11 DEF Known

(* So the whole of what is unread stays whole. *)
LEMMA WholeGrows ==
  ASSUME NEW s \in Seq(Labels), Whole(s), fileData \in Seq(Labels), Gone \in Nat,
         NEW g \in Client!Pieces, g = Gone + 1, Gone' = g,
         UNCHANGED <<transFile, fileData, stranded>>
  PROVE  Whole(s \o Part[g])'
<1>1. PICK t : t = Part[g]
  OBVIOUS
<1>2. /\ t \in Seq(Labels) /\ InOrder(t)
      /\ \A i \in 1 .. Len(t) : Place(t[i])[1] = g /\ Place(t[i]) \in Typed
  <2>1. t \in Seq(Labels) /\ InOrder(t) /\ \A i \in 1 .. Len(t) : Place(t[i]) = <<g, i>>
    BY <1>1, PieceInOrder
  <2>2. QED
    BY <2>1, Transit
<1>3. PICK r : r = s \o t
  OBVIOUS
<1>4. Len(s) \in Nat /\ Len(t) \in Nat
  BY <1>2, LenProperties
<1>5. /\ r \in Seq(Labels) /\ Len(r) = Len(s) + Len(t)
      /\ \A l \in 1 .. Len(s) + Len(t) : r[l] = IF l <= Len(s) THEN s[l] ELSE t[l - Len(s)]
  BY <1>2, <1>3, ConcatProperties
<1>6. \A i \in 1 .. Len(s) : Place(s[i]) \in Typed /\ Known(Place(s[i]), s) /\ Place(s[i])[1] < g
  <2> SUFFICES ASSUME NEW i \in 1 .. Len(s)
               PROVE  Place(s[i]) \in Typed /\ Known(Place(s[i]), s) /\ Place(s[i])[1] < g
    OBVIOUS
  <2>1. Place(s[i]) \in Typed /\ Known(Place(s[i]), s)
    BY Transit DEF Whole
  <2>2. Place(s[i])[1] \in Nat /\ Place(s[i])[1] <= Gone
    BY <2>1, TypedPlace DEF Known
  <2>3. QED
    BY <2>1, <2>2
<1>7. \A l \in 1 .. Len(r) :
        \/ l \in 1 .. Len(s) /\ r[l] = s[l]
        \/ l > Len(s) /\ l - Len(s) \in 1 .. Len(t) /\ r[l] = t[l - Len(s)]
  BY <1>4, <1>5
<1>8. ASSUME NEW x \in Typed, x[1] = g PROVE Known(x, r)'
  <2>1. x[2] \in Nat
    BY TypedPlace
  <2>2. ASSUME NEW z \in Typed, Precedes(x, z), z[1] <= g PROVE At(z) \in InTransit(r)
    <3>1. z[1] = g /\ z[2] \in DOMAIN t
      BY <1>1, <1>8, <2>2, TypedPlace DEF Precedes
    <3>2. z[2] \in 1 .. Len(t) /\ At(z) = t[z[2]]
      BY <1>1, <1>2, <3>1, LenProperties DEF At
    <3> DEFINE l == Len(s) + z[2]
    <3>3. l \in 1 .. Len(r) /\ l \in 1 .. Len(s) + Len(t) /\ ~(l <= Len(s)) /\ l - Len(s) = z[2]
      BY <1>4, <1>5, <3>2
    <3> HIDE DEF l
    <3>4. r[l] = At(z)
      BY <1>5, <3>2, <3>3
    <3>5. QED
      BY <1>5, <3>3, <3>4, LenProperties DEF InTransit
  <2>3. Typed' = Typed /\ \A z : At(z)' = At(z) /\ Precedes(x, z)' = Precedes(x, z)
    BY DEF At, Precedes, Typed
  <2>4. InTransit(r)' = InTransit(r)
    BY DEF InTransit
  <2>5. x[1] <= g
    BY <1>8
  <2>6. QED
    BY <2>2, <2>3, <2>4, <2>5 DEF Known
<1>9. ASSUME NEW x \in Typed, Known(x, s) PROVE Known(x, r)'
  <2>1. Known(x, s \o Part[g])'
    BY <1>9, KnownGrows
  <2>2. QED
    BY <1>1, <1>3, <2>1 DEF Known
<1>10. \A l \in 1 .. Len(r) : Known(Place(r[l]), r)'
  <2> SUFFICES ASSUME NEW l \in 1 .. Len(r) PROVE Known(Place(r[l]), r)'
    OBVIOUS
  <2>1. PICK y : y = Place(r[l])
    OBVIOUS
  <2>2. Known(y, r)'
    BY <1>2, <1>6, <1>7, <1>8, <1>9, <2>1
  <2>3. y = Place(r[l])'
    BY <2>1, OrderStays
  <2>4. QED
    BY <2>2, <2>3 DEF Known
<1>11. InOrder(r)
  <2> SUFFICES ASSUME NEW i \in 1 .. Len(r), NEW j \in 1 .. Len(r), i < j
               PROVE  Precedes(Place(r[i]), Place(r[j]))
    BY DEF InOrder
  <2>1. CASE j \in 1 .. Len(s)
    <3>1. i \in 1 .. Len(s) /\ r[i] = s[i] /\ r[j] = s[j]
      BY <1>4, <1>7, <2>1
    <3>2. QED
      BY <2>1, <3>1 DEF Whole, InOrder
  <2>2. CASE i \in 1 .. Len(s) /\ j \notin 1 .. Len(s)
    <3>1. r[i] = s[i] /\ j - Len(s) \in 1 .. Len(t) /\ r[j] = t[j - Len(s)]
      BY <1>4, <1>7, <2>2
    <3>2. Place(r[i])[1] < Place(r[j])[1]
      BY <1>2, <1>6, <2>2, <3>1
    <3>3. QED
      BY <3>2 DEF Precedes
  <2>3. CASE i \notin 1 .. Len(s) /\ j \notin 1 .. Len(s)
    <3>1. /\ i - Len(s) \in 1 .. Len(t) /\ r[i] = t[i - Len(s)]
          /\ j - Len(s) \in 1 .. Len(t) /\ r[j] = t[j - Len(s)]
          /\ i - Len(s) < j - Len(s)
      BY <1>4, <1>5, <1>7, <2>3
    <3>2. QED
      BY <1>2, <3>1 DEF InOrder
  <2>4. QED
    BY <1>4, <2>1, <2>2, <2>3
<1>12. ASSUME Collecting' PROVE Ahead(Place(Latest), r)'
  <2>1. Collecting /\ Latest' = Latest
    BY <1>12 DEF Collecting, Latest, Kinds
  <2>2. PICK x : x = Place(Latest)
    OBVIOUS
  <2>3. Latest \in Labels
    <3>1. fileData # <<>>
      BY <2>1 DEF Collecting
    <3>2. QED
      BY <3>1, LenProperties, EmptySeq, ElementOfSeq DEF Latest
  <2>4. x \in Typed /\ Ahead(x, s)
    BY <2>1, <2>2, <2>3, LabelPlace DEF Whole
  <2>5. Known(x, r)'
    BY <1>9, <2>4 DEF Ahead
  <2>6. ASSUME NEW l \in 1 .. Len(r) PROVE Precedes(x, Place(r[l]))
    <3>1. CASE l \in 1 .. Len(s) /\ r[l] = s[l]
      BY <2>4, <3>1 DEF Ahead
    <3>2. CASE l - Len(s) \in 1 .. Len(t) /\ r[l] = t[l - Len(s)]
      <4>1. x[1] \in Nat /\ x[1] <= Gone /\ Place(r[l])[1] = g
        BY <1>2, <2>4, <3>2, TypedPlace DEF Ahead, Known
      <4>2. QED
        BY <4>1 DEF Precedes
    <3>3. QED
      BY <1>7, <3>1, <3>2
  <2>7. x = Place(Latest)'
    BY <2>1, <2>2, OrderStays
  <2>8. \A l \in 1 .. Len(r) : Precedes(x, Place(r[l]))'
    BY <2>6, OrderStays DEF Precedes
  <2>9. Ahead(x, r)'
    BY <2>5, <2>8 DEF Ahead
  <2>10. QED
    BY <2>7, <2>9 DEF Ahead
<1>13. InOrder(r)'
  BY <1>11, OrderStays
<1>14. Whole(r)'
  BY <1>10, <1>12, <1>13 DEF Whole
<1>15. QED
  BY <1>1, <1>3, <1>14 DEF Whole

LEMMA AfterArrives ==
  ASSUME SharedInv, ClientInv, Arrives
  PROVE  SharedInv' /\ ClientInv'
<1>1. /\ bev = "up" /\ bev' = bev /\ conn' = conn /\ drops' = drops /\ stranded' = stranded
      /\ Send(conn, Part[Head(wire)])
  BY DEF Arrives, Client!Arrive, Client!linkVars
<1>2. /\ running /\ UNCHANGED <<running, transFile, fileData, written, input, phase>>
      /\ stream' = [stream EXCEPT ![conn] = @ \o Part[Head(wire)]]
  BY <1>1 DEF Send, transferVars
<1>3. /\ ClientInv' /\ Gone' = Gone + 1 /\ Head(wire) = Gone + 1 /\ Head(wire) \in Client!Pieces
  BY AfterArrive DEF Arrives
<1>4. PICK g \in Client!Pieces : g = Gone + 1 /\ Gone' = g /\ Head(wire) = g
  BY <1>3
<1>5. conn \in Clients /\ Gone \in Nat
  BY <1>1, PathAssumption DEF SharedInv, LinkInv, ClientInv
<1>6. stream[conn] \in Seq(Labels) /\ input[conn] \in Seq(Labels) /\ Part[g] \in Seq(Labels)
      /\ fileData \in Seq(Labels)
  BY <1>5, PieceInOrder DEF SharedInv, LabelsInv
<1>7. /\ stream'[conn] = stream[conn] \o Part[g] /\ input'[conn] = input[conn]
      /\ \A c \in Clients \ {conn} : stream'[c] = stream[c] /\ input'[c] = input[c]
      /\ stream' \in [Clients -> Seq(Labels)] /\ input' \in [Clients -> Seq(Labels)]
  <2>1. stream \in [Clients -> Seq(Labels)] /\ input \in [Clients -> Seq(Labels)]
    BY DEF SharedInv, LabelsInv
  <2>2. stream[conn] \o Part[g] \in Seq(Labels)
    BY <1>6, ConcatProperties
  <2>3. QED
    BY <1>2, <1>4, <1>5, <2>1, <2>2
<1>8. LinkInv'
  <2>1. \A c \in Clients : c > conn => c # conn
    BY <1>5, PathAssumption
  <2>2. QED
    BY <1>1, <1>2, <1>7, <2>1 DEF SharedInv, LinkInv
<1>9. LabelsInv'
  <2>1. Labels' = Labels
    BY DEF Labels, Typed, At
  <2>2. QED
    BY <1>2, <1>6, <1>7, <2>1 DEF LabelsInv
<1>10. FilesFlow(written)'
  <2>1. PICK w : w = written
    OBVIOUS
  <2>2. FilesFlow(w)'
    BY <1>1, <2>1, FilesFlowStay DEF SharedInv
  <2>3. QED
    BY <1>2, <2>1, <2>2 DEF FilesFlow
<1>11. ReadInv
  BY <1>2 DEF SharedInv
<1>12. Flows(fileData)'
  BY <1>1, <1>2, <1>11, FlowsKept DEF ReadInv
<1>13. ASSUME NEW c \in Clients \ {conn} PROVE Gave(Unread(c))'
  <2>1. Unread(c)' = Unread(c)
    BY <1>7 DEF Unread
  <2>2. QED
    BY <1>1, <1>11, <2>1, GaveKept DEF ReadInv
<1>14. Whole(Unread(conn))'
  <2>1. PICK s : s = Unread(conn)
    OBVIOUS
  <2>2. s \in Seq(Labels) /\ Whole(s)
    BY <1>1, <1>6, <1>11, <2>1, ConcatProperties DEF ReadInv, Unread
  <2>3. Whole(s \o Part[g])'
    BY <1>1, <1>2, <1>4, <1>5, <1>6, <2>2, WholeGrows
  <2>4. Unread(conn)' = s \o Part[g]
    <3>1. input[conn] \o (stream[conn] \o Part[g]) = (input[conn] \o stream[conn]) \o Part[g]
      <4>1. \A a, b, t \in Seq(Labels) : (a \o b) \o t = a \o (b \o t)
        BY ConcatAssociative
      <4>2. QED
        BY <1>6, <4>1
    <3>2. Unread(conn)' = input'[conn] \o stream'[conn]
      BY <1>1 DEF Unread
    <3>3. QED
      BY <1>7, <2>1, <3>1, <3>2 DEF Unread
  <2>5. QED
    BY <2>3, <2>4 DEF Whole, InOrder
<1>15. ReadInv'
  BY <1>1, <1>12, <1>13, <1>14 DEF ReadInv
<1>16. QED
  BY <1>3, <1>8, <1>9, <1>10, <1>15 DEF SharedInv

(* The front of a string. *)
LEMMA FrontOf ==
  ASSUME NEW s \in Seq(Labels), NEW t \in 1 .. Len(s)
  PROVE  LET msg == SubSeq(s, 1, t)
         IN  /\ msg \in Seq(Labels) /\ msg # <<>> /\ Len(msg) = t
             /\ \A i \in 1 .. t : msg[i] = s[i]
<1> DEFINE msg == SubSeq(s, 1, t)
<1>1. Len(s) \in Nat /\ t \in Nat \ {0} /\ 1 \in Nat \ {0} /\ 1 <= t + 1 /\ t <= Len(s)
  BY LenProperties
<1>2. /\ msg \in Seq(Labels) /\ Len(msg) = (t - 1) + 1
      /\ \A l \in 1 .. (t - 1) + 1 : msg[l] = s[(1 + l) - 1]
  BY <1>1, PieceProperties
<1> HIDE DEF msg
<1>3. Len(msg) = t /\ \A i \in 1 .. t : msg[i] = s[i]
  BY <1>1, <1>2
<1>4. msg # <<>>
  BY <1>1, <1>3, EmptySeq
<1>5. QED
  BY <1>2, <1>3, <1>4 DEF msg

LEMMA LastLabel ==
  ASSUME fileData \in Seq(Labels), fileData # <<>>
  PROVE  Latest \in Labels
BY LenProperties, EmptySeq, ElementOfSeq DEF Latest

(* A read of a broken connection's tokens leaves no transfer that collects. *)
LEMMA ReadGave ==
  ASSUME TransferTypes, LabelsInv, Flows(fileData), FilesFlow(written), stranded' = stranded,
         NEW s \in Seq(Labels), Gave(s), NEW t \in 1 .. Len(s), NEW c, read_cb(c, SubSeq(s, 1, t))
  PROVE  /\ Receives(SubSeq(s, 1, t))
         /\ Gave(From(s, t + 1))
         /\ running' => ~Collecting'
<1> DEFINE msg == SubSeq(s, 1, t)
<1>1. /\ msg \in Seq(Labels) /\ msg # <<>> /\ Len(msg) = t
      /\ \A i \in 1 .. t : msg[i] = s[i]
  BY FrontOf
<1>2. Len(s) \in Nat /\ t \in Nat \ {0} /\ t <= Len(s) /\ t \in 0 .. Len(s)
  BY LenProperties
<1>3. read_cb(c, msg)
  OBVIOUS
<1> HIDE DEF msg
<1>4. \A i \in 1 .. t : msg[i] \in stranded
  BY <1>1, <1>2 DEF Gave
<1>5. \A i \in 1 .. t : At(Place(msg[i])) \in stranded
  BY <1>1, <1>4, Transit
<1>6. Flows(msg)
  <2> SUFFICES ASSUME NEW i \in 1 .. Len(msg) - 1 PROVE Joined(Place(msg[i]), Place(msg[i + 1]))
    BY DEF Flows
  <2>1. i \in 1 .. t
    BY <1>1, <1>2
  <2>2. QED
    BY <1>5, <2>1 DEF Joined
<1>7. Joined(Place(Latest), Place(msg[1]))
  BY <1>2, <1>5 DEF Joined
<1>8. Ready(msg)
  BY <1>1, <1>6, <1>7 DEF Ready, LabelsInv
<1>9. Receives(msg)
  BY <1>3, <1>8, ReadReceives
<1>10. running' => ~Collecting'
  BY <1>1, <1>2, <1>4, <1>9 DEF Receives, Collecting, Latest, Kinds
<1>11. Gave(From(s, t + 1))
  <2> DEFINE r == From(s, t + 1)
  <2>1. Len(r) = Len(s) - t /\ \A l \in 1 .. Len(s) - t : r[l] = s[t + l]
    BY <1>2, RestProperties
  <2> HIDE DEF r
  <2>2. ASSUME NEW l \in 1 .. Len(r) PROVE r[l] \in stranded
    <3>1. l \in 1 .. Len(s) - t /\ t + l \in 1 .. Len(s)
      BY <1>2, <2>1
    <3>2. QED
      BY <2>1, <3>1 DEF Gave
  <2>3. QED
    BY <2>2 DEF Gave, r
<1>12. QED
  BY <1>9, <1>10, <1>11 DEF msg

(* A read of the connection that is up. *)
LEMMA ReadWhole ==
  ASSUME TransferTypes, LabelsInv, Flows(fileData), FilesFlow(written), stranded' = stranded, Gone' = Gone,
         Gone \in Nat,
         NEW s \in Seq(Labels), Whole(s), NEW t \in 1 .. Len(s), NEW c, read_cb(c, SubSeq(s, 1, t))
  PROVE  /\ Receives(SubSeq(s, 1, t))
         /\ running' => Whole(From(s, t + 1))'
<1> DEFINE msg == SubSeq(s, 1, t)
<1>1. /\ msg \in Seq(Labels) /\ msg # <<>> /\ Len(msg) = t
      /\ \A i \in 1 .. t : msg[i] = s[i]
  BY FrontOf
<1>2. Len(s) \in Nat /\ t \in Nat \ {0} /\ t <= Len(s) /\ t \in 0 .. Len(s)
  BY LenProperties
<1>3. read_cb(c, msg)
  OBVIOUS
<1>4. InOrder(s) /\ \A i \in 1 .. Len(s) : Known(Place(s[i]), s)
  BY DEF Whole
<1>5. Flows(msg)
  <2>1. Flows(s)
    BY <1>4, WholeFlows
  <2>2. 1 \in Nat \ {0} /\ 1 <= t + 1 /\ t \in Nat
    BY <1>2
  <2>3. QED
    BY <1>2, <2>1, <2>2, PieceFlows
<1> HIDE DEF msg
<1>6. ASSUME \E k \in Kinds : transFile[k], fileData # <<>>
      PROVE  Joined(Place(Latest), Place(msg[1]))
  <2>1. Latest \in Labels /\ Place(Latest) \in Typed /\ At(Place(Latest)) = Latest
    BY <1>6, LastLabel, LabelPlace DEF LabelsInv
  <2>2. CASE Latest \in stranded
    BY <2>1, <2>2 DEF Joined
  <2>3. CASE Latest \notin stranded
    <3>1. Ahead(Place(Latest), s)
      BY <1>6, <2>3 DEF Whole, Collecting
    <3>2. s # <<>> /\ msg[1] = s[1]
      BY <1>1, <1>2, EmptySeq
    <3>3. QED
      BY <1>4, <2>1, <3>1, <3>2, AheadJoined
  <2>4. QED
    BY <2>2, <2>3
<1>7. Ready(msg)
  BY <1>1, <1>5, <1>6 DEF Ready, LabelsInv
<1>8. Receives(msg)
  BY <1>3, <1>7, ReadReceives
<1>9. PICK r : r = From(s, t + 1)
  OBVIOUS
<1>10. /\ InOrder(r) /\ \A i \in 1 .. Len(r) : Known(Place(r[i]), r)
       /\ Ahead(Place(s[t]), r)
  BY <1>4, <1>9, RestWhole
<1>11. InOrder(r)'
  BY <1>10, OrderStays
<1>12. \A i \in 1 .. Len(r) : Known(Place(r[i]), r)'
  <2> SUFFICES ASSUME NEW i \in 1 .. Len(r) PROVE Known(Place(r[i]), r)'
    OBVIOUS
  <2>1. PICK y : y = Place(r[i])
    OBVIOUS
  <2>2. Known(y, r)'
    BY <1>10, <2>1, KnownStays
  <2>3. y = Place(r[i])'
    BY <2>1, OrderStays
  <2>4. QED
    BY <2>2, <2>3 DEF Known
<1>13. ASSUME running', Collecting' PROVE Ahead(Place(Latest), r)'
  <2>1. Latest' = s[t]
    BY <1>1, <1>2, <1>8, <1>13 DEF Receives, Collecting, Latest, Kinds
  <2>2. PICK x : x = Place(s[t])
    OBVIOUS
  <2>3. Ahead(x, r)'
    BY <1>10, <2>2, AheadStays
  <2>4. x = Place(Latest)'
    <3>1. Place(s[t])' = Place(s[t])
      BY OrderStays
    <3>2. PICK b : b = s[t]
      OBVIOUS
    <3>3. Place(b)' = Place(b) /\ x = Place(b)
      BY <2>2, <3>2, OrderStays
    <3>4. QED
      BY <2>1, <3>2, <3>3 DEF Place
  <2>5. QED
    BY <2>3, <2>4 DEF Ahead
<1>14. running' => Whole(r)'
  BY <1>11, <1>12, <1>13 DEF Whole
<1>15. running' => Whole(From(s, t + 1))'
  <2>1. r = From(s, t + 1)'
    BY <1>9 DEF From
  <2>2. QED
    BY <1>14, <2>1 DEF Whole, InOrder
<1>16. QED
  BY <1>8, <1>15 DEF msg

(* What a step of the service leaves alone. *)
Aside == bev' = bev /\ conn' = conn /\ drops' = drops /\ stranded' = stranded /\ Gone' = Gone

LEMMA AfterRead ==
  ASSUME TypeOK, SharedInv, Gone \in Nat, Aside, NEW c \in Clients, c <= conn, Readable(c)
  PROVE  SharedInv'
<1>1. running /\ stream[c] # <<>> /\ ReadInv /\ LabelsInv /\ LinkInv /\ FilesFlow(written) /\ Flows(fileData)
  BY DEF Readable, SharedInv, ReadInv
<1>2. TransferTypes
  BY DEF TypeOK, TransferTypes, Files
<1>3. PICK s : s = Unread(c)
  OBVIOUS
<1>4. s \in Seq(Labels)
  BY <1>1, <1>3, ConcatProperties DEF Unread, LabelsInv
<1>5. PICK t \in 1 .. Len(s) : /\ read_cb(c, SubSeq(s, 1, t))
                               /\ Unread(c)' = From(s, t + 1)
  BY <1>1, <1>3, Arrival
<1>6. /\ stream' \in [Clients -> Seq(Labels)] /\ input' \in [Clients -> Seq(Labels)]
      /\ \A d \in Clients \ {c} : stream'[d] = stream[d] /\ input'[d] = input[d]
      /\ UNCHANGED phase
  BY <1>1, Arrival DEF clientVars
<1>7. LinkInv'
  <2>1. \A d \in Clients : d > conn => d # c
    BY PathAssumption DEF SharedInv, LinkInv
  <2>2. QED
    BY <1>1, <1>6, <2>1 DEF LinkInv, Aside
<1>8. ASSUME Receives(SubSeq(s, 1, t)) PROVE LabelsInv' /\ FilesFlow(written)' /\ Flows(fileData)'
  <2>1. Labels' = Labels
    BY DEF Labels, Typed, At
  <2>2. PICK w, f : w = written' /\ f = fileData'
    OBVIOUS
  <2>3. FilesFlow(w) /\ Flows(f) /\ f \in Seq(Labels)
    BY <1>8, <2>2 DEF Receives
  <2>4. FilesFlow(w)' /\ Flows(f)'
    BY <2>3, FilesFlowStay, FlowsStay DEF Aside
  <2>5. QED
    BY <1>6, <2>1, <2>2, <2>3, <2>4 DEF LabelsInv, FilesFlow, Flows
<1>9. \A d \in Clients \ {c} : Unread(d)' = Unread(d)
  BY <1>6 DEF Unread
<1>10. \A d \in Clients \ {c} : Gave(Unread(d)) => Gave(Unread(d))'
  BY <1>9, GaveKept DEF Aside
<1>11. CASE Gave(s)
  <2>1. /\ Receives(SubSeq(s, 1, t)) /\ Gave(From(s, t + 1))
        /\ running' => ~Collecting'
    BY <1>1, <1>2, <1>4, <1>5, <1>11, ReadGave DEF Aside
  <2>2. PICK r : r = From(s, t + 1)
    OBVIOUS
  <2>3. Gave(r)'
    BY <2>1, <2>2, GaveStays DEF Aside
  <2>4. Gave(Unread(c))'
    BY <1>5, <2>2, <2>3 DEF Gave
  <2>5. ASSUME running', c # conn, conn \in Clients, Whole(Unread(conn)) PROVE Whole(Unread(conn))'
    <3>1. PICK u : u = Unread(conn)
      OBVIOUS
    <3>2. u = Unread(conn)'
      BY <1>6, <2>5, <3>1 DEF Unread, Aside
    <3>3. InOrder(u)'
      BY <2>5, <3>1, OrderStays DEF Whole
    <3>4. \A i \in 1 .. Len(u) : Known(Place(u[i]), u)'
      <4> SUFFICES ASSUME NEW i \in 1 .. Len(u) PROVE Known(Place(u[i]), u)'
        OBVIOUS
      <4>1. PICK y : y = Place(u[i])
        OBVIOUS
      <4>2. Known(y, u)'
        BY <2>5, <3>1, <4>1, KnownStays DEF Whole, Aside
      <4>3. y = Place(u[i])'
        BY <4>1, OrderStays
      <4>4. QED
        BY <4>2, <4>3 DEF Known
    <3>5. Whole(u)'
      BY <2>1, <2>5, <3>3, <3>4 DEF Whole
    <3>6. QED
      BY <3>2, <3>5 DEF Whole, InOrder
  <2>6. Flows(fileData)'
    BY <1>8, <2>1
  <2>7. ASSUME running' PROVE ReadInv'
    <3>1. \A d \in Clients : Gave(Unread(d)) => Gave(Unread(d))'
      BY <1>10, <2>4
    <3>2. \A d \in Clients \ {conn} : Gave(Unread(d))'
      BY <1>1, <3>1 DEF ReadInv
    <3>3. conn \in Clients /\ Gave(Unread(conn)) => Gave(Unread(conn))'
      <4>1. CASE c = conn
        BY <2>4, <4>1 DEF Aside, Gave
      <4>2. CASE c # conn
        BY <1>6, <4>2 DEF Aside, Gave, Unread
      <4>3. QED
        BY <4>1, <4>2
    <3>4. c = conn => Gave(Unread(conn))'
      BY <2>4 DEF Aside, Gave
    <3>5. bev = "up" => Whole(Unread(conn))'
      <4>1. CASE c = conn
        <5>1. bev = "up" => Whole(s)
          BY <1>1, <1>3, <4>1 DEF ReadInv
        <5>2. bev = "up" => Whole(From(s, t + 1))'
          BY <1>1, <1>2, <1>4, <1>5, <2>7, <5>1, ReadWhole DEF Aside
        <5>3. QED
          BY <1>5, <4>1, <5>2 DEF Aside, Whole, InOrder, From
      <4>2. CASE c # conn
        <5>1. bev = "up" => conn \in Clients
          BY <1>1, PathAssumption DEF LinkInv
        <5>2. QED
          BY <1>1, <2>5, <2>7, <4>2, <5>1 DEF ReadInv
      <4>3. QED
        BY <4>1, <4>2
    <3>6. bev = "left" /\ conn \in Clients =>
            Whole(Unread(conn))' \/ Gave(Unread(conn))' \/ stream'[conn] = <<>>
      <4>1. CASE c = conn
        BY <3>4, <4>1
      <4>2. CASE c # conn
        BY <1>1, <1>6, <2>5, <2>7, <3>3, <4>2 DEF ReadInv
      <4>3. QED
        BY <4>1, <4>2
    <3>7. bev \notin {"up", "left"} => \A d \in Clients : Gave(Unread(d))'
      BY <1>1, <3>1 DEF ReadInv
    <3>8. QED
      BY <2>1, <2>6, <2>7, <3>2, <3>5, <3>6, <3>7 DEF ReadInv, Aside
  <2>8. QED
    BY <1>7, <1>8, <2>1, <2>7 DEF SharedInv
<1>12. CASE c = conn /\ bev \in {"up", "left"} /\ Whole(s)
  <2>1. /\ Receives(SubSeq(s, 1, t))
        /\ running' => Whole(From(s, t + 1))'
    BY <1>1, <1>2, <1>4, <1>5, <1>12, ReadWhole DEF Aside
  <2>2. Flows(fileData)'
    BY <1>8, <2>1
  <2>3. running' => Whole(Unread(conn))'
    BY <1>5, <1>12, <2>1 DEF Aside, Whole, InOrder, From
  <2>4. \A d \in Clients \ {conn} : Gave(Unread(d))'
    BY <1>1, <1>10, <1>12 DEF ReadInv
  <2>5. running' => ReadInv'
    BY <1>12, <2>2, <2>3, <2>4 DEF ReadInv, Aside
  <2>6. QED
    BY <1>7, <1>8, <2>1, <2>5 DEF SharedInv
<1>13. Gave(s) \/ (c = conn /\ bev \in {"up", "left"} /\ Whole(s))
  BY <1>1, <1>3 DEF ReadInv
<1>14. QED
  BY <1>11, <1>12, <1>13

LEMMA AfterIdle ==
  ASSUME SharedInv, Aside, UNCHANGED <<transFile, fileData, written>>, running' => running,
         LinkInv', stream' \in [Clients -> Seq(Labels)], input' \in [Clients -> Seq(Labels)],
         NEW c \in Clients,
         \A d \in Clients \ {c} : stream'[d] = stream[d] /\ input'[d] = input[d],
         Gave(Unread(c)) => Gave(Unread(c))',
         c = conn /\ bev = "up" => stream'[c] = stream[c] /\ input'[c] = input[c],
         c = conn /\ bev = "left" =>
           (stream'[c] = stream[c] /\ input'[c] = input[c]) \/ stream'[c] = <<>>
  PROVE  SharedInv'
<1>1. LabelsInv' 
  <2>1. Labels' = Labels
    BY DEF Labels, Typed, At
  <2>2. QED
    BY <2>1 DEF SharedInv, LabelsInv
<1>2. FilesFlow(written)'
  <2>1. PICK w : w = written
    OBVIOUS
  <2>2. FilesFlow(w)'
    BY <2>1, FilesFlowStay DEF SharedInv, Aside
  <2>3. QED
    BY <2>1, <2>2 DEF FilesFlow
<1>3. ASSUME ReadInv PROVE ReadInv'
  <2>1. Flows(fileData)'
    BY <1>3, FlowsKept DEF ReadInv, Aside
  <2>2. \A d \in Clients \ {c} : Gave(Unread(d)) => Gave(Unread(d))'
    <3>1. \A d \in Clients \ {c} : Unread(d)' = Unread(d)
      BY DEF Unread
    <3>2. QED
      BY <3>1, GaveKept DEF Aside
  <2>3. \A d \in Clients : Gave(Unread(d)) => Gave(Unread(d))'
    BY <2>2
  <2>4. conn \in Clients /\ Gave(Unread(conn)) => Gave(Unread(conn))'
    <3>1. CASE c = conn
      BY <3>1 DEF Aside, Gave
    <3>2. CASE c # conn
      BY <3>2 DEF Aside, Gave, Unread
    <3>3. QED
      BY <3>1, <3>2
  <2>5. ASSUME conn \in Clients, stream'[conn] = stream[conn], input'[conn] = input[conn], Whole(Unread(conn))
        PROVE  Whole(Unread(conn))'
    <3>1. Unread(conn)' = Unread(conn)
      BY <2>5 DEF Unread, Aside
    <3>2. QED
      BY <2>5, <3>1, WholeKept DEF Aside
  <2>6. bev = "up" => Whole(Unread(conn))'
    <3>1. bev = "up" => conn \in Clients
      BY PathAssumption DEF SharedInv, LinkInv
    <3>2. QED
      BY <1>3, <2>5, <3>1 DEF ReadInv
  <2>7. bev = "left" /\ conn \in Clients =>
          Whole(Unread(conn))' \/ Gave(Unread(conn))' \/ stream'[conn] = <<>>
    BY <1>3, <2>4, <2>5 DEF ReadInv
  <2>8. bev \notin {"up", "left"} => (Collecting' => Known(Place(Latest), <<>>)')
    BY <1>3, KnownKept DEF ReadInv, Aside
  <2>9. QED
    BY <1>3, <2>1, <2>3, <2>6, <2>7, <2>8 DEF ReadInv, Aside
<1>4. QED
  BY <1>1, <1>2, <1>3 DEF SharedInv

(* The part of the strings of one connection that is left. *)
LEMMA GaveFront ==
  ASSUME NEW a \in Seq(Labels), NEW b \in Seq(Labels), Gave(a \o b)
  PROVE  Gave(a \o <<>>)
<1>1. a \o <<>> = a
  BY ConcatEmptySeq
<1>2. Len(a) \in Nat /\ Len(b) \in Nat
  BY LenProperties
<1> DEFINE r == a \o b
<1>3. /\ Len(r) = Len(a) + Len(b)
      /\ \A l \in 1 .. Len(a) + Len(b) : r[l] = IF l <= Len(a) THEN a[l] ELSE b[l - Len(a)]
  BY ConcatProperties
<1> HIDE DEF r
<1>4. ASSUME NEW i \in 1 .. Len(a) PROVE a[i] \in stranded
  <2>1. i \in 1 .. Len(a) + Len(b) /\ i \in 1 .. Len(r) /\ i <= Len(a)
    BY <1>2, <1>3
  <2>2. r[i] = a[i]
    BY <1>3, <2>1
  <2>3. QED
    BY <2>1, <2>2 DEF Gave, r
<1>5. QED
  BY <1>1, <1>4 DEF Gave

LEMMA AfterService ==
  ASSUME TypeOK, SharedInv, ClientInv, ServiceAlone
  PROVE  SharedInv' /\ ClientInv'
<1>0. PICK c \in 1 .. conn :
        \/ Loop(c) /\ (phase[c] = "new" /\ running' = FALSE => Broken(c))
        \/ Broken(c) /\ Reset(c)
  BY DEF ServiceAlone
<1>1. UNCHANGED <<bev, drops, typed, adding, using, writeQueue, output, wire, conn, stranded>>
  BY DEF ServiceAlone, theClient
<1>2. ClientInv' /\ Gone' = Gone
  BY <1>1, ClientStays
<1>3. Aside
  BY <1>1, <1>2 DEF Aside
<1>4. LinkInv /\ LabelsInv /\ Gone \in Nat
  BY DEF SharedInv, ClientInv
<1>5. c \in Clients /\ c <= conn /\ conn \in Nat /\ \A d \in Clients : d \in Nat /\ (d > conn => d # c)
  BY <1>4, PathAssumption DEF LinkInv
<1>6. /\ stream \in [Clients -> Seq(Labels)] /\ input \in [Clients -> Seq(Labels)]
      /\ phase \in [Clients -> {"new", "open", "closed", "reset"}] /\ running \in BOOLEAN
  BY <1>4 DEF LabelsInv, TypeOK
<1>7. CASE Readable(c)
  BY <1>2, <1>3, <1>4, <1>5, <1>7, AfterRead
<1>8. ASSUME NEW fd \in Fds, do_accept(c, fd) PROVE SharedInv'
  <2>1. /\ UNCHANGED <<transFile, fileData, written, running, stream, input>>
        /\ phase' = [phase EXCEPT ![c] = "open"]
    BY <1>8 DEF do_accept, transferVars
  <2>2. LinkInv'
    BY <1>1, <1>4, <1>5, <1>6, <2>1 DEF LinkInv
  <2>3. Unread(c)' = Unread(c)
    BY <2>1 DEF Unread
  <2>4. Gave(Unread(c)) => Gave(Unread(c))'
    BY <1>1, <2>3, GaveKept
  <2>5. QED
    BY <1>2, <1>3, <1>5, <1>6, <2>1, <2>2, <2>4, AfterIdle
<1>9. CASE AcceptError(c) /\ Broken(c)
  <2>1. /\ UNCHANGED <<transFile, fileData, written, stream, input>> /\ running' = FALSE /\ running
        /\ phase' = [phase EXCEPT ![c] = "closed"]
    BY <1>9 DEF AcceptError, transferVars
  <2>2. LinkInv'
    BY <1>1, <1>4, <1>5, <1>6, <1>9, <2>1 DEF LinkInv, Broken
  <2>3. Unread(c)' = Unread(c)
    BY <2>1 DEF Unread
  <2>4. Gave(Unread(c)) => Gave(Unread(c))'
    BY <1>1, <2>3, GaveKept
  <2>5. QED
    BY <1>2, <1>3, <1>5, <1>6, <2>1, <2>2, <2>4, AfterIdle
<1>10. CASE error_cb(c)
  <2>1. /\ UNCHANGED <<transFile, fileData, written, running, stream, phase>>
        /\ input' = [input EXCEPT ![c] = <<>>]
        /\ phase[c] \in {"closed", "reset"} /\ stream[c] = <<>>
    BY <1>10 DEF error_cb, transferVars, clientVars
  <2>2. /\ <<>> \in Seq(Labels) /\ input' \in [Clients -> Seq(Labels)] /\ input'[c] = <<>>
        /\ \A d \in Clients \ {c} : input'[d] = input[d]
    BY <1>5, <1>6, <2>1
  <2>3. LinkInv'
    BY <1>1, <1>4, <1>5, <2>1, <2>2 DEF LinkInv
  <2>4. Gave(Unread(c))'
    <3>1. Unread(c)' = <<>> \o <<>>
      BY <2>1, <2>2 DEF Unread
    <3>2. <<>> \o <<>> = <<>>
      OBVIOUS
    <3>3. Len(<<>>) = 0 /\ 1 .. 0 = {}
      OBVIOUS
    <3>4. QED
      BY <3>1, <3>2, <3>3 DEF Gave
  <2>5. ~(c = conn /\ bev = "up")
    BY <1>4, <2>1 DEF LinkInv
  <2>6. QED
    BY <1>2, <1>3, <1>5, <1>6, <2>1, <2>2, <2>3, <2>4, <2>5, AfterIdle
<1>11. CASE Broken(c) /\ Reset(c)
  <2>1. /\ UNCHANGED <<transFile, fileData, written, running, input>>
        /\ stream' = [stream EXCEPT ![c] = <<>>] /\ phase' = [phase EXCEPT ![c] = "reset"]
    BY <1>11 DEF Reset, transferVars
  <2>2. /\ <<>> \in Seq(Labels) /\ stream' \in [Clients -> Seq(Labels)] /\ stream'[c] = <<>>
        /\ \A d \in Clients \ {c} : stream'[d] = stream[d]
    BY <1>5, <1>6, <2>1
  <2>3. LinkInv'
    BY <1>1, <1>4, <1>5, <1>6, <1>11, <2>1, <2>2 DEF LinkInv, Broken
  <2>4. ASSUME Gave(Unread(c)) PROVE Gave(Unread(c))'
    <3>1. Unread(c)' = input[c] \o <<>>
      BY <2>1, <2>2 DEF Unread
    <3>2. PICK a, b \in Seq(Labels) : a = input[c] /\ b = stream[c]
      BY <1>5, <1>6
    <3>3. Gave(a \o <<>>)
      BY <2>4, <3>2, GaveFront DEF Unread
    <3>4. Gave(a \o <<>>)'
      BY <1>1, <3>3, GaveStays
    <3>5. QED
      BY <3>1, <3>2, <3>4 DEF Gave
  <2>5. ~(c = conn /\ bev = "up")
    BY <1>5, <1>11 DEF Broken
  <2>6. QED
    BY <1>2, <1>3, <1>5, <1>6, <2>1, <2>2, <2>3, <2>4, <2>5, AfterIdle
<1>12. AcceptError(c) /\ (phase[c] = "new" /\ running' = FALSE => Broken(c)) => Broken(c)
  BY DEF AcceptError
<1>13. SharedInv'
  BY <1>0, <1>7, <1>8, <1>9, <1>10, <1>11, <1>12 DEF Loop
<1>14. QED
  BY <1>2, <1>13

-----------------------------------------------------------------------------
(* The parts *)

(* What holds of the client even after an overlap. *)
PartsInv ==
  /\ typed \in 0 .. MaxTyped /\ (adding => typed \in Client!Entries)
  /\ writeQueue \in Seq(Client!Entries \cup {Blank})
  /\ output \in Seq(Client!Pieces) /\ wire \in Seq(Client!Pieces)
  /\ drops \in 0 .. MaxDrops /\ conn \in 0 .. drops + 1
  /\ bev = "up" => conn # 0
  /\ bev \in {"connecting", "error", "reconnecting"} => conn <= drops

LEMMA PiecesWritten ==
  ASSUME NEW m \in Client!Entries \cup {Blank}, NEW s \in Seq(Client!Pieces)
  PROVE  s \o Client!PiecesOf(m) \in Seq(Client!Pieces)
<1>1. CASE m = Blank
  BY <1>1, ConcatEmptySeq DEF Client!PiecesOf
<1>2. CASE m \in Client!Entries
  <2>1. 2 * m - 1 \in Client!Pieces /\ 2 * m \in Client!Pieces
    BY <1>2, PathAssumption DEF Client!Entries, Client!Pieces
  <2>2. Client!PiecesOf(m) = <<2 * m - 1, 2 * m>>
    BY <1>2, PathAssumption DEF Client!PiecesOf
  <2>3. QED
    BY <2>1, <2>2, TwoLonger
<1>3. QED
  BY <1>1, <1>2

LEMMA QueueCompletes ==
  ASSUME PartsInv, NEW q \in Seq(Client!Entries \cup {Blank}), Client!Completes(q)
  PROVE  writeQueue' \in Seq(Client!Entries \cup {Blank})
<1>1. <<>> \in Seq(Client!Entries \cup {Blank})
  OBVIOUS
<1>2. \A m \in Client!Entries \cup {Blank} : <<m>> \in Seq(Client!Entries \cup {Blank})
  OBVIOUS
<1>3. Client!Spoilt \subseteq Seq(Client!Entries \cup {Blank})
  BY <1>1, <1>2 DEF Client!Spoilt
<1>4. QED
  BY <1>3 DEF Client!Completes, PartsInv

LEMMA PartsStep == ASSUME PartsInv, [PathNext]_pathVars PROVE PartsInv'
<1>0. /\ Client!Entries' = Client!Entries /\ Client!Pieces' = Client!Pieces
      /\ MaxTyped \in Nat /\ MaxDrops \in Nat /\ typed \in Nat /\ drops \in Nat /\ conn \in Nat
  BY PathAssumption DEF PartsInv, Client!Entries, Client!Pieces
<1>1. CASE Client!PushBegins /\ UNCHANGED conn
  <2>1. /\ typed < MaxTyped /\ typed' = typed + 1
        /\ UNCHANGED <<writeQueue, output, wire, bev, drops>>
    BY <1>1 DEF Client!PushBegins, Client!linkVars, Client!streamVars
  <2>2. QED
    BY <1>0, <1>1, <2>1 DEF PartsInv, Client!Entries, Client!Pieces
<1>2. CASE Client!PushEnds /\ UNCHANGED conn
  <2>1. /\ adding /\ adding' = FALSE /\ Client!Completes(Append(writeQueue, typed))
        /\ UNCHANGED <<typed, output, wire, bev, drops>>
    BY <1>2 DEF Client!PushEnds, Client!linkVars, Client!streamVars
  <2>2. Append(writeQueue, typed) \in Seq(Client!Entries \cup {Blank})
    BY <2>1 DEF PartsInv
  <2>3. QED
    BY <1>0, <1>2, <2>1, <2>2, QueueCompletes DEF PartsInv
<1>3. CASE Client!write_cb /\ UNCHANGED conn
  <2>1. /\ writeQueue # <<>> /\ output' = output \o Client!PiecesOf(Head(writeQueue))
        /\ UNCHANGED <<typed, adding, writeQueue, wire, bev, drops>>
    BY <1>3 DEF Client!write_cb, Client!terminalVars, Client!linkVars, Client!streamVars
  <2>2. Head(writeQueue) \in Client!Entries \cup {Blank}
    BY <2>1, Shorter DEF PartsInv
  <2>3. output' \in Seq(Client!Pieces)
    BY <2>1, <2>2, PiecesWritten DEF PartsInv
  <2>4. QED
    BY <1>0, <1>3, <2>1, <2>3 DEF PartsInv
<1>4. CASE Client!EraseEnds /\ UNCHANGED conn
  <2>1. /\ Client!Completes(Client!erase(writeQueue))
        /\ UNCHANGED <<typed, adding, output, wire, bev, drops>>
    BY <1>4 DEF Client!EraseEnds, Client!terminalVars, Client!linkVars, Client!streamVars
  <2>2. Client!erase(writeQueue) \in Seq(Client!Entries \cup {Blank})
    BY Shorter DEF PartsInv, Client!erase
  <2>3. QED
    BY <1>0, <1>4, <2>1, <2>2, QueueCompletes DEF PartsInv
<1>5. CASE Client!Flush /\ UNCHANGED conn
  <2>1. /\ output # <<>> /\ wire' = Append(wire, Head(output)) /\ output' = Tail(output)
        /\ UNCHANGED <<typed, adding, writeQueue, bev, drops>>
    BY <1>5 DEF Client!Flush, Client!terminalVars, Client!queueVars, Client!linkVars
  <2>2. Head(output) \in Client!Pieces /\ output' \in Seq(Client!Pieces)
    BY <2>1, Shorter DEF PartsInv
  <2>3. wire' \in Seq(Client!Pieces)
    BY <2>1, <2>2, Longer DEF PartsInv
  <2>4. QED
    BY <1>0, <1>5, <2>1, <2>2, <2>3 DEF PartsInv
<1>6. CASE Arrives
  <2>1. /\ wire # <<>> /\ wire' = Tail(wire)
        /\ UNCHANGED <<typed, adding, writeQueue, output, bev, drops, conn>>
    BY <1>6 DEF Arrives, Client!Arrive, Client!terminalVars, Client!queueVars, Client!linkVars
  <2>2. wire' \in Seq(Client!Pieces)
    BY <2>1, Shorter DEF PartsInv
  <2>3. QED
    BY <1>0, <2>1, <2>2 DEF PartsInv
<1>7. CASE Breaks
  <2>1. Client!Drop /\ bev' = "error" /\ UNCHANGED conn
    BY <1>7 DEF Breaks
  <2>2. /\ drops < MaxDrops /\ drops' = drops + 1 /\ wire' = <<>>
        /\ UNCHANGED <<typed, adding, writeQueue, output>>
    BY <2>1 DEF Client!Drop, Client!terminalVars, Client!queueVars
  <2>3. QED
    BY <1>0, <2>1, <2>2 DEF PartsInv
<1>8. CASE Connects
  <2>1. /\ bev \in {"connecting", "reconnecting"} /\ bev' = "up" /\ conn' = conn + 1
        /\ UNCHANGED <<typed, adding, writeQueue, output, wire, drops>>
    BY <1>8 DEF Connects, Client!Connected, Client!Reconnected, Client!terminalVars, Client!queueVars,
                Client!streamVars
  <2>2. conn <= drops
    BY <2>1 DEF PartsInv
  <2>3. conn' \in 0 .. drops' + 1 /\ conn' # 0
    BY <1>0, <2>1, <2>2
  <2>4. QED
    BY <1>0, <2>1, <2>3 DEF PartsInv
<1>9. CASE (Client!ErrorEvent \/ Client!ConnectFails \/ Client!LoopEnds) /\ UNCHANGED conn
  <2>1. /\ UNCHANGED <<typed, adding, writeQueue, output, wire, drops>>
        /\ \/ bev' \in {"freed", "left"}
           \/ bev' = "reconnecting" /\ bev \in {"error", "reconnecting"}
    BY <1>9 DEF Client!ErrorEvent, Client!ConnectFails, Client!LoopEnds, Client!terminalVars,
                Client!queueVars, Client!streamVars
  <2>2. QED
    BY <1>0, <1>9, <2>1 DEF PartsInv
<1>10. CASE UNCHANGED <<theClient, conn>>
  BY <1>0, <1>10 DEF PartsInv, theClient
<1>11. ClientAlone => UNCHANGED conn
  BY DEF ClientAlone
<1>12. ServiceAlone => UNCHANGED <<theClient, conn>>
  BY DEF ServiceAlone
<1>13. UNCHANGED pathVars => UNCHANGED <<theClient, conn>>
  BY DEF pathVars
<1>14. QED
  BY <1>1, <1>2, <1>3, <1>4, <1>5, <1>6, <1>7, <1>8, <1>9, <1>10, <1>11, <1>12, <1>13
     DEF PathNext, ClientAlone

LEMMA PartsKept ==
  ASSUME PartsInv, [PathNext]_pathVars
  PROVE  [Next]_vars /\ [Client!Next]_(Client!vars)
<1>1. [Next]_vars
  <2>1. CASE Arrives
    <3>1. bev = "up" /\ wire # <<>> /\ Send(conn, Part[Head(wire)])
      BY <2>1 DEF Arrives, Client!Arrive
    <3>2. Head(wire) \in Client!Pieces
      BY <3>1, Shorter DEF PartsInv
    <3>3. Part[Head(wire)] \in Messages /\ conn \in Clients
      BY <3>1, <3>2, PathAssumption DEF PartsInv
    <3>4. QED
      BY <3>1, <3>3 DEF Next
  <2>2. CASE ServiceAlone
    <3>1. PICK c \in 1 .. conn : Loop(c) \/ Reset(c)
      BY <2>2 DEF ServiceAlone
    <3>2. c \in Clients
      BY PathAssumption DEF PartsInv
    <3>3. QED
      BY <3>1, <3>2 DEF Next
  <2>3. CASE Connects \/ Breaks \/ ClientAlone
    BY <2>3 DEF Connects, Breaks, ClientAlone
  <2>4. CASE UNCHANGED pathVars
    BY <2>4 DEF pathVars
  <2>5. QED
    BY <2>1, <2>2, <2>3, <2>4 DEF PathNext
<1>2. [Client!Next]_(Client!vars)
  <2>1. CASE ServiceAlone \/ UNCHANGED pathVars
    BY <2>1 DEF ServiceAlone, pathVars, theClient, Client!vars, Client!terminalVars, Client!queueVars,
                Client!linkVars, Client!streamVars
  <2>2. CASE Connects \/ Arrives \/ Breaks \/ ClientAlone
    BY <2>2 DEF Connects, Arrives, Breaks, ClientAlone, Client!Next, Client!Loop
  <2>3. QED
    BY <2>1, <2>2 DEF PathNext
<1>3. QED
  BY <1>1, <1>2

LEMMA PartsInitially == ASSUME PathInit PROVE PartsInv
<1>1. /\ typed = 0 /\ adding = FALSE /\ writeQueue = <<>> /\ output = <<>> /\ wire = <<>>
      /\ bev = "connecting" /\ drops = 0 /\ conn = 0
  BY DEF PathInit, Client!Init
<1>2. \A S : <<>> \in Seq(S)
  OBVIOUS
<1>3. QED
  BY <1>1, <1>2, PathAssumption DEF PartsInv

(* The composition adds no behaviour to its parts: seen from the service   *)
(* it is the service with one client at a time, and seen from the client   *)
(* it is the client (but for the fairness), so that what holds of either   *)
(* part holds in it.  No message but those pieces and no connection but    *)
(* those the client makes ever reaches the service.                        *)
THEOREM PathHasItsParts ==
  PathSpec => Spec /\ Client!Init /\ [][Client!Next]_(Client!vars)
<1>1. PathInit => PartsInv /\ Init /\ Client!Init
  BY PartsInitially DEF PathInit
<1>2. PartsInv /\ [PathNext]_pathVars => PartsInv'
  BY PartsStep
<1>3. PartsInv /\ [PathNext]_pathVars => [Next]_vars /\ [Client!Next]_(Client!vars)
  BY PartsKept
<1>4. QED
  BY <1>1, <1>2, <1>3, PTL DEF PathSpec, Spec

-----------------------------------------------------------------------------
(* What is typed is saved *)

(* The inductive invariant. *)
PathInv ==
  /\ PartsInv /\ TypeOK /\ overlapped \in BOOLEAN
  /\ ~overlapped => ClientInv /\ SharedInv

LEMMA PathInitially == ASSUME PathInit PROVE PathInv
<1>1. Init /\ Client!Init /\ conn = 0 /\ stranded = {}
  BY DEF PathInit
<1>2. TypeOK
  BY <1>1, TypeInit
<1>3. /\ typed = 0 /\ adding = FALSE /\ using = FALSE /\ writeQueue = <<>> /\ overlapped = FALSE
      /\ bev = "connecting" /\ output = <<>> /\ wire = <<>> /\ drops = 0
  BY <1>1 DEF Client!Init
<1>4. /\ transFile = [k \in Kinds |-> FALSE] /\ fileData = <<>> /\ written = <<>>
      /\ input = [c \in Clients |-> <<>>] /\ stream = [c \in Clients |-> <<>>]
      /\ phase = [c \in Clients |-> "new"]
  BY <1>1 DEF Init
<1>5. Len(<<>>) = 0 /\ 1 .. 0 = {} /\ \A S : <<>> \in Seq(S)
  OBVIOUS
<1>6. ClientInv
  <2>1. Queued = <<>> /\ Pushed = 0
    BY <1>3 DEF Queued, Pushed
  <2>2. Len(Queued) = 0 /\ Len(output) = 0 /\ Len(wire) = 0
    BY <1>3, <1>5, <2>1
  <2>3. Gone = 0
    <3>1. Gone = 2 * 0 - 2 * 0 - 0 - 0
      BY <2>1, <2>2 DEF Gone
    <3>2. QED
      BY <3>1
  <2>4. /\ writeQueue \in Seq(Client!Entries) /\ output \in Seq(Client!Pieces)
        /\ wire \in Seq(Client!Pieces)
    BY <1>3, <1>5
  <2>5. /\ \A i \in 1 .. Len(wire) : wire[i] = Gone + i
        /\ \A i \in 1 .. Len(output) : output[i] = Gone + Len(wire) + i
        /\ \A i \in 1 .. Len(Queued) : 2 * Queued[i] = Gone + Len(wire) + Len(output) + 2 * i
    BY <1>5, <2>2
  <2>6. typed \in 0 .. MaxTyped /\ Gone \in Nat
    BY <1>3, <2>3, PathAssumption
  <2>7. adding \in BOOLEAN /\ using \in BOOLEAN /\ ~adding /\ ~using
    BY <1>3
  <2>8. QED
    BY <2>4, <2>5, <2>6, <2>7 DEF ClientInv
<1>7. LinkInv
  BY <1>1, <1>3, <1>4, PathAssumption DEF LinkInv
<1>8. LabelsInv
  BY <1>4, <1>5 DEF LabelsInv
<1>9. FilesFlow(written)
  BY <1>4, <1>5 DEF FilesFlow
<1>10. ReadInv
  <2>1. \A c \in Clients : Unread(c) = <<>>
    <3>1. <<>> \o <<>> = <<>>
      OBVIOUS
    <3>2. QED
      BY <1>4, <3>1 DEF Unread
  <2>2. \A c \in Clients : Gave(Unread(c))
    BY <1>5, <2>1 DEF Gave
  <2>3. ~Collecting
    BY <1>4 DEF Collecting
  <2>4. Flows(fileData)
    BY <1>4, <1>5, ShortFlows
  <2>5. QED
    BY <1>3, <2>2, <2>3, <2>4 DEF ReadInv
<1>11. PartsInv
  BY PartsInitially
<1>12. QED
  BY <1>2, <1>3, <1>6, <1>7, <1>8, <1>9, <1>10, <1>11 DEF PathInv, SharedInv

(* A step of the client alone, but for an overlap. *)
LEMMA AfterClient ==
  ASSUME SharedInv, ClientInv, ClientAlone, ~overlapped'
  PROVE  SharedInv' /\ ClientInv'
<1>1. UNCHANGED <<vars, conn, stranded>>
  BY DEF ClientAlone
<1>2. CASE Client!PushBegins
  <2>1. bev' = bev /\ drops' = drops
    BY <1>2 DEF Client!PushBegins, Client!linkVars, Client!streamVars
  <2>2. QED
    BY <1>1, <1>2, <2>1, AfterPushBegins, AfterQuiet
<1>3. CASE Client!PushEnds
  <2>1. bev' = bev /\ drops' = drops
    BY <1>3 DEF Client!PushEnds, Client!linkVars, Client!streamVars
  <2>2. QED
    BY <1>1, <1>3, <2>1, AfterPushEnds, AfterQuiet
<1>4. CASE Client!write_cb
  <2>1. bev' = bev /\ drops' = drops
    BY <1>4 DEF Client!write_cb, Client!linkVars, Client!streamVars
  <2>2. QED
    BY <1>1, <1>4, <2>1, AfterWrite, AfterQuiet
<1>5. CASE Client!EraseEnds
  <2>1. bev' = bev /\ drops' = drops
    BY <1>5 DEF Client!EraseEnds, Client!linkVars, Client!streamVars
  <2>2. QED
    BY <1>1, <1>5, <2>1, AfterErase, AfterQuiet
<1>6. CASE Client!Flush
  <2>1. bev' = bev /\ drops' = drops
    BY <1>6 DEF Client!Flush, Client!linkVars
  <2>2. QED
    BY <1>1, <1>6, <2>1, AfterFlush, AfterQuiet
<1>7. CASE Client!ErrorEvent \/ Client!ConnectFails \/ Client!LoopEnds
  <2>1. /\ drops' = drops /\ UNCHANGED <<typed, adding, using, writeQueue, output, wire>>
        /\ \/ bev' = bev
           \/ bev \notin {"up", "left"} /\ bev' \in {"reconnecting", "freed", "left"}
           \/ bev = "up" /\ bev' = "left"
    BY <1>7 DEF Client!ErrorEvent, Client!ConnectFails, Client!LoopEnds, Client!terminalVars,
                Client!queueVars, Client!streamVars
  <2>2. QED
    BY <1>1, <2>1, ClientStays, AfterQuiet
<1>8. QED
  BY <1>2, <1>3, <1>4, <1>5, <1>6, <1>7 DEF ClientAlone

(* An overlap is not forgotten. *)
LEMMA OverlapStays ==
  ASSUME overlapped \in BOOLEAN, [PathNext]_pathVars
  PROVE  overlapped' \in BOOLEAN /\ (overlapped => overlapped')
<1>1. CASE overlapped' = overlapped
  BY <1>1
<1>2. CASE Client!PushBegins \/ Client!write_cb
  BY <1>2 DEF Client!PushBegins, Client!write_cb
<1>3. overlapped' = overlapped \/ Client!PushBegins \/ Client!write_cb
  BY DEF PathNext, Connects, Arrives, Breaks, ClientAlone, ServiceAlone, pathVars, theClient,
         Client!Connected, Client!Reconnected, Client!Arrive, Client!Drop, Client!PushEnds,
         Client!EraseEnds, Client!Flush, Client!ErrorEvent, Client!ConnectFails, Client!LoopEnds,
         Client!queueVars
<1>4. QED
  BY <1>1, <1>2, <1>3

(* Every step keeps the invariant. *)
LEMMA PathStep == ASSUME PathInv, [PathNext]_pathVars PROVE PathInv'
<1>1. overlapped' \in BOOLEAN /\ (overlapped => overlapped')
  BY OverlapStays DEF PathInv
<1>0. PartsInv' /\ TypeOK'
  BY PartsStep, PartsKept, TypesKept DEF PathInv
<1> SUFFICES ASSUME ~overlapped' PROVE ClientInv' /\ SharedInv'
  BY <1>0, <1>1 DEF PathInv
<1>2. TypeOK /\ ClientInv /\ SharedInv
  BY <1>1 DEF PathInv
<1>3. CASE UNCHANGED pathVars
  <2>1. UNCHANGED <<vars, conn, stranded, bev, drops, typed, adding, using, writeQueue, output, wire>>
    BY <1>3 DEF pathVars, theClient
  <2>2. QED
    BY <1>2, <2>1, ClientStays, AfterQuiet
<1>4. CASE PathNext
  BY <1>2, <1>4, AfterConnects, AfterArrives, AfterBreaks, AfterClient, AfterService DEF PathNext
<1>5. QED
  BY <1>3, <1>4

(* What the invariant says of the files is what SavedAsTyped says. *)
LEMMA PathInvSaves == ASSUME PathInv PROVE SavedAsTyped
<1> SUFFICES ASSUME ~overlapped, NEW n \in DOMAIN written,
                    NEW i \in 1 .. Len(written[n].content) - 1
             PROVE  Joined(Place(written[n].content[i]), Place(written[n].content[i + 1]))
  BY DEF SavedAsTyped
<1>1. FilesFlow(written) /\ written \in Seq(Files)
  BY DEF PathInv, SharedInv, TypeOK, Files
<1>2. n \in 1 .. Len(written)
  BY <1>1, LenProperties
<1>3. QED
  BY <1>1, <1>2 DEF FilesFlow, Flows

(* A file holds what was typed, in the order it was typed, whatever the    *)
(* reads, the breaks and the reconnections, for any number of messages and *)
(* of connections: a hole or a piece out of order is only where a          *)
(* connection broke, and only a push that overlaps write_cb can change it. *)
THEOREM TypedIsSaved == PathSpec => []SavedAsTyped
<1>1. PathInv /\ [PathNext]_pathVars => PathInv'
  BY PathStep
<1>2. PathInit => PathInv
  BY PathInitially
<1>3. PathInv => SavedAsTyped
  BY PathInvSaves
<1>4. QED
  BY <1>1, <1>2, <1>3, PTL DEF PathSpec
==============================================================================
