------------------------- MODULE NetworkClientProofs -------------------------
(***************************************************************************)
(* What a NetworkClient sends and shows depends on its last call alone, for *)
(* any number of calls: every setting that stands is of a later call than   *)
(* the last request (Fresh), and the handle is as the last method that was  *)
(* applied left it (AsApplied).                                             *)
(***************************************************************************)
EXTENDS NetworkClient, TLAPS

LEMMA Bound == MaxCalls \in Nat /\ MaxCalls > 0
BY NetAssumption

LEMMA Names == "unset" \notin Custom /\ "GET" \notin Custom /\ "POST" \notin Custom /\ "PUT" \notin Custom
BY NetAssumption

Handles == [custom : {"unset"} \cup Custom, upload : BOOLEAN, httpreq : {"GET", "POST", "FORM"},
            postfields : Numbers, reader : {"default", "object", "form"}]

(* The calls made since the last request, and the one that is prepared. *)
Since == performed + 1 .. This

Fresh ==
  /\ performed <= calls
  /\ {m_method[2], m_OutFileName, chunkOffset_, chunkSize_, m_uploadingFile} \subseteq Since \cup {0}
  /\ m_uploadingFile # This
  /\ Tags(m_QueryHeaders) \subseteq Since /\ Tags(m_QueryParams) \subseteq Since

AsApplied ==
  /\ applied \in Custom => handle.custom = applied
  /\ applied \notin Custom => handle.custom = "unset"
  /\ handle.upload <=> applied = "PUT"

Inv == TypeOK /\ Fresh /\ AsApplied

-----------------------------------------------------------------------------
(* What private_apply_method makes of the handle, method by method. *)
LEMMA Applies ==
  ASSUME TypeOK, NEW otherwise \in {"GET", "POST"}
  PROVE  LET h == private_apply_method(otherwise)
             name == m_method[1]
         IN  /\ h \in Handles
             /\ h.postfields = handle.postfields /\ h.reader = handle.reader
             /\ name \in Custom => h.custom = name
             /\ name \notin Custom => h.custom = "unset"
             /\ h.upload <=> name = "PUT"
             /\ name = "unset" => h.httpreq = otherwise
             /\ name = "POST" => h.httpreq = "POST"
             /\ name \notin {"unset", "POST"} => h.httpreq = "GET"
<1> USE Bound, Names
<1> DEFINE name == m_method[1]
           plain == [handle EXCEPT !.custom = "unset", !.upload = FALSE, !.httpreq = "GET"]
<1>1. name \in Methods /\ handle \in Handles
  BY DEF TypeOK, Handles
<1>2. /\ plain \in Handles /\ plain.custom = "unset" /\ plain.upload = FALSE /\ plain.httpreq = "GET"
      /\ plain.postfields = handle.postfields /\ plain.reader = handle.reader
  BY <1>1 DEF Handles
<1> DEFINE method == IF name = "unset" THEN otherwise ELSE name
<1>3. CASE method = "GET"
  <2>1. private_apply_method(otherwise) = plain
    BY <1>3 DEF private_apply_method
  <2> QED BY <1>1, <1>2, <1>3, <2>1 DEF Methods
<1>4. CASE method = "POST"
  <2>1. private_apply_method(otherwise) = [plain EXCEPT !.httpreq = "POST"]
    BY <1>4 DEF private_apply_method
  <2> QED BY <1>1, <1>2, <1>4, <2>1 DEF Methods, Handles
<1>5. CASE method = "PUT"
  <2>1. private_apply_method(otherwise) = [plain EXCEPT !.upload = TRUE]
    BY <1>5 DEF private_apply_method
  <2> QED BY <1>1, <1>2, <1>5, <2>1 DEF Methods, Handles
<1>6. CASE method \in Custom
  <2>1. private_apply_method(otherwise) = [plain EXCEPT !.custom = method]
    BY <1>6 DEF private_apply_method
  <2> QED BY <1>1, <1>2, <1>6, <2>1 DEF Methods, Handles
<1> QED BY <1>1, <1>3, <1>4, <1>5, <1>6 DEF Methods

(* What every request leaves behind, whatever kind it is of. *)
LEMMA PerformLeaves ==
  ASSUME Inv, calls < MaxCalls,
         NEW call, NEW h \in Handles, NEW headers, NEW others, NEW file, NEW asked, NEW data,
         Tags(headers) \cup others \subseteq Since,
         Perform(call, h, headers, others, file, asked, data),
         applied' \in Methods,
         applied' \in Custom => h.custom = applied',
         applied' \notin Custom => h.custom = "unset",
         h.upload <=> applied' = "PUT"
  PROVE  Inv' /\ NothingCarriesOver' /\ ResponsesAreOwn'
<1> USE Bound, Names
<1> USE DEF Numbers
<1>1. performed \in Nat /\ calls \in Nat /\ performed <= calls /\ This = calls + 1 /\ This \in Numbers
  BY DEF Inv, TypeOK, Fresh, This
<1>2. private_cleanup_after(file) /\ handle' = h /\ calls' = This /\ performed' = This
  BY DEF Perform
<1>3. (internalBuffer \cup m_ResponseHeaders)' \subseteq {This}
  BY DEF Perform, Answered, private_cleanup_before
<1>4. TypeOK'
  BY <1>1, <1>2, <1>3 DEF private_cleanup_after, TypeOK, Handles, Methods
<1>5. Fresh'
  BY <1>1, <1>2 DEF private_cleanup_after, Fresh, Since, This, Tags
<1>6. AsApplied'
  BY <1>2 DEF AsApplied
<1>7. NothingCarriesOver'
  <2>1. sent'.after = performed
        /\ sent'.used = (Tags(headers) \cup others \cup {m_method[2], m_OutFileName}) \ {0}
    BY DEF Perform
  <2>2. sent'.used \subseteq Since
    BY <2>1 DEF Inv, Fresh
  <2> QED BY <1>1, <2>1, <2>2 DEF NothingCarriesOver, Since
<1>8. ResponsesAreOwn'
  BY <1>2, <1>3 DEF ResponsesAreOwn
<1> QED BY <1>4, <1>5, <1>6, <1>7, <1>8 DEF Inv

(* Its headers are those that were set, and those it adds. *)
LEMMA OwnHeaders ==
  ASSUME Inv
  PROVE  /\ This \in Since
         /\ Tags(Expecting) \subseteq Since
         /\ Tags(Expecting \cup {<<"Length", This>>}) \subseteq Since
<1> USE Bound, Names
<1>1. This \in Since
  BY DEF Inv, Fresh, Since, This, TypeOK, Numbers
<1>2. Tags(m_QueryHeaders) \subseteq Since
  BY DEF Inv, Fresh
<1> QED BY <1>1, <1>2 DEF Tags, Expecting

(* The properties of what is sent. *)
SentWell == NothingCarriesOver /\ MethodIsOwn /\ BodyIsAsked /\ ResponsesAreOwn

LEMMA GetSends == Inv /\ calls < MaxCalls /\ doGet => Inv' /\ SentWell'
<1> USE Bound, Names
<1> SUFFICES ASSUME Inv, calls < MaxCalls, doGet PROVE Inv' /\ SentWell'
  OBVIOUS
<1> DEFINE h == private_apply_method("GET")
<1> HIDE DEF h
<1>1. /\ Perform("doGet", h, Expecting, {}, m_uploadingFile, Nothing, Nothing)
      /\ applied' = m_method[1]
  BY DEF doGet, h
<1>2. m_method[1] \in Methods
  BY DEF Inv, TypeOK
<1>3. /\ h \in Handles
      /\ m_method[1] \in Custom => h.custom = m_method[1]
      /\ m_method[1] \notin Custom => h.custom = "unset"
      /\ h.upload <=> m_method[1] = "PUT"
      /\ m_method[1] = "POST" => h.httpreq = "POST"
      /\ m_method[1] # "POST" => h.httpreq = "GET"
  BY Applies, "GET" \in {"GET", "POST"} DEF Inv, h
<1>4. Inv' /\ NothingCarriesOver' /\ ResponsesAreOwn'
  BY <1>1, <1>2, <1>3, PerformLeaves, OwnHeaders
<1>5. /\ sent'.call = "doGet" /\ sent'.method = m_method[1] /\ sent'.verb = Verb(h)
      /\ sent'.asked = Nothing
      /\ sent'.body = Body(h, m_uploadingFile, Nothing, Nothing)
  BY <1>1 DEF Perform
<1>6. MethodIsOwn'
  BY <1>2, <1>3, <1>5 DEF MethodIsOwn, Verb, Methods
<1>7. BodyIsAsked'
  BY <1>2, <1>3, <1>5 DEF BodyIsAsked, Body, Methods
<1> QED BY <1>4, <1>6, <1>7 DEF SentWell

LEMMA PostSends == Inv /\ calls < MaxCalls /\ doPost => Inv' /\ SentWell'
<1> USE Bound, Names
<1> SUFFICES ASSUME Inv, calls < MaxCalls, doPost PROVE Inv' /\ SentWell'
  OBVIOUS
<1> DEFINE a == private_apply_method("POST")
           h == [a EXCEPT !.postfields = This, !.httpreq = "POST"]
           asked == [from |-> "post", call |-> This, pieces |-> <<1>>]
<1>1. PICK fields \in {{}, {p \in m_QueryParams : p[1] = "field"}} :
        Perform("doPost", h, Expecting, Tags(fields), m_uploadingFile, asked, Nothing)
  BY DEF doPost
<1>2. applied' = m_method[1] /\ m_method[1] \in Methods
  BY DEF doPost, Inv, TypeOK
<1> HIDE DEF a
<1>3. /\ a \in Handles
      /\ m_method[1] \in Custom => a.custom = m_method[1]
      /\ m_method[1] \notin Custom => a.custom = "unset"
      /\ a.upload <=> m_method[1] = "PUT"
  BY Applies, "POST" \in {"GET", "POST"} DEF Inv, a
<1>4. This \in Numbers /\ This # 0
  BY DEF Inv, TypeOK, Numbers, This
<1>5. /\ h \in Handles /\ h.custom = a.custom /\ h.upload = a.upload
      /\ h.postfields = This /\ h.httpreq = "POST"
  BY <1>3, <1>4 DEF Handles
<1> HIDE DEF h, asked
<1>6. Tags(Expecting) \cup Tags(fields) \subseteq Since
  BY OwnHeaders DEF Inv, Fresh, Tags
<1>7. Inv' /\ NothingCarriesOver' /\ ResponsesAreOwn'
  <2> DEFINE others == Tags(fields)
  <2> HIDE DEF others
  <2>1. /\ Perform("doPost", h, Expecting, others, m_uploadingFile, asked, Nothing)
        /\ Tags(Expecting) \cup others \subseteq Since
    BY <1>1, <1>6 DEF others
  <2> QED BY <1>2, <1>3, <1>5, <2>1, PerformLeaves
<1>8. /\ sent'.call = "doPost" /\ sent'.method = m_method[1] /\ sent'.verb = Verb(h)
      /\ sent'.asked = asked
      /\ sent'.body = Body(h, m_uploadingFile, asked, Nothing)
  BY <1>1 DEF Perform
<1>9. MethodIsOwn'
  BY <1>2, <1>3, <1>5, <1>8 DEF MethodIsOwn, Verb, Methods
<1>10. BodyIsAsked'
  <2>1. CASE m_method[1] = "PUT"
    BY <1>8, <2>1 DEF BodyIsAsked
  <2>2. CASE m_method[1] # "PUT"
    <3>1. Body(h, m_uploadingFile, asked, Nothing) = asked
      BY <1>3, <1>4, <1>5, <2>2 DEF Body, asked
    <3> QED BY <1>8, <3>1 DEF BodyIsAsked
  <2> QED BY <2>1, <2>2
<1> QED BY <1>7, <1>9, <1>10 DEF SentWell

Pieces == {<<1>>, <<1, 2>>}

(* An upload reads its own file or data, or a file left open since. *)
LEMMA UploadSends ==
  ASSUME Inv, calls < MaxCalls, NEW file, NEW asked, NEW data, NEW chunk,
         Uploads(file, asked, data, chunk), chunk \subseteq Since,
         \/ file = This
         \/ /\ file = m_uploadingFile /\ data = asked
            /\ asked \in [from : {"data"}, call : {This}, pieces : Pieces]
  PROVE  Inv' /\ SentWell'
<1> USE Bound, Names
<1> DEFINE a == private_apply_method("POST")
           h == [a EXCEPT !.postfields = 0, !.httpreq = "POST", !.reader = "object"]
           headers == Expecting \cup {<<"Length", This>>}
<1>1. /\ Perform("doUpload", h, headers, chunk, file, asked, data)
      /\ applied' = m_method[1]
  BY DEF Uploads
<1>2. m_method[1] \in Methods /\ 0 \in Numbers
  BY DEF Inv, TypeOK, Numbers
<1>3. Tags(headers) \cup chunk \subseteq Since
  BY OwnHeaders
<1> HIDE DEF a, headers
<1>4. /\ a \in Handles
      /\ m_method[1] \in Custom => a.custom = m_method[1]
      /\ m_method[1] \notin Custom => a.custom = "unset"
      /\ a.upload <=> m_method[1] = "PUT"
  BY Applies, "POST" \in {"GET", "POST"} DEF Inv, a
<1>5. /\ h \in Handles /\ h.custom = a.custom /\ h.upload = a.upload
      /\ h.postfields = 0 /\ h.httpreq = "POST" /\ h.reader = "object"
  BY <1>2, <1>4 DEF Handles
<1> HIDE DEF h
<1>6. Inv' /\ NothingCarriesOver' /\ ResponsesAreOwn'
  BY <1>1, <1>2, <1>3, <1>4, <1>5, PerformLeaves
<1>7. /\ sent'.call = "doUpload" /\ sent'.method = m_method[1] /\ sent'.verb = Verb(h)
      /\ sent'.after = performed /\ sent'.asked = asked /\ sent'.body = Body(h, file, asked, data)
  BY <1>1 DEF Perform
<1>8. MethodIsOwn'
  BY <1>2, <1>4, <1>5, <1>7 DEF MethodIsOwn, Verb, Methods
<1>9. Body(h, file, asked, data) = private_read_callback(file, asked, data)
  BY <1>5 DEF Body
<1>10. BodyIsAsked'
  <2>1. CASE file = This
    <3>1. private_read_callback(file, asked, data) = asked
      <4>1. This # 0
        BY DEF Inv, TypeOK, Numbers, This
      <4> QED BY <2>1, <4>1 DEF private_read_callback
    <3> QED BY <1>7, <1>9, <3>1 DEF BodyIsAsked
  <2>2. CASE file # This /\ file # 0
    <3>1. file > performed
      BY <2>2 DEF Inv, TypeOK, Fresh, Since, This, Numbers
    <3>2. sent'.body = [from |-> "file", call |-> file, pieces |-> <<1>>]
      BY <1>7, <1>9, <2>2 DEF private_read_callback
    <3> QED BY <1>7, <3>1, <3>2 DEF BodyIsAsked
  <2>3. CASE file # This /\ file = 0
    <3>1. sent'.body = [data EXCEPT !.pieces = [i \in DOMAIN @ |-> 1]]
      BY <1>7, <1>9, <2>3 DEF private_read_callback
    <3>2. CASE asked.pieces = <<1>>
      <4>1. [i \in DOMAIN <<1>> |-> 1] = <<1>>
        OBVIOUS
      <4>2. sent'.body = asked
        BY <2>3, <3>1, <3>2, <4>1
      <4> QED BY <1>7, <4>2 DEF BodyIsAsked
    <3>3. CASE asked.pieces = <<1, 2>>
      BY <1>7, <3>3 DEF BodyIsAsked
    <3> QED BY <2>3, <3>2, <3>3 DEF Pieces
  <2> QED BY <2>1, <2>2, <2>3
<1> QED BY <1>6, <1>8, <1>10 DEF SentWell

LEMMA UploadsSend ==
  Inv /\ calls < MaxCalls /\ (doUploadFile \/ doUploadData) => Inv' /\ SentWell'
<1> USE Bound, Names
<1> SUFFICES ASSUME Inv, calls < MaxCalls PROVE doUploadFile \/ doUploadData => Inv' /\ SentWell'
  OBVIOUS
<1>1. ASSUME doUploadFile PROVE Inv' /\ SentWell'
  <2> DEFINE chunk == IF 0 \in {chunkOffset_, chunkSize_} THEN {} ELSE {chunkOffset_, chunkSize_}
             asked == [from |-> "file", call |-> This, pieces |-> <<1>>]
  <2>1. Uploads(This, asked, Nothing, chunk)
    BY <1>1 DEF doUploadFile
  <2>2. chunk \subseteq Since
    BY DEF Inv, Fresh
  <2> HIDE DEF chunk, asked
  <2> QED BY <2>1, <2>2, UploadSends
<1>2. ASSUME doUploadData PROVE Inv' /\ SentWell'
  <2>1. PICK pieces \in {<<1>>, <<1, 2>>} :
          Uploads(m_uploadingFile, [from |-> "data", call |-> This, pieces |-> pieces],
                  [from |-> "data", call |-> This, pieces |-> pieces], {})
    BY <1>2 DEF doUploadData
  <2> DEFINE data == [from |-> "data", call |-> This, pieces |-> pieces]
  <2>2. data \in [from : {"data"}, call : {This}, pieces : Pieces]
    BY DEF Pieces
  <2>3. Uploads(m_uploadingFile, data, data, {})
    BY <2>1
  <2> HIDE DEF data
  <2> QED BY <2>2, <2>3, UploadSends
<1> QED BY <1>1, <1>2

(* The reader of a form is the only option of the handle that is changed   *)
(* before its files are open.                                              *)
LEMMA FormReads ==
  ASSUME Inv
  PROVE  /\ FormReader \in Handles
         /\ FormReader.custom = handle.custom /\ FormReader.upload = handle.upload
BY DEF FormReader, Inv, TypeOK, Handles

LEMMA MultipartSends == Inv /\ calls < MaxCalls /\ doUploadMultipartData => Inv' /\ SentWell'
<1> USE Bound, Names
<1> SUFFICES ASSUME Inv, calls < MaxCalls, doUploadMultipartData PROVE Inv' /\ SentWell'
  OBVIOUS
<1> DEFINE a == FormReader
           h == [a EXCEPT !.httpreq = "FORM"]
           asked == [from |-> "form", call |-> This, pieces |-> <<1>>]
           others == Tags(m_QueryParams)
<1>1. /\ Perform("doUploadMultipartData", h, Expecting, others, m_uploadingFile, asked, Nothing)
      /\ applied' = applied
  BY DEF doUploadMultipartData
<1>2. applied \in Methods
  BY DEF Inv, TypeOK
<1>3. Tags(Expecting) \cup others \subseteq Since
  BY OwnHeaders DEF Inv, Fresh
<1>4. a \in Handles /\ a.custom = handle.custom /\ a.upload = handle.upload
  BY FormReads
<1> HIDE DEF a, others
<1>5. /\ h \in Handles /\ h.custom = handle.custom /\ h.upload = handle.upload /\ h.httpreq = "FORM"
  BY <1>4 DEF Handles
<1> HIDE DEF h, asked
<1>6. /\ applied \in Custom => h.custom = applied
      /\ applied \notin Custom => h.custom = "unset"
      /\ h.upload <=> applied = "PUT"
  BY <1>5 DEF Inv, AsApplied
<1>7. Inv' /\ NothingCarriesOver' /\ ResponsesAreOwn'
  BY <1>1, <1>2, <1>3, <1>5, <1>6, PerformLeaves
<1>8. /\ sent'.call = "doUploadMultipartData" /\ sent'.inherited = applied /\ sent'.verb = Verb(h)
      /\ sent'.asked = asked /\ sent'.body = Body(h, m_uploadingFile, asked, Nothing)
  BY <1>1 DEF Perform
<1>9. MethodIsOwn'
  BY <1>2, <1>5, <1>6, <1>8 DEF MethodIsOwn, Verb, Methods
<1>10. BodyIsAsked'
  <2>1. CASE applied = "PUT"
    BY <1>8, <2>1 DEF BodyIsAsked
  <2>2. CASE applied # "PUT"
    <3>1. Body(h, m_uploadingFile, asked, Nothing) = asked
      BY <1>5, <1>6, <2>2 DEF Body, asked
    <3> QED BY <1>8, <3>1 DEF BodyIsAsked
  <2> QED BY <2>1, <2>2
<1> QED BY <1>7, <1>9, <1>10 DEF SentWell

-----------------------------------------------------------------------------
(* A call that is given up, and a setting, send nothing. *)
LEMMA GivenUp ==
  Inv /\ SentWell /\ calls < MaxCalls /\ (doUploadFails \/ MultipartFails) => Inv' /\ SentWell'
<1> USE Bound, Names
<1> SUFFICES ASSUME Inv, SentWell, calls < MaxCalls
             PROVE  doUploadFails \/ MultipartFails => Inv' /\ SentWell'
  OBVIOUS
<1> USE DEF Numbers
<1>0. performed \in Nat /\ calls \in Nat /\ performed <= calls /\ This = calls + 1 /\ This \in Numbers
  BY DEF Inv, TypeOK, Fresh, This
<1>1. ASSUME calls' = This, performed' = performed PROVE Since \subseteq Since' /\ This \in Since' /\ This' \notin Since
  BY <1>0, <1>1 DEF Since, This
<1>2. ASSUME doUploadFails PROVE Inv' /\ SentWell'
  <2>1. TypeOK'
    BY <1>0, <1>2 DEF doUploadFails, Inv, TypeOK, settings, answer
  <2>2. Fresh'
    BY <1>0, <1>1, <1>2 DEF doUploadFails, Inv, Fresh, settings, This
  <2>3. AsApplied' /\ SentWell'
    BY <1>2 DEF doUploadFails, answer, Inv, AsApplied, SentWell, NothingCarriesOver, MethodIsOwn,
                BodyIsAsked, ResponsesAreOwn
  <2> QED BY <2>1, <2>2, <2>3 DEF Inv
<1>3. ASSUME MultipartFails PROVE Inv' /\ SentWell'
  <2>1. handle' \in Handles /\ handle'.custom = handle.custom /\ handle'.upload = handle.upload
    BY <1>3, FormReads DEF MultipartFails
  <2>2. TypeOK'
    BY <1>0, <1>3, <2>1 DEF MultipartFails, Inv, TypeOK, Handles, Expecting, private_cleanup_before
  <2>3. Fresh'
    <3>1. calls' = This /\ performed' = performed /\ m_QueryHeaders' = Expecting
      BY <1>3 DEF MultipartFails
    <3>2. Tags(m_QueryHeaders') \subseteq Since
      BY <3>1, OwnHeaders
    <3> QED BY <1>0, <1>1, <1>3, <3>1, <3>2 DEF MultipartFails, Inv, Fresh, This, Tags
  <2>4. AsApplied'
    BY <1>3, <2>1 DEF MultipartFails, Inv, AsApplied
  <2>5. SentWell'
    BY <1>3 DEF MultipartFails, private_cleanup_before, SentWell, NothingCarriesOver, MethodIsOwn,
                BodyIsAsked, ResponsesAreOwn
  <2> QED BY <2>2, <2>3, <2>4, <2>5 DEF Inv
<1> QED BY <1>2, <1>3

LEMMA SetterSendsNothing == Inv /\ SentWell /\ Setter => Inv' /\ SentWell'
<1> USE Bound, Names
<1> SUFFICES ASSUME Inv, SentWell, Setter PROVE Inv' /\ SentWell'
  OBVIOUS
<1> USE DEF Numbers
<1>0. /\ performed \in Nat /\ calls \in Nat /\ performed <= calls /\ calls < MaxCalls
      /\ This = calls + 1 /\ This \in Numbers /\ This \in Since
  BY DEF Inv, TypeOK, Fresh, This, Since, Setter
<1>1. UNCHANGED <<answer, rest>>
  BY DEF Setter
<1>2. Since' = Since /\ This' = This
  BY <1>1 DEF rest, Since, This
<1>3. AsApplied' /\ SentWell'
  BY <1>1 DEF answer, rest, Inv, AsApplied, SentWell, NothingCarriesOver, MethodIsOwn, BodyIsAsked,
              ResponsesAreOwn
<1>4. TypeOK' /\ Fresh'
  <2>1. ASSUME NEW name \in Methods, setMethod(name) PROVE TypeOK' /\ Fresh'
    BY <1>0, <1>1, <1>2, <2>1 DEF setMethod, answer, rest, Inv, TypeOK, Fresh, Tags
  <2>2. ASSUME NEW kind \in {"field", "file"}, addQueryParam(kind) PROVE TypeOK' /\ Fresh'
    BY <1>0, <1>1, <1>2, <2>2 DEF addQueryParam, answer, rest, Inv, TypeOK, Fresh, Tags
  <2>3. ASSUME addQueryHeader PROVE TypeOK' /\ Fresh'
    BY <1>0, <1>1, <1>2, <2>3 DEF addQueryHeader, answer, rest, Inv, TypeOK, Fresh, Tags
  <2>4. ASSUME setOutputFile \/ setChunkOffset \/ setChunkSize PROVE TypeOK' /\ Fresh'
    BY <1>0, <1>1, <1>2, <2>4 DEF setOutputFile, setChunkOffset, setChunkSize, answer, rest, Inv,
                                  TypeOK, Fresh, Tags
  <2> QED BY <2>1, <2>2, <2>3, <2>4 DEF Setter
<1> QED BY <1>3, <1>4 DEF Inv

LEMMA InitSent == Init => Inv /\ SentWell
<1> USE Bound, Names
<1> SUFFICES ASSUME Init PROVE Inv /\ SentWell
  OBVIOUS
<1> USE DEF Init, Numbers
<1>1. TypeOK
  BY DEF TypeOK, Methods
<1>2. Fresh /\ AsApplied
  BY DEF Fresh, AsApplied, Since, This, Tags
<1>3. SentWell
  BY DEF SentWell, NothingCarriesOver, MethodIsOwn, BodyIsAsked, ResponsesAreOwn
<1> QED BY <1>1, <1>2, <1>3 DEF Inv

LEMMA StepSent == Inv /\ SentWell /\ [Next]_vars => Inv' /\ SentWell'
<1> USE Bound, Names
<1> SUFFICES ASSUME Inv, SentWell, [Next]_vars PROVE Inv' /\ SentWell'
  OBVIOUS
<1>1. CASE UNCHANGED vars
  BY <1>1 DEF vars, settings, answer, rest, Inv, TypeOK, Fresh, AsApplied, Since, This, Tags,
              SentWell, NothingCarriesOver, MethodIsOwn, BodyIsAsked, ResponsesAreOwn
<1>2. CASE Setter
  BY <1>2, SetterSendsNothing
<1>3. CASE Call
  BY <1>3, GetSends, PostSends, UploadsSend, MultipartSends, GivenUp DEF Call
<1> QED BY <1>1, <1>2, <1>3 DEF Next

LEMMA AlwaysSent == Spec => [](Inv /\ SentWell)
BY InitSent, StepSent, PTL DEF Spec

-----------------------------------------------------------------------------
(* Every variable keeps its type. *)
THEOREM Typing == Spec => []TypeOK
BY AlwaysSent, PTL DEF Inv

(* A request is made only of what was set since the request before it. *)
THEOREM OwnSettings == Spec => []NothingCarriesOver
BY AlwaysSent, PTL DEF SentWell

(* The verb of a request does not depend on the requests before it, but for *)
(* a multipart upload after a PUT or a custom request.                      *)
THEOREM OwnMethod == Spec => []MethodIsOwn
BY AlwaysSent, PTL DEF SentWell

(* The body of a request is the one it was asked for, but in the cases that *)
(* BodyIsAsked lists.                                                       *)
THEOREM OwnBody == Spec => []BodyIsAsked
BY AlwaysSent, PTL DEF SentWell

(* What is shown of a response is of the last request. *)
THEOREM OwnResponses == Spec => []ResponsesAreOwn
BY AlwaysSent, PTL DEF SentWell
=============================================================================
