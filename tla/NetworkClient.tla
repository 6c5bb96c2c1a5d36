---------------------------- MODULE NetworkClient ----------------------------
(***************************************************************************)
(* One NetworkClient: an object that makes one HTTP request after another  *)
(* on one curl handle.  A caller sets what it wants of its next request    *)
(* and calls one of doGet, doPost, doUpload and doUploadMultipartData; the *)
(* module is about what such a call leaves behind for the next one, in the *)
(* object and in the handle.                                               *)
(*                                                                         *)
(* What is set is represented by the number of the call it is set for.     *)
(* No thread is involved, and a transfer is one step: libcurl calls back   *)
(* while curl_easy_perform runs, and writes to the output file only then.  *)
(***************************************************************************)
EXTENDS Naturals, Sequences, FiniteSets

CONSTANTS MaxCalls,         (* calls of one object                         *)
          Custom            (* the methods other than GET, POST and PUT    *)

ASSUME NetAssumption == /\ MaxCalls \in Nat \ {0}
                        /\ Custom \cap {"unset", "GET", "POST", "PUT"} = {}

VARIABLES
  m_method,                 (* <<name, the call it is set for>>            *)
  m_QueryHeaders, m_QueryParams,    (* sets of <<kind, call>>              *)
  m_OutFileName, chunkOffset_, chunkSize_,  (* 0: not set                  *)
  m_uploadingFile,          (* the call that opened it, or 0 for NULL      *)
  internalBuffer, m_ResponseHeaders,        (* calls whose response it has *)
  handle,                   (* the options of the curl handle              *)
  calls, performed,         (* how many; the last one that made a request  *)
  applied,                  (* the method last applied to the handle       *)
  sent                      (* the last request: what was asked of it, and *)
                            (* the calls whose settings it is made with    *)

settings == <<m_method, m_QueryHeaders, m_QueryParams, m_OutFileName, chunkOffset_, chunkSize_>>
answer   == <<internalBuffer, m_ResponseHeaders>>
rest     == <<m_uploadingFile, handle, calls, performed, applied, sent>>
vars     == <<settings, answer, rest>>

Methods == {"unset", "GET", "POST", "PUT"} \cup Custom
This    == calls + 1
Nothing == [from |-> "nothing", call |-> 0, pieces |-> << >>]

Init ==
  /\ m_method = <<"unset", 0>> /\ m_QueryHeaders = {} /\ m_QueryParams = {}
  /\ m_OutFileName = 0 /\ chunkOffset_ = 0 /\ chunkSize_ = 0 /\ m_uploadingFile = 0
  /\ internalBuffer = {} /\ m_ResponseHeaders = {}
  /\ handle = [custom |-> "unset", upload |-> FALSE, httpreq |-> "GET", postfields |-> 0,
               reader |-> "default"]
  /\ calls = 0 /\ performed = 0 /\ applied = "unset"
  /\ sent = [call |-> "none", after |-> 0, method |-> "unset", inherited |-> "unset", verb |-> "GET",
             used |-> {}, asked |-> Nothing, body |-> Nothing]

-----------------------------------------------------------------------------
(* What a caller may set, in any order and any number of times. *)
setMethod(name) ==
  /\ m_method' = <<name, This>>
  /\ UNCHANGED <<m_QueryHeaders, m_QueryParams, m_OutFileName, chunkOffset_, chunkSize_>>
addQueryHeader ==
  /\ m_QueryHeaders' = m_QueryHeaders \cup {<<"header", This>>}
  /\ UNCHANGED <<m_method, m_QueryParams, m_OutFileName, chunkOffset_, chunkSize_>>
(* A parameter is a field or a file. *)
addQueryParam(kind) ==
  /\ m_QueryParams' = m_QueryParams \cup {<<kind, This>>}
  /\ UNCHANGED <<m_method, m_QueryHeaders, m_OutFileName, chunkOffset_, chunkSize_>>
setOutputFile ==
  /\ m_OutFileName' = This
  /\ UNCHANGED <<m_method, m_QueryHeaders, m_QueryParams, chunkOffset_, chunkSize_>>
setChunkOffset ==
  /\ chunkOffset_' = This
  /\ UNCHANGED <<m_method, m_QueryHeaders, m_QueryParams, m_OutFileName, chunkSize_>>
setChunkSize ==
  /\ chunkSize_' = This
  /\ UNCHANGED <<m_method, m_QueryHeaders, m_QueryParams, m_OutFileName, chunkOffset_>>

-----------------------------------------------------------------------------
(* libcurl 7.67: taking UPLOAD back makes the request a GET; POSTFIELDS     *)
(* makes it a POST, and is not copied; an upload is a PUT whatever else is  *)
(* asked; the name of a custom request replaces the verb only.              *)
Verb(h) ==
  CASE h.custom # "unset"               -> h.custom
    [] h.custom = "unset" /\ h.upload   -> "PUT"
    [] h.custom = "unset" /\ ~h.upload  -> IF h.httpreq = "GET" THEN "GET" ELSE "POST"

(* Two plausible bugs: PUT taken for a custom request, and a custom request *)
(* that nothing takes back.                                                 *)
ApplyPutAsCustom(otherwise) ==
  LET method == IF m_method[1] = "unset" THEN otherwise ELSE m_method[1]
      plain  == [handle EXCEPT !.custom = "unset", !.upload = FALSE, !.httpreq = "GET"]
  IN  CASE method = "GET"                  -> plain
        [] method = "POST"                 -> [plain EXCEPT !.httpreq = "POST"]
        [] method \in Custom \cup {"PUT"}  -> [plain EXCEPT !.custom = method]
ApplyKeepsCustom(otherwise) ==
  LET method == IF m_method[1] = "unset" THEN otherwise ELSE m_method[1]
      plain  == [handle EXCEPT !.upload = FALSE, !.httpreq = "GET"]
  IN  CASE method = "GET"                  -> plain
        [] method = "POST"                 -> [plain EXCEPT !.httpreq = "POST"]
        [] method = "PUT"                  -> [plain EXCEPT !.upload = TRUE]
        [] method \in Custom               -> [plain EXCEPT !.custom = method]

(* The handle once m_method is applied, or what is used where none is set.  *)
private_apply_method(otherwise) ==
  LET method == IF m_method[1] = "unset" THEN otherwise ELSE m_method[1]
      plain  == [handle EXCEPT !.custom = "unset", !.upload = FALSE, !.httpreq = "GET"]
  IN  CASE method = "GET"                  -> plain
        [] method = "POST"                 -> [plain EXCEPT !.httpreq = "POST"]
        [] method = "PUT"                  -> [plain EXCEPT !.upload = TRUE]
        [] method \in Custom               -> [plain EXCEPT !.custom = method]

(* What the object's read callback gives: the file an upload has open, one  *)
(* left open by an upload that was given up included, and else the data.    *)
private_read_callback(file, asked, data) ==
  CASE file = This             -> asked
    [] file \notin {0, This}   -> [from |-> "file", call |-> file, pieces |-> <<1>>]
    [] file = 0                -> [data EXCEPT !.pieces = [i \in DOMAIN @ |-> 1]]

Body(h, file, asked, data) ==
  CASE h.upload \/ (h.httpreq = "POST" /\ h.postfields = 0) ->
         IF h.reader = "object" THEN private_read_callback(file, asked, data)
                                ELSE [Nothing EXCEPT !.from = "elsewhere"]
    [] ~h.upload /\ h.httpreq = "POST" /\ h.postfields # 0 ->
         [from |-> "post", call |-> h.postfields, pieces |-> <<1>>]
    [] ~h.upload /\ h.httpreq = "FORM" -> [from |-> "form", call |-> This, pieces |-> <<1>>]
    [] ~h.upload /\ h.httpreq = "GET"  -> Nothing

-----------------------------------------------------------------------------
(* A plausible bug: what the last response left is not cleared. *)
KeepsAnswer(buffer) == buffer

private_cleanup_before(buffer) == {}
Expecting == m_QueryHeaders \cup {<<"Expect", This>>}

(* Two plausible bugs: the clean-up forgets a setting, or the file. *)
CleanUpButName(file) ==
  /\ m_method' = <<"unset", 0>> /\ m_QueryHeaders' = {} /\ m_QueryParams' = {}
  /\ chunkOffset_' = 0 /\ chunkSize_' = 0 /\ m_uploadingFile' = 0
  /\ UNCHANGED m_OutFileName
CleanUpButFile(file) ==
  /\ m_method' = <<"unset", 0>> /\ m_QueryHeaders' = {} /\ m_QueryParams' = {}
  /\ m_OutFileName' = 0 /\ chunkOffset_' = 0 /\ chunkSize_' = 0
  /\ m_uploadingFile' = file

private_cleanup_after(file) ==
  /\ m_method' = <<"unset", 0>> /\ m_QueryHeaders' = {} /\ m_QueryParams' = {}
  /\ m_OutFileName' = 0 /\ chunkOffset_' = 0 /\ chunkSize_' = 0
  /\ m_uploadingFile' = 0

(* The response may bring no header that can be parsed and no body, or not  *)
(* come at all; the body goes to the output file if one is named.           *)
Answered ==
  \E parsed, body \in SUBSET {This} :
    /\ m_ResponseHeaders' = private_cleanup_before(m_ResponseHeaders) \cup parsed
    /\ internalBuffer' = private_cleanup_before(internalBuffer)
                         \cup (IF m_OutFileName = 0 THEN body ELSE {})

Tags(pairs) == {p[2] : p \in pairs}

(* curl_easy_perform and private_on_finish_request; file is what            *)
(* m_uploadingFile is by then.                                              *)
Perform(call, h, headers, others, file, asked, data) ==
  /\ Answered
  /\ private_cleanup_after(file)
  /\ handle' = h /\ calls' = This /\ performed' = This
  /\ sent' = [call |-> call, after |-> performed, method |-> m_method[1], inherited |-> applied,
              verb |-> Verb(h), asked |-> asked, body |-> Body(h, file, asked, data),
              used |-> (Tags(headers) \cup others \cup {m_method[2], m_OutFileName}) \ {0}]

doGet ==
  LET h == private_apply_method("GET") IN
  /\ Perform("doGet", h, Expecting, {}, m_uploadingFile, Nothing, Nothing)
  /\ applied' = m_method[1]

(* Of the data that is given, or of the parameters that are fields. *)
doPost ==
  LET h == [private_apply_method("POST") EXCEPT
              !.postfields = This, !.httpreq = "POST"]
      asked == [from |-> "post", call |-> This, pieces |-> <<1>>]
  IN  /\ \E fields \in {{}, {p \in m_QueryParams : p[1] = "field"}} :
           Perform("doPost", h, Expecting, Tags(fields), m_uploadingFile, asked, Nothing)
      /\ applied' = m_method[1]

(* Once there is something to upload. *)
Uploads(file, asked, data, chunk) ==
  LET h == [private_apply_method("POST") EXCEPT
              !.postfields = 0, !.httpreq = "POST", !.reader = "object"]
  IN  /\ Perform("doUpload", h, Expecting \cup {<<"Length", This>>}, chunk,
                 file, asked, data)
      /\ applied' = m_method[1]

doUploadFile ==
  LET chunk == IF 0 \in {chunkOffset_, chunkSize_} THEN {} ELSE {chunkOffset_, chunkSize_}
  IN  Uploads(This, [from |-> "file", call |-> This, pieces |-> <<1>>], Nothing, chunk)

(* Data of up to two pieces of the size libcurl reads at once. *)
doUploadData ==
  \E pieces \in {<<1>>, <<1, 2>>} :
    LET data == [from |-> "data", call |-> This, pieces |-> pieces]
    IN  Uploads(m_uploadingFile, data, data, {})

(* The file cannot be opened, or its size cannot be told. *)
doUploadFails ==
  /\ m_uploadingFile' \in {0, This}
  /\ calls' = This
  /\ UNCHANGED <<settings, answer, handle, performed, applied, sent>>

FormReader == [handle EXCEPT !.reader = IF \E p \in m_QueryParams : p[1] = "file" THEN "form" ELSE @]

doUploadMultipartData ==
  LET h == [FormReader EXCEPT !.httpreq = "FORM"]
      asked == [from |-> "form", call |-> This, pieces |-> <<1>>]
  IN  /\ Perform("doUploadMultipartData", h, Expecting, Tags(m_QueryParams),
                 m_uploadingFile, asked, Nothing)
      /\ UNCHANGED applied

(* A file of the form cannot be opened: none of the clean-up after. *)
MultipartFails ==
  /\ \E p \in m_QueryParams : p[1] = "file"
  /\ m_QueryHeaders' = Expecting
  /\ internalBuffer' = private_cleanup_before(internalBuffer)
  /\ m_ResponseHeaders' = private_cleanup_before(m_ResponseHeaders)
  /\ handle' = FormReader
  /\ calls' = This
  /\ UNCHANGED <<m_method, m_QueryParams, m_OutFileName, chunkOffset_, chunkSize_,
                 m_uploadingFile, performed, applied, sent>>

-----------------------------------------------------------------------------
Setter ==
  /\ calls < MaxCalls
  /\ \/ \E name \in Methods : setMethod(name)
     \/ \E kind \in {"field", "file"} : addQueryParam(kind)
     \/ addQueryHeader \/ setOutputFile \/ setChunkOffset \/ setChunkSize
  /\ UNCHANGED <<answer, rest>>

Call ==
  /\ calls < MaxCalls
  /\ \/ doGet \/ doPost \/ doUploadFile \/ doUploadData \/ doUploadFails
     \/ doUploadMultipartData \/ MultipartFails

Next == Setter \/ Call

Spec == Init /\ [][Next]_vars

-----------------------------------------------------------------------------
(* Every variable keeps its type. *)
Numbers == 0 .. MaxCalls
TypeOK ==
  /\ m_method \in Methods \X Numbers
  /\ m_QueryHeaders \subseteq {"header", "Expect", "Length"} \X Numbers
  /\ m_QueryParams \subseteq {"field", "file"} \X Numbers
  /\ {m_OutFileName, chunkOffset_, chunkSize_, m_uploadingFile, calls, performed} \subseteq Numbers
  /\ internalBuffer \subseteq Numbers /\ m_ResponseHeaders \subseteq Numbers
  /\ handle \in [custom : {"unset"} \cup Custom, upload : BOOLEAN, httpreq : {"GET", "POST", "FORM"},
                 postfields : Numbers, reader : {"default", "object", "form"}]
  /\ applied \in Methods

(* A request is made of what was set since the request before it: of the   *)
(* method, headers, parameters, output file and chunk of a request nothing *)
(* is left for a later one.  (What was set for a call that was given up    *)
(* is: it goes with the next request.)                                     *)
NothingCarriesOver == \A call \in sent.used : call > sent.after

(* Whatever requests the handle made before, doGet, doPost and doUpload    *)
(* send the method that was set for them, and GET or POST where none was;  *)
(* only doPost and doUpload make a POST of a GET.  A multipart upload, for *)
(* which no method is applied, is a POST unless an earlier request was a   *)
(* PUT or a custom one and no other was made since.                        *)
MethodIsOwn ==
  LET method == IF sent.call = "doUploadMultipartData" THEN sent.inherited ELSE sent.method
      plain  == IF sent.call \in {"none", "doGet"} THEN "GET" ELSE "POST"
  IN  /\ method = "unset" => sent.verb = plain
      /\ method = "GET" => sent.verb = plain
      /\ method \in Custom \cup {"PUT"} => sent.verb = method
      /\ method = "POST" => sent.verb = "POST"

(* The body of a request is the one that was asked for, in its order, and  *)
(* not that of an earlier request: unless the handle was told to upload    *)
(* (PUT) for a call that gives it nothing to read, doGet was asked for a   *)
(* POST, data is longer than libcurl reads at once, or an upload since the *)
(* last request was given up with its file open.                           *)
BodyIsAsked ==
  \/ sent.body = sent.asked
  \/ sent.call = "doGet" /\ sent.method \in {"POST", "PUT"}
  \/ sent.call = "doPost" /\ sent.method = "PUT"
  \/ sent.call = "doUploadMultipartData" /\ sent.inherited = "PUT"
  \/ Len(sent.asked.pieces) > 1
  \/ sent.body.from = "file" /\ sent.body.call > sent.after

(* What the object shows of a response is of its last request, and never   *)
(* a mixture of two.                                                       *)
ResponsesAreOwn == internalBuffer \cup m_ResponseHeaders \subseteq {performed}

=============================================================================
