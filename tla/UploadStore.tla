----------------------------- MODULE UploadStore -----------------------------
(* What the upload service promises its clients: one message at a time, an *)
(* upload becomes one file with the name and the content the client gave,  *)
(* a text reaches every member once and in full.                           *)
EXTENDS Sequences

CONSTANTS
  Clients,
  Uploads,   (* messages that carry a file                  *)
  Texts,     (* messages that are for everyone              *)
  Path,      (* the file name of each upload                *)
  Content,   (* and what the file holds                     *)
  Welcome,   (* what a new member is sent                   *)
  Nothing    (* no message, where none is being handled     *)

VARIABLES
  members,   (* the clients that are connected              *)
  heard,     (* everything sent to each client              *)
  files,     (* the files saved, in order                   *)
  pending    (* the message being handled                   *)
vars == <<members, heard, files, pending>>

Init ==
  /\ members = {}
  /\ heard = [c \in Clients |-> <<>>]
  /\ files = <<>>
  /\ pending = Nothing

Join(c) ==
  /\ c \notin members /\ heard[c] = <<>>
  /\ members' = members \cup {c}
  /\ heard' = [heard EXCEPT ![c] = <<Welcome>>]
  /\ UNCHANGED <<files, pending>>

Leave(c) ==
  /\ c \in members
  /\ members' = members \ {c}
  /\ UNCHANGED <<heard, files, pending>>

Submit(m) ==
  /\ pending = Nothing
  /\ pending' = m
  /\ UNCHANGED <<members, heard, files>>

Save ==
  /\ pending \in Uploads
  /\ files' = Append(files, [path |-> Path[pending], content |-> Content[pending]])
  /\ pending' = Nothing
  /\ UNCHANGED <<members, heard>>

Tell ==
  /\ pending \in Texts
  /\ heard' = [c \in Clients |->
                 IF c \in members THEN Append(heard[c], pending) ELSE heard[c]]
  /\ pending' = Nothing
  /\ UNCHANGED <<members, files>>

Next ==
  \/ \E c \in Clients : Join(c) \/ Leave(c)
  \/ \E m \in Uploads \cup Texts : Submit(m)
  \/ Save
  \/ Tell

(* A message is handled in the end. *)
Handled == WF_vars(Save \/ Tell)

Spec == Init /\ [][Next]_vars /\ Handled
==============================================================================
