----------------------------- MODULE MCDoService -----------------------------
(* The upload service with any number of clients that send, close and are  *)
(* reset at any moment, over a network that splits messages anywhere.      *)
EXTENDS DoService, TLC

CONSTANTS c1, c2, f1, f2

MCWords       == {"untiltled", "123.log", "a.jpg", "b.ini", "d.json", "text", "data"}
MCBase64Words == {"data", "text"}
MCDecoded     == [data |-> "DATA", text |-> "TEXT"]

Upload(kind, name, content) == <<kind, name, Marker[kind]>> \o content

(* An upload longer than one read, one of several reads whose kind is read *)
(* after pictures', a short one whose content holds markers, and texts.    *)
MCMessages ==
  { Upload("file", "a.jpg", <<"data", "data">>),
    Upload("iile", "b.ini", <<"data", "#">>),
    <<"text">> }

Symmetry == Permutations(Clients) \cup Permutations(Fds)
==============================================================================
