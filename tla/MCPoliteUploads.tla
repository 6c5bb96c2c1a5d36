--------------------------- MODULE MCPoliteUploads ---------------------------
EXTENDS PoliteUploads

CONSTANTS c1, c2, f1, f2

MCWords       == {"untiltled", "123.log", "a.jpg", "b.ini", "d.json", "text", "data", "junk"}
MCBase64Words == {"data", "text"}
MCDecoded     == [data |-> "DATA", text |-> "TEXT"]

Upload(kind, name, content) == <<kind, name, Marker[kind]>> \o content
Times(n, t) == [i \in 1 .. n |-> t]

(* With reads of 4 from arrivals of 5, lengths 4, 5, 8, 9 and 10 leave a   *)
(* rest behind or end on a full read; these are the others up to 11.       *)
FittingMessages ==
  { Upload("file", "a.jpg", Times(n, "data")) : n \in {3, 4, 8} } \cup
  { Upload("file", "a.jpg", <<"data", "text", "data", "NUL", "junk", "junk", "junk", "junk">>),
    Upload("dile", "d.json", <<>>), Upload("dile", "d.json", <<"text", "junk", "data">>),
    Upload("iile", "b.ini", <<>>), Upload("iile", "b.ini", <<"text", "junk", "$", "data">>),
    <<"text">>, <<"text", "junk", "data">> }

ASSUME PoliteAssumption == PoliteMessages
==============================================================================
