---------------------------- MODULE MCUploadPath -----------------------------
(* A picture and a configuration, typed one after the other over at most   *)
(* two connections.                                                        *)
EXTENDS UploadPath, TLC

CONSTANTS f1, f2

MCWords       == {"untiltled", "123.log", "a.jpg", "b.ini", "p", "q", "v"}
MCBase64Words == {"p", "q"}
MCDecoded     == [p |-> "P", q |-> "Q"]

(* The write of a picture goes past its end, by as much as its header is    *)
(* long; the NUL there stands for what the memory holds behind it, too.     *)
MCPart == << <<"file", "a.jpg", "#", "p">>, <<"q", "NUL">>,
             <<"iile", "b.ini", "$">>, <<"v">> >>

(* A push that overlaps write_cb is a behaviour SavedAsTyped says nothing   *)
(* about from there on.                                                     *)
NoOverlap == ~overlapped
Symmetry == Permutations(Fds)

MCMessages == {MCPart[i] : i \in DOMAIN MCPart}
==============================================================================
