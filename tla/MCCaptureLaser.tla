--------------------------- MODULE MCCaptureLaser ---------------------------
(* CaptureLaser with a few clicks: three make every order of two handlers  *)
(* on whatever a first one left behind, four one more.                     *)
EXTENDS CaptureLaser

MCMaxClicks == 4
=============================================================================
