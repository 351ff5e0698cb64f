--------------------------- MODULE MCSessionJournal ---------------------------
(* Finite instances of SessionJournal. *)
EXTENDS SessionJournal
=============================================================================
