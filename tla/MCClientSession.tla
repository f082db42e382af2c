--------------------------- MODULE MCClientSession ---------------------------
(* A small instance of ClientSession: one user, and one tab with two calls. *)
EXTENDS ClientSession
=============================================================================
