---------------------------- MODULE MCAttachments ----------------------------
(* Two requests, of the same user or of two, about two images of a ticket. *)
(* Tickets share nothing, so that one is enough.                           *)
EXTENDS Attachments
=============================================================================
