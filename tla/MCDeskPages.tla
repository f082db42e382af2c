----------------------------- MODULE MCDeskPages -----------------------------
(* A small instance of DeskPages: a member, a device and a client.          *)
EXTENDS DeskPages

CONSTANTS member, device, client
=============================================================================
