---------------------------- MODULE MCTicketPage ----------------------------
(* A small instance of TicketPage: two tickets and two photographs.        *)
EXTENDS TicketPage

CONSTANTS t1, t2
=============================================================================
