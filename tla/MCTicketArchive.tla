--------------------------- MODULE MCTicketArchive ---------------------------
(* A small instance of TicketArchive: three tickets, one to a page.       *)
EXTENDS TicketArchive

ThreeTickets ==
    {[id |-> 1, reason |-> "repair", other |-> "north"],
     [id |-> 2, reason |-> "repair", other |-> "north"],
     [id |-> 3, reason |-> "check", other |-> "south"]}
=============================================================================
