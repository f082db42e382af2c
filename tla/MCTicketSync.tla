---------------------------- MODULE MCTicketSync -----------------------------
(* A coordinator and an engineer of one department, one legacy ticket and  *)
(* one id for a ticket created here.                                       *)
EXTENDS TicketSync

CONSTANTS coord, dept

MCRole == [u \in Users |-> "coordinator"]
MCDepartment == [u \in Users |-> dept]
=============================================================================
