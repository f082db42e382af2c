---------------------------- MODULE TicketNumbers ----------------------------
(***************************************************************************)
(* The numbers of tickets.  The server draws them from the sequence of the *)
(* column tickets.number, which no transaction holds back and no rollback  *)
(* returns; the synchronisation brings tickets that have a number of their *)
(* own and then sets the sequence to the largest number it can see         *)
(* (syncTicketNumberSequence).  The column is not UNIQUE.                  *)
(***************************************************************************)
EXTENDS Naturals

CONSTANTS
    Created,    \* tickets that the server creates
    LegacyTickets, \* tickets that come from the legacy system
    NoNumber,
    NoTicket,
    MaxNumber   \* bound: the numbers that are modelled

Tickets == Created \cup LegacyTickets

ASSUME NumbersAssumption ==
    /\ MaxNumber \in Nat /\ NoNumber \notin Nat
    /\ NoTicket \notin Tickets /\ Created \cap LegacyTickets = {}

VARIABLES
    last,       \* last_value of the sequence
    number,     \* tickets.number of the committed rows
    drawn,      \* numbers that open transactions of handlers have drawn
    inserting,  \* the row that the open transaction of the feed inserts
    crossed     \* ghost: tickets whose transaction was open during a setval

numberVars == <<last, number, drawn, inserting, crossed>>

Numbers == 0 .. MaxNumber
NoInsert == [ticket |-> NoTicket, number |-> NoNumber]

NumbersTypeOK ==
    /\ last \in Numbers
    /\ number \in [Tickets -> Numbers \cup {NoNumber}]
    /\ drawn \in [Tickets -> Numbers \cup {NoNumber}]
    /\ inserting \in [ticket: Tickets \cup {NoTicket}, number: Numbers \cup {NoNumber}]
    /\ crossed \subseteq Tickets

NumbersInit ==
    /\ last = 0
    /\ number = [t \in Tickets |-> NoNumber]
    /\ drawn = [t \in Tickets |-> NoNumber]
    /\ inserting = NoInsert
    /\ crossed = {}

Taken == {number[t] : t \in Tickets} \ {NoNumber}
Open == {t \in Tickets : drawn[t] # NoNumber}
Idle == inserting = NoInsert

NextVal == last < MaxNumber /\ last' = last + 1

(* The INSERT of handleTicketCreate, or of a follow-up ticket; *)
Create(t) ==
    /\ t \in Created /\ number[t] = NoNumber /\ drawn[t] = NoNumber
    /\ NextVal
    /\ drawn' = [drawn EXCEPT ![t] = last + 1]
    /\ UNCHANGED <<number, inserting, crossed>>

(* its transaction commits, *)
Commit(t) ==
    /\ t \in Open
    /\ number' = [number EXCEPT ![t] = drawn[t]]
    /\ drawn' = [drawn EXCEPT ![t] = NoNumber]
    /\ UNCHANGED <<last, inserting, crossed>>

(* or does not. *)
Abort(t) ==
    /\ t \in Open
    /\ drawn' = [drawn EXCEPT ![t] = NoNumber]
    /\ crossed' = crossed \ {t}
    /\ UNCHANGED <<last, number, inserting>>

-----------------------------------------------------------------------------
(* Mutation: the sequence is set to the number of the document.            *)
NumberOfDoc(m, n) == m = n

(* m is the largest number that the transaction of the feed can see, with  *)
(* n as the row of its own.                                                *)
Highest(m, n) ==
    m \in Taken \cup {n} /\ \A k \in Taken \cup {n} : k <= m

(* applyTicket of a document with a number.  The number of a row that is   *)
(* there already is not changed.                                           *)
ApplyNumbered(t, n) ==
    /\ Idle
    /\ t \in LegacyTickets \/ number[t] # NoNumber
    /\ LET own == IF number[t] = NoNumber THEN n ELSE number[t]
       IN  /\ inserting' = [ticket |-> t, number |-> own]
           /\ \E m \in Numbers : Highest(m, own) /\ last' = m
    /\ crossed' = crossed \cup Open
    /\ UNCHANGED <<number, drawn>>

(* applyTicket of a document without: a number is drawn in any case. *)
ApplyUnnumbered(t) ==
    /\ Idle
    /\ t \in LegacyTickets \/ number[t] # NoNumber
    /\ NextVal
    /\ inserting' = [ticket |-> t,
                number |-> IF number[t] = NoNumber THEN last + 1 ELSE number[t]]
    /\ UNCHANGED <<number, drawn, crossed>>

FeedCommits ==
    /\ ~Idle
    /\ number' = [number EXCEPT ![inserting.ticket] = inserting.number]
    /\ inserting' = NoInsert
    /\ UNCHANGED <<last, drawn, crossed>>

FeedFails ==
    /\ ~Idle
    /\ inserting' = NoInsert
    /\ UNCHANGED <<last, number, drawn, crossed>>

(* The tombstone of a ticket that the server has not written. *)
Delete(t) ==
    /\ Idle /\ t \in LegacyTickets /\ number[t] # NoNumber
    /\ number' = [number EXCEPT ![t] = NoNumber]
    /\ UNCHANGED <<last, drawn, inserting, crossed>>

NumbersNext ==
    \/ \E t \in Tickets :
          \/ Create(t) \/ Commit(t) \/ Abort(t)
          \/ \E n \in Numbers \ {0} : ApplyNumbered(t, n)
          \/ ApplyUnnumbered(t) \/ Delete(t)
    \/ FeedCommits
    \/ FeedFails

NumbersSpec == NumbersInit /\ [][NumbersNext]_numberVars

-----------------------------------------------------------------------------
(* The sequence stands at or above every number in use, but for tickets    *)
(* that were being created while the feed set it.                          *)
SequenceAhead ==
    \A t \in Tickets \ crossed :
        \A n \in {number[t], drawn[t]} \ {NoNumber} : n <= last

(* Two tickets that were created by the server have different numbers,     *)
(* unless one of them was being created while the feed set the sequence.   *)
CreatedDiffer ==
    \A s, t \in Created \ crossed :
        number[s] = number[t] /\ number[s] # NoNumber => s = t

(* A ticket that the server creates never gets the number of another one,  *)
(* with the same exception.                                                *)
FreshNumber ==
    [][\A s, t \in Tickets :
          s # t /\ s \notin crossed /\ t \in Open' \ Open
             => drawn'[t] \notin {number[s], drawn[s]}]_numberVars
=============================================================================
