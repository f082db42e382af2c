--------------------------- MODULE TicketRegister ----------------------------
(***************************************************************************)
(* What the version contract of server/docs/ticket-sync-versioning.md      *)
(* promises about the tickets of the application, without versions: a      *)
(* register per ticket that both the application and the legacy system     *)
(* write, where a write of the legacy system never replaces an application *)
(* write its author had not seen, and never removes a ticket the           *)
(* application has written.                                                *)
(***************************************************************************)
EXTENDS Naturals

CONSTANTS
    Ids,        \* the registers
    Contents    \* what a register can hold

VARIABLES
    exists,     \* exists[t]: register t holds something
    content,    \* content[t]: what it shows
    latest,     \* latest[t]: application writes so far
    reflects    \* reflects[t]: the application write content[t] builds on

vars == <<exists, content, latest, reflects>>

Init ==
    /\ exists \in [Ids -> BOOLEAN]
    /\ content \in [Ids -> Contents]
    /\ latest = [t \in Ids |-> 0]
    /\ reflects = [t \in Ids |-> 0]

(* One transaction of the application may write several tickets. *)
AppTransaction(S) ==
    /\ S # {}
    /\ exists' = [t \in Ids |-> t \in S \/ exists[t]]
    /\ \A t \in Ids \ S : content'[t] = content[t]
    /\ content' \in [Ids -> Contents]
    /\ latest' = [t \in Ids |-> IF t \in S THEN latest[t] + 1 ELSE latest[t]]
    /\ reflects' = [t \in Ids |-> IF t \in S THEN latest[t] + 1
                                             ELSE reflects[t]]

(* The legacy system replaces the content, knowing every write so far. *)
LegacyPut(t) ==
    /\ exists' = [exists EXCEPT ![t] = TRUE]
    /\ \E c \in Contents : content' = [content EXCEPT ![t] = c]
    /\ reflects' = [reflects EXCEPT ![t] = latest[t]]
    /\ UNCHANGED latest

(* It removes only what the application has never written. *)
LegacyRemove(t) ==
    /\ exists[t]
    /\ latest[t] = 0
    /\ exists' = [exists EXCEPT ![t] = FALSE]
    /\ \E c \in Contents : content' = [content EXCEPT ![t] = c]
    /\ reflects' = [reflects EXCEPT ![t] = 0]
    /\ UNCHANGED latest

Next ==
    \/ \E S \in SUBSET Ids : AppTransaction(S)
    \/ \E t \in Ids : LegacyPut(t) \/ LegacyRemove(t)

Spec == Init /\ [][Next]_vars
=============================================================================
