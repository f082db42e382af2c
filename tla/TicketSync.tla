----------------------------- MODULE TicketSync ------------------------------
(***************************************************************************)
(* The two-way synchronisation of tickets: the store (TicketStore), the    *)
(* events the server broadcasts after a commit, the legacy system that     *)
(* builds on them, and the documents that come back through the changes    *)
(* feed.                                                                   *)
(*                                                                         *)
(* events and docs are sets that only grow, from which any member may be   *)
(* taken at any time: events and documents can be lost, delayed, applied   *)
(* twice or out of order.  Both are bounded: MaxDocs documents, and events *)
(* by MaxVersion.                                                          *)
(***************************************************************************)
EXTENDS TicketStore, FiniteSets

CONSTANT MaxDocs    \* bound on the documents the legacy system writes

ASSUME SyncAssumption == MaxDocs \in Nat

VARIABLES
    publishing,     \* tickets whose handler has committed but not broadcast
    events,         \* events broadcast so far
    snapshot,       \* snapshot[t]: what the legacy system knows of t
    docs            \* documents written to the legacy database so far

syncVars == <<publishing, events, snapshot, docs>>
vars == <<storeVars, syncVars>>

Event == [ticket: TicketIds, version: Nat, basis: Nat]
Snapshot == [known: BOOLEAN, version: Nat, basis: Nat]

TypeOK ==
    /\ StoreTypeOK
    /\ publishing \subseteq TicketIds
    /\ events \subseteq Event
    /\ snapshot \in [TicketIds -> Snapshot]
    /\ docs \subseteq Document

Init ==
    /\ StoreInit
    /\ publishing = {}
    /\ events = {}
    /\ snapshot = [t \in TicketIds |->
           [known |-> t \in LegacyIds, version |-> 0, basis |-> 0]]
    /\ docs = {}

-----------------------------------------------------------------------------
(* A handler of the application commits its transaction and then publishes *)
(* the tickets S it wrote.                                                 *)
Publishes(S) ==
    /\ publishing' = publishing \cup S
    /\ UNCHANGED <<events, snapshot, docs>>

Create(t, u, e)  == HandleTicketsCreate(t, u, e) /\ Publishes({t})
Assign(t, u, e)  == PatchAssigned(t, u, e) /\ Publishes({t})
Start(t, u)      == PatchInWork(t, u) /\ Publishes({t})
Finish(t, u)     == PatchWorksDone(t, u) /\ Publishes({t})
Close(t, u)      == PatchClosed(t, u) /\ Publishes({t})
CloseAndRecommend(t, u, f, d) ==
    PatchClosedWithFollowUp(t, u, f, d) /\ Publishes({t, f})
EditorSave(t, u, s, e, d) ==
    HandleEditorTicketPatch(t, u, s, e, d) /\ Publishes({t})

(* An upload or a removal of an attachment publishes the ticket without    *)
(* writing its row.                                                        *)
AttachmentChanged(t) ==
    /\ tickets[t].status \in {"worksDone", "closed"}
    /\ Publishes({t})
    /\ UNCHANGED storeVars

AppTransaction ==
    \E t \in TicketIds, u \in Users :
        \/ \E e \in Users : Create(t, u, e) \/ Assign(t, u, e)
        \/ Start(t, u) \/ Finish(t, u) \/ Close(t, u)
        \/ \E f \in TicketIds, d \in Departments : CloseAndRecommend(t, u, f, d)
        \/ \E s \in EditorStatuses, e \in Users \cup {None},
              d \in Departments \cup {None} : EditorSave(t, u, s, e, d)

-----------------------------------------------------------------------------
(* The event carries the row as one query reads it, version and fields     *)
(* together, whatever has been committed since the handler's own write.    *)
EventOf(t) == [ticket |-> t, version |-> tickets[t].version,
               basis |-> tickets[t].basis]

BroadcastTicketEvent(t) ==
    /\ t \in publishing
    /\ Present(t)
    /\ publishing' = publishing \ {t}
    /\ events' = events \cup {EventOf(t)}
    /\ UNCHANGED <<storeVars, snapshot, docs>>

(* A failed load or broadcast is logged and never tried again. *)
LoseTicketEvent(t) ==
    /\ t \in publishing
    /\ publishing' = publishing \ {t}
    /\ UNCHANGED <<storeVars, events, snapshot, docs>>

(* A restart loses the handlers in flight and replays the schema. *)
Restart ==
    /\ ReplaySchema
    /\ publishing' = {}
    /\ UNCHANGED <<events, snapshot, docs>>

-----------------------------------------------------------------------------
(* The legacy system takes over an event, in any order, old ones included, *)
(* and keeps the version with the contents it came with.                   *)
ConsumeEvent(ev) ==
    /\ ev \in events
    /\ snapshot' = [snapshot EXCEPT ![ev.ticket] =
           [known |-> TRUE, version |-> ev.version, basis |-> ev.basis]]
    /\ UNCHANGED <<storeVars, publishing, events, docs>>

(* It saves a ticket it knows and echoes the version, or, before it        *)
(* supports the contract, leaves appVersion out, which parses as 0.        *)
SavedDocument(t, s, e, named, d, echo) ==
    [id |-> t, deleted |-> FALSE,
     version |-> IF echo THEN snapshot[t].version ELSE 0,
     basis |-> snapshot[t].basis,
     status |-> s, executor |-> e, named |-> named, department |-> d]

Tombstone(t) ==
    [id |-> t, deleted |-> TRUE, version |-> 0, basis |-> snapshot[t].basis,
     status |-> "", executor |-> None, named |-> FALSE, department |-> None]

LegacyWrites(t, d) ==
    /\ snapshot[t].known
    /\ Cardinality(docs) < MaxDocs
    /\ docs' = docs \cup {d}
    /\ UNCHANGED <<storeVars, publishing, events, snapshot>>

LegacySave(t, s, e, named, d, echo) ==
    /\ e # None => named
    /\ LegacyWrites(t, SavedDocument(t, s, e, named, d, echo))

LegacyDelete(t) == LegacyWrites(t, Tombstone(t))

(* applyChange of the feed: one transaction per document. *)
ApplyChange(d) ==
    /\ d \in docs
    /\ ApplyTicket(d)
    /\ UNCHANGED syncVars

-----------------------------------------------------------------------------
Next ==
    \/ AppTransaction
    \/ \E t \in TicketIds : \/ AttachmentChanged(t)
                            \/ BroadcastTicketEvent(t)
                            \/ LoseTicketEvent(t)
                            \/ LegacyDelete(t)
    \/ \E t \in TicketIds, s \in SyncStatuses, e \in Users \cup {None},
          d \in Departments, named, echo \in BOOLEAN :
              LegacySave(t, s, e, named, d, echo)
    \/ \E ev \in events : ConsumeEvent(ev)
    \/ \E d \in docs : ApplyChange(d)
    \/ Restart

Spec == Init /\ [][Next]_vars

-----------------------------------------------------------------------------
(* No document of the legacy system replaces an application write its      *)
(* author had not seen, and no tombstone removes a ticket the application  *)
(* has written: whatever the order, loss or repetition of events and       *)
(* changes, the row builds on the newest application write.                *)
AppWritesKept ==
    \A t \in TicketIds :
        IF Present(t) THEN tickets[t].basis = appWrites[t]
                      ELSE appWrites[t] = 0

(* The version comparison of the upsert is a sound test: a document whose  *)
(* version equals that of the row was built on the newest application      *)
(* write.  There is no state in which an old version has become valid      *)
(* again, through a backfill, a deletion or a write that kept the number.  *)
MatchingDocIsCurrent ==
    \A d \in docs :
        (~d.deleted /\ Present(d.id) /\ VersionMatches(d))
            => d.basis = appWrites[d.id]

(* Version v and write b, carried by an event, a snapshot or a document of *)
(* ticket t, belong to the history of its row: the row counts as many      *)
(* writes since then as versions.                                          *)
InHistory(t, v, b) ==
    /\ b <= appWrites[t]
    /\ v > 0 => /\ Present(t)
                /\ v <= tickets[t].version
                /\ tickets[t].version + b = appWrites[t] + v

(* Why the comparison is sound.  Every version that travels through the    *)
(* event bus, the legacy system or the feed belongs to the history of its  *)
(* row, and version 0 means a row the application has not written.         *)
VersionsTrackWrites ==
    /\ \A t \in TicketIds :
          /\ ~Present(t) => tickets[t].version = 0
          /\ tickets[t].version = 0 => appWrites[t] = 0
          /\ InHistory(t, snapshot[t].version, snapshot[t].basis)
    /\ \A ev \in events : InHistory(ev.ticket, ev.version, ev.basis)
    /\ \A d \in docs : InHistory(d.id, d.version, d.basis)

(* A ticket a follow-up refers to exists and is past version 0, so that no *)
(* tombstone ever runs into the foreign key of reference_ticket, which     *)
(* would fail the change and stop the feed at it.                          *)
ReferencedTicketSurvives ==
    \A f \in TicketIds :
        tickets[f].reference # None =>
            /\ Present(tickets[f].reference)
            /\ tickets[tickets[f].reference].version > 0

(* users.latest_ticket has no foreign key, yet it never dangles: the       *)
(* handlers set it together with a version that tombstones respect.        *)
LatestTicketExists ==
    \A u \in Users : latestTicket[u] # None => Present(latestTicket[u])

(* The store implements the register of the version contract. *)
Register == INSTANCE TicketRegister WITH
    Ids <- TicketIds,
    Contents <- StoredStatuses \cup {"absent"},
    exists <- [t \in TicketIds |-> Present(t)],
    content <- [t \in TicketIds |-> tickets[t].status],
    latest <- appWrites,
    reflects <- [t \in TicketIds |-> tickets[t].basis]

ImplementsRegister == Register!Spec
=============================================================================
