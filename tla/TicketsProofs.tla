---------------------------- MODULE TicketsProofs ----------------------------
(***************************************************************************)
(* Proofs about the tickets.  TicketSync, the rows of the server and the   *)
(* documents of the legacy database: for any sets of tickets, users and    *)
(* documents and any bounds.  TicketArchive, the list that a client pages  *)
(* through: for every finite archive, every size of a page and any number  *)
(* of choices, changes and failures.                                       *)
(***************************************************************************)
EXTENDS TicketSync, TicketArchive, FiniteSetTheorems, TLAPS

(*****************************************************************************)
(*                       The synchronisation of tickets                      *)
(*****************************************************************************)

(* What the parser makes of a status is a status the column can hold. *)
LEMMA NormalizedStatus ==
    ASSUME NEW s, NEW named
    PROVE  NormalizeTicketStatus(s, named) \in StoredStatuses
BY DEF NormalizeTicketStatus, StoredStatuses, Statuses

(* A document makes a row, and never the empty one. *)
LEMMA DocumentRowType ==
    ASSUME NEW d \in Document, NEW v \in Nat
    PROVE  /\ DocumentRow(d, v) \in Row
           /\ DocumentRow(d, v).status # "absent"
           /\ DocumentRow(d, v).version = v
           /\ DocumentRow(d, v).basis = d.basis
           /\ DocumentRow(d, v).reference = None
<1>1. NormalizeTicketStatus(d.status, d.named) \in StoredStatuses
  BY NormalizedStatus
<1>2. QED
  BY <1>1 DEF DocumentRow, Row, Document, StoredStatuses, Statuses

(* What the handlers insert and what they update to are rows. *)
LEMMA CreatedRowType ==
    ASSUME NEW s \in Statuses, NEW e \in Users \cup {None},
           NEW d \in Departments \cup {None}, NEW ref \in TicketIds \cup {None}
    PROVE  CreatedRow(s, e, d, ref) \in Row
BY DEF CreatedRow, Row, StoredStatuses

LEMMA UpdatedType ==
    ASSUME StoreTypeOK, NEW t \in TicketIds, NEW s \in Statuses,
           NEW e \in Users \cup {None}, NEW d \in Departments \cup {None}
    PROVE  Updated(t, s, e, d) \in Row
<1>1. /\ tickets[t].version + 1 \in Nat
      /\ tickets[t].reference \in TicketIds \cup {None}
      /\ appWrites[t] + 1 \in Nat
  BY DEF StoreTypeOK, Row
<1>2. QED
  BY <1>1 DEF Updated, Row, StoredStatuses

LEMMA MovedToType ==
    ASSUME StoreTypeOK, NEW t \in TicketIds, NEW s \in Statuses
    PROVE  MovedTo(t, s) \in Row
<1>1. /\ tickets[t].executor \in Users \cup {None}
      /\ tickets[t].department \in Departments \cup {None}
  BY DEF StoreTypeOK, Row
<1>2. QED
  BY <1>1, UpdatedType DEF MovedTo

(* Every transaction of the application keeps the types of the store, and  *)
(* publishes tickets.                                                      *)
LEMMA AppTransactionType ==
    ASSUME TypeOK, AppTransaction PROVE TypeOK'
<1> USE DEF Statuses, StoreTypeOK
<1>1. PICK t \in TicketIds, u \in Users :
        \/ \E e \in Users : Create(t, u, e) \/ Assign(t, u, e)
        \/ Start(t, u) \/ Finish(t, u) \/ Close(t, u)
        \/ \E f \in TicketIds, d \in Departments : CloseAndRecommend(t, u, f, d)
        \/ \E s \in EditorStatuses, e \in Users \cup {None},
              d \in Departments \cup {None} : EditorSave(t, u, s, e, d)
  BY DEF AppTransaction
<1>2. StoreTypeOK /\ Department[u] \in Departments \cup {None}
  BY StoreAssumption DEF TypeOK
<1>3. SUFFICES StoreTypeOK' /\ \E S \in SUBSET TicketIds : Publishes(S)
  BY DEF TypeOK, Publishes
<1>4. ASSUME NEW e \in Users, Create(t, u, e)
      PROVE  StoreTypeOK' /\ \E S \in SUBSET TicketIds : Publishes(S)
  <2>1. CreatedRow("assigned", e, Department[u], None) \in Row
    BY <1>2, CreatedRowType
  <2>2. QED
    BY <1>2, <1>4, <2>1 DEF Create, HandleTicketsCreate, CountWrite
<1>5. ASSUME NEW e \in Users, Assign(t, u, e)
      PROVE  StoreTypeOK' /\ \E S \in SUBSET TicketIds : Publishes(S)
  <2>1. Updated(t, "assigned", e, Department[u]) \in Row
    BY <1>2, UpdatedType
  <2>2. QED
    BY <1>2, <1>5, <2>1 DEF Assign, PatchAssigned, CountWrite
<1>6. CASE Start(t, u)
  BY <1>2, <1>6, MovedToType DEF Start, PatchInWork, CountWrite
<1>7. CASE Finish(t, u)
  BY <1>2, <1>7, MovedToType DEF Finish, PatchWorksDone, CountWrite
<1>8. CASE Close(t, u)
  BY <1>2, <1>8, MovedToType DEF Close, PatchClosed, CountWrite
<1>9. ASSUME NEW f \in TicketIds, NEW d \in Departments,
             CloseAndRecommend(t, u, f, d)
      PROVE  StoreTypeOK' /\ \E S \in SUBSET TicketIds : Publishes(S)
  <2>1. CreatedRow("created", None, d, t) \in Row /\ MovedTo(t, "closed") \in Row
    BY <1>2, CreatedRowType, MovedToType
  <2>2. QED
    BY <1>2, <1>9, <2>1
       DEF CloseAndRecommend, PatchClosedWithFollowUp, CountWrite
<1>10. ASSUME NEW s \in EditorStatuses, NEW e \in Users \cup {None},
              NEW d \in Departments \cup {None}, EditorSave(t, u, s, e, d)
       PROVE  StoreTypeOK' /\ \E S \in SUBSET TicketIds : Publishes(S)
  <2>1. Updated(t, s, e, d) \in Row
    BY <1>2, UpdatedType, StoreAssumption
  <2>2. QED
    BY <1>2, <1>10, <2>1 DEF EditorSave, HandleEditorTicketPatch, CountWrite
<1>11. QED
  BY <1>1, <1>4, <1>5, <1>6, <1>7, <1>8, <1>9, <1>10

(* Applying a document keeps the types of the store. *)
LEMMA ApplyChangeType ==
    ASSUME TypeOK, NEW d \in docs, ApplyChange(d) PROVE TypeOK'
<1>1. d \in Document /\ d.id \in TicketIds
  BY DEF TypeOK, Document
<1>2. d.version \in Nat /\ tickets[d.id].version \in Nat
  BY <1>1 DEF TypeOK, StoreTypeOK, Row, Document
<1>3. NoRow \in Row
  BY DEF NoRow, Row, StoredStatuses
<1>4. tickets' \in [TicketIds -> Row]
  BY <1>1, <1>2, <1>3, DocumentRowType
     DEF ApplyChange, ApplyTicket, UpsertInserts, UpsertUpdates,
         TombstoneDeletes, TypeOK, StoreTypeOK
<1>5. UNCHANGED <<latestTicket, appWrites, syncVars>>
  BY DEF ApplyChange, ApplyTicket, UpsertInserts, UpsertUpdates,
         TombstoneDeletes
<1>6. QED
  BY <1>4, <1>5 DEF TypeOK, StoreTypeOK, syncVars

(* What the legacy system writes are documents. *)
LEMMA LegacyDocumentType ==
    ASSUME TypeOK, NEW t \in TicketIds
    PROVE  /\ Tombstone(t) \in Document
           /\ \A s \in SyncStatuses, e \in Users \cup {None}, d \in Departments,
                 named, echo \in BOOLEAN :
                    SavedDocument(t, s, e, named, d, echo) \in Document
<1>1. snapshot[t].version \in Nat /\ snapshot[t].basis \in Nat
  BY DEF TypeOK, Snapshot
<1>2. Tombstone(t) \in Document
  BY <1>1 DEF Tombstone, Document, StoredStatuses
<1>3. ASSUME NEW s \in SyncStatuses, NEW e \in Users \cup {None},
             NEW d \in Departments, NEW named \in BOOLEAN, NEW echo \in BOOLEAN
      PROVE  SavedDocument(t, s, e, named, d, echo) \in Document
  <2>1. s \in StoredStatuses \cup {"finished", "unknown"}
    BY StoreAssumption DEF StoredStatuses
  <2>2. (IF echo THEN snapshot[t].version ELSE 0) \in Nat
    BY <1>1
  <2>3. QED
    BY <1>1, <2>1, <2>2 DEF SavedDocument, Document
<1>4. QED
  BY <1>2, <1>3

(* TypeOK is preserved by every step. *)
LEMMA NextType == TypeOK /\ [Next]_vars => TypeOK'
<1> SUFFICES ASSUME TypeOK, [Next]_vars PROVE TypeOK'
  OBVIOUS
<1> USE DEF storeVars, syncVars
<1>1. CASE AppTransaction
  BY <1>1, AppTransactionType
<1>2. ASSUME NEW t \in TicketIds, AttachmentChanged(t) PROVE TypeOK'
  BY <1>2 DEF AttachmentChanged, Publishes, TypeOK, StoreTypeOK
<1>3. ASSUME NEW t \in TicketIds, BroadcastTicketEvent(t) PROVE TypeOK'
  BY <1>3 DEF BroadcastTicketEvent, EventOf, Event, Row, TypeOK, StoreTypeOK
<1>4. ASSUME NEW t \in TicketIds, LoseTicketEvent(t) PROVE TypeOK'
  BY <1>4 DEF LoseTicketEvent, TypeOK, StoreTypeOK
<1>5. ASSUME NEW t \in TicketIds, LegacyDelete(t) PROVE TypeOK'
  BY <1>5, LegacyDocumentType DEF LegacyDelete, LegacyWrites, TypeOK, StoreTypeOK
<1>6. ASSUME NEW t \in TicketIds, NEW s \in SyncStatuses,
             NEW e \in Users \cup {None}, NEW d \in Departments,
             NEW named \in BOOLEAN, NEW echo \in BOOLEAN,
             LegacySave(t, s, e, named, d, echo)
      PROVE  TypeOK'
  BY <1>6, LegacyDocumentType DEF LegacySave, LegacyWrites, TypeOK, StoreTypeOK
<1>7. ASSUME NEW ev \in events, ConsumeEvent(ev) PROVE TypeOK'
  BY <1>7 DEF ConsumeEvent, Event, Snapshot, TypeOK, StoreTypeOK
<1>8. ASSUME NEW d \in docs, ApplyChange(d) PROVE TypeOK'
  BY <1>8, ApplyChangeType
<1>9. CASE Restart
  BY <1>9 DEF Restart, ReplaySchema, Backfilled, Row, TypeOK, StoreTypeOK
<1>10. CASE UNCHANGED vars
  BY <1>10 DEF vars, TypeOK, StoreTypeOK
<1>11. QED
  BY <1>1, <1>2, <1>3, <1>4, <1>5, <1>6, <1>7, <1>8, <1>9, <1>10 DEF Next

(* The initial states are well typed. *)
LEMMA InitType == Init => TypeOK
<1> SUFFICES ASSUME Init PROVE TypeOK
  OBVIOUS
<1>1. NoRow \in Row
  BY DEF NoRow, Row, StoredStatuses
<1>2. \A s \in EditorStatuses, e \in Users, d \in Departments \cup {None} :
          ImportedRow(s, e, d) \in Row
  BY StoreAssumption DEF ImportedRow, Row, StoredStatuses, Statuses
<1>3. tickets \in [TicketIds -> Row]
  BY <1>1, <1>2 DEF Init, StoreInit
<1>4. QED
  BY <1>3 DEF Init, StoreInit, TypeOK, StoreTypeOK, Snapshot

(* Every reachable state is well typed: the rows, events and documents     *)
(* that the handlers and the feed produce are ones the tables can hold.    *)
THEOREM TypeCorrect == Spec => []TypeOK
<1>1. QED
  BY InitType, NextType, PTL DEF Spec

-----------------------------------------------------------------------------
(***************************************************************************)
(* The inductive invariant.  AppWritesKept alone is not inductive: that    *)
(* the upsert lets through only current documents follows from where every *)
(* version in the system comes from (VersionsTrackWrites), and that no     *)
(* tombstone hits a ticket something points to, from the version the       *)
(* pointing handler left behind.                                           *)
(***************************************************************************)
LatestTicketVersioned ==
    \A u \in Users : latestTicket[u] # None =>
        /\ Present(latestTicket[u])
        /\ tickets[latestTicket[u]].version > 0

IInv ==
    /\ TypeOK
    /\ VersionsTrackWrites
    /\ AppWritesKept
    /\ ReferencedTicketSurvives
    /\ LatestTicketVersioned

(***************************************************************************)
(* What a step may do to one row: leave it, write it for the application,  *)
(* put a document that knows every write over it, remove it at version 0,  *)
(* or move it from version 0 to 1.                                         *)
(***************************************************************************)
Untouched(t) ==
    /\ Present(t)' = Present(t)
    /\ tickets'[t].version = tickets[t].version
    /\ tickets'[t].basis = tickets[t].basis
    /\ appWrites'[t] = appWrites[t]

AppWrote(t) ==
    /\ Present(t)'
    /\ tickets'[t].version = tickets[t].version + 1
    /\ tickets'[t].basis = appWrites[t] + 1
    /\ appWrites'[t] = appWrites[t] + 1

DocumentPut(t) ==
    /\ Present(t)'
    /\ tickets'[t].version = tickets[t].version
    /\ tickets'[t].basis = appWrites[t]
    /\ appWrites'[t] = appWrites[t]

Removed(t) ==
    /\ tickets[t].version = 0
    /\ ~Present(t)'
    /\ tickets'[t].version = 0
    /\ appWrites'[t] = appWrites[t]

BackfilledAt0(t) ==
    /\ Present(t) /\ Present(t)'
    /\ tickets[t].version = 0
    /\ tickets'[t].version = 1
    /\ tickets'[t].basis = tickets[t].basis
    /\ appWrites'[t] = appWrites[t]

RowStep(t) ==
    \/ Untouched(t)
    \/ AppWrote(t)
    \/ DocumentPut(t)
    \/ Removed(t)
    \/ BackfilledAt0(t)

(* A transaction of the application writes the rows of a set S, each once, *)
(* and leaves every other row as it is.                                    *)
WritesExactly(S) ==
    /\ \A t \in S : AppWrote(t)
    /\ \A t \in TicketIds \ S : tickets'[t] = tickets[t] /\ appWrites'[t] = appWrites[t]

LEMMA AppWrittenRows ==
    ASSUME TypeOK, VersionsTrackWrites, AppTransaction
    PROVE  \E S \in SUBSET TicketIds : S # {} /\ WritesExactly(S)
<1> USE DEF StoreTypeOK
<1>1. PICK t \in TicketIds, u \in Users :
        \/ \E e \in Users : Create(t, u, e) \/ Assign(t, u, e)
        \/ Start(t, u) \/ Finish(t, u) \/ Close(t, u)
        \/ \E f \in TicketIds, d \in Departments : CloseAndRecommend(t, u, f, d)
        \/ \E s \in EditorStatuses, e \in Users \cup {None},
              d \in Departments \cup {None} : EditorSave(t, u, s, e, d)
  BY DEF AppTransaction
<1>2. /\ tickets \in [TicketIds -> Row]
      /\ appWrites \in [TicketIds -> Nat]
  BY DEF TypeOK
<1>3. \A f \in TicketIds : Fresh(f) => tickets[f].version = 0 /\ appWrites[f] = 0
  BY DEF VersionsTrackWrites, Fresh
<1>4. ASSUME NEW s \in Statuses, NEW e, NEW d,
             tickets' = [tickets EXCEPT ![t] = Updated(t, s, e, d)], CountWrite({t})
      PROVE  WritesExactly({t})
  BY <1>2, <1>4 DEF Updated, CountWrite, WritesExactly, AppWrote, Present, Statuses
<1>5. ASSUME NEW s \in Statuses, NEW e, NEW d, NEW ref, Fresh(t), CountWrite({t}),
             tickets' = [tickets EXCEPT ![t] = CreatedRow(s, e, d, ref)]
      PROVE  WritesExactly({t})
  BY <1>2, <1>3, <1>5
     DEF CreatedRow, CountWrite, WritesExactly, AppWrote, Present, Statuses
<1>6. ASSUME NEW e \in Users, Create(t, u, e) \/ Assign(t, u, e)
      PROVE  WritesExactly({t})
  BY <1>4, <1>5, <1>6
     DEF Create, HandleTicketsCreate, Assign, PatchAssigned, Statuses
<1>7. CASE Start(t, u) \/ Finish(t, u) \/ Close(t, u)
  <2>1. WritesExactly({t})
    BY <1>4, <1>7 DEF Start, Finish, Close, PatchInWork, PatchWorksDone,
                      PatchClosed, MovedTo, Statuses
  <2>2. QED
    BY <2>1
<1>8. ASSUME NEW f \in TicketIds, NEW d \in Departments,
             CloseAndRecommend(t, u, f, d)
      PROVE  WritesExactly({t, f})
  <2>1. /\ Fresh(f) /\ f # t
        /\ tickets' = [tickets EXCEPT ![t] = MovedTo(t, "closed"),
                                      ![f] = CreatedRow("created", None, d, t)]
        /\ CountWrite({t, f})
    BY <1>8 DEF CloseAndRecommend, PatchClosedWithFollowUp, Fresh, ExecutorMay,
                Present
  <2>2. AppWrote(t)
    BY <1>2, <2>1 DEF MovedTo, Updated, CountWrite, AppWrote, Present
  <2>3. AppWrote(f)
    BY <1>2, <1>3, <2>1 DEF CreatedRow, CountWrite, AppWrote, Present
  <2>4. \A q \in TicketIds \ {t, f} :
            tickets'[q] = tickets[q] /\ appWrites'[q] = appWrites[q]
    BY <1>2, <2>1 DEF CountWrite
  <2>5. QED
    BY <2>2, <2>3, <2>4 DEF WritesExactly
<1>9. ASSUME NEW s \in EditorStatuses, NEW e, NEW d, EditorSave(t, u, s, e, d)
      PROVE  WritesExactly({t})
  <2>1. s \in Statuses
    BY StoreAssumption
  <2>2. QED
    BY <1>4, <1>9, <2>1 DEF EditorSave, HandleEditorTicketPatch
<1>10. {t} \in SUBSET TicketIds /\ \A f \in TicketIds : {t, f} \in SUBSET TicketIds
  OBVIOUS
<1>11. QED
  BY <1>1, <1>6, <1>7, <1>8, <1>9, <1>10

LEMMA AppRowSteps ==
    ASSUME TypeOK, VersionsTrackWrites, AppTransaction
    PROVE  \A t \in TicketIds : RowStep(t)
BY AppWrittenRows DEF WritesExactly, RowStep, Untouched, Present

(* A document that the guards of applyTicket let through puts a row that   *)
(* builds on every application write, or removes one without any.          *)
LEMMA ApplyRowSteps ==
    ASSUME TypeOK, VersionsTrackWrites, NEW d \in docs, ApplyChange(d)
    PROVE  \A t \in TicketIds : RowStep(t)
<1> DEFINE id == d.id
<1> USE DEF StoreTypeOK, RowStep
<1>1. /\ d \in Document /\ id \in TicketIds
      /\ d.version \in Nat /\ d.basis \in Nat
      /\ tickets \in [TicketIds -> Row]
      /\ appWrites \in [TicketIds -> Nat]
      /\ tickets[id].version \in Nat
  BY DEF TypeOK, Document, Row
<1>2. /\ InHistory(id, d.version, d.basis)
      /\ ~Present(id) => tickets[id].version = 0
      /\ tickets[id].version = 0 => appWrites[id] = 0
  BY <1>1 DEF VersionsTrackWrites
<1>3. UNCHANGED appWrites
  BY DEF ApplyChange, ApplyTicket, UpsertInserts, UpsertUpdates, TombstoneDeletes
<1>4. \A t \in TicketIds : t # id => tickets'[t] = tickets[t]
  BY <1>1 DEF ApplyChange, ApplyTicket, UpsertInserts, UpsertUpdates,
              TombstoneDeletes
<1>5. RowStep(id)
  <2>1. CASE UpsertInserts(d)
    <3>1. d.version = 0 /\ d.basis = 0
      BY <1>1, <1>2, <2>1 DEF UpsertInserts, InHistory
    <3>2. DocumentPut(id)
      BY <1>1, <1>2, <1>3, <2>1, <3>1, DocumentRowType
         DEF UpsertInserts, DocumentPut, Present
    <3>3. QED
      BY <3>2
  <2>2. CASE UpsertUpdates(d)
    <3>1. d.basis = appWrites[id]
      BY <1>1, <1>2, <2>2 DEF UpsertUpdates, VersionMatches, InHistory
    <3>2. DocumentPut(id)
      BY <1>1, <1>3, <2>2, <3>1, DocumentRowType
         DEF UpsertUpdates, DocumentPut, Present
    <3>3. QED
      BY <3>2
  <2>3. CASE TombstoneDeletes(d)
    BY <1>1, <1>3, <2>3 DEF TombstoneDeletes, TombstoneMatches, Removed, NoRow,
                            Present
  <2>4. QED
    BY <2>1, <2>2, <2>3 DEF ApplyChange, ApplyTicket
<1>6. QED
  BY <1>3, <1>4, <1>5 DEF Untouched, Present

(* Every step treats every row in one of the five ways. *)
LEMMA RowSteps ==
    ASSUME TypeOK, VersionsTrackWrites, [Next]_vars
    PROVE  \A t \in TicketIds : RowStep(t)
<1>1. CASE AppTransaction
  BY <1>1, AppRowSteps
<1>2. ASSUME NEW d \in docs, ApplyChange(d) PROVE \A t \in TicketIds : RowStep(t)
  BY <1>2, ApplyRowSteps
<1>3. CASE Restart
  BY <1>3 DEF Restart, ReplaySchema, Backfilled, RowStep, Untouched,
              BackfilledAt0, Present, TypeOK, StoreTypeOK, Row
<1>4. CASE UNCHANGED storeVars
  BY <1>4 DEF storeVars, RowStep, Untouched, Present
<1>5. QED
  BY <1>1, <1>2, <1>3, <1>4
     DEF Next, AttachmentChanged, BroadcastTicketEvent, LoseTicketEvent,
         LegacyDelete, LegacySave, LegacyWrites, ConsumeEvent, vars

-----------------------------------------------------------------------------
(* What belonged to the history of a row still does after any step: the    *)
(* row is not removed once it has a version, and versions and writes grow  *)
(* together.                                                               *)
LEMMA HistoryKept ==
    ASSUME TypeOK, TypeOK', VersionsTrackWrites,
           NEW t \in TicketIds, RowStep(t),
           NEW v \in Nat, NEW b \in Nat, InHistory(t, v, b)
    PROVE  InHistory(t, v, b)'
<1>1. /\ tickets[t].version \in Nat /\ tickets'[t].version \in Nat
      /\ appWrites[t] \in Nat /\ appWrites'[t] \in Nat
  BY DEF TypeOK, StoreTypeOK, Row
<1>2. CASE Untouched(t)
  BY <1>1, <1>2 DEF Untouched, InHistory
<1>3. CASE AppWrote(t)
  BY <1>1, <1>3 DEF AppWrote, InHistory
<1>4. CASE DocumentPut(t)
  BY <1>1, <1>4 DEF DocumentPut, InHistory
<1>5. CASE Removed(t)
  BY <1>1, <1>5 DEF Removed, InHistory
<1>6. CASE BackfilledAt0(t)
  BY <1>1, <1>6 DEF BackfilledAt0, InHistory
<1>7. QED
  BY <1>2, <1>3, <1>4, <1>5, <1>6 DEF RowStep

(* A row at a version above 0 stays, at a version above 0. *)
LEMMA VersionedRowStays ==
    ASSUME TypeOK, TypeOK', NEW t \in TicketIds, RowStep(t),
           Present(t), tickets[t].version > 0
    PROVE  Present(t)' /\ tickets'[t].version > 0
<1>1. tickets[t].version \in Nat /\ tickets[t].version # 0
  BY DEF TypeOK, StoreTypeOK, Row
<1>2. CASE Untouched(t)
  BY <1>2 DEF Untouched
<1>3. CASE AppWrote(t)
  BY <1>1, <1>3 DEF AppWrote
<1>4. CASE DocumentPut(t)
  BY <1>4 DEF DocumentPut
<1>5. ~Removed(t) /\ ~BackfilledAt0(t)
  BY <1>1 DEF Removed, BackfilledAt0
<1>6. QED
  BY <1>2, <1>3, <1>4, <1>5 DEF RowStep

(* A snapshot, an event and a document made now belong to the history of   *)
(* their row: the event reads version and fields of one row, the legacy    *)
(* system passes both on together, or passes on no version at all.         *)
LEMMA TravellingVersions ==
    ASSUME TypeOK, TypeOK', VersionsTrackWrites, AppWritesKept, [Next]_vars
    PROVE  /\ \A t \in TicketIds :
                  InHistory(t, snapshot[t].version, snapshot[t].basis)'
           /\ \A ev \in events' : InHistory(ev.ticket, ev.version, ev.basis)'
           /\ \A d \in docs' : InHistory(d.id, d.version, d.basis)'
<1>1. \A t \in TicketIds : RowStep(t)
  BY RowSteps
<1>2. ASSUME NEW t \in TicketIds, NEW v \in Nat, NEW b \in Nat,
             InHistory(t, v, b)
      PROVE  InHistory(t, v, b)'
  BY <1>1, <1>2, HistoryKept
<1>3. \A t \in TicketIds : /\ snapshot[t].version \in Nat
                           /\ snapshot[t].basis \in Nat
                           /\ tickets[t].version \in Nat
                           /\ tickets[t].basis \in Nat
                           /\ appWrites[t] \in Nat
  BY DEF TypeOK, StoreTypeOK, Snapshot, Row
<1>4. \A ev \in events : /\ ev.ticket \in TicketIds
                         /\ ev.version \in Nat /\ ev.basis \in Nat
  BY DEF TypeOK, Event
<1>5. \A d \in docs : d.id \in TicketIds /\ d.version \in Nat /\ d.basis \in Nat
  BY DEF TypeOK, Document
<1>6. /\ \A t \in TicketIds :
             InHistory(t, snapshot[t].version, snapshot[t].basis)
      /\ \A ev \in events : InHistory(ev.ticket, ev.version, ev.basis)
      /\ \A d \in docs : InHistory(d.id, d.version, d.basis)
  BY DEF VersionsTrackWrites
<1>7. /\ \A t \in TicketIds :
             InHistory(t, snapshot[t].version, snapshot[t].basis)'
         \/ snapshot'[t] # snapshot[t]
      /\ \A ev \in events : InHistory(ev.ticket, ev.version, ev.basis)'
      /\ \A d \in docs : InHistory(d.id, d.version, d.basis)'
  <2>1. ASSUME NEW t \in TicketIds, snapshot'[t] = snapshot[t]
        PROVE  InHistory(t, snapshot[t].version, snapshot[t].basis)'
    <3>1. InHistory(t, snapshot[t].version, snapshot[t].basis)
      BY <1>6
    <3>2. PICK v \in Nat, b \in Nat : v = snapshot[t].version /\ b = snapshot[t].basis
      BY <1>3
    <3>3. InHistory(t, v, b)'
      BY <1>2, <3>1, <3>2
    <3>4. QED
      BY <2>1, <3>2, <3>3 DEF InHistory
  <2>2. QED
    BY <1>2, <1>4, <1>5, <1>6, <2>1
<1>8. ASSUME NEW t \in TicketIds, BroadcastTicketEvent(t)
      PROVE  InHistory(t, tickets[t].version, tickets[t].basis)'
  <2>1. InHistory(t, tickets[t].version, tickets[t].basis)
    BY <1>3, <1>8 DEF BroadcastTicketEvent, AppWritesKept, InHistory
  <2>2. QED
    BY <2>1, <1>8 DEF BroadcastTicketEvent, storeVars, InHistory, Present
<1>9. CASE UNCHANGED <<events, snapshot, docs>>
  BY <1>7, <1>9
<1>10. ASSUME NEW t \in TicketIds, BroadcastTicketEvent(t)
       PROVE  /\ \A q \in TicketIds :
                  InHistory(q, snapshot[q].version, snapshot[q].basis)'
              /\ \A ev \in events' : InHistory(ev.ticket, ev.version, ev.basis)'
              /\ \A d \in docs' : InHistory(d.id, d.version, d.basis)'
  <2>1. events' = events \cup {EventOf(t)} /\ UNCHANGED <<storeVars, snapshot, docs>>
    BY <1>10 DEF BroadcastTicketEvent
  <2>2. PICK x : x = EventOf(t)
    OBVIOUS
  <2>3. InHistory(x.ticket, x.version, x.basis)'
    BY <1>8, <1>10, <2>1, <2>2 DEF EventOf, InHistory, storeVars
  <2>4. ASSUME NEW ev \in events' PROVE InHistory(ev.ticket, ev.version, ev.basis)'
    BY <1>7, <2>1, <2>2, <2>3
  <2>5. QED
    BY <1>7, <2>1, <2>4
<1>11. ASSUME NEW ev \in events, ConsumeEvent(ev)
       PROVE  \A t \in TicketIds :
                  InHistory(t, snapshot[t].version, snapshot[t].basis)'
  <2>1. /\ snapshot' = [snapshot EXCEPT ![ev.ticket] =
               [known |-> TRUE, version |-> ev.version, basis |-> ev.basis]]
        /\ snapshot \in [TicketIds -> Snapshot]
    BY <1>11 DEF ConsumeEvent, TypeOK
  <2>2. InHistory(ev.ticket, ev.version, ev.basis)'
    BY <1>7
  <2>3. ASSUME NEW t \in TicketIds
        PROVE  InHistory(t, snapshot[t].version, snapshot[t].basis)'
    <3>1. CASE t = ev.ticket
      <4>1. /\ snapshot'[t].version = ev.version
            /\ snapshot'[t].basis = ev.basis
        BY <1>4, <2>1, <3>1
      <4>2. QED
        BY <2>2, <3>1, <4>1 DEF InHistory
    <3>2. CASE t # ev.ticket
      <4>1. snapshot'[t] = snapshot[t]
        BY <2>1, <3>2
      <4>2. InHistory(t, snapshot[t].version, snapshot[t].basis)'
        BY <1>7, <4>1
      <4>3. QED
        BY <4>2
    <3>3. QED
      BY <3>1, <3>2
  <2>4. QED
    BY <2>3
<1>12. ASSUME NEW t \in TicketIds, NEW d, LegacyWrites(t, d),
              d.id = t, d.basis = snapshot[t].basis,
              d.version \in {0, snapshot[t].version}
       PROVE  \A q \in docs' : InHistory(q.id, q.version, q.basis)'
  <2>1. docs' = docs \cup {d} /\ UNCHANGED <<storeVars, snapshot>>
    BY <1>12 DEF LegacyWrites
  <2>2. InHistory(d.id, d.version, d.basis)'
    BY <1>3, <1>6, <1>12, <2>1 DEF InHistory, storeVars, Present
  <2>3. QED
    BY <1>7, <2>1, <2>2
<1>13. ASSUME NEW t \in TicketIds, NEW s \in SyncStatuses,
              NEW e \in Users \cup {None}, NEW d \in Departments,
              NEW named \in BOOLEAN, NEW echo \in BOOLEAN,
              LegacySave(t, s, e, named, d, echo)
       PROVE  \A q \in docs' : InHistory(q.id, q.version, q.basis)'
  <2>1. LegacyWrites(t, SavedDocument(t, s, e, named, d, echo))
    BY <1>13 DEF LegacySave
  <2>2. /\ SavedDocument(t, s, e, named, d, echo).id = t
        /\ SavedDocument(t, s, e, named, d, echo).basis = snapshot[t].basis
        /\ SavedDocument(t, s, e, named, d, echo).version
               \in {0, snapshot[t].version}
    BY DEF SavedDocument
  <2>3. QED
    BY <1>12, <2>1, <2>2
<1>14. ASSUME NEW t \in TicketIds, LegacyDelete(t)
       PROVE  \A q \in docs' : InHistory(q.id, q.version, q.basis)'
  <2>1. /\ LegacyWrites(t, Tombstone(t)) /\ Tombstone(t).id = t
        /\ Tombstone(t).basis = snapshot[t].basis
        /\ Tombstone(t).version \in {0, snapshot[t].version}
    BY <1>14 DEF LegacyDelete, Tombstone
  <2>2. QED
    BY <1>12, <2>1
<1>15. QED
  BY <1>7, <1>9, <1>10, <1>11, <1>13, <1>14
     DEF Next, AppTransaction, Create, Assign, Start, Finish, Close,
         CloseAndRecommend, EditorSave, Publishes, AttachmentChanged,
         LoseTicketEvent, LegacyDelete, LegacySave, LegacyWrites,
         ConsumeEvent, ApplyChange, Restart, vars, syncVars

-----------------------------------------------------------------------------
(* The part of the invariant about the rows themselves. *)
LEMMA RowsKept ==
    ASSUME TypeOK, TypeOK', VersionsTrackWrites, AppWritesKept,
           NEW t \in TicketIds, RowStep(t)
    PROVE  /\ (~Present(t) => tickets[t].version = 0)'
           /\ (tickets[t].version = 0 => appWrites[t] = 0)'
           /\ (IF Present(t) THEN tickets[t].basis = appWrites[t]
                             ELSE appWrites[t] = 0)'
<1>1. /\ tickets[t].version \in Nat /\ tickets'[t].version \in Nat
      /\ appWrites[t] \in Nat /\ appWrites'[t] \in Nat
  BY DEF TypeOK, StoreTypeOK, Row
<1>2. /\ ~Present(t) => tickets[t].version = 0
      /\ tickets[t].version = 0 => appWrites[t] = 0
      /\ IF Present(t) THEN tickets[t].basis = appWrites[t]
                       ELSE appWrites[t] = 0
  BY DEF VersionsTrackWrites, AppWritesKept
<1>3. CASE Untouched(t)
  BY <1>2, <1>3 DEF Untouched
<1>4. CASE AppWrote(t)
  BY <1>1, <1>2, <1>4 DEF AppWrote
<1>5. CASE DocumentPut(t)
  BY <1>1, <1>2, <1>5 DEF DocumentPut
<1>6. CASE Removed(t)
  BY <1>1, <1>2, <1>6 DEF Removed
<1>7. CASE BackfilledAt0(t)
  BY <1>1, <1>2, <1>7 DEF BackfilledAt0
<1>8. QED
  BY <1>3, <1>4, <1>5, <1>6, <1>7 DEF RowStep

(* A reference that a step sets, and a latest ticket it sets, name a row   *)
(* the same transaction leaves present at a version above 0.               *)
VersionedNext(t) == tickets'[t].status # "absent" /\ tickets'[t].version > 0

LEMMA NewPointers ==
    ASSUME TypeOK, TypeOK', VersionsTrackWrites, [Next]_vars
    PROVE  /\ \A f \in TicketIds :
                 \/ tickets'[f].reference \in {tickets[f].reference, None}
                 \/ /\ tickets'[f].reference \in TicketIds
                    /\ VersionedNext(tickets'[f].reference)
           /\ \A u \in Users :
                 \/ latestTicket'[u] = latestTicket[u]
                 \/ latestTicket'[u] \in TicketIds /\ VersionedNext(latestTicket'[u])
<1> DEFINE Pointers ==
        /\ \A f \in TicketIds :
              \/ tickets'[f].reference \in {tickets[f].reference, None}
              \/ /\ tickets'[f].reference \in TicketIds
                 /\ VersionedNext(tickets'[f].reference)
        /\ \A u \in Users :
              \/ latestTicket'[u] = latestTicket[u]
              \/ latestTicket'[u] \in TicketIds /\ VersionedNext(latestTicket'[u])
<1> SUFFICES Pointers
  OBVIOUS
<1> USE DEF StoreTypeOK
<1>1. /\ tickets \in [TicketIds -> Row]
      /\ latestTicket \in [Users -> TicketIds \cup {None}]
      /\ \A t \in TicketIds : tickets[t].version \in Nat
  BY DEF TypeOK, Row
<1>2. ASSUME NEW t \in TicketIds, NEW u \in Users, NEW s \in Statuses, NEW e, NEW d,
             tickets' = [tickets EXCEPT ![t] = Updated(t, s, e, d)],
             latestTicket' \in {latestTicket, [latestTicket EXCEPT ![u] = t]}
      PROVE  Pointers
  <2>1. tickets'[t].version > 0 /\ Present(t)'
    BY <1>1, <1>2 DEF Updated, Present, Statuses
  <2>2. \A f \in TicketIds : tickets'[f].reference = tickets[f].reference
    BY <1>1, <1>2 DEF Updated
  <2>3. \A q \in Users : latestTicket'[q] \in {latestTicket[q], t}
    BY <1>1, <1>2
  <2>4. QED
    BY <2>1, <2>2, <2>3 DEF VersionedNext, Present
<1>3. ASSUME NEW t \in TicketIds, NEW u \in Users, NEW e \in Users, Create(t, u, e)
      PROVE  Pointers
  <2>1. /\ tickets' = [tickets EXCEPT ![t] =
                          CreatedRow("assigned", e, Department[u], None)]
        /\ latestTicket' = [latestTicket EXCEPT ![e] = t]
    BY <1>3 DEF Create, HandleTicketsCreate
  <2>2. /\ tickets'[t].version > 0 /\ Present(t)' /\ tickets'[t].reference = None
    BY <1>1, <2>1 DEF CreatedRow, Present
  <2>3. \A f \in TicketIds : tickets'[f].reference \in {tickets[f].reference, None}
    BY <1>1, <2>1, <2>2
  <2>4. \A q \in Users : latestTicket'[q] \in {latestTicket[q], t}
    BY <1>1, <2>1
  <2>5. QED
    BY <2>2, <2>3, <2>4 DEF VersionedNext, Present
<1>4. ASSUME NEW t \in TicketIds, NEW u \in Users, NEW f \in TicketIds,
             NEW d \in Departments, CloseAndRecommend(t, u, f, d)
      PROVE  Pointers
  <2>1. /\ tickets' = [tickets EXCEPT ![t] = MovedTo(t, "closed"),
                           ![f] = CreatedRow("created", None, d, t)]
        /\ latestTicket' = [latestTicket EXCEPT ![u] = t]
        /\ t # f
    BY <1>4 DEF CloseAndRecommend, PatchClosedWithFollowUp, Fresh, ExecutorMay,
                Present
  <2>2. tickets'[t].version > 0 /\ Present(t)'
    BY <1>1, <2>1 DEF MovedTo, Updated, Present
  <2>3. tickets'[f].reference = t
    BY <1>1, <2>1 DEF CreatedRow
  <2>4. tickets'[t].reference = tickets[t].reference
    BY <1>1, <2>1 DEF MovedTo, Updated
  <2>5. \A q \in TicketIds : q # f => tickets'[q].reference = tickets[q].reference
    BY <1>1, <2>1, <2>4
  <2>6. \A q \in Users : latestTicket'[q] \in {latestTicket[q], t}
    BY <1>1, <2>1
  <2>7. QED
    BY <2>2, <2>3, <2>5, <2>6 DEF VersionedNext, Present
<1>5. CASE AppTransaction
  <2>1. PICK t \in TicketIds, u \in Users :
          \/ \E e \in Users : Create(t, u, e) \/ Assign(t, u, e)
          \/ Start(t, u) \/ Finish(t, u) \/ Close(t, u)
          \/ \E f \in TicketIds, d \in Departments : CloseAndRecommend(t, u, f, d)
          \/ \E s \in EditorStatuses, e \in Users \cup {None},
                d \in Departments \cup {None} : EditorSave(t, u, s, e, d)
    BY <1>5 DEF AppTransaction
  <2>2. ASSUME NEW e \in Users, Assign(t, u, e) PROVE Pointers
    <3>1. /\ tickets' = [tickets EXCEPT ![t] =
                            Updated(t, "assigned", e, Department[u])]
          /\ latestTicket' = [latestTicket EXCEPT ![e] = t]
      BY <2>2 DEF Assign, PatchAssigned
    <3>2. "assigned" \in Statuses
      BY DEF Statuses
    <3>3. QED
      BY <1>2, <3>1, <3>2
  <2>3. ASSUME NEW s \in Statuses, tickets' = [tickets EXCEPT ![t] = MovedTo(t, s)],
               latestTicket' = [latestTicket EXCEPT ![u] = t]
        PROVE  Pointers
    BY <1>2, <2>3 DEF MovedTo
  <2>4. CASE Start(t, u) \/ Finish(t, u) \/ Close(t, u)
    BY <2>3, <2>4 DEF Start, Finish, Close, PatchInWork, PatchWorksDone,
                      PatchClosed, Statuses
  <2>5. ASSUME NEW s \in EditorStatuses, NEW e, NEW d, EditorSave(t, u, s, e, d)
        PROVE  Pointers
    <3>1. /\ tickets' = [tickets EXCEPT ![t] = Updated(t, s, e, d)]
          /\ latestTicket' = latestTicket
          /\ s \in Statuses
      BY <2>5, StoreAssumption DEF EditorSave, HandleEditorTicketPatch
    <3>2. QED
      BY <1>2, <3>1
  <2>6. QED
    BY <1>3, <1>4, <2>1, <2>2, <2>4, <2>5
<1>6. ASSUME NEW d \in docs, ApplyChange(d) PROVE Pointers
  <2>1. d \in Document /\ d.id \in TicketIds /\ d.version \in Nat
    BY DEF TypeOK, Document
  <2>2. latestTicket' = latestTicket
    BY <1>6 DEF ApplyChange, ApplyTicket, UpsertInserts, UpsertUpdates,
                TombstoneDeletes
  <2>3. \A f \in TicketIds : tickets'[f].reference \in {tickets[f].reference, None}
    BY <1>1, <1>6, <2>1, DocumentRowType
       DEF ApplyChange, ApplyTicket, UpsertInserts, UpsertUpdates,
           TombstoneDeletes, NoRow
  <2>4. QED
    BY <2>2, <2>3
<1>7. CASE Restart
  <2>1. latestTicket' = latestTicket
    BY <1>7 DEF Restart, ReplaySchema
  <2>2. \A f \in TicketIds : tickets'[f].reference = tickets[f].reference
    BY <1>1, <1>7 DEF Restart, ReplaySchema, Backfilled, Row
  <2>3. QED
    BY <2>1, <2>2
<1>8. CASE UNCHANGED storeVars
  BY <1>8 DEF storeVars
<1>9. QED
  BY <1>5, <1>6, <1>7, <1>8
     DEF Next, AttachmentChanged, BroadcastTicketEvent, LoseTicketEvent,
         LegacyDelete, LegacySave, LegacyWrites, ConsumeEvent, vars

-----------------------------------------------------------------------------
(* Before the server runs no row carries an application write.             *)
LEMMA InitBasis ==
    ASSUME Init, NEW t \in TicketIds
    PROVE  /\ ~Present(t) => tickets[t].version = 0
           /\ tickets[t].basis = 0
           /\ tickets[t].reference = None
           /\ appWrites[t] = 0
<1>1. appWrites[t] = 0
  BY DEF Init, StoreInit
<1>2. tickets[t] \in {NoRow} \cup
         {ImportedRow(s, e, d) : s \in EditorStatuses, e \in Users,
                                 d \in Departments \cup {None}}
  BY DEF Init, StoreInit
<1>3. CASE tickets[t] = NoRow
  BY <1>1, <1>3 DEF NoRow, Present
<1>4. CASE \E s \in EditorStatuses, e \in Users, d \in Departments \cup {None} :
             tickets[t] = ImportedRow(s, e, d)
  <2>1. PICK s \in EditorStatuses, e \in Users, d \in Departments \cup {None} :
             tickets[t] = ImportedRow(s, e, d)
    BY <1>4
  <2>2. s # "absent"
    BY StoreAssumption DEF Statuses
  <2>3. QED
    BY <1>1, <2>1, <2>2 DEF ImportedRow, Present
<1>5. QED
  BY <1>2, <1>3, <1>4

(* The invariant holds in the initial states. *)
LEMMA InitInvariant == Init => IInv
<1> SUFFICES ASSUME Init PROVE IInv
  OBVIOUS
<1>1. TypeOK
  BY InitType
<1>2. \A t \in TicketIds : /\ ~Present(t) => tickets[t].version = 0
                          /\ tickets[t].basis = 0
                          /\ tickets[t].reference = None
                          /\ appWrites[t] = 0
  BY InitBasis
<1>3. VersionsTrackWrites
  <2>1. \A t \in TicketIds : snapshot[t].version = 0 /\ snapshot[t].basis = 0
    BY DEF Init
  <2>2. events = {} /\ docs = {}
    BY DEF Init
  <2>3. QED
    BY <1>2, <2>1, <2>2 DEF InHistory, VersionsTrackWrites
<1>4. AppWritesKept /\ ReferencedTicketSurvives
  BY <1>2 DEF AppWritesKept, ReferencedTicketSurvives
<1>5. LatestTicketVersioned
  BY DEF Init, StoreInit, LatestTicketVersioned
<1>6. QED
  BY <1>1, <1>3, <1>4, <1>5 DEF IInv

(* Every step preserves the invariant. *)
LEMMA NextInvariant == IInv /\ [Next]_vars => IInv'
<1> SUFFICES ASSUME IInv, [Next]_vars PROVE IInv'
  OBVIOUS
<1>1. /\ TypeOK /\ VersionsTrackWrites /\ AppWritesKept
      /\ ReferencedTicketSurvives /\ LatestTicketVersioned
  BY DEF IInv
<1>2. TypeOK'
  BY <1>1, NextType
<1>3. \A t \in TicketIds : RowStep(t)
  BY <1>1, RowSteps
<1>4. ASSUME NEW t \in TicketIds
      PROVE  /\ (~Present(t) => tickets[t].version = 0)'
             /\ (tickets[t].version = 0 => appWrites[t] = 0)'
             /\ (IF Present(t) THEN tickets[t].basis = appWrites[t]
                               ELSE appWrites[t] = 0)'
  BY <1>1, <1>2, <1>3, RowsKept
<1>5. VersionsTrackWrites'
  BY <1>1, <1>2, <1>4, TravellingVersions DEF VersionsTrackWrites
<1>6. AppWritesKept'
  BY <1>4 DEF AppWritesKept
<1>7. ASSUME NEW t \in TicketIds, Present(t), tickets[t].version > 0
      PROVE  VersionedNext(t)
  BY <1>1, <1>2, <1>3, <1>7, VersionedRowStays DEF VersionedNext, Present
<1>8. ReferencedTicketSurvives'
  <2>1. ASSUME NEW f \in TicketIds, tickets'[f].reference # None
        PROVE  VersionedNext(tickets'[f].reference)
    <3>1. CASE tickets'[f].reference = tickets[f].reference
      <4>1. tickets[f].reference \in TicketIds
        BY <1>1, <2>1, <3>1 DEF TypeOK, StoreTypeOK, Row
      <4>2. QED
        BY <1>1, <1>7, <2>1, <3>1, <4>1 DEF ReferencedTicketSurvives
    <3>2. QED
      BY <1>1, <1>2, <2>1, <3>1, NewPointers
  <2>2. QED
    BY <2>1 DEF VersionedNext, ReferencedTicketSurvives, Present
<1>9. LatestTicketVersioned'
  <2>1. ASSUME NEW u \in Users, latestTicket'[u] # None
        PROVE  VersionedNext(latestTicket'[u])
    <3>1. CASE latestTicket'[u] = latestTicket[u]
      <4>1. latestTicket[u] \in TicketIds
        BY <1>1, <2>1, <3>1 DEF TypeOK, StoreTypeOK
      <4>2. QED
        BY <1>1, <1>7, <2>1, <3>1, <4>1 DEF LatestTicketVersioned
    <3>2. QED
      BY <1>1, <1>2, <2>1, <3>1, NewPointers
  <2>2. QED
    BY <2>1 DEF VersionedNext, LatestTicketVersioned, Present
<1>10. QED
  BY <1>1, <1>2, <1>5, <1>6, <1>8, <1>9 DEF IInv

LEMMA Invariance == Spec => []IInv
<1>1. QED
  BY InitInvariant, NextInvariant, PTL DEF Spec

(* The version contract: whatever is lost, repeated or reordered between   *)
(* the two systems, a row builds on the newest application write to it.    *)
THEOREM AppWritesNeverLost == Spec => []AppWritesKept
<1>1. IInv => AppWritesKept
  BY DEF IInv
<1>2. QED
  BY <1>1, Invariance, PTL

(* The comparison WHERE tickets.app_version = EXCLUDED.app_version admits  *)
(* only documents that were built on the newest application write.         *)
THEOREM MatchingVersionsAreCurrent == Spec => []MatchingDocIsCurrent
<1>1. ASSUME IInv PROVE MatchingDocIsCurrent
  <2>1. ASSUME NEW d \in docs, Present(d.id), VersionMatches(d)
        PROVE  d.basis = appWrites[d.id]
    <3>1. /\ d.id \in TicketIds /\ d.version \in Nat /\ d.basis \in Nat
          /\ appWrites[d.id] \in Nat
      BY <1>1 DEF IInv, TypeOK, StoreTypeOK, Document
    <3>2. /\ InHistory(d.id, d.version, d.basis)
          /\ tickets[d.id].version = 0 => appWrites[d.id] = 0
      BY <1>1, <3>1 DEF IInv, VersionsTrackWrites
    <3>3. QED
      BY <2>1, <3>1, <3>2 DEF InHistory, VersionMatches
  <2>2. QED
    BY <2>1 DEF MatchingDocIsCurrent
<1>2. QED
  BY <1>1, Invariance, PTL

(* No tombstone runs into the foreign key of a follow-up. *)
THEOREM ReferencesSurvive == Spec => []ReferencedTicketSurvives
<1>1. IInv => ReferencedTicketSurvives
  BY DEF IInv
<1>2. QED
  BY <1>1, Invariance, PTL

(* users.latest_ticket always names an existing ticket. *)
THEOREM LatestTicketNeverDangles == Spec => []LatestTicketExists
<1>1. IInv => LatestTicketExists
  BY DEF IInv, LatestTicketVersioned, LatestTicketExists
<1>2. QED
  BY <1>1, Invariance, PTL

(* Every version under way belongs to the history of its row.              *)
THEOREM VersionsBelongToHistory == Spec => []VersionsTrackWrites
<1>1. IInv => VersionsTrackWrites
  BY DEF IInv
<1>2. QED
  BY <1>1, Invariance, PTL

-----------------------------------------------------------------------------
(***************************************************************************)
(* Refinement: the detailed store implements the register of the contract. *)
(* The mapped variables get names, so that the steps below can speak of    *)
(* their values before and after without the substitution.                 *)
(***************************************************************************)
Exists == [t \in TicketIds |-> Present(t)]
Content == [t \in TicketIds |-> tickets[t].status]
Reflects == [t \in TicketIds |-> tickets[t].basis]
ExistsNext == [t \in TicketIds |-> tickets'[t].status # "absent"]
ContentNext == [t \in TicketIds |-> tickets'[t].status]
ReflectsNext == [t \in TicketIds |-> tickets'[t].basis]
Contents == StoredStatuses \cup {"absent"}

(* The three register actions and the stutter over these names.            *)
MapsToAppTransaction(S) ==
    /\ S # {}
    /\ ExistsNext = [t \in TicketIds |-> t \in S \/ Exists[t]]
    /\ \A t \in TicketIds \ S : ContentNext[t] = Content[t]
    /\ appWrites' = [t \in TicketIds |-> IF t \in S THEN appWrites[t] + 1
                                                    ELSE appWrites[t]]
    /\ ReflectsNext = [t \in TicketIds |-> IF t \in S THEN appWrites[t] + 1
                                                      ELSE Reflects[t]]

MapsToLegacyPut(t) ==
    /\ ExistsNext = [Exists EXCEPT ![t] = TRUE]
    /\ ContentNext = [Content EXCEPT ![t] = ContentNext[t]]
    /\ ReflectsNext = [Reflects EXCEPT ![t] = appWrites[t]]
    /\ appWrites' = appWrites

MapsToLegacyRemove(t) ==
    /\ Exists[t]
    /\ appWrites[t] = 0
    /\ ExistsNext = [Exists EXCEPT ![t] = FALSE]
    /\ ContentNext = [Content EXCEPT ![t] = ContentNext[t]]
    /\ ReflectsNext = [Reflects EXCEPT ![t] = 0]
    /\ appWrites' = appWrites

MapsToStutter ==
    /\ ExistsNext = Exists
    /\ ContentNext = Content
    /\ ReflectsNext = Reflects
    /\ appWrites' = appWrites

LEMMA AppTransactionMaps ==
    ASSUME TypeOK, VersionsTrackWrites, AppTransaction
    PROVE  \E S \in SUBSET TicketIds : MapsToAppTransaction(S)
<1>1. PICK S \in SUBSET TicketIds : S # {} /\ WritesExactly(S)
  BY AppWrittenRows
<1>2. /\ appWrites \in [TicketIds -> Nat]
      /\ appWrites' \in [TicketIds -> Nat]
  <2>1. TypeOK'
    BY AppTransactionType
  <2>2. QED
    BY <2>1 DEF TypeOK, StoreTypeOK
<1>3. \A t \in S : /\ tickets'[t].status # "absent"
                   /\ tickets'[t].basis = appWrites[t] + 1
                   /\ appWrites'[t] = appWrites[t] + 1
  BY <1>1 DEF WritesExactly, AppWrote, Present
<1>4. \A t \in TicketIds \ S : tickets'[t] = tickets[t] /\ appWrites'[t] = appWrites[t]
  BY <1>1 DEF WritesExactly
<1>5. ExistsNext = [t \in TicketIds |-> t \in S \/ Exists[t]]
  BY <1>3, <1>4 DEF ExistsNext, Exists, Present
<1>6. \A t \in TicketIds \ S : ContentNext[t] = Content[t]
  BY <1>4 DEF ContentNext, Content
<1>7. appWrites' = [t \in TicketIds |-> IF t \in S THEN appWrites[t] + 1
                                                   ELSE appWrites[t]]
  BY <1>2, <1>3, <1>4
<1>8. ReflectsNext = [t \in TicketIds |-> IF t \in S THEN appWrites[t] + 1
                                                     ELSE Reflects[t]]
  BY <1>3, <1>4 DEF ReflectsNext, Reflects
<1>9. QED
  BY <1>1, <1>5, <1>6, <1>7, <1>8 DEF MapsToAppTransaction

(* A document that writes one row with a value that knows every write.     *)
LEMMA PutMaps ==
    ASSUME NEW t \in TicketIds, NEW r \in Row, tickets \in [TicketIds -> Row],
           tickets' = [tickets EXCEPT ![t] = r], UNCHANGED appWrites,
           r.status # "absent", r.basis = appWrites[t]
    PROVE  MapsToLegacyPut(t)
<1>1. tickets'[t] = r /\ \A q \in TicketIds \ {t} : tickets'[q] = tickets[q]
  OBVIOUS
<1>2. ExistsNext = [Exists EXCEPT ![t] = TRUE]
  BY <1>1 DEF ExistsNext, Exists, Present
<1>3. ContentNext = [Content EXCEPT ![t] = ContentNext[t]]
  BY <1>1 DEF ContentNext, Content
<1>4. ReflectsNext = [Reflects EXCEPT ![t] = appWrites[t]]
  BY <1>1 DEF ReflectsNext, Reflects
<1>5. QED
  BY <1>2, <1>3, <1>4 DEF MapsToLegacyPut

LEMMA ApplyChangeMaps ==
    ASSUME TypeOK, VersionsTrackWrites, NEW d \in docs, ApplyChange(d)
    PROVE  MapsToLegacyPut(d.id) \/ MapsToLegacyRemove(d.id)
<1> USE DEF StoreTypeOK
<1>1. /\ d \in Document /\ d.id \in TicketIds
      /\ d.version \in Nat /\ d.basis \in Nat
      /\ tickets \in [TicketIds -> Row]
      /\ appWrites \in [TicketIds -> Nat]
      /\ tickets[d.id].version \in Nat
  BY DEF TypeOK, Document, Row
<1>2. /\ InHistory(d.id, d.version, d.basis)
      /\ ~Present(d.id) => tickets[d.id].version = 0
      /\ tickets[d.id].version = 0 => appWrites[d.id] = 0
  BY <1>1 DEF VersionsTrackWrites
<1>3. CASE UpsertInserts(d)
  <2>1. d.basis = appWrites[d.id]
    BY <1>1, <1>2, <1>3 DEF UpsertInserts, InHistory
  <2>2. MapsToLegacyPut(d.id)
    <3>1. PICK r \in Row : r = DocumentRow(d, d.version)
      BY <1>1, DocumentRowType
    <3>2. r.status # "absent" /\ r.basis = appWrites[d.id]
      BY <1>1, <2>1, <3>1, DocumentRowType
    <3>3. QED
      BY <1>1, <1>3, <3>1, <3>2, PutMaps DEF UpsertInserts
  <2>3. QED
    BY <2>2
<1>4. CASE UpsertUpdates(d)
  <2>1. d.basis = appWrites[d.id]
    BY <1>1, <1>2, <1>4 DEF UpsertUpdates, VersionMatches, InHistory
  <2>2. MapsToLegacyPut(d.id)
    <3>1. PICK r \in Row : r = DocumentRow(d, tickets[d.id].version)
      BY <1>1, DocumentRowType
    <3>2. r.status # "absent" /\ r.basis = appWrites[d.id]
      BY <1>1, <2>1, <3>1, DocumentRowType
    <3>3. QED
      BY <1>1, <1>4, <3>1, <3>2, PutMaps DEF UpsertUpdates
  <2>3. QED
    BY <2>2
<1>5. CASE TombstoneDeletes(d)
  <2>1. /\ Present(d.id)
        /\ appWrites[d.id] = 0
        /\ tickets'[d.id].status = "absent"
        /\ tickets'[d.id].basis = 0
        /\ \A q \in TicketIds \ {d.id} : tickets'[q] = tickets[q]
        /\ appWrites' = appWrites
    BY <1>1, <1>2, <1>5 DEF TombstoneDeletes, TombstoneMatches, NoRow
  <2>2. ExistsNext = [Exists EXCEPT ![d.id] = FALSE] /\ Exists[d.id]
    BY <1>1, <2>1 DEF ExistsNext, Exists, Present
  <2>3. ContentNext = [Content EXCEPT ![d.id] = ContentNext[d.id]]
    BY <1>1, <2>1 DEF ContentNext, Content
  <2>4. ReflectsNext = [Reflects EXCEPT ![d.id] = 0]
    BY <1>1, <2>1 DEF ReflectsNext, Reflects
  <2>5. QED
    BY <2>1, <2>2, <2>3, <2>4 DEF MapsToLegacyRemove
<1>6. QED
  BY <1>3, <1>4, <1>5 DEF ApplyChange, ApplyTicket

LEMMA StepMaps ==
    ASSUME TypeOK, VersionsTrackWrites, [Next]_vars
    PROVE  \/ \E S \in SUBSET TicketIds : MapsToAppTransaction(S)
           \/ \E t \in TicketIds : MapsToLegacyPut(t) \/ MapsToLegacyRemove(t)
           \/ MapsToStutter
<1>1. CASE AppTransaction
  BY <1>1, AppTransactionMaps
<1>2. ASSUME NEW d \in docs, ApplyChange(d)
      PROVE  \E t \in TicketIds : MapsToLegacyPut(t) \/ MapsToLegacyRemove(t)
  <2>1. d.id \in TicketIds
    BY DEF TypeOK, Document
  <2>2. QED
    BY <1>2, <2>1, ApplyChangeMaps
<1>3. CASE Restart
  <2>1. tickets' = [t \in TicketIds |-> Backfilled(tickets[t])] /\ appWrites' = appWrites
    BY <1>3 DEF Restart, ReplaySchema
  <2>2. \A t \in TicketIds : /\ tickets'[t].status = tickets[t].status
                            /\ tickets'[t].basis = tickets[t].basis
    BY <2>1 DEF Backfilled, TypeOK, StoreTypeOK, Row
  <2>3. MapsToStutter
    BY <2>1, <2>2 DEF MapsToStutter, ExistsNext, Exists, ContentNext, Content,
                      ReflectsNext, Reflects, Present
  <2>4. QED
    BY <2>3
<1>4. CASE UNCHANGED storeVars
  BY <1>4 DEF storeVars, MapsToStutter, ExistsNext, Exists, ContentNext, Content,
              ReflectsNext, Reflects, Present
<1>5. QED
  BY <1>1, <1>2, <1>3, <1>4
     DEF Next, AttachmentChanged, BroadcastTicketEvent, LoseTicketEvent,
         LegacyDelete, LegacySave, LegacyWrites, ConsumeEvent, vars

(* Every behaviour of the synchronisation is one of the register: no step  *)
(* replaces an application write unseen or removes a written ticket.       *)
THEOREM RegisterImplemented == Spec => ImplementsRegister
<1> USE DEF Contents
<1>1. Init => Register!Init
  <2> SUFFICES ASSUME Init PROVE Register!Init
    OBVIOUS
  <2>1. TypeOK
    BY InitType
  <2>2. Content \in [TicketIds -> Contents]
    BY <2>1 DEF Content, TypeOK, StoreTypeOK, Row
  <2>3. Exists \in [TicketIds -> BOOLEAN]
    BY DEF Exists, Present
  <2>5. appWrites = [t \in TicketIds |-> 0]
    BY DEF Init, StoreInit
  <2>6. \A t \in TicketIds : tickets[t].basis = 0
    BY InitBasis
  <2>7. Reflects = [t \in TicketIds |-> 0]
    BY <2>6 DEF Reflects
  <2>8. QED
    BY <2>2, <2>3, <2>5, <2>7 DEF Register!Init, Exists, Content, Reflects
<1>2. ASSUME IInv, IInv', [Next]_vars PROVE [Register!Next]_(Register!vars)
  <2>1. /\ \A t \in TicketIds : Content[t] \in Contents
        /\ ContentNext \in [TicketIds -> Contents]
    BY <1>2 DEF IInv, TypeOK, StoreTypeOK, Row, Content, ContentNext
  <2>2. CASE \E S \in SUBSET TicketIds : MapsToAppTransaction(S)
    <3>1. PICK S \in SUBSET TicketIds : MapsToAppTransaction(S)
      BY <2>2
    <3>2. Register!AppTransaction(S)
      BY <2>1, <3>1 DEF MapsToAppTransaction, Register!AppTransaction, Exists,
            ExistsNext, Content, ContentNext, Reflects, ReflectsNext, Present
    <3>3. QED
      BY <3>2 DEF Register!Next
  <2>3. ASSUME NEW t \in TicketIds, MapsToLegacyPut(t) PROVE Register!LegacyPut(t)
    <3>1. ContentNext[t] \in Contents
      BY <2>1
    <3>2. QED
      BY <2>3, <3>1 DEF MapsToLegacyPut, Register!LegacyPut, Exists, ExistsNext,
            Content, ContentNext, Reflects, ReflectsNext, Present
  <2>4. ASSUME NEW t \in TicketIds, MapsToLegacyRemove(t)
        PROVE  Register!LegacyRemove(t)
    <3>1. ContentNext[t] \in Contents
      BY <2>1
    <3>2. QED
      BY <2>4, <3>1 DEF MapsToLegacyRemove, Register!LegacyRemove, Exists,
            ExistsNext, Content, ContentNext, Reflects, ReflectsNext, Present
  <2>5. CASE MapsToStutter
    BY <2>5 DEF MapsToStutter, Register!vars, Exists, ExistsNext, Content,
          ContentNext, Reflects, ReflectsNext, Present
  <2>6. TypeOK /\ VersionsTrackWrites
    BY <1>2 DEF IInv
  <2>7. QED
    BY <1>2, <2>2, <2>3, <2>4, <2>5, <2>6, StepMaps DEF Register!Next
<1>3. QED
  BY <1>1, <1>2, Invariance, PTL DEF Spec, ImplementsRegister, Register!Spec

(*****************************************************************************)
(*                           The archive of tickets                          *)
(*****************************************************************************)

-----------------------------------------------------------------------------
(* The arithmetic of the pages.                                            *)

LEMMA Division ==
    ASSUME NEW a \in Nat, NEW b \in Nat \ {0}
    PROVE  /\ a \div b \in Int /\ a % b \in 0..(b - 1)
           /\ a = b * (a \div b) + (a % b)
BY SMT

LEMMA LastPage ==
    ASSUME NEW t \in Nat, t > 0
    PROVE  Pages(t) \in Nat \ {0} /\ Offset(Pages(t)) < t
<1> DEFINE q == Pages(t)
           r == (t + PageSize - 1) % PageSize
<1>1. PageSize \in Nat \ {0}  BY PageIsPositive
<1>2. q \in Int /\ r \in 0..(PageSize - 1) /\ t + PageSize - 1 = PageSize * q + r
  <2>1. t + PageSize - 1 \in Nat  BY <1>1
  <2> QED  BY <1>1, <2>1, Division DEF Pages
<1> HIDE DEF q, r
<1>3. q >= 1
  <2>1. SUFFICES ASSUME q <= 0 PROVE FALSE  BY <1>2
  <2>2. PageSize * q <= 0  BY <1>1, <1>2, <2>1
  <2> QED  BY <1>1, <1>2, <2>2
<1>4. (q - 1) * PageSize = PageSize * q - PageSize  BY <1>1, <1>2
<1>5. (q - 1) * PageSize < t  BY <1>1, <1>2, <1>4
<1> QED  BY <1>2, <1>3, <1>5 DEF q, Offset

LEMMA PastTheEnd ==
    ASSUME NEW t \in Nat, t > 0, NEW p \in Nat \ {0}
    PROVE  /\ Offset(p) \in Nat
           /\ Offset(p) >= t => Pages(t) < p
           /\ Offset(p) < t => p <= Pages(t)
<1> DEFINE q == Pages(t)
           r == (t + PageSize - 1) % PageSize
<1>1. PageSize \in Nat \ {0}  BY PageIsPositive
<1>2. q \in Int /\ r \in 0..(PageSize - 1) /\ t + PageSize - 1 = PageSize * q + r
  <2>1. t + PageSize - 1 \in Nat  BY <1>1
  <2> QED  BY <1>1, <2>1, Division DEF Pages
<1> HIDE DEF q, r
<1>3. (p - 1) * PageSize = PageSize * p - PageSize /\ (p - 1) * PageSize \in Nat
  BY <1>1
<1>4. ASSUME (p - 1) * PageSize >= t PROVE q < p
  <2>1. SUFFICES ASSUME p <= q PROVE FALSE  BY <1>2
  <2>2. PageSize * p <= PageSize * q  BY <1>1, <1>2, <2>1
  <2> QED  BY <1>1, <1>2, <1>3, <1>4, <2>2
<1>5. ASSUME (p - 1) * PageSize < t PROVE p <= q
  <2>1. SUFFICES ASSUME p >= q + 1 PROVE FALSE  BY <1>2
  <2>2. PageSize * p >= PageSize * (q + 1)  BY <1>1, <1>2, <2>1
  <2>3. PageSize * (q + 1) = PageSize * q + PageSize  BY <1>1, <1>2
  <2> QED  BY <1>1, <1>2, <1>3, <1>5, <2>2, <2>3
<1> QED  BY <1>3, <1>4, <1>5 DEF q, Offset

-----------------------------------------------------------------------------
(* A page that begins before the last match has tickets.                   *)

LEMMA Least ==
    ASSUME NEW T, T # {}, NEW f \in [T -> Nat]
    PROVE  \E m \in T : \A x \in T : f[m] <= f[x]
<1> DEFINE R == OpToRel(<, Nat)
           S == {f[x] : x \in T}
<1>1. IsWellFoundedOn(R, Nat)  BY NatLessThanWellFounded
<1>2. \A x, y \in Nat : <<y, x>> \in R <=> y < x  BY DEF OpToRel
<1>3. S \subseteq Nat /\ S # {}  OBVIOUS
<1> HIDE DEF R
<1>4. PICK n \in S : \A y \in S : <<y, n>> \notin R  BY <1>1, <1>3, WFMin
<1>5. PICK m \in T : n = f[m]  BY <1>4
<1>6. ASSUME NEW x \in T PROVE f[m] <= f[x]
  <2>1. f[x] \in S /\ f[x] \in Nat /\ f[m] \in Nat  OBVIOUS
  <2>2. ~(f[x] < f[m])  BY <1>2, <1>4, <1>5, <2>1
  <2> QED  BY <2>1, <2>2
<1> QED  BY <1>6

(* How many of S come before t when the newest is first.                   *)
Above(S, t) == {s \in S : s.id > t.id}

LEMMA ThereIsOneAt ==
    ASSUME NEW S \in SUBSET Archive, NEW n \in Nat, Cardinality(S) > n
    PROVE  \E t \in S : Cardinality(Above(S, t)) = n
<1>1. IsFiniteSet(S) /\ Cardinality(S) \in Nat
  BY TicketsHaveIds, FS_Subset, FS_CardinalityType
<1>2. \A t \in S : t.id \in Nat  BY TicketsHaveIds
<1>3. \A s, t \in S : s.id = t.id => s = t  BY TicketsHaveIds
<1>4. \A t : /\ IsFiniteSet(Above(S, t)) /\ Cardinality(Above(S, t)) \in Nat
             /\ Above(S, t) \subseteq S
  <2> SUFFICES ASSUME NEW t PROVE IsFiniteSet(Above(S, t)) /\ Above(S, t) \subseteq S
    BY FS_CardinalityType
  <2>1. Above(S, t) \in SUBSET S  BY DEF Above
  <2> QED  BY <1>1, <2>1, FS_Subset
<1>5. ASSUME NEW T \in SUBSET S, T # {}
      PROVE  \E m \in T : \A x \in T \ {m} : x.id > m.id
  <2> DEFINE f == [t \in T |-> t.id]
  <2>1. f \in [T -> Nat]  BY <1>2
  <2>2. PICK m \in T : \A x \in T : f[m] <= f[x]
    <3> HIDE DEF f
    <3> QED  BY <1>5, <2>1, Least
  <2>3. ASSUME NEW x \in T \ {m} PROVE x.id > m.id
    <3>1. m.id <= x.id  BY <2>2
    <3>2. m.id # x.id  BY <1>3
    <3>3. m.id \in Nat /\ x.id \in Nat  BY <1>2
    <3> QED  BY <3>1, <3>2, <3>3
  <2> QED  BY <2>3
<1> DEFINE Far == {t \in S : Cardinality(Above(S, t)) >= n}
<1>6. Far # {}
  <2>1. S # {}  BY <1>1, FS_EmptySet
  <2>2. PICK m \in S : \A x \in S \ {m} : x.id > m.id  BY <1>5, <2>1
  <2>3. Above(S, m) = S \ {m}
    <3>1. ~(m.id > m.id)  BY <1>2
    <3> QED  BY <2>2, <3>1 DEF Above
  <2>4. Cardinality(S \ {m}) = Cardinality(S) - 1  BY <1>1, <2>2, FS_RemoveElement
  <2>5. Cardinality(Above(S, m)) >= n  BY <1>1, <2>3, <2>4
  <2> QED  BY <2>2, <2>5
<1> DEFINE g == [t \in Far |-> Cardinality(Above(S, t))]
<1>7. g \in [Far -> Nat]  BY <1>4
<1>8. PICK t \in Far : \A x \in Far : g[t] <= g[x]
  <2> HIDE DEF g, Far
  <2> QED  BY <1>6, <1>7, Least
<1>9. \A x \in Far : Cardinality(Above(S, t)) <= Cardinality(Above(S, x))  BY <1>8
<1>10. ASSUME Cardinality(Above(S, t)) > n PROVE FALSE
  <2>1. Above(S, t) # {}  BY <1>10, <1>4, FS_EmptySet
  <2>2. PICK m \in Above(S, t) : \A x \in Above(S, t) \ {m} : x.id > m.id
    BY <1>4, <1>5, <2>1
  <2>3. m \in S /\ m.id > t.id /\ t.id \in Nat /\ m.id \in Nat  BY <1>2, <2>2 DEF Above
  <2>4. Above(S, m) = Above(S, t) \ {m}
    <3>1. ASSUME NEW x \in S, x.id > m.id PROVE x.id > t.id /\ x # m
      <4>1. x.id \in Nat  BY <1>2
      <4> QED  BY <3>1, <4>1, <2>3
    <3> QED  BY <2>2, <3>1 DEF Above
  <2>5. Cardinality(Above(S, t) \ {m}) = Cardinality(Above(S, t)) - 1
    BY <1>4, <2>2, FS_RemoveElement
  <2>6. Cardinality(Above(S, m)) >= n /\ Cardinality(Above(S, m)) < Cardinality(Above(S, t))
    BY <1>4, <1>10, <2>4, <2>5
  <2>7. m \in Far  BY <2>3, <2>6
  <2>8. Cardinality(Above(S, t)) <= Cardinality(Above(S, m))  BY <1>9, <2>7
  <2> HIDE DEF Far
  <2> QED  BY <1>4, <2>6, <2>8
<1> QED  BY <1>4, <1>10

-----------------------------------------------------------------------------
(* The types.                                                              *)

IsEntry(e, answers) ==
    /\ e \in [status : {"pending", "ok", "error"}, data : answers \cup {Nothing}]
    /\ e.status = "ok" => e.data \in answers

(* A page that begins before the last of the tickets that were counted has *)
(* tickets, unless one of them had left when it was read.                  *)
Fits(k, data) ==
    /\ data \in Answers
    /\ Offset(k.page) < data.total /\ data.items = {} => data.torn

IsCache(c) ==
    /\ c = [k \in DOMAIN c |-> c[k]] /\ DOMAIN c \subseteq Keys
    /\ \A k \in DOMAIN c : /\ IsEntry(c[k], Answers)
                           /\ c[k].data # Nothing => Fits(k, c[k].data)

IsFacets(c) ==
    /\ c = [k \in DOMAIN c |-> c[k]] /\ DOMAIN c \subseteq FacetsKeys
    /\ \A k \in DOMAIN c : IsEntry(c[k], FacetsAnswers)

(* What the server has read for the requests under way.                    *)
IsListReads(r) ==
    /\ r = [k \in DOMAIN r |-> r[k]] /\ DOMAIN r \subseteq Keys
    /\ \A k \in DOMAIN r :
           /\ r[k] \in [counted : SUBSET Archive, answer : Answers \cup {Nothing}]
           /\ r[k].answer # Nothing => Fits(k, r[k].answer)

IsFacetsReads(r) ==
    /\ r = [k \in DOMAIN r |-> r[k]] /\ DOMAIN r \subseteq FacetsKeys
    /\ \A k \in DOMAIN r :
           r[k] \in [reasons : SUBSET Reasons, answer : FacetsAnswers \cup {Nothing}]

IsList(list) == list \in [id : Keys, rec : Answers] \cup {Nothing}
IsOptions(options) == options \in [id : FacetsKeys, rec : FacetsAnswers] \cup {Nothing}

IsPage(u) ==
    /\ u \in [tab : Tabs, active : Filters, draft : Filters, page : Nat \ {0},
              sheet : BOOLEAN, list : [id : Keys, rec : Answers] \cup {Nothing},
              options : [id : FacetsKeys, rec : FacetsAnswers] \cup {Nothing},
              known : SUBSET Others]

(* The list is the answer to what is asked, once that is there, and the    *)
(* page is none that the second effect would leave.                        *)
Settled(u, c) ==
    /\ Key(u) \in DOMAIN c
    /\ c[Key(u)].status = "ok" => u.list = [id |-> Key(u), rec |-> c[Key(u)].data]
    /\ c[Key(u)].data # Nothing => u.list # Nothing
    /\ ~MovedBack(u, Total(u.list))

LEMMA KeysTyped ==
    ASSUME NEW u, IsPage(u)
    PROVE  Key(u) \in Keys /\ FacetsKey(u) \in FacetsKeys
BY DEF IsPage, Key, FacetsKey, Keys, FacetsKeys

(* What a subscription does to an entry.                                   *)
AskedFor(e) == IF e.data = Nothing /\ e.status # "pending" THEN Pending(e) ELSE e

LEMMA AskedAt ==
    ASSUME NEW c, c = [l \in DOMAIN c |-> c[l]], NEW k
    PROVE  /\ Asked(c, k) = [l \in DOMAIN Asked(c, k) |-> Asked(c, k)[l]]
           /\ DOMAIN Asked(c, k) = DOMAIN c \cup {k}
           /\ \A l \in DOMAIN c : l # k => Asked(c, k)[l] = c[l]
           /\ Asked(c, k)[k] = IF k \in DOMAIN c THEN AskedFor(c[k]) ELSE Pending(Absent)
<1>1. CASE k \in DOMAIN c
  <2>1. Asked(c, k) = [l \in DOMAIN c |-> IF l = k THEN AskedFor(c[l]) ELSE c[l]]
    BY <1>1 DEF Asked, Subscribed, AskedFor
  <2> QED  BY <1>1, <2>1
<1>2. CASE k \notin DOMAIN c
  <2>1. Asked(c, k) = [l \in DOMAIN c \cup {k} |-> IF l = k THEN Pending(Absent) ELSE c[l]]
    BY <1>2 DEF Asked, With
  <2> QED  BY <1>2, <2>1
<1> QED  BY <1>1, <1>2

LEMMA EntriesTyped ==
    ASSUME NEW answers, Nothing \notin answers, NEW e, IsEntry(e, answers)
    PROVE  /\ IsEntry(AskedFor(e), answers)
           /\ AskedFor(e).data = e.data
           /\ e.status = "ok" => AskedFor(e) = e
           /\ AskedFor(e).status = "ok" => AskedFor(e) = e
           /\ IsEntry(Failed(e), answers) /\ Failed(e).data = e.data /\ Failed(e).status = "error"
BY DEF IsEntry, AskedFor, Pending, Failed

LEMMA NewEntry ==
    ASSUME NEW answers
    PROVE  /\ IsEntry(Pending(Absent), answers)
           /\ Pending(Absent).data = Nothing /\ Pending(Absent).status = "pending"
BY DEF IsEntry, Pending, Absent

LEMMA AskedTyped ==
    ASSUME NEW c, IsCache(c), NEW k \in Keys
    PROVE  /\ IsCache(Asked(c, k)) /\ k \in DOMAIN Asked(c, k)
           /\ Asked(c, k)[k].data # Nothing =>
                  k \in DOMAIN c /\ c[k].data = Asked(c, k)[k].data
           /\ k \in DOMAIN c => Asked(c, k)[k] = AskedFor(c[k])
<1>1. c = [l \in DOMAIN c |-> c[l]] /\ Nothing \notin Answers
  BY NothingIsApart DEF IsCache
<1> DEFINE a == Asked(c, k)
<1>2. /\ a = [l \in DOMAIN a |-> a[l]]
      /\ DOMAIN a = DOMAIN c \cup {k}
      /\ \A l \in DOMAIN c : l # k => a[l] = c[l]
      /\ a[k] = IF k \in DOMAIN c THEN AskedFor(c[k]) ELSE Pending(Absent)
  BY <1>1, AskedAt
<1> HIDE DEF a
<1>3. ASSUME NEW l \in DOMAIN c
      PROVE  IsEntry(c[l], Answers) /\ (c[l].data # Nothing => Fits(l, c[l].data))
  BY <1>3 DEF IsCache
<1>4. k \in DOMAIN c => IsEntry(AskedFor(c[k]), Answers) /\ AskedFor(c[k]).data = c[k].data
  BY <1>1, <1>3, EntriesTyped
<1>5. IsEntry(Pending(Absent), Answers) /\ Pending(Absent).data = Nothing  BY NewEntry
<1>6. ASSUME NEW l \in DOMAIN a
      PROVE  IsEntry(a[l], Answers) /\ (a[l].data # Nothing => Fits(l, a[l].data))
  <2>1. CASE l = k  BY <1>2, <1>3, <1>4, <1>5, <2>1
  <2>2. CASE l # k  BY <1>2, <1>3, <2>2
  <2> QED  BY <2>1, <2>2
<1>7. DOMAIN a \subseteq Keys  BY <1>2 DEF IsCache
<1>8. IsCache(a)  BY <1>2, <1>6, <1>7 DEF IsCache
<1> QED  BY <1>2, <1>4, <1>5, <1>8 DEF a

LEMMA FacetsAsked ==
    ASSUME NEW c, IsFacets(c), NEW k \in FacetsKeys
    PROVE  IsFacets(Asked(c, k)) /\ k \in DOMAIN Asked(c, k)
<1>1. c = [l \in DOMAIN c |-> c[l]] /\ Nothing \notin FacetsAnswers
  BY NothingIsApart DEF IsFacets
<1> DEFINE a == Asked(c, k)
<1>2. /\ a = [l \in DOMAIN a |-> a[l]]
      /\ DOMAIN a = DOMAIN c \cup {k}
      /\ \A l \in DOMAIN c : l # k => a[l] = c[l]
      /\ a[k] = IF k \in DOMAIN c THEN AskedFor(c[k]) ELSE Pending(Absent)
  BY <1>1, AskedAt
<1> HIDE DEF a
<1>3. \A l \in DOMAIN c : IsEntry(c[l], FacetsAnswers)  BY DEF IsFacets
<1>4. k \in DOMAIN c => IsEntry(AskedFor(c[k]), FacetsAnswers)
  BY <1>1, <1>3, EntriesTyped
<1>5. IsEntry(Pending(Absent), FacetsAnswers)  BY NewEntry
<1>6. \A l \in DOMAIN a : IsEntry(a[l], FacetsAnswers)  BY <1>2, <1>3, <1>4, <1>5
<1>7. DOMAIN a \subseteq FacetsKeys  BY <1>2 DEF IsFacets
<1> QED  BY <1>2, <1>6, <1>7 DEF IsFacets, a

-----------------------------------------------------------------------------
(* One rendering.                                                          *)

(* What a rendering leaves as it was.                                      *)
SameChoices(v, u) ==
    /\ v.tab = u.tab /\ v.active = u.active /\ v.draft = u.draft /\ v.sheet = u.sheet
    /\ v.options = u.options /\ v.known = u.known

LEMMA ListTyped ==
    ASSUME NEW k \in Keys, NEW c, IsCache(c), k \in DOMAIN c, NEW last, IsList(last)
    PROVE  /\ IsList(HookData(k, c, last))
           /\ c[k].status = "ok" => HookData(k, c, last) = [id |-> k, rec |-> c[k].data]
           /\ c[k].data # Nothing => HookData(k, c, last) # Nothing
           /\ \/ HookData(k, c, last) = last
              \/ c[k].data # Nothing /\ HookData(k, c, last) = [id |-> k, rec |-> c[k].data]
<1>1. IsEntry(c[k], Answers)  BY DEF IsCache
<1>2. Nothing \notin Answers /\ Nothing \notin [id : Keys, rec : Answers]  BY NothingIsApart
<1>3. c[k].data # Nothing =>
          /\ [id |-> k, rec |-> c[k].data] \in [id : Keys, rec : Answers]
          /\ [id |-> k, rec |-> c[k].data] # Nothing
  BY <1>1, <1>2 DEF IsEntry
<1>4. c[k].status = "ok" => c[k].data # Nothing  BY <1>1, <1>2 DEF IsEntry
<1> QED  BY <1>3, <1>4 DEF HookData, IsList

LEMMA TotalTyped ==
    ASSUME NEW list, IsList(list)
    PROVE  Total(list) \in Nat
BY DEF IsList, Total, Answers

LEMMA ShownTotal ==
    ASSUME NEW k \in Keys, NEW d \in Answers
    PROVE  Total([id |-> k, rec |-> d]) = d.total
<1>1. [id |-> k, rec |-> d] \in [id : Keys, rec : Answers]  OBVIOUS
<1> QED  BY <1>1, NothingIsApart DEF Total

(* The page that a rendering ends with: an earlier one, or the same when   *)
(* that is not past the end.                                               *)
LEMMA NextPage ==
    ASSUME NEW u, u.page \in Nat \ {0}, NEW total \in Nat, NEW changed \in BOOLEAN,
           NEW page, page = IF MovedBack(u, total) THEN Pages(total)
                            ELSE IF changed THEN 1 ELSE u.page
    PROVE  /\ page \in Nat \ {0} /\ page <= u.page
           /\ page = u.page => ~MovedBack(u, total)
<1>1. CASE MovedBack(u, total)
  <2>1. total > 0 /\ Offset(u.page) >= total  BY <1>1 DEF MovedBack
  <2>2. Pages(total) \in Nat \ {0}  BY <2>1, LastPage
  <2>3. Pages(total) < u.page  BY <2>1, PastTheEnd
  <2> QED  BY <1>1, <2>2, <2>3
<1>2. CASE ~MovedBack(u, total)  BY <1>2
<1> QED  BY <1>1, <1>2

(* What a rendering returns.                                               *)
RenderingOf(r, u, c, changed) ==
    /\ IsPage(r.ui) /\ IsCache(r.cache) /\ SameChoices(r.ui, u)
    /\ r.ui.page <= u.page
    /\ r.ui.page = u.page => Settled(r.ui, r.cache)

LEMMA RenderedTyped ==
    ASSUME NEW u, IsPage(u), NEW c, IsCache(c), NEW changed \in BOOLEAN
    PROVE  RenderingOf(Rendered(u, c, changed), u, c, changed)
<1> DEFINE k == Key(u)
           asked == Asked(c, k)
           list == HookData(k, asked, u.list)
           page == IF MovedBack(u, Total(list)) THEN Pages(Total(list))
                   ELSE IF changed THEN 1 ELSE u.page
           v == [u EXCEPT !.list = list, !.page = page]
<1>1. k \in Keys  BY KeysTyped
<1>2. IsCache(asked) /\ k \in DOMAIN asked  BY <1>1, AskedTyped
<1>3. IsList(u.list)  BY DEF IsPage, IsList
<1>4. /\ IsList(list)
      /\ asked[k].status = "ok" => list = [id |-> k, rec |-> asked[k].data]
      /\ asked[k].data # Nothing => list # Nothing
  <2> HIDE DEF k, asked
  <2> QED  BY <1>1, <1>2, <1>3, ListTyped
<1>5. Total(list) \in Nat  BY <1>4, TotalTyped
<1>6. u.page \in Nat \ {0}  BY DEF IsPage
<1>7. /\ page \in Nat \ {0} /\ page <= u.page
      /\ page = u.page => ~MovedBack(u, Total(list))
  <2> HIDE DEF list, k, asked
  <2> QED  BY <1>5, <1>6, NextPage
<1>8. Rendered(u, c, changed) = [ui |-> v, cache |-> asked]  BY DEF Rendered
<1> HIDE DEF asked, list, page
<1>9. IsPage(v) /\ SameChoices(v, u) /\ v.page = page /\ v.list = list
  BY <1>4, <1>7 DEF IsPage, IsList, SameChoices
<1>10. ASSUME page = u.page PROVE Settled(v, asked)
  <2>1. Key(v) = k  BY <1>9, <1>10 DEF Key, SameChoices
  <2>2. ~MovedBack(v, Total(list))  BY <1>7, <1>9, <1>10 DEF MovedBack
  <2> HIDE DEF v, k
  <2> QED  BY <1>2, <1>4, <1>9, <2>1, <2>2 DEF Settled
<1> HIDE DEF v, k
<1> QED  BY <1>2, <1>7, <1>8, <1>9, <1>10 DEF RenderingOf

(* Once nothing moves the page, rendering it again does not either.        *)
LEMMA StaysSettled ==
    ASSUME NEW u, IsPage(u), NEW c, IsCache(c), Settled(u, c)
    PROVE  LET r == Rendered(u, c, FALSE)
           IN  Settled(r.ui, r.cache) /\ r.ui.page = u.page
<1> DEFINE k == Key(u)
           asked == Asked(c, k)
           list == HookData(k, asked, u.list)
           page == IF MovedBack(u, Total(list)) THEN Pages(Total(list)) ELSE u.page
           v == [u EXCEPT !.list = list, !.page = page]
<1>1. k \in Keys /\ k \in DOMAIN c  BY KeysTyped DEF Settled
<1>2. asked[k] = AskedFor(c[k])  BY <1>1, AskedTyped
<1>3. IsEntry(c[k], Answers) /\ Nothing \notin Answers  BY <1>1, NothingIsApart DEF IsCache
<1>4. /\ AskedFor(c[k]).data = c[k].data
      /\ AskedFor(c[k]).status = "ok" => AskedFor(c[k]) = c[k]
      /\ c[k].status = "ok" => AskedFor(c[k]) = c[k]
  BY <1>3, EntriesTyped
<1>5. list = u.list
  <2> HIDE DEF k, asked
  <2>1. /\ c[k].status = "ok" => u.list = [id |-> k, rec |-> c[k].data]
        /\ c[k].data # Nothing => u.list # Nothing
    BY DEF Settled, k
  <2>2. CASE asked[k].status = "ok"  BY <1>2, <1>4, <2>1, <2>2 DEF HookData
  <2>3. CASE asked[k].status # "ok"  BY <1>2, <1>4, <2>1, <2>3 DEF HookData
  <2> QED  BY <2>2, <2>3
<1>6. ~MovedBack(u, Total(list))  BY <1>5 DEF Settled
<1>7. Rendered(u, c, FALSE).ui = v  BY DEF Rendered
<1>8. v.page = u.page  BY <1>6 DEF IsPage
<1> HIDE DEF v
<1>9. Rendered(u, c, FALSE).ui.page = u.page  BY <1>7, <1>8
<1>10. RenderingOf(Rendered(u, c, FALSE), u, c, FALSE)  BY RenderedTyped
<1> QED  BY <1>9, <1>10 DEF RenderingOf

-----------------------------------------------------------------------------
(* Rendering until nothing moves the page.                                 *)

(* The renderings of a page are a function on the numbers of them, and     *)
(* there is one for each number.                                           *)
Renders(u, c, changed, f, m) ==
    f = [n \in 1..m |-> IF n = 1 THEN Rendered(u, c, changed)
                        ELSE Rendered(f[n - 1].ui, f[n - 1].cache, FALSE)]

LEMMA RendersLonger ==
    ASSUME NEW u, NEW c, NEW changed, NEW m \in Nat, NEW g, Renders(u, c, changed, g, m)
    PROVE  \E f : Renders(u, c, changed, f, m + 1)
<1> DEFINE last == IF m = 0 THEN Rendered(u, c, changed)
                   ELSE Rendered(g[m].ui, g[m].cache, FALSE)
           f == [n \in 1..(m + 1) |-> IF n = m + 1 THEN last ELSE g[n]]
<1>1. g = [n \in 1..m |-> IF n = 1 THEN Rendered(u, c, changed)
                          ELSE Rendered(g[n - 1].ui, g[n - 1].cache, FALSE)]
  BY DEF Renders
<1>2. ASSUME NEW n \in 1..(m + 1)
      PROVE  f[n] = IF n = 1 THEN Rendered(u, c, changed)
                    ELSE Rendered(f[n - 1].ui, f[n - 1].cache, FALSE)
  <2>1. f[n] = IF n = m + 1 THEN last ELSE g[n]  OBVIOUS
  <2>2. n # 1 => n - 1 \in 1..(m + 1) /\ n - 1 # m + 1  OBVIOUS
  <2>3. n # 1 => f[n - 1] = g[n - 1]  BY <2>2
  <2> HIDE DEF f
  <2>4. CASE n = m + 1
    <3>1. n = 1 <=> m = 0  BY <2>4
    <3>2. m = n - 1  BY <2>4
    <3> QED  BY <2>1, <2>3, <2>4, <3>1, <3>2
  <2>5. CASE n # m + 1
    <3>1. n \in 1..m  BY <2>5
    <3>2. g[n] = IF n = 1 THEN Rendered(u, c, changed)
                 ELSE Rendered(g[n - 1].ui, g[n - 1].cache, FALSE)
      BY <1>1, <3>1
    <3> QED  BY <2>1, <2>3, <2>5, <3>2
  <2> QED  BY <2>4, <2>5
<1>3. DOMAIN f = 1..(m + 1) /\ f = [n \in DOMAIN f |-> f[n]]  OBVIOUS
<1> HIDE DEF f
<1>4. f = [n \in 1..(m + 1) |-> IF n = 1 THEN Rendered(u, c, changed)
                                ELSE Rendered(f[n - 1].ui, f[n - 1].cache, FALSE)]
  BY <1>2, <1>3
<1> QED  BY <1>4 DEF Renders

LEMMA RendersExist ==
    ASSUME NEW u, NEW c, NEW changed, NEW m \in Nat
    PROVE  \E f : Renders(u, c, changed, f, m)
<1> DEFINE Bad == {n \in Nat : ~ \E f : Renders(u, c, changed, f, n)}
<1>1. SUFFICES ASSUME Bad # {} PROVE FALSE  OBVIOUS
<1>2. PICK n \in Bad : \A x \in Bad : n <= x
  <2> DEFINE id == [x \in Bad |-> x]
  <2>1. id \in [Bad -> Nat]  OBVIOUS
  <2>2. PICK n \in Bad : \A x \in Bad : id[n] <= id[x]
    <3> HIDE DEF Bad, id
    <3> QED  BY <1>1, <2>1, Least
  <2> QED  BY <2>2
<1>3. n # 0
  <2> DEFINE f == [x \in {} |-> x]
  <2>1. f = [x \in 1..0 |-> IF x = 1 THEN Rendered(u, c, changed)
                            ELSE Rendered(f[x - 1].ui, f[x - 1].cache, FALSE)]
    OBVIOUS
  <2>2. Renders(u, c, changed, f, 0)
    <3> HIDE DEF f
    <3> QED  BY <2>1 DEF Renders
  <2> QED  BY <2>2
<1>4. n - 1 \in Nat /\ n - 1 \notin Bad
  <2>1. n \in Nat  OBVIOUS
  <2>2. n - 1 \in Nat /\ ~(n <= n - 1)  BY <1>3, <2>1
  <2> HIDE DEF Bad
  <2> QED  BY <1>2, <2>2
<1>5. PICK g : Renders(u, c, changed, g, n - 1)  BY <1>4
<1>6. \E f : Renders(u, c, changed, f, (n - 1) + 1)  BY <1>4, <1>5, RendersLonger
<1>7. (n - 1) + 1 = n  OBVIOUS
<1> QED  BY <1>6, <1>7

(* After n renderings, the first of which ended with p, the page is        *)
(* settled, or n pages have been left.                                     *)
Nearer(r, u, p, n) ==
    /\ IsPage(r.ui) /\ IsCache(r.cache) /\ SameChoices(r.ui, u)
    /\ r.ui.page <= p
    /\ Settled(r.ui, r.cache) \/ r.ui.page + n <= u.page

LEMMA FirstNearer ==
    ASSUME NEW u, IsPage(u), NEW c, IsCache(c), NEW changed \in BOOLEAN
    PROVE  Nearer(Rendered(u, c, changed), u, Rendered(u, c, changed).ui.page, 1)
<1> DEFINE r == Rendered(u, c, changed)
<1>1. RenderingOf(r, u, c, changed)  BY RenderedTyped
<1> HIDE DEF r
<1>2. u.page \in Nat /\ r.ui.page \in Nat  BY <1>1 DEF RenderingOf, IsPage
<1>3. Settled(r.ui, r.cache) \/ r.ui.page + 1 <= u.page
  BY <1>1, <1>2 DEF RenderingOf
<1>4. r.ui.page <= r.ui.page  BY <1>2
<1> QED  BY <1>1, <1>3, <1>4 DEF RenderingOf, Nearer, r

LEMMA NextNearer ==
    ASSUME NEW u, IsPage(u), NEW r, NEW p \in Nat, NEW n \in Nat,
           Nearer(r, u, p, n)
    PROVE  Nearer(Rendered(r.ui, r.cache, FALSE), u, p, n + 1)
<1> DEFINE s == Rendered(r.ui, r.cache, FALSE)
<1>1. IsPage(r.ui) /\ IsCache(r.cache)  BY DEF Nearer
<1>2. RenderingOf(s, r.ui, r.cache, FALSE)  BY <1>1, RenderedTyped
<1>3. Settled(r.ui, r.cache) => Settled(s.ui, s.cache)  BY <1>1, StaysSettled
<1> HIDE DEF s
<1>4. u.page \in Nat /\ r.ui.page \in Nat /\ s.ui.page \in Nat
  BY <1>1, <1>2 DEF RenderingOf, IsPage
<1>5. Settled(s.ui, s.cache) \/ s.ui.page + (n + 1) <= u.page
  <2>1. CASE Settled(r.ui, r.cache)  BY <1>3, <2>1
  <2>2. CASE r.ui.page + n <= u.page
    <3>1. s.ui.page <= r.ui.page /\ (s.ui.page = r.ui.page => Settled(s.ui, s.cache))
      BY <1>2 DEF RenderingOf
    <3> QED  BY <1>4, <2>2, <3>1
  <2> QED  BY <2>1, <2>2 DEF Nearer
<1>6. SameChoices(s.ui, u)  BY <1>2 DEF RenderingOf, Nearer, SameChoices
<1>7. s.ui.page <= p
  <2>1. s.ui.page <= r.ui.page /\ r.ui.page <= p  BY <1>2 DEF RenderingOf, Nearer
  <2> QED  BY <1>4, <2>1
<1> QED  BY <1>2, <1>5, <1>6, <1>7 DEF RenderingOf, Nearer, s

LEMMA RendersNearer ==
    ASSUME NEW u, IsPage(u), NEW c, IsCache(c), NEW changed \in BOOLEAN,
           NEW m \in Nat, NEW f, Renders(u, c, changed, f, m)
    PROVE  \A n \in 1..m : Nearer(f[n], u, Rendered(u, c, changed).ui.page, n)
<1> DEFINE p == Rendered(u, c, changed).ui.page
           Bad == {n \in 1..m : ~Nearer(f[n], u, p, n)}
<1>1. SUFFICES ASSUME Bad # {} PROVE FALSE  OBVIOUS
<1>2. PICK n \in Bad : \A x \in Bad : n <= x
  <2> DEFINE id == [x \in Bad |-> x]
  <2>1. id \in [Bad -> Nat]  OBVIOUS
  <2>2. PICK n \in Bad : \A x \in Bad : id[n] <= id[x]
    <3> HIDE DEF Bad, id
    <3> QED  BY <1>1, <2>1, Least
  <2> QED  BY <2>2
<1>3. n \in 1..m /\ ~Nearer(f[n], u, p, n)  BY <1>2
<1>4. f[n] = IF n = 1 THEN Rendered(u, c, changed)
             ELSE Rendered(f[n - 1].ui, f[n - 1].cache, FALSE)
  BY <1>3 DEF Renders
<1>5. n # 1  BY <1>3, <1>4, FirstNearer
<1>6. n - 1 \in 1..m /\ n - 1 \in Nat /\ (n - 1) + 1 = n /\ ~(n <= n - 1)  BY <1>3, <1>5
<1>7. n - 1 \notin Bad
  <2> HIDE DEF Bad
  <2> QED  BY <1>2, <1>6
<1>8. Nearer(f[n - 1], u, p, n - 1)  BY <1>6, <1>7
<1>9. p \in Nat
  <2>1. RenderingOf(Rendered(u, c, changed), u, c, changed)  BY RenderedTyped
  <2> QED  BY <2>1 DEF RenderingOf, IsPage
<1>10. Nearer(Rendered(f[n - 1].ui, f[n - 1].cache, FALSE), u, p, (n - 1) + 1)
  <2> HIDE DEF p
  <2> QED  BY <1>6, <1>8, <1>9, NextNearer
<1> QED  BY <1>3, <1>4, <1>5, <1>6, <1>10

(* What has become of a page when it is settled.                           *)
SettledFrom(r, u, p) ==
    /\ IsPage(r.ui) /\ IsCache(r.cache) /\ SameChoices(r.ui, u)
    /\ Settled(r.ui, r.cache)
    /\ r.ui.page <= p

LEMMA ListedAs ==
    ASSUME NEW u, IsPage(u), NEW c, NEW changed
    PROVE  \E f : Renders(u, c, changed, f, u.page) /\ Listed(u, c, changed) = f[u.page]
<1>1. u.page \in Nat  BY DEF IsPage
<1> DEFINE g == CHOOSE f : f = [n \in 1..u.page |->
                    IF n = 1 THEN Rendered(u, c, changed)
                    ELSE Rendered(f[n - 1].ui, f[n - 1].cache, FALSE)]
<1>2. \E f : f = [n \in 1..u.page |->
                    IF n = 1 THEN Rendered(u, c, changed)
                    ELSE Rendered(f[n - 1].ui, f[n - 1].cache, FALSE)]
  <2>1. PICK h : Renders(u, c, changed, h, u.page)  BY <1>1, RendersExist
  <2> QED  BY <2>1 DEF Renders
<1>3. Renders(u, c, changed, g, u.page)  BY <1>2 DEF Renders
<1>4. Listed(u, c, changed) = g[u.page]  BY DEF Listed
<1> QED  BY <1>3, <1>4

LEMMA ListedSettles ==
    ASSUME NEW u, IsPage(u), NEW c, IsCache(c), NEW changed \in BOOLEAN
    PROVE  SettledFrom(Listed(u, c, changed), u, Rendered(u, c, changed).ui.page)
<1>1. u.page \in Nat \ {0}  BY DEF IsPage
<1>2. PICK f : Renders(u, c, changed, f, u.page) /\ Listed(u, c, changed) = f[u.page]
  BY ListedAs
<1> DEFINE r == f[u.page]
           p == Rendered(u, c, changed).ui.page
<1>3. Nearer(r, u, p, u.page)  BY <1>1, <1>2, RendersNearer
<1> HIDE DEF r, p
<1>4. Settled(r.ui, r.cache)
  <2>1. r.ui.page \in Nat \ {0}  BY <1>3 DEF Nearer, IsPage
  <2>2. ~(r.ui.page + u.page <= u.page)  BY <1>1, <2>1
  <2> QED  BY <1>3, <2>2 DEF Nearer
<1>5. SettledFrom(r, u, p)  BY <1>3, <1>4 DEF Nearer, SettledFrom
<1> QED  BY <1>2, <1>5 DEF r, p

(* Other filters begin at the first page, unless the entry of the page     *)
(* that was open holds an answer that ends before it.                      *)
LEMMA ListedFirst ==
    ASSUME NEW u, IsPage(u), NEW c, IsCache(c), ~MovedBack(u, Total(u.list))
    PROVE  \/ Listed(u, c, TRUE).ui.page = 1
           \/ /\ Key(u) \in DOMAIN c /\ c[Key(u)].data # Nothing
              /\ Offset(u.page) >= c[Key(u)].data.total
<1> DEFINE k == Key(u)
           asked == Asked(c, k)
           list == HookData(k, asked, u.list)
<1>1. k \in Keys /\ IsList(u.list)  BY KeysTyped DEF IsPage, IsList
<1>2. /\ IsCache(asked) /\ k \in DOMAIN asked
      /\ asked[k].data # Nothing => k \in DOMAIN c /\ c[k].data = asked[k].data
  BY <1>1, AskedTyped
<1>3. u.page \in Nat \ {0}  BY DEF IsPage
<1> HIDE DEF asked, k
<1>4. /\ IsList(list)
      /\ \/ list = u.list
         \/ asked[k].data # Nothing /\ list = [id |-> k, rec |-> asked[k].data]
  BY <1>1, <1>2, ListTyped
<1>5. CASE MovedBack(u, Total(list))
  <2>1. asked[k].data # Nothing /\ list = [id |-> k, rec |-> asked[k].data]
    BY <1>4, <1>5
  <2>2. asked[k].data \in Answers  BY <1>2, <2>1 DEF IsCache, IsEntry
  <2>3. Total(list) = asked[k].data.total  BY <1>1, <2>1, <2>2, ShownTotal
  <2>4. Offset(u.page) >= c[k].data.total  BY <1>2, <1>5, <2>1, <2>3 DEF MovedBack
  <2> QED  BY <1>2, <2>1, <2>4 DEF k
<1>6. CASE ~MovedBack(u, Total(list))
  <2>1. Rendered(u, c, TRUE).ui.page = 1
    BY <1>3, <1>6 DEF Rendered, IsPage, asked, k
  <2>2. SettledFrom(Listed(u, c, TRUE), u, Rendered(u, c, TRUE).ui.page)
    BY ListedSettles
  <2> DEFINE last == Listed(u, c, TRUE).ui.page
  <2>3. last <= 1 /\ last \in Nat \ {0}
    BY <2>1, <2>2 DEF SettledFrom, IsPage
  <2> HIDE DEF last
  <2>4. last = 1  BY <2>3
  <2> QED  BY <2>4 DEF last
<1> QED  BY <1>5, <1>6

-----------------------------------------------------------------------------
(* The inductive invariant.                                                *)

Types ==
    /\ kind \in {"client", "device"}
    /\ status \in [{t.id : t \in Archive} -> {"closed", "inWork", ""}]
    /\ used \in [choices : Nat, turmoil : Nat]
    /\ IsPage(ui) /\ IsCache(cache) /\ IsFacets(facets)
    /\ IsListReads(listReads) /\ IsFacetsReads(facetsReads)

(* The page has rendered: both queries are subscribed to, and the list is  *)
(* settled.                                                                *)
Shown == FacetsKey(ui) \in DOMAIN facets /\ Settled(ui, cache)

(* Every client that is or was an option is remembered, and so the one     *)
(* that is selected is.                                                    *)
Chosen(u) == kind # "client" => u.draft.other \in {""} \cup u.known

Offered ==
    /\ Chosen(ui)
    /\ kind # "client" /\ ui.options # Nothing => ui.options.rec.others \subseteq ui.known

Truth == Types /\ Shown /\ Offered

LEMMA OptionsTyped ==
    ASSUME NEW k \in FacetsKeys, NEW c, IsFacets(c), k \in DOMAIN c,
           NEW last, IsOptions(last)
    PROVE  IsOptions(HookData(k, c, last))
<1>1. IsEntry(c[k], FacetsAnswers)  BY DEF IsFacets
<1>2. Nothing \notin FacetsAnswers  BY NothingIsApart
<1>3. c[k].data # Nothing => [id |-> k, rec |-> c[k].data] \in [id : FacetsKeys, rec : FacetsAnswers]
  BY <1>1, <1>2 DEF IsEntry
<1>4. c[k].status = "ok" => c[k].data # Nothing  BY <1>1, <1>2 DEF IsEntry
<1> QED  BY <1>3, <1>4 DEF HookData, IsOptions

(* What an event that ends with a rendering leaves.                        *)
ShownAs(u, c, changed) ==
    /\ IsPage(ui') /\ IsCache(cache') /\ IsFacets(facets')
    /\ Shown' /\ Offered'
    /\ ui'.tab = u.tab /\ ui'.active = u.active
    /\ ui'.page = Listed(u, c, changed).ui.page

LEMMA ShowStep ==
    ASSUME NEW u, IsPage(u), NEW c, IsCache(c), NEW fc, IsFacets(fc),
           NEW changed \in BOOLEAN, Chosen(u), Show(u, c, fc, changed), kind' = kind
    PROVE  ShownAs(u, c, changed)
<1> DEFINE listed == Listed(u, c, changed)
           k == FacetsKey(u)
           asked == Asked(fc, k)
           options == HookData(k, asked, u.options)
           known == Remembered(u, options)
<1>1. /\ ui' = [listed.ui EXCEPT !.options = options, !.known = known]
      /\ cache' = listed.cache /\ facets' = asked
  BY DEF Show
<1>2. SettledFrom(listed, u, Rendered(u, c, changed).ui.page)  BY ListedSettles
<1>3. k \in FacetsKeys /\ IsOptions(u.options)  BY KeysTyped DEF IsPage, IsOptions
<1>4. IsFacets(asked) /\ k \in DOMAIN asked  BY <1>3, FacetsAsked
<1>5. IsOptions(options)
  <2> HIDE DEF k, asked
  <2> QED  BY <1>3, <1>4, OptionsTyped
<1> HIDE DEF listed, asked, options
<1>6. /\ known \subseteq Others /\ u.known \subseteq known
      /\ kind # "client" /\ options # Nothing => options.rec.others \subseteq known
  BY <1>5 DEF Remembered, IsOptions, FacetsAnswers, IsPage
<1> HIDE DEF known, k
<1>7. IsPage(listed.ui) /\ SameChoices(listed.ui, u) /\ Settled(listed.ui, listed.cache)
  BY <1>2 DEF SettledFrom
<1>8. /\ IsPage(ui')
      /\ ui'.tab = u.tab /\ ui'.active = u.active /\ ui'.draft = u.draft
      /\ ui'.page = listed.ui.page /\ ui'.list = listed.ui.list
      /\ ui'.options = options /\ ui'.known = known
  BY <1>1, <1>5, <1>6, <1>7 DEF IsPage, IsOptions, SameChoices
<1>9. Settled(ui', cache')
  <2>1. listed.ui.tab = u.tab /\ listed.ui.active = u.active  BY <1>7 DEF SameChoices
  <2>2. Key(ui') = Key(listed.ui)  BY <1>8, <2>1 DEF Key
  <2>3. MovedBack(ui', Total(ui'.list)) = MovedBack(listed.ui, Total(listed.ui.list))
    BY <1>8 DEF MovedBack
  <2> QED  BY <1>1, <1>7, <1>8, <2>2, <2>3 DEF Settled
<1>10. FacetsKey(ui') \in DOMAIN facets'
  <2>1. FacetsKey(ui') = k  BY <1>8 DEF FacetsKey, k
  <2> QED  BY <1>1, <1>4, <2>1
<1>11. Offered'  BY <1>6, <1>8 DEF Offered, Chosen
<1>12. IsCache(cache') /\ IsFacets(facets')  BY <1>1, <1>2, <1>4 DEF SettledFrom
<1> QED  BY <1>8, <1>9, <1>10, <1>11, <1>12 DEF ShownAs, Shown, listed

-----------------------------------------------------------------------------
(* The steps of the user.                                                  *)

LEMMA UseTyped ==
    ASSUME Types, NEW what \in {"choices", "turmoil"}, Use(what)
    PROVE  used' \in [choices : Nat, turmoil : Nat]
<1>1. used \in [choices : Nat, turmoil : Nat] /\ used' = [used EXCEPT ![what] = @ + 1]
  BY DEF Types, Use
<1>2. CASE what = "choices"  BY <1>1, <1>2
<1>3. CASE what = "turmoil"  BY <1>1, <1>3
<1> QED  BY <1>2, <1>3

(* A step that ends with a rendering of the new local state u.             *)
LEMMA Delivered ==
    ASSUME Truth, NEW u, IsPage(u), Chosen(u), NEW c, IsCache(c), NEW fc, IsFacets(fc),
           NEW changed \in BOOLEAN, Show(u, c, fc, changed), UNCHANGED <<kind, status>>,
           IsListReads(listReads'), IsFacetsReads(facetsReads'),
           used' \in [choices : Nat, turmoil : Nat]
    PROVE  Truth' /\ ShownAs(u, c, changed)
<1>1. ShownAs(u, c, changed)  BY ShowStep
<1> QED  BY <1>1 DEF Truth, Types, ShownAs

LEMMA Rerendered ==
    ASSUME Truth, NEW u, IsPage(u), Chosen(u), NEW c, IsCache(c), NEW fc, IsFacets(fc),
           NEW changed \in BOOLEAN, Show(u, c, fc, changed), UNCHANGED serverVars,
           used' \in [choices : Nat, turmoil : Nat]
    PROVE  Truth' /\ ShownAs(u, c, changed)
<1>1. UNCHANGED <<kind, status, listReads, facetsReads>>  BY DEF serverVars
<1>2. IsListReads(listReads') /\ IsFacetsReads(facetsReads')  BY <1>1 DEF Truth, Types
<1> QED  BY <1>1, <1>2, Delivered

LEMMA OpenedTyped == IsPage(Opened) /\ Chosen(Opened)
<1>1. NoFilter \in Filters /\ NoFilter.other = ""  BY DEF NoFilter, Filters
<1>2. "closed" \in Tabs /\ 1 \in Nat \ {0} /\ FALSE \in BOOLEAN  BY DEF Tabs
<1>3. {} \subseteq Others  OBVIOUS
<1>4. IsPage(Opened)  BY <1>1, <1>2, <1>3 DEF Opened, IsPage
<1>5. Opened.draft = NoFilter  BY DEF Opened
<1> QED  BY <1>1, <1>4, <1>5 DEF Chosen

LEMMA ReopenStep ==
    ASSUME Truth, Reopen
    PROVE  Truth' /\ ShownAs(Opened, cache, FALSE)
<1>1. used' \in [choices : Nat, turmoil : Nat]  BY UseTyped DEF Truth, Reopen
<1>2. IsCache(cache) /\ IsFacets(facets)  BY DEF Truth, Types
<1>3. Show(Opened, cache, facets, FALSE) /\ UNCHANGED serverVars  BY DEF Reopen
<1> QED  BY <1>1, <1>2, <1>3, OpenedTyped, Rerendered

LEMMA ChooseTabStep ==
    ASSUME Truth, NEW tab \in Tabs, ChooseTab(tab)
    PROVE  Truth' /\ ShownAs([ui EXCEPT !.tab = tab], cache, TRUE)
<1> DEFINE u == [ui EXCEPT !.tab = tab]
<1>1. used' \in [choices : Nat, turmoil : Nat]  BY UseTyped DEF Truth, ChooseTab
<1>2. IsCache(cache) /\ IsFacets(facets) /\ IsPage(ui) /\ Chosen(ui)
  BY DEF Truth, Types, Offered
<1>3. IsPage(u) /\ Chosen(u) /\ u.tab # ui.tab
  BY <1>2 DEF IsPage, Chosen, ChooseTab
<1>4. FilterChanged(ui, u) = TRUE  BY <1>3 DEF FilterChanged
<1>5. Show(u, cache, facets, FilterChanged(ui, u)) /\ UNCHANGED serverVars
  BY DEF ChooseTab
<1> HIDE DEF u
<1>6. Show(u, cache, facets, TRUE)  BY <1>4, <1>5
<1>7. Truth' /\ ShownAs(u, cache, TRUE)  BY <1>1, <1>2, <1>3, <1>5, <1>6, Rerendered
<1> QED  BY <1>7 DEF u

LEMMA ApplyStep ==
    ASSUME Truth, Apply
    PROVE  LET u == [ui EXCEPT !.active = ui.draft, !.sheet = FALSE]
           IN  Truth' /\ ShownAs(u, cache, u.active # ui.active)
<1> DEFINE u == [ui EXCEPT !.active = ui.draft, !.sheet = FALSE]
<1>1. used' \in [choices : Nat, turmoil : Nat]  BY UseTyped DEF Truth, Apply
<1>2. IsCache(cache) /\ IsFacets(facets) /\ IsPage(ui) /\ Chosen(ui)
  BY DEF Truth, Types, Offered
<1>3. IsPage(u) /\ Chosen(u) /\ u.tab = ui.tab
  BY <1>2 DEF IsPage, Chosen
<1>4. FilterChanged(ui, u) = (u.active # ui.active)  BY <1>3 DEF FilterChanged
<1>5. Show(u, cache, facets, FilterChanged(ui, u)) /\ UNCHANGED serverVars
  BY DEF Apply
<1> HIDE DEF u
<1>6. Show(u, cache, facets, u.active # ui.active)  BY <1>4, <1>5
<1>7. (u.active # ui.active) \in BOOLEAN  OBVIOUS
<1>8. Truth' /\ ShownAs(u, cache, u.active # ui.active)
  BY ONLY Truth, <1>1, <1>2, <1>3, <1>5, <1>6, <1>7, Rerendered
<1> QED  BY <1>8 DEF u

LEMMA TurnPageStep ==
    ASSUME Truth, NEW direction \in {1, -1}, TurnPage(direction)
    PROVE  Truth' /\ ui'.active = ui.active /\ ui'.tab = ui.tab
<1> DEFINE page == ui.page + direction
           u == [ui EXCEPT !.page = page]
<1>1. used' \in [choices : Nat, turmoil : Nat]  BY UseTyped DEF Truth, TurnPage
<1>2. IsCache(cache) /\ IsFacets(facets) /\ IsPage(ui) /\ Chosen(ui)
  BY DEF Truth, Types, Offered
<1>3. page \in Nat \ {0}
  <2>1. ui.page \in Nat \ {0}  BY <1>2 DEF IsPage
  <2>2. direction = 1 \/ (direction = -1 /\ ui.page > 1)  BY DEF TurnPage
  <2> QED  BY <2>1, <2>2
<1>4. Show(u, cache, facets, FALSE) /\ UNCHANGED serverVars  BY DEF TurnPage
<1> HIDE DEF page
<1>5. IsPage(u) /\ Chosen(u) /\ u.active = ui.active /\ u.tab = ui.tab
  BY <1>2, <1>3 DEF IsPage, Chosen
<1> HIDE DEF u
<1>6. Truth' /\ ShownAs(u, cache, FALSE)  BY <1>1, <1>2, <1>4, <1>5, Rerendered
<1> QED  BY <1>5, <1>6 DEF ShownAs

LEMMA DraftStep ==
    ASSUME Truth, NEW field \in {"reason", "other"},
           NEW value \in {""} \cup (IF field = "reason" THEN Reasons ELSE Others),
           Draft(field, value)
    PROVE  Truth' /\ ui'.active = ui.active /\ ui'.tab = ui.tab
<1> DEFINE u == [ui EXCEPT !.draft[field] = value]
<1>1. used' \in [choices : Nat, turmoil : Nat]  BY UseTyped DEF Truth, Draft
<1>2. IsCache(cache) /\ IsFacets(facets) /\ IsPage(ui) /\ Offered
  BY DEF Truth, Types
<1>3. IsPage(u) /\ u.active = ui.active /\ u.tab = ui.tab /\ u.known = ui.known
  BY <1>2 DEF IsPage, Filters
<1>4. Chosen(u)
  <2>1. CASE field = "reason"
    <3>1. u.draft.other = ui.draft.other  BY <1>2, <2>1 DEF IsPage, Filters
    <3> QED  BY <1>2, <1>3, <3>1 DEF Chosen, Offered
  <2>2. CASE field = "other"
    <3>1. u.draft.other = value  BY <1>2, <2>2 DEF IsPage, Filters
    <3>2. SUFFICES ASSUME kind # "client" PROVE value \in {""} \cup ui.known
      BY <1>3, <3>1 DEF Chosen
    <3>3. value = "" \/ value \in ClientOptions
      BY <2>2, <3>2 DEF Draft, OtherOptions
    <3>4. Options("other") \subseteq ui.known
      BY <1>2, <3>2 DEF Options, Offered
    <3>5. {ui.draft.other} \cap ui.known \subseteq ui.known  OBVIOUS
    <3> QED  BY <3>3, <3>4, <3>5 DEF ClientOptions
  <2> QED  BY <2>1, <2>2
<1>5. Show(u, cache, facets, FALSE) /\ UNCHANGED serverVars  BY DEF Draft
<1> HIDE DEF u
<1>6. Truth' /\ ShownAs(u, cache, FALSE)  BY <1>1, <1>2, <1>3, <1>4, <1>5, Rerendered
<1> QED  BY <1>3, <1>6 DEF ShownAs

LEMMA ResetStep ==
    ASSUME Truth, ResetDraft
    PROVE  Truth' /\ ui'.active = ui.active /\ ui'.tab = ui.tab
<1> DEFINE u == [ui EXCEPT !.draft = NoFilter]
<1>1. used' \in [choices : Nat, turmoil : Nat]  BY UseTyped DEF Truth, ResetDraft
<1>2. IsCache(cache) /\ IsFacets(facets) /\ IsPage(ui)  BY DEF Truth, Types
<1>3. IsPage(u) /\ Chosen(u) /\ u.active = ui.active /\ u.tab = ui.tab
  BY <1>2 DEF IsPage, Chosen, NoFilter, Filters
<1>4. Show(u, cache, facets, FALSE) /\ UNCHANGED serverVars  BY DEF ResetDraft
<1> HIDE DEF u
<1>5. Truth' /\ ShownAs(u, cache, FALSE)  BY <1>1, <1>2, <1>3, <1>4, Rerendered
<1> QED  BY <1>3, <1>5 DEF ShownAs

LEMMA SheetStep ==
    ASSUME Truth, OpenSheet \/ CloseSheet
    PROVE  Truth' /\ ui'.active = ui.active /\ ui'.tab = ui.tab
<1>1. PICK open \in BOOLEAN : ui' = [ui EXCEPT !.sheet = open]
  BY DEF OpenSheet, CloseSheet
<1>2. UNCHANGED <<kind, status, listReads, facetsReads, cache, facets, used>>
  BY DEF OpenSheet, CloseSheet, serverVars
<1>3. IsPage(ui)  BY DEF Truth, Types
<1>4. /\ IsPage(ui')
      /\ ui'.tab = ui.tab /\ ui'.active = ui.active /\ ui'.draft = ui.draft
      /\ ui'.page = ui.page /\ ui'.list = ui.list /\ ui'.options = ui.options
      /\ ui'.known = ui.known
  BY <1>1, <1>3 DEF IsPage
<1>5. Types'  BY <1>2, <1>4 DEF Truth, Types
<1>6. Key(ui') = Key(ui) /\ FacetsKey(ui') = FacetsKey(ui)  BY <1>4 DEF Key, FacetsKey
<1>7. MovedBack(ui', Total(ui'.list)) = MovedBack(ui, Total(ui.list))
  BY <1>4 DEF MovedBack
<1>8. Shown'  BY <1>2, <1>4, <1>6, <1>7 DEF Truth, Shown, Settled
<1>9. Offered'  BY <1>2, <1>4 DEF Truth, Offered, Chosen
<1> QED  BY <1>4, <1>5, <1>8, <1>9 DEF Truth

-----------------------------------------------------------------------------
(* The steps of the network and of the others.                             *)

LEMMA FoundTyped ==
    ASSUME NEW tab, NEW f
    PROVE  /\ Found(tab, f) \in SUBSET Archive
           /\ {t.reason : t \in Found(tab, f)} \subseteq Reasons
           /\ {t.other : t \in Found(tab, f)} \subseteq Others
BY DEF Found, Reasons, Others

LEMMA PageFits ==
    ASSUME NEW k \in Keys, NEW counted \in SUBSET Archive
    PROVE  Fits(k, PageOf(k, counted))
<1> DEFINE found == Found(k.tab, k.filters)
           Before(t) == Cardinality({s \in found : s.id > t.id})
           first == (k.page - 1) * PageSize
           torn == ~(counted \subseteq found)
<1>1. found \in SUBSET Archive  BY FoundTyped
<1>2. /\ IsFiniteSet(found) /\ Cardinality(found) \in Nat
      /\ IsFiniteSet(counted) /\ Cardinality(counted) \in Nat
  BY <1>1, TicketsHaveIds, FS_Subset, FS_CardinalityType
<1>3. PageOf(k, counted) =
          [items |-> {t \in found : Before(t) \in first..(first + PageSize - 1)},
           total |-> Cardinality(counted),
           torn |-> torn]
  BY DEF PageOf
<1>4. PageOf(k, counted) \in Answers
  <2>1. torn \in BOOLEAN  OBVIOUS
  <2> HIDE DEF torn
  <2> QED  BY <1>1, <1>2, <1>3, <2>1 DEF Answers
<1>5. PageSize \in Nat \ {0} /\ k.page \in Nat \ {0}  BY PageIsPositive DEF Keys
<1>6. first \in Nat /\ first = Offset(k.page)
  <2>1. k.page - 1 \in Nat  BY <1>5
  <2> QED  BY <1>5, <2>1 DEF Offset
<1>7. torn \/ Cardinality(counted) <= Cardinality(found)  BY <1>2, FS_Subset
<1> HIDE DEF found, first, torn
<1>8. ASSUME first < Cardinality(counted), ~torn PROVE PageOf(k, counted).items # {}
  <2>1. first < Cardinality(found)  BY <1>2, <1>6, <1>7, <1>8
  <2>2. PICK t \in found : Cardinality(Above(found, t)) = first
    BY <1>1, <1>2, <1>6, <2>1, ThereIsOneAt
  <2>3. Before(t) = first  BY <2>2 DEF Above
  <2>4. first \in first..(first + PageSize - 1)  BY <1>5, <1>6
  <2> HIDE DEF Before
  <2>5. t \in PageOf(k, counted).items  BY <1>3, <2>3, <2>4
  <2> QED  BY <2>5
<1>9. PageOf(k, counted).total = Cardinality(counted) /\ PageOf(k, counted).torn = torn
  BY <1>3
<1> QED  BY <1>4, <1>6, <1>8, <1>9 DEF Fits

LEMMA CacheWith ==
    ASSUME NEW c, IsCache(c), NEW k \in DOMAIN c, NEW e, IsEntry(e, Answers),
           e.data # Nothing => Fits(k, e.data)
    PROVE  IsCache([c EXCEPT ![k] = e])
BY DEF IsCache

LEMMA FacetsWith ==
    ASSUME NEW c, IsFacets(c), NEW k \in DOMAIN c, NEW e, IsEntry(e, FacetsAnswers)
    PROVE  IsFacets([c EXCEPT ![k] = e])
BY DEF IsFacets

LEMMA ReadsForgotten ==
    ASSUME NEW r, NEW k
    PROVE  /\ IsListReads(r) => IsListReads(Forgotten(r, k))
           /\ IsFacetsReads(r) => IsFacetsReads(Forgotten(r, k))
BY DEF Forgotten, IsListReads, IsFacetsReads

(* What the server reads is nothing that the page sees.                    *)
LEMMA ServerStep ==
    ASSUME Truth, IsListReads(listReads'), IsFacetsReads(facetsReads'),
           UNCHANGED <<kind, status, cache, facets, ui, used>>
    PROVE  Truth' /\ ui'.active = ui.active /\ ui'.tab = ui.tab
BY DEF Truth, Types, Shown, Offered, Chosen, FacetsKey, Settled, Key, MovedBack

LEMMA CountsStep ==
    ASSUME Truth, NEW k \in DOMAIN cache, ServerCounts(k)
    PROVE  Truth' /\ ui'.active = ui.active /\ ui'.tab = ui.tab
<1> DEFINE e == [counted |-> Found(k.tab, k.filters), answer |-> Nothing]
<1>1. k \in Keys /\ IsListReads(listReads) /\ IsFacetsReads(facetsReads)
  BY DEF Truth, Types, IsCache
<1>2. /\ e \in [counted : SUBSET Archive, answer : Answers \cup {Nothing}]
      /\ e.answer = Nothing
  BY FoundTyped
<1>3. listReads' = With(listReads, k, e)  BY DEF ServerCounts
<1> HIDE DEF e
<1>4. IsListReads(listReads')  BY <1>1, <1>2, <1>3 DEF With, IsListReads
<1>5. UNCHANGED <<kind, status, facetsReads, cache, facets, ui, used>>  BY DEF ServerCounts
<1> QED  BY <1>1, <1>4, <1>5, ServerStep

LEMMA SelectsStep ==
    ASSUME Truth, NEW k, ServerSelects(k)
    PROVE  Truth' /\ ui'.active = ui.active /\ ui'.tab = ui.tab
<1> DEFINE answer == PageOf(k, listReads[k].counted)
<1>1. k \in DOMAIN listReads  BY DEF ServerSelects
<1>2. IsListReads(listReads) /\ IsFacetsReads(facetsReads)  BY DEF Truth, Types
<1>3. /\ k \in Keys
      /\ listReads[k] \in [counted : SUBSET Archive, answer : Answers \cup {Nothing}]
  BY <1>1, <1>2 DEF IsListReads
<1>4. listReads[k].counted \in SUBSET Archive  BY <1>3
<1>5. Fits(k, answer) /\ answer \in Answers
  <2>1. Fits(k, answer)  BY <1>3, <1>4, PageFits
  <2> QED  BY <2>1 DEF Fits
<1>6. listReads' = [listReads EXCEPT ![k].answer = answer]  BY DEF ServerSelects
<1> HIDE DEF answer
<1> DEFINE e == [listReads[k] EXCEPT !.answer = answer]
<1>7. /\ e \in [counted : SUBSET Archive, answer : Answers \cup {Nothing}]
      /\ e.answer = answer
  BY <1>3, <1>5
<1>8. listReads' = [listReads EXCEPT ![k] = e]  BY <1>6
<1> HIDE DEF e
<1>9. IsListReads(listReads')  BY <1>1, <1>2, <1>5, <1>7, <1>8 DEF IsListReads
<1>10. UNCHANGED <<kind, status, facetsReads, cache, facets, ui, used>>  BY DEF ServerSelects
<1> QED  BY <1>2, <1>9, <1>10, ServerStep

LEMMA ReasonsStep ==
    ASSUME Truth, NEW k, ServerReadsReasons(k)
    PROVE  Truth' /\ ui'.active = ui.active /\ ui'.tab = ui.tab
<1> DEFINE e == [reasons |-> ReasonsOf(k), answer |-> Nothing]
<1>1. k \in FacetsKeys /\ IsListReads(listReads) /\ IsFacetsReads(facetsReads)
  BY DEF Truth, Types, IsFacets, ServerReadsReasons
<1>2. e \in [reasons : SUBSET Reasons, answer : FacetsAnswers \cup {Nothing}]
  BY FoundTyped DEF ReasonsOf
<1>3. facetsReads' = With(facetsReads, k, e)  BY DEF ServerReadsReasons
<1> HIDE DEF e
<1>4. IsFacetsReads(facetsReads')  BY <1>1, <1>2, <1>3 DEF With, IsFacetsReads
<1>5. UNCHANGED <<kind, status, listReads, cache, facets, ui, used>>
  BY DEF ServerReadsReasons
<1> QED  BY <1>1, <1>4, <1>5, ServerStep

LEMMA OthersStep ==
    ASSUME Truth, NEW k, ServerReadsOthers(k)
    PROVE  Truth' /\ ui'.active = ui.active /\ ui'.tab = ui.tab
<1> DEFINE answer == [reasons |-> facetsReads[k].reasons, others |-> OthersOf(k)]
<1>1. k \in DOMAIN facetsReads  BY DEF ServerReadsOthers
<1>2. IsListReads(listReads) /\ IsFacetsReads(facetsReads)  BY DEF Truth, Types
<1>3. facetsReads[k] \in [reasons : SUBSET Reasons, answer : FacetsAnswers \cup {Nothing}]
  BY <1>1, <1>2 DEF IsFacetsReads
<1>4. answer \in FacetsAnswers
  <2>1. OthersOf(k) \subseteq Others  BY FoundTyped DEF OthersOf
  <2>2. facetsReads[k].reasons \subseteq Reasons  BY <1>3
  <2> QED  BY <2>1, <2>2 DEF FacetsAnswers
<1>5. facetsReads' = [facetsReads EXCEPT ![k].answer = answer]  BY DEF ServerReadsOthers
<1> HIDE DEF answer
<1> DEFINE e == [facetsReads[k] EXCEPT !.answer = answer]
<1>6. e \in [reasons : SUBSET Reasons, answer : FacetsAnswers \cup {Nothing}]
  BY <1>3, <1>4
<1>7. facetsReads' = [facetsReads EXCEPT ![k] = e]  BY <1>5
<1> HIDE DEF e
<1>8. IsFacetsReads(facetsReads')  BY <1>1, <1>2, <1>6, <1>7 DEF IsFacetsReads
<1>9. UNCHANGED <<kind, status, listReads, cache, facets, ui, used>>
  BY DEF ServerReadsOthers
<1> QED  BY <1>2, <1>8, <1>9, ServerStep

LEMMA ListAnsweredStep ==
    ASSUME Truth, NEW k \in DOMAIN cache, ListAnswered(k)
    PROVE  Truth' /\ ui'.active = ui.active /\ ui'.tab = ui.tab
<1> DEFINE e == Loaded(listReads[k].answer)
           c == [cache EXCEPT ![k] = e]
<1>1. /\ IsCache(cache) /\ IsFacets(facets) /\ IsPage(ui) /\ Chosen(ui)
      /\ IsListReads(listReads) /\ IsFacetsReads(facetsReads)
      /\ used \in [choices : Nat, turmoil : Nat]
  BY DEF Truth, Types, Offered
<1>2. Fits(k, listReads[k].answer)
  <2>1. k \in DOMAIN listReads /\ listReads[k].answer # Nothing  BY DEF ListAnswered
  <2> QED  BY <1>1, <2>1 DEF IsListReads
<1>3. IsEntry(e, Answers) /\ e.data = listReads[k].answer
  BY <1>2 DEF Fits, IsEntry, Loaded
<1>4. Show(ui, c, facets, FALSE) /\ UNCHANGED <<kind, status, facetsReads, used>>
  BY DEF ListAnswered
<1>5. IsListReads(listReads')  BY <1>1, ReadsForgotten DEF ListAnswered
<1> HIDE DEF e
<1>6. IsCache(c)  BY <1>1, <1>2, <1>3, CacheWith
<1> HIDE DEF c
<1>7. Truth' /\ ShownAs(ui, c, FALSE)  BY <1>1, <1>4, <1>5, <1>6, Delivered
<1> QED  BY <1>7 DEF ShownAs

LEMMA FacetsAnsweredStep ==
    ASSUME Truth, NEW k \in DOMAIN facets, FacetsAnswered(k)
    PROVE  Truth' /\ ui'.active = ui.active /\ ui'.tab = ui.tab
<1> DEFINE e == Loaded(facetsReads[k].answer)
           c == [facets EXCEPT ![k] = e]
<1>1. /\ IsCache(cache) /\ IsFacets(facets) /\ IsPage(ui) /\ Chosen(ui)
      /\ IsListReads(listReads) /\ IsFacetsReads(facetsReads)
      /\ used \in [choices : Nat, turmoil : Nat]
  BY DEF Truth, Types, Offered
<1>2. facetsReads[k].answer \in FacetsAnswers
  <2>1. k \in DOMAIN facetsReads /\ facetsReads[k].answer # Nothing  BY DEF FacetsAnswered
  <2> QED  BY <1>1, <2>1 DEF IsFacetsReads
<1>3. IsEntry(e, FacetsAnswers)  BY <1>2 DEF IsEntry, Loaded
<1>4. Show(ui, cache, c, FALSE) /\ UNCHANGED <<kind, status, listReads, used>>
  BY DEF FacetsAnswered
<1>5. IsFacetsReads(facetsReads')  BY <1>1, ReadsForgotten DEF FacetsAnswered
<1> HIDE DEF e
<1>6. IsFacets(c)  BY <1>1, <1>3, FacetsWith
<1> HIDE DEF c
<1>7. Truth' /\ ShownAs(ui, cache, FALSE)  BY <1>1, <1>4, <1>5, <1>6, Delivered
<1> QED  BY <1>7 DEF ShownAs

LEMMA QueryFailsStep ==
    ASSUME Truth, QueryFails
    PROVE  Truth' /\ ui'.active = ui.active /\ ui'.tab = ui.tab
<1>1. used' \in [choices : Nat, turmoil : Nat]  BY UseTyped DEF Truth, QueryFails
<1>2. IsCache(cache) /\ IsFacets(facets) /\ IsPage(ui) /\ Shown /\ Offered
  BY DEF Truth, Types
<1>3. UNCHANGED <<kind, status, ui>>  BY DEF QueryFails
<1>4. Types /\ Offered'  BY <1>2, <1>3 DEF Truth, Offered, Chosen
<1>5. IsListReads(listReads') /\ IsFacetsReads(facetsReads')
  <2>1. IsListReads(listReads) /\ IsFacetsReads(facetsReads)  BY DEF Truth, Types
  <2>2. /\ listReads' = listReads \/ \E k \in DOMAIN cache : listReads' = Forgotten(listReads, k)
        /\ \/ facetsReads' = facetsReads
           \/ \E k \in DOMAIN facets : facetsReads' = Forgotten(facetsReads, k)
    BY DEF QueryFails
  <2> QED  BY <2>1, <2>2, ReadsForgotten
<1>6. CASE \E k \in DOMAIN cache :
               /\ cache[k].status = "pending"
               /\ cache' = [cache EXCEPT ![k] = Failed(@)]
               /\ listReads' = Forgotten(listReads, k)
               /\ UNCHANGED <<facets, facetsReads>>
  <2>1. PICK k \in DOMAIN cache : cache' = [cache EXCEPT ![k] = Failed(cache[k])]
    BY <1>6
  <2>2. facets' = facets  BY <1>6
  <2> DEFINE e == Failed(cache[k])
  <2>3. IsEntry(cache[k], Answers) /\ (cache[k].data # Nothing => Fits(k, cache[k].data))
    BY <1>2 DEF IsCache
  <2>4. IsEntry(e, Answers) /\ e.data = cache[k].data /\ e.status = "error"
    BY <2>3, NothingIsApart, EntriesTyped
  <2>5. cache' = [cache EXCEPT ![k] = e]  BY <2>1
  <2> HIDE DEF e
  <2>6. IsCache(cache')  BY <1>2, <2>3, <2>4, <2>5, CacheWith
  <2>7. /\ DOMAIN cache' = DOMAIN cache
        /\ \A l \in DOMAIN cache : cache'[l] = IF l = k THEN e ELSE cache[l]
    BY <1>2, <2>5 DEF IsCache
  <2>8. Settled(ui', cache')
    <3>1. Key(ui') = Key(ui) /\ Key(ui) \in DOMAIN cache /\ Settled(ui, cache)
      BY <1>2, <1>3 DEF Shown, Settled, Key
    <3>2. cache'[Key(ui)].data = cache[Key(ui)].data  BY <2>4, <2>7, <3>1
    <3>3. cache'[Key(ui)].status = "ok" => cache'[Key(ui)] = cache[Key(ui)]
      BY <2>4, <2>7, <3>1
    <3> QED  BY <1>3, <2>7, <3>1, <3>2, <3>3 DEF Settled
  <2>9. Shown'  BY <1>2, <1>3, <2>2, <2>8 DEF Shown, FacetsKey
  <2> QED  BY <1>1, <1>2, <1>3, <1>4, <1>5, <2>2, <2>6, <2>9 DEF Truth, Types
<1>7. CASE \E k \in DOMAIN facets :
               /\ facets[k].status = "pending"
               /\ facets' = [facets EXCEPT ![k] = Failed(@)]
               /\ facetsReads' = Forgotten(facetsReads, k)
               /\ UNCHANGED <<cache, listReads>>
  <2>1. PICK k \in DOMAIN facets : facets' = [facets EXCEPT ![k] = Failed(facets[k])]
    BY <1>7
  <2>2. cache' = cache  BY <1>7
  <2> DEFINE e == Failed(facets[k])
  <2>3. IsEntry(facets[k], FacetsAnswers)  BY <1>2 DEF IsFacets
  <2>4. IsEntry(e, FacetsAnswers)  BY <2>3, NothingIsApart, EntriesTyped
  <2>5. facets' = [facets EXCEPT ![k] = e]  BY <2>1
  <2> HIDE DEF e
  <2>6. IsFacets(facets') /\ DOMAIN facets' = DOMAIN facets
    BY <1>2, <2>4, <2>5, FacetsWith
  <2>7. Shown'  BY <1>2, <1>3, <2>2, <2>6 DEF Shown, FacetsKey, Settled, Key, MovedBack
  <2> QED  BY <1>1, <1>2, <1>3, <1>4, <1>5, <2>2, <2>6, <2>7 DEF Truth, Types
<1> QED  BY <1>6, <1>7 DEF QueryFails

LEMMA ForgottenTyped ==
    ASSUME NEW c, NEW k, NEW l
    PROVE  /\ IsCache(c) => IsCache(Forgotten(c, k))
           /\ IsFacets(c) => IsFacets(Forgotten(c, k))
           /\ DOMAIN Forgotten(c, k) = DOMAIN c \ {k}
           /\ l \in DOMAIN c \ {k} => Forgotten(c, k)[l] = c[l]
BY DEF Forgotten, IsCache, IsFacets

LEMMA ExpireStep ==
    ASSUME Truth, Expire
    PROVE  Truth' /\ ui'.active = ui.active /\ ui'.tab = ui.tab
<1>1. used' \in [choices : Nat, turmoil : Nat]  BY UseTyped DEF Truth, Expire
<1>2. IsCache(cache) /\ IsFacets(facets) /\ IsPage(ui) /\ Shown /\ Offered
  BY DEF Truth, Types
<1>3. UNCHANGED <<kind, status, listReads, facetsReads, ui>>  BY DEF Expire, serverVars
<1>4. Types /\ Offered'  BY <1>2, <1>3 DEF Truth, Offered, Chosen
<1>5. CASE \E k \in DOMAIN cache \ {Key(ui)} :
               cache[k].status # "pending" /\ cache' = Forgotten(cache, k) /\ UNCHANGED facets
  <2>1. PICK k \in DOMAIN cache \ {Key(ui)} : cache' = Forgotten(cache, k)  BY <1>5
  <2>2. facets' = facets  BY <1>5
  <2>3. IsCache(cache')  BY <1>2, <2>1, ForgottenTyped
  <2>4. Settled(ui', cache')
    <3>1. Key(ui') = Key(ui) /\ Key(ui) \in DOMAIN cache /\ Settled(ui, cache)
      BY <1>2, <1>3 DEF Shown, Settled, Key
    <3>2. cache'[Key(ui)] = cache[Key(ui)] /\ Key(ui) \in DOMAIN cache'
      BY <2>1, <3>1, ForgottenTyped
    <3> QED  BY <1>3, <3>1, <3>2 DEF Settled
  <2>5. Shown'  BY <1>2, <1>3, <2>2, <2>4 DEF Shown, FacetsKey
  <2> QED  BY <1>1, <1>2, <1>3, <1>4, <2>2, <2>3, <2>5 DEF Truth, Types
<1>6. CASE \E k \in DOMAIN facets \ {FacetsKey(ui)} :
               facets[k].status # "pending" /\ facets' = Forgotten(facets, k) /\ UNCHANGED cache
  <2>1. PICK k \in DOMAIN facets \ {FacetsKey(ui)} : facets' = Forgotten(facets, k)  BY <1>6
  <2>2. cache' = cache  BY <1>6
  <2>3. IsFacets(facets') /\ DOMAIN facets' = DOMAIN facets \ {k}
    BY <1>2, <2>1, ForgottenTyped
  <2>4. FacetsKey(ui') \in DOMAIN facets'
    BY <1>2, <1>3, <2>1, <2>3 DEF Shown, FacetsKey
  <2>5. Shown'  BY <1>2, <1>3, <2>2, <2>4 DEF Shown, Settled, Key, MovedBack
  <2> QED  BY <1>1, <1>2, <1>3, <1>4, <2>2, <2>3, <2>5 DEF Truth, Types
<1> QED  BY <1>5, <1>6 DEF Expire

LEMMA ForeignStep ==
    ASSUME Truth, NEW id \in DOMAIN status, ForeignChange(id)
    PROVE  Truth' /\ ui'.active = ui.active /\ ui'.tab = ui.tab
<1>1. used' \in [choices : Nat, turmoil : Nat]  BY UseTyped DEF Truth, ForeignChange
<1>2. UNCHANGED <<kind, listReads, facetsReads, cache, facets, ui>>  BY DEF ForeignChange
<1>3. PICK new \in {"closed", ""} : status' = [status EXCEPT ![id] = new]
  BY DEF ForeignChange
<1>4. status' \in [{t.id : t \in Archive} -> {"closed", "inWork", ""}]
  BY <1>3 DEF Truth, Types
<1>5. Types'  BY <1>1, <1>2, <1>4 DEF Truth, Types
<1> QED
  BY <1>2, <1>5 DEF Truth, Shown, Offered, Chosen, FacetsKey, Settled, Key, MovedBack

-----------------------------------------------------------------------------
(* The theorems.                                                           *)

LEMMA InitTruth == ArchiveInit => Truth
<1> SUFFICES ASSUME ArchiveInit PROVE Truth  OBVIOUS
<1>1. ui = Opened /\ IsPage(ui) /\ Chosen(ui)  BY OpenedTyped DEF ArchiveInit
<1>2. Key(ui) \in Keys /\ FacetsKey(ui) \in FacetsKeys  BY <1>1, KeysTyped
<1>3. cache = [k \in {Key(ui)} |-> Pending(Absent)]  BY <1>1 DEF ArchiveInit
<1>4. facets = [k \in {FacetsKey(ui)} |-> Pending(Absent)]  BY <1>1 DEF ArchiveInit
<1>5. /\ IsEntry(Pending(Absent), Answers) /\ IsEntry(Pending(Absent), FacetsAnswers)
      /\ Pending(Absent).data = Nothing /\ Pending(Absent).status = "pending"
  BY NewEntry
<1>6. IsCache(cache)
  <2> DEFINE e == Pending(Absent)
             k == Key(ui)
  <2>1. cache = [l \in {k} |-> e] /\ k \in Keys /\ IsEntry(e, Answers) /\ e.data = Nothing
    BY <1>2, <1>3, <1>5
  <2> HIDE DEF e, k
  <2> QED  BY <2>1 DEF IsCache
<1>7. IsFacets(facets)
  <2> DEFINE e == Pending(Absent)
             k == FacetsKey(ui)
  <2>1. facets = [l \in {k} |-> e] /\ k \in FacetsKeys /\ IsEntry(e, FacetsAnswers)
    BY <1>2, <1>4, <1>5
  <2> HIDE DEF e, k
  <2> QED  BY <2>1 DEF IsFacets
<1>8. /\ kind \in {"client", "device"}
      /\ status \in [{t.id : t \in Archive} -> {"closed", "inWork", ""}]
      /\ used \in [choices : Nat, turmoil : Nat]
      /\ IsListReads(listReads) /\ IsFacetsReads(facetsReads)
  BY DEF ArchiveInit, IsListReads, IsFacetsReads
<1>9. ui.list = Nothing /\ ui.options = Nothing  BY <1>1 DEF Opened
<1>10. Settled(ui, cache)
  <2>1. ~MovedBack(ui, Total(ui.list))  BY <1>9 DEF MovedBack, Total
  <2>2. Key(ui) \in DOMAIN cache /\ cache[Key(ui)] = Pending(Absent)  BY <1>3
  <2> QED  BY <1>5, <2>1, <2>2 DEF Settled
<1>11. FacetsKey(ui) \in DOMAIN facets  BY <1>4
<1> QED  BY <1>1, <1>6, <1>7, <1>8, <1>9, <1>10, <1>11 DEF Truth, Types, Shown, Offered

(* A step that changes the tab or the filters.                             *)
FiltersChange == ui.active # ui'.active \/ ui.tab # ui'.tab

Begins ==
    \/ ui'.page = 1
    \/ LET k == [Key(ui') EXCEPT !.page = ui.page]
       IN /\ k \in DOMAIN cache /\ cache[k].data # Nothing
          /\ Offset(ui.page) >= cache[k].data.total

(* It begins at the first page, or the entry of the page that was open     *)
(* says why not.                                                           *)
LEMMA ShownBegins ==
    ASSUME Truth, NEW u, IsPage(u), u.page = ui.page, u.list = ui.list,
           ShownAs(u, cache, TRUE)
    PROVE  Begins
<1>1. IsCache(cache) /\ ~MovedBack(ui, Total(ui.list))  BY DEF Truth, Types, Shown, Settled
<1>2. ~MovedBack(u, Total(u.list))  BY <1>1 DEF MovedBack
<1>3. \/ Listed(u, cache, TRUE).ui.page = 1
      \/ /\ Key(u) \in DOMAIN cache /\ cache[Key(u)].data # Nothing
         /\ Offset(u.page) >= cache[Key(u)].data.total
  BY <1>1, <1>2, ListedFirst
<1>4. ui'.tab = u.tab /\ ui'.active = u.active /\ ui'.page = Listed(u, cache, TRUE).ui.page
  BY DEF ShownAs
<1>5. [Key(ui') EXCEPT !.page = ui.page] = Key(u)  BY <1>4 DEF Key
<1> QED  BY <1>3, <1>4, <1>5 DEF Begins

LEMMA StepTruth ==
    ASSUME Truth, [ArchiveNext]_archiveVars
    PROVE  Truth' /\ (FiltersChange => Begins)
<1>1. ASSUME Truth' /\ ui'.active = ui.active /\ ui'.tab = ui.tab
      PROVE  Truth' /\ (FiltersChange => Begins)
  BY <1>1 DEF FiltersChange
<1>2. IsPage(ui)  BY DEF Truth, Types
<1>3. CASE Reopen
  <2>1. Truth' /\ ShownAs(Opened, cache, FALSE)  BY <1>3, ReopenStep
  <2>2. ui'.page = Listed(Opened, cache, FALSE).ui.page  BY <2>1 DEF ShownAs
  <2>3. SettledFrom(Listed(Opened, cache, FALSE), Opened, Rendered(Opened, cache, FALSE).ui.page)
    BY OpenedTyped, ListedSettles DEF Truth, Types
  <2>4. RenderingOf(Rendered(Opened, cache, FALSE), Opened, cache, FALSE)
    BY OpenedTyped, RenderedTyped DEF Truth, Types
  <2> DEFINE last == Listed(Opened, cache, FALSE).ui.page
             next == Rendered(Opened, cache, FALSE).ui.page
  <2>5. last <= next /\ last \in Nat \ {0} /\ next \in Nat \ {0}
    BY <2>3, <2>4 DEF SettledFrom, RenderingOf, IsPage
  <2>6. next <= 1  BY <2>4 DEF RenderingOf, Opened
  <2> HIDE DEF last, next
  <2>7. last = 1  BY <2>5, <2>6
  <2> QED  BY <2>1, <2>2, <2>7 DEF Begins, last
<1>4. ASSUME NEW tab \in Tabs, ChooseTab(tab)
      PROVE  Truth' /\ (FiltersChange => Begins)
  <2> DEFINE u == [ui EXCEPT !.tab = tab]
  <2>1. Truth' /\ ShownAs(u, cache, TRUE)  BY <1>4, ChooseTabStep
  <2>2. IsPage(u) /\ u.page = ui.page /\ u.list = ui.list  BY <1>2 DEF IsPage
  <2> HIDE DEF u
  <2> QED  BY <2>1, <2>2, ShownBegins
<1>5. CASE Apply
  <2> DEFINE u == [ui EXCEPT !.active = ui.draft, !.sheet = FALSE]
  <2>1. Truth' /\ ShownAs(u, cache, u.active # ui.active)  BY <1>5, ApplyStep
  <2>2. IsPage(u) /\ u.page = ui.page /\ u.list = ui.list /\ u.tab = ui.tab
    BY <1>2 DEF IsPage
  <2> HIDE DEF u
  <2>3. ui'.active = u.active /\ ui'.tab = ui.tab  BY <2>1, <2>2 DEF ShownAs
  <2>4. ASSUME FiltersChange PROVE Begins
    <3>1. (u.active # ui.active) = TRUE  BY <2>3, <2>4 DEF FiltersChange
    <3>2. ShownAs(u, cache, TRUE)  BY <2>1, <3>1
    <3> QED  BY <2>2, <3>2, ShownBegins
  <2> QED  BY <2>1, <2>4
<1>6. ASSUME NEW direction \in {1, -1}, TurnPage(direction)
      PROVE  Truth' /\ ui'.active = ui.active /\ ui'.tab = ui.tab
  BY <1>6, TurnPageStep
<1>7. ASSUME OpenSheet \/ CloseSheet
      PROVE  Truth' /\ ui'.active = ui.active /\ ui'.tab = ui.tab
  BY <1>7, SheetStep
<1>8. ASSUME NEW v \in {""} \cup Reasons, Draft("reason", v)
      PROVE  Truth' /\ ui'.active = ui.active /\ ui'.tab = ui.tab
  BY <1>8, DraftStep
<1>9. ASSUME NEW v \in {""} \cup Others, Draft("other", v)
      PROVE  Truth' /\ ui'.active = ui.active /\ ui'.tab = ui.tab
  BY <1>9, DraftStep
<1>10. ASSUME ResetDraft
       PROVE  Truth' /\ ui'.active = ui.active /\ ui'.tab = ui.tab
  BY <1>10, ResetStep
<1>11. CASE User
  BY <1>1, <1>3, <1>4, <1>5, <1>6, <1>7, <1>8, <1>9, <1>10, <1>11 DEF User
<1>12. CASE Network
  BY <1>1, <1>12, CountsStep, SelectsStep, ListAnsweredStep, ReasonsStep, OthersStep,
     FacetsAnsweredStep, QueryFailsStep, ExpireStep
     DEF Network
<1>13. ASSUME NEW id \in DOMAIN status, ForeignChange(id)
       PROVE  Truth' /\ (FiltersChange => Begins)
  BY <1>1, <1>13, ForeignStep
<1>14. CASE UNCHANGED archiveVars
  BY <1>14 DEF archiveVars, serverVars, Truth, Types, Shown, Offered, Chosen, FacetsKey, Settled, Key,
               MovedBack, FiltersChange
<1> QED  BY <1>11, <1>12, <1>13, <1>14 DEF ArchiveNext

(* The state of the archive page has its type: its filters, its page and   *)
(* every entry of its two caches.                                          *)
THEOREM ArchiveTypes == ArchiveSpec => []Types
<1>1. Truth => Types  BY DEF Truth
<1> QED  BY <1>1, InitTruth, StepTruth, PTL DEF ArchiveSpec

(* Whatever is chosen, answered, lost or changed by others: a list on the  *)
(* screen is the answer to the tab, filters and page that are chosen, and  *)
(* its page is not past the end; it is empty only when nothing was counted *)
(* or a ticket left between the two statements that answered it.           *)
THEOREM ListsMatch == ArchiveSpec => []ListMatchesFilters
<1>1. ASSUME Truth PROVE ListMatchesFilters
  <2> SUFFICES ASSUME ListIsShown(ui, cache), ui.list # Nothing
               PROVE  ShownIsAsked /\ PageIsNotEmpty
    BY DEF ListMatchesFilters
  <2> DEFINE k == Key(ui)
             d == cache[k].data
  <2>1. IsPage(ui) /\ IsCache(cache) /\ k \in DOMAIN cache /\ k \in Keys
    BY <1>1, KeysTyped DEF Truth, Types, Shown, Settled
  <2>2. IsEntry(cache[k], Answers) /\ (d # Nothing => Fits(k, d))  BY <2>1 DEF IsCache
  <2>3. cache[k].status = "ok"  BY <2>2 DEF ListIsShown, Loading, IsEntry
  <2>4. d \in Answers /\ Fits(k, d)  BY <2>2, <2>3, NothingIsApart DEF IsEntry
  <2>5. ui.list = [id |-> k, rec |-> d] /\ ~MovedBack(ui, Total(ui.list))
    BY <1>1, <2>3 DEF Truth, Shown, Settled
  <2>6. ui.page \in Nat \ {0} /\ k.page = ui.page  BY <2>1 DEF IsPage, Key
  <2> HIDE DEF k, d
  <2>7. Total(ui.list) = d.total  BY <2>1, <2>4, <2>5, ShownTotal
  <2>8. d.total \in Nat /\ ui.list.rec = d /\ ui.list.id = k  BY <2>4, <2>5 DEF Answers
  <2>9. ASSUME d.total > 0
        PROVE  ui.page \in 1..Pages(d.total) /\ (d.items = {} => d.torn)
    <3>1. Offset(ui.page) \in Nat  BY <2>6, <2>8, <2>9, PastTheEnd
    <3>2. Offset(ui.page) < d.total  BY <2>5, <2>7, <2>8, <2>9, <3>1 DEF MovedBack
    <3>3. ui.page <= Pages(d.total)  BY <2>6, <2>8, <2>9, <3>2, PastTheEnd
    <3>4. Pages(d.total) \in Nat  BY <2>8, <2>9, LastPage
    <3>5. d.items = {} => d.torn  BY <2>4, <2>6, <3>2 DEF Fits
    <3> QED  BY <2>6, <3>3, <3>4, <3>5
  <2> QED  BY <2>8, <2>9 DEF ShownIsAsked, PageIsNotEmpty, k
<1> QED  BY <1>1, InitTruth, StepTruth, PTL DEF ArchiveSpec

(* What is selected in the sheet is always among the options it offers.    *)
THEOREM SelectedStaysOffered == ArchiveSpec => []SelectedIsOffered
<1>1. ASSUME Truth PROVE SelectedIsOffered
  <2> SUFFICES ASSUME ui.options # Nothing
               PROVE  /\ ui.draft.reason \in {""} \cup ReasonOptions
                      /\ ui.draft.other \in {""} \cup OtherOptions
    BY DEF SelectedIsOffered
  <2>1. ui.draft.reason \in {""} \cup ReasonOptions  BY DEF ReasonOptions, IncludeSelected
  <2>2. CASE kind = "client"  BY <2>1, <2>2 DEF OtherOptions, IncludeSelected
  <2>3. CASE kind # "client"
    <3>1. ui.draft.other \in {""} \cup ui.known
      BY <1>1, <2>3 DEF Truth, Offered, Chosen
    <3> QED  BY <2>1, <2>3, <3>1 DEF OtherOptions, ClientOptions
  <2> QED  BY <2>2, <2>3
<1> QED  BY <1>1, InitTruth, StepTruth, PTL DEF ArchiveSpec

(* Another tab or other filters begin at their first page, unless the page *)
(* that was open is cached for them and lies past their end.               *)
THEOREM FiltersBeginAtFirst == ArchiveSpec => FilterBeginsAtFirst
<1>1. Truth /\ [ArchiveNext]_archiveVars =>
          [ui.active # ui'.active \/ ui.tab # ui'.tab =>
             \/ ui'.page = 1
             \/ LET k == [Key(ui') EXCEPT !.page = ui.page]
                IN /\ k \in DOMAIN cache /\ cache[k].data # Nothing
                   /\ Offset(ui.page) >= cache[k].data.total]_archiveVars
  BY StepTruth DEF FiltersChange, Begins
<1> QED  BY <1>1, InitTruth, StepTruth, PTL DEF ArchiveSpec, FilterBeginsAtFirst
=============================================================================
