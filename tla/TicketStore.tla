----------------------------- MODULE TicketStore -----------------------------
(***************************************************************************)
(* The tickets table of the API server and every statement that writes it: *)
(* the lifecycle handlers and the editor of server/internal/api, the       *)
(* upsert and the tombstone of server/internal/pouchsync, and the schema   *)
(* replay of server/db/schema/025_ticket_app_version.sql.                  *)
(*                                                                         *)
(* Each action is one committed transaction.  PostgreSQL runs them at READ *)
(* COMMITTED, where the WHERE of an UPDATE is evaluated on the row version *)
(* the statement locks, so the guards below are checked and the row is     *)
(* written in one step.  What a handler reads before its transaction (the  *)
(* disabled flag of an executor, the client of a device, the reason) is    *)
(* not held until the write and so is no guard of the action; role and     *)
(* department of a user do not change while the server runs.               *)
(***************************************************************************)
EXTENDS Naturals

CONSTANTS
    TicketIds,      \* ids a ticket row can have
    LegacyIds,      \* those that come from the legacy system
    Users,          \* accounts with a users row
    Departments,    \* departments
    None,           \* SQL NULL in a reference column
    Role,           \* Role[u], the name of the role of an account
    Department,     \* Department[u], users.department
    MaxVersion,     \* bound on app_version: no app write goes beyond it
    EditorStatuses, \* statuses the editor form is saved with
    SyncStatuses    \* statuses written in legacy documents, before parsing

(* ticket_statuses.type, the statuses the application knows. *)
Statuses == {"created", "assigned", "inWork", "worksDone", "closed", "cancelled"}

(* tickets.status is nullable and NULL is read as ''. *)
StoredStatuses == Statuses \cup {""}

ASSUME StoreAssumption ==
    /\ LegacyIds \subseteq TicketIds
    /\ None \notin TicketIds \cup Users \cup Departments
    /\ Role \in [Users -> {"user", "coordinator", "admin"}]
    /\ Department \in [Users -> Departments \cup {None}]
    /\ MaxVersion \in Nat
    /\ EditorStatuses \subseteq Statuses
    /\ SyncStatuses \subseteq Statuses \cup {"finished", "unknown"}

VARIABLES
    tickets,        \* tickets[t], the row with id t, or NoRow
    latestTicket,   \* latestTicket[u], users.latest_ticket
    appWrites       \* ghost: appWrites[t], app writes committed to t so far

storeVars == <<tickets, latestTicket, appWrites>>

(***************************************************************************)
(* A row.  basis is a ghost column: the number of the newest app write     *)
(* that the values of the row take into account.  The other columns carry  *)
(* no guard and are left out.                                              *)
(***************************************************************************)
Row == [status: StoredStatuses \cup {"absent"},
        version: Nat,
        executor: Users \cup {None},
        department: Departments \cup {None},
        reference: TicketIds \cup {None},
        basis: Nat]

NoRow == [status |-> "absent", version |-> 0, executor |-> None,
          department |-> None, reference |-> None, basis |-> 0]

Present(t) == tickets[t].status # "absent"

StoreTypeOK ==
    /\ tickets \in [TicketIds -> Row]
    /\ latestTicket \in [Users -> TicketIds \cup {None}]
    /\ appWrites \in [TicketIds -> Nat]

(***************************************************************************)
(* Before the server accepts requests the legacy tickets are in the table  *)
(* (the dump import) or not (they only exist in the legacy system), at     *)
(* version 0, the closed ones at 1 because the schema was replayed.        *)
(***************************************************************************)
ImportedRow(s, e, d) ==
    [status |-> s, version |-> IF s = "closed" THEN 1 ELSE 0, executor |-> e,
     department |-> d, reference |-> None, basis |-> 0]

StoreInit ==
    /\ tickets \in [TicketIds -> {NoRow} \cup
           {ImportedRow(s, e, d) : s \in EditorStatuses, e \in Users,
                                   d \in Departments \cup {None}}]
    /\ \A t \in TicketIds \ LegacyIds : tickets[t] = NoRow
    /\ latestTicket = [u \in Users |-> None]
    /\ appWrites = [t \in TicketIds |-> 0]

-----------------------------------------------------------------------------
(* The lifecycle handlers. *)

(* gen_random_uuid() never returns the id of a legacy ticket. *)
Fresh(t) == t \in TicketIds \ LegacyIds /\ ~Present(t)

(* The executor must belong to the department of the requester. *)
AssignableBy(u, e) ==
    /\ Department[u] # None
    /\ Department[e] = Department[u]

(* Mutation: a write that forgets to count itself in app_version.          *)
UpdatedSameVersion(t, s, e, d) ==
    [status |-> s, version |-> tickets[t].version, executor |-> e,
     department |-> d, reference |-> tickets[t].reference,
     basis |-> appWrites[t] + 1]

(* UPDATE tickets SET app_version = app_version + 1, status = s, ... : the *)
(* fields and the version in one statement.                                *)
Updated(t, s, e, d) ==
    [status |-> s, version |-> tickets[t].version + 1, executor |-> e,
     department |-> d, reference |-> tickets[t].reference,
     basis |-> appWrites[t] + 1]

MovedTo(t, s) == Updated(t, s, tickets[t].executor, tickets[t].department)

(* A row the app inserts starts at version 1, the first app write to it. *)
CreatedRow(s, e, d, ref) ==
    [status |-> s, version |-> 1, executor |-> e, department |-> d,
     reference |-> ref, basis |-> 1]

CountWrite(S) ==
    appWrites' = [t \in TicketIds |-> IF t \in S THEN appWrites[t] + 1
                                                 ELSE appWrites[t]]

(* POST /tickets: an admin or a coordinator creates ticket t for e. *)
HandleTicketsCreate(t, u, e) ==
    /\ MaxVersion > 0
    /\ Role[u] \in {"admin", "coordinator"}
    /\ AssignableBy(u, e)
    /\ Fresh(t)
    /\ tickets' = [tickets EXCEPT ![t] =
           CreatedRow("assigned", e, Department[u], None)]
    /\ latestTicket' = [latestTicket EXCEPT ![e] = t]
    /\ CountWrite({t})

(* WHERE id = $ AND department = $ AND status = 'created' *)
PatchAssigned(t, u, e) ==
    /\ Role[u] = "coordinator"
    /\ AssignableBy(u, e)
    /\ tickets[t].status = "created"
    /\ tickets[t].department = Department[u]
    /\ tickets[t].version < MaxVersion
    /\ tickets' = [tickets EXCEPT ![t] =
                       Updated(t, "assigned", e, Department[u])]
    /\ latestTicket' = [latestTicket EXCEPT ![e] = t]
    /\ CountWrite({t})

(* WHERE id = $ AND executor = $ AND status = $ : the three transitions an *)
(* executor makes on a ticket of their own.                                *)
ExecutorMay(t, u, from) ==
    /\ tickets[t].status = from
    /\ tickets[t].executor = u
    /\ tickets[t].version < MaxVersion

PatchInWork(t, u) ==
    /\ ExecutorMay(t, u, "assigned")
    /\ tickets' = [tickets EXCEPT ![t] = MovedTo(t, "inWork")]
    /\ latestTicket' = [latestTicket EXCEPT ![u] = t]
    /\ CountWrite({t})

PatchWorksDone(t, u) ==
    /\ ExecutorMay(t, u, "inWork")
    /\ tickets' = [tickets EXCEPT ![t] = MovedTo(t, "worksDone")]
    /\ latestTicket' = [latestTicket EXCEPT ![u] = t]
    /\ CountWrite({t})

PatchClosed(t, u) ==
    /\ ExecutorMay(t, u, "worksDone")
    /\ tickets' = [tickets EXCEPT ![t] = MovedTo(t, "closed")]
    /\ latestTicket' = [latestTicket EXCEPT ![u] = t]
    /\ CountWrite({t})

(* A report with a recommendation closes t and inserts the follow-up f for *)
(* department d in the same transaction.                                   *)
PatchClosedWithFollowUp(t, u, f, d) ==
    /\ ExecutorMay(t, u, "worksDone")
    /\ Fresh(f)
    /\ tickets' = [tickets EXCEPT
           ![t] = MovedTo(t, "closed"),
           ![f] = CreatedRow("created", None, d, t)]
    /\ latestTicket' = [latestTicket EXCEPT ![u] = t]
    /\ CountWrite({t, f})

(* PATCH /editor/tickets: the whole record of an editor form, loaded at    *)
(* any earlier time, over whatever the row is now.                         *)
HandleEditorTicketPatch(t, u, s, e, d) ==
    /\ Role[u] \in {"admin", "coordinator"}
    /\ Present(t)
    /\ tickets[t].version < MaxVersion
    /\ tickets' = [tickets EXCEPT ![t] = Updated(t, s, e, d)]
    /\ CountWrite({t})
    /\ UNCHANGED latestTicket

-----------------------------------------------------------------------------
(***************************************************************************)
(* The changes feed.  A document of ticket t, as applyTicket parses it.    *)
(* basis is a ghost: the newest app write its author had seen.  executor   *)
(* is what the reference resolves to; named says whether the document has  *)
(* one at all, for an executor this database does not know resolves to     *)
(* NULL as well.                                                           *)
(***************************************************************************)
Document == [id: TicketIds, deleted: BOOLEAN, version: Nat, basis: Nat,
             status: StoredStatuses \cup {"finished", "unknown"},
             executor: Users \cup {None}, named: BOOLEAN,
             department: Departments \cup {None}]

NormalizeTicketStatus(s, named) ==
    CASE s = "assigned" /\ ~named -> "cancelled"
      [] s = "finished"           -> "worksDone"
      [] OTHER -> IF s \in Statuses THEN s ELSE ""

(* Both upserts write every synchronised column and clear the reference. *)
DocumentRow(d, version) ==
    [status |-> NormalizeTicketStatus(d.status, d.named), version |-> version,
     executor |-> d.executor, department |-> d.department,
     reference |-> None, basis |-> d.basis]

UpsertInserts(d) ==
    /\ ~d.deleted
    /\ ~Present(d.id)
    /\ tickets' = [tickets EXCEPT ![d.id] = DocumentRow(d, d.version)]
    /\ UNCHANGED <<latestTicket, appWrites>>

(* Mutation: the upsert without its WHERE.                                 *)
AnyVersionMatches(d) == d.version \in Nat

(* WHERE tickets.app_version = EXCLUDED.app_version *)
VersionMatches(d) == tickets[d.id].version = d.version

UpsertUpdates(d) ==
    /\ ~d.deleted
    /\ Present(d.id)
    /\ VersionMatches(d)
    /\ tickets' = [tickets EXCEPT ![d.id] =
                       DocumentRow(d, tickets[d.id].version)]
    /\ UNCHANGED <<latestTicket, appWrites>>

(* Mutation: a tombstone deletes at any version.                           *)
AnyTombstoneMatches(d) == d.deleted

(* DELETE FROM tickets WHERE id = $1 AND app_version = 0 *)
TombstoneMatches(d) == tickets[d.id].version = 0

(* reference_ticket has no ON DELETE clause: a referenced row makes the    *)
(* DELETE fail, and the change with it.                                    *)
ReferencedBy(t) == {f \in TicketIds : tickets[f].reference = t}

TombstoneDeletes(d) ==
    /\ d.deleted
    /\ Present(d.id)
    /\ TombstoneMatches(d)
    /\ ReferencedBy(d.id) = {}
    /\ tickets' = [tickets EXCEPT ![d.id] = NoRow]
    /\ UNCHANGED <<latestTicket, appWrites>>

(* applyTicket on a well-formed document.  When no case applies the change *)
(* is skipped and the table stays as it is.                                *)
ApplyTicket(d) == UpsertInserts(d) \/ UpsertUpdates(d) \/ TombstoneDeletes(d)

-----------------------------------------------------------------------------
(* Mutation: the schema statement without app_version = 0.                 *)
BackfilledAgain(row) == IF row.status = "closed"
                        THEN [row EXCEPT !.version = 1]
                        ELSE row

(* UPDATE tickets SET app_version = 1 WHERE status = 'closed' AND          *)
(* app_version = 0: part of every start of the server.                     *)
Backfilled(row) == IF row.status = "closed" /\ row.version = 0
                   THEN [row EXCEPT !.version = 1]
                   ELSE row

ReplaySchema ==
    /\ tickets' = [t \in TicketIds |-> Backfilled(tickets[t])]
    /\ UNCHANGED <<latestTicket, appWrites>>
=============================================================================
