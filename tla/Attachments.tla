----------------------------- MODULE Attachments -----------------------------
(***************************************************************************)
(* The images of tickets: their rows in the table attachments and their    *)
(* objects in MinIO (server/internal/api/attachments.go).  No transaction  *)
(* spans the two; a handler may meet an error at either, not know whether  *)
(* what it asked for was done, or be stopped with the server between them. *)
(***************************************************************************)
CONSTANTS
    Users,
    Tickets,
    Ids,        \* attachment ids, which are also the keys of the objects
    Requests,   \* requests that may be under way at the same time
    NoUser,
    NoTicket,
    NoId,
    Absent,     \* holder of a ticket whose row does not exist
    Free        \* nobody holds the lock of a ticket's row

ASSUME AttachmentsAssumption ==
    /\ NoTicket \notin Tickets /\ NoId \notin Ids
    /\ NoUser \notin Users /\ Absent \notin Users /\ NoUser # Absent
    /\ Free \notin Requests

VARIABLES
    holder,     \* the executor of a ticket that is worksDone or closed
    lock,       \* the request whose transaction has the ticket's row locked
    rows,       \* attachments.ref_id
    objects,    \* keys of the objects in MinIO
    requests,
    drawn,      \* ids that gen_random_uuid has returned
    stored,     \* ghost: ids that had a row
    shaken      \* ghost: ids whose object somebody asked MinIO to remove

vars == <<holder, lock, rows, objects, requests, drawn, stored, shaken>>

Steps == {"idle",
          "checked", "put", "cleaning", "uploaded",     \* upload
          "locked", "removed", "deleted",               \* delete
          "refused", "failed"}                          \* 404 or 409, 5xx
Request == [step: Steps, user: Users \cup {NoUser},
            ticket: Tickets \cup {NoTicket}, id: Ids \cup {NoId}]
Idle == [step |-> "idle", user |-> NoUser, ticket |-> NoTicket, id |-> NoId]

Holds(r, t) == requests[r].step \in {"locked", "removed"}
                  /\ requests[r].ticket = t

(* A row is locked by the delete that has checked its ticket, if any. *)
TypeOK ==
    /\ holder \in [Tickets -> Users \cup {NoUser, Absent}]
    /\ lock \in [Tickets -> Requests \cup {Free}]
    /\ rows \in [Ids -> Tickets \cup {NoTicket}]
    /\ objects \subseteq Ids /\ drawn \subseteq Ids
    /\ stored \subseteq Ids /\ shaken \subseteq Ids
    /\ requests \in [Requests -> Request]
    /\ \A r \in Requests, t \in Tickets : lock[t] = r <=> Holds(r, t)

Init ==
    /\ holder = [t \in Tickets |-> NoUser]
    /\ lock = [t \in Tickets |-> Free]
    /\ rows = [i \in Ids |-> NoTicket]
    /\ objects = {} /\ drawn = {} /\ stored = {} /\ shaken = {}
    /\ requests = [r \in Requests |-> Idle]

Goes(r, step) ==
    requests' = [requests EXCEPT
                    ![r] = [step |-> step, user |-> requests[r].user,
                            ticket |-> requests[r].ticket,
                            id |-> requests[r].id]]
Starts(r, step, u, t, i) ==
    requests' = [requests EXCEPT
                    ![r] = [step |-> step, user |-> u, ticket |-> t, id |-> i]]

(* PutObject or RemoveObject may or may not have had its effect. *)
StoreUnknown(i) == objects' \in {objects \cup {i}, objects}
RemoveUnknown(i) == objects' \in {objects \ {i}, objects}

-----------------------------------------------------------------------------
(* canUploadTicketAttachment, which locks nothing, and the new id. *)
CanUpload(r, u, t, i) ==
    /\ requests[r].step = "idle" /\ i \notin drawn
    /\ \/ /\ holder[t] = u
          /\ Starts(r, "checked", u, t, i)
          /\ drawn' = drawn \cup {i}
       \/ /\ holder[t] # u
          /\ Starts(r, "refused", u, t, NoId)
          /\ UNCHANGED drawn
    /\ UNCHANGED <<holder, lock, rows, objects, stored, shaken>>

(* Mutation: the error of PutObject is not looked at.                      *)
PutAnyhow(r) ==
    /\ requests[r].step = "checked"
    /\ StoreUnknown(requests[r].id) /\ Goes(r, "put")
    /\ UNCHANGED <<holder, lock, rows, drawn, stored, shaken>>

PutObject(r) ==
    LET i == requests[r].id
    IN  /\ requests[r].step = "checked"
        /\ \/ objects' = objects \cup {i} /\ Goes(r, "put")
           \/ StoreUnknown(i) /\ Goes(r, "failed")
        /\ UNCHANGED <<holder, lock, rows, drawn, stored, shaken>>

Inserted(r) ==
    /\ rows' = [rows EXCEPT ![requests[r].id] = requests[r].ticket]
    /\ stored' = stored \cup {requests[r].id}

(* The INSERT, which looks at no ticket; after an error it may still have  *)
(* been committed.                                                         *)
InsertAttachment(r) ==
    /\ requests[r].step = "put"
    /\ \/ Inserted(r) /\ Goes(r, "uploaded")
       \/ /\ Inserted(r) \/ UNCHANGED <<rows, stored>>
          /\ Goes(r, "cleaning")
    /\ UNCHANGED <<holder, lock, objects, drawn, shaken>>

(* The object is removed after an error of the INSERT, as far as possible. *)
CleanUp(r) ==
    LET i == requests[r].id
    IN  /\ requests[r].step = "cleaning"
        /\ RemoveUnknown(i) /\ Goes(r, "failed")
        /\ shaken' = shaken \cup {i}
        /\ UNCHANGED <<holder, lock, rows, drawn, stored>>

-----------------------------------------------------------------------------

LocksRow(t, r) == lock' = [lock EXCEPT ![t] = r]

Unlocks(t) == lock' = [lock EXCEPT ![t] = Free]

(* A page shows attachments that have or had a row.  SELECT FOR UPDATE     *)
(* waits while another transaction holds the ticket; an absent row of this *)
(* ticket is a deletion that was repeated.                                 *)
LockTicket(r, u, t, i) ==
    /\ requests[r].step = "idle" /\ i \in stored
    /\ lock[t] = Free
    /\ \/ /\ holder[t] # u
          /\ Starts(r, "refused", u, t, i) /\ UNCHANGED lock
       \/ /\ holder[t] = u /\ rows[i] # t
          /\ Starts(r, "deleted", u, t, i) /\ UNCHANGED lock
       \/ /\ holder[t] = u /\ rows[i] = t
          /\ Starts(r, "locked", u, t, i)
          /\ LocksRow(t, r)
    /\ UNCHANGED <<holder, rows, objects, drawn, stored, shaken>>

(* Mutation: the removal of an object that is gone is an error.            *)
RemovedOnce(r) ==
    /\ requests[r].step = "locked" /\ requests[r].id \in objects
    /\ objects' = objects \ {requests[r].id}
    /\ shaken' = shaken \cup {requests[r].id}
    /\ Goes(r, "removed")
    /\ UNCHANGED <<holder, lock, rows, drawn, stored>>

(* Mutation: an error of RemoveObject does not stop the deletion.          *)
RemoveErrorIgnored(r) ==
    /\ requests[r].step = "locked"
    /\ RemoveUnknown(requests[r].id)
    /\ shaken' = shaken \cup {requests[r].id}
    /\ Goes(r, "removed")
    /\ UNCHANGED <<holder, lock, rows, drawn, stored>>

(* RemoveObject succeeds as well when there is no such object. *)
ObjectRemoved(r) ==
    /\ requests[r].step = "locked"
    /\ objects' = objects \ {requests[r].id}
    /\ shaken' = shaken \cup {requests[r].id}
    /\ Goes(r, "removed")
    /\ UNCHANGED <<holder, lock, rows, drawn, stored>>

RemoveFails(r) ==
    /\ requests[r].step = "locked"
    /\ RemoveUnknown(requests[r].id)
    /\ shaken' = shaken \cup {requests[r].id}
    /\ Unlocks(requests[r].ticket)
    /\ Goes(r, "failed")
    /\ UNCHANGED <<holder, rows, drawn, stored>>

Removed(r) == rows' = [rows EXCEPT ![requests[r].id] = NoTicket]

(* Mutation: the answer is written whatever the commit returns.            *)
CommitErrorIgnored(r) ==
    /\ requests[r].step = "removed"
    /\ Removed(r) \/ UNCHANGED rows
    /\ Unlocks(requests[r].ticket)
    /\ Goes(r, "deleted")
    /\ UNCHANGED <<holder, objects, drawn, stored, shaken>>

DeleteCommits(r) ==
    /\ requests[r].step = "removed"
    /\ Removed(r)
    /\ Unlocks(requests[r].ticket)
    /\ Goes(r, "deleted")
    /\ UNCHANGED <<holder, objects, drawn, stored, shaken>>

(* The DELETE or its commit fails, or the answer to the commit is lost. *)
DeleteFails(r) ==
    /\ requests[r].step = "removed"
    /\ Removed(r) \/ UNCHANGED rows
    /\ Unlocks(requests[r].ticket)
    /\ Goes(r, "failed")
    /\ UNCHANGED <<holder, objects, drawn, stored, shaken>>

-----------------------------------------------------------------------------
Answered(r) == requests[r].step \in {"uploaded", "deleted", "refused", "failed"}

(* The client has seen the answer. *)
Forget(r) ==
    /\ Answered(r)
    /\ requests' = [requests EXCEPT ![r] = Idle]
    /\ UNCHANGED <<holder, lock, rows, objects, drawn, stored, shaken>>

(* The server stops; PostgreSQL rolls its transactions back, and what it   *)
(* was sending to MinIO may or may not arrive.                             *)
Crash ==
    /\ \E r \in Requests : ~Answered(r) /\ requests[r].step # "idle"
    /\ requests' = [r \in Requests |->
                       IF Answered(r) THEN requests[r] ELSE Idle]
    /\ lock' = [t \in Tickets |-> Free]
    /\ LET of(step) == {requests[r].id : r \in {q \in Requests :
                                                  requests[q].step = step}}
       IN  \E sent \in SUBSET of("checked"),
              gone \in SUBSET (of("cleaning") \cup of("locked")) :
              /\ objects' = (objects \cup sent) \ gone
              /\ shaken' = shaken \cup gone
    /\ UNCHANGED <<holder, rows, drawn, stored>>

(* Lifecycle, editor and synchronisation move a ticket or remove its row;  *)
(* its attachments stay.                                                   *)
TicketChanges(t, h) ==
    /\ lock[t] = Free /\ h # holder[t]
    /\ holder' = [holder EXCEPT ![t] = h]
    /\ UNCHANGED <<lock, rows, objects, requests, drawn, stored, shaken>>

Upload(r) ==
    \/ \E u \in Users, t \in Tickets, i \in Ids : CanUpload(r, u, t, i)
    \/ PutObject(r)
    \/ InsertAttachment(r)
    \/ CleanUp(r)

Delete(r) ==
    \/ \E u \in Users, t \in Tickets, i \in Ids : LockTicket(r, u, t, i)
    \/ ObjectRemoved(r)
    \/ RemoveFails(r)
    \/ DeleteCommits(r)
    \/ DeleteFails(r)

Next ==
    \/ \E r \in Requests : Upload(r) \/ Delete(r) \/ Forget(r)
    \/ Crash
    \/ \E t \in Tickets, h \in Users \cup {NoUser, Absent} :
          TicketChanges(t, h)

Spec == Init /\ [][Next]_vars

(* MinIO and PostgreSQL do not refuse forever, requests end, and the       *)
(* holder of a ticket repeats a deletion that has gone half way.           *)
Repeat(i) ==
    \E r \in Requests :
        /\ rows[i] \in Tickets /\ i \in shaken
        /\ holder[rows[i]] \in Users
        /\ LockTicket(r, holder[rows[i]], rows[i], i)
Fairness ==
    /\ \A r \in Requests :
          /\ WF_vars(PutObject(r)) /\ WF_vars(InsertAttachment(r))
          /\ WF_vars(CleanUp(r)) /\ WF_vars(Forget(r))
          /\ SF_vars(ObjectRemoved(r)) /\ SF_vars(DeleteCommits(r))
    /\ \A i \in Ids : SF_vars(Repeat(i))

FairSpec == Spec /\ Fairness

-----------------------------------------------------------------------------
(* An attachment whose deletion nobody attempted, and whose upload did not *)
(* fail, can be downloaded.                                                *)
RowsHaveObjects ==
    \A i \in Ids : rows[i] # NoTicket /\ i \notin shaken => i \in objects

(* A deletion never leaves an object behind, however it fails: as long as  *)
(* the object of an attachment exists its row is there for a retry.        *)
NothingLeftBehind ==
    \A i \in stored \cap objects : rows[i] # NoTicket

(* The answer 204 is true, also to a request that was repeated. *)
DeletedIsGone ==
    \A r \in Requests : requests[r].step = "deleted" =>
        LET i == requests[r].id
        IN  rows[i] # requests[r].ticket /\ (rows[i] = NoTicket => i \notin objects)

(* A row is deleted only while the ticket is worksDone or closed and its   *)
(* executor asks for it, though MinIO may take long in between.            *)
DeletedByHolder ==
    [][\A i \in Ids : rows[i] # NoTicket /\ rows'[i] = NoTicket =>
          \E r \in Requests : /\ requests[r].step = "removed"
                              /\ requests[r].id = i
                              /\ holder[rows[i]] = requests[r].user]_vars

(* What was deleted half way is gone in the end, unless the ticket is      *)
(* taken from everybody.                                                   *)
RetryCompletes ==
    \A i \in Ids : rows[i] # NoTicket /\ i \in shaken
        ~> rows[i] = NoTicket \/ holder[rows[i]] \notin Users
=============================================================================
