-------------------------- MODULE AttachmentsProofs --------------------------
(***************************************************************************)
(* Proofs about Attachments, for every set of users, tickets, attachments  *)
(* and concurrent requests, and over every failure and crash.              *)
(***************************************************************************)
EXTENDS Attachments, TLAPS

(***************************************************************************)
(* The inductive invariant.  Drawn ids belong to one upload until it ends  *)
(* (Fresh, Apart), so that what an upload stores has no row yet (Uploads). *)
(* A delete that has locked its ticket keeps row and permission as it      *)
(* found them (Locked).                                                    *)
(***************************************************************************)
Uploading == {"checked", "put"}
Deleting == {"locked", "removed"}

Typed ==
    /\ holder \in [Tickets -> Users \cup {NoUser, Absent}]
    /\ lock \in [Tickets -> Requests \cup {Free}]
    /\ rows \in [Ids -> Tickets \cup {NoTicket}]
    /\ objects \subseteq Ids /\ drawn \subseteq Ids
    /\ stored \subseteq Ids /\ shaken \subseteq Ids
    /\ requests \in [Requests -> Request]

LockHeld == \A r \in Requests, t \in Tickets : lock[t] = r <=> Holds(r, t)

Fresh ==
    /\ stored \subseteq drawn
    /\ \A i \in Ids : rows[i] # NoTicket => i \in stored
    /\ \A r \in Requests : requests[r].step \in Uploading
                              => requests[r].id \in drawn

Apart ==
    \A q, r \in Requests :
        /\ requests[q].step \in Uploading
        /\ requests[r].step \in Uploading
        /\ requests[q].id = requests[r].id
        => q = r

Uploads ==
    \A r \in Requests :
        /\ requests[r].step \in Uploading \cup {"cleaning"}
              => requests[r].id \in Ids /\ requests[r].ticket \in Tickets
        /\ requests[r].step \in Uploading => requests[r].id \notin stored
        /\ requests[r].step = "put"
              => requests[r].id \in objects \cup shaken

Locked ==
    \A r \in Requests :
        requests[r].step \in Deleting =>
            /\ requests[r].id \in stored
            /\ requests[r].ticket \in Tickets
            /\ rows[requests[r].id] = requests[r].ticket
            /\ holder[requests[r].ticket] = requests[r].user
            /\ (requests[r].step = "removed" => requests[r].id \notin objects)

Deleted ==
    \A r \in Requests : requests[r].step = "deleted" =>
        /\ requests[r].id \in stored
        /\ requests[r].ticket \in Tickets
        /\ rows[requests[r].id] # requests[r].ticket

Inv == /\ Typed /\ LockHeld /\ Fresh /\ Apart /\ Uploads /\ Locked /\ Deleted
       /\ RowsHaveObjects /\ NothingLeftBehind

LEMMA TypeSplit == TypeOK <=> Typed /\ LockHeld
  BY DEF TypeOK, Typed, LockHeld

-----------------------------------------------------------------------------
(* One request changes, the others stay. *)
LEMMA GoesOn ==
    ASSUME Typed, NEW r \in Requests, NEW step \in Steps, Goes(r, step)
    PROVE  /\ requests' \in [Requests -> Request]
           /\ requests'[r].step = step
           /\ requests'[r].user = requests[r].user
           /\ requests'[r].ticket = requests[r].ticket
           /\ requests'[r].id = requests[r].id
           /\ \A q \in Requests \ {r} : requests'[q] = requests[q]
<1>1. [step |-> step, user |-> requests[r].user,
       ticket |-> requests[r].ticket, id |-> requests[r].id] \in Request
  BY DEF Typed, Request
<1> QED
  BY <1>1 DEF Typed, Goes

LEMMA StartsWith ==
    ASSUME Typed, NEW r \in Requests, NEW step \in Steps, NEW u \in Users,
           NEW t \in Tickets, NEW i \in Ids \cup {NoId},
           Starts(r, step, u, t, i)
    PROVE  /\ requests' \in [Requests -> Request]
           /\ requests'[r].step = step
           /\ requests'[r].user = u
           /\ requests'[r].ticket = t
           /\ requests'[r].id = i
           /\ \A q \in Requests \ {r} : requests'[q] = requests[q]
<1>1. [step |-> step, user |-> u, ticket |-> t, id |-> i] \in Request
  BY DEF Request
<1> QED
  BY <1>1 DEF Typed, Starts

-----------------------------------------------------------------------------
LEMMA InvInit == ASSUME AttachmentsAssumption PROVE Init => Inv
<1> SUFFICES ASSUME Init PROVE Inv
  OBVIOUS
<1>1. Idle \in Request
  BY DEF Idle, Request, Steps
<1>2. \A r \in Requests : requests[r].step = "idle"
  BY DEF Init, Idle
<1>3. Typed
  BY <1>1 DEF Init, Typed
<1>4. LockHeld
  BY <1>2, AttachmentsAssumption DEF Init, LockHeld, Holds
<1> QED
  BY <1>2, <1>3, <1>4 DEF Init, Inv, Fresh, Apart, Uploads, Locked, Deleted,
     Uploading, Deleting, RowsHaveObjects, NothingLeftBehind

LEMMA UploadStep ==
    ASSUME AttachmentsAssumption, Inv, NEW r \in Requests, Upload(r)
    PROVE  Inv'
<1> USE DEF Uploading, Deleting
<1>1. ASSUME NEW u \in Users, NEW t \in Tickets, NEW i \in Ids,
             CanUpload(r, u, t, i)
      PROVE  Inv'
  <2>1. PICK step \in Steps, j \in Ids \cup {NoId} :
            /\ Starts(r, step, u, t, j)
            /\ step \in {"checked", "refused"}
            /\ step = "checked" => j = i /\ drawn' = drawn \cup {i}
            /\ step = "refused" => UNCHANGED drawn
    BY <1>1 DEF CanUpload, Steps
  <2>2. /\ requests[r].step = "idle" /\ i \notin drawn
        /\ UNCHANGED <<holder, lock, rows, objects, stored, shaken>>
    BY <1>1 DEF CanUpload
  <2>3. /\ requests' \in [Requests -> Request]
        /\ requests'[r].step = step /\ requests'[r].ticket = t
        /\ requests'[r].id = j
        /\ \A q \in Requests \ {r} : requests'[q] = requests[q]
    BY <2>1, StartsWith DEF Inv
  <2>4. Typed'
    BY <2>1, <2>2, <2>3 DEF Inv, Typed
  <2>5. LockHeld'
    BY <2>1, <2>2, <2>3 DEF Inv, LockHeld, Holds
  <2>6. Fresh'
    BY <2>1, <2>2, <2>3 DEF Inv, Fresh
  <2>7. Apart'
    BY <2>1, <2>2, <2>3 DEF Inv, Apart, Fresh
  <2>8. Uploads'
    BY <2>1, <2>2, <2>3 DEF Inv, Uploads, Fresh
  <2>9. Locked' /\ Deleted'
    BY <2>1, <2>2, <2>3 DEF Inv, Locked, Deleted
  <2> QED
    BY <2>2, <2>4, <2>5, <2>6, <2>7, <2>8, <2>9
       DEF Inv, RowsHaveObjects, NothingLeftBehind
<1>2. CASE PutObject(r)
  <2> DEFINE i == requests[r].id
  <2>1. PICK step \in Steps :
            /\ Goes(r, step)
            /\ step \in {"put", "failed"}
            /\ objects' \in {objects, objects \cup {i}}
            /\ step = "put" => objects' = objects \cup {i}
    BY <1>2 DEF PutObject, StoreUnknown, Steps
  <2>2. /\ requests[r].step = "checked"
        /\ UNCHANGED <<holder, lock, rows, drawn, stored, shaken>>
    BY <1>2 DEF PutObject
  <2>3. /\ requests' \in [Requests -> Request]
        /\ requests'[r].step = step
        /\ requests'[r].ticket = requests[r].ticket
        /\ requests'[r].id = i
        /\ \A q \in Requests \ {r} : requests'[q] = requests[q]
    BY <2>1, GoesOn DEF Inv
  <2>4. i \in Ids /\ i \notin stored
    BY <2>2 DEF Inv, Uploads
  <2>5. Typed'
    BY <2>1, <2>2, <2>3, <2>4 DEF Inv, Typed
  <2>6. LockHeld'
    BY <2>1, <2>2, <2>3 DEF Inv, LockHeld, Holds
  <2>7. Fresh' /\ Apart'
    BY <2>1, <2>2, <2>3 DEF Inv, Fresh, Apart
  <2>8. Uploads'
    BY <2>1, <2>2, <2>3 DEF Inv, Uploads
  <2>9. Locked' /\ Deleted'
    BY <2>1, <2>2, <2>3, <2>4 DEF Inv, Locked, Deleted
  <2>10. RowsHaveObjects' /\ NothingLeftBehind'
    BY <2>1, <2>2, <2>4 DEF Inv, RowsHaveObjects, NothingLeftBehind
  <2> QED
    BY <2>5, <2>6, <2>7, <2>8, <2>9, <2>10 DEF Inv
<1>3. CASE InsertAttachment(r)
  <2> DEFINE i == requests[r].id
             t == requests[r].ticket
  <2>1. PICK step \in {"uploaded", "cleaning"} :
            /\ Goes(r, step)
            /\ Inserted(r) \/ UNCHANGED <<rows, stored>>
    BY <1>3 DEF InsertAttachment
  <2>2. /\ requests[r].step = "put"
        /\ UNCHANGED <<holder, lock, objects, drawn, shaken>>
    BY <1>3 DEF InsertAttachment
  <2>3. /\ requests' \in [Requests -> Request]
        /\ requests'[r].step = step
        /\ requests'[r].ticket = t /\ requests'[r].id = i
        /\ \A q \in Requests \ {r} : requests'[q] = requests[q]
    BY <2>1, GoesOn DEF Inv, Steps
  <2>4. /\ i \in Ids /\ i \notin stored /\ t \in Tickets
        /\ i \in drawn /\ i \in objects \cup shaken
    BY <2>2 DEF Inv, Uploads, Fresh
  <2>5. /\ rows' \in [Ids -> Tickets \cup {NoTicket}]
        /\ \A k \in Ids \ {i} : rows'[k] = rows[k]
        /\ stored \subseteq stored' /\ stored' \subseteq stored \cup {i}
        /\ rows'[i] = t \/ rows'[i] = rows[i]
        /\ rows'[i] # NoTicket => i \in stored'
        /\ i \in stored' => rows'[i] = t
    BY <2>1, <2>4 DEF Inv, Typed, Fresh, Inserted
  <2>6. Typed'
    BY <2>2, <2>3, <2>4, <2>5 DEF Inv, Typed
  <2>7. LockHeld'
    BY <2>1, <2>2, <2>3 DEF Inv, LockHeld, Holds
  <2>8. Fresh'
    BY <2>1, <2>2, <2>3, <2>4, <2>5 DEF Inv, Fresh
  <2>9. Apart' /\ Uploads'
    BY <2>1, <2>2, <2>3, <2>4, <2>5 DEF Inv, Apart, Uploads
  <2>10. Locked' /\ Deleted'
    BY <2>1, <2>2, <2>3, <2>4, <2>5 DEF Inv, Locked, Deleted, Typed
  <2>11. RowsHaveObjects' /\ NothingLeftBehind'
    BY <2>2, <2>4, <2>5, AttachmentsAssumption
       DEF Inv, RowsHaveObjects, NothingLeftBehind, Typed
  <2> QED
    BY <2>6, <2>7, <2>8, <2>9, <2>10, <2>11 DEF Inv
<1>4. CASE CleanUp(r)
  <2> DEFINE i == requests[r].id
  <2>1. /\ Goes(r, "failed") /\ requests[r].step = "cleaning"
        /\ objects' \subseteq objects /\ objects \subseteq objects' \cup {i}
        /\ shaken' = shaken \cup {i}
        /\ UNCHANGED <<holder, lock, rows, drawn, stored>>
    BY <1>4 DEF CleanUp, RemoveUnknown
  <2>2. /\ requests' \in [Requests -> Request]
        /\ requests'[r].step = "failed"
        /\ \A q \in Requests \ {r} : requests'[q] = requests[q]
    BY <2>1, GoesOn DEF Inv, Steps
  <2>3. i \in Ids
    BY <2>1 DEF Inv, Uploads
  <2>4. Typed'
    BY <2>1, <2>2, <2>3 DEF Inv, Typed
  <2>5. LockHeld'
    BY <2>1, <2>2 DEF Inv, LockHeld, Holds
  <2>6. Fresh' /\ Apart' /\ Uploads'
    BY <2>1, <2>2 DEF Inv, Fresh, Apart, Uploads
  <2>7. Locked' /\ Deleted'
    BY <2>1, <2>2 DEF Inv, Locked, Deleted
  <2>8. RowsHaveObjects' /\ NothingLeftBehind'
    BY <2>1 DEF Inv, RowsHaveObjects, NothingLeftBehind
  <2> QED
    BY <2>4, <2>5, <2>6, <2>7, <2>8 DEF Inv
<1> QED
  BY <1>1, <1>2, <1>3, <1>4 DEF Upload

-----------------------------------------------------------------------------
(* What every later step of a delete does to its request and its lock.     *)
LEMMA DeleteLocks ==
    ASSUME AttachmentsAssumption, Inv, NEW r \in Requests,
           requests[r].step \in Deleting,
           NEW step \in {"failed", "deleted"}, Goes(r, step),
           Unlocks(requests[r].ticket)
    PROVE  /\ lock' \in [Tickets -> Requests \cup {Free}]
           /\ LockHeld'
<1> DEFINE t == requests[r].ticket
<1>1. t \in Tickets /\ lock[t] = r
  BY DEF Inv, Locked, LockHeld, Holds, Deleting
<1>2. /\ requests'[r].step = step
      /\ \A q \in Requests \ {r} : requests'[q] = requests[q]
  BY GoesOn DEF Inv, Steps
<1>3. /\ lock' \in [Tickets -> Requests \cup {Free}] /\ lock'[t] = Free
      /\ \A s \in Tickets \ {t} : lock'[s] = lock[s]
  BY <1>1 DEF Unlocks, Inv, Typed
<1>4. \A q \in Requests \ {r} : ~Holds(q, t)
  BY <1>1 DEF Inv, LockHeld
<1>5. \A q \in Requests \ {r}, s \in Tickets : Holds(q, s)' <=> Holds(q, s)
  BY <1>2 DEF Holds
<1>6. \A s \in Tickets : ~Holds(r, s)'
  BY <1>2 DEF Holds
<1>7. \A s \in Tickets \ {t} : lock[s] # r
  BY <1>1 DEF Inv, LockHeld, Holds
<1> QED
  BY <1>3, <1>4, <1>5, <1>6, <1>7, AttachmentsAssumption DEF Inv, LockHeld

(* Two deletes never have the same attachment locked. *)
LEMMA LockedApart ==
    ASSUME Inv, NEW q \in Requests, NEW r \in Requests,
           requests[q].step \in Deleting, requests[r].step \in Deleting,
           requests[q].id = requests[r].id
    PROVE  q = r
  BY DEF Inv, Locked, LockHeld, Holds, Deleting

LEMMA DeleteStep ==
    ASSUME AttachmentsAssumption, Inv, NEW r \in Requests, Delete(r)
    PROVE  Inv'
<1> USE DEF Uploading
<1>1. ASSUME NEW u \in Users, NEW t \in Tickets, NEW i \in Ids,
             LockTicket(r, u, t, i)
      PROVE  Inv'
  <2>1. PICK step \in {"refused", "deleted", "locked"} :
            /\ Starts(r, step, u, t, i)
            /\ step = "deleted" => rows[i] # t
            /\ step = "locked" => holder[t] = u /\ rows[i] = t
            /\ step = "locked" => LocksRow(t, r)
            /\ step # "locked" => UNCHANGED lock
    BY <1>1 DEF LockTicket
  <2>2. /\ requests[r].step = "idle" /\ i \in stored /\ lock[t] = Free
        /\ UNCHANGED <<holder, rows, objects, drawn, stored, shaken>>
    BY <1>1 DEF LockTicket
  <2>3. /\ requests' \in [Requests -> Request]
        /\ requests'[r].step = step /\ requests'[r].user = u
        /\ requests'[r].ticket = t /\ requests'[r].id = i
        /\ \A q \in Requests \ {r} : requests'[q] = requests[q]
    BY <2>1, StartsWith DEF Inv, Steps
  <2>4. /\ lock' \in [Tickets -> Requests \cup {Free}]
        /\ LockHeld'
    <3>1. \A s \in Tickets : lock[s] # r
      BY <2>2 DEF Inv, LockHeld, Holds
    <3>2. \A q \in Requests \ {r}, s \in Tickets : Holds(q, s)' <=> Holds(q, s)
      BY <2>3 DEF Holds
    <3>3. \A s \in Tickets : Holds(r, s)' <=> step = "locked" /\ s = t
      BY <2>1, <2>3 DEF Holds
    <3>4. \A q \in Requests : ~Holds(q, t)
      BY <2>2, AttachmentsAssumption DEF Inv, LockHeld
    <3>5. CASE step = "locked"
      <4>1. /\ lock' \in [Tickets -> Requests \cup {Free}] /\ lock'[t] = r
            /\ \A s \in Tickets \ {t} : lock'[s] = lock[s]
        BY <2>1, <3>5 DEF LocksRow, Inv, Typed
      <4> QED
        BY <3>1, <3>2, <3>3, <3>4, <3>5, <4>1 DEF Inv, LockHeld
    <3>6. CASE step # "locked"
      BY <2>1, <3>1, <3>2, <3>3, <3>6 DEF Inv, LockHeld, Typed
    <3> QED
      BY <3>5, <3>6
  <2>5. Typed'
    BY <2>2, <2>3, <2>4 DEF Inv, Typed
  <2>6. Fresh' /\ Apart' /\ Uploads'
    BY <2>1, <2>2, <2>3 DEF Inv, Fresh, Apart, Uploads
  <2>7. Locked' /\ Deleted'
    BY <2>1, <2>2, <2>3 DEF Inv, Locked, Deleted, Deleting
  <2> QED
    BY <2>2, <2>4, <2>5, <2>6, <2>7
       DEF Inv, RowsHaveObjects, NothingLeftBehind
<1>2. ASSUME NEW step \in {"removed", "failed"}, Goes(r, step),
             requests[r].step = "locked",
             objects' \subseteq objects,
             objects \subseteq objects' \cup {requests[r].id},
             step = "removed" => requests[r].id \notin objects',
             shaken' = shaken \cup {requests[r].id},
             UNCHANGED <<holder, rows, drawn, stored>>,
             lock' \in [Tickets -> Requests \cup {Free}], LockHeld'
      PROVE  Inv'
  <2> DEFINE i == requests[r].id
  <2>1. /\ requests' \in [Requests -> Request]
        /\ requests'[r].step = step /\ requests'[r].user = requests[r].user
        /\ requests'[r].ticket = requests[r].ticket /\ requests'[r].id = i
        /\ \A q \in Requests \ {r} : requests'[q] = requests[q]
    BY <1>2, GoesOn DEF Inv, Steps
  <2>2. i \in stored /\ i \in Ids
    BY <1>2 DEF Inv, Locked, Deleting, Typed
  <2>3. Typed'
    BY <1>2, <2>1, <2>2 DEF Inv, Typed
  <2>4. Fresh' /\ Apart'
    BY <1>2, <2>1 DEF Inv, Fresh, Apart
  <2>5. Uploads'
    BY <1>2, <2>1, <2>2 DEF Inv, Uploads
  <2>6. Locked' /\ Deleted'
    BY <1>2, <2>1 DEF Inv, Locked, Deleted, Deleting
  <2> QED
    BY <1>2, <2>3, <2>4, <2>5, <2>6
       DEF Inv, RowsHaveObjects, NothingLeftBehind
<1>3. CASE ObjectRemoved(r)
  <2>1. lock' \in [Tickets -> Requests \cup {Free}]
    BY <1>3 DEF ObjectRemoved, Inv, Typed
  <2>2. LockHeld'
    <3>1. /\ requests'[r].step = "removed"
          /\ requests'[r].ticket = requests[r].ticket
          /\ \A q \in Requests \ {r} : requests'[q] = requests[q]
      BY <1>3, GoesOn DEF ObjectRemoved, Inv, Steps
    <3> QED
      BY <1>3, <3>1 DEF ObjectRemoved, Inv, LockHeld, Holds
  <2> QED
    BY <1>2, <1>3, <2>1, <2>2 DEF ObjectRemoved
<1>4. CASE RemoveFails(r)
  <2>1. lock' \in [Tickets -> Requests \cup {Free}] /\ LockHeld'
    BY <1>4, DeleteLocks DEF RemoveFails, Deleting
  <2> QED
    BY <1>2, <1>4, <2>1 DEF RemoveFails, RemoveUnknown
<1>5. CASE DeleteCommits(r) \/ DeleteFails(r)
  <2> DEFINE i == requests[r].id
             t == requests[r].ticket
  <2>1. PICK step \in {"deleted", "failed"} :
            /\ Goes(r, step) /\ Unlocks(t)
            /\ Removed(r) \/ UNCHANGED rows
            /\ step = "deleted" => Removed(r)
    BY <1>5 DEF DeleteCommits, DeleteFails
  <2>2. /\ requests[r].step = "removed"
        /\ UNCHANGED <<holder, objects, drawn, stored, shaken>>
    BY <1>5 DEF DeleteCommits, DeleteFails
  <2>3. /\ requests' \in [Requests -> Request]
        /\ requests'[r].step = step
        /\ requests'[r].ticket = t /\ requests'[r].id = i
        /\ \A q \in Requests \ {r} : requests'[q] = requests[q]
    BY <2>1, GoesOn DEF Inv, Steps
  <2>4. /\ lock' \in [Tickets -> Requests \cup {Free}] /\ LockHeld'
    BY <2>1, <2>2, DeleteLocks DEF Deleting
  <2>5. /\ i \in stored /\ i \in Ids /\ t \in Tickets /\ i \notin objects
        /\ rows[i] = t
    BY <2>2 DEF Inv, Locked, Deleting, Typed
  <2>6. /\ rows' \in [Ids -> Tickets \cup {NoTicket}]
        /\ \A k \in Ids \ {i} : rows'[k] = rows[k]
        /\ rows'[i] = NoTicket \/ rows'[i] = rows[i]
        /\ step = "deleted" => rows'[i] = NoTicket
    BY <2>1, <2>5 DEF Removed, Inv, Typed
  <2>7. Typed'
    BY <2>2, <2>3, <2>4, <2>6 DEF Inv, Typed
  <2>8. Fresh' /\ Apart' /\ Uploads'
    BY <2>1, <2>2, <2>3, <2>6 DEF Inv, Fresh, Apart, Uploads
  <2>9. Locked'
    <3>1. \A q \in Requests \ {r} :
              requests[q].step \in Deleting => requests[q].id # i
      BY <2>2, LockedApart DEF Deleting
    <3> QED
      BY <2>1, <2>2, <2>3, <2>6, <3>1 DEF Inv, Locked, Deleting, Typed
  <2>10. Deleted'
    BY <2>1, <2>2, <2>3, <2>5, <2>6, AttachmentsAssumption
       DEF Inv, Deleted, Typed
  <2>11. RowsHaveObjects' /\ NothingLeftBehind'
    BY <2>2, <2>5, <2>6 DEF Inv, RowsHaveObjects, NothingLeftBehind, Typed
  <2> QED
    BY <2>4, <2>7, <2>8, <2>9, <2>10, <2>11 DEF Inv
<1> QED
  BY <1>1, <1>3, <1>4, <1>5 DEF Delete

LEMMA ForgetStep ==
    ASSUME AttachmentsAssumption, Inv, NEW r \in Requests, Forget(r)
    PROVE  Inv'
<1>1. Idle \in Request /\ Idle.step = "idle"
  BY DEF Idle, Request, Steps
<1>2. /\ requests[r].step \in {"uploaded", "deleted", "refused", "failed"}
      /\ UNCHANGED <<holder, lock, rows, objects, drawn, stored, shaken>>
  BY DEF Forget, Answered
<1>3. /\ requests' \in [Requests -> Request] /\ requests'[r].step = "idle"
      /\ \A q \in Requests \ {r} : requests'[q] = requests[q]
  BY <1>1 DEF Forget, Inv, Typed
<1>4. Typed' /\ LockHeld'
  BY <1>2, <1>3 DEF Inv, Typed, LockHeld, Holds
<1>5. Fresh' /\ Apart' /\ Uploads'
  BY <1>2, <1>3 DEF Inv, Fresh, Apart, Uploads, Uploading
<1>6. Locked' /\ Deleted'
  BY <1>2, <1>3 DEF Inv, Locked, Deleted, Deleting
<1> QED
  BY <1>2, <1>4, <1>5, <1>6 DEF Inv, RowsHaveObjects, NothingLeftBehind

LEMMA CrashStep ==
    ASSUME AttachmentsAssumption, Inv, Crash
    PROVE  Inv'
<1> DEFINE Of(step) == {requests[r].id : r \in {q \in Requests :
                                                  requests[q].step = step}}
<1>1. PICK sent \in SUBSET Of("checked"),
           gone \in SUBSET (Of("cleaning") \cup Of("locked")) :
          objects' = (objects \cup sent) \ gone /\ shaken' = shaken \cup gone
  BY DEF Crash
<1>2. /\ lock' = [t \in Tickets |-> Free]
      /\ UNCHANGED <<holder, rows, drawn, stored>>
  BY DEF Crash
<1>3. Idle \in Request /\ Idle.step = "idle"
  BY DEF Idle, Request, Steps
<1>4. /\ requests' \in [Requests -> Request]
      /\ \A r \in Requests :
            \/ Answered(r) /\ requests'[r] = requests[r]
            \/ requests'[r].step = "idle"
  BY <1>3 DEF Crash, Inv, Typed
<1>5. \A i \in sent : i \in Ids /\ i \notin stored
  BY <1>1 DEF Inv, Uploads, Uploading
<1>6. \A i \in gone : i \in Ids
  BY <1>1 DEF Inv, Uploads, Uploading, Locked, Deleting, Typed
<1>7. Typed'
  BY <1>1, <1>2, <1>4, <1>5, <1>6 DEF Inv, Typed
<1>8. \A r \in Requests :
          requests'[r].step \in {"idle", "uploaded", "deleted", "refused",
                                 "failed"}
  BY <1>4 DEF Answered
<1>9. LockHeld'
  BY <1>2, <1>8, AttachmentsAssumption DEF LockHeld, Holds
<1>10. Fresh' /\ Apart' /\ Uploads' /\ Locked'
  BY <1>2, <1>8 DEF Inv, Fresh, Apart, Uploads, Uploading, Locked, Deleting
<1>11. Deleted'
  BY <1>2, <1>4 DEF Inv, Deleted
<1>12. RowsHaveObjects' /\ NothingLeftBehind'
  BY <1>1, <1>2, <1>5 DEF Inv, RowsHaveObjects, NothingLeftBehind
<1> QED
  BY <1>7, <1>9, <1>10, <1>11, <1>12 DEF Inv

LEMMA TicketStep ==
    ASSUME AttachmentsAssumption, Inv, NEW t \in Tickets,
           NEW h \in Users \cup {NoUser, Absent}, TicketChanges(t, h)
    PROVE  Inv'
<1>1. /\ lock[t] = Free
      /\ UNCHANGED <<lock, rows, objects, requests, drawn, stored, shaken>>
      /\ holder' \in [Tickets -> Users \cup {NoUser, Absent}]
      /\ \A s \in Tickets \ {t} : holder'[s] = holder[s]
  BY DEF TicketChanges, Inv, Typed
<1>2. \A r \in Requests : ~Holds(r, t)
  BY <1>1, AttachmentsAssumption DEF Inv, LockHeld
<1>3. Locked'
  BY <1>1, <1>2 DEF Inv, Locked, Holds, Deleting
<1>4. Typed' /\ LockHeld'
  BY <1>1 DEF Inv, Typed, LockHeld, Holds
<1> QED
  BY <1>1, <1>3, <1>4 DEF Inv, Fresh, Apart, Uploads, Deleted,
     RowsHaveObjects, NothingLeftBehind

LEMMA InvNext == ASSUME AttachmentsAssumption, Inv, [Next]_vars PROVE Inv'
<1>1. CASE Next
  BY <1>1, UploadStep, DeleteStep, ForgetStep, CrashStep, TicketStep DEF Next
<1>2. CASE UNCHANGED vars
  BY <1>2 DEF vars, Inv, Typed, LockHeld, Holds, Fresh, Apart, Uploads,
     Locked, Deleted, RowsHaveObjects, NothingLeftBehind
<1> QED
  BY <1>1, <1>2

LEMMA InvHolds == Spec => []Inv
<1>1. Init => Inv
  BY InvInit, AttachmentsAssumption
<1>2. Inv /\ [Next]_vars => Inv'
  BY InvNext, AttachmentsAssumption
<1> QED
  BY <1>1, <1>2, PTL DEF Spec

-----------------------------------------------------------------------------
(* The state has its type, and a ticket is locked by the one delete that   *)
(* works on it.                                                            *)
THEOREM AttachmentsTypeCorrect == Spec => []TypeOK
<1>1. Inv => TypeOK
  BY TypeSplit DEF Inv
<1> QED
  BY <1>1, InvHolds, PTL

(* Every attachment that nobody tried to delete can be downloaded. *)
THEOREM AttachmentsReadable == Spec => []RowsHaveObjects
<1>1. Inv => RowsHaveObjects
  BY DEF Inv
<1> QED
  BY <1>1, InvHolds, PTL

(* No failure and no crash of a deletion leaves an object without its row. *)
THEOREM DeletionLeavesNothing == Spec => []NothingLeftBehind
<1>1. Inv => NothingLeftBehind
  BY DEF Inv
<1> QED
  BY <1>1, InvHolds, PTL

(* The answer 204 to a deletion is true as long as it is under way. *)
THEOREM DeletionAnswersTrue == Spec => []DeletedIsGone
<1>1. Inv => DeletedIsGone
  BY DEF Inv, Deleted, NothingLeftBehind, DeletedIsGone
<1> QED
  BY <1>1, InvHolds, PTL

(* Rows are deleted by whoever holds their ticket at that time. *)
THEOREM OnlyHoldersDelete == Spec => DeletedByHolder
<1> DEFINE Good == \A i \in Ids : rows[i] # NoTicket /\ rows'[i] = NoTicket =>
                      \E r \in Requests : /\ requests[r].step = "removed"
                                          /\ requests[r].id = i
                                          /\ holder[rows[i]] = requests[r].user
<1>1. ASSUME Inv, Next PROVE Good
  <2> SUFFICES ASSUME NEW i \in Ids, rows[i] # NoTicket, rows'[i] = NoTicket
               PROVE  \E r \in Requests : /\ requests[r].step = "removed"
                                          /\ requests[r].id = i
                                          /\ holder[rows[i]] = requests[r].user
    OBVIOUS
  <2>1. \A r \in Requests : ~CleanUp(r) /\ ~PutObject(r) /\ ~Forget(r)
                              /\ ~ObjectRemoved(r) /\ ~RemoveFails(r)
    BY DEF CleanUp, PutObject, Forget, ObjectRemoved, RemoveFails
  <2>2. \A r \in Requests, u \in Users, t \in Tickets :
            ~CanUpload(r, u, t, i) /\ ~LockTicket(r, u, t, i)
    BY DEF CanUpload, LockTicket
  <2>3. \A r \in Requests : ~InsertAttachment(r)
    BY <1>1, AttachmentsAssumption
       DEF InsertAttachment, Inserted, Inv, Uploads, Uploading, Typed
  <2>4. PICK r \in Requests : DeleteCommits(r) \/ DeleteFails(r)
    <3>1. rows' # rows
      OBVIOUS
    <3>2. \A r \in Requests, u \in Users, t \in Tickets, k \in Ids :
              ~CanUpload(r, u, t, k) /\ ~LockTicket(r, u, t, k)
      BY <3>1 DEF CanUpload, LockTicket
    <3>3. \A t \in Tickets, h \in Users \cup {NoUser, Absent} :
              ~TicketChanges(t, h)
      BY <3>1 DEF TicketChanges
    <3>4. ~Crash
      BY <3>1 DEF Crash
    <3> QED
      BY <1>1, <2>1, <2>3, <3>2, <3>3, <3>4 DEF Next, Upload, Delete
  <2>5. requests[r].step = "removed" /\ Removed(r)
    BY <2>4 DEF DeleteCommits, DeleteFails
  <2>6. requests[r].id = i
    BY <1>1, <2>5 DEF Removed, Inv, Typed
  <2>7. holder[rows[i]] = requests[r].user
    BY <1>1, <2>5, <2>6 DEF Inv, Locked, Deleting
  <2> QED
    BY <2>5, <2>6, <2>7
<1>2. ASSUME Inv, [Next]_vars PROVE [Good]_vars
  BY <1>1, <1>2
<1> HIDE DEF Good
<1>3. Spec => [][Good]_vars
  BY <1>2, InvHolds, PTL DEF Spec
<1> QED
  BY <1>3 DEF DeletedByHolder, Good
=============================================================================
