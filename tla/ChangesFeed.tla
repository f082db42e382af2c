----------------------------- MODULE ChangesFeed -----------------------------
(***************************************************************************)
(* The runner of server/internal/pouchsync/sync.go: it follows the         *)
(* continuous _changes feed of the legacy CouchDB database and applies     *)
(* each change, with its mirror and the checkpoint, in one transaction.    *)
(*                                                                         *)
(* CouchDB is external: it numbers writes from 1 upwards (the opaque seq   *)
(* strings are numbers here) and its feed lists each document once, under  *)
(* the number of its newest write.  Number 0 stands for "no checkpoint     *)
(* row" and for since=now.  Failed reads of the checkpoint and the delay   *)
(* between attempts change no state and are left out.                      *)
(***************************************************************************)
EXTENDS Catalog, Integers

CONSTANTS
    SinceMode,  \* POUCHDB_SINCE, "now" or "checkpoint"
    Versions,   \* Versions[i]: documents the legacy system writes under id i
    MaxSeq      \* bound on the writes of the legacy system

ASSUME FeedAssumption ==
    /\ SinceMode \in {"now", "checkpoint"}
    /\ Versions \in [Ids -> SUBSET Doc]
    /\ MaxSeq \in Nat

VARIABLES
    lastSeq,    \* number of the newest write to the legacy database
    feed,       \* feed[i]: the newest write to document i, seq 0 if none
    mirror,     \* pouchdb_documents: the newest change of i applied
    checkpoint, \* pouchdb_checkpoints.last_seq
    phase,      \* where the runner is
    initial,    \* useInitialSince
    since,      \* what resolveSince returned
    position,   \* how far this connection has delivered
    change,     \* the change that was decoded last, with its id
    skipped     \* ghost: changes that a start at "now" has passed over

legacyVars == <<lastSeq, feed>>
storedVars == <<rows, mirror, checkpoint>>
runnerVars == <<phase, initial, since, position, change>>
vars == <<legacyVars, storedVars, runnerVars, skipped>>

Phases == {"resolving", "connecting", "streaming", "applying"}
Written == [seq: Nat, doc: Doc]
Change == [id: Ids, seq: Nat, doc: Doc]

NoDoc == [deleted |-> TRUE, ok |-> TRUE, title |-> NoTitle, refs |-> {}]
Unwritten == [i \in Ids |-> [seq |-> 0, doc |-> NoDoc]]

TypeOK ==
    /\ CatalogTypeOK
    /\ lastSeq \in Nat
    /\ feed \in [Ids -> Written]
    /\ mirror \in [Ids -> Written]
    /\ checkpoint \in Nat
    /\ phase \in Phases
    /\ initial \in BOOLEAN
    /\ since \in Nat
    /\ position \in Nat
    /\ change \in Change
    /\ skipped \subseteq Nat

Init ==
    /\ rows = [i \in Ids |-> NoRow]
    /\ lastSeq = 0
    /\ feed = Unwritten
    /\ mirror = Unwritten
    /\ checkpoint = 0
    /\ phase = "resolving"
    /\ initial = TRUE
    /\ since = 0
    /\ position = 0
    /\ change \in [id: Ids, seq: {0}, doc: {NoDoc}]
    /\ skipped = {}

-----------------------------------------------------------------------------
(* The legacy system writes document i. *)
LegacyWrite(i, d) ==
    /\ lastSeq < MaxSeq
    /\ d.deleted => feed[i].seq > 0
    /\ lastSeq' = lastSeq + 1
    /\ feed' = [feed EXCEPT ![i] = [seq |-> lastSeq + 1, doc |-> d]]
    /\ UNCHANGED <<storedVars, runnerVars, skipped>>

(* The editor of the application saves a row. *)
EditorSave(i, title, refs) ==
    /\ \/ HandleEditorClientPatch(i, title, refs)
       \/ HandleEditorContactPatch(i, title, refs)
       \/ HandleEditorClassificatorPatch(i, title, refs)
       \/ HandleEditorDevicePatch(i, title, refs)
    /\ UNCHANGED <<legacyVars, mirror, checkpoint, runnerVars, skipped>>

ResolvedSince == IF initial /\ SinceMode = "now" THEN 0 ELSE checkpoint

ResolveSince ==
    /\ phase = "resolving"
    /\ since' = ResolvedSince
    /\ initial' = FALSE
    /\ phase' = "connecting"
    /\ UNCHANGED <<legacyVars, storedVars, position, change, skipped>>

(* A stream from now begins after the newest write and passes over what    *)
(* has not been applied.                                                   *)
Pending == {i \in Ids : feed[i].seq # mirror[i].seq}

Connect ==
    /\ phase = "connecting"
    /\ phase' = "streaming"
    /\ position' = IF since = 0 THEN lastSeq ELSE since
    /\ skipped' = IF since = 0
                  THEN skipped \cup {feed[i].seq : i \in Pending}
                  ELSE skipped
    /\ UNCHANGED <<legacyVars, storedVars, initial, since, change>>

(* A refused connection, an error status, or the end of a stream. *)
Disconnect ==
    /\ phase \in {"connecting", "streaming"}
    /\ phase' = "resolving"
    /\ UNCHANGED <<legacyVars, storedVars, initial, since, position, change,
                   skipped>>

(* Mutation: the feed is taken to be in any order.                         *)
NextInAnyOrder(i, from) == feed[i].seq > from

(* i is the next document of the feed after number from. *)
NextAfter(i, from) ==
    /\ feed[i].seq > from
    /\ \A j \in Ids : feed[j].seq > from => feed[i].seq <= feed[j].seq

(* The document is decoded as it is now, and may be written again before   *)
(* it is applied.                                                          *)
Receive(i) ==
    /\ phase = "streaming"
    /\ NextAfter(i, position)
    /\ change' = [id |-> i, seq |-> feed[i].seq, doc |-> feed[i].doc]
    /\ phase' = "applying"
    /\ UNCHANGED <<legacyVars, storedVars, initial, since, position, skipped>>

(* The transaction of applyChange: mirror, typed row, checkpoint. *)
Committed ==
    /\ Applicable(change.id, change.doc)
    /\ rows' = Synced(change.id, change.doc)
    /\ mirror' = [mirror EXCEPT ![change.id] =
                      [seq |-> change.seq, doc |-> change.doc]]
    /\ checkpoint' = change.seq

ApplyChange ==
    /\ phase = "applying"
    /\ phase' = "streaming"
    /\ Committed
    /\ position' = change.seq
    /\ UNCHANGED <<legacyVars, initial, since, change, skipped>>

(* The commit succeeds and its answer is lost. *)
CommitUnknown ==
    /\ phase = "applying"
    /\ phase' = "resolving"
    /\ Committed
    /\ UNCHANGED <<legacyVars, initial, since, position, change, skipped>>

(* Any error rolls the transaction back and ends the connection. *)
ApplyFails ==
    /\ phase = "applying"
    /\ phase' = "resolving"
    /\ UNCHANGED <<legacyVars, storedVars, initial, since, position, change,
                   skipped>>

(* The server stops, or crashes, and is started again. *)
Restart ==
    /\ phase' = "resolving"
    /\ initial' = TRUE
    /\ UNCHANGED <<legacyVars, storedVars, since, position, change, skipped>>

-----------------------------------------------------------------------------
Next ==
    \/ \E i \in Ids : \E d \in Versions[i] : LegacyWrite(i, d)
    \/ \E i \in Ids, title \in Titles \cup {NoTitle}, refs \in SUBSET Ids :
           EditorSave(i, title, refs)
    \/ ResolveSince
    \/ Connect
    \/ Disconnect
    \/ \E i \in Ids : Receive(i)
    \/ ApplyChange
    \/ CommitUnknown
    \/ ApplyFails
    \/ Restart

Spec == Init /\ [][Next]_vars

(* Run repeats its loop until the server stops, and the delay between two  *)
(* rounds is bounded.  The network and the database are assumed to let     *)
(* every kind of step through again and again, and a transaction to end.   *)
Fairness ==
    /\ WF_vars(ResolveSince)
    /\ SF_vars(Connect)
    /\ SF_vars(\E i \in Ids : Receive(i))
    /\ SF_vars(ApplyChange)
    /\ WF_vars(ApplyChange \/ CommitUnknown \/ ApplyFails)

FairSpec == Spec /\ Fairness

-----------------------------------------------------------------------------
(* Whatever the checkpoint has passed is in the mirror, unless a start at  *)
(* "now" has passed over it: no disconnection, rolled back transaction,    *)
(* lost answer or restart makes the runner lose a change.                  *)
NothingSkipped ==
    \A i \in Ids :
        (feed[i].seq <= checkpoint /\ feed[i].seq \notin skipped)
            => mirror[i] = feed[i]

(* For the kinds that only the feed writes, table and mirror agree: the    *)
(* row is there exactly if the mirrored document is and had a title, and   *)
(* shows that title, unless the document was passed over for want of one   *)
(* after an earlier row.  A failed change leaves neither behind.           *)
FeedOnly == {i \in Ids : Kind[i] \notin Editable}

TableFollowsMirror ==
    \A i \in FeedOnly :
        LET d == mirror[i].doc
        IN  /\ d.deleted => ~rows[i].present
            /\ ~d.deleted /\ ~PassedOver(i, d)
                  => rows[i].present /\ rows[i].title = d.title

(* No row refers to one that is gone, and a reference names only what its  *)
(* foreign key may: tombstones clear the references to what they delete.   *)
ReferencesResolve ==
    \A i \in Ids : rows[i].refs = Resolved(i, rows[i].refs)

(* A step of the runner that changes a row applies a change newer than the *)
(* one its document was mirrored at: no change is applied twice, so that a *)
(* correction made in the editor stands until the document is written      *)
(* again in the legacy system (or its references are deleted).             *)
AppliedOnce ==
    [][rows' # rows /\ phase' # phase
           => \E i \in Ids : mirror'[i].seq > mirror[i].seq]_vars

(* Neither the checkpoint nor the mirror of a document ever goes back.     *)
NeverGoesBack ==
    [][/\ checkpoint' >= checkpoint
       /\ \A i \in Ids : mirror'[i].seq >= mirror[i].seq]_vars

(* In mode checkpoint nothing is passed over once there is a checkpoint,   *)
(* whatever disconnections and restarts follow.                            *)
CheckpointResumes ==
    [][SinceMode = "checkpoint" /\ checkpoint > 0
           => skipped' = skipped]_vars

(* The next change for a connection from the checkpoint cannot be applied: *)
(* the document does not parse, or its title is that of another row.       *)
Blocked ==
    /\ checkpoint > 0
    /\ \E i \in Ids : /\ NextAfter(i, checkpoint)
                      /\ ~Applicable(i, feed[i].doc)

CaughtUp == \A i \in Ids : feed[i].seq \in skipped \cup {mirror[i].seq}

(* When the legacy system has come to rest the runner catches up, unless   *)
(* the feed has reached a change that cannot be applied; nothing else      *)
(* keeps it from doing so, be it a failure, a lost answer or a restart.    *)
CatchesUpUnlessBlocked == <>[](CaughtUp \/ Blocked)
=============================================================================
