---------------------------- MODULE ServerProofs -----------------------------
(***************************************************************************)
(* Proofs about the parts of the server that share no table: ChangesFeed,  *)
(* for every set of documents, every kind and contents of them, either     *)
(* mode and every bound; TicketNumbers, for every number of tickets and of *)
(* open transactions; Avatars, for every number of concurrent uploads and  *)
(* of browsers.                                                            *)
(***************************************************************************)
EXTENDS ChangesFeed, TicketNumbers, Avatars, TLAPS

(***************************************************************************)
(*                            The changes feed                             *)
(***************************************************************************)

(***************************************************************************)
(* The inductive invariant.  Numbered: the numbers of the legacy database  *)
(* identify its writes.  Behind: mirror, checkpoint and position do not    *)
(* run ahead of it.  Delivered: a connection begins where nothing that was *)
(* not passed over is missing, and keeps that up.  InHand: the change that *)
(* is being applied is the next one after the position.                    *)
(***************************************************************************)
Numbered ==
    \A i \in Ids : /\ feed[i].seq <= lastSeq
                   /\ \A j \in Ids \ {i} :
                          feed[i].seq = feed[j].seq => feed[i].seq = 0

Behind ==
    /\ checkpoint <= lastSeq
    /\ \A i \in Ids : /\ mirror[i].seq <= feed[i].seq
                      /\ mirror[i].seq <= checkpoint
                      /\ mirror[i].seq = feed[i].seq => mirror[i] = feed[i]

Delivered ==
    /\ phase = "connecting" => since \in {0, checkpoint}
    /\ phase = "connecting" /\ SinceMode = "checkpoint" => since = checkpoint
    /\ phase \in {"streaming", "applying"} =>
          /\ checkpoint <= position
          /\ position <= lastSeq
          /\ \A i \in Ids :
                (feed[i].seq <= position /\ feed[i].seq \notin skipped)
                    => mirror[i] = feed[i]

InHand ==
    phase = "applying" =>
        /\ position < change.seq
        /\ change.seq <= feed[change.id].seq
        /\ change.seq = feed[change.id].seq => change.doc = feed[change.id].doc
        /\ \A j \in Ids \ {change.id} : feed[j].seq # change.seq
        /\ \A j \in Ids : feed[j].seq > position => feed[j].seq >= change.seq

FeedInv ==
    TypeOK /\ Numbered /\ Behind /\ Delivered /\ InHand /\ NothingSkipped

-----------------------------------------------------------------------------
(* What the mappers do to the tables keeps them well typed. *)
LEMMA SyncedType ==
    ASSUME CatalogTypeOK, NEW i \in Ids, NEW d \in Doc
    PROVE  Synced(i, d) \in [Ids -> Row]
<1>1. rows \in [Ids -> Row]
  BY DEF CatalogTypeOK
<1>2. NoRow \in Row
  BY DEF NoRow, Row
<1>3. Deleted(i) \in [Ids -> Row]
  <2> SUFFICES ASSUME NEW j \in Ids
               PROVE  (IF j = i \/ (Kind[j] = "contact" /\ i \in rows[j].refs)
                       THEN NoRow
                       ELSE [present |-> rows[j].present,
                             title |-> rows[j].title,
                             refs |-> rows[j].refs \ {i}]) \in Row
    BY DEF Deleted
  <2> QED
    BY <1>1, <1>2 DEF Row
<1>4. Upserted(i, d) \in [Ids -> Row]
  <2>1. Resolved(i, d.refs) \subseteq Ids
    BY DEF Resolved, Doc
  <2>2. [present |-> TRUE, title |-> d.title, refs |-> Resolved(i, d.refs)]
            \in Row
    BY <2>1 DEF Row, Doc
  <2> QED
    BY <1>1, <2>2 DEF Upserted
<1> QED
  BY <1>1, <1>3, <1>4 DEF Synced

LEMMA SavedType ==
    ASSUME CatalogTypeOK, NEW i \in Ids, NEW title \in Titles \cup {NoTitle},
           NEW refs \in SUBSET Ids, EditorSave(i, title, refs)
    PROVE  CatalogTypeOK'
<1>1. rows' = [rows EXCEPT ![i] = [present |-> TRUE, title |-> title,
                                   refs |-> refs]]
  BY DEF EditorSave, HandleEditorClientPatch, HandleEditorContactPatch,
         HandleEditorClassificatorPatch, HandleEditorDevicePatch, Saved
<1>2. [present |-> TRUE, title |-> title, refs |-> refs] \in Row
  BY DEF Row
<1> QED
  BY <1>1, <1>2 DEF CatalogTypeOK

(* The invariant holds at the start. *)
LEMMA InitFeedInv == Init => FeedInv
<1> SUFFICES ASSUME Init PROVE FeedInv
  OBVIOUS
<1>1. NoDoc \in Doc
  BY DEF NoDoc, Doc
<1>2. TypeOK
  BY <1>1 DEF Init, TypeOK, CatalogTypeOK, Row, NoRow, Unwritten, Written,
              Change, Phases
<1> QED
  BY <1>2 DEF Init, FeedInv, Numbered, Behind, Delivered, InHand,
              NothingSkipped, Unwritten

(* A write of the legacy system gets a number that nothing has reached. *)
LEMMA LegacyWriteKeeps ==
    ASSUME FeedInv, NEW i \in Ids, NEW d \in Versions[i], LegacyWrite(i, d)
    PROVE  FeedInv'
<1> USE FeedAssumption
<1>1. d \in Doc
  OBVIOUS
<1> DEFINE w == [seq |-> lastSeq + 1, doc |-> d]
<1>2. lastSeq \in Nat /\ w \in Written /\ w.seq = lastSeq + 1
  BY <1>1 DEF FeedInv, TypeOK, Written
<1>3. feed' = [feed EXCEPT ![i] = w] /\ lastSeq' = lastSeq + 1
  BY DEF LegacyWrite
<1> HIDE DEF w
<1>4. /\ feed'[i] = w
      /\ \A j \in Ids \ {i} : feed'[j] = feed[j]
      /\ feed \in [Ids -> Written]
      /\ \A j \in Ids : feed[j].seq \in Nat /\ mirror[j].seq \in Nat
  BY <1>3 DEF FeedInv, TypeOK, Written
<1>5. UNCHANGED <<rows, mirror, checkpoint, phase, initial, since, position,
                  change, skipped>>
  BY DEF LegacyWrite, storedVars, runnerVars
<1>6. TypeOK'
  BY <1>2, <1>3, <1>5 DEF FeedInv, TypeOK, CatalogTypeOK
<1>7. Numbered'
  BY <1>2, <1>3, <1>4 DEF FeedInv, Numbered
<1>8. Behind'
  BY <1>2, <1>3, <1>4, <1>5 DEF FeedInv, Behind, Numbered, TypeOK
<1>9. Delivered'
  BY <1>2, <1>3, <1>4, <1>5 DEF FeedInv, Delivered, TypeOK
<1>10. InHand'
  <2>1. change.id \in Ids /\ change.seq \in Nat
    BY DEF FeedInv, TypeOK, Change
  <2>2. position \in Nat
    BY DEF FeedInv, TypeOK
  <2>3. \A j \in Ids : feed[j].seq <= lastSeq
    BY DEF FeedInv, Numbered
  <2> QED
    BY <1>2, <1>3, <1>4, <1>5, <2>1, <2>2, <2>3 DEF FeedInv, InHand
<1>11. NothingSkipped'
  BY <1>2, <1>3, <1>4, <1>5 DEF FeedInv, NothingSkipped, Behind, TypeOK
<1> QED
  BY <1>6, <1>7, <1>8, <1>9, <1>10, <1>11 DEF FeedInv

(* The runner's bookkeeping outside a transaction. *)
LEMMA ConnectKeeps == FeedInv /\ Connect => FeedInv'
<1> SUFFICES ASSUME FeedInv, Connect PROVE FeedInv'
  OBVIOUS
<1>1. /\ UNCHANGED <<rows, mirror, checkpoint, lastSeq, feed, initial, since,
                      change>>
      /\ phase = "connecting" /\ phase' = "streaming"
      /\ position' = IF since = 0 THEN lastSeq ELSE since
      /\ skipped' = IF since = 0
                    THEN skipped \cup {feed[i].seq : i \in Pending}
                    ELSE skipped
  BY DEF Connect, storedVars, legacyVars
<1>2. /\ since \in {0, checkpoint}
      /\ lastSeq \in Nat /\ checkpoint \in Nat /\ checkpoint <= lastSeq
      /\ \A i \in Ids : feed[i].seq \in Nat
      /\ skipped \subseteq Nat
  BY <1>1 DEF FeedInv, Delivered, TypeOK, Behind, Written
<1>3. \A i \in Ids : feed[i].seq # mirror[i].seq => i \in Pending
  BY DEF Pending
<1>4. skipped' \subseteq Nat /\ skipped \subseteq skipped'
  BY <1>1, <1>2 DEF Pending
<1>5. TypeOK'
  BY <1>1, <1>2, <1>4 DEF FeedInv, TypeOK, Phases, CatalogTypeOK
<1>6. Numbered' /\ Behind' /\ InHand'
  BY <1>1 DEF FeedInv, Numbered, Behind, InHand
<1>7. NothingSkipped'
  BY <1>1, <1>4 DEF FeedInv, NothingSkipped
<1>8. Delivered'
  <2>1. CASE since = 0
    <3>1. \A i \in Ids : feed[i].seq \notin skipped'
                              => mirror[i].seq = feed[i].seq
      BY <1>1, <1>3, <2>1
    <3> QED
      BY <1>1, <1>2, <2>1, <3>1 DEF FeedInv, Delivered, Behind
  <2>2. CASE since # 0
    BY <1>1, <1>2, <2>2 DEF FeedInv, Delivered, NothingSkipped
  <2> QED
    BY <2>1, <2>2
<1> QED
  BY <1>5, <1>6, <1>7, <1>8 DEF FeedInv

LEMMA ResolveKeeps == FeedInv /\ ResolveSince => FeedInv'
<1> SUFFICES ASSUME FeedInv, ResolveSince PROVE FeedInv'
  OBVIOUS
<1>1. /\ UNCHANGED <<rows, mirror, checkpoint, lastSeq, feed, position,
                      change, skipped>>
      /\ phase' = "connecting" /\ initial' = FALSE
      /\ since' = IF initial /\ SinceMode = "now" THEN 0 ELSE checkpoint
  BY DEF ResolveSince, ResolvedSince, storedVars, legacyVars
<1>2. TypeOK'
  BY <1>1 DEF FeedInv, TypeOK, Phases, CatalogTypeOK
<1>3. Delivered'
  BY <1>1 DEF Delivered
<1> QED
  BY <1>1, <1>2, <1>3 DEF FeedInv, Numbered, Behind, InHand, NothingSkipped

LEMMA ReceiveKeeps ==
    ASSUME FeedInv, NEW i \in Ids, Receive(i)
    PROVE  FeedInv'
<1>1. /\ UNCHANGED <<rows, mirror, checkpoint, lastSeq, feed, initial, since,
                      position, skipped>>
      /\ phase = "streaming" /\ phase' = "applying"
      /\ NextAfter(i, position)
  BY DEF Receive, storedVars, legacyVars
<1>2. PICK c : c = [id |-> i, seq |-> feed[i].seq, doc |-> feed[i].doc]
  OBVIOUS
<1>3. change' = c
  BY <1>2 DEF Receive
<1>4. /\ feed[i] \in Written /\ position \in Nat
      /\ \A j \in Ids : feed[j].seq \in Nat
  BY DEF FeedInv, TypeOK, Written
<1>5. c \in Change /\ c.id = i /\ c.seq = feed[i].seq /\ c.doc = feed[i].doc
  BY <1>2, <1>4 DEF Change, Written
<1>6. TypeOK'
  BY <1>1, <1>3, <1>5 DEF FeedInv, TypeOK, Phases, CatalogTypeOK
<1>7. InHand'
  BY <1>1, <1>3, <1>4, <1>5 DEF FeedInv, InHand, NextAfter, Numbered
<1> QED
  BY <1>1, <1>6, <1>7 DEF FeedInv, Numbered, Behind, Delivered, NothingSkipped

(* What stops the connection leaves everything that is stored alone. *)
LEMMA StopKeeps ==
    FeedInv /\ (Disconnect \/ ApplyFails \/ Restart) => FeedInv'
<1> SUFFICES ASSUME FeedInv, Disconnect \/ ApplyFails \/ Restart
             PROVE  FeedInv'
  OBVIOUS
<1>1. /\ UNCHANGED <<rows, mirror, checkpoint, lastSeq, feed, since, position,
                      change, skipped>>
      /\ phase' = "resolving"
      /\ initial' \in {initial, TRUE}
  BY DEF Disconnect, ApplyFails, Restart, storedVars, legacyVars
<1>2. TypeOK'
  BY <1>1 DEF FeedInv, TypeOK, Phases, CatalogTypeOK
<1> QED
  BY <1>1, <1>2 DEF FeedInv, Numbered, Behind, Delivered, InHand,
                    NothingSkipped

(* The change in hand is newer than all that has been stored. *)
LEMMA InHandIsNew ==
    ASSUME FeedInv, phase = "applying"
    PROVE  /\ change.id \in Ids /\ change.seq \in Nat /\ change.doc \in Doc
           /\ checkpoint \in Nat /\ checkpoint < change.seq
           /\ mirror[change.id].seq \in Nat
           /\ mirror[change.id].seq < change.seq
<1>1. /\ change.id \in Ids /\ change.seq \in Nat /\ change.doc \in Doc
      /\ checkpoint \in Nat /\ position \in Nat
      /\ \A i \in Ids : mirror[i].seq \in Nat
  BY DEF FeedInv, TypeOK, Change, Written
<1>2. checkpoint <= position /\ position < change.seq
  BY DEF FeedInv, Delivered, InHand
<1>3. mirror[change.id].seq <= checkpoint
  BY <1>1 DEF FeedInv, Behind
<1> QED
  BY <1>1, <1>2, <1>3

(* The transaction, whether its answer arrives or not. *)
LEMMA CommittedKeeps ==
    ASSUME FeedInv, ApplyChange \/ CommitUnknown
    PROVE  FeedInv'
<1> DEFINE m == [seq |-> change.seq, doc |-> change.doc]
           k == change.id
<1>1. /\ UNCHANGED <<lastSeq, feed, initial, since, change, skipped>>
      /\ phase = "applying"
      /\ \/ phase' = "streaming" /\ position' = change.seq
         \/ phase' = "resolving" /\ position' = position
      /\ rows' = Synced(k, change.doc)
      /\ mirror' = [mirror EXCEPT ![k] = m]
      /\ checkpoint' = change.seq
  BY DEF ApplyChange, CommitUnknown, Committed, legacyVars
<1>2. /\ k \in Ids /\ change.seq \in Nat /\ change.doc \in Doc
      /\ mirror[k].seq < change.seq
      /\ checkpoint < change.seq
  BY <1>1, InHandIsNew
<1>3. m \in Written /\ m.seq = change.seq /\ m.doc = change.doc
  BY <1>2 DEF Written
<1>4. /\ mirror'[k] = m
      /\ \A j \in Ids \ {k} : mirror'[j] = mirror[j]
      /\ \A j \in Ids : /\ mirror[j].seq \in Nat /\ feed[j].seq \in Nat
                         /\ feed[j] \in Written
      /\ position \in Nat /\ lastSeq \in Nat /\ checkpoint \in Nat
  BY <1>1, <1>2 DEF FeedInv, TypeOK, Written
<1>5. /\ change.seq <= feed[k].seq /\ position < change.seq
      /\ change.seq = feed[k].seq => change.doc = feed[k].doc
      /\ \A j \in Ids \ {k} : feed[j].seq # change.seq
      /\ \A j \in Ids : feed[j].seq > position => feed[j].seq >= change.seq
  BY <1>1 DEF FeedInv, InHand
<1>6. change.seq <= lastSeq
  BY <1>2, <1>4, <1>5 DEF FeedInv, Numbered
<1>7. change.seq = feed[k].seq => m = feed[k]
  <2> SUFFICES ASSUME change.seq = feed[k].seq PROVE m = feed[k]
    OBVIOUS
  <2>1. change.doc = feed[k].doc
    BY <1>5
  <2> QED
    BY <2>1, <1>2, <1>4 DEF Written
<1> HIDE DEF m, k
<1>8. TypeOK'
  <2>1. CatalogTypeOK'
    BY <1>1, <1>2, SyncedType DEF FeedInv, TypeOK, CatalogTypeOK
  <2> QED
    BY <1>1, <1>2, <1>3, <2>1 DEF FeedInv, TypeOK, Phases
<1>9. Numbered'
  BY <1>1 DEF FeedInv, Numbered
<1>10. Behind'
  <2>1. ASSUME NEW j \in Ids
        PROVE  /\ mirror'[j].seq <= feed[j].seq
               /\ mirror'[j].seq <= change.seq
               /\ mirror'[j].seq = feed[j].seq => mirror'[j] = feed[j]
    <3>1. CASE j = k
      BY <1>2, <1>3, <1>4, <1>5, <1>7, <3>1
    <3>2. CASE j # k
      BY <1>2, <1>4, <3>2 DEF FeedInv, Behind
    <3> QED
      BY <3>1, <3>2
  <2> QED
    BY <1>1, <1>6, <2>1 DEF Behind
<1>11. \A j \in Ids : (feed[j].seq <= change.seq /\ feed[j].seq \notin skipped)
                           => mirror'[j] = feed[j]
  <2> SUFFICES ASSUME NEW j \in Ids, feed[j].seq <= change.seq,
                      feed[j].seq \notin skipped
               PROVE  mirror'[j] = feed[j]
    OBVIOUS
  <2>1. CASE j = k
    BY <1>2, <1>4, <1>5, <1>7, <2>1
  <2>2. CASE j # k
    <3>1. feed[j].seq <= position
      BY <1>2, <1>4, <1>5, <2>2
    <3> QED
      BY <1>1, <1>4, <2>2, <3>1 DEF FeedInv, Delivered
  <2> QED
    BY <2>1, <2>2
<1>12. Delivered' /\ NothingSkipped' /\ InHand'
  BY <1>1, <1>2, <1>6, <1>11 DEF Delivered, NothingSkipped, InHand
<1> QED
  BY <1>8, <1>9, <1>10, <1>12 DEF FeedInv

LEMMA SaveKeeps ==
    ASSUME FeedInv, NEW i \in Ids, NEW title \in Titles \cup {NoTitle},
           NEW refs \in SUBSET Ids, EditorSave(i, title, refs)
    PROVE  FeedInv'
<1>1. CatalogTypeOK'
  BY SavedType DEF FeedInv, TypeOK
<1> QED
  BY <1>1 DEF EditorSave, legacyVars, runnerVars, FeedInv, TypeOK, Numbered,
              Behind, Delivered, InHand, NothingSkipped

(* Every step keeps the invariant. *)
LEMMA NextKeeps == FeedInv /\ [Next]_vars => FeedInv'
<1> SUFFICES ASSUME FeedInv, [Next]_vars PROVE FeedInv'
  OBVIOUS
<1>1. ASSUME NEW i \in Ids, NEW d \in Versions[i], LegacyWrite(i, d)
      PROVE  FeedInv'
  BY <1>1, LegacyWriteKeeps
<1>2. ASSUME NEW i \in Ids, NEW title \in Titles \cup {NoTitle},
             NEW refs \in SUBSET Ids, EditorSave(i, title, refs)
      PROVE  FeedInv'
  BY <1>2, SaveKeeps
<1>3. ASSUME NEW i \in Ids, Receive(i) PROVE FeedInv'
  BY <1>3, ReceiveKeeps
<1>4. CASE UNCHANGED vars
  BY <1>4 DEF vars, legacyVars, storedVars, runnerVars, FeedInv, TypeOK,
              CatalogTypeOK, Numbered, Behind, Delivered, InHand,
              NothingSkipped
<1> QED
  BY <1>1, <1>2, <1>3, <1>4, ResolveKeeps, ConnectKeeps, StopKeeps,
     CommittedKeeps DEF Next

THEOREM FeedInvariant == Spec => []FeedInv
BY InitFeedInv, NextKeeps, PTL DEF Spec

(* The state of the runner, its tables and the feed has its type. *)
THEOREM FeedTypeCorrect == Spec => []TypeOK
<1>1. FeedInv => TypeOK
  BY DEF FeedInv
<1> QED
  BY <1>1, FeedInvariant, PTL

(* No change before the checkpoint is missing from the mirror, unless a    *)
(* start at now passed over it: no failure of sync.go loses one.           *)
THEOREM NoChangeIsLost == Spec => []NothingSkipped
<1>1. FeedInv => NothingSkipped
  BY DEF FeedInv
<1> QED
  BY <1>1, FeedInvariant, PTL

-----------------------------------------------------------------------------
(* Only the transaction of a change writes the stored state of the feed. *)
LEMMA OnlyCommitsStore ==
    ASSUME [Next]_vars, ~(ApplyChange \/ CommitUnknown)
    PROVE  /\ UNCHANGED <<mirror, checkpoint>>
           /\ rows' = rows \/ phase' = phase
<1>1. ASSUME NEW i \in Ids, NEW title \in Titles \cup {NoTitle},
             NEW refs \in SUBSET Ids, EditorSave(i, title, refs)
      PROVE  UNCHANGED <<mirror, checkpoint, phase>>
  BY <1>1 DEF EditorSave, runnerVars
<1>2. ASSUME NEW i \in Ids, NEW d \in Versions[i], LegacyWrite(i, d)
      PROVE  UNCHANGED <<mirror, checkpoint, rows>>
  BY <1>2 DEF LegacyWrite, storedVars
<1>3. ASSUME NEW i \in Ids, Receive(i)
      PROVE  UNCHANGED <<mirror, checkpoint, rows>>
  BY <1>3 DEF Receive, storedVars
<1>4. CASE ResolveSince \/ Connect \/ Disconnect \/ ApplyFails \/ Restart
  BY <1>4 DEF ResolveSince, Connect, Disconnect, ApplyFails, Restart,
              storedVars
<1>5. CASE UNCHANGED vars
  BY <1>5 DEF vars, storedVars
<1> QED
  BY <1>1, <1>2, <1>3, <1>4, <1>5 DEF Next

(* A transaction writes the mirror of its document only, with the change   *)
(* in hand.                                                                *)
LEMMA CommitsAdvance ==
    ASSUME FeedInv, ApplyChange \/ CommitUnknown
    PROVE  /\ checkpoint' >= checkpoint
           /\ \A i \in Ids : mirror'[i].seq >= mirror[i].seq
           /\ \E i \in Ids : mirror'[i].seq > mirror[i].seq
<1>1. /\ phase = "applying"
      /\ mirror' = [mirror EXCEPT ![change.id] =
                        [seq |-> change.seq, doc |-> change.doc]]
      /\ checkpoint' = change.seq
  BY DEF ApplyChange, CommitUnknown, Committed
<1>2. /\ change.id \in Ids /\ change.seq \in Nat
      /\ checkpoint \in Nat /\ checkpoint < change.seq
      /\ mirror[change.id].seq \in Nat
      /\ mirror[change.id].seq < change.seq
  BY <1>1, InHandIsNew
<1>3. /\ mirror \in [Ids -> Written]
      /\ \A i \in Ids : mirror[i].seq \in Nat
  BY DEF FeedInv, TypeOK, Written
<1>4. /\ mirror'[change.id].seq = change.seq
      /\ \A i \in Ids \ {change.id} : mirror'[i] = mirror[i]
  BY <1>1, <1>2, <1>3
<1> QED
  BY <1>1, <1>2, <1>3, <1>4

(* No change is applied twice: a save in the editor is not undone by the   *)
(* change it corrected.                                                    *)
THEOREM ChangesApplyOnce == Spec => AppliedOnce
<1>1. FeedInv /\ [Next]_vars
        => [rows' # rows /\ phase' # phase
              => \E i \in Ids : mirror'[i].seq > mirror[i].seq]_vars
  BY OnlyCommitsStore, CommitsAdvance
<1> QED
  BY <1>1, FeedInvariant, PTL DEF Spec, AppliedOnce

(* Checkpoint and mirror only advance. *)
THEOREM FeedNeverGoesBack == Spec => NeverGoesBack
<1>1. ASSUME FeedInv, [Next]_vars
      PROVE  /\ checkpoint' >= checkpoint
             /\ \A i \in Ids : mirror'[i].seq >= mirror[i].seq
  <2>1. CASE ApplyChange \/ CommitUnknown
    BY <1>1, <2>1, CommitsAdvance
  <2>2. CASE ~(ApplyChange \/ CommitUnknown)
    <3>1. UNCHANGED <<mirror, checkpoint>>
      BY <1>1, <2>2, OnlyCommitsStore
    <3>2. checkpoint \in Nat /\ \A i \in Ids : mirror[i].seq \in Nat
      BY <1>1 DEF FeedInv, TypeOK, Written
    <3> QED
      BY <3>1, <3>2
  <2> QED
    BY <2>1, <2>2
<1>2. FeedInv /\ [Next]_vars
        => [/\ checkpoint' >= checkpoint
            /\ \A i \in Ids : mirror'[i].seq >= mirror[i].seq]_vars
  BY <1>1
<1> QED
  BY <1>2, FeedInvariant, PTL DEF Spec, NeverGoesBack

(* In mode checkpoint a checkpoint, once there, is always resumed from. *)
THEOREM CheckpointAlwaysResumes == Spec => CheckpointResumes
<1>1. ASSUME FeedInv, Next, SinceMode = "checkpoint", checkpoint > 0
      PROVE  skipped' = skipped
  <2>1. CASE Connect
    <3>1. since = checkpoint
      BY <1>1, <2>1 DEF Connect, FeedInv, Delivered
    <3> QED
      BY <1>1, <2>1, <3>1 DEF Connect, FeedInv, TypeOK
  <2>2. ASSUME NEW i \in Ids, NEW title \in Titles \cup {NoTitle},
               NEW refs \in SUBSET Ids, EditorSave(i, title, refs)
        PROVE  skipped' = skipped
    BY <2>2 DEF EditorSave
  <2>3. ASSUME NEW i \in Ids, NEW d \in Versions[i], LegacyWrite(i, d)
        PROVE  skipped' = skipped
    BY <2>3 DEF LegacyWrite
  <2>4. ASSUME NEW i \in Ids, Receive(i)
        PROVE  skipped' = skipped
    BY <2>4 DEF Receive
  <2>5. CASE \/ ResolveSince \/ Disconnect \/ ApplyFails \/ Restart
             \/ ApplyChange \/ CommitUnknown
    BY <2>5 DEF ResolveSince, Disconnect, ApplyFails, Restart, ApplyChange,
                CommitUnknown
  <2> QED
    BY <1>1, <2>1, <2>2, <2>3, <2>4, <2>5 DEF Next
<1>2. FeedInv /\ [Next]_vars
        => [SinceMode = "checkpoint" /\ checkpoint > 0
              => skipped' = skipped]_vars
  BY <1>1
<1> QED
  BY <1>2, FeedInvariant, PTL DEF Spec, CheckpointResumes

-----------------------------------------------------------------------------
(* A reference stays resolved while the row it names stays. *)
LEMMA SyncedResolves ==
    ASSUME CatalogTypeOK, ReferencesResolve, NEW k \in Ids, NEW d \in Doc,
           rows' = Synced(k, d)
    PROVE  ReferencesResolve'
<1> USE CatalogAssumption
<1>1. /\ rows \in [Ids -> Row]
      /\ \A i \in Ids, r \in Ids : r \in rows[i].refs
             => rows[r].present /\ Kind[r] \in Parents(Kind[i])
      /\ \A i \in Ids : rows[i].refs \subseteq Ids
  BY DEF CatalogTypeOK, Row, ReferencesResolve, Resolved
<1>2. \A i \in Ids : /\ Kind[i] \notin Parents(Kind[i])
                     /\ "contact" \notin Parents(Kind[i])
  BY DEF Parents, Kinds
<1>3. SUFFICES ASSUME NEW i \in Ids, NEW r \in rows'[i].refs
               PROVE  rows'[r].present /\ Kind[r] \in Parents(Kind[i])
  BY DEF ReferencesResolve, Resolved
<1>4. CASE d.deleted
  <2>1. rows' = [j \in Ids |->
                    IF j = k \/ (Kind[j] = "contact" /\ k \in rows[j].refs)
                    THEN NoRow
                    ELSE [present |-> rows[j].present, title |-> rows[j].title,
                          refs |-> rows[j].refs \ {k}]]
    BY <1>4 DEF Synced, Deleted
  <2>2. r \in rows[i].refs /\ r # k
    BY <2>1 DEF NoRow
  <2>3. /\ r \in Ids /\ rows[r].present
        /\ Kind[r] \in Parents(Kind[i]) /\ Kind[r] # "contact"
    BY <1>1, <1>2, <2>2
  <2> QED
    BY <2>1, <2>2, <2>3
<1>5. CASE ~d.deleted /\ PassedOver(k, d)
  <2>1. rows' = rows
    BY <1>5 DEF Synced
  <2> QED
    BY <1>1, <2>1
<1>6. CASE ~d.deleted /\ ~PassedOver(k, d)
  <2> DEFINE n == [present |-> TRUE, title |-> d.title,
                   refs |-> Resolved(k, d.refs)]
  <2>1. rows' = [rows EXCEPT ![k] = n]
    BY <1>6 DEF Synced, Upserted
  <2>2. n.present /\ n.refs = Resolved(k, d.refs)
    OBVIOUS
  <2> HIDE DEF n
  <2>3. rows'[k] = n /\ \A j \in Ids \ {k} : rows'[j] = rows[j]
    BY <1>1, <2>1
  <2>4. r \in Ids /\ rows[r].present /\ Kind[r] \in Parents(Kind[i])
    <3>1. CASE i = k
      BY <2>2, <2>3, <3>1 DEF Resolved, Doc
    <3>2. CASE i # k
      BY <1>1, <2>3, <3>2
    <3> QED
      BY <3>1, <3>2
  <2> QED
    BY <2>2, <2>3, <2>4
<1> QED
  BY <1>4, <1>5, <1>6

LEMMA SavedResolves ==
    ASSUME CatalogTypeOK, ReferencesResolve, NEW k \in Ids,
           NEW title \in Titles \cup {NoTitle}, NEW refs \in SUBSET Ids,
           EditorSave(k, title, refs)
    PROVE  ReferencesResolve'
<1> DEFINE n == [present |-> TRUE, title |-> title, refs |-> refs]
<1>1. rows' = [rows EXCEPT ![k] = n] /\ Savable(k, title, refs)
  BY DEF EditorSave, HandleEditorClientPatch, HandleEditorContactPatch,
         HandleEditorClassificatorPatch, HandleEditorDevicePatch, Saved
<1>2. n.present /\ n.refs = refs /\ rows \in [Ids -> Row]
  BY DEF CatalogTypeOK
<1> HIDE DEF n
<1>3. /\ rows'[k] = n
      /\ \A j \in Ids \ {k} : rows'[j] = rows[j]
      /\ \A j \in Ids : rows[j].present => rows'[j].present
  BY <1>1, <1>2
<1>4. SUFFICES ASSUME NEW i \in Ids, NEW r \in rows'[i].refs
               PROVE  /\ r \in Ids /\ rows[r].present
                      /\ Kind[r] \in Parents(Kind[i])
  BY <1>3 DEF ReferencesResolve, Resolved
<1>5. CASE i = k
  BY <1>1, <1>2, <1>3, <1>5 DEF Savable, Resolved
<1>6. CASE i # k
  BY <1>2, <1>3, <1>6 DEF ReferencesResolve, Resolved, Row
<1> QED
  BY <1>5, <1>6

(* Every step keeps the references; the tables change in two ways only. *)
LEMMA TablesChange ==
    ASSUME FeedInv, [Next]_vars
    PROVE  \/ rows' = rows /\ mirror' = mirror
           \/ ApplyChange \/ CommitUnknown
           \/ /\ mirror' = mirror
              /\ \E i \in Ids, title \in Titles \cup {NoTitle},
                    refs \in SUBSET Ids : EditorSave(i, title, refs)
BY DEF Next, LegacyWrite, ResolveSince, Connect, Disconnect, Receive,
       ApplyFails, Restart, EditorSave, storedVars, vars

LEMMA CommitFacts ==
    ASSUME FeedInv, ApplyChange \/ CommitUnknown
    PROVE  /\ change.id \in Ids /\ change.doc \in Doc
           /\ rows' = Synced(change.id, change.doc)
           /\ mirror'[change.id].doc = change.doc
           /\ \A i \in Ids \ {change.id} : mirror'[i] = mirror[i]
<1>1. /\ phase = "applying"
      /\ rows' = Synced(change.id, change.doc)
      /\ mirror' = [mirror EXCEPT ![change.id] =
                        [seq |-> change.seq, doc |-> change.doc]]
  BY DEF ApplyChange, CommitUnknown, Committed
<1>2. change.id \in Ids /\ change.doc \in Doc
  BY <1>1, InHandIsNew
<1>3. mirror \in [Ids -> Written]
  BY DEF FeedInv, TypeOK
<1> QED
  BY <1>1, <1>2, <1>3

(* No row refers to a row that is gone, whatever documents and tombstones  *)
(* arrive in whatever order beside the saves of the editor.                *)
THEOREM ReferencesAlwaysResolve == Spec => []ReferencesResolve
<1>1. Init => ReferencesResolve
  <2> SUFFICES ASSUME Init, NEW i \in Ids
               PROVE  rows[i].refs = Resolved(i, rows[i].refs)
    BY DEF ReferencesResolve
  <2>1. rows[i].refs = {}
    BY DEF Init, NoRow
  <2> QED
    BY <2>1 DEF Resolved
<1>2. FeedInv /\ ReferencesResolve /\ [Next]_vars => ReferencesResolve'
  <2> SUFFICES ASSUME FeedInv, ReferencesResolve, [Next]_vars
               PROVE  ReferencesResolve'
    OBVIOUS
  <2>1. CatalogTypeOK
    BY DEF FeedInv, TypeOK
  <2>2. CASE rows' = rows /\ mirror' = mirror
    BY <2>2 DEF ReferencesResolve, Resolved
  <2>3. CASE ApplyChange \/ CommitUnknown
    BY <2>1, <2>3, CommitFacts, SyncedResolves
  <2>4. ASSUME NEW i \in Ids, NEW title \in Titles \cup {NoTitle},
               NEW refs \in SUBSET Ids, EditorSave(i, title, refs)
        PROVE  ReferencesResolve'
    BY <2>1, <2>4, SavedResolves
  <2> QED
    BY <2>2, <2>3, <2>4, TablesChange
<1> QED
  BY <1>1, <1>2, FeedInvariant, PTL DEF Spec

(* Tables that only the feed writes show what is mirrored. *)
THEOREM TableAlwaysFollows == Spec => []TableFollowsMirror
<1> USE CatalogAssumption
<1>1. Init => TableFollowsMirror
  <2> SUFFICES ASSUME Init, NEW i \in FeedOnly
               PROVE  mirror[i].doc.deleted /\ ~rows[i].present
    BY DEF TableFollowsMirror
  <2> QED
    BY DEF Init, FeedOnly, NoRow, Unwritten, NoDoc
<1>2. FeedInv /\ TableFollowsMirror /\ [Next]_vars => TableFollowsMirror'
  <2> SUFFICES ASSUME FeedInv, TableFollowsMirror, [Next]_vars,
                      NEW i \in FeedOnly
               PROVE  /\ mirror'[i].doc.deleted => ~rows'[i].present
                      /\ (~mirror'[i].doc.deleted
                              /\ ~PassedOver(i, mirror'[i].doc))
                            => /\ rows'[i].present
                               /\ rows'[i].title = mirror'[i].doc.title
    BY DEF TableFollowsMirror, PassedOver
  <2>1. /\ i \in Ids /\ Kind[i] # "contact" /\ Kind[i] \notin Editable
        /\ rows \in [Ids -> Row]
    BY DEF FeedOnly, Editable, FeedInv, TypeOK, CatalogTypeOK
  <2>2. /\ mirror[i].doc.deleted => ~rows[i].present
        /\ (~mirror[i].doc.deleted /\ ~PassedOver(i, mirror[i].doc))
              => rows[i].present /\ rows[i].title = mirror[i].doc.title
    BY DEF TableFollowsMirror
  <2>3. CASE rows' = rows /\ mirror' = mirror
    BY <2>2, <2>3
  <2>4. CASE ApplyChange \/ CommitUnknown
    <3> DEFINE k == change.id
               d == change.doc
    <3>1. /\ k \in Ids /\ d \in Doc /\ rows' = Synced(k, d)
          /\ mirror'[k].doc = d
          /\ \A j \in Ids \ {k} : mirror'[j] = mirror[j]
      BY <2>4, CommitFacts
    <3> HIDE DEF k, d
    <3>2. CASE d.deleted
      <4>1. rows'[i] = IF i = k THEN NoRow
                       ELSE [present |-> rows[i].present,
                             title |-> rows[i].title,
                             refs |-> rows[i].refs \ {k}]
        BY <2>1, <3>1, <3>2 DEF Synced, Deleted
      <4>2. CASE i = k
        <5>1. ~rows'[i].present
          BY <4>1, <4>2 DEF NoRow
        <5> QED
          BY <3>1, <3>2, <4>2, <5>1
      <4>3. CASE i # k
        <5>1. /\ rows'[i].present = rows[i].present
              /\ rows'[i].title = rows[i].title
              /\ mirror'[i] = mirror[i]
          BY <2>1, <3>1, <4>1, <4>3
        <5> QED
          BY <2>2, <5>1
      <4> QED
        BY <4>2, <4>3
    <3>3. CASE ~d.deleted /\ PassedOver(k, d)
      <4>1. rows' = rows
        BY <3>1, <3>3 DEF Synced
      <4>2. CASE i = k
        BY <3>1, <3>3, <4>2
      <4>3. CASE i # k
        BY <2>1, <2>2, <3>1, <4>1, <4>3
      <4> QED
        BY <4>2, <4>3
    <3>4. CASE ~d.deleted /\ ~PassedOver(k, d)
      <4>1. rows' = [rows EXCEPT ![k] = [present |-> TRUE, title |-> d.title,
                                         refs |-> Resolved(k, d.refs)]]
        BY <3>1, <3>4 DEF Synced, Upserted
      <4>2. CASE i = k
        BY <2>1, <3>1, <3>4, <4>1, <4>2
      <4>3. CASE i # k
        BY <2>1, <2>2, <3>1, <4>1, <4>3
      <4> QED
        BY <4>2, <4>3
    <3> QED
      BY <3>2, <3>3, <3>4
  <2>5. ASSUME NEW j \in Ids, NEW title \in Titles \cup {NoTitle},
               NEW refs \in SUBSET Ids, EditorSave(j, title, refs),
               mirror' = mirror
        PROVE  rows'[i] = rows[i] /\ mirror' = mirror
    BY <2>1, <2>5 DEF EditorSave, HandleEditorClientPatch,
       HandleEditorContactPatch, HandleEditorClassificatorPatch,
       HandleEditorDevicePatch, Saved, Editable
  <2> QED
    BY <2>2, <2>3, <2>4, <2>5, TablesChange
<1> QED
  BY <1>1, <1>2, FeedInvariant, PTL DEF Spec

(***************************************************************************)
(*                         The numbers of tickets                          *)
(***************************************************************************)

(***************************************************************************)
(* The inductive invariant.  The row that the feed has not committed yet   *)
(* is below the sequence too, and it keeps the number of a row that is     *)
(* there already.                                                          *)
(***************************************************************************)
FeedAhead ==
    ~Idle =>
        /\ inserting.ticket \in Tickets /\ inserting.number \in Numbers
        /\ inserting.ticket \notin crossed => inserting.number <= last
        /\ number[inserting.ticket] # NoNumber => inserting.number = number[inserting.ticket]
        /\ inserting.ticket \in Created => number[inserting.ticket] # NoNumber

NumbersApart ==
    \A s, t \in Created \ crossed : s # t =>
        \A n \in {number[s], drawn[s]} \ {NoNumber} :
            n \notin {number[t], drawn[t]}

OnlyCreatedOpen ==
    \A t \in Tickets : drawn[t] # NoNumber => t \in Created /\ number[t] = NoNumber

NumbersInv == NumbersTypeOK /\ SequenceAhead /\ FeedAhead /\ NumbersApart /\ OnlyCreatedOpen

LEMMA NumbersAreNats == ASSUME NumbersAssumption
                        PROVE  Numbers \subseteq Nat /\ NoNumber \notin Numbers
  BY NumbersAssumption DEF Numbers

LEMMA NumbersInvInit == ASSUME NumbersAssumption PROVE NumbersInit => NumbersInv
<1> SUFFICES ASSUME NumbersInit PROVE NumbersInv
  OBVIOUS
<1>1. \A t \in Tickets : number[t] = NoNumber /\ drawn[t] = NoNumber
  BY DEF NumbersInit
<1>2. Idle
  BY DEF NumbersInit, Idle
<1>3. NumbersTypeOK
  <2>1. last \in Numbers
    BY NumbersAssumption DEF NumbersInit, Numbers
  <2>2. /\ number \in [Tickets -> Numbers \cup {NoNumber}]
        /\ drawn \in [Tickets -> Numbers \cup {NoNumber}]
    BY DEF NumbersInit
  <2>3. inserting \in [ticket: Tickets \cup {NoTicket}, number: Numbers \cup {NoNumber}]
    BY DEF NumbersInit, NoInsert
  <2>4. crossed \subseteq Tickets
    BY DEF NumbersInit
  <2> QED
    BY <2>1, <2>2, <2>3, <2>4 DEF NumbersTypeOK
<1>4. SequenceAhead
  BY <1>1 DEF SequenceAhead
<1>5. FeedAhead
  BY <1>2 DEF FeedAhead
<1>6. NumbersApart
  <2> SUFFICES ASSUME NEW s \in Created \ crossed
               PROVE  {number[s], drawn[s]} \ {NoNumber} = {}
    BY DEF NumbersApart
  <2>1. s \in Tickets
    BY DEF Tickets
  <2> QED
    BY <2>1, <1>1
<1>7. OnlyCreatedOpen
  BY <1>1 DEF OnlyCreatedOpen
<1> QED
  BY <1>3, <1>4, <1>5, <1>6, <1>7 DEF NumbersInv

LEMMA CreateStep ==
    ASSUME NumbersAssumption, NumbersInv, NEW t \in Tickets, Create(t)
    PROVE  NumbersInv'
<1>1. /\ t \in Created /\ number[t] = NoNumber /\ drawn[t] = NoNumber
      /\ last < MaxNumber /\ last' = last + 1
      /\ UNCHANGED <<number, inserting, crossed>>
  BY DEF Create, NextVal
<1>2. last \in Nat /\ last + 1 \in Numbers
  BY <1>1, NumbersAssumption DEF NumbersInv, NumbersTypeOK, Numbers
<1>3. /\ drawn' \in [Tickets -> Numbers \cup {NoNumber}]
      /\ drawn'[t] = last + 1
      /\ \A s \in Tickets \ {t} : drawn'[s] = drawn[s]
  BY <1>2 DEF Create, NumbersInv, NumbersTypeOK
<1>4. NumbersTypeOK'
  BY <1>1, <1>2, <1>3 DEF NumbersInv, NumbersTypeOK
<1>5. \A s \in Tickets \ crossed :
          \A n \in {number[s], drawn[s]} \ {NoNumber} : n \in Nat /\ n <= last
  BY NumbersAreNats, NumbersAssumption DEF NumbersInv, NumbersTypeOK, SequenceAhead
<1>6. SequenceAhead'
  BY <1>1, <1>2, <1>3, <1>5 DEF SequenceAhead
<1>7. FeedAhead'
  <2>1. ~Idle => inserting.number \in Nat
    BY NumbersAreNats, NumbersAssumption DEF NumbersInv, FeedAhead
  <2> QED
    BY <1>1, <1>2, <2>1 DEF NumbersInv, FeedAhead, Idle
<1>8. NumbersApart'
  <2>1. \A s \in (Created \ crossed) \ {t} :
            last + 1 \notin {number[s], drawn[s]}
    <3> SUFFICES ASSUME NEW s \in Created \ crossed,
                        last + 1 \in {number[s], drawn[s]}
                 PROVE  FALSE
      OBVIOUS
    <3>1. last + 1 # NoNumber
      BY <1>2, NumbersAssumption
    <3>2. s \in Tickets
      BY DEF Tickets
    <3>3. last + 1 <= last
      BY <3>1, <3>2, <1>5
    <3> QED
      BY <3>3, <1>2
  <2>2. Created \subseteq Tickets
    BY DEF Tickets
  <2> QED
    BY <1>1, <1>3, <2>1, <2>2 DEF NumbersInv, NumbersApart
<1>9. OnlyCreatedOpen'
  BY <1>1, <1>3 DEF NumbersInv, OnlyCreatedOpen
<1> QED
  BY <1>4, <1>6, <1>7, <1>8, <1>9 DEF NumbersInv

LEMMA CommitStep ==
    ASSUME NumbersAssumption, NumbersInv, NEW t \in Tickets, Commit(t)
    PROVE  NumbersInv'
<1>1. /\ drawn[t] # NoNumber /\ number[t] = NoNumber /\ t \in Created
      /\ UNCHANGED <<last, inserting, crossed>>
  BY DEF Commit, Open, NumbersInv, OnlyCreatedOpen
<1>2. /\ number' \in [Tickets -> Numbers \cup {NoNumber}]
      /\ drawn' \in [Tickets -> Numbers \cup {NoNumber}]
      /\ number'[t] = drawn[t] /\ drawn'[t] = NoNumber
      /\ \A s \in Tickets \ {t} : number'[s] = number[s] /\ drawn'[s] = drawn[s]
  BY DEF Commit, NumbersInv, NumbersTypeOK
<1>3. NumbersTypeOK' /\ SequenceAhead'
  BY <1>1, <1>2 DEF NumbersInv, NumbersTypeOK, SequenceAhead
<1>4. FeedAhead'
  <2>1. ~Idle => inserting.ticket # t
    BY <1>1 DEF NumbersInv, FeedAhead
  <2> QED
    BY <1>1, <1>2, <2>1 DEF NumbersInv, FeedAhead, Idle
<1>5. NumbersApart' /\ OnlyCreatedOpen'
  <2>1. Created \subseteq Tickets
    BY DEF Tickets
  <2> QED
    BY <1>1, <1>2, <2>1 DEF NumbersInv, NumbersApart, OnlyCreatedOpen
<1> QED
  BY <1>3, <1>4, <1>5 DEF NumbersInv

LEMMA AbortStep ==
    ASSUME NumbersAssumption, NumbersInv, NEW t \in Tickets, Abort(t)
    PROVE  NumbersInv'
<1>1. /\ drawn[t] # NoNumber /\ number[t] = NoNumber /\ t \in Created
      /\ crossed' = crossed \ {t}
      /\ UNCHANGED <<last, number, inserting>>
  BY DEF Abort, Open, NumbersInv, OnlyCreatedOpen
<1>2. /\ drawn' \in [Tickets -> Numbers \cup {NoNumber}]
      /\ drawn'[t] = NoNumber
      /\ \A s \in Tickets \ {t} : drawn'[s] = drawn[s]
  BY DEF Abort, NumbersInv, NumbersTypeOK
<1>3. NumbersTypeOK' /\ SequenceAhead'
  BY <1>1, <1>2 DEF NumbersInv, NumbersTypeOK, SequenceAhead
<1>4. FeedAhead'
  <2>1. ~Idle => inserting.ticket # t
    BY <1>1 DEF NumbersInv, FeedAhead
  <2> QED
    BY <1>1, <1>2, <2>1 DEF NumbersInv, FeedAhead, Idle
<1>5. NumbersApart' /\ OnlyCreatedOpen'
  <2>1. Created \subseteq Tickets
    BY DEF Tickets
  <2> QED
    BY <1>1, <1>2, <2>1 DEF NumbersInv, NumbersApart, OnlyCreatedOpen
<1> QED
  BY <1>3, <1>4, <1>5 DEF NumbersInv

-----------------------------------------------------------------------------
LEMMA NumberedStep ==
    ASSUME NumbersAssumption, NumbersInv, NEW t \in Tickets,
           NEW n \in Numbers \ {0}, ApplyNumbered(t, n)
    PROVE  NumbersInv'
<1> DEFINE own == IF number[t] = NoNumber THEN n ELSE number[t]
<1>1. /\ t \in LegacyTickets \/ number[t] # NoNumber
      /\ inserting' = [ticket |-> t, number |-> own]
      /\ crossed' = crossed \cup Open
      /\ UNCHANGED <<number, drawn>>
  BY DEF ApplyNumbered
<1>2. PICK m \in Numbers : Highest(m, own) /\ last' = m
  BY DEF ApplyNumbered
<1>3. own \in Numbers
  BY DEF NumbersInv, NumbersTypeOK
<1> HIDE DEF own
<1>4. own <= last' /\ \A s \in Tickets : number[s] # NoNumber => number[s] <= last'
  BY <1>2 DEF Highest, Taken
<1>5. NumbersTypeOK'
  BY <1>1, <1>2, <1>3 DEF NumbersInv, NumbersTypeOK, Open
<1>6. SequenceAhead'
  BY <1>1, <1>4 DEF SequenceAhead, Open
<1>7. FeedAhead'
  <2>1. t \in Created => number[t] # NoNumber
    BY <1>1, NumbersAssumption DEF Tickets
  <2>2. number[t] # NoNumber => own = number[t]
    BY DEF own
  <2> QED
    BY <1>1, <1>3, <1>4, <2>1, <2>2 DEF FeedAhead
<1>8. NumbersApart' /\ OnlyCreatedOpen'
  BY <1>1 DEF NumbersInv, NumbersApart, OnlyCreatedOpen
<1> QED
  BY <1>5, <1>6, <1>7, <1>8 DEF NumbersInv

LEMMA UnnumberedStep ==
    ASSUME NumbersAssumption, NumbersInv, NEW t \in Tickets, ApplyUnnumbered(t)
    PROVE  NumbersInv'
<1> DEFINE own == IF number[t] = NoNumber THEN last + 1 ELSE number[t]
<1>1. /\ t \in LegacyTickets \/ number[t] # NoNumber
      /\ inserting' = [ticket |-> t, number |-> own]
      /\ last < MaxNumber /\ last' = last + 1
      /\ UNCHANGED <<number, drawn, crossed>>
  BY DEF ApplyUnnumbered, NextVal
<1>2. last \in Nat /\ last + 1 \in Numbers
  BY <1>1, NumbersAssumption DEF NumbersInv, NumbersTypeOK, Numbers
<1>3. own \in Numbers
  BY <1>2 DEF NumbersInv, NumbersTypeOK
<1>4. \A s \in Tickets \ crossed :
          \A k \in {number[s], drawn[s]} \ {NoNumber} : k \in Nat /\ k <= last
  BY NumbersAreNats, NumbersAssumption DEF NumbersInv, NumbersTypeOK, SequenceAhead
<1>5. NumbersTypeOK'
  BY <1>1, <1>2, <1>3 DEF NumbersInv, NumbersTypeOK
<1>6. SequenceAhead'
  BY <1>1, <1>2, <1>4 DEF SequenceAhead
<1>7. t \notin crossed => own <= last + 1
  BY <1>2, <1>4
<1>8. number[t] # NoNumber => own = number[t]
  OBVIOUS
<1> HIDE DEF own
<1>9. FeedAhead'
  <2>1. t \in Created => number[t] # NoNumber
    BY <1>1, NumbersAssumption DEF Tickets
  <2> QED
    BY <1>1, <1>3, <1>7, <1>8, <2>1 DEF FeedAhead
<1>10. NumbersApart' /\ OnlyCreatedOpen'
  BY <1>1 DEF NumbersInv, NumbersApart, OnlyCreatedOpen
<1> QED
  BY <1>5, <1>6, <1>9, <1>10 DEF NumbersInv

LEMMA FeedStep ==
    ASSUME NumbersAssumption, NumbersInv, FeedCommits \/ FeedFails
    PROVE  NumbersInv'
<1> DEFINE t == inserting.ticket
<1>1. /\ ~Idle /\ inserting' = NoInsert /\ UNCHANGED <<last, drawn, crossed>>
  BY DEF FeedCommits, FeedFails
<1>2. /\ t \in Tickets /\ inserting.number \in Numbers
      /\ t \notin crossed => inserting.number <= last
      /\ number[t] # NoNumber => inserting.number = number[t]
      /\ t \in Created => number[t] # NoNumber
  BY <1>1 DEF NumbersInv, FeedAhead
<1>3. /\ number' \in [Tickets -> Numbers \cup {NoNumber}]
      /\ number'[t] \in {inserting.number, number[t]}
      /\ \A s \in Tickets \ {t} : number'[s] = number[s]
  BY <1>2 DEF FeedCommits, FeedFails, NumbersInv, NumbersTypeOK
<1>4. \A s \in Created : number'[s] = number[s]
  BY <1>2, <1>3 DEF Tickets
<1>5. NoInsert \in [ticket: Tickets \cup {NoTicket}, number: Numbers \cup {NoNumber}]
  BY DEF NoInsert
<1>6. NumbersTypeOK'
  BY <1>1, <1>3, <1>5 DEF NumbersInv, NumbersTypeOK
<1>7. SequenceAhead'
  BY <1>1, <1>2, <1>3 DEF NumbersInv, SequenceAhead
<1>8. FeedAhead'
  BY <1>1 DEF FeedAhead, Idle
<1>9. NumbersApart' /\ OnlyCreatedOpen'
  BY <1>1, <1>4 DEF NumbersInv, NumbersApart, OnlyCreatedOpen
<1> QED
  BY <1>6, <1>7, <1>8, <1>9 DEF NumbersInv

LEMMA TombstoneStep ==
    ASSUME NumbersAssumption, NumbersInv, NEW t \in Tickets, Delete(t)
    PROVE  NumbersInv'
<1>1. /\ Idle /\ t \notin Created
      /\ UNCHANGED <<last, drawn, inserting, crossed>>
      /\ number' \in [Tickets -> Numbers \cup {NoNumber}]
      /\ number'[t] = NoNumber
      /\ \A s \in Tickets \ {t} : number'[s] = number[s]
  BY NumbersAssumption DEF Delete, NumbersInv, NumbersTypeOK
<1>2. NumbersTypeOK' /\ SequenceAhead'
  BY <1>1 DEF NumbersInv, NumbersTypeOK, SequenceAhead
<1>3. FeedAhead'
  BY <1>1 DEF FeedAhead, Idle
<1>4. NumbersApart' /\ OnlyCreatedOpen'
  <2>1. Created \subseteq Tickets
    BY DEF Tickets
  <2> QED
    BY <1>1, <2>1 DEF NumbersInv, NumbersApart, OnlyCreatedOpen
<1> QED
  BY <1>2, <1>3, <1>4 DEF NumbersInv

LEMMA NumbersInvHolds == NumbersSpec => []NumbersInv
<1>1. NumbersInit => NumbersInv
  BY NumbersInvInit, NumbersAssumption
<1>2. NumbersInv /\ [NumbersNext]_numberVars => NumbersInv'
  <2>1. ASSUME NumbersInv, NumbersNext PROVE NumbersInv'
    BY <2>1, NumbersAssumption, CreateStep, CommitStep, AbortStep,
       NumberedStep, UnnumberedStep, FeedStep, TombstoneStep DEF NumbersNext
  <2>2. ASSUME NumbersInv, UNCHANGED numberVars PROVE NumbersInv'
    BY <2>2 DEF numberVars, NumbersInv, NumbersTypeOK, SequenceAhead, FeedAhead, NumbersApart,
       OnlyCreatedOpen, Idle
  <2> QED
    BY <2>1, <2>2
<1> QED
  BY <1>1, <1>2, PTL DEF NumbersSpec

-----------------------------------------------------------------------------
(* The state has its type. *)
THEOREM NumbersTypeCorrect == NumbersSpec => []NumbersTypeOK
<1>1. NumbersInv => NumbersTypeOK
  BY DEF NumbersInv
<1> QED
  BY <1>1, NumbersInvHolds, PTL

(* The sequence is ahead of every number but of tickets that were being    *)
(* created while the feed set it.                                          *)
THEOREM SequenceStaysAhead == NumbersSpec => []SequenceAhead
<1>1. NumbersInv => SequenceAhead
  BY DEF NumbersInv
<1> QED
  BY <1>1, NumbersInvHolds, PTL

(* With the same exception, tickets of the server have different numbers,  *)
THEOREM CreatedTicketsDiffer == NumbersSpec => []CreatedDiffer
<1>1. NumbersInv => CreatedDiffer
  BY DEF NumbersInv, NumbersApart, CreatedDiffer
<1> QED
  BY <1>1, NumbersInvHolds, PTL

(* and a new ticket gets a number that no other has.                       *)
THEOREM NumbersAreFresh == NumbersSpec => FreshNumber
<1> DEFINE Good == \A s, t \in Tickets :
                      s # t /\ s \notin crossed /\ t \in Open' \ Open
                         => drawn'[t] \notin {number[s], drawn[s]}
<1>1. ASSUME NumbersInv, [NumbersNext]_numberVars PROVE Good
  <2> SUFFICES ASSUME NEW s \in Tickets, NEW t \in Tickets, s # t,
                      s \notin crossed, drawn[t] = NoNumber,
                      drawn'[t] # NoNumber
               PROVE  drawn'[t] \notin {number[s], drawn[s]}
    BY DEF Open
  <2>1. PICK c \in Tickets : Create(c)
    <3>1. drawn' # drawn
      OBVIOUS
    <3>2. \A c \in Tickets, n \in Numbers \ {0} :
              ~ApplyNumbered(c, n) /\ ~ApplyUnnumbered(c) /\ ~Delete(c)
      BY <3>1 DEF ApplyNumbered, ApplyUnnumbered, Delete
    <3>3. ~FeedCommits /\ ~FeedFails
      BY <3>1 DEF FeedCommits, FeedFails
    <3>4. \A c \in Tickets : ~Commit(c) /\ ~Abort(c)
      BY <1>1 DEF Commit, Abort, NumbersInv, NumbersTypeOK
    <3>5. NumbersNext
      BY <1>1, <3>1 DEF numberVars
    <3>6. CASE \E c \in Tickets : ApplyUnnumbered(c) \/ Delete(c)
      BY <3>1, <3>6 DEF ApplyUnnumbered, Delete
    <3> QED
      BY <3>2, <3>3, <3>4, <3>5, <3>6 DEF NumbersNext
  <2>2. c = t /\ drawn'[t] = last + 1
    BY <1>1, <2>1 DEF Create, NumbersInv, NumbersTypeOK
  <2>3. \A n \in {number[s], drawn[s]} \ {NoNumber} : n \in Nat /\ n <= last
    BY <1>1, NumbersAreNats, NumbersAssumption DEF NumbersInv, NumbersTypeOK, SequenceAhead
  <2>4. last \in Nat
    BY <1>1, NumbersAreNats, NumbersAssumption DEF NumbersInv, NumbersTypeOK
  <2> QED
    BY <2>2, <2>3, <2>4
<1>2. NumbersSpec => [][Good]_numberVars
  <2> HIDE DEF Good
  <2>1. NumbersInv /\ [NumbersNext]_numberVars => [Good]_numberVars
    BY <1>1
  <2> QED
    BY <2>1, NumbersInvHolds, PTL DEF NumbersSpec
<1> QED
  BY <1>2 DEF FreshNumber

(***************************************************************************)
(*                           The avatars of users                          *)
(***************************************************************************)

(***************************************************************************)
(* Versions lie in the past and differ (Past, VersionsApart), and nobody has seen  *)
(* a version before its upload is done (Unseen).  A browser that shows     *)
(* another photo than the stored one waits for an upload whose link is     *)
(* still to come (PhotoComing).                                                *)
(***************************************************************************)
Past ==
    /\ logo < clock /\ clock > 0
    /\ \A p \in Uploads : version[p] < clock
    /\ \A b \in Browsers, v \in Times : cache[b][v] # NoPhoto => v < clock

VersionsApart ==
    \A p, q \in Uploads :
        upload[p] = "versioned" /\ version[p] = version[q] => p = q

Unseen ==
    \A p \in Uploads : upload[p] = "versioned" =>
        /\ version[p] # logo
        /\ \A b \in Browsers : cache[b][version[p]] = NoPhoto

PhotoComing ==
    \A b \in Browsers : cache[b][logo] \notin {NoPhoto, object} =>
        \E p \in Uploads : upload[p] \in {"put", "versioned", "half"}

Built == \A p \in Uploads : upload[p] = "versioned" => version[p] # 0

AvatarsInv == AvatarsTypeOK /\ Past /\ VersionsApart /\ Unseen /\ PhotoComing /\ Built

LEMMA GoesOn ==
    ASSUME AvatarsTypeOK, NEW p \in Uploads,
           NEW step \in {"put", "versioned", "done", "failed", "half"},
           Goes(p, step)
    PROVE  /\ upload' \in [Uploads -> {"new", "put", "versioned", "done",
                                       "failed", "half"}]
           /\ upload'[p] = step
           /\ \A q \in Uploads \ {p} : upload'[q] = upload[q]
  BY DEF AvatarsTypeOK, Goes

LEMMA AvatarsInvInit == ASSUME AvatarsAssumption PROVE AvatarsInit => AvatarsInv
  BY AvatarsAssumption
     DEF AvatarsInit, AvatarsInv, AvatarsTypeOK, Past, VersionsApart, Unseen, PhotoComing, Built, Times, Photos

LEMMA PutStep ==
    ASSUME AvatarsAssumption, AvatarsInv, NEW p \in Uploads, PutObject(p)
    PROVE  AvatarsInv'
<1>1. PICK step \in {"put", "half", "failed"} :
          /\ Goes(p, step)
          /\ object' = object \/ (object' = p /\ step # "failed")
  BY DEF PutObject
<1>2. /\ upload[p] = "new" /\ clock < MaxClock /\ clock' = clock + 1
      /\ UNCHANGED <<logo, version, cache>>
  BY DEF PutObject, Passes
<1>3. /\ upload' \in [Uploads -> {"new", "put", "versioned", "done",
                                  "failed", "half"}]
      /\ upload'[p] = step
      /\ \A q \in Uploads \ {p} : upload'[q] = upload[q]
  BY <1>1, GoesOn DEF AvatarsInv
<1>4. clock \in Nat /\ logo \in Nat /\ \A q \in Uploads : version[q] \in Nat
  BY DEF AvatarsInv, AvatarsTypeOK, Times
<1>5. AvatarsTypeOK'
  BY <1>1, <1>2, <1>3, AvatarsAssumption DEF AvatarsInv, AvatarsTypeOK, Times, Photos
<1>6. Past'
  BY <1>2, <1>4, AvatarsAssumption DEF AvatarsInv, Past, Times
<1>7. VersionsApart' /\ Unseen' /\ Built'
  BY <1>2, <1>3, <1>1 DEF AvatarsInv, VersionsApart, Unseen, Built
<1>8. PhotoComing'
  BY <1>1, <1>2, <1>3 DEF AvatarsInv, PhotoComing
<1> QED
  BY <1>5, <1>6, <1>7, <1>8 DEF AvatarsInv

LEMMA BuildStep ==
    ASSUME AvatarsAssumption, AvatarsInv, NEW p \in Uploads, BuildVersion(p)
    PROVE  AvatarsInv'
<1>1. /\ upload[p] = "put" /\ clock < MaxClock /\ clock' = clock + 1
      /\ Goes(p, "versioned")
      /\ UNCHANGED <<object, logo, cache>>
  BY DEF BuildVersion, Passes
<1>2. /\ upload' \in [Uploads -> {"new", "put", "versioned", "done",
                                  "failed", "half"}]
      /\ upload'[p] = "versioned"
      /\ \A q \in Uploads \ {p} : upload'[q] = upload[q]
  BY <1>1, GoesOn DEF AvatarsInv
<1>3. /\ clock \in Times /\ clock \in Nat /\ logo \in Nat
      /\ \A q \in Uploads : version[q] \in Nat
  BY DEF AvatarsInv, AvatarsTypeOK, Times
<1>4. /\ version' \in [Uploads -> Times] /\ version'[p] = clock
      /\ \A q \in Uploads \ {p} : version'[q] = version[q]
  BY <1>3 DEF BuildVersion, Now, AvatarsInv, AvatarsTypeOK
<1>5. AvatarsTypeOK'
  BY <1>1, <1>2, <1>3, <1>4, AvatarsAssumption
     DEF AvatarsInv, AvatarsTypeOK, Times, Photos
<1>6. Past'
  BY <1>1, <1>3, <1>4, AvatarsAssumption DEF AvatarsInv, Past, Times
<1>7. VersionsApart'
  BY <1>2, <1>3, <1>4 DEF AvatarsInv, VersionsApart, Past
<1>8. Unseen'
  <2>1. /\ clock # logo
        /\ \A b \in Browsers : cache[b][clock] = NoPhoto
    BY <1>3 DEF AvatarsInv, Past
  <2> QED
    BY <1>1, <1>2, <1>4, <2>1 DEF AvatarsInv, Unseen
<1>9. Built'
  BY <1>2, <1>3, <1>4 DEF AvatarsInv, Built, Past
<1>10. PhotoComing'
  BY <1>1, <1>2 DEF AvatarsInv, PhotoComing
<1> QED
  BY <1>5, <1>6, <1>7, <1>8, <1>9, <1>10 DEF AvatarsInv

LEMMA LogoStep ==
    ASSUME AvatarsAssumption, AvatarsInv, NEW p \in Uploads, SetLogo(p)
    PROVE  AvatarsInv'
<1>1. PICK step \in {"done", "half"} :
          /\ Goes(p, step)
          /\ \/ step = "done" /\ logo' = version[p]
             \/ step = "half" /\ logo' = logo
  BY DEF SetLogo
<1>2. /\ upload[p] = "versioned"
      /\ UNCHANGED <<object, clock, version, cache>>
  BY DEF SetLogo
<1>3. /\ upload' \in [Uploads -> {"new", "put", "versioned", "done",
                                  "failed", "half"}]
      /\ upload'[p] = step
      /\ \A q \in Uploads \ {p} : upload'[q] = upload[q]
  BY <1>1, GoesOn DEF AvatarsInv
<1>4. AvatarsTypeOK'
  BY <1>1, <1>2, <1>3 DEF AvatarsInv, AvatarsTypeOK
<1>5. Past'
  BY <1>1, <1>2 DEF AvatarsInv, Past
<1>6. VersionsApart' /\ Built'
  BY <1>1, <1>2, <1>3 DEF AvatarsInv, VersionsApart, Built
<1>7. Unseen'
  BY <1>1, <1>2, <1>3 DEF AvatarsInv, Unseen, VersionsApart
<1>8. PhotoComing'
  BY <1>1, <1>2, <1>3 DEF AvatarsInv, PhotoComing, Unseen
<1> QED
  BY <1>4, <1>5, <1>6, <1>7, <1>8 DEF AvatarsInv

LEMMA DownloadStep ==
    ASSUME AvatarsAssumption, AvatarsInv, NEW b \in Browsers, Download(b)
    PROVE  AvatarsInv'
<1>1. UNCHANGED <<object, logo, clock, upload, version>>
  BY DEF Download
<1>2. logo \in Times /\ object \in Photos
  BY DEF AvatarsInv, AvatarsTypeOK
<1>3. /\ cache' \in [Browsers -> [Times -> Photos]]
      /\ cache'[b][logo] = object
      /\ \A v \in Times \ {logo} : cache'[b][v] = cache[b][v]
      /\ \A c \in Browsers \ {b} : cache'[c] = cache[c]
  BY <1>2 DEF Download, AvatarsInv, AvatarsTypeOK
<1>4. AvatarsTypeOK'
  BY <1>1, <1>3 DEF AvatarsInv, AvatarsTypeOK
<1>5. Past'
  BY <1>1, <1>2, <1>3 DEF AvatarsInv, Past
<1>6. VersionsApart' /\ Built'
  BY <1>1 DEF AvatarsInv, VersionsApart, Built
<1>7. Unseen'
  <2>1. \A q \in Uploads : version[q] \in Times
    BY DEF AvatarsInv, AvatarsTypeOK
  <2> QED
    BY <1>1, <1>2, <1>3, <2>1 DEF AvatarsInv, Unseen
<1>8. PhotoComing'
  BY <1>1, <1>3 DEF AvatarsInv, PhotoComing
<1> QED
  BY <1>4, <1>5, <1>6, <1>7, <1>8 DEF AvatarsInv

(* Once all uploads have settled, browsers show the stored photo. *)
THEOREM BrowsersShowStored == AvatarsSpec => []SettledShowsStored
<1>1. AvatarsInit => AvatarsInv
  BY AvatarsInvInit, AvatarsAssumption
<1>2. AvatarsInv /\ [AvatarsNext]_avatarVars => AvatarsInv'
  <2>1. ASSUME AvatarsInv, AvatarsNext PROVE AvatarsInv'
    BY <2>1, PutStep, BuildStep, LogoStep, DownloadStep, AvatarsAssumption
       DEF AvatarsNext
  <2>2. ASSUME AvatarsInv, UNCHANGED avatarVars PROVE AvatarsInv'
    BY <2>2 DEF avatarVars, AvatarsInv, AvatarsTypeOK, Past, VersionsApart, Unseen, PhotoComing, Built
  <2> QED
    BY <2>1, <2>2
<1>3. AvatarsInv => SettledShowsStored
  BY DEF AvatarsInv, PhotoComing, SettledShowsStored, Shown
<1> QED
  BY <1>1, <1>2, <1>3, PTL DEF AvatarsSpec
=============================================================================
