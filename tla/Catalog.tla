------------------------------- MODULE Catalog -------------------------------
(***************************************************************************)
(* The tables of reference data that the changes feed keeps (regions,      *)
(* manufacturers, research types, ticket reasons, clients, contacts,       *)
(* classificators, devices) and the statements of server/internal/         *)
(* pouchsync/mappers.go and of the editor that write them.                 *)
(*                                                                         *)
(* A row is its title (a name for a contact, a serial number for a         *)
(* device) and the rows it refers to; the other columns are left out.      *)
(***************************************************************************)

CONSTANTS
    Ids,        \* documents of the legacy database, each with its row
    Kind,       \* Kind[i], the prefix of the document's id
    Titles,     \* titles that are not empty
    NoTitle     \* the empty title

Kinds == {"region", "manufacturer", "research_type", "ticket_reason",
          "client", "contact", "classificator", "device"}

ASSUME CatalogAssumption ==
    /\ Kind \in [Ids -> Kinds]
    /\ NoTitle \notin Titles

VARIABLE rows   \* rows[i], the row of document i, or NoRow

Row == [present: BOOLEAN, title: Titles \cup {NoTitle}, refs: SUBSET Ids]
NoRow == [present |-> FALSE, title |-> NoTitle, refs |-> {}]

CatalogTypeOK == rows \in [Ids -> Row]

(* title TEXT NOT NULL UNIQUE *)
UniqueTitle == {"region", "research_type"}

(* Documents of these kinds are passed over when their title is empty. *)
TitleRequired == {"region", "manufacturer", "research_type", "client",
                  "classificator"}

(* The foreign keys of a kind: the tables its references are looked up in. *)
Parents(k) == CASE k = "client"        -> {"region"}
                [] k = "contact"       -> {"client"}
                [] k = "classificator" -> {"manufacturer", "research_type"}
                [] k = "device"        -> {"classificator"}
                [] OTHER               -> {}

(***************************************************************************)
(* A document.  ok: its id and its contents parse.                         *)
(***************************************************************************)
Doc == [deleted: BOOLEAN, ok: BOOLEAN, title: Titles \cup {NoTitle},
        refs: SUBSET Ids]

PassedOver(i, d) == Kind[i] \in TitleRequired /\ d.title = NoTitle

TitleTaken(i, title) ==
    /\ Kind[i] \in UniqueTitle
    /\ \E j \in Ids \ {i} : /\ rows[j].present
                            /\ Kind[j] = Kind[i]
                            /\ rows[j].title = title

(* The statements of the document's mapper succeed. *)
Applicable(i, d) ==
    /\ d.ok
    /\ ~d.deleted /\ ~PassedOver(i, d) => ~TitleTaken(i, d.title)

(* existsByID: a reference to a row that is not there is stored as NULL. *)
Resolved(i, refs) ==
    {r \in refs : rows[r].present /\ Kind[r] \in Parents(Kind[i])}

(* Mutation: references to a deleted row are left in place.                *)
DeletedLeavingRefs(i) == [j \in Ids |-> IF j = i THEN NoRow ELSE rows[j]]

(* DELETE, with ON DELETE CASCADE for the contacts of a client and ON      *)
(* DELETE SET NULL for every other reference.                              *)
Deleted(i) ==
    [j \in Ids |->
        IF j = i \/ (Kind[j] = "contact" /\ i \in rows[j].refs)
        THEN NoRow
        ELSE [present |-> rows[j].present, title |-> rows[j].title,
              refs |-> rows[j].refs \ {i}]]

Upserted(i, d) ==
    [rows EXCEPT ![i] = [present |-> TRUE, title |-> d.title,
                         refs |-> Resolved(i, d.refs)]]

(* Mutation: a mapper that overlooks change.Deleted.                       *)
SyncedIgnoringTombstones(i, d) == IF d.deleted THEN rows ELSE Upserted(i, d)

(* The tables after the mapper of i has applied the document d. *)
Synced(i, d) == CASE d.deleted                        -> Deleted(i)
                  [] ~d.deleted /\ PassedOver(i, d)   -> rows
                  [] OTHER                            -> Upserted(i, d)

-----------------------------------------------------------------------------
(* The editor saves a whole record over an existing row.  References must  *)
(* exist, by the check before the UPDATE or by its foreign key.            *)
Editable == {"client", "contact", "classificator", "device"}

Savable(i, title, refs) ==
    /\ rows[i].present
    /\ refs = Resolved(i, refs)
    /\ \A r, s \in refs : Kind[r] = Kind[s] => r = s

Saved(i, title, refs) ==
    rows' = [rows EXCEPT ![i] = [present |-> TRUE, title |-> title,
                                 refs |-> refs]]

HandleEditorClientPatch(i, title, refs) ==
    /\ Kind[i] = "client" /\ title # NoTitle
    /\ Savable(i, title, refs) /\ Saved(i, title, refs)

HandleEditorContactPatch(i, title, refs) ==
    /\ Kind[i] = "contact" /\ title # NoTitle /\ refs # {}
    /\ Savable(i, title, refs) /\ Saved(i, title, refs)

HandleEditorClassificatorPatch(i, title, refs) ==
    /\ Kind[i] = "classificator" /\ title # NoTitle
    /\ Savable(i, title, refs) /\ Saved(i, title, refs)

HandleEditorDevicePatch(i, title, refs) ==
    /\ Kind[i] = "device"
    /\ Savable(i, title, refs) /\ Saved(i, title, refs)
=============================================================================
