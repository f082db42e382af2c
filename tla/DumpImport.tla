------------------------------ MODULE DumpImport ------------------------------
(***************************************************************************)
(* The import of the legacy dump (server/cmd/import-dump and the packages  *)
(* of server/internal/legacyimport).  Its steps run one after the other in *)
(* a process of their own.  A step upserts the documents of its kind one   *)
(* by one and without a transaction; a reference to a row that is not      *)
(* there becomes NULL, or keeps the row from being written.                *)
(***************************************************************************)
EXTENDS AccountImport, Sequences

CONSTANTS
    Docs,       \* the documents of the dump, but for its users
    Kind,       \* the step that imports a document
    Ref,        \* what the columns of a document refer to
    Removable,  \* documents that the feed or the editor may remove
    Selections, \* what is asked for by the option -only: sequences of steps
    KeepGoing,  \* values of the option -keep-going
    NoRow,
    Null

Kinds == {"regions", "clients", "contacts", "research-types", "manufacturers",
          "classificators", "devices", "ticket-statuses", "ticket-types",
          "ticket-reasons", "departments", "external-users", "tickets",
          "attachments", "agreements"}

(* The columns of the tables, but for the ids. *)
Layouts ==
    {{"title"}, {"region"}, {"client_id"}, {"manufacturer", "research_type"},
     {"classificator"}, {"linked_user_id"}, {"ref_id"},
     {"actual_client", "device"},
     {"client", "device", "ticket_type", "author", "external_author",
      "department", "reason", "contact_person", "executor", "status"}}

ASSUME DumpAssumption ==
    /\ \A columns \in Layouts : NoRow \notin [columns -> Docs \cup Ids \cup {Null}]
    /\ Docs \cap Ids = {} /\ Null \notin Docs \cup Ids
    /\ Kind \in [Docs -> Kinds]
    /\ Removable \subseteq Docs
    /\ KeepGoing \subseteq BOOLEAN

VARIABLES
    rows,       \* the tables: a row for a document, or none
    run         \* the steps that a running import has left, and how it goes

importVars == <<accounts, signed, dump, todo, rows, run>>

DocsOf(k) == {d \in Docs : Kind[d] = k}

(* What a step finds of each kind when it loads the ids. *)
Present(k) == IF k = "users" THEN People \cap Existing
              ELSE {d \in DocsOf(k) : rows[d] # NoRow}

-----------------------------------------------------------------------------
(* The row that a step writes for a document, by the ids that it knows of. *)
Resolved(d, column, k, known) ==
    IF Ref[d][column] \in known[k] THEN Ref[d][column] ELSE Null

Titled(d) == [title |-> d]

Region(d) == Titled(d)
Client(d, known) == [region |-> Resolved(d, "region", "regions", known)]
Contact(d, known) == [client_id |-> Resolved(d, "client", "clients", known)]
ResearchType(d) == Titled(d)
Manufacturer(d) == Titled(d)
Classificator(d, known) ==
    [manufacturer |-> Resolved(d, "manufacturer", "manufacturers", known),
     research_type |-> Resolved(d, "researchType", "research-types", known)]
Device(d, known) ==
    [classificator |-> Resolved(d, "classificator", "classificators", known)]
TicketStatus(d) == Titled(d)
TicketType(d) == Titled(d)
TicketReason(d) == Titled(d)
Department(d) == Titled(d)
ExternalUser(d, known) ==
    [linked_user_id |-> Resolved(d, "user", "users", known)]
Attachment(d) == [ref_id |-> Ref[d]["ticket"]]
Agreement(d) == [actual_client |-> Ref[d]["client"],
                 device |-> Ref[d]["device"]]

(* resolveTicketAuthor: an account, or an external user with the account   *)
(* that it is linked to.                                                   *)
TicketAuthor(value, known, linked) ==
    IF value \in known["users"] THEN [account |-> value, external |-> Null]
    ELSE IF value \in known["external-users"]
    THEN [account |-> linked[value], external |-> value]
    ELSE [account |-> Null, external |-> Null]

Ticket(d, known, linked) ==
    LET author == TicketAuthor(Ref[d]["author"], known, linked)
    IN  [client |-> Resolved(d, "client", "clients", known),
         device |-> Resolved(d, "device", "devices", known),
         ticket_type |-> Resolved(d, "ticketType", "ticket-types", known),
         author |-> author.account,
         external_author |-> author.external,
         department |-> Resolved(d, "department", "departments", known),
         reason |-> Resolved(d, "reason", "ticket-reasons", known),
         contact_person |-> Resolved(d, "contactPerson", "contacts", known),
         executor |-> Resolved(d, "executor", "users", known),
         status |-> Resolved(d, "status", "ticket-statuses", known)]

(* Attachments and agreements need what they refer to.                     *)
Skipped(d, known) ==
    \/ Kind[d] = "attachments" /\ Ref[d]["ticket"] \notin known["tickets"]
    \/ Kind[d] = "agreements" /\ \/ Ref[d]["client"] \notin known["clients"]
                                 \/ Ref[d]["device"] \notin known["devices"]

Row(d, known, linked) ==
    CASE Kind[d] = "regions" -> Region(d)
      [] Kind[d] = "clients" -> Client(d, known)
      [] Kind[d] = "contacts" -> Contact(d, known)
      [] Kind[d] = "research-types" -> ResearchType(d)
      [] Kind[d] = "manufacturers" -> Manufacturer(d)
      [] Kind[d] = "classificators" -> Classificator(d, known)
      [] Kind[d] = "devices" -> Device(d, known)
      [] Kind[d] = "ticket-statuses" -> TicketStatus(d)
      [] Kind[d] = "ticket-types" -> TicketType(d)
      [] Kind[d] = "ticket-reasons" -> TicketReason(d)
      [] Kind[d] = "departments" -> Department(d)
      [] Kind[d] = "external-users" -> ExternalUser(d, known)
      [] Kind[d] = "tickets" -> Ticket(d, known, linked)
      [] Kind[d] = "attachments" -> Attachment(d)
      [] Kind[d] = "agreements" -> Agreement(d)

-----------------------------------------------------------------------------
ImportSteps == <<"regions", "clients", "contacts", "research-types",
                 "manufacturers", "classificators", "devices",
                 "ticket-statuses", "ticket-types", "ticket-reasons", "users",
                 "external-users", "tickets", "attachments", "agreements">>

(* run.clean: it is an import of all steps, none has failed, no user has   *)
(* been missed, and nothing has been removed since it began.               *)
NotRunning == [steps |-> <<>>, keepGoing |-> FALSE, failed |-> FALSE,
               clean |-> FALSE]
Running == run.steps # <<>>

DumpInit ==
    /\ AccountInit /\ rows = [d \in Docs |-> NoRow]
    /\ run = NotRunning

(* The steps of a selection come in the order in which they are asked for  *)
(* (selectSteps).                                                          *)
StartImport(selection, keepGoing) ==
    /\ ~Running
    /\ run' = [steps |-> selection, keepGoing |-> keepGoing, failed |-> FALSE,
               clean |-> selection = ImportSteps]
    /\ UNCHANGED <<accounts, signed, dump, todo, rows>>

At(step) == Running /\ Head(run.steps) = step

(* Mutation: the failed steps are not counted.                             *)
FailureForgotten ==
    run' = [run EXCEPT !.clean = FALSE,
                       !.steps = IF run.keepGoing THEN Tail(run.steps) ELSE <<>>]

StepDone == run' = [run EXCEPT !.steps = Tail(run.steps)]
StepFails ==
    run' = [run EXCEPT !.failed = TRUE, !.clean = FALSE,
                       !.steps = IF run.keepGoing THEN Tail(run.steps) ELSE <<>>]

(* Mutation: ON CONFLICT (id) DO NOTHING.                                  *)
InsertedOnly(done, known, linked) ==
    rows' = [d \in Docs |->
                IF d \in done /\ ~Skipped(d, known) /\ rows[d] = NoRow
                THEN Row(d, known, linked) ELSE rows[d]]

Upserted(done, known, linked) ==
    rows' = [d \in Docs |->
                IF d \in done /\ ~Skipped(d, known)
                THEN Row(d, known, linked) ELSE rows[d]]

Known == [k \in Kinds \cup {"users"} |-> Present(k)]
Linked == [e \in Present("external-users") |-> rows[e].linked_user_id]

(* A step may fail behind any of its documents. *)
ImportStep(k) ==
    /\ At(k)
    /\ \E done \in SUBSET DocsOf(k) :
          /\ Upserted(done, Known, Linked)
          /\ \/ done = DocsOf(k) /\ StepDone
             \/ StepFails
    /\ UNCHANGED <<accounts, signed, dump, todo>>

(* importDepartments, the beginning of the step "users"; importRoles may   *)
(* fail behind it.                                                         *)
ImportDepartments ==
    /\ At("users")
    /\ \E done \in SUBSET DocsOf("departments") :
          /\ Upserted(done, Known, Linked)
          /\ \/ /\ done = DocsOf("departments")
                /\ run' = [run EXCEPT !.steps = <<"accounts">> \o Tail(run.steps)]
                /\ dump' = People /\ todo' = People
             \/ StepFails /\ UNCHANGED <<dump, todo>>
    /\ UNCHANGED <<accounts, signed>>

(* The users one by one: one that fails is counted and nothing more, the   *)
(* step does not fail with it.                                             *)
ImportAccounts ==
    /\ At("accounts")
    /\ \/ \E u \in People : ImportUser(u) /\ UNCHANGED run
       \/ \E u \in People : UserFails(u) /\ run' = [run EXCEPT !.clean = FALSE]
       \/ todo = {} /\ StepDone /\ UNCHANGED <<accounts, signed, dump, todo>>
       \/ StopUsers /\ StepFails
    /\ UNCHANGED rows

ImportNext ==
    \/ \E k \in Kinds : ImportStep(k)
    \/ ImportDepartments
    \/ ImportAccounts

(* The process of the import is killed. *)
ImportKilled ==
    /\ Running
    /\ run' = NotRunning /\ todo' = {}
    /\ UNCHANGED <<accounts, signed, dump, rows>>

-----------------------------------------------------------------------------
(* The feed, or the editor, removes a row; its contacts go with a client,  *)
(* other rows lose their reference.                                        *)
Remove(d) ==
    /\ rows[d] # NoRow
    /\ LET gone == {d} \cup {c \in Present("contacts") : rows[c].client_id = d}
       IN  rows' = [e \in Docs |->
                      CASE e \in gone \/ rows[e] = NoRow -> NoRow
                        [] OTHER ->
                           [c \in DOMAIN rows[e] |->
                              IF rows[e][c] \in gone THEN Null ELSE rows[e][c]]]
    /\ run' = [run EXCEPT !.clean = FALSE]
    /\ UNCHANGED <<accounts, signed, dump, todo>>

-----------------------------------------------------------------------------
(* The whole dump, with every reference that it resolves itself, if these  *)
(* of its users have accounts.                                             *)
WholeDump(users) ==
    LET known == [k \in Kinds \cup {"users"} |->
                     IF k = "users" THEN users ELSE DocsOf(k)]
        linked == [e \in DocsOf("external-users") |->
                      ExternalUser(e, known).linked_user_id]
    IN  \A d \in Docs : ~Skipped(d, known) => rows[d] = Row(d, known, linked)

(* An import of all steps without a failure, a user that failed or a       *)
(* removal leaves the whole dump in the tables, whatever earlier imports   *)
(* have left undone.                                                       *)
ImportCompletes ==
    ~Running /\ run.clean => People \subseteq Existing /\ WholeDump(People)
=============================================================================
