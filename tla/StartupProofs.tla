---------------------------- MODULE StartupProofs ----------------------------
(***************************************************************************)
(* How the server comes up and imports the dump, for every dump, every     *)
(* selection of steps and every account that is seeded or registers: what  *)
(* is in the tables when an import ends, and who may sign in when a server *)
(* begins to serve.                                                        *)
(***************************************************************************)
EXTENDS Startup, FiniteSetTheorems, TLAPS

-----------------------------------------------------------------------------
(* The types.                                                              *)

IsRun(r) ==
    /\ DOMAIN r = {"steps", "keepGoing", "failed", "clean"}
    /\ r.keepGoing \in BOOLEAN /\ r.failed \in BOOLEAN /\ r.clean \in BOOLEAN

Types ==
    /\ accounts \in [Ids -> Account \cup {NoAccount}]
    /\ signed \in [Things -> Ids \cup {Nobody}]
    /\ dump \subseteq People /\ todo \subseteq People
    /\ DOMAIN rows = Docs
    /\ IsRun(run)
    /\ proc \in {"down", "bootstrap", "importing", "server", "serving"}
    /\ env \in Environments
    /\ files \in {<<>>, <<"024">>, <<"022", "024">>, SchemaFiles}
    /\ needs \in BOOLEAN

-----------------------------------------------------------------------------
(* What an import has behind it.                                           *)

(* The steps from the i-th on, and the kinds of the steps before it; the   *)
(* departments are imported with the users.                                *)
Rest(i) == [j \in 1..(16 - i) |-> ImportSteps[i + j - 1]]

Before(i) ==
    {ImportSteps[j] : j \in 1..(i - 1)} \cup (IF i > 11 THEN {"departments"} ELSE {})

AtAccounts == <<"accounts">> \o Rest(12)

(* What a step finds when all that comes before it is there, but for the   *)
(* users without an account.                                               *)
FullOf(users) == [k \in Kinds \cup {"users"} |-> IF k = "users" THEN users ELSE DocsOf(k)]

LinksOf(users) ==
    [e \in DocsOf("external-users") |-> ExternalUser(e, FullOf(users)).linked_user_id]

Whole(d, users, rs) ==
    ~Skipped(d, FullOf(users)) => rs[d] = Row(d, FullOf(users), LinksOf(users))

Imported(kinds, users, rs) == \A d \in Docs : Kind[d] \in kinds => Whole(d, users, rs)

Users == People \cap Existing

(* The users behind have the accounts, under names of their own.           *)
UsersBehind ==
    /\ dump = People
    /\ \A u \in People \ todo : u \in Existing /\ accounts[u].name = Username(u)

PassingSteps ==
    \E i \in 1..16 :
        /\ run.steps = Rest(i)
        /\ Imported(Before(i), Users, rows)
        /\ i > 11 /\ run.clean => People \subseteq Existing

PassingUsers ==
    /\ run.steps = AtAccounts
    /\ Imported(Before(11) \cup {"departments"}, Users, rows)
    /\ run.clean => UsersBehind

(* An import of all steps that may miss nothing but users.                 *)
Whole16 == run.clean \/ (proc = "importing" /\ ~run.failed)

Passing == Whole16 => PassingSteps \/ PassingUsers

(* Nobody may sign in but the exempt accounts and the service departments. *)
Policy ==
    \A a \in Existing : ~accounts[a].disabled =>
        \/ accounts[a].name \in Exempt
        \/ accounts[a].department \in ServiceDepartments

Upcoming ==
    /\ proc \in {"bootstrap", "server"} => ~Running
    /\ files # <<>> => proc \in {"bootstrap", "server"}
    /\ proc = "server" /\ files = <<>> => Policy

Sound == Types /\ Upcoming /\ Passing

-----------------------------------------------------------------------------
(* The steps of an import.                                                 *)

LEMMA StepNames ==
    /\ ImportSteps[1] = "regions" /\ ImportSteps[2] = "clients"
    /\ ImportSteps[3] = "contacts" /\ ImportSteps[4] = "research-types"
    /\ ImportSteps[5] = "manufacturers" /\ ImportSteps[6] = "classificators"
    /\ ImportSteps[7] = "devices" /\ ImportSteps[8] = "ticket-statuses"
    /\ ImportSteps[9] = "ticket-types" /\ ImportSteps[10] = "ticket-reasons"
    /\ ImportSteps[11] = "users" /\ ImportSteps[12] = "external-users"
    /\ ImportSteps[13] = "tickets" /\ ImportSteps[14] = "attachments"
    /\ ImportSteps[15] = "agreements"
BY DEF ImportSteps

StepKinds == Kinds \cup {"users", "accounts"}

LEMMA StepsTyped ==
    /\ ImportSteps \in Seq(StepKinds) /\ Len(ImportSteps) = 15
    /\ \A i \in 1..15 : ImportSteps[i] \in StepKinds
<1>1. DOMAIN ImportSteps = 1..15  BY DEF ImportSteps
<1>2. Len(ImportSteps) = 15  BY DEF ImportSteps
<1>3. ImportSteps = [i \in DOMAIN ImportSteps |-> ImportSteps[i]]  BY DEF ImportSteps
<1> HIDE DEF ImportSteps
<1>4. ASSUME NEW i \in 1..15 PROVE ImportSteps[i] \in StepKinds
  <2>1. i \in {1, 2, 3, 4, 5, 6, 7, 8} \/ i \in {9, 10, 11, 12, 13, 14, 15}  OBVIOUS
  <2> QED  BY <2>1, StepNames DEF StepKinds, Kinds
<1>5. ImportSteps \in [1..15 -> StepKinds]  BY <1>1, <1>3, <1>4
<1>6. \A n \in Nat : \A s \in [1..n -> StepKinds] : s \in Seq(StepKinds)  OBVIOUS
<1>7. ImportSteps \in Seq(StepKinds)  BY <1>5, <1>6
<1> QED  BY <1>2, <1>4, <1>7

LEMMA FirstRest == Rest(1) = ImportSteps
<1>1. ImportSteps = [j \in 1..15 |-> ImportSteps[j]]  BY StepsTyped
<1>2. Rest(1) = [j \in 1..15 |-> ImportSteps[j]]
  <2> HIDE DEF ImportSteps
  <2> QED  BY DEF Rest
<1> QED  BY <1>1, <1>2

LEMMA RestTyped ==
    ASSUME NEW i \in 1..16
    PROVE  /\ Rest(i) \in Seq(StepKinds) /\ Len(Rest(i)) = 16 - i
           /\ Rest(i) = <<>> <=> i = 16
<1>1. ASSUME NEW j \in 1..(16 - i) PROVE ImportSteps[i + j - 1] \in StepKinds
  <2>1. i + j - 1 \in 1..15  OBVIOUS
  <2> QED  BY <2>1, StepsTyped
<1>2. 16 - i \in Nat  OBVIOUS
<1>3. Rest(i) \in [1..(16 - i) -> StepKinds]  BY <1>1 DEF Rest
<1>4. Rest(i) \in Seq(StepKinds) /\ Len(Rest(i)) = 16 - i  BY <1>2, <1>3
<1> QED  BY <1>2, <1>4

LEMMA NextRest ==
    ASSUME NEW i \in 1..15
    PROVE  /\ Rest(i) # <<>> /\ Head(Rest(i)) = ImportSteps[i]
           /\ Tail(Rest(i)) = Rest(i + 1) /\ i + 1 \in 1..16
<1>1. /\ Rest(i) \in Seq(StepKinds) /\ Len(Rest(i)) = 16 - i /\ Rest(i) # <<>>
      /\ Rest(i + 1) \in Seq(StepKinds) /\ Len(Rest(i + 1)) = 16 - (i + 1)
  <2>1. i \in 1..16 /\ i + 1 \in 1..16 /\ i # 16  OBVIOUS
  <2> QED  BY <2>1, RestTyped
<1>2. Head(Rest(i)) = ImportSteps[i]
  <2>1. Head(Rest(i)) = Rest(i)[1]  BY <1>1
  <2>2. Rest(i)[1] = ImportSteps[i + 1 - 1]  BY DEF Rest
  <2> QED  BY <2>1, <2>2
<1>3. Tail(Rest(i)) = Rest(i + 1)
  <2> DEFINE s == Rest(i)
             t == Rest(i + 1)
  <2>1. ASSUME NEW j \in 1..(15 - i) PROVE s[j + 1] = t[j]
    <3>1. j + 1 \in 1..(16 - i) /\ j \in 1..(16 - (i + 1))  OBVIOUS
    <3>2. s[j + 1] = ImportSteps[i + (j + 1) - 1]  BY <3>1 DEF Rest
    <3>3. t[j] = ImportSteps[(i + 1) + j - 1]  BY <3>1 DEF Rest
    <3> QED  BY <3>2, <3>3
  <2>2. s \in Seq(StepKinds) /\ t \in Seq(StepKinds) /\ Len(s) = 16 - i /\ Len(t) = 15 - i /\ s # <<>>
    BY <1>1
  <2> HIDE DEF s, t
  <2>3. Tail(s) \in Seq(StepKinds) /\ Len(Tail(s)) = 15 - i  BY <2>2
  <2>4. \A j \in 1..(15 - i) : Tail(s)[j] = t[j]  BY <2>1, <2>2
  <2>5. Tail(s) = t  BY <2>2, <2>3, <2>4
  <2> QED  BY <2>5 DEF s, t
<1> QED  BY <1>1, <1>2, <1>3

LEMMA AccountsRest ==
    AtAccounts # <<>> /\ Head(AtAccounts) = "accounts" /\ Tail(AtAccounts) = Rest(12)
<1>1. Rest(12) \in Seq(StepKinds)  BY RestTyped
<1>2. "accounts" \in StepKinds  BY DEF StepKinds
<1> QED  BY <1>1, <1>2 DEF AtAccounts

(* The kinds that the columns of a row refer to.                           *)
Needs(k) ==
    CASE k = "clients" -> {"regions"}
      [] k = "contacts" -> {"clients"}
      [] k = "classificators" -> {"manufacturers", "research-types"}
      [] k = "devices" -> {"classificators"}
      [] k = "external-users" -> {"users"}
      [] k = "tickets" ->
            {"clients", "devices", "ticket-types", "users", "external-users",
             "departments", "ticket-reasons", "contacts", "ticket-statuses"}
      [] k = "attachments" -> {"tickets"}
      [] k = "agreements" -> {"clients", "devices"}
      [] OTHER -> {}

(* Every step comes behind those that it refers to.                        *)
LEMMA NeedsBefore ==
    ASSUME NEW i \in 1..15, ImportSteps[i] # "users"
    PROVE  /\ ImportSteps[i] \in Kinds
           /\ Needs(ImportSteps[i]) \subseteq Before(i) \ {"attachments", "agreements"}
           /\ Before(i + 1) = Before(i) \cup {ImportSteps[i]}
           /\ ImportSteps[i] \notin Before(i)
           /\ i + 1 > 11 => i > 11
           /\ ImportSteps[i] = "external-users" \/ ImportSteps[i] = "tickets" => i > 11
<1>1. i # 11  BY StepNames
<1>2. i \in {1, 2, 3, 4, 5, 6, 7, 8, 9, 10} \/ i \in {12, 13, 14, 15}  BY <1>1
<1>3. \A j \in 1..15 : ImportSteps[j] = ImportSteps[i] => j = i
  BY StepNames
<1>4. \A j \in 1..15 : j < i => ImportSteps[j] \in Before(i)
  BY DEF Before
<1>5. ImportSteps[i] \in Kinds  BY <1>2, StepNames DEF Kinds
<1>6. Needs(ImportSteps[i]) \subseteq Before(i) \ {"attachments", "agreements"}
  <2>1. CASE i \in {1, 2, 3, 4, 5, 6, 7, 8, 9, 10}  BY <1>4, <2>1, StepNames DEF Needs
  <2>2. CASE i \in {12, 13, 14, 15}
    <3>1. "departments" \in Before(i)  BY <2>2 DEF Before
    <3> QED  BY <1>4, <2>2, <3>1, StepNames DEF Needs
  <2> QED  BY <1>2, <2>1, <2>2
<1>7. Before(i + 1) = Before(i) \cup {ImportSteps[i]}
  <2>1. i + 1 > 11 <=> i > 11  BY <1>2
  <2>2. 1..(i + 1 - 1) = 1..(i - 1) \cup {i}  OBVIOUS
  <2> QED  BY <2>1, <2>2 DEF Before
<1>8. ImportSteps[i] \notin Before(i)
  <2>1. ImportSteps[i] # "departments"  BY <1>2, StepNames
  <2>2. \A j \in 1..(i - 1) : ImportSteps[j] # ImportSteps[i]  BY <1>3
  <2> QED  BY <2>1, <2>2 DEF Before
<1>9. ImportSteps[i] = "external-users" \/ ImportSteps[i] = "tickets" => i > 11
  BY <1>2, StepNames
<1>10. i + 1 > 11 => i > 11  BY <1>2
<1> QED  BY <1>5, <1>6, <1>7, <1>8, <1>9, <1>10

-----------------------------------------------------------------------------
(* The rows.                                                               *)

(* What a row is, is what its step finds of the kinds that it refers to.   *)
LEMMA RowSame ==
    ASSUME NEW d \in Docs, NEW known, NEW found, NEW links, NEW linked,
           \A k \in Needs(Kind[d]) : known[k] = found[k],
           Kind[d] = "tickets" => \A e \in known["external-users"] : links[e] = linked[e]
    PROVE  /\ Skipped(d, known) = Skipped(d, found)
           /\ Row(d, known, links) = Row(d, found, linked)
<1>1. Kind[d] \in Kinds  BY DumpAssumption
<1>2. Skipped(d, known) = Skipped(d, found)
  <2>1. CASE Kind[d] = "attachments"  BY <2>1 DEF Skipped, Needs
  <2>2. CASE Kind[d] = "agreements"  BY <2>2 DEF Skipped, Needs
  <2>3. CASE Kind[d] \notin {"attachments", "agreements"}  BY <2>3 DEF Skipped
  <2> QED  BY <2>1, <2>2, <2>3
<1>3. CASE Kind[d] \in {"regions", "research-types", "manufacturers", "ticket-statuses",
                        "ticket-types", "ticket-reasons", "departments", "attachments",
                        "agreements"}
  BY <1>2, <1>3 DEF Row
<1>4. CASE Kind[d] = "clients"  BY <1>2, <1>4 DEF Row, Client, Resolved, Needs
<1>5. CASE Kind[d] = "contacts"  BY <1>2, <1>5 DEF Row, Contact, Resolved, Needs
<1>6. CASE Kind[d] = "classificators"  BY <1>2, <1>6 DEF Row, Classificator, Resolved, Needs
<1>7. CASE Kind[d] = "devices"  BY <1>2, <1>7 DEF Row, Device, Resolved, Needs
<1>8. CASE Kind[d] = "external-users"  BY <1>2, <1>8 DEF Row, ExternalUser, Resolved, Needs
<1>9. CASE Kind[d] = "tickets"
  <2>1. /\ known["clients"] = found["clients"] /\ known["devices"] = found["devices"]
        /\ known["ticket-types"] = found["ticket-types"] /\ known["users"] = found["users"]
        /\ known["external-users"] = found["external-users"]
        /\ known["departments"] = found["departments"]
        /\ known["ticket-reasons"] = found["ticket-reasons"]
        /\ known["contacts"] = found["contacts"]
        /\ known["ticket-statuses"] = found["ticket-statuses"]
    BY <1>9 DEF Needs
  <2>2. TicketAuthor(Ref[d]["author"], known, links) = TicketAuthor(Ref[d]["author"], found, linked)
    BY <1>9, <2>1 DEF TicketAuthor
  <2>3. Ticket(d, known, links) = Ticket(d, found, linked)
    BY <2>1, <2>2 DEF Ticket, Resolved
  <2>4. Row(d, known, links) = Ticket(d, known, links)  BY <1>9 DEF Row
  <2>5. Row(d, found, linked) = Ticket(d, found, linked)  BY <1>9 DEF Row
  <2> QED  BY <1>2, <2>3, <2>4, <2>5
<1> QED  BY <1>1, <1>2, <1>3, <1>4, <1>5, <1>6, <1>7, <1>8, <1>9 DEF Kinds

(* A row that is not passed over is a row.                                 *)
LEMMA RowIsThere ==
    ASSUME NEW d \in Docs, NEW users, users \subseteq People, ~Skipped(d, FullOf(users))
    PROVE  Row(d, FullOf(users), LinksOf(users)) # NoRow
<1> DEFINE known == FullOf(users)
           links == LinksOf(users)
           Vals == Docs \cup Ids \cup {Null}
<1>1. Kind[d] \in Kinds /\ d \in Vals  BY DumpAssumption
<1>2. \A k \in Kinds \cup {"users"} : known[k] \subseteq Vals  BY DEF FullOf, DocsOf, Ids
<1>3. \A e, c, k : k \in Kinds \cup {"users"} => Resolved(e, c, k, known) \in Vals
  BY <1>2 DEF Resolved
<1>4. \A e \in known["external-users"] : links[e] \in Vals
  <2>1. known["external-users"] = DocsOf("external-users")  BY DEF FullOf, Kinds
  <2>2. \A e \in DocsOf("external-users") : links[e] = Resolved(e, "user", "users", known)
    BY DEF LinksOf, ExternalUser
  <2> QED  BY <1>3, <2>1, <2>2
<1> HIDE DEF known, links, Vals
<1>5. \A columns \in Layouts : NoRow \notin [columns -> Vals]  BY DumpAssumption DEF Vals
<1>6. CASE Kind[d] \in {"regions", "research-types", "manufacturers", "ticket-statuses",
                        "ticket-types", "ticket-reasons", "departments"}
  <2>1. Row(d, known, links) = [title |-> d]  BY <1>6 DEF Row, Titled, Region, ResearchType,
           Manufacturer, TicketStatus, TicketType, TicketReason, Department
  <2>2. [title |-> d] \in [{"title"} -> Vals]  BY <1>1
  <2>3. {"title"} \in Layouts  BY DEF Layouts
  <2> QED  BY <1>5, <2>1, <2>2, <2>3 DEF known, links
<1>7. CASE Kind[d] = "clients"
  <2>1. Resolved(d, "region", "regions", known) \in Vals  BY <1>3 DEF Kinds
  <2>2. Row(d, known, links) \in [{"region"} -> Vals]  BY <1>7, <2>1 DEF Row, Client
  <2>3. {"region"} \in Layouts  BY DEF Layouts
  <2> QED  BY <1>5, <2>2, <2>3 DEF known, links
<1>8. CASE Kind[d] = "contacts"
  <2>1. Resolved(d, "client", "clients", known) \in Vals  BY <1>3 DEF Kinds
  <2>2. Row(d, known, links) \in [{"client_id"} -> Vals]  BY <1>8, <2>1 DEF Row, Contact
  <2>3. {"client_id"} \in Layouts  BY DEF Layouts
  <2> QED  BY <1>5, <2>2, <2>3 DEF known, links
<1>9. CASE Kind[d] = "classificators"
  <2>1. /\ Resolved(d, "manufacturer", "manufacturers", known) \in Vals
        /\ Resolved(d, "researchType", "research-types", known) \in Vals
    BY <1>3 DEF Kinds
  <2>2. Row(d, known, links) \in [{"manufacturer", "research_type"} -> Vals]
    BY <1>9, <2>1 DEF Row, Classificator
  <2>3. {"manufacturer", "research_type"} \in Layouts  BY DEF Layouts
  <2> QED  BY <1>5, <2>2, <2>3 DEF known, links
<1>10. CASE Kind[d] = "devices"
  <2>1. Resolved(d, "classificator", "classificators", known) \in Vals  BY <1>3 DEF Kinds
  <2>2. Row(d, known, links) \in [{"classificator"} -> Vals]  BY <1>10, <2>1 DEF Row, Device
  <2>3. {"classificator"} \in Layouts  BY DEF Layouts
  <2> QED  BY <1>5, <2>2, <2>3 DEF known, links
<1>11. CASE Kind[d] = "external-users"
  <2>1. Resolved(d, "user", "users", known) \in Vals  BY <1>3
  <2>2. Row(d, known, links) \in [{"linked_user_id"} -> Vals]
    BY <1>11, <2>1 DEF Row, ExternalUser
  <2>3. {"linked_user_id"} \in Layouts  BY DEF Layouts
  <2> QED  BY <1>5, <2>2, <2>3 DEF known, links
<1>12. CASE Kind[d] = "attachments"
  <2>1. Ref[d]["ticket"] \in known["tickets"]  BY <1>12 DEF Skipped, known
  <2>2. Ref[d]["ticket"] \in Vals  BY <1>2, <2>1 DEF Kinds
  <2>3. Row(d, known, links) \in [{"ref_id"} -> Vals]  BY <1>12, <2>2 DEF Row, Attachment
  <2>4. {"ref_id"} \in Layouts  BY DEF Layouts
  <2> QED  BY <1>5, <2>3, <2>4 DEF known, links
<1>13. CASE Kind[d] = "agreements"
  <2>1. /\ Ref[d]["client"] \in known["clients"] /\ Ref[d]["device"] \in known["devices"]
    BY <1>13 DEF Skipped, known
  <2>2. Ref[d]["client"] \in Vals /\ Ref[d]["device"] \in Vals  BY <1>2, <2>1 DEF Kinds
  <2>3. Row(d, known, links) \in [{"actual_client", "device"} -> Vals]
    BY <1>13, <2>2 DEF Row, Agreement
  <2>4. {"actual_client", "device"} \in Layouts  BY DEF Layouts
  <2> QED  BY <1>5, <2>3, <2>4 DEF known, links
<1>14. CASE Kind[d] = "tickets"
  <2> DEFINE author == TicketAuthor(Ref[d]["author"], known, links)
  <2>1. author.account \in Vals /\ author.external \in Vals
    <3>1. Null \in Vals  BY DEF Vals
    <3>2. known["users"] \subseteq Vals /\ known["external-users"] \subseteq Vals
      BY <1>2 DEF Kinds
    <3> QED  BY <1>4, <3>1, <3>2 DEF TicketAuthor
  <2>2. /\ Resolved(d, "client", "clients", known) \in Vals
        /\ Resolved(d, "device", "devices", known) \in Vals
        /\ Resolved(d, "ticketType", "ticket-types", known) \in Vals
        /\ Resolved(d, "department", "departments", known) \in Vals
        /\ Resolved(d, "reason", "ticket-reasons", known) \in Vals
        /\ Resolved(d, "contactPerson", "contacts", known) \in Vals
        /\ Resolved(d, "executor", "users", known) \in Vals
        /\ Resolved(d, "status", "ticket-statuses", known) \in Vals
    BY <1>3 DEF Kinds
  <2> DEFINE columns == {"client", "device", "ticket_type", "author", "external_author",
                         "department", "reason", "contact_person", "executor", "status"}
  <2>3. Row(d, known, links) = Ticket(d, known, links)  BY <1>14 DEF Row
  <2>4. Ticket(d, known, links) =
          [client |-> Resolved(d, "client", "clients", known),
           device |-> Resolved(d, "device", "devices", known),
           ticket_type |-> Resolved(d, "ticketType", "ticket-types", known),
           author |-> author.account,
           external_author |-> author.external,
           department |-> Resolved(d, "department", "departments", known),
           reason |-> Resolved(d, "reason", "ticket-reasons", known),
           contact_person |-> Resolved(d, "contactPerson", "contacts", known),
           executor |-> Resolved(d, "executor", "users", known),
           status |-> Resolved(d, "status", "ticket-statuses", known)]
    BY DEF Ticket
  <2> HIDE DEF author
  <2>5. Ticket(d, known, links) \in [columns -> Vals]  BY <2>1, <2>2, <2>4
  <2>6. columns \in Layouts  BY DEF Layouts
  <2> HIDE DEF columns
  <2> QED  BY <1>5, <2>3, <2>5, <2>6 DEF known, links
<1> QED  BY <1>1, <1>6, <1>7, <1>8, <1>9, <1>10, <1>11, <1>12, <1>13, <1>14 DEF Kinds

LEMMA BeforeKinds ==
    /\ Before(1) = {} /\ Kinds \subseteq Before(16)
    /\ Before(12) = Before(11) \cup {"users", "departments"}
    /\ \A i \in 1..11 : {"external-users", "tickets"} \cap Before(i) = {}
    /\ "departments" \notin Before(11)
<1>1. Before(1) = {}  BY DEF Before
<1>2. Kinds \subseteq Before(16)
  <2>1. \A j \in 1..15 : ImportSteps[j] \in Before(16)  BY DEF Before
  <2>2. "departments" \in Before(16)  BY DEF Before
  <2> QED  BY <2>1, <2>2, StepNames DEF Kinds
<1>3. Before(12) = Before(11) \cup {"users", "departments"}
  <2>1. 1..(12 - 1) = 1..(11 - 1) \cup {11}  OBVIOUS
  <2> QED  BY <2>1, StepNames DEF Before
<1>4. ASSUME NEW j \in 1..10
      PROVE  ImportSteps[j] \notin {"external-users", "tickets", "departments"}
  <2>1. j \in {1, 2, 3, 4, 5} \/ j \in {6, 7, 8, 9, 10}  OBVIOUS
  <2> QED  BY <2>1, StepNames
<1>5. ASSUME NEW i \in 1..11
      PROVE  {"external-users", "tickets", "departments"} \cap Before(i) = {}
  <2>1. ~(i > 11) /\ 1..(i - 1) \subseteq 1..10  OBVIOUS
  <2> QED  BY <1>4, <2>1 DEF Before
<1>6. "departments" \notin Before(11)
  <2>1. 11 \in 1..11  OBVIOUS
  <2> QED  BY <1>5, <2>1
<1>7. \A i \in 1..11 : {"external-users", "tickets"} \cap Before(i) = {}  BY <1>5
<1> QED  BY <1>1, <1>2, <1>3, <1>6, <1>7

(* Only the external users and the tickets depend on the accounts.         *)
LEMMA UsersChange ==
    ASSUME NEW kinds, {"external-users", "tickets"} \cap kinds = {}, NEW rs,
           NEW old, NEW new, Imported(kinds, old, rs)
    PROVE  Imported(kinds, new, rs)
<1> SUFFICES ASSUME NEW d \in Docs, Kind[d] \in kinds PROVE Whole(d, new, rs)
  BY DEF Imported
<1>1. Whole(d, old, rs)  BY DEF Imported
<1>2. "users" \notin Needs(Kind[d]) /\ Kind[d] # "tickets" /\ Needs(Kind[d]) \subseteq Kinds
  BY DEF Needs, Kinds
<1>3. \A k \in Needs(Kind[d]) : FullOf(old)[k] = FullOf(new)[k]  BY <1>2 DEF FullOf
<1>4. /\ Skipped(d, FullOf(old)) = Skipped(d, FullOf(new))
      /\ Row(d, FullOf(old), LinksOf(old)) = Row(d, FullOf(new), LinksOf(new))
  BY <1>2, <1>3, RowSame
<1> QED  BY <1>1, <1>4 DEF Whole

(* A kind that is behind is there as a whole.                              *)
LEMMA StepFinds ==
    ASSUME NEW kinds, Imported(kinds, Users, rows),
           NEW k \in kinds \ {"attachments", "agreements"}, k \in Kinds
    PROVE  Present(k) = DocsOf(k)
<1>1. k # "users"  BY DEF Kinds
<1>2. ASSUME NEW d \in DocsOf(k) PROVE rows[d] # NoRow
  <2>1. d \in Docs /\ Kind[d] = k  BY DEF DocsOf
  <2>2. ~Skipped(d, FullOf(Users))  BY <2>1 DEF Skipped
  <2>3. rows[d] = Row(d, FullOf(Users), LinksOf(Users))
    BY <2>1, <2>2 DEF Imported, Whole
  <2>4. Users \subseteq People  BY DEF Users
  <2> QED  BY <2>1, <2>2, <2>3, <2>4, RowIsThere
<1> QED  BY <1>1, <1>2 DEF Present

(* A step that comes to its end behind those that it refers to.            *)
LEMMA StepImports ==
    ASSUME NEW kinds, Imported(kinds, Users, rows), NEW k \in Kinds \ kinds,
           Needs(k) \subseteq kinds \ {"attachments", "agreements"},
           Upserted(DocsOf(k), Known, Linked)
    PROVE  Imported(kinds \cup {k}, Users, rows') /\ DOMAIN rows' = Docs
<1> DEFINE known == Known
           links == Linked
           full == FullOf(Users)
           all == LinksOf(Users)
<1>1. /\ DOMAIN rows' = Docs
      /\ \A d \in Docs : rows'[d] = IF d \in DocsOf(k) /\ ~Skipped(d, known)
                                    THEN Row(d, known, links) ELSE rows[d]
  BY DEF Upserted
<1>2. ASSUME NEW j \in Needs(k) PROVE known[j] = full[j]
  <2>1. j \in Kinds \cup {"users"}  BY DEF Needs, Kinds
  <2>2. CASE j = "users"
    <3>1. known[j] = People \cap Existing  BY <2>2 DEF Known, Present
    <3>2. full[j] = Users  BY <2>2 DEF FullOf
    <3> QED  BY <3>1, <3>2 DEF Users
  <2>3. CASE j # "users"
    <3>1. Present(j) = DocsOf(j)  BY <2>1, <2>3, StepFinds
    <3>2. known[j] = Present(j)  BY <2>1 DEF Known
    <3>3. full[j] = DocsOf(j)  BY <2>1, <2>3 DEF FullOf
    <3> QED  BY <3>1, <3>2, <3>3
  <2> QED  BY <2>2, <2>3
<1>3. ASSUME k = "tickets", NEW e \in known["external-users"] PROVE links[e] = all[e]
  <2>1. "external-users" \in Needs(k)  BY <1>3 DEF Needs
  <2>2. known["external-users"] = full["external-users"]  BY <1>2, <2>1
  <2>3. full["external-users"] = DocsOf("external-users")  BY DEF FullOf, Kinds
  <2>4. e \in Docs /\ Kind[e] = "external-users" /\ e \in DocsOf("external-users")
    BY <1>3, <2>2, <2>3 DEF DocsOf
  <2>5. known["external-users"] = Present("external-users")  BY DEF Known, Kinds
  <2>6. links[e] = rows[e].linked_user_id  BY <1>3, <2>5 DEF Linked
  <2>7. "external-users" \in kinds  BY <2>1
  <2>8. ~Skipped(e, full)  BY <2>4 DEF Skipped
  <2>9. rows[e] = Row(e, full, all)  BY <2>4, <2>7, <2>8 DEF Imported, Whole
  <2>10. Row(e, full, all) = ExternalUser(e, full)  BY <2>4 DEF Row
  <2>11. all[e] = ExternalUser(e, full).linked_user_id  BY <2>4 DEF LinksOf
  <2> QED  BY <2>6, <2>9, <2>10, <2>11
<1> HIDE DEF known, links, full, all
<1>4. ASSUME NEW d \in Docs, Kind[d] \in kinds \cup {k}, ~Skipped(d, full)
      PROVE  rows'[d] = Row(d, full, all)
  <2>1. CASE Kind[d] = k
    <3>1. /\ Skipped(d, known) = Skipped(d, full)
          /\ Row(d, known, links) = Row(d, full, all)
      BY <1>2, <1>3, <2>1, RowSame
    <3>2. d \in DocsOf(k)  BY <2>1 DEF DocsOf
    <3> QED  BY <1>1, <1>4, <3>1, <3>2
  <2>2. CASE Kind[d] # k
    <3>1. rows'[d] = rows[d]  BY <1>1, <2>2 DEF DocsOf
    <3>2. Kind[d] \in kinds  BY <1>4, <2>2
    <3> QED  BY <1>4, <3>1, <3>2 DEF Imported, Whole, full, all
  <2> QED  BY <2>1, <2>2
<1> QED  BY <1>1, <1>4 DEF Imported, Whole, full, all

-----------------------------------------------------------------------------
(* What leaves an import as it is.                                         *)

LEMMA StaysPassing ==
    ASSUME Passing, UNCHANGED <<accounts, dump, todo, rows, run>>, Whole16' => Whole16
    PROVE  Passing'
<1>1. PassingSteps' = PassingSteps /\ PassingUsers' = PassingUsers
  BY DEF PassingSteps, PassingUsers, UsersBehind, Users, Existing, Username
<1> QED  BY <1>1 DEF Passing

(* Accounts come, or change, but none goes; while users are imported, the  *)
(* names stay.                                                             *)
LEMMA GrowsPassing ==
    ASSUME Passing, UNCHANGED <<dump, todo, rows, run>>, Whole16' => run.clean,
           Existing \subseteq Existing',
           Running => \A u \in People \cap Existing : accounts'[u].name = accounts[u].name
    PROVE  Passing'
<1> SUFFICES ASSUME run.clean PROVE PassingSteps' \/ PassingUsers'
  BY DEF Passing
<1>1. PassingSteps \/ PassingUsers  BY DEF Passing, Whole16
<1>2. CASE PassingSteps
  <2>1. PICK i \in 1..16 : /\ run.steps = Rest(i) /\ Imported(Before(i), Users, rows)
                           /\ i > 11 => People \subseteq Existing
    BY <1>2 DEF PassingSteps
  <2>2. Imported(Before(i), Users', rows)
    <3>1. CASE i > 11
      <4>1. Users' = Users  BY <2>1, <3>1 DEF Users
      <4> QED  BY <2>1, <4>1
    <3>2. CASE ~(i > 11)
      <4>1. i \in 1..11  BY <3>2
      <4>2. {"external-users", "tickets"} \cap Before(i) = {}  BY <4>1, BeforeKinds
      <4> QED  BY <2>1, <4>2, UsersChange
    <3> QED  BY <3>1, <3>2
  <2>3. i > 11 => People \subseteq Existing'  BY <2>1
  <2> QED  BY <2>1, <2>2, <2>3 DEF PassingSteps
<1>3. CASE PassingUsers
  <2>1. /\ run.steps = AtAccounts /\ UsersBehind
        /\ Imported(Before(11) \cup {"departments"}, Users, rows)
    BY <1>3 DEF PassingUsers
  <2>2. Running  BY <2>1, AccountsRest DEF Running
  <2>3. {"external-users", "tickets"} \cap (Before(11) \cup {"departments"}) = {}
    BY BeforeKinds
  <2>4. Imported(Before(11) \cup {"departments"}, Users', rows)
    BY <2>1, <2>3, UsersChange
  <2>5. UsersBehind'  BY <2>1, <2>2 DEF UsersBehind, Username
  <2> QED  BY <2>1, <2>4, <2>5 DEF PassingUsers
<1> QED  BY <1>1, <1>2, <1>3

-----------------------------------------------------------------------------
(* The accounts of the users.                                              *)

LEMMA NameTyped ==
    ASSUME Types, NEW u \in People
    PROVE  /\ Username(u) \in [base : Bases, nr : Nat]
           /\ DepartmentOf[u] \in Departments \cup {NoDepartment}
           /\ \A disabled \in BOOLEAN :
                 [name |-> Username(u), disabled |-> disabled,
                  department |-> DepartmentOf[u]] \in Account
<1> DEFINE before == {v \in dump : v <= u /\ Base[v] = Base[u]}
<1>1. before \subseteq People /\ IsFiniteSet(People)
  BY AccountImportAssumption DEF Types
<1>2. IsFiniteSet(before)  BY <1>1, FS_Subset
<1>3. Cardinality(before) \in Nat  BY <1>2, FS_CardinalityType
<1>4. Base[u] \in Bases  BY AccountImportAssumption
<1>5. Username(u) \in [base : Bases, nr : Nat]  BY <1>3, <1>4 DEF Username
<1>6. DepartmentOf[u] \in Departments \cup {NoDepartment}  BY AccountImportAssumption
<1> QED  BY <1>5, <1>6 DEF Account

(* uniqueUsername gives no two users of a dump one name.                   *)
LEMMA NamesDiffer ==
    ASSUME dump = People, NEW u \in People, NEW v \in People, u # v
    PROVE  Username(u) # Username(v)
<1> DEFINE Upto(w) == {x \in dump : x <= w /\ Base[x] = Base[w]}
<1>1. IsFiniteSet(People) /\ People \subseteq Nat  BY AccountImportAssumption
<1>2. ASSUME NEW x \in People, NEW y \in People, x < y, Base[x] = Base[y]
      PROVE  Cardinality(Upto(x)) # Cardinality(Upto(y))
  <2>1. x \in Nat /\ y \in Nat  BY <1>1
  <2>2. ASSUME NEW z \in Upto(x) PROVE z \in Upto(y)
    <3>1. z \in dump /\ z \in Nat /\ z <= x /\ Base[z] = Base[x]  BY <1>1
    <3>2. z <= y  BY <1>2, <2>1, <3>1
    <3> QED  BY <1>2, <3>1, <3>2
  <2>3. y \in Upto(y) /\ y \notin Upto(x)  BY <1>2, <2>1
  <2>4. IsFiniteSet(Upto(y))
    <3>1. Upto(y) \subseteq People  OBVIOUS
    <3> QED  BY <1>1, <3>1, FS_Subset
  <2> HIDE DEF Upto
  <2> QED  BY <2>2, <2>3, <2>4, FS_Subset
<1>3. \A w : Username(w) = [base |-> Base[w], nr |-> Cardinality(Upto(w))]  BY DEF Username
<1> HIDE DEF Upto
<1>4. u \in Nat /\ v \in Nat  BY <1>1
<1>5. u < v \/ v < u  BY <1>4
<1>6. CASE Base[u] = Base[v]
  <2>1. Cardinality(Upto(u)) # Cardinality(Upto(v))  BY <1>2, <1>5, <1>6
  <2> QED  BY <1>3, <2>1
<1>7. CASE Base[u] # Base[v]  BY <1>3, <1>7
<1> QED  BY <1>6, <1>7

(* The account of a user is updated, moved or made; the name of nobody     *)
(* else changes, and only an account of the same name may go.              *)
LEMMA UserImported ==
    ASSUME Types, NEW u \in People, ImportOneUser(u)
    PROVE  /\ accounts' \in [Ids -> Account \cup {NoAccount}]
           /\ signed' \in [Things -> Ids \cup {Nobody}]
           /\ u \in Existing' /\ accounts'[u].name = Username(u)
           /\ \A a \in Ids \ {u} : \/ accounts'[a] = accounts[a]
                                   \/ a \in Named(Username(u))
<1>1. /\ accounts \in [Ids -> Account \cup {NoAccount}] /\ u \in Ids
      /\ signed \in [Things -> Ids \cup {Nobody}]
  BY DEF Types, Ids
<1>2. NoAccount \notin Account  BY AccountImportAssumption
<1>3. \A a \in Existing : accounts[a] \in Account /\ accounts[a].disabled \in BOOLEAN
  BY <1>1 DEF Existing, Account
<1> DEFINE Own(disabled) == [name |-> Username(u), disabled |-> disabled,
                             department |-> DepartmentOf[u]]
<1>4. \A disabled \in BOOLEAN : Own(disabled) \in Account  BY NameTyped
<1>5. \A disabled : Own(disabled).name = Username(u)  OBVIOUS
<1>6. ASSUME NEW disabled \in BOOLEAN, accounts' = [accounts EXCEPT ![u] = Own(disabled)],
             signed' = signed
      PROVE  /\ accounts' \in [Ids -> Account \cup {NoAccount}]
             /\ signed' \in [Things -> Ids \cup {Nobody}]
             /\ u \in Existing' /\ accounts'[u].name = Username(u)
             /\ \A a \in Ids \ {u} : accounts'[a] = accounts[a]
  <2> HIDE DEF Own
  <2> QED  BY <1>1, <1>2, <1>4, <1>5, <1>6 DEF Existing
<1>7. CASE UpdateAccount(u)
  <2>1. /\ accounts' = [accounts EXCEPT ![u] = Own(accounts[u].disabled)] /\ signed' = signed
        /\ u \in Existing
    BY <1>7 DEF UpdateAccount
  <2>2. accounts[u].disabled \in BOOLEAN  BY <1>3, <2>1
  <2> HIDE DEF Own
  <2> QED  BY <1>6, <2>1, <2>2
<1>8. CASE CreateAccount(u)
  <2>1. accounts' = [accounts EXCEPT ![u] = Own(FALSE)] /\ signed' = signed
    BY <1>8 DEF CreateAccount
  <2> HIDE DEF Own
  <2> QED  BY <1>6, <2>1
<1>9. CASE MigrateAccount(u)
  <2>1. PICK a \in Named(Username(u)) :
           /\ accounts' = [accounts EXCEPT ![u] = Own(accounts[a].disabled), ![a] = NoAccount]
           /\ Moved(a, u)
    BY <1>9 DEF MigrateAccount
  <2>2. a \in Existing /\ a \in Ids /\ a # u  BY <1>9, <2>1 DEF Named, MigrateAccount, Existing
  <2>3. accounts[a].disabled \in BOOLEAN  BY <1>3, <2>2
  <2> DEFINE own == Own(accounts[a].disabled)
  <2>4. own \in Account /\ own.name = Username(u)  BY <1>4, <1>5, <2>3
  <2>5. accounts' = [accounts EXCEPT ![u] = own, ![a] = NoAccount]  BY <2>1
  <2> HIDE DEF own, Own
  <2>6. /\ accounts' \in [Ids -> Account \cup {NoAccount}]
        /\ accounts'[u] = own
        /\ \A b \in Ids \ {u, a} : accounts'[b] = accounts[b]
    BY <1>1, <2>2, <2>4, <2>5
  <2>7. signed' \in [Things -> Ids \cup {Nobody}]  BY <1>1, <2>1 DEF Moved
  <2>8. u \in Existing'  BY <1>1, <1>2, <2>4, <2>6 DEF Existing
  <2> QED  BY <2>1, <2>4, <2>6, <2>7, <2>8
<1> QED  BY <1>7, <1>8, <1>9 DEF ImportOneUser

LEMMA PassingAt ==
    ASSUME At("accounts"), PassingSteps \/ PassingUsers PROVE PassingUsers
<1>1. ASSUME NEW i \in 1..16, run.steps = Rest(i) PROVE FALSE
  <2>1. run.steps # <<>> /\ Head(run.steps) = "accounts"  BY DEF At, Running
  <2>2. i # 16  BY <1>1, <2>1, RestTyped
  <2>3. i \in 1..15  BY <2>2
  <2>4. ImportSteps[i] = "accounts"  BY <1>1, <2>1, <2>3, NextRest
  <2>5. i \in {1, 2, 3, 4, 5, 6, 7, 8} \/ i \in {9, 10, 11, 12, 13, 14, 15}  BY <2>3
  <2> QED  BY <2>4, <2>5, StepNames
<1> QED  BY <1>1 DEF PassingSteps

LEMMA UserPassing ==
    ASSUME Types, Passing, At("accounts"), NEW u \in People, ImportUser(u), UNCHANGED <<rows, run, proc>>
    PROVE  Passing'
<1>1. /\ u \in todo /\ ImportOneUser(u) /\ todo' = todo \ {u} /\ dump' = dump
  BY DEF ImportUser, Turn
<1> SUFFICES ASSUME Whole16 PROVE PassingUsers'
  BY DEF Passing, Whole16
<1>2. PassingUsers  BY PassingAt DEF Passing
<1>3. /\ run.steps = AtAccounts
      /\ run.clean => UsersBehind
      /\ Imported(Before(11) \cup {"departments"}, Users, rows)
  BY <1>2 DEF PassingUsers
<1>4. {"external-users", "tickets"} \cap (Before(11) \cup {"departments"}) = {}
  BY BeforeKinds
<1>5. Imported(Before(11) \cup {"departments"}, Users', rows)  BY <1>3, <1>4, UsersChange
<1>6. ASSUME run.clean PROVE UsersBehind'
  <2>1. dump = People /\ \A v \in People \ todo : v \in Existing /\ accounts[v].name = Username(v)
    BY <1>3, <1>6 DEF UsersBehind
  <2>2. \A v : Username(v)' = Username(v)  BY <1>1 DEF Username
  <2>3. /\ accounts' \in [Ids -> Account \cup {NoAccount}]
        /\ u \in Existing' /\ accounts'[u].name = Username(u)
        /\ \A a \in Ids \ {u} : accounts'[a] = accounts[a] \/ a \in Named(Username(u))
    BY <1>1, UserImported
  <2>4. ASSUME NEW v \in People \ todo', v # u
        PROVE  v \in Existing' /\ accounts'[v].name = Username(v)
    <3>1. v \in People \ todo  BY <1>1, <2>4
    <3>2. v \in Existing /\ accounts[v].name = Username(v)  BY <2>1, <3>1
    <3>3. Username(u) # Username(v)  BY <2>1, <2>4, <3>1, NamesDiffer
    <3>4. v \notin Named(Username(u))  BY <3>2, <3>3 DEF Named
    <3>5. accounts'[v] = accounts[v]  BY <2>3, <2>4, <3>4 DEF Ids
    <3> QED  BY <3>2, <3>5 DEF Existing
  <2>5. dump' = People  BY <1>1, <2>1
  <2> QED  BY <2>2, <2>3, <2>4, <2>5 DEF UsersBehind
<1> QED  BY <1>3, <1>5, <1>6 DEF PassingUsers

-----------------------------------------------------------------------------
(* The steps of an import.                                                 *)

LEMMA FailsPassing ==
    ASSUME Types, StepFails PROVE IsRun(run') /\ run'.failed /\ ~run'.clean
<1> DEFINE steps == IF run.keepGoing THEN Tail(run.steps) ELSE <<>>
<1>1. run' = [run EXCEPT !.failed = TRUE, !.clean = FALSE, !.steps = steps]
  BY DEF StepFails
<1> HIDE DEF steps
<1> QED  BY <1>1 DEF Types, IsRun

LEMMA DonePassing ==
    ASSUME Types, NEW steps, run' = [run EXCEPT !.steps = steps]
    PROVE  /\ IsRun(run') /\ run'.steps = steps
           /\ run'.failed = run.failed /\ run'.clean = run.clean
BY DEF Types, IsRun

LEMMA StepPassing ==
    ASSUME Types, Passing, NEW k \in Kinds, ImportStep(k), proc' = proc
    PROVE  Passing' /\ IsRun(run') /\ DOMAIN rows' = Docs
<1>1. PICK done \in SUBSET DocsOf(k) :
         /\ Upserted(done, Known, Linked)
         /\ (done = DocsOf(k) /\ StepDone) \/ StepFails
  BY DEF ImportStep
<1>2. UNCHANGED <<accounts, signed, dump, todo>> /\ At(k)  BY DEF ImportStep
<1>3. DOMAIN rows' = Docs  BY <1>1 DEF Upserted
<1>4. CASE StepFails
  <2>1. IsRun(run') /\ run'.failed /\ ~run'.clean  BY <1>4, FailsPassing
  <2> QED  BY <1>3, <2>1 DEF Passing, Whole16
<1>5. CASE done = DocsOf(k) /\ StepDone
  <2>1. /\ IsRun(run') /\ run'.steps = Tail(run.steps)
        /\ run'.failed = run.failed /\ run'.clean = run.clean
    BY <1>5, DonePassing DEF StepDone
  <2> SUFFICES ASSUME Whole16 PROVE PassingSteps'
    BY <1>3, <2>1 DEF Passing, Whole16
  <2>2. run.steps # <<>> /\ Head(run.steps) = k  BY <1>2 DEF At, Running
  <2>3. k # "accounts" /\ k # "users"  BY DEF Kinds
  <2>4. PassingSteps  BY <2>2, <2>3, AccountsRest DEF Passing, PassingUsers
  <2>5. PICK i \in 1..16 : /\ run.steps = Rest(i) /\ Imported(Before(i), Users, rows)
                           /\ i > 11 /\ run.clean => People \subseteq Existing
    BY <2>4 DEF PassingSteps
  <2>6. i \in 1..15  BY <2>2, <2>5, RestTyped
  <2>7. k = ImportSteps[i] /\ Tail(run.steps) = Rest(i + 1) /\ i + 1 \in 1..16
    BY <2>2, <2>5, <2>6, NextRest
  <2>8. /\ Needs(k) \subseteq Before(i) \ {"attachments", "agreements"}
        /\ Before(i + 1) = Before(i) \cup {k} /\ k \notin Before(i)
        /\ i + 1 > 11 => i > 11
    BY <2>3, <2>6, <2>7, NeedsBefore
  <2>9. Imported(Before(i + 1), Users, rows')  BY <1>1, <1>5, <2>5, <2>8, StepImports
  <2>10. Users' = Users /\ Existing' = Existing  BY <1>2 DEF Users, Existing
  <2>11. /\ run'.steps = Rest(i + 1) /\ Imported(Before(i + 1), Users', rows')
         /\ i + 1 > 11 /\ run'.clean => People \subseteq Existing'
    BY <2>1, <2>5, <2>7, <2>8, <2>9, <2>10
  <2> QED  BY <2>7, <2>11 DEF PassingSteps
<1> QED  BY <1>1, <1>4, <1>5

LEMMA DepartmentsPassing ==
    ASSUME Types, Passing, ImportDepartments, proc' = proc
    PROVE  /\ Passing' /\ IsRun(run') /\ DOMAIN rows' = Docs
           /\ dump' \subseteq People /\ todo' \subseteq People /\ UNCHANGED <<accounts, signed>>
<1>1. PICK done \in SUBSET DocsOf("departments") :
         /\ Upserted(done, Known, Linked)
         /\ \/ /\ done = DocsOf("departments")
               /\ run' = [run EXCEPT !.steps = <<"accounts">> \o Tail(run.steps)]
               /\ dump' = People /\ todo' = People
            \/ (StepFails /\ UNCHANGED <<dump, todo>>)
  BY DEF ImportDepartments
<1>2. UNCHANGED <<accounts, signed>> /\ At("users")  BY DEF ImportDepartments
<1>3. DOMAIN rows' = Docs  BY <1>1 DEF Upserted
<1>4. dump' \subseteq People /\ todo' \subseteq People  BY <1>1 DEF Types
<1>5. CASE StepFails
  <2>1. IsRun(run') /\ run'.failed /\ ~run'.clean  BY <1>5, FailsPassing
  <2> QED  BY <1>2, <1>3, <1>4, <2>1 DEF Passing, Whole16
<1>6. CASE ~StepFails
  <2> DEFINE steps == <<"accounts">> \o Tail(run.steps)
  <2>1. /\ run' = [run EXCEPT !.steps = steps] /\ dump' = People /\ todo' = People
        /\ done = DocsOf("departments")
    BY <1>1, <1>6
  <2>2. steps = <<"accounts">> \o Tail(run.steps)  OBVIOUS
  <2> HIDE DEF steps
  <2>3. /\ IsRun(run') /\ run'.steps = steps
        /\ run'.failed = run.failed /\ run'.clean = run.clean
    BY <2>1, DonePassing
  <2> SUFFICES ASSUME Whole16 PROVE PassingUsers'
    BY <1>2, <1>3, <1>4, <2>3 DEF Passing, Whole16
  <2>4. run.steps # <<>> /\ Head(run.steps) = "users"  BY <1>2 DEF At, Running
  <2>5. PassingSteps  BY <2>4, AccountsRest DEF Passing, PassingUsers
  <2>6. PICK i \in 1..16 : run.steps = Rest(i) /\ Imported(Before(i), Users, rows)
    BY <2>5 DEF PassingSteps
  <2>7. i \in 1..15  BY <2>4, <2>6, RestTyped
  <2>8. ImportSteps[i] = "users"  BY <2>4, <2>6, <2>7, NextRest
  <2>9. i = 11
    <3>1. i \in {1, 2, 3, 4, 5, 6, 7, 8} \/ i \in {9, 10, 11, 12, 13, 14, 15}  BY <2>7
    <3> QED  BY <2>8, <3>1, StepNames
  <2>10. Tail(run.steps) = Rest(12)
    <3>1. 11 \in 1..15 /\ 11 + 1 = 12  OBVIOUS
    <3>2. Tail(Rest(11)) = Rest(11 + 1)  BY <3>1, NextRest
    <3> QED  BY <2>6, <2>9, <3>1, <3>2
  <2>11. run'.steps = AtAccounts  BY <2>2, <2>3, <2>10 DEF AtAccounts
  <2>12. Imported(Before(11) \cup {"departments"}, Users, rows')
    <3>1. "departments" \in Kinds /\ Needs("departments") = {}  BY DEF Kinds, Needs
    <3>2. Imported(Before(11), Users, rows)  BY <2>6, <2>9
    <3>3. Upserted(DocsOf("departments"), Known, Linked)  BY <1>1, <2>1
    <3>4. "departments" \notin Before(11)  BY BeforeKinds
    <3> QED  BY <3>1, <3>2, <3>3, <3>4, StepImports
  <2>13. Users' = Users  BY <1>2 DEF Users, Existing
  <2>14. UsersBehind'  BY <2>1 DEF UsersBehind
  <2> QED  BY <2>11, <2>12, <2>13, <2>14 DEF PassingUsers
<1> QED  BY <1>5, <1>6

LEMMA AccountsPassing ==
    ASSUME Types, Passing, ImportAccounts, proc' = proc
    PROVE  /\ Passing' /\ IsRun(run') /\ rows' = rows
           /\ dump' \subseteq People /\ todo' \subseteq People
           /\ accounts' \in [Ids -> Account \cup {NoAccount}]
           /\ signed' \in [Things -> Ids \cup {Nobody}]
<1>1. At("accounts") /\ rows' = rows  BY DEF ImportAccounts
<1>2. /\ dump \subseteq People /\ todo \subseteq People /\ IsRun(run)
      /\ accounts \in [Ids -> Account \cup {NoAccount}]
      /\ signed \in [Things -> Ids \cup {Nobody}]
  BY DEF Types
<1>3. Whole16 => PassingUsers  BY <1>1, PassingAt DEF Passing
<1>4. ASSUME NEW u \in People, ImportUser(u), run' = run PROVE Passing' /\ IsRun(run')
         /\ dump' \subseteq People /\ todo' \subseteq People
         /\ accounts' \in [Ids -> Account \cup {NoAccount}]
         /\ signed' \in [Things -> Ids \cup {Nobody}]
  <2>1. Passing'  BY <1>1, <1>4, UserPassing
  <2>2. ImportOneUser(u) /\ dump' = dump /\ todo' \subseteq todo  BY <1>4 DEF ImportUser
  <2> QED  BY <1>2, <1>4, <2>1, <2>2, UserImported
<1>5. ASSUME NEW u \in People, UserFails(u), run' = [run EXCEPT !.clean = FALSE]
      PROVE  /\ Passing' /\ IsRun(run') /\ todo' \subseteq todo
             /\ UNCHANGED <<accounts, signed, dump>>
  <2>1. /\ IsRun(run') /\ run'.steps = run.steps /\ run'.failed = run.failed /\ ~run'.clean
    BY <1>2, <1>5 DEF IsRun
  <2>2. UNCHANGED <<accounts, signed, dump>> /\ todo' \subseteq todo  BY <1>5 DEF UserFails
  <2>3. Users' = Users  BY <2>2 DEF Users, Existing
  <2>4. ASSUME Whole16' PROVE PassingUsers'
    <3>1. Whole16  BY <2>1, <2>4 DEF Whole16
    <3>2. /\ run.steps = AtAccounts
          /\ Imported(Before(11) \cup {"departments"}, Users, rows)
      BY <1>3, <3>1 DEF PassingUsers
    <3> QED  BY <1>1, <2>1, <2>3, <3>2 DEF PassingUsers
  <2> QED  BY <2>1, <2>2, <2>4 DEF Passing
<1>6. ASSUME todo = {}, StepDone, UNCHANGED <<accounts, signed, dump, todo>>
      PROVE  Passing' /\ IsRun(run')
  <2>1. /\ IsRun(run') /\ run'.steps = Tail(run.steps)
        /\ run'.failed = run.failed /\ run'.clean = run.clean
    BY <1>6, DonePassing DEF StepDone
  <2>2. Users' = Users /\ Existing' = Existing  BY <1>6 DEF Users, Existing
  <2>3. ASSUME Whole16' PROVE PassingSteps'
    <3>1. Whole16  BY <2>1, <2>3 DEF Whole16
    <3>2. /\ run.steps = AtAccounts
          /\ Imported(Before(11) \cup {"departments"}, Users, rows)
          /\ run.clean => UsersBehind
      BY <1>3, <3>1 DEF PassingUsers
    <3>3. run'.steps = Rest(12)  BY <2>1, <3>2, AccountsRest
    <3>4. Imported(Before(12), Users, rows)
      <4>1. \A d \in Docs : Kind[d] # "users"  BY DumpAssumption DEF Kinds
      <4> QED  BY <3>2, <4>1, BeforeKinds DEF Imported
    <3>5. run'.clean => People \subseteq Existing'  BY <1>6, <2>1, <2>2, <3>2 DEF UsersBehind
    <3>6. 12 \in 1..16  OBVIOUS
    <3> QED  BY <1>1, <2>2, <3>3, <3>4, <3>5, <3>6 DEF PassingSteps
  <2> QED  BY <2>1, <2>3 DEF Passing
<1>7. ASSUME StopUsers, StepFails
      PROVE  /\ Passing' /\ IsRun(run') /\ todo' = {} /\ UNCHANGED <<accounts, signed, dump>>
  <2>1. IsRun(run') /\ run'.failed /\ ~run'.clean  BY <1>7, FailsPassing
  <2>2. Passing'  BY <2>1 DEF Passing, Whole16
  <2> QED  BY <1>7, <2>1, <2>2 DEF StopUsers
<1> QED  BY <1>1, <1>2, <1>4, <1>5, <1>6, <1>7 DEF ImportAccounts

-----------------------------------------------------------------------------
(* The schema.                                                             *)

LEMMA SeedTyped ==
    /\ NoAccount \notin Account
    /\ \A a \in Seeded : \A department \in Departments :
          Enabled(NameOfSeed(a), department) \in Account
    /\ TestDepartment \in Departments
    /\ \A s \in ServiceAccounts \cup {Retired} : HomeOf[s] \in Departments
    /\ \A s \in ServiceAccounts : s \in Seeded
    /\ \A a \in TestAccounts : a \in Seeded
<1>1. /\ NoAccount \notin Account /\ SeedName \in [Seeded -> Bases]
      /\ TestDepartment \in Departments /\ ServiceDepartments \subseteq Departments
      /\ HomeOf \in [ServiceAccounts \cup {Retired} -> ServiceDepartments]
  BY AccountImportAssumption, StartupAssumption
<1>2. ASSUME NEW a \in Seeded, NEW department \in Departments
      PROVE  Enabled(NameOfSeed(a), department) \in Account
  <2>1. SeedName[a] \in Bases  BY <1>1
  <2> QED  BY <2>1 DEF Enabled, NameOfSeed, Account
<1>3. \A s \in ServiceAccounts \cup {Retired} : HomeOf[s] \in Departments  BY <1>1
<1> QED  BY <1>1, <1>2, <1>3 DEF Seeded

LEMMA TestGrows ==
    ASSUME Types, NEW hash \in BOOLEAN, SeedTest(hash)
    PROVE  accounts' \in [Ids -> Account \cup {NoAccount}] /\ Existing \subseteq Existing'
<1>1. accounts \in [Ids -> Account \cup {NoAccount}]  BY DEF Types
<1>2. ASSUME NEW a \in Ids
      PROVE  accounts'[a] \in Account \/ accounts'[a] = accounts[a]
  <2>1. CASE a \in TestAccounts /\ hash
    <3>1. accounts'[a] = Enabled(NameOfSeed(a), TestDepartment)  BY <2>1 DEF SeedTest
    <3> QED  BY <2>1, <3>1, SeedTyped
  <2>2. CASE a \in TestAccounts \cap Existing /\ ~hash
    <3>1. accounts'[a] = [name |-> accounts[a].name, disabled |-> accounts[a].disabled,
                          department |-> TestDepartment]
      BY <2>2 DEF SeedTest
    <3>2. accounts[a] \in Account  BY <1>1, <2>2 DEF Existing
    <3> QED  BY <3>1, <3>2, SeedTyped DEF Account
  <2>3. CASE ~(a \in TestAccounts /\ hash) /\ ~(a \in TestAccounts \cap Existing /\ ~hash)
    BY <2>3 DEF SeedTest
  <2> QED  BY <2>1, <2>2, <2>3
<1>3. DOMAIN accounts' = Ids /\ accounts' = [a \in Ids |-> accounts'[a]]  BY DEF SeedTest
<1>4. \A a \in Ids : accounts'[a] \in Account \cup {NoAccount}  BY <1>1, <1>2
<1>5. accounts' \in [Ids -> Account \cup {NoAccount}]  BY <1>3, <1>4
<1>6. Existing \subseteq Existing'  BY <1>2, SeedTyped DEF Existing
<1> QED  BY <1>5, <1>6

LEMMA ServiceGrows ==
    ASSUME Types, NEW hash \in BOOLEAN, SeedService(hash)
    PROVE  accounts' \in [Ids -> Account \cup {NoAccount}] /\ Existing \subseteq Existing'
<1>1. accounts \in [Ids -> Account \cup {NoAccount}]  BY DEF Types
<1> DEFINE Taken(a) == \E s \in ServiceAccounts : a = AccountOf(s) /\ (a \in Existing \/ hash)
<1>2. ASSUME NEW a \in Ids
      PROVE  accounts'[a] \in Account \/ accounts'[a] = accounts[a]
  <2>1. CASE Taken(a)
    <3> DEFINE s == CHOOSE s \in ServiceAccounts : a = AccountOf(s)
    <3>1. s \in ServiceAccounts  BY <2>1
    <3>2. accounts'[a] = Enabled(NameOfSeed(s), HomeOf[s])  BY <2>1 DEF SeedService
    <3> HIDE DEF s
    <3> QED  BY <3>1, <3>2, SeedTyped
  <2>2. CASE ~Taken(a) /\ a = Retired /\ a \in Existing
    <3>1. accounts'[a] = [name |-> [base |-> RetiredName, nr |-> 1], disabled |-> TRUE,
                          department |-> HomeOf[Retired]]
      BY <2>2 DEF SeedService
    <3>2. RetiredName \in Bases  BY StartupAssumption
    <3>3. HomeOf[Retired] \in Departments  BY SeedTyped
    <3> QED  BY <3>1, <3>2, <3>3 DEF Account
  <2>3. CASE ~Taken(a) /\ ~(a = Retired /\ a \in Existing)  BY <2>3 DEF SeedService
  <2> QED  BY <2>1, <2>2, <2>3
<1>3. DOMAIN accounts' = Ids /\ accounts' = [a \in Ids |-> accounts'[a]]  BY DEF SeedService
<1>4. \A a \in Ids : accounts'[a] \in Account \cup {NoAccount}  BY <1>1, <1>2
<1>5. accounts' \in [Ids -> Account \cup {NoAccount}]  BY <1>3, <1>4
<1>6. Existing \subseteq Existing'  BY <1>2, SeedTyped DEF Existing
<1> QED  BY <1>5, <1>6

LEMMA PolicyGrows ==
    ASSUME Types, AccessPolicy
    PROVE  /\ accounts' \in [Ids -> Account \cup {NoAccount}] /\ Existing \subseteq Existing'
           /\ Policy'
<1>1. accounts \in [Ids -> Account \cup {NoAccount}]  BY DEF Types
<1> DEFINE Barred(a) == /\ a \in Existing /\ accounts[a].name \notin Exempt
                        /\ accounts[a].department \notin ServiceDepartments
<1>2. ASSUME NEW a \in Ids
      PROVE  /\ Barred(a) => accounts'[a] \in Account /\ accounts'[a].disabled
             /\ ~Barred(a) => accounts'[a] = accounts[a]
  <2>1. CASE Barred(a)
    <3>1. accounts'[a] = [name |-> accounts[a].name, disabled |-> TRUE,
                          department |-> accounts[a].department]
      BY <2>1 DEF AccessPolicy
    <3>2. accounts[a] \in Account  BY <1>1, <2>1 DEF Existing
    <3> QED  BY <2>1, <3>1, <3>2 DEF Account
  <2>2. CASE ~Barred(a)  BY <2>2 DEF AccessPolicy
  <2> QED  BY <2>1, <2>2
<1>3. DOMAIN accounts' = Ids /\ accounts' = [a \in Ids |-> accounts'[a]]  BY DEF AccessPolicy
<1>4. \A a \in Ids : accounts'[a] \in Account \cup {NoAccount}  BY <1>1, <1>2
<1>5. accounts' \in [Ids -> Account \cup {NoAccount}]  BY <1>3, <1>4
<1>6. Existing \subseteq Existing'  BY <1>2, SeedTyped DEF Existing
<1>7. ASSUME NEW a \in Existing', ~accounts'[a].disabled
      PROVE  accounts'[a].name \in Exempt \/ accounts'[a].department \in ServiceDepartments
  <2>1. a \in Ids /\ ~Barred(a) /\ accounts'[a] = accounts[a]  BY <1>2, <1>7 DEF Existing
  <2>2. a \in Existing  BY <1>7, <2>1 DEF Existing
  <2> QED  BY <2>1, <2>2
<1>8. Exempt' = Exempt  BY DEF Exempt
<1> QED  BY <1>5, <1>6, <1>7, <1>8 DEF Policy

LEMMA ApplyStep ==
    ASSUME Sound, ApplyFile PROVE Sound'
<1>1. /\ files # <<>> /\ files' = Tail(files)
      /\ UNCHANGED <<signed, dump, todo, rows, run, proc, env, needs>>
      /\ Types /\ Upcoming /\ Passing
  BY DEF ApplyFile, Sound
<1>2. HashKnown \subseteq BOOLEAN
  <2>1. env \in Environments  BY <1>1 DEF Types
  <2> QED  BY <2>1 DEF HashKnown, Environments
<1>3. /\ accounts' \in [Ids -> Account \cup {NoAccount}] /\ Existing \subseteq Existing'
      /\ Head(files) = "024" => Policy'
  <2>1. CASE \E hash \in HashKnown : SeedTest(hash) /\ Head(files) = "021"
    BY <1>1, <1>2, <2>1, TestGrows
  <2>2. CASE \E hash \in HashKnown : SeedService(hash) /\ Head(files) = "022"
    BY <1>1, <1>2, <2>2, ServiceGrows
  <2>3. CASE UNCHANGED accounts /\ Head(files) \in {"021", "022"}
    BY <1>1, <2>3 DEF Types, Existing
  <2>4. CASE AccessPolicy  BY <1>1, <2>4, PolicyGrows
  <2> QED  BY <2>1, <2>2, <2>3, <2>4 DEF ApplyFile
<1>4. /\ files' \in {<<>>, <<"024">>, <<"022", "024">>, SchemaFiles}
      /\ files' = <<>> => Head(files) = "024"
  <2>1. files \in {<<"024">>, <<"022", "024">>, <<"021", "022", "024">>}
    BY <1>1 DEF Types, SchemaFiles
  <2>2. CASE files = <<"024">>  BY <1>1, <2>2
  <2>3. CASE files = <<"022", "024">>  BY <1>1, <2>3
  <2>4. CASE files = <<"021", "022", "024">>  BY <1>1, <2>4
  <2> QED  BY <2>1, <2>2, <2>3, <2>4
<1>5. proc \in {"bootstrap", "server"} /\ ~Running  BY <1>1 DEF Upcoming
<1>6. Types'  BY <1>1, <1>3, <1>4 DEF Types, IsRun
<1>7. Upcoming'  BY <1>1, <1>3, <1>4, <1>5 DEF Upcoming, Running
<1>8. Whole16' => run.clean  BY <1>1, <1>5 DEF Whole16
<1>9. Passing'  BY <1>1, <1>3, <1>5, <1>8, GrowsPassing
<1> QED  BY <1>6, <1>7, <1>9 DEF Sound

-----------------------------------------------------------------------------
(* The container, and imports by hand.                                     *)

LEMMA ContainerStep ==
    ASSUME Sound, Boot \/ StartServer \/ Serve \/ UNCHANGED vars PROVE Sound'
<1>1. /\ UNCHANGED dataVars /\ Types /\ Upcoming /\ Passing
  BY DEF Boot, StartServer, Serve, Sound, vars, dataVars
<1>2. CASE Boot
  <2>1. /\ ~Running /\ proc' = "bootstrap" /\ files' = SchemaFiles
        /\ env' \in Environments /\ needs' \in BOOLEAN /\ files' # <<>>
    BY <1>2 DEF Boot, SchemaFiles, Environments, NeedsImport
  <2>2. Types'  BY <1>1, <2>1 DEF Types, IsRun, dataVars
  <2>3. Upcoming'  BY <1>1, <2>1 DEF Upcoming, Running, dataVars
  <2>4. Passing'  BY <1>1, <2>1, StaysPassing DEF Whole16, dataVars
  <2> QED  BY <2>2, <2>3, <2>4 DEF Sound
<1>3. CASE StartServer
  <2>1. /\ ~Running /\ proc' = "server" /\ files' = SchemaFiles /\ files' # <<>>
        /\ UNCHANGED <<env, needs>>
    BY <1>1, <1>3 DEF StartServer, SchemaAgain, SchemaFiles, Upcoming
  <2>2. Types'  BY <1>1, <2>1 DEF Types, IsRun, dataVars
  <2>3. Upcoming'  BY <1>1, <2>1 DEF Upcoming, Running, dataVars
  <2>4. Passing'  BY <1>1, <2>1, StaysPassing DEF Whole16, dataVars
  <2> QED  BY <2>2, <2>3, <2>4 DEF Sound
<1>4. CASE Serve
  <2>1. proc' = "serving" /\ files = <<>> /\ UNCHANGED <<env, files, needs>>
    BY <1>4 DEF Serve
  <2>2. Types'  BY <1>1, <2>1 DEF Types, IsRun, dataVars
  <2>3. Upcoming'  BY <1>1, <2>1 DEF Upcoming
  <2>4. Passing'  BY <1>1, <2>1, StaysPassing DEF Whole16, dataVars
  <2> QED  BY <2>2, <2>3, <2>4 DEF Sound
<1>5. CASE UNCHANGED vars
  <2>1. Types'  BY <1>1, <1>5 DEF Types, IsRun, vars
  <2>2. Upcoming'  BY <1>1, <1>5 DEF Upcoming, Running, Policy, Existing, Exempt, vars
  <2>3. Passing'  BY <1>1, <1>5, StaysPassing DEF Whole16, vars
  <2> QED  BY <2>1, <2>2, <2>3 DEF Sound
<1> QED  BY <1>2, <1>3, <1>4, <1>5

LEMMA BeginStep ==
    ASSUME Sound,
           BootstrapImports \/ \E selection \in Selections, keepGoing \in KeepGoing :
                                  ImportByHand(selection, keepGoing)
    PROVE  Sound'
<1>1. /\ UNCHANGED <<accounts, signed, dump, todo, rows, env, files, needs>>
      /\ files = <<>> /\ Types /\ Upcoming
      /\ proc' \in {"down", "serving", "importing"}
  BY DEF BootstrapImports, ImportByHand, StartImport, Sound, Upcoming
<1>2. PICK selection : \E keepGoing \in BOOLEAN :
         /\ StartImport(selection, keepGoing)
         /\ proc' = "importing" => selection = ImportSteps
  <2>1. KeepGoing \subseteq BOOLEAN  BY DumpAssumption
  <2>2. CASE BootstrapImports
    <3>1. StartImport(ImportSteps, FALSE)  BY <2>2 DEF BootstrapImports
    <3> QED  BY <3>1
  <2>3. CASE \E selection \in Selections, keepGoing \in KeepGoing :
                ImportByHand(selection, keepGoing)
    <3>1. PICK selection \in Selections, keepGoing \in KeepGoing :
             ImportByHand(selection, keepGoing)
      BY <2>3
    <3>2. StartImport(selection, keepGoing) /\ proc' # "importing"
      BY <3>1 DEF ImportByHand
    <3> QED  BY <2>1, <3>2
  <2> QED  BY <2>2, <2>3
<1>3. /\ run'.steps = selection /\ run'.clean = (selection = ImportSteps) /\ IsRun(run')
  BY <1>2 DEF IsRun, StartImport
<1>4. Types'  BY <1>1, <1>3 DEF Types
<1>5. Upcoming'  BY <1>1 DEF Upcoming
<1>6. ASSUME Whole16' PROVE PassingSteps'
  <2>1. selection = ImportSteps  BY <1>2, <1>3, <1>6 DEF Whole16
  <2>2. run'.steps = Rest(1)  BY <1>3, <2>1, FirstRest
  <2>3. Imported(Before(1), Users', rows')  BY BeforeKinds DEF Imported
  <2>4. 1 \in 1..16 /\ ~(1 > 11)  OBVIOUS
  <2> QED  BY <2>2, <2>3, <2>4 DEF PassingSteps
<1> QED  BY <1>4, <1>5, <1>6 DEF Sound, Passing

LEMMA RunsStep ==
    ASSUME Sound, ImportRuns PROVE Sound'
<1>1. ImportNext /\ UNCHANGED <<proc, env, files, needs>> /\ Types /\ Upcoming /\ Passing
  BY DEF ImportRuns, Sound
<1>2. Running  BY <1>1 DEF ImportNext, ImportStep, ImportDepartments, ImportAccounts, At
<1>3. Upcoming'  BY <1>1, <1>2 DEF Upcoming
<1>4. ASSUME NEW k \in Kinds, ImportStep(k) PROVE Types' /\ Passing'
  <2>1. Passing' /\ IsRun(run') /\ DOMAIN rows' = Docs  BY <1>1, <1>4, StepPassing
  <2>2. UNCHANGED <<accounts, signed, dump, todo>>  BY <1>4 DEF ImportStep
  <2> QED  BY <1>1, <2>1, <2>2 DEF Types
<1>5. ASSUME ImportDepartments PROVE Types' /\ Passing'
  <2>1. /\ Passing' /\ IsRun(run') /\ DOMAIN rows' = Docs
        /\ dump' \subseteq People /\ todo' \subseteq People /\ UNCHANGED <<accounts, signed>>
    BY <1>1, <1>5, DepartmentsPassing
  <2> QED  BY <1>1, <2>1 DEF Types
<1>6. ASSUME ImportAccounts PROVE Types' /\ Passing'
  <2>1. /\ Passing' /\ IsRun(run') /\ rows' = rows
        /\ dump' \subseteq People /\ todo' \subseteq People
        /\ accounts' \in [Ids -> Account \cup {NoAccount}]
        /\ signed' \in [Things -> Ids \cup {Nobody}]
    BY <1>1, <1>6, AccountsPassing
  <2> QED  BY <1>1, <2>1 DEF Types
<1> QED  BY <1>1, <1>3, <1>4, <1>5, <1>6 DEF ImportNext, Sound

LEMMA KilledStep ==
    ASSUME Sound, Stop \/ (ImportKilled /\ proc \in {"down", "serving"}
                           /\ UNCHANGED <<proc, env, files, needs>>)
    PROVE  Sound'
<1>1. /\ proc' \in {"down", "serving"} /\ files' \in {<<>>, files} /\ env' = env
      /\ needs' \in BOOLEAN /\ Types /\ Upcoming /\ Passing
      /\ ImportKilled \/ UNCHANGED dataVars
      /\ files' # <<>> => proc \in {"down", "serving"}
  BY DEF Stop, Sound, Types
<1>2. Upcoming'  BY <1>1 DEF Upcoming
<1>3. CASE UNCHANGED dataVars
  <2>1. Types'  BY <1>1, <1>3 DEF Types, IsRun, dataVars
  <2>2. Passing'  BY <1>1, <1>3, StaysPassing DEF Whole16, dataVars
  <2> QED  BY <1>2, <2>1, <2>2 DEF Sound
<1>4. CASE ImportKilled
  <2>1. /\ run' = NotRunning /\ todo' = {} /\ UNCHANGED <<accounts, signed, dump, rows>>
    BY <1>4 DEF ImportKilled
  <2>2. IsRun(run') /\ ~run'.clean  BY <2>1 DEF NotRunning, IsRun
  <2>3. Types'  BY <1>1, <2>1, <2>2 DEF Types
  <2>4. Passing'  BY <1>1, <2>2 DEF Passing, Whole16
  <2> QED  BY <1>2, <2>3, <2>4 DEF Sound
<1> QED  BY <1>1, <1>3, <1>4

LEMMA ServingStep ==
    ASSUME Sound, Serving PROVE Sound'
<1>1. /\ proc = "serving" /\ UNCHANGED <<proc, env, files, needs>>
      /\ Types /\ Upcoming /\ Passing
  BY DEF Serving, Sound
<1>2. Upcoming'  BY <1>1 DEF Upcoming
<1>3. CASE \E a \in Others : Register(a) /\ UNCHANGED <<rows, run>>
  <2>1. PICK a \in Others : Register(a) /\ UNCHANGED <<rows, run>>  BY <1>3
  <2> DEFINE new == [name |-> [base |-> Base[HolderOf[a]], nr |-> 1],
                     disabled |-> FALSE, department |-> NoDepartment]
  <2>2. /\ accounts' = [accounts EXCEPT ![a] = new]
        /\ UNCHANGED <<signed, dump, todo, rows, run>>
        /\ accounts[a] = NoAccount /\ a \in Ids /\ HolderOf[a] # Nobody
    BY <2>1 DEF Register, Existing, Ids
  <2>3. new \in Account
    <3>1. HolderOf[a] \in People  BY <2>2, AccountImportAssumption
    <3> QED  BY <3>1, AccountImportAssumption DEF Account
  <2> HIDE DEF new
  <2>4. /\ accounts' \in [Ids -> Account \cup {NoAccount}] /\ accounts'[a] = new
        /\ \A b \in Ids \ {a} : accounts'[b] = accounts[b]
    BY <1>1, <2>2, <2>3 DEF Types
  <2>5. Types'  BY <1>1, <2>2, <2>4 DEF Types, IsRun
  <2>6. Existing \subseteq Existing'  BY <2>2, <2>4 DEF Existing
  <2>7. \A b \in Existing : accounts'[b].name = accounts[b].name
    BY <2>2, <2>4 DEF Existing
  <2>8. Passing'  BY <1>1, <2>2, <2>6, <2>7, GrowsPassing DEF Whole16
  <2> QED  BY <1>2, <2>5, <2>8 DEF Sound
<1>4. CASE \E t \in Things, a \in Ids : Write(t, a) /\ UNCHANGED <<rows, run>>
  <2>1. PICK t \in Things, a \in Ids : Write(t, a) /\ UNCHANGED <<rows, run>>  BY <1>4
  <2>2. /\ signed' = [signed EXCEPT ![t] = a]
        /\ UNCHANGED <<accounts, dump, todo, rows, run>>
    BY <2>1 DEF Write
  <2>3. signed' \in [Things -> Ids \cup {Nobody}]  BY <1>1, <2>2 DEF Types
  <2>4. Types'  BY <1>1, <2>2, <2>3 DEF Types, IsRun
  <2>5. Passing'  BY <1>1, <2>2, StaysPassing DEF Whole16
  <2> QED  BY <1>2, <2>4, <2>5 DEF Sound
<1>5. CASE \E a \in Ids : SetDisabled(a)
  <2>1. PICK a \in Ids : SetDisabled(a)  BY <1>5
  <2> DEFINE new == [accounts[a] EXCEPT !.disabled = ~accounts[a].disabled]
  <2>2. /\ accounts' = [accounts EXCEPT ![a] = new]
        /\ UNCHANGED <<signed, dump, todo, rows, run>>
        /\ accounts[a] # NoAccount
    BY <2>1 DEF SetDisabled, Existing
  <2>3. accounts[a] \in Account  BY <1>1, <2>2 DEF Types
  <2>4. new \in Account /\ new.name = accounts[a].name  BY <2>3 DEF Account
  <2> HIDE DEF new
  <2>5. /\ accounts' \in [Ids -> Account \cup {NoAccount}] /\ accounts'[a] = new
        /\ \A b \in Ids \ {a} : accounts'[b] = accounts[b]
    BY <1>1, <2>2, <2>4 DEF Types
  <2>6. Types'  BY <1>1, <2>2, <2>5 DEF Types, IsRun
  <2>7. new # NoAccount  BY <2>4, AccountImportAssumption
  <2>8. Existing \subseteq Existing'  BY <2>5, <2>7 DEF Existing
  <2>9. \A b \in Existing : accounts'[b].name = accounts[b].name
    BY <2>4, <2>5 DEF Existing
  <2>10. Passing'  BY <1>1, <2>2, <2>8, <2>9, GrowsPassing DEF Whole16
  <2> QED  BY <1>2, <2>6, <2>10 DEF Sound
<1>6. CASE \E d \in Removable : Remove(d)
  <2>1. /\ run' = [run EXCEPT !.clean = FALSE] /\ DOMAIN rows' = Docs
        /\ UNCHANGED <<accounts, signed, dump, todo>>
    BY <1>6 DEF Remove
  <2>2. IsRun(run') /\ ~run'.clean  BY <1>1, <2>1 DEF Types, IsRun
  <2>3. Types'  BY <1>1, <2>1, <2>2 DEF Types
  <2>4. Passing'  BY <1>1, <2>2 DEF Passing, Whole16
  <2> QED  BY <1>2, <2>3, <2>4 DEF Sound
<1> QED  BY <1>3, <1>4, <1>5, <1>6 DEF Serving

LEMMA InitSound == Init => Sound
<1> SUFFICES ASSUME Init PROVE Sound  OBVIOUS
<1>1. /\ accounts = [a \in Ids |-> NoAccount] /\ signed = [t \in Things |-> Nobody]
      /\ dump = {} /\ todo = {} /\ rows = [d \in Docs |-> NoRow] /\ run = NotRunning
      /\ proc = "down" /\ env \in Environments /\ files = <<>> /\ needs = FALSE
  BY DEF Init, DumpInit, AccountInit
<1>2. IsRun(run) /\ ~run.clean  BY <1>1 DEF NotRunning, IsRun
<1>3. Types  BY <1>1, <1>2 DEF Types
<1>4. Upcoming  BY <1>1 DEF Upcoming
<1>5. Passing  BY <1>1, <1>2 DEF Passing, Whole16
<1> QED  BY <1>3, <1>4, <1>5 DEF Sound

LEMMA StepSound == Sound /\ [Next]_vars => Sound'
<1> SUFFICES ASSUME Sound, [Next]_vars PROVE Sound'  OBVIOUS
<1>1. CASE Boot \/ StartServer \/ Serve \/ UNCHANGED vars  BY <1>1, ContainerStep
<1>2. CASE ApplyFile  BY <1>2, ApplyStep
<1>3. CASE BootstrapImports \/ \E selection \in Selections, keepGoing \in KeepGoing :
                                  ImportByHand(selection, keepGoing)
  BY <1>3, BeginStep
<1>4. CASE ImportRuns  BY <1>4, RunsStep
<1>5. CASE Stop \/ (ImportKilled /\ proc \in {"down", "serving"}
                    /\ UNCHANGED <<proc, env, files, needs>>)
  BY <1>5, KilledStep
<1>6. CASE Serving  BY <1>6, ServingStep
<1> QED  BY <1>1, <1>2, <1>3, <1>4, <1>5, <1>6 DEF Next

-----------------------------------------------------------------------------
(* The theorems.                                                           *)

(* An import that has run through, and may have missed nothing but users.  *)
LEMMA WholeDumpBehind ==
    ASSUME Passing, Whole16, ~Running
    PROVE  WholeDump(Users) /\ (run.clean => People \subseteq Existing)
<1>1. run.steps = <<>>  BY DEF Running
<1>2. PassingSteps  BY <1>1, AccountsRest DEF Passing, PassingUsers
<1>3. PICK i \in 1..16 : /\ run.steps = Rest(i) /\ Imported(Before(i), Users, rows)
                         /\ i > 11 /\ run.clean => People \subseteq Existing
  BY <1>2 DEF PassingSteps
<1>4. i = 16  BY <1>1, <1>3, RestTyped
<1>5. \A d \in Docs : Kind[d] \in Before(16)  BY BeforeKinds, DumpAssumption
<1>6. \A d \in Docs : Whole(d, Users, rows)  BY <1>3, <1>4, <1>5 DEF Imported
<1>7. WholeDump(Users)  BY <1>6 DEF WholeDump, Whole, FullOf, LinksOf
<1> QED  BY <1>3, <1>4, <1>7

THEOREM StartupSound == Spec => []Sound
<1> QED  BY InitSound, StepSound, PTL DEF Spec

(* The tables, the accounts, the schema and the import keep their types    *)
(* through every start, import and request.                                *)
THEOREM StartupTypes == Spec => []Types
<1>1. Sound => Types  BY DEF Sound
<1> QED  BY <1>1, StartupSound, PTL

(* An import of all steps in which nothing fails and from which nothing is *)
(* removed leaves every user with an account and every document in the     *)
(* tables, with all the references that the dump resolves, although the    *)
(* steps run one by one, without a transaction, beside a server that       *)
(* registers and disables accounts.                                        *)
THEOREM ImportsComplete == Spec => []ImportCompletes
<1>1. ASSUME Sound PROVE ImportCompletes
  <2> SUFFICES ASSUME ~Running, run.clean
               PROVE  People \subseteq Existing /\ WholeDump(People)
    BY DEF ImportCompletes
  <2>1. WholeDump(Users) /\ People \subseteq Existing
    BY <1>1, WholeDumpBehind DEF Sound, Whole16
  <2>2. Users = People  BY <2>1 DEF Users
  <2> QED  BY <2>1, <2>2
<1> QED  BY <1>1, StartupSound, PTL

(* Whatever has been imported, seeded, registered or enabled before, and   *)
(* wherever earlier starts have stopped: when the server begins to serve,  *)
(* nobody may sign in but the exempt accounts and the service departments. *)
THEOREM PolicyHolds == Spec => PolicyAtServe
<1> DEFINE Kept == proc = "server" /\ proc' = "serving" =>
                      \A a \in Existing : ~accounts[a].disabled =>
                         \/ accounts[a].name \in Exempt
                         \/ accounts[a].department \in ServiceDepartments
<1>1. ASSUME Sound, [Next]_vars PROVE [Kept]_vars
  <2> SUFFICES ASSUME proc = "server", proc' = "serving" PROVE Policy
    BY DEF Policy
  <2>1. files = <<>>
    <3>1. ~(UNCHANGED vars)  BY DEF vars
    <3>2. Next  BY <1>1, <3>1
    <3> QED  BY <3>2 DEF Next, Boot, ApplyFile, BootstrapImports, StartServer, Serve,
                         Stop, ImportByHand, ImportRuns, Serving
  <2> QED  BY <1>1, <2>1 DEF Sound, Upcoming
<1> HIDE DEF Kept
<1>2. Spec => [][Kept]_vars  BY <1>1, StartupSound, PTL DEF Spec
<1> QED  BY <1>2 DEF Kept, PolicyAtServe

(* A server that comes up behind the import of its own bootstrap serves    *)
(* the whole dump: a step that failed would have kept it from starting.    *)
THEOREM DumpServed == Spec => ServesWholeDump
<1> DEFINE Served == proc = "importing" /\ proc' = "server" =>
                        WholeDump(People \cap Existing)
<1>1. ASSUME Sound, [Next]_vars PROVE [Served]_vars
  <2> SUFFICES ASSUME proc = "importing", proc' = "server"
               PROVE  WholeDump(People \cap Existing)
    OBVIOUS
  <2>1. ~Running /\ ~run.failed
    <3>1. ~(UNCHANGED vars)  BY DEF vars
    <3>2. Next  BY <1>1, <3>1
    <3> QED  BY <3>2 DEF Next, Boot, ApplyFile, BootstrapImports, StartServer, Serve,
                         Stop, ImportByHand, ImportRuns, Serving
  <2> QED  BY <1>1, <2>1, WholeDumpBehind DEF Sound, Whole16, Users
<1> HIDE DEF Served
<1>2. Spec => [][Served]_vars  BY <1>1, StartupSound, PTL DEF Spec
<1> QED  BY <1>2 DEF Served, ServesWholeDump
=============================================================================
