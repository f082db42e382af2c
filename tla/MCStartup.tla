------------------------------ MODULE MCStartup ------------------------------
(***************************************************************************)
(* One document of each kind that refers to others, one employee outside   *)
(* the service departments, who may also have registered, and one seeded   *)
(* account of either kind, with names that all differ.                     *)
(***************************************************************************)
EXTENDS Startup

CONSTANTS
    region, client, contact, manufacturer, classificator, device, status,
    department, external, ticket, attachment, agreement, test, seeded, self,
    service, home

MCDocs == {region, client, contact, manufacturer, classificator, device,
           status, department, external, ticket, attachment, agreement}

MCKind ==
    [d \in MCDocs |->
       CASE d = region -> "regions" [] d = client -> "clients"
         [] d = contact -> "contacts" [] d = manufacturer -> "manufacturers"
         [] d = classificator -> "classificators" [] d = device -> "devices"
         [] d = status -> "ticket-statuses" [] d = department -> "departments"
         [] d = external -> "external-users" [] d = ticket -> "tickets"
         [] d = attachment -> "attachments" [] d = agreement -> "agreements"]

MCRef ==
    [d \in MCDocs |->
       CASE d = client -> [region |-> region]
         [] d = contact -> [client |-> client]
         [] d = classificator -> [manufacturer |-> manufacturer, researchType |-> Null]
         [] d = device -> [classificator |-> classificator]
         [] d = external -> [user |-> 1]
         [] d = ticket ->
              [client |-> client, device |-> device, ticketType |-> Null,
               author |-> external, department |-> department, reason |-> Null,
               contactPerson |-> contact, executor |-> 1, status |-> status]
         [] d = attachment -> [ticket |-> ticket]
         [] d = agreement -> [client |-> client, device |-> device]
         [] OTHER -> <<>>]

MCBases == {"petrov.ivan", "ivanova.anna.01", "trifonova.natalya", "markin.sergey_vbb"}
MCBase == [u \in People |-> "petrov.ivan"]
MCHolderOf == [a \in Others |-> IF a = self THEN 1 ELSE Nobody]
MCDepartmentOf == [u \in People |-> department]
MCSeedName == [a \in Seeded |-> IF a = test THEN "ivanova.anna.01" ELSE "trifonova.natalya"]
MCHomeOf == [a \in ServiceAccounts \cup {Retired} |-> service]
MCSelections == {ImportSteps}
=============================================================================
