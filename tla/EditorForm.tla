----------------------------- MODULE EditorForm -----------------------------
(***************************************************************************)
(* The editor of the reference data in the browser: six pages (contacts,   *)
(* clients, classificators, devices, agreements, tickets) of one shape.  A *)
(* page keeps the selected record in the URL, shows the record that the    *)
(* query hook of RTK Query returns, copies it into a form, and saves the   *)
(* whole form with one PATCH.  The queries of a page live in the cache of  *)
(* editorApi, which outlives the page and which a PATCH invalidates by     *)
(* tags.                                                                   *)
(*                                                                         *)
(* The server is external here: it reads a record, or merges a patch into  *)
(* one, in one step.  A value of a field is one of a few strings: "" for   *)
(* absent, "a" for what a record has at first, "a " for a text with blanks *)
(* around it, "b" for what somebody enters, "c" for what another user      *)
(* does, "0" for a coordinate made of nothing, "bad" for text that a page  *)
(* refuses.  A date is a moment, "a+" one with seconds; "s0", "s1" and     *)
(* "s2" are an hour apart, when the clocks of Moscow were put back from    *)
(* +04:00 to +03:00 between the last two (on 26 October 2014).  In an      *)
(* input a date is a text without a zone: "a" to "c" are the texts of the  *)
(* moments of that name, "t0" is that of "s0" and "t1" that of both "s1"   *)
(* and "s2", the hour that Moscow had twice.                               *)
(***************************************************************************)
EXTENDS QueryCache

CONSTANTS
    Records,      \* the records of the page's kind
    First,        \* the record the list of the page starts with
    Pages,        \* the pages a behaviour may be about
    Tracked,      \* bound: the fields that are followed, the others are left out
    MaxEdits,     \* bound: how often the user changes a field
    MaxMoves,     \* bound: how often a record is selected or the page left
    MaxWrites,    \* bound: how often this user or another saves
    MaxFails,     \* bound: how many requests fail
    NoRecord      \* no record is selected

ASSUME FirstListed == First \in Records
ASSUME RecordsAreRecords == NoRecord \notin Records
ASSUME PagesAreKnown ==
    Pages \subseteq {"contacts", "clients", "classificators", "devices", "agreements", "tickets"}
ASSUME BoundsAreNumbers ==
    {MaxEdits, MaxMoves, MaxWrites, MaxFails} \subseteq Nat

VARIABLES
    page,      \* the page this behaviour is about
    server,    \* the stored records: their fields and a count of the writes
    entry,     \* the cache of editorApi: status and data of each query
    answer,    \* what the server has read for a query that is under way
    saves,     \* the PATCH requests under way
    stale,     \* the tags whose invalidation waits until nothing is pending
    ui,        \* the local state of the open page, or Nothing
    saved,     \* observation: the newest write of a record confirmed to us
    used       \* how much of each bound is used up

vars == <<page, server, entry, answer, saves, stale, ui, saved, used>>

-----------------------------------------------------------------------------
(* The six pages: the fields of the form, those that isDirty compares,     *)
(* those the cards have inputs for, and when handleSave refuses the form.  *)

Has(form, fields, v) == \E f \in fields \cap DOMAIN form : form[f] = v

ContactForm == {"client", "email", "name", "phone", "position"}
ContactWatched == {"client", "email", "name", "phone", "position"}
ContactInputs == {"name", "position", "phone", "email", "client"}
ContactRefuses(form) == Has(form, {"name", "client"}, "")

ClientForm == {"address", "latitude", "longitude", "region", "title"}
ClientWatched == {"title", "address", "latitude", "longitude", "region"}
ClientInputs == {"title", "address", "region", "latitude", "longitude"}
ClientRefuses(form) == Has(form, {"title"}, "")

ClassificatorForm ==
    {"attachments", "images", "maintenanceRegulations", "manufacturer",
     "registrationCertificate", "researchType", "title"}
ClassificatorWatched ==
    {"title", "manufacturer", "researchType", "registrationCertificate"}
ClassificatorInputs ==
    {"title", "manufacturer", "researchType", "registrationCertificate"}
ClassificatorRefuses(form) ==
    Has(form, {"title"}, "") \/ Has(form, {"registrationCertificate"}, "bad")

DeviceForm ==
    {"classificator", "connectedToLis", "isUsed", "properties", "serialNumber"}
DeviceWatched == {"classificator", "serialNumber", "connectedToLis", "isUsed"}
DeviceInputs == {"classificator", "serialNumber", "connectedToLis", "isUsed"}

AgreementForm ==
    {"actualClient", "assignedAt", "device", "distributor", "finishedAt",
     "isActive", "onWarranty"}
AgreementWatched ==
    {"actualClient", "distributor", "device", "assignedAt", "finishedAt",
     "isActive", "onWarranty"}
AgreementRefs == {"actualClient", "distributor", "device"}
AgreementDates == {"assignedAt", "finishedAt", "isActive", "onWarranty"}
AgreementInputs == AgreementRefs \cup AgreementDates
AgreementRefuses(form) ==
    \/ Has(form, {"actualClient"}, "")
    \/ Has(form, {"assignedAt", "finishedAt"}, "bad")

TicketForm ==
    {"assignedEnd", "assignedStart", "client", "closedAt", "contactPerson",
     "department", "description", "device", "doubleSigned", "executor",
     "reason", "result", "status", "ticketType", "urgent", "workfinishedAt",
     "workstartedAt"}
TicketWatched == TicketForm   \* areTicketFormStatesEqual compares every key
TicketSelects == {"status", "reason", "ticketType", "department"}
TicketRefs == {"client", "device", "contactPerson", "executor"}
TicketTexts ==
    {"description", "result", "assignedStart", "assignedEnd", "workstartedAt",
     "workfinishedAt", "closedAt", "urgent", "doubleSigned"}
TicketRefuses(form) ==
    Has(form, {"assignedStart", "assignedEnd", "workstartedAt", "workfinishedAt",
               "closedAt"}, "bad")

Page(form, watched, inputs, refs) ==
    [form |-> form, watched |-> watched, inputs |-> inputs,
     refs |-> refs]

(* The components of the six pages: their state, queries and handlers.     *)
ContactsPage == Page(ContactForm, ContactWatched, ContactInputs, {})
ClientsPage == Page(ClientForm, ClientWatched, ClientInputs, {})
ClassificatorsPage ==
    Page(ClassificatorForm, ClassificatorWatched, ClassificatorInputs, {})
DevicesPage == Page(DeviceForm, DeviceWatched, DeviceInputs, {})
AgreementsPage ==
    Page(AgreementForm, AgreementWatched, AgreementInputs, AgreementRefs)
TicketsPage ==
    Page(TicketForm, TicketWatched, TicketSelects \cup TicketRefs \cup TicketTexts,
         TicketRefs)

(* EditorPage: the parameter "entity" of the URL decides which one opens.  *)
Kinds ==
  [ contacts |-> ContactsPage, clients |-> ClientsPage,
    classificators |-> ClassificatorsPage, devices |-> DevicesPage,
    agreements |-> AgreementsPage, tickets |-> TicketsPage ]

Kind == Kinds[page]

Refuses(form) ==
    \/ page = "contacts" /\ ContactRefuses(form)
    \/ page = "clients" /\ ClientRefuses(form)
    \/ page = "classificators" /\ ClassificatorRefuses(form)
    \/ page = "agreements" /\ AgreementRefuses(form)
    \/ page = "tickets" /\ TicketRefuses(form)

-----------------------------------------------------------------------------
(* From a stored record to the form and from the form to the patch.        *)

Dates == {"assignedAt", "finishedAt", "assignedStart", "assignedEnd",
          "workstartedAt", "workfinishedAt", "closedAt"}

(* Texts and lists of lines, which may have blanks around them.            *)
Texts == {"name", "position", "phone", "email", "title", "address", "serialNumber",
          "description", "result", "attachments", "images"}

(* What a stored record has beside the fields of the form: the location of *)
(* a client is shown as its first point, the rest has no place in the form.*)
Fields ==
    (Kind.form \cup (IF page = "clients" THEN {"morePoints"} ELSE {})) \cap Tracked
FormFields == Kind.form \cap Tracked

(* toAppDateTimeValue: the value of a datetime-local input is what the     *)
(* clocks of Moscow showed then, without seconds.                          *)
ToAppDateTimeValue(v) ==
    CASE v = "a+" -> "a"
      [] v = "s0" -> "t0"
      [] v \in {"s1", "s2"} -> "t1"
      [] OTHER -> v

(* appDateTimeToISO: a text is the moment at which a clock that is always  *)
(* at +03:00 shows it, an hour late for the time when Moscow was at +04:00.*)
AppDateTimeToISO(text) ==
    CASE text = "t0" -> "s1"
      [] text = "t1" -> "s2"
      [] OTHER -> text

(* Mutation: a date with seconds is not understood and left empty.         *)
FormOfMinutes(rec) ==
    [f \in FormFields |-> IF f \in Dates /\ rec[f] = "a+" THEN "" ELSE rec[f]]

FormOf(rec) ==
    [f \in FormFields |-> IF f \in Dates THEN ToAppDateTimeValue(rec[f]) ELSE rec[f]]

(* buildLocationJson: a location is made when one of the two is filled in, *)
(* and Number("") is 0.                                                    *)
Coordinate(c, other) == IF c = "" /\ other # "" THEN "0" ELSE c

ClientPatch(form) ==
    [f \in FormFields \cup {"morePoints"} |->
        CASE f = "morePoints" -> ""
          [] f = "latitude" -> Coordinate(form[f], form["longitude"])
          [] f = "longitude" -> Coordinate(form[f], form["latitude"])
          [] OTHER -> form[f]]

DatedPatch(form) ==
    [f \in DOMAIN form |-> IF f \in Dates THEN AppDateTimeToISO(form[f]) ELSE form[f]]

Patch(form) == IF page = "clients" THEN ClientPatch(form) ELSE DatedPatch(form)

(* strings.TrimSpace, which the server does to every text of a patch.      *)
TrimSpace(patch) ==
    [f \in DOMAIN patch |->
        IF f \in Texts /\ patch[f] = "a " THEN "a" ELSE patch[f]]

-----------------------------------------------------------------------------
(* The cache of editorApi.                                                 *)

(* The queries followed here are those of the records; the list of the     *)
(* sidebar has their tags too, the options of the selects those of others. *)
Subscriptions(sel) == {sel} \ {NoRecord}

(* providesTags of the query of a record and invalidatesTags of its PATCH. *)
Provides(r) == {r}

(* Mutation: a PATCH invalidates the list only.                            *)
InvalidatesList(r) == {"LIST"}

Invalidates(r) == {r, "LIST"}

-----------------------------------------------------------------------------
(* The page: the hooks and effects that run after every change.            *)

(* The pane: the hook of the selected record, skipped when none is.        *)
PaneOf(sel, ent, last) == IF sel = NoRecord THEN last ELSE HookData(sel, ent, last)

OptionOf(rec) == [f \in Kind.refs \cap Tracked |-> rec[f]]

(* Mutation: the label of an asynchronous select is left as it is.         *)
FormLoadedOnly(u, id, rec) ==
    [u EXCEPT !.form = FormOf(rec.val), !.loaded = id, !.rev = rec.rev, !.touched = {}]

(* What useLoadedEditorRecord and the answer to a save do with a record.   *)
(* "of" and "rev" say which record and which write of it the form is made  *)
(* of, "touched" what was typed since; they are observations.              *)
FormLoaded(u, id, rec) ==
    [u EXCEPT !.form = FormOf(rec.val), !.loaded = id, !.rev = rec.rev,
              !.option = OptionOf(rec.val), !.touched = {}]

(* Mutation: the form is loaded once and never for another record.         *)
AfterEffectsOnce(u, ent) ==
    LET v == [u EXCEPT !.pane = PaneOf(u.sel, ent, u.pane)]
    IN IF v.pane = Nothing \/ u.loaded # NoRecord THEN v
       ELSE FormLoaded(v, v.pane.id, v.pane.rec)

(* useLoadedEditorRecord.                                                  *)
AfterEffects(u, ent) ==
    LET pane == PaneOf(u.sel, ent, u.pane)
        v == [u EXCEPT !.pane = pane]
    IN IF pane = Nothing \/ pane.id = u.loaded THEN v
       ELSE FormLoaded(v, pane.id, pane.rec)

(* The store has changed to ent and the local state to u: the stale tags   *)
(* are dealt with first, then the page renders and its effects run.        *)
Settle(ent, ms, tags, u) ==
    LET subs == IF u = Nothing THEN {} ELSE Subscriptions(u.sel)
        quiet == Quiet(ent, ms)
        hit == {k \in Records : Provides(k) \cap tags # {}}
    IN /\ stale' = IF quiet THEN {} ELSE tags
       /\ saves' = ms
       /\ entry' = IF quiet THEN Invalidated(ent, hit, subs) ELSE ent
       /\ ui' = IF u = Nothing THEN Nothing ELSE AfterEffects(u, entry')
       /\ answer' = [k \in Records |->
                        IF k \in StillAsked(entry, ent) \cap StillAsked(ent, entry')
                        THEN answer[k] ELSE Nothing]

-----------------------------------------------------------------------------
Init ==
    /\ page \in Pages
    /\ \E date \in {"a+", "s0"} :
          server = [r \in Records |->
                       [val |-> [f \in Fields |-> CASE f \in Dates -> date
                                                   [] f \in Texts -> "a "
                                                   [] OTHER -> "a"],
                        rev |-> 0]]
    /\ entry = [k \in Records |-> Absent]
    /\ answer = [k \in Records |-> Nothing]
    /\ saves = {}
    /\ stale = {}
    /\ ui = Nothing
    /\ saved = [r \in Records |-> 0]
    /\ used = [edits |-> 0, moves |-> 0, writes |-> 0, fails |-> 0]

Use(what, max) == used[what] < max /\ used' = [used EXCEPT ![what] = @ + 1]

(* The page is opened, with a record in its URL or without.                *)
Open(sel) ==
    /\ ui = Nothing
    /\ LET u == [sel |-> sel, pane |-> Nothing, form |-> <<>>, loaded |-> NoRecord,
                 option |-> <<>>, rev |-> 0, touched |-> {}]
       IN Settle(Subscribed(entry, Subscriptions(sel)), saves, stale, u)
    /\ UNCHANGED <<page, server, saved, used>>

(* Back, or another page: the local state is gone, the cache is not, and a *)
(* PATCH under way goes on without the page.                               *)
Leave ==
    /\ ui # Nothing
    /\ Use("moves", MaxMoves)
    /\ ui' = Nothing
    /\ saves' = {[m EXCEPT !.here = FALSE] : m \in saves}
    /\ UNCHANGED <<page, server, entry, answer, stale, saved>>

(* useEditorSearchParamSelection, once the list is there: its first record *)
(* is selected when none is.                                               *)
SelectFirst ==
    /\ ui # Nothing /\ ui.sel = NoRecord
    /\ Settle(Subscribed(entry, {First}), saves, stale, [ui EXCEPT !.sel = First])
    /\ UNCHANGED <<page, server, saved, used>>

(* handleSelect, or the history of the browser, which asks nothing.  A     *)
(* dirty form makes handleSelect ask; that the user then stays is no step. *)
Select(r) ==
    /\ ui # Nothing /\ ui.sel \notin {r, NoRecord}
    /\ Use("moves", MaxMoves)
    /\ Settle(Subscribed(entry, Subscriptions(r)), saves, stale, [ui EXCEPT !.sel = r])
    /\ UNCHANGED <<page, server, saved>>

(* What can be entered into a field: text that a page refuses only where   *)
(* its input lets it through.                                              *)
Enterable(f) ==
    {"", "b"} \cup (IF f \in Dates \cup {"registrationCertificate"} THEN {"bad"} ELSE {})

(* handleFormChange, handleCheckboxChange and the handlers of the selects: *)
(* another client of a ticket takes its contact away.                      *)
Type(f, v) ==
    /\ ui # Nothing /\ ui.pane # Nothing
    /\ f \in Kind.inputs \cap Tracked
    /\ v \in Enterable(f) /\ v # ui.form[f]
    /\ f = "contactPerson" => ~Has(ui.form, {"client"}, "")
    /\ Use("edits", MaxEdits)
    /\ LET also == IF page = "tickets" /\ f = "client" THEN {"contactPerson"} \cap Tracked ELSE {}
           With(g) == [h \in DOMAIN g |->
                          CASE h = f -> v [] h \in also -> "" [] OTHER -> g[h]]
       IN ui' = [ui EXCEPT !.form = With(@), !.option = With(@),
                           !.touched = @ \cup {f} \cup also]
    /\ UNCHANGED <<page, server, entry, answer, saves, stale, saved>>

Dirty ==
    /\ ui.sel # NoRecord
    /\ \E f \in Kind.watched \cap Tracked : ui.form[f] # FormOf(ui.pane.rec.val)[f]

IsSaving == \E m \in saves : m.here

(* handleSave, up to the request.                                          *)
Save ==
    /\ ui # Nothing /\ ui.pane # Nothing
    /\ Dirty /\ ~IsSaving
    /\ ~Refuses(ui.form)
    /\ Use("writes", MaxWrites)
    /\ saves' = saves \cup
           {[id |-> ui.sel, patch |-> Patch(ui.form), at |-> "sent",
             rec |-> Nothing, here |-> TRUE, of |-> ui.loaded, rev |-> ui.rev,
             touched |-> ui.touched, blind |-> entry[ui.sel].status # "ok"]}
    /\ UNCHANGED <<page, server, entry, answer, stale, ui, saved>>

-----------------------------------------------------------------------------
(* The requests.                                                           *)

Merged(patch, val) ==
    [f \in DOMAIN patch \cup DOMAIN val |->
        IF f \in DOMAIN patch THEN patch[f] ELSE val[f]]

Written(r, patch) ==
    [val |-> Merged(patch, server[r].val), rev |-> server[r].rev + 1]

(* The server trims a patch and merges it.                                 *)
ServerSaves(m) ==
    /\ m.at = "sent"
    /\ server' = [server EXCEPT ![m.id] = Written(m.id, TrimSpace(m.patch))]
    /\ saves' = (saves \ {m}) \cup {[m EXCEPT !.at = "done", !.rec = server'[m.id]]}
    /\ UNCHANGED <<page, entry, answer, stale, ui, saved, used>>

(* The answer arrives: the tags are stale, and the page the save was made  *)
(* on, if it is still there, takes the answer as its form.                 *)
SaveAnswered(m) ==
    /\ m.at = "done"
    /\ saved' = [saved EXCEPT ![m.id] = IF m.rec.rev > @ THEN m.rec.rev ELSE @]
    /\ LET u == IF m.here THEN FormLoaded(ui, m.id, m.rec) ELSE ui
       IN Settle(entry, saves \ {m}, stale \cup Invalidates(m.id), u)
    /\ UNCHANGED <<page, server, used>>

(* The request is refused, or it or its answer is lost: the form stays.    *)
SaveFails(m) ==
    /\ Use("fails", MaxFails)
    /\ Settle(entry, saves \ {m}, stale \cup Invalidates(m.id), ui)
    /\ UNCHANGED <<page, server, saved>>

ServerReads(k) ==
    /\ entry[k].status = "pending" /\ answer[k] = Nothing
    /\ answer' = [answer EXCEPT ![k] = server[k]]
    /\ UNCHANGED <<page, server, entry, saves, stale, ui, saved, used>>

QueryAnswered(k) ==
    /\ entry[k].status = "pending" /\ answer[k] # Nothing
    /\ Settle([entry EXCEPT ![k] = Loaded(answer[k])],
              saves, stale, ui)
    /\ UNCHANGED <<page, server, saved, used>>

QueryFails(k) ==
    /\ entry[k].status = "pending"
    /\ Use("fails", MaxFails)
    /\ Settle([entry EXCEPT ![k] = Failed(@)], saves, stale, ui)
    /\ UNCHANGED <<page, server, saved>>

(* keepUnusedDataFor: an entry nobody subscribes to goes after a minute.   *)
Expire(k) ==
    /\ entry[k].status \in {"ok", "error"}
    /\ k \notin (IF ui = Nothing THEN {} ELSE Subscriptions(ui.sel))
    /\ entry' = [entry EXCEPT ![k] = Absent]
    /\ UNCHANGED <<page, server, answer, saves, stale, ui, saved, used>>

(* Another user changes a record, here or through the legacy system.       *)
ForeignSave(r, f) ==
    /\ Use("writes", MaxWrites)
    /\ f \in Kind.inputs \cap Tracked
    /\ server' = [server EXCEPT ![r] = Written(r, [g \in {f} |-> "c"])]
    /\ UNCHANGED <<page, entry, answer, saves, stale, ui, saved>>

User ==
    \/ \E sel \in Records \cup {NoRecord} : Open(sel)
    \/ Leave
    \/ SelectFirst
    \/ \E r \in Records : Select(r)
    \/ \E f \in Tracked, v \in {"", "b", "bad"} : Type(f, v)
    \/ Save

Network ==
    \/ \E m \in saves : ServerSaves(m) \/ SaveAnswered(m) \/ SaveFails(m)
    \/ \E k \in Records : ServerReads(k) \/ QueryAnswered(k) \/ QueryFails(k) \/ Expire(k)

Next ==
    \/ User
    \/ Network
    \/ \E r \in Records, f \in Tracked : ForeignSave(r, f)

Spec == Init /\ [][Next]_vars

-----------------------------------------------------------------------------
(* A form is saved under the id of another record only while the selected  *)
(* record has never been shown: its query is under way or has failed, and  *)
(* the pane still shows the record selected before.  Once a record is      *)
(* shown, the form under it was made of that record.                       *)
ForeignFormOnlyUnloaded == \A m \in saves : m.of # m.id => m.blind

(* What a save may make of a field that nobody has touched: a date loses   *)
(* its seconds, and of the time when Moscow was at +04:00 it moves an hour *)
(* on, again with every save; a text loses the blanks around it; one empty *)
(* coordinate beside the other becomes a zero.                             *)
Resaved(f, old, new) ==
    \/ new = old
    \/ f \in Dates /\ <<old, new>> \in {<<"a+", "a">>, <<"s0", "s1">>, <<"s1", "s2">>}
    \/ f \in Texts /\ old = "a " /\ new = "a"
    \/ f \in {"latitude", "longitude"} /\ old = "" /\ new = "0"

(* A whole form is sent, but what it does to the record is what the user   *)
(* typed: a save of a form that was made of the newest write of the record *)
(* leaves every field the user has not touched as it was, but for what its *)
(* way through the form and the server does to it, and for the location of *)
(* a client, that keeps one point only.                                    *)
UntouchedFieldsKept ==
    [][\A m \in saves :
         m.at = "sent" /\ m.of = m.id /\ m.rev = server[m.id].rev
         /\ server'[m.id].rev # server[m.id].rev
         /\ (\E n \in saves' : n.at = "done" /\ [n EXCEPT !.at = "sent", !.rec = Nothing] = m)
           => \A f \in Fields \ (m.touched \cup {"morePoints"}) :
                 Resaved(f, server[m.id].val[f], server'[m.id].val[f])]_vars

(* The label beside an asynchronous select is that of the value the form   *)
(* would save, through selecting, loading and saving in any order.         *)
LabelsNameTheForm ==
    ui # Nothing /\ ui.pane # Nothing =>
        \A f \in Kind.refs \cap Tracked :
            f \in DOMAIN ui.option /\ ui.option[f] = ui.form[f]

(* A confirmed save is shown: once nothing is under way and the last reads *)
(* have succeeded, the pane is at least as new as the newest save of this  *)
(* browser, whatever was selected or left in between.                      *)
OwnSavesShown ==
    ui # Nothing /\ Quiet(entry, saves) =>
        \A r \in Records \cap {ui.sel} :
            entry[r].status = "ok" => ui.pane.id = r /\ ui.pane.rec.rev >= saved[r]

=============================================================================
