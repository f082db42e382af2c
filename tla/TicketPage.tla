----------------------------- MODULE TicketPage -----------------------------
(***************************************************************************)
(* The page of a ticket in the browser: the buttons that take a ticket     *)
(* through its life, the sheet that assigns it, and the report sheet, that *)
(* uploads its photographs one by one and closes the ticket after the      *)
(* last.  A change is shown before the server has answered (an optimistic  *)
(* update of the cache) and taken back when it fails.  A submission of the *)
(* report goes on when the page is left, and answers may be lost.          *)
(*                                                                         *)
(* The server is external here; each of its handlers is one step.  Of a    *)
(* ticket its status, its executor, the text that the sheets write and its *)
(* photographs are followed.                                               *)
(***************************************************************************)
EXTENDS QueryCache, Sequences

CONSTANTS
    Tickets,      \* the tickets, each linked to the others as its reference
    Me, Other,    \* the user of this browser and another
    NoUser,       \* no executor yet
    Turns,        \* bound: the rotations that are chosen, in quarter turns
    MaxPhotos,    \* bound: how many photographs are added to reports
    MaxTurmoil,   \* bound: how often, all in all, a page is left or moved to
                  \* another ticket, a request fails or loses its answer, or
                  \* somebody else changes a ticket, or a photograph more than
                  \* one is added
    MaxActs,      \* bound: how often a button or the assignment sheet is used
    MaxSubmits    \* bound: how often a report is submitted

ASSUME UsersDiffer == Me # Other /\ NoUser \notin {Me, Other}
ASSUME TurnsAreQuarters == Turns \subseteq 0..3
ASSUME PageBounds == {MaxPhotos, MaxTurmoil, MaxActs, MaxSubmits} \subseteq Nat

VARIABLES
    role,      \* of the user: coordinator or engineer
    writes,    \* per ticket: what its writes have made of it, the newest last
    entry,     \* the cache of getTicketById
    answer,    \* what the server has read for a query that is under way
    stale,     \* the tags whose invalidation waits until nothing is pending
    calls,     \* the mutations under way
    jobs,      \* the submissions of reports (handleSubmit) under way
    ui,        \* the local state of the page, or Nothing
    seen,      \* observations: see Init
    used       \* how much of each bound is used up

Photos == 1..MaxPhotos

(* What is followed of a ticket, of a photograph in the report sheet, and  *)
(* the local state of the page; "form" and "carried" are observations.     *)
TicketState ==
    [status : {"created", "assigned", "inWork", "worksDone", "closed"},
     executor : {Me, Other, NoUser},
     text : {"", "typed", "done", "theirs"},
     photos : SUBSET [photo : Photos, id : Nat, turn : 0..3]]

Preview == [id : Nat, file : 0..3, turn : 0..3, carried : BOOLEAN]

PaneState == [id : Tickets, rec : TicketState]

PageState(ps) ==
    [t : Tickets, pane : PaneState \cup {Nothing}, sheet : {"none", "assign", "report"},
     form : Tickets \cup {Nothing},
     previews : [ps -> Preview],
     removing : Photos \cup {Nothing}]

ASSUME NothingIsApart ==
    /\ Nothing \notin Tickets /\ Nothing \notin Photos
    /\ Nothing \notin PaneState
    /\ \A ps \in SUBSET Photos : Nothing \notin PageState(ps)

vars == <<role, writes, entry, answer, stale, calls, jobs, ui, seen, used>>

-----------------------------------------------------------------------------
(* What the server does.                                                   *)

Stored(t) == writes[t][Len(writes[t])]

(* The fields of a patch replace those of a ticket.                        *)
Patched(patch, ticket) ==
    [f \in DOMAIN patch \cup DOMAIN ticket |->
        IF f \in DOMAIN patch THEN patch[f] ELSE ticket[f]]

(* The transitions of PATCH /api/tickets/{id} that this page asks for.     *)
PatchAllowed(old, patch) ==
    \/ role = "coordinator" /\ old.status = "created" /\ patch.status = "assigned"
    \/ /\ old.executor = Me
       /\ <<old.status, patch.status>> \in
              {<<"assigned", "inWork">>, <<"inWork", "worksDone">>, <<"worksDone", "closed">>}

(* canUploadTicketAttachment, and the same condition of the deletion.      *)
AttachmentAllowed(ticket) ==
    ticket.executor = Me /\ ticket.status \in {"worksDone", "closed"}

Allowed(c) ==
    IF c.kind = "patch" THEN PatchAllowed(Stored(c.t), c.patch)
    ELSE AttachmentAllowed(Stored(c.t))

(* A photograph is stored under an id of its own and removed by that id.   *)
Effect(c) ==
    LET old == Stored(c.t)
    IN CASE c.kind = "patch" -> Patched(c.patch, old)
         [] c.kind = "upload" ->
              [old EXCEPT !.photos = @ \cup {[photo |-> c.photo, id |-> c.id, turn |-> c.turn]}]
         [] c.kind = "delete" -> [old EXCEPT !.photos = {f \in @ : f.id # c.id}]

-----------------------------------------------------------------------------
(* The cache of ticketsApi.                                                *)

Subscriptions(u) == IF u = Nothing THEN {} ELSE {u.t}

(* applyTicketPatchToDraft: the fields of the patch replace those shown,   *)
(* if there is data at all; "undo" is the inverse of what has changed.     *)
Drafted(e, patch) ==
    IF e.data = Nothing THEN e ELSE [e EXCEPT !.data = Patched(patch, @)]
UndoOf(e, patch) ==
    IF e.data = Nothing THEN <<>>
    ELSE [f \in {g \in DOMAIN patch : e.data[g] # patch[g]} |-> e.data[f]]

(* onQueryStarted of patchTicket, before the request; the other mutations  *)
(* start without it.                                                       *)
Started(c, ent) ==
    IF c.kind = "patch" THEN [c EXCEPT !.undo = UndoOf(ent[c.t], c.patch)] ELSE c
Optimistic(new, ent) ==
    [k \in Tickets |->
        IF \E c \in new : c.kind = "patch" /\ c.t = k
        THEN Drafted(ent[k], (CHOOSE c \in new : c.t = k).patch) ELSE ent[k]]

(* The rest of onQueryStarted: the answer is applied once more, or the     *)
(* update is undone.                                                       *)
Confirmed(c, ent) ==
    IF c.kind = "patch" THEN [ent EXCEPT ![c.t] = Drafted(@, c.patch)] ELSE ent
TakenBack(c, ent) ==
    IF c.kind = "patch" THEN [ent EXCEPT ![c.t] = Drafted(@, c.undo)] ELSE ent

(* Mutation: an attachment changes no tag.                                 *)
InvalidatesPatched(c) == IF c.kind = "patch" THEN {c.t} ELSE {}

(* invalidatesTags of patchTicket, uploadTicketAttachment and              *)
(* deleteTicketAttachment, as far as the query of a ticket provides them.  *)
Invalidates(c) == {c.t}

-----------------------------------------------------------------------------
(* The page.                                                               *)

(* Mutation: the effect of the assignment sheet depends on isOpen alone.   *)
FormKept(u, pane) == u.form

(* The effect of the assignment sheet, on [isOpen, ticket]: another ticket *)
(* object resets its form.                                                 *)
FormAfter(u, pane) == IF pane = u.pane THEN u.form ELSE Nothing

(* An observation: another ticket has been shown under the photographs.    *)
Marked(previews, other) ==
    [p \in DOMAIN previews |-> [previews[p] EXCEPT !.carried = @ \/ other]]

(* The page renders with the ticket its query hook returns.  Nothing       *)
(* resets the previews of the report sheet.                                *)
AfterEffects(u, ent) ==
    LET pane == HookData(u.t, ent, u.pane)
        other == u.pane # Nothing /\ pane # Nothing /\ u.pane.id # pane.id
    IN [u EXCEPT !.pane = pane,
                 !.form = FormAfter(u, pane),
                 !.previews = Marked(u.previews, other)]

(* The store has changed to ent, the mutations under way to cs, the local  *)
(* state to u: the stale tags are dealt with, the mutations "new" started, *)
(* and the page renders.                                                   *)
Settle(ent, cs, tags, u, new) ==
    LET quiet == Quiet(ent, cs)
        swept == IF quiet THEN Invalidated(ent, tags, Subscriptions(u)) ELSE ent
    IN /\ stale' = IF quiet THEN {} ELSE tags
       /\ calls' = cs \cup {Started(c, swept) : c \in new}
       /\ entry' = Optimistic(new, swept)
       /\ ui' = IF u = Nothing THEN Nothing ELSE AfterEffects(u, entry')
       /\ answer' = [k \in Tickets |->
                        IF k \in StillAsked(entry, ent) \cap StillAsked(ent, swept)
                        THEN answer[k] ELSE Nothing]

(* isPatching and isUploadingAttachment of this instance of the page, and  *)
(* the sheet's own isUploadingMedia.                                       *)
IsPatching == \E c \in calls : c.here /\ c.kind = "patch"
IsSubmitting == IsPatching \/ \E j \in jobs : j.here

(* Bound: the tickets are in the same status at first.                     *)
Begun == [coordinator |-> {"created"}, engineer |-> {"assigned", "worksDone"}]

Init ==
    /\ role \in {"coordinator", "engineer"}
    /\ \E begun \in Begun[role] :
          writes = [t \in Tickets |->
                       <<[status |-> begun, executor |-> IF begun = "created" THEN NoUser ELSE Me,
                          text |-> "", photos |-> {}]>>]
    /\ entry = [k \in Tickets |-> Absent]
    /\ answer = [k \in Tickets |-> Nothing]
    /\ stale = {}
    /\ calls = {}
    /\ jobs = {}
    /\ ui = Nothing
    /\ seen = [confirmed |-> [t \in Tickets |-> 1],   \* newest write answered
               copies |-> [p \in Photos |-> 1],       \* 1 + answers lost
               removed |-> {},    \* previews whose removal was confirmed
               unsure |-> {},     \* previews whose removal failed
               carried |-> {}]    \* previews removed under another ticket
    /\ used = [turmoil |-> 0, acts |-> 0, submits |-> 0, photos |-> 0, ids |-> 0]

Use(what, max) == used[what] < max /\ used' = [used EXCEPT ![what] = @ + 1]

(* The local state of a page that is opened.                               *)
NewPage(t) == [t |-> t, pane |-> Nothing, sheet |-> "none", form |-> Nothing,
               previews |-> <<>>, removing |-> Nothing]

Open(t) ==
    /\ ui = Nothing
    /\ Settle(Subscribed(entry, {t}), calls, stale, NewPage(t), {})
    /\ UNCHANGED <<role, writes, jobs, seen, used>>

Orphaned(xs) == {[x EXCEPT !.here = FALSE] : x \in xs}

(* The page is left.  What is under way goes on without it.                *)
Leave ==
    /\ ui # Nothing
    /\ Use("turmoil", MaxTurmoil)
    /\ ui' = Nothing
    /\ calls' = Orphaned(calls)
    /\ jobs' = Orphaned(jobs)
    /\ UNCHANGED <<role, writes, entry, answer, stale, seen>>

(* The URL changes to another ticket: the router keeps the component and   *)
(* so its local state, an open sheet included.                             *)
Routed(u, t) == IF u = Nothing THEN NewPage(t) ELSE [u EXCEPT !.t = t]

(* The link to the reference ticket, or Back and Forward of the browser,   *)
(* which ask nothing.                                                      *)
Move(t) ==
    /\ ui # Nothing /\ ui.t # t
    /\ Use("turmoil", MaxTurmoil)
    /\ Settle(Subscribed(entry, {t}), calls, stale, Routed(ui, t), {})
    /\ UNCHANGED <<role, writes, jobs, seen>>

-----------------------------------------------------------------------------
(* The buttons: what resolveTicketActionState allows for the ticket shown. *)

PatchCall(t, patch, job, form) ==
    [kind |-> "patch", t |-> t, patch |-> patch, undo |-> <<>>, at |-> "sent",
     rev |-> 0, here |-> TRUE, job |-> job, form |-> form, no |-> used.acts]

NextStatus(ticket) ==
    CASE ticket.executor # Me -> Nothing
      [] ticket.status = "assigned" -> "inWork"
      [] ticket.status = "inWork" -> "worksDone"
      [] OTHER -> Nothing

Shown == ui.pane.rec

(* handleTicketAction with the action "patch".                             *)
Act ==
    /\ ui # Nothing /\ ui.pane # Nothing /\ ui.sheet = "none"
    /\ NextStatus(Shown) # Nothing
    /\ ~IsPatching
    /\ Use("acts", MaxActs)
    /\ Settle(entry, calls, stale, ui,
              {PatchCall(ui.pane.id, [status |-> NextStatus(Shown)], 0, Nothing)})
    /\ UNCHANGED <<role, writes, jobs, seen>>

(* handleTicketAction with "openAssignmentSheet" or "openReportSheet".     *)
OpenSheet ==
    /\ ui # Nothing /\ ui.pane # Nothing /\ ui.sheet = "none" /\ ~IsPatching
    /\ \/ /\ Shown.status = "created" /\ role = "coordinator"
          /\ ui' = [ui EXCEPT !.sheet = "assign", !.form = Nothing]
       \/ /\ Shown.status = "worksDone" /\ Shown.executor = Me
          /\ ui' = [ui EXCEPT !.sheet = "report", !.previews = <<>>]
    /\ UNCHANGED <<role, writes, entry, answer, stale, calls, jobs, seen, used>>

(* The assignment sheet.  "form" is the ticket it has been filled in for.  *)
FillIn ==
    /\ ui # Nothing /\ ui.sheet = "assign" /\ ui.form = Nothing /\ ~IsPatching
    /\ ui.pane # Nothing
    /\ ui' = [ui EXCEPT !.form = ui.pane.id]
    /\ UNCHANGED <<role, writes, entry, answer, stale, calls, jobs, seen, used>>

(* handleAssignSubmit and handleAssignEngineer.                            *)
Assign(who) ==
    /\ ui # Nothing /\ ui.sheet = "assign" /\ ui.form # Nothing /\ ~IsPatching
    /\ Use("acts", MaxActs)
    /\ Settle(entry, calls, stale, ui,
              {PatchCall(ui.pane.id, [status |-> "assigned", executor |-> who, text |-> "typed"],
                         0, ui.form)})
    /\ UNCHANGED <<role, writes, jobs, seen>>

(* The sheets are closed; the report sheet not while it works.             *)
CloseSheet ==
    /\ ui # Nothing /\ ui.sheet # "none"
    /\ ui.sheet = "report" => ~IsSubmitting /\ ui.removing = Nothing
    /\ ui' = [ui EXCEPT !.sheet = "none", !.previews = <<>>, !.form = Nothing]
    /\ UNCHANGED <<role, writes, entry, answer, stale, calls, jobs, seen, used>>

-----------------------------------------------------------------------------
(* The report sheet.                                                       *)

SheetIsIdle == ui # Nothing /\ ui.sheet = "report" /\ ~IsSubmitting /\ ui.removing = Nothing

(* createPreviewItems: a photograph that is not uploaded has no id yet.    *)
NewPreview == [id |-> 0, file |-> 0, turn |-> 0, carried |-> FALSE]

With(previews, p) ==
    [q \in DOMAIN previews \cup {p} |-> IF q = p THEN NewPreview ELSE previews[q]]

(* handleMediaSelect; every selection makes a new preview.                 *)
AddPhoto ==
    /\ SheetIsIdle
    /\ used.photos < MaxPhotos
    /\ used.photos > 0 => used.turmoil < MaxTurmoil
    /\ used' = [used EXCEPT !.photos = @ + 1,
                            !.turmoil = IF used.photos > 0 THEN @ + 1 ELSE @]
    /\ ui' = [ui EXCEPT !.previews = With(@, used'.photos)]
    /\ UNCHANGED <<role, writes, entry, answer, stale, calls, jobs, seen>>

(* Mutation: the file that was rotated before is rotated further.          *)
RotatedAgain(preview, turns) == (preview.file + turns) % 4

(* rotateImageFile: always of the original file.                           *)
Rotated(preview, turns) == turns

(* TicketImageEditorModal and its onSave.                                  *)
RotatePhoto(p, turns) ==
    /\ SheetIsIdle
    /\ p \in DOMAIN ui.previews /\ ui.previews[p].id = 0
    /\ LET old == ui.previews[p]
       IN ui' = [ui EXCEPT !.previews[p] =
                    [old EXCEPT !.file = Rotated(old, turns), !.turn = turns]]
    /\ UNCHANGED <<role, writes, entry, answer, stale, calls, jobs, seen, used>>

(* Mutation: every submission uploads all photographs.                     *)
ToUploadAll(previews) == DOMAIN previews

(* What handleSubmit has still to upload.                                  *)
ToUpload(previews) == {p \in DOMAIN previews : previews[p].id = 0}

Without(previews, p) == [q \in DOMAIN previews \ {p} |-> previews[q]]

(* handleRemovePreview: what is on the server is removed there first.      *)
RemovePhoto(p) ==
    /\ SheetIsIdle
    /\ p \in DOMAIN ui.previews
    /\ IF ui.previews[p].id = 0
       THEN /\ ui' = [ui EXCEPT !.previews = Without(@, p)]
            /\ seen' = [seen EXCEPT !.removed = @ \cup {p}]
            /\ UNCHANGED <<entry, answer, stale, calls>>
       ELSE /\ Settle(entry, calls, stale, [ui EXCEPT !.removing = p],
                      {[kind |-> "delete", t |-> ui.pane.id, photo |-> p, at |-> "sent",
                        id |-> ui.previews[p].id, rev |-> 0, here |-> TRUE, job |-> 0]})
            /\ seen' = [seen EXCEPT
                   !.carried = IF ui.previews[p].carried THEN @ \cup {p} ELSE @]
    /\ UNCHANGED <<role, writes, jobs, used>>

First(previews) == CHOOSE p \in previews : \A q \in previews : p <= q

(* Mutation: a failed upload is tried again until it succeeds.             *)
UploadedOrAgain(j, p, ok) == IF ok THEN [j EXCEPT !.todo = @ \ {p}] ELSE j

(* The loop of uploadPreviewItems: a failed upload does not stop the       *)
(* others, but keeps the ticket open.                                      *)
Uploaded(j, p, ok) == [j EXCEPT !.todo = @ \ {p}, !.failed = @ \/ ~ok]

(* uploadPreviewItems and onSubmitClose: whether a submission makes another *)
(* call, and which.                                                        *)
GoesOn(j) == j.todo # {} \/ ~j.failed

NextCall(j) ==
    IF j.todo # {}
    THEN LET p == First(j.todo)
         IN [kind |-> "upload", t |-> j.t, photo |-> p, turn |-> j.keep[p].file,
             at |-> "sent", id |-> 0, rev |-> 0, here |-> j.here, job |-> j.no]
    ELSE [PatchCall(j.t, [status |-> "closed", text |-> "done"], j.no, Nothing)
             EXCEPT !.here = j.here]

(* handleSubmit, up to its first call.                                     *)
Submit ==
    /\ SheetIsIdle /\ ui.pane # Nothing
    /\ ui.previews # <<>>
    /\ Use("submits", MaxSubmits)
    /\ LET j == [no |-> used'.submits, t |-> ui.pane.id, keep |-> ui.previews,
                 todo |-> ToUpload(ui.previews),
                 failed |-> FALSE, here |-> TRUE]
       IN /\ jobs' = jobs \cup {j}
          /\ Settle(entry, calls, stale, ui, {NextCall(j)})
    /\ UNCHANGED <<role, writes, seen>>

-----------------------------------------------------------------------------
(* The requests.                                                           *)

(* The server does what a call asks for.                                   *)
ServerDoes(c) ==
    /\ c.at = "sent" /\ Allowed(c)
    /\ LET n == used.ids + 1
           d == IF c.kind = "upload" THEN [c EXCEPT !.id = n] ELSE c
       IN /\ used' = IF c.kind = "upload" THEN [used EXCEPT !.ids = n] ELSE used
          /\ writes' = [writes EXCEPT ![c.t] = Append(@, Effect(d))]
          /\ calls' = (calls \ {c}) \cup {[d EXCEPT !.at = "done", !.rev = Len(writes[c.t]) + 1]}
    /\ UNCHANGED <<role, entry, answer, stale, jobs, ui, seen>>

(* What an answer does to the previews of the sheet that asked.            *)
PreviewsAfter(c, ok) ==
    CASE c.here /\ c.kind = "upload" /\ ok /\ c.photo \in DOMAIN ui.previews ->
           [ui EXCEPT !.previews[c.photo].id = c.id]
      [] c.here /\ c.kind = "delete" ->
           [ui EXCEPT !.removing = Nothing,
                      !.previews = IF ok THEN Without(@, c.photo) ELSE @]
      [] c.here /\ c.kind = "patch" /\ ok /\ c.job = 0 /\ ui.sheet = "assign" ->
           [ui EXCEPT !.sheet = "none", !.form = Nothing]
      [] OTHER -> ui

(* handleTicketReportCloseSuccess: the sheet closes, and the browser goes  *)
(* to the ticket that was closed, wherever the user is by then.            *)
Closed(c) ==
    LET u == IF c.here THEN [ui EXCEPT !.sheet = "none", !.previews = <<>>] ELSE ui
    IN Routed(u, c.t)

(* A call is over, well or not: the job it is of takes its next step.      *)
Over(c, ok) ==
    LET ent == IF ok THEN Confirmed(c, entry) ELSE TakenBack(c, entry)
        tags == stale \cup Invalidates(c)
    IN IF c.job = 0
       THEN /\ Settle(ent, calls \ {c}, tags, PreviewsAfter(c, ok), {})
            /\ UNCHANGED jobs
       ELSE \E j \in jobs :
          /\ j.no = c.job
          /\ IF c.kind = "patch"
             THEN /\ jobs' = jobs \ {j}
                  /\ IF ok
                     THEN Settle(Subscribed(ent, {c.t}), calls \ {c}, tags, Closed(c), {})
                     ELSE Settle(ent, calls \ {c}, tags, ui, {})
             ELSE LET k == Uploaded(j, c.photo, ok)
                  IN /\ jobs' = (jobs \ {j}) \cup (IF GoesOn(k) THEN {k} ELSE {})
                     /\ Settle(ent, calls \ {c}, tags, PreviewsAfter(c, ok),
                               IF GoesOn(k) THEN {NextCall(k)} ELSE {})

(* The answer of the server arrives.                                       *)
Answered(c) ==
    /\ c.at = "done"
    /\ Over(c, TRUE)
    /\ seen' = [seen EXCEPT
          !.confirmed[c.t] = IF c.rev > @ THEN c.rev ELSE @,
          !.removed = IF c.kind = "delete" THEN @ \cup {c.photo} ELSE @]
    /\ UNCHANGED <<role, writes, used>>

(* An observation: the photograph may have been stored once more.          *)
OneMore(copies, p) == [copies EXCEPT ![p] = @ + 1]

(* A call is refused, or fails before or after the server has acted.       *)
Fails(c) ==
    /\ IF c.at = "sent" /\ ~Allowed(c) THEN UNCHANGED used ELSE Use("turmoil", MaxTurmoil)
    /\ Over(c, FALSE)
    /\ seen' = [seen EXCEPT
          !.copies = IF c.kind = "upload" /\ c.at = "done" THEN OneMore(@, c.photo) ELSE @,
          !.unsure = IF c.kind = "delete" /\ c.at = "done" THEN @ \cup {c.photo} ELSE @]
    /\ UNCHANGED <<role, writes>>

ServerReads(k) ==
    /\ entry[k].status = "pending" /\ answer[k] = Nothing
    /\ answer' = [answer EXCEPT ![k] = Stored(k)]
    /\ UNCHANGED <<role, writes, entry, stale, calls, jobs, ui, seen, used>>

QueryAnswered(k) ==
    /\ entry[k].status = "pending" /\ answer[k] # Nothing
    /\ Settle([entry EXCEPT ![k] = Loaded(answer[k])], calls, stale, ui, {})
    /\ UNCHANGED <<role, writes, jobs, seen, used>>

QueryFails(k) ==
    /\ entry[k].status = "pending"
    /\ Use("turmoil", MaxTurmoil)
    /\ Settle([entry EXCEPT ![k] = Failed(@)], calls, stale, ui, {})
    /\ UNCHANGED <<role, writes, jobs, seen>>

(* keepUnusedDataFor: an entry nobody subscribes to goes after a minute.   *)
Expire(k) ==
    /\ entry[k].status \in {"ok", "error"}
    /\ k \notin Subscriptions(ui)
    /\ entry' = [entry EXCEPT ![k] = Absent]
    /\ UNCHANGED <<role, writes, answer, stale, calls, jobs, ui, seen, used>>

(* Somebody changes the ticket in the editor or in the legacy system.      *)
ForeignChange(t) ==
    /\ Use("turmoil", MaxTurmoil)
    /\ \E change \in {[executor |-> Other], [status |-> "inWork"], [text |-> "theirs"]} :
          /\ Patched(change, Stored(t)) # Stored(t)
          /\ writes' = [writes EXCEPT ![t] = Append(@, Patched(change, Stored(t)))]
    /\ UNCHANGED <<role, entry, answer, stale, calls, jobs, ui, seen>>

User ==
    \/ \E t \in Tickets : Open(t) \/ Move(t)
    \/ Leave
    \/ Act
    \/ OpenSheet
    \/ FillIn
    \/ \E who \in {Me, Other} : Assign(who)
    \/ CloseSheet
    \/ AddPhoto
    \/ \E p \in Photos : RemovePhoto(p) \/ \E n \in Turns : RotatePhoto(p, n)
    \/ Submit

Network ==
    \/ \E c \in calls : ServerDoes(c) \/ Answered(c) \/ Fails(c)
    \/ \E k \in Tickets : ServerReads(k) \/ QueryAnswered(k) \/ QueryFails(k) \/ Expire(k)

Next ==
    \/ User
    \/ Network
    \/ \E t \in Tickets : ForeignChange(t)

(* Requests are answered or fail; nothing is assumed of the users.         *)
Fairness ==
    /\ \A k \in Tickets : WF_vars(ServerReads(k)) /\ WF_vars(QueryAnswered(k))
    /\ WF_vars(\E c \in calls : ServerDoes(c))
    /\ WF_vars(\E c \in calls : Answered(c))
    /\ WF_vars(\E c \in calls : c.at = "sent" /\ ~Allowed(c) /\ Fails(c))

Spec == Init /\ [][Next]_vars /\ Fairness

-----------------------------------------------------------------------------
(* What is shown when nothing is under way and the last read has succeeded *)
(* is a ticket as some write has left it, none older than the newest this  *)
(* page was told of: nothing is left of an update shown in advance, and    *)
(* taking one back has not undone what came in between.                    *)
SettledPageIsTrue ==
    ui # Nothing /\ Quiet(entry, calls) =>
        (entry[ui.t].status = "ok" =>
            /\ ui.pane.id = ui.t
            /\ \E i \in seen.confirmed[ui.t]..Len(writes[ui.t]) : ui.pane.rec = writes[ui.t][i])

(* "The photographs are uploaded when the ticket is closed" (the text of   *)
(* the report sheet): a report closes a ticket only after each photograph  *)
(* in it is stored with that ticket, turned as it was shown.  Excepted are *)
(* photographs that were in the sheet when another ticket was opened under *)
(* it, and those whose removal seemed to fail.                             *)
ClosedWithItsPhotos ==
    [][\A t \in Tickets :
         LET new == writes'[t][Len(writes'[t])]
         IN new.status = "closed" /\ Stored(t).status # "closed" =>
              \A j \in jobs :
                 j.t = t /\ (\E c \in calls : c.job = j.no /\ c.kind = "patch") =>
                    \A p \in DOMAIN j.keep \ seen.unsure :
                       \/ j.keep[p].carried
                       \/ \E f \in new.photos : f.photo = p /\ f.turn = j.keep[p].turn]_vars

(* A photograph is stored once, plus once for each upload whose answer was *)
(* lost, and not at all once it was removed from the sheet, however often  *)
(* a report is submitted and fails.                                        *)
StoredOnce ==
    \A p \in Photos \ seen.carried :
        Cardinality(UNION {{f.id : f \in {g \in Stored(t).photos : g.photo = p}} : t \in Tickets})
            <= seen.copies[p] - (IF p \in seen.removed THEN 1 ELSE 0)

(* An assignment stores what was filled in for that ticket: a form is not  *)
(* carried to the ticket that is opened under the sheet.                   *)
AssignsWhatWasFilledIn ==
    \A c \in calls : c.kind = "patch" => c.form \in {Nothing, c.t}

(* A submission ends: the sheet is usable again or the ticket is closed.   *)
SubmissionEnds ==
    \A n \in 1..MaxSubmits : (\E j \in jobs : j.no = n) ~> ~(\E j \in jobs : j.no = n)

=============================================================================
