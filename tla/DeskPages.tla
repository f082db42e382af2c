------------------------------ MODULE DeskPages ------------------------------
(***************************************************************************)
(* The pages around the tickets, in the browser of a coordinator: the      *)
(* dashboard with the members of the department and its tickets, that is   *)
(* fetched again every 15 seconds; the profile of a member, where the      *)
(* member is disabled and enabled; and the pages of a device and a client, *)
(* with their comments, and for a device the sheet that creates a ticket.  *)
(* They share the cache of ticketsApi.  Disabling is shown before the      *)
(* server has answered, and what is under way goes on when a page is left. *)
(*                                                                         *)
(* A page is always opened anew: that the browser goes from one device to  *)
(* another without a page between is left out.  The server is external;    *)
(* each of its handlers is one step.                                       *)
(***************************************************************************)
EXTENDS QueryCache, Sequences

CONSTANTS
    Members,      \* the other members of the department
    Devices,      \* devices, with comments and the sheet for a ticket
    Clients,      \* clients, with comments
    MaxTurmoil,   \* bound: how often, all in all, a page is left, a request
                  \* fails or loses its answer, an entry expires, the window
                  \* loses the focus, or somebody else changes a member
    MaxActs       \* bound: how many texts and forms are filled in, and how
                  \* often the button of a profile is used

VARIABLES
    flags,     \* per member: the values that "disabled" has had, newest last
    posted,    \* the comments and tickets stored: [no, id, to]
    entry,     \* the cache, by query
    answer,    \* what the server has read for a query that is under way
    stale,     \* the tags whose invalidation waits until nothing is pending
    calls,     \* the mutations under way
    ui,        \* the local state of the page
    focused,   \* the window has the focus
    seen,      \* observations: see Init
    used       \* how much of each bound is used up

vars == <<flags, posted, entry, answer, stale, calls, ui, focused, seen, used>>

Refs == Devices \cup Clients

(* getDepartmentMembers, getDepartmentTickets, getProfileById per member   *)
(* and getComments per device or client.                                   *)
Queries == {"members", "tickets"} \cup Members \cup Refs

ASSUME KeysDiffer == "members" \notin Members
ASSUME PageBounds == {MaxTurmoil, MaxActs} \subseteq Nat

-----------------------------------------------------------------------------
(* What the server does.                                                   *)

Flag(m) == flags[m][Len(flags[m])]

Read(k) ==
    IF k = "members" THEN [m \in Members |-> Flag(m)]
    ELSE IF k \in Members THEN Flag(k)
    ELSE {p \in posted : p.to = k}

(* A ticket is created for an executor who is not disabled.                *)
Allowed(c) == c.kind = "create" => ~Flag(c.who)

-----------------------------------------------------------------------------
(* The cache.                                                              *)

(* What each page shows.                                                   *)
Subscriptions(u) ==
    CASE u.page = "dashboard" -> {"members", "tickets"}
      [] u.page = "profile" -> {u.of}
      [] u.page = "ref" -> {u.of} \cup (IF u.sheet THEN {"members"} ELSE {})
      [] OTHER -> {}

(* updateQueryData of setProfileDisabled: the profile and the list.        *)
Drafted(ent, m, patch) ==
    [k \in Queries |->
        IF k \notin {m, "members"} \/ ent[k].data = Nothing \/ patch[k] = Nothing
        THEN ent[k]
        ELSE IF k = m THEN [ent[k] EXCEPT !.data = patch[k]]
             ELSE [ent[k] EXCEPT !.data[m] = patch[k]]]

Both(m, value) == [k \in Queries |-> value]

(* The inverse of what the draft has changed.                              *)
UndoOf(ent, m, value) ==
    [k \in Queries |->
        IF k \notin {m, "members"} \/ ent[k].data = Nothing THEN Nothing
        ELSE LET old == IF k = m THEN ent[k].data ELSE ent[k].data[m]
             IN IF old = value THEN Nothing ELSE old]

(* onQueryStarted: before the request, after its success and its failure.  *)
Started(c, ent) ==
    IF c.kind = "toggle" THEN [c EXCEPT !.undo = UndoOf(ent, c.who, c.value)] ELSE c
Optimistic(new, ent) ==
    IF \E c \in new : c.kind = "toggle"
    THEN LET c == CHOOSE c \in new : TRUE IN Drafted(ent, c.who, Both(c.who, c.value))
    ELSE ent
Confirmed(c, ent) ==
    IF c.kind = "toggle" THEN Drafted(ent, c.who, Both(c.who, c.value)) ELSE ent
TakenBack(c, ent) ==
    IF c.kind = "toggle" THEN Drafted(ent, c.who, c.undo) ELSE ent

(* Mutation: the list of the members is not fetched again.                 *)
InvalidatesProfiles(c) == IF c.kind = "toggle" THEN Members ELSE {c.to}

(* invalidatesTags of setProfileDisabled, addComment and createTicket.  A  *)
(* tag without an id hits the queries of all ids.                          *)
Invalidates(c) ==
    CASE c.kind = "toggle" -> {"members"} \cup Members
      [] c.kind = "create" -> {"members", "tickets"} \cup Members
      [] OTHER -> {c.to}

(* The store has changed to ent, the mutations under way to cs, the local  *)
(* state to u: the stale tags are dealt with and the mutations "new" are   *)
(* started.                                                                *)
Settle(ent, cs, tags, u, new) ==
    LET asked == Subscribed(ent, Subscriptions(u))
        quiet == Quiet(asked, cs)
        swept == IF quiet THEN Invalidated(asked, tags, Subscriptions(u)) ELSE asked
    IN /\ stale' = IF quiet THEN {} ELSE tags
       /\ calls' = cs \cup {Started(c, swept) : c \in new}
       /\ entry' = Optimistic(new, swept)
       /\ ui' = u
       /\ answer' = [k \in Queries |->
                        IF k \in StillAsked(entry, ent) \cap StillAsked(ent, swept)
                        THEN answer[k] ELSE Nothing]

-----------------------------------------------------------------------------
(* The pages.                                                              *)

NewPage(page, of) == [page |-> page, of |-> of, text |-> 0, sheet |-> FALSE, form |-> Nothing]

Pages ==
    {NewPage("dashboard", Nothing), NewPage("ticket", Nothing)}
        \cup {NewPage("profile", m) : m \in Members} \cup {NewPage("ref", r) : r \in Refs}

Init ==
    /\ flags = [m \in Members |-> <<FALSE>>]
    /\ posted = {}
    /\ ui \in Pages
    /\ entry = Subscribed([k \in Queries |-> Absent], Subscriptions(ui))
    /\ answer = [k \in Queries |-> Nothing]
    /\ stale = {}
    /\ calls = {}
    /\ focused = TRUE
    /\ seen = [flag |-> [m \in Members |-> 1],     \* newest write answered
               posts |-> {},                       \* posts answered
               lost |-> [n \in 1..MaxActs |-> 0]]  \* posts whose answer was lost
    /\ used = [turmoil |-> 0, acts |-> 0, ids |-> 0]

Use(what, max) == used[what] < max /\ used' = [used EXCEPT ![what] = @ + 1]

(* A link, or Back: the page is new, what the old one has under way is not *)
(* its own any more.                                                       *)
GoTo(page) ==
    /\ focused /\ page.page # ui.page
    /\ Use("turmoil", MaxTurmoil)
    /\ Settle(entry, {[c EXCEPT !.here = FALSE] : c \in calls}, stale, page, {})
    /\ UNCHANGED <<flags, posted, focused, seen>>

Busy(kind) == \E c \in calls : c.here /\ c.kind = kind

Call(kind, to, who, value, no) ==
    [kind |-> kind, to |-> to, who |-> who, value |-> value, no |-> no,
     undo |-> Nothing, at |-> "sent", rev |-> 0, here |-> TRUE]

(* handleToggleProfileDisabled; the button is there while the profile is   *)
(* neither fetched nor refused.                                            *)
Toggle ==
    /\ ui.page = "profile" /\ entry[ui.of].status = "ok"
    /\ ~Busy("toggle")
    /\ Use("acts", MaxActs)
    /\ Settle(entry, calls, stale, ui,
              {Call("toggle", Nothing, ui.of, ~entry[ui.of].data, used'.acts)})
    /\ UNCHANGED <<flags, posted, focused, seen>>

(* The text of a comment is typed, also while one is sent.                 *)
Type ==
    /\ ui.page = "ref"
    /\ Use("acts", MaxActs)
    /\ ui' = [ui EXCEPT !.text = used'.acts]
    /\ UNCHANGED <<flags, posted, entry, answer, stale, calls, focused, seen>>

(* Mutation: the button of the comments stays enabled.                     *)
MaySendAgain == ui.page = "ref" /\ ui.text # 0

MaySend == ui.page = "ref" /\ ui.text # 0 /\ ~Busy("comment")

(* handleSubmitComment.                                                    *)
SendComment ==
    /\ MaySend
    /\ Settle(entry, calls, stale, ui, {Call("comment", ui.of, Nothing, Nothing, ui.text)})
    /\ UNCHANGED <<flags, posted, focused, seen, used>>

(* The sheet for a new ticket, which fetches the members.                  *)
OpenSheet ==
    /\ ui.page = "ref" /\ ui.of \in Devices /\ ~ui.sheet
    /\ Settle(entry, calls, stale, [ui EXCEPT !.sheet = TRUE], {})
    /\ UNCHANGED <<flags, posted, focused, seen, used>>

(* Closing it, also while the ticket is created, resets the form.          *)
CloseSheet ==
    /\ ui.sheet
    /\ Settle(entry, calls, stale, [ui EXCEPT !.sheet = FALSE, !.form = Nothing], {})
    /\ UNCHANGED <<flags, posted, focused, seen, used>>

(* The form is filled in; members shown as disabled cannot be selected.    *)
FillIn(m) ==
    /\ ui.sheet /\ ui.form = Nothing /\ ~Busy("create")
    /\ entry["members"].status = "ok" /\ ~entry["members"].data[m]
    /\ Use("acts", MaxActs)
    /\ ui' = [ui EXCEPT !.form = [who |-> m, no |-> used'.acts]]
    /\ UNCHANGED <<flags, posted, entry, answer, stale, calls, focused, seen>>

(* handleCreateTicketSubmit and handleCreateTicket.                        *)
CreateTicket ==
    /\ ui.sheet /\ ui.form # Nothing /\ ~Busy("create")
    /\ Settle(entry, calls, stale, ui,
              {Call("create", "tickets", ui.form.who, Nothing, ui.form.no)})
    /\ UNCHANGED <<flags, posted, focused, seen, used>>

(* Followed on the dashboard only, where the focus matters.                *)
Blur ==
    /\ focused /\ ui.page = "dashboard"
    /\ Use("turmoil", MaxTurmoil)
    /\ focused' = FALSE
    /\ UNCHANGED <<flags, posted, entry, answer, stale, calls, ui, seen>>

(* Mutation: a query that has failed is not polled any more.               *)
PolledAfterSuccess(k) == ui.page = "dashboard" /\ focused /\ entry[k].status = "ok"

(* pollingInterval, skipPollingIfUnfocused: fetched again unless it is     *)
(* being fetched.                                                          *)
Polled(k) == ui.page = "dashboard" /\ focused /\ entry[k].status \in {"ok", "error"}

(* refetchOnFocus.                                                         *)
Focus ==
    /\ ~focused
    /\ focused' = TRUE
    /\ Settle([k \in Queries |-> IF ui.page = "dashboard" /\ k \in Subscriptions(ui)
                                 THEN Pending(entry[k]) ELSE entry[k]], calls, stale, ui, {})
    /\ UNCHANGED <<flags, posted, seen, used>>

(* The interval is over, or the connection is back (refetchOnReconnect).   *)
Poll(k) ==
    /\ k \in {"members", "tickets"} /\ Polled(k)
    /\ Settle([entry EXCEPT ![k] = Pending(@)], calls, stale, ui, {})
    /\ UNCHANGED <<flags, posted, focused, seen, used>>

-----------------------------------------------------------------------------
(* The requests.                                                           *)

ServerDoes(c) ==
    /\ c.at = "sent" /\ Allowed(c)
    /\ IF c.kind = "toggle"
       THEN /\ flags' = [flags EXCEPT ![c.who] = Append(@, c.value)]
            /\ calls' = (calls \ {c}) \cup {[c EXCEPT !.at = "done", !.rev = Len(flags'[c.who])]}
            /\ UNCHANGED <<posted, used>>
       ELSE /\ used' = [used EXCEPT !.ids = @ + 1]
            /\ posted' = posted \cup {[no |-> c.no, id |-> used'.ids, to |-> c.to]}
            /\ calls' = (calls \ {c}) \cup {[c EXCEPT !.at = "done", !.rev = used'.ids]}
            /\ UNCHANGED flags
    /\ UNCHANGED <<entry, answer, stale, ui, focused, seen>>

(* A comment that is stored empties the text, whatever it is by then; a    *)
(* ticket that is created is gone to, from whatever page.                  *)
PageAfter(c) ==
    CASE c.kind = "comment" /\ c.here -> [ui EXCEPT !.text = 0]
      [] c.kind = "create" -> NewPage("ticket", Nothing)
      [] OTHER -> ui

CallsAfter(c) ==
    IF c.kind = "create" THEN {[d EXCEPT !.here = FALSE] : d \in calls \ {c}} ELSE calls \ {c}

Answered(c) ==
    /\ c.at = "done"
    /\ Settle(Confirmed(c, entry), CallsAfter(c), stale \cup Invalidates(c), PageAfter(c), {})
    /\ seen' = IF c.kind = "toggle"
               THEN [seen EXCEPT !.flag[c.who] = IF c.rev > @ THEN c.rev ELSE @]
               ELSE [seen EXCEPT !.posts = @ \cup {p \in posted : p.id = c.rev}]
    /\ UNCHANGED <<flags, posted, focused, used>>

(* A call is refused, or fails before or after the server has acted; what  *)
(* was filled in stays.                                                    *)
Fails(c) ==
    /\ IF c.at = "sent" /\ ~Allowed(c) THEN UNCHANGED used ELSE Use("turmoil", MaxTurmoil)
    /\ Settle(TakenBack(c, entry), calls \ {c}, stale \cup Invalidates(c), ui, {})
    /\ seen' = IF c.at = "done" /\ c.kind # "toggle"
               THEN [seen EXCEPT !.lost[c.no] = @ + 1] ELSE seen
    /\ UNCHANGED <<flags, posted, focused>>

ServerReads(k) ==
    /\ entry[k].status = "pending" /\ answer[k] = Nothing
    /\ answer' = [answer EXCEPT ![k] = Read(k)]
    /\ UNCHANGED <<flags, posted, entry, stale, calls, ui, focused, seen, used>>

QueryAnswered(k) ==
    /\ entry[k].status = "pending" /\ answer[k] # Nothing
    /\ Settle([entry EXCEPT ![k] = Loaded(answer[k])], calls, stale, ui, {})
    /\ UNCHANGED <<flags, posted, focused, seen, used>>

QueryFails(k) ==
    /\ entry[k].status = "pending"
    /\ Use("turmoil", MaxTurmoil)
    /\ Settle([entry EXCEPT ![k] = Failed(@)], calls, stale, ui, {})
    /\ UNCHANGED <<flags, posted, focused, seen>>

(* keepUnusedDataFor.                                                      *)
Expire(k) ==
    /\ entry[k].status \in {"ok", "error"}
    /\ k \notin Subscriptions(ui)
    /\ Use("turmoil", MaxTurmoil)
    /\ entry' = [entry EXCEPT ![k] = Absent]
    /\ UNCHANGED <<flags, posted, answer, stale, calls, ui, focused, seen>>

ForeignToggle(m) ==
    /\ Use("turmoil", MaxTurmoil)
    /\ flags' = [flags EXCEPT ![m] = Append(@, ~Flag(m))]
    /\ UNCHANGED <<posted, entry, answer, stale, calls, ui, focused, seen>>

User ==
    \/ \E page \in Pages : GoTo(page)
    \/ Toggle
    \/ Type
    \/ SendComment
    \/ OpenSheet
    \/ CloseSheet
    \/ \E m \in Members : FillIn(m)
    \/ CreateTicket
    \/ Blur
    \/ Focus

Network ==
    \/ \E c \in calls : ServerDoes(c) \/ Answered(c) \/ Fails(c)
    \/ \E k \in Queries : ServerReads(k) \/ QueryAnswered(k) \/ QueryFails(k) \/ Expire(k)

Next ==
    \/ User
    \/ \E k \in Queries : Poll(k)
    \/ Network
    \/ \E m \in Members : ForeignToggle(m)

(* The requests of the dashboard are answered and the interval ends;       *)
(* nothing is assumed of the users.                                        *)
Fairness ==
    \A k \in {"members", "tickets"} :
        WF_vars(ServerReads(k)) /\ WF_vars(QueryAnswered(k)) /\ WF_vars(Poll(k))

Spec == Init /\ [][Next]_vars /\ Fairness

-----------------------------------------------------------------------------
(* What a page shows when nothing is under way and its last read succeeded *)
(* is the state of the server, at the newest write this browser was told   *)
(* of or later: no flag is left of a change shown in advance, undone or    *)
(* confirmed out of order, and no comment or ticket it has stored is       *)
(* missing, whatever page it was stored from.                              *)
SettledPagesAreTrue ==
    Quiet(entry, calls) =>
        \A k \in Subscriptions(ui) : entry[k].status = "ok" =>
            IF k = "members"
            THEN \A m \in Members : \E i \in seen.flag[m]..Len(flags[m]) :
                     entry[k].data[m] = flags[m][i]
            ELSE IF k \in Members
            THEN \E i \in seen.flag[k]..Len(flags[k]) : entry[k].data = flags[k][i]
            ELSE {p \in seen.posts : p.to = k} \subseteq entry[k].data

(* A text or a form is stored once, and once more for each request whose   *)
(* answer was lost, however often it is sent, left and failed.             *)
PostedOnce ==
    \A n \in 1..MaxActs :
        Cardinality({p \in posted : p.no = n}) <= 1 + seen.lost[n]

(* The dashboard, left open with the focus, comes to show the members and  *)
(* tickets as they are, also after errors and changes by others.           *)
DashboardCatchesUp ==
    <>[](ui.page = "dashboard" /\ focused)
        => <>[](\A k \in {"members", "tickets"} : entry[k].data = Read(k))

=============================================================================
