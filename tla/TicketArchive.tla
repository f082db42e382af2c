---------------------------- MODULE TicketArchive ----------------------------
(***************************************************************************)
(* The archive of the tickets of a client, a device or an employee: tabs   *)
(* for the status, a sheet of filters with a draft that is applied as a    *)
(* whole, and pages of a fixed size.  The list is asked for by the applied *)
(* filters, the options of the sheet by the draft.  Both queries live in   *)
(* the cache of ticketsApi, and the handler of each reads the database in  *)
(* two statements, in no transaction, while others change the tickets.     *)
(* Two effects of the page move it to the first page when a filter changes *)
(* and back when it is past the end.  Grouping and sorting, which say how  *)
(* a page is laid out, and the period, a filter like the reason, are left  *)
(* out.                                                                    *)
(***************************************************************************)
EXTENDS QueryCache

CONSTANTS
    Archive,       \* the tickets there may be, each as [id, reason, other]
    PageSize,      \* ARCHIVE_PAGE_SIZE
    MaxTurmoil,    \* bound: how often, all in all, somebody else changes a
                   \* ticket, a request fails or an entry expires
    MaxReads,      \* bound: how many answers the server has read, in part or
                   \* whole, that have not arrived
    MaxSteps       \* bound: the same as MaxTurmoil, and how often a filter, a tab or a page
                   \* is chosen

Tabs == {"closed", "inWork", "all"}
Reasons == {t.reason : t \in Archive}
Others == {t.other : t \in Archive}
Filters == [reason : {""} \cup Reasons, other : {""} \cup Others]

(* The arguments of the two queries, and what they are answered with.      *)
Keys == [tab : Tabs, filters : Filters, page : Nat \ {0}]
FacetsKeys == [tab : Tabs, filters : Filters]
(* That a counted ticket had left when the page was read is in no answer:  *)
(* "torn" is there for the properties only.                                *)
Answers == [items : SUBSET Archive, total : Nat, torn : BOOLEAN]
FacetsAnswers == [reasons : SUBSET Reasons, others : SUBSET Others]

ASSUME PageIsPositive == PageSize \in Nat \ {0}
ASSUME TicketsHaveIds ==
    /\ IsFiniteSet(Archive)
    /\ \A t \in Archive : t.id \in Nat
    /\ \A s, t \in Archive : s.id = t.id => s = t
ASSUME NothingIsApart ==
    /\ Nothing \notin Answers \cup FacetsAnswers
    /\ Nothing \notin [id : Keys, rec : Answers]
    /\ Nothing \notin [id : FacetsKeys, rec : FacetsAnswers]
ASSUME ArchiveBounds == {MaxSteps, MaxReads, MaxTurmoil} \subseteq Nat

VARIABLES
    kind,      \* whose archive it is; an employee's is like a device's
    status,    \* per ticket: "closed", "inWork", or "" when it is not there
    cache,     \* the entries of the list, by their arguments
    facets,    \* the entries of the options, by their arguments
    listReads,     \* what the server has read for the pending entries of the
    facetsReads,   \* two, so far: the first statement, and then the answer
    ui,        \* the local state of the page
    used       \* how much of each bound is used up

serverVars == <<kind, status, listReads, facetsReads>>
archiveVars == <<serverVars, cache, facets, ui, used>>

-----------------------------------------------------------------------------
(* What the server answers.                                                *)

NoFilter == [reason |-> "", other |-> ""]

(* "other" is the device name in the archive of a client, and the client   *)
(* in the others.                                                          *)
Matches(t, tab, f) ==
    /\ status[t.id] # "" /\ tab \in {"all", status[t.id]}
    /\ f.reason \in {"", t.reason}
    /\ f.other \in {"", t.other}

Found(tab, f) == {t \in Archive : Matches(t, tab, f)}

(* A page of the matches, the newest first, with the number of those that  *)
(* were counted before it was read.                                        *)
PageOf(key, counted) ==
    LET found == Found(key.tab, key.filters)
        Before(t) == Cardinality({s \in found : s.id > t.id})
        first == (key.page - 1) * PageSize
    IN [items |-> {t \in found : Before(t) \in first..(first + PageSize - 1)},
        total |-> Cardinality(counted),
        torn |-> ~(counted \subseteq found)]

(* The options of a field are those of the tickets that the other fields   *)
(* let through.                                                            *)
ReasonsOf(key) ==
    {t.reason : t \in Found(key.tab, [key.filters EXCEPT !.reason = ""])}
OthersOf(key) ==
    {t.other : t \in Found(key.tab, [key.filters EXCEPT !.other = ""])}

Forgotten(c, k) == [l \in DOMAIN c \ {k} |-> c[l]]
With(c, k, e) == [l \in DOMAIN c \cup {k} |-> IF l = k THEN e ELSE c[l]]

-----------------------------------------------------------------------------
(* The page.                                                               *)

(* The arguments of the two queries: applied filters, and the draft.       *)
Key(u) == [tab |-> u.tab, filters |-> u.active, page |-> u.page]
FacetsKey(u) == [tab |-> u.tab, filters |-> u.draft]

Asked(c, k) ==
    IF k \in DOMAIN c THEN Subscribed(c, {k}) ELSE With(c, k, Pending(Absent))

(* Mutation: only the first load hides the list (isLoading).               *)
LoadingAtFirst(u, c) == u.list = Nothing /\ c[Key(u)].status = "pending"

(* isTicketsLoading: isLoading or isFetching.                              *)
Loading(u, c) == c[Key(u)].status = "pending"

ListIsShown(u, c) == ~Loading(u, c) /\ c[Key(u)].status # "error"

Offset(page) == (page - 1) * PageSize
Pages(total) == (total + PageSize - 1) \div PageSize

(* Mutation: a page that begins right behind the last ticket is kept.      *)
MovedBackLate(u, total) == total > 0 /\ Offset(u.page) > total

(* The condition of the second effect, that leaves a page past the end.    *)
MovedBack(u, total) == total > 0 /\ Offset(u.page) >= total

(* Mutation: the first effect forgets the tab among its dependencies.      *)
FilterChangedOnly(u, v) == u.active # v.active

(* The dependencies of the first effect.                                   *)
FilterChanged(u, v) == u.active # v.active \/ u.tab # v.tab

(* How many tickets the list says there are.                               *)
Total(list) == IF list = Nothing THEN 0 ELSE list.rec.total

(* The page renders: the query is subscribed to, then the two effects run. *)
Rendered(u, c, changed) ==
    LET asked == Asked(c, Key(u))
        list == HookData(Key(u), asked, u.list)
        page == IF MovedBack(u, Total(list)) THEN Pages(Total(list))
                ELSE IF changed THEN 1 ELSE u.page
    IN [ui |-> [u EXCEPT !.list = list, !.page = page], cache |-> asked]

(* When the effects move it to another page, it renders again.  That page  *)
(* is an earlier one, so that u.page renderings are enough.                *)
Listed(u, c, changed) ==
    LET renders[n \in 1..u.page] ==
            IF n = 1 THEN Rendered(u, c, changed)
            ELSE LET last == renders[n - 1] IN Rendered(last.ui, last.cache, FALSE)
    IN renders[u.page]

(* clientOptionsCache: every client that was an option is remembered while *)
(* the archive is of the same kind and owner.                              *)
Remembered(u, options) ==
    IF kind = "client" \/ options = Nothing THEN u.known
    ELSE u.known \cup options.rec.others

(* The local state has become u: it was ui before, with other filters      *)
(* perhaps.                                                                *)
Show(u, c, fc, changed) ==
    LET listed == Listed(u, c, changed)
        asked == Asked(fc, FacetsKey(u))
        options == HookData(FacetsKey(u), asked, u.options)
    IN /\ ui' = [listed.ui EXCEPT !.options = options, !.known = Remembered(u, options)]
       /\ cache' = listed.cache
       /\ facets' = asked

(* includeSelectedOption.                                                  *)
IncludeSelected(options, selected) == options \cup ({selected} \ {""})

Options(field) ==
    IF ui.options = Nothing THEN {}
    ELSE IF field = "reason" THEN ui.options.rec.reasons ELSE ui.options.rec.others

ReasonOptions == IncludeSelected(Options("reason"), ui.draft.reason)

(* Mutation: a client that is no option any more is dropped from the list. *)
ClientOptionsNow == Options("other")

(* clientOptions: the selected client stays in the list.                   *)
ClientOptions == Options("other") \cup ({ui.draft.other} \cap ui.known)

OtherOptions ==
    IF kind = "client" THEN IncludeSelected(Options("other"), ui.draft.other)
    ELSE ClientOptions

-----------------------------------------------------------------------------
(* The local state of a page that is opened.                               *)
Opened == [tab |-> "closed", active |-> NoFilter, draft |-> NoFilter, page |-> 1,
           sheet |-> FALSE, list |-> Nothing, options |-> Nothing, known |-> {}]

ArchiveInit ==
    /\ kind \in {"client", "device"}
    /\ status = [id \in {t.id : t \in Archive} |-> IF id = 1 THEN "inWork" ELSE "closed"]
    /\ cache = [k \in {Key(Opened)} |-> Pending(Absent)]
    /\ facets = [k \in {FacetsKey(Opened)} |-> Pending(Absent)]
    /\ listReads = [k \in {} |-> Nothing]
    /\ facetsReads = [k \in {} |-> Nothing]
    /\ ui = Opened
    /\ used = [choices |-> 0, turmoil |-> 0]

Use(what) ==
    /\ used.choices + used.turmoil < MaxSteps
    /\ used' = [used EXCEPT ![what] = @ + 1]

(* The page is left and opened again: the local state is new, the cache is *)
(* not.                                                                    *)
Reopen ==
    /\ Use("choices")
    /\ Show(Opened, cache, facets, FALSE)
    /\ UNCHANGED serverVars

(* setActiveTab.                                                           *)
ChooseTab(tab) ==
    /\ tab # ui.tab
    /\ Use("choices")
    /\ LET u == [ui EXCEPT !.tab = tab]
       IN Show(u, cache, facets, FilterChanged(ui, u))
    /\ UNCHANGED serverVars

(* handlePageChange, from the buttons under a list that is shown: hasNext  *)
(* and hasPrev come with it.                                               *)
TurnPage(direction) ==
    /\ ListIsShown(ui, cache) /\ ui.list # Nothing
    /\ \/ direction = 1 /\ Offset(ui.page) + Cardinality(ui.list.rec.items) < ui.list.rec.total
       \/ direction = -1 /\ ui.page > 1
    /\ Pages(ui.list.rec.total) > 1
    /\ Use("choices")
    /\ Show([ui EXCEPT !.page = @ + direction], cache, facets, FALSE)
    /\ UNCHANGED serverVars

OpenSheet ==
    /\ ~ui.sheet
    /\ ui' = [ui EXCEPT !.sheet = TRUE]
    /\ UNCHANGED <<serverVars, cache, facets, used>>

(* Closing the sheet keeps the draft.                                      *)
CloseSheet ==
    /\ ui.sheet
    /\ ui' = [ui EXCEPT !.sheet = FALSE]
    /\ UNCHANGED <<serverVars, cache, facets, used>>

(* handleDraftChange, from the fields of the sheet.                        *)
Draft(field, value) ==
    /\ ui.sheet /\ value # ui.draft[field]
    /\ \/ value = ""
       \/ field = "reason" /\ value \in ReasonOptions
       \/ field = "other" /\ value \in OtherOptions
    /\ Use("choices")
    /\ Show([ui EXCEPT !.draft[field] = value], cache, facets, FALSE)
    /\ UNCHANGED serverVars

(* handleResetDraft: the applied filters stay.                             *)
ResetDraft ==
    /\ ui.sheet /\ ui.draft # NoFilter
    /\ Use("choices")
    /\ Show([ui EXCEPT !.draft = NoFilter], cache, facets, FALSE)
    /\ UNCHANGED serverVars

(* handleApplyDraft.                                                       *)
Apply ==
    /\ ui.sheet
    /\ Use("choices")
    /\ LET u == [ui EXCEPT !.active = ui.draft, !.sheet = FALSE]
       IN Show(u, cache, facets, FilterChanged(ui, u))
    /\ UNCHANGED serverVars

-----------------------------------------------------------------------------
(* The requests of the list.                                               *)

MoreReads == Cardinality(DOMAIN listReads) + Cardinality(DOMAIN facetsReads) < MaxReads

(* The handler counts what is found, in a statement of its own.            *)
ServerCounts(k) ==
    /\ k \in DOMAIN cache /\ cache[k].status = "pending"
    /\ k \notin DOMAIN listReads /\ MoreReads
    /\ listReads' = With(listReads, k, [counted |-> Found(k.tab, k.filters),
                                        answer |-> Nothing])
    /\ UNCHANGED <<kind, status, facetsReads, cache, facets, ui, used>>

(* It reads the page of what is found by then.                             *)
ServerSelects(k) ==
    /\ k \in DOMAIN listReads /\ listReads[k].answer = Nothing
    /\ listReads' = [listReads EXCEPT ![k].answer = PageOf(k, listReads[k].counted)]
    /\ UNCHANGED <<kind, status, facetsReads, cache, facets, ui, used>>

ListAnswered(k) ==
    /\ k \in DOMAIN cache /\ cache[k].status = "pending"
    /\ k \in DOMAIN listReads /\ listReads[k].answer # Nothing
    /\ Show(ui, [cache EXCEPT ![k] = Loaded(listReads[k].answer)], facets, FALSE)
    /\ listReads' = Forgotten(listReads, k)
    /\ UNCHANGED <<kind, status, facetsReads, used>>

(* The requests of the options.  The reasons are read first, in each of    *)
(* the three archives.                                                     *)

ServerReadsReasons(k) ==
    /\ k \in DOMAIN facets /\ facets[k].status = "pending"
    /\ k \notin DOMAIN facetsReads /\ MoreReads
    /\ facetsReads' = With(facetsReads, k, [reasons |-> ReasonsOf(k), answer |-> Nothing])
    /\ UNCHANGED <<kind, status, listReads, cache, facets, ui, used>>

ServerReadsOthers(k) ==
    /\ k \in DOMAIN facetsReads /\ facetsReads[k].answer = Nothing
    /\ facetsReads' = [facetsReads EXCEPT ![k].answer =
                          [reasons |-> facetsReads[k].reasons, others |-> OthersOf(k)]]
    /\ UNCHANGED <<kind, status, listReads, cache, facets, ui, used>>

FacetsAnswered(k) ==
    /\ k \in DOMAIN facets /\ facets[k].status = "pending"
    /\ k \in DOMAIN facetsReads /\ facetsReads[k].answer # Nothing
    /\ Show(ui, cache, [facets EXCEPT ![k] = Loaded(facetsReads[k].answer)], FALSE)
    /\ facetsReads' = Forgotten(facetsReads, k)
    /\ UNCHANGED <<kind, status, listReads, used>>

(* A request fails, at the server or under way; what has been read for it  *)
(* is lost.                                                                *)
QueryFails ==
    /\ used.turmoil < MaxTurmoil /\ Use("turmoil")
    /\ \/ \E k \in DOMAIN cache :
             /\ cache[k].status = "pending"
             /\ cache' = [cache EXCEPT ![k] = Failed(@)]
             /\ listReads' = Forgotten(listReads, k)
             /\ UNCHANGED <<facets, facetsReads>>
       \/ \E k \in DOMAIN facets :
             /\ facets[k].status = "pending"
             /\ facets' = [facets EXCEPT ![k] = Failed(@)]
             /\ facetsReads' = Forgotten(facetsReads, k)
             /\ UNCHANGED <<cache, listReads>>
    /\ UNCHANGED <<kind, status, ui>>

(* keepUnusedDataFor.                                                      *)
Expire ==
    /\ used.turmoil < MaxTurmoil /\ Use("turmoil")
    /\ \/ \E k \in DOMAIN cache \ {Key(ui)} :
             cache[k].status # "pending" /\ cache' = Forgotten(cache, k) /\ UNCHANGED facets
       \/ \E k \in DOMAIN facets \ {FacetsKey(ui)} :
             facets[k].status # "pending" /\ facets' = Forgotten(facets, k) /\ UNCHANGED cache
    /\ UNCHANGED <<serverVars, ui>>

(* A ticket is closed, or leaves the archive: it gets another executor,    *)
(* device or client.                                                       *)
ForeignChange(id) ==
    /\ used.turmoil < MaxTurmoil /\ Use("turmoil")
    /\ \E new \in {"closed", ""} \ {status[id]} : status' = [status EXCEPT ![id] = new]
    /\ UNCHANGED <<kind, listReads, facetsReads, cache, facets, ui>>

User ==
    \/ Reopen
    \/ \E tab \in Tabs : ChooseTab(tab)
    \/ \E direction \in {1, -1} : TurnPage(direction)
    \/ OpenSheet
    \/ CloseSheet
    \/ \E v \in {""} \cup Reasons : Draft("reason", v)
    \/ \E v \in {""} \cup Others : Draft("other", v)
    \/ ResetDraft
    \/ Apply

Network ==
    \/ \E k \in DOMAIN cache : ServerCounts(k) \/ ServerSelects(k) \/ ListAnswered(k)
    \/ \E k \in DOMAIN facets :
           ServerReadsReasons(k) \/ ServerReadsOthers(k) \/ FacetsAnswered(k)
    \/ QueryFails
    \/ Expire

ArchiveNext ==
    \/ User
    \/ Network
    \/ \E id \in DOMAIN status : ForeignChange(id)

ArchiveSpec == ArchiveInit /\ [][ArchiveNext]_archiveVars

-----------------------------------------------------------------------------
(* A list on the screen is the answer to what the tab, the applied filters *)
(* and the page now ask for, never that of the filters before.             *)
ShownIsAsked == ui.list.id = Key(ui)

(* The page on the screen is not past the end: tickets that leave the      *)
(* archive, answers that are kept for a minute and filters that are        *)
(* applied on a late page do not strand the user there.  It has tickets    *)
(* when the filters find any, but for an answer that was counted before    *)
(* and read after a ticket left: that shows an empty last page until it is *)
(* left or asked for again.                                                *)
PageIsNotEmpty ==
    LET list == ui.list.rec
    IN list.total > 0 =>
           /\ ui.page \in 1..Pages(list.total)
           /\ list.items = {} => list.torn

(* Both, whenever a list is on the screen.                                 *)
ListMatchesFilters ==
    ListIsShown(ui, cache) /\ ui.list # Nothing => ShownIsAsked /\ PageIsNotEmpty

(* What is selected in the sheet is among the options, so that the field   *)
(* shows what will be applied, although the options depend on the other    *)
(* fields, on the tab and on what has changed since.                       *)
SelectedIsOffered ==
    ui.options # Nothing =>
        /\ ui.draft.reason \in {""} \cup ReasonOptions
        /\ ui.draft.other \in {""} \cup OtherOptions

(* Another tab or other filters begin at their first page, unless the      *)
(* cache holds an answer for the page that was open, under these filters,  *)
(* that lies past their end: then the second effect wins over the first.   *)
(* That takes a filter chosen on a late page twice; the page under the     *)
(* filter is asked for before the first effect has moved it.               *)
FilterBeginsAtFirst ==
    [][ui.active # ui'.active \/ ui.tab # ui'.tab =>
         \/ ui'.page = 1
         \/ LET k == [Key(ui') EXCEPT !.page = ui.page]
            IN /\ k \in DOMAIN cache /\ cache[k].data # Nothing
               /\ Offset(ui.page) >= cache[k].data.total]_archiveVars

=============================================================================
