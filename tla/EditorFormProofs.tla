-------------------------- MODULE EditorFormProofs --------------------------
(***************************************************************************)
(* What a page of the editor saves, for every set of records and fields    *)
(* and for every number of edits, moves, saves and failures: whose form it *)
(* is, that its labels name its values, and that it leaves alone what the  *)
(* user has not touched.                                                   *)
(*                                                                         *)
(* The operators of the invariant have the page and the stored records as  *)
(* parameters, so that they can be said of the state before and after a    *)
(* step alike.                                                             *)
(***************************************************************************)
EXTENDS EditorForm, TLAPS

FormOfPage(p) == Kinds[p].form \cap Tracked
RefsOfPage(p) == Kinds[p].refs \cap Tracked

(* The value of a field in a form that was made of a record with val.      *)
AsShown(f, val) == IF f \in Dates THEN ToAppDateTimeValue(val[f]) ELSE val[f]

(* What a patch makes of that value.                                       *)
AsSent(f, val) ==
    IF f \in Dates THEN AppDateTimeToISO(ToAppDateTimeValue(val[f])) ELSE val[f]

(* A date of a record or a patch is a moment, never the text of an input.  *)
Moments(val) == \A f \in Dates \cap DOMAIN val : val[f] \notin {"t0", "t1"}

Stored(p, srv) ==
    /\ DOMAIN srv = Records
    /\ \A r \in Records :
          /\ srv[r].rev \in Nat
          /\ Moments(srv[r].val)
          /\ FormOfPage(p) \subseteq DOMAIN srv[r].val

(* A copy of a record is not ahead of it, and if it is not behind either,  *)
(* it has the same contents.                                               *)
Copy(p, srv, r, rec) ==
    /\ rec.rev \in Nat
    /\ rec.rev <= srv[r].rev
    /\ rec.rev = srv[r].rev => \A f \in FormOfPage(p) : rec.val[f] = srv[r].val[f]

(* A form is that of a copy, but for what was touched.                     *)
Faithful(p, srv, r, form, rev, touched) ==
    /\ rev \in Nat
    /\ rev <= srv[r].rev
    /\ FormOfPage(p) \subseteq DOMAIN form
    /\ rev = srv[r].rev =>
          \A f \in FormOfPage(p) \ touched : form[f] = AsShown(f, srv[r].val)

Labelled(p, form, option) ==
    \A f \in RefsOfPage(p) : f \in DOMAIN option /\ option[f] = form[f]

(* The local state of a page before its effects have run.                  *)
Entered(p, srv, u) ==
    /\ {"sel", "pane", "form", "loaded", "option", "rev", "touched"} \subseteq DOMAIN u
    /\ u.sel \in Records \cup {NoRecord}
    /\ u.loaded \in Records \cup {NoRecord}
    /\ u.pane # Nothing => u.pane.id \in Records /\ Copy(p, srv, u.pane.id, u.pane.rec)
    /\ u.loaded # NoRecord =>
          /\ Labelled(p, u.form, u.option)
          /\ Faithful(p, srv, u.loaded, u.form, u.rev, u.touched)

(* What the effects add: a pane has a form, and the pane of a record that  *)
(* is loaded has the form of that record.                                  *)
Rendered(ent, u) ==
    u.pane # Nothing =>
        /\ u.loaded # NoRecord
        /\ u.sel \in Records /\ ent[u.sel].status = "ok" => u.loaded = u.sel

Cached(p, srv, ent) ==
    /\ DOMAIN ent = Records
    /\ \A k \in Records :
          /\ {"status", "data"} \subseteq DOMAIN ent[k]
          /\ ent[k].status = "ok" => ent[k].data # Nothing
          /\ ent[k].data # Nothing => Copy(p, srv, k, ent[k].data)

Answers(p, srv, ans) ==
    /\ DOMAIN ans = Records
    /\ \A k \in Records : ans[k] # Nothing => Copy(p, srv, k, ans[k])

(* What a patch makes of the fields that were not touched.                 *)
Sends(p, val, patch, touched) ==
    \A f \in FormOfPage(p) \ touched :
        /\ f \in DOMAIN patch
        /\ \/ patch[f] = AsSent(f, val)
           \/ f \in {"latitude", "longitude"} /\ val[f] = "" /\ patch[f] = "0"

SaveFields == {"id", "patch", "at", "rec", "here", "of", "rev", "touched", "blind"}

(* A request is of the form it was made of; once it is done, that form is  *)
(* behind the record.                                                      *)
Requested(p, srv, m) ==
    /\ SaveFields \subseteq DOMAIN m
    /\ m.id \in Records
    /\ m.at \in {"sent", "done"}
    /\ Moments(m.patch)
    /\ m.of # m.id => m.blind
    /\ m.at = "done" => Copy(p, srv, m.id, m.rec)
    /\ m.of = m.id =>
          /\ m.rev \in Nat
          /\ m.rev <= srv[m.id].rev
          /\ m.at = "done" => m.rev # srv[m.id].rev
          /\ m.rev = srv[m.id].rev => Sends(p, srv[m.id].val, m.patch, m.touched)

Requests(p, srv, ms) == \A m \in ms : Requested(p, srv, m)

(* All of it.  A page that has requests of its own is there: that is all   *)
(* that has to be known of Nothing.                                        *)
Consistent(p, srv, ent, ans, ms, u) ==
    /\ p \in Pages
    /\ Stored(p, srv)
    /\ Cached(p, srv, ent)
    /\ Answers(p, srv, ans)
    /\ Requests(p, srv, ms)
    /\ u # Nothing \/ (\E m \in ms : m.here) => Entered(p, srv, u)
    /\ u # Nothing => Rendered(ent, u)

IInv == Consistent(page, server, entry, answer, saves, ui)

-----------------------------------------------------------------------------
(* The records of the asynchronous selects are fields of the form, and no  *)
(* dates; nor are those of a client.                                       *)
LEMMA RefsAreFields ==
    ASSUME NEW p \in Pages
    PROVE  \A f \in RefsOfPage(p) : f \in FormOfPage(p) /\ f \notin Dates
<1>1. p \in {"contacts", "clients", "classificators", "devices", "agreements", "tickets"}
  BY PagesAreKnown
<1>2. CASE p = "agreements"
  BY <1>2 DEF RefsOfPage, FormOfPage, Kinds, AgreementsPage, Page, AgreementForm,
     AgreementRefs, Dates
<1>3. CASE p = "tickets"
  BY <1>3 DEF RefsOfPage, FormOfPage, Kinds, TicketsPage, Page, TicketForm, TicketRefs,
     Dates
<1>4. CASE p \in {"contacts", "clients", "classificators", "devices"}
  BY <1>4 DEF RefsOfPage, Kinds, ContactsPage, ClientsPage, ClassificatorsPage,
     DevicesPage, Page
<1> QED  BY <1>1, <1>2, <1>3, <1>4

LEMMA ClientsHaveNoDates ==
    \A f \in ClientForm : f \notin Dates
BY DEF ClientForm, Dates

(* What the way through the form and the trimming of the server make of a  *)
(* stored value.                                                           *)
LEMMA ResavedOnly ==
    ASSUME NEW f, NEW val, NEW patch, f \in DOMAIN patch,
           f \in DOMAIN val, Moments(val),
           \/ patch[f] = AsSent(f, val)
           \/ f \in {"latitude", "longitude"} /\ val[f] = "" /\ patch[f] = "0"
    PROVE  Resaved(f, val[f], TrimSpace(patch)[f])
<1>1. TrimSpace(patch)[f] = IF f \in Texts /\ patch[f] = "a " THEN "a" ELSE patch[f]
  BY DEF TrimSpace
<1>2. f \in Dates => f \notin Texts  BY DEF Dates, Texts
<1>3. f \in {"latitude", "longitude"} => f \notin Texts  BY DEF Texts
<1>4. CASE f \in Dates /\ patch[f] = AsSent(f, val)
  <2> DEFINE old == val[f]
  <2>1. patch[f] = AppDateTimeToISO(ToAppDateTimeValue(old))  BY <1>4 DEF AsSent
  <2>2. old \notin {"t0", "t1"}  BY <1>4 DEF Moments
  <2> HIDE DEF old
  <2>3. TrimSpace(patch)[f] = patch[f]  BY <1>1, <1>2, <1>4
  <2>4. CASE old = "a+"
    BY <1>4, <2>1, <2>3, <2>4 DEF ToAppDateTimeValue, AppDateTimeToISO, Resaved, old
  <2>5. CASE old = "s0"
    BY <1>4, <2>1, <2>3, <2>5 DEF ToAppDateTimeValue, AppDateTimeToISO, Resaved, old
  <2>6. CASE old \in {"s1", "s2"}
    BY <1>4, <2>1, <2>3, <2>6 DEF ToAppDateTimeValue, AppDateTimeToISO, Resaved, old
  <2>7. CASE old \notin {"a+", "s0", "s1", "s2"}
    <3>1. ToAppDateTimeValue(old) = old  BY <2>7 DEF ToAppDateTimeValue
    <3>2. AppDateTimeToISO(old) = old  BY <2>2 DEF AppDateTimeToISO
    <3> QED  BY <2>1, <2>3, <3>1, <3>2 DEF Resaved, old
  <2> QED  BY <2>4, <2>5, <2>6, <2>7
<1>5. CASE f \notin Dates /\ patch[f] = AsSent(f, val)
  BY <1>1, <1>5 DEF AsSent, Resaved
<1>6. CASE f \in {"latitude", "longitude"} /\ val[f] = "" /\ patch[f] = "0"
  BY <1>1, <1>3, <1>6 DEF Resaved
<1> QED  BY <1>4, <1>5, <1>6

-----------------------------------------------------------------------------
(* A form that is made of a copy.                                          *)
LEMMA LoadedForm ==
    ASSUME page \in Pages, NEW srv, NEW u, Entered(page, srv, u),
           NEW r \in Records, NEW rec, Copy(page, srv, r, rec)
    PROVE  /\ Entered(page, srv, FormLoaded(u, r, rec))
           /\ FormLoaded(u, r, rec).loaded = r
           /\ FormLoaded(u, r, rec).pane = u.pane
           /\ FormLoaded(u, r, rec).sel = u.sel
<1> DEFINE v == FormLoaded(u, r, rec)
<1>1. /\ v.form = FormOf(rec.val) /\ v.loaded = r /\ v.rev = rec.rev
      /\ v.option = OptionOf(rec.val) /\ v.touched = {}
      /\ v.pane = u.pane /\ v.sel = u.sel /\ DOMAIN v = DOMAIN u
  BY DEF FormLoaded, Entered
<1>2. FormOf(rec.val) = [f \in FormOfPage(page) |-> AsShown(f, rec.val)]
  BY DEF FormOf, FormFields, FormOfPage, Kind, AsShown
<1>3. OptionOf(rec.val) = [f \in RefsOfPage(page) |-> rec.val[f]]
  BY DEF OptionOf, RefsOfPage, Kind
<1>4. Labelled(page, v.form, v.option)
  BY <1>1, <1>2, <1>3, RefsAreFields DEF Labelled, AsShown
<1>5. Faithful(page, srv, r, v.form, v.rev, v.touched)
  BY <1>1, <1>2 DEF Faithful, Copy, AsShown
<1> HIDE DEF v
<1>6. Entered(page, srv, v)
  BY <1>1, <1>4, <1>5 DEF Entered
<1> QED  BY <1>1, <1>6 DEF v

(* useLoadedEditorRecord, after the query hook.                            *)
LEMMA EffectsRender ==
    ASSUME page \in Pages, NEW srv, NEW ent, Cached(page, srv, ent),
           NEW u, Entered(page, srv, u)
    PROVE  /\ Entered(page, srv, AfterEffects(u, ent))
           /\ Rendered(ent, AfterEffects(u, ent))
<1> DEFINE pane == PaneOf(u.sel, ent, u.pane)
           v == [u EXCEPT !.pane = pane]
<1>1. pane # Nothing => pane.id \in Records /\ Copy(page, srv, pane.id, pane.rec)
  <2>1. CASE u.sel = NoRecord
    BY <2>1 DEF PaneOf, Entered
  <2>2. CASE u.sel # NoRecord
    <3>1. u.sel \in Records  BY <2>2 DEF Entered
    <3>2. pane = HookData(u.sel, ent, u.pane)  BY <2>2 DEF PaneOf
    <3>3. CASE pane = [id |-> u.sel, rec |-> ent[u.sel].data] /\ ent[u.sel].data # Nothing
      BY <3>3, <3>1 DEF Cached
    <3>4. CASE pane = u.pane
      BY <3>4 DEF Entered
    <3>5. \/ pane = [id |-> u.sel, rec |-> ent[u.sel].data] /\ ent[u.sel].data # Nothing
          \/ pane = u.pane
          \/ pane = Nothing
      <4>1. CASE ent[u.sel].status = "ok"
        BY <3>1, <3>2, <4>1 DEF HookData, Cached
      <4>2. CASE ent[u.sel].status # "ok" /\ u.pane # Nothing
        BY <3>2, <4>2 DEF HookData
      <4>3. CASE ent[u.sel].status # "ok" /\ u.pane = Nothing /\ ent[u.sel].data # Nothing
        BY <3>2, <4>3 DEF HookData
      <4>4. CASE ent[u.sel].status # "ok" /\ u.pane = Nothing /\ ent[u.sel].data = Nothing
        BY <3>2, <4>4 DEF HookData
      <4> QED  BY <4>1, <4>2, <4>3, <4>4
    <3> QED  BY <3>3, <3>4, <3>5
  <2> QED  BY <2>1, <2>2
<1>2. u.sel \in Records /\ ent[u.sel].status = "ok" => pane.id = u.sel
  <2>0. SUFFICES ASSUME u.sel \in Records, ent[u.sel].status = "ok"
                 PROVE  pane.id = u.sel
    OBVIOUS
  <2>1. pane = HookData(u.sel, ent, u.pane)  BY <2>0, RecordsAreRecords DEF PaneOf
  <2>2. pane = [id |-> u.sel, rec |-> ent[u.sel].data]  BY <2>0, <2>1 DEF HookData, Cached
  <2> QED  BY <2>2
<1>3. /\ DOMAIN v = DOMAIN u
      /\ v.pane = pane /\ v.sel = u.sel /\ v.loaded = u.loaded /\ v.form = u.form
      /\ v.option = u.option /\ v.rev = u.rev /\ v.touched = u.touched
  BY DEF Entered
<1>4. AfterEffects(u, ent) =
          IF pane = Nothing \/ pane.id = u.loaded THEN v
          ELSE FormLoaded(v, pane.id, pane.rec)
  BY DEF AfterEffects
<1> HIDE DEF pane, v
<1>5. Entered(page, srv, v)
  BY <1>1, <1>3 DEF Entered
<1>6. CASE pane = Nothing \/ pane.id = u.loaded
  <2>1. AfterEffects(u, ent) = v  BY <1>4, <1>6
  <2>2. Rendered(ent, v)
    BY <1>1, <1>2, <1>3, <1>6, RecordsAreRecords DEF Rendered
  <2> QED  BY <1>5, <2>1, <2>2
<1>7. CASE ~(pane = Nothing \/ pane.id = u.loaded)
  <2> DEFINE w == FormLoaded(v, pane.id, pane.rec)
  <2>1. AfterEffects(u, ent) = w  BY <1>4, <1>7
  <2>2. pane.id \in Records /\ Copy(page, srv, pane.id, pane.rec)  BY <1>1, <1>7
  <2>3. Entered(page, srv, w) /\ w.loaded = pane.id /\ w.pane = v.pane /\ w.sel = v.sel
    BY <1>5, <2>2, LoadedForm
  <2> HIDE DEF w
  <2>4. Rendered(ent, w)
    BY <1>2, <1>3, <2>2, <2>3, RecordsAreRecords DEF Rendered
  <2> QED  BY <2>1, <2>3, <2>4
<1> QED  BY <1>6, <1>7

(* The cache after stale tags, a subscription, an answer or a failure.     *)
LEMMA SweptCache ==
    ASSUME NEW p, NEW srv, NEW ent, Cached(p, srv, ent), NEW hit, NEW subs
    PROVE  Cached(p, srv, Invalidated(ent, hit, subs))
<1> DEFINE new == Invalidated(ent, hit, subs)
<1>1. DOMAIN new = Records  BY DEF Invalidated, Cached
<1>2. ASSUME NEW k \in Records
      PROVE  new[k] = ent[k] \/ new[k] = Pending(ent[k]) \/ new[k] = Absent
  BY DEF Invalidated, Cached
<1>3. ASSUME NEW k \in Records
      PROVE  /\ DOMAIN Pending(ent[k]) = DOMAIN ent[k]
             /\ Pending(ent[k]).data = ent[k].data /\ Pending(ent[k]).status = "pending"
  BY DEF Pending, Cached
<1>4. Absent.data = Nothing /\ Absent.status # "ok" /\ DOMAIN Absent = {"status", "data"}
  BY DEF Absent
<1> HIDE DEF new
<1>5. ASSUME NEW k \in Records
      PROVE  /\ {"status", "data"} \subseteq DOMAIN new[k]
             /\ new[k].status = "ok" => new[k].data # Nothing
             /\ new[k].data # Nothing => Copy(p, srv, k, new[k].data)
  BY <1>2, <1>3, <1>4 DEF Cached
<1>6. Cached(p, srv, new)  BY <1>1, <1>5 DEF Cached
<1> QED  BY <1>6 DEF new

LEMMA AskedCache ==
    ASSUME NEW p, NEW srv, NEW ent, Cached(p, srv, ent), NEW subs
    PROVE  Cached(p, srv, Subscribed(ent, subs))
<1> DEFINE new == Subscribed(ent, subs)
<1>1. DOMAIN new = Records  BY DEF Subscribed, Cached
<1>2. ASSUME NEW k \in Records PROVE new[k] = ent[k] \/ new[k] = Pending(ent[k])
  BY DEF Subscribed, Cached
<1>3. ASSUME NEW k \in Records
      PROVE  /\ DOMAIN Pending(ent[k]) = DOMAIN ent[k]
             /\ Pending(ent[k]).data = ent[k].data /\ Pending(ent[k]).status = "pending"
  BY DEF Pending, Cached
<1> HIDE DEF new
<1>4. Cached(p, srv, new)  BY <1>1, <1>2, <1>3 DEF Cached
<1> QED  BY <1>4 DEF new

LEMMA ChangedCache ==
    ASSUME NEW p, NEW srv, NEW ent, Cached(p, srv, ent), NEW k \in Records, NEW e,
           \/ e = Absent
           \/ e = Failed(ent[k])
           \/ \E data : e = Loaded(data) /\ data # Nothing /\ Copy(p, srv, k, data)
    PROVE  Cached(p, srv, [ent EXCEPT ![k] = e])
<1>1. /\ {"status", "data"} \subseteq DOMAIN e
      /\ e.status = "ok" => e.data # Nothing
      /\ e.data # Nothing => Copy(p, srv, k, e.data)
  <2>1. CASE e = Absent  BY <2>1 DEF Absent
  <2>2. CASE e = Failed(ent[k])  BY <2>2 DEF Failed, Cached
  <2>3. CASE \E data : e = Loaded(data) /\ data # Nothing /\ Copy(p, srv, k, data)
    <3>1. PICK data : e = Loaded(data) /\ data # Nothing /\ Copy(p, srv, k, data)
      BY <2>3
    <3> QED  BY <3>1 DEF Loaded
  <2> QED  BY <2>1, <2>2, <2>3
<1> QED  BY <1>1 DEF Cached

(* One round of the store and the page.                                    *)
LEMMA SettledWell ==
    ASSUME page \in Pages, NEW ent, NEW ms, NEW tags, NEW u,
           Cached(page, server, ent), Answers(page, server, answer),
           u # Nothing => Entered(page, server, u),
           Settle(ent, ms, tags, u)
    PROVE  /\ Cached(page, server, entry')
           /\ Answers(page, server, answer')
           /\ saves' = ms
           /\ u = Nothing => ui' = Nothing
           /\ u # Nothing => Entered(page, server, ui') /\ Rendered(entry', ui')
<1>1. Cached(page, server, entry')
  <2>1. \E hit, subs : entry' = Invalidated(ent, hit, subs) \/ entry' = ent
    BY DEF Settle
  <2> QED  BY <2>1, SweptCache
<1>2. Answers(page, server, answer')
  <2>1. /\ DOMAIN answer' = Records
        /\ \A k \in Records : answer'[k] = answer[k] \/ answer'[k] = Nothing
    BY DEF Settle
  <2> QED  BY <2>1 DEF Answers
<1>3. saves' = ms /\ ui' = IF u = Nothing THEN Nothing ELSE AfterEffects(u, entry')
  BY DEF Settle
<1>4. CASE u = Nothing  BY <1>1, <1>2, <1>3, <1>4
<1>5. CASE u # Nothing
  <2>1. ui' = AfterEffects(u, entry')  BY <1>3, <1>5
  <2>2. Entered(page, server, AfterEffects(u, entry'))
        /\ Rendered(entry', AfterEffects(u, entry'))
    BY <1>1, <1>5, EffectsRender
  <2> QED  BY <1>1, <1>2, <1>3, <1>5, <2>1, <2>2
<1> QED  BY <1>4, <1>5

-----------------------------------------------------------------------------
(* A write of the server: what was a copy, a form or a request before is   *)
(* one after, being behind the record if it is that record's.              *)

Grown(srv, new) ==
    /\ DOMAIN new = Records
    /\ \A r \in Records : new[r] = srv[r] \/ (new[r].rev \in Nat /\ new[r].rev > srv[r].rev)

LEMMA CopiesStay ==
    ASSUME NEW p, NEW srv, Stored(p, srv), NEW new, Grown(srv, new),
           NEW r \in Records, NEW rec, Copy(p, srv, r, rec)
    PROVE  Copy(p, new, r, rec)
BY DEF Stored, Grown, Copy

LEMMA WriteKeeps ==
    ASSUME NEW p, NEW srv, Stored(p, srv), NEW new, Grown(srv, new)
    PROVE  /\ \A ent : Cached(p, srv, ent) => Cached(p, new, ent)
           /\ \A ans : Answers(p, srv, ans) => Answers(p, new, ans)
           /\ \A u : Entered(p, srv, u) => Entered(p, new, u)
           /\ \A m : Requested(p, srv, m) => Requested(p, new, m)
<1>1. ASSUME NEW ent, Cached(p, srv, ent) PROVE Cached(p, new, ent)
  BY <1>1, CopiesStay DEF Cached
<1>2. ASSUME NEW ans, Answers(p, srv, ans) PROVE Answers(p, new, ans)
  BY <1>2, CopiesStay DEF Answers
<1>3. ASSUME NEW u, Entered(p, srv, u) PROVE Entered(p, new, u)
  <2>1. u.pane # Nothing => Copy(p, new, u.pane.id, u.pane.rec)
    BY <1>3, CopiesStay DEF Entered
  <2>2. u.loaded # NoRecord => Faithful(p, new, u.loaded, u.form, u.rev, u.touched)
    BY <1>3 DEF Entered, Faithful, Stored, Grown
  <2> QED  BY <1>3, <2>1, <2>2 DEF Entered
<1>4. ASSUME NEW m, Requested(p, srv, m) PROVE Requested(p, new, m)
  <2>1. m.id \in Records  BY <1>4 DEF Requested
  <2>2. m.at = "done" => Copy(p, new, m.id, m.rec)
    BY <1>4, <2>1, CopiesStay DEF Requested
  <2>3. m.of = m.id =>
            /\ m.rev \in Nat
            /\ m.rev <= new[m.id].rev
            /\ m.at = "done" => m.rev # new[m.id].rev
            /\ m.rev = new[m.id].rev => Sends(p, new[m.id].val, m.patch, m.touched)
    <3>1. CASE new[m.id] = srv[m.id]  BY <1>4, <3>1 DEF Requested
    <3>2. CASE new[m.id].rev \in Nat /\ new[m.id].rev > srv[m.id].rev
      BY <1>4, <2>1, <3>2 DEF Requested, Stored
    <3> QED  BY <2>1, <3>1, <3>2 DEF Grown
  <2> QED  BY <1>4, <2>1, <2>2, <2>3 DEF Requested
<1> QED  BY <1>1, <1>2, <1>3, <1>4

(* What a page sends, trimmed or not, has moments for dates.               *)
LEMMA PatchHasMoments ==
    ASSUME NEW form, page \in Pages PROVE Moments(Patch(form))
<1>1. CASE page = "clients"
  <2>1. DOMAIN Patch(form) = FormFields \cup {"morePoints"}
    BY <1>1 DEF Patch, ClientPatch
  <2>2. FormFields \subseteq ClientForm
    BY <1>1 DEF FormFields, Kind, Kinds, ClientsPage, Page
  <2>3. "morePoints" \notin Dates  BY DEF Dates
  <2> QED  BY <2>1, <2>2, <2>3, ClientsHaveNoDates DEF Moments
<1>2. CASE page # "clients"
  <2>1. Patch(form) = DatedPatch(form)  BY <1>2 DEF Patch
  <2>2. ASSUME NEW f \in Dates \cap DOMAIN DatedPatch(form)
        PROVE  DatedPatch(form)[f] \notin {"t0", "t1"}
    <3>1. DatedPatch(form)[f] = AppDateTimeToISO(form[f])  BY DEF DatedPatch
    <3> QED  BY <3>1 DEF AppDateTimeToISO
  <2> QED  BY <2>1, <2>2 DEF Moments
<1> QED  BY <1>1, <1>2

LEMMA TrimmedMoments ==
    ASSUME NEW patch, Moments(patch) PROVE Moments(TrimSpace(patch))
<1>1. DOMAIN TrimSpace(patch) = DOMAIN patch  BY DEF TrimSpace
<1>2. ASSUME NEW f \in Dates \cap DOMAIN patch PROVE TrimSpace(patch)[f] = patch[f]
  BY DEF TrimSpace, Dates, Texts
<1> QED  BY <1>1, <1>2 DEF Moments

(* What the server merges is a write, and the answer to it a copy.         *)
LEMMA MergeGrows ==
    ASSUME page \in Pages, Stored(page, server), NEW r \in Records, NEW patch,
           Moments(patch)
    PROVE  LET new == [server EXCEPT ![r] = Written(r, patch)]
           IN  /\ Grown(server, new)
               /\ Stored(page, new)
               /\ new[r].rev = server[r].rev + 1
               /\ new[r].val = Merged(patch, server[r].val)
               /\ Copy(page, new, r, new[r])
<1> DEFINE new == [server EXCEPT ![r] = Written(r, patch)]
<1>1. /\ DOMAIN new = Records
      /\ new[r] = Written(r, patch)
      /\ \A q \in Records : q # r => new[q] = server[q]
  BY DEF Stored
<1>2. /\ Written(r, patch).rev = server[r].rev + 1
      /\ Written(r, patch).val = Merged(patch, server[r].val)
  BY DEF Written
<1>3. /\ FormOfPage(page) \subseteq DOMAIN (Merged(patch, server[r].val))
      /\ Moments(Merged(patch, server[r].val))
  BY DEF Stored, Merged, Moments
<1> HIDE DEF new
<1>4. Stored(page, new)  BY <1>1, <1>2, <1>3 DEF Stored
<1>5. Grown(server, new)  BY <1>1, <1>2 DEF Stored, Grown
<1>6. Copy(page, new, r, new[r])  BY <1>4 DEF Stored, Copy
<1> QED  BY <1>1, <1>2, <1>4, <1>5, <1>6 DEF new

(* The patch of a faithful form.                                           *)
LEMMA PatchSends ==
    ASSUME page \in Pages, NEW srv, NEW r, NEW form, NEW rev, NEW touched,
           Faithful(page, srv, r, form, rev, touched), rev = srv[r].rev
    PROVE  Sends(page, srv[r].val, Patch(form), touched)
<1>1. \A f \in FormOfPage(page) \ touched :
          f \in DOMAIN form /\ form[f] = AsShown(f, srv[r].val)
  BY DEF Faithful
<1>2. CASE page # "clients"
  <2>1. Patch(form) = DatedPatch(form)  BY <1>2 DEF Patch
  <2>2. ASSUME NEW f \in FormOfPage(page) \ touched
        PROVE  f \in DOMAIN DatedPatch(form) /\ DatedPatch(form)[f] = AsSent(f, srv[r].val)
    BY <1>1 DEF DatedPatch, AsShown, AsSent
  <2> QED  BY <2>1, <2>2 DEF Sends
<1>3. CASE page = "clients"
  <2>1. ASSUME NEW f \in FormOfPage(page) \ touched
        PROVE  /\ f \in DOMAIN Patch(form)
               /\ \/ Patch(form)[f] = form[f]
                  \/ f \in {"latitude", "longitude"} /\ form[f] = "" /\ Patch(form)[f] = "0"
    <3>1. f \in FormFields  BY DEF FormOfPage, FormFields, Kind
    <3>2. Patch(form) = ClientPatch(form)  BY <1>3 DEF Patch
    <3> DEFINE sent == ClientPatch(form)
    <3>3. /\ f \in DOMAIN sent
          /\ sent[f] = CASE f = "morePoints" -> ""
                         [] f = "latitude" -> Coordinate(form[f], form["longitude"])
                         [] f = "longitude" -> Coordinate(form[f], form["latitude"])
                         [] OTHER -> form[f]
      BY <3>1 DEF ClientPatch
    <3>0. f # "morePoints"
      BY <1>3 DEF FormOfPage, Kinds, ClientsPage, Page, ClientForm
    <3> HIDE DEF sent
    <3>4. sent[f] = form[f]
          \/ (f \in {"latitude", "longitude"} /\ form[f] = "" /\ sent[f] = "0")
      BY <3>0, <3>3 DEF Coordinate
    <3> QED  BY <3>2, <3>3, <3>4 DEF sent
  <2>2. \A f \in FormOfPage(page) :
            f \notin Dates /\ AsShown(f, srv[r].val) = srv[r].val[f]
            /\ AsSent(f, srv[r].val) = srv[r].val[f]
    BY <1>3, ClientsHaveNoDates
       DEF AsShown, AsSent, FormOfPage, Kinds, ClientsPage, Page
  <2> DEFINE patch == Patch(form)
             val == srv[r].val
  <2>3. ASSUME NEW f \in FormOfPage(page) \ touched
        PROVE  /\ f \in DOMAIN patch
               /\ \/ patch[f] = AsSent(f, val)
                  \/ f \in {"latitude", "longitude"} /\ val[f] = "" /\ patch[f] = "0"
    <3>1. form[f] = val[f] /\ AsSent(f, val) = val[f]  BY <1>1, <2>2
    <3>2. CASE patch[f] = form[f]  BY <2>1, <3>1, <3>2
    <3>3. CASE f \in {"latitude", "longitude"} /\ form[f] = "" /\ patch[f] = "0"
      <4>1. val[f] = ""  BY <3>1, <3>3
      <4> QED  BY <2>1, <3>3, <4>1
    <3> QED  BY <2>1, <3>2, <3>3
  <2> HIDE DEF patch, val
  <2>4. Sends(page, val, patch, touched)  BY <2>3 DEF Sends
  <2> QED  BY <2>4 DEF patch, val
<1> QED  BY <1>2, <1>3

-----------------------------------------------------------------------------
(* A step of the store and the page.                                       *)
LEMMA SettleStep ==
    ASSUME IInv, NEW ent, NEW ms, NEW tags, NEW u,
           Cached(page, server, ent),
           Requests(page, server, ms),
           u # Nothing \/ (\E m \in ms : m.here) => Entered(page, server, u),
           Settle(ent, ms, tags, u), UNCHANGED <<page, server>>
    PROVE  IInv'
<1>1. page \in Pages /\ Stored(page, server) /\ Answers(page, server, answer)
  BY DEF IInv, Consistent
<1>2. /\ Cached(page, server, entry')
      /\ Answers(page, server, answer')
      /\ saves' = ms
      /\ u = Nothing => ui' = Nothing
      /\ u # Nothing => Entered(page, server, ui') /\ Rendered(entry', ui')
  BY <1>1, SettledWell
<1> QED  BY <1>1, <1>2 DEF IInv, Consistent

LEMMA InitStored ==
    ASSUME Init
    PROVE  /\ DOMAIN server = Records
           /\ \A r \in Records :
                 server[r].rev = 0 /\ DOMAIN server[r].val = Fields /\ Moments(server[r].val)
<1>1. PICK date \in {"a+", "s0"} :
        server = [r \in Records |->
                     [val |-> [f \in Fields |-> CASE f \in Dates -> date
                                                 [] f \in Texts -> "a "
                                                 [] OTHER -> "a"],
                      rev |-> 0]]
  BY DEF Init
<1> DEFINE val == [f \in Fields |-> CASE f \in Dates -> date
                                     [] f \in Texts -> "a "
                                     [] OTHER -> "a"]
<1>2. server = [r \in Records |-> [val |-> val, rev |-> 0]]  BY <1>1
<1>3. DOMAIN val = Fields  OBVIOUS
<1>4. \A f \in Dates \cap Fields : val[f] = date  BY DEF Dates, Texts
<1> HIDE DEF val
<1>5. Moments(val)  BY <1>3, <1>4 DEF Moments
<1> QED  BY <1>2, <1>3, <1>5

LEMMA InitConsistent == Init => IInv
<1> SUFFICES ASSUME Init PROVE IInv  OBVIOUS
<1>1. FormOfPage(page) \subseteq Fields  BY DEF FormOfPage, Fields, Kind
<1>2. Stored(page, server)  BY <1>1, InitStored DEF Stored
<1> USE DEF Init
<1>3. page \in Pages /\ saves = {} /\ ui = Nothing  OBVIOUS
<1>4. Cached(page, server, entry)  BY DEF Cached, Absent
<1>5. Answers(page, server, answer)  BY DEF Answers
<1> QED  BY <1>2, <1>3, <1>4, <1>5 DEF IInv, Consistent, Requests

(* The steps of the user.                                                  *)
LEMMA OpenStep ==
    ASSUME IInv, NEW sel \in Records \cup {NoRecord}, Open(sel) PROVE IInv'
<1> DEFINE u == [sel |-> sel, pane |-> Nothing, form |-> <<>>, loaded |-> NoRecord,
                 option |-> <<>>, rev |-> 0, touched |-> {}]
           ent == Subscribed(entry, Subscriptions(sel))
<1>1. Entered(page, server, u)  BY DEF Entered
<1>2. Cached(page, server, ent)  BY AskedCache DEF IInv, Consistent
<1>3. Settle(ent, saves, stale, u) /\ UNCHANGED <<page, server>>  BY DEF Open
<1>4. Requests(page, server, saves)  BY DEF IInv, Consistent
<1> HIDE DEF u, ent
<1> QED  BY <1>1, <1>2, <1>3, <1>4, SettleStep

LEMMA LeaveStep ==
    ASSUME IInv, Leave PROVE IInv'
<1>1. /\ ui' = Nothing /\ saves' = {[m EXCEPT !.here = FALSE] : m \in saves}
      /\ UNCHANGED <<page, server, entry, answer>>
  BY DEF Leave
<1>2. ASSUME NEW m \in saves
      PROVE  /\ Requested(page, server, [m EXCEPT !.here = FALSE])
             /\ ~[m EXCEPT !.here = FALSE].here
  <2>1. Requested(page, server, m)  BY DEF IInv, Consistent, Requests
  <2> DEFINE n == [m EXCEPT !.here = FALSE]
  <2>2. /\ DOMAIN n = DOMAIN m /\ n.id = m.id /\ n.patch = m.patch /\ n.at = m.at
        /\ n.rec = m.rec /\ n.of = m.of /\ n.rev = m.rev /\ n.touched = m.touched
        /\ n.blind = m.blind /\ n.here = FALSE
    BY <2>1 DEF Requested, SaveFields
  <2> HIDE DEF n
  <2>3. Requested(page, server, n)  BY <2>1, <2>2 DEF Requested
  <2> QED  BY <2>2, <2>3 DEF n
<1>3. Requests(page, server, saves') /\ \A m \in saves' : ~m.here
  BY <1>1, <1>2 DEF Requests
<1> QED  BY <1>1, <1>3 DEF IInv, Consistent

LEMMA SelectStep ==
    ASSUME IInv, NEW r \in Records, (SelectFirst /\ r = First) \/ Select(r)
    PROVE  IInv'
<1> DEFINE u == [ui EXCEPT !.sel = r]
<1>1. ui # Nothing /\ Entered(page, server, ui)
  BY DEF SelectFirst, Select, IInv, Consistent
<1>2. /\ DOMAIN u = DOMAIN ui /\ u.sel = r /\ u.pane = ui.pane /\ u.form = ui.form
      /\ u.loaded = ui.loaded /\ u.option = ui.option /\ u.rev = ui.rev
      /\ u.touched = ui.touched
  BY <1>1 DEF Entered
<1>3. \E subs : Settle(Subscribed(entry, subs), saves, stale, u) /\ UNCHANGED <<page, server>>
  BY DEF SelectFirst, Select
<1> HIDE DEF u
<1>4. Entered(page, server, u)  BY <1>1, <1>2 DEF Entered
<1>5. Requests(page, server, saves)  BY DEF IInv, Consistent
<1>6. \A subs : Cached(page, server, Subscribed(entry, subs))
  BY AskedCache DEF IInv, Consistent
<1> QED  BY <1>3, <1>4, <1>5, <1>6, SettleStep

LEMMA TypeStep ==
    ASSUME IInv, NEW f, NEW v, Type(f, v) PROVE IInv'
<1> DEFINE also == IF page = "tickets" /\ f = "client" THEN {"contactPerson"} \cap Tracked ELSE {}
           With(g) == [h \in DOMAIN g |->
                          CASE h = f -> v [] h \in also -> "" [] OTHER -> g[h]]
           u == [ui EXCEPT !.form = With(@), !.option = With(@),
                           !.touched = @ \cup {f} \cup also]
<1>1. /\ ui # Nothing /\ ui' = u
      /\ UNCHANGED <<page, server, entry, answer, saves>>
  BY DEF Type
<1>2. Entered(page, server, ui) /\ Rendered(entry, ui)  BY <1>1 DEF IInv, Consistent
<1>3. /\ DOMAIN u = DOMAIN ui /\ u.sel = ui.sel /\ u.pane = ui.pane
      /\ u.form = With(ui.form) /\ u.option = With(ui.option)
      /\ u.loaded = ui.loaded /\ u.rev = ui.rev
      /\ u.touched = ui.touched \cup {f} \cup also
  BY <1>2 DEF Entered
<1>4. ASSUME NEW g
      PROVE  /\ DOMAIN With(g) = DOMAIN g
             /\ \A h \in DOMAIN g : h # f /\ h \notin also => With(g)[h] = g[h]
  OBVIOUS
<1>5. ASSUME NEW g, NEW k, NEW h \in DOMAIN g, h \in DOMAIN k, g[h] = k[h]
      PROVE  With(g)[h] = With(k)[h]
  BY <1>5
<1> HIDE DEF u, With, also
<1>6. ASSUME u.loaded # NoRecord
      PROVE  /\ Labelled(page, u.form, u.option)
             /\ Faithful(page, server, u.loaded, u.form, u.rev, u.touched)
  <2>1. /\ Labelled(page, ui.form, ui.option)
        /\ Faithful(page, server, ui.loaded, ui.form, ui.rev, ui.touched)
    BY <1>2, <1>3, <1>6 DEF Entered
  <2>2. FormOfPage(page) \subseteq DOMAIN ui.form  BY <2>1 DEF Faithful
  <2>3. Labelled(page, u.form, u.option)
    <3>1. ASSUME NEW h \in RefsOfPage(page)
          PROVE  h \in DOMAIN u.option /\ u.option[h] = u.form[h]
      <4>1. h \in DOMAIN ui.option /\ ui.option[h] = ui.form[h]  BY <2>1 DEF Labelled
      <4>2. h \in DOMAIN ui.form  BY <2>2, RefsAreFields DEF IInv, Consistent
      <4>3. With(ui.option)[h] = With(ui.form)[h]  BY <1>5, <4>1, <4>2
      <4> QED  BY <1>3, <1>4, <4>1, <4>3
    <3> QED  BY <3>1 DEF Labelled
  <2>4. Faithful(page, server, u.loaded, u.form, u.rev, u.touched)
    <3>1. ASSUME NEW h \in FormOfPage(page) \ u.touched PROVE u.form[h] = ui.form[h]
      BY <1>3, <1>4, <2>2
    <3>2. FormOfPage(page) \subseteq DOMAIN u.form  BY <1>3, <1>4, <2>2
    <3> QED  BY <1>3, <2>1, <3>1, <3>2 DEF Faithful
  <2> QED  BY <2>3, <2>4
<1>7. Entered(page, server, u)  BY <1>2, <1>3, <1>6 DEF Entered
<1>8. Rendered(entry, u)  BY <1>2, <1>3 DEF Rendered
<1> QED  BY <1>1, <1>7, <1>8 DEF IInv, Consistent

LEMMA SaveStep ==
    ASSUME IInv, Save PROVE IInv'
<1> DEFINE m == [id |-> ui.sel, patch |-> Patch(ui.form), at |-> "sent",
                 rec |-> Nothing, here |-> TRUE, of |-> ui.loaded, rev |-> ui.rev,
                 touched |-> ui.touched, blind |-> entry[ui.sel].status # "ok"]
<1>1. /\ ui # Nothing /\ ui.pane # Nothing /\ ui.sel # NoRecord
      /\ saves' = saves \cup {m}
      /\ UNCHANGED <<page, server, entry, answer, ui>>
  BY DEF Save, Dirty
<1>2. Entered(page, server, ui) /\ Rendered(entry, ui) /\ page \in Pages
  BY <1>1 DEF IInv, Consistent
<1>3. ui.sel \in Records /\ ui.loaded \in Records
  BY <1>1, <1>2 DEF Entered, Rendered
<1>4. Faithful(page, server, ui.loaded, ui.form, ui.rev, ui.touched)
  BY <1>1, <1>2 DEF Entered, Rendered
<1>5. ui.loaded # ui.sel => entry[ui.sel].status # "ok"
  BY <1>1, <1>2, <1>3 DEF Rendered
<1>6. ui.rev = server[ui.loaded].rev
          => Sends(page, server[ui.loaded].val, Patch(ui.form), ui.touched)
  BY <1>2, <1>4, PatchSends
<1>7. Requested(page, server, m)
  BY <1>2, <1>3, <1>4, <1>5, <1>6, PatchHasMoments DEF Requested, SaveFields, Faithful
<1> HIDE DEF m
<1>8. Requests(page, server, saves')  BY <1>1, <1>7 DEF Requests, IInv, Consistent
<1> QED  BY <1>1, <1>2, <1>8 DEF IInv, Consistent

-----------------------------------------------------------------------------
(* The steps of the network.                                               *)

LEMMA ServerSavesStep ==
    ASSUME IInv, NEW m \in saves, ServerSaves(m) PROVE IInv'
<1> DEFINE n == [m EXCEPT !.at = "done", !.rec = server'[m.id]]
<1>1. /\ m.at = "sent"
      /\ server' = [server EXCEPT ![m.id] = Written(m.id, TrimSpace(m.patch))]
      /\ saves' = (saves \ {m}) \cup {n}
      /\ UNCHANGED <<page, entry, answer, ui>>
  BY DEF ServerSaves
<1>2. Requested(page, server, m) /\ m.id \in Records /\ page \in Pages /\ Stored(page, server)
  BY DEF IInv, Consistent, Requests, Requested
<1>3. /\ Grown(server, server') /\ Stored(page, server')
      /\ server'[m.id].rev = server[m.id].rev + 1
      /\ Copy(page, server', m.id, server'[m.id])
  BY <1>1, <1>2, MergeGrows, TrimmedMoments DEF Requested
<1>4. /\ DOMAIN n = DOMAIN m /\ n.id = m.id /\ n.patch = m.patch /\ n.at = "done"
      /\ n.rec = server'[m.id] /\ n.of = m.of /\ n.rev = m.rev /\ n.touched = m.touched
      /\ n.blind = m.blind /\ n.here = m.here
  BY <1>2 DEF Requested, SaveFields
<1> HIDE DEF n
<1>5. Requested(page, server', n)
  <2>1. server[m.id].rev \in Nat  BY <1>2 DEF Stored
  <2>2. n.of = n.id =>
            n.rev \in Nat /\ n.rev <= server'[n.id].rev /\ n.rev # server'[n.id].rev
    BY <1>2, <1>3, <1>4, <2>1 DEF Requested
  <2> QED  BY <1>2, <1>3, <1>4, <2>2 DEF Requested
<1>6. /\ Cached(page, server', entry) /\ Answers(page, server', answer)
      /\ Entered(page, server, ui) => Entered(page, server', ui)
      /\ \A o \in saves : Requested(page, server', o)
  BY <1>2, <1>3, WriteKeeps DEF IInv, Consistent, Requests
<1>7. Requests(page, server', saves')  BY <1>1, <1>5, <1>6 DEF Requests
<1>8. ui # Nothing \/ (\E o \in saves' : o.here) => Entered(page, server', ui)
  BY <1>1, <1>4, <1>6 DEF IInv, Consistent
<1> QED  BY <1>1, <1>3, <1>6, <1>7, <1>8 DEF IInv, Consistent

LEMMA ForeignSaveStep ==
    ASSUME IInv, NEW r \in Records, NEW f, ForeignSave(r, f) PROVE IInv'
<1> DEFINE patch == [g \in {f} |-> "c"]
<1>1. /\ server' = [server EXCEPT ![r] = Written(r, patch)]
      /\ UNCHANGED <<page, entry, answer, saves, ui>>
  BY DEF ForeignSave
<1>2. page \in Pages /\ Stored(page, server)  BY DEF IInv, Consistent
<1>0. Moments(patch)  BY DEF Moments
<1> HIDE DEF patch
<1>3. Grown(server, server') /\ Stored(page, server')
  BY <1>0, <1>1, <1>2, MergeGrows
<1>4. /\ Cached(page, server', entry) /\ Answers(page, server', answer)
      /\ Entered(page, server, ui) => Entered(page, server', ui)
      /\ Requests(page, server', saves)
  BY <1>2, <1>3, WriteKeeps DEF IInv, Consistent, Requests
<1> QED  BY <1>1, <1>3, <1>4 DEF IInv, Consistent

LEMMA SaveAnsweredStep ==
    ASSUME IInv, NEW m \in saves, SaveAnswered(m) PROVE IInv'
<1> DEFINE u == IF m.here THEN FormLoaded(ui, m.id, m.rec) ELSE ui
<1>1. /\ m.at = "done"
      /\ Settle(entry, saves \ {m}, stale \cup Invalidates(m.id), u)
      /\ UNCHANGED <<page, server>>
  BY DEF SaveAnswered
<1>2. /\ Cached(page, server, entry) /\ page \in Pages
      /\ Requests(page, server, saves \ {m})
      /\ m.id \in Records /\ Copy(page, server, m.id, m.rec)
  BY <1>1 DEF IInv, Consistent, Requests, Requested
<1>3. CASE m.here
  <2>1. Entered(page, server, ui)  BY <1>3 DEF IInv, Consistent
  <2>2. Entered(page, server, u)  BY <1>2, <1>3, <2>1, LoadedForm
  <2> HIDE DEF u
  <2> QED  BY <1>1, <1>2, <2>2, SettleStep
<1>4. CASE ~m.here
  <2>1. ui # Nothing \/ (\E o \in saves \ {m} : o.here) => Entered(page, server, ui)
    BY DEF IInv, Consistent
  <2>2. u = ui  BY <1>4
  <2> HIDE DEF u
  <2> QED  BY <1>1, <1>2, <2>1, <2>2, SettleStep
<1> QED  BY <1>3, <1>4

LEMMA SaveFailsStep ==
    ASSUME IInv, NEW m \in saves, SaveFails(m) PROVE IInv'
<1>1. /\ Settle(entry, saves \ {m}, stale \cup Invalidates(m.id), ui)
      /\ UNCHANGED <<page, server>>
  BY DEF SaveFails
<1>2. Cached(page, server, entry) /\ Requests(page, server, saves \ {m})
  BY DEF IInv, Consistent, Requests
<1>3. ui # Nothing \/ (\E o \in saves \ {m} : o.here) => Entered(page, server, ui)
  BY DEF IInv, Consistent
<1> QED  BY <1>1, <1>2, <1>3, SettleStep

LEMMA QueryStep ==
    ASSUME IInv, NEW k \in Records, QueryAnswered(k) \/ QueryFails(k) PROVE IInv'
<1> DEFINE ent(e) == [entry EXCEPT ![k] = e]
<1>1. PICK e : /\ e = Failed(entry[k])
                  \/ \E data : e = Loaded(data) /\ data # Nothing /\ Copy(page, server, k, data)
               /\ Settle(ent(e), saves, stale, ui) /\ UNCHANGED <<page, server>>
  <2>1. CASE QueryAnswered(k)
    <3>1. answer[k] # Nothing /\ Copy(page, server, k, answer[k])
      BY <2>1 DEF QueryAnswered, IInv, Consistent, Answers
    <3>2. Settle(ent(Loaded(answer[k])), saves, stale, ui) /\ UNCHANGED <<page, server>>
      BY <2>1 DEF QueryAnswered
    <3> QED  BY <3>1, <3>2
  <2>2. CASE QueryFails(k)
    <3>1. Settle(ent(Failed(entry[k])), saves, stale, ui) /\ UNCHANGED <<page, server>>
      BY <2>2 DEF QueryFails
    <3> QED  BY <3>1
  <2> QED  BY <2>1, <2>2
<1>2. Cached(page, server, ent(e))
  BY <1>1, ChangedCache DEF IInv, Consistent
<1> HIDE DEF ent
<1>3. /\ Requests(page, server, saves)
      /\ ui # Nothing \/ (\E o \in saves : o.here) => Entered(page, server, ui)
  BY DEF IInv, Consistent
<1> QED  BY <1>1, <1>2, <1>3, SettleStep

LEMMA ReadStep ==
    ASSUME IInv, NEW k \in Records, ServerReads(k) PROVE IInv'
<1>1. /\ answer' = [answer EXCEPT ![k] = server[k]]
      /\ UNCHANGED <<page, server, entry, saves, ui>>
  BY DEF ServerReads
<1>2. Copy(page, server, k, server[k])
  BY DEF Copy, IInv, Consistent, Stored
<1>3. Answers(page, server, answer')
  BY <1>1, <1>2 DEF IInv, Consistent, Answers
<1> QED  BY <1>1, <1>3 DEF IInv, Consistent

LEMMA ExpireStep ==
    ASSUME IInv, NEW k \in Records, Expire(k) PROVE IInv'
<1>1. /\ entry' = [entry EXCEPT ![k] = Absent]
      /\ UNCHANGED <<page, server, answer, saves, ui>>
  BY DEF Expire
<1>2. Cached(page, server, entry')
  BY <1>1, ChangedCache DEF IInv, Consistent
<1>3. ui # Nothing => Rendered(entry', ui)
  BY <1>1 DEF IInv, Consistent, Rendered, Cached, Absent
<1> QED  BY <1>1, <1>2, <1>3 DEF IInv, Consistent

LEMMA StutterStep ==
    ASSUME IInv, UNCHANGED vars PROVE IInv'
BY DEF vars, IInv, Consistent

LEMMA StepConsistent ==
    ASSUME IInv, [Next]_vars PROVE IInv'
<1>1. CASE User
  <2>1. ASSUME NEW sel \in Records \cup {NoRecord}, Open(sel) PROVE IInv'
    BY <2>1, OpenStep
  <2>2. CASE Leave  BY <2>2, LeaveStep
  <2>3. CASE SelectFirst  BY <2>3, SelectStep, FirstListed
  <2>4. ASSUME NEW r \in Records, Select(r) PROVE IInv'  BY <2>4, SelectStep
  <2>5. ASSUME NEW f, NEW v, Type(f, v) PROVE IInv'  BY <2>5, TypeStep
  <2>6. CASE Save  BY <2>6, SaveStep
  <2> QED  BY <1>1, <2>1, <2>2, <2>3, <2>4, <2>5, <2>6 DEF User
<1>2. CASE Network
  <2>1. ASSUME NEW m \in saves, ServerSaves(m) \/ SaveAnswered(m) \/ SaveFails(m) PROVE IInv'
    BY <2>1, ServerSavesStep, SaveAnsweredStep, SaveFailsStep
  <2>2. ASSUME NEW k \in Records,
               ServerReads(k) \/ QueryAnswered(k) \/ QueryFails(k) \/ Expire(k)
        PROVE  IInv'
    BY <2>2, ReadStep, QueryStep, ExpireStep
  <2> QED  BY <1>2, <2>1, <2>2 DEF Network
<1>3. ASSUME NEW r \in Records, NEW f, ForeignSave(r, f) PROVE IInv'
  BY <1>3, ForeignSaveStep
<1>4. CASE UNCHANGED vars  BY <1>4, StutterStep
<1> QED  BY <1>1, <1>2, <1>3, <1>4 DEF Next

-----------------------------------------------------------------------------
(* What this browser was told of.  An entry that may be behind a write     *)
(* that was confirmed is among the stale tags; these are swept as soon as  *)
(* nothing is pending; and the pane of a record that is in the cache shows *)
(* what the cache has.                                                     *)

NotBehind(k, ent, ans, tags, told) ==
    \/ k \in tags
    \/ /\ ent[k].status = "ok" => ent[k].data.rev >= told[k]
       /\ ans[k] # Nothing => ans[k].rev >= told[k]

PaneIsCached(ent, u) ==
    u.sel \in Records /\ ent[u.sel].status = "ok" =>
        u.pane = [id |-> u.sel, rec |-> ent[u.sel].data]

Told ==
    /\ DOMAIN saved = Records
    /\ \A k \in Records :
          /\ saved[k] \in Nat
          /\ saved[k] <= server[k].rev
          /\ NotBehind(k, entry, answer, stale, saved)
    /\ Quiet(entry, saves) => stale = {}
    /\ ui # Nothing => PaneIsCached(entry, ui)

(* The effects of a page keep the pane that its hook has returned.         *)
LEMMA EffectsShowCached ==
    ASSUME NEW ent, NEW srv, Cached(page, srv, ent), NEW u, Entered(page, srv, u)
    PROVE  PaneIsCached(ent, AfterEffects(u, ent)) /\ AfterEffects(u, ent).sel = u.sel
<1> DEFINE pane == PaneOf(u.sel, ent, u.pane)
           v == [u EXCEPT !.pane = pane]
           w == FormLoaded(v, pane.id, pane.rec)
<1>1. v.pane = pane /\ v.sel = u.sel /\ DOMAIN v = DOMAIN u  BY DEF Entered
<1>2. w.pane = v.pane /\ w.sel = v.sel
  BY <1>1 DEF FormLoaded, Entered
<1>3. AfterEffects(u, ent) \in {v, w}  BY DEF AfterEffects
<1>4. ASSUME u.sel \in Records, ent[u.sel].status = "ok"
      PROVE  pane = [id |-> u.sel, rec |-> ent[u.sel].data]
  <2>1. u.sel # NoRecord  BY <1>4, RecordsAreRecords
  <2>2. pane = HookData(u.sel, ent, u.pane)  BY <2>1 DEF PaneOf
  <2>3. HookData(u.sel, ent, u.pane) = [id |-> u.sel, rec |-> ent[u.sel].data]
    BY <1>4 DEF HookData
  <2> QED  BY <2>2, <2>3
<1> HIDE DEF pane, v, w
<1>5. AfterEffects(u, ent).pane = pane /\ AfterEffects(u, ent).sel = u.sel
  BY <1>1, <1>2, <1>3
<1> QED  BY <1>4, <1>5 DEF PaneIsCached

(* One round: what is behind stays among the stale tags, or is swept.      *)
LEMMA SettledTold ==
    ASSUME page \in Pages, NEW ent, NEW ms, NEW tags, NEW u,
           Cached(page, server, ent), DOMAIN answer = Records,
           u # Nothing => Entered(page, server, u),
           Settle(ent, ms, tags, u), NEW told,
           \A k \in Records : NotBehind(k, ent, answer, tags, told)
    PROVE  /\ \A k \in Records : NotBehind(k, entry', answer', stale', told)
           /\ Quiet(entry', saves') => stale' = {}
           /\ ui' # Nothing => PaneIsCached(entry', ui')
<1> DEFINE subs == IF u = Nothing THEN {} ELSE Subscriptions(u.sel)
           hit == {k \in Records : Provides(k) \cap tags # {}}
<1>1. /\ stale' = IF Quiet(ent, ms) THEN {} ELSE tags
      /\ saves' = ms
      /\ entry' = IF Quiet(ent, ms) THEN Invalidated(ent, hit, subs) ELSE ent
      /\ ui' = IF u = Nothing THEN Nothing ELSE AfterEffects(u, entry')
      /\ answer' = [k \in Records |->
                       IF k \in StillAsked(entry, ent) \cap StillAsked(ent, entry')
                       THEN answer[k] ELSE Nothing]
  BY DEF Settle
<1>2. \A k \in Records : k \in hit <=> k \in tags  BY DEF Provides
<1>3. DOMAIN ent = Records  BY DEF Cached
<1> HIDE DEF hit, subs
<1>4. ASSUME NEW k \in Records PROVE NotBehind(k, entry', answer', stale', told)
  <2>1. answer'[k] \in {answer[k], Nothing}  BY <1>1
  <2>2. CASE ~Quiet(ent, ms)
    BY <1>1, <1>4, <2>1, <2>2 DEF NotBehind
  <2>3. CASE Quiet(ent, ms) /\ k \notin tags
    <3>1. k \notin hit /\ k \in DOMAIN ent  BY <1>2, <1>3, <2>3
    <3>2. Invalidated(ent, hit, subs)[k] = ent[k]  BY <3>1 DEF Invalidated
    <3>3. entry'[k] = ent[k]  BY <1>1, <2>3, <3>2
    <3> QED  BY <2>1, <2>3, <3>3, <1>4 DEF NotBehind
  <2>4. CASE Quiet(ent, ms) /\ k \in tags
    <3>1. ent[k].status # "pending"  BY <1>3, <2>4 DEF Quiet
    <3>2. \/ entry'[k] = ent[k] /\ ent[k].status = "uninitialized"
          \/ entry'[k] = Pending(ent[k])
          \/ entry'[k] = Absent
      BY <1>1, <1>2, <1>3, <2>4 DEF Invalidated
    <3>3. entry'[k].status # "ok"
      BY <3>2 DEF Pending, Absent, Cached
    <3>4. answer'[k] = Nothing  BY <1>1, <3>1 DEF StillAsked
    <3> QED  BY <3>3, <3>4 DEF NotBehind
  <2> QED  BY <2>2, <2>3, <2>4
<1>5. Quiet(entry', saves') => stale' = {}
  BY <1>1
<1>6. ASSUME ui' # Nothing PROVE PaneIsCached(entry', ui')
  <2>1. Cached(page, server, entry')  BY <1>1, SweptCache
  <2> QED  BY <1>1, <1>6, <2>1, EffectsShowCached
<1> QED  BY <1>4, <1>5, <1>6

(* Every step.  Only an answer to a save tells the browser of a write.     *)
LEMMA StepTold ==
    ASSUME IInv, Told, [Next]_vars PROVE Told'
<1> DEFINE Behaved(ent, tags, u, told) ==
        /\ Cached(page, server, ent)
        /\ u # Nothing => Entered(page, server, u)
        /\ \A k \in Records : NotBehind(k, ent, answer, tags, told)
<1>0. /\ page \in Pages /\ Stored(page, server) /\ Cached(page, server, entry)
      /\ Answers(page, server, answer) /\ Requests(page, server, saves)
      /\ ui # Nothing => Entered(page, server, ui)
  BY DEF IInv, Consistent
<1>1. ASSUME NEW ent, NEW ms, NEW tags, NEW u, Settle(ent, ms, tags, u),
             Behaved(ent, tags, u, saved'), UNCHANGED server,
             DOMAIN saved' = Records,
             \A k \in Records : saved'[k] \in Nat /\ saved'[k] <= server[k].rev
      PROVE  Told'
  <2>1. DOMAIN answer = Records  BY <1>0 DEF Answers
  <2>2. /\ \A k \in Records : NotBehind(k, entry', answer', stale', saved')
        /\ Quiet(entry', saves') => stale' = {}
        /\ ui' # Nothing => PaneIsCached(entry', ui')
    BY <1>0, <1>1, <2>1, SettledTold
  <2> QED  BY <1>1, <2>2 DEF Told
<1>2. ASSUME NEW subs PROVE Behaved(Subscribed(entry, subs), stale, Nothing, saved)
  <2>1. Cached(page, server, Subscribed(entry, subs))  BY <1>0, AskedCache
  <2>2. ASSUME NEW k \in Records
        PROVE  NotBehind(k, Subscribed(entry, subs), answer, stale, saved)
    <3>1. Subscribed(entry, subs)[k] \in {entry[k], Pending(entry[k])}
      BY <1>0 DEF Subscribed, Cached
    <3>2. Pending(entry[k]).status = "pending"  BY <1>0 DEF Pending, Cached
    <3> QED  BY <3>1, <3>2 DEF Told, NotBehind
  <2> QED  BY <2>1, <2>2
<1>3. CASE User
  <2>1. ASSUME NEW sel \in Records \cup {NoRecord}, Open(sel) PROVE Told'
    <3> DEFINE u == [sel |-> sel, pane |-> Nothing, form |-> <<>>, loaded |-> NoRecord,
                     option |-> <<>>, rev |-> 0, touched |-> {}]
               ent == Subscribed(entry, Subscriptions(sel))
    <3>1. Entered(page, server, u)  BY <2>1 DEF Entered
    <3>2. Settle(ent, saves, stale, u) /\ UNCHANGED <<server, saved>>  BY <2>1 DEF Open
    <3> HIDE DEF u
    <3>3. Behaved(ent, stale, u, saved')  BY <1>2, <3>1, <3>2
    <3> HIDE DEF ent, Behaved
    <3> QED  BY <1>1, <3>2, <3>3 DEF Told
  <2>2. CASE Leave
    <3>1. ui' = Nothing /\ saves' = {[m EXCEPT !.here = FALSE] : m \in saves}
          /\ UNCHANGED <<server, entry, answer, stale, saved>>
      BY <2>2 DEF Leave
    <3>2. Quiet(entry', saves') => Quiet(entry, saves)  BY <3>1 DEF Quiet
    <3> QED  BY <3>1, <3>2 DEF Told
  <2>3. ASSUME NEW r \in Records, (SelectFirst /\ r = First) \/ Select(r) PROVE Told'
    <3> DEFINE u == [ui EXCEPT !.sel = r]
    <3>1. ui # Nothing /\ Entered(page, server, ui)
      BY <1>0, <2>3 DEF SelectFirst, Select
    <3>2. /\ DOMAIN u = DOMAIN ui /\ u.sel = r /\ u.pane = ui.pane /\ u.form = ui.form
          /\ u.loaded = ui.loaded /\ u.option = ui.option /\ u.rev = ui.rev
          /\ u.touched = ui.touched
      BY <3>1 DEF Entered
    <3>3. PICK subs : /\ Settle(Subscribed(entry, subs), saves, stale, u)
                      /\ UNCHANGED <<server, saved>>
      BY <2>3 DEF SelectFirst, Select
    <3> HIDE DEF u
    <3>4. Entered(page, server, u)  BY <3>1, <3>2 DEF Entered
    <3>5. Behaved(Subscribed(entry, subs), stale, u, saved')  BY <1>2, <3>3, <3>4
    <3> HIDE DEF Behaved
    <3> QED  BY <1>1, <3>3, <3>5 DEF Told
  <2>4. ASSUME NEW f, NEW v, Type(f, v) PROVE Told'
    <3>1. /\ ui # Nothing /\ ui'.sel = ui.sel /\ ui'.pane = ui.pane
          /\ UNCHANGED <<server, entry, answer, saves, stale, saved>>
      BY <1>0, <2>4 DEF Type, Entered
    <3> QED  BY <3>1 DEF Told, PaneIsCached
  <2>5. CASE Save
    <3>1. saves' # {} /\ UNCHANGED <<server, entry, answer, stale, ui, saved>>
      BY <2>5 DEF Save
    <3> QED  BY <3>1 DEF Told, Quiet
  <2> QED  BY <1>3, <2>1, <2>2, <2>3, <2>4, <2>5, FirstListed DEF User
<1>4. CASE Network
  <2>1. ASSUME NEW m \in saves, ServerSaves(m) PROVE Told'
    <3>1. /\ server' = [server EXCEPT ![m.id] = Written(m.id, TrimSpace(m.patch))]
          /\ saves' # {} /\ UNCHANGED <<entry, answer, stale, ui, saved>>
      BY <2>1 DEF ServerSaves
    <3>2. m.id \in Records /\ Moments(m.patch)  BY <1>0 DEF Requests, Requested
    <3>3. Grown(server, server')  BY <1>0, <3>1, <3>2, MergeGrows, TrimmedMoments
    <3> QED  BY <1>0, <3>1, <3>3 DEF Told, Quiet, Grown, Stored
  <2>2. ASSUME NEW m \in saves, SaveAnswered(m) PROVE Told'
    <3> DEFINE u == IF m.here THEN FormLoaded(ui, m.id, m.rec) ELSE ui
               tags == stale \cup Invalidates(m.id)
    <3>1. /\ Settle(entry, saves \ {m}, tags, u)
          /\ saved' = [saved EXCEPT ![m.id] = IF m.rec.rev > @ THEN m.rec.rev ELSE @]
          /\ UNCHANGED server
      BY <2>2 DEF SaveAnswered
    <3>2. m.id \in Records /\ Copy(page, server, m.id, m.rec)
      BY <1>0, <2>2 DEF SaveAnswered, Requests, Requested
    <3>3. u # Nothing => Entered(page, server, u)
      <4>1. CASE m.here
        <5>1. Entered(page, server, ui)  BY <4>1 DEF IInv, Consistent
        <5> QED  BY <1>0, <3>2, <4>1, <5>1, LoadedForm
      <4> QED  BY <1>0, <4>1
    <3>4. DOMAIN saved' = Records
          /\ \A k \in Records : saved'[k] \in Nat /\ saved'[k] <= server[k].rev
      BY <3>1, <3>2 DEF Told, Copy
    <3>5. ASSUME NEW k \in Records PROVE NotBehind(k, entry, answer, tags, saved')
      BY <3>1 DEF Told, NotBehind, Invalidates
    <3> HIDE DEF u, tags
    <3>6. Behaved(entry, tags, u, saved')  BY <1>0, <3>3, <3>5
    <3> HIDE DEF Behaved
    <3> QED  BY <1>1, <3>1, <3>4, <3>6
  <2>3. ASSUME NEW m \in saves, SaveFails(m) PROVE Told'
    <3> DEFINE tags == stale \cup Invalidates(m.id)
    <3>1. Settle(entry, saves \ {m}, tags, ui) /\ UNCHANGED <<server, saved>>
      BY <2>3 DEF SaveFails
    <3>2. Behaved(entry, tags, ui, saved')  BY <1>0, <3>1 DEF Told, NotBehind
    <3> HIDE DEF tags, Behaved
    <3> QED  BY <1>1, <3>1, <3>2 DEF Told
  <2>4. ASSUME NEW k \in Records, ServerReads(k) PROVE Told'
    <3>1. /\ answer' = [answer EXCEPT ![k] = server[k]]
          /\ UNCHANGED <<server, entry, saves, stale, ui, saved>>
      BY <2>4 DEF ServerReads
    <3>2. \A r \in Records : answer'[r] = IF r = k THEN server[k] ELSE answer[r]
      BY <1>0, <3>1 DEF Answers
    <3>3. \A r \in Records : NotBehind(r, entry, answer', stale, saved)
      BY <1>0, <3>2 DEF Told, NotBehind, Stored
    <3> QED  BY <3>1, <3>3 DEF Told
  <2>5. ASSUME NEW k \in Records, QueryAnswered(k) PROVE Told'
    <3> DEFINE ent == [entry EXCEPT ![k] = Loaded(answer[k])]
    <3>1. answer[k] # Nothing /\ Settle(ent, saves, stale, ui) /\ UNCHANGED <<server, saved>>
      BY <2>5 DEF QueryAnswered
    <3>2. Cached(page, server, ent)
      BY <1>0, <3>1, ChangedCache DEF Answers
    <3>3. \A r \in Records : ent[r] = IF r = k THEN Loaded(answer[k]) ELSE entry[r]
      BY <1>0 DEF Cached
    <3> HIDE DEF ent
    <3>4. \A r \in Records : NotBehind(r, ent, answer, stale, saved)
      BY <3>1, <3>3 DEF Told, NotBehind, Loaded
    <3>5. Behaved(ent, stale, ui, saved')  BY <1>0, <3>1, <3>2, <3>4
    <3> HIDE DEF Behaved
    <3> QED  BY <1>1, <3>1, <3>5 DEF Told
  <2>6. ASSUME NEW k \in Records, QueryFails(k) PROVE Told'
    <3> DEFINE ent == [entry EXCEPT ![k] = Failed(@)]
    <3>1. Settle(ent, saves, stale, ui) /\ UNCHANGED <<server, saved>>
      BY <2>6 DEF QueryFails
    <3>2. Cached(page, server, ent)  BY <1>0, ChangedCache
    <3>3. \A r \in Records : ent[r] = IF r = k THEN Failed(entry[k]) ELSE entry[r]
      BY <1>0 DEF Cached
    <3>4. Failed(entry[k]).status # "ok"  BY <1>0 DEF Failed, Cached
    <3> HIDE DEF ent
    <3>5. \A r \in Records : NotBehind(r, ent, answer, stale, saved)
      BY <3>3, <3>4 DEF Told, NotBehind
    <3>6. Behaved(ent, stale, ui, saved')  BY <1>0, <3>1, <3>2, <3>5
    <3> HIDE DEF Behaved
    <3> QED  BY <1>1, <3>1, <3>6 DEF Told
  <2>7. ASSUME NEW k \in Records, Expire(k) PROVE Told'
    <3>1. /\ entry[k].status \in {"ok", "error"}
          /\ entry' = [entry EXCEPT ![k] = Absent]
          /\ UNCHANGED <<server, answer, saves, stale, ui, saved>>
      BY <2>7 DEF Expire
    <3>2. /\ DOMAIN entry' = Records
          /\ \A r \in Records : entry'[r] = IF r = k THEN Absent ELSE entry[r]
      BY <1>0, <3>1 DEF Cached
    <3>3. Quiet(entry', saves') => Quiet(entry, saves)
      BY <1>0, <3>1, <3>2 DEF Quiet, Cached
    <3>4. \A r \in Records : NotBehind(r, entry', answer, stale, saved)
      BY <3>2 DEF Told, NotBehind, Absent
    <3>5. ui # Nothing => PaneIsCached(entry', ui)
      BY <3>2 DEF Told, PaneIsCached, Absent
    <3> QED  BY <3>1, <3>3, <3>4, <3>5 DEF Told
  <2> QED  BY <1>4, <2>1, <2>2, <2>3, <2>4, <2>5, <2>6, <2>7 DEF Network
<1>5. ASSUME NEW r \in Records, NEW f, ForeignSave(r, f) PROVE Told'
  <2> DEFINE patch == [g \in {f} |-> "c"]
  <2>1. /\ server' = [server EXCEPT ![r] = Written(r, patch)]
        /\ UNCHANGED <<entry, answer, saves, stale, ui, saved>>
    BY <1>5 DEF ForeignSave
  <2>0. Moments(patch)  BY DEF Moments
  <2> HIDE DEF patch
  <2>2. Grown(server, server')  BY <1>0, <2>0, <2>1, MergeGrows
  <2> QED  BY <1>0, <2>1, <2>2 DEF Told, Quiet, Grown, Stored
<1>6. CASE UNCHANGED vars  BY <1>6 DEF vars, Told
<1> QED  BY <1>3, <1>4, <1>5, <1>6 DEF Next

-----------------------------------------------------------------------------
(* Whatever a page, its cache and the requests of the browser hold of a    *)
(* record is a copy of it at the write it names.                           *)
THEOREM BrowserConsistent == Spec => []IInv
<1>1. Init => IInv  BY InitConsistent
<1>2. IInv /\ [Next]_vars => IInv'  BY StepConsistent
<1> QED  BY <1>1, <1>2, PTL DEF Spec

(* However records are selected, loaded, lost and refetched, handleSave    *)
(* sends a form under the id of another record only while the selected one *)
(* has never been shown.                                                   *)
THEOREM FormsBelongToTheirRecord == Spec => []ForeignFormOnlyUnloaded
<1>1. IInv => ForeignFormOnlyUnloaded
  BY DEF IInv, Consistent, Requests, Requested, ForeignFormOnlyUnloaded
<1> QED  BY <1>1, BrowserConsistent, PTL

(* The label of an asynchronous select is that of the value the form would *)
(* save, whatever the order of loading, typing and saving.                 *)
THEOREM LabelsAlwaysNameTheForm == Spec => []LabelsNameTheForm
<1>1. IInv => LabelsNameTheForm
  <2> SUFFICES ASSUME IInv, ui # Nothing, ui.pane # Nothing,
                      NEW f \in Kind.refs \cap Tracked
               PROVE  f \in DOMAIN ui.option /\ ui.option[f] = ui.form[f]
    BY DEF LabelsNameTheForm
  <2>1. Labelled(page, ui.form, ui.option)
    BY DEF IInv, Consistent, Entered, Rendered
  <2>2. f \in RefsOfPage(page)  BY DEF RefsOfPage, Kind
  <2> QED  BY <2>1, <2>2 DEF Labelled
<1> QED  BY <1>1, BrowserConsistent, PTL

(* The step in which the server merges a request changes the record as the *)
(* request says.                                                           *)
LEMMA MergeStep ==
    ASSUME IInv, Next, NEW m \in saves, m.at = "sent", m.of = m.id,
           m.rev = server[m.id].rev, server'[m.id].rev # server[m.id].rev,
           NEW n \in saves', n.at = "done", [n EXCEPT !.at = "sent", !.rec = Nothing] = m
    PROVE  \E o \in saves : /\ server' = [server EXCEPT ![o.id] = Written(o.id, TrimSpace(o.patch))]
                            /\ o.id = m.id /\ o.patch = m.patch
<1> DEFINE back == [n EXCEPT !.at = "sent", !.rec = Nothing]
<1>1. \A o \in saves : Requested(page, server, o)  BY DEF IInv, Consistent, Requests
<1>2. IInv'  BY StepConsistent
<1>3. Requested(page', server', n)  BY <1>2 DEF IInv, Consistent, Requests
<1>4. /\ back.id = n.id /\ back.patch = n.patch /\ back.of = n.of /\ back.rev = n.rev
  BY <1>3 DEF Requested, SaveFields
<1>5. back = m  OBVIOUS
<1> HIDE DEF back
<1>6. n.id = m.id /\ n.patch = m.patch /\ n.of = m.of /\ n.rev = m.rev  BY <1>4, <1>5
<1>7. n \notin saves
  BY <1>1, <1>6 DEF Requested
<1>8. PICK o \in saves : ServerSaves(o)
  <2>1. CASE User
    <3>1. server' = server
      BY <2>1 DEF User, Open, Leave, SelectFirst, Select, Type, Save
    <3> QED  BY <3>1
  <2>2. ASSUME NEW o \in saves, SaveAnswered(o) \/ SaveFails(o) PROVE FALSE
    BY <2>2 DEF SaveAnswered, SaveFails
  <2>3. ASSUME NEW k \in Records,
               ServerReads(k) \/ QueryAnswered(k) \/ QueryFails(k) \/ Expire(k)
        PROVE  FALSE
    BY <2>3 DEF ServerReads, QueryAnswered, QueryFails, Expire
  <2>4. ASSUME NEW r \in Records, NEW f, ForeignSave(r, f) PROVE FALSE
    BY <2>4, <1>7 DEF ForeignSave
  <2> QED  BY <2>1, <2>2, <2>3, <2>4 DEF Next, Network
<1> DEFINE done == [o EXCEPT !.at = "done", !.rec = server'[o.id]]
<1>9. /\ server' = [server EXCEPT ![o.id] = Written(o.id, TrimSpace(o.patch))]
      /\ saves' = (saves \ {o}) \cup {done}
  BY <1>8 DEF ServerSaves
<1>10. done.id = o.id /\ done.patch = o.patch
  BY <1>1 DEF Requested, SaveFields
<1>11. n = done  BY <1>7, <1>9
<1> HIDE DEF done
<1> QED  BY <1>6, <1>9, <1>10, <1>11

(* A save that was answered is shown: when nothing is under way, the pane  *)
(* of the selected record, if it could be read at all, is at the newest    *)
(* write that this browser was told of, or a later one.                    *)
THEOREM SavesAreShown == Spec => []OwnSavesShown
<1>1. Init => Told
  <2> SUFFICES ASSUME Init PROVE Told  OBVIOUS
  <2>1. /\ DOMAIN saved = Records /\ stale = {} /\ ui = Nothing
        /\ \A k \in Records : saved[k] = 0 /\ server[k].rev = 0
                               /\ entry[k] = Absent /\ answer[k] = Nothing
    BY InitStored DEF Init
  <2> QED  BY <2>1 DEF Told, NotBehind, Absent
<1>2. IInv /\ Told /\ [Next]_vars => Told'  BY StepTold
<1>3. Told => OwnSavesShown
  BY DEF Told, OwnSavesShown, PaneIsCached, NotBehind
<1> QED  BY <1>1, <1>2, <1>3, BrowserConsistent, PTL DEF Spec

(* A whole form is sent, but a save of a form that was made of the newest  *)
(* write changes nothing that the user has not touched, but for what its   *)
(* way there and back does to it: a date loses its seconds, and moves an   *)
(* hour on if Moscow was at +04:00 then; a text loses the blanks around    *)
(* it; a coordinate that is left empty becomes 0.                          *)
THEOREM SavesKeepUntouchedFields == Spec => UntouchedFieldsKept
<1> DEFINE Kept(m) ==
      m.at = "sent" /\ m.of = m.id /\ m.rev = server[m.id].rev
      /\ server'[m.id].rev # server[m.id].rev
      /\ (\E n \in saves' : n.at = "done" /\ [n EXCEPT !.at = "sent", !.rec = Nothing] = m)
        => \A f \in Fields \ (m.touched \cup {"morePoints"}) :
              Resaved(f, server[m.id].val[f], server'[m.id].val[f])
<1>1. ASSUME IInv, Next, NEW m \in saves PROVE Kept(m)
  <2> SUFFICES ASSUME m.at = "sent", m.of = m.id, m.rev = server[m.id].rev,
                      server'[m.id].rev # server[m.id].rev,
                      NEW n \in saves', n.at = "done",
                      [n EXCEPT !.at = "sent", !.rec = Nothing] = m,
                      NEW f \in Fields \ (m.touched \cup {"morePoints"})
               PROVE  Resaved(f, server[m.id].val[f], server'[m.id].val[f])
    BY <1>1
  <2> DEFINE sent == TrimSpace(m.patch)
             val == server[m.id].val
  <2>1. server' = [server EXCEPT ![m.id] = Written(m.id, sent)]
    BY <1>1, MergeStep
  <2>2. /\ m.id \in Records
        /\ Sends(page, val, m.patch, m.touched)
        /\ Stored(page, server) /\ page \in Pages
        /\ Moments(sent)
    BY <1>1, TrimmedMoments DEF IInv, Consistent, Requests, Requested
  <2> HIDE DEF sent
  <2>3. server'[m.id].val = Merged(sent, val)
    BY <2>1, <2>2, MergeGrows
  <2>4. f \in FormOfPage(page) \ m.touched  BY DEF Fields, FormOfPage, Kind
  <2>5. /\ f \in DOMAIN m.patch
        /\ \/ m.patch[f] = AsSent(f, val)
           \/ f \in {"latitude", "longitude"} /\ val[f] = "" /\ m.patch[f] = "0"
    BY <2>2, <2>4 DEF Sends
  <2>6. f \in DOMAIN sent  BY <2>5 DEF sent, TrimSpace
  <2>7. server'[m.id].val[f] = sent[f]  BY <2>3, <2>6 DEF Merged
  <2>8. f \in DOMAIN val /\ Moments(val)  BY <2>2, <2>4 DEF Stored
  <2> HIDE DEF val
  <2>9. Resaved(f, val[f], sent[f])  BY <2>5, <2>8, ResavedOnly DEF sent
  <2> QED  BY <2>7, <2>9 DEF val
<1>2. IInv /\ [Next]_vars => [\A m \in saves : Kept(m)]_vars
  BY <1>1
<1> QED  BY <1>2, BrowserConsistent, PTL DEF UntouchedFieldsKept, Spec
=============================================================================
