-------------------------- MODULE TicketPageProofs --------------------------
(***************************************************************************)
(* The page of a ticket, for every set of tickets and for every number of  *)
(* photographs, submissions, failures and moves: that what it shows when   *)
(* it has come to rest is what the server has, that a form is not carried  *)
(* to another ticket, that a report closes a ticket with its photographs,  *)
(* and that each of these is stored once.                                  *)
(*                                                                         *)
(* The operators of the invariants have what they speak of as parameters,  *)
(* so that they can be said of the state before and after a step, and of   *)
(* what a step hands to Settle, alike.                                     *)
(***************************************************************************)
EXTENDS TicketPage, FiniteSetTheorems, WellFoundedInduction, TLAPS

-----------------------------------------------------------------------------
(* The types.                                                              *)

IsPatch(q) ==
    /\ DOMAIN q \subseteq {"status", "executor", "text"}
    /\ "status" \in DOMAIN q =>
          q["status"] \in {"created", "assigned", "inWork", "worksDone", "closed"}
    /\ "executor" \in DOMAIN q => q["executor"] \in {Me, Other, NoUser}
    /\ "text" \in DOMAIN q => q["text"] \in {"", "typed", "done", "theirs"}

IsEntry(e) ==
    /\ e \in [status : {"uninitialized", "pending", "ok", "error"},
              data : TicketState \cup {Nothing}]
    /\ e.status = "ok" => e.data \in TicketState

IsCache(ent) == DOMAIN ent = Tickets /\ \A k \in Tickets : IsEntry(ent[k])

(* What the three kinds of calls have in common, and the rest of them.     *)
Shared == {"kind", "t", "at", "rev", "here", "job"}

IsCall(c) ==
    /\ c.t \in Tickets /\ c.at \in {"sent", "done"} /\ c.here \in BOOLEAN
    /\ c.rev \in Nat /\ c.job \in Nat
    /\ \/ /\ c.kind = "patch"
          /\ DOMAIN c = Shared \cup {"patch", "undo", "form", "no"}
          /\ IsPatch(c.patch) /\ IsPatch(c.undo)
          /\ c.form \in {Nothing, c.t}
       \/ /\ c.kind = "upload"
          /\ DOMAIN c = Shared \cup {"photo", "id", "turn"}
          /\ c.photo \in Photos /\ c.id \in Nat /\ c.turn \in 0..3
       \/ /\ c.kind = "delete"
          /\ DOMAIN c = Shared \cup {"photo", "id"}
          /\ c.photo \in Photos /\ c.id \in Nat

IsJob(j, us) ==
    /\ DOMAIN j = {"no", "t", "keep", "todo", "failed", "here"}
    /\ j.no \in 1..us.submits
    /\ j.t \in Tickets
    /\ j.keep \in [DOMAIN j.keep -> Preview] /\ DOMAIN j.keep \subseteq 1..us.photos
    /\ j.todo \subseteq DOMAIN j.keep
    /\ j.failed \in BOOLEAN /\ j.here \in BOOLEAN

IsPage(u, us) ==
    /\ u \in PageState(DOMAIN u.previews)
    /\ DOMAIN u.previews \subseteq 1..us.photos
    /\ u.sheet = "report" => u.pane \in PaneState
    /\ u.form # Nothing => u.pane \in PaneState /\ u.form = u.pane.id

IsUse(us) ==
    us \in [turmoil : Nat, acts : Nat, submits : Nat, photos : 0..MaxPhotos, ids : Nat]

IsSeen(sn) ==
    sn \in [confirmed : [Tickets -> Nat], copies : [Photos -> Nat \ {0}],
            removed : SUBSET Photos, unsure : SUBSET Photos, carried : SUBSET Photos]

Types ==
    /\ DOMAIN writes = Tickets
    /\ \A t \in Tickets : writes[t] \in Seq(TicketState) /\ writes[t] # <<>>
    /\ IsCache(entry)
    /\ DOMAIN answer = Tickets
    /\ \A k \in Tickets : answer[k] \in TicketState \cup {Nothing}
    /\ stale \subseteq Tickets
    /\ \A c \in calls : IsCall(c)
    /\ \A j \in jobs : IsJob(j, used)
    /\ ui # Nothing => IsPage(ui, used)
    /\ IsUse(used)
    /\ IsSeen(seen)

-----------------------------------------------------------------------------
(* The data.                                                               *)

LEMMA PatchTyped ==
    ASSUME NEW q, IsPatch(q), NEW d \in TicketState
    PROVE  /\ Patched(q, d) \in TicketState
           /\ Patched(q, d).photos = d.photos
           /\ "status" \notin DOMAIN q => Patched(q, d).status = d.status
<1> DEFINE r == [f \in DOMAIN q \cup DOMAIN d |-> IF f \in DOMAIN q THEN q[f] ELSE d[f]]
<1>1. Patched(q, d) = r  BY DEF Patched
<1>2. DOMAIN r = {"status", "executor", "text", "photos"}
  BY DEF IsPatch, TicketState
<1>3. /\ r.status = IF "status" \in DOMAIN q THEN q["status"] ELSE d.status
      /\ r.executor = IF "executor" \in DOMAIN q THEN q["executor"] ELSE d.executor
      /\ r.text = IF "text" \in DOMAIN q THEN q["text"] ELSE d.text
      /\ r.photos = d.photos
  BY <1>2 DEF IsPatch
<1>4. r = [status |-> r.status, executor |-> r.executor, text |-> r.text, photos |-> r.photos]
  BY <1>2
<1> HIDE DEF r
<1> QED  BY <1>1, <1>3, <1>4 DEF IsPatch, TicketState

LEMMA DraftTyped ==
    ASSUME NEW e, IsEntry(e), NEW q, IsPatch(q)
    PROVE  IsEntry(Drafted(e, q)) /\ Drafted(e, q).status = e.status
<1>1. CASE e.data = Nothing  BY <1>1 DEF Drafted
<1>2. CASE e.data # Nothing
  <2>1. e.data \in TicketState  BY <1>2 DEF IsEntry
  <2>2. Patched(q, e.data) \in TicketState  BY <2>1, PatchTyped
  <2>3. Drafted(e, q) = [e EXCEPT !.data = Patched(q, e.data)]  BY <1>2 DEF Drafted
  <2> QED  BY <2>2, <2>3 DEF IsEntry
<1> QED  BY <1>1, <1>2

LEMMA UndoTyped ==
    ASSUME NEW e, IsEntry(e), NEW q, IsPatch(q)
    PROVE  IsPatch(UndoOf(e, q))
<1>1. CASE e.data = Nothing
  <2>1. UndoOf(e, q) = <<>>  BY <1>1 DEF UndoOf
  <2>2. DOMAIN UndoOf(e, q) = {}  BY <2>1
  <2> QED  BY <2>2 DEF IsPatch
<1>2. CASE e.data # Nothing
  <2> DEFINE D == {g \in DOMAIN q : e.data[g] # q[g]}
             r == [f \in D |-> e.data[f]]
  <2>1. UndoOf(e, q) = r  BY <1>2 DEF UndoOf
  <2>2. e.data \in TicketState  BY <1>2 DEF IsEntry
  <2>3. DOMAIN r = D /\ D \subseteq {"status", "executor", "text"}  BY DEF IsPatch
  <2>4. \A f \in D : r[f] = e.data[f]  OBVIOUS
  <2>5. /\ e.data["status"] \in {"created", "assigned", "inWork", "worksDone", "closed"}
        /\ e.data["executor"] \in {Me, Other, NoUser}
        /\ e.data["text"] \in {"", "typed", "done", "theirs"}
    BY <2>2 DEF TicketState
  <2> HIDE DEF D, r
  <2> QED  BY <2>1, <2>3, <2>4, <2>5 DEF IsPatch
<1> QED  BY <1>1, <1>2

(* What a mutation that starts makes of the cache and of itself.           *)
LEMMA OptimisticTyped ==
    ASSUME NEW ent, IsCache(ent), NEW new, new = {} \/ \E c : new = {c},
           \A c \in new : IsCall(c)
    PROVE  /\ IsCache(Optimistic(new, ent))
           /\ \A k \in Tickets :
                 /\ Optimistic(new, ent)[k].status = ent[k].status
                 /\ (\A c \in new : c.t # k) => Optimistic(new, ent)[k] = ent[k]
<1> DEFINE opt == Optimistic(new, ent)
<1>1. ASSUME NEW k \in Tickets
      PROVE  /\ IsEntry(opt[k]) /\ opt[k].status = ent[k].status
             /\ (\A c \in new : c.t # k) => opt[k] = ent[k]
  <2>1. CASE \E c \in new : c.kind = "patch" /\ c.t = k
    <3>1. PICK c : new = {c} /\ c.kind = "patch" /\ c.t = k  BY <2>1
    <3>2. (CHOOSE d \in new : d.t = k) = c  BY <3>1
    <3>3. opt[k] = Drafted(ent[k], c.patch)  BY <2>1, <3>2 DEF Optimistic
    <3>4. IsPatch(c.patch)  BY <3>1 DEF IsCall
    <3>5. IsEntry(ent[k])  BY DEF IsCache
    <3> HIDE DEF opt
    <3> QED  BY <3>1, <3>3, <3>4, <3>5, DraftTyped
  <2>2. CASE ~\E c \in new : c.kind = "patch" /\ c.t = k
    BY <2>2 DEF Optimistic, IsCache
  <2> QED  BY <2>1, <2>2
<1>2. DOMAIN opt = Tickets  BY DEF Optimistic
<1> HIDE DEF opt
<1>3. IsCache(opt)  BY <1>1, <1>2 DEF IsCache
<1> QED  BY <1>1, <1>3 DEF opt

LEMMA StartedTyped ==
    ASSUME NEW c, IsCall(c), NEW ent, IsCache(ent)
    PROVE  /\ IsCall(Started(c, ent))
           /\ DOMAIN Started(c, ent) = DOMAIN c
           /\ \A f \in DOMAIN c \ {"undo"} : Started(c, ent)[f] = c[f]
<1>1. CASE c.kind = "patch"
  <2> DEFINE undo == UndoOf(ent[c.t], c.patch)
  <2>1. IsPatch(undo)  BY <1>1, UndoTyped DEF IsCall, IsCache
  <2>2. Started(c, ent) = [c EXCEPT !.undo = undo]  BY <1>1 DEF Started
  <2> HIDE DEF undo
  <2> DEFINE s == [c EXCEPT !.undo = undo]
  <2>3. DOMAIN s = DOMAIN c /\ \A f \in DOMAIN c \ {"undo"} : s[f] = c[f]
    OBVIOUS
  <2>4. s.undo = undo  BY <1>1 DEF IsCall
  <2>5. DOMAIN c = Shared \cup {"patch", "undo", "form", "no"}  BY <1>1 DEF IsCall
  <2>6. /\ s.t = c.t /\ s.at = c.at /\ s.here = c.here /\ s.rev = c.rev /\ s.job = c.job
        /\ s.kind = c.kind /\ s.patch = c.patch /\ s.form = c.form
    BY <2>3, <2>5 DEF Shared
  <2> HIDE DEF s
  <2>7. IsCall(s)  BY <1>1, <2>1, <2>3, <2>4, <2>5, <2>6 DEF IsCall
  <2> QED  BY <2>2, <2>3, <2>7 DEF s
<1>2. CASE c.kind # "patch"  BY <1>2 DEF Started
<1> QED  BY <1>1, <1>2

(* What the sweep of the stale tags makes of an entry.                     *)
LEMMA SweptEntry ==
    ASSUME NEW ent, IsCache(ent), NEW hit, NEW subs
    PROVE  /\ IsCache(Invalidated(ent, hit, subs))
           /\ \A k \in Tickets :
                 /\ k \notin hit => Invalidated(ent, hit, subs)[k] = ent[k]
                 /\ k \in hit => Invalidated(ent, hit, subs)[k].status # "ok"
<1> DEFINE swept == Invalidated(ent, hit, subs)
<1>1. ASSUME NEW k \in Tickets
      PROVE  /\ IsEntry(swept[k])
             /\ k \notin hit => swept[k] = ent[k]
             /\ k \in hit => swept[k].status # "ok"
  <2>1. swept[k] = IF k \notin hit \/ ent[k].status = "uninitialized" THEN ent[k]
                   ELSE IF k \in subs THEN Pending(ent[k]) ELSE Absent
    BY DEF Invalidated, IsCache
  <2>2. IsEntry(ent[k])  BY DEF IsCache
  <2>3. IsEntry(Pending(ent[k])) /\ Pending(ent[k]).status = "pending"
    BY <2>2 DEF Pending, IsEntry
  <2>4. IsEntry(Absent) /\ Absent.status = "uninitialized"  BY DEF Absent, IsEntry
  <2> HIDE DEF swept
  <2> QED  BY <2>1, <2>2, <2>3, <2>4
<1>2. DOMAIN swept = Tickets  BY DEF Invalidated, IsCache
<1> HIDE DEF swept
<1>3. IsCache(swept)  BY <1>1, <1>2 DEF IsCache
<1> QED  BY <1>1, <1>3 DEF swept

LEMMA AskedEntry ==
    ASSUME NEW ent, IsCache(ent), NEW subs
    PROVE  /\ IsCache(Subscribed(ent, subs))
           /\ \A k \in Tickets : \/ Subscribed(ent, subs)[k] = ent[k]
                                 \/ Subscribed(ent, subs)[k].status = "pending"
<1> DEFINE asked == Subscribed(ent, subs)
<1>1. ASSUME NEW k \in Tickets
      PROVE  IsEntry(asked[k]) /\ (asked[k] = ent[k] \/ asked[k].status = "pending")
  <2>1. asked[k] \in {ent[k], Pending(ent[k])}  BY DEF Subscribed, IsCache
  <2>2. IsEntry(ent[k])  BY DEF IsCache
  <2>3. IsEntry(Pending(ent[k])) /\ Pending(ent[k]).status = "pending"
    BY <2>2 DEF Pending, IsEntry
  <2> HIDE DEF asked
  <2> QED  BY <2>1, <2>2, <2>3
<1>2. DOMAIN asked = Tickets  BY DEF Subscribed, IsCache
<1> HIDE DEF asked
<1>3. IsCache(asked)  BY <1>1, <1>2 DEF IsCache
<1> QED  BY <1>1, <1>3 DEF asked

LEMMA ChangedEntry ==
    ASSUME NEW ent, IsCache(ent), NEW k, NEW e, IsEntry(e)
    PROVE  /\ IsCache([ent EXCEPT ![k] = e])
           /\ k \in Tickets => [ent EXCEPT ![k] = e][k] = e
           /\ \A l \in Tickets \ {k} : [ent EXCEPT ![k] = e][l] = ent[l]
BY DEF IsCache

-----------------------------------------------------------------------------
(* The page.                                                               *)

(* A page that is rendered keeps what it is about, but for its pane; its   *)
(* form goes with the pane, and the previews are marked when the pane      *)
(* becomes that of another ticket.                                         *)
LEMMA EffectsTyped ==
    ASSUME NEW ent, IsCache(ent), NEW u, NEW us, IsUse(us), IsPage(u, us)
    PROVE  LET v == AfterEffects(u, ent)
           IN /\ IsPage(v, us)
              /\ v.t = u.t /\ v.sheet = u.sheet /\ v.removing = u.removing
              /\ u.pane \in PaneState => v.pane \in PaneState
              /\ ent[u.t].status = "ok" => v.pane = [id |-> u.t, rec |-> ent[u.t].data]
              /\ DOMAIN v.previews = DOMAIN u.previews
              /\ \A p \in DOMAIN u.previews :
                    /\ v.previews[p].id = u.previews[p].id
                    /\ v.previews[p].file = u.previews[p].file
                    /\ v.previews[p].turn = u.previews[p].turn
                    /\ u.previews[p].carried => v.previews[p].carried
                    /\ v.previews[p].carried \/ u.pane = Nothing \/ v.pane.id = u.pane.id
<1> DEFINE ps == DOMAIN u.previews
           pane == HookData(u.t, ent, u.pane)
           other == u.pane # Nothing /\ pane # Nothing /\ u.pane.id # pane.id
           form == FormAfter(u, pane)
           prev == Marked(u.previews, other)
           v == [u EXCEPT !.pane = pane, !.form = form, !.previews = prev]
<1>1. AfterEffects(u, ent) = v  BY DEF AfterEffects
<1>2. /\ u \in PageState(ps) /\ ps \subseteq Photos
      /\ u.t \in Tickets /\ IsEntry(ent[u.t])
  <2>1. u \in PageState(ps) /\ ps \subseteq 1..us.photos  BY DEF IsPage
  <2>2. us.photos \in 0..MaxPhotos /\ MaxPhotos \in Nat  BY PageBounds DEF IsUse
  <2>3. 1..us.photos \subseteq Photos  BY <2>2 DEF Photos
  <2> HIDE DEF ps
  <2>4. u.t \in Tickets  BY <2>1 DEF PageState
  <2> QED  BY <2>1, <2>3, <2>4 DEF IsCache
<1>3. /\ pane \in PaneState \cup {Nothing}
      /\ u.pane \in PaneState => pane \in PaneState
      /\ ent[u.t].status = "ok" => pane = [id |-> u.t, rec |-> ent[u.t].data]
  BY <1>2 DEF HookData, IsEntry, PaneState, PageState
<1>4. form \in {u.form, Nothing} /\ (form # Nothing => pane = u.pane /\ form = u.form)
  BY DEF FormAfter
<1>5. u.previews \in [ps -> Preview]  BY <1>2 DEF PageState
<1>6. other \in BOOLEAN  OBVIOUS
<1>7. ASSUME NEW p \in ps
      PROVE  /\ prev[p] \in Preview
             /\ prev[p].id = u.previews[p].id /\ prev[p].file = u.previews[p].file
             /\ prev[p].turn = u.previews[p].turn
             /\ u.previews[p].carried => prev[p].carried
             /\ other => prev[p].carried
  <2>1. u.previews[p] \in Preview  BY <1>5
  <2>2. prev[p] = [u.previews[p] EXCEPT !.carried = @ \/ other]  BY DEF Marked
  <2> HIDE DEF other, prev
  <2> QED  BY <1>6, <2>1, <2>2 DEF Preview
<1>8. prev \in [ps -> Preview]  BY <1>7 DEF Marked
<1>9. u.pane # Nothing => u.pane \in PaneState /\ pane # Nothing
  BY <1>2, <1>3, NothingIsApart DEF PageState
<1>10. other \/ u.pane = Nothing \/ pane.id = u.pane.id  BY <1>9
<1> HIDE DEF pane, form, prev, other
<1>11. /\ v \in PageState(ps) /\ v.pane = pane /\ v.form = form /\ v.previews = prev
       /\ v.t = u.t /\ v.sheet = u.sheet /\ v.removing = u.removing
  BY <1>2, <1>3, <1>4, <1>8 DEF PageState
<1>12. DOMAIN v.previews = ps  BY <1>8, <1>11
<1> HIDE DEF v, ps
<1>13. IsPage(v, us)  BY <1>3, <1>4, <1>11, <1>12 DEF IsPage, ps
<1> QED  BY <1>1, <1>3, <1>7, <1>10, <1>11, <1>12, <1>13 DEF ps

LEMMA PageIsThere ==
    ASSUME NEW us, IsUse(us), NEW u, IsPage(u, us)
    PROVE  u # Nothing /\ u.t \in Tickets /\ DOMAIN u.previews \subseteq Photos
<1>1. us.photos \in 0..MaxPhotos /\ MaxPhotos \in Nat  BY PageBounds DEF IsUse
<1>2. 1..us.photos \subseteq Photos  BY <1>1 DEF Photos
<1>3. DOMAIN u.previews \in SUBSET Photos  BY <1>2 DEF IsPage
<1>4. u \in PageState(DOMAIN u.previews)  BY DEF IsPage
<1>5. u.t \in Tickets  BY <1>4 DEF PageState
<1>6. \A ps \in SUBSET Photos : Nothing \notin PageState(ps)  BY NothingIsApart
<1> QED  BY <1>3, <1>4, <1>5, <1>6

-----------------------------------------------------------------------------
(* What this page was told of.  An entry that may be behind a write that   *)
(* was confirmed, or shows what is not written yet, is that of a ticket    *)
(* with a call under way or with a stale tag; the tags are swept as soon   *)
(* as nothing is pending; and the pane of a ticket that is in the cache    *)
(* shows what the cache has.                                               *)

Recent(conf, wr, k, data) == \E i \in conf[k]..Len(wr[k]) : data = wr[k][i]

NotBehind(k, ent, ans, tags, cs, conf, wr) ==
    \/ k \in tags
    \/ \E c \in cs : c.t = k
    \/ /\ ent[k].status = "ok" => Recent(conf, wr, k, ent[k].data)
       /\ ans[k] # Nothing => Recent(conf, wr, k, ans[k])

PaneIsCached(ent, u) ==
    ent[u.t].status = "ok" => u.pane = [id |-> u.t, rec |-> ent[u.t].data]

Told ==
    /\ \A t \in Tickets : seen.confirmed[t] \in 1..Len(writes[t])
    /\ \A c \in calls : c.at = "done" => c.rev \in 1..Len(writes[c.t])
    /\ \A k \in Tickets : NotBehind(k, entry, answer, stale, calls, seen.confirmed, writes)
    /\ Quiet(entry, calls) => stale = {}
    /\ ui # Nothing => PaneIsCached(entry, ui)

(* What a step may hand to Settle.                                         *)
Settling(ent, cs, tags, u, new, us) ==
    /\ IsCache(ent)
    /\ tags \subseteq Tickets
    /\ \A c \in cs \cup new : IsCall(c)
    /\ new = {} \/ \E c : new = {c}
    /\ IsUse(us)
    /\ u # Nothing => IsPage(u, us)

LEMMA SettleTyped ==
    ASSUME NEW ent, NEW cs, NEW tags, NEW u, NEW new, NEW us,
           Settling(ent, cs, tags, u, new, us),
           \A k \in Tickets : answer[k] \in TicketState \cup {Nothing},
           Settle(ent, cs, tags, u, new)
    PROVE  /\ IsCache(entry')
           /\ DOMAIN answer' = Tickets
           /\ \A k \in Tickets : answer'[k] \in TicketState \cup {Nothing}
           /\ stale' \subseteq Tickets
           /\ \A c \in calls' : IsCall(c)
           /\ ui' = IF u = Nothing THEN Nothing ELSE AfterEffects(u, entry')
           /\ ui' # Nothing => IsPage(ui', us) /\ PaneIsCached(entry', ui')
           /\ Quiet(entry', calls') => stale' = {}
<1> DEFINE swept == IF Quiet(ent, cs) THEN Invalidated(ent, tags, Subscriptions(u)) ELSE ent
<1>1. /\ stale' = IF Quiet(ent, cs) THEN {} ELSE tags
      /\ calls' = cs \cup {Started(c, swept) : c \in new}
      /\ entry' = Optimistic(new, swept)
      /\ ui' = IF u = Nothing THEN Nothing ELSE AfterEffects(u, entry')
      /\ answer' = [k \in Tickets |->
                       IF k \in StillAsked(entry, ent) \cap StillAsked(ent, swept)
                       THEN answer[k] ELSE Nothing]
  BY DEF Settle
<1>2. IsCache(swept)  BY SweptEntry DEF Settling
<1>3. ~Quiet(ent, cs) => swept = ent  OBVIOUS
<1> HIDE DEF swept
<1>4. /\ IsCache(entry')
      /\ \A k \in Tickets : entry'[k].status = swept[k].status
  BY <1>1, <1>2, OptimisticTyped DEF Settling
<1>5. DOMAIN answer' = Tickets /\ \A k \in Tickets : answer'[k] \in {answer[k], Nothing}
  BY <1>1
<1>6. stale' \subseteq Tickets  BY <1>1 DEF Settling
<1>7. \A c \in calls' : IsCall(c)
  BY <1>1, <1>2, StartedTyped DEF Settling
<1>8. ASSUME ui' # Nothing PROVE IsPage(ui', us) /\ PaneIsCached(entry', ui')
  <2>1. u # Nothing /\ ui' = AfterEffects(u, entry')  BY <1>1, <1>8
  <2>2. IsPage(u, us) /\ IsUse(us)  BY <2>1 DEF Settling
  <2>3. /\ IsPage(ui', us) /\ ui'.t = u.t
        /\ entry'[u.t].status = "ok" => ui'.pane = [id |-> u.t, rec |-> entry'[u.t].data]
    BY <1>4, <2>1, <2>2, EffectsTyped
  <2> QED  BY <2>3 DEF PaneIsCached
<1>9. ASSUME Quiet(entry', calls') PROVE stale' = {}
  <2>1. cs = {}  BY <1>1, <1>9 DEF Quiet
  <2>2. \A k \in Tickets : entry'[k].status # "pending"  BY <1>4, <1>9 DEF Quiet, IsCache
  <2>3. CASE Quiet(ent, cs)  BY <1>1, <2>3
  <2>4. CASE ~Quiet(ent, cs)
    <3>1. \E k \in Tickets : ent[k].status = "pending"
      BY <2>1, <2>4 DEF Quiet, Settling, IsCache
    <3> QED  BY <1>3, <1>4, <2>2, <2>4, <3>1
  <2> QED  BY <2>3, <2>4
<1> QED  BY <1>1, <1>4, <1>5, <1>6, <1>7, <1>8, <1>9

LEMMA SettleTold ==
    ASSUME NEW ent, NEW cs, NEW tags, NEW u, NEW new, NEW us,
           Settling(ent, cs, tags, u, new, us),
           Settle(ent, cs, tags, u, new), NEW conf, NEW wr,
           \A k \in Tickets : NotBehind(k, ent, answer, tags, cs \cup new, conf, wr)
    PROVE  \A k \in Tickets : NotBehind(k, entry', answer', stale', calls', conf, wr)
<1> DEFINE swept == IF Quiet(ent, cs) THEN Invalidated(ent, tags, Subscriptions(u)) ELSE ent
<1>1. /\ stale' = IF Quiet(ent, cs) THEN {} ELSE tags
      /\ calls' = cs \cup {Started(c, swept) : c \in new}
      /\ entry' = Optimistic(new, swept)
      /\ answer' = [k \in Tickets |->
                       IF k \in StillAsked(entry, ent) \cap StillAsked(ent, swept)
                       THEN answer[k] ELSE Nothing]
  BY DEF Settle
<1>2. IsCache(ent) /\ IsCache(swept)  BY SweptEntry DEF Settling
<1>3. /\ ~Quiet(ent, cs) => swept = ent
      /\ \A k \in Tickets \ tags : swept[k] = ent[k]
      /\ Quiet(ent, cs) => \A k \in tags \cap Tickets : swept[k].status # "ok"
  BY SweptEntry DEF Settling
<1> HIDE DEF swept
<1>4. /\ \A k \in Tickets :
            /\ entry'[k].status = swept[k].status
            /\ (\A c \in new : c.t # k) => entry'[k] = swept[k]
  BY <1>1, <1>2, OptimisticTyped DEF Settling
<1>5. \A c \in new : Started(c, swept) \in calls' /\ Started(c, swept).t = c.t
  BY <1>1, <1>2, StartedTyped DEF Settling, IsCall, Shared
<1>6. ASSUME NEW k \in Tickets
      PROVE  NotBehind(k, entry', answer', stale', calls', conf, wr)
  <2>1. answer'[k] \in {answer[k], Nothing}  BY <1>1
  <2>2. CASE \E c \in cs \cup new : c.t = k
    BY <1>1, <1>5, <2>2 DEF NotBehind
  <2>3. CASE ~\E c \in cs \cup new : c.t = k
    <3>1. entry'[k] = swept[k]  BY <1>4, <2>3
    <3>2. CASE ~Quiet(ent, cs)
      BY <1>1, <1>3, <1>6, <2>1, <2>3, <3>1, <3>2 DEF NotBehind
    <3>3. CASE Quiet(ent, cs) /\ k \in tags
      <4>1. entry'[k].status # "ok"  BY <1>3, <3>1, <3>3
      <4>2. ent[k].status # "pending"  BY <1>2, <3>3 DEF Quiet, IsCache
      <4>3. answer'[k] = Nothing  BY <1>1, <4>2 DEF StillAsked
      <4> QED  BY <4>1, <4>3 DEF NotBehind
    <3>4. CASE k \notin tags
      BY <1>3, <1>6, <2>1, <2>3, <3>1, <3>4 DEF NotBehind
    <3> QED  BY <3>2, <3>3, <3>4
  <2> QED  BY <2>2, <2>3
<1> QED  BY <1>6

(* What Settle makes of the calls and of the page.                         *)
Resent(m, n) ==
    /\ IsCall(m) /\ DOMAIN m = DOMAIN n
    /\ \A f \in DOMAIN n \ {"undo"} : m[f] = n[f]

Rendered(v, u) ==
    \/ u = Nothing /\ v = Nothing
    \/ /\ u # Nothing /\ v # Nothing
       /\ v.removing = u.removing /\ (u.pane \in PaneState => v.pane \in PaneState)
       /\ DOMAIN v.previews = DOMAIN u.previews
       /\ \A p \in DOMAIN u.previews :
             /\ v.previews[p].id = u.previews[p].id
             /\ v.previews[p].file = u.previews[p].file
             /\ v.previews[p].turn = u.previews[p].turn
             /\ u.previews[p].carried => v.previews[p].carried
             /\ v.previews[p].carried \/ u.pane = Nothing \/ v.pane.id = u.pane.id

Sends(cs, new) ==
    /\ new = {} => calls' = cs
    /\ \A n : new = {n} => \E m : Resent(m, n) /\ calls' = cs \cup {m}

LEMMA SettleShape ==
    ASSUME NEW ent, NEW cs, NEW tags, NEW u, NEW new, NEW us,
           Settling(ent, cs, tags, u, new, us),
           \A k \in Tickets : answer[k] \in TicketState \cup {Nothing},
           Settle(ent, cs, tags, u, new)
    PROVE  Rendered(ui', u) /\ Sends(cs, new)
<1>1. IsCache(entry') /\ ui' = IF u = Nothing THEN Nothing ELSE AfterEffects(u, entry')
  BY SettleTyped
<1>2. Rendered(ui', u)
  <2>1. CASE u = Nothing  BY <1>1, <2>1 DEF Rendered
  <2>2. CASE u # Nothing
    <3>1. IsPage(u, us) /\ IsUse(us) /\ ui' = AfterEffects(u, entry')
      BY <1>1, <2>2 DEF Settling
    <3>2. /\ IsPage(ui', us)
          /\ ui'.removing = u.removing /\ (u.pane \in PaneState => ui'.pane \in PaneState)
          /\ DOMAIN ui'.previews = DOMAIN u.previews
          /\ \A p \in DOMAIN u.previews :
                /\ ui'.previews[p].id = u.previews[p].id
                /\ ui'.previews[p].file = u.previews[p].file
                /\ ui'.previews[p].turn = u.previews[p].turn
                /\ u.previews[p].carried => ui'.previews[p].carried
                /\ ui'.previews[p].carried \/ u.pane = Nothing \/ ui'.pane.id = u.pane.id
      <4> DEFINE e == entry'
                 v == AfterEffects(u, e)
      <4>1. IsCache(e)  BY <1>1
      <4>2. ui' = v  BY <3>1
      <4> HIDE DEF e
      <4>3. /\ IsPage(v, us)
              /\ v.removing = u.removing /\ (u.pane \in PaneState => v.pane \in PaneState)
              /\ DOMAIN v.previews = DOMAIN u.previews
              /\ \A p \in DOMAIN u.previews :
                    /\ v.previews[p].id = u.previews[p].id
                    /\ v.previews[p].file = u.previews[p].file
                    /\ v.previews[p].turn = u.previews[p].turn
                    /\ u.previews[p].carried => v.previews[p].carried
                    /\ v.previews[p].carried \/ u.pane = Nothing \/ v.pane.id = u.pane.id
        BY ONLY <3>1, <4>1, EffectsTyped
      <4> HIDE DEF v
      <4> QED  BY <4>2, <4>3
    <3>3. ui' # Nothing  BY <3>1, <3>2, PageIsThere
    <3> QED  BY <2>2, <3>2, <3>3 DEF Rendered
  <2> QED  BY <2>1, <2>2
<1>3. PICK swept : IsCache(swept) /\ calls' = cs \cup {Started(d, swept) : d \in new}
  BY SweptEntry DEF Settle, Settling
<1>4. new = {} => calls' = cs  BY <1>3
<1>5. ASSUME NEW n, new = {n} PROVE \E m : Resent(m, n) /\ calls' = cs \cup {m}
  <2>1. IsCall(n)  BY <1>5 DEF Settling
  <2>2. Resent(Started(n, swept), n)  BY <1>3, <2>1, StartedTyped DEF Resent
  <2>3. calls' = cs \cup {Started(n, swept)}  BY <1>3, <1>5
  <2> QED  BY <2>2, <2>3
<1> QED  BY <1>2, <1>4, <1>5 DEF Sends

-----------------------------------------------------------------------------
(* What uses the bounds up only grows.                                     *)

Grows(us, vs) ==
    /\ IsUse(us) /\ IsUse(vs)
    /\ us.submits <= vs.submits /\ us.photos <= vs.photos /\ us.ids <= vs.ids

LEMMA UseGrows ==
    ASSUME IsUse(used), NEW what \in {"turmoil", "acts", "submits"}, NEW max, Use(what, max)
    PROVE  /\ Grows(used, used') /\ used'.photos = used.photos /\ used'.ids = used.ids
           /\ used'.submits = used.submits + (IF what = "submits" THEN 1 ELSE 0)
<1>1. used' = [used EXCEPT ![what] = used[what] + 1]  BY DEF Use
<1>2. used[what] \in Nat  BY DEF IsUse
<1> QED  BY <1>1, <1>2 DEF Grows, IsUse

LEMMA Unused ==
    ASSUME IsUse(used), UNCHANGED used PROVE Grows(used, used')
BY DEF Grows, IsUse

LEMMA GrownTyped ==
    ASSUME NEW us, NEW vs, Grows(us, vs)
    PROVE  /\ \A u : IsPage(u, us) => IsPage(u, vs)
           /\ \A j : IsJob(j, us) => IsJob(j, vs)
<1>1. 1..us.photos \subseteq 1..vs.photos /\ 1..us.submits \subseteq 1..vs.submits
  BY DEF Grows, IsUse
<1>2. ASSUME NEW u, IsPage(u, us) PROVE IsPage(u, vs)  BY <1>1, <1>2 DEF IsPage
<1>3. ASSUME NEW j, IsJob(j, us) PROVE IsJob(j, vs)  BY <1>1, <1>3 DEF IsJob
<1> QED  BY <1>2, <1>3

LEMMA OrphanTyped ==
    /\ \A c : IsCall(c) => IsCall([c EXCEPT !.here = FALSE])
    /\ \A j, us : IsJob(j, us) => IsJob([j EXCEPT !.here = FALSE], us)
<1>1. ASSUME NEW c, IsCall(c) PROVE IsCall([c EXCEPT !.here = FALSE])
  <2> DEFINE d == [c EXCEPT !.here = FALSE]
  <2>1. CASE c.kind = "patch"
    <3>1. /\ d.t = c.t /\ d.at = c.at /\ d.here = FALSE /\ d.rev = c.rev /\ d.job = c.job
          /\ d.kind = c.kind /\ d.patch = c.patch /\ d.undo = c.undo /\ d.form = c.form
          /\ DOMAIN d = DOMAIN c
      BY <1>1, <2>1 DEF IsCall, Shared
    <3> HIDE DEF d
    <3> QED  BY <1>1, <2>1, <3>1 DEF IsCall
  <2>2. CASE c.kind = "upload"
    <3>1. /\ d.t = c.t /\ d.at = c.at /\ d.here = FALSE /\ d.rev = c.rev /\ d.job = c.job
          /\ d.kind = c.kind /\ d.photo = c.photo /\ d.id = c.id /\ d.turn = c.turn
          /\ DOMAIN d = DOMAIN c
      BY <1>1, <2>2 DEF IsCall, Shared
    <3> HIDE DEF d
    <3> QED  BY <1>1, <2>2, <3>1 DEF IsCall
  <2>3. CASE c.kind = "delete"
    <3>1. /\ d.t = c.t /\ d.at = c.at /\ d.here = FALSE /\ d.rev = c.rev /\ d.job = c.job
          /\ d.kind = c.kind /\ d.photo = c.photo /\ d.id = c.id
          /\ DOMAIN d = DOMAIN c
      BY <1>1, <2>3 DEF IsCall, Shared
    <3> HIDE DEF d
    <3> QED  BY <1>1, <2>3, <3>1 DEF IsCall
  <2> QED  BY <1>1, <2>1, <2>2, <2>3 DEF IsCall
<1>2. ASSUME NEW j, NEW us, IsJob(j, us) PROVE IsJob([j EXCEPT !.here = FALSE], us)
  BY <1>2 DEF IsJob
<1> QED  BY <1>1, <1>2

-----------------------------------------------------------------------------
(* The steps.                                                              *)

(* A call or a submission that the page still waits for has its page.      *)
Awaited == \A x \in calls \cup jobs : x.here => ui # Nothing

Truth == Types /\ Awaited /\ Told

LEMMA SettleStep ==
    ASSUME Truth, NEW ent, NEW cs, NEW tags, NEW u, NEW new,
           Settling(ent, cs, tags, u, new, used'), Settle(ent, cs, tags, u, new),
           UNCHANGED writes, IsSeen(seen'), \A j \in jobs' : IsJob(j, used'),
           \A x \in cs \cup new \cup jobs' : x.here => u # Nothing,
           \A c \in cs \cup new : c.at = "done" => c.rev \in 1..Len(writes[c.t]),
           \A t \in Tickets : seen'.confirmed[t] \in 1..Len(writes[t]),
           \A k \in Tickets :
               NotBehind(k, ent, answer, tags, cs \cup new, seen'.confirmed, writes)
    PROVE  Truth' /\ Rendered(ui', u) /\ Sends(cs, new)
<1>1. /\ IsCache(entry')
      /\ DOMAIN answer' = Tickets
      /\ \A k \in Tickets : answer'[k] \in TicketState \cup {Nothing}
      /\ stale' \subseteq Tickets
      /\ \A c \in calls' : IsCall(c)
      /\ ui' = IF u = Nothing THEN Nothing ELSE AfterEffects(u, entry')
      /\ ui' # Nothing => IsPage(ui', used') /\ PaneIsCached(entry', ui')
      /\ Quiet(entry', calls') => stale' = {}
  BY SettleTyped DEF Truth, Types
<1>2. \A k \in Tickets :
         NotBehind(k, entry', answer', stale', calls', seen'.confirmed, writes)
  BY SettleTold
<1>3. ASSUME u # Nothing PROVE ui' # Nothing
  <2>1. IsPage(u, used') /\ IsUse(used')  BY <1>3 DEF Settling
  <2>2. IsPage(ui', used')  BY <1>1, <1>3, <2>1, EffectsTyped
  <2> QED  BY <2>1, <2>2, PageIsThere
<1>4. ASSUME NEW c \in calls'
      PROVE  \E d \in cs \cup new : c.here = d.here /\ c.at = d.at /\ c.rev = d.rev /\ c.t = d.t
  <2>1. PICK swept : IsCache(swept) /\ calls' = cs \cup {Started(d, swept) : d \in new}
    BY SweptEntry DEF Settle, Settling
  <2>2. CASE c \in cs  BY <2>2
  <2>3. CASE c \notin cs
    <3>1. PICK d \in new : c = Started(d, swept)  BY <2>1, <2>3
    <3>2. IsCall(d)  BY DEF Settling
    <3>3. {"here", "at", "rev", "t"} \subseteq DOMAIN d \ {"undo"}
      BY <3>2 DEF IsCall, Shared
    <3> QED  BY <2>1, <3>1, <3>2, <3>3, StartedTyped
  <2> QED  BY <2>2, <2>3
<1>5. Types'  BY <1>1 DEF Truth, Types, Settling
<1>6. Awaited'  BY <1>3, <1>4 DEF Awaited
<1>7. Told'  BY <1>1, <1>2, <1>4 DEF Told
<1>8. Rendered(ui', u) /\ Sends(cs, new)
  <2> DEFINE us == used'
  <2>1. Settling(ent, cs, tags, u, new, us) /\ Settle(ent, cs, tags, u, new)  OBVIOUS
  <2>2. \A k \in Tickets : answer[k] \in TicketState \cup {Nothing}  BY DEF Truth, Types
  <2> HIDE DEF us
  <2> QED  BY ONLY <2>1, <2>2, SettleShape
<1> QED  BY <1>5, <1>6, <1>7, <1>8 DEF Truth

(* What the user does in a sheet before anything is sent.                  *)
LEMMA LocalStep ==
    ASSUME Truth, ui # Nothing, Grows(used, used'), IsPage(ui', used'),
           ui'.t = ui.t, ui'.pane = ui.pane,
           UNCHANGED <<writes, entry, answer, stale, calls, jobs>>,
           IsSeen(seen'), seen'.confirmed = seen.confirmed
    PROVE  Truth' /\ ui' # Nothing
<1>1. Types'  BY GrownTyped DEF Truth, Types, Grows
<1>2. ui' # Nothing  BY PageIsThere DEF Grows
<1>3. Awaited'  BY <1>2 DEF Awaited
<1>4. Told'  BY DEF Truth, Told, PaneIsCached
<1> QED  BY <1>1, <1>2, <1>3, <1>4 DEF Truth

LEMMA EmptyPreviews ==
    DOMAIN <<>> = {} /\ <<>> \in [{} -> Preview]
OBVIOUS

LEMMA SheetStep ==
    ASSUME Truth, OpenSheet \/ FillIn \/ CloseSheet
    PROVE  Truth' /\ ui # Nothing /\ ui' # Nothing /\ ui'.t = ui.t /\ ui'.pane = ui.pane
<1>1. /\ ui # Nothing /\ IsPage(ui, used) /\ Grows(used, used') /\ IsSeen(seen)
      /\ UNCHANGED <<writes, entry, answer, stale, calls, jobs, used, seen>>
  BY Unused DEF OpenSheet, FillIn, CloseSheet, Truth, Types
<1>2. ui \in PageState(DOMAIN ui.previews)  BY <1>1 DEF IsPage
<1>3. ui.pane # Nothing => ui.pane \in PaneState  BY <1>2 DEF PageState
<1>4. CASE OpenSheet
  <2>1. CASE ui' = [ui EXCEPT !.sheet = "assign", !.form = Nothing]
    <3>1. /\ ui' \in PageState(DOMAIN ui.previews) /\ ui'.previews = ui.previews
          /\ ui'.form = Nothing /\ ui'.sheet = "assign" /\ ui'.t = ui.t /\ ui'.pane = ui.pane
      BY <1>2, <2>1 DEF PageState
    <3>2. IsPage(ui', used')  BY <1>1, <3>1 DEF IsPage
    <3> QED  BY <1>1, <3>1, <3>2, LocalStep
  <2>2. CASE ui' = [ui EXCEPT !.sheet = "report", !.previews = <<>>]
    <3>1. /\ ui' \in PageState({}) /\ ui'.previews = <<>>
          /\ ui'.form = ui.form /\ ui'.t = ui.t /\ ui'.pane = ui.pane
      BY <1>2, <2>2, EmptyPreviews DEF PageState
    <3>2. ui.pane \in PaneState  BY <1>3, <1>4 DEF OpenSheet
    <3>3. IsPage(ui', used')  BY <1>1, <3>1, <3>2, EmptyPreviews DEF IsPage
    <3> QED  BY <1>1, <3>1, <3>3, LocalStep
  <2> QED  BY <1>4, <2>1, <2>2 DEF OpenSheet
<1>5. CASE FillIn
  <2>1. ui' = [ui EXCEPT !.form = ui.pane.id] /\ ui.pane # Nothing  BY <1>5 DEF FillIn
  <2>2. ui.pane \in PaneState /\ ui.pane.id \in Tickets  BY <1>3, <2>1 DEF PaneState
  <2>3. /\ ui' \in PageState(DOMAIN ui.previews) /\ ui'.previews = ui.previews
        /\ ui'.form = ui.pane.id /\ ui'.sheet = ui.sheet /\ ui'.t = ui.t /\ ui'.pane = ui.pane
    BY <1>2, <2>1, <2>2 DEF PageState
  <2>4. IsPage(ui', used')  BY <1>1, <2>2, <2>3 DEF IsPage
  <2> QED  BY <1>1, <2>3, <2>4, LocalStep
<1>6. CASE CloseSheet
  <2>1. ui' = [ui EXCEPT !.sheet = "none", !.previews = <<>>, !.form = Nothing]
    BY <1>6 DEF CloseSheet
  <2>2. /\ ui' \in PageState({}) /\ ui'.previews = <<>> /\ ui'.sheet = "none"
        /\ ui'.form = Nothing /\ ui'.t = ui.t /\ ui'.pane = ui.pane
    BY <1>2, <2>1, EmptyPreviews DEF PageState
  <2>3. IsPage(ui', used')  BY <1>1, <2>2, EmptyPreviews DEF IsPage
  <2> QED  BY <1>1, <2>2, <2>3, LocalStep
<1> QED  BY <1>4, <1>5, <1>6

LEMMA PreviewsTyped ==
    ASSUME NEW us, IsUse(us), NEW u, IsPage(u, us), NEW ps,
           ps \subseteq 1..us.photos, NEW prev \in [ps -> Preview]
    PROVE  /\ IsPage([u EXCEPT !.previews = prev], us)
           /\ [u EXCEPT !.previews = prev].previews = prev
           /\ [u EXCEPT !.previews = prev].t = u.t
           /\ [u EXCEPT !.previews = prev].pane = u.pane
           /\ [u EXCEPT !.previews = prev].removing = u.removing
           /\ [u EXCEPT !.previews = prev].sheet = u.sheet
<1> DEFINE v == [u EXCEPT !.previews = prev]
<1>1. u \in PageState(DOMAIN u.previews)  BY DEF IsPage
<1>2. /\ v \in PageState(ps) /\ v.previews = prev /\ v.t = u.t /\ v.pane = u.pane
      /\ v.removing = u.removing /\ v.sheet = u.sheet /\ v.form = u.form
  BY <1>1 DEF PageState
<1>3. DOMAIN v.previews = ps  BY <1>2
<1> HIDE DEF v
<1>4. IsPage(v, us)  BY <1>2, <1>3 DEF IsPage
<1> QED  BY <1>2, <1>4 DEF v

LEMMA AddPhotoStep ==
    ASSUME Truth, AddPhoto
    PROVE  /\ Truth' /\ IsPage(ui, used) /\ IsUse(used) /\ ui' # Nothing /\ IsUse(used')
           /\ used.photos < MaxPhotos /\ used'.photos = used.photos + 1
           /\ used'.ids = used.ids /\ used'.submits = used.submits
           /\ ui' = [ui EXCEPT !.previews = With(ui.previews, used'.photos)]
           /\ ui'.t = ui.t /\ ui'.pane = ui.pane /\ ui'.removing = ui.removing
           /\ ui'.previews = With(ui.previews, used'.photos)
<1>1. /\ ui # Nothing /\ IsPage(ui, used) /\ IsUse(used) /\ IsSeen(seen)
      /\ UNCHANGED <<writes, entry, answer, stale, calls, jobs, seen>>
  BY DEF AddPhoto, SheetIsIdle, Truth, Types
<1>2. /\ used.photos \in Nat /\ used.turmoil \in Nat /\ MaxPhotos \in Nat
      /\ used.photos < MaxPhotos
  BY <1>1, PageBounds DEF IsUse, AddPhoto
<1>3. used' = [used EXCEPT !.photos = used.photos + 1,
                           !.turmoil = IF used.photos > 0 THEN used.turmoil + 1 ELSE used.turmoil]
  BY DEF AddPhoto
<1> DEFINE turmoil == IF used.photos > 0 THEN used.turmoil + 1 ELSE used.turmoil
<1>4. /\ IsUse(used') /\ used'.photos = used.photos + 1
      /\ used'.ids = used.ids /\ used'.submits = used.submits
  <2>1. turmoil \in Nat /\ used.photos + 1 \in 0..MaxPhotos  BY <1>2
  <2>2. used' = [used EXCEPT !.photos = used.photos + 1, !.turmoil = turmoil]  BY <1>3
  <2> HIDE DEF turmoil
  <2> QED  BY <1>1, <2>1, <2>2 DEF IsUse
<1>5. Grows(used, used')  BY <1>1, <1>2, <1>4 DEF Grows, IsUse
<1>6. IsPage(ui, used') /\ IsSeen(seen')  BY <1>1, <1>5, GrownTyped
<1> DEFINE prev == With(ui.previews, used'.photos)
           ps == DOMAIN ui.previews \cup {used'.photos}
<1>7. ui' = [ui EXCEPT !.previews = prev]  BY DEF AddPhoto
<1>8. ps \subseteq 1..used'.photos  BY <1>2, <1>4, <1>6 DEF IsPage
<1>9. NewPreview \in Preview  BY DEF NewPreview, Preview
<1>10. ui.previews \in [DOMAIN ui.previews -> Preview]  BY <1>1 DEF IsPage, PageState
<1>11. prev \in [ps -> Preview]  BY <1>9, <1>10 DEF With
<1> HIDE DEF prev, ps
<1>12. /\ IsPage(ui', used') /\ ui'.t = ui.t /\ ui'.pane = ui.pane
       /\ ui'.removing = ui.removing /\ ui'.previews = prev
  BY <1>4, <1>6, <1>7, <1>8, <1>11, PreviewsTyped
<1>13. Truth'  BY <1>1, <1>5, <1>6, <1>12, LocalStep
<1>14. ui' # Nothing  BY <1>4, <1>12, PageIsThere
<1> QED  BY <1>1, <1>2, <1>4, <1>7, <1>12, <1>13, <1>14 DEF prev

LEMMA RotateStep ==
    ASSUME Truth, NEW p, NEW n \in Turns, RotatePhoto(p, n)
    PROVE  /\ Truth' /\ IsPage(ui, used) /\ ui'.t = ui.t /\ ui'.pane = ui.pane
           /\ ui'.removing = ui.removing /\ ui' # Nothing
           /\ p \in DOMAIN ui.previews /\ ui.previews[p].id = 0
           /\ DOMAIN ui'.previews = DOMAIN ui.previews
           /\ \A q \in DOMAIN ui.previews \ {p} : ui'.previews[q] = ui.previews[q]
           /\ ui'.previews[p].id = 0 /\ ui'.previews[p].file = n /\ ui'.previews[p].turn = n
           /\ ui'.previews[p].carried = ui.previews[p].carried
<1>1. /\ ui # Nothing /\ IsPage(ui, used) /\ IsUse(used) /\ IsSeen(seen)
      /\ Grows(used, used')
      /\ UNCHANGED <<writes, entry, answer, stale, calls, jobs, used, seen>>
  BY Unused DEF RotatePhoto, SheetIsIdle, Truth, Types
<1> DEFINE new == [ui.previews[p] EXCEPT !.file = Rotated(ui.previews[p], n), !.turn = n]
           prev == [ui.previews EXCEPT ![p] = new]
<1>2. /\ ui' = [ui EXCEPT !.previews[p] = new]
      /\ p \in DOMAIN ui.previews /\ ui.previews[p].id = 0
  BY DEF RotatePhoto
<1>3. ui.previews \in [DOMAIN ui.previews -> Preview]  BY <1>1 DEF IsPage, PageState
<1>4. ui.previews[p] \in Preview  BY <1>2, <1>3
<1>5. /\ new \in Preview /\ new.file = n /\ new.turn = n /\ new.id = 0
      /\ new.carried = ui.previews[p].carried
  BY <1>2, <1>4, TurnsAreQuarters DEF Preview, Rotated
<1> HIDE DEF new
<1>6. /\ prev \in [DOMAIN ui.previews -> Preview] /\ prev[p] = new
      /\ \A q \in DOMAIN ui.previews \ {p} : prev[q] = ui.previews[q]
  BY <1>2, <1>3, <1>5
<1>7. ui' = [ui EXCEPT !.previews = prev]  BY <1>2
<1> HIDE DEF prev
<1>8. DOMAIN ui.previews \subseteq 1..used.photos  BY <1>1 DEF IsPage
<1>9. /\ IsPage(ui', used) /\ ui'.t = ui.t /\ ui'.pane = ui.pane
      /\ ui'.removing = ui.removing /\ ui'.previews = prev
  BY <1>1, <1>6, <1>7, <1>8, PreviewsTyped
<1>10. Truth'  BY <1>1, <1>9, LocalStep
<1>11. DOMAIN ui'.previews = DOMAIN ui.previews  BY <1>6, <1>9
<1>12. ui' # Nothing  BY <1>1, <1>9, PageIsThere
<1> QED  BY <1>1, <1>2, <1>5, <1>6, <1>9, <1>10, <1>11, <1>12

LEMMA WithoutTyped ==
    ASSUME NEW us, NEW u, IsPage(u, us), NEW p
    PROVE  /\ DOMAIN u.previews \ {p} \subseteq 1..us.photos
           /\ Without(u.previews, p) \in [DOMAIN u.previews \ {p} -> Preview]
           /\ \A q \in DOMAIN u.previews \ {p} : Without(u.previews, p)[q] = u.previews[q]
<1>1. u.previews \in [DOMAIN u.previews -> Preview] /\ DOMAIN u.previews \subseteq 1..us.photos
  BY DEF IsPage, PageState
<1> QED  BY <1>1 DEF Without

(* The removal of a photograph that is not on the server.                  *)
LEMMA RemoveHereStep ==
    ASSUME Truth, NEW p \in Photos, RemovePhoto(p), ui.previews[p].id = 0
    PROVE  /\ Truth' /\ IsPage(ui, used) /\ ui'.t = ui.t /\ ui'.pane = ui.pane
           /\ ui'.removing = ui.removing /\ p \in DOMAIN ui.previews /\ ui' # Nothing
           /\ DOMAIN ui'.previews = DOMAIN ui.previews \ {p}
           /\ \A q \in DOMAIN ui.previews \ {p} : ui'.previews[q] = ui.previews[q]
           /\ seen'.removed = seen.removed \cup {p} /\ seen'.copies = seen.copies
           /\ seen'.unsure = seen.unsure /\ seen'.carried = seen.carried
           /\ UNCHANGED <<calls, jobs, writes, used>>
<1>1. /\ ui # Nothing /\ IsPage(ui, used) /\ IsUse(used) /\ IsSeen(seen)
      /\ Grows(used, used') /\ p \in DOMAIN ui.previews
      /\ UNCHANGED <<writes, entry, answer, stale, calls, jobs, used>>
      /\ ui' = [ui EXCEPT !.previews = Without(ui.previews, p)]
      /\ seen' = [seen EXCEPT !.removed = seen.removed \cup {p}]
  <2>1. /\ ui # Nothing /\ p \in DOMAIN ui.previews
        /\ UNCHANGED <<writes, jobs, used>>
    BY DEF RemovePhoto, SheetIsIdle
  <2>2. /\ UNCHANGED <<entry, answer, stale, calls>>
        /\ ui' = [ui EXCEPT !.previews = Without(ui.previews, p)]
        /\ seen' = [seen EXCEPT !.removed = seen.removed \cup {p}]
    BY DEF RemovePhoto
  <2>3. IsPage(ui, used) /\ IsUse(used) /\ IsSeen(seen)
    BY <2>1 DEF Truth, Types
  <2> QED  BY <2>1, <2>2, <2>3, Unused
<1>2. /\ IsPage(ui', used) /\ ui'.t = ui.t /\ ui'.pane = ui.pane
      /\ ui'.removing = ui.removing
      /\ DOMAIN ui'.previews = DOMAIN ui.previews \ {p}
      /\ \A q \in DOMAIN ui.previews \ {p} : ui'.previews[q] = ui.previews[q]
  <2> DEFINE prev == Without(ui.previews, p)
             ps == DOMAIN ui.previews \ {p}
  <2>0. IsPage(ui, used) /\ IsUse(used)  BY <1>1
  <2>1. /\ ps \subseteq 1..used.photos /\ prev \in [ps -> Preview]
        /\ \A q \in ps : prev[q] = ui.previews[q]
    BY ONLY <2>0, WithoutTyped
  <2>2. ui' = [ui EXCEPT !.previews = prev]  BY <1>1
  <2> HIDE DEF prev, ps
  <2>3. /\ IsPage(ui', used) /\ ui'.t = ui.t /\ ui'.pane = ui.pane
        /\ ui'.removing = ui.removing /\ ui'.previews = prev
    BY ONLY <2>0, <2>1, <2>2, PreviewsTyped
  <2>4. DOMAIN ui'.previews = ps  BY <2>1, <2>3
  <2> QED  BY <2>1, <2>3, <2>4 DEF ps
<1>3. p \in 1..used.photos  BY <1>1 DEF IsPage
<1>4. /\ IsSeen(seen') /\ seen'.confirmed = seen.confirmed
      /\ seen'.removed = seen.removed \cup {p} /\ seen'.copies = seen.copies
      /\ seen'.unsure = seen.unsure /\ seen'.carried = seen.carried
  BY <1>1, <1>3 DEF IsSeen
<1>5. Truth'  BY <1>1, <1>2, <1>4, LocalStep
<1>6. ui' # Nothing  BY <1>1, <1>2, PageIsThere
<1> QED  BY <1>1, <1>2, <1>4, <1>5, <1>6

(* A step that starts at most one mutation, of a page that is there.       *)
LEMMA SendStep ==
    ASSUME Truth, Grows(used, used'), NEW u, IsPage(u, used'),
           NEW new, new = {} \/ \E c : new = {c},
           \A c \in new : IsCall(c) /\ c.at = "sent",
           Settle(entry, calls, stale, u, new),
           UNCHANGED writes, IsSeen(seen'), seen'.confirmed = seen.confirmed,
           \A j \in jobs' : IsJob(j, used')
    PROVE  Truth' /\ Rendered(ui', u) /\ Sends(calls, new)
<1>1. Settling(entry, calls, stale, u, new, used')
  BY DEF Settling, Truth, Types, Grows
<1>2. u # Nothing  BY PageIsThere DEF Grows
<1>3. ASSUME NEW k \in Tickets
      PROVE  NotBehind(k, entry, answer, stale, calls \cup new, seen'.confirmed, writes)
  BY DEF Truth, Told, NotBehind
<1>4. \A c \in calls \cup new : c.at = "done" => c.rev \in 1..Len(writes[c.t])
  BY DEF Truth, Told
<1>5. \A t \in Tickets : seen'.confirmed[t] \in 1..Len(writes[t])
  BY DEF Truth, Told
<1> QED  BY <1>1, <1>2, <1>3, <1>4, <1>5, SettleStep

LEMMA PatchCallTyped ==
    ASSUME NEW t \in Tickets, NEW patch, IsPatch(patch), NEW job \in Nat,
           NEW form \in {Nothing, t}
    PROVE  /\ IsCall(PatchCall(t, patch, job, form))
           /\ PatchCall(t, patch, job, form).at = "sent"
           /\ PatchCall(t, patch, job, form).here
           /\ PatchCall(t, patch, job, form).kind = "patch"
           /\ PatchCall(t, patch, job, form).t = t
           /\ PatchCall(t, patch, job, form).job = job
           /\ PatchCall(t, patch, job, form).patch = patch
<1> DEFINE c == PatchCall(t, patch, job, form)
<1>0. c.here /\ c.here \in BOOLEAN  BY DEF PatchCall
<1>1. /\ c.kind = "patch" /\ c.t = t /\ c.patch = patch /\ c.undo = <<>> /\ c.at = "sent"
      /\ c.rev = 0 /\ c.job = job /\ c.form = form
  BY DEF PatchCall
<1>2. DOMAIN c = Shared \cup {"patch", "undo", "form", "no"}
  BY DEF PatchCall, Shared
<1> HIDE DEF c
<1>3. DOMAIN c.undo = {}  BY <1>1
<1>4. IsPatch(c.undo)  BY <1>3 DEF IsPatch
<1>5. IsCall(c)  BY <1>0, <1>1, <1>2, <1>4 DEF IsCall
<1> QED  BY <1>0, <1>1, <1>5 DEF c

LEMMA ButtonStep ==
    ASSUME Truth, Act \/ \E who \in {Me, Other} : Assign(who)
    PROVE  /\ Truth' /\ IsPage(ui, used) /\ Grows(used, used')
           /\ used'.photos = used.photos /\ used'.ids = used.ids
           /\ UNCHANGED <<writes, jobs, seen>>
           /\ Rendered(ui', ui)
           /\ \E c : /\ IsCall(c) /\ c.kind = "patch" /\ c.job = 0 /\ c.at = "sent"
                     /\ calls' = calls \cup {c}
<1>1. /\ ui # Nothing /\ Use("acts", MaxActs) /\ UNCHANGED <<writes, jobs, seen>>
  BY DEF Act, Assign
<1>2. /\ IsPage(ui, used) /\ IsUse(used) /\ IsSeen(seen)
      /\ \A j \in jobs : IsJob(j, used)
  BY <1>1 DEF Truth, Types
<1>3. Grows(used, used') /\ used'.photos = used.photos /\ used'.ids = used.ids
  BY <1>1, <1>2, UseGrows
<1>4. ui.pane # Nothing => ui.pane \in PaneState
  BY <1>2 DEF IsPage, PageState
<1>5. PICK c : /\ IsCall(c) /\ c.kind = "patch" /\ c.job = 0 /\ c.at = "sent"
               /\ Settle(entry, calls, stale, ui, {c})
  <2>1. CASE Act
    <3> DEFINE patch == [status |-> NextStatus(Shown)]
               c == PatchCall(ui.pane.id, patch, 0, Nothing)
    <3>1. ui.pane # Nothing /\ NextStatus(Shown) # Nothing
          /\ Settle(entry, calls, stale, ui, {c})
      BY <2>1 DEF Act
    <3>2. ui.pane.id \in Tickets  BY <1>4, <3>1 DEF PaneState
    <3>3. NextStatus(Shown) \in {"inWork", "worksDone"}  BY <3>1 DEF NextStatus
    <3>4. IsPatch(patch)
      <4>1. DOMAIN patch = {"status"} /\ patch["status"] = NextStatus(Shown)  OBVIOUS
      <4> HIDE DEF patch
      <4> QED  BY <3>3, <4>1 DEF IsPatch
    <3> HIDE DEF patch
    <3>5. IsCall(c) /\ c.kind = "patch" /\ c.job = 0 /\ c.at = "sent"
      <4>1. 0 \in Nat /\ Nothing \in {Nothing, ui.pane.id}  OBVIOUS
      <4> QED  BY ONLY <3>2, <3>4, <4>1, PatchCallTyped
    <3> QED  BY <3>1, <3>5
  <2>2. ASSUME NEW who \in {Me, Other}, Assign(who)
        PROVE  \E c : /\ IsCall(c) /\ c.kind = "patch" /\ c.job = 0 /\ c.at = "sent"
                      /\ Settle(entry, calls, stale, ui, {c})
    <3> DEFINE patch == [status |-> "assigned", executor |-> who, text |-> "typed"]
               c == PatchCall(ui.pane.id, patch, 0, ui.form)
    <3>1. ui.form # Nothing /\ Settle(entry, calls, stale, ui, {c})
      BY <2>2 DEF Assign
    <3>2. ui.form = ui.pane.id /\ ui.pane.id \in Tickets
      BY <1>2, <3>1 DEF IsPage, PaneState
    <3>3. IsPatch(patch)
      <4>1. /\ DOMAIN patch = {"status", "executor", "text"}
            /\ patch["status"] = "assigned" /\ patch["executor"] = who
            /\ patch["text"] = "typed"
        OBVIOUS
      <4> HIDE DEF patch
      <4> QED  BY <4>1 DEF IsPatch
    <3> HIDE DEF patch
    <3>4. IsCall(c) /\ c.kind = "patch" /\ c.job = 0 /\ c.at = "sent"
      <4>1. 0 \in Nat /\ ui.form \in {Nothing, ui.pane.id} /\ ui.pane.id \in Tickets
        BY <3>2
      <4> QED  BY ONLY <3>3, <4>1, PatchCallTyped
    <3> QED  BY <3>1, <3>4
  <2> QED  BY <2>1, <2>2
<1>6. IsPage(ui, used') /\ IsSeen(seen') /\ \A j \in jobs' : IsJob(j, used')
  BY <1>1, <1>2, <1>3, GrownTyped
<1>7. Truth' /\ Rendered(ui', ui) /\ Sends(calls, {c})
  BY <1>1, <1>3, <1>5, <1>6, SendStep
<1>8. PICK m : Resent(m, c) /\ calls' = calls \cup {m}  BY <1>7 DEF Sends
<1>9. IsCall(m) /\ m.kind = "patch" /\ m.job = 0 /\ m.at = "sent"
  BY <1>5, <1>8 DEF Resent, IsCall, Shared
<1> QED  BY <1>1, <1>2, <1>3, <1>7, <1>8, <1>9

LEMMA FirstIsIn ==
    ASSUME NEW S, S \subseteq Nat, S # {}
    PROVE  First(S) \in S
<1> DEFINE R == OpToRel(<, Nat)
<1>1. IsWellFoundedOn(R, Nat)  BY NatLessThanWellFounded
<1>2. \A x, y \in Nat : <<y, x>> \in R <=> y < x  BY DEF OpToRel
<1> HIDE DEF R
<1>3. PICK x \in S : \A y \in S : <<y, x>> \notin R  BY <1>1, WFMin
<1>4. ASSUME NEW y \in S PROVE x <= y
  <2>1. x \in Nat /\ y \in Nat  OBVIOUS
  <2>2. ~(y < x)  BY <1>2, <1>3, <2>1
  <2> QED  BY <2>1, <2>2
<1> QED  BY <1>4 DEF First

(* The call that a submission makes next, if it makes one.                 *)
IsNext(n, j) ==
    /\ IsCall(n) /\ n.at = "sent" /\ n.t = j.t /\ n.here = j.here /\ n.job = j.no
    /\ j.todo # {} => n.kind = "upload" /\ n.photo \in j.todo /\ n.turn = j.keep[n.photo].file
    /\ j.todo = {} => n.kind = "patch" /\ ~j.failed

LEMMA NextCallTyped ==
    ASSUME NEW us, IsUse(us), NEW j, IsJob(j, us)
    PROVE  GoesOn(j) => IsNext(NextCall(j), j)
<1>1. /\ j.no \in Nat /\ j.t \in Tickets /\ j.here \in BOOLEAN /\ j.failed \in BOOLEAN
      /\ j.todo \subseteq DOMAIN j.keep /\ j.keep \in [DOMAIN j.keep -> Preview]
      /\ DOMAIN j.keep \subseteq 1..us.photos
  BY DEF IsJob
<1>2. 1..us.photos \subseteq Photos /\ Photos \subseteq Nat
  <2>1. us.photos \in 0..MaxPhotos /\ MaxPhotos \in Nat  BY PageBounds DEF IsUse
  <2> QED  BY <2>1 DEF Photos
<1>3. ASSUME j.todo # {} PROVE IsNext(NextCall(j), j)
  <2> DEFINE p == First(j.todo)
             n == [kind |-> "upload", t |-> j.t, photo |-> p, turn |-> j.keep[p].file,
                   at |-> "sent", id |-> 0, rev |-> 0, here |-> j.here, job |-> j.no]
  <2>1. j.todo \subseteq Nat  BY <1>1, <1>2
  <2>2. p \in j.todo  BY <1>3, <2>1, FirstIsIn
  <2>3. p \in Photos  BY <1>1, <1>2, <2>2
  <2>4. j.keep[p] \in Preview  BY <1>1, <2>2
  <2>5. j.keep[p].file \in 0..3  BY <2>4 DEF Preview
  <2>6. NextCall(j) = n  BY <1>3 DEF NextCall
  <2> HIDE DEF p
  <2>7. /\ n.kind = "upload" /\ n.t = j.t /\ n.photo = p /\ n.turn = j.keep[p].file
        /\ n.at = "sent" /\ n.id = 0 /\ n.rev = 0 /\ n.here = j.here /\ n.job = j.no
    OBVIOUS
  <2>8. DOMAIN n = Shared \cup {"photo", "id", "turn"}  BY DEF Shared
  <2> HIDE DEF n
  <2>9. IsCall(n)  BY <1>1, <2>3, <2>5, <2>7, <2>8 DEF IsCall
  <2> QED  BY <1>3, <2>2, <2>6, <2>7, <2>9 DEF IsNext
<1>4. ASSUME j.todo = {}, ~j.failed PROVE IsNext(NextCall(j), j)
  <2> DEFINE patch == [status |-> "closed", text |-> "done"]
             c == PatchCall(j.t, patch, j.no, Nothing)
             n == [c EXCEPT !.here = j.here]
  <2>1. IsPatch(patch)
    <3>1. /\ DOMAIN patch = {"status", "text"}
          /\ patch["status"] = "closed" /\ patch["text"] = "done"
      OBVIOUS
    <3> HIDE DEF patch
    <3> QED  BY <3>1 DEF IsPatch
  <2>2. NextCall(j) = n  BY <1>4 DEF NextCall
  <2> HIDE DEF patch
  <2>3. /\ IsCall(c) /\ c.at = "sent" /\ c.kind = "patch" /\ c.t = j.t /\ c.job = j.no
    <3>1. Nothing \in {Nothing, j.t}  OBVIOUS
    <3> QED  BY ONLY <1>1, <2>1, <3>1, PatchCallTyped
  <2> HIDE DEF c
  <2>4. DOMAIN c = Shared \cup {"patch", "undo", "form", "no"}  BY <2>3 DEF IsCall
  <2>5. /\ n.at = "sent" /\ n.kind = "patch" /\ n.t = j.t /\ n.job = j.no /\ n.here = j.here
        /\ n.rev = c.rev /\ n.patch = c.patch /\ n.undo = c.undo /\ n.form = c.form
        /\ DOMAIN n = DOMAIN c
    BY <2>3, <2>4 DEF Shared
  <2> HIDE DEF n
  <2>6. IsCall(n)  BY <1>1, <2>3, <2>4, <2>5 DEF IsCall
  <2> QED  BY <1>4, <2>2, <2>5, <2>6 DEF IsNext
<1> QED  BY <1>3, <1>4 DEF GoesOn

LEMMA SubmitStep ==
    ASSUME Truth, Submit
    PROVE  /\ Truth' /\ IsPage(ui, used) /\ ui.pane \in PaneState
           /\ Grows(used, used') /\ used'.photos = used.photos /\ used'.ids = used.ids
           /\ used'.submits = used.submits + 1
           /\ UNCHANGED <<writes, seen>>
           /\ \E j, n : /\ j = [no |-> used'.submits, t |-> ui.pane.id, keep |-> ui.previews,
                                todo |-> ToUpload(ui.previews), failed |-> FALSE, here |-> TRUE]
                        /\ IsJob(j, used') /\ IsNext(n, j)
                        /\ jobs' = jobs \cup {j}
                        /\ Sends(calls, {n})
           /\ Rendered(ui', ui)
<1>1. /\ ui # Nothing /\ ui.pane # Nothing /\ Use("submits", MaxSubmits)
      /\ UNCHANGED <<writes, seen>>
  BY DEF Submit, SheetIsIdle
<1>2. /\ IsPage(ui, used) /\ IsUse(used) /\ IsSeen(seen)
      /\ \A j \in jobs : IsJob(j, used)
  BY <1>1 DEF Truth, Types
<1>3. /\ Grows(used, used') /\ used'.photos = used.photos /\ used'.ids = used.ids
      /\ used'.submits = used.submits + 1
  BY <1>1, <1>2, UseGrows
<1>4. /\ ui.pane \in PaneState
      /\ ui.previews \in [DOMAIN ui.previews -> Preview]
      /\ DOMAIN ui.previews \subseteq 1..used.photos
  BY <1>1, <1>2 DEF IsPage, PageState
<1> DEFINE j == [no |-> used'.submits, t |-> ui.pane.id, keep |-> ui.previews,
                 todo |-> ToUpload(ui.previews), failed |-> FALSE, here |-> TRUE]
           n == NextCall(j)
<1>5. jobs' = jobs \cup {j} /\ Settle(entry, calls, stale, ui, {n})  BY DEF Submit
<1>6. used'.submits \in 1..used'.submits /\ used'.photos = used.photos
  BY <1>2, <1>3 DEF IsUse
<1>7. /\ j.no = used'.submits /\ j.t = ui.pane.id /\ j.keep = ui.previews
      /\ j.todo = ToUpload(ui.previews) /\ ~j.failed /\ j.failed \in BOOLEAN /\ j.here \in BOOLEAN
      /\ DOMAIN j = {"no", "t", "keep", "todo", "failed", "here"}
  OBVIOUS
<1>8. ToUpload(ui.previews) \subseteq DOMAIN ui.previews  BY DEF ToUpload
<1>9. ui.pane.id \in Tickets  BY <1>4 DEF PaneState
<1> HIDE DEF j
<1>10. IsJob(j, used')  BY <1>4, <1>6, <1>7, <1>8, <1>9 DEF IsJob
<1>11. IsNext(n, j)  BY <1>3, <1>7, <1>10, NextCallTyped DEF Grows, GoesOn
<1>12. IsPage(ui, used') /\ IsSeen(seen') /\ \A i \in jobs' : IsJob(i, used')
  BY <1>1, <1>2, <1>3, <1>5, <1>10, GrownTyped
<1> HIDE DEF n
<1>13. Truth' /\ Rendered(ui', ui) /\ Sends(calls, {n})
  BY <1>1, <1>3, <1>5, <1>11, <1>12, SendStep DEF IsNext
<1> QED  BY <1>1, <1>2, <1>3, <1>4, <1>5, <1>10, <1>11, <1>13 DEF j

(* The removal of a photograph that is on the server.                      *)
LEMMA RemoveAwayStep ==
    ASSUME Truth, NEW p \in Photos, RemovePhoto(p), ui.previews[p].id # 0
    PROVE  /\ Truth' /\ IsPage(ui, used) /\ ui.pane \in PaneState /\ p \in DOMAIN ui.previews
           /\ UNCHANGED <<writes, jobs, used>>
           /\ seen'.removed = seen.removed /\ seen'.copies = seen.copies
           /\ seen'.unsure = seen.unsure
           /\ seen'.carried = IF ui.previews[p].carried THEN seen.carried \cup {p}
                              ELSE seen.carried
           /\ \E u, c :
                 /\ IsPage(u, used) /\ u # Nothing /\ u.t = ui.t /\ u.pane = ui.pane /\ u.removing = p
                 /\ u.previews = ui.previews
                 /\ IsCall(c) /\ c.kind = "delete" /\ c.t = ui.pane.id /\ c.photo = p
                 /\ c.at = "sent" /\ c.id = ui.previews[p].id /\ c.job = 0 /\ c.here
                 /\ Rendered(ui', u)
                 /\ calls' = calls \cup {c}
<1> DEFINE u == [ui EXCEPT !.removing = p]
           c == [kind |-> "delete", t |-> ui.pane.id, photo |-> p, at |-> "sent",
                 id |-> ui.previews[p].id, rev |-> 0, here |-> TRUE, job |-> 0]
<1>1. /\ ui # Nothing /\ p \in DOMAIN ui.previews /\ UNCHANGED <<writes, jobs, used>>
      /\ ui.sheet = "report"
  BY DEF RemovePhoto, SheetIsIdle
<1>2. /\ Settle(entry, calls, stale, u, {c})
      /\ seen' = [seen EXCEPT !.carried = IF ui.previews[p].carried THEN @ \cup {p} ELSE @]
  BY DEF RemovePhoto
<1>3. IsPage(ui, used) /\ IsUse(used) /\ IsSeen(seen) /\ \A j \in jobs : IsJob(j, used)
  BY <1>1 DEF Truth, Types
<1>4. ui \in PageState(DOMAIN ui.previews) /\ ui.pane \in PaneState
  BY <1>1, <1>3 DEF IsPage
<1>5. /\ u \in PageState(DOMAIN ui.previews) /\ u.t = ui.t /\ u.pane = ui.pane
      /\ u.removing = p /\ u.previews = ui.previews /\ u.sheet = ui.sheet /\ u.form = ui.form
  BY <1>4 DEF PageState
<1> HIDE DEF u
<1>6. IsPage(u, used)  BY <1>3, <1>5 DEF IsPage
<1>7. ui.previews[p].id \in Nat /\ ui.pane.id \in Tickets
  BY <1>1, <1>4 DEF PageState, Preview, PaneState
<1>8. /\ c.kind = "delete" /\ c.t = ui.pane.id /\ c.photo = p /\ c.at = "sent"
      /\ c.id = ui.previews[p].id /\ c.rev = 0 /\ c.job = 0 /\ c.here
  OBVIOUS
<1>9. c.here \in BOOLEAN /\ DOMAIN c = Shared \cup {"photo", "id"}  BY DEF Shared
<1> HIDE DEF c
<1>11. IsCall(c)  BY <1>7, <1>8, <1>9 DEF IsCall
<1>12. /\ IsSeen(seen') /\ seen'.confirmed = seen.confirmed
       /\ seen'.removed = seen.removed /\ seen'.copies = seen.copies
       /\ seen'.unsure = seen.unsure
       /\ seen'.carried = IF ui.previews[p].carried THEN seen.carried \cup {p}
                          ELSE seen.carried
  <2> DEFINE carried == IF ui.previews[p].carried THEN seen.carried \cup {p} ELSE seen.carried
  <2>2. carried \in SUBSET Photos  BY <1>3 DEF IsSeen
  <2>3. seen' = [seen EXCEPT !.carried = carried]  BY <1>2
  <2> HIDE DEF carried
  <2>4. /\ IsSeen(seen') /\ seen'.confirmed = seen.confirmed
        /\ seen'.removed = seen.removed /\ seen'.copies = seen.copies
        /\ seen'.unsure = seen.unsure /\ seen'.carried = carried
    BY <1>1, <1>3, <2>2, <2>3 DEF IsSeen
  <2> QED  BY <2>4 DEF carried
<1>13. /\ Truth' /\ Rendered(ui', u)
       /\ \E m : /\ IsCall(m) /\ m.kind = "delete" /\ m.t = ui.pane.id /\ m.photo = p
                 /\ m.at = "sent" /\ m.id = ui.previews[p].id /\ m.job = 0 /\ m.here
                 /\ calls' = calls \cup {m}
  <2>1. Grows(used, used')  BY <1>1, <1>3, Unused
  <2>2. \A j \in jobs' : IsJob(j, used')  BY <1>1, <1>3
  <2>3. IsPage(u, used')  BY <1>1, <1>6
  <2>4. \A d \in {c} : IsCall(d) /\ d.at = "sent"  BY <1>8, <1>11
  <2>5. Settle(entry, calls, stale, u, {c})  BY <1>2 DEF u, c
  <2>6. Truth' /\ Rendered(ui', u) /\ Sends(calls, {c})
    BY <1>1, <1>12, <2>1, <2>2, <2>3, <2>4, <2>5, SendStep
  <2>7. PICK m : Resent(m, c) /\ calls' = calls \cup {m}  BY <2>6 DEF Sends
  <2>8. /\ IsCall(m) /\ m.kind = "delete" /\ m.t = ui.pane.id /\ m.photo = p /\ m.at = "sent"
        /\ m.id = ui.previews[p].id /\ m.job = 0 /\ m.here
    BY <1>8, <1>9, <2>7 DEF Resent, Shared
  <2> QED  BY <2>6, <2>7, <2>8
<1>14. u # Nothing  BY <1>3, <1>6, PageIsThere
<1> QED  BY <1>1, <1>3, <1>4, <1>5, <1>6, <1>12, <1>13, <1>14

-----------------------------------------------------------------------------
LEMMA NewPageTyped ==
    ASSUME NEW t \in Tickets, NEW us
    PROVE  /\ IsPage(NewPage(t), us) /\ NewPage(t).previews = <<>>
           /\ NewPage(t).t = t /\ NewPage(t).pane = Nothing /\ NewPage(t).removing = Nothing
<1> DEFINE u == NewPage(t)
<1>1. /\ u.t = t /\ u.pane = Nothing /\ u.sheet = "none" /\ u.form = Nothing
      /\ u.previews = <<>> /\ u.removing = Nothing
  BY DEF NewPage
<1>2. u \in PageState({})  BY EmptyPreviews DEF NewPage, PageState
<1> HIDE DEF u
<1>3. IsPage(u, us)  BY <1>1, <1>2, EmptyPreviews DEF IsPage
<1> QED  BY <1>1, <1>3 DEF u

LEMMA RoutedTyped ==
    ASSUME NEW t \in Tickets, NEW us, NEW u, u # Nothing => IsPage(u, us)
    PROVE  /\ IsPage(Routed(u, t), us) /\ Routed(u, t).t = t
           /\ u # Nothing => /\ Routed(u, t).pane = u.pane
                             /\ Routed(u, t).previews = u.previews
                             /\ Routed(u, t).removing = u.removing
           /\ u = Nothing => Routed(u, t) = NewPage(t)
<1>1. CASE u = Nothing  BY <1>1, NewPageTyped DEF Routed
<1>2. CASE u # Nothing
  <2> DEFINE v == [u EXCEPT !.t = t]
  <2>1. u \in PageState(DOMAIN u.previews)  BY <1>2 DEF IsPage
  <2>2. /\ v \in PageState(DOMAIN u.previews) /\ v.t = t /\ v.pane = u.pane
        /\ v.previews = u.previews /\ v.removing = u.removing /\ v.sheet = u.sheet
        /\ v.form = u.form
    BY <2>1 DEF PageState
  <2>3. Routed(u, t) = v  BY <1>2 DEF Routed
  <2> HIDE DEF v
  <2>4. IsPage(v, us)  BY <1>2, <2>2 DEF IsPage
  <2> QED  BY <1>2, <2>2, <2>3, <2>4
<1> QED  BY <1>1, <1>2

(* A page that is opened or moves: its query is asked for.                 *)
LEMMA VisitStep ==
    ASSUME Truth, Grows(used, used'), NEW u, IsPage(u, used'), NEW t,
           Settle(Subscribed(entry, {t}), calls, stale, u, {}),
           UNCHANGED <<writes, jobs, seen>>
    PROVE  Truth' /\ Rendered(ui', u) /\ calls' = calls
<1> DEFINE ent == Subscribed(entry, {t})
<1>1. IsCache(ent) /\ \A k \in Tickets : ent[k] = entry[k] \/ ent[k].status = "pending"
  BY AskedEntry DEF Truth, Types
<1> HIDE DEF ent
<1>2. Settling(ent, calls, stale, u, {}, used')
  BY <1>1 DEF Settling, Truth, Types, Grows
<1>3. ASSUME NEW k \in Tickets
      PROVE  NotBehind(k, ent, answer, stale, calls \cup {}, seen'.confirmed, writes)
  BY <1>1 DEF Truth, Told, NotBehind
<1>4. IsSeen(seen') /\ \A j \in jobs' : IsJob(j, used')
  BY GrownTyped DEF Truth, Types
<1>5. u # Nothing  BY PageIsThere DEF Grows
<1>6. \A c \in calls \cup {} : c.at = "done" => c.rev \in 1..Len(writes[c.t])
  BY DEF Truth, Told
<1>7. \A k \in Tickets : seen'.confirmed[k] \in 1..Len(writes[k])
  BY DEF Truth, Told
<1>8. Settle(ent, calls, stale, u, {})  BY DEF ent
<1>9. Truth' /\ Rendered(ui', u) /\ Sends(calls, {})
  BY <1>2, <1>3, <1>4, <1>5, <1>6, <1>7, <1>8, SettleStep
<1> QED  BY <1>9 DEF Sends

LEMMA OpenStep ==
    ASSUME Truth, NEW t \in Tickets, Open(t)
    PROVE  Truth' /\ UNCHANGED <<writes, jobs, seen, used>>
           /\ ui = Nothing /\ Rendered(ui', NewPage(t)) /\ calls' = calls
<1>1. /\ Settle(Subscribed(entry, {t}), calls, stale, NewPage(t), {})
      /\ UNCHANGED <<writes, jobs, seen, used>> /\ ui = Nothing
  BY DEF Open
<1>2. Grows(used, used')  BY <1>1, Unused DEF Truth, Types
<1>3. IsPage(NewPage(t), used')  BY NewPageTyped
<1> QED  BY <1>1, <1>2, <1>3, VisitStep

LEMMA MoveStep ==
    ASSUME Truth, NEW t \in Tickets, Move(t)
    PROVE  /\ Truth' /\ UNCHANGED <<writes, jobs, seen>>
           /\ Grows(used, used') /\ used'.photos = used.photos /\ used'.ids = used.ids
           /\ ui # Nothing /\ IsPage(ui, used) /\ IsPage(Routed(ui, t), used')
           /\ Rendered(ui', Routed(ui, t)) /\ calls' = calls
<1>1. /\ Settle(Subscribed(entry, {t}), calls, stale, Routed(ui, t), {})
      /\ UNCHANGED <<writes, jobs, seen>> /\ ui # Nothing /\ Use("turmoil", MaxTurmoil)
  BY DEF Move
<1>2. IsPage(ui, used) /\ IsUse(used)  BY <1>1 DEF Truth, Types
<1>3. Grows(used, used') /\ used'.photos = used.photos /\ used'.ids = used.ids
  BY <1>1, <1>2, UseGrows
<1>4. IsPage(ui, used')  BY <1>2, <1>3, GrownTyped
<1>5. IsPage(Routed(ui, t), used')  BY <1>4, RoutedTyped
<1>6. Truth' /\ Rendered(ui', Routed(ui, t)) /\ calls' = calls
  BY <1>1, <1>3, <1>5, VisitStep
<1> QED  BY <1>1, <1>2, <1>3, <1>5, <1>6

LEMMA LeaveStep ==
    ASSUME Truth, Leave
    PROVE  /\ Truth' /\ ui' = Nothing /\ calls' = Orphaned(calls) /\ jobs' = Orphaned(jobs)
           /\ UNCHANGED <<writes, seen>>
           /\ Grows(used, used') /\ used'.photos = used.photos /\ used'.ids = used.ids
<1>1. /\ ui' = Nothing /\ calls' = Orphaned(calls) /\ jobs' = Orphaned(jobs)
      /\ UNCHANGED <<writes, entry, answer, stale, seen>> /\ Use("turmoil", MaxTurmoil)
  BY DEF Leave
<1>2. Grows(used, used') /\ used'.photos = used.photos /\ used'.ids = used.ids
  BY <1>1, UseGrows DEF Truth, Types
<1>3. \A c \in calls : IsCall(c)  BY DEF Truth, Types
<1>4. \A c \in calls' : IsCall(c)  BY <1>1, <1>3, OrphanTyped DEF Orphaned
<1>5. \A j \in jobs' : IsJob(j, used')
  <2>1. \A j \in jobs : IsJob(j, used')  BY <1>2, GrownTyped DEF Truth, Types
  <2> QED  BY <1>1, <2>1, OrphanTyped DEF Orphaned
<1>6. Types'  BY <1>1, <1>2, <1>4, <1>5, GrownTyped DEF Truth, Types, Grows
<1>7. ASSUME NEW c \in calls'
      PROVE  ~c.here /\ \E d \in calls : c.t = d.t /\ c.at = d.at /\ c.rev = d.rev
  <2>1. PICK d \in calls : c = [d EXCEPT !.here = FALSE]  BY <1>1 DEF Orphaned
  <2> QED  BY <1>3, <2>1 DEF IsCall, Shared
<1>8. ASSUME NEW j \in jobs' PROVE ~j.here
  <2>1. PICK i \in jobs : j = [i EXCEPT !.here = FALSE]  BY <1>1 DEF Orphaned
  <2> QED  BY <2>1 DEF Truth, Types, IsJob
<1>9. Awaited'  BY <1>7, <1>8 DEF Awaited
<1>10. ASSUME NEW k \in Tickets
       PROVE  NotBehind(k, entry', answer', stale', calls', seen'.confirmed, writes')
  <2>1. ASSUME NEW d \in calls, d.t = k PROVE \E c \in calls' : c.t = k
    <3>1. [d EXCEPT !.here = FALSE] \in calls'  BY <1>1 DEF Orphaned
    <3> QED  BY <1>3, <2>1, <3>1 DEF IsCall, Shared
  <2> QED  BY <1>1, <2>1 DEF Truth, Told, NotBehind
<1>11. Quiet(entry', calls') => stale' = {}
  <2>1. calls' = {} => calls = {}  BY <1>1 DEF Orphaned
  <2> QED  BY <1>1, <2>1 DEF Truth, Told, Quiet
<1>12. Told'  BY <1>1, <1>7, <1>10, <1>11 DEF Truth, Told
<1> QED  BY <1>1, <1>2, <1>6, <1>9, <1>12 DEF Truth

-----------------------------------------------------------------------------
(* The server.                                                             *)

Newest(wr, t) == wr[t][Len(wr[t])]

LEMMA NewestTyped ==
    ASSUME NEW s \in Seq(TicketState), s # <<>>
    PROVE  Len(s) \in Nat \ {0} /\ s[Len(s)] \in TicketState
OBVIOUS

LEMMA AppendTyped ==
    ASSUME NEW s \in Seq(TicketState), NEW d \in TicketState
    PROVE  /\ Append(s, d) \in Seq(TicketState) /\ Append(s, d) # <<>>
           /\ Len(s) \in Nat /\ Len(Append(s, d)) = Len(s) + 1
           /\ Append(s, d)[Len(s) + 1] = d
           /\ \A i \in 1..Len(s) : Append(s, d)[i] = s[i]
OBVIOUS

(* A write leaves what was recent recent.                                  *)
LEMMA StillRecent ==
    ASSUME NEW wr, NEW wr2, NEW t0 \in Tickets, NEW d \in TicketState,
           \A t \in Tickets : wr[t] \in Seq(TicketState),
           wr2[t0] = Append(wr[t0], d), \A t \in Tickets \ {t0} : wr2[t] = wr[t], NEW conf,
           \A t \in Tickets : conf[t] \in 1..Len(wr[t])
    PROVE  /\ \A t \in Tickets : /\ wr2[t] \in Seq(TicketState) /\ Len(wr[t]) <= Len(wr2[t])
                                 /\ conf[t] \in 1..Len(wr2[t])
                                 /\ t # t0 => wr2[t] = wr[t]
           /\ wr2[t0] # <<>>
           /\ Len(wr[t0]) \in Nat /\ Len(wr2[t0]) = Len(wr[t0]) + 1 /\ Newest(wr2, t0) = d
           /\ \A k \in Tickets : \A data : Recent(conf, wr, k, data) => Recent(conf, wr2, k, data)
<1>1. \A t \in Tickets \ {t0} : wr2[t] = wr[t]  OBVIOUS
<1>2. wr2[t0] = Append(wr[t0], d)  OBVIOUS
<1>3. /\ wr2[t0] \in Seq(TicketState) /\ wr2[t0] # <<>>
      /\ Len(wr[t0]) \in Nat /\ Len(wr2[t0]) = Len(wr[t0]) + 1
      /\ wr2[t0][Len(wr[t0]) + 1] = d
      /\ \A i \in 1..Len(wr[t0]) : wr2[t0][i] = wr[t0][i]
  BY <1>2, AppendTyped
<1>4. \A t \in Tickets : /\ wr2[t] \in Seq(TicketState) /\ Len(wr[t]) <= Len(wr2[t])
                         /\ conf[t] \in 1..Len(wr2[t])
  <2> TAKE t \in Tickets
  <2>1. conf[t] \in 1..Len(wr[t]) /\ Len(wr[t]) \in Nat  OBVIOUS
  <2>2. CASE t = t0
    <3>1. wr2[t] \in Seq(TicketState) /\ Len(wr2[t]) = Len(wr[t]) + 1  BY <1>3, <2>2
    <3> QED  BY ONLY <2>1, <3>1
  <2>3. CASE t # t0  BY <1>1, <2>1, <2>3
  <2> QED  BY <2>2, <2>3
<1>5. ASSUME NEW k \in Tickets, NEW data, Recent(conf, wr, k, data)
      PROVE  Recent(conf, wr2, k, data)
  <2>1. CASE k = t0
    <3>1. PICK i \in conf[t0]..Len(wr[t0]) : data = wr[t0][i]  BY <1>5, <2>1 DEF Recent
    <3>2. i \in 1..Len(wr[t0]) /\ i \in conf[t0]..Len(wr2[t0])
      <4>1. conf[t0] \in 1..Len(wr[t0])  OBVIOUS
      <4> QED  BY <1>3, <3>1, <4>1
    <3> QED  BY <1>3, <2>1, <3>1, <3>2 DEF Recent
  <2>2. CASE k # t0  BY <1>1, <1>5, <2>2 DEF Recent
  <2> QED  BY <2>1, <2>2
<1> QED  BY <1>1, <1>3, <1>4, <1>5 DEF Newest

(* What a call that is done makes of the ticket.                           *)
LEMMA EffectTyped ==
    ASSUME NEW c, IsCall(c), Stored(c.t) \in TicketState
    PROVE  /\ Effect(c) \in TicketState
           /\ c.kind = "patch" => Effect(c).photos = Stored(c.t).photos
           /\ c.kind = "upload" =>
                 Effect(c).photos = Stored(c.t).photos \cup
                     {[photo |-> c.photo, id |-> c.id, turn |-> c.turn]}
           /\ c.kind = "delete" =>
                 Effect(c).photos = {f \in Stored(c.t).photos : f.id # c.id}
           /\ c.kind # "patch" => Effect(c).status = Stored(c.t).status
<1> DEFINE old == Stored(c.t)
<1>1. CASE c.kind = "patch"
  <2>1. Effect(c) = Patched(c.patch, old)  BY <1>1 DEF Effect
  <2>2. IsPatch(c.patch)  BY <1>1 DEF IsCall
  <2> HIDE DEF old
  <2>3. old \in TicketState  BY DEF old
  <2>4. Patched(c.patch, old) \in TicketState /\ Patched(c.patch, old).photos = old.photos
    BY ONLY <2>2, <2>3, PatchTyped
  <2> QED  BY <1>1, <2>1, <2>4 DEF old
<1>2. CASE c.kind = "upload"
  <2> DEFINE f == [photo |-> c.photo, id |-> c.id, turn |-> c.turn]
             photos == old.photos \cup {f}
  <2>1. Effect(c) = [old EXCEPT !.photos = photos]  BY <1>2 DEF Effect
  <2>2. f \in [photo : Photos, id : Nat, turn : 0..3]  BY <1>2 DEF IsCall
  <2>3. photos \subseteq [photo : Photos, id : Nat, turn : 0..3]  BY <2>2 DEF TicketState
  <2>4. photos = Stored(c.t).photos \cup {[photo |-> c.photo, id |-> c.id, turn |-> c.turn]}
    OBVIOUS
  <2> HIDE DEF photos, f
  <2>5. Effect(c) \in TicketState /\ Effect(c).photos = photos /\ Effect(c).status = old.status
    BY <2>1, <2>3 DEF TicketState
  <2> QED  BY <1>2, <2>4, <2>5
<1>3. CASE c.kind = "delete"
  <2> DEFINE photos == {f \in old.photos : f.id # c.id}
  <2>1. Effect(c) = [old EXCEPT !.photos = photos]  BY <1>3 DEF Effect
  <2>2. photos \subseteq [photo : Photos, id : Nat, turn : 0..3]  BY DEF TicketState
  <2>3. photos = {f \in Stored(c.t).photos : f.id # c.id}  OBVIOUS
  <2> HIDE DEF photos
  <2>4. Effect(c) \in TicketState /\ Effect(c).photos = photos /\ Effect(c).status = old.status
    BY <2>1, <2>2 DEF TicketState
  <2> QED  BY <1>3, <2>3, <2>4
<1> QED  BY <1>1, <1>2, <1>3 DEF IsCall

(* The call that the server has done.                                      *)
WasDone(e, c) ==
    /\ IsCall(e) /\ e.at = "done"
    /\ e.kind = c.kind /\ e.t = c.t /\ e.here = c.here /\ e.job = c.job
    /\ c.kind \in {"upload", "delete"} => e.photo = c.photo
    /\ c.kind = "upload" => e.turn = c.turn
    /\ c.kind = "delete" => e.id = c.id

LEMMA DoneTyped ==
    ASSUME NEW c, IsCall(c), NEW n \in Nat, NEW rev \in Nat
    PROVE  LET d == IF c.kind = "upload" THEN [c EXCEPT !.id = n] ELSE c
               e == [d EXCEPT !.at = "done", !.rev = rev]
           IN /\ IsCall(d) /\ d.t = c.t /\ d.kind = c.kind
              /\ c.kind = "patch" => d = c
              /\ c.kind = "upload" => d.photo = c.photo /\ d.turn = c.turn /\ d.id = n /\ e.id = n
              /\ c.kind = "delete" => d.id = c.id
              /\ WasDone(e, c) /\ e.rev = rev
<1> DEFINE d == IF c.kind = "upload" THEN [c EXCEPT !.id = n] ELSE c
           e == [d EXCEPT !.at = "done", !.rev = rev]
<1>1. CASE c.kind = "patch"
  <2>1. d = c  BY <1>1
  <2> HIDE DEF d
  <2>2. /\ e.t = c.t /\ e.at = "done" /\ e.here = c.here /\ e.rev = rev /\ e.job = c.job
        /\ e.kind = c.kind /\ e.patch = c.patch /\ e.undo = c.undo /\ e.form = c.form
        /\ DOMAIN e = DOMAIN c
    BY <1>1, <2>1 DEF IsCall, Shared
  <2> HIDE DEF e
  <2>3. IsCall(e)  BY <1>1, <2>2 DEF IsCall
  <2> QED  BY <1>1, <2>1, <2>2, <2>3 DEF WasDone, d, e
<1>2. CASE c.kind = "upload"
  <2>1. d = [c EXCEPT !.id = n]  BY <1>2
  <2> HIDE DEF d
  <2>2. /\ d.t = c.t /\ d.at = c.at /\ d.here = c.here /\ d.rev = c.rev /\ d.job = c.job
        /\ d.kind = c.kind /\ d.photo = c.photo /\ d.id = n /\ d.turn = c.turn
        /\ DOMAIN d = DOMAIN c
    BY <1>2, <2>1 DEF IsCall, Shared
  <2>3. IsCall(d)  BY <1>2, <2>2 DEF IsCall
  <2>4. /\ e.t = c.t /\ e.at = "done" /\ e.here = c.here /\ e.rev = rev /\ e.job = c.job
        /\ e.kind = c.kind /\ e.photo = c.photo /\ e.id = n /\ e.turn = c.turn
        /\ DOMAIN e = DOMAIN c
    BY <1>2, <2>2 DEF IsCall, Shared
  <2> HIDE DEF e
  <2>5. IsCall(e)  BY <1>2, <2>4 DEF IsCall
  <2>6. WasDone(e, c)  BY <1>2, <2>4, <2>5 DEF WasDone
  <2> QED  BY <1>2, <2>2, <2>3, <2>4, <2>6 DEF d, e
<1>3. CASE c.kind = "delete"
  <2>1. d = c  BY <1>3
  <2> HIDE DEF d
  <2>2. /\ e.t = c.t /\ e.at = "done" /\ e.here = c.here /\ e.rev = rev /\ e.job = c.job
        /\ e.kind = c.kind /\ e.photo = c.photo /\ e.id = c.id
        /\ DOMAIN e = DOMAIN c
    BY <1>3, <2>1 DEF IsCall, Shared
  <2> HIDE DEF e
  <2>3. IsCall(e)  BY <1>3, <2>2 DEF IsCall
  <2> QED  BY <1>3, <2>1, <2>2, <2>3 DEF WasDone, d, e
<1> QED  BY <1>1, <1>2, <1>3 DEF IsCall

Photographs(wr, t) == Newest(wr, t).photos

LEMMA ServerStep ==
    ASSUME Truth, NEW c \in calls, ServerDoes(c)
    PROVE  /\ Truth' /\ UNCHANGED <<jobs, ui, seen>> /\ Grows(used, used')
           /\ used'.photos = used.photos /\ c.at = "sent" /\ Allowed(c)
           /\ used'.ids = used.ids + (IF c.kind = "upload" THEN 1 ELSE 0)
           /\ \A t \in Tickets \ {c.t} : writes'[t] = writes[t]
           /\ c.kind # "patch" => Newest(writes', c.t).status = Newest(writes, c.t).status
           /\ \E e : /\ WasDone(e, c) /\ calls' = (calls \ {c}) \cup {e}
                     /\ c.kind = "upload" => e.id = used.ids + 1
                     /\ c.kind = "patch" =>
                           Photographs(writes', c.t) = Photographs(writes, c.t)
                     /\ c.kind = "upload" =>
                           Photographs(writes', c.t) = Photographs(writes, c.t) \cup
                               {[photo |-> e.photo, id |-> e.id, turn |-> e.turn]}
                     /\ c.kind = "delete" =>
                           Photographs(writes', c.t) =
                               {f \in Photographs(writes, c.t) : f.id # e.id}
<1>1. /\ IsCall(c) /\ c.t \in Tickets /\ IsUse(used) /\ used.ids \in Nat
      /\ writes[c.t] \in Seq(TicketState) /\ writes[c.t] # <<>>
      /\ DOMAIN writes = Tickets
  BY DEF Truth, Types, IsCall, IsUse
<1>2. Len(writes[c.t]) \in Nat \ {0} /\ Stored(c.t) \in TicketState
  BY <1>1, NewestTyped DEF Stored
<1> DEFINE n == used.ids + 1
           rev == Len(writes[c.t]) + 1
           d == IF c.kind = "upload" THEN [c EXCEPT !.id = n] ELSE c
           e == [d EXCEPT !.at = "done", !.rev = rev]
<1>3. n \in Nat /\ rev \in Nat  BY <1>1, <1>2
<1>4. /\ c.at = "sent" /\ Allowed(c)
      /\ used' = IF c.kind = "upload" THEN [used EXCEPT !.ids = n] ELSE used
      /\ writes' = [writes EXCEPT ![c.t] = Append(writes[c.t], Effect(d))]
      /\ calls' = (calls \ {c}) \cup {e}
      /\ UNCHANGED <<entry, answer, stale, jobs, ui, seen>>
  BY DEF ServerDoes
<1>5. /\ used'.photos = used.photos
      /\ used'.ids = used.ids + (IF c.kind = "upload" THEN 1 ELSE 0)
      /\ Grows(used, used')
  BY <1>1, <1>4 DEF IsUse, Grows
<1> HIDE DEF n, rev
<1>6. /\ IsCall(d) /\ d.t = c.t /\ d.kind = c.kind
      /\ c.kind = "patch" => d = c
      /\ c.kind = "upload" => d.photo = c.photo /\ d.turn = c.turn /\ d.id = n /\ e.id = n
      /\ c.kind = "delete" => d.id = c.id
      /\ WasDone(e, c) /\ e.rev = rev
  BY ONLY <1>1, <1>3, DoneTyped
<1> HIDE DEF d, e
<1>7. Stored(d.t) \in TicketState  BY <1>2, <1>6
<1>8. /\ Effect(d) \in TicketState
      /\ d.kind = "patch" => Effect(d).photos = Stored(d.t).photos
      /\ d.kind = "upload" => Effect(d).photos = Stored(d.t).photos \cup
                                  {[photo |-> d.photo, id |-> d.id, turn |-> d.turn]}
      /\ d.kind = "delete" => Effect(d).photos = {f \in Stored(d.t).photos : f.id # d.id}
      /\ d.kind # "patch" => Effect(d).status = Stored(d.t).status
  BY ONLY <1>6, <1>7, EffectTyped
<1>9. \A t \in Tickets : writes[t] \in Seq(TicketState) /\ seen.confirmed[t] \in 1..Len(writes[t])
  BY DEF Truth, Types, Told
<1>10. /\ DOMAIN writes' = Tickets
       /\ \A t \in Tickets : /\ writes'[t] \in Seq(TicketState)
                             /\ Len(writes[t]) <= Len(writes'[t])
                             /\ seen.confirmed[t] \in 1..Len(writes'[t])
                             /\ t # c.t => writes'[t] = writes[t]
       /\ writes'[c.t] # <<>>
       /\ Len(writes[c.t]) \in Nat /\ Len(writes'[c.t]) = Len(writes[c.t]) + 1
       /\ Newest(writes', c.t) = Effect(d)
       /\ \A k \in Tickets : \A data :
             Recent(seen.confirmed, writes, k, data) => Recent(seen.confirmed, writes', k, data)
  <2> DEFINE x == Effect(d)
             conf == seen.confirmed
  <2>1. x \in TicketState  BY <1>8
  <2>6. /\ DOMAIN writes' = Tickets /\ writes'[c.t] = Append(writes[c.t], x)
        /\ \A t \in Tickets \ {c.t} : writes'[t] = writes[t]
    BY <1>1, <1>4
  <2>2. \A t \in Tickets : writes[t] \in Seq(TicketState)  BY <1>9
  <2>3. \A t \in Tickets : conf[t] \in 1..Len(writes[t])  BY <1>9
  <2>4. c.t \in Tickets  BY <1>1
  <2> HIDE DEF x, conf
  <2>5. /\ \A t \in Tickets : /\ writes'[t] \in Seq(TicketState)
                              /\ Len(writes[t]) <= Len(writes'[t])
                              /\ conf[t] \in 1..Len(writes'[t])
                              /\ t # c.t => writes'[t] = writes[t]
        /\ writes'[c.t] # <<>>
        /\ Len(writes[c.t]) \in Nat /\ Len(writes'[c.t]) = Len(writes[c.t]) + 1
        /\ Newest(writes', c.t) = x
        /\ \A k \in Tickets : \A data :
              Recent(conf, writes, k, data) => Recent(conf, writes', k, data)
    BY ONLY <2>1, <2>2, <2>3, <2>4, <2>6, StillRecent
  <2> QED  BY <2>5, <2>6 DEF x, conf
<1>11. Newest(writes, c.t) = Stored(c.t)  BY DEF Newest, Stored
<1>12. \A b \in calls' : IsCall(b)  BY <1>4, <1>6 DEF WasDone, Truth, Types
<1>13. Types'
  <2>1. \A t \in Tickets : writes'[t] # <<>>
    BY <1>10 DEF Truth, Types
  <2>2. \A j \in jobs' : IsJob(j, used')  BY <1>4, <1>5, GrownTyped DEF Truth, Types
  <2>3. ui' # Nothing => IsPage(ui', used')  BY <1>4, <1>5, GrownTyped DEF Truth, Types
  <2>4. IsSeen(seen')  BY <1>4, <1>5, GrownTyped DEF Truth, Types
  <2>5. IsUse(used')  BY <1>5 DEF Grows
  <2> QED  BY <1>4, <1>10, <1>12, <2>1, <2>2, <2>3, <2>4, <2>5 DEF Truth, Types
<1>14. Awaited'  BY <1>4, <1>6 DEF WasDone, Truth, Awaited
<1>15. \A b \in calls' : b.at = "done" => b.rev \in 1..Len(writes'[b.t])
  <2> SUFFICES ASSUME NEW b \in calls', b.at = "done" PROVE b.rev \in 1..Len(writes'[b.t])
    OBVIOUS
  <2>1. CASE b = e
    <3>1. b.rev = Len(writes[c.t]) + 1 /\ b.t = c.t  BY <1>6, <2>1 DEF rev, WasDone
    <3> QED  BY <1>10, <3>1
  <2>2. CASE b # e
    <3>1. b \in calls /\ b.t \in Tickets  BY <1>4, <2>2 DEF Truth, Types, IsCall
    <3>2. b.rev \in 1..Len(writes[b.t])  BY <2>2, <3>1 DEF Truth, Told
    <3>3. Len(writes[b.t]) <= Len(writes'[b.t]) /\ Len(writes[b.t]) \in Nat
          /\ Len(writes'[b.t]) \in Nat
      BY <1>9, <1>10, <3>1
    <3> QED  BY <3>2, <3>3
  <2> QED  BY <2>1, <2>2
<1>16. \A k \in Tickets : NotBehind(k, entry', answer', stale', calls', seen'.confirmed, writes')
  <2> TAKE k \in Tickets
  <2>1. NotBehind(k, entry, answer, stale, calls, seen.confirmed, writes)
    BY DEF Truth, Told
  <2>2. (\E b \in calls : b.t = k) => \E b \in calls' : b.t = k
    BY <1>4, <1>6 DEF WasDone
  <2> QED  BY <1>4, <1>10, <2>1, <2>2 DEF NotBehind
<1>17. Told'
  <2>1. calls' # {}  BY <1>4
  <2> QED  BY <1>4, <1>10, <1>15, <1>16, <2>1 DEF Truth, Told, Quiet
<1>18. c.kind # "patch" => Newest(writes', c.t).status = Newest(writes, c.t).status
  BY <1>6, <1>8, <1>10, <1>11
<1>19. /\ c.kind = "patch" => Photographs(writes', c.t) = Photographs(writes, c.t)
       /\ c.kind = "upload" =>
             Photographs(writes', c.t) = Photographs(writes, c.t) \cup
                 {[photo |-> e.photo, id |-> e.id, turn |-> e.turn]}
       /\ c.kind = "delete" =>
             Photographs(writes', c.t) = {f \in Photographs(writes, c.t) : f.id # e.id}
  BY <1>6, <1>8, <1>10, <1>11 DEF Photographs, WasDone
<1> QED  BY <1>4, <1>5, <1>6, <1>10, <1>13, <1>14, <1>17, <1>18, <1>19 DEF Truth, n

-----------------------------------------------------------------------------
(* The answers.                                                            *)

LEMMA PreviewsAfterTyped ==
    ASSUME NEW us, IsUse(us), ui # Nothing => IsPage(ui, us),
           NEW c, IsCall(c), c.here => ui # Nothing, NEW ok \in BOOLEAN
    PROVE  LET u == PreviewsAfter(c, ok)
           IN /\ ui = Nothing => u = Nothing
              /\ ui # Nothing => IsPage(u, us) /\ u.t = ui.t /\ u.pane = ui.pane
              /\ ~c.here => u = ui
              /\ c.kind = "upload" /\ ~(ok /\ c.photo \in DOMAIN ui.previews) => u = ui
              /\ c.here /\ c.kind = "upload" /\ ok /\ c.photo \in DOMAIN ui.previews =>
                    /\ u.removing = ui.removing /\ DOMAIN u.previews = DOMAIN ui.previews
                    /\ \A q \in DOMAIN ui.previews :
                          /\ q # c.photo => u.previews[q] = ui.previews[q]
                          /\ u.previews[q].file = ui.previews[q].file
                          /\ u.previews[q].turn = ui.previews[q].turn
                          /\ u.previews[q].carried = ui.previews[q].carried
                    /\ u.previews[c.photo].id = c.id
              /\ c.here /\ c.kind = "delete" =>
                    /\ u.removing = Nothing
                    /\ DOMAIN u.previews =
                          IF ok THEN DOMAIN ui.previews \ {c.photo} ELSE DOMAIN ui.previews
                    /\ \A q \in DOMAIN u.previews : u.previews[q] = ui.previews[q]
              /\ c.kind = "patch" /\ ui # Nothing =>
                    u.removing = ui.removing /\ u.previews = ui.previews
<1> DEFINE u == PreviewsAfter(c, ok)
<1>1. ASSUME ui # Nothing
      PROVE  /\ IsPage(ui, us) /\ ui \in PageState(DOMAIN ui.previews)
             /\ ui.previews \in [DOMAIN ui.previews -> Preview]
             /\ DOMAIN ui.previews \subseteq 1..us.photos
  BY <1>1 DEF IsPage, PageState
<1>2. CASE c.here /\ c.kind = "upload" /\ ok /\ c.photo \in DOMAIN ui.previews
  <2> DEFINE p == c.photo
             new == [ui.previews[p] EXCEPT !.id = c.id]
             prev == [ui.previews EXCEPT ![p] = new]
  <2>1. u = [ui EXCEPT !.previews[c.photo].id = c.id]  BY <1>2 DEF PreviewsAfter
  <2>2. u = [ui EXCEPT !.previews = prev]  BY <2>1
  <2>3. c.id \in Nat /\ ui # Nothing /\ p \in DOMAIN ui.previews  BY <1>2 DEF IsCall
  <2>4. ui.previews[p] \in Preview  BY <1>1, <2>3
  <2> DEFINE id == c.id
  <2>5. id \in Nat  BY <2>3
  <2> HIDE DEF id
  <2>6. new = [ui.previews[p] EXCEPT !.id = id]  BY DEF id
  <2> HIDE DEF new, p
  <2>7. /\ new \in Preview /\ new.id = id /\ new.file = ui.previews[p].file
        /\ new.turn = ui.previews[p].turn /\ new.carried = ui.previews[p].carried
    BY <2>4, <2>5, <2>6 DEF Preview
  <2>8. /\ prev \in [DOMAIN ui.previews -> Preview] /\ prev[p] = new
        /\ \A q \in DOMAIN ui.previews \ {p} : prev[q] = ui.previews[q]
    BY <1>1, <2>3, <2>7
  <2> HIDE DEF u, prev
  <2>9. /\ IsPage(u, us) /\ u.t = ui.t /\ u.pane = ui.pane
        /\ u.removing = ui.removing /\ u.previews = prev
    BY <1>1, <2>2, <2>3, <2>8, PreviewsTyped
  <2>10. DOMAIN u.previews = DOMAIN ui.previews  BY <2>8, <2>9
  <2> QED  BY <1>2, <2>3, <2>7, <2>8, <2>9, <2>10 DEF u, p, id
<1>3. CASE c.here /\ c.kind = "delete"
  <2> DEFINE prev == IF ok THEN Without(ui.previews, c.photo) ELSE ui.previews
             ps == IF ok THEN DOMAIN ui.previews \ {c.photo} ELSE DOMAIN ui.previews
  <2>1. u = [ui EXCEPT !.removing = Nothing, !.previews = prev]  BY <1>3 DEF PreviewsAfter
  <2>2. ui # Nothing  BY <1>3
  <2>3. /\ ps \subseteq 1..us.photos /\ prev \in [ps -> Preview]
        /\ \A q \in ps : prev[q] = ui.previews[q]
    <3> DEFINE p == c.photo
    <3>1. IsPage(ui, us)  BY <1>1, <2>2
    <3> HIDE DEF p
    <3>2. /\ DOMAIN ui.previews \ {p} \subseteq 1..us.photos
          /\ Without(ui.previews, p) \in [DOMAIN ui.previews \ {p} -> Preview]
          /\ \A q \in DOMAIN ui.previews \ {p} : Without(ui.previews, p)[q] = ui.previews[q]
      BY ONLY <3>1, WithoutTyped
    <3>3. CASE ok  BY <3>2, <3>3 DEF p
    <3>4. CASE ~ok  BY <1>1, <2>2, <3>4
    <3> QED  BY <3>3, <3>4
  <2>4. ps = IF ok THEN DOMAIN ui.previews \ {c.photo} ELSE DOMAIN ui.previews  OBVIOUS
  <2> HIDE DEF prev, ps, u
  <2>5. /\ u \in PageState(ps) /\ u.removing = Nothing /\ u.previews = prev
        /\ u.t = ui.t /\ u.pane = ui.pane /\ u.sheet = ui.sheet /\ u.form = ui.form
    BY <1>1, <2>1, <2>2, <2>3 DEF PageState
  <2>6. DOMAIN u.previews = ps  BY <2>3, <2>5
  <2>7. IsPage(u, us)  BY <1>1, <2>2, <2>3, <2>5, <2>6 DEF IsPage
  <2> QED  BY <1>3, <2>2, <2>3, <2>4, <2>5, <2>6, <2>7 DEF u
<1>4. CASE c.here /\ c.kind = "patch" /\ ok /\ c.job = 0 /\ ui.sheet = "assign"
  <2>1. u = [ui EXCEPT !.sheet = "none", !.form = Nothing]  BY <1>4 DEF PreviewsAfter
  <2>2. ui # Nothing  BY <1>4
  <2> HIDE DEF u
  <2>3. /\ u \in PageState(DOMAIN ui.previews) /\ u.removing = ui.removing
        /\ u.previews = ui.previews /\ u.t = ui.t /\ u.pane = ui.pane
        /\ u.sheet = "none" /\ u.form = Nothing
    BY <1>1, <2>1, <2>2 DEF PageState
  <2>4. IsPage(u, us)  BY <1>1, <2>2, <2>3 DEF IsPage
  <2> QED  BY <1>4, <2>2, <2>3, <2>4 DEF u
<1>5. CASE /\ ~(c.here /\ c.kind = "upload" /\ ok /\ c.photo \in DOMAIN ui.previews)
           /\ ~(c.here /\ c.kind = "delete")
           /\ ~(c.here /\ c.kind = "patch" /\ ok /\ c.job = 0 /\ ui.sheet = "assign")
  <2>1. u = ui  BY <1>5 DEF PreviewsAfter
  <2> QED  BY <1>1, <1>5, <2>1
<1> QED  BY <1>2, <1>3, <1>4, <1>5

LEMMA ClosedTyped ==
    ASSUME NEW us, IsUse(us), ui # Nothing => IsPage(ui, us),
           NEW c, c.t \in Tickets, c.here => ui # Nothing
    PROVE  LET u == Closed(c)
           IN /\ IsPage(u, us) /\ u.t = c.t
              /\ ui = Nothing => u.previews = <<>>
              /\ c.here => u.previews = <<>>
              /\ ui # Nothing => u.pane = ui.pane /\ u.removing = ui.removing
              /\ ui # Nothing /\ ~c.here => u.previews = ui.previews
<1> DEFINE u == IF c.here THEN [ui EXCEPT !.sheet = "none", !.previews = <<>>] ELSE ui
<1>1. Closed(c) = Routed(u, c.t)  BY DEF Closed
<1>2. /\ u # Nothing => IsPage(u, us)
      /\ c.here => /\ u # Nothing /\ u.previews = <<>>
                   /\ u.pane = ui.pane /\ u.removing = ui.removing
      /\ ~c.here => u = ui
  <2>1. CASE c.here
    <3>1. IsPage(ui, us) /\ ui \in PageState(DOMAIN ui.previews)  BY <2>1 DEF IsPage
    <3>2. u = [ui EXCEPT !.sheet = "none", !.previews = <<>>]  BY <2>1
    <3> HIDE DEF u
    <3>3. /\ u \in PageState({}) /\ u.previews = <<>> /\ u.t = ui.t /\ u.pane = ui.pane
          /\ u.form = ui.form /\ u.removing = ui.removing /\ u.sheet = "none"
      BY <3>1, <3>2, EmptyPreviews DEF PageState
    <3>4. IsPage(u, us)  BY <3>1, <3>3, EmptyPreviews DEF IsPage
    <3>5. u # Nothing  BY <3>4, PageIsThere
    <3> QED  BY <2>1, <3>3, <3>4, <3>5
  <2>2. CASE ~c.here
    <3>1. u = ui  BY <2>2
    <3> QED  BY <2>2, <3>1
  <2> QED  BY <2>1, <2>2
<1> HIDE DEF u
<1>3. /\ IsPage(Routed(u, c.t), us) /\ Routed(u, c.t).t = c.t
      /\ u # Nothing => /\ Routed(u, c.t).pane = u.pane
                        /\ Routed(u, c.t).previews = u.previews
                        /\ Routed(u, c.t).removing = u.removing
      /\ u = Nothing => Routed(u, c.t).previews = <<>>
  <2> DEFINE t == c.t
  <2>1. t \in Tickets /\ (u # Nothing => IsPage(u, us))  BY <1>2
  <2> HIDE DEF t
  <2>2. /\ IsPage(Routed(u, t), us) /\ Routed(u, t).t = t
        /\ u # Nothing => /\ Routed(u, t).pane = u.pane
                          /\ Routed(u, t).previews = u.previews
                          /\ Routed(u, t).removing = u.removing
        /\ u = Nothing => Routed(u, t) = NewPage(t)
    BY ONLY <2>1, RoutedTyped
  <2>3. NewPage(t).previews = <<>>  BY ONLY <2>1, NewPageTyped
  <2> QED  BY <2>2, <2>3 DEF t
<1> QED  BY <1>1, <1>2, <1>3

(* A submission after an answer to one of its uploads.                     *)
LEMMA UploadedTyped ==
    ASSUME NEW us, NEW j, IsJob(j, us), NEW p, NEW ok \in BOOLEAN
    PROVE  LET k == Uploaded(j, p, ok)
           IN /\ IsJob(k, us) /\ k.no = j.no /\ k.t = j.t /\ k.keep = j.keep /\ k.here = j.here
              /\ k.todo = j.todo \ {p} /\ (k.failed <=> j.failed \/ ~ok)
<1> DEFINE todo == j.todo \ {p}
           failed == j.failed \/ ~ok
           k == [j EXCEPT !.todo = todo, !.failed = failed]
<1>1. Uploaded(j, p, ok) = k  BY DEF Uploaded
<1>2. todo \subseteq DOMAIN j.keep /\ failed \in BOOLEAN  BY DEF IsJob
<1>3. DOMAIN j = {"no", "t", "keep", "todo", "failed", "here"}  BY DEF IsJob
<1>4. todo = j.todo \ {p} /\ (failed <=> j.failed \/ ~ok)  OBVIOUS
<1> HIDE DEF todo, failed
<1>5. /\ k.no = j.no /\ k.t = j.t /\ k.keep = j.keep /\ k.here = j.here
      /\ k.todo = todo /\ k.failed = failed /\ DOMAIN k = DOMAIN j
  BY <1>3
<1> HIDE DEF k
<1>6. IsJob(k, us)  BY <1>2, <1>5 DEF IsJob
<1> QED  BY <1>1, <1>4, <1>5, <1>6

(* How an entry comes out of a call of another ticket: as it was.          *)
LEMMA ConfirmedTyped ==
    ASSUME NEW ent, IsCache(ent), NEW c, IsCall(c), NEW ok \in BOOLEAN
    PROVE  LET e == IF ok THEN Confirmed(c, ent) ELSE TakenBack(c, ent)
           IN IsCache(e) /\ \A k \in Tickets \ {c.t} : e[k] = ent[k]
<1> DEFINE e == IF ok THEN Confirmed(c, ent) ELSE TakenBack(c, ent)
<1>1. CASE c.kind = "patch"
  <2> DEFINE x == IF ok THEN Drafted(ent[c.t], c.patch) ELSE Drafted(ent[c.t], c.undo)
  <2>1. e = [ent EXCEPT ![c.t] = x]  BY <1>1 DEF Confirmed, TakenBack
  <2>2. IsEntry(ent[c.t]) /\ IsPatch(c.patch) /\ IsPatch(c.undo)
    BY <1>1 DEF IsCache, IsCall
  <2>3. IsEntry(x)  BY <2>2, DraftTyped
  <2> DEFINE t == c.t
  <2> HIDE DEF x, e
  <2>4. e = [ent EXCEPT ![t] = x]  BY <2>1
  <2> HIDE DEF t
  <2>5. IsCache([ent EXCEPT ![t] = x]) /\ \A l \in Tickets \ {t} : [ent EXCEPT ![t] = x][l] = ent[l]
    BY ONLY <2>3, IsCache(ent), ChangedEntry
  <2> QED  BY <2>4, <2>5 DEF e, t
<1>2. CASE c.kind # "patch"  BY <1>2 DEF Confirmed, TakenBack
<1> QED  BY <1>1, <1>2

(* What an answer, or the lack of one, may do to the observations.         *)
Confirming(c) ==
    /\ UNCHANGED writes
    /\ Grows(used, used')
    /\ IsSeen(seen')
    /\ \A k \in Tickets : seen'.confirmed[k] \in 1..Len(writes[k])
    /\ \A k \in Tickets \ {c.t} : seen'.confirmed[k] = seen.confirmed[k]

Ending(c, ent, u, new) ==
    /\ IsCache(ent)
    /\ \A k \in Tickets \ {c.t} : ent[k] = entry[k] \/ ent[k].status = "pending"
    /\ u # Nothing => IsPage(u, used')
    /\ new = {} \/ \E n : new = {n}
    /\ \A n \in new : IsCall(n) /\ n.at = "sent"
    /\ Settle(ent, calls \ {c}, stale \cup Invalidates(c), u, new)
    /\ \A j \in jobs' : IsJob(j, used')
    /\ \A x \in (calls \ {c}) \cup new \cup jobs' : x.here => u # Nothing

LEMMA OverSettle ==
    ASSUME Truth, NEW c \in calls, Confirming(c), NEW ent, NEW u, NEW new,
           Ending(c, ent, u, new)
    PROVE  Truth' /\ Rendered(ui', u) /\ Sends(calls \ {c}, new)
<1> DEFINE cs == calls \ {c}
           tags == stale \cup Invalidates(c)
<1>0. /\ IsCache(ent)
      /\ \A k \in Tickets \ {c.t} : ent[k] = entry[k] \/ ent[k].status = "pending"
      /\ u # Nothing => IsPage(u, used')
      /\ new = {} \/ \E n : new = {n}
      /\ \A n \in new : IsCall(n) /\ n.at = "sent"
      /\ Settle(ent, cs, tags, u, new)
      /\ \A j \in jobs' : IsJob(j, used')
      /\ \A x \in cs \cup new \cup jobs' : x.here => u # Nothing
  BY DEF Ending
<1>1. IsCall(c) /\ c.t \in Tickets  BY DEF Truth, Types, IsCall
<1>2. tags \subseteq Tickets /\ c.t \in tags /\ stale \subseteq tags
  BY <1>1 DEF Invalidates, Truth, Types
<1>3. \A b \in cs : IsCall(b) /\ (b.at = "done" => b.rev \in 1..Len(writes[b.t]))
  BY DEF Truth, Types, Told
<1>4. ASSUME NEW k \in Tickets
      PROVE  NotBehind(k, ent, answer, tags, cs \cup new, seen'.confirmed, writes)
  <2>1. CASE k = c.t  BY <1>2, <2>1 DEF NotBehind
  <2>2. CASE k # c.t
    <3>1. NotBehind(k, entry, answer, stale, calls, seen.confirmed, writes)
      BY DEF Truth, Told
    <3>2. seen'.confirmed[k] = seen.confirmed[k]  BY <2>2 DEF Confirming
    <3>3. (\E b \in calls : b.t = k) => \E b \in cs \cup new : b.t = k  BY <2>2
    <3>4. ent[k] = entry[k] \/ ent[k].status = "pending"  BY <1>0, <2>2
    <3> HIDE DEF cs, tags
    <3>5. Recent(seen.confirmed, writes, k, ent[k].data) =>
              Recent(seen'.confirmed, writes, k, ent[k].data)
      BY <3>2 DEF Recent
    <3>6. Recent(seen.confirmed, writes, k, answer[k]) =>
              Recent(seen'.confirmed, writes, k, answer[k])
      BY <3>2 DEF Recent
    <3> QED  BY <1>2, <3>1, <3>3, <3>4, <3>5, <3>6 DEF NotBehind
  <2> QED  BY <2>1, <2>2
<1>5. /\ \A b \in cs \cup new : b.at = "done" => b.rev \in 1..Len(writes[b.t])
      /\ \A x \in cs \cup new \cup jobs' : x.here => u # Nothing
      /\ Settle(ent, cs, tags, u, new)
  BY <1>0, <1>3
<1>6. Settling(ent, cs, tags, u, new, used')
  BY <1>0, <1>2, <1>3 DEF Settling, Confirming, Grows
<1> HIDE DEF cs, tags
<1>7. Truth' /\ Rendered(ui', u) /\ Sends(cs, new)
  BY <1>0, <1>4, <1>5, <1>6, SettleStep DEF Confirming
<1> QED  BY <1>7 DEF cs

(* The shapes of a step that ends a call.                                  *)
EndsAlone(c, ok) ==
    /\ c.job = 0
    /\ jobs' = jobs /\ calls' = calls \ {c}
    /\ Rendered(ui', PreviewsAfter(c, ok))

EndsSubmission(c, ok, j) ==
    /\ j \in jobs /\ j.no = c.job /\ c.job # 0 /\ c.kind = "patch"
    /\ jobs' = jobs \ {j} /\ calls' = calls \ {c}
    /\ Rendered(ui', IF ok THEN Closed(c) ELSE ui)

EndsUpload(c, ok, j) ==
    /\ j \in jobs /\ j.no = c.job /\ c.job # 0 /\ c.kind # "patch"
    /\ Rendered(ui', PreviewsAfter(c, ok))
    /\ LET k == Uploaded(j, c.photo, ok)
       IN \/ /\ ~GoesOn(k)
             /\ jobs' = jobs \ {j} /\ calls' = calls \ {c}
          \/ /\ IsJob(k, used')
             /\ jobs' = (jobs \ {j}) \cup {k}
             /\ \E n, m : IsNext(n, k) /\ Resent(m, n) /\ calls' = (calls \ {c}) \cup {m}

LEMMA OverStep ==
    ASSUME Truth, NEW c \in calls, NEW ok \in BOOLEAN, Over(c, ok), Confirming(c)
    PROVE  /\ Truth'
           /\ \/ EndsAlone(c, ok)
              \/ \E j \in jobs : EndsSubmission(c, ok, j) \/ EndsUpload(c, ok, j)
<1> DEFINE ent == IF ok THEN Confirmed(c, entry) ELSE TakenBack(c, entry)
           cs == calls \ {c}
           tags == stale \cup Invalidates(c)
           after == PreviewsAfter(c, ok)
<1>1. /\ IsCall(c) /\ c.t \in Tickets /\ IsCache(entry) /\ IsUse(used) /\ IsUse(used')
      /\ c.here => ui # Nothing
  BY DEF Truth, Types, IsCall, Awaited, Confirming, Grows
<1>2. /\ \A j \in jobs : IsJob(j, used) /\ IsJob(j, used')
      /\ ui # Nothing => IsPage(ui, used')
      /\ \A x \in calls \cup jobs : x.here => ui # Nothing
  BY GrownTyped DEF Truth, Types, Confirming, Awaited
<1>3. IsCache(ent) /\ \A k \in Tickets \ {c.t} : ent[k] = entry[k]
  BY <1>1, ConfirmedTyped
<1>4. /\ ui = Nothing => after = Nothing
      /\ ui # Nothing => IsPage(after, used')
  BY <1>1, <1>2, PreviewsAfterTyped
<1>5. ui # Nothing => after # Nothing  BY <1>1, <1>4, PageIsThere
<1>6. IsPage(Closed(c), used')  BY <1>1, <1>2, ClosedTyped
<1>7. Closed(c) # Nothing  BY <1>1, <1>6, PageIsThere
<1>8. IF c.job = 0
      THEN Settle(ent, cs, tags, after, {}) /\ UNCHANGED jobs
      ELSE \E j \in jobs :
         /\ j.no = c.job
         /\ IF c.kind = "patch"
            THEN /\ jobs' = jobs \ {j}
                 /\ IF ok
                    THEN Settle(Subscribed(ent, {c.t}), cs, tags, Closed(c), {})
                    ELSE Settle(ent, cs, tags, ui, {})
            ELSE LET k == Uploaded(j, c.photo, ok)
                 IN /\ jobs' = (jobs \ {j}) \cup (IF GoesOn(k) THEN {k} ELSE {})
                    /\ Settle(ent, cs, tags, after, IF GoesOn(k) THEN {NextCall(k)} ELSE {})
  BY DEF Over
<1> HIDE DEF ent, after
<1>9. CASE c.job = 0
  <2>1. Settle(ent, calls \ {c}, stale \cup Invalidates(c), after, {}) /\ jobs' = jobs
    BY <1>8, <1>9
  <2>2. \A x \in (calls \ {c}) \cup {} \cup jobs' : x.here => after # Nothing
    BY <1>2, <1>5, <2>1
  <2>3. Ending(c, ent, after, {})  BY <1>2, <1>3, <1>4, <2>1, <2>2 DEF Ending
  <2>4. Truth' /\ Rendered(ui', after) /\ Sends(calls \ {c}, {})  BY <2>3, OverSettle
  <2> QED  BY <1>9, <2>1, <2>4 DEF EndsAlone, after, Sends
<1>10. CASE c.job # 0 /\ c.kind = "patch"
  <2>1. PICK j \in jobs :
           /\ j.no = c.job /\ jobs' = jobs \ {j}
           /\ IF ok
              THEN Settle(Subscribed(ent, {c.t}), calls \ {c}, stale \cup Invalidates(c), Closed(c), {})
              ELSE Settle(ent, calls \ {c}, stale \cup Invalidates(c), ui, {})
    BY <1>8, <1>10
  <2> DEFINE u == IF ok THEN Closed(c) ELSE ui
             e == IF ok THEN Subscribed(ent, {c.t}) ELSE ent
  <2>2. Settle(e, calls \ {c}, stale \cup Invalidates(c), u, {})  BY <2>1
  <2>3. IsCache(e) /\ \A k \in Tickets \ {c.t} : e[k] = entry[k] \/ e[k].status = "pending"
    <3>1. CASE ok
      <4>1. /\ IsCache(Subscribed(ent, {c.t}))
            /\ \A k \in Tickets : \/ Subscribed(ent, {c.t})[k] = ent[k]
                                  \/ Subscribed(ent, {c.t})[k].status = "pending"
        BY <1>3, AskedEntry
      <4> QED  BY <1>3, <3>1, <4>1
    <3>2. CASE ~ok  BY <1>3, <3>2
    <3> QED  BY <3>1, <3>2
  <2>4. /\ u # Nothing => IsPage(u, used')
        /\ ui # Nothing => u # Nothing
    BY <1>2, <1>6, <1>7
  <2>5. u = IF ok THEN Closed(c) ELSE ui  OBVIOUS
  <2> HIDE DEF u, e
  <2>6. \A x \in (calls \ {c}) \cup {} \cup jobs' : x.here => u # Nothing
    BY <1>2, <2>1, <2>4
  <2>7. \A i \in jobs' : IsJob(i, used')  BY <1>2, <2>1
  <2>8. Ending(c, e, u, {})  BY <2>2, <2>3, <2>4, <2>6, <2>7 DEF Ending
  <2>9. Truth' /\ Rendered(ui', u) /\ Sends(calls \ {c}, {})  BY <2>8, OverSettle
  <2> QED  BY <1>10, <2>1, <2>5, <2>9 DEF EndsSubmission, Sends
<1>11. CASE c.job # 0 /\ c.kind # "patch"
  <2>1. PICK j \in jobs :
           /\ j.no = c.job
           /\ LET k == Uploaded(j, c.photo, ok)
              IN /\ jobs' = (jobs \ {j}) \cup (IF GoesOn(k) THEN {k} ELSE {})
                 /\ Settle(ent, calls \ {c}, stale \cup Invalidates(c), after,
                           IF GoesOn(k) THEN {NextCall(k)} ELSE {})
    BY <1>8, <1>11
  <2> DEFINE k == Uploaded(j, c.photo, ok)
  <2>2. IsJob(k, used') /\ k.here = j.here  BY <1>2, UploadedTyped
  <2>3. GoesOn(k) => IsNext(NextCall(k), k)
    <3>1. IsUse(used') /\ IsJob(k, used')  BY <1>1, <2>2
    <3> HIDE DEF k
    <3> QED  BY <3>1, NextCallTyped
  <2>4. Truth' /\ EndsUpload(c, ok, j)
    <3>1. CASE ~GoesOn(k)
      <4>1. /\ jobs' = jobs \ {j}
            /\ Settle(ent, calls \ {c}, stale \cup Invalidates(c), after, {})
        BY <2>1, <3>1
      <4>2. \A x \in (calls \ {c}) \cup {} \cup jobs' : x.here => after # Nothing
        BY <1>2, <1>5, <4>1
      <4>3. \A i \in jobs' : IsJob(i, used')  BY <1>2, <4>1
      <4>4. Ending(c, ent, after, {})  BY <1>2, <1>3, <1>4, <4>1, <4>2, <4>3 DEF Ending
      <4>5. Truth' /\ Rendered(ui', after) /\ Sends(calls \ {c}, {})  BY <4>4, OverSettle
      <4> QED  BY <1>11, <2>1, <3>1, <4>1, <4>5 DEF EndsUpload, after, Sends
    <3>2. CASE GoesOn(k)
      <4> DEFINE n == NextCall(k)
      <4>1. /\ jobs' = (jobs \ {j}) \cup {k}
            /\ Settle(ent, calls \ {c}, stale \cup Invalidates(c), after, {n})
        BY <2>1, <3>2
      <4>2. IsNext(n, k)  BY <2>3, <3>2
      <4> HIDE DEF n
      <4>3. IsCall(n) /\ n.at = "sent" /\ n.here = k.here  BY <4>2 DEF IsNext
      <4> HIDE DEF k
      <4>4. \A x \in (calls \ {c}) \cup {n} \cup jobs' : x.here => after # Nothing
        BY <1>2, <1>5, <2>2, <4>1, <4>3
      <4>5. \A i \in jobs' : IsJob(i, used')  BY <1>2, <2>2, <4>1
      <4>6. Ending(c, ent, after, {n})
        BY <1>2, <1>3, <1>4, <4>1, <4>3, <4>4, <4>5 DEF Ending
      <4>8. Truth' /\ Rendered(ui', after) /\ Sends(calls \ {c}, {n})  BY <4>6, OverSettle
      <4>9. \E m : Resent(m, n) /\ calls' = (calls \ {c}) \cup {m}  BY <4>8 DEF Sends
      <4>7. \E a, m : IsNext(a, k) /\ Resent(m, a) /\ calls' = (calls \ {c}) \cup {m}
        BY <4>2, <4>9
      <4> QED  BY <1>11, <2>1, <2>2, <4>1, <4>7, <4>8 DEF EndsUpload, after, k
    <3> QED  BY <3>1, <3>2
  <2> QED  BY <2>1, <2>4
<1> QED  BY <1>9, <1>10, <1>11

LEMMA AnsweredStep ==
    ASSUME Truth, NEW c \in calls, Answered(c)
    PROVE  /\ Truth' /\ UNCHANGED <<writes, used>> /\ c.at = "done"
           /\ \/ EndsAlone(c, TRUE)
              \/ \E j \in jobs : EndsSubmission(c, TRUE, j) \/ EndsUpload(c, TRUE, j)
           /\ IsSeen(seen')
           /\ seen'.copies = seen.copies /\ seen'.unsure = seen.unsure
           /\ seen'.carried = seen.carried
           /\ seen'.removed = IF c.kind = "delete" THEN seen.removed \cup {c.photo}
                              ELSE seen.removed
<1> DEFINE conf == [seen.confirmed EXCEPT
                       ![c.t] = IF c.rev > seen.confirmed[c.t] THEN c.rev ELSE seen.confirmed[c.t]]
           removed == IF c.kind = "delete" THEN seen.removed \cup {c.photo} ELSE seen.removed
<1>1. /\ Over(c, TRUE) /\ UNCHANGED <<role, writes, used>> /\ c.at = "done"
      /\ seen' = [seen EXCEPT !.confirmed = conf, !.removed = removed]
  BY DEF Answered
<1>2. /\ IsCall(c) /\ c.t \in Tickets /\ IsSeen(seen) /\ IsUse(used)
      /\ c.rev \in 1..Len(writes[c.t])
      /\ \A k \in Tickets : seen.confirmed[k] \in 1..Len(writes[k])
  BY <1>1 DEF Truth, Types, Told, IsCall
<1>3. /\ conf \in [Tickets -> Nat]
      /\ \A k \in Tickets : conf[k] \in 1..Len(writes[k])
      /\ \A k \in Tickets \ {c.t} : conf[k] = seen.confirmed[k]
  BY <1>2 DEF IsSeen, IsCall
<1>4. removed \in SUBSET Photos  BY <1>2 DEF IsSeen, IsCall
<1>5. removed = IF c.kind = "delete" THEN seen.removed \cup {c.photo} ELSE seen.removed
  OBVIOUS
<1> HIDE DEF conf, removed
<1>6. /\ IsSeen(seen') /\ seen'.confirmed = conf /\ seen'.removed = removed
      /\ seen'.copies = seen.copies /\ seen'.unsure = seen.unsure
      /\ seen'.carried = seen.carried
  BY <1>1, <1>2, <1>3, <1>4 DEF IsSeen
<1>7. Confirming(c)
  <2>1. Grows(used, used')  BY <1>1, <1>2, Unused
  <2> QED  BY <1>1, <1>3, <1>6, <2>1 DEF Confirming
<1>8. Truth' /\ \/ EndsAlone(c, TRUE)
                \/ \E j \in jobs : EndsSubmission(c, TRUE, j) \/ EndsUpload(c, TRUE, j)
  BY <1>1, <1>7, OverStep
<1> QED  BY <1>1, <1>5, <1>6, <1>8

LEMMA FailsStep ==
    ASSUME Truth, NEW c \in calls, Fails(c)
    PROVE  /\ Truth' /\ UNCHANGED writes /\ Grows(used, used')
           /\ used'.photos = used.photos /\ used'.ids = used.ids
           /\ \/ EndsAlone(c, FALSE)
              \/ \E j \in jobs : EndsSubmission(c, FALSE, j) \/ EndsUpload(c, FALSE, j)
           /\ IsSeen(seen')
           /\ seen'.removed = seen.removed /\ seen'.carried = seen.carried
           /\ IF c.kind = "upload" /\ c.at = "done"
              THEN /\ seen'.copies[c.photo] = seen.copies[c.photo] + 1
                   /\ \A p \in Photos \ {c.photo} : seen'.copies[p] = seen.copies[p]
              ELSE seen'.copies = seen.copies
           /\ seen'.unsure = IF c.kind = "delete" /\ c.at = "done"
                             THEN seen.unsure \cup {c.photo} ELSE seen.unsure
<1> DEFINE copies == IF c.kind = "upload" /\ c.at = "done"
                     THEN OneMore(seen.copies, c.photo)
                     ELSE seen.copies
           unsure == IF c.kind = "delete" /\ c.at = "done"
                     THEN seen.unsure \cup {c.photo} ELSE seen.unsure
<1>1. /\ Over(c, FALSE) /\ UNCHANGED <<role, writes>>
      /\ seen' = [seen EXCEPT !.copies = copies, !.unsure = unsure]
      /\ UNCHANGED used \/ Use("turmoil", MaxTurmoil)
  BY DEF Fails
<1>2. /\ IsCall(c) /\ IsSeen(seen) /\ IsUse(used)
      /\ \A k \in Tickets : seen.confirmed[k] \in 1..Len(writes[k])
  BY DEF Truth, Types, Told
<1>3. /\ copies \in [Photos -> Nat \ {0}]
      /\ IF c.kind = "upload" /\ c.at = "done"
         THEN /\ copies[c.photo] = seen.copies[c.photo] + 1
              /\ \A p \in Photos \ {c.photo} : copies[p] = seen.copies[p]
         ELSE copies = seen.copies
  <2>1. seen.copies \in [Photos -> Nat \ {0}]  BY <1>2 DEF IsSeen
  <2>2. c.kind = "upload" => c.photo \in Photos  BY <1>2 DEF IsCall
  <2> QED  BY <2>1, <2>2 DEF OneMore
<1>4. unsure \in SUBSET Photos  BY <1>2 DEF IsSeen, IsCall
<1>5. unsure = IF c.kind = "delete" /\ c.at = "done" THEN seen.unsure \cup {c.photo} ELSE seen.unsure
  OBVIOUS
<1> HIDE DEF copies, unsure
<1>6. /\ IsSeen(seen') /\ seen'.confirmed = seen.confirmed /\ seen'.removed = seen.removed
      /\ seen'.copies = copies /\ seen'.unsure = unsure /\ seen'.carried = seen.carried
  BY <1>1, <1>2, <1>3, <1>4 DEF IsSeen
<1>7. Grows(used, used') /\ used'.photos = used.photos /\ used'.ids = used.ids
  BY <1>1, <1>2, Unused, UseGrows
<1>8. Confirming(c)  BY <1>1, <1>2, <1>6, <1>7 DEF Confirming
<1>9. Truth' /\ \/ EndsAlone(c, FALSE)
                \/ \E j \in jobs : EndsSubmission(c, FALSE, j) \/ EndsUpload(c, FALSE, j)
  BY <1>1, <1>8, OverStep
<1> QED  BY <1>1, <1>3, <1>5, <1>6, <1>7, <1>9

-----------------------------------------------------------------------------
(* The queries, the cache and the others.                                  *)

LEMMA QueryStep ==
    ASSUME Truth, NEW k \in Tickets, QueryAnswered(k) \/ QueryFails(k)
    PROVE  /\ Truth' /\ UNCHANGED <<writes, jobs, seen>>
           /\ Grows(used, used') /\ used'.photos = used.photos /\ used'.ids = used.ids
           /\ Rendered(ui', ui) /\ calls' = calls
<1> DEFINE e == IF QueryAnswered(k) THEN Loaded(answer[k]) ELSE Failed(entry[k])
           ent == [entry EXCEPT ![k] = e]
<1>1. /\ IsCache(entry) /\ IsUse(used) /\ IsSeen(seen)
      /\ answer[k] \in TicketState \cup {Nothing}
  BY DEF Truth, Types
<1>2. /\ Settle(ent, calls, stale, ui, {}) /\ UNCHANGED <<writes, jobs, seen>>
      /\ entry[k].status = "pending"
      /\ UNCHANGED used \/ Use("turmoil", MaxTurmoil)
  BY DEF QueryAnswered, QueryFails
<1>3. Grows(used, used') /\ used'.photos = used.photos /\ used'.ids = used.ids
  BY <1>1, <1>2, UseGrows, Unused
<1>4. /\ IsEntry(e)
      /\ e.status = "ok" => e.data = answer[k] /\ answer[k] # Nothing
  <2>1. CASE QueryAnswered(k)
    <3>1. e = Loaded(answer[k]) /\ answer[k] \in TicketState /\ answer[k] # Nothing
      BY <1>1, <2>1 DEF QueryAnswered
    <3> QED  BY <3>1 DEF Loaded, IsEntry
  <2>2. CASE ~QueryAnswered(k)
    <3>1. e = Failed(entry[k]) /\ IsEntry(entry[k])  BY <1>1, <2>2 DEF IsCache
    <3> QED  BY <3>1 DEF Failed, IsEntry
  <2> QED  BY <2>1, <2>2
<1> HIDE DEF e
<1>5. IsCache(ent) /\ ent[k] = e /\ \A l \in Tickets \ {k} : ent[l] = entry[l]
  BY <1>1, <1>4, ChangedEntry
<1> HIDE DEF ent
<1>6. ASSUME NEW l \in Tickets
      PROVE  NotBehind(l, ent, answer, stale, calls \cup {}, seen'.confirmed, writes)
  <2>1. NotBehind(l, entry, answer, stale, calls, seen.confirmed, writes)
    BY DEF Truth, Told
  <2>2. CASE l = k  BY <1>2, <1>4, <1>5, <2>1, <2>2 DEF NotBehind
  <2>3. CASE l # k  BY <1>2, <1>5, <2>1, <2>3 DEF NotBehind
  <2> QED  BY <2>2, <2>3
<1>7. /\ \A j \in jobs' : IsJob(j, used')
      /\ ui # Nothing => IsPage(ui, used')
      /\ IsUse(used')
  BY <1>2, <1>3, GrownTyped DEF Truth, Types, Grows
<1>8. Settling(ent, calls, stale, ui, {}, used')
  BY <1>5, <1>7 DEF Settling, Truth, Types
<1>9. \A x \in calls \cup {} \cup jobs' : x.here => ui # Nothing
  BY <1>2 DEF Truth, Awaited
<1>10. \A c \in calls \cup {} : c.at = "done" => c.rev \in 1..Len(writes[c.t])
  BY DEF Truth, Told
<1>11. \A t \in Tickets : seen'.confirmed[t] \in 1..Len(writes[t])
  BY <1>2 DEF Truth, Told
<1>12. Truth' /\ Rendered(ui', ui) /\ Sends(calls, {})
  BY <1>1, <1>2, <1>6, <1>7, <1>8, <1>9, <1>10, <1>11, SettleStep
<1> QED  BY <1>2, <1>3, <1>12 DEF Sends

LEMMA ReadsStep ==
    ASSUME Truth, NEW k \in Tickets, ServerReads(k)
    PROVE  Truth' /\ UNCHANGED <<writes, calls, jobs, ui, seen, used>>
<1>1. /\ UNCHANGED <<writes, entry, stale, calls, jobs, ui, seen, used>>
      /\ answer' = [answer EXCEPT ![k] = Stored(k)] /\ entry[k].status = "pending"
  BY DEF ServerReads
<1>2. /\ writes[k] \in Seq(TicketState) /\ writes[k] # <<>> /\ DOMAIN answer = Tickets
      /\ seen.confirmed[k] \in 1..Len(writes[k])
  BY DEF Truth, Types, Told
<1>3. Stored(k) \in TicketState /\ Len(writes[k]) \in Nat  BY <1>2, NewestTyped DEF Stored
<1>4. /\ DOMAIN answer' = Tickets /\ answer'[k] = Stored(k)
      /\ \A l \in Tickets \ {k} : answer'[l] = answer[l]
  BY <1>1, <1>2
<1>5. Recent(seen.confirmed, writes, k, Stored(k))  BY <1>2, <1>3 DEF Recent, Stored
<1>6. Types'  BY <1>1, <1>3, <1>4 DEF Truth, Types
<1>7. ASSUME NEW l \in Tickets
      PROVE  NotBehind(l, entry', answer', stale', calls', seen'.confirmed, writes')
  BY <1>1, <1>4, <1>5 DEF Truth, Told, NotBehind
<1>8. Told'  BY <1>1, <1>7 DEF Truth, Told, PaneIsCached, Quiet
<1>9. Awaited'  BY <1>1 DEF Truth, Awaited
<1> QED  BY <1>1, <1>6, <1>8, <1>9 DEF Truth

LEMMA ExpireStep ==
    ASSUME Truth, NEW k \in Tickets, Expire(k)
    PROVE  Truth' /\ UNCHANGED <<writes, calls, jobs, ui, seen, used>>
<1>1. /\ UNCHANGED <<writes, answer, stale, calls, jobs, ui, seen, used>>
      /\ entry' = [entry EXCEPT ![k] = Absent] /\ k \notin Subscriptions(ui)
      /\ entry[k].status # "pending"
  BY DEF Expire
<1>2. IsCache(entry)  BY DEF Truth, Types
<1>3. IsEntry(Absent) /\ Absent.status = "uninitialized"  BY DEF Absent, IsEntry
<1>4. /\ IsCache(entry') /\ entry'[k] = Absent
      /\ \A l \in Tickets \ {k} : entry'[l] = entry[l]
  <2> DEFINE e == Absent
  <2>1. IsEntry(e) /\ entry' = [entry EXCEPT ![k] = e]  BY <1>1, <1>3
  <2> HIDE DEF e
  <2>2. /\ DOMAIN entry' = Tickets /\ entry'[k] = e
        /\ \A l \in Tickets \ {k} : entry'[l] = entry[l]
    BY <1>2, <2>1 DEF IsCache
  <2>3. IsCache(entry')  BY <1>2, <2>1, <2>2 DEF IsCache
  <2> QED  BY <2>2, <2>3 DEF e
<1>5. Types'  BY <1>1, <1>4 DEF Truth, Types
<1>6. ASSUME NEW l \in Tickets
      PROVE  NotBehind(l, entry', answer', stale', calls', seen'.confirmed, writes')
  <2>1. entry'[l].status = "ok" => entry'[l] = entry[l]  BY <1>3, <1>4
  <2> QED  BY <1>1, <2>1 DEF Truth, Told, NotBehind
<1>7. Quiet(entry', calls') => stale' = {}
  <2>1. Quiet(entry', calls') => Quiet(entry, calls)
    BY <1>1, <1>2, <1>4 DEF Quiet, IsCache
  <2> QED  BY <1>1, <2>1 DEF Truth, Told
<1>8. ui' # Nothing => PaneIsCached(entry', ui')
  <2>1. ui # Nothing => ui.t # k /\ ui.t \in Tickets
    BY <1>1, PageIsThere DEF Subscriptions, Truth, Types
  <2> QED  BY <1>1, <1>4, <2>1 DEF Truth, Told, PaneIsCached
<1>9. Told'  BY <1>1, <1>6, <1>7, <1>8 DEF Truth, Told
<1>10. Awaited'  BY <1>1 DEF Truth, Awaited
<1> QED  BY <1>1, <1>5, <1>9, <1>10 DEF Truth

LEMMA ForeignStep ==
    ASSUME Truth, NEW t \in Tickets, ForeignChange(t)
    PROVE  /\ Truth' /\ UNCHANGED <<calls, jobs, ui, seen>>
           /\ Grows(used, used') /\ used'.photos = used.photos /\ used'.ids = used.ids
           /\ \A k \in Tickets \ {t} : writes'[k] = writes[k]
           /\ Photographs(writes', t) = Photographs(writes, t)
           /\ Newest(writes', t).status \in {Newest(writes, t).status, "inWork"}
<1>1. PICK change \in {[executor |-> Other], [status |-> "inWork"], [text |-> "theirs"]} :
          writes' = [writes EXCEPT ![t] = Append(writes[t], Patched(change, Stored(t)))]
  BY DEF ForeignChange
<1>2. /\ UNCHANGED <<entry, answer, stale, calls, jobs, ui, seen>> /\ Use("turmoil", MaxTurmoil)
  BY DEF ForeignChange
<1>3. /\ IsUse(used) /\ writes[t] \in Seq(TicketState) /\ writes[t] # <<>>
      /\ DOMAIN writes = Tickets
      /\ \A k \in Tickets : writes[k] \in Seq(TicketState) /\ seen.confirmed[k] \in 1..Len(writes[k])
  BY DEF Truth, Types, Told
<1>4. Grows(used, used') /\ used'.photos = used.photos /\ used'.ids = used.ids
  BY <1>2, <1>3, UseGrows
<1>5. Stored(t) \in TicketState /\ Stored(t) = Newest(writes, t)
  BY <1>3, NewestTyped DEF Stored, Newest
<1>6. IsPatch(change) /\ ("status" \in DOMAIN change => change["status"] = "inWork")
  <2>1. CASE change = [executor |-> Other]
    <3>1. DOMAIN change = {"executor"} /\ change["executor"] = Other  BY <2>1
    <3> QED  BY ONLY <3>1 DEF IsPatch
  <2>2. CASE change = [status |-> "inWork"]
    <3>1. DOMAIN change = {"status"} /\ change["status"] = "inWork"  BY <2>2
    <3> QED  BY ONLY <3>1 DEF IsPatch
  <2>3. CASE change = [text |-> "theirs"]
    <3>1. DOMAIN change = {"text"} /\ change["text"] = "theirs"  BY <2>3
    <3> QED  BY ONLY <3>1 DEF IsPatch
  <2> QED  BY <1>1, <2>1, <2>2, <2>3
<1> DEFINE old == Stored(t)
           x == Patched(change, old)
<1> HIDE DEF old
<1>7. x \in TicketState /\ x.photos = old.photos /\ x.status \in {old.status, "inWork"}
  <2>1. old \in TicketState  BY <1>5 DEF old
  <2>2. /\ x \in TicketState /\ x.photos = old.photos
        /\ "status" \notin DOMAIN change => x.status = old.status
    BY ONLY <1>6, <2>1, PatchTyped
  <2>3. "status" \in DOMAIN change => x["status"] = change["status"]  BY DEF Patched
  <2> QED  BY <1>6, <2>2, <2>3
<1>8. /\ DOMAIN writes' = Tickets /\ writes'[t] = Append(writes[t], x)
      /\ \A k \in Tickets \ {t} : writes'[k] = writes[k]
  BY <1>1, <1>3 DEF old
<1> HIDE DEF x
<1> DEFINE conf == seen.confirmed
<1>9. \A k \in Tickets : conf[k] \in 1..Len(writes[k])  BY <1>3
<1> HIDE DEF conf
<1>10. /\ \A k \in Tickets : /\ writes'[k] \in Seq(TicketState)
                             /\ Len(writes[k]) <= Len(writes'[k])
                             /\ conf[k] \in 1..Len(writes'[k])
       /\ writes'[t] # <<>> /\ Newest(writes', t) = x
       /\ \A k \in Tickets : \A data :
             Recent(conf, writes, k, data) => Recent(conf, writes', k, data)
  <2>1. \A k \in Tickets : writes[k] \in Seq(TicketState)  BY <1>3
  <2>2. x \in TicketState  BY <1>7
  <2> QED  BY ONLY <1>8, <1>9, <2>1, <2>2, t \in Tickets, StillRecent
<1>11. Types'
  <2>1. \A k \in Tickets : writes'[k] # <<>>  BY <1>8, <1>10 DEF Truth, Types
  <2>2. \A j \in jobs' : IsJob(j, used')  BY <1>2, <1>4, GrownTyped DEF Truth, Types
  <2>3. ui' # Nothing => IsPage(ui', used')  BY <1>2, <1>4, GrownTyped DEF Truth, Types
  <2>4. IsUse(used')  BY <1>4 DEF Grows
  <2> QED  BY <1>2, <1>8, <1>10, <2>1, <2>2, <2>3, <2>4 DEF Truth, Types
<1>12. Awaited'  BY <1>2 DEF Truth, Awaited
<1>13. \A c \in calls' : c.at = "done" => c.rev \in 1..Len(writes'[c.t])
  <2> SUFFICES ASSUME NEW c \in calls, c.at = "done" PROVE c.rev \in 1..Len(writes'[c.t])
    BY <1>2
  <2>1. c.t \in Tickets /\ c.rev \in 1..Len(writes[c.t])
    BY DEF Truth, Types, Told, IsCall
  <2>2. /\ Len(writes[c.t]) <= Len(writes'[c.t])
        /\ Len(writes[c.t]) \in Nat /\ Len(writes'[c.t]) \in Nat
    BY <1>3, <1>10, <2>1
  <2> QED  BY <2>1, <2>2
<1>14. ASSUME NEW k \in Tickets
       PROVE  NotBehind(k, entry', answer', stale', calls', seen'.confirmed, writes')
  <2>1. NotBehind(k, entry, answer, stale, calls, seen.confirmed, writes)
    BY DEF Truth, Told
  <2> QED  BY <1>2, <1>10, <2>1 DEF NotBehind, conf
<1>15. Told'
  <2>1. \A k \in Tickets : seen'.confirmed[k] \in 1..Len(writes'[k])  BY <1>2, <1>10 DEF conf
  <2>2. Quiet(entry', calls') => stale' = {}  BY <1>2 DEF Truth, Told, Quiet
  <2>3. ui' # Nothing => PaneIsCached(entry', ui')  BY <1>2 DEF Truth, Told, PaneIsCached
  <2> QED  BY <1>13, <1>14, <2>1, <2>2, <2>3 DEF Told
<1> QED  BY <1>2, <1>4, <1>5, <1>7, <1>8, <1>10, <1>11, <1>12, <1>15 DEF Truth, Photographs, old

-----------------------------------------------------------------------------
LEMMA InitTruth ==
    ASSUME Init PROVE Truth
<1>1. PICK begun \in Begun[role] :
          writes = [t \in Tickets |->
                       <<[status |-> begun, executor |-> IF begun = "created" THEN NoUser ELSE Me,
                          text |-> "", photos |-> {}]>>]
  BY DEF Init
<1>2. begun \in {"created", "assigned", "worksDone"}
  <2>1. CASE role = "coordinator"
    <3>1. Begun[role] = {"created"}  BY <2>1 DEF Begun
    <3> QED  BY <3>1
  <2>2. CASE role = "engineer"
    <3>1. Begun[role] = {"assigned", "worksDone"}  BY <2>2 DEF Begun
    <3> QED  BY <3>1
  <2> QED  BY <2>1, <2>2 DEF Init
<1> DEFINE d == [status |-> begun, executor |-> IF begun = "created" THEN NoUser ELSE Me,
                 text |-> "", photos |-> {}]
<1>3. d \in TicketState  BY <1>2 DEF TicketState
<1>4. DOMAIN writes = Tickets /\ \A t \in Tickets : writes[t] = <<d>>  BY <1>1
<1> HIDE DEF d
<1>5. \A t \in Tickets : writes[t] \in Seq(TicketState) /\ writes[t] # <<>> /\ Len(writes[t]) = 1
  <2>1. <<d>> \in Seq(TicketState) /\ <<d>> # <<>> /\ Len(<<d>>) = 1  BY <1>3
  <2> QED  BY <1>4, <2>1
<1>6. /\ entry = [k \in Tickets |-> Absent] /\ answer = [k \in Tickets |-> Nothing]
      /\ stale = {} /\ calls = {} /\ jobs = {} /\ ui = Nothing
      /\ seen = [confirmed |-> [t \in Tickets |-> 1], copies |-> [p \in Photos |-> 1],
                 removed |-> {}, unsure |-> {}, carried |-> {}]
      /\ used = [turmoil |-> 0, acts |-> 0, submits |-> 0, photos |-> 0, ids |-> 0]
  BY DEF Init
<1>7. IsEntry(Absent) /\ Absent.status = "uninitialized"  BY DEF Absent, IsEntry
<1>8. IsCache(entry) /\ \A k \in Tickets : entry[k].status = "uninitialized"
  BY <1>6, <1>7 DEF IsCache
<1>9. IsUse(used)
  <2>1. 0 \in 0..MaxPhotos  BY PageBounds
  <2> QED  BY <1>6, <2>1 DEF IsUse
<1>10. IsSeen(seen) /\ \A t \in Tickets : seen.confirmed[t] = 1
  BY <1>6 DEF IsSeen
<1>11. Types  BY <1>4, <1>5, <1>6, <1>8, <1>9, <1>10 DEF Types
<1>12. Told  BY <1>5, <1>6, <1>8, <1>10 DEF Told, NotBehind
<1>13. Awaited  BY <1>6 DEF Awaited
<1> QED  BY <1>11, <1>12, <1>13 DEF Truth

LEMMA StepTruth ==
    ASSUME Truth, [Next]_vars PROVE Truth'
<1>1. CASE UNCHANGED vars
  BY <1>1 DEF vars, Truth, Types, Awaited, Told, NotBehind, PaneIsCached, Quiet
<1>2. ASSUME NEW t \in Tickets, Open(t) PROVE Truth'  BY <1>2, OpenStep
<1>3. ASSUME NEW t \in Tickets, Move(t) PROVE Truth'  BY <1>3, MoveStep
<1>4. CASE Leave  BY <1>4, LeaveStep
<1>5. CASE Act \/ \E who \in {Me, Other} : Assign(who)  BY <1>5, ButtonStep
<1>6. CASE OpenSheet \/ FillIn \/ CloseSheet  BY <1>6, SheetStep
<1>7. CASE AddPhoto  BY <1>7, AddPhotoStep
<1>8. ASSUME NEW p \in Photos, RemovePhoto(p) PROVE Truth'
  <2>1. CASE ui.previews[p].id = 0  BY <1>8, <2>1, RemoveHereStep
  <2>2. CASE ui.previews[p].id # 0  BY <1>8, <2>2, RemoveAwayStep
  <2> QED  BY <2>1, <2>2
<1>9. ASSUME NEW p \in Photos, NEW n \in Turns, RotatePhoto(p, n) PROVE Truth'
  BY <1>9, RotateStep
<1>10. CASE Submit  BY <1>10, SubmitStep
<1>11. ASSUME NEW c \in calls, ServerDoes(c) PROVE Truth'  BY <1>11, ServerStep
<1>12. ASSUME NEW c \in calls, Answered(c) PROVE Truth'  BY <1>12, AnsweredStep
<1>13. ASSUME NEW c \in calls, Fails(c) PROVE Truth'  BY <1>13, FailsStep
<1>14. ASSUME NEW k \in Tickets, ServerReads(k) PROVE Truth'  BY <1>14, ReadsStep
<1>15. ASSUME NEW k \in Tickets, QueryAnswered(k) \/ QueryFails(k) PROVE Truth'
  BY <1>15, QueryStep
<1>16. ASSUME NEW k \in Tickets, Expire(k) PROVE Truth'  BY <1>16, ExpireStep
<1>17. ASSUME NEW t \in Tickets, ForeignChange(t) PROVE Truth'  BY <1>17, ForeignStep
<1> QED
  BY <1>1, <1>2, <1>3, <1>4, <1>5, <1>6, <1>7, <1>8, <1>9, <1>10, <1>11, <1>12, <1>13,
     <1>14, <1>15, <1>16, <1>17 DEF Next, User, Network

(* Every variable keeps its form: what each kind of call carries, that a   *)
(* report has what is uploaded for it among its photographs, and that a    *)
(* form is filled in for the ticket that the pane shows.                   *)
THEOREM PageTypes == Spec => []Types
<1>1. Init => Truth  BY InitTruth
<1>2. Truth /\ [Next]_vars => Truth'  BY StepTruth
<1>3. Truth => Types  BY DEF Truth
<1> QED  BY <1>1, <1>2, <1>3, PTL DEF Spec

(* An assignment stores what was filled in for that ticket: the effect of  *)
(* the assignment sheet empties the form as soon as another ticket object  *)
(* is shown, in ticket-assignment-sheet.jsx.                               *)
THEOREM AssignmentsFit == Spec => []AssignsWhatWasFilledIn
<1>1. Types => AssignsWhatWasFilledIn  BY DEF Types, IsCall, AssignsWhatWasFilledIn
<1> QED  BY <1>1, PageTypes, PTL

(* When nothing is under way, a ticket whose last read has succeeded is    *)
(* shown as some write has left it, none older than the newest the page    *)
(* was told of: the optimistic update of tickets-api.js leaves nothing     *)
(* behind, taken back or not, and the stale tags bring what came between.  *)
THEOREM SettledPages == Spec => []SettledPageIsTrue
<1>1. ASSUME Truth PROVE SettledPageIsTrue
  <2> SUFFICES ASSUME ui # Nothing, Quiet(entry, calls), entry[ui.t].status = "ok"
               PROVE  /\ ui.pane.id = ui.t
                      /\ \E i \in seen.confirmed[ui.t]..Len(writes[ui.t]) :
                            ui.pane.rec = writes[ui.t][i]
    BY DEF SettledPageIsTrue
  <2>1. ui.t \in Tickets  BY <1>1, PageIsThere DEF Truth, Types
  <2>2. stale = {} /\ calls = {}  BY <1>1 DEF Truth, Told, Quiet
  <2>3. Recent(seen.confirmed, writes, ui.t, entry[ui.t].data)
    BY <1>1, <2>1, <2>2 DEF Truth, Told, NotBehind
  <2>4. ui.pane = [id |-> ui.t, rec |-> entry[ui.t].data]
    BY <1>1 DEF Truth, Told, PaneIsCached
  <2> QED  BY <2>3, <2>4 DEF Recent
<1>2. Init => Truth  BY InitTruth
<1>3. Truth /\ [Next]_vars => Truth'  BY StepTruth
<1> QED  BY <1>1, <1>2, <1>3, PTL DEF Spec

-----------------------------------------------------------------------------
(* The photographs.  What is said of them has as parameters what the       *)
(* server has of each ticket (ph), the calls (cs), the submissions (js),   *)
(* the page (u), the observations (sn) and what is used up (us).           *)

Kept(wr) == [t \in Tickets |-> Photographs(wr, t)]

IdsOf(ph, p) == UNION {{f.id : f \in {g \in ph[t] : g.photo = p}} : t \in Tickets}
Has(ph, t, p, turn) == \E f \in ph[t] : f.photo = p /\ f.turn = turn
OnlyAt(ph, id, s) == \A t \in Tickets : \A f \in ph[t] : f.id = id => t = s
Named(ph, id, p, us) ==
    id \in 1..us.ids /\ \A t \in Tickets : \A f \in ph[t] : f.id = id => f.photo = p

(* There may be one more of the photograph.                                *)
Room(ids, p, sn) == Cardinality(ids) < sn.copies[p]

IdsAreUnique(ph, us) ==
    /\ DOMAIN ph = Tickets
    /\ \A t \in Tickets : \A f \in ph[t] :
          f.photo \in 1..us.photos /\ f.id \in 1..us.ids
    /\ \A t, s \in Tickets : \A f \in ph[t], g \in ph[s] : f.id = g.id => t = s /\ f = g

(* Two submissions share nothing, and no more than one has its page; what  *)
(* a submission has no longer to upload is stored, or the submission will  *)
(* not close the ticket, or the photograph is one of the exceptions.       *)
SubmissionsKeep(ph, js, u, sn) ==
    /\ \A j, k \in js : j # k =>
          j.no # k.no /\ DOMAIN j.keep \cap DOMAIN k.keep = {} /\ ~(j.here /\ k.here)
    /\ \A j \in js :
          /\ j.here => u # Nothing /\ \A p \in DOMAIN u.previews :
                                         u.previews[p].carried \/ u.pane.id = j.t
          /\ u # Nothing => \A p \in DOMAIN j.keep \cap DOMAIN u.previews :
                /\ j.here
                /\ u.previews[p].turn = j.keep[p].turn
                /\ p \in j.todo => u.previews[p].id = 0
          /\ \A p \in DOMAIN j.keep :
                /\ j.keep[p].file = j.keep[p].turn
                /\ \/ p \in j.todo \/ j.failed \/ p \in sn.unsure \/ j.keep[p].carried
                   \/ Has(ph, j.t, p, j.keep[p].turn)
                /\ p \notin sn.removed

(* An upload is of a submission that waits for it; once it is done and not *)
(* answered, its photograph is counted.                                    *)
UploadsBelong(ph, cs, js, sn) ==
    \A c \in cs : c.kind = "upload" =>
        /\ \E j \in js : /\ j.no = c.job /\ c.photo \in j.todo /\ c.t = j.t
                         /\ c.turn = j.keep[c.photo].file /\ c.here = j.here
        /\ c.at = "done" =>
              /\ \E f \in ph[c.t] : f.photo = c.photo /\ f.id = c.id /\ f.turn = c.turn
              /\ Room(IdsOf(ph, c.photo) \ {c.id}, c.photo, sn)

(* A submission makes one call at a time, and closes the ticket when       *)
(* nothing is left to upload and nothing has failed.                       *)
ClosingIsLast(cs, js) ==
    /\ \A c, d \in cs : c # d => c.job = 0 \/ c.job # d.job
    /\ \A c \in cs : c.kind = "delete" => c.job = 0
    /\ \A c \in cs : c.kind = "patch" /\ c.job # 0 =>
          \E j \in js : j.no = c.job /\ j.todo = {} /\ ~j.failed

(* What is being removed is in no submission, and is the one of its id.    *)
RemovalsFit(ph, cs, js, u, sn, us) ==
    \A d \in cs : d.kind = "delete" =>
        /\ Named(ph, d.id, d.photo, us)
        /\ d.photo \in 1..us.photos
        /\ \A j \in js : d.photo \notin DOMAIN j.keep
        /\ d.here => /\ u # Nothing /\ u.removing = d.photo
                     /\ \A e \in cs : e.kind = "delete" /\ e.here => e = d
        /\ ~d.here /\ u # Nothing => d.photo \notin DOMAIN u.previews
        /\ \/ d.photo \in sn.carried
           \/ /\ d.at = "sent" /\ OnlyAt(ph, d.id, d.t)
              /\ Room(IdsOf(ph, d.photo) \ {d.id}, d.photo, sn)
           \/ d.at = "done" /\ Room(IdsOf(ph, d.photo), d.photo, sn)

(* A preview with an id has its photograph stored with the ticket shown,   *)
(* under that id alone.                                                    *)
PreviewsFit(ph, cs, u, sn, us) ==
    u # Nothing => \A p \in DOMAIN u.previews :
        /\ u.pane \in PaneState
        /\ u.previews[p].file = u.previews[p].turn
        /\ p \notin sn.removed
        /\ u.previews[p].id # 0 =>
              /\ Named(ph, u.previews[p].id, p, us)
              /\ \/ u.previews[p].carried \/ p \in sn.unsure
                 \/ Has(ph, u.pane.id, p, u.previews[p].turn)
                 \/ \E d \in cs : d.kind = "delete" /\ d.here /\ d.photo = p /\ d.at = "done"
              /\ \/ u.previews[p].carried
                 \/ /\ OnlyAt(ph, u.previews[p].id, u.pane.id)
                    /\ Room(IdsOf(ph, p) \ {u.previews[p].id}, p, sn)

(* A photograph that is still to be sent has room for one more.            *)
Unsent(cs, js, u, p) ==
    /\ \/ u # Nothing /\ p \in DOMAIN u.previews /\ u.previews[p].id = 0
       \/ \E j \in js : p \in j.todo
    /\ ~\E c \in cs : c.kind = "upload" /\ c.photo = p /\ c.at = "done"

CountsFit(ph, cs, js, u, sn, us) ==
    /\ sn.removed \cup sn.unsure \cup sn.carried \subseteq 1..us.photos
    /\ \A p \in Photos :
          /\ Cardinality(IdsOf(ph, p)) <= sn.copies[p]
          /\ p \in sn.removed \ sn.carried => Room(IdsOf(ph, p), p, sn)
          /\ Unsent(cs, js, u, p) => Room(IdsOf(ph, p), p, sn)

PhotosFit(ph, cs, js, u, sn, us) ==
    /\ IdsAreUnique(ph, us)
    /\ SubmissionsKeep(ph, js, u, sn)
    /\ UploadsBelong(ph, cs, js, sn)
    /\ ClosingIsLast(cs, js)
    /\ RemovalsFit(ph, cs, js, u, sn, us)
    /\ PreviewsFit(ph, cs, u, sn, us)
    /\ CountsFit(ph, cs, js, u, sn, us)

Fit == PhotosFit(Kept(writes), calls, jobs, ui, seen, used)

LEMMA IdsMember ==
    ASSUME NEW ph, NEW p
    PROVE  \A i : i \in IdsOf(ph, p) <=>
               \E t \in Tickets : \E f \in ph[t] : f.photo = p /\ f.id = i
<1>1. ASSUME NEW i, NEW t \in Tickets, NEW f \in ph[t], f.photo = p, f.id = i
      PROVE  i \in IdsOf(ph, p)
  <2> DEFINE S == {h.id : h \in {g \in ph[t] : g.photo = p}}
  <2>1. i \in S  BY <1>1
  <2>2. S \in {{h.id : h \in {g \in ph[s] : g.photo = p}} : s \in Tickets}  OBVIOUS
  <2> QED  BY <2>1, <2>2 DEF IdsOf
<1>2. ASSUME NEW i \in IdsOf(ph, p)
      PROVE  \E t \in Tickets : \E f \in ph[t] : f.photo = p /\ f.id = i
  BY DEF IdsOf
<1> QED  BY <1>1, <1>2

LEMMA IdsFinite ==
    ASSUME NEW ph, NEW us, IsUse(us), IdsAreUnique(ph, us), NEW p
    PROVE  IsFiniteSet(IdsOf(ph, p)) /\ IdsOf(ph, p) \subseteq 1..us.ids
<1>1. us.ids \in Nat  BY DEF IsUse
<1>2. IsFiniteSet(1..us.ids)  BY <1>1, FS_Interval
<1>3. IdsOf(ph, p) \subseteq 1..us.ids  BY IdsMember DEF IdsAreUnique
<1> QED  BY <1>2, <1>3, FS_Subset

(* Fewer ids leave room where more of them do.                             *)
LEMMA RoomGrows ==
    ASSUME NEW S, IsFiniteSet(S), NEW T, T \subseteq S, NEW p, NEW sn, NEW sm,
           sn.copies[p] \in Nat, sm.copies[p] \in Nat, sn.copies[p] <= sm.copies[p]
    PROVE  /\ Room(S, p, sn) => Room(T, p, sm)
           /\ Cardinality(S) <= sn.copies[p] => Cardinality(T) <= sm.copies[p]
           /\ Cardinality(S) <= sn.copies[p] /\ sn.copies[p] < sm.copies[p] => Room(T, p, sm)
<1>1. /\ Cardinality(T) <= Cardinality(S) /\ Cardinality(S) \in Nat /\ Cardinality(T) \in Nat
  BY FS_Subset, FS_CardinalityType
<1> QED  BY <1>1 DEF Room

(* A page that is rendered, or that another ticket is opened in, is as     *)
(* good as before.                                                         *)
LEMMA RenderedFits ==
    ASSUME NEW ph, NEW cs, NEW js, NEW u, NEW v, NEW sn, NEW us,
           PhotosFit(ph, cs, js, u, sn, us), Rendered(v, u)
    PROVE  PhotosFit(ph, cs, js, v, sn, us)
<1>1. CASE u = Nothing
  <2>1. v = u  BY <1>1 DEF Rendered
  <2> QED  BY <2>1
<1>2. CASE u # Nothing
  <2>1. /\ u # Nothing /\ v # Nothing /\ v.removing = u.removing
        /\ u.pane \in PaneState => v.pane \in PaneState
        /\ DOMAIN v.previews = DOMAIN u.previews
        /\ \A p \in DOMAIN u.previews :
              /\ v.previews[p].id = u.previews[p].id
              /\ v.previews[p].file = u.previews[p].file
              /\ v.previews[p].turn = u.previews[p].turn
              /\ u.previews[p].carried => v.previews[p].carried
              /\ v.previews[p].carried \/ u.pane = Nothing \/ v.pane.id = u.pane.id
    BY <1>2 DEF Rendered
  <2>2. \A p \in DOMAIN u.previews :
           u.pane \in PaneState /\ (v.previews[p].carried \/ v.pane.id = u.pane.id)
    BY <2>1, NothingIsApart DEF PhotosFit, PreviewsFit
  <2>3. SubmissionsKeep(ph, js, v, sn)
    <3>1. SubmissionsKeep(ph, js, u, sn)  BY DEF PhotosFit
    <3> QED  BY <2>1, <2>2, <3>1 DEF SubmissionsKeep
  <2>4. RemovalsFit(ph, cs, js, v, sn, us)
    <3>1. RemovalsFit(ph, cs, js, u, sn, us)  BY DEF PhotosFit
    <3> QED  BY <2>1, <3>1 DEF RemovalsFit
  <2>5. PreviewsFit(ph, cs, v, sn, us)
    <3>1. PreviewsFit(ph, cs, u, sn, us)  BY DEF PhotosFit
    <3> SUFFICES ASSUME NEW p \in DOMAIN v.previews
                 PROVE  /\ v.pane \in PaneState
                        /\ v.previews[p].file = v.previews[p].turn
                        /\ p \notin sn.removed
                        /\ v.previews[p].id # 0 =>
                              /\ Named(ph, v.previews[p].id, p, us)
                              /\ \/ v.previews[p].carried \/ p \in sn.unsure
                                 \/ Has(ph, v.pane.id, p, v.previews[p].turn)
                                 \/ \E d \in cs : /\ d.kind = "delete" /\ d.here
                                                  /\ d.photo = p /\ d.at = "done"
                              /\ \/ v.previews[p].carried
                                 \/ /\ OnlyAt(ph, v.previews[p].id, v.pane.id)
                                    /\ Room(IdsOf(ph, p) \ {v.previews[p].id}, p, sn)
      BY DEF PreviewsFit
    <3>2. p \in DOMAIN u.previews  BY <2>1
    <3>3. /\ u.pane \in PaneState
          /\ u.previews[p].file = u.previews[p].turn
          /\ p \notin sn.removed
          /\ u.previews[p].id # 0 =>
                /\ Named(ph, u.previews[p].id, p, us)
                /\ \/ u.previews[p].carried \/ p \in sn.unsure
                   \/ Has(ph, u.pane.id, p, u.previews[p].turn)
                   \/ \E d \in cs : d.kind = "delete" /\ d.here /\ d.photo = p /\ d.at = "done"
                /\ \/ u.previews[p].carried
                   \/ /\ OnlyAt(ph, u.previews[p].id, u.pane.id)
                      /\ Room(IdsOf(ph, p) \ {u.previews[p].id}, p, sn)
      BY <2>1, <3>1, <3>2 DEF PreviewsFit
    <3>4. /\ v.previews[p].id = u.previews[p].id /\ v.previews[p].turn = u.previews[p].turn
          /\ v.previews[p].file = u.previews[p].file
          /\ u.previews[p].carried => v.previews[p].carried
          /\ v.previews[p].carried \/ v.pane.id = u.pane.id
      BY <2>1, <2>2, <3>2
    <3> QED  BY <2>1, <3>3, <3>4
  <2>6. CountsFit(ph, cs, js, v, sn, us)
    <3>1. CountsFit(ph, cs, js, u, sn, us)  BY DEF PhotosFit
    <3>2. \A p \in Photos : Unsent(cs, js, v, p) => Unsent(cs, js, u, p)
      BY <2>1 DEF Unsent
    <3> QED  BY <3>1, <3>2 DEF CountsFit
  <2> QED  BY <2>3, <2>4, <2>5, <2>6 DEF PhotosFit
<1> QED  BY <1>1, <1>2

(* A page without photographs.                                             *)
LEMMA EmptyFits ==
    ASSUME NEW ph, NEW cs, NEW js, NEW u, NEW v, NEW sn, NEW us,
           PhotosFit(ph, cs, js, u, sn, us), v # Nothing, DOMAIN v.previews = {},
           u # Nothing => v.removing = u.removing
    PROVE  PhotosFit(ph, cs, js, v, sn, us)
<1>1. SubmissionsKeep(ph, js, v, sn)  BY DEF PhotosFit, SubmissionsKeep
<1>2. RemovalsFit(ph, cs, js, v, sn, us)
  <2>1. RemovalsFit(ph, cs, js, u, sn, us)  BY DEF PhotosFit
  <2> QED  BY <2>1 DEF RemovalsFit
<1>3. PreviewsFit(ph, cs, v, sn, us)  BY DEF PreviewsFit
<1>4. CountsFit(ph, cs, js, v, sn, us)
  <2>1. CountsFit(ph, cs, js, u, sn, us)  BY DEF PhotosFit
  <2>2. \A p \in Photos : Unsent(cs, js, v, p) => Unsent(cs, js, u, p)  BY DEF Unsent
  <2> QED  BY <2>1, <2>2 DEF CountsFit
<1> QED  BY <1>1, <1>2, <1>3, <1>4 DEF PhotosFit

(* A button's call has nothing to do with photographs.                     *)
LEMMA PatchFits ==
    ASSUME NEW ph, NEW cs, NEW js, NEW u, NEW sn, NEW us,
           PhotosFit(ph, cs, js, u, sn, us), NEW c, c.kind = "patch", c.job = 0
    PROVE  PhotosFit(ph, cs \cup {c}, js, u, sn, us)
<1> DEFINE cs2 == cs \cup {c}
<1>1. \A d \in cs2 : d.kind # "patch" \/ d.job # 0 => d \in cs  OBVIOUS
<1>2. cs \subseteq cs2  OBVIOUS
<1>3. \A d \in cs2 : d \in cs \/ d = c  OBVIOUS
<1> HIDE DEF cs2
<1>4. UploadsBelong(ph, cs2, js, sn)  BY <1>1 DEF PhotosFit, UploadsBelong
<1>5. ClosingIsLast(cs2, js)  BY <1>1, <1>3 DEF PhotosFit, ClosingIsLast
<1>6. RemovalsFit(ph, cs2, js, u, sn, us)
  <2>1. RemovalsFit(ph, cs, js, u, sn, us)  BY DEF PhotosFit
  <2> QED  BY <1>1, <2>1 DEF RemovalsFit
<1>7. PreviewsFit(ph, cs2, u, sn, us)
  <2>1. PreviewsFit(ph, cs, u, sn, us)  BY DEF PhotosFit
  <2> QED  BY <1>2, <2>1 DEF PreviewsFit
<1>8. CountsFit(ph, cs2, js, u, sn, us)
  <2>1. CountsFit(ph, cs, js, u, sn, us)  BY DEF PhotosFit
  <2>2. \A p \in Photos : Unsent(cs2, js, u, p) => Unsent(cs, js, u, p)  BY <1>2 DEF Unsent
  <2> QED  BY <2>1, <2>2 DEF CountsFit
<1> QED  BY <1>4, <1>5, <1>6, <1>7, <1>8 DEF PhotosFit, cs2

LEMMA SameUseFits ==
    ASSUME NEW ph, NEW cs, NEW js, NEW u, NEW sn, NEW us, NEW vs,
           PhotosFit(ph, cs, js, u, sn, us), us.photos = vs.photos, us.ids = vs.ids
    PROVE  PhotosFit(ph, cs, js, u, sn, vs)
<1>1. IdsAreUnique(ph, vs)  BY DEF PhotosFit, IdsAreUnique
<1>2. RemovalsFit(ph, cs, js, u, sn, vs)  BY DEF PhotosFit, RemovalsFit, Named
<1>3. PreviewsFit(ph, cs, u, sn, vs)  BY DEF PhotosFit, PreviewsFit, Named
<1>4. CountsFit(ph, cs, js, u, sn, vs)  BY DEF PhotosFit, CountsFit
<1> QED  BY <1>1, <1>2, <1>3, <1>4 DEF PhotosFit

LEMMA SameWrites ==
    ASSUME UNCHANGED writes PROVE Kept(writes') = Kept(writes)
BY DEF Kept

(* A step that takes nothing away and sends at most a button's call.       *)
LEMMA QuietFits ==
    ASSUME Fit, Kept(writes') = Kept(writes), UNCHANGED <<jobs, seen>>,
           used'.photos = used.photos, used'.ids = used.ids,
           Rendered(ui', ui) \/ ui' = ui,
           calls' = calls \/ \E c : c.kind = "patch" /\ c.job = 0 /\ calls' = calls \cup {c}
    PROVE  Fit'
<1> DEFINE ph == Kept(writes)
<1>1. PhotosFit(ph, calls, jobs, ui, seen, used)  BY DEF Fit
<1> HIDE DEF ph
<1>2. PhotosFit(ph, calls', jobs, ui, seen, used)  BY <1>1, PatchFits
<1>3. PhotosFit(ph, calls', jobs, ui', seen, used)
  <2> DEFINE cs == calls'
             v == ui'
  <2>1. PhotosFit(ph, cs, jobs, ui, seen, used) /\ (Rendered(v, ui) \/ v = ui)  BY <1>2
  <2> HIDE DEF cs, v
  <2>2. PhotosFit(ph, cs, jobs, v, seen, used)
    <3>1. CASE v = ui  BY <2>1, <3>1
    <3>2. CASE Rendered(v, ui)  BY ONLY <2>1, <3>2, RenderedFits
    <3> QED  BY <2>1, <3>1, <3>2
  <2> QED  BY <2>2 DEF cs, v
<1>4. PhotosFit(ph, calls', jobs, ui', seen, used')
  <2> DEFINE cs == calls'
             v == ui'
             vs == used'
  <2>1. PhotosFit(ph, cs, jobs, v, seen, used) /\ used.photos = vs.photos /\ used.ids = vs.ids
    BY <1>3
  <2> HIDE DEF cs, v, vs
  <2>2. PhotosFit(ph, cs, jobs, v, seen, vs)  BY ONLY <2>1, SameUseFits
  <2> QED  BY <2>2 DEF cs, v, vs
<1>5. Kept(writes') = ph /\ jobs' = jobs /\ seen' = seen  BY DEF ph
<1> QED  BY <1>4, <1>5 DEF Fit

(* The sheet is idle: what is under way is of pages that were left.        *)
LEMMA IdleFits ==
    ASSUME Truth, Fit, SheetIsIdle
    PROVE  /\ ui # Nothing /\ ui.removing = Nothing /\ ui.pane \in PaneState
           /\ \A j \in jobs : ~j.here /\ DOMAIN j.keep \cap DOMAIN ui.previews = {}
           /\ \A d \in calls : d.kind = "delete" => ~d.here /\ d.photo \notin DOMAIN ui.previews
<1>1. ui # Nothing /\ ui.removing = Nothing /\ ui.sheet = "report" /\ \A j \in jobs : ~j.here
  BY DEF SheetIsIdle, IsSubmitting
<1>2. ui.pane \in PaneState  BY <1>1 DEF Truth, Types, IsPage
<1>3. \A j \in jobs : DOMAIN j.keep \cap DOMAIN ui.previews = {}
  BY <1>1 DEF Fit, PhotosFit, SubmissionsKeep
<1>4. ASSUME NEW d \in calls, d.kind = "delete" PROVE ~d.here /\ d.photo \notin DOMAIN ui.previews
  <2>1. d.photo \in Photos  BY <1>4 DEF Truth, Types, IsCall
  <2>2. RemovalsFit(Kept(writes), calls, jobs, ui, seen, used)  BY DEF Fit, PhotosFit
  <2>3. d.here => ui.removing = d.photo  BY <1>4, <2>2 DEF RemovalsFit
  <2>4. ~d.here  BY <1>1, <2>1, <2>3, NothingIsApart
  <2> QED  BY <1>1, <1>4, <2>2, <2>4 DEF RemovalsFit
<1> QED  BY <1>1, <1>2, <1>3, <1>4

(* The observations that count are the same.                               *)
LEMMA SameSeenFits ==
    ASSUME NEW ph, NEW cs, NEW js, NEW u, NEW sn, NEW us, NEW sm,
           PhotosFit(ph, cs, js, u, sn, us), sm.copies = sn.copies,
           sm.removed = sn.removed, sm.unsure = sn.unsure, sm.carried = sn.carried
    PROVE  PhotosFit(ph, cs, js, u, sm, us)
<1>1. \A S, p : Room(S, p, sm) <=> Room(S, p, sn)  BY DEF Room
<1>2. SubmissionsKeep(ph, js, u, sm)  BY DEF PhotosFit, SubmissionsKeep
<1>3. UploadsBelong(ph, cs, js, sm)  BY <1>1 DEF PhotosFit, UploadsBelong
<1>4. RemovalsFit(ph, cs, js, u, sm, us)
  <2>1. RemovalsFit(ph, cs, js, u, sn, us)  BY DEF PhotosFit
  <2> QED  BY <1>1, <2>1 DEF RemovalsFit
<1>5. PreviewsFit(ph, cs, u, sm, us)
  <2>1. PreviewsFit(ph, cs, u, sn, us)  BY DEF PhotosFit
  <2> QED  BY <1>1, <2>1 DEF PreviewsFit
<1>6. CountsFit(ph, cs, js, u, sm, us)  BY <1>1 DEF PhotosFit, CountsFit
<1> QED  BY <1>2, <1>3, <1>4, <1>5, <1>6 DEF PhotosFit

(* What a step leaves behind fits.                                         *)
LEMMA BecomesFit ==
    ASSUME NEW ph, NEW cs, NEW js, NEW u, NEW sn, NEW us,
           PhotosFit(ph, cs, js, u, sn, us),
           Kept(writes') = ph, calls' = cs, jobs' = js, Rendered(ui', u) \/ ui' = u,
           used'.photos = us.photos, used'.ids = us.ids,
           seen'.copies = sn.copies, seen'.removed = sn.removed,
           seen'.unsure = sn.unsure, seen'.carried = sn.carried
    PROVE  Fit'
<1> DEFINE v == ui'
           sm == seen'
           vs == used'
<1>1. /\ Rendered(v, u) \/ v = u
      /\ us.photos = vs.photos /\ us.ids = vs.ids
      /\ sm.copies = sn.copies /\ sm.removed = sn.removed
      /\ sm.unsure = sn.unsure /\ sm.carried = sn.carried
  OBVIOUS
<1> HIDE DEF v, sm, vs
<1>2. PhotosFit(ph, cs, js, v, sn, us)
  <2>1. CASE v = u  BY <2>1
  <2>2. CASE Rendered(v, u)  BY ONLY PhotosFit(ph, cs, js, u, sn, us), <2>2, RenderedFits
  <2> QED  BY <1>1, <2>1, <2>2
<1>3. PhotosFit(ph, cs, js, v, sm, us)  BY ONLY <1>1, <1>2, SameSeenFits
<1>4. PhotosFit(ph, cs, js, v, sm, vs)  BY ONLY <1>1, <1>3, SameUseFits
<1> QED  BY <1>4 DEF Fit, v, sm, vs

(* A submission's next call.                                               *)
LEMMA NextCallFits ==
    ASSUME NEW ph, NEW cs, NEW js, NEW u, NEW sn, NEW us,
           PhotosFit(ph, cs, js, u, sn, us), NEW j \in js, IsJob(j, us), NEW n, NEW m,
           IsNext(n, j), Resent(m, n), \A d \in cs : d.job # j.no
    PROVE  PhotosFit(ph, cs \cup {m}, js, u, sn, us)
<1> DEFINE cs2 == cs \cup {m}
<1>1. /\ m.kind = n.kind /\ m.at = n.at /\ m.t = n.t /\ m.here = n.here /\ m.job = n.job
      /\ n.kind = "upload" => m.photo = n.photo /\ m.turn = n.turn
  <2>1. Shared \subseteq DOMAIN n \ {"undo"}  BY DEF IsNext, IsCall, Shared
  <2>2. n.kind = "upload" => {"photo", "turn"} \subseteq DOMAIN n \ {"undo"}
    BY DEF IsNext, IsCall, Shared
  <2> QED  BY <2>1, <2>2 DEF Resent, Shared
<1>2. /\ m.at = "sent" /\ m.t = j.t /\ m.here = j.here /\ m.job = j.no
      /\ j.todo # {} => m.kind = "upload" /\ m.photo \in j.todo /\ m.turn = j.keep[m.photo].file
      /\ j.todo = {} => m.kind = "patch" /\ ~j.failed
  BY <1>1 DEF IsNext
<1>3. m.kind # "delete" /\ j.no # 0  BY <1>2 DEF IsJob
<1>4. cs \subseteq cs2 /\ \A d \in cs2 : d \in cs \/ d = m  OBVIOUS
<1> HIDE DEF cs2
<1>5. UploadsBelong(ph, cs2, js, sn)
  <2>1. UploadsBelong(ph, cs, js, sn)  BY DEF PhotosFit
  <2> QED  BY <1>2, <1>4, <2>1 DEF UploadsBelong
<1>6. ClosingIsLast(cs2, js)
  <2>1. ClosingIsLast(cs, js)  BY DEF PhotosFit
  <2> QED  BY <1>2, <1>3, <1>4, <2>1 DEF ClosingIsLast
<1>7. RemovalsFit(ph, cs2, js, u, sn, us)
  <2>1. RemovalsFit(ph, cs, js, u, sn, us)  BY DEF PhotosFit
  <2> QED  BY <1>3, <1>4, <2>1 DEF RemovalsFit
<1>8. PreviewsFit(ph, cs2, u, sn, us)
  <2>1. PreviewsFit(ph, cs, u, sn, us)  BY DEF PhotosFit
  <2> QED  BY <1>4, <2>1 DEF PreviewsFit
<1>9. CountsFit(ph, cs2, js, u, sn, us)
  <2>1. CountsFit(ph, cs, js, u, sn, us)  BY DEF PhotosFit
  <2>2. \A p \in Photos : Unsent(cs2, js, u, p) => Unsent(cs, js, u, p)  BY <1>4 DEF Unsent
  <2> QED  BY <2>1, <2>2 DEF CountsFit
<1> QED  BY <1>5, <1>6, <1>7, <1>8, <1>9 DEF PhotosFit, cs2

(* A submission that has no call under way may end.                        *)
LEMMA JobEndsFits ==
    ASSUME NEW ph, NEW cs, NEW js, NEW u, NEW sn, NEW us,
           PhotosFit(ph, cs, js, u, sn, us), NEW j \in js, \A d \in cs : d.job # j.no
    PROVE  PhotosFit(ph, cs, js \ {j}, u, sn, us)
<1> DEFINE js2 == js \ {j}
<1>1. js2 \subseteq js /\ \A k \in js : k \in js2 \/ k = j  OBVIOUS
<1> HIDE DEF js2
<1>2. SubmissionsKeep(ph, js2, u, sn)  BY <1>1 DEF PhotosFit, SubmissionsKeep
<1>3. UploadsBelong(ph, cs, js2, sn)
  <2>1. UploadsBelong(ph, cs, js, sn)  BY DEF PhotosFit
  <2> QED  BY <1>1, <2>1 DEF UploadsBelong
<1>4. ClosingIsLast(cs, js2)
  <2>1. ClosingIsLast(cs, js)  BY DEF PhotosFit
  <2> QED  BY <1>1, <2>1 DEF ClosingIsLast
<1>5. RemovalsFit(ph, cs, js2, u, sn, us)
  <2>1. RemovalsFit(ph, cs, js, u, sn, us)  BY DEF PhotosFit
  <2> QED  BY <1>1, <2>1 DEF RemovalsFit
<1>6. CountsFit(ph, cs, js2, u, sn, us)
  <2>1. CountsFit(ph, cs, js, u, sn, us)  BY DEF PhotosFit
  <2>2. \A p \in Photos : Unsent(cs, js2, u, p) => Unsent(cs, js, u, p)  BY <1>1 DEF Unsent
  <2> QED  BY <2>1, <2>2 DEF CountsFit
<1> QED  BY <1>2, <1>3, <1>4, <1>5, <1>6 DEF PhotosFit, js2

(* A change of the ticket is over.                                         *)
LEMMA PatchEndsFits ==
    ASSUME NEW ph, NEW cs, NEW js, NEW u, NEW sn, NEW us,
           PhotosFit(ph, cs, js, u, sn, us), NEW c \in cs, c.kind = "patch"
    PROVE  PhotosFit(ph, cs \ {c}, js, u, sn, us)
<1> DEFINE cs2 == cs \ {c}
<1>1. cs2 \subseteq cs /\ \A d \in cs : d.kind # "patch" => d \in cs2  OBVIOUS
<1> HIDE DEF cs2
<1>2. UploadsBelong(ph, cs2, js, sn)  BY <1>1 DEF PhotosFit, UploadsBelong
<1>3. ClosingIsLast(cs2, js)
  <2>1. ClosingIsLast(cs, js)  BY DEF PhotosFit
  <2> QED  BY <1>1, <2>1 DEF ClosingIsLast
<1>4. RemovalsFit(ph, cs2, js, u, sn, us)
  <2>1. RemovalsFit(ph, cs, js, u, sn, us)  BY DEF PhotosFit
  <2> QED  BY <1>1, <2>1 DEF RemovalsFit
<1>5. PreviewsFit(ph, cs2, u, sn, us)
  <2>1. PreviewsFit(ph, cs, u, sn, us)  BY DEF PhotosFit
  <2> QED  BY <1>1, <2>1 DEF PreviewsFit
<1>6. CountsFit(ph, cs2, js, u, sn, us)
  <2>1. CountsFit(ph, cs, js, u, sn, us)  BY DEF PhotosFit
  <2>2. \A p \in Photos : Unsent(cs2, js, u, p) => Unsent(cs, js, u, p)  BY <1>1 DEF Unsent
  <2> QED  BY <2>1, <2>2 DEF CountsFit
<1> QED  BY <1>2, <1>3, <1>4, <1>5, <1>6 DEF PhotosFit, cs2

(* The page is left: what is under way has no page any more.               *)
LEMMA OrphansFit ==
    ASSUME NEW ph, NEW cs, NEW js, NEW u, NEW sn, NEW us,
           PhotosFit(ph, cs, js, u, sn, us),
           \A c \in cs : IsCall(c), \A j \in js : IsJob(j, us)
    PROVE  PhotosFit(ph, Orphaned(cs), Orphaned(js), Nothing, sn, us)
<1> DEFINE ds == Orphaned(cs)
           ks == Orphaned(js)
<1>1. \A d \in ds : \E c \in cs :
         /\ d = [c EXCEPT !.here = FALSE]
         /\ d.kind = c.kind /\ d.at = c.at /\ d.t = c.t /\ d.job = c.job /\ ~d.here
         /\ c.kind \in {"upload", "delete"} => d.photo = c.photo /\ d.id = c.id
         /\ c.kind = "upload" => d.turn = c.turn
  <2> SUFFICES ASSUME NEW c \in cs, NEW d, d = [c EXCEPT !.here = FALSE]
               PROVE  /\ d.kind = c.kind /\ d.at = c.at /\ d.t = c.t /\ d.job = c.job /\ ~d.here
                      /\ c.kind \in {"upload", "delete"} => d.photo = c.photo /\ d.id = c.id
                      /\ c.kind = "upload" => d.turn = c.turn
    BY DEF Orphaned
  <2> QED  BY DEF IsCall, Shared
<1>2. \A k \in ks : \E j \in js :
         /\ k = [j EXCEPT !.here = FALSE]
         /\ k.no = j.no /\ k.t = j.t /\ k.keep = j.keep /\ k.todo = j.todo
         /\ k.failed = j.failed /\ ~k.here
  BY DEF IsJob, Orphaned
<1>3. \A j \in js : \E k \in ks :
         /\ k.no = j.no /\ k.t = j.t /\ k.keep = j.keep /\ k.todo = j.todo
         /\ k.failed = j.failed /\ ~k.here
  <2> SUFFICES ASSUME NEW j \in js, NEW k, k = [j EXCEPT !.here = FALSE]
               PROVE  /\ k.no = j.no /\ k.t = j.t /\ k.keep = j.keep /\ k.todo = j.todo
                      /\ k.failed = j.failed /\ ~k.here
    BY DEF Orphaned
  <2> QED  BY DEF IsJob
<1>4. \A c \in cs : c.kind = "upload" /\ c.at = "done" => \E d \in ds :
         d.kind = c.kind /\ d.at = c.at /\ d.photo = c.photo
  <2> SUFFICES ASSUME NEW c \in cs, c.kind = "upload", NEW d, d = [c EXCEPT !.here = FALSE]
               PROVE  d.kind = c.kind /\ d.at = c.at /\ d.photo = c.photo
    BY DEF Orphaned
  <2> QED  BY DEF IsCall, Shared
<1> HIDE DEF ds, ks
<1>5. SubmissionsKeep(ph, ks, Nothing, sn)
  <2>1. SubmissionsKeep(ph, js, u, sn)  BY DEF PhotosFit
  <2>2. ASSUME NEW k \in ks, NEW l \in ks, k # l
        PROVE  k.no # l.no /\ DOMAIN k.keep \cap DOMAIN l.keep = {} /\ ~(k.here /\ l.here)
    <3>1. PICK i \in js : k = [i EXCEPT !.here = FALSE] /\ k.no = i.no /\ k.keep = i.keep
                          /\ ~k.here
      BY <1>2
    <3>2. PICK j \in js : l = [j EXCEPT !.here = FALSE] /\ l.no = j.no /\ l.keep = j.keep
      BY <1>2
    <3>3. i # j  BY <2>2, <3>1, <3>2
    <3>4. i.no # j.no /\ DOMAIN i.keep \cap DOMAIN j.keep = {}
      BY <2>1, <3>3 DEF SubmissionsKeep
    <3> QED  BY <3>1, <3>2, <3>4
  <2>3. ASSUME NEW k \in ks
        PROVE  /\ ~k.here
               /\ \A p \in DOMAIN k.keep :
                     /\ k.keep[p].file = k.keep[p].turn
                     /\ \/ p \in k.todo \/ k.failed \/ p \in sn.unsure \/ k.keep[p].carried
                        \/ Has(ph, k.t, p, k.keep[p].turn)
                     /\ p \notin sn.removed
    <3>1. PICK j \in js :
             /\ k.t = j.t /\ k.keep = j.keep /\ k.todo = j.todo /\ k.failed = j.failed
             /\ ~k.here
      BY <1>2
    <3> QED  BY <2>1, <3>1 DEF SubmissionsKeep
  <2> QED  BY <2>2, <2>3 DEF SubmissionsKeep
<1>6. UploadsBelong(ph, ds, ks, sn)
  <2>1. UploadsBelong(ph, cs, js, sn)  BY DEF PhotosFit
  <2> SUFFICES ASSUME NEW d \in ds, d.kind = "upload"
               PROVE  /\ \E j \in ks : /\ j.no = d.job /\ d.photo \in j.todo /\ d.t = j.t
                                       /\ d.turn = j.keep[d.photo].file /\ d.here = j.here
                      /\ d.at = "done" =>
                            /\ \E f \in ph[d.t] :
                                  f.photo = d.photo /\ f.id = d.id /\ f.turn = d.turn
                            /\ Room(IdsOf(ph, d.photo) \ {d.id}, d.photo, sn)
    BY DEF UploadsBelong
  <2>2. PICK c \in cs :
           /\ d = [c EXCEPT !.here = FALSE]
           /\ d.kind = c.kind /\ d.at = c.at /\ d.t = c.t /\ d.job = c.job /\ ~d.here
           /\ d.photo = c.photo /\ d.id = c.id /\ d.turn = c.turn
    BY <1>1
  <2>3. IsCall(c) /\ DOMAIN c = Shared \cup {"photo", "id", "turn"}  BY <2>2 DEF IsCall
  <2>4. d.here = FALSE  BY <2>2, <2>3 DEF Shared
  <2>5. PICK j \in js : /\ j.no = c.job /\ c.photo \in j.todo /\ c.t = j.t
                        /\ c.turn = j.keep[c.photo].file
    BY <2>1, <2>2 DEF UploadsBelong
  <2>6. [j EXCEPT !.here = FALSE] \in ks  BY DEF ks, Orphaned
  <2>7. \E k \in ks : /\ k.no = j.no /\ k.t = j.t /\ k.keep = j.keep /\ k.todo = j.todo
                      /\ k.here = FALSE
    BY <2>6 DEF IsJob
  <2>8. \E k \in ks : /\ k.no = d.job /\ d.photo \in k.todo /\ d.t = k.t
                      /\ d.turn = k.keep[d.photo].file /\ d.here = k.here
    BY <2>2, <2>4, <2>5, <2>7
  <2>9. d.at = "done" =>
           /\ \E f \in ph[d.t] : f.photo = d.photo /\ f.id = d.id /\ f.turn = d.turn
           /\ Room(IdsOf(ph, d.photo) \ {d.id}, d.photo, sn)
    BY <2>1, <2>2 DEF UploadsBelong
  <2> QED  BY <2>8, <2>9
<1>7. ClosingIsLast(ds, ks)
  <2>1. ClosingIsLast(cs, js)  BY DEF PhotosFit
  <2>2. ASSUME NEW d \in ds, NEW e \in ds, d # e PROVE d.job = 0 \/ d.job # e.job
    <3>1. PICK b \in cs : d = [b EXCEPT !.here = FALSE] /\ d.job = b.job  BY <1>1
    <3>2. PICK c \in cs : e = [c EXCEPT !.here = FALSE] /\ e.job = c.job  BY <1>1
    <3>3. b # c  BY <2>2, <3>1, <3>2
    <3> QED  BY <2>1, <3>1, <3>2, <3>3 DEF ClosingIsLast
  <2>3. \A c \in ds : c.kind = "delete" => c.job = 0  BY <1>1, <2>1 DEF ClosingIsLast
  <2>4. \A c \in ds : c.kind = "patch" /\ c.job # 0 =>
           \E j \in ks : j.no = c.job /\ j.todo = {} /\ ~j.failed
    BY <1>1, <1>3, <2>1 DEF ClosingIsLast
  <2> QED  BY <2>2, <2>3, <2>4 DEF ClosingIsLast
<1>8. RemovalsFit(ph, ds, ks, Nothing, sn, us)
  <2>1. RemovalsFit(ph, cs, js, u, sn, us)  BY DEF PhotosFit
  <2>2. \A d \in ds : d.kind = "delete" =>
           \E c \in cs :
              /\ c.kind = "delete" /\ d.at = c.at /\ d.t = c.t /\ ~d.here
              /\ d.photo = c.photo /\ d.id = c.id
    BY <1>1
  <2> SUFFICES ASSUME NEW d \in ds, d.kind = "delete"
               PROVE  /\ Named(ph, d.id, d.photo, us) /\ d.photo \in 1..us.photos
                      /\ \A k \in ks : d.photo \notin DOMAIN k.keep
                      /\ ~d.here
                      /\ \/ d.photo \in sn.carried
                         \/ /\ d.at = "sent" /\ OnlyAt(ph, d.id, d.t)
                            /\ Room(IdsOf(ph, d.photo) \ {d.id}, d.photo, sn)
                         \/ d.at = "done" /\ Room(IdsOf(ph, d.photo), d.photo, sn)
    BY DEF RemovalsFit
  <2>3. PICK c \in cs :
           /\ c.kind = "delete" /\ d.at = c.at /\ d.t = c.t /\ ~d.here
           /\ d.photo = c.photo /\ d.id = c.id
    BY <2>2
  <2>4. \A k \in ks : d.photo \notin DOMAIN k.keep
    BY <1>2, <2>1, <2>3 DEF RemovalsFit
  <2> QED  BY <2>1, <2>3, <2>4 DEF RemovalsFit
<1>9. PreviewsFit(ph, ds, Nothing, sn, us)  BY DEF PreviewsFit
<1>10. CountsFit(ph, ds, ks, Nothing, sn, us)
  <2>1. CountsFit(ph, cs, js, u, sn, us)  BY DEF PhotosFit
  <2>2. \A p \in Photos : Unsent(ds, ks, Nothing, p) => Unsent(cs, js, u, p)
    BY <1>2, <1>4 DEF Unsent
  <2> QED  BY <2>1, <2>2 DEF CountsFit
<1> QED  BY <1>5, <1>6, <1>7, <1>8, <1>9, <1>10 DEF PhotosFit, ds, ks

LEMMA LeaveFits ==
    ASSUME Truth, Fit, Leave PROVE Fit'
<1> DEFINE ph == Kept(writes)
<1>1. /\ Kept(writes') = ph /\ ui' = Nothing
      /\ calls' = Orphaned(calls) /\ jobs' = Orphaned(jobs) /\ seen' = seen
      /\ used'.photos = used.photos /\ used'.ids = used.ids
  BY LeaveStep, SameWrites
<1>2. PhotosFit(ph, calls, jobs, ui, seen, used)  BY DEF Fit
<1>3. /\ \A c \in calls : IsCall(c)
      /\ \A j \in jobs : IsJob(j, used)
  BY DEF Truth, Types
<1> HIDE DEF ph
<1>4. PhotosFit(ph, Orphaned(calls), Orphaned(jobs), Nothing, seen, used)
  BY ONLY <1>2, <1>3, OrphansFit
<1> QED  BY ONLY <1>1, <1>4, BecomesFit

LEMMA AddPhotoFits ==
    ASSUME Truth, Fit, AddPhoto PROVE Fit'
<1> DEFINE ph == Kept(writes)
           v == ui'
           vs == used'
           n == used'.photos
<1>1. PhotosFit(ph, calls, jobs, ui, seen, used)  BY DEF Fit
<1>2. /\ UNCHANGED <<writes, calls, jobs, seen>> /\ SheetIsIdle
      /\ Kept(writes') = ph
  BY SameWrites DEF AddPhoto
<1>3. /\ ui # Nothing /\ ui.removing = Nothing /\ ui.pane \in PaneState
      /\ \A j \in jobs : ~j.here /\ DOMAIN j.keep \cap DOMAIN ui.previews = {}
      /\ \A d \in calls : d.kind = "delete" => ~d.here /\ d.photo \notin DOMAIN ui.previews
  BY <1>2, IdleFits
<1>4. /\ IsUse(used) /\ IsUse(vs) /\ v # Nothing
      /\ used.photos \in Nat /\ used.photos < MaxPhotos /\ MaxPhotos \in Nat
      /\ n = used.photos + 1 /\ vs.photos = n /\ vs.ids = used.ids
      /\ v.pane = ui.pane /\ v.removing = ui.removing
      /\ v.previews = With(ui.previews, n)
  <2>1. IsUse(used) /\ IsUse(used') /\ ui' # Nothing /\ used.photos < MaxPhotos
    BY AddPhotoStep
  <2>2. used.photos \in Nat /\ MaxPhotos \in Nat  BY <2>1, PageBounds DEF IsUse
  <2> QED  BY <2>1, <2>2, AddPhotoStep
<1> HIDE DEF ph, v, vs, n
<1>5. /\ DOMAIN v.previews = DOMAIN ui.previews \cup {n}
      /\ v.previews[n].id = 0 /\ v.previews[n].file = v.previews[n].turn
      /\ \A q \in DOMAIN ui.previews \ {n} : v.previews[q] = ui.previews[q]
  BY <1>4 DEF With, NewPreview
<1>6. /\ \A j \in jobs : DOMAIN j.keep \subseteq 1..used.photos
      /\ DOMAIN ui.previews \subseteq 1..used.photos
      /\ n \notin 1..used.photos /\ 1..used.photos \subseteq 1..n
  BY <1>3, <1>4 DEF Truth, Types, IsJob, IsPage
<1>7. \A q \in DOMAIN ui.previews : q # n /\ v.previews[q] = ui.previews[q]
  BY <1>5, <1>6
<1>8. \A j \in jobs : DOMAIN j.keep \cap DOMAIN v.previews = {}
  BY <1>3, <1>5, <1>6
<1>9. IdsAreUnique(ph, vs)
  BY <1>1, <1>4, <1>6 DEF PhotosFit, IdsAreUnique
<1>10. SubmissionsKeep(ph, jobs, v, seen)
  <2>1. SubmissionsKeep(ph, jobs, ui, seen)  BY <1>1 DEF PhotosFit
  <2> QED  BY <1>3, <1>8, <2>1 DEF SubmissionsKeep
<1>11. RemovalsFit(ph, calls, jobs, v, seen, vs)
  <2>1. RemovalsFit(ph, calls, jobs, ui, seen, used)  BY <1>1 DEF PhotosFit
  <2>2. \A id, p : Named(ph, id, p, used) <=> Named(ph, id, p, vs)  BY <1>4 DEF Named
  <2>3. \A d \in calls : d.kind = "delete" =>
           /\ ~d.here /\ d.photo \notin DOMAIN v.previews
           /\ d.photo \in 1..vs.photos /\ d.photo \in 1..used.photos
    BY <1>3, <1>4, <1>5, <1>6, <2>1 DEF RemovalsFit
  <2> QED  BY <2>1, <2>2, <2>3 DEF RemovalsFit
<1>12. PreviewsFit(ph, calls, v, seen, vs)
  <2>1. PreviewsFit(ph, calls, ui, seen, used)  BY <1>1 DEF PhotosFit
  <2>2. \A id, p : Named(ph, id, p, used) <=> Named(ph, id, p, vs)  BY <1>4 DEF Named
  <2>3. n \notin seen.removed  BY <1>1, <1>6 DEF PhotosFit, CountsFit
  <2> QED  BY <1>3, <1>4, <1>5, <1>7, <2>1, <2>2, <2>3 DEF PreviewsFit
<1>13. CountsFit(ph, calls, jobs, v, seen, vs)
  <2>1. CountsFit(ph, calls, jobs, ui, seen, used)  BY <1>1 DEF PhotosFit
  <2>2. Room(IdsOf(ph, n), n, seen)
    <3>1. \A t \in Tickets : \A f \in ph[t] : f.photo # n
      BY <1>1, <1>6 DEF PhotosFit, IdsAreUnique
    <3>2. IdsOf(ph, n) = {}  BY <3>1, IdsMember
    <3>3. n \in Photos  BY <1>4 DEF Photos
    <3>4. seen.copies[n] \in Nat \ {0}  BY <3>3 DEF Truth, Types, IsSeen
    <3> QED  BY <3>2, <3>4, FS_EmptySet DEF Room
  <2>3. \A p \in Photos \ {n} : Unsent(calls, jobs, v, p) => Unsent(calls, jobs, ui, p)
    BY <1>3, <1>5, <1>7 DEF Unsent
  <2>4. seen.removed \cup seen.unsure \cup seen.carried \subseteq 1..vs.photos
    BY <1>4, <1>6, <2>1 DEF CountsFit
  <2> QED  BY <2>1, <2>2, <2>3, <2>4 DEF CountsFit
<1>14. PhotosFit(ph, calls, jobs, v, seen, vs)
  BY <1>1, <1>9, <1>10, <1>11, <1>12, <1>13 DEF PhotosFit
<1> QED  BY <1>2, <1>14 DEF Fit, v, vs

LEMMA RotateFits ==
    ASSUME Truth, Fit, NEW p \in Photos, NEW n \in Turns, RotatePhoto(p, n) PROVE Fit'
<1> DEFINE ph == Kept(writes)
           v == ui'
<1>1. PhotosFit(ph, calls, jobs, ui, seen, used)  BY DEF Fit
<1>2. /\ UNCHANGED <<writes, calls, jobs, seen, used>> /\ SheetIsIdle
      /\ Kept(writes') = ph
  BY SameWrites DEF RotatePhoto
<1>3. /\ ui # Nothing /\ ui.removing = Nothing /\ ui.pane \in PaneState
      /\ \A j \in jobs : ~j.here /\ DOMAIN j.keep \cap DOMAIN ui.previews = {}
      /\ \A d \in calls : d.kind = "delete" => ~d.here /\ d.photo \notin DOMAIN ui.previews
  BY <1>2, IdleFits
<1>4. /\ v # Nothing /\ v.pane = ui.pane /\ v.removing = ui.removing
      /\ p \in DOMAIN ui.previews /\ ui.previews[p].id = 0
      /\ DOMAIN v.previews = DOMAIN ui.previews
      /\ \A q \in DOMAIN ui.previews \ {p} : v.previews[q] = ui.previews[q]
      /\ v.previews[p].id = 0 /\ v.previews[p].file = v.previews[p].turn
  BY RotateStep
<1> HIDE DEF ph, v
<1>5. SubmissionsKeep(ph, jobs, v, seen)
  <2>1. SubmissionsKeep(ph, jobs, ui, seen)  BY <1>1 DEF PhotosFit
  <2> QED  BY <1>3, <1>4, <2>1 DEF SubmissionsKeep
<1>6. RemovalsFit(ph, calls, jobs, v, seen, used)
  <2>1. RemovalsFit(ph, calls, jobs, ui, seen, used)  BY <1>1 DEF PhotosFit
  <2> QED  BY <1>3, <1>4, <2>1 DEF RemovalsFit
<1>7. PreviewsFit(ph, calls, v, seen, used)
  <2>1. PreviewsFit(ph, calls, ui, seen, used)  BY <1>1 DEF PhotosFit
  <2> QED  BY <1>3, <1>4, <2>1 DEF PreviewsFit
<1>8. CountsFit(ph, calls, jobs, v, seen, used)
  <2>1. CountsFit(ph, calls, jobs, ui, seen, used)  BY <1>1 DEF PhotosFit
  <2>2. \A q \in Photos : Unsent(calls, jobs, v, q) => Unsent(calls, jobs, ui, q)
    BY <1>3, <1>4 DEF Unsent
  <2> QED  BY <2>1, <2>2 DEF CountsFit
<1>9. PhotosFit(ph, calls, jobs, v, seen, used)
  BY <1>1, <1>5, <1>6, <1>7, <1>8 DEF PhotosFit
<1> QED  BY <1>2, <1>9 DEF Fit, v

LEMMA RemoveHereFits ==
    ASSUME Truth, Fit, NEW p \in Photos, RemovePhoto(p), ui.previews[p].id = 0 PROVE Fit'
<1> DEFINE ph == Kept(writes)
           v == ui'
           sm == seen'
<1>1. PhotosFit(ph, calls, jobs, ui, seen, used)  BY DEF Fit
<1>2. /\ UNCHANGED <<writes, calls, jobs, used>> /\ SheetIsIdle
      /\ Kept(writes') = ph
  BY RemoveHereStep, SameWrites DEF RemovePhoto
<1>3. /\ ui # Nothing /\ ui.removing = Nothing /\ ui.pane \in PaneState
      /\ \A j \in jobs : ~j.here /\ DOMAIN j.keep \cap DOMAIN ui.previews = {}
      /\ \A d \in calls : d.kind = "delete" => ~d.here /\ d.photo \notin DOMAIN ui.previews
  BY <1>2, IdleFits
<1>4. /\ v # Nothing /\ v.pane = ui.pane /\ v.removing = ui.removing
      /\ p \in DOMAIN ui.previews
      /\ DOMAIN v.previews = DOMAIN ui.previews \ {p}
      /\ \A q \in DOMAIN ui.previews \ {p} : v.previews[q] = ui.previews[q]
      /\ sm.removed = seen.removed \cup {p} /\ sm.copies = seen.copies
      /\ sm.unsure = seen.unsure /\ sm.carried = seen.carried
  BY RemoveHereStep
<1>5. p \in 1..used.photos /\ \A j \in jobs : IsJob(j, used)
  BY <1>3, <1>4 DEF Truth, Types, IsPage
<1> HIDE DEF ph, v, sm
<1>6. \A S, q : Room(S, q, sm) <=> Room(S, q, seen)  BY <1>4 DEF Room
<1>7. SubmissionsKeep(ph, jobs, v, sm)
  <2>1. SubmissionsKeep(ph, jobs, ui, seen)  BY <1>1 DEF PhotosFit
  <2>2. \A j \in jobs : p \notin DOMAIN j.keep  BY <1>3, <1>4
  <2> QED  BY <1>3, <1>4, <2>1, <2>2 DEF SubmissionsKeep
<1>8. UploadsBelong(ph, calls, jobs, sm)  BY <1>1, <1>6 DEF PhotosFit, UploadsBelong
<1>9. RemovalsFit(ph, calls, jobs, v, sm, used)
  <2>1. RemovalsFit(ph, calls, jobs, ui, seen, used)  BY <1>1 DEF PhotosFit
  <2> QED  BY <1>3, <1>4, <1>6, <2>1 DEF RemovalsFit
<1>10. PreviewsFit(ph, calls, v, sm, used)
  <2>1. PreviewsFit(ph, calls, ui, seen, used)  BY <1>1 DEF PhotosFit
  <2> QED  BY <1>3, <1>4, <1>6, <2>1 DEF PreviewsFit
<1>11. CountsFit(ph, calls, jobs, v, sm, used)
  <2>1. CountsFit(ph, calls, jobs, ui, seen, used)  BY <1>1 DEF PhotosFit
  <2>2. \A q \in Photos : Unsent(calls, jobs, v, q) => Unsent(calls, jobs, ui, q)
    BY <1>3, <1>4 DEF Unsent
  <2>3. Unsent(calls, jobs, ui, p)
    <3>1. ASSUME NEW c \in calls, c.kind = "upload" PROVE c.photo # p
      <4>1. PICK j \in jobs : c.photo \in j.todo
        BY <1>1, <3>1 DEF PhotosFit, UploadsBelong
      <4>2. c.photo \in DOMAIN j.keep  BY <1>5, <4>1 DEF IsJob
      <4> QED  BY <1>3, <1>4, <4>2
    <3> QED  BY <1>3, <1>4, <3>1 DEF Unsent
  <2>4. Room(IdsOf(ph, p), p, sm)  BY <1>6, <2>1, <2>3 DEF CountsFit
  <2> QED  BY <1>4, <1>5, <1>6, <2>1, <2>2, <2>4 DEF CountsFit
<1>12. PhotosFit(ph, calls, jobs, v, sm, used)
  BY <1>1, <1>7, <1>8, <1>9, <1>10, <1>11 DEF PhotosFit
<1> QED  BY <1>2, <1>12 DEF Fit, v, sm

LEMMA RemoveAwayFits ==
    ASSUME Truth, Fit, NEW p \in Photos, RemovePhoto(p), ui.previews[p].id # 0 PROVE Fit'
<1> DEFINE ph == Kept(writes)
           sm == seen'
<1>1. PhotosFit(ph, calls, jobs, ui, seen, used)  BY DEF Fit
<1>2. UNCHANGED <<writes, jobs, used>> /\ SheetIsIdle /\ Kept(writes') = ph
  BY RemoveAwayStep, SameWrites DEF RemovePhoto
<1>3. /\ ui # Nothing /\ ui.removing = Nothing /\ ui.pane \in PaneState
      /\ \A j \in jobs : ~j.here /\ DOMAIN j.keep \cap DOMAIN ui.previews = {}
      /\ \A d \in calls : d.kind = "delete" => ~d.here /\ d.photo \notin DOMAIN ui.previews
  BY <1>2, IdleFits
<1>4. /\ p \in DOMAIN ui.previews
      /\ sm.removed = seen.removed /\ sm.copies = seen.copies /\ sm.unsure = seen.unsure
      /\ sm.carried = IF ui.previews[p].carried THEN seen.carried \cup {p} ELSE seen.carried
  BY RemoveAwayStep
<1>5. PICK u, c :
         /\ IsPage(u, used) /\ u # Nothing /\ u.t = ui.t /\ u.pane = ui.pane /\ u.removing = p
         /\ u.previews = ui.previews
         /\ IsCall(c) /\ c.kind = "delete" /\ c.t = ui.pane.id /\ c.photo = p
         /\ c.at = "sent" /\ c.id = ui.previews[p].id /\ c.job = 0 /\ c.here
         /\ Rendered(ui', u)
         /\ calls' = calls \cup {c}
  BY RemoveAwayStep
<1>6. p \in 1..used.photos
  BY <1>3, <1>4 DEF Truth, Types, IsPage
<1> DEFINE cs == calls \cup {c}
<1>7. calls \subseteq cs /\ c \in cs /\ \A d \in cs : d \in calls \/ d = c  OBVIOUS
<1> HIDE DEF ph, sm, cs
<1>8. \A S, q : Room(S, q, sm) <=> Room(S, q, seen)  BY <1>4 DEF Room
<1>9. seen.carried \subseteq sm.carried /\ (ui.previews[p].carried => p \in sm.carried)
  BY <1>4
<1>10. SubmissionsKeep(ph, jobs, u, sm)
  <2>1. SubmissionsKeep(ph, jobs, ui, seen)  BY <1>1 DEF PhotosFit
  <2> QED  BY <1>3, <1>4, <1>5, <2>1 DEF SubmissionsKeep
<1>11. UploadsBelong(ph, cs, jobs, sm)
  <2>1. UploadsBelong(ph, calls, jobs, seen)  BY <1>1 DEF PhotosFit
  <2> QED  BY <1>5, <1>7, <1>8, <2>1 DEF UploadsBelong
<1>12. ClosingIsLast(cs, jobs)
  <2>1. ClosingIsLast(calls, jobs)  BY <1>1 DEF PhotosFit
  <2> QED  BY <1>5, <1>7, <2>1 DEF ClosingIsLast
<1>13. PreviewsFit(ph, calls, ui, seen, used)  BY <1>1 DEF PhotosFit
<1>14. RemovalsFit(ph, cs, jobs, u, sm, used)
  <2>1. RemovalsFit(ph, calls, jobs, ui, seen, used)  BY <1>1 DEF PhotosFit
  <2> SUFFICES ASSUME NEW d \in cs, d.kind = "delete"
               PROVE  /\ Named(ph, d.id, d.photo, used)
                      /\ d.photo \in 1..used.photos
                      /\ \A j \in jobs : d.photo \notin DOMAIN j.keep
                      /\ d.here => /\ u # Nothing /\ u.removing = d.photo
                                   /\ \A e \in cs : e.kind = "delete" /\ e.here => e = d
                      /\ ~d.here /\ u # Nothing => d.photo \notin DOMAIN u.previews
                      /\ \/ d.photo \in sm.carried
                         \/ /\ d.at = "sent" /\ OnlyAt(ph, d.id, d.t)
                            /\ Room(IdsOf(ph, d.photo) \ {d.id}, d.photo, sm)
                         \/ d.at = "done" /\ Room(IdsOf(ph, d.photo), d.photo, sm)
    BY DEF RemovalsFit
  <2>2. CASE d \in calls
    <3>1. ~d.here /\ d.photo \notin DOMAIN u.previews  BY <1>3, <1>5, <2>2
    <3> QED  BY <1>8, <1>9, <2>1, <2>2, <3>1 DEF RemovalsFit
  <2>3. CASE d = c
    <3>1. /\ Named(ph, d.id, d.photo, used)
          /\ \/ ui.previews[p].carried
             \/ /\ OnlyAt(ph, d.id, d.t)
                /\ Room(IdsOf(ph, d.photo) \ {d.id}, d.photo, seen)
      BY <1>3, <1>4, <1>5, <1>13, <2>3 DEF PreviewsFit
    <3>2. \A j \in jobs : d.photo \notin DOMAIN j.keep  BY <1>3, <1>4, <1>5, <2>3
    <3>3. \A e \in cs : e.kind = "delete" /\ e.here => e = d  BY <1>3, <1>7, <2>3
    <3> QED  BY <1>5, <1>6, <1>8, <1>9, <2>3, <3>1, <3>2, <3>3
  <2> QED  BY <1>7, <2>2, <2>3
<1>15. PreviewsFit(ph, cs, u, sm, used)
  <2> SUFFICES ASSUME NEW q \in DOMAIN ui.previews
               PROVE  /\ ui.pane \in PaneState
                      /\ ui.previews[q].file = ui.previews[q].turn
                      /\ q \notin sm.removed
                      /\ ui.previews[q].id # 0 =>
                            /\ Named(ph, ui.previews[q].id, q, used)
                            /\ \/ ui.previews[q].carried \/ q \in sm.unsure
                               \/ Has(ph, ui.pane.id, q, ui.previews[q].turn)
                               \/ \E d \in cs : /\ d.kind = "delete" /\ d.here
                                                /\ d.photo = q /\ d.at = "done"
                            /\ \/ ui.previews[q].carried
                               \/ /\ OnlyAt(ph, ui.previews[q].id, ui.pane.id)
                                  /\ Room(IdsOf(ph, q) \ {ui.previews[q].id}, q, sm)
    BY <1>5 DEF PreviewsFit
  <2> QED  BY <1>3, <1>4, <1>7, <1>8, <1>13 DEF PreviewsFit
<1>16. CountsFit(ph, cs, jobs, u, sm, used)
  <2>1. CountsFit(ph, calls, jobs, ui, seen, used)  BY <1>1 DEF PhotosFit
  <2>2. \A q \in Photos : Unsent(cs, jobs, u, q) => Unsent(calls, jobs, ui, q)
    BY <1>3, <1>5, <1>7 DEF Unsent
  <2> QED  BY <1>4, <1>6, <1>8, <2>1, <2>2 DEF CountsFit
<1>17. PhotosFit(ph, cs, jobs, u, sm, used)
  BY <1>1, <1>10, <1>11, <1>12, <1>14, <1>15, <1>16 DEF PhotosFit
<1> USE DEF cs, sm
<1>18. calls' = cs  BY <1>5
<1> HIDE DEF cs, sm
<1>19. seen' = sm  BY DEF sm
<1> QED
  <2>1. PhotosFit(ph, calls', jobs, u, seen', used)  BY <1>17, <1>18, <1>19
  <2> DEFINE cs2 == calls'
             sm2 == seen'
             v == ui'
  <2>2. PhotosFit(ph, cs2, jobs, u, sm2, used) /\ Rendered(v, u)  BY <1>5, <2>1
  <2> HIDE DEF cs2, sm2, v
  <2>3. PhotosFit(ph, cs2, jobs, v, sm2, used)  BY ONLY <2>2, RenderedFits
  <2> QED  BY <1>2, <2>3 DEF Fit, cs2, sm2, v

LEMMA SubmitFits ==
    ASSUME Truth, Fit, Submit PROVE Fit'
<1> DEFINE ph == Kept(writes)
<1>1. PhotosFit(ph, calls, jobs, ui, seen, used)  BY DEF Fit
<1>2. UNCHANGED <<writes, seen>> /\ SheetIsIdle /\ Kept(writes') = ph
  BY SubmitStep, SameWrites DEF Submit
<1>3. /\ ui # Nothing /\ ui.removing = Nothing /\ ui.pane \in PaneState
      /\ \A j \in jobs : ~j.here /\ DOMAIN j.keep \cap DOMAIN ui.previews = {}
      /\ \A d \in calls : d.kind = "delete" => ~d.here /\ d.photo \notin DOMAIN ui.previews
  BY <1>2, IdleFits
<1>4. PICK j, n :
         /\ j = [no |-> used'.submits, t |-> ui.pane.id, keep |-> ui.previews,
                 todo |-> ToUpload(ui.previews), failed |-> FALSE, here |-> TRUE]
         /\ IsJob(j, used') /\ IsNext(n, j)
         /\ jobs' = jobs \cup {j}
         /\ Sends(calls, {n})
  BY SubmitStep
<1>5. PICK m : Resent(m, n) /\ calls' = calls \cup {m}  BY <1>4 DEF Sends
<1>6. /\ j.no = used.submits + 1 /\ j.t = ui.pane.id /\ j.keep = ui.previews
      /\ j.todo = {p \in DOMAIN ui.previews : ui.previews[p].id = 0} /\ j.here
  BY <1>4, SubmitStep DEF ToUpload
<1>7. Rendered(ui', ui) /\ used'.photos = used.photos /\ used'.ids = used.ids
  BY SubmitStep
<1>8. used.submits \in Nat /\ \A i \in jobs : IsJob(i, used) /\ i.no < j.no
  BY <1>6 DEF Truth, Types, IsJob, IsUse
<1> DEFINE js == jobs \cup {j}
<1>9. j \in js /\ jobs \subseteq js /\ \A i \in js : i \in jobs \/ i = j  OBVIOUS
<1> HIDE DEF ph, js
<1>10. PreviewsFit(ph, calls, ui, seen, used)  BY <1>1 DEF PhotosFit
<1>11. SubmissionsKeep(ph, js, ui, seen)
  <2>1. SubmissionsKeep(ph, jobs, ui, seen)  BY <1>1 DEF PhotosFit
  <2>2. ASSUME NEW i \in js, NEW k \in js, i # k
        PROVE  i.no # k.no /\ DOMAIN i.keep \cap DOMAIN k.keep = {} /\ ~(i.here /\ k.here)
    <3>1. CASE i \in jobs /\ k \in jobs  BY <2>1, <2>2, <3>1 DEF SubmissionsKeep
    <3>2. CASE i = j /\ k \in jobs
      <4>1. k.no \in Nat /\ j.no \in Nat /\ k.no < j.no  BY <1>6, <1>8, <3>2 DEF IsJob
      <4> QED  BY <1>3, <1>6, <3>2, <4>1
    <3>3. CASE k = j /\ i \in jobs
      <4>1. i.no \in Nat /\ j.no \in Nat /\ i.no < j.no  BY <1>6, <1>8, <3>3 DEF IsJob
      <4> QED  BY <1>3, <1>6, <3>3, <4>1
    <3> QED  BY <1>9, <2>2, <3>1, <3>2, <3>3
  <2>3. ASSUME NEW p \in DOMAIN j.keep
        PROVE  /\ j.keep[p].file = j.keep[p].turn
               /\ \/ p \in j.todo \/ p \in seen.unsure \/ j.keep[p].carried
                  \/ Has(ph, j.t, p, j.keep[p].turn)
               /\ p \notin seen.removed
    BY <1>3, <1>6, <1>10, <2>3 DEF PreviewsFit
  <2>4. \A p \in DOMAIN ui.previews : p \in j.todo => ui.previews[p].id = 0  BY <1>6
  <2>5. ASSUME NEW i \in js
        PROVE  /\ i.here => ui # Nothing /\ \A p \in DOMAIN ui.previews :
                                              ui.previews[p].carried \/ ui.pane.id = i.t
               /\ ui # Nothing => \A p \in DOMAIN i.keep \cap DOMAIN ui.previews :
                     /\ i.here
                     /\ ui.previews[p].turn = i.keep[p].turn
                     /\ p \in i.todo => ui.previews[p].id = 0
               /\ \A p \in DOMAIN i.keep :
                     /\ i.keep[p].file = i.keep[p].turn
                     /\ \/ p \in i.todo \/ i.failed \/ p \in seen.unsure \/ i.keep[p].carried
                        \/ Has(ph, i.t, p, i.keep[p].turn)
                     /\ p \notin seen.removed
    <3>1. CASE i \in jobs  BY <2>1, <3>1 DEF SubmissionsKeep
    <3>2. CASE i = j  BY <1>3, <1>6, <2>3, <2>4, <3>2
    <3> QED  BY <1>9, <3>1, <3>2
  <2> QED  BY <2>2, <2>5 DEF SubmissionsKeep
<1>12. UploadsBelong(ph, calls, js, seen)
  <2>1. UploadsBelong(ph, calls, jobs, seen)  BY <1>1 DEF PhotosFit
  <2> QED  BY <1>9, <2>1 DEF UploadsBelong
<1>13. ClosingIsLast(calls, js)
  <2>1. ClosingIsLast(calls, jobs)  BY <1>1 DEF PhotosFit
  <2> QED  BY <1>9, <2>1 DEF ClosingIsLast
<1>14. RemovalsFit(ph, calls, js, ui, seen, used)
  <2>1. RemovalsFit(ph, calls, jobs, ui, seen, used)  BY <1>1 DEF PhotosFit
  <2>2. \A d \in calls : d.kind = "delete" => \A i \in js : d.photo \notin DOMAIN i.keep
    BY <1>3, <1>6, <1>9, <2>1 DEF RemovalsFit
  <2> QED  BY <2>1, <2>2 DEF RemovalsFit
<1>15. CountsFit(ph, calls, js, ui, seen, used)
  <2>1. CountsFit(ph, calls, jobs, ui, seen, used)  BY <1>1 DEF PhotosFit
  <2>2. \A p \in Photos : Unsent(calls, js, ui, p) => Unsent(calls, jobs, ui, p)
    BY <1>3, <1>6, <1>9 DEF Unsent
  <2> QED  BY <2>1, <2>2 DEF CountsFit
<1>16. PhotosFit(ph, calls, js, ui, seen, used)
  BY <1>1, <1>10, <1>11, <1>12, <1>13, <1>14, <1>15 DEF PhotosFit
<1>17. \A d \in calls : d.job # j.no
  <2>1. \A d \in calls : IsCall(d)  BY DEF Truth, Types
  <2>2. \A d \in calls : d.job = 0 \/ \E i \in jobs : i.no = d.job
    BY <1>1, <2>1 DEF PhotosFit, UploadsBelong, ClosingIsLast, IsCall
  <2> QED  BY <1>6, <1>8, <2>2 DEF IsJob
<1> DEFINE vs == used'
<1>18. vs.photos = used.photos /\ vs.ids = used.ids /\ IsJob(j, vs)  BY <1>4, <1>7
<1> HIDE DEF vs
<1>19. PhotosFit(ph, calls, js, ui, seen, vs)  BY ONLY <1>16, <1>18, SameUseFits
<1>20. PhotosFit(ph, calls \cup {m}, js, ui, seen, vs)
  BY ONLY <1>4, <1>5, <1>9, <1>17, <1>18, <1>19, NextCallFits
<1>21. jobs' = js  BY <1>4 DEF js
<1> USE DEF vs
<1>22. used'.photos = vs.photos /\ used'.ids = vs.ids  OBVIOUS
<1> HIDE DEF vs
<1>23. Fit'  BY ONLY <1>2, <1>5, <1>7, <1>20, <1>21, <1>22, BecomesFit
<1> QED  BY <1>23

(* What asks, reads or shows leaves the photographs alone.                 *)
LEMMA OpenFits ==
    ASSUME Truth, Fit, NEW t \in Tickets, Open(t) PROVE Fit'
<1> DEFINE ph == Kept(writes)
           v == NewPage(t)
<1>1. PhotosFit(ph, calls, jobs, ui, seen, used)  BY DEF Fit
<1>2. /\ UNCHANGED <<writes, jobs, seen, used>> /\ Kept(writes') = ph
      /\ ui = Nothing /\ Rendered(ui', v) /\ calls' = calls
  BY OpenStep, SameWrites
<1>3. v # Nothing /\ DOMAIN v.previews = {}
  <2>1. IsPage(v, used) /\ v.previews = <<>> /\ IsUse(used)
    BY NewPageTyped DEF Truth, Types
  <2> QED  BY <2>1, PageIsThere, EmptyPreviews
<1> HIDE DEF ph, v
<1>4. PhotosFit(ph, calls, jobs, v, seen, used)  BY ONLY <1>1, <1>2, <1>3, EmptyFits
<1>5. used'.photos = used.photos /\ used'.ids = used.ids /\ jobs' = jobs
      /\ seen'.copies = seen.copies /\ seen'.removed = seen.removed
      /\ seen'.unsure = seen.unsure /\ seen'.carried = seen.carried
  BY <1>2
<1> QED  BY ONLY <1>2, <1>4, <1>5, BecomesFit

LEMMA MoveFits ==
    ASSUME Truth, Fit, NEW t \in Tickets, Move(t) PROVE Fit'
<1> DEFINE ph == Kept(writes)
           v == Routed(ui, t)
<1>1. PhotosFit(ph, calls, jobs, ui, seen, used)  BY DEF Fit
<1>2. /\ UNCHANGED <<writes, jobs, seen>> /\ Kept(writes') = ph
      /\ used'.photos = used.photos /\ used'.ids = used.ids
      /\ ui # Nothing /\ Rendered(ui', v) /\ calls' = calls
  BY MoveStep, SameWrites
<1>3. Rendered(v, ui)
  <2>1. IsPage(ui, used) /\ IsUse(used)  BY <1>2 DEF Truth, Types
  <2>2. /\ v.pane = ui.pane /\ v.previews = ui.previews /\ v.removing = ui.removing
        /\ IsPage(v, used)
    BY <1>2, <2>1, RoutedTyped
  <2>3. v # Nothing  BY <2>1, <2>2, PageIsThere
  <2> HIDE DEF v
  <2> QED  BY <1>2, <2>2, <2>3 DEF Rendered
<1> HIDE DEF ph, v
<1>4. PhotosFit(ph, calls, jobs, v, seen, used)  BY ONLY <1>1, <1>3, RenderedFits
<1>5. jobs' = jobs
      /\ seen'.copies = seen.copies /\ seen'.removed = seen.removed
      /\ seen'.unsure = seen.unsure /\ seen'.carried = seen.carried
  BY <1>2
<1> QED  BY ONLY <1>2, <1>4, <1>5, BecomesFit

LEMMA ButtonFits ==
    ASSUME Truth, Fit, Act \/ \E who \in {Me, Other} : Assign(who) PROVE Fit'
BY ButtonStep, SameWrites, QuietFits

LEMMA SheetFits ==
    ASSUME Truth, Fit, OpenSheet \/ FillIn \/ CloseSheet PROVE Fit'
<1>1. /\ UNCHANGED <<writes, calls, jobs, seen, used>> /\ Kept(writes') = Kept(writes)
      /\ ui # Nothing
  BY SameWrites DEF OpenSheet, FillIn, CloseSheet
<1>2. IsPage(ui, used) /\ IsUse(used) /\ ui \in PageState(DOMAIN ui.previews)
  BY <1>1 DEF Truth, Types, IsPage
<1>3. ui' # Nothing  BY SheetStep
<1>4. \/ ui' = [ui EXCEPT !.sheet = "assign", !.form = Nothing]
      \/ ui' = [ui EXCEPT !.sheet = "report", !.previews = <<>>]
      \/ ui' = [ui EXCEPT !.form = ui.pane.id]
      \/ ui' = [ui EXCEPT !.sheet = "none", !.previews = <<>>, !.form = Nothing]
  BY DEF OpenSheet, FillIn, CloseSheet
<1>5. /\ ui'.pane = ui.pane /\ ui'.removing = ui.removing
      /\ ui'.previews = ui.previews \/ DOMAIN ui'.previews = {}
  BY <1>2, <1>4, EmptyPreviews DEF PageState
<1>6. CASE ui'.previews = ui.previews
  <2>1. Rendered(ui', ui)  BY <1>1, <1>3, <1>5, <1>6 DEF Rendered
  <2> QED  BY <1>1, <2>1, QuietFits
<1>7. CASE DOMAIN ui'.previews = {}
  <2> DEFINE ph == Kept(writes)
             v == ui'
  <2>1. /\ PhotosFit(ph, calls, jobs, ui, seen, used)
        /\ v # Nothing /\ DOMAIN v.previews = {} /\ v.removing = ui.removing
    BY <1>3, <1>5, <1>7 DEF Fit
  <2> HIDE DEF ph, v
  <2>2. PhotosFit(ph, calls, jobs, v, seen, used)  BY ONLY <2>1, EmptyFits
  <2> QED  BY <1>1, <2>2 DEF Fit, ph, v
<1> QED  BY <1>5, <1>6, <1>7

LEMMA QueryFits ==
    ASSUME Truth, Fit, NEW k \in Tickets,
           ServerReads(k) \/ QueryAnswered(k) \/ QueryFails(k) \/ Expire(k)
    PROVE  Fit'
<1>1. CASE QueryAnswered(k) \/ QueryFails(k)  BY <1>1, QueryStep, SameWrites, QuietFits
<1>2. CASE ServerReads(k)  BY <1>2, ReadsStep, SameWrites, QuietFits
<1>3. CASE Expire(k)  BY <1>3, ExpireStep, SameWrites, QuietFits
<1> QED  BY <1>1, <1>2, <1>3

LEMMA ForeignFits ==
    ASSUME Truth, Fit, NEW t \in Tickets, ForeignChange(t) PROVE Fit'
<1>1. /\ UNCHANGED <<calls, jobs, ui, seen>>
      /\ used'.photos = used.photos /\ used'.ids = used.ids
      /\ \A k \in Tickets \ {t} : writes'[k] = writes[k]
      /\ Photographs(writes', t) = Photographs(writes, t)
  BY ForeignStep
<1>2. \A k \in Tickets : Photographs(writes', k) = Photographs(writes, k)
  BY <1>1 DEF Photographs, Newest
<1>3. Kept(writes') = Kept(writes)  BY <1>2 DEF Kept
<1> QED  BY <1>1, <1>3, QuietFits

(* The server has changed a ticket.                                        *)
LEMMA PatchDoneFits ==
    ASSUME NEW ph, NEW cs, NEW js, NEW u, NEW sn, NEW us,
           PhotosFit(ph, cs, js, u, sn, us), NEW c \in cs, c.kind = "patch",
           NEW e, e.kind = "patch", e.job = c.job
    PROVE  PhotosFit(ph, (cs \ {c}) \cup {e}, js, u, sn, us)
<1> DEFINE ds == (cs \ {c}) \cup {e}
<1>1. /\ \A d \in cs : d.kind # "patch" => d \in ds
      /\ \A d \in ds : (d \in cs /\ d # c) \/ d = e
      /\ \A d \in ds : d.kind # "patch" => d \in cs
  OBVIOUS
<1> HIDE DEF ds
<1>2. UploadsBelong(ph, ds, js, sn)  BY <1>1 DEF PhotosFit, UploadsBelong
<1>3. ClosingIsLast(ds, js)
  <2>1. ClosingIsLast(cs, js)  BY DEF PhotosFit
  <2>2. \A a, b \in ds : a # b => a.job = 0 \/ a.job # b.job
    BY <1>1, <2>1 DEF ClosingIsLast
  <2>3. \A d \in ds : d.kind = "delete" => d.job = 0
    BY <1>1, <2>1 DEF ClosingIsLast
  <2>4. \A d \in ds : d.kind = "patch" /\ d.job # 0 =>
           \E j \in js : j.no = d.job /\ j.todo = {} /\ ~j.failed
    BY <1>1, <2>1 DEF ClosingIsLast
  <2> QED  BY <2>2, <2>3, <2>4 DEF ClosingIsLast
<1>4. RemovalsFit(ph, ds, js, u, sn, us)
  <2>1. RemovalsFit(ph, cs, js, u, sn, us)  BY DEF PhotosFit
  <2> QED  BY <1>1, <2>1 DEF RemovalsFit
<1>5. PreviewsFit(ph, ds, u, sn, us)
  <2>1. PreviewsFit(ph, cs, u, sn, us)  BY DEF PhotosFit
  <2>2. \A p : (\E d \in cs : d.kind = "delete" /\ d.here /\ d.photo = p /\ d.at = "done") =>
                \E d \in ds : d.kind = "delete" /\ d.here /\ d.photo = p /\ d.at = "done"
    BY <1>1
  <2> QED  BY <2>1, <2>2 DEF PreviewsFit
<1>6. CountsFit(ph, ds, js, u, sn, us)
  <2>1. CountsFit(ph, cs, js, u, sn, us)  BY DEF PhotosFit
  <2>2. \A p \in Photos : Unsent(ds, js, u, p) => Unsent(cs, js, u, p)  BY <1>1 DEF Unsent
  <2> QED  BY <2>1, <2>2 DEF CountsFit
<1> QED  BY <1>2, <1>3, <1>4, <1>5, <1>6 DEF PhotosFit, ds

(* The server has stored a photograph: once more than before, and there    *)
(* was room for it, since it was still to be sent.                         *)
LEMMA UploadDoneFits ==
    ASSUME NEW ph, NEW cs, NEW js, NEW u, NEW sn, NEW us, NEW vs,
           PhotosFit(ph, cs, js, u, sn, us), IsUse(us), IsSeen(sn),
           vs.photos = us.photos, vs.ids = us.ids + 1,
           \A j \in js : IsJob(j, us),
           NEW c \in cs, IsCall(c), c.kind = "upload", c.at = "sent",
           NEW e, WasDone(e, c), e.id = us.ids + 1,
           NEW ph2, DOMAIN ph2 = Tickets, \A t \in Tickets \ {c.t} : ph2[t] = ph[t],
           ph2[c.t] = ph[c.t] \cup {[photo |-> e.photo, id |-> e.id, turn |-> e.turn]}
    PROVE  PhotosFit(ph2, (cs \ {c}) \cup {e}, js, u, sn, vs)
<1> DEFINE ds == (cs \ {c}) \cup {e}
           n == us.ids + 1
           new == [photo |-> e.photo, id |-> e.id, turn |-> e.turn]
<1>1. /\ new.photo = c.photo /\ new.id = n /\ new.turn = c.turn /\ e.id = n
      /\ e.kind = "upload" /\ e.at = "done" /\ e.job = c.job /\ e.t = c.t
      /\ e.photo = c.photo /\ e.turn = c.turn /\ e.here = c.here
      /\ us.ids \in Nat /\ n = us.ids + 1 /\ vs.ids = n /\ us.photos \in Nat
      /\ c.t \in Tickets /\ c.photo \in Photos
  BY DEF WasDone, IsCall, IsUse
<1>2. /\ ph2[c.t] = ph[c.t] \cup {new} /\ e \in ds
      /\ \A d \in ds : (d \in cs /\ d # c) \/ d = e
      /\ \A d \in cs : d # c => d \in ds
  OBVIOUS
<1> HIDE DEF ds, n, new
<1>3. PICK j \in js : /\ j.no = c.job /\ c.photo \in j.todo /\ c.t = j.t
                      /\ c.turn = j.keep[c.photo].file /\ c.here = j.here
  BY DEF PhotosFit, UploadsBelong
<1>4. c.photo \in DOMAIN j.keep /\ c.photo \in 1..us.photos /\ j.no # 0
  BY <1>3 DEF IsJob
<1>5. \A t \in Tickets : ph[t] \subseteq ph2[t] /\ \A f \in ph2[t] : f \in ph[t] \/ f = new
  BY <1>2
<1>6. \A t \in Tickets : \A f \in ph[t] : f.id \in 1..us.ids /\ f.id # n
  <2>1. \A t \in Tickets : \A f \in ph[t] : f.id \in 1..us.ids
    BY DEF PhotosFit, IdsAreUnique
  <2> QED  BY <1>1, <2>1
<1>7. \A p : p # c.photo => IdsOf(ph2, p) = IdsOf(ph, p)
  <2> SUFFICES ASSUME NEW p, p # c.photo PROVE IdsOf(ph2, p) = IdsOf(ph, p)
    OBVIOUS
  <2>1. \A i : i \in IdsOf(ph2, p) <=> i \in IdsOf(ph, p)
    BY <1>1, <1>5, IdsMember
  <2> QED  BY <2>1
<1>8. IdsOf(ph2, c.photo) = IdsOf(ph, c.photo) \cup {n} /\ n \notin IdsOf(ph, c.photo)
  <2>1. \A i : i \in IdsOf(ph2, c.photo) <=> i \in IdsOf(ph, c.photo) \/ i = n
    BY <1>1, <1>2, <1>5, IdsMember
  <2>2. n \notin IdsOf(ph, c.photo)  BY <1>6, IdsMember
  <2> QED  BY <2>1, <2>2
<1>9. \A d \in cs : d.kind = "upload" /\ d # c => d.photo # c.photo
  <2> SUFFICES ASSUME NEW d \in cs, d.kind = "upload", d # c PROVE d.photo # c.photo
    OBVIOUS
  <2>1. PICK k \in js : k.no = d.job /\ d.photo \in k.todo
    BY DEF PhotosFit, UploadsBelong
  <2>2. d.job # c.job  BY <1>3, <1>4 DEF PhotosFit, ClosingIsLast
  <2>3. k # j  BY <1>3, <2>1, <2>2
  <2>4. d.photo \in DOMAIN k.keep  BY <2>1 DEF IsJob
  <2>5. DOMAIN k.keep \cap DOMAIN j.keep = {}  BY <2>3 DEF PhotosFit, SubmissionsKeep
  <2> QED  BY <1>4, <2>4, <2>5
<1>10. Room(IdsOf(ph, c.photo), c.photo, sn)
  <2>1. Unsent(cs, js, u, c.photo)  BY <1>3, <1>9 DEF Unsent
  <2> QED  BY <1>1, <2>1 DEF PhotosFit, CountsFit
<1>11. IdsAreUnique(ph2, vs)
  <2>1. IdsAreUnique(ph, us)  BY DEF PhotosFit
  <2>2. \A t \in Tickets : \A f \in ph2[t] : f.photo \in 1..vs.photos /\ f.id \in 1..vs.ids
    BY <1>1, <1>4, <1>5, <2>1 DEF IdsAreUnique
  <2>3. \A t, s \in Tickets : \A f \in ph2[t], g \in ph2[s] :
           f.id = g.id => t = s /\ f = g
    <3> SUFFICES ASSUME NEW t \in Tickets, NEW s \in Tickets,
                        NEW f \in ph2[t], NEW g \in ph2[s], f.id = g.id
                 PROVE  t = s /\ f = g
      OBVIOUS
    <3>1. CASE f \in ph[t] /\ g \in ph[s]  BY <2>1, <3>1 DEF IdsAreUnique
    <3>2. CASE f \notin ph[t]
      <4>1. f = new /\ t = c.t /\ f.id = n  BY <1>1, <1>5, <3>2
      <4>2. g \notin ph[s]  BY <1>6, <4>1
      <4> QED  BY <1>5, <4>1, <4>2
    <3>3. CASE g \notin ph[s]
      <4>1. g = new /\ s = c.t /\ g.id = n  BY <1>1, <1>5, <3>3
      <4>2. f \notin ph[t]  BY <1>6, <4>1
      <4> QED  BY <1>5, <4>1, <4>2
    <3> QED  BY <3>1, <3>2, <3>3
  <2> QED  BY <2>2, <2>3 DEF IdsAreUnique
<1>12. \A t \in Tickets : \A p, turn : Has(ph, t, p, turn) => Has(ph2, t, p, turn)
  BY <1>5 DEF Has
<1>13. \A id, p : Named(ph, id, p, us) => Named(ph2, id, p, vs)
  BY <1>1, <1>5 DEF Named
<1>14. \A id, s : id \in 1..us.ids /\ OnlyAt(ph, id, s) => OnlyAt(ph2, id, s)
  BY <1>1, <1>5 DEF OnlyAt
<1>15. SubmissionsKeep(ph2, js, u, sn)
  <2>1. SubmissionsKeep(ph, js, u, sn)  BY DEF PhotosFit
  <2>2. \A k \in js : k.t \in Tickets  BY DEF IsJob
  <2> QED  BY <1>12, <2>1, <2>2 DEF SubmissionsKeep
<1>16. UploadsBelong(ph2, ds, js, sn)
  <2>1. UploadsBelong(ph, cs, js, sn)  BY DEF PhotosFit
  <2> SUFFICES ASSUME NEW d \in ds, d.kind = "upload"
               PROVE  /\ \E i \in js : /\ i.no = d.job /\ d.photo \in i.todo /\ d.t = i.t
                                       /\ d.turn = i.keep[d.photo].file /\ d.here = i.here
                      /\ d.at = "done" =>
                            /\ \E f \in ph2[d.t] :
                                  f.photo = d.photo /\ f.id = d.id /\ f.turn = d.turn
                            /\ Room(IdsOf(ph2, d.photo) \ {d.id}, d.photo, sn)
    BY DEF UploadsBelong
  <2>2. CASE d \in cs /\ d # c
    <3>1. d.photo # c.photo  BY <1>9, <2>2
    <3>2. IdsOf(ph2, d.photo) = IdsOf(ph, d.photo)  BY <1>7, <3>1
    <3>3. PICK i \in js : /\ i.no = d.job /\ d.photo \in i.todo /\ d.t = i.t
                          /\ d.turn = i.keep[d.photo].file /\ d.here = i.here
      BY <2>1, <2>2 DEF UploadsBelong
    <3>4. d.t \in Tickets  BY <3>3 DEF IsJob
    <3>5. d.at = "done" =>
             /\ \E f \in ph[d.t] : f.photo = d.photo /\ f.id = d.id /\ f.turn = d.turn
             /\ Room(IdsOf(ph, d.photo) \ {d.id}, d.photo, sn)
      BY <2>1, <2>2 DEF UploadsBelong
    <3> QED  BY <1>5, <3>2, <3>3, <3>4, <3>5
  <2>3. CASE d = e
    <3>1. \E f \in ph2[d.t] : f.photo = d.photo /\ f.id = d.id /\ f.turn = d.turn
      BY <1>1, <1>2, <2>3
    <3>2. IdsOf(ph2, d.photo) \ {d.id} = IdsOf(ph, d.photo)  BY <1>1, <1>8, <2>3
    <3>3. d.photo = c.photo  BY <1>1, <2>3
    <3> QED  BY <1>1, <1>3, <1>10, <2>3, <3>1, <3>2, <3>3
  <2> QED  BY <1>2, <2>2, <2>3
<1>17. ClosingIsLast(ds, js)
  <2>1. ClosingIsLast(cs, js)  BY DEF PhotosFit
  <2>2. \A a, b \in ds : a # b => a.job = 0 \/ a.job # b.job
    BY <1>1, <1>2, <2>1 DEF ClosingIsLast
  <2> QED  BY <1>1, <1>2, <2>1, <2>2 DEF ClosingIsLast
<1>18. \A d \in cs : d.kind = "delete" => d.photo # c.photo
  BY <1>4 DEF PhotosFit, RemovalsFit
<1>19. RemovalsFit(ph2, ds, js, u, sn, vs)
  <2>1. RemovalsFit(ph, cs, js, u, sn, us)  BY DEF PhotosFit
  <2> SUFFICES ASSUME NEW d \in ds, d.kind = "delete"
               PROVE  /\ Named(ph2, d.id, d.photo, vs)
                      /\ d.photo \in 1..vs.photos
                      /\ \A i \in js : d.photo \notin DOMAIN i.keep
                      /\ d.here => /\ u # Nothing /\ u.removing = d.photo
                                   /\ \A b \in ds : b.kind = "delete" /\ b.here => b = d
                      /\ ~d.here /\ u # Nothing => d.photo \notin DOMAIN u.previews
                      /\ \/ d.photo \in sn.carried
                         \/ /\ d.at = "sent" /\ OnlyAt(ph2, d.id, d.t)
                            /\ Room(IdsOf(ph2, d.photo) \ {d.id}, d.photo, sn)
                         \/ d.at = "done" /\ Room(IdsOf(ph2, d.photo), d.photo, sn)
    BY DEF RemovalsFit
  <2>2. d \in cs /\ d.photo # c.photo  BY <1>1, <1>2, <1>18
  <2>3. /\ Named(ph, d.id, d.photo, us)
        /\ d.photo \in 1..us.photos
        /\ \A i \in js : d.photo \notin DOMAIN i.keep
        /\ d.here => /\ u # Nothing /\ u.removing = d.photo
                     /\ \A b \in cs : b.kind = "delete" /\ b.here => b = d
        /\ ~d.here /\ u # Nothing => d.photo \notin DOMAIN u.previews
        /\ \/ d.photo \in sn.carried
           \/ /\ d.at = "sent" /\ OnlyAt(ph, d.id, d.t)
              /\ Room(IdsOf(ph, d.photo) \ {d.id}, d.photo, sn)
           \/ d.at = "done" /\ Room(IdsOf(ph, d.photo), d.photo, sn)
    BY <2>1, <2>2 DEF RemovalsFit
  <2>4. \A b \in ds : b.kind = "delete" => b \in cs  BY <1>1, <1>2
  <2>5. d.id \in 1..us.ids /\ IdsOf(ph2, d.photo) = IdsOf(ph, d.photo)
    BY <1>7, <2>2, <2>3 DEF Named
  <2> QED  BY <1>13, <1>14, <2>3, <2>4, <2>5
<1>20. PreviewsFit(ph2, ds, u, sn, vs)
  <2>1. PreviewsFit(ph, cs, u, sn, us)  BY DEF PhotosFit
  <2> SUFFICES ASSUME u # Nothing, NEW p \in DOMAIN u.previews
               PROVE  /\ u.pane \in PaneState
                      /\ u.previews[p].file = u.previews[p].turn
                      /\ p \notin sn.removed
                      /\ u.previews[p].id # 0 =>
                            /\ Named(ph2, u.previews[p].id, p, vs)
                            /\ \/ u.previews[p].carried \/ p \in sn.unsure
                               \/ Has(ph2, u.pane.id, p, u.previews[p].turn)
                               \/ \E d \in ds : /\ d.kind = "delete" /\ d.here
                                                /\ d.photo = p /\ d.at = "done"
                            /\ \/ u.previews[p].carried
                               \/ /\ OnlyAt(ph2, u.previews[p].id, u.pane.id)
                                  /\ Room(IdsOf(ph2, p) \ {u.previews[p].id}, p, sn)
    BY DEF PreviewsFit
  <2>2. /\ u.pane \in PaneState
        /\ u.previews[p].file = u.previews[p].turn
        /\ p \notin sn.removed
        /\ u.previews[p].id # 0 =>
              /\ Named(ph, u.previews[p].id, p, us)
              /\ \/ u.previews[p].carried \/ p \in sn.unsure
                 \/ Has(ph, u.pane.id, p, u.previews[p].turn)
                 \/ \E d \in cs : d.kind = "delete" /\ d.here /\ d.photo = p /\ d.at = "done"
              /\ \/ u.previews[p].carried
                 \/ /\ OnlyAt(ph, u.previews[p].id, u.pane.id)
                    /\ Room(IdsOf(ph, p) \ {u.previews[p].id}, p, sn)
    BY <2>1 DEF PreviewsFit
  <2>3. u.pane.id \in Tickets  BY <2>2 DEF PaneState
  <2>4. u.previews[p].id # 0 => p # c.photo
    BY <1>3, <1>4 DEF PhotosFit, SubmissionsKeep
  <2>5. u.previews[p].id # 0 => u.previews[p].id \in 1..us.ids  BY <2>2 DEF Named
  <2>6. (\E d \in cs : d.kind = "delete" /\ d.here /\ d.photo = p /\ d.at = "done") =>
           \E d \in ds : d.kind = "delete" /\ d.here /\ d.photo = p /\ d.at = "done"
    BY <1>2
  <2> QED  BY <1>7, <1>12, <1>13, <1>14, <2>2, <2>3, <2>4, <2>5, <2>6
<1>21. CountsFit(ph2, ds, js, u, sn, vs)
  <2>1. CountsFit(ph, cs, js, u, sn, us)  BY DEF PhotosFit
  <2>2. Cardinality(IdsOf(ph2, c.photo)) <= sn.copies[c.photo]
    <3>1. IsFiniteSet(IdsOf(ph, c.photo))  BY IdsFinite DEF PhotosFit
    <3>2. Cardinality(IdsOf(ph2, c.photo)) = Cardinality(IdsOf(ph, c.photo)) + 1
      BY <1>8, <3>1, FS_AddElement
    <3>3. Cardinality(IdsOf(ph, c.photo)) \in Nat  BY <3>1, FS_CardinalityType
    <3>4. sn.copies[c.photo] \in Nat  BY <1>1 DEF IsSeen
    <3> QED  BY <1>10, <3>2, <3>3, <3>4 DEF Room
  <2>3. c.photo \notin sn.removed  BY <1>4 DEF PhotosFit, SubmissionsKeep
  <2>4. ~Unsent(ds, js, u, c.photo)  BY <1>1, <1>2 DEF Unsent
  <2>5. \A p : p # c.photo /\ Unsent(ds, js, u, p) => Unsent(cs, js, u, p)
    BY <1>2 DEF Unsent
  <2> QED  BY <1>7, <2>1, <2>2, <2>3, <2>4, <2>5 DEF CountsFit
<1> QED  BY <1>11, <1>15, <1>16, <1>17, <1>19, <1>20, <1>21 DEF PhotosFit, ds

LEMMA RoomStays ==
    ASSUME NEW S, IsFiniteSet(S), NEW T, T \subseteq S, NEW p, NEW sn, sn.copies[p] \in Nat
    PROVE  /\ Room(S, p, sn) => Room(T, p, sn)
           /\ Cardinality(S) <= sn.copies[p] => Cardinality(T) <= sn.copies[p]
<1>1. /\ Cardinality(T) <= Cardinality(S) /\ Cardinality(S) \in Nat /\ Cardinality(T) \in Nat
  BY FS_Subset, FS_CardinalityType
<1> QED  BY <1>1 DEF Room

(* The server has removed a photograph: what has that id is gone.          *)
LEMMA DeleteDoneFits ==
    ASSUME NEW ph, NEW cs, NEW js, NEW u, NEW sn, NEW us,
           PhotosFit(ph, cs, js, u, sn, us), IsUse(us), IsSeen(sn),
           u # Nothing => IsPage(u, us),
           \A j \in js : IsJob(j, us), \A d \in cs : IsCall(d),
           NEW c \in cs, c.kind = "delete", c.at = "sent", NEW e, WasDone(e, c),
           NEW ph2, DOMAIN ph2 = Tickets, \A t \in Tickets \ {c.t} : ph2[t] = ph[t],
           ph2[c.t] = {f \in ph[c.t] : f.id # e.id}
    PROVE  PhotosFit(ph2, (cs \ {c}) \cup {e}, js, u, sn, us)
<1> DEFINE ds == (cs \ {c}) \cup {e}
<1>1. /\ e.kind = "delete" /\ e.at = "done" /\ e.job = c.job /\ e.t = c.t
      /\ e.photo = c.photo /\ e.id = c.id /\ e.here = c.here
      /\ c.t \in Tickets /\ c.photo \in Photos
  BY DEF WasDone, IsCall
<1>2. /\ e \in ds
      /\ \A d \in ds : (d \in cs /\ d # c) \/ d = e
      /\ \A d \in cs : d # c => d \in ds
  OBVIOUS
<1> HIDE DEF ds
<1>3. RemovalsFit(ph, cs, js, u, sn, us)  BY DEF PhotosFit
<1>4. /\ Named(ph, c.id, c.photo, us)
      /\ \A j \in js : c.photo \notin DOMAIN j.keep
      /\ c.here => \A d \in cs : d.kind = "delete" /\ d.here => d = c
      /\ ~c.here /\ u # Nothing => c.photo \notin DOMAIN u.previews
      /\ \/ c.photo \in sn.carried
         \/ /\ OnlyAt(ph, c.id, c.t)
            /\ Room(IdsOf(ph, c.photo) \ {c.id}, c.photo, sn)
  BY <1>3 DEF RemovalsFit
<1>5. \A t \in Tickets : /\ ph2[t] \subseteq ph[t]
                         /\ \A f \in ph[t] : f.id # c.id => f \in ph2[t]
  BY <1>1
<1>6. \A t \in Tickets : \A f \in ph[t] : f.photo # c.photo => f \in ph2[t]
  BY <1>4, <1>5 DEF Named
<1>7. \A p : IdsOf(ph2, p) \subseteq IdsOf(ph, p)  BY <1>5, IdsMember
<1>8. \A p \in Photos : sn.copies[p] \in Nat  BY DEF IsSeen
<1>9. \A p \in Photos : /\ Room(IdsOf(ph, p), p, sn) => Room(IdsOf(ph2, p), p, sn)
                        /\ Cardinality(IdsOf(ph, p)) <= sn.copies[p] =>
                               Cardinality(IdsOf(ph2, p)) <= sn.copies[p]
  <2> SUFFICES ASSUME NEW p \in Photos
               PROVE  /\ Room(IdsOf(ph, p), p, sn) => Room(IdsOf(ph2, p), p, sn)
                      /\ Cardinality(IdsOf(ph, p)) <= sn.copies[p] =>
                             Cardinality(IdsOf(ph2, p)) <= sn.copies[p]
    OBVIOUS
  <2>1. IsFiniteSet(IdsOf(ph, p))  BY IdsFinite DEF PhotosFit
  <2> QED  BY <1>7, <1>8, <2>1, RoomStays
<1>10. \A p \in Photos : \A id :
          Room(IdsOf(ph, p) \ {id}, p, sn) => Room(IdsOf(ph2, p) \ {id}, p, sn)
  <2> SUFFICES ASSUME NEW p \in Photos, NEW id
               PROVE  Room(IdsOf(ph, p) \ {id}, p, sn) => Room(IdsOf(ph2, p) \ {id}, p, sn)
    OBVIOUS
  <2> DEFINE S == IdsOf(ph, p) \ {id}
             T == IdsOf(ph2, p) \ {id}
  <2>1. IsFiniteSet(IdsOf(ph, p))  BY IdsFinite DEF PhotosFit
  <2>2. IsFiniteSet(S)  BY <2>1, FS_RemoveElement
  <2>3. T \subseteq S  BY <1>7
  <2> HIDE DEF S, T
  <2>4. Room(S, p, sn) => Room(T, p, sn)  BY <1>8, <2>2, <2>3, RoomStays
  <2> QED  BY <2>4 DEF S, T
<1>11. IdsAreUnique(ph2, us)  BY <1>5 DEF PhotosFit, IdsAreUnique
<1>12. \A t \in Tickets : \A p, turn :
          p # c.photo /\ Has(ph, t, p, turn) => Has(ph2, t, p, turn)
  BY <1>6 DEF Has
<1>13. \A id, p : Named(ph, id, p, us) => Named(ph2, id, p, us)  BY <1>5 DEF Named
<1>14. \A id, s : OnlyAt(ph, id, s) => OnlyAt(ph2, id, s)  BY <1>5 DEF OnlyAt
<1>15. SubmissionsKeep(ph2, js, u, sn)
  <2>1. SubmissionsKeep(ph, js, u, sn)  BY DEF PhotosFit
  <2>2. \A k \in js : k.t \in Tickets  BY DEF IsJob
  <2> QED  BY <1>4, <1>12, <2>1, <2>2 DEF SubmissionsKeep
<1>16. UploadsBelong(ph2, ds, js, sn)
  <2>1. UploadsBelong(ph, cs, js, sn)  BY DEF PhotosFit
  <2> SUFFICES ASSUME NEW d \in ds, d.kind = "upload"
               PROVE  /\ \E i \in js : /\ i.no = d.job /\ d.photo \in i.todo /\ d.t = i.t
                                       /\ d.turn = i.keep[d.photo].file /\ d.here = i.here
                      /\ d.at = "done" =>
                            /\ \E f \in ph2[d.t] :
                                  f.photo = d.photo /\ f.id = d.id /\ f.turn = d.turn
                            /\ Room(IdsOf(ph2, d.photo) \ {d.id}, d.photo, sn)
    BY DEF UploadsBelong
  <2>2. d \in cs  BY <1>1, <1>2
  <2>3. PICK i \in js : /\ i.no = d.job /\ d.photo \in i.todo /\ d.t = i.t
                        /\ d.turn = i.keep[d.photo].file /\ d.here = i.here
    BY <2>1, <2>2 DEF UploadsBelong
  <2>4. d.t \in Tickets /\ d.photo # c.photo /\ d.photo \in Photos
    BY <1>4, <2>2, <2>3 DEF IsJob, IsCall
  <2>5. d.at = "done" =>
           /\ \E f \in ph[d.t] : f.photo = d.photo /\ f.id = d.id /\ f.turn = d.turn
           /\ Room(IdsOf(ph, d.photo) \ {d.id}, d.photo, sn)
    BY <2>1, <2>2 DEF UploadsBelong
  <2> QED  BY <1>6, <1>10, <2>3, <2>4, <2>5
<1>17. ClosingIsLast(ds, js)
  <2>1. ClosingIsLast(cs, js)  BY DEF PhotosFit
  <2>2. \A a, b \in ds : a # b => a.job = 0 \/ a.job # b.job
    BY <1>1, <1>2, <2>1 DEF ClosingIsLast
  <2> QED  BY <1>1, <1>2, <2>1, <2>2 DEF ClosingIsLast
<1>18. RemovalsFit(ph2, ds, js, u, sn, us)
  <2> SUFFICES ASSUME NEW d \in ds, d.kind = "delete"
               PROVE  /\ Named(ph2, d.id, d.photo, us)
                      /\ d.photo \in 1..us.photos
                      /\ \A i \in js : d.photo \notin DOMAIN i.keep
                      /\ d.here => /\ u # Nothing /\ u.removing = d.photo
                                   /\ \A b \in ds : b.kind = "delete" /\ b.here => b = d
                      /\ ~d.here /\ u # Nothing => d.photo \notin DOMAIN u.previews
                      /\ \/ d.photo \in sn.carried
                         \/ /\ d.at = "sent" /\ OnlyAt(ph2, d.id, d.t)
                            /\ Room(IdsOf(ph2, d.photo) \ {d.id}, d.photo, sn)
                         \/ d.at = "done" /\ Room(IdsOf(ph2, d.photo), d.photo, sn)
    BY DEF RemovalsFit
  <2>1. CASE d \in cs /\ d # c
    <3>1. /\ Named(ph, d.id, d.photo, us)
          /\ d.photo \in 1..us.photos
          /\ \A i \in js : d.photo \notin DOMAIN i.keep
          /\ d.here => /\ u # Nothing /\ u.removing = d.photo
                       /\ \A b \in cs : b.kind = "delete" /\ b.here => b = d
          /\ ~d.here /\ u # Nothing => d.photo \notin DOMAIN u.previews
          /\ \/ d.photo \in sn.carried
             \/ /\ d.at = "sent" /\ OnlyAt(ph, d.id, d.t)
                /\ Room(IdsOf(ph, d.photo) \ {d.id}, d.photo, sn)
             \/ d.at = "done" /\ Room(IdsOf(ph, d.photo), d.photo, sn)
      BY <1>3, <2>1 DEF RemovalsFit
    <3>2. d.photo \in Photos  BY <2>1 DEF IsCall
    <3>3. d.here => \A b \in ds : b.kind = "delete" /\ b.here => b = d
      BY <1>1, <1>2, <2>1, <3>1
    <3> QED  BY <1>9, <1>10, <1>13, <1>14, <3>1, <3>2, <3>3
  <2>2. CASE d = e
    <3>1. /\ Named(ph, d.id, d.photo, us)
          /\ d.photo \in 1..us.photos
          /\ \A i \in js : d.photo \notin DOMAIN i.keep
          /\ d.here => u # Nothing /\ u.removing = d.photo
          /\ ~d.here /\ u # Nothing => d.photo \notin DOMAIN u.previews
      BY <1>1, <1>3, <2>2 DEF RemovalsFit
    <3>2. d.here => \A b \in ds : b.kind = "delete" /\ b.here => b = d
      BY <1>1, <1>2, <1>4, <2>2
    <3>3. OnlyAt(ph, c.id, c.t) => IdsOf(ph2, c.photo) \subseteq IdsOf(ph, c.photo) \ {c.id}
      <4> SUFFICES ASSUME OnlyAt(ph, c.id, c.t), NEW i \in IdsOf(ph2, c.photo)
                   PROVE  i \in IdsOf(ph, c.photo) \ {c.id}
        OBVIOUS
      <4>1. PICK t \in Tickets : \E f \in ph2[t] : f.photo = c.photo /\ f.id = i
        BY IdsMember
      <4>2. i # c.id  BY <1>1, <1>5, <4>1 DEF OnlyAt
      <4> QED  BY <1>7, <4>2
    <3>4. d.photo \in sn.carried \/ Room(IdsOf(ph2, d.photo), d.photo, sn)
      <4> DEFINE S == IdsOf(ph, c.photo) \ {c.id}
                 T == IdsOf(ph2, c.photo)
                 p == c.photo
      <4>1. IsFiniteSet(IdsOf(ph, c.photo))  BY IdsFinite DEF PhotosFit
      <4>2. IsFiniteSet(S)  BY <4>1, FS_RemoveElement
      <4>3. OnlyAt(ph, c.id, c.t) => T \subseteq S  BY <3>3
      <4>4. sn.copies[p] \in Nat  BY <1>1, <1>8
      <4>5. p \in sn.carried \/ (OnlyAt(ph, c.id, c.t) /\ Room(S, p, sn))  BY <1>4
      <4> HIDE DEF S, T, p
      <4>6. p \in sn.carried \/ Room(T, p, sn)  BY <4>2, <4>3, <4>4, <4>5, RoomStays
      <4> QED  BY <1>1, <2>2, <4>6 DEF T, p
    <3> QED  BY <1>1, <1>13, <2>2, <3>1, <3>2, <3>4
  <2> QED  BY <1>2, <2>1, <2>2
<1>19. PreviewsFit(ph2, ds, u, sn, us)
  <2>1. PreviewsFit(ph, cs, u, sn, us)  BY DEF PhotosFit
  <2> SUFFICES ASSUME u # Nothing, NEW p \in DOMAIN u.previews
               PROVE  /\ u.pane \in PaneState
                      /\ u.previews[p].file = u.previews[p].turn
                      /\ p \notin sn.removed
                      /\ u.previews[p].id # 0 =>
                            /\ Named(ph2, u.previews[p].id, p, us)
                            /\ \/ u.previews[p].carried \/ p \in sn.unsure
                               \/ Has(ph2, u.pane.id, p, u.previews[p].turn)
                               \/ \E d \in ds : /\ d.kind = "delete" /\ d.here
                                                /\ d.photo = p /\ d.at = "done"
                            /\ \/ u.previews[p].carried
                               \/ /\ OnlyAt(ph2, u.previews[p].id, u.pane.id)
                                  /\ Room(IdsOf(ph2, p) \ {u.previews[p].id}, p, sn)
    BY DEF PreviewsFit
  <2>2. /\ u.pane \in PaneState
        /\ u.previews[p].file = u.previews[p].turn
        /\ p \notin sn.removed
        /\ u.previews[p].id # 0 =>
              /\ Named(ph, u.previews[p].id, p, us)
              /\ \/ u.previews[p].carried \/ p \in sn.unsure
                 \/ Has(ph, u.pane.id, p, u.previews[p].turn)
                 \/ \E d \in cs : d.kind = "delete" /\ d.here /\ d.photo = p /\ d.at = "done"
              /\ \/ u.previews[p].carried
                 \/ /\ OnlyAt(ph, u.previews[p].id, u.pane.id)
                    /\ Room(IdsOf(ph, p) \ {u.previews[p].id}, p, sn)
    BY <2>1 DEF PreviewsFit
  <2>3. u.pane.id \in Tickets  BY <2>2 DEF PaneState
  <2>4. (\E d \in cs : d.kind = "delete" /\ d.here /\ d.photo = p /\ d.at = "done") =>
           \E d \in ds : d.kind = "delete" /\ d.here /\ d.photo = p /\ d.at = "done"
    BY <1>2
  <2>5. p = c.photo =>
           \E d \in ds : d.kind = "delete" /\ d.here /\ d.photo = p /\ d.at = "done"
    BY <1>1, <1>2, <1>4
  <2>6. u.previews[p].id # 0 =>
              /\ Named(ph2, u.previews[p].id, p, us)
              /\ \/ u.previews[p].carried
                 \/ /\ OnlyAt(ph2, u.previews[p].id, u.pane.id)
                    /\ Room(IdsOf(ph, p) \ {u.previews[p].id}, p, sn)
    BY <1>13, <1>14, <2>2
  <2>7. p \in Photos  BY PageIsThere
  <2> QED  BY <1>10, <1>12, <2>2, <2>3, <2>4, <2>5, <2>6, <2>7
<1>20. CountsFit(ph2, ds, js, u, sn, us)
  <2>1. CountsFit(ph, cs, js, u, sn, us)  BY DEF PhotosFit
  <2>2. \A p \in Photos : Unsent(ds, js, u, p) => Unsent(cs, js, u, p)
    BY <1>1, <1>2 DEF Unsent
  <2> QED  BY <1>9, <2>1, <2>2 DEF CountsFit
<1> QED  BY <1>11, <1>15, <1>16, <1>17, <1>18, <1>19, <1>20 DEF PhotosFit, ds

LEMMA ServerFits ==
    ASSUME Truth, Fit, NEW c \in calls, ServerDoes(c) PROVE Fit'
<1> DEFINE ph == Kept(writes)
           ph2 == Kept(writes')
           vs == used'
<1>1. PhotosFit(ph, calls, jobs, ui, seen, used)  BY DEF Fit
<1>2. PICK e :
         /\ WasDone(e, c) /\ calls' = (calls \ {c}) \cup {e}
         /\ c.kind = "upload" => e.id = used.ids + 1
         /\ c.kind = "patch" => Photographs(writes', c.t) = Photographs(writes, c.t)
         /\ c.kind = "upload" =>
               Photographs(writes', c.t) = Photographs(writes, c.t) \cup
                   {[photo |-> e.photo, id |-> e.id, turn |-> e.turn]}
         /\ c.kind = "delete" =>
               Photographs(writes', c.t) = {f \in Photographs(writes, c.t) : f.id # e.id}
  BY ServerStep
<1>3. /\ UNCHANGED <<jobs, ui, seen>> /\ vs.photos = used.photos /\ c.at = "sent"
      /\ vs.ids = used.ids + (IF c.kind = "upload" THEN 1 ELSE 0)
      /\ \A t \in Tickets \ {c.t} : writes'[t] = writes[t]
  BY ServerStep
<1>4. /\ \A d \in calls : IsCall(d)
      /\ \A j \in jobs : IsJob(j, used)
      /\ ui # Nothing => IsPage(ui, used)
      /\ IsUse(used) /\ IsSeen(seen) /\ used.ids \in Nat
      /\ IsCall(c) /\ c.t \in Tickets
  BY DEF Truth, Types, IsUse, IsCall
<1>5. DOMAIN ph2 = Tickets /\ \A t \in Tickets \ {c.t} : ph2[t] = ph[t]
  BY <1>3 DEF Kept, Photographs, Newest
<1>6. ph2[c.t] = Photographs(writes', c.t) /\ ph[c.t] = Photographs(writes, c.t)
  BY <1>4 DEF Kept
<1>7. DOMAIN ph = Tickets  BY DEF Kept
<1>8. Kept(writes') = ph2  OBVIOUS
<1>9. jobs' = jobs /\ ui' = ui /\ seen' = seen /\ used' = vs  BY <1>3
<1> HIDE DEF ph, ph2, vs
<1>10. PhotosFit(ph2, (calls \ {c}) \cup {e}, jobs, ui, seen, vs)
  <2>1. CASE c.kind = "patch"
    <3>1. \A t \in Tickets : ph2[t] = ph[t]  BY <1>2, <1>5, <1>6, <2>1
    <3>2. ph2 = ph
      <4>1. ph2 = [t \in Tickets |-> ph2[t]] /\ ph = [t \in Tickets |-> ph[t]]
        BY <1>6 DEF Kept, ph, ph2
      <4> QED  BY <3>1, <4>1
    <3>3. e.kind = "patch" /\ e.job = c.job  BY <1>2, <2>1 DEF WasDone
    <3>4. PhotosFit(ph, (calls \ {c}) \cup {e}, jobs, ui, seen, used)
      BY ONLY <1>1, c \in calls, <2>1, <3>3, PatchDoneFits
    <3>5. used.photos = vs.photos /\ used.ids = vs.ids  BY <1>3, <1>4, <2>1
    <3> QED  BY ONLY <3>2, <3>4, <3>5, SameUseFits
  <2>2. CASE c.kind = "upload"
    <3>1. /\ vs.ids = used.ids + 1 /\ vs.photos = used.photos /\ e.id = used.ids + 1
          /\ ph2[c.t] = ph[c.t] \cup {[photo |-> e.photo, id |-> e.id, turn |-> e.turn]}
          /\ WasDone(e, c) /\ c.at = "sent"
      BY <1>2, <1>3, <1>6, <2>2
    <3> QED  BY ONLY <1>1, c \in calls, <1>4, <1>5, <2>2, <3>1, UploadDoneFits
  <2>3. CASE c.kind = "delete"
    <3>1. ph2[c.t] = {f \in ph[c.t] : f.id # e.id} /\ WasDone(e, c) /\ c.at = "sent"
      BY <1>2, <1>3, <1>6, <2>3
    <3>2. PhotosFit(ph2, (calls \ {c}) \cup {e}, jobs, ui, seen, used)
      BY ONLY <1>1, c \in calls, <1>4, <1>5, <2>3, <3>1, DeleteDoneFits
    <3>3. used.photos = vs.photos /\ used.ids = vs.ids  BY <1>3, <1>4, <2>3
    <3> QED  BY ONLY <3>2, <3>3, SameUseFits
  <2> QED  BY <1>4, <2>1, <2>2, <2>3 DEF IsCall
<1> QED  BY <1>2, <1>8, <1>9, <1>10 DEF Fit

-----------------------------------------------------------------------------
(* A call that is over.                                                    *)

(* A removal was confirmed: the preview is gone, if it is still there.     *)
LEMMA DeleteOkFits ==
    ASSUME NEW ph, NEW cs, NEW js, NEW u, NEW sn, NEW us,
           PhotosFit(ph, cs, js, u, sn, us),
           NEW c \in cs, c.kind = "delete", c.at = "done",
           NEW v, NEW sm,
           u = Nothing <=> v = Nothing,
           u # Nothing => /\ v.pane = u.pane
                          /\ DOMAIN v.previews = DOMAIN u.previews \ {c.photo}
                          /\ \A p \in DOMAIN v.previews : v.previews[p] = u.previews[p]
                          /\ ~c.here => v.removing = u.removing,
           sm.removed = sn.removed \cup {c.photo}, sm.copies = sn.copies,
           sm.unsure = sn.unsure, sm.carried = sn.carried
    PROVE  PhotosFit(ph, cs \ {c}, js, v, sm, us)
<1> DEFINE ds == cs \ {c}
<1>1. ds \subseteq cs /\ c \notin ds /\ \A d \in cs : d # c => d \in ds  OBVIOUS
<1> HIDE DEF ds
<1>2. \A S, p : Room(S, p, sm) <=> Room(S, p, sn)  BY DEF Room
<1>3. RemovalsFit(ph, cs, js, u, sn, us)  BY DEF PhotosFit
<1>4. /\ c.photo \in 1..us.photos
      /\ \A j \in js : c.photo \notin DOMAIN j.keep
      /\ c.here => \A d \in cs : d.kind = "delete" /\ d.here => d = c
      /\ c.photo \in sn.carried \/ Room(IdsOf(ph, c.photo), c.photo, sn)
  BY <1>3 DEF RemovalsFit
<1>5. SubmissionsKeep(ph, js, v, sm)
  <2>1. SubmissionsKeep(ph, js, u, sn)  BY DEF PhotosFit
  <2> QED  BY <1>4, <2>1 DEF SubmissionsKeep
<1>6. UploadsBelong(ph, ds, js, sm)  BY <1>1, <1>2 DEF PhotosFit, UploadsBelong
<1>7. ClosingIsLast(ds, js)  BY <1>1 DEF PhotosFit, ClosingIsLast
<1>8. RemovalsFit(ph, ds, js, v, sm, us)
  <2> SUFFICES ASSUME NEW d \in ds, d.kind = "delete"
               PROVE  /\ Named(ph, d.id, d.photo, us)
                      /\ d.photo \in 1..us.photos
                      /\ \A j \in js : d.photo \notin DOMAIN j.keep
                      /\ d.here => /\ v # Nothing /\ v.removing = d.photo
                                   /\ \A e \in ds : e.kind = "delete" /\ e.here => e = d
                      /\ ~d.here /\ v # Nothing => d.photo \notin DOMAIN v.previews
                      /\ \/ d.photo \in sm.carried
                         \/ /\ d.at = "sent" /\ OnlyAt(ph, d.id, d.t)
                            /\ Room(IdsOf(ph, d.photo) \ {d.id}, d.photo, sm)
                         \/ d.at = "done" /\ Room(IdsOf(ph, d.photo), d.photo, sm)
    BY DEF RemovalsFit
  <2>1. d \in cs /\ d # c  BY <1>1
  <2>2. d.here => ~c.here  BY <1>4, <2>1
  <2> QED  BY <1>1, <1>2, <1>3, <2>1, <2>2 DEF RemovalsFit
<1>9. PreviewsFit(ph, ds, v, sm, us)
  <2>1. PreviewsFit(ph, cs, u, sn, us)  BY DEF PhotosFit
  <2> SUFFICES ASSUME v # Nothing, NEW p \in DOMAIN v.previews
               PROVE  /\ v.pane \in PaneState
                      /\ v.previews[p].file = v.previews[p].turn
                      /\ p \notin sm.removed
                      /\ v.previews[p].id # 0 =>
                            /\ Named(ph, v.previews[p].id, p, us)
                            /\ \/ v.previews[p].carried \/ p \in sm.unsure
                               \/ Has(ph, v.pane.id, p, v.previews[p].turn)
                               \/ \E d \in ds : /\ d.kind = "delete" /\ d.here
                                                /\ d.photo = p /\ d.at = "done"
                            /\ \/ v.previews[p].carried
                               \/ /\ OnlyAt(ph, v.previews[p].id, v.pane.id)
                                  /\ Room(IdsOf(ph, p) \ {v.previews[p].id}, p, sm)
    BY DEF PreviewsFit
  <2>2. /\ p \in DOMAIN u.previews /\ p # c.photo /\ v.previews[p] = u.previews[p]
        /\ v.pane = u.pane
    OBVIOUS
  <2>3. (\E d \in cs : d.kind = "delete" /\ d.here /\ d.photo = p /\ d.at = "done") =>
           \E d \in ds : d.kind = "delete" /\ d.here /\ d.photo = p /\ d.at = "done"
    BY <1>1, <2>2
  <2> QED  BY <1>2, <2>1, <2>2, <2>3 DEF PreviewsFit
<1>10. CountsFit(ph, ds, js, v, sm, us)
  <2>1. CountsFit(ph, cs, js, u, sn, us)  BY DEF PhotosFit
  <2>2. \A p \in Photos : Unsent(ds, js, v, p) => Unsent(cs, js, u, p)
    BY <1>1 DEF Unsent
  <2> QED  BY <1>2, <1>4, <2>1, <2>2 DEF CountsFit
<1> QED  BY <1>5, <1>6, <1>7, <1>8, <1>9, <1>10 DEF PhotosFit, ds

(* A removal failed: the preview stays, and nobody knows what is stored.   *)
LEMMA DeleteFailedFits ==
    ASSUME NEW ph, NEW cs, NEW js, NEW u, NEW sn, NEW us,
           PhotosFit(ph, cs, js, u, sn, us),
           NEW c \in cs, c.kind = "delete", c.photo \in 1..us.photos,
           NEW v, NEW sm,
           u = Nothing <=> v = Nothing,
           u # Nothing => /\ v.pane = u.pane /\ DOMAIN v.previews = DOMAIN u.previews
                          /\ \A p \in DOMAIN v.previews : v.previews[p] = u.previews[p]
                          /\ ~c.here => v.removing = u.removing,
           sm.removed = sn.removed, sm.copies = sn.copies, sm.carried = sn.carried,
           sm.unsure = IF c.at = "done" THEN sn.unsure \cup {c.photo} ELSE sn.unsure
    PROVE  PhotosFit(ph, cs \ {c}, js, v, sm, us)
<1> DEFINE ds == cs \ {c}
<1>1. ds \subseteq cs /\ c \notin ds /\ \A d \in cs : d # c => d \in ds  OBVIOUS
<1> HIDE DEF ds
<1>2. \A S, p : Room(S, p, sm) <=> Room(S, p, sn)  BY DEF Room
<1>3. RemovalsFit(ph, cs, js, u, sn, us)  BY DEF PhotosFit
<1>4. c.here => \A d \in cs : d.kind = "delete" /\ d.here => d = c
  BY <1>3 DEF RemovalsFit
<1>5. sn.unsure \subseteq sm.unsure /\ sm.unsure \subseteq sn.unsure \cup {c.photo}
      /\ (c.at = "done" => c.photo \in sm.unsure)
  OBVIOUS
<1>6. SubmissionsKeep(ph, js, v, sm)
  <2>1. SubmissionsKeep(ph, js, u, sn)  BY DEF PhotosFit
  <2> QED  BY <1>5, <2>1 DEF SubmissionsKeep
<1>7. UploadsBelong(ph, ds, js, sm)  BY <1>1, <1>2 DEF PhotosFit, UploadsBelong
<1>8. ClosingIsLast(ds, js)  BY <1>1 DEF PhotosFit, ClosingIsLast
<1>9. RemovalsFit(ph, ds, js, v, sm, us)
  <2> SUFFICES ASSUME NEW d \in ds, d.kind = "delete"
               PROVE  /\ Named(ph, d.id, d.photo, us)
                      /\ d.photo \in 1..us.photos
                      /\ \A j \in js : d.photo \notin DOMAIN j.keep
                      /\ d.here => /\ v # Nothing /\ v.removing = d.photo
                                   /\ \A e \in ds : e.kind = "delete" /\ e.here => e = d
                      /\ ~d.here /\ v # Nothing => d.photo \notin DOMAIN v.previews
                      /\ \/ d.photo \in sm.carried
                         \/ /\ d.at = "sent" /\ OnlyAt(ph, d.id, d.t)
                            /\ Room(IdsOf(ph, d.photo) \ {d.id}, d.photo, sm)
                         \/ d.at = "done" /\ Room(IdsOf(ph, d.photo), d.photo, sm)
    BY DEF RemovalsFit
  <2>1. d \in cs /\ d # c  BY <1>1
  <2>2. d.here => ~c.here  BY <1>4, <2>1
  <2> QED  BY <1>1, <1>2, <1>3, <2>1, <2>2 DEF RemovalsFit
<1>10. PreviewsFit(ph, ds, v, sm, us)
  <2>1. PreviewsFit(ph, cs, u, sn, us)  BY DEF PhotosFit
  <2> SUFFICES ASSUME v # Nothing, NEW p \in DOMAIN v.previews
               PROVE  /\ v.pane \in PaneState
                      /\ v.previews[p].file = v.previews[p].turn
                      /\ p \notin sm.removed
                      /\ v.previews[p].id # 0 =>
                            /\ Named(ph, v.previews[p].id, p, us)
                            /\ \/ v.previews[p].carried \/ p \in sm.unsure
                               \/ Has(ph, v.pane.id, p, v.previews[p].turn)
                               \/ \E d \in ds : /\ d.kind = "delete" /\ d.here
                                                /\ d.photo = p /\ d.at = "done"
                            /\ \/ v.previews[p].carried
                               \/ /\ OnlyAt(ph, v.previews[p].id, v.pane.id)
                                  /\ Room(IdsOf(ph, p) \ {v.previews[p].id}, p, sm)
    BY DEF PreviewsFit
  <2>2. p \in DOMAIN u.previews /\ v.previews[p] = u.previews[p] /\ v.pane = u.pane
    OBVIOUS
  <2>3. (\E d \in cs : d.kind = "delete" /\ d.here /\ d.photo = p /\ d.at = "done") =>
           \/ p \in sm.unsure
           \/ \E d \in ds : d.kind = "delete" /\ d.here /\ d.photo = p /\ d.at = "done"
    BY <1>1, <1>5
  <2> QED  BY <1>2, <1>5, <2>1, <2>2, <2>3 DEF PreviewsFit
<1>11. CountsFit(ph, ds, js, v, sm, us)
  <2>1. CountsFit(ph, cs, js, u, sn, us)  BY DEF PhotosFit
  <2>2. \A p \in Photos : Unsent(ds, js, v, p) => Unsent(cs, js, u, p)
    BY <1>1 DEF Unsent
  <2> QED  BY <1>2, <1>5, <2>1, <2>2 DEF CountsFit
<1> QED  BY <1>6, <1>7, <1>8, <1>9, <1>10, <1>11 DEF PhotosFit, ds

(* What the end of a call does to the observations of photographs.         *)
Noticed(c, ok, sn, sm) ==
    /\ sm.carried = sn.carried
    /\ sm.removed = IF ok /\ c.kind = "delete" THEN sn.removed \cup {c.photo} ELSE sn.removed
    /\ sm.unsure = IF ~ok /\ c.kind = "delete" /\ c.at = "done"
                   THEN sn.unsure \cup {c.photo} ELSE sn.unsure
    /\ IF ~ok /\ c.kind = "upload" /\ c.at = "done"
       THEN /\ sm.copies[c.photo] = sn.copies[c.photo] + 1
            /\ \A p \in Photos \ {c.photo} : sm.copies[p] = sn.copies[p]
       ELSE sm.copies = sn.copies

(* What the answer to an upload does to its submission and to the page.    *)
Lessened(k, j, c, ok) ==
    /\ k.no = j.no /\ k.t = j.t /\ k.keep = j.keep /\ k.here = j.here
    /\ k.todo = j.todo \ {c.photo} /\ (k.failed <=> j.failed \/ ~ok)

Given(v, u, c, ok) ==
    /\ u = Nothing <=> v = Nothing
    /\ u # Nothing => /\ v.pane = u.pane /\ v.removing = u.removing
                      /\ DOMAIN v.previews = DOMAIN u.previews
                      /\ \A p \in DOMAIN u.previews :
                            /\ p # c.photo => v.previews[p] = u.previews[p]
                            /\ v.previews[p].file = u.previews[p].file
                            /\ v.previews[p].turn = u.previews[p].turn
                            /\ v.previews[p].carried = u.previews[p].carried
                      /\ IF c.here /\ ok /\ c.photo \in DOMAIN u.previews
                         THEN v.previews[c.photo].id = c.id
                         ELSE v.previews = u.previews

(* An upload is over: its submission has one photograph less to send.      *)
LEMMA UploadEndsFits ==
    ASSUME NEW ph, NEW cs, NEW js, NEW u, NEW sn, NEW us,
           PhotosFit(ph, cs, js, u, sn, us), IsUse(us), IsSeen(sn), NEW sm, IsSeen(sm),
           \A i \in js : IsJob(i, us), \A d \in cs : IsCall(d),
           u # Nothing => IsPage(u, us),
           NEW c \in cs, c.kind = "upload", NEW ok \in BOOLEAN, ok => c.at = "done",
           NEW j \in js, j.no = c.job, NEW k,
           Lessened(k, j, c, ok), NEW v, Given(v, u, c, ok), Noticed(c, ok, sn, sm)
    PROVE  PhotosFit(ph, cs \ {c}, (js \ {j}) \cup {k}, v, sm, us)
<1>0. /\ k.no = j.no /\ k.t = j.t /\ k.keep = j.keep /\ k.here = j.here
      /\ k.todo = j.todo \ {c.photo} /\ (k.failed <=> j.failed \/ ~ok)
      /\ u = Nothing <=> v = Nothing
      /\ u # Nothing => /\ v.pane = u.pane /\ v.removing = u.removing
                        /\ DOMAIN v.previews = DOMAIN u.previews
                        /\ \A p \in DOMAIN u.previews :
                              /\ p # c.photo => v.previews[p] = u.previews[p]
                              /\ v.previews[p].file = u.previews[p].file
                              /\ v.previews[p].turn = u.previews[p].turn
                              /\ v.previews[p].carried = u.previews[p].carried
                        /\ IF c.here /\ ok /\ c.photo \in DOMAIN u.previews
                           THEN v.previews[c.photo].id = c.id
                           ELSE v.previews = u.previews
      /\ sm.removed = sn.removed /\ sm.unsure = sn.unsure /\ sm.carried = sn.carried
      /\ \A p \in Photos \ {c.photo} : sm.copies[p] = sn.copies[p]
      /\ sm.copies[c.photo] = sn.copies[c.photo] + (IF ~ok /\ c.at = "done" THEN 1 ELSE 0)
  <2>1. sn.copies[c.photo] \in Nat  BY DEF IsCall, IsSeen
  <2>2. /\ sm.removed = sn.removed /\ sm.unsure = sn.unsure /\ sm.carried = sn.carried
        /\ \A p \in Photos \ {c.photo} : sm.copies[p] = sn.copies[p]
        /\ sm.copies[c.photo] = sn.copies[c.photo] + (IF ~ok /\ c.at = "done" THEN 1 ELSE 0)
    BY <2>1 DEF Noticed
  <2> QED  BY <2>2 DEF Lessened, Given
<1> USE <1>0
<1> DEFINE ds == cs \ {c}
           ks == (js \ {j}) \cup {k}
           q == c.photo
<1>1. /\ ds \subseteq cs /\ c \notin ds /\ \A d \in cs : d # c => d \in ds
      /\ k \in ks /\ \A i \in ks : (i \in js /\ i # j) \/ i = k
      /\ \A i \in js : i # j => i \in ks
      /\ q = c.photo
  OBVIOUS
<1>2. q \in Photos /\ c.id \in Nat /\ c.t \in Tickets  BY DEF IsCall
<1> HIDE DEF ds, ks, q
<1>3. /\ SubmissionsKeep(ph, js, u, sn) /\ UploadsBelong(ph, cs, js, sn)
      /\ ClosingIsLast(cs, js) /\ RemovalsFit(ph, cs, js, u, sn, us)
      /\ PreviewsFit(ph, cs, u, sn, us) /\ CountsFit(ph, cs, js, u, sn, us)
      /\ IdsAreUnique(ph, us)
  BY DEF PhotosFit
<1>4. /\ q \in j.todo /\ c.t = j.t /\ c.turn = j.keep[q].file /\ c.here = j.here
      /\ c.at = "done" =>
            /\ \E f \in ph[c.t] : f.photo = q /\ f.id = c.id /\ f.turn = c.turn
            /\ Room(IdsOf(ph, q) \ {c.id}, q, sn)
  <2>1. PICK i \in js : /\ i.no = c.job /\ c.photo \in i.todo /\ c.t = i.t
                        /\ c.turn = i.keep[c.photo].file /\ c.here = i.here
    BY <1>3 DEF UploadsBelong
  <2>2. i = j  BY <1>3, <2>1 DEF SubmissionsKeep
  <2> QED  BY <1>1, <1>3, <2>1, <2>2 DEF UploadsBelong
<1>5. q \in DOMAIN j.keep /\ j.no # 0 /\ \A i \in js : i.todo \subseteq DOMAIN i.keep
  BY <1>4 DEF IsJob
<1>6. \A d \in ds : d.job # c.job  BY <1>1, <1>3, <1>5 DEF ClosingIsLast
<1>7. \A i \in js : i # j => i.no # j.no /\ DOMAIN i.keep \cap DOMAIN j.keep = {}
                             /\ ~(i.here /\ j.here) /\ q \notin DOMAIN i.keep
  BY <1>3, <1>5 DEF SubmissionsKeep
<1>8. \A p \in Photos : sn.copies[p] \in Nat /\ sm.copies[p] \in Nat
  BY DEF IsSeen
<1>9. \A p \in Photos : p # q => \A S : Room(S, p, sm) <=> Room(S, p, sn)
  BY <1>1 DEF Room
<1>10. \A p \in Photos : \A S :
          /\ IsFiniteSet(S) /\ Room(S, p, sn) => Room(S, p, sm)
          /\ IsFiniteSet(S) /\ Cardinality(S) <= sn.copies[p] =>
                Cardinality(S) <= sm.copies[p]
  BY <1>1, <1>8, FS_CardinalityType DEF Room
<1>11. \A p : IsFiniteSet(IdsOf(ph, p)) /\ \A id : IsFiniteSet(IdsOf(ph, p) \ {id})
  <2>1. \A p : IsFiniteSet(IdsOf(ph, p))  BY <1>3, IdsFinite
  <2> QED  BY <2>1, FS_RemoveElement
<1>12. u # Nothing => DOMAIN u.previews \subseteq Photos  BY PageIsThere
<1>13. c.at = "done" =>
          /\ c.id \in 1..us.ids /\ Named(ph, c.id, q, us) /\ OnlyAt(ph, c.id, c.t)
          /\ Has(ph, c.t, q, c.turn)
  BY <1>2, <1>3, <1>4 DEF Named, OnlyAt, Has, IdsAreUnique
<1>14. j.keep[q].file = j.keep[q].turn /\ q \notin sn.removed
  BY <1>3, <1>5 DEF SubmissionsKeep
<1>15. SubmissionsKeep(ph, ks, v, sm)
  <2>1. ASSUME NEW i \in ks, NEW l \in ks, i # l
        PROVE  i.no # l.no /\ DOMAIN i.keep \cap DOMAIN l.keep = {} /\ ~(i.here /\ l.here)
    <3>1. CASE i = k  BY <1>1, <1>7, <2>1, <3>1
    <3>2. CASE l = k  BY <1>1, <1>7, <2>1, <3>2
    <3>3. CASE i \in js /\ l \in js  BY <1>3, <2>1, <3>3 DEF SubmissionsKeep
    <3> QED  BY <1>1, <3>1, <3>2, <3>3
  <2>2. ASSUME NEW i \in ks
        PROVE  /\ i.here => v # Nothing /\ \A p \in DOMAIN v.previews :
                                              v.previews[p].carried \/ v.pane.id = i.t
               /\ v # Nothing => \A p \in DOMAIN i.keep \cap DOMAIN v.previews :
                     /\ i.here
                     /\ v.previews[p].turn = i.keep[p].turn
                     /\ p \in i.todo => v.previews[p].id = 0
               /\ \A p \in DOMAIN i.keep :
                     /\ i.keep[p].file = i.keep[p].turn
                     /\ \/ p \in i.todo \/ i.failed \/ p \in sm.unsure \/ i.keep[p].carried
                        \/ Has(ph, i.t, p, i.keep[p].turn)
                     /\ p \notin sm.removed
    <3>1. CASE i \in js /\ i # j
      <4>1. q \notin DOMAIN i.keep /\ i.todo \subseteq DOMAIN i.keep  BY <1>5, <1>7, <3>1
      <4> QED  BY <1>1, <1>3, <3>1, <4>1 DEF SubmissionsKeep
    <3>2. CASE i = k
      <4>1. /\ j.here => u # Nothing /\ \A p \in DOMAIN u.previews :
                                           u.previews[p].carried \/ u.pane.id = j.t
            /\ u # Nothing => \A p \in DOMAIN j.keep \cap DOMAIN u.previews :
                  /\ j.here
                  /\ u.previews[p].turn = j.keep[p].turn
                  /\ p \in j.todo => u.previews[p].id = 0
            /\ \A p \in DOMAIN j.keep :
                  /\ j.keep[p].file = j.keep[p].turn
                  /\ \/ p \in j.todo \/ j.failed \/ p \in sn.unsure \/ j.keep[p].carried
                     \/ Has(ph, j.t, p, j.keep[p].turn)
                  /\ p \notin sn.removed
        BY <1>3 DEF SubmissionsKeep
      <4>2. \A p \in DOMAIN j.keep :
               \/ p \in k.todo \/ k.failed \/ p \in sn.unsure \/ j.keep[p].carried
               \/ Has(ph, j.t, p, j.keep[p].turn)
        <5>1. ok => Has(ph, j.t, q, j.keep[q].turn)  BY <1>4, <1>13, <1>14
        <5> QED  BY <1>1, <4>1, <5>1
      <4>3. \A p \in k.todo : p \in j.todo /\ p # q  BY <1>1
      <4> QED  BY <1>1, <3>2, <4>1, <4>2, <4>3
    <3> QED  BY <1>1, <3>1, <3>2
  <2> QED  BY <2>1, <2>2 DEF SubmissionsKeep
<1>16. UploadsBelong(ph, ds, ks, sm)
  <2> SUFFICES ASSUME NEW d \in ds, d.kind = "upload"
               PROVE  /\ \E i \in ks : /\ i.no = d.job /\ d.photo \in i.todo /\ d.t = i.t
                                       /\ d.turn = i.keep[d.photo].file /\ d.here = i.here
                      /\ d.at = "done" =>
                            /\ \E f \in ph[d.t] :
                                  f.photo = d.photo /\ f.id = d.id /\ f.turn = d.turn
                            /\ Room(IdsOf(ph, d.photo) \ {d.id}, d.photo, sm)
    BY DEF UploadsBelong
  <2>1. d \in cs /\ d.job # c.job /\ d.photo \in Photos  BY <1>1, <1>6 DEF IsCall
  <2>2. PICK i \in js : /\ i.no = d.job /\ d.photo \in i.todo /\ d.t = i.t
                        /\ d.turn = i.keep[d.photo].file /\ d.here = i.here
    BY <1>3, <2>1 DEF UploadsBelong
  <2>3. i \in ks  BY <1>1, <2>1, <2>2
  <2>4. d.at = "done" =>
           /\ \E f \in ph[d.t] : f.photo = d.photo /\ f.id = d.id /\ f.turn = d.turn
           /\ Room(IdsOf(ph, d.photo) \ {d.id}, d.photo, sn)
    BY <1>3, <2>1 DEF UploadsBelong
  <2> QED  BY <1>10, <1>11, <2>1, <2>2, <2>3, <2>4
<1>17. ClosingIsLast(ds, ks)
  <2>1. \A d \in ds : d.kind = "patch" /\ d.job # 0 =>
           \E i \in ks : i.no = d.job /\ i.todo = {} /\ ~i.failed
    BY <1>1, <1>3, <1>6 DEF ClosingIsLast
  <2> QED  BY <1>1, <1>3, <2>1 DEF ClosingIsLast
<1>18. RemovalsFit(ph, ds, ks, v, sm, us)
  <2> SUFFICES ASSUME NEW d \in ds, d.kind = "delete"
               PROVE  /\ Named(ph, d.id, d.photo, us)
                      /\ d.photo \in 1..us.photos
                      /\ \A i \in ks : d.photo \notin DOMAIN i.keep
                      /\ d.here => /\ v # Nothing /\ v.removing = d.photo
                                   /\ \A e \in ds : e.kind = "delete" /\ e.here => e = d
                      /\ ~d.here /\ v # Nothing => d.photo \notin DOMAIN v.previews
                      /\ \/ d.photo \in sm.carried
                         \/ /\ d.at = "sent" /\ OnlyAt(ph, d.id, d.t)
                            /\ Room(IdsOf(ph, d.photo) \ {d.id}, d.photo, sm)
                         \/ d.at = "done" /\ Room(IdsOf(ph, d.photo), d.photo, sm)
    BY DEF RemovalsFit
  <2>1. d \in cs /\ d.photo \in Photos  BY <1>1 DEF IsCall
  <2>2. /\ Named(ph, d.id, d.photo, us)
        /\ d.photo \in 1..us.photos
        /\ \A i \in js : d.photo \notin DOMAIN i.keep
        /\ d.here => /\ u # Nothing /\ u.removing = d.photo
                     /\ \A e \in cs : e.kind = "delete" /\ e.here => e = d
        /\ ~d.here /\ u # Nothing => d.photo \notin DOMAIN u.previews
        /\ \/ d.photo \in sn.carried
           \/ /\ d.at = "sent" /\ OnlyAt(ph, d.id, d.t)
              /\ Room(IdsOf(ph, d.photo) \ {d.id}, d.photo, sn)
           \/ d.at = "done" /\ Room(IdsOf(ph, d.photo), d.photo, sn)
    BY <1>3, <2>1 DEF RemovalsFit
  <2>3. \A i \in ks : d.photo \notin DOMAIN i.keep  BY <1>1, <2>2
  <2> QED  BY <1>1, <1>10, <1>11, <2>1, <2>2, <2>3
<1>19. PreviewsFit(ph, ds, v, sm, us)
  <2> SUFFICES ASSUME v # Nothing, NEW p \in DOMAIN v.previews
               PROVE  /\ v.pane \in PaneState
                      /\ v.previews[p].file = v.previews[p].turn
                      /\ p \notin sm.removed
                      /\ v.previews[p].id # 0 =>
                            /\ Named(ph, v.previews[p].id, p, us)
                            /\ \/ v.previews[p].carried \/ p \in sm.unsure
                               \/ Has(ph, v.pane.id, p, v.previews[p].turn)
                               \/ \E d \in ds : /\ d.kind = "delete" /\ d.here
                                                /\ d.photo = p /\ d.at = "done"
                            /\ \/ v.previews[p].carried
                               \/ /\ OnlyAt(ph, v.previews[p].id, v.pane.id)
                                  /\ Room(IdsOf(ph, p) \ {v.previews[p].id}, p, sm)
    BY DEF PreviewsFit
  <2>1. /\ u # Nothing /\ p \in DOMAIN u.previews /\ v.pane = u.pane /\ p \in Photos
        /\ v.previews[p].file = u.previews[p].file
        /\ v.previews[p].turn = u.previews[p].turn
        /\ v.previews[p].carried = u.previews[p].carried
        /\ p # q => v.previews[p] = u.previews[p]
    BY <1>1, <1>12
  <2>2. /\ u.pane \in PaneState
        /\ u.previews[p].file = u.previews[p].turn
        /\ p \notin sn.removed
        /\ u.previews[p].id # 0 =>
              /\ Named(ph, u.previews[p].id, p, us)
              /\ \/ u.previews[p].carried \/ p \in sn.unsure
                 \/ Has(ph, u.pane.id, p, u.previews[p].turn)
                 \/ \E d \in cs : d.kind = "delete" /\ d.here /\ d.photo = p /\ d.at = "done"
              /\ \/ u.previews[p].carried
                 \/ /\ OnlyAt(ph, u.previews[p].id, u.pane.id)
                    /\ Room(IdsOf(ph, p) \ {u.previews[p].id}, p, sn)
    BY <1>3, <2>1 DEF PreviewsFit
  <2>3. CASE p # q
    <3>1. (\E d \in cs : d.kind = "delete" /\ d.here /\ d.photo = p /\ d.at = "done") =>
             \E d \in ds : d.kind = "delete" /\ d.here /\ d.photo = p /\ d.at = "done"
      BY <1>1
    <3> QED  BY <1>9, <2>1, <2>2, <2>3, <3>1
  <2>4. CASE p = q
    <3>1. /\ j.here /\ u.previews[q].turn = j.keep[q].turn /\ u.previews[q].id = 0
          /\ u.previews[q].carried \/ u.pane.id = j.t
      BY <1>3, <1>4, <1>5, <2>1, <2>4 DEF SubmissionsKeep
    <3>2. CASE ok
      <4>1. v.previews[q].id = c.id  BY <1>1, <1>4, <2>1, <2>4, <3>1, <3>2
      <4>2. u.previews[q].carried \/ Has(ph, u.pane.id, q, u.previews[q].turn)
        BY <1>4, <1>13, <1>14, <3>1, <3>2
      <4>3. u.previews[q].carried \/ OnlyAt(ph, c.id, u.pane.id)
        BY <1>4, <1>13, <3>1, <3>2
      <4>4. Room(IdsOf(ph, q) \ {c.id}, q, sm)  BY <1>2, <1>4, <1>10, <1>11, <3>2
      <4> QED  BY <1>13, <2>1, <2>2, <2>4, <3>2, <4>1, <4>2, <4>3, <4>4
    <3>3. CASE ~ok
      <4>1. v.previews[q].id = 0  BY <1>1, <2>1, <2>4, <3>1, <3>3
      <4> QED  BY <2>1, <2>2, <2>4, <4>1
    <3> QED  BY <3>2, <3>3
  <2> QED  BY <2>3, <2>4
<1>20. CountsFit(ph, ds, ks, v, sm, us)
  <2>1. \A p \in Photos \ {q} : Unsent(ds, ks, v, p) => Unsent(cs, js, u, p)
    <3> SUFFICES ASSUME NEW p \in Photos \ {q}, Unsent(ds, ks, v, p)
                 PROVE  Unsent(cs, js, u, p)
      OBVIOUS
    <3>1. ~\E d \in cs : d.kind = "upload" /\ d.photo = p /\ d.at = "done"
      BY <1>1 DEF Unsent
    <3>2. \/ u # Nothing /\ p \in DOMAIN u.previews /\ u.previews[p].id = 0
          \/ \E i \in js : p \in i.todo
      BY <1>1 DEF Unsent
    <3> QED  BY <3>1, <3>2 DEF Unsent
  <2>2. Unsent(ds, ks, v, q) => Room(IdsOf(ph, q), q, sm)
    <3>1. CASE ok
      <4>1. \A i \in ks : q \notin i.todo
        BY <1>1, <1>5, <1>7
      <4>2. ~(v # Nothing /\ q \in DOMAIN v.previews /\ v.previews[q].id = 0)
        <5> SUFFICES ASSUME v # Nothing, q \in DOMAIN v.previews PROVE v.previews[q].id # 0
          OBVIOUS
        <5>1. j.here  BY <1>3, <1>5 DEF SubmissionsKeep
        <5>2. v.previews[q].id = c.id  BY <1>1, <1>4, <3>1, <5>1
        <5>3. c.id # 0  BY <1>13, <3>1
        <5> QED  BY <5>2, <5>3
      <4> QED  BY <4>1, <4>2 DEF Unsent
    <3>2. CASE ~ok /\ c.at = "done"
      <4>1. /\ Cardinality(IdsOf(ph, q)) \in Nat /\ sn.copies[q] \in Nat
            /\ Cardinality(IdsOf(ph, q)) <= sn.copies[q]
            /\ sm.copies[q] = sn.copies[q] + 1
        BY <1>1, <1>2, <1>3, <1>8, <1>11, <3>2, FS_CardinalityType DEF CountsFit
      <4> QED  BY <4>1 DEF Room
    <3>3. CASE ~ok /\ c.at # "done"
      <4>1. Unsent(ds, ks, v, q) => Unsent(cs, js, u, q)
        BY <1>1, <1>4, <3>3 DEF Unsent
      <4> QED  BY <1>2, <1>3, <1>10, <1>11, <4>1 DEF CountsFit
    <3> QED  BY <3>1, <3>2, <3>3
  <2>3. ASSUME NEW p \in Photos
        PROVE  /\ Cardinality(IdsOf(ph, p)) <= sm.copies[p]
               /\ p \in sm.removed \ sm.carried => Room(IdsOf(ph, p), p, sm)
               /\ Unsent(ds, ks, v, p) => Room(IdsOf(ph, p), p, sm)
    BY <1>3, <1>10, <1>11, <2>1, <2>2 DEF CountsFit
  <2> QED  BY <1>3, <2>3 DEF CountsFit
<1> QED
  BY <1>1, <1>3, <1>15, <1>16, <1>17, <1>18, <1>19, <1>20 DEF PhotosFit, ds, ks

LEMMA EndsAloneFits ==
    ASSUME Truth, Fit, NEW c \in calls, NEW ok \in BOOLEAN, ok => c.at = "done",
           EndsAlone(c, ok), NEW sm, Noticed(c, ok, seen, sm)
    PROVE  \E u : /\ PhotosFit(Kept(writes), calls', jobs', u, sm, used)
                  /\ Rendered(ui', u)
<1> DEFINE ph == Kept(writes)
           u == PreviewsAfter(c, ok)
<1>1. PhotosFit(ph, calls, jobs, ui, seen, used)  BY DEF Fit
<1>2. /\ IsCall(c) /\ IsUse(used) /\ \A j \in jobs : IsJob(j, used)
      /\ ui # Nothing => IsPage(ui, used)
      /\ c.here => ui # Nothing
  BY DEF Truth, Types, Awaited
<1>3. /\ ui = Nothing => u = Nothing
      /\ ui # Nothing => IsPage(u, used) /\ u.pane = ui.pane
      /\ ~c.here => u = ui
      /\ c.here /\ c.kind = "delete" =>
            /\ u.removing = Nothing
            /\ DOMAIN u.previews =
                  IF ok THEN DOMAIN ui.previews \ {c.photo} ELSE DOMAIN ui.previews
            /\ \A q \in DOMAIN u.previews : u.previews[q] = ui.previews[q]
      /\ c.kind = "patch" /\ ui # Nothing =>
            u.removing = ui.removing /\ u.previews = ui.previews
  BY <1>2, PreviewsAfterTyped
<1>4. /\ c.job = 0 /\ jobs' = jobs /\ calls' = calls \ {c} /\ Rendered(ui', u)
  BY DEF EndsAlone
<1> HIDE DEF ph, u
<1>5. ui = Nothing <=> u = Nothing  BY <1>2, <1>3, PageIsThere
<1>6. PhotosFit(ph, calls \ {c}, jobs, u, sm, used)
  <2>1. CASE c.kind = "patch"
    <3>1. PhotosFit(ph, calls \ {c}, jobs, ui, seen, used)
      BY ONLY <1>1, c \in calls, <2>1, PatchEndsFits
    <3>2. Rendered(u, ui)  BY <1>3, <1>5, <2>1 DEF Rendered
    <3>3. PhotosFit(ph, calls \ {c}, jobs, u, seen, used)
      BY ONLY <3>1, <3>2, RenderedFits
    <3>4. /\ sm.copies = seen.copies /\ sm.removed = seen.removed
          /\ sm.unsure = seen.unsure /\ sm.carried = seen.carried
      BY <2>1 DEF Noticed
    <3> QED  BY ONLY <3>3, <3>4, SameSeenFits
  <2>2. CASE c.kind = "upload"
    <3>1. PICK j \in jobs : j.no = c.job
      BY <1>1, <2>2 DEF PhotosFit, UploadsBelong
    <3> QED  BY <1>2, <1>4, <3>1 DEF IsJob
  <2>3. CASE c.kind = "delete" /\ ok
    <3>1. /\ c.kind = "delete" /\ c.at = "done"
          /\ sm.removed = seen.removed \cup {c.photo} /\ sm.copies = seen.copies
          /\ sm.unsure = seen.unsure /\ sm.carried = seen.carried
      BY <2>3 DEF Noticed
    <3>2. ~c.here /\ ui # Nothing => c.photo \notin DOMAIN ui.previews
      BY <1>1, <2>3 DEF PhotosFit, RemovalsFit
    <3>3. ui # Nothing => /\ u.pane = ui.pane
                          /\ DOMAIN u.previews = DOMAIN ui.previews \ {c.photo}
                          /\ \A p \in DOMAIN u.previews : u.previews[p] = ui.previews[p]
                          /\ ~c.here => u.removing = ui.removing
      BY <1>3, <2>3, <3>2
    <3> QED  BY ONLY <1>1, c \in calls, <1>5, <3>1, <3>3, DeleteOkFits
  <2>4. CASE c.kind = "delete" /\ ~ok
    <3>1. /\ c.kind = "delete" /\ c.photo \in 1..used.photos
          /\ sm.removed = seen.removed /\ sm.copies = seen.copies
          /\ sm.unsure = (IF c.at = "done" THEN seen.unsure \cup {c.photo} ELSE seen.unsure)
          /\ sm.carried = seen.carried
      BY <1>1, <2>4 DEF Noticed, PhotosFit, RemovalsFit
    <3>2. ui # Nothing => /\ u.pane = ui.pane /\ DOMAIN u.previews = DOMAIN ui.previews
                          /\ \A p \in DOMAIN u.previews : u.previews[p] = ui.previews[p]
                          /\ ~c.here => u.removing = ui.removing
      BY <1>3, <2>4
    <3> QED  BY ONLY <1>1, c \in calls, <1>5, <3>1, <3>2, DeleteFailedFits
  <2> QED  BY <1>2, <2>1, <2>2, <2>3, <2>4 DEF IsCall
<1> QED  BY <1>4, <1>6 DEF ph

LEMMA EndsSubmissionFits ==
    ASSUME Truth, Fit, NEW c \in calls, NEW ok \in BOOLEAN, NEW j \in jobs,
           EndsSubmission(c, ok, j), NEW sm, Noticed(c, ok, seen, sm)
    PROVE  \E u : /\ PhotosFit(Kept(writes), calls', jobs', u, sm, used)
                  /\ Rendered(ui', u)
<1> DEFINE ph == Kept(writes)
           u == IF ok THEN Closed(c) ELSE ui
           cs == calls \ {c}
           js == jobs \ {j}
<1>1. PhotosFit(ph, calls, jobs, ui, seen, used)  BY DEF Fit
<1>2. /\ IsCall(c) /\ c.t \in Tickets /\ IsUse(used)
      /\ ui # Nothing => IsPage(ui, used)
      /\ c.here => ui # Nothing
  BY DEF Truth, Types, Awaited, IsCall
<1>3. /\ j.no = c.job /\ c.job # 0 /\ c.kind = "patch"
      /\ jobs' = js /\ calls' = cs /\ Rendered(ui', u)
  BY DEF EndsSubmission
<1>4. /\ sm.copies = seen.copies /\ sm.removed = seen.removed
      /\ sm.unsure = seen.unsure /\ sm.carried = seen.carried
  BY <1>3 DEF Noticed
<1>5. \A d \in cs : d.job # j.no  BY <1>1, <1>3 DEF PhotosFit, ClosingIsLast
<1>6. ok => LET v == Closed(c)
            IN /\ IsPage(v, used)
               /\ ui = Nothing => v.previews = <<>>
               /\ c.here => v.previews = <<>>
               /\ ui # Nothing => v.pane = ui.pane /\ v.removing = ui.removing
               /\ ui # Nothing /\ ~c.here => v.previews = ui.previews
  BY <1>2, ClosedTyped
<1>7. ok => /\ u # Nothing
            /\ ui # Nothing => u.pane = ui.pane /\ u.removing = ui.removing
            /\ DOMAIN u.previews = {} \/ (ui # Nothing /\ u.previews = ui.previews)
  BY <1>2, <1>6, PageIsThere, EmptyPreviews
<1>8. ~ok => u = ui  OBVIOUS
<1>9. PhotosFit(ph, cs, jobs, ui, seen, used)
  BY ONLY <1>1, c \in calls, <1>3, PatchEndsFits
<1> HIDE DEF ph, u, cs
<1>10. PhotosFit(ph, cs, js, ui, seen, used)  BY ONLY <1>5, <1>9, j \in jobs, JobEndsFits
<1> HIDE DEF js
<1>11. PhotosFit(ph, cs, js, u, seen, used)
  <2>1. CASE u = ui  BY <1>10, <2>1
  <2>2. CASE ok /\ DOMAIN u.previews = {}
    <3>1. /\ u # Nothing /\ DOMAIN u.previews = {}
          /\ ui # Nothing => u.removing = ui.removing
      BY <1>7, <2>2
    <3> QED  BY ONLY <1>10, <3>1, EmptyFits
  <2>3. CASE ok /\ ui # Nothing /\ u.previews = ui.previews
    <3>1. Rendered(u, ui)  BY <1>7, <2>3 DEF Rendered
    <3> QED  BY ONLY <1>10, <3>1, RenderedFits
  <2> QED  BY <1>7, <1>8, <2>1, <2>2, <2>3
<1>12. PhotosFit(ph, cs, js, u, sm, used)  BY ONLY <1>4, <1>11, SameSeenFits
<1> QED  BY <1>3, <1>12 DEF ph

LEMMA EndsUploadFits ==
    ASSUME Truth, Fit, NEW c \in calls, NEW ok \in BOOLEAN, ok => c.at = "done",
           NEW j \in jobs, EndsUpload(c, ok, j),
           NEW sm, IsSeen(sm), Noticed(c, ok, seen, sm)
    PROVE  \E u : /\ PhotosFit(Kept(writes), calls', jobs', u, sm, used)
                  /\ Rendered(ui', u)
<1> DEFINE ph == Kept(writes)
           u == PreviewsAfter(c, ok)
           k == Uploaded(j, c.photo, ok)
           cs == calls \ {c}
           js == (jobs \ {j}) \cup {k}
<1>1. PhotosFit(ph, calls, jobs, ui, seen, used)  BY DEF Fit
<1>2. /\ IsCall(c) /\ IsUse(used) /\ IsSeen(seen)
      /\ \A i \in jobs : IsJob(i, used)
      /\ \A d \in calls : IsCall(d)
      /\ ui # Nothing => IsPage(ui, used)
      /\ c.here => ui # Nothing
  BY DEF Truth, Types, Awaited
<1>3. /\ j.no = c.job /\ c.job # 0 /\ c.kind # "patch" /\ Rendered(ui', u)
      /\ \/ /\ jobs' = jobs \ {j} /\ calls' = cs
         \/ /\ jobs' = js
            /\ \E n, m : IsNext(n, k) /\ Resent(m, n) /\ calls' = cs \cup {m}
  BY DEF EndsUpload
<1>4. c.kind = "upload"
  BY <1>1, <1>2, <1>3 DEF PhotosFit, ClosingIsLast, IsCall
<1>5. /\ IsJob(k, used) /\ k.no = j.no /\ k.t = j.t /\ k.keep = j.keep /\ k.here = j.here
      /\ k.todo = j.todo \ {c.photo} /\ (k.failed <=> j.failed \/ ~ok)
  BY <1>2, UploadedTyped
<1>6. /\ ui = Nothing => u = Nothing
      /\ ui # Nothing => IsPage(u, used) /\ u.pane = ui.pane
      /\ ~c.here => u = ui
      /\ ~(ok /\ c.photo \in DOMAIN ui.previews) => u = ui
      /\ c.here /\ ok /\ c.photo \in DOMAIN ui.previews =>
            /\ u.removing = ui.removing /\ DOMAIN u.previews = DOMAIN ui.previews
            /\ \A q \in DOMAIN ui.previews :
                  /\ q # c.photo => u.previews[q] = ui.previews[q]
                  /\ u.previews[q].file = ui.previews[q].file
                  /\ u.previews[q].turn = ui.previews[q].turn
                  /\ u.previews[q].carried = ui.previews[q].carried
            /\ u.previews[c.photo].id = c.id
  BY <1>2, <1>4, PreviewsAfterTyped
<1>7. k \in js /\ js \ {k} \subseteq jobs \ {j}  OBVIOUS
<1> HIDE DEF ph, u, k
<1>8. ui = Nothing <=> u = Nothing  BY <1>2, <1>6, PageIsThere
<1>9. Given(u, ui, c, ok)  BY <1>6, <1>8 DEF Given
<1>10. Lessened(k, j, c, ok)  BY <1>5 DEF Lessened
<1>11. PhotosFit(ph, cs, js, u, sm, used)
  BY ONLY <1>1, <1>2, IsSeen(sm), c \in calls, <1>4, ok \in BOOLEAN, ok => c.at = "done",
          j \in jobs, <1>3, <1>9, <1>10, Noticed(c, ok, seen, sm), UploadEndsFits
<1>12. \A d \in cs : d.job # k.no
  BY <1>1, <1>3, <1>5 DEF PhotosFit, ClosingIsLast
<1>13. CASE jobs' = jobs \ {j} /\ calls' = cs
  <2>1. PhotosFit(ph, cs, js \ {k}, u, sm, used)
    BY ONLY <1>7, <1>11, <1>12, JobEndsFits
  <2>2. js \ {k} = jobs \ {j}
    <3>1. k \notin jobs \ {j}
      BY <1>1, <1>5 DEF PhotosFit, SubmissionsKeep
    <3> QED  BY <3>1
  <2> QED  BY <1>3, <1>13, <2>1, <2>2 DEF ph
<1>14. CASE jobs' = js /\ \E n, m : IsNext(n, k) /\ Resent(m, n) /\ calls' = cs \cup {m}
  <2>1. PICK n, m : IsNext(n, k) /\ Resent(m, n) /\ calls' = cs \cup {m}  BY <1>14
  <2> HIDE DEF cs, js
  <2>2. PhotosFit(ph, cs \cup {m}, js, u, sm, used)
    BY ONLY <1>5, <1>7, <1>11, <1>12, <2>1, NextCallFits
  <2> QED  BY <1>3, <1>14, <2>1, <2>2 DEF ph
<1> QED  BY <1>3, <1>13, <1>14

LEMMA OverFits ==
    ASSUME Truth, Fit, NEW c \in calls, NEW ok \in BOOLEAN, ok => c.at = "done",
           \/ EndsAlone(c, ok)
           \/ \E j \in jobs : EndsSubmission(c, ok, j) \/ EndsUpload(c, ok, j),
           UNCHANGED writes, used'.photos = used.photos, used'.ids = used.ids,
           IsSeen(seen'), Noticed(c, ok, seen, seen')
    PROVE  Fit'
<1> DEFINE ph == Kept(writes)
           sm == seen'
           cs == calls'
           js == jobs'
<1>1. Kept(writes') = ph /\ IsSeen(sm) /\ Noticed(c, ok, seen, sm)  BY SameWrites
<1>2. calls' = cs /\ jobs' = js  OBVIOUS
<1>3. /\ seen'.copies = sm.copies /\ seen'.removed = sm.removed
      /\ seen'.unsure = sm.unsure /\ seen'.carried = sm.carried
  OBVIOUS
<1> HIDE DEF sm
<1>4. \E u : PhotosFit(ph, cs, js, u, sm, used) /\ Rendered(ui', u)
  <2>1. CASE EndsAlone(c, ok)  BY <1>1, <2>1, EndsAloneFits
  <2>2. ASSUME NEW j \in jobs, EndsSubmission(c, ok, j)
        PROVE  \E u : PhotosFit(ph, cs, js, u, sm, used) /\ Rendered(ui', u)
    BY <1>1, <2>2, EndsSubmissionFits
  <2>3. ASSUME NEW j \in jobs, EndsUpload(c, ok, j)
        PROVE  \E u : PhotosFit(ph, cs, js, u, sm, used) /\ Rendered(ui', u)
    BY <1>1, <2>3, EndsUploadFits
  <2> QED  BY <2>1, <2>2, <2>3
<1> HIDE DEF ph, cs, js
<1>5. PICK u : PhotosFit(ph, cs, js, u, sm, used) /\ Rendered(ui', u)  BY <1>4
<1> QED
  BY ONLY <1>1, <1>2, <1>3, <1>5, used'.photos = used.photos, used'.ids = used.ids, BecomesFit

LEMMA AnsweredFits ==
    ASSUME Truth, Fit, NEW c \in calls, Answered(c) PROVE Fit'
<1>1. /\ UNCHANGED <<writes, used>> /\ c.at = "done"
      /\ \/ EndsAlone(c, TRUE)
         \/ \E j \in jobs : EndsSubmission(c, TRUE, j) \/ EndsUpload(c, TRUE, j)
      /\ IsSeen(seen')
      /\ seen'.copies = seen.copies /\ seen'.unsure = seen.unsure
      /\ seen'.carried = seen.carried
      /\ seen'.removed = IF c.kind = "delete" THEN seen.removed \cup {c.photo}
                         ELSE seen.removed
  BY AnsweredStep
<1>2. Noticed(c, TRUE, seen, seen')  BY <1>1 DEF Noticed
<1>3. used'.photos = used.photos /\ used'.ids = used.ids  BY <1>1
<1> QED  BY <1>1, <1>2, <1>3, OverFits

LEMMA FailsFits ==
    ASSUME Truth, Fit, NEW c \in calls, Fails(c) PROVE Fit'
<1>1. /\ UNCHANGED writes /\ used'.photos = used.photos /\ used'.ids = used.ids
      /\ \/ EndsAlone(c, FALSE)
         \/ \E j \in jobs : EndsSubmission(c, FALSE, j) \/ EndsUpload(c, FALSE, j)
      /\ IsSeen(seen')
      /\ seen'.removed = seen.removed /\ seen'.carried = seen.carried
      /\ IF c.kind = "upload" /\ c.at = "done"
         THEN /\ seen'.copies[c.photo] = seen.copies[c.photo] + 1
              /\ \A p \in Photos \ {c.photo} : seen'.copies[p] = seen.copies[p]
         ELSE seen'.copies = seen.copies
      /\ seen'.unsure = IF c.kind = "delete" /\ c.at = "done"
                        THEN seen.unsure \cup {c.photo} ELSE seen.unsure
  BY FailsStep
<1>2. Noticed(c, FALSE, seen, seen')  BY <1>1 DEF Noticed
<1> QED  BY <1>1, <1>2, OverFits

-----------------------------------------------------------------------------
(* The photographs are as they should be, whatever happens.                *)

LEMMA InitFit ==
    ASSUME Init PROVE Fit
<1>1. PICK begun :
         writes = [t \in Tickets |->
                      <<[status |-> begun,
                         executor |-> IF begun = "created" THEN NoUser ELSE Me,
                         text |-> "", photos |-> {}]>>]
  BY DEF Init
<1>2. \A t \in Tickets : Photographs(writes, t) = {}
  BY <1>1 DEF Photographs, Newest
<1>3. calls = {} /\ jobs = {} /\ ui = Nothing  BY DEF Init
<1>4. /\ seen.removed = {} /\ seen.unsure = {} /\ seen.carried = {}
      /\ \A p \in Photos : seen.copies[p] = 1
  BY DEF Init
<1> DEFINE ph == Kept(writes)
<1>5. DOMAIN ph = Tickets /\ \A t \in Tickets : ph[t] = {}  BY <1>2 DEF Kept
<1> HIDE DEF ph
<1>6. \A p : IdsOf(ph, p) = {}
  <2> SUFFICES ASSUME NEW p PROVE IdsOf(ph, p) = {}
    OBVIOUS
  <2>1. \A i : i \notin IdsOf(ph, p)  BY <1>5, IdsMember
  <2> QED  BY <2>1
<1>7. IdsAreUnique(ph, used)  BY <1>5 DEF IdsAreUnique
<1>8. SubmissionsKeep(ph, jobs, ui, seen)  BY <1>3 DEF SubmissionsKeep
<1>9. UploadsBelong(ph, calls, jobs, seen)  BY <1>3 DEF UploadsBelong
<1>10. ClosingIsLast(calls, jobs)  BY <1>3 DEF ClosingIsLast
<1>11. RemovalsFit(ph, calls, jobs, ui, seen, used)  BY <1>3 DEF RemovalsFit
<1>12. PreviewsFit(ph, calls, ui, seen, used)  BY <1>3 DEF PreviewsFit
<1>13. CountsFit(ph, calls, jobs, ui, seen, used)
  BY <1>3, <1>4, <1>6, FS_EmptySet DEF CountsFit, Unsent
<1> QED
  BY <1>7, <1>8, <1>9, <1>10, <1>11, <1>12, <1>13 DEF Fit, PhotosFit, ph

LEMMA StepFit ==
    ASSUME Truth, Fit, [Next]_vars PROVE Fit'
<1>1. CASE UNCHANGED vars  BY <1>1 DEF vars, Fit
<1>2. ASSUME NEW t \in Tickets, Open(t) PROVE Fit'  BY <1>2, OpenFits
<1>3. ASSUME NEW t \in Tickets, Move(t) PROVE Fit'  BY <1>3, MoveFits
<1>4. CASE Leave  BY <1>4, LeaveFits
<1>5. CASE Act \/ \E who \in {Me, Other} : Assign(who)  BY <1>5, ButtonFits
<1>6. CASE OpenSheet \/ FillIn \/ CloseSheet  BY <1>6, SheetFits
<1>7. CASE AddPhoto  BY <1>7, AddPhotoFits
<1>8. ASSUME NEW p \in Photos, RemovePhoto(p) PROVE Fit'
  <2>1. CASE ui.previews[p].id = 0  BY <1>8, <2>1, RemoveHereFits
  <2>2. CASE ui.previews[p].id # 0  BY <1>8, <2>2, RemoveAwayFits
  <2> QED  BY <2>1, <2>2
<1>9. ASSUME NEW p \in Photos, NEW n \in Turns, RotatePhoto(p, n) PROVE Fit'
  BY <1>9, RotateFits
<1>10. CASE Submit  BY <1>10, SubmitFits
<1>11. ASSUME NEW c \in calls, ServerDoes(c) PROVE Fit'  BY <1>11, ServerFits
<1>12. ASSUME NEW c \in calls, Answered(c) PROVE Fit'  BY <1>12, AnsweredFits
<1>13. ASSUME NEW c \in calls, Fails(c) PROVE Fit'  BY <1>13, FailsFits
<1>14. ASSUME NEW k \in Tickets,
              ServerReads(k) \/ QueryAnswered(k) \/ QueryFails(k) \/ Expire(k)
       PROVE  Fit'
  BY <1>14, QueryFits
<1>15. ASSUME NEW t \in Tickets, ForeignChange(t) PROVE Fit'  BY <1>15, ForeignFits
<1> QED
  BY <1>1, <1>2, <1>3, <1>4, <1>5, <1>6, <1>7, <1>8, <1>9, <1>10, <1>11, <1>12, <1>13,
     <1>14, <1>15 DEF Next, User, Network

LEMMA AlwaysFit == Spec => [](Truth /\ Fit)
<1>1. Init => Truth /\ Fit  BY InitTruth, InitFit
<1>2. Truth /\ Fit /\ [Next]_vars => (Truth /\ Fit)'  BY StepTruth, StepFit
<1> QED  BY <1>1, <1>2, PTL DEF Spec

(* A photograph is stored once, plus once for each upload whose answer was *)
(* lost, and not at all once it was removed from the sheet, however often  *)
(* a report is submitted and fails: uploadPreviewItems sends what has no   *)
(* id yet, and each answer gives the preview its id before the next call.  *)
THEOREM PhotosStoredOnce == Spec => []StoredOnce
<1>1. ASSUME Truth, Fit PROVE StoredOnce
  <2> DEFINE ph == Kept(writes)
  <2>1. /\ IdsAreUnique(ph, used) /\ IsUse(used) /\ IsSeen(seen)
        /\ CountsFit(ph, calls, jobs, ui, seen, used)
    BY <1>1 DEF Truth, Types, Fit, PhotosFit
  <2>2. \A t \in Tickets : ph[t] = Stored(t).photos
    BY DEF Kept, Photographs, Newest, Stored
  <2> HIDE DEF ph
  <2>3. ASSUME NEW p \in Photos, p \notin seen.carried
        PROVE  Cardinality(UNION {{f.id : f \in {g \in Stored(t).photos : g.photo = p}} :
                                     t \in Tickets})
                   <= seen.copies[p] - (IF p \in seen.removed THEN 1 ELSE 0)
    <3> DEFINE ids == IdsOf(ph, p)
    <3>1. UNION {{f.id : f \in {g \in Stored(t).photos : g.photo = p}} : t \in Tickets} = ids
      BY <2>2 DEF IdsOf
    <3>2. seen.copies[p] \in Nat  BY <2>1 DEF IsSeen
    <3>3. /\ Cardinality(ids) <= seen.copies[p]
          /\ p \in seen.removed => Cardinality(ids) < seen.copies[p]
      BY <2>1, <2>3 DEF CountsFit, Room
    <3>4. Cardinality(ids) \in Nat  BY <2>1, IdsFinite, FS_CardinalityType
    <3> HIDE DEF ids
    <3>5. Cardinality(ids) <= seen.copies[p] - (IF p \in seen.removed THEN 1 ELSE 0)
      BY ONLY <3>2, <3>3, <3>4
    <3> QED  BY ONLY <3>1, <3>5
  <2> QED  BY <2>3 DEF StoredOnce
<1> QED  BY <1>1, AlwaysFit, PTL

(* Who can close a ticket: the server, by the patch of a call.             *)
LEMMA ClosedByPatch ==
    ASSUME Truth, [Next]_vars, NEW t \in Tickets,
           Newest(writes', t).status = "closed", Newest(writes, t).status # "closed"
    PROVE  \E c \in calls : ServerDoes(c) /\ c.t = t /\ c.kind = "patch"
<1>1. writes' # writes  BY DEF Newest
<1>2. CASE \E s \in Tickets : ForeignChange(s)
  <2>1. PICK s \in Tickets : ForeignChange(s)  BY <1>2
  <2>2. CASE s = t  BY <2>1, <2>2, ForeignStep
  <2>3. CASE s # t
    <3>1. writes'[t] = writes[t]  BY <2>1, <2>3, ForeignStep
    <3> QED  BY <3>1 DEF Newest
  <2> QED  BY <2>2, <2>3
<1>3. CASE \E c \in calls : ServerDoes(c)
  <2>1. PICK c \in calls : ServerDoes(c)  BY <1>3
  <2>2. CASE c.t = t /\ c.kind = "patch"  BY <2>1, <2>2
  <2>3. CASE c.t = t /\ c.kind # "patch"
    <3>1. Newest(writes', c.t).status = Newest(writes, c.t).status
      BY <2>1, <2>3, ServerStep
    <3> QED  BY <2>3, <3>1
  <2>4. CASE c.t # t
    <3>1. writes'[t] = writes[t]  BY <2>1, <2>4, ServerStep
    <3> QED  BY <3>1 DEF Newest
  <2> QED  BY <2>2, <2>3, <2>4
<1>4. CASE User
  BY <1>1, <1>4 DEF User, Open, Move, Leave, Act, OpenSheet, FillIn, Assign, CloseSheet,
     AddPhoto, RemovePhoto, RotatePhoto, Submit
<1>5. CASE \E c \in calls : Answered(c) \/ Fails(c)
  BY <1>1, <1>5 DEF Answered, Fails
<1>6. CASE \E k \in Tickets : ServerReads(k) \/ QueryAnswered(k) \/ QueryFails(k) \/ Expire(k)
  BY <1>1, <1>6 DEF ServerReads, QueryAnswered, QueryFails, Expire
<1> QED  BY <1>1, <1>2, <1>3, <1>4, <1>5, <1>6 DEF Next, Network, vars

(* A report closes a ticket only when each of its photographs is stored    *)
(* with the ticket, turned as it was shown, but for those that another     *)
(* ticket was opened under and those whose removal seemed to fail: the     *)
(* close is the last call of handleSubmit, made when no upload has failed. *)
THEOREM ReportsCloseWhole == Spec => ClosedWithItsPhotos
<1> DEFINE Whole(t) ==
        LET new == writes'[t][Len(writes'[t])]
        IN new.status = "closed" /\ Stored(t).status # "closed" =>
              \A j \in jobs :
                 j.t = t /\ (\E c \in calls : c.job = j.no /\ c.kind = "patch") =>
                    \A p \in DOMAIN j.keep \ seen.unsure :
                       \/ j.keep[p].carried
                       \/ \E f \in new.photos : f.photo = p /\ f.turn = j.keep[p].turn
<1>1. ASSUME Truth, Fit, [Next]_vars, NEW t \in Tickets PROVE Whole(t)
  <2> SUFFICES ASSUME Newest(writes', t).status = "closed", Newest(writes, t).status # "closed",
                      NEW j \in jobs, j.t = t,
                      NEW d \in calls, d.job = j.no, d.kind = "patch",
                      NEW p \in DOMAIN j.keep \ seen.unsure
               PROVE  \/ j.keep[p].carried
                      \/ \E f \in Photographs(writes', t) :
                            f.photo = p /\ f.turn = j.keep[p].turn
    BY DEF Newest, Stored, Photographs
  <2>1. Photographs(writes', t) = Photographs(writes, t)
    <3>1. PICK c \in calls : ServerDoes(c) /\ c.t = t /\ c.kind = "patch"
      BY <1>1, ClosedByPatch
    <3> QED  BY <1>1, <3>1, ServerStep
  <2>2. SubmissionsKeep(Kept(writes), jobs, ui, seen) /\ ClosingIsLast(calls, jobs)
    BY <1>1 DEF Fit, PhotosFit
  <2>3. j.no # 0  BY <1>1 DEF Truth, Types, IsJob, IsUse
  <2>4. PICK k \in jobs : k.no = d.job /\ k.todo = {} /\ ~k.failed
    BY <2>2, <2>3 DEF ClosingIsLast
  <2>5. k = j  BY <2>2, <2>4 DEF SubmissionsKeep
  <2>6. j.keep[p].carried \/ Has(Kept(writes), j.t, p, j.keep[p].turn)
    BY <2>2, <2>4, <2>5 DEF SubmissionsKeep
  <2> QED  BY <2>1, <2>6 DEF Has, Kept
<1>2. Truth /\ Fit /\ [Next]_vars => [\A t \in Tickets : Whole(t)]_vars  BY <1>1
<1>3. Spec => [][Next]_vars  BY DEF Spec
<1> HIDE DEF Whole
<1>4. Spec => [][\A t \in Tickets : Whole(t)]_vars  BY <1>2, <1>3, AlwaysFit, PTL
<1> QED  BY <1>4 DEF ClosedWithItsPhotos, Whole
=============================================================================
