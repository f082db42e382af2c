--------------------------- MODULE DeskPagesProofs ---------------------------
(***************************************************************************)
(* The pages around the tickets, for every set of members, devices and     *)
(* clients and any number of actions and failures: that a page shows what  *)
(* the server has when nothing is under way, and that a comment or a       *)
(* ticket is stored once for each time its answer may have been lost.      *)
(***************************************************************************)
EXTENDS DeskPages, FiniteSetTheorems, TLAPS

-----------------------------------------------------------------------------
(* The types.                                                              *)

Post == [no : Nat, id : Nat, to : Queries]

(* What the answer to a query is.                                          *)
DataOf(k) ==
    IF k = "members" THEN [Members -> BOOLEAN]
    ELSE IF k \in Members THEN BOOLEAN ELSE SUBSET Post

IsEntry(k, e) ==
    /\ DOMAIN e = {"status", "data"}
    /\ e.status \in {"uninitialized", "pending", "ok", "error"}
    /\ e.data = Nothing \/ e.data \in DataOf(k)
    /\ e.status = "ok" => e.data \in DataOf(k)

IsCache(ent) == DOMAIN ent = Queries /\ \A k \in Queries : IsEntry(k, ent[k])

(* A call, and a call whose change is shown in advance.                    *)
IsBare(c) ==
    /\ DOMAIN c = {"kind", "to", "who", "value", "no", "undo", "at", "rev", "here"}
    /\ c.kind \in {"toggle", "comment", "create"}
    /\ c.at \in {"sent", "done"} /\ c.here \in BOOLEAN /\ c.rev \in Nat /\ c.no \in Nat
    /\ c.kind = "toggle" => c.who \in Members /\ c.value \in BOOLEAN
    /\ c.kind = "comment" => c.to \in Refs
    /\ c.kind = "create" => c.to = "tickets" /\ c.who \in Members

IsUndo(undo) == \A k \in Queries : undo[k] = Nothing \/ undo[k] \in BOOLEAN

IsCall(c) == IsBare(c) /\ (c.kind = "toggle" => IsUndo(c.undo))

IsForm(form) == form \in [who : Members, no : Nat]

IsPage(u) ==
    /\ DOMAIN u = {"page", "of", "text", "sheet", "form"}
    /\ u.page \in {"dashboard", "ticket", "profile", "ref"}
    /\ u.page = "profile" => u.of \in Members
    /\ u.page = "ref" => u.of \in Refs
    /\ u.text \in Nat /\ u.sheet \in BOOLEAN
    /\ u.sheet => u.page = "ref"
    /\ u.form = Nothing \/ IsForm(u.form)

IsUse(us) == us \in [turmoil : Nat, acts : 0..MaxActs, ids : Nat]

IsSeen(sn) ==
    sn \in [flag : [Members -> Nat], posts : SUBSET Post, lost : [1..MaxActs -> Nat]]

Types ==
    /\ DOMAIN flags = Members
    /\ \A m \in Members : flags[m] \in Seq(BOOLEAN) /\ flags[m] # <<>>
    /\ posted \subseteq Post
    /\ IsCache(entry)
    /\ DOMAIN answer = Queries
    /\ \A k \in Queries : answer[k] = Nothing \/ answer[k] \in DataOf(k)
    /\ stale \subseteq Queries
    /\ \A c \in calls : IsCall(c)
    /\ IsPage(ui)
    /\ focused \in BOOLEAN
    /\ IsUse(used)
    /\ IsSeen(seen)

-----------------------------------------------------------------------------
(* What the browser was told of.  An entry that may be behind a write that *)
(* was confirmed, or shows what is not written yet, is hit by a call under *)
(* way or by a stale tag.                                                  *)

RecentFlag(sn, fl, m, value) == \E i \in sn.flag[m]..Len(fl[m]) : value = fl[m][i]

Recent(sn, fl, k, data) ==
    IF k = "members" THEN \A m \in Members : RecentFlag(sn, fl, m, data[m])
    ELSE IF k \in Members THEN RecentFlag(sn, fl, k, data)
    ELSE {p \in sn.posts : p.to = k} \subseteq data

NotBehind(k, ent, ans, tags, cs, sn, fl) ==
    \/ k \in tags
    \/ \E c \in cs : k \in Invalidates(c)
    \/ /\ ent[k].status = "ok" => Recent(sn, fl, k, ent[k].data)
       /\ ans[k] # Nothing => Recent(sn, fl, k, ans[k])

IsDone(c) ==
    c.at = "done" =>
        IF c.kind = "toggle" THEN c.rev \in 1..Len(flags[c.who])
        ELSE c.rev <= used.ids /\ \A p \in posted : p.id = c.rev => p.to = c.to

Told ==
    /\ \A m \in Members : seen.flag[m] \in 1..Len(flags[m])
    /\ seen.posts \subseteq posted
    /\ \A c \in calls : IsDone(c)
    /\ \A p \in posted : p.id <= used.ids
    /\ \A k \in Queries : NotBehind(k, entry, answer, stale, calls, seen, flags)
    /\ Quiet(entry, calls) => stale = {}

Truth == Types /\ Told

-----------------------------------------------------------------------------
(* The cache.                                                              *)

LEMMA DraftTyped ==
    ASSUME NEW ent, IsCache(ent), NEW m \in Members, NEW patch,
           \A k \in Queries : patch[k] = Nothing \/ patch[k] \in BOOLEAN
    PROVE  LET e == Drafted(ent, m, patch)
           IN /\ IsCache(e)
              /\ \A k \in Queries : e[k].status = ent[k].status
              /\ \A k \in Queries \ {m, "members"} : e[k] = ent[k]
<1> DEFINE e == Drafted(ent, m, patch)
<1>1. DOMAIN e = Queries  BY DEF Drafted
<1>2. ASSUME NEW k \in Queries
      PROVE  /\ IsEntry(k, e[k]) /\ e[k].status = ent[k].status
             /\ k \notin {m, "members"} => e[k] = ent[k]
  <2>1. IsEntry(k, ent[k])  BY DEF IsCache
  <2>2. e[k] = IF k \notin {m, "members"} \/ ent[k].data = Nothing \/ patch[k] = Nothing
               THEN ent[k]
               ELSE IF k = m THEN [ent[k] EXCEPT !.data = patch[k]]
                    ELSE [ent[k] EXCEPT !.data = [ent[k].data EXCEPT ![m] = patch[k]]]
    BY DEF Drafted
  <2> HIDE DEF e
  <2>3. CASE k \notin {m, "members"} \/ ent[k].data = Nothing \/ patch[k] = Nothing
    BY <2>1, <2>2, <2>3
  <2>4. CASE k = m /\ ent[k].data # Nothing /\ patch[k] # Nothing
    <3>1. DataOf(k) = BOOLEAN  BY <2>4, KeysDiffer DEF DataOf
    <3>2. patch[k] \in BOOLEAN  BY <2>4
    <3>3. e[k] = [ent[k] EXCEPT !.data = patch[k]]  BY <2>2, <2>4
    <3> QED  BY <2>1, <2>4, <3>1, <3>2, <3>3 DEF IsEntry
  <2>5. CASE k = "members" /\ ent[k].data # Nothing /\ patch[k] # Nothing
    <3>1. DataOf(k) = [Members -> BOOLEAN]  BY <2>5 DEF DataOf
    <3>2. patch[k] \in BOOLEAN  BY <2>5
    <3>3. ent[k].data \in [Members -> BOOLEAN]  BY <2>1, <2>5, <3>1 DEF IsEntry
    <3> DEFINE d == [ent[k].data EXCEPT ![m] = patch[k]]
    <3>4. d \in [Members -> BOOLEAN]  BY <3>2, <3>3
    <3>5. e[k] = [ent[k] EXCEPT !.data = d]  BY <2>2, <2>5, KeysDiffer
    <3> HIDE DEF d
    <3> QED  BY <2>1, <2>5, <3>1, <3>4, <3>5 DEF IsEntry
  <2> QED  BY <2>3, <2>4, <2>5
<1> HIDE DEF e
<1>3. IsCache(e)  BY <1>1, <1>2 DEF IsCache
<1> QED  BY <1>2, <1>3 DEF e

LEMMA UndoTyped ==
    ASSUME NEW ent, IsCache(ent), NEW m \in Members, NEW value
    PROVE  IsUndo(UndoOf(ent, m, value))
<1> DEFINE undo == UndoOf(ent, m, value)
<1>1. ASSUME NEW k \in Queries PROVE undo[k] = Nothing \/ undo[k] \in BOOLEAN
  <2>1. undo[k] = IF k \notin {m, "members"} \/ ent[k].data = Nothing THEN Nothing
                  ELSE LET old == IF k = m THEN ent[k].data ELSE ent[k].data[m]
                       IN IF old = value THEN Nothing ELSE old
    BY DEF UndoOf
  <2> HIDE DEF undo
  <2>2. IsEntry(k, ent[k])  BY DEF IsCache
  <2>3. CASE k \notin {m, "members"} \/ ent[k].data = Nothing  BY <2>1, <2>3
  <2>4. CASE k = m /\ ent[k].data # Nothing
    <3>1. DataOf(k) = BOOLEAN  BY <2>4, KeysDiffer DEF DataOf
    <3>2. ent[k].data \in BOOLEAN  BY <2>2, <2>4, <3>1 DEF IsEntry
    <3> QED  BY <2>1, <2>4, <3>2
  <2>5. CASE k = "members" /\ ent[k].data # Nothing
    <3>1. ent[k].data \in [Members -> BOOLEAN]  BY <2>2, <2>5 DEF IsEntry, DataOf
    <3>2. ent[k].data[m] \in BOOLEAN  BY <3>1
    <3> QED  BY <2>1, <2>5, <3>2, KeysDiffer
  <2> QED  BY <2>3, <2>4, <2>5
<1> QED  BY <1>1 DEF IsUndo

LEMMA StartedTyped ==
    ASSUME NEW ent, IsCache(ent), NEW c, IsBare(c)
    PROVE  LET s == Started(c, ent)
           IN /\ IsCall(s) /\ DOMAIN s = DOMAIN c
              /\ \A f \in DOMAIN c \ {"undo"} : s[f] = c[f]
<1> DEFINE undo == UndoOf(ent, c.who, c.value)
<1>1. CASE c.kind = "toggle"
  <2>1. IsUndo(undo)  BY <1>1, UndoTyped DEF IsBare
  <2>2. Started(c, ent) = [c EXCEPT !.undo = undo]  BY <1>1 DEF Started
  <2> HIDE DEF undo
  <2> DEFINE s == [c EXCEPT !.undo = undo]
  <2>3. DOMAIN s = DOMAIN c /\ s.undo = undo /\ \A f \in DOMAIN c \ {"undo"} : s[f] = c[f]
    BY DEF IsBare
  <2>4. s.kind = c.kind /\ s.at = c.at /\ s.here = c.here /\ s.rev = c.rev /\ s.no = c.no
        /\ s.who = c.who /\ s.value = c.value /\ s.to = c.to
    BY <2>3 DEF IsBare
  <2> HIDE DEF s
  <2>5. IsBare(s)  BY <2>3, <2>4 DEF IsBare
  <2> QED  BY <2>1, <2>2, <2>3, <2>5 DEF IsCall, s
<1>2. CASE c.kind # "toggle"  BY <1>2 DEF Started, IsCall
<1> QED  BY <1>1, <1>2

LEMMA HitsTyped ==
    ASSUME NEW c, IsBare(c)
    PROVE  /\ Invalidates(c) \subseteq Queries
           /\ c.kind \in {"toggle", "create"} => {c.who, "members"} \subseteq Invalidates(c)
           /\ c.kind # "toggle" => c.to \in Invalidates(c)
BY DEF Invalidates, IsBare, Queries

LEMMA OptimisticTyped ==
    ASSUME NEW ent, IsCache(ent), NEW new, new = {} \/ \E c : new = {c},
           \A c \in new : IsBare(c)
    PROVE  /\ IsCache(Optimistic(new, ent))
           /\ \A k \in Queries :
                 /\ Optimistic(new, ent)[k].status = ent[k].status
                 /\ (\A c \in new : k \notin Invalidates(c)) => Optimistic(new, ent)[k] = ent[k]
<1>1. CASE \E c \in new : c.kind = "toggle"
  <2>1. PICK c : new = {c} /\ c.kind = "toggle"  BY <1>1
  <2>2. (CHOOSE d \in new : TRUE) = c  BY <2>1
  <2>3. c.who \in Members /\ c.value \in BOOLEAN  BY <2>1 DEF IsBare
  <2> DEFINE patch == Both(c.who, c.value)
  <2>4. Optimistic(new, ent) = Drafted(ent, c.who, patch)  BY <1>1, <2>2 DEF Optimistic
  <2>5. \A k \in Queries : patch[k] = Nothing \/ patch[k] \in BOOLEAN  BY <2>3 DEF Both
  <2>6. {c.who, "members"} \subseteq Invalidates(c)  BY <2>1, HitsTyped
  <2> HIDE DEF patch
  <2>7. /\ IsCache(Drafted(ent, c.who, patch))
        /\ \A k \in Queries : Drafted(ent, c.who, patch)[k].status = ent[k].status
        /\ \A k \in Queries \ {c.who, "members"} : Drafted(ent, c.who, patch)[k] = ent[k]
    BY <2>3, <2>5, DraftTyped
  <2>8. c \in new  BY <2>1
  <2> QED  BY <2>4, <2>6, <2>7, <2>8
<1>2. CASE ~\E c \in new : c.kind = "toggle"  BY <1>2 DEF Optimistic
<1> QED  BY <1>1, <1>2

LEMMA SweptEntry ==
    ASSUME NEW ent, IsCache(ent), NEW hit, NEW subs
    PROVE  /\ IsCache(Invalidated(ent, hit, subs))
           /\ \A k \in Queries :
                 /\ k \notin hit => Invalidated(ent, hit, subs)[k] = ent[k]
                 /\ k \in hit => Invalidated(ent, hit, subs)[k].status # "ok"
<1> DEFINE swept == Invalidated(ent, hit, subs)
<1>1. ASSUME NEW k \in Queries
      PROVE  /\ IsEntry(k, swept[k])
             /\ k \notin hit => swept[k] = ent[k]
             /\ k \in hit => swept[k].status # "ok"
  <2>1. swept[k] = IF k \notin hit \/ ent[k].status = "uninitialized" THEN ent[k]
                   ELSE IF k \in subs THEN Pending(ent[k]) ELSE Absent
    BY DEF Invalidated, IsCache
  <2>2. IsEntry(k, ent[k])  BY DEF IsCache
  <2>3. IsEntry(k, Pending(ent[k])) /\ Pending(ent[k]).status = "pending"
    BY <2>2 DEF Pending, IsEntry
  <2>4. IsEntry(k, Absent) /\ Absent.status = "uninitialized"  BY DEF Absent, IsEntry
  <2> HIDE DEF swept
  <2> QED  BY <2>1, <2>2, <2>3, <2>4
<1>2. DOMAIN swept = Queries  BY DEF Invalidated, IsCache
<1> HIDE DEF swept
<1>3. IsCache(swept)  BY <1>1, <1>2 DEF IsCache
<1> QED  BY <1>1, <1>3 DEF swept

LEMMA AskedEntry ==
    ASSUME NEW ent, IsCache(ent), NEW subs
    PROVE  /\ IsCache(Subscribed(ent, subs))
           /\ \A k \in Queries : \/ Subscribed(ent, subs)[k] = ent[k]
                                 \/ Subscribed(ent, subs)[k].status = "pending"
<1> DEFINE asked == Subscribed(ent, subs)
<1>1. ASSUME NEW k \in Queries
      PROVE  IsEntry(k, asked[k]) /\ (asked[k] = ent[k] \/ asked[k].status = "pending")
  <2>1. asked[k] \in {ent[k], Pending(ent[k])}  BY DEF Subscribed, IsCache
  <2>2. IsEntry(k, ent[k])  BY DEF IsCache
  <2>3. IsEntry(k, Pending(ent[k])) /\ Pending(ent[k]).status = "pending"
    BY <2>2 DEF Pending, IsEntry
  <2> HIDE DEF asked
  <2> QED  BY <2>1, <2>2, <2>3
<1>2. DOMAIN asked = Queries  BY DEF Subscribed, IsCache
<1> HIDE DEF asked
<1>3. IsCache(asked)  BY <1>1, <1>2 DEF IsCache
<1> QED  BY <1>1, <1>3 DEF asked

LEMMA ChangedEntry ==
    ASSUME NEW ent, IsCache(ent), NEW k \in Queries, NEW e, IsEntry(k, e)
    PROVE  /\ IsCache([ent EXCEPT ![k] = e])
           /\ [ent EXCEPT ![k] = e][k] = e
           /\ \A l \in Queries \ {k} : [ent EXCEPT ![k] = e][l] = ent[l]
BY DEF IsCache

LEMMA AfterTyped ==
    ASSUME NEW ent, IsCache(ent), NEW c, IsCall(c)
    PROVE  /\ IsCache(Confirmed(c, ent)) /\ IsCache(TakenBack(c, ent))
           /\ \A k \in Queries \ Invalidates(c) :
                 Confirmed(c, ent)[k] = ent[k] /\ TakenBack(c, ent)[k] = ent[k]
<1>1. CASE c.kind = "toggle"
  <2> DEFINE patch == Both(c.who, c.value)
             undo == c.undo
  <2>1. c.who \in Members /\ c.value \in BOOLEAN  BY <1>1 DEF IsCall, IsBare
  <2>2. \A k \in Queries : patch[k] = Nothing \/ patch[k] \in BOOLEAN  BY <2>1 DEF Both
  <2>3. \A k \in Queries : undo[k] = Nothing \/ undo[k] \in BOOLEAN
    BY <1>1 DEF IsCall, IsUndo
  <2>4. /\ Confirmed(c, ent) = Drafted(ent, c.who, patch)
        /\ TakenBack(c, ent) = Drafted(ent, c.who, undo)
    BY <1>1 DEF Confirmed, TakenBack
  <2>5. {c.who, "members"} \subseteq Invalidates(c)  BY <1>1, HitsTyped DEF IsCall
  <2> HIDE DEF patch, undo
  <2> QED  BY <2>1, <2>2, <2>3, <2>4, <2>5, DraftTyped
<1>2. CASE c.kind # "toggle"  BY <1>2 DEF Confirmed, TakenBack
<1> QED  BY <1>1, <1>2

(* What a step may hand to Settle.                                         *)
Settling(ent, cs, tags, u, new) ==
    /\ IsCache(ent)
    /\ tags \subseteq Queries
    /\ \A c \in cs : IsCall(c)
    /\ \A n \in new : IsBare(n) /\ n.at = "sent"
    /\ new = {} \/ \E n : new = {n}
    /\ IsPage(u)

(* What Settle makes of the calls.                                         *)
Resent(m, n) ==
    IsCall(m) /\ DOMAIN m = DOMAIN n /\ \A f \in DOMAIN n \ {"undo"} : m[f] = n[f]

Sends(cs, new) ==
    /\ new = {} => calls' = cs
    /\ \A n : new = {n} => \E m : Resent(m, n) /\ calls' = cs \cup {m}

LEMMA ResentSame ==
    ASSUME NEW m, NEW n, Resent(m, n), IsBare(n)
    PROVE  /\ m.kind = n.kind /\ m.at = n.at /\ m.here = n.here /\ m.rev = n.rev /\ m.no = n.no
           /\ m.to = n.to /\ m.who = n.who
           /\ Invalidates(m) = Invalidates(n)
<1>1. /\ m.kind = n.kind /\ m.at = n.at /\ m.here = n.here /\ m.rev = n.rev /\ m.no = n.no
      /\ m.to = n.to /\ m.who = n.who
  BY DEF Resent, IsBare
<1> QED  BY <1>1 DEF Invalidates

LEMMA SettleTyped ==
    ASSUME NEW ent, NEW cs, NEW tags, NEW u, NEW new,
           Settling(ent, cs, tags, u, new),
           \A k \in Queries : answer[k] = Nothing \/ answer[k] \in DataOf(k),
           Settle(ent, cs, tags, u, new)
    PROVE  /\ IsCache(entry')
           /\ DOMAIN answer' = Queries
           /\ \A k \in Queries : answer'[k] = Nothing \/ answer'[k] \in DataOf(k)
           /\ stale' \subseteq Queries
           /\ \A c \in calls' : IsCall(c)
           /\ ui' = u
           /\ Quiet(entry', calls') => stale' = {}
           /\ Sends(cs, new)
<1> DEFINE asked == Subscribed(ent, Subscriptions(u))
           swept == IF Quiet(asked, cs) THEN Invalidated(asked, tags, Subscriptions(u)) ELSE asked
<1>1. /\ stale' = IF Quiet(asked, cs) THEN {} ELSE tags
      /\ calls' = cs \cup {Started(c, swept) : c \in new}
      /\ entry' = Optimistic(new, swept)
      /\ ui' = u
      /\ answer' = [k \in Queries |->
                       IF k \in StillAsked(entry, ent) \cap StillAsked(ent, swept)
                       THEN answer[k] ELSE Nothing]
  BY DEF Settle
<1>2. IsCache(asked)  BY AskedEntry DEF Settling
<1> HIDE DEF asked
<1>3. IsCache(swept)  BY <1>2, SweptEntry
<1>4. ~Quiet(asked, cs) => swept = asked  OBVIOUS
<1> HIDE DEF swept
<1>5. IsCache(entry') /\ \A k \in Queries : entry'[k].status = swept[k].status
  BY <1>1, <1>3, OptimisticTyped DEF Settling
<1>6. DOMAIN answer' = Queries /\ \A k \in Queries : answer'[k] \in {answer[k], Nothing}
  BY <1>1
<1>7. stale' \subseteq Queries  BY <1>1 DEF Settling
<1>8. \A n \in new : IsCall(Started(n, swept)) /\ Resent(Started(n, swept), n)
  BY <1>3, StartedTyped DEF Settling, Resent
<1>9. \A c \in calls' : IsCall(c)  BY <1>1, <1>8 DEF Settling
<1>10. Sends(cs, new)
  <2>1. new = {} => calls' = cs  BY <1>1
  <2>2. ASSUME NEW n, new = {n} PROVE \E m : Resent(m, n) /\ calls' = cs \cup {m}
    BY <1>1, <1>8, <2>2
  <2> QED  BY <2>1, <2>2 DEF Sends
<1>11. ASSUME Quiet(entry', calls') PROVE stale' = {}
  <2>1. cs = {}  BY <1>1, <1>11 DEF Quiet
  <2>2. \A k \in Queries : entry'[k].status # "pending"  BY <1>5, <1>11 DEF Quiet, IsCache
  <2>3. CASE Quiet(asked, cs)  BY <1>1, <2>3
  <2>4. CASE ~Quiet(asked, cs)
    <3>1. \E k \in Queries : asked[k].status = "pending"
      BY <1>2, <2>1, <2>4 DEF Quiet, IsCache
    <3> QED  BY <1>4, <1>5, <2>2, <2>4, <3>1
  <2> QED  BY <2>3, <2>4
<1> QED  BY <1>1, <1>5, <1>6, <1>7, <1>9, <1>10, <1>11

LEMMA SettleTold ==
    ASSUME NEW ent, NEW cs, NEW tags, NEW u, NEW new,
           Settling(ent, cs, tags, u, new), Settle(ent, cs, tags, u, new), NEW sn, NEW fl,
           \A k \in Queries : NotBehind(k, ent, answer, tags, cs \cup new, sn, fl)
    PROVE  \A k \in Queries : NotBehind(k, entry', answer', stale', calls', sn, fl)
<1> DEFINE asked == Subscribed(ent, Subscriptions(u))
           swept == IF Quiet(asked, cs) THEN Invalidated(asked, tags, Subscriptions(u)) ELSE asked
<1>1. /\ stale' = IF Quiet(asked, cs) THEN {} ELSE tags
      /\ calls' = cs \cup {Started(c, swept) : c \in new}
      /\ entry' = Optimistic(new, swept)
      /\ answer' = [k \in Queries |->
                       IF k \in StillAsked(entry, ent) \cap StillAsked(ent, swept)
                       THEN answer[k] ELSE Nothing]
  BY DEF Settle
<1>2. /\ IsCache(ent) /\ IsCache(asked)
      /\ \A k \in Queries : asked[k] = ent[k] \/ asked[k].status = "pending"
  BY AskedEntry DEF Settling
<1> HIDE DEF asked
<1>3. /\ IsCache(swept)
      /\ ~Quiet(asked, cs) => swept = asked
      /\ \A k \in Queries \ tags : swept[k] = asked[k]
      /\ Quiet(asked, cs) => \A k \in tags \cap Queries : swept[k].status # "ok"
  BY <1>2, SweptEntry
<1> HIDE DEF swept
<1>4. \A k \in Queries :
         /\ entry'[k].status = swept[k].status
         /\ (\A c \in new : k \notin Invalidates(c)) => entry'[k] = swept[k]
  BY <1>1, <1>3, OptimisticTyped DEF Settling
<1>5. \A c \in new : Started(c, swept) \in calls' /\ Invalidates(Started(c, swept)) = Invalidates(c)
  BY <1>1, <1>3, StartedTyped, ResentSame DEF Settling, Resent
<1>6. ASSUME NEW k \in Queries
      PROVE  NotBehind(k, entry', answer', stale', calls', sn, fl)
  <2>1. answer'[k] \in {answer[k], Nothing}  BY <1>1
  <2>2. CASE \E c \in cs \cup new : k \in Invalidates(c)
    BY <1>1, <1>5, <2>2 DEF NotBehind
  <2>3. CASE ~\E c \in cs \cup new : k \in Invalidates(c)
    <3>1. entry'[k] = swept[k]  BY <1>4, <2>3
    <3>2. CASE ~Quiet(asked, cs)
      BY <1>1, <1>2, <1>3, <1>6, <2>1, <2>3, <3>1, <3>2 DEF NotBehind
    <3>3. CASE Quiet(asked, cs) /\ k \in tags
      <4>1. entry'[k].status # "ok"  BY <1>3, <3>1, <3>3
      <4>2. asked[k].status # "pending"  BY <1>2, <3>3 DEF Quiet, IsCache
      <4>3. ent[k].status # "pending"  BY <1>2, <4>2
      <4>4. answer'[k] = Nothing  BY <1>1, <4>3 DEF StillAsked
      <4> QED  BY <4>1, <4>4 DEF NotBehind
    <3>4. CASE k \notin tags
      BY <1>2, <1>3, <1>6, <2>1, <2>3, <3>1, <3>4 DEF NotBehind
    <3> QED  BY <3>2, <3>3, <3>4
  <2> QED  BY <2>2, <2>3
<1> QED  BY <1>6

(* A step that settles: what it hands over has to be true of the browser.  *)
LEMMA SettleStep ==
    ASSUME Truth, NEW ent, NEW cs, NEW tags, NEW u, NEW new,
           Settling(ent, cs, tags, u, new), Settle(ent, cs, tags, u, new),
           UNCHANGED <<flags, posted>>, focused' \in BOOLEAN, IsUse(used'), IsSeen(seen'),
           used'.ids >= used.ids,
           \A c \in cs : IsDone(c),
           seen'.posts \subseteq posted,
           \A m \in Members : seen'.flag[m] \in 1..Len(flags[m]),
           \A k \in Queries : NotBehind(k, ent, answer, tags, cs \cup new, seen', flags)
    PROVE  Truth' /\ ui' = u /\ Sends(cs, new)
<1>1. /\ IsCache(entry')
      /\ DOMAIN answer' = Queries
      /\ \A k \in Queries : answer'[k] = Nothing \/ answer'[k] \in DataOf(k)
      /\ stale' \subseteq Queries
      /\ \A c \in calls' : IsCall(c)
      /\ ui' = u
      /\ Quiet(entry', calls') => stale' = {}
      /\ Sends(cs, new)
  BY SettleTyped DEF Truth, Types
<1>2. \A k \in Queries : NotBehind(k, entry', answer', stale', calls', seen', flags)
  <2> DEFINE sn == seen'
  <2>1. \A k \in Queries : NotBehind(k, ent, answer, tags, cs \cup new, sn, flags)  OBVIOUS
  <2> HIDE DEF sn
  <2>2. \A k \in Queries : NotBehind(k, entry', answer', stale', calls', sn, flags)
    BY <2>1, SettleTold
  <2> QED  BY <2>2 DEF sn
<1>3. \A c \in calls' : IsDone(c)
  <2>1. CASE new = {}  BY <1>1, <2>1 DEF Sends
  <2>2. CASE \E n : new = {n}
    <3>1. PICK n : new = {n}  BY <2>2
    <3>2. PICK m : Resent(m, n) /\ calls' = cs \cup {m}  BY <1>1, <3>1 DEF Sends
    <3>3. IsBare(n) /\ n.at = "sent"  BY <3>1 DEF Settling
    <3>4. m.at = "sent"  BY <3>2, <3>3, ResentSame
    <3> QED  BY <3>2, <3>4 DEF IsDone
  <2> QED  BY <2>1, <2>2 DEF Settling
<1>4. Types'  BY <1>1 DEF Truth, Types, Settling
<1>5. \A p \in posted : p.id <= used'.ids
  <2>1. \A p \in posted : p.id \in Nat /\ p.id <= used.ids  BY DEF Truth, Types, Told, Post
  <2>2. used.ids \in Nat /\ used'.ids \in Nat  BY DEF Truth, Types, IsUse
  <2> QED  BY <2>1, <2>2
<1>6. ASSUME NEW c \in calls' PROVE IsDone(c)'
  <2>1. IsDone(c) /\ c.rev \in Nat  BY <1>1, <1>3 DEF IsCall, IsBare
  <2>2. used.ids \in Nat /\ used'.ids \in Nat  BY DEF Truth, Types, IsUse
  <2>3. c.rev <= used.ids => c.rev <= used'.ids  BY <2>1, <2>2
  <2> QED  BY <2>1, <2>3 DEF IsDone
<1>7. Told'  BY <1>1, <1>2, <1>5, <1>6 DEF Told
<1> QED  BY <1>1, <1>4, <1>7 DEF Truth

(* A step after which what was true of a query still is, or it is stale.   *)
LEMMA EndStep ==
    ASSUME Truth, NEW ent, NEW cs, NEW tags, NEW u, NEW new,
           Settling(ent, cs, tags, u, new), Settle(ent, cs, tags, u, new),
           UNCHANGED <<flags, posted>>, focused' \in BOOLEAN, IsUse(used'), IsSeen(seen'),
           used'.ids >= used.ids,
           \A c \in cs : IsDone(c),
           seen'.posts \subseteq posted,
           \A m \in Members : seen'.flag[m] \in 1..Len(flags[m]),
           stale \subseteq tags,
           \A k \in Queries \ tags : ent[k] = entry[k] \/ ent[k].status # "ok",
           \A c \in calls :
               Invalidates(c) \subseteq tags \/ \E d \in cs : Invalidates(d) = Invalidates(c),
           \A k \in Queries \ tags : \A data :
               Recent(seen, flags, k, data) => Recent(seen', flags, k, data)
    PROVE  Truth' /\ ui' = u /\ Sends(cs, new)
<1>1. ASSUME NEW k \in Queries
      PROVE  NotBehind(k, ent, answer, tags, cs \cup new, seen', flags)
  <2>1. CASE k \in tags  BY <2>1 DEF NotBehind
  <2>2. CASE k \notin tags
    <3>1. NotBehind(k, entry, answer, stale, calls, seen, flags)  BY DEF Truth, Told
    <3>2. CASE \E c \in calls : k \in Invalidates(c)
      <4>1. \E d \in cs : k \in Invalidates(d)  BY <2>2, <3>2
      <4> QED  BY <4>1 DEF NotBehind
    <3>3. CASE ~\E c \in calls : k \in Invalidates(c)
      <4>1. /\ entry[k].status = "ok" => Recent(seen, flags, k, entry[k].data)
            /\ answer[k] # Nothing => Recent(seen, flags, k, answer[k])
        BY <2>2, <3>1, <3>3 DEF NotBehind
      <4>2. /\ ent[k].status = "ok" => Recent(seen', flags, k, ent[k].data)
            /\ answer[k] # Nothing => Recent(seen', flags, k, answer[k])
        BY <2>2, <4>1
      <4> QED  BY <4>2 DEF NotBehind
    <3> QED  BY <3>2, <3>3
  <2> QED  BY <2>1, <2>2
<1> QED  BY <1>1, SettleStep

(* The same, when nothing is learned: the calls stay, or are left behind.  *)
LEMMA QuietStep ==
    ASSUME Truth, NEW ent, NEW cs, NEW u, NEW new,
           IsCache(ent), IsPage(u), new = {} \/ \E n : new = {n},
           \A n \in new : IsBare(n) /\ n.at = "sent",
           Settle(ent, cs, stale, u, new),
           UNCHANGED <<flags, posted, seen>>, focused' \in BOOLEAN, IsUse(used'),
           used'.ids = used.ids,
           \A c \in cs : IsCall(c) /\ IsDone(c),
           \A k \in Queries : ent[k] = entry[k] \/ ent[k].status # "ok",
           \A c \in calls : \E d \in cs : Invalidates(d) = Invalidates(c)
    PROVE  Truth' /\ ui' = u /\ Sends(cs, new)
<1>1. /\ IsUse(used) /\ IsSeen(seen) /\ stale \subseteq Queries
      /\ seen.posts \subseteq posted
      /\ \A m \in Members : seen.flag[m] \in 1..Len(flags[m])
  BY DEF Truth, Types, Told
<1>2. Settling(ent, cs, stale, u, new)  BY <1>1 DEF Settling
<1>3. used'.ids >= used.ids  BY <1>1 DEF IsUse
<1>4. /\ IsSeen(seen') /\ seen'.posts \subseteq posted
      /\ \A m \in Members : seen'.flag[m] \in 1..Len(flags[m])
      /\ \A k \in Queries \ stale : \A data :
            Recent(seen, flags, k, data) => Recent(seen', flags, k, data)
  BY <1>1
<1> QED  BY <1>2, <1>3, <1>4, EndStep

LEMMA UseGrows ==
    ASSUME IsUse(used), NEW what, NEW max, Use(what, max),
           what = "turmoil" \/ (what = "acts" /\ max = MaxActs)
    PROVE  /\ IsUse(used') /\ used'.ids = used.ids
           /\ used'.acts = used.acts + (IF what = "acts" THEN 1 ELSE 0)
<1>1. used' = [used EXCEPT ![what] = used[what] + 1] /\ used[what] < max  BY DEF Use
<1>2. MaxActs \in Nat  BY PageBounds
<1> QED  BY <1>1, <1>2 DEF IsUse

-----------------------------------------------------------------------------
(* The user.                                                               *)

LEMMA NewPageTyped ==
    ASSUME NEW page \in Pages
    PROVE  IsPage(page) /\ page.text = 0 /\ page.form = Nothing
<1>1. PICK name, of :
         /\ page = NewPage(name, of) /\ name \in {"dashboard", "ticket", "profile", "ref"}
         /\ name = "profile" => of \in Members
         /\ name = "ref" => of \in Refs
  <2>1. CASE page \in {NewPage("dashboard", Nothing), NewPage("ticket", Nothing)}  BY <2>1
  <2>2. CASE page \in {NewPage("profile", m) : m \in Members}  BY <2>2
  <2>3. CASE page \in {NewPage("ref", r) : r \in Refs}  BY <2>3
  <2> QED  BY <2>1, <2>2, <2>3 DEF Pages
<1> QED  BY <1>1 DEF NewPage, IsPage

(* A call that a page has left behind is still the same call.              *)
LEMMA OrphanTyped ==
    ASSUME NEW c, IsCall(c), IsDone(c)
    PROVE  LET d == [c EXCEPT !.here = FALSE]
           IN /\ IsCall(d) /\ IsDone(d) /\ Invalidates(d) = Invalidates(c) /\ ~d.here
              /\ d.kind = c.kind /\ d.at = c.at /\ d.no = c.no /\ d.rev = c.rev /\ d.to = c.to
<1> DEFINE d == [c EXCEPT !.here = FALSE]
<1>1. /\ DOMAIN d = DOMAIN c /\ ~d.here /\ d.here \in BOOLEAN
      /\ d.kind = c.kind /\ d.at = c.at /\ d.no = c.no /\ d.rev = c.rev /\ d.to = c.to
      /\ d.who = c.who /\ d.value = c.value /\ d.undo = c.undo
  BY DEF IsCall, IsBare
<1> HIDE DEF d
<1>2. IsCall(d)  BY <1>1 DEF IsCall, IsBare
<1>3. IsDone(d)  BY <1>1 DEF IsDone
<1>4. Invalidates(d) = Invalidates(c)  BY <1>1 DEF Invalidates
<1> QED  BY <1>1, <1>2, <1>3, <1>4 DEF d

LEMMA GoToStep ==
    ASSUME Truth, NEW page \in Pages, GoTo(page)
    PROVE  /\ Truth' /\ ui' = page /\ calls' = {[c EXCEPT !.here = FALSE] : c \in calls}
           /\ UNCHANGED <<posted, seen>> /\ used'.acts = used.acts /\ used'.ids = used.ids
<1> DEFINE cs == {[c EXCEPT !.here = FALSE] : c \in calls}
<1>1. /\ Settle(entry, cs, stale, page, {}) /\ UNCHANGED <<flags, posted, focused, seen>>
      /\ Use("turmoil", MaxTurmoil)
  BY DEF GoTo
<1>2. /\ IsCache(entry) /\ focused \in BOOLEAN /\ IsUse(used)
      /\ \A c \in calls : IsCall(c) /\ IsDone(c)
  BY DEF Truth, Types, Told
<1>3. IsUse(used') /\ used'.acts = used.acts /\ used'.ids = used.ids
  BY <1>1, <1>2, UseGrows DEF IsUse
<1>4. /\ \A d \in cs : IsCall(d) /\ IsDone(d)
      /\ \A c \in calls : \E d \in cs : Invalidates(d) = Invalidates(c)
  BY <1>2, OrphanTyped
<1> HIDE DEF cs
<1>5. Truth' /\ ui' = page /\ Sends(cs, {})
  BY <1>1, <1>2, <1>3, <1>4, NewPageTyped, QuietStep
<1> QED  BY <1>1, <1>3, <1>5 DEF Sends, cs

(* A button of the page sends a call.                                      *)
LEMMA SendStep ==
    ASSUME Truth, NEW n, IsBare(n), n.at = "sent", Settle(entry, calls, stale, ui, {n}),
           UNCHANGED <<flags, posted, focused, seen>>, IsUse(used'), used'.ids = used.ids
    PROVE  /\ Truth' /\ ui' = ui
           /\ \E m : Resent(m, n) /\ calls' = calls \cup {m}
<1>1. /\ IsCache(entry) /\ focused \in BOOLEAN /\ IsPage(ui)
      /\ \A c \in calls : IsCall(c) /\ IsDone(c)
  BY DEF Truth, Types, Told
<1>2. Truth' /\ ui' = ui /\ Sends(calls, {n})  BY <1>1, QuietStep
<1> QED  BY <1>2 DEF Sends

LEMMA ToggleStep ==
    ASSUME Truth, Toggle
    PROVE  /\ Truth' /\ ui' = ui /\ UNCHANGED <<posted, seen>>
           /\ used'.acts = used.acts + 1 /\ used'.ids = used.ids
           /\ \E m : m.kind = "toggle" /\ calls' = calls \cup {m}
<1> DEFINE n == Call("toggle", Nothing, ui.of, ~entry[ui.of].data, used'.acts)
<1>1. /\ ui.page = "profile" /\ entry[ui.of].status = "ok" /\ Use("acts", MaxActs)
      /\ Settle(entry, calls, stale, ui, {n}) /\ UNCHANGED <<flags, posted, focused, seen>>
  BY DEF Toggle
<1>2. IsCache(entry) /\ IsPage(ui) /\ IsUse(used)  BY DEF Truth, Types
<1>3. IsUse(used') /\ used'.acts = used.acts + 1 /\ used'.ids = used.ids
  BY <1>1, <1>2, UseGrows
<1>4. ui.of \in Members /\ ui.of \in Queries  BY <1>1, <1>2 DEF IsPage, Queries
<1>5. entry[ui.of].data \in BOOLEAN
  BY <1>1, <1>2, <1>4, KeysDiffer DEF IsCache, IsEntry, DataOf
<1>6. IsBare(n) /\ n.at = "sent" /\ n.kind = "toggle"
  BY <1>3, <1>4 DEF Call, IsBare, IsUse
<1> HIDE DEF n
<1>7. Truth' /\ ui' = ui /\ \E m : Resent(m, n) /\ calls' = calls \cup {m}
  BY <1>1, <1>3, <1>6, SendStep
<1> QED  BY <1>1, <1>3, <1>6, <1>7, ResentSame

LEMMA SendCommentStep ==
    ASSUME Truth, SendComment
    PROVE  /\ Truth' /\ ui' = ui /\ UNCHANGED <<posted, seen, used>>
           /\ ui.text # 0 /\ \A c \in calls : ~(c.here /\ c.kind = "comment")
           /\ \E m : /\ m.kind = "comment" /\ m.no = ui.text /\ m.at = "sent" /\ m.here
                     /\ calls' = calls \cup {m}
<1> DEFINE n == Call("comment", ui.of, Nothing, Nothing, ui.text)
<1>1. /\ ui.page = "ref" /\ ui.text # 0 /\ ~Busy("comment")
      /\ Settle(entry, calls, stale, ui, {n}) /\ UNCHANGED <<flags, posted, focused, seen, used>>
  BY DEF SendComment, MaySend
<1>2. IsPage(ui) /\ IsUse(used)  BY DEF Truth, Types
<1>3. ui.of \in Refs /\ ui.text \in Nat  BY <1>1, <1>2 DEF IsPage
<1>4. IsBare(n) /\ n.at = "sent" /\ n.kind = "comment" /\ n.no = ui.text /\ n.here
  BY <1>3 DEF Call, IsBare
<1> HIDE DEF n
<1>5. Truth' /\ ui' = ui /\ \E m : Resent(m, n) /\ calls' = calls \cup {m}
  BY <1>1, <1>2, <1>4, SendStep
<1> QED  BY <1>1, <1>4, <1>5, ResentSame DEF Busy

LEMMA CreateStep ==
    ASSUME Truth, CreateTicket
    PROVE  /\ Truth' /\ ui' = ui /\ UNCHANGED <<posted, seen, used>>
           /\ ui.form # Nothing /\ \A c \in calls : ~(c.here /\ c.kind = "create")
           /\ \E m : /\ m.kind = "create" /\ m.no = ui.form.no /\ m.at = "sent" /\ m.here
                     /\ calls' = calls \cup {m}
<1> DEFINE n == Call("create", "tickets", ui.form.who, Nothing, ui.form.no)
<1>1. /\ ui.form # Nothing /\ ~Busy("create")
      /\ Settle(entry, calls, stale, ui, {n}) /\ UNCHANGED <<flags, posted, focused, seen, used>>
  BY DEF CreateTicket
<1>2. IsPage(ui) /\ IsUse(used)  BY DEF Truth, Types
<1>3. ui.form.who \in Members /\ ui.form.no \in Nat  BY <1>1, <1>2 DEF IsPage, IsForm
<1>4. IsBare(n) /\ n.at = "sent" /\ n.kind = "create" /\ n.no = ui.form.no /\ n.here
  BY <1>3 DEF Call, IsBare
<1> HIDE DEF n
<1>5. Truth' /\ ui' = ui /\ \E m : Resent(m, n) /\ calls' = calls \cup {m}
  BY <1>1, <1>2, <1>4, SendStep
<1> QED  BY <1>1, <1>4, <1>5, ResentSame DEF Busy

(* The sheet, the poll and the focus send no call.                         *)
LEMMA VisitStep ==
    ASSUME Truth, NEW ent, IsCache(ent), NEW u, IsPage(u), Settle(ent, calls, stale, u, {}),
           \A k \in Queries : ent[k] = entry[k] \/ ent[k].status # "ok",
           UNCHANGED <<flags, posted, seen>>, focused' \in BOOLEAN,
           IsUse(used'), used'.ids = used.ids
    PROVE  Truth' /\ ui' = u /\ calls' = calls
<1>1. \A c \in calls : IsCall(c) /\ IsDone(c)  BY DEF Truth, Types, Told
<1>2. Truth' /\ ui' = u /\ Sends(calls, {})  BY <1>1, QuietStep
<1> QED  BY <1>2 DEF Sends

LEMMA SheetStep ==
    ASSUME Truth, OpenSheet \/ CloseSheet
    PROVE  /\ Truth' /\ calls' = calls /\ UNCHANGED <<posted, seen, used>>
           /\ ui'.text = ui.text /\ (ui'.form = ui.form \/ ui'.form = Nothing)
<1>1. /\ IsCache(entry) /\ IsPage(ui) /\ focused \in BOOLEAN /\ IsUse(used)
  BY DEF Truth, Types
<1>2. /\ UNCHANGED <<flags, posted, focused, seen, used>>
      /\ ui.page = "ref" \/ ui.sheet
      /\ \E sheet \in BOOLEAN : \E form \in {ui.form, Nothing} :
            Settle(entry, calls, stale, [ui EXCEPT !.sheet = sheet, !.form = form], {})
  <2>1. CASE OpenSheet
    <3>1. [ui EXCEPT !.sheet = TRUE] = [ui EXCEPT !.sheet = TRUE, !.form = ui.form]
      BY <1>1 DEF IsPage
    <3> QED  BY <2>1, <3>1 DEF OpenSheet
  <2>2. CASE CloseSheet  BY <2>2 DEF CloseSheet
  <2> QED  BY <2>1, <2>2
<1>3. PICK sheet \in BOOLEAN, form \in {ui.form, Nothing} :
         Settle(entry, calls, stale, [ui EXCEPT !.sheet = sheet, !.form = form], {})
  BY <1>2
<1> DEFINE u == [ui EXCEPT !.sheet = sheet, !.form = form]
<1>4. IsPage(u) /\ u.text = ui.text /\ (u.form = ui.form \/ u.form = Nothing)
  BY <1>1, <1>2 DEF IsPage
<1>5. Settle(entry, calls, stale, u, {})  BY <1>3
<1> HIDE DEF u
<1>6. Truth' /\ ui' = u /\ calls' = calls  BY <1>1, <1>2, <1>4, <1>5, VisitStep
<1> QED  BY <1>2, <1>4, <1>6

(* A query is fetched again, or fails.                                     *)
LEMMA AgainTyped ==
    ASSUME NEW k \in Queries, NEW e, IsEntry(k, e)
    PROVE  /\ IsEntry(k, Pending(e)) /\ Pending(e).status = "pending"
           /\ IsEntry(k, Failed(e)) /\ Failed(e).status = "error"
           /\ IsEntry(k, Absent) /\ Absent.status = "uninitialized"
BY DEF Pending, Failed, Absent, IsEntry

LEMMA AgainStep ==
    ASSUME Truth, Focus \/ \E k \in Queries : Poll(k) \/ QueryFails(k)
    PROVE  /\ Truth' /\ ui' = ui /\ calls' = calls /\ UNCHANGED <<posted, seen>>
           /\ used'.acts = used.acts /\ used'.ids = used.ids
<1>1. /\ IsCache(entry) /\ IsPage(ui) /\ focused \in BOOLEAN /\ IsUse(used)
  BY DEF Truth, Types
<1>2. CASE Focus
  <2> DEFINE ent == [k \in Queries |-> IF ui.page = "dashboard" /\ k \in Subscriptions(ui)
                                       THEN Pending(entry[k]) ELSE entry[k]]
  <2>1. /\ Settle(ent, calls, stale, ui, {}) /\ focused' = TRUE
        /\ UNCHANGED <<flags, posted, seen, used>>
    BY <1>2 DEF Focus
  <2>2. IsCache(ent) /\ \A k \in Queries : ent[k] = entry[k] \/ ent[k].status # "ok"
    BY <1>1, AgainTyped DEF IsCache
  <2> HIDE DEF ent
  <2> QED  BY <1>1, <2>1, <2>2, VisitStep
<1>3. ASSUME NEW k \in Queries, Poll(k) \/ QueryFails(k)
      PROVE  /\ Truth' /\ ui' = ui /\ calls' = calls /\ UNCHANGED <<posted, seen>>
             /\ used'.acts = used.acts /\ used'.ids = used.ids
  <2>1. PICK e \in {Pending(entry[k]), Failed(entry[k])} :
           Settle([entry EXCEPT ![k] = e], calls, stale, ui, {})
    BY <1>3 DEF Poll, QueryFails
  <2>2. /\ UNCHANGED <<flags, posted, focused, seen>>
        /\ UNCHANGED used \/ Use("turmoil", MaxTurmoil)
    BY <1>3 DEF Poll, QueryFails
  <2>3. IsUse(used') /\ used'.acts = used.acts /\ used'.ids = used.ids
    BY <1>1, <2>2, UseGrows DEF IsUse
  <2>4. IsEntry(k, e) /\ e.status # "ok"  BY <1>1, AgainTyped DEF IsCache
  <2> DEFINE ent == [entry EXCEPT ![k] = e]
  <2>5. IsCache(ent) /\ \A l \in Queries : ent[l] = entry[l] \/ ent[l].status # "ok"
    BY <1>1, <2>4, ChangedEntry
  <2>6. Settle(ent, calls, stale, ui, {})  BY <2>1
  <2> HIDE DEF ent
  <2> QED  BY <1>1, <2>2, <2>3, <2>5, <2>6, VisitStep
<1> QED  BY <1>2, <1>3

(* What is typed, filled in or left, before anything is sent.              *)
LEMMA LocalStep ==
    ASSUME Truth, Type \/ Blur \/ \E m \in Members : FillIn(m)
    PROVE  /\ Truth' /\ calls' = calls /\ UNCHANGED <<posted, seen>> /\ used'.ids = used.ids
           /\ used.acts \in Nat /\ used'.acts \in 0..MaxActs
           /\ \/ ui' = ui /\ used'.acts = used.acts
              \/ /\ used'.acts = used.acts + 1
                 /\ ui'.text = used'.acts /\ ui'.form = ui.form
              \/ /\ used'.acts = used.acts + 1
                 /\ ui'.text = ui.text /\ ui.form = Nothing /\ ui'.form.no = used'.acts
<1>1. IsPage(ui) /\ IsUse(used) /\ focused \in BOOLEAN  BY DEF Truth, Types
<1>2. UNCHANGED <<flags, posted, entry, answer, stale, calls, seen>>  BY DEF Type, Blur, FillIn
<1>3. /\ IsUse(used') /\ used'.ids = used.ids /\ IsPage(ui') /\ focused' \in BOOLEAN
      /\ \/ ui' = ui /\ used'.acts = used.acts
         \/ /\ used'.acts = used.acts + 1
            /\ ui'.text = used'.acts /\ ui'.form = ui.form
         \/ /\ used'.acts = used.acts + 1
            /\ ui'.text = ui.text /\ ui.form = Nothing /\ ui'.form.no = used'.acts
  <2>1. CASE Type
    <3>1. IsUse(used') /\ used'.acts = used.acts + 1 /\ used'.ids = used.ids
      BY <1>1, <2>1, UseGrows DEF Type
    <3>2. used'.acts \in Nat  BY <3>1 DEF IsUse
    <3>3. ui' = [ui EXCEPT !.text = used'.acts] /\ focused' = focused  BY <2>1 DEF Type
    <3>4. IsPage(ui') /\ ui'.text = used'.acts /\ ui'.form = ui.form
      BY <1>1, <3>2, <3>3 DEF IsPage
    <3> QED  BY <1>1, <3>1, <3>3, <3>4
  <2>2. CASE Blur
    <3>1. IsUse(used') /\ used'.acts = used.acts /\ used'.ids = used.ids
      BY <1>1, <2>2, UseGrows DEF Blur, IsUse
    <3> QED  BY <1>1, <2>2, <3>1 DEF Blur
  <2>3. ASSUME NEW m \in Members, FillIn(m)
        PROVE  /\ IsUse(used') /\ used'.ids = used.ids /\ IsPage(ui') /\ focused' \in BOOLEAN
               /\ used'.acts = used.acts + 1
               /\ ui'.text = ui.text /\ ui.form = Nothing /\ ui'.form.no = used'.acts
    <3>1. IsUse(used') /\ used'.acts = used.acts + 1 /\ used'.ids = used.ids
      BY <1>1, <2>3, UseGrows DEF FillIn
    <3> DEFINE form == [who |-> m, no |-> used'.acts]
    <3>2. IsForm(form) /\ form.no = used'.acts  BY <3>1 DEF IsForm, IsUse
    <3>3. ui' = [ui EXCEPT !.form = form] /\ focused' = focused /\ ui.form = Nothing
      BY <2>3 DEF FillIn
    <3> HIDE DEF form
    <3>4. IsPage(ui') /\ ui'.text = ui.text /\ ui'.form = form
      BY <1>1, <3>2, <3>3 DEF IsPage
    <3> QED  BY <1>1, <3>1, <3>2, <3>3, <3>4
  <2> QED  BY <2>1, <2>2, <2>3
<1>4. Types'  BY <1>2, <1>3 DEF Truth, Types
<1>5. Told'  BY <1>2, <1>3 DEF Truth, Told, IsDone, Quiet, NotBehind
<1> QED  BY <1>1, <1>2, <1>3, <1>4, <1>5 DEF Truth, IsUse

-----------------------------------------------------------------------------
(* The requests.                                                           *)

LEMMA FlagTyped ==
    ASSUME Types, NEW m \in Members
    PROVE  /\ Len(flags[m]) \in Nat \ {0} /\ Flag(m) \in BOOLEAN
           /\ Flag(m) = flags[m][Len(flags[m])]
<1>1. flags[m] \in Seq(BOOLEAN) /\ flags[m] # <<>>  BY DEF Types
<1>2. Len(flags[m]) \in Nat \ {0}  BY <1>1
<1> QED  BY <1>1, <1>2 DEF Flag

LEMMA AppendTyped ==
    ASSUME Types, NEW m \in Members, NEW v \in BOOLEAN,
           flags' = [flags EXCEPT ![m] = Append(flags[m], v)]
    PROVE  /\ DOMAIN flags' = Members
           /\ \A n \in Members :
                 /\ flags'[n] \in Seq(BOOLEAN) /\ flags'[n] # <<>>
                 /\ Len(flags[n]) \in Nat /\ Len(flags'[n]) \in Nat
                 /\ Len(flags[n]) <= Len(flags'[n])
                 /\ \A i \in 1..Len(flags[n]) : flags'[n][i] = flags[n][i]
           /\ Len(flags'[m]) = Len(flags[m]) + 1
<1> DEFINE s == flags[m]
           r == Append(s, v)
<1>1. s \in Seq(BOOLEAN) /\ DOMAIN flags = Members  BY DEF Types
<1> HIDE DEF s
<1>2. /\ r \in Seq(BOOLEAN) /\ Len(r) = Len(s) + 1 /\ Len(s) \in Nat
      /\ \A i \in 1..Len(s) : r[i] = s[i]
  BY <1>1
<1>3. r # <<>>  BY <1>2
<1>4. flags' = [flags EXCEPT ![m] = r] /\ flags[m] = s  BY DEF s
<1> HIDE DEF r
<1>5. flags'[m] = r /\ \A n \in Members \ {m} : flags'[n] = flags[n]  BY <1>1, <1>4
<1>6. \A n \in Members : flags[n] \in Seq(BOOLEAN) /\ flags[n] # <<>>  BY DEF Types
<1>7. \A n \in Members : Len(flags[n]) \in Nat  BY <1>6
<1>8. DOMAIN flags' = Members  BY <1>1, <1>4
<1>9. \A n \in Members : Len(flags[n]) <= Len(flags'[n])
  <2>1. ASSUME NEW n \in Members PROVE Len(flags[n]) <= Len(flags'[n])
    <3>1. CASE n = m  BY <1>2, <1>4, <1>5, <3>1
    <3>2. CASE n # m  BY <1>5, <1>7, <3>2
    <3> QED  BY <3>1, <3>2
  <2> QED  BY <2>1
<1>10. ASSUME NEW n \in Members
       PROVE  /\ flags'[n] \in Seq(BOOLEAN) /\ flags'[n] # <<>>
              /\ Len(flags'[n]) \in Nat
              /\ \A i \in 1..Len(flags[n]) : flags'[n][i] = flags[n][i]
  <2>1. CASE n = m
    <3>1. flags'[n] = r /\ flags[n] = s  BY <1>4, <1>5, <2>1
    <3>2. Len(r) \in Nat  BY <1>2
    <3> QED  BY <1>2, <1>3, <3>1, <3>2
  <2>2. CASE n # m  BY <1>5, <1>6, <1>7, <2>2
  <2> QED  BY <2>1, <2>2
<1> QED  BY <1>2, <1>4, <1>5, <1>7, <1>8, <1>9, <1>10

(* What was recent still is when flags are written.                        *)
LEMMA StillRecent ==
    ASSUME NEW sn, NEW fl, NEW fm,
           \A m \in Members :
              /\ Len(fl[m]) \in Nat /\ Len(fm[m]) \in Nat
              /\ Len(fl[m]) <= Len(fm[m]) /\ sn.flag[m] \in 1..Len(fl[m])
              /\ \A i \in 1..Len(fl[m]) : fm[m][i] = fl[m][i],
           NEW k, NEW data, Recent(sn, fl, k, data)
    PROVE  Recent(sn, fm, k, data)
<1>1. ASSUME NEW m \in Members, NEW value, RecentFlag(sn, fl, m, value)
      PROVE  RecentFlag(sn, fm, m, value)
  <2>1. PICK i \in sn.flag[m]..Len(fl[m]) : value = fl[m][i]  BY <1>1 DEF RecentFlag
  <2>2. /\ Len(fl[m]) \in Nat /\ Len(fm[m]) \in Nat
        /\ Len(fl[m]) <= Len(fm[m]) /\ sn.flag[m] \in 1..Len(fl[m])
        /\ \A j \in 1..Len(fl[m]) : fm[m][j] = fl[m][j]
    OBVIOUS
  <2>3. i \in 1..Len(fl[m]) /\ i \in sn.flag[m]..Len(fm[m])  BY <2>1, <2>2
  <2>4. value = fm[m][i]  BY <2>1, <2>2, <2>3
  <2> QED  BY <2>3, <2>4 DEF RecentFlag
<1>2. CASE k = "members"  BY <1>1, <1>2 DEF Recent
<1>3. CASE k # "members" /\ k \in Members  BY <1>1, <1>3 DEF Recent
<1>4. CASE k # "members" /\ k \notin Members  BY <1>4 DEF Recent
<1> QED  BY <1>2, <1>3, <1>4

LEMMA ReadIsRecent ==
    ASSUME Truth, NEW k \in Queries
    PROVE  Read(k) \in DataOf(k) /\ Recent(seen, flags, k, Read(k))
<1>1. ASSUME NEW m \in Members PROVE RecentFlag(seen, flags, m, Flag(m))
  <2>1. seen.flag[m] \in 1..Len(flags[m]) /\ Len(flags[m]) \in Nat \ {0}
    BY FlagTyped DEF Truth, Told
  <2>2. Len(flags[m]) \in seen.flag[m]..Len(flags[m])  BY <2>1
  <2> QED  BY <2>2, FlagTyped DEF Truth, RecentFlag
<1>2. \A m \in Members : Flag(m) \in BOOLEAN  BY FlagTyped DEF Truth
<1>3. CASE k = "members"  BY <1>1, <1>2, <1>3 DEF Read, DataOf, Recent
<1>4. CASE k # "members" /\ k \in Members  BY <1>1, <1>2, <1>4 DEF Read, DataOf, Recent
<1>5. CASE k # "members" /\ k \notin Members
  BY <1>5 DEF Read, DataOf, Recent, Truth, Types, Told
<1> QED  BY <1>3, <1>4, <1>5

LEMMA ReadsStep ==
    ASSUME Truth, NEW k \in Queries, ServerReads(k)
    PROVE  Truth' /\ UNCHANGED <<posted, calls, ui, seen, used>>
<1>1. /\ answer' = [answer EXCEPT ![k] = Read(k)]
      /\ UNCHANGED <<flags, posted, entry, stale, calls, ui, focused, seen, used>>
  BY DEF ServerReads
<1>2. Read(k) \in DataOf(k) /\ Recent(seen, flags, k, Read(k))  BY ReadIsRecent
<1>3. DOMAIN answer = Queries  BY DEF Truth, Types
<1>4. /\ DOMAIN answer' = Queries /\ answer'[k] = Read(k)
      /\ \A l \in Queries \ {k} : answer'[l] = answer[l]
  BY <1>1, <1>3
<1>5. \A l \in Queries : answer'[l] = Nothing \/ answer'[l] \in DataOf(l)
  BY <1>2, <1>4 DEF Truth, Types
<1>6. ASSUME NEW l \in Queries
      PROVE  NotBehind(l, entry', answer', stale', calls', seen', flags')
  <2>1. NotBehind(l, entry, answer, stale, calls, seen, flags)  BY DEF Truth, Told
  <2>2. CASE l = k  BY <1>1, <1>2, <1>4, <2>1, <2>2 DEF NotBehind
  <2>3. CASE l # k  BY <1>1, <1>4, <2>1, <2>3 DEF NotBehind
  <2> QED  BY <2>2, <2>3
<1>7. Types'  BY <1>1, <1>4, <1>5 DEF Truth, Types
<1>8. Told'  BY <1>1, <1>6 DEF Truth, Told, IsDone, Quiet
<1> QED  BY <1>1, <1>7, <1>8 DEF Truth

LEMMA QueryStep ==
    ASSUME Truth, NEW k \in Queries, QueryAnswered(k)
    PROVE  Truth' /\ ui' = ui /\ calls' = calls /\ UNCHANGED <<posted, seen, used>>
<1> DEFINE e == Loaded(answer[k])
           ent == [entry EXCEPT ![k] = e]
<1>1. /\ answer[k] # Nothing /\ Settle(ent, calls, stale, ui, {})
      /\ UNCHANGED <<flags, posted, focused, seen, used>>
  BY DEF QueryAnswered
<1>2. /\ IsCache(entry) /\ IsPage(ui) /\ focused \in BOOLEAN /\ IsUse(used) /\ IsSeen(seen)
      /\ stale \subseteq Queries /\ seen.posts \subseteq posted
      /\ \A m \in Members : seen.flag[m] \in 1..Len(flags[m])
      /\ \A c \in calls : IsCall(c) /\ IsDone(c)
      /\ answer[k] \in DataOf(k)
  BY <1>1 DEF Truth, Types, Told
<1>3. IsEntry(k, e) /\ e.data = answer[k]  BY <1>2 DEF Loaded, IsEntry
<1> HIDE DEF e
<1>4. IsCache(ent) /\ ent[k] = e /\ \A l \in Queries \ {k} : ent[l] = entry[l]
  BY <1>2, <1>3, ChangedEntry
<1> HIDE DEF ent
<1>5. ASSUME NEW l \in Queries
      PROVE  NotBehind(l, ent, answer, stale, calls \cup {}, seen, flags)
  <2>1. NotBehind(l, entry, answer, stale, calls, seen, flags)  BY DEF Truth, Told
  <2>2. CASE l = k  BY <1>1, <1>3, <1>4, <2>1, <2>2 DEF NotBehind
  <2>3. CASE l # k  BY <1>4, <2>1, <2>3 DEF NotBehind
  <2> QED  BY <2>2, <2>3
<1>6. Settling(ent, calls, stale, ui, {})  BY <1>2, <1>4 DEF Settling
<1>7. used'.ids >= used.ids  BY <1>1, <1>2 DEF IsUse
<1>8. Truth' /\ ui' = ui /\ Sends(calls, {})  BY <1>1, <1>2, <1>5, <1>6, <1>7, SettleStep
<1> QED  BY <1>1, <1>8 DEF Sends

LEMMA ExpireStep ==
    ASSUME Truth, NEW k \in Queries, Expire(k)
    PROVE  /\ Truth' /\ UNCHANGED <<posted, calls, ui, seen>>
           /\ used'.acts = used.acts /\ used'.ids = used.ids
<1>1. /\ entry[k].status # "pending" /\ entry' = [entry EXCEPT ![k] = Absent]
      /\ UNCHANGED <<flags, posted, answer, stale, calls, ui, focused, seen>>
      /\ Use("turmoil", MaxTurmoil)
  BY DEF Expire
<1>2. IsCache(entry) /\ IsUse(used)  BY DEF Truth, Types
<1>3. IsUse(used') /\ used'.acts = used.acts /\ used'.ids = used.ids
  BY <1>1, <1>2, UseGrows DEF IsUse
<1>4. IsEntry(k, Absent) /\ Absent.status = "uninitialized"  BY <1>2, AgainTyped DEF IsCache
<1>5. IsCache(entry') /\ entry'[k] = Absent /\ \A l \in Queries \ {k} : entry'[l] = entry[l]
  <2> DEFINE e == Absent
             ent == [entry EXCEPT ![k] = e]
  <2> HIDE DEF e
  <2>1. IsCache(ent) /\ ent[k] = e /\ \A l \in Queries \ {k} : ent[l] = entry[l]
    BY <1>2, <1>4, ChangedEntry DEF e
  <2>2. entry' = ent  BY <1>1 DEF e
  <2> HIDE DEF ent
  <2> QED  BY <2>1, <2>2 DEF e
<1>6. ASSUME NEW l \in Queries
      PROVE  NotBehind(l, entry', answer', stale', calls', seen', flags')
  <2>1. NotBehind(l, entry, answer, stale, calls, seen, flags)  BY DEF Truth, Told
  <2> QED  BY <1>1, <1>4, <1>5, <2>1 DEF NotBehind
<1>7. Quiet(entry', calls') => Quiet(entry, calls)
  BY <1>1, <1>2, <1>5 DEF Quiet, IsCache
<1>8. Types'  BY <1>1, <1>3, <1>5 DEF Truth, Types
<1>9. Told'  BY <1>1, <1>3, <1>6, <1>7 DEF Truth, Told, IsDone
<1> QED  BY <1>1, <1>3, <1>8, <1>9 DEF Truth

LEMMA ForeignStep ==
    ASSUME Truth, NEW m \in Members, ForeignToggle(m)
    PROVE  /\ Truth' /\ UNCHANGED <<posted, calls, ui, seen>>
           /\ used'.acts = used.acts /\ used'.ids = used.ids
<1> DEFINE v == ~Flag(m)
<1>1. /\ flags' = [flags EXCEPT ![m] = Append(flags[m], v)]
      /\ UNCHANGED <<posted, entry, answer, stale, calls, ui, focused, seen>>
      /\ Use("turmoil", MaxTurmoil)
  BY DEF ForeignToggle
<1>2. v \in BOOLEAN /\ IsUse(used) /\ Types  BY FlagTyped DEF Truth, Types
<1> HIDE DEF v
<1>3. IsUse(used') /\ used'.acts = used.acts /\ used'.ids = used.ids
  BY <1>1, <1>2, UseGrows DEF IsUse
<1>4. /\ DOMAIN flags' = Members
      /\ \A n \in Members :
            /\ flags'[n] \in Seq(BOOLEAN) /\ flags'[n] # <<>>
            /\ Len(flags[n]) \in Nat /\ Len(flags'[n]) \in Nat
            /\ Len(flags[n]) <= Len(flags'[n])
            /\ \A i \in 1..Len(flags[n]) : flags'[n][i] = flags[n][i]
  BY <1>1, <1>2, AppendTyped
<1>5. \A n \in Members : seen.flag[n] \in 1..Len(flags[n])  BY DEF Truth, Told
<1>6. ASSUME NEW l \in Queries
      PROVE  NotBehind(l, entry', answer', stale', calls', seen', flags')
  <2>1. NotBehind(l, entry, answer, stale, calls, seen, flags)  BY DEF Truth, Told
  <2> DEFINE fm == flags'
  <2>2. \A n \in Members :
           /\ Len(flags[n]) \in Nat /\ Len(fm[n]) \in Nat
           /\ Len(flags[n]) <= Len(fm[n]) /\ seen.flag[n] \in 1..Len(flags[n])
           /\ \A i \in 1..Len(flags[n]) : fm[n][i] = flags[n][i]
    BY <1>4, <1>5
  <2> HIDE DEF fm
  <2>3. \A data : Recent(seen, flags, l, data) => Recent(seen, fm, l, data)
    BY <2>2, StillRecent
  <2>4. NotBehind(l, entry, answer, stale, calls, seen, fm)  BY <2>1, <2>3 DEF NotBehind
  <2> QED  BY <1>1, <2>4 DEF fm
<1>7. ASSUME NEW n \in Members PROVE seen'.flag[n] \in 1..Len(flags'[n])
  BY <1>1, <1>4, <1>5
<1>8. ASSUME NEW c \in calls' PROVE IsDone(c)'
  <2>1. c \in calls /\ IsCall(c) /\ IsDone(c)  BY <1>1 DEF Truth, Types, Told
  <2>2. c.kind = "toggle" => c.who \in Members  BY <2>1 DEF IsCall, IsBare
  <2>3. c.kind = "toggle" /\ c.at = "done" => c.rev \in 1..Len(flags'[c.who])
    BY <1>4, <2>1, <2>2 DEF IsDone
  <2> QED  BY <1>1, <1>3, <2>1, <2>3 DEF IsDone
<1>9. Types'  BY <1>1, <1>2, <1>3, <1>4 DEF Types
<1>10. Told'  BY <1>1, <1>3, <1>6, <1>7, <1>8 DEF Truth, Told, Quiet
<1> QED  BY <1>1, <1>3, <1>9, <1>10 DEF Truth

(* The call that the server has done.                                      *)
WasDone(e, c) ==
    /\ IsCall(e) /\ e.at = "done" /\ Invalidates(e) = Invalidates(c)
    /\ e.kind = c.kind /\ e.here = c.here /\ e.no = c.no /\ e.to = c.to /\ e.who = c.who

LEMMA DoneTyped ==
    ASSUME NEW c, IsCall(c), NEW rev \in Nat
    PROVE  LET e == [c EXCEPT !.at = "done", !.rev = rev]
           IN WasDone(e, c) /\ e.rev = rev
<1> DEFINE e == [c EXCEPT !.at = "done", !.rev = rev]
<1>1. /\ DOMAIN e = DOMAIN c /\ e.at = "done" /\ e.rev = rev
      /\ e.kind = c.kind /\ e.here = c.here /\ e.no = c.no /\ e.to = c.to /\ e.who = c.who
      /\ e.value = c.value /\ e.undo = c.undo
  BY DEF IsCall, IsBare
<1> HIDE DEF e
<1>2. IsCall(e)  BY <1>1 DEF IsCall, IsBare
<1>3. Invalidates(e) = Invalidates(c)  BY <1>1 DEF Invalidates
<1> QED  BY <1>1, <1>2, <1>3 DEF WasDone, e

ToggleDone(c) ==
    /\ c.kind = "toggle" /\ UNCHANGED <<posted, used>>
    /\ \E e : WasDone(e, c) /\ calls' = (calls \ {c}) \cup {e}

PostDone(c) ==
    /\ c.kind # "toggle" /\ used'.acts = used.acts /\ used'.ids = used.ids + 1
    /\ posted' = posted \cup {[no |-> c.no, id |-> used'.ids, to |-> c.to]}
    /\ \E e : WasDone(e, c) /\ calls' = (calls \ {c}) \cup {e}

LEMMA ToggleDoneStep ==
    ASSUME Truth, NEW c \in calls, ServerDoes(c), c.kind = "toggle"
    PROVE  Truth' /\ UNCHANGED <<ui, seen>> /\ c.at = "sent" /\ ToggleDone(c)
<1> DEFINE m == c.who
           v == c.value
           n == Len(flags'[m])
           e == [c EXCEPT !.at = "done", !.rev = n]
<1>1. /\ flags' = [flags EXCEPT ![m] = Append(flags[m], v)] /\ c.at = "sent"
      /\ calls' = (calls \ {c}) \cup {e}
      /\ UNCHANGED <<posted, used, entry, answer, stale, ui, focused, seen>>
  BY DEF ServerDoes
<1>2. /\ Types /\ IsCall(c) /\ m \in Members /\ v \in BOOLEAN
      /\ \A d \in calls : IsCall(d) /\ IsDone(d)
  BY DEF Truth, Types, Told, IsCall, IsBare
<1> HIDE DEF m, v
<1>3. /\ DOMAIN flags' = Members
      /\ \A k \in Members :
            /\ flags'[k] \in Seq(BOOLEAN) /\ flags'[k] # <<>>
            /\ Len(flags[k]) \in Nat /\ Len(flags'[k]) \in Nat
            /\ Len(flags[k]) <= Len(flags'[k])
            /\ \A i \in 1..Len(flags[k]) : flags'[k][i] = flags[k][i]
      /\ Len(flags'[m]) = Len(flags[m]) + 1
  BY <1>1, <1>2, AppendTyped
<1>4. n \in 1..Len(flags'[m]) /\ n \in Nat  BY <1>2, <1>3
<1>5. WasDone(e, c) /\ e.rev = n  BY <1>2, <1>4, DoneTyped
<1> HIDE DEF e, n
<1>6. \A l \in Members : seen.flag[l] \in 1..Len(flags[l])  BY DEF Truth, Told
<1>7. ASSUME NEW k \in Queries
      PROVE  NotBehind(k, entry', answer', stale', calls', seen', flags')
  <2>1. NotBehind(k, entry, answer, stale, calls, seen, flags)  BY DEF Truth, Told
  <2> DEFINE fm == flags'
  <2>2. \A l \in Members :
           /\ Len(flags[l]) \in Nat /\ Len(fm[l]) \in Nat
           /\ Len(flags[l]) <= Len(fm[l]) /\ seen.flag[l] \in 1..Len(flags[l])
           /\ \A i \in 1..Len(flags[l]) : fm[l][i] = flags[l][i]
    BY <1>3, <1>6
  <2> HIDE DEF fm
  <2>3. \A data : Recent(seen, flags, k, data) => Recent(seen, fm, k, data)
    BY <2>2, StillRecent
  <2>4. (\E d \in calls : k \in Invalidates(d)) => \E d \in calls' : k \in Invalidates(d)
    BY <1>1, <1>5 DEF WasDone
  <2>5. NotBehind(k, entry, answer, stale, calls', seen, fm)  BY <2>1, <2>3, <2>4 DEF NotBehind
  <2> QED  BY <1>1, <2>5 DEF fm
<1>8. ASSUME NEW l \in Members PROVE seen'.flag[l] \in 1..Len(flags'[l])
  BY <1>1, <1>3, <1>6
<1>9. ASSUME NEW d \in calls' PROVE IsCall(d) /\ IsDone(d)'
  <2>1. CASE d = e
    <3>1. d.who = m /\ d.kind = "toggle" /\ d.rev = n  BY <1>5, <2>1 DEF WasDone, m
    <3> QED  BY <1>4, <1>5, <2>1, <3>1 DEF IsDone, WasDone
  <2>2. CASE d # e
    <3>1. IsCall(d) /\ IsDone(d)  BY <1>1, <1>2, <2>2
    <3>2. d.kind = "toggle" => d.who \in Members  BY <3>1 DEF IsCall, IsBare
    <3>3. d.kind = "toggle" /\ d.at = "done" => d.rev \in 1..Len(flags'[d.who])
      BY <1>3, <3>1, <3>2 DEF IsDone
    <3> QED  BY <1>1, <3>1, <3>3 DEF IsDone
  <2> QED  BY <2>1, <2>2
<1>10. calls' # {}  BY <1>1
<1>11. Types'  BY <1>1, <1>2, <1>3, <1>9 DEF Types
<1>12. Told'  BY <1>1, <1>7, <1>8, <1>9, <1>10 DEF Truth, Told, Quiet
<1> QED  BY <1>1, <1>5, <1>11, <1>12 DEF Truth, ToggleDone

LEMMA PostDoneStep ==
    ASSUME Truth, NEW c \in calls, ServerDoes(c), c.kind # "toggle"
    PROVE  Truth' /\ UNCHANGED <<ui, seen>> /\ c.at = "sent" /\ PostDone(c)
<1> DEFINE n == used.ids + 1
           post == [no |-> c.no, id |-> n, to |-> c.to]
           e == [c EXCEPT !.at = "done", !.rev = n]
<1>1. /\ used' = [used EXCEPT !.ids = n] /\ c.at = "sent"
      /\ posted' = posted \cup {[no |-> c.no, id |-> used'.ids, to |-> c.to]}
      /\ calls' = (calls \ {c}) \cup {[c EXCEPT !.at = "done", !.rev = used'.ids]}
      /\ UNCHANGED <<flags, entry, answer, stale, ui, focused, seen>>
  BY DEF ServerDoes
<1>2. /\ Types /\ IsCall(c) /\ IsUse(used) /\ used.ids \in Nat
      /\ \A d \in calls : IsCall(d) /\ IsDone(d)
      /\ \A p \in posted : p \in Post /\ p.id \in Nat /\ p.id <= used.ids
  BY DEF Truth, Types, Told, IsUse, Post
<1>3. /\ IsUse(used') /\ used'.acts = used.acts /\ used'.ids = n /\ n \in Nat
  BY <1>1, <1>2 DEF IsUse
<1>4. c.to \in Queries /\ c.no \in Nat  BY <1>2 DEF IsCall, IsBare, Queries
<1>5. WasDone(e, c) /\ e.rev = n  BY <1>2, <1>3, DoneTyped
<1>6. post \in Post /\ post.id = n /\ post.to = c.to  BY <1>3, <1>4 DEF Post
<1>7. /\ posted' = posted \cup {post}
      /\ calls' = (calls \ {c}) \cup {e}
  BY <1>1, <1>3
<1> HIDE DEF e, post
<1>8. n = used.ids + 1 /\ used.ids <= n  BY <1>2
<1> HIDE DEF n
<1>9. ASSUME NEW k \in Queries
      PROVE  NotBehind(k, entry', answer', stale', calls', seen', flags')
  <2>1. NotBehind(k, entry, answer, stale, calls, seen, flags)  BY DEF Truth, Told
  <2>2. (\E d \in calls : k \in Invalidates(d)) => \E d \in calls' : k \in Invalidates(d)
    BY <1>5, <1>7 DEF WasDone
  <2>3. NotBehind(k, entry, answer, stale, calls', seen, flags)  BY <2>1, <2>2 DEF NotBehind
  <2> QED  BY <1>1, <2>3
<1>10. ASSUME NEW p \in posted' PROVE p \in Post /\ p.id <= used'.ids
  <2>1. CASE p = post  BY <1>3, <1>6, <2>1
  <2>2. CASE p \in posted  BY <1>2, <1>3, <1>8, <2>2
  <2> QED  BY <1>7, <2>1, <2>2
<1>11. ASSUME NEW d \in calls' PROVE IsCall(d) /\ IsDone(d)'
  <2>1. CASE d = e
    <3>1. d.kind # "toggle" /\ d.to = c.to /\ d.rev = n  BY <1>5, <2>1 DEF WasDone
    <3>2. \A p \in posted' : p.id = n => p.to = c.to  BY <1>2, <1>6, <1>7, <1>8
    <3> QED  BY <1>3, <1>5, <2>1, <3>1, <3>2 DEF IsDone, WasDone
  <2>2. CASE d # e
    <3>1. IsCall(d) /\ IsDone(d)  BY <1>2, <1>7, <2>2
    <3>2. d.rev \in Nat  BY <3>1 DEF IsCall, IsBare
    <3>3. d.at = "done" /\ d.kind # "toggle" =>
             d.rev <= used'.ids /\ \A p \in posted' : p.id = d.rev => p.to = d.to
      BY <1>2, <1>3, <1>6, <1>7, <1>8, <3>1, <3>2 DEF IsDone
    <3> QED  BY <1>1, <3>1, <3>3 DEF IsDone
  <2> QED  BY <2>1, <2>2
<1>12. calls' # {}  BY <1>7
<1>13. Types'  BY <1>1, <1>2, <1>3, <1>10, <1>11 DEF Types
<1>14. Told'  BY <1>1, <1>7, <1>9, <1>10, <1>11, <1>12 DEF Truth, Told, Quiet
<1> QED  BY <1>1, <1>3, <1>5, <1>7, <1>8, <1>13, <1>14 DEF Truth, PostDone

LEMMA PageAfterTyped ==
    ASSUME IsPage(ui), NEW c
    PROVE  /\ IsPage(PageAfter(c))
           /\ c.kind = "comment" /\ c.here =>
                 PageAfter(c).text = 0 /\ PageAfter(c).form = ui.form
           /\ c.kind = "create" => PageAfter(c).text = 0 /\ PageAfter(c).form = Nothing
           /\ c.kind # "create" /\ ~(c.kind = "comment" /\ c.here) => PageAfter(c) = ui
<1>1. IsPage([ui EXCEPT !.text = 0])  BY DEF IsPage
<1>2. /\ [ui EXCEPT !.text = 0].text = 0 /\ [ui EXCEPT !.text = 0].form = ui.form
  BY DEF IsPage
<1>3. NewPage("ticket", Nothing) \in Pages  BY DEF Pages
<1>4. /\ IsPage(NewPage("ticket", Nothing))
      /\ NewPage("ticket", Nothing).text = 0 /\ NewPage("ticket", Nothing).form = Nothing
  BY <1>3, NewPageTyped
<1>5. CASE c.kind = "comment" /\ c.here  BY <1>1, <1>2, <1>5 DEF PageAfter
<1>6. CASE c.kind = "create"  BY <1>4, <1>6 DEF PageAfter
<1>7. CASE c.kind # "create" /\ ~(c.kind = "comment" /\ c.here)  BY <1>7 DEF PageAfter
<1> QED  BY <1>5, <1>6, <1>7

LEMMA AnsweredStep ==
    ASSUME Truth, NEW c \in calls, Answered(c)
    PROVE  /\ Truth' /\ UNCHANGED <<posted, used>> /\ seen'.lost = seen.lost /\ c.at = "done"
           /\ ui' = PageAfter(c) /\ calls' = CallsAfter(c)
<1> DEFINE ent == Confirmed(c, entry)
           cs == CallsAfter(c)
           tags == stale \cup Invalidates(c)
           u == PageAfter(c)
           conf == [seen.flag EXCEPT
                       ![c.who] = IF c.rev > seen.flag[c.who] THEN c.rev ELSE seen.flag[c.who]]
           mine == {p \in posted : p.id = c.rev}
           posts == seen.posts \cup mine
<1>1. /\ c.at = "done" /\ Settle(ent, cs, tags, u, {})
      /\ seen' = IF c.kind = "toggle" THEN [seen EXCEPT !.flag = conf]
                 ELSE [seen EXCEPT !.posts = posts]
      /\ UNCHANGED <<flags, posted, focused, used>>
  BY DEF Answered
<1>2. /\ IsCall(c) /\ IsBare(c) /\ IsDone(c) /\ IsCache(entry) /\ IsPage(ui) /\ IsUse(used)
      /\ IsSeen(seen) /\ stale \subseteq Queries /\ focused \in BOOLEAN
      /\ posted \subseteq Post
      /\ seen.posts \subseteq posted
      /\ \A m \in Members : seen.flag[m] \in 1..Len(flags[m]) /\ Len(flags[m]) \in Nat
      /\ \A d \in calls : IsCall(d) /\ IsDone(d)
  BY FlagTyped DEF Truth, Types, Told, IsCall
<1>3. IsCache(ent) /\ \A k \in Queries \ tags : ent[k] = entry[k]  BY <1>2, AfterTyped
<1>4. IsPage(u)  BY <1>2, PageAfterTyped
<1>5. /\ \A d \in cs : IsCall(d) /\ IsDone(d)
      /\ \A d \in calls \ {c} : \E e \in cs : Invalidates(e) = Invalidates(d)
  BY <1>2, OrphanTyped DEF CallsAfter
<1>6. tags \subseteq Queries /\ Invalidates(c) \subseteq tags /\ stale \subseteq tags
  BY <1>2, HitsTyped
<1>7. Settling(ent, cs, tags, u, {})  BY <1>3, <1>4, <1>5, <1>6 DEF Settling
<1>8. \A d \in calls :
         Invalidates(d) \subseteq tags \/ \E e \in cs : Invalidates(e) = Invalidates(d)
  BY <1>5, <1>6
<1> HIDE DEF ent, cs, u
<1>9. /\ IsSeen(seen') /\ seen'.posts \subseteq posted /\ seen'.lost = seen.lost
      /\ \A m \in Members : seen'.flag[m] \in 1..Len(flags[m])
      /\ \A k \in Queries \ tags : \A data :
            Recent(seen, flags, k, data) => Recent(seen', flags, k, data)
  <2>1. CASE c.kind = "toggle"
    <3>1. seen' = [seen EXCEPT !.flag = conf]  BY <1>1, <2>1
    <3>2. c.who \in Members /\ c.rev \in 1..Len(flags[c.who])
      BY <1>1, <1>2, <2>1 DEF IsBare, IsDone
    <3>3. seen.flag \in [Members -> Nat]  BY <1>2 DEF IsSeen
    <3>4. conf \in [Members -> Nat] /\ \A m \in Members : conf[m] \in 1..Len(flags[m])
      BY <1>2, <3>2, <3>3
    <3> HIDE DEF conf
    <3>5. /\ IsSeen(seen') /\ seen'.posts = seen.posts /\ seen'.lost = seen.lost
          /\ seen'.flag = conf
      BY <1>2, <3>1, <3>4 DEF IsSeen
    <3>6. \A k \in Queries \ tags : k # "members" /\ k \notin Members
      BY <1>6, <2>1 DEF Invalidates
    <3> HIDE DEF tags
    <3>7. \A k \in Queries \ tags : \A data :
             Recent(seen, flags, k, data) => Recent(seen', flags, k, data)
      BY <3>5, <3>6 DEF Recent
    <3> QED  BY <1>2, <3>4, <3>5, <3>7
  <2>2. CASE c.kind # "toggle"
    <3>1. seen' = [seen EXCEPT !.posts = posts]  BY <1>1, <2>2
    <3>2. mine \subseteq posted /\ \A p \in mine : p.to = c.to
      BY <1>1, <1>2, <2>2 DEF IsDone
    <3>3. posts \subseteq posted /\ posts \in SUBSET Post  BY <1>2, <3>2
    <3>4. posts = seen.posts \cup mine  OBVIOUS
    <3> HIDE DEF posts, mine
    <3>5. /\ IsSeen(seen') /\ seen'.posts = posts /\ seen'.lost = seen.lost
          /\ seen'.flag = seen.flag
      BY <1>2, <3>1, <3>3 DEF IsSeen
    <3>6. \A k \in Queries \ tags : k # c.to  BY <1>2, <1>6, <2>2, HitsTyped
    <3> HIDE DEF tags
    <3>7. ASSUME NEW k \in Queries \ tags, NEW data, Recent(seen, flags, k, data)
          PROVE  Recent(seen', flags, k, data)
      <4>1. {p \in posts : p.to = k} = {p \in seen.posts : p.to = k}  BY <3>2, <3>4, <3>6
      <4>2. \A m, value : RecentFlag(seen, flags, m, value) => RecentFlag(seen', flags, m, value)
        BY <3>5 DEF RecentFlag
      <4> QED  BY <3>5, <3>7, <4>1, <4>2 DEF Recent
    <3> QED  BY <1>2, <3>3, <3>5, <3>7
  <2> QED  BY <2>1, <2>2
<1>10. /\ IsUse(used') /\ used'.ids >= used.ids /\ focused' \in BOOLEAN
  BY <1>1, <1>2 DEF IsUse
<1>11. \A k \in Queries \ tags : ent[k] = entry[k] \/ ent[k].status # "ok"  BY <1>3
<1> HIDE DEF tags
<1>12. Truth' /\ ui' = u /\ Sends(cs, {})
  BY <1>1, <1>5, <1>6, <1>7, <1>8, <1>9, <1>10, <1>11, EndStep
<1> QED  BY <1>1, <1>9, <1>12 DEF Sends, cs, u

LEMMA CountTyped ==
    ASSUME NEW S, NEW f \in [S -> Nat], NEW n
    PROVE  [f EXCEPT ![n] = f[n] + 1] \in [S -> Nat]
<1>1. CASE n \in S  BY <1>1
<1>2. CASE n \notin S
  <2>1. [f EXCEPT ![n] = f[n] + 1] = [m \in S |-> f[m]]  BY <1>2
  <2> QED  BY <2>1
<1> QED  BY <1>1, <1>2

LEMMA FailsStep ==
    ASSUME Truth, NEW c \in calls, Fails(c)
    PROVE  /\ Truth' /\ UNCHANGED <<posted, ui>> /\ calls' = calls \ {c}
           /\ used'.acts = used.acts /\ used'.ids = used.ids
           /\ seen'.lost = IF c.at = "done" /\ c.kind # "toggle"
                           THEN [seen.lost EXCEPT ![c.no] = seen.lost[c.no] + 1]
                           ELSE seen.lost
<1> DEFINE ent == TakenBack(c, entry)
           cs == calls \ {c}
           tags == stale \cup Invalidates(c)
           more == [seen.lost EXCEPT ![c.no] = seen.lost[c.no] + 1]
           lost == IF c.at = "done" /\ c.kind # "toggle" THEN more ELSE seen.lost
<1>1. /\ Settle(ent, cs, tags, ui, {})
      /\ seen' = IF c.at = "done" /\ c.kind # "toggle"
                 THEN [seen EXCEPT !.lost = more] ELSE seen
      /\ UNCHANGED <<flags, posted, focused>>
      /\ UNCHANGED used \/ Use("turmoil", MaxTurmoil)
  BY DEF Fails
<1>2. /\ IsCall(c) /\ IsCache(entry) /\ IsPage(ui) /\ IsUse(used)
      /\ IsSeen(seen) /\ stale \subseteq Queries /\ focused \in BOOLEAN
      /\ seen.posts \subseteq posted
      /\ \A m \in Members : seen.flag[m] \in 1..Len(flags[m])
      /\ \A d \in calls : IsCall(d) /\ IsDone(d)
  BY DEF Truth, Types, Told
<1>3. IsCache(ent) /\ \A k \in Queries \ tags : ent[k] = entry[k]  BY <1>2, AfterTyped
<1>4. \A d \in cs : IsCall(d) /\ IsDone(d)  BY <1>2
<1>5. tags \subseteq Queries /\ Invalidates(c) \subseteq tags /\ stale \subseteq tags
  BY <1>2, HitsTyped DEF IsCall
<1>6. Settling(ent, cs, tags, ui, {})  BY <1>2, <1>3, <1>4, <1>5 DEF Settling
<1>7. \A d \in calls :
         Invalidates(d) \subseteq tags \/ \E e \in cs : Invalidates(e) = Invalidates(d)
  BY <1>5
<1> HIDE DEF ent, cs
<1>8. /\ IsSeen(seen') /\ seen'.lost = lost
      /\ seen'.flag = seen.flag /\ seen'.posts = seen.posts
  <2>1. seen.lost \in [1..MaxActs -> Nat]  BY <1>2 DEF IsSeen
  <2>2. more \in [1..MaxActs -> Nat]  BY <2>1, CountTyped
  <2>3. lost \in [1..MaxActs -> Nat]  BY <2>1, <2>2
  <2>4. seen' = [seen EXCEPT !.lost = lost]
    <3>1. [seen EXCEPT !.lost = seen.lost] = seen  BY <1>2 DEF IsSeen
    <3> QED  BY <1>1, <3>1
  <2> HIDE DEF lost, more
  <2> QED  BY <1>2, <2>3, <2>4 DEF IsSeen
<1> HIDE DEF tags
<1>9. \A k \in Queries \ tags : \A data :
         Recent(seen, flags, k, data) => Recent(seen', flags, k, data)
  BY <1>8 DEF Recent, RecentFlag
<1>10. /\ IsUse(used') /\ used'.acts = used.acts /\ used'.ids = used.ids
       /\ used'.ids >= used.ids
  BY <1>1, <1>2, UseGrows DEF IsUse
<1>11. \A k \in Queries \ tags : ent[k] = entry[k] \/ ent[k].status # "ok"  BY <1>3
<1>12. focused' \in BOOLEAN /\ seen'.posts \subseteq posted
       /\ \A m \in Members : seen'.flag[m] \in 1..Len(flags[m])
  BY <1>1, <1>2, <1>8
<1>13. Truth' /\ ui' = ui /\ Sends(cs, {})
  BY <1>1, <1>4, <1>5, <1>6, <1>7, <1>8, <1>9, <1>10, <1>11, <1>12, EndStep
<1> QED  BY <1>1, <1>8, <1>10, <1>13 DEF Sends, cs

-----------------------------------------------------------------------------
(* What the pages show.                                                    *)

LEMMA InitTruth == ASSUME Init PROVE Truth
<1>1. /\ flags = [m \in Members |-> <<FALSE>>] /\ posted = {} /\ ui \in Pages
      /\ entry = Subscribed([k \in Queries |-> Absent], Subscriptions(ui))
      /\ answer = [k \in Queries |-> Nothing] /\ stale = {} /\ calls = {} /\ focused = TRUE
      /\ seen = [flag |-> [m \in Members |-> 1], posts |-> {},
                 lost |-> [n \in 1..MaxActs |-> 0]]
      /\ used = [turmoil |-> 0, acts |-> 0, ids |-> 0]
  BY DEF Init
<1> DEFINE ent == [k \in Queries |-> Absent]
<1>2. IsCache(ent) /\ \A k \in Queries : ent[k] = Absent
  BY AgainTyped DEF IsCache, Absent, IsEntry
<1> HIDE DEF ent
<1>3. IsCache(entry) /\ \A k \in Queries : entry[k].status # "ok"
  BY <1>1, <1>2, AskedEntry DEF ent, Absent
<1>4. \A m \in Members : flags[m] \in Seq(BOOLEAN) /\ flags[m] # <<>> /\ Len(flags[m]) = 1
  BY <1>1
<1>5. IsPage(ui)  BY <1>1, NewPageTyped
<1>6. IsUse(used)  BY <1>1, PageBounds DEF IsUse
<1>7. IsSeen(seen)  BY <1>1 DEF IsSeen
<1>8. Types  BY <1>1, <1>3, <1>4, <1>5, <1>6, <1>7 DEF Types
<1>9. \A k \in Queries : NotBehind(k, entry, answer, stale, calls, seen, flags)
  BY <1>1, <1>3 DEF NotBehind
<1>10. \A m \in Members : seen.flag[m] \in 1..Len(flags[m])  BY <1>1, <1>4
<1>11. Told  BY <1>1, <1>9, <1>10 DEF Told
<1> QED  BY <1>8, <1>11 DEF Truth

LEMMA StepTruth ==
    ASSUME Truth, [Next]_vars PROVE Truth'
<1>1. CASE UNCHANGED vars
  BY <1>1 DEF vars, Truth, Types, Told, NotBehind, IsDone, Quiet
<1>2. ASSUME NEW page \in Pages, GoTo(page) PROVE Truth'  BY <1>2, GoToStep
<1>3. CASE Toggle  BY <1>3, ToggleStep
<1>4. CASE Type \/ Blur \/ \E m \in Members : FillIn(m)  BY <1>4, LocalStep
<1>5. CASE SendComment  BY <1>5, SendCommentStep
<1>6. CASE OpenSheet \/ CloseSheet  BY <1>6, SheetStep
<1>7. CASE CreateTicket  BY <1>7, CreateStep
<1>8. CASE Focus \/ \E k \in Queries : Poll(k) \/ QueryFails(k)  BY <1>8, AgainStep
<1>9. ASSUME NEW c \in calls, ServerDoes(c) PROVE Truth'
  BY <1>9, ToggleDoneStep, PostDoneStep
<1>10. ASSUME NEW c \in calls, Answered(c) PROVE Truth'  BY <1>10, AnsweredStep
<1>11. ASSUME NEW c \in calls, Fails(c) PROVE Truth'  BY <1>11, FailsStep
<1>12. ASSUME NEW k \in Queries, ServerReads(k) PROVE Truth'  BY <1>12, ReadsStep
<1>13. ASSUME NEW k \in Queries, QueryAnswered(k) PROVE Truth'  BY <1>13, QueryStep
<1>14. ASSUME NEW k \in Queries, Expire(k) PROVE Truth'  BY <1>14, ExpireStep
<1>15. ASSUME NEW m \in Members, ForeignToggle(m) PROVE Truth'  BY <1>15, ForeignStep
<1> QED
  BY <1>1, <1>2, <1>3, <1>4, <1>5, <1>6, <1>7, <1>8, <1>9, <1>10, <1>11, <1>12, <1>13,
     <1>14, <1>15 DEF Next, User, Network

(* Every variable keeps its form: what each query has for data, and what   *)
(* each kind of call carries.                                              *)
THEOREM DeskTypes == Spec => []Types
<1>1. Init => Truth  BY InitTruth
<1>2. Truth /\ [Next]_vars => Truth'  BY StepTruth
<1>3. Truth => Types  BY DEF Truth
<1> QED  BY <1>1, <1>2, <1>3, PTL DEF Spec

(* When nothing is under way, what a page shows is the state of the server *)
(* at the newest write this browser was told of or later: the tags of      *)
(* setProfileDisabled, addComment and createTicket hit every query that an *)
(* update shown in advance, its undoing or a stored post could leave       *)
(* behind.                                                                 *)
THEOREM PagesSettleTrue == Spec => []SettledPagesAreTrue
<1>1. ASSUME Truth PROVE SettledPagesAreTrue
  <2> SUFFICES ASSUME Quiet(entry, calls), NEW k \in Subscriptions(ui), entry[k].status = "ok"
               PROVE  Recent(seen, flags, k, entry[k].data)
    BY DEF SettledPagesAreTrue, Recent, RecentFlag
  <2>1. stale = {} /\ calls = {}  BY <1>1 DEF Truth, Told, Quiet
  <2>2. k \in Queries
    <3>1. IsPage(ui)  BY <1>1 DEF Truth, Types
    <3> QED  BY <3>1 DEF Subscriptions, IsPage, Queries
  <2>3. NotBehind(k, entry, answer, stale, calls, seen, flags)
    BY <1>1, <2>2 DEF Truth, Told
  <2> QED  BY <2>1, <2>3 DEF NotBehind
<1>2. Init => Truth  BY InitTruth
<1>3. Truth /\ [Next]_vars => Truth'  BY StepTruth
<1> QED  BY <1>1, <1>2, <1>3, PTL DEF Spec

-----------------------------------------------------------------------------
(* The posts.  What is said of them has as parameters what is stored (ps), *)
(* the calls (cs), the page (u), the answers lost (lost) and what is used  *)
(* up (us).                                                                *)

Posting(c, n) == c.kind # "toggle" /\ c.no = n

Stored(ps, n) == {p \in ps : p.no = n}

(* A post that is still to be made: its call has not reached the server,   *)
(* or what it is made of is still there and no answer is awaited.          *)
Waiting(cs, u, n) ==
    \/ \E c \in cs : Posting(c, n) /\ c.at = "sent"
    \/ /\ n # 0 /\ (u.text = n \/ (u.form # Nothing /\ u.form.no = n))
       /\ ~\E c \in cs : Posting(c, n) /\ c.at = "done"

(* The texts and forms have numbers of their own; a call that the page has *)
(* the text or the form of is its own and the only one.                    *)
NumbersFit(ps, cs, u, us) ==
    /\ \A p \in ps : p.no \in 1..us.acts /\ p.id \in 1..us.ids
    /\ \A c \in cs : c.kind # "toggle" =>
          /\ c.no \in 1..us.acts
          /\ u.text = c.no => c.here /\ c.kind = "comment"
          /\ u.form # Nothing /\ u.form.no = c.no => c.here /\ c.kind = "create"
    /\ \A c, d \in cs : c # d /\ c.kind # "toggle" /\ d.kind # "toggle" => c.no # d.no
    /\ u.text \in 0..us.acts
    /\ u.form # Nothing => u.form.no \in 1..us.acts /\ u.form.no # u.text

CountsFit(ps, cs, u, lost) ==
    \A n \in 1..MaxActs :
        /\ IsFiniteSet(Stored(ps, n))
        /\ Cardinality(Stored(ps, n)) <= 1 + lost[n]
        /\ Waiting(cs, u, n) => Cardinality(Stored(ps, n)) <= lost[n]

PostsFit(ps, cs, u, lost, us) == NumbersFit(ps, cs, u, us) /\ CountsFit(ps, cs, u, lost)

Fit == PostsFit(posted, calls, ui, seen.lost, used)

(* The page u has the text or the form with the number n.                  *)
Has(u, n) == u.text = n \/ (u.form # Nothing /\ u.form.no = n)

Counted(ps, n, most) == IsFiniteSet(Stored(ps, n)) /\ Cardinality(Stored(ps, n)) <= most

LEMMA FewerWaiting ==
    ASSUME NEW ps, NEW cs, NEW u, NEW lost, NEW ds, NEW v, NEW more,
           CountsFit(ps, cs, u, lost), lost \in [1..MaxActs -> Nat],
           more \in [1..MaxActs -> Nat], \A n \in 1..MaxActs : more[n] >= lost[n],
           \A n \in 1..MaxActs :
               Waiting(ds, v, n) => Waiting(cs, u, n) \/ more[n] >= lost[n] + 1
    PROVE  CountsFit(ps, ds, v, more)
<1> SUFFICES ASSUME NEW n \in 1..MaxActs
             PROVE  /\ Counted(ps, n, 1 + more[n])
                    /\ Waiting(ds, v, n) => Cardinality(Stored(ps, n)) <= more[n]
  BY DEF CountsFit, Counted
<1>1. /\ IsFiniteSet(Stored(ps, n)) /\ Cardinality(Stored(ps, n)) <= 1 + lost[n]
      /\ Waiting(cs, u, n) => Cardinality(Stored(ps, n)) <= lost[n]
  BY DEF CountsFit
<1>2. Cardinality(Stored(ps, n)) \in Nat  BY <1>1, FS_CardinalityType
<1>3. /\ lost[n] \in Nat /\ more[n] \in Nat /\ more[n] >= lost[n]
      /\ Waiting(ds, v, n) => Waiting(cs, u, n) \/ more[n] >= lost[n] + 1
  OBVIOUS
<1> DEFINE size == Cardinality(Stored(ps, n))
           most == lost[n]
           now == more[n]
<1>4. size \in Nat /\ most \in Nat /\ now \in Nat /\ now >= most /\ size <= 1 + most
  BY <1>1, <1>2, <1>3
<1>5. Waiting(cs, u, n) => size <= most  BY <1>1
<1> HIDE DEF size, most, now
<1>6. size <= 1 + now  BY <1>4
<1>7. Waiting(ds, v, n) => size <= most \/ now >= most + 1  BY <1>3, <1>5 DEF most, now
<1>8. Waiting(ds, v, n) => size <= now  BY <1>4, <1>7
<1> QED  BY <1>1, <1>6, <1>8 DEF Counted, size, now

(* A call that is over leaves nothing to send, or one more answer is lost. *)
Gains(cs, ds, v, lost, more) ==
    /\ \A n \in 1..MaxActs : more[n] >= lost[n]
    /\ \A c \in cs \ ds : c.kind # "toggle" /\ c.at = "done" /\ Has(v, c.no)
                             => more[c.no] >= lost[c.no] + 1

(* Calls are over, or a page is left or emptied.                           *)
LEMMA EndsFit ==
    ASSUME NEW ps, NEW cs, NEW u, NEW lost, NEW us, PostsFit(ps, cs, u, lost, us),
           lost \in [1..MaxActs -> Nat], us.acts \in Nat,
           NEW ds \in SUBSET cs, NEW v, v.text \in {u.text, 0}, v.form \in {u.form, Nothing},
           NEW more \in [1..MaxActs -> Nat], Gains(cs, ds, v, lost, more)
    PROVE  PostsFit(ps, ds, v, more, us)
<1>1. NumbersFit(ps, ds, v, us)  BY DEF PostsFit, NumbersFit
<1>2. ASSUME NEW n \in 1..MaxActs, Waiting(ds, v, n)
      PROVE  Waiting(cs, u, n) \/ more[n] >= lost[n] + 1
  <2>1. CASE \E c \in ds : Posting(c, n) /\ c.at = "sent"  BY <2>1 DEF Waiting
  <2>2. CASE n # 0 /\ Has(v, n)
    <3>1. Has(u, n)  BY <2>2 DEF Has
    <3>2. CASE ~\E c \in cs : Posting(c, n) /\ c.at = "done"
      BY <2>2, <3>1, <3>2 DEF Waiting, Has
    <3>3. CASE \E c \in cs \ ds : Posting(c, n) /\ c.at = "done"
      BY <2>2, <3>3 DEF Posting, Gains
    <3>4. CASE \E c \in ds : Posting(c, n) /\ c.at = "done"
      <4>1. Waiting(cs, u, n)  BY <1>2, <3>4 DEF Waiting
      <4> QED  BY <4>1
    <3> QED  BY <3>2, <3>3, <3>4
  <2> QED  BY <1>2, <2>1, <2>2 DEF Waiting, Has
<1>3. \A n \in 1..MaxActs : more[n] >= lost[n]  BY DEF Gains
<1>4. CountsFit(ps, ds, v, more)  BY <1>2, <1>3, FewerWaiting DEF PostsFit
<1> QED  BY <1>1, <1>4 DEF PostsFit

(* A page that is left has neither text nor form; its calls go on.         *)
LEMMA OrphansFit ==
    ASSUME NEW ps, NEW cs, NEW u, NEW lost, NEW us, PostsFit(ps, cs, u, lost, us),
           lost \in [1..MaxActs -> Nat], \A c \in cs : IsCall(c),
           us.acts \in Nat, u.text = 0, u.form = Nothing
    PROVE  PostsFit(ps, {[c EXCEPT !.here = FALSE] : c \in cs}, u, lost, us)
<1> DEFINE Left(c) == [c EXCEPT !.here = FALSE]
           ds == {Left(c) : c \in cs}
<1>1. \A c \in cs : Left(c).kind = c.kind /\ Left(c).no = c.no /\ Left(c).at = c.at
  BY DEF IsCall, IsBare
<1> HIDE DEF Left
<1>2. \A d \in ds : \E c \in cs : d = Left(c)  OBVIOUS
<1>3. NumbersFit(ps, ds, u, us)
  <2>1. \A d \in ds : d.kind # "toggle" => d.no \in 1..us.acts
    BY <1>1, <1>2 DEF PostsFit, NumbersFit
  <2>2. \A c, d \in ds : c # d /\ c.kind # "toggle" /\ d.kind # "toggle" => c.no # d.no
    BY <1>1, <1>2 DEF PostsFit, NumbersFit
  <2>3. \A d \in ds : d.kind # "toggle" => u.text # d.no  BY <2>1
  <2> HIDE DEF ds
  <2> QED  BY <2>1, <2>2, <2>3 DEF PostsFit, NumbersFit
<1>4. ASSUME NEW n \in 1..MaxActs, Waiting(ds, u, n) PROVE Waiting(cs, u, n)
  <2>1. PICK d \in ds : Posting(d, n) /\ d.at = "sent"  BY <1>4 DEF Waiting
  <2>2. PICK c \in cs : d = Left(c)  BY <2>1
  <2> QED  BY <1>1, <2>1, <2>2 DEF Waiting, Posting
<1> HIDE DEF ds
<1>5. \A n \in 1..MaxActs : lost[n] >= lost[n]  OBVIOUS
<1>6. CountsFit(ps, ds, u, lost)  BY <1>4, <1>5, FewerWaiting DEF PostsFit
<1> QED  BY <1>3, <1>6 DEF PostsFit, ds, Left

(* The page sends what it has a number of.                                 *)
LEMMA SendFits ==
    ASSUME NEW ps, NEW cs, NEW u, NEW lost, NEW us, PostsFit(ps, cs, u, lost, us),
           lost \in [1..MaxActs -> Nat], us.acts \in Nat,
           NEW m, m.at = "sent", m.here, m.no # 0,
           \A c \in cs : ~(c.here /\ c.kind = m.kind),
           \/ m.kind = "comment" /\ m.no = u.text
           \/ m.kind = "create" /\ u.form # Nothing /\ m.no = u.form.no
    PROVE  PostsFit(ps, cs \cup {m}, u, lost, us)
<1>1. \A c \in cs : ~Posting(c, m.no)  BY DEF PostsFit, NumbersFit, Posting
<1>2. m.no \in 1..us.acts  BY DEF PostsFit, NumbersFit
<1>3. NumbersFit(ps, cs \cup {m}, u, us)
  BY <1>1, <1>2 DEF PostsFit, NumbersFit, Posting
<1>4. ASSUME NEW n \in 1..MaxActs, Waiting(cs \cup {m}, u, n) PROVE Waiting(cs, u, n)
  <2>1. CASE n = m.no  BY <1>1, <2>1 DEF Waiting
  <2>2. CASE n # m.no  BY <1>4, <2>2 DEF Waiting, Posting
  <2> QED  BY <2>1, <2>2
<1>5. \A n \in 1..MaxActs : lost[n] >= lost[n]  OBVIOUS
<1>6. CountsFit(ps, cs \cup {m}, u, lost)  BY <1>4, <1>5, FewerWaiting DEF PostsFit
<1> QED  BY <1>3, <1>6 DEF PostsFit

(* The next number is taken, by the button of a profile or by the page.    *)
LEMMA TakesNumber ==
    ASSUME NEW ps, NEW cs, NEW u, NEW lost, NEW us, PostsFit(ps, cs, u, lost, us),
           lost \in [1..MaxActs -> Nat], us.acts \in Nat,
           NEW v, NEW ws, ws.acts = us.acts + 1, ws.acts <= MaxActs, ws.ids = us.ids,
           NEW ds, ds = cs \/ \E m : m.kind = "toggle" /\ ds = cs \cup {m},
           \/ v.text = u.text /\ v.form = u.form
           \/ v.text = ws.acts /\ v.form = u.form
           \/ v.text = u.text /\ u.form = Nothing /\ v.form.no = ws.acts
    PROVE  PostsFit(ps, ds, v, lost, ws)
<1> DEFINE no == us.acts + 1
<1>1. /\ no \in Nat /\ ws.acts = no /\ no # 0
      /\ \A k : k \in 1..us.acts => k \in 1..ws.acts /\ k # no
      /\ \A k : k \in 0..us.acts => k \in 0..ws.acts /\ k # no
  OBVIOUS
<1>2. no \in 1..ws.acts /\ no \in 0..ws.acts  BY <1>1
<1> HIDE DEF no
<1>3. \A c \in ds : c.kind # "toggle" => c \in cs  OBVIOUS
<1>4. \A k : Has(v, k) => Has(u, k) \/ k = no  BY <1>1 DEF Has
<1>5. NumbersFit(ps, ds, v, ws)
  <2>1. /\ \A p \in ps : p.no \in 1..ws.acts /\ p.id \in 1..ws.ids
        /\ \A c, d \in ds : c # d /\ c.kind # "toggle" /\ d.kind # "toggle" => c.no # d.no
    BY <1>1, <1>3 DEF PostsFit, NumbersFit
  <2>2. ASSUME NEW c \in ds, c.kind # "toggle"
        PROVE  /\ c.no \in 1..ws.acts
               /\ v.text = c.no => c.here /\ c.kind = "comment"
               /\ v.form # Nothing /\ v.form.no = c.no => c.here /\ c.kind = "create"
    <3>1. /\ c.no \in 1..us.acts
          /\ u.text = c.no => c.here /\ c.kind = "comment"
          /\ u.form # Nothing /\ u.form.no = c.no => c.here /\ c.kind = "create"
      BY <1>3, <2>2 DEF PostsFit, NumbersFit
    <3>2. c.no # no /\ c.no \in 1..ws.acts  BY <1>1, <3>1
    <3> QED  BY <1>1, <3>1, <3>2
  <2>3. u.text \in 0..us.acts /\ (u.form # Nothing => u.form.no \in 1..us.acts /\ u.form.no # u.text)
    BY DEF PostsFit, NumbersFit
  <2>4. v.text \in 0..ws.acts /\ (v.form # Nothing => v.form.no \in 1..ws.acts /\ v.form.no # v.text)
    BY <1>1, <1>2, <2>3
  <2> QED  BY <2>1, <2>2, <2>4 DEF NumbersFit
<1>6. ASSUME NEW n \in 1..MaxActs
      PROVE  /\ Counted(ps, n, 1 + lost[n])
             /\ Waiting(ds, v, n) => Cardinality(Stored(ps, n)) <= lost[n]
  <2>1. /\ Counted(ps, n, 1 + lost[n])
        /\ Waiting(cs, u, n) => Cardinality(Stored(ps, n)) <= lost[n]
    BY DEF PostsFit, CountsFit, Counted
  <2>2. CASE n = no
    <3>1. Stored(ps, n) = {}  BY <1>1, <2>2 DEF PostsFit, NumbersFit, Stored
    <3>2. Cardinality(Stored(ps, n)) = 0  BY <3>1, FS_EmptySet
    <3>3. lost[n] \in Nat  OBVIOUS
    <3>4. Cardinality(Stored(ps, n)) <= lost[n]  BY <3>2, <3>3
    <3> QED  BY <2>1, <3>4
  <2>3. CASE n # no
    <3>1. Waiting(ds, v, n) => Waiting(cs, u, n)
      BY <1>3, <1>4, <2>3 DEF Waiting, Has, Posting
    <3> QED  BY <2>1, <3>1
  <2> QED  BY <2>2, <2>3
<1>7. CountsFit(ps, ds, v, lost)  BY <1>6 DEF CountsFit, Counted
<1> QED  BY <1>5, <1>7 DEF PostsFit

(* The server does a call.                                                 *)
LEMMA SameCallFits ==
    ASSUME NEW ps, NEW cs, NEW u, NEW lost, NEW us, PostsFit(ps, cs, u, lost, us),
           lost \in [1..MaxActs -> Nat],
           NEW c \in cs, NEW e, c.kind = "toggle", e.kind = "toggle"
    PROVE  PostsFit(ps, (cs \ {c}) \cup {e}, u, lost, us)
<1> DEFINE ds == (cs \ {c}) \cup {e}
<1>1. NumbersFit(ps, ds, u, us)  BY DEF PostsFit, NumbersFit
<1>2. \A n \in 1..MaxActs : Waiting(ds, u, n) => Waiting(cs, u, n)  BY DEF Waiting, Posting
<1> HIDE DEF ds
<1>3. \A n \in 1..MaxActs : lost[n] >= lost[n]  OBVIOUS
<1>4. CountsFit(ps, ds, u, lost)  BY <1>2, <1>3, FewerWaiting DEF PostsFit
<1> QED  BY <1>1, <1>4 DEF PostsFit, ds

LEMMA PostFits ==
    ASSUME NEW ps, NEW cs, NEW u, NEW lost, NEW us, PostsFit(ps, cs, u, lost, us),
           lost \in [1..MaxActs -> Nat], us.acts \in Nat, us.ids \in Nat,
           NEW c \in cs, c.kind # "toggle", c.at = "sent",
           NEW e, e.kind = c.kind, e.no = c.no, e.here = c.here, e.at = "done",
           NEW p, p.no = c.no, p.id = us.ids + 1,
           NEW ws, ws.acts = us.acts, ws.ids = us.ids + 1
    PROVE  PostsFit(ps \cup {p}, (cs \ {c}) \cup {e}, u, lost, ws)
<1> DEFINE qs == ps \cup {p}
           ds == (cs \ {c}) \cup {e}
<1>1. c.no \in 1..us.acts  BY DEF PostsFit, NumbersFit
<1>2. /\ p.id \in 1..ws.ids
      /\ \A k : k \in 1..us.ids => k \in 1..ws.ids
  OBVIOUS
<1>3. NumbersFit(qs, ds, u, ws)
  <2>1. \A q \in qs : q.no \in 1..ws.acts /\ q.id \in 1..ws.ids
    BY <1>1, <1>2 DEF PostsFit, NumbersFit
  <2>2. \A d \in ds : d.kind # "toggle" =>
           /\ d.no \in 1..ws.acts
           /\ u.text = d.no => d.here /\ d.kind = "comment"
           /\ u.form # Nothing /\ u.form.no = d.no => d.here /\ d.kind = "create"
    BY DEF PostsFit, NumbersFit
  <2>3. \A a, b \in ds : a # b /\ a.kind # "toggle" /\ b.kind # "toggle" => a.no # b.no
    BY DEF PostsFit, NumbersFit
  <2>4. u.text \in 0..ws.acts /\ (u.form # Nothing => u.form.no \in 1..ws.acts /\ u.form.no # u.text)
    BY DEF PostsFit, NumbersFit
  <2> QED  BY <2>1, <2>2, <2>3, <2>4 DEF NumbersFit
<1>4. ASSUME NEW n \in 1..MaxActs
      PROVE  /\ Counted(qs, n, 1 + lost[n])
             /\ Waiting(ds, u, n) => Cardinality(Stored(qs, n)) <= lost[n]
  <2>1. /\ Counted(ps, n, 1 + lost[n])
        /\ Waiting(cs, u, n) => Cardinality(Stored(ps, n)) <= lost[n]
    BY DEF PostsFit, CountsFit, Counted
  <2>2. CASE n = c.no
    <3>1. Waiting(cs, u, n)  BY <2>2 DEF Waiting, Posting
    <3>2. Stored(qs, n) = Stored(ps, n) \cup {p}  BY <2>2 DEF Stored
    <3>3. IsFiniteSet(Stored(ps, n)) /\ Cardinality(Stored(ps, n)) <= lost[n]
      BY <2>1, <3>1 DEF Counted
    <3>4. /\ IsFiniteSet(Stored(qs, n))
          /\ \/ Cardinality(Stored(qs, n)) = Cardinality(Stored(ps, n))
             \/ Cardinality(Stored(qs, n)) = Cardinality(Stored(ps, n)) + 1
      <4> DEFINE S == Stored(ps, n)
      <4> HIDE DEF S
      <4>1. IsFiniteSet(S)  BY <3>3 DEF S
      <4>2. /\ IsFiniteSet(S \cup {p})
            /\ \/ Cardinality(S \cup {p}) = Cardinality(S)
               \/ Cardinality(S \cup {p}) = Cardinality(S) + 1
        BY <4>1, FS_AddElement
      <4> QED  BY <3>2, <4>2 DEF S
    <3>5. Cardinality(Stored(ps, n)) \in Nat /\ lost[n] \in Nat  BY <3>3, FS_CardinalityType
    <3>6. Cardinality(Stored(qs, n)) <= 1 + lost[n]  BY <3>3, <3>4, <3>5
    <3> HIDE DEF qs
    <3>7. \A d \in ds : Posting(d, n) => d = e
      BY <2>2 DEF PostsFit, NumbersFit, Posting
    <3>8. Posting(e, n) /\ e.at = "done"  BY <2>2 DEF Posting
    <3>9. ~Waiting(ds, u, n)  BY <3>7, <3>8 DEF Waiting
    <3> QED  BY <3>4, <3>6, <3>9 DEF Counted
  <2>3. CASE n # c.no
    <3>1. Stored(qs, n) = Stored(ps, n)  BY <2>3 DEF Stored
    <3>2. Waiting(ds, u, n) => Waiting(cs, u, n)  BY <2>3 DEF Waiting, Posting
    <3> QED  BY <2>1, <3>1, <3>2 DEF Counted
  <2> HIDE DEF qs, ds
  <2> QED  BY <2>2, <2>3
<1>5. CountsFit(qs, ds, u, lost)  BY <1>4 DEF CountsFit, Counted
<1> QED  BY <1>3, <1>5 DEF PostsFit

(* The parts of the page, the bounds and the observations that Fit reads.  *)
LEMMA FitKept ==
    ASSUME Fit, posted' = posted, calls' = calls, ui'.text = ui.text, ui'.form = ui.form,
           seen' = seen, used'.acts = used.acts, used'.ids = used.ids
    PROVE  Fit'
BY DEF Fit, PostsFit, NumbersFit, CountsFit, Waiting

LEMMA FitTypes ==
    ASSUME Truth
    PROVE  /\ seen.lost \in [1..MaxActs -> Nat] /\ used.acts \in Nat /\ used.ids \in Nat
           /\ \A n \in 1..MaxActs : seen.lost[n] >= seen.lost[n]
           /\ \A c \in calls : IsCall(c)
           /\ used.acts <= MaxActs /\ IsPage(ui)
<1>1. IsSeen(seen) /\ IsUse(used)  BY DEF Truth, Types
<1>2. seen.lost \in [1..MaxActs -> Nat]  BY <1>1 DEF IsSeen
<1>3. MaxActs \in Nat  BY PageBounds
<1>4. used.acts \in Nat /\ used.ids \in Nat /\ used.acts <= MaxActs  BY <1>1, <1>3 DEF IsUse
<1>5. \A n \in 1..MaxActs : seen.lost[n] >= seen.lost[n]
  <2> DEFINE lost == seen.lost
  <2>1. lost \in [1..MaxActs -> Nat]  BY <1>2
  <2> HIDE DEF lost
  <2>2. \A n \in 1..MaxActs : lost[n] >= lost[n]  BY <2>1
  <2> QED  BY <2>2 DEF lost
<1>6. IsPage(ui) /\ \A c \in calls : IsCall(c)  BY DEF Truth, Types
<1> QED  BY <1>2, <1>4, <1>5, <1>6

LEMMA InitFit == ASSUME Init PROVE Fit
<1>1. /\ posted = {} /\ calls = {} /\ ui \in Pages
      /\ seen.lost = [n \in 1..MaxActs |-> 0] /\ used.acts = 0 /\ used.ids = 0
  BY DEF Init
<1>2. ui.text = 0 /\ ui.form = Nothing  BY <1>1, NewPageTyped
<1>3. NumbersFit(posted, calls, ui, used)  BY <1>1, <1>2 DEF NumbersFit
<1>4. ASSUME NEW n \in 1..MaxActs
      PROVE  /\ IsFiniteSet(Stored(posted, n)) /\ Cardinality(Stored(posted, n)) = 0
             /\ seen.lost[n] = 0
  <2>1. Stored(posted, n) = {}  BY <1>1 DEF Stored
  <2>2. IsFiniteSet(Stored(posted, n)) /\ Cardinality(Stored(posted, n)) = 0
    BY <2>1, FS_EmptySet
  <2> QED  BY <1>1, <2>2
<1>5. CountsFit(posted, calls, ui, seen.lost)  BY <1>4 DEF CountsFit
<1> QED  BY <1>3, <1>5 DEF Fit, PostsFit

LEMMA StepFit ==
    ASSUME Truth, Fit, [Next]_vars PROVE Fit'
<1>0. /\ PostsFit(posted, calls, ui, seen.lost, used)
      /\ seen.lost \in [1..MaxActs -> Nat] /\ used.acts \in Nat /\ used.ids \in Nat
      /\ \A n \in 1..MaxActs : seen.lost[n] >= seen.lost[n]
      /\ \A c \in calls : IsCall(c)
      /\ used.acts <= MaxActs /\ IsPage(ui)
  BY FitTypes DEF Fit
<1>a. ASSUME PostsFit(posted', calls', ui', seen.lost, used), seen'.lost = seen.lost,
             used'.acts = used.acts, used'.ids = used.ids
      PROVE  Fit'
  BY <1>a DEF Fit, PostsFit, NumbersFit
<1>1. CASE UNCHANGED vars  BY <1>1, FitKept DEF vars
<1>2. ASSUME NEW page \in Pages, GoTo(page) PROVE Fit'
  <2>1. /\ ui' = page /\ calls' = {[c EXCEPT !.here = FALSE] : c \in calls}
        /\ posted' = posted /\ seen' = seen
        /\ used'.acts = used.acts /\ used'.ids = used.ids
    BY <1>2, GoToStep
  <2>2. page.text = 0 /\ page.form = Nothing  BY NewPageTyped
  <2>3. PostsFit(posted, calls, page, seen.lost, used)
    <3>1. Gains(calls, calls, page, seen.lost, seen.lost)  BY <1>0 DEF Gains
    <3> QED  BY <1>0, <2>2, <3>1, EndsFit
  <2> DEFINE cs == {[c EXCEPT !.here = FALSE] : c \in calls}
  <2>4. PostsFit(posted, cs, page, seen.lost, used)  BY <1>0, <2>2, <2>3, OrphansFit
  <2> HIDE DEF cs
  <2> QED  BY <1>a, <2>1, <2>4 DEF cs
<1>3. CASE Toggle
  <2>1. /\ ui' = ui /\ posted' = posted /\ seen' = seen
        /\ used'.acts = used.acts + 1 /\ used'.ids = used.ids /\ Truth'
        /\ \E m : m.kind = "toggle" /\ calls' = calls \cup {m}
    BY <1>3, ToggleStep
  <2> DEFINE cs == calls'
             us == used'
  <2>2. us.acts <= MaxActs
    <3>1. used'.acts \in 0..MaxActs  BY <2>1 DEF Truth, Types, IsUse
    <3> QED  BY <3>1, PageBounds
  <2>3. /\ us.acts = used.acts + 1 /\ us.ids = used.ids
        /\ \E m : m.kind = "toggle" /\ cs = calls \cup {m}
    BY <2>1
  <2> HIDE DEF cs, us
  <2>4. PostsFit(posted, cs, ui, seen.lost, us)  BY <1>0, <2>2, <2>3, TakesNumber
  <2> QED  BY <2>1, <2>4 DEF Fit, cs, us
<1>4. CASE Type \/ Blur \/ \E m \in Members : FillIn(m)
  <2>1. /\ calls' = calls /\ posted' = posted /\ seen' = seen /\ used'.ids = used.ids
        /\ used'.acts \in 0..MaxActs
        /\ \/ ui' = ui /\ used'.acts = used.acts
           \/ /\ used'.acts = used.acts + 1
              /\ ui'.text = used'.acts /\ ui'.form = ui.form
           \/ /\ used'.acts = used.acts + 1
              /\ ui'.text = ui.text /\ ui.form = Nothing /\ ui'.form.no = used'.acts
    BY <1>4, LocalStep
  <2>2. CASE ui' = ui /\ used'.acts = used.acts  BY <2>1, <2>2, FitKept
  <2>3. CASE used'.acts = used.acts + 1
    <3> DEFINE u == ui'
               us == used'
    <3>1. /\ us.acts = used.acts + 1 /\ us.ids = used.ids /\ us.acts <= MaxActs
          /\ \/ u.text = us.acts /\ u.form = ui.form
             \/ u.text = ui.text /\ ui.form = Nothing /\ u.form.no = us.acts
      BY <1>0, <2>1, <2>3, PageBounds
    <3> HIDE DEF u, us
    <3>2. PostsFit(posted, calls, u, seen.lost, us)  BY <1>0, <3>1, TakesNumber
    <3> QED  BY <2>1, <3>2 DEF Fit, u, us
  <2> QED  BY <2>1, <2>2, <2>3
<1>5. CASE SendComment
  <2>1. /\ ui' = ui /\ posted' = posted /\ seen' = seen /\ used' = used
        /\ ui.text # 0 /\ \A c \in calls : ~(c.here /\ c.kind = "comment")
        /\ \E m : /\ m.kind = "comment" /\ m.no = ui.text /\ m.at = "sent" /\ m.here
                  /\ calls' = calls \cup {m}
    BY <1>5, SendCommentStep
  <2>2. PICK m : /\ m.kind = "comment" /\ m.no = ui.text /\ m.at = "sent" /\ m.here
                 /\ calls' = calls \cup {m}
    BY <2>1
  <2>3. PostsFit(posted, calls \cup {m}, ui, seen.lost, used)
    BY <1>0, <2>1, <2>2, SendFits
  <2> QED  BY <1>a, <2>1, <2>2, <2>3
<1>6. CASE OpenSheet \/ CloseSheet
  <2>1. /\ calls' = calls /\ posted' = posted /\ seen' = seen /\ used' = used
        /\ ui'.text = ui.text /\ (ui'.form = ui.form \/ ui'.form = Nothing)
    BY <1>6, SheetStep
  <2> DEFINE u == ui'
  <2>2. u.text \in {ui.text, 0} /\ u.form \in {ui.form, Nothing}  BY <2>1
  <2> HIDE DEF u
  <2>3. PostsFit(posted, calls, u, seen.lost, used)
    <3>1. Gains(calls, calls, u, seen.lost, seen.lost)  BY <1>0 DEF Gains
    <3> QED  BY <1>0, <2>2, <3>1, EndsFit
  <2> QED  BY <1>a, <2>1, <2>3 DEF u
<1>7. CASE CreateTicket
  <2>1. /\ ui' = ui /\ posted' = posted /\ seen' = seen /\ used' = used
        /\ ui.form # Nothing /\ \A c \in calls : ~(c.here /\ c.kind = "create")
        /\ \E m : /\ m.kind = "create" /\ m.no = ui.form.no /\ m.at = "sent" /\ m.here
                  /\ calls' = calls \cup {m}
    BY <1>7, CreateStep
  <2>2. PICK m : /\ m.kind = "create" /\ m.no = ui.form.no /\ m.at = "sent" /\ m.here
                 /\ calls' = calls \cup {m}
    BY <2>1
  <2>3. m.no # 0  BY <1>0, <2>1, <2>2 DEF PostsFit, NumbersFit
  <2>4. PostsFit(posted, calls \cup {m}, ui, seen.lost, used)
    BY <1>0, <2>1, <2>2, <2>3, SendFits
  <2> QED  BY <1>a, <2>1, <2>2, <2>4
<1>8. CASE Focus \/ \E k \in Queries : Poll(k) \/ QueryFails(k)  BY <1>8, AgainStep, FitKept
<1>9. ASSUME NEW c \in calls, ServerDoes(c) PROVE Fit'
  <2>1. CASE c.kind = "toggle"
    <3>1. UNCHANGED <<ui, seen, posted, used>> /\ \E e : WasDone(e, c) /\ calls' = (calls \ {c}) \cup {e}
      BY <1>9, <2>1, ToggleDoneStep DEF ToggleDone
    <3>2. PICK e : e.kind = "toggle" /\ calls' = (calls \ {c}) \cup {e}
      BY <2>1, <3>1 DEF WasDone
    <3> DEFINE cs == (calls \ {c}) \cup {e}
    <3>3. PostsFit(posted, cs, ui, seen.lost, used)  BY <1>0, <2>1, <3>2, SameCallFits
    <3> HIDE DEF cs
    <3> QED  BY <1>a, <3>1, <3>2, <3>3 DEF cs
  <2>2. CASE c.kind # "toggle"
    <3>1. UNCHANGED <<ui, seen>> /\ c.at = "sent" /\ PostDone(c)
      BY <1>9, <2>2, PostDoneStep
    <3>2. /\ used'.acts = used.acts /\ used'.ids = used.ids + 1
          /\ posted' = posted \cup {[no |-> c.no, id |-> used'.ids, to |-> c.to]}
      BY <3>1 DEF PostDone
    <3>3. PICK e : WasDone(e, c) /\ calls' = (calls \ {c}) \cup {e}  BY <3>1 DEF PostDone
    <3> DEFINE p == [no |-> c.no, id |-> used'.ids, to |-> c.to]
               us == used'
               cs == (calls \ {c}) \cup {e}
    <3>4. /\ p.no = c.no /\ p.id = used.ids + 1 /\ us.acts = used.acts /\ us.ids = used.ids + 1
          /\ posted' = posted \cup {p}
      BY <3>2
    <3> HIDE DEF p, us
    <3>5. e.kind = c.kind /\ e.no = c.no /\ e.here = c.here /\ e.at = "done"
      BY <3>3 DEF WasDone
    <3>6. PostsFit(posted \cup {p}, cs, ui, seen.lost, us)
      BY <1>0, <2>2, <3>1, <3>4, <3>5, PostFits
    <3> HIDE DEF cs
    <3> QED  BY <3>1, <3>3, <3>4, <3>6 DEF Fit, cs, us
  <2> QED  BY <2>1, <2>2
<1>10. ASSUME NEW c \in calls, Answered(c) PROVE Fit'
  <2>1. /\ UNCHANGED <<posted, used>> /\ seen'.lost = seen.lost /\ c.at = "done"
        /\ ui' = PageAfter(c) /\ calls' = CallsAfter(c)
    BY <1>10, AnsweredStep
  <2> DEFINE u == PageAfter(c)
             cs == calls \ {c}
  <2>2. /\ u.text \in {ui.text, 0} /\ u.form \in {ui.form, Nothing}
        /\ c.kind = "comment" /\ c.here => u.text = 0 /\ u.form = ui.form
        /\ c.kind = "create" => u.text = 0 /\ u.form = Nothing
        /\ c.kind # "create" /\ ~(c.kind = "comment" /\ c.here) => u = ui
    BY <1>0, PageAfterTyped
  <2> HIDE DEF u
  <2>3. c.kind # "toggle" => ~Has(u, c.no)
    <3> SUFFICES ASSUME c.kind # "toggle" PROVE ~Has(u, c.no)
      OBVIOUS
    <3>1. /\ c.no \in 1..used.acts /\ c.kind \in {"comment", "create"}
          /\ ui.text = c.no => c.here /\ c.kind = "comment"
          /\ ui.form # Nothing /\ ui.form.no = c.no => c.here /\ c.kind = "create"
      BY <1>0 DEF PostsFit, NumbersFit, IsCall, IsBare
    <3>2. c.no # 0  BY <1>0, <3>1
    <3> QED  BY <2>2, <3>1, <3>2 DEF Has
  <2>4. PostsFit(posted, cs, u, seen.lost, used)
    <3>1. cs \in SUBSET calls /\ \A d \in calls \ cs : d = c  OBVIOUS
    <3> HIDE DEF cs
    <3>2. Gains(calls, cs, u, seen.lost, seen.lost)  BY <1>0, <2>3, <3>1 DEF Gains
    <3> QED  BY <1>0, <2>2, <3>1, <3>2, EndsFit
  <2>5. CASE c.kind # "create"
    BY <1>a, <2>1, <2>4, <2>5 DEF CallsAfter, u
  <2>6. CASE c.kind = "create"
    <3> DEFINE ds == {[d EXCEPT !.here = FALSE] : d \in cs}
    <3>1. calls' = ds  BY <2>1, <2>6 DEF CallsAfter
    <3>2. \A d \in cs : IsCall(d)  BY <1>0
    <3> HIDE DEF cs
    <3>3. PostsFit(posted, ds, u, seen.lost, used)
      BY <1>0, <2>2, <2>4, <2>6, <3>2, OrphansFit
    <3> HIDE DEF ds
    <3> QED  BY <1>a, <2>1, <3>1, <3>3 DEF u
  <2> QED  BY <2>5, <2>6
<1>11. ASSUME NEW c \in calls, Fails(c) PROVE Fit'
  <2>1. /\ UNCHANGED <<posted, ui>> /\ calls' = calls \ {c} /\ Truth'
        /\ used'.acts = used.acts /\ used'.ids = used.ids
        /\ seen'.lost = IF c.at = "done" /\ c.kind # "toggle"
                        THEN [seen.lost EXCEPT ![c.no] = seen.lost[c.no] + 1]
                        ELSE seen.lost
    BY <1>11, FailsStep
  <2> DEFINE more == seen'.lost
             lost == seen.lost
             cs == calls \ {c}
  <2>2. more \in [1..MaxActs -> Nat] /\ lost \in [1..MaxActs -> Nat]
    BY <1>0, <2>1 DEF Truth, Types, IsSeen
  <2>3. more = IF c.at = "done" /\ c.kind # "toggle"
               THEN [lost EXCEPT ![c.no] = lost[c.no] + 1] ELSE lost
    BY <2>1
  <2>4. c.kind # "toggle" => c.no \in 1..MaxActs
    <3>1. c.kind # "toggle" => c.no \in 1..used.acts  BY <1>0 DEF PostsFit, NumbersFit
    <3> QED  BY <1>0, <3>1, PageBounds
  <2>5. PostsFit(posted, calls, ui, lost, used)  BY <1>0
  <2>6. cs \in SUBSET calls /\ \A d \in calls \ cs : d = c  OBVIOUS
  <2> HIDE DEF more, lost, cs
  <2>7. \A n \in 1..MaxActs : more[n] >= lost[n]  BY <2>2, <2>3, <2>4
  <2>8. c.kind # "toggle" /\ c.at = "done" => more[c.no] >= lost[c.no] + 1
    BY <2>2, <2>3, <2>4
  <2>9. PostsFit(posted, cs, ui, more, used)
    <3>1. ui.text \in {ui.text, 0} /\ ui.form \in {ui.form, Nothing}  OBVIOUS
    <3>2. Gains(calls, cs, ui, lost, more)  BY <2>6, <2>7, <2>8 DEF Gains
    <3> QED  BY <1>0, <2>2, <2>5, <2>6, <3>1, <3>2, EndsFit
  <2>10. PostsFit(posted, cs, ui, more, used')
    BY <2>1, <2>9 DEF PostsFit, NumbersFit
  <2> QED  BY <2>1, <2>10 DEF Fit, more, cs
<1>12. ASSUME NEW k \in Queries, ServerReads(k) PROVE Fit'  BY <1>12, ReadsStep, FitKept
<1>13. ASSUME NEW k \in Queries, QueryAnswered(k) PROVE Fit'  BY <1>13, QueryStep, FitKept
<1>14. ASSUME NEW k \in Queries, Expire(k) PROVE Fit'  BY <1>14, ExpireStep, FitKept
<1>15. ASSUME NEW m \in Members, ForeignToggle(m) PROVE Fit'  BY <1>15, ForeignStep, FitKept
<1> QED
  BY <1>1, <1>2, <1>3, <1>4, <1>5, <1>6, <1>7, <1>8, <1>9, <1>10, <1>11, <1>12, <1>13,
     <1>14, <1>15 DEF Next, User, Network

(* A text or a form is stored once, and once more for each request whose   *)
(* answer was lost: a call is the only one with its number, the page that  *)
(* sent it keeps the number until the answer is there, and what is left,   *)
(* emptied or gone from is never sent again.                               *)
THEOREM PostsStoredOnce == Spec => []PostedOnce
<1>1. Init => Truth /\ Fit  BY InitTruth, InitFit
<1>2. Truth /\ Fit /\ [Next]_vars => Truth' /\ Fit'  BY StepTruth, StepFit
<1>3. Fit => PostedOnce  BY DEF Fit, PostsFit, CountsFit, Stored, PostedOnce
<1> QED  BY <1>1, <1>2, <1>3, PTL DEF Spec
=============================================================================
