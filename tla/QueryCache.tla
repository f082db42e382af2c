----------------------------- MODULE QueryCache -----------------------------
(***************************************************************************)
(* The cache of RTK Query under ticketsApi and editorApi, as the pages     *)
(* depend on it: what a subscription, an answer, a failure and the stale   *)
(* tags of a mutation do to the entry of a query.  RTK Query is a library; *)
(* the client sets none of its options, so an entry is reused while it is  *)
(* there, the tags are invalidated "delayed", and an entry that nobody     *)
(* subscribes to is kept for a minute.                                     *)
(***************************************************************************)
EXTENDS Integers, FiniteSets, TLC

CONSTANT Nothing     \* no data, no pane, no page

Absent == [status |-> "uninitialized", data |-> Nothing]

Pending(e) == [e EXCEPT !.status = "pending"]
Loaded(data) == [status |-> "ok", data |-> data]
Failed(e) == [e EXCEPT !.status = "error"]

(* A new subscription starts a request unless one is pending or the data   *)
(* is there; an entry that only ever failed is asked for again.            *)
Subscribed(ent, subs) ==
    [k \in DOMAIN ent |->
        IF k \in subs /\ ent[k].data = Nothing /\ ent[k].status # "pending"
        THEN Pending(ent[k]) ELSE ent[k]]

(* No query and no mutation is pending.                                    *)
Quiet(ent, mutations) ==
    mutations = {} /\ \A k \in DOMAIN ent : ent[k].status # "pending"

(* The queries hit by a stale tag are fetched again if somebody subscribes *)
(* to them, and dropped otherwise.                                         *)
Invalidated(ent, hit, subs) ==
    [k \in DOMAIN ent |->
        IF k \notin hit \/ ent[k].status = "uninitialized" THEN ent[k]
        ELSE IF k \in subs THEN Pending(ent[k]) ELSE Absent]

(* What a query hook returns as its data: that of its query once it has    *)
(* succeeded, and until then what it has returned last, which may be the   *)
(* data of the query it was used with before.                              *)
HookData(k, ent, last) ==
    LET own == [id |-> k, rec |-> ent[k].data]
    IN IF ent[k].status = "ok" THEN own
       ELSE IF last # Nothing THEN last
       ELSE IF ent[k].data # Nothing THEN own ELSE Nothing

(* An answer that the server has read belongs to the request that was      *)
(* pending when it was read: one that is started anew has none.            *)
StillAsked(before, after) ==
    {k \in DOMAIN after : before[k].status = "pending" /\ after[k].status = "pending"}
=============================================================================
