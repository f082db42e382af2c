---------------------------- MODULE ClientSession ----------------------------
(***************************************************************************)
(* The tabs of one browser over the refresh tokens of the server           *)
(* (client/src/shared/api/authenticated-fetch.js, shared/lib/auth-tokens,  *)
(* features/auth/model/auth-slice.js).                                     *)
(*                                                                         *)
(* The tabs share the local storage, whose two keys always hold the access *)
(* and the refresh token of one pair, named by its refresh token.  Scripts *)
(* of a tab run one at a time up to their next await; one step here is one *)
(* such run, with those of the same promise's other waiters.               *)
(***************************************************************************)
EXTENDS RefreshTokens

CONSTANTS
    Tabs,
    Fetches,    \* calls that one page may have under way at a time
    NoTicket    \* no request that is waited for

ASSUME ClientAssumption == NoTicket \notin Requests

VARIABLES
    storage,    \* the pair in the local storage
    stale,      \* pairs whose access token has expired
    page,       \* what the page itself is waiting for
    pair,       \* the pair that restoreSession or login has in hand
    session,    \* auth.session # null
    ask,        \* the login or rotation that the page waits for
    refreshing, \* refreshPromise
    fetches,    \* the calls of fetchWithAuth and baseQueryWithAuth
    received,   \* ghost: pairs that have reached the storage
    presented   \* ghost: refresh tokens that the page has presented

pageVars == <<page, pair, session, ask, refreshing, fetches, presented>>
vars == <<tokenVars, storage, stale, received, pageVars>>

Pairs == Tokens \cup {NoToken}
Fetch == [step: {"none", "sent", "waiting", "resent"}, access: Pairs]
NoFetch == [step |-> "none", access |-> NoToken]
Waiting == [step |-> "waiting", access |-> NoToken]

TypeOK ==
    /\ TokensTypeOK
    /\ storage \in Pairs
    /\ stale \subseteq Tokens
    /\ page \in [Tabs -> {"closed", "restoring", "rotating", "signing in",
                          "loading", "ready"}]
    /\ pair \in [Tabs -> Pairs]
    /\ session \in [Tabs -> BOOLEAN]
    /\ ask \in [Tabs -> Requests \cup {NoTicket}]
    /\ refreshing \in [Tabs -> Requests \cup {NoTicket}]
    /\ fetches \in [Tabs -> [Fetches -> Fetch]]
    /\ received \subseteq Tokens
    /\ presented \in [Tabs -> SUBSET Tokens]

Init ==
    /\ TokensInit
    /\ storage = NoToken
    /\ stale = {}
    /\ page = [t \in Tabs |-> "closed"]
    /\ pair = [t \in Tabs |-> NoToken]
    /\ session = [t \in Tabs |-> FALSE]
    /\ ask = [t \in Tabs |-> NoTicket]
    /\ refreshing = [t \in Tabs |-> NoTicket]
    /\ fetches = [t \in Tabs |-> [f \in Fetches |-> NoFetch]]
    /\ received = {}
    /\ presented = [t \in Tabs |-> {}]

Awaited(r) == \E t \in Tabs : r \in {ask[t], refreshing[t]}

(* The server answers a request with this access token. *)
Accepted(access) == access # NoToken /\ access \notin stale

StoreTokens(n) == storage' = n /\ received' = received \cup {n}
KeepTokens == UNCHANGED <<storage, received>>
ClearStoredTokens == storage' = NoToken /\ UNCHANGED received

Becomes(t, p, n, signedIn) ==
    /\ page' = [page EXCEPT ![t] = p]
    /\ pair' = [pair EXCEPT ![t] = n]
    /\ session' = [session EXCEPT ![t] = signedIn]

(* clearSession: the tokens of all tabs, the session of this one. *)
ClearSession(t) ==
    /\ ClearStoredTokens
    /\ session' = [session EXCEPT ![t] = FALSE]

Presents(t, r, n) ==
    /\ SendRefresh(r, n)
    /\ presented' = [presented EXCEPT ![t] = @ \cup {n}]

-----------------------------------------------------------------------------
(* restoreSession, when the application starts in a tab. *)
Open(t) ==
    /\ page[t] = "closed"
    /\ \/ /\ storage = NoToken
          /\ Becomes(t, "ready", NoToken, FALSE)
       \/ /\ storage # NoToken
          /\ Becomes(t, "restoring", storage, FALSE)
    /\ KeepTokens
    /\ UNCHANGED <<tokenVars, stale, ask, refreshing, fetches, presented>>

(* The profile could be loaded with the stored access token. *)
Restored(t) ==
    /\ page[t] = "restoring" /\ Accepted(pair[t])
    /\ Becomes(t, "ready", NoToken, TRUE)
    /\ KeepTokens
    /\ UNCHANGED <<tokenVars, stale, ask, refreshing, fetches, presented>>

(* It could not, for whatever reason: the refresh token that was read at   *)
(* the start is presented, without a look at refreshPromise.               *)
RestoreRotates(t, r) ==
    /\ page[t] = "restoring"
    /\ Presents(t, r, pair[t])
    /\ ask' = [ask EXCEPT ![t] = r]
    /\ Becomes(t, "rotating", NoToken, FALSE)
    /\ KeepTokens
    /\ UNCHANGED <<stale, refreshing, fetches>>

(* login *)
Login(t, r, u) ==
    /\ page[t] = "ready" /\ ~session[t]
    /\ SendLogin(r, u)
    /\ ask' = [ask EXCEPT ![t] = r]
    /\ Becomes(t, "signing in", NoToken, FALSE)
    /\ KeepTokens
    /\ UNCHANGED <<stale, refreshing, fetches, presented>>

(* Mutation: the failure of a login or rotation does not reach the page.   *)
AskFailsUnnoticed(t) ==
    /\ ClearStoredTokens
    /\ Becomes(t, page[t], NoToken, FALSE)

AskFails(t) ==
    /\ ClearStoredTokens
    /\ Becomes(t, "ready", NoToken, FALSE)

(* The answer to the login or to the rotation: the pair is stored and the  *)
(* profile loaded with it, or all tokens are cleared.                      *)
AskSettles(t) ==
    LET r == ask[t]
    IN  /\ page[t] \in {"rotating", "signing in"}
        /\ r # NoTicket /\ Forget(r)
        /\ \/ /\ requests[r].step = "issued"
              /\ StoreTokens(requests[r].pair)
              /\ Becomes(t, "loading", requests[r].pair, FALSE)
           \/ /\ requests[r].step # "issued"
              /\ AskFails(t)
        /\ ask' = [ask EXCEPT ![t] = NoTicket]
        /\ UNCHANGED <<stale, refreshing, fetches, presented>>

(* The profile has been loaded with the new pair, or any error clears it.  *)
Loaded(t) ==
    /\ page[t] = "loading"
    /\ \/ /\ Accepted(pair[t]) /\ KeepTokens
          /\ Becomes(t, "ready", NoToken, TRUE)
       \/ /\ ClearStoredTokens
          /\ Becomes(t, "ready", NoToken, FALSE)
    /\ UNCHANGED <<tokenVars, stale, ask, refreshing, fetches, presented>>

SignOut(t) ==
    /\ page[t] = "ready" /\ session[t]
    /\ ClearSession(t)
    /\ UNCHANGED <<tokenVars, stale, page, pair, ask, refreshing, fetches,
                   presented>>

(* The tab is closed or loaded anew; what it waited for is lost. *)
Close(t) ==
    /\ page[t] # "closed"
    /\ Becomes(t, "closed", NoToken, FALSE)
    /\ ask' = [ask EXCEPT ![t] = NoTicket]
    /\ refreshing' = [refreshing EXCEPT ![t] = NoTicket]
    /\ fetches' = [fetches EXCEPT ![t] = [f \in Fetches |-> NoFetch]]
    /\ presented' = [presented EXCEPT ![t] = {}]
    /\ KeepTokens
    /\ UNCHANGED <<tokenVars, stale>>

-----------------------------------------------------------------------------
SetFetch(t, f, v) == fetches' = [fetches EXCEPT ![t] = [@ EXCEPT ![f] = v]]

(* A page of the signed-in user calls the server. *)
StartFetch(t, f) ==
    /\ page[t] = "ready" /\ session[t]
    /\ fetches[t][f].step = "none"
    /\ SetFetch(t, f, [step |-> "sent", access |-> storage])
    /\ KeepTokens
    /\ UNCHANGED <<tokenVars, stale, page, pair, session, ask, refreshing,
                   presented>>

(* An answer other than 401, or no answer at all. *)
FetchEnds(t, f) ==
    /\ fetches[t][f].step \in {"sent", "resent"}
    /\ SetFetch(t, f, NoFetch)
    /\ KeepTokens
    /\ UNCHANGED <<tokenVars, stale, page, pair, session, ask, refreshing,
                   presented>>

(* 401: refreshAccessToken, which has no token to present, *)
RefreshImpossible(t, f) ==
    /\ fetches[t][f].step = "sent" /\ ~Accepted(fetches[t][f].access)
    /\ storage = NoToken
    /\ ClearSession(t)
    /\ SetFetch(t, f, NoFetch)
    /\ UNCHANGED <<tokenVars, stale, page, pair, ask, refreshing, presented>>

(* Mutation: every call refreshes for itself.                              *)
MayRefresh(t) == TRUE

MayStartRefresh(t) == refreshing[t] = NoTicket

(* or presents it, *)
StartRefresh(t, f, r) ==
    /\ fetches[t][f].step = "sent" /\ ~Accepted(fetches[t][f].access)
    /\ storage # NoToken
    /\ MayStartRefresh(t)
    /\ Presents(t, r, storage)
    /\ refreshing' = [refreshing EXCEPT ![t] = r]
    /\ SetFetch(t, f, Waiting)
    /\ KeepTokens
    /\ UNCHANGED <<stale, page, pair, session, ask>>

(* or joins the refresh that is under way. *)
JoinRefresh(t, f) ==
    /\ fetches[t][f].step = "sent" /\ ~Accepted(fetches[t][f].access)
    /\ storage # NoToken
    /\ refreshing[t] # NoTicket
    /\ SetFetch(t, f, Waiting)
    /\ KeepTokens
    /\ UNCHANGED <<tokenVars, stale, page, pair, session, ask, refreshing,
                   presented>>

(* Calls that waited for the refresh are repeated with the access token    *)
(* that is stored now, or end with it.                                     *)
Repeated(t) ==
    [f \in Fetches |-> IF fetches[t][f].step = "waiting"
                       THEN [step |-> "resent", access |-> storage']
                       ELSE fetches[t][f]]

(* Mutation: a failed refresh leaves the calls that wait for it waiting.   *)
EndedForNobody(t) == fetches[t]

Ended(t) ==
    [f \in Fetches |-> IF fetches[t][f].step = "waiting"
                       THEN NoFetch ELSE fetches[t][f]]

(* Mutation: the access token is stored and the refresh token is not.      *)
StoredHalf(n) == storage' = storage /\ received' = received \cup {n}

StoredByRefresh(n) == StoreTokens(n)

AnswerGood(r) == requests[r].step = "issued"

RefreshSettles(t) ==
    LET r == refreshing[t]
    IN  /\ r # NoTicket /\ Forget(r)
        /\ \/ /\ AnswerGood(r)
              /\ StoredByRefresh(requests[r].pair)
              /\ fetches' = [fetches EXCEPT ![t] = Repeated(t)]
              /\ UNCHANGED session
           \/ /\ ~AnswerGood(r)
              /\ ClearSession(t)
              /\ fetches' = [fetches EXCEPT ![t] = Ended(t)]
        /\ refreshing' = [refreshing EXCEPT ![t] = NoTicket]
        /\ UNCHANGED <<stale, page, pair, ask, presented>>

(* A second 401 ends the session. *)
RefusedAgain(t, f) ==
    /\ fetches[t][f].step = "resent" /\ ~Accepted(fetches[t][f].access)
    /\ ClearSession(t)
    /\ SetFetch(t, f, NoFetch)
    /\ UNCHANGED <<tokenVars, stale, page, pair, ask, refreshing, presented>>

-----------------------------------------------------------------------------
AccessExpires(n) ==
    /\ n \in received
    /\ stale' = stale \cup {n}
    /\ KeepTokens
    /\ UNCHANGED <<tokenVars, pageVars>>

(* Steps of the server, and answers that nobody waits for. *)
Handle(r) ==
    /\ \/ LoadRefreshToken(r)
       \/ LoadAccount(r)
       \/ \E m \in Tokens : Issue(r, m)
       \/ RefreshConflict(r)
       \/ Fail(r)
       \/ ~Awaited(r) /\ Forget(r)
    /\ KeepTokens
    /\ UNCHANGED <<stale, pageVars>>

Elsewhere ==
    /\ \/ \E u \in Users, flag \in BOOLEAN : SetDisabled(u, flag)
       \/ \E n \in Tokens : Expire(n)
    /\ KeepTokens
    /\ UNCHANGED <<stale, pageVars>>

Restores(t) == Restored(t) \/ \E r \in Requests : RestoreRotates(t, r)

FetchStep(t, f) ==
    \/ FetchEnds(t, f)
    \/ RefreshImpossible(t, f)
    \/ \E r \in Requests : StartRefresh(t, f, r)
    \/ JoinRefresh(t, f)
    \/ RefusedAgain(t, f)

Next ==
    \/ \E t \in Tabs :
          \/ Open(t)
          \/ \E r \in Requests, u \in Users : Login(t, r, u)
          \/ Restores(t)
          \/ AskSettles(t)
          \/ Loaded(t)
          \/ RefreshSettles(t)
          \/ SignOut(t)
          \/ Close(t)
          \/ \E f \in Fetches : StartFetch(t, f) \/ FetchStep(t, f)
    \/ \E r \in Requests : Handle(r)
    \/ Elsewhere
    \/ \E n \in Tokens : AccessExpires(n)

Spec == Init /\ [][Next]_vars

(* A handler ends within its timeout of three seconds and the browser      *)
(* reports an answer or an error for every request; the scripts of a page  *)
(* are resumed.                                                            *)
Fairness ==
    /\ \A r \in Requests : WF_vars(Handle(r))
    /\ \A t \in Tabs : /\ WF_vars(Restores(t))
                       /\ WF_vars(AskSettles(t))
                       /\ WF_vars(Loaded(t))
                       /\ WF_vars(RefreshSettles(t))
    /\ \A t \in Tabs, f \in Fetches : WF_vars(FetchStep(t, f))

FairSpec == Spec /\ Fairness

-----------------------------------------------------------------------------
(* Whatever the tabs do at the same time, the stored refresh token is the  *)
(* newest of its session that has reached the browser: if it is used up    *)
(* then its replacement is still on the way, or was lost.                  *)
StoredTokenIsNewest ==
    storage # NoToken /\ tokens[storage].rotated
        => tokens[storage].replacedBy \notin received

(* A page never presents the same refresh token twice, so that a refusal   *)
(* always has its reason in another tab, an expiry or a lost answer.       *)
PresentedOnce ==
    [][\A t \in Tabs, r \in Requests :
          r \in {ask'[t], refreshing'[t]} \ {ask[t], refreshing[t]}
             => requests'[r].token \notin presented[t]]_vars

(* The calls of the browser are calls that the server allows for. *)
ServerBehaves == TokensSpec

(* Every call of a page ends, and so does the start of the page. *)
FetchesEnd ==
    \A t \in Tabs, f \in Fetches :
        fetches[t][f].step # "none" ~> fetches[t][f].step = "none"
PagesGetReady ==
    \A t \in Tabs : page[t] = "restoring" ~> page[t] \in {"ready", "closed"}
=============================================================================
