---------------------------- MODULE RefreshTokens ----------------------------
(***************************************************************************)
(* The table refresh_tokens of the server and the handlers of              *)
(* server/internal/api that write it: handleLogin and handleRefresh, which *)
(* replaces the token it is given by a new one.                            *)
(*                                                                         *)
(* A handler reads the token and the account in separate statements and    *)
(* commits at the end; whatever happens in between is a step of somebody   *)
(* else.  The insertion of the new token is invisible before the commit    *)
(* and the UPDATE of the old one keeps its row locked until then, so these *)
(* two are one step, whose guard is the WHERE of the UPDATE.               *)
(***************************************************************************)
CONSTANTS
    Users,
    Tokens,     \* opaque tokens, all different
    Requests,   \* requests that may be under way at the same time
    NoToken,
    NoUser

ASSUME TokensAssumption ==
    /\ NoToken \notin Tokens
    /\ NoUser \notin Users

VARIABLES
    disabled,   \* accounts.disabled
    tokens,     \* refresh_tokens
    requests    \* logins and refreshes and, in the end, their answers

tokenVars == <<disabled, tokens, requests>>

(* root, a history variable, is the token that the login at the beginning  *)
(* of the session was given.  No code sets revoked_at.                     *)
Token == [user: Users \cup {NoUser}, root: Tokens \cup {NoToken},
          rotated: BOOLEAN, replacedBy: Tokens \cup {NoToken},
          expired: BOOLEAN]
Unissued == [user |-> NoUser, root |-> NoToken, rotated |-> FALSE,
             replacedBy |-> NoToken, expired |-> FALSE]

Issued == {n \in Tokens : tokens[n].root # NoToken}
Live == {n \in Issued : ~tokens[n].rotated}

(* token is what a refresh presents, NoToken for a login; pair is the      *)
(* answer of a request that succeeds.  All errors are alike to a client.   *)
Request == [step: {"idle", "sent", "loaded", "checked", "issued", "refused"},
            token: Tokens \cup {NoToken}, user: Users \cup {NoUser},
            pair: Tokens \cup {NoToken}]
NoRequest == [step |-> "idle", token |-> NoToken, user |-> NoUser,
              pair |-> NoToken]

Asked(token, user) ==
    [step |-> "sent", token |-> token, user |-> user, pair |-> NoToken]
Settled(r) == requests[r].step \in {"issued", "refused"}

TokensTypeOK ==
    /\ disabled \in [Users -> BOOLEAN]
    /\ tokens \in [Tokens -> Token]
    /\ requests \in [Requests -> Request]

TokensInit ==
    /\ disabled = [u \in Users |-> FALSE]
    /\ tokens = [n \in Tokens |-> Unissued]
    /\ requests = [r \in Requests |-> NoRequest]

-----------------------------------------------------------------------------
(* A handler goes on, knowing the user, or answers. *)
Moves(r, step, user) ==
    requests' = [requests EXCEPT
                    ![r] = [step |-> step, token |-> requests[r].token,
                            user |-> user, pair |-> NoToken]]
Answers(r, step, m) ==
    requests' = [requests EXCEPT
                    ![r] = [step |-> step, token |-> NoToken,
                            user |-> NoUser, pair |-> m]]
Refuses(r) == Answers(r, "refused", NoToken)

SendLogin(r, u) ==
    /\ requests[r].step = "idle"
    /\ requests' = [requests EXCEPT ![r] = Asked(NoToken, u)]
    /\ UNCHANGED <<disabled, tokens>>

SendRefresh(r, n) ==
    /\ requests[r].step = "idle"
    /\ requests' = [requests EXCEPT ![r] = Asked(n, NoUser)]
    /\ UNCHANGED <<disabled, tokens>>

(* Mutation: the UPDATE does not repeat what was validated.                *)
RotatableOnce(n) == n \in Issued /\ ~tokens[n].expired

(* validateStoredRefreshToken, and the WHERE of RotateRefreshToken. *)
Valid(n) == n \in Live /\ ~tokens[n].expired
Rotatable(n) == Valid(n)

LoadRefreshToken(r) ==
    LET n == requests[r].token
    IN  /\ requests[r].step = "sent" /\ n # NoToken
        /\ \/ Valid(n) /\ Moves(r, "loaded", tokens[n].user)
           \/ ~Valid(n) /\ Refuses(r)
        /\ UNCHANGED <<disabled, tokens>>

(* A refresh has loaded its token; a login begins with its account, and    *)
(* may also be refused for its password.                                   *)
AccountDue(r) ==
    \/ requests[r].step = "loaded"
    \/ requests[r].step = "sent" /\ requests[r].token = NoToken

(* Mutation: the flag of the account is not looked at.                     *)
LoadAnyAccount(r) ==
    LET u == requests[r].user
    IN  /\ AccountDue(r)
        /\ \/ Moves(r, "checked", u)
           \/ requests[r].token = NoToken /\ Refuses(r)
        /\ UNCHANGED <<disabled, tokens>>

LoadAccount(r) ==
    LET u == requests[r].user
    IN  /\ AccountDue(r)
        /\ \/ ~disabled[u] /\ Moves(r, "checked", u)
           \/ /\ disabled[u] \/ requests[r].token = NoToken
              /\ Refuses(r)
        /\ UNCHANGED <<disabled, tokens>>

NewToken(u, root) == [user |-> u, root |-> root, rotated |-> FALSE,
                      replacedBy |-> NoToken, expired |-> FALSE]

(* Mutation: the UPDATE does not write replaced_by.                        *)
ReplacedUnlinked(n, m) == [user |-> tokens[n].user, root |-> tokens[n].root,
                           rotated |-> TRUE, replacedBy |-> NoToken,
                           expired |-> tokens[n].expired]

Replaced(n, m) == [user |-> tokens[n].user, root |-> tokens[n].root,
                   rotated |-> TRUE, replacedBy |-> m,
                   expired |-> tokens[n].expired]

(* The commit of a login or of a refresh, with m as the new token.  Its    *)
(* answer may be lost on the way to the handler, which then reports a      *)
(* failure.                                                                *)
Issue(r, m) ==
    LET n == requests[r].token
        u == requests[r].user
    IN  /\ requests[r].step = "checked"
        /\ m \notin Issued
        /\ \/ /\ n = NoToken
              /\ tokens' = [tokens EXCEPT ![m] = NewToken(u, m)]
           \/ /\ n # NoToken /\ Rotatable(n)
              /\ tokens' = [tokens EXCEPT ![m] = NewToken(u, tokens[n].root),
                                          ![n] = Replaced(n, m)]
        /\ \/ Answers(r, "issued", m)
           \/ Refuses(r)
        /\ UNCHANGED disabled

(* RotateRefreshToken finds no row: another request has rotated the token, *)
(* or it has expired.                                                      *)
RefreshConflict(r) ==
    /\ requests[r].step = "checked"
    /\ requests[r].token # NoToken /\ ~Rotatable(requests[r].token)
    /\ Refuses(r)
    /\ UNCHANGED <<disabled, tokens>>

(* The request does not reach the server, times out, or meets an error;    *)
(* its transaction is rolled back.                                         *)
Fail(r) ==
    /\ requests[r].step \in {"sent", "loaded", "checked"}
    /\ Refuses(r)
    /\ UNCHANGED <<disabled, tokens>>

(* The client has taken the answer, or has gone. *)
Forget(r) ==
    /\ Settled(r)
    /\ requests' = [requests EXCEPT ![r] = NoRequest]
    /\ UNCHANGED <<disabled, tokens>>

(* handleProfileDisabled *)
SetDisabled(u, flag) ==
    /\ disabled' = [disabled EXCEPT ![u] = flag]
    /\ UNCHANGED <<tokens, requests>>

(* The expiry of a token that no longer counts changes nothing. *)
Expire(n) ==
    /\ Valid(n)
    /\ tokens' = [tokens EXCEPT
                    ![n] = [user |-> tokens[n].user, root |-> tokens[n].root,
                            rotated |-> tokens[n].rotated,
                            replacedBy |-> tokens[n].replacedBy,
                            expired |-> TRUE]]
    /\ UNCHANGED <<disabled, requests>>

-----------------------------------------------------------------------------
(* Clients may present any token at any time, any number of times. *)
TokensNext ==
    \/ \E r \in Requests :
          \/ \E u \in Users : SendLogin(r, u)
          \/ \E n \in Issued : SendRefresh(r, n)
          \/ LoadRefreshToken(r)
          \/ LoadAccount(r)
          \/ \E m \in Tokens : Issue(r, m)
          \/ RefreshConflict(r)
          \/ Fail(r)
          \/ Forget(r)
    \/ \E u \in Users, flag \in BOOLEAN : SetDisabled(u, flag)
    \/ \E n \in Tokens : Expire(n)

TokensSpec == TokensInit /\ [][TokensNext]_tokenVars

-----------------------------------------------------------------------------
(* A session, from its login on, has at most one token that still counts,  *)
(* however many clients refresh it at the same time.                       *)
OneLiveToken ==
    \A n, m \in Live : tokens[n].root = tokens[m].root => n = m

(* The tokens of a session form one line: each token that was rotated has  *)
(* a successor of its own, of the same user and session.                   *)
RotationIsALine ==
    \A n \in Issued : tokens[n].rotated =>
        LET s == tokens[n].replacedBy
        IN  /\ s \in Issued
            /\ tokens[s].user = tokens[n].user
            /\ tokens[s].root = tokens[n].root
            /\ s # tokens[n].root
            /\ \A m \in Issued \ {n} : tokens[m].replacedBy # s

(* While an account is disabled it gets no token, but for the requests     *)
(* that had looked at the account before.                                  *)
NothingForDisabled ==
    [][\A u \in Users :
          disabled[u] /\ disabled'[u]
             /\ (\A r \in Requests :
                    requests[r].step = "checked" => requests[r].user # u)
          => /\ {n \in Issued : tokens[n].user = u}
                    = {n \in Issued : tokens[n].user = u}'
             /\ \A r \in Requests :
                    requests'[r].step = "checked" => requests'[r].user # u
      ]_tokenVars
=============================================================================
