---------------------------- MODULE SessionProofs ----------------------------
(***************************************************************************)
(* Proofs about RefreshTokens, for every set of users, tokens and          *)
(* concurrent requests, and about ClientSession over it, for every set of  *)
(* tabs and calls as well.                                                 *)
(***************************************************************************)
EXTENDS ClientSession, TLAPS

(***************************************************************************)
(*                        The tokens of the server                         *)
(***************************************************************************)

(***************************************************************************)
(* The inductive invariant.  Recorded: what the table refers to is in the  *)
(* table, which makes a fresh token different from every root and every    *)
(* replacement.  Handled: a handler that has read its token knows the user *)
(* of it.                                                                  *)
(***************************************************************************)
Recorded ==
    /\ \A n \in Issued : tokens[n].root \in Issued
    /\ \A n \in Tokens : tokens[n].replacedBy \in Issued \cup {NoToken}
    /\ \A n \in Tokens : tokens[n].rotated => n \in Issued

Handled ==
    \A r \in Requests :
        requests[r].step \in {"loaded", "checked"}
            /\ requests[r].token # NoToken
        => /\ requests[r].token \in Issued
           /\ requests[r].user = tokens[requests[r].token].user

TokensInv ==
    TokensTypeOK /\ Recorded /\ Handled /\ OneLiveToken /\ RotationIsALine

-----------------------------------------------------------------------------
(* What the steps of a handler make of its request is well typed. *)
LEMMA MovesType ==
    ASSUME TokensTypeOK, NEW r \in Requests,
           NEW step \in {"loaded", "checked"}, NEW u \in Users \cup {NoUser},
           Moves(r, step, u)
    PROVE  requests' \in [Requests -> Request]
<1>1. [step |-> step, token |-> requests[r].token, user |-> u,
       pair |-> NoToken] \in Request
  BY DEF TokensTypeOK, Request
<1> QED
  BY <1>1 DEF Moves, TokensTypeOK

LEMMA AnswersType ==
    ASSUME TokensTypeOK, NEW r \in Requests,
           NEW step \in {"issued", "refused"},
           NEW m \in Tokens \cup {NoToken}, Answers(r, step, m)
    PROVE  requests' \in [Requests -> Request]
<1>1. [step |-> step, token |-> NoToken, user |-> NoUser, pair |-> m]
        \in Request
  BY DEF Request
<1> QED
  BY <1>1 DEF Answers, TokensTypeOK

(* An answered request has no token in hand. *)
LEMMA AnswersHandled ==
    ASSUME TokensTypeOK, Handled, NEW r \in Requests,
           NEW step \in {"issued", "refused"},
           NEW m \in Tokens \cup {NoToken}, Answers(r, step, m)
    PROVE  \A q \in Requests :
               requests'[q].step \in {"loaded", "checked"}
               => q # r /\ requests'[q] = requests[q]
<1>1. \A q \in Requests \ {r} : requests'[q] = requests[q]
  BY DEF Answers, TokensTypeOK
<1>2. requests'[r].step = step
  BY DEF Answers, TokensTypeOK
<1> QED
  BY <1>1, <1>2

(* The two ways to issue a token, and what becomes of the table.           *)
LEMMA LoginIssues ==
    ASSUME TokensTypeOK, NEW m \in Tokens, m \notin Issued,
           NEW u \in Users \cup {NoUser},
           tokens' = [tokens EXCEPT ![m] = NewToken(u, m)], TokensAssumption
    PROVE  /\ tokens' \in [Tokens -> Token]
           /\ tokens'[m] = NewToken(u, m)
           /\ \A k \in Tokens \ {m} : tokens'[k] = tokens[k]
           /\ Issued' = Issued \cup {m}
           /\ Live' = Live \cup {m}
<1>1. NewToken(u, m) \in Token
  BY DEF NewToken, Token
<1>2. /\ tokens' \in [Tokens -> Token]
      /\ tokens'[m] = NewToken(u, m)
      /\ \A k \in Tokens \ {m} : tokens'[k] = tokens[k]
  BY <1>1 DEF TokensTypeOK
<1>3. tokens'[m].root = m /\ tokens'[m].rotated = FALSE
  BY <1>2 DEF NewToken
<1>4. m # NoToken
  BY DEF TokensAssumption
<1>5. Issued' = Issued \cup {m}
  BY <1>2, <1>3, <1>4 DEF Issued
<1>6. Live' = Live \cup {m}
  BY <1>2, <1>3, <1>5 DEF Live
<1> QED
  BY <1>2, <1>5, <1>6

RotatedInto(n, m) ==
    tokens' = [tokens EXCEPT ![m] = NewToken(tokens[n].user, tokens[n].root),
                             ![n] = Replaced(n, m)]

LEMMA RefreshIssues ==
    ASSUME TokensTypeOK, NEW m \in Tokens, m \notin Issued,
           NEW n \in Live, RotatedInto(n, m)
    PROVE  /\ tokens' \in [Tokens -> Token]
           /\ m # n
           /\ tokens'[m] = NewToken(tokens[n].user, tokens[n].root)
           /\ tokens'[n] = Replaced(n, m)
           /\ \A k \in Tokens \ {m, n} : tokens'[k] = tokens[k]
           /\ Issued' = Issued \cup {m}
           /\ Live' = (Live \ {n}) \cup {m}
<1>1. n \in Tokens /\ n \in Issued /\ m # n /\ tokens[n] \in Token
  BY DEF Live, Issued, TokensTypeOK
<1>2. tokens[n].root # NoToken /\ tokens[n].root \in Tokens
  BY <1>1 DEF Issued, Token
<1>3. NewToken(tokens[n].user, tokens[n].root) \in Token
  BY <1>1, <1>2 DEF NewToken, Token
<1>4. Replaced(n, m) \in Token
  BY <1>1 DEF Replaced, Token
<1>5. /\ tokens' \in [Tokens -> Token]
      /\ tokens'[m] = NewToken(tokens[n].user, tokens[n].root)
      /\ tokens'[n] = Replaced(n, m)
      /\ \A k \in Tokens \ {m, n} : tokens'[k] = tokens[k]
  BY <1>1, <1>3, <1>4 DEF TokensTypeOK, RotatedInto
<1>6. tokens'[m].root = tokens[n].root /\ tokens'[m].rotated = FALSE
  BY <1>5 DEF NewToken
<1>7. tokens'[n].root = tokens[n].root /\ tokens'[n].rotated = TRUE
  BY <1>5 DEF Replaced
<1>8. Issued' = Issued \cup {m}
  BY <1>1, <1>2, <1>5, <1>6, <1>7 DEF Issued
<1>9. Live' = (Live \ {n}) \cup {m}
  <2>1. \A k \in Tokens : k \in Live' <=> k \in Issued' /\ ~tokens'[k].rotated
    BY DEF Live, Issued
  <2>2. \A k \in Tokens : k \in Live <=> k \in Issued /\ ~tokens[k].rotated
    BY DEF Live, Issued
  <2> QED
    BY <1>1, <1>5, <1>6, <1>7, <1>8, <2>1, <2>2 DEF Live, Issued
<1> QED
  BY <1>1, <1>5, <1>8, <1>9

(* The table after a step that does not change it, after a login, after a  *)
(* refresh, and after an expiry.                                           *)
TableInv == Recorded /\ OneLiveToken /\ RotationIsALine

LEMMA SameTable ==
    ASSUME TableInv, UNCHANGED tokens
    PROVE  TableInv'
BY DEF TableInv, Recorded, OneLiveToken, RotationIsALine, Issued, Live

LEMMA TableAfterLogin ==
    ASSUME TokensTypeOK, TableInv, NEW m \in Tokens, m \notin Issued,
           NEW u \in Users \cup {NoUser},
           tokens' = [tokens EXCEPT ![m] = NewToken(u, m)], TokensAssumption
    PROVE  TableInv'
<1>1. /\ tokens'[m] = NewToken(u, m)
      /\ \A k \in Tokens \ {m} : tokens'[k] = tokens[k]
      /\ Issued' = Issued \cup {m}
      /\ Live' = Live \cup {m}
  BY LoginIssues
<1>2. /\ tokens'[m].root = m /\ tokens'[m].rotated = FALSE
      /\ tokens'[m].replacedBy = NoToken
  BY <1>1 DEF NewToken
<1>3. \A k \in Issued : k \in Tokens /\ k # m /\ tokens'[k] = tokens[k]
  BY <1>1 DEF Issued
<1>4. \A k \in Live : k \in Issued
  BY DEF Live
<1>5. Recorded'
  BY <1>1, <1>2, <1>3 DEF TableInv, Recorded
<1>6. OneLiveToken'
  BY <1>1, <1>2, <1>3, <1>4 DEF TableInv, Recorded, OneLiveToken
<1>7. RotationIsALine'
  <2> SUFFICES ASSUME NEW n \in Issued', tokens'[n].rotated
               PROVE  LET s == tokens'[n].replacedBy
                      IN  /\ s \in Issued'
                          /\ tokens'[s].user = tokens'[n].user
                          /\ tokens'[s].root = tokens'[n].root
                          /\ s # tokens'[n].root
                          /\ \A k \in Issued' \ {n} :
                                tokens'[k].replacedBy # s
    BY DEF RotationIsALine
  <2>1. n \in Issued /\ tokens'[n] = tokens[n]
    BY <1>1, <1>2, <1>3
  <2> DEFINE s == tokens[n].replacedBy
  <2>2. /\ s \in Issued /\ tokens[s].user = tokens[n].user
        /\ tokens[s].root = tokens[n].root /\ s # tokens[n].root
        /\ \A k \in Issued \ {n} : tokens[k].replacedBy # s
    BY <2>1 DEF TableInv, RotationIsALine
  <2>3. s # NoToken
    BY <2>2 DEF Issued, TokensAssumption
  <2> QED
    BY <1>1, <1>2, <1>3, <2>1, <2>2, <2>3
<1> QED
  BY <1>5, <1>6, <1>7 DEF TableInv

LEMMA TableAfterRefresh ==
    ASSUME TokensTypeOK, TableInv, NEW m \in Tokens, m \notin Issued,
           NEW n \in Live, TokensAssumption, RotatedInto(n, m)
    PROVE  TableInv'
<1>0. n \in Tokens /\ n \in Issued /\ tokens[n].user \in Users \cup {NoUser}
  BY DEF Live, Issued, TokensTypeOK, Token
<1>1. /\ m # n
      /\ tokens'[m] = NewToken(tokens[n].user, tokens[n].root)
      /\ tokens'[n] = Replaced(n, m)
      /\ \A k \in Tokens \ {m, n} : tokens'[k] = tokens[k]
      /\ Issued' = Issued \cup {m}
      /\ Live' = (Live \ {n}) \cup {m}
  BY <1>0, RefreshIssues
<1>2. /\ tokens'[m].root = tokens[n].root /\ tokens'[m].rotated = FALSE
      /\ tokens'[m].replacedBy = NoToken /\ tokens'[m].user = tokens[n].user
  BY <1>1 DEF NewToken
<1>3. /\ tokens'[n].root = tokens[n].root /\ tokens'[n].rotated = TRUE
      /\ tokens'[n].replacedBy = m /\ tokens'[n].user = tokens[n].user
  BY <1>1 DEF Replaced
<1>4. \A k \in Issued : /\ k \in Tokens /\ k # m
                        /\ tokens'[k].root = tokens[k].root
                        /\ tokens'[k].user = tokens[k].user
                        /\ k # n => tokens'[k] = tokens[k]
  BY <1>1, <1>3 DEF Issued
<1>5. \A k \in Live : k \in Issued
  BY DEF Live
<1>6. Recorded'
  <2> USE DEF TableInv, Recorded
  <2>1. (\A k \in Issued : tokens[k].root \in Issued)'
    <3>1. \A k \in Issued : tokens'[k].root \in Issued
      BY <1>4
    <3>2. tokens'[m].root \in Issued
      BY <1>0, <1>2
    <3> QED
      BY <1>1, <3>1, <3>2
  <2>2. (\A k \in Tokens : tokens[k].replacedBy \in Issued \cup {NoToken})'
    <3>1. \A k \in Tokens \ {m, n} :
             tokens'[k].replacedBy \in Issued \cup {NoToken}
      BY <1>1
    <3> QED
      BY <1>1, <1>2, <1>3, <3>1
  <2>3. (\A k \in Tokens : tokens[k].rotated => k \in Issued)'
    BY <1>0, <1>1, <1>2, <1>3
  <2> QED
    BY <2>1, <2>2, <2>3
<1>7. OneLiveToken'
  BY <1>0, <1>1, <1>2, <1>3, <1>4, <1>5 DEF TableInv, OneLiveToken
<1>8. RotationIsALine'
  <2> SUFFICES ASSUME NEW k \in Issued', tokens'[k].rotated
               PROVE  LET s == tokens'[k].replacedBy
                      IN  /\ s \in Issued'
                          /\ tokens'[s].user = tokens'[k].user
                          /\ tokens'[s].root = tokens'[k].root
                          /\ s # tokens'[k].root
                          /\ \A j \in Issued' \ {k} :
                                tokens'[j].replacedBy # s
    BY DEF RotationIsALine
  <2>1. m # NoToken
    BY DEF TokensAssumption
  <2>2. CASE k = n
    <3>1. \A j \in Issued : tokens[j].replacedBy # m
      BY <1>4, <2>1 DEF TableInv, Recorded
    <3>2. tokens[n].root \in Issued
      BY <1>0 DEF TableInv, Recorded
    <3>3. \A j \in Issued' \ {n} : tokens'[j].replacedBy # m
      BY <1>1, <1>2, <1>4, <2>1, <3>1
    <3>4. m # tokens[n].root
      BY <3>2
    <3> QED
      BY <1>1, <1>2, <1>3, <2>2, <3>3, <3>4
  <2>3. CASE k # n
    <3>1. k \in Issued /\ tokens'[k] = tokens[k]
      BY <1>1, <1>2, <1>4, <2>3
    <3> DEFINE s == tokens[k].replacedBy
    <3>2. /\ s \in Issued /\ tokens[s].user = tokens[k].user
          /\ tokens[s].root = tokens[k].root /\ s # tokens[k].root
          /\ \A j \in Issued \ {k} : tokens[j].replacedBy # s
      BY <3>1 DEF TableInv, RotationIsALine
    <3>3. s # NoToken /\ s # m
      BY <3>2 DEF Issued, TokensAssumption
    <3>4. tokens'[s].user = tokens[s].user /\ tokens'[s].root = tokens[s].root
      BY <1>4, <3>2
    <3>5. \A j \in Issued' \ {k} : tokens'[j].replacedBy # s
      BY <1>1, <1>2, <1>3, <1>4, <3>2, <3>3
    <3>6. tokens'[k].replacedBy = s /\ s \in Issued'
      BY <1>1, <3>1, <3>2
    <3> QED
      BY <3>1, <3>2, <3>4, <3>5, <3>6
  <2> QED
    BY <2>2, <2>3
<1> QED
  BY <1>6, <1>7, <1>8 DEF TableInv

LEMMA TableAfterExpiry ==
    ASSUME TokensTypeOK, TableInv, NEW n \in Tokens, Expire(n)
    PROVE  /\ tokens' \in [Tokens -> Token]
           /\ \A k \in Tokens : /\ tokens'[k].user = tokens[k].user
                                /\ tokens'[k].root = tokens[k].root
           /\ Issued' = Issued
           /\ TableInv'
<1>1. [user |-> tokens[n].user, root |-> tokens[n].root,
       rotated |-> tokens[n].rotated, replacedBy |-> tokens[n].replacedBy,
       expired |-> TRUE] \in Token
  BY DEF TokensTypeOK, Token
<1>2. tokens' \in [Tokens -> Token]
  BY <1>1 DEF Expire, TokensTypeOK
<1>3. \A k \in Tokens : /\ tokens'[k].user = tokens[k].user
                        /\ tokens'[k].root = tokens[k].root
                        /\ tokens'[k].rotated = tokens[k].rotated
                        /\ tokens'[k].replacedBy = tokens[k].replacedBy
  BY DEF Expire, TokensTypeOK
<1>4. Issued' = Issued
  BY <1>3 DEF Issued
<1>5. Live' = Live
  BY <1>3, <1>4 DEF Live, Issued
<1>6. Issued \subseteq Tokens /\ Live \subseteq Tokens
  BY DEF Issued, Live
<1>7. Recorded'
  BY <1>3, <1>4, <1>6 DEF TableInv, Recorded
<1>8. OneLiveToken'
  BY <1>3, <1>5, <1>6 DEF TableInv, OneLiveToken
<1>9. RotationIsALine'
  BY <1>3, <1>4, <1>6 DEF TableInv, RotationIsALine
<1> QED
  BY <1>2, <1>3, <1>4, <1>7, <1>8, <1>9 DEF TableInv

-----------------------------------------------------------------------------
(* What the handlers know stays true: no step takes a token out of the     *)
(* table or gives it to another user, and only a load makes a handler know *)
(* a token.                                                                *)
LEMMA HandledStays ==
    ASSUME Handled,
           \A k \in Issued : k \in Issued' /\ tokens'[k].user = tokens[k].user,
           \A q \in Requests :
               requests'[q].step \in {"loaded", "checked"}
                   /\ requests'[q].token # NoToken
               => \/ requests'[q] = requests[q]
                  \/ /\ requests'[q].token \in Issued
                     /\ requests'[q].user = tokens[requests'[q].token].user
    PROVE  Handled'
BY DEF Handled

LEMMA AnswerInv ==
    ASSUME TokensInv, NEW r \in Requests, Refuses(r),
           UNCHANGED <<disabled, tokens>>
    PROVE  TokensInv'
<1>1. Answers(r, "refused", NoToken)
  BY DEF Refuses
<1>2. TokensTypeOK'
  BY <1>1, AnswersType DEF TokensInv, TokensTypeOK
<1>3. Handled'
  <2>1. \A q \in Requests : requests'[q].step \in {"loaded", "checked"}
                            => requests'[q] = requests[q]
    BY <1>1, AnswersHandled DEF TokensInv
  <2> QED
    BY <2>1, HandledStays DEF TokensInv, Issued
<1>4. TableInv'
  BY SameTable DEF TokensInv, TableInv
<1> QED
  BY <1>2, <1>3, <1>4 DEF TokensInv, TableInv

LEMMA MoveInv ==
    ASSUME TokensInv, NEW r \in Requests, NEW step \in {"loaded", "checked"},
           NEW u \in Users \cup {NoUser}, Moves(r, step, u),
           UNCHANGED <<disabled, tokens>>,
           requests[r].token # NoToken =>
               /\ requests[r].token \in Issued
               /\ u = tokens[requests[r].token].user
    PROVE  TokensInv'
<1>1. TokensTypeOK'
  BY MovesType DEF TokensInv, TokensTypeOK
<1>2. Handled'
  <2>1. \A q \in Requests \ {r} : requests'[q] = requests[q]
    BY DEF Moves, TokensInv, TokensTypeOK
  <2>2. requests'[r].token = requests[r].token /\ requests'[r].user = u
    BY DEF Moves, TokensInv, TokensTypeOK
  <2> QED
    BY <2>1, <2>2, HandledStays DEF TokensInv, Issued
<1>3. TableInv'
  BY SameTable DEF TokensInv, TableInv
<1> QED
  BY <1>1, <1>2, <1>3 DEF TokensInv, TableInv

LEMMA SendInv ==
    ASSUME TokensInv, NEW r \in Requests, NEW n \in Tokens \cup {NoToken},
           NEW u \in Users \cup {NoUser},
           requests' = [requests EXCEPT ![r] = Asked(n, u)],
           UNCHANGED <<disabled, tokens>>
    PROVE  TokensInv'
<1>1. Asked(n, u) \in Request
  BY DEF Asked, Request
<1>2. TokensTypeOK'
  BY <1>1 DEF TokensInv, TokensTypeOK
<1>3. Handled'
  <2>1. \A q \in Requests \ {r} : requests'[q] = requests[q]
    BY DEF TokensInv, TokensTypeOK
  <2>2. requests'[r].step = "sent"
    BY DEF TokensInv, TokensTypeOK, Asked
  <2> QED
    BY <2>1, <2>2, HandledStays DEF TokensInv, Issued
<1>4. TableInv'
  BY SameTable DEF TokensInv, TableInv
<1> QED
  BY <1>2, <1>3, <1>4 DEF TokensInv, TableInv

(* Issuing a token changes the user of no other one. *)
LEMMA IssueUsers ==
    ASSUME TokensAssumption, TokensInv, NEW r \in Requests, NEW m \in Tokens,
           Issue(r, m)
    PROVE  /\ Issued' = Issued \cup {m}
           /\ tokens'[m].user = requests[r].user
           /\ \A k \in Issued : tokens'[k].user = tokens[k].user
<1> DEFINE n == requests[r].token
           u == requests[r].user
<1>1. u \in Users \cup {NoUser} /\ m \notin Issued
  BY DEF TokensInv, TokensTypeOK, Request, Issue
<1>2. \A k \in Issued : k \in Tokens /\ k # m
  BY <1>1 DEF Issued
<1>3. CASE n = NoToken
  <2>1. tokens' = [tokens EXCEPT ![m] = NewToken(u, m)]
    BY <1>3 DEF Issue
  <2>2. /\ tokens'[m] = NewToken(u, m)
        /\ \A k \in Tokens \ {m} : tokens'[k] = tokens[k]
        /\ Issued' = Issued \cup {m}
    BY <1>1, <2>1, LoginIssues DEF TokensInv
  <2> QED
    BY <1>2, <2>2 DEF NewToken
<1>4. CASE n # NoToken
  <2>1. n \in Live
    BY <1>4 DEF Issue, Rotatable, Valid
  <2>2. u = tokens[n].user
    BY <1>4 DEF Issue, TokensInv, Handled
  <2>3. RotatedInto(n, m)
    BY <1>4, <2>2 DEF Issue, RotatedInto
  <2>4. /\ tokens'[m] = NewToken(u, tokens[n].root)
        /\ tokens'[n] = Replaced(n, m)
        /\ \A k \in Tokens \ {m, n} : tokens'[k] = tokens[k]
        /\ Issued' = Issued \cup {m}
    BY <1>1, <2>1, <2>2, <2>3, RefreshIssues DEF TokensInv
  <2> QED
    BY <1>2, <2>4 DEF NewToken, Replaced
<1> QED
  BY <1>3, <1>4

LEMMA IssueInv ==
    ASSUME TokensInv, TokensAssumption, NEW r \in Requests, NEW m \in Tokens,
           Issue(r, m)
    PROVE  TokensInv'
<1> DEFINE n == requests[r].token
           u == requests[r].user
<1>1. u \in Users \cup {NoUser} /\ m \notin Issued
  BY DEF TokensInv, TokensTypeOK, Request, Issue
<1>2. /\ requests' \in [Requests -> Request]
      /\ \A q \in Requests : requests'[q].step \in {"loaded", "checked"}
                             => requests'[q] = requests[q]
  BY AnswersType, AnswersHandled DEF Issue, Refuses, TokensInv
<1>3. /\ tokens' \in [Tokens -> Token]
      /\ TableInv'
      /\ \A k \in Issued : k \in Issued' /\ tokens'[k].user = tokens[k].user
  <2>1. CASE n = NoToken
    <3>1. tokens' = [tokens EXCEPT ![m] = NewToken(u, m)]
      BY <2>1 DEF Issue
    <3>2. TableInv'
      BY <1>1, <3>1, TableAfterLogin DEF TokensInv, TableInv
    <3>3. /\ tokens' \in [Tokens -> Token]
          /\ \A k \in Tokens \ {m} : tokens'[k] = tokens[k]
          /\ Issued' = Issued \cup {m}
      BY <1>1, <3>1, LoginIssues DEF TokensInv
    <3>4. \A k \in Issued : k \in Tokens /\ k # m
      BY <1>1 DEF Issued
    <3> QED
      BY <3>2, <3>3, <3>4
  <2>2. CASE n # NoToken
    <3>1. n \in Live /\ n \in Issued
      BY <2>2 DEF Issue, Rotatable, Valid, Live
    <3>2. u = tokens[n].user
      BY <2>2 DEF Issue, TokensInv, Handled
    <3>3. RotatedInto(n, m)
      BY <2>2, <3>2 DEF Issue, RotatedInto
    <3>4. TableInv'
      BY <1>1, <3>1, <3>3, TableAfterRefresh DEF TokensInv, TableInv
    <3>5. /\ tokens' \in [Tokens -> Token]
          /\ tokens'[n] = Replaced(n, m)
          /\ \A k \in Tokens \ {m, n} : tokens'[k] = tokens[k]
          /\ Issued' = Issued \cup {m}
      BY <1>1, <3>1, <3>3, RefreshIssues DEF TokensInv
    <3>6. \A k \in Issued : k \in Tokens /\ k # m
      BY <1>1 DEF Issued
    <3>7. tokens'[n].user = tokens[n].user
      BY <3>5 DEF Replaced
    <3> QED
      BY <3>4, <3>5, <3>6, <3>7
  <2> QED
    BY <2>1, <2>2
<1>4. Handled'
  BY <1>2, <1>3, HandledStays DEF TokensInv
<1>5. disabled' = disabled
  BY DEF Issue
<1> QED
  BY <1>2, <1>3, <1>4, <1>5 DEF TokensInv, TableInv, TokensTypeOK

(* Steps that leave the requests alone. *)
LEMMA DisableInv ==
    ASSUME TokensInv, NEW u \in Users, NEW flag \in BOOLEAN,
           SetDisabled(u, flag)
    PROVE  TokensInv'
<1>1. UNCHANGED <<tokens, requests>> /\ disabled' \in [Users -> BOOLEAN]
  BY DEF SetDisabled, TokensInv, TokensTypeOK
<1>2. TableInv'
  BY <1>1, SameTable DEF TokensInv, TableInv
<1>3. Handled'
  BY <1>1, HandledStays DEF TokensInv, Issued
<1> QED
  BY <1>1, <1>2, <1>3 DEF TokensInv, TableInv, TokensTypeOK

LEMMA ExpireInv ==
    ASSUME TokensInv, NEW n \in Tokens, Expire(n)
    PROVE  TokensInv'
<1>1. /\ tokens' \in [Tokens -> Token]
      /\ \A k \in Tokens : tokens'[k].user = tokens[k].user
      /\ Issued' = Issued
      /\ TableInv'
  BY TableAfterExpiry DEF TokensInv, TableInv
<1>2. Issued \subseteq Tokens
  BY DEF Issued
<1>3. UNCHANGED <<disabled, requests>>
  BY DEF Expire
<1>4. Handled'
  BY <1>1, <1>2, <1>3, HandledStays DEF TokensInv
<1> QED
  BY <1>1, <1>3, <1>4 DEF TokensInv, TableInv, TokensTypeOK

-----------------------------------------------------------------------------
LEMMA TokensInitInv == TokensAssumption /\ TokensInit => TokensInv
<1> SUFFICES ASSUME TokensAssumption, TokensInit
             PROVE  TokensInv
  OBVIOUS
<1>1. Unissued \in Token /\ NoRequest \in Request
  BY DEF Unissued, Token, NoRequest, Request
<1>2. TokensTypeOK
  BY <1>1 DEF TokensInit, TokensTypeOK
<1>3. Issued = {} /\ Live = {}
  BY DEF TokensInit, Issued, Live, Unissued
<1>4. Recorded /\ Handled
  BY <1>3 DEF TokensInit, Recorded, Handled, Unissued, NoRequest
<1>5. OneLiveToken /\ RotationIsALine
  BY <1>3 DEF OneLiveToken, RotationIsALine
<1> QED
  BY <1>2, <1>4, <1>5 DEF TokensInv

(* One step per action. *)
LEMMA TokensStepInv ==
    ASSUME TokensAssumption, TokensInv, [TokensNext]_tokenVars
    PROVE  TokensInv'
<1>1. ASSUME NEW r \in Requests, NEW u \in Users, SendLogin(r, u)
      PROVE  TokensInv'
  BY <1>1, SendInv DEF SendLogin
<1>2. ASSUME NEW r \in Requests, NEW n \in Issued, SendRefresh(r, n)
      PROVE  TokensInv'
  BY <1>2, SendInv DEF SendRefresh, Issued
<1>3. ASSUME NEW r \in Requests, LoadRefreshToken(r)
      PROVE  TokensInv'
  <2> DEFINE n == requests[r].token
  <2>1. UNCHANGED <<disabled, tokens>>
    BY <1>3 DEF LoadRefreshToken
  <2>2. CASE Valid(n) /\ Moves(r, "loaded", tokens[n].user)
    <3>1. n \in Issued /\ n \in Tokens
      BY <2>2 DEF Valid, Live, Issued
    <3>2. tokens[n].user \in Users \cup {NoUser}
      BY <3>1 DEF TokensInv, TokensTypeOK, Token
    <3> QED
      BY <2>1, <2>2, <3>1, <3>2, MoveInv
  <2>3. CASE Refuses(r)
    BY <2>1, <2>3, AnswerInv
  <2> QED
    BY <1>3, <2>2, <2>3 DEF LoadRefreshToken
<1>4. ASSUME NEW r \in Requests, LoadAccount(r)
      PROVE  TokensInv'
  <2> DEFINE u == requests[r].user
  <2>1. UNCHANGED <<disabled, tokens>>
    BY <1>4 DEF LoadAccount
  <2>2. CASE Moves(r, "checked", u)
    <3>1. u \in Users \cup {NoUser}
      BY DEF TokensInv, TokensTypeOK, Request
    <3>2. requests[r].token # NoToken
              => requests[r].token \in Issued
                 /\ u = tokens[requests[r].token].user
      BY <1>4 DEF LoadAccount, AccountDue, TokensInv, Handled
    <3> QED
      BY <2>1, <2>2, <3>1, <3>2, MoveInv
  <2>3. CASE Refuses(r)
    BY <2>1, <2>3, AnswerInv
  <2> QED
    BY <1>4, <2>2, <2>3 DEF LoadAccount
<1>5. ASSUME NEW r \in Requests, NEW m \in Tokens, Issue(r, m)
      PROVE  TokensInv'
  BY <1>5, IssueInv
<1>6. ASSUME NEW r \in Requests, RefreshConflict(r) \/ Fail(r)
      PROVE  TokensInv'
  BY <1>6, AnswerInv DEF RefreshConflict, Fail
<1>7. ASSUME NEW r \in Requests, Forget(r)
      PROVE  TokensInv'
  <2>1. NoRequest \in Request /\ NoRequest.step = "idle"
    BY DEF NoRequest, Request
  <2>2. requests' = [requests EXCEPT ![r] = NoRequest]
        /\ UNCHANGED <<disabled, tokens>>
    BY <1>7 DEF Forget
  <2>3. TokensTypeOK'
    BY <2>1, <2>2 DEF TokensInv, TokensTypeOK
  <2>4. \A q \in Requests : requests'[q].step \in {"loaded", "checked"}
                            => requests'[q] = requests[q]
    BY <2>1, <2>2 DEF TokensInv, TokensTypeOK
  <2>5. Handled'
    BY <2>2, <2>4, HandledStays DEF TokensInv, Issued
  <2>6. TableInv'
    BY <2>2, SameTable DEF TokensInv, TableInv
  <2> QED
    BY <2>3, <2>5, <2>6 DEF TokensInv, TableInv
<1>8. ASSUME NEW u \in Users, NEW flag \in BOOLEAN, SetDisabled(u, flag)
      PROVE  TokensInv'
  BY <1>8, DisableInv
<1>9. ASSUME NEW n \in Tokens, Expire(n)
      PROVE  TokensInv'
  BY <1>9, ExpireInv
<1>10. CASE UNCHANGED tokenVars
  <2>1. UNCHANGED tokens /\ UNCHANGED requests /\ UNCHANGED disabled
    BY <1>10 DEF tokenVars
  <2>2. TableInv'
    BY <2>1, SameTable DEF TokensInv, TableInv
  <2>3. Handled'
    BY <2>1, HandledStays DEF TokensInv, Issued
  <2> QED
    BY <2>1, <2>2, <2>3 DEF TokensInv, TableInv, TokensTypeOK
<1> QED
  BY <1>1, <1>2, <1>3, <1>4, <1>5, <1>6, <1>7, <1>8, <1>9, <1>10
     DEF TokensNext

(* The invariant, and with it the properties of the table of tokens.       *)
THEOREM TokensInvariant == TokensSpec => []TokensInv
<1>1. TokensInit => TokensInv
  BY TokensInitInv, TokensAssumption
<1>2. TokensInv /\ [TokensNext]_tokenVars => TokensInv'
  BY TokensStepInv, TokensAssumption
<1> QED
  BY <1>1, <1>2, PTL DEF TokensSpec

(* The state of accounts, tokens and requests has its type. *)
THEOREM TokensTypeCorrect == TokensSpec => []TokensTypeOK
<1>1. TokensInv => TokensTypeOK
  BY DEF TokensInv
<1> QED
  BY <1>1, TokensInvariant, PTL

(* A session never has two live refresh tokens, however many clients       *)
(* present its tokens at the same time.                                    *)
THEOREM OneTokenPerSession == TokensSpec => []OneLiveToken
<1>1. TokensInv => OneLiveToken
  BY DEF TokensInv
<1> QED
  BY <1>1, TokensInvariant, PTL

(* The tokens of a session follow one another in a single line. *)
THEOREM RotationNeverForks == TokensSpec => []RotationIsALine
<1>1. TokensInv => RotationIsALine
  BY DEF TokensInv
<1> QED
  BY <1>1, TokensInvariant, PTL

-----------------------------------------------------------------------------
TokensOf(u) == {n \in Issued : tokens[n].user = u}
NoneChecked(u) ==
    \A r \in Requests : requests[r].step = "checked" => requests[r].user # u

(* A step for a disabled account whose flag no handler has read before. *)
LEMMA DisabledStep ==
    ASSUME TokensAssumption, TokensInv, [TokensNext]_tokenVars,
           NEW u \in Users, disabled[u], disabled'[u], NoneChecked(u)
    PROVE  TokensOf(u) = TokensOf(u)' /\ NoneChecked(u)'
<1>1. ASSUME UNCHANGED tokens, NoneChecked(u)'
      PROVE  TokensOf(u) = TokensOf(u)' /\ NoneChecked(u)'
  BY <1>1 DEF TokensOf, Issued
<1>2. ASSUME NEW r \in Requests, Refuses(r), UNCHANGED tokens
      PROVE  TokensOf(u) = TokensOf(u)' /\ NoneChecked(u)'
  <2>1. Answers(r, "refused", NoToken)
    BY <1>2 DEF Refuses
  <2>2. \A q \in Requests : requests'[q].step = "checked"
                            => requests'[q] = requests[q]
    BY <2>1, AnswersHandled DEF TokensInv
  <2> QED
    BY <1>1, <1>2, <2>2 DEF NoneChecked
<1>3. ASSUME NEW r \in Requests, NEW w \in Users, SendLogin(r, w)
      PROVE  NoneChecked(u)' /\ UNCHANGED tokens
  BY <1>3 DEF SendLogin, Asked, NoneChecked, TokensInv, TokensTypeOK
<1>4. ASSUME NEW r \in Requests, NEW n \in Issued, SendRefresh(r, n)
      PROVE  NoneChecked(u)' /\ UNCHANGED tokens
  BY <1>4 DEF SendRefresh, Asked, NoneChecked, TokensInv, TokensTypeOK
<1>5. ASSUME NEW r \in Requests, LoadRefreshToken(r), ~Refuses(r)
      PROVE  NoneChecked(u)' /\ UNCHANGED tokens
  BY <1>5 DEF LoadRefreshToken, Moves, NoneChecked, TokensInv, TokensTypeOK
<1>6. ASSUME NEW r \in Requests, LoadAccount(r), ~Refuses(r)
      PROVE  NoneChecked(u)' /\ UNCHANGED tokens
  <2>1. /\ ~disabled[requests[r].user]
        /\ Moves(r, "checked", requests[r].user)
        /\ UNCHANGED <<disabled, tokens>>
    BY <1>6 DEF LoadAccount
  <2>2. requests[r].user # u
    BY <2>1
  <2>3. /\ requests'[r].user = requests[r].user
        /\ \A q \in Requests \ {r} : requests'[q] = requests[q]
    BY <2>1 DEF Moves, TokensInv, TokensTypeOK
  <2> QED
    BY <2>1, <2>2, <2>3 DEF NoneChecked
<1>7. ASSUME NEW r \in Requests, NEW m \in Tokens, Issue(r, m)
      PROVE  TokensOf(u) = TokensOf(u)' /\ NoneChecked(u)'
  <2> DEFINE n == requests[r].token
             w == requests[r].user
  <2>1. w # u /\ w \in Users \cup {NoUser} /\ m \notin Issued
    BY <1>7 DEF Issue, NoneChecked, TokensInv, TokensTypeOK, Request
  <2>2. NoneChecked(u)'
    <3>1. \A q \in Requests : requests'[q].step = "checked"
                              => requests'[q] = requests[q]
      BY <1>7, AnswersHandled DEF Issue, Refuses, TokensInv
    <3> QED
      BY <3>1 DEF NoneChecked
  <2>3. /\ Issued' = Issued \cup {m} /\ tokens'[m].user = w
        /\ \A k \in Issued : tokens'[k].user = tokens[k].user
    BY <1>7, IssueUsers
  <2> QED
    BY <2>1, <2>2, <2>3 DEF TokensOf
<1>8. ASSUME NEW r \in Requests, Forget(r)
      PROVE  NoneChecked(u)' /\ UNCHANGED tokens
  BY <1>8 DEF Forget, NoRequest, NoneChecked, TokensInv, TokensTypeOK
<1>9. ASSUME NEW n \in Tokens, Expire(n)
      PROVE  TokensOf(u) = TokensOf(u)' /\ NoneChecked(u)'
  <2>1. /\ \A k \in Tokens : tokens'[k].user = tokens[k].user
        /\ Issued' = Issued
    BY <1>9, TableAfterExpiry DEF TokensInv, TableInv
  <2>2. UNCHANGED requests
    BY <1>9 DEF Expire
  <2> QED
    BY <2>1, <2>2 DEF TokensOf, NoneChecked, Issued
<1>10. ASSUME NEW w \in Users, NEW flag \in BOOLEAN, SetDisabled(w, flag)
       PROVE  NoneChecked(u)' /\ UNCHANGED tokens
  BY <1>10 DEF SetDisabled, NoneChecked
<1>11. CASE UNCHANGED tokenVars
  BY <1>1, <1>11 DEF tokenVars, NoneChecked
<1>12. ASSUME NEW r \in Requests,
              LoadRefreshToken(r) \/ LoadAccount(r) \/ RefreshConflict(r)
                  \/ Fail(r)
       PROVE  TokensOf(u) = TokensOf(u)' /\ NoneChecked(u)'
  <2>1. UNCHANGED tokens
    BY <1>12 DEF LoadRefreshToken, LoadAccount, RefreshConflict, Fail
  <2>2. CASE Refuses(r)
    BY <1>2, <2>1, <2>2
  <2>3. CASE ~Refuses(r)
    BY <1>1, <1>5, <1>6, <1>12, <2>1, <2>3 DEF RefreshConflict, Fail
  <2> QED
    BY <2>2, <2>3
<1> QED
  BY <1>1, <1>3, <1>4, <1>7, <1>8, <1>9, <1>10, <1>11, <1>12 DEF TokensNext

(* A disabled account gets no new token, but for requests whose handlers   *)
(* had read the flag before.                                               *)
THEOREM DisabledGetNothing == TokensSpec => NothingForDisabled
<1>1. ASSUME TokensInv, [TokensNext]_tokenVars
      PROVE  [\A u \in Users :
                disabled[u] /\ disabled'[u]
                   /\ (\A r \in Requests :
                          requests[r].step = "checked"
                              => requests[r].user # u)
                => /\ {n \in Issued : tokens[n].user = u}
                          = {n \in Issued : tokens[n].user = u}'
                   /\ \A r \in Requests :
                          requests'[r].step = "checked"
                              => requests'[r].user # u]_tokenVars
  BY <1>1, DisabledStep, TokensAssumption DEF TokensOf, NoneChecked
<1> QED
  BY <1>1, TokensInvariant, PTL DEF TokensSpec, NothingForDisabled

(***************************************************************************)
(*                         The tabs of a browser                           *)
(***************************************************************************)

(***************************************************************************)
(* The invariant.  Known: browser and requests hold only tokens that have  *)
(* reached the storage, and only those have been rotated.  Fresh: what a   *)
(* request is about to answer has not reached it.  PairKnown: the same for *)
(* what a page has in hand.                                                *)
(***************************************************************************)
Known ==
    /\ received \subseteq Issued
    /\ storage \in received \cup {NoToken}
    /\ \A r \in Requests : requests[r].token \in received \cup {NoToken}
    /\ \A n \in Tokens : tokens[n].rotated => n \in received

Fresh ==
    /\ \A r \in Requests : requests[r].step = "issued" =>
          requests[r].pair \in Issued /\ requests[r].pair \notin received
    /\ \A r, q \in Requests :
          /\ requests[r].step = "issued" /\ requests[q].step = "issued"
          /\ requests[r].pair = requests[q].pair
          => r = q

PairKnown ==
    \A t \in Tabs : /\ pair[t] \in received \cup {NoToken}
                    /\ page[t] = "restoring" => pair[t] # NoToken

BrowserInv == Known /\ Fresh /\ StoredTokenIsNewest
ClientInv == TypeOK /\ TokensInv /\ BrowserInv /\ PairKnown

-----------------------------------------------------------------------------
(* Steps that send nothing, answer nothing and store nothing. *)
LEMMA QuietStep ==
    ASSUME BrowserInv, UNCHANGED <<tokens, requests, received>>,
           storage' = storage \/ storage' = NoToken
    PROVE  BrowserInv'
BY DEF BrowserInv, Known, Fresh, StoredTokenIsNewest, Issued

(* A request is sent with a token that has reached the browser. *)
LEMMA SendStep ==
    ASSUME BrowserInv, TokensTypeOK, NEW r \in Requests,
           NEW n \in received \cup {NoToken}, NEW u \in Users \cup {NoUser},
           requests' = [requests EXCEPT ![r] = Asked(n, u)],
           UNCHANGED <<tokens, storage, received>>
    PROVE  BrowserInv'
<1>1. \A q \in Requests \ {r} : requests'[q] = requests[q]
  BY DEF TokensTypeOK
<1>2. requests'[r].step = "sent" /\ requests'[r].token = n
  BY DEF TokensTypeOK, Asked
<1>3. Known'
  BY <1>1, <1>2 DEF BrowserInv, Known, Issued
<1>4. Fresh'
  BY <1>1, <1>2 DEF BrowserInv, Fresh, Issued
<1> QED
  BY <1>3, <1>4 DEF BrowserInv, StoredTokenIsNewest

(* An answer is taken: its pair is stored, or the storage is cleared. *)
LEMMA TakeStep ==
    ASSUME BrowserInv, TokensTypeOK, NEW r \in Requests, Forget(r),
           \/ requests[r].step = "issued" /\ StoreTokens(requests[r].pair)
           \/ ClearStoredTokens
           \/ KeepTokens
    PROVE  BrowserInv'
<1>1. UNCHANGED tokens /\ Issued' = Issued
  BY DEF Forget, Issued
<1>2. \A q \in Requests \ {r} : requests'[q] = requests[q]
  BY DEF Forget, TokensTypeOK
<1>3. requests'[r].step = "idle" /\ requests'[r].token = NoToken
  BY DEF Forget, TokensTypeOK, NoRequest
<1>4. CASE requests[r].step = "issued" /\ StoreTokens(requests[r].pair)
  <2> DEFINE m == requests[r].pair
  <2>1. /\ m \in Issued /\ m \notin received /\ m \in Tokens
        /\ storage' = m /\ received' = received \cup {m}
    BY <1>4 DEF StoreTokens, BrowserInv, Fresh, Issued
  <2>2. ~tokens[m].rotated
    BY <2>1 DEF BrowserInv, Known
  <2>3. Known'
    BY <1>1, <1>2, <1>3, <2>1 DEF BrowserInv, Known
  <2>4. Fresh'
    <3>1. \A q \in Requests \ {r} :
             requests[q].step = "issued" => requests[q].pair # m
      BY <1>4 DEF BrowserInv, Fresh
    <3> QED
      BY <1>1, <1>2, <1>3, <2>1, <3>1 DEF BrowserInv, Fresh
  <2>5. StoredTokenIsNewest'
    BY <1>1, <2>1, <2>2 DEF StoredTokenIsNewest
  <2> QED
    BY <2>3, <2>4, <2>5 DEF BrowserInv
<1>5. CASE ClearStoredTokens \/ KeepTokens
  <2>1. received' = received /\ (storage' = storage \/ storage' = NoToken)
    BY <1>5 DEF ClearStoredTokens, KeepTokens
  <2>2. Known'
    BY <1>1, <1>2, <1>3, <2>1 DEF BrowserInv, Known
  <2>3. Fresh'
    BY <1>1, <1>2, <1>3, <2>1 DEF BrowserInv, Fresh
  <2>4. StoredTokenIsNewest'
    BY <1>1, <2>1 DEF BrowserInv, StoredTokenIsNewest
  <2> QED
    BY <2>2, <2>3, <2>4 DEF BrowserInv
<1> QED
  BY <1>4, <1>5

(* A handler goes on, or refuses: the table is left alone. *)
LEMMA HandlerStep ==
    ASSUME BrowserInv, TokensTypeOK, NEW r \in Requests,
           UNCHANGED <<tokens, storage, received>>,
           \/ Refuses(r)
           \/ \E step \in {"loaded", "checked"}, u \in Users \cup {NoUser} :
                 Moves(r, step, u)
    PROVE  BrowserInv'
<1>1. /\ \A q \in Requests \ {r} : requests'[q] = requests[q]
      /\ requests'[r].step # "issued"
      /\ requests'[r].token \in {requests[r].token, NoToken}
  <2>1. CASE Refuses(r)
    BY <2>1 DEF Refuses, Answers, TokensTypeOK
  <2>2. ASSUME NEW step \in {"loaded", "checked"},
               NEW u \in Users \cup {NoUser}, Moves(r, step, u)
        PROVE  /\ \A q \in Requests \ {r} : requests'[q] = requests[q]
               /\ requests'[r].step # "issued"
               /\ requests'[r].token \in {requests[r].token, NoToken}
    BY <2>2 DEF Moves, TokensTypeOK
  <2> QED
    BY <2>1, <2>2
<1>2. Known'
  BY <1>1 DEF BrowserInv, Known, Issued
<1>3. Fresh'
  BY <1>1 DEF BrowserInv, Fresh, Issued
<1> QED
  BY <1>2, <1>3 DEF BrowserInv, StoredTokenIsNewest

(* A pair is issued: it is new to the browser, and what it replaces was    *)
(* the newest one.                                                         *)
LEMMA IssueStep ==
    ASSUME ClientInv, TokensAssumption, NEW r \in Requests, NEW m \in Tokens,
           Issue(r, m), UNCHANGED <<storage, received>>
    PROVE  BrowserInv'
<1> DEFINE n == requests[r].token
           u == requests[r].user
<1>1. /\ u \in Users \cup {NoUser} /\ m \notin Issued
      /\ n \in received \cup {NoToken} /\ received \subseteq Issued
      /\ TokensTypeOK
  BY DEF ClientInv, TokensInv, TokensTypeOK, Request, Issue, BrowserInv, Known
<1>2. m \notin received /\ \A k \in Issued : k # m /\ k \in Tokens
  BY <1>1 DEF Issued
<1>3. /\ Issued' = Issued \cup {m}
      /\ ~tokens'[m].rotated
      /\ n # NoToken => tokens'[n].replacedBy = m
      /\ \A k \in Tokens \ {m, n} : tokens'[k] = tokens[k]
  <2>1. CASE n = NoToken
    <3>1. tokens' = [tokens EXCEPT ![m] = NewToken(u, m)]
      BY <2>1 DEF Issue
    <3>2. /\ tokens'[m] = NewToken(u, m)
          /\ \A k \in Tokens \ {m} : tokens'[k] = tokens[k]
          /\ Issued' = Issued \cup {m}
      BY <1>1, <3>1, LoginIssues
    <3> QED
      BY <2>1, <3>2 DEF NewToken
  <2>2. CASE n # NoToken
    <3>1. n \in Live
      BY <2>2 DEF Issue, Rotatable, Valid
    <3>2. u = tokens[n].user
      BY <2>2 DEF Issue, ClientInv, TokensInv, Handled
    <3>3. RotatedInto(n, m)
      BY <2>2, <3>2 DEF Issue, RotatedInto
    <3>4. /\ tokens'[m] = NewToken(tokens[n].user, tokens[n].root)
          /\ tokens'[n] = Replaced(n, m)
          /\ \A k \in Tokens \ {m, n} : tokens'[k] = tokens[k]
          /\ Issued' = Issued \cup {m}
      BY <1>1, <3>1, <3>3, RefreshIssues
    <3> QED
      BY <3>4 DEF NewToken, Replaced
  <2> QED
    BY <2>1, <2>2
<1>4. /\ \A q \in Requests \ {r} : requests'[q] = requests[q]
      /\ requests'[r].token = NoToken
      /\ requests'[r].step = "issued" => requests'[r].pair = m
  BY <1>1 DEF Issue, Refuses, Answers, TokensTypeOK
<1>5. Known'
  <2>1. \A k \in Tokens : tokens'[k].rotated => k \in received
    <3> SUFFICES ASSUME NEW k \in Tokens, tokens'[k].rotated
                 PROVE  k \in received
      OBVIOUS
    <3>1. k # m
      BY <1>3
    <3>2. CASE k = n
      BY <1>1, <3>2, TokensAssumption DEF TokensAssumption
    <3>3. CASE k # n
      BY <1>3, <3>1, <3>3 DEF ClientInv, BrowserInv, Known
    <3> QED
      BY <3>2, <3>3
  <2> QED
    BY <1>1, <1>3, <1>4, <2>1 DEF ClientInv, BrowserInv, Known
<1>6. Fresh'
  <2>1. \A q \in Requests \ {r} : requests[q].step = "issued" =>
           /\ requests[q].pair \in Issued /\ requests[q].pair # m
           /\ requests[q].pair \notin received
    BY <1>2 DEF ClientInv, BrowserInv, Fresh
  <2> QED
    BY <1>2, <1>3, <1>4, <2>1 DEF ClientInv, BrowserInv, Fresh
<1>7. StoredTokenIsNewest'
  <2> SUFFICES ASSUME storage # NoToken, tokens'[storage].rotated
               PROVE  tokens'[storage].replacedBy \notin received
    BY DEF StoredTokenIsNewest
  <2>1. storage \in received
    BY DEF ClientInv, BrowserInv, Known
  <2>2. CASE storage = n
    BY <1>2, <1>3, <2>2
  <2>3. CASE storage # n
    <3>1. tokens'[storage] = tokens[storage]
      BY <1>1, <1>2, <1>3, <2>1, <2>3
    <3> QED
      BY <3>1 DEF ClientInv, BrowserInv, StoredTokenIsNewest
  <2> QED
    BY <2>2, <2>3
<1> QED
  BY <1>5, <1>6, <1>7 DEF BrowserInv

LEMMA ExpireStep ==
    ASSUME BrowserInv, TokensTypeOK, NEW n \in Tokens, Expire(n),
           UNCHANGED <<storage, received>>
    PROVE  BrowserInv'
<1>1. \A k \in Tokens : /\ tokens'[k].root = tokens[k].root
                        /\ tokens'[k].rotated = tokens[k].rotated
                        /\ tokens'[k].replacedBy = tokens[k].replacedBy
  BY DEF Expire, TokensTypeOK
<1>2. Issued' = Issued /\ Issued \subseteq Tokens
  BY <1>1 DEF Issued
<1>3. requests' = requests
  BY DEF Expire
<1>4. Known' /\ Fresh'
  BY <1>1, <1>2, <1>3 DEF BrowserInv, Known, Fresh
<1>5. StoredTokenIsNewest'
  BY <1>1, <1>2 DEF BrowserInv, Known, StoredTokenIsNewest
<1> QED
  BY <1>4, <1>5 DEF BrowserInv

-----------------------------------------------------------------------------
(* The parts of a step that concern a page. *)
PageTypeOK ==
    /\ page \in [Tabs -> {"closed", "restoring", "rotating", "signing in",
                          "loading", "ready"}]
    /\ pair \in [Tabs -> Pairs]
    /\ session \in [Tabs -> BOOLEAN]
    /\ ask \in [Tabs -> Requests \cup {NoTicket}]
    /\ refreshing \in [Tabs -> Requests \cup {NoTicket}]
    /\ fetches \in [Tabs -> [Fetches -> Fetch]]
    /\ presented \in [Tabs -> SUBSET Tokens]

StorageTypeOK ==
    storage \in Pairs /\ stale \subseteq Tokens /\ received \subseteq Tokens

LEMMA BecomesType ==
    ASSUME PageTypeOK, PairKnown, NEW t \in Tabs,
           NEW p \in {"closed", "restoring", "rotating", "signing in",
                      "loading", "ready"},
           NEW n \in received' \cup {NoToken}, NEW signedIn \in BOOLEAN,
           Becomes(t, p, n, signedIn), received \subseteq received',
           received' \subseteq Tokens, p = "restoring" => n # NoToken
    PROVE  /\ page' \in [Tabs -> {"closed", "restoring", "rotating",
                                  "signing in", "loading", "ready"}]
           /\ pair' \in [Tabs -> Pairs]
           /\ session' \in [Tabs -> BOOLEAN]
           /\ PairKnown'
<1>1. /\ page' = [page EXCEPT ![t] = p]
      /\ pair' = [pair EXCEPT ![t] = n]
      /\ session' = [session EXCEPT ![t] = signedIn]
  BY DEF Becomes
<1>2. n \in Pairs
  BY DEF Pairs
<1>3. /\ page' \in [Tabs -> {"closed", "restoring", "rotating",
                             "signing in", "loading", "ready"}]
      /\ pair' \in [Tabs -> Pairs]
      /\ session' \in [Tabs -> BOOLEAN]
  BY <1>1, <1>2 DEF PageTypeOK
<1>4. /\ page'[t] = p /\ pair'[t] = n
      /\ \A s \in Tabs \ {t} : page'[s] = page[s] /\ pair'[s] = pair[s]
  BY <1>1 DEF PageTypeOK
<1>5. PairKnown'
  BY <1>4 DEF PairKnown
<1> QED
  BY <1>3, <1>5

LEMMA SetFetchType ==
    ASSUME PageTypeOK, NEW t \in Tabs, NEW f \in Fetches, NEW v \in Fetch,
           SetFetch(t, f, v)
    PROVE  fetches' \in [Tabs -> [Fetches -> Fetch]]
<1>1. fetches[t] \in [Fetches -> Fetch]
  BY DEF PageTypeOK
<1>2. [fetches[t] EXCEPT ![f] = v] \in [Fetches -> Fetch]
  BY <1>1
<1> QED
  BY <1>2 DEF SetFetch, PageTypeOK

LEMMA SettledFetchesType ==
    ASSUME PageTypeOK, NEW t \in Tabs, storage' \in Pairs,
           \/ fetches' = [fetches EXCEPT ![t] = Repeated(t)]
           \/ fetches' = [fetches EXCEPT ![t] = Ended(t)]
    PROVE  fetches' \in [Tabs -> [Fetches -> Fetch]]
<1>1. [step |-> "resent", access |-> storage'] \in Fetch /\ NoFetch \in Fetch
  BY DEF Fetch, NoFetch, Pairs
<1>2. \A f \in Fetches : fetches[t][f] \in Fetch
  BY DEF PageTypeOK
<1>3. Repeated(t) \in [Fetches -> Fetch] /\ Ended(t) \in [Fetches -> Fetch]
  BY <1>1, <1>2 DEF Repeated, Ended
<1> QED
  BY <1>3 DEF PageTypeOK

LEMMA FetchValues ==
    /\ NoFetch \in Fetch /\ Waiting \in Fetch
    /\ \A n \in Pairs : [step |-> "sent", access |-> n] \in Fetch
BY DEF NoFetch, Waiting, Fetch, Pairs

-----------------------------------------------------------------------------
(* Every step of the browser is one that the server allows for. *)
LEMMA ServerStep ==
    ASSUME ClientInv, [Next]_vars
    PROVE  [TokensNext]_tokenVars
<1>1. \A n \in received : n \in Issued
  BY DEF ClientInv, BrowserInv, Known
<1>2. ASSUME NEW t \in Tabs, NEW r \in Requests, RestoreRotates(t, r)
      PROVE  TokensNext
  <2>1. pair[t] \in Issued
    BY <1>1, <1>2 DEF RestoreRotates, ClientInv, PairKnown
  <2> QED
    BY <1>2, <2>1 DEF RestoreRotates, Presents, TokensNext
<1>3. ASSUME NEW t \in Tabs, NEW f \in Fetches, NEW r \in Requests,
             StartRefresh(t, f, r)
      PROVE  TokensNext
  <2>1. storage \in Issued
    BY <1>1, <1>3 DEF StartRefresh, ClientInv, BrowserInv, Known
  <2> QED
    BY <1>3, <2>1 DEF StartRefresh, Presents, TokensNext
<1>4. ASSUME NEW t \in Tabs, NEW r \in Requests, NEW u \in Users,
             Login(t, r, u)
      PROVE  TokensNext
  BY <1>4 DEF Login, TokensNext
<1>5. ASSUME NEW t \in Tabs, AskSettles(t) \/ RefreshSettles(t)
      PROVE  TokensNext
  <2>1. PICK r \in Requests : Forget(r)
    BY <1>5, ClientAssumption
       DEF AskSettles, RefreshSettles, ClientAssumption, ClientInv, TypeOK
  <2> QED
    BY <2>1 DEF TokensNext
<1>6. ASSUME NEW r \in Requests, Handle(r)
      PROVE  TokensNext
  BY <1>6 DEF Handle, TokensNext
<1>7. ASSUME Elsewhere
      PROVE  TokensNext
  BY <1>7 DEF Elsewhere, TokensNext
<1>8. ASSUME NEW t \in Tabs,
             \/ Open(t) \/ Restored(t) \/ Loaded(t) \/ SignOut(t) \/ Close(t)
      PROVE  UNCHANGED tokenVars
  BY <1>8 DEF Open, Restored, Loaded, SignOut, Close
<1>9. ASSUME NEW t \in Tabs, NEW f \in Fetches,
             \/ StartFetch(t, f) \/ FetchEnds(t, f) \/ RefreshImpossible(t, f)
             \/ JoinRefresh(t, f) \/ RefusedAgain(t, f)
      PROVE  UNCHANGED tokenVars
  BY <1>9 DEF StartFetch, FetchEnds, RefreshImpossible, JoinRefresh,
              RefusedAgain
<1>10. ASSUME NEW n \in Tokens, AccessExpires(n)
       PROVE  UNCHANGED tokenVars
  BY <1>10 DEF AccessExpires
<1>11. CASE UNCHANGED vars
  BY <1>11 DEF vars
<1>12. ASSUME NEW t \in Tabs, NEW f \in Fetches, FetchStep(t, f)
       PROVE  [TokensNext]_tokenVars
  BY <1>3, <1>9, <1>12 DEF FetchStep
<1>13. ASSUME NEW t \in Tabs, Restores(t)
       PROVE  [TokensNext]_tokenVars
  BY <1>2, <1>8, <1>13 DEF Restores
<1> QED
  BY <1>4, <1>5, <1>6, <1>7, <1>8, <1>9, <1>10, <1>11, <1>12, <1>13 DEF Next

-----------------------------------------------------------------------------
PartsInv == BrowserInv /\ StorageTypeOK /\ PageTypeOK /\ PairKnown

LEMMA Parts == /\ ClientInv <=> TokensInv /\ PartsInv
               /\ ClientInv => TokensTypeOK
BY DEF ClientInv, PartsInv, TypeOK, TokensInv, StorageTypeOK, PageTypeOK

(* What the storage operations make of the storage. *)
LEMMA StorageSteps ==
    ASSUME StorageTypeOK, UNCHANGED stale
    PROVE  /\ KeepTokens => StorageTypeOK' /\ received' = received
           /\ ClearStoredTokens => StorageTypeOK' /\ received' = received
           /\ \A n \in Tokens : StoreTokens(n) =>
                 /\ StorageTypeOK' /\ n \in received'
                 /\ received \subseteq received'
BY DEF StorageTypeOK, KeepTokens, ClearStoredTokens, StoreTokens, Pairs

(* Pages that start, load a profile, sign out and close. *)
LEMMA PageStepInv ==
    ASSUME ClientInv, NEW t \in Tabs,
           \/ Open(t) \/ Restored(t) \/ Loaded(t) \/ SignOut(t) \/ Close(t)
    PROVE  PartsInv'
<1>0. BrowserInv /\ StorageTypeOK /\ PageTypeOK /\ PairKnown
  BY Parts DEF PartsInv
<1>1. UNCHANGED tokenVars /\ UNCHANGED stale
  BY DEF Open, Restored, Loaded, SignOut, Close
<1>2. KeepTokens \/ ClearStoredTokens
  BY DEF Open, Restored, Loaded, SignOut, Close, ClearSession
<1>3. StorageTypeOK' /\ received' = received /\ received \subseteq Tokens
  BY <1>0, <1>1, <1>2, StorageSteps DEF StorageTypeOK
<1>4. BrowserInv'
  BY <1>0, <1>1, <1>2, <1>3, QuietStep
     DEF tokenVars, KeepTokens, ClearStoredTokens
<1>5. /\ ask' \in [Tabs -> Requests \cup {NoTicket}]
      /\ refreshing' \in [Tabs -> Requests \cup {NoTicket}]
      /\ fetches' \in [Tabs -> [Fetches -> Fetch]]
      /\ presented' \in [Tabs -> SUBSET Tokens]
  <2>1. CASE Close(t)
    <3>1. [f \in Fetches |-> NoFetch] \in [Fetches -> Fetch]
      BY FetchValues
    <3>2. fetches' \in [Tabs -> [Fetches -> Fetch]]
      BY <1>0, <2>1, <3>1 DEF Close, PageTypeOK
    <3> QED
      BY <1>0, <2>1, <3>2 DEF Close, PageTypeOK
  <2>2. CASE ~Close(t)
    BY <1>0, <2>2 DEF Open, Restored, Loaded, SignOut, PageTypeOK
  <2> QED
    BY <2>1, <2>2
<1>6. CASE SignOut(t)
  <2>1. UNCHANGED <<page, pair>>
        /\ session' = [session EXCEPT ![t] = FALSE]
    BY <1>6 DEF SignOut, ClearSession
  <2> QED
    BY <1>0, <1>3, <1>4, <1>5, <2>1 DEF PartsInv, PageTypeOK, PairKnown
<1>7. CASE ~SignOut(t)
  <2>1. storage \in received \cup {NoToken}
    BY <1>0 DEF BrowserInv, Known
  <2>2. PICK p \in {"closed", "restoring", "ready"},
             n \in received \cup {NoToken}, signedIn \in BOOLEAN :
               /\ Becomes(t, p, n, signedIn)
               /\ p = "restoring" => n # NoToken
    BY <1>7, <2>1 DEF Open, Restored, Loaded, Close
  <2>3. /\ page' \in [Tabs -> {"closed", "restoring", "rotating",
                               "signing in", "loading", "ready"}]
        /\ pair' \in [Tabs -> Pairs]
        /\ session' \in [Tabs -> BOOLEAN]
        /\ PairKnown'
    BY <1>0, <1>3, <2>2, BecomesType
  <2> QED
    BY <1>3, <1>4, <1>5, <2>3 DEF PartsInv, PageTypeOK
<1> QED
  BY <1>6, <1>7

(* The login and the rotation of a page are sent. *)
LEMMA AskInv ==
    ASSUME ClientInv, NEW t \in Tabs, NEW r \in Requests,
           \/ RestoreRotates(t, r)
           \/ \E u \in Users : Login(t, r, u)
    PROVE  PartsInv'
<1>0. BrowserInv /\ StorageTypeOK /\ PageTypeOK /\ PairKnown /\ TokensTypeOK
  BY Parts DEF PartsInv
<1>1. KeepTokens /\ UNCHANGED <<stale, tokens, refreshing, fetches>>
      /\ ask' = [ask EXCEPT ![t] = r]
  BY DEF RestoreRotates, Login, Presents, SendRefresh, SendLogin
<1>2. StorageTypeOK' /\ received' = received /\ received \subseteq Tokens
  BY <1>0, <1>1, StorageSteps DEF StorageTypeOK
<1>3. PICK n \in received \cup {NoToken}, u \in Users \cup {NoUser} :
        requests' = [requests EXCEPT ![r] = Asked(n, u)]
  BY <1>0 DEF RestoreRotates, Login, Presents, SendRefresh, SendLogin,
              PairKnown
<1>4. BrowserInv'
  BY <1>0, <1>1, <1>3, SendStep DEF KeepTokens
<1>5. presented' \in [Tabs -> SUBSET Tokens]
  <2>1. CASE RestoreRotates(t, r)
    <3>1. pair[t] \in Tokens
      BY <1>0, <2>1 DEF RestoreRotates, PairKnown, StorageTypeOK
    <3>2. presented' = [presented EXCEPT ![t] = @ \cup {pair[t]}]
      BY <2>1 DEF RestoreRotates, Presents
    <3> QED
      BY <1>0, <3>1, <3>2 DEF PageTypeOK
  <2>2. CASE ~RestoreRotates(t, r)
    BY <1>0, <2>2 DEF Login, PageTypeOK
  <2> QED
    BY <2>1, <2>2
<1>6. PICK p \in {"rotating", "signing in"} : Becomes(t, p, NoToken, FALSE)
  BY DEF RestoreRotates, Login
<1>7. /\ page' \in [Tabs -> {"closed", "restoring", "rotating", "signing in",
                             "loading", "ready"}]
      /\ pair' \in [Tabs -> Pairs]
      /\ session' \in [Tabs -> BOOLEAN]
      /\ PairKnown'
  BY <1>0, <1>2, <1>6, BecomesType
<1> QED
  BY <1>0, <1>1, <1>2, <1>4, <1>5, <1>7 DEF PartsInv, PageTypeOK

(* Their answers are taken. *)
LEMMA AskSettlesInv ==
    ASSUME ClientInv, NEW t \in Tabs, AskSettles(t)
    PROVE  PartsInv'
<1>0. BrowserInv /\ StorageTypeOK /\ PageTypeOK /\ PairKnown /\ TokensTypeOK
  BY Parts DEF PartsInv
<1> DEFINE r == ask[t]
<1>1. r \in Requests /\ Forget(r)
  BY <1>0 DEF AskSettles, PageTypeOK
<1>2. UNCHANGED <<stale, refreshing, fetches, presented>>
      /\ ask' = [ask EXCEPT ![t] = NoTicket]
  BY DEF AskSettles
<1>3. BrowserInv'
  BY <1>0, <1>1, TakeStep DEF AskSettles, AskFails
<1>4. CASE /\ requests[r].step = "issued"
           /\ StoreTokens(requests[r].pair)
           /\ Becomes(t, "loading", requests[r].pair, FALSE)
  <2>1. requests[r].pair \in Tokens
    BY <1>0, <1>1, <1>4 DEF BrowserInv, Fresh, Issued
  <2>2. /\ StorageTypeOK' /\ requests[r].pair \in received'
        /\ received \subseteq received' /\ received' \subseteq Tokens
    BY <1>0, <1>2, <1>4, <2>1, StorageSteps DEF StorageTypeOK
  <2>3. /\ page' \in [Tabs -> {"closed", "restoring", "rotating",
                               "signing in", "loading", "ready"}]
        /\ pair' \in [Tabs -> Pairs]
        /\ session' \in [Tabs -> BOOLEAN]
        /\ PairKnown'
    BY <1>0, <1>4, <2>2, BecomesType
  <2> QED
    BY <1>0, <1>2, <1>3, <2>2, <2>3 DEF PartsInv, PageTypeOK
<1>5. CASE ClearStoredTokens /\ Becomes(t, "ready", NoToken, FALSE)
  <2>1. StorageTypeOK' /\ received' = received /\ received \subseteq Tokens
    BY <1>0, <1>2, <1>5, StorageSteps DEF StorageTypeOK
  <2>2. /\ page' \in [Tabs -> {"closed", "restoring", "rotating",
                               "signing in", "loading", "ready"}]
        /\ pair' \in [Tabs -> Pairs]
        /\ session' \in [Tabs -> BOOLEAN]
        /\ PairKnown'
    BY <1>0, <1>5, <2>1, BecomesType
  <2> QED
    BY <1>0, <1>2, <1>3, <2>1, <2>2 DEF PartsInv, PageTypeOK
<1> QED
  BY <1>4, <1>5 DEF AskSettles, AskFails

(* Calls that neither send a refresh nor take its answer. *)
LEMMA FetchInv ==
    ASSUME ClientInv, NEW t \in Tabs, NEW f \in Fetches,
           \/ StartFetch(t, f) \/ FetchEnds(t, f) \/ RefreshImpossible(t, f)
           \/ JoinRefresh(t, f) \/ RefusedAgain(t, f)
    PROVE  PartsInv'
<1>0. BrowserInv /\ StorageTypeOK /\ PageTypeOK /\ PairKnown
  BY Parts DEF PartsInv
<1>1. UNCHANGED tokenVars
      /\ UNCHANGED <<stale, page, pair, ask, refreshing, presented>>
  BY DEF StartFetch, FetchEnds, RefreshImpossible, JoinRefresh, RefusedAgain
<1>2. KeepTokens \/ ClearStoredTokens
  BY DEF StartFetch, FetchEnds, RefreshImpossible, JoinRefresh, RefusedAgain,
         ClearSession
<1>3. StorageTypeOK' /\ received' = received
  BY <1>0, <1>1, <1>2, StorageSteps
<1>4. BrowserInv'
  BY <1>0, <1>1, <1>2, <1>3, QuietStep
     DEF tokenVars, KeepTokens, ClearStoredTokens
<1>5. fetches' \in [Tabs -> [Fetches -> Fetch]]
  <2>1. PICK v \in Fetch : SetFetch(t, f, v)
    BY <1>0, FetchValues
       DEF StartFetch, FetchEnds, RefreshImpossible, JoinRefresh,
           RefusedAgain, StorageTypeOK
  <2> QED
    BY <1>0, <2>1, SetFetchType
<1>6. session' \in [Tabs -> BOOLEAN]
  BY <1>0 DEF StartFetch, FetchEnds, RefreshImpossible, JoinRefresh,
              RefusedAgain, ClearSession, PageTypeOK
<1> QED
  BY <1>0, <1>1, <1>3, <1>4, <1>5, <1>6 DEF PartsInv, PageTypeOK, PairKnown

LEMMA StartRefreshInv ==
    ASSUME ClientInv, NEW t \in Tabs, NEW f \in Fetches, NEW r \in Requests,
           StartRefresh(t, f, r)
    PROVE  PartsInv'
<1>0. BrowserInv /\ StorageTypeOK /\ PageTypeOK /\ PairKnown /\ TokensTypeOK
  BY Parts DEF PartsInv
<1>1. KeepTokens /\ UNCHANGED <<stale, tokens, page, pair, session, ask>>
      /\ refreshing' = [refreshing EXCEPT ![t] = r]
      /\ SetFetch(t, f, Waiting)
      /\ requests' = [requests EXCEPT ![r] = Asked(storage, NoUser)]
      /\ presented' = [presented EXCEPT ![t] = @ \cup {storage}]
      /\ storage # NoToken
  BY DEF StartRefresh, Presents, SendRefresh
<1>2. StorageTypeOK' /\ received' = received
  BY <1>0, <1>1, StorageSteps
<1>3. storage \in received /\ storage \in Tokens
  BY <1>0, <1>1 DEF BrowserInv, Known, StorageTypeOK
<1>4. BrowserInv'
  BY <1>0, <1>1, <1>3, SendStep DEF KeepTokens
<1>5. fetches' \in [Tabs -> [Fetches -> Fetch]]
  BY <1>0, <1>1, SetFetchType, FetchValues
<1>6. /\ presented' \in [Tabs -> SUBSET Tokens]
      /\ refreshing' \in [Tabs -> Requests \cup {NoTicket}]
  BY <1>0, <1>1, <1>3 DEF PageTypeOK
<1> QED
  BY <1>0, <1>1, <1>2, <1>4, <1>5, <1>6 DEF PartsInv, PageTypeOK, PairKnown

LEMMA RefreshSettlesInv ==
    ASSUME ClientInv, NEW t \in Tabs, RefreshSettles(t)
    PROVE  PartsInv'
<1>0. BrowserInv /\ StorageTypeOK /\ PageTypeOK /\ PairKnown /\ TokensTypeOK
  BY Parts DEF PartsInv
<1> DEFINE r == refreshing[t]
<1>1. r \in Requests /\ Forget(r)
  BY <1>0 DEF RefreshSettles, PageTypeOK
<1>2. UNCHANGED <<stale, page, pair, ask, presented>>
      /\ refreshing' = [refreshing EXCEPT ![t] = NoTicket]
  BY DEF RefreshSettles
<1>3. BrowserInv'
  BY <1>0, <1>1, TakeStep
     DEF RefreshSettles, StoredByRefresh, ClearSession, AnswerGood
<1>4. StorageTypeOK' /\ received \subseteq received'
  <2>1. CASE /\ requests[r].step = "issued"
             /\ StoreTokens(requests[r].pair)
    <3>1. requests[r].pair \in Tokens
      BY <1>0, <1>1, <2>1 DEF BrowserInv, Fresh, Issued
    <3> QED
      BY <1>0, <1>2, <2>1, <3>1, StorageSteps
  <2>2. CASE ClearStoredTokens
    BY <1>0, <1>2, <2>2, StorageSteps
  <2> QED
    BY <2>1, <2>2
       DEF RefreshSettles, StoredByRefresh, ClearSession, AnswerGood
<1>5. session' \in [Tabs -> BOOLEAN]
  BY <1>0 DEF RefreshSettles, ClearSession, PageTypeOK
<1>6. fetches' \in [Tabs -> [Fetches -> Fetch]]
  <2>1. storage' \in Pairs
    BY <1>4 DEF StorageTypeOK
  <2> QED
    BY <1>0, <2>1, SettledFetchesType DEF RefreshSettles
<1> QED
  BY <1>0, <1>2, <1>3, <1>4, <1>5, <1>6 DEF PartsInv, PageTypeOK, PairKnown

(* Steps of the server and of time. *)
LEMMA HandleInv ==
    ASSUME ClientInv, TokensAssumption, NEW r \in Requests, Handle(r)
    PROVE  PartsInv'
<1>0. BrowserInv /\ StorageTypeOK /\ PageTypeOK /\ PairKnown /\ TokensTypeOK
  BY Parts DEF PartsInv
<1>1. UNCHANGED <<storage, received>> /\ UNCHANGED stale
      /\ UNCHANGED pageVars /\ KeepTokens
  BY DEF Handle, KeepTokens
<1>2. BrowserInv'
  <2>1. CASE LoadRefreshToken(r) \/ LoadAccount(r)
    <3>1. UNCHANGED tokens
      BY <2>1 DEF LoadRefreshToken, LoadAccount
    <3>2. requests[r].user \in Users \cup {NoUser}
      BY <1>0 DEF TokensTypeOK, Request
    <3>3. \A n \in Tokens : tokens[n].user \in Users \cup {NoUser}
      BY <1>0 DEF TokensTypeOK, Token
    <3>4. \/ Refuses(r)
          \/ \E step \in {"loaded", "checked"}, u \in Users \cup {NoUser} :
                Moves(r, step, u)
      BY <2>1, <3>2, <3>3
         DEF LoadRefreshToken, LoadAccount, Valid, Live, Issued
    <3> QED
      BY <1>0, <1>1, <3>1, <3>4, HandlerStep
  <2>2. CASE \E m \in Tokens : Issue(r, m)
    BY <1>1, <2>2, IssueStep
  <2>3. CASE RefreshConflict(r) \/ Fail(r)
    BY <1>0, <1>1, <2>3, HandlerStep DEF RefreshConflict, Fail
  <2>4. CASE Forget(r)
    BY <1>0, <1>1, <2>4, TakeStep
  <2> QED
    BY <2>1, <2>2, <2>3, <2>4 DEF Handle
<1> QED
  BY <1>0, <1>1, <1>2 DEF PartsInv, StorageTypeOK, PageTypeOK, PairKnown,
                          pageVars

LEMMA ElsewhereInv ==
    ASSUME ClientInv,
           Elsewhere \/ (\E n \in Tokens : AccessExpires(n)) \/ UNCHANGED vars
    PROVE  PartsInv'
<1>0. BrowserInv /\ StorageTypeOK /\ PageTypeOK /\ PairKnown /\ TokensTypeOK
  BY Parts DEF PartsInv
<1>1. UNCHANGED <<storage, received>> /\ UNCHANGED pageVars
  BY DEF Elsewhere, AccessExpires, KeepTokens, vars
<1>2. BrowserInv'
  <2>1. CASE \E n \in Tokens : Expire(n)
    BY <1>0, <1>1, <2>1, ExpireStep
  <2>2. CASE UNCHANGED <<tokens, requests>>
    BY <1>0, <1>1, <2>2, QuietStep
  <2> QED
    BY <2>1, <2>2
       DEF Elsewhere, AccessExpires, SetDisabled, vars, tokenVars
<1>3. StorageTypeOK'
  BY <1>0, <1>1 DEF Elsewhere, AccessExpires, vars, StorageTypeOK
<1> QED
  BY <1>0, <1>1, <1>2, <1>3 DEF PartsInv, PageTypeOK, PairKnown, pageVars

-----------------------------------------------------------------------------
LEMMA ClientInitInv == TokensAssumption /\ Init => ClientInv
<1> SUFFICES ASSUME TokensAssumption, Init
             PROVE  ClientInv
  OBVIOUS
<1>1. TokensInv
  BY TokensInitInv DEF Init
<1>2. Issued = {}
  BY DEF Init, TokensInit, Issued, Unissued
<1>3. BrowserInv
  BY <1>2 DEF Init, TokensInit, BrowserInv, Known, Fresh,
              StoredTokenIsNewest, Unissued, NoRequest
<1>4. StorageTypeOK /\ PairKnown
  BY DEF Init, StorageTypeOK, PairKnown, Pairs
<1>5. [f \in Fetches |-> NoFetch] \in [Fetches -> Fetch]
  BY FetchValues
<1>6. PageTypeOK
  BY <1>5 DEF Init, PageTypeOK, Pairs
<1> QED
  BY <1>1, <1>3, <1>4, <1>6, Parts DEF PartsInv

LEMMA ClientStepInv ==
    ASSUME TokensAssumption, ClientInv, [Next]_vars
    PROVE  ClientInv'
<1>1. TokensInv'
  BY ServerStep, TokensStepInv DEF ClientInv
<1>2. PartsInv'
  <2>1. ASSUME NEW t \in Tabs,
               \/ Open(t) \/ Restored(t) \/ Loaded(t) \/ SignOut(t)
               \/ Close(t)
        PROVE  PartsInv'
    BY <2>1, PageStepInv
  <2>2. ASSUME NEW t \in Tabs, Restores(t)
        PROVE  PartsInv'
    BY <2>1, <2>2, AskInv DEF Restores
  <2>3. ASSUME NEW t \in Tabs, NEW r \in Requests, NEW u \in Users,
               Login(t, r, u)
        PROVE  PartsInv'
    BY <2>3, AskInv
  <2>4. ASSUME NEW t \in Tabs, AskSettles(t) \/ RefreshSettles(t)
        PROVE  PartsInv'
    BY <2>4, AskSettlesInv, RefreshSettlesInv
  <2>5. ASSUME NEW t \in Tabs, NEW f \in Fetches,
               StartFetch(t, f) \/ FetchStep(t, f)
        PROVE  PartsInv'
    BY <2>5, FetchInv, StartRefreshInv DEF FetchStep
  <2>6. ASSUME NEW r \in Requests, Handle(r)
        PROVE  PartsInv'
    BY <2>6, HandleInv
  <2>7. CASE Elsewhere \/ (\E n \in Tokens : AccessExpires(n))
             \/ UNCHANGED vars
    BY <2>7, ElsewhereInv
  <2> QED
    BY <2>1, <2>2, <2>3, <2>4, <2>5, <2>6, <2>7 DEF Next
<1>3. (TokensInv /\ PartsInv => ClientInv)'
  BY DEF ClientInv, PartsInv, TypeOK, TokensInv, StorageTypeOK, PageTypeOK
<1> QED
  BY <1>1, <1>2, <1>3

(* The invariant of the client, for any number of tabs and calls. *)
THEOREM ClientInvariant == Spec => []ClientInv
<1>1. Init => ClientInv
  BY ClientInitInv, TokensAssumption
<1>2. ClientInv /\ [Next]_vars => ClientInv'
  BY ClientStepInv, TokensAssumption
<1> QED
  BY <1>1, <1>2, PTL DEF Spec

(* The state of the browser has its type. *)
THEOREM ClientTypeCorrect == Spec => []TypeOK
<1>1. ClientInv => TypeOK
  BY DEF ClientInv
<1> QED
  BY <1>1, ClientInvariant, PTL

(* Whatever the tabs do at the same time, the storage never holds a token  *)
(* whose replacement the browser has had.                                  *)
THEOREM StoredTokenStaysNewest == Spec => []StoredTokenIsNewest
<1>1. ClientInv => StoredTokenIsNewest
  BY DEF ClientInv, BrowserInv
<1> QED
  BY <1>1, ClientInvariant, PTL

(* The browser does to the server only what the table of tokens is proved  *)
(* for: what holds of RefreshTokens holds under the tabs of a browser.     *)
THEOREM BrowserImplementsClients == Spec => ServerBehaves
<1>1. Init => TokensInit
  BY DEF Init
<1>2. ClientInv /\ [Next]_vars => [TokensNext]_tokenVars
  BY ServerStep
<1> QED
  BY <1>1, <1>2, ClientInvariant, PTL DEF Spec, ServerBehaves, TokensSpec

-----------------------------------------------------------------------------
(* What a page has presented.  It presents the token it was opened with,   *)
(* or one that was stored; what has been presented is replaced before the  *)
(* page presents again, because calls wait for one another (refreshing)    *)
(* and begin only behind the start of the page (rotating); and what has    *)
(* left the storage never comes back.                                      *)
PresentedAt(t) ==
    /\ presented[t] \subseteq received
    /\ page[t] \in {"closed", "restoring"} => presented[t] = {}
    /\ page[t] \in {"closed", "restoring", "rotating"} =>
          \A f \in Fetches : fetches[t][f].step = "none"
    /\ storage \in presented[t] => page[t] = "rotating" \/ refreshing[t] # NoTicket

PresentedInv == \A t \in Tabs : PresentedAt(t)

Calling(t) == {r \in Requests : r \in {ask[t], refreshing[t]}}

(* What a step asks for newly, it has not presented. *)
AsksAnew(t) ==
    \A r \in Calling(t)' \ Calling(t) : requests'[r].token \notin presented[t]

(* Only what is new to the browser comes into the storage. *)
NewlyStored ==
    /\ received \subseteq received'
    /\ storage' \in {storage, NoToken} \/ storage' \notin received

LEMMA StoresNew ==
    ASSUME ClientInv, [Next]_vars PROVE NewlyStored
<1>1. ASSUME NEW t \in Tabs, AskSettles(t) PROVE NewlyStored
  <2>1. ask[t] \in Requests  BY <1>1 DEF AskSettles, ClientInv, TypeOK
  <2> QED  BY <1>1, <2>1 DEF AskSettles, AskFails, ClearStoredTokens, StoreTokens,
                             NewlyStored, ClientInv, BrowserInv, Fresh
<1>2. ASSUME NEW t \in Tabs, RefreshSettles(t) PROVE NewlyStored
  <2>1. refreshing[t] \in Requests  BY <1>2 DEF RefreshSettles, ClientInv, TypeOK
  <2> QED  BY <1>2, <2>1 DEF RefreshSettles, AnswerGood, StoredByRefresh, ClearSession,
                             ClearStoredTokens, StoreTokens, NewlyStored, ClientInv,
                             BrowserInv, Fresh
<1>3. ASSUME KeepTokens \/ ClearStoredTokens \/ UNCHANGED vars PROVE NewlyStored
  BY <1>3 DEF KeepTokens, ClearStoredTokens, NewlyStored, vars
<1>4. ASSUME NEW t \in Tabs,
             \/ Open(t) \/ Restores(t) \/ Loaded(t) \/ SignOut(t) \/ Close(t)
             \/ \E r \in Requests, u \in Users : Login(t, r, u)
      PROVE  KeepTokens \/ ClearStoredTokens
  BY <1>4 DEF Open, Restores, Restored, RestoreRotates, Loaded, SignOut, Close, Login,
              ClearSession
<1>5. ASSUME NEW t \in Tabs, NEW f \in Fetches, StartFetch(t, f) \/ FetchStep(t, f)
      PROVE  KeepTokens \/ ClearStoredTokens
  BY <1>5 DEF StartFetch, FetchStep, FetchEnds, RefreshImpossible, StartRefresh,
              JoinRefresh, RefusedAgain, ClearSession
<1>6. ASSUME \/ \E r \in Requests : Handle(r)
             \/ Elsewhere \/ \E n \in Tokens : AccessExpires(n)
      PROVE  KeepTokens
  BY <1>6 DEF Handle, Elsewhere, AccessExpires
<1> QED  BY <1>1, <1>2, <1>3, <1>4, <1>5, <1>6 DEF Next

(* A step of another tab, of the server or of time. *)
LEMMA TabStays ==
    ASSUME ClientInv, NewlyStored, NEW t \in Tabs, PresentedAt(t),
           page'[t] = page[t], presented'[t] = presented[t], fetches'[t] = fetches[t],
           refreshing'[t] = refreshing[t], ask'[t] = ask[t]
    PROVE  PresentedAt(t)' /\ AsksAnew(t)
<1>1. NoToken \notin presented[t]
  BY TokensAssumption DEF ClientInv, TypeOK
<1>2. storage' \in presented'[t] => storage \in presented[t]
  BY <1>1 DEF NewlyStored, PresentedAt
<1>3. PresentedAt(t)'  BY <1>2 DEF NewlyStored, PresentedAt
<1>4. Calling(t)' = Calling(t)  BY DEF Calling
<1> QED  BY <1>3, <1>4 DEF AsksAnew

(* The steps of a page, but for its calls. *)
LEMMA PresentedPage ==
    ASSUME ClientInv, NewlyStored, NEW t \in Tabs, PresentedAt(t),
           \/ Open(t) \/ Restores(t) \/ Loaded(t) \/ SignOut(t) \/ Close(t)
           \/ AskSettles(t)
           \/ \E r \in Requests, u \in Users : Login(t, r, u)
    PROVE  PresentedAt(t)' /\ AsksAnew(t)
<1>1. /\ NoToken \notin presented[t] /\ NoTicket \notin Requests
      /\ page \in [Tabs -> {"closed", "restoring", "rotating", "signing in",
                            "loading", "ready"}]
      /\ presented \in [Tabs -> SUBSET Tokens] /\ requests \in [Requests -> Request]
      /\ ask \in [Tabs -> Requests \cup {NoTicket}]
      /\ refreshing \in [Tabs -> Requests \cup {NoTicket}]
      /\ fetches \in [Tabs -> [Fetches -> Fetch]]
  BY TokensAssumption, ClientAssumption DEF ClientInv, TypeOK, TokensTypeOK
<1>2. storage' \in presented[t] => storage \in presented[t]
  BY <1>1 DEF NewlyStored, PresentedAt
<1>3. CASE Open(t)
  <2>1. /\ page[t] = "closed" /\ page'[t] \in {"restoring", "ready"}
        /\ UNCHANGED <<ask, refreshing, fetches, presented>>
    BY <1>1, <1>3 DEF Open, Becomes
  <2> QED  BY <1>2, <2>1 DEF PresentedAt, NewlyStored, AsksAnew, Calling
<1>4. CASE Restored(t) \/ Loaded(t) \/ SignOut(t)
  <2>1. /\ page[t] \in {"restoring", "loading", "ready"} /\ page'[t] = "ready"
        /\ UNCHANGED <<ask, refreshing, fetches, presented>>
    BY <1>1, <1>4 DEF Restored, Loaded, SignOut, Becomes
  <2> QED  BY <1>2, <2>1 DEF PresentedAt, NewlyStored, AsksAnew, Calling
<1>5. ASSUME NEW r \in Requests, RestoreRotates(t, r) PROVE PresentedAt(t)' /\ AsksAnew(t)
  <2>1. /\ page[t] = "restoring" /\ page'[t] = "rotating" /\ ask'[t] = r
        /\ UNCHANGED <<refreshing, fetches, storage, received>>
        /\ presented'[t] = presented[t] \cup {pair[t]}
    BY <1>1, <1>5 DEF RestoreRotates, Becomes, Presents, KeepTokens
  <2>2. pair[t] \in received  BY <2>1 DEF ClientInv, PairKnown
  <2>3. PresentedAt(t)'  BY <2>1, <2>2 DEF PresentedAt
  <2>4. presented[t] = {}  BY <2>1 DEF PresentedAt
  <2> QED  BY <2>3, <2>4 DEF AsksAnew
<1>6. CASE Close(t)
  <2>1. /\ page'[t] = "closed" /\ ask'[t] = NoTicket /\ refreshing'[t] = NoTicket
        /\ fetches'[t] = [f \in Fetches |-> NoFetch] /\ presented'[t] = {}
    BY <1>1, <1>6 DEF Close, Becomes
  <2>2. \A f \in Fetches : fetches'[t][f].step = "none"  BY <2>1 DEF NoFetch
  <2>3. PresentedAt(t)'  BY <2>1, <2>2 DEF PresentedAt
  <2>4. Calling(t)' = {}  BY <1>1, <2>1 DEF Calling
  <2> QED  BY <2>3, <2>4 DEF AsksAnew
<1>7. CASE AskSettles(t)
  <2>1. /\ page[t] \in {"rotating", "signing in"} /\ page'[t] \in {"loading", "ready"}
        /\ ask'[t] = NoTicket /\ UNCHANGED <<refreshing, fetches, presented>>
        /\ storage' = NoToken \/ storage' \notin received
    <3>1. ask[t] \in Requests  BY <1>1, <1>7 DEF AskSettles
    <3> QED  BY <1>1, <1>7, <3>1 DEF AskSettles, AskFails, Becomes, ClearStoredTokens,
                                     StoreTokens, ClientInv, BrowserInv, Fresh
  <2>2. storage' \notin presented[t]  BY <1>1, <2>1 DEF PresentedAt
  <2> QED  BY <1>1, <2>1, <2>2 DEF PresentedAt, NewlyStored, AsksAnew, Calling
<1>8. ASSUME NEW r \in Requests, NEW u \in Users, Login(t, r, u)
      PROVE  PresentedAt(t)' /\ AsksAnew(t)
  <2>1. /\ page[t] = "ready" /\ page'[t] = "signing in" /\ ask'[t] = r
        /\ UNCHANGED <<refreshing, fetches, presented>>
        /\ requests'[r] = Asked(NoToken, u)
    BY <1>1, <1>8 DEF Login, Becomes, SendLogin
  <2>2. PresentedAt(t)'  BY <1>2, <2>1 DEF PresentedAt, NewlyStored
  <2>3. requests'[r].token = NoToken
    <3>1. Asked(NoToken, u).token = NoToken  BY DEF Asked
    <3>2. requests'[r] = Asked(NoToken, u)  BY <2>1
    <3> QED  BY ONLY <3>1, <3>2
  <2> QED  BY <1>1, <2>1, <2>2, <2>3 DEF AsksAnew, Calling
<1> QED  BY <1>3, <1>4, <1>5, <1>6, <1>7, <1>8 DEF Restores

(* Its calls. *)
LEMMA PresentedCalls ==
    ASSUME ClientInv, NewlyStored, NEW t \in Tabs, PresentedAt(t),
           \/ \E f \in Fetches : StartFetch(t, f) \/ FetchStep(t, f)
           \/ RefreshSettles(t)
    PROVE  PresentedAt(t)' /\ AsksAnew(t)
<1>1. /\ NoToken \notin presented[t] /\ NoTicket \notin Requests
      /\ presented \in [Tabs -> SUBSET Tokens] /\ requests \in [Requests -> Request]
      /\ refreshing \in [Tabs -> Requests \cup {NoTicket}]
      /\ fetches \in [Tabs -> [Fetches -> Fetch]]
  BY TokensAssumption, ClientAssumption DEF ClientInv, TypeOK, TokensTypeOK
<1>2. storage' \in presented[t] => storage \in presented[t]
  BY <1>1 DEF NewlyStored, PresentedAt
<1>3. ASSUME NEW f \in Fetches,
             \/ StartFetch(t, f) \/ FetchEnds(t, f) \/ RefreshImpossible(t, f)
             \/ JoinRefresh(t, f) \/ RefusedAgain(t, f)
      PROVE  PresentedAt(t)' /\ AsksAnew(t)
  <2>1. /\ UNCHANGED <<page, ask, refreshing, presented>>
        /\ page[t] \notin {"closed", "restoring", "rotating"}
    BY <1>3 DEF StartFetch, FetchEnds, RefreshImpossible, JoinRefresh, RefusedAgain,
                PresentedAt
  <2> QED  BY <1>2, <2>1 DEF PresentedAt, NewlyStored, AsksAnew, Calling
<1>4. ASSUME NEW f \in Fetches, NEW r \in Requests, StartRefresh(t, f, r)
      PROVE  PresentedAt(t)' /\ AsksAnew(t)
  <2>1. /\ fetches[t][f].step = "sent" /\ refreshing[t] = NoTicket /\ storage # NoToken
        /\ UNCHANGED <<page, ask, storage, received>> /\ refreshing'[t] = r
        /\ presented'[t] = presented[t] \cup {storage}
        /\ requests'[r] = Asked(storage, NoUser)
    BY <1>1, <1>4 DEF StartRefresh, MayStartRefresh, KeepTokens, Presents, SendRefresh
  <2>2. page[t] \notin {"closed", "restoring", "rotating"}  BY <2>1 DEF PresentedAt
  <2>3. storage \in received  BY <2>1 DEF ClientInv, BrowserInv, Known
  <2>4. PresentedAt(t)'  BY <1>1, <2>1, <2>2, <2>3 DEF PresentedAt
  <2>5. storage \notin presented[t]  BY <2>1, <2>2 DEF PresentedAt
  <2>6. Asked(storage, NoUser).token = storage  BY DEF Asked
  <2>7. requests'[r].token = storage  BY <2>1, <2>6
  <2>8. Calling(t)' \subseteq Calling(t) \cup {r}  BY <2>1 DEF Calling
  <2> QED  BY <2>4, <2>5, <2>7, <2>8 DEF AsksAnew
<1>5. CASE RefreshSettles(t)
  <2>1. refreshing[t] \in Requests  BY <1>1, <1>5 DEF RefreshSettles
  <2>2. /\ UNCHANGED <<page, ask, presented>> /\ refreshing'[t] = NoTicket
        /\ storage' = NoToken \/ storage' \notin received
        /\ fetches'[t] = Repeated(t) \/ fetches'[t] = Ended(t)
    BY <1>1, <1>5, <2>1 DEF RefreshSettles, AnswerGood, StoredByRefresh, ClearSession,
          ClearStoredTokens, StoreTokens, ClientInv, BrowserInv, Fresh
  <2>3. storage' \notin presented'[t]  BY <1>1, <2>2 DEF PresentedAt
  <2>4. \A f \in Fetches : fetches[t][f].step = "none" => fetches'[t][f].step = "none"
    BY <2>2 DEF Repeated, Ended, NoFetch
  <2>5. PresentedAt(t)'  BY <2>2, <2>3, <2>4 DEF PresentedAt, NewlyStored
  <2>6. Calling(t)' \subseteq Calling(t)  BY <1>1, <2>2 DEF Calling
  <2> QED  BY <2>5, <2>6 DEF AsksAnew
<1> QED  BY <1>3, <1>4, <1>5 DEF FetchStep

LEMMA PresentedStep ==
    ASSUME ClientInv, PresentedInv, [Next]_vars
    PROVE  PresentedInv' /\ \A t \in Tabs : AsksAnew(t)
<1>1. NewlyStored  BY StoresNew
<1> SUFFICES ASSUME NEW t \in Tabs PROVE PresentedAt(t)' /\ AsksAnew(t)
  BY DEF PresentedInv
<1>2. PresentedAt(t)  BY DEF PresentedInv
<1> DEFINE Same == /\ page'[t] = page[t] /\ presented'[t] = presented[t]
                   /\ fetches'[t] = fetches[t] /\ refreshing'[t] = refreshing[t]
                   /\ ask'[t] = ask[t]
           PageStep(u) == \/ Open(u) \/ Restores(u) \/ Loaded(u) \/ SignOut(u) \/ Close(u)
                          \/ AskSettles(u)
                          \/ \E r \in Requests, v \in Users : Login(u, r, v)
           CallStep(u) == \/ \E f \in Fetches : StartFetch(u, f) \/ FetchStep(u, f)
                          \/ RefreshSettles(u)
<1>3. CASE Same  BY <1>1, <1>2, <1>3, TabStays
<1>4. CASE PageStep(t)  BY <1>1, <1>2, <1>4, PresentedPage
<1>5. CASE CallStep(t)  BY <1>1, <1>2, <1>5, PresentedCalls
<1>6. ASSUME NEW u \in Tabs \ {t}, PageStep(u) PROVE Same
  BY <1>6 DEF ClientInv, TypeOK, Open, Restores, Restored, RestoreRotates, Loaded, SignOut,
              Close, AskSettles, AskFails, Login, Becomes, Presents, ClearSession
<1>7. ASSUME NEW u \in Tabs \ {t}, CallStep(u) PROVE Same
  BY <1>7 DEF ClientInv, TypeOK, StartFetch, FetchStep, FetchEnds, RefreshImpossible,
              StartRefresh, JoinRefresh, RefusedAgain, RefreshSettles, SetFetch, Presents
<1>8. ASSUME \/ \E r \in Requests : Handle(r)
             \/ Elsewhere \/ (\E n \in Tokens : AccessExpires(n)) \/ UNCHANGED vars
      PROVE  Same
  BY <1>8 DEF Handle, Elsewhere, AccessExpires, pageVars, vars
<1>9. \/ \E u \in Tabs : PageStep(u) \/ CallStep(u)
      \/ \E r \in Requests : Handle(r)
      \/ Elsewhere \/ (\E n \in Tokens : AccessExpires(n)) \/ UNCHANGED vars
  BY DEF Next
<1> HIDE DEF Same, PageStep, CallStep
<1> QED  BY <1>3, <1>4, <1>5, <1>6, <1>7, <1>8, <1>9

(* For every number of tabs and calls: a page never presents a refresh     *)
(* token again, although calls end and begin while a refresh is under way  *)
(* and other tabs sign in, refresh and sign out over the same storage.     *)
THEOREM PresentsOnce == Spec => PresentedOnce
<1> DEFINE Anew == \A t \in Tabs, r \in Requests :
                      r \in {ask'[t], refreshing'[t]} \ {ask[t], refreshing[t]}
                         => requests'[r].token \notin presented[t]
<1>1. Init => PresentedInv
  BY DEF Init, PresentedInv, PresentedAt, NoFetch
<1>2. ClientInv /\ PresentedInv /\ [Next]_vars => PresentedInv'
  BY PresentedStep
<1>3. ASSUME ClientInv, PresentedInv, [Next]_vars PROVE [Anew]_vars
  BY <1>3, PresentedStep DEF AsksAnew, Calling
<1> HIDE DEF Anew
<1>4. Spec => [][Anew]_vars
  BY <1>1, <1>2, <1>3, ClientInvariant, PTL DEF Spec
<1> QED  BY <1>4 DEF Anew, PresentedOnce
=============================================================================
