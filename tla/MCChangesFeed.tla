---------------------------- MODULE MCChangesFeed ----------------------------
(* Two regions that contend for a title, and a client of one of them.      *)
EXTENDS ChangesFeed

CONSTANTS r1, r2, cl, ta, tb

Document(title, refs) ==
    [deleted |-> FALSE, ok |-> TRUE, title |-> title, refs |-> refs]
Malformed == [deleted |-> FALSE, ok |-> FALSE, title |-> ta, refs |-> {}]

Lookups == {r1, r2, cl}
LookupKind == [i \in Lookups |-> IF i = cl THEN "client" ELSE "region"]
LookupVersions ==
    [i \in Lookups |->
        CASE i = r1 -> {Document(ta, {}), Document(tb, {}), NoDoc}
          [] i = r2 -> {Document(ta, {}), Malformed, Document(NoTitle, {})}
          [] i = cl -> {Document(ta, {r1})}]
=============================================================================
