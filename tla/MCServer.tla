------------------------------ MODULE MCServer ------------------------------
(***************************************************************************)
(* Small instances of four parts of the server side by side: the numbers   *)
(* of tickets, the refresh tokens under clients that present any token at  *)
(* any time, the photo of a profile, and the changes feed in mode now,     *)
(* with a region, a client and its contact.  They share no table, so a     *)
(* behaviour is one of a single part, chosen at first, and no interleaving *)
(* is lost.                                                                *)
(***************************************************************************)
EXTENDS TicketNumbers, RefreshTokens, Avatars, ChangesFeed

CONSTANTS region, client, contact, title, other

Document(refs) == [deleted |-> FALSE, ok |-> TRUE, title |-> title, refs |-> refs]

Owned == {region, client, contact}
OwnedKind ==
    [i \in Owned |-> CASE i = region -> "region"
                       [] i = client -> "client"
                       [] i = contact -> "contact"]
OwnedVersions ==
    [i \in Owned |->
        CASE i = region -> {Document({}), NoDoc}
          [] i = client -> {Document({region}), NoDoc}
          [] i = contact -> {Document({client}), NoDoc}]

VARIABLE part    \* the part that the behaviour is one of

MCInit ==
    /\ part \in {"numbers", "tokens", "photo", "feed"}
    /\ NumbersInit
    /\ TokensInit
    /\ AvatarsInit
    /\ Init
    /\ part # "feed" => change.id = region

MCNext ==
    /\ UNCHANGED part
    /\ \/ /\ part = "numbers" /\ NumbersNext
          /\ UNCHANGED <<tokenVars, avatarVars, vars>>
       \/ /\ part = "tokens" /\ TokensNext
          /\ UNCHANGED <<numberVars, avatarVars, vars>>
       \/ /\ part = "photo" /\ AvatarsNext
          /\ UNCHANGED <<numberVars, tokenVars, vars>>
       \/ /\ part = "feed" /\ Next
          /\ UNCHANGED <<numberVars, tokenVars, avatarVars>>

MCSpec == MCInit /\ [][MCNext]_<<part, numberVars, tokenVars, avatarVars, vars>>
=============================================================================
