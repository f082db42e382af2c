---------------------------- MODULE AccountImport ----------------------------
(***************************************************************************)
(* The accounts of the employees of the legacy system: the step "users" of *)
(* the import (server/internal/legacyimport/users).  A user becomes the    *)
(* account with the id of the document; the name of the account is made    *)
(* from the name of the person, with a number for each further person of   *)
(* that name in the same dump.  An account that has the name already, but  *)
(* another id, is taken for one that the person has registered, and is     *)
(* moved to the id of the document with all that it has written.           *)
(***************************************************************************)
EXTENDS Naturals, FiniteSets

CONSTANTS
    People,         \* the users of the legacy system, in the order of their ids
    Others,         \* ids of accounts that come from the application
    HolderOf,       \* the person that uses such an account
    Bases,          \* names of people, as legacyUsernameBase writes them
    Base,           \* the name of each
    DepartmentOf,   \* the department of a user, if the dump has it
    Departments,
    NoDepartment,
    Things,         \* comments and tickets that accounts of the server write
    NoAccount,
    Nobody

Ids == People \cup Others

(* An account and its profile. *)
Account ==
    [name : [base : Bases, nr : Nat], disabled : BOOLEAN,
     department : Departments \cup {NoDepartment}]

ASSUME AccountImportAssumption ==
    /\ People \subseteq Nat /\ IsFiniteSet(People) /\ People \cap Others = {}
    /\ NoAccount \notin Account
    /\ Nobody \notin Ids
    /\ Base \in [People -> Bases]
    /\ HolderOf \in [Others -> People \cup {Nobody}]
    /\ DepartmentOf \in [People -> Departments \cup {NoDepartment}]
    /\ NoDepartment \notin Departments

VARIABLES
    accounts,   \* accounts and profiles: name, disabled flag, department
    signed,     \* the author of what has been written
    dump,       \* the users in the dump that was exported last
    todo        \* the users that a running import has still to come to

accountVars == <<accounts, signed, dump, todo>>

Existing == {a \in Ids : accounts[a] # NoAccount}
Holder(a) == IF a \in People THEN a ELSE HolderOf[a]

AccountInit ==
    /\ accounts = [a \in Ids |-> NoAccount]
    /\ signed = [t \in Things |-> Nobody]
    /\ dump = {}
    /\ todo = {}

-----------------------------------------------------------------------------
(* uniqueUsername, in the order of the sorted documents. *)
Username(u) ==
    [base |-> Base[u],
     nr |-> Cardinality({v \in dump : v <= u /\ Base[v] = Base[u]})]

Named(name) == {a \in Existing : accounts[a].name = name}

(* The account with the id of the document is renamed, unless the name     *)
(* belongs to another one.                                                 *)
UpdateAccount(u) ==
    /\ u \in Existing /\ Named(Username(u)) \subseteq {u}
    /\ accounts' = [accounts EXCEPT
                       ![u] = [name |-> Username(u),
                               disabled |-> accounts[u].disabled,
                               department |-> DepartmentOf[u]]]
    /\ UNCHANGED signed

Moved(a, u) ==
    signed' = [t \in Things |-> IF signed[t] = a THEN u ELSE signed[t]]

(* migrateAccountID.  Its first statement changes a unique column, which   *)
(* keeps out transactions that write under the old account meanwhile.      *)
MigrateAccount(u) ==
    /\ u \notin Existing
    /\ \E a \in Named(Username(u)) :
          /\ accounts' = [accounts EXCEPT
                             ![u] = [name |-> Username(u),
                                     disabled |-> accounts[a].disabled,
                                     department |-> DepartmentOf[u]],
                             ![a] = NoAccount]
          /\ Moved(a, u)

CreateAccount(u) ==
    /\ u \notin Existing /\ Named(Username(u)) = {}
    /\ accounts' = [accounts EXCEPT
                       ![u] = [name |-> Username(u), disabled |-> FALSE,
                               department |-> DepartmentOf[u]]]
    /\ UNCHANGED signed

ImportOneUser(u) == UpdateAccount(u) \/ MigrateAccount(u) \/ CreateAccount(u)

Turn(u) == u \in todo /\ \A v \in todo : u <= v

ImportUser(u) ==
    /\ Turn(u)
    /\ ImportOneUser(u)
    /\ todo' = todo \ {u}
    /\ UNCHANGED dump

(* The transaction of one user fails; the import goes on with the next. *)
UserFails(u) ==
    /\ Turn(u)
    /\ todo' = todo \ {u}
    /\ UNCHANGED <<accounts, signed, dump>>

-----------------------------------------------------------------------------
(* handleAccounts: a person registers under the own name. *)
Register(a) ==
    /\ a \notin Existing /\ HolderOf[a] # Nobody
    /\ LET name == [base |-> Base[HolderOf[a]], nr |-> 1]
       IN  /\ Named(name) = {}
           /\ accounts' = [accounts EXCEPT
                              ![a] = [name |-> name, disabled |-> FALSE,
                                      department |-> NoDepartment]]
    /\ UNCHANGED <<signed, dump, todo>>

(* handleComments.  A disabled account writes as long as its access token  *)
(* lasts; one that has gone cannot, for the reference to its author.       *)
Write(t, a) ==
    /\ signed[t] = Nobody
    /\ a \in Existing
    /\ signed' = [signed EXCEPT ![t] = a]
    /\ UNCHANGED <<accounts, dump, todo>>

(* An import of a newer dump begins; a dump may have users that an earlier *)
(* one did not have.                                                       *)
BeginUsers(newer) ==
    /\ todo = {}
    /\ dump \subseteq newer
    /\ dump' = newer /\ todo' = newer
    /\ UNCHANGED <<accounts, signed>>

(* The import stops or the server of the import does. *)
StopUsers ==
    /\ todo # {}
    /\ todo' = {}
    /\ UNCHANGED <<accounts, signed, dump>>

AccountNext ==
    \/ \E u \in People : ImportUser(u) \/ UserFails(u)
    \/ \E a \in Others : Register(a)
    \/ \E t \in Things, a \in Ids : Write(t, a)
    \/ \E newer \in SUBSET People : BeginUsers(newer)
    \/ StopUsers

AccountSpec == AccountInit /\ [][AccountNext]_accountVars

-----------------------------------------------------------------------------
(* What a person has written stays that person's, whatever is imported and *)
(* however often.                                                          *)
AuthorsKept ==
    [][\A t \in Things : signed[t] # Nobody =>
          signed'[t] # Nobody /\ Holder(signed'[t]) = Holder(signed[t])]_accountVars
=============================================================================
