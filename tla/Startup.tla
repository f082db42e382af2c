------------------------------- MODULE Startup -------------------------------
(***************************************************************************)
(* How the server comes up (server/docker-entrypoint.sh): /app/bootstrap   *)
(* applies the schema and, if it has found the database empty, imports the *)
(* dump; then /app/server applies the schema once more and serves.  The    *)
(* files of the schema hold, besides tables, the accounts that are seeded  *)
(* and the policy of who may sign in.  A container that stops anywhere is  *)
(* started again from the beginning.                                       *)
(***************************************************************************)
EXTENDS DumpImport

CONSTANTS
    TestAccounts,       \* seeded by 021, exempt from the policy by name
    ServiceAccounts,    \* seeded by 022
    SeedName,           \* their names
    TestDepartment,
    ServiceDepartments, \* those that may sign in
    HomeOf,             \* the service department that 022 puts an account in
    Retired,            \* the account that 022 disables, if any
    RetiredName

Seeded == TestAccounts \cup ServiceAccounts

ASSUME StartupAssumption ==
    /\ Seeded \subseteq Others /\ TestAccounts \cap ServiceAccounts = {}
    /\ \A a \in Seeded : HolderOf[a] = Nobody
    /\ SeedName \in [Seeded -> Bases] /\ RetiredName \in Bases
    /\ TestDepartment \in Departments \ ServiceDepartments
    /\ ServiceDepartments \subseteq Departments
    /\ HomeOf \in [ServiceAccounts \cup {Retired} -> ServiceDepartments]
    /\ Retired \in People \cup {Nobody}

VARIABLES
    proc,   \* what runs in the container
    env,    \* its environment: is the import enabled, a default password set?
    files,  \* the files of the schema that it has still to apply
    needs   \* DatabaseNeedsImport, as the bootstrap has found it

dataVars == <<accounts, signed, dump, todo, rows, run>>
vars == <<accounts, signed, dump, todo, rows, run, proc, env, files, needs>>

Exempt == {[base |-> SeedName[a], nr |-> 1] : a \in TestAccounts}

NeedsImport ==
    Existing = {} /\ \A k \in {"clients", "tickets", "agreements"} : Present(k) = {}

(* The environment is set before a start.  loadOptions refuses an import   *)
(* without a password.                                                     *)
Environments == {e \in [import : BOOLEAN, password : BOOLEAN] :
                    e.import => e.password}

Init ==
    /\ DumpInit
    /\ proc = "down" /\ env \in Environments /\ files = <<>> /\ needs = FALSE

-----------------------------------------------------------------------------
(* The hash for seeded accounts: that of the configured password, or one   *)
(* that two accounts of a former import share.                             *)
HashKnown == IF env.password THEN {TRUE}
             ELSE IF Cardinality(Existing) > 1 THEN BOOLEAN ELSE {FALSE}

Enabled(name, department) ==
    [name |-> name, disabled |-> FALSE, department |-> department]

NameOfSeed(a) == [base |-> SeedName[a], nr |-> 1]

(* 021_test_department_seed.sql *)
SeedTest(hash) ==
    accounts' = [a \in Ids |->
        CASE a \in TestAccounts /\ hash -> Enabled(NameOfSeed(a), TestDepartment)
          [] a \in TestAccounts \cap Existing /\ ~hash ->
                [name |-> accounts[a].name, disabled |-> accounts[a].disabled,
                 department |-> TestDepartment]
          [] OTHER -> accounts[a]]

(* The account that 022 takes for a service account: the one with its id,  *)
(* or else the one with its name, or else a new one.                       *)
AccountOf(s) ==
    IF s \in Existing THEN s
    ELSE CHOOSE a \in Ids : IF Named(NameOfSeed(s)) \ {Retired} = {} THEN a = s
                            ELSE a \in Named(NameOfSeed(s)) \ {Retired}

(* 022_service_department_test_seed.sql, but for two people of whom it     *)
(* repairs what earlier seeds have left, and for the roles.  The retired   *)
(* account is looked for by its id only.                                   *)
SeedService(hash) ==
    accounts' = [a \in Ids |->
        IF \E s \in ServiceAccounts : a = AccountOf(s) /\ (a \in Existing \/ hash)
        THEN LET s == CHOOSE s \in ServiceAccounts : a = AccountOf(s)
             IN  Enabled(NameOfSeed(s), HomeOf[s])
        ELSE IF a = Retired /\ a \in Existing
        THEN [name |-> [base |-> RetiredName, nr |-> 1], disabled |-> TRUE,
              department |-> HomeOf[Retired]]
        ELSE accounts[a]]

(* 024_account_access_policy.sql *)
AccessPolicy ==
    accounts' = [a \in Ids |->
        IF a \in Existing /\ accounts[a].name \notin Exempt
              /\ accounts[a].department \notin ServiceDepartments
        THEN [name |-> accounts[a].name, disabled |-> TRUE,
              department |-> accounts[a].department]
        ELSE accounts[a]]

SchemaFiles == <<"021", "022", "024">>

(* foxygen.skip_test_data_seed is set by a bootstrap that may import.      *)
SkipSeeds == proc = "bootstrap" /\ env.import

ApplyFile ==
    /\ files # <<>>
    /\ files' = Tail(files)
    /\ \/ Head(files) = "021" /\ ~SkipSeeds /\ \E hash \in HashKnown : SeedTest(hash)
       \/ Head(files) = "022" /\ ~SkipSeeds /\ \E hash \in HashKnown : SeedService(hash)
       \/ Head(files) \in {"021", "022"} /\ SkipSeeds /\ UNCHANGED accounts
       \/ Head(files) = "024" /\ AccessPolicy
    /\ UNCHANGED <<signed, dump, todo, rows, run, proc, env, needs>>

-----------------------------------------------------------------------------
(* cmd/bootstrap *)
Boot ==
    /\ proc = "down" /\ ~Running
    /\ proc' = "bootstrap" /\ files' = SchemaFiles
    /\ env' \in Environments
    /\ needs' = (env'.import /\ NeedsImport)
    /\ UNCHANGED dataVars

(* All steps: BOOTSTRAP_IMPORT_ONLY, which selects some, is not set. *)
BootstrapImports ==
    /\ proc = "bootstrap" /\ files = <<>> /\ needs
    /\ proc' = "importing"
    /\ StartImport(ImportSteps, FALSE)
    /\ UNCHANGED <<env, files, needs>>

(* Mutation: /app/server takes the schema of the bootstrap as it is.       *)
SchemaOnce == files' = <<>>

SchemaAgain == files' = SchemaFiles

(* api.New, when the bootstrap has ended well. *)
StartServer ==
    /\ \/ proc = "bootstrap" /\ files = <<>> /\ ~needs
       \/ proc = "importing" /\ ~Running /\ ~run.failed
    /\ proc' = "server"
    /\ SchemaAgain
    /\ UNCHANGED <<dataVars, env, needs>>

Serve ==
    /\ proc = "server" /\ files = <<>>
    /\ proc' = "serving"
    /\ UNCHANGED <<dataVars, env, files, needs>>

(* The container stops: an error of the schema or of the import, a timeout *)
(* or a crash.  An import that the bootstrap has started ends with it.     *)
Stop ==
    /\ proc # "down"
    /\ proc' = "down" /\ files' = <<>> /\ needs' = FALSE /\ UNCHANGED env
    /\ \/ proc = "importing" /\ Running /\ ImportKilled
       \/ (proc # "importing" \/ ~Running) /\ UNCHANGED dataVars

-----------------------------------------------------------------------------
(* go run ./cmd/import-dump, beside a server or without one. *)
ImportByHand(selection, keepGoing) ==
    /\ proc \in {"down", "serving"}
    /\ StartImport(selection, keepGoing)
    /\ UNCHANGED <<proc, env, files, needs>>

ImportRuns == ImportNext /\ UNCHANGED <<proc, env, files, needs>>

(* handleProfileDisabled *)
SetDisabled(a) ==
    /\ a \in Existing
    /\ accounts' = [accounts EXCEPT ![a].disabled = ~accounts[a].disabled]
    /\ UNCHANGED <<signed, dump, todo, rows, run>>

Serving ==
    /\ proc = "serving"
    /\ \/ \E a \in Others : Register(a) /\ UNCHANGED <<rows, run>>
       \/ \E t \in Things, a \in Ids : Write(t, a) /\ UNCHANGED <<rows, run>>
       \/ \E a \in Ids : SetDisabled(a)
       \/ \E d \in Removable : Remove(d)
    /\ UNCHANGED <<proc, env, files, needs>>

Next ==
    \/ Boot \/ ApplyFile \/ BootstrapImports \/ StartServer \/ Serve \/ Stop
    \/ \E selection \in Selections, keepGoing \in KeepGoing :
          ImportByHand(selection, keepGoing)
    \/ ImportRuns
    \/ ImportKilled /\ proc \in {"down", "serving"} /\ UNCHANGED <<proc, env, files, needs>>
    \/ Serving

Spec == Init /\ [][Next]_vars

-----------------------------------------------------------------------------
(* A server that begins to serve lets nobody sign in but the exempt        *)
(* accounts and those of the service departments, whatever has been        *)
(* imported, seeded, registered or enabled before.                         *)
PolicyAtServe ==
    [][proc = "server" /\ proc' = "serving" =>
          \A a \in Existing : ~accounts[a].disabled =>
             \/ accounts[a].name \in Exempt
             \/ accounts[a].department \in ServiceDepartments]_vars

(* A server that follows the import of its own bootstrap serves the whole  *)
(* dump; only what refers to users that were missed is left out.           *)
ServesWholeDump ==
    [][proc = "importing" /\ proc' = "server" =>
          WholeDump(People \cap Existing)]_vars

(* The policy leaves the exempt accounts alone: one that has been disabled *)
(* stays disabled until somebody enables it.                               *)
ExemptKeepStatus ==
    [][proc # "serving" =>
          \A a \in TestAccounts \cap Existing : accounts[a].disabled =>
             a \notin Existing' \/ accounts'[a].disabled]_vars
=============================================================================
