# Verification of foxygen-vibe

TLA+ specifications of the service-ticket application in this repository, the
TLC configurations that check them and the TLAPS proofs about them. Paths below
are relative to the repository; `server/` is the Go API, `client/` the React
application, `sidecar/` the Moleculer node.

## 1. Inventory

The system keeps service tickets of a company that maintains equipment at its
clients. A legacy system over CouchDB holds the same tickets and goes on
writing them; the two are kept together by a changes feed in one direction and
by broadcast events in the other.

| Component | State it keeps | Operations | Talks to |
|---|---|---|---|
| Ticket store (`internal/api/handlers.go`, `editor.go`, `db/schema/014`, `025`) | table `tickets` (status, executor, department, reference, `app_version`), `users.latest_ticket` | create, assign, start, finish, close, close with follow-up, editor save | PostgreSQL; publishes ticket events after the commit |
| Ticket events (`internal/api/ticket_events.go`, `internal/moleculer`) | none durable; a handler between its commit and its broadcast | load the ticket, broadcast, log and drop on failure | sidecar, and through it the legacy system |
| Legacy ticket mapper (`internal/pouchsync/mappers.go`, `docs/ticket-sync-versioning.md`) | rows of `tickets` | guarded upsert, guarded tombstone | called by the feed runner in a transaction |
| Changes feed runner (`internal/pouchsync/sync.go`, `db/schema/023`) | `pouchdb_sync_state`, `pouchdb_documents` | resolve the start, connect, apply a change, retry with backoff | CouchDB `_changes`, mappers |
| Mappers of the other documents | reference tables | upsert and delete, without a version | feed runner |
| Authentication (`auth.go`, `handlers.go`, `db/queries/auth_tokens.sql`) | `refresh_tokens`, `accounts` | login, refresh (rotation), password change, disabling | client session |
| Client session (`client/src/shared/api/authenticated-fetch.js`, `auth-slice.js`, `auth-tokens.js`) | local storage shared by tabs, one store per tab | attach token, single-flight refresh, retry on 401, sign out | authentication |
| Ticket numbers (`db/schema`, `internal/pouchsync/mappers.go`) | the sequence of `tickets.number` | draw a number, set the sequence behind a synchronised ticket | ticket store, changes feed |
| Attachments (`attachments.go`, `attachment_links.go`) | table `attachments`, objects in MinIO | upload, link, download, delete | MinIO, ticket events |
| Avatars (`handlers.go`) | one object per profile, a link with a version in `users.logo` | upload, serve | MinIO |
| Editor for reference data (`editor.go`, `client/.../editor-hooks.js`) | clients, contacts, devices, classificators, agreements; a form in the browser | whole-record saves | PostgreSQL |
| Bootstrap (`cmd/bootstrap`, `internal/dbinit`, `cmd/import-dump`, seeds `021`, `022`, `024`) | the schema, imported rows, seeded accounts | decide on an import, replay the schema, seed | PostgreSQL |
| Sidecar (`sidecar/`) | none | answers one read-only action | broker |
| Query cache (RTK Query under `client/src/shared/api/tickets-api.js`, `editor-api.js`) | status and data per query, stale tags | subscribe, answer, invalidate, optimistic update and undo, expire | all pages; the handlers |
| Ticket page (`client/src/pages/ticket`) | the open sheet, its form or photographs | act, assign, upload, close, remove a photograph | cache, ticket store, attachments |
| Editor pages (`client/src/pages/editor`) | the selected record, a form, labels | select, change, save | cache, editor handlers |
| Archive page (`client/src/pages/ticket-archive`) | tab, drafted and applied filters, page number | filter, turn pages | cache |
| Dashboard, profile, device and client pages (`client/src/pages/...`) | texts and forms, the focus of the window | poll, disable, comment, create a ticket | cache, accounts, comments, ticket store |
| Other pages, service worker, deployment | rendering, a cache of the shell, configuration | | |

What is hard here, and what makes each component correct:

* **Two writers of a ticket.** The application and the legacy system both write
  a ticket, the events and documents that inform them of each other may be lost,
  delayed, repeated and reordered, and the only protection is a comparison of
  `app_version`. Correct: no document replaces an application write that its
  author had not seen, nor does a tombstone remove one.
* **What a row refers to.** Foreign keys without ON DELETE, and identifiers
  without a foreign key, beside tombstones that delete rows. Correct: nothing a
  tombstone may delete is referred to.
* **Feed over disconnections and crashes.** Position in the feed, checkpoint and
  mirrored documents. Correct: nothing before the checkpoint is missing, nothing
  goes back, and all is applied in the end once the documents are well formed.
* **Rotation of refresh tokens.** Concurrent refreshes with one token, lost
  answers, several tabs, sign-out. Correct: one live token per session.
* **Database and object store without a common transaction.** Correct: a row
  always has its object until somebody deletes the attachment, and an
  interrupted delete can be repeated.
* **A sequence beside given numbers.** Numbers drawn outside of transactions, and
  a setval that cannot see them. Correct: nobody is given a number in use.
* **Links that outlive what they show.** An avatar is overwritten in place and
  cached for a year. Correct: in the end everyone sees the stored photo.
* **Pages over a cache.** Changes shown before they are stored, answers that were
  read before a write and arrive after it, requests that outlive their page, and
  components that are kept while the record under them changes. Correct: what is
  shown once nothing is under way is what is stored, and what a form saves was
  filled in for that record.
* **Start of the server.** The schema and the seeds run at every start, the
  import only into a database that looks empty.

The hazards, one by one with the line where they bite, are in `PROJECT.json`.

## 2. Plan

In the order of importance; all of it is built, except where it says so.

1. `TicketStore`, `TicketSync`, `TicketRegister`: tickets between the
   application and the legacy system.
2. `Catalog`, `ChangesFeed`: checkpoint and mirror never skip and never go back;
   liveness unless a document cannot be applied.
3. `RefreshTokens` and `ClientSession`: rotation in the server, and the tabs of
   a browser over it: at most one live token of a session.
4. `Attachments`: row and object over failures and crashes.
5. `TicketNumbers`, `Avatars`.
6. `AccountImport` and `DumpImport` (the steps of `internal/legacyimport` over
   failures and reruns) and `Startup` (the decision on the import, the schema
   and the seeds over crashes and restarts) around them.
7. `QueryCache`, and over it the pages of the browser: `EditorForm`,
   `TicketPage`, `TicketArchive`, `DeskPages`.
8. The proofs, by TLAPS, each of a safety property for every value of the
   constants:

   | Module | Proves about |
   |---|---|
   | `TicketsProofs` | `TicketSync`, `TicketArchive` |
   | `ServerProofs` | `ChangesFeed`, `TicketNumbers`, `Avatars` |
   | `SessionProofs` | `RefreshTokens`, `ClientSession` |
   | `AttachmentsProofs` | `Attachments` |
   | `StartupProofs` | `Startup` with `DumpImport` and `AccountImport` |
   | `EditorFormProofs` | `EditorForm` |
   | `TicketPageProofs` | `TicketPage` |
   | `DeskPagesProofs` | `DeskPages` |

   Every safety property of a passing run is proved; liveness is not
   (section 12).
9. Not built: passwords; the connection pool.

The modules that run on the server share no variable but where one EXTENDS the
other (`TicketSync` on `TicketStore`, `ChangesFeed` on `Catalog`, `ClientSession`
on `RefreshTokens`, `Startup` on `DumpImport` and `AccountImport`). Four of them
are checked side by side in one run, `server` (section 9).

## 3. Tickets between the application and the legacy system

### Modules

`TicketStore` is the table. Its variables are `tickets` (a row per id, or
`NoRow`) and `latestTicket` (`users.latest_ticket`). Each action is one
committed transaction:

| Action | Code |
|---|---|
| `HandleTicketsCreate` | `handleTicketsCreate`: insert at version 1, latest ticket of the executor |
| `PatchAssigned`, `PatchInWork`, `PatchWorksDone`, `PatchClosed` | the cases of `handleTicketByIDPatch`, each an UPDATE whose WHERE is the guard and whose SET counts `app_version` |
| `PatchClosedWithFollowUp` | the close with a recommendation: the follow-up is inserted in the same transaction |
| `HandleEditorTicketPatch` | `updateEditorTicketRecord`: the whole record, without a guard on the status |
| `ApplyTicket` = `UpsertInserts`, `UpsertUpdates`, `TombstoneDeletes` | `applyTicket`: insert, update where the versions are equal, delete where the version is 0 |
| `ReplaySchema` | the backfill of `025_ticket_app_version.sql`, run at every start |

An UPDATE at READ COMMITTED evaluates its WHERE on the row version it locks, so
guard and write are one step. Checks that a handler makes before its
transaction (a disabled executor, the client of a device) are not held until
the write, and are therefore not guards here. `appWrites` and `basis` are
history variables: how many application writes a ticket has had and which of
them a row, an event or a document takes into account. No guard reads them.

`TicketSync` adds what surrounds the table: `publishing` (handlers between
commit and broadcast), `events`, the `snapshot` the legacy system has of each
ticket, and `docs`, the documents it has written. `events` and `docs` only grow
and any member may be delivered at any time, which stands for loss, delay,
repetition and reordering at once. The legacy system is external; it is
modelled as `docs/ticket-sync-versioning.md` requires of it and as the mapper
tolerates it: it keeps the version together with the contents of the event they
came with and either echoes that version or leaves it out, which
`parseTicketAppVersion` reads as 0.

`TicketRegister` is the abstract specification: a register per ticket, without
versions, events or documents. An application transaction writes some
registers; the legacy system may only write a register knowing all writes to
it, and may only remove one that was never written. `TicketSync` implements it
(`ImplementsRegister`): version numbers, as they are counted, echoed and
compared, are enough.

### Runs

| Run | Instance | Checks |
|---|---|---|
| `ticket_sync` | one legacy ticket and one id for an own or follow-up ticket, versions to 2, two documents | `ReferencedTicketSurvives`, `LatestTicketExists`, `AppWritesKept`, `ImplementsRegister` |

Two versions are needed for an old event beside a new one, two documents for one
that reinserts a ticket that another deleted, and two tickets for the follow-up
and its reference. The run sets `CHECK_DEADLOCK FALSE`: with `MaxVersion` and
`MaxDocs` used up and every handler finished the bounded system stops. No
fairness is assumed and no liveness is claimed: an event whose broadcast fails
is never sent again, so nothing has to arrive.

* `AppWritesKept`: a row always builds on the newest application write to it.
* `ReferencedTicketSurvives`: the foreign key of `reference_ticket`, which would
  fail a tombstone and block the feed, is never run into.
* `LatestTicketExists`: `users.latest_ticket`, which has no foreign key, never
  dangles.

### Proofs

`TicketsProofs` proves for every set of tickets, users and departments and for
every bound: type correctness (`TypeCorrect`), all of the invariants above,
and the two they rest on, `VersionsTrackWrites` and `MatchingDocIsCurrent` (a
document whose version equals that of the row was built on the newest
application write: no old number ever becomes valid again by a backfill, by a
deletion and reinsertion, or by a write that does not count itself)
(`AppWritesNeverLost`, `MatchingVersionsAreCurrent`, `ReferencesSurvive`,
`LatestTicketNeverDangles`, `VersionsBelongToHistory`) and the refinement
(`RegisterImplemented`), from `StoreAssumption` and `SyncAssumption` alone.

`AppWritesKept` is not inductive: an update by a document keeps it only because
the document's version proves its author's knowledge. The strengthening is
`VersionsTrackWrites`: whatever pair (version, write) is in an event, a snapshot
or a document is a point on the history of its row, where the row's version and
the number of writes have grown by the same amount since. From equal versions
equal writes follow. The backfill does not fit this picture at first sight, for
it raises a version without a write; it fits since it only touches version 0,
and version 0 means a row without any application write. `InHistory` therefore
demands something of versions above 0 only.

### Limits

The three demonstration tickets that `021_test_department_seed.sql` writes again
at every start of the server, with their status and without counting
`app_version`, are not among `TicketIds`, and its reset of the latest ticket of
its two accounts is left out. Columns without a guard (texts, times, device,
client) are left out. Importing a dump into a running installation by hand is
left out: it writes tickets without regard to versions.

## 4. The changes feed

### Modules

`Catalog` holds the tables of reference data that the feed keeps, as a row per
document: its title and the rows it refers to. `Synced` is what the mapper of a
document does: an upsert whose unknown references become NULL (`Resolved` is
`existsByID`), nothing where a title is missing, or a DELETE with the cascades of
the schema. `Applicable` is when its statements succeed: the document parses and
its title is not taken in a table with a UNIQUE title. The saves of the editor
(`HandleEditor...Patch`) write the same rows.

`ChangesFeed` is the runner. CouchDB is external: writes are numbered from 1 and
the feed lists each document under the number of its newest write.

| Action | Code in `server/internal/pouchsync/sync.go` |
|---|---|
| `ResolveSince` | `resolveSince`: "now" at the first connection of a server in that mode, or without a checkpoint, else the checkpoint |
| `Connect`, `Disconnect` | `streamChanges`: the request, and every way a stream ends |
| `Receive` | the decoder reads the next line; the document may be written again before it is applied |
| `ApplyChange` | `applyChange`: mirror, mapper and checkpoint in one transaction |
| `CommitUnknown` | the same, with the answer to the commit lost |
| `ApplyFails` | any error: rollback, the stream ends |
| `Restart` | the server stops or crashes at any point and begins again |

`skipped` is a history variable: numbers that a connection at "now" went past.

### Runs

| Run | Instance | Checks |
|---|---|---|
| `changes_feed` | mode checkpoint, two regions that contend for a title (one also malformed or without a title), a client; fairness | `NothingSkipped`, `TableFollowsMirror`, `CatchesUpUnlessBlocked` |
| `server` (section 9) | mode now; a region, its client, the client's contact, all with tombstones | `ReferencesResolve` |

Four writes are enough for a document written, blocked and written again while
another one waits behind it, and for a client and a contact that outlive, or do
not outlive, what they refer to. Two regions are needed for one title wanted
twice; a connection may end and the server restart any number of times.

`CatchesUpUnlessBlocked` is the liveness the code has: the feed is strictly
sequential, so a single document that cannot be applied stops every later one,
and the property says that nothing else does. Its fairness: `Run` repeats its
loop until the server stops and the delay between two rounds is bounded (WF of
`ResolveSince`, and of the end of a transaction); the network and the database
let every kind of step through again and again (SF of `Connect`, `Receive`,
`ApplyChange`). Restarts may happen for ever, but not so often that no
connection is ever made.

### Proofs

`ServerProofs` proves, for every set of documents, kinds, titles and
versions and for both modes, the safety properties above, and that no change is
applied twice (`AppliedOnce`), that checkpoint and mirror only advance
(`NeverGoesBack`) and that a connection begins at the checkpoint
(`CheckpointResumes`), from `CatalogAssumption` and `FeedAssumption`. `NothingSkipped` alone is not
inductive. The invariant adds: the feed numbers its writes without repetition
(`Numbered`), mirror, checkpoint and position never run ahead of it (`Behind`),
a connection has only passed what is mirrored or skipped (`Delivered`), and the
change in hand is the next one of its connection, or was until the document was
written again (`InHand`). That the checkpoint never goes back follows from
`Behind` and from `InHand`. `ReferencesResolve` and `TableFollowsMirror` are each
inductive over the mapper's cases. Liveness is model-checked only.

### Limits

The runner reads one change at a time; that its decoder may have read further
ahead into a buffer, where later changes are older than the database, is
covered for one change by `Receive`. Document kinds whose rows refer to
employees or tickets, the many-to-many attributes of classificators and the
columns without a constraint are left out. Failed reads of the checkpoint change
no state.

## 5. Sessions

### Modules

`RefreshTokens` is the table `refresh_tokens` with the handlers that write it. A
handler is a request in `requests` that moves through the statements of
`handleLogin` or `handleRefresh`:

| Action | Code |
|---|---|
| `LoadRefreshToken` | `GetRefreshTokenByHash`, `validateStoredRefreshToken` |
| `LoadAccount` | `GetAccountByUserID` or `GetAccountByUsername`, the disabled flag, a password that may be wrong |
| `Issue` | `issueTokenPair`, `RotateRefreshToken` with its WHERE, the commit; the answer of the commit may be lost |
| `RefreshConflict` | the rotation finds no row |
| `Fail` | a request that does not arrive, a timeout, an error: rollback |
| `SetDisabled`, `Expire` | `handleProfileDisabled`, the passing of time |

The inserted token is invisible until the commit, and the rotation locks its row
until then, so that insert, rotation and commit are one step whose guard is the
WHERE of the UPDATE. `root`, a history variable, names the session of a token.

`ClientSession` puts a browser over it: `storage` is the local storage that all
tabs share (its two keys always hold one pair), and each tab has a page
(`restoreSession`, `login`, `rotateSessionWithToken`, `signOut`), its
`refreshing` promise and the calls of `fetchWithAuth` and `baseQueryWithAuth`.
One step is what a script does between two awaits. `received` and `presented` are
history variables.

### Runs

| Run | Instance | Checks |
|---|---|---|
| `server` (section 9) | three tokens, two users, two requests at a time that present any token | `OneLiveToken`, `RotationIsALine`, `NothingForDisabled` |
| `client_session` | one tab with two calls, two tokens, fairness | `StoredTokenIsNewest`, `PresentedOnce`, `FetchesEnd`, `PagesGetReady` |

Two requests are enough for a race for one token, three tokens for a session that
is rotated twice or once beside another one. Two calls are needed for one that
joins the refresh of the other and for one that comes too late for it, and two
tokens for a token and its replacement. Access and refresh tokens may expire,
answers be lost, accounts be disabled and the tab be closed at any moment. Tabs
that race over the storage are the subject of the proof only, which holds for any
number of them.

* `OneLiveToken`: a session has at most one refresh token that counts.
* `RotationIsALine`: nor does it fork in its past; a token that loses the race
  leaves nothing behind.
* `NothingForDisabled`: which requests a disabling may come too late for.
* `StoredTokenIsNewest`: the stored token is used up only if its replacement is
  on the way or lost.
* `PresentedOnce`: a page presents a refresh token once, whatever its calls do, so
  that a single tab is never refused for its own refresh.
* `FetchesEnd`, `PagesGetReady`: no call waits for ever for a refresh that failed.

What does not hold, and is not claimed anywhere in the repository: the tab that
loses a race signs out the other one, a refresh under way survives a sign-out,
any failure to load the profile ends the session, and a sign-out leaves the
server's token live. The model has all of these behaviours.

Fairness: a handler ends within its timeout of three seconds and the browser
reports every request as answered or failed (WF of `Handle`); pages resume after
their awaits (WF of each reaction of a page and of a call).

### Proofs

`SessionProofs` proves, for any users, tokens and number of requests,
`OneLiveToken`, `RotationIsALine` and `NothingForDisabled`. The invariant adds
`Recorded` (roots and replacements are in the table, hence a fresh token is
neither) and `Handled` (a handler that knows a token knows its user).

For any number of tabs and calls it proves the types of the browser,
`StoredTokenIsNewest`, with the invariants `Known` and `Fresh` (what is about to be
answered has not reached the browser), and that the browser implements the
clients that `RefreshTokens` allows for (`BrowserImplementsClients`), so that its
theorems hold under the browser.

`PresentedOnce` is a property of steps, and rests on an invariant of what a page
has presented (`PresentedAt`): calls begin only behind the start of the page, and
when the stored token is one that the page has presented, its start or the
refresh that calls share is still under way. It is replaced before the page could
present it again (`PresentedCalls`); and what has left the storage never comes
back, since only what is new to the browser is stored (`StoresNew`). Liveness is
model-checked only.

## 6. Attachments

### Module

An image of a ticket is a row of `attachments` and an object in MinIO under the
same id; no transaction spans the two. `Attachments` follows each request of
`server/internal/api/attachments.go` from statement to statement:

| Action | Code |
|---|---|
| `CanUpload` | `canUploadTicketAttachment`, whose answer is not held, and the id from `gen_random_uuid` |
| `PutObject`, `InsertAttachment`, `CleanUp` | the upload, its row, and the removal of the object after an error of the INSERT |
| `LockTicket` | the SELECT ... FOR UPDATE of the delete, 404 and 409, and 204 where the row is gone already |
| `ObjectRemoved`, `RemoveFails` | `RemoveObject`, which succeeds for an object that is not there |
| `DeleteCommits`, `DeleteFails` | the DELETE and the commit |
| `Crash` | the server stops; PostgreSQL rolls back and MinIO may or may not do what was under way |
| `TicketChanges` | the ticket moves on, or its row is removed, which leaves its attachments where they are |

Every call of MinIO or PostgreSQL that fails may have had its effect. `stored`
and `shaken` are history variables.

### Run

`attachments`: one ticket, two users, two ids and two requests at a time.

* `RowsHaveObjects`: a row has its object until somebody asks for its deletion.
* `NothingLeftBehind`: a deletion takes the object before the row, so that the
  row stays for a retry and no object is left without one.
* `DeletedIsGone`: the answer 204 is true.
* `RetryCompletes`: what was deleted half way is deleted in the end.

Tickets share nothing, so that one is enough; two requests are enough for two
deletions of one image and for a deletion beside an upload. The fairness is
stated in `Fairness`: requests are carried on (WF of the steps of an upload);
MinIO and PostgreSQL do not refuse every time (SF of `ObjectRemoved`,
`DeleteCommits`); and, since the server never retries by itself, the holder of
the ticket repeats a deletion that left a row behind (SF of `Repeat`).

What does not hold and is not claimed: the check of an upload takes no lock, so
that an image may arrive at a ticket that has moved on since; an upload that
stops between object and row leaves an object that nothing finds again; the
attachments of a removed ticket stay.

### Proofs

`AttachmentsProofs` proves types, `RowsHaveObjects`, `NothingLeftBehind` and
`DeletedIsGone` for any users, tickets, ids and number of requests, and
`DeletedByHolder`: the ticket is still the executor's own, worksDone or closed,
when the row goes, though the object store was waited for in between. The invariant adds that ids are drawn once (no two uploads share one),
what each step of a request implies about its row and object, and that the lock
of a ticket belongs to the one request that has checked it. `RetryCompletes` is
liveness and only model-checked.

## 7. Avatars

`Avatars` has the one object of a user's photo, the link in `users.logo`, whose
version is the time of the upload in milliseconds, and browsers that keep what a
link has shown them. An upload is `PutObject`, `BuildVersion`, `SetLogo`, each of
which may fail, in any order with those of other uploads and with `Download`.

The run `server` (three uploads, two browsers, seven milliseconds, which are
enough for all steps of all uploads) checks `SettledShowsStored`. Once no upload is between its
object and its link, and none has stopped there, every browser shows the photo
that is stored, whichever of two concurrent uploads has written its object and
its link last. It holds because the version is taken after the object is
written: a link that is read before cannot have the version. `ServerProofs`
proves it for any uploads and browsers (`BrowsersShowStored`). Two premises are in
the model: an object takes at least a millisecond to write, and no two uploads
of one user take their version in the same one.

## 8. Ticket numbers

`TicketNumbers` has the sequence of `tickets.number`. `Create`, `Commit` and `Abort`
are a transaction that draws a number; `ApplyNumbered` and `ApplyUnnumbered` are
`applyTicket` with `syncTicketNumberSequence`, whose setval takes effect before
its transaction commits and even if it does not (`FeedFails`); `Delete` is a
tombstone. The column is not UNIQUE.

The run `server` (two created and two synchronised tickets, numbers to 5) checks
`SequenceAhead` and `CreatedDiffer`: tickets that the server creates never get one
number, since the sequence is ahead of them all. Both except the tickets in
`crossed`, whose transaction was open while the feed set the sequence: the
setval goes back to the largest number it sees, which does not include theirs,
so that the next ticket may get the same number. The exception is the code's
real behaviour, and the properties say that there is no other.
`ServerProofs` proves both for any tickets and numbers, and `FreshNumber`,
that a new ticket of the server does not get the number of another one; the
invariant adds that the row the feed is about to commit is covered by the
sequence too.

## 9. The run of the server parts

`MCServer` has four small instances side by side: `TicketNumbers`,
`RefreshTokens`, `Avatars` and `ChangesFeed` in mode now. They share no table, and
none of their properties speaks of two of them, so that every interleaving of
two parts is one of each alone: a behaviour is chosen to be one of a single part
(`part`) and the others stand still. Their state spaces are added, not multiplied.
`server` sets `CHECK_DEADLOCK FALSE`: all uploads of a photo end, and with its
bounds used up a part stops. It assumes no fairness; liveness of the feed is in
`changes_feed`, that of the session in `client_session`.

## 10. Import and start of the server

### Modules

`AccountImport` is the step "users" of the import: accounts with their name,
disabled flag and department, and who has written what. `Username` numbers
people of one name in the order of the documents; `UpdateAccount`,
`MigrateAccount` and `CreateAccount` are the three outcomes of
`ensureLegacyAccount` with the profile written behind them, one transaction for
each user. `Register` and `Write` are requests of a running server in between.

`DumpImport` adds the tables of the other documents and the process that runs the
steps (`run`: what it has left, whether a step has failed). Each kind of
document has its operator for the row it becomes; `Resolved`, `TicketAuthor` and
`Skipped` are what the importers do with a reference that they do not find.
A step may fail behind any of its documents (`ImportStep`), which ends the import
or, with `-keep-going`, does not; the users that fail are only counted
(`ImportAccounts`); the process may be killed (`ImportKilled`); and the feed or
the editor may remove what was imported (`Remove`). `run.clean` is a history
variable.

`Startup` composes both with the container:

| Action | Code |
|---|---|
| `Boot` | `docker-entrypoint.sh`, `loadOptions` and `DatabaseNeedsImport`, which looks before the schema is applied |
| `ApplyFile` | `EnsureSchemaWithSessionSettings`, one file at a time: the seeds `SeedTest` (021) and `SeedService` (022), or their early return, and `AccessPolicy` (024) |
| `BootstrapImports` | `runImport` |
| `StartServer`, `Serve` | `api.New` with its second pass over the schema |
| `Stop` | any error, timeout or crash of the container |
| `ImportByHand` | `go run ./cmd/import-dump` |
| `Serving` | registrations, writings, disabling, removals |

Each file of the schema is one statement for PostgreSQL and therefore one step.
The premises: names of employees and of seeded accounts all differ in the run;
a department has the same id in the dump as in the seeds that name it; a
container is not started while an import by hand runs, and no two imports run at
once; `BOOTSTRAP_IMPORT_ONLY` is not set. The seeds' roles, their demonstration
tickets, and two people whom 022 repairs are left out.

### Runs

| Run | Instance | Checks |
|---|---|---|
| `startup` | one document of each kind that refers to others, one employee outside the service departments who may also have registered, one exempt and one service account, one comment | `ImportCompletes`, `PolicyAtServe`, `ServesWholeDump` |
| `users_rerun` | two employees of one name, two dumps | `AuthorsKept`, which fails |
| `exempt_status` | the instance of `startup` | `ExemptKeepStatus`, which fails |

* `ImportCompletes`: an import in which nothing failed leaves every row as the
  dump has it with every reference that the dump resolves, whatever imports came
  before it, however they ended, and whatever was removed since. It rests on the
  order of the steps and on the upserts being updates.
* `ServesWholeDump`: a server that comes up behind the import of its own
  bootstrap serves the whole dump, but for references to users that failed.
* `PolicyAtServe`: whoever was imported, registered, enabled or seeded before, a
  server begins to serve with nobody enabled but the exempt accounts and those
  of the service departments. The import runs behind the policy of the
  bootstrap; it is the second pass over the schema that makes this true.
* `AuthorsKept`: what a person has written stays that person's, although accounts
  change their ids.

One document of a kind is enough for a reference that is missing, present or
removed again; one employee for an account that is updated, created or moved
from a registration. Restarts, stops and imports are not bounded. There is no
liveness here: a container that is stopped again and again never serves.

The two runs that fail are findings. In `users_rerun` a newer dump has a further
employee of a name that the older one had: `ensureLegacyAccount` finds the account
of the first by the name that is now the other's, and moves it, with its
comments and tickets, to the id of the other, although "the importers are
designed to be rerunnable" (README.md:261). In `exempt_status` an exempt account
that was disabled in the application is enabled by the seed of the next start,
although "exempt accounts keep their current status" (README.md:55) and the
policy says of itself that it never re-enables them (024:2). The policy itself
leaves them alone; the seed that the same start applies before it does not,
where a default password is set.

An import that stops half way leaves rows, and `DatabaseNeedsImport` then takes the
database for a complete one: the next container serves what is there. The model
has this behaviour; nothing in the repository promises otherwise.

### Proofs

`StartupProofs` proves the three properties of `startup` for every dump with
finitely many people, every selection of steps, and any accounts that register
or are seeded (`ImportsComplete`, `PolicyHolds`, `DumpServed`). It assumes that
"no row" and "no account" are none, and what the module states of its constants.
The invariant `Sound` has three parts beside the types:

* `Passing`: while an import is clean, its remaining steps are the last of the
  list (`Rest(i)`), and every document of a kind before them is in the tables as
  it would be imported now (`Imported(Before(i), ...)`), or the import is in the
  middle of the users, and those behind it have their accounts. This is why the
  order of the steps matters: the row of a document depends on kinds that come
  before its own only, so that no later step disturbs an earlier one. What is
  removed meanwhile makes an import unclean.
* `Upcoming`: between the last file of the second pass over the schema and the
  first request nothing runs that could enable an account (`Policy`), and no
  import runs while files of the schema are left.

`ImportCompletes` follows from `Passing` at the end of the list, where `Before` has
every kind; `ServesWholeDump` from it and from `Upcoming`.

## 11. The pages of the browser

### The cache

`QueryCache` has the operators that the four modules of this section share: what
RTK Query, a library, does with the entry of a query. `ticketsApi` and
`editorApi` leave its options at their defaults; only the dashboards poll and
refetch on focus. A subscription
asks for what is not there (`Subscribed`); stale tags wait until no query and no
mutation is pending and then refetch the entries that somebody subscribes to and
drop the others (`Quiet`, `Invalidated`); a hook goes on returning the data of
the query it was used with before until its own has succeeded (`HookData`); an
answer belongs to one request (`StillAsked`). An entry without subscribers may
expire at any moment. In each module `Settle` (`Show` in the archive) is one
round of it: the store has changed, tags are swept, the page renders, its effects
run. Reading on the server (`ServerReads`) and the arrival of the answer
(`QueryAnswered`) are steps of their own, so that answers may be older than what
they overwrite. Mutations have three: sent, done by the server, answered, and
may fail before or after the second (`Fails`, `SaveFails`), which is a refusal,
a lost request or a lost answer.

The server is one step per handler here, but for the archive, whose handlers read
twice; what happens within a handler that writes is the subject of the sections
before. Other users act at any time (`ForeignSave`,
`ForeignChange`, `ForeignToggle`).

### Editor

`EditorForm` is the six pages of `client/src/pages/editor`, which share one shape.
What differs is data: the fields of the form, those that `isDirty` compares, those
with an input, what `handleSave` refuses, and how a record becomes a form and a
form a patch (`FormOf`, `Patch`, and `TrimSpace` on the server). That way is not
the identity. A location keeps one point, and a coordinate that is left empty
becomes 0; the server trims texts. A date is shown by the clocks of Moscow,
without seconds (`ToAppDateTimeValue`), and read back at a fixed +03:00
(`AppDateTimeToISO`): for a time when Moscow was at +04:00, before 26 October
2014, it moves an hour with every save. Three moments stand for this, an hour
apart over the night when the clocks were put back, with two texts for them.

| Action | Code |
|---|---|
| `Open`, `Leave` | `EditorPage`, `handleBack` |
| `Select`, `SelectFirst` | the list; `useEditorSearchParamSelection` |
| `Type` | `handleFormChange`, `handleCheckboxChange`, the handlers of the selects |
| `Save`, `SaveAnswered`, `SaveFails` | `handleSave` up to the request, behind it, and its `catch` |
| `AfterEffects` in each | `useLoadedEditorRecord` |

`editor_form`: two records, each of the six pages, the eleven fields that are
treated in different ways, two changes of a field, two saves by this user or
another, two moves, one failure; the list is a constant. Two records are needed
for a form of one under the id of the other, two saves for one under a form.

* `ForeignFormOnlyUnloaded`: a form is saved under the id of another record only
  while the selected record has not been shown. This does happen: the hook
  returns the record selected before until the new one has loaded, and the pane
  stays on the screen with its button.
* `UntouchedFieldsKept`: a whole form is sent; if it was made of the newest write,
  it does to what the user has not touched nothing but the above: seconds that
  are lost, the hour of such a date, blanks around a text, half of a location.
* `LabelsNameTheForm`: the label of an asynchronous select is that of the value
  that would be saved.
* `OwnSavesShown`: what this browser has saved is shown, whatever was selected
  or left meanwhile.

`EditorFormProofs` proves the four for any records, fields, values and bounds. It
assumes what the module does of
its constants: the list's first record is one, "no record" is none, and the pages
are among the six (`FirstListed`, `RecordsAreRecords`, `PagesAreKnown`). None of
the properties is inductive, since each speaks of what is shown and the next
answer comes from a cache or from a request that was sent long before. The
invariant `Consistent` therefore follows each copy of a record, in the cache, in
an answer, in the pane and in a request: it names a write of the server that is
not later than the current one, and equals the record if it names that one; and
the form equals the record it was made of but for what the user has touched.
`OwnSavesShown` needs `Told` beside it: an entry or an answer that is older than a
save the browser was told of is hit by a save under way or by a stale tag, and
stale tags do not outlast the last request.

What does not hold and is not claimed: another user's save between loading and
saving is overwritten; text that is typed while a save is under way is replaced
by the answer to it.

### Ticket page

`TicketPage` has the page of `client/src/pages/ticket` with the cache of
`getTicketById`, the mutations under way (`calls`) and the submissions of reports
(`jobs`), each a chain of uploads and the close, which goes on without the page.

| Action | Code |
|---|---|
| `Act`, `OpenSheet`, `CloseSheet` | `handleTicketAction` over `resolveTicketActionState` |
| `FillIn`, `Assign` | the assignment sheet and `handleAssignEngineer` |
| `AddPhoto`, `RotatePhoto`, `RemovePhoto` | `handleMediaSelect`, `rotateImageFile`, `handleRemovePreview` |
| `Submit`, `Over` | `handleSubmit` with `uploadPreviewItems`, from await to await |
| `Started`, `Optimistic`, `Confirmed`, `TakenBack` | `onQueryStarted` of `patchTicket` |
| `Open`, `Leave`, `Move` | the router, which keeps the component from one ticket to another |
| `Closed` | `handleTicketReportCloseSuccess`, which navigates to the closed ticket even if the user has left |

`ticket_page`: two tickets for a move under an open sheet, two photographs and two
submissions for a retry beside what is stored, a rotation, and two of everything
that `MaxTurmoil` counts (leaving, failures, foreign changes, a second photograph).
Both roles are tried.

* `SettledPageIsTrue`: nothing is left of a change shown in advance; undoing one
  has not undone what came in between.
* `ClosedWithItsPhotos`: a report closes the ticket only with each of its
  photographs stored with it, turned as it was shown.
* `StoredOnce`: a photograph is stored once, and once more for each upload whose
  answer was lost, and not when it was removed from the sheet.
* `AssignsWhatWasFilledIn`: a form of one ticket is not stored with another.
* `SubmissionEnds`: a submission comes to an end, whatever fails.

`ClosedWithItsPhotos` and `StoredOnce` leave out the photographs that were in the
sheet when another ticket was opened under it (`carried`): nothing resets the
previews, and they are then treated as those of the ticket that is shown. They
leave out, too, what the server has removed while its answer was lost.

Fairness: every query and every mutation is answered in the end (WF of
`ServerReads`, `QueryAnswered`, of the step of the server and of the answer, and
of a refusal); nothing is assumed of the user, so no page has to be opened and no
report submitted.

`TicketPageProofs` proves the four safety properties for any tickets,
photographs and bounds, from two invariants. `Truth` has the types, which say of
each kind of call what it carries and of a form that it belongs to the ticket in
the pane; `Awaited`, that a page which is waited for is there; and `Told`, as in
the editor, now with changes that are shown in advance and taken back: an entry
that shows what no write has left is hit by the tag of its own call. `Fit` follows
each photograph from the sheet to the server (`PhotosFit`):

* `IdsAreUnique`, `SubmissionsKeep`: an id belongs to one stored photograph; what
  a submission has no longer to send is stored for its ticket, turned as it was.
* `UploadsBelong`, `ClosingIsLast`: an upload belongs to a submission that still has
  to send its photograph; a submission makes one call at a time, and closes when
  nothing is left to send and nothing has failed.
* `RemovalsFit`, `PreviewsFit`, `CountsFit`: how many copies there may be of a
  photograph at each point of its way, counting the answers that were lost; a
  photograph that may still be sent (`Unsent`) has room for one more.

`StoredOnce` is the last of these when all is sent; `ClosedWithItsPhotos` is a
property of steps and follows from `SubmissionsKeep` and `ClosingIsLast`.
`NothingIsApart` and `UsersDiffer` are all that is assumed of the constants.

### Archive

`TicketArchive` is `ticket-archive-page.jsx` for a client, a device or an employee.
The list is asked for by the applied filters, tab and page number, the options of
the sheet by the draft. Two effects correct the page number; `Rendered` renders
and runs both, and `Listed` repeats it until the page stays.

The handlers of both run two statements without a transaction, so each request
has three steps: `ServerCounts`, `ServerSelects`, `ListAnswered` for the list,
`ServerReadsReasons`, `ServerReadsOthers`, `FacetsAnswered` for the options (a
profile has a third statement, for an option like the second). `listReads` and
`facetsReads` keep what is read so far; others change tickets between any two of
the steps. In an answer `torn` says that a ticket that was counted had left when
the page was read. The page cannot see that, and neither effect asks for it.

`ticket_archive`: three tickets, one to a page, three steps of the user or the
others, two of them failures, expiries or changes by others (`MaxSteps`,
`MaxTurmoil`), and two requests that the server has read in part or whole
(`MaxReads`). That is enough for a late page under filters that find one page,
for a ticket that leaves between the two statements of a last page, and for an
answer that arrives after a newer one. 4.5 million states, two minutes.

* `ListMatchesFilters`: a list on the screen is the answer to the filters and the
  page that are selected; the page is not past the end; and it is not empty when
  any ticket was counted, unless a counted ticket left between the statements.
  In that case the user sees "page 3 of 3" with nothing on it, until the entry is
  asked for again.
* `FilterBeginsAtFirst`: a filter begins at its first page, but in one case: with
  an answer in the cache for the same late page under the new filters the effect
  that moves back from behind the end wins.
* `SelectedIsOffered`: the selected filter is among the options.

An archive shows what it has cached for a minute although a ticket has changed
since; the model has this, and no text of the repository says otherwise.

`TicketsProofs` proves the three for every finite archive, every size of a page
and any bounds; the tickets have ids of their own, by which they are sorted, and
"nothing" is no answer (`TicketsHaveIds`, `NothingIsApart`). Three arguments carry
the proof:

* Rendering ends. A rendering that moves the page moves it to an earlier one
  (`NextPage`, from the division in `Pages`), and one that does not leaves a page
  that no further one moves (`StaysSettled`); hence as many renderings as the
  number of the page are enough (`RendersNearer`). `Listed` is a recursive
  function: that there is one is proved by the least number for which there is
  none (`RendersExist`), and so is what it computes.
* A page that begins before the last match is not empty (`ThereIsOneAt`), and with
  no counted ticket gone there are at least as many matches as were counted
  (`PageFits`): some ticket has exactly so many newer ones. Among those with as many or more, take
  the one with the fewest; if they were more, the oldest of them would have one
  less.
* The invariant `Truth`: what is read for a request fits its key, as entries do
  (`Types`); the list is settled (`Shown`), and a client that is or was
  an option is remembered, so that the selected one is (`Offered`).

`FilterBeginsAtFirst` then needs that the page before the step was not past the
end of the list shown: so the second effect can only win by a cached answer of
the new filters.

### Dashboard, profile, device and client

`DeskPages` is the browser of a coordinator between `CoordinatorDashboard`,
`ProfilePage`, `DevicePage` and `ClientPage`, over one cache: polling (`Poll`,
`Focus`, `Blur`), `Toggle` with the optimistic update of two queries, comments
(`Type`, `SendComment`) and the sheet for a ticket (`OpenSheet`, `FillIn`,
`CreateTicket`, `CloseSheet`). `desk_pages`: one member, one device and one client,
two texts, forms or uses of the button, and two disturbances. Members do not
influence each other, and one query of each kind is enough for a tag that hits
queries of several.

* `SettledPagesAreTrue`: once nothing is under way a page shows what is stored, at
  this browser's newest write or later.
* `PostedOnce`: a comment or ticket is stored once, and once more for each answer
  that was lost.
* `DashboardCatchesUp`: a dashboard that stays open in a window with the focus
  comes to show what is stored, after failures and whatever others do. Fairness:
  the interval of polling ends (WF of `Poll`) and the queries of the dashboard are
  answered (WF of `ServerReads` and `QueryAnswered`); disturbances are bounded.

`DeskPagesProofs` proves the first two for any members, devices, clients and
bounds. `Truth` is as for the ticket page, with two queries that one call
changes in advance: what is shown of a member is what some write has left, or a
call or a tag hits it (`NotBehind`), and of comments and tickets everything the
browser was told of. `Fit` counts the posts of each use of the button: those that
are stored, one for a call that may still store it, and one more for each lost
answer. That the key of the list of members is no member is assumed
(`KeysDiffer`).

What does not hold and is not claimed: a comment that is typed while another is
being sent is erased by its answer, and the answer to a new ticket takes the
user to its page from wherever he is.

Left out are the empty list that is answered to somebody who has lost access to
the device or client, which changes no tag, and that the undo of a change shown in
advance finds a member by its place in the list, not by its id, which the refetch
after every toggle mends.

All four runs set `CHECK_DEADLOCK FALSE`: with the bounds used up and nothing
under way the user has nothing left to do.

## 12. What is not modelled

The components that `PROJECT.json` lists as not modelled, each with its reason:
those that only read, those that are configuration or generated code, and the
parsing and layout of data. Within the pages: sorting and grouping, the slider of
an engineer's dashboard, texts and their wording, and
moves of the browser's history between two pages of one kind (but for tickets).
The pool of connections, whose exhaustion is among the hazards, is a
library with limits from the deployment.

The properties that are only proved are named in the sections above; they are
definitions of their modules as well. Only model-checked is liveness
(`CatchesUpUnlessBlocked`, `RetryCompletes`, `FetchesEnd`, `PagesGetReady`,
`SubmissionEnds`, `DashboardCatchesUp`): the provers at hand do not reason about
fairness beyond propositional steps. The two properties that fail
(`AuthorsKept`, `ExemptKeepStatus`) have counterexamples instead of proofs.

The proofs made some premises explicit that a small instance fulfils by itself,
and which are now assumptions of the modules: that what stands for "none" is no
record, ticket or photograph, and that the keys of two queries differ. Where
alternatives of a CASE overlapped, in which the meaning of the specification
would depend on which is chosen, their guards were made to exclude each other.
