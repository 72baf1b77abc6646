# A TLA+ verification project for mcp-obsidian

mcp-obsidian serves an Obsidian vault (a directory of Markdown notes) to remote
clients over MCP, guards it with OAuth and mirrors it to an S3 bucket. This
directory holds a model of its state-changing parts, the TLC configurations that
check it and the theorems proved about it with TLAPS.

## Inventory of the system

| Component | State it keeps | Operations | Hard behaviour |
| --- | --- | --- | --- |
| S3 synchroniser, `internal/sync/s3/s3.go` | mutex `s.mu`; the maps of a running call | `EnsureFresh`, `Pull`, `Push`, `Status` | many I/O calls under one lock, none of which stops tool handlers or other S3 clients from writing in between; partial failure; lost answers |
| Sync manifest, `internal/state/state.go` | `state.json`: an entry per tracked note (ETag, sizes, times), last pull, last error | `Load`, `Save`, `MarkError` | truncated and filled in two steps; rewritten as a whole |
| Vault, `internal/vault/vault.go` | the note files | `List`, `Read`, `Create`, `Update`, `Append`, `Delete`, `Search`, `CopyNote` | check-then-act without a lock; temporary files inside the vault |
| MCP tools, `internal/mcp/server.go` | none of its own | nine handlers: scope, `EnsureFresh`, vault operation, `Push` | concurrent requests; a failed push is a warning, not an error |
| OAuth store, `internal/auth/sqlite_store.go` | SQLite tables of clients, states, codes, tokens | save, get, delete, two read-and-consume transactions | single use and rotation under concurrency, expiry |
| GitHub provider and verifier, `internal/auth/github.go`, `verifier.go` | none | exchange, validate, refresh, verify | two reads that may disagree |
| HTTP server, configuration, start-up | none after start | routing, parsing of the environment | a shutdown waits for nobody: see below |

A request reaches a handler of `mcp/server.go`. The handler calls
`EnsureFresh`, which may pull; then a vault operation, which does not take
`s.mu`; then, for a write, `Push`. The synchroniser walks the vault with
`vault.List`, stats and replaces files itself, and keeps the manifest. So the
vault is shared between handlers and the synchroniser without a common lock, the
bucket is shared with other programs, and the manifest belongs to the holder of
`s.mu`. The OAuth library, which is not part of the repository, calls the OAuth
store; only it and the token verifier do.

On a signal `main.go:73` returns as soon as `Shutdown` begins and the process exits
with requests in progress. To them a stop is a crash, and the models have one
action for both.

What makes each part correct:

- synchroniser: a pull never loses a note that was not mirrored; a push that
  succeeds has mirrored the vault, and records no note as sent that it did not
  send; an object is deleted only for a deleted note; failures and crashes leave
  a manifest from which the next call goes on safely, or none it could misread;
- manifest: no call undoes what another recorded; a failure does not forget;
- vault: a note changes in one step from one whole text to another, and only if
  its writer is told so; a path means the note it leads to; a listing lacks no
  note, since a push deletes the objects of those it lacks; temporary files go;
- tools: every request is answered, and the answer tells the truth about the
  vault, and about the bucket unless it warns;
- OAuth store: a code or refresh token is consumed once, with what was recorded
  for it, and only before its expiry; no call blocks the one connection.

The hazards are listed in `PROJECT.json`, each at its line, with the properties
that cover it or the reason why none does. Where the code goes wrong, the
property is refuted by a run, and another one says what is left of it.

## Modules

`S3Sync` - synchroniser and manifest. State: `local` (the vault), `remote` (the
bucket), `disk` (`state.json`), `mu` (`s.mu`) and one `frame` per caller, which
is the stack frame of its current call: a program counter, `next.Entries`, the
listing `objs`, the file times `infos`, and the paths a loop has yet to visit.
Every I/O call of the code is a step, in the order of the code:

| Code | Actions |
| --- | --- |
| `EnsureFresh`, `Pull`, `Push`: lock, load | `EnsureFresh`, `Pull`, `Push` by way of `Locked` |
| `IsMarkdownEmpty`, `localMarkdown` | the listing is taken when the call is entered, the files are looked at in `Probe` and `ListLocal` |
| `pullLocked`, loop over objects | `ListRemote`, `Stat_Untracked`, `Stat_Keep`, `Stat_Download`, `Download`, `Restat`, `StatDone` |
| `pullLocked`, loop over entries | `Gone_Keep`, `Gone_Remove`, `Remove`, `GoneDone` |
| `pushLocked` | `PutObject`, `HeadObject`, `PutDone`, `DeleteObject`, `PurgeDone` |
| `Save`, `MarkError` | `StartSave` truncates the file within the step before; `Save` and `SaveMark` fill it and return |
| error returns | `CallFails`, `AnswerLost`, `WalkFails`, `SaveFails` |
| outside the call | `Crash`, `WriteNote`, `DeleteNote`, `ForeignPut`, `ForeignDelete` |

The loops range over Go maps, so they take their paths in any order. Some code
phases share a step where nothing can tell them apart: lock and load (only the
holder of `s.mu` writes the manifest), GET and the rename that follows it (the
rename is what others see), a failing call and the truncation by `MarkError`.

What is abstracted, and assumed:

- an ETag is the content, and a size follows from it;
- a time is a stamp that is compared for equality only, as the code does, and
  every write gets a stamp of its own. Two writes of one size within the clock's
  resolution, which the code cannot tell apart, are therefore left out;
- four stamps are enough for the runs: at most three are referred to for one
  path, by the file, the entry in memory and the entry on disk or the listing,
  so one is left for a write. A write that finds none would be disabled. Where
  nobody writes during a call, as in `sync_alone`, the listing has the file's own
  time and three are enough;
- an object's key and the note's path are one thing. Keys that are cleaned into
  another path (`a//b.md`) are not modelled;
- symbolic links and temporary files are not modelled here;
- state.json starts absent or readable. `Unreadable` switches on reads that fail
  now and then, `Faults` every other failure. A save that fails, or that a death of
  the process cuts short, leaves a file no call can load (`disk.ok` is FALSE), whose
  entries are lost. What `disk.entries` holds then is no state of the code: it is
  what the file had, kept to be compared with, and every action that loads the
  manifest looks at `disk.ok` first;
- the process may die at any moment, inside a call or between two.

`SyncDuring` - `S3Sync` with a history that its steps write and never read: `edited`,
the paths whose file others changed since a call looked at it (a pull at each in its
turn, a push when it begins to walk the vault), and `foreign`, the paths whose object
others changed since the call sent it. With it the promises of a call can be stated for
writers that write at any time, by excusing just the paths that somebody touched
after the call had looked.

`MCSync`, `MCDuring` - instances for TLC: the symmetry sets. Paths are symmetric only if
all or none of them are hidden; contents and callers are symmetric always, since
no definition chooses among them.

`S3Sync_proofs` - theorems about `S3Sync`: types, the lock, the manifest in memory.
`S3SyncData_proofs` - theorems about what its calls do to manifest, files and objects.
`SyncDuring_proofs` - the theorems about the promises with the history.

`Tools` - the handlers of `mcp/server.go`, composed with `S3Sync`, which it
extends. `req` holds the request each caller serves: the stage its handler has
reached, tool, path, what append read, and whether the vault was changed; at rest
it keeps the last answer only. A note's content is a set of pieces here, so that
append can be told from update.

| Code | Actions |
| --- | --- |
| `requireScope` | `Begin`, which answers with an error when the scope is missing |
| calls of the synchroniser | `CallSync` takes the lock as part of `EnsureFresh`, `Pull` or `Push`; `SyncStep` is a step inside; `PullReturned`, `PushReturned` (`writeOutput`) go on |
| `vault.Create`, `Append` | `CreateLooks` or `AppendReads`, then `CreateOrAppend` replaces the note |
| `vault.Update`, `Delete`, `Read`, `List` | `Update`, `Delete`, `Read` |
| a vault error, an invalid path included | `VaultFails` |
| `Status` | `Status`, without the lock |
| death at any stage of a handler, and start-up | `Restart`: clients lose their connections |

All clients present the same scopes. `list_notes` stands for `search_notes`, which
differs in what it answers only. In `Tools` the notes are written by the
handlers themselves, at any time, so `VaultWrites` is "any time" there.

`Tools` implements `S3Sync`: forgetting `req`, each of its steps is a step of the
synchroniser, a write of a tool handler as `S3Sync` has it in its environment, a
step of another program, or nothing (`SyncImplemented`).

`Tools_proofs` - theorems about `Tools`. `ToolsAlone_proofs` - those that need requests
to be served one at a time.

`MCTools` - instance for TLC: pieces and callers are symmetric. `ToolsLive` uses no
symmetry, which liveness would not allow.

`NotePath` - `ValidateNotePath` and `ValidatePathPrefix` on sequences of segments. `Clean`
is `path.Clean` of a relative path, a fold over its segments; `Markdown` and `Illegal` say
which segments have the suffix and which hold a forbidden character. `Place` says,
without a fold, where a walk along the path ends, and `NamesItsPlace` what `Clean` is
meant to achieve: an accepted path means the note at which a walk ends that never left
the vault, and a path of a note without `..` in it is accepted. Whether one with `..` in it
may be accepted at all is another matter, on which code and README.md differ
(`vault_climbs`).

`Vault` - the vault under its handlers, without a lock, one file system call at a
time; `Tools` has its operations in fewer steps, since it asks other questions.
State: `notes` (the files by clean path), `temps` (the temporary files), a `frame` per
caller, and the history `always` of the notes present throughout a caller's walk.

| Code | Actions |
| --- | --- |
| a call, its path check, `ErrDeleteDisabled`, a failing first system call | `Begin`, `Rejected` |
| `Read`; `Create` and `Append` up to `atomicWrite`; `Delete` | `Read`; `CreateLooks`, `AppendReads`; `Delete` |
| `atomicWrite`, and `CopyFile`, which is the same | `CreateTemp`, `Rename`, `WriteFails`; the deferred remove is `CleanUp`, `CleanUpFails` |
| `List`, walking | `StartWalk`, `ReadDir`, `Look`, `WalkDone`, `WalkFails` |
| `Search`, opening what it listed | `Scan`, `ScanDone`, `WalkFails` |
| the process dies | `Crash` |

Writing, syncing, closing and chmod of a temporary file are no steps: others see
that it exists, and no more. `Order` is the lexical order in which `WalkDir` visits.
`Update` does not look whether the note exists, and neither does the model.

`NoteStore` - what the vault promises: notes put, replaced, removed and read in one
step, which is also the step that settles the answer. `Vault` implements it
(`NotesAtomic`): a call is asked for when it begins and answered when its outcome is
settled, by the rename and not by the return that follows the clean-up. A failure
or a death between the two steps of an append or a create loses the call and
nothing else. `NoteStore` lets `append` and `create` replace what came in between, as the
code does (`tools_append`).

`MCVault` - instance for TLC: `Spellings`, the paths over which `PathsNamed` is checked, are
all short ones there, and `Inputs`, the paths clients use, are a few of them, one with `..` in it. `PathsNamed` speaks of
no variable, so a look in the initial states is all it takes.

`OAuthTables` - the tables of `sqlite_store.go` with the columns and JSON fields that
its code looks at, and the answers of its calls. `OAuthStore` - the calls. State: the
clock `now`, `up`, the committed `db`, the holder `conn` of the one connection
(`SetMaxOpenConns(1)`), `tx`, the database as its transaction sees it, and a frame per
caller.

| Code | Actions |
| --- | --- |
| `AtomicCheckAndMarkAuthCodeUsed` | `Redeem`, `BeginTx`, `SelectCode`, `MarkUsed`, `Commit` |
| `AtomicGetAndDeleteRefreshToken` | `Redeem`, `BeginTx`, `SelectRefreshToken`, `SelectProviderToken`, `SelectMetadata`, `DeleteRow`, `DeleteMetadata`, `Commit` |
| their error returns, `defer tx.Rollback()` | `BeginTxFails`: cancelled while waiting for the connection; `RollBack` within the other steps; `Fail` |
| other reads: one statement | `GetAuthorizationCode`, `GetRefreshTokenInfo`, `GetAuthorizationState`, `GetTokenMetadata`, `GetToken` |
| other writes: one statement | `Save...`, `Delete...` |
| `NewSQLiteStore`, exit or crash | `Open`, `Stop`; a transaction under way is lost |

Any call comes at any time with any argument: the order of calls is the library's.
`DeleteRefreshToken` is one statement that leaves the metadata, unlike the redemption.
A row's column `used` and the field of its JSON are one, as they are always written
together; so are the column `expires_at` and the expiry time of the JSON, of which the
column keeps whole seconds (`Unix`). Time is counted in ticks, `TicksPerSecond` to the
second, so that the fraction the column drops is there to matter. The first second
of the epoch is left out: `Unix` makes its times 0, which stands for "never".

`TokenStore` - what the store promises: every call takes effect and is answered in one
step, or changes nothing. `OAuthStore` implements it (`StoreAtomic`), with `answer` mapped
to the answers callers have and have not taken in.

`MCOAuth` - instance for TLC: two provider tokens, one with and one without a refresh
token of its own.

`NotePath_proofs`, `Vault_proofs`, `OAuthStore_proofs` - the theorems about these.

## Runs

The constants `VaultWrites` and `BucketWrites` say when handlers and other
programs write: never, between calls (while `s.mu` is free), or at any time; other
programs may also be held to objects the manifest has no entry for, between calls
("untracked": they add notes to the bucket and edit none). The code allows "any time"
for both, and `sync_overlap` checks what it promises then. Two properties say what a call does if nobody comes in between, and are refuted if
somebody does: `OnlyCleanOverwritten` (`sync_race`), of which `KeepsEdits` is left, and
`ReplacesAsFound` (`tools_append`). `PurgeFollowsDelete` is refuted by hidden paths
(`sync_hidden`); `PurgesDeleted` is what is left of it. `VaultIsTruth` is about
handlers that write between calls and a bucket to which others only add: an object
they replace is one that pulls adopt, and a note written between Stat and rename is
lost as in `sync_race`.

| Run | Environment | Shows |
| --- | --- | --- |
| `sync_overlap` | 1 path, 2 contents, 2 callers; everything at any time, all faults | `TypeOK`; `NoLostUpdate`: what a call will save equals the manifest on disk wherever it has not been itself; `InSyncLeftAlone`: no call touches a path whose file, entry and object agree; and of paths nobody touched since the call looked: `KeepsEdits`: a pull replaces or removes no file the manifest does not describe; `PurgesDeleted`: a push deletes no object whose note is there; `RecordsWhatItSent`: a push records no file as sent that is newer than the bytes it sent |
| `sync_alone` | 2 paths, 1 content, 1 caller, so that a call fails between two paths; handlers between calls, other programs in the bucket between calls on untracked paths; faults, manifest may become unreadable | `VaultIsTruth`: no pull changes a note the vault lists, whatever failed or crashed before; `FailureKeepsEntries`: a failed call goes on to record the entries as they were, and a manifest that can be read afterwards has them; `CutShortStops`: while `state.json` is cut short, no call touches a file or an object |
| `sync_race` | handlers at any time | refutes `OnlyCleanOverwritten`: Stat, handler writes, download is renamed over it |
| `sync_hidden` | the path is below `.git` | refutes `PurgeFollowsDelete`: pulled and tracked, never listed, purged |
| `tools_sequential` | 1 path, 2 pieces, 1 caller, all tools; other programs in the bucket between calls; faults, restarts | `SyncImplemented`; `OkMeansMirrored`: a write answered without a warning is in the bucket; `AnswerTellsVault`: an error means the vault was not changed, success that it was |
| `tools_live` | 1 path, 2 callers; update, sync_now and a refused delete; faults, restarts | `EveryRequestAnswered` under fairness |
| `tools_retry` | 1 caller; faults, restarts | refutes `PushMirrors`: a write whose push failed or was cut short, then sync_now: its pull takes the edit into the entry, its push sends nothing and succeeds |
| `tools_append` | 2 callers | refutes `ReplacesAsFound`: two appends read one note |
| `vault` | 2 notes, one in a directory; 3 temporary files, 2 contents and their union; 2 callers, of whom one lists and searches; faults, crashes | `VaultTypeOK`; `NotesAtomic`; `OnlyCrashStrands`: a temporary file without a call that will remove it is left by a crash or a failed remove alone; `WalkComplete`: a walk that does not fail has found what was there all the time; `PathsNamed`: an accepted path means the note it leads to, and a path of a note without `..` is accepted, over all paths of up to 5 segments |
| `vault_climbs` | 1 caller, no faults | refutes `DotsRejected`: a request for `x/../n.md` writes to `n.md`, where README.md:123 says that paths with `..` are rejected |
| `oauth_codes` | 1 code, 2 states with one provider state; 2 callers; faults, restarts | `TypeOK`, which has the unique provider states; `StoreAtomic`; `EveryCallReturns`; `ExpiryHonoured`: never accepted late, never called expired a second early |
| `oauth_refresh` | 1 refresh token, 2 users, 2 provider tokens; 2 callers; faults, restarts, unreadable metadata | `StoreAtomic`, `EveryCallReturns`, `ExpiryHonoured` for the other redemption |

Bounds: a property of `S3Sync` speaks of one path, and paths meet only in the
order of the loops and in a failure between two of them, which two paths show;
two callers meet only at the lock, which two show; two contents tell right from
wrong, and one is enough in `sync_alone`, where files and objects differ in their times. In `vault` two calls meet in one note, in one directory (two temporary names in
the root) or in a walk, and a third would add no pair; one walker is enough, since a
walk changes nothing another could see. Paths of five segments over `""`, `.`, `..`, a
directory, a note and an illegal segment go down, up again and above the vault in
every way that three steps down allow. In the OAuth runs callers compete for one
grant; a second grant would be a second row, which no statement about the first
touches; two ticks to the second and a clock of two seconds hold every order of
an expiry time, its rounding and the present. Codes and refresh tokens share
nothing but the connection, so that each has a run of its own. Deadlock is checked
in all runs, but says little where the process may die at any moment, which is a step
as well: that nobody waits for ever is what the liveness properties say.

`sync_race` and `tools_append` need two requests at once, since a
handler holds no lock but inside the synchroniser. `tools_retry` needs one client
and one failed push, and `sync_hidden` an object named `.git/x.md`.

Fairness (`Tools!Fairness`): weak fairness of what a handler does and of the steps
of a call (goroutines are scheduled, S3 requests answer or time out), strong
fairness of entering a call: `sync.Mutex` hands over to a waiter that has
waited for a millisecond, so no goroutine is passed over for ever. Nothing is
assumed of clients, faults, restarts or other programs. `tools_live` leaves out
the other tools, `S3_SYNC_DELETE` and the bucket's other writers, which add loop
bodies and writes, and no waiting.

In `OAuthStore!Fairness` the steps of a transaction and the return are weakly fair, and
`BeginTx` strongly: `database/sql` hands a freed connection to one of those who wait,
picked at random, so a call is passed over for ever with probability zero only;
strong fairness leaves that out. Calls of one statement wait inside their step, and
are not the ones `EveryCallReturns` could find waiting. Nothing is assumed of the clock, of faults, or of what clients call. A restart
ends a call as well. `Vault` states no fairness: nobody waits there for anybody.

## Proofs

`S3Sync_proofs` proves, for any sets of paths, contents, stamps and callers:

| Theorem | Statement |
| --- | --- |
| `TypeCorrect` | `Spec => []TypeOK` |
| `Exclusive` | `Spec => []MutualExclusion` |
| `NothingLost` | `Spec => []NoLostUpdate` |

They rest on the inductive invariant `IInv`. `TypeOK` is not inductive:
`HeadObject` joins an object with `infos[p]`, which is a time only because the
loop visits listed paths alone. `LoopOK` says that, for each phase, the paths to
visit have what the loop body uses. `NoLostUpdate` is not inductive either: when
the loop over objects ends, the loop over entries starts on paths the first has
not visited, so `EntriesOK` speaks of these as well. Both are predicates of one
frame. A caller outside a call satisfies them trivially, and mutual exclusion
leaves one caller inside; hence lemmas `Continue` and `Leave`, which reduce every
action to its own new frame. The assumptions are those named in `S3Sync`: `Hidden` is a set of paths,
there is a stamp, `None` is none of the rest, the switches have their values.

`S3SyncData_proofs` goes on, from the same `IInv` and assumptions:

| Theorem | Statement |
| --- | --- |
| `InSyncKept` | `Spec => InSyncLeftAlone`, whoever writes and whenever |
| `FailuresKeep` | `Spec => FailureKeepsEntries` |
| `CutShort` | `Spec => CutShortStops` |
| `TruthHolds` | `Spec => VaultIsTruth`, if `VaultWrites # "any time"` and `BucketWrites` is "never" or "untracked" |

Each action is first reduced to what it does to the frame of its caller
(`PullEffects`, `PushEffects`, `EndEffects`, `CallEffects`), and each write to a file or object
to one fact: its time is one that nobody refers to (`FileWrites`, `ObjectWrites`).
`InSyncKept` needs `OutOfSyncInv`: a path that a call is about to transfer was out of
sync when the call looked, and a path out of sync does not get in sync by anything but
a `Save`, since a new file or object has a new time (`StaysOutOfSync`). So it needs
nothing of the writers. `FailuresKeep` and `CutShort` need `ReadableInv`: a call that is
at work and not yet saving has loaded the manifest, and nobody else writes it, so it can
be read. Then a call that meets a truncated manifest is one that is saving, which
transfers nothing, or one that fails where it loads; and what `MarkError` loads when
a call has failed is the manifest as it was.
`TruthHolds` needs `AbsentInv` (a listed path about to be purged had no file when the
vault was walked, and has none until the lock is free) and `TruthInv`: for the manifest
on disk and for the entries in memory, if the file is the one the entry describes, so
is the object (`Tracks`). Then a pull finds an unedited file mirrored, and leaves an
edited one alone. Its hard case is a failure in the middle of a push: objects have
been replaced, and the manifest on disk still has the entries from before. These
entries describe the files before the edit, so they claim nothing. Nor is anything
claimed of a path without an entry, which is why others may write there
(`TrackedHeld`). `Tracks` is claimed of listed paths only: a push
deletes the object of a hidden one, and if the answer is lost, the entry stays and the
next pull removes the file.
`AbsenceAssumption` (`None` is no file, object or entry) is used in these proofs.

`TruthHolds` does not ask for the writers to wait in general, but for one thing in a step:
`WritersWait`, that files change only by a step of a call or while `s.mu` is free.
`CallsAlone` has it from `VaultWrites`; `ToolsAlone_proofs` has it from the handlers.

`SyncDuring_proofs` proves, from the same assumptions and with handlers and other programs
at any time:

| Theorem | Statement |
| --- | --- |
| `EditsKept` | `DuringSpec => KeepsEdits` |
| `DeletedPurged` | `DuringSpec => PurgesDeleted` |
| `SentRecorded` | `DuringSpec => RecordsWhatItSent` |

Each has an invariant that says what a call knows of a path, or else that the history has
the path. `CleanInv`: a file about to be replaced or removed is the one its entry
describes, or was edited since. `GoneInv`: a path about to be purged has no file, or was
edited since (`AbsentOK`, as in `AbsentInv`, with the edited paths excused). `SentInv`:
once an object was sent, if the file still has the time that was listed, the object has its
content, or was replaced by others; it rests on every write having a time of its own.
`EditedGrows` and `ForeignGrows` say that nobody else changes a file or an object without
getting into the history.

`Tools_proofs` proves, if `VaultWrites` is "any time", for any callers and tools and
any contents closed under append:

| Theorem | Statement |
| --- | --- |
| `HandlersImplement` | `ToolsSpec => SyncImplemented`, that is `Spec` |
| `ToolsTypeCorrect` | `ToolsSpec => []ToolsTypeOK` |
| `AnswersTell` | `ToolsSpec => AnswerTellsVault` |

Its invariant `ToolsInv` joins `IInv` and `ReqInv`, which says what a handler knows
of its request at each stage. Neither stands alone: a write is one `S3Sync`
allows for only if its path and content are (`ReqInv`), and what append reads is
a content only if the vault is well formed (`IInv`). `Simulation` uses `ReqInv` to
map a step of `Tools` to one of `S3Sync`, `NextIInv` carries `IInv` over that step, and
`RequestsPreserved` restores `ReqInv`. By `HandlersImplement` the theorems about `S3Sync`
without a hypothesis on `VaultWrites` hold of the server: `NothingLost`, `InSyncKept`,
`FailuresKeep`, `CutShort`, and those of `SyncDuring_proofs`, whose history any behaviour of
`S3Sync` can be given.

`ToolsAlone_proofs` proves, if `VaultWrites` is "any time" and `Callers` has one member at
most (`OneCaller`: one request is served at a time, crashes and failures included):

| Theorem | Statement |
| --- | --- |
| `OkMirrors` | `ToolsSpec => OkMeansMirrored`, if `BucketWrites # "any time"` |
| `HandlersTruth` | `ToolsSpec => VaultIsTruth`, if `BucketWrites` is "never" or "untracked" |

`OneCaller` is more than the code grants: these theorems say what one user with one client
can rely on through failures, lost answers, cut-short pushes and restarts, which is
what both properties are about. `InsideInv` says that a handler is inside a call only at
the stage that waits for it. `MirrorInv` follows the push behind a
write: it begins with a note the manifest does not have as synchronised (`Edited`),
has the note among the paths to send until the object holds its content (`SendsOK`, `Mirrored`),
and does not take it from the bucket again. A handler that writes is in no call
and nobody else is, so `WritersWait` holds (`AloneWrites`), and the invariant of
`TruthHolds` is kept by the steps of the server.
`PushMirrors` is no such theorem: `tools_retry` refutes it with one caller.

`OAuthStore_proofs` proves, for any keys, rows, callers and clock, from the
assumptions of `OAuthTables` and `OAuthStore` (expiry times are 0 or no earlier than one
second, `None` is no row):

| Theorem | Statement |
| --- | --- |
| `TypeCorrect` | `Spec => []TypeOK` |
| `Atomicity` | `Spec => StoreAtomic`, that is `TokenStore!StoreSpec` |
| `Expiry` | `Spec => ExpiryHonoured` |

Its invariant `TxInv` says who has the connection and, phase by phase (`Progress`), how
far a transaction's view `tx` is from the committed `db` and what its answer will be. It
is needed for `TypeOK` as well, since a transaction writes to rows it found before.
`Atomicity` maps `Commit` to the redemption, a read or a rollback to its answer, and
the other steps of a transaction to a stutter. `Expiry` bounds the rounding of `Unix`
by arithmetic for any `TicksPerSecond`.

`Vault_proofs` proves, for any notes, directories, temporary files, texts and callers:

| Theorem | Statement |
| --- | --- |
| `VaultTypeCorrect` | `VaultSpec => []VaultTypeOK` |
| `TempsCleaned` | `VaultSpec => OnlyCrashStrands` |
| `WalksComplete` | `VaultSpec => WalkComplete` |
| `NotesImplemented` | `VaultSpec => NotesAtomic`, that is `NoteStore!StoreSpec` |
| `PathsAreNamed` | `VaultSpec => []PathsNamed` |

The invariant `IInv` says what a frame has at each phase: a writer an accepted path, a
whole text and a temporary file, others no file, and no answer before its time.
`WalkInv` is for `WalksComplete`: a note that has been there since the walk began was
found, is listed, or lies below a directory yet to be read. It is kept because below
a directory on the way to a note there is the next one (`NextDir`, from `DirsAssumption`).
`NotesImplemented` maps a call to one step of `NoteStore` on the note its path leads to, which
is where `PathsMean` comes in.

`NotePath_proofs` proves, of any sequence of segments:

| Theorem | Statement |
| --- | --- |
| `PathsMean` | `NamesItsPlace(input)`: an accepted path means the note a walk along it ends at, and a path of a note without `..` is accepted |

A walk is followed by its depth (`Height`: steps down less steps up), `Clean` by its
stack. `CleanOK` relates the two after every prefix of the input: the
stack holds the steps the walk has taken and not gone back from (`Stacked`), and
`PlaceIsStacked` says that these are the steps of `Place`. The fold is opened into its
steps by `CleanBySteps`. The induction over the prefixes is one over a set of
numbers (`SetInduction`), which follows from the well-foundedness of the numbers;
the library's induction rule, which takes an operator, cannot be used here.
`Vault_proofs` adds `PathsAreNamed`: `VaultSpec => []PathsNamed`, for any `Spellings`.

Model-checked only: `EveryRequestAnswered` and `EveryCallReturns`. Liveness under fairness
is out of the prover's reach.

## Not modelled

- GitHub provider and token verifier: they keep no state. What the verifier may find
  disagreeing between its two reads is up to the library's writes in between.
- The tables of clients and user infos: one statement per call, and no row that
  another call looks at together with them.
- HTTP server, configuration, start-up: wiring, and switches that are constants here.
- In the vault: symbolic links, the creation of missing directories, the limit of
  `List` (`WalkComplete` is about what the walk found before the limit is applied),
  scoring and snippets of a search. Hidden directories are in `S3Sync` (`Listed`).
- `Status` and `FromState` but for the read they do: `Status` may meet a truncated
  manifest and answer with an error, which harms nothing but that answer.
- Keys that are cleaned into another path, and temporary files that a push takes
  for notes: both are hazards in `PROJECT.json` that no property covers. `Vault` and
  `S3Sync` would have to be composed for the latter.
- The internals of the OAuth library, of the S3 client and of SQLite, which are
  used through their documented effects.

## Plan

What would come next, in this order:

1. `Mirror`: an abstract promise of the synchroniser (the vault changes by its
   writers and by adopting the bucket's notes only), implemented by `S3Sync` while
   handlers wait for calls; and of `TokenStore`, that between two redemptions of one
   grant somebody saves it again.
2. `Vault` in place of the environment's writes in `S3Sync`, so that a push meets
   temporary files.
3. Keys apart from paths in `S3Sync`.
