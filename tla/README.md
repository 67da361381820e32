# TLA+ models and proofs for libsignon

libsignon is a single-sign-on framework: a daemon, `signond`, keeps identities
(user names, secrets, access control lists) and runs authentication plugins for
its clients; a client library, `libsignon-qt`, talks to it over D-Bus. This
directory holds TLA+ modules of its core logic, the TLC runs that check them on
small instances, and proofs checked by TLAPS. Paths below are relative to
`src/libsignon/`.

## 1. The system: components, state, operations

**Session core** (`src/signond/signonsessioncore.cpp`). One object per identity
and method (per session for identities that are not stored). State: the queue
`m_listOfRequests`, `m_requestIsActive`, `m_canceled`, the pending call to
signon-ui `m_watcher`, the credentials on trial `m_tmpUsername/m_tmpPassword`,
`m_queryCredsUiDisplayed`. Operations: `process`, `cancel`, `setId`, the slots
of the plugin proxy (`processResultReply`, `processStore`, `processUiRequest`,
`processRefreshRequest`, `processError`, `stateChangedSlot`), the posted calls
`startNewRequest` and `queryUiSlot`, `credentialsSystemReady`, `destroy`.
Correct when: requests are served one at a time in order, each gets exactly one
answer, answers, dialogs and stored credentials are those of the right request,
and no request waits for ever.

**Plugin proxy** (`src/signond/pluginproxy.cpp`) and **plugin process**
(`src/remotepluginprocess/`, `src/plugins/`). The proxy holds `m_isProcessing`,
`m_isResultObtained`, `m_uiPolicy` and a `QProcess`; it writes operations
(process, processUi, refresh, cancel, stop) and reads responses (result, store,
error, ui, refreshed, signal). Nothing in a response names its request. The
process may die at any time and is restarted by the next operation. Inside the
process a second thread polls standard input for cancelations while the plugin
works. **Blob I/O** (`lib/plugins/signon-plugins-common/`) pages the data.

**signon-ui interface** (`signonui_interface.cpp`): `queryDialog`,
`refreshDialog`, `cancelUiRequest`, `removeIdentityData`; asynchronous D-Bus
calls to the dialogs' process.

**Credentials access manager, key handler, crypto manager**
(`credentialsaccessmanager.cpp`, `lib/signond/SignOn/key-handler.cpp`,
`src/extensions/cryptsetup/`, `default-*.cpp`). State: the authorized and the
inserted keys, whether the encrypted file system is set up and mounted, whether
the secrets database is open. Operations: keys inserted, disabled, removed,
authorized, the file system formatted, mounted, unmounted. Correct when secrets
are open only while an authorized key is present and come back when it returns.

**Credentials database** (`credentialsdb.cpp`, `default-secrets-storage.cpp`).
State: the metadata database, the secrets database (open or not) and the cache
that stands for it while closed. Operations: insert, update, remove, load and
store of data, references, open and close of the secrets, error recovery. The
metadata are nine tables kept consistent by triggers; their file is created and
upgraded by statements that commit one by one. Correct when the two databases
and the cache agree on whose secrets exist, and the tables hold what was stored.

**Identities and sessions** (`signonidentity.cpp`, `signonauthsession.cpp`,
`signondaemon.cpp`, `signondisposable.cpp`). State: the registries of live
identities and session cores, their idle timers, cached identity data.
Operations: registration, look-up, store, remove, sign-out, disposal of the
unused, and the end of the idle daemon. Correct when the registries name objects
that exist, clients of one identity share one object, nothing is disposed of
while a client waits for it, and everything is once nobody does.

**Backup and restore** (`signondaemon.cpp`): closes the system, copies, moves and
removes files, rolls back on failure. Correct when no step that fails, and no
kill, loses what was stored.

**Access control** (`accesscontrolmanagerhelper.cpp`): who may use, own or remove
an identity.

**Client library** (`lib/SignOn/`). State: the connection to the daemon, for each
remote object a proxy with its path and the calls queued for it, and the flags
of authentication sessions and identities. Operations: the calls of the
application, registration, the retry of calls whose object went, disconnection
and activation of the daemon. Correct when each call is executed at most once
and ends, and its end is told once.

*Interaction.* `signond` is single threaded: D-Bus calls, timers, process output
and posted calls are handlers of one Qt main loop; only the plugin process has a
second thread. Components call each other directly and by direct signals, except
for two posted calls of the session core, and interact with other processes by
asynchronous messages. *What is hard*: the order in which the loop runs its
handlers (a dialog's answer against a plugin's result, a cancelation against an
answer), processes that die, state that outlives the request it belongs to, and
two databases without a common transaction. The hazards of `PROJECT.json` list
them at their lines.

## 2. Plan

| | modules | proofs |
|---|---|---|
| 1 | `PluginProxy`, `SessionCore`, `RequestQueue`: the life of a request. **Done** | `SessionCoreProofs`, `SessionCoreServing`: types, replies, service of the queue, refinement, whose answer is whose. **Done** |
| 2 | `CryptoManager`, `BackupFiles`, `SecureStorage`: keys, encrypted storage, backup. **Done** | `SecureStorageProofs`: mounts, key slots, valid keys, revocation, formatting, waiting cores, files. **Done** |
| 3 | `CredentialsDB`: secrets, cache, and the requests that read and write them. **Done** | `CredentialsDBProofs`: all its properties. **Done** |
| 4 | `MetaDataDB`, `IdentityMap`: the tables, their triggers, transactions and file. **Done** | `MetaDataDBProofs`: both its properties. **Done** |
| 5 | `Registry`: identities, sessions and cores shared by clients, and their disposal. **Done** | `RegistryProofs`: the tables, shared objects, caches, dialogs and queues. **Done** |
| 6 | `ClientProxy`, `Client`: the client library. **Done** | `ClientProofs`: the place of every call, the order of a service's replies. **Done** |
| 7 | `PluginProcess`: the two threads of the plugin's process, paging. **Done** | `PluginProcessProofs`: what the threads read. **Done** |

Each row is checked before the next is begun, in the order of what a client
would miss first: its answer, its secrets, its identity, the object it talks to,
its own library, and the inside of a plugin. `SessionCore` extends `PluginProxy`,
`SecureStorage` extends `CryptoManager` and `BackupFiles`, `Client` extends
`ClientProxy`; the abstract specifications are `RequestQueue` (of the core) and
`IdentityMap` (of the metadata database). Not planned any more: section 7.

## 3. Modules

Actions are named after the handlers they are. Where Qt runs the slots of a
signal inside the function that emits it, a call goes through several objects
before anything else can happen: such a component is one record, each function an
operator from a record to the next, and an action applies the whole call
(`SecureStorage`, `Registry`, `ClientProxy`). A variable or definition marked
*history* is read by no guard of the code. A definition that precedes one it is
named after (`keepInUseHasty`, `keepInUse`) is a faulty variant of it that the
mutants of `PROJECT.json` put in its place. Modules named `MC...` give the constants their
values, those named `...Proofs` and `SessionCoreServing` hold
the theorems of section 5.

### PluginProxy

The proxy's three flags keep their names. `writeBuffer` is what the code has
written to the `QProcess` and the event loop has not yet flushed, `toPlugin` and
`fromPlugin` are the two pipes. A message is an operation or response code and
the request it is about; the request is never read by a guard of the code, it is
what lets the properties say whose answer arrived. The plugin process is the
environment: `startTask` reads an operation, `pluginAnswers` and `pluginAsks`
write responses, `processDies` crashes. `Env` names what a run allows:

| in `Env` | the environment may |
|---|---|
| `crash` | end the process by a signal |
| `restart` | fail to start it again |
| `torn` | deliver a blob that is not complete |
| `late` | deliver a torn blob, or the end of the process, while `m_canceled` stands |
| `unasked` | end a request while the dialog it asked for is open |
| `idle` | answer a cancel, or the result of a dialog, when no request is worked on (the password plugin's `cancel()` does) |

Abstractions: a blob is one message; state-changed signals change nothing and are
left out; `MaxChatter` bounds the stores and dialogs of one request.

### SessionCore

Each slot is an action and each action a whole slot: it includes the reply, the
closing of the dialog and `requestDone()`. The proxy's signals are direct
connections, so reading a message and running the slot are one step.

The main loop's queue of posted calls holds two kinds of call. `queryUiSlot` is
posted at most once, exactly while the watcher is finished; so the queue is the
number of `startNewRequest` calls ahead of it and behind it. The loop polls, and
so flushes what was written, only when no posted call is left (`pollAndFlush`).

The data of a request is reduced to whose credentials its parameters hold
(`creds`, `tmpCreds`), the replies to their kind, and the database to the flag
`validated`. `cancelForgotten` (history) remembers that `startNewRequest()`
cleared `m_canceled` while the canceled request was still active, which the code
does (`signonsessioncore.cpp:892`); three properties are stated for the
behaviours in which it has not happened. `credentialsSystemReady` starts the
requests that were accepted before the key managers had reported.

### RequestQueue

The promise to the clients, with no plugin, dialog or event loop: submit, serve,
give up, finish, withdraw. `SessionCore` implements it under the mapping at
`Queue` (property `ServesTheQueue`).

### CryptoManager, BackupFiles and SecureStorage

`CryptoManager` has no variables: its operators take the records `volume` (the
container, its devices, what is mounted) and `crypto` (the manager's own flags)
and give them back changed, as the C++ functions change the objects they work
on. `e` is what surrounds a call: the system call that fails while the handler
runs, if any, and the key a set of keys yields when the code takes the first.
`BackupFiles` does the same for the files: each of the loops of
`copyToBackupDir()` and `copyFromBackupDir()` is a fold over the two names, and a
failure to copy, or the end of `signond` in the middle, is a fault of one name.

`SecureStorage` composes them with the key handler, the credentials access manager
and the key authorizer. The environment is the key managers (keys inserted,
disabled, removed), the user (an authorizer of an extension answers later), the
session cores that wait for the storage or store in it (`SecretsStored`),
backups, restores and restarts. Two variables are history: `revoked` (keys whose
authorization was taken back) and `lostTrack` (the keychain once missed a key of
the header). A restart leaves the container attached, as a killed process does.
`phase` says where `main()` is: `stopped` is the end by a null pointer.

### CredentialsDB

A row of a table is a member of a function's domain. The secrets storage is
open or closed, `cache` stands for it while it is closed, and `openSecretsDB`
writes the cache over it. Callers are the identities (`InsertCredentials`,
`UpdateCredentials`, `RemoveCredentials`, `SignOut`), the daemon (`Clear`), the
opening and closing by the access manager, and the requests of session cores,
which keep the password they have read from `StartProcess` to `ProcessResult`.
`latest`, `latestData` and `writtenLate` are history: the last password a user
gave, the last blob a plugin gave, the identities written to after their removal.

The secret is the password alone. A secret user name travels the same way, with
one difference that is not modelled: a store without a password of an identity
with a secret user name erases the password (`signonidentityinfo.h:84`,
`credentialsdb.cpp:1419`). Public user names and other metadata have one copy.

### MetaDataDB and IdentityMap

`MetaDataDB` has the nine tables, the triggers of `createTables()` as part of the
statement that fires them, and `SqlDatabase`'s transactions: `RAISE(ROLLBACK)`
ends the transaction, so that the statements after it commit one by one. Each call
of `CredentialsDB` is an action and may fail. `file` is what is on disk: none, one
of a version, or the point at which its creation or upgrade was killed; `Start`
runs the rest of `init()`, statement by statement, each of which may be the last.

`IdentityMap` is the promise: a map from identities to what was stored of them,
with the references to them. A call does all of what it is for or nothing, and an
id is given once. What it concedes to the code is named there: an update of an
identity that is gone is reported as a success, and a file whose creation or
upgrade was interrupted loses identities or owners. `StoresIdentities` is the
refinement, with `identity()` and `ownerList()` of the code as the mapping.

### Registry

The state `d` is one record: the life of each object (`none`, `alive`,
`condemned`: destroyed, and to be deleted by the main loop), `SignonDisposable`'s
list, flags and timers, the tables `m_storedIdentities` (`identityOf`) and
`sessionsOfStoredCredentials` (`coreOf`), what each identity has cached, the
sessions of each core and its queue. `rows` is the database as far as owners go,
`dialogs` the delayed calls of identities that wait for signon-ui. An object is a
place in memory that may be taken again. Time is what disposal sees of it: an
object is `unused` after its inactivity. `Env` adds what the properties do not
survive or need not: `fail` (storing fails), `again` (a removed identity is stored
again), `rekey` (a session goes from one stored identity to another), `unknown`
(identities that never existed are asked for), `busy` (the key managers have not
reported at the start). Access control is the guard of the calls.

Abstractions: the deferred deletion of a session is taken at once (the core's is
not); `childEvent()` runs `destroyUnused()` again inside `destroy()`, which changes
nothing more; the requests in a queue are the sessions that made them.

### ClientProxy and Client

`ClientProxy` is `AsyncDBusProxy` with its queue of pending calls,
`ConnectionManager`, and the three requests by which an object path is asked for;
`Client` adds the owner (`AuthSession`, `Identity` or `AuthService`, one of them),
the application and `signond` as the client meets it. `out` and `in` are the two
directions of the connection, each in order; a reply may overtake another when the
daemon waits for a user or a plugin (`begin`, `complete`). `Env` lets `signond`
dispose of objects (`unregister`), refuse a registration (`refuse`), end and be
started again (`die`), fail to be activated (`noservice`), and other clients
change the identity (`others`). Of an identity `verifyUser` stands for the calls
that behave like it (`requestCredentialsUpdate`, references, `verifySecret`).

### PluginProcess

The inside of what `PluginProxy` takes as one step per operation. A blob comes in
pages; `pipe` and `inFile` are what the kernel and `QFile` hold of the input, `main`
and `cancelThread` where the two threads are, `notifier` and `slot` what the main
loop listens to. The daemon is reduced to what it may write and when (`phase`). In
`Env`: `torn` (a write arrives in parts), `ahead` (`QFile` reads up to 16384 bytes),
`early` (the cancel thread reads before `m_plugin->process()` is called), `idle`, and
`destroy` (the proxy is destroyed).

## 4. Runs

| run | instance | checks | states |
|---|---|---|---|
| `session_cancel` | 3 requests, 2 sessions, 2 cancels, no faults, three UI policies | the queue never stalls; dialogs, results and stored credentials belong to the active request; no failed assertion; refinement of `RequestQueue` | 950,433 |
| `session_live` | 2 requests, 2 sessions, 1 cancel; crash, restart, torn, idle; fair | types; one reply to each request not canceled; every request is answered, none leaves the queue unanswered | 307,740 |
| `session_unanswered` | 2 requests, 1 cancel; crash, late, unasked; fair | **violation**: a request that was never started is dropped without a reply | |
| `storage_keys` | 4 keys, 3 slots, the default authorizer; disable, remove, restart, store; no faults | a valid key always finds the storage open, a revoked key never opens it, the container is not formatted while a key that opens it is there | 127,912 |
| `storage_lock` | 2 keys, 2 slots, 2 key managers, both authorizers; everything but removals; failing set-ups, openings, metadata and copies | the storage is closed when the last authorized key goes; authorized keys have a slot; secrets lie on the volume; no core that waits is forgotten; the metadata survive every restore | 70,918 |
| `storage_lost` | the same | **violation**: a backup that reports success has no copy of the container | |
| `credentials_stored` | 2 identities, 2 passwords, 1 method; late requests, metadata failures, restarts | what is stored is the last password and data given, nobody reads older ones, no secrets without an identity that asks for them, nothing waits in the cache while the secrets are open | 474,878 |
| `metadata_tables` | 2 identities, 2 applications, one of everything else; files of all versions; kills | refinement of `IdentityMap`; no row outlives what it names | 23,364 |
| `registry_identities` | 2 places for identities, 1 id, 1 core, 1 session, 2 peers, 2 dialogs; unknown | the tables name live objects, clients share one, its cache is current, no dialog is lost, the daemon ends unused | 167,259 |
| `registry_sessions` | 2 cores, 3 sessions, 1 peer; busy; fair | no waiting request is disposed of with its core; once clients stop everything is disposed of | 36,691 |
| `client_calls` | each kind of owner, 2 calls, 1 event of any kind; fair | calls queued again are executed once, those withdrawn not at all, each ends, and is told once | 70,058 |
| `plugin_threads` | 3 operations of 1 to 3 pages, 2 dialogs; torn, ahead, early, destroy; fair | the threads never take each other's input; every request ends | 46,343 |

*Bounds.* In a core every interaction is between the active request, the next
one and at most one more, so three requests, two of one session, show each of
them; two cancelations allow the same request to be canceled twice and two
requests to be canceled one after the other. One store or dialog a request is
enough for a dialog to be open or answered at each point. Two keys are enough for
storage, one in use and one that takes its place; `storage_keys` has four, one more
than slots, so that the container is full and one of them is unknown. Two
identities show that one's removal leaves the other alone and that a late request
makes a new one; two passwords tell an old one from a new one. In `MetaDataDB` one
identity may be what another's triggers spare, and two applications what an access
list may name and lose. In `Registry` two objects for one stored identity are
what its tables must exclude, and two dialogs of an object what hurries one; three
sessions of two cores show a core shared and one left. Two calls of a client let
one be queued behind the other, and one event each of the ways a call is lost;
three calls with one event and two calls with two events were checked once as
well (1,820,000 and 962,000 states). Three operations let one be misread by what
the one before has left, and be cleaned up by the next. The properties of
`CredentialsDB`, `MetaDataDB` and others are proved for any number of all these:
section 5.

Deadlock is checked where the system never rests (`SecureStorage`, `MetaDataDB`);
elsewhere it may: when every request is answered and clients make no more, the
bounds are used up or the daemon has ended.

*What the runs leave out.* They exclude by `Env`, `Events` and `Faults` what the
code does not survive. TLC refutes the property named with the exclusion lifted;
each is a hazard in `PROJECT.json`:

| module | excluded | what happens with it |
|---|---|---|
| CredentialsDB | `overlap` | a request writes back the password it had read over a newer one (`LatestIsStored`) |
| CredentialsDB | `erase` | a password erased while the secrets are closed comes back (`LatestIsStored`) |
| CredentialsDB | `flags` | the stored password of an identity that stops storing it stays (`SecretsOnlyIfAsked`), and one that starts to store it is not given the cached one (`LatestIsStored`) |
| CredentialsDB | `write` | a failed write is reported as done, and empties the cache (`LatestIsStored`, `LatestDataIsStored`) |
| CredentialsDB | `signout` | session data survive a sign-out that could not remove them (`LatestDataIsStored`) |
| CredentialsDB | `BigData` | the cache takes blobs that the database refuses, and loses them |
| MetaDataDB | `statement` | the errors of the statements for access lists and owners are ignored: an identity is stored with part of its lists (`StoresIdentities`) |
| SecureStorage | the fault `slot`, the release of a key slot | reported as released: a revoked key still opens the container (`RevokedCannotOpen`, `OpenOnlyWithKey`) |
| SecureStorage | the faults `mount`, `open`, `umount` | secrets are stored in the bare directory (`SecretsOnVolume`), keys are authorized that have no slot (`AuthorizedCanOpen`) |
| SecureStorage | the faults `loop`, `mkdir` | a key is not recognized, and the storage is opened with another (`OpenOnlyWithKey`) |
| SecureStorage | backups, in `storage_keys` | the storage is mounted with a key removed meanwhile (`KeyOpensStorage`) |
| SecureStorage | more keys than slots, in `storage_lock` | a new key that finds no slot mounts the storage with an authorized key that need not be inserted, is refused, and leaves the storage open: `OpenOnlyWithKey` exempts it |
| SecureStorage | removals, in `storage_lock` | the last key's revocation empties the container (`AuthorizedCanOpen`) |
| SecureStorage | the authorizer `extension`, in `storage_keys` | an answer to an old question formats the container in use (`ContentsSurvive`), section 6 |
| Registry | `fail` | information that could not be stored is served from the cache (`CachedInfoIsCurrent`) |
| Registry | `again` | the object gets a new id and stays in the table under the old one (`TablesNameLiveObjects`) |
| Registry | `rekey` | so does the core (`signonsessioncore.cpp:322`; `TablesNameLiveObjects`) |
| Client | `early` | an identity queried before it is registered registers twice, against an assertion (`NoSecondPath`, checked by no run) |
| PluginProcess | `idle` | a second answer; after three requests the cancel thread reads the opcode of an operation (`NothingMisread`) |

*Exemptions.* Some properties name situations in which the code does not keep
them, so that they say that there are no others: `cancelForgotten` in
`SessionCore`; `writtenLate` in `CredentialsDB`; the empty key, the full header and
backups in `OpenOnlyWithKey`; `lostTrack` in `RevokedCannotOpen`; `hurried` and
`misjudged` in `NoDialogLost`; `Bereft` in `EveryCallSettled`; `Abandoned` in
`EveryOperationAnswered`. Each is explained at its definition.

*Fairness* (`FairSpec`). *Session core*: the main loop delivers posted calls, reads the
process' output and polls; the plugin reads its input and ends its work; a dialog
ends, by the user or by the time-out of the D-Bus call; the key managers report
(`KeyHandler::initialize` calls every one of them). *Registry*: the main loop
deletes what is condemned, its timer fires, plugins answer and so does signon-ui.
*Client*: its event loop runs; `signond`, while it is up, executes what it is sent
and completes it; a signond that the bus was asked for is activated, unless the
activation fails. *Plugin process*: the daemon's loop flushes and reads, both
threads run, the plugin ends its work. Weak fairness of each is what running loops
and threads, and a plugin that keeps its contract, give. Clients, users and faults
are never required to act.

## 5. Proofs

Every theorem is for all values of the constants, and so for any number of
requests, keys, identities or objects; where it needs the environment to leave
something undone, that is an assumption of the theorem, and one that TLC shows to
be needed (section 4). Deadlock freedom is not claimed anywhere. `PROJECT.json`
lists the theorems; the lemmas under them are one for each handler, and where
handlers share code, one for each operator of it.

**`SessionCoreProofs`**: every policy and every environment, faults included.

* `TypeCorrect` (`TypeOK`) is inductive as it stands.
* `OneReply` (`OnlyCanceledRepliedAgain`) is not: a second reply is excluded only
  because the request answered has left the queue and was in it once. `AnswersInv`
  adds that the queue has no request twice, that requests in it were submitted and
  are unanswered or canceled, and that requests not submitted have no answer. Each
  handler is one of three kinds of step (`KeepAnswers`, `ReplyAnswers`,
  `ProcessRequestAnswers`).

**`SessionCoreServing`**, first part: that the queue is served.

| theorem | property | assumes of `Env` |
|---|---|---|
| `CoreServesTheQueue` | `ServesTheQueue`, the refinement | no `late` |
| `NothingDroppedUnanswered` | `NoSilentDrop` | no `late` |
| `QueueNeverStalls` | `NoStalledQueue` | no `torn`, `idle` |
| `DialogIsActive` | `DialogBelongsToActive` | no `torn`, `idle` |

The refinement needs three facts next to the types (`OverInv`): the active request is
the first (`ActiveIsFirst`), a canceled one has its reply (`CanceledIsAnswered`), and
once it is over nothing more is read as an answer before `startNewRequest()` clears
`m_canceled`, the answer having been read or the process having gone
(`CanceledIsOver`; with `EndIsLast`, that the news of a process' end is the last thing
it sends). They hold however the plugin answers: what is taken for the wrong request
still ends the one that is first, with a reply. `NoSilentDrop` follows from
`RequestQueue` alone (`LeavesAnswered`). With `late`, a request is dropped without a
reply (`session_unanswered`).

For the other two, what the daemon and the process believe of each other is the
difficulty: the core's next request is started by the answer to the one before, so
that an answer too many, or too few, breaks the service. `ProcInv` adds to `EndIsLast`
that the process works only while the proxy waits for it (`BusyServes`). With it
`TurnInv` is inductive: a canceled request has no dialog (`CanceledIsClosed`), the
dialog is the active request's, and a queue that is not empty has a request that is
active or a call posted that will start one. A torn blob ends a request while its
plugin goes on, and a plugin that answers when it has no work answers the next one:
both break `BusyServes`.

**`SessionCoreServing`**, second part: that what comes is for the request it is taken
for. All three assume `Steady`: no `crash`, `torn`, `unasked` or `idle` in `Env`.

| theorem | property |
|---|---|
| `AnswersReachTheirRequest` | `ResultsReachTheirRequest` |
| `OwnCredentialsStored` | `WritesBelongToTheirRequest` |
| `DialogAnswerFindsRequest` | `NoAbortUnlessForgotten` |

Nothing that passes between the daemon and the process names its request, so the
invariant relates the contents of both pipes to the queue. Of the active request one
of three things holds (`StageInv`): the plugin has yet to read it (`Waits`), works on
it (`Works`), or its answer is on the way (`Answered`); and each says what else may
be in either pipe, and in which stage its dialog is open. `RunningInv` adds that the
process neither ends nor is told to; `CredsInv`, whose credentials the core holds and
what was written and told. A process that crashes, a torn blob, a plugin that ends a
request while its dialog is open and one that answers when it has no work each leave
behind what the next request would meet. All this is `Clean`, and holds unless a
cancelation was forgotten (`cancelForgotten`): the plugin then goes on with a request
that has left the queue, and the properties except that case.

**`SecureStorageProofs`**.

| theorem | property | assumes |
|---|---|---|
| `SecretsStayOnVolume` | `SecretsOnVolume` | `ReliableMounts`: no fault `open`, `mount`, `umount` |
| `AuthorizedKeysHaveSlots` | `AuthorizedCanOpen` | `NoRemovals`: that, and no key is removed |
| `ValidKeyOpensStorage` | `KeyOpensStorage` | `NothingFails`: no faults and no backups |
| `NotifiersAreAnswered` | `NoForgottenNotifier` | nothing |
| `DatabaseSurvives` | `DatabaseNotLost` | nothing |
| `SecretsNeedKey` | `OpenOnlyWithKey` | `Guarded`: `NoRemovals`, and no fault `device`, `loop`, `mkdir`, `slot` |
| `RevokedKeysAreGone` | `RevokedCannotOpen` | `TrueReports`: no fault `open`, `mkdir`, `mount`, `umount`, `slot` |
| `OpenedContentsSurvive` | `ContentsSurvive` | `Contained`: `NothingFails`, and the default authorizer |

`Safe` is one invariant with its assumptions inside: `StorageInv` (`Shape` and, each
under its assumption, `MountInv`, `RingInv`, `OpenInv`), `Answered`, `FilesKept`.
`MountInv`: secrets are open only while the file system is mounted, that only while
the container is attached, and a slot is only ever filled on a volume that is
formatted. `RingInv`: neither list of keys, in memory and in the keychain, is ahead
of the slots. `OpenInv`: an authorized key that is inserted keeps the file system
mounted, and what is mounted is open. `FilesKept`: what was stored is in the `.bak`
file, or in place and in every backup. The operators of `CryptoManager`
have a lemma each, the slots of the key handler and the access manager follow. The
loops of `BackupFiles` run over two names and are unfolded.

The last three theorems are about keys, and rest on what a slot does to them:
an authorization leaves the keyring as it was (`Stays`), adds the key and perhaps a
slot (`Gains`), or formats the container for it, as far as that went (`Formats`).

* `RevokedKeysAreGone`: `Gone` is inductive beside `Safe`. Every step but the removal
  of a key takes from the slots or gives one to a key that is authorized by the same
  step, and the removal frees the slot or shows that the keychain lost track. Where a
  fault is excluded the property fails: a slot that is not freed is reported as freed;
  a container that was formatted but could not be opened or mounted has a key that
  nobody authorized; one that mount(2) did not mount has its keychain in the directory.
* `OpenedContentsSurvive`: while no key is authorized, an inserted key that opens the
  container has mounted it (`BareMounts`), and a mounted container is not formatted.
  An authorizer that answers later answers for a container that another key has come
  to open meanwhile, and a device that fails hides a valid key from `recognizeKey`.
* `SecretsNeedKey`: `GuardInv` says that before the system is opened the file system is
  mounted exactly if some inserted key is authorized, and that the key kept in the
  crypto manager does not open it otherwise (`NotYetOpened`), so that opening the
  system lets nobody in. With a failing device that key may be one that opens it, and
  TLC finds the secrets open without it; a key that is removed is revoked by mounting
  the file system again with another.

**`CredentialsDBProofs`**.

| theorem | property | assumes of `Env` |
|---|---|---|
| `TypeCorrect` | `TypeOK` | nothing |
| `NothingWaits` | `CacheFlushed` | nothing |
| `DataHaveAnOwner` | `NoOrphanData` | nothing |
| `OnlyIfAsked` | `SecretsOnlyIfAsked` | no `flags` |
| `LastDataWin` | `LatestDataIsStored` | no `write`, `signout` |
| `LastPasswordWins` | `LatestIsStored` | no `overlap`, `erase`, `flags`, `write` |
| `NoOldPasswordRead` | `NoStalePassword` | the same |

None of the properties is inductive, because each speaks of one of the three
copies and a step moves a password between them. `CredInv` says what each holds:

* `KnownIds`, `LateAreGone`: nothing is known of an identity that the counter has
  not given out, and a removed one never comes back;
* `NothingToFlush`: the cache of an open database has nothing to be stored;
* `KeptOnlyIfAsked`: neither the database nor a cache entry marked to be stored
  has a password that may not be there;
* `LatestIsKept`: the last password is in the cache or, if that has none, in the
  database; so closing, opening and reading all preserve it;
* `RequestsHoldLatest`: a running request that was given no password holds the
  last one or none; so what it writes back at its end changes nothing.

`UpdateStep` is the heart of it: one lemma about `updateCredentials` for new and
known identities, used by the three handlers that call it. `DataInv` is the same
for blobs (`NoDataOfOthers`, `LatestDataIsKept`) and rests on `CredInv`.

**`MetaDataDBProofs`**. `NoDanglingRowsAlways`
(`NoDanglingRows`, no assumption) holds although transactions are rolled back under
the statements that follow: each statement, with its triggers, keeps the tables
sound by itself (`Sound`), the copies that a transaction would restore too.
`TablesStoreIdentities` (`StoresIdentities`, no `statement` in `Env`) is the
refinement of `IdentityMap`: each call of the nine tables is one step of the map or
none. `RefInv` adds to `Sound` that no id in use is ahead of the sequence (`RowsInv`), and
what a file whose creation or upgrade was killed may hold (`FileInv`).

**`RegistryProofs`**.

| theorem | property | assumes of `Env` |
|---|---|---|
| `TablesNameLive` | `TablesNameLiveObjects` | no `again`, `rekey` |
| `OneObject` | `OneObjectPerIdentity` | no `again`, `rekey` |
| `CachedIsCurrent` | `CachedInfoIsCurrent` | no `again`, `fail` |
| `DialogsAreKept` | `NoDialogLost` | nothing |
| `EndsWithNothing` | `EndsUnused` | nothing |
| `RequestsAreKept` | `NoRequestLost` | no `rekey` |

The tables are changed in one place and the objects in another, and a call like
`getIdentity()` takes an object from a table, destroys others on the way and only
then decides whether it keeps it. So the invariant `Inv(d, World)` is about both
ends: the table of identities is the inverse of the ids of the objects the daemon
watches (`TableInv`), that of cores of the names under which they are registered
(`CoreTableInv`), every live session's core is alive and no core is disposed of
twice (`CoresInv`), no live object is missing from the disposal list and the daemon's
own timer runs only when that is empty (`DisposalInv`), a core with an active request
is protected and has that request in its queue. `Differ` says which parts an operator
leaves alone, so that its lemma proves only the rest; `LifeStep` is the life of the
objects across a call, from which the two action properties follow.

**`PluginProcessProofs`**. `NeverMisread` (`NothingMisread`) assumes no `idle` in `Env`:
a plugin does not answer when it has no work. The main thread and the one that waits
for a cancel read the same input, and which of them reads is decided by a notifier
that one switches off for the other. `ReadInv` says who may read (`ThreadsInv`), what
is still to be read, in the pipe and in the daemon's buffer (`InputInv`: the pages of
a blob follow it, one operation at most, no cancel ahead of a continued dialog), and
when the daemon writes an operation (`AnswersInv`). After a blob has failed the
process reads nothing any more (`Deaf`).

**`ClientProofs`**: no assumption on `Env`, `early` included.

| theorem | property |
|---|---|
| `CallsHaveTheirPlace` | `ClientInv`, the invariant |
| `CallsExecutedOnce` | `ExecutedOnce` |
| `WithdrawnNeverExecuted` | `CanceledNeverExecuted` |
| `EndsToldOnce` | `ToldOnce` |
| `MechanismsNamed` | `MechanismsMatch` |

`ClientInv` says where a call is: in the queue of the proxy it was made on
(`Queues`), on its way to `signond` (`Outgoing`), worked on (`Working`), or answered
(`Incoming`), in one of these at a time; a call that is queued, on its way or
answered with an error after which it is tried again has not been executed by this
`signond`; one that is withdrawn has not been executed and will not be sent
(`Withdrawn`). A signal runs the slots of every proxy inside the function that emits
it, so nearly all of the proof is about operators and not actions: `Placed(s, x, W,
C)` is the invariant of a record `s` in the middle of such a call, where `x` is the
proxy whose queue is being gone through and `W` the calls in other hands, and there
is a lemma for every operator of `ClientProxy` that takes it from one record to the
next. The loops over a queue and over the proxies are recursive functions over an
interval, whose steps the lemmas `DoCallsLoop` to `DisconnectedLoop` give and which
are followed by induction over the interval (`Upward`).

*Only model-checked.* Liveness and what needs ENABLED are out of the prover's
reach: all answers, calls and operations that must come, `NothingKept`, and the
fairness under which they do. So is induction over data; the folds and recursive
functions (a loop over queued calls or files) are proved about only where they are
over two names, where an invariant of their single step suffices, or, over an
interval, with a well-founded order in place of induction. Every safety property of
a passing run is proved. `BackupComplete` and `EveryRequestAnswered` are violated,
and stay with their runs. The `TypeOK` of the modules without a theorem about it
documents the state and is checked by no run.

## 6. What the runs met

Behaviours of the code that a model brought up and that are no violation of a
passing run, besides the table of section 4. Two are findings (the violation
runs): a waiting request is dropped without a reply when the process dies between
a cancelation's end and the posted `startNewRequest()`; a backup that succeeds
has no container in it.

*Session core.* The flag that a dialog was displayed outlives a request that ends
with an error, so that the next one posts the storage event without a dialog of
its own: `AlertsFollowDialog` states the opposite, is checked by no run, and TLC
refutes it in any instance with a stored identity and closed secrets.

*Keys.*
* The revocation of the only authorized key releases the last slot of the
  container, which no key opens any more (`key-handler.cpp:175`).
* A key that is known opens the storage without the cores that wait for it being
  told; they learn of it with the next answer of the authorizer.
* The numbers of keychain entries repeat after a removal (`crypto-manager.cpp:56`),
  and the entry replaced is of a key that keeps its slot. It is then not
  recognized while the file system is mounted with another key, and its user is
  asked again; `RevokedCannotOpen` exempts behaviours in which this has happened
  (`lostTrack`).
* With an authorizer that answers later (`extension`), an answer "Exclusive" to a
  question about a key that was answered otherwise since is applied to what is
  there by then: while the storage is mounted it empties the keyring; a second one,
  after the storage was closed by a disabled key, formats the container while
  another key that opens it is inserted (`credentialsaccessmanager.cpp:564`).

*Backups.*
* The crypto manager names its container by an absolute path, of which `QDir`
  makes the container in use: `copyToBackupDir()` removes it, and a restore
  renames and then removes it. `createStorageFileTree()` fails when there is no
  container, so a backup before there is one, or a second one, leaves the system
  closed and without a database, and the next last key to be disabled
  dereferences a null pointer (`phase = "stopped"`).
* A restore that was killed leaves a `.bak` file over which later ones cannot move
  theirs; that is what keeps the metadata (`DatabaseNotLost`).
* `signond -backup` never initialises the access manager, and dereferences its
  crypto manager at the first request.

*Databases.*
* `store` of a known identity that fails returns its id as if it had been stored
  (`signonidentity.cpp:505`).
* `clear()` renumbers the methods (`credentialsdb.cpp:1006`); only because the
  cache is then empty, `CacheFlushed`, no blob changes its method.
* A file whose `user_version` is 0, because its creation was killed or because it
  is of an old version, is removed and created again at *every* start:
  `updateDB()` returns false for it without setting the version, and `init()` does
  not look (`credentialsdb.cpp:632`). Ids are then given again. An upgrade to
  version 2 killed after its `CREATE TABLE OWNER` never ends, and what it had not
  copied is lost. `IdentityMap` concedes both to such files, and to no other.
* After a `RAISE(ROLLBACK)` the rest of `updateIdentity()` commits by itself:
  owners of an identity that is gone may stay. An update of an identity that is
  gone, with no realm and no access list, is reported as a success.

*Registry.*
* Until a first object has been made, or after a look-up that made and destroyed
  one at once was the last call, `disposeTimer` is connected to nothing and the
  daemon never ends for lack of use (`signondisposable.h:46`).
* `getIdentity()` of an identity without a row destroys the object it found, also
  one with an open dialog, and one that is condemned already may be handed out
  (`misjudged`).

*Client library.* Calls are left in a queue for ever in the situations that
`Bereft` lists. A session's error slot serves its registration and its calls, so
that one error may be told as another's. `m_processCall` is cleared by any error,
and a withdrawn registration's call may be stuck in a proxy that is ready.
`m_signOutRequestedByThisIdentity` is never reset.

*Plugin process.* A page that is late (standard input is non-blocking) fails the
blob, and the process listens no more. What `QFile` has read ahead neither the
notifier nor the cancel thread sees. A cancel read before the plugin is called is
lost; if the plugin then asks for a dialog, the core ignores it and the request
never ends, against the comment at `signonsessioncore.cpp:283`. The pages of a
response after the first are read only when the daemon's own standard input is
readable (`pluginproxy.cpp:538`). `Abandoned` names these four.

## 7. Not modelled

* *Pure functions of the session core*: the merging of session data with stored
  and dialog parameters, and the choice of a mechanism: data that no property
  tells apart.
* *Creation of a plugin*: `createNewPluginProxy()` and the queries for type and
  mechanisms run before a core exists; `setupProxySettings()` before any operation.
* *Daemon*: configuration, D-Bus connections, signals to the process, and the
  queries for methods and identities, which change no state. Which peer is the
  keychain widget, or belongs to a group, is up to an extension.
* *Metadata*: user names, flags and types stand with the caption; a statement that
  fails (rather than `signond` being killed) while the file is created.
* *Access manager*: loading of extensions; without encryption there is no key
  handler. `deleteFileSystem()` is neither implemented nor called.
* *Client library*: the fallback to the session bus; the flags by which an identity
  limits its queries and its own sign-outs; the list of an identity's sessions.
* *Blob I/O*: pages that hold what `QDataStream` cannot read are taken as torn.
* *Extensions, test and example plugins, the interfaces' headers, the adaptors'
  marshalling, build and tests*: no state of their own, or code that only shows
  and tests the rest.
