--------------------------- MODULE SecureStorage ---------------------------
(***************************************************************************)
(* Who opens and closes the secrets database: KeyHandler                   *)
(* (lib/signond/SignOn/key-handler.cpp), CredentialsAccessManager          *)
(* (src/signond/credentialsaccessmanager.cpp), the key authorizer, and the *)
(* crypto manager they share.  Key managers report keys; a key is          *)
(* authorized when it opens the encrypted file system, or when the         *)
(* authorizer accepts it, and then it is given a key slot.                 *)
(*                                                                         *)
(* All signals between these objects are direct, so one report of a key    *)
(* manager runs a chain of slots to its end before anything else happens.  *)
(* The state is therefore one record and each slot an operator that maps   *)
(* it to the next; the chain is their composition, in the code's order.    *)
(* The argument e is what the handler's surroundings decide: the system    *)
(* call that fails, if any, and which key a QSet yields first.             *)
(***************************************************************************)
EXTENDS CryptoManager, BackupFiles

CONSTANTS KeyManagers, \* KeyHandlerPrivate::m_keyManagers
          Senders,     \* the session cores that ask for the secure storage
          Authorizers, \* "default": DefaultKeyAuthorizer, answers at once;
                       \* "extension": answers later, and as it likes
          Events,      \* what else may happen, see Next
          Faults,      \* the system calls that may fail
          FileFaults   \* what may go wrong with the files, see BackupFiles

ASSUME StorageAssumption ==
    /\ Authorizers \subseteq {"default", "extension"}
    /\ Events \subseteq {"disable", "remove", "storage", "restart", "backup",
                         "restore", "backupMode", "store"}
    /\ Faults \subseteq AllFaults
    /\ FileFaults \subseteq FileFaultKinds

VARIABLES storage,   \* the state of signond, and the files
          backup,    \* the files in the last backup
          lostTrack  \* history: the keychain once missed a key of the header

vars == <<storage, backup, lostTrack>>

FileEvents ==
    {f \in {NoFault} \cup [kind : FileFaults, name : Names] :
        f.kind # "kill" => f.name = Metadata}

\* A handler picks at most one key, and no key is added to the keyring before.
Surroundings ==
    [fault : Faults \cup {"none"},
     pick  : IF storage.authorized = {} THEN {NoKey} ELSE storage.authorized]

States ==
    [phase         : {"starting", "running", "backupMode", "stopped"},
     authorizer    : Authorizers,        \* m_keyAuthorizer
     metadata      : Contents,           \* the metadata database's file
     bak           : [Names -> Contents], \* the ".bak" files
     crypto        : CryptoStates,       \* m_cryptoManager
     readyManagers : SUBSET KeyManagers, \* KeyHandlerPrivate::m_readyKeyManagers
     inserted      : SUBSET Keys,        \* m_insertedKeys
     authorized    : SUBSET AnyKey,      \* m_authorizedKeys
     queries       : SUBSET AnyKey,      \* keys the authorizer was asked about
     dbExists      : BOOLEAN,            \* m_pCredentialsDB # NULL
     opened        : BOOLEAN,            \* m_systemOpened
     secretsOpen   : BOOLEAN,            \* isSecretsDBOpen()
     notifiers     : SUBSET Senders,     \* m_secureStorageEventNotifiers
     revoked       : SUBSET AnyKey]      \* history: keyAuthorizationRevoked was
                                         \* the last thing said about the key

TypeOK ==
    /\ storage \in States
    /\ backup \in [Names -> Contents]
    /\ lostTrack \in BOOLEAN
-----------------------------------------------------------------------------
(* CredentialsAccessManager: the databases and the file system. *)

openSecretsDB(s, e) ==
    IF s.crypto.mounted /\ e.fault # "database" THEN [s EXCEPT !.secretsOpen = TRUE] ELSE s

onEncryptedFSMounted(s, e) ==
    IF s.opened /\ ~s.secretsOpen THEN openSecretsDB(s, e) ELSE s

SetCryptoSilent(s, c, e) == [s EXCEPT !.crypto = c] \* mutant: emits no signal

\* The crypto manager went from s.crypto to c, and emits fileSystemMounted()
\* if that mounted the file system.
SetCrypto(s, c, e) ==
    LET t == [s EXCEPT !.crypto = c]
    IN  IF c.mounted /\ ~s.crypto.mounted THEN onEncryptedFSMounted(t, e) ELSE t

closeSecretsDBLater(s, e) == \* mutant: forgets the database
    [s EXCEPT !.crypto = unmountFileSystem(@, e.fault)]

\* The database is closed first; fileSystemUnmounting() then finds it closed.
closeSecretsDB(s, e) ==
    [s EXCEPT !.secretsOpen = FALSE, !.crypto = unmountFileSystem(@, e.fault)]

\* With no CredentialsDB, isSecretsDBOpen() is called on a null pointer.
onLastAuthorizedKeyRemoved(s, e) ==
    IF ~s.dbExists THEN [s EXCEPT !.phase = "stopped"]
    ELSE IF s.secretsOpen \/ s.crypto.mounted THEN closeSecretsDB(s, e) ELSE s

openCredentialsSystem(s, e) ==
    IF e.fault = "metadata" THEN [s EXCEPT !.dbExists = TRUE]
    ELSE LET t == [s EXCEPT !.dbExists = TRUE, !.opened = TRUE,
                            !.metadata = IF @ = Absent THEN New ELSE @]
         IN  IF t.crypto.mounted THEN openSecretsDB(t, e)
             ELSE SetCrypto(t, mountFileSystem(t.crypto, e.fault), e)

closeCredentialsSystem(s, e) ==
    IF ~s.opened THEN s
    ELSE LET t == IF s.secretsOpen THEN closeSecretsDB(s, e) ELSE s
         IN  [t EXCEPT !.dbExists = FALSE, !.opened = FALSE]

closeSucceeds(s, e) ==
    s.opened /\ s.secretsOpen => unmountSucceeds(s.crypto, e.fault)

replyToSecureStorageEventNotifiers(s) == [s EXCEPT !.notifiers = {}]
-----------------------------------------------------------------------------
(* KeyHandler: the keyring. *)

isReady(s) == s.readyManagers = KeyManagers

anyAuthorizedKey(s, e) ==
    IF e.pick \in s.authorized THEN e.pick ELSE CHOOSE k \in s.authorized : TRUE

Authorize(s, key) ==
    [s EXCEPT !.authorized = @ \cup {key}, !.revoked = @ \ {key}]

formatStorageUnchecked(s, key, e) == \* mutant: does not look at the result
    Authorize(SetCrypto([s EXCEPT !.authorized = {}],
                        setupFileSystem(setEncryptionKey(s.crypto, key), e.fault), e),
              key)

\* The storage is (re)created with the key as its only one.  If it is mounted
\* it cannot be; the keyring has been cleared by then.
formatStorage(s, key, e) ==
    LET c == setEncryptionKey(s.crypto, key)
        t == SetCrypto([s EXCEPT !.authorized = {}], setupFileSystem(c, e.fault), e)
    IN  IF ~s.crypto.mounted /\ t.crypto.mounted THEN Authorize(t, key) ELSE t

\* The file system is mounted with an authorized key, inserted or not.
mountWithAuthorizedKey(s, e) ==
    IF s.crypto.mounted THEN s
    ELSE SetCrypto(s, mountFileSystem(setEncryptionKey(s.crypto, anyAuthorizedKey(s, e)),
                                      e.fault), e)

addKey(s, key, e) ==
    LET t == mountWithAuthorizedKey(s, e)
        existingKey == anyAuthorizedKey(s, e)
    IN  IF addEncryptionKeySucceeds(t.crypto, key, existingKey, e.fault)
        THEN Authorize([t EXCEPT !.crypto = addEncryptionKey(@, key, existingKey, e.fault)],
                       key)
        ELSE t

authorizeKey(s, key, format, e) ==
    IF key \in s.authorized THEN s
    ELSE IF format \/ ~s.crypto.isSetup THEN formatStorage(s, key, e)
    ELSE IF s.authorized = {} THEN s
    ELSE addKey(s, key, e)

revokeInMemory(s, key, e) == \* mutant: forgets the key slot
    [s EXCEPT !.authorized = @ \ {key}, !.revoked = @ \cup {key}]

revokeKeyAuthorization(s, key, e) ==
    IF ~s.crypto.isSetup \/ s.authorized = {} THEN s
    ELSE LET t == mountWithAuthorizedKey(s, e)
         IN  IF removeEncryptionKeySucceeds(t.crypto)
             THEN [t EXCEPT !.crypto = removeEncryptionKey(@, key, e.fault),
                            !.authorized = @ \ {key}, !.revoked = @ \cup {key}]
             ELSE t
-----------------------------------------------------------------------------
(* The authorizer, and CredentialsAccessManager::onKeyAuthorizationQueried. *)

Results == {"Denied", "Approved", "Exclusive"}

onKeyAuthorizationDeniedSilently(s, key, result, e) == \* mutant: Denied returns early
    IF result = "Denied" THEN s
    ELSE replyToSecureStorageEventNotifiers(authorizeKey(s, key, result = "Exclusive", e))

onKeyAuthorizationQueried(s, key, result, e) ==
    replyToSecureStorageEventNotifiers(
        IF result = "Denied" THEN s
        ELSE authorizeKey(s, key, result = "Exclusive", e))

queryKeyAuthorization(s, key, e) ==
    IF s.authorizer = "default"
    THEN onKeyAuthorizationQueried(
             s, key, IF s.authorized # {} THEN "Approved" ELSE "Exclusive", e)
    ELSE [s EXCEPT !.queries = @ \cup {key}]

\* CredentialsAccessManager::onKeyInserted
AskUnlessAuthorized(s, key, e) ==
    IF key \in s.authorized THEN s ELSE queryKeyAuthorization(s, key, e)
-----------------------------------------------------------------------------
(* The slots of KeyHandler, with those of CredentialsAccessManager they run. *)

recognizeNoKey(s, key, e) == s \* mutant: every key is new

\* encryptionKeyInUse() mounts the file system if the key opens it.
recognizeKey(s, key, e) ==
    IF ~s.crypto.isSetup THEN s
    ELSE LET t == SetCrypto(s, tryEncryptionKey(s.crypto, key, e.fault), e)
         IN  IF encryptionKeyInUse(s.crypto, key, e.fault) THEN Authorize(t, key) ELSE t

onEmptyKeyInserted(s, manager, key, e) == \* mutant: an empty key is a key
    LET t == IF isReady(s) THEN s ELSE [s EXCEPT !.readyManagers = @ \cup {manager}]
    IN  AskUnlessAuthorized(
            recognizeKey([t EXCEPT !.inserted = @ \cup {key}], key, e), key, e)

onKeyInserted(s, manager, key, e) ==
    LET t == IF isReady(s) THEN s ELSE [s EXCEPT !.readyManagers = @ \cup {manager}]
    IN  IF key = NoKey THEN t
        ELSE AskUnlessAuthorized(
                 recognizeKey([t EXCEPT !.inserted = @ \cup {key}], key, e), key, e)

onKeyDisabledAfter(s, key, e) == \* mutant: looks at the keys before the removal
    LET t == [s EXCEPT !.inserted = @ \ {key}]
    IN  IF s.inserted \cap s.authorized = {} /\ key \in t.authorized
        THEN onLastAuthorizedKeyRemoved(t, e)
        ELSE t

onKeyDisabled(s, key, e) ==
    LET t == [s EXCEPT !.inserted = @ \ {key}]
    IN  IF t.inserted \cap t.authorized = {} /\ key \in t.authorized
        THEN onLastAuthorizedKeyRemoved(t, e)
        ELSE t

onKeyRemoved(s, key, e) ==
    LET t == onKeyDisabled(s, key, e)
    IN  IF t.phase # "stopped" /\ key \in t.authorized
        THEN revokeKeyAuthorization(t, key, e)
        ELSE t

\* A session core has stored secrets in the cache and asks for the storage.
secureStorageNotAvailable(s, sender, e) ==
    LET t == [s EXCEPT !.notifiers = @ \cup {sender}]
    IN  IF ~t.dbExists \/ t.secretsOpen
        THEN replyToSecureStorageEventNotifiers(t)
        ELSE queryKeyAuthorization(t, NoKey, e)
-----------------------------------------------------------------------------
(* SignonDaemon, as far as it opens and closes the system. *)

\* signond ends, crashing or not, and is started again by the next call.
restarted(s) ==
    [s EXCEPT !.phase = "starting", !.crypto = CryptoRestart(@),
              !.readyManagers = {}, !.inserted = {}, !.authorized = {},
              !.queries = {}, !.dbExists = FALSE, !.opened = FALSE,
              !.secretsOpen = FALSE, !.notifiers = {}]

Files(s) ==
    [live |-> [name \in Names |->
                 CASE name = Metadata  -> s.metadata
                   [] name = Container -> IF s.crypto.fileExists THEN Stored ELSE Absent],
     bak  |-> s.bak,
     copy |-> backup]

WithFiles(s, d) ==
    [s EXCEPT !.metadata = d.live[Metadata],
              !.bak = d.bak,
              !.crypto.fileExists = d.live[Container] # Absent,
              !.crypto.volume = IF d.live[Container] # Absent THEN @ ELSE EmptyVolume]

\* When the files cannot be created the system is left closed.  The archiver
\* takes the copies of a backup that has not failed.
backupStarts(s, e, f) ==
    LET closed  == closeCredentialsSystem(s, e)
        created == createStorageFileTree(Files(closed), f)
    IN  IF ~treeSucceeds(Files(closed), f) THEN WithFiles(closed, created)
        ELSE openCredentialsSystem(WithFiles(closed, copyToBackupDir(created, f).files), e)

BackedUp(s, e, f) ==
    LET closed == closeCredentialsSystem(s, e)
        copied == copyToBackupDir(createStorageFileTree(Files(closed), f), f)
    IN  IF treeSucceeds(Files(closed), f) /\ copied.ok THEN copied.files.copy ELSE backup

\* When the system cannot be closed cleanly it is closed, and stays so.
\* signond may be killed while it copies.
restoreFinished(s, e, f) ==
    LET closed   == closeCredentialsSystem(s, e)
        restored == WithFiles(closed, copyFromBackupDir(Files(closed), f))
    IN  IF ~closeSucceeds(s, e) THEN closed
        ELSE IF f.kind \in {"kill", "killAfter"} THEN restarted(restored)
        ELSE openCredentialsSystem(restored, e)
-----------------------------------------------------------------------------
Init ==
    /\ \E authorizer \in Authorizers :
       storage = [phase |-> "starting", crypto |-> CryptoInit,
                  authorizer |-> authorizer, metadata |-> Stored, bak |-> NoFiles,
                  readyManagers |-> {}, inserted |-> {}, authorized |-> {},
                  queries |-> {}, dbExists |-> FALSE, opened |-> FALSE,
                  secretsOpen |-> FALSE, notifiers |-> {}, revoked |-> {}]
    /\ backup = NoFiles
    /\ lostTrack = FALSE

\* While the file system is mounted, its keychain lists the keys of its header.
KeychainComplete ==
    storage.crypto.mounted /\ storage.crypto.attached
        => Occupying(storage.crypto.volume) = Range(storage.crypto.volume.keychain)

\* The handler runs and leaves s behind.
Becomes(s) ==
    /\ storage' = s
    /\ backup' = backup
    /\ lostTrack' = (lostTrack \/ ~KeychainComplete')

\* A key manager may report its keys as early as in its setup().
KeyInserted(manager, key, e) ==
    /\ storage.phase \in {"starting", "running"}
    /\ Becomes(onKeyInserted(storage, manager, key, e))

KeyDisabled(key, e) ==
    /\ "disable" \in Events
    /\ storage.phase = "running"
    /\ key \in storage.inserted
    /\ Becomes(onKeyDisabled(storage, key, e))

KeyRemoved(key, e) ==
    /\ "remove" \in Events
    /\ storage.phase = "running"
    /\ Becomes(onKeyRemoved(storage, key, e))

AuthorizerAnswers(key, result, e) ==
    /\ storage.phase \in {"starting", "running"}
    /\ key \in storage.queries
    /\ Becomes(onKeyAuthorizationQueried(
                  [storage EXCEPT !.queries = @ \ {key}], key, result, e))

StorageNotAvailable(sender, e) ==
    /\ "storage" \in Events
    /\ storage.phase = "running"
    /\ Becomes(secureStorageNotAvailable(storage, sender, e))

\* A session stores secrets, on the volume if that is what is mounted.
SecretsStored ==
    /\ "store" \in Events
    /\ storage.phase = "running"
    /\ storage.secretsOpen
    /\ storage.crypto.attached
    /\ Becomes([storage EXCEPT !.crypto.volume.secrets = TRUE])

\* SignonDaemon::initStorage
Start(e) ==
    /\ storage.phase = "starting"
    /\ Becomes([openCredentialsSystem(storage, e) EXCEPT !.phase = "running"])

Backup(e, f) ==
    /\ "backup" \in Events
    /\ f.kind \in {"none", "tree", "copy"}
    /\ storage.phase = "running"
    /\ storage' = backupStarts(storage, e, f)
    /\ backup' = BackedUp(storage, e, f)
    /\ lostTrack' = (lostTrack \/ ~KeychainComplete')

\* The archiver has put the copies into the backup directory.
Restore(e, f) ==
    /\ "restore" \in Events
    /\ f.kind # "tree"
    /\ storage.phase = "running"
    /\ backup # NoFiles
    /\ Becomes(restoreFinished(storage, e, f))

\* "signond -backup" has no crypto manager, whose files both calls ask for.
BackupMode ==
    /\ "backupMode" \in Events
    /\ storage.phase = "starting"
    /\ Becomes([storage EXCEPT !.phase = "backupMode"])

BackupOrRestoreInBackupMode ==
    /\ storage.phase = "backupMode"
    /\ Becomes([storage EXCEPT !.phase = "stopped"])

Restart ==
    /\ "restart" \in Events
    /\ storage.phase # "starting"
    /\ Becomes(restarted(storage))

Next ==
    \/ Restart
    \/ BackupMode
    \/ BackupOrRestoreInBackupMode
    \/ SecretsStored
    \/ \E e \in Surroundings :
         \/ Start(e)
         \/ \E f \in FileEvents : Backup(e, f) \/ Restore(e, f)
         \/ \E manager \in KeyManagers, key \in AnyKey : KeyInserted(manager, key, e)
         \/ \E key \in Keys : KeyDisabled(key, e) \/ KeyRemoved(key, e)
         \/ \E key \in AnyKey, result \in Results : AuthorizerAnswers(key, result, e)
         \/ \E sender \in Senders : StorageNotAvailable(sender, e)

Spec == Init /\ [][Next]_vars
-----------------------------------------------------------------------------
(* Properties. *)

inUse  == storage.inserted \cap storage.authorized
volume == storage.crypto.volume

OpenWithoutKey == storage.secretsOpen /\ inUse = {}

BackupOrRestore == \E e \in Surroundings, f \in FileEvents : Backup(e, f) \/ Restore(e, f)

\* With the default authorizer the secrets are accessible only while an
\* authorized key is inserted: when the last one goes the storage is closed
\* (onLastAuthorizedKeyRemoved).  It is opened again without one only for a
\* core that asks, which makes the empty key an authorized one, by a key that
\* finds no free slot, and by a backup or a restore.
OpenOnlyWithKey ==
    [][OpenWithoutKey' =>
          \/ OpenWithoutKey
          \/ storage.authorizer # "default"
          \/ /\ ~storage.secretsOpen
             /\ \/ NoKey \in storage'.authorized
                \/ FreeSlots(volume) = {}
                \/ BackupOrRestore]_vars

\* And they are accessible when there is one that opens the container: no order
\* of insertions, openings of the system and questions to the authorizer leaves
\* the storage closed in front of a valid key.
KeyOpensStorage ==
    storage.opened /\ inUse \cap Occupying(volume) # {} => storage.secretsOpen

\* The keyring is never ahead of the container: each key that KeyHandler takes
\* for authorized, and may use to mount the file system, has a key slot.
AuthorizedCanOpen ==
    storage.crypto.fileExists => storage.authorized \subseteq Occupying(volume)

\* A key whose authorization was revoked no longer opens the container, as long
\* as the keychain did not lose track of a key (KeychainComplete).
RevokedCannotOpen == ~lostTrack => storage.revoked \cap Occupying(volume) = {}

\* The container is formatted, and its secrets lost, only when no inserted key
\* opens it (recognizeKey comes before the question to the authorizer).
ContentsSurvive ==
    [][volume.secrets /\ ~volume'.secrets
           => storage'.inserted \cap Occupying(volume) = {}]_vars

\* The secrets database is opened on the encrypted volume, never in the bare
\* directory it should have been mounted on (mountMappedDevice).
SecretsOnVolume == storage.secretsOpen => storage.crypto.attached

\* A session core that waits for the secure storage is waiting for the
\* authorizer's answer: no event of it is kept and never replied to.
NoForgottenNotifier == storage.notifiers # {} => storage.queries # {}

\* What was stored is in place or in the ".bak" file, whatever fails in a
\* restore, or kills signond in it, and whatever is backed up and restored next.
DatabaseNotLost == Stored \in {storage.metadata, storage.bak[Metadata]}

\* A backup that has not failed holds the files that the crypto manager names
\* as "the list of files which need to be backed up".
BackupComplete == backup # NoFiles => \A name \in Names : backup[name] # Absent
=============================================================================
