--------------------------- MODULE CredentialsDB ---------------------------
(***************************************************************************)
(* Whose secrets exist: CredentialsDB (src/signond/credentialsdb.cpp) over *)
(* the metadata database, the secrets database, which is open or closed    *)
(* (SecureStorage), and the cache in memory that stands for it while it is *)
(* closed; with those who call it, the identities' D-Bus objects and the   *)
(* requests of session cores, which read a password when they start and    *)
(* write it back when they end.                                            *)
(*                                                                         *)
(* Every call is synchronous and is made within one handler of the main    *)
(* loop, so an action is a handler.  A table is a partial function from    *)
(* the identities that have a row.  The secret is the password: user names *)
(* are public, and of the metadata only RememberPassword is told apart.    *)
(***************************************************************************)
EXTENDS Naturals, FiniteSets, Functions

CONSTANTS Passwords,
          Empty,     \* the empty string
          Methods,
          Data,      \* non-empty blobs of session data
          BigData,   \* blobs of SSO_MAX_TOKEN_STORAGE bytes and more
          NoData,    \* the empty blob, which has no rows
          MaxId,       \* bound: identities ever inserted
          MaxRequests, \* bound: requests running at once
          Env        \* what else may happen:
                     \*   "overlap": the password of an identity changes while
                     \*              another of its requests is running
                     \*   "flags": clients change what may be stored
                     \*   "late":  requests go on after their identity is removed
                     \*   "write": writing to the secrets database may fail
                     \*   "metadata": writing to the metadata may fail
                     \*   "restart": CredentialsDB is destroyed and made anew
                     \*   "erase": a user erases a password while the secrets
                     \*            are closed
                     \*   "signout": a sign-out may fail

ASSUME CredentialsAssumption ==
    /\ Empty \notin Passwords
    /\ BigData \subseteq Data /\ NoData \notin Data
    /\ MaxId \in Nat \ {0}
    /\ MaxRequests \in Nat
    /\ Env \subseteq {"overlap", "flags", "late", "write", "metadata", "restart",
                "erase", "signout"}

VARIABLES metadata,    \* CREDENTIALS of the metadata database: storePassword()
          lastId,      \* its AUTOINCREMENT counter
          credentials, \* CREDENTIALS of the secrets database
          store,       \* STORE of the secrets database
          cache,       \* m_secretsCache
          secretsOpen, \* isSecretsDBOpen()
          requests,    \* the running requests, with their m_tmpPassword
          (* history *)
          latest,      \* the last password that a user gave to be used
          latestData,  \* the last blob that a plugin gave to be stored, until
                       \* the identity is signed out
          writtenLate  \* the identities written to after they were removed

databases == <<metadata, lastId, credentials, store>>
history   == <<latest, latestData, writtenLate>>
vars      == <<databases, cache, secretsOpen, requests, history>>

Ids       == 1 .. MaxId
Secrets   == Passwords \cup {Empty}
Blobs     == Data \cup {NoData}
Sessions  == Ids \X Methods

\* A table: its rows are those of some members of D.
IsTable(f, D, R) == DOMAIN f \subseteq D /\ f \in [DOMAIN f -> R]

\* "INSERT OR REPLACE", and QHash::operator[] with an assignment.
Put(f, key, value) ==
    [k \in DOMAIN f \cup {key} |-> IF k = key THEN value ELSE f[k]]

\* SecretsCache::AuthCache
AuthCache(password, storePassword, blobData) ==
    [password |-> password, store |-> storePassword, blobData |-> blobData]

IsAuthCache(entry) ==
    /\ entry = AuthCache(entry.password, entry.store, entry.blobData)
    /\ entry.password \in Secrets /\ entry.store \in BOOLEAN
    /\ IsTable(entry.blobData, Methods, Blobs)

NewAuthCache == AuthCache(Empty, FALSE, <<>>)

\* A request: the password on trial, and whether it is its user who gave it.
Requests == [tmpPassword : Secrets, given : BOOLEAN]

TypeOK ==
    /\ IsTable(metadata, Ids, BOOLEAN)
    /\ lastId \in 0 .. MaxId
    /\ IsTable(credentials, Ids, Secrets)
    /\ store \in [Sessions -> Blobs]
    /\ DOMAIN cache \subseteq Ids /\ \A id \in DOMAIN cache : IsAuthCache(cache[id])
    /\ secretsOpen \in BOOLEAN
    /\ IsTable(requests, Sessions, Requests)
    /\ latest \in [Ids -> Secrets]
    /\ latestData \in [Sessions -> Blobs]
    /\ writtenLate \subseteq Ids

Init ==
    /\ metadata = <<>>
    /\ lastId = 0
    /\ credentials = <<>>
    /\ store = [s \in Sessions |-> NoData]
    /\ cache = <<>>
    /\ secretsOpen = FALSE
    /\ requests = <<>>
    /\ latest = [id \in Ids |-> Empty]
    /\ latestData = [s \in Sessions |-> NoData]
    /\ writtenLate = {}
-----------------------------------------------------------------------------
(* Reading. *)

Stored(id) == id \in DOMAIN metadata

\* SecretsCache::m_cache.value(id)
CacheOf(id) == IF id \in DOMAIN cache THEN cache[id] ELSE NewAuthCache

\* DefaultSecretsStorage::loadCredentials
PasswordOf(id) == IF id \in DOMAIN credentials THEN credentials[id] ELSE Empty

ReadCacheFirst(id) == \* mutant: prefers the cache
    IF id \in DOMAIN cache THEN cache[id].password ELSE PasswordOf(id)

\* CredentialsDB::credentials(id, true) of an identity that is stored
ReadPassword(id) ==
    IF metadata[id] /\ secretsOpen THEN PasswordOf(id) ELSE CacheOf(id).password

loadData(id, method) ==
    IF secretsOpen THEN store[<<id, method>>]
    ELSE LET blobs == CacheOf(id).blobData
         IN  IF method \in DOMAIN blobs THEN blobs[method] ELSE NoData
-----------------------------------------------------------------------------
(* Writing; fault is the database that fails, if any. *)

WritePassword(id, password, fault) ==
    IF fault = "write" THEN UNCHANGED credentials
    ELSE credentials' = Put(credentials, id, password)

\* SecretsCache::updateCredentials
CachePassword(id, password, storePassword) ==
    cache' = Put(cache, id, AuthCache(password, storePassword, CacheOf(id).blobData))

UpdateSecretsUnasked(id, storePassword, given, password, fault) == \* mutant: stores all
    IF ~given THEN UNCHANGED <<credentials, cache>>
    ELSE IF secretsOpen
         THEN WritePassword(id, password, fault) /\ UNCHANGED cache
         ELSE CachePassword(id, password, storePassword) /\ UNCHANGED credentials

\* CredentialsDB::updateCredentials, once updateIdentity() has given the id;
\* "given" is SignonIdentityInfo::hasSecrets().  What it returns is not looked at.
UpdateSecrets(id, storePassword, given, password, fault) ==
    IF ~given THEN UNCHANGED <<credentials, cache>>
    ELSE IF storePassword /\ secretsOpen
         THEN WritePassword(id, password, fault) /\ UNCHANGED cache
         ELSE CachePassword(id, password, storePassword) /\ UNCHANGED credentials

updateCredentials(id, storePassword, given, password, fault) ==
    /\ fault # "metadata"
    /\ metadata' = Put(metadata, id, storePassword)
    /\ UpdateSecrets(id, storePassword, given, password, fault)

FlushedAll(entry) == entry.password \* mutant: whether it may be stored or not

\* A row that SecretsCache::storeToDB() writes: the password only if it may be
\* stored, and nothing at all if there is nothing to keep.
Flushed(entry) ==
    IF entry.store THEN entry.password ELSE Empty

storeToDB(fault) ==
    IF fault = "write" THEN UNCHANGED <<credentials, store>>
    ELSE /\ LET written == {id \in DOMAIN cache : Flushed(cache[id]) # Empty}
            IN  credentials' = [id \in DOMAIN credentials \cup written |->
                                  IF id \in written THEN Flushed(cache[id]) ELSE credentials[id]]
         /\ store' = [s \in Sessions |->
                        LET blobs == CacheOf(s[1]).blobData
                        IN  IF s[2] \in DOMAIN blobs /\ blobs[s[2]] \notin BigData
                            THEN blobs[s[2]] ELSE store[s]]
-----------------------------------------------------------------------------
(* The secrets database opens and closes (CredentialsAccessManager). *)

openSecretsDBKeeps(fault) == \* mutant: keeps the cache
    /\ storeToDB(fault)
    /\ cache' = cache
    /\ secretsOpen' = TRUE

\* CredentialsDB::openSecretsDB.  The cache is emptied whatever became of it.
openSecretsDB(fault) ==
    /\ storeToDB(fault)
    /\ cache' = <<>>
    /\ secretsOpen' = TRUE

OpenSecretsDB(fault) ==
    /\ ~secretsOpen
    /\ openSecretsDB(fault)
    /\ UNCHANGED <<metadata, lastId, requests, history>>

CloseSecretsDB ==
    /\ secretsOpen
    /\ secretsOpen' = FALSE
    /\ UNCHANGED <<databases, cache, requests, history>>

\* signond ends, or a backup closes the credentials system: CredentialsDB goes
\* and with it what was only in its cache.
Restart ==
    /\ "restart" \in Env
    /\ cache' = <<>>
    /\ secretsOpen' = FALSE
    /\ requests' = <<>>
    /\ latest' = [id \in Ids |-> PasswordOf(id)]
    /\ latestData' = store
    /\ UNCHANGED <<databases, writtenLate>>
-----------------------------------------------------------------------------
(* The clients' calls on identities. *)

Running(id, methods) == \E m \in methods : <<id, m>> \in DOMAIN requests

\* SignonIdentity::store of a new identity: CredentialsDB::insertCredentials.
InsertCredentials(storePassword, given, password, fault) ==
    LET id == lastId + 1
    IN  /\ lastId < MaxId
        /\ lastId' = id
        /\ updateCredentials(id, storePassword, given, password, fault)
        /\ latest' = [latest EXCEPT ![id] = IF given THEN password ELSE Empty]
        /\ UNCHANGED <<store, secretsOpen, requests, latestData, writtenLate>>

\* SignonIdentity::store of a known one.
UpdateCredentials(id, storePassword, given, password, fault) ==
    /\ Stored(id)
    /\ "flags" \notin Env => storePassword = metadata[id]
    /\ "overlap" \notin Env => ~given \/ ~Running(id, Methods)
    /\ "erase" \notin Env => ~given \/ secretsOpen \/ password # Empty
    /\ updateCredentials(id, storePassword, given, password, fault)
    /\ latest' = [latest EXCEPT ![id] = IF given THEN password ELSE @]
    /\ UNCHANGED <<lastId, store, secretsOpen, requests, latestData, writtenLate>>

\* The same of an identity that was removed, without realms and access control
\* list: the UPDATE changes no row, which is no error.
UpdateRemoved(id, storePassword, given, password, fault) ==
    /\ "late" \in Env
    /\ id <= lastId /\ ~Stored(id)
    /\ fault # "metadata"
    /\ UpdateSecrets(id, storePassword, given, password, fault)
    /\ writtenLate' = writtenLate \cup {id}
    /\ UNCHANGED <<metadata, lastId, store, secretsOpen, requests, latest, latestData>>

removeUnguarded(S, fault) == \* mutant: the secrets may be closed
    /\ credentials' = IF secretsOpen THEN Restrict(credentials, DOMAIN credentials \ S)
                      ELSE credentials
    /\ store' = [s \in Sessions |-> IF s[1] \in S /\ secretsOpen THEN NoData ELSE store[s]]
    /\ metadata' = Restrict(metadata, DOMAIN metadata \ S)

\* CredentialsDB::removeCredentials, and clear() of all.  The secrets go first:
\* when the metadata cannot be written the identity stays, without them.
remove(S, fault) ==
    /\ secretsOpen /\ fault # "write"
    /\ credentials' = Restrict(credentials, DOMAIN credentials \ S)
    /\ store' = [s \in Sessions |-> IF s[1] \in S THEN NoData ELSE store[s]]
    /\ metadata' = IF fault = "metadata" THEN metadata
                   ELSE Restrict(metadata, DOMAIN metadata \ S)

RemoveSecretsOf(S, fault) ==
    /\ "late" \notin Env \/ ("overlap" \notin Env /\ fault = "metadata")
         => \A id \in S : ~Running(id, Methods)
    /\ remove(S, fault)
    /\ latest' = [id \in Ids |-> IF id \in S /\ (id \in DOMAIN credentials \/ id \notin DOMAIN metadata')
                                THEN Empty ELSE latest[id]]
    /\ latestData' = [s \in Sessions |-> IF s[1] \in S THEN NoData ELSE latestData[s]]
    /\ writtenLate' = writtenLate \ S
    /\ UNCHANGED <<lastId, cache, secretsOpen, requests>>

RemoveCredentials(id, fault) == Stored(id) /\ RemoveSecretsOf({id}, fault)

\* SignonDaemon::clear
Clear(fault) == RemoveSecretsOf(Ids, fault)

\* SignonIdentity::signOut: whether removeData() has removed the data is only
\* logged, and the client is told that it is signed out.
SignOut(id, fault) ==
    LET removed == secretsOpen /\ fault # "write"
    IN
    /\ Stored(id)
    /\ "signout" \notin Env => removed
    /\ store' = [s \in Sessions |-> IF s[1] = id /\ removed THEN NoData ELSE store[s]]
    /\ latestData' = [s \in Sessions |-> IF s[1] = id THEN NoData ELSE latestData[s]]
    /\ UNCHANGED <<metadata, lastId, credentials, cache, secretsOpen, requests, latest, writtenLate>>
-----------------------------------------------------------------------------
(* The requests of the session cores. *)

\* SignonSessionCore::startProcess.  The client gives a password, or that of the
\* database is used, or none: the policy says to ask for it.
StartProcess(id, method, password, requestPassword) ==
    /\ Stored(id)
    /\ <<id, method>> \notin DOMAIN requests
    /\ Cardinality(DOMAIN requests) < MaxRequests
    /\ requests' = Put(requests, <<id, method>>,
                       [tmpPassword |-> IF requestPassword THEN Empty
                                        ELSE IF password = Empty THEN ReadPassword(id)
                                        ELSE password,
                        given |-> ~requestPassword /\ password # Empty])
    /\ UNCHANGED <<databases, cache, secretsOpen, history>>

\* SignonSessionCore::queryUiSlot: what the user typed, if anything.
QueryUi(id, method, password) ==
    /\ <<id, method>> \in DOMAIN requests
    /\ requests' = [requests EXCEPT ![<<id, method>>] =
                       [tmpPassword |-> password, given |-> password # Empty]]
    /\ UNCHANGED <<databases, cache, secretsOpen, history>>

ResultPasswordBlind(id, tmpPassword) == tmpPassword \* mutant: does not read what is there

\* The info that processResultReply() stores is what it has read, with the
\* password on trial; it always has a password, be it empty.
ResultPassword(id, tmpPassword) ==
    IF tmpPassword # Empty THEN tmpPassword ELSE ReadPassword(id)

\* SignonSessionCore::processResultReply; when the identity has been removed it
\* reads a new one, and inserts that.
ProcessResult(id, method, fault) ==
    LET request == requests[<<id, method>>]
    IN  /\ <<id, method>> \in DOMAIN requests
        /\ "overlap" \notin Env => ~request.given \/ ~Running(id, Methods \ {method})
        /\ requests' = Restrict(requests, DOMAIN requests \ {<<id, method>>})
        /\ \/ /\ Stored(id)
              /\ updateCredentials(id, metadata[id], TRUE,
                                   ResultPassword(id, request.tmpPassword), fault)
              /\ latest' = IF request.given THEN [latest EXCEPT ![id] = request.tmpPassword]
                           ELSE latest
              /\ UNCHANGED lastId
           \/ /\ fault = "metadata"
              /\ UNCHANGED <<metadata, lastId, credentials, cache, latest>>
           \/ /\ ~Stored(id) /\ lastId < MaxId
              /\ lastId' = lastId + 1
              /\ updateCredentials(lastId', FALSE, request.tmpPassword # Empty,
                                   request.tmpPassword, fault)
              /\ latest' = [latest EXCEPT ![lastId'] = request.tmpPassword]
        /\ UNCHANGED <<store, secretsOpen, latestData, writtenLate>>

\* A request that ends with an error stores nothing.
ProcessError(id, method) ==
    /\ <<id, method>> \in DOMAIN requests
    /\ requests' = Restrict(requests, DOMAIN requests \ {<<id, method>>})
    /\ UNCHANGED <<databases, cache, secretsOpen, history>>

\* SecretsCache::updateData
CacheData(id, method, data) ==
    LET entry == CacheOf(id)
    IN  cache' = Put(cache, id, AuthCache(entry.password, entry.store,
                                          Put(entry.blobData, method, data)))

storeDataMerges(id, method, data, fault) == \* mutant: never empties what there is
    IF data = NoData THEN UNCHANGED <<store, cache>>
    ELSE IF secretsOpen
    THEN /\ store' = IF data \in BigData \/ fault = "write" THEN store
                     ELSE [store EXCEPT ![<<id, method>>] = data]
         /\ UNCHANGED cache
    ELSE CacheData(id, method, data) /\ UNCHANGED store

\* CredentialsDB::storeData.  What is too big is refused, unless it is cached.
storeData(id, method, data, fault) ==
    IF secretsOpen
    THEN /\ store' = IF data \in BigData \/ fault = "write" THEN store
                     ELSE [store EXCEPT ![<<id, method>>] = data]
         /\ UNCHANGED cache
    ELSE CacheData(id, method, data) /\ UNCHANGED store

\* SignonSessionCore::processStore
ProcessStore(id, method, data, fault) ==
    /\ <<id, method>> \in DOMAIN requests
    /\ storeData(id, method, data, fault)
    /\ latestData' = IF ~Stored(id) \/ (secretsOpen /\ data \in BigData) THEN latestData
                     ELSE [latestData EXCEPT ![<<id, method>>] = data]
    /\ writtenLate' = IF Stored(id) THEN writtenLate ELSE writtenLate \cup {id}
    /\ UNCHANGED <<metadata, lastId, credentials, secretsOpen, requests, latest>>

-----------------------------------------------------------------------------
Faults == {"none"} \cup (Env \cap {"write", "metadata"})

NextOf(fault) ==
    \/ OpenSecretsDB(fault)
    \/ Clear(fault)
    \/ \E storePassword, given \in BOOLEAN, password \in Secrets :
         /\ given \/ password = Empty
         /\ \/ InsertCredentials(storePassword, given, password, fault)
            \/ \E id \in Ids :
                 \/ UpdateCredentials(id, storePassword, given, password, fault)
                 \/ UpdateRemoved(id, storePassword, given, password, fault)
    \/ \E id \in Ids : RemoveCredentials(id, fault) \/ SignOut(id, fault)
    \/ \E id \in Ids, method \in Methods :
         \/ ProcessResult(id, method, fault)
         \/ \E data \in Blobs : ProcessStore(id, method, data, fault)

Next ==
    \/ CloseSecretsDB
    \/ Restart
    \/ \E fault \in Faults : NextOf(fault)
    \/ \E id \in Ids, method \in Methods :
         \/ \E password \in Secrets : \/ \E requestPassword \in BOOLEAN :
                                           StartProcess(id, method, password, requestPassword)
                                      \/ QueryUi(id, method, password)
         \/ ProcessError(id, method)

Spec == Init /\ [][Next]_vars
-----------------------------------------------------------------------------
(* Properties. *)

\* While the secrets are open, what is stored of an identity that keeps its
\* password is the last one its user gave, wherever it was at the time, in the
\* cache or in the database, and whatever requests have read and written back.
LatestIsStored ==
    \A id \in DOMAIN metadata :
        secretsOpen /\ metadata[id]
            => PasswordOf(id) = latest[id]

\* Nothing ever reads an older password: it is the last one or, as long as the
\* secrets are closed or when it may not be stored, none.
NoStalePassword ==
    \A id \in DOMAIN metadata :
        ReadPassword(id) \in {Empty, latest[id]}

\* Likewise for the data that plugins store, and once an identity is signed out
\* there is none of what was stored before.
LatestDataIsStored ==
    \A s \in Sessions :
        Stored(s[1]) /\ latestData[s] \notin BigData
            => loadData(s[1], s[2]) \in
                  IF secretsOpen THEN {latestData[s]} ELSE {NoData, latestData[s]}

\* No password is in the permanent storage but those of identities that exist
\* and let it be stored there, unless it was written after the removal.
SecretsOnlyIfAsked ==
    \A id \in DOMAIN credentials \ writtenLate :
        credentials[id] # Empty => Stored(id) /\ metadata[id]

\* Nor are there data of an identity that is gone.
NoOrphanData ==
    \A s \in Sessions : store[s] # NoData => Stored(s[1]) \/ s[1] \in writtenLate

\* While the secrets are open nothing waits in the cache to be stored: what is
\* cached then would be written over what is newer when they open again.
CacheFlushed ==
    secretsOpen => \A id \in DOMAIN cache : ~cache[id].store /\ cache[id].blobData = <<>>
============================================================================
