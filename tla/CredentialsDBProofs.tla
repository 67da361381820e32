------------------------ MODULE CredentialsDBProofs ------------------------
(***************************************************************************)
(* Proofs about CredentialsDB, for every set of passwords, methods and     *)
(* blobs and any number of identities and of requests at once.             *)
(***************************************************************************)
EXTENDS CredentialsDB, TLAPS

(* Tables: a row that is replaced, and rows that are dropped.              *)

LEMMA PutRow ==
    ASSUME NEW f, NEW x, NEW v
    PROVE  /\ DOMAIN Put(f, x, v) = DOMAIN f \cup {x}
           /\ Put(f, x, v)[x] = v
           /\ \A y \in DOMAIN f : y # x => Put(f, x, v)[y] = f[y]
  BY DEF Put

LEMMA PutRowTable ==
    ASSUME NEW D, NEW R, NEW f, IsTable(f, D, R), NEW x \in D, NEW v \in R
    PROVE  IsTable(Put(f, x, v), D, R)
  BY DEF Put, IsTable

LEMMA DropRows ==
    ASSUME NEW D, NEW R, NEW f, IsTable(f, D, R), NEW S
    PROVE  /\ IsTable(Restrict(f, DOMAIN f \ S), D, R)
           /\ DOMAIN Restrict(f, DOMAIN f \ S) = DOMAIN f \ S
           /\ \A y \in DOMAIN f \ S : Restrict(f, DOMAIN f \ S)[y] = f[y]
  BY DEF Restrict, IsTable

LEMMA EmptyTable ==
    ASSUME NEW D, NEW R
    PROVE  IsTable(<<>>, D, R) /\ DOMAIN <<>> = {}
  BY DEF IsTable
-----------------------------------------------------------------------------
(* Type correctness. *)

LEMMA MaxIdType == MaxId \in Nat
  BY CredentialsAssumption DEF CredentialsAssumption

LEMMA NewAuthCacheType ==
    /\ IsAuthCache(NewAuthCache)
    /\ NewAuthCache.password = Empty /\ ~NewAuthCache.store /\ NewAuthCache.blobData = <<>>
  BY EmptyTable DEF IsAuthCache, AuthCache, NewAuthCache, Secrets

LEMMA CacheOfType ==
    ASSUME TypeOK, NEW id
    PROVE  IsAuthCache(CacheOf(id))
  BY NewAuthCacheType DEF TypeOK, CacheOf

LEMMA AuthCacheFields ==
    ASSUME NEW password, NEW s \in BOOLEAN, NEW blobData
    PROVE  LET entry == AuthCache(password, s, blobData)
           IN  /\ entry.password = password /\ entry.store = s /\ entry.blobData = blobData
               /\ password \in Secrets /\ IsTable(blobData, Methods, Blobs)
                    => IsAuthCache(entry)
  BY DEF AuthCache, IsAuthCache

LEMMA PasswordOfType ==
    ASSUME TypeOK, NEW id
    PROVE  PasswordOf(id) \in Secrets
  BY DEF TypeOK, PasswordOf, IsTable, Secrets

LEMMA ReadPasswordType ==
    ASSUME TypeOK, NEW id
    PROVE  ReadPassword(id) \in Secrets
  BY CacheOfType, PasswordOfType DEF ReadPassword, IsAuthCache

LEMMA PutCacheType ==
    ASSUME TypeOK, NEW id \in Ids, NEW entry, IsAuthCache(entry),
           NEW c, c = Put(cache, id, entry)
    PROVE  /\ DOMAIN c \subseteq Ids /\ \A i \in DOMAIN c : IsAuthCache(c[i])
           /\ DOMAIN c = DOMAIN cache \cup {id} /\ c[id] = entry
           /\ \A i \in DOMAIN cache : i # id => c[i] = cache[i]
<1>1. DOMAIN cache \subseteq Ids /\ \A i \in DOMAIN cache : IsAuthCache(cache[i])
  BY DEF TypeOK
<1>2. /\ DOMAIN c = DOMAIN cache \cup {id} /\ c[id] = entry
      /\ \A i \in DOMAIN cache : i # id => c[i] = cache[i]
  BY DEF Put
<1>3. \A i \in DOMAIN c : IsAuthCache(c[i])
  BY <1>1, <1>2
<1> QED
  BY <1>1, <1>2, <1>3
-----------------------------------------------------------------------------
(* What the operators that write do, row by row. *)

LEMMA UpdateSecretsTypes ==
    ASSUME TypeOK, NEW id \in Ids, NEW storePassword \in BOOLEAN, NEW given,
           NEW password \in Secrets, NEW fault,
           UpdateSecrets(id, storePassword, given, password, fault)
    PROVE  /\ IsTable(credentials', Ids, Secrets)
           /\ DOMAIN cache' \subseteq Ids /\ \A i \in DOMAIN cache' : IsAuthCache(cache'[i])
<1>0. /\ IsTable(credentials, Ids, Secrets)
      /\ DOMAIN cache \subseteq Ids /\ \A i \in DOMAIN cache : IsAuthCache(cache[i])
  BY DEF TypeOK
<1>1. CASE UNCHANGED <<credentials, cache>>
  BY <1>0, <1>1
<1>2. CASE credentials' = Put(credentials, id, password) /\ UNCHANGED cache
  BY <1>0, <1>2, PutRowTable
<1>3. CASE CachePassword(id, password, storePassword) /\ UNCHANGED credentials
  <2> DEFINE new == AuthCache(password, storePassword, CacheOf(id).blobData)
  <2>1. IsAuthCache(new)
    BY CacheOfType, AuthCacheFields DEF IsAuthCache
  <2>2. cache' = Put(cache, id, new)
    BY <1>3 DEF CachePassword
  <2> HIDE DEF new
  <2> QED
    BY <2>1, <2>2, <1>3, <1>0, PutCacheType
<1> QED
  BY <1>1, <1>2, <1>3 DEF UpdateSecrets, WritePassword

\* The rows of the other identities stay as they are; the row of id is not
\* touched, or is written to the database or to the cache.
LEMMA UpdateSecretsRows ==
    ASSUME TypeOK, NEW id \in Ids, NEW storePassword \in BOOLEAN, NEW given \in BOOLEAN,
           NEW password \in Secrets, NEW fault,
           UpdateSecrets(id, storePassword, given, password, fault)
    PROVE  /\ \A i \in Ids : i # id =>
                /\ i \in DOMAIN credentials' <=> i \in DOMAIN credentials
                /\ i \in DOMAIN cache' <=> i \in DOMAIN cache
                /\ PasswordOf(i)' = PasswordOf(i) /\ CacheOf(i)' = CacheOf(i)
           /\ \/ ~given /\ UNCHANGED <<credentials, cache>>
              \/ given /\ fault = "write" /\ UNCHANGED <<credentials, cache>>
              \/ /\ given /\ storePassword /\ secretsOpen /\ UNCHANGED cache
                 /\ PasswordOf(id)' = password
              \/ /\ given /\ ~(storePassword /\ secretsOpen) /\ UNCHANGED credentials
                 /\ CacheOf(id)'.password = password /\ CacheOf(id)'.store = storePassword
                 /\ CacheOf(id)'.blobData = CacheOf(id).blobData
                 /\ id \in DOMAIN cache'
<1>1. CASE UNCHANGED <<credentials, cache>> /\ (~given \/ fault = "write")
  BY <1>1 DEF PasswordOf, CacheOf
<1>2. CASE credentials' = Put(credentials, id, password) /\ UNCHANGED cache /\ given
                /\ storePassword /\ secretsOpen
  <2>1. \A i : CacheOf(i)' = CacheOf(i)
    BY <1>2 DEF CacheOf
  <2>2. /\ DOMAIN credentials' = DOMAIN credentials \cup {id}
        /\ credentials'[id] = password
        /\ \A i \in DOMAIN credentials : i # id => credentials'[i] = credentials[i]
    BY <1>2 DEF Put
  <2> QED
    BY <1>2, <2>1, <2>2 DEF PasswordOf
<1>3. CASE CachePassword(id, password, storePassword) /\ UNCHANGED credentials /\ given
                /\ ~(storePassword /\ secretsOpen)
  <2> DEFINE new == AuthCache(password, storePassword, CacheOf(id).blobData)
  <2>1. /\ new.password = password /\ new.store = storePassword
        /\ new.blobData = CacheOf(id).blobData
    BY DEF AuthCache
  <2>2. cache' = Put(cache, id, new)
    BY <1>3 DEF CachePassword
  <2> HIDE DEF new
  <2>3. /\ DOMAIN cache' = DOMAIN cache \cup {id} /\ cache'[id] = new
        /\ \A i \in DOMAIN cache : i # id => cache'[i] = cache[i]
    BY <2>2 DEF Put
  <2>4. \A i \in Ids : i # id => CacheOf(i)' = CacheOf(i)
    BY <2>3 DEF CacheOf
  <2>5. CacheOf(id)' = new
    BY <2>3 DEF CacheOf
  <2>6. \A i : PasswordOf(i)' = PasswordOf(i)
    BY <1>3 DEF PasswordOf
  <2> QED
    BY <1>3, <2>1, <2>3, <2>4, <2>5, <2>6
<1> QED
  BY <1>1, <1>2, <1>3 DEF UpdateSecrets, WritePassword

LEMMA StoreDataTypes ==
    ASSUME TypeOK, NEW id \in Ids, NEW method \in Methods, NEW data \in Blobs, NEW fault,
           storeData(id, method, data, fault)
    PROVE  /\ store' \in [Sessions -> Blobs]
           /\ DOMAIN cache' \subseteq Ids /\ \A i \in DOMAIN cache' : IsAuthCache(cache'[i])
<1>1. CASE secretsOpen
  BY <1>1 DEF storeData, TypeOK, Sessions
<1>2. CASE ~secretsOpen
  <2> DEFINE blobs == Put(CacheOf(id).blobData, method, data)
             new   == AuthCache(CacheOf(id).password, CacheOf(id).store, blobs)
  <2>1. IsAuthCache(CacheOf(id))
    BY CacheOfType
  <2>2. IsTable(blobs, Methods, Blobs)
    BY <2>1, PutRowTable DEF IsAuthCache
  <2>3. IsAuthCache(new)
    <3> HIDE DEF blobs
    <3> QED
      BY <2>1, <2>2, AuthCacheFields DEF IsAuthCache
  <2>4. cache' = Put(cache, id, new) /\ UNCHANGED store
    BY <1>2 DEF storeData, CacheData
  <2> HIDE DEF new
  <2>5. DOMAIN cache' \subseteq Ids /\ \A i \in DOMAIN cache' : IsAuthCache(cache'[i])
    BY <2>3, <2>4, PutCacheType
  <2> QED
    BY <2>4, <2>5 DEF TypeOK
<1> QED
  BY <1>1, <1>2

\* Nothing but blobs changes, and only in the cache of a closed database.
LEMMA StoreDataRows ==
    ASSUME TypeOK, NEW id \in Ids, NEW method \in Methods, NEW data \in Blobs, NEW fault,
           storeData(id, method, data, fault)
    PROVE  /\ secretsOpen => UNCHANGED cache
           /\ DOMAIN cache' \subseteq DOMAIN cache \cup {id}
           /\ \A i : i # id => CacheOf(i)' = CacheOf(i)
           /\ CacheOf(id)'.password = CacheOf(id).password
           /\ CacheOf(id)'.store = CacheOf(id).store
<1>1. CASE secretsOpen
  BY <1>1 DEF storeData, CacheOf
<1>2. CASE ~secretsOpen
  <2> DEFINE new == AuthCache(CacheOf(id).password, CacheOf(id).store,
                              Put(CacheOf(id).blobData, method, data))
  <2>1. new.password = CacheOf(id).password /\ new.store = CacheOf(id).store
    BY DEF AuthCache
  <2>2. cache' = Put(cache, id, new)
    BY <1>2 DEF storeData, CacheData
  <2> HIDE DEF new
  <2>3. /\ DOMAIN cache' = DOMAIN cache \cup {id} /\ cache'[id] = new
        /\ \A i \in DOMAIN cache : i # id => cache'[i] = cache[i]
    BY <2>2 DEF Put
  <2>4. CacheOf(id)' = new /\ \A i : i # id => CacheOf(i)' = CacheOf(i)
    BY <2>3 DEF CacheOf
  <2> QED
    BY <1>2, <2>1, <2>3, <2>4
<1> QED
  BY <1>1, <1>2

LEMMA StoreToDBTypes ==
    ASSUME TypeOK, NEW fault, storeToDB(fault)
    PROVE  IsTable(credentials', Ids, Secrets) /\ store' \in [Sessions -> Blobs]
<1>1. \A id \in DOMAIN cache : Flushed(cache[id]) \in Secrets
  BY DEF TypeOK, IsAuthCache, Flushed, Secrets
<1>2. IsTable(credentials', Ids, Secrets)
  <2>1. CASE fault = "write"
    BY <2>1 DEF storeToDB, TypeOK
  <2>2. CASE fault # "write"
    <3> DEFINE written == {id \in DOMAIN cache : Flushed(cache[id]) # Empty}
    <3>1. credentials' = [id \in DOMAIN credentials \cup written |->
                IF id \in written THEN Flushed(cache[id]) ELSE credentials[id]]
      BY <2>2 DEF storeToDB
    <3>2. \A id \in written : Flushed(cache[id]) \in Secrets
      BY <1>1
    <3>3. written \subseteq Ids
      BY DEF TypeOK
    <3> HIDE DEF written
    <3> QED
      BY <3>1, <3>2, <3>3 DEF TypeOK, IsTable
  <2> QED
    BY <2>1, <2>2
<1>3. store' \in [Sessions -> Blobs]
  <2>1. CASE fault = "write"
    BY <2>1 DEF storeToDB, TypeOK
  <2>2. CASE fault # "write"
    <3> DEFINE blobs(s) == CacheOf(s[1]).blobData
    <3>1. store' = [s \in Sessions |->
                IF s[2] \in DOMAIN blobs(s) /\ blobs(s)[s[2]] \notin BigData
                THEN blobs(s)[s[2]] ELSE store[s]]
      BY <2>2 DEF storeToDB
    <3>2. \A s \in Sessions : IsTable(blobs(s), Methods, Blobs)
      BY CacheOfType DEF IsAuthCache
    <3>3. \A s \in Sessions : s[2] \in DOMAIN blobs(s) => blobs(s)[s[2]] \in Blobs
      BY <3>2 DEF IsTable
    <3>4. \A s \in Sessions : store[s] \in Blobs
      BY DEF TypeOK
    <3> HIDE DEF blobs
    <3> QED
      BY <3>1, <3>3, <3>4
  <2> QED
    BY <2>1, <2>2
<1> QED
  BY <1>2, <1>3

\* A row is what was cached of it, if that may be stored and is not empty.
LEMMA StoreToDBRows ==
    ASSUME TypeOK, NEW fault, storeToDB(fault), NEW i
    PROVE  /\ i \in DOMAIN credentials'
                => \/ i \in DOMAIN credentials
                   \/ CacheOf(i).store /\ CacheOf(i).password # Empty
           /\ fault # "write" =>
                PasswordOf(i)' = IF CacheOf(i).store /\ CacheOf(i).password # Empty
                                 THEN CacheOf(i).password ELSE PasswordOf(i)
<1>1. CASE fault = "write"
  BY <1>1 DEF storeToDB
<1>2. CASE fault # "write"
  <2> DEFINE written == {id \in DOMAIN cache : Flushed(cache[id]) # Empty}
  <2>1. credentials' = [id \in DOMAIN credentials \cup written |->
              IF id \in written THEN Flushed(cache[id]) ELSE credentials[id]]
    BY <1>2 DEF storeToDB
  <2>2. i \in written <=> CacheOf(i).store /\ CacheOf(i).password # Empty
    BY NewAuthCacheType DEF CacheOf, Flushed, TypeOK, IsAuthCache
  <2>3. i \in written => Flushed(cache[i]) = CacheOf(i).password
    BY DEF CacheOf, Flushed
  <2> HIDE DEF written
  <2> QED
    BY <2>1, <2>2, <2>3 DEF PasswordOf
<1> QED
  BY <1>1, <1>2

LEMMA UpdateTypes ==
    ASSUME TypeOK, NEW id \in Ids, NEW storePassword \in BOOLEAN, NEW given,
           NEW password \in Secrets, NEW fault,
           updateCredentials(id, storePassword, given, password, fault)
    PROVE  /\ IsTable(metadata', Ids, BOOLEAN) /\ IsTable(credentials', Ids, Secrets)
           /\ DOMAIN cache' \subseteq Ids /\ \A i \in DOMAIN cache' : IsAuthCache(cache'[i])
  BY UpdateSecretsTypes, PutRowTable DEF updateCredentials, TypeOK

LEMMA EndRequestType ==
    ASSUME TypeOK, NEW S
    PROVE  IsTable(Restrict(requests, DOMAIN requests \ S), Sessions, Requests)
  BY DropRows DEF TypeOK

LEMMA NextIdType == ASSUME TypeOK, lastId < MaxId PROVE lastId + 1 \in Ids
  BY MaxIdType DEF TypeOK, Ids

LEMMA TypeInit == Init => TypeOK
<1> SUFFICES ASSUME Init PROVE TypeOK
  OBVIOUS
<1>1. /\ IsTable(metadata, Ids, BOOLEAN) /\ IsTable(credentials, Ids, Secrets)
      /\ IsTable(requests, Sessions, Requests) /\ DOMAIN cache = {}
  BY EmptyTable DEF Init
<1>2. lastId \in 0 .. MaxId
  BY MaxIdType DEF Init
<1> QED
  BY <1>1, <1>2 DEF Init, TypeOK, Secrets, Blobs

LEMMA TypeStep == TypeOK /\ [Next]_vars => TypeOK'
<1> USE DEF databases, history
<1> SUFFICES ASSUME TypeOK, [Next]_vars PROVE TypeOK'
  OBVIOUS
<1>1. CASE CloseSecretsDB
  BY <1>1 DEF CloseSecretsDB, TypeOK
<1>2. CASE Restart
  <2>1. \A id \in Ids : PasswordOf(id) \in Secrets
    BY PasswordOfType
  <2>2. IsTable(requests', Sessions, Requests) /\ DOMAIN cache' = {}
    BY <1>2, EmptyTable DEF Restart
  <2> QED
    BY <1>2, <2>1, <2>2 DEF Restart, TypeOK
<1>3. ASSUME NEW id \in Ids, NEW method \in Methods, ProcessError(id, method)
      PROVE  TypeOK'
  BY <1>3, EndRequestType DEF ProcessError, TypeOK
<1>4. ASSUME NEW id \in Ids, NEW method \in Methods, NEW password \in Secrets,
             NEW requestPassword \in BOOLEAN,
             StartProcess(id, method, password, requestPassword)
      PROVE  TypeOK'
  <2> DEFINE new == [tmpPassword |-> IF requestPassword THEN Empty
                                     ELSE IF password = Empty THEN ReadPassword(id)
                                     ELSE password,
                     given |-> ~requestPassword /\ password # Empty]
  <2>1. new \in Requests
    BY ReadPasswordType DEF Requests, Secrets
  <2>2. requests' = Put(requests, <<id, method>>, new)
    BY <1>4 DEF StartProcess
  <2> HIDE DEF new
  <2>3. IsTable(requests', Sessions, Requests)
    BY <2>1, <2>2, PutRowTable DEF TypeOK, Sessions
  <2> QED
    BY <1>4, <2>3 DEF StartProcess, TypeOK
<1>5. ASSUME NEW id \in Ids, NEW method \in Methods, NEW password \in Secrets,
             QueryUi(id, method, password)
      PROVE  TypeOK'
  <2> DEFINE new == [tmpPassword |-> password, given |-> password # Empty]
  <2>1. new \in Requests
    BY DEF Requests
  <2>2. requests' = [requests EXCEPT ![<<id, method>>] = new]
    BY <1>5 DEF QueryUi
  <2> HIDE DEF new
  <2>3. IsTable(requests', Sessions, Requests)
    BY <2>1, <2>2 DEF TypeOK, IsTable
  <2> QED
    BY <1>5, <2>3 DEF QueryUi, TypeOK
<1>6. ASSUME NEW fault \in Faults, OpenSecretsDB(fault) PROVE TypeOK'
  <2>1. storeToDB(fault) /\ cache' = <<>> /\ secretsOpen'
    BY <1>6 DEF OpenSecretsDB, openSecretsDB
  <2>2. IsTable(credentials', Ids, Secrets) /\ store' \in [Sessions -> Blobs]
    BY <2>1, StoreToDBTypes
  <2>3. DOMAIN cache' = {}
    BY <2>1, EmptyTable
  <2> QED
    BY <1>6, <2>2, <2>3 DEF OpenSecretsDB, openSecretsDB, TypeOK
<1>7. ASSUME NEW fault \in Faults, NEW S, RemoveSecretsOf(S, fault) PROVE TypeOK'
  <2>1. remove(S, fault)
    BY <1>7 DEF RemoveSecretsOf
  <2>2. IsTable(credentials', Ids, Secrets)
    BY <2>1, DropRows DEF remove, TypeOK
  <2>3. IsTable(metadata', Ids, BOOLEAN)
    BY <2>1, DropRows DEF remove, TypeOK
  <2>4. store' \in [Sessions -> Blobs]
    BY <2>1 DEF remove, TypeOK, Blobs
  <2>5. latest' \in [Ids -> Secrets] /\ latestData' \in [Sessions -> Blobs]
    BY <1>7 DEF RemoveSecretsOf, TypeOK, Secrets, Blobs
  <2> QED
    BY <1>7, <2>2, <2>3, <2>4, <2>5 DEF RemoveSecretsOf, TypeOK
<1>8. ASSUME NEW fault \in Faults, NEW storePassword \in BOOLEAN, NEW given \in BOOLEAN,
             NEW password \in Secrets,
             InsertCredentials(storePassword, given, password, fault)
      PROVE  TypeOK'
  <2>1. lastId' \in Ids /\ updateCredentials(lastId', storePassword, given, password, fault)
    BY <1>8, NextIdType DEF InsertCredentials
  <2>2. lastId' \in 0 .. MaxId
    BY <2>1, MaxIdType DEF Ids
  <2>3. latest' \in [Ids -> Secrets]
    BY <1>8 DEF InsertCredentials, TypeOK, Secrets
  <2> QED
    BY <1>8, <2>1, <2>2, <2>3, UpdateTypes DEF InsertCredentials, TypeOK
<1>9. ASSUME NEW fault \in Faults, NEW storePassword \in BOOLEAN, NEW given \in BOOLEAN,
             NEW password \in Secrets, NEW id \in Ids,
             UpdateCredentials(id, storePassword, given, password, fault)
      PROVE  TypeOK'
  <2>1. updateCredentials(id, storePassword, given, password, fault)
    BY <1>9 DEF UpdateCredentials
  <2>2. latest' \in [Ids -> Secrets]
    BY <1>9 DEF UpdateCredentials, TypeOK
  <2> QED
    BY <1>9, <2>1, <2>2, UpdateTypes DEF UpdateCredentials, TypeOK
<1>10. ASSUME NEW fault \in Faults, NEW storePassword \in BOOLEAN, NEW given \in BOOLEAN,
              NEW password \in Secrets, NEW id \in Ids,
              UpdateRemoved(id, storePassword, given, password, fault)
       PROVE  TypeOK'
  <2>1. UpdateSecrets(id, storePassword, given, password, fault)
    BY <1>10 DEF UpdateRemoved
  <2> QED
    BY <1>10, <2>1, UpdateSecretsTypes DEF UpdateRemoved, TypeOK
<1>11. ASSUME NEW fault \in Faults, NEW id \in Ids, SignOut(id, fault) PROVE TypeOK'
  <2>1. store' \in [Sessions -> Blobs] /\ latestData' \in [Sessions -> Blobs]
    BY <1>11 DEF SignOut, TypeOK, Blobs
  <2> QED
    BY <1>11, <2>1 DEF SignOut, TypeOK
<1>12. ASSUME NEW fault \in Faults, NEW id \in Ids, NEW method \in Methods,
              ProcessResult(id, method, fault)
       PROVE  TypeOK'
  <2> DEFINE request == requests[<<id, method>>]
  <2>1. request.tmpPassword \in Secrets
    BY <1>12 DEF ProcessResult, TypeOK, IsTable, Requests
  <2>2. IsTable(requests', Sessions, Requests)
    BY <1>12, EndRequestType DEF ProcessResult
  <2>3. CASE /\ Stored(id)
             /\ updateCredentials(id, metadata[id], TRUE,
                                  ResultPassword(id, request.tmpPassword), fault)
             /\ latest' = IF request.given THEN [latest EXCEPT ![id] = request.tmpPassword]
                          ELSE latest
             /\ UNCHANGED lastId
    <3>1. metadata[id] \in BOOLEAN
      BY <2>3 DEF TypeOK, IsTable, Stored
    <3>2. ResultPassword(id, request.tmpPassword) \in Secrets
      BY <2>1, ReadPasswordType DEF ResultPassword
    <3>3. latest' \in [Ids -> Secrets]
      BY <2>3, <2>1 DEF TypeOK
    <3> HIDE DEF request
    <3> QED
      BY <1>12, <2>2, <2>3, <3>1, <3>2, <3>3, UpdateTypes DEF ProcessResult, TypeOK
  <2>4. CASE UNCHANGED <<metadata, lastId, credentials, cache, latest>>
    BY <1>12, <2>2, <2>4 DEF ProcessResult, TypeOK
  <2>5. CASE /\ ~Stored(id) /\ lastId < MaxId
             /\ lastId' = lastId + 1
             /\ updateCredentials(lastId', FALSE, request.tmpPassword # Empty,
                                  request.tmpPassword, fault)
             /\ latest' = [latest EXCEPT ![lastId'] = request.tmpPassword]
    <3>1. lastId' \in Ids /\ lastId' \in 0 .. MaxId
      BY <2>5, NextIdType, MaxIdType DEF Ids
    <3>2. latest' \in [Ids -> Secrets]
      BY <2>5, <2>1 DEF TypeOK
    <3> HIDE DEF request
    <3> QED
      BY <1>12, <2>1, <2>2, <2>5, <3>1, <3>2, UpdateTypes DEF ProcessResult, TypeOK
  <2> QED
    BY <1>12, <2>3, <2>4, <2>5 DEF ProcessResult
<1>13. ASSUME NEW fault \in Faults, NEW id \in Ids, NEW method \in Methods,
              NEW data \in Blobs, ProcessStore(id, method, data, fault)
       PROVE  TypeOK'
  <2>1. storeData(id, method, data, fault)
    BY <1>13 DEF ProcessStore
  <2>2. latestData' \in [Sessions -> Blobs] /\ writtenLate' \subseteq Ids
    BY <1>13 DEF ProcessStore, TypeOK
  <2> QED
    BY <1>13, <2>1, <2>2, StoreDataTypes DEF ProcessStore, TypeOK
<1>14. CASE UNCHANGED vars
  BY <1>14 DEF vars, TypeOK
<1> QED
  BY <1>1, <1>2, <1>3, <1>4, <1>5, <1>6, <1>7, <1>8, <1>9, <1>10, <1>11, <1>12,
     <1>13, <1>14 DEF Next, NextOf, RemoveCredentials, Clear

\* Every variable is always in its domain: the tables have rows of identities
\* that the counter has given out, requests and blobs are those of sessions, and
\* what is cached has the fields of SecretsCache::AuthCache.
THEOREM TypeCorrect == Spec => []TypeOK
<1>1. Init => TypeOK
  BY TypeInit
<1>2. TypeOK /\ [Next]_vars => TypeOK'
  BY TypeStep
<1> QED
  BY <1>1, <1>2, PTL DEF Spec
-----------------------------------------------------------------------------
(* The inductive invariant behind the properties of the stored secrets.    *)

\* The counter has given out every identity that anything is known of.
KnownIds ==
    \A id \in Ids : id > lastId =>
        /\ id \notin DOMAIN metadata /\ id \notin DOMAIN credentials
        /\ id \notin DOMAIN cache /\ id \notin writtenLate
        /\ \A method \in Methods : <<id, method>> \notin DOMAIN requests

\* An identity that is removed never comes back.
LateAreGone == \A id \in writtenLate : ~Stored(id)

\* CacheFlushed, row by row.
NothingToFlush ==
    secretsOpen => \A id \in Ids : ~CacheOf(id).store /\ CacheOf(id).blobData = <<>>

\* SecretsOnlyIfAsked, with what the next opening will store.
KeptOnlyIfAsked ==
    \A id \in Ids \ writtenLate :
        \/ Stored(id) /\ metadata[id]
        \/ id \notin DOMAIN credentials /\ ~CacheOf(id).store

\* The last password is in the cache or, if that has none, in the database.
LatestIsKept ==
    \A id \in DOMAIN metadata :
        /\ metadata[id] =>
             IF CacheOf(id).password = Empty THEN PasswordOf(id) = latest[id]
             ELSE CacheOf(id).password = latest[id] /\ CacheOf(id).store /\ ~secretsOpen
        /\ ~metadata[id] => CacheOf(id).password \in {Empty, latest[id]}

\* A request that got its password from the database has the last one.
RequestsHoldLatest ==
    \A id \in DOMAIN metadata, method \in Methods :
        LET request == requests[<<id, method>>]
        IN  <<id, method>> \in DOMAIN requests /\ ~request.given
                => request.tmpPassword \in {Empty, latest[id]}

\* A password that a user gave is not empty.
GivenIsSome ==
    \A session \in DOMAIN requests :
        requests[session].given => requests[session].tmpPassword # Empty

\* No password is changed under a running request or erased in the cache, no
\* client changes what may be stored, and no write to the secrets fails.
Quiet == Env \cap {"overlap", "erase", "flags", "write"} = {}

CredInv ==
    /\ TypeOK
    /\ KnownIds
    /\ LateAreGone
    /\ NothingToFlush
    /\ GivenIsSome
    /\ "flags" \notin Env => KeptOnlyIfAsked
    /\ Quiet => LatestIsKept /\ RequestsHoldLatest

LEMMA InvInit == Init => TypeOK /\ KnownIds /\ LateAreGone /\ NothingToFlush
                         /\ GivenIsSome /\ KeptOnlyIfAsked /\ LatestIsKept /\ RequestsHoldLatest
<1> SUFFICES ASSUME Init
             PROVE  TypeOK /\ KnownIds /\ LateAreGone /\ NothingToFlush
                    /\ GivenIsSome /\ KeptOnlyIfAsked /\ LatestIsKept /\ RequestsHoldLatest
  OBVIOUS
<1>1. /\ DOMAIN metadata = {} /\ DOMAIN credentials = {} /\ DOMAIN cache = {}
      /\ DOMAIN requests = {} /\ writtenLate = {} /\ ~secretsOpen
  BY EmptyTable DEF Init
<1>2. \A id : ~CacheOf(id).store
  BY <1>1, NewAuthCacheType DEF CacheOf
<1> QED
  BY <1>1, <1>2, TypeInit
     DEF KnownIds, LateAreGone, NothingToFlush, GivenIsSome, KeptOnlyIfAsked,
         LatestIsKept, RequestsHoldLatest

\* What reads see of the last password.
LEMMA ReadLatest ==
    ASSUME TypeOK, LatestIsKept, NEW id \in DOMAIN metadata
    PROVE  ReadPassword(id) \in {Empty, latest[id]}
<1>1. metadata[id] \in BOOLEAN
  BY DEF TypeOK, IsTable
<1> QED
  BY <1>1 DEF LatestIsKept, ReadPassword

\* Steps that change requests only.
LEMMA RequestSteps ==
    ASSUME CredInv, UNCHANGED <<databases, cache, secretsOpen, history>>, TypeOK',
           \A id \in Ids, method \in Methods :
               <<id, method>> \in DOMAIN requests' =>
                   \/ <<id, method>> \in DOMAIN requests
                   \/ id <= lastId,
           GivenIsSome', Quiet => RequestsHoldLatest'
    PROVE  CredInv'
<1> USE DEF databases, history
<1>1. KnownIds'
  BY MaxIdType DEF CredInv, KnownIds, TypeOK, Ids
<1>2. LateAreGone' /\ NothingToFlush' /\ (KeptOnlyIfAsked => KeptOnlyIfAsked')
      /\ (LatestIsKept => LatestIsKept')
  BY DEF CredInv, LateAreGone, NothingToFlush, KeptOnlyIfAsked, LatestIsKept, Stored,
         CacheOf, PasswordOf
<1> QED
  BY <1>1, <1>2 DEF CredInv

\* Opening: what was kept in the cache is now in the database.
LEMMA OpenStep ==
    ASSUME CredInv, TypeOK', NEW fault \in Faults, OpenSecretsDB(fault)
    PROVE  CredInv'
<1> USE DEF databases, history
<1>0. TypeOK /\ UNCHANGED <<metadata, lastId, requests, latest, latestData, writtenLate>>
  BY DEF CredInv, OpenSecretsDB
<1>1. \A i : /\ i \in DOMAIN credentials'
                => \/ i \in DOMAIN credentials
                   \/ CacheOf(i).store /\ CacheOf(i).password # Empty
             /\ fault # "write" =>
                PasswordOf(i)' = IF CacheOf(i).store /\ CacheOf(i).password # Empty
                                 THEN CacheOf(i).password ELSE PasswordOf(i)
  BY <1>0, StoreToDBRows DEF OpenSecretsDB, openSecretsDB
<1>2. DOMAIN cache' = {}
  BY EmptyTable DEF OpenSecretsDB, openSecretsDB
<1>3. \A i : CacheOf(i)' = NewAuthCache
  BY <1>2 DEF CacheOf
<1>4. \A i : i \notin DOMAIN cache => ~CacheOf(i).store
  BY NewAuthCacheType DEF CacheOf
<1>5. KnownIds'
  BY <1>0, <1>1, <1>2, <1>4 DEF CredInv, KnownIds
<1>60. GivenIsSome'
  BY <1>0 DEF CredInv, GivenIsSome
<1>6. LateAreGone'
  BY <1>0 DEF CredInv, LateAreGone, Stored
<1>7. NothingToFlush'
  BY <1>3, NewAuthCacheType DEF NothingToFlush
<1>8. ASSUME KeptOnlyIfAsked PROVE KeptOnlyIfAsked'
  BY <1>0, <1>1, <1>3, <1>8, NewAuthCacheType DEF KeptOnlyIfAsked, Stored
<1>9. ASSUME Quiet PROVE LatestIsKept'
  <2>1. fault # "write" /\ LatestIsKept
    BY <1>9 DEF Quiet, Faults, CredInv
  <2> QED
    BY <1>0, <1>1, <1>3, <2>1, NewAuthCacheType DEF LatestIsKept
<1>10. ASSUME Quiet PROVE RequestsHoldLatest'
  BY <1>0, <1>10 DEF CredInv, RequestsHoldLatest
<1> QED
  BY <1>5, <1>60, <1>6, <1>7, <1>8, <1>9, <1>10 DEF CredInv

\* Removing: of S nothing is left in the database, and the cache keeps nothing
\* to be stored, because the database is open.
LEMMA RemoveStep ==
    ASSUME CredInv, TypeOK', NEW fault \in Faults, NEW S \in SUBSET Ids,
           RemoveSecretsOf(S, fault)
    PROVE  CredInv'
<1> USE DEF databases, history
<1>0. /\ TypeOK /\ secretsOpen /\ UNCHANGED <<lastId, cache, secretsOpen, requests>>
      /\ writtenLate' = writtenLate \ S
      /\ \A id \in Ids : latest'[id] =
            IF id \in S /\ (id \in DOMAIN credentials \/ id \notin DOMAIN metadata')
            THEN Empty ELSE latest[id]
  BY DEF CredInv, RemoveSecretsOf, remove
<1>1. /\ DOMAIN credentials' = DOMAIN credentials \ S
      /\ \A i \in DOMAIN credentials' : credentials'[i] = credentials[i]
  BY DEF RemoveSecretsOf, remove, Restrict
<1>2. \A i : PasswordOf(i)' = IF i \in S THEN Empty ELSE PasswordOf(i)
  BY <1>1 DEF PasswordOf
<1>3. /\ DOMAIN metadata' \subseteq DOMAIN metadata
      /\ DOMAIN metadata \ S \subseteq DOMAIN metadata'
      /\ \A i \in DOMAIN metadata' : metadata'[i] = metadata[i]
      /\ fault # "metadata" => DOMAIN metadata' = DOMAIN metadata \ S
  <2>1. CASE fault = "metadata"
    BY <2>1 DEF RemoveSecretsOf, remove
  <2>2. CASE fault # "metadata"
    BY <2>2 DEF RemoveSecretsOf, remove, Restrict
  <2> QED
    BY <2>1, <2>2
<1>4. \A i : CacheOf(i)' = CacheOf(i)
  BY <1>0 DEF CacheOf
<1>5. KnownIds'
  BY <1>0, <1>1, <1>3 DEF CredInv, KnownIds
<1>60. GivenIsSome'
  BY <1>0 DEF CredInv, GivenIsSome
<1>6. LateAreGone'
  BY <1>0, <1>3 DEF CredInv, LateAreGone, Stored
<1>7. \A i \in Ids : ~CacheOf(i).store /\ CacheOf(i).blobData = <<>>
  BY <1>0 DEF CredInv, NothingToFlush
<1>8. NothingToFlush'
  BY <1>4, <1>7 DEF NothingToFlush
<1>9. ASSUME KeptOnlyIfAsked PROVE KeptOnlyIfAsked'
  <2>1. \A i \in S : i \notin DOMAIN credentials' /\ ~CacheOf(i)'.store
    BY <1>1, <1>4, <1>7
  <2>2. ASSUME NEW i \in Ids \ writtenLate', i \notin S
        PROVE  \/ (Stored(i) /\ metadata[i])'
               \/ i \notin DOMAIN credentials' /\ ~CacheOf(i)'.store
    BY <1>0, <1>1, <1>3, <1>4, <1>9, <2>2 DEF KeptOnlyIfAsked, Stored
  <2> QED
    BY <2>1, <2>2 DEF KeptOnlyIfAsked
<1>10. ASSUME Quiet PROVE LatestIsKept' /\ RequestsHoldLatest'
  <2>1. LatestIsKept /\ RequestsHoldLatest /\ KeptOnlyIfAsked /\ "overlap" \notin Env
    BY <1>10 DEF CredInv, Quiet
  <2>2. \A i \in DOMAIN metadata' : i \in Ids /\ i \notin writtenLate
    BY <1>0, <1>3 DEF CredInv, LateAreGone, Stored, TypeOK, IsTable
  <2>3. ASSUME NEW i \in DOMAIN metadata', i \in S
        PROVE  /\ metadata[i] => PasswordOf(i)' = latest'[i] /\ CacheOf(i).password = Empty
               /\ ~metadata[i] => latest'[i] = latest[i]
    <3>1. ~metadata[i] => i \notin DOMAIN credentials
      BY <1>3, <2>1, <2>2, <2>3 DEF KeptOnlyIfAsked
    <3>2. metadata[i] => CacheOf(i).password = Empty /\ PasswordOf(i) = latest[i]
      BY <1>0, <1>3, <2>1, <2>3 DEF LatestIsKept
    <3>3. i \notin DOMAIN credentials => PasswordOf(i) = Empty
      BY DEF PasswordOf
    <3> QED
      BY <1>0, <1>2, <2>2, <2>3, <3>1, <3>2, <3>3
  <2>4. ASSUME NEW i \in DOMAIN metadata', i \notin S
        PROVE  PasswordOf(i)' = PasswordOf(i) /\ latest'[i] = latest[i]
    BY <1>0, <1>2, <2>2, <2>4
  <2>5. LatestIsKept'
    BY <1>0, <1>3, <1>4, <2>1, <2>3, <2>4 DEF LatestIsKept
  <2>6. ASSUME NEW i \in DOMAIN metadata', NEW method \in Methods,
               <<i, method>> \in DOMAIN requests
        PROVE  i \notin S
    <3>1. i \in S => fault = "metadata"
      BY <1>3, <2>6
    <3> QED
      BY <2>1, <2>6, <3>1 DEF RemoveSecretsOf, Running
  <2>7. RequestsHoldLatest'
    BY <1>0, <1>3, <2>1, <2>4, <2>6 DEF RequestsHoldLatest
  <2> QED
    BY <2>5, <2>7
<1> QED
  BY <1>5, <1>60, <1>6, <1>8, <1>9, <1>10 DEF CredInv

\* Writing to the cache of an open database leaves nothing there to be stored.
LEMMA UpdateFlushed ==
    ASSUME TypeOK, NothingToFlush, NEW id \in Ids, NEW storePassword \in BOOLEAN,
           NEW given \in BOOLEAN, NEW password \in Secrets, NEW fault,
           UpdateSecrets(id, storePassword, given, password, fault),
           UNCHANGED secretsOpen
    PROVE  NothingToFlush'
<1> SUFFICES ASSUME secretsOpen, NEW i \in Ids
             PROVE  ~CacheOf(i)'.store /\ CacheOf(i)'.blobData = <<>>
  BY DEF NothingToFlush
<1>1. ~CacheOf(i).store /\ CacheOf(i).blobData = <<>>
  BY DEF NothingToFlush
<1>2. CASE CacheOf(i)' = CacheOf(i)
  BY <1>1, <1>2
<1>3. CASE i = id /\ ~(storePassword /\ secretsOpen) /\ CacheOf(id)'.store = storePassword
           /\ CacheOf(id)'.blobData = CacheOf(id).blobData
  BY <1>1, <1>3
<1>4. UNCHANGED cache => CacheOf(i)' = CacheOf(i)
  BY DEF CacheOf
<1> QED
  BY <1>2, <1>3, <1>4, UpdateSecretsRows

LEMMA UpdateMetadataRows ==
    ASSUME NEW id, NEW storePassword, NEW given, NEW password, NEW fault,
           updateCredentials(id, storePassword, given, password, fault)
    PROVE  /\ UpdateSecrets(id, storePassword, given, password, fault)
           /\ DOMAIN metadata' = DOMAIN metadata \cup {id}
           /\ metadata'[id] = storePassword
           /\ \A i \in DOMAIN metadata : i # id => metadata'[i] = metadata[i]
  BY DEF updateCredentials, Put

\* The row of an identity that is stored with the flag it has.
LEMMA UpdateKept ==
    ASSUME TypeOK, NEW id \in Ids, NEW storePassword \in BOOLEAN,
           NEW given \in BOOLEAN, NEW password \in Secrets, NEW fault,
           UpdateSecrets(id, storePassword, given, password, fault),
           ~storePassword, id \notin DOMAIN credentials, ~CacheOf(id).store
    PROVE  id \notin DOMAIN credentials' /\ ~CacheOf(id)'.store
<1>1. UNCHANGED credentials
  BY DEF UpdateSecrets
<1>2. UNCHANGED cache => CacheOf(id)' = CacheOf(id)
  BY DEF CacheOf
<1>3. CacheOf(id)' = CacheOf(id) \/ CacheOf(id)'.store = storePassword
  BY <1>2, UpdateSecretsRows
<1> QED
  BY <1>1, <1>3

\* CredentialsDB::updateCredentials of a new identity or of one that is stored.
\* The password is the last one, or it is empty and says nothing: the request
\* was not given any, and found none in the cache of the closed database.
LEMMA UpdateStep ==
    ASSUME CredInv, TypeOK',
           NEW id \in Ids, NEW storePassword \in BOOLEAN,
           NEW given \in BOOLEAN, NEW password \in Secrets, NEW fault \in Faults,
           updateCredentials(id, storePassword, given, password, fault),
           UNCHANGED <<secretsOpen, writtenLate>>,
           \/ Stored(id) /\ lastId' = lastId
           \/ id = lastId + 1 /\ lastId' = id,
           Stored(id) /\ "flags" \notin Env => storePassword = metadata[id],
           DOMAIN requests' \subseteq DOMAIN requests,
           \A s \in DOMAIN requests' : requests'[s] = requests[s],
           \A i \in Ids : i # id => latest'[i] = latest[i],
           Quiet =>
             /\ \A method \in Methods :
                  <<id, method>> \in DOMAIN requests' => latest'[id] = latest[id]
             /\ Stored(id) /\ ~given => latest'[id] = latest[id]
             /\ Stored(id) /\ given =>
                  \/ /\ password = latest'[id]
                     /\ secretsOpen \/ password # Empty
                  \/ /\ password = Empty /\ CacheOf(id).password = Empty
                     /\ latest'[id] = latest[id] /\ ~(storePassword /\ secretsOpen)
             /\ ~Stored(id) => latest'[id] = IF given THEN password ELSE Empty
    PROVE  CredInv'
<1> USE DEF databases, history
<1>1. TypeOK /\ KnownIds /\ LateAreGone /\ NothingToFlush
  BY DEF CredInv
<1>2. /\ UpdateSecrets(id, storePassword, given, password, fault)
      /\ DOMAIN metadata' = DOMAIN metadata \cup {id}
      /\ metadata'[id] = storePassword
      /\ \A i \in DOMAIN metadata : i # id => metadata'[i] = metadata[i]
  BY UpdateMetadataRows
<1>3. \A i \in Ids : i # id =>
           /\ i \in DOMAIN credentials' <=> i \in DOMAIN credentials
           /\ i \in DOMAIN cache' <=> i \in DOMAIN cache
           /\ PasswordOf(i)' = PasswordOf(i) /\ CacheOf(i)' = CacheOf(i)
  BY <1>1, <1>2, UpdateSecretsRows
<1>4. ~Stored(id) => /\ id > lastId
                     /\ id \notin DOMAIN credentials /\ id \notin DOMAIN cache
                     /\ id \notin writtenLate
                     /\ CacheOf(id) = NewAuthCache /\ PasswordOf(id) = Empty
  BY <1>1 DEF KnownIds, CacheOf, PasswordOf, TypeOK
<1>5. \A i \in Ids : i > lastId' => i > lastId /\ i # id
  BY <1>1, MaxIdType DEF TypeOK, Ids, KnownIds, Stored
<1>6. KnownIds'
  BY <1>1, <1>2, <1>3, <1>5 DEF KnownIds
<1>60. GivenIsSome'
  BY DEF CredInv, GivenIsSome
<1>7. LateAreGone'
  BY <1>1, <1>2, <1>4 DEF LateAreGone, Stored
<1>8. NothingToFlush'
  BY <1>1, <1>2, UpdateFlushed
<1>9. ASSUME "flags" \notin Env PROVE KeptOnlyIfAsked'
  <2>1. KeptOnlyIfAsked
    BY <1>9 DEF CredInv
  <2>2. ASSUME ~storePassword, id \notin writtenLate
        PROVE  id \notin DOMAIN credentials' /\ ~CacheOf(id)'.store
    <3>1. id \notin DOMAIN credentials /\ ~CacheOf(id).store
      BY <1>4, <1>9, <2>1, <2>2, NewAuthCacheType DEF KeptOnlyIfAsked
    <3> QED
      BY <1>1, <1>2, <2>2, <3>1, UpdateKept
  <2>3. ASSUME NEW i \in Ids \ writtenLate, i # id
        PROVE  \/ (Stored(i) /\ metadata[i])'
               \/ i \notin DOMAIN credentials' /\ ~CacheOf(i)'.store
    BY <1>2, <1>3, <2>1, <2>3 DEF KeptOnlyIfAsked, Stored
  <2> QED
    BY <1>2, <2>2, <2>3 DEF KeptOnlyIfAsked, Stored
<1>10. ASSUME Quiet PROVE LatestIsKept'
  <2>1. LatestIsKept /\ fault # "write" /\ "flags" \notin Env
    BY <1>10 DEF CredInv, Quiet, Faults
  <2>2. \A i \in DOMAIN metadata' : i \in Ids
    BY DEF TypeOK, IsTable
  <2>3. ASSUME NEW i \in DOMAIN metadata', i # id
        PROVE  /\ metadata'[i] =>
                    IF CacheOf(i)'.password = Empty THEN PasswordOf(i)' = latest'[i]
                    ELSE CacheOf(i)'.password = latest'[i] /\ CacheOf(i)'.store
                         /\ ~secretsOpen'
               /\ ~metadata'[i] => CacheOf(i)'.password \in {Empty, latest'[i]}
    BY <1>2, <1>3, <2>1, <2>2, <2>3 DEF LatestIsKept
  <2>4. /\ storePassword =>
             IF CacheOf(id)'.password = Empty THEN PasswordOf(id)' = latest'[id]
             ELSE CacheOf(id)'.password = latest'[id] /\ CacheOf(id)'.store
                  /\ ~secretsOpen'
        /\ ~storePassword => CacheOf(id)'.password \in {Empty, latest'[id]}
    <3>1. /\ storePassword /\ Stored(id) =>
             IF CacheOf(id).password = Empty THEN PasswordOf(id) = latest[id]
             ELSE CacheOf(id).password = latest[id] /\ CacheOf(id).store /\ ~secretsOpen
          /\ ~storePassword /\ Stored(id) => CacheOf(id).password \in {Empty, latest[id]}
      BY <2>1 DEF LatestIsKept, Stored
    <3>2. ~Stored(id) => CacheOf(id).password = Empty /\ PasswordOf(id) = Empty
      BY <1>4, NewAuthCacheType
    <3>3. /\ UNCHANGED cache => CacheOf(id)' = CacheOf(id)
          /\ UNCHANGED credentials => PasswordOf(id)' = PasswordOf(id)
      BY DEF CacheOf, PasswordOf
    <3>4. CASE ~given /\ UNCHANGED <<credentials, cache>>
      BY <1>10, <3>1, <3>2, <3>3, <3>4
    <3>5. CASE given /\ storePassword /\ secretsOpen /\ UNCHANGED cache
               /\ PasswordOf(id)' = password
      BY <1>10, <3>1, <3>2, <3>3, <3>5
    <3>6. CASE /\ given /\ ~(storePassword /\ secretsOpen) /\ UNCHANGED credentials
               /\ CacheOf(id)'.password = password /\ CacheOf(id)'.store = storePassword
      BY <1>10, <3>1, <3>2, <3>3, <3>6
    <3> QED
      BY <1>1, <1>2, <2>1, <3>4, <3>5, <3>6, UpdateSecretsRows
  <2> QED
    BY <1>2, <2>3, <2>4 DEF LatestIsKept
<1>11. ASSUME Quiet PROVE RequestsHoldLatest'
  <2>1. RequestsHoldLatest
    BY <1>11 DEF CredInv
  <2>2. \A i \in DOMAIN metadata' : i \in Ids
    BY DEF TypeOK, IsTable
  <2>3. ASSUME NEW i \in DOMAIN metadata', NEW method \in Methods,
               <<i, method>> \in DOMAIN requests'
        PROVE  i \in DOMAIN metadata /\ latest'[i] = latest[i]
    BY <1>1, <1>2, <1>4, <1>11, <2>2, <2>3 DEF KnownIds, Stored
  <2> QED
    BY <2>1, <2>3 DEF RequestsHoldLatest
<1> QED
  BY <1>6, <1>60, <1>7, <1>8, <1>9, <1>10, <1>11 DEF CredInv

\* Steps that write to no row of an identity that is stored.
LEMMA LateStep ==
    ASSUME CredInv, TypeOK', NEW id \in Ids, id <= lastId,
           UNCHANGED <<metadata, lastId, secretsOpen, requests, latest>>,
           Stored(id) => UNCHANGED <<credentials, writtenLate>>
                         /\ CacheOf(id)'.password = CacheOf(id).password
                         /\ CacheOf(id)'.store = CacheOf(id).store,
           ~Stored(id) => writtenLate' = writtenLate \cup {id},
           NothingToFlush',
           \A i \in Ids : i # id =>
                /\ i \in DOMAIN credentials' <=> i \in DOMAIN credentials
                /\ i \in DOMAIN cache' => i \in DOMAIN cache
                /\ PasswordOf(i)' = PasswordOf(i) /\ CacheOf(i)' = CacheOf(i)
    PROVE  CredInv'
<1>1. TypeOK /\ KnownIds /\ LateAreGone
  BY DEF CredInv
<1>2. \A i \in Ids : i > lastId => i # id
  BY MaxIdType, <1>1 DEF TypeOK, Ids
<1>3. KnownIds'
  BY <1>1, <1>2 DEF KnownIds
<1>4. LateAreGone' /\ GivenIsSome'
  BY <1>1 DEF CredInv, LateAreGone, GivenIsSome, Stored
<1>5. ASSUME KeptOnlyIfAsked PROVE KeptOnlyIfAsked'
  BY <1>5 DEF KeptOnlyIfAsked, Stored
<1>6. ASSUME LatestIsKept PROVE LatestIsKept'
  <2>1. \A i \in DOMAIN metadata : i \in Ids
    BY <1>1 DEF TypeOK, IsTable
  <2>2. \A i \in DOMAIN metadata :
            /\ PasswordOf(i)' = PasswordOf(i)
            /\ CacheOf(i)'.password = CacheOf(i).password
            /\ CacheOf(i)'.store = CacheOf(i).store
    BY <2>1 DEF Stored, PasswordOf
  <2> QED
    BY <1>6, <2>2 DEF LatestIsKept
<1>7. ASSUME RequestsHoldLatest PROVE RequestsHoldLatest'
  BY <1>7 DEF RequestsHoldLatest
<1> QED
  BY <1>3, <1>4, <1>5, <1>6, <1>7 DEF CredInv

LEMMA RestartStep ==
    ASSUME CredInv, TypeOK', Restart
    PROVE  CredInv'
<1> USE DEF databases
<1>1. DOMAIN cache' = {} /\ DOMAIN requests' = {} /\ ~secretsOpen'
  BY EmptyTable DEF Restart
<1>2. \A i : CacheOf(i)' = NewAuthCache /\ PasswordOf(i)' = PasswordOf(i)
  BY <1>1 DEF CacheOf, PasswordOf, Restart
<1>3. KnownIds' /\ LateAreGone' /\ NothingToFlush' /\ GivenIsSome'
  BY <1>1 DEF CredInv, Restart, KnownIds, LateAreGone, NothingToFlush,
              GivenIsSome, Stored
<1>4. ASSUME KeptOnlyIfAsked PROVE KeptOnlyIfAsked'
  BY <1>2, <1>4, NewAuthCacheType DEF KeptOnlyIfAsked, Restart, Stored
<1>5. \A id \in DOMAIN metadata' : latest'[id] = PasswordOf(id)
  BY DEF Restart, TypeOK, IsTable
<1>6. LatestIsKept' /\ RequestsHoldLatest'
  BY <1>1, <1>2, <1>5, NewAuthCacheType DEF LatestIsKept, RequestsHoldLatest
<1> QED
  BY <1>3, <1>4, <1>6 DEF CredInv

LEMMA CloseStep ==
    ASSUME CredInv, TypeOK', CloseSecretsDB
    PROVE  CredInv'
<1> USE DEF databases, history
<1>1. KnownIds' /\ LateAreGone' /\ NothingToFlush' /\ GivenIsSome'
  BY DEF CredInv, CloseSecretsDB, KnownIds, LateAreGone, NothingToFlush,
         GivenIsSome, Stored
<1>2. (KeptOnlyIfAsked => KeptOnlyIfAsked') /\ (LatestIsKept => LatestIsKept')
      /\ (RequestsHoldLatest => RequestsHoldLatest')
  BY DEF CloseSecretsDB, KeptOnlyIfAsked, LatestIsKept, RequestsHoldLatest, Stored,
         CacheOf, PasswordOf
<1> QED
  BY <1>1, <1>2 DEF CredInv

\* A result: the password on trial becomes the last one if the user gave it, and
\* otherwise is the last one already, or none.
LEMMA ResultStep ==
    ASSUME CredInv, TypeOK', NEW id \in Ids, NEW method \in Methods, NEW fault \in Faults,
           ProcessResult(id, method, fault)
    PROVE  CredInv'
<1> DEFINE session == <<id, method>>
           request == requests[session]
           password == ResultPassword(id, request.tmpPassword)
<1>1. TypeOK /\ KnownIds /\ session \in DOMAIN requests
  BY DEF CredInv, ProcessResult
<1>2. request \in Requests /\ request.tmpPassword \in Secrets /\ request.given \in BOOLEAN
  BY <1>1 DEF TypeOK, IsTable, Requests
<1>3. /\ DOMAIN requests' = DOMAIN requests \ {session}
      /\ \A s \in DOMAIN requests' : requests'[s] = requests[s]
  BY DEF ProcessResult, Restrict
<1>4. UNCHANGED <<secretsOpen, writtenLate>>
  BY DEF ProcessResult
<1>5. CASE /\ Stored(id)
           /\ updateCredentials(id, metadata[id], TRUE, password, fault)
           /\ latest' = IF request.given THEN [latest EXCEPT ![id] = request.tmpPassword]
                        ELSE latest
           /\ UNCHANGED lastId
  <2>1. metadata[id] \in BOOLEAN /\ password \in Secrets
    BY <1>1, <1>2, <1>5, ReadPasswordType DEF TypeOK, IsTable, Stored, ResultPassword
  <2>2. \A i \in Ids : i # id => latest'[i] = latest[i]
    BY <1>1, <1>5 DEF TypeOK
  <2>3. ASSUME Quiet
        PROVE  /\ \A m \in Methods : <<id, m>> \in DOMAIN requests' => latest'[id] = latest[id]
               /\ \/ password = latest'[id] /\ (secretsOpen \/ password # Empty)
                  \/ /\ password = Empty /\ CacheOf(id).password = Empty
                     /\ latest'[id] = latest[id] /\ ~(metadata[id] /\ secretsOpen)
    <3>1. LatestIsKept /\ RequestsHoldLatest /\ "overlap" \notin Env
      BY <2>3 DEF CredInv, Quiet
    <3>2. CASE request.given
      <4>1. ~Running(id, Methods \ {method})
        BY <3>1, <3>2 DEF ProcessResult
      <4>2. \A m \in Methods : <<id, m>> \notin DOMAIN requests'
        BY <1>3, <4>1 DEF Running
      <4>3. latest'[id] = request.tmpPassword
        BY <1>1, <1>5, <3>2 DEF TypeOK
      <4>4. request.tmpPassword # Empty
        BY <1>1, <3>2 DEF CredInv, GivenIsSome
      <4> QED
        BY <4>2, <4>3, <4>4 DEF ResultPassword
    <3>3. CASE ~request.given
      <4>1. latest' = latest
        BY <1>5, <3>3
      <4>2. request.tmpPassword \in {Empty, latest[id]}
        BY <1>1, <1>5, <3>1, <3>3 DEF RequestsHoldLatest, Stored
      <4>3. CASE request.tmpPassword # Empty
        BY <4>1, <4>2, <4>3 DEF ResultPassword
      <4>4. CASE request.tmpPassword = Empty
        <5>1. password = ReadPassword(id)
          BY <4>4 DEF ResultPassword
        <5> HIDE DEF password
        <5>2. CASE metadata[id] /\ secretsOpen
          BY <1>5, <3>1, <4>1, <5>1, <5>2 DEF LatestIsKept, ReadPassword, Stored
        <5>3. CASE ~(metadata[id] /\ secretsOpen)
          BY <1>5, <2>1, <3>1, <4>1, <5>1, <5>3 DEF LatestIsKept, ReadPassword, Stored
        <5> QED
          BY <5>2, <5>3
      <4> QED
        BY <4>3, <4>4
    <3> QED
      BY <1>2, <3>2, <3>3
  <2> HIDE DEF password, request, session
  <2> QED
    BY <1>3, <1>4, <1>5, <2>1, <2>2, <2>3, UpdateStep
<1>6. CASE UNCHANGED <<metadata, lastId, credentials, cache, latest>>
  <2>1. UNCHANGED <<databases, cache, secretsOpen, history>>
    BY <1>6 DEF databases, history, ProcessResult
  <2>2. GivenIsSome' /\ (Quiet => RequestsHoldLatest')
    BY <1>3, <1>6 DEF CredInv, GivenIsSome, RequestsHoldLatest
  <2> HIDE DEF request, session
  <2> QED
    BY <1>3, <2>1, <2>2, RequestSteps
<1>7. CASE /\ ~Stored(id) /\ lastId < MaxId
           /\ lastId' = lastId + 1
           /\ updateCredentials(lastId', FALSE, request.tmpPassword # Empty,
                                request.tmpPassword, fault)
           /\ latest' = [latest EXCEPT ![lastId'] = request.tmpPassword]
  <2>1. lastId' \in Ids /\ lastId' > lastId
    BY <1>1, <1>7, NextIdType, MaxIdType DEF Ids, TypeOK
  <2>2. /\ ~Stored(lastId')
        /\ \A m \in Methods : <<lastId', m>> \notin DOMAIN requests
    BY <1>1, <2>1 DEF KnownIds, Stored
  <2>3. /\ \A i \in Ids : i # lastId' => latest'[i] = latest[i]
        /\ latest'[lastId'] = request.tmpPassword
    BY <1>1, <1>7, <2>1 DEF TypeOK
  <2> HIDE DEF request, session
  <2> QED
    BY <1>2, <1>3, <1>4, <1>7, <2>1, <2>2, <2>3, UpdateStep
<1> QED
  BY <1>5, <1>6, <1>7 DEF ProcessResult

\* A request that starts takes the password of the client or what it reads.
LEMMA StartStep ==
    ASSUME CredInv, TypeOK', NEW id \in Ids, NEW method \in Methods,
           NEW password \in Secrets, NEW requestPassword \in BOOLEAN,
           StartProcess(id, method, password, requestPassword)
    PROVE  CredInv'
<1> DEFINE new == [tmpPassword |-> IF requestPassword THEN Empty
                                   ELSE IF password = Empty THEN ReadPassword(id)
                                   ELSE password,
                   given |-> ~requestPassword /\ password # Empty]
<1>1. TypeOK /\ KnownIds /\ id \in DOMAIN metadata
  BY DEF CredInv, StartProcess, Stored
<1>2. /\ DOMAIN requests' = DOMAIN requests \cup {<<id, method>>}
      /\ requests'[<<id, method>>] = new
      /\ \A s \in DOMAIN requests : s # <<id, method>> => requests'[s] = requests[s]
  BY DEF StartProcess, Put
<1>3. new.given => new.tmpPassword # Empty
  OBVIOUS
<1>4. LatestIsKept /\ ~new.given => new.tmpPassword \in {Empty, latest[id]}
  BY <1>1, ReadLatest
<1> HIDE DEF new
<1>5. GivenIsSome'
  BY <1>2, <1>3 DEF CredInv, GivenIsSome
<1>6. UNCHANGED <<databases, cache, secretsOpen, history>>
  BY DEF StartProcess
<1>7. ASSUME Quiet PROVE RequestsHoldLatest'
  BY <1>2, <1>4, <1>6, <1>7 DEF CredInv, RequestsHoldLatest, databases, history
<1>8. id <= lastId
  BY <1>1, MaxIdType DEF KnownIds, TypeOK, Ids
<1>9. \A i \in Ids, m \in Methods :
          <<i, m>> \in DOMAIN requests' => <<i, m>> \in DOMAIN requests \/ i <= lastId
  BY <1>2, <1>8
<1> QED
  BY <1>5, <1>6, <1>7, <1>9, RequestSteps

LEMMA QueryUiStep ==
    ASSUME CredInv, TypeOK', NEW id \in Ids, NEW method \in Methods,
           NEW password \in Secrets, QueryUi(id, method, password)
    PROVE  CredInv'
<1> DEFINE new == [tmpPassword |-> password, given |-> password # Empty]
<1>1. TypeOK /\ UNCHANGED <<databases, cache, secretsOpen, history>>
  BY DEF CredInv, QueryUi
<1>2. /\ DOMAIN requests' = DOMAIN requests
      /\ requests'[<<id, method>>] = new
      /\ \A s \in DOMAIN requests : s # <<id, method>> => requests'[s] = requests[s]
  BY <1>1 DEF QueryUi, TypeOK, IsTable
<1>3. new.given <=> new.tmpPassword # Empty
  OBVIOUS
<1> HIDE DEF new
<1>4. GivenIsSome'
  BY <1>2, <1>3 DEF CredInv, GivenIsSome
<1>5. ASSUME Quiet PROVE RequestsHoldLatest'
  BY <1>1, <1>2, <1>3, <1>5 DEF CredInv, RequestsHoldLatest, databases, history
<1> QED
  BY <1>1, <1>2, <1>4, <1>5, RequestSteps

LEMMA ErrorStep ==
    ASSUME CredInv, TypeOK', NEW id \in Ids, NEW method \in Methods,
           ProcessError(id, method)
    PROVE  CredInv'
<1>1. UNCHANGED <<databases, cache, secretsOpen, history>>
  BY DEF ProcessError
<1>2. /\ DOMAIN requests' \subseteq DOMAIN requests
      /\ \A s \in DOMAIN requests' : requests'[s] = requests[s]
  BY DEF ProcessError, Restrict
<1>3. GivenIsSome' /\ (RequestsHoldLatest => RequestsHoldLatest')
  BY <1>1, <1>2 DEF CredInv, GivenIsSome, RequestsHoldLatest, databases, history
<1>4. Quiet => RequestsHoldLatest'
  BY <1>3 DEF CredInv
<1> QED
  BY <1>1, <1>2, <1>3, <1>4, RequestSteps

LEMMA SameStep ==
    ASSUME CredInv, TypeOK',
           UNCHANGED <<metadata, lastId, credentials, cache, secretsOpen, requests,
                       latest, writtenLate>>
    PROVE  CredInv'
  BY DEF CredInv, KnownIds, LateAreGone, NothingToFlush, GivenIsSome, KeptOnlyIfAsked,
         LatestIsKept, RequestsHoldLatest, Stored, CacheOf, PasswordOf

LEMMA InsertStep ==
    ASSUME CredInv, TypeOK', NEW fault \in Faults, NEW storePassword \in BOOLEAN,
           NEW given \in BOOLEAN, NEW password \in Secrets,
           InsertCredentials(storePassword, given, password, fault)
    PROVE  CredInv'
<1>1. TypeOK /\ KnownIds
  BY DEF CredInv
<1>2. /\ lastId < MaxId /\ lastId' = lastId + 1
      /\ updateCredentials(lastId', storePassword, given, password, fault)
      /\ UNCHANGED <<secretsOpen, requests, writtenLate>>
  BY DEF InsertCredentials
<1>3. lastId' \in Ids /\ lastId' > lastId
  BY <1>1, <1>2, NextIdType, MaxIdType DEF Ids, TypeOK
<1>4. ~Stored(lastId') /\ \A m \in Methods : <<lastId', m>> \notin DOMAIN requests
  BY <1>1, <1>3 DEF KnownIds, Stored
<1>5. /\ \A i \in Ids : i # lastId' => latest'[i] = latest[i]
      /\ latest'[lastId'] = IF given THEN password ELSE Empty
  BY <1>1, <1>2, <1>3 DEF InsertCredentials, TypeOK
<1> QED
  BY <1>2, <1>3, <1>4, <1>5, UpdateStep

LEMMA UpdateCredentialsStep ==
    ASSUME CredInv, TypeOK', NEW fault \in Faults, NEW storePassword \in BOOLEAN,
           NEW given \in BOOLEAN, NEW password \in Secrets, NEW id \in Ids,
           UpdateCredentials(id, storePassword, given, password, fault)
    PROVE  CredInv'
<1>1. TypeOK
  BY DEF CredInv
<1>2. /\ Stored(id)
      /\ updateCredentials(id, storePassword, given, password, fault)
      /\ UNCHANGED <<lastId, secretsOpen, requests, writtenLate>>
      /\ "flags" \notin Env => storePassword = metadata[id]
  BY DEF UpdateCredentials
<1>3. /\ \A i \in Ids : i # id => latest'[i] = latest[i]
      /\ latest'[id] = IF given THEN password ELSE latest[id]
  BY <1>1 DEF UpdateCredentials, TypeOK
<1>4. ASSUME Quiet, given
      PROVE  /\ secretsOpen \/ password # Empty
             /\ \A m \in Methods : <<id, m>> \notin DOMAIN requests
  BY <1>4 DEF Quiet, UpdateCredentials, Running
<1> QED
  BY <1>2, <1>3, <1>4, UpdateStep

LEMMA UpdateRemovedStep ==
    ASSUME CredInv, TypeOK', NEW fault \in Faults, NEW storePassword \in BOOLEAN,
           NEW given \in BOOLEAN, NEW password \in Secrets, NEW id \in Ids,
           UpdateRemoved(id, storePassword, given, password, fault)
    PROVE  CredInv'
<1>1. TypeOK /\ NothingToFlush
  BY DEF CredInv
<1>2. /\ ~Stored(id) /\ id <= lastId
      /\ UpdateSecrets(id, storePassword, given, password, fault)
      /\ writtenLate' = writtenLate \cup {id}
      /\ UNCHANGED <<metadata, lastId, secretsOpen, requests, latest>>
  BY DEF UpdateRemoved
<1>3. NothingToFlush'
  BY <1>1, <1>2, UpdateFlushed
<1>4. \A i \in Ids : i # id =>
           /\ i \in DOMAIN credentials' <=> i \in DOMAIN credentials
           /\ i \in DOMAIN cache' <=> i \in DOMAIN cache
           /\ PasswordOf(i)' = PasswordOf(i) /\ CacheOf(i)' = CacheOf(i)
  BY <1>1, <1>2, UpdateSecretsRows
<1> QED
  BY <1>2, <1>3, <1>4, LateStep

LEMMA ProcessStoreStep ==
    ASSUME CredInv, TypeOK', NEW fault \in Faults, NEW id \in Ids, NEW method \in Methods,
           NEW data \in Blobs, ProcessStore(id, method, data, fault)
    PROVE  CredInv'
<1>1. TypeOK /\ NothingToFlush /\ KnownIds
  BY DEF CredInv
<1>2. /\ storeData(id, method, data, fault) /\ <<id, method>> \in DOMAIN requests
      /\ writtenLate' = IF Stored(id) THEN writtenLate ELSE writtenLate \cup {id}
      /\ UNCHANGED <<metadata, lastId, credentials, secretsOpen, requests, latest>>
  BY DEF ProcessStore
<1>3. id <= lastId
  BY <1>1, <1>2, MaxIdType DEF KnownIds, TypeOK, Ids
<1>4. /\ secretsOpen => UNCHANGED cache
      /\ DOMAIN cache' \subseteq DOMAIN cache \cup {id}
      /\ \A i : i # id => CacheOf(i)' = CacheOf(i)
      /\ CacheOf(id)'.password = CacheOf(id).password
      /\ CacheOf(id)'.store = CacheOf(id).store
  BY <1>1, <1>2, StoreDataRows
<1>5. NothingToFlush'
  BY <1>1, <1>2, <1>4 DEF NothingToFlush, CacheOf
<1>6. \A i : PasswordOf(i)' = PasswordOf(i)
  BY <1>2 DEF PasswordOf
<1> QED
  BY <1>2, <1>3, <1>4, <1>5, <1>6, LateStep

LEMMA InvStep == CredInv /\ [Next]_vars => CredInv'
<1> SUFFICES ASSUME CredInv, [Next]_vars PROVE CredInv'
  OBVIOUS
<1>1. TypeOK'
  BY TypeStep DEF CredInv
<1>2. CASE CloseSecretsDB
  BY <1>1, <1>2, CloseStep
<1>3. CASE Restart
  BY <1>1, <1>3, RestartStep
<1>4. ASSUME NEW fault \in Faults, NextOf(fault) PROVE CredInv'
  <2>1. CASE OpenSecretsDB(fault)
    BY <1>1, <2>1, OpenStep
  <2>2. ASSUME NEW S \in SUBSET Ids, RemoveSecretsOf(S, fault) PROVE CredInv'
    BY <1>1, <2>2, RemoveStep
  <2>3. ASSUME NEW storePassword \in BOOLEAN, NEW given \in BOOLEAN,
               NEW password \in Secrets,
               \/ InsertCredentials(storePassword, given, password, fault)
               \/ \E id \in Ids :
                    \/ UpdateCredentials(id, storePassword, given, password, fault)
                    \/ UpdateRemoved(id, storePassword, given, password, fault)
        PROVE  CredInv'
    BY <1>1, <2>3, InsertStep, UpdateCredentialsStep, UpdateRemovedStep
  <2>4. ASSUME NEW id \in Ids, SignOut(id, fault) PROVE CredInv'
    BY <1>1, <2>4, SameStep DEF SignOut
  <2>5. ASSUME NEW id \in Ids, NEW method \in Methods, ProcessResult(id, method, fault)
        PROVE  CredInv'
    BY <1>1, <2>5, ResultStep
  <2>6. ASSUME NEW id \in Ids, NEW method \in Methods, NEW data \in Blobs,
               ProcessStore(id, method, data, fault)
        PROVE  CredInv'
    BY <1>1, <2>6, ProcessStoreStep
  <2> QED
    BY <1>4, <2>1, <2>2, <2>3, <2>4, <2>5, <2>6 DEF NextOf, RemoveCredentials, Clear
<1>5. ASSUME NEW id \in Ids, NEW method \in Methods, NEW password \in Secrets,
             \/ \E requestPassword \in BOOLEAN :
                    StartProcess(id, method, password, requestPassword)
             \/ QueryUi(id, method, password)
      PROVE  CredInv'
  BY <1>1, <1>5, StartStep, QueryUiStep
<1>6. ASSUME NEW id \in Ids, NEW method \in Methods, ProcessError(id, method)
      PROVE  CredInv'
  BY <1>1, <1>6, ErrorStep
<1>7. CASE UNCHANGED vars
  BY <1>1, <1>7, SameStep DEF vars, databases, history
<1> QED
  BY <1>2, <1>3, <1>4, <1>5, <1>6, <1>7 DEF Next
-----------------------------------------------------------------------------
LEMMA Invariant == Spec => []CredInv
<1>1. Init => CredInv
  BY InvInit DEF CredInv
<1>2. CredInv /\ [Next]_vars => CredInv'
  BY InvStep
<1> QED
  BY <1>1, <1>2, PTL DEF Spec

\* While the secrets database is open, the cache that stands for it when it is
\* closed holds nothing that the next opening would write over it, whatever
\* fails and whatever the clients do.
THEOREM NothingWaits == Spec => []CacheFlushed
<1>1. CredInv => CacheFlushed
  BY DEF CredInv, NothingToFlush, CacheFlushed, CacheOf, TypeOK
<1> QED
  BY <1>1, Invariant, PTL

\* As long as clients do not change whether a password may be stored, those in
\* the secrets database are of identities that exist and ask for it, whatever
\* fails; but for what is written to an identity after its removal.
THEOREM OnlyIfAsked ==
    ASSUME "flags" \notin Env
    PROVE  Spec => []SecretsOnlyIfAsked
<1>1. CredInv => SecretsOnlyIfAsked
  BY DEF CredInv, KeptOnlyIfAsked, SecretsOnlyIfAsked, TypeOK, IsTable
<1> QED
  BY <1>1, Invariant, PTL

\* In a quiet environment the last password that a user gave is the one that is
\* stored while the secrets are open, for any number of identities and requests:
\* neither the cache nor a request that ends late brings an older one back.
THEOREM LastPasswordWins ==
    ASSUME Quiet
    PROVE  Spec => []LatestIsStored
<1>1. CredInv => LatestIsStored
  BY DEF CredInv, LatestIsKept, LatestIsStored
<1> QED
  BY <1>1, Invariant, PTL

\* Nor does anyone read an older one, from the cache or from the database.
THEOREM NoOldPasswordRead ==
    ASSUME Quiet
    PROVE  Spec => []NoStalePassword
<1>1. CredInv => NoStalePassword
  BY ReadLatest DEF CredInv, NoStalePassword
<1> QED
  BY <1>1, Invariant, PTL
-----------------------------------------------------------------------------
(* The data that plugins store. *)

\* An identity that does not exist, and was not written to after its removal,
\* has no data anywhere.
NoDataOfOthers ==
    \A id \in Ids \ writtenLate, method \in Methods :
        ~Stored(id) => /\ store[<<id, method>>] = NoData
                       /\ latestData[<<id, method>>] = NoData
                       /\ method \notin DOMAIN CacheOf(id).blobData

\* The last data are in the cache or, if that has none, in the database.
LatestDataIsKept ==
    \A id \in Ids, method \in Methods :
        LET session == <<id, method>>
            blobs   == CacheOf(id).blobData
        IN  Stored(id) /\ latestData[session] \notin BigData
                => latestData[session] = IF method \in DOMAIN blobs THEN blobs[method]
                                         ELSE store[session]

\* Writing to the secrets database never fails, nor does a sign-out.
Reliable == Env \cap {"write", "signout"} = {}

DataInv == NoDataOfOthers /\ (Reliable => LatestDataIsKept)

LEMMA SessionPairs == \A s \in Sessions : s[1] \in Ids /\ s[2] \in Methods /\ s = <<s[1], s[2]>>
  BY DEF Sessions

\* A password is written without touching the blobs that are cached with it.
LEMMA BlobsKept ==
    ASSUME TypeOK, NEW id \in Ids, NEW storePassword \in BOOLEAN, NEW given \in BOOLEAN,
           NEW password \in Secrets, NEW fault,
           UpdateSecrets(id, storePassword, given, password, fault)
    PROVE  \A i \in Ids : CacheOf(i)'.blobData = CacheOf(i).blobData
<1>1. UNCHANGED cache => CacheOf(id)' = CacheOf(id)
  BY DEF CacheOf
<1> QED
  BY <1>1, UpdateSecretsRows

\* Steps that leave the data alone, and give only new identities a row.
LEMMA DataUntouched ==
    ASSUME CredInv, DataInv, UNCHANGED <<store, latestData>>,
           writtenLate \subseteq writtenLate',
           \A i \in Ids : CacheOf(i)'.blobData = CacheOf(i).blobData,
           DOMAIN metadata \subseteq DOMAIN metadata',
           \A i \in DOMAIN metadata' : i \in DOMAIN metadata \/ i \notin writtenLate
    PROVE  DataInv'
<1>1. NoDataOfOthers'
  BY DEF DataInv, NoDataOfOthers, Stored
<1>2. ASSUME Reliable PROVE LatestDataIsKept'
  <2>1. ASSUME NEW i \in Ids, NEW m \in Methods, i \in DOMAIN metadata'
        PROVE  latestData[<<i, m>>] \notin BigData =>
                 latestData[<<i, m>>] =
                   IF m \in DOMAIN CacheOf(i).blobData THEN CacheOf(i).blobData[m]
                   ELSE store[<<i, m>>]
    <3>1. CASE i \in DOMAIN metadata
      BY <1>2, <3>1 DEF DataInv, LatestDataIsKept, Stored
    <3>2. CASE i \notin DOMAIN metadata
      BY <2>1, <3>2 DEF DataInv, NoDataOfOthers, Stored
    <3> QED
      BY <3>1, <3>2
  <2> QED
    BY <2>1 DEF LatestDataIsKept, Stored
<1> QED
  BY <1>1, <1>2 DEF DataInv

LEMMA OpenData ==
    ASSUME CredInv, DataInv, NEW fault \in Faults, OpenSecretsDB(fault)
    PROVE  DataInv'
<1> USE DEF databases, history
<1>1. UNCHANGED <<metadata, latestData, writtenLate>>
  BY DEF OpenSecretsDB
<1>2. \A i : DOMAIN CacheOf(i)'.blobData = {}
  BY EmptyTable, NewAuthCacheType DEF OpenSecretsDB, openSecretsDB, CacheOf
<1>3. \A i \in Ids, m \in Methods :
          IF fault = "write" THEN store'[<<i, m>>] = store[<<i, m>>]
          ELSE LET blobs == CacheOf(i).blobData
               IN  store'[<<i, m>>] = IF m \in DOMAIN blobs /\ blobs[m] \notin BigData
                                      THEN blobs[m] ELSE store[<<i, m>>]
  BY DEF OpenSecretsDB, openSecretsDB, storeToDB, Sessions
<1>4. NoDataOfOthers'
  BY <1>1, <1>2, <1>3 DEF DataInv, NoDataOfOthers, Stored
<1>5. ASSUME Reliable PROVE LatestDataIsKept'
  <2>1. fault # "write"
    BY <1>5 DEF Reliable, Faults
  <2> QED
    BY <1>1, <1>2, <1>3, <1>5, <2>1 DEF DataInv, LatestDataIsKept, Stored
<1> QED
  BY <1>4, <1>5 DEF DataInv

LEMMA RestartData ==
    ASSUME TypeOK, DataInv, Restart
    PROVE  DataInv'
<1>1. \A i : DOMAIN CacheOf(i)'.blobData = {}
  BY EmptyTable, NewAuthCacheType DEF Restart, CacheOf
<1> QED
  BY <1>1 DEF DataInv, NoDataOfOthers, LatestDataIsKept, Restart, databases, Stored

\* What is removed has no data in the cache either: the database is open.
LEMMA RemoveData ==
    ASSUME CredInv, DataInv, NEW fault \in Faults, NEW S \in SUBSET Ids,
           RemoveSecretsOf(S, fault)
    PROVE  DataInv'
<1>1. TypeOK /\ secretsOpen /\ UNCHANGED cache /\ writtenLate' = writtenLate \ S
  BY DEF CredInv, RemoveSecretsOf, remove
<1>2. \A i \in Ids : DOMAIN CacheOf(i).blobData = {} /\ CacheOf(i)' = CacheOf(i)
  BY <1>1, EmptyTable DEF CredInv, NothingToFlush, CacheOf
<1>3. \A i \in Ids, m \in Methods :
          /\ store'[<<i, m>>] = IF i \in S THEN NoData ELSE store[<<i, m>>]
          /\ latestData'[<<i, m>>] = IF i \in S THEN NoData ELSE latestData[<<i, m>>]
  BY DEF RemoveSecretsOf, remove, Sessions
<1>4. \A i \in Ids : i \notin S => (i \in DOMAIN metadata' <=> i \in DOMAIN metadata)
  BY DEF RemoveSecretsOf, remove, Restrict
<1>5. NoDataOfOthers'
  BY <1>1, <1>2, <1>3, <1>4 DEF DataInv, NoDataOfOthers, Stored
<1>6. ASSUME Reliable PROVE LatestDataIsKept'
  BY <1>2, <1>3, <1>4, <1>6 DEF DataInv, LatestDataIsKept, Stored
<1> QED
  BY <1>5, <1>6 DEF DataInv

LEMMA SignOutData ==
    ASSUME CredInv, DataInv, NEW fault \in Faults, NEW id \in Ids, SignOut(id, fault)
    PROVE  DataInv'
<1>1. TypeOK /\ Stored(id) /\ UNCHANGED <<metadata, cache, secretsOpen, writtenLate>>
  BY DEF CredInv, SignOut
<1>2. \A i : CacheOf(i)' = CacheOf(i)
  BY <1>1 DEF CacheOf
<1>3. \A i \in Ids, m \in Methods :
          /\ i # id => store'[<<i, m>>] = store[<<i, m>>]
          /\ latestData'[<<i, m>>] = IF i = id THEN NoData ELSE latestData[<<i, m>>]
  BY DEF SignOut, Sessions
<1>4. NoDataOfOthers'
  BY <1>1, <1>2, <1>3 DEF DataInv, NoDataOfOthers, Stored
<1>5. ASSUME Reliable PROVE LatestDataIsKept'
  <2>1. secretsOpen /\ \A m \in Methods : store'[<<id, m>>] = NoData
    BY <1>5 DEF Reliable, SignOut, Sessions
  <2>2. \A i \in Ids : DOMAIN CacheOf(i).blobData = {}
    BY <2>1, EmptyTable DEF CredInv, NothingToFlush
  <2> QED
    BY <1>1, <1>2, <1>3, <1>5, <2>1, <2>2 DEF DataInv, LatestDataIsKept, Stored
<1> QED
  BY <1>4, <1>5 DEF DataInv

\* A blob is written to the one place from which it will be read.
LEMMA StoreData ==
    ASSUME CredInv, DataInv, NEW fault \in Faults, NEW id \in Ids, NEW method \in Methods,
           NEW data \in Blobs, ProcessStore(id, method, data, fault)
    PROVE  DataInv'
<1>1. /\ TypeOK /\ storeData(id, method, data, fault) /\ UNCHANGED <<metadata, secretsOpen>>
      /\ latestData' = IF ~Stored(id) \/ (secretsOpen /\ data \in BigData) THEN latestData
                       ELSE [latestData EXCEPT ![<<id, method>>] = data]
      /\ writtenLate' = IF Stored(id) THEN writtenLate ELSE writtenLate \cup {id}
  BY DEF CredInv, ProcessStore
<1>2. \A i : i # id => CacheOf(i)' = CacheOf(i)
  BY <1>1, StoreDataRows
<1>3. \A i \in Ids, m \in Methods : <<i, m>> # <<id, method>> =>
          latestData'[<<i, m>>] = latestData[<<i, m>>] /\ store'[<<i, m>>] = store[<<i, m>>]
  <2>1. \A i \in Ids, m \in Methods : <<i, m>> # <<id, method>> =>
            latestData'[<<i, m>>] = latestData[<<i, m>>]
    BY <1>1 DEF TypeOK, Sessions
  <2>2. \A i \in Ids, m \in Methods : <<i, m>> # <<id, method>> =>
            store'[<<i, m>>] = store[<<i, m>>]
    BY <1>1 DEF TypeOK, Sessions, storeData
  <2> QED
    BY <2>1, <2>2
<1>4. \A m \in Methods : m # method =>
          /\ m \in DOMAIN CacheOf(id)'.blobData <=> m \in DOMAIN CacheOf(id).blobData
          /\ m \in DOMAIN CacheOf(id).blobData
                => CacheOf(id)'.blobData[m] = CacheOf(id).blobData[m]
  <2>1. CASE secretsOpen
    BY <1>1, <2>1 DEF storeData, CacheOf
  <2>2. CASE ~secretsOpen
    <3>1. cache' = Put(cache, id, AuthCache(CacheOf(id).password, CacheOf(id).store,
                                            Put(CacheOf(id).blobData, method, data)))
      BY <1>1, <2>2 DEF storeData, CacheData
    <3>2. CacheOf(id)'.blobData = Put(CacheOf(id).blobData, method, data)
      BY <3>1 DEF CacheOf, Put, AuthCache
    <3> QED
      BY <3>2 DEF Put
  <2> QED
    BY <2>1, <2>2
<1>5. NoDataOfOthers'
  BY <1>1, <1>2, <1>3 DEF DataInv, NoDataOfOthers, Stored
<1>6. ASSUME Reliable, Stored(id), latestData'[<<id, method>>] \notin BigData
      PROVE  latestData'[<<id, method>>] =
               IF method \in DOMAIN CacheOf(id)'.blobData THEN CacheOf(id)'.blobData[method]
               ELSE store'[<<id, method>>]
  <2>1. CASE secretsOpen
    <3>1. DOMAIN CacheOf(id).blobData = {} /\ CacheOf(id)' = CacheOf(id) /\ fault # "write"
      BY <1>1, <1>6, <2>1, EmptyTable
         DEF CredInv, NothingToFlush, storeData, CacheOf, Reliable, Faults
    <3>2. CASE data \in BigData
      BY <1>1, <1>6, <2>1, <3>1, <3>2 DEF DataInv, LatestDataIsKept, storeData
    <3>3. CASE data \notin BigData
      BY <1>1, <1>6, <2>1, <3>1, <3>3 DEF storeData, TypeOK, Sessions
    <3> QED
      BY <3>2, <3>3
  <2>2. CASE ~secretsOpen
    <3>1. cache' = Put(cache, id, AuthCache(CacheOf(id).password, CacheOf(id).store,
                                            Put(CacheOf(id).blobData, method, data)))
      BY <1>1, <2>2 DEF storeData, CacheData
    <3>2. CacheOf(id)'.blobData = Put(CacheOf(id).blobData, method, data)
      BY <3>1 DEF CacheOf, Put, AuthCache
    <3>3. latestData'[<<id, method>>] = data
      BY <1>1, <1>6, <2>2 DEF TypeOK, Sessions
    <3> QED
      BY <3>2, <3>3 DEF Put
  <2> QED
    BY <2>1, <2>2
<1>7. ASSUME Reliable PROVE LatestDataIsKept'
  <2> SUFFICES ASSUME NEW i \in Ids, NEW m \in Methods, Stored(i),
                      latestData'[<<i, m>>] \notin BigData
               PROVE  latestData'[<<i, m>>] =
                        IF m \in DOMAIN CacheOf(i)'.blobData THEN CacheOf(i)'.blobData[m]
                        ELSE store'[<<i, m>>]
    BY <1>1 DEF LatestDataIsKept, Stored
  <2>1. CASE i = id /\ m = method
    BY <1>6, <1>7, <2>1
  <2>2. CASE i = id /\ m # method
    BY <1>3, <1>4, <1>7, <2>2 DEF DataInv, LatestDataIsKept
  <2>3. CASE i # id
    BY <1>2, <1>3, <1>7, <2>3 DEF DataInv, LatestDataIsKept
  <2> QED
    BY <2>1, <2>2, <2>3
<1> QED
  BY <1>5, <1>7 DEF DataInv

\* A password that is written, to a new identity or to one that exists.
LEMMA UpdateData ==
    ASSUME CredInv, DataInv, NEW id \in Ids, NEW storePassword \in BOOLEAN,
           NEW given \in BOOLEAN, NEW password \in Secrets, NEW fault,
           updateCredentials(id, storePassword, given, password, fault),
           Stored(id) \/ id > lastId,
           UNCHANGED <<store, latestData, writtenLate>>
    PROVE  DataInv'
<1>1. TypeOK /\ KnownIds /\ LateAreGone
  BY DEF CredInv
<1>2. /\ UpdateSecrets(id, storePassword, given, password, fault)
      /\ DOMAIN metadata' = DOMAIN metadata \cup {id}
  BY UpdateMetadataRows
<1>3. \A i \in Ids : CacheOf(i)'.blobData = CacheOf(i).blobData
  BY <1>1, <1>2, BlobsKept
<1>4. id \notin DOMAIN metadata => id \notin writtenLate
  BY <1>1 DEF KnownIds, Stored
<1> QED
  BY <1>2, <1>3, <1>4, DataUntouched

LEMMA ResultData ==
    ASSUME CredInv, DataInv, NEW fault \in Faults, NEW id \in Ids, NEW method \in Methods,
           ProcessResult(id, method, fault)
    PROVE  DataInv'
<1> DEFINE request  == requests[<<id, method>>]
           password == ResultPassword(id, request.tmpPassword)
<1>1. TypeOK /\ UNCHANGED <<store, latestData, writtenLate>>
  BY DEF CredInv, ProcessResult
<1>2. request.tmpPassword \in Secrets
  BY <1>1 DEF ProcessResult, TypeOK, IsTable, Requests
<1>3. CASE Stored(id) /\ updateCredentials(id, metadata[id], TRUE, password, fault)
  <2>1. metadata[id] \in BOOLEAN /\ password \in Secrets
    BY <1>1, <1>2, <1>3, ReadPasswordType DEF TypeOK, IsTable, Stored, ResultPassword
  <2> HIDE DEF password
  <2> QED
    BY <1>1, <1>3, <2>1, UpdateData
<1>4. CASE UNCHANGED <<metadata, cache>>
  <2>1. \A i : CacheOf(i)' = CacheOf(i)
    BY <1>4 DEF CacheOf
  <2> QED
    BY <1>1, <1>4, <2>1, DataUntouched
<1>5. CASE /\ lastId < MaxId /\ lastId' = lastId + 1
           /\ updateCredentials(lastId', FALSE, request.tmpPassword # Empty,
                                request.tmpPassword, fault)
  <2>1. lastId' \in Ids /\ lastId' > lastId
    BY <1>1, <1>5, NextIdType, MaxIdType DEF TypeOK, Ids
  <2> HIDE DEF request
  <2> QED
    BY <1>1, <1>2, <1>5, <2>1, UpdateData
<1> QED
  BY <1>3, <1>4, <1>5 DEF ProcessResult

LEMMA DataStep == CredInv /\ DataInv /\ [Next]_vars => DataInv'
<1> SUFFICES ASSUME CredInv, DataInv, [Next]_vars PROVE DataInv'
  OBVIOUS
<1> USE DEF databases, history
<1>1. TypeOK /\ LateAreGone
  BY DEF CredInv
<1>2. ASSUME UNCHANGED <<metadata, cache, store, latestData, writtenLate>> PROVE DataInv'
  <2>1. \A i : CacheOf(i)' = CacheOf(i)
    BY <1>2 DEF CacheOf
  <2> QED
    BY <1>2, <2>1, DataUntouched
<1>3. CASE CloseSecretsDB
  BY <1>2, <1>3 DEF CloseSecretsDB
<1>4. CASE Restart
  BY <1>1, <1>4, RestartData
<1>5. ASSUME NEW fault \in Faults, NextOf(fault) PROVE DataInv'
  <2>1. CASE OpenSecretsDB(fault)
    BY <2>1, OpenData
  <2>2. ASSUME NEW S \in SUBSET Ids, RemoveSecretsOf(S, fault) PROVE DataInv'
    BY <2>2, RemoveData
  <2>3. ASSUME NEW storePassword \in BOOLEAN, NEW given \in BOOLEAN,
               NEW password \in Secrets,
               InsertCredentials(storePassword, given, password, fault)
        PROVE  DataInv'
    <3>1. lastId + 1 \in Ids /\ lastId + 1 > lastId
      BY <1>1, <2>3, NextIdType DEF InsertCredentials, TypeOK
    <3> QED
      BY <2>3, <3>1, UpdateData DEF InsertCredentials
  <2>4. ASSUME NEW storePassword \in BOOLEAN, NEW given \in BOOLEAN,
               NEW password \in Secrets, NEW id \in Ids,
               UpdateCredentials(id, storePassword, given, password, fault)
        PROVE  DataInv'
    BY <2>4, UpdateData DEF UpdateCredentials
  <2>5. ASSUME NEW storePassword \in BOOLEAN, NEW given \in BOOLEAN,
               NEW password \in Secrets, NEW id \in Ids,
               UpdateRemoved(id, storePassword, given, password, fault)
        PROVE  DataInv'
    <3>1. /\ UNCHANGED <<metadata, store, latestData>> /\ ~Stored(id)
          /\ writtenLate' = writtenLate \cup {id}
      BY <2>5 DEF UpdateRemoved
    <3>2. \A i \in Ids : CacheOf(i)'.blobData = CacheOf(i).blobData
      BY <1>1, <2>5, BlobsKept DEF UpdateRemoved
    <3> QED
      BY <3>1, <3>2, DataUntouched
  <2>6. ASSUME NEW id \in Ids, SignOut(id, fault) PROVE DataInv'
    BY <2>6, SignOutData
  <2>7. ASSUME NEW id \in Ids, NEW method \in Methods, ProcessResult(id, method, fault)
        PROVE  DataInv'
    BY <2>7, ResultData
  <2>8. ASSUME NEW id \in Ids, NEW method \in Methods, NEW data \in Blobs,
               ProcessStore(id, method, data, fault)
        PROVE  DataInv'
    BY <2>8, StoreData
  <2> QED
    BY <1>5, <2>1, <2>2, <2>3, <2>4, <2>5, <2>6, <2>7, <2>8
       DEF NextOf, RemoveCredentials, Clear
<1>6. ASSUME NEW id \in Ids, NEW method \in Methods, NEW password \in Secrets,
             \/ \E requestPassword \in BOOLEAN :
                    StartProcess(id, method, password, requestPassword)
             \/ QueryUi(id, method, password)
      PROVE  DataInv'
  BY <1>2, <1>6 DEF StartProcess, QueryUi
<1>7. ASSUME NEW id \in Ids, NEW method \in Methods, ProcessError(id, method)
      PROVE  DataInv'
  BY <1>2, <1>7 DEF ProcessError
<1>8. CASE UNCHANGED vars
  BY <1>2, <1>8 DEF vars
<1> QED
  BY <1>3, <1>4, <1>5, <1>6, <1>7, <1>8 DEF Next

LEMMA DataInvariant == Spec => []DataInv
<1>1. Init => DataInv
  <2> SUFFICES ASSUME Init PROVE DataInv
    OBVIOUS
  <2>1. \A i \in Ids, m \in Methods :
            /\ store[<<i, m>>] = NoData /\ latestData[<<i, m>>] = NoData
            /\ ~Stored(i) /\ DOMAIN CacheOf(i).blobData = {}
    BY EmptyTable, NewAuthCacheType DEF Init, Sessions, Stored, CacheOf
  <2> QED
    BY <2>1 DEF DataInv, NoDataOfOthers, LatestDataIsKept
<1>2. CredInv /\ DataInv /\ [Next]_vars => DataInv'
  BY DataStep
<1> QED
  BY <1>1, <1>2, Invariant, PTL DEF Spec

\* The secrets database never has data of an identity that is gone, whatever
\* fails, but for what a request stores after the removal.
THEOREM DataHaveAnOwner == Spec => []NoOrphanData
<1>1. DataInv => NoOrphanData
  BY SessionPairs DEF DataInv, NoDataOfOthers, NoOrphanData
<1> QED
  BY <1>1, DataInvariant, PTL

\* If no write to the secrets database and no sign-out fails, the data that a
\* request loads are the last that were stored, and none after a sign-out; while
\* the database is closed they may be none.
THEOREM LastDataWin ==
    ASSUME Reliable
    PROVE  Spec => []LatestDataIsStored
<1>1. CredInv /\ DataInv => LatestDataIsStored
  <2> SUFFICES ASSUME CredInv, DataInv, NEW i \in Ids, NEW m \in Methods, Stored(i),
                      latestData[<<i, m>>] \notin BigData
               PROVE  loadData(i, m) \in IF secretsOpen THEN {latestData[<<i, m>>]}
                                         ELSE {NoData, latestData[<<i, m>>]}
    BY SessionPairs DEF LatestDataIsStored
  <2>1. latestData[<<i, m>>] =
            IF m \in DOMAIN CacheOf(i).blobData THEN CacheOf(i).blobData[m]
            ELSE store[<<i, m>>]
    BY DEF DataInv, LatestDataIsKept
  <2>2. secretsOpen => DOMAIN CacheOf(i).blobData = {}
    BY EmptyTable DEF CredInv, NothingToFlush
  <2> QED
    BY <2>1, <2>2 DEF loadData
<1> QED
  BY <1>1, Invariant, DataInvariant, PTL
=============================================================================
