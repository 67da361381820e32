------------------------------ MODULE Registry ------------------------------
(***************************************************************************)
(* The objects signond serves on D-Bus: identities, and session cores with *)
(* their authentication sessions; the tables it finds them in; and their   *)
(* disposal when unused, down to the end of the idle daemon.               *)
(* (src/signond/signondaemon.cpp, signonidentity.cpp, signonauthsession.cpp*)
(* signondisposable.cpp, their adaptors and accesscontrolmanagerhelper.cpp *)
(* and what of signonsessioncore.cpp decides about a core's life).         *)
(*                                                                         *)
(* A D-Bus call runs several functions that read and write the same state, *)
(* so the daemon's state is one record and each function an operator from  *)
(* such a record to the next; an action applies the whole call.  An object *)
(* is a place in memory: it can be taken again once deleted.               *)
(*                                                                         *)
(* Time is what disposal sees of it: whether an object has been used within*)
(* its maximum inactivity.                                                 *)
(***************************************************************************)
EXTENDS Naturals, Sequences, FiniteSets, SequencesExt

CONSTANTS Identities,  \* places for SignonIdentity objects
          Cores,       \* places for SignonSessionCore objects, of one method
          Sessions,    \* places for SignonAuthSession objects
          Peers,       \* client processes
          NoPeer, NoObject,
          Acl,         \* whom the access control list of each identity names
          MaxId,       \* bound: identities ever stored
          MaxDialogs,  \* bound: delayed calls at a time
          Env          \* what may also happen, see EnvKinds

EnvKinds == {"fail",     \* storing an identity may fail
             "unknown",  \* identities are asked for that never existed
             "again",    \* an identity that was removed is stored again
             "rekey",    \* a session goes from one stored identity to another
             "busy"}     \* the key managers have not reported at the start

Objects == Identities \cup Cores
Ids     == 1..MaxId
NewId   == 0              \* SIGNOND_NEW_IDENTITY

ASSUME RegistryAssumption ==
    /\ NoPeer \notin Peers /\ NoObject \notin Objects
    /\ Identities \cap Cores = {}
    /\ MaxId \in Nat /\ MaxDialogs \in Nat
    /\ Acl \in [Ids -> SUBSET Peers]
    /\ Env \subseteq EnvKinds

VARIABLES d,          \* the daemon: a record, see DaemonType
          rows,       \* the owner of each identity in the database
          nextId,     \* the id of the next one
          dialogs,    \* delayed calls: signon-ui has been asked
          ready,      \* isCredentialsSystemReady()
          exited      \* the daemon has ended for lack of use

\* What happened before; never read by the code.
VARIABLES hurried,    \* identities one of whose dialogs ended before another
          misjudged   \* identities getIdentity() destroyed, their row gone, or
                      \* handed out although already condemned

history == <<hurried, misjudged>>
vars    == <<d, rows, nextId, dialogs, ready, exited, history>>

NoRow  == "noRow"
NoInfo == [id |-> NewId, secret |-> FALSE, current |-> FALSE]
DialogKinds == {"update", "verify", "remove", "signOut"}

\* disposableObjects, autoDestruct, the timers; SignonIdentity's m_id, m_pInfo
\* and whether it is on the bus; the request queues; the tables.
DaemonType ==
    [life         : [Objects -> {"none", "alive", "condemned"}],
     disposable   : SUBSET Objects,
     auto         : [Objects -> BOOLEAN],
     unused       : SUBSET Objects,
     disposeTimer : BOOLEAN,
     notifyTimer  : BOOLEAN,
     published    : SUBSET Identities,
     watched      : SUBSET Identities,
     id           : [Objects -> Ids \cup {NewId}],
     cached       : SUBSET Identities,
     info         : [Identities -> [id : Ids \cup {NewId}, secret : BOOLEAN,
                                    current : BOOLEAN]],
     identityOf   : [Ids -> Identities \cup {NoObject}],
     coreOf       : [Ids -> Cores \cup {NoObject}],
     newCores     : SUBSET Cores,
     parent       : [Sessions -> Cores \cup {NoObject}],
     queue        : [Cores -> Seq(Sessions)],
     active       : SUBSET Cores,
     posted       : SUBSET Cores]

TypeOK ==
    /\ d \in DaemonType
    /\ rows \in [Ids -> Peers \cup {NoPeer, NoRow}]
    /\ nextId \in 1..(MaxId + 1)
    /\ dialogs \subseteq [kind : DialogKinds, obj : Identities]
    /\ ready \in BOOLEAN
    /\ exited \in BOOLEAN
    /\ hurried \subseteq Identities
    /\ misjudged \subseteq Identities

Init ==
    /\ d = [life         |-> [o \in Objects |-> "none"],
            disposable   |-> {},
            auto         |-> [o \in Objects |-> TRUE],
            unused       |-> {},
            disposeTimer |-> FALSE,
            notifyTimer  |-> FALSE,
            published    |-> {},
            watched      |-> {},
            id           |-> [o \in Objects |-> NewId],
            cached       |-> {},
            info         |-> [i \in Identities |-> NoInfo],
            identityOf   |-> [n \in Ids |-> NoObject],
            coreOf       |-> [n \in Ids |-> NoObject],
            newCores     |-> {},
            parent       |-> [s \in Sessions |-> NoObject],
            queue        |-> [c \in Cores |-> <<>>],
            active       |-> {},
            posted       |-> {}]
    /\ rows = [n \in Ids |-> NoRow]
    /\ nextId = 1
    /\ dialogs = {}
    /\ ready \in IF "busy" \in Env THEN BOOLEAN ELSE {TRUE}
    /\ exited = FALSE
    /\ hurried = {} /\ misjudged = {}

-----------------------------------------------------------------------------
(* Access control. *)

isPeerOwnerOfIdentity(p, n) == rows[n] = p
HasOwner(n) == n # NewId /\ rows[n] \in Peers

\* Owners, those the access control list names, and anyone for an identity
\* nobody owns; a row that is gone has no owner.
isPeerAllowedToUseIdentity(p, n) ==
    HasOwner(n) => isPeerOwnerOfIdentity(p, n) \/ p \in Acl[n]

\* The keychain widget, which may do it too, is not among the peers.
mayRemove(p, n) == HasOwner(n) => isPeerOwnerOfIdentity(p, n)

-----------------------------------------------------------------------------
(* SignonDisposable. *)

\* The notification goes on while there are objects.
keepInUseHasty(e, o) == [e EXCEPT !.unused = @ \ {o}, !.disposeTimer = TRUE]

keepInUse(e, o) == [e EXCEPT !.unused = @ \ {o},
                             !.notifyTimer = FALSE,
                             !.disposeTimer = TRUE]

setAutoDestruct(e, o, value) == keepInUse([e EXCEPT !.auto[o] = value], o)

newDisposable(e, o) ==
    keepInUse([e EXCEPT !.life[o] = "alive", !.disposable = @ \cup {o}], o)

Free(o) == d.life[o] = "none"

\* SignonIdentity::destroy: off the bus at once, deleted by the main loop.
destroyIdentity(e, i) == [e EXCEPT !.life[i] = "condemned",
                                   !.published = @ \ {i}]

\* SignonSessionCore::destroy, for all of some cores: their entries go, and the
\* sessions with them.
destroyCores(e, cores) ==
    [e EXCEPT !.life     = [o \in Objects |-> IF o \in cores THEN "condemned" ELSE @[o]],
              !.coreOf   = [n \in Ids |-> IF \E c \in cores : e.id[c] = n THEN NoObject
                                                                     ELSE @[n]],
              !.newCores = {c \in @ : c \in cores => e.id[c] # NewId},
              !.parent   = [s \in Sessions |-> IF @[s] \in cores THEN NoObject ELSE @[s]]]

\* A core declines while a request is processed.
keepCoresInUse(e, cores) ==
    IF cores = {} THEN e
    ELSE [e EXCEPT !.unused = @ \ cores, !.notifyTimer = FALSE, !.disposeTimer = TRUE]

destroyIdentities(e, identities) ==
    [e EXCEPT !.life = [o \in Objects |-> IF o \in identities THEN "condemned" ELSE @[o]],
              !.published = @ \ identities]

destroy(e, objects) ==
    LET cores == objects \cap Cores
    IN  keepCoresInUse(destroyCores(destroyIdentities(e, objects \cap Identities),
                                    cores \ e.active), cores \cap e.active)

\* Whatever is not destroyed is forgotten all the same.
destroyAndForget(e, doomed) ==
    LET left == e.disposable \ doomed
    IN  [destroy(e, doomed) EXCEPT !.disposable = left,
                                   !.notifyTimer = IF left = {} THEN TRUE ELSE @]

Idle(e) == e.disposable \cap e.unused

\* Objects are not protected.
destroyUnusedAll(e) == destroyAndForget(e, Idle(e))

destroyUnused(e) == destroyAndForget(e, {o \in Idle(e) : e.auto[o]})

-----------------------------------------------------------------------------
(* The identities' cached information. *)

HasRow(n) == n # NewId /\ rows[n] # NoRow

\* db->credentials(m_id): an identity that is not there reads as a new one.
Loaded(n, queryPassword) == [id      |-> IF HasRow(n) THEN n ELSE NewId,
                             secret  |-> queryPassword /\ HasRow(n),
                             current |-> TRUE]

queryInfo(e, i, queryPassword) ==
    IF i \in e.cached /\ (queryPassword => e.info[i].secret) THEN e
    ELSE [e EXCEPT !.cached = @ \cup {i},
                   !.info[i] = Loaded(e.id[i], queryPassword)]

clearInfo(e, objects) ==
    [e EXCEPT !.cached = @ \ objects,
              !.info = [i \in Identities |-> IF i \in objects THEN NoInfo ELSE e.info[i]]]

\* The objects of the identity keep what they have cached of it.
credentialsUpdatedDeaf(e, n) ==
    [e EXCEPT !.info = [i \in Identities |->
        IF i \in e.cached /\ e.info[i].id = n THEN [e.info[i] EXCEPT !.current = FALSE]
                                             ELSE e.info[i]]]

\* CredentialsDB emits credentialsUpdated(n): its row may have changed.
credentialsUpdated(e, n) ==
    LET told  == clearInfo(e, {i \in Identities : e.life[i] # "none" /\ e.id[i] = n})
        stale == {i \in told.cached : told.info[i].id = n}
    IN  [told EXCEPT !.info = [i \in Identities |->
            IF i \in stale THEN [told.info[i] EXCEPT !.current = FALSE]
                           ELSE told.info[i]]]

-----------------------------------------------------------------------------
(* SignonDaemon. *)

createIdentity(e, i, n) == [newDisposable(e, i) EXCEPT !.id[i] = n]

\* The object's end is not heard of.
watchIdentityOnce(e, i) ==
    LET n == e.id[i] IN [e EXCEPT
        !.identityOf = IF n = NewId THEN @ ELSE [@ EXCEPT ![n] = i]]

\* From now on the object's end takes it out of m_storedIdentities.
watchIdentity(e, i) ==
    LET n == e.id[i] IN
    [e EXCEPT !.watched = @ \cup {i},
              !.identityOf = IF n = NewId THEN @ ELSE [@ EXCEPT ![n] = i]]

publish(e, i) == [e EXCEPT !.published = @ \cup {i}]

Unchanged == UNCHANGED <<rows, nextId, dialogs, ready, exited, history>>

registerNewIdentity ==
    \E i \in Identities :
       /\ Free(i)
       /\ d' = destroyUnused(publish(watchIdentity(createIdentity(d, i, NewId), i), i))
    /\ Unchanged

\* SignonDaemon::getIdentity finds or makes the object and loads its information.
Known(n) == d.identityOf[n] # NoObject

lookUp(i, n) == queryInfo(IF Known(n) THEN d ELSE createIdentity(d, i, n), i, FALSE)

\* The adaptor's; the object is destroyed again when it has no row to show.
getIdentity(p, n) ==
    /\ n < nextId \/ "unknown" \in Env
    /\ isPeerAllowedToUseIdentity(p, n)
    /\ \E i \in Identities :
          LET found == lookUp(i, n)
              gone  == found.info[i].id = NewId
          IN /\ IF Known(n) THEN i = d.identityOf[n] /\ ~Free(i) ELSE Free(i)
             /\ d' = IF gone THEN destroyIdentity(found, i)
                     ELSE destroyUnused(publish(watchIdentity(keepInUse(found, i), i), i))
             /\ misjudged' = IF gone \/ d.life[i] = "condemned"
                             THEN misjudged \cup {i} ELSE misjudged
    /\ UNCHANGED <<rows, nextId, dialogs, ready, exited, hurried>>

-----------------------------------------------------------------------------
(* The calls of an identity. *)

Callable(p, i) == i \in d.published /\ isPeerAllowedToUseIdentity(p, d.id[i])

\* The bound: one delayed reply of a kind for an object, MaxDialogs in all.
CanWait(i, kind) ==
    /\ [kind |-> kind, obj |-> i] \notin dialogs
    /\ Cardinality(dialogs) < MaxDialogs

Waits(i, kind) == dialogs' = dialogs \cup {[kind |-> kind, obj |-> i]}

getInfo(p, i) ==
    /\ Callable(p, i)
    /\ LET e == queryInfo(d, i, FALSE) IN
       d' = IF e.info[i].id = NewId THEN e ELSE keepInUse(e, i)
    /\ Unchanged

verifySecret(p, i) ==
    /\ Callable(p, i)
    /\ d' = keepInUse(queryInfo(d, i, TRUE), i)
    /\ Unchanged

\* addReference and removeReference.
changeReference(p, i) ==
    /\ Callable(p, i)
    /\ d' = keepInUse(d, i)
    /\ Unchanged

\* requestCredentialsUpdate and verifyUser: every identity stores a password.
queryUserPassword(p, i, kind) ==
    /\ Callable(p, i)
    /\ CanWait(i, kind)
    /\ LET e == queryInfo(d, i, kind = "verify") IN
       IF e.info[i].id = NewId
       THEN d' = e /\ UNCHANGED dialogs
       ELSE /\ d' = setAutoDestruct(e, i, FALSE)
            /\ Waits(i, kind)
    /\ UNCHANGED <<rows, nextId, ready, exited, history>>

remove(p, i) ==
    /\ i \in d.published
    /\ mayRemove(p, d.id[i])
    /\ CanWait(i, "remove")
    /\ rows' = IF HasRow(d.id[i]) THEN [rows EXCEPT ![d.id[i]] = NoRow] ELSE rows
    /\ d' = setAutoDestruct(d, i, FALSE)
    /\ Waits(i, "remove")
    /\ UNCHANGED <<nextId, ready, exited, history>>

signOut(p, i) ==
    /\ Callable(p, i)
    /\ CanWait(i, "signOut")
    /\ IF d.id[i] = NewId
       THEN d' = keepInUse(d, i) /\ UNCHANGED dialogs
       ELSE /\ d' = setAutoDestruct(d, i, FALSE)
            /\ Waits(i, "signOut")
    /\ UNCHANGED <<rows, nextId, ready, exited, history>>

\* A new row, or the row the information is of; if that one is gone the update
\* finds nothing to change, and succeeds.
Insert(owner) == /\ nextId <= MaxId
                 /\ rows' = [rows EXCEPT ![nextId] = owner]
                 /\ nextId' = nextId + 1

\* The object is not entered under the id it has been given.
storeUnlisted(p, i, n) ==
    /\ i \in d.published
    /\ n # NewId => mayRemove(p, d.id[i])
    /\ n # d.id[i] => n = NewId /\ ~HasRow(d.id[i])
    /\ d.id[i] = NewId
    /\ LET infoId == IF i \in d.cached THEN d.info[i].id ELSE n
           told   == clearInfo(credentialsUpdated(keepInUse(d, i), nextId), {i})
       IN /\ infoId = NewId
          /\ Insert(p)
          /\ d' = [told EXCEPT !.id[i] = nextId]
    /\ UNCHANGED <<dialogs, ready, exited, history>>

\* SignonIdentity::store and storeCredentials; n is the id the client knows.
store(p, i, n) ==
    /\ i \in d.published
    /\ n # NewId => mayRemove(p, d.id[i])
    /\ n # d.id[i] => n = NewId /\ ~HasRow(d.id[i])
    /\ d.id[i] # NewId /\ ~HasRow(d.id[i]) => "again" \in Env
    /\ \E ok \in IF "fail" \in Env THEN BOOLEAN ELSE {TRUE} :
          LET used   == keepInUse(d, i)
              infoId == IF i \in d.cached THEN d.info[i].id ELSE n
              id     == IF infoId = NewId THEN nextId ELSE d.id[i]
              told   == clearInfo(credentialsUpdated(used, IF infoId = NewId THEN nextId
                                                                             ELSE infoId), {i})
          IN IF ~ok
             THEN /\ d' = [used EXCEPT !.cached = @ \cup {i},
                                       !.info[i] = [id |-> infoId, secret |-> TRUE,
                                                    current |-> FALSE]]
                  /\ UNCHANGED <<rows, nextId>>
             ELSE /\ IF infoId = NewId THEN Insert(p)
                     ELSE /\ rows' = IF HasRow(infoId) THEN [rows EXCEPT ![infoId] = p]
                                                       ELSE rows
                          /\ UNCHANGED nextId
                  /\ d' = [told EXCEPT !.id[i] = id, !.identityOf[id] = i]
    /\ UNCHANGED <<dialogs, ready, exited, history>>

Others(call) == {other \in dialogs \ {call} : other.obj = call.obj}

Answered(call) ==
    /\ dialogs' = dialogs \ {call}
    /\ hurried' = IF Others(call) = {} THEN hurried ELSE hurried \cup {call.obj}
    /\ UNCHANGED <<ready, exited, misjudged>>

\* removeCompleted and signOutCompleted.
removalCompleted(call) ==
    /\ call.kind \in {"remove", "signOut"}
    /\ d' = setAutoDestruct(d, call.obj, TRUE)
    /\ UNCHANGED <<rows, nextId>>
    /\ Answered(call)

\* queryUiSlot: the password, if one was given, goes to the database with all
\* the object has cached of the identity by now.
queryUiSlot(call) ==
    /\ call.kind = "update"
    /\ LET i == call.obj
           e == setAutoDestruct(d, i, TRUE)
       IN \/ d' = e /\ UNCHANGED <<rows, nextId>>
          \/ /\ i \in d.cached
             /\ IF d.info[i].id = NewId
                THEN Insert(NoPeer) /\ d' = clearInfo(e, {i})
                ELSE /\ d' = clearInfo(credentialsUpdated(e, d.info[i].id), {i})
                     /\ UNCHANGED <<rows, nextId>>
    /\ Answered(call)

\* verifyUiSlot; a wrong password may be asked for again.
verifyUiSlot(call) ==
    /\ call.kind = "verify"
    /\ UNCHANGED <<rows, nextId>>
    /\ LET e == setAutoDestruct(d, call.obj, TRUE) IN
       \/ d' = e /\ Answered(call)
       \/ call.obj \in d.cached /\ d' = clearInfo(e, {call.obj}) /\ Answered(call)
       \/ /\ call.obj \in d.cached
          /\ d' = setAutoDestruct(d, call.obj, FALSE)
          /\ UNCHANGED <<dialogs, ready, exited, history>>

-----------------------------------------------------------------------------
(* Authentication sessions and the cores that serve them. *)

Open(s) == d.parent[s] # NoObject

\* sessionCore: a core is shared by the sessions of a stored identity.
CoresFor(e, n) == IF n # NewId /\ e.coreOf[n] # NoObject
                  THEN {e.coreOf[n]} ELSE {c \in Cores : e.life[c] = "none"}

sessionCore(e, n, c) ==
    IF e.life[c] # "none" THEN e
    ELSE [newDisposable(e, c) EXCEPT
             !.id[c] = n,
             !.coreOf = IF n = NewId THEN @ ELSE [@ EXCEPT ![n] = c],
             !.newCores = IF n = NewId THEN @ \cup {c} ELSE @]

\* SignonSessionCore::childEvent: of its sessions and its pending dialog
childAdded(e, c) == keepInUse(e, c)
childRemoved(e)  == destroyUnused(e)

createAuthSession(e, n, s, c) ==
    childAdded([sessionCore(e, n, c) EXCEPT !.parent[s] = c], c)

Unserved(s) == ~Open(s) /\ \A c \in Cores : s \notin Range(d.queue[c])

\* getAuthSessionObjectPath
getAuthSession(p, n) ==
    /\ isPeerAllowedToUseIdentity(p, n)
    /\ \E s \in Sessions : \E c \in CoresFor(destroyUnused(d), n) :
          Unserved(s) /\ d' = createAuthSession(destroyUnused(d), n, s, c)
    /\ Unchanged

\* A session that had to be asked for is made when the access manager agrees.
onAuthSessionAccessReplyFinished(p, n) ==
    /\ isPeerAllowedToUseIdentity(p, n)
    /\ \E s \in Sessions : \E c \in CoresFor(d, n) :
          Unserved(s) /\ d' = destroyUnused(createAuthSession(d, n, s, c))
    /\ Unchanged

\* A method without plugin: its core is deleted as soon as it is made.
getAuthSessionUnknown ==
    /\ "unknown" \in Env
    /\ d' = [destroyUnused(d) EXCEPT !.notifyTimer = FALSE, !.disposeTimer = TRUE]
    /\ Unchanged

PostStart(e, c) == [e EXCEPT !.posted = @ \cup {c}]

\* process(), of which a session has one in the queue at a time.
process(s) ==
    /\ Open(s)
    /\ LET c == d.parent[s]
           e == [keepInUse(d, c) EXCEPT !.queue[c] = Append(@, s)]
       IN /\ s \notin Range(d.queue[c])
          /\ d' = IF ready THEN PostStart(e, c) ELSE e
    /\ Unchanged

\* The request is dropped, unless the plugin works on it.
WithoutRequest(e, s) ==
    LET c     == e.parent[s]
        index == {k \in DOMAIN e.queue[c] : e.queue[c][k] = s}
    IN IF index = {} \/ (c \in e.active /\ Head(e.queue[c]) = s) THEN e
       ELSE [e EXCEPT !.queue[c] = RemoveAt(@, CHOOSE k \in index : TRUE)]

\* The dialog of a request the plugin works on goes.
CancelOf(s) ==
    IF d.parent[s] \in d.active /\ Head(d.queue[d.parent[s]]) = s
    THEN {d, childRemoved(d)} ELSE {WithoutRequest(d, s)}

cancel(s) ==
    /\ Open(s)
    /\ s \in Range(d.queue[d.parent[s]])
    /\ d' \in CancelOf(s)
    /\ Unchanged

\* objectUnref: the session goes, its core stays.
objectUnref(s) ==
    /\ Open(s)
    /\ \E e \in CancelOf(s) : d' = childRemoved([e EXCEPT !.parent[s] = NoObject])
    /\ Unchanged

queryAvailableMechanisms(s) ==
    /\ Open(s)
    /\ d' = keepInUse(d, d.parent[s])
    /\ Unchanged

\* SignonSessionCore::setId
setId(p, s, n) ==
    /\ Open(s)
    /\ isPeerAllowedToUseIdentity(p, n)
    /\ LET c == d.parent[s]
           e == keepInUse(d, c)
           m == d.id[c]
       IN /\ m \notin {n, NewId} /\ n # NewId => "rekey" \in Env
          /\ d' = CASE m = n -> e
                    [] m # n /\ n = NewId ->
                          [e EXCEPT !.coreOf[m] = NoObject,
                                    !.newCores = (@ \cup {d.coreOf[m]}) \ {NoObject},
                                    !.id[c] = NewId]
                    [] m # n /\ n # NewId ->
                          IF d.coreOf[n] # NoObject THEN e
                          ELSE [e EXCEPT !.coreOf[n] = c,
                                         !.newCores = @ \ {c},
                                         !.id[c] = n]
    /\ Unchanged

\* The protection is not given up when there is nothing left to do.
startNewRequestKept(c) ==
    /\ c \in d.posted
    /\ LET e == [d EXCEPT !.posted = @ \ {c}] IN
       d' = CASE d.queue[c] = <<>> -> keepInUse(e, c)
              [] d.queue[c] # <<>> /\ c \in d.active -> keepInUse(e, c)
              [] OTHER -> setAutoDestruct([e EXCEPT !.active = @ \cup {c}], c, FALSE)
    /\ Unchanged

startNewRequest(c) ==
    /\ c \in d.posted
    /\ LET e == [d EXCEPT !.posted = @ \ {c}] IN
       d' = CASE d.queue[c] = <<>> -> setAutoDestruct(e, c, TRUE)
              [] d.queue[c] # <<>> /\ c \in d.active -> keepInUse(e, c)
              [] OTHER -> setAutoDestruct([e EXCEPT !.active = @ \cup {c}], c, FALSE)
    /\ Unchanged

\* processResultReply and processError; a result is stored with the identity,
\* and a dialog that is left is closed.
requestDone(c) ==
    /\ c \in d.active
    /\ \E e \in {keepInUse(d, c), childRemoved(keepInUse(d, c))} :
          LET f == PostStart([e EXCEPT !.active = @ \ {c}, !.queue[c] = Tail(@)], c) IN
          \/ d' = f
          \/ HasRow(d.id[c]) /\ d' = credentialsUpdated(f, d.id[c])
    /\ Unchanged

\* What else the plugin and signon-ui say while a request is processed: dialogs
\* come and go.
useCore(c) ==
    /\ c \in d.active
    /\ d' \in {keepInUse(d, c), childRemoved(keepInUse(d, c))}
    /\ Unchanged

\* The requests that wait for it are not looked at.
credentialsSystemReadyUnheard ==
    /\ ~ready
    /\ ready' = TRUE
    /\ UNCHANGED <<d, rows, nextId, dialogs, exited, history>>

credentialsSystemReady ==
    /\ ~ready
    /\ ready' = TRUE
    /\ d' = [d EXCEPT !.posted = @ \cup {c \in Cores : ~Free(c)}]
    /\ UNCHANGED <<rows, nextId, dialogs, exited, history>>

-----------------------------------------------------------------------------
(* The main loop: deferred deletions and timers. *)

Condemned == {o \in Objects : d.life[o] = "condemned"}
Quiet == Condemned = {} /\ d.posted = {}

\* ~SignonDisposable, after the object's own destructor.
Deleted(e, o) == [e EXCEPT !.life[o] = "none",
                           !.disposable = @ \ {o},
                           !.unused = @ \ {o},
                           !.auto[o] = TRUE,
                           !.id[o] = NewId]

\* The dialogs of an identity are its children and go with it.
deleteIdentity(i) ==
    /\ d.life[i] = "condemned"
    /\ LET n == d.id[i]
           e == [Deleted(clearInfo(d, {i}), i) EXCEPT !.published = @ \ {i},
                                                      !.watched = @ \ {i}]
       IN d' = IF i \in d.watched /\ n # NewId THEN [e EXCEPT !.identityOf[n] = NoObject]
                                              ELSE e
    /\ dialogs' = {call \in dialogs : call.obj # i}
    /\ hurried' = hurried \ {i}
    /\ misjudged' = misjudged \ {i}
    /\ UNCHANGED <<rows, nextId, ready, exited>>

\* The requests that still wait go unanswered.
deleteCore(c) ==
    /\ d.life[c] = "condemned"
    /\ d' = [Deleted(d, c) EXCEPT !.queue[c] = <<>>,
                                !.active = @ \ {c},
                                !.posted = @ \ {c}]
    /\ Unchanged

\* Longer than the maximum inactivity passes with no call.
timePasses ==
    /\ Quiet
    /\ d' = [d EXCEPT !.unused = {o \in Objects : d.life[o] = "alive"}]
    /\ Unchanged

\* disposeTimer is connected to every object there is, and to nothing else.
disposeTimeout ==
    /\ Quiet
    /\ d.disposeTimer
    /\ LET all == {o \in Objects : d.life[o] = "alive"}
           e   == [d EXCEPT !.unused = all, !.disposeTimer = FALSE]
       IN d' = IF all = {} THEN e ELSE destroyUnused(e)
    /\ Unchanged

notifyTimeout ==
    /\ Quiet
    /\ d.notifyTimer
    /\ exited' = TRUE
    /\ d' = [d EXCEPT !.notifyTimer = FALSE]
    /\ UNCHANGED <<rows, nextId, dialogs, ready, history>>

-----------------------------------------------------------------------------
IdentityCall ==
    \/ registerNewIdentity
    \/ \E p \in Peers, n \in Ids : getIdentity(p, n)
    \/ \E p \in Peers, i \in Identities :
          \/ getInfo(p, i)
          \/ verifySecret(p, i)
          \/ changeReference(p, i)
          \/ \E kind \in {"update", "verify"} : queryUserPassword(p, i, kind)
          \/ remove(p, i)
          \/ signOut(p, i)
          \/ \E n \in Ids \cup {NewId} : store(p, i, n)

SessionCall ==
    \/ \E p \in Peers, n \in Ids \cup {NewId} : getAuthSession(p, n)
    \/ \E p \in Peers, n \in Ids : onAuthSessionAccessReplyFinished(p, n)
    \/ getAuthSessionUnknown
    \/ \E s \in Sessions :
          \/ process(s)
          \/ cancel(s)
          \/ objectUnref(s)
          \/ queryAvailableMechanisms(s)
          \/ \E p \in Peers, n \in Ids \cup {NewId} : setId(p, s, n)

uiAnswers == \E call \in dialogs : \/ removalCompleted(call)
                                  \/ queryUiSlot(call)
                                  \/ verifyUiSlot(call)

CoreStep == \E c \in Cores : \/ startNewRequest(c)
                            \/ requestDone(c)
                            \/ useCore(c)

LoopStep ==
    \/ \E i \in Identities : deleteIdentity(i)
    \/ \E c \in Cores : deleteCore(c)
    \/ timePasses
    \/ disposeTimeout
    \/ notifyTimeout

ClientStep == ~exited /\ (IdentityCall \/ SessionCall)

Next == /\ ~exited
        /\ \/ IdentityCall
           \/ SessionCall
           \/ uiAnswers
           \/ CoreStep
           \/ credentialsSystemReady
           \/ LoopStep

Spec == Init /\ [][Next]_vars

\* The main loop runs, plugins answer, and so does the user signon-ui asks.
FairSpec ==
    /\ Spec
    /\ WF_vars(~exited /\ uiAnswers)
    /\ WF_vars(~exited /\ disposeTimeout)
    /\ \A i \in Identities : WF_vars(~exited /\ deleteIdentity(i))
    /\ \A c \in Cores : /\ WF_vars(~exited /\ deleteCore(c))
                        /\ WF_vars(~exited /\ startNewRequest(c))
                        /\ WF_vars(~exited /\ requestDone(c))

-----------------------------------------------------------------------------
(* Properties. *)

\* Every table entry is an object that exists and serves that very identity:
\* destruction is in two steps, and the tables are keyed by ids that change.
TablesNameLiveObjects ==
    \A n \in Ids :
       /\ d.identityOf[n] # NoObject =>
             d.life[d.identityOf[n]] # "none" /\ d.id[d.identityOf[n]] = n
       /\ d.coreOf[n] # NoObject =>
             d.life[d.coreOf[n]] = "alive" /\ d.id[d.coreOf[n]] = n

\* All clients of an identity share one object, and all its authentication
\* requests one queue: a second object on the bus would miss the first one's
\* signals, and a second core would run the plugin in parallel.
OneObjectPerIdentity ==
    \A n \in Ids :
       /\ \A i, j \in d.published : d.id[i] = n /\ d.id[j] = n => i = j
       /\ \A b, c \in Cores :
             d.life[b] = "alive" /\ d.life[c] = "alive" /\ d.id[b] = n /\ d.id[c] = n
                => b = c

\* What an identity object has cached is what the database holds, as long as
\* the identity is there: clients, dialogs and plugins change it behind it.
CachedInfoIsCurrent ==
    \A i \in d.cached \cap d.published : HasRow(d.id[i]) => d.info[i].id = d.id[i] /\ d.info[i].current

\* No identity is deleted under a client that waits for a dialog of it: as long
\* as getIdentity() has not destroyed it or handed it out condemned, and no other
\* dialog of it has ended first and given up the protection of all.
NoDialogLost ==
    [][\A call \in dialogs :
          d.life[call.obj] # "none" /\ d'.life[call.obj] = "none"
             => call.obj \in hurried \cup misjudged]_vars

\* No core is disposed of with requests in its queue, unless they wait for the
\* key managers, whose report at best is on its way.
NoRequestLost ==
    [][\A c \in Cores :
          d.life[c] = "alive" /\ d'.life[c] = "condemned" /\ d.queue[c] # <<>>
             => ~ready \/ c \in d.posted]_vars

\* The daemon ends only when no client waits for anything and every object is gone.
EndsUnused == exited => /\ dialogs = {}
                        /\ \A o \in Objects : d.life[o] = "none"

\* Once clients and users do nothing more, every object is disposed of: whatever
\* was in progress, something gives up its protection and starts the timer.
NothingKept ==
    \/ []<><<ClientStep \/ uiAnswers>>_vars
    \/ <>[](\A o \in Objects : d.life[o] = "none")

=============================================================================
