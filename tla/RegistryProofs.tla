--------------------------- MODULE RegistryProofs ---------------------------
(***************************************************************************)
(* Theorems about Registry, for any number of objects, sessions, peers and *)
(* identities.  Each names what it assumes of the environment.             *)
(***************************************************************************)
EXTENDS Registry, TLAPS

\* No object is given another id: neither an identity's whose row was removed
\* nor a core's that has one.
NoRenaming == "again" \notin Env
NoRekey    == "rekey" \notin Env

StoringSucceeds == "fail" \notin Env

-----------------------------------------------------------------------------
(* The invariant, of the daemon's record e and of w, what the other variables *)
(* are.                                                                       *)

World == [rows |-> rows, nextId |-> nextId, dialogs |-> dialogs, ready |-> ready,
          misjudged |-> misjudged, kept |-> hurried \cup misjudged]

Fields == {"life", "disposable", "auto", "unused", "disposeTimer", "notifyTimer",
           "published", "watched", "id", "cached", "info", "identityOf", "coreOf",
           "newCores", "parent", "queue", "active", "posted"}

Lives == {"none", "alive", "condemned"}

Shape(e) ==
    /\ DOMAIN e = Fields
    /\ e.life \in [Objects -> Lives]
    /\ e.auto \in [Objects -> BOOLEAN]
    /\ e.id \in [Objects -> Ids \cup {NewId}]
    /\ e.info = [i \in Identities |-> e.info[i]]
    /\ e.identityOf \in [Ids -> Identities \cup {NoObject}]
    /\ e.coreOf \in [Ids -> Cores \cup {NoObject}]
    /\ e.parent \in [Sessions -> Cores \cup {NoObject}]
    /\ e.queue \in [Cores -> Seq(Sessions)]
    /\ e.watched \subseteq Identities
    /\ e.cached \subseteq Identities
    /\ e.active \subseteq Cores
    /\ e.disposable \subseteq Objects

RowIn(r, n) == n # NewId /\ r[n] # NoRow

RowsGiven(w) ==
    /\ w.nextId \in Nat \ {0}
    /\ DOMAIN w.rows = Ids
    /\ \A n \in Ids : w.rows[n] # NoRow => n < w.nextId

\* What is published is watched; an object that is gone has left nothing behind.
IdentitiesInv(e) ==
    /\ e.published \subseteq e.watched
    /\ \A i \in e.watched : e.life[i] # "none"
    /\ \A i \in e.cached : e.life[i] # "none" /\ e.info[i].id \in {NewId, e.id[i]}

\* m_storedIdentities is the inverse of the ids of the objects that are watched,
\* and what they have cached is of the row there is.
TableInv(e, w) ==
    /\ \A n \in Ids : e.identityOf[n] # NoObject =>
          e.identityOf[n] \in e.watched /\ e.id[e.identityOf[n]] = n
    /\ \A i \in e.watched : e.id[i] # NewId =>
          e.identityOf[e.id[i]] = i /\ e.id[i] < w.nextId
    /\ \A i \in e.watched \cap e.cached :
          RowIn(w.rows, e.id[i]) => e.info[i].id = e.id[i]

CacheInv(e) == \A i \in e.cached : e.info[i].current

\* Sessions have a live core, and no core is disposed of twice.
CoresInv(e) ==
    /\ NoRekey => \A s \in Sessions : e.parent[s] # NoObject => e.life[e.parent[s]] = "alive"
    /\ \A c \in Cores \cap e.disposable : e.life[c] = "alive"

\* sessionsOfStoredCredentials is the inverse of the ids of the live cores.
CoreTableInv(e) ==
    \A n \in Ids, c \in Cores :
       e.coreOf[n] = c <=> e.life[c] = "alive" /\ e.id[c] = n

\* No live object is forgotten, because none that would decline is disposed of:
\* a core that works on a request is protected.
DisposalInv(e) ==
    /\ \A o \in Objects : e.life[o] = "alive" => o \in e.disposable
    /\ e.notifyTimer => e.disposable = {}
    /\ \A c \in e.active : ~e.auto[c] /\ e.queue[c] # <<>>

\* An object with a dialog is protected, unless the history says otherwise.
DialogsInv(e, w) ==
    /\ w.misjudged \subseteq w.kept
    /\ \A i \in e.published : e.life[i] = "alive" \/ i \in w.misjudged
    /\ \A call \in w.dialogs :
          /\ call.obj \in Identities
          /\ e.life[call.obj] # "none"
          /\ call.obj \in w.kept \/ (e.life[call.obj] = "alive" /\ ~e.auto[call.obj])

\* A core with requests is protected, or about to be, or waits for the key
\* managers.
QueuesInv(e, w) ==
    NoRekey => \A c \in Cores :
       /\ e.life[c] = "none" => e.queue[c] = <<>>
       /\ e.queue[c] # <<>> => ~w.ready \/ c \in e.posted \/ ~e.auto[c]

Inv(e, w) ==
    /\ Shape(e)
    /\ RowsGiven(w)
    /\ IdentitiesInv(e)
    /\ NoRenaming => TableInv(e, w)
    /\ StoringSucceeds => CacheInv(e)
    /\ CoresInv(e)
    /\ NoRekey => CoreTableInv(e)
    /\ DisposalInv(e)
    /\ DialogsInv(e, w)
    /\ QueuesInv(e, w)

\* t is e but for the fields X.
Differ(e, t, X) == DOMAIN t = Fields /\ \A f \in Fields \ X : t[f] = e[f]

-----------------------------------------------------------------------------
(* What does not touch the invariant. *)

Timers == {"unused", "disposeTimer", "notifyTimer", "newCores"}

LEMMA TimersOnly ==
  ASSUME NEW e, NEW w, Inv(e, w), NEW t, Differ(e, t, Timers),
         t.notifyTimer => e.notifyTimer
  PROVE  Inv(t, w)
<1>1. /\ DOMAIN t = Fields
      /\ t.life = e.life /\ t.disposable = e.disposable /\ t.auto = e.auto
      /\ t.published = e.published /\ t.watched = e.watched /\ t.id = e.id
      /\ t.cached = e.cached /\ t.info = e.info /\ t.identityOf = e.identityOf
      /\ t.coreOf = e.coreOf /\ t.parent = e.parent /\ t.queue = e.queue
      /\ t.active = e.active /\ t.posted = e.posted
  BY DEF Differ, Fields, Timers
<1>2. Shape(t) /\ RowsGiven(w)
  BY <1>1 DEF Inv, Shape
<1>3. IdentitiesInv(t) /\ CoresInv(t) /\ DisposalInv(t)
  BY <1>1 DEF Inv, IdentitiesInv, CoresInv, DisposalInv
<1>4. /\ NoRenaming => TableInv(t, w)
      /\ StoringSucceeds => CacheInv(t)
      /\ NoRekey => CoreTableInv(t)
  BY <1>1 DEF Inv, TableInv, CacheInv, CoreTableInv
<1>5. DialogsInv(t, w) /\ QueuesInv(t, w)
  BY <1>1 DEF Inv, DialogsInv, QueuesInv
<1> QED
  BY <1>2, <1>3, <1>4, <1>5 DEF Inv

LEMMA KeepInUse ==
  ASSUME NEW e, NEW w, Inv(e, w), NEW o
  PROVE  LET t == keepInUse(e, o) IN Inv(t, w) /\ Differ(e, t, Timers)
<1> DEFINE t == keepInUse(e, o)
<1>1. DOMAIN e = Fields
  BY DEF Inv, Shape
<1>2. Differ(e, t, Timers) /\ ~t.notifyTimer
  BY <1>1 DEF keepInUse, Differ, Fields, Timers
<1> HIDE DEF t
<1>3. Inv(t, w)
  BY <1>2, TimersOnly
<1> QED
  BY <1>2, <1>3 DEF t

\* setAutoDestruct(): the protection of a core is given up when it has no
\* requests, that of an identity when no dialog relies on it.
LEMMA SetAutoDestruct ==
  ASSUME NEW e, NEW w, Inv(e, w), NEW o \in Objects, NEW value \in BOOLEAN,
         value /\ o \in Cores => e.queue[o] = <<>>,
         value => \A call \in w.dialogs : call.obj = o => o \in w.kept
  PROVE  LET t == setAutoDestruct(e, o, value) IN
         /\ Inv(t, w)
         /\ Differ(e, t, Timers \cup {"auto"})
         /\ t.auto[o] = value
<1> DEFINE a == [e EXCEPT !.auto[o] = value]
           t == setAutoDestruct(e, o, value)
<1>1. DOMAIN e = Fields /\ DOMAIN e.auto = Objects
  BY DEF Inv, Shape
<1>2. /\ Differ(e, a, {"auto"})
      /\ a.auto = [e.auto EXCEPT ![o] = value]
  BY <1>1 DEF Differ, Fields
<1>3. t = keepInUse(a, o)
  BY DEF setAutoDestruct
<1> HIDE DEF a
<1>4. /\ DOMAIN a = Fields
      /\ a.life = e.life /\ a.disposable = e.disposable /\ a.notifyTimer = e.notifyTimer
      /\ a.published = e.published /\ a.watched = e.watched /\ a.id = e.id
      /\ a.cached = e.cached /\ a.info = e.info /\ a.identityOf = e.identityOf
      /\ a.coreOf = e.coreOf /\ a.parent = e.parent /\ a.queue = e.queue
      /\ a.active = e.active /\ a.posted = e.posted
  BY <1>2 DEF Differ, Fields
<1>5. /\ a.auto \in [Objects -> BOOLEAN]
      /\ a.auto[o] = value
      /\ \A p \in Objects : p # o => a.auto[p] = e.auto[p]
  BY <1>2 DEF Inv, Shape
<1>6. Shape(a) /\ RowsGiven(w)
  BY <1>4, <1>5 DEF Inv, Shape
<1>7. IdentitiesInv(a) /\ CoresInv(a)
  BY <1>4 DEF Inv, IdentitiesInv, CoresInv
<1>8. /\ NoRenaming => TableInv(a, w)
      /\ StoringSucceeds => CacheInv(a)
      /\ NoRekey => CoreTableInv(a)
  BY <1>4 DEF Inv, TableInv, CacheInv, CoreTableInv
<1>9. DisposalInv(a)
  BY <1>4, <1>5 DEF Inv, DisposalInv, Shape, Objects
<1>10. DialogsInv(a, w)
  BY <1>4, <1>5 DEF Inv, DialogsInv, Objects
<1>11. QueuesInv(a, w)
  BY <1>4, <1>5 DEF Inv, QueuesInv, Objects
<1>12. Inv(a, w)
  BY <1>6, <1>7, <1>8, <1>9, <1>10, <1>11 DEF Inv
<1>13. Inv(t, w) /\ Differ(a, t, Timers)
  BY <1>3, <1>12, KeepInUse
<1> HIDE DEF t
<1>14. Differ(e, t, Timers \cup {"auto"}) /\ t.auto = a.auto
  BY <1>2, <1>13 DEF Differ, Fields, Timers
<1> QED
  BY <1>5, <1>13, <1>14 DEF t

-----------------------------------------------------------------------------
(* What changes outside the record. *)

\* Rows go, and come under the next id only.
RowsChange(w, x) ==
    /\ x.nextId \in Nat \ {0} /\ x.nextId >= w.nextId
    /\ DOMAIN x.rows = Ids
    /\ \A n \in Ids : x.rows[n] # NoRow =>
          w.rows[n] # NoRow \/ (n = w.nextId /\ x.nextId > n)

LEMMA RowsStep ==
  ASSUME NEW e, NEW w, Inv(e, w), NEW x, RowsChange(w, x),
         x.dialogs = w.dialogs, x.ready = w.ready, x.misjudged = w.misjudged,
         x.kept = w.kept
  PROVE  Inv(e, x)
<1>1. RowsGiven(x)
  BY RegistryAssumption DEF Inv, RowsGiven, RowsChange, Ids
<1>2. ASSUME NoRenaming
      PROVE  TableInv(e, x)
  <2>1. TableInv(e, w) /\ Shape(e) /\ w.nextId \in Nat
    BY <1>2 DEF Inv, RowsGiven
  <2>2. ASSUME NEW i \in e.watched, e.id[i] # NewId
        PROVE  e.id[i] \in Nat /\ e.id[i] < w.nextId /\ e.id[i] \in Ids
    BY <2>1, <2>2, RegistryAssumption DEF TableInv, Shape, Objects, Ids
  <2>3. ASSUME NEW i \in e.watched \cap e.cached, RowIn(x.rows, e.id[i])
        PROVE  RowIn(w.rows, e.id[i])
    BY <2>2, <2>3 DEF RowIn, RowsChange
  <2> QED
    BY <2>1, <2>2, <2>3 DEF TableInv, RowsChange
<1>3. DialogsInv(e, x) /\ QueuesInv(e, x)
  BY DEF Inv, DialogsInv, QueuesInv
<1> QED
  BY <1>1, <1>2, <1>3 DEF Inv

\* Dialogs end, and the history remembers more.
LEMMA DialogsEnd ==
  ASSUME NEW e, NEW w, Inv(e, w), NEW x,
         x.rows = w.rows, x.nextId = w.nextId, x.ready = w.ready,
         x.dialogs \subseteq w.dialogs,
         w.misjudged \subseteq x.misjudged, w.kept \subseteq x.kept,
         x.misjudged \subseteq x.kept
  PROVE  Inv(e, x)
<1>1. RowsGiven(x)
  BY DEF Inv, RowsGiven
<1>2. NoRenaming => TableInv(e, x)
  BY DEF Inv, TableInv
<1>3. DialogsInv(e, x) /\ QueuesInv(e, x)
  BY DEF Inv, DialogsInv, QueuesInv
<1> QED
  BY <1>1, <1>2, <1>3 DEF Inv

LEMMA DialogOpens ==
  ASSUME NEW e, NEW w, Inv(e, w), NEW x,
         x.rows = w.rows, x.nextId = w.nextId, x.ready = w.ready,
         x.misjudged = w.misjudged, x.kept = w.kept,
         NEW call, call.obj \in e.published, ~e.auto[call.obj],
         x.dialogs = w.dialogs \cup {call}
  PROVE  Inv(e, x)
<1>1. RowsGiven(x)
  BY DEF Inv, RowsGiven
<1>2. NoRenaming => TableInv(e, x)
  BY DEF Inv, TableInv
<1>3. call.obj \in Identities /\ e.life[call.obj] # "none"
  BY DEF Inv, Shape, IdentitiesInv
<1>4. DialogsInv(e, x) /\ QueuesInv(e, x)
  BY <1>3 DEF Inv, DialogsInv, QueuesInv
<1> QED
  BY <1>1, <1>2, <1>4 DEF Inv

-----------------------------------------------------------------------------
(* What identities have cached. *)

LEMMA CacheShrinks ==
  ASSUME NEW e, NEW w, Inv(e, w), NEW t, Differ(e, t, {"cached", "info"}),
         t.cached \subseteq e.cached,
         t.info = [i \in Identities |-> t.info[i]],
         \A i \in t.cached : t.info[i] = e.info[i]
  PROVE  Inv(t, w)
<1>1. /\ DOMAIN t = Fields
      /\ t.life = e.life /\ t.disposable = e.disposable /\ t.auto = e.auto
      /\ t.notifyTimer = e.notifyTimer
      /\ t.published = e.published /\ t.watched = e.watched /\ t.id = e.id
      /\ t.identityOf = e.identityOf
      /\ t.coreOf = e.coreOf /\ t.parent = e.parent /\ t.queue = e.queue
      /\ t.active = e.active /\ t.posted = e.posted
  BY DEF Differ, Fields
<1>2. Shape(t) /\ RowsGiven(w)
  BY <1>1 DEF Inv, Shape
<1>3. IdentitiesInv(t) /\ CoresInv(t) /\ DisposalInv(t)
  BY <1>1 DEF Inv, IdentitiesInv, CoresInv, DisposalInv
<1>4. /\ NoRenaming => TableInv(t, w)
      /\ StoringSucceeds => CacheInv(t)
      /\ NoRekey => CoreTableInv(t)
  BY <1>1 DEF Inv, TableInv, CacheInv, CoreTableInv
<1>5. DialogsInv(t, w) /\ QueuesInv(t, w)
  BY <1>1 DEF Inv, DialogsInv, QueuesInv
<1> QED
  BY <1>2, <1>3, <1>4, <1>5 DEF Inv

\* Something is cached of i: what the row holds, if that is needed.
LEMMA CacheGrows ==
  ASSUME NEW e, NEW w, Inv(e, w), NEW t, Differ(e, t, {"cached", "info"}),
         NEW i \in Identities, e.life[i] # "none",
         t.cached = e.cached \cup {i},
         NEW info, t.info = [e.info EXCEPT ![i] = info],
         info.id \in {NewId, e.id[i]},
         NoRenaming /\ i \in e.watched /\ RowIn(w.rows, e.id[i]) => info.id = e.id[i],
         StoringSucceeds => info.current
  PROVE  Inv(t, w)
<1>1. /\ DOMAIN t = Fields
      /\ t.life = e.life /\ t.disposable = e.disposable /\ t.auto = e.auto
      /\ t.notifyTimer = e.notifyTimer
      /\ t.published = e.published /\ t.watched = e.watched /\ t.id = e.id
      /\ t.identityOf = e.identityOf
      /\ t.coreOf = e.coreOf /\ t.parent = e.parent /\ t.queue = e.queue
      /\ t.active = e.active /\ t.posted = e.posted
  BY DEF Differ, Fields
<1>2. /\ t.info = [j \in Identities |-> t.info[j]]
      /\ t.info[i] = info
      /\ \A j \in Identities : j # i => t.info[j] = e.info[j]
  BY DEF Inv, Shape
<1>3. Shape(t) /\ RowsGiven(w)
  BY <1>1, <1>2 DEF Inv, Shape
<1>4. e.watched \subseteq Identities /\ e.cached \subseteq Identities
  BY DEF Inv, Shape
<1>5. IdentitiesInv(t)
  BY <1>1, <1>2, <1>4 DEF Inv, IdentitiesInv
<1>6. CoresInv(t) /\ DisposalInv(t)
  BY <1>1 DEF Inv, CoresInv, DisposalInv
<1>7. NoRenaming => TableInv(t, w)
  BY <1>1, <1>2, <1>4 DEF Inv, TableInv
<1>8. /\ StoringSucceeds => CacheInv(t)
      /\ NoRekey => CoreTableInv(t)
  BY <1>1, <1>2, <1>4 DEF Inv, CacheInv, CoreTableInv
<1>9. DialogsInv(t, w) /\ QueuesInv(t, w)
  BY <1>1 DEF Inv, DialogsInv, QueuesInv
<1> QED
  BY <1>3, <1>6, <1>8, <1>9, <1>5, <1>7 DEF Inv

\* queryInfo() of an object that is there; whatever it reads is of its own row.
LEMMA QueryInfo ==
  ASSUME NEW e, NEW w, Inv(e, w), w.rows = rows,
         NEW i \in Identities, e.life[i] # "none", NEW queryPassword \in BOOLEAN
  PROVE  LET t == queryInfo(e, i, queryPassword) IN
         /\ Inv(t, w)
         /\ Differ(e, t, {"cached", "info"})
         /\ i \in t.cached
         /\ i \notin e.cached => t.info[i] = Loaded(e.id[i], queryPassword)
<1> DEFINE info == Loaded(e.id[i], queryPassword)
           u == [e EXCEPT !.cached = @ \cup {i}, !.info[i] = info]
           t == queryInfo(e, i, queryPassword)
<1>1. DOMAIN e = Fields /\ e.info = [j \in Identities |-> e.info[j]]
  BY DEF Inv, Shape
<1>2. CASE i \in e.cached /\ (queryPassword => e.info[i].secret)
  <2>1. t = e
    BY <1>2 DEF queryInfo
  <2> QED
    BY <1>1, <1>2, <2>1 DEF Differ
<1>3. CASE ~(i \in e.cached /\ (queryPassword => e.info[i].secret))
  <2>1. t = u
    BY <1>3 DEF queryInfo
  <2>2. /\ Differ(e, u, {"cached", "info"})
        /\ u.cached = e.cached \cup {i}
        /\ u.info = [e.info EXCEPT ![i] = info]
    BY <1>1 DEF Differ, Fields
  <2>3. /\ info.id \in {NewId, e.id[i]}
        /\ RowIn(w.rows, e.id[i]) => info.id = e.id[i]
        /\ info.current
    BY DEF Loaded, HasRow, RowIn
  <2> HIDE DEF u, info
  <2>4. Inv(u, w)
    BY <2>2, <2>3, CacheGrows
  <2>5. u.info[i] = info
    BY <1>1, <2>2
  <2> HIDE DEF t
  <2> QED
    BY <2>1, <2>2, <2>4, <2>5 DEF info, t
<1> QED
  BY <1>2, <1>3

LEMMA ClearInfo ==
  ASSUME NEW e, NEW w, Inv(e, w), NEW objects
  PROVE  LET t == clearInfo(e, objects) IN
         /\ Inv(t, w)
         /\ Differ(e, t, {"cached", "info"})
         /\ t.cached = e.cached \ objects
<1> DEFINE t == clearInfo(e, objects)
           f == [i \in Identities |-> IF i \in objects THEN NoInfo ELSE e.info[i]]
<1>1. DOMAIN e = Fields /\ e.cached \subseteq Identities
  BY DEF Inv, Shape
<1>2. /\ Differ(e, t, {"cached", "info"})
      /\ t.cached = e.cached \ objects
      /\ t.info = f
  BY <1>1 DEF Differ, Fields, clearInfo
<1> HIDE DEF t
<1>3. /\ t.info = [i \in Identities |-> t.info[i]]
      /\ \A i \in t.cached : t.info[i] = e.info[i]
  BY <1>1, <1>2
<1>4. Inv(t, w)
  BY <1>2, <1>3, CacheShrinks
<1> QED
  BY <1>2, <1>4 DEF t

\* The signal reaches whoever has cached something of the row.
LEMMA CredentialsUpdated ==
  ASSUME NEW e, NEW w, Inv(e, w), NEW n, n # NewId
  PROVE  LET t == credentialsUpdated(e, n) IN
         /\ Inv(t, w)
         /\ Differ(e, t, {"cached", "info"})
         /\ t.cached \subseteq e.cached
<1> DEFINE objects == {i \in Identities : e.life[i] # "none" /\ e.id[i] = n}
           told  == clearInfo(e, objects)
           stale == {i \in told.cached : told.info[i].id = n}
           f == [i \in Identities |-> IF i \in stale THEN [told.info[i] EXCEPT !.current = FALSE]
                                                     ELSE told.info[i]]
           t == [told EXCEPT !.info = f]
<1>1. /\ Inv(told, w)
      /\ Differ(e, told, {"cached", "info"})
      /\ told.cached = e.cached \ objects
  BY ClearInfo
<1>2. told.id = e.id /\ told.life = e.life
  BY <1>1 DEF Differ, Fields
<1>3. credentialsUpdated(e, n) = t
  BY DEF credentialsUpdated
<1> HIDE DEF told
<1>4. stale = {}
  BY <1>1, <1>2 DEF Inv, IdentitiesInv, Shape
<1>5. DOMAIN told = Fields /\ f = [i \in Identities |-> told.info[i]]
  BY <1>1, <1>4 DEF Differ
<1> HIDE DEF f
<1>6. /\ Differ(told, t, {"cached", "info"})
      /\ t.cached = told.cached
      /\ t.info = f
  BY <1>5 DEF Differ, Fields
<1> HIDE DEF t
<1>7. /\ t.info = [i \in Identities |-> t.info[i]]
      /\ \A i \in t.cached : t.info[i] = told.info[i]
  BY <1>1, <1>5, <1>6 DEF Inv, Shape
<1>8. Inv(t, w)
  BY <1>1, <1>6, <1>7, CacheShrinks
<1>9. Differ(e, t, {"cached", "info"})
  BY <1>1, <1>6 DEF Differ
<1> QED
  BY <1>1, <1>3, <1>6, <1>8, <1>9

-----------------------------------------------------------------------------
(* Disposal. *)

Disposed == {"life", "published", "coreOf", "newCores", "parent", "disposable",
             "unused", "disposeTimer", "notifyTimer"}

\* destroyUnused() condemns what is not protected, and no core that would
\* decline is among it.
LEMMA DestroyUnusedFields ==
  ASSUME NEW e, NEW w, Inv(e, w)
  PROVE  LET t    == destroyUnused(e)
             gone == {o \in Idle(e) : e.auto[o]}
         IN  /\ Differ(e, t, Disposed)
             /\ gone \subseteq e.disposable
             /\ \A o \in gone : e.auto[o]
             /\ t.life = [o \in Objects |-> IF o \in gone THEN "condemned" ELSE e.life[o]]
             /\ t.published = e.published \ gone
             /\ t.coreOf = [n \in Ids |-> IF \E c \in gone \cap Cores : e.id[c] = n
                                          THEN NoObject ELSE e.coreOf[n]]
             /\ t.parent = [s \in Sessions |-> IF e.parent[s] \in gone \cap Cores
                                               THEN NoObject ELSE e.parent[s]]
             /\ t.disposable = e.disposable \ gone
             /\ t.notifyTimer => e.notifyTimer \/ t.disposable = {}
<1> DEFINE gone  == {o \in Idle(e) : e.auto[o]}
           cores == (gone \cap Cores) \ e.active
           ids   == gone \cap Identities
           a == destroyIdentities(e, ids)
           b == destroyCores(a, cores)
           left == e.disposable \ gone
           timer == IF left = {} THEN TRUE ELSE b.notifyTimer
           t == [b EXCEPT !.disposable = left, !.notifyTimer = timer]
<1>1. /\ DOMAIN e = Fields
      /\ gone \subseteq e.disposable
      /\ \A o \in gone : e.auto[o]
      /\ gone \subseteq Objects
      /\ e.published \subseteq Identities
  BY DEF Inv, Shape, Idle, IdentitiesInv
<1>2. gone \cap Cores \cap e.active = {}
  BY <1>1 DEF Inv, DisposalInv
<1>3. gone = ids \cup cores /\ cores = gone \cap Cores
  BY <1>1, <1>2 DEF Objects
<1>4. Identities \cap Cores = {}
  BY RegistryAssumption
<1> HIDE DEF gone
<1>5. destroyUnused(e) = destroyAndForget(e, gone)
  BY DEF destroyUnused, gone
<1>6. (gone \cap Cores) \cap e.active = {}
  BY <1>2
<1>7. destroy(e, gone) = b
  BY <1>6 DEF destroy, keepCoresInUse
<1>8. destroyUnused(e) = t
  BY <1>5, <1>7 DEF destroyAndForget
<1>9. /\ Differ(e, a, {"life", "published"})
      /\ a.life = [o \in Objects |-> IF o \in ids THEN "condemned" ELSE e.life[o]]
      /\ a.published = e.published \ ids
  BY <1>1 DEF destroyIdentities, Differ, Fields
<1> HIDE DEF a
<1>10. /\ DOMAIN a = Fields /\ a.coreOf = e.coreOf /\ a.parent = e.parent /\ a.id = e.id
       /\ a.newCores = e.newCores /\ a.notifyTimer = e.notifyTimer
       /\ a.disposable = e.disposable
  BY <1>9 DEF Differ, Fields
<1>11. /\ Differ(a, b, {"life", "coreOf", "newCores", "parent"})
       /\ b.life = [o \in Objects |-> IF o \in cores THEN "condemned" ELSE a.life[o]]
       /\ b.coreOf = [n \in Ids |-> IF \E c \in cores : a.id[c] = n THEN NoObject
                                                                    ELSE a.coreOf[n]]
       /\ b.parent = [s \in Sessions |-> IF a.parent[s] \in cores THEN NoObject
                                                                 ELSE a.parent[s]]
  BY <1>10 DEF destroyCores, Differ, Fields
<1> HIDE DEF b
<1>12. /\ DOMAIN b = Fields /\ b.published = a.published /\ b.notifyTimer = a.notifyTimer
  BY <1>11 DEF Differ, Fields
<1>13. /\ Differ(b, t, {"disposable", "notifyTimer"})
       /\ t.disposable = left
       /\ t.notifyTimer = timer
  BY <1>12 DEF Differ, Fields
<1> HIDE DEF t
<1>14. Differ(e, t, Disposed)
  BY <1>9, <1>11, <1>13 DEF Differ, Fields, Disposed
<1>15. t.life = b.life /\ t.published = b.published /\ t.coreOf = b.coreOf /\ t.parent = b.parent
  BY <1>13 DEF Differ, Fields
<1>16. t.life = [o \in Objects |-> IF o \in gone THEN "condemned" ELSE e.life[o]]
  BY <1>3, <1>9, <1>11, <1>15
<1>17. t.published = e.published \ gone
  <2>1. e.published \ ids = e.published \ gone
    BY <1>1, <1>3, <1>4
  <2> QED
    BY <1>9, <1>12, <1>15, <2>1
<1>18. /\ t.coreOf = [n \in Ids |-> IF \E c \in gone \cap Cores : e.id[c] = n
                                    THEN NoObject ELSE e.coreOf[n]]
       /\ t.parent = [s \in Sessions |-> IF e.parent[s] \in gone \cap Cores
                                         THEN NoObject ELSE e.parent[s]]
  BY <1>3, <1>10, <1>11, <1>15
<1>19. t.notifyTimer => e.notifyTimer \/ t.disposable = {}
  BY <1>10, <1>12, <1>13
<1> QED
  BY <1>1, <1>8, <1>13, <1>14, <1>16, <1>17, <1>18, <1>19 DEF gone

LEMMA DestroyUnused ==
  ASSUME NEW e, NEW w, Inv(e, w)
  PROVE  LET t == destroyUnused(e) IN
         /\ Inv(t, w)
         /\ Differ(e, t, Disposed)
         /\ \A o \in Objects :
               \/ t.life[o] = e.life[o]
               \/ t.life[o] = "condemned" /\ e.life[o] # "none" /\ e.auto[o]
               \/ t.life[o] = "condemned" /\ o \in Identities
<1> DEFINE gone == {o \in Idle(e) : e.auto[o]}
           t == destroyUnused(e)
<1>1. /\ Differ(e, t, Disposed)
      /\ gone \subseteq e.disposable
      /\ \A o \in gone : e.auto[o]
      /\ t.life = [o \in Objects |-> IF o \in gone THEN "condemned" ELSE e.life[o]]
      /\ t.published = e.published \ gone
      /\ t.coreOf = [n \in Ids |-> IF \E c \in gone \cap Cores : e.id[c] = n
                                   THEN NoObject ELSE e.coreOf[n]]
      /\ t.parent = [s \in Sessions |-> IF e.parent[s] \in gone \cap Cores
                                        THEN NoObject ELSE e.parent[s]]
      /\ t.disposable = e.disposable \ gone
      /\ t.notifyTimer => e.notifyTimer \/ t.disposable = {}
  BY DestroyUnusedFields
<1> HIDE DEF gone, t
<1>2. /\ DOMAIN t = Fields
      /\ t.auto = e.auto
      /\ t.watched = e.watched /\ t.id = e.id
      /\ t.cached = e.cached /\ t.info = e.info /\ t.identityOf = e.identityOf
      /\ t.queue = e.queue
      /\ t.active = e.active /\ t.posted = e.posted
  BY <1>1 DEF Differ, Fields, Disposed
<1>3. /\ \A o \in Objects : o \in gone => t.life[o] = "condemned"
      /\ \A o \in Objects : o \notin gone => t.life[o] = e.life[o]
      /\ Identities \subseteq Objects /\ Cores \subseteq Objects
      /\ e.watched \subseteq Identities /\ e.cached \subseteq Identities
      /\ e.active \subseteq Cores
  BY <1>1 DEF Objects, Inv, Shape
<1>4. Shape(t)
  BY <1>1, <1>2 DEF Inv, Shape, Lives
<1>5. IdentitiesInv(t)
  BY <1>1, <1>2, <1>3 DEF Inv, IdentitiesInv
<1>6. /\ NoRenaming => TableInv(t, w)
      /\ StoringSucceeds => CacheInv(t)
  BY <1>2 DEF Inv, TableInv, CacheInv
<1>7. CoresInv(t)
  BY <1>1, <1>2, <1>3 DEF Inv, CoresInv, Shape
<1>8. NoRekey => CoreTableInv(t)
  <2>1. \A c \in gone \cap Cores : e.life[c] = "alive"
    BY <1>1 DEF Inv, CoresInv
  <2>2. ASSUME NoRekey, NEW n \in Ids, NEW c \in Cores
        PROVE  t.coreOf[n] = c <=> t.life[c] = "alive" /\ t.id[c] = n
    <3>1. c # NoObject
      BY RegistryAssumption DEF Objects
    <3>2. e.coreOf[n] = c <=> e.life[c] = "alive" /\ e.id[c] = n
      BY <2>2 DEF Inv, CoreTableInv
    <3>3. CASE c \in gone
      BY <1>1, <1>2, <1>3, <2>1, <3>1, <3>2, <3>3
    <3>4. CASE c \notin gone
      <4>1. t.life[c] = e.life[c] /\ t.id[c] = e.id[c]
        BY <1>2, <1>3, <3>4
      <4>2. CASE \E b \in gone \cap Cores : e.id[b] = n
        <5>1. PICK b \in gone \cap Cores : e.id[b] = n
          BY <4>2
        <5>2. e.coreOf[n] = b
          BY <2>1, <2>2, <5>1 DEF Inv, CoreTableInv
        <5> QED
          BY <1>1, <3>1, <3>2, <3>4, <4>1, <4>2, <5>1, <5>2
      <4>3. CASE ~(\E b \in gone \cap Cores : e.id[b] = n)
        BY <1>1, <3>2, <4>1, <4>3
      <4> QED
        BY <4>2, <4>3
    <3> QED
      BY <3>3, <3>4
  <2> QED
    BY <2>2 DEF CoreTableInv
<1>9. DisposalInv(t)
  BY <1>1, <1>2, <1>3 DEF Inv, DisposalInv
<1>10. DialogsInv(t, w)
  BY <1>1, <1>2, <1>3 DEF Inv, DialogsInv, IdentitiesInv, Shape
<1>11. QueuesInv(t, w)
  BY <1>2, <1>3 DEF Inv, QueuesInv
<1>12. Inv(t, w)
  BY <1>4, <1>5, <1>6, <1>7, <1>8, <1>9, <1>10, <1>11 DEF Inv
<1>13. \A c \in gone \cap Cores : e.life[c] = "alive"
  BY <1>1 DEF Inv, CoresInv
<1> QED
  BY <1>1, <1>3, <1>12, <1>13 DEF Objects, t

-----------------------------------------------------------------------------
(* The life of an identity's object. *)

Created == {"life", "disposable", "id"} \cup Timers

LEMMA CreateIdentity ==
  ASSUME NEW e, NEW w, Inv(e, w), NEW i \in Identities, e.life[i] = "none",
         NEW n \in Ids \cup {NewId}
  PROVE  LET t == createIdentity(e, i, n) IN
         /\ Inv(t, w)
         /\ Differ(e, t, Created)
         /\ t.life[i] = "alive"
         /\ t.id[i] = n
         /\ i \notin t.cached /\ i \notin t.watched
         /\ \A o \in Objects : o # i => t.life[o] = e.life[o]
<1> DEFINE a == [e EXCEPT !.life[i] = "alive", !.disposable = @ \cup {i}]
           b == keepInUse(a, i)
           t == [b EXCEPT !.id[i] = n]
<1>1. /\ DOMAIN e = Fields /\ DOMAIN e.life = Objects /\ DOMAIN e.id = Objects
      /\ i \in Objects
  BY DEF Inv, Shape, Objects
<1>2. createIdentity(e, i, n) = t
  BY DEF createIdentity, newDisposable
<1>3. /\ Differ(e, a, {"life", "disposable"})
      /\ a.life = [e.life EXCEPT ![i] = "alive"]
      /\ a.disposable = e.disposable \cup {i}
  BY <1>1 DEF Differ, Fields
<1> HIDE DEF a
<1>4. Differ(a, b, Timers) /\ b.notifyTimer = FALSE
  BY <1>3 DEF Differ, Fields, Timers, keepInUse
<1> HIDE DEF b
<1>5. b.id = e.id /\ DOMAIN b = Fields
  BY <1>3, <1>4 DEF Differ, Fields, Timers
<1>6. /\ Differ(b, t, {"id"})
      /\ t.id = [e.id EXCEPT ![i] = n]
  BY <1>5 DEF Differ, Fields
<1> HIDE DEF t
<1>7. Differ(e, t, Created)
  BY <1>3, <1>4, <1>6 DEF Differ, Fields, Timers, Created
<1>8. t.life = a.life /\ t.disposable = a.disposable /\ t.notifyTimer = FALSE
  BY <1>4, <1>6 DEF Differ, Fields, Timers
<1>9. /\ DOMAIN t = Fields
      /\ t.auto = e.auto /\ t.published = e.published
      /\ t.watched = e.watched
      /\ t.cached = e.cached /\ t.info = e.info /\ t.identityOf = e.identityOf
      /\ t.coreOf = e.coreOf /\ t.parent = e.parent /\ t.queue = e.queue
      /\ t.active = e.active /\ t.posted = e.posted
  BY <1>7 DEF Differ, Fields, Created, Timers
<1>10. /\ t.life[i] = "alive" /\ t.id[i] = n
       /\ \A o \in Objects : o # i => t.life[o] = e.life[o] /\ t.id[o] = e.id[o]
       /\ t.disposable = e.disposable \cup {i}
  BY <1>1, <1>3, <1>6, <1>8
<1>11. /\ Identities \subseteq Objects /\ Cores \subseteq Objects /\ i \notin Cores
       /\ e.watched \subseteq Identities /\ e.cached \subseteq Identities
       /\ e.active \subseteq Cores
       /\ i \notin e.watched /\ i \notin e.cached
       /\ e.published \subseteq e.watched
       /\ NoObject \notin Objects
       /\ e.parent \in [Sessions -> Cores \cup {NoObject}]
       /\ e.identityOf \in [Ids -> Identities \cup {NoObject}]
  BY RegistryAssumption DEF Objects, Inv, Shape, IdentitiesInv
<1>12. Shape(t)
  BY <1>1, <1>3, <1>6, <1>8, <1>9, <1>10 DEF Inv, Shape, Lives
<1>13. IdentitiesInv(t)
  BY <1>9, <1>10, <1>11 DEF Inv, IdentitiesInv
<1>14. /\ NoRenaming => TableInv(t, w)
       /\ StoringSucceeds => CacheInv(t)
  BY <1>9, <1>10, <1>11 DEF Inv, TableInv, CacheInv
<1>15. CoresInv(t)
  BY <1>9, <1>10, <1>11 DEF Inv, CoresInv
<1>16. NoRekey => CoreTableInv(t)
  BY <1>9, <1>10, <1>11 DEF Inv, CoreTableInv
<1>17. DisposalInv(t)
  BY <1>8, <1>9, <1>10, <1>11 DEF Inv, DisposalInv
<1>18. DialogsInv(t, w)
  BY <1>9, <1>10, <1>11 DEF Inv, DialogsInv
<1>19. QueuesInv(t, w)
  BY <1>9, <1>10, <1>11 DEF Inv, QueuesInv
<1>20. Inv(t, w)
  BY <1>12, <1>13, <1>14, <1>15, <1>16, <1>17, <1>18, <1>19 DEF Inv
<1> QED
  BY <1>2, <1>7, <1>9, <1>10, <1>11, <1>20

\* watchIdentity() and publish() of an object no other has the id of.
LEMMA PublishIdentity ==
  ASSUME NEW e, NEW w, Inv(e, w), NEW i \in Identities,
         e.life[i] = "alive" \/ (e.life[i] # "none" /\ i \in w.misjudged),
         NoRenaming /\ e.id[i] # NewId =>
             /\ e.identityOf[e.id[i]] \in {i, NoObject}
             /\ e.id[i] < w.nextId,
         NoRenaming /\ i \in e.cached /\ RowIn(w.rows, e.id[i]) => e.info[i].id = e.id[i]
  PROVE  LET t == publish(watchIdentity(e, i), i) IN
         /\ Inv(t, w)
         /\ Differ(e, t, {"watched", "published", "identityOf"})
<1> DEFINE n == e.id[i]
           table == IF n = NewId THEN e.identityOf ELSE [e.identityOf EXCEPT ![n] = i]
           a == [e EXCEPT !.watched = @ \cup {i}, !.identityOf = table]
           t == [a EXCEPT !.published = @ \cup {i}]
<1>1. /\ DOMAIN e = Fields /\ e.identityOf \in [Ids -> Identities \cup {NoObject}]
      /\ n \in Ids \cup {NewId}
      /\ e.id \in [Objects -> Ids \cup {NewId}]
      /\ e.watched \subseteq Identities
      /\ Identities \subseteq Objects
      /\ NoObject \notin Identities
  BY RegistryAssumption DEF Inv, Shape, Objects
<1>2. publish(watchIdentity(e, i), i) = t
  BY DEF publish, watchIdentity
<1> HIDE DEF table
<1>3. /\ Differ(e, a, {"watched", "identityOf"})
      /\ a.watched = e.watched \cup {i}
      /\ a.identityOf = table
  BY <1>1 DEF Differ, Fields
<1> HIDE DEF a
<1>4. DOMAIN a = Fields /\ a.published = e.published
  BY <1>3 DEF Differ, Fields
<1>5. /\ Differ(a, t, {"published"})
      /\ t.published = e.published \cup {i}
  BY <1>4 DEF Differ, Fields
<1> HIDE DEF t
<1>6. /\ Differ(e, t, {"watched", "published", "identityOf"})
      /\ t.watched = e.watched \cup {i} /\ t.identityOf = table
  BY <1>3, <1>5 DEF Differ, Fields
<1>7. /\ DOMAIN t = Fields
      /\ t.life = e.life /\ t.disposable = e.disposable
      /\ t.auto = e.auto /\ t.id = e.id /\ t.notifyTimer = e.notifyTimer
      /\ t.cached = e.cached /\ t.info = e.info
      /\ t.coreOf = e.coreOf /\ t.parent = e.parent /\ t.queue = e.queue
      /\ t.active = e.active /\ t.posted = e.posted
  BY <1>6 DEF Differ, Fields
<1>8. /\ table \in [Ids -> Identities \cup {NoObject}]
      /\ n # NewId => table[n] = i
      /\ \A m \in Ids : m # n => table[m] = e.identityOf[m]
      /\ n = NewId => table = e.identityOf
  BY <1>1 DEF table
<1>9. Shape(t)
  BY <1>1, <1>6, <1>7, <1>8 DEF Inv, Shape
<1>10. IdentitiesInv(t)
  BY <1>5, <1>6, <1>7 DEF Inv, IdentitiesInv
<1>11. ASSUME NoRenaming
       PROVE  TableInv(t, w)
  <2>1. TableInv(e, w) /\ (n # NewId => e.identityOf[n] \in {i, NoObject} /\ n < w.nextId)
    BY <1>11 DEF Inv
  <2>2. ASSUME NEW m \in Ids, t.identityOf[m] # NoObject
        PROVE  t.identityOf[m] \in t.watched /\ t.id[t.identityOf[m]] = m
    <3>1. CASE m = n /\ n # NewId
      BY <1>6, <1>7, <1>8, <3>1
    <3>2. CASE m # n \/ n = NewId
      BY <1>6, <1>7, <1>8, <2>1, <2>2, <3>2 DEF TableInv
    <3> QED
      BY <3>1, <3>2
  <2>3. ASSUME NEW j \in t.watched, t.id[j] # NewId
        PROVE  t.identityOf[t.id[j]] = j /\ t.id[j] < w.nextId
    <3>1. CASE j = i
      BY <1>6, <1>7, <1>8, <2>1, <2>3, <3>1
    <3>2. CASE j # i
      <4>1. j \in e.watched /\ e.id[j] \in Ids
        BY <1>1, <1>6, <1>7, <2>3, <3>2
      <4>2. e.identityOf[e.id[j]] = j /\ e.id[j] < w.nextId
        BY <1>7, <2>1, <2>3, <4>1 DEF TableInv
      <4>3. e.id[j] # n
        <5>1. j # NoObject /\ e.id[j] # NewId
          BY <1>1, <1>7, <2>3, <4>1
        <5> QED
          BY <2>1, <3>2, <4>2, <5>1
      <4> QED
        BY <1>6, <1>7, <1>8, <4>1, <4>2, <4>3
    <3> QED
      BY <3>1, <3>2
  <2>4. ASSUME NEW j \in t.watched \cap t.cached, RowIn(w.rows, t.id[j])
        PROVE  t.info[j].id = t.id[j]
    BY <1>6, <1>7, <1>11, <2>1, <2>4 DEF TableInv
  <2> QED
    BY <2>2, <2>3, <2>4 DEF TableInv
<1>12. /\ StoringSucceeds => CacheInv(t)
       /\ NoRekey => CoreTableInv(t)
  BY <1>7 DEF Inv, CacheInv, CoreTableInv
<1>13. CoresInv(t) /\ DisposalInv(t)
  BY <1>7 DEF Inv, CoresInv, DisposalInv
<1>14. DialogsInv(t, w) /\ QueuesInv(t, w)
  BY <1>5, <1>7 DEF Inv, DialogsInv, QueuesInv
<1>15. Inv(t, w)
  BY <1>9, <1>10, <1>11, <1>12, <1>13, <1>14 DEF Inv
<1> QED
  BY <1>2, <1>6, <1>15

\* The object getIdentity() destroys although it may have been found.
LEMMA DestroyIdentity ==
  ASSUME NEW e, NEW w, Inv(e, w), NEW i \in Identities, i \in w.misjudged
  PROVE  LET t == destroyIdentity(e, i) IN
         /\ Inv(t, w)
         /\ Differ(e, t, {"life", "published"})
         /\ t.life[i] = "condemned"
         /\ \A o \in Objects : o # i => t.life[o] = e.life[o]
<1> DEFINE t == destroyIdentity(e, i)
<1>1. DOMAIN e = Fields /\ DOMAIN e.life = Objects /\ i \in Objects
  BY DEF Inv, Shape, Objects
<1>2. /\ Differ(e, t, {"life", "published"})
      /\ t.life = [e.life EXCEPT ![i] = "condemned"]
      /\ t.published = e.published \ {i}
  BY <1>1 DEF destroyIdentity, Differ, Fields
<1> HIDE DEF t
<1>3. /\ DOMAIN t = Fields
      /\ t.disposable = e.disposable /\ t.notifyTimer = e.notifyTimer
      /\ t.auto = e.auto /\ t.id = e.id
      /\ t.watched = e.watched
      /\ t.cached = e.cached /\ t.info = e.info /\ t.identityOf = e.identityOf
      /\ t.coreOf = e.coreOf /\ t.parent = e.parent /\ t.queue = e.queue
      /\ t.active = e.active /\ t.posted = e.posted
  BY <1>2 DEF Differ, Fields
<1>4. /\ t.life[i] = "condemned"
      /\ \A o \in Objects : o # i => t.life[o] = e.life[o]
      /\ Identities \subseteq Objects /\ Cores \subseteq Objects /\ i \notin Cores
      /\ e.watched \subseteq Identities /\ e.cached \subseteq Identities
      /\ e.parent \in [Sessions -> Cores \cup {NoObject}]
      /\ e.published \subseteq e.watched
  BY <1>1, <1>2, RegistryAssumption DEF Objects, Inv, Shape, IdentitiesInv
<1>5. Shape(t)
  BY <1>1, <1>2, <1>3 DEF Inv, Shape, Lives
<1>6. IdentitiesInv(t)
  BY <1>2, <1>3, <1>4 DEF Inv, IdentitiesInv
<1>7. /\ NoRenaming => TableInv(t, w)
      /\ StoringSucceeds => CacheInv(t)
  BY <1>3 DEF Inv, TableInv, CacheInv
<1>8. CoresInv(t) /\ (NoRekey => CoreTableInv(t))
  BY <1>3, <1>4 DEF Inv, CoresInv, CoreTableInv
<1>9. DisposalInv(t)
  BY <1>3, <1>4 DEF Inv, DisposalInv
<1>10. DialogsInv(t, w)
  BY <1>2, <1>3, <1>4 DEF Inv, DialogsInv
<1>11. QueuesInv(t, w)
  BY <1>3, <1>4 DEF Inv, QueuesInv
<1>12. Inv(t, w)
  BY <1>5, <1>6, <1>7, <1>8, <1>9, <1>10, <1>11 DEF Inv
<1> QED
  BY <1>2, <1>4, <1>12 DEF t

\* store() lists the object under the id its row has been given, or had.
LEMMA StoreIdentity ==
  ASSUME NEW e, NEW w, Inv(e, w), NEW i \in e.published, i \notin e.cached,
         NEW id \in Ids, NEW x, Inv(e, x),
         \/ id = e.id[i]
         \/ id = w.nextId /\ id < x.nextId /\ (NoRenaming => e.id[i] = NewId)
  PROVE  LET t == [e EXCEPT !.id[i] = id, !.identityOf[id] = i] IN
         /\ Inv(t, x)
         /\ Differ(e, t, {"id", "identityOf"})
<1> DEFINE a == [e EXCEPT !.id[i] = id]
           t == [a EXCEPT !.identityOf[id] = i]
<1>1. /\ DOMAIN e = Fields /\ e.identityOf \in [Ids -> Identities \cup {NoObject}]
      /\ e.id \in [Objects -> Ids \cup {NewId}]
      /\ i \in Identities /\ i \in Objects /\ i \in e.watched
      /\ e.watched \subseteq Identities /\ e.cached \subseteq Identities
      /\ Identities \subseteq Objects /\ Cores \subseteq Objects /\ i \notin Cores
      /\ NoObject \notin Identities
      /\ id \in Nat /\ id # NewId
      /\ w.nextId \in Nat
  BY RegistryAssumption DEF Inv, Shape, Objects, IdentitiesInv, Ids, NewId, RowsGiven
<1>2. /\ Differ(e, a, {"id"})
      /\ a.id = [e.id EXCEPT ![i] = id]
  BY <1>1 DEF Differ, Fields
<1> HIDE DEF a
<1>3. DOMAIN a = Fields /\ a.identityOf = e.identityOf
  BY <1>2 DEF Differ, Fields
<1>4. /\ Differ(a, t, {"identityOf"})
      /\ t.identityOf = [e.identityOf EXCEPT ![id] = i]
  BY <1>3 DEF Differ, Fields
<1>5. [e EXCEPT !.id[i] = id, !.identityOf[id] = i] = t
  BY DEF a
<1> HIDE DEF t
<1>6. Differ(e, t, {"id", "identityOf"}) /\ t.id = a.id
  BY <1>2, <1>4 DEF Differ, Fields
<1>7. /\ DOMAIN t = Fields
      /\ t.life = e.life /\ t.disposable = e.disposable /\ t.published = e.published
      /\ t.auto = e.auto /\ t.notifyTimer = e.notifyTimer /\ t.watched = e.watched
      /\ t.cached = e.cached /\ t.info = e.info
      /\ t.coreOf = e.coreOf /\ t.parent = e.parent /\ t.queue = e.queue
      /\ t.active = e.active /\ t.posted = e.posted
  BY <1>6 DEF Differ, Fields
<1>8. /\ t.id[i] = id /\ t.identityOf[id] = i
      /\ \A o \in Objects : o # i => t.id[o] = e.id[o]
      /\ \A m \in Ids : m # id => t.identityOf[m] = e.identityOf[m]
  BY <1>1, <1>2, <1>4, <1>6
<1>9. Shape(t) /\ RowsGiven(x)
  BY <1>1, <1>2, <1>4, <1>6, <1>7 DEF Inv, Shape
<1>10. IdentitiesInv(t)
  BY <1>1, <1>7, <1>8 DEF Inv, IdentitiesInv
<1>11. ASSUME NoRenaming
       PROVE  TableInv(t, x)
  <2>1. TableInv(e, w) /\ TableInv(e, x)
    BY <1>11 DEF Inv
  <2>2. id = e.id[i] \/ (e.id[i] = NewId /\ id = w.nextId /\ id < x.nextId)
    BY <1>11
  <2>3. ASSUME NEW j \in e.watched, e.id[j] = id
        PROVE  j = i
    <3>1. e.id[j] # NewId /\ e.identityOf[id] = j /\ id < w.nextId
      BY <1>1, <2>1, <2>3 DEF TableInv
    <3>2. id = e.id[i]
      BY <1>1, <2>2, <3>1
    <3> QED
      BY <1>1, <2>1, <3>1, <3>2 DEF TableInv
  <2>4. ASSUME NEW m \in Ids, t.identityOf[m] # NoObject
        PROVE  t.identityOf[m] \in t.watched /\ t.id[t.identityOf[m]] = m
    <3>1. CASE m = id
      BY <1>1, <1>7, <1>8, <3>1
    <3>2. CASE m # id
      <4>1. e.identityOf[m] \in e.watched /\ e.id[e.identityOf[m]] = m
        BY <1>8, <2>1, <2>4, <3>2 DEF TableInv
      <4>2. e.identityOf[m] # i
        <5>1. m # NewId
          BY <2>4 DEF Ids, NewId
        <5> QED
          BY <2>2, <3>2, <4>1, <5>1
      <4> QED
        BY <1>1, <1>7, <1>8, <3>2, <4>1, <4>2
    <3> QED
      BY <3>1, <3>2
  <2>5. ASSUME NEW j \in t.watched, t.id[j] # NewId
        PROVE  t.identityOf[t.id[j]] = j /\ t.id[j] < x.nextId
    <3>1. CASE j = i
      <4>1. id < x.nextId
        BY <1>1, <2>1, <2>2 DEF TableInv
      <4> QED
        BY <1>8, <3>1, <4>1
    <3>2. CASE j # i
      <4>1. j \in e.watched /\ t.id[j] = e.id[j] /\ e.id[j] \in Ids
        BY <1>1, <1>7, <1>8, <2>5, <3>2
      <4>2. e.identityOf[e.id[j]] = j /\ e.id[j] < x.nextId
        BY <2>1, <2>5, <4>1 DEF TableInv
      <4>3. e.id[j] # id
        BY <2>3, <3>2, <4>1
      <4> QED
        BY <1>8, <4>1, <4>2, <4>3
    <3> QED
      BY <3>1, <3>2
  <2>6. ASSUME NEW j \in t.watched \cap t.cached, RowIn(x.rows, t.id[j])
        PROVE  t.info[j].id = t.id[j]
    <3>1. j # i /\ j \in e.watched \cap e.cached
      BY <1>7, <2>6
    <3>2. t.id[j] = e.id[j]
      BY <1>1, <1>8, <3>1
    <3> QED
      BY <1>7, <2>1, <2>6, <3>1, <3>2 DEF TableInv
  <2> QED
    BY <2>4, <2>5, <2>6 DEF TableInv
<1>12. StoringSucceeds => CacheInv(t)
  BY <1>7 DEF Inv, CacheInv
<1>13. NoRekey => CoreTableInv(t)
  BY <1>1, <1>7, <1>8 DEF Inv, CoreTableInv
<1>14. CoresInv(t) /\ DisposalInv(t)
  BY <1>7 DEF Inv, CoresInv, DisposalInv
<1>15. DialogsInv(t, x) /\ QueuesInv(t, x)
  BY <1>7 DEF Inv, DialogsInv, QueuesInv
<1>16. Inv(t, x)
  BY <1>9, <1>10, <1>11, <1>12, <1>13, <1>14, <1>15 DEF Inv
<1> QED
  BY <1>5, <1>6, <1>16

Destroyed == {"life", "disposable", "unused", "auto", "id"}

LEMMA DeletedFields ==
  ASSUME NEW e, DOMAIN e = Fields, NEW o
  PROVE  LET t == Deleted(e, o) IN
         /\ Differ(e, t, Destroyed)
         /\ t.life = [e.life EXCEPT ![o] = "none"]
         /\ t.disposable = e.disposable \ {o}
         /\ t.auto = [e.auto EXCEPT ![o] = TRUE]
         /\ t.id = [e.id EXCEPT ![o] = NewId]
  BY DEF Deleted, Differ, Fields, Destroyed

\* ~SignonIdentity(): the table forgets the object, if it has been told to watch
\* it; x forgets its dialogs and its history.
LEMMA DeleteIdentity ==
  ASSUME NEW e, NEW w, Inv(e, w), NEW i \in Identities, e.life[i] = "condemned",
         NEW x, x.rows = w.rows, x.nextId = w.nextId, x.ready = w.ready,
         x.dialogs \subseteq w.dialogs, \A call \in x.dialogs : call.obj # i,
         w.misjudged \ {i} \subseteq x.misjudged, w.kept \ {i} \subseteq x.kept,
         x.misjudged \subseteq x.kept
  PROVE  LET n == e.id[i]
             a == [Deleted(clearInfo(e, {i}), i) EXCEPT !.published = @ \ {i},
                                                        !.watched = @ \ {i}]
             t == IF i \in e.watched /\ n # NewId
                  THEN [a EXCEPT !.identityOf[n] = NoObject] ELSE a
         IN  Inv(t, x)
<1> DEFINE n == e.id[i]
           c == clearInfo(e, {i})
           b == Deleted(c, i)
           a == [b EXCEPT !.published = @ \ {i}, !.watched = @ \ {i}]
           v == [a EXCEPT !.identityOf[n] = NoObject]
           t == IF i \in e.watched /\ n # NewId THEN v ELSE a
<1>1. /\ Inv(c, w)
      /\ Differ(e, c, {"cached", "info"})
      /\ c.cached = e.cached \ {i}
  BY ClearInfo
<1> HIDE DEF c
<1>2. DOMAIN c = Fields
  BY <1>1 DEF Differ
<1>3. /\ Differ(c, b, Destroyed)
      /\ b.life = [c.life EXCEPT ![i] = "none"]
      /\ b.disposable = c.disposable \ {i}
      /\ b.auto = [c.auto EXCEPT ![i] = TRUE]
      /\ b.id = [c.id EXCEPT ![i] = NewId]
  BY <1>2, DeletedFields
<1> HIDE DEF b
<1>4. /\ Differ(b, a, {"published", "watched"})
      /\ a.published = b.published \ {i} /\ a.watched = b.watched \ {i}
  BY <1>3 DEF Differ, Fields, Destroyed
<1> HIDE DEF a
<1>5. /\ Differ(a, v, {"identityOf"})
      /\ v.identityOf = [a.identityOf EXCEPT ![n] = NoObject]
  BY <1>4 DEF Differ, Fields
<1> HIDE DEF v
<1>6. DOMAIN a = Fields /\ DOMAIN v = Fields
  BY <1>4, <1>5 DEF Differ
<1>7. /\ a.life = b.life /\ a.disposable = b.disposable /\ a.auto = b.auto
      /\ a.id = b.id /\ a.notifyTimer = c.notifyTimer /\ a.identityOf = c.identityOf
      /\ a.cached = c.cached /\ a.info = c.info
      /\ a.coreOf = c.coreOf /\ a.parent = c.parent /\ a.queue = c.queue
      /\ a.active = c.active /\ a.posted = c.posted
      /\ b.published = c.published /\ b.watched = c.watched
  BY <1>3, <1>4 DEF Differ, Fields, Destroyed
<1>8. /\ v.life = a.life /\ v.disposable = a.disposable /\ v.auto = a.auto
      /\ v.id = a.id /\ v.notifyTimer = a.notifyTimer
      /\ v.published = a.published /\ v.watched = a.watched
      /\ v.cached = a.cached /\ v.info = a.info
      /\ v.coreOf = a.coreOf /\ v.parent = a.parent /\ v.queue = a.queue
      /\ v.active = a.active /\ v.posted = a.posted
  BY <1>5 DEF Differ, Fields
<1>9. n = c.id[i] /\ c.watched = e.watched /\ c.life = e.life
  BY <1>1 DEF Differ, Fields
<1> HIDE DEF n
<1>10. t = v \/ t = a
  OBVIOUS
<1>11. /\ DOMAIN t = Fields
       /\ t.life = b.life /\ t.disposable = b.disposable /\ t.auto = b.auto
       /\ t.id = b.id /\ t.notifyTimer = c.notifyTimer
       /\ t.published = c.published \ {i} /\ t.watched = c.watched \ {i}
       /\ t.cached = c.cached /\ t.info = c.info
       /\ t.coreOf = c.coreOf /\ t.parent = c.parent /\ t.queue = c.queue
       /\ t.active = c.active /\ t.posted = c.posted
  BY <1>4, <1>6, <1>7, <1>8, <1>10
<1>12. t.identityOf = IF i \in c.watched /\ n # NewId
                      THEN [c.identityOf EXCEPT ![n] = NoObject] ELSE c.identityOf
  BY <1>5, <1>7, <1>9
<1> HIDE DEF t
<1>13. /\ DOMAIN c.life = Objects /\ DOMAIN c.auto = Objects /\ DOMAIN c.id = Objects
       /\ c.identityOf \in [Ids -> Identities \cup {NoObject}]
       /\ c.id \in [Objects -> Ids \cup {NewId}]
       /\ c.watched \subseteq Identities /\ c.cached \subseteq Identities
       /\ c.active \subseteq Cores
       /\ Identities \subseteq Objects /\ Cores \subseteq Objects /\ i \notin Cores
       /\ NoObject \notin Identities
       /\ c.life[i] = "condemned"
       /\ c.published \subseteq c.watched
  BY <1>1, <1>9, RegistryAssumption DEF Inv, Shape, Objects, IdentitiesInv
<1>14. /\ t.life[i] = "none" /\ t.auto[i] = TRUE /\ t.id[i] = NewId
       /\ \A o \in Objects : o # i => /\ t.life[o] = c.life[o] /\ t.auto[o] = c.auto[o]
                                      /\ t.id[o] = c.id[o]
       /\ t.disposable = c.disposable \ {i}
       /\ i \notin t.cached
  BY <1>1, <1>3, <1>11, <1>13
<1>15. Shape(t)
  <2>1. /\ t.life \in [Objects -> Lives]
        /\ t.auto \in [Objects -> BOOLEAN]
        /\ t.id \in [Objects -> Ids \cup {NewId}]
    BY <1>1, <1>3, <1>11, <1>13 DEF Inv, Shape, Lives
  <2>2. t.identityOf \in [Ids -> Identities \cup {NoObject}]
    BY <1>12, <1>13
  <2> QED
    BY <1>1, <1>11, <1>13, <1>14, <2>1, <2>2 DEF Inv, Shape
<1>16. RowsGiven(x)
  BY <1>1 DEF Inv, RowsGiven
<1>17. IdentitiesInv(t)
  BY <1>1, <1>11, <1>13, <1>14 DEF Inv, IdentitiesInv
<1>18. ASSUME NoRenaming
       PROVE  TableInv(t, x)
  <2>1. TableInv(c, w)
    BY <1>1, <1>18 DEF Inv
  <2>2. ASSUME NEW j \in Identities, j \in t.watched
        PROVE  j # i /\ j \in c.watched /\ t.id[j] = c.id[j]
    BY <1>11, <1>13, <1>14, <2>2
  <2>3. ASSUME NEW m \in Ids, t.identityOf[m] # NoObject
        PROVE  t.identityOf[m] \in t.watched /\ t.id[t.identityOf[m]] = m
    <3>1. t.identityOf[m] = c.identityOf[m] /\ (i \in c.watched => m # n)
      <4>1. m # NewId
        BY <2>3 DEF Ids, NewId
      <4> QED
        BY <1>12, <1>13, <2>3, <4>1
    <3>2. c.identityOf[m] \in c.watched /\ c.id[c.identityOf[m]] = m
      BY <2>1, <2>3, <3>1 DEF TableInv
    <3>3. c.identityOf[m] # i
      BY <1>9, <3>1, <3>2
    <3> QED
      BY <1>11, <1>13, <1>14, <3>1, <3>2, <3>3
  <2>4. ASSUME NEW j \in t.watched, t.id[j] # NewId
        PROVE  t.identityOf[t.id[j]] = j /\ t.id[j] < x.nextId
    <3>1. j # i /\ j \in c.watched /\ t.id[j] = c.id[j] /\ c.id[j] \in Ids
      BY <1>11, <1>13, <2>2, <2>4
    <3>2. c.identityOf[c.id[j]] = j /\ c.id[j] < w.nextId
      BY <2>1, <2>4, <3>1 DEF TableInv
    <3>3. i \in c.watched /\ n # NewId => c.id[j] # n
      BY <1>9, <2>1, <3>1, <3>2 DEF TableInv
    <3> QED
      BY <1>12, <1>13, <3>1, <3>2, <3>3
  <2>5. ASSUME NEW j \in t.watched \cap t.cached, RowIn(x.rows, t.id[j])
        PROVE  t.info[j].id = t.id[j]
    BY <1>11, <1>13, <2>1, <2>2, <2>5 DEF TableInv
  <2> QED
    BY <2>3, <2>4, <2>5 DEF TableInv
<1>19. StoringSucceeds => CacheInv(t)
  BY <1>1, <1>11 DEF Inv, CacheInv
<1>20. c.parent \in [Sessions -> Cores \cup {NoObject}]
  BY <1>1 DEF Inv, Shape
<1>21. CoresInv(t)
  BY <1>1, <1>20, <1>11, <1>13, <1>14 DEF Inv, CoresInv
<1>22. NoRekey => CoreTableInv(t)
  BY <1>1, <1>11, <1>13, <1>14 DEF Inv, CoreTableInv
<1>23. DisposalInv(t)
  BY <1>1, <1>11, <1>13, <1>14 DEF Inv, DisposalInv
<1>24. DialogsInv(t, x)
  BY <1>1, <1>11, <1>13, <1>14 DEF Inv, DialogsInv
<1>25. QueuesInv(t, x)
  BY <1>1, <1>11, <1>13, <1>14 DEF Inv, QueuesInv
<1>26. Inv(t, x)
  BY <1>15, <1>16, <1>17, <1>18, <1>19, <1>21, <1>23, <1>24, <1>25, <1>22 DEF Inv
<1> QED
  BY <1>26 DEF t, v, a, b, c, n

-----------------------------------------------------------------------------
(* The life of a core and its sessions. *)

\* sessionCore() makes a core under an id that has none.
LEMMA CreateCore ==
  ASSUME NEW e, NEW w, Inv(e, w), NEW c \in Cores, e.life[c] = "none",
         NEW n \in Ids \cup {NewId},
         NoRekey /\ n # NewId => e.coreOf[n] = NoObject
  PROVE  LET t == [newDisposable(e, c) EXCEPT
                      !.id[c] = n,
                      !.coreOf = IF n = NewId THEN @ ELSE [@ EXCEPT ![n] = c],
                      !.newCores = IF n = NewId THEN @ \cup {c} ELSE @]
         IN  /\ Inv(t, w)
             /\ Differ(e, t, Created \cup {"coreOf"})
             /\ t.life[c] = "alive"
             /\ \A o \in Objects : o # c => t.life[o] = e.life[o]
<1> DEFINE a == [e EXCEPT !.life[c] = "alive", !.disposable = @ \cup {c}]
           b == keepInUse(a, c)
           table == IF n = NewId THEN b.coreOf ELSE [b.coreOf EXCEPT ![n] = c]
           new == IF n = NewId THEN b.newCores \cup {c} ELSE b.newCores
           t == [b EXCEPT !.id[c] = n, !.coreOf = table, !.newCores = new]
<1>1. /\ DOMAIN e = Fields /\ DOMAIN e.life = Objects /\ DOMAIN e.id = Objects
      /\ c \in Objects
  BY DEF Inv, Shape, Objects
<1>2. newDisposable(e, c) = b
  BY DEF newDisposable
<1>3. /\ Differ(e, a, {"life", "disposable"})
      /\ a.life = [e.life EXCEPT ![c] = "alive"]
      /\ a.disposable = e.disposable \cup {c}
  BY <1>1 DEF Differ, Fields
<1> HIDE DEF a
<1>4. Differ(a, b, Timers) /\ b.notifyTimer = FALSE
  BY <1>3 DEF Differ, Fields, Timers, keepInUse
<1> HIDE DEF b
<1>5. b.id = e.id /\ b.coreOf = e.coreOf /\ DOMAIN b = Fields
  BY <1>3, <1>4 DEF Differ, Fields, Timers
<1> HIDE DEF new, table
<1>6. /\ Differ(b, t, {"id", "coreOf", "newCores"})
      /\ t.id = [e.id EXCEPT ![c] = n]
      /\ t.coreOf = table
  BY <1>5 DEF Differ, Fields
<1>7. t = [b EXCEPT !.id[c] = n,
                    !.coreOf = IF n = NewId THEN @ ELSE [@ EXCEPT ![n] = c],
                    !.newCores = IF n = NewId THEN @ \cup {c} ELSE @]
  BY DEF table, new
<1> HIDE DEF t
<1>8. Differ(e, t, Created \cup {"coreOf"})
  BY <1>3, <1>4, <1>6 DEF Differ, Fields, Timers, Created
<1>9. t.life = a.life /\ t.disposable = a.disposable /\ t.notifyTimer = FALSE
  BY <1>4, <1>6 DEF Differ, Fields, Timers
<1>10. /\ DOMAIN t = Fields
       /\ t.auto = e.auto /\ t.published = e.published
       /\ t.watched = e.watched
       /\ t.cached = e.cached /\ t.info = e.info /\ t.identityOf = e.identityOf
       /\ t.parent = e.parent /\ t.queue = e.queue
       /\ t.active = e.active /\ t.posted = e.posted
  BY <1>8 DEF Differ, Fields, Created, Timers
<1>11. /\ t.life[c] = "alive" /\ t.id[c] = n
       /\ \A o \in Objects : o # c => t.life[o] = e.life[o] /\ t.id[o] = e.id[o]
       /\ t.disposable = e.disposable \cup {c}
  BY <1>1, <1>3, <1>6, <1>9
<1>12. /\ Identities \subseteq Objects /\ Cores \subseteq Objects /\ c \notin Identities
       /\ e.watched \subseteq Identities /\ e.cached \subseteq Identities
       /\ e.active \subseteq Cores /\ e.published \subseteq Identities
       /\ NoObject \notin Objects
       /\ e.parent \in [Sessions -> Cores \cup {NoObject}]
       /\ e.identityOf \in [Ids -> Identities \cup {NoObject}]
       /\ e.coreOf \in [Ids -> Cores \cup {NoObject}]
  BY RegistryAssumption DEF Objects, Inv, Shape, IdentitiesInv
<1>13. t.coreOf = IF n = NewId THEN e.coreOf ELSE [e.coreOf EXCEPT ![n] = c]
  BY <1>5, <1>6 DEF table
<1>14. Shape(t)
  <2>1. t.life \in [Objects -> Lives] /\ t.id \in [Objects -> Ids \cup {NewId}]
    BY <1>1, <1>3, <1>6, <1>9 DEF Inv, Shape, Lives
  <2>2. t.coreOf \in [Ids -> Cores \cup {NoObject}]
    BY <1>12, <1>13
  <2> QED
    BY <1>10, <1>11, <1>12, <2>1, <2>2 DEF Inv, Shape
<1>15. IdentitiesInv(t)
  BY <1>10, <1>11, <1>12 DEF Inv, IdentitiesInv
<1>16. NoRenaming => TableInv(t, w)
  BY <1>10, <1>11, <1>12 DEF Inv, TableInv
<1>17. StoringSucceeds => CacheInv(t)
  BY <1>10 DEF Inv, CacheInv
<1>18. CoresInv(t)
  BY <1>10, <1>11, <1>12 DEF Inv, CoresInv
<1>19. NoRekey => CoreTableInv(t)
  <2>1. ASSUME NoRekey, NEW m \in Ids, NEW b1 \in Cores
        PROVE  t.coreOf[m] = b1 <=> t.life[b1] = "alive" /\ t.id[b1] = m
    <3>1. e.coreOf[m] = b1 <=> e.life[b1] = "alive" /\ e.id[b1] = m
      BY <2>1 DEF Inv, CoreTableInv
    <3>2. e.coreOf[m] # c
      BY <2>1 DEF Inv, CoreTableInv
    <3>3. m # NewId /\ NewId \notin Ids
      BY DEF Ids, NewId
    <3>4. CASE m = n
      BY <1>11, <1>12, <1>13, <2>1, <3>1, <3>3, <3>4
    <3>5. CASE m # n
      BY <1>11, <1>12, <1>13, <3>1, <3>2, <3>5
    <3> QED
      BY <3>4, <3>5
  <2> QED
    BY <2>1 DEF CoreTableInv
<1>20. DisposalInv(t)
  BY <1>9, <1>10, <1>11, <1>12 DEF Inv, DisposalInv
<1>21. DialogsInv(t, w)
  BY <1>10, <1>11, <1>12 DEF Inv, DialogsInv
<1>22. QueuesInv(t, w)
  BY <1>10, <1>11, <1>12 DEF Inv, QueuesInv
<1>23. Inv(t, w)
  BY <1>14, <1>15, <1>16, <1>17, <1>18, <1>19, <1>20, <1>21, <1>22 DEF Inv
<1> QED
  BY <1>2, <1>7, <1>8, <1>11, <1>23

\* A session is given to a live core, or taken from it.
LEMMA SessionMoves ==
  ASSUME NEW e, NEW w, Inv(e, w), NEW s \in Sessions, NEW c \in Cores \cup {NoObject},
         NoRekey /\ c # NoObject => e.life[c] = "alive"
  PROVE  LET t == [e EXCEPT !.parent[s] = c] IN
         /\ Inv(t, w)
         /\ Differ(e, t, {"parent"})
<1> DEFINE t == [e EXCEPT !.parent[s] = c]
<1>1. /\ Differ(e, t, {"parent"})
      /\ t.parent = [e.parent EXCEPT ![s] = c]
  BY DEF Inv, Shape, Differ, Fields
<1> HIDE DEF t
<1>2. /\ DOMAIN t = Fields
      /\ t.life = e.life /\ t.disposable = e.disposable /\ t.auto = e.auto
      /\ t.notifyTimer = e.notifyTimer
      /\ t.published = e.published /\ t.watched = e.watched /\ t.id = e.id
      /\ t.cached = e.cached /\ t.info = e.info /\ t.identityOf = e.identityOf
      /\ t.coreOf = e.coreOf /\ t.queue = e.queue
      /\ t.active = e.active /\ t.posted = e.posted
  BY <1>1 DEF Differ, Fields
<1>3. /\ e.parent \in [Sessions -> Cores \cup {NoObject}]
      /\ t.parent \in [Sessions -> Cores \cup {NoObject}]
  BY <1>1 DEF Inv, Shape
<1>4. Shape(t)
  BY <1>2, <1>3 DEF Inv, Shape
<1>5. CoresInv(t)
  BY <1>1, <1>2, <1>3 DEF Inv, CoresInv
<1>6. IdentitiesInv(t) /\ DisposalInv(t)
  BY <1>2 DEF Inv, IdentitiesInv, DisposalInv
<1>7. /\ NoRenaming => TableInv(t, w)
      /\ StoringSucceeds => CacheInv(t)
      /\ NoRekey => CoreTableInv(t)
  BY <1>2 DEF Inv, TableInv, CacheInv, CoreTableInv
<1>8. DialogsInv(t, w) /\ QueuesInv(t, w)
  BY <1>2 DEF Inv, DialogsInv, QueuesInv
<1>9. Inv(t, w)
  BY <1>4, <1>5, <1>6, <1>7, <1>8 DEF Inv
<1> QED
  BY <1>1, <1>9 DEF t

\* What the queues of the cores go through.
LEMMA CoreWorks ==
  ASSUME NEW e, NEW w, Inv(e, w), NEW t,
         Differ(e, t, {"queue", "active", "posted", "auto"} \cup Timers),
         t.notifyTimer => e.notifyTimer,
         t.queue \in [Cores -> Seq(Sessions)],
         t.active \subseteq Cores,
         t.auto \in [Objects -> BOOLEAN],
         \A i \in Identities : t.auto[i] = e.auto[i],
         \A c \in t.active : ~t.auto[c] /\ t.queue[c] # <<>>,
         QueuesInv(t, w)
  PROVE  Inv(t, w)
<1>1. /\ DOMAIN t = Fields
      /\ t.life = e.life /\ t.disposable = e.disposable
      /\ t.published = e.published /\ t.watched = e.watched /\ t.id = e.id
      /\ t.cached = e.cached /\ t.info = e.info /\ t.identityOf = e.identityOf
      /\ t.coreOf = e.coreOf /\ t.parent = e.parent
  BY DEF Differ, Fields, Timers
<1>2. Shape(t) /\ RowsGiven(w)
  BY <1>1 DEF Inv, Shape
<1>3. IdentitiesInv(t) /\ CoresInv(t) /\ DisposalInv(t)
  BY <1>1 DEF Inv, IdentitiesInv, CoresInv, DisposalInv
<1>4. /\ NoRenaming => TableInv(t, w)
      /\ StoringSucceeds => CacheInv(t)
      /\ NoRekey => CoreTableInv(t)
  BY <1>1 DEF Inv, TableInv, CacheInv, CoreTableInv
<1>5. DialogsInv(t, w)
  BY <1>1 DEF Inv, DialogsInv
<1> QED
  BY <1>2, <1>3, <1>4, <1>5 DEF Inv

\* createAuthSession()
LEMMA CreateSession ==
  ASSUME NEW e, NEW w, Inv(e, w), NEW n \in Ids \cup {NewId},
         NEW s \in Sessions, NEW c \in CoresFor(e, n)
  PROVE  LET t == createAuthSession(e, n, s, c) IN
         /\ Inv(t, w)
         /\ t.auto = e.auto
         /\ \A o \in Objects : e.life[o] # "none" => t.life[o] = e.life[o]
<1> DEFINE a == sessionCore(e, n, c)
           b == [a EXCEPT !.parent[s] = c]
           t == keepInUse(b, c)
<1>1. c \in Cores
  BY DEF CoresFor, Inv, Shape
<1>2. /\ Inv(a, w) /\ a.auto = e.auto
      /\ \A o \in Objects : e.life[o] # "none" => a.life[o] = e.life[o]
      /\ NoRekey => a.life[c] = "alive"
  <2>1. CASE e.life[c] # "none"
    <3>1. a = e
      BY <2>1 DEF sessionCore
    <3>2. n # NewId /\ e.coreOf[n] = c
      BY <2>1 DEF CoresFor
    <3>3. NoRekey => e.life[c] = "alive"
      BY <1>1, <3>2 DEF Inv, CoreTableInv
    <3> QED
      BY <3>1, <3>3
  <2>2. CASE e.life[c] = "none"
    <3>1. NoRekey /\ n # NewId => e.coreOf[n] = NoObject
      BY <2>2, <1>1 DEF CoresFor, Inv, CoreTableInv
    <3> DEFINE u == [newDisposable(e, c) EXCEPT
                        !.id[c] = n,
                        !.coreOf = IF n = NewId THEN @ ELSE [@ EXCEPT ![n] = c],
                        !.newCores = IF n = NewId THEN @ \cup {c} ELSE @]
    <3>2. a = u
      BY <2>2 DEF sessionCore
    <3> HIDE DEF a
    <3>3. /\ Inv(u, w)
          /\ Differ(e, u, Created \cup {"coreOf"})
          /\ u.life[c] = "alive"
          /\ \A o \in Objects : o # c => u.life[o] = e.life[o]
      BY <1>1, <2>2, <3>1, CreateCore
    <3> HIDE DEF u
    <3> QED
      BY <2>2, <3>2, <3>3 DEF Differ, Fields, Created, Timers
  <2> QED
    BY <2>1, <2>2
<1> HIDE DEF a
<1>3. Inv(b, w) /\ Differ(a, b, {"parent"})
  BY <1>1, <1>2, SessionMoves
<1> HIDE DEF b
<1>4. Inv(t, w) /\ Differ(b, t, Timers)
  BY <1>3, KeepInUse
<1>5. createAuthSession(e, n, s, c) = t
  BY DEF createAuthSession, childAdded, t, b, a
<1> HIDE DEF t
<1>6. t.auto = a.auto /\ t.life = a.life
  BY <1>3, <1>4 DEF Differ, Fields, Timers
<1> QED
  BY <1>2, <1>4, <1>5, <1>6

LEMMA RemoveAtSeq ==
  ASSUME NEW S, NEW q \in Seq(S), NEW k \in DOMAIN q
  PROVE  /\ RemoveAt(q, k) \in Seq(S)
         /\ k # 1 => RemoveAt(q, k) # <<>>
<1>1. k \in 1..Len(q) /\ Len(q) \in Nat
  OBVIOUS
<1>2. SubSeq(q, 1, k - 1) \in Seq(S) /\ SubSeq(q, k + 1, Len(q)) \in Seq(S)
  <2>1. \A i \in 1..(k - 1) : q[i] \in S
    BY <1>1
  <2>2. \A i \in (k + 1)..Len(q) : q[i] \in S
    BY <1>1
  <2>3. SubSeq(q, 1, k - 1) \in Seq(S)
    BY <1>1, <2>1
  <2>4. SubSeq(q, k + 1, Len(q)) \in Seq(S)
    BY <1>1, <2>2
  <2> QED
    BY <2>3, <2>4
<1>3. RemoveAt(q, k) = SubSeq(q, 1, k - 1) \o SubSeq(q, k + 1, Len(q))
  BY DEF RemoveAt
<1>4. RemoveAt(q, k) \in Seq(S)
  BY <1>2, <1>3
<1>5. ASSUME k # 1
      PROVE  RemoveAt(q, k) # <<>>
  <2>1. Len(SubSeq(q, 1, k - 1)) = k - 1
    BY <1>1, <1>5
  <2>2. Len(RemoveAt(q, k)) >= k - 1 /\ k - 1 >= 1
    BY <1>1, <1>2, <1>3, <1>5, <2>1
  <2> QED
    BY <2>2
<1> QED
  BY <1>4, <1>5

\* A request is taken out of the queue, never from under the plugin.
LEMMA RequestDropped ==
  ASSUME NEW e, NEW w, Inv(e, w), NEW s \in Sessions, e.parent[s] # NoObject
  PROVE  LET t == WithoutRequest(e, s) IN Inv(t, w) /\ Differ(e, t, {"queue"})
<1> DEFINE c == e.parent[s]
           index == {k \in DOMAIN e.queue[c] : e.queue[c][k] = s}
           k0 == CHOOSE k \in index : TRUE
           u == [e EXCEPT !.queue[c] = RemoveAt(@, k0)]
           t == WithoutRequest(e, s)
<1>1. /\ DOMAIN e = Fields /\ c \in Cores
      /\ e.queue \in [Cores -> Seq(Sessions)]
      /\ e.queue[c] \in Seq(Sessions)
      /\ e.active \subseteq Cores
      /\ e.auto \in [Objects -> BOOLEAN]
  BY DEF Inv, Shape
<1>2. CASE index = {} \/ (c \in e.active /\ Head(e.queue[c]) = s)
  <2>1. t = e
    BY <1>2 DEF WithoutRequest
  <2> QED
    BY <1>1, <2>1 DEF Differ
<1>3. CASE ~(index = {} \/ (c \in e.active /\ Head(e.queue[c]) = s))
  <2>1. t = u
    BY <1>3 DEF WithoutRequest
  <2>2. k0 \in index
    BY <1>3
  <2> HIDE DEF k0
  <2>3. /\ RemoveAt(e.queue[c], k0) \in Seq(Sessions)
        /\ c \in e.active => RemoveAt(e.queue[c], k0) # <<>>
    <3>1. Head(e.queue[c]) = e.queue[c][1]
      BY <1>1
    <3>2. c \in e.active => k0 # 1
      BY <1>3, <2>2, <3>1
    <3> QED
      BY <1>1, <2>2, <3>2, RemoveAtSeq
  <2>4. /\ Differ(e, u, {"queue"})
        /\ u.queue = [e.queue EXCEPT ![c] = RemoveAt(e.queue[c], k0)]
    BY <1>1 DEF Differ, Fields
  <2>5. e.queue[c] # <<>>
    BY <1>1, <2>2
  <2> HIDE DEF u, t
  <2>6. /\ u.queue \in [Cores -> Seq(Sessions)]
        /\ u.queue[c] = RemoveAt(e.queue[c], k0)
        /\ \A b \in Cores : b # c => u.queue[b] = e.queue[b]
    BY <1>1, <2>3, <2>4
  <2>7. /\ u.active = e.active /\ u.auto = e.auto /\ u.life = e.life
        /\ u.posted = e.posted /\ u.notifyTimer = e.notifyTimer
    BY <2>4 DEF Differ, Fields
  <2>8. Differ(e, u, {"queue", "active", "posted", "auto"} \cup Timers)
    BY <2>4 DEF Differ
  <2> HIDE DEF c
  <2>9. QueuesInv(u, w)
    BY <1>1, <2>5, <2>6, <2>7 DEF Inv, QueuesInv
  <2>10. \A b \in u.active : ~u.auto[b] /\ u.queue[b] # <<>>
    BY <1>1, <2>3, <2>6, <2>7 DEF Inv, DisposalInv
  <2>11. Inv(u, w)
    BY <1>1, <2>6, <2>7, <2>8, <2>9, <2>10, CoreWorks
  <2> QED
    BY <2>1, <2>4, <2>11 DEF t
<1> QED
  BY <1>2, <1>3

\* setId(): a core takes an id that has no core, or gives up the one it has.
LEMMA CoreRenamed ==
  ASSUME NEW e, NEW w, Inv(e, w), NEW c \in Cores, NoRekey => e.life[c] = "alive",
         NEW t, Differ(e, t, {"id", "coreOf", "newCores"}),
         NEW n \in Ids \cup {NewId}, t.id = [e.id EXCEPT ![c] = n],
         \/ /\ n # NewId /\ e.coreOf[n] = NoObject
            /\ NoRekey => e.id[c] = NewId
            /\ t.coreOf = [e.coreOf EXCEPT ![n] = c]
         \/ /\ n = NewId /\ e.id[c] # NewId
            /\ t.coreOf = [e.coreOf EXCEPT ![e.id[c]] = NoObject]
  PROVE  Inv(t, w)
<1>1. /\ DOMAIN t = Fields
      /\ t.life = e.life /\ t.disposable = e.disposable /\ t.auto = e.auto
      /\ t.notifyTimer = e.notifyTimer
      /\ t.published = e.published /\ t.watched = e.watched
      /\ t.cached = e.cached /\ t.info = e.info /\ t.identityOf = e.identityOf
      /\ t.parent = e.parent /\ t.queue = e.queue
      /\ t.active = e.active /\ t.posted = e.posted
  BY DEF Differ, Fields
<1>2. /\ e.coreOf \in [Ids -> Cores \cup {NoObject}]
      /\ e.id \in [Objects -> Ids \cup {NewId}]
      /\ Identities \subseteq Objects /\ Cores \subseteq Objects /\ c \notin Identities
      /\ e.watched \subseteq Identities /\ e.cached \subseteq Identities
      /\ NoObject \notin Objects /\ NewId \notin Ids
  BY RegistryAssumption DEF Inv, Shape, Objects, Ids, NewId
<1>3. /\ t.id[c] = n
      /\ \A o \in Objects : o # c => t.id[o] = e.id[o]
      /\ t.id \in [Objects -> Ids \cup {NewId}]
      /\ t.coreOf \in [Ids -> Cores \cup {NoObject}]
  BY <1>2
<1>4. Shape(t)
  BY <1>1, <1>3 DEF Inv, Shape
<1>5. IdentitiesInv(t)
  BY <1>1, <1>2, <1>3 DEF Inv, IdentitiesInv
<1>6. NoRenaming => TableInv(t, w)
  <2>1. \A i \in Identities : t.id[i] = e.id[i]
    BY <1>2, <1>3
  <2>2. e.identityOf \in [Ids -> Identities \cup {NoObject}]
    BY DEF Inv, Shape
  <2> QED
    BY <1>1, <1>2, <2>1, <2>2 DEF Inv, TableInv
<1>7. StoringSucceeds => CacheInv(t)
  BY <1>1 DEF Inv, CacheInv
<1>8. CoresInv(t) /\ DisposalInv(t)
  BY <1>1 DEF Inv, CoresInv, DisposalInv
<1>9. NoRekey => CoreTableInv(t)
  <2>1. ASSUME NoRekey, NEW m \in Ids, NEW b \in Cores
        PROVE  t.coreOf[m] = b <=> t.life[b] = "alive" /\ t.id[b] = m
    <3>1. /\ e.coreOf[m] = b <=> e.life[b] = "alive" /\ e.id[b] = m
          /\ e.coreOf[m] = c <=> e.id[c] = m
          /\ e.life[c] = "alive"
      BY <2>1 DEF Inv, CoreTableInv
    <3>2. CASE n # NewId
      <4>1. /\ e.coreOf[n] = NoObject /\ e.id[c] = NewId
            /\ t.coreOf = [e.coreOf EXCEPT ![n] = c]
        BY <2>1, <3>2
      <4>2. CASE m = n
        BY <1>1, <1>2, <1>3, <3>1, <4>1, <4>2
      <4>3. CASE m # n
        BY <1>1, <1>2, <1>3, <3>1, <4>1, <4>3
      <4> QED
        BY <4>2, <4>3
    <3>3. CASE n = NewId
      <4>1. e.id[c] \in Ids /\ t.coreOf = [e.coreOf EXCEPT ![e.id[c]] = NoObject]
        BY <1>2, <3>3
      <4>2. CASE m = e.id[c]
        BY <1>1, <1>2, <1>3, <3>1, <3>3, <4>1, <4>2
      <4>3. CASE m # e.id[c]
        BY <1>1, <1>2, <1>3, <3>1, <3>3, <4>1, <4>3
      <4> QED
        BY <4>2, <4>3
    <3> QED
      BY <3>2, <3>3
  <2> QED
    BY <2>1 DEF CoreTableInv
<1>10. DialogsInv(t, w) /\ QueuesInv(t, w)
  BY <1>1 DEF Inv, DialogsInv, QueuesInv
<1> QED
  BY <1>4, <1>5, <1>6, <1>7, <1>8, <1>9, <1>10 DEF Inv

\* ~SignonSessionCore()
LEMMA DeleteCore ==
  ASSUME NEW e, NEW w, Inv(e, w), NEW c \in Cores, e.life[c] = "condemned"
  PROVE  LET t == [Deleted(e, c) EXCEPT !.queue[c] = <<>>,
                                        !.active = @ \ {c},
                                        !.posted = @ \ {c}]
         IN Inv(t, w) /\ \A o \in Objects : o # c => t.life[o] = e.life[o]
<1> DEFINE b == Deleted(e, c)
           t == [b EXCEPT !.queue[c] = <<>>, !.active = @ \ {c}, !.posted = @ \ {c}]
<1>1. /\ DOMAIN e = Fields /\ DOMAIN e.life = Objects /\ DOMAIN e.id = Objects
      /\ DOMAIN e.auto = Objects /\ c \in Objects
      /\ e.queue \in [Cores -> Seq(Sessions)]
  BY DEF Inv, Shape, Objects
<1>2. /\ Differ(e, b, Destroyed)
      /\ b.life = [e.life EXCEPT ![c] = "none"]
      /\ b.disposable = e.disposable \ {c}
      /\ b.auto = [e.auto EXCEPT ![c] = TRUE]
      /\ b.id = [e.id EXCEPT ![c] = NewId]
  BY <1>1, DeletedFields
<1> HIDE DEF b
<1>3. b.queue = e.queue /\ b.active = e.active /\ b.posted = e.posted /\ DOMAIN b = Fields
  BY <1>2 DEF Differ, Fields, Destroyed
<1>4. /\ Differ(b, t, {"queue", "active", "posted"})
      /\ t.queue = [e.queue EXCEPT ![c] = <<>>]
      /\ t.active = e.active \ {c} /\ t.posted = e.posted \ {c}
  BY <1>3 DEF Differ, Fields
<1> HIDE DEF t
<1>5. /\ t.life = b.life /\ t.disposable = b.disposable /\ t.auto = b.auto /\ t.id = b.id
      /\ DOMAIN t = Fields /\ t.notifyTimer = e.notifyTimer
      /\ t.published = e.published /\ t.watched = e.watched
      /\ t.cached = e.cached /\ t.info = e.info /\ t.identityOf = e.identityOf
      /\ t.coreOf = e.coreOf /\ t.parent = e.parent
  BY <1>2, <1>4 DEF Differ, Fields, Destroyed
<1>6. /\ t.life[c] = "none" /\ t.id[c] = NewId
      /\ \A o \in Objects : o # c => /\ t.life[o] = e.life[o] /\ t.auto[o] = e.auto[o]
                                     /\ t.id[o] = e.id[o]
      /\ t.disposable = e.disposable \ {c}
      /\ t.queue[c] = <<>>
      /\ \A o \in Cores : o # c => t.queue[o] = e.queue[o]
  BY <1>1, <1>2, <1>4, <1>5
<1>7. /\ Identities \subseteq Objects /\ Cores \subseteq Objects /\ c \notin Identities
      /\ e.watched \subseteq Identities /\ e.cached \subseteq Identities
      /\ e.active \subseteq Cores /\ e.published \subseteq Identities
      /\ NoObject \notin Objects /\ NewId \notin Ids
      /\ e.parent \in [Sessions -> Cores \cup {NoObject}]
      /\ e.identityOf \in [Ids -> Identities \cup {NoObject}]
  BY RegistryAssumption DEF Inv, Shape, Objects, IdentitiesInv, Ids, NewId
<1>8. Shape(t)
  <2>1. /\ t.life \in [Objects -> Lives]
        /\ t.auto \in [Objects -> BOOLEAN]
        /\ t.id \in [Objects -> Ids \cup {NewId}]
    BY <1>1, <1>2, <1>5 DEF Inv, Shape, Lives
  <2>2. t.queue \in [Cores -> Seq(Sessions)]
    BY <1>1, <1>4
  <2> QED
    BY <1>4, <1>5, <1>6, <1>7, <2>1, <2>2 DEF Inv, Shape
<1>9. IdentitiesInv(t)
  BY <1>5, <1>6, <1>7 DEF Inv, IdentitiesInv
<1>10. NoRenaming => TableInv(t, w)
  BY <1>5, <1>6, <1>7 DEF Inv, TableInv
<1>11. StoringSucceeds => CacheInv(t)
  BY <1>5 DEF Inv, CacheInv
<1>12. CoresInv(t)
  BY <1>5, <1>6, <1>7 DEF Inv, CoresInv
<1>13. NoRekey => CoreTableInv(t)
  BY <1>5, <1>6, <1>7 DEF Inv, CoreTableInv
<1>14. DisposalInv(t)
  BY <1>4, <1>5, <1>6, <1>7 DEF Inv, DisposalInv
<1>15. DialogsInv(t, w)
  BY <1>5, <1>6, <1>7 DEF Inv, DialogsInv
<1>16. QueuesInv(t, w)
  BY <1>4, <1>6, <1>7 DEF Inv, QueuesInv
<1>17. Inv(t, w)
  BY <1>8, <1>9, <1>10, <1>11, <1>12, <1>13, <1>14, <1>15, <1>16 DEF Inv
<1> QED
  BY <1>6, <1>17 DEF t, b

\* The key managers have reported.
LEMMA SystemReady ==
  ASSUME NEW e, NEW w, Inv(e, w), NEW x,
         x.rows = w.rows, x.nextId = w.nextId, x.dialogs = w.dialogs,
         x.misjudged = w.misjudged, x.kept = w.kept
  PROVE  Inv([e EXCEPT !.posted = @ \cup {c \in Cores : e.life[c] # "none"}], x)
<1> DEFINE t == [e EXCEPT !.posted = @ \cup {c \in Cores : e.life[c] # "none"}]
<1>1. /\ Differ(e, t, {"posted"})
      /\ t.posted = e.posted \cup {c \in Cores : e.life[c] # "none"}
  BY DEF Inv, Shape, Differ, Fields
<1> HIDE DEF t
<1>2. /\ DOMAIN t = Fields
      /\ t.life = e.life /\ t.disposable = e.disposable /\ t.auto = e.auto
      /\ t.notifyTimer = e.notifyTimer
      /\ t.published = e.published /\ t.watched = e.watched /\ t.id = e.id
      /\ t.cached = e.cached /\ t.info = e.info /\ t.identityOf = e.identityOf
      /\ t.coreOf = e.coreOf /\ t.parent = e.parent /\ t.queue = e.queue
      /\ t.active = e.active
  BY <1>1 DEF Differ, Fields
<1>3. Shape(t) /\ RowsGiven(x)
  BY <1>2 DEF Inv, Shape, RowsGiven
<1>4. IdentitiesInv(t) /\ CoresInv(t) /\ DisposalInv(t)
  BY <1>2 DEF Inv, IdentitiesInv, CoresInv, DisposalInv
<1>5. /\ NoRenaming => TableInv(t, x)
      /\ StoringSucceeds => CacheInv(t)
      /\ NoRekey => CoreTableInv(t)
  BY <1>2 DEF Inv, TableInv, CacheInv, CoreTableInv
<1>6. DialogsInv(t, x)
  BY <1>2 DEF Inv, DialogsInv
<1>7. QueuesInv(t, x)
  BY <1>1, <1>2 DEF Inv, QueuesInv
<1>8. Inv(t, x)
  BY <1>3, <1>4, <1>5, <1>6, <1>7 DEF Inv
<1> QED
  BY <1>8 DEF t

-----------------------------------------------------------------------------
(* The steps.  An object's place is freed only when it is condemned, and only *)
(* an unprotected core is condemned.                                          *)

LifeStep(e, t) ==
    \A o \in Objects :
       /\ e.life[o] # "none" /\ t.life[o] = "none" => e.life[o] = "condemned"
       /\ o \in Cores /\ e.life[o] = "alive" /\ t.life[o] = "condemned" => e.auto[o]

StepSafe == Inv(d', World') /\ LifeStep(d, d')

\* No object ends or loses its protection.
Keeps(e, t) == /\ t.auto = e.auto
               /\ \A o \in Objects : e.life[o] # "none" => t.life[o] = e.life[o]

LEMMA LifeSteps ==
  ASSUME NEW e, NEW f, NEW t
  PROVE  /\ e.life = t.life => LifeStep(e, t)
         /\ Keeps(e, t) => LifeStep(e, t)
         /\ Keeps(e, f) /\ LifeStep(f, t) => LifeStep(e, t)
         /\ LifeStep(e, f) /\ Keeps(f, t) => LifeStep(e, t)
  BY DEF LifeStep, Keeps

LEMMA WorldIs ==
  /\ World.rows = rows /\ World.nextId = nextId /\ World.dialogs = dialogs
  /\ World.ready = ready /\ World.misjudged = misjudged
  /\ World.kept = hurried \cup misjudged
  /\ World'.rows = rows' /\ World'.nextId = nextId' /\ World'.dialogs = dialogs'
  /\ World'.ready = ready' /\ World'.misjudged = misjudged'
  /\ World'.kept = hurried' \cup misjudged'
  BY DEF World

LEMMA SameWorld ==
  ASSUME Unchanged
  PROVE  World' = World
  BY DEF Unchanged, World, history

\* destroyUnused() after what ends no object.
LEMMA Disposal ==
  ASSUME NEW e, NEW f, NEW w, Inv(f, w), Keeps(e, f)
  PROVE  /\ Inv(destroyUnused(f), w)
         /\ LifeStep(e, destroyUnused(f))
<1> DEFINE t == destroyUnused(f)
<1>1. /\ Inv(t, w)
      /\ \A o \in Objects :
            \/ t.life[o] = f.life[o]
            \/ t.life[o] = "condemned" /\ f.life[o] # "none" /\ f.auto[o]
            \/ t.life[o] = "condemned" /\ o \in Identities
  BY DestroyUnused
<1> HIDE DEF t
<1>2. LifeStep(f, t)
  BY <1>1, RegistryAssumption DEF LifeStep
<1> QED
  BY <1>1, <1>2, LifeSteps DEF t

LEMMA RegisterNewIdentity ==
  ASSUME Inv(d, World), registerNewIdentity
  PROVE  StepSafe
<1>1. PICK i \in Identities :
         /\ d.life[i] = "none"
         /\ d' = destroyUnused(publish(watchIdentity(createIdentity(d, i, NewId), i), i))
  BY DEF registerNewIdentity, Free
<1> DEFINE a == createIdentity(d, i, NewId)
           b == publish(watchIdentity(a, i), i)
<1>2. /\ Inv(a, World)
      /\ Differ(d, a, Created)
      /\ a.life[i] = "alive" /\ a.id[i] = NewId /\ i \notin a.cached
      /\ \A o \in Objects : o # i => a.life[o] = d.life[o]
  BY <1>1, CreateIdentity
<1> HIDE DEF a
<1>3. Inv(b, World) /\ Differ(a, b, {"watched", "published", "identityOf"})
  BY <1>2, PublishIdentity
<1> HIDE DEF b
<1>4. Keeps(d, b)
  BY <1>1, <1>2, <1>3 DEF Keeps, Differ, Fields, Created, Timers
<1>5. d' = destroyUnused(b) /\ World' = World
  BY <1>1, SameWorld DEF a, b, registerNewIdentity
<1> QED
  BY <1>3, <1>4, <1>5, Disposal DEF StepSafe

LEMMA GetIdentity ==
  ASSUME Inv(d, World), NEW p \in Peers, NEW n \in Ids, getIdentity(p, n)
  PROVE  StepSafe
<1>1. PICK i \in Identities :
         LET found == lookUp(i, n)
             gone  == found.info[i].id = NewId
         IN /\ IF Known(n) THEN i = d.identityOf[n] /\ ~Free(i) ELSE Free(i)
            /\ d' = IF gone THEN destroyIdentity(found, i)
                    ELSE destroyUnused(publish(watchIdentity(keepInUse(found, i), i), i))
            /\ misjudged' = IF gone \/ d.life[i] = "condemned"
                            THEN misjudged \cup {i} ELSE misjudged
  BY DEF getIdentity
<1> DEFINE a == IF Known(n) THEN d ELSE createIdentity(d, i, n)
           found == queryInfo(a, i, FALSE)
           gone == found.info[i].id = NewId
           k == keepInUse(found, i)
           b == publish(watchIdentity(k, i), i)
           w == World'
<1>2. UNCHANGED <<rows, nextId, dialogs, ready, exited, hurried>>
  BY DEF getIdentity
<1>3. /\ w.rows = rows /\ w.nextId = nextId /\ w.dialogs = dialogs /\ w.ready = ready
      /\ w.misjudged = misjudged' /\ w.kept = hurried \cup misjudged'
      /\ misjudged \subseteq misjudged'
  BY <1>1, <1>2, WorldIs
<1>4. Inv(d, w)
  BY <1>3, WorldIs, DialogsEnd
<1>5. found = lookUp(i, n)
  BY DEF lookUp
<1>6. /\ d' = IF gone THEN destroyIdentity(found, i) ELSE destroyUnused(b)
      /\ gone \/ d.life[i] = "condemned" => i \in w.misjudged
  BY <1>1, <1>3, <1>5
<1> HIDE DEF w
<1>7. /\ Inv(a, w) /\ Keeps(d, a)
      /\ a.life[i] # "none" /\ (a.life[i] = "alive" \/ i \in w.misjudged)
      /\ a.identityOf = d.identityOf
      /\ NoRenaming => a.id[i] = n
      /\ Known(n) => a = d /\ i = d.identityOf[n]
      /\ ~Known(n) => i \notin a.cached
  <2>1. CASE Known(n)
    <3>1. i = d.identityOf[n] /\ d.life[i] # "none" /\ d.identityOf[n] # NoObject
      BY <1>1, <2>1 DEF Known, Free
    <3>2. d.life[i] = "alive" \/ d.life[i] = "condemned"
      BY <3>1 DEF Inv, Shape, Lives, Objects
    <3>3. NoRenaming => d.id[i] = n
      BY <3>1 DEF Inv, TableInv
    <3> QED
      BY <1>4, <1>6, <2>1, <3>1, <3>2, <3>3 DEF Keeps
  <2>2. CASE ~Known(n)
    <3>1. d.life[i] = "none" /\ a = createIdentity(d, i, n)
      BY <1>1, <2>2 DEF Free
    <3> HIDE DEF a
    <3>2. /\ Inv(a, w)
          /\ Differ(d, a, Created)
          /\ a.life[i] = "alive" /\ a.id[i] = n /\ i \notin a.cached
          /\ \A o \in Objects : o # i => a.life[o] = d.life[o]
      BY <1>4, <3>1, CreateIdentity
    <3>3. a.auto = d.auto /\ a.identityOf = d.identityOf
      BY <3>2 DEF Differ, Fields, Created, Timers
    <3> QED
      BY <2>2, <3>1, <3>2, <3>3 DEF Keeps
  <2> QED
    BY <2>1, <2>2
<1> HIDE DEF a
<1>8. /\ Inv(found, w)
      /\ Differ(a, found, {"cached", "info"})
      /\ i \in found.cached
      /\ i \notin a.cached => found.info[i] = Loaded(a.id[i], FALSE)
  <2>1. w.rows = rows /\ a.life[i] # "none" /\ Inv(a, w) /\ FALSE \in BOOLEAN
    BY <1>3, <1>7
  <2> QED
    BY <2>1, QueryInfo
<1> HIDE DEF found
<1>9. found.life = a.life /\ found.auto = a.auto /\ found.id = a.id
      /\ found.identityOf = a.identityOf /\ found.watched = a.watched
  BY <1>8 DEF Differ, Fields
<1>10. Keeps(d, found)
  BY <1>7, <1>9 DEF Keeps
<1>11. CASE gone
  <2>1. d' = destroyIdentity(found, i) /\ i \in w.misjudged
    BY <1>6, <1>11
  <2>2. /\ Inv(d', w)
        /\ d'.life[i] = "condemned"
        /\ \A o \in Objects : o # i => d'.life[o] = found.life[o]
    BY <1>8, <2>1, DestroyIdentity
  <2>3. LifeStep(d, d')
    BY <1>10, <2>2, RegistryAssumption DEF LifeStep, Keeps
  <2> QED
    BY <2>2, <2>3 DEF StepSafe, w
<1>12. CASE ~gone
  <2>1. Inv(k, w) /\ Differ(found, k, Timers)
    BY <1>8, KeepInUse
  <2> HIDE DEF k
  <2>2. /\ k.life = a.life /\ k.auto = a.auto /\ k.id = a.id
        /\ k.identityOf = a.identityOf /\ k.watched = a.watched
        /\ k.cached = found.cached /\ k.info = found.info
    BY <1>9, <2>1 DEF Differ, Fields, Timers
  <2>3. ASSUME NoRenaming, ~Known(n)
        PROVE  n < w.nextId /\ k.info[i].id = n
    <3>1. found.info[i] = Loaded(n, FALSE)
      BY <1>7, <1>8, <2>3
    <3>2. HasRow(n) /\ found.info[i].id = n
      BY <1>12, <3>1 DEF Loaded
    <3> QED
      BY <1>3, <1>4, <2>2, <3>2 DEF HasRow, Inv, RowsGiven
  <2>4. ASSUME NoRenaming, Known(n)
        PROVE  d.identityOf[n] = i /\ i \in k.watched /\ k.id[i] = n /\ n < w.nextId
    <3>1. i \in d.watched /\ d.identityOf[n] = i /\ a = d
      BY <1>4, <1>7, <2>4 DEF Inv, TableInv, Known
    <3>2. d.id[i] = n /\ n # NewId
      BY <1>7, <2>4, <3>1 DEF Ids, NewId
    <3> QED
      BY <1>4, <2>2, <2>4, <3>1, <3>2 DEF Inv, TableInv
  <2>5. ASSUME NoRenaming, k.id[i] # NewId
        PROVE  k.identityOf[k.id[i]] \in {i, NoObject} /\ k.id[i] < w.nextId
    BY <1>7, <2>2, <2>3, <2>4, <2>5 DEF Known
  <2>6. ASSUME NoRenaming, i \in k.cached, RowIn(w.rows, k.id[i])
        PROVE  k.info[i].id = k.id[i]
    <3>1. CASE Known(n)
      BY <2>1, <2>4, <2>6, <3>1 DEF Inv, TableInv
    <3>2. CASE ~Known(n)
      BY <1>7, <2>2, <2>3, <2>6, <3>2
    <3> QED
      BY <3>1, <3>2
  <2>7. /\ Inv(b, w)
        /\ Differ(k, b, {"watched", "published", "identityOf"})
    BY <1>7, <2>1, <2>2, <2>5, <2>6, PublishIdentity
  <2>8. d' = destroyUnused(b)
    BY <1>6, <1>12 DEF k
  <2> HIDE DEF b
  <2>9. Keeps(d, b)
    BY <1>7, <2>2, <2>7 DEF Keeps, Differ, Fields
  <2> QED
    BY <2>7, <2>8, <2>9, Disposal DEF StepSafe, w
<1> QED
  BY <1>11, <1>12

\* A call finds the object alive, or condemned already, and its information.
LEMMA Queried ==
  ASSUME Inv(d, World), NEW i \in d.published, NEW queryPassword \in BOOLEAN
  PROVE  LET e == queryInfo(d, i, queryPassword) IN
         /\ i \in Identities /\ i \in Objects
         /\ Inv(e, World)
         /\ e.life = d.life /\ e.published = d.published
         /\ i \in e.cached
<1>1. i \in Identities /\ i \in Objects /\ d.life[i] # "none"
  BY DEF Inv, Shape, IdentitiesInv, Objects
<1> DEFINE e == queryInfo(d, i, queryPassword)
<1>2. Inv(e, World) /\ Differ(d, e, {"cached", "info"}) /\ i \in e.cached
  BY <1>1, WorldIs, QueryInfo
<1> HIDE DEF e
<1>3. e.life = d.life /\ e.published = d.published
  BY <1>2 DEF Differ, Fields
<1> QED
  BY <1>1, <1>2, <1>3 DEF e

LEMMA GetInfo ==
  ASSUME Inv(d, World), NEW p \in Peers, NEW i \in Identities, getInfo(p, i)
  PROVE  StepSafe
<1> DEFINE e == queryInfo(d, i, FALSE)
<1>1. i \in d.published /\ World' = World /\ FALSE \in BOOLEAN
  BY SameWorld DEF getInfo, Callable
<1>2. Inv(e, World) /\ e.life = d.life
  BY <1>1, Queried
<1>3. d' = e \/ d' = keepInUse(e, i)
  BY DEF getInfo
<1> HIDE DEF e
<1>4. Inv(d', World) /\ d'.life = d.life
  BY <1>2, <1>3, KeepInUse DEF Differ, Fields, Timers
<1> QED
  BY <1>1, <1>4, LifeSteps DEF StepSafe

LEMMA VerifySecret ==
  ASSUME Inv(d, World), NEW p \in Peers, NEW i \in Identities, verifySecret(p, i)
  PROVE  StepSafe
<1> DEFINE e == queryInfo(d, i, TRUE)
<1>1. i \in d.published /\ World' = World /\ TRUE \in BOOLEAN
  BY SameWorld DEF verifySecret, Callable
<1>2. Inv(e, World) /\ e.life = d.life
  BY <1>1, Queried
<1>3. d' = keepInUse(e, i)
  BY DEF verifySecret
<1> HIDE DEF e
<1>4. Inv(d', World) /\ d'.life = d.life
  BY <1>2, <1>3, KeepInUse DEF Differ, Fields, Timers
<1> QED
  BY <1>1, <1>4, LifeSteps DEF StepSafe

LEMMA ChangeReference ==
  ASSUME Inv(d, World), NEW p \in Peers, NEW i \in Identities, changeReference(p, i)
  PROVE  StepSafe
<1>1. World' = World /\ d' = keepInUse(d, i)
  BY SameWorld DEF changeReference
<1>2. Inv(d', World) /\ d'.life = d.life
  BY <1>1, KeepInUse DEF Differ, Fields, Timers
<1> QED
  BY <1>1, <1>2, LifeSteps DEF StepSafe

\* The object is protected while a dialog is open.
LEMMA DialogProtected ==
  ASSUME NEW e, NEW w, Inv(e, w), NEW x,
         x.rows = w.rows, x.nextId = w.nextId, x.ready = w.ready,
         x.misjudged = w.misjudged, x.kept = w.kept,
         NEW i \in e.published, NEW dialog, dialog.obj = i,
         x.dialogs = w.dialogs \cup {dialog},
         NEW t, t = setAutoDestruct(e, i, FALSE)
  PROVE  Inv(t, x)
<1>1. i \in Objects /\ FALSE \in BOOLEAN
  BY DEF Inv, Shape, IdentitiesInv, Objects
<1>2. /\ Inv(t, w)
      /\ Differ(e, t, Timers \cup {"auto"})
      /\ t.auto[i] = FALSE
  BY <1>1, SetAutoDestruct
<1>3. t.published = e.published
  BY <1>2 DEF Differ, Fields, Timers
<1>4. Inv(t, x)
  BY <1>2, <1>3, DialogOpens
<1> QED
  BY <1>4

LEMMA ProtectionOnly ==
  ASSUME NEW e, NEW w, Inv(e, w), NEW o, NEW value
  PROVE  setAutoDestruct(e, o, value).life = e.life
  BY DEF setAutoDestruct, keepInUse, Inv, Shape, Fields

LEMMA QueryUserPassword ==
  ASSUME Inv(d, World), NEW p \in Peers, NEW i \in Identities,
         NEW kind \in {"update", "verify"}, queryUserPassword(p, i, kind)
  PROVE  StepSafe
<1> DEFINE call == [kind |-> kind, obj |-> i]
           asks == kind = "verify"
           e == queryInfo(d, i, asks)
<1>1. /\ i \in d.published /\ asks \in BOOLEAN
      /\ UNCHANGED <<rows, nextId, ready, exited, history>>
  BY DEF queryUserPassword, Callable
<1>2. Inv(e, World) /\ e.life = d.life /\ e.published = d.published
  BY <1>1, Queried
<1>3. \/ d' = e /\ UNCHANGED dialogs
      \/ d' = setAutoDestruct(e, i, FALSE) /\ Waits(i, kind)
  BY DEF queryUserPassword
<1> HIDE DEF e
<1>4. CASE d' = e /\ UNCHANGED dialogs
  <2>1. World' = World
    BY <1>1, <1>4 DEF World, history
  <2> QED
    BY <1>2, <1>4, <2>1, LifeSteps DEF StepSafe
<1>5. CASE d' = setAutoDestruct(e, i, FALSE) /\ Waits(i, kind)
  <2>1. /\ World'.rows = World.rows /\ World'.nextId = World.nextId
        /\ World'.ready = World.ready /\ World'.misjudged = World.misjudged
        /\ World'.kept = World.kept
        /\ World'.dialogs = World.dialogs \cup {call}
        /\ call.obj = i
    BY <1>1, <1>5, WorldIs DEF Waits, history
  <2> HIDE DEF call
  <2>2. Inv(d', World')
    BY <1>1, <1>2, <1>5, <2>1, DialogProtected
  <2>3. d'.life = e.life
    BY <1>2, <1>5, ProtectionOnly
  <2> QED
    BY <1>2, <2>2, <2>3, LifeSteps DEF StepSafe
<1> QED
  BY <1>3, <1>4, <1>5

LEMMA RemoveIdentity ==
  ASSUME Inv(d, World), NEW p \in Peers, NEW i \in Identities, remove(p, i)
  PROVE  StepSafe
<1> DEFINE call == [kind |-> "remove", obj |-> i]
           w == [rows |-> rows', nextId |-> nextId, dialogs |-> dialogs, ready |-> ready,
                 misjudged |-> misjudged, kept |-> hurried \cup misjudged]
<1>1. /\ i \in d.published
      /\ rows' = IF HasRow(d.id[i]) THEN [rows EXCEPT ![d.id[i]] = NoRow] ELSE rows
      /\ d' = setAutoDestruct(d, i, FALSE)
      /\ dialogs' = dialogs \cup {call} /\ call.obj = i
      /\ UNCHANGED <<nextId, ready, exited, hurried, misjudged>>
  BY DEF remove, Waits, history
<1> HIDE DEF call
<1>2. /\ w.rows = rows' /\ w.nextId = nextId /\ w.dialogs = dialogs /\ w.ready = ready
      /\ w.misjudged = misjudged /\ w.kept = hurried \cup misjudged
  OBVIOUS
<1> HIDE DEF w
<1>3. RowsChange(World, w)
  BY <1>1, <1>2, WorldIs DEF RowsChange, Inv, RowsGiven
<1>4. Inv(d, w)
  BY <1>2, <1>3, WorldIs, RowsStep
<1>5. /\ World'.rows = w.rows /\ World'.nextId = w.nextId /\ World'.ready = w.ready
      /\ World'.misjudged = w.misjudged /\ World'.kept = w.kept
      /\ World'.dialogs = w.dialogs \cup {call}
  BY <1>1, <1>2, WorldIs
<1>6. Inv(d', World')
  BY <1>1, <1>4, <1>5, DialogProtected
<1>7. d'.life = d.life
  BY <1>1, ProtectionOnly
<1> QED
  BY <1>6, <1>7, LifeSteps DEF StepSafe

LEMMA SignOut ==
  ASSUME Inv(d, World), NEW p \in Peers, NEW i \in Identities, signOut(p, i)
  PROVE  StepSafe
<1> DEFINE call == [kind |-> "signOut", obj |-> i]
<1>1. /\ i \in d.published
      /\ UNCHANGED <<rows, nextId, ready, exited, hurried, misjudged>>
      /\ \/ d' = keepInUse(d, i) /\ UNCHANGED dialogs
         \/ /\ d' = setAutoDestruct(d, i, FALSE)
            /\ dialogs' = dialogs \cup {call}
  BY DEF signOut, Waits, history, Callable
<1>2. call.obj = i
  OBVIOUS
<1> HIDE DEF call
<1>3. CASE d' = keepInUse(d, i) /\ UNCHANGED dialogs
  <2>1. World' = World
    BY <1>1, <1>3 DEF World
  <2>2. Inv(d', World) /\ d'.life = d.life
    BY <1>3, KeepInUse DEF Differ, Fields, Timers
  <2> QED
    BY <2>1, <2>2, LifeSteps DEF StepSafe
<1>4. CASE /\ d' = setAutoDestruct(d, i, FALSE)
           /\ dialogs' = dialogs \cup {call}
  <2>1. /\ World'.rows = World.rows /\ World'.nextId = World.nextId
        /\ World'.ready = World.ready /\ World'.misjudged = World.misjudged
        /\ World'.kept = World.kept
        /\ World'.dialogs = World.dialogs \cup {call}
    BY <1>1, <1>4, WorldIs
  <2>2. Inv(d', World')
    BY <1>1, <1>4, <1>2, <2>1, DialogProtected
  <2>3. d'.life = d.life
    BY <1>4, ProtectionOnly
  <2> QED
    BY <2>2, <2>3, LifeSteps DEF StepSafe
<1> QED
  BY <1>1, <1>3, <1>4

\* Storing: the row is new, and then the object has no id, or is the object's.
LEMMA Store ==
  ASSUME Inv(d, World), NEW p \in Peers, NEW i \in Identities,
         NEW n \in Ids \cup {NewId}, store(p, i, n)
  PROVE  StepSafe
<1> DEFINE used   == keepInUse(d, i)
           infoId == IF i \in d.cached THEN d.info[i].id ELSE n
           id     == IF infoId = NewId THEN nextId ELSE d.id[i]
           row    == IF infoId = NewId THEN nextId ELSE infoId
           signal == credentialsUpdated(used, row)
           told   == clearInfo(signal, {i})
           lost   == [id |-> infoId, secret |-> TRUE, current |-> FALSE]
           failed == [used EXCEPT !.cached = @ \cup {i}, !.info[i] = lost]
           stored == [told EXCEPT !.id[i] = id, !.identityOf[id] = i]
<1>1. /\ i \in d.published
      /\ n # d.id[i] => n = NewId /\ ~HasRow(d.id[i])
      /\ NoRenaming /\ d.id[i] # NewId => HasRow(d.id[i])
      /\ UNCHANGED <<dialogs, ready, exited, hurried, misjudged>>
  BY DEF store, history, NoRenaming
<1>2. /\ i \in d.watched /\ d.id[i] \in Ids \cup {NewId} /\ i \in Objects
      /\ d.life[i] # "none"
      /\ d.id[i] # NewId => d.id[i] \in Ids
  BY <1>1 DEF Inv, Shape, IdentitiesInv, Objects
<1>3. /\ infoId \in {NewId, d.id[i]}
      /\ NoRenaming /\ HasRow(d.id[i]) => infoId = d.id[i]
  <2>1. CASE i \in d.cached
    <3>1. infoId = d.info[i].id
      BY <2>1
    <3>2. d.info[i].id \in {NewId, d.id[i]}
      BY <2>1 DEF Inv, IdentitiesInv
    <3>3. NoRenaming /\ HasRow(d.id[i]) => d.info[i].id = d.id[i]
      BY <1>2, <2>1, WorldIs DEF Inv, TableInv, HasRow, RowIn
    <3> QED
      BY <3>1, <3>2, <3>3
  <2>2. CASE i \notin d.cached
    BY <1>1, <2>2
  <2> QED
    BY <2>1, <2>2
<1>4. \/ d' = failed /\ UNCHANGED <<rows, nextId>> /\ ~StoringSucceeds
      \/ /\ d' = stored
         /\ IF infoId = NewId THEN Insert(p)
            ELSE /\ rows' = IF HasRow(infoId) THEN [rows EXCEPT ![infoId] = p] ELSE rows
                 /\ UNCHANGED nextId
  BY DEF store, StoringSucceeds
<1> HIDE DEF infoId
<1>5. Inv(used, World) /\ Differ(d, used, Timers)
  BY KeepInUse
<1> HIDE DEF used
<1>6. /\ used.life = d.life /\ used.id = d.id /\ used.cached = d.cached
      /\ used.watched = d.watched /\ used.published = d.published
  BY <1>5 DEF Differ, Fields, Timers
<1>7. CASE d' = failed /\ UNCHANGED <<rows, nextId>> /\ ~StoringSucceeds
  <2>1. World' = World
    BY <1>1, <1>7 DEF World
  <2>2. lost.id = infoId
    OBVIOUS
  <2> HIDE DEF lost
  <2>3. /\ Differ(used, failed, {"cached", "info"})
        /\ failed.cached = used.cached \cup {i}
        /\ failed.info = [used.info EXCEPT ![i] = lost]
    BY <1>5 DEF Differ, Fields
  <2> HIDE DEF failed
  <2>4. NoRenaming /\ RowIn(World.rows, used.id[i]) => lost.id = used.id[i]
    BY <1>3, <1>6, <2>2, WorldIs DEF RowIn, HasRow
  <2>5. used.life[i] # "none" /\ lost.id \in {NewId, used.id[i]}
    BY <1>2, <1>3, <1>6, <2>2
  <2>6. Inv(failed, World)
    BY <1>5, <1>7, <2>3, <2>4, <2>5, CacheGrows
  <2>7. failed.life = d.life
    BY <1>6, <2>3 DEF Differ, Fields
  <2> QED
    BY <1>7, <2>1, <2>6, <2>7, LifeSteps DEF StepSafe
<1>8. CASE /\ d' = stored
           /\ IF infoId = NewId THEN Insert(p)
              ELSE /\ rows' = IF HasRow(infoId) THEN [rows EXCEPT ![infoId] = p] ELSE rows
                   /\ UNCHANGED nextId
  <2>1. nextId \in Nat \ {0} /\ DOMAIN rows = Ids
    BY WorldIs DEF Inv, RowsGiven
  <2>2. /\ id \in Ids /\ row # NewId
        /\ infoId = NewId => id = nextId /\ nextId' = nextId + 1
        /\ infoId # NewId => id = d.id[i]
    BY <1>2, <1>3, <1>8, <2>1, RegistryAssumption DEF Insert, Ids, NewId
  <2>3. RowsChange(World, World')
    <3>1. World'.nextId \in Nat \ {0} /\ World'.nextId >= World.nextId
      BY <1>8, <2>1, <2>2, WorldIs
    <3>2. CASE infoId = NewId
      BY <1>8, <2>1, <2>2, <3>1, <3>2, WorldIs DEF Insert, RowsChange
    <3>3. CASE infoId # NewId
      BY <1>8, <2>1, <3>1, <3>3, WorldIs DEF HasRow, RowsChange
    <3> QED
      BY <3>2, <3>3
  <2> HIDE DEF id, row
  <2>4. Inv(signal, World) /\ Differ(used, signal, {"cached", "info"})
    BY <1>5, <2>2, CredentialsUpdated
  <2> HIDE DEF signal
  <2>5. /\ Inv(told, World) /\ Differ(signal, told, {"cached", "info"})
        /\ told.cached = signal.cached \ {i}
    BY <2>4, ClearInfo
  <2> HIDE DEF told
  <2>6. /\ told.id = d.id /\ told.published = d.published /\ told.life = d.life
        /\ i \notin told.cached
    BY <1>6, <2>4, <2>5 DEF Differ, Fields
  <2>7. Inv(told, World')
    BY <1>1, <2>3, <2>5, WorldIs, RowsStep
  <2>8. \/ id = told.id[i]
        \/ /\ id = World.nextId /\ id < World'.nextId
           /\ NoRenaming => told.id[i] = NewId
    BY <1>1, <1>3, <2>1, <2>2, <2>6, WorldIs
  <2>9. i \in told.published
    BY <1>1, <2>6
  <2>10. Inv(stored, World') /\ Differ(told, stored, {"id", "identityOf"})
    BY <2>2, <2>5, <2>6, <2>7, <2>8, <2>9, StoreIdentity
  <2> HIDE DEF stored
  <2>11. stored.life = d.life
    BY <2>6, <2>10 DEF Differ, Fields
  <2> QED
    BY <1>8, <2>10, <2>11, LifeSteps DEF StepSafe
<1> QED
  BY <1>4, <1>7, <1>8

\* A dialog ends: with the last of an object, or noted, its protection.
LEMMA DialogAnswered ==
  ASSUME Inv(d, World), NEW call \in dialogs, Answered(call),
         NEW x, x.rows = rows, x.nextId = nextId, x.dialogs = dialogs',
         x.ready = ready, x.misjudged = misjudged, x.kept = hurried' \cup misjudged,
         NEW e, e = setAutoDestruct(d, call.obj, TRUE)
  PROVE  /\ Inv(d, x)
         /\ Inv(e, x)
         /\ e.life = d.life
<1> DEFINE i == call.obj
<1>1. /\ dialogs' = dialogs \ {call}
      /\ hurried' = IF Others(call) = {} THEN hurried ELSE hurried \cup {i}
      /\ World.rows = rows /\ World.nextId = nextId /\ World.dialogs = dialogs
      /\ World.ready = ready /\ World.misjudged = misjudged
      /\ World.kept = hurried \cup misjudged
  BY WorldIs DEF Answered
<1>2. Inv(d, x)
  <2>1. x.dialogs \subseteq World.dialogs /\ World.kept \subseteq x.kept
    BY <1>1
  <2>2. World.misjudged \subseteq x.misjudged /\ x.misjudged \subseteq x.kept
    BY <1>1
  <2> QED
    BY <1>1, <2>1, <2>2, DialogsEnd
<1>3. i \in Identities /\ i \in Objects /\ i \notin Cores
  BY <1>1, RegistryAssumption DEF Inv, DialogsInv, Objects
<1>4. \A other \in x.dialogs : other.obj = i => i \in x.kept
  BY <1>1 DEF Others
<1> HIDE DEF i
<1>5. TRUE \in BOOLEAN /\ (TRUE => \A other \in x.dialogs : other.obj = i => i \in x.kept)
  BY <1>4
<1>6. Inv(setAutoDestruct(d, i, TRUE), x)
  BY <1>2, <1>3, <1>5, SetAutoDestruct
<1>7. Inv(e, x)
  BY <1>6 DEF i
<1> QED
  BY <1>2, <1>7, ProtectionOnly

LEMMA RemovalCompleted ==
  ASSUME Inv(d, World), NEW call \in dialogs, removalCompleted(call)
  PROVE  StepSafe
<1>1. /\ d' = setAutoDestruct(d, call.obj, TRUE)
      /\ Answered(call) /\ UNCHANGED <<rows, nextId, ready, misjudged>>
  BY DEF removalCompleted, Answered
<1>2. /\ World'.rows = rows /\ World'.nextId = nextId /\ World'.dialogs = dialogs'
      /\ World'.ready = ready /\ World'.misjudged = misjudged
      /\ World'.kept = hurried' \cup misjudged
  BY <1>1, WorldIs
<1>3. Inv(d', World') /\ d'.life = d.life
  BY <1>1, <1>2, DialogAnswered
<1> QED
  BY <1>3, LifeSteps DEF StepSafe

LEMMA QueryUiSlot ==
  ASSUME Inv(d, World), NEW call \in dialogs, queryUiSlot(call)
  PROVE  StepSafe
<1> DEFINE i == call.obj
           e == setAutoDestruct(d, i, TRUE)
           x == [rows |-> rows, nextId |-> nextId, dialogs |-> dialogs', ready |-> ready,
                 misjudged |-> misjudged, kept |-> hurried' \cup misjudged]
           told == credentialsUpdated(e, d.info[i].id)
<1>1. Answered(call) /\ UNCHANGED <<ready, misjudged>>
  BY DEF queryUiSlot, Answered
<1>2. \/ d' = e /\ UNCHANGED <<rows, nextId>>
      \/ d.info[i].id = NewId /\ Insert(NoPeer) /\ d' = clearInfo(e, {i})
      \/ /\ d.info[i].id # NewId
         /\ d' = clearInfo(told, {i})
         /\ UNCHANGED <<rows, nextId>>
  BY DEF queryUiSlot
<1>3. /\ x.rows = rows /\ x.nextId = nextId /\ x.dialogs = dialogs'
      /\ x.ready = ready /\ x.misjudged = misjudged
      /\ x.kept = hurried' \cup misjudged
  OBVIOUS
<1> HIDE DEF x
<1>4. Inv(e, x) /\ e.life = d.life
  BY <1>1, <1>3, DialogAnswered
<1> HIDE DEF e
<1>5. /\ World'.dialogs = x.dialogs /\ World'.ready = x.ready
      /\ World'.misjudged = x.misjudged /\ World'.kept = x.kept
  BY <1>1, <1>3, WorldIs
<1>6. nextId \in Nat \ {0} /\ DOMAIN rows = Ids
  BY WorldIs DEF Inv, RowsGiven
<1>7. RowsChange(x, World')
  <2>1. CASE UNCHANGED <<rows, nextId>>
    BY <1>3, <1>6, <2>1, WorldIs DEF RowsChange
  <2>2. CASE Insert(NoPeer)
    BY <1>3, <1>6, <2>2, WorldIs DEF RowsChange, Insert, Ids
  <2> QED
    BY <1>2, <2>1, <2>2
<1>8. Inv(e, World')
  BY <1>4, <1>5, <1>7, RowsStep
<1>9. Inv(d', World') /\ d'.life = d.life
  <2>1. CASE d' = e
    BY <1>4, <1>8, <2>1
  <2>2. CASE d' = clearInfo(e, {i})
    <3>1. Inv(d', World') /\ Differ(e, d', {"cached", "info"})
      BY <1>8, <2>2, ClearInfo
    <3> QED
      BY <1>4, <3>1 DEF Differ, Fields
  <2>3. CASE d.info[i].id # NewId /\ d' = clearInfo(told, {i})
    <3>1. Inv(told, World') /\ Differ(e, told, {"cached", "info"})
      BY <1>8, <2>3, CredentialsUpdated
    <3> HIDE DEF told
    <3>2. Inv(d', World') /\ Differ(told, d', {"cached", "info"})
      BY <2>3, <3>1, ClearInfo
    <3> QED
      BY <1>4, <3>1, <3>2 DEF Differ, Fields
  <2> QED
    BY <1>2, <2>1, <2>2, <2>3
<1> QED
  BY <1>9, LifeSteps DEF StepSafe

LEMMA VerifyUiSlot ==
  ASSUME Inv(d, World), NEW call \in dialogs, verifyUiSlot(call)
  PROVE  StepSafe
<1> DEFINE i == call.obj
           e == setAutoDestruct(d, i, TRUE)
<1>1. /\ UNCHANGED <<rows, nextId>>
      /\ \/ (d' = e \/ d' = clearInfo(e, {i})) /\ Answered(call)
         \/ /\ d' = setAutoDestruct(d, i, FALSE)
            /\ UNCHANGED <<dialogs, ready, exited, hurried, misjudged>>
  BY DEF verifyUiSlot, history
<1>2. CASE (d' = e \/ d' = clearInfo(e, {i})) /\ Answered(call)
  <2>1. /\ World'.rows = rows /\ World'.nextId = nextId /\ World'.dialogs = dialogs'
        /\ World'.ready = ready /\ World'.misjudged = misjudged
        /\ World'.kept = hurried' \cup misjudged
    BY <1>1, <1>2, WorldIs DEF Answered
  <2>2. Inv(e, World') /\ e.life = d.life
    BY <1>2, <2>1, DialogAnswered
  <2> HIDE DEF e
  <2>3. CASE d' = clearInfo(e, {i})
    <3>1. Inv(d', World') /\ Differ(e, d', {"cached", "info"})
      BY <2>2, <2>3, ClearInfo
    <3>2. d'.life = d.life
      BY <2>2, <3>1 DEF Differ, Fields
    <3> QED
      BY <3>1, <3>2, LifeSteps DEF StepSafe
  <2> QED
    BY <1>2, <2>2, <2>3, LifeSteps DEF StepSafe
<1>3. CASE /\ d' = setAutoDestruct(d, i, FALSE)
           /\ UNCHANGED <<dialogs, ready, exited, hurried, misjudged>>
  <2>1. World' = World
    BY <1>1, <1>3 DEF World
  <2>2. i \in Objects /\ i \notin Cores /\ FALSE \in BOOLEAN
    BY RegistryAssumption, WorldIs DEF Inv, DialogsInv, Objects
  <2>3. Inv(setAutoDestruct(d, i, FALSE), World)
    BY <2>2, SetAutoDestruct
  <2>4. d'.life = d.life
    BY <1>3, ProtectionOnly
  <2> QED
    BY <1>3, <2>1, <2>3, <2>4, LifeSteps DEF StepSafe
<1> QED
  BY <1>1, <1>2, <1>3

\* What only the record shows.
LEMMA Quietly ==
  ASSUME Unchanged, Inv(d', World), d'.life = d.life \/ LifeStep(d, d')
  PROVE  StepSafe
  BY SameWorld, LifeSteps DEF StepSafe

LEMMA UsedAndDisposed ==
  ASSUME Inv(d, World), NEW o
  PROVE  /\ Inv(keepInUse(d, o), World)
         /\ Differ(d, keepInUse(d, o), Timers)
         /\ Inv(childRemoved(keepInUse(d, o)), World)
         /\ LifeStep(d, childRemoved(keepInUse(d, o)))
         /\ Differ(d, childRemoved(keepInUse(d, o)), Disposed)
<1> DEFINE e == keepInUse(d, o)
           t == destroyUnused(e)
<1>1. Inv(e, World) /\ Differ(d, e, Timers)
  BY KeepInUse
<1> HIDE DEF e
<1>2. Keeps(d, e)
  BY <1>1 DEF Keeps, Differ, Fields, Timers
<1>3. Inv(t, World) /\ LifeStep(d, t) /\ Differ(e, t, Disposed)
  BY <1>1, <1>2, Disposal, DestroyUnused
<1>4. childRemoved(e) = t
  BY DEF childRemoved
<1> HIDE DEF t
<1>5. Differ(d, t, Disposed)
  BY <1>1, <1>3 DEF Differ, Fields, Timers, Disposed
<1> QED
  BY <1>1, <1>3, <1>4, <1>5 DEF e

LEMMA GetAuthSession ==
  ASSUME Inv(d, World), NEW p \in Peers, NEW n \in Ids \cup {NewId}, getAuthSession(p, n)
  PROVE  StepSafe
<1> DEFINE e == destroyUnused(d)
<1>1. PICK s \in Sessions, c \in CoresFor(e, n) : d' = createAuthSession(e, n, s, c)
  BY DEF getAuthSession
<1>2. Keeps(d, d)
  BY DEF Keeps
<1>3. Inv(e, World) /\ LifeStep(d, e)
  BY <1>2, Disposal
<1> HIDE DEF e
<1>4. /\ Inv(d', World)
      /\ d'.auto = e.auto
      /\ \A o \in Objects : e.life[o] # "none" => d'.life[o] = e.life[o]
  BY <1>1, <1>3, CreateSession
<1>5. LifeStep(d, d')
  BY <1>3, <1>4, LifeSteps DEF Keeps
<1> QED
  BY <1>4, <1>5, Quietly DEF getAuthSession

LEMMA OnAuthSessionAccessReplyFinished ==
  ASSUME Inv(d, World), NEW p \in Peers, NEW n \in Ids,
         onAuthSessionAccessReplyFinished(p, n)
  PROVE  StepSafe
<1>1. PICK s \in Sessions, c \in CoresFor(d, n) :
        d' = destroyUnused(createAuthSession(d, n, s, c))
  BY DEF onAuthSessionAccessReplyFinished
<1> DEFINE e == createAuthSession(d, n, s, c)
<1>2. /\ Inv(e, World)
      /\ e.auto = d.auto
      /\ \A o \in Objects : d.life[o] # "none" => e.life[o] = d.life[o]
  BY <1>1, CreateSession
<1>3. d' = destroyUnused(e)
  BY <1>1
<1> HIDE DEF e
<1>4. Inv(d', World) /\ LifeStep(d, d')
  BY <1>2, <1>3, Disposal DEF Keeps
<1> QED
  BY <1>4, Quietly DEF onAuthSessionAccessReplyFinished

LEMMA GetAuthSessionUnknown ==
  ASSUME Inv(d, World), getAuthSessionUnknown
  PROVE  StepSafe
<1> DEFINE e == destroyUnused(d)
           t == [e EXCEPT !.notifyTimer = FALSE, !.disposeTimer = TRUE]
<1>1. d' = t /\ Unchanged
  BY DEF getAuthSessionUnknown
<1>2. Keeps(d, d)
  BY DEF Keeps
<1>3. Inv(e, World) /\ LifeStep(d, e)
  BY <1>2, Disposal
<1> HIDE DEF e
<1>4. DOMAIN e = Fields
  BY <1>3 DEF Inv, Shape
<1>5. Differ(e, t, Timers) /\ ~t.notifyTimer
  BY <1>4 DEF Differ, Fields, Timers
<1> HIDE DEF t
<1>6. Inv(t, World)
  BY <1>3, <1>5, TimersOnly
<1>7. Keeps(e, t)
  BY <1>5 DEF Keeps, Differ, Fields, Timers
<1>8. LifeStep(d, t)
  BY <1>3, <1>7, LifeSteps
<1> QED
  BY <1>1, <1>6, <1>8, Quietly

LEMMA Process ==
  ASSUME Inv(d, World), NEW s \in Sessions, process(s)
  PROVE  StepSafe
<1> DEFINE c == d.parent[s]
           k == keepInUse(d, c)
           longer == Append(k.queue[c], s)
           e == [k EXCEPT !.queue[c] = longer]
           u == [e EXCEPT !.posted = @ \cup {c}]
<1>1. /\ d.parent[s] # NoObject /\ Unchanged
      /\ d' = IF ready THEN u ELSE e
  BY DEF process, Open, PostStart
<1>2. Inv(k, World) /\ Differ(d, k, Timers)
  BY KeepInUse
<1> HIDE DEF k
<1>3. /\ k.life = d.life /\ k.parent = d.parent /\ k.queue = d.queue
      /\ c \in Cores
  BY <1>1, <1>2 DEF Differ, Fields, Timers, Inv, Shape
<1>4. /\ DOMAIN k = Fields /\ k.queue \in [Cores -> Seq(Sessions)]
      /\ k.active \subseteq Cores /\ k.auto \in [Objects -> BOOLEAN]
  BY <1>2 DEF Inv, Shape
<1>5. longer \in Seq(Sessions) /\ longer # <<>>
  BY <1>3, <1>4
<1> HIDE DEF longer
<1>6. Differ(k, e, {"queue"}) /\ e.queue = [k.queue EXCEPT ![c] = longer]
  BY <1>4 DEF Differ, Fields
<1> HIDE DEF e
<1>7. DOMAIN e = Fields
  BY <1>6 DEF Differ
<1>8. Differ(e, u, {"posted"}) /\ u.posted = e.posted \cup {c}
  BY <1>7 DEF Differ, Fields
<1> HIDE DEF u
<1>9. /\ d'.queue = [k.queue EXCEPT ![c] = longer]
      /\ d'.active = k.active /\ d'.auto = k.auto /\ d'.life = k.life
      /\ d'.notifyTimer = k.notifyTimer
      /\ k.posted \subseteq d'.posted
      /\ ready => c \in d'.posted
      /\ Differ(k, d', {"queue", "active", "posted", "auto"} \cup Timers)
  BY <1>1, <1>6, <1>8 DEF Differ, Fields
<1>10. /\ d'.queue \in [Cores -> Seq(Sessions)]
       /\ d'.queue[c] = longer
       /\ \A b \in Cores : b # c => d'.queue[b] = k.queue[b]
  BY <1>3, <1>4, <1>5, <1>9
<1>11. NoRekey => k.life[c] = "alive"
  BY <1>1, <1>2, <1>3 DEF Inv, CoresInv
<1> HIDE DEF c
<1>12. QueuesInv(d', World)
  BY <1>2, <1>3, <1>9, <1>10, <1>11, WorldIs DEF Inv, QueuesInv
<1>13. \A b \in d'.active : ~d'.auto[b] /\ d'.queue[b] # <<>>
  BY <1>2, <1>4, <1>5, <1>9, <1>10 DEF Inv, DisposalInv
<1>14. Inv(d', World)
  BY <1>2, <1>4, <1>9, <1>10, <1>12, <1>13, CoreWorks
<1> QED
  BY <1>1, <1>3, <1>9, <1>14, Quietly

\* Whatever becomes of the request, the session has a core no longer or still.
LEMMA Canceled ==
  ASSUME Inv(d, World), NEW s \in Sessions, Open(s), NEW e \in CancelOf(s)
  PROVE  Inv(e, World) /\ LifeStep(d, e) /\ (Keeps(d, e) \/ e = destroyUnused(d))
<1>1. Keeps(d, d)
  BY DEF Keeps
<1>2. CASE e = d
  BY <1>1, <1>2, LifeSteps
<1>3. CASE e = childRemoved(d)
  <2>1. e = destroyUnused(d)
    BY <1>3 DEF childRemoved
  <2> QED
    BY <1>1, <2>1, Disposal
<1>4. CASE e = WithoutRequest(d, s)
  <2>1. Inv(e, World) /\ Differ(d, e, {"queue"})
    BY <1>4, RequestDropped DEF Open
  <2>2. Keeps(d, e)
    BY <2>1 DEF Keeps, Differ, Fields
  <2> QED
    BY <2>1, <2>2, LifeSteps
<1> QED
  BY <1>2, <1>3, <1>4 DEF CancelOf

LEMMA CancelSession ==
  ASSUME Inv(d, World), NEW s \in Sessions, cancel(s)
  PROVE  StepSafe
  BY Canceled, Quietly DEF cancel

LEMMA ObjectUnref ==
  ASSUME Inv(d, World), NEW s \in Sessions, objectUnref(s)
  PROVE  StepSafe
<1>1. PICK e \in CancelOf(s) : d' = childRemoved([e EXCEPT !.parent[s] = NoObject])
  BY DEF objectUnref
<1> DEFINE f == [e EXCEPT !.parent[s] = NoObject]
<1>2. Inv(e, World) /\ LifeStep(d, e)
  BY Canceled DEF objectUnref
<1>3. Inv(f, World) /\ Differ(e, f, {"parent"})
  BY <1>2, SessionMoves
<1>4. d' = destroyUnused(f)
  BY <1>1 DEF childRemoved
<1> HIDE DEF f
<1>5. f.life = e.life /\ f.auto = e.auto
  BY <1>3 DEF Differ, Fields
<1>6. Keeps(d, e) \/ e = destroyUnused(d)
  BY Canceled DEF objectUnref
<1>7. e.auto = d.auto
  <2>1. Differ(d, destroyUnused(d), Disposed)
    BY DestroyUnused
  <2> QED
    BY <1>6, <2>1 DEF Keeps, Differ, Fields, Disposed
<1>8. /\ Inv(d', World)
      /\ \A o \in Objects :
            \/ d'.life[o] = f.life[o]
            \/ d'.life[o] = "condemned" /\ f.life[o] # "none" /\ f.auto[o]
            \/ d'.life[o] = "condemned" /\ o \in Identities
  BY <1>3, <1>4, DestroyUnused
<1>9. e.life \in [Objects -> Lives] /\ Identities \cap Cores = {}
  BY <1>2, RegistryAssumption DEF Inv, Shape
<1>10. LifeStep(d, d')
  BY <1>2, <1>5, <1>7, <1>8, <1>9 DEF LifeStep, Lives
<1> QED
  BY <1>8, <1>10, Quietly DEF objectUnref

LEMMA QueryAvailableMechanisms ==
  ASSUME Inv(d, World), NEW s \in Sessions, queryAvailableMechanisms(s)
  PROVE  StepSafe
<1>1. d' = keepInUse(d, d.parent[s]) /\ Unchanged
  BY DEF queryAvailableMechanisms
<1>2. Inv(d', World) /\ d'.life = d.life
  BY <1>1, KeepInUse DEF Differ, Fields, Timers
<1> QED
  BY <1>1, <1>2, Quietly

LEMMA SetId ==
  ASSUME Inv(d, World), NEW p \in Peers, NEW s \in Sessions, NEW n \in Ids \cup {NewId},
         setId(p, s, n)
  PROVE  StepSafe
<1> DEFINE c == d.parent[s]
           e == keepInUse(d, c)
           m == d.id[c]
           new == (e.newCores \cup {d.coreOf[m]}) \ {NoObject}
           rest == e.newCores \ {c}
           u == [e EXCEPT !.coreOf[m] = NoObject, !.newCores = new, !.id[c] = NewId]
           v == [e EXCEPT !.coreOf[n] = c, !.newCores = rest, !.id[c] = n]
<1>1. /\ c # NoObject /\ Unchanged
      /\ m \notin {n, NewId} /\ n # NewId => ~NoRekey
      /\ \/ d' = e
         \/ m # n /\ n = NewId /\ d' = u
         \/ m # n /\ n # NewId /\ d.coreOf[n] = NoObject /\ d' = v
  BY DEF setId, Open, NoRekey
<1>2. Inv(e, World) /\ Differ(d, e, Timers)
  BY KeepInUse
<1> HIDE DEF e
<1>3. /\ e.life = d.life /\ e.parent = d.parent /\ e.coreOf = d.coreOf /\ e.id = d.id
      /\ c \in Cores
  BY <1>1, <1>2 DEF Differ, Fields, Timers, Inv, Shape
<1>4. NoRekey => e.life[c] = "alive"
  BY <1>1, <1>2, <1>3 DEF Inv, CoresInv
<1>5. DOMAIN e = Fields
  BY <1>2 DEF Inv, Shape
<1> HIDE DEF new, rest
<1>6. CASE d' = e
  BY <1>1, <1>2, <1>3, <1>6, Quietly
<1>7. CASE m # n /\ n = NewId /\ d' = u
  <2>1. /\ Differ(e, u, {"id", "coreOf", "newCores"})
        /\ u.id = [e.id EXCEPT ![c] = NewId]
        /\ u.coreOf = [e.coreOf EXCEPT ![e.id[c]] = NoObject]
    BY <1>3, <1>5 DEF Differ, Fields
  <2> HIDE DEF u
  <2>2. e.id[c] # NewId /\ NewId \in Ids \cup {NewId}
    BY <1>3, <1>7
  <2> HIDE DEF c
  <2>3. Inv(u, World)
    BY <1>2, <1>3, <1>4, <2>1, <2>2, CoreRenamed
  <2>4. u.life = d.life
    BY <1>3, <2>1 DEF Differ, Fields
  <2> QED
    BY <1>1, <1>7, <2>3, <2>4, Quietly
<1>8. CASE m # n /\ n # NewId /\ d.coreOf[n] = NoObject /\ d' = v
  <2>1. /\ Differ(e, v, {"id", "coreOf", "newCores"})
        /\ v.id = [e.id EXCEPT ![c] = n]
        /\ v.coreOf = [e.coreOf EXCEPT ![n] = c]
    BY <1>3, <1>5 DEF Differ, Fields
  <2> HIDE DEF v
  <2>2. NoRekey => e.id[c] = NewId
    BY <1>1, <1>3, <1>8
  <2>3. e.coreOf[n] = NoObject
    BY <1>3, <1>8
  <2> HIDE DEF c
  <2>4. Inv(v, World)
    BY <1>2, <1>3, <1>4, <1>8, <2>1, <2>2, <2>3, CoreRenamed
  <2>5. v.life = d.life
    BY <1>3, <2>1 DEF Differ, Fields
  <2> QED
    BY <1>1, <1>8, <2>4, <2>5, Quietly
<1> QED
  BY <1>1, <1>6, <1>7, <1>8

LEMMA StartNewRequest ==
  ASSUME Inv(d, World), NEW c \in Cores, startNewRequest(c)
  PROVE  StepSafe
<1> DEFINE e == [d EXCEPT !.posted = @ \ {c}]
           f == [e EXCEPT !.active = @ \cup {c}]
<1>1. /\ Unchanged
      /\ \/ d.queue[c] = <<>> /\ d' = setAutoDestruct(e, c, TRUE)
         \/ d.queue[c] # <<>> /\ c \in d.active /\ d' = keepInUse(e, c)
         \/ d.queue[c] # <<>> /\ d' = setAutoDestruct(f, c, FALSE)
  BY DEF startNewRequest
<1>2. /\ DOMAIN d = Fields /\ d.queue \in [Cores -> Seq(Sessions)]
      /\ d.active \subseteq Cores /\ d.auto \in [Objects -> BOOLEAN]
      /\ c \in Objects /\ Cores \subseteq Objects /\ c \notin Identities
      /\ Identities \subseteq Objects
  BY RegistryAssumption DEF Inv, Shape, Objects
<1>3. Differ(d, e, {"posted"}) /\ e.posted = d.posted \ {c}
  BY <1>2 DEF Differ, Fields
<1> HIDE DEF e
<1>4. /\ DOMAIN e = Fields /\ e.queue = d.queue /\ e.active = d.active /\ e.auto = d.auto
      /\ e.life = d.life /\ e.notifyTimer = d.notifyTimer
  BY <1>3 DEF Differ, Fields
<1>5. \A b \in d.active : ~d.auto[b] /\ d.queue[b] # <<>>
  BY DEF Inv, DisposalInv
<1>6. CASE d.queue[c] = <<>> /\ d' = setAutoDestruct(e, c, TRUE)
  <2>1. QueuesInv(e, World)
    BY <1>3, <1>4, <1>6 DEF Inv, QueuesInv
  <2>2. Differ(d, e, {"queue", "active", "posted", "auto"} \cup Timers)
    BY <1>3 DEF Differ
  <2>3. Inv(e, World)
    BY <1>2, <1>4, <1>5, <2>1, <2>2, CoreWorks
  <2>4. /\ TRUE \in BOOLEAN /\ e.queue[c] = <<>>
        /\ \A call \in World.dialogs : call.obj # c
    BY <1>2, <1>4, <1>6 DEF Inv, DialogsInv
  <2>5. Inv(setAutoDestruct(e, c, TRUE), World)
    BY <1>2, <2>3, <2>4, SetAutoDestruct
  <2>6. d'.life = d.life
    BY <1>4, <1>6, <2>3, ProtectionOnly
  <2> QED
    BY <1>1, <1>6, <2>5, <2>6, Quietly
<1>7. CASE d.queue[c] # <<>> /\ c \in d.active /\ d' = keepInUse(e, c)
  <2>1. QueuesInv(e, World)
    BY <1>3, <1>4, <1>5, <1>7 DEF Inv, QueuesInv
  <2>2. Differ(d, e, {"queue", "active", "posted", "auto"} \cup Timers)
    BY <1>3 DEF Differ
  <2>3. Inv(e, World)
    BY <1>2, <1>4, <1>5, <2>1, <2>2, CoreWorks
  <2>4. Inv(d', World) /\ Differ(e, d', Timers)
    BY <1>7, <2>3, KeepInUse
  <2>5. d'.life = d.life
    BY <1>4, <2>4 DEF Differ, Fields, Timers
  <2> QED
    BY <1>1, <2>4, <2>5, Quietly
<1>8. CASE d.queue[c] # <<>> /\ d' = setAutoDestruct(f, c, FALSE)
  <2> DEFINE g == [f EXCEPT !.auto[c] = FALSE]
             t == keepInUse(g, c)
  <2>1. Differ(e, f, {"active"}) /\ f.active = d.active \cup {c}
    BY <1>4 DEF Differ, Fields
  <2>2. d' = t
    BY <1>8 DEF setAutoDestruct
  <2> HIDE DEF f
  <2>3. DOMAIN f = Fields /\ f.auto = d.auto
    BY <1>4, <2>1 DEF Differ, Fields
  <2>4. Differ(f, g, {"auto"}) /\ g.auto = [d.auto EXCEPT ![c] = FALSE]
    BY <2>3 DEF Differ, Fields
  <2> HIDE DEF g
  <2>5. Differ(g, t, Timers) /\ t.notifyTimer = FALSE
    BY <2>4 DEF keepInUse, Differ, Fields, Timers
  <2> HIDE DEF t
  <2>6. /\ t.queue = d.queue /\ t.active = d.active \cup {c} /\ t.posted = d.posted \ {c}
        /\ t.auto = [d.auto EXCEPT ![c] = FALSE] /\ t.life = d.life
    BY <1>3, <1>4, <2>1, <2>4, <2>5 DEF Differ, Fields, Timers
  <2>7. Differ(d, t, {"queue", "active", "posted", "auto"} \cup Timers)
    BY <1>3, <2>1, <2>4, <2>5 DEF Differ
  <2>8. /\ t.auto \in [Objects -> BOOLEAN] /\ t.auto[c] = FALSE
        /\ \A o \in Objects : o # c => t.auto[o] = d.auto[o]
    BY <1>2, <2>6
  <2>9. QueuesInv(t, World)
    BY <1>2, <2>6, <2>8 DEF Inv, QueuesInv
  <2>10. \A b \in t.active : ~t.auto[b] /\ t.queue[b] # <<>>
    BY <1>2, <1>5, <1>8, <2>6, <2>8
  <2>11. \A i \in Identities : t.auto[i] = d.auto[i]
    BY <1>2, <2>8
  <2>12. /\ t.queue \in [Cores -> Seq(Sessions)] /\ t.active \subseteq Cores
         /\ t.notifyTimer => d.notifyTimer
    BY <1>2, <2>5, <2>6
  <2>13. Inv(t, World)
    BY <2>7, <2>8, <2>9, <2>10, <2>11, <2>12, CoreWorks
  <2> QED
    BY <1>1, <2>2, <2>6, <2>13, Quietly
<1> QED
  BY <1>1, <1>6, <1>7, <1>8

\* The request at the head is answered and the next one is posted.
LEMMA RequestDone ==
  ASSUME Inv(d, World), NEW c \in Cores, requestDone(c)
  PROVE  StepSafe
<1>1. PICK e \in {keepInUse(d, c), childRemoved(keepInUse(d, c))} :
        LET f == PostStart([e EXCEPT !.active = @ \ {c}, !.queue[c] = Tail(@)], c)
        IN  d' = f \/ (HasRow(d.id[c]) /\ d' = credentialsUpdated(f, d.id[c]))
  BY DEF requestDone
<1> DEFINE rest == Tail(e.queue[c])
           a == [e EXCEPT !.active = @ \ {c}, !.queue[c] = rest]
           f == [a EXCEPT !.posted = @ \cup {c}]
<1>2. /\ d' = f \/ (HasRow(d.id[c]) /\ d' = credentialsUpdated(f, d.id[c]))
      /\ c \in d.active /\ Unchanged
  BY <1>1 DEF PostStart, requestDone
<1>3. Inv(e, World) /\ LifeStep(d, e) /\ (Differ(d, e, Timers) \/ Differ(d, e, Disposed))
  <2>1. Keeps(d, d)
    BY DEF Keeps
  <2>2. CASE e = keepInUse(d, c)
    <3>1. Inv(e, World) /\ Differ(d, e, Timers)
      BY <2>2, UsedAndDisposed
    <3>2. e.life = d.life
      BY <3>1 DEF Differ, Fields, Timers
    <3> QED
      BY <3>1, <3>2, LifeSteps
  <2>3. CASE e = childRemoved(keepInUse(d, c))
    BY <2>3, UsedAndDisposed
  <2> QED
    BY <2>2, <2>3
<1>4. e.active = d.active /\ e.queue = d.queue /\ e.auto = d.auto
  BY <1>3 DEF Differ, Fields, Timers, Disposed
<1>5. /\ DOMAIN e = Fields /\ e.queue \in [Cores -> Seq(Sessions)]
      /\ e.active \subseteq Cores /\ e.auto \in [Objects -> BOOLEAN]
      /\ e.queue[c] # <<>>
      /\ \A b \in e.active : ~e.auto[b] /\ e.queue[b] # <<>>
  BY <1>2, <1>3, <1>4 DEF Inv, Shape, DisposalInv
<1>6. rest \in Seq(Sessions)
  BY <1>5
<1> HIDE DEF rest
<1>7. /\ Differ(e, a, {"active", "queue"})
      /\ a.active = e.active \ {c} /\ a.queue = [e.queue EXCEPT ![c] = rest]
  BY <1>5 DEF Differ, Fields
<1> HIDE DEF a
<1>8. DOMAIN a = Fields /\ a.posted = e.posted
  BY <1>7 DEF Differ, Fields
<1>9. Differ(a, f, {"posted"}) /\ f.posted = e.posted \cup {c}
  BY <1>8 DEF Differ, Fields
<1> HIDE DEF f
<1>10. /\ f.active = e.active \ {c} /\ f.queue = [e.queue EXCEPT ![c] = rest]
       /\ f.auto = e.auto /\ f.life = e.life /\ f.notifyTimer = e.notifyTimer
       /\ Differ(e, f, {"queue", "active", "posted", "auto"} \cup Timers)
  BY <1>7, <1>9 DEF Differ, Fields
<1>11. /\ f.queue \in [Cores -> Seq(Sessions)]
       /\ \A b \in Cores : b # c => f.queue[b] = e.queue[b]
  BY <1>5, <1>6, <1>10
<1>12. QueuesInv(f, World)
  BY <1>3, <1>5, <1>9, <1>10, <1>11 DEF Inv, QueuesInv
<1>13. Inv(f, World)
  BY <1>3, <1>5, <1>10, <1>11, <1>12, CoreWorks
<1>14. CASE d' = f
  <2>1. LifeStep(d, d')
    BY <1>3, <1>10, <1>14 DEF LifeStep
  <2> QED
    BY <1>2, <1>13, <1>14, <2>1, Quietly
<1>15. CASE HasRow(d.id[c]) /\ d' = credentialsUpdated(f, d.id[c])
  <2>1. d.id[c] # NewId
    BY <1>15 DEF HasRow
  <2>2. Inv(d', World) /\ Differ(f, d', {"cached", "info"})
    BY <1>13, <1>15, <2>1, CredentialsUpdated
  <2>3. d'.life = f.life
    BY <2>2 DEF Differ, Fields
  <2>4. LifeStep(d, d')
    BY <1>3, <1>10, <2>3 DEF LifeStep
  <2> QED
    BY <1>2, <2>2, <2>4, Quietly
<1> QED
  BY <1>2, <1>14, <1>15

LEMMA UseCore ==
  ASSUME Inv(d, World), NEW c \in Cores, useCore(c)
  PROVE  StepSafe
<1>1. Unchanged /\ d' \in {keepInUse(d, c), childRemoved(keepInUse(d, c))}
  BY DEF useCore
<1>2. CASE d' = keepInUse(d, c)
  <2>1. Inv(d', World) /\ Differ(d, d', Timers)
    BY <1>2, UsedAndDisposed
  <2>2. d'.life = d.life
    BY <2>1 DEF Differ, Fields, Timers
  <2> QED
    BY <1>1, <2>1, <2>2, Quietly
<1>3. CASE d' = childRemoved(keepInUse(d, c))
  BY <1>1, <1>3, UsedAndDisposed, Quietly
<1> QED
  BY <1>1, <1>2, <1>3

LEMMA CredentialsSystemReady ==
  ASSUME Inv(d, World), credentialsSystemReady
  PROVE  StepSafe
<1>1. /\ d' = [d EXCEPT !.posted = @ \cup {c \in Cores : d.life[c] # "none"}]
      /\ UNCHANGED <<rows, nextId, dialogs, exited, hurried, misjudged>>
  BY DEF credentialsSystemReady, Free, history
<1>2. Inv(d', World')
  BY <1>1, WorldIs, SystemReady
<1>3. d'.life = d.life
  BY <1>1 DEF Inv, Shape, Fields
<1> QED
  BY <1>2, <1>3, LifeSteps DEF StepSafe

-----------------------------------------------------------------------------
(* The main loop. *)

LEMMA DeleteIdentityStep ==
  ASSUME Inv(d, World), NEW i \in Identities, deleteIdentity(i)
  PROVE  StepSafe
<1> DEFINE n == d.id[i]
           e == [Deleted(clearInfo(d, {i}), i) EXCEPT !.published = @ \ {i},
                                                      !.watched = @ \ {i}]
           t == IF i \in d.watched /\ n # NewId
                THEN [e EXCEPT !.identityOf[n] = NoObject] ELSE e
<1>1. /\ d.life[i] = "condemned" /\ d' = t
      /\ dialogs' = {call \in dialogs : call.obj # i}
      /\ hurried' = hurried \ {i} /\ misjudged' = misjudged \ {i}
      /\ UNCHANGED <<rows, nextId, ready, exited>>
  BY DEF deleteIdentity
<1>2. /\ World'.rows = World.rows /\ World'.nextId = World.nextId
      /\ World'.ready = World.ready
      /\ World'.dialogs \subseteq World.dialogs
      /\ \A call \in World'.dialogs : call.obj # i
      /\ World.misjudged \ {i} \subseteq World'.misjudged
      /\ World.kept \ {i} \subseteq World'.kept
      /\ World'.misjudged \subseteq World'.kept
  BY <1>1, WorldIs
<1>3. Inv(t, World')
  BY <1>1, <1>2, DeleteIdentity
<1>4. \A o \in Objects : o # i => d'.life[o] = d.life[o]
  <2> DEFINE c == clearInfo(d, {i})
             b == Deleted(c, i)
  <2>1. DOMAIN d = Fields /\ DOMAIN d.life = Objects
    BY DEF Inv, Shape
  <2>2. Differ(d, c, {"cached", "info"})
    BY ClearInfo
  <2>3. DOMAIN c = Fields /\ c.life = d.life
    BY <2>2 DEF Differ, Fields
  <2> HIDE DEF c
  <2>4. DOMAIN b = Fields /\ b.life = [c.life EXCEPT ![i] = "none"]
    BY <2>3, DeletedFields DEF Differ
  <2> HIDE DEF b
  <2>5. e = [b EXCEPT !.published = @ \ {i}, !.watched = @ \ {i}]
    BY DEF b, c
  <2>6. DOMAIN e = Fields /\ e.life = b.life
    BY <2>4, <2>5 DEF Fields
  <2> HIDE DEF e
  <2>7. d'.life = b.life
    BY <1>1, <2>6 DEF Fields
  <2> QED
    BY <2>1, <2>3, <2>4, <2>7
<1>5. LifeStep(d, d')
  BY <1>1, <1>4, RegistryAssumption DEF LifeStep
<1> QED
  BY <1>1, <1>3, <1>5 DEF StepSafe

LEMMA DeleteCoreStep ==
  ASSUME Inv(d, World), NEW c \in Cores, deleteCore(c)
  PROVE  StepSafe
<1> DEFINE t == [Deleted(d, c) EXCEPT !.queue[c] = <<>>,
                                      !.active = @ \ {c},
                                      !.posted = @ \ {c}]
<1>1. d.life[c] = "condemned" /\ d' = t /\ Unchanged
  BY DEF deleteCore
<1>2. Inv(t, World) /\ \A o \in Objects : o # c => t.life[o] = d.life[o]
  BY <1>1, DeleteCore
<1> HIDE DEF t
<1>3. LifeStep(d, d')
  BY <1>1, <1>2 DEF LifeStep
<1> QED
  BY <1>1, <1>2, <1>3, Quietly

LEMMA TimePasses ==
  ASSUME Inv(d, World), timePasses
  PROVE  StepSafe
<1>1. DOMAIN d = Fields /\ Unchanged
  BY DEF Inv, Shape, timePasses
<1>2. Differ(d, d', Timers) /\ d'.notifyTimer = d.notifyTimer /\ d'.life = d.life
  BY <1>1 DEF timePasses, Differ, Fields, Timers
<1>3. Inv(d', World)
  BY <1>2, TimersOnly
<1> QED
  BY <1>1, <1>2, <1>3, Quietly

LEMMA DisposeTimeout ==
  ASSUME Inv(d, World), disposeTimeout
  PROVE  StepSafe
<1> DEFINE all == {o \in Objects : d.life[o] = "alive"}
           e == [d EXCEPT !.unused = all, !.disposeTimer = FALSE]
<1>1. /\ Unchanged
      /\ d' = e \/ d' = destroyUnused(e)
  BY DEF disposeTimeout
<1>2. DOMAIN d = Fields
  BY DEF Inv, Shape
<1> HIDE DEF all
<1>3. /\ Differ(d, e, Timers) /\ e.notifyTimer = d.notifyTimer
      /\ e.life = d.life /\ e.auto = d.auto
  BY <1>2 DEF Differ, Fields, Timers
<1> HIDE DEF e
<1>4. Inv(e, World)
  BY <1>3, TimersOnly
<1>5. CASE d' = e
  BY <1>1, <1>3, <1>4, <1>5, Quietly
<1>6. CASE d' = destroyUnused(e)
  <2>1. Keeps(d, e)
    BY <1>3 DEF Keeps
  <2>2. Inv(d', World) /\ LifeStep(d, d')
    BY <1>4, <1>6, <2>1, Disposal
  <2> QED
    BY <1>1, <2>2, Quietly
<1> QED
  BY <1>1, <1>5, <1>6

\* When the daemon ends every object is gone, and every dialog with its own.
LEMMA NotifyTimeout ==
  ASSUME Inv(d, World), notifyTimeout
  PROVE  StepSafe /\ EndsUnused'
<1>1. /\ DOMAIN d = Fields
      /\ d' = [d EXCEPT !.notifyTimer = FALSE]
      /\ UNCHANGED <<rows, nextId, dialogs, ready, hurried, misjudged>>
      /\ d.notifyTimer
      /\ \A o \in Objects : d.life[o] # "condemned"
  BY DEF Inv, Shape, notifyTimeout, history, Quiet, Condemned
<1>2. World' = World
  BY <1>1 DEF World
<1>3. Differ(d, d', Timers) /\ ~d'.notifyTimer /\ d'.life = d.life
  BY <1>1 DEF Differ, Fields, Timers
<1>4. Inv(d', World)
  BY <1>3, TimersOnly
<1>5. \A o \in Objects : d.life[o] = "none"
  <2>1. \A o \in Objects : d.life[o] # "alive"
    BY <1>1 DEF Inv, DisposalInv
  <2> QED
    BY <1>1, <2>1 DEF Inv, Shape, Lives
<1>6. dialogs = {}
  BY <1>5, WorldIs DEF Inv, DialogsInv, Objects
<1> QED
  BY <1>1, <1>2, <1>3, <1>4, <1>5, <1>6, LifeSteps DEF StepSafe, EndsUnused

-----------------------------------------------------------------------------
(* All of them together. *)

LEMMA InitSafe ==
  ASSUME Init
  PROVE  Inv(d, World) /\ EndsUnused
<1>1. /\ World.rows = [n \in Ids |-> NoRow] /\ World.nextId = 1 /\ World.dialogs = {}
      /\ World.misjudged = {} /\ World.kept = {}
  BY WorldIs DEF Init
<1>2. Shape(d)
  BY DEF Init, Shape, Fields, Lives
<1>3. RowsGiven(World)
  BY <1>1 DEF RowsGiven
<1>4. IdentitiesInv(d) /\ CoresInv(d) /\ DisposalInv(d)
  BY DEF Init, IdentitiesInv, CoresInv, DisposalInv
<1>5. TableInv(d, World) /\ CacheInv(d)
  BY DEF Init, TableInv, CacheInv
<1>6. CoreTableInv(d)
  BY RegistryAssumption DEF Init, CoreTableInv, Objects
<1>7. DialogsInv(d, World) /\ QueuesInv(d, World)
  BY <1>1 DEF Init, DialogsInv, QueuesInv, Objects
<1> QED
  BY <1>2, <1>3, <1>4, <1>5, <1>6, <1>7 DEF Inv, Init, EndsUnused

\* The daemon's steps that end nothing of it.
LEMMA Running ==
  ASSUME Next
  PROVE  ~exited /\ (notifyTimeout \/ exited' = exited)
<1>1. CASE IdentityCall
  <2>1. registerNewIdentity => exited' = exited
    BY DEF registerNewIdentity, Unchanged
  <2>2. \A p \in Peers, n \in Ids : getIdentity(p, n) => exited' = exited
    BY DEF getIdentity
  <2>3. \A p \in Peers, i \in Identities :
           getInfo(p, i) \/ verifySecret(p, i) \/ changeReference(p, i)
              => exited' = exited
    BY DEF getInfo, verifySecret, changeReference, Unchanged
  <2>4. \A p \in Peers, i \in Identities, kind \in {"update", "verify"} :
           queryUserPassword(p, i, kind) => exited' = exited
    BY DEF queryUserPassword
  <2>5. \A p \in Peers, i \in Identities : remove(p, i) \/ signOut(p, i)
                                               => exited' = exited
    BY DEF remove, signOut
  <2>6. \A p \in Peers, i \in Identities, n \in Ids \cup {NewId} :
           store(p, i, n) => exited' = exited
    BY DEF store
  <2> QED
    BY <1>1, <2>1, <2>2, <2>3, <2>4, <2>5, <2>6 DEF Next, IdentityCall
<1>2. CASE SessionCall
  BY <1>2 DEF Next, SessionCall, getAuthSession, onAuthSessionAccessReplyFinished,
     getAuthSessionUnknown, process, cancel, objectUnref, queryAvailableMechanisms, setId,
     Unchanged
<1>3. CASE uiAnswers
  BY <1>3 DEF Next, uiAnswers, removalCompleted, queryUiSlot, verifyUiSlot, Answered
<1>4. CASE CoreStep
  BY <1>4 DEF Next, CoreStep, startNewRequest, requestDone, useCore, Unchanged
<1>5. CASE credentialsSystemReady
  BY <1>5 DEF Next, credentialsSystemReady
<1>6. CASE LoopStep
  BY <1>6 DEF Next, LoopStep, deleteIdentity, deleteCore, timePasses, disposeTimeout,
     Unchanged
<1> QED
  BY <1>1, <1>2, <1>3, <1>4, <1>5, <1>6 DEF Next

LEMMA StepIsSafe ==
  ASSUME Inv(d, World), Next
  PROVE  StepSafe
<1>1. CASE IdentityCall
  BY <1>1, RegisterNewIdentity, GetIdentity, GetInfo, VerifySecret, ChangeReference,
     QueryUserPassword, RemoveIdentity, SignOut, Store DEF IdentityCall
<1>2. CASE SessionCall
  BY <1>2, GetAuthSession, OnAuthSessionAccessReplyFinished, GetAuthSessionUnknown,
     Process, CancelSession, ObjectUnref, QueryAvailableMechanisms, SetId DEF SessionCall
<1>3. CASE uiAnswers
  BY <1>3, RemovalCompleted, QueryUiSlot, VerifyUiSlot DEF uiAnswers
<1>4. CASE CoreStep
  BY <1>4, StartNewRequest, RequestDone, UseCore DEF CoreStep
<1>5. CASE credentialsSystemReady
  BY <1>5, CredentialsSystemReady
<1>6. CASE LoopStep
  BY <1>6, DeleteIdentityStep, DeleteCoreStep, TimePasses, DisposeTimeout,
     NotifyTimeout DEF LoopStep
<1> QED
  BY <1>1, <1>2, <1>3, <1>4, <1>5, <1>6 DEF Next

Served == Inv(d, World) /\ EndsUnused

LEMMA ServedAlways == Spec => []Served
<1>1. Init => Served
  BY InitSafe DEF Served
<1>2. Served /\ [Next]_vars => Served'
  <2> SUFFICES ASSUME Served, [Next]_vars
               PROVE  Served'
    OBVIOUS
  <2>1. CASE Next
    <3>1. StepSafe
      BY <2>1, StepIsSafe DEF Served
    <3>2. EndsUnused'
      BY <2>1, Running, NotifyTimeout DEF Served, EndsUnused
    <3> QED
      BY <3>1, <3>2 DEF StepSafe, Served
  <2>2. CASE UNCHANGED vars
    <3>1. World' = World /\ d' = d /\ exited' = exited /\ dialogs' = dialogs
      BY <2>2 DEF vars, history, World
    <3> QED
      BY <3>1 DEF Served, EndsUnused
  <2> QED
    BY <2>1, <2>2
<1> QED
  BY <1>1, <1>2, PTL DEF Spec

-----------------------------------------------------------------------------
(* The theorems. *)

\* m_storedIdentities and sessionsOfStoredCredentials name objects that exist,
\* under the ids they have, for any number of clients: as long as no removed
\* identity is stored again and no session changes from one stored identity to
\* another.
THEOREM TablesNameLive ==
  ASSUME NoRenaming, NoRekey
  PROVE  Spec => []TablesNameLiveObjects
<1>1. Served => TablesNameLiveObjects
  <2> SUFFICES ASSUME Served, NEW n \in Ids
               PROVE  /\ d.identityOf[n] # NoObject =>
                            /\ d.life[d.identityOf[n]] # "none"
                            /\ d.id[d.identityOf[n]] = n
                      /\ d.coreOf[n] # NoObject =>
                            /\ d.life[d.coreOf[n]] = "alive"
                            /\ d.id[d.coreOf[n]] = n
    BY DEF TablesNameLiveObjects
  <2>1. IdentitiesInv(d) /\ TableInv(d, World) /\ CoreTableInv(d)
    BY DEF Served, Inv
  <2>2. d.coreOf[n] \in Cores \cup {NoObject}
    BY DEF Served, Inv, Shape
  <2> QED
    BY <2>1, <2>2 DEF IdentitiesInv, TableInv, CoreTableInv
<1> QED
  BY <1>1, ServedAlways, PTL

\* One object and one core serve an identity, under the same conditions:
\* SignonDaemon::getIdentity and SignonSessionCore::sessionCore find the one
\* there is.
THEOREM OneObject ==
  ASSUME NoRenaming, NoRekey
  PROVE  Spec => []OneObjectPerIdentity
<1>1. Served => OneObjectPerIdentity
  <2> SUFFICES ASSUME Served, NEW n \in Ids
               PROVE  /\ \A i, j \in d.published : d.id[i] = n /\ d.id[j] = n => i = j
                      /\ \A b, c \in Cores :
                            d.life[b] = "alive" /\ d.life[c] = "alive"
                               /\ d.id[b] = n /\ d.id[c] = n => b = c
    BY DEF OneObjectPerIdentity
  <2>1. IdentitiesInv(d) /\ TableInv(d, World) /\ CoreTableInv(d)
    BY DEF Served, Inv
  <2>2. n # NewId
    BY DEF Ids, NewId
  <2> QED
    BY <2>1, <2>2 DEF IdentitiesInv, TableInv, CoreTableInv
<1> QED
  BY <1>1, ServedAlways, PTL

\* What queryInfo() has cached is what the database holds: every change of a row
\* reaches every object of the identity.
THEOREM CachedIsCurrent ==
  ASSUME NoRenaming, StoringSucceeds
  PROVE  Spec => []CachedInfoIsCurrent
<1>1. Served => CachedInfoIsCurrent
  <2> SUFFICES ASSUME Served, NEW i \in d.cached \cap d.published, HasRow(d.id[i])
               PROVE  d.info[i].id = d.id[i] /\ d.info[i].current
    BY DEF CachedInfoIsCurrent
  <2>1. IdentitiesInv(d) /\ TableInv(d, World) /\ CacheInv(d)
    BY DEF Served, Inv
  <2>2. i \in d.watched \cap d.cached /\ RowIn(World.rows, d.id[i])
    BY <2>1, WorldIs DEF IdentitiesInv, HasRow, RowIn
  <2> QED
    BY <2>1, <2>2 DEF TableInv, CacheInv
<1> QED
  BY <1>1, ServedAlways, PTL

\* SignonDaemon ends with no object, and no client that waits for a dialog,
\* whatever happens before.
THEOREM EndsWithNothing == Spec => []EndsUnused
<1>1. Served => EndsUnused
  BY DEF Served
<1> QED
  BY <1>1, ServedAlways, PTL

\* A dialog's identity is not deleted before it has ended, unless getIdentity()
\* or another dialog's end has given it up: setAutoDestruct(false) holds against
\* every timer and every call.
THEOREM DialogsAreKept == Spec => NoDialogLost
<1> DEFINE Kept == \A call \in dialogs :
                      d.life[call.obj] # "none" /\ d'.life[call.obj] = "none"
                         => call.obj \in hurried \cup misjudged
<1>1. Served /\ Next => Kept
  <2> SUFFICES ASSUME Served, Next, NEW call \in dialogs,
                      d.life[call.obj] # "none", d'.life[call.obj] = "none"
               PROVE  call.obj \in hurried \cup misjudged
    OBVIOUS
  <2>1. /\ call.obj \in Objects
        /\ call.obj \in hurried \cup misjudged \/ d.life[call.obj] = "alive"
    BY WorldIs DEF Served, Inv, DialogsInv, Objects
  <2>2. d.life[call.obj] = "condemned"
    BY <2>1, StepIsSafe DEF Served, StepSafe, LifeStep
  <2> QED
    BY <2>1, <2>2
<1>2. Served /\ [Next]_vars => [Kept]_vars
  BY <1>1
<1> QED
  BY <1>2, ServedAlways, PTL DEF Spec, NoDialogLost

\* A core is not disposed of with requests in its queue, except while they wait
\* for the key managers or for startNewRequest() already posted.
THEOREM RequestsAreKept ==
  ASSUME NoRekey
  PROVE  Spec => NoRequestLost
<1> DEFINE Kept == \A c \in Cores :
                      d.life[c] = "alive" /\ d'.life[c] = "condemned" /\ d.queue[c] # <<>>
                         => ~ready \/ c \in d.posted
<1>1. Served /\ Next => Kept
  <2> SUFFICES ASSUME Served, Next, NEW c \in Cores,
                      d.life[c] = "alive", d'.life[c] = "condemned", d.queue[c] # <<>>
               PROVE  ~ready \/ c \in d.posted
    OBVIOUS
  <2>1. d.auto[c]
    BY StepIsSafe DEF Served, StepSafe, LifeStep, Objects
  <2> QED
    BY <2>1, WorldIs DEF Served, Inv, QueuesInv
<1>2. Served /\ [Next]_vars => [Kept]_vars
  BY <1>1
<1> QED
  BY <1>2, ServedAlways, PTL DEF Spec, NoRequestLost
=============================================================================
