----------------------------- MODULE MetaDataDB -----------------------------
(***************************************************************************)
(* The metadata database (src/signond/credentialsdb.cpp, MetaDataDB over   *)
(* SqlDatabase): its tables, the triggers that stand for foreign keys, the *)
(* transactions of each call, and the creation and upgrade of its file.    *)
(* CredentialsDB takes it as a set of identities, IdentityMap says what it *)
(* promises.                                                               *)
(*                                                                         *)
(* A table is a set of rows, and a row names others by what they hold, not *)
(* by their ids: a row that is deleted takes with it those that refer to   *)
(* it.  A call is one action, for nobody else has the file open; only at   *)
(* its creation and its upgrade, made of statements each committed by      *)
(* itself, it matters where signond is killed.                             *)
(***************************************************************************)
EXTENDS Naturals, Functions

CONSTANTS Applications, \* tokens of applications
          Methods, Mechanisms, Realms, References,
          Infos,        \* what clients store, see Info
          Null,         \* NULL
          MaxId,        \* bound: identities ever inserted
          Files,        \* the files signond may find: "none", or of "version0"
                        \* or "version1"
          Env           \* "kill": signond is killed as it creates or upgrades
                        \* "statement": the statements that write lists may fail

Info ==
    [caption : {"caption", "other"},
     methods : UNION {[M -> SUBSET Mechanisms] : M \in SUBSET Methods},
     realms  : SUBSET Realms,
     accessControlList : SUBSET Applications,
     ownerList : SUBSET Applications]

ASSUME MetaDataAssumption ==
    /\ Infos \subseteq Info
    /\ Null \notin Applications \cup Methods \cup Mechanisms
    /\ MaxId \in Nat
    /\ Files \subseteq {"none", "version0", "version1"}
    /\ Env \subseteq {"kill", "statement"}

VARIABLES rows, \* the tables
          file, \* how far the file is: its tables, OWNER apart, and user_version
          open, \* the database is open
          ok    \* what the last call has reported

vars == <<rows, file, open, ok>>

Ids == 1 .. MaxId

AclRows == [id : Ids, method : Methods \cup {Null},
            mechanism : Mechanisms \cup {Null}, token : Applications \cup {Null}]

Rows ==
    [credentials : UNION {[I -> {"caption", "other"}] : I \in SUBSET Ids},
     sequence    : 0 .. MaxId,  \* AUTOINCREMENT of CREDENTIALS
     methods     : SUBSET Methods,
     mechanisms  : SUBSET Mechanisms,
     tokens      : SUBSET Applications,
     realms      : SUBSET [id : Ids, realm : Realms],
     acl         : SUBSET AclRows,
     owner       : SUBSET [id : Ids, token : Applications \cup {Null}],
     refs        : SUBSET [id : Ids, token : Applications, ref : References]]

NoRows == [credentials |-> <<>>, sequence |-> 0, methods |-> {},
           mechanisms |-> {}, tokens |-> {}, realms |-> {}, acl |-> {},
           owner |-> {}, refs |-> {}]

Without(table, id) == {row \in table : row.id # id}
-----------------------------------------------------------------------------
(* SqlDatabase: transactions, and the triggers of createTables(). *)

\* What a transaction begun on "saved" has made of it.
Transaction(r, saved) == [rows |-> r, saved |-> saved, active |-> TRUE]

\* RAISE(ROLLBACK) ends the transaction: what follows commits by itself.
Raise(c) == [rows |-> IF c.active THEN c.saved ELSE c.rows,
             saved |-> c.saved, active |-> FALSE]

Known(names) == names \cup {Null}

\* The triggers on inserts, which let NULL pass.
RealmAllowed(r, id) == id \in DOMAIN r.credentials

AclAllowed(r, row) ==
    /\ row.id \in DOMAIN r.credentials
    /\ row.method \in Known(r.methods)
    /\ row.mechanism \in Known(r.mechanisms)
    /\ row.token \in Known(r.tokens)

OwnerAllowed(r, row) == row.token \in Known(r.tokens)

ReferenceAllowed(r, row) == row.id \in DOMAIN r.credentials /\ row.token \in r.tokens

\* commit() fails when the transaction was ended, and rollback() does nothing.
commits(c, fault) == c.active /\ fault # "commit"

Ended(c, fault) ==
    IF commits(c, fault) \/ ~c.active THEN c.rows ELSE c.saved

CascadeSome(r, id) == \* mutant: without the trigger fkdc_REFS_identity_id
    [r EXCEPT !.realms = Without(@, id), !.acl = Without(@, id)]

\* fkdc_REFS_identity_id_CREDENTIALS_id
CascadeReferences(r, id) == [r EXCEPT !.refs = Without(@, id)]

\* fkdc_REALMS_identity_id_CREDENTIALS_id, fkdc_ACL_identity_id_CREDENTIALS_id
Cascade(r, id) ==
    CascadeReferences([r EXCEPT !.realms = Without(@, id), !.acl = Without(@, id)], id)
-----------------------------------------------------------------------------
(* Reading. *)

ownerList(r, id) == {row.token : row \in {o \in r.owner : o.id = id}} \ {Null}

accessControlList(r, id) == {row.token : row \in {a \in r.acl : a.id = id}} \ {Null}

\* MetaDataDB::identity()
identity(r, id) ==
    LET acl == {a \in r.acl : a.id = id}
    IN  [caption |-> r.credentials[id],
         methods |-> [m \in {a.method : a \in acl} \ {Null} |->
                        {a.mechanism : a \in {b \in acl : b.method = m}} \ {Null}],
         realms  |-> {row.realm : row \in {s \in r.realms : s.id = id}},
         accessControlList |-> accessControlList(r, id),
         ownerList |-> ownerList(r, id)]

\* MetaDataDB::identities()
identitiesOf(r) == [id \in DOMAIN r.credentials |-> identity(r, id)]

referencesOf(r, id, token) == {row \in r.refs : row.id = id /\ row.token = token}
-----------------------------------------------------------------------------
(* MetaDataDB::updateIdentity() *)

\* A row for each method, mechanism and token; NULL where there is none.
OrNull(S) == IF S = {} THEN {Null} ELSE S

AclOf(id, info) ==
    LET tokens == OrNull(info.accessControlList)
    IN  IF DOMAIN info.methods = {}
        THEN [id : {id}, method : {Null}, mechanism : {Null},
              token : info.accessControlList]
        ELSE UNION {[id : {id}, method : {m}, token : tokens,
                     mechanism : OrNull(info.methods[m])] : m \in DOMAIN info.methods}

NewId(r) == r.sequence + 1

\* updateCredentials().  An UPDATE of an identity that is gone matches no row.
updateCredentials(r, id, info) ==
    IF id \in DOMAIN r.credentials THEN [r EXCEPT !.credentials[id] = info.caption]
    ELSE IF id <= r.sequence THEN r
    ELSE [r EXCEPT !.sequence = id,
                   !.credentials = [i \in DOMAIN @ \cup {id} |->
                                        IF i = id THEN info.caption ELSE @[i]]]

insertMethods(r, info) ==
    [r EXCEPT !.methods = @ \cup DOMAIN info.methods,
              !.mechanisms = @ \cup UNION Range(info.methods)]

updateRealmsSucceeds(r, id, info, fault) ==
    info.realms # {} => fault # "realms" /\ RealmAllowed(r, id)

updateRealms(r, id, info) ==
    [r EXCEPT !.realms = Without(@, id) \cup [id : {id}, realm : info.realms]]

insertTokens(r, info) ==
    [r EXCEPT !.tokens = @ \cup info.accessControlList \cup info.ownerList]

keepLists(r, id) == r \* mutant: the new lists are added to the old

removeLists(r, id) ==
    [r EXCEPT !.acl = Without(@, id), !.owner = Without(@, id)]

\* Whether these statements succeed nobody looks at.
insertAcl(c, id, info, fault) ==
    IF fault = "acl" THEN c
    ELSE IF \A row \in AclOf(id, info) : AclAllowed(c.rows, row)
    THEN [c EXCEPT !.rows.acl = @ \cup AclOf(id, info)]
    ELSE Raise(c)

\* OWNER has no trigger for its identity; a token that is not there is NULL.
insertOwners(c, id, info, fault) ==
    LET new == {[id |-> id, token |-> IF token \in c.rows.tokens THEN token ELSE Null]
                    : token \in info.ownerList}
    IN  IF fault = "owner" THEN c
        ELSE IF \A row \in new : OwnerAllowed(c.rows, row)
        THEN [c EXCEPT !.rows.owner = @ \cup new]
        ELSE Raise(c)

\* The statements before the lists
Written(r, id, info) == insertMethods(updateCredentials(r, id, info), info)

\* The connection after all statements of an update that was not given up.
Updated(id, info, fault) ==
    LET written == updateRealms(Written(rows, id, info), id, info)
        emptied == removeLists(insertTokens(written, info), id)
    IN  insertOwners(insertAcl(Transaction(emptied, rows), id, info, fault),
                     id, info, fault)

GivenUp(id, info, fault) ==
    \/ fault \in {"begin", "credentials"}
    \/ ~updateRealmsSucceeds(Written(rows, id, info), id, info, fault)

updateIdentity(id, info, fault) ==
    IF GivenUp(id, info, fault) THEN ok' = FALSE /\ UNCHANGED rows
    ELSE LET c == Updated(id, info, fault)
         IN  /\ rows' = Ended(c, fault)
             /\ ok' = commits(c, fault)
-----------------------------------------------------------------------------
(* The calls of CredentialsDB. *)

Faults == {"none", "begin", "credentials", "realms", "commit"}
              \cup (IF "statement" \in Env THEN {"acl", "owner"} ELSE {})

insertCredentials(info, fault) ==
    /\ open
    /\ NewId(rows) <= MaxId
    /\ updateIdentity(NewId(rows), info, fault)
    /\ UNCHANGED <<file, open>>

\* Of an identity that was given its id before; it may be gone since.
updateKnown(id, info, fault) ==
    /\ open
    /\ id <= rows.sequence
    /\ updateIdentity(id, info, fault)
    /\ UNCHANGED <<file, open>>

\* transactionalExec()
Executes(new, fault) ==
    /\ rows' = IF fault = "none" THEN new ELSE rows
    /\ ok' = (fault = "none")
    /\ UNCHANGED <<file, open>>

removeIdentity(id, fault) ==
    /\ open
    /\ Executes([Cascade(rows, id) EXCEPT
                    !.credentials = Restrict(@, DOMAIN @ \ {id}),
                    !.owner = Without(@, id)], fault)

\* With the identities their references go; the ids are not given again.
clear(fault) ==
    /\ open
    /\ Executes([NoRows EXCEPT !.sequence = rows.sequence], fault)

addReference(id, token, ref, fault) ==
    LET known == [rows EXCEPT !.tokens = @ \cup {token}]
        new   == [id |-> id, token |-> token, ref |-> ref]
    IN  /\ open
        /\ IF ReferenceAllowed(known, new)
           THEN Executes([known EXCEPT !.refs = @ \cup {new}], fault)
           ELSE ok' = FALSE /\ UNCHANGED <<rows, file, open>>

\* No reference named: all of the application's.
removeReference(id, token, refs, fault) ==
    LET found == {row \in referencesOf(rows, id, token) : row.ref \in refs}
    IN  /\ open
        /\ IF found = {} THEN ok' = FALSE /\ UNCHANGED <<rows, file, open>>
           ELSE Executes([rows EXCEPT !.refs = @ \ found], fault)

\* storeData() of a method that was never used; insertMethod().
insertMethod(method) ==
    /\ open
    /\ method \notin rows.methods
    /\ rows' = [rows EXCEPT !.methods = @ \cup {method}]
    /\ UNCHANGED <<file, open, ok>>
-----------------------------------------------------------------------------
(* SqlDatabase::init(), as far as it comes before signond is killed. *)

NewFile  == [tables |-> "none", owner |-> FALSE, version |-> 0]
Partial  == [tables |-> "some", owner |-> FALSE, version |-> 0]
Created  == [tables |-> "all", owner |-> TRUE, version |-> 0]
Current  == [Created EXCEPT !.version = 2]

Killed(at) == "kill" \in Env /\ file' = at /\ open' = FALSE

Opened(at) == file' = at /\ open' = TRUE

hasTables == file.tables # "none"

\* createTables(), of which each statement is committed by itself.
create ==
    /\ ~open
    /\ ~hasTables
    /\ Killed(Partial) \/ Killed(Created) \/ Opened(Current)
    /\ UNCHANGED <<rows, ok>>

\* updateDB() of a version below 1: the file is removed and created, but its
\* version is not set.
recreate ==
    /\ ~open
    /\ hasTables
    /\ file.version = 0
    /\ rows' = NoRows
    /\ Killed(NewFile) \/ Killed(Partial) \/ Killed(Created) \/ Opened(Created)
    /\ UNCHANGED ok

OwnersOfAcl(r) == {[id |-> a.id, token |-> a.token] : a \in r.acl}

WithOwners(r) == [r EXCEPT !.owner = OwnersOfAcl(r)]

\* updateDB() of version 1: OWNER is created, filled from ACL.
upgrade ==
    /\ ~open
    /\ file.version = 1
    /\ ~file.owner
    /\ UNCHANGED ok
    /\ \/ Killed([file EXCEPT !.owner = TRUE]) /\ UNCHANGED rows
       \/ /\ Killed([file EXCEPT !.owner = TRUE]) \/ Opened(Current)
          /\ rows' = WithOwners(rows)

\* An upgrade that was interrupted fails at the table that is there; init()
\* does not look at that.
openFile ==
    /\ ~open
    /\ file.version > 0
    /\ file.owner
    /\ Opened(file)
    /\ UNCHANGED <<rows, ok>>

\* ~SqlDatabase(), or signond is killed between two calls.
close ==
    /\ open
    /\ open' = FALSE
    /\ UNCHANGED <<rows, file, ok>>

\* A file of an old version has one identity, stored there.
OldRows(info) ==
    LET written == insertTokens(updateRealms(Written(NoRows, 1, info), 1, info), info)
    IN  insertAcl(Transaction(written, NoRows), 1, info, "none").rows

Init ==
    /\ open = FALSE
    /\ ok = TRUE
    /\ \E found \in Files :
       \/ found = "none" /\ file = NewFile /\ rows = NoRows
       \/ found = "version0" /\ file = [Created EXCEPT !.owner = FALSE]
                             /\ \E info \in Infos : rows = OldRows(info)
       \/ found = "version1" /\ file = [Current EXCEPT !.owner = FALSE, !.version = 1]
                             /\ \E info \in Infos : rows = OldRows(info)

Next ==
    \/ create \/ recreate \/ upgrade \/ openFile \/ close
    \/ \E fault \in Faults :
         \/ \E info \in Infos : \/ insertCredentials(info, fault)
                                \/ \E id \in Ids : updateKnown(id, info, fault)
         \/ \E id \in Ids : removeIdentity(id, fault)
         \/ clear(fault)
         \/ \E id \in Ids, token \in Applications, ref \in References :
              \/ addReference(id, token, ref, fault)
              \/ removeReference(id, token, {ref}, fault)
         \/ \E id \in Ids, token \in Applications :
              removeReference(id, token, References, fault)
    \/ \E method \in Methods : insertMethod(method)

Spec == Init /\ [][Next]_vars
-----------------------------------------------------------------------------
(* Properties. *)

\* A file of version 1 is what its upgrade will make of it.
Upgraded == IF file.owner THEN rows ELSE WithOwners(rows)

Interrupted ==
    CASE hasTables /\ file.version = 0 -> "creation"
      [] file.version = 1 /\ file.owner -> "upgrade"
      [] OTHER -> "no"

Map == INSTANCE IdentityMap WITH
    identities  <- identitiesOf(Upgraded),
    references  <- rows.refs,
    given       <- 1 .. rows.sequence,
    interrupted <- Interrupted

\* The tables are a map of the identities: a call that reports success has
\* stored all of an identity, one that does not has changed nothing, whichever
\* transaction was ended by a trigger; an upgrade changes nothing; an id is not
\* given again; and only a file whose version was never set loses anything.
StoresIdentities == Map!Spec

NoDangling(r) ==
    /\ \A row \in r.realms \cup r.acl \cup r.refs : row.id \in DOMAIN r.credentials
    /\ \A row \in r.acl \cup r.owner \cup r.refs : row.token \in Known(r.tokens)
    /\ \A row \in r.acl : /\ row.method \in Known(r.methods)
                          /\ row.mechanism \in Known(r.mechanisms)

\* Each row names an identity and a token that are there: no way to remove one
\* leaves a realm, an access right or a reference behind.  OWNER may name an
\* identity that was gone when it was updated.
NoDanglingRows == NoDangling(rows)
=============================================================================
