-------------------------- MODULE MetaDataDBProofs --------------------------
(***************************************************************************)
(* Proofs about MetaDataDB, for every set of applications, methods, realms *)
(* and references and for any information clients store.                   *)
(*                                                                         *)
(* First that no row names another that is not there: an operator on rows  *)
(* has two lemmas, which tables it changes, and that it leaves no such     *)
(* row.  Then that MetaDataDB implements IdentityMap: what identity()      *)
(* reads is what updateIdentity() was given, and no call changes what is   *)
(* read of another identity.  This assumes that the statements whose       *)
(* result nobody looks at succeed ("statement" is not in Env); otherwise   *)
(* StoresIdentities does not hold.                                         *)
(***************************************************************************)
EXTENDS MetaDataDB, TLAPS

Shaped(r) ==
    DOMAIN r = {"credentials", "sequence", "methods", "mechanisms", "tokens",
                "realms", "acl", "owner", "refs"}

\* The inductive invariant: NoDanglingRows says nothing of which tables
\* there are.
Sound(r) == Shaped(r) /\ NoDangling(r)

IsConnection(c) ==
    /\ DOMAIN c = {"rows", "saved", "active"}
    /\ Sound(c.rows)
    /\ Sound(c.saved)
-----------------------------------------------------------------------------
(* The statements of updateIdentity(). *)

LEMMA UpdateCredentialsRows ==
    ASSUME NEW r, Shaped(r), NEW id, NEW info
    PROVE  LET n == updateCredentials(r, id, info)
           IN  /\ Shaped(n)
               /\ DOMAIN r.credentials \subseteq DOMAIN n.credentials
               /\ n.methods = r.methods /\ n.mechanisms = r.mechanisms
               /\ n.tokens = r.tokens /\ n.realms = r.realms
               /\ n.acl = r.acl /\ n.owner = r.owner /\ n.refs = r.refs
  BY Zenon DEF updateCredentials, Shaped

LEMMA UpdateCredentialsKnown ==
    ASSUME NEW r, Shaped(r), NEW id, NEW info, id \in DOMAIN r.credentials
    PROVE  LET n == updateCredentials(r, id, info)
           IN  /\ n.credentials = [r.credentials EXCEPT ![id] = info.caption]
               /\ n.sequence = r.sequence
  BY Zenon DEF updateCredentials, Shaped

LEMMA UpdateCredentialsGone ==
    ASSUME NEW r, NEW id, NEW info, id \notin DOMAIN r.credentials, id <= r.sequence
    PROVE  updateCredentials(r, id, info) = r
  BY Zenon DEF updateCredentials

LEMMA UpdateCredentialsNew ==
    ASSUME NEW r, Shaped(r), NEW id, NEW info,
           id \notin DOMAIN r.credentials, ~(id <= r.sequence)
    PROVE  LET n == updateCredentials(r, id, info)
           IN  /\ n.credentials = [i \in DOMAIN r.credentials \cup {id} |->
                                      IF i = id THEN info.caption ELSE r.credentials[i]]
               /\ n.sequence = id
  BY Zenon DEF updateCredentials, Shaped

LEMMA UpdateCredentialsSound ==
    ASSUME NEW r, Sound(r), NEW id, NEW info
    PROVE  Sound(updateCredentials(r, id, info))
<1> DEFINE n == updateCredentials(r, id, info)
<1>1. /\ Shaped(n)
      /\ DOMAIN r.credentials \subseteq DOMAIN n.credentials
      /\ n.methods = r.methods /\ n.mechanisms = r.mechanisms
      /\ n.tokens = r.tokens /\ n.realms = r.realms
      /\ n.acl = r.acl /\ n.owner = r.owner /\ n.refs = r.refs
  BY UpdateCredentialsRows DEF Sound
<1> HIDE DEF n
<1>2. NoDangling(n)
  BY <1>1 DEF NoDangling, Sound
<1> QED
  BY <1>1, <1>2 DEF n, Sound

LEMMA InsertMethodsRows ==
    ASSUME NEW r, Shaped(r), NEW info
    PROVE  LET n == insertMethods(r, info)
           IN  /\ Shaped(n)
               /\ n.methods = r.methods \cup DOMAIN info.methods
               /\ n.mechanisms = r.mechanisms \cup UNION Range(info.methods)
               /\ n.credentials = r.credentials /\ n.sequence = r.sequence
               /\ n.tokens = r.tokens /\ n.realms = r.realms
               /\ n.acl = r.acl /\ n.owner = r.owner /\ n.refs = r.refs
  BY Zenon DEF insertMethods, Shaped

LEMMA InsertMethodsSound ==
    ASSUME NEW r, Sound(r), NEW info
    PROVE  Sound(insertMethods(r, info))
<1> DEFINE n == insertMethods(r, info)
<1>1. /\ Shaped(n)
      /\ n.methods = r.methods \cup DOMAIN info.methods
      /\ n.mechanisms = r.mechanisms \cup UNION Range(info.methods)
      /\ n.credentials = r.credentials
      /\ n.tokens = r.tokens /\ n.realms = r.realms
      /\ n.acl = r.acl /\ n.owner = r.owner /\ n.refs = r.refs
  BY InsertMethodsRows DEF Sound
<1> HIDE DEF n
<1>2. NoDangling(n)
  BY <1>1 DEF NoDangling, Known, Sound
<1> QED
  BY <1>1, <1>2 DEF n, Sound

LEMMA WrittenSound ==
    ASSUME NEW r, Sound(r), NEW id, NEW info
    PROVE  Sound(Written(r, id, info))
  BY UpdateCredentialsSound, InsertMethodsSound DEF Written

LEMMA UpdateRealmsRows ==
    ASSUME NEW r, Shaped(r), NEW id, NEW info
    PROVE  LET n == updateRealms(r, id, info)
           IN  /\ Shaped(n)
               /\ n.realms = Without(r.realms, id) \cup [id : {id}, realm : info.realms]
               /\ n.credentials = r.credentials /\ n.sequence = r.sequence
               /\ n.methods = r.methods /\ n.mechanisms = r.mechanisms
               /\ n.tokens = r.tokens
               /\ n.acl = r.acl /\ n.owner = r.owner /\ n.refs = r.refs
  BY Zenon DEF updateRealms, Shaped

LEMMA UpdateRealmsSound ==
    ASSUME NEW r, Sound(r), NEW id, NEW info,
           info.realms # {} => RealmAllowed(r, id)
    PROVE  Sound(updateRealms(r, id, info))
<1> DEFINE n == updateRealms(r, id, info)
<1>1. /\ Shaped(n)
      /\ n.realms = Without(r.realms, id) \cup [id : {id}, realm : info.realms]
      /\ n.credentials = r.credentials
      /\ n.methods = r.methods /\ n.mechanisms = r.mechanisms
      /\ n.tokens = r.tokens
      /\ n.acl = r.acl /\ n.owner = r.owner /\ n.refs = r.refs
  BY UpdateRealmsRows DEF Sound
<1> HIDE DEF n
<1>2. \A row \in n.realms : row.id \in DOMAIN n.credentials
  <2>1. \A row \in Without(r.realms, id) : row.id \in DOMAIN r.credentials
    BY DEF Sound, NoDangling, Without
  <2>2. \A row \in [id : {id}, realm : info.realms] : row.id = id /\ info.realms # {}
    OBVIOUS
  <2> QED
    BY <1>1, <2>1, <2>2 DEF RealmAllowed
<1>3. NoDangling(n)
  BY <1>1, <1>2 DEF NoDangling, Sound
<1> QED
  BY <1>1, <1>3 DEF n, Sound

LEMMA InsertTokensRows ==
    ASSUME NEW r, Shaped(r), NEW info
    PROVE  LET n == insertTokens(r, info)
           IN  /\ Shaped(n)
               /\ n.tokens = r.tokens \cup info.accessControlList \cup info.ownerList
               /\ n.credentials = r.credentials /\ n.sequence = r.sequence
               /\ n.methods = r.methods /\ n.mechanisms = r.mechanisms
               /\ n.realms = r.realms
               /\ n.acl = r.acl /\ n.owner = r.owner /\ n.refs = r.refs
  BY Zenon DEF insertTokens, Shaped

LEMMA InsertTokensSound ==
    ASSUME NEW r, Sound(r), NEW info
    PROVE  Sound(insertTokens(r, info))
<1> DEFINE n == insertTokens(r, info)
<1>1. /\ Shaped(n)
      /\ r.tokens \subseteq n.tokens
      /\ n.credentials = r.credentials
      /\ n.methods = r.methods /\ n.mechanisms = r.mechanisms
      /\ n.realms = r.realms
      /\ n.acl = r.acl /\ n.owner = r.owner /\ n.refs = r.refs
  BY InsertTokensRows DEF Sound
<1> HIDE DEF n
<1>2. NoDangling(n)
  BY <1>1 DEF NoDangling, Known, Sound
<1> QED
  BY <1>1, <1>2 DEF n, Sound

LEMMA RemoveListsRows ==
    ASSUME NEW r, Shaped(r), NEW id
    PROVE  LET n == removeLists(r, id)
           IN  /\ Shaped(n)
               /\ n.acl = Without(r.acl, id)
               /\ n.owner = Without(r.owner, id)
               /\ n.credentials = r.credentials /\ n.sequence = r.sequence
               /\ n.methods = r.methods /\ n.mechanisms = r.mechanisms
               /\ n.tokens = r.tokens /\ n.realms = r.realms /\ n.refs = r.refs
  BY Zenon DEF removeLists, Shaped

LEMMA RemoveListsSound ==
    ASSUME NEW r, Sound(r), NEW id
    PROVE  Sound(removeLists(r, id))
<1> DEFINE n == removeLists(r, id)
<1>1. /\ Shaped(n)
      /\ n.acl \subseteq r.acl /\ n.owner \subseteq r.owner
      /\ n.credentials = r.credentials
      /\ n.methods = r.methods /\ n.mechanisms = r.mechanisms
      /\ n.tokens = r.tokens /\ n.realms = r.realms /\ n.refs = r.refs
  BY RemoveListsRows DEF Sound, Without
<1> HIDE DEF n
<1>2. NoDangling(n)
  BY <1>1 DEF NoDangling, Sound
<1> QED
  BY <1>1, <1>2 DEF n, Sound
-----------------------------------------------------------------------------
(* The statements that a trigger may refuse, and with them what precedes.  *)

LEMMA TransactionSound ==
    ASSUME NEW r, Sound(r), NEW saved, Sound(saved)
    PROVE  IsConnection(Transaction(r, saved))
  BY DEF IsConnection, Transaction

LEMMA RaiseSound ==
    ASSUME NEW c, IsConnection(c)
    PROVE  IsConnection(Raise(c))
  BY DEF IsConnection, Raise

LEMMA InsertAclRows ==
    ASSUME NEW c, IsConnection(c), NEW S
    PROVE  LET n == [c EXCEPT !.rows.acl = @ \cup S].rows
           IN  /\ Shaped(n)
               /\ n.acl = c.rows.acl \cup S
               /\ n.credentials = c.rows.credentials
               /\ n.sequence = c.rows.sequence
               /\ n.methods = c.rows.methods /\ n.mechanisms = c.rows.mechanisms
               /\ n.tokens = c.rows.tokens /\ n.realms = c.rows.realms
               /\ n.owner = c.rows.owner /\ n.refs = c.rows.refs
<1> DEFINE d == [c EXCEPT !.rows.acl = @ \cup S]
           n == [c.rows EXCEPT !.acl = @ \cup S]
<1>1. d.rows = n
  BY Zenon DEF IsConnection
<1>2. /\ Shaped(n)
      /\ n.acl = c.rows.acl \cup S
      /\ n.credentials = c.rows.credentials
      /\ n.sequence = c.rows.sequence
      /\ n.methods = c.rows.methods /\ n.mechanisms = c.rows.mechanisms
      /\ n.tokens = c.rows.tokens /\ n.realms = c.rows.realms
      /\ n.owner = c.rows.owner /\ n.refs = c.rows.refs
  BY Zenon DEF IsConnection, Sound, Shaped
<1> HIDE DEF d, n
<1> QED
  BY Zenon, <1>1, <1>2 DEF d

LEMMA InsertAclSound ==
    ASSUME NEW c, IsConnection(c), NEW id, NEW info, NEW fault
    PROVE  IsConnection(insertAcl(c, id, info, fault))
<1> DEFINE d == [c EXCEPT !.rows.acl = @ \cup AclOf(id, info)]
<1>1. ASSUME \A row \in AclOf(id, info) : AclAllowed(c.rows, row)
      PROVE  IsConnection(d)
  <2> DEFINE n == d.rows
             new == AclOf(id, info)
  <2>1. DOMAIN d = DOMAIN c /\ d.saved = c.saved
    BY Zenon DEF IsConnection
  <2>2. /\ Shaped(n)
        /\ n.acl = c.rows.acl \cup new
        /\ n.credentials = c.rows.credentials
        /\ n.methods = c.rows.methods /\ n.mechanisms = c.rows.mechanisms
        /\ n.tokens = c.rows.tokens /\ n.realms = c.rows.realms
        /\ n.owner = c.rows.owner /\ n.refs = c.rows.refs
    BY Zenon, InsertAclRows
  <2>3. \A row \in new : AclAllowed(c.rows, row)
    BY <1>1
  <2> HIDE DEF d, n, new
  <2>4. NoDangling(n)
    BY <2>2, <2>3 DEF IsConnection, Sound, NoDangling, AclAllowed
  <2> QED
    BY <2>1, <2>2, <2>4 DEF IsConnection, Sound, n
<1> HIDE DEF d
<1> QED
  BY <1>1, RaiseSound DEF insertAcl, d

LEMMA InsertOwnersRows ==
    ASSUME NEW c, IsConnection(c), NEW S
    PROVE  LET n == [c EXCEPT !.rows.owner = @ \cup S].rows
           IN  /\ Shaped(n)
               /\ n.owner = c.rows.owner \cup S
               /\ n.credentials = c.rows.credentials
               /\ n.sequence = c.rows.sequence
               /\ n.methods = c.rows.methods /\ n.mechanisms = c.rows.mechanisms
               /\ n.tokens = c.rows.tokens /\ n.realms = c.rows.realms
               /\ n.acl = c.rows.acl /\ n.refs = c.rows.refs
<1> DEFINE d == [c EXCEPT !.rows.owner = @ \cup S]
           n == [c.rows EXCEPT !.owner = @ \cup S]
<1>1. d.rows = n
  BY Zenon DEF IsConnection
<1>2. /\ Shaped(n)
      /\ n.owner = c.rows.owner \cup S
      /\ n.credentials = c.rows.credentials
      /\ n.sequence = c.rows.sequence
      /\ n.methods = c.rows.methods /\ n.mechanisms = c.rows.mechanisms
      /\ n.tokens = c.rows.tokens /\ n.realms = c.rows.realms
      /\ n.acl = c.rows.acl /\ n.refs = c.rows.refs
  BY Zenon DEF IsConnection, Sound, Shaped
<1> HIDE DEF d, n
<1> QED
  BY Zenon, <1>1, <1>2 DEF d

LEMMA InsertOwnersSound ==
    ASSUME NEW c, IsConnection(c), NEW id, NEW info, NEW fault
    PROVE  IsConnection(insertOwners(c, id, info, fault))
<1> DEFINE new == {[id |-> id, token |-> IF token \in c.rows.tokens THEN token ELSE Null]
                       : token \in info.ownerList}
           d == [c EXCEPT !.rows.owner = @ \cup new]
<1>1. ASSUME \A row \in new : OwnerAllowed(c.rows, row)
      PROVE  IsConnection(d)
  <2> DEFINE n == d.rows
  <2> HIDE DEF new
  <2>1. DOMAIN d = DOMAIN c /\ d.saved = c.saved
    BY Zenon DEF IsConnection
  <2>2. /\ Shaped(n)
        /\ n.owner = c.rows.owner \cup new
        /\ n.credentials = c.rows.credentials
        /\ n.methods = c.rows.methods /\ n.mechanisms = c.rows.mechanisms
        /\ n.tokens = c.rows.tokens /\ n.realms = c.rows.realms
        /\ n.acl = c.rows.acl /\ n.refs = c.rows.refs
    BY Zenon, InsertOwnersRows
  <2> HIDE DEF d, n
  <2>3. NoDangling(n)
    BY <1>1, <2>2 DEF IsConnection, Sound, NoDangling, OwnerAllowed
  <2> QED
    BY <2>1, <2>2, <2>3 DEF IsConnection, Sound, n
<1>2. insertOwners(c, id, info, fault) \in {c, d, Raise(c)}
  BY DEF insertOwners
<1>3. insertOwners(c, id, info, fault) = d
          => insertOwners(c, id, info, fault) \in {c, Raise(c)}
             \/ \A row \in new : OwnerAllowed(c.rows, row)
  BY DEF insertOwners
<1> HIDE DEF d, new
<1> QED
  BY <1>1, <1>2, <1>3, RaiseSound
-----------------------------------------------------------------------------
(* The calls.  None of them reads or changes what is open or how far the   *)
(* file is, as far as the rows go.                                         *)

LEMMA UpdatedSound ==
    ASSUME Sound(rows), NEW id, NEW info, NEW fault, ~GivenUp(id, info, fault)
    PROVE  IsConnection(Updated(id, info, fault))
<1> DEFINE first == Written(rows, id, info)
           written == updateRealms(first, id, info)
           emptied == removeLists(insertTokens(written, info), id)
           acl == insertAcl(Transaction(emptied, rows), id, info, fault)
<1>1. Sound(first)
  BY WrittenSound
<1>2. info.realms # {} => RealmAllowed(first, id)
  BY DEF GivenUp, updateRealmsSucceeds
<1>3. Sound(written)
  BY <1>1, <1>2, UpdateRealmsSound
<1>4. Sound(emptied)
  BY <1>3, InsertTokensSound, RemoveListsSound
<1>5. IsConnection(acl)
  BY <1>4, TransactionSound, InsertAclSound
<1>6. IsConnection(insertOwners(acl, id, info, fault))
  BY <1>5, InsertOwnersSound
<1> QED
  BY <1>6 DEF Updated

LEMMA UpdateIdentitySound ==
    ASSUME Sound(rows), NEW id, NEW info, NEW fault, updateIdentity(id, info, fault)
    PROVE  Sound(rows')
<1>1. CASE GivenUp(id, info, fault)
  BY <1>1 DEF updateIdentity
<1>2. CASE ~GivenUp(id, info, fault)
  <2> DEFINE c == Updated(id, info, fault)
  <2>1. IsConnection(c)
    BY <1>2, UpdatedSound
  <2>2. rows' = Ended(c, fault)
    BY <1>2 DEF updateIdentity
  <2> QED
    BY <2>1, <2>2 DEF Ended, IsConnection
<1> QED
  BY <1>1, <1>2

LEMMA RemoveIdentitySound ==
    ASSUME Sound(rows), NEW id, NEW fault, removeIdentity(id, fault)
    PROVE  Sound(rows')
<1> DEFINE gone == [rows EXCEPT !.realms = Without(@, id), !.acl = Without(@, id)]
           cascaded == [gone EXCEPT !.refs = Without(@, id)]
           n == [cascaded EXCEPT !.credentials = Restrict(@, DOMAIN @ \ {id}),
                                 !.owner = Without(@, id)]
<1>1. rows' = n \/ rows' = rows
  BY DEF removeIdentity, Executes, Cascade, CascadeReferences
<1>2. /\ Shaped(gone)
      /\ gone.realms = Without(rows.realms, id)
      /\ gone.acl = Without(rows.acl, id)
      /\ gone.credentials = rows.credentials
      /\ gone.methods = rows.methods /\ gone.mechanisms = rows.mechanisms
      /\ gone.tokens = rows.tokens
      /\ gone.owner = rows.owner /\ gone.refs = rows.refs
  BY Zenon DEF Sound, Shaped
<1> HIDE DEF gone
<1>3. /\ Shaped(cascaded)
      /\ cascaded.refs = Without(gone.refs, id)
      /\ cascaded.realms = gone.realms /\ cascaded.acl = gone.acl
      /\ cascaded.credentials = gone.credentials
      /\ cascaded.methods = gone.methods /\ cascaded.mechanisms = gone.mechanisms
      /\ cascaded.tokens = gone.tokens /\ cascaded.owner = gone.owner
  BY Zenon, <1>2 DEF Shaped
<1> HIDE DEF cascaded
<1>4. /\ Shaped(n)
      /\ n.credentials = Restrict(cascaded.credentials, DOMAIN cascaded.credentials \ {id})
      /\ n.owner = Without(cascaded.owner, id)
      /\ n.realms = cascaded.realms /\ n.acl = cascaded.acl
      /\ n.methods = cascaded.methods /\ n.mechanisms = cascaded.mechanisms
      /\ n.tokens = cascaded.tokens /\ n.refs = cascaded.refs
  BY Zenon, <1>3 DEF Shaped
<1> HIDE DEF n
<1>5. DOMAIN n.credentials = DOMAIN rows.credentials \ {id}
  BY <1>2, <1>3, <1>4 DEF Restrict
<1>6. NoDangling(n)
  BY <1>2, <1>3, <1>4, <1>5 DEF Sound, NoDangling, Without
<1> QED
  BY <1>1, <1>4, <1>6 DEF Sound

LEMMA NoRowsSound == Sound(NoRows) /\ DOMAIN NoRows.credentials = {}
  BY DEF NoRows, Sound, Shaped, NoDangling

LEMMA ClearSound ==
    ASSUME Sound(rows), NEW fault, clear(fault)
    PROVE  Sound(rows')
<1> DEFINE n == [NoRows EXCEPT !.sequence = rows.sequence]
<1>1. rows' = n \/ rows' = rows
  BY DEF clear, Executes
<1>2. /\ Shaped(n)
      /\ n.credentials = NoRows.credentials
      /\ n.methods = NoRows.methods /\ n.mechanisms = NoRows.mechanisms
      /\ n.tokens = NoRows.tokens /\ n.realms = NoRows.realms
      /\ n.acl = NoRows.acl /\ n.owner = NoRows.owner /\ n.refs = NoRows.refs
  BY Zenon, NoRowsSound DEF Sound, Shaped
<1> HIDE DEF n
<1>3. NoDangling(n)
  BY <1>2, NoRowsSound DEF Sound, NoDangling
<1> QED
  BY <1>1, <1>2, <1>3 DEF Sound

LEMMA AddReferenceSound ==
    ASSUME Sound(rows), NEW id, NEW token, NEW ref, NEW fault,
           addReference(id, token, ref, fault)
    PROVE  Sound(rows')
<1> DEFINE known == [rows EXCEPT !.tokens = @ \cup {token}]
           new == [id |-> id, token |-> token, ref |-> ref]
           n == [known EXCEPT !.refs = @ \cup {new}]
<1>1. rows' = rows \/ (rows' = n /\ ReferenceAllowed(known, new))
  <2>1. IF ReferenceAllowed(known, new) THEN Executes(n, fault) ELSE rows' = rows
    BY Zenon DEF addReference
  <2> HIDE DEF known, new, n
  <2> QED
    BY <2>1 DEF Executes
<1>2. /\ Shaped(known)
      /\ known.tokens = rows.tokens \cup {token}
      /\ known.credentials = rows.credentials
      /\ known.methods = rows.methods /\ known.mechanisms = rows.mechanisms
      /\ known.realms = rows.realms /\ known.acl = rows.acl
      /\ known.owner = rows.owner /\ known.refs = rows.refs
  BY Zenon DEF Sound, Shaped
<1> HIDE DEF known
<1>3. /\ Shaped(n)
      /\ n.refs = known.refs \cup {new}
      /\ n.credentials = known.credentials
      /\ n.methods = known.methods /\ n.mechanisms = known.mechanisms
      /\ n.tokens = known.tokens /\ n.realms = known.realms
      /\ n.acl = known.acl /\ n.owner = known.owner
  BY Zenon, <1>2 DEF Shaped
<1> HIDE DEF n
<1>4. ASSUME ReferenceAllowed(known, new)
      PROVE  NoDangling(n)
  BY <1>2, <1>3, <1>4 DEF Sound, NoDangling, ReferenceAllowed, Known
<1> QED
  BY <1>1, <1>3, <1>4 DEF Sound

LEMMA RemoveReferenceSound ==
    ASSUME Sound(rows), NEW id, NEW token, NEW refs, NEW fault,
           removeReference(id, token, refs, fault)
    PROVE  Sound(rows')
<1> DEFINE found == {row \in referencesOf(rows, id, token) : row.ref \in refs}
           n == [rows EXCEPT !.refs = @ \ found]
<1>1. rows' = n \/ rows' = rows
  BY DEF removeReference, Executes
<1> HIDE DEF found
<1>2. /\ Shaped(n)
      /\ n.refs = rows.refs \ found
      /\ n.credentials = rows.credentials
      /\ n.methods = rows.methods /\ n.mechanisms = rows.mechanisms
      /\ n.tokens = rows.tokens /\ n.realms = rows.realms
      /\ n.acl = rows.acl /\ n.owner = rows.owner
  BY Zenon DEF Sound, Shaped
<1> HIDE DEF n
<1>3. NoDangling(n)
  BY <1>2 DEF Sound, NoDangling
<1> QED
  BY <1>1, <1>2, <1>3 DEF Sound

LEMMA InsertMethodSound ==
    ASSUME Sound(rows), NEW method, insertMethod(method)
    PROVE  Sound(rows')
<1> DEFINE n == [rows EXCEPT !.methods = @ \cup {method}]
<1>1. rows' = n
  BY DEF insertMethod
<1>2. /\ Shaped(n)
      /\ n.methods = rows.methods \cup {method}
      /\ n.credentials = rows.credentials /\ n.mechanisms = rows.mechanisms
      /\ n.tokens = rows.tokens /\ n.realms = rows.realms
      /\ n.acl = rows.acl /\ n.owner = rows.owner /\ n.refs = rows.refs
  BY Zenon DEF Sound, Shaped
<1> HIDE DEF n
<1>3. NoDangling(n)
  BY <1>2 DEF Sound, NoDangling, Known
<1> QED
  BY <1>1, <1>2, <1>3 DEF Sound
-----------------------------------------------------------------------------
(* The creation and the upgrade of the file. *)

LEMMA FileSound ==
    ASSUME Sound(rows), create \/ recreate \/ openFile \/ close
    PROVE  Sound(rows')
  BY NoRowsSound DEF create, recreate, openFile, close

LEMMA UpgradeSound ==
    ASSUME Sound(rows), upgrade
    PROVE  Sound(rows')
<1> DEFINE new == OwnersOfAcl(rows)
           n == [rows EXCEPT !.owner = new]
<1>1. rows' = n \/ rows' = rows
  BY DEF upgrade, WithOwners
<1>2. \A row \in new : row.token \in Known(rows.tokens)
  BY DEF OwnersOfAcl, Sound, NoDangling
<1> HIDE DEF new
<1>3. /\ Shaped(n)
      /\ n.owner = new
      /\ n.credentials = rows.credentials
      /\ n.methods = rows.methods /\ n.mechanisms = rows.mechanisms
      /\ n.tokens = rows.tokens /\ n.realms = rows.realms
      /\ n.acl = rows.acl /\ n.refs = rows.refs
  BY Zenon DEF Sound, Shaped
<1> HIDE DEF n
<1>4. NoDangling(n)
  BY <1>2, <1>3 DEF Sound, NoDangling
<1> QED
  BY <1>1, <1>3, <1>4 DEF Sound

LEMMA OldRowsSound ==
    ASSUME NEW info
    PROVE  Sound(OldRows(info))
<1> DEFINE first == updateCredentials(NoRows, 1, info)
           second == insertMethods(first, info)
           written == insertTokens(updateRealms(second, 1, info), info)
<1>1. Sound(first) /\ Sound(second)
  BY NoRowsSound, UpdateCredentialsSound, InsertMethodsSound
<1>2. 1 \in DOMAIN first.credentials
  <2>1. /\ ~(1 \in DOMAIN NoRows.credentials)
        /\ ~(1 <= NoRows.sequence)
    BY NoRowsSound DEF NoRows
  <2>2. first = [NoRows EXCEPT !.sequence = 1,
                    !.credentials = [i \in DOMAIN @ \cup {1} |->
                                        IF i = 1 THEN info.caption ELSE @[i]]]
    BY Zenon, <2>1 DEF updateCredentials
  <2>3. DOMAIN first.credentials = DOMAIN NoRows.credentials \cup {1}
    BY Zenon, <2>2, NoRowsSound DEF Sound, Shaped
  <2> QED
    BY <2>3
<1>3. second.credentials = first.credentials
  BY <1>1, InsertMethodsRows DEF Sound
<1>4. Sound(written)
  BY <1>1, <1>2, <1>3, UpdateRealmsSound, InsertTokensSound DEF RealmAllowed
<1>5. IsConnection(insertAcl(Transaction(written, NoRows), 1, info, "none"))
  BY <1>4, NoRowsSound, TransactionSound, InsertAclSound
<1> QED
  BY <1>5 DEF OldRows, Written, IsConnection
-----------------------------------------------------------------------------
IInv == Sound(rows)

LEMMA InitSound == Init => IInv
  BY NoRowsSound, OldRowsSound DEF Init, IInv

LEMMA CallSound ==
    ASSUME Sound(rows), NEW fault \in Faults,
           \/ \E info \in Infos : \/ insertCredentials(info, fault)
                                  \/ \E id \in Ids : updateKnown(id, info, fault)
           \/ \E id \in Ids : removeIdentity(id, fault)
           \/ clear(fault)
           \/ \E id \in Ids, token \in Applications, ref \in References :
                \/ addReference(id, token, ref, fault)
                \/ removeReference(id, token, {ref}, fault)
           \/ \E id \in Ids, token \in Applications :
                removeReference(id, token, References, fault)
    PROVE  Sound(rows')
<1>1. ASSUME NEW info \in Infos, insertCredentials(info, fault)
      PROVE  Sound(rows')
  BY <1>1, UpdateIdentitySound DEF insertCredentials
<1>2. ASSUME NEW info \in Infos, NEW id \in Ids, updateKnown(id, info, fault)
      PROVE  Sound(rows')
  BY <1>2, UpdateIdentitySound DEF updateKnown
<1> QED
  BY <1>1, <1>2, RemoveIdentitySound, ClearSound, AddReferenceSound,
     RemoveReferenceSound

LEMMA StepSound == IInv /\ [Next]_vars => IInv'
<1> SUFFICES ASSUME Sound(rows), [Next]_vars
             PROVE  Sound(rows')
  BY DEF IInv
<1>1. CASE UNCHANGED vars
  BY <1>1 DEF vars
<1>2. CASE create \/ recreate \/ upgrade \/ openFile \/ close
  BY <1>2, FileSound, UpgradeSound
<1>3. CASE \E method \in Methods : insertMethod(method)
  BY <1>3, InsertMethodSound
<1>4. CASE Next /\ ~(create \/ recreate \/ upgrade \/ openFile \/ close)
                /\ ~(\E method \in Methods : insertMethod(method))
  BY <1>4, CallSound DEF Next
<1> QED
  BY <1>1, <1>2, <1>3, <1>4

\* NoDanglingRows: whatever removes an identity, refuses a row or ends a
\* transaction, and wherever signond is killed, no realm, access right, owner or
\* reference names what is not there.
THEOREM NoDanglingRowsAlways == Spec => []NoDanglingRows
<1>1. IInv => NoDanglingRows
  BY DEF IInv, Sound, NoDanglingRows
<1> QED
  BY InitSound, StepSound, <1>1, PTL DEF Spec
-----------------------------------------------------------------------------
(* MetaDataDB implements IdentityMap. *)

\* The rows of an identity, and what it reads from them.
OfId(table, id) == {row \in table : row.id = id}

\* n and r differ in the lists of id only.
Agree(n, r, id) ==
    /\ Without(n.acl, id) = Without(r.acl, id)
    /\ Without(n.realms, id) = Without(r.realms, id)
    /\ Without(n.owner, id) = Without(r.owner, id)

OwnersOf(id, info) == {[id |-> id, token |-> token] : token \in info.ownerList}

AllAllowed(r, id, info) == \A row \in AclOf(id, info) : AclAllowed(r, row)

RealmsOf(id, info) == [id : {id}, realm : info.realms]
-----------------------------------------------------------------------------
(* Reading. *)

LEMMA SameIdentity ==
    ASSUME NEW r, NEW n, NEW id, n.credentials[id] = r.credentials[id],
           OfId(n.acl, id) = OfId(r.acl, id), OfId(n.realms, id) = OfId(r.realms, id),
           OfId(n.owner, id) = OfId(r.owner, id)
    PROVE  identity(n, id) = identity(r, id)
  BY DEF identity, ownerList, accessControlList, OfId

LEMMA AgreeIdentity ==
    ASSUME NEW r, NEW n, NEW id, Agree(n, r, id),
           NEW i, i # id, n.credentials[i] = r.credentials[i]
    PROVE  identity(n, i) = identity(r, i)
<1>1. ASSUME NEW S, NEW T, Without(S, id) = Without(T, id)
      PROVE  OfId(S, i) = OfId(T, i)
  <2>1. OfId(S, i) = OfId(Without(S, id), i) /\ OfId(T, i) = OfId(Without(T, id), i)
    BY DEF OfId, Without
  <2> QED
    BY <2>1, <1>1
<1> QED
  BY <1>1, SameIdentity DEF Agree

LEMMA SameIdentities ==
    ASSUME NEW r, NEW n, DOMAIN n.credentials = DOMAIN r.credentials,
           \A id \in DOMAIN r.credentials : identity(n, id) = identity(r, id)
    PROVE  identitiesOf(n) = identitiesOf(r)
  BY DEF identitiesOf

LEMMA InfoType ==
    ASSUME NEW info \in Infos
    PROVE  /\ info = [caption |-> info.caption, methods |-> info.methods,
                      realms |-> info.realms,
                      accessControlList |-> info.accessControlList,
                      ownerList |-> info.ownerList]
           /\ info.methods = [m \in DOMAIN info.methods |-> info.methods[m]]
           /\ Null \notin DOMAIN info.methods
           /\ \A m \in DOMAIN info.methods : Null \notin info.methods[m]
           /\ Null \notin info.accessControlList
           /\ Null \notin info.ownerList
<1>1. info \in Info /\ Null \notin Applications \cup Methods \cup Mechanisms
  BY MetaDataAssumption DEF MetaDataAssumption
<1>2. PICK M \in SUBSET Methods : info.methods \in [M -> SUBSET Mechanisms]
  BY <1>1 DEF Info
<1>3. /\ info.methods = [m \in DOMAIN info.methods |-> info.methods[m]]
      /\ Null \notin DOMAIN info.methods
      /\ \A m \in DOMAIN info.methods : Null \notin info.methods[m]
  BY <1>1, <1>2
<1>4. /\ Null \notin info.accessControlList
      /\ Null \notin info.ownerList
  BY <1>1 DEF Info
<1>5. info = [caption |-> info.caption, methods |-> info.methods,
              realms |-> info.realms,
              accessControlList |-> info.accessControlList,
              ownerList |-> info.ownerList]
  BY <1>1 DEF Info
<1> QED
  BY <1>3, <1>4, <1>5

LEMMA OrNullType ==
    ASSUME NEW S, Null \notin S
    PROVE  OrNull(S) # {} /\ OrNull(S) \ {Null} = S
  BY DEF OrNull

\* What AclOf() writes is what identity() reads.
LEMMA ReadAcl ==
    ASSUME NEW id, NEW info \in Infos
    PROVE  LET acl == AclOf(id, info)
           IN  /\ {a.method : a \in acl} \ {Null} = DOMAIN info.methods
               /\ \A m \in DOMAIN info.methods :
                    {a.mechanism : a \in {b \in acl : b.method = m}} \ {Null}
                        = info.methods[m]
               /\ {a.token : a \in acl} \ {Null} = info.accessControlList
               /\ \A a \in acl : a.id = id
<1> DEFINE acl == AclOf(id, info)
           methods == DOMAIN info.methods
           tokens == OrNull(info.accessControlList)
           mechanisms(m) == OrNull(info.methods[m])
<1>1. /\ Null \notin methods
      /\ tokens # {} /\ tokens \ {Null} = info.accessControlList
      /\ \A m \in methods : /\ mechanisms(m) # {}
                            /\ mechanisms(m) \ {Null} = info.methods[m]
  BY InfoType, OrNullType
<1>2. CASE methods = {}
  <2>1. acl = [id : {id}, method : {Null}, mechanism : {Null},
               token : info.accessControlList]
    BY <1>2 DEF AclOf
  <2>2. /\ \A a \in acl : a.id = id /\ a.method = Null /\ a.token \in info.accessControlList
        /\ \A t \in info.accessControlList : \E a \in acl : a.token = t
    <3>1. \A a \in acl : a.id = id /\ a.method = Null /\ a.token \in info.accessControlList
      BY <2>1
    <3>2. ASSUME NEW t \in info.accessControlList
          PROVE  \E a \in acl : a.token = t
      <4> DEFINE a == [id |-> id, method |-> Null, mechanism |-> Null, token |-> t]
      <4>1. a \in acl /\ a.token = t
        BY <2>1
      <4> QED
        BY <4>1
    <3> QED
      BY <3>1, <3>2
  <2> HIDE DEF acl
  <2>3. Null \notin info.accessControlList
    BY InfoType
  <2> QED
    BY <1>2, <2>2, <2>3 DEF acl
<1>3. CASE methods # {}
  <2>1. acl = UNION {[id : {id}, method : {m}, token : tokens,
                      mechanism : mechanisms(m)] : m \in methods}
    BY <1>3 DEF AclOf
  <2>2. \A a \in acl : /\ a.id = id /\ a.method \in methods /\ a.token \in tokens
                       /\ a.mechanism \in mechanisms(a.method)
    BY <2>1
  <2>3. \A m \in methods : \A x \in mechanisms(m), t \in tokens :
           \E a \in acl : a.method = m /\ a.mechanism = x /\ a.token = t
    <3> SUFFICES ASSUME NEW m \in methods, NEW x \in mechanisms(m), NEW t \in tokens
                 PROVE  \E a \in acl : a.method = m /\ a.mechanism = x /\ a.token = t
      OBVIOUS
    <3> DEFINE a == [id |-> id, method |-> m, token |-> t, mechanism |-> x]
    <3>1. a \in [id : {id}, method : {m}, token : tokens, mechanism : mechanisms(m)]
      OBVIOUS
    <3>2. a \in acl
      BY <2>1, <3>1
    <3> QED
      BY <3>2
  <2> HIDE DEF acl, methods, tokens, mechanisms
  <2>4. {a.method : a \in acl} \ {Null} = methods
    BY <1>1, <2>2, <2>3
  <2>5. ASSUME NEW m \in methods
        PROVE  {a.mechanism : a \in {b \in acl : b.method = m}} \ {Null} = info.methods[m]
    <3>1. {a.mechanism : a \in {b \in acl : b.method = m}} = mechanisms(m)
      BY <1>1, <2>2, <2>3
    <3> QED
      BY <1>1, <3>1
  <2>6. {a.token : a \in acl} \ {Null} = info.accessControlList
    <3>1. {a.token : a \in acl} = tokens
      BY <1>1, <1>3, <2>2, <2>3
    <3> QED
      BY <1>1, <3>1
  <2> QED
    BY <2>2, <2>4, <2>5, <2>6 DEF acl, methods
<1> QED
  BY <1>2, <1>3

LEMMA ReadBack ==
    ASSUME NEW r, NEW id, NEW info \in Infos, r.credentials[id] = info.caption,
           OfId(r.acl, id) = AclOf(id, info), OfId(r.realms, id) = RealmsOf(id, info),
           OfId(r.owner, id) = OwnersOf(id, info)
    PROVE  identity(r, id) = info
<1> DEFINE acl == OfId(r.acl, id)
           methods == [m \in {a.method : a \in acl} \ {Null} |->
                         {a.mechanism : a \in {b \in acl : b.method = m}} \ {Null}]
<1>1. methods = info.methods
  <2>1. acl = AclOf(id, info)
    OBVIOUS
  <2> HIDE DEF acl
  <2>2. {a.method : a \in acl} \ {Null} = DOMAIN info.methods
    BY <2>1, ReadAcl
  <2>3. \A m \in DOMAIN info.methods :
           {a.mechanism : a \in {b \in acl : b.method = m}} \ {Null} = info.methods[m]
    BY <2>1, ReadAcl
  <2>4. methods = [m \in DOMAIN info.methods |-> info.methods[m]]
    BY <2>2, <2>3
  <2> QED
    BY <2>4, InfoType
<1>2. accessControlList(r, id) = info.accessControlList
  BY ReadAcl DEF accessControlList, OfId
<1>3. ownerList(r, id) = info.ownerList
  <2>1. {row.token : row \in OwnersOf(id, info)} = info.ownerList
    <3>1. \A row \in OwnersOf(id, info) : row.token \in info.ownerList
      BY DEF OwnersOf
    <3>2. ASSUME NEW token \in info.ownerList
          PROVE  \E row \in OwnersOf(id, info) : row.token = token
      <4>1. [id |-> id, token |-> token] \in OwnersOf(id, info)
        BY DEF OwnersOf
      <4> QED
        BY <4>1
    <3> QED
      BY <3>1, <3>2
  <2> QED
    BY <2>1, InfoType DEF ownerList, OfId
<1>4. {row.realm : row \in OfId(r.realms, id)} = info.realms
  <2>1. ASSUME NEW realm \in info.realms
        PROVE  \E row \in RealmsOf(id, info) : row.realm = realm
    <3>1. [id |-> id, realm |-> realm] \in RealmsOf(id, info)
      BY DEF RealmsOf
    <3> QED
      BY <3>1
  <2>2. \A row \in RealmsOf(id, info) : row.realm \in info.realms
    BY DEF RealmsOf
  <2> QED
    BY <2>1, <2>2
<1>5. identity(r, id) =
        [caption |-> r.credentials[id], methods |-> methods,
         realms |-> {row.realm : row \in OfId(r.realms, id)},
         accessControlList |-> accessControlList(r, id),
         ownerList |-> ownerList(r, id)]
  BY DEF identity, OfId
<1> HIDE DEF methods
<1> QED
  BY <1>1, <1>2, <1>3, <1>4, <1>5, InfoType
-----------------------------------------------------------------------------
(* What updateIdentity() makes of the rows. *)

LEMMA InsertedRows ==
    ASSUME NEW S, NEW id, NEW T, \A row \in T : row.id = id
    PROVE  /\ OfId(Without(S, id) \cup T, id) = T
           /\ Without(Without(S, id) \cup T, id) = Without(S, id)
  BY DEF Without, OfId

LEMMA EmptiedRows ==
    ASSUME Sound(rows), NEW id, NEW info
    PROVE  LET w == updateCredentials(rows, id, info)
               e == removeLists(insertTokens(updateRealms(Written(rows, id, info), id, info),
                                             info), id)
           IN  /\ e.credentials = w.credentials /\ e.sequence = w.sequence
               /\ e.refs = rows.refs
               /\ e.acl = Without(rows.acl, id)
               /\ e.owner = Without(rows.owner, id)
               /\ e.realms = Without(rows.realms, id) \cup RealmsOf(id, info)
               /\ DOMAIN info.methods \subseteq e.methods
               /\ UNION Range(info.methods) \subseteq e.mechanisms
               /\ info.accessControlList \cup info.ownerList \subseteq e.tokens
<1> DEFINE w == updateCredentials(rows, id, info)
           a == insertMethods(w, info)
           b == updateRealms(a, id, info)
           c == insertTokens(b, info)
           e == removeLists(c, id)
<1>1. /\ Shaped(w)
      /\ w.methods = rows.methods /\ w.mechanisms = rows.mechanisms
      /\ w.tokens = rows.tokens /\ w.realms = rows.realms
      /\ w.acl = rows.acl /\ w.owner = rows.owner /\ w.refs = rows.refs
  BY UpdateCredentialsRows DEF Sound
<1> HIDE DEF w
<1>2. /\ Shaped(a)
      /\ a.methods = w.methods \cup DOMAIN info.methods
      /\ a.mechanisms = w.mechanisms \cup UNION Range(info.methods)
      /\ a.credentials = w.credentials /\ a.sequence = w.sequence
      /\ a.tokens = w.tokens /\ a.realms = w.realms
      /\ a.acl = w.acl /\ a.owner = w.owner /\ a.refs = w.refs
  BY <1>1, InsertMethodsRows
<1> HIDE DEF a
<1>3. /\ Shaped(b)
      /\ b.realms = Without(a.realms, id) \cup [id : {id}, realm : info.realms]
      /\ b.credentials = a.credentials /\ b.sequence = a.sequence
      /\ b.methods = a.methods /\ b.mechanisms = a.mechanisms
      /\ b.tokens = a.tokens
      /\ b.acl = a.acl /\ b.owner = a.owner /\ b.refs = a.refs
  BY <1>2, UpdateRealmsRows
<1> HIDE DEF b
<1>4. /\ Shaped(c)
      /\ c.tokens = b.tokens \cup info.accessControlList \cup info.ownerList
      /\ c.credentials = b.credentials /\ c.sequence = b.sequence
      /\ c.methods = b.methods /\ c.mechanisms = b.mechanisms
      /\ c.realms = b.realms
      /\ c.acl = b.acl /\ c.owner = b.owner /\ c.refs = b.refs
  BY <1>3, InsertTokensRows
<1> HIDE DEF c
<1>5. /\ e.acl = Without(c.acl, id)
      /\ e.owner = Without(c.owner, id)
      /\ e.credentials = c.credentials /\ e.sequence = c.sequence
      /\ e.methods = c.methods /\ e.mechanisms = c.mechanisms
      /\ e.tokens = c.tokens /\ e.realms = c.realms /\ e.refs = c.refs
  BY <1>4, RemoveListsRows
<1> HIDE DEF e
<1>6. /\ e.credentials = w.credentials /\ e.sequence = w.sequence
      /\ e.refs = rows.refs
      /\ e.acl = Without(rows.acl, id)
      /\ e.owner = Without(rows.owner, id)
      /\ e.realms = Without(rows.realms, id) \cup RealmsOf(id, info)
      /\ DOMAIN info.methods \subseteq e.methods
      /\ UNION Range(info.methods) \subseteq e.mechanisms
      /\ info.accessControlList \cup info.ownerList \subseteq e.tokens
  BY <1>1, <1>2, <1>3, <1>4, <1>5 DEF RealmsOf
<1> QED
  BY <1>6 DEF a, b, c, e, w, Written

LEMMA AclIsAllowed ==
    ASSUME NEW r, NEW id, NEW info \in Infos, id \in DOMAIN r.credentials,
           DOMAIN info.methods \subseteq r.methods,
           UNION Range(info.methods) \subseteq r.mechanisms,
           info.accessControlList \subseteq r.tokens
    PROVE  AllAllowed(r, id, info)
<1> USE DEF AllAllowed
<1>1. \A m \in DOMAIN info.methods : info.methods[m] \subseteq r.mechanisms
  BY DEF Range
<1>2. CASE DOMAIN info.methods = {}
  BY <1>2 DEF AclOf, AclAllowed, Known
<1>3. CASE DOMAIN info.methods # {}
  <2>1. \A row \in AclOf(id, info) :
           /\ row.id = id /\ row.method \in DOMAIN info.methods
           /\ row.mechanism \in OrNull(info.methods[row.method])
           /\ row.token \in OrNull(info.accessControlList)
    BY <1>3 DEF AclOf
  <2>2. /\ OrNull(info.accessControlList) \subseteq Known(r.tokens)
        /\ \A m \in DOMAIN info.methods :
              OrNull(info.methods[m]) \subseteq Known(r.mechanisms)
    BY <1>1 DEF OrNull, Known
  <2> QED
    BY <2>1, <2>2 DEF AclAllowed, Known
<1> QED
  BY <1>2, <1>3

\* The rows that insertAcl() and insertOwners() write, if no trigger refuses.
LEMMA AclIsInserted ==
    ASSUME NEW c, IsConnection(c), NEW id, NEW info, NEW fault, fault # "acl",
           AllAllowed(c.rows, id, info)
    PROVE  LET d == insertAcl(c, id, info, fault)
           IN  /\ IsConnection(d) /\ d.saved = c.saved /\ d.active = c.active
               /\ d.rows.acl = c.rows.acl \cup AclOf(id, info)
               /\ d.rows.credentials = c.rows.credentials
               /\ d.rows.sequence = c.rows.sequence
               /\ d.rows.tokens = c.rows.tokens /\ d.rows.realms = c.rows.realms
               /\ d.rows.owner = c.rows.owner /\ d.rows.refs = c.rows.refs
<1> DEFINE new == AclOf(id, info)
           d == [c EXCEPT !.rows.acl = @ \cup new]
<1>1. insertAcl(c, id, info, fault) = d
  BY Zenon DEF insertAcl, AllAllowed
<1>2. IsConnection(insertAcl(c, id, info, fault))
  BY InsertAclSound
<1> HIDE DEF new
<1>3. d.saved = c.saved /\ d.active = c.active
  BY Zenon DEF IsConnection
<1>4. /\ d.rows.acl = c.rows.acl \cup new
      /\ d.rows.credentials = c.rows.credentials
      /\ d.rows.sequence = c.rows.sequence
      /\ d.rows.tokens = c.rows.tokens /\ d.rows.realms = c.rows.realms
      /\ d.rows.owner = c.rows.owner /\ d.rows.refs = c.rows.refs
  BY Zenon, InsertAclRows
<1> HIDE DEF d
<1> QED
  BY <1>1, <1>2, <1>3, <1>4 DEF new

LEMMA OwnersAreInserted ==
    ASSUME NEW c, IsConnection(c), NEW id, NEW info, NEW fault, fault # "owner",
           info.ownerList \subseteq c.rows.tokens
    PROVE  LET d == insertOwners(c, id, info, fault)
           IN  /\ d.saved = c.saved /\ d.active = c.active
               /\ d.rows.owner = c.rows.owner \cup OwnersOf(id, info)
               /\ d.rows.credentials = c.rows.credentials
               /\ d.rows.sequence = c.rows.sequence
               /\ d.rows.acl = c.rows.acl /\ d.rows.realms = c.rows.realms
               /\ d.rows.refs = c.rows.refs
<1> DEFINE new == {[id |-> id, token |-> IF token \in c.rows.tokens THEN token ELSE Null]
                       : token \in info.ownerList}
           d == [c EXCEPT !.rows.owner = @ \cup new]
<1>1. new = OwnersOf(id, info)
  BY DEF OwnersOf
<1>2. \A row \in new : OwnerAllowed(c.rows, row)
  BY DEF OwnerAllowed, Known
<1>3. insertOwners(c, id, info, fault) = d
  BY Zenon, <1>2 DEF insertOwners
<1> HIDE DEF new
<1>4. d.saved = c.saved /\ d.active = c.active
  BY Zenon DEF IsConnection
<1>5. /\ d.rows.owner = c.rows.owner \cup new
      /\ d.rows.credentials = c.rows.credentials
      /\ d.rows.sequence = c.rows.sequence
      /\ d.rows.acl = c.rows.acl /\ d.rows.realms = c.rows.realms
      /\ d.rows.refs = c.rows.refs
  BY Zenon, InsertOwnersRows
<1> HIDE DEF d
<1> QED
  BY <1>1, <1>3, <1>4, <1>5

LEMMA StoredUpdate ==
    ASSUME Sound(rows), NEW id, NEW info \in Infos, NEW fault,
           fault # "acl", fault # "owner", ~GivenUp(id, info, fault),
           id \in DOMAIN updateCredentials(rows, id, info).credentials
    PROVE  LET w == updateCredentials(rows, id, info)
               c == Updated(id, info, fault)
               n == c.rows
           IN  /\ c.active /\ c.saved = rows
               /\ n.credentials = w.credentials /\ n.sequence = w.sequence
               /\ n.refs = rows.refs
               /\ Agree(n, rows, id)
               /\ OfId(n.acl, id) = AclOf(id, info)
               /\ OfId(n.realms, id) = RealmsOf(id, info)
               /\ OfId(n.owner, id) = OwnersOf(id, info)
<1> DEFINE w == updateCredentials(rows, id, info)
           b == updateRealms(Written(rows, id, info), id, info)
           e == removeLists(insertTokens(b, info), id)
           t == Transaction(e, rows)
           d == insertAcl(t, id, info, fault)
           c == insertOwners(d, id, info, fault)
<1>1. /\ e.credentials = w.credentials /\ e.sequence = w.sequence
      /\ e.refs = rows.refs
      /\ e.acl = Without(rows.acl, id)
      /\ e.owner = Without(rows.owner, id)
      /\ e.realms = Without(rows.realms, id) \cup RealmsOf(id, info)
      /\ DOMAIN info.methods \subseteq e.methods
      /\ UNION Range(info.methods) \subseteq e.mechanisms
      /\ info.accessControlList \cup info.ownerList \subseteq e.tokens
  BY EmptiedRows
<1>2. Sound(e)
  <2>1. info.realms # {} => RealmAllowed(Written(rows, id, info), id)
    BY DEF GivenUp, updateRealmsSucceeds
  <2>2. Sound(b)
    BY <2>1, WrittenSound, UpdateRealmsSound
  <2> QED
    BY <2>2, InsertTokensSound, RemoveListsSound
<1>3. id \in DOMAIN w.credentials
  OBVIOUS
<1>4. Updated(id, info, fault) = c
  BY DEF Updated
<1> HIDE DEF w, b, e
<1>5. IsConnection(t) /\ t.rows = e /\ t.saved = rows /\ t.active
  BY <1>2, TransactionSound DEF Transaction
<1> HIDE DEF t
<1>6. AllAllowed(t.rows, id, info)
  BY <1>1, <1>3, <1>5, AclIsAllowed
<1>7. /\ IsConnection(d) /\ d.saved = t.saved /\ d.active = t.active
      /\ d.rows.acl = t.rows.acl \cup AclOf(id, info)
      /\ d.rows.credentials = t.rows.credentials
      /\ d.rows.sequence = t.rows.sequence
      /\ d.rows.tokens = t.rows.tokens /\ d.rows.realms = t.rows.realms
      /\ d.rows.owner = t.rows.owner /\ d.rows.refs = t.rows.refs
  <2>1. d.saved = t.saved
    BY <1>5, <1>6, AclIsInserted
  <2>2. d.active = t.active
    BY <1>5, <1>6, AclIsInserted
  <2>3. d.rows.acl = t.rows.acl \cup AclOf(id, info)
    BY <1>5, <1>6, AclIsInserted
  <2>4. /\ d.rows.credentials = t.rows.credentials
        /\ d.rows.sequence = t.rows.sequence
        /\ d.rows.tokens = t.rows.tokens
    BY <1>5, <1>6, AclIsInserted
  <2>5. /\ d.rows.realms = t.rows.realms
        /\ d.rows.owner = t.rows.owner /\ d.rows.refs = t.rows.refs
    BY <1>5, <1>6, AclIsInserted
  <2>6. IsConnection(d)
    BY <1>5, InsertAclSound
  <2> QED
    BY <2>1, <2>2, <2>3, <2>4, <2>5, <2>6
<1> HIDE DEF d
<1>8. /\ c.saved = d.saved /\ c.active = d.active
      /\ c.rows.owner = d.rows.owner \cup OwnersOf(id, info)
      /\ c.rows.credentials = d.rows.credentials
      /\ c.rows.sequence = d.rows.sequence
      /\ c.rows.acl = d.rows.acl /\ c.rows.realms = d.rows.realms
      /\ c.rows.refs = d.rows.refs
  <2>1. info.ownerList \subseteq d.rows.tokens
    BY <1>1, <1>5, <1>7
  <2> QED
    BY <1>7, <2>1, OwnersAreInserted
<1> HIDE DEF c
<1>9. /\ c.active /\ c.saved = rows
      /\ c.rows.credentials = w.credentials /\ c.rows.sequence = w.sequence
      /\ c.rows.refs = rows.refs
      /\ c.rows.acl = Without(rows.acl, id) \cup AclOf(id, info)
      /\ c.rows.realms = Without(rows.realms, id) \cup RealmsOf(id, info)
      /\ c.rows.owner = Without(rows.owner, id) \cup OwnersOf(id, info)
  BY <1>1, <1>5, <1>7, <1>8
<1>10. OfId(c.rows.acl, id) = AclOf(id, info) /\ Without(c.rows.acl, id) = Without(rows.acl, id)
  <2>1. \A row \in AclOf(id, info) : row.id = id
    BY ReadAcl
  <2>2. /\ OfId(Without(rows.acl, id) \cup AclOf(id, info), id) = AclOf(id, info)
        /\ Without(Without(rows.acl, id) \cup AclOf(id, info), id) = Without(rows.acl, id)
    BY <2>1, InsertedRows
  <2> QED
    BY <1>9, <2>2
<1>11. /\ OfId(c.rows.realms, id) = RealmsOf(id, info)
       /\ Without(c.rows.realms, id) = Without(rows.realms, id)
  <2>1. \A row \in RealmsOf(id, info) : row.id = id
    BY DEF RealmsOf
  <2>2. /\ OfId(Without(rows.realms, id) \cup RealmsOf(id, info), id) = RealmsOf(id, info)
        /\ Without(Without(rows.realms, id) \cup RealmsOf(id, info), id) = Without(rows.realms, id)
    BY <2>1, InsertedRows
  <2> QED
    BY <1>9, <2>2
<1>12. /\ OfId(c.rows.owner, id) = OwnersOf(id, info)
       /\ Without(c.rows.owner, id) = Without(rows.owner, id)
  <2>1. \A row \in OwnersOf(id, info) : row.id = id
    BY DEF OwnersOf
  <2>2. /\ OfId(Without(rows.owner, id) \cup OwnersOf(id, info), id) = OwnersOf(id, info)
        /\ Without(Without(rows.owner, id) \cup OwnersOf(id, info), id) = Without(rows.owner, id)
    BY <2>1, InsertedRows
  <2> QED
    BY <1>9, <2>2
<1> QED
  BY <1>4, <1>9, <1>10, <1>11, <1>12 DEF w, Agree

\* An identity that is gone: whatever was written and whichever transaction was
\* ended, the others are left alone.
Near(n, id) ==
    /\ n.credentials = rows.credentials /\ n.sequence = rows.sequence
    /\ n.refs = rows.refs
    /\ Agree(n, rows, id)

IsNear(c, id) == IsConnection(c) /\ Near(c.rows, id) /\ Near(c.saved, id)

LEMMA RaiseNear ==
    ASSUME NEW c, NEW id, IsNear(c, id)
    PROVE  IsNear(Raise(c), id)
<1>1. IsConnection(Raise(c))
  BY RaiseSound DEF IsNear
<1>2. Raise(c).rows \in {c.rows, c.saved} /\ Raise(c).saved = c.saved
  BY DEF Raise
<1> QED
  BY <1>1, <1>2 DEF IsNear

LEMMA InsertAclNear ==
    ASSUME NEW c, NEW id, IsNear(c, id), NEW info \in Infos, NEW fault
    PROVE  IsNear(insertAcl(c, id, info, fault), id)
<1> DEFINE new == AclOf(id, info)
           d == [c EXCEPT !.rows.acl = @ \cup new]
<1>1. IsConnection(insertAcl(c, id, info, fault))
  BY InsertAclSound DEF IsNear
<1>2. \A row \in new : row.id = id
  BY ReadAcl
<1>3. \/ insertAcl(c, id, info, fault) = c
      \/ insertAcl(c, id, info, fault) = d
      \/ insertAcl(c, id, info, fault) = Raise(c)
  BY Zenon DEF insertAcl
<1> HIDE DEF new
<1>4. d.saved = c.saved
  BY Zenon DEF IsConnection, IsNear
<1>5. IsConnection(c)
  BY DEF IsNear
<1>6. /\ d.rows.acl = c.rows.acl \cup new
      /\ d.rows.credentials = c.rows.credentials
      /\ d.rows.sequence = c.rows.sequence
      /\ d.rows.realms = c.rows.realms
      /\ d.rows.owner = c.rows.owner /\ d.rows.refs = c.rows.refs
  BY Zenon, <1>5, InsertAclRows
<1> HIDE DEF d
<1>7. Without(d.rows.acl, id) = Without(c.rows.acl, id)
  BY <1>2, <1>6 DEF Without
<1>8. Near(d.rows, id) /\ Near(d.saved, id)
  BY <1>4, <1>6, <1>7 DEF IsNear, Near, Agree
<1>9. IsNear(Raise(c), id)
  BY RaiseNear
<1> QED
  BY <1>1, <1>3, <1>8, <1>9 DEF IsNear

LEMMA InsertOwnersNear ==
    ASSUME NEW c, NEW id, IsNear(c, id), NEW info, NEW fault
    PROVE  IsNear(insertOwners(c, id, info, fault), id)
<1> DEFINE new == {[id |-> id, token |-> IF token \in c.rows.tokens THEN token ELSE Null]
                       : token \in info.ownerList}
           d == [c EXCEPT !.rows.owner = @ \cup new]
<1>1. IsConnection(insertOwners(c, id, info, fault))
  BY InsertOwnersSound DEF IsNear
<1>2. \A row \in new : row.id = id
  OBVIOUS
<1>3. \/ insertOwners(c, id, info, fault) = c
      \/ insertOwners(c, id, info, fault) = d
      \/ insertOwners(c, id, info, fault) = Raise(c)
  BY Zenon DEF insertOwners
<1> HIDE DEF new
<1>4. d.saved = c.saved
  BY Zenon DEF IsConnection, IsNear
<1>5. IsConnection(c)
  BY DEF IsNear
<1>6. /\ d.rows.owner = c.rows.owner \cup new
      /\ d.rows.credentials = c.rows.credentials
      /\ d.rows.sequence = c.rows.sequence
      /\ d.rows.realms = c.rows.realms
      /\ d.rows.acl = c.rows.acl /\ d.rows.refs = c.rows.refs
  BY Zenon, <1>5, InsertOwnersRows
<1> HIDE DEF d
<1>7. Without(d.rows.owner, id) = Without(c.rows.owner, id)
  BY <1>2, <1>6 DEF Without
<1>8. Near(d.rows, id) /\ Near(d.saved, id)
  BY <1>4, <1>6, <1>7 DEF IsNear, Near, Agree
<1>9. IsNear(Raise(c), id)
  BY RaiseNear
<1> QED
  BY <1>1, <1>3, <1>8, <1>9 DEF IsNear

LEMMA GoneUpdate ==
    ASSUME Sound(rows), NEW id, NEW info \in Infos, NEW fault,
           ~GivenUp(id, info, fault), updateCredentials(rows, id, info) = rows
    PROVE  LET c == Updated(id, info, fault)
           IN  Near(c.rows, id) /\ Near(c.saved, id)
<1> DEFINE b == updateRealms(Written(rows, id, info), id, info)
           e == removeLists(insertTokens(b, info), id)
           t == Transaction(e, rows)
<1>1. /\ e.credentials = rows.credentials /\ e.sequence = rows.sequence
      /\ e.refs = rows.refs
      /\ e.acl = Without(rows.acl, id)
      /\ e.owner = Without(rows.owner, id)
      /\ e.realms = Without(rows.realms, id) \cup RealmsOf(id, info)
  BY EmptiedRows
<1>2. Sound(e)
  <2>1. info.realms # {} => RealmAllowed(Written(rows, id, info), id)
    BY DEF GivenUp, updateRealmsSucceeds
  <2>2. Sound(b)
    BY <2>1, WrittenSound, UpdateRealmsSound
  <2> QED
    BY <2>2, InsertTokensSound, RemoveListsSound
<1>3. Updated(id, info, fault)
          = insertOwners(insertAcl(t, id, info, fault), id, info, fault)
  BY DEF Updated
<1> HIDE DEF b, e
<1>4. Near(e, id)
  <2>1. /\ Without(e.acl, id) = Without(rows.acl, id)
        /\ Without(e.owner, id) = Without(rows.owner, id)
    BY <1>1 DEF Without
  <2>2. \A row \in RealmsOf(id, info) : row.id = id
    BY DEF RealmsOf
  <2>3. Without(e.realms, id) = Without(rows.realms, id)
    BY <1>1, <2>2 DEF Without
  <2> QED
    BY <1>1, <2>1, <2>3 DEF Near, Agree
<1>5. Near(rows, id)
  BY DEF Near, Agree
<1>6. IsConnection(t) /\ t.rows = e /\ t.saved = rows
  BY <1>2, TransactionSound DEF Transaction
<1> HIDE DEF t
<1>7. IsNear(t, id)
  BY <1>4, <1>5, <1>6 DEF IsNear
<1>8. IsNear(Updated(id, info, fault), id)
  BY <1>3, <1>7, InsertAclNear, InsertOwnersNear
<1> QED
  BY <1>8 DEF IsNear
-----------------------------------------------------------------------------
(* The inductive invariant of the refinement. *)

RowsInv ==
    /\ Sound(rows)
    /\ rows.sequence \in Nat
    /\ DOMAIN rows.credentials \subseteq 1 .. rows.sequence
    /\ rows.refs \subseteq Map!Entries

FileInv ==
    /\ DOMAIN file = {"tables", "owner", "version"}
    /\ open => file.owner /\ hasTables
    /\ ~file.owner => rows.owner = {}
    /\ ~hasTables => rows = NoRows /\ file.version = 0

RefInv == RowsInv /\ FileInv

\* What every call starts from, and leaves alone.
Calls == RefInv /\ open /\ UNCHANGED <<file, open>>

LEMMA CallView ==
    ASSUME Calls
    PROVE  /\ Upgraded = rows /\ Upgraded' = rows'
           /\ Interrupted' = Interrupted
           /\ RowsInv' => RefInv'
<1>1. file.owner /\ hasTables /\ file' = file /\ open' = open
  BY DEF Calls, RefInv, FileInv
<1>2. Upgraded = rows /\ Upgraded' = rows'
  BY <1>1 DEF Upgraded
<1>3. hasTables' = hasTables
  BY <1>1 DEF hasTables
<1>4. Interrupted' = Interrupted
  BY <1>1, <1>3 DEF Interrupted
<1>5. FileInv'
  BY <1>1, <1>3 DEF Calls, RefInv, FileInv
<1> QED
  BY <1>2, <1>4, <1>5 DEF RefInv

LEMMA FailStep ==
    ASSUME Calls, rows' = rows, ok' = FALSE
    PROVE  RowsInv' /\ Map!Fail
<1>1. RowsInv'
  BY DEF Calls, RefInv, RowsInv
<1>2. Upgraded = rows /\ Upgraded' = rows' /\ Interrupted' = Interrupted
  BY CallView
<1>3. identitiesOf(Upgraded)' = identitiesOf(Upgraded)
  BY <1>2
<1> QED
  BY <1>1, <1>2, <1>3 DEF Map!Fail

\* Neither the identities nor the references change, nor the ids.
LEMMA NearStep ==
    ASSUME Calls, NEW id, Sound(rows'), Near(rows', id), id \notin DOMAIN rows.credentials
    PROVE  /\ RowsInv'
           /\ identitiesOf(Upgraded)' = identitiesOf(Upgraded)
           /\ rows'.refs = rows.refs /\ rows'.sequence = rows.sequence
<1>1. Upgraded = rows /\ Upgraded' = rows'
  BY CallView
<1>2. \A i \in DOMAIN rows.credentials : identity(rows', i) = identity(rows, i)
  BY AgreeIdentity DEF Near
<1>3. identitiesOf(rows') = identitiesOf(rows)
  BY <1>2, SameIdentities DEF Near
<1>4. RowsInv'
  BY DEF Calls, RefInv, RowsInv, Near
<1> QED
  BY <1>1, <1>3, <1>4 DEF Near

LEMMA GoneStep ==
    ASSUME Calls, NEW id \in Ids, NEW info \in Infos, NEW fault,
           ~GivenUp(id, info, fault), updateIdentity(id, info, fault),
           id \notin DOMAIN rows.credentials, id <= rows.sequence
    PROVE  RowsInv' /\ (Map!UpdateGone \/ Map!Fail)
<1>1. updateCredentials(rows, id, info) = rows
  BY UpdateCredentialsGone
<1>2. Near(rows', id) /\ ok' \in BOOLEAN
  <2> DEFINE c == Updated(id, info, fault)
  <2>1. Near(c.rows, id) /\ Near(c.saved, id)
    BY <1>1, GoneUpdate DEF Calls, RefInv, RowsInv
  <2>2. rows' = Ended(c, fault) /\ ok' = commits(c, fault)
    BY DEF updateIdentity
  <2>3. rows' = c.rows \/ rows' = c.saved
    BY <2>2 DEF Ended
  <2>4. commits(c, fault) \in BOOLEAN
    BY DEF commits
  <2> QED
    BY <2>1, <2>2, <2>3, <2>4
<1>3. Sound(rows')
  BY UpdateIdentitySound DEF Calls, RefInv, RowsInv
<1>4. /\ RowsInv'
      /\ identitiesOf(Upgraded)' = identitiesOf(Upgraded)
      /\ rows'.refs = rows.refs /\ rows'.sequence = rows.sequence
  BY <1>2, <1>3, NearStep
<1>5. Interrupted' = Interrupted /\ Upgraded = rows
  BY CallView
<1>6. DOMAIN identitiesOf(Upgraded) = DOMAIN rows.credentials
  BY <1>5 DEF identitiesOf
<1>7. id \in 1 .. rows.sequence
  BY MetaDataAssumption DEF Ids, Calls, RefInv, RowsInv, MetaDataAssumption
<1>8. CASE ok' = TRUE
  <2>1. (1 .. rows.sequence) \ DOMAIN identitiesOf(Upgraded) # {}
    BY <1>6, <1>7
  <2>2. (1 .. rows.sequence)' = 1 .. rows.sequence
    BY <1>4
  <2> QED
    BY <1>4, <1>5, <1>8, <2>1, <2>2 DEF Map!UpdateGone
<1>9. CASE ok' = FALSE
  BY <1>4, <1>5, <1>9 DEF Map!Fail
<1> QED
  BY <1>2, <1>4, <1>8, <1>9

\* An identity that is there or is new: all of it or nothing.
LEMMA StoredResult ==
    ASSUME Calls, NEW id, NEW info \in Infos, NEW fault,
           fault # "acl", fault # "owner",
           ~GivenUp(id, info, fault), updateIdentity(id, info, fault),
           NEW w, w = updateCredentials(rows, id, info),
           id \in DOMAIN w.credentials, w.credentials[id] = info.caption
    PROVE  \/ rows' = rows /\ ok' = FALSE
           \/ /\ ok' = TRUE
              /\ rows'.credentials = w.credentials /\ rows'.sequence = w.sequence
              /\ rows'.refs = rows.refs
              /\ Agree(rows', rows, id)
              /\ identity(rows', id) = info
<1> DEFINE c == Updated(id, info, fault)
           n == c.rows
<1>1. Sound(rows)
  BY DEF Calls, RefInv, RowsInv
<1>2. /\ c.active /\ c.saved = rows
      /\ n.credentials = w.credentials /\ n.sequence = w.sequence
      /\ n.refs = rows.refs
      /\ Agree(n, rows, id)
      /\ OfId(n.acl, id) = AclOf(id, info)
      /\ OfId(n.realms, id) = RealmsOf(id, info)
      /\ OfId(n.owner, id) = OwnersOf(id, info)
  BY <1>1, StoredUpdate
<1>3. rows' = Ended(c, fault) /\ ok' = commits(c, fault)
  BY DEF updateIdentity
<1> HIDE DEF c
<1>4. CASE fault = "commit"
  <2>1. ~commits(c, fault)
    BY <1>4 DEF commits
  <2> QED
    BY <1>2, <1>3, <2>1 DEF Ended
<1>5. CASE fault # "commit"
  <2>1. commits(c, fault) = TRUE
    BY <1>2, <1>5 DEF commits
  <2>2. rows' = n
    BY <1>3, <2>1 DEF Ended
  <2>3. n.credentials[id] = info.caption
    BY <1>2
  <2>4. identity(n, id) = info
    BY <1>2, <2>3, ReadBack
  <2> QED
    BY <1>2, <1>3, <2>1, <2>2, <2>4
<1> QED
  BY <1>4, <1>5

LEMMA UpdateStep ==
    ASSUME Calls, NEW id, NEW info \in Infos, NEW fault,
           fault # "acl", fault # "owner",
           ~GivenUp(id, info, fault), updateIdentity(id, info, fault),
           id \in DOMAIN rows.credentials
    PROVE  RowsInv' /\ (Map!Update(id, info) \/ Map!Fail)
<1> DEFINE w == updateCredentials(rows, id, info)
<1>1. /\ Sound(rows) /\ Sound(rows')
  BY UpdateIdentitySound DEF Calls, RefInv, RowsInv
<1>2. /\ w.credentials = [rows.credentials EXCEPT ![id] = info.caption]
      /\ w.sequence = rows.sequence
  BY <1>1, UpdateCredentialsKnown DEF Sound
<1> HIDE DEF w
<1>3. CASE rows' = rows /\ ok' = FALSE
  BY <1>3, FailStep
<1>4. CASE /\ ok' = TRUE
           /\ rows'.credentials = w.credentials /\ rows'.sequence = w.sequence
           /\ rows'.refs = rows.refs
           /\ Agree(rows', rows, id)
           /\ identity(rows', id) = info
  <2>1. DOMAIN rows'.credentials = DOMAIN rows.credentials
    BY <1>2, <1>4
  <2>2. RowsInv'
    BY <1>1, <1>2, <1>4, <2>1 DEF Calls, RefInv, RowsInv
  <2>3. Upgraded = rows /\ Upgraded' = rows' /\ Interrupted' = Interrupted
    BY CallView
  <2>4. \A i \in DOMAIN rows.credentials : i # id => identity(rows', i) = identity(rows, i)
    <3>1. \A i \in DOMAIN rows.credentials :
             i # id => rows'.credentials[i] = rows.credentials[i]
      BY <1>2, <1>4
    <3> QED
      BY <1>4, <3>1, AgreeIdentity
  <2>5. identitiesOf(rows') = [identitiesOf(rows) EXCEPT ![id] = info]
    BY <1>4, <2>1, <2>4 DEF identitiesOf
  <2>6. id \in DOMAIN identitiesOf(rows)
    BY DEF identitiesOf
  <2>7. (1 .. rows.sequence)' = 1 .. rows.sequence
    BY <1>2, <1>4
  <2>8. Map!Update(id, info)
    BY <1>4, <2>3, <2>5, <2>6, <2>7 DEF Map!Update
  <2> QED
    BY <2>2, <2>8
<1>5. id \in DOMAIN w.credentials /\ w.credentials[id] = info.caption
  BY <1>2
<1>6. w = updateCredentials(rows, id, info)
  BY DEF w
<1> QED
  BY <1>3, <1>4, <1>5, <1>6, StoredResult

LEMMA InsertStep ==
    ASSUME Calls, NEW id, NEW info \in Infos, NEW fault,
           fault # "acl", fault # "owner",
           ~GivenUp(id, info, fault), updateIdentity(id, info, fault),
           id = rows.sequence + 1
    PROVE  RowsInv' /\ (Map!Insert(id, info) \/ Map!Fail)
<1> DEFINE w == updateCredentials(rows, id, info)
<1>1. /\ Sound(rows) /\ Sound(rows')
      /\ rows.sequence \in Nat /\ DOMAIN rows.credentials \subseteq 1 .. rows.sequence
  BY UpdateIdentitySound DEF Calls, RefInv, RowsInv
<1>2. id \notin 1 .. rows.sequence /\ id \notin DOMAIN rows.credentials /\ ~(id <= rows.sequence)
  BY <1>1
<1>3. /\ w.credentials = [i \in DOMAIN rows.credentials \cup {id} |->
                            IF i = id THEN info.caption ELSE rows.credentials[i]]
      /\ w.sequence = id
  BY <1>1, <1>2, UpdateCredentialsNew DEF Sound
<1> HIDE DEF w
<1>4. CASE rows' = rows /\ ok' = FALSE
  BY <1>4, FailStep
<1>5. CASE /\ ok' = TRUE
           /\ rows'.credentials = w.credentials /\ rows'.sequence = w.sequence
           /\ rows'.refs = rows.refs
           /\ Agree(rows', rows, id)
           /\ identity(rows', id) = info
  <2>1. DOMAIN rows'.credentials = DOMAIN rows.credentials \cup {id}
    BY <1>3, <1>5
  <2>2. (1 .. rows.sequence)' = (1 .. rows.sequence) \cup {id}
    BY <1>1, <1>3, <1>5
  <2>3. RowsInv'
    <3>1. rows'.sequence \in Nat
      BY <1>1, <1>3, <1>5
    <3> QED
      BY <1>1, <1>5, <2>1, <2>2, <3>1 DEF Calls, RefInv, RowsInv
  <2>4. Upgraded = rows /\ Upgraded' = rows' /\ Interrupted' = Interrupted
    BY CallView
  <2>5. \A i \in DOMAIN rows.credentials : identity(rows', i) = identity(rows, i)
    <3>1. \A i \in DOMAIN rows.credentials :
             i # id /\ rows'.credentials[i] = rows.credentials[i]
      BY <1>2, <1>3, <1>5
    <3> QED
      BY <1>5, <3>1, AgreeIdentity
  <2>6. identitiesOf(rows') = [i \in DOMAIN identitiesOf(rows) \cup {id} |->
                                 IF i = id THEN info ELSE identitiesOf(rows)[i]]
    BY <1>2, <1>5, <2>1, <2>5 DEF identitiesOf
  <2>7. Map!Insert(id, info)
    BY <1>2, <1>5, <2>2, <2>4, <2>6 DEF Map!Insert
  <2> QED
    BY <2>3, <2>7
<1>6. id \in DOMAIN w.credentials /\ w.credentials[id] = info.caption
  BY <1>3
<1>7. w = updateCredentials(rows, id, info)
  BY DEF w
<1> QED
  BY <1>4, <1>5, <1>6, <1>7, StoredResult
-----------------------------------------------------------------------------
(* The other calls. *)

LEMMA RemoveStep ==
    ASSUME RefInv, NEW id \in Ids, NEW fault, removeIdentity(id, fault)
    PROVE  RefInv' /\ (Map!Remove(id) \/ Map!Fail)
<1> DEFINE gone == [rows EXCEPT !.realms = Without(@, id), !.acl = Without(@, id)]
           cascaded == [gone EXCEPT !.refs = Without(@, id)]
           n == [cascaded EXCEPT !.credentials = Restrict(@, DOMAIN @ \ {id}),
                                 !.owner = Without(@, id)]
<1>1. Calls /\ rows' = (IF fault = "none" THEN n ELSE rows) /\ ok' = (fault = "none")
  BY DEF Calls, removeIdentity, Executes, Cascade, CascadeReferences
<1>2. Shaped(rows) /\ Sound(rows) /\ Sound(rows')
  BY RemoveIdentitySound DEF RefInv, RowsInv, Sound
<1>3. /\ Shaped(gone)
      /\ gone.realms = Without(rows.realms, id) /\ gone.acl = Without(rows.acl, id)
      /\ gone.credentials = rows.credentials /\ gone.sequence = rows.sequence
      /\ gone.owner = rows.owner /\ gone.refs = rows.refs
  BY Zenon, <1>2 DEF Shaped
<1> HIDE DEF gone
<1>4. /\ Shaped(cascaded)
      /\ cascaded.refs = Without(gone.refs, id)
      /\ cascaded.realms = gone.realms /\ cascaded.acl = gone.acl
      /\ cascaded.credentials = gone.credentials /\ cascaded.sequence = gone.sequence
      /\ cascaded.owner = gone.owner
  BY Zenon, <1>3 DEF Shaped
<1> HIDE DEF cascaded
<1>5. /\ n.credentials = Restrict(cascaded.credentials, DOMAIN cascaded.credentials \ {id})
      /\ n.owner = Without(cascaded.owner, id)
      /\ n.realms = cascaded.realms /\ n.acl = cascaded.acl
      /\ n.sequence = cascaded.sequence /\ n.refs = cascaded.refs
  BY Zenon, <1>4 DEF Shaped
<1> HIDE DEF n
<1>6. /\ n.credentials = Restrict(rows.credentials, DOMAIN rows.credentials \ {id})
      /\ n.refs = Without(rows.refs, id) /\ n.sequence = rows.sequence
      /\ n.acl = Without(rows.acl, id) /\ n.realms = Without(rows.realms, id)
      /\ n.owner = Without(rows.owner, id)
  BY <1>3, <1>4, <1>5
<1>7. CASE fault = "none"
  <2>1. rows' = n /\ ok' = TRUE
    BY <1>1, <1>7
  <2>2. /\ DOMAIN n.credentials = DOMAIN rows.credentials \ {id}
        /\ \A i \in DOMAIN n.credentials : n.credentials[i] = rows.credentials[i]
    BY <1>6 DEF Restrict
  <2>3. Agree(n, rows, id)
    BY <1>6 DEF Agree, Without
  <2>4. \A i \in DOMAIN n.credentials : identity(n, i) = identity(rows, i)
    <3>1. \A i \in DOMAIN n.credentials : i # id
      BY <2>2
    <3> QED
      BY <2>2, <2>3, <3>1, AgreeIdentity
  <2>5. identitiesOf(n) = Map!Restrict(identitiesOf(rows), DOMAIN identitiesOf(rows) \ {id})
    BY <2>2, <2>4 DEF identitiesOf, Map!Restrict
  <2>6. Upgraded = rows /\ Upgraded' = n /\ Interrupted' = Interrupted /\ (RowsInv' => RefInv')
    BY <1>1, <2>1, CallView
  <2>7. RowsInv'
    BY <1>2, <1>6, <2>1, <2>2 DEF RefInv, RowsInv, Without
  <2>8. rows'.refs = {entry \in rows.refs : entry.id # id}
    BY <1>6, <2>1 DEF Without
  <2>9. (1 .. rows.sequence)' = 1 .. rows.sequence
    BY <1>6, <2>1
  <2>10. Map!Remove(id)
    BY <2>1, <2>5, <2>6, <2>8, <2>9 DEF Map!Remove
  <2> QED
    BY <2>6, <2>7, <2>10
<1>8. CASE fault # "none"
  BY <1>1, <1>8, CallView, FailStep
<1> QED
  BY <1>7, <1>8

LEMMA NoIdentities ==
    /\ identitiesOf(NoRows) = <<>> /\ NoRows.refs = {} /\ NoRows.sequence = 0
    /\ NoRows.owner = {} /\ identitiesOf(WithOwners(NoRows)) = <<>>
  BY DEF NoRows, identitiesOf, WithOwners

LEMMA ClearStep ==
    ASSUME RefInv, NEW fault, clear(fault)
    PROVE  RefInv' /\ (Map!Clear \/ Map!Fail)
<1> DEFINE n == [NoRows EXCEPT !.sequence = rows.sequence]
<1>1. Calls /\ rows' = (IF fault = "none" THEN n ELSE rows) /\ ok' = (fault = "none")
  BY DEF Calls, clear, Executes
<1>2. Sound(rows')
  BY ClearSound DEF RefInv, RowsInv
<1>3. n.credentials = NoRows.credentials /\ n.sequence = rows.sequence /\ n.refs = NoRows.refs
  BY Zenon, NoRowsSound DEF Sound, Shaped
<1> HIDE DEF n
<1>4. CASE fault = "none"
  <2>1. rows' = n /\ ok' = TRUE
    BY <1>1, <1>4
  <2>2. DOMAIN n.credentials = {} /\ n.refs = {}
    BY <1>3, NoRowsSound, NoIdentities
  <2>3. identitiesOf(n) = <<>>
    BY <2>2 DEF identitiesOf
  <2>4. Upgraded = rows /\ Upgraded' = n /\ Interrupted' = Interrupted /\ (RowsInv' => RefInv')
    BY <1>1, <2>1, CallView
  <2>5. RowsInv'
    BY <1>2, <1>3, <2>1, <2>2 DEF RefInv, RowsInv
  <2>6. (1 .. rows.sequence)' = 1 .. rows.sequence
    BY <1>3, <2>1
  <2>7. Map!Clear
    BY <2>1, <2>2, <2>3, <2>4, <2>6 DEF Map!Clear
  <2> QED
    BY <2>4, <2>5, <2>7
<1>5. CASE fault # "none"
  BY <1>1, <1>5, CallView, FailStep
<1> QED
  BY <1>4, <1>5

\* What is read of the identities does not depend on these tables.
LEMMA SameTables ==
    ASSUME NEW r, NEW n, n.credentials = r.credentials, n.acl = r.acl,
           n.realms = r.realms, n.owner = r.owner
    PROVE  identitiesOf(n) = identitiesOf(r)
<1>1. \A id \in DOMAIN r.credentials : identity(n, id) = identity(r, id)
  BY SameIdentity
<1> QED
  BY <1>1, SameIdentities

LEMMA AddReferenceStep ==
    ASSUME RefInv, NEW id \in Ids, NEW token \in Applications, NEW ref \in References,
           NEW fault, addReference(id, token, ref, fault)
    PROVE  RefInv' /\ ((\E entry \in Map!Entries : Map!AddReference(entry)) \/ Map!Fail)
<1> DEFINE known == [rows EXCEPT !.tokens = @ \cup {token}]
           new == [id |-> id, token |-> token, ref |-> ref]
           n == [known EXCEPT !.refs = @ \cup {new}]
<1>1. IF ReferenceAllowed(known, new) THEN Executes(n, fault)
      ELSE ok' = FALSE /\ UNCHANGED <<rows, file, open>>
  BY Zenon DEF addReference
<1>2. Sound(rows') /\ Shaped(rows)
  BY AddReferenceSound DEF RefInv, RowsInv, Sound
<1>3. /\ Shaped(known)
      /\ known.credentials = rows.credentials /\ known.sequence = rows.sequence
      /\ known.realms = rows.realms /\ known.acl = rows.acl
      /\ known.owner = rows.owner /\ known.refs = rows.refs
  BY Zenon, <1>2 DEF Shaped
<1> HIDE DEF known
<1>4. /\ n.refs = known.refs \cup {new}
      /\ n.credentials = known.credentials /\ n.sequence = known.sequence
      /\ n.realms = known.realms /\ n.acl = known.acl /\ n.owner = known.owner
  BY Zenon, <1>3 DEF Shaped
<1> HIDE DEF n
<1>5. Calls
  BY <1>1 DEF Calls, addReference, Executes
<1>6. new \in Map!Entries
  BY DEF Map!Entries
<1>7. CASE ReferenceAllowed(known, new) /\ fault = "none"
  <2>1. rows' = n /\ ok' = TRUE
    BY <1>1, <1>7 DEF Executes
  <2>2. id \in DOMAIN rows.credentials /\ new.id = id
    BY <1>3, <1>7 DEF ReferenceAllowed
  <2>3. n.refs = rows.refs \cup {new}
    BY <1>3, <1>4
  <2>4. identitiesOf(n) = identitiesOf(rows)
    BY <1>3, <1>4, SameTables
  <2>5. Upgraded = rows /\ Upgraded' = n /\ Interrupted' = Interrupted /\ (RowsInv' => RefInv')
    BY <1>5, <2>1, CallView
  <2>6. RowsInv'
    BY <1>2, <1>3, <1>4, <1>6, <2>1, <2>3 DEF RefInv, RowsInv
  <2>7. (1 .. rows.sequence)' = 1 .. rows.sequence
    BY <1>3, <1>4, <2>1
  <2>8. new.id \in DOMAIN identitiesOf(rows)
    BY <2>2 DEF identitiesOf
  <2> HIDE DEF new
  <2>9. Map!AddReference(new)
    BY <2>1, <2>3, <2>4, <2>5, <2>7, <2>8 DEF Map!AddReference
  <2> QED
    BY <1>6, <2>5, <2>6, <2>9
<1>8. CASE ~(ReferenceAllowed(known, new) /\ fault = "none")
  <2>1. rows' = rows /\ ok' = FALSE
    BY <1>1, <1>8 DEF Executes
  <2> QED
    BY <1>5, <2>1, CallView, FailStep
<1> QED
  BY <1>7, <1>8

LEMMA RemoveReferenceStep ==
    ASSUME RefInv, NEW id, NEW token, NEW refs, NEW fault,
           removeReference(id, token, refs, fault)
    PROVE  /\ RefInv'
           /\ \/ \E entries \in SUBSET Map!Entries : Map!RemoveReferences(entries)
              \/ Map!Fail
<1> DEFINE found == {row \in referencesOf(rows, id, token) : row.ref \in refs}
           n == [rows EXCEPT !.refs = @ \ found]
<1>1. IF found = {} THEN ok' = FALSE /\ UNCHANGED <<rows, file, open>>
      ELSE Executes(n, fault)
  BY Zenon DEF removeReference
<1>2. found \subseteq rows.refs
  BY DEF referencesOf
<1>3. Sound(rows') /\ Shaped(rows)
  BY RemoveReferenceSound DEF RefInv, RowsInv, Sound
<1> HIDE DEF found
<1>4. /\ n.refs = rows.refs \ found
      /\ n.credentials = rows.credentials /\ n.sequence = rows.sequence
      /\ n.realms = rows.realms /\ n.acl = rows.acl /\ n.owner = rows.owner
  BY Zenon, <1>3 DEF Shaped
<1> HIDE DEF n
<1>5. Calls
  BY <1>1 DEF Calls, removeReference, Executes
<1>6. CASE found # {} /\ fault = "none"
  <2>1. rows' = n /\ ok' = TRUE
    BY <1>1, <1>6 DEF Executes
  <2>2. identitiesOf(n) = identitiesOf(rows)
    BY <1>4, SameTables
  <2>3. Upgraded = rows /\ Upgraded' = n /\ Interrupted' = Interrupted /\ (RowsInv' => RefInv')
    BY <1>5, <2>1, CallView
  <2>4. RowsInv'
    BY <1>3, <1>4, <2>1 DEF RefInv, RowsInv
  <2>5. (1 .. rows.sequence)' = 1 .. rows.sequence
    BY <1>4, <2>1
  <2>6. Map!RemoveReferences(found)
    BY <1>2, <1>4, <1>6, <2>1, <2>2, <2>3, <2>5 DEF Map!RemoveReferences
  <2>7. found \in SUBSET Map!Entries
    BY <1>2 DEF RefInv, RowsInv
  <2> QED
    BY <2>3, <2>4, <2>6, <2>7
<1>7. CASE ~(found # {} /\ fault = "none")
  <2>1. rows' = rows /\ ok' = FALSE
    BY <1>1, <1>7 DEF Executes
  <2> QED
    BY <1>5, <2>1, CallView, FailStep
<1> QED
  BY <1>6, <1>7

LEMMA InsertMethodStep ==
    ASSUME RefInv, NEW method, insertMethod(method)
    PROVE  RefInv' /\ UNCHANGED Map!vars
<1> DEFINE n == [rows EXCEPT !.methods = @ \cup {method}]
<1>1. Calls /\ rows' = n /\ ok' = ok
  BY DEF Calls, insertMethod
<1>2. Sound(rows') /\ Shaped(rows)
  BY InsertMethodSound DEF RefInv, RowsInv, Sound
<1>3. /\ n.credentials = rows.credentials /\ n.sequence = rows.sequence
      /\ n.realms = rows.realms /\ n.acl = rows.acl
      /\ n.owner = rows.owner /\ n.refs = rows.refs
  BY Zenon, <1>2 DEF Shaped
<1> HIDE DEF n
<1>4. identitiesOf(n) = identitiesOf(rows)
  BY <1>3, SameTables
<1>5. Upgraded = rows /\ Upgraded' = n /\ Interrupted' = Interrupted /\ (RowsInv' => RefInv')
  BY <1>1, CallView
<1>6. RowsInv'
  BY <1>1, <1>2, <1>3 DEF RefInv, RowsInv
<1>7. (1 .. rows.sequence)' = 1 .. rows.sequence
  BY <1>1, <1>3
<1> QED
  BY <1>1, <1>3, <1>4, <1>5, <1>6, <1>7 DEF Map!vars
-----------------------------------------------------------------------------
(* The file. *)

LEMMA FileStates ==
    /\ DOMAIN NewFile = {"tables", "owner", "version"}
    /\ NewFile.tables = "none" /\ ~NewFile.owner /\ NewFile.version = 0
    /\ DOMAIN Partial = {"tables", "owner", "version"}
    /\ Partial.tables = "some" /\ ~Partial.owner /\ Partial.version = 0
    /\ DOMAIN Created = {"tables", "owner", "version"}
    /\ Created.tables = "all" /\ Created.owner /\ Created.version = 0
  BY DEF NewFile, Partial, Created

LEMMA CurrentFile ==
    /\ DOMAIN Current = {"tables", "owner", "version"}
    /\ Current.tables = "all" /\ Current.owner /\ Current.version = 2
  BY Zenon, FileStates DEF Current

LEMMA OldFiles ==
    /\ LET f == [Created EXCEPT !.owner = FALSE]
       IN  /\ DOMAIN f = {"tables", "owner", "version"}
           /\ f.tables = "all" /\ ~f.owner /\ f.version = 0
    /\ LET f == [Current EXCEPT !.owner = FALSE, !.version = 1]
       IN  /\ DOMAIN f = {"tables", "owner", "version"}
           /\ f.tables = "all" /\ ~f.owner /\ f.version = 1
  BY Zenon, FileStates, CurrentFile

LEMMA NoRowsInv ==
    ASSUME rows' = NoRows
    PROVE  RowsInv' /\ identitiesOf(Upgraded)' = <<>>
<1>1. Upgraded' = NoRows \/ Upgraded' = WithOwners(NoRows)
  BY DEF Upgraded
<1> QED
  BY <1>1, NoRowsSound, NoIdentities DEF RowsInv

LEMMA CreateStep ==
    ASSUME RefInv, create
    PROVE  RefInv' /\ (Map!Interrupt \/ UNCHANGED Map!vars)
<1>1. rows = NoRows /\ rows' = NoRows /\ file.version = 0 /\ ~hasTables /\ ok' = ok
  BY DEF create, RefInv, FileInv
<1>2. Interrupted = "no"
  BY <1>1 DEF Interrupted
<1>3. identitiesOf(Upgraded) = <<>>
  BY <1>1, NoIdentities DEF Upgraded
<1>4. RowsInv' /\ identitiesOf(Upgraded)' = <<>>
  BY <1>1, NoRowsInv
<1>5. (1 .. rows.sequence)' = 1 .. rows.sequence /\ rows'.refs = rows.refs
  BY <1>1
<1>6. CASE (Killed(Partial) \/ Killed(Created))
  <2>1. hasTables' /\ file'.version = 0 /\ ~open'
    BY <1>6, FileStates DEF Killed, hasTables
  <2>2. Interrupted' = "creation"
    BY <2>1 DEF Interrupted
  <2>3. FileInv'
    BY <1>1, <1>6, <2>1, FileStates, NoIdentities DEF Killed, FileInv
  <2>4. Map!Interrupt
    BY <1>1, <1>2, <1>3, <1>4, <1>5, <2>2 DEF Map!Interrupt
  <2> QED
    BY <1>4, <2>3, <2>4 DEF RefInv
<1>7. CASE Opened(Current)
  <2>1. hasTables' /\ file'.version = 2
    BY <1>7, CurrentFile DEF Opened, hasTables
  <2>2. Interrupted' = "no"
    BY <1>7, <2>1, CurrentFile DEF Interrupted, Opened
  <2>3. FileInv'
    BY <1>7, <2>1, CurrentFile DEF Opened, FileInv
  <2> QED
    BY <1>1, <1>2, <1>3, <1>4, <1>5, <2>2, <2>3 DEF RefInv, Map!vars
<1> QED
  BY <1>6, <1>7 DEF create

LEMMA RecreateStep ==
    ASSUME RefInv, recreate
    PROVE  RefInv' /\ Map!LoseAll
<1>1. hasTables /\ file.version = 0 /\ rows' = NoRows /\ ok' = ok
  BY DEF recreate
<1>2. Interrupted = "creation"
  BY <1>1 DEF Interrupted
<1>3. RowsInv' /\ identitiesOf(Upgraded)' = <<>>
  BY <1>1, NoRowsInv
<1>4. (1 .. rows.sequence)' = {} /\ rows'.refs = {}
  BY <1>1, NoIdentities
<1>5. \E f \in {NewFile, Partial, Created} :
         file' = f /\ (open' = FALSE \/ f = Created)
  BY DEF recreate, Killed, Opened
<1>6. FileInv' /\ Interrupted' \in {"creation", "no"}
  <2>1. CASE file' = NewFile /\ open' = FALSE
    <3>1. ~hasTables' /\ file'.version = 0 /\ ~file'.owner
      BY <2>1, FileStates DEF hasTables
    <3> QED
      BY <1>1, <2>1, <3>1, FileStates, NoIdentities DEF FileInv, Interrupted
  <2>2. CASE file' = Partial /\ open' = FALSE
    <3>1. hasTables' /\ file'.version = 0 /\ ~file'.owner
      BY <2>2, FileStates DEF hasTables
    <3> QED
      BY <1>1, <2>2, <3>1, FileStates, NoIdentities DEF FileInv, Interrupted
  <2>3. CASE file' = Created
    <3>1. hasTables' /\ file'.version = 0 /\ file'.owner
      BY <2>3, FileStates DEF hasTables
    <3> QED
      BY <1>1, <2>3, <3>1, FileStates, NoIdentities DEF FileInv, Interrupted
  <2> QED
    BY <1>5, <2>1, <2>2, <2>3
<1> QED
  BY <1>1, <1>2, <1>3, <1>4, <1>6 DEF RefInv, Map!LoseAll

LEMMA UpgradedOwners ==
    ASSUME NEW r, Shaped(r)
    PROVE  LET n == WithOwners(r)
           IN  /\ n.owner = OwnersOfAcl(r)
               /\ n.credentials = r.credentials /\ n.sequence = r.sequence
               /\ n.acl = r.acl /\ n.realms = r.realms /\ n.refs = r.refs
  BY Zenon DEF WithOwners, Shaped

LEMMA LostOwners ==
    ASSUME Shaped(rows), rows.owner = {}
    PROVE  identitiesOf(rows) = [id \in DOMAIN identitiesOf(WithOwners(rows)) |->
                                   Map!OwnersLost(identitiesOf(WithOwners(rows))[id])]
<1> DEFINE n == WithOwners(rows)
<1>1. n.credentials = rows.credentials /\ n.acl = rows.acl /\ n.realms = rows.realms
  BY UpgradedOwners
<1> HIDE DEF n
<1>2. ASSUME NEW id \in DOMAIN rows.credentials
      PROVE  identity(rows, id) = Map!OwnersLost(identity(n, id))
  <2>1. ownerList(rows, id) = {}
    BY DEF ownerList
  <2> DEFINE i == identity(n, id)
             j == identity(rows, id)
  <2>2. /\ j.caption = i.caption /\ j.methods = i.methods /\ j.realms = i.realms
        /\ j.accessControlList = i.accessControlList /\ j.ownerList = {}
    BY <1>1, <2>1 DEF identity, accessControlList
  <2>3. j = [caption |-> j.caption, methods |-> j.methods, realms |-> j.realms,
             accessControlList |-> j.accessControlList, ownerList |-> j.ownerList]
    BY DEF identity
  <2> HIDE DEF i, j
  <2>4. j = Map!OwnersLost(i)
    BY <2>2, <2>3 DEF Map!OwnersLost
  <2> QED
    BY <2>4 DEF i, j
<1>3. DOMAIN identitiesOf(n) = DOMAIN rows.credentials
  BY <1>1 DEF identitiesOf
<1>4. \A id \in DOMAIN rows.credentials : identitiesOf(n)[id] = identity(n, id)
  BY <1>1 DEF identitiesOf
<1>5. identitiesOf(rows) = [id \in DOMAIN identitiesOf(n) |-> Map!OwnersLost(identitiesOf(n)[id])]
  BY <1>2, <1>3, <1>4 DEF identitiesOf
<1> QED
  BY <1>5 DEF n

LEMMA UpgradeStep ==
    ASSUME RefInv, upgrade
    PROVE  RefInv' /\ (Map!Interrupt \/ UNCHANGED Map!vars)
<1> DEFINE n == WithOwners(rows)
           half == [file EXCEPT !.owner = TRUE]
<1>1. /\ Shaped(rows) /\ Sound(rows') /\ rows.owner = {} /\ ~file.owner
      /\ hasTables /\ file.version = 1 /\ ok' = ok
  <2>1. file.version = 1 /\ ~file.owner /\ ok' = ok
    BY DEF upgrade
  <2>2. Sound(rows')
    BY UpgradeSound DEF RefInv, RowsInv
  <2>3. rows.owner = {} /\ hasTables /\ Shaped(rows)
    BY <2>1 DEF RefInv, FileInv, RowsInv, Sound
  <2> QED
    BY <2>1, <2>2, <2>3
<1>2. /\ DOMAIN half = {"tables", "owner", "version"}
      /\ half.tables = file.tables /\ half.owner /\ half.version = 1
  BY Zenon, <1>1 DEF RefInv, FileInv
<1>3. /\ n.credentials = rows.credentials /\ n.sequence = rows.sequence
      /\ n.refs = rows.refs
  BY <1>1, UpgradedOwners
<1>4. \/ file' = half /\ open' = FALSE /\ rows' = rows
      \/ file' = half /\ open' = FALSE /\ rows' = n
      \/ file' = Current /\ open' = TRUE /\ rows' = n
  BY Zenon DEF upgrade, Killed, Opened
<1>5. identitiesOf(rows) = [id \in DOMAIN identitiesOf(n) |->
                              Map!OwnersLost(identitiesOf(n)[id])]
  BY <1>1, LostOwners
<1> HIDE DEF n, half
<1>6. Interrupted = "no"
  BY <1>1 DEF Interrupted
<1>7. Upgraded = n
  BY <1>1 DEF Upgraded, n
<1>8. file'.owner /\ Upgraded' = rows'
  BY <1>2, <1>4, CurrentFile DEF Upgraded
<1>9. RowsInv' /\ rows'.refs = rows.refs /\ (1 .. rows.sequence)' = 1 .. rows.sequence
  BY <1>1, <1>3, <1>4 DEF RefInv, RowsInv
<1>10. hasTables'
  BY <1>1, <1>2, <1>4, CurrentFile DEF hasTables
<1>11. FileInv'
  BY <1>2, <1>4, <1>8, <1>10, CurrentFile DEF FileInv
<1>12. CASE file' = half
  <2>1. file'.version = 1
    BY <1>2, <1>12
  <2>2. Interrupted' = "upgrade"
    BY <1>8, <2>1 DEF Interrupted
  <2>3. rows' = rows \/ rows' = n
    BY <1>4
  <2>4. Map!Interrupt
    BY <1>1, <1>5, <1>6, <1>7, <1>8, <1>9, <2>2, <2>3 DEF Map!Interrupt
  <2> QED
    BY <1>9, <1>11, <2>4 DEF RefInv
<1>13. CASE file' = Current /\ rows' = n
  <2>1. file'.version = 2
    BY <1>13, CurrentFile
  <2>2. Interrupted' = "no"
    BY <2>1 DEF Interrupted
  <2> QED
    BY <1>1, <1>6, <1>7, <1>8, <1>9, <1>11, <1>13, <2>2 DEF RefInv, Map!vars
<1> QED
  BY <1>4, <1>12, <1>13

LEMMA OpenCloseStep ==
    ASSUME RefInv, openFile \/ close
    PROVE  RefInv' /\ UNCHANGED Map!vars
<1>1. file' = file /\ rows' = rows /\ ok' = ok
  BY DEF openFile, close, Opened
<1>2. RowsInv'
  BY <1>1 DEF RefInv, RowsInv
<1>3. hasTables' = hasTables
  BY <1>1 DEF hasTables
<1>4. FileInv'
  <2>1. CASE openFile
    <3>1. file.owner /\ hasTables
      BY <2>1 DEF openFile, RefInv, FileInv
    <3> QED
      BY <1>1, <1>3, <3>1 DEF RefInv, FileInv
  <2>2. CASE close
    <3>1. open' = FALSE
      BY <2>2 DEF close
    <3> QED
      BY <1>1, <1>3, <3>1 DEF RefInv, FileInv
  <2> QED
    BY <2>1, <2>2
<1>5. Upgraded' = Upgraded /\ Interrupted' = Interrupted
  BY <1>1, <1>3 DEF Upgraded, Interrupted
<1> QED
  BY <1>1, <1>2, <1>4, <1>5 DEF RefInv, Map!vars
-----------------------------------------------------------------------------
(* The refinement. *)

LEMMA OldRowsInv ==
    ASSUME NEW info
    PROVE  LET r == OldRows(info)
           IN  /\ Sound(r) /\ r.sequence \in {0, 1}
               /\ DOMAIN r.credentials \subseteq 1 .. r.sequence
               /\ r.refs = {} /\ r.owner = {}
<1> DEFINE a == updateCredentials(NoRows, 1, info)
           b == insertMethods(a, info)
           c == updateRealms(b, 1, info)
           e == insertTokens(c, info)
           t == Transaction(e, NoRows)
           d == [t EXCEPT !.rows.acl = @ \cup AclOf(1, info)]
           Old(r) == /\ r.sequence \in {0, 1}
                     /\ DOMAIN r.credentials \subseteq 1 .. r.sequence
                     /\ r.refs = {} /\ r.owner = {}
<1>1. Sound(NoRows) /\ NoRows.sequence = 0 /\ DOMAIN NoRows.credentials = {}
      /\ NoRows.refs = {} /\ NoRows.owner = {} /\ 1 \notin DOMAIN NoRows.credentials
      /\ ~(1 <= NoRows.sequence)
  BY NoRowsSound DEF NoRows
<1>2. Old(NoRows)
  BY <1>1
<1>3. /\ Sound(a) /\ DOMAIN a.credentials = DOMAIN NoRows.credentials \cup {1}
      /\ a.sequence = 1 /\ a.refs = {} /\ a.owner = {}
  <2>1. Shaped(NoRows)
    BY <1>1 DEF Sound
  <2>2. a.credentials = [i \in DOMAIN NoRows.credentials \cup {1} |->
                           IF i = 1 THEN info.caption ELSE NoRows.credentials[i]]
        /\ a.sequence = 1
    BY <1>1, <2>1, UpdateCredentialsNew
  <2>3. a.refs = NoRows.refs /\ a.owner = NoRows.owner /\ Sound(a)
    BY <1>1, <2>1, UpdateCredentialsRows, UpdateCredentialsSound
  <2> HIDE DEF a
  <2> QED
    BY <1>1, <2>2, <2>3
<1> HIDE DEF a
<1>4. /\ Sound(b) /\ b.credentials = a.credentials /\ b.sequence = a.sequence
      /\ b.refs = a.refs /\ b.owner = a.owner
  BY <1>3, InsertMethodsRows, InsertMethodsSound DEF Sound
<1> HIDE DEF b
<1>5. /\ Sound(c) /\ c.credentials = b.credentials /\ c.sequence = b.sequence
      /\ c.refs = b.refs /\ c.owner = b.owner
  <2>1. RealmAllowed(b, 1)
    BY <1>3, <1>4 DEF RealmAllowed
  <2> QED
    BY <1>4, <2>1, UpdateRealmsRows, UpdateRealmsSound DEF Sound
<1> HIDE DEF c
<1>6. /\ Sound(e) /\ e.credentials = c.credentials /\ e.sequence = c.sequence
      /\ e.refs = c.refs /\ e.owner = c.owner
  BY <1>5, InsertTokensRows, InsertTokensSound DEF Sound
<1> HIDE DEF e
<1>7. Old(e)
  BY <1>1, <1>3, <1>4, <1>5, <1>6
<1>8. IsConnection(t) /\ t.rows = e /\ t.saved = NoRows /\ t.active
  BY <1>1, <1>6, TransactionSound DEF Transaction
<1>9. OldRows(info) = insertAcl(t, 1, info, "none").rows
  BY DEF OldRows, Written, a, b, c, e
<1>10. \/ insertAcl(t, 1, info, "none") = d
       \/ insertAcl(t, 1, info, "none") = Raise(t)
  BY Zenon DEF insertAcl
<1> HIDE DEF t
<1>11. IsConnection(insertAcl(t, 1, info, "none"))
  BY <1>8, InsertAclSound
<1>12. /\ d.rows.credentials = t.rows.credentials
       /\ d.rows.sequence = t.rows.sequence
       /\ d.rows.owner = t.rows.owner /\ d.rows.refs = t.rows.refs
  BY Zenon, <1>8, InsertAclRows
<1> HIDE DEF d
<1>13. Raise(t).rows = NoRows
  BY <1>8 DEF Raise
<1>14. Old(d.rows)
  BY <1>7, <1>8, <1>12
<1>15. Old(OldRows(info)) /\ Sound(OldRows(info))
  BY <1>2, <1>9, <1>10, <1>11, <1>13, <1>14 DEF IsConnection
<1> QED
  BY <1>15

LEMMA RefInit ==
    ASSUME Init
    PROVE  RefInv /\ Map!Init
<1>1. /\ open = FALSE /\ ok = TRUE
      /\ \/ file = NewFile /\ rows = NoRows
         \/ file = [Created EXCEPT !.owner = FALSE]
            /\ \E info \in Infos : rows = OldRows(info)
         \/ file = [Current EXCEPT !.owner = FALSE, !.version = 1]
            /\ \E info \in Infos : rows = OldRows(info)
  BY Zenon DEF Init
<1>2. /\ DOMAIN file = {"tables", "owner", "version"} /\ ~file.owner
      /\ \/ ~hasTables /\ rows = NoRows /\ file.version = 0
         \/ hasTables /\ file.version \in {0, 1}
            /\ \E info \in Infos : rows = OldRows(info)
  <2>1. CASE file = NewFile /\ rows = NoRows
    BY <2>1, FileStates DEF hasTables
  <2>2. CASE file = [Created EXCEPT !.owner = FALSE]
             /\ \E info \in Infos : rows = OldRows(info)
    <3> DEFINE f == [Created EXCEPT !.owner = FALSE]
    <3>1. DOMAIN f = {"tables", "owner", "version"} /\ f.tables = "all"
          /\ ~f.owner /\ f.version = 0
      BY OldFiles
    <3>2. file = f
      BY <2>2
    <3> HIDE DEF f
    <3> QED
      BY <2>2, <3>1, <3>2 DEF hasTables
  <2>3. CASE file = [Current EXCEPT !.owner = FALSE, !.version = 1]
             /\ \E info \in Infos : rows = OldRows(info)
    <3> DEFINE f == [Current EXCEPT !.owner = FALSE, !.version = 1]
    <3>1. DOMAIN f = {"tables", "owner", "version"} /\ f.tables = "all"
          /\ ~f.owner /\ f.version = 1
      BY OldFiles
    <3>2. file = f
      BY <2>3
    <3> HIDE DEF f
    <3> QED
      BY <2>3, <3>1, <3>2 DEF hasTables
  <2> QED
    BY <1>1, <2>1, <2>2, <2>3
<1>3. /\ Sound(rows) /\ rows.sequence \in {0, 1}
      /\ DOMAIN rows.credentials \subseteq 1 .. rows.sequence
      /\ rows.refs = {} /\ rows.owner = {}
  <2>1. CASE rows = NoRows
    BY <2>1, NoRowsSound DEF NoRows
  <2>2. CASE \E info \in Infos : rows = OldRows(info)
    BY <2>2, OldRowsInv
  <2> QED
    BY <1>2, <2>1, <2>2
<1>4. RefInv
  BY <1>1, <1>2, <1>3 DEF RefInv, RowsInv, FileInv
<1>5. DOMAIN identitiesOf(Upgraded) = DOMAIN rows.credentials
  BY <1>2, <1>3, UpgradedOwners DEF Upgraded, identitiesOf, Sound
<1>6. Interrupted \in {"no", "creation"}
  BY <1>2 DEF Interrupted
<1> QED
  BY <1>1, <1>3, <1>4, <1>5, <1>6 DEF Map!Init

LEMMA NewIdStep ==
    ASSUME RefInv, "statement" \notin Env, NEW fault \in Faults,
           NEW info \in Infos, insertCredentials(info, fault)
    PROVE  RefInv' /\ Map!Next
<1> DEFINE id == NewId(rows)
<1>1. fault # "acl" /\ fault # "owner"
  BY DEF Faults
<1>2. Calls /\ updateIdentity(id, info, fault) /\ id = rows.sequence + 1 /\ id <= MaxId
  BY DEF Calls, insertCredentials, NewId
<1>3. id \in Ids
  BY <1>2, MetaDataAssumption DEF Ids, RefInv, RowsInv, MetaDataAssumption
<1> HIDE DEF id
<1>4. CASE GivenUp(id, info, fault)
  <2>1. rows' = rows /\ ok' = FALSE
    BY <1>2, <1>4 DEF updateIdentity
  <2> QED
    BY <1>2, <2>1, FailStep, CallView DEF Map!Next
<1>5. CASE ~GivenUp(id, info, fault)
  BY <1>1, <1>2, <1>3, <1>5, InsertStep, CallView DEF Map!Next
<1> QED
  BY <1>4, <1>5

LEMMA KnownIdStep ==
    ASSUME RefInv, "statement" \notin Env, NEW fault \in Faults,
           NEW info \in Infos, NEW id \in Ids, updateKnown(id, info, fault)
    PROVE  RefInv' /\ Map!Next
<1>1. fault # "acl" /\ fault # "owner"
  BY DEF Faults
<1>2. Calls /\ updateIdentity(id, info, fault) /\ id <= rows.sequence
  BY DEF Calls, updateKnown
<1>3. CASE GivenUp(id, info, fault)
  <2>1. rows' = rows /\ ok' = FALSE
    BY <1>2, <1>3 DEF updateIdentity
  <2> QED
    BY <1>2, <2>1, FailStep, CallView DEF Map!Next
<1>4. CASE ~GivenUp(id, info, fault) /\ id \in DOMAIN rows.credentials
  BY <1>1, <1>2, <1>4, UpdateStep, CallView DEF Map!Next
<1>5. CASE ~GivenUp(id, info, fault) /\ id \notin DOMAIN rows.credentials
  BY <1>2, <1>5, GoneStep, CallView DEF Map!Next
<1> QED
  BY <1>3, <1>4, <1>5

LEMMA CallStep ==
    ASSUME RefInv, "statement" \notin Env, NEW fault \in Faults,
           \/ \E info \in Infos : \/ insertCredentials(info, fault)
                                  \/ \E id \in Ids : updateKnown(id, info, fault)
           \/ \E id \in Ids : removeIdentity(id, fault)
           \/ clear(fault)
           \/ \E id \in Ids, token \in Applications, ref \in References :
                \/ addReference(id, token, ref, fault)
                \/ removeReference(id, token, {ref}, fault)
           \/ \E id \in Ids, token \in Applications :
                removeReference(id, token, References, fault)
    PROVE  RefInv' /\ Map!Next
<1>1. ASSUME NEW id \in Ids, removeIdentity(id, fault)
      PROVE  RefInv' /\ Map!Next
  BY <1>1, RemoveStep DEF Map!Next
<1>2. ASSUME clear(fault)
      PROVE  RefInv' /\ Map!Next
  BY <1>2, ClearStep DEF Map!Next
<1>3. ASSUME NEW id \in Ids, NEW token \in Applications, NEW ref \in References,
             addReference(id, token, ref, fault)
      PROVE  RefInv' /\ Map!Next
  BY <1>3, AddReferenceStep DEF Map!Next
<1>4. ASSUME NEW id \in Ids, NEW token \in Applications, NEW refs,
             removeReference(id, token, refs, fault)
      PROVE  RefInv' /\ Map!Next
  BY <1>4, RemoveReferenceStep DEF Map!Next
<1> QED
  BY <1>1, <1>2, <1>3, <1>4, NewIdStep, KnownIdStep

LEMMA RefStep ==
    "statement" \notin Env /\ RefInv /\ [Next]_vars => RefInv' /\ [Map!Next]_(Map!vars)
<1> SUFFICES ASSUME "statement" \notin Env, RefInv, [Next]_vars
             PROVE  RefInv' /\ [Map!Next]_(Map!vars)
  OBVIOUS
<1>1. CASE UNCHANGED vars
  <2>1. rows' = rows /\ file' = file /\ open' = open /\ ok' = ok
    BY <1>1 DEF vars
  <2>2. hasTables' = hasTables
    BY <2>1 DEF hasTables
  <2>3. RefInv'
    BY <2>1, <2>2 DEF RefInv, RowsInv, FileInv
  <2>4. Upgraded' = Upgraded /\ Interrupted' = Interrupted
    BY <2>1, <2>2 DEF Upgraded, Interrupted
  <2> QED
    BY <2>1, <2>3, <2>4 DEF Map!vars
<1>2. CASE create
  BY <1>2, CreateStep DEF Map!Next
<1>3. CASE recreate
  BY <1>3, RecreateStep DEF Map!Next
<1>4. CASE upgrade
  BY <1>4, UpgradeStep DEF Map!Next
<1>5. CASE openFile \/ close
  BY <1>5, OpenCloseStep
<1>6. CASE \E method \in Methods : insertMethod(method)
  BY <1>6, InsertMethodStep
<1>7. CASE Next /\ ~(create \/ recreate \/ upgrade \/ openFile \/ close)
                /\ ~(\E method \in Methods : insertMethod(method))
  BY <1>7, CallStep DEF Next
<1> QED
  BY <1>1, <1>2, <1>3, <1>4, <1>5, <1>6, <1>7

\* StoresIdentities: the tables, their triggers and their transactions are a map
\* from identities to what was last stored of them.
THEOREM TablesStoreIdentities ==
    ASSUME "statement" \notin Env
    PROVE  Spec => StoresIdentities
<1>1. Init => RefInv /\ Map!Init
  BY RefInit
<1>2. RefInv /\ [Next]_vars => RefInv' /\ [Map!Next]_(Map!vars)
  BY RefStep
<1> QED
  BY <1>1, <1>2, PTL DEF Spec, StoresIdentities, Map!Spec
=============================================================================
