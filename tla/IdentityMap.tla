----------------------------- MODULE IdentityMap -----------------------------
(***************************************************************************)
(* What the metadata database promises to CredentialsDB: a map from the    *)
(* identities to what is known of them, with the references applications   *)
(* have to them.  A call does all of what it is for or nothing, and says   *)
(* which; an id once given is not given again.  The exceptions are what an *)
(* interrupted creation or upgrade of the file costs.                      *)
(***************************************************************************)
EXTENDS Functions

CONSTANTS Ids, Infos, Applications, References

VARIABLES identities,  \* what is known of the identities there are
          references,  \* who refers to them, and how
          given,       \* the ids that have been given to an identity
          ok,          \* the last call has reported success
          interrupted  \* "no", or what was: "creation" or "upgrade"

vars == <<identities, references, given, ok, interrupted>>

Entries == [id : Ids, token : Applications, ref : References]

Init ==
    /\ DOMAIN identities \subseteq given
    /\ references = {}
    /\ ok = TRUE
    /\ interrupted \in {"no", "creation"}

Insert(id, info) ==
    /\ id \notin given
    /\ identities' = [i \in DOMAIN identities \cup {id} |->
                         IF i = id THEN info ELSE identities[i]]
    /\ given' = given \cup {id}
    /\ ok' = TRUE
    /\ UNCHANGED <<references, interrupted>>

Update(id, info) ==
    /\ id \in DOMAIN identities
    /\ identities' = [identities EXCEPT ![id] = info]
    /\ ok' = TRUE
    /\ UNCHANGED <<references, given, interrupted>>

Remove(id) ==
    /\ identities' = Restrict(identities, DOMAIN identities \ {id})
    /\ references' = {entry \in references : entry.id # id}
    /\ ok' = TRUE
    /\ UNCHANGED <<given, interrupted>>

Clear ==
    /\ identities' = <<>>
    /\ references' = {}
    /\ ok' = TRUE
    /\ UNCHANGED <<given, interrupted>>

AddReference(entry) ==
    /\ entry.id \in DOMAIN identities
    /\ references' = references \cup {entry}
    /\ ok' = TRUE
    /\ UNCHANGED <<identities, given, interrupted>>

RemoveReferences(entries) ==
    /\ entries # {}
    /\ entries \subseteq references
    /\ references' = references \ entries
    /\ ok' = TRUE
    /\ UNCHANGED <<identities, given, interrupted>>

\* A call may fail, and does nothing then.
Fail ==
    /\ ok' = FALSE
    /\ UNCHANGED <<identities, references, given, interrupted>>

\* An identity that is gone is not stored again, which may not be told.
UpdateGone ==
    /\ given \ DOMAIN identities # {}
    /\ ok' = TRUE
    /\ UNCHANGED <<identities, references, given, interrupted>>

\* A file whose creation was interrupted is emptied, again and again.
LoseAll ==
    /\ interrupted = "creation"
    /\ identities' = <<>>
    /\ references' = {}
    /\ given' = {}
    /\ interrupted' \in {"creation", "no"}
    /\ UNCHANGED ok

OwnersLost(info) ==
    [caption |-> info.caption, methods |-> info.methods, realms |-> info.realms,
     accessControlList |-> info.accessControlList, ownerList |-> {}]

Interrupt ==
    /\ interrupted = "no"
    /\ \/ interrupted' = "creation" /\ identities = <<>> /\ UNCHANGED identities
       \/ interrupted' = "upgrade" /\ identities' \in
             {identities, [id \in DOMAIN identities |-> OwnersLost(identities[id])]}
    /\ UNCHANGED <<references, given, ok>>

Next ==
    \/ \E id \in Ids, info \in Infos : Insert(id, info) \/ Update(id, info)
    \/ \E id \in Ids : Remove(id)
    \/ Clear
    \/ \E entry \in Entries : AddReference(entry)
    \/ \E entries \in SUBSET Entries : RemoveReferences(entries)
    \/ Fail
    \/ UpdateGone
    \/ LoseAll
    \/ Interrupt

Spec == Init /\ [][Next]_vars
=============================================================================
