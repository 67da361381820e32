---------------------------- MODULE MCMetaDataDB ----------------------------
(* The instance of MetaDataDB that TLC checks. *)
EXTENDS MetaDataDB

CONSTANTS t1, t2, method, mechanism, realm

\* An identity of nobody, one of one application, and one of several that may
\* use a method with no mechanism, or with one, without an owner.
MCInfos ==
    {[caption |-> "caption", methods |-> <<>>, realms |-> {},
      accessControlList |-> {}, ownerList |-> {t1}],
     [caption |-> "caption", methods |-> [m \in {method} |-> {mechanism}],
      realms |-> {realm}, accessControlList |-> {t1}, ownerList |-> {t1}],
     [caption |-> "other", methods |-> [m \in {method} |-> {}],
      realms |-> {}, accessControlList |-> {t1, t2}, ownerList |-> {t2}],
     [caption |-> "other", methods |-> <<>>, realms |-> {},
      accessControlList |-> {t2}, ownerList |-> {}]}
=============================================================================
