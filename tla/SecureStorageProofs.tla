------------------------ MODULE SecureStorageProofs ------------------------
(***************************************************************************)
(* Theorems about SecureStorage, for any number of keys, key slots, key    *)
(* managers and waiting cores.  Each names the faults it does not allow.   *)
(***************************************************************************)
EXTENDS SecureStorage, WellFoundedInduction, TLAPS

-----------------------------------------------------------------------------
(* What the loops of BackupFiles do to the metadata database and to the      *)
(* container, whatever fails and wherever signond is killed.                 *)

\* The records of the loops: their fields, and what the values in them are.
LoopFields == {"files", "moved", "copied", "ok", "over"}
FileFields == {"live", "bak", "copy"}

FileShape(d) ==
    /\ DOMAIN d = FileFields
    /\ d.live \in [Names -> Contents]
    /\ d.bak \in [Names -> Contents]
    /\ d.copy \in [Names -> Contents]

LoopShape(r) ==
    /\ DOMAIN r = LoopFields
    /\ FileShape(r.files)
    /\ r.moved \subseteq Names
    /\ r.copied \subseteq Names
    /\ r.ok \in BOOLEAN
    /\ r.over \in BOOLEAN

\* What a step of the loop over one file leaves alone.
OtherFiles(r, t, name) ==
    /\ t.files.copy = r.files.copy
    /\ \A n \in Names \ {name} :
          /\ t.files.live[n] = r.files.live[n]
          /\ t.files.bak[n] = r.files.bak[n]
          /\ n \in t.moved <=> n \in r.moved
          /\ n \in t.copied <=> n \in r.copied

LEMMA MoveAsideShape ==
  ASSUME NEW r, LoopShape(r), NEW name \in Names
  PROVE  LET t == moveAside(r, name) IN
         /\ LoopShape(t)
         /\ OtherFiles(r, t, name)
         /\ t.copied = r.copied /\ t.ok = r.ok /\ t.over = r.over
         /\ \/ t = r /\ (r.files.live[name] = Absent \/ r.files.bak[name] # Absent)
            \/ /\ r.files.bak[name] = Absent
               /\ r.files.live[name] # Absent
               /\ t.files.live[name] = Absent
               /\ t.files.bak[name] = r.files.live[name]
               /\ name \in t.moved
<1> DEFINE bak  == [r.files.bak EXCEPT ![name] = r.files.live[name]]
           live == [r.files.live EXCEPT ![name] = Absent]
           d    == [r.files EXCEPT !.bak = bak, !.live = live]
           t    == [r EXCEPT !.files = d, !.moved = @ \cup {name}]
<1>1. moveAside(r, name) =
         IF r.files.live[name] = Absent \/ r.files.bak[name] # Absent THEN r ELSE t
  BY DEF moveAside, LoopShape, LoopFields, FileShape, FileFields
<1>2. /\ bak \in [Names -> Contents] /\ live \in [Names -> Contents]
      /\ bak[name] = r.files.live[name] /\ live[name] = Absent
      /\ \A n \in Names \ {name} : bak[n] = r.files.bak[n] /\ live[n] = r.files.live[n]
  BY DEF LoopShape, FileShape, Contents
<1> HIDE DEF bak, live
<1>3. /\ FileShape(d) /\ d.bak = bak /\ d.live = live /\ d.copy = r.files.copy
  BY <1>2 DEF LoopShape, FileShape, FileFields
<1> HIDE DEF d
<1>4. /\ LoopShape(t)
      /\ t.files = d /\ t.moved = r.moved \cup {name}
      /\ t.copied = r.copied /\ t.ok = r.ok /\ t.over = r.over
  BY <1>3 DEF LoopShape, LoopFields
<1> HIDE DEF t
<1>5. CASE r.files.live[name] = Absent \/ r.files.bak[name] # Absent
  BY <1>1, <1>5 DEF OtherFiles
<1>6. CASE ~(r.files.live[name] = Absent \/ r.files.bak[name] # Absent)
  BY <1>1, <1>2, <1>3, <1>4, <1>6 DEF OtherFiles
<1> QED
  BY <1>5, <1>6

\* Nothing is copied back to an absolute path, nor over a file.
LEMMA CopyBackShape ==
  ASSUME NEW r, LoopShape(r), NEW name \in Names, NEW fault
  PROVE  LET t == copyBack(r, name, fault) IN
         /\ LoopShape(t)
         /\ OtherFiles(r, t, name)
         /\ t.moved = r.moved /\ t.files.bak = r.files.bak
         /\ \/ t = r /\ (r.files.copy[name] = Absent \/ IsAbsolute(name))
            \/ /\ ~IsAbsolute(name)
               /\ t.files = r.files /\ t.copied = r.copied /\ ~t.ok
            \/ /\ ~IsAbsolute(name)
               /\ t.files.live[name] = r.files.copy[name]
               /\ t.ok = r.ok /\ t.over = r.over
<1> DEFINE live == [r.files.live EXCEPT ![name] = r.files.copy[name]]
           d    == [r.files EXCEPT !.live = live]
           t    == [r EXCEPT !.files = d, !.copied = @ \cup {name}]
           u    == [r EXCEPT !.ok = FALSE, !.over = TRUE]
<1>1. \/ /\ copyBack(r, name, fault) = r
         /\ r.files.copy[name] = Absent \/ IsAbsolute(name)
      \/ copyBack(r, name, fault) = u /\ ~IsAbsolute(name)
      \/ copyBack(r, name, fault) = t /\ ~IsAbsolute(name)
  BY DEF copyBack
<1>2. /\ live \in [Names -> Contents]
      /\ live[name] = r.files.copy[name]
      /\ \A n \in Names \ {name} : live[n] = r.files.live[n]
  BY DEF LoopShape, FileShape
<1> HIDE DEF live
<1>3. /\ FileShape(d) /\ d.live = live /\ d.bak = r.files.bak /\ d.copy = r.files.copy
  BY <1>2 DEF LoopShape, FileShape, FileFields
<1> HIDE DEF d
<1>4. /\ LoopShape(t)
      /\ t.files = d /\ t.moved = r.moved /\ t.copied = r.copied \cup {name}
      /\ t.ok = r.ok /\ t.over = r.over
  BY <1>3 DEF LoopShape, LoopFields
<1>5. /\ LoopShape(u)
      /\ u.files = r.files /\ u.moved = r.moved /\ u.copied = r.copied
      /\ u.ok = FALSE
  BY DEF LoopShape, LoopFields
<1> HIDE DEF t, u
<1>6. OtherFiles(r, r, name) /\ OtherFiles(r, t, name) /\ OtherFiles(r, u, name)
  BY <1>2, <1>3, <1>4, <1>5 DEF OtherFiles
<1> QED
  BY <1>1, <1>2, <1>3, <1>4, <1>5, <1>6

\* What the loop has made of the container, and of the metadata database.
ContainerInv(r, d) ==
    /\ Container \notin r.copied
    /\ \/ r.files.live[Container] = d.live[Container] /\ Container \notin r.moved
       \/ /\ r.files.live[Container] = Absent
          /\ Container \in r.moved => r.files.bak[Container] = d.live[Container]

MetadataInv(r, d) ==
    /\ Metadata \notin r.moved => r.files.bak[Metadata] = d.bak[Metadata]
    /\ Metadata \in r.moved => /\ d.bak[Metadata] = Absent
                               /\ r.files.bak[Metadata] = d.live[Metadata]
                               /\ d.live[Metadata] # Absent
    /\ ~r.ok => /\ Metadata \notin r.copied
                /\ Metadata \notin r.moved => r.files.live[Metadata] = d.live[Metadata]
    /\ r.ok /\ ~r.over /\ d.copy[Metadata] # Absent =>
          r.files.live[Metadata] = d.copy[Metadata]
    /\ \/ Metadata \in r.moved
       \/ r.files.live[Metadata] \in {d.live[Metadata], d.copy[Metadata]}

LEMMA LoopStart ==
  ASSUME NEW d, FileShape(d)
  PROVE  /\ LoopShape(Loop(d)) /\ Loop(d).files = d
         /\ Loop(d).moved = {} /\ Loop(d).copied = {}
         /\ Loop(d).ok = TRUE /\ Loop(d).over = FALSE
  BY DEF Loop, LoopShape, LoopFields

\* The metadata database is the first file.
LEMMA RestoreMetadata ==
  ASSUME NEW d, FileShape(d), NEW fault
  PROVE  LET b == restoreFile(Loop(d), Metadata, fault) IN
         /\ LoopShape(b)
         /\ b.files.copy = d.copy
         /\ ContainerInv(b, d)
         /\ MetadataInv(b, d)
<1> DEFINE r == Loop(d)
           a == moveAside(r, Metadata)
           k == [a EXCEPT !.over = TRUE]
           t == copyBack(a, Metadata, fault)
<1>1. /\ LoopShape(r) /\ r.files = d
      /\ r.moved = {} /\ r.copied = {}
      /\ r.ok = TRUE /\ r.over = FALSE
  BY LoopStart
<1>2. restoreFile(r, Metadata, fault) \in {k, t}
  BY <1>1 DEF restoreFile
<1>3. Metadata \in Names /\ Container \in Names \ {Metadata} /\ ~IsAbsolute(Metadata)
  BY DEF Names, Metadata, Container, IsAbsolute
<1> HIDE DEF r
<1>4. /\ LoopShape(a)
      /\ OtherFiles(r, a, Metadata)
      /\ a.copied = r.copied /\ a.ok = r.ok /\ a.over = r.over
      /\ \/ a = r /\ (r.files.live[Metadata] = Absent \/ r.files.bak[Metadata] # Absent)
         \/ /\ r.files.bak[Metadata] = Absent
            /\ r.files.live[Metadata] # Absent
            /\ a.files.live[Metadata] = Absent
            /\ a.files.bak[Metadata] = r.files.live[Metadata]
            /\ Metadata \in a.moved
  BY <1>1, <1>3, MoveAsideShape
<1> HIDE DEF a
<1>5. /\ LoopShape(k)
      /\ k.files = a.files /\ k.moved = a.moved /\ k.copied = a.copied
      /\ k.ok = a.ok /\ k.over = TRUE
  BY <1>4 DEF LoopShape, LoopFields
<1> HIDE DEF k
<1>6. /\ LoopShape(t)
      /\ OtherFiles(a, t, Metadata)
      /\ t.moved = a.moved /\ t.files.bak = a.files.bak
      /\ \/ t = a /\ a.files.copy[Metadata] = Absent
         \/ t.files = a.files /\ t.copied = a.copied /\ ~t.ok
         \/ /\ t.files.live[Metadata] = a.files.copy[Metadata]
            /\ t.ok = a.ok /\ t.over = a.over
  BY <1>3, <1>4, CopyBackShape
<1> HIDE DEF t
<1>7. /\ k.files.copy = d.copy
      /\ ContainerInv(k, d)
      /\ MetadataInv(k, d)
  BY <1>1, <1>3, <1>4, <1>5 DEF OtherFiles, ContainerInv, MetadataInv
<1>8. t.files.copy = d.copy /\ ContainerInv(t, d)
  BY <1>1, <1>3, <1>4, <1>6 DEF OtherFiles, ContainerInv
<1>9. MetadataInv(t, d)
  BY <1>1, <1>3, <1>4, <1>6 DEF OtherFiles, MetadataInv
<1> QED
  BY <1>2, <1>5, <1>6, <1>7, <1>8, <1>9 DEF r

LEMMA RestoreContainer ==
  ASSUME NEW d, FileShape(d), NEW fault, NEW r, LoopShape(r),
         r.files.copy = d.copy, ContainerInv(r, d), MetadataInv(r, d)
  PROVE  LET b == restoreFile(r, Container, fault) IN
         /\ LoopShape(b)
         /\ b.files.copy = d.copy
         /\ ContainerInv(b, d)
         /\ MetadataInv(b, d)
<1> DEFINE a == moveAside(r, Container)
           k == [a EXCEPT !.over = TRUE]
           t == copyBack(a, Container, fault)
<1>1. restoreFile(r, Container, fault) \in {r, k, t}
  BY DEF restoreFile
<1>2. Container \in Names /\ Metadata \in Names \ {Container} /\ IsAbsolute(Container)
  BY DEF Names, Metadata, Container, IsAbsolute
<1>3. /\ LoopShape(a)
      /\ OtherFiles(r, a, Container)
      /\ a.copied = r.copied /\ a.ok = r.ok /\ a.over = r.over
      /\ \/ a = r
         \/ /\ r.files.live[Container] # Absent
            /\ a.files.live[Container] = Absent
            /\ a.files.bak[Container] = r.files.live[Container]
            /\ Container \in a.moved
  BY <1>2, MoveAsideShape
<1>4. t = a
  BY <1>2 DEF copyBack
<1> HIDE DEF a, t
<1>5. /\ LoopShape(k)
      /\ k.files = a.files /\ k.moved = a.moved /\ k.copied = a.copied
      /\ k.ok = a.ok /\ k.over = TRUE
  BY <1>3 DEF LoopShape, LoopFields
<1> HIDE DEF k
<1>6. a.files.copy = d.copy /\ ContainerInv(a, d) /\ MetadataInv(a, d)
  BY <1>2, <1>3 DEF OtherFiles, ContainerInv, MetadataInv
<1>7. k.files.copy = d.copy /\ ContainerInv(k, d) /\ MetadataInv(k, d)
  BY <1>5, <1>6 DEF ContainerInv, MetadataInv
<1> QED
  BY <1>1, <1>3, <1>4, <1>5, <1>6, <1>7

\* A restore leaves the container where it was or takes it away, and what was
\* stored in the metadata database in its place or in the ".bak" file.
LEMMA RestoreKeeps ==
  ASSUME NEW d, FileShape(d), NEW fault
  PROVE  LET t == copyFromBackupDir(d, fault) IN
         /\ FileShape(t)
         /\ t.live[Container] \in {Absent, d.live[Container]}
         /\ d.bak[Metadata] = Stored => t.bak[Metadata] = Stored
         /\ d.live[Metadata] = Stored /\ d.copy[Metadata] = Stored =>
               t.live[Metadata] = Stored \/ t.bak[Metadata] = Stored
<1> DEFINE b == restoreFile(Loop(d), Metadata, fault)
           r == restoreFile(b, Container, fault)
           rlive == [n \in Names |-> IF n \in r.moved THEN r.files.bak[n]
                                  ELSE IF n \in r.copied THEN Absent ELSE r.files.live[n]]
           rbak  == [n \in Names |-> IF n \in r.moved THEN Absent ELSE r.files.bak[n]]
           u == [r.files EXCEPT !.live = rlive, !.bak = rbak]
           v == [r.files EXCEPT !.bak = rbak]
<1>1. LoopShape(b) /\ b.files.copy = d.copy /\ ContainerInv(b, d) /\ MetadataInv(b, d)
  BY RestoreMetadata
<1> HIDE DEF b
<1>2. LoopShape(r) /\ r.files.copy = d.copy /\ ContainerInv(r, d) /\ MetadataInv(r, d)
  BY <1>1, RestoreContainer
<1>3. restoreLoop(d, fault) = r
  BY DEF restoreLoop, b
<1> HIDE DEF r
<1>4. \/ copyFromBackupDir(d, fault) = u /\ ~r.ok
      \/ copyFromBackupDir(d, fault) = r.files /\ r.ok
      \/ copyFromBackupDir(d, fault) = v /\ r.ok /\ ~r.over
  BY <1>2, <1>3 DEF copyFromBackupDir, recover, deleteMoved, LoopShape
<1>5. Metadata \in Names /\ Container \in Names
  BY DEF Names
<1>6. /\ rlive \in [Names -> Contents] /\ rbak \in [Names -> Contents]
      /\ \A n \in Names :
            /\ rlive[n] = IF n \in r.moved THEN r.files.bak[n]
                          ELSE IF n \in r.copied THEN Absent ELSE r.files.live[n]
            /\ rbak[n] = IF n \in r.moved THEN Absent ELSE r.files.bak[n]
  BY <1>2 DEF LoopShape, FileShape, Contents
<1> HIDE DEF rlive, rbak
<1>7. /\ FileShape(u) /\ u.live = rlive /\ u.bak = rbak
      /\ FileShape(v) /\ v.live = r.files.live /\ v.bak = rbak
      /\ FileShape(r.files)
  BY <1>2, <1>6 DEF LoopShape, FileShape, FileFields
<1> HIDE DEF u, v
<1>8. CASE copyFromBackupDir(d, fault) = u /\ ~r.ok
  BY <1>2, <1>5, <1>6, <1>7, <1>8 DEF ContainerInv, MetadataInv, Stored, Absent
<1>9. CASE copyFromBackupDir(d, fault) = r.files /\ r.ok
  BY <1>2, <1>5, <1>7, <1>9 DEF ContainerInv, MetadataInv, Stored, Absent
<1>10. CASE copyFromBackupDir(d, fault) = v /\ r.ok /\ ~r.over
  BY <1>2, <1>5, <1>6, <1>7, <1>10 DEF ContainerInv, MetadataInv, Stored, Absent
<1> QED
  BY <1>4, <1>8, <1>9, <1>10

LEMMA TreeKeeps ==
  ASSUME NEW d, FileShape(d), NEW fault
  PROVE  LET t == createStorageFileTree(d, fault) IN
         /\ FileShape(t)
         /\ t.bak = d.bak /\ t.copy = d.copy
         /\ t.live[Container] = d.live[Container]
         /\ d.live[Metadata] = Stored => t.live[Metadata] = Stored
<1> DEFINE live == [name \in Names |->
                       IF d.live[name] = Absent /\ ~IsAbsolute(name) THEN New
                       ELSE d.live[name]]
           t == [d EXCEPT !.live = live]
<1>1. createStorageFileTree(d, fault) \in {d, t}
  BY DEF createStorageFileTree
<1>2. Metadata \in Names /\ Container \in Names /\ IsAbsolute(Container)
  BY DEF Names, IsAbsolute
<1>3. /\ live \in [Names -> Contents]
      /\ live[Container] = d.live[Container]
      /\ d.live[Metadata] = Stored => live[Metadata] = Stored
  BY <1>2 DEF FileShape, Contents, Stored, Absent
<1> HIDE DEF live
<1>4. FileShape(t) /\ t.live = live /\ t.bak = d.bak /\ t.copy = d.copy
  BY <1>3 DEF FileShape, FileFields
<1> QED
  BY <1>1, <1>3, <1>4

LEMMA BackUpFileShape ==
  ASSUME NEW r, LoopShape(r), NEW name \in Names, NEW fault
  PROVE  LET t == backUpFile(r, name, fault) IN
         /\ LoopShape(t)
         /\ t.files.bak = r.files.bak
         /\ t.files.live \in [Names -> Contents]
         /\ name # Container =>
               /\ t.files.live = r.files.live
               /\ t.ok => /\ r.ok
                          /\ ~r.over => t.files.copy[name] = r.files.live[name]
         /\ name = Container =>
               /\ t.files.copy = r.files.copy /\ t.ok = r.ok
               /\ t.files.live[name] \in {Absent, r.files.live[name]}
               /\ \A n \in Names \ {name} : t.files.live[n] = r.files.live[n]
<1> DEFINE live == [r.files.live EXCEPT ![name] = Absent]
           copy == [r.files.copy EXCEPT ![name] = r.files.live[name]]
           dl   == [r.files EXCEPT !.live = live]
           dc   == [r.files EXCEPT !.copy = copy]
           tl   == [r EXCEPT !.files = dl]
           tc   == [r EXCEPT !.files = dc]
           tf   == [r EXCEPT !.ok = FALSE, !.over = TRUE]
<1>1. backUpFile(r, name, fault) = IF r.over THEN r
                                   ELSE IF name = Container THEN tl
                                   ELSE IF Happens(fault, "copy", name) THEN tf
                                   ELSE tc
  BY DEF backUpFile, IsAbsolute
<1>2. /\ live \in [Names -> Contents] /\ copy \in [Names -> Contents]
      /\ live[name] = Absent /\ copy[name] = r.files.live[name]
      /\ \A n \in Names \ {name} : live[n] = r.files.live[n]
  BY DEF LoopShape, FileShape, Contents
<1> HIDE DEF live, copy
<1>3. /\ FileShape(dl) /\ dl.live = live /\ dl.bak = r.files.bak /\ dl.copy = r.files.copy
      /\ FileShape(dc) /\ dc.live = r.files.live /\ dc.bak = r.files.bak /\ dc.copy = copy
  BY <1>2 DEF LoopShape, FileShape, FileFields
<1> HIDE DEF dl, dc
<1>4. /\ LoopShape(tl) /\ tl.files = dl /\ tl.ok = r.ok /\ tl.over = r.over
      /\ LoopShape(tc) /\ tc.files = dc /\ tc.ok = r.ok /\ tc.over = r.over
      /\ LoopShape(tf) /\ tf.files = r.files /\ tf.ok = FALSE /\ tf.over = TRUE
  BY <1>3 DEF LoopShape, LoopFields
<1> HIDE DEF tl, tc, tf
<1>5. CASE r.over
  BY <1>1, <1>5 DEF LoopShape, FileShape
<1>6. CASE ~r.over /\ name = Container
  BY <1>1, <1>2, <1>3, <1>4, <1>6
<1>7. CASE ~r.over /\ name # Container
  <2>1. backUpFile(r, name, fault) \in {tf, tc}
    BY <1>1, <1>7
  <2> QED
    BY <1>2, <1>3, <1>4, <1>7, <2>1 DEF LoopShape, FileShape
<1> QED
  BY <1>5, <1>6, <1>7

\* A backup that has not failed holds the metadata database.
LEMMA BackupKeeps ==
  ASSUME NEW d, FileShape(d), NEW fault
  PROVE  LET t == copyToBackupDir(d, fault) IN
         /\ FileShape(t.files)
         /\ t.files.bak = d.bak
         /\ t.files.live[Container] \in {Absent, d.live[Container]}
         /\ t.files.live[Metadata] = d.live[Metadata]
         /\ t.ok => t.files.copy[Metadata] = d.live[Metadata]
<1> DEFINE x == eraseBackupDir(d)
           r == Loop(x)
           b == backUpFile(r, Metadata, fault)
           t == backUpFile(b, Container, fault)
<1>1. FileShape(x) /\ x.live = d.live /\ x.bak = d.bak
  BY DEF eraseBackupDir, NoFiles, FileShape, FileFields, Contents
<1> HIDE DEF x
<1>2. /\ LoopShape(r) /\ r.files = x
      /\ r.ok = TRUE /\ r.over = FALSE
  BY <1>1, LoopStart
<1>3. copyToBackupDir(d, fault) = t
  BY DEF copyToBackupDir, r, x
<1> HIDE DEF r
<1>4. /\ Metadata \in Names /\ Container \in Names /\ Metadata \in Names \ {Container}
      /\ Metadata # Container
  BY DEF Names, Metadata, Container
<1>5. /\ LoopShape(b)
      /\ b.files.bak = r.files.bak
      /\ b.files.live = r.files.live
      /\ b.ok => b.files.copy[Metadata] = r.files.live[Metadata]
  BY <1>2, <1>4, BackUpFileShape
<1> HIDE DEF b
<1>6. /\ LoopShape(t)
      /\ t.files.bak = b.files.bak
      /\ t.files.copy = b.files.copy /\ t.ok = b.ok
      /\ t.files.live[Container] \in {Absent, b.files.live[Container]}
      /\ t.files.live[Metadata] = b.files.live[Metadata]
  BY <1>4, <1>5, BackUpFileShape
<1> HIDE DEF t
<1>7. FileShape(t.files)
  BY <1>6 DEF LoopShape
<1> QED
  BY <1>1, <1>2, <1>3, <1>5, <1>6, <1>7

-----------------------------------------------------------------------------
(* The shape of the records: their fields, and of the values in them what the *)
(* proofs need.                                                               *)

CryptoFields == {"isSetup", "mounted", "attached", "encryptionKey", "fileExists",
                 "volume", "directory"}
VolumeFields == {"slots", "formatted", "keychain", "secrets"}
Fields == {"phase", "authorizer", "metadata", "bak", "crypto", "readyManagers",
           "inserted", "authorized", "queries", "dbExists", "opened",
           "secretsOpen", "notifiers", "revoked"}

VolumeShape(v) ==
    /\ DOMAIN v = VolumeFields
    /\ v.slots \in [Slots -> AnyKey \cup {Free}]
    /\ v.formatted \in BOOLEAN

CryptoShape(c) ==
    /\ DOMAIN c = CryptoFields
    /\ c.isSetup \in BOOLEAN
    /\ c.mounted \in BOOLEAN
    /\ c.attached \in BOOLEAN
    /\ c.fileExists \in BOOLEAN
    /\ c.encryptionKey \in AnyKey
    /\ VolumeShape(c.volume)

Shape(s) ==
    /\ DOMAIN s = Fields
    /\ CryptoShape(s.crypto)
    /\ s.authorized \subseteq AnyKey
    /\ s.opened \in BOOLEAN
    /\ s.secretsOpen \in BOOLEAN

\* What the environment may choose.
Surrounding(e) ==
    /\ e.fault \in Faults \cup {"none"}
    /\ e.pick \in AnyKey

-----------------------------------------------------------------------------
(* The crypto manager keeps the shape. *)

\* What no mount changes: the files, but for the keychain; secrets may be stored.
SameFiles(c, t) ==
    /\ t.isSetup = c.isSetup
    /\ t.fileExists = c.fileExists
    /\ t.volume.slots = c.volume.slots
    /\ t.volume.formatted = c.volume.formatted
    /\ c.volume.secrets => t.volume.secrets

Chain(c) == Range(c.volume.keychain)

LEMMA KeychainRange ==
  ASSUME NEW c, CryptoShape(c), NEW key
  PROVE  LET t == addKeyToKeychain(c, key) IN
         /\ Chain(t) \subseteq Chain(c) \cup {key}
         /\ t.volume.secrets = c.volume.secrets
<1> DEFINE chain == keychain(c)
           last  == Cardinality(DOMAIN chain) + 1
           more  == [n \in DOMAIN chain \cup {last} |-> IF n = last THEN key ELSE chain[n]]
           t     == WriteKeychain(c, more)
<1>1. addKeyToKeychain(c, key) = c \/ addKeyToKeychain(c, key) = t
  BY DEF addKeyToKeychain
<1>2. Range(more) \subseteq Range(chain) \cup {key}
  BY DEF Range
<1> HIDE DEF last, more
<1>3. /\ t.volume.keychain = c.volume.keychain \/ (c.attached /\ t.volume.keychain = more)
      /\ t.volume.secrets = c.volume.secrets
  BY DEF WriteKeychain, CryptoShape, CryptoFields, VolumeShape, VolumeFields
<1>4. c.attached => chain = c.volume.keychain
  BY DEF keychain
<1> HIDE DEF t, chain
<1> QED
  BY <1>1, <1>2, <1>3, <1>4 DEF Chain

LEMMA KeychainShape ==
  ASSUME NEW c, CryptoShape(c), NEW key
  PROVE  LET t == addKeyToKeychain(c, key) IN
         /\ CryptoShape(t)
         /\ SameFiles(c, t)
         /\ t.mounted = c.mounted /\ t.attached = c.attached
         /\ t.encryptionKey = c.encryptionKey
  BY DEF CryptoShape, CryptoFields, VolumeShape, VolumeFields, SameFiles,
         addKeyToKeychain, WriteKeychain

LEMMA SetKeyShape ==
  ASSUME NEW c, CryptoShape(c), NEW key \in AnyKey
  PROVE  LET t == setEncryptionKey(c, key) IN
         /\ CryptoShape(t)
         /\ SameFiles(c, t)
         /\ t.mounted = c.mounted /\ t.attached = c.attached
         /\ t.volume = c.volume
         /\ c.mounted => t = c
         /\ ~c.mounted => t.encryptionKey = key
  BY DEF CryptoShape, CryptoFields, VolumeShape, VolumeFields, SameFiles,
         setEncryptionKey

LEMMA ClearShape ==
  ASSUME NEW c, CryptoShape(c), NEW fault
  PROVE  LET t == clearFileSystemResources(c, fault) IN
         /\ CryptoShape(t)
         /\ SameFiles(c, t)
         /\ t.mounted = c.mounted
         /\ t.volume = c.volume
         /\ t.encryptionKey = c.encryptionKey
         /\ fault # "umount" => t.attached = FALSE
  BY DEF CryptoShape, CryptoFields, VolumeShape, VolumeFields, SameFiles,
         clearFileSystemResources

LEMMA UnmountShape ==
  ASSUME NEW c, CryptoShape(c), NEW fault
  PROVE  LET t == unmountFileSystem(c, fault) IN
         /\ CryptoShape(t)
         /\ SameFiles(c, t)
         /\ t.mounted = FALSE
         /\ t.volume = c.volume
  BY DEF CryptoShape, CryptoFields, VolumeShape, VolumeFields, SameFiles,
         unmountFileSystem

LEMMA RestartShape ==
  ASSUME NEW c, CryptoShape(c)
  PROVE  LET t == CryptoRestart(c) IN
         /\ CryptoShape(t)
         /\ t.mounted = FALSE
         /\ t.volume = c.volume
         /\ t.fileExists = c.fileExists
         /\ t.isSetup = c.fileExists
  BY DEF CryptoShape, CryptoFields, VolumeShape, VolumeFields, CryptoRestart, AnyKey

\* mountMappedDevice()
LEMMA MountMappedShape ==
  ASSUME NEW c, CryptoShape(c), NEW fault
  PROVE  LET t == mountMapped(c, fault) IN
         /\ CryptoShape(t)
         /\ SameFiles(c, t)
         /\ t.mounted = c.mounted
         /\ t.encryptionKey = c.encryptionKey
         /\ t.attached = (c.volume.formatted /\ fault # "mount")
         /\ Chain(t) \subseteq Chain(c) \cup {c.encryptionKey}
<1> DEFINE a == [c EXCEPT !.attached = c.volume.formatted /\ fault # "mount"]
<1>1. /\ CryptoShape(a)
      /\ SameFiles(c, a)
      /\ a.mounted = c.mounted
      /\ a.encryptionKey = c.encryptionKey
      /\ a.attached = (c.volume.formatted /\ fault # "mount")
      /\ a.volume = c.volume
  BY DEF CryptoShape, CryptoFields, VolumeShape, VolumeFields, SameFiles
<1> HIDE DEF a
<1>2. LET t == addKeyToKeychain(a, c.encryptionKey) IN
      /\ CryptoShape(t)
      /\ SameFiles(a, t)
      /\ t.mounted = a.mounted /\ t.attached = a.attached
      /\ t.encryptionKey = a.encryptionKey
      /\ Chain(t) \subseteq Chain(a) \cup {c.encryptionKey}
  BY <1>1, KeychainShape, KeychainRange
<1>3. mountMapped(c, fault) = addKeyToKeychain(a, c.encryptionKey)
  BY DEF mountMapped, a
<1> QED
  BY <1>1, <1>2, <1>3 DEF SameFiles, Chain

LEMMA MountShape ==
  ASSUME NEW c, CryptoShape(c), NEW fault
  PROVE  LET t == mountFileSystem(c, fault) IN
         /\ CryptoShape(t)
         /\ SameFiles(c, t)
         /\ t.encryptionKey = c.encryptionKey
         /\ Chain(t) \subseteq Chain(c) \cup (Occupying(c.volume) \cap {c.encryptionKey})
         /\ c.mounted => t = c
         /\ ~c.mounted /\ t.mounted =>
               /\ c.encryptionKey \in Occupying(c.volume)
               /\ c.encryptionKey # NoKey
               /\ t.attached = (c.volume.formatted /\ fault # "mount")
<1> DEFINE a == clearFileSystemResources(c, fault)
           b == mountMapped(a, fault)
           t == [b EXCEPT !.mounted = TRUE]
<1>1. /\ CryptoShape(a)
      /\ SameFiles(c, a)
      /\ a.mounted = c.mounted
      /\ a.volume = c.volume
      /\ a.encryptionKey = c.encryptionKey
  BY ClearShape
<1>2. /\ CryptoShape(b)
      /\ SameFiles(a, b)
      /\ b.encryptionKey = a.encryptionKey
      /\ b.attached = (a.volume.formatted /\ fault # "mount")
      /\ Chain(b) \subseteq Chain(a) \cup {a.encryptionKey}
  BY <1>1, MountMappedShape
<1> HIDE DEF a, b
<1>3. /\ CryptoShape(t)
      /\ SameFiles(b, t)
      /\ t.encryptionKey = b.encryptionKey
      /\ t.attached = b.attached
      /\ t.volume = b.volume
  BY <1>2 DEF CryptoShape, CryptoFields, VolumeShape, VolumeFields, SameFiles
<1> HIDE DEF t
<1>4. \/ mountFileSystem(c, fault) = c
      \/ mountFileSystem(c, fault) = a /\ ~c.mounted
      \/ /\ mountFileSystem(c, fault) = t
         /\ ~c.mounted
         /\ c.encryptionKey # NoKey
         /\ CanOpen(a, fault)
  BY DEF mountFileSystem, t, b, a
<1>5. CASE mountFileSystem(c, fault) = c
  BY <1>5 DEF SameFiles
<1>6. CASE mountFileSystem(c, fault) = a /\ ~c.mounted
  BY <1>1, <1>6 DEF Chain
<1>7. CASE /\ mountFileSystem(c, fault) = t
           /\ ~c.mounted
           /\ c.encryptionKey # NoKey
           /\ CanOpen(a, fault)
  BY <1>1, <1>2, <1>3, <1>7 DEF CanOpen, SameFiles, Chain
<1> QED
  BY <1>4, <1>5, <1>6, <1>7

\* encryptionKeyInUse()
LEMMA TryShape ==
  ASSUME NEW c, CryptoShape(c), NEW key \in AnyKey, NEW fault
  PROVE  LET t == tryEncryptionKey(c, key, fault) IN
         /\ CryptoShape(t)
         /\ SameFiles(c, t)
         /\ Chain(t) \subseteq Chain(c) \cup (Occupying(c.volume) \cap {key})
         /\ c.mounted => t = c
         /\ ~c.mounted => t.encryptionKey = key
         /\ ~c.mounted /\ t.mounted =>
               /\ key \in Occupying(c.volume)
               /\ t.attached = (c.volume.formatted /\ fault # "mount")
<1> DEFINE a == setEncryptionKey(c, key)
<1>1. /\ CryptoShape(a)
      /\ SameFiles(c, a)
      /\ a.mounted = c.mounted
      /\ a.volume = c.volume
      /\ ~c.mounted => a.encryptionKey = key
  BY SetKeyShape
<1> DEFINE b == mountFileSystem(a, fault)
<1>2. /\ CryptoShape(b)
      /\ SameFiles(a, b)
      /\ b.encryptionKey = a.encryptionKey
      /\ Chain(b) \subseteq Chain(a) \cup (Occupying(a.volume) \cap {a.encryptionKey})
      /\ ~a.mounted /\ b.mounted =>
            /\ a.encryptionKey \in Occupying(a.volume)
            /\ b.attached = (a.volume.formatted /\ fault # "mount")
  BY <1>1, MountShape
<1>3. tryEncryptionKey(c, key, fault) = IF c.mounted THEN c ELSE b
  BY DEF tryEncryptionKey
<1> HIDE DEF a, b
<1>4. CASE c.mounted
  BY <1>3, <1>4 DEF SameFiles
<1>5. CASE ~c.mounted
  BY <1>1, <1>2, <1>3, <1>5 DEF SameFiles, Chain
<1> QED
  BY <1>4, <1>5

\* luksFormat puts the key into the first slot.
LEMMA FormattedShape ==
  ASSUME NEW v, VolumeShape(v), NEW key \in AnyKey
  PROVE  /\ VolumeShape(formatFile(v, key))
         /\ Occupying(formatFile(v, key)) = {key}
         /\ Range(formatFile(v, key).keychain) = {}
<1>1. 1 \in Slots
  BY KeyAssumption DEF Slots
<1>2. /\ DOMAIN EmptyVolume = VolumeFields
      /\ EmptyVolume.formatted = FALSE
      /\ EmptyVolume.keychain = <<>>
  BY DEF EmptyVolume, VolumeFields
<1>3. /\ DOMAIN formatFile(v, key) = VolumeFields
      /\ formatFile(v, key).formatted = FALSE
      /\ formatFile(v, key).slots = [n \in Slots |-> IF n = 1 THEN key ELSE Free]
      /\ formatFile(v, key).keychain = <<>>
  BY <1>2 DEF formatFile, VolumeFields
<1>4. Range(<<>>) = {}
  BY DEF Range
<1>5. VolumeShape(formatFile(v, key))
  BY <1>3 DEF VolumeShape
<1>6. Occupying(formatFile(v, key)) = {key}
  <2>1. \A n \in Slots : formatFile(v, key).slots[n] = IF n = 1 THEN key ELSE Free
    BY <1>3
  <2> QED
    BY <1>1, <2>1, KeyAssumption DEF Occupying
<1> QED
  BY <1>3, <1>4, <1>5, <1>6

LEMMA EmptyShape ==
  /\ VolumeShape(EmptyVolume)
  /\ Occupying(EmptyVolume) = {}
  /\ Range(EmptyVolume.keychain) = {}
<1>1. /\ DOMAIN EmptyVolume = VolumeFields
      /\ EmptyVolume.formatted = FALSE
      /\ EmptyVolume.slots = [n \in Slots |-> Free]
      /\ EmptyVolume.keychain = <<>>
  BY DEF EmptyVolume, VolumeFields
<1>2. Range(<<>>) = {}
  BY DEF Range
<1> QED
  BY <1>1, <1>2, KeyAssumption DEF VolumeShape, Occupying

\* A set-up leaves the container as it was, or without a key, or with the key
\* it was made for; only when it could format it, unless it could not open it.
SetUp(c, d, fault) ==
    /\ CryptoShape(d)
    /\ c.mounted => d = c
    /\ c.isSetup => d.isSetup
    /\ d.isSetup => c.isSetup \/ d.fileExists
    /\ d.encryptionKey = c.encryptionKey
    /\ \/ /\ SameFiles(c, d) \/ (d.volume = c.volume /\ d.isSetup /\ d.fileExists)
          /\ d.mounted = c.mounted
          /\ Chain(d) = Chain(c)
          /\ c.mounted \/ c.encryptionKey = NoKey \/ fault \in {"device", "loop"}
       \/ /\ Occupying(d.volume) = {}
          /\ Chain(d) = {}
          /\ ~d.mounted
       \/ /\ d.isSetup /\ d.fileExists
          /\ fault \notin {"open", "umount"} => d.volume.formatted
          /\ fault \notin {"open", "umount", "mkdir"} => d.mounted
          /\ Occupying(d.volume) = {c.encryptionKey}
          /\ Chain(d) \subseteq Occupying(d.volume)
          /\ ~c.mounted
          /\ d.mounted =>
                /\ d.encryptionKey \in Occupying(d.volume)
                /\ d.attached = (fault # "mount")

LEMMA SetupShape ==
  ASSUME NEW c, CryptoShape(c), NEW fault
  PROVE  SetUp(c, setupFileSystem(c, fault), fault)
<1> DEFINE key     == c.encryptionKey
           cleared == clearFileSystemResources(c, fault)
           created == [cleared EXCEPT !.isSetup = TRUE, !.fileExists = TRUE]
           keyless == [created EXCEPT !.volume = EmptyVolume]
           format  == formatFile(created.volume, c.encryptionKey)
           opened  == [created EXCEPT !.volume = format]
           mkfs    == [opened EXCEPT !.volume.formatted = TRUE]
           mapped  == mountMapped(mkfs, fault)
           done    == [mapped EXCEPT !.mounted = TRUE]
<1>1. /\ CryptoShape(cleared)
      /\ SameFiles(c, cleared)
      /\ cleared.mounted = c.mounted
      /\ cleared.volume = c.volume
      /\ cleared.encryptionKey = key
      /\ fault # "umount" => cleared.attached = FALSE
  BY ClearShape
<1>2. \/ setupFileSystem(c, fault) = c /\ (c.mounted \/ c.encryptionKey = NoKey)
      \/ setupFileSystem(c, fault) = cleared /\ ~c.mounted /\ fault = "device"
      \/ setupFileSystem(c, fault) = created /\ ~c.mounted /\ fault = "loop"
      \/ setupFileSystem(c, fault) = keyless /\ ~c.mounted
      \/ setupFileSystem(c, fault) = opened /\ ~c.mounted /\ ~CanOpen(opened, fault)
      \/ setupFileSystem(c, fault) = mkfs /\ ~c.mounted /\ fault = "mkdir"
      \/ setupFileSystem(c, fault) = done /\ ~c.mounted
  BY DEF setupFileSystem
<1>3. key \in AnyKey
  BY DEF CryptoShape
<1> HIDE DEF cleared, key
<1>4. /\ CryptoShape(created)
      /\ created.isSetup /\ created.fileExists /\ created.mounted = cleared.mounted
      /\ created.volume = cleared.volume
      /\ created.attached = cleared.attached
      /\ created.encryptionKey = cleared.encryptionKey
  BY <1>1 DEF CryptoShape, CryptoFields
<1> HIDE DEF created
<1>5. /\ CryptoShape(keyless)
      /\ keyless.isSetup /\ keyless.fileExists /\ keyless.mounted = created.mounted
      /\ keyless.volume = EmptyVolume
      /\ keyless.encryptionKey = created.encryptionKey
  BY <1>4, EmptyShape DEF CryptoShape, CryptoFields
<1>6. /\ VolumeShape(format)
      /\ Occupying(format) = {key}
      /\ Range(format.keychain) = {}
  BY <1>3, <1>4, FormattedShape DEF CryptoShape, key
<1> HIDE DEF keyless, format
<1>7. /\ CryptoShape(opened)
      /\ opened.isSetup /\ opened.fileExists /\ opened.mounted = created.mounted
      /\ opened.volume = format
      /\ opened.attached = created.attached
      /\ opened.encryptionKey = created.encryptionKey
  BY <1>4, <1>6 DEF CryptoShape, CryptoFields
<1> HIDE DEF opened
<1>8. /\ CryptoShape(mkfs)
      /\ mkfs.isSetup /\ mkfs.fileExists /\ mkfs.mounted = opened.mounted
      /\ mkfs.volume.slots = format.slots
      /\ mkfs.volume.keychain = format.keychain
      /\ mkfs.volume.formatted
      /\ mkfs.encryptionKey = opened.encryptionKey
  BY <1>7 DEF CryptoShape, CryptoFields, VolumeShape, VolumeFields
<1> HIDE DEF mkfs
<1>9. /\ CryptoShape(mapped)
      /\ SameFiles(mkfs, mapped)
      /\ mapped.encryptionKey = mkfs.encryptionKey
      /\ mapped.attached = (mkfs.volume.formatted /\ fault # "mount")
      /\ Chain(mapped) \subseteq Chain(mkfs) \cup {mkfs.encryptionKey}
  BY <1>8, MountMappedShape
<1> HIDE DEF mapped
<1>10. /\ CryptoShape(done)
       /\ SameFiles(mapped, done)
       /\ done.encryptionKey = mapped.encryptionKey
       /\ done.attached = mapped.attached
       /\ done.mounted = TRUE
       /\ done.volume = mapped.volume
  BY <1>9 DEF CryptoShape, CryptoFields, SameFiles
<1> HIDE DEF done
<1>11. CASE setupFileSystem(c, fault) = c /\ (c.mounted \/ c.encryptionKey = NoKey)
  BY <1>11 DEF SetUp, SameFiles
<1>12. CASE setupFileSystem(c, fault) = cleared /\ ~c.mounted /\ fault = "device"
  BY <1>1, <1>12 DEF SetUp, SameFiles, Chain, key
<1>13. CASE setupFileSystem(c, fault) = created /\ ~c.mounted /\ fault = "loop"
  BY <1>1, <1>4, <1>13 DEF SetUp, SameFiles, Chain, key
<1>14. CASE setupFileSystem(c, fault) = keyless /\ ~c.mounted
  BY <1>1, <1>4, <1>5, <1>14, EmptyShape DEF SetUp, Chain, key
<1>15. CASE setupFileSystem(c, fault) = opened /\ ~c.mounted /\ ~CanOpen(opened, fault)
  <2>1. fault \in {"open", "umount"}
    BY <1>1, <1>4, <1>6, <1>7, <1>15 DEF CanOpen
  <2> QED
    BY <2>1, <1>1, <1>4, <1>6, <1>7, <1>15 DEF SetUp, Chain, key
<1>16. Occupying(mkfs.volume) = Occupying(format)
  BY <1>8 DEF Occupying
<1>17. CASE setupFileSystem(c, fault) = mkfs /\ ~c.mounted /\ fault = "mkdir"
  BY <1>1, <1>4, <1>6, <1>7, <1>8, <1>16, <1>17 DEF SetUp, Chain, key
<1>18. CASE setupFileSystem(c, fault) = done /\ ~c.mounted
  <2>1. Occupying(done.volume) = Occupying(format)
    BY <1>8, <1>9, <1>10 DEF Occupying, SameFiles
  <2>2. done.encryptionKey = key /\ done.isSetup /\ done.fileExists
    BY <1>1, <1>4, <1>7, <1>8, <1>9, <1>10 DEF SameFiles
  <2>3. Chain(done) \subseteq {key}
    BY <1>1, <1>4, <1>6, <1>7, <1>8, <1>9, <1>10 DEF Chain
  <2>4. done.volume.formatted /\ done.mounted /\ done.attached = (fault # "mount")
    BY <1>8, <1>9, <1>10 DEF SameFiles
  <2> QED
    BY <1>6, <1>10, <1>18, <2>1, <2>2, <2>3, <2>4 DEF SetUp, key
<1> QED
  BY <1>2, <1>11, <1>12, <1>13, <1>14, <1>15, <1>17, <1>18

LEMMA LowestIn == ASSUME NEW S \in SUBSET Slots, S # {} PROVE Lowest(S) \in S
<1>1. S \subseteq Nat
  BY KeyAssumption DEF Slots
<1>2. PICK n \in S : \A i \in S : <<i, n>> \notin OpToRel(<, Nat)
  BY <1>1, WFMin, NatLessThanWellFounded
<1>3. ASSUME NEW i \in S
      PROVE  ~ (i < n)
  BY <1>1, <1>2, <1>3, Zenon DEF OpToRel
<1>4. \A i \in S : n <= i
  BY <1>1, <1>3
<1> QED
  BY <1>4, Zenon DEF Lowest

\* addEncryptionKey() puts the key into a slot, or changes nothing.
LEMMA AddSlotShape ==
  ASSUME NEW c, CryptoShape(c), NEW key \in AnyKey, NEW existing, NEW fault
  PROVE  LET t == addEncryptionKey(c, key, existing, fault) IN
         /\ CryptoShape(t)
         /\ t.isSetup = c.isSetup /\ t.fileExists = c.fileExists
         /\ t.mounted = c.mounted /\ t.attached = c.attached
         /\ t.encryptionKey = c.encryptionKey
         /\ t.volume.formatted = c.volume.formatted
         /\ t.volume.secrets = c.volume.secrets
         /\ Occupying(c.volume) \subseteq Occupying(t.volume)
         /\ Occupying(t.volume) \subseteq Occupying(c.volume) \cup {key}
         /\ Chain(t) \subseteq Chain(c) \cup Occupying(t.volume)
         /\ Occupying(t.volume) # {} => Occupying(c.volume) # {}
         /\ addEncryptionKeySucceeds(c, key, existing, fault) => key \in Occupying(t.volume)
<1> DEFINE n     == Lowest(FreeSlots(c.volume))
           slots == [c.volume.slots EXCEPT ![n] = key]
           a     == [c EXCEPT !.volume.slots[n] = key]
           t     == addKeyToKeychain(a, key)
<1>1. addEncryptionKey(c, key, existing, fault) =
         IF addEncryptionKeySucceeds(c, key, existing, fault) THEN t ELSE c
  BY DEF addEncryptionKey
<1>2. CASE ~addEncryptionKeySucceeds(c, key, existing, fault)
  BY <1>1, <1>2
<1>3. CASE addEncryptionKeySucceeds(c, key, existing, fault)
  <2>1. FreeSlots(c.volume) # {} /\ existing \in Occupying(c.volume)
    BY <1>3 DEF addEncryptionKeySucceeds
  <2>2. n \in Slots /\ c.volume.slots[n] = Free
    <3>1. FreeSlots(c.volume) \in SUBSET Slots
      BY DEF FreeSlots
    <3>2. n \in FreeSlots(c.volume)
      BY <2>1, <3>1, LowestIn
    <3> QED
      BY <3>2 DEF FreeSlots
  <2> HIDE DEF n
  <2>3. slots \in [Slots -> AnyKey \cup {Free}] /\ slots[n] = key
    BY <2>2 DEF CryptoShape, VolumeShape
  <2>4. /\ CryptoShape(a)
        /\ a.isSetup = c.isSetup /\ a.fileExists = c.fileExists
        /\ a.mounted = c.mounted /\ a.attached = c.attached
        /\ a.encryptionKey = c.encryptionKey
        /\ a.volume.formatted = c.volume.formatted
        /\ a.volume.keychain = c.volume.keychain
        /\ a.volume.secrets = c.volume.secrets
        /\ a.volume.slots = slots
    BY <2>3 DEF CryptoShape, CryptoFields, VolumeShape, VolumeFields
  <2>5. \A k \in AnyKey : k \in Occupying(c.volume) => k \in Occupying(a.volume)
    <3> SUFFICES ASSUME NEW k \in AnyKey, k \in Occupying(c.volume)
                 PROVE  \E i \in Slots : slots[i] = k
      BY <2>4 DEF Occupying
    <3>1. PICK i \in Slots : c.volume.slots[i] = k
      BY DEF Occupying
    <3>2. i # n
      BY <2>2, <3>1, KeyAssumption
    <3> QED
      BY <2>2, <3>1, <3>2 DEF CryptoShape, VolumeShape
  <2>6. /\ key \in Occupying(a.volume)
        /\ Occupying(a.volume) \subseteq Occupying(c.volume) \cup {key}
    <3>1. \A i \in Slots : slots[i] = key \/ slots[i] = c.volume.slots[i]
      BY <2>2 DEF CryptoShape, VolumeShape
    <3> QED
      BY <2>2, <2>3, <2>4, <3>1 DEF Occupying
  <2> HIDE DEF a, slots
  <2>7. /\ CryptoShape(t)
        /\ SameFiles(a, t)
        /\ t.mounted = a.mounted /\ t.attached = a.attached
        /\ t.encryptionKey = a.encryptionKey
        /\ Chain(t) \subseteq Chain(a) \cup {key}
        /\ t.volume.secrets = a.volume.secrets
    BY <2>4, KeychainShape, KeychainRange
  <2> HIDE DEF t
  <2>8. Occupying(t.volume) = Occupying(a.volume)
    BY <2>7 DEF SameFiles, Occupying
  <2>9. Occupying(c.volume) \subseteq Occupying(a.volume)
    BY <2>5 DEF Occupying
  <2> QED
    BY <1>1, <1>3, <2>1, <2>4, <2>6, <2>7, <2>8, <2>9 DEF SameFiles, Chain
<1> QED
  BY <1>2, <1>3

\* removeEncryptionKey() empties at most one slot.
LEMMA RemoveSlotShape ==
  ASSUME NEW c, CryptoShape(c), NEW key, NEW fault
  PROVE  LET t == removeEncryptionKey(c, key, fault) IN
         /\ CryptoShape(t)
         /\ t.isSetup = c.isSetup /\ t.fileExists = c.fileExists
         /\ t.mounted = c.mounted /\ t.attached = c.attached
         /\ t.encryptionKey = c.encryptionKey
         /\ t.volume.formatted = c.volume.formatted
         /\ t.volume.secrets = c.volume.secrets
         /\ Occupying(t.volume) \subseteq Occupying(c.volume)
         /\ c.mounted /\ c.attached /\ fault # "slot" /\ key \in AnyKey =>
               key \notin Chain(t) \/ key \notin Occupying(t.volume)
<1> DEFINE n == Lowest(SlotsOf(c.volume, key))
           slots == [c.volume.slots EXCEPT ![n] = Free]
           a == [c EXCEPT !.volume.slots[n] = Free]
           t == removeKeyFromKeychain(a, key)
<1>1. \/ /\ removeEncryptionKey(c, key, fault) = c
         /\ ~c.mounted \/ fault = "slot" \/ SlotsOf(c.volume, key) = {}
      \/ removeEncryptionKey(c, key, fault) = t
  BY DEF removeEncryptionKey
<1>2. SlotsOf(c.volume, key) = {} => key \notin Occupying(c.volume)
  BY DEF SlotsOf, Occupying
<1> HIDE DEF n
<1>3. slots \in [Slots -> AnyKey \cup {Free}]
  BY DEF CryptoShape, VolumeShape
<1>4. /\ CryptoShape(a)
      /\ a.isSetup = c.isSetup /\ a.fileExists = c.fileExists
      /\ a.mounted = c.mounted /\ a.attached = c.attached
      /\ a.encryptionKey = c.encryptionKey
      /\ a.volume.formatted = c.volume.formatted
      /\ a.volume.secrets = c.volume.secrets
      /\ a.volume.slots = slots
  BY <1>3 DEF CryptoShape, CryptoFields, VolumeShape, VolumeFields
<1>5. \A k \in AnyKey : k \in Occupying(a.volume) => k \in Occupying(c.volume)
  <2> SUFFICES ASSUME NEW k \in AnyKey, NEW i \in Slots, slots[i] = k
               PROVE  c.volume.slots[i] = k
    BY <1>4 DEF Occupying
  <2>1. k # Free
    BY KeyAssumption
  <2> QED
    BY <2>1 DEF CryptoShape, VolumeShape
<1> HIDE DEF a, slots
<1>6. /\ CryptoShape(t)
      /\ SameFiles(a, t)
      /\ t.volume.secrets = a.volume.secrets
      /\ t.mounted = a.mounted /\ t.attached = a.attached
      /\ t.encryptionKey = a.encryptionKey
  BY <1>4 DEF removeKeyFromKeychain, WriteKeychain, CryptoShape, CryptoFields,
              VolumeShape, VolumeFields, SameFiles
<1>7. a.attached => key \notin Chain(t)
  BY <1>4 DEF Chain, Range, removeKeyFromKeychain, WriteKeychain, keychain, CryptoShape,
              CryptoFields, VolumeShape, VolumeFields
<1> HIDE DEF t
<1>8. Occupying(t.volume) = Occupying(a.volume)
  BY <1>6 DEF SameFiles, Occupying
<1>9. Occupying(a.volume) \subseteq Occupying(c.volume)
  BY <1>5 DEF Occupying
<1> QED
  BY <1>1, <1>2, <1>4, <1>6, <1>7, <1>8, <1>9 DEF SameFiles

-----------------------------------------------------------------------------
(* What the slots need of the crypto manager. *)

\* From c to d nothing but a mount may have happened.
Mounts(c, d, fault) ==
    /\ CryptoShape(d)
    /\ SameFiles(c, d)
    /\ Chain(d) \subseteq Chain(c) \cup Occupying(c.volume)
    /\ c.mounted => d = c
    /\ ~c.mounted /\ d.mounted =>
          /\ d.encryptionKey \in Occupying(c.volume)
          /\ d.attached = (c.volume.formatted /\ fault # "mount")

LEMMA TryMounts ==
  ASSUME NEW c, CryptoShape(c), NEW key \in AnyKey, NEW fault
  PROVE  /\ Mounts(c, tryEncryptionKey(c, key, fault), fault)
         /\ ~c.mounted /\ tryEncryptionKey(c, key, fault).mounted =>
               key \in Occupying(c.volume)
  BY TryShape DEF Mounts

LEMMA MountMounts ==
  ASSUME NEW c, CryptoShape(c), NEW fault
  PROVE  Mounts(c, mountFileSystem(c, fault), fault)
  BY MountShape DEF Mounts

LEMMA SetKeyMounts ==
  ASSUME NEW c, CryptoShape(c), ~c.mounted, NEW key \in AnyKey, NEW fault
  PROVE  Mounts(c, mountFileSystem(setEncryptionKey(c, key), fault), fault)
<1>1. tryEncryptionKey(c, key, fault) = mountFileSystem(setEncryptionKey(c, key), fault)
  BY DEF tryEncryptionKey
<1> QED
  BY <1>1, TryMounts

\* A key that has a slot mounts the file system, when the calls a mount needs do
\* not fail.
LEMMA KeyWithSlotMounts ==
  ASSUME NEW c, CryptoShape(c), NEW key \in Occupying(c.volume), key # NoKey, NEW fault,
         fault \notin {"device", "loop", "mkdir", "open", "umount"}
  PROVE  tryEncryptionKey(c, key, fault).mounted
<1> DEFINE a == setEncryptionKey(c, key)
           b == clearFileSystemResources(a, fault)
           d == mountMapped(b, fault)
<1>1. key \in AnyKey
  BY DEF Occupying
<1>2. CASE c.mounted
  BY <1>2 DEF tryEncryptionKey
<1>3. CASE ~c.mounted
  <2>1. /\ CryptoShape(a) /\ a.volume = c.volume /\ ~a.mounted
        /\ a.encryptionKey = key
    BY <1>1, <1>3, SetKeyShape
  <2>2. /\ CryptoShape(b) /\ b.volume = c.volume
        /\ b.encryptionKey = key /\ b.attached = FALSE
    BY <2>1, ClearShape
  <2>3. CryptoShape(d)
    BY <2>2, MountMappedShape
  <2>4. CanOpen(b, fault)
    BY <2>2 DEF CanOpen
  <2>5. tryEncryptionKey(c, key, fault) = mountFileSystem(a, fault)
    BY <1>3 DEF tryEncryptionKey
  <2> HIDE DEF a
  <2>6. mountFileSystem(a, fault) = [d EXCEPT !.mounted = TRUE]
    BY <2>1, <2>4 DEF mountFileSystem
  <2> HIDE DEF d
  <2> QED
    BY <2>3, <2>5, <2>6 DEF CryptoShape, CryptoFields
<1> QED
  BY <1>2, <1>3

-----------------------------------------------------------------------------
(* Opening the secrets database. *)

\* From c to d nothing but the secrets were stored.
Alike(c, d) ==
    /\ CryptoShape(d)
    /\ SameFiles(c, d)
    /\ d.mounted = c.mounted /\ d.attached = c.attached
    /\ d.encryptionKey = c.encryptionKey
    /\ Chain(d) = Chain(c)
    /\ Occupying(d.volume) = Occupying(c.volume)

\* What all of them leave alone.
SameFilesOnDisk(s, t) == t.metadata = s.metadata /\ t.bak = s.bak

SameWaiters(s, t) == t.notifiers = s.notifiers /\ t.queries = s.queries

SameKeys(s, t) ==
    /\ t.phase = s.phase
    /\ t.authorizer = s.authorizer
    /\ t.inserted = s.inserted
    /\ t.authorized = s.authorized
    /\ t.revoked = s.revoked

SameKeyring(s, t) ==
    /\ SameKeys(s, t)
    /\ t.opened = s.opened
    /\ t.dbExists = s.dbExists
    /\ SameFilesOnDisk(s, t)
    /\ SameWaiters(s, t)

LEMMA OpenSecretsShape ==
  ASSUME NEW s, Shape(s), NEW e
  PROVE  LET t == openSecretsDB(s, e) IN
         /\ Shape(t)
         /\ SameKeyring(s, t)
         /\ Alike(s.crypto, t.crypto)
         /\ t.secretsOpen = (s.secretsOpen \/ (s.crypto.mounted /\ e.fault # "database"))
<1> DEFINE t == [s EXCEPT !.secretsOpen = TRUE]
<1>1. Shape(t) /\ SameKeyring(s, t) /\ t.crypto = s.crypto /\ t.secretsOpen = TRUE
  BY DEF Shape, Fields, SameKeyring, SameKeys, SameFilesOnDisk, SameWaiters
<1>2. openSecretsDB(s, e) = IF s.crypto.mounted /\ e.fault # "database" THEN t ELSE s
  BY DEF openSecretsDB
<1> HIDE DEF t
<1>3. Alike(s.crypto, s.crypto) /\ SameKeyring(s, s)
  BY DEF Shape, Alike, SameFiles, SameKeyring, SameKeys, SameFilesOnDisk, SameWaiters
<1>4. CASE s.crypto.mounted /\ e.fault # "database"
  BY <1>1, <1>2, <1>3, <1>4
<1>5. CASE ~(s.crypto.mounted /\ e.fault # "database")
  BY <1>2, <1>3, <1>5 DEF Shape
<1> QED
  BY <1>4, <1>5

LEMMA StoredShape ==
  ASSUME NEW s, Shape(s)
  PROVE  LET t == [s EXCEPT !.crypto.volume.secrets = TRUE] IN
         /\ Shape(t)
         /\ SameKeyring(s, t)
         /\ Alike(s.crypto, t.crypto)
         /\ t.secretsOpen = s.secretsOpen
<1> DEFINE vol == [s.crypto.volume EXCEPT !.secrets = TRUE]
           c   == [s.crypto EXCEPT !.volume = vol]
           t   == [s EXCEPT !.crypto = c]
<1>1. /\ VolumeShape(vol)
      /\ vol.slots = s.crypto.volume.slots
      /\ vol.formatted = s.crypto.volume.formatted
      /\ vol.keychain = s.crypto.volume.keychain
      /\ vol.secrets = TRUE
  BY DEF Shape, CryptoShape, VolumeShape, VolumeFields
<1> HIDE DEF vol
<1>2. /\ CryptoShape(c)
      /\ c.isSetup = s.crypto.isSetup /\ c.fileExists = s.crypto.fileExists
      /\ c.mounted = s.crypto.mounted /\ c.attached = s.crypto.attached
      /\ c.encryptionKey = s.crypto.encryptionKey
      /\ c.volume = vol
  BY <1>1 DEF Shape, CryptoShape, CryptoFields
<1> HIDE DEF c
<1>3. Alike(s.crypto, c)
  BY <1>1, <1>2 DEF Alike, SameFiles, Chain, Occupying
<1>4. Shape(t) /\ SameKeyring(s, t) /\ t.crypto = c /\ t.secretsOpen = s.secretsOpen
  BY <1>2 DEF Shape, Fields, SameKeyring, SameKeys, SameFilesOnDisk, SameWaiters
<1>5. [s EXCEPT !.crypto.volume.secrets = TRUE] = t
  BY DEF c, vol
<1> QED
  BY <1>3, <1>4, <1>5

\* fileSystemMounted() opens the database when the system is open.
LEMMA SetCryptoShape ==
  ASSUME NEW s, Shape(s), NEW c, CryptoShape(c), NEW e
  PROVE  LET t == SetCrypto(s, c, e) IN
         /\ Shape(t)
         /\ SameKeyring(s, t)
         /\ Alike(c, t.crypto)
         /\ t.secretsOpen = (\/ s.secretsOpen
                             \/ /\ c.mounted /\ ~s.crypto.mounted
                                /\ s.opened /\ e.fault # "database")
<1> DEFINE a == [s EXCEPT !.crypto = c]
           b == openSecretsDB(a, e)
<1>1. Shape(a) /\ SameKeyring(s, a) /\ a.crypto = c /\ a.secretsOpen = s.secretsOpen
  BY DEF Shape, Fields, SameKeyring, SameKeys, SameFilesOnDisk, SameWaiters
<1>2. Alike(c, c)
  BY DEF Alike, SameFiles
<1>3. SetCrypto(s, c, e) = IF /\ c.mounted /\ ~s.crypto.mounted
                              /\ a.opened /\ ~a.secretsOpen
                           THEN b ELSE a
  BY DEF SetCrypto, onEncryptedFSMounted
<1> HIDE DEF a
<1>4. /\ Shape(b)
      /\ SameKeyring(a, b)
      /\ Alike(c, b.crypto)
      /\ b.secretsOpen = (a.secretsOpen \/ (c.mounted /\ e.fault # "database"))
  BY <1>1, OpenSecretsShape
<1> HIDE DEF b
<1>5. CASE c.mounted /\ ~s.crypto.mounted /\ a.opened /\ ~a.secretsOpen
  BY <1>1, <1>3, <1>4, <1>5 DEF SameKeyring, SameKeys, SameFilesOnDisk, SameWaiters
<1>6. CASE ~(c.mounted /\ ~s.crypto.mounted /\ a.opened /\ ~a.secretsOpen)
  <2>1. a.opened = s.opened /\ s.secretsOpen \in BOOLEAN
    BY <1>1 DEF SameKeyring, SameKeys, Shape
  <2> QED
    BY <1>1, <1>2, <1>3, <1>6, <2>1
<1> QED
  BY <1>5, <1>6

-----------------------------------------------------------------------------
(* The invariant.  Its parts rest on different assumptions on what may fail. *)

ReliableMounts == Faults \cap {"open", "mount", "umount"} = {}
NoRemovals     == ReliableMounts /\ "remove" \notin Events
NothingFails   == Faults = {} /\ Events \cap {"backup", "restore"} = {}

\* What is mounted is the volume, for a key slot is only ever filled on a volume
\* that is formatted at once.
MountInv(s) ==
    /\ s.secretsOpen => s.crypto.mounted
    /\ s.crypto.mounted => s.crypto.attached
    /\ Occupying(s.crypto.volume) # {} => s.crypto.volume.formatted

\* Neither list of keys, in memory and in the keychain, is ahead of the slots.
RingInv(s) ==
    /\ s.crypto.fileExists => s.authorized \subseteq Occupying(s.crypto.volume)
    /\ Chain(s.crypto) \subseteq Occupying(s.crypto.volume)
    /\ s.crypto.mounted /\ s.crypto.fileExists =>
          s.crypto.encryptionKey \in Occupying(s.crypto.volume)

\* The secrets are open once the system is open and the file system mounted,
\* which it is while a key in use opens it.
MountedIsOpen(s) == s.opened /\ s.crypto.mounted => s.secretsOpen

KeyMounts(s) ==
    s.inserted \cap s.authorized \cap Occupying(s.crypto.volume) # {} =>
        s.crypto.mounted

SlotsOnFile(s) ==
    Occupying(s.crypto.volume) # {} => s.crypto.isSetup /\ s.crypto.fileExists

OpenInv(s) == MountedIsOpen(s) /\ KeyMounts(s) /\ SlotsOnFile(s)

StorageInv(s) ==
    /\ Shape(s)
    /\ ReliableMounts => MountInv(s)
    /\ NoRemovals => RingInv(s)
    /\ NothingFails => OpenInv(s)

LEMMA Assumptions ==
  ASSUME NEW e, Surrounding(e)
  PROVE  /\ ReliableMounts => e.fault \notin {"open", "mount", "umount"}
         /\ NoRemovals => ReliableMounts
         /\ NothingFails => ReliableMounts /\ e.fault = "none"
  BY DEF Surrounding, ReliableMounts, NoRemovals, NothingFails

-----------------------------------------------------------------------------
(* The slots of KeyHandler and CredentialsAccessManager keep the invariant. *)

\* A mount keeps it, and mends KeyMounts where that was broken.
LEMMA MountStep ==
  ASSUME NEW s, Shape(s), NEW c, NEW e, Surrounding(e),
         Mounts(s.crypto, c, e.fault),
         ReliableMounts => MountInv(s),
         NoRemovals => RingInv(s),
         NothingFails => MountedIsOpen(s) /\ SlotsOnFile(s) /\ (c.mounted \/ KeyMounts(s))
  PROVE  LET t == SetCrypto(s, c, e) IN
         /\ StorageInv(t)
         /\ SameKeyring(s, t)
         /\ t.crypto.mounted = c.mounted
         /\ SameFiles(s.crypto, t.crypto)
         /\ Occupying(t.crypto.volume) = Occupying(s.crypto.volume)
         /\ t.secretsOpen => s.secretsOpen \/ (c.mounted /\ ~s.crypto.mounted /\ s.opened)
<1> DEFINE t == SetCrypto(s, c, e)
<1>1. CryptoShape(c)
  BY DEF Mounts
<1>2. /\ Shape(t)
      /\ SameKeyring(s, t)
      /\ Alike(c, t.crypto)
      /\ t.secretsOpen = (\/ s.secretsOpen
                          \/ /\ c.mounted /\ ~s.crypto.mounted
                             /\ s.opened /\ e.fault # "database")
  BY <1>1, SetCryptoShape
<1> HIDE DEF t
<1>3. /\ t.authorized = s.authorized /\ t.inserted = s.inserted
      /\ t.opened = s.opened
  BY <1>2 DEF SameKeyring, SameKeys
<1>4. /\ Occupying(t.crypto.volume) = Occupying(c.volume)
      /\ t.crypto.volume.formatted = c.volume.formatted
      /\ t.crypto.mounted = c.mounted /\ t.crypto.attached = c.attached
      /\ t.crypto.fileExists = c.fileExists /\ t.crypto.isSetup = c.isSetup
      /\ t.crypto.encryptionKey = c.encryptionKey
      /\ Chain(t.crypto) = Chain(c)
  BY <1>2 DEF Alike, SameFiles
<1>5. /\ Occupying(c.volume) = Occupying(s.crypto.volume)
      /\ c.volume.formatted = s.crypto.volume.formatted
      /\ c.fileExists = s.crypto.fileExists /\ c.isSetup = s.crypto.isSetup
      /\ Chain(c) \subseteq Chain(s.crypto) \cup Occupying(s.crypto.volume)
      /\ s.crypto.mounted => c = s.crypto
      /\ ~s.crypto.mounted /\ c.mounted =>
            /\ c.encryptionKey \in Occupying(s.crypto.volume)
            /\ c.attached = (s.crypto.volume.formatted /\ e.fault # "mount")
  BY DEF Mounts, SameFiles, Occupying
<1>6. /\ ReliableMounts => e.fault \notin {"open", "mount", "umount"}
      /\ NoRemovals => ReliableMounts
      /\ NothingFails => ReliableMounts /\ e.fault = "none"
  BY Assumptions
<1>7. /\ s.crypto.mounted \in BOOLEAN /\ s.secretsOpen \in BOOLEAN
      /\ s.opened \in BOOLEAN /\ s.crypto.volume.formatted \in BOOLEAN
      /\ c.mounted \in BOOLEAN
  BY <1>1 DEF Shape, CryptoShape, VolumeShape
<1>8. ReliableMounts => MountInv(t)
  BY <1>2, <1>4, <1>5, <1>6, <1>7 DEF MountInv
<1>9. NoRemovals => RingInv(t)
  BY <1>3, <1>4, <1>5, <1>6, <1>7 DEF RingInv
<1>10. NothingFails => MountedIsOpen(t)
  BY <1>2, <1>3, <1>4, <1>5, <1>6, <1>7 DEF MountedIsOpen
<1>11. NothingFails => KeyMounts(t) /\ SlotsOnFile(t)
  BY <1>3, <1>4, <1>5, <1>6, <1>7 DEF KeyMounts, SlotsOnFile
<1>12. SameFiles(s.crypto, t.crypto)
  BY <1>2 DEF Alike, Mounts, SameFiles
<1> QED
  BY <1>7, <1>12, <1>2, <1>4, <1>5, <1>8, <1>9, <1>10, <1>11 DEF StorageInv, OpenInv, t

LEMMA AuthorizedIsKey ==
  ASSUME NEW s, Shape(s), s.authorized # {}, NEW e, Surrounding(e)
  PROVE  anyAuthorizedKey(s, e) \in AnyKey
<1>1. (CHOOSE k \in s.authorized : TRUE) \in s.authorized
  OBVIOUS
<1> QED
  BY <1>1 DEF anyAuthorizedKey, Surrounding, Shape

LEMMA MountWithStep ==
  ASSUME NEW s, StorageInv(s), s.authorized # {}, NEW e, Surrounding(e)
  PROVE  LET t == mountWithAuthorizedKey(s, e) IN
         /\ StorageInv(t)
         /\ SameKeyring(s, t)
         /\ SameFiles(s.crypto, t.crypto)
         /\ Occupying(t.crypto.volume) = Occupying(s.crypto.volume)
         /\ s.crypto.mounted => t = s
         /\ t.secretsOpen =>
               s.secretsOpen \/ (t.crypto.mounted /\ ~s.crypto.mounted /\ s.opened)
         /\ t.crypto.mounted /\ ~s.crypto.mounted => Occupying(s.crypto.volume) # {}
<1> DEFINE key == anyAuthorizedKey(s, e)
           c   == mountFileSystem(setEncryptionKey(s.crypto, key), e.fault)
           t   == SetCrypto(s, c, e)
<1>1. mountWithAuthorizedKey(s, e) = IF s.crypto.mounted THEN s ELSE t
  BY DEF mountWithAuthorizedKey
<1>2. Shape(s) /\ CryptoShape(s.crypto) /\ key \in AnyKey
  BY AuthorizedIsKey DEF StorageInv, Shape
<1> HIDE DEF key
<1>3. CASE s.crypto.mounted
  BY <1>1, <1>3 DEF SameFiles, SameKeyring, SameKeys, SameFilesOnDisk, SameWaiters
<1>4. CASE ~s.crypto.mounted
  <2>1. Mounts(s.crypto, c, e.fault)
    BY <1>2, <1>4, SetKeyMounts
  <2> HIDE DEF c
  <2>3. c.mounted => Occupying(s.crypto.volume) # {}
    BY <1>4, <2>1 DEF Mounts
  <2>2. /\ StorageInv(t) /\ SameKeyring(s, t)
        /\ SameFiles(s.crypto, t.crypto)
        /\ Occupying(t.crypto.volume) = Occupying(s.crypto.volume)
        /\ t.crypto.mounted = c.mounted
        /\ t.secretsOpen => s.secretsOpen \/ (c.mounted /\ ~s.crypto.mounted /\ s.opened)
    BY <1>2, <2>1, MountStep DEF StorageInv, OpenInv
  <2> QED
    BY <1>1, <1>4, <2>2, <2>3
<1> QED
  BY <1>3, <1>4

\* A key that has a slot is authorized while the file system is mounted.
LEMMA AuthorizeStep ==
  ASSUME NEW s, StorageInv(s), NEW key \in AnyKey,
         NoRemovals /\ s.crypto.fileExists => key \in Occupying(s.crypto.volume),
         NothingFails => s.crypto.mounted
  PROVE  LET t == Authorize(s, key) IN
         /\ StorageInv(t)
         /\ SameFilesOnDisk(s, t)
         /\ SameWaiters(s, t)
<1> DEFINE t == Authorize(s, key)
<1>1. /\ Shape(t)
      /\ t.authorized = s.authorized \cup {key}
      /\ t.crypto = s.crypto /\ t.inserted = s.inserted
      /\ t.opened = s.opened /\ t.secretsOpen = s.secretsOpen
      /\ SameFilesOnDisk(s, t) /\ SameWaiters(s, t)
  BY DEF StorageInv, Shape, Fields, Authorize, SameFilesOnDisk, SameWaiters
<1> HIDE DEF t
<1>2. ReliableMounts => MountInv(t)
  BY <1>1 DEF StorageInv, MountInv
<1>3. NoRemovals => RingInv(t)
  BY <1>1 DEF StorageInv, RingInv
<1>4. NothingFails => OpenInv(t)
  BY <1>1 DEF StorageInv, OpenInv, MountedIsOpen, KeyMounts, SlotsOnFile
<1> QED
  BY <1>1, <1>2, <1>3, <1>4 DEF StorageInv, t

LEMMA FormatStep ==
  ASSUME NEW s, StorageInv(s), NEW key \in AnyKey, NEW e, Surrounding(e)
  PROVE  LET t == formatStorage(s, key, e) IN
         /\ StorageInv(t)
         /\ SameFilesOnDisk(s, t)
<1> DEFINE a == setEncryptionKey(s.crypto, key)
           c == setupFileSystem(a, e.fault)
           b == [s EXCEPT !.authorized = {}]
           t == SetCrypto(b, c, e)
<1>1. /\ Shape(s)
      /\ CryptoShape(s.crypto)
      /\ s.crypto.mounted \in BOOLEAN /\ s.secretsOpen \in BOOLEAN
      /\ s.opened \in BOOLEAN
  BY DEF StorageInv, Shape, CryptoShape
<1>2. formatStorage(s, key, e) =
         IF ~s.crypto.mounted /\ t.crypto.mounted THEN Authorize(t, key) ELSE t
  BY DEF formatStorage
<1>3. /\ Shape(b)
      /\ b.authorized = {} /\ b.crypto = s.crypto /\ b.inserted = s.inserted
      /\ b.opened = s.opened /\ b.secretsOpen = s.secretsOpen
      /\ SameFilesOnDisk(s, b)
  BY DEF StorageInv, Shape, Fields, SameFilesOnDisk
<1> HIDE DEF b
<1>4. /\ CryptoShape(a)
      /\ SameFiles(s.crypto, a)
      /\ a.mounted = s.crypto.mounted /\ a.attached = s.crypto.attached
      /\ a.volume = s.crypto.volume
      /\ s.crypto.mounted => a = s.crypto
      /\ ~s.crypto.mounted => a.encryptionKey = key
  BY <1>1, SetKeyShape
<1> HIDE DEF a
<1>5. SetUp(a, c, e.fault)
  BY <1>4, SetupShape
<1> HIDE DEF c
<1>6. /\ CryptoShape(c)
      /\ a.mounted => c = a
      /\ a.isSetup => c.isSetup
      /\ c.isSetup => a.isSetup \/ c.fileExists
      /\ c.encryptionKey = a.encryptionKey
      /\ \/ /\ SameFiles(a, c) \/ (c.volume = a.volume /\ c.isSetup /\ c.fileExists)
            /\ c.mounted = a.mounted
            /\ Chain(c) = Chain(a)
            /\ a.mounted \/ a.encryptionKey = NoKey \/ e.fault \in {"device", "loop"}
         \/ /\ Occupying(c.volume) = {}
            /\ Chain(c) = {}
            /\ ~c.mounted
         \/ /\ c.isSetup /\ c.fileExists
            /\ e.fault \notin {"open", "umount"} => c.volume.formatted
            /\ e.fault \notin {"open", "umount", "mkdir"} => c.mounted
            /\ Occupying(c.volume) = {a.encryptionKey}
            /\ Chain(c) \subseteq Occupying(c.volume)
            /\ ~a.mounted
            /\ c.mounted =>
                  /\ c.encryptionKey \in Occupying(c.volume)
                  /\ c.attached = (e.fault # "mount")
  BY <1>5 DEF SetUp
<1>7. /\ Shape(t)
      /\ SameKeyring(b, t)
      /\ Alike(c, t.crypto)
      /\ t.secretsOpen = (\/ b.secretsOpen
                          \/ /\ c.mounted /\ ~b.crypto.mounted
                             /\ b.opened /\ e.fault # "database")
  BY <1>3, <1>6, SetCryptoShape
<1> HIDE DEF t
<1>8. /\ t.authorized = {} /\ t.inserted = s.inserted /\ t.opened = s.opened
      /\ SameFilesOnDisk(s, t)
  BY <1>3, <1>7 DEF SameKeyring, SameKeys, SameFilesOnDisk
<1>9. /\ Occupying(t.crypto.volume) = Occupying(c.volume)
      /\ t.crypto.volume.formatted = c.volume.formatted
      /\ t.crypto.mounted = c.mounted /\ t.crypto.attached = c.attached
      /\ t.crypto.fileExists = c.fileExists /\ t.crypto.isSetup = c.isSetup
      /\ t.crypto.encryptionKey = c.encryptionKey
      /\ Chain(t.crypto) = Chain(c)
  BY <1>7 DEF Alike, SameFiles
<1>10. /\ ReliableMounts => e.fault \notin {"open", "mount", "umount"}
       /\ NoRemovals => ReliableMounts
       /\ NothingFails => ReliableMounts /\ e.fault = "none"
  BY Assumptions
<1>11. CASE s.crypto.mounted
  <2>1. c = s.crypto /\ t.secretsOpen = s.secretsOpen
    BY <1>1, <1>3, <1>4, <1>6, <1>7, <1>11
  <2>2. ReliableMounts => MountInv(t)
    BY <1>9, <2>1 DEF StorageInv, MountInv
  <2>3. NoRemovals => RingInv(t)
    BY <1>8, <1>9, <2>1 DEF StorageInv, RingInv
  <2>4. NothingFails => OpenInv(t)
    BY <1>8, <1>9, <2>1 DEF StorageInv, OpenInv, MountedIsOpen, KeyMounts, SlotsOnFile
  <2> QED
    BY <1>2, <1>7, <1>8, <1>11, <2>2, <2>3, <2>4 DEF StorageInv
<1>12. CASE ~s.crypto.mounted
  <2>1. /\ a.encryptionKey = key /\ ~a.mounted
        /\ a.isSetup = s.crypto.isSetup /\ a.fileExists = s.crypto.fileExists
        /\ Chain(a) = Chain(s.crypto)
        /\ Occupying(a.volume) = Occupying(s.crypto.volume)
        /\ a.volume.formatted = s.crypto.volume.formatted
    BY <1>4, <1>12 DEF SameFiles, Chain
  <2>2. CASE /\ SameFiles(a, c) \/ (c.volume = a.volume /\ c.isSetup /\ c.fileExists)
             /\ c.mounted = a.mounted
             /\ Chain(c) = Chain(a)
    <3>1. /\ ~c.mounted
          /\ Occupying(c.volume) = Occupying(s.crypto.volume)
          /\ c.volume.formatted = s.crypto.volume.formatted
          /\ s.crypto.isSetup /\ s.crypto.fileExists => c.isSetup /\ c.fileExists
      BY <2>1, <2>2 DEF SameFiles, Occupying
    <3>2. ReliableMounts => MountInv(t)
      BY <1>1, <1>3, <1>7, <1>9, <1>12, <3>1 DEF StorageInv, MountInv
    <3>3. NoRemovals => RingInv(t)
      BY <1>8, <1>9, <2>1, <2>2, <3>1 DEF StorageInv, RingInv
    <3>4. NothingFails => OpenInv(t)
      BY <1>8, <1>9, <3>1 DEF StorageInv, OpenInv, MountedIsOpen, KeyMounts, SlotsOnFile
    <3> QED
      BY <1>2, <1>7, <1>8, <1>9, <3>1, <3>2, <3>3, <3>4 DEF StorageInv
  <2>3. CASE /\ Occupying(c.volume) = {}
             /\ Chain(c) = {}
             /\ ~c.mounted
    <3>1. ReliableMounts => MountInv(t)
      BY <1>1, <1>3, <1>7, <1>9, <1>12, <2>3 DEF StorageInv, MountInv
    <3>2. NoRemovals => RingInv(t)
      BY <1>8, <1>9, <2>3 DEF RingInv
    <3>3. NothingFails => OpenInv(t)
      BY <1>8, <1>9, <2>3 DEF OpenInv, MountedIsOpen, KeyMounts, SlotsOnFile
    <3> QED
      BY <1>2, <1>7, <1>8, <1>9, <2>3, <3>1, <3>2, <3>3 DEF StorageInv
  <2>4. CASE /\ c.isSetup /\ c.fileExists
             /\ e.fault \notin {"open", "umount"} => c.volume.formatted
             /\ Chain(c) \subseteq Occupying(c.volume)
             /\ c.mounted =>
                   /\ c.encryptionKey \in Occupying(c.volume)
                   /\ c.attached = (e.fault # "mount")
    <3>1. ReliableMounts => MountInv(t)
      BY <1>1, <1>3, <1>7, <1>9, <1>10, <1>12, <2>4 DEF StorageInv, MountInv
    <3>2. NoRemovals => RingInv(t)
      BY <1>8, <1>9, <2>4 DEF RingInv
    <3>3. NothingFails => OpenInv(t)
      BY <1>1, <1>3, <1>7, <1>8, <1>9, <1>10, <1>12, <2>4
         DEF OpenInv, MountedIsOpen, KeyMounts, SlotsOnFile
    <3>4. StorageInv(t)
      BY <1>7, <3>1, <3>2, <3>3 DEF StorageInv
    <3>5. CASE c.mounted
      <4>1. /\ StorageInv(Authorize(t, key))
            /\ SameFilesOnDisk(t, Authorize(t, key))
        BY <1>6, <1>9, <2>1, <2>4, <3>4, <3>5, AuthorizeStep
      <4> QED
        BY <1>2, <1>8, <1>9, <1>12, <3>5, <4>1 DEF SameFilesOnDisk
    <3>6. CASE ~c.mounted
      BY <1>2, <1>8, <1>9, <3>4, <3>6
    <3> QED
      BY <3>5, <3>6
  <2> QED
    BY <1>6, <2>2, <2>3, <2>4
<1> QED
  BY <1>11, <1>12

LEMMA AddKeyStep ==
  ASSUME NEW s, StorageInv(s), s.authorized # {}, NEW key \in AnyKey,
         NEW e, Surrounding(e)
  PROVE  LET t == addKey(s, key, e) IN
         /\ StorageInv(t)
         /\ SameFilesOnDisk(s, t)
<1> DEFINE existing == anyAuthorizedKey(s, e)
           m == mountWithAuthorizedKey(s, e)
           c == addEncryptionKey(m.crypto, key, existing, e.fault)
           a == [m EXCEPT !.crypto = c]
           succeeds == addEncryptionKeySucceeds(m.crypto, key, existing, e.fault)
<1>1. StorageInv(m) /\ SameKeyring(s, m)
  BY MountWithStep
<1>2. addKey(s, key, e) = IF succeeds THEN Authorize(a, key) ELSE m
  BY DEF addKey
<1>3. CryptoShape(m.crypto)
  BY <1>1 DEF StorageInv, Shape
<1> HIDE DEF existing, m
<1>4. CASE succeeds
  <2>1. m.crypto.mounted
    BY <1>4 DEF addEncryptionKeySucceeds
  <2>2. /\ CryptoShape(c)
        /\ c.isSetup = m.crypto.isSetup /\ c.fileExists = m.crypto.fileExists
        /\ c.mounted = m.crypto.mounted /\ c.attached = m.crypto.attached
        /\ c.encryptionKey = m.crypto.encryptionKey
        /\ c.volume.formatted = m.crypto.volume.formatted
        /\ Occupying(m.crypto.volume) \subseteq Occupying(c.volume)
        /\ Chain(c) \subseteq Chain(m.crypto) \cup Occupying(c.volume)
        /\ Occupying(c.volume) # {} => Occupying(m.crypto.volume) # {}
        /\ key \in Occupying(c.volume)
    BY <1>3, <1>4, AddSlotShape
  <2> HIDE DEF c, succeeds
  <2>3. /\ Shape(a)
        /\ a.crypto = c /\ a.authorized = m.authorized /\ a.inserted = m.inserted
        /\ a.opened = m.opened /\ a.secretsOpen = m.secretsOpen
        /\ SameFilesOnDisk(m, a)
    BY <1>1, <2>2 DEF StorageInv, Shape, Fields, SameFilesOnDisk
  <2> HIDE DEF a
  <2>4. ReliableMounts => MountInv(a)
    BY <1>1, <2>2, <2>3 DEF StorageInv, MountInv
  <2>5. NoRemovals => RingInv(a)
    BY <1>1, <2>2, <2>3 DEF StorageInv, RingInv
  <2>6. NothingFails => OpenInv(a)
    BY <1>1, <2>1, <2>2, <2>3
       DEF StorageInv, OpenInv, MountedIsOpen, KeyMounts, SlotsOnFile
  <2>7. StorageInv(a)
    BY <2>3, <2>4, <2>5, <2>6 DEF StorageInv
  <2>8. StorageInv(Authorize(a, key)) /\ SameFilesOnDisk(a, Authorize(a, key))
    BY <2>1, <2>2, <2>3, <2>7, AuthorizeStep
  <2> QED
    BY <1>1, <1>2, <1>4, <2>3, <2>8 DEF SameKeyring, SameKeys, SameFilesOnDisk
<1>5. CASE ~succeeds
  BY <1>1, <1>2, <1>5 DEF SameKeyring, SameKeys
<1> QED
  BY <1>4, <1>5

LEMMA AuthorizeKeyStep ==
  ASSUME NEW s, StorageInv(s), NEW key \in AnyKey, NEW format,
         NEW e, Surrounding(e)
  PROVE  LET t == authorizeKey(s, key, format, e) IN
         /\ StorageInv(t)
         /\ SameFilesOnDisk(s, t)
<1>1. CASE key \notin s.authorized /\ (format \/ ~s.crypto.isSetup)
  BY <1>1, FormatStep DEF authorizeKey
<1>2. CASE /\ key \notin s.authorized /\ ~(format \/ ~s.crypto.isSetup)
           /\ s.authorized # {}
  BY <1>2, AddKeyStep DEF authorizeKey
<1>3. CASE \/ key \in s.authorized
           \/ /\ ~(format \/ ~s.crypto.isSetup)
              /\ s.authorized = {}
  BY <1>3 DEF authorizeKey, SameFilesOnDisk
<1> QED
  BY <1>1, <1>2, <1>3

\* Everything that waits is answered.
LEMMA QueriedStep ==
  ASSUME NEW s, StorageInv(s), NEW key \in AnyKey, NEW result, NEW e, Surrounding(e)
  PROVE  LET t == onKeyAuthorizationQueried(s, key, result, e) IN
         /\ StorageInv(t)
         /\ SameFilesOnDisk(s, t)
         /\ t.notifiers = {}
<1> DEFINE a == IF result = "Denied" THEN s
                ELSE authorizeKey(s, key, result = "Exclusive", e)
           t == [a EXCEPT !.notifiers = {}]
<1>1. StorageInv(a) /\ SameFilesOnDisk(s, a)
  BY AuthorizeKeyStep DEF SameFilesOnDisk
<1>2. onKeyAuthorizationQueried(s, key, result, e) = t
  BY DEF onKeyAuthorizationQueried, replyToSecureStorageEventNotifiers
<1> HIDE DEF a
<1>3. /\ Shape(t) /\ t.notifiers = {}
      /\ t.crypto = a.crypto /\ t.authorized = a.authorized /\ t.inserted = a.inserted
      /\ t.opened = a.opened /\ t.secretsOpen = a.secretsOpen
      /\ SameFilesOnDisk(a, t)
  BY <1>1 DEF StorageInv, Shape, Fields, SameFilesOnDisk
<1> HIDE DEF t
<1> QED
  BY <1>1, <1>2, <1>3 DEF StorageInv, MountInv, RingInv, OpenInv, MountedIsOpen,
                          KeyMounts, SlotsOnFile, SameFilesOnDisk

\* No core is left waiting for an answer that nobody owes.
Answered(s) == s.notifiers # {} => s.queries # {}

LEMMA QueryStep ==
  ASSUME NEW s, StorageInv(s), NEW key \in AnyKey, NEW e, Surrounding(e)
  PROVE  LET t == queryKeyAuthorization(s, key, e) IN
         /\ StorageInv(t)
         /\ SameFilesOnDisk(s, t)
         /\ Answered(t)
<1> DEFINE t == [s EXCEPT !.queries = @ \cup {key}]
<1>1. CASE s.authorizer = "default"
  BY <1>1, QueriedStep DEF queryKeyAuthorization, Answered
<1>2. CASE s.authorizer # "default"
  <2>1. /\ Shape(t) /\ t.queries # {}
        /\ t.crypto = s.crypto /\ t.authorized = s.authorized /\ t.inserted = s.inserted
        /\ t.opened = s.opened /\ t.secretsOpen = s.secretsOpen
        /\ SameFilesOnDisk(s, t)
    BY DEF StorageInv, Shape, Fields, SameFilesOnDisk
  <2>2. queryKeyAuthorization(s, key, e) = t
    BY <1>2 DEF queryKeyAuthorization
  <2> HIDE DEF t
  <2> QED
    BY <2>1, <2>2 DEF StorageInv, MountInv, RingInv, OpenInv, MountedIsOpen,
                      KeyMounts, SlotsOnFile, Answered
<1> QED
  BY <1>1, <1>2

LEMMA AskStep ==
  ASSUME NEW s, StorageInv(s), Answered(s), NEW key \in AnyKey, NEW e, Surrounding(e)
  PROVE  LET t == AskUnlessAuthorized(s, key, e) IN
         /\ StorageInv(t)
         /\ SameFilesOnDisk(s, t)
         /\ Answered(t)
  BY QueryStep DEF AskUnlessAuthorized, SameFilesOnDisk

\* Between its insertion and its recognition a key may be in use and the file
\* system not mounted.
LEMMA RecognizeStep ==
  ASSUME NEW s, Shape(s), NEW key \in Keys, NEW e, Surrounding(e),
         ReliableMounts => MountInv(s),
         NoRemovals => RingInv(s),
         NothingFails => /\ MountedIsOpen(s)
                         /\ SlotsOnFile(s)
                         /\ \/ key \in Occupying(s.crypto.volume)
                            \/ KeyMounts(s)
  PROVE  LET t == recognizeKey(s, key, e) IN
         /\ StorageInv(t)
         /\ SameFilesOnDisk(s, t)
         /\ SameWaiters(s, t)
<1> DEFINE c == tryEncryptionKey(s.crypto, key, e.fault)
           t == SetCrypto(s, c, e)
           recognized == encryptionKeyInUse(s.crypto, key, e.fault)
<1>1. key \in AnyKey /\ key # NoKey /\ CryptoShape(s.crypto)
  BY KeyAssumption DEF AnyKey, Shape
<1>2. recognizeKey(s, key, e) = IF ~s.crypto.isSetup THEN s
                                ELSE IF recognized THEN Authorize(t, key) ELSE t
  BY DEF recognizeKey
<1>3. /\ ReliableMounts => e.fault \notin {"open", "mount", "umount"}
      /\ NoRemovals => ReliableMounts
      /\ NothingFails => ReliableMounts /\ e.fault = "none"
  BY Assumptions
<1>4. CASE ~s.crypto.isSetup
  <2>1. NothingFails => KeyMounts(s)
    BY <1>4 DEF SlotsOnFile, KeyMounts
  <2> QED
    BY <1>2, <1>4, <2>1 DEF StorageInv, OpenInv, SameFilesOnDisk, SameWaiters
<1>5. CASE s.crypto.isSetup
  <2>1. /\ Mounts(s.crypto, c, e.fault)
        /\ ~s.crypto.mounted /\ c.mounted => key \in Occupying(s.crypto.volume)
    BY <1>1, TryMounts
  <2>2. NothingFails => c.mounted \/ KeyMounts(s)
    BY <1>1, <1>3, KeyWithSlotMounts
  <2>3. recognized = IF s.crypto.mounted
                     THEN s.crypto.encryptionKey = key \/ keychainContainsKey(s.crypto, key)
                     ELSE c.mounted
    BY DEF encryptionKeyInUse
  <2> HIDE DEF c, recognized
  <2>4. /\ StorageInv(t)
        /\ SameKeyring(s, t)
        /\ t.crypto.mounted = c.mounted
        /\ Occupying(t.crypto.volume) = Occupying(s.crypto.volume)
    BY <2>1, <2>2, MountStep
  <2>5. t.crypto.fileExists = s.crypto.fileExists
    <3>1. CryptoShape(c)
      BY <2>1 DEF Mounts
    <3>2. Alike(c, t.crypto)
      BY <3>1, SetCryptoShape
    <3> QED
      BY <2>1, <3>2 DEF Alike, Mounts, SameFiles
  <2> HIDE DEF t
  <2>6. CASE ~recognized
    BY <1>2, <1>5, <2>4, <2>6 DEF SameKeyring, SameKeys
  <2>7. CASE recognized
    <3>1. c.mounted
      BY <2>1, <2>3, <2>7 DEF Mounts
    <3>2. ASSUME NoRemovals, s.crypto.fileExists
          PROVE  key \in Occupying(s.crypto.volume)
      <4>1. CASE ~s.crypto.mounted
        BY <2>1, <3>1, <4>1
      <4>2. CASE s.crypto.mounted
        <5>1. s.crypto.attached /\ RingInv(s)
          BY <1>3, <3>2, <4>2 DEF MountInv
        <5>2. keychainContainsKey(s.crypto, key) => key \in Chain(s.crypto)
          BY <5>1 DEF keychainContainsKey, keychain, Chain
        <5> QED
          BY <2>3, <2>7, <3>2, <4>2, <5>1, <5>2 DEF RingInv
      <4> QED
        BY <4>1, <4>2
    <3>3. /\ StorageInv(Authorize(t, key))
          /\ SameFilesOnDisk(t, Authorize(t, key))
          /\ SameWaiters(t, Authorize(t, key))
      BY <1>1, <2>4, <2>5, <3>1, <3>2, AuthorizeStep
    <3> QED
      BY <1>2, <1>5, <2>4, <2>7, <3>3
         DEF SameKeyring, SameKeys, SameFilesOnDisk, SameWaiters
  <2> QED
    BY <2>6, <2>7
<1> QED
  BY <1>4, <1>5, Zenon DEF Shape, CryptoShape

LEMMA InsertedStep ==
  ASSUME NEW s, StorageInv(s), Answered(s), NEW manager, NEW key \in AnyKey,
         NEW e, Surrounding(e)
  PROVE  LET t == onKeyInserted(s, manager, key, e) IN
         /\ StorageInv(t)
         /\ SameFilesOnDisk(s, t)
         /\ Answered(t)
<1> DEFINE a == IF isReady(s) THEN s
                ELSE [s EXCEPT !.readyManagers = @ \cup {manager}]
           b == [a EXCEPT !.inserted = @ \cup {key}]
           c == recognizeKey(b, key, e)
           t == AskUnlessAuthorized(c, key, e)
<1>1. /\ Shape(a)
      /\ a.crypto = s.crypto /\ a.authorized = s.authorized /\ a.inserted = s.inserted
      /\ a.opened = s.opened /\ a.secretsOpen = s.secretsOpen
      /\ SameFilesOnDisk(s, a) /\ SameWaiters(s, a)
  BY DEF StorageInv, Shape, Fields, SameFilesOnDisk, SameWaiters
<1>2. onKeyInserted(s, manager, key, e) = IF key = NoKey THEN a ELSE t
  BY DEF onKeyInserted
<1> HIDE DEF a
<1>3. StorageInv(a) /\ Answered(a)
  BY <1>1 DEF StorageInv, MountInv, RingInv, OpenInv, MountedIsOpen, KeyMounts,
              SlotsOnFile, Answered, SameWaiters
<1>4. /\ Shape(b)
      /\ b.crypto = a.crypto /\ b.authorized = a.authorized
      /\ b.inserted = a.inserted \cup {key}
      /\ b.opened = a.opened /\ b.secretsOpen = a.secretsOpen
      /\ SameFilesOnDisk(a, b) /\ SameWaiters(a, b)
  BY <1>1 DEF Shape, Fields, SameFilesOnDisk, SameWaiters
<1> HIDE DEF b
<1>5. CASE key = NoKey
  BY <1>1, <1>2, <1>3, <1>5
<1>6. CASE key # NoKey
  <2>1. key \in Keys
    BY <1>6 DEF AnyKey
  <2>2. ReliableMounts => MountInv(b)
    BY <1>3, <1>4 DEF StorageInv, MountInv
  <2>3. NoRemovals => RingInv(b)
    BY <1>3, <1>4 DEF StorageInv, RingInv
  <2>4. NothingFails => /\ MountedIsOpen(b)
                        /\ SlotsOnFile(b)
                        /\ \/ key \in Occupying(b.crypto.volume)
                           \/ KeyMounts(b)
    BY <1>3, <1>4 DEF StorageInv, OpenInv, MountedIsOpen, KeyMounts, SlotsOnFile
  <2>5. /\ StorageInv(c)
        /\ SameFilesOnDisk(b, c)
        /\ SameWaiters(b, c)
    BY <1>4, <2>1, <2>2, <2>3, <2>4, RecognizeStep
  <2>6. Answered(c)
    BY <1>3, <1>4, <2>5 DEF Answered, SameWaiters
  <2>7. /\ StorageInv(t)
        /\ SameFilesOnDisk(c, t)
        /\ Answered(t)
    BY <2>5, <2>6, AskStep
  <2> QED
    BY <1>1, <1>2, <1>4, <1>6, <2>5, <2>7 DEF SameFilesOnDisk
<1> QED
  BY <1>5, <1>6

\* The storage is closed when no key in use could have it open.
LEMMA CloseStep ==
  ASSUME NEW s, StorageInv(s), NothingFails => s.inserted \cap s.authorized = {},
         NEW e
  PROVE  LET t == closeSecretsDB(s, e) IN
         /\ StorageInv(t)
         /\ SameKeyring(s, t)
<1> DEFINE c == unmountFileSystem(s.crypto, e.fault)
           t == [s EXCEPT !.secretsOpen = FALSE, !.crypto = c]
<1>1. /\ CryptoShape(c)
      /\ SameFiles(s.crypto, c)
      /\ c.mounted = FALSE
      /\ c.volume = s.crypto.volume
  BY UnmountShape DEF StorageInv, Shape
<1>2. closeSecretsDB(s, e) = t
  BY DEF closeSecretsDB
<1> HIDE DEF c
<1>3. /\ Shape(t)
      /\ t.crypto = c /\ t.secretsOpen = FALSE
      /\ SameKeyring(s, t)
  BY <1>1 DEF StorageInv, Shape, Fields, SameKeyring, SameKeys, SameFilesOnDisk, SameWaiters
<1> HIDE DEF t
<1>4. ReliableMounts => MountInv(t)
  BY <1>1, <1>3 DEF StorageInv, MountInv
<1>5. NoRemovals => RingInv(t)
  BY <1>1, <1>3 DEF StorageInv, RingInv, SameFiles, SameKeyring, SameKeys, Chain
<1>6. NothingFails => OpenInv(t)
  BY <1>1, <1>3 DEF StorageInv, OpenInv, MountedIsOpen, KeyMounts, SlotsOnFile,
                    SameFiles, SameKeyring, SameKeys
<1> QED
  BY <1>2, <1>3, <1>4, <1>5, <1>6 DEF StorageInv

LEMMA DisabledStep ==
  ASSUME NEW s, StorageInv(s), NEW key, NEW e
  PROVE  LET t == onKeyDisabled(s, key, e) IN
         /\ StorageInv(t)
         /\ SameFilesOnDisk(s, t)
         /\ SameWaiters(s, t)
<1> DEFINE a == [s EXCEPT !.inserted = @ \ {key}]
           b == [a EXCEPT !.phase = "stopped"]
           c == closeSecretsDB(a, e)
<1>1. /\ Shape(a)
      /\ a.crypto = s.crypto /\ a.authorized = s.authorized
      /\ a.inserted \subseteq s.inserted
      /\ a.opened = s.opened /\ a.secretsOpen = s.secretsOpen
      /\ SameFilesOnDisk(s, a) /\ SameWaiters(s, a)
  BY DEF StorageInv, Shape, Fields, SameFilesOnDisk, SameWaiters
<1>2. \/ onKeyDisabled(s, key, e) = a
      \/ onKeyDisabled(s, key, e) = b
      \/ onKeyDisabled(s, key, e) = c /\ a.inserted \cap a.authorized = {}
  BY DEF onKeyDisabled, onLastAuthorizedKeyRemoved
<1> HIDE DEF a
<1>3. StorageInv(a)
  BY <1>1 DEF StorageInv, MountInv, RingInv, OpenInv, MountedIsOpen, KeyMounts,
              SlotsOnFile
<1>4. /\ Shape(b)
      /\ b.crypto = a.crypto /\ b.authorized = a.authorized /\ b.inserted = a.inserted
      /\ b.opened = a.opened /\ b.secretsOpen = a.secretsOpen
      /\ SameFilesOnDisk(a, b) /\ SameWaiters(a, b)
  BY <1>1 DEF Shape, Fields, SameFilesOnDisk, SameWaiters
<1> HIDE DEF b
<1>5. StorageInv(b)
  BY <1>3, <1>4 DEF StorageInv, MountInv, RingInv, OpenInv, MountedIsOpen, KeyMounts,
                    SlotsOnFile
<1>6. a.inserted \cap a.authorized = {} => StorageInv(c) /\ SameKeyring(a, c)
  BY <1>3, CloseStep
<1> QED
  BY <1>1, <1>2, <1>3, <1>4, <1>5, <1>6
     DEF SameKeyring, SameKeys, SameFilesOnDisk, SameWaiters

LEMMA RevokeStep ==
  ASSUME NEW s, StorageInv(s), "remove" \in Events, NEW key, NEW e, Surrounding(e)
  PROVE  LET t == revokeKeyAuthorization(s, key, e) IN
         /\ StorageInv(t)
         /\ SameFilesOnDisk(s, t)
         /\ SameWaiters(s, t)
<1> DEFINE m == mountWithAuthorizedKey(s, e)
           c == removeEncryptionKey(m.crypto, key, e.fault)
           t == [m EXCEPT !.crypto = c, !.authorized = @ \ {key},
                          !.revoked = @ \cup {key}]
<1>1. \/ revokeKeyAuthorization(s, key, e) = s
      \/ revokeKeyAuthorization(s, key, e) = m /\ s.authorized # {}
      \/ /\ revokeKeyAuthorization(s, key, e) = t
         /\ s.authorized # {} /\ m.crypto.mounted
  BY DEF revokeKeyAuthorization, removeEncryptionKeySucceeds
<1>2. s.authorized # {} => StorageInv(m) /\ SameKeyring(s, m)
  BY MountWithStep
<1> HIDE DEF m
<1>3. CASE revokeKeyAuthorization(s, key, e) = s
  BY <1>3 DEF SameFilesOnDisk, SameWaiters
<1>4. CASE revokeKeyAuthorization(s, key, e) = m /\ s.authorized # {}
  BY <1>2, <1>4 DEF SameKeyring, SameKeys
<1>5. CASE /\ revokeKeyAuthorization(s, key, e) = t
           /\ s.authorized # {} /\ m.crypto.mounted
  <2>1. CryptoShape(m.crypto)
    BY <1>2, <1>5 DEF StorageInv, Shape
  <2>2. /\ CryptoShape(c)
        /\ c.isSetup = m.crypto.isSetup /\ c.fileExists = m.crypto.fileExists
        /\ c.mounted = m.crypto.mounted /\ c.attached = m.crypto.attached
        /\ c.volume.formatted = m.crypto.volume.formatted
        /\ Occupying(c.volume) \subseteq Occupying(m.crypto.volume)
    BY <2>1, RemoveSlotShape
  <2> HIDE DEF c
  <2>3. /\ Shape(t)
        /\ t.crypto = c /\ t.authorized \subseteq m.authorized
        /\ t.inserted = m.inserted
        /\ t.opened = m.opened /\ t.secretsOpen = m.secretsOpen
        /\ SameFilesOnDisk(m, t) /\ SameWaiters(m, t)
    BY <1>2, <1>5, <2>2 DEF StorageInv, Shape, Fields, SameFilesOnDisk, SameWaiters
  <2> HIDE DEF t
  <2>4. ReliableMounts => MountInv(t)
    BY <1>2, <1>5, <2>2, <2>3 DEF StorageInv, MountInv
  <2>5. ~NoRemovals
    BY DEF NoRemovals
  <2>6. NothingFails => OpenInv(t)
    BY <1>2, <1>5, <2>2, <2>3
       DEF StorageInv, OpenInv, MountedIsOpen, KeyMounts, SlotsOnFile
  <2> QED
    BY <1>2, <1>5, <2>3, <2>4, <2>5, <2>6
       DEF StorageInv, SameKeyring, SameKeys, SameFilesOnDisk, SameWaiters
<1> QED
  BY <1>1, <1>3, <1>4, <1>5

LEMMA RemovedStep ==
  ASSUME NEW s, StorageInv(s), "remove" \in Events, NEW key, NEW e, Surrounding(e)
  PROVE  LET t == onKeyRemoved(s, key, e) IN
         /\ StorageInv(t)
         /\ SameFilesOnDisk(s, t)
         /\ SameWaiters(s, t)
<1> DEFINE a == onKeyDisabled(s, key, e)
           b == revokeKeyAuthorization(a, key, e)
<1>1. StorageInv(a) /\ SameFilesOnDisk(s, a) /\ SameWaiters(s, a)
  BY DisabledStep
<1>2. StorageInv(b) /\ SameFilesOnDisk(a, b) /\ SameWaiters(a, b)
  BY <1>1, RevokeStep
<1>3. onKeyRemoved(s, key, e) = a \/ onKeyRemoved(s, key, e) = b
  BY DEF onKeyRemoved
<1> QED
  BY <1>1, <1>2, <1>3 DEF SameFilesOnDisk, SameWaiters

LEMMA NotAvailableStep ==
  ASSUME NEW s, StorageInv(s), NEW sender, NEW e, Surrounding(e)
  PROVE  LET t == secureStorageNotAvailable(s, sender, e) IN
         /\ StorageInv(t)
         /\ SameFilesOnDisk(s, t)
         /\ Answered(t)
<1> DEFINE a == [s EXCEPT !.notifiers = @ \cup {sender}]
           b == [a EXCEPT !.notifiers = {}]
           c == queryKeyAuthorization(a, NoKey, e)
<1>1. /\ Shape(a)
      /\ a.crypto = s.crypto /\ a.authorized = s.authorized /\ a.inserted = s.inserted
      /\ a.opened = s.opened /\ a.secretsOpen = s.secretsOpen
      /\ SameFilesOnDisk(s, a)
  BY DEF StorageInv, Shape, Fields, SameFilesOnDisk
<1>2. \/ secureStorageNotAvailable(s, sender, e) = b
      \/ secureStorageNotAvailable(s, sender, e) = c
  BY DEF secureStorageNotAvailable, replyToSecureStorageEventNotifiers
<1> HIDE DEF a
<1>3. StorageInv(a)
  BY <1>1 DEF StorageInv, MountInv, RingInv, OpenInv, MountedIsOpen, KeyMounts,
              SlotsOnFile
<1>4. /\ Shape(b) /\ b.notifiers = {}
      /\ b.crypto = a.crypto /\ b.authorized = a.authorized /\ b.inserted = a.inserted
      /\ b.opened = a.opened /\ b.secretsOpen = a.secretsOpen
      /\ SameFilesOnDisk(a, b)
  BY <1>1 DEF Shape, Fields, SameFilesOnDisk
<1> HIDE DEF b
<1>5. StorageInv(b) /\ Answered(b)
  BY <1>3, <1>4 DEF StorageInv, MountInv, RingInv, OpenInv, MountedIsOpen, KeyMounts,
                    SlotsOnFile, Answered
<1>6. StorageInv(c) /\ SameFilesOnDisk(a, c) /\ Answered(c)
  BY <1>3, QueryStep DEF AnyKey
<1> QED
  BY <1>1, <1>2, <1>4, <1>5, <1>6 DEF SameFilesOnDisk

-----------------------------------------------------------------------------
(* SignonDaemon: the system is opened and closed, the files are replaced. *)

LEMMA OpenSystemStep ==
  ASSUME NEW s, StorageInv(s), NEW e, Surrounding(e)
  PROVE  LET t == openCredentialsSystem(s, e) IN
         /\ StorageInv(t)
         /\ SameWaiters(s, t)
         /\ t.bak = s.bak
         /\ t.metadata \in {s.metadata, New}
         /\ s.metadata = Stored => t.metadata = Stored
<1> DEFINE a == [s EXCEPT !.dbExists = TRUE]
           b == [s EXCEPT !.dbExists = TRUE, !.opened = TRUE,
                          !.metadata = IF @ = Absent THEN New ELSE @]
           m == mountFileSystem(b.crypto, e.fault)
           o == openSecretsDB(b, e)
           c == SetCrypto(b, m, e)
<1>1. /\ Shape(a)
      /\ a.crypto = s.crypto /\ a.authorized = s.authorized /\ a.inserted = s.inserted
      /\ a.opened = s.opened /\ a.secretsOpen = s.secretsOpen
      /\ SameFilesOnDisk(s, a) /\ SameWaiters(s, a)
  BY DEF StorageInv, Shape, Fields, SameFilesOnDisk, SameWaiters
<1>2. /\ Shape(b)
      /\ b.crypto = s.crypto /\ b.authorized = s.authorized /\ b.inserted = s.inserted
      /\ b.opened = TRUE /\ b.secretsOpen = s.secretsOpen
      /\ b.bak = s.bak /\ SameWaiters(s, b)
      /\ b.metadata = IF s.metadata = Absent THEN New ELSE s.metadata
  BY DEF StorageInv, Shape, Fields, SameWaiters
<1>3. openCredentialsSystem(s, e) =
         IF e.fault = "metadata" THEN a
         ELSE IF b.crypto.mounted THEN o ELSE c
  BY DEF openCredentialsSystem
<1> HIDE DEF a, b
<1>4. /\ b.metadata \in {s.metadata, New}
      /\ s.metadata = Stored => b.metadata = Stored
  BY <1>2 DEF Stored, Absent, New
<1>5. CASE e.fault = "metadata"
  BY <1>1, <1>3, <1>5 DEF StorageInv, MountInv, RingInv, OpenInv, MountedIsOpen,
                          KeyMounts, SlotsOnFile, SameFilesOnDisk
<1>6. CASE e.fault # "metadata" /\ b.crypto.mounted
  <2>1. /\ Shape(o)
        /\ SameKeyring(b, o)
        /\ Alike(b.crypto, o.crypto)
        /\ o.secretsOpen = (b.secretsOpen \/ (b.crypto.mounted /\ e.fault # "database"))
    BY <1>2, OpenSecretsShape
  <2> HIDE DEF o
  <2>2. ReliableMounts => MountInv(o)
    BY <1>2, <1>6, <2>1 DEF StorageInv, MountInv, Alike, SameFiles
  <2>3. NoRemovals => RingInv(o)
    BY <1>2, <2>1 DEF StorageInv, RingInv, Alike, SameFiles, SameKeyring, SameKeys
  <2>4. NothingFails => OpenInv(o)
    <3>1. NothingFails => e.fault = "none"
      BY Assumptions
    <3> QED
      BY <1>2, <1>6, <2>1, <3>1
         DEF StorageInv, OpenInv, MountedIsOpen, KeyMounts, SlotsOnFile, Alike,
             SameFiles, SameKeyring, SameKeys
  <2> QED
    BY <1>2, <1>3, <1>4, <1>6, <2>1, <2>2, <2>3, <2>4
       DEF StorageInv, SameKeyring, SameKeys, SameFilesOnDisk, SameWaiters
<1>7. CASE e.fault # "metadata" /\ ~b.crypto.mounted
  <2>1. Mounts(b.crypto, m, e.fault)
    BY <1>2, MountMounts DEF Shape
  <2> HIDE DEF m
  <2>2. ReliableMounts => MountInv(b)
    BY <1>2 DEF StorageInv, MountInv
  <2>3. NoRemovals => RingInv(b)
    BY <1>2 DEF StorageInv, RingInv
  <2>4. NothingFails => MountedIsOpen(b) /\ SlotsOnFile(b) /\ KeyMounts(b)
    BY <1>2, <1>7 DEF StorageInv, OpenInv, MountedIsOpen, KeyMounts, SlotsOnFile
  <2>5. StorageInv(c) /\ SameKeyring(b, c)
    BY <1>2, <2>1, <2>2, <2>3, <2>4, MountStep
  <2> QED
    BY <1>2, <1>3, <1>4, <1>7, <2>5 DEF SameKeyring, SameKeys, SameFilesOnDisk, SameWaiters
<1> QED
  BY <1>5, <1>6, <1>7

LEMMA CloseSystemStep ==
  ASSUME NEW s, StorageInv(s), ~NothingFails, NEW e
  PROVE  LET t == closeCredentialsSystem(s, e) IN
         /\ StorageInv(t)
         /\ SameFilesOnDisk(s, t)
         /\ SameWaiters(s, t)
<1> DEFINE a == closeSecretsDB(s, e)
           b == IF s.secretsOpen THEN a ELSE s
           t == [b EXCEPT !.dbExists = FALSE, !.opened = FALSE]
<1>1. StorageInv(b) /\ SameFilesOnDisk(s, b) /\ SameWaiters(s, b)
  BY CloseStep DEF SameKeyring, SameKeys, SameFilesOnDisk, SameWaiters
<1>2. closeCredentialsSystem(s, e) \in {s, t}
  BY DEF closeCredentialsSystem
<1> HIDE DEF b
<1>3. /\ Shape(t)
      /\ t.crypto = b.crypto /\ t.authorized = b.authorized /\ t.inserted = b.inserted
      /\ t.secretsOpen = b.secretsOpen
      /\ SameFilesOnDisk(b, t) /\ SameWaiters(b, t)
  BY <1>1 DEF StorageInv, Shape, Fields, SameFilesOnDisk, SameWaiters
<1> HIDE DEF t
<1>4. StorageInv(t)
  BY <1>1, <1>3 DEF StorageInv, MountInv, RingInv
<1> QED
  BY <1>1, <1>2, <1>3, <1>4 DEF SameFilesOnDisk, SameWaiters

LEMMA RestartedStep ==
  ASSUME NEW s, StorageInv(s)
  PROVE  LET t == restarted(s) IN
         /\ StorageInv(t)
         /\ SameFilesOnDisk(s, t)
         /\ t.notifiers = {}
<1> DEFINE c == CryptoRestart(s.crypto)
           t == restarted(s)
<1>1. /\ CryptoShape(c)
      /\ c.mounted = FALSE
      /\ c.volume = s.crypto.volume
      /\ c.fileExists = s.crypto.fileExists
      /\ c.isSetup = s.crypto.fileExists
  BY RestartShape DEF StorageInv, Shape
<1> HIDE DEF c
<1>2. /\ Shape(t)
      /\ t.crypto = c /\ t.authorized = {} /\ t.inserted = {}
      /\ t.opened = FALSE /\ t.secretsOpen = FALSE /\ t.notifiers = {}
      /\ SameFilesOnDisk(s, t)
  BY <1>1 DEF StorageInv, Shape, Fields, SameFilesOnDisk, restarted, c
<1> HIDE DEF t
<1>3. ReliableMounts => MountInv(t)
  BY <1>1, <1>2 DEF StorageInv, MountInv
<1>4. NoRemovals => RingInv(t)
  BY <1>1, <1>2 DEF StorageInv, RingInv, Chain
<1>5. NothingFails => OpenInv(t)
  BY <1>1, <1>2 DEF StorageInv, OpenInv, MountedIsOpen, KeyMounts, SlotsOnFile
<1> QED
  BY <1>2, <1>3, <1>4, <1>5 DEF StorageInv, t

DiskShape(s) == s.metadata \in Contents /\ s.bak \in [Names -> Contents]

LEMMA FilesShape ==
  ASSUME NEW s, DiskShape(s), backup \in [Names -> Contents]
  PROVE  /\ FileShape(Files(s))
         /\ Files(s).live[Metadata] = s.metadata
         /\ Files(s).live[Container] = IF s.crypto.fileExists THEN Stored ELSE Absent
         /\ Files(s).bak = s.bak /\ Files(s).copy = backup
<1> DEFINE live == [name \in Names |->
               CASE name = Metadata  -> s.metadata
                 [] name = Container -> IF s.crypto.fileExists THEN Stored ELSE Absent]
<1>1. /\ live \in [Names -> Contents]
      /\ live[Metadata] = s.metadata
      /\ live[Container] = IF s.crypto.fileExists THEN Stored ELSE Absent
  BY DEF DiskShape, Names, Metadata, Container, Contents
<1>2. Files(s) = [live |-> live, bak |-> s.bak, copy |-> backup]
  BY DEF Files
<1> HIDE DEF live
<1> QED
  BY <1>1, <1>2 DEF FileShape, FileFields, DiskShape

\* The container is where it was, or gone, and its volume with it.
LEMMA WithFilesStep ==
  ASSUME NEW s, StorageInv(s), ~NothingFails, NEW d, FileShape(d),
         d.live[Container] # Absent => s.crypto.fileExists
  PROVE  LET t == WithFiles(s, d) IN
         /\ StorageInv(t)
         /\ SameWaiters(s, t)
         /\ t.metadata = d.live[Metadata]
         /\ t.bak = d.bak
         /\ DiskShape(t)
<1> DEFINE there == d.live[Container] # Absent
           c == [s.crypto EXCEPT !.fileExists = there,
                                 !.volume = IF there THEN @ ELSE EmptyVolume]
           t == [s EXCEPT !.metadata = d.live[Metadata], !.bak = d.bak, !.crypto = c]
<1>1. WithFiles(s, d) = t
  BY DEF WithFiles, StorageInv, Shape, Fields, CryptoShape, CryptoFields
<1>2. /\ CryptoShape(c)
      /\ c.fileExists = there /\ c.mounted = s.crypto.mounted
      /\ c.attached = s.crypto.attached /\ c.encryptionKey = s.crypto.encryptionKey
      /\ c.volume = IF there THEN s.crypto.volume ELSE EmptyVolume
  BY EmptyShape DEF StorageInv, Shape, CryptoShape, CryptoFields
<1> HIDE DEF c
<1>3. /\ Shape(t)
      /\ t.crypto = c /\ t.authorized = s.authorized /\ t.inserted = s.inserted
      /\ t.opened = s.opened /\ t.secretsOpen = s.secretsOpen
      /\ SameWaiters(s, t)
      /\ t.metadata = d.live[Metadata] /\ t.bak = d.bak
  BY <1>2 DEF StorageInv, Shape, Fields, SameWaiters
<1>4. DiskShape(t)
  BY <1>3 DEF FileShape, DiskShape, Names
<1> HIDE DEF t
<1>5. Occupying(EmptyVolume) = {} /\ Range(EmptyVolume.keychain) = {}
  BY EmptyShape
<1>6. ReliableMounts => MountInv(t)
  BY <1>2, <1>3, <1>5 DEF StorageInv, MountInv
<1>7. NoRemovals => RingInv(t)
  BY <1>2, <1>3, <1>5 DEF StorageInv, RingInv, Chain
<1> QED
  BY <1>1, <1>3, <1>4, <1>6, <1>7 DEF StorageInv

\* What was stored is in the ".bak" file, or in place and in every backup.
MetadataKept(s, copies) ==
    \/ s.bak[Metadata] = Stored
    \/ /\ s.metadata = Stored
       /\ copies = NoFiles \/ copies[Metadata] = Stored

FilesKept(s, copies) ==
    /\ DiskShape(s)
    /\ copies \in [Names -> Contents]
    /\ MetadataKept(s, copies)

LEMMA SameFilesKept ==
  ASSUME NEW s, NEW t, NEW copies, FilesKept(s, copies), SameFilesOnDisk(s, t)
  PROVE  FilesKept(t, copies)
  BY DEF FilesKept, DiskShape, MetadataKept, SameFilesOnDisk

LEMMA OpenedFilesKept ==
  ASSUME NEW s, NEW t, NEW copies, FilesKept(s, copies), t.bak = s.bak,
         t.metadata \in {s.metadata, New}, s.metadata = Stored => t.metadata = Stored
  PROVE  FilesKept(t, copies)
  BY DEF FilesKept, DiskShape, MetadataKept, Contents

LEMMA BackupStep ==
  ASSUME NEW s, StorageInv(s), ~NothingFails, FilesKept(s, backup),
         NEW e, Surrounding(e), NEW f
  PROVE  LET t == backupStarts(s, e, f) IN
         /\ StorageInv(t)
         /\ SameWaiters(s, t)
         /\ FilesKept(t, BackedUp(s, e, f))
<1> DEFINE closed  == closeCredentialsSystem(s, e)
           d       == Files(closed)
           created == createStorageFileTree(d, f)
           copied  == copyToBackupDir(created, f)
           t1      == WithFiles(closed, created)
           t2      == WithFiles(closed, copied.files)
           t3      == openCredentialsSystem(t2, e)
           copies  == BackedUp(s, e, f)
<1>1. StorageInv(closed) /\ SameFilesOnDisk(s, closed) /\ SameWaiters(s, closed)
  BY CloseSystemStep
<1>2. /\ copies = IF treeSucceeds(d, f) /\ copied.ok THEN copied.files.copy ELSE backup
      /\ backupStarts(s, e, f) = IF ~treeSucceeds(d, f) THEN t1 ELSE t3
  BY DEF BackedUp, backupStarts
<1> HIDE DEF closed, copies
<1>3. DiskShape(closed) /\ backup \in [Names -> Contents]
  BY <1>1 DEF FilesKept, DiskShape, SameFilesOnDisk
<1>4. /\ FileShape(d)
      /\ d.live[Metadata] = closed.metadata
      /\ d.live[Container] = IF closed.crypto.fileExists THEN Stored ELSE Absent
      /\ d.bak = closed.bak /\ d.copy = backup
  BY <1>3, FilesShape
<1> HIDE DEF d
<1>5. /\ FileShape(created)
      /\ created.bak = d.bak
      /\ created.live[Container] = d.live[Container]
      /\ d.live[Metadata] = Stored => created.live[Metadata] = Stored
  BY <1>4, TreeKeeps
<1> HIDE DEF created
<1>6. /\ FileShape(copied.files)
      /\ copied.files.bak = created.bak
      /\ copied.files.live[Container] \in {Absent, created.live[Container]}
      /\ copied.files.live[Metadata] = created.live[Metadata]
      /\ copied.ok => copied.files.copy[Metadata] = created.live[Metadata]
  BY <1>5, BackupKeeps
<1> HIDE DEF copied
<1>7. /\ StorageInv(t1) /\ SameWaiters(closed, t1) /\ DiskShape(t1)
      /\ t1.metadata = created.live[Metadata] /\ t1.bak = created.bak
  BY <1>1, <1>4, <1>5, WithFilesStep
<1>8. /\ StorageInv(t2) /\ SameWaiters(closed, t2) /\ DiskShape(t2)
      /\ t2.metadata = created.live[Metadata] /\ t2.bak = created.bak
  BY <1>1, <1>4, <1>5, <1>6, WithFilesStep
<1> HIDE DEF t1, t2
<1>9. /\ StorageInv(t3) /\ SameWaiters(t2, t3)
      /\ t3.bak = t2.bak /\ t3.metadata \in {t2.metadata, New}
      /\ t2.metadata = Stored => t3.metadata = Stored
  BY <1>8, OpenSystemStep
<1> HIDE DEF t3
<1>10. \/ s.bak[Metadata] = Stored
       \/ /\ s.metadata = Stored
          /\ backup = NoFiles \/ backup[Metadata] = Stored
  BY DEF FilesKept, MetadataKept
<1>11. /\ closed.bak = s.bak /\ closed.metadata = s.metadata
  BY <1>1 DEF SameFilesOnDisk
<1>12. CASE ~treeSucceeds(d, f)
  <2>1. backupStarts(s, e, f) = t1 /\ copies = backup
    BY <1>2, <1>12
  <2>2. MetadataKept(t1, backup)
    BY <1>4, <1>5, <1>7, <1>10, <1>11 DEF MetadataKept
  <2> QED
    BY <1>1, <1>3, <1>7, <2>1, <2>2 DEF FilesKept, SameWaiters, copies
<1>13. CASE treeSucceeds(d, f)
  <2>1. backupStarts(s, e, f) = t3
    BY <1>2, <1>13
  <2>2. /\ copies \in [Names -> Contents]
        /\ copied.ok => copies[Metadata] = created.live[Metadata]
        /\ ~copied.ok => copies = backup
    BY <1>2, <1>3, <1>6, <1>13 DEF FileShape
  <2>3. MetadataKept(t3, copies)
    BY <1>4, <1>5, <1>8, <1>9, <1>10, <1>11, <2>2 DEF MetadataKept
  <2>4. DiskShape(t3)
    BY <1>8, <1>9 DEF DiskShape, Contents
  <2> QED
    BY <1>1, <1>8, <1>9, <2>1, <2>2, <2>3, <2>4 DEF FilesKept, SameWaiters, copies
<1> QED
  BY <1>12, <1>13

LEMMA RestoreStep ==
  ASSUME NEW s, StorageInv(s), Answered(s), ~NothingFails, FilesKept(s, backup),
         backup # NoFiles, NEW e, Surrounding(e), NEW f
  PROVE  LET t == restoreFinished(s, e, f) IN
         /\ StorageInv(t)
         /\ Answered(t)
         /\ FilesKept(t, backup)
<1> DEFINE closed   == closeCredentialsSystem(s, e)
           d        == Files(closed)
           n        == copyFromBackupDir(d, f)
           restored == WithFiles(closed, n)
           t1       == restarted(restored)
           t2       == openCredentialsSystem(restored, e)
<1>1. StorageInv(closed) /\ SameFilesOnDisk(s, closed) /\ SameWaiters(s, closed)
  BY CloseSystemStep
<1>2. restoreFinished(s, e, f) \in {closed, t1, t2}
  BY DEF restoreFinished
<1> HIDE DEF closed
<1>3. FilesKept(closed, backup) /\ Answered(closed)
  BY <1>1, SameFilesKept DEF Answered, SameWaiters
<1>4. /\ FileShape(d)
      /\ d.live[Metadata] = closed.metadata
      /\ d.live[Container] = IF closed.crypto.fileExists THEN Stored ELSE Absent
      /\ d.bak = closed.bak /\ d.copy = backup
  BY <1>3, FilesShape DEF FilesKept
<1> HIDE DEF d
<1>5. /\ FileShape(n)
      /\ n.live[Container] \in {Absent, d.live[Container]}
      /\ d.bak[Metadata] = Stored => n.bak[Metadata] = Stored
      /\ d.live[Metadata] = Stored /\ d.copy[Metadata] = Stored =>
            n.live[Metadata] = Stored \/ n.bak[Metadata] = Stored
  BY <1>4, RestoreKeeps
<1> HIDE DEF n
<1>6. /\ StorageInv(restored) /\ SameWaiters(closed, restored) /\ DiskShape(restored)
      /\ restored.metadata = n.live[Metadata] /\ restored.bak = n.bak
  BY <1>1, <1>4, <1>5, WithFilesStep
<1> HIDE DEF restored
<1>7. MetadataKept(restored, backup)
  BY <1>3, <1>4, <1>5, <1>6 DEF FilesKept, MetadataKept
<1>8. FilesKept(restored, backup) /\ Answered(restored)
  BY <1>3, <1>6, <1>7 DEF FilesKept, Answered, SameWaiters
<1>9. StorageInv(t1) /\ FilesKept(t1, backup) /\ Answered(t1)
  BY <1>6, <1>8, RestartedStep, SameFilesKept DEF Answered
<1>10. /\ StorageInv(t2) /\ SameWaiters(restored, t2)
       /\ t2.bak = restored.bak /\ t2.metadata \in {restored.metadata, New}
       /\ restored.metadata = Stored => t2.metadata = Stored
  BY <1>6, OpenSystemStep
<1> HIDE DEF t1, t2
<1>11. FilesKept(t2, backup) /\ Answered(t2)
  BY <1>8, <1>10, OpenedFilesKept DEF Answered, SameWaiters
<1> QED
  BY <1>1, <1>2, <1>3, <1>9, <1>10, <1>11

-----------------------------------------------------------------------------
(* The theorems. *)

\* The inductive invariant.
Safe ==
    /\ StorageInv(storage)
    /\ Answered(storage)
    /\ FilesKept(storage, backup)

LEMMA InitSafe == Init => Safe
<1> SUFFICES ASSUME Init PROVE Safe
  OBVIOUS
<1>1. /\ DOMAIN EmptyVolume = VolumeFields
      /\ VolumeShape(EmptyVolume)
      /\ Occupying(EmptyVolume) = {}
      /\ Range(EmptyVolume.keychain) = {}
  BY EmptyShape DEF EmptyVolume, VolumeFields
<1>2. /\ CryptoShape(CryptoInit)
      /\ CryptoInit.mounted = FALSE /\ CryptoInit.volume = EmptyVolume
      /\ CryptoInit.fileExists = FALSE
  BY <1>1 DEF CryptoInit, CryptoShape, CryptoFields, AnyKey
<1>3. /\ DOMAIN storage = Fields
      /\ storage.crypto = CryptoInit
      /\ storage.metadata = Stored /\ storage.bak = NoFiles
      /\ storage.inserted = {} /\ storage.authorized = {}
      /\ storage.opened = FALSE /\ storage.secretsOpen = FALSE
      /\ storage.notifiers = {}
      /\ backup = NoFiles
  BY DEF Init, Fields
<1>4. StorageInv(storage)
  BY <1>1, <1>2, <1>3
     DEF StorageInv, Shape, MountInv, RingInv, OpenInv, MountedIsOpen, KeyMounts,
         SlotsOnFile, Chain
<1>5. NoFiles \in [Names -> Contents]
  BY DEF NoFiles, Contents
<1>6. FilesKept(storage, backup)
  BY <1>3, <1>5 DEF FilesKept, DiskShape, MetadataKept, Contents
<1> QED
  BY <1>3, <1>4, <1>6 DEF Safe, Answered

LEMMA SurroundingsAreSuch ==
  ASSUME Safe, NEW e \in Surroundings
  PROVE  Surrounding(e)
<1>1. storage.authorized \subseteq AnyKey /\ NoKey \in AnyKey
  BY DEF Safe, StorageInv, Shape, AnyKey
<1> QED
  BY <1>1 DEF Surroundings, Surrounding

\* A handler that keeps the parts of the invariant keeps it.
LEMMA BecomesSafe ==
  ASSUME Safe, NEW s, Becomes(s), StorageInv(s), Answered(s), FilesKept(s, backup)
  PROVE  Safe'
  BY DEF Safe, Becomes

LEMMA PhaseStep ==
  ASSUME NEW s, StorageInv(s), NEW phase
  PROVE  LET t == [s EXCEPT !.phase = phase] IN
         /\ StorageInv(t)
         /\ SameFilesOnDisk(s, t)
         /\ SameWaiters(s, t)
<1> DEFINE t == [s EXCEPT !.phase = phase]
<1>1. /\ Shape(t)
      /\ t.crypto = s.crypto /\ t.authorized = s.authorized /\ t.inserted = s.inserted
      /\ t.opened = s.opened /\ t.secretsOpen = s.secretsOpen
      /\ SameFilesOnDisk(s, t) /\ SameWaiters(s, t)
  BY DEF StorageInv, Shape, Fields, SameFilesOnDisk, SameWaiters
<1> HIDE DEF t
<1>2. StorageInv(t)
  BY <1>1 DEF StorageInv, MountInv, RingInv, OpenInv, MountedIsOpen, KeyMounts,
              SlotsOnFile
<1> QED
  BY <1>1, <1>2 DEF t

LEMMA StoredStep ==
  ASSUME NEW s, StorageInv(s)
  PROVE  LET t == [s EXCEPT !.crypto.volume.secrets = TRUE] IN
         /\ StorageInv(t)
         /\ SameKeyring(s, t)
<1> DEFINE t == [s EXCEPT !.crypto.volume.secrets = TRUE]
<1>1. /\ Shape(t)
      /\ SameKeyring(s, t)
      /\ Alike(s.crypto, t.crypto)
      /\ t.secretsOpen = s.secretsOpen
  BY StoredShape DEF StorageInv
<1> HIDE DEF t
<1>2. ReliableMounts => MountInv(t)
  BY <1>1 DEF StorageInv, MountInv, Alike, SameFiles
<1>3. NoRemovals => RingInv(t)
  BY <1>1 DEF StorageInv, RingInv, Alike, SameFiles, SameKeyring, SameKeys
<1>4. NothingFails => OpenInv(t)
  BY <1>1 DEF StorageInv, OpenInv, MountedIsOpen, KeyMounts, SlotsOnFile, Alike,
              SameFiles, SameKeyring, SameKeys
<1> QED
  BY <1>1, <1>2, <1>3, <1>4 DEF StorageInv, t

LEMMA NextSafe == Safe /\ [Next]_vars => Safe'
<1> SUFFICES ASSUME Safe, [Next]_vars PROVE Safe'
  OBVIOUS
<1>1. StorageInv(storage) /\ Answered(storage) /\ FilesKept(storage, backup)
  BY DEF Safe
<1>2. CASE Restart
  <2>1. Becomes(restarted(storage))
    BY <1>2 DEF Restart
  <2>2. /\ StorageInv(restarted(storage))
        /\ SameFilesOnDisk(storage, restarted(storage))
        /\ Answered(restarted(storage))
    BY <1>1, RestartedStep DEF Answered
  <2> QED
    BY <1>1, <2>1, <2>2, SameFilesKept, BecomesSafe
<1>3. CASE BackupMode
  <2> DEFINE t == [storage EXCEPT !.phase = "backupMode"]
  <2>1. Becomes(t)
    BY <1>3 DEF BackupMode
  <2>2. StorageInv(t) /\ SameFilesOnDisk(storage, t) /\ SameWaiters(storage, t)
    BY <1>1, PhaseStep
  <2> HIDE DEF t
  <2>3. Answered(t)
    BY <1>1, <2>2 DEF Answered, SameWaiters
  <2> QED
    BY <1>1, <2>1, <2>2, <2>3, SameFilesKept, BecomesSafe
<1>4. CASE BackupOrRestoreInBackupMode
  <2> DEFINE t == [storage EXCEPT !.phase = "stopped"]
  <2>1. Becomes(t)
    BY <1>4 DEF BackupOrRestoreInBackupMode
  <2>2. StorageInv(t) /\ SameFilesOnDisk(storage, t) /\ SameWaiters(storage, t)
    BY <1>1, PhaseStep
  <2> HIDE DEF t
  <2>3. Answered(t)
    BY <1>1, <2>2 DEF Answered, SameWaiters
  <2> QED
    BY <1>1, <2>1, <2>2, <2>3, SameFilesKept, BecomesSafe
<1>5. ASSUME NEW e \in Surroundings, Start(e)
      PROVE  Safe'
  <2> DEFINE o == openCredentialsSystem(storage, e)
             t == [o EXCEPT !.phase = "running"]
  <2>1. Becomes(t)
    BY <1>5 DEF Start
  <2>2. Surrounding(e)
    BY <1>5, SurroundingsAreSuch
  <2>3. /\ StorageInv(o) /\ SameWaiters(storage, o)
        /\ o.bak = storage.bak /\ o.metadata \in {storage.metadata, New}
        /\ storage.metadata = Stored => o.metadata = Stored
    BY <1>1, <2>2, OpenSystemStep
  <2> HIDE DEF o
  <2>4. StorageInv(t) /\ SameFilesOnDisk(o, t) /\ SameWaiters(o, t)
    BY <2>3, PhaseStep
  <2> HIDE DEF t
  <2>5. FilesKept(o, backup)
    BY <1>1, <2>3, OpenedFilesKept
  <2>6. FilesKept(t, backup)
    BY <2>4, <2>5, SameFilesKept
  <2>7. Answered(t)
    BY <1>1, <2>3, <2>4 DEF Answered, SameWaiters
  <2> QED
    BY <2>1, <2>4, <2>6, <2>7, BecomesSafe
<1>6. ASSUME NEW e \in Surroundings, NEW f \in FileEvents, Backup(e, f)
      PROVE  Safe'
  <2> DEFINE t == backupStarts(storage, e, f)
  <2>1. storage' = t /\ backup' = BackedUp(storage, e, f) /\ "backup" \in Events
    BY <1>6 DEF Backup
  <2>2. Surrounding(e) /\ ~NothingFails
    BY <1>6, <2>1, SurroundingsAreSuch DEF NothingFails
  <2>3. /\ StorageInv(t)
        /\ SameWaiters(storage, t)
        /\ FilesKept(t, BackedUp(storage, e, f))
    BY <1>1, <2>2, BackupStep
  <2> HIDE DEF t
  <2>4. Answered(t)
    BY <1>1, <2>3 DEF Answered, SameWaiters
  <2> QED
    BY <2>1, <2>3, <2>4 DEF Safe
<1>7. ASSUME NEW e \in Surroundings, NEW f \in FileEvents, Restore(e, f)
      PROVE  Safe'
  <2>1. /\ Becomes(restoreFinished(storage, e, f))
        /\ backup # NoFiles /\ "restore" \in Events
    BY <1>7 DEF Restore
  <2>2. Surrounding(e) /\ ~NothingFails
    BY <1>7, <2>1, SurroundingsAreSuch DEF NothingFails
  <2>3. /\ StorageInv(restoreFinished(storage, e, f))
        /\ Answered(restoreFinished(storage, e, f))
        /\ FilesKept(restoreFinished(storage, e, f), backup)
    BY <1>1, <2>1, <2>2, RestoreStep
  <2> QED
    BY <2>1, <2>3, BecomesSafe
<1>8. ASSUME NEW e \in Surroundings, NEW manager \in KeyManagers, NEW key \in AnyKey,
             KeyInserted(manager, key, e)
      PROVE  Safe'
  <2> DEFINE t == onKeyInserted(storage, manager, key, e)
  <2>1. Becomes(t) /\ Surrounding(e)
    BY <1>8, SurroundingsAreSuch DEF KeyInserted
  <2>2. StorageInv(t) /\ SameFilesOnDisk(storage, t) /\ Answered(t)
    BY <1>1, <2>1, InsertedStep
  <2> QED
    BY <1>1, <2>1, <2>2, SameFilesKept, BecomesSafe
<1>9. ASSUME NEW e \in Surroundings, NEW key \in Keys, KeyDisabled(key, e)
      PROVE  Safe'
  <2> DEFINE t == onKeyDisabled(storage, key, e)
  <2>1. Becomes(t)
    BY <1>9 DEF KeyDisabled
  <2>2. StorageInv(t) /\ SameFilesOnDisk(storage, t) /\ SameWaiters(storage, t)
    BY <1>1, DisabledStep
  <2>3. Answered(t)
    BY <1>1, <2>2 DEF Answered, SameWaiters
  <2> QED
    BY <1>1, <2>1, <2>2, <2>3, SameFilesKept, BecomesSafe
<1>10. ASSUME NEW e \in Surroundings, NEW key \in Keys, KeyRemoved(key, e)
       PROVE  Safe'
  <2> DEFINE t == onKeyRemoved(storage, key, e)
  <2>1. Becomes(t) /\ Surrounding(e) /\ "remove" \in Events
    BY <1>10, SurroundingsAreSuch DEF KeyRemoved
  <2>2. StorageInv(t) /\ SameFilesOnDisk(storage, t) /\ SameWaiters(storage, t)
    BY <1>1, <2>1, RemovedStep
  <2>3. Answered(t)
    BY <1>1, <2>2 DEF Answered, SameWaiters
  <2> QED
    BY <1>1, <2>1, <2>2, <2>3, SameFilesKept, BecomesSafe
<1>11. ASSUME NEW e \in Surroundings, NEW key \in AnyKey, NEW result \in Results,
              AuthorizerAnswers(key, result, e)
       PROVE  Safe'
  <2> DEFINE a == [storage EXCEPT !.queries = @ \ {key}]
             t == onKeyAuthorizationQueried(a, key, result, e)
  <2>1. Becomes(t) /\ Surrounding(e)
    BY <1>11, SurroundingsAreSuch DEF AuthorizerAnswers
  <2>2. /\ Shape(a)
        /\ a.crypto = storage.crypto /\ a.authorized = storage.authorized
        /\ a.inserted = storage.inserted
        /\ a.opened = storage.opened /\ a.secretsOpen = storage.secretsOpen
        /\ SameFilesOnDisk(storage, a)
    BY <1>1 DEF StorageInv, Shape, Fields, SameFilesOnDisk
  <2> HIDE DEF a
  <2>3. StorageInv(a)
    BY <1>1, <2>2 DEF StorageInv, MountInv, RingInv, OpenInv, MountedIsOpen, KeyMounts,
                      SlotsOnFile
  <2>4. StorageInv(t) /\ SameFilesOnDisk(a, t) /\ t.notifiers = {}
    BY <2>1, <2>3, QueriedStep
  <2> HIDE DEF t
  <2>5. FilesKept(t, backup)
    BY <1>1, <2>2, <2>4, SameFilesKept
  <2> QED
    BY <2>1, <2>4, <2>5, BecomesSafe DEF Answered
<1>12. ASSUME NEW e \in Surroundings, NEW sender \in Senders,
              StorageNotAvailable(sender, e)
       PROVE  Safe'
  <2> DEFINE t == secureStorageNotAvailable(storage, sender, e)
  <2>1. Becomes(t) /\ Surrounding(e)
    BY <1>12, SurroundingsAreSuch DEF StorageNotAvailable
  <2>2. StorageInv(t) /\ SameFilesOnDisk(storage, t) /\ Answered(t)
    BY <1>1, <2>1, NotAvailableStep
  <2> QED
    BY <1>1, <2>1, <2>2, SameFilesKept, BecomesSafe
<1>13. CASE SecretsStored
  <2> DEFINE t == [storage EXCEPT !.crypto.volume.secrets = TRUE]
  <2>1. Becomes(t)
    BY <1>13 DEF SecretsStored
  <2>2. StorageInv(t) /\ SameKeyring(storage, t)
    BY <1>1, StoredStep
  <2> HIDE DEF t
  <2>3. FilesKept(t, backup) /\ Answered(t)
    BY <1>1, <2>2, SameFilesKept DEF SameKeyring, SameKeys, SameWaiters, Answered
  <2> QED
    BY <2>1, <2>2, <2>3, BecomesSafe
<1>14. CASE UNCHANGED vars
  BY <1>1, <1>14 DEF vars, Safe
<1> QED
  BY <1>2, <1>3, <1>4, <1>5, <1>6, <1>7, <1>8, <1>9, <1>10, <1>11, <1>12, <1>13, <1>14
     DEF Next

LEMMA AlwaysSafe == Spec => []Safe
  BY InitSafe, NextSafe, PTL DEF Spec

\* The secrets database is opened on the encrypted volume: with a mount(2) and
\* an open that report what they did, every mount is one of a formatted volume.
THEOREM SecretsStayOnVolume ==
  ASSUME ReliableMounts
  PROVE  Spec => []SecretsOnVolume
<1>1. Safe => SecretsOnVolume
  BY DEF Safe, StorageInv, MountInv, SecretsOnVolume
<1> QED
  BY <1>1, AlwaysSafe, PTL

\* Each key KeyHandler takes for authorized has a key slot, as long as no key is
\* removed; every other system call may fail, files may be lost in backups.
THEOREM AuthorizedKeysHaveSlots ==
  ASSUME NoRemovals
  PROVE  Spec => []AuthorizedCanOpen
<1>1. Safe => AuthorizedCanOpen
  BY DEF Safe, StorageInv, RingInv, AuthorizedCanOpen, volume
<1> QED
  BY <1>1, AlwaysSafe, PTL

\* In whatever order keys are inserted, disabled, removed and questions asked and
\* answered, the storage is open while an inserted key opens the container.
THEOREM ValidKeyOpensStorage ==
  ASSUME NothingFails
  PROVE  Spec => []KeyOpensStorage
<1>1. Safe => KeyOpensStorage
  BY DEF Safe, StorageInv, OpenInv, MountedIsOpen, KeyMounts, KeyOpensStorage, inUse,
         volume
<1> QED
  BY <1>1, AlwaysSafe, PTL

\* A core that waits for the secure storage waits for the authorizer's answer,
\* whatever fails.
THEOREM NotifiersAreAnswered == Spec => []NoForgottenNotifier
<1>1. Safe => NoForgottenNotifier
  BY DEF Safe, Answered, NoForgottenNotifier
<1> QED
  BY <1>1, AlwaysSafe, PTL

\* What was stored in the metadata database is in place or in the ".bak" file,
\* whatever fails in a backup or a restore, or kills signond in it.
THEOREM DatabaseSurvives == Spec => []DatabaseNotLost
<1>1. Safe => DatabaseNotLost
  BY DEF Safe, FilesKept, MetadataKept, DatabaseNotLost
<1> QED
  BY <1>1, AlwaysSafe, PTL

-----------------------------------------------------------------------------
(* The outcomes of an authorization. *)

\* What no authorization changes.
Alone(s, t) ==
    /\ t.phase = s.phase
    /\ t.authorizer = s.authorizer
    /\ t.inserted = s.inserted
    /\ t.opened = s.opened
    /\ t.dbExists = s.dbExists

Mounted(s, t) == t.crypto.mounted /\ ~s.crypto.mounted

\* The secrets database is opened when the file system is mounted.
OpenedByMount(s, t) == t.secretsOpen => s.secretsOpen \/ (Mounted(s, t) /\ s.opened)

SameSlots(s, t) ==
    /\ SameFiles(s.crypto, t.crypto)
    /\ Occupying(t.crypto.volume) = Occupying(s.crypto.volume)

CannotAdd(s, e) ==
    \/ e.fault = "slot"
    \/ FreeSlots(s.crypto.volume) = {}
    \/ ~(s.authorized \subseteq Occupying(s.crypto.volume))

\* No key was authorized.
Stays(s, t, e) ==
    /\ Alone(s, t)
    /\ t.authorized = s.authorized
    /\ t.revoked = s.revoked
    /\ SameSlots(s, t)
    /\ s.crypto.mounted => t.crypto.mounted
    /\ OpenedByMount(s, t)
    /\ Mounted(s, t) => CannotAdd(s, e) /\ Occupying(s.crypto.volume) # {}

\* The key was authorized, and may have been given a slot.
Gains(s, t, key) ==
    /\ Alone(s, t)
    /\ t.authorized = s.authorized \cup {key}
    /\ t.revoked = s.revoked \ {key}
    /\ t.crypto.isSetup = s.crypto.isSetup
    /\ t.crypto.fileExists = s.crypto.fileExists
    /\ s.crypto.volume.secrets => t.crypto.volume.secrets
    /\ Occupying(t.crypto.volume) \subseteq Occupying(s.crypto.volume) \cup {key}
    /\ t.crypto.mounted
    /\ Occupying(s.crypto.volume) # {}
    /\ OpenedByMount(s, t)

\* The container was formatted for the key, as far as that went.
Formats(s, t, key, e) ==
    /\ Alone(s, t)
    /\ \/ /\ t.authorized = {} /\ t.revoked = s.revoked
          /\ t.crypto.mounted = s.crypto.mounted
          /\ t.secretsOpen = s.secretsOpen
          /\ Occupying(t.crypto.volume) = Occupying(s.crypto.volume)
          /\ s.crypto.volume.secrets => t.crypto.volume.secrets
          /\ \/ SameFiles(s.crypto, t.crypto)
             \/ t.crypto.isSetup /\ t.crypto.fileExists
          /\ s.crypto.mounted \/ key = NoKey \/ e.fault \in {"device", "loop"}
       \/ /\ t.authorized = {} /\ t.revoked = s.revoked
          /\ ~s.crypto.mounted /\ ~t.crypto.mounted
          /\ t.secretsOpen = s.secretsOpen
          /\ Occupying(t.crypto.volume) = {}
       \/ /\ t.authorized = {} /\ t.revoked = s.revoked
          /\ ~s.crypto.mounted /\ ~t.crypto.mounted
          /\ t.secretsOpen = s.secretsOpen
          /\ t.crypto.isSetup /\ t.crypto.fileExists
          /\ e.fault \in {"open", "umount", "mkdir"}
       \/ /\ t.authorized = {key} /\ t.revoked = s.revoked \ {key}
          /\ ~s.crypto.mounted /\ t.crypto.mounted
          /\ t.crypto.isSetup /\ t.crypto.fileExists
          /\ Occupying(t.crypto.volume) = {key}
          /\ OpenedByMount(s, t)

LEMMA AuthorizeShape ==
  ASSUME NEW s, Shape(s), NEW key \in AnyKey
  PROVE  LET t == Authorize(s, key) IN
         /\ Shape(t)
         /\ Alone(s, t) /\ SameWaiters(s, t)
         /\ t.authorized = s.authorized \cup {key}
         /\ t.revoked = s.revoked \ {key}
         /\ t.crypto = s.crypto
         /\ t.secretsOpen = s.secretsOpen
  BY DEF Shape, Fields, Authorize, Alone, SameWaiters

LEMMA FormatEffect ==
  ASSUME NEW s, StorageInv(s), NEW key \in AnyKey, NEW e
  PROVE  LET t == formatStorage(s, key, e) IN
         Formats(s, t, key, e) /\ SameWaiters(s, t)
<1> DEFINE a == setEncryptionKey(s.crypto, key)
           c == setupFileSystem(a, e.fault)
           b == [s EXCEPT !.authorized = {}]
           d == SetCrypto(b, c, e)
           t == Authorize(d, key)
<1>1. Shape(s) /\ CryptoShape(s.crypto) /\ s.crypto.mounted \in BOOLEAN
  BY DEF StorageInv, Shape, CryptoShape
<1>2. formatStorage(s, key, e) =
         IF ~s.crypto.mounted /\ d.crypto.mounted THEN t ELSE d
  BY DEF formatStorage
<1>3. /\ Shape(b)
      /\ b.authorized = {} /\ b.crypto = s.crypto /\ b.revoked = s.revoked
      /\ b.secretsOpen = s.secretsOpen
      /\ Alone(s, b) /\ SameWaiters(s, b)
  BY DEF StorageInv, Shape, Fields, Alone, SameWaiters
<1> HIDE DEF b
<1>4. /\ CryptoShape(a)
      /\ SameFiles(s.crypto, a)
      /\ a.mounted = s.crypto.mounted /\ a.attached = s.crypto.attached
      /\ a.volume = s.crypto.volume
      /\ s.crypto.mounted => a = s.crypto
      /\ ~s.crypto.mounted => a.encryptionKey = key
  BY <1>1, SetKeyShape
<1> HIDE DEF a
<1>5. SetUp(a, c, e.fault)
  BY <1>4, SetupShape
<1> HIDE DEF c
<1>6. /\ Shape(d)
      /\ SameKeyring(b, d)
      /\ Alike(c, d.crypto)
      /\ d.secretsOpen = (\/ b.secretsOpen
                          \/ /\ c.mounted /\ ~b.crypto.mounted
                             /\ b.opened /\ e.fault # "database")
  BY <1>3, <1>5, SetCryptoShape DEF SetUp
<1> HIDE DEF d
<1>7. /\ Alone(s, d) /\ SameWaiters(s, d)
      /\ d.authorized = {} /\ d.revoked = s.revoked
  BY <1>3, <1>6 DEF SameKeyring, SameKeys, Alone, SameWaiters
<1>8. /\ Occupying(d.crypto.volume) = Occupying(c.volume)
      /\ SameFiles(c, d.crypto)
      /\ d.crypto.mounted = c.mounted
      /\ d.crypto.fileExists = c.fileExists /\ d.crypto.isSetup = c.isSetup
  BY <1>6 DEF Alike, SameFiles
<1>9. ~d.crypto.mounted \/ s.crypto.mounted => d.secretsOpen = s.secretsOpen
  BY <1>3, <1>6, <1>8 DEF Shape
<1>10. /\ Shape(t)
       /\ Alone(d, t) /\ SameWaiters(d, t)
       /\ t.authorized = d.authorized \cup {key}
       /\ t.revoked = d.revoked \ {key}
       /\ t.crypto = d.crypto /\ t.secretsOpen = d.secretsOpen
  BY <1>6, AuthorizeShape
<1>11. a.mounted = s.crypto.mounted /\ (~s.crypto.mounted => a.encryptionKey = key)
  BY <1>4
<1> HIDE DEF t
<1>12. CASE /\ SameFiles(a, c) \/ (c.volume = a.volume /\ c.isSetup /\ c.fileExists)
            /\ c.mounted = a.mounted
            /\ a.mounted \/ a.encryptionKey = NoKey \/ e.fault \in {"device", "loop"}
  <2>1. formatStorage(s, key, e) = d
    BY <1>2, <1>8, <1>11, <1>12
  <2>2. /\ Occupying(d.crypto.volume) = Occupying(s.crypto.volume)
        /\ s.crypto.volume.secrets => d.crypto.volume.secrets
        /\ SameFiles(s.crypto, d.crypto) \/ (d.crypto.isSetup /\ d.crypto.fileExists)
    BY <1>4, <1>8, <1>12 DEF SameFiles, Occupying
  <2>3. s.crypto.mounted \/ key = NoKey \/ e.fault \in {"device", "loop"}
    BY <1>11, <1>12
  <2>4. d.crypto.mounted = s.crypto.mounted /\ d.secretsOpen = s.secretsOpen
    BY <1>1, <1>8, <1>9, <1>11, <1>12
  <2> QED
    BY <1>7, <2>1, <2>2, <2>3, <2>4 DEF Formats
<1>13. CASE /\ Occupying(c.volume) = {}
            /\ ~c.mounted
            /\ ~s.crypto.mounted
  BY <1>2, <1>7, <1>8, <1>9, <1>13 DEF Formats
<1>14. CASE /\ c.isSetup /\ c.fileExists
            /\ e.fault \notin {"open", "umount", "mkdir"} => c.mounted
            /\ Occupying(c.volume) = {a.encryptionKey}
            /\ ~a.mounted
  <2>1. CASE c.mounted
    <3>1. formatStorage(s, key, e) = t /\ t.authorized = {key}
      BY <1>2, <1>7, <1>8, <1>10, <1>11, <1>14, <2>1
    <3>2. Alone(s, t) /\ SameWaiters(s, t) /\ t.revoked = s.revoked \ {key}
      BY <1>7, <1>10 DEF Alone, SameWaiters
    <3>3. OpenedByMount(s, t)
      BY <1>3, <1>6, <1>8, <1>10 DEF OpenedByMount, Mounted, Alone
    <3> QED
      BY <1>8, <1>10, <1>11, <1>14, <2>1, <3>1, <3>2, <3>3 DEF Formats
  <2>2. CASE ~c.mounted
    BY <1>2, <1>7, <1>8, <1>9, <1>11, <1>14, <2>2 DEF Formats
  <2> QED
    BY <2>1, <2>2
<1>15. CASE s.crypto.mounted
  <2>1. SameFiles(a, c) /\ c.mounted = a.mounted /\ a.mounted
    BY <1>5, <1>11, <1>15 DEF SameFiles, SetUp
  <2> QED
    BY <1>12, <2>1
<1> QED
  BY <1>5, <1>12, <1>13, <1>14, <1>15 DEF SetUp

LEMMA AnAuthorizedKey ==
  ASSUME NEW s, s.authorized # {}, NEW e
  PROVE  anyAuthorizedKey(s, e) \in s.authorized
<1>1. (CHOOSE k \in s.authorized : TRUE) \in s.authorized
  OBVIOUS
<1> QED
  BY <1>1 DEF anyAuthorizedKey

LEMMA AddKeyEffect ==
  ASSUME NEW s, StorageInv(s), s.authorized # {}, NEW key \in AnyKey,
         NEW e, Surrounding(e)
  PROVE  LET t == addKey(s, key, e) IN
         /\ Stays(s, t, e) \/ Gains(s, t, key)
         /\ SameWaiters(s, t)
<1> DEFINE existing == anyAuthorizedKey(s, e)
           m == mountWithAuthorizedKey(s, e)
           c == addEncryptionKey(m.crypto, key, existing, e.fault)
           a == [m EXCEPT !.crypto = c]
           t == Authorize(a, key)
           succeeds == addEncryptionKeySucceeds(m.crypto, key, existing, e.fault)
<1>1. /\ StorageInv(m)
      /\ SameKeyring(s, m)
      /\ SameFiles(s.crypto, m.crypto)
      /\ Occupying(m.crypto.volume) = Occupying(s.crypto.volume)
      /\ s.crypto.mounted => m = s
      /\ m.secretsOpen => s.secretsOpen \/ (Mounted(s, m) /\ s.opened)
      /\ Mounted(s, m) => Occupying(s.crypto.volume) # {}
  BY MountWithStep DEF Mounted
<1>2. addKey(s, key, e) = IF succeeds THEN t ELSE m
  BY DEF addKey
<1>3. existing \in s.authorized
  BY AnAuthorizedKey
<1>4. /\ CryptoShape(m.crypto) /\ m.crypto.mounted \in BOOLEAN
      /\ s.crypto.mounted \in BOOLEAN
  BY <1>1 DEF StorageInv, Shape, CryptoShape
<1>5. Alone(s, m) /\ SameWaiters(s, m)
  BY <1>1 DEF SameKeyring, SameKeys, Alone
<1> HIDE DEF existing, m
<1>6. FreeSlots(m.crypto.volume) = FreeSlots(s.crypto.volume)
  BY <1>1 DEF SameFiles, FreeSlots
<1>7. CASE succeeds
  <2>1. m.crypto.mounted /\ existing \in Occupying(s.crypto.volume)
    BY <1>1, <1>7 DEF addEncryptionKeySucceeds
  <2>2. /\ CryptoShape(c)
        /\ c.isSetup = m.crypto.isSetup /\ c.fileExists = m.crypto.fileExists
        /\ c.mounted = m.crypto.mounted
        /\ c.volume.secrets = m.crypto.volume.secrets
        /\ Occupying(c.volume) \subseteq Occupying(m.crypto.volume) \cup {key}
    BY <1>4, AddSlotShape
  <2> HIDE DEF c, succeeds
  <2>3. /\ Shape(a)
        /\ a.crypto = c /\ a.authorized = m.authorized /\ a.revoked = m.revoked
        /\ a.secretsOpen = m.secretsOpen
        /\ Alone(m, a) /\ SameWaiters(m, a)
    BY <1>1, <2>2 DEF StorageInv, Shape, Fields, Alone, SameWaiters
  <2> HIDE DEF a
  <2>4. /\ Alone(a, t) /\ SameWaiters(a, t)
        /\ t.authorized = a.authorized \cup {key}
        /\ t.revoked = a.revoked \ {key}
        /\ t.crypto = a.crypto
        /\ t.secretsOpen = a.secretsOpen
    BY <2>3, AuthorizeShape
  <2> HIDE DEF t
  <2>5. Alone(s, t) /\ SameWaiters(s, t)
    BY <1>5, <2>3, <2>4 DEF Alone, SameWaiters
  <2>6. /\ t.authorized = s.authorized \cup {key}
        /\ t.revoked = s.revoked \ {key}
    BY <1>1, <2>3, <2>4 DEF SameKeyring, SameKeys
  <2>7. /\ t.crypto.isSetup = s.crypto.isSetup
        /\ t.crypto.fileExists = s.crypto.fileExists
        /\ s.crypto.volume.secrets => t.crypto.volume.secrets
        /\ Occupying(t.crypto.volume) \subseteq Occupying(s.crypto.volume) \cup {key}
        /\ t.crypto.mounted
    BY <1>1, <2>1, <2>2, <2>3, <2>4 DEF SameFiles
  <2>8. OpenedByMount(s, t)
    BY <1>1, <2>1, <2>2, <2>3, <2>4 DEF OpenedByMount, Mounted
  <2>9. Occupying(s.crypto.volume) # {}
    BY <2>1
  <2> QED
    BY <1>2, <1>7, <2>5, <2>6, <2>7, <2>8, <2>9 DEF Gains
<1>8. CASE ~succeeds
  <2>1. Mounted(s, m) => CannotAdd(s, e)
    BY <1>1, <1>3, <1>6, <1>8 DEF Mounted, CannotAdd, addEncryptionKeySucceeds
  <2>2. m.authorized = s.authorized /\ m.revoked = s.revoked
    BY <1>1 DEF SameKeyring, SameKeys
  <2>3. s.crypto.mounted => m.crypto.mounted
    BY <1>1
  <2> HIDE DEF succeeds
  <2> QED
    BY <1>1, <1>2, <1>5, <1>8, <2>1, <2>2, <2>3 DEF Stays, SameSlots, OpenedByMount
<1> QED
  BY <1>7, <1>8

LEMMA Nothing ==
  ASSUME NEW s, Shape(s), NEW e
  PROVE  Stays(s, s, e) /\ SameWaiters(s, s)
  BY DEF Shape, CryptoShape, Stays, Alone, SameSlots, SameFiles, OpenedByMount, Mounted,
         SameWaiters

LEMMA AuthorizeKeyEffect ==
  ASSUME NEW s, StorageInv(s), NEW key \in AnyKey, NEW format \in BOOLEAN,
         NEW e, Surrounding(e)
  PROVE  LET t == authorizeKey(s, key, format, e) IN
         /\ \/ Stays(s, t, e)
            \/ Gains(s, t, key)
            \/ /\ Formats(s, t, key, e)
               /\ format \/ ~s.crypto.isSetup
         /\ s.authorized = {} /\ key \notin s.authorized /\ format => Formats(s, t, key, e)
         /\ SameWaiters(s, t)
<1>1. CASE key \notin s.authorized /\ (format \/ ~s.crypto.isSetup)
  BY <1>1, FormatEffect DEF authorizeKey
<1>2. CASE /\ key \notin s.authorized /\ ~(format \/ ~s.crypto.isSetup)
           /\ s.authorized # {}
  BY <1>2, AddKeyEffect DEF authorizeKey
<1>3. CASE \/ key \in s.authorized
           \/ /\ ~(format \/ ~s.crypto.isSetup)
              /\ s.authorized = {}
  BY <1>3, Nothing DEF authorizeKey, StorageInv
<1> QED
  BY <1>1, <1>2, <1>3

\* An authorization, the outcomes of which are those of authorizeKey().
Authorizes(s, t, key, e) ==
    \/ Stays(s, t, e)
    \/ Gains(s, t, key)
    \/ Formats(s, t, key, e)

\* The default authorizer has the storage formatted for a key only when there is
\* none that could open it.
ByDefault(s, t, key, e) ==
    /\ t.queries = s.queries
    /\ \/ Stays(s, t, e)
       \/ Gains(s, t, key)
       \/ /\ Formats(s, t, key, e)
          /\ s.authorized = {} \/ ~s.crypto.isSetup
    /\ s.authorized = {} => Formats(s, t, key, e)

LEMMA QueriedEffect ==
  ASSUME NEW s, StorageInv(s), NEW key \in AnyKey, NEW result, NEW e, Surrounding(e)
  PROVE  LET t == onKeyAuthorizationQueried(s, key, result, e) IN
         /\ \/ Stays(s, t, e)
            \/ Gains(s, t, key)
            \/ /\ Formats(s, t, key, e)
               /\ result = "Exclusive" \/ ~s.crypto.isSetup
         /\ s.authorized = {} /\ result = "Exclusive" => Formats(s, t, key, e)
         /\ t.queries = s.queries
<1> DEFINE a == IF result = "Denied" THEN s
                ELSE authorizeKey(s, key, result = "Exclusive", e)
           t == [a EXCEPT !.notifiers = {}]
<1>1. onKeyAuthorizationQueried(s, key, result, e) = t
  BY DEF onKeyAuthorizationQueried, replyToSecureStorageEventNotifiers
<1>2. StorageInv(a)
  BY AuthorizeKeyStep
<1>3. /\ \/ Stays(s, a, e)
         \/ Gains(s, a, key)
         \/ /\ Formats(s, a, key, e)
            /\ result = "Exclusive" \/ ~s.crypto.isSetup
      /\ s.authorized = {} /\ result = "Exclusive" => Formats(s, a, key, e)
      /\ SameWaiters(s, a)
  <2>1. CASE result = "Denied"
    BY <2>1, Nothing DEF StorageInv
  <2>2. CASE result # "Denied"
    <3>1. (result = "Exclusive") \in BOOLEAN
      OBVIOUS
    <3> QED
      BY <2>2, <3>1, AuthorizeKeyEffect
  <2> QED
    BY <2>1, <2>2
<1> HIDE DEF a
<1>4. /\ Alone(a, t) /\ t.queries = a.queries
      /\ t.authorized = a.authorized /\ t.revoked = a.revoked
      /\ t.crypto = a.crypto /\ t.secretsOpen = a.secretsOpen
  BY <1>2 DEF StorageInv, Shape, Fields, Alone
<1> HIDE DEF t
<1>5. /\ Stays(s, a, e) => Stays(s, t, e)
      /\ Gains(s, a, key) => Gains(s, t, key)
      /\ Formats(s, a, key, e) => Formats(s, t, key, e)
  <2>1. Stays(s, a, e) => Stays(s, t, e)
    BY <1>4 DEF Stays, Alone, SameSlots, OpenedByMount, Mounted
  <2>2. Gains(s, a, key) => Gains(s, t, key)
    BY <1>4 DEF Gains, Alone, OpenedByMount, Mounted
  <2>3. Formats(s, a, key, e) => Formats(s, t, key, e)
    BY <1>4 DEF Formats, Alone, OpenedByMount, Mounted
  <2> QED
    BY <2>1, <2>2, <2>3
<1> QED
  BY <1>1, <1>3, <1>4, <1>5 DEF SameWaiters

\* queryKeyAuthorization()
LEMMA QueryEffect ==
  ASSUME NEW s, StorageInv(s), NEW key \in AnyKey, NEW e, Surrounding(e)
  PROVE  LET t == queryKeyAuthorization(s, key, e) IN
         /\ Authorizes(s, t, key, e)
         /\ s.authorizer = "default" => ByDefault(s, t, key, e)
<1> DEFINE result == IF s.authorized # {} THEN "Approved" ELSE "Exclusive"
           t == onKeyAuthorizationQueried(s, key, result, e)
           q == [s EXCEPT !.queries = @ \cup {key}]
<1>1. CASE s.authorizer = "default"
  <2>1. queryKeyAuthorization(s, key, e) = t
    BY <1>1 DEF queryKeyAuthorization
  <2>2. /\ \/ Stays(s, t, e)
           \/ Gains(s, t, key)
           \/ /\ Formats(s, t, key, e)
              /\ result = "Exclusive" \/ ~s.crypto.isSetup
        /\ s.authorized = {} /\ result = "Exclusive" => Formats(s, t, key, e)
        /\ t.queries = s.queries
    BY QueriedEffect
  <2>3. s.authorized = {} <=> result = "Exclusive"
    OBVIOUS
  <2> HIDE DEF t, result
  <2> QED
    BY <1>1, <2>1, <2>2, <2>3 DEF Authorizes, ByDefault
<1>2. CASE s.authorizer # "default"
  <2>1. queryKeyAuthorization(s, key, e) = q
    BY <1>2 DEF queryKeyAuthorization
  <2>2. /\ Alone(s, q)
        /\ q.authorized = s.authorized /\ q.revoked = s.revoked
        /\ q.crypto = s.crypto /\ q.secretsOpen = s.secretsOpen
    BY DEF StorageInv, Shape, Fields, Alone
  <2> HIDE DEF q
  <2>3. Stays(s, q, e)
    BY <2>2, Nothing DEF StorageInv, Stays, SameSlots, OpenedByMount, Mounted
  <2> QED
    BY <1>2, <2>1, <2>3 DEF Authorizes
<1> QED
  BY <1>1, <1>2

\* An inserted key is tried: it is authorized when it mounts the file system, or
\* is known to open it; the file system is mounted by no other.
Recognizes(s, t, key, e) ==
    /\ Alone(s, t)
    /\ SameSlots(s, t)
    /\ s.secretsOpen => t.secretsOpen
    /\ OpenedByMount(s, t)
    /\ \/ /\ t.authorized = s.authorized \cup {key}
          /\ t.revoked = s.revoked \ {key}
          /\ t.crypto.mounted
          /\ Occupying(s.crypto.volume) # {} \/ s.crypto.mounted
       \/ /\ t.authorized = s.authorized
          /\ t.revoked = s.revoked
          /\ t.crypto.mounted = s.crypto.mounted
          /\ t.crypto.encryptionKey \in {s.crypto.encryptionKey, key}
          /\ \/ s.crypto.mounted
             \/ key \notin Occupying(s.crypto.volume)
             \/ ~s.crypto.isSetup
             \/ e.fault \in {"device", "loop", "mkdir", "open", "umount"}

LEMMA RecognizeEffect ==
  ASSUME NEW s, Shape(s), NEW key \in Keys, NEW e
  PROVE  LET t == recognizeKey(s, key, e) IN
         Recognizes(s, t, key, e) /\ SameWaiters(s, t)
<1> DEFINE c == tryEncryptionKey(s.crypto, key, e.fault)
           d == SetCrypto(s, c, e)
           t == Authorize(d, key)
           recognized == encryptionKeyInUse(s.crypto, key, e.fault)
<1>1. /\ key \in AnyKey /\ key # NoKey /\ CryptoShape(s.crypto)
      /\ s.crypto.mounted \in BOOLEAN
  BY KeyAssumption DEF AnyKey, Shape, CryptoShape
<1>2. recognizeKey(s, key, e) = IF ~s.crypto.isSetup THEN s
                                ELSE IF recognized THEN t ELSE d
  BY DEF recognizeKey
<1>3. ~s.crypto.isSetup => Recognizes(s, s, key, e) /\ SameWaiters(s, s)
  BY <1>1 DEF Recognizes, Alone, SameSlots, SameFiles, OpenedByMount, SameWaiters
<1>4. /\ Mounts(s.crypto, c, e.fault)
      /\ ~s.crypto.mounted /\ c.mounted => key \in Occupying(s.crypto.volume)
      /\ c.encryptionKey \in {s.crypto.encryptionKey, key}
  BY <1>1, TryMounts, TryShape
<1>5. recognized = IF s.crypto.mounted
                   THEN s.crypto.encryptionKey = key \/ keychainContainsKey(s.crypto, key)
                   ELSE c.mounted
  BY DEF encryptionKeyInUse
<1>6. \/ c.mounted
      \/ key \notin Occupying(s.crypto.volume)
      \/ e.fault \in {"device", "loop", "mkdir", "open", "umount"}
  BY <1>1, KeyWithSlotMounts
<1> HIDE DEF c, recognized
<1>7. CryptoShape(c) /\ c.mounted \in BOOLEAN
  BY <1>4 DEF Mounts, CryptoShape
<1>8. /\ Shape(d)
      /\ SameKeyring(s, d)
      /\ Alike(c, d.crypto)
      /\ d.secretsOpen = (\/ s.secretsOpen
                          \/ /\ c.mounted /\ ~s.crypto.mounted
                             /\ s.opened /\ e.fault # "database")
  BY <1>7, SetCryptoShape
<1> HIDE DEF d
<1>9. /\ Alone(s, d) /\ SameWaiters(s, d)
      /\ d.authorized = s.authorized /\ d.revoked = s.revoked
      /\ d.crypto.mounted = c.mounted
      /\ SameSlots(s, d)
      /\ s.secretsOpen => d.secretsOpen
      /\ OpenedByMount(s, d)
  BY <1>4, <1>8 DEF SameKeyring, SameKeys, Alone, SameWaiters, Alike, Mounts, SameSlots,
                    SameFiles, Occupying, OpenedByMount, Mounted
<1>10. /\ Alone(d, t) /\ SameWaiters(d, t)
       /\ t.authorized = d.authorized \cup {key}
       /\ t.revoked = d.revoked \ {key}
       /\ t.crypto = d.crypto
       /\ t.secretsOpen = d.secretsOpen
  BY <1>1, <1>8, AuthorizeShape
<1> HIDE DEF t
<1>11. s.crypto.mounted => c.mounted
  BY <1>4 DEF Mounts
<1>12. CASE s.crypto.isSetup /\ recognized
  <2>1. c.mounted
    BY <1>5, <1>11, <1>12
  <2>2. Occupying(s.crypto.volume) # {} \/ s.crypto.mounted
    BY <1>4, <2>1
  <2>3. /\ Alone(s, t) /\ SameWaiters(s, t) /\ SameSlots(s, t) /\ OpenedByMount(s, t)
        /\ s.secretsOpen => t.secretsOpen
    BY <1>9, <1>10 DEF Alone, SameWaiters, SameSlots, OpenedByMount, Mounted
  <2> QED
    BY <1>2, <1>9, <1>10, <1>12, <2>1, <2>2, <2>3 DEF Recognizes
<1>13. CASE s.crypto.isSetup /\ ~recognized
  <2>1. c.mounted = s.crypto.mounted
    BY <1>1, <1>5, <1>7, <1>11, <1>13
  <2>2. d.crypto.encryptionKey \in {s.crypto.encryptionKey, key}
    BY <1>4, <1>8 DEF Alike
  <2> QED
    BY <1>2, <1>6, <1>9, <1>13, <2>1, <2>2 DEF Recognizes
<1> QED
  BY <1>2, <1>3, <1>12, <1>13

\* A key is gone: the storage is closed when it was the last one in use.
Disables(s, t, key) ==
    /\ t.authorizer = s.authorizer
    /\ t.inserted = s.inserted \ {key}
    /\ t.authorized = s.authorized
    /\ t.revoked = s.revoked
    /\ t.opened = s.opened /\ t.dbExists = s.dbExists
    /\ SameSlots(s, t)
    /\ \/ /\ t.crypto.mounted = s.crypto.mounted
          /\ t.secretsOpen = s.secretsOpen
          /\ t.phase = s.phase
          /\ \/ key \notin s.authorized
             \/ t.inserted \cap t.authorized # {}
             \/ ~s.secretsOpen
       \/ /\ t.crypto.mounted = s.crypto.mounted
          /\ t.secretsOpen = s.secretsOpen
          /\ t.phase = "stopped"
          /\ ~s.dbExists
       \/ /\ ~t.crypto.mounted
          /\ ~t.secretsOpen
          /\ t.phase = s.phase
          /\ key \in s.authorized

LEMMA DisabledEffect ==
  ASSUME NEW s, Shape(s), NEW key, NEW e
  PROVE  LET t == onKeyDisabled(s, key, e) IN
         Disables(s, t, key) /\ SameWaiters(s, t)
<1> DEFINE a == [s EXCEPT !.inserted = @ \ {key}]
           b == [a EXCEPT !.phase = "stopped"]
           u == unmountFileSystem(a.crypto, e.fault)
           c == [a EXCEPT !.secretsOpen = FALSE, !.crypto = u]
<1>1. /\ Shape(a)
      /\ a.crypto = s.crypto /\ a.authorized = s.authorized /\ a.revoked = s.revoked
      /\ a.inserted = s.inserted \ {key}
      /\ a.phase = s.phase /\ a.authorizer = s.authorizer
      /\ a.opened = s.opened /\ a.dbExists = s.dbExists
      /\ a.secretsOpen = s.secretsOpen
      /\ SameWaiters(s, a)
  BY DEF Shape, Fields, SameWaiters
<1>2. \/ /\ onKeyDisabled(s, key, e) = a
         /\ \/ key \notin a.authorized
            \/ a.inserted \cap a.authorized # {}
            \/ ~a.secretsOpen
      \/ onKeyDisabled(s, key, e) = b /\ ~a.dbExists
      \/ onKeyDisabled(s, key, e) = c /\ key \in a.authorized
  BY DEF onKeyDisabled, onLastAuthorizedKeyRemoved, closeSecretsDB
<1> HIDE DEF a
<1>3. /\ b.crypto = a.crypto /\ b.authorized = a.authorized /\ b.revoked = a.revoked
      /\ b.inserted = a.inserted /\ b.phase = "stopped" /\ b.authorizer = a.authorizer
      /\ b.opened = a.opened /\ b.dbExists = a.dbExists
      /\ b.secretsOpen = a.secretsOpen
      /\ SameWaiters(a, b)
  BY <1>1 DEF Shape, Fields, SameWaiters
<1>4. SameFiles(a.crypto, u) /\ u.mounted = FALSE /\ u.volume = a.crypto.volume
  BY <1>1, UnmountShape DEF Shape
<1> HIDE DEF b, u
<1>5. /\ c.crypto = u /\ c.authorized = a.authorized /\ c.revoked = a.revoked
      /\ c.inserted = a.inserted /\ c.phase = a.phase /\ c.authorizer = a.authorizer
      /\ c.opened = a.opened /\ c.dbExists = a.dbExists
      /\ c.secretsOpen = FALSE
      /\ SameWaiters(a, c)
  BY <1>1 DEF Shape, Fields, SameWaiters
<1> HIDE DEF c
<1>6. SameSlots(s, a) /\ SameSlots(s, b) /\ SameSlots(s, c)
  BY <1>1, <1>3, <1>4, <1>5 DEF SameSlots, SameFiles
<1>7. SameWaiters(s, b) /\ SameWaiters(s, c)
  BY <1>1, <1>3, <1>5 DEF SameWaiters
<1>8. CASE /\ onKeyDisabled(s, key, e) = a
           /\ \/ key \notin a.authorized
              \/ a.inserted \cap a.authorized # {}
              \/ ~a.secretsOpen
  BY <1>1, <1>6, <1>8 DEF Disables
<1>9. CASE onKeyDisabled(s, key, e) = b /\ ~a.dbExists
  BY <1>1, <1>3, <1>6, <1>7, <1>9 DEF Disables
<1>10. CASE onKeyDisabled(s, key, e) = c /\ key \in a.authorized
  BY <1>1, <1>4, <1>5, <1>6, <1>7, <1>10 DEF Disables
<1> QED
  BY <1>2, <1>8, <1>9, <1>10

\* Revoking a key ends with the file system mounted and a slot less, or nothing.
Revokes(s, t, key, e) ==
    /\ Alone(s, t)
    /\ s.crypto.mounted => t.crypto.mounted
    /\ t.crypto.isSetup = s.crypto.isSetup
    /\ t.crypto.fileExists = s.crypto.fileExists
    /\ s.crypto.volume.secrets => t.crypto.volume.secrets
    /\ Occupying(t.crypto.volume) \subseteq Occupying(s.crypto.volume)
    /\ \/ /\ t.authorized = s.authorized
          /\ t.revoked = s.revoked
       \/ /\ t.authorized = s.authorized \ {key}
          /\ t.revoked = s.revoked \cup {key}
          /\ t.crypto.mounted
          /\ t.crypto.attached /\ e.fault # "slot" =>
                key \notin Chain(t.crypto) \/ key \notin Occupying(t.crypto.volume)

LEMMA RevokeEffect ==
  ASSUME NEW s, StorageInv(s), NEW key \in AnyKey, NEW e, Surrounding(e)
  PROVE  LET t == revokeKeyAuthorization(s, key, e) IN
         Revokes(s, t, key, e) /\ SameWaiters(s, t)
<1> DEFINE m == mountWithAuthorizedKey(s, e)
           c == removeEncryptionKey(m.crypto, key, e.fault)
           t == [m EXCEPT !.crypto = c, !.authorized = @ \ {key},
                          !.revoked = @ \cup {key}]
<1>1. \/ revokeKeyAuthorization(s, key, e) = s
      \/ revokeKeyAuthorization(s, key, e) = m /\ s.authorized # {}
      \/ /\ revokeKeyAuthorization(s, key, e) = t
         /\ s.authorized # {} /\ m.crypto.mounted
  BY DEF revokeKeyAuthorization, removeEncryptionKeySucceeds
<1>2. s.authorized # {} =>
         /\ StorageInv(m)
         /\ SameKeyring(s, m)
         /\ SameFiles(s.crypto, m.crypto)
         /\ Occupying(m.crypto.volume) = Occupying(s.crypto.volume)
         /\ s.crypto.mounted => m = s
  BY MountWithStep
<1> HIDE DEF m
<1>3. CASE revokeKeyAuthorization(s, key, e) = s
  BY <1>3 DEF Revokes, Alone, SameWaiters
<1>4. CASE revokeKeyAuthorization(s, key, e) = m /\ s.authorized # {}
  BY <1>2, <1>4 DEF SameKeyring, SameKeys, SameFiles, Revokes, Alone
<1>5. CASE /\ revokeKeyAuthorization(s, key, e) = t
           /\ s.authorized # {} /\ m.crypto.mounted
  <2>1. CryptoShape(m.crypto)
    BY <1>2, <1>5 DEF StorageInv, Shape
  <2>2. /\ CryptoShape(c)
        /\ c.isSetup = m.crypto.isSetup /\ c.fileExists = m.crypto.fileExists
        /\ c.mounted = m.crypto.mounted /\ c.attached = m.crypto.attached
        /\ c.volume.secrets = m.crypto.volume.secrets
        /\ Occupying(c.volume) \subseteq Occupying(m.crypto.volume)
        /\ m.crypto.mounted /\ m.crypto.attached /\ e.fault # "slot" =>
               key \notin Chain(c) \/ key \notin Occupying(c.volume)
    BY <2>1, RemoveSlotShape
  <2> HIDE DEF c
  <2>3. /\ t.crypto = c /\ t.authorized = m.authorized \ {key}
        /\ t.revoked = m.revoked \cup {key}
        /\ Alone(m, t) /\ SameWaiters(m, t)
    BY <1>2, <1>5 DEF StorageInv, Shape, Fields, Alone, SameWaiters
  <2> HIDE DEF t
  <2>4. Alone(s, t) /\ SameWaiters(s, t)
    BY <1>2, <1>5, <2>3 DEF SameKeyring, SameKeys, Alone, SameWaiters
  <2>5. /\ t.authorized = s.authorized \ {key}
        /\ t.revoked = s.revoked \cup {key}
    BY <1>2, <1>5, <2>3 DEF SameKeyring, SameKeys
  <2>6. /\ t.crypto.isSetup = s.crypto.isSetup
        /\ t.crypto.fileExists = s.crypto.fileExists
        /\ s.crypto.volume.secrets => t.crypto.volume.secrets
        /\ Occupying(t.crypto.volume) \subseteq Occupying(s.crypto.volume)
        /\ t.crypto.mounted
    BY <1>2, <1>5, <2>2, <2>3 DEF SameFiles
  <2>7. t.crypto.attached /\ e.fault # "slot" =>
           key \notin Chain(t.crypto) \/ key \notin Occupying(t.crypto.volume)
    BY <1>5, <2>2, <2>3
  <2> QED
    BY <1>5, <2>4, <2>5, <2>6, <2>7 DEF Revokes
<1> QED
  BY <1>1, <1>3, <1>4, <1>5

-----------------------------------------------------------------------------
(* What opening, closing and replacing the files does to the keys. *)

\* The secrets database is open only in an open system.
DbInv(s) ==
    /\ s.opened => s.dbExists
    /\ s.secretsOpen => s.opened

\* Only a container that is there has keys, or is mounted.
FileInv(s) == SlotsOnFile(s) /\ (s.crypto.mounted => s.crypto.isSetup)

Keeps(s, t) ==
    /\ DbInv(s) => DbInv(t)
    /\ FileInv(s) => FileInv(t)

LEMMA OpenSystemEffect ==
  ASSUME NEW s, Shape(s), NEW e
  PROVE  LET t == openCredentialsSystem(s, e) IN
         /\ SameKeys(s, t) /\ SameWaiters(s, t) /\ SameSlots(s, t)
         /\ Keeps(s, t)
         /\ s.crypto.mounted => t.crypto.mounted
         /\ t.secretsOpen => s.secretsOpen \/ t.crypto.mounted
         /\ Mounted(s, t) => s.crypto.encryptionKey \in Occupying(s.crypto.volume) \ {NoKey}
<1> DEFINE a == [s EXCEPT !.dbExists = TRUE]
           b == [s EXCEPT !.dbExists = TRUE, !.opened = TRUE,
                          !.metadata = IF @ = Absent THEN New ELSE @]
           m == mountFileSystem(b.crypto, e.fault)
           o == openSecretsDB(b, e)
           c == SetCrypto(b, m, e)
<1>1. /\ a.crypto = s.crypto /\ a.secretsOpen = s.secretsOpen
      /\ a.opened = s.opened /\ a.dbExists
      /\ SameKeys(s, a) /\ SameWaiters(s, a)
  BY DEF Shape, Fields, SameKeys, SameWaiters
<1>2. /\ Shape(b)
      /\ b.crypto = s.crypto /\ b.secretsOpen = s.secretsOpen
      /\ b.opened = TRUE /\ b.dbExists
      /\ SameKeys(s, b) /\ SameWaiters(s, b)
  BY DEF Shape, Fields, SameKeys, SameWaiters
<1>3. openCredentialsSystem(s, e) =
         IF e.fault = "metadata" THEN a
         ELSE IF b.crypto.mounted THEN o ELSE c
  BY DEF openCredentialsSystem
<1> HIDE DEF a, b
<1>4. CASE e.fault = "metadata"
  <2>1. SameSlots(s, a) /\ Keeps(s, a)
    BY <1>1 DEF SameSlots, SameFiles, Keeps, DbInv, FileInv, SlotsOnFile
  <2> QED
    BY <1>1, <1>3, <1>4, <2>1 DEF Mounted
<1>5. CASE e.fault # "metadata" /\ b.crypto.mounted
  <2>1. /\ SameKeyring(b, o)
        /\ Alike(b.crypto, o.crypto)
        /\ o.secretsOpen = (b.secretsOpen \/ (b.crypto.mounted /\ e.fault # "database"))
    BY <1>2, OpenSecretsShape
  <2> HIDE DEF o
  <2>2. SameKeys(s, o) /\ SameWaiters(s, o) /\ SameSlots(s, o)
    BY <1>2, <2>1 DEF SameKeyring, SameKeys, SameWaiters, Alike, SameSlots, SameFiles
  <2>3. Keeps(s, o)
    BY <1>2, <2>1 DEF SameKeyring, Alike, SameFiles, Keeps, DbInv, FileInv, SlotsOnFile
  <2> QED
    BY <1>2, <1>3, <1>5, <2>1, <2>2, <2>3 DEF Mounted, Alike
<1>6. CASE e.fault # "metadata" /\ ~b.crypto.mounted
  <2>1. CryptoShape(b.crypto) /\ b.secretsOpen \in BOOLEAN
    BY <1>2 DEF Shape
  <2>2. /\ CryptoShape(m)
        /\ SameFiles(b.crypto, m)
        /\ ~b.crypto.mounted /\ m.mounted =>
              /\ b.crypto.encryptionKey \in Occupying(b.crypto.volume)
              /\ b.crypto.encryptionKey # NoKey
    BY <2>1, MountShape
  <2> HIDE DEF m
  <2>3. /\ SameKeyring(b, c)
        /\ Alike(m, c.crypto)
        /\ c.secretsOpen = (\/ b.secretsOpen
                            \/ /\ m.mounted /\ ~b.crypto.mounted
                               /\ b.opened /\ e.fault # "database")
    BY <1>2, <2>2, SetCryptoShape
  <2> HIDE DEF c
  <2>4. SameKeys(s, c) /\ SameWaiters(s, c)
    BY <1>2, <2>3 DEF SameKeyring, SameKeys, SameWaiters
  <2>5. SameSlots(s, c)
    BY <1>2, <2>2, <2>3 DEF Alike, SameSlots, SameFiles, Occupying
  <2>6. /\ c.crypto.mounted = m.mounted /\ c.opened /\ c.dbExists
        /\ c.secretsOpen => s.secretsOpen \/ c.crypto.mounted
    BY <1>2, <2>1, <2>3 DEF Alike, SameKeyring
  <2>7. Mounted(s, c) => s.crypto.encryptionKey \in Occupying(s.crypto.volume) \ {NoKey}
    BY <1>2, <2>2, <2>6 DEF Mounted
  <2>8. Keeps(s, c)
    <3>1. DbInv(c)
      BY <2>6 DEF DbInv
    <3>2. FileInv(s) => FileInv(c)
      BY <1>2, <1>6, <2>5, <2>7 DEF FileInv, SlotsOnFile, SameSlots, SameFiles, Mounted
    <3> QED
      BY <3>1, <3>2 DEF Keeps
  <2> QED
    BY <1>2, <1>3, <1>6, <2>4, <2>5, <2>6, <2>7, <2>8
<1> QED
  BY <1>4, <1>5, <1>6

LEMMA CloseSystemEffect ==
  ASSUME NEW s, Shape(s), NEW e
  PROVE  LET t == closeCredentialsSystem(s, e) IN
         /\ Shape(t)
         /\ SameKeys(s, t) /\ SameWaiters(s, t) /\ SameSlots(s, t)
         /\ Keeps(s, t)
<1> DEFINE u == unmountFileSystem(s.crypto, e.fault)
           a == [s EXCEPT !.secretsOpen = FALSE, !.crypto = u]
           b == IF s.secretsOpen THEN a ELSE s
           t == [b EXCEPT !.dbExists = FALSE, !.opened = FALSE]
<1>1. /\ CryptoShape(u)
      /\ SameFiles(s.crypto, u)
      /\ u.mounted = FALSE
      /\ u.volume = s.crypto.volume
  BY UnmountShape DEF Shape
<1>2. closeCredentialsSystem(s, e) = IF ~s.opened THEN s ELSE t
  BY DEF closeCredentialsSystem, closeSecretsDB
<1> HIDE DEF u
<1>3. /\ Shape(a)
      /\ a.crypto = u /\ a.secretsOpen = FALSE
      /\ SameKeys(s, a) /\ SameWaiters(s, a)
  BY <1>1 DEF Shape, Fields, SameKeys, SameWaiters
<1> HIDE DEF a
<1>4. /\ Shape(b)
      /\ SameKeys(s, b) /\ SameWaiters(s, b)
      /\ b.crypto = s.crypto \/ b.crypto = u
      /\ ~b.secretsOpen
  BY <1>3 DEF Shape, SameKeys, SameWaiters
<1> HIDE DEF b
<1>5. /\ Shape(t)
      /\ t.crypto = b.crypto /\ ~t.secretsOpen
      /\ t.opened = FALSE
      /\ SameKeys(b, t) /\ SameWaiters(b, t)
  BY <1>4 DEF Shape, Fields, SameKeys, SameWaiters
<1> HIDE DEF t
<1>6. SameSlots(s, s) /\ Keeps(s, s) /\ SameKeys(s, s) /\ SameWaiters(s, s)
  BY DEF SameSlots, SameFiles, Keeps, SameKeys, SameWaiters
<1>7. SameKeys(s, t) /\ SameWaiters(s, t)
  BY <1>4, <1>5 DEF SameKeys, SameWaiters
<1>8. SameSlots(s, t)
  BY <1>1, <1>4, <1>5 DEF SameSlots, SameFiles
<1>9. Keeps(s, t)
  BY <1>1, <1>4, <1>5, <1>8 DEF Keeps, DbInv, FileInv, SlotsOnFile, SameSlots, SameFiles
<1> QED
  BY <1>2, <1>5, <1>6, <1>7, <1>8, <1>9

LEMMA WithFilesEffect ==
  ASSUME NEW s, Shape(s), NEW d, d.live[Container] # Absent => s.crypto.fileExists
  PROVE  LET t == WithFiles(s, d) IN
         /\ Shape(t)
         /\ SameKeys(s, t) /\ SameWaiters(s, t)
         /\ Keeps(s, t)
         /\ Occupying(t.crypto.volume) \subseteq Occupying(s.crypto.volume)
<1> DEFINE there == d.live[Container] # Absent
           c == [s.crypto EXCEPT !.fileExists = there,
                                 !.volume = IF there THEN @ ELSE EmptyVolume]
           t == [s EXCEPT !.metadata = d.live[Metadata], !.bak = d.bak, !.crypto = c]
<1>1. WithFiles(s, d) = t
  BY DEF WithFiles, Shape, Fields, CryptoShape, CryptoFields
<1>2. /\ CryptoShape(c)
      /\ c.fileExists = there /\ c.mounted = s.crypto.mounted
      /\ c.isSetup = s.crypto.isSetup
      /\ c.volume = IF there THEN s.crypto.volume ELSE EmptyVolume
  BY EmptyShape DEF Shape, CryptoShape, CryptoFields
<1> HIDE DEF c
<1>3. /\ Shape(t)
      /\ t.crypto = c
      /\ t.opened = s.opened /\ t.dbExists = s.dbExists
      /\ t.secretsOpen = s.secretsOpen
      /\ SameKeys(s, t) /\ SameWaiters(s, t)
  BY <1>2 DEF Shape, Fields, SameKeys, SameWaiters
<1> HIDE DEF t
<1>4. Occupying(EmptyVolume) = {}
  BY EmptyShape
<1>5. Occupying(t.crypto.volume) \subseteq Occupying(s.crypto.volume)
  BY <1>2, <1>3, <1>4
<1>6. Keeps(s, t)
  BY <1>2, <1>3, <1>4 DEF Keeps, DbInv, FileInv, SlotsOnFile
<1> QED
  BY <1>1, <1>3, <1>5, <1>6

\* signond has just been started.
Fresh(s) ==
    /\ s.phase = "starting"
    /\ s.inserted = {} /\ s.authorized = {} /\ s.queries = {}
    /\ ~s.secretsOpen /\ ~s.opened
    /\ ~s.crypto.mounted /\ s.crypto.encryptionKey = NoKey

LEMMA RestartedEffect ==
  ASSUME NEW s, Shape(s)
  PROVE  LET t == restarted(s) IN
         /\ Fresh(t)
         /\ t.authorizer = s.authorizer /\ t.revoked = s.revoked
         /\ Occupying(t.crypto.volume) = Occupying(s.crypto.volume)
         /\ s.crypto.volume.secrets => t.crypto.volume.secrets
         /\ Keeps(s, t)
<1> DEFINE t == restarted(s)
<1>1. /\ Fresh(t)
      /\ t.authorizer = s.authorizer /\ t.revoked = s.revoked
      /\ t.crypto = CryptoRestart(s.crypto)
  BY DEF Shape, Fields, CryptoShape, CryptoFields, restarted, CryptoRestart, Fresh
<1>2. /\ t.crypto.volume = s.crypto.volume
      /\ t.crypto.isSetup = s.crypto.fileExists
      /\ t.crypto.fileExists = s.crypto.fileExists
  BY <1>1, RestartShape DEF Shape
<1> HIDE DEF t
<1>3. Keeps(s, t)
  BY <1>1, <1>2 DEF Fresh, Keeps, DbInv, FileInv, SlotsOnFile
<1> QED
  BY <1>1, <1>2, <1>3 DEF t

\* A backup or a restore: the keyring is as it was, or signond was killed.
Replaces(s, t) ==
    /\ t.authorizer = s.authorizer /\ t.revoked = s.revoked
    /\ Occupying(t.crypto.volume) \subseteq Occupying(s.crypto.volume)
    /\ Keeps(s, t)
    /\ \/ SameKeys(s, t) /\ SameWaiters(s, t)
       \/ Fresh(t)

LEMMA BackupEffect ==
  ASSUME NEW s, StorageInv(s), ~NothingFails, FilesKept(s, backup), NEW e, NEW f
  PROVE  Replaces(s, backupStarts(s, e, f))
<1> DEFINE closed  == closeCredentialsSystem(s, e)
           d       == Files(closed)
           created == createStorageFileTree(d, f)
           copied  == copyToBackupDir(created, f)
           t1      == WithFiles(closed, created)
           t2      == WithFiles(closed, copied.files)
           t3      == openCredentialsSystem(t2, e)
<1>1. /\ Shape(closed)
      /\ SameKeys(s, closed) /\ SameWaiters(s, closed) /\ SameSlots(s, closed)
      /\ Keeps(s, closed)
      /\ SameFilesOnDisk(s, closed)
  BY CloseSystemEffect, CloseSystemStep DEF StorageInv
<1>2. backupStarts(s, e, f) \in {t1, t3}
  BY DEF backupStarts
<1> HIDE DEF closed
<1>3. DiskShape(closed) /\ backup \in [Names -> Contents]
  BY <1>1 DEF FilesKept, DiskShape, SameFilesOnDisk
<1>4. FileShape(d) /\ d.live[Container] = IF closed.crypto.fileExists THEN Stored ELSE Absent
  BY <1>3, FilesShape
<1> HIDE DEF d
<1>5. FileShape(created) /\ created.live[Container] = d.live[Container]
  BY <1>4, TreeKeeps
<1> HIDE DEF created
<1>6. copied.files.live[Container] \in {Absent, created.live[Container]}
  BY <1>5, BackupKeeps
<1> HIDE DEF copied
<1>7. /\ created.live[Container] # Absent => closed.crypto.fileExists
      /\ copied.files.live[Container] # Absent => closed.crypto.fileExists
  BY <1>4, <1>5, <1>6
<1>8. /\ SameKeys(closed, t1) /\ SameWaiters(closed, t1)
      /\ Keeps(closed, t1)
      /\ Occupying(t1.crypto.volume) \subseteq Occupying(closed.crypto.volume)
  BY <1>1, <1>7, WithFilesEffect
<1>9. /\ Shape(t2)
      /\ SameKeys(closed, t2) /\ SameWaiters(closed, t2)
      /\ Keeps(closed, t2)
      /\ Occupying(t2.crypto.volume) \subseteq Occupying(closed.crypto.volume)
  BY <1>1, <1>7, WithFilesEffect
<1> HIDE DEF t1, t2
<1>10. /\ SameKeys(t2, t3) /\ SameWaiters(t2, t3) /\ SameSlots(t2, t3)
       /\ Keeps(t2, t3)
  BY <1>9, OpenSystemEffect
<1> HIDE DEF t3
<1>11. SameKeys(s, t1) /\ SameWaiters(s, t1) /\ SameKeys(s, t3) /\ SameWaiters(s, t3)
  BY <1>1, <1>8, <1>9, <1>10 DEF SameKeys, SameWaiters
<1>12. Keeps(s, t1) /\ Keeps(s, t3)
  BY <1>1, <1>8, <1>9, <1>10 DEF Keeps
<1>13. /\ Occupying(t1.crypto.volume) \subseteq Occupying(s.crypto.volume)
       /\ Occupying(t3.crypto.volume) \subseteq Occupying(s.crypto.volume)
  BY <1>1, <1>8, <1>9, <1>10 DEF SameSlots
<1>14. Replaces(s, t1) /\ Replaces(s, t3)
  BY <1>11, <1>12, <1>13 DEF Replaces, SameKeys
<1> QED
  BY <1>2, <1>14

LEMMA RestoreEffect ==
  ASSUME NEW s, StorageInv(s), ~NothingFails, FilesKept(s, backup), NEW e, NEW f
  PROVE  Replaces(s, restoreFinished(s, e, f))
<1> DEFINE closed   == closeCredentialsSystem(s, e)
           d        == Files(closed)
           n        == copyFromBackupDir(d, f)
           restored == WithFiles(closed, n)
           t1       == restarted(restored)
           t2       == openCredentialsSystem(restored, e)
<1>1. /\ Shape(closed)
      /\ SameKeys(s, closed) /\ SameWaiters(s, closed) /\ SameSlots(s, closed)
      /\ Keeps(s, closed)
      /\ SameFilesOnDisk(s, closed)
  BY CloseSystemEffect, CloseSystemStep DEF StorageInv
<1>2. restoreFinished(s, e, f) \in {closed, t1, t2}
  BY DEF restoreFinished
<1> HIDE DEF closed
<1>3. DiskShape(closed) /\ backup \in [Names -> Contents]
  BY <1>1 DEF FilesKept, DiskShape, SameFilesOnDisk
<1>4. FileShape(d) /\ d.live[Container] = IF closed.crypto.fileExists THEN Stored ELSE Absent
  BY <1>3, FilesShape
<1> HIDE DEF d
<1>5. n.live[Container] \in {Absent, d.live[Container]}
  BY <1>4, RestoreKeeps
<1> HIDE DEF n
<1>6. n.live[Container] # Absent => closed.crypto.fileExists
  BY <1>4, <1>5
<1>7. /\ Shape(restored)
      /\ SameKeys(closed, restored) /\ SameWaiters(closed, restored)
      /\ Keeps(closed, restored)
      /\ Occupying(restored.crypto.volume) \subseteq Occupying(closed.crypto.volume)
  BY <1>1, <1>6, WithFilesEffect
<1> HIDE DEF restored
<1>8. /\ Fresh(t1)
      /\ t1.authorizer = restored.authorizer /\ t1.revoked = restored.revoked
      /\ Occupying(t1.crypto.volume) = Occupying(restored.crypto.volume)
      /\ Keeps(restored, t1)
  BY <1>7, RestartedEffect
<1>9. /\ SameKeys(restored, t2) /\ SameWaiters(restored, t2) /\ SameSlots(restored, t2)
      /\ Keeps(restored, t2)
  BY <1>7, OpenSystemEffect
<1> HIDE DEF t1, t2
<1>10. Replaces(s, closed)
  BY <1>1 DEF Replaces, SameKeys, SameSlots
<1>11. Replaces(s, t1)
  <2>1. Keeps(s, t1)
    BY <1>1, <1>7, <1>8 DEF Keeps
  <2>2. Occupying(t1.crypto.volume) \subseteq Occupying(s.crypto.volume)
    BY <1>1, <1>7, <1>8 DEF SameSlots
  <2> QED
    BY <1>1, <1>7, <1>8, <2>1, <2>2 DEF Replaces, SameKeys
<1>12. Replaces(s, t2)
  <2>1. Keeps(s, t2)
    BY <1>1, <1>7, <1>9 DEF Keeps
  <2>2. Occupying(t2.crypto.volume) \subseteq Occupying(s.crypto.volume)
    BY <1>1, <1>7, <1>9 DEF SameSlots
  <2>3. SameKeys(s, t2) /\ SameWaiters(s, t2)
    BY <1>1, <1>7, <1>9 DEF SameKeys, SameWaiters
  <2> QED
    BY <2>1, <2>2, <2>3 DEF Replaces, SameKeys
<1> QED
  BY <1>2, <1>10, <1>11, <1>12

-----------------------------------------------------------------------------
(* What the slots do to the keys. *)

\* From s to t the keys, the secrets and the container did not change.
Unchanged(s, t) ==
    /\ Alone(s, t)
    /\ t.authorized = s.authorized
    /\ t.revoked = s.revoked
    /\ t.crypto = s.crypto
    /\ t.secretsOpen = s.secretsOpen

LEMMA UnchangedAuthorizes ==
  ASSUME NEW a, NEW s, NEW t, NEW key, NEW e, Unchanged(a, s)
  PROVE  /\ Stays(a, t, e) <=> Stays(s, t, e)
         /\ Gains(a, t, key) <=> Gains(s, t, key)
         /\ Formats(a, t, key, e) <=> Formats(s, t, key, e)
<1>1. Stays(a, t, e) <=> Stays(s, t, e)
  BY DEF Unchanged, Stays, Alone, SameSlots, OpenedByMount, Mounted, CannotAdd
<1>2. Gains(a, t, key) <=> Gains(s, t, key)
  BY DEF Unchanged, Gains, Alone, OpenedByMount, Mounted
<1>3. Formats(a, t, key, e) <=> Formats(s, t, key, e)
  BY DEF Unchanged, Formats, Alone, OpenedByMount, Mounted
<1> QED
  BY <1>1, <1>2, <1>3

\* The inserted key is noted, tried, and asked for unless it is authorized then.
Inserts(s, t, b, c, key, e) ==
    /\ b.inserted = s.inserted \cup {key}
    /\ b.phase = s.phase /\ b.authorizer = s.authorizer
    /\ b.opened = s.opened /\ b.dbExists = s.dbExists
    /\ b.authorized = s.authorized /\ b.revoked = s.revoked
    /\ b.crypto = s.crypto /\ b.secretsOpen = s.secretsOpen
    /\ b.queries = s.queries
    /\ Recognizes(b, c, key, e) /\ c.queries = b.queries
    /\ StorageInv(c)
    /\ \/ t = c /\ key \in c.authorized
       \/ /\ key \notin c.authorized
          /\ Authorizes(c, t, key, e)
          /\ c.authorizer = "default" => ByDefault(c, t, key, e)

LEMMA InsertedEffect ==
  ASSUME NEW s, StorageInv(s), NEW manager, NEW key \in AnyKey,
         NEW e, Surrounding(e)
  PROVE  LET t == onKeyInserted(s, manager, key, e) IN
         \/ Unchanged(s, t) /\ t.queries = s.queries
         \/ key \in Keys /\ \E b, c : Inserts(s, t, b, c, key, e)
<1> DEFINE a == IF isReady(s) THEN s
                ELSE [s EXCEPT !.readyManagers = @ \cup {manager}]
           b == [a EXCEPT !.inserted = @ \cup {key}]
           c == recognizeKey(b, key, e)
           t == AskUnlessAuthorized(c, key, e)
<1>1. /\ Shape(a)
      /\ Unchanged(s, a) /\ a.queries = s.queries
  BY DEF StorageInv, Shape, Fields, Unchanged, Alone
<1>2. onKeyInserted(s, manager, key, e) = IF key = NoKey THEN a ELSE t
  BY DEF onKeyInserted
<1> HIDE DEF a
<1>3. /\ Shape(b)
      /\ b.inserted = s.inserted \cup {key}
      /\ b.phase = s.phase /\ b.authorizer = s.authorizer
      /\ b.opened = s.opened /\ b.dbExists = s.dbExists
      /\ b.authorized = s.authorized /\ b.revoked = s.revoked
      /\ b.crypto = s.crypto /\ b.secretsOpen = s.secretsOpen
      /\ b.queries = s.queries
  BY <1>1 DEF Shape, Fields, Unchanged, Alone
<1> HIDE DEF b
<1>4. CASE key = NoKey
  BY <1>1, <1>2, <1>4
<1>5. CASE key # NoKey
  <2>1. key \in Keys
    BY <1>5 DEF AnyKey
  <2>2. Recognizes(b, c, key, e) /\ SameWaiters(b, c)
    BY <1>3, <2>1, RecognizeEffect
  <2>3. StorageInv(c)
    <3>1. ReliableMounts => MountInv(b)
      BY <1>3 DEF StorageInv, MountInv
    <3>2. NoRemovals => RingInv(b)
      BY <1>3 DEF StorageInv, RingInv
    <3>3. NothingFails => /\ MountedIsOpen(b)
                          /\ SlotsOnFile(b)
                          /\ \/ key \in Occupying(b.crypto.volume)
                             \/ KeyMounts(b)
      BY <1>3 DEF StorageInv, OpenInv, MountedIsOpen, KeyMounts, SlotsOnFile
    <3> QED
      BY <1>3, <2>1, <3>1, <3>2, <3>3, RecognizeStep
  <2> HIDE DEF c
  <2>4. \/ t = c /\ key \in c.authorized
        \/ /\ key \notin c.authorized
           /\ Authorizes(c, t, key, e)
           /\ c.authorizer = "default" => ByDefault(c, t, key, e)
    BY <2>3, QueryEffect DEF AskUnlessAuthorized
  <2> HIDE DEF t
  <2>5. Inserts(s, t, b, c, key, e)
    BY <1>3, <2>2, <2>3, <2>4 DEF Inserts, SameWaiters
  <2> QED
    BY <1>2, <1>5, <2>1, <2>5
<1> QED
  BY <1>4, <1>5

LEMMA NotAvailableEffect ==
  ASSUME NEW s, StorageInv(s), NEW sender, NEW e, Surrounding(e)
  PROVE  LET t == secureStorageNotAvailable(s, sender, e) IN
         \/ Unchanged(s, t) /\ t.queries = s.queries
         \/ /\ ~s.secretsOpen
            /\ Authorizes(s, t, NoKey, e)
            /\ s.authorizer = "default" => ByDefault(s, t, NoKey, e)
<1> DEFINE a == [s EXCEPT !.notifiers = @ \cup {sender}]
           b == [a EXCEPT !.notifiers = {}]
           c == queryKeyAuthorization(a, NoKey, e)
<1>1. /\ Shape(a)
      /\ Unchanged(s, a) /\ a.queries = s.queries
  BY DEF StorageInv, Shape, Fields, Unchanged, Alone
<1>2. \/ secureStorageNotAvailable(s, sender, e) = b
      \/ secureStorageNotAvailable(s, sender, e) = c /\ ~a.secretsOpen
  BY DEF secureStorageNotAvailable, replyToSecureStorageEventNotifiers
<1> HIDE DEF a
<1>3. StorageInv(a)
  BY <1>1 DEF StorageInv, MountInv, RingInv, OpenInv, MountedIsOpen, KeyMounts,
              SlotsOnFile, Unchanged, Alone
<1>4. Unchanged(s, b) /\ b.queries = s.queries
  BY <1>1 DEF Shape, Fields, Unchanged, Alone
<1> HIDE DEF b
<1>5. /\ Authorizes(a, c, NoKey, e)
      /\ a.authorizer = "default" => ByDefault(a, c, NoKey, e)
  BY <1>3, QueryEffect DEF AnyKey
<1> HIDE DEF c
<1>6. /\ Authorizes(s, c, NoKey, e)
      /\ s.authorizer = "default" => ByDefault(s, c, NoKey, e)
  BY <1>1, <1>5, UnchangedAuthorizes DEF Authorizes, ByDefault, Unchanged, Alone
<1> QED
  BY <1>1, <1>2, <1>4, <1>6 DEF Unchanged

LEMMA AnswerEffect ==
  ASSUME NEW s, StorageInv(s), NEW key \in AnyKey, NEW result, NEW e, Surrounding(e)
  PROVE  Authorizes(s, onKeyAuthorizationQueried([s EXCEPT !.queries = @ \ {key}],
                                                 key, result, e), key, e)
<1> DEFINE a == [s EXCEPT !.queries = @ \ {key}]
           t == onKeyAuthorizationQueried(a, key, result, e)
<1>1. Shape(a) /\ Unchanged(s, a)
  BY DEF StorageInv, Shape, Fields, Unchanged, Alone
<1> HIDE DEF a
<1>2. StorageInv(a)
  BY <1>1 DEF StorageInv, MountInv, RingInv, OpenInv, MountedIsOpen, KeyMounts,
              SlotsOnFile, Unchanged, Alone
<1>3. Authorizes(a, t, key, e)
  BY <1>2, QueriedEffect DEF Authorizes
<1> HIDE DEF t
<1>4. Authorizes(s, t, key, e)
  BY <1>1, <1>3, UnchangedAuthorizes DEF Authorizes
<1> QED
  BY <1>4 DEF t, a

-----------------------------------------------------------------------------
(* A key that was revoked opens nothing. *)

\* The calls that fail unnoticed, or leave a container with a key that nobody
\* authorized: a slot that is not freed, and a mount after the formatting.
TrueReports == Faults \cap {"open", "mkdir", "mount", "umount", "slot"} = {}

KeysGone(s) == s.revoked \cap Occupying(s.crypto.volume) = {}

LEMMA TrueReportsMount ==
  ASSUME TrueReports
  PROVE  /\ ReliableMounts
         /\ \A e : Surrounding(e) =>
                      e.fault \notin {"open", "mkdir", "mount", "umount", "slot"}
  BY DEF TrueReports, ReliableMounts, Surrounding

LEMMA AuthorizesGone ==
  ASSUME TrueReports, NEW s, NEW t, NEW key, NEW e, Surrounding(e),
         KeysGone(s), Authorizes(s, t, key, e)
  PROVE  KeysGone(t)
<1>1. CASE Stays(s, t, e)
  BY <1>1 DEF Stays, SameSlots, KeysGone
<1>2. CASE Gains(s, t, key)
  BY <1>2 DEF Gains, KeysGone
<1>3. CASE Formats(s, t, key, e)
  BY <1>3, TrueReportsMount DEF Formats, KeysGone
<1> QED
  BY <1>1, <1>2, <1>3 DEF Authorizes

LEMMA InsertsGone ==
  ASSUME TrueReports, NEW s, NEW t, NEW b, NEW c, NEW key, NEW e, Surrounding(e),
         KeysGone(s), Inserts(s, t, b, c, key, e)
  PROVE  KeysGone(t)
<1>1. KeysGone(b)
  BY DEF Inserts, KeysGone
<1>2. KeysGone(c)
  BY <1>1 DEF Inserts, Recognizes, SameSlots, KeysGone
<1> QED
  BY <1>2, AuthorizesGone DEF Inserts

LEMMA RemovedGone ==
  ASSUME TrueReports, NEW s, StorageInv(s), "remove" \in Events,
         NEW key \in AnyKey, NEW e, Surrounding(e), KeysGone(s)
  PROVE  LET t == onKeyRemoved(s, key, e) IN
         \/ KeysGone(t)
         \/ /\ t.crypto.mounted /\ t.crypto.attached
            /\ Occupying(t.crypto.volume) # Chain(t.crypto)
<1> DEFINE a == onKeyDisabled(s, key, e)
           b == revokeKeyAuthorization(a, key, e)
<1>1. Disables(s, a, key) /\ StorageInv(a)
  BY DisabledEffect, DisabledStep DEF StorageInv
<1>2. Revokes(a, b, key, e) /\ StorageInv(b)
  BY <1>1, RevokeEffect, RevokeStep
<1>3. onKeyRemoved(s, key, e) \in {a, b}
  BY DEF onKeyRemoved
<1> HIDE DEF a, b
<1>4. KeysGone(a)
  BY <1>1 DEF Disables, SameSlots, KeysGone
<1>5. b.crypto.mounted => b.crypto.attached
  BY <1>2, TrueReportsMount DEF StorageInv, MountInv
<1>6. KeysGone(b) \/ (b.crypto.mounted /\ b.crypto.attached
                      /\ Occupying(b.crypto.volume) # Chain(b.crypto))
  <2>1. CASE b.revoked = a.revoked
    BY <1>2, <1>4, <2>1 DEF Revokes, KeysGone
  <2>2. CASE /\ b.revoked = a.revoked \cup {key}
             /\ b.crypto.mounted
             /\ \/ key \notin Chain(b.crypto)
                \/ key \notin Occupying(b.crypto.volume)
    BY <1>2, <1>4, <1>5, <2>2 DEF Revokes, KeysGone
  <2> QED
    BY <1>2, <1>5, <2>1, <2>2, TrueReportsMount DEF Revokes
<1> QED
  BY <1>3, <1>4, <1>6

Gone == ~lostTrack => KeysGone(storage)

LEMMA InitGone == Init => Gone
  BY DEF Init, Gone, KeysGone

LEMMA NextGone ==
  ASSUME TrueReports, Safe, Gone, [Next]_vars
  PROVE  Gone'
<1> SUFFICES ASSUME ~lostTrack' PROVE KeysGone(storage')
  BY DEF Gone
<1>1. StorageInv(storage) /\ FilesKept(storage, backup) /\ Shape(storage)
  BY DEF Safe, StorageInv
<1>2. ~lostTrack => KeysGone(storage)
  BY DEF Gone
<1>3. ASSUME NEW s, Becomes(s), KeysGone(storage) => KeysGone(s)
      PROVE  KeysGone(storage')
  BY <1>2, <1>3 DEF Becomes
<1>4. ASSUME NEW phase, Becomes([storage EXCEPT !.phase = phase])
      PROVE  KeysGone(storage')
  <2> DEFINE t == [storage EXCEPT !.phase = phase]
  <2>1. t.crypto = storage.crypto /\ t.revoked = storage.revoked
    BY <1>1 DEF Shape, Fields
  <2> QED
    BY <1>3, <1>4, <2>1 DEF KeysGone
<1>5. CASE Restart
  <2>1. Becomes(restarted(storage))
    BY <1>5 DEF Restart
  <2>2. KeysGone(storage) => KeysGone(restarted(storage))
    BY <1>1, RestartedEffect DEF KeysGone
  <2> QED
    BY <1>3, <2>1, <2>2
<1>6. CASE BackupMode \/ BackupOrRestoreInBackupMode
  BY <1>4, <1>6 DEF BackupMode, BackupOrRestoreInBackupMode
<1>7. CASE SecretsStored
  <2> DEFINE t == [storage EXCEPT !.crypto.volume.secrets = TRUE]
  <2>1. Becomes(t)
    BY <1>7 DEF SecretsStored
  <2>2. SameKeyring(storage, t) /\ Alike(storage.crypto, t.crypto)
    BY <1>1, StoredShape
  <2> QED
    BY <1>3, <2>1, <2>2 DEF SameKeyring, SameKeys, Alike, KeysGone
<1>8. ASSUME NEW e \in Surroundings, Start(e)
      PROVE  KeysGone(storage')
  <2> DEFINE o == openCredentialsSystem(storage, e)
             t == [o EXCEPT !.phase = "running"]
  <2>1. Becomes(t)
    BY <1>8 DEF Start
  <2>2. SameKeys(storage, o) /\ SameSlots(storage, o)
    BY <1>1, OpenSystemEffect
  <2>3. Surrounding(e)
    BY <1>8, SurroundingsAreSuch
  <2>4. Shape(o)
    BY <1>1, <2>3, OpenSystemStep DEF StorageInv
  <2> HIDE DEF o
  <2>5. t.crypto = o.crypto /\ t.revoked = o.revoked
    BY <2>4 DEF Shape, Fields
  <2> HIDE DEF t
  <2> QED
    BY <1>3, <2>1, <2>2, <2>5 DEF SameKeys, SameSlots, KeysGone
<1>9. ASSUME NEW e \in Surroundings, NEW f \in FileEvents, Backup(e, f)
      PROVE  KeysGone(storage')
  <2>1. /\ storage' = backupStarts(storage, e, f) /\ ~NothingFails
        /\ lostTrack' = (lostTrack \/ ~KeychainComplete')
    BY <1>9 DEF Backup, NothingFails
  <2>2. Replaces(storage, backupStarts(storage, e, f))
    BY <1>1, <2>1, BackupEffect
  <2> QED
    BY <1>2, <2>1, <2>2 DEF Replaces, KeysGone
<1>10. ASSUME NEW e \in Surroundings, NEW f \in FileEvents, Restore(e, f)
       PROVE  KeysGone(storage')
  <2>1. Becomes(restoreFinished(storage, e, f)) /\ ~NothingFails
    BY <1>10 DEF Restore, NothingFails
  <2>2. Replaces(storage, restoreFinished(storage, e, f))
    BY <1>1, <2>1, RestoreEffect
  <2> QED
    BY <1>3, <2>1, <2>2 DEF Replaces, KeysGone
<1>11. ASSUME NEW e \in Surroundings, NEW manager \in KeyManagers, NEW key \in AnyKey,
              KeyInserted(manager, key, e)
       PROVE  KeysGone(storage')
  <2> DEFINE t == onKeyInserted(storage, manager, key, e)
  <2>1. Becomes(t) /\ Surrounding(e)
    BY <1>11, SurroundingsAreSuch DEF KeyInserted
  <2>2. \/ Unchanged(storage, t)
        \/ \E b, c : Inserts(storage, t, b, c, key, e)
    BY <1>1, <2>1, InsertedEffect
  <2> HIDE DEF t
  <2>3. Unchanged(storage, t) /\ KeysGone(storage) => KeysGone(t)
    BY DEF Unchanged, KeysGone
  <2> QED
    BY <1>3, <2>1, <2>2, <2>3, InsertsGone
<1>12. ASSUME NEW e \in Surroundings, NEW key \in Keys, KeyDisabled(key, e)
       PROVE  KeysGone(storage')
  <2>1. Becomes(onKeyDisabled(storage, key, e))
    BY <1>12 DEF KeyDisabled
  <2>2. Disables(storage, onKeyDisabled(storage, key, e), key)
    BY <1>1, DisabledEffect
  <2> QED
    BY <1>3, <2>1, <2>2 DEF Disables, SameSlots, KeysGone
<1>13. ASSUME NEW e \in Surroundings, NEW key \in Keys, KeyRemoved(key, e)
       PROVE  KeysGone(storage')
  <2> DEFINE t == onKeyRemoved(storage, key, e)
  <2>1. Becomes(t) /\ Surrounding(e) /\ "remove" \in Events
    BY <1>13, SurroundingsAreSuch DEF KeyRemoved
  <2>2. storage' = t /\ KeychainComplete' /\ ~lostTrack
    BY <2>1 DEF Becomes
  <2>3. ~(/\ t.crypto.mounted /\ t.crypto.attached
          /\ Occupying(t.crypto.volume) # Chain(t.crypto))
    BY <2>2 DEF KeychainComplete, Chain
  <2>4. key \in AnyKey
    BY DEF AnyKey
  <2> QED
    BY <1>1, <1>2, <2>1, <2>2, <2>3, <2>4, RemovedGone
<1>14. ASSUME NEW e \in Surroundings, NEW key \in AnyKey, NEW result \in Results,
              AuthorizerAnswers(key, result, e)
       PROVE  KeysGone(storage')
  <2> DEFINE t == onKeyAuthorizationQueried([storage EXCEPT !.queries = @ \ {key}],
                                            key, result, e)
  <2>1. Becomes(t) /\ Surrounding(e)
    BY <1>14, SurroundingsAreSuch DEF AuthorizerAnswers
  <2>2. Authorizes(storage, t, key, e)
    BY <1>1, <2>1, AnswerEffect
  <2> HIDE DEF t
  <2> QED
    BY <1>3, <2>1, <2>2, AuthorizesGone
<1>15. ASSUME NEW e \in Surroundings, NEW sender \in Senders,
              StorageNotAvailable(sender, e)
       PROVE  KeysGone(storage')
  <2> DEFINE t == secureStorageNotAvailable(storage, sender, e)
  <2>1. Becomes(t) /\ Surrounding(e)
    BY <1>15, SurroundingsAreSuch DEF StorageNotAvailable
  <2>2. Unchanged(storage, t) \/ Authorizes(storage, t, NoKey, e)
    BY <1>1, <2>1, NotAvailableEffect
  <2> HIDE DEF t
  <2>3. Unchanged(storage, t) /\ KeysGone(storage) => KeysGone(t)
    BY DEF Unchanged, KeysGone
  <2> QED
    BY <1>3, <2>1, <2>2, <2>3, AuthorizesGone
<1>16. CASE UNCHANGED vars
  BY <1>2, <1>16 DEF vars
<1> QED
  BY <1>5, <1>6, <1>7, <1>8, <1>9, <1>10, <1>11, <1>12, <1>13, <1>14, <1>15, <1>16
     DEF Next

\* A key whose authorization was revoked has no slot left, unless the keychain
\* lost track of a key: as long as a slot that is not freed and a file system
\* that is not mounted are reported as such.
THEOREM RevokedKeysAreGone ==
  ASSUME TrueReports
  PROVE  Spec => []RevokedCannotOpen
<1>1. Safe /\ Gone /\ [Next]_vars => Gone'
  BY NextGone
<1>2. Gone => RevokedCannotOpen
  BY DEF Gone, KeysGone, RevokedCannotOpen, volume
<1> QED
  BY InitGone, <1>1, <1>2, AlwaysSafe, PTL DEF Spec

-----------------------------------------------------------------------------
(* The contents survive, when the default authorizer decides. *)

Contained == NothingFails /\ Authorizers \subseteq {"default"}

\* While no key is authorized, those inserted open nothing that is not mounted.
BareMounts(s) ==
    s.authorized = {} /\ s.inserted \cap Occupying(s.crypto.volume) # {} =>
        s.crypto.mounted

DecidesAtOnce(s) == s.authorizer = "default" /\ s.queries = {}

\* What formatting the container may cost.
Loses(s, t) ==
    s.crypto.volume.secrets /\ ~t.crypto.volume.secrets =>
        t.inserted \cap Occupying(s.crypto.volume) = {}

LEMMA ByDefaultSurvives ==
  ASSUME NothingFails, NEW s, NEW t, NEW key, NEW e, Surrounding(e),
         DecidesAtOnce(s), SlotsOnFile(s), BareMounts(s), ByDefault(s, t, key, e)
  PROVE  BareMounts(t) /\ DecidesAtOnce(t) /\ Loses(s, t)
<1>1. e.fault = "none"
  BY Assumptions
<1>2. t.queries = {}
  BY DEF ByDefault, DecidesAtOnce
<1>3. CASE Stays(s, t, e)
  BY <1>2, <1>3 DEF Stays, Alone, SameSlots, SameFiles, BareMounts, DecidesAtOnce, Loses
<1>4. CASE Gains(s, t, key)
  BY <1>2, <1>4 DEF Gains, Alone, BareMounts, DecidesAtOnce, Loses
<1>5. CASE Formats(s, t, key, e) /\ (s.authorized = {} \/ ~s.crypto.isSetup)
  <2>1. Alone(s, t) /\ DecidesAtOnce(t)
    BY <1>2, <1>5 DEF Formats, Alone, DecidesAtOnce
  <2>2. ~s.crypto.mounted => s.inserted \cap Occupying(s.crypto.volume) = {}
    BY <1>5 DEF BareMounts, SlotsOnFile
  <2>3. BareMounts(t)
    BY <1>1, <1>5, <2>1, <2>2 DEF Formats, Alone, BareMounts
  <2>4. Loses(s, t)
    BY <1>5, <2>1, <2>2 DEF Formats, Alone, Loses
  <2> QED
    BY <2>1, <2>3, <2>4
<1> QED
  BY <1>3, <1>4, <1>5 DEF ByDefault

LEMMA InsertsSurvives ==
  ASSUME NothingFails, NEW s, NEW t, NEW b, NEW c, NEW key, NEW e, Surrounding(e),
         DecidesAtOnce(s), SlotsOnFile(s), BareMounts(s), Inserts(s, t, b, c, key, e)
  PROVE  BareMounts(t) /\ DecidesAtOnce(t) /\ Loses(s, t)
<1>1. e.fault = "none"
  BY Assumptions
<1>2. DecidesAtOnce(c) /\ SlotsOnFile(c)
  BY DEF Inserts, Recognizes, Alone, SameSlots, SameFiles, DecidesAtOnce, SlotsOnFile
<1>3. BareMounts(c)
  BY <1>1 DEF Inserts, Recognizes, Alone, SameSlots, BareMounts, SlotsOnFile
<1>4. /\ Occupying(c.crypto.volume) = Occupying(s.crypto.volume)
      /\ s.crypto.volume.secrets => c.crypto.volume.secrets
  BY DEF Inserts, Recognizes, SameSlots, SameFiles
<1>5. CASE t = c
  BY <1>2, <1>3, <1>4, <1>5 DEF Loses
<1>6. CASE ByDefault(c, t, key, e)
  BY <1>2, <1>3, <1>4, <1>6, ByDefaultSurvives DEF Loses
<1> QED
  BY <1>2, <1>5, <1>6 DEF Inserts, DecidesAtOnce

LEMMA RemovedSurvives ==
  ASSUME NothingFails, NEW s, StorageInv(s), "remove" \in Events,
         NEW key \in AnyKey, NEW e, Surrounding(e), DecidesAtOnce(s), BareMounts(s)
  PROVE  LET t == onKeyRemoved(s, key, e) IN
         BareMounts(t) /\ DecidesAtOnce(t) /\ Loses(s, t)
<1> DEFINE a == onKeyDisabled(s, key, e)
           b == revokeKeyAuthorization(a, key, e)
<1>1. Disables(s, a, key) /\ SameWaiters(s, a) /\ StorageInv(a)
  BY DisabledEffect, DisabledStep DEF StorageInv
<1>2. Revokes(a, b, key, e) /\ SameWaiters(a, b)
  BY <1>1, RevokeEffect
<1>3. onKeyRemoved(s, key, e) \in {a, b}
  BY DEF onKeyRemoved
<1> HIDE DEF a, b
<1>4. BareMounts(a) /\ DecidesAtOnce(a)
  BY <1>1 DEF Disables, SameSlots, SameWaiters, BareMounts, DecidesAtOnce
<1>5. BareMounts(b) /\ DecidesAtOnce(b)
  BY <1>2, <1>4 DEF Revokes, Alone, SameWaiters, BareMounts, DecidesAtOnce
<1>6. Loses(s, a) /\ Loses(s, b)
  BY <1>1, <1>2 DEF Disables, Revokes, SameSlots, SameFiles, Loses
<1> QED
  BY <1>3, <1>4, <1>5, <1>6

Survival == DecidesAtOnce(storage) /\ BareMounts(storage)

LEMMA InitSurvival == Contained /\ Init => Survival
  BY DEF Contained, Init, Survival, DecidesAtOnce, BareMounts

LEMMA NextSurvival ==
  ASSUME Contained, Safe, Survival, [Next]_vars
  PROVE  Survival' /\ [Loses(storage, storage')]_vars
<1>1. /\ StorageInv(storage) /\ Shape(storage) /\ NothingFails
      /\ SlotsOnFile(storage)
  BY DEF Safe, StorageInv, OpenInv, Contained
<1>2. DecidesAtOnce(storage) /\ BareMounts(storage)
  BY DEF Survival
<1>3. ASSUME NEW s, Becomes(s), BareMounts(s), DecidesAtOnce(s), Loses(storage, s)
      PROVE  Survival' /\ Loses(storage, storage')
  BY <1>3 DEF Becomes, Survival
<1>4. ASSUME NEW s, Unchanged(storage, s), s.queries = storage.queries
      PROVE  BareMounts(s) /\ DecidesAtOnce(s) /\ Loses(storage, s)
  BY <1>2, <1>4 DEF Unchanged, Alone, BareMounts, DecidesAtOnce, Loses
<1>5. ASSUME NEW phase, Becomes([storage EXCEPT !.phase = phase])
      PROVE  Survival' /\ Loses(storage, storage')
  <2> DEFINE t == [storage EXCEPT !.phase = phase]
  <2>1. /\ t.crypto = storage.crypto /\ t.inserted = storage.inserted
        /\ t.authorized = storage.authorized /\ t.authorizer = storage.authorizer
        /\ t.queries = storage.queries
    BY <1>1 DEF Shape, Fields
  <2> HIDE DEF t
  <2>2. BareMounts(t) /\ DecidesAtOnce(t) /\ Loses(storage, t)
    BY <1>2, <2>1 DEF BareMounts, DecidesAtOnce, Loses
  <2> QED
    BY <1>3, <1>5, <2>2 DEF t
<1>6. CASE Restart
  <2> DEFINE t == restarted(storage)
  <2>1. Becomes(t)
    BY <1>6 DEF Restart
  <2>2. /\ Fresh(t) /\ t.authorizer = storage.authorizer
        /\ storage.crypto.volume.secrets => t.crypto.volume.secrets
    BY <1>1, RestartedEffect
  <2> HIDE DEF t
  <2>3. BareMounts(t) /\ DecidesAtOnce(t) /\ Loses(storage, t)
    BY <1>2, <2>2 DEF Fresh, BareMounts, DecidesAtOnce, Loses
  <2> QED
    BY <1>3, <2>1, <2>3
<1>7. CASE BackupMode \/ BackupOrRestoreInBackupMode
  BY <1>5, <1>7 DEF BackupMode, BackupOrRestoreInBackupMode
<1>8. CASE SecretsStored
  <2> DEFINE t == [storage EXCEPT !.crypto.volume.secrets = TRUE]
  <2>1. Becomes(t)
    BY <1>8 DEF SecretsStored
  <2>2. SameKeyring(storage, t) /\ Alike(storage.crypto, t.crypto)
    BY <1>1, StoredShape
  <2> HIDE DEF t
  <2>3. BareMounts(t) /\ DecidesAtOnce(t) /\ Loses(storage, t)
    BY <1>2, <2>2 DEF SameKeyring, SameKeys, SameWaiters, Alike, SameFiles, BareMounts,
                      DecidesAtOnce, Loses
  <2> QED
    BY <1>3, <2>1, <2>3
<1>9. ASSUME NEW e \in Surroundings, Start(e)
      PROVE  Survival' /\ Loses(storage, storage')
  <2> DEFINE o == openCredentialsSystem(storage, e)
             t == [o EXCEPT !.phase = "running"]
  <2>1. Becomes(t)
    BY <1>9 DEF Start
  <2>2. /\ SameKeys(storage, o) /\ SameSlots(storage, o) /\ SameWaiters(storage, o)
        /\ storage.crypto.mounted => o.crypto.mounted
    BY <1>1, OpenSystemEffect
  <2>3. Surrounding(e)
    BY <1>9, SurroundingsAreSuch
  <2>4. Shape(o)
    BY <1>1, <2>3, OpenSystemStep DEF StorageInv
  <2> HIDE DEF o
  <2>5. /\ t.crypto = o.crypto /\ t.inserted = o.inserted
        /\ t.authorized = o.authorized /\ t.authorizer = o.authorizer
        /\ t.queries = o.queries
    BY <2>4 DEF Shape, Fields
  <2> HIDE DEF t
  <2>6. BareMounts(t) /\ DecidesAtOnce(t) /\ Loses(storage, t)
    BY <1>2, <2>2, <2>5 DEF SameKeys, SameWaiters, SameSlots, SameFiles, BareMounts,
                            DecidesAtOnce, Loses
  <2> QED
    BY <1>3, <2>1, <2>6
<1>10. ASSUME NEW e \in Surroundings, NEW f \in FileEvents, Backup(e, f) \/ Restore(e, f)
       PROVE  Survival' /\ Loses(storage, storage')
  BY <1>1, <1>10 DEF Backup, Restore, NothingFails
<1>11. ASSUME NEW e \in Surroundings, NEW manager \in KeyManagers, NEW key \in AnyKey,
              KeyInserted(manager, key, e)
       PROVE  Survival' /\ Loses(storage, storage')
  <2> DEFINE t == onKeyInserted(storage, manager, key, e)
  <2>1. Becomes(t) /\ Surrounding(e)
    BY <1>11, SurroundingsAreSuch DEF KeyInserted
  <2>2. \/ Unchanged(storage, t) /\ t.queries = storage.queries
        \/ \E b, c : Inserts(storage, t, b, c, key, e)
    BY <1>1, <2>1, InsertedEffect
  <2> HIDE DEF t
  <2>3. BareMounts(t) /\ DecidesAtOnce(t) /\ Loses(storage, t)
    BY <1>1, <1>2, <1>4, <2>1, <2>2, InsertsSurvives
  <2> QED
    BY <1>3, <2>1, <2>3
<1>12. ASSUME NEW e \in Surroundings, NEW key \in Keys, KeyDisabled(key, e)
       PROVE  Survival' /\ Loses(storage, storage')
  <2> DEFINE t == onKeyDisabled(storage, key, e)
  <2>1. Becomes(t)
    BY <1>12 DEF KeyDisabled
  <2>2. Disables(storage, t, key) /\ SameWaiters(storage, t)
    BY <1>1, DisabledEffect
  <2> HIDE DEF t
  <2>3. BareMounts(t) /\ DecidesAtOnce(t) /\ Loses(storage, t)
    BY <1>2, <2>2 DEF Disables, SameSlots, SameFiles, SameWaiters, BareMounts,
                      DecidesAtOnce, Loses
  <2> QED
    BY <1>3, <2>1, <2>3
<1>13. ASSUME NEW e \in Surroundings, NEW key \in Keys, KeyRemoved(key, e)
       PROVE  Survival' /\ Loses(storage, storage')
  <2>1. /\ Becomes(onKeyRemoved(storage, key, e)) /\ Surrounding(e)
        /\ "remove" \in Events /\ key \in AnyKey
    BY <1>13, SurroundingsAreSuch DEF KeyRemoved, AnyKey
  <2> QED
    BY <1>1, <1>2, <1>3, <2>1, RemovedSurvives
<1>14. ASSUME NEW e \in Surroundings, NEW key \in AnyKey, NEW result \in Results,
              AuthorizerAnswers(key, result, e)
       PROVE  Survival' /\ Loses(storage, storage')
  BY <1>2, <1>14 DEF AuthorizerAnswers, DecidesAtOnce
<1>15. ASSUME NEW e \in Surroundings, NEW sender \in Senders,
              StorageNotAvailable(sender, e)
       PROVE  Survival' /\ Loses(storage, storage')
  <2> DEFINE t == secureStorageNotAvailable(storage, sender, e)
  <2>1. Becomes(t) /\ Surrounding(e)
    BY <1>15, SurroundingsAreSuch DEF StorageNotAvailable
  <2>2. \/ Unchanged(storage, t) /\ t.queries = storage.queries
        \/ ByDefault(storage, t, NoKey, e)
    BY <1>1, <1>2, <2>1, NotAvailableEffect DEF DecidesAtOnce
  <2> HIDE DEF t
  <2>3. BareMounts(t) /\ DecidesAtOnce(t) /\ Loses(storage, t)
    BY <1>1, <1>2, <1>4, <2>1, <2>2, ByDefaultSurvives
  <2> QED
    BY <1>3, <2>1, <2>3
<1>16. CASE UNCHANGED vars
  BY <1>16 DEF vars, Survival
<1> QED
  BY <1>6, <1>7, <1>8, <1>9, <1>10, <1>11, <1>12, <1>13, <1>14, <1>15, <1>16
     DEF Next

\* The default authorizer has the container formatted only when no inserted key
\* opens it, in whatever order keys come and go and the storage is asked for, as
\* long as no system call fails and the files are not replaced.
THEOREM OpenedContentsSurvive ==
  ASSUME Contained
  PROVE  Spec => ContentsSurvive
<1>1. Safe /\ Survival /\ [Next]_vars => Survival'
  BY NextSurvival
<1>2. Safe /\ Survival /\ [Next]_vars =>
         [volume.secrets /\ ~volume'.secrets
            => storage'.inserted \cap Occupying(volume) = {}]_vars
  BY NextSurvival DEF Loses, volume
<1> QED
  BY InitSurvival, <1>1, <1>2, AlwaysSafe, PTL DEF Spec, ContentsSurvive

-----------------------------------------------------------------------------
(* The secrets are accessible only with a key. *)

Guarded == NoRemovals /\ Faults \cap {"device", "loop", "mkdir", "slot"} = {}

InUse(s) == s.inserted \cap s.authorized

\* Before the system is opened nothing but an inserted key that was authorized
\* has mounted the file system, and no other key could when it is opened.
NotYetOpened(s) ==
    s.phase = "starting" =>
        /\ s.authorized \subseteq s.inserted
        /\ s.crypto.mounted <=> s.authorized # {}
        /\ ~s.crypto.mounted =>
              s.crypto.encryptionKey \notin Occupying(s.crypto.volume) \ {NoKey}

GuardInv(s) ==
    /\ DbInv(s) /\ FileInv(s)
    /\ s.authorizer = "default" => s.queries = {} /\ NotYetOpened(s)

Guard == GuardInv(storage)

\* The secrets become accessible with a key in use, with the empty one, or when
\* the key in use found no free slot.
OpensRightly(s, t) ==
    t.secretsOpen /\ InUse(t) = {} /\ s.authorizer = "default" =>
        \/ s.secretsOpen /\ InUse(s) = {}
        \/ /\ ~s.secretsOpen
           /\ NoKey \in t.authorized \/ FreeSlots(s.crypto.volume) = {}

LEMMA GuardedFaults ==
  ASSUME Guarded
  PROVE  /\ ReliableMounts /\ NoRemovals
         /\ \A e : Surrounding(e) =>
               e.fault \notin {"open", "mount", "umount", "device", "loop", "mkdir", "slot"}
  BY DEF Guarded, NoRemovals, ReliableMounts, Surrounding

LEMMA AuthorizesFiles ==
  ASSUME Guarded, NEW s, NEW t, NEW key, NEW e, Surrounding(e),
         DbInv(s), FileInv(s), Authorizes(s, t, key, e)
  PROVE  DbInv(t) /\ FileInv(t)
<1>1. CASE Stays(s, t, e)
  BY <1>1 DEF Stays, Alone, SameSlots, SameFiles, OpenedByMount, Mounted, DbInv, FileInv,
              SlotsOnFile
<1>2. CASE Gains(s, t, key)
  BY <1>2 DEF Gains, Alone, OpenedByMount, Mounted, DbInv, FileInv, SlotsOnFile
<1>3. CASE Formats(s, t, key, e)
  <2>1. DbInv(t)
    BY <1>3 DEF Formats, Alone, OpenedByMount, Mounted, DbInv
  <2>2. FileInv(t)
    BY <1>3 DEF Formats, SameFiles, FileInv, SlotsOnFile
  <2> QED
    BY <2>1, <2>2
<1> QED
  BY <1>1, <1>2, <1>3 DEF Authorizes

LEMMA ByDefaultGuard ==
  ASSUME Guarded, NEW s, StorageInv(s), GuardInv(s), s.authorizer = "default",
         NEW t, NEW key \in AnyKey, key \in s.inserted \cup {NoKey},
         s.phase = "starting" => key # NoKey,
         NEW e, Surrounding(e), ByDefault(s, t, key, e)
  PROVE  GuardInv(t) /\ OpensRightly(s, t)
<1>1. e.fault \notin {"open", "mount", "umount", "device", "loop", "mkdir", "slot"}
  BY GuardedFaults
<1>2. /\ s.secretsOpen => s.crypto.mounted
      /\ s.crypto.fileExists => s.authorized \subseteq Occupying(s.crypto.volume)
  BY GuardedFaults DEF StorageInv, MountInv, RingInv
<1>3. /\ DbInv(s) /\ FileInv(s) /\ NotYetOpened(s) /\ s.queries = {}
  BY DEF GuardInv
<1>4. DbInv(t) /\ FileInv(t) /\ t.queries = {}
  BY <1>3, AuthorizesFiles DEF ByDefault, Authorizes
<1>5. CASE Stays(s, t, e) /\ s.authorized # {}
  <2>1. NotYetOpened(t)
    BY <1>3, <1>5 DEF Stays, Alone, NotYetOpened
  <2>2. Mounted(s, t) => FreeSlots(s.crypto.volume) = {}
    BY <1>1, <1>2, <1>3, <1>5 DEF Stays, CannotAdd, FileInv, SlotsOnFile
  <2>3. OpensRightly(s, t)
    BY <1>5, <2>2 DEF Stays, Alone, OpenedByMount, OpensRightly, InUse
  <2> QED
    BY <1>4, <2>1, <2>3 DEF GuardInv
<1>6. CASE Gains(s, t, key) /\ s.authorized # {}
  <2>1. NotYetOpened(t)
    BY <1>3, <1>6 DEF Gains, Alone, NotYetOpened
  <2>2. OpensRightly(s, t)
    BY <1>6 DEF Gains, Alone, OpensRightly, InUse
  <2> QED
    BY <1>4, <2>1, <2>2 DEF GuardInv
<1>7. CASE Formats(s, t, key, e) /\ (s.authorized = {} \/ ~s.crypto.isSetup)
  <2>1. s.crypto.mounted => s.authorized = {}
    BY <1>3, <1>7 DEF FileInv
  <2>2. NotYetOpened(t)
    <3>1. SUFFICES ASSUME t.phase = "starting"
                   PROVE  /\ t.authorized \subseteq t.inserted
                          /\ t.crypto.mounted <=> t.authorized # {}
                          /\ ~t.crypto.mounted =>
                                t.crypto.encryptionKey \notin
                                    Occupying(t.crypto.volume) \ {NoKey}
      BY DEF NotYetOpened
    <3>2. /\ ~s.crypto.mounted /\ key # NoKey /\ key \in s.inserted
          /\ t.inserted = s.inserted
      BY <1>3, <1>7, <2>1, <3>1 DEF Formats, Alone, NotYetOpened
    <3> QED
      BY <1>1, <1>7, <3>2 DEF Formats
  <2>3. OpensRightly(s, t)
    <3>1. SUFFICES ASSUME t.secretsOpen, InUse(t) = {}
                   PROVE  \/ s.secretsOpen /\ InUse(s) = {}
                          \/ ~s.secretsOpen /\ NoKey \in t.authorized
      BY DEF OpensRightly
    <3>2. CASE s.secretsOpen
      BY <1>2, <2>1, <3>2 DEF InUse
    <3>3. CASE ~s.secretsOpen
      BY <1>7, <3>1, <3>3 DEF Formats, Alone, InUse
    <3> QED
      BY <3>2, <3>3
  <2> QED
    BY <1>4, <2>2, <2>3 DEF GuardInv
<1> QED
  BY <1>5, <1>6, <1>7 DEF ByDefault

LEMMA InsertsGuard ==
  ASSUME Guarded, NEW s, StorageInv(s), GuardInv(s), NEW t, NEW b, NEW c,
         NEW key \in Keys, NEW e, Surrounding(e), Inserts(s, t, b, c, key, e)
  PROVE  GuardInv(t) /\ OpensRightly(s, t)
<1>1. e.fault \notin {"open", "mount", "umount", "device", "loop", "mkdir", "slot"}
  BY GuardedFaults
<1>2. DbInv(s) /\ FileInv(s)
  BY DEF GuardInv
<1>3. DbInv(b) /\ FileInv(b)
  BY <1>2 DEF Inserts, DbInv, FileInv, SlotsOnFile
<1>4. Recognizes(b, c, key, e) /\ c.queries = b.queries /\ StorageInv(c)
  BY DEF Inserts
<1>5. DbInv(c) /\ FileInv(c)
  BY <1>3, <1>4 DEF Recognizes, Alone, SameSlots, SameFiles, OpenedByMount, Mounted,
                    DbInv, FileInv, SlotsOnFile
<1>6. b.authorizer = "default" => NotYetOpened(c)
  <2>1. SUFFICES ASSUME b.authorizer = "default", c.phase = "starting"
                 PROVE  /\ c.authorized \subseteq c.inserted
                        /\ c.crypto.mounted <=> c.authorized # {}
                        /\ ~c.crypto.mounted =>
                              c.crypto.encryptionKey \notin
                                  Occupying(c.crypto.volume) \ {NoKey}
    BY DEF NotYetOpened
  <2>2. /\ b.authorized \subseteq s.inserted
        /\ b.inserted = s.inserted \cup {key}
        /\ b.crypto.mounted <=> b.authorized # {}
        /\ ~b.crypto.mounted =>
              b.crypto.encryptionKey \notin Occupying(b.crypto.volume) \ {NoKey}
    BY <1>4, <2>1 DEF Inserts, Recognizes, Alone, GuardInv, NotYetOpened
  <2>3. /\ c.inserted = b.inserted
        /\ Occupying(c.crypto.volume) = Occupying(b.crypto.volume)
    BY <1>4 DEF Recognizes, Alone, SameSlots
  <2>4. CASE c.authorized = b.authorized \cup {key} /\ c.crypto.mounted
    BY <2>2, <2>3, <2>4
  <2>5. CASE /\ c.authorized = b.authorized
             /\ c.crypto.mounted = b.crypto.mounted
             /\ c.crypto.encryptionKey \in {b.crypto.encryptionKey, key}
             /\ \/ b.crypto.mounted
                \/ key \notin Occupying(b.crypto.volume)
                \/ ~b.crypto.isSetup
    BY <1>3, <2>2, <2>3, <2>5 DEF FileInv, SlotsOnFile
  <2> QED
    BY <1>1, <1>4, <2>4, <2>5 DEF Recognizes
<1>7. /\ GuardInv(c)
      /\ c.authorizer = s.authorizer
      /\ c.inserted = s.inserted \cup {key}
      /\ FreeSlots(c.crypto.volume) = FreeSlots(s.crypto.volume)
      /\ s.secretsOpen => c.secretsOpen
  BY <1>4, <1>5, <1>6 DEF Inserts, Recognizes, Alone, SameSlots, SameFiles, FreeSlots,
                          GuardInv
<1>8. \/ key \in c.authorized
      \/ /\ c.authorized = s.authorized
         /\ c.secretsOpen => s.secretsOpen
  BY <1>4 DEF Inserts, Recognizes, OpenedByMount, Mounted
<1>9. InUse(s) \subseteq InUse(c)
  BY <1>4 DEF Inserts, Recognizes, Alone, InUse
<1>10. CASE t = c /\ key \in c.authorized
  BY <1>7, <1>10 DEF OpensRightly, InUse
<1>11. CASE /\ key \notin c.authorized
            /\ Authorizes(c, t, key, e)
            /\ c.authorizer = "default" => ByDefault(c, t, key, e)
  <2>1. CASE c.authorizer = "default"
    <3>1. key \in AnyKey /\ key # NoKey
      BY KeyAssumption DEF AnyKey
    <3>2. GuardInv(t) /\ OpensRightly(c, t)
      BY <1>4, <1>7, <1>11, <2>1, <3>1, ByDefaultGuard
    <3> QED
      BY <1>7, <1>8, <1>9, <1>11, <2>1, <3>2 DEF OpensRightly
  <2>2. CASE c.authorizer # "default"
    <3>1. DbInv(t) /\ FileInv(t)
      BY <1>5, <1>11, AuthorizesFiles
    <3>2. t.authorizer = c.authorizer
      BY <1>11 DEF Authorizes, Stays, Gains, Formats, Alone
    <3> QED
      BY <1>7, <2>2, <3>1, <3>2 DEF GuardInv, OpensRightly
  <2> QED
    BY <2>1, <2>2
<1> QED
  BY <1>10, <1>11 DEF Inserts

LEMMA DisablesGuard ==
  ASSUME NEW s, GuardInv(s), s.phase = "running", NEW key, NEW t,
         Disables(s, t, key), SameWaiters(s, t)
  PROVE  GuardInv(t) /\ OpensRightly(s, t)
<1>1. DbInv(t) /\ FileInv(t)
  BY DEF Disables, SameSlots, SameFiles, GuardInv, DbInv, FileInv, SlotsOnFile
<1>2. t.phase # "starting"
  BY DEF Disables
<1>3. GuardInv(t)
  BY <1>1, <1>2 DEF Disables, SameWaiters, GuardInv, NotYetOpened
<1>4. OpensRightly(s, t)
  BY DEF Disables, GuardInv, DbInv, OpensRightly, InUse
<1> QED
  BY <1>3, <1>4

LEMMA FreshGuard ==
  ASSUME NEW t, Fresh(t), DbInv(t), FileInv(t), NEW s
  PROVE  GuardInv(t) /\ OpensRightly(s, t)
  BY DEF Fresh, GuardInv, NotYetOpened, OpensRightly

LEMMA InitGuard == Init => Guard
<1> SUFFICES ASSUME Init PROVE Guard
  OBVIOUS
<1>1. /\ CryptoInit.mounted = FALSE /\ CryptoInit.volume = EmptyVolume
      /\ CryptoInit.encryptionKey = NoKey
  BY DEF CryptoInit
<1>2. /\ Fresh(storage) /\ storage.crypto.volume = EmptyVolume
  BY <1>1 DEF Init, Fresh
<1>3. DbInv(storage) /\ FileInv(storage)
  BY <1>2, EmptyShape DEF Fresh, DbInv, FileInv, SlotsOnFile
<1> QED
  BY <1>2, <1>3, FreshGuard DEF Guard

LEMMA NextGuard ==
  ASSUME Guarded, Safe, Guard, [Next]_vars
  PROVE  /\ Guard'
         /\ \/ OpensRightly(storage, storage')
            \/ /\ BackupOrRestore
               /\ storage.secretsOpen /\ OpenWithoutKey' => OpenWithoutKey
            \/ UNCHANGED vars
<1>1. StorageInv(storage) /\ FilesKept(storage, backup) /\ Shape(storage)
  BY DEF Safe, StorageInv
<1>2. GuardInv(storage)
  BY DEF Guard
<1> DEFINE Good == Guard' /\ OpensRightly(storage, storage')
<1>3. ASSUME NEW s, Becomes(s), GuardInv(s) /\ OpensRightly(storage, s)
      PROVE  Good
  BY <1>3 DEF Becomes, Guard
<1>4. ASSUME NEW s, Unchanged(storage, s), s.queries = storage.queries
      PROVE  GuardInv(s) /\ OpensRightly(storage, s)
  BY <1>2, <1>4 DEF Unchanged, Alone, GuardInv, DbInv, FileInv, SlotsOnFile, NotYetOpened,
                    OpensRightly, InUse
<1>5. ASSUME NEW phase, phase # "starting", Becomes([storage EXCEPT !.phase = phase])
      PROVE  Good
  <2> DEFINE t == [storage EXCEPT !.phase = phase]
  <2>1. /\ t.crypto = storage.crypto /\ t.inserted = storage.inserted
        /\ t.authorized = storage.authorized /\ t.authorizer = storage.authorizer
        /\ t.queries = storage.queries /\ t.secretsOpen = storage.secretsOpen
        /\ t.opened = storage.opened /\ t.dbExists = storage.dbExists
        /\ t.phase = phase
    BY <1>1 DEF Shape, Fields
  <2> HIDE DEF t
  <2>2. GuardInv(t)
    BY <1>2, <1>5, <2>1 DEF GuardInv, DbInv, FileInv, SlotsOnFile, NotYetOpened
  <2>3. OpensRightly(storage, t)
    BY <2>1 DEF OpensRightly, InUse
  <2> QED
    BY <1>3, <1>5, <2>2, <2>3 DEF t
<1>6. CASE Restart
  <2> DEFINE t == restarted(storage)
  <2>1. Becomes(t)
    BY <1>6 DEF Restart
  <2>2. Fresh(t) /\ Keeps(storage, t)
    BY <1>1, RestartedEffect
  <2> HIDE DEF t
  <2>3. GuardInv(t) /\ OpensRightly(storage, t)
    BY <1>2, <2>2, FreshGuard DEF Keeps, GuardInv
  <2>4. Good
    BY <1>3, <2>1, <2>3
  <2> QED
    BY <2>4
<1>7. CASE BackupMode \/ BackupOrRestoreInBackupMode
  <2>1. Good
    BY <1>5, <1>7 DEF BackupMode, BackupOrRestoreInBackupMode
  <2> QED
    BY <2>1
<1>8. CASE SecretsStored
  <2> DEFINE t == [storage EXCEPT !.crypto.volume.secrets = TRUE]
  <2>1. Becomes(t)
    BY <1>8 DEF SecretsStored
  <2>2. /\ SameKeyring(storage, t) /\ Alike(storage.crypto, t.crypto)
        /\ t.secretsOpen = storage.secretsOpen
    BY <1>1, StoredShape
  <2> HIDE DEF t
  <2>3. GuardInv(t)
    BY <1>2, <2>2 DEF SameKeyring, SameKeys, SameWaiters, Alike, SameFiles, GuardInv,
                      DbInv, FileInv, SlotsOnFile, NotYetOpened
  <2>4. OpensRightly(storage, t)
    BY <2>2 DEF SameKeyring, SameKeys, OpensRightly, InUse
  <2>5. Good
    BY <1>3, <2>1, <2>3, <2>4
  <2> QED
    BY <2>5
<1>9. ASSUME NEW e \in Surroundings, Start(e)
      PROVE  Good
  <2> DEFINE o == openCredentialsSystem(storage, e)
             t == [o EXCEPT !.phase = "running"]
  <2>1. Becomes(t) /\ storage.phase = "starting"
    BY <1>9 DEF Start
  <2>2. /\ SameKeys(storage, o) /\ SameWaiters(storage, o)
        /\ Keeps(storage, o)
        /\ o.secretsOpen => storage.secretsOpen \/ o.crypto.mounted
        /\ Mounted(storage, o) =>
              storage.crypto.encryptionKey \in Occupying(storage.crypto.volume) \ {NoKey}
    BY <1>1, OpenSystemEffect
  <2>3. Surrounding(e)
    BY <1>9, SurroundingsAreSuch
  <2>4. Shape(o)
    BY <1>1, <2>3, OpenSystemStep DEF StorageInv
  <2> HIDE DEF o
  <2>5. /\ t.crypto = o.crypto /\ t.inserted = o.inserted
        /\ t.authorized = o.authorized /\ t.authorizer = o.authorizer
        /\ t.queries = o.queries /\ t.secretsOpen = o.secretsOpen
        /\ t.opened = o.opened /\ t.dbExists = o.dbExists
        /\ t.phase = "running"
    BY <2>4 DEF Shape, Fields
  <2> HIDE DEF t
  <2>6. DbInv(t) /\ FileInv(t)
    BY <1>2, <2>2, <2>5 DEF Keeps, GuardInv, DbInv, FileInv, SlotsOnFile
  <2>7. GuardInv(t)
    BY <1>2, <2>2, <2>5, <2>6 DEF SameKeys, SameWaiters, GuardInv, NotYetOpened
  <2>8. OpensRightly(storage, t)
    BY <1>2, <2>1, <2>2, <2>5 DEF SameKeys, Mounted, GuardInv, NotYetOpened, OpensRightly,
                                  InUse
  <2> QED
    BY <1>3, <2>1, <2>7, <2>8
<1>10. ASSUME NEW s, Replaces(storage, s), storage' = s, storage.phase = "running"
       PROVE  Guard' /\ (storage.secretsOpen /\ OpenWithoutKey' => OpenWithoutKey)
  <2>1. DbInv(s) /\ FileInv(s)
    BY <1>2, <1>10 DEF Replaces, Keeps, GuardInv
  <2>2. CASE SameKeys(storage, s) /\ SameWaiters(storage, s)
    <3>1. GuardInv(s)
      BY <1>2, <1>10, <2>1, <2>2 DEF SameKeys, SameWaiters, GuardInv, NotYetOpened
    <3> QED
      BY <1>10, <2>2, <3>1 DEF SameKeys, Guard, OpenWithoutKey, inUse
  <2>3. CASE Fresh(s)
    <3>1. GuardInv(s) /\ ~s.secretsOpen
      BY <2>1, <2>3, FreshGuard DEF Fresh
    <3> QED
      BY <1>10, <3>1 DEF Guard, OpenWithoutKey
  <2> QED
    BY <1>10, <2>2, <2>3 DEF Replaces
<1>11. ASSUME NEW e \in Surroundings, NEW f \in FileEvents, Backup(e, f) \/ Restore(e, f)
       PROVE  /\ Guard' /\ BackupOrRestore
              /\ storage.secretsOpen /\ OpenWithoutKey' => OpenWithoutKey
  <2>1. /\ storage' \in {backupStarts(storage, e, f), restoreFinished(storage, e, f)}
        /\ storage.phase = "running" /\ ~NothingFails
    BY <1>11 DEF Backup, Restore, Becomes, NothingFails
  <2>2. Replaces(storage, storage')
    BY <1>1, <2>1, BackupEffect, RestoreEffect
  <2> QED
    BY <1>10, <1>11, <2>1, <2>2 DEF BackupOrRestore
<1>12. ASSUME NEW e \in Surroundings, NEW manager \in KeyManagers, NEW key \in AnyKey,
              KeyInserted(manager, key, e)
       PROVE  Good
  <2> DEFINE t == onKeyInserted(storage, manager, key, e)
  <2>1. Becomes(t) /\ Surrounding(e)
    BY <1>12, SurroundingsAreSuch DEF KeyInserted
  <2>2. \/ Unchanged(storage, t) /\ t.queries = storage.queries
        \/ key \in Keys /\ \E b, c : Inserts(storage, t, b, c, key, e)
    BY <1>1, <2>1, InsertedEffect
  <2> HIDE DEF t
  <2>3. GuardInv(t) /\ OpensRightly(storage, t)
    BY <1>1, <1>2, <1>4, <2>1, <2>2, InsertsGuard
  <2> QED
    BY <1>3, <2>1, <2>3
<1>13. ASSUME NEW e \in Surroundings, NEW key \in Keys, KeyDisabled(key, e)
       PROVE  Good
  <2> DEFINE t == onKeyDisabled(storage, key, e)
  <2>1. Becomes(t) /\ storage.phase = "running"
    BY <1>13 DEF KeyDisabled
  <2>2. Disables(storage, t, key) /\ SameWaiters(storage, t)
    BY <1>1, DisabledEffect
  <2> HIDE DEF t
  <2>3. GuardInv(t) /\ OpensRightly(storage, t)
    BY <1>2, <2>1, <2>2, DisablesGuard
  <2> QED
    BY <1>3, <2>1, <2>3
<1>14. ASSUME NEW e \in Surroundings, NEW key \in Keys, KeyRemoved(key, e)
       PROVE  Good
  BY <1>14, GuardedFaults DEF KeyRemoved, NoRemovals
<1>15. ASSUME NEW e \in Surroundings, NEW key \in AnyKey, NEW result \in Results,
              AuthorizerAnswers(key, result, e)
       PROVE  Good
  <2> DEFINE t == onKeyAuthorizationQueried([storage EXCEPT !.queries = @ \ {key}],
                                            key, result, e)
  <2>1. Becomes(t) /\ Surrounding(e) /\ key \in storage.queries
    BY <1>15, SurroundingsAreSuch DEF AuthorizerAnswers
  <2>2. Authorizes(storage, t, key, e)
    BY <1>1, <2>1, AnswerEffect
  <2> HIDE DEF t
  <2>3. DbInv(t) /\ FileInv(t)
    BY <1>2, <2>1, <2>2, AuthorizesFiles DEF GuardInv
  <2>4. storage.authorizer # "default"
    BY <1>2, <2>1 DEF GuardInv
  <2>5. t.authorizer = storage.authorizer
    BY <2>2 DEF Authorizes, Stays, Gains, Formats, Alone
  <2> QED
    BY <1>3, <2>1, <2>3, <2>4, <2>5 DEF GuardInv, OpensRightly
<1>16. ASSUME NEW e \in Surroundings, NEW sender \in Senders,
              StorageNotAvailable(sender, e)
       PROVE  Good
  <2> DEFINE t == secureStorageNotAvailable(storage, sender, e)
  <2>1. Becomes(t) /\ Surrounding(e) /\ storage.phase = "running"
    BY <1>16, SurroundingsAreSuch DEF StorageNotAvailable
  <2>2. \/ Unchanged(storage, t) /\ t.queries = storage.queries
        \/ /\ Authorizes(storage, t, NoKey, e)
           /\ storage.authorizer = "default" => ByDefault(storage, t, NoKey, e)
    BY <1>1, <2>1, NotAvailableEffect
  <2> HIDE DEF t
  <2>3. CASE Unchanged(storage, t) /\ t.queries = storage.queries
    BY <1>3, <1>4, <2>1, <2>3
  <2>4. CASE storage.authorizer = "default" /\ ByDefault(storage, t, NoKey, e)
    <3>1. NoKey \in AnyKey
      BY DEF AnyKey
    <3>2. GuardInv(t) /\ OpensRightly(storage, t)
      BY <1>1, <1>2, <2>1, <2>4, <3>1, ByDefaultGuard
    <3> QED
      BY <1>3, <2>1, <3>2
  <2>5. CASE storage.authorizer # "default" /\ Authorizes(storage, t, NoKey, e)
    <3>1. DbInv(t) /\ FileInv(t)
      BY <1>2, <2>1, <2>5, AuthorizesFiles DEF GuardInv
    <3>2. t.authorizer = storage.authorizer
      BY <2>5 DEF Authorizes, Stays, Gains, Formats, Alone
    <3> QED
      BY <1>3, <2>1, <2>5, <3>1, <3>2 DEF GuardInv, OpensRightly
  <2> QED
    BY <2>2, <2>3, <2>4, <2>5
<1>17. CASE UNCHANGED vars
  BY <1>2, <1>17 DEF vars, Guard
<1> HIDE DEF Good
<1>18. CASE Good
  BY <1>18 DEF Good
<1> QED
  BY <1>6, <1>7, <1>8, <1>9, <1>11, <1>12, <1>13, <1>14, <1>15, <1>16, <1>17, <1>18
     DEF Next

\* With the default authorizer the secrets are accessible only while an
\* authorized key is inserted, but for the cases the property names: whatever is
\* reported, in whatever order, and however often signond is restarted, as long
\* as no key is removed and only the header, or a database, cannot be written.
THEOREM SecretsNeedKey ==
  ASSUME Guarded
  PROVE  Spec => OpenOnlyWithKey
<1>1. Safe /\ Guard /\ [Next]_vars => Guard'
  BY NextGuard
<1>2. Safe /\ Guard /\ [Next]_vars =>
         [OpenWithoutKey' =>
            \/ OpenWithoutKey
            \/ storage.authorizer # "default"
            \/ /\ ~storage.secretsOpen
               /\ \/ NoKey \in storage'.authorized
                  \/ FreeSlots(volume) = {}
                  \/ BackupOrRestore]_vars
  <2>1. SUFFICES ASSUME Safe, Guard, [Next]_vars, OpenWithoutKey', ~OpenWithoutKey,
                        storage.authorizer = "default", ~UNCHANGED vars
                 PROVE  /\ ~storage.secretsOpen
                        /\ \/ NoKey \in storage'.authorized
                           \/ FreeSlots(volume) = {}
                           \/ BackupOrRestore
    OBVIOUS
  <2>2. storage.secretsOpen \in BOOLEAN
    BY <2>1 DEF Safe, StorageInv, Shape
  <2>3. \/ OpensRightly(storage, storage')
        \/ /\ BackupOrRestore
           /\ storage.secretsOpen /\ OpenWithoutKey' => OpenWithoutKey
    BY <2>1, NextGuard
  <2>4. CASE OpensRightly(storage, storage')
    BY <2>1, <2>2, <2>4 DEF OpensRightly, InUse, OpenWithoutKey, inUse, volume
  <2>5. CASE /\ BackupOrRestore
             /\ storage.secretsOpen /\ OpenWithoutKey' => OpenWithoutKey
    BY <2>1, <2>5
  <2> QED
    BY <2>3, <2>4, <2>5
<1> QED
  BY InitGuard, <1>1, <1>2, AlwaysSafe, PTL DEF Spec, OpenOnlyWithKey
=============================================================================
