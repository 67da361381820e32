---------------------------- MODULE BackupFiles ----------------------------
(***************************************************************************)
(* The files a backup or a restore copies (src/signond/signondaemon.cpp):  *)
(* the metadata database, and what the crypto manager adds to it, the      *)
(* container of the encrypted file system.  The first is named relative to *)
(* the storage directory, the second by its absolute path, which QDir takes *)
(* as it is: in whichever directory it is looked for, removed or renamed,  *)
(* it is the container in use, and below the backup directory, or below    *)
(* the storage directory once more, there is no such file.                 *)
(*                                                                         *)
(* Operators map the files to the files after the whole loop, or after the *)
(* part of it that ran before signond was killed.                          *)
(***************************************************************************)
Metadata  == "metadata"
Container == "container"
\* m_dbName, then what CredentialsAccessManager::backupFiles() adds; the loops
\* take them in this order.
Names     == {Metadata, Container}

IsAbsolute(name) == name = Container

\* No file, an empty one, and one with what has been stored.
Absent   == "absent"
New      == "new"
Stored   == "stored"
Contents == {Absent, New, Stored}

\* live: in the storage directory; bak: there, with ".bak" appended; copy: in
\* the backup directory.
Directories == [live : [Names -> Contents], bak : [Names -> Contents],
                copy : [Names -> Contents]]

NoFiles == [name \in Names |-> Absent]

\* What may go wrong: the storage tree cannot be created, the copy of a file
\* fails, signond is killed before it is copied back, or after the loop.
NoFault == [kind |-> "none", name |-> Metadata]

FileFaultKinds == {"tree", "copy", "kill", "killAfter"}

Happens(fault, kind, name) == fault = [kind |-> kind, name |-> name]

\* A loop over the files: movedFiles, copiedFiles, ok; over: it was left, or
\* signond killed in it.
Loop(d) == [files |-> d, moved |-> {}, copied |-> {}, ok |-> TRUE, over |-> FALSE]
-----------------------------------------------------------------------------
(* createStorageFileTree() *)

treeSucceeds(d, fault) ==
    /\ fault.kind # "tree"
    /\ \A name \in Names : IsAbsolute(name) => d.live[name] # Absent

\* What could be created before it failed stays.
createStorageFileTree(d, fault) ==
    IF fault.kind = "tree" THEN d
    ELSE [d EXCEPT !.live = [name \in Names |->
             IF d.live[name] = Absent /\ ~IsAbsolute(name) THEN New ELSE d.live[name]]]
-----------------------------------------------------------------------------
(* copyToBackupDir(), after eraseBackupDir() *)

eraseBackupDir(d) == [d EXCEPT !.copy = NoFiles]

\* A copy there is removed before the file is copied: by its absolute path the
\* container itself, of which nothing is then found to be copied.
backUpFile(r, name, fault) ==
    IF r.over THEN r
    ELSE IF IsAbsolute(name) THEN [r EXCEPT !.files.live[name] = Absent]
    ELSE IF Happens(fault, "copy", name) THEN [r EXCEPT !.ok = FALSE, !.over = TRUE]
    ELSE [r EXCEPT !.files.copy[name] = r.files.live[name]]

copyToBackupDir(d, fault) ==
    backUpFile(backUpFile(Loop(eraseBackupDir(d)), Metadata, fault), Container, fault)
-----------------------------------------------------------------------------
(* copyFromBackupDir() *)

moveOver(r, name) == \* mutant: a ".bak" that is there is replaced
    IF r.files.live[name] = Absent THEN r
    ELSE [r EXCEPT !.files.bak[name]  = r.files.live[name],
                   !.files.live[name] = Absent,
                   !.moved = @ \cup {name}]

\* A file in place is renamed, unless there is a ".bak" already.
moveAside(r, name) ==
    IF r.files.live[name] = Absent \/ r.files.bak[name] # Absent THEN r
    ELSE [r EXCEPT !.files.bak[name]  = r.files.live[name],
                   !.files.live[name] = Absent,
                   !.moved = @ \cup {name}]

\* A file the backup does not have is ignored; QFile::copy() does not replace.
copyBack(r, name, fault) ==
    IF r.files.copy[name] = Absent \/ IsAbsolute(name) THEN r
    ELSE IF Happens(fault, "copy", name) \/ r.files.live[name] # Absent
         THEN [r EXCEPT !.ok = FALSE, !.over = TRUE]
         ELSE [r EXCEPT !.files.live[name] = r.files.copy[name],
                        !.copied = @ \cup {name}]

restoreFile(r, name, fault) ==
    LET aside == moveAside(r, name)
    IN  IF r.over THEN r
        ELSE IF Happens(fault, "kill", name) THEN [aside EXCEPT !.over = TRUE]
        ELSE copyBack(aside, name, fault)

\* The copies are removed, and what was moved aside is brought back.
recover(r) ==
    [r.files EXCEPT
        !.live = [n \in Names |-> IF n \in r.moved THEN r.files.bak[n]
                                  ELSE IF n \in r.copied THEN Absent ELSE r.files.live[n]],
        !.bak  = [n \in Names |-> IF n \in r.moved THEN Absent ELSE r.files.bak[n]]]

deleteMoved(r) ==
    [r.files EXCEPT !.bak = [n \in Names |->
        IF n \in r.moved THEN Absent ELSE r.files.bak[n]]]

restoreLoop(d, fault) ==
    restoreFile(restoreFile(Loop(d), Metadata, fault), Container, fault)

copyFromBackupDir(d, fault) ==
    LET r == restoreLoop(d, fault)
    IN  IF ~r.ok THEN recover(r)
        ELSE IF r.over \/ fault.kind = "killAfter" THEN r.files
        ELSE deleteMoved(r)
=============================================================================
