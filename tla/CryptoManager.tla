--------------------------- MODULE CryptoManager ---------------------------
(***************************************************************************)
(* The encrypted file system behind the secrets database, as the           *)
(* cryptsetup extension keeps it (src/extensions/cryptsetup/): a container *)
(* file with a LUKS header, whose key slots say which keys open it, and    *)
(* inside it a "keychain" file in which the crypto manager lists the same  *)
(* keys, because LUKS cannot be asked.                                     *)
(*                                                                         *)
(* Operators map a state of the crypto manager to the next one.  All of    *)
(* them run within a handler of signond and are synchronous, so the states *)
(* LoopSet, LoopLuksFormatted and LoopLuksOpened of m_mountState are never *)
(* seen by others: "mounted" is m_mountState = Mounted, which is also what *)
(* AbstractCryptoManager::fileSystemIsMounted() returns.  The argument     *)
(* fault is the one system call that fails during the handler.             *)
(***************************************************************************)
EXTENDS Naturals, FiniteSets, Functions

CONSTANTS Keys,     \* the keys that key managers provide, none of them empty
          NoKey,    \* the empty key
          KeySlots  \* bound: key slots of the LUKS header (8 in LUKS1)

AnyKey   == Keys \cup {NoKey}
Slots    == 1 .. KeySlots
Free     == "free"

ASSUME KeyAssumption ==
    /\ NoKey \notin Keys
    /\ Free \notin AnyKey
    /\ KeySlots \in Nat \ {0}


\* Where the entries of a keychain file may be numbered.
KeychainNumbers == 1 .. (Cardinality(Keys) + 1)
Keychains == UNION {[D -> AnyKey] : D \in SUBSET KeychainNumbers}

\* The system calls that may fail, see setupFileSystem and mountFileSystem.
AllFaults == {"device", "loop", "header", "open", "mkdir", "mount", "umount",
              "slot", "database", "metadata"}

(***************************************************************************)
(* The container: its key slots, whether mkfs has run since the volume key *)
(* was last changed, the keychain file and whether secrets were stored.    *)
(***************************************************************************)
Volumes == [slots : [Slots -> AnyKey \cup {Free}], formatted : BOOLEAN,
            keychain : Keychains, secrets : BOOLEAN]

EmptyVolume == [slots |-> [n \in Slots |-> Free], formatted |-> FALSE,
                keychain |-> <<>>, secrets |-> FALSE]

CryptoStates ==
    [isSetup       : BOOLEAN,   \* m_fileSystemIsSetup
     mounted       : BOOLEAN,   \* m_mountState = Mounted
     attached      : BOOLEAN,   \* the kernel has the volume mounted
     encryptionKey : AnyKey,    \* m_encryptionKey
     fileExists    : BOOLEAN,   \* QFile::exists(m_fileSystemPath)
     volume        : Volumes,   \* the container file
     directory     : Keychains] \* a keychain file in the bare mount directory

\* The keys that open the volume v.
Occupying(v) == {k \in AnyKey : \E n \in Slots : v.slots[n] = k}

setEncryptionKey(c, key) ==
    IF c.mounted THEN c ELSE [c EXCEPT !.encryptionKey = key]

keychain(c) == IF c.attached THEN c.volume.keychain ELSE c.directory

keychainContainsKey(c, key) == key \in Range(keychain(c))

WriteKeychain(c, chain) ==
    IF c.attached THEN [c EXCEPT !.volume.keychain = chain]
                  ELSE [c EXCEPT !.directory = chain]

\* A new entry is numbered by the count of those there are: after a removal
\* the number may be that of another key, whose entry is replaced.
addKeyToKeychain(c, key) ==
    LET chain == keychain(c)
        new   == Cardinality(DOMAIN chain) + 1
    IN  IF keychainContainsKey(c, key) THEN c
        ELSE WriteKeychain(c, [n \in DOMAIN chain \cup {new} |->
                                  IF n = new THEN key ELSE chain[n]])

removeKeyFromKeychain(c, key) ==
    LET chain == keychain(c)
    IN  WriteKeychain(c, [n \in {i \in DOMAIN chain : chain[i] # key} |-> chain[n]])

\* mountMappedDevice() does not look at what mount(2) returns, and a volume
\* that was never formatted cannot be mounted.
mountMapped(c, fault) ==
    addKeyToKeychain(
        [c EXCEPT !.attached = c.volume.formatted /\ fault # "mount"],
        c.encryptionKey)

(***************************************************************************)
(* Before it touches the container, a set-up or a mount detaches what an   *)
(* earlier run or a failed unmount left behind (clearFileSystemResources). *)
(***************************************************************************)
clearFileSystemResources(c, fault) ==
    IF fault = "umount" THEN c ELSE [c EXCEPT !.attached = FALSE]

\* CryptsetupHandler::openFile: a slot must hold the key, and a mapped device
\* that is still in use keeps the name busy.
CanOpen(c, fault) ==
    /\ fault # "open"
    /\ ~c.attached
    /\ c.encryptionKey \in Occupying(c.volume)

mountFileSystem(c, fault) ==
    LET cleared == clearFileSystemResources(c, fault)
    IN  IF \/ c.mounted
           \/ c.encryptionKey = NoKey
        THEN c
        ELSE IF \/ fault \in {"device", "loop", "mkdir"}
                \/ ~CanOpen(cleared, fault)
             THEN cleared
             ELSE [mountMapped(cleared, fault) EXCEPT !.mounted = TRUE]

\* CryptsetupHandler::formatFile: a new volume key, in slot 0.  The file
\* systems, keychain and secrets of the old one are lost.
formatFile(v, key) ==
    [EmptyVolume EXCEPT !.slots = [n \in Slots |-> IF n = 1 THEN key ELSE Free]]

setupFileSystem(c, fault) ==
    LET cleared == clearFileSystemResources(c, fault)
        created == [cleared EXCEPT !.isSetup = TRUE, !.fileExists = TRUE]
        keyless == [created EXCEPT !.volume = EmptyVolume]
        opened  == [created EXCEPT !.volume = formatFile(created.volume, c.encryptionKey)]
        mkfs    == [opened EXCEPT !.volume.formatted = TRUE]
    IN  CASE c.mounted \/ c.encryptionKey = NoKey -> c
          [] ~c.mounted /\ c.encryptionKey # NoKey ->
             CASE fault = "device" -> cleared
               [] fault = "loop"   -> created
               [] fault = "header" -> keyless
               [] ~CanOpen(opened, fault) -> opened
               [] fault = "mkdir"  -> mkfs
               [] OTHER -> [mountMapped(mkfs, fault) EXCEPT !.mounted = TRUE]

\* Whatever fails, m_mountState becomes Unmounted.  MountHandler::umount()
\* always returns true: a volume that stays attached shows in the LUKS close.
unmountFileSystem(c, fault) ==
    IF c.mounted
    THEN [c EXCEPT !.mounted = FALSE, !.attached = c.attached /\ fault = "umount"]
    ELSE c

unmountSucceeds(c, fault) == ~(c.mounted /\ c.attached /\ fault = "umount")

FreeSlots(v)     == {n \in Slots : v.slots[n] = Free}
SlotsOf(v, key)  == {n \in Slots : v.slots[n] = key}
Lowest(S)        == CHOOSE n \in S : \A i \in S : n <= i

addEncryptionKeySucceeds(c, key, existingKey, fault) ==
    /\ c.mounted
    /\ fault # "slot"
    /\ existingKey \in Occupying(c.volume)
    /\ FreeSlots(c.volume) # {}

addEncryptionKey(c, key, existingKey, fault) ==
    IF addEncryptionKeySucceeds(c, key, existingKey, fault)
    THEN addKeyToKeychain(
             [c EXCEPT !.volume.slots[Lowest(FreeSlots(c.volume))] = key], key)
    ELSE c

\* The result is that of "return true" outside the unbraced if: true whenever
\* the file system is mounted.
removeEncryptionKeySucceeds(c) == c.mounted

removeEncryptionKey(c, key, fault) ==
    IF c.mounted /\ fault # "slot" /\ SlotsOf(c.volume, key) # {}
    THEN removeKeyFromKeychain(
             [c EXCEPT !.volume.slots[Lowest(SlotsOf(c.volume, key))] = Free], key)
    ELSE c

\* encryptionKeyInUse() mounts the file system with the key if it can.
tryEncryptionKey(c, key, fault) ==
    IF c.mounted THEN c ELSE mountFileSystem(setEncryptionKey(c, key), fault)

encryptionKeyInUse(c, key, fault) ==
    IF c.mounted THEN c.encryptionKey = key \/ keychainContainsKey(c, key)
    ELSE tryEncryptionKey(c, key, fault).mounted

\* A new signond process: only the files and the kernel's mount are left.
CryptoRestart(c) ==
    [c EXCEPT !.isSetup = c.fileExists, !.mounted = FALSE, !.encryptionKey = NoKey]

CryptoInit ==
    [isSetup |-> FALSE, mounted |-> FALSE, attached |-> FALSE,
     encryptionKey |-> NoKey, fileExists |-> FALSE, volume |-> EmptyVolume,
     directory |-> <<>>]
============================================================================
