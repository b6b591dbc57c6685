------------------------- MODULE PayloadObservation -------------------------
(***************************************************************************)
(* omiv.payload_integrity.observation.observe_payload: one observer that   *)
(* inventories a payload root, hashes its files and inventories it again,  *)
(* while other programs rewrite, replace, link and remove the files.       *)
(*                                                                         *)
(* A path is a number, in the byte order of the names.  The root is a      *)
(* directory (DIRECTORY_ROOT) and flat: the traversal of directories only  *)
(* changes which name is looked at next.  Left out is a root that is one   *)
(* file (SINGLE_FILE_ROOT), whose inventory is a single lstat of it.       *)
(* A digest is the sequence of blocks that was read, as SHA-256 has no     *)
(* collision here.  A change of a file's bytes moves its time stamps; a    *)
(* change of its links may.                                                *)
(***************************************************************************)
EXTENDS Naturals, Sequences, FiniteSets, Descent

CONSTANTS
  NPaths,       \* the names in the root are 1..NPaths
  Inodes,       \* regular files of the file system
  Blocks,       \* what one read returns
  Contents,     \* what a file may hold: sequences of blocks
  Roots,        \* directories that may stand at the root path
  Exclusions,   \* what plan.exclusions may be
  HasIdentity,  \* st_dev and st_ino are available
  MaxFiles,     \* plan.limits.maximum_files
  MaxBytes,     \* plan.limits.maximum_logical_bytes
  MaxChanges,   \* bound on the changes other programs make
  None,         \* no entry, no file descriptor
  Special,      \* a symbolic link: unsupported, and O_NOFOLLOW refuses it
  Pipe,         \* a FIFO: unsupported, but open accepts it
  NoIdentity    \* _identity where the platform gives none

Paths == 1..NPaths
Unsupported == {Special, Pipe}

ASSUME SizesAssumption ==
  {NPaths, MaxFiles, MaxBytes, MaxChanges} \subseteq Nat
ASSUME ScopeAssumption ==
  /\ Exclusions \subseteq SUBSET Paths
  /\ HasIdentity \in BOOLEAN
  /\ Contents \subseteq Seq(Blocks)
ASSUME ValuesAssumption ==
  /\ ({None, NoIdentity} \cup Unsupported) \cap Inodes = {}
  /\ None \notin Unsupported
ASSUME EntriesAssumption ==
  ({None} \cup Unsupported) \cap [ino : Inodes \cup {NoIdentity}, size : Nat] = {}
ASSUME RecordsAssumption ==
  None \notin [digest : Seq(Blocks), ino : Inodes \cup {None}]

VARIABLES
  \* the file system
  root,         \* the directory at the root path
  link,         \* [Paths -> what the name stands for]
  bytes,        \* [Inodes -> the file's content]
  stamp,        \* [Inodes -> the file's time stamps]
  \* the observer
  excluded,     \* plan.exclusions
  pc,
  round,        \* which inventory is being taken, 1 or 2
  todo,         \* names listed and not yet looked at, or files not yet hashed
  seen,         \* [1..2 -> the inventory, as an entry per path]
  rootSeen,     \* root_before
  cur, fd,      \* the file being hashed, its path and its inode
  opened,       \* the fstat of the descriptor before reading
  buf,          \* the blocks read
  local,        \* findings about this file
  identities,   \* inodes met so far
  records,      \* [Paths -> the file record, or None]
  findings,
  unstable,
  discovered, hashed,   \* total_discovered, hashed_bytes
  completion,
  \* history
  held,         \* [Inodes -> every content the file had]
  touched,      \* paths changed since their file was hashed
  changes       \* how many changes other programs made

fs == <<root, link, bytes, stamp>>
history == <<held, touched, changes>>
inventory == <<excluded, round, seen, rootSeen, discovered>>
file == <<cur, fd, opened, buf, local>>
result == <<identities, records, findings, unstable, hashed, completion>>
vars == <<fs, pc, todo, inventory, file, result, history>>

Regular(p) == link[p] \in Inodes
Identity(i) == IF HasIdentity THEN i ELSE NoIdentity
Entry(p) == IF Regular(p)
              THEN [ino |-> Identity(link[p]), size |-> Len(bytes[link[p]])]
              ELSE link[p]
Entries == [ino : Inodes \cup {NoIdentity}, size : Nat]
Listed(r) == {p \in Paths : seen[r][p] \in Entries}
IsFirst(p, S) == p \in S /\ \A q \in S : p <= q
IsLast(p, S)  == p \in S /\ \A q \in S : q <= p

Kinds == {"HARDLINK_DETECTION_UNAVAILABLE", "HARDLINK_ALIAS_REJECTED",
          "PATH_REBOUND", "OPENED_FILE_CHANGED", "ROOT_CHANGED"}
NoEntries == [p \in Paths |-> None]

Init ==
  /\ root \in Roots
  /\ link \in [Paths -> Inodes \cup Unsupported \cup {None}]
  /\ bytes \in [Inodes -> Contents]
  /\ stamp = [i \in Inodes |-> 0]
  /\ excluded \in Exclusions
  /\ pc = "start" /\ round = 1 /\ todo = {}
  /\ seen = [r \in 1..2 |-> NoEntries]
  /\ rootSeen = root
  /\ cur = None /\ fd = None /\ opened = None /\ buf = <<>> /\ local = {}
  /\ identities = {} /\ records = NoEntries
  /\ findings = {} /\ unstable = {}
  /\ discovered = 0 /\ hashed = 0
  /\ completion = "PENDING"
  /\ held = [i \in Inodes |-> {bytes[i]}]
  /\ touched = {}
  /\ changes = 0

Fail == pc' = "failed"      \* OmivInputError, or OSError from lstat

-----------------------------------------------------------------------------
(* _inventory                                                              *)

Start ==
  /\ pc = "start"
  /\ rootSeen' = root
  /\ pc' = "list"
  /\ UNCHANGED <<fs, todo, excluded, round, seen, discovered, file, result, history>>

List ==
  /\ pc = "list"
  /\ todo' = {p \in Paths : link[p] # None}
  /\ pc' = "stat"
  /\ UNCHANGED <<fs, inventory, file, result, history>>

\* Mutant: both inventories add to total_discovered.
CountedTwice(p) == Regular(p)
Counted(p) == round = 1 /\ Regular(p)

\* The names are looked at in reverse order; one that is gone is an error.
StatEntry ==
  /\ pc = "stat"
  /\ \E p \in todo :
       /\ IsLast(p, todo)
       /\ todo' = todo \ {p}
       /\ IF link[p] = None
            THEN Fail /\ UNCHANGED <<seen, discovered>>
            ELSE /\ seen' = [seen EXCEPT ![round][p] = Entry(p)]
                 /\ discovered' = IF Counted(p) THEN discovered + Len(bytes[link[p]])
                                ELSE discovered
                 /\ IF Regular(p) /\ Cardinality(Listed(round)) >= MaxFiles
                      THEN Fail
                      ELSE UNCHANGED pc
  /\ UNCHANGED <<fs, excluded, round, rootSeen, file, result, history>>

\* The first inventory is followed by the loop over its files.
Inventoried ==
  /\ pc = "stat" /\ todo = {} /\ round = 1
  /\ todo' = Listed(1)
  /\ pc' = "files"
  /\ findings' = IF ~HasIdentity /\ Listed(1) # {}
                   THEN {"HARDLINK_DETECTION_UNAVAILABLE"} ELSE {}
  /\ UNCHANGED <<fs, inventory, file, identities, records, unstable, hashed,
                 completion, history>>

-----------------------------------------------------------------------------
(* The loop of observe_payload over the inventoried files, and _hash_file. *)

SkipExcluded ==
  /\ pc = "files"
  /\ \E p \in todo \cap excluded : IsFirst(p, todo) /\ todo' = todo \ {p}
  /\ UNCHANGED <<fs, pc, inventory, file, result, history>>

Ino(p) == seen[1][p].ino

RejectAlias ==
  /\ pc = "files"
  /\ \E p \in todo \ excluded :
       /\ IsFirst(p, todo)
       /\ Ino(p) \in identities
       /\ todo' = todo \ {p}
  /\ findings' = findings \cup {"HARDLINK_ALIAS_REJECTED"}
  /\ UNCHANGED <<fs, pc, inventory, file, identities, records, unstable,
                 hashed, completion, history>>

BeginFile ==
  /\ pc = "files"
  /\ \E p \in todo \ excluded :
       /\ IsFirst(p, todo)
       /\ Ino(p) \notin identities
       /\ todo' = todo \ {p}
       /\ cur' = p
       /\ identities' = identities \cup ({Ino(p)} \ {NoIdentity})
  /\ pc' = "lstat"
  /\ UNCHANGED <<fs, inventory, fd, opened, buf, local, records, findings,
                 unstable, hashed, completion, history>>

Within(count) == hashed + count <= MaxBytes

\* What the loop does with the digest, the count and the findings of a file.
Record(digest, ino, found) ==
  /\ findings' = findings \cup found
  /\ unstable' = IF found # {} THEN unstable \cup {cur} ELSE unstable
  /\ IF Within(Len(digest))
       THEN /\ hashed' = hashed + Len(digest)
            /\ records' = [records EXCEPT ![cur] =
                             [digest |-> digest, ino |-> ino]]
            /\ pc' = "files"
       ELSE Fail /\ UNCHANGED <<hashed, records>>
  /\ cur' = None /\ fd' = None /\ opened' = None /\ buf' = <<>> /\ local' = {}
  /\ UNCHANGED <<identities, completion>>

\* A name that no longer stands for a regular file gets the digest of nothing.
LstatBefore ==
  /\ pc = "lstat"
  /\ \/ Regular(cur) /\ pc' = "open" /\ UNCHANGED <<file, result>>
     \/ link[cur] \in Unsupported /\ Record(<<>>, None, {"PATH_REBOUND"})
     \/ link[cur] = None /\ Fail /\ UNCHANGED <<file, result>>
  /\ UNCHANGED <<fs, todo, inventory, history>>

\* Mutant: the descriptor is not compared with the inventory.
TrustOpened(i) == FALSE
Rebound(i) == Ino(cur) # NoIdentity /\ i # Ino(cur)

\* open with O_NOFOLLOW, then fstat.
Open ==
  /\ pc = "open" /\ link[cur] # Pipe
  /\ IF Regular(cur)
       THEN LET i == link[cur] IN
              /\ fd' = i
              /\ opened' = [size |-> Len(bytes[i]), stamp |-> stamp[i]]
              /\ local' = IF Rebound(i) THEN {"PATH_REBOUND"} ELSE {}
              /\ pc' = "read"
       ELSE Fail /\ UNCHANGED <<fd, opened, local>>
  /\ UNCHANGED <<fs, todo, inventory, cur, buf, result, history>>

\* A FIFO that came to the name after lstat: open waits for a writer, who may
\* never come; then all that he writes is read, and there is no size to meet.
ReadPipe ==
  /\ pc = "open" /\ link[cur] = Pipe
  /\ fd' = None
  /\ \E sent \in Contents \cup {<<>>} :
       /\ buf' = sent
       /\ local' = (IF Rebound(Pipe) THEN {"PATH_REBOUND"} ELSE {})
                     \cup (IF sent # <<>> THEN {"OPENED_FILE_CHANGED"} ELSE {})
  /\ pc' = "lstat2"
  /\ UNCHANGED <<fs, todo, inventory, cur, opened, result, history>>

Read ==
  /\ pc = "read" /\ Len(buf) < Len(bytes[fd])
  /\ buf' = Append(buf, bytes[fd][Len(buf) + 1])
  /\ UNCHANGED <<fs, pc, todo, inventory, cur, fd, opened, local, result,
                 history>>

AtEnd == Len(buf) >= Len(bytes[fd])

\* Mutant: only the size and the count are compared.
SameSize == Len(bytes[fd]) = opened.size /\ Len(buf) = opened.size
Unchanged == /\ Len(bytes[fd]) = opened.size /\ Len(buf) = opened.size
             /\ stamp[fd] = opened.stamp

\* Mutant: a file that changed is hashed again.
HashedAgain == IF Unchanged THEN "lstat2" ELSE "lstat"
AfterFstat == "lstat2"

\* A read at or past the end of the file ends the loop; then fstat again.
FstatAfter ==
  /\ pc = "read" /\ AtEnd
  /\ local' = IF Unchanged THEN local ELSE local \cup {"OPENED_FILE_CHANGED"}
  /\ pc' = AfterFstat
  /\ UNCHANGED <<fs, todo, inventory, cur, fd, opened, buf, result, history>>

StillBound == Regular(cur) /\ (HasIdentity => link[cur] = fd)

LstatAfter ==
  /\ pc = "lstat2"
  /\ Record(buf, fd, IF StillBound THEN local ELSE local \cup {"PATH_REBOUND"})
  /\ UNCHANGED <<fs, todo, inventory, history>>

-----------------------------------------------------------------------------
(* The second inventory and the verdict.                                   *)

Hashed ==
  /\ pc = "files" /\ todo = {}
  /\ round' = 2
  /\ pc' = "list"
  /\ UNCHANGED <<fs, todo, excluded, seen, rootSeen, discovered, file, result,
                 history>>

\* Mutant: the second inventory is not compared.
SameRootOnly == rootSeen = root
SameInventory == seen[1] = seen[2] /\ rootSeen = root

Recorded == {p \in Paths : records[p] # None}

Complete(found) ==
  /\ found = {}
  /\ Listed(1) \cap excluded = {}
  /\ \A p \in Paths : seen[1][p] \notin Unsupported
  /\ Cardinality(Recorded) = Cardinality(Listed(1))
  /\ hashed = discovered

Conclude ==
  /\ pc = "stat" /\ todo = {} /\ round = 2
  /\ LET found == IF SameInventory THEN findings
                  ELSE findings \cup {"ROOT_CHANGED"}
     IN /\ findings' = found
        /\ completion' = IF Complete(found) THEN "COMPLETE" ELSE "INCOMPLETE"
  /\ pc' = "done"
  /\ UNCHANGED <<fs, todo, inventory, file, identities, records, unstable,
                 hashed, history>>

-----------------------------------------------------------------------------
(* Other programs.                                                         *)

Change == pc \notin {"done", "failed"} /\ changes < MaxChanges
          /\ changes' = changes + 1

observer == <<pc, todo, inventory, file, result>>
Touch(changed) ==
  touched' = touched \cup {p \in changed : p \in Recorded
                                            \/ (pc = "lstat2" /\ p = cur)}

\* A file is written or truncated in place.
Rewrite(i) ==
  /\ Change
  /\ \E c \in Contents \ {bytes[i]} :
       /\ bytes' = [bytes EXCEPT ![i] = c]
       /\ held' = [held EXCEPT ![i] = @ \cup {c}]
  /\ stamp' = [stamp EXCEPT ![i] = @ + 1]
  /\ Touch({p \in Paths : link[p] = i})
  /\ UNCHANGED <<root, link, observer>>

\* A name is created, removed, replaced or linked to a file.
Relink(p) ==
  /\ Change
  /\ \E to \in (Inodes \cup Unsupported \cup {None}) \ {link[p]} :
       /\ link' = [link EXCEPT ![p] = to]
       /\ stamp' \in {stamp, [i \in Inodes |-> IF i \in {to, link[p]}
                                THEN stamp[i] + 1 ELSE stamp[i]]}
  /\ Touch({p})
  /\ UNCHANGED <<root, bytes, held, observer>>

\* Another directory, with the same names in it, is moved to the root path.
SwapRoot ==
  /\ Change
  /\ root' \in Roots \ {root}
  /\ Touch(Paths)
  /\ UNCHANGED <<link, bytes, stamp, held, observer>>

-----------------------------------------------------------------------------
Observe ==
  \/ Start \/ List \/ StatEntry \/ Inventoried
  \/ SkipExcluded \/ RejectAlias \/ BeginFile
  \/ LstatBefore \/ Open \/ ReadPipe \/ Read \/ FstatAfter \/ LstatAfter
  \/ Hashed \/ Conclude

Next ==
  \/ Observe
  \/ \E i \in Inodes : Rewrite(i)
  \/ \E p \in Paths : Relink(p)
  \/ SwapRoot

Spec == Init /\ [][Next]_vars

-----------------------------------------------------------------------------
(* Properties.                                                             *)

Steps == {"start", "list", "stat", "files", "lstat", "open", "read", "lstat2",
          "done", "failed"}
Records == [digest : Seq(Blocks), ino : Inodes \cup {None}]

FsTypes ==
  /\ root \in Roots
  /\ link \in [Paths -> Inodes \cup Unsupported \cup {None}]
  /\ bytes \in [Inodes -> Contents]
  /\ stamp \in [Inodes -> Nat]
InventoryTypes ==
  /\ excluded \in Exclusions
  /\ round \in 1..2
  /\ seen \in [1..2 -> [Paths -> Entries \cup Unsupported \cup {None}]]
  /\ rootSeen \in Roots
  /\ discovered \in Nat
FileTypes ==
  /\ pc \in Steps
  /\ todo \subseteq Paths
  /\ local \subseteq Kinds
  /\ buf \in Seq(Blocks)
  /\ pc \in {"lstat", "open", "read", "lstat2"} => cur \in Paths
  /\ pc = "read" => fd \in Inodes /\ opened \in [size : Nat, stamp : Nat]
  /\ pc = "lstat2" => fd \in Inodes \cup {None}
ResultTypes ==
  /\ identities \subseteq Inodes
  /\ records \in [Paths -> Records \cup {None}]
  /\ findings \subseteq Kinds
  /\ unstable \subseteq Paths
  /\ hashed \in 0..MaxBytes
  /\ completion \in {"PENDING", "COMPLETE", "INCOMPLETE"}
HistoryTypes ==
  /\ held \in [Inodes -> SUBSET Contents]
  /\ touched \subseteq Paths
  /\ changes \in 0..MaxChanges

\* The variables stay within their types, and the byte budget is never
\* exceeded.
TypeOK == FsTypes /\ InventoryTypes /\ FileTypes /\ ResultTypes /\ HistoryTypes

IsComplete == completion = "COMPLETE"

\* A digest of a COMPLETE manifest is the digest of bytes that the
\* inventoried file really held at one moment of the observation: blocks of
\* two versions, or of another file, are never passed off as one content.
DigestsAreNotTorn ==
  IsComplete => \A p \in Recorded : records[p].digest \in held[Ino(p)]

\* REJECT_HARDLINK_ALIASES: the same file is never counted as two members of
\* a COMPLETE manifest, also when names are linked while files are hashed.
NoFileTwice ==
  IsComplete => \A p, q \in Recorded : records[p].ino = records[q].ino => p = q

\* A COMPLETE manifest that no longer describes the root was overtaken by a
\* change made after the file in question was hashed, never before.
StaleOnlyWhenTouched ==
  IsComplete => \A p \in Recorded \ touched :
                  Regular(p) /\ records[p].digest = bytes[link[p]]

\* The digests of a COMPLETE manifest are of what its files held, and of what
\* they still hold unless that was changed since.
RecordsAreOfTheFiles == DigestsAreNotTorn /\ StaleOnlyWhenTouched

\* "COMPLETE means complete only for the declared stable local inventory
\* scope": every regular file of either inventory has a record and there is
\* nothing else in them.
CompleteCoversBothInventories ==
  IsComplete => /\ Recorded = Listed(1) /\ Recorded = Listed(2)
                /\ \A p \in Paths \ Recorded : \A r \in 1..2 : seen[r][p] = None

\* No false alarm: a root that nobody changes, without exclusions, aliases and
\* special entries, gets a COMPLETE manifest that equals it.
Clean == /\ HasIdentity
         /\ \A p \in Paths : link[p] \notin Unsupported
         /\ \A p \in excluded : ~Regular(p)
         /\ \A p, q \in Paths : Regular(p) /\ link[p] = link[q] => p = q
QuietRootIsComplete ==
  pc = "done" /\ changes = 0 /\ Clean =>
    /\ IsComplete
    /\ \A p \in Paths : IF Regular(p) THEN records[p].digest = bytes[link[p]]
                                      ELSE records[p] = None

\* What the observer uses up: the stages of the observation, the names to look
\* at or the files to hash, the stages of a file, what is unread of the open one.
ObservationStage ==
  CASE pc = "start" -> 6
    [] pc = "list" -> IF round = 1 THEN 5 ELSE 2
    [] pc = "stat" -> IF round = 1 THEN 4 ELSE 1
    [] pc \in {"done", "failed"} -> 0
    [] OTHER -> 3
FileStage ==
  CASE pc = "lstat" -> 4 [] pc = "open" -> 3 [] pc = "read" -> 2
    [] pc = "lstat2" -> 1 [] OTHER -> 0
Unread == IF pc = "read" /\ Len(buf) < Len(bytes[fd])
          THEN Len(bytes[fd]) - Len(buf) ELSE 0
ObserverRank == <<ObservationStage, Cardinality(todo), FileStage, Unread>>
RankFalls == <<ObserverRank', ObserverRank>> \in Descent(4)

Delay == /\ Observe => RankFalls
         /\ ~Observe => \/ ObserverRank' = ObserverRank \/ RankFalls
                        \/ pc = "read" /\ Len(bytes'[fd]) > Len(bytes[fd])

\* The read loop has no bound, and the byte limit is looked at only after it:
\* a file that grows as fast as it is read is read for ever.  Nothing else
\* keeps the observer busy: each of its steps uses something up, whatever
\* others rename, link, shrink or rewrite, and only a longer file gives back.
OnlyGrowthDelays == [][Delay]_vars
=============================================================================
