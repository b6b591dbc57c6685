---------------------- MODULE PayloadObservationProofs ----------------------
(***************************************************************************)
(* Safety of PayloadObservation for any number of names and files, any     *)
(* contents, limits and exclusions.                                        *)
(***************************************************************************)
EXTENDS PayloadObservation, FiniteSetTheorems, SequenceTheorems, TLAPS

Hashing == {"lstat", "open", "read", "lstat2"}
AtHand == IF pc \in Hashing THEN {cur} ELSE {}

\* Where the observer stands in the scope it inventoried first.
ScopeInv ==
  /\ pc \in Hashing \cup {"files"} => round = 1
  /\ pc \in Hashing \cup {"files"} => todo \subseteq Listed(1) \ (Recorded \cup AtHand)
  /\ pc \in Hashing => cur \in Listed(1) \ Recorded
  /\ pc \in {"start", "list", "stat"} /\ round = 1 => Recorded = {}
  /\ Recorded \subseteq Listed(1)
  /\ HasIdentity => \A p \in Listed(1) : Ino(p) \in Inodes
  /\ pc \in Hashing \/ Recorded # {} \/ (pc = "files" /\ todo # {})
       => HasIdentity \/ findings # {}

\* As long as the time stamps have not moved, the blocks read so far are the
\* beginning of what the file holds.
ReadInv ==
  /\ pc \notin {"read", "lstat2"} => buf = <<>> /\ local = {}
  /\ pc \in {"read", "lstat2"} /\ local = {} /\ HasIdentity => fd = Ino(cur)
  /\ pc = "read" => opened.stamp <= stamp[fd]
  /\ pc = "read" /\ opened.stamp = stamp[fd] =>
       /\ Len(bytes[fd]) = opened.size
       /\ Len(buf) <= opened.size
       /\ \A k \in 1..Len(buf) : buf[k] = bytes[fd][k]
  /\ pc = "lstat2" /\ local = {} /\ HasIdentity => buf \in held[fd]
  /\ pc = "lstat2" /\ local = {} /\ HasIdentity /\ cur \notin touched /\ link[cur] = fd
       => buf = bytes[fd]

HeldInv == \A i \in Inodes : bytes[i] \in held[i]

\* Without findings, a record is about the inventoried file.
RecordInv ==
  findings = {} => \A p \in Recorded :
    /\ records[p].ino = Ino(p)
    /\ records[p].digest \in held[Ino(p)]
    /\ p \notin touched => link[p] = Ino(p) /\ records[p].digest = bytes[Ino(p)]

\* REJECT_HARDLINK_ALIASES, as the loop maintains it.
AliasInv ==
  HasIdentity =>
    /\ \A p \in Recorded \cup AtHand : Ino(p) \in identities
    /\ \A p, q \in Recorded \cup AtHand : Ino(p) = Ino(q) => p = q

VerdictInv ==
  /\ completion # "PENDING" => pc = "done"
  /\ IsComplete => Complete(findings) /\ seen[1] = seen[2]

IInv == /\ TypeOK /\ ScopeInv /\ ReadInv /\ HeldInv /\ RecordInv
        /\ AliasInv /\ VerdictInv

\* A file is a sequence of blocks, and so is what has been read of it.
LEMMA Lengths ==
  FsTypes => \A i \in Inodes : bytes[i] \in Seq(Blocks) /\ Len(bytes[i]) \in Nat
BY ScopeAssumption, LenProperties DEF FsTypes

\* An inventoried entry is an entry, nothing, or something special.
LEMMA EntryType ==
  FsTypes => \A p \in Paths : Entry(p) \in Entries \cup Unsupported \cup {None}
<1> SUFFICES ASSUME FsTypes, NEW p \in Paths
             PROVE Entry(p) \in Entries \cup Unsupported \cup {None}
    OBVIOUS
<1>1. CASE Regular(p)
  <2>1. link[p] \in Inodes /\ Len(bytes[link[p]]) \in Nat
        BY <1>1, Lengths DEF Regular
  <2> QED BY <1>1, <2>1 DEF Entry, Identity, Entries
<1>2. CASE ~Regular(p)
      BY <1>2 DEF FsTypes, Entry, Regular
<1> QED BY <1>1, <1>2

\* The invariant holds before the root is opened.
LEMMA InitIInv == Init => IInv
<1> SUFFICES ASSUME Init PROVE IInv
    OBVIOUS
<1>1. FsTypes /\ HistoryTypes
      BY SizesAssumption DEF Init, FsTypes, HistoryTypes
<1>2. InventoryTypes
      BY DEF Init, InventoryTypes, NoEntries
<1>3. FileTypes
      BY EmptySeq DEF Init, FileTypes, Steps
<1>4. ResultTypes
      BY SizesAssumption DEF Init, ResultTypes, NoEntries
<1>5. Recorded = {} /\ Listed(1) = {} /\ AtHand = {}
      BY EntriesAssumption DEF Init, Recorded, Listed, AtHand, Hashing, NoEntries,
                               Entries
<1>6. ScopeInv
      BY <1>5 DEF Init, ScopeInv, Hashing
<1>7. ReadInv /\ HeldInv /\ RecordInv /\ AliasInv /\ VerdictInv
      BY <1>5 DEF Init, ReadInv, HeldInv, RecordInv, AliasInv, VerdictInv,
                  IsComplete
<1> QED BY <1>1, <1>2, <1>3, <1>4, <1>6, <1>7 DEF IInv, TypeOK

-----------------------------------------------------------------------------
(* Types, one group of variables at a time.                                *)

OtherPrograms ==
  \/ \E i \in Inodes : Rewrite(i)
  \/ \E p \in Paths : Relink(p)
  \/ SwapRoot

\* Every step keeps the types of the files and of the history.
LEMMA FsAndHistory == TypeOK /\ [Next]_vars => FsTypes' /\ HistoryTypes'
<1> SUFFICES ASSUME TypeOK, [Next]_vars PROVE FsTypes' /\ HistoryTypes'
    OBVIOUS
<1> USE SizesAssumption DEF TypeOK, FsTypes, HistoryTypes, fs, history
<1>1. ASSUME UNCHANGED <<fs, history>> PROVE FsTypes' /\ HistoryTypes'
      BY <1>1
<1>2. ASSUME Observe \/ UNCHANGED vars PROVE UNCHANGED <<fs, history>>
      BY <1>2 DEF Observe, Start, List, StatEntry, Inventoried, SkipExcluded,
           RejectAlias, BeginFile, LstatBefore, Open, ReadPipe, Read, FstatAfter, AfterFstat,
           LstatAfter, Hashed, Conclude, vars
<1>3. ASSUME NEW i \in Inodes, Rewrite(i) PROVE FsTypes' /\ HistoryTypes'
      BY <1>3 DEF Rewrite, Change, Touch
<1>4. ASSUME NEW p \in Paths, Relink(p) PROVE FsTypes' /\ HistoryTypes'
  <2>1. PICK to \in Inodes \cup Unsupported \cup {None} :
          /\ link' = [link EXCEPT ![p] = to]
          /\ stamp' \in {stamp, [i \in Inodes |-> IF i \in {to, link[p]}
                                   THEN stamp[i] + 1 ELSE stamp[i]]}
        BY <1>4 DEF Relink
  <2>2. stamp' \in [Inodes -> Nat]
        BY <2>1
  <2>3. UNCHANGED <<root, bytes, held>> /\ touched' \subseteq Paths
        BY <1>4 DEF Relink, Touch
  <2>4. changes' \in 0..MaxChanges
        BY <1>4 DEF Relink, Change
  <2> QED BY <2>1, <2>2, <2>3, <2>4
<1>5. ASSUME SwapRoot PROVE FsTypes' /\ HistoryTypes'
      BY <1>5 DEF SwapRoot, Change, Touch
<1> QED BY <1>1, <1>2, <1>3, <1>4, <1>5 DEF Next

\* Every step keeps the types of the inventories.
LEMMA InventoryStep == TypeOK /\ [Next]_vars => InventoryTypes'
<1> SUFFICES ASSUME TypeOK, [Next]_vars PROVE InventoryTypes'
    OBVIOUS
<1> USE DEF TypeOK, InventoryTypes, inventory
<1>1. ASSUME UNCHANGED inventory PROVE InventoryTypes'
      BY <1>1
<1>2. ASSUME \/ List \/ Inventoried \/ SkipExcluded \/ RejectAlias \/ BeginFile
             \/ LstatBefore \/ Open \/ ReadPipe \/ Read \/ FstatAfter \/ LstatAfter
             \/ Conclude \/ OtherPrograms \/ UNCHANGED vars
      PROVE UNCHANGED inventory
      BY <1>2 DEF List, Inventoried, SkipExcluded, RejectAlias, BeginFile,
           LstatBefore, Open, ReadPipe, Read, FstatAfter, AfterFstat, LstatAfter, Conclude,
           OtherPrograms, Rewrite, Relink, SwapRoot, observer, vars
<1>3. ASSUME Start \/ Hashed PROVE InventoryTypes'
      BY <1>3 DEF Start, Hashed, FsTypes
<1>4. ASSUME StatEntry PROVE InventoryTypes'
  <2>1. PICK p \in todo :
          \/ UNCHANGED <<seen, discovered>>
          \/ /\ seen' = [seen EXCEPT ![round][p] = Entry(p)]
             /\ discovered' = IF Counted(p) THEN discovered + Len(bytes[link[p]])
                              ELSE discovered
        BY <1>4 DEF StatEntry
  <2>2. p \in Paths /\ Entry(p) \in Entries \cup Unsupported \cup {None}
        BY EntryType DEF FileTypes
  <2>3. Counted(p) => Len(bytes[link[p]]) \in Nat
        BY Lengths DEF Counted, Regular
  <2>4. UNCHANGED <<excluded, round, rootSeen>>
        BY <1>4 DEF StatEntry
  <2> QED BY <2>1, <2>2, <2>3, <2>4
<1> QED BY <1>1, <1>2, <1>3, <1>4 DEF Next, Observe, OtherPrograms

\* Recording a file keeps the types.
LEMMA RecordTypes ==
  ASSUME TypeOK, pc \in Hashing, NEW digest \in Seq(Blocks),
         NEW ino \in Inodes \cup {None}, NEW found \in SUBSET Kinds,
         Record(digest, ino, found)
  PROVE  /\ ResultTypes'
         /\ cur' = None /\ fd' = None /\ buf' = <<>> /\ local' = {}
         /\ pc' \in {"files", "failed"}
<1> USE DEF Record, Fail
<1>1. cur \in Paths
      BY DEF TypeOK, FileTypes, Hashing
<1>2. Len(digest) \in Nat
      BY LenProperties
<1>3. hashed' \in 0..MaxBytes
      BY <1>2, SizesAssumption DEF TypeOK, ResultTypes, Within
<1>4. records' \in [Paths -> Records \cup {None}]
      BY <1>1 DEF TypeOK, ResultTypes, Records
<1>5. findings' \subseteq Kinds /\ unstable' \subseteq Paths
      BY <1>1 DEF TypeOK, ResultTypes
<1> QED BY <1>3, <1>4, <1>5 DEF TypeOK, ResultTypes

\* Every step keeps the types of the open file and of the result.
LEMMA FileAndResult == IInv /\ [Next]_vars => FileTypes' /\ ResultTypes'
<1> SUFFICES ASSUME IInv, [Next]_vars PROVE FileTypes' /\ ResultTypes'
    OBVIOUS
<1> USE DEF IInv, TypeOK, FileTypes, Steps, file, result, Fail
<1>1. ASSUME UNCHANGED result PROVE ResultTypes'
      BY <1>1 DEF ResultTypes
<1>2. ASSUME Start \/ List \/ StatEntry \/ SkipExcluded \/ Hashed
      PROVE FileTypes' /\ ResultTypes'
      BY <1>1, <1>2 DEF Start, List, StatEntry, SkipExcluded, Hashed
<1>3. ASSUME Inventoried PROVE FileTypes' /\ ResultTypes'
  <2>1. FileTypes'
        BY <1>3 DEF Inventoried, Listed
  <2>2. ResultTypes'
        BY <1>3 DEF Inventoried, ResultTypes, Kinds
  <2> QED BY <2>1, <2>2
<1>4. ASSUME RejectAlias PROVE FileTypes' /\ ResultTypes'
  <2>1. FileTypes'
        BY <1>4 DEF RejectAlias
  <2>2. ResultTypes'
        BY <1>4 DEF RejectAlias, ResultTypes, Kinds
  <2> QED BY <2>1, <2>2
<1>5. ASSUME BeginFile PROVE FileTypes' /\ ResultTypes'
  <2>1. PICK p \in todo \ excluded :
          /\ todo' = todo \ {p}
          /\ cur' = p
          /\ identities' = identities \cup ({Ino(p)} \ {NoIdentity})
        BY <1>5 DEF BeginFile
  <2>2. p \in Listed(1)
        BY <1>5 DEF BeginFile, ScopeInv, Hashing
  <2>3. Ino(p) \in Inodes \cup {NoIdentity}
        BY <2>2 DEF Listed, Ino, Entries
  <2>4. FileTypes'
        BY <1>5, <2>1 DEF BeginFile
  <2>5. ResultTypes'
        BY <1>5, <2>1, <2>3 DEF BeginFile, ResultTypes
  <2> QED BY <2>4, <2>5
<1>6. ASSUME LstatBefore PROVE FileTypes' /\ ResultTypes'
  <2>1. CASE UNCHANGED result
        BY <1>1, <1>6, <2>1, EmptySeq, RecordTypes DEF LstatBefore, Hashing, Kinds
  <2>2. CASE Record(<<>>, None, {"PATH_REBOUND"})
        BY <1>6, <2>2, RecordTypes, EmptySeq DEF LstatBefore, Hashing, Kinds
  <2> QED BY <1>6, <2>1, <2>2 DEF LstatBefore
<1>7. ASSUME Open PROVE FileTypes' /\ ResultTypes'
  <2>1. Regular(cur) => /\ link[cur] \in Inodes
                        /\ Len(bytes[link[cur]]) \in Nat
                        /\ stamp[link[cur]] \in Nat
        BY Lengths DEF Regular, FsTypes
  <2>2. FileTypes'
    <3>1. CASE Regular(cur)
      <4>1. /\ pc' = "read" /\ fd' \in Inodes /\ opened' \in [size : Nat, stamp : Nat]
            /\ local' \subseteq Kinds /\ UNCHANGED <<todo, cur, buf>> /\ cur \in Paths
            BY <1>7, <2>1, <3>1 DEF Open, Kinds
      <4> QED BY <4>1
    <3>2. CASE ~Regular(cur)
          BY <1>7, <3>2 DEF Open
    <3> QED BY <3>1, <3>2
  <2>3. ResultTypes'
        BY <1>1, <1>7 DEF Open
  <2> QED BY <2>2, <2>3
<1>8. ASSUME Read PROVE FileTypes' /\ ResultTypes'
  <2>1. bytes[fd][Len(buf) + 1] \in Blocks
    <3>1. fd \in Inodes /\ bytes[fd] \in Seq(Blocks) /\ Len(buf) \in Nat
          BY <1>8, Lengths, LenProperties DEF Read
    <3>2. Len(buf) + 1 \in 1..Len(bytes[fd])
          BY <1>8, <3>1, LenProperties DEF Read
    <3> QED BY <3>1, <3>2, ElementOfSeq
  <2> QED BY <1>1, <1>8, <2>1 DEF Read
<1>9. ASSUME FstatAfter PROVE FileTypes' /\ ResultTypes'
      BY <1>1, <1>9 DEF FstatAfter, AfterFstat, Kinds
<1>10. ASSUME LstatAfter PROVE FileTypes' /\ ResultTypes'
  <2>1. PICK found \in SUBSET Kinds : Record(buf, fd, found)
        BY <1>10 DEF LstatAfter, Kinds
  <2> QED BY <1>10, <2>1, RecordTypes, EmptySeq DEF LstatAfter, Hashing
<1>11. ASSUME Conclude PROVE FileTypes' /\ ResultTypes'
  <2>1. FileTypes'
        BY <1>11 DEF Conclude
  <2>2. ResultTypes'
        BY <1>11 DEF Conclude, ResultTypes, Kinds
  <2> QED BY <2>1, <2>2
<1>12. ASSUME OtherPrograms \/ UNCHANGED vars PROVE FileTypes' /\ ResultTypes'
  <2>1. UNCHANGED <<pc, todo, file, result>>
        BY <1>12 DEF OtherPrograms, Rewrite, Relink, SwapRoot, observer, vars
  <2> QED BY <1>1, <2>1
<1>13. ASSUME ReadPipe PROVE FileTypes' /\ ResultTypes'
  <2>1. PICK sent \in Contents \cup {<<>>} : buf' = sent
        BY <1>13 DEF ReadPipe
  <2>2. sent \in Seq(Blocks)
        BY <2>1, ScopeAssumption, EmptySeq
  <2>3. local' \subseteq Kinds
        BY <1>13 DEF ReadPipe, Kinds
  <2>4. FileTypes'
        BY <1>13, <2>1, <2>2, <2>3 DEF ReadPipe
  <2>5. ResultTypes'
        BY <1>1, <1>13 DEF ReadPipe
  <2> QED BY <2>4, <2>5
<1> QED BY <1>2, <1>3, <1>4, <1>5, <1>6, <1>7, <1>8, <1>9, <1>10, <1>11,
           <1>12, <1>13 DEF Next, Observe, OtherPrograms

\* Every step keeps the types.
LEMMA NextTypeOK == IInv /\ [Next]_vars => TypeOK'
BY FsAndHistory, InventoryStep, FileAndResult DEF IInv, TypeOK

-----------------------------------------------------------------------------
(* The invariants, one step of the observer at a time.                     *)

\* Other programs do not touch the observer.
LEMMA OthersKeep ==
  OtherPrograms \/ UNCHANGED vars => UNCHANGED <<pc, todo, inventory, file, result>>
BY DEF OtherPrograms, Rewrite, Relink, SwapRoot, observer, vars

\* The observer does not touch the files.
LEMMA ObserverKeeps == Observe => UNCHANGED <<fs, history>>
BY DEF Observe, Start, List, StatEntry, Inventoried, SkipExcluded, RejectAlias,
       BeginFile, LstatBefore, Open, ReadPipe, Read, FstatAfter, AfterFstat, LstatAfter, Hashed, Conclude

\* Only StatEntry changes an inventory, and only the one being taken.
LEMMA SeenStep ==
  ASSUME IInv, [Next]_vars
  PROVE  \/ UNCHANGED seen
         \/ /\ StatEntry
            /\ \E p \in Paths : seen' = [seen EXCEPT ![round][p] = Entry(p)]
<1>1. CASE StatEntry
      BY <1>1 DEF StatEntry, IInv, TypeOK, FileTypes
<1>2. CASE ~StatEntry
      BY <1>2, OthersKeep DEF Next, Observe, OtherPrograms, Start, List, Inventoried,
         SkipExcluded, RejectAlias, BeginFile, LstatBefore, Open, ReadPipe, Read,
         FstatAfter, AfterFstat, LstatAfter, Hashed, Conclude, inventory
<1> QED BY <1>1, <1>2

\* Every step keeps what is listed within the inventories.
LEMMA ScopeStep == IInv /\ [Next]_vars => ScopeInv'
<1> SUFFICES ASSUME IInv, [Next]_vars PROVE ScopeInv'
    OBVIOUS
<1> USE DEF IInv, ScopeInv, Hashing, Fail, inventory, file, result
<1>0. UNCHANGED seen => /\ Listed(1)' = Listed(1)
                        /\ \A p \in Paths : Ino(p)' = Ino(p)
      BY DEF Listed, Ino
<1>1. UNCHANGED records => Recorded' = Recorded
      BY DEF Recorded
<1>2. AtHand = IF pc \in Hashing THEN {cur} ELSE {}
      BY DEF AtHand
<1>3. Listed(1) \subseteq Paths
      BY DEF Listed
<1>4. ASSUME Start \/ List \/ Hashed PROVE ScopeInv'
      BY <1>0, <1>1, <1>3, <1>4 DEF Start, List, Hashed, AtHand
<1>5. ASSUME StatEntry PROVE ScopeInv'
  <2>1. pc = "stat" /\ pc' \in {"stat", "failed"} /\ UNCHANGED <<round, records, findings>>
        BY <1>5 DEF StatEntry
  <2>2. round = 1 => Recorded = {}
        BY <2>1
  <2>3. round = 2 => Listed(1)' = Listed(1) /\ \A p \in Paths : Ino(p)' = Ino(p)
        BY <1>5, SeenStep DEF Listed, Ino, TypeOK, InventoryTypes
  <2>4. HasIdentity => \A p \in Listed(1)' : Ino(p)' \in Inodes
    <3> SUFFICES ASSUME HasIdentity, NEW p \in Listed(1)' PROVE Ino(p)' \in Inodes
        OBVIOUS
    <3>1. CASE UNCHANGED seen
          BY <1>0, <3>1 DEF Listed
    <3>2. CASE \E q \in Paths : seen' = [seen EXCEPT ![round][q] = Entry(q)]
      <4>1. PICK q \in Paths : seen' = [seen EXCEPT ![round][q] = Entry(q)]
            BY <3>2
      <4>2. CASE p = q /\ round = 1
        <5>1. seen'[1][p] = Entry(p)
              BY <4>1, <4>2 DEF TypeOK, InventoryTypes
        <5>2. Entry(p) \in Entries
              BY <5>1 DEF Listed
        <5>3. Regular(p)
              BY <5>2, EntriesAssumption DEF Entry, Entries, Regular, TypeOK, FsTypes,
                 Listed
        <5> QED BY <5>1, <5>3 DEF Entry, Identity, Ino, Regular
      <4>3. CASE ~(p = q /\ round = 1)
        <5>1. seen'[1][p] = seen[1][p]
              BY <4>1, <4>3 DEF TypeOK, InventoryTypes, Listed
        <5> QED BY <5>1 DEF Listed, Ino
      <4> QED BY <4>2, <4>3
    <3> QED BY <1>5, <3>1, <3>2, SeenStep
  <2> QED BY <1>1, <2>1, <2>2, <2>3, <2>4 DEF TypeOK, InventoryTypes, AtHand
<1>6. ASSUME Inventoried PROVE ScopeInv'
  <2>1. UNCHANGED <<seen, records, round>> /\ round = 1 /\ pc = "stat" /\ pc' = "files"
        /\ todo' = Listed(1)
        BY <1>6 DEF Inventoried
  <2>2. Listed(1) # {} => HasIdentity \/ findings' # {}
        BY <1>6 DEF Inventoried
  <2> QED BY <1>0, <1>1, <1>3, <2>1, <2>2 DEF AtHand
<1>7. ASSUME SkipExcluded \/ RejectAlias PROVE ScopeInv'
  <2>1. /\ pc = "files" /\ pc' = "files" /\ todo # {} /\ todo' \subseteq todo
        /\ UNCHANGED <<round, seen, records, cur>> /\ findings \subseteq findings'
        BY <1>7 DEF SkipExcluded, RejectAlias
  <2> QED BY <1>0, <1>1, <1>3, <2>1 DEF AtHand
<1>8. ASSUME BeginFile PROVE ScopeInv'
  <2>1. PICK p \in todo : cur' = p /\ todo' = todo \ {p}
        BY <1>8 DEF BeginFile
  <2>2. pc = "files" /\ pc' = "lstat" /\ UNCHANGED <<round, seen, records, findings>>
        BY <1>8 DEF BeginFile
  <2> QED BY <1>0, <1>1, <1>3, <2>1, <2>2 DEF AtHand
<1>9. ASSUME pc \in Hashing, pc' \in Hashing \cup {"failed"},
             UNCHANGED <<todo, round, seen, records, findings, cur>>
      PROVE ScopeInv'
      BY <1>0, <1>1, <1>3, <1>9 DEF AtHand
<1>10. ASSUME NEW digest, NEW ino, NEW found, pc \in Hashing,
              UNCHANGED <<todo, inventory>>, Record(digest, ino, found)
       PROVE ScopeInv'
  <2>1. Recorded' \subseteq Recorded \cup {cur} /\ findings \subseteq findings'
        BY <1>10 DEF Record, Recorded, TypeOK, ResultTypes, FileTypes
  <2>2. pc' \in {"files", "failed"}
        BY <1>10 DEF Record
  <2> QED BY <1>0, <1>2, <1>3, <1>10, <2>1, <2>2 DEF AtHand
<1>11. ASSUME LstatBefore \/ Open \/ ReadPipe \/ Read \/ FstatAfter \/ LstatAfter PROVE ScopeInv'
       BY <1>9, <1>10, <1>11 DEF LstatBefore, Open, ReadPipe, Read, FstatAfter, AfterFstat, LstatAfter
<1>12. ASSUME Conclude PROVE ScopeInv'
  <2>1. /\ pc = "stat" /\ round = 2 /\ pc' = "done" /\ findings \subseteq findings'
        /\ UNCHANGED <<round, seen, records>>
        BY <1>12 DEF Conclude
  <2> QED BY <1>0, <1>1, <1>3, <2>1 DEF AtHand
<1>13. ASSUME OtherPrograms \/ UNCHANGED vars PROVE ScopeInv'
       BY <1>0, <1>1, <1>3, <1>13, OthersKeep DEF AtHand
<1> QED BY <1>4, <1>5, <1>6, <1>7, <1>8, <1>11, <1>12, <1>13
        DEF Next, Observe, OtherPrograms

\* Every step keeps the history complete, and only adds to it.
LEMMA HeldStep == IInv /\ [Next]_vars => HeldInv' /\ \A i \in Inodes : held[i] \subseteq held'[i]
<1> SUFFICES ASSUME IInv, [Next]_vars
             PROVE HeldInv' /\ \A i \in Inodes : held[i] \subseteq held'[i]
    OBVIOUS
<1> USE DEF IInv, TypeOK, FsTypes, HistoryTypes, HeldInv
<1>1. CASE UNCHANGED <<bytes, held>>
      BY <1>1
<1>2. ASSUME NEW i \in Inodes, Rewrite(i)
      PROVE HeldInv' /\ \A j \in Inodes : held[j] \subseteq held'[j]
      BY <1>2 DEF Rewrite
<1> QED BY <1>1, <1>2, ObserverKeeps
        DEF Next, Relink, SwapRoot, vars, fs, history

\* When the file has its time stamps of the opening, all that was read is
\* what it holds.
LEMMA ReadToTheEnd ==
  ASSUME IInv, pc = "read", AtEnd, Unchanged
  PROVE  buf = bytes[fd]
<1>1. fd \in Inodes /\ buf \in Seq(Blocks) /\ bytes[fd] \in Seq(Blocks)
      BY Lengths DEF IInv, TypeOK, FileTypes
<1>2. Len(buf) = Len(bytes[fd]) /\ \A k \in 1..Len(buf) : buf[k] = bytes[fd][k]
      BY DEF IInv, ReadInv, Unchanged
<1> QED BY <1>1, <1>2, SeqEqual

\* Until its stamp moves, what was read of a file stays a prefix of it.
LEMMA ReadStep == IInv /\ [Next]_vars => ReadInv'
<1> SUFFICES ASSUME IInv, [Next]_vars PROVE ReadInv'
    OBVIOUS
<1> USE DEF IInv, ReadInv, TypeOK
<1>1. ASSUME \/ Start \/ List \/ StatEntry \/ Inventoried \/ SkipExcluded
             \/ RejectAlias \/ BeginFile \/ Hashed \/ Conclude
      PROVE ReadInv'
      BY <1>1 DEF Start, List, StatEntry, Inventoried, SkipExcluded, RejectAlias,
         BeginFile, Hashed, Conclude, Fail, file
<1>2. ASSUME LstatBefore \/ LstatAfter PROVE ReadInv'
      BY <1>2 DEF LstatBefore, LstatAfter, Record, Fail, file
<1>3. ASSUME Open PROVE ReadInv'
  <2>1. CASE ~Regular(cur)
        BY <1>3, <2>1 DEF Open, Fail
  <2>2. CASE Regular(cur)
    <3>1. /\ pc = "open" /\ pc' = "read" /\ buf' = <<>> /\ UNCHANGED <<cur, seen>>
          /\ fd' = link[cur] /\ fd' \in Inodes
          /\ opened' = [size |-> Len(bytes[fd']), stamp |-> stamp[fd']]
          /\ UNCHANGED <<bytes, stamp>>
          /\ local' = IF Rebound(fd') THEN {"PATH_REBOUND"} ELSE {}
          BY <1>3, <2>2 DEF Open, Regular, fs, inventory
    <3>2. Len(buf') = 0 /\ Len(bytes[fd']) \in Nat /\ stamp[fd'] \in Nat
          BY <3>1, EmptySeq, Lengths DEF FsTypes
    <3>3. local' = {} /\ HasIdentity => fd' = Ino(cur)'
      <4>1. HasIdentity => Ino(cur) # NoIdentity
            BY <3>1, ValuesAssumption DEF ScopeInv, Hashing
      <4> QED BY <3>1, <4>1 DEF Rebound, Ino
    <3> QED BY <3>1, <3>2, <3>3
  <2> QED BY <2>1, <2>2
<1>4. ASSUME Read PROVE ReadInv'
  <2>1. /\ pc = "read" /\ pc' = "read"
        /\ UNCHANGED <<cur, fd, opened, local, bytes, stamp, seen>>
        BY <1>4 DEF Read, fs, inventory
  <2>2. /\ fd \in Inodes /\ buf \in Seq(Blocks) /\ bytes[fd] \in Seq(Blocks)
        /\ Len(buf) \in Nat /\ Len(bytes[fd]) \in Nat /\ Len(buf) < Len(bytes[fd])
        BY <1>4, <2>1, Lengths, LenProperties DEF FileTypes, Read
  <2>3. bytes[fd][Len(buf) + 1] \in Blocks
        BY <2>2, ElementOfSeq
  <2>4. /\ Len(buf') = Len(buf) + 1
        /\ \A k \in 1..Len(buf') : buf'[k] = IF k = Len(buf) + 1 THEN bytes[fd][k]
                                            ELSE buf[k]
        BY <1>4, <2>2, <2>3 DEF Read
  <2>5. Ino(cur)' = Ino(cur)
        BY <2>1 DEF Ino
  <2>6. opened.stamp = stamp[fd] =>
          /\ Len(buf') <= opened.size
          /\ \A k \in 1..Len(buf') : buf'[k] = bytes[fd][k]
    <3> SUFFICES ASSUME opened.stamp = stamp[fd]
                 PROVE /\ Len(buf') <= opened.size
                       /\ \A k \in 1..Len(buf') : buf'[k] = bytes[fd][k]
        OBVIOUS
    <3>1. Len(bytes[fd]) = opened.size /\ \A k \in 1..Len(buf) : buf[k] = bytes[fd][k]
          BY <2>1
    <3> QED BY <2>2, <2>4, <3>1
  <2> QED BY <2>1, <2>5, <2>6
<1>5. ASSUME FstatAfter PROVE ReadInv'
  <2>1. /\ pc = "read" /\ pc' = "lstat2" /\ AtEnd
        /\ UNCHANGED <<cur, fd, opened, buf, bytes, held, seen>>
        /\ local' = IF Unchanged THEN local ELSE local \cup {"OPENED_FILE_CHANGED"}
        BY <1>5 DEF FstatAfter, AfterFstat, fs, inventory, history
  <2>2. local' = {} => local = {} /\ buf = bytes[fd]
        BY <2>1, ReadToTheEnd
  <2>3. bytes[fd] \in held[fd]
        BY <2>1 DEF HeldInv, FileTypes
  <2>4. Ino(cur)' = Ino(cur)
        BY <2>1 DEF Ino
  <2> QED BY <2>1, <2>2, <2>3, <2>4
<1>6. ASSUME NEW i \in Inodes, Rewrite(i) PROVE ReadInv'
  <2>1. UNCHANGED <<pc, cur, fd, opened, buf, local, seen, link>>
        BY <1>6 DEF Rewrite, observer, file, inventory
  <2>2. /\ stamp' = [stamp EXCEPT ![i] = @ + 1]
        /\ \A j \in Inodes \ {i} : bytes'[j] = bytes[j]
        BY <1>6 DEF Rewrite, FsTypes
  <2>3. pc = "lstat2" /\ link[cur] = i => cur \in touched'
        BY <1>6 DEF Rewrite, Touch, FileTypes
  <2>4. touched \subseteq touched'
        BY <1>6 DEF Rewrite, Touch
  <2>5. \A j \in Inodes : held[j] \subseteq held'[j]
        BY HeldStep
  <2>6. Ino(cur)' = Ino(cur)
        BY <2>1 DEF Ino
  <2>7. pc = "lstat2" /\ local = {} /\ HasIdentity => fd \in Inodes
        BY DEF ScopeInv, Hashing
  <2>8. pc = "lstat2" /\ local = {} /\ HasIdentity /\ cur \notin touched' /\ link[cur] = fd
          => buf = bytes'[fd]
        BY <2>2, <2>3, <2>4, <2>7
  <2>9. pc = "lstat2" /\ local = {} /\ HasIdentity => buf \in held'[fd]
        BY <2>5, <2>7
  <2>10. pc = "read" => opened.stamp <= stamp'[fd]
        BY <2>2 DEF FsTypes, FileTypes
  <2>11. pc = "read" /\ opened.stamp = stamp'[fd] => bytes'[fd] = bytes[fd] /\ stamp'[fd] = stamp[fd]
        BY <2>2 DEF FsTypes, FileTypes
  <2> QED BY <2>1, <2>6, <2>8, <2>9, <2>10, <2>11
<1>7. ASSUME NEW p \in Paths, Relink(p) PROVE ReadInv'
  <2>1. UNCHANGED <<pc, cur, fd, opened, buf, local, seen, bytes, held>>
        BY <1>7 DEF Relink, observer, file, inventory
  <2>2. \A j \in Inodes : stamp'[j] = stamp[j] \/ stamp'[j] = stamp[j] + 1
        BY <1>7 DEF Relink, FsTypes
  <2>3. pc = "lstat2" => cur \in touched' \/ (link'[cur] = link[cur] /\ cur \notin touched)
        BY <1>7 DEF Relink, Touch, FileTypes, FsTypes
  <2>4. Ino(cur)' = Ino(cur)
        BY <2>1 DEF Ino
  <2> QED BY <2>1, <2>2, <2>3, <2>4 DEF FsTypes, FileTypes
<1>8. ASSUME SwapRoot PROVE ReadInv'
  <2>1. UNCHANGED <<pc, cur, fd, opened, buf, local, seen, bytes, held, link, stamp>>
        BY <1>8 DEF SwapRoot, observer, file, inventory
  <2>2. touched \subseteq touched' /\ Ino(cur)' = Ino(cur)
        BY <1>8, <2>1 DEF SwapRoot, Touch, Ino
  <2> QED BY <2>1, <2>2
<1>9. ASSUME UNCHANGED vars PROVE ReadInv'
      BY <1>9 DEF vars, fs, history, inventory, file, result, Ino
<1>10. ASSUME ReadPipe PROVE ReadInv'
  <2>1. /\ pc = "open" /\ pc' = "lstat2" /\ UNCHANGED <<cur, seen>>
        /\ Rebound(Pipe) => local' # {}
        BY <1>10 DEF ReadPipe, inventory
  <2>2. HasIdentity => Ino(cur) \in Inodes
        BY <2>1 DEF ScopeInv, Hashing
  <2>3. HasIdentity => Rebound(Pipe)
        BY <2>2, ValuesAssumption DEF Rebound, Unsupported
  <2> QED BY <2>1, <2>3
<1> QED BY <1>1, <1>2, <1>3, <1>4, <1>5, <1>6, <1>7, <1>8, <1>9, <1>10
        DEF Next, Observe

\* The inventory a record or a file at hand refers to does not change.
LEMMA InoStep ==
  ASSUME IInv, [Next]_vars, NEW p \in Recorded \cup AtHand
  PROVE  Ino(p)' = Ino(p) /\ p \in Paths
<1>1. p \in Paths
      BY DEF Recorded, AtHand, IInv, TypeOK, FileTypes, Hashing
<1>2. CASE UNCHANGED seen
      BY <1>1, <1>2 DEF Ino
<1>3. CASE StatEntry /\ \E q \in Paths : seen' = [seen EXCEPT ![round][q] = Entry(q)]
  <2>1. pc = "stat" /\ AtHand = {}
        BY <1>3 DEF StatEntry, AtHand, Hashing
  <2>2. round = 2
        BY <2>1 DEF IInv, ScopeInv, TypeOK, InventoryTypes
  <2> QED BY <1>1, <1>3, <2>2 DEF Ino, IInv, TypeOK, InventoryTypes
<1> QED BY <1>2, <1>3, SeenStep

\* Records stay those of what their files held.
LEMMA RecordStep == IInv /\ [Next]_vars => RecordInv'
<1> SUFFICES ASSUME IInv, [Next]_vars, (findings = {})',
                    NEW p \in Recorded'
             PROVE  /\ records'[p].ino = Ino(p)'
                    /\ records'[p].digest \in held'[Ino(p)']
                    /\ p \notin touched' => /\ link'[p] = Ino(p)'
                                            /\ records'[p].digest = bytes'[Ino(p)']
    BY DEF RecordInv
<1> DEFINE Goal == /\ records'[p].ino = Ino(p)'
                   /\ records'[p].digest \in held'[Ino(p)']
                   /\ p \notin touched' => /\ link'[p] = Ino(p)'
                                           /\ records'[p].digest = bytes'[Ino(p)']
<1>0. p \in Paths /\ (p \in Recorded => Ino(p)' = Ino(p))
      BY InoStep DEF Recorded
<1>1. ASSUME UNCHANGED <<fs, history, records>>, findings \subseteq findings'
      PROVE Goal
  <2>1. p \in Recorded /\ findings = {}
        BY <1>1 DEF Recorded
  <2> QED BY <1>0, <1>1, <2>1 DEF IInv, RecordInv, fs, history
<1>2. ASSUME \/ Start \/ List \/ StatEntry \/ SkipExcluded \/ RejectAlias
             \/ BeginFile \/ Open \/ ReadPipe \/ Read \/ FstatAfter \/ Hashed \/ Conclude
             \/ UNCHANGED vars
      PROVE Goal
  <2>1. UNCHANGED records /\ findings \subseteq findings'
        BY <1>2 DEF Start, List, StatEntry, SkipExcluded, RejectAlias, BeginFile,
           Open, ReadPipe, Read, FstatAfter, AfterFstat, Hashed, Conclude, vars, result
  <2>2. UNCHANGED <<fs, history>>
        BY <1>2, ObserverKeeps DEF Observe, vars
  <2> QED BY <1>1, <2>1, <2>2
<1>3. ASSUME Inventoried PROVE Goal
  <2>1. Recorded' = {}
        BY <1>3 DEF Inventoried, IInv, ScopeInv, Recorded
  <2> QED BY <2>1
<1>4. ASSUME LstatBefore PROVE Goal
  <2>1. UNCHANGED <<fs, history>>
        BY <1>4 DEF LstatBefore
  <2>2. UNCHANGED <<records, findings>>
        BY <1>4 DEF LstatBefore, Record, result
  <2> QED BY <1>1, <2>1, <2>2
<1>5. ASSUME LstatAfter PROVE Goal
  <2>1. /\ pc = "lstat2" /\ UNCHANGED <<fs, history, seen>>
        /\ local = {} /\ StillBound /\ findings = {}
        /\ \/ UNCHANGED records
           \/ records' = [records EXCEPT ![cur] = [digest |-> buf, ino |-> fd]]
        BY <1>5 DEF LstatAfter, Record, inventory
  <2>2. CASE UNCHANGED records
        BY <1>1, <2>1, <2>2
  <2>3. CASE records' = [records EXCEPT ![cur] = [digest |-> buf, ino |-> fd]]
    <3>1. CASE p # cur
      <4>1. p \in Recorded /\ records'[p] = records[p]
            BY <1>0, <2>3, <3>1 DEF Recorded, IInv, TypeOK, ResultTypes
      <4> QED BY <1>0, <2>1, <4>1 DEF IInv, RecordInv, fs, history
    <3>2. CASE p = cur
      <4>1. records'[p] = [digest |-> buf, ino |-> fd]
            BY <1>0, <2>3, <3>2 DEF IInv, TypeOK, ResultTypes
      <4>2. HasIdentity /\ Ino(p)' = Ino(p)
            BY <2>1, <3>2 DEF IInv, ScopeInv, Hashing, Ino
      <4>3. fd = Ino(p) /\ link[p] = fd
            BY <2>1, <3>2, <4>2 DEF IInv, ReadInv, StillBound
      <4>4. buf \in held[fd] /\ (p \notin touched => buf = bytes[fd])
            BY <2>1, <3>2, <4>2, <4>3 DEF IInv, ReadInv
      <4> QED BY <2>1, <4>1, <4>2, <4>3, <4>4 DEF fs, history
    <3> QED BY <3>1, <3>2
  <2> QED BY <2>1, <2>2, <2>3
<1>6. ASSUME NEW i \in Inodes, Rewrite(i) PROVE Goal
  <2>1. /\ UNCHANGED <<findings, records, link>>
        /\ \A j \in Inodes \ {i} : bytes'[j] = bytes[j]
        /\ \A j \in Inodes : held[j] \subseteq held'[j]
        BY <1>6 DEF Rewrite, observer, result, IInv, TypeOK, FsTypes, HistoryTypes
  <2>2. p \in Recorded
        BY <2>1 DEF Recorded
  <2>3. touched \subseteq touched' /\ (link[p] = i => p \in touched')
        BY <1>0, <1>6, <2>2 DEF Rewrite, Touch
  <2>4. Ino(p) \in Inodes
        BY <2>1, <2>2 DEF IInv, ScopeInv
  <2> QED BY <1>0, <2>1, <2>2, <2>3, <2>4 DEF IInv, RecordInv
<1>7. ASSUME NEW q \in Paths, Relink(q) PROVE Goal
  <2>1. /\ UNCHANGED <<findings, records, bytes, held>>
        /\ \A r \in Paths \ {q} : link'[r] = link[r]
        BY <1>7 DEF Relink, observer, result, IInv, TypeOK, FsTypes
  <2>2. p \in Recorded
        BY <2>1 DEF Recorded
  <2>3. touched \subseteq touched' /\ (p = q => p \in touched')
        BY <1>0, <1>7, <2>2 DEF Relink, Touch
  <2> QED BY <1>0, <2>1, <2>2, <2>3 DEF IInv, RecordInv
<1>8. ASSUME SwapRoot PROVE Goal
  <2>1. UNCHANGED <<findings, records, bytes, held, link>> /\ touched \subseteq touched'
        BY <1>8 DEF SwapRoot, Touch, observer, result
  <2>2. p \in Recorded
        BY <2>1 DEF Recorded
  <2> QED BY <1>0, <2>1, <2>2 DEF IInv, RecordInv
<1> QED BY <1>2, <1>3, <1>4, <1>5, <1>6, <1>7, <1>8 DEF Next, Observe

\* No file is recorded under two names.
LEMMA AliasStep == IInv /\ [Next]_vars => AliasInv'
<1> SUFFICES ASSUME IInv, [Next]_vars, HasIdentity
             PROVE  /\ \A p \in (Recorded \cup AtHand)' : Ino(p)' \in identities'
                    /\ \A p, q \in (Recorded \cup AtHand)' : Ino(p)' = Ino(q)' => p = q
    BY DEF AliasInv
<1>1. ASSUME (Recorded \cup AtHand)' \subseteq Recorded \cup AtHand,
             identities \subseteq identities'
      PROVE AliasInv'
      BY <1>1, InoStep DEF IInv, AliasInv
<1>2. ASSUME NEW digest, NEW ino, NEW found, pc \in Hashing,
             Record(digest, ino, found)
      PROVE AliasInv'
  <2>1. /\ Recorded' \subseteq Recorded \cup {cur}
        /\ pc' \in {"files", "failed"} /\ UNCHANGED identities
        BY <1>2 DEF Record, Fail, Recorded, IInv, TypeOK, ResultTypes, FileTypes, Hashing
  <2> QED BY <1>1, <1>2, <2>1 DEF AtHand, Hashing
<1>3. ASSUME UNCHANGED <<records, cur, identities>>, pc' \in Hashing => pc \in Hashing
      PROVE AliasInv'
  <2>1. Recorded' = Recorded /\ AtHand' \subseteq AtHand
        BY <1>3 DEF Recorded, AtHand
  <2> QED BY <1>1, <1>3, <2>1
<1>4. ASSUME \/ Start \/ List \/ StatEntry \/ Inventoried \/ SkipExcluded
             \/ RejectAlias \/ Open \/ ReadPipe \/ Read \/ FstatAfter \/ Hashed \/ Conclude
             \/ OtherPrograms \/ UNCHANGED vars
      PROVE AliasInv'
  <2>1. UNCHANGED <<records, cur, identities>>
        BY <1>4, OthersKeep DEF Start, List, StatEntry, Inventoried, SkipExcluded,
           RejectAlias, Open, ReadPipe, Read, FstatAfter, AfterFstat, Hashed, Conclude, file, result
  <2>2. pc' \in Hashing => pc \in Hashing
        BY <1>4, OthersKeep DEF Start, List, StatEntry, Inventoried, SkipExcluded,
           RejectAlias, Open, ReadPipe, Read, FstatAfter, AfterFstat, Hashed, Conclude, Hashing, Fail
  <2> QED BY <1>3, <2>1, <2>2
<1>5. ASSUME LstatBefore \/ LstatAfter PROVE AliasInv'
      BY <1>2, <1>3, <1>5 DEF LstatBefore, LstatAfter, Hashing, file, result
<1>6. ASSUME BeginFile PROVE AliasInv'
  <2>1. PICK p \in todo \ excluded :
          /\ Ino(p) \notin identities
          /\ cur' = p
          /\ identities' = identities \cup ({Ino(p)} \ {NoIdentity})
        BY <1>6 DEF BeginFile
  <2>2. UNCHANGED <<records, seen>> /\ pc = "files"
        BY <1>6 DEF BeginFile, inventory
  <2>3. p \in Listed(1) /\ Ino(p) \in Inodes
        BY <2>1, <2>2 DEF IInv, ScopeInv, Hashing
  <2>4. identities' = identities \cup {Ino(p)}
        BY <2>1, <2>3, ValuesAssumption
  <2>5. (Recorded \cup AtHand)' \subseteq Recorded \cup {p} /\ \A q : Ino(q)' = Ino(q)
        BY <2>1, <2>2 DEF Recorded, AtHand, Ino
  <2> QED BY <2>1, <2>4, <2>5 DEF IInv, AliasInv
<1> QED BY <1>4, <1>5, <1>6 DEF Next, Observe, OtherPrograms, AliasInv

\* A verdict stays that of both inventories.
LEMMA VerdictStep == IInv /\ [Next]_vars => VerdictInv'
<1> SUFFICES ASSUME IInv, [Next]_vars PROVE VerdictInv'
    OBVIOUS
<1>1. ASSUME Conclude PROVE VerdictInv'
  <2>1. /\ pc' = "done"
        /\ completion' = IF Complete(findings') THEN "COMPLETE" ELSE "INCOMPLETE"
        /\ findings' = IF SameInventory THEN findings
                       ELSE findings \cup {"ROOT_CHANGED"}
        /\ UNCHANGED <<excluded, seen, records, hashed, discovered>>
        BY <1>1 DEF Conclude, inventory
  <2>2. completion' = "COMPLETE" => Complete(findings') /\ SameInventory
        BY <2>1 DEF Complete
  <2>3. Complete(findings)' <=> Complete(findings')
        BY <2>1 DEF Complete, Listed, Recorded
  <2> QED BY <2>1, <2>2, <2>3 DEF VerdictInv, IsComplete, SameInventory
<1>2. ASSUME Observe, ~Conclude PROVE VerdictInv'
  <2>1. pc # "done" /\ UNCHANGED completion
        BY <1>2 DEF Observe, Start, List, StatEntry, Inventoried, SkipExcluded,
           RejectAlias, BeginFile, LstatBefore, Open, ReadPipe, Read, FstatAfter, AfterFstat, LstatAfter,
           Hashed, Record, result
  <2> QED BY <2>1 DEF IInv, VerdictInv, IsComplete
<1>3. ASSUME OtherPrograms \/ UNCHANGED vars PROVE VerdictInv'
  <2>1. UNCHANGED <<pc, completion, excluded, seen, records, hashed, discovered,
                   findings>>
        BY <1>3, OthersKeep DEF inventory, result
  <2> QED BY <2>1 DEF IInv, VerdictInv, IsComplete, Complete, Listed, Recorded
<1> QED BY <1>1, <1>2, <1>3 DEF Next, OtherPrograms

-----------------------------------------------------------------------------
(* The theorems.                                                           *)

\* The invariant holds always.
LEMMA Invariance == Spec => []IInv
<1>1. IInv /\ [Next]_vars => IInv'
      BY NextTypeOK, ScopeStep, ReadStep, HeldStep, RecordStep, AliasStep,
         VerdictStep DEF IInv
<1> QED BY InitIInv, <1>1, PTL DEF Spec

\* Every variable keeps its type, and hashed stays within the byte limit.
THEOREM TypeCorrect == Spec => []TypeOK
<1>1. IInv => TypeOK
      BY DEF IInv
<1> QED BY Invariance, <1>1, PTL

\* The records of a COMPLETE manifest are those of the files of both
\* inventories: equal in number, hence equal.
LEMMA Covered == IInv /\ IsComplete => Recorded = Listed(1) /\ seen[1] = seen[2]
<1> SUFFICES ASSUME IInv, IsComplete PROVE Recorded = Listed(1) /\ seen[1] = seen[2]
    OBVIOUS
<1>1. Recorded \subseteq Listed(1) /\ Listed(1) \subseteq Paths
      BY DEF IInv, ScopeInv, Listed
<1>2. IsFiniteSet(Paths)
      BY SizesAssumption, FS_Interval DEF Paths
<1>3. Cardinality(Recorded) = Cardinality(Listed(1)) /\ seen[1] = seen[2]
      BY DEF IInv, VerdictInv, Complete
<1> QED BY <1>1, <1>2, <1>3, FS_Subset

\* "Complete only for the declared stable local inventory scope": each regular
\* file of either inventory has a record, and neither holds anything else.
THEOREM CompleteCoversBothInventoriesHolds == Spec => []CompleteCoversBothInventories
<1>1. IInv => CompleteCoversBothInventories
  <2> SUFFICES ASSUME IInv, IsComplete
               PROVE /\ Recorded = Listed(1) /\ Recorded = Listed(2)
                     /\ \A p \in Paths \ Recorded : \A r \in 1..2 : seen[r][p] = None
      BY DEF CompleteCoversBothInventories
  <2>1. Recorded = Listed(1) /\ Recorded = Listed(2) /\ seen[1] = seen[2]
        BY Covered DEF Listed
  <2>2. ASSUME NEW p \in Paths \ Recorded PROVE seen[1][p] = None
    <3>1. seen[1][p] \notin Entries /\ seen[1][p] \notin Unsupported
          BY <2>1, <2>2 DEF Listed, IInv, VerdictInv, Complete
    <3> QED BY <3>1 DEF IInv, TypeOK, InventoryTypes
  <2> QED BY <2>1, <2>2
<1> QED BY Invariance, <1>1, PTL

\* No file is counted twice in a COMPLETE manifest, however names are linked.
THEOREM NoFileTwiceHolds == Spec => []NoFileTwice
<1>1. IInv => NoFileTwice
  <2> SUFFICES ASSUME IInv, IsComplete, NEW p \in Recorded, NEW q \in Recorded,
                      records[p].ino = records[q].ino
               PROVE p = q
      BY DEF NoFileTwice
  <2>1. findings = {} /\ HasIdentity
        BY DEF IInv, VerdictInv, Complete, ScopeInv
  <2>2. Ino(p) = Ino(q)
        BY <2>1 DEF IInv, RecordInv
  <2> QED BY <2>1, <2>2 DEF IInv, AliasInv
<1> QED BY Invariance, <1>1, PTL

\* A digest of a COMPLETE manifest is that of a content which the inventoried
\* file had at one moment, however reads and writes interleave, and the manifest
\* is only ever wrong about files that were changed after they were hashed.
THEOREM RecordsAreOfTheFilesHolds == Spec => []RecordsAreOfTheFiles
<1>1. IInv => DigestsAreNotTorn
      BY DEF IInv, VerdictInv, Complete, RecordInv, DigestsAreNotTorn
<1>2. IInv => StaleOnlyWhenTouched
  <2> SUFFICES ASSUME IInv, IsComplete, NEW p \in Recorded \ touched
               PROVE Regular(p) /\ records[p].digest = bytes[link[p]]
      BY DEF StaleOnlyWhenTouched
  <2>1. findings = {} /\ HasIdentity
        BY DEF IInv, VerdictInv, Complete, ScopeInv
  <2>2. p \in Listed(1) /\ Ino(p) \in Inodes
        BY <2>1 DEF IInv, ScopeInv
  <2>3. link[p] = Ino(p) /\ records[p].digest = bytes[Ino(p)]
        BY <2>1 DEF IInv, RecordInv
  <2> QED BY <2>2, <2>3 DEF Regular
<1>3. IInv => RecordsAreOfTheFiles
      BY <1>1, <1>2 DEF RecordsAreOfTheFiles
<1> QED BY Invariance, <1>3, PTL

-----------------------------------------------------------------------------
(* The root that nobody changes.                                           *)

\* The blocks of the files that stand at some names, each told apart by its
\* name and its place in the file: how many there are is the sum of the sizes.
Size(p) == IF Regular(p) THEN Len(bytes[link[p]]) ELSE 0
BlocksOf(p) == {p} \X (1..Size(p))
BlocksAt(S) == UNION {BlocksOf(p) : p \in S}
Counts(n, S) == IsFiniteSet(BlocksAt(S)) /\ Cardinality(BlocksAt(S)) = n

\* The inventory being taken has the entries of the names looked at, and the
\* first one is complete while the second is taken.
Unseen(p) == pc \in {"start", "list"} \/ (pc = "stat" /\ p \in todo)
QuietSeen ==
  /\ rootSeen = root
  /\ \A p \in Paths : seen[round][p] = IF Unseen(p) THEN None ELSE Entry(p)
  /\ \A p \in Paths : IF round = 1 THEN seen[2][p] = None
                                   ELSE seen[1][p] = Entry(p)

\* Nothing is found about the files hashed so far or the one at hand.
QuietFiles ==
  /\ findings = {} /\ local = {} /\ touched = {}
  /\ identities \subseteq {link[p] : p \in Recorded \cup AtHand}
  /\ pc \in {"read", "lstat2"} => fd = link[cur]
  /\ pc = "read" => opened = [size |-> Len(bytes[fd]), stamp |-> stamp[fd]]
  /\ pc \in Hashing \cup {"files"} => Listed(1) \subseteq Recorded \cup AtHand \cup todo
  /\ round = 2 => Recorded = Listed(1)

\* The two totals count the blocks of the names looked at and of the files
\* hashed.
LookedAt == IF round = 2 \/ pc \notin {"start", "list", "stat"} THEN Paths
            ELSE IF pc = "stat" THEN Paths \ todo ELSE {}
QuietTotals == Counts(discovered, LookedAt) /\ Counts(hashed, Recorded)

Quiet == changes = 0 /\ Clean /\ pc # "failed"
QuietInv ==
  Quiet => QuietSeen /\ QuietFiles /\ QuietTotals /\ (pc = "done" => IsComplete)

\* Counting the blocks of one more name.
LEMMA CountOneMore ==
  ASSUME NEW S, NEW p, p \notin S, NEW n \in Nat, Size(p) \in Nat, Counts(n, S)
  PROVE  Counts(n + Size(p), S \cup {p})
<1>1. BlocksAt(S \cup {p}) = BlocksAt(S) \cup BlocksOf(p)
      BY DEF BlocksAt
<1>2. BlocksAt(S) \cap BlocksOf(p) = {}
      BY DEF BlocksAt, BlocksOf
<1>3. IsFiniteSet({p}) /\ Cardinality({p}) = 1
      BY FS_Singleton
<1>4. IsFiniteSet(1..Size(p)) /\ Cardinality(1..Size(p)) = Size(p)
      BY FS_Interval
<1>5. IsFiniteSet(BlocksOf(p)) /\ Cardinality(BlocksOf(p)) = Size(p)
  <2>1. /\ IsFiniteSet(BlocksOf(p))
        /\ Cardinality(BlocksOf(p)) = Cardinality({p}) * Cardinality(1..Size(p))
        BY <1>3, <1>4, FS_Product, Zenon DEF BlocksOf
  <2> QED BY <1>3, <1>4, <2>1
<1>6. IsFiniteSet(BlocksAt(S)) /\ Cardinality(BlocksAt(S)) = n
      BY DEF Counts
<1>7. Cardinality(BlocksAt(S) \cap BlocksOf(p)) = 0
      BY <1>2, FS_EmptySet
<1>8. /\ IsFiniteSet(BlocksAt(S) \cup BlocksOf(p))
      /\ Cardinality(BlocksAt(S) \cup BlocksOf(p)) =
           Cardinality(BlocksAt(S)) + Cardinality(BlocksOf(p))
             - Cardinality(BlocksAt(S) \cap BlocksOf(p))
      BY <1>5, <1>6, FS_Union, Zenon
<1>9. n + Size(p) - 0 = n + Size(p)
      OBVIOUS
<1>10. Cardinality(BlocksAt(S \cup {p})) = n + Size(p)
      BY <1>1, <1>5, <1>6, <1>7, <1>8, <1>9, Zenon
<1>11. IsFiniteSet(BlocksAt(S \cup {p}))
      BY <1>1, <1>8, Zenon
<1> QED BY <1>10, <1>11, Zenon DEF Counts

\* Names that stand for no file have no blocks.
LEMMA CountNoFiles ==
  ASSUME NEW S, NEW T, S \subseteq T, \A p \in T \ S : ~Regular(p), NEW n,
         Counts(n, S)
  PROVE  Counts(n, T)
<1>1. \A p \in T \ S : BlocksOf(p) = {}
      BY DEF BlocksOf, Size
<1>2. BlocksAt(T) = BlocksAt(S)
      BY <1>1 DEF BlocksAt
<1> QED BY <1>2 DEF Counts

\* As long as the files stay, so do their entries and the counts of their blocks.
LEMMA FilesStay ==
  ASSUME UNCHANGED fs
  PROVE  /\ \A p : /\ Regular(p)' <=> Regular(p)
                   /\ Entry(p)' = Entry(p)
         /\ \A n, S : Counts(n, S)' <=> Counts(n, S)
BY DEF fs, Regular, Entry, Identity, Counts, BlocksAt, BlocksOf, Size

\* What the entry of a name says in a clean root.
LEMMA CleanEntry ==
  ASSUME IInv, Clean, NEW p \in Paths
  PROVE  /\ Entry(p) \in Entries <=> Regular(p)
         /\ Regular(p) => /\ link[p] \in Inodes
                          /\ Entry(p).ino = link[p]
                          /\ Size(p) = Len(bytes[link[p]])
         /\ Size(p) \in Nat
         /\ ~Regular(p) => link[p] = None /\ Entry(p) = None
<1>1. HasIdentity /\ link[p] \notin Unsupported /\ link[p] \in Inodes \cup Unsupported \cup {None}
      BY DEF Clean, IInv, TypeOK, FsTypes
<1>2. CASE Regular(p)
  <2>1. link[p] \in Inodes /\ Len(bytes[link[p]]) \in Nat
        BY <1>2, Lengths DEF IInv, TypeOK, Regular
  <2> QED BY <1>1, <1>2, <2>1 DEF Entry, Entries, Identity, Size
<1>3. CASE ~Regular(p)
      BY <1>1, <1>3, EntriesAssumption DEF Entry, Entries, Regular, Size
<1> QED BY <1>2, <1>3

\* A step that leaves the root quiet is the observer's.
LEMMA QuietStep ==
  ASSUME IInv, [Next]_vars, Quiet'
  PROVE  /\ Quiet
         /\ Observe \/ UNCHANGED vars
         /\ UNCHANGED <<fs, history, excluded>>
<1>1. Observe \/ UNCHANGED vars
  <2>1. OtherPrograms => changes' = changes + 1
        BY DEF OtherPrograms, Rewrite, Relink, SwapRoot, Change
  <2>2. changes \in Nat
        BY SizesAssumption DEF IInv, TypeOK, HistoryTypes
  <2> QED BY <2>1, <2>2 DEF Next, OtherPrograms, Quiet
<1>2. UNCHANGED <<fs, history>>
      BY <1>1, ObserverKeeps DEF vars
<1>3. UNCHANGED excluded
      BY <1>1 DEF Observe, Start, List, StatEntry, Inventoried, SkipExcluded,
         RejectAlias, BeginFile, LstatBefore, Open, ReadPipe, Read, FstatAfter, AfterFstat, LstatAfter,
         Hashed, Conclude, inventory, vars
<1>4. pc # "failed"
      BY <1>1 DEF Observe, Start, List, StatEntry, Inventoried, SkipExcluded,
         RejectAlias, BeginFile, LstatBefore, Open, ReadPipe, Read, FstatAfter, AfterFstat, LstatAfter,
         Hashed, Conclude, vars, Quiet
<1> QED BY <1>1, <1>2, <1>3, <1>4 DEF Quiet, Clean, Regular, fs, history

\* Once the first inventory is complete it lists the regular files.
LEMMA QuietListed ==
  ASSUME IInv, Quiet, QuietSeen,
         round = 2 \/ pc \notin {"start", "list", "stat"} \/ (pc = "stat" /\ todo = {})
  PROVE  /\ Listed(1) = {p \in Paths : Regular(p)}
         /\ \A p \in Paths : seen[1][p] = Entry(p)
         /\ \A p \in Listed(1) : /\ Ino(p) = link[p]
                                 /\ link[p] \in Inodes
                                 /\ p \notin excluded
                                 /\ Size(p) = Len(bytes[link[p]])
<1>1. \A p \in Paths : seen[1][p] = Entry(p)
      BY DEF QuietSeen, Unseen, IInv, TypeOK, InventoryTypes
<1>2. Listed(1) = {p \in Paths : Regular(p)}
      BY <1>1, CleanEntry DEF Listed, Quiet
<1> QED BY <1>1, <1>2, CleanEntry DEF Ino, Quiet, Clean

\* A quiet root is inventoried as it is, twice.
LEMMA QuietSeenStep ==
  ASSUME IInv, Quiet, QuietSeen, Observe, UNCHANGED <<fs, history, excluded>>,
         pc' # "failed"
  PROVE  QuietSeen'
<1> USE DEF IInv, TypeOK, InventoryTypes, FileTypes
<1>0. root' = root /\ \A p : Entry(p)' = Entry(p)
      BY FilesStay DEF fs
<1>1. CASE Start \/ List
  <2>1. /\ pc' = IF pc = "start" THEN "list" ELSE "stat"
        /\ pc \in {"start", "list"} /\ UNCHANGED <<round, seen>>
        /\ pc = "list" => todo' = {p \in Paths : link[p] # None}
        BY <1>1 DEF Start, List, inventory
  <2>2. rootSeen' = root
        BY <1>1 DEF Start, List, inventory, QuietSeen
  <2>3. \A p \in Paths : link[p] = None => Entry(p) = None
        BY CleanEntry, ValuesAssumption DEF Quiet, Regular
  <2> QED BY <1>0, <2>1, <2>2, <2>3 DEF QuietSeen, Unseen
<1>2. CASE StatEntry
  <2>1. PICK p \in todo :
          /\ todo' = todo \ {p}
          /\ seen' = [seen EXCEPT ![round][p] = Entry(p)]
        BY <1>2 DEF StatEntry, Fail
  <2>2. pc = "stat" /\ pc' = "stat" /\ UNCHANGED <<round, rootSeen>>
        BY <1>2 DEF StatEntry, Fail
  <2>3. p \in Paths
        BY <2>1
  <2>4. \A q \in Paths : /\ seen'[round][q] = IF q = p THEN Entry(p) ELSE seen[round][q]
                         /\ round = 1 => seen'[2][q] = seen[2][q]
                         /\ round = 2 => seen'[1][q] = seen[1][q]
        BY <2>1, <2>3
  <2> QED BY <1>0, <2>1, <2>2, <2>3, <2>4 DEF QuietSeen, Unseen
<1>3. CASE Hashed
  <2>1. pc = "files" /\ pc' = "list" /\ round' = 2 /\ UNCHANGED <<seen, rootSeen>>
        BY <1>3 DEF Hashed
  <2>2. round = 1
        BY <2>1 DEF ScopeInv, Hashing
  <2> QED BY <1>0, <2>1, <2>2 DEF QuietSeen, Unseen
<1>4. CASE Inventoried \/ Conclude
  <2>1. /\ pc = "stat" /\ todo = {} /\ pc' \in {"files", "done"}
        /\ UNCHANGED <<round, seen, rootSeen>>
        BY <1>4 DEF Inventoried, Conclude, inventory
  <2> QED BY <1>0, <2>1 DEF QuietSeen, Unseen
<1>5. CASE \/ SkipExcluded \/ RejectAlias \/ BeginFile \/ LstatBefore \/ Open
           \/ ReadPipe \/ Read \/ FstatAfter \/ LstatAfter
  <2>1. /\ pc \in Hashing \cup {"files"} /\ pc' \in Hashing \cup {"files"}
        /\ UNCHANGED <<round, seen, rootSeen>>
        BY <1>5 DEF SkipExcluded, RejectAlias, BeginFile, LstatBefore, Open, ReadPipe, Read,
           FstatAfter, AfterFstat, LstatAfter, Record, inventory, Hashing, Fail
  <2> QED BY <1>0, <2>1 DEF QuietSeen, Unseen, Hashing
<1> QED BY <1>1, <1>2, <1>3, <1>4, <1>5 DEF Observe

\* The file at hand is still the inventoried one, and hashed as it is.
LEMMA QuietAtHand ==
  ASSUME IInv, Quiet, QuietSeen, QuietFiles, pc \in Hashing
  PROVE  /\ cur \in Paths \ Recorded /\ Regular(cur)
         /\ Ino(cur) = link[cur] /\ Ino(cur) \in Inodes
         /\ pc = "read" /\ AtEnd => Unchanged
         /\ pc = "lstat2" => StillBound /\ buf = bytes[fd] /\ fd \in Inodes
<1>1. pc \notin {"start", "list", "stat"}
      BY DEF Hashing
<1>2. cur \in Listed(1) \ Recorded
      BY DEF IInv, ScopeInv
<1>3. cur \in Paths /\ Regular(cur) /\ Ino(cur) = link[cur] /\ link[cur] \in Inodes
      BY <1>1, <1>2, QuietListed
<1>4. ASSUME pc = "read", AtEnd PROVE Unchanged
  <2>1. fd \in Inodes /\ opened = [size |-> Len(bytes[fd]), stamp |-> stamp[fd]]
        BY <1>4 DEF QuietFiles, IInv, TypeOK, FileTypes
  <2>2. Len(buf) <= Len(bytes[fd])
        BY <1>4, <2>1 DEF IInv, ReadInv
  <2>3. Len(buf) \in Nat /\ Len(bytes[fd]) \in Nat
        BY <2>1, Lengths, LenProperties DEF IInv, TypeOK, FileTypes
  <2> QED BY <1>4, <2>1, <2>2, <2>3 DEF AtEnd, Unchanged
<1>5. ASSUME pc = "lstat2" PROVE StillBound /\ buf = bytes[fd] /\ fd \in Inodes
  <2>1. fd = link[cur] /\ local = {} /\ touched = {}
        BY <1>5 DEF QuietFiles
  <2> QED BY <1>3, <1>5, <2>1 DEF IInv, ReadInv, StillBound, Quiet, Clean
<1> QED BY <1>2, <1>3, <1>4, <1>5

\* No FIFO comes to a name while nobody changes the root.
LEMMA QuietNoPipe ==
  ASSUME IInv, Quiet, QuietSeen, QuietFiles
  PROVE  ~ReadPipe
<1> SUFFICES ASSUME ReadPipe PROVE FALSE
    OBVIOUS
<1>1. pc = "open" /\ link[cur] = Pipe
      BY DEF ReadPipe
<1>2. link[cur] \in Inodes
      BY <1>1, QuietAtHand DEF Hashing, Regular
<1> QED BY <1>1, <1>2, ValuesAssumption DEF Unsupported

\* The file at hand is recorded, with as many blocks as it has.
LEMMA QuietRecord ==
  ASSUME IInv, Quiet, QuietSeen, QuietFiles, LstatAfter, pc' # "failed"
  PROVE  /\ pc = "lstat2" /\ pc' = "files" /\ local' = {}
         /\ UNCHANGED <<todo, round, seen, discovered, identities, findings>>
         /\ Recorded' = Recorded \cup {cur}
         /\ hashed' = hashed + Size(cur)
<1> USE DEF IInv, TypeOK, ResultTypes
<1>1. /\ pc = "lstat2" /\ cur \in Paths /\ Regular(cur)
      /\ StillBound /\ buf = bytes[fd] /\ fd = link[cur] /\ fd \in Inodes
      BY QuietAtHand DEF LstatAfter, Hashing, QuietFiles
<1>2. Record(buf, fd, {})
      BY <1>1 DEF LstatAfter, QuietFiles
<1>3. /\ hashed' = hashed + Len(buf) /\ pc' = "files" /\ local' = {}
      /\ records' = [records EXCEPT ![cur] = [digest |-> buf, ino |-> fd]]
      /\ UNCHANGED <<identities, findings>>
      BY <1>2 DEF Record, Fail
<1>4. [digest |-> buf, ino |-> fd] # None
      BY <1>1, RecordsAssumption DEF FileTypes
<1>5. Recorded' = Recorded \cup {cur}
      BY <1>1, <1>3, <1>4 DEF Recorded
<1>6. UNCHANGED <<todo, round, seen, discovered>>
      BY DEF LstatAfter, inventory
<1> QED BY <1>1, <1>3, <1>5, <1>6 DEF Size

\* Nothing is ever found about a quiet root.
LEMMA QuietFilesStep ==
  ASSUME IInv, Quiet, QuietSeen, QuietFiles, Observe,
         UNCHANGED <<fs, history, excluded>>, pc' # "failed"
  PROVE  QuietFiles'
<1> USE DEF IInv, TypeOK, InventoryTypes, FileTypes, Hashing, fs, history, file, result
<1>0. link' = link /\ touched' = {}
      BY DEF QuietFiles
<1>1. UNCHANGED records => Recorded' = Recorded
      BY DEF Recorded
<1>2. UNCHANGED seen => Listed(1)' = Listed(1)
      BY DEF Listed
<1>3. AtHand = IF pc \in Hashing THEN {cur} ELSE {}
      BY DEF AtHand
<1>4. CASE Start \/ List
  <2>1. /\ pc \in {"start", "list"} /\ pc' \in {"list", "stat"}
        /\ UNCHANGED <<round, seen, file, result>>
        BY <1>4 DEF Start, List, inventory
  <2> QED BY <1>0, <1>1, <1>2, <2>1 DEF QuietFiles, AtHand
<1>5. CASE StatEntry
  <2>1. pc = "stat" /\ pc' = "stat" /\ UNCHANGED <<round, file, result>>
        BY <1>5 DEF StatEntry, Fail
  <2>2. round = 2 => Listed(1)' = Listed(1)
    <3> SUFFICES ASSUME round = 2 PROVE Listed(1)' = Listed(1)
        OBVIOUS
    <3>1. \A p \in Paths : seen'[1][p] = seen[1][p]
          BY <1>5 DEF StatEntry
    <3> QED BY <3>1 DEF Listed
  <2> QED BY <1>0, <1>1, <2>1, <2>2 DEF QuietFiles, AtHand
<1>6. CASE Inventoried
  <2>1. /\ pc = "stat" /\ pc' = "files" /\ todo' = Listed(1) /\ round = 1
        /\ findings' = {}
        /\ UNCHANGED <<round, seen, file, identities, records>>
        BY <1>6 DEF Inventoried, inventory, Quiet, Clean
  <2> QED BY <1>0, <1>1, <1>2, <2>1 DEF QuietFiles, AtHand
<1>7. CASE SkipExcluded \/ RejectAlias
  <2>1. pc = "files" /\ todo \subseteq Listed(1) \ Recorded
        BY <1>3, <1>7 DEF SkipExcluded, RejectAlias, ScopeInv
  <2>2. PICK p \in todo : p \in excluded \/ Ino(p) \in identities
        BY <1>7 DEF SkipExcluded, RejectAlias
  <2>3. p \in Listed(1) /\ p \notin Recorded
        BY <2>1
  <2>4. p \notin excluded /\ Ino(p) = link[p] /\ Regular(p)
        BY <2>1, <2>3, QuietListed
  <2>5. PICK q \in Recorded : link[p] = link[q]
        BY <2>1, <2>2, <2>4, <1>3 DEF QuietFiles
  <2>6. p \in Paths /\ q \in Paths /\ p # q
        BY <2>3 DEF Recorded
  <2> QED BY <2>4, <2>5, <2>6 DEF Quiet, Clean
<1>8. CASE BeginFile
  <2>1. PICK p \in todo \ excluded :
          /\ todo' = todo \ {p} /\ cur' = p
          /\ identities' \subseteq identities \cup {Ino(p)}
        BY <1>8 DEF BeginFile
  <2>2. /\ pc = "files" /\ pc' = "lstat"
        /\ UNCHANGED <<round, seen, fd, opened, local, records, findings>>
        BY <1>8 DEF BeginFile, inventory
  <2>3. p \in Listed(1) /\ Ino(p) = link[p]
        BY <2>1, <2>2, QuietListed DEF ScopeInv
  <2>4. AtHand = {} /\ AtHand' = {p}
        BY <2>1, <2>2 DEF AtHand
  <2> QED BY <1>0, <1>1, <1>2, <2>1, <2>2, <2>3, <2>4 DEF QuietFiles
<1>9. CASE LstatBefore
  <2>1. pc = "lstat" /\ Regular(cur)
        BY <1>9, QuietAtHand DEF LstatBefore
  <2>2. pc' = "open" /\ UNCHANGED <<todo, round, seen, file, result>>
        BY <1>9, <2>1, ValuesAssumption DEF LstatBefore, inventory, Regular, Quiet,
           Clean
  <2> QED BY <1>0, <1>1, <1>2, <2>1, <2>2 DEF QuietFiles, AtHand
<1>10. CASE Open
  <2>1. pc = "open" /\ Regular(cur) /\ Ino(cur) = link[cur]
        BY <1>10, QuietAtHand DEF Open
  <2>2. /\ pc' = "read" /\ fd' = link[cur] /\ local' = {}
        /\ opened' = [size |-> Len(bytes[link[cur]]), stamp |-> stamp[link[cur]]]
        /\ UNCHANGED <<todo, round, seen, cur, result>>
        BY <1>10, <2>1 DEF Open, Rebound, inventory
  <2> QED BY <1>0, <1>1, <1>2, <2>1, <2>2 DEF QuietFiles, AtHand
<1>11. CASE Read \/ FstatAfter
  <2>1. /\ pc = "read" /\ pc' \in {"read", "lstat2"} /\ local' = {}
        /\ UNCHANGED <<todo, round, seen, cur, fd, opened, result>>
        BY <1>11, QuietAtHand DEF Read, FstatAfter, AfterFstat, inventory, QuietFiles
  <2> QED BY <1>0, <1>1, <1>2, <2>1 DEF QuietFiles, AtHand
<1>12. CASE LstatAfter
  <2>1. /\ pc = "lstat2" /\ pc' = "files" /\ local' = {}
        /\ UNCHANGED <<todo, round, seen, identities, findings>>
        /\ Recorded' = Recorded \cup {cur}
        BY <1>12, QuietRecord
  <2>2. AtHand = {cur} /\ AtHand' = {} /\ round = 1
        BY <2>1 DEF AtHand, ScopeInv
  <2> QED BY <1>0, <1>2, <2>1, <2>2 DEF QuietFiles
<1>13. CASE Hashed
  <2>1. /\ pc = "files" /\ todo = {} /\ pc' = "list" /\ round' = 2
        /\ UNCHANGED <<seen, file, result>>
        BY <1>13 DEF Hashed
  <2>2. AtHand = {} /\ AtHand' = {} /\ Recorded \subseteq Listed(1)
        BY <2>1 DEF AtHand, ScopeInv
  <2>3. Recorded = Listed(1)
        BY <2>1, <2>2 DEF QuietFiles
  <2>4. Recorded' = Listed(1)'
        BY <1>1, <1>2, <2>1, <2>3
  <2> QED BY <1>0, <1>1, <2>1, <2>2, <2>4 DEF QuietFiles
<1>14. CASE Conclude
  <2>1. /\ pc = "stat" /\ todo = {} /\ round = 2 /\ pc' = "done"
        /\ UNCHANGED <<round, seen, rootSeen, file, identities, records>>
        /\ findings' = IF SameInventory THEN findings
                       ELSE findings \cup {"ROOT_CHANGED"}
        BY <1>14 DEF Conclude, inventory
  <2>2. \A p \in Paths : seen[1][p] = seen[2][p]
        BY <2>1 DEF QuietSeen, Unseen
  <2>3. SameInventory
        BY <2>2 DEF SameInventory, QuietSeen
  <2> QED BY <1>0, <1>1, <1>2, <2>1, <2>3 DEF QuietFiles, AtHand
<1>15. ~ReadPipe
  BY QuietNoPipe
<1> QED BY <1>4, <1>5, <1>6, <1>7, <1>8, <1>9, <1>10, <1>11, <1>12, <1>13, <1>14,
           <1>15 DEF Observe

\* The totals are kept as soon as they count the right names.
LEMMA TotalsStay ==
  ASSUME UNCHANGED fs, Counts(discovered', LookedAt'), Counts(hashed', Recorded')
  PROVE  QuietTotals'
<1>1. \A p : Size(p)' = Size(p)
      BY DEF Size, Regular, fs
<1>2. \A S : UNION {BlocksOf(p)' : p \in S} = UNION {BlocksOf(p) : p \in S}
      BY <1>1 DEF BlocksOf
<1> QED BY <1>2 DEF QuietTotals, Counts, BlocksAt

\* Both totals count blocks, whatever the observer does in a quiet root.
LEMMA QuietTotalsStep ==
  ASSUME IInv, Quiet, QuietSeen, QuietFiles, QuietTotals, Observe,
         UNCHANGED <<fs, history, excluded>>, pc' # "failed"
  PROVE  QuietTotals'
<1> USE DEF IInv, TypeOK, InventoryTypes, FileTypes, ResultTypes
<1>1. UNCHANGED records => Recorded' = Recorded
      BY DEF Recorded
<1>2. UNCHANGED fs
      OBVIOUS
<1>3. CASE StatEntry
  <2>1. PICK p \in todo :
          /\ todo' = todo \ {p}
          /\ discovered' = IF Counted(p) THEN discovered + Len(bytes[link[p]])
                           ELSE discovered
        BY <1>3 DEF StatEntry, Fail
  <2>2. pc = "stat" /\ pc' = "stat" /\ UNCHANGED <<round, records, hashed>>
        BY <1>3 DEF StatEntry, Fail, result
  <2>3. Counts(hashed', Recorded')
        BY <1>1, <2>2 DEF QuietTotals
  <2>4. CASE round = 2
    <3>1. LookedAt' = LookedAt /\ discovered' = discovered
          BY <2>1, <2>2, <2>4 DEF LookedAt, Counted
    <3> QED BY <1>2, <2>3, <3>1, TotalsStay DEF QuietTotals
  <2>5. CASE round = 1
    <3>1. /\ p \in Paths /\ p \notin LookedAt /\ LookedAt' = LookedAt \cup {p}
          /\ LookedAt = Paths \ todo
          BY <2>1, <2>2, <2>5 DEF LookedAt
    <3>2. Size(p) \in Nat /\ discovered \in Nat
          BY <3>1, CleanEntry DEF Quiet
    <3>3. discovered' = discovered + Size(p)
          BY <2>1, <2>5, <3>2 DEF Counted, Size
    <3>4. Counts(discovered, LookedAt)
          BY DEF QuietTotals
    <3>5. Counts(discovered + Size(p), LookedAt \cup {p})
          BY <3>1, <3>2, <3>4, CountOneMore
    <3> QED BY <1>2, <2>3, <3>1, <3>3, <3>5, TotalsStay
  <2> QED BY <2>4, <2>5
<1>4. CASE LstatAfter
  <2>1. /\ pc = "lstat2" /\ pc' = "files" /\ UNCHANGED <<round, discovered>>
        /\ Recorded' = Recorded \cup {cur} /\ hashed' = hashed + Size(cur)
        BY <1>4, QuietRecord
  <2>2. cur \in Paths \ Recorded /\ Size(cur) \in Nat /\ hashed \in Nat
        BY <2>1, QuietAtHand, CleanEntry, SizesAssumption DEF Hashing, Quiet
  <2>3. Counts(hashed, Recorded)
        BY DEF QuietTotals
  <2>4. Counts(hashed + Size(cur), Recorded \cup {cur})
        BY <2>2, <2>3, CountOneMore
  <2>5. LookedAt' = LookedAt
        BY <2>1 DEF LookedAt
  <2> QED BY <1>2, <2>1, <2>4, <2>5, TotalsStay DEF QuietTotals
<1>5. ASSUME UNCHANGED <<records, hashed, discovered>>, LookedAt' = LookedAt
      PROVE QuietTotals'
      BY <1>1, <1>2, <1>5, TotalsStay DEF QuietTotals
<1>6. CASE Start \/ Inventoried \/ Hashed \/ Conclude
  <2>1. UNCHANGED <<records, hashed, discovered>>
        BY <1>6 DEF Start, Inventoried, Hashed, Conclude, inventory, result
  <2>2. LookedAt' = LookedAt
        BY <1>6 DEF Start, Inventoried, Hashed, Conclude, inventory, LookedAt,
           ScopeInv, Hashing
  <2> QED BY <1>5, <2>1, <2>2
<1>7. CASE List
  <2>1. /\ pc = "list" /\ pc' = "stat" /\ todo' = {p \in Paths : link[p] # None}
        /\ UNCHANGED <<round, records, hashed, discovered>>
        BY <1>7 DEF List, inventory, result
  <2>2. CASE round = 2
        BY <1>5, <2>1, <2>2 DEF LookedAt
  <2>3. CASE round = 1
    <3>1. LookedAt = {} /\ LookedAt' = {p \in Paths : link[p] = None}
          BY <2>1, <2>3 DEF LookedAt
    <3>2. \A p \in LookedAt' \ LookedAt : ~Regular(p)
          BY <3>1, ValuesAssumption DEF Regular
    <3>3. Counts(discovered, LookedAt)
          BY DEF QuietTotals
    <3>4. Counts(discovered, LookedAt')
          BY <3>1, <3>2, <3>3, CountNoFiles
    <3> QED BY <1>1, <1>2, <2>1, <3>4, TotalsStay DEF QuietTotals
  <2> QED BY <2>2, <2>3
<1>8. CASE \/ SkipExcluded \/ RejectAlias \/ BeginFile \/ LstatBefore \/ Open
           \/ Read \/ FstatAfter
  <2>1. LstatBefore => UNCHANGED result
        BY QuietAtHand, ValuesAssumption DEF LstatBefore, Hashing, Regular, Quiet, Clean
  <2>2. /\ pc \in Hashing \cup {"files"} /\ pc' \in Hashing \cup {"files"}
        /\ UNCHANGED <<round, records, hashed, discovered>>
        BY <1>8, <2>1 DEF SkipExcluded, RejectAlias, BeginFile, LstatBefore, Open,
           Read, FstatAfter, AfterFstat, Record, inventory, result, Hashing, Fail
  <2>3. LookedAt' = LookedAt
        BY <2>2 DEF LookedAt, Hashing
  <2> QED BY <1>5, <2>2, <2>3
<1>9. ~ReadPipe
  BY QuietNoPipe
<1> QED BY <1>3, <1>4, <1>6, <1>7, <1>8, <1>9 DEF Observe

\* The verdict on a quiet root is COMPLETE.
LEMMA QuietConclusion ==
  ASSUME IInv, Quiet, QuietSeen, QuietFiles, QuietTotals, Conclude
  PROVE  IsComplete'
<1>1. /\ pc = "stat" /\ todo = {} /\ round = 2
      /\ LET found == IF SameInventory THEN findings
                      ELSE findings \cup {"ROOT_CHANGED"}
         IN completion' = IF Complete(found) THEN "COMPLETE" ELSE "INCOMPLETE"
      BY DEF Conclude
<1>2. SameInventory
  <2>1. \A p \in Paths : seen[1][p] = seen[2][p]
        BY <1>1 DEF QuietSeen, Unseen
  <2> QED BY <2>1 DEF SameInventory, QuietSeen, IInv, TypeOK, InventoryTypes
<1>3. /\ Listed(1) = {p \in Paths : Regular(p)}
      /\ \A p \in Paths : seen[1][p] = Entry(p)
      /\ \A p \in Listed(1) : p \notin excluded
      BY <1>1, QuietListed
<1>4. Recorded = Listed(1)
      BY <1>1 DEF QuietFiles
<1>5. hashed = discovered
  <2>1. Counts(discovered, Paths) /\ Counts(hashed, Recorded)
        BY <1>1 DEF QuietTotals, LookedAt
  <2>2. Counts(hashed, Paths)
        BY <1>3, <1>4, <2>1, CountNoFiles
  <2> QED BY <2>1, <2>2 DEF Counts
<1>6. \A p \in Paths : seen[1][p] \notin Unsupported
  <2>1. \A p \in Paths : Entry(p) \in Entries \/ Entry(p) = None
        BY CleanEntry DEF Quiet
  <2> QED BY <1>3, <2>1, EntriesAssumption, ValuesAssumption DEF Entries
<1> QED BY <1>1, <1>2, <1>3, <1>4, <1>5, <1>6 DEF Complete, IsComplete, QuietFiles

\* Every step keeps a quiet root quiet.
LEMMA QuietInvStep == IInv /\ QuietInv /\ [Next]_vars => QuietInv'
<1> SUFFICES ASSUME IInv, QuietInv, [Next]_vars, Quiet'
             PROVE  /\ QuietSeen' /\ QuietFiles' /\ QuietTotals'
                    /\ pc' = "done" => IsComplete'
    BY DEF QuietInv
<1>1. /\ Quiet /\ QuietSeen /\ QuietFiles /\ QuietTotals
      /\ pc = "done" => IsComplete
      /\ UNCHANGED <<fs, history, excluded>> /\ pc' # "failed"
      BY QuietStep DEF QuietInv, Quiet
<1>2. CASE Observe
  <2>1. QuietSeen' /\ QuietFiles' /\ QuietTotals'
        BY <1>1, <1>2, QuietSeenStep, QuietFilesStep, QuietTotalsStep
  <2>2. pc' = "done" => Conclude
        BY <1>2 DEF Observe, Start, List, StatEntry, Inventoried, SkipExcluded,
           RejectAlias, BeginFile, LstatBefore, Open, ReadPipe, Read, FstatAfter, AfterFstat, LstatAfter,
           Hashed, Conclude, Record, Fail
  <2> QED BY <1>1, <2>1, <2>2, QuietConclusion
<1>3. CASE UNCHANGED vars
  <2>1. UNCHANGED <<pc, todo, inventory, file, result>>
        BY <1>3 DEF vars
  <2>2. QuietSeen'
        BY <1>1, <2>1, FilesStay DEF QuietSeen, Unseen, inventory, fs
  <2>3. QuietFiles'
        BY <1>1, <2>1 DEF QuietFiles, Recorded, AtHand, Listed, inventory, file,
           result, fs, history
  <2>4. QuietTotals'
    <3>1. LookedAt' = LookedAt /\ Recorded' = Recorded
          BY <2>1 DEF LookedAt, Recorded, inventory, result
    <3> QED BY <1>1, <2>1, <3>1, TotalsStay DEF QuietTotals, inventory, result
  <2> QED BY <1>1, <2>1, <2>2, <2>3, <2>4 DEF IsComplete, result
<1> QED BY <1>2, <1>3, QuietStep

\* Nothing has been looked at when the observation begins.
LEMMA InitQuiet == Init => QuietInv
<1> SUFFICES ASSUME Init PROVE QuietSeen /\ QuietFiles /\ QuietTotals /\ pc # "done"
    BY DEF QuietInv
<1>1. Recorded = {} /\ AtHand = {} /\ LookedAt = {}
      BY DEF Init, Recorded, AtHand, LookedAt, Hashing, NoEntries
<1>2. QuietSeen
      BY DEF Init, QuietSeen, Unseen, NoEntries
<1>3. QuietFiles
      BY <1>1 DEF Init, QuietFiles, Hashing
<1>4. BlocksAt({}) = {}
      BY DEF BlocksAt
<1>5. QuietTotals
      BY <1>1, <1>4, FS_EmptySet DEF Init, QuietTotals, Counts
<1> QED BY <1>2, <1>3, <1>5 DEF Init

\* No false alarm: the manifest of a root that nobody changes, without
\* exclusions, aliases and special entries, is COMPLETE and equals the root,
\* unless a limit ends the observation with an error.
THEOREM QuietRootIsCompleteHolds == Spec => []QuietRootIsComplete
<1>1. IInv /\ QuietInv => QuietRootIsComplete
  <2> SUFFICES ASSUME IInv, QuietInv, pc = "done", changes = 0, Clean
               PROVE  /\ IsComplete
                      /\ \A p \in Paths :
                           IF Regular(p) THEN records[p].digest = bytes[link[p]]
                                         ELSE records[p] = None
      BY DEF QuietRootIsComplete
  <2>1. Quiet /\ QuietSeen /\ QuietFiles /\ IsComplete
        BY DEF QuietInv, Quiet
  <2>2. Recorded = Listed(1) /\ Listed(1) = {p \in Paths : Regular(p)}
        BY <2>1, Covered, QuietListed
  <2>3. \A p \in Recorded : records[p].digest = bytes[link[p]]
        BY <2>1 DEF IInv, RecordInv, QuietFiles
  <2> QED BY <2>1, <2>2, <2>3 DEF Recorded
<1> QED BY Invariance, InitQuiet, QuietInvStep, <1>1, PTL DEF Spec

-----------------------------------------------------------------------------
(* What the observer uses up gets less.                                    *)

\* There is no infinite descent.
LEMMA DescentEnds == \A n \in Nat : IsWellFoundedOn(Descent(n), Ranks(n))
<1>1. IsWellFoundedOn(Fewer, Nat)
  BY NatLessThanWellFounded DEF OpToRel, Fewer
<1> QED BY <1>1, WFLexProductOrdering DEF Descent, Ranks

\* When a tuple of four is less than another.
LEMMA Descends4 ==
  ASSUME NEW a \in Nat, NEW b \in Nat, NEW c \in Nat, NEW d \in Nat,
         NEW w \in Nat, NEW x \in Nat, NEW y \in Nat, NEW z \in Nat,
         \/ a < w
         \/ a = w /\ b < x
         \/ a = w /\ b = x /\ c < y
         \/ a = w /\ b = x /\ c = y /\ d < z
  PROVE  <<<<a, b, c, d>>, <<w, x, y, z>>>> \in Descent(4)
BY DEF Descent, LexProductOrdering, Fewer

\* A set of names is finite, and smaller without one of its members.
LEMMA FewerNames ==
  ASSUME NEW S \in SUBSET Paths
  PROVE  /\ Cardinality(S) \in Nat
         /\ \A p \in S : Cardinality(S \ {p}) < Cardinality(S)
<1>1. IsFiniteSet(Paths)
      BY SizesAssumption, FS_Interval DEF Paths
<1>2. IsFiniteSet(S) /\ Cardinality(S) \in Nat
      BY <1>1, FS_Subset, FS_CardinalityType
<1>3. ASSUME NEW p \in S PROVE Cardinality(S \ {p}) < Cardinality(S)
  <2>1. Cardinality(S \ {p}) = Cardinality(S) - 1
        BY <1>2, FS_RemoveElement
  <2>2. Cardinality(S) - 1 < Cardinality(S)
        BY <1>2
  <2> QED BY <2>1, <2>2, Zenon
<1> QED BY <1>2, <1>3

\* The parts of the rank are natural numbers.
ObserverRanked == /\ ObservationStage \in Nat /\ Cardinality(todo) \in Nat
                  /\ FileStage \in Nat /\ Unread \in Nat
LEMMA ObserverRankTyped == TypeOK => ObserverRanked
<1> SUFFICES ASSUME TypeOK PROVE ObserverRanked
    OBVIOUS
<1>1. ObservationStage \in Nat /\ FileStage \in Nat
      BY DEF ObservationStage, FileStage
<1>2. Cardinality(todo) \in Nat
      BY FewerNames DEF TypeOK, FileTypes
<1>3. Unread \in Nat
  <2>1. pc = "read" => Len(bytes[fd]) \in Nat /\ Len(buf) \in Nat
        BY Lengths, LenProperties DEF TypeOK, FileTypes
  <2> QED BY <2>1 DEF Unread
<1> QED BY <1>1, <1>2, <1>3 DEF ObserverRanked

\* Each step of the observer descends.
LEMMA ObserverStep ==
  ASSUME TypeOK, ObserverRanked, ObserverRanked', ScopeInv, Observe
  PROVE  <<ObserverRank', ObserverRank>> \in Descent(4)
<1> USE DEF TypeOK, FileTypes, Fail
<1>0. /\ ObservationStage \in Nat /\ Cardinality(todo) \in Nat
      /\ FileStage \in Nat /\ Unread \in Nat
      /\ ObservationStage' \in Nat /\ Cardinality(todo') \in Nat
      /\ FileStage' \in Nat /\ Unread' \in Nat
      BY DEF ObserverRanked
<1>1. ASSUME ObservationStage' < ObservationStage
      PROVE  <<ObserverRank', ObserverRank>> \in Descent(4)
      BY <1>0, <1>1, Descends4 DEF ObserverRank
<1>2. ASSUME ObservationStage' = ObservationStage, NEW p \in todo, todo' = todo \ {p}
      PROVE  <<ObserverRank', ObserverRank>> \in Descent(4)
  <2>1. Cardinality(todo') < Cardinality(todo)
        BY <1>2, FewerNames
  <2> QED BY <1>0, <1>2, <2>1, Descends4 DEF ObserverRank
<1>3. ASSUME ObservationStage' = ObservationStage, UNCHANGED todo, FileStage' < FileStage
      PROVE  <<ObserverRank', ObserverRank>> \in Descent(4)
      BY <1>0, <1>3, Descends4 DEF ObserverRank
<1>4. CASE Start \/ List \/ Inventoried \/ Hashed \/ Conclude
  <2>1. ObservationStage' < ObservationStage
        BY <1>4 DEF Start, List, Inventoried, Hashed, Conclude, ObservationStage,
           inventory, InventoryTypes
  <2> QED BY <1>1, <2>1
<1>5. CASE StatEntry
  <2>1. PICK p \in todo : todo' = todo \ {p}
        BY <1>5 DEF StatEntry
  <2>2. pc = "stat" /\ pc' \in {"stat", "failed"} /\ UNCHANGED round
        BY <1>5 DEF StatEntry
  <2> QED BY <1>1, <1>2, <2>1, <2>2 DEF ObservationStage
<1>6. CASE SkipExcluded \/ RejectAlias \/ BeginFile
  <2>1. PICK p \in todo : todo' = todo \ {p}
        BY <1>6 DEF SkipExcluded, RejectAlias, BeginFile
  <2>2. pc = "files" /\ pc' \in {"files", "lstat"}
        BY <1>6 DEF SkipExcluded, RejectAlias, BeginFile
  <2> QED BY <1>2, <2>1, <2>2 DEF ObservationStage
<1>7. CASE LstatBefore \/ Open \/ ReadPipe \/ FstatAfter \/ LstatAfter
  <2>1. /\ UNCHANGED todo
        /\ \/ pc = "lstat" /\ pc' \in {"open", "files", "failed"}
           \/ pc = "open" /\ pc' \in {"read", "lstat2", "failed"}
           \/ pc = "read" /\ pc' = "lstat2"
           \/ pc = "lstat2" /\ pc' \in {"files", "failed"}
        BY <1>7 DEF LstatBefore, Open, ReadPipe, FstatAfter, AfterFstat, LstatAfter, Record
  <2> QED BY <1>1, <1>3, <2>1 DEF ObservationStage, FileStage
<1>8. CASE Read
  <2>1. /\ pc = "read" /\ pc' = "read" /\ UNCHANGED <<todo, fd, bytes>>
        /\ Len(buf) < Len(bytes[fd])
        /\ buf' = Append(buf, bytes[fd][Len(buf) + 1])
        BY <1>8 DEF Read, fs
  <2>2. Len(buf) \in Nat /\ Len(bytes[fd]) \in Nat /\ Len(buf') = Len(buf) + 1
        BY <2>1, Lengths
  <2>3. Unread' < Unread
        BY <2>1, <2>2 DEF Unread
  <2>4. ObservationStage' = ObservationStage /\ FileStage' = FileStage
        BY <2>1 DEF ObservationStage, FileStage
  <2> QED BY <1>0, <2>1, <2>3, <2>4, Descends4 DEF ObserverRank
<1> QED BY <1>4, <1>5, <1>6, <1>7, <1>8 DEF Observe

\* A step of another program leaves the rank or changes what there is to read.
LEMMA OthersDelay ==
  ASSUME TypeOK, ObserverRanked, ObserverRanked', OtherPrograms \/ UNCHANGED vars
  PROVE  \/ ObserverRank' = ObserverRank
         \/ <<ObserverRank', ObserverRank>> \in Descent(4)
         \/ pc = "read" /\ Len(bytes'[fd]) > Len(bytes[fd])
<1>0. /\ ObservationStage \in Nat /\ Cardinality(todo) \in Nat
      /\ FileStage \in Nat /\ Unread \in Nat
      /\ ObservationStage' \in Nat /\ Cardinality(todo') \in Nat
      /\ FileStage' \in Nat /\ Unread' \in Nat
      BY DEF ObserverRanked
<1>1. UNCHANGED <<pc, todo, round, fd, buf>>
      BY OthersKeep DEF inventory, file
<1>2. /\ ObservationStage' = ObservationStage /\ FileStage' = FileStage
      /\ Cardinality(todo') = Cardinality(todo)
      BY <1>1 DEF ObservationStage, FileStage
<1>3. CASE Unread' = Unread
      BY <1>2, <1>3 DEF ObserverRank
<1>4. CASE Unread' < Unread
      BY <1>0, <1>2, <1>4, Descends4 DEF ObserverRank
<1>5. CASE Unread' > Unread
  <2>1. pc = "read"
        BY <1>0, <1>1, <1>5 DEF Unread
  <2>2. Len(bytes[fd]) \in Nat /\ Len(buf) \in Nat
        BY <2>1, Lengths, LenProperties DEF TypeOK, FileTypes
  <2>3. bytes' \in [Inodes -> Contents] => Len(bytes'[fd]) \in Nat
        BY <2>1, ScopeAssumption, LenProperties DEF TypeOK, FileTypes
  <2>4. bytes' \in [Inodes -> Contents]
        BY DEF OtherPrograms, Rewrite, Relink, SwapRoot, vars, fs, TypeOK, FsTypes
  <2> QED BY <1>1, <1>5, <2>1, <2>2, <2>3, <2>4 DEF Unread
<1> QED BY <1>0, <1>3, <1>4, <1>5

\* The observer cannot go on for ever unless somebody makes the file it is
\* reading longer again and again: neither renaming nor linking, neither many
\* names nor repeated looks at the root can keep it busy.
THEOREM ObserverDescends ==
  /\ IsWellFoundedOn(Descent(4), Ranks(4))
  /\ Spec => OnlyGrowthDelays
<1>1. IsWellFoundedOn(Descent(4), Ranks(4))
      BY DescentEnds
<1>2. IInv => TypeOK /\ ScopeInv /\ ObserverRanked
      BY ObserverRankTyped DEF IInv
<1>3. TypeOK /\ ScopeInv /\ ObserverRanked /\ ObserverRanked' /\ [Next]_vars
        => [Delay]_vars
      BY ObserverStep, OthersDelay DEF Delay, RankFalls, Next, OtherPrograms
<1>4. Spec => OnlyGrowthDelays
      BY Invariance, <1>2, <1>3, PTL DEF Spec, OnlyGrowthDelays
<1> QED BY <1>1, <1>4
=============================================================================
