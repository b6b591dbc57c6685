------------------------------ MODULE SafeWrite ------------------------------
(***************************************************************************)
(* omiv.safe_write.atomic_write_text: calls that race to replace one       *)
(* report path, above a file system that caches.                           *)
(*                                                                         *)
(* A directory entry and the bytes of a file live in memory first and      *)
(* reach the disk later, each at its own time; a power failure keeps what  *)
(* the disk has.  fsync forces the bytes of one file.  The code never      *)
(* syncs the directory.  The path may hold, besides a call's text, the     *)
(* file found there at first (Prior), nothing (Absent), or something the   *)
(* code must not replace (Refused): a link, a directory, an input.         *)
(***************************************************************************)
EXTENDS Naturals, FiniteSets

CONSTANTS
  Writers,      \* the calls; a call stands for the text it writes
  Files,        \* the inodes that mkstemp may create
  Chunks,       \* how many write(2) calls a text takes
  Prior, Absent, Symlink, Directory, Input, None,
  MaxFaults     \* bound on interferences, kills and power failures

Refused == {Symlink, Directory, Input}
Others  == {Prior, Absent} \cup Refused

ASSUME ChunksAssumption == Chunks \in Nat \ {0}
ASSUME FaultsAssumption == MaxFaults \in Nat
ASSUME ValuesAssumption ==
  /\ None \notin Writers \cup Files \cup Others
  /\ Writers \cap Others = {}
  /\ Files \cap Others = {}
ASSUME RefusedAssumption == {Prior, Absent} \cap Refused = {}

VARIABLES
  pc,           \* [Writers -> the statement the call is at]
  temp,         \* [Writers -> the inode of its temporary file, or None]
  owner,        \* [Files -> the call that created the inode, or None]
  written,      \* [Files -> chunks in the file]
  synced,       \* [Files -> chunks of the file that are on disk]
  dest,         \* what the report path holds: an inode or one of Others
  temps,        \* the temporary names in the directory, as their inodes
  diskDest,     \* dest and temps as the disk has them
  diskTemps,
  unseen,       \* calls for which the path changed once their text was on
                \* disk, and that have not checked it again
  abandoned,    \* inodes whose call was killed, or failed to unlink them
  faults

fileVars == <<owner, written, synced>>
diskVars == <<diskDest, diskTemps>>
dirVars  == <<dest, temps>>
vars == <<pc, temp, fileVars, dirVars, diskVars, unseen, abandoned, faults>>

Idle     == {"idle", "done", "failed", "killed"}
HasTemp  == {"write", "fsync", "check3", "replace", "cleanup"}
Checks   == {"check1", "check2", "check3"}
Pcs      == Idle \cup HasTemp \cup Checks \cup {"mkdir", "mkstemp"}

Goto(w, to) == pc' = [pc EXCEPT ![w] = to]

Init ==
  /\ pc = [w \in Writers |-> "idle"]
  /\ temp = [w \in Writers |-> None]
  /\ owner = [f \in Files |-> None]
  /\ written = [f \in Files |-> 0]
  /\ synced = [f \in Files |-> 0]
  /\ dest \in Others
  /\ temps = {}
  /\ diskDest = dest
  /\ diskTemps = {}
  /\ unseen = Writers
  /\ abandoned = {}
  /\ faults = 0

-----------------------------------------------------------------------------
(* The statements of atomic_write_text.                                    *)

Call(w) ==
  /\ pc[w] \in Idle
  /\ Goto(w, "check1")
  /\ UNCHANGED <<temp, fileVars, dirVars, diskVars, unseen, abandoned, faults>>

\* validate_output_path accepts a regular file, or nothing, that is no input.
\* Mutant: without is_symlink, exists() and is_file() look through a link.
LinkAccepted == dest \notin Refused \ {Symlink}
Accepts == dest \notin Refused

AfterCheck(at) == CASE at = "check1" -> "mkdir"
                    [] at = "check2" -> "mkstemp"
                    [] at = "check3" -> "replace"

\* The refusal of the third check runs through `finally`.
Validate(w) ==
  /\ pc[w] \in Checks
  /\ IF Accepts
       THEN /\ Goto(w, AfterCheck(pc[w]))
            /\ unseen' = unseen \ {w}
       ELSE /\ Goto(w, IF pc[w] = "check3" THEN "cleanup" ELSE "failed")
            /\ UNCHANGED unseen
  /\ UNCHANGED <<temp, fileVars, dirVars, diskVars, abandoned, faults>>

Mkdir(w) ==
  /\ pc[w] = "mkdir"
  /\ Goto(w, "check2") \/ Goto(w, "failed")
  /\ UNCHANGED <<temp, fileVars, dirVars, diskVars, unseen, abandoned, faults>>

Mkstemp(w) ==
  /\ pc[w] = "mkstemp"
  /\ \E f \in Files :
       /\ owner[f] = None
       /\ owner' = [owner EXCEPT ![f] = w]
       /\ temp' = [temp EXCEPT ![w] = f]
       /\ temps' = temps \cup {f}
  /\ Goto(w, "write")
  /\ UNCHANGED <<written, synced, dest, diskVars, unseen, abandoned, faults>>

\* No name could be created: there is nothing to clean up.
MkstempFails(w) ==
  /\ pc[w] = "mkstemp"
  /\ Goto(w, "failed")
  /\ UNCHANGED <<temp, fileVars, dirVars, diskVars, unseen, abandoned, faults>>

LastChunk(w) == written[temp[w]] + 1 = Chunks

Write(w) ==
  /\ pc[w] = "write"
  /\ written' = [written EXCEPT ![temp[w]] = @ + 1]
  /\ Goto(w, IF LastChunk(w) THEN "fsync" ELSE "write")
  /\ UNCHANGED <<temp, owner, synced, dirVars, diskVars, unseen, abandoned,
                 faults>>

Forced(w) == written[temp[w]]

Fsync(w) ==
  /\ pc[w] = "fsync"
  /\ synced' = [synced EXCEPT ![temp[w]] = Forced(w)]
  /\ Goto(w, "check3")
  /\ unseen' = unseen \ {w}
  /\ UNCHANGED <<temp, owner, written, dirVars, diskVars, abandoned, faults>>

\* os.replace unlinks the temporary name and the old entry in one step; it
\* does not follow a link and cannot replace a directory.
Replace(w) ==
  /\ pc[w] = "replace"
  /\ dest # Directory
  /\ dest' = temp[w]
  /\ temps' = temps \ {temp[w]}
  /\ temp' = [temp EXCEPT ![w] = None]
  /\ Goto(w, "done")
  /\ unseen' = Writers
  /\ UNCHANGED <<fileVars, diskVars, abandoned, faults>>

\* chmod, write, flush, fsync or replace raises OSError.
OsError(w) ==
  /\ pc[w] \in {"write", "fsync", "replace"}
  /\ Goto(w, "cleanup")
  /\ UNCHANGED <<temp, fileVars, dirVars, diskVars, unseen, abandoned, faults>>

\* Mutants: the temporary name stays; the exception is swallowed.
KeepTemporary(w) == temps
SwallowError == "done"
WithoutTemporary(w) == temps \ {temp[w]}
Reraise == "failed"

\* The `finally` clause, then the exception reaches the caller.
Cleanup(w) ==
  /\ pc[w] = "cleanup"
  /\ temps' = WithoutTemporary(w)
  /\ temp' = [temp EXCEPT ![w] = None]
  /\ Goto(w, Reraise)
  /\ UNCHANGED <<fileVars, dest, diskVars, unseen, abandoned, faults>>

\* unlink raises something else than FileNotFoundError, the one error that is
\* suppressed: the name stays, and that exception reaches the caller.
CleanupFails(w) ==
  /\ pc[w] = "cleanup"
  /\ abandoned' = abandoned \cup {temp[w]}
  /\ temp' = [temp EXCEPT ![w] = None]
  /\ Goto(w, Reraise)
  /\ UNCHANGED <<fileVars, dirVars, diskVars, unseen, faults>>

-----------------------------------------------------------------------------
(* What happens around the calls.                                          *)

Fault == faults < MaxFaults /\ faults' = faults + 1

\* The process of a call is killed.
Kill(w) ==
  /\ Fault
  /\ pc[w] \notin Idle
  /\ Goto(w, "killed")
  /\ abandoned' = abandoned \cup ({temp[w]} \ {None})
  /\ temp' = [temp EXCEPT ![w] = None]
  /\ UNCHANGED <<fileVars, dirVars, diskVars, unseen>>

\* Another program changes the path.
Interfere ==
  /\ Fault
  /\ dest' \in Others \ {dest}
  /\ unseen' = Writers
  /\ UNCHANGED <<pc, temp, fileVars, temps, diskVars, abandoned>>

\* The kernel writes back the directory, or one more chunk of a file.
WriteBackDirectory ==
  /\ diskDest' = dest
  /\ diskTemps' = temps
  /\ UNCHANGED <<pc, temp, fileVars, dirVars, unseen, abandoned, faults>>

WriteBackFile(f) ==
  /\ synced[f] < written[f]
  /\ synced' = [synced EXCEPT ![f] = @ + 1]
  /\ UNCHANGED <<pc, temp, owner, written, dirVars, diskVars, unseen, abandoned,
                 faults>>

PowerFailure ==
  /\ Fault
  /\ dest' = diskDest
  /\ temps' = diskTemps
  /\ written' = synced
  /\ pc' = [w \in Writers |-> IF pc[w] \in Idle THEN pc[w] ELSE "killed"]
  /\ temp' = [w \in Writers |-> None]
  /\ abandoned' = abandoned \cup diskTemps
  /\ unseen' = Writers
  /\ UNCHANGED <<owner, synced, diskVars>>

-----------------------------------------------------------------------------
Step(w) ==
  \/ Validate(w) \/ Mkdir(w) \/ Mkstemp(w) \/ MkstempFails(w)
  \/ Write(w) \/ Fsync(w) \/ Replace(w) \/ OsError(w)
  \/ Cleanup(w) \/ CleanupFails(w)

Environment ==
  \/ Interfere
  \/ WriteBackDirectory
  \/ \E f \in Files : WriteBackFile(f)
  \/ PowerFailure

Next == (\E w \in Writers : Call(w) \/ Step(w) \/ Kill(w)) \/ Environment

Spec == Init /\ [][Next]_vars

-----------------------------------------------------------------------------
(* Properties.                                                             *)

TypeOK ==
  /\ pc \in [Writers -> Pcs]
  /\ temp \in [Writers -> Files \cup {None}]
  /\ owner \in [Files -> Writers \cup {None}]
  /\ written \in [Files -> 0..Chunks]
  /\ synced \in [Files -> 0..Chunks]
  /\ dest \in Files \cup Others
  /\ diskDest \in Files \cup Others
  /\ temps \subseteq Files
  /\ diskTemps \subseteq Files
  /\ unseen \subseteq Writers
  /\ abandoned \subseteq Files
  /\ faults \in 0..MaxFaults

\* "an existing regular output file is replaced only after the entire report
\* has been validated and serialized": whoever opens the report path, at any
\* moment and also after a power failure that kept the directory but only
\* some of the bytes, finds a whole text.
NeverTorn ==
  /\ dest \in Files => written[dest] = Chunks
  /\ diskDest \in Files => synced[diskDest] = Chunks

\* "Temporary files are removed after success and handled write failures":
\* a temporary name in the directory belongs to a call that still runs, to one
\* that was killed, or to one that the system would not let remove it.
NoStrayTemporaries ==
  temps \subseteq
    abandoned \cup {temp[w] : w \in {v \in Writers : pc[v] \in HasTemp}}

KeepsRefused ==
  \A w \in Writers :
    pc[w] # "done" /\ pc'[w] = "done" /\ w \notin unseen => dest \notin Refused

\* "Existing output symlinks and non-regular destinations are rejected, as are
\* output paths resolving to the source inventory": a call replaces a link, a
\* directory or an input only if it got to the path after the call's last
\* check, however late before that it came.
RefusedIsKept == [][KeepsRefused]_vars

\* The path as its readers see it, for AtomicFile.
Text(d, have) == IF d \notin Files THEN d
                 ELSE IF have[d] = Chunks THEN owner[d] ELSE None

Outcome(at) == CASE at = "idle" -> "idle"
                 [] at = "done" -> "committed"
                 [] at \in {"failed", "killed"} -> "aborted"
                 [] OTHER -> "running"

Abstract == INSTANCE AtomicFile WITH
  visible <- Text(dest, written),
  durable <- Text(diskDest, synced),
  call <- [w \in Writers |-> Outcome(pc[w])]

\* The temporary file, the cache and the three checks together behave as one
\* atomic replacement per successful call.
ImplementsAtomicFile == Abstract!Spec
=============================================================================
