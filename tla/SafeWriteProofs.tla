--------------------------- MODULE SafeWriteProofs ---------------------------
(***************************************************************************)
(* Safety of SafeWrite for any calls, any files and texts of any length.   *)
(***************************************************************************)
EXTENDS SafeWrite, Descent, TLAPS

\* Where a call stands says how much of its temporary file is written and
\* forced; without this, nothing ties the bytes on disk to the entry that
\* os.replace installs.
TempInv ==
  \A w \in Writers :
    /\ temp[w] # None => pc[w] \in HasTemp
    /\ pc[w] \in HasTemp => temp[w] \in Files /\ owner[temp[w]] = w
    /\ pc[w] = "write" => written[temp[w]] < Chunks
    /\ pc[w] = "fsync" => written[temp[w]] = Chunks
    /\ pc[w] \in {"check3", "replace"} => synced[temp[w]] = Chunks

\* Bytes on disk are bytes that were written, and a file that the path has
\* ever held is complete on disk.
FileInv ==
  /\ \A f \in Files : synced[f] <= written[f]
  /\ \A f \in Files : owner[f] = None => written[f] = 0
  /\ dest \in Files => owner[dest] # None /\ synced[dest] = Chunks
  /\ diskDest \in Files => owner[diskDest] # None /\ synced[diskDest] = Chunks

IInv == TypeOK /\ TempInv /\ FileInv

USE ChunksAssumption, FaultsAssumption, ValuesAssumption, RefusedAssumption
    DEF Idle, HasTemp, Checks, Pcs, Others, Refused

\* No temporary file and an empty cache: the initial states are safe.
LEMMA InitIInv == Init => IInv
BY DEF Init, IInv, TypeOK, TempInv, FileInv

\* Every statement of a call, and everything around the calls, keeps the types.
LEMMA NextTypeOK == IInv /\ [Next]_vars => TypeOK'
<1> SUFFICES ASSUME IInv, [Next]_vars PROVE TypeOK'
    OBVIOUS
<1> USE DEF IInv, TypeOK
<1>1. ASSUME NEW w \in Writers, Call(w) PROVE TypeOK'
      BY <1>1 DEF Call, Goto, fileVars, dirVars, diskVars
<1>2. ASSUME NEW w \in Writers, Validate(w) PROVE TypeOK'
      BY <1>2 DEF Validate, Goto, AfterCheck, fileVars, dirVars, diskVars
<1>3. ASSUME NEW w \in Writers, Mkdir(w) \/ MkstempFails(w) \/ OsError(w)
      PROVE TypeOK'
      BY <1>3 DEF Mkdir, MkstempFails, OsError, Goto, fileVars, dirVars, diskVars
<1>4. ASSUME NEW w \in Writers, Mkstemp(w) PROVE TypeOK'
      BY <1>4 DEF Mkstemp, Goto, diskVars
<1>5. ASSUME NEW w \in Writers, Write(w) PROVE TypeOK'
  <2>1. temp[w] \in Files /\ written[temp[w]] \in 0..Chunks
        /\ written[temp[w]] < Chunks
        BY <1>5 DEF Write, TempInv
  <2>2. written[temp[w]] + 1 \in 0..Chunks
        BY <2>1
  <2> QED BY <1>5, <2>1, <2>2 DEF Write, Goto, dirVars, diskVars
<1>6. ASSUME NEW w \in Writers, Fsync(w) PROVE TypeOK'
      BY <1>6 DEF Fsync, Forced, Goto, dirVars, diskVars, TempInv
<1>7. ASSUME NEW w \in Writers, Replace(w) PROVE TypeOK'
      BY <1>7 DEF Replace, Goto, fileVars, diskVars, TempInv
<1>8. ASSUME NEW w \in Writers, Cleanup(w) \/ CleanupFails(w) PROVE TypeOK'
      BY <1>8 DEF Cleanup, CleanupFails, WithoutTemporary, TempInv, dirVars, Reraise, Goto, fileVars, diskVars
<1>9. ASSUME NEW w \in Writers, Kill(w) PROVE TypeOK'
      BY <1>9 DEF Kill, Fault, Goto, fileVars, dirVars, diskVars
<1>10. CASE Interfere
      BY <1>10 DEF Interfere, Fault, fileVars, diskVars
<1>11. CASE WriteBackDirectory
      BY <1>11 DEF WriteBackDirectory, fileVars, dirVars
<1>12. ASSUME NEW f \in Files, WriteBackFile(f) PROVE TypeOK'
  <2>1. synced[f] + 1 \in 0..Chunks
        BY <1>12 DEF WriteBackFile
  <2> QED BY <1>12, <2>1 DEF WriteBackFile, dirVars, diskVars
<1>13. CASE PowerFailure
      BY <1>13 DEF PowerFailure, Fault, diskVars
<1>14. CASE UNCHANGED vars
      BY <1>14 DEF vars, fileVars, dirVars, diskVars
<1> QED BY <1>1, <1>2, <1>3, <1>4, <1>5, <1>6, <1>7, <1>8, <1>9, <1>10,
           <1>11, <1>12, <1>13, <1>14 DEF Next, Step, Environment

\* The temporary file of a call belongs to it alone: only its own statements,
\* and a power failure that also ends the call, change the file's bytes.
LEMMA NextTempInv == IInv /\ [Next]_vars => TempInv'
<1> SUFFICES ASSUME IInv, [Next]_vars, TypeOK' PROVE TempInv'
    BY NextTypeOK
<1> USE DEF IInv, TypeOK, TempInv, FileInv
<1>1. ASSUME NEW w \in Writers, Call(w) PROVE TempInv'
      BY <1>1 DEF Call, Goto, fileVars, dirVars, diskVars
<1>2. ASSUME NEW w \in Writers, Validate(w) PROVE TempInv'
      BY <1>2 DEF Validate, Goto, AfterCheck, fileVars, dirVars, diskVars
<1>3. ASSUME NEW w \in Writers, Mkdir(w) \/ MkstempFails(w) \/ OsError(w)
      PROVE TempInv'
      BY <1>3 DEF Mkdir, MkstempFails, OsError, Goto, fileVars, dirVars, diskVars
<1>4. ASSUME NEW w \in Writers, Mkstemp(w) PROVE TempInv'
      BY <1>4 DEF Mkstemp, Goto, diskVars
<1>5. ASSUME NEW w \in Writers, Write(w) PROVE TempInv'
      BY <1>5 DEF Write, LastChunk, Goto, dirVars, diskVars
<1>6. ASSUME NEW w \in Writers, Fsync(w) PROVE TempInv'
      BY <1>6 DEF Fsync, Forced, Goto, dirVars, diskVars
<1>7. ASSUME NEW w \in Writers, Replace(w) PROVE TempInv'
      BY <1>7 DEF Replace, Goto, fileVars, diskVars
<1>8. ASSUME NEW w \in Writers, Cleanup(w) \/ CleanupFails(w) PROVE TempInv'
      BY <1>8 DEF Cleanup, CleanupFails, WithoutTemporary, dirVars, Reraise, Goto, fileVars, diskVars
<1>9. ASSUME NEW w \in Writers, Kill(w) PROVE TempInv'
      BY <1>9 DEF Kill, Fault, Goto, fileVars, dirVars, diskVars
<1>10. CASE Interfere
      BY <1>10 DEF Interfere, Fault, fileVars, diskVars
<1>11. CASE WriteBackDirectory
      BY <1>11 DEF WriteBackDirectory, fileVars, dirVars
<1>12. ASSUME NEW f \in Files, WriteBackFile(f) PROVE TempInv'
      BY <1>12 DEF WriteBackFile, dirVars, diskVars
<1>13. CASE PowerFailure
      BY <1>13 DEF PowerFailure, Fault, diskVars
<1>14. CASE UNCHANGED vars
      BY <1>14 DEF vars, fileVars, dirVars, diskVars
<1> QED BY <1>1, <1>2, <1>3, <1>4, <1>5, <1>6, <1>7, <1>8, <1>9, <1>10,
           <1>11, <1>12, <1>13, <1>14 DEF Next, Step, Environment

\* A file that the path holds never loses a byte on disk.
LEMMA NextFileInv == IInv /\ [Next]_vars => FileInv'
<1> SUFFICES ASSUME IInv, [Next]_vars, TypeOK' PROVE FileInv'
    BY NextTypeOK
<1> USE DEF IInv, TypeOK, TempInv, FileInv
<1>1. ASSUME NEW w \in Writers,
             Call(w) \/ Validate(w) \/ Mkdir(w) \/ MkstempFails(w) \/ OsError(w)
               \/ Cleanup(w) \/ CleanupFails(w) \/ Kill(w)
      PROVE FileInv'
      BY <1>1 DEF Call, Validate, Mkdir, MkstempFails, OsError, Cleanup,
                  CleanupFails, Kill, fileVars, dirVars, diskVars
<1>2. ASSUME NEW w \in Writers, Mkstemp(w) PROVE FileInv'
      BY <1>2 DEF Mkstemp, diskVars
<1>3. ASSUME NEW w \in Writers, Write(w) PROVE FileInv'
      BY <1>3 DEF Write, dirVars, diskVars
<1>4. ASSUME NEW w \in Writers, Fsync(w) PROVE FileInv'
      BY <1>4 DEF Fsync, Forced, dirVars, diskVars
<1>5. ASSUME NEW w \in Writers, Replace(w) PROVE FileInv'
      BY <1>5 DEF Replace, fileVars, diskVars
<1>6. CASE Interfere
      BY <1>6 DEF Interfere, fileVars, diskVars
<1>7. CASE WriteBackDirectory
      BY <1>7 DEF WriteBackDirectory, fileVars, dirVars
<1>8. ASSUME NEW f \in Files, WriteBackFile(f) PROVE FileInv'
      BY <1>8 DEF WriteBackFile, dirVars, diskVars
<1>9. CASE PowerFailure
  <2>1. \A f \in Files : owner[f] = None => synced[f] = 0
    <3>1. \A f \in Files : synced[f] \in Nat
          OBVIOUS
    <3> QED BY <3>1
  <2> QED BY <1>9, <2>1 DEF PowerFailure, diskVars
<1>10. CASE UNCHANGED vars
      BY <1>10 DEF vars, fileVars, dirVars, diskVars
<1> QED BY <1>1, <1>2, <1>3, <1>4, <1>5, <1>6, <1>7, <1>8, <1>9, <1>10
        DEF Next, Step, Environment

\* The invariant holds always.
LEMMA Invariance == Spec => []IInv
<1>1. IInv /\ [Next]_vars => IInv'
      BY NextTypeOK, NextTempInv, NextFileInv DEF IInv
<1> QED BY InitIInv, <1>1, PTL DEF Spec

\* The variables stay within their types: no text grows past its end.
THEOREM TypeCorrect == Spec => []TypeOK
BY Invariance, PTL DEF IInv

\* A reader of the report path finds a whole text, before and after a power
\* failure: the bytes were forced before os.replace made them reachable.
THEOREM NeverTornHolds == Spec => []NeverTorn
<1>1. IInv => NeverTorn
  <2> SUFFICES ASSUME IInv PROVE NeverTorn
      OBVIOUS
  <2>1. \A f \in Files : synced[f] = Chunks => written[f] = Chunks
    <3> SUFFICES ASSUME NEW f \in Files, synced[f] = Chunks
                 PROVE written[f] = Chunks
        OBVIOUS
    <3>1. written[f] \in 0..Chunks /\ synced[f] <= written[f]
          BY DEF IInv, TypeOK, FileInv
    <3> QED BY <3>1
  <2> QED BY <2>1 DEF IInv, FileInv, NeverTorn
<1> QED BY Invariance, <1>1, PTL

-----------------------------------------------------------------------------
\* The names of the calls that are between mkstemp and os.replace or unlink.
Running == {temp[w] : w \in {v \in Writers : pc[v] \in HasTemp}}

\* Every step that takes a name out of Running takes it out of the directory,
\* or its call was killed there or could not unlink it; the directory after a
\* power failure has only names of killed calls.
LEMMA NextNoStray ==
  IInv /\ NoStrayTemporaries /\ [Next]_vars => NoStrayTemporaries'
<1> SUFFICES ASSUME IInv, NoStrayTemporaries, [Next]_vars
             PROVE  temps' \subseteq abandoned' \cup Running'
    BY DEF NoStrayTemporaries, Running
<1> USE DEF IInv, TypeOK
<1>1. temps \subseteq abandoned \cup Running
      BY DEF NoStrayTemporaries, Running
<1>2. ASSUME NEW w \in Writers, pc' = [pc EXCEPT ![w] = pc'[w]],
             \A v \in Writers \ {w} : temp'[v] = temp[v]
      PROVE  Running \ {temp[w]} \subseteq Running'
      BY <1>2 DEF Running
<1>3. ASSUME NEW w \in Writers,
             Call(w) \/ Validate(w) \/ Mkdir(w) \/ MkstempFails(w) \/ OsError(w)
               \/ Write(w) \/ Fsync(w)
      PROVE  temps' \subseteq abandoned' \cup Running'
  <2>1. UNCHANGED <<temp, temps, abandoned>> /\ pc' = [pc EXCEPT ![w] = pc'[w]]
        BY <1>3 DEF Call, Validate, Mkdir, MkstempFails, OsError, Write, Fsync,
                    Goto, dirVars
  <2>2. pc[w] \in HasTemp => pc'[w] \in HasTemp
        BY <1>3 DEF Call, Validate, AfterCheck, Mkdir, MkstempFails, OsError,
                    Write, Fsync, Goto
  <2> QED BY <1>1, <2>1, <2>2 DEF Running
<1>4. ASSUME NEW w \in Writers, Mkstemp(w)
      PROVE  temps' \subseteq abandoned' \cup Running'
  <2>1. PICK f \in Files : /\ temp' = [temp EXCEPT ![w] = f]
                           /\ temps' = temps \cup {f}
        BY <1>4 DEF Mkstemp
  <2>2. /\ pc[w] \notin HasTemp /\ pc' = [pc EXCEPT ![w] = "write"]
        /\ abandoned' = abandoned
        BY <1>4 DEF Mkstemp, Goto
  <2>3. f \in Running' /\ Running \subseteq Running'
        BY <2>1, <2>2 DEF Running
  <2> QED BY <1>1, <2>1, <2>2, <2>3
<1>5. ASSUME NEW w \in Writers, Replace(w) \/ Cleanup(w)
      PROVE  temps' \subseteq abandoned' \cup Running'
  <2>1. /\ pc' = [pc EXCEPT ![w] = pc'[w]] /\ temp' = [temp EXCEPT ![w] = None]
        /\ temps' = temps \ {temp[w]} /\ abandoned' = abandoned
        BY <1>5 DEF Replace, Cleanup, WithoutTemporary, Reraise, Goto
  <2> QED BY <1>1, <1>2, <2>1
<1>6. ASSUME NEW w \in Writers, Kill(w) \/ CleanupFails(w)
      PROVE  temps' \subseteq abandoned' \cup Running'
  <2>1. /\ pc' = [pc EXCEPT ![w] = pc'[w]] /\ temp' = [temp EXCEPT ![w] = None]
        /\ temps' = temps /\ abandoned \cup ({temp[w]} \ {None}) \subseteq abandoned'
        BY <1>6 DEF Kill, CleanupFails, Reraise, Goto, dirVars
  <2>2. None \notin temps
        OBVIOUS
  <2> QED BY <1>1, <1>2, <2>1, <2>2
<1>7. ASSUME PowerFailure PROVE temps' \subseteq abandoned' \cup Running'
      BY <1>7 DEF PowerFailure
<1>8. ASSUME \/ Interfere \/ WriteBackDirectory
             \/ (\E f \in Files : WriteBackFile(f)) \/ UNCHANGED vars
      PROVE  temps' \subseteq abandoned' \cup Running'
      BY <1>1, <1>8 DEF Interfere, WriteBackDirectory, WriteBackFile, vars,
                        dirVars, Running
<1> QED BY <1>3, <1>4, <1>5, <1>6, <1>7, <1>8 DEF Next, Step, Environment

\* A failed call leaves no temporary file behind; only a kill, a power failure
\* or an unlink that the system refuses does, for any number of calls.
THEOREM NoStrayTemporariesHolds == Spec => []NoStrayTemporaries
<1>1. Init => NoStrayTemporaries
      BY DEF Init, NoStrayTemporaries
<1> QED BY <1>1, NextNoStray, Invariance, PTL DEF Spec

-----------------------------------------------------------------------------
\* A call about to replace the path, for which nothing has changed since it
\* last looked, sees no link, no directory and no input there.
SeenInv ==
  \A w \in Writers : pc[w] = "replace" /\ w \notin unseen => dest \notin Refused

\* A destination that a call has checked since others interfered is not refused.
LEMMA SeenInvariance == Spec => []SeenInv
<1>1. Init => SeenInv
      BY DEF Init, SeenInv
<1>2. IInv /\ SeenInv /\ [Next]_vars => SeenInv'
  <2> SUFFICES ASSUME IInv, SeenInv, [Next]_vars PROVE SeenInv'
      OBVIOUS
  <2> USE DEF IInv, TypeOK, SeenInv
  <2>1. ASSUME NEW w \in Writers,
               Call(w) \/ Mkdir(w) \/ MkstempFails(w) \/ OsError(w)
                 \/ Kill(w)
        PROVE SeenInv'
        BY <2>1 DEF Call, Mkdir, MkstempFails, OsError, Kill, Goto, dirVars
  <2>2. ASSUME NEW w \in Writers, Validate(w) PROVE SeenInv'
        BY <2>2 DEF Validate, Accepts, AfterCheck, Goto, dirVars
  <2>3. ASSUME NEW w \in Writers,
               Mkstemp(w) \/ Write(w) \/ Fsync(w) \/ Cleanup(w) \/ CleanupFails(w)
        PROVE SeenInv'
        BY <2>3 DEF Mkstemp, Write, Fsync, Cleanup, CleanupFails, Reraise, Goto, dirVars
  <2>4. ASSUME (\E w \in Writers : Replace(w)) \/ Interfere \/ PowerFailure
        PROVE SeenInv'
        BY <2>4 DEF Replace, Interfere, PowerFailure
  <2>5. ASSUME WriteBackDirectory \/ (\E f \in Files : WriteBackFile(f))
                 \/ UNCHANGED vars
        PROVE SeenInv'
        BY <2>5 DEF WriteBackDirectory, WriteBackFile, vars, dirVars
  <2> QED BY <2>1, <2>2, <2>3, <2>4, <2>5 DEF Next, Step, Environment
<1> QED BY <1>1, <1>2, Invariance, PTL DEF Spec

\* The checks hold up to the race the code cannot close: a refused entry is
\* replaced only when it appears after the last check.
THEOREM RefusedIsKeptHolds == Spec => RefusedIsKept
<1>1. IInv /\ SeenInv /\ [Next]_vars => [KeepsRefused]_vars
  <2> SUFFICES ASSUME IInv, SeenInv, Next,
                      NEW u \in Writers, pc[u] # "done", pc'[u] = "done"
               PROVE u \notin unseen => dest \notin Refused
      BY DEF KeepsRefused
  <2> USE DEF IInv, TypeOK
  <2>1. ASSUME NEW w \in Writers, Replace(w) PROVE u = w
        BY <2>1 DEF Replace, Goto
  <2>2. ASSUME NEW w \in Writers,
               Call(w) \/ Mkdir(w) \/ MkstempFails(w) \/ OsError(w)
                 \/ Kill(w) \/ Mkstemp(w) \/ Write(w) \/ Fsync(w)
                 \/ Cleanup(w) \/ CleanupFails(w)
        PROVE FALSE
        BY <2>2 DEF Call, Mkdir, MkstempFails, OsError, Kill, Mkstemp, Write,
                    Fsync, Cleanup, CleanupFails, Reraise, Goto
  <2>3. ASSUME NEW w \in Writers, Validate(w) PROVE FALSE
        BY <2>3 DEF Validate, AfterCheck, Goto
  <2>4. ~Environment
    <3>1. ~PowerFailure
          BY DEF PowerFailure
    <3>2. pc' # pc
          OBVIOUS
    <3> QED BY <3>1, <3>2 DEF Environment, Interfere, WriteBackDirectory,
                              WriteBackFile
  <2>5. PICK w \in Writers : Replace(w)
        BY <2>2, <2>3, <2>4 DEF Next, Step
  <2>6. pc[u] = "replace"
        BY <2>1, <2>5 DEF Replace
  <2> QED BY <2>6 DEF SeenInv
<1> QED BY <1>1, Invariance, SeenInvariance, PTL DEF RefusedIsKept, Spec

-----------------------------------------------------------------------------
(* SafeWrite implements AtomicFile.                                        *)

\* What each program counter is to the caller.
LEMMA OutcomeOf ==
  /\ Outcome("idle") = "idle"
  /\ Outcome("done") = "committed"
  /\ Outcome("failed") = "aborted"
  /\ Outcome("killed") = "aborted"
  /\ \A at \in Pcs \ Idle : Outcome(at) = "running"
BY ZenonT(30) DEF Outcome

\* What the path holds for a reader, once torn files are excluded.
Held(d) == IF d \in Files THEN owner[d] ELSE d

\* What a reader finds at the path is the text of the call that wrote it.
LEMMA TextIsHeld ==
  IInv => /\ Text(dest, written) = Held(dest)
          /\ Text(diskDest, synced) = Held(diskDest)
<1> SUFFICES ASSUME IInv PROVE /\ Text(dest, written) = Held(dest)
                               /\ Text(diskDest, synced) = Held(diskDest)
    OBVIOUS
<1>1. dest \in Files => written[dest] = Chunks
  <2> SUFFICES ASSUME dest \in Files PROVE written[dest] = Chunks
      OBVIOUS
  <2>1. written[dest] \in 0..Chunks /\ Chunks <= written[dest]
        BY DEF IInv, TypeOK, FileInv
  <2> QED BY <2>1
<1> QED BY <1>1 DEF Text, Held, IInv, FileInv

Calls == [w \in Writers |-> Outcome(pc[w])]

\* The initial states are those of AtomicFile.
LEMMA InitRefines == Init => Abstract!Init
<1> SUFFICES ASSUME Init PROVE Abstract!Init
    OBVIOUS
<1>1. dest \notin Files
      BY DEF Init
<1>2. Text(dest, written) = dest /\ Text(diskDest, synced) = dest
      BY <1>1 DEF Init, Text
<1> QED BY <1>1, <1>2, OutcomeOf DEF Init, Abstract!Init, Abstract!Outcomes

\* Every step is one of AtomicFile or changes nothing there.
LEMMA NextRefines ==
  IInv /\ IInv' /\ [Next]_vars => [Abstract!Next]_(Abstract!vars)
<1> SUFFICES ASSUME IInv, IInv', [Next]_vars
             PROVE [Abstract!Next]_(Abstract!vars)
    OBVIOUS
<1>1. /\ Text(dest, written) = Held(dest)
      /\ Text(diskDest, synced) = Held(diskDest)
      /\ Text(dest, written)' = Held(dest)'
      /\ Text(diskDest, synced)' = Held(diskDest)'
  <2>1. (IInv => /\ Text(dest, written) = Held(dest)
                 /\ Text(diskDest, synced) = Held(diskDest))'
        BY TextIsHeld, PTL
  <2> QED BY <2>1, TextIsHeld
<1> DEFINE Same == UNCHANGED <<Held(dest), Held(diskDest)>>
<1>2. Same => UNCHANGED <<Text(dest, written), Text(diskDest, synced)>>
      BY <1>1
<1> USE DEF IInv, TypeOK
<1> DEFINE Moves(w) == pc' = [pc EXCEPT ![w] = pc'[w]]
<1>3. ASSUME NEW w \in Writers, Moves(w)
      PROVE Calls' = [Calls EXCEPT ![w] = Outcome(pc'[w])]
  <2>1. \A v \in Writers : v # w => pc'[v] = pc[v]
        BY <1>3
  <2> QED BY <2>1 DEF Calls
<1>4. ASSUME NEW w \in Writers
      PROVE Calls[w] = Outcome(pc[w]) /\ Calls \in [Writers -> {Outcome(at) : at \in Pcs}]
      BY DEF Calls
<1>5. ASSUME NEW w \in Writers, Moves(w), Same,
             pc[w] \in Idle, pc'[w] \in Pcs \ Idle
      PROVE Abstract!Begin(w)
  <2>1. Calls[w] # "running" /\ Outcome(pc'[w]) = "running"
        BY <1>4, <1>5, OutcomeOf
  <2> QED BY <1>2, <1>3, <1>5, <2>1 DEF Abstract!Begin, Calls
<1>6. ASSUME NEW w \in Writers, Moves(w), Same,
             pc[w] \in Pcs \ Idle, pc'[w] \in {"failed", "killed"}
      PROVE Abstract!Abort(w)
  <2>1. Calls[w] = "running" /\ Outcome(pc'[w]) = "aborted"
        BY <1>4, <1>6, OutcomeOf
  <2> QED BY <1>2, <1>3, <1>6, <2>1 DEF Abstract!Abort, Calls
<1>7. ASSUME NEW w \in Writers, Moves(w), Same,
             pc[w] \in Pcs \ Idle, pc'[w] \in Pcs \ Idle
      PROVE UNCHANGED Abstract!vars
  <2>1. Calls[w] = "running" /\ Outcome(pc'[w]) = "running"
        BY <1>4, <1>7, OutcomeOf
  <2>2. Calls' = Calls
        BY <1>3, <1>4, <1>7, <2>1
  <2> QED BY <1>2, <1>7, <2>2 DEF Abstract!vars, Calls
<1>8. ASSUME NEW w \in Writers, Call(w) PROVE Abstract!Next
  <2>1. Same
        BY <1>8 DEF Call, dirVars, diskVars, fileVars, Held
  <2> QED BY <1>5, <1>8, <2>1 DEF Call, Goto, Abstract!Next
<1>9. ASSUME NEW w \in Writers,
             Validate(w) \/ Mkdir(w) \/ MkstempFails(w) \/ OsError(w)
               \/ Mkstemp(w) \/ Write(w) \/ Fsync(w) \/ Cleanup(w)
               \/ CleanupFails(w) \/ Kill(w)
      PROVE Same /\ Moves(w) /\ pc[w] \in Pcs \ Idle
            /\ pc'[w] \in {"failed", "killed"} \cup (Pcs \ Idle)
  <2>1. CASE Validate(w)
        BY <2>1 DEF Validate, AfterCheck, Goto, fileVars, dirVars, diskVars, Held
  <2>2. CASE Mkdir(w) \/ MkstempFails(w) \/ OsError(w) \/ Kill(w)
        BY <2>2 DEF Mkdir, MkstempFails, OsError, Kill, Goto, fileVars, dirVars,
                    diskVars, Held
  <2>3. CASE Mkstemp(w)
        BY <2>3 DEF Mkstemp, Goto, diskVars, Held, FileInv
  <2>4. CASE Write(w) \/ Fsync(w)
        BY <2>4 DEF Write, Fsync, Goto, dirVars, diskVars, Held
  <2>5. CASE Cleanup(w) \/ CleanupFails(w)
        BY <2>5 DEF Cleanup, CleanupFails, Reraise, Goto, fileVars, dirVars, diskVars, Held
  <2> QED BY <1>9, <2>1, <2>2, <2>3, <2>4, <2>5
<1>10. ASSUME NEW w \in Writers, Replace(w) PROVE Abstract!Commit(w)
  <2>1. /\ Moves(w) /\ pc[w] = "replace" /\ pc'[w] = "done"
        /\ Held(dest)' = w /\ Held(diskDest)' = Held(diskDest)
        BY <1>10 DEF Replace, Goto, fileVars, diskVars, Held, TempInv
  <2>2. Calls[w] = "running" /\ Outcome(pc'[w]) = "committed"
        BY <1>4, <2>1, OutcomeOf
  <2> QED BY <1>1, <1>3, <2>1, <2>2 DEF Abstract!Commit, Calls
<1>11. ASSUME Interfere PROVE Abstract!Interfere
  <2>1. /\ Held(dest)' \in Others /\ Held(diskDest)' = Held(diskDest)
        /\ Calls' = Calls
        BY <1>11 DEF Interfere, fileVars, diskVars, Held, Calls
  <2> QED BY <1>1, <2>1 DEF Abstract!Interfere, Calls
<1>12. ASSUME WriteBackDirectory PROVE Abstract!Persist
  <2>1. /\ Held(diskDest)' = Held(dest) /\ Held(dest)' = Held(dest)
        /\ Calls' = Calls
        BY <1>12 DEF WriteBackDirectory, fileVars, dirVars, Held, Calls
  <2> QED BY <1>1, <2>1 DEF Abstract!Persist, Calls
<1>13. ASSUME (\E f \in Files : WriteBackFile(f)) \/ UNCHANGED vars
       PROVE UNCHANGED Abstract!vars
  <2>1. Same /\ Calls' = Calls
        BY <1>13 DEF WriteBackFile, vars, fileVars, dirVars, diskVars, Held, Calls
  <2> QED BY <1>2, <2>1 DEF Abstract!vars, Calls
<1>14. ASSUME PowerFailure PROVE Abstract!PowerFailure
  <2>1. Held(dest)' = Held(diskDest) /\ Held(diskDest)' = Held(diskDest)
        BY <1>14 DEF PowerFailure, diskVars, Held
  <2>2. Calls' = [w \in Writers |-> IF Calls[w] = "running" THEN "aborted"
                                    ELSE Calls[w]]
        BY <1>14, OutcomeOf DEF PowerFailure, Calls
  <2> QED BY <1>1, <2>1, <2>2 DEF Abstract!PowerFailure, Calls
<1>15. ASSUME NEW w \in Writers, Step(w) \/ Kill(w)
       PROVE Abstract!Next \/ UNCHANGED Abstract!vars
       BY <1>6, <1>7, <1>9, <1>10, <1>15 DEF Step, Abstract!Next
<1> QED BY <1>8, <1>11, <1>12, <1>13, <1>14, <1>15
        DEF Next, Environment, Abstract!Next

\* The whole protocol is one atomic replacement per successful call: at no
\* moment, and after no power failure, does the path hold anything but a value
\* that one of the calls, or another program, put there.
THEOREM Refinement == Spec => ImplementsAtomicFile
BY InitRefines, NextRefines, Invariance, PTL
   DEF ImplementsAtomicFile, Spec, Abstract!Spec

(***************************************************************************)
(* Calls end.  What a call uses up: its stage, and while it writes what is *)
(* not written yet.  No lock is taken: what others do never makes this     *)
(* more.                                                                   *)
(***************************************************************************)
CallStage(w) ==
  CASE pc[w] = "check1" -> 9 [] pc[w] = "mkdir" -> 8 [] pc[w] = "check2" -> 7
    [] pc[w] = "mkstemp" -> 6 [] pc[w] = "write" -> 5 [] pc[w] = "fsync" -> 4
    [] pc[w] = "check3" -> 3 [] pc[w] = "replace" -> 2 [] pc[w] = "cleanup" -> 1
    [] OTHER -> 0
Unwritten(w) == IF pc[w] = "write" THEN Chunks - written[temp[w]] ELSE 0
CallRank(w) == <<CallStage(w), Unwritten(w)>>
Descends(w) == <<CallRank(w)', CallRank(w)>> \in Descent(2)
Ranked(w) == CallStage(w) \in Nat /\ Unwritten(w) \in Nat

\* There is no infinite descent.
LEMMA DescentEnds == \A n \in Nat : IsWellFoundedOn(Descent(n), Ranks(n))
<1>1. IsWellFoundedOn(Fewer, Nat)
  BY NatLessThanWellFounded DEF OpToRel, Fewer
<1> QED BY <1>1, WFLexProductOrdering DEF Descent, Ranks

\* When a pair is less than another.
LEMMA Descends2 ==
  ASSUME NEW a \in Nat, NEW b \in Nat, NEW x \in Nat, NEW y \in Nat,
         a < x \/ (a = x /\ b < y)
  PROVE  <<<<a, b>>, <<x, y>>>> \in Descent(2)
BY DEF Descent, LexProductOrdering, Fewer

\* The parts of the ranks are natural numbers.
AllRanked == \A w \in Writers : Ranked(w)
LEMMA RankTyped == IInv => AllRanked
<1> SUFFICES ASSUME IInv, NEW w \in Writers PROVE Ranked(w)
  BY DEF AllRanked
<1>1. CallStage(w) \in Nat
  BY DEF CallStage
<1>2. CASE pc[w] = "write"
  <2>1. written[temp[w]] \in 0..Chunks
    BY <1>2 DEF IInv, TypeOK, TempInv
  <2> QED BY <1>1, <1>2, <2>1 DEF Ranked, Unwritten
<1>3. CASE pc[w] # "write"
  BY <1>1, <1>3 DEF Ranked, Unwritten
<1> QED BY <1>2, <1>3

\* A statement of a call descends; so does what kills it.
LEMMA StepDescends ==
  ASSUME IInv, NEW w \in Writers, Ranked(w), Ranked(w)', Step(w) \/ Kill(w)
  PROVE  Descends(w)
<1>1. CASE Write(w) /\ ~LastChunk(w)
  <2>1. /\ pc[w] = "write" /\ temp' = temp /\ temp[w] \in Files
        /\ pc'[w] = "write" /\ written'[temp[w]] = written[temp[w]] + 1
        /\ written[temp[w]] \in 0..Chunks
    BY <1>1 DEF Write, Goto, IInv, TypeOK, TempInv
  <2>2. Unwritten(w)' < Unwritten(w) /\ CallStage(w)' = CallStage(w)
    BY <2>1 DEF Unwritten, CallStage
  <2> QED BY <2>2, Descends2 DEF Descends, CallRank, Ranked
<1>2. CASE ~(Write(w) /\ ~LastChunk(w))
  <2>1. CallStage(w)' < CallStage(w)
    <3>1. CASE Validate(w)
      BY <3>1 DEF Validate, AfterCheck, Goto, CallStage, IInv, TypeOK
    <3>2. CASE Mkdir(w) \/ Mkstemp(w) \/ MkstempFails(w) \/ Fsync(w) \/ Replace(w)
      BY <3>2 DEF Mkdir, Mkstemp, MkstempFails, Fsync, Replace, Goto, CallStage, IInv, TypeOK
    <3>3. CASE Write(w) /\ LastChunk(w)
      BY <3>3 DEF Write, Goto, CallStage, IInv, TypeOK
    <3>4. CASE OsError(w) \/ Cleanup(w) \/ CleanupFails(w)
      BY <3>4 DEF OsError, Cleanup, CleanupFails, Reraise, Goto, CallStage, IInv, TypeOK
    <3>5. CASE Kill(w)
      BY <3>5 DEF Kill, Goto, CallStage, IInv, TypeOK
    <3> QED BY <1>2, <3>1, <3>2, <3>3, <3>4, <3>5 DEF Step
  <2> QED BY <2>1, Descends2 DEF Descends, CallRank, Ranked
<1> QED BY <1>1, <1>2

\* What the other calls and the system do leaves a call where it is or ends it.
LEMMA OthersDoNotDelay ==
  ASSUME IInv, NEW w \in Writers, Ranked(w), Ranked(w)', [Next]_vars,
         ~Call(w), ~Step(w), ~Kill(w)
  PROVE  CallRank(w)' = CallRank(w) \/ Descends(w)
<1>1. ASSUME pc'[w] = pc[w], pc[w] = "write" => written'[temp'[w]] = written[temp[w]]
      PROVE  CallRank(w)' = CallRank(w)
  BY <1>1 DEF CallRank, CallStage, Unwritten
<1>2. ASSUME NEW v \in Writers, v # w, Call(v) \/ Step(v) \/ Kill(v)
      PROVE  CallRank(w)' = CallRank(w)
  <2>1. pc'[w] = pc[w] /\ temp'[w] = temp[w]
    BY <1>2 DEF Call, Step, Kill, Validate, Mkdir, Mkstemp, MkstempFails, Write, Fsync,
       Replace, OsError, Cleanup, CleanupFails, Goto, IInv, TypeOK
  <2>2. pc[w] = "write" => written'[temp[w]] = written[temp[w]]
    <3>1. CASE Write(v)
      <4>1. pc[w] = "write" => temp[v] # temp[w]
        BY <1>2, <3>1 DEF Write, IInv, TempInv
      <4> QED BY <3>1, <4>1 DEF Write, IInv, TypeOK, TempInv
    <3>2. CASE ~Write(v)
      BY <1>2, <3>2 DEF Call, Step, Kill, Validate, Mkdir, Mkstemp, MkstempFails, Fsync,
         Replace, OsError, Cleanup, CleanupFails, fileVars
    <3> QED BY <3>1, <3>2
  <2> QED BY <1>1, <2>1, <2>2
<1>3. CASE Interfere \/ WriteBackDirectory \/ (\E f \in Files : WriteBackFile(f))
           \/ UNCHANGED vars
  BY <1>1, <1>3 DEF Interfere, WriteBackDirectory, WriteBackFile, vars, fileVars
<1>4. CASE PowerFailure
  <2>1. CASE pc[w] \in Idle
    <3>1. pc'[w] = pc[w] /\ pc[w] # "write"
      BY <1>4, <2>1 DEF PowerFailure
    <3> QED BY <1>1, <3>1
  <2>2. CASE pc[w] \notin Idle
    <3>1. CallStage(w)' < CallStage(w)
      BY <1>4, <2>2 DEF PowerFailure, CallStage, IInv, TypeOK
    <3> QED BY <3>1, Descends2 DEF Descends, CallRank, Ranked
  <2> QED BY <2>1, <2>2
<1> QED BY <1>2, <1>3, <1>4 DEF Next, Environment

\* atomic_write_text comes to an end whoever else writes the path, removes it
\* or changes it: each of its statements descends, and nothing but a new call
\* ever makes more of what it has still to do.
Undelayed ==
  \A w \in Writers :
    /\ Step(w) => Descends(w)
    /\ ~Call(w) => CallRank(w)' = CallRank(w) \/ Descends(w)
THEOREM CallsDescend ==
  /\ IsWellFoundedOn(Descent(2), Ranks(2))
  /\ Spec => [][Undelayed]_vars
<1>1. IsWellFoundedOn(Descent(2), Ranks(2))
  BY DescentEnds
<1>2. IInv /\ AllRanked /\ AllRanked' /\ [Next]_vars => Undelayed
  <2> SUFFICES ASSUME IInv, AllRanked, AllRanked', [Next]_vars, NEW w \in Writers
               PROVE  /\ Step(w) => Descends(w)
                      /\ ~Call(w) => CallRank(w)' = CallRank(w) \/ Descends(w)
    BY DEF Undelayed
  <2>1. Ranked(w) /\ Ranked(w)'
    BY DEF AllRanked
  <2> QED BY <2>1, StepDescends, OthersDoNotDelay
<1>3. Spec => [][Undelayed]_vars
  BY Invariance, RankTyped, <1>2, PTL DEF Spec
<1> QED BY <1>1, <1>3
=============================================================================
