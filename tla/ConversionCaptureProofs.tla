---------------------- MODULE ConversionCaptureProofs ----------------------
(***************************************************************************)
(* Safety of ConversionCapture for any number of overlapping runs, source  *)
(* artifacts, commits and changes by other programs.                       *)
(***************************************************************************)
EXTENDS ConversionCapture, TLAPS

Before == {"tool", "sources", "launch"}
After == {"retool", "inventory", "digest", "validate"}
Validated(r) == pc[r] = "write" \/ Emitted(r)
HasRead(r) == child[r] \in {"converting", "writing", "succeeded", "failed"}
Whole(r) == [by |-> r, state |-> "whole"]
Partial(r) == [by |-> r, state |-> "partial"]

\* How far a run and its converter are.
PhaseInv ==
  \A r \in Runs :
    /\ pc[r] \in Before \cup {"idle"} => child[r] = "none"
    /\ pc[r] \in After \cup {"write", "done"} => child[r] = "succeeded"
    /\ pc[r] = "write" => written[r] < 4
    /\ Emitted(r) => /\ pc[r] \in {"write", "done", "refused", "crashed"}
                     /\ child[r] = "succeeded"

\* A change of an artifact since it was hashed was counted, and a change back
\* was counted again.
SourceInv ==
  \A r \in Runs : \A a \in Roles :
    /\ pc[r] \in {"launch", "running"} \cup After =>
         /\ source[a] # hashes[r][a] => churn[r][a] >= 1
         /\ child[r] \in {"converting", "writing", "succeeded"}
              /\ used[r][a] # hashes[r][a] =>
              churn[r][a] >= (IF source[a] = hashes[r][a] THEN 2 ELSE 1)
    /\ Validated(r) => used[r][a] = hashes[r][a] \/ churn[r][a] >= 2

ToolIsGood(t) == t.head = Expected /\ (RequireClean => ~t.dirty)

\* The same for the checkout of the tool.
ToolInv ==
  \A r \in Runs :
    /\ pc[r] \in {"sources", "launch", "running", "retool"} =>
         /\ ~ToolIsGood(Checkout) => toolChurn[r] >= 1
         /\ child[r] \in {"converting", "writing", "succeeded"}
              /\ ~ToolIsGood(usedTool[r]) =>
              toolChurn[r] >= (IF ToolIsGood(Checkout) THEN 2 ELSE 1)
    /\ pc[r] \in {"inventory", "digest", "validate"} \/ Validated(r) =>
         ToolIsGood(usedTool[r]) \/ toolChurn[r] >= 2

\* The target of a run that nobody else touched is as its converter left it.
TargetOf(r) ==
  /\ "open" \notin touched[r] =>
       /\ pc[r] \in Before \cup {"running"} =>
            /\ child[r] \in {"none", "reading", "converting"} => target = None
            /\ child[r] = "writing" => target = Partial(r)
            /\ child[r] = "succeeded" => target \in {None, Whole(r)}
       /\ pc[r] \in After => target = Whole(r)
       /\ pc[r] \in {"digest", "validate"} \/ Validated(r) => inventory[r] = Whole(r)
       /\ pc[r] = "validate" \/ Validated(r) => digest[r] = Whole(r)
  /\ Validated(r) /\ "validated" \notin touched[r] => digest[r] = target
TargetInv == \A r \in Runs : TargetOf(r)

\* Without overlap, only the active run has reports.
ReportInv ==
  ~overlapped =>
    /\ \A q, r \in Runs : pc[q] \notin Inactive /\ pc[r] \notin Inactive => q = r
    /\ \A r \in Runs : pc[r] \notin Inactive =>
         \A k \in Reports : out[k] \in Runs => out[k] = r
    /\ ReportsAreOfOneRun

IInv == /\ TypeOK /\ PhaseInv /\ SourceInv /\ ToolInv /\ TargetInv
        /\ ReportInv

\* The invariant holds when no run has started.
LEMMA InitIInv == Init => IInv
<1> SUFFICES ASSUME Init PROVE IInv
    OBVIOUS
<1> USE DEF Init
<1>1. TypeOK
  <2>1. FileTypes
        BY DEF FileTypes, Standing
  <2>2. RunTypes
        BY DEF RunTypes, Steps, Inactive, Standing
  <2>3. ConverterTypes
        BY DEF ConverterTypes, Checkout
  <2>4. HistoryTypes
    <3>1. overlapped \in BOOLEAN
          OBVIOUS
    <3>2. changes \in 0..MaxChanges
          BY SpecAssumption
    <3> QED BY <3>1, <3>2 DEF HistoryTypes
  <2> QED BY <2>1, <2>2, <2>3, <2>4 DEF TypeOK
<1>2. PhaseInv /\ SourceInv /\ ToolInv
      BY DEF PhaseInv, SourceInv, ToolInv, Emitted, Validated, Before, After
<1>3. TargetInv
  <2> SUFFICES ASSUME NEW r \in Runs PROVE TargetOf(r)
      BY DEF TargetInv
  <2>1. pc[r] = "idle" /\ written[r] = 0
        OBVIOUS
  <2> QED BY <2>1 DEF TargetOf, Emitted, Validated, Before, After
<1>4. ReportInv
      BY ValuesAssumption DEF ReportInv, Inactive, ReportsAreOfOneRun
<1> QED BY <1>1, <1>2, <1>3, <1>4 DEF IInv

-----------------------------------------------------------------------------
(* What each kind of step leaves alone.                                    *)

\* A step of a run without effect on the shared files.
Private(r) ==
  \/ Check(r) \/ InspectTool(r) \/ HashSources(r) \/ Launch(r) \/ Returned(r)
  \/ ReinspectTool(r) \/ DescribeTarget(r) \/ HashTarget(r) \/ Validate(r)
  \/ Crash(r)

\* Every step keeps the types of the files.
LEMMA FileTypesStep == IInv /\ [Next]_vars => FileTypes'
<1> SUFFICES ASSUME IInv, [Next]_vars PROVE FileTypes'
    OBVIOUS
<1> USE DEF IInv, TypeOK, FileTypes, files
<1>1. CASE UNCHANGED files
      BY <1>1
<1>2. ASSUME NEW r \in Runs, Private(r) \/ ReadSources(r) \/ Exit(r)
      PROVE UNCHANGED files
      BY <1>2 DEF Private, Check, InspectTool, HashSources, Launch, Returned,
         ReinspectTool, DescribeTarget, HashTarget, Validate, Crash, ReadSources, Exit
<1>3. ASSUME NEW r \in Runs, WriteReport(r) PROVE FileTypes'
      BY <1>3 DEF WriteReport
<1>4. ASSUME NEW r \in Runs, OpenTarget(r) \/ Finish(r) PROVE FileTypes'
  <2>1. target' \in Standing \cup Targets
        BY <1>4 DEF OpenTarget, Finish, Targets, Standing
  <2>2. UNCHANGED <<source, head, dirty, out>>
        BY <1>4 DEF OpenTarget, Finish
  <2> QED BY <2>1, <2>2
<1>5. ASSUME Others PROVE FileTypes'
      BY <1>5 DEF Others, ChangeSource, ChangeTool, ChangeTarget, ChangeReport, Standing
<1> QED BY <1>1, <1>2, <1>3, <1>4, <1>5 DEF Next, Capture, Convert, Private, vars

\* Every step keeps the types of what the runs record.
LEMMA RunTypesStep == IInv /\ [Next]_vars => RunTypes'
<1> SUFFICES ASSUME IInv, [Next]_vars PROVE RunTypes'
    OBVIOUS
<1> USE DEF IInv, TypeOK, RunTypes, Goto, Refuse, run
<1>1. CASE UNCHANGED run
      BY <1>1
<1>2. ASSUME NEW r \in Runs,
             \/ Check(r) \/ InspectTool(r) \/ Launch(r) \/ Returned(r)
             \/ ReinspectTool(r) \/ Crash(r)
      PROVE RunTypes'
      BY <1>2 DEF Check, InspectTool, Launch, Returned, ReinspectTool, Crash,
         Steps, Inactive
<1>3. ASSUME NEW r \in Runs, HashSources(r) PROVE RunTypes'
      BY <1>3 DEF HashSources, FileTypes, Steps, Inactive
<1>4. ASSUME NEW r \in Runs, DescribeTarget(r) PROVE RunTypes'
  <2>1. target \in Standing \cup Targets
        BY DEF FileTypes
  <2>2. inventory' \in [Runs -> Standing \cup Targets]
        BY <1>4, <2>1 DEF DescribeTarget
  <2>3. pc' \in [Runs -> Steps]
        BY <1>4 DEF DescribeTarget, Steps, Inactive
  <2>4. \A q \in Runs : pc'[q] \in {"validate", "write", "done"} => digest[q] # None
        BY <1>4 DEF DescribeTarget
  <2>5. UNCHANGED <<hashes, digest, written>>
        BY <1>4 DEF DescribeTarget
  <2> QED BY <2>2, <2>3, <2>4, <2>5
<1>5. ASSUME NEW r \in Runs, HashTarget(r) PROVE RunTypes'
  <2>1. target \in Standing \cup Targets
        BY DEF FileTypes
  <2>2. digest' \in [Runs -> Standing \cup Targets]
        BY <1>5, <2>1 DEF HashTarget
  <2>3. pc' \in [Runs -> Steps]
        BY <1>5 DEF HashTarget, Steps, Inactive
  <2>4. \A q \in Runs : pc'[q] \in {"validate", "write", "done"} => digest'[q] # None
        BY <1>5 DEF HashTarget, TargetExists
  <2>5. UNCHANGED <<hashes, inventory, written>>
        BY <1>5 DEF HashTarget
  <2> QED BY <2>2, <2>3, <2>4, <2>5
<1>6. ASSUME NEW r \in Runs, Validate(r) PROVE RunTypes'
      BY <1>6 DEF Validate, Steps, Inactive
<1>7. ASSUME NEW r \in Runs, WriteReport(r) PROVE RunTypes'
  <2>1. pc[r] = "write" /\ written[r] \in 0..3
        BY <1>7 DEF WriteReport, PhaseInv
  <2>2. written' \in [Runs -> 0..4]
        BY <1>7, <2>1 DEF WriteReport
  <2>3. pc' \in [Runs -> Steps]
        BY <1>7 DEF WriteReport, Steps, Inactive
  <2>4. \A q \in Runs : pc'[q] \in {"validate", "write", "done"} => digest[q] # None
        BY <1>7, <2>1 DEF WriteReport
  <2>5. UNCHANGED <<hashes, inventory, digest>>
        BY <1>7 DEF WriteReport
  <2> QED BY <2>2, <2>3, <2>4, <2>5
<1>8. ASSUME (\E r \in Runs : Convert(r)) \/ Others \/ UNCHANGED vars
      PROVE UNCHANGED run
      BY <1>8 DEF Convert, ReadSources, OpenTarget, Finish, Exit, Others,
         ChangeSource, ChangeTool, ChangeTarget, ChangeReport, vars
<1> QED BY <1>1, <1>2, <1>3, <1>4, <1>5, <1>6, <1>7, <1>8 DEF Next, Capture

\* Every step keeps the types of the converters.
LEMMA ConverterTypesStep == IInv /\ [Next]_vars => ConverterTypes'
<1> SUFFICES ASSUME IInv, [Next]_vars PROVE ConverterTypes'
    OBVIOUS
<1> USE DEF IInv, TypeOK, ConverterTypes, converter
<1>1. CASE UNCHANGED converter
      BY <1>1
<1>2. ASSUME NEW r \in Runs, Launch(r) \/ OpenTarget(r) \/ Finish(r) \/ Exit(r)
      PROVE ConverterTypes'
      BY <1>2 DEF Launch, OpenTarget, Finish, Exit
<1>3. ASSUME NEW r \in Runs, ReadSources(r) PROVE ConverterTypes'
      BY <1>3 DEF ReadSources, Checkout, FileTypes
<1>4. ASSUME NEW r \in Runs, Capture(r), ~Launch(r) PROVE UNCHANGED converter
      BY <1>4 DEF Capture, Check, InspectTool, HashSources, Returned, ReinspectTool,
         DescribeTarget, HashTarget, Validate, WriteReport, Crash
<1>5. ASSUME Others \/ UNCHANGED vars PROVE UNCHANGED converter
      BY <1>5 DEF Others, ChangeSource, ChangeTool, ChangeTarget, ChangeReport, vars
<1> QED BY <1>1, <1>2, <1>3, <1>4, <1>5 DEF Next, Convert

\* Every step keeps the types of the history.
LEMMA HistoryTypesStep == IInv /\ [Next]_vars => HistoryTypes'
<1> SUFFICES ASSUME IInv, [Next]_vars PROVE HistoryTypes'
    OBVIOUS
<1> USE DEF IInv, TypeOK, HistoryTypes, history
<1>1. CASE UNCHANGED history
      BY <1>1
<1>2. ASSUME NEW r \in Runs, Check(r) \/ InspectTool(r) \/ HashSources(r)
      PROVE HistoryTypes'
  <2>1. overlapped' \in BOOLEAN
        BY <1>2, Zenon DEF Check, InspectTool, HashSources
  <2>2. churn' \in [Runs -> [Roles -> Nat]]
    <3>1. [a \in Roles |-> 0] \in [Roles -> Nat]
          OBVIOUS
    <3>2. UNCHANGED churn \/ churn' = [churn EXCEPT ![r] = [a \in Roles |-> 0]]
          BY <1>2 DEF Check, InspectTool, HashSources
    <3> QED BY <3>1, <3>2
  <2>4. toolChurn' \in [Runs -> Nat]
    <3>1. UNCHANGED toolChurn \/ toolChurn' = [toolChurn EXCEPT ![r] = 0]
          BY <1>2 DEF Check, InspectTool, HashSources
    <3> QED BY <3>1
  <2>3. UNCHANGED <<touched, changes>>
        BY <1>2 DEF Check, InspectTool, HashSources
  <2> QED BY <2>1, <2>2, <2>3, <2>4
<1>3. ASSUME NEW actors, Touch(actors)
      PROVE touched' \in [Runs -> SUBSET {"open", "validated"}]
      BY <1>3 DEF Touch, Phase
<1>4. ASSUME NEW r \in Runs, OpenTarget(r) \/ Finish(r) PROVE HistoryTypes'
      BY <1>3, <1>4 DEF OpenTarget, Finish
<1>5. ASSUME Change PROVE changes' \in 0..MaxChanges
      BY <1>5, SpecAssumption DEF Change
<1>6. ASSUME Others PROVE HistoryTypes'
      BY <1>3, <1>5, <1>6 DEF Others, ChangeSource, ChangeTool, ChangeTarget,
         ChangeReport
<1>7. ASSUME NEW r \in Runs, Capture(r) \/ Convert(r),
             ~(Check(r) \/ InspectTool(r) \/ HashSources(r) \/ OpenTarget(r) \/ Finish(r))
      PROVE UNCHANGED history
      BY <1>7 DEF Capture, Convert, Launch, Returned, ReinspectTool, DescribeTarget,
         HashTarget, Validate, WriteReport, Crash, ReadSources, Exit
<1> QED BY <1>1, <1>2, <1>4, <1>6, <1>7 DEF Next, vars

\* Every step keeps the types.
LEMMA TypeStep == IInv /\ [Next]_vars => TypeOK'
BY FileTypesStep, RunTypesStep, ConverterTypesStep, HistoryTypesStep DEF TypeOK

-----------------------------------------------------------------------------
(* The other invariants.                                                   *)

\* Every step keeps what a run has recorded by the phase it is in.
LEMMA PhaseStep == IInv /\ [Next]_vars => PhaseInv'
<1> SUFFICES ASSUME IInv, [Next]_vars PROVE PhaseInv'
    OBVIOUS
<1> USE DEF IInv, TypeOK, RunTypes, ConverterTypes, PhaseInv, Goto, Refuse, Emitted,
            Before, After, run, converter
<1>1. ASSUME NEW r \in Runs,
             Check(r) \/ InspectTool(r) \/ HashSources(r) \/ Launch(r)
      PROVE PhaseInv'
      BY <1>1 DEF Check, InspectTool, HashSources, Launch
<1>2. ASSUME NEW r \in Runs, Returned(r) \/ ReinspectTool(r) PROVE PhaseInv'
      BY <1>2 DEF Returned, ReinspectTool, Succeeded
<1>3. ASSUME NEW r \in Runs, DescribeTarget(r) \/ HashTarget(r) PROVE PhaseInv'
      BY <1>3 DEF DescribeTarget, HashTarget
<1>4. ASSUME NEW r \in Runs, Validate(r) PROVE PhaseInv'
  <2>1. /\ pc[r] = "validate" /\ UNCHANGED <<written, child>>
        /\ \/ pc' = [pc EXCEPT ![r] = "write"]
           \/ pc' = [pc EXCEPT ![r] = "refused"]
        BY <1>4 DEF Validate
  <2>2. ~(written[r] > 0) /\ written[r] \in 0..4
        BY <2>1
  <2>3. written[r] < 4
        BY <2>2
  <2> QED BY <2>1, <2>2, <2>3
<1>5. ASSUME NEW r \in Runs, Crash(r) PROVE PhaseInv'
      BY <1>5 DEF Crash, Inactive
<1>6. ASSUME NEW r \in Runs, WriteReport(r) PROVE PhaseInv'
  <2>1. /\ pc[r] = "write" /\ written[r] \in 0..3 /\ child[r] = "succeeded"
        /\ UNCHANGED child
        BY <1>6 DEF WriteReport
  <2>2. \/ /\ written' = [written EXCEPT ![r] = written[r] + 1]
           /\ pc' = IF written[r] + 1 = 4 THEN [pc EXCEPT ![r] = "done"] ELSE pc
        \/ UNCHANGED written /\ pc' = [pc EXCEPT ![r] = "refused"]
        BY <1>6 DEF WriteReport
  <2> QED BY <2>1, <2>2
<1>7. ASSUME NEW r \in Runs, ReadSources(r) \/ OpenTarget(r) \/ Finish(r) \/ Exit(r)
      PROVE PhaseInv'
      BY <1>7 DEF ReadSources, OpenTarget, Finish, Exit
<1>8. ASSUME Others \/ UNCHANGED vars PROVE PhaseInv'
      BY <1>8 DEF Others, ChangeSource, ChangeTool, ChangeTarget, ChangeReport, vars
<1> QED BY <1>1, <1>2, <1>3, <1>4, <1>5, <1>6, <1>7, <1>8 DEF Next, Capture, Convert

\* Most steps of a run only take it forward, or end it.
Forward(stages) ==
  /\ UNCHANGED <<hashes, converter>>
  /\ \A q \in Runs : /\ pc'[q] \in stages => pc[q] \in stages
                     /\ Validated(q)' => Validated(q)

Open == {"launch", "running"} \cup After

\* A step of a run that neither hashes sources nor starts nor ends keeps what is recorded of them.
LEMMA Advance ==
  ASSUME IInv, NEW r \in Runs,
         \/ Check(r) \/ InspectTool(r) \/ Returned(r) \/ ReinspectTool(r)
         \/ DescribeTarget(r) \/ HashTarget(r) \/ Crash(r) \/ WriteReport(r)
  PROVE  Forward(Open) /\ UNCHANGED <<source, churn, head, dirty>>
<1> USE DEF IInv, TypeOK, RunTypes, Goto, Refuse, Emitted, Validated, Open, After,
            Forward, files, history
<1>1. CASE Check(r)
      BY <1>1 DEF Check
<1>2. CASE InspectTool(r)
      BY <1>2 DEF InspectTool
<1>3. CASE Returned(r)
      BY <1>3 DEF Returned
<1>4. CASE ReinspectTool(r)
      BY <1>4 DEF ReinspectTool
<1>5. CASE DescribeTarget(r)
      BY <1>5 DEF DescribeTarget
<1>6. CASE HashTarget(r)
      BY <1>6 DEF HashTarget
<1>7. CASE Crash(r)
      BY <1>7 DEF Crash
<1>8. CASE WriteReport(r)
      BY <1>8 DEF WriteReport
<1> QED BY <1>1, <1>2, <1>3, <1>4, <1>5, <1>6, <1>7, <1>8

\* Recorded sources stay current, or somebody changed them.
LEMMA SourceStep == IInv /\ [Next]_vars => SourceInv'
<1> SUFFICES ASSUME IInv, [Next]_vars PROVE SourceInv'
    OBVIOUS
<1> USE DEF IInv, TypeOK, FileTypes, RunTypes, ConverterTypes, HistoryTypes, PhaseInv,
            SourceInv, Goto, Refuse, Emitted, Validated, Before, After, files, run,
            converter, history
<1>0. ASSUME Forward(Open), UNCHANGED <<source, churn>> PROVE SourceInv'
      BY <1>0 DEF Forward, Open
<1>1. ASSUME NEW r \in Runs,
             \/ Check(r) \/ InspectTool(r) \/ Returned(r) \/ ReinspectTool(r)
             \/ DescribeTarget(r) \/ HashTarget(r) \/ Crash(r) \/ WriteReport(r)
      PROVE SourceInv'
  <2>1. Forward(Open) /\ UNCHANGED <<source, churn>>
        BY <1>1, Advance
  <2> QED BY <1>0, <2>1
<1>2. ASSUME NEW r \in Runs, HashSources(r) PROVE SourceInv'
  <2>1. /\ pc[r] = "sources" /\ UNCHANGED <<source, child, used, written>>
        /\ churn' = [churn EXCEPT ![r] = [a \in Roles |-> 0]]
        /\ \/ /\ hashes' = [hashes EXCEPT ![r] = source]
              /\ pc' = [pc EXCEPT ![r] = "launch"]
           \/ UNCHANGED hashes /\ pc' = [pc EXCEPT ![r] = "refused"]
        BY <1>2 DEF HashSources
  <2>2. child[r] = "none" /\ ~(written[r] > 0)
        BY <2>1
  <2> QED BY <2>1, <2>2
<1>3. ASSUME NEW r \in Runs, Launch(r) PROVE SourceInv'
      BY <1>3 DEF Launch
<1>5. ASSUME NEW r \in Runs, Validate(r) PROVE SourceInv'
      BY <1>5 DEF Validate, SourcesMatch
<1>8. ASSUME NEW r \in Runs, ReadSources(r) PROVE SourceInv'
      BY <1>8 DEF ReadSources
<1>9. ASSUME NEW r \in Runs, OpenTarget(r) \/ Finish(r) \/ Exit(r) PROVE SourceInv'
      BY <1>9 DEF OpenTarget, Finish, Exit
<1>10. ASSUME NEW a \in Roles, ChangeSource(a) PROVE SourceInv'
       BY <1>10 DEF ChangeSource
<1>11. ASSUME ChangeTool \/ ChangeTarget \/ (\E k \in Reports : ChangeReport(k))
              \/ UNCHANGED vars
       PROVE SourceInv'
       BY <1>11 DEF ChangeTool, ChangeTarget, ChangeReport, vars
<1> QED BY <1>1, <1>2, <1>3, <1>5, <1>8, <1>9, <1>10, <1>11
        DEF Next, Capture, Convert, Others

\* The recorded tool stays current, or somebody changed it.
LEMMA ToolStep == IInv /\ [Next]_vars => ToolInv'
<1> SUFFICES ASSUME IInv, [Next]_vars PROVE ToolInv'
    OBVIOUS
<1> USE DEF IInv, TypeOK, FileTypes, RunTypes, ConverterTypes, HistoryTypes, PhaseInv,
            ToolInv, Goto, Refuse, Emitted, Validated, Before, After, files, run,
            converter, history
<1>0. /\ ToolIsGood(Checkout) <=> ToolAsExpected
      /\ ToolIsGood(Checkout) <=> ToolStillAsExpected
      BY DEF ToolIsGood, Checkout, ToolAsExpected, ToolStillAsExpected
<1>1. UNCHANGED <<head, dirty>> => Checkout' = Checkout
      BY DEF Checkout
<1> DEFINE Early == {"sources", "launch", "running", "retool"}
           Late == {"inventory", "digest", "validate"}
<1>2. ASSUME UNCHANGED <<head, dirty, toolChurn, converter>>,
             \A q \in Runs : /\ pc'[q] \in Early => pc[q] \in Early
                             /\ pc'[q] \in Late => pc[q] \in Late
                             /\ Validated(q)' => Validated(q) \/ pc[q] \in Late
      PROVE ToolInv'
      BY <1>1, <1>2
<1>3. ASSUME NEW r \in Runs, Check(r) PROVE ToolInv'
      BY <1>2, <1>3 DEF Check
<1>4. ASSUME NEW r \in Runs, InspectTool(r) PROVE ToolInv'
      BY <1>0, <1>1, <1>4 DEF InspectTool
<1>5. ASSUME NEW r \in Runs, HashSources(r) PROVE ToolInv'
      BY <1>2, <1>5 DEF HashSources
<1>6. ASSUME NEW r \in Runs, Launch(r) PROVE ToolInv'
      BY <1>1, <1>6 DEF Launch
<1>7. ASSUME NEW r \in Runs, Returned(r) PROVE ToolInv'
      BY <1>2, <1>7 DEF Returned
<1>8. ASSUME NEW r \in Runs, ReinspectTool(r) PROVE ToolInv'
      BY <1>0, <1>1, <1>8 DEF ReinspectTool
<1>9. ASSUME NEW r \in Runs, DescribeTarget(r) PROVE ToolInv'
      BY <1>2, <1>9 DEF DescribeTarget
<1>10. ASSUME NEW r \in Runs, HashTarget(r) PROVE ToolInv'
       BY <1>2, <1>10 DEF HashTarget
<1>11. ASSUME NEW r \in Runs, Validate(r) PROVE ToolInv'
       BY <1>2, <1>11 DEF Validate
<1>12. ASSUME NEW r \in Runs, WriteReport(r) PROVE ToolInv'
  <2>1. \A q \in Runs : Validated(q)' => Validated(q)
        BY <1>12, Advance DEF Forward
  <2>2. /\ UNCHANGED <<head, dirty, toolChurn, converter>>
        /\ \A q \in Runs : pc'[q] = pc[q] \/ pc'[q] \in {"refused", "done"}
        BY <1>12 DEF WriteReport
  <2> QED BY <1>2, <2>1, <2>2
<1>13. ASSUME NEW r \in Runs, Crash(r) PROVE ToolInv'
       BY <1>2, <1>13 DEF Crash
<1>14. ASSUME NEW r \in Runs, ReadSources(r) PROVE ToolInv'
       BY <1>1, <1>14 DEF ReadSources
<1>15. ASSUME NEW r \in Runs, OpenTarget(r) \/ Finish(r) \/ Exit(r) PROVE ToolInv'
       BY <1>1, <1>15 DEF OpenTarget, Finish, Exit
<1>16. ASSUME ChangeTool PROVE ToolInv'
  <2>1. toolChurn' = [r \in Runs |-> toolChurn[r] + 1] /\ UNCHANGED <<run, converter>>
        BY <1>16 DEF ChangeTool
  <2>2. \A r \in Runs : toolChurn'[r] >= 1 /\ (toolChurn[r] >= 1 => toolChurn'[r] >= 2)
        BY <2>1
  <2> QED BY <2>1, <2>2
<1>17. ASSUME \/ \E a \in Roles : ChangeSource(a)
              \/ ChangeTarget \/ (\E k \in Reports : ChangeReport(k))
              \/ UNCHANGED vars
       PROVE ToolInv'
       BY <1>2, <1>17 DEF ChangeSource, ChangeTarget, ChangeReport, vars
<1> QED BY <1>3, <1>4, <1>5, <1>6, <1>7, <1>8, <1>9, <1>10, <1>11, <1>12, <1>13,
           <1>14, <1>15, <1>16, <1>17
        DEF Next, Capture, Convert, Others

\* Whoever changes the target is noted against every other run.
LEMMA TouchStep ==
  ASSUME IInv, NEW actors, Touch(actors), UNCHANGED run,
         NEW q \in Runs, q \notin actors
  PROVE  TargetOf(q)'
<1> USE DEF IInv, TypeOK, HistoryTypes
<1>1. /\ pc[q] # "idle" /\ ~Validated(q) => "open" \in touched'[q]
      /\ pc[q] # "idle" /\ Validated(q) => "validated" \in touched'[q]
      /\ touched[q] \subseteq touched'[q]
      BY DEF Touch, Phase, Validated
<1>2. TargetOf(q) /\ UNCHANGED <<pc, inventory, digest, written>>
      BY DEF TargetInv, run
<1>3. pc[q] = "idle" => ~Validated(q)
      BY DEF PhaseInv, Validated
<1>4. Validated(q) => pc[q] \notin Before \cup After \cup {"running"}
      BY DEF PhaseInv, Validated, Before, After
<1>5. Validated(q)' <=> Validated(q)
      BY <1>2 DEF Validated, Emitted
<1> QED BY <1>1, <1>2, <1>3, <1>4, <1>5 DEF TargetOf, Before, After

\* The recorded target stays current, or somebody changed it.
LEMMA TargetStep == IInv /\ [Next]_vars => TargetInv'
<1> SUFFICES ASSUME IInv, [Next]_vars PROVE TargetInv'
    OBVIOUS
<1> USE DEF IInv, TypeOK, FileTypes, RunTypes, ConverterTypes, HistoryTypes, PhaseInv,
            TargetInv, TargetOf, Goto, Refuse, Emitted, Validated, Before, After, files, run,
            converter, history
<1>0. ASSUME UNCHANGED <<target, touched, child, inventory, digest>>,
             \A q \in Runs :
               /\ pc'[q] = pc[q] \/ pc'[q] \in {"refused", "crashed", "done"}
                   \/ (pc[q] \in Before /\ pc'[q] \in Before)
                   \/ (pc[q] = "retool" /\ pc'[q] = "inventory")
               /\ Validated(q)' => Validated(q)
      PROVE TargetInv'
      BY <1>0
<1>1. ASSUME NEW r \in Runs,
             InspectTool(r) \/ ReinspectTool(r) \/ Crash(r) \/ WriteReport(r)
      PROVE TargetInv'
  <2>1. \A q \in Runs : Validated(q)' => Validated(q)
        BY <1>1, Advance DEF Forward
  <2>2. UNCHANGED <<target, touched, child, inventory, digest>>
        BY <1>1 DEF InspectTool, ReinspectTool, Crash, WriteReport
  <2>3. \A q \in Runs : \/ pc'[q] = pc[q] \/ pc'[q] \in {"refused", "crashed", "done"}
                        \/ (pc[q] \in Before /\ pc'[q] \in Before)
                        \/ (pc[q] = "retool" /\ pc'[q] = "inventory")
        BY <1>1 DEF InspectTool, ReinspectTool, Crash, WriteReport
  <2> QED BY <1>0, <2>1, <2>2, <2>3
<1>2. ASSUME NEW r \in Runs, HashSources(r) PROVE TargetInv'
      BY <1>0, <1>2 DEF HashSources
<1>3. ASSUME NEW r \in Runs, Check(r) PROVE TargetInv'
      BY <1>3 DEF Check, OutputsAbsent
<1>4. ASSUME NEW r \in Runs, Launch(r) PROVE TargetInv'
      BY <1>4 DEF Launch
<1>5. ASSUME NEW r \in Runs, Returned(r) PROVE TargetInv'
  <2>1. None \notin Regular
        BY ValuesAssumption DEF Regular
  <2> QED BY <1>5, <2>1 DEF Returned, Succeeded
<1>6. ASSUME NEW r \in Runs, DescribeTarget(r) PROVE TargetInv'
      BY <1>6 DEF DescribeTarget
<1>7. ASSUME NEW r \in Runs, HashTarget(r) PROVE TargetInv'
      BY <1>7 DEF HashTarget
<1>8. ASSUME NEW r \in Runs, Validate(r) PROVE TargetInv'
      BY <1>8 DEF Validate, TargetMatches
<1>9. ASSUME NEW r \in Runs, ReadSources(r) \/ Exit(r) PROVE TargetInv'
      BY <1>9 DEF ReadSources, Exit
<1>10. ASSUME NEW r \in Runs, OpenTarget(r) PROVE TargetInv'
  <2>1. Touch({r}) /\ UNCHANGED run
        BY <1>10 DEF OpenTarget
  <2>2. /\ target' = IF target = Link THEN Link ELSE Partial(r)
        /\ child[r] = "converting" /\ child' = [child EXCEPT ![r] = "writing"]
        BY <1>10 DEF OpenTarget, Partial
  <2>3. touched'[r] = touched[r]
        BY <2>1 DEF Touch
  <2>4. None # Link
        BY ValuesAssumption
  <2>5. TargetOf(r)'
        BY <2>1, <2>2, <2>3, <2>4
  <2>6. \A q \in Runs \ {r} : TargetOf(q)'
        BY <2>1, TouchStep
  <2> QED BY <2>5, <2>6 DEF TargetInv
<1>11. ASSUME NEW r \in Runs, Finish(r) PROVE TargetInv'
  <2>1. Touch({r}) /\ UNCHANGED run
        BY <1>11 DEF Finish
  <2>2. /\ target' = IF target = Partial(r) THEN Whole(r) ELSE target
        /\ child[r] = "writing" /\ child' = [child EXCEPT ![r] = "succeeded"]
        BY <1>11 DEF Finish, Partial, Whole
  <2>3. touched'[r] = touched[r]
        BY <2>1 DEF Touch
  <2>5. TargetOf(r)'
        BY <2>1, <2>2, <2>3
  <2>6. \A q \in Runs \ {r} : TargetOf(q)'
        BY <2>1, TouchStep
  <2> QED BY <2>5, <2>6 DEF TargetInv
<1>12. ASSUME ChangeTarget PROVE TargetInv'
  <2>1. Touch({}) /\ UNCHANGED <<run, converter>>
        BY <1>12 DEF ChangeTarget
  <2>2. \A q \in Runs : TargetOf(q)'
        BY <2>1, TouchStep
  <2> QED BY <2>2 DEF TargetInv
<1>13. ASSUME \/ \E a \in Roles : ChangeSource(a)
              \/ ChangeTool \/ (\E k \in Reports : ChangeReport(k))
              \/ UNCHANGED vars
       PROVE TargetInv'
       BY <1>0, <1>13 DEF ChangeSource, ChangeTool, ChangeReport, vars
<1> QED BY <1>1, <1>2, <1>3, <1>4, <1>5, <1>6, <1>7, <1>8, <1>9, <1>10, <1>11, <1>12,
           <1>13
        DEF Next, Capture, Convert, Others

\* Reports stay those of the run that wrote them.
LEMMA ReportStep == IInv /\ [Next]_vars => ReportInv'
<1> SUFFICES ASSUME IInv, [Next]_vars, overlapped' = FALSE PROVE ReportInv'
    BY HistoryTypesStep DEF ReportInv, HistoryTypes, IInv, TypeOK
<1> USE DEF IInv, TypeOK, FileTypes, RunTypes, HistoryTypes, ReportInv,
            ReportsAreOfOneRun, Inactive, Goto, Refuse, files, run, history
<1>1. ASSUME UNCHANGED <<out, overlapped>>,
             \A q \in Runs : pc'[q] \notin Inactive => pc[q] \notin Inactive
      PROVE ReportInv'
      BY <1>1
<1>2. ASSUME NEW r \in Runs, Check(r) PROVE ReportInv'
  <2>1. (\A q \in Runs : pc[q] \in Inactive) /\ UNCHANGED <<out, overlapped>>
        BY <1>2 DEF Check
  <2>2. CASE OutputsAbsent
    <3>1. \A k \in Reports : out'[k] \notin Runs
          BY <2>1, <2>2, ValuesAssumption DEF OutputsAbsent
    <3>2. pc' = [pc EXCEPT ![r] = "tool"]
          BY <1>2, <2>2 DEF Check
    <3> QED BY <2>1, <3>1, <3>2
  <2>3. CASE ~OutputsAbsent
        BY <1>1, <1>2, <2>1, <2>3 DEF Check
  <2> QED BY <2>2, <2>3
<1>3. ASSUME NEW r \in Runs,
             InspectTool(r) \/ HashSources(r) \/ Launch(r) \/ Returned(r) \/ ReinspectTool(r)
      PROVE ReportInv'
  <2>1. /\ UNCHANGED <<out, overlapped>> /\ pc[r] \notin Inactive
        /\ \A q \in Runs \ {r} : pc'[q] = pc[q]
        BY <1>3 DEF InspectTool, HashSources, Launch, Returned, ReinspectTool
  <2> QED BY <1>1, <2>1
<1>4. ASSUME NEW r \in Runs,
             DescribeTarget(r) \/ HashTarget(r) \/ Validate(r) \/ Crash(r)
      PROVE ReportInv'
  <2>1. /\ UNCHANGED <<out, overlapped>> /\ pc[r] \notin Inactive
        /\ \A q \in Runs \ {r} : pc'[q] = pc[q]
        BY <1>4 DEF DescribeTarget, HashTarget, Validate, Crash
  <2> QED BY <1>1, <2>1
<1>5. ASSUME NEW r \in Runs, WriteReport(r) PROVE ReportInv'
  <2>1. /\ pc[r] \notin Inactive /\ UNCHANGED overlapped
        /\ \A q \in Runs \ {r} : pc'[q] = pc[q]
        /\ \A k \in Reports : out'[k] = out[k] \/ out'[k] = r
        BY <1>5 DEF WriteReport
  <2>2. overlapped = FALSE /\ \A k \in Reports : out[k] \in Runs => out[k] = r
        BY <2>1
  <2>3. \A k \in Reports : out'[k] \in Runs => out'[k] = r
        BY <2>1, <2>2
  <2> QED BY <2>1, <2>2, <2>3
<1>6. ASSUME NEW k \in Reports, ChangeReport(k) PROVE ReportInv'
  <2>1. PICK f \in {None, Link, Other} : out' = [out EXCEPT ![k] = f]
        BY <1>6 DEF ChangeReport
  <2>2. f \notin Runs /\ UNCHANGED <<pc, overlapped>>
        BY <1>6, <2>1, ValuesAssumption DEF ChangeReport
  <2> QED BY <2>1, <2>2
<1>7. ASSUME \/ \E r \in Runs : Convert(r)
             \/ (\E a \in Roles : ChangeSource(a)) \/ ChangeTool \/ ChangeTarget
             \/ UNCHANGED vars
      PROVE ReportInv'
  <2>1. UNCHANGED <<out, overlapped, pc>>
        BY <1>7 DEF Convert, ReadSources, OpenTarget, Finish, Exit, ChangeSource,
           ChangeTool, ChangeTarget, vars
  <2> QED BY <1>1, <2>1
<1> QED BY <1>2, <1>3, <1>4, <1>5, <1>6, <1>7 DEF Next, Capture, Others

-----------------------------------------------------------------------------
(* The theorems.                                                           *)

\* Every step keeps the invariant.
LEMMA Step == IInv /\ [Next]_vars => IInv'
BY TypeStep, PhaseStep, SourceStep, ToolStep, TargetStep, ReportStep
   DEF IInv

\* The invariant holds always.
LEMMA Invariance == Spec => []IInv
BY InitIInv, Step, PTL DEF Spec

\* Every variable keeps its type.
THEOREM TypeCorrect == Spec => []TypeOK
<1>1. IInv => TypeOK
      BY DEF IInv
<1> QED BY Invariance, <1>1, PTL

\* Emitted source digests and tool revision are those of what the converter
\* read and ran, unless an artifact or the checkout was changed twice.
THEOREM InputsAreTheRecordedHolds == Spec => []InputsAreTheRecorded
<1>1. IInv => SourcesAreTheConverted
      BY DEF IInv, SourceInv, Validated, SourcesAreTheConverted
<1>2. IInv => ToolIsTheRecorded
      BY DEF IInv, ToolInv, Validated, ToolIsGood, ToolIsTheRecorded
<1>3. IInv => InputsAreTheRecorded
      BY <1>1, <1>2 DEF InputsAreTheRecorded
<1> QED BY Invariance, <1>3, PTL

\* The published target is the whole target of the run's own converter, unless
\* somebody else changed it before validation.
THEOREM TargetIsTheConvertedHolds == Spec => []TargetIsTheConverted
<1>1. IInv => TargetIsTheConverted
      BY DEF IInv, TargetInv, TargetOf, PhaseInv, Validated, Whole, TargetIsTheConverted
<1> QED BY Invariance, <1>1, PTL

\* The published digest is that of the target which stands there, unless it was
\* changed after validation.
THEOREM DigestIsCurrentHolds == Spec => []DigestIsCurrent
<1>1. IInv => DigestIsCurrent
      BY DEF IInv, TargetInv, TargetOf, Validated, DigestIsCurrent
<1> QED BY Invariance, <1>1, PTL

\* The recorded target is both: made by the run and standing there.
THEOREM TargetIsTheRecordedHolds == Spec => []TargetIsTheRecorded
BY TargetIsTheConvertedHolds, DigestIsCurrentHolds, PTL DEF TargetIsTheRecorded

\* Runs that do not overlap never leave a mixed set of reports.
THEOREM ReportsAreOfOneRunHolds == Spec => []ReportsAreOfOneRun
<1>1. IInv => ReportsAreOfOneRun
      BY DEF IInv, ReportInv, ReportsAreOfOneRun
<1> QED BY Invariance, <1>1, PTL
=============================================================================
