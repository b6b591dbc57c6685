------------------------- MODULE ConversionCapture -------------------------
(***************************************************************************)
(* omiv.provenance.capture.run_conversion: runs of one conversion spec     *)
(* that check the output paths, inspect the tool repository, hash the      *)
(* source artifacts, start the converter, describe and hash its target,    *)
(* validate the provenance and write four reports.  The converters, other  *)
(* programs and crashes interleave with every step; a run that was killed  *)
(* or refused is followed by another one, and two may overlap.             *)
(*                                                                         *)
(* An artifact is its version: digests have no collision here.  Reads of   *)
(* several files in a row are one step, since a change of one of them      *)
(* between the reads could as well come before or after all of them.       *)
(***************************************************************************)
EXTENDS Naturals

CONSTANTS
  Runs,
  Roles,         \* spec.source.artifact_roles
  Versions,      \* contents of a source artifact
  Commits,       \* of the tool repository
  Expected,      \* spec.tool.expected_revision
  RequireClean,  \* spec.tool.require_clean_worktree
  Consistent,    \* inventory, model pack, mapping and invocation agree
  MaxChanges,    \* bound on what other programs change
  None,          \* no file
  Link,          \* a symbolic link
  Other          \* a file that no run wrote

Reports == 1..4     \* target inventory, provenance, report_json, report_markdown

ASSUME SpecAssumption ==
  /\ Expected \in Commits
  /\ RequireClean \in BOOLEAN /\ Consistent \in BOOLEAN
  /\ MaxChanges \in Nat
Targets == [by : Runs, state : {"partial", "whole"}]   \* made by a converter
Regular == Targets \cup {Other}
ASSUME ValuesAssumption ==
  /\ None \notin Versions
  /\ {None, Link, Other} \cap (Runs \cup Targets) = {}
  /\ None \notin {Link, Other}

VARIABLES
  source,      \* [Roles -> content of the artifact]
  head, dirty, \* the tool repository
  target,      \* what stands at spec.target.output
  out,         \* [Reports -> what stands there, the run that wrote it]
  pc,
  hashes,      \* [Runs -> source_artifacts]
  inventory,   \* [Runs -> the target that was described]
  digest,      \* [Runs -> the target that was hashed]
  written,     \* [Runs -> how many reports were written]
  child,       \* the converter a run started
  used,        \* [Runs -> the source artifacts the converter read]
  usedTool,    \* [Runs -> the checkout the converter ran from]
  \* history
  churn,       \* [Runs -> [Roles -> changes since the artifact was hashed]]
  toolChurn,   \* [Runs -> changes of the repository since it was inspected]
  touched,     \* [Runs -> in which phases somebody else changed the target]
  overlapped,  \* two runs were active at once
  changes

files == <<source, head, dirty, target, out>>
run == <<pc, hashes, inventory, digest, written>>
converter == <<child, used, usedTool>>
history == <<churn, toolChurn, touched, overlapped, changes>>
vars == <<files, run, converter, history>>

Inactive == {"idle", "refused", "crashed", "done"}
Checkout == [head |-> head, dirty |-> dirty]

Init ==
  /\ source \in [Roles -> Versions]
  /\ head \in Commits /\ dirty \in BOOLEAN
  /\ target \in {None, Other}
  /\ out \in [Reports -> {None, Other}]
  /\ pc = [r \in Runs |-> "idle"]
  /\ hashes = [r \in Runs |-> source]
  /\ inventory = [r \in Runs |-> None]
  /\ digest = [r \in Runs |-> None]
  /\ written = [r \in Runs |-> 0]
  /\ child = [r \in Runs |-> "none"]
  /\ used = [r \in Runs |-> source]
  /\ usedTool = [r \in Runs |-> Checkout]
  /\ churn = [r \in Runs |-> [a \in Roles |-> 0]]
  /\ toolChurn = [r \in Runs |-> 0]
  /\ touched = [r \in Runs |-> {}]
  /\ overlapped = FALSE
  /\ changes = 0

Emitted(r) == written[r] > 0
Phase(r) == IF pc[r] = "write" \/ Emitted(r) THEN "validated" ELSE "open"

-----------------------------------------------------------------------------
(* run_conversion                                                          *)

Goto(r, step) == pc' = [pc EXCEPT ![r] = step]
Refuse(r) == Goto(r, "refused")          \* OmivInputError, ConversionRunFailed

OutputsAbsent == target = None /\ \A k \in Reports : out[k] = None

\* Mutant: a run picks up the reports of one that was killed while writing.
Resume(r) ==
  /\ pc[r] = "idle"
  /\ IF OutputsAbsent THEN Goto(r, "tool")
     ELSE IF out[1] # None THEN Goto(r, "write") ELSE Refuse(r)
  /\ overlapped' = IF \E q \in Runs : pc[q] \notin Inactive THEN TRUE ELSE overlapped
  /\ UNCHANGED <<files, hashes, inventory, digest, written, converter, churn,
                 toolChurn, touched, changes>>

\* load_conversion_spec and _validate_paths.
Check(r) ==
  /\ pc[r] = "idle"
  /\ IF OutputsAbsent THEN Goto(r, "tool") ELSE Refuse(r)
  /\ overlapped' = IF \E q \in Runs : pc[q] \notin Inactive THEN TRUE ELSE overlapped
  /\ UNCHANGED <<files, hashes, inventory, digest, written, converter, churn,
                 toolChurn, touched, changes>>

\* rev-parse HEAD and status --porcelain.
ToolAsExpected == head = Expected /\ (RequireClean => ~dirty)

InspectTool(r) ==
  /\ pc[r] = "tool"
  /\ IF ToolAsExpected THEN Goto(r, "sources") ELSE Refuse(r)
  /\ toolChurn' = [toolChurn EXCEPT ![r] = 0]
  /\ UNCHANGED <<files, hashes, inventory, digest, written, converter, churn,
                 touched, overlapped, changes>>

HashSources(r) ==
  /\ pc[r] = "sources"
  /\ IF \A a \in Roles : source[a] # None
       THEN /\ hashes' = [hashes EXCEPT ![r] = source]
            /\ Goto(r, "launch")
       ELSE UNCHANGED hashes /\ Refuse(r)
  /\ churn' = [churn EXCEPT ![r] = [a \in Roles |-> 0]]
  /\ UNCHANGED <<files, inventory, digest, written, converter, toolChurn,
                 touched, overlapped, changes>>

Launch(r) ==
  /\ pc[r] = "launch"
  /\ child' = [child EXCEPT ![r] = "reading"]
  /\ Goto(r, "running")
  /\ UNCHANGED <<files, hashes, inventory, digest, written, used, usedTool,
                 history>>

Succeeded(r) == child[r] = "succeeded"

\* The return code, and target.output.is_file() without a link.
Returned(r) ==
  /\ pc[r] = "running" /\ child[r] \in {"succeeded", "failed"}
  /\ IF Succeeded(r) /\ target \in Regular
       THEN Goto(r, "retool") ELSE Refuse(r)
  /\ UNCHANGED <<files, hashes, inventory, digest, written, converter, history>>

ToolStillAsExpected == head = Expected /\ (RequireClean => ~dirty)

ReinspectTool(r) ==
  /\ pc[r] = "retool"
  /\ IF ToolStillAsExpected THEN Goto(r, "inventory") ELSE Refuse(r)
  /\ UNCHANGED <<files, hashes, inventory, digest, written, converter, history>>

\* generate_target_inventory, which a target that is not whole may fail.
DescribeTarget(r) ==
  /\ pc[r] = "inventory"
  /\ \/ /\ target # None
        /\ inventory' = [inventory EXCEPT ![r] = target]
        /\ Goto(r, "digest")
     \/ UNCHANGED inventory /\ Refuse(r)
  /\ UNCHANGED <<files, hashes, digest, written, converter, history>>

TargetExists == target # None

HashTarget(r) ==
  /\ pc[r] = "digest"
  /\ IF TargetExists
       THEN digest' = [digest EXCEPT ![r] = target] /\ Goto(r, "validate")
       ELSE UNCHANGED digest /\ Refuse(r)
  /\ UNCHANGED <<files, hashes, inventory, written, converter, history>>

\* Mutant: PROV-002 compares the digests with themselves.
TrustHashes(r) == TRUE
SourcesMatch(r) == \A a \in Roles : source[a] = hashes[r][a]

\* Mutant: PROV-009 compares the digest with itself.
TrustDigest(r) == TRUE
TargetMatches(r) == target = digest[r]

\* validate_provenance: PROV-002 and PROV-009 hash the files again; the other
\* rules compare documents that do not change during the run.
Validate(r) ==
  /\ pc[r] = "validate"
  /\ IF SourcesMatch(r) /\ TargetMatches(r) /\ Consistent
       THEN Goto(r, "write") ELSE Refuse(r)
  /\ UNCHANGED <<files, hashes, inventory, digest, written, converter, history>>

\* atomic_write_text, one report after the other: it refuses a link, replaces
\* a file, and may fail.
WriteReport(r) ==
  /\ pc[r] = "write"
  /\ LET k == written[r] + 1 IN
       \/ /\ out[k] # Link
          /\ out' = [out EXCEPT ![k] = r]
          /\ written' = [written EXCEPT ![r] = k]
          /\ IF k = 4 THEN Goto(r, "done") ELSE UNCHANGED pc
       \/ Refuse(r) /\ UNCHANGED <<out, written>>
  /\ UNCHANGED <<source, head, dirty, target, hashes, inventory, digest,
                 converter, history>>

Crash(r) ==
  /\ pc[r] \notin Inactive
  /\ Goto(r, "crashed")
  /\ UNCHANGED <<files, hashes, inventory, digest, written, converter, history>>

-----------------------------------------------------------------------------
(* The converter: it outlives a run that is killed.                        *)

\* Everybody else's target is changed.
Touch(actors) ==
  touched' = [r \in Runs |-> IF r \in actors \/ pc[r] = "idle" THEN touched[r]
                             ELSE touched[r] \cup {Phase(r)}]

ReadSources(r) ==
  /\ child[r] = "reading"
  /\ \A a \in Roles : source[a] # None
  /\ used' = [used EXCEPT ![r] = source]
  /\ usedTool' = [usedTool EXCEPT ![r] = Checkout]
  /\ child' = [child EXCEPT ![r] = "converting"]
  /\ UNCHANGED <<files, run, history>>

\* It creates or truncates the target; through a link it writes elsewhere.
OpenTarget(r) ==
  /\ child[r] = "converting"
  /\ target' = IF target = Link THEN Link ELSE [by |-> r, state |-> "partial"]
  /\ child' = [child EXCEPT ![r] = "writing"]
  /\ Touch({r})
  /\ UNCHANGED <<source, head, dirty, out, run, used, usedTool, churn,
                 toolChurn, overlapped, changes>>

\* The target may have been replaced meanwhile.
Finish(r) ==
  /\ child[r] = "writing"
  /\ target' = IF target = [by |-> r, state |-> "partial"]
                 THEN [by |-> r, state |-> "whole"] ELSE target
  /\ child' = [child EXCEPT ![r] = "succeeded"]
  /\ Touch({r})
  /\ UNCHANGED <<source, head, dirty, out, run, used, usedTool, churn,
                 toolChurn, overlapped, changes>>

\* It fails and leaves a partial target, or succeeds without writing one.
Exit(r) ==
  /\ \/ child[r] \in {"reading", "converting", "writing"}
        /\ child' = [child EXCEPT ![r] = "failed"]
     \/ child[r] = "converting" /\ child' = [child EXCEPT ![r] = "succeeded"]
  /\ UNCHANGED <<files, run, used, usedTool, history>>

-----------------------------------------------------------------------------
(* Other programs.                                                         *)

Change == changes < MaxChanges /\ changes' = changes + 1

ChangeSource(a) ==
  /\ Change
  /\ \E v \in (Versions \cup {None}) \ {source[a]} : source' = [source EXCEPT ![a] = v]
  /\ churn' = [r \in Runs |-> [churn[r] EXCEPT ![a] = @ + 1]]
  /\ UNCHANGED <<head, dirty, target, out, run, converter, toolChurn, touched,
                 overlapped>>

ChangeTool ==
  /\ Change
  /\ head' \in Commits /\ dirty' \in BOOLEAN
  /\ <<head', dirty'>> # <<head, dirty>>
  /\ toolChurn' = [r \in Runs |-> toolChurn[r] + 1]
  /\ UNCHANGED <<source, target, out, run, converter, churn, touched, overlapped>>

ChangeTarget ==
  /\ Change
  /\ target' \in {None, Link, Other} \ {target}
  /\ Touch({})
  /\ UNCHANGED <<source, head, dirty, out, run, converter, churn, toolChurn,
                 overlapped>>

ChangeReport(k) ==
  /\ Change
  /\ \E f \in {None, Link, Other} \ {out[k]} : out' = [out EXCEPT ![k] = f]
  /\ UNCHANGED <<source, head, dirty, target, run, converter, churn, toolChurn,
                 touched, overlapped>>

-----------------------------------------------------------------------------
Capture(r) ==
  \/ Check(r) \/ InspectTool(r) \/ HashSources(r) \/ Launch(r) \/ Returned(r)
  \/ ReinspectTool(r) \/ DescribeTarget(r) \/ HashTarget(r) \/ Validate(r)
  \/ WriteReport(r) \/ Crash(r)

Convert(r) == ReadSources(r) \/ OpenTarget(r) \/ Finish(r) \/ Exit(r)

Others ==
  \/ \E a \in Roles : ChangeSource(a)
  \/ \E k \in Reports : ChangeReport(k)
  \/ ChangeTool
  \/ ChangeTarget

Next ==
  \/ \E r \in Runs : Capture(r)
  \/ \E r \in Runs : Convert(r)
  \/ Others

Spec == Init /\ [][Next]_vars

-----------------------------------------------------------------------------
(* Properties.                                                             *)

Steps == Inactive \cup {"tool", "sources", "launch", "running", "retool",
                        "inventory", "digest", "validate", "write"}
Standing == {None, Link, Other}

FileTypes ==
  /\ source \in [Roles -> Versions \cup {None}]
  /\ head \in Commits /\ dirty \in BOOLEAN
  /\ target \in Standing \cup Targets
  /\ out \in [Reports -> Standing \cup Runs]
RunTypes ==
  /\ pc \in [Runs -> Steps]
  /\ hashes \in [Runs -> [Roles -> Versions]]
  /\ inventory \in [Runs -> Standing \cup Targets]
  /\ digest \in [Runs -> Standing \cup Targets]
  /\ \A r \in Runs : pc[r] \in {"validate", "write", "done"} => digest[r] # None
  /\ written \in [Runs -> 0..4]
ConverterTypes ==
  /\ child \in [Runs -> {"none", "reading", "converting", "writing",
                         "succeeded", "failed"}]
  /\ used \in [Runs -> [Roles -> Versions]]
  /\ usedTool \in [Runs -> [head : Commits, dirty : BOOLEAN]]
HistoryTypes ==
  /\ churn \in [Runs -> [Roles -> Nat]]
  /\ toolChurn \in [Runs -> Nat]
  /\ touched \in [Runs -> SUBSET {"open", "validated"}]
  /\ overlapped \in BOOLEAN
  /\ changes \in 0..MaxChanges

\* The variables stay within their types, and a run that validates has hashed
\* a target.
TypeOK == FileTypes /\ RunTypes /\ ConverterTypes /\ HistoryTypes

\* "Establishes which source artifacts": the digests in emitted provenance are
\* those of the bytes the converter read, unless an artifact was changed and
\* changed back during the run.
SourcesAreTheConverted ==
  \A r \in Runs : Emitted(r) =>
    \A a \in Roles : used[r][a] = hashes[r][a] \/ churn[r][a] >= 2

\* Emitted provenance names the revision that ran, with a clean worktree where
\* that is required, unless the checkout was changed twice during the run.
ToolIsTheRecorded ==
  \A r \in Runs : Emitted(r) =>
    \/ usedTool[r].head = Expected /\ (RequireClean => ~usedTool[r].dirty)
    \/ toolChurn[r] >= 2

\* What emitted provenance says went into the conversion is what went into it.
InputsAreTheRecorded == SourcesAreTheConverted /\ ToolIsTheRecorded

\* Unless somebody else changed it before validation, the target that was
\* described and hashed is the whole target of this run's successful converter:
\* also when the converter of a killed run still writes, and never that of a
\* failed one.
TargetIsTheConverted ==
  \A r \in Runs : Emitted(r) /\ "open" \notin touched[r] =>
    /\ digest[r] = [by |-> r, state |-> "whole"] /\ inventory[r] = digest[r]
    /\ child[r] = "succeeded"

\* Emitted provenance has the digest of the target that stands there, unless
\* somebody changed that after the validation.
DigestIsCurrent ==
  \A r \in Runs : Emitted(r) /\ "validated" \notin touched[r] =>
    digest[r] = target

\* The target that emitted provenance records, by inventory and by digest, is
\* the one that its run made and the one that stands there.
TargetIsTheRecorded == TargetIsTheConverted /\ DigestIsCurrent

\* Runs that do not overlap never leave a mixed set of reports, whatever was
\* killed between two reports and whatever was removed before the next run.
ReportsAreOfOneRun ==
  ~overlapped => \A j, k \in Reports :
                   out[j] \in Runs /\ out[k] \in Runs => out[j] = out[k]
=============================================================================
