---------------------------- MODULE AuditBundle ----------------------------
(***************************************************************************)
(* Directory-form audit bundles (omiv.continuous_trust.bundles): a history *)
(* is packed for a past cutoff into a manifest, materialize_bundle writes  *)
(* the members and then the manifest, verify_bundle_directory walks the    *)
(* directory and judges what it finds.  Making and verifying are sequences *)
(* of file operations of processes that may be killed, while others may    *)
(* change the sources and the finished directory.                          *)
(*                                                                         *)
(* A file's contents are abstracted to what a digest comparison tells      *)
(* apart: "declared" (the bytes the manifest names), "other", "partial"    *)
(* (truncated and not written yet), "notice" (the README text) or "link"   *)
(* (a symbolic link to a copy of the declared bytes).  misdescribed are    *)
(* the members whose bytes have the declared digest but not the declared   *)
(* schema or identity, which build_bundle_manifest does not look at.  The  *)
(* order of members and of directory listings is left open.  File names    *)
(* are portable and no two fold to one.                                    *)
(***************************************************************************)
EXTENDS TrustTimeline

CONSTANTS MemberPaths,     \* paths that may be members
          Schema,          \* [MemberPaths -> schema identifiers]
          Manifest, Readme, Temporary, Stray,
                           \* manifest.json, README.md, the temporary file of
                           \* an atomic write, a path no manifest declares
          Directories, DirectoryOf,  \* [Paths -> Directories]
          Makers,          \* processes that materialize the bundle
          Plans,           \* bundles that may be asked for
          MaxMembers,      \* MAX_BUNDLE_MEMBERS
          Edits,           \* changes others may make, a path and its contents
          MaxEdits,        \* bound: how many they make
          NoBundle

Paths == MemberPaths \cup {Manifest, Readme, Temporary, Stray}
Contents == {"absent", "declared", "other", "partial", "notice", "link"}
Required == {"snapshot", "timeline", "policy-set"}
BundlePurposes == {"RELEASE", "REGULATORY_EVIDENCE_EXPORT"}
\* "PARTIAL" stands for CONFLICTING, BROKEN and NOT_ASSESSED too.
Completenesses ==
    {"FORKED", "MISSING_PREDECESSOR", "PARTIAL", "COMPLETE_FOR_DECLARED_RANGE"}
Outcomes == {"VERIFIED", "VERIFIED_WITH_LIMITATIONS", "INCOMPLETE", "FAILED", "REFUSED"}
\* claim: the completeness that a timeline written by hand states, which nothing
\* compares with the rest of it, or "BUILT" for a timeline of build_timeline.
Plan == [members : SUBSET MemberPaths, purpose : BundlePurposes, exclusions : BOOLEAN,
         misdescribed : SUBSET MemberPaths, claim : Completenesses \cup {"BUILT"}]

ASSUME BundleAssumption ==
    /\ Schema \in [MemberPaths -> Required \cup {"other"}]
    /\ Manifest \notin {Readme, Temporary, Stray}
    /\ Readme \notin {Temporary, Stray} /\ Temporary # Stray
    /\ {Manifest, Temporary, Stray} \cap MemberPaths = {}
    /\ DirectoryOf \in [Paths -> Directories]
    /\ IsFiniteSet(Paths) /\ IsFiniteSet(Directories)
    /\ Plans \subseteq Plan
    /\ NoBundle \notin Plan
    /\ Edits \subseteq Paths \X Contents
    /\ MaxEdits \in Nat

VARIABLES
    packed,     \* the manifest, or NoBundle
    exists,     \* whether the bundle's root exists
    dir,        \* [Paths -> Contents]: the bundle's directory
    maker,      \* [Makers -> [at, left, open]]: progress of materialize_bundle
    stage,      \* progress of verify_bundle_directory
    unlisted,   \* directories it has not listed
    queue,      \* entries listed and not looked at
    found,      \* files found
    reading,    \* the member about to be read, as a set
    states,     \* timeline_states
    outcome,    \* its result, "none" before
    edits,      \* changes others made to the directory so far
    witnessed,  \* members readable with their declared bytes at some time
                \* since verification began
    quiet       \* whether the directory is still as it was when verification began
walkVars == <<stage, unlisted, queue, found, reading, states, outcome>>
bundleVars == <<packed, exists, dir, maker, walkVars, edits, witnessed, quiet>>
auditVars == <<timelineVars, bundleVars>>

Readable(p) == dir[p] \in {"declared", "link"}
Checking == stage \in {"manifest", "walk", "read"}

\* The history variables follow every change of the directory.
Watch ==
    /\ witnessed' = IF Checking' THEN witnessed \cup {p \in packed'.members : Readable(p)'}
                    ELSE witnessed
    /\ quiet' = (quiet /\ (stage = "start" \/ <<exists, dir>>' = <<exists, dir>>))

AuditInit ==
    /\ TimelineInit
    /\ packed = NoBundle
    /\ exists = FALSE
    /\ dir = [p \in Paths |-> "absent"]
    /\ maker = [k \in Makers |-> [at |-> "start", left |-> {}, open |-> {}]]
    /\ stage = "start"
    /\ unlisted = Directories
    /\ queue = {} /\ found = {} /\ reading = {} /\ states = {}
    /\ outcome = "none"
    /\ edits = 0
    /\ witnessed = {}
    /\ quiet = TRUE

Time == TimelineNext /\ UNCHANGED bundleVars

(***************************************************************************)
(* build_timeline for a cutoff in the past, or a timeline from elsewhere   *)
(* (audit timeline-build accepts any that is well-formed), then            *)
(* build_bundle_manifest.                                                  *)
(***************************************************************************)
Pack(plan, cutoff) ==
    /\ packed = NoBundle
    /\ cutoff < moment
    /\ plan.claim = "BUILT" => ~TimelineRefused(record, cutoff)
    /\ Cardinality(plan.members) <= MaxMembers
    /\ packed' = [members |-> plan.members, purpose |-> plan.purpose,
                  exclusions |-> plan.exclusions, misdescribed |-> plan.misdescribed,
                  cutoff |-> cutoff, built |-> plan.claim = "BUILT",
                  timeline |-> IF plan.claim = "BUILT"
                               THEN BuildTimeline(record, cutoff).completeness
                               ELSE plan.claim]
    /\ UNCHANGED <<timelineVars, exists, dir, maker, walkVars, edits,
                   witnessed, quiet>>

(***************************************************************************)
(* materialize_bundle.  A maker that is killed, or whose write fails,      *)
(* stops where it is and removes nothing; atomic_write_text would remove   *)
(* its temporary file, unless it is killed.                                *)
(***************************************************************************)
Idle(k) == maker[k].at \in {"start", "failed", "done"}
Advance(k, at) == maker' = [maker EXCEPT ![k].at = at]
MakerOnly == UNCHANGED <<timelineVars, packed, walkVars, edits>>

\* Mutant: mkdir(exist_ok=True).
MakeAnyway(k) ==
    /\ packed # NoBundle
    /\ maker[k].at = "start"
    /\ exists' = TRUE
    /\ maker' = [maker EXCEPT ![k] = [at |-> "copy", left |-> packed.members, open |-> {}]]
    /\ UNCHANGED dir /\ MakerOnly /\ Watch

MakeDirectory(k) ==
    /\ packed # NoBundle
    /\ maker[k].at = "start"
    /\ exists' = TRUE
    /\ IF exists THEN Advance(k, "failed")
       ELSE maker' = [maker EXCEPT ![k] = [at |-> "copy", left |-> packed.members,
                                           open |-> {}]]
    /\ UNCHANGED dir /\ MakerOnly /\ Watch

\* The source's bytes, read in one go, are the declared ones, and the target
\* is truncated.  What a source holds when it is read is left open.
OpenMember(k, m) ==
    /\ maker[k].at = "copy"
    /\ maker[k].open = {} /\ m \in maker[k].left
    /\ maker' = [maker EXCEPT ![k].open = {m}]
    /\ dir' = [dir EXCEPT ![m] = "partial"]
    /\ UNCHANGED exists /\ MakerOnly /\ Watch

WriteMember(k, m) ==
    /\ maker[k].at = "copy"
    /\ maker[k].open = {m}
    /\ maker' = [maker EXCEPT ![k].open = {}, ![k].left = @ \ {m}]
    /\ dir' = [dir EXCEPT ![m] = "declared"]
    /\ UNCHANGED exists /\ MakerOnly /\ Watch

\* A source that is missing, a link, or not the declared bytes.
RefuseSource(k) ==
    /\ maker[k].at = "copy"
    /\ maker[k].open = {} /\ maker[k].left # {}
    /\ Advance(k, "failed")
    /\ UNCHANGED <<exists, dir>> /\ MakerOnly /\ Watch

\* atomic_write_text of manifest.json and then of README.md: a temporary
\* file, which then replaces the target.
Stage(k) ==
    /\ \/ maker[k].at = "copy" /\ maker[k].left = {} /\ Advance(k, "manifest")
       \/ maker[k].at = "notice" /\ Advance(k, "readme")
    /\ dir' = [dir EXCEPT ![Temporary] = "partial"]
    /\ UNCHANGED exists /\ MakerOnly /\ Watch

PublishManifest(k) ==
    /\ maker[k].at = "manifest"
    /\ Advance(k, "notice")
    /\ dir' = [dir EXCEPT ![Temporary] = "absent", ![Manifest] = "declared"]
    /\ UNCHANGED exists /\ MakerOnly /\ Watch

PublishReadme(k) ==
    /\ maker[k].at = "readme"
    /\ Advance(k, "done")
    /\ dir' = [dir EXCEPT ![Temporary] = "absent", ![Readme] = "notice"]
    /\ UNCHANGED exists /\ MakerOnly /\ Watch

Kill(k) ==
    /\ ~Idle(k)
    /\ Advance(k, "failed")
    /\ UNCHANGED <<exists, dir>> /\ MakerOnly /\ Watch

(***************************************************************************)
(* Others change a finished directory, while nobody makes one.             *)
(***************************************************************************)
Edit(p, contents) ==
    /\ edits < MaxEdits
    /\ \A k \in Makers : Idle(k)
    /\ \E k \in Makers : maker[k].at = "done"
    /\ dir[p] # contents
    /\ dir' = [dir EXCEPT ![p] = contents]
    /\ edits' = edits + 1
    /\ UNCHANGED <<timelineVars, packed, exists, maker, walkVars>>
    /\ Watch

(***************************************************************************)
(* build_completeness and build_verification.                              *)
(***************************************************************************)
Judged(timelines) ==
    LET short == \/ ~(timelines \subseteq {"COMPLETE_FOR_DECLARED_RANGE"})
                 \/ ~(Required \subseteq {Schema[m] : m \in packed.members})
                 \/ packed.purpose = "REGULATORY_EVIDENCE_EXPORT"
    IN  CASE "FORKED" \in timelines             -> "FAILED"
          [] "FORKED" \notin timelines /\ short -> "INCOMPLETE"
          [] OTHER -> IF packed.exclusions THEN "VERIFIED_WITH_LIMITATIONS" ELSE "VERIFIED"

(***************************************************************************)
(* verify_bundle_directory: the manifest, then one directory listing after *)
(* the other, each entry looked at and read when its turn comes.           *)
(***************************************************************************)
Allowed == packed.members \cup {Manifest, Readme}
VerifierOnly == UNCHANGED <<timelineVars, packed, exists, dir, maker, edits>>
Stop(result) ==
    /\ stage' = "done" /\ outcome' = result
    /\ UNCHANGED <<unlisted, queue, found, reading, states>>

BeginVerification ==
    /\ packed # NoBundle
    /\ stage = "start"
    /\ IF exists
       THEN stage' = "manifest" /\ UNCHANGED <<unlisted, queue, found, reading, states, outcome>>
       ELSE Stop("REFUSED")
    /\ VerifierOnly /\ Watch

ReadManifest ==
    /\ stage = "manifest"
    /\ IF dir[Manifest] = "declared"
       THEN stage' = "walk" /\ UNCHANGED <<unlisted, queue, found, reading, states, outcome>>
       ELSE Stop("REFUSED")
    /\ VerifierOnly /\ Watch

ListDirectory(d) ==
    /\ stage = "walk" /\ queue = {}
    /\ d \in unlisted
    /\ unlisted' = unlisted \ {d}
    /\ queue' = {p \in Paths : DirectoryOf[p] = d /\ dir[p] # "absent"}
    /\ UNCHANGED <<stage, found, reading, states, outcome>>
    /\ VerifierOnly /\ Watch

\* Gone since it was listed, a link, or not declared: refused.
Look(p) ==
    /\ stage = "walk"
    /\ p \in queue
    /\ IF dir[p] \in {"absent", "link"} \/ p \notin Allowed THEN Stop("REFUSED")
       ELSE /\ queue' = queue \ {p}
            /\ found' = found \cup {p}
            /\ IF p \in packed.members THEN stage' = "read" /\ reading' = {p}
               ELSE UNCHANGED <<stage, reading>>
            /\ UNCHANGED <<unlisted, states, outcome>>
    /\ VerifierOnly /\ Watch

\* Mutant: the bytes are parsed but not compared with the declared digest.
ReadLoosely(p) ==
    /\ stage = "read" /\ reading = {p}
    /\ IF dir[p] = "absent" THEN Stop("REFUSED")
       ELSE /\ stage' = "walk" /\ reading' = {}
            /\ states' = states \cup IF Schema[p] = "timeline" THEN {packed.timeline} ELSE {}
            /\ UNCHANGED <<unlisted, queue, found, outcome>>
    /\ VerifierOnly /\ Watch

\* The bytes as they are now, through whatever stands at the path now.
ReadMember(p) ==
    /\ stage = "read" /\ reading = {p}
    /\ IF ~Readable(p) \/ p \in packed.misdescribed THEN Stop("REFUSED")
       ELSE /\ stage' = "walk" /\ reading' = {}
            /\ states' = states \cup IF Schema[p] = "timeline" THEN {packed.timeline} ELSE {}
            /\ UNCHANGED <<unlisted, queue, found, outcome>>
    /\ VerifierOnly /\ Watch

Conclude ==
    /\ stage = "walk" /\ queue = {} /\ unlisted = {}
    /\ Stop(IF packed.members \subseteq found THEN Judged(states) ELSE "REFUSED")
    /\ VerifierOnly /\ Watch

\* _audit_exit of audit_bundle_verify.
AuditExit == CASE outcome = "VERIFIED" -> 0
          [] outcome = "VERIFIED_WITH_LIMITATIONS" -> 1
          [] OTHER -> 2

Make(k) ==
    \/ MakeDirectory(k) \/ RefuseSource(k) \/ Stage(k) \/ PublishManifest(k) \/ PublishReadme(k) \/ Kill(k)
    \/ \E m \in MemberPaths : OpenMember(k, m) \/ WriteMember(k, m)

Verify ==
    \/ BeginVerification \/ ReadManifest \/ Conclude
    \/ \E d \in Directories : ListDirectory(d)
    \/ \E p \in Paths : Look(p) \/ ReadMember(p)

AuditNext ==
    \/ Time
    \/ \E plan \in Plans, cutoff \in Moments : Pack(plan, cutoff)
    \/ \E k \in Makers : Make(k)
    \/ \E edit \in Edits : Edit(edit[1], edit[2])
    \/ Verify

AuditSpec == AuditInit /\ [][AuditNext]_auditVars

(***************************************************************************)
(* Properties.                                                             *)
(***************************************************************************)
AuditTypeOK ==
    /\ TimelineTypeOK
    /\ packed \in {NoBundle} \cup
         [members : SUBSET MemberPaths, purpose : BundlePurposes, exclusions : BOOLEAN,
          misdescribed : SUBSET MemberPaths, cutoff : Moments, built : BOOLEAN,
          timeline : Completenesses]
    /\ exists \in BOOLEAN
    /\ dir \in [Paths -> Contents]
    /\ maker \in [Makers -> [at : {"start", "copy", "manifest", "notice", "readme",
                                   "done", "failed"},
                             left : SUBSET MemberPaths, open : SUBSET MemberPaths]]
    /\ stage \in {"start", "manifest", "walk", "read", "done"}
    /\ unlisted \subseteq Directories
    /\ queue \subseteq Paths /\ found \subseteq Paths /\ reading \subseteq MemberPaths
    /\ states \subseteq Completenesses
    /\ outcome \in Outcomes \cup {"none"}
    /\ edits \in 0 .. MaxEdits
    /\ witnessed \subseteq MemberPaths
    /\ quiet \in BOOLEAN

Concluded == outcome \in Outcomes \ {"REFUSED"}
Verified == outcome \in {"VERIFIED", "VERIFIED_WITH_LIMITATIONS"}

\* What the directory deserves, looked at in one go.
Present == {p \in Paths : dir[p] # "absent"}
Sound ==
    /\ dir[Manifest] = "declared"
    /\ Present \subseteq Allowed
    /\ \A p \in Present : dir[p] # "link"
    /\ \A m \in packed.members : dir[m] = "declared" /\ m \notin packed.misdescribed
Deserved ==
    IF ~Sound THEN "REFUSED"
    ELSE Judged(IF "timeline" \in {Schema[m] : m \in packed.members} THEN {packed.timeline}
                ELSE {})

\* Whatever happens in the directory while verify_bundle_directory walks it,
\* every member of a bundle it does not refuse held the declared bytes at a
\* moment since it began, though perhaps no two of them at the same moment;
\* and where nothing happened the verdict is what the directory deserves.
VerdictIsOfTheDirectory ==
    /\ Concluded => packed.members \subseteq witnessed
    /\ stage = "done" /\ quiet => outcome = Deserved

\* The manifest comes last: a directory nobody else touched that has a
\* manifest has every member whole, however often and wherever makers were
\* killed; and what a maker finished verifies, except where README.md, which
\* it overwrites, is itself a member or the manifest misdescribes a member.
ManifestComesLast ==
    edits = 0 =>
      /\ dir[Manifest] # "absent" =>
           \A m \in packed.members \ {Readme} : dir[m] = "declared"
      /\ (\E k \in Makers : maker[k].at = "done") =>
           (Sound <=> Readme \notin packed.members
                      /\ packed.members \cap packed.misdescribed = {})

\* From end to end, where the timeline packed is one that build_timeline made
\* and was not changed since: exit 0 or 1 is given only to a bundle whose
\* history, as far as it was known at the cutoff, has no fork and leaves no
\* number of the declared range open, also after more evidence has arrived.
\* Any other timeline is taken at its word: verify_bundle_directory reads the
\* completeness that the member states.
VerifiedHistoryIsWhole ==
    Verified /\ packed.built =>
      LET known == KnownAt(record, packed.cutoff) IN
      /\ Forks(known) = {}
      /\ \A n \in RangeStart .. RangeEnd : \E e \in known : Sequence[e] = n

\* "A purpose-complete bundle can retain a partial or forked timeline": a bundle
\* that would be verified without what its timeline states is verified with it.
TimelineIsSeparate ==
    Concluded /\ Judged({}) \in {"VERIFIED", "VERIFIED_WITH_LIMITATIONS"} => Verified
=============================================================================
