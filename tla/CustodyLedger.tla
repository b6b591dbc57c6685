--------------------------- MODULE CustodyLedger ---------------------------
(***************************************************************************)
(* omiv.custody and omiv.attestations: ledgers of hash-linked custody      *)
(* events kept in files.  `custody create` writes the evidence-derived     *)
(* segment; `custody append` and `attestation append-custody` verify one   *)
(* ledger file and write another with one more event (`custody verify` is  *)
(* their first half).  Commands run concurrently on shared files while the *)
(* documents that events refer to appear and disappear.                    *)
(*                                                                         *)
(* Digests have no collision: an event's digest is the list of claims up   *)
(* to and with its own, and a document is its own digest.                  *)
(***************************************************************************)
EXTENDS Naturals, Sequences, FiniteSets

CONSTANTS
  Files, Runs,
  Artifacts,            \* identity digests of artifacts
  Subject,              \* the artifact the Model Passport describes
  Passport, Validation, \* the passport and inventory the ledger refers to
  Profiles,             \* the --profile of `custody create`
  Attestations, Content,\* attestations, and what each of them says
  Unknown,              \* a document that is none of those
  DeclaredEvents,       \* event inputs a user passes to `custody append`
  MaxEvents,            \* bound on the length of a ledger
  MaxMissing,           \* bound on the documents missing at a time
  None                  \* no ledger, no job

Documents == {Passport, Validation, Unknown} \cup Attestations
Transforming == {"TRANSFORMATION_RECORDED", "QUANTIZATION_RECORDED"}
Reserved == {"REVOCATION_RECORDED_RESERVED", "EXPIRATION_RECORDED_RESERVED"}
EventTypes == Transforming \cup Reserved \cup
  {"ARTIFACT_ACQUISITION_RECORDED", "STRUCTURAL_VALIDATION_COMPLETED",
   "PASSPORT_ISSUED"}
Origins == {"DERIVED_FROM_VERIFIED_EVIDENCE", "SYSTEM_OBSERVED",
            "USER_DECLARED", "IMPORTED_ATTESTATION"}
References == [role : {"model_passport", "validation_inventory",
                       "artifact_attestation", "other"},
               mode : {"full_verification", "digest_only_verification",
                       "unverifiable_reference"},
               digest : Documents]
EventInputs == [type : EventTypes, subject : Artifacts,
                inputs : Seq(Artifacts), outputs : Seq(Artifacts),
                origin : Origins, evidence : SUBSET References]
Kinds == {"ACQUISITION", "TRANSFER", "TRANSFORMATION", "QUANTIZATION"}
Statements == [kind : Kinds, subject : Artifacts,
               inputs : Seq(Artifacts), outputs : Seq(Artifacts),
               origin : Origins \cup {"VERIFIED_EXECUTION_RECORD"},
               linkage : {"FULLY_VERIFIED", "PARTIAL"},
               observed : BOOLEAN,               \* by an included observation
               bytes : {"SAME", "UNKNOWN"},      \* content or set digests
               boundary : {"ENTERED", "SAME"}]   \* of custody, evidenced

ASSUME SubjectAssumption == Subject \in Artifacts
ASSUME ContentAssumption ==
  /\ Content \in [Attestations -> Statements]
  /\ \A a \in Attestations : Content[a].inputs # <<>> /\ Content[a].outputs # <<>>
ASSUME UnknownAssumption == Unknown \notin {Passport, Validation} \cup Attestations
ASSUME DeclaredAssumption == DeclaredEvents \subseteq EventInputs

Digests == Seq(EventInputs)
Events == [claim : EventInputs, sequence : Nat, parent : Digests]

\* selected_profile stands for itself and for what assemble_ledger derives
\* from it and the events: missing_event_analysis, lifecycle and status.
Ledgers == [events : Seq(Events), profile : Profiles,
            linkage : {"VERIFIED", "PARTIAL"},
            continuity : {"CONSISTENT", "DIVERGED"}]
ASSUME NoneAssumption == None \notin Ledgers

VARIABLES
  ledger,   \* [Files -> the ledger in it]
  present,  \* the documents that are in place
  pc, job,  \* [Runs -> where the command is, what it was asked]
  held      \* [Runs -> the ledger the command holds]

vars == <<ledger, present, pc, job, held>>
-----------------------------------------------------------------------------
(* Events and the ledger (custody.builder, custody.models) *)

\* Mutant: the digest does not cover the parent.
ClaimDigest(event) == <<event.claim>>

Digest(event) == Append(event.parent, event.claim)
Last(s) == s[Len(s)]

DerivedEvent(type, role, document) ==
  [type |-> type, subject |-> Subject, inputs |-> <<>>, outputs |-> <<>>,
   origin |-> "DERIVED_FROM_VERIFIED_EVIDENCE",
   evidence |-> {[role |-> role, mode |-> "full_verification", digest |-> document]}]

\* two of the six events, one for each kind of evidence
EvidenceEventInputs ==
  <<DerivedEvent("STRUCTURAL_VALIDATION_COMPLETED", "validation_inventory", Validation),
    DerivedEvent("PASSPORT_ISSUED", "model_passport", Passport)>>

BuildEvent(input, sequence, parent) ==
  [claim |-> input, sequence |-> sequence, parent |-> parent]

AssembleLedger(events, profile, linkage) ==
  [events |-> events, profile |-> profile, linkage |-> linkage,
   continuity |-> "CONSISTENT"]

EvidenceSegment ==
  LET genesis == BuildEvent(EvidenceEventInputs[1], 0, <<>>)
  IN  <<genesis, BuildEvent(EvidenceEventInputs[2], 1, Digest(genesis))>>

EvidenceLedger(profile) == AssembleLedger(EvidenceSegment, profile, "VERIFIED")

\* CustodyLedger.linear_structure
Linear(events) ==
  /\ events # <<>> /\ events[1].parent = <<>>
  /\ \A i \in 1..Len(events) : events[i].sequence = i - 1
  /\ \A i \in 2..Len(events) : events[i].parent = Digest(events[i-1])
-----------------------------------------------------------------------------
(* Appending (custody.append) *)

Full(e) == \A r \in e.evidence : r.mode = "full_verification"
Transforms(e) == e.type \in Transforming

\* Mutant: the subject after a transformation is still its input.
StaleSubject(events) == Last(events).claim.subject

CurrentSubject(events) ==
  LET last == Last(events).claim
  IN  IF Transforms(last) /\ Len(last.outputs) = 1 THEN last.outputs[1]
      ELSE last.subject

\* Mutant: whatever origin the user writes down.
AnyOrigin(e, command) == e.origin \in Origins

OriginAllowed(e, command) ==
  command = "append" => e.origin = "USER_DECLARED"

Duplicate(l, e) == \E i \in 1..Len(l.events) : l.events[i].claim = e

Continues(l, e) ==
  LET current == CurrentSubject(l.events)
  IN  /\ e.subject = current
      /\ Transforms(e) => /\ Len(e.inputs) = 1 /\ Len(e.outputs) = 1
                          /\ e.inputs[1] = current

NewLinkage(l, e) ==
  IF e.evidence # {} /\ Full(e) THEN l.linkage ELSE "PARTIAL"

Appendable(l, e, command) ==
  /\ OriginAllowed(e, command)
  /\ e.type \notin Reserved
  /\ ~Duplicate(l, e)
  /\ Continues(l, e)

AppendEvent(l, e) ==
  AssembleLedger(Append(l.events, BuildEvent(e, Len(l.events), Digest(Last(l.events)))),
                 l.profile, NewLinkage(l, e))
-----------------------------------------------------------------------------
(* Attestations (attestations.builder, attestations.custody) *)

Continuity(s) ==
  CASE s.kind = "TRANSFER" ->
         IF s.inputs = s.outputs THEN "VALID" ELSE "DIVERGED"
    [] s.kind = "ACQUISITION" ->
         IF Len(s.inputs) # 1 \/ Len(s.outputs) # 1 THEN "INVALID"
         ELSE IF s.bytes = "SAME" THEN "VALID" ELSE "INCOMPLETE"
    [] OTHER ->
         IF \/ s.subject # s.outputs[1]
            \/ \E i \in 1..Len(s.inputs) : s.inputs[i] = s.subject
         THEN "DIVERGED" ELSE "VALID"

OriginEvidenced(s) ==
  /\ s.origin \in {"DERIVED_FROM_VERIFIED_EVIDENCE", "VERIFIED_EXECUTION_RECORD"}
       => s.linkage = "FULLY_VERIFIED"
  /\ s.origin = "SYSTEM_OBSERVED" => s.observed

\* verify_attestation: the attestation can be built again
Builds(s) == Continuity(s) \in {"VALID", "INCOMPLETE"} /\ OriginEvidenced(s)

Eligible(s) ==
  /\ Continuity(s) = "VALID"
  /\ s.kind = "TRANSFER" => s.boundary = "ENTERED" /\ s.linkage = "FULLY_VERIFIED"

IsTransform(s) == s.kind \in {"TRANSFORMATION", "QUANTIZATION"}

EventType(s) ==
  CASE s.kind = "TRANSFORMATION" -> "TRANSFORMATION_RECORDED"
    [] s.kind = "QUANTIZATION" -> "QUANTIZATION_RECORDED"
    [] OTHER -> "ARTIFACT_ACQUISITION_RECORDED"

AttestationEvent(a) ==
  LET s == Content[a]
  IN  [type |-> EventType(s),
       subject |-> IF IsTransform(s) THEN s.inputs[1] ELSE s.subject,
       inputs |-> IF IsTransform(s) THEN s.inputs ELSE <<>>,
       outputs |-> IF IsTransform(s) THEN s.outputs ELSE <<>>,
       origin |-> IF s.origin = "VERIFIED_EXECUTION_RECORD"
                  THEN "DERIVED_FROM_VERIFIED_EVIDENCE" ELSE s.origin,
       evidence |-> {[role |-> "artifact_attestation",
                      mode |-> "full_verification", digest |-> a]}]
-----------------------------------------------------------------------------
(* Verifying (custody.verification) *)

\* The subject after an event that continued the one before it: the code's
\* running `current`, which its loop has just compared with the event's.
Successor(e) == IF Transforms(e) THEN e.outputs[1] ELSE e.subject

Relates(e) ==
  IF Transforms(e)
  THEN /\ Len(e.inputs) = 1 /\ Len(e.outputs) = 1
       /\ e.inputs[1] = e.subject
       /\ e.outputs[1] # e.subject
  ELSE /\ \A i \in 1..Len(e.inputs) : e.inputs[i] = e.subject
       /\ e.outputs = <<>>

SubjectContinuity(events) ==
  IF /\ events[1].claim.subject = Subject
     /\ \A i \in 1..Len(events) : Relates(events[i].claim)
     /\ \A i \in 2..Len(events) :
          events[i].claim.subject = Successor(events[i-1].claim)
  THEN "CONSISTENT" ELSE "DIVERGED"

\* load_custody_ledger
Loads(l) == Linear(l.events) /\ l.continuity = SubjectContinuity(l.events)

ReferenceHolds(r, documents) ==
  CASE r.role = "model_passport" -> r.digest = Passport
    [] r.role = "validation_inventory" -> r.digest = Validation
    [] r.role = "artifact_attestation" ->
         r.digest \in Attestations \cap documents /\ Builds(Content[r.digest])
    [] OTHER -> r.mode # "full_verification"

EvidenceLinkage(events) ==
  IF \A i \in 1..Len(events) : events[i].claim.evidence # {} /\ Full(events[i].claim)
  THEN "VERIFIED" ELSE "PARTIAL"

\* verify_custody_ledger, after the ledger was loaded
EvidenceHolds(l, documents) ==
  LET n == Len(EvidenceSegment)
  IN  /\ {Passport, Validation} \subseteq documents
      /\ \A i \in 1..Len(l.events) :
           LET e == l.events[i].claim
           IN  /\ e.origin = "DERIVED_FROM_VERIFIED_EVIDENCE" => e.evidence # {}
               /\ \A r \in e.evidence : ReferenceHolds(r, documents)
      /\ l.linkage = EvidenceLinkage(l.events)
      /\ Len(l.events) >= n /\ SubSeq(l.events, 1, n) = EvidenceSegment
      /\ Len(l.events) = n => l = EvidenceLedger(l.profile)
-----------------------------------------------------------------------------
Commands == {"create", "append", "append_attestation"}
Jobs == [command : Commands, source : Files, output : Files]

Init ==
  /\ ledger = [f \in Files |-> None]
  /\ present = Documents \ {Unknown}
  /\ pc = [r \in Runs |-> "idle"]
  /\ job = [r \in Runs |-> None]
  /\ held = [r \in Runs |-> None]

Goto(r, to) == pc' = [pc EXCEPT ![r] = to]
Hold(r, l) == held' = [held EXCEPT ![r] = l]

\* The command ends.
End(r) ==
  /\ Goto(r, "idle") /\ Hold(r, None)
  /\ job' = [job EXCEPT ![r] = None]

Proceed(r, to, l) == Goto(r, to) /\ Hold(r, l) /\ UNCHANGED job

\* Appending refuses to overwrite its source; the others name one file.
Start(r) ==
  /\ pc[r] = "idle"
  /\ \E j \in Jobs :
       /\ j.command = "create" <=> j.source = j.output
       /\ job' = [job EXCEPT ![r] = j]
       /\ Goto(r, IF j.command = "create" THEN "create" ELSE "load")
  /\ UNCHANGED <<ledger, present, held>>

Create(r) ==
  /\ pc[r] = "create"
  /\ IF {Passport, Validation} \subseteq present
     THEN \E q \in Profiles : Proceed(r, "write", EvidenceLedger(q))
     ELSE End(r)
  /\ UNCHANGED <<ledger, present>>

Load(r) ==
  LET l == ledger[job[r].source]
  IN  /\ pc[r] = "load"
      /\ IF l # None /\ Loads(l)
         THEN Proceed(r, "evidence", l)
         ELSE End(r)
      /\ UNCHANGED <<ledger, present>>

CheckEvidence(r) ==
  /\ pc[r] = "evidence"
  /\ IF EvidenceHolds(held[r], present)
     THEN Proceed(r, "event", held[r])
     ELSE End(r)
  /\ UNCHANGED <<ledger, present>>

AppendOrEnd(r, e) ==
  IF Appendable(held[r], e, job[r].command)
  THEN Proceed(r, "write", AppendEvent(held[r], e))
  ELSE End(r)

AppendDeclared(r) ==
  /\ pc[r] = "event" /\ job[r].command = "append"
  /\ Len(held[r].events) < MaxEvents
  /\ \E e \in DeclaredEvents : AppendOrEnd(r, e)
  /\ UNCHANGED <<ledger, present>>

AppendAttestation(r) ==
  /\ pc[r] = "event" /\ job[r].command = "append_attestation"
  /\ Len(held[r].events) < MaxEvents
  /\ \E a \in Attestations :
       IF a \in present /\ Builds(Content[a]) /\ Eligible(Content[a])
       THEN AppendOrEnd(r, AttestationEvent(a))
       ELSE End(r)
  /\ UNCHANGED <<ledger, present>>

\* The event or the attestation cannot be read, or the process is killed.
Abandon(r) ==
  /\ pc[r] \in {"event", "write"}
  /\ End(r)
  /\ UNCHANGED <<ledger, present>>

\* atomic_write_text
Write(r) ==
  /\ pc[r] = "write"
  /\ ledger' = [ledger EXCEPT ![job[r].output] = held[r]]
  /\ End(r)
  /\ UNCHANGED present

\* A document is removed, or put back as it was.
MoveDocument ==
  /\ \E d \in Documents \ {Unknown} :
       present' = IF d \in present THEN present \ {d} ELSE present \cup {d}
  /\ Cardinality(Documents \ ({Unknown} \cup present')) <= MaxMissing
  /\ UNCHANGED <<ledger, pc, job, held>>

Next ==
  \/ \E r \in Runs :
       \/ Start(r) \/ Create(r) \/ Load(r) \/ CheckEvidence(r)
       \/ AppendDeclared(r) \/ AppendAttestation(r) \/ Abandon(r) \/ Write(r)
  \/ MoveDocument

Spec == Init /\ [][Next]_vars
-----------------------------------------------------------------------------
(* Properties *)

Steps == {"idle", "create", "load", "evidence", "event", "write"}
Holding == {"evidence", "event", "write"}

\* Types; a command that is under way knows its job, and the ledger it is
\* going to extend or to write.
TypeOK ==
  /\ ledger \in [Files -> Ledgers \cup {None}]
  /\ present \subseteq Documents
  /\ pc \in [Runs -> Steps]
  /\ job \in [Runs -> Jobs \cup {None}]
  /\ held \in [Runs -> Ledgers \cup {None}]
  /\ \A r \in Runs : /\ pc[r] # "idle" => job[r] \in Jobs
                     /\ pc[r] \in Holding => held[r] \in Ledgers

Stored == {ledger[f] : f \in Files} \ {None}

\* The digest of the latest event commits to the history: whatever commands
\* wrote them, from whatever copies, two files with the same latest event
\* digest differ at most in the profile (and what is derived from it), which
\* no event digest covers.
HeadCommitsToHistory ==
  \A l, m \in Stored :
    Digest(Last(l.events)) = Digest(Last(m.events))
      => l = [m EXCEPT !.profile = l.profile]

\* No ledger says the same thing twice, although each append only sees the
\* copy it was given.
NoClaimTwice ==
  \A l \in Stored : \A i, j \in 1..Len(l.events) :
    l.events[i].claim = l.events[j].claim => i = j

\* An appended event is more than USER_DECLARED only if it refers to an
\* attestation which can be built again and is eligible and which is itself
\* more than declared; a derived event needs one whose evidence is fully
\* verified, an observed event one that includes the observation.
AuthenticityIsEarned ==
  \A l \in Stored : \A i \in 3..Len(l.events) :
    LET e == l.events[i].claim
    IN  e.origin # "USER_DECLARED" =>
          \E r \in e.evidence :
            /\ r.role = "artifact_attestation" /\ r.digest \in Attestations
            /\ Builds(Content[r.digest]) /\ Eligible(Content[r.digest])
            /\ Content[r.digest].origin # "USER_DECLARED"
            /\ \/ e.origin # "DERIVED_FROM_VERIFIED_EVIDENCE"
               \/ Content[r.digest].linkage = "FULLY_VERIFIED"
            /\ e.origin = "SYSTEM_OBSERVED" => Content[r.digest].observed

\* The evidence linkage that appends carry along, one event at a time, is the
\* one that verification computes from all events at once.
LinkageReconstructs ==
  \A l \in Stored : l.linkage = EvidenceLinkage(l.events)

\* Every document is in place, but for those that never were.
InPlace == Documents \ {Unknown}

\* Nothing `append` neglects is wrong with a declared event.
Sensible(e) == Relates(e) /\ \A r \in e.evidence : ReferenceHolds(r, InPlace)

SensiblyDeclared(events) ==
  \A i \in 3..Len(events) :
    events[i].claim.origin = "USER_DECLARED" => Sensible(events[i].claim)

\* What `append` wrote, `verify` accepts as long as every document the events
\* refer to is in place - unless an event that a user declared transforms an
\* artifact into itself, names outputs although it transforms nothing, or
\* refers to what does not hold; `append` looks at none of that.
AppendedLedgersVerify ==
  \A l \in Stored :
    SensiblyDeclared(l.events) <=> Loads(l) /\ EvidenceHolds(l, InPlace)
=============================================================================
