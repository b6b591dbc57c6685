------------------------ MODULE CustodyLedgerProofs ------------------------
(***************************************************************************)
(* Proofs about CustodyLedger.  Every ledger that is held or stored is     *)
(* Sound: it begins with the evidence segment, every event records all the *)
(* claims before it, no claim occurs twice, the linkage carried along is   *)
(* the recomputed one, and what is more than declared was attested.  The   *)
(* one lemma that matters, AppendSound, says that appending keeps that;    *)
(* the steps of the commands only move sound ledgers around.               *)
(***************************************************************************)
EXTENDS CustodyLedger, SequenceTheorems, TLAPS

Earned(e) ==
  e.origin # "USER_DECLARED" =>
    \E r \in e.evidence :
      /\ r.role = "artifact_attestation" /\ r.digest \in Attestations
      /\ Builds(Content[r.digest]) /\ Eligible(Content[r.digest])
      /\ Content[r.digest].origin # "USER_DECLARED"
      /\ \/ e.origin # "DERIVED_FROM_VERIFIED_EVIDENCE"
         \/ Content[r.digest].linkage = "FULLY_VERIFIED"
      /\ e.origin = "SYSTEM_OBSERVED" => Content[r.digest].observed

\* Every event's parent digest lists the claims before it.
Linked(events) ==
  \A i \in 1..Len(events) :
    /\ events[i].sequence = i - 1
    /\ Len(events[i].parent) = i - 1
    /\ \A j \in 1..Len(events) : j < i => events[i].parent[j] = events[j].claim

Unrepeated(events) ==
  \A i, j \in 1..Len(events) : events[i].claim = events[j].claim => i = j

Sound(l) ==
  /\ l \in Ledgers /\ l.continuity = "CONSISTENT"
  /\ Len(l.events) >= 2
  /\ l.events[1] = EvidenceSegment[1] /\ l.events[2] = EvidenceSegment[2]
  /\ Linked(l.events)
  /\ Unrepeated(l.events)
  /\ l.linkage = EvidenceLinkage(l.events)
  /\ \A i \in 3..Len(l.events) : Earned(l.events[i].claim)

IInv ==
  /\ TypeOK
  /\ \A f \in Files : ledger[f] # None => Sound(ledger[f])
  /\ \A r \in Runs : pc[r] \in Holding => Sound(held[r])
-----------------------------------------------------------------------------
(* Data *)

\* The six generated events, here two, are well-typed.
LEMMA EvidenceTypes ==
  /\ EvidenceEventInputs[1] \in EventInputs
  /\ EvidenceEventInputs[2] \in EventInputs
  /\ EvidenceSegment \in Seq(Events) /\ Len(EvidenceSegment) = 2
<1>1. \A t \in EventTypes, o \in {"validation_inventory", "model_passport"},
         d \in {Passport, Validation} : DerivedEvent(t, o, d) \in EventInputs
  <2> SUFFICES ASSUME NEW t \in EventTypes,
                      NEW o \in {"validation_inventory", "model_passport"},
                      NEW d \in {Passport, Validation}
               PROVE  DerivedEvent(t, o, d) \in EventInputs
    OBVIOUS
  <2>1. [role |-> o, mode |-> "full_verification", digest |-> d] \in References
    BY DEF References, Documents
  <2>2. <<>> \in Seq(Artifacts)
    OBVIOUS
  <2> QED BY <2>1, <2>2, SubjectAssumption DEF DerivedEvent, EventInputs, Origins
<1>2. /\ EvidenceEventInputs[1] \in EventInputs
      /\ EvidenceEventInputs[2] \in EventInputs
  BY <1>1 DEF EvidenceEventInputs, EventTypes
<1> DEFINE genesis == BuildEvent(EvidenceEventInputs[1], 0, <<>>)
           second == BuildEvent(EvidenceEventInputs[2], 1, Digest(genesis))
<1>3. genesis \in Events
  <2>1. <<>> \in Seq(EventInputs)
    OBVIOUS
  <2> QED BY <1>2, <2>1 DEF BuildEvent, Events, Digests
<1>4. Digest(genesis) \in Digests
  <2>1. genesis.parent \in Seq(EventInputs) /\ genesis.claim \in EventInputs
    BY <1>3 DEF Events, Digests
  <2> HIDE DEF genesis
  <2> QED BY <2>1, AppendProperties DEF Digest, Digests
<1>5. second \in Events
  BY <1>2, <1>4 DEF BuildEvent, Events
<1>6. EvidenceSegment = <<genesis, second>>
  BY DEF EvidenceSegment
<1> HIDE DEF genesis, second
<1>7. <<genesis, second>> \in Seq(Events) /\ Len(<<genesis, second>>) = 2
  BY <1>3, <1>5
<1> QED BY <1>2, <1>6, <1>7

\* A digest lists the claims up to and with the event's own.
LEMMA DigestLists ==
  ASSUME NEW events \in Seq(Events), Linked(events), NEW n \in 1..Len(events)
  PROVE  /\ Digest(events[n]) \in Digests
         /\ Len(Digest(events[n])) = n
         /\ \A j \in 1..n : Digest(events[n])[j] = events[j].claim
<1>1. events[n] \in Events
  BY ElementOfSeq
<1>2. events[n].parent \in Seq(EventInputs) /\ events[n].claim \in EventInputs
  BY <1>1 DEF Events, Digests
<1> DEFINE p == events[n].parent
<1>3. Len(p) = n - 1 /\ \A j \in 1..Len(events) : j < n => p[j] = events[j].claim
  BY DEF Linked
<1>4. /\ Append(p, events[n].claim) \in Seq(EventInputs)
      /\ Len(Append(p, events[n].claim)) = Len(p) + 1
      /\ \A j \in 1..Len(p) : Append(p, events[n].claim)[j] = p[j]
      /\ Append(p, events[n].claim)[Len(p) + 1] = events[n].claim
  BY <1>2, AppendProperties
<1>5. n \in Nat /\ Len(events) \in Nat /\ n <= Len(events)
  BY LenProperties
<1> HIDE DEF p
<1>6. Digest(events[n]) = Append(p, events[n].claim)
  BY DEF Digest, p
<1>7. ASSUME NEW j \in 1..n PROVE Append(p, events[n].claim)[j] = events[j].claim
  <2>1. CASE j = n
    BY <2>1, <1>3, <1>4, <1>5
  <2>2. CASE j # n
    <3>1. j \in 1..Len(p) /\ j \in 1..Len(events) /\ j < n
      BY <2>2, <1>3, <1>5
    <3> QED BY <3>1, <1>3, <1>4
  <2> QED BY <2>1, <2>2
<1>8. Len(Append(p, events[n].claim)) = n
  BY <1>3, <1>4, <1>5
<1> QED BY <1>4, <1>6, <1>7, <1>8 DEF Digests

\* A linked list of events with a genesis event passes linear_structure.
LEMMA LinkedIsLinear ==
  ASSUME NEW events \in Seq(Events), Linked(events), Len(events) >= 1
  PROVE  Linear(events)
<1>0. Len(events) \in Nat
  BY LenProperties
<1>1. events # <<>>
  BY <1>0
<1>2. \A i \in 1..Len(events) : events[i] \in Events /\ events[i].parent \in Seq(EventInputs)
  <2> TAKE i \in 1..Len(events)
  <2>1. events[i] \in Events
    BY ElementOfSeq
  <2> QED BY <2>1 DEF Events, Digests
<1>3. events[1].parent = <<>>
  <2>1. 1 \in 1..Len(events) /\ Len(events[1].parent) = 0
    BY <1>0 DEF Linked
  <2> QED BY <1>2, <2>1, EmptySeq
<1>4. ASSUME NEW i \in 2..Len(events) PROVE events[i].parent = Digest(events[i-1])
  <2>1. i \in 1..Len(events) /\ i - 1 \in 1..Len(events)
    BY <1>0
  <2>2. /\ Len(events[i].parent) = i - 1
        /\ \A j \in 1..Len(events) : j < i => events[i].parent[j] = events[j].claim
    BY <2>1 DEF Linked
  <2>3. /\ Digest(events[i-1]) \in Seq(EventInputs) /\ Len(Digest(events[i-1])) = i - 1
        /\ \A j \in 1..(i-1) : Digest(events[i-1])[j] = events[j].claim
    BY <2>1, DigestLists DEF Digests
  <2>4. \A j \in 1..(i-1) : events[i].parent[j] = Digest(events[i-1])[j]
    <3> TAKE j \in 1..(i-1)
    <3>1. j \in 1..Len(events) /\ j < i
      BY <1>0
    <3> QED BY <2>2, <2>3, <3>1
  <2>5. events[i].parent \in Seq(EventInputs)
    BY <1>2, <2>1
  <2> QED BY <2>2, <2>3, <2>4, <2>5, SeqEqual
<1>5. \A i \in 1..Len(events) : events[i].sequence = i - 1
  BY DEF Linked
<1> QED BY <1>1, <1>3, <1>4, <1>5 DEF Linear
-----------------------------------------------------------------------------
(* What the commands do to a ledger *)

\* The ledger derived from evidence is sound.
LEMMA EvidenceSound ==
  ASSUME NEW profile \in Profiles
  PROVE  Sound(EvidenceLedger(profile))
<1> DEFINE events == EvidenceSegment
           g == BuildEvent(EvidenceEventInputs[1], 0, <<>>)
           h == BuildEvent(EvidenceEventInputs[2], 1, Digest(g))
<1>0. EvidenceLedger(profile)
        = [events |-> events, profile |-> profile, linkage |-> "VERIFIED",
           continuity |-> "CONSISTENT"]
  BY DEF EvidenceLedger, AssembleLedger
<1>1. EvidenceLedger(profile) \in Ledgers
  BY <1>0, EvidenceTypes DEF Ledgers
<1>2. events = <<g, h>>
  BY DEF EvidenceSegment
<1>3. g.claim = EvidenceEventInputs[1] /\ g.sequence = 0 /\ g.parent = <<>>
  BY DEF BuildEvent
<1>4. h.claim = EvidenceEventInputs[2] /\ h.sequence = 1 /\ h.parent = Digest(g)
  BY DEF BuildEvent
<1> HIDE DEF g, h
<1>5. Digest(g) = <<EvidenceEventInputs[1]>>
  BY <1>3 DEF Digest
<1>6. EvidenceEventInputs[1] # EvidenceEventInputs[2]
  BY DEF EvidenceEventInputs, DerivedEvent
<1>7. /\ EvidenceEventInputs[1].evidence # {} /\ Full(EvidenceEventInputs[1])
      /\ EvidenceEventInputs[2].evidence # {} /\ Full(EvidenceEventInputs[2])
  <2>1. ASSUME NEW t, NEW o, NEW d
        PROVE  DerivedEvent(t, o, d).evidence # {} /\ Full(DerivedEvent(t, o, d))
    <3>1. DerivedEvent(t, o, d).evidence
            = {[role |-> o, mode |-> "full_verification", digest |-> d]}
      BY DEF DerivedEvent
    <3> QED BY <3>1 DEF Full
  <2> QED BY <2>1 DEF EvidenceEventInputs
<1>8. Len(<<g, h>>) = 2 /\ <<g, h>>[1] = g /\ <<g, h>>[2] = h
  OBVIOUS
<1>9. Linked(<<g, h>>)
  <2>1. /\ <<g, h>>[1].sequence = 0 /\ <<g, h>>[1].parent = <<>>
        /\ <<g, h>>[2].sequence = 1
        /\ <<g, h>>[2].parent = <<(<<g, h>>[1].claim)>>
    BY <1>3, <1>4, <1>5, <1>8
  <2> DEFINE s == <<g, h>>
  <2>2. s[1].sequence = 0 /\ Len(s[1].parent) = 0
    BY <2>1
  <2>3. s[2].sequence = 1 /\ Len(s[2].parent) = 1 /\ s[2].parent[1] = s[1].claim
    <3>1. \A c : Len(<<c>>) = 1 /\ <<c>>[1] = c
      OBVIOUS
    <3>2. s[2].sequence = 1 /\ s[2].parent = <<(s[1].claim)>>
      BY <2>1
    <3> HIDE DEF s
    <3> QED BY <3>1, <3>2
  <2>4. Len(s) = 2
    BY <1>8
  <2> HIDE DEF s
  <2>5. Linked(s)
    <3> SUFFICES ASSUME NEW i \in 1..2
                 PROVE  /\ s[i].sequence = i - 1 /\ Len(s[i].parent) = i - 1
                        /\ \A j \in 1..2 : j < i => s[i].parent[j] = s[j].claim
      BY <2>4 DEF Linked
    <3>1. CASE i = 1
      <4>1. \A j \in 1..2 : ~(j < 1)
        OBVIOUS
      <4> QED BY <2>2, <3>1, <4>1
    <3>2. CASE i = 2
      <4>1. \A j \in 1..2 : j < 2 => j = 1
        OBVIOUS
      <4> QED BY <2>3, <3>2, <4>1
    <3> QED BY <3>1, <3>2
  <2> QED BY <2>5 DEF s
<1>10. Unrepeated(<<g, h>>)
  BY <1>3, <1>4, <1>6, <1>8 DEF Unrepeated
<1>11. EvidenceLinkage(<<g, h>>) = "VERIFIED"
  BY <1>3, <1>4, <1>7, <1>8 DEF EvidenceLinkage
<1> QED BY <1>0, <1>1, <1>2, <1>8, <1>9, <1>10, <1>11 DEF Sound

\* Appending an event that `append` accepts and that is what it claims to be
\* keeps a ledger sound.
LEMMA AppendSound ==
  ASSUME NEW l, Sound(l), NEW e \in EventInputs, Earned(e), ~Duplicate(l, e)
  PROVE  Sound(AppendEvent(l, e))
<1> DEFINE old == l.events
           n == Len(old)
           new == BuildEvent(e, n, Digest(Last(old)))
           events == Append(old, new)
<1>1. /\ old \in Seq(Events) /\ Linked(old) /\ Unrepeated(old) /\ n >= 2
      /\ l.profile \in Profiles
      /\ l.linkage \in {"VERIFIED", "PARTIAL"} /\ l.linkage = EvidenceLinkage(old)
      /\ old[1] = EvidenceSegment[1] /\ old[2] = EvidenceSegment[2]
      /\ \A i \in 3..n : Earned(old[i].claim)
  BY DEF Sound, Ledgers
<1>2. n \in Nat
  BY <1>1, LenProperties
<1>3. /\ Digest(Last(old)) \in Digests /\ Len(Digest(Last(old))) = n
      /\ \A j \in 1..n : Digest(Last(old))[j] = old[j].claim
  <2>1. n \in 1..Len(old)
    BY <1>1, <1>2
  <2> QED BY <1>1, <2>1, DigestLists DEF Last
<1>4. /\ new \in Events /\ new.claim = e /\ new.sequence = n
      /\ new.parent = Digest(Last(old))
  BY <1>2, <1>3 DEF BuildEvent, Events
<1>5. AppendEvent(l, e) =
        [events |-> events, profile |-> l.profile, linkage |-> NewLinkage(l, e),
         continuity |-> "CONSISTENT"]
  BY DEF AppendEvent, AssembleLedger
<1> HIDE DEF new
<1>6. /\ events \in Seq(Events) /\ Len(events) = n + 1
      /\ \A i \in 1..n : events[i] = old[i]
      /\ events[n + 1] = new
  BY <1>1, <1>4, AppendProperties
<1>7. AppendEvent(l, e) \in Ledgers
  BY <1>1, <1>5, <1>6 DEF Ledgers, NewLinkage
<1>8. \A i \in 1..Len(old) : old[i].claim # e
  BY DEF Duplicate
<1> HIDE DEF old, n, events
<1>9. ASSUME NEW i \in 1..(n+1) PROVE i \in 1..n \/ i = n + 1
  BY <1>2
<1>10. Linked(events)
  <2> SUFFICES ASSUME NEW i \in 1..(n+1)
               PROVE  /\ events[i].sequence = i - 1
                      /\ Len(events[i].parent) = i - 1
                      /\ \A j \in 1..(n+1) : j < i => events[i].parent[j] = events[j].claim
    BY <1>6 DEF Linked
  <2>1. CASE i \in 1..n
    <3>1. /\ old[i].sequence = i - 1 /\ Len(old[i].parent) = i - 1
          /\ \A j \in 1..n : j < i => old[i].parent[j] = old[j].claim
      BY <1>1, <2>1 DEF Linked, n
    <3>2. \A j \in 1..(n+1) : j < i => j \in 1..n
      BY <1>2, <2>1
    <3> QED BY <1>6, <2>1, <3>1, <3>2
  <2>2. CASE i = n + 1
    <3>1. \A j \in 1..(n+1) : j < i => j \in 1..n
      BY <1>2, <2>2
    <3>2. n = i - 1
      BY <1>2, <2>2
    <3> QED BY <1>3, <1>4, <1>6, <2>2, <3>1, <3>2
  <2> QED BY <1>9, <2>1, <2>2
<1>11. Unrepeated(events)
  <2> SUFFICES ASSUME NEW i \in 1..(n+1), NEW j \in 1..(n+1),
                      events[i].claim = events[j].claim
               PROVE  i = j
    BY <1>6 DEF Unrepeated
  <2>1. CASE i \in 1..n /\ j \in 1..n
    BY <1>1, <1>6, <2>1 DEF Unrepeated, n
  <2>2. CASE i \in 1..n /\ j = n + 1
    BY <1>4, <1>6, <1>8, <2>2 DEF n
  <2>3. CASE i = n + 1 /\ j \in 1..n
    BY <1>4, <1>6, <1>8, <2>3 DEF n
  <2> QED BY <1>9, <2>1, <2>2, <2>3
<1>12. NewLinkage(l, e) = EvidenceLinkage(events)
  <2>1. (\A i \in 1..(n+1) : events[i].claim.evidence # {} /\ Full(events[i].claim))
          <=> /\ e.evidence # {} /\ Full(e)
              /\ \A i \in 1..n : old[i].claim.evidence # {} /\ Full(old[i].claim)
    <3>1. \A i \in 1..n : i \in 1..(n+1)
      BY <1>2
    <3>2. n + 1 \in 1..(n+1)
      BY <1>2
    <3> QED BY <1>4, <1>6, <1>9, <3>1, <3>2
  <2> QED BY <1>1, <1>6, <2>1 DEF NewLinkage, EvidenceLinkage, n
<1>13. ASSUME NEW i \in 3..(n+1) PROVE Earned(events[i].claim)
  <2>1. i \in 3..n \/ i = n + 1
    BY <1>2
  <2>2. i \in 3..n => i \in 1..n
    BY <1>2
  <2> QED BY <1>1, <1>4, <1>6, <2>1, <2>2
<1>14. events[1] = EvidenceSegment[1] /\ events[2] = EvidenceSegment[2] /\ n + 1 >= 2
  <2>1. 1 \in 1..n /\ 2 \in 1..n
    BY <1>1, <1>2
  <2> QED BY <1>1, <1>2, <1>6, <2>1
<1> QED BY <1>5, <1>6, <1>7, <1>10, <1>11, <1>12, <1>13, <1>14 DEF Sound

\* The event of an eligible attestation earns the origin it claims.
LEMMA AttestationEarned ==
  ASSUME NEW a \in Attestations, Builds(Content[a]), Eligible(Content[a])
  PROVE  AttestationEvent(a) \in EventInputs /\ Earned(AttestationEvent(a))
<1> DEFINE s == Content[a]
           e == AttestationEvent(a)
           r == [role |-> "artifact_attestation", mode |-> "full_verification", digest |-> a]
<1>1. s \in Statements /\ s.inputs # <<>> /\ s.outputs # <<>>
  BY ContentAssumption
<1>2. r \in References
  BY DEF References, Documents
<1>3. s.inputs[1] \in Artifacts
  BY <1>1, LenProperties, EmptySeq, ElementOfSeq DEF Statements
<1>4. EventType(s) \in EventTypes
  BY DEF EventType, EventTypes, Transforming
<1>5. /\ e.origin = IF s.origin = "VERIFIED_EXECUTION_RECORD"
                    THEN "DERIVED_FROM_VERIFIED_EVIDENCE" ELSE s.origin
      /\ e.evidence = {r}
  BY DEF AttestationEvent
<1>6. e \in EventInputs
  <2>1. <<>> \in Seq(Artifacts)
    OBVIOUS
  <2> HIDE DEF s
  <2>2. e = [type |-> EventType(s),
             subject |-> IF IsTransform(s) THEN s.inputs[1] ELSE s.subject,
             inputs |-> IF IsTransform(s) THEN s.inputs ELSE <<>>,
             outputs |-> IF IsTransform(s) THEN s.outputs ELSE <<>>,
             origin |-> IF s.origin = "VERIFIED_EXECUTION_RECORD"
                        THEN "DERIVED_FROM_VERIFIED_EVIDENCE" ELSE s.origin,
             evidence |-> {r}]
    BY DEF AttestationEvent, s
  <2> QED BY <1>1, <1>2, <1>3, <1>4, <2>1, <2>2 DEF EventInputs, Statements, Origins
<1>7. Earned(e)
  <2>1. /\ r.role = "artifact_attestation" /\ r.digest = a
        /\ s.origin \in Origins \cup {"VERIFIED_EXECUTION_RECORD"}
    BY <1>1 DEF Statements
  <2>2. e.origin # "USER_DECLARED" => s.origin # "USER_DECLARED"
    BY <1>5
  <2>3. /\ e.origin = "DERIVED_FROM_VERIFIED_EVIDENCE" => s.linkage = "FULLY_VERIFIED"
        /\ e.origin = "SYSTEM_OBSERVED" => s.observed
    BY <1>5, <2>1 DEF Builds, OriginEvidenced, Origins
  <2> QED BY <1>5, <2>1, <2>2, <2>3 DEF Earned
<1> QED BY <1>6, <1>7

\* What a user may declare claims nothing that has to be earned.
LEMMA AllowedEarned ==
  ASSUME NEW e, OriginAllowed(e, "append")
  PROVE  Earned(e)
BY DEF OriginAllowed, Earned
-----------------------------------------------------------------------------
(* The steps *)

\* No ledger is stored and no command runs at first.
LEMMA InitSound == Init => IInv
<1> SUFFICES ASSUME Init PROVE IInv
  OBVIOUS
<1>1. TypeOK
  BY DEF Init, TypeOK, Steps, Holding, Documents
<1>2. \A f \in Files : ledger[f] = None
  BY DEF Init
<1>3. \A r \in Runs : pc[r] \notin Holding
  BY DEF Init, Holding
<1> QED BY <1>1, <1>2, <1>3 DEF IInv

\* A command that goes on with a sound ledger, or with none.
LEMMA ProceedSound ==
  ASSUME IInv, NEW r \in Runs, NEW to \in Steps, NEW l \in Ledgers \cup {None},
         pc[r] # "idle", Proceed(r, to, l), UNCHANGED <<ledger, present>>,
         to \in Holding => Sound(l)
  PROVE  IInv'
<1> USE DEF IInv
<1>1. /\ pc' = [pc EXCEPT ![r] = to] /\ held' = [held EXCEPT ![r] = l]
      /\ job' = job /\ ledger' = ledger /\ present' = present
  BY DEF Proceed, Goto, Hold
<1>2. TypeOK /\ job[r] \in Jobs
  BY DEF TypeOK
<1>3. \A q \in Runs : q # r => pc'[q] = pc[q] /\ held'[q] = held[q]
  BY <1>1
<1>4. pc'[r] = to /\ held'[r] = l
  BY <1>1, <1>2 DEF TypeOK
<1>5. to \in Holding => l \in Ledgers
  BY DEF Sound
<1>6. TypeOK'
  BY <1>1, <1>2, <1>3, <1>4, <1>5 DEF TypeOK
<1>7. \A q \in Runs : pc'[q] \in Holding => Sound(held'[q])
  BY <1>3, <1>4
<1>8. \A f \in Files : ledger'[f] # None => Sound(ledger'[f])
  BY <1>1
<1> QED BY <1>6, <1>7, <1>8

\* A command that ends.
LEMMA EndSound ==
  ASSUME IInv, NEW r \in Runs, End(r), UNCHANGED <<ledger, present>>
  PROVE  IInv'
<1> USE DEF IInv
<1>1. /\ pc' = [pc EXCEPT ![r] = "idle"] /\ held' = [held EXCEPT ![r] = None]
      /\ job' = [job EXCEPT ![r] = None] /\ ledger' = ledger /\ present' = present
  BY DEF End, Goto, Hold
<1>2. TypeOK
  OBVIOUS
<1>3. \A q \in Runs : q # r => /\ pc'[q] = pc[q] /\ held'[q] = held[q]
                               /\ job'[q] = job[q]
  BY <1>1
<1>4. pc'[r] = "idle" /\ "idle" \in Steps \ Holding
  BY <1>1, <1>2 DEF TypeOK, Steps, Holding
<1>5. TypeOK'
  BY <1>1, <1>2, <1>3, <1>4 DEF TypeOK
<1>6. \A q \in Runs : pc'[q] \in Holding => Sound(held'[q])
  BY <1>3, <1>4
<1> QED BY <1>1, <1>5, <1>6

\* A command that appends an event with an earned origin, or refuses it, keeps the invariant.
LEMMA AppendOrEndSound ==
  ASSUME IInv, NEW r \in Runs, pc[r] = "event", NEW e \in EventInputs,
         OriginAllowed(e, job[r].command) => Earned(e),
         AppendOrEnd(r, e), UNCHANGED <<ledger, present>>
  PROVE  IInv'
<1>1. CASE Appendable(held[r], e, job[r].command)
  <2>1. Sound(held[r])
    BY DEF IInv, Holding
  <2>2. Sound(AppendEvent(held[r], e))
    BY <1>1, <2>1, AppendSound DEF Appendable
  <2>3. AppendEvent(held[r], e) \in Ledgers
    BY <2>2 DEF Sound
  <2>4. Proceed(r, "write", AppendEvent(held[r], e))
    BY <1>1 DEF AppendOrEnd
  <2> QED BY <2>2, <2>3, <2>4, ProceedSound DEF Steps
<1>2. CASE ~Appendable(held[r], e, job[r].command)
  BY <1>2, EndSound DEF AppendOrEnd
<1> QED BY <1>1, <1>2

\* Every step keeps the invariant.
LEMMA NextSound == IInv /\ [Next]_vars => IInv'
<1> SUFFICES ASSUME IInv, [Next]_vars PROVE IInv'
  OBVIOUS
<1>0. TypeOK
  BY DEF IInv
<1>1. ASSUME NEW r \in Runs, Start(r) PROVE IInv'
  <2>1. PICK j \in Jobs : /\ job' = [job EXCEPT ![r] = j]
                          /\ Goto(r, IF j.command = "create" THEN "create" ELSE "load")
    BY <1>1 DEF Start
  <2>2. /\ pc' = [pc EXCEPT ![r] = pc'[r]] /\ pc'[r] \in Steps \ Holding
        /\ UNCHANGED <<ledger, present, held>> /\ job'[r] = j
    BY <1>0, <1>1, <2>1 DEF Start, Goto, TypeOK, Steps, Holding
  <2>3. \A q \in Runs : q # r => pc'[q] = pc[q] /\ job'[q] = job[q]
    BY <1>0, <2>1, <2>2 DEF TypeOK
  <2>4. TypeOK'
    BY <1>0, <2>1, <2>2, <2>3 DEF TypeOK
  <2>5. \A q \in Runs : pc'[q] \in Holding => Sound(held'[q])
    BY <2>2, <2>3 DEF IInv
  <2> QED BY <2>2, <2>4, <2>5 DEF IInv
<1>2. ASSUME NEW r \in Runs, Create(r) PROVE IInv'
  <2>1. CASE {Passport, Validation} \subseteq present
    <3>1. PICK q \in Profiles : Proceed(r, "write", EvidenceLedger(q))
      BY <1>2, <2>1 DEF Create
    <3>2. Sound(EvidenceLedger(q)) /\ EvidenceLedger(q) \in Ledgers
      BY EvidenceSound DEF Sound
    <3>3. pc[r] # "idle" /\ UNCHANGED <<ledger, present>>
      BY <1>2 DEF Create
    <3> QED BY <3>1, <3>2, <3>3, ProceedSound DEF Steps
  <2>2. CASE ~({Passport, Validation} \subseteq present)
    BY <1>2, <2>2, EndSound DEF Create
  <2> QED BY <2>1, <2>2
<1>3. ASSUME NEW r \in Runs, Load(r) PROVE IInv'
  <2> DEFINE l == ledger[job[r].source]
  <2>1. job[r].source \in Files /\ l \in Ledgers \cup {None}
    BY <1>0, <1>3 DEF Load, TypeOK, Jobs
  <2>2. CASE l # None /\ Loads(l)
    BY <1>3, <2>1, <2>2, ProceedSound DEF Load, IInv, Steps
  <2>3. CASE ~(l # None /\ Loads(l))
    BY <1>3, <2>3, EndSound DEF Load
  <2> QED BY <2>2, <2>3
<1>4. ASSUME NEW r \in Runs, CheckEvidence(r) PROVE IInv'
  <2>1. Sound(held[r]) /\ held[r] \in Ledgers
    BY <1>4 DEF CheckEvidence, IInv, Holding, Sound
  <2>2. CASE EvidenceHolds(held[r], present)
    BY <1>4, <2>1, <2>2, ProceedSound DEF CheckEvidence, Steps
  <2>3. CASE ~EvidenceHolds(held[r], present)
    BY <1>4, <2>3, EndSound DEF CheckEvidence
  <2> QED BY <2>2, <2>3
<1>5. ASSUME NEW r \in Runs, AppendDeclared(r) PROVE IInv'
  <2>1. PICK e \in DeclaredEvents : AppendOrEnd(r, e)
    BY <1>5 DEF AppendDeclared
  <2>2. e \in EventInputs
    BY DeclaredAssumption
  <2>3. pc[r] = "event" /\ job[r].command = "append" /\ UNCHANGED <<ledger, present>>
    BY <1>5 DEF AppendDeclared
  <2> QED BY <2>1, <2>2, <2>3, AllowedEarned, AppendOrEndSound
<1>6. ASSUME NEW r \in Runs, AppendAttestation(r) PROVE IInv'
  <2>1. pc[r] = "event" /\ UNCHANGED <<ledger, present>>
    BY <1>6 DEF AppendAttestation
  <2>2. PICK a \in Attestations :
          IF a \in present /\ Builds(Content[a]) /\ Eligible(Content[a])
          THEN AppendOrEnd(r, AttestationEvent(a))
          ELSE End(r)
    BY <1>6 DEF AppendAttestation
  <2>3. CASE a \in present /\ Builds(Content[a]) /\ Eligible(Content[a])
    <3>1. AttestationEvent(a) \in EventInputs /\ Earned(AttestationEvent(a))
      BY <2>3, AttestationEarned
    <3> QED BY <2>1, <2>2, <2>3, <3>1, AppendOrEndSound
  <2>4. CASE ~(a \in present /\ Builds(Content[a]) /\ Eligible(Content[a]))
    BY <2>1, <2>2, <2>4, EndSound
  <2> QED BY <2>3, <2>4
<1>7. ASSUME NEW r \in Runs, Abandon(r) PROVE IInv'
  BY <1>7, EndSound DEF Abandon
<1>8. ASSUME NEW r \in Runs, Write(r) PROVE IInv'
  <2> DEFINE f == job[r].output
  <2>1. f \in Files /\ Sound(held[r]) /\ held[r] \in Ledgers
    BY <1>0, <1>8 DEF Write, TypeOK, Jobs, IInv, Holding
  <2>2. /\ ledger' = [ledger EXCEPT ![f] = held[r]] /\ End(r) /\ present' = present
    BY <1>8 DEF Write
  <2>3. \A g \in Files : ledger'[g] = held[r] \/ ledger'[g] = ledger[g]
    BY <1>0, <2>1, <2>2 DEF TypeOK
  <2>4. /\ pc' = [pc EXCEPT ![r] = "idle"] /\ held' = [held EXCEPT ![r] = None]
        /\ job' = [job EXCEPT ![r] = None]
    BY <2>2 DEF End, Goto, Hold
  <2> HIDE DEF f
  <2>5. \A q \in Runs : q # r => /\ pc'[q] = pc[q] /\ held'[q] = held[q]
                                 /\ job'[q] = job[q]
    BY <2>4
  <2>6. pc'[r] = "idle" /\ "idle" \in Steps \ Holding
    BY <1>0, <2>4 DEF TypeOK, Steps, Holding
  <2>7. ledger' \in [Files -> Ledgers \cup {None}]
    BY <1>0, <2>1, <2>2 DEF TypeOK
  <2>8. TypeOK'
    BY <1>0, <2>2, <2>4, <2>5, <2>6, <2>7 DEF TypeOK
  <2>9. \A q \in Runs : pc'[q] \in Holding => Sound(held'[q])
    BY <2>5, <2>6 DEF IInv
  <2>10. \A g \in Files : ledger'[g] # None => Sound(ledger'[g])
    BY <2>1, <2>3 DEF IInv
  <2> QED BY <2>8, <2>9, <2>10 DEF IInv
<1>9. CASE MoveDocument
  <2>1. UNCHANGED <<ledger, pc, job, held>> /\ present' \subseteq Documents
    BY <1>0, <1>9 DEF MoveDocument, TypeOK
  <2> QED BY <2>1 DEF IInv, TypeOK
<1>10. CASE UNCHANGED vars
  BY <1>10 DEF vars, IInv, TypeOK
<1> QED BY <1>1, <1>2, <1>3, <1>4, <1>5, <1>6, <1>7, <1>8, <1>9, <1>10 DEF Next

\* Every reachable state satisfies the invariant of this module.
THEOREM AlwaysSound == Spec => []IInv
BY InitSound, NextSound, PTL DEF Spec
-----------------------------------------------------------------------------
(* What holds of the ledgers *)

\* Every ledger, document and command is what it should be.
THEOREM TypeCorrect == Spec => []TypeOK
BY AlwaysSound, PTL DEF IInv

\* No ledger says the same thing twice, by whatever commands it was written.
THEOREM NoClaimTwiceHolds == Spec => []NoClaimTwice
<1>1. IInv => NoClaimTwice
  BY DEF IInv, NoClaimTwice, Stored, Sound, Unrepeated
<1> QED BY <1>1, AlwaysSound, PTL

\* An appended event is more than a declaration only by an attestation that
\* bears it out.
THEOREM AuthenticityIsEarnedHolds == Spec => []AuthenticityIsEarned
<1>1. IInv => AuthenticityIsEarned
  BY DEF IInv, AuthenticityIsEarned, Stored, Sound, Earned
<1> QED BY <1>1, AlwaysSound, PTL

\* The linkage carried along is the one verification computes.
THEOREM LinkageReconstructsHolds == Spec => []LinkageReconstructs
<1>1. IInv => LinkageReconstructs
  BY DEF IInv, LinkageReconstructs, Stored, Sound
<1> QED BY <1>1, AlwaysSound, PTL

\* Sound ledgers whose latest events have one digest differ in no more than
\* the profile.
LEMMA HeadDecides ==
  ASSUME NEW l, NEW m, Sound(l), Sound(m),
         Digest(Last(l.events)) = Digest(Last(m.events))
  PROVE  l = [m EXCEPT !.profile = l.profile]
<1> DEFINE le == l.events
           me == m.events
<1>1. /\ le \in Seq(Events) /\ me \in Seq(Events) /\ Linked(le) /\ Linked(me)
      /\ Len(le) \in Nat /\ Len(me) \in Nat /\ Len(le) >= 2 /\ Len(me) >= 2
  BY LenProperties DEF Sound, Ledgers
<1> HIDE DEF le, me
<1>2. /\ Len(Digest(Last(le))) = Len(le)
      /\ \A j \in 1..Len(le) : Digest(Last(le))[j] = le[j].claim
  <2>1. Len(le) \in 1..Len(le)
    BY <1>1
  <2> QED BY <1>1, <2>1, DigestLists DEF Last
<1>3. /\ Len(Digest(Last(me))) = Len(me)
      /\ \A j \in 1..Len(me) : Digest(Last(me))[j] = me[j].claim
  <2>1. Len(me) \in 1..Len(me)
    BY <1>1
  <2> QED BY <1>1, <2>1, DigestLists DEF Last
<1>4. /\ Len(le) = Len(me)
      /\ \A i \in 1..Len(le) : le[i].claim = me[i].claim
  BY <1>2, <1>3 DEF le, me
<1>5. ASSUME NEW i \in 1..Len(le) PROVE le[i] = me[i]
  <2>1. le[i] \in Events /\ me[i] \in Events
    BY <1>1, <1>4, ElementOfSeq
  <2>2. /\ le[i].sequence = i - 1 /\ Len(le[i].parent) = i - 1
        /\ me[i].sequence = i - 1 /\ Len(me[i].parent) = i - 1
        /\ \A j \in 1..Len(le) : j < i => le[i].parent[j] = le[j].claim
        /\ \A j \in 1..Len(le) : j < i => me[i].parent[j] = me[j].claim
    BY <1>1, <1>4 DEF Linked
  <2>3. le[i].parent \in Seq(EventInputs) /\ me[i].parent \in Seq(EventInputs)
    BY <2>1 DEF Events, Digests
  <2>4. \A j \in 1..(i-1) : le[i].parent[j] = me[i].parent[j]
    <3> TAKE j \in 1..(i-1)
    <3>1. j \in 1..Len(le) /\ j < i
      BY <1>1
    <3> QED BY <1>4, <2>2, <3>1
  <2>5. le[i].parent = me[i].parent
    BY <2>2, <2>3, <2>4, SeqEqual
  <2> QED BY <1>4, <2>1, <2>2, <2>5 DEF Events
<1>6. le = me
  BY <1>1, <1>4, <1>5, SeqEqual
<1>7. l.linkage = m.linkage
  BY <1>6 DEF Sound, le, me
<1>8. l \in Ledgers /\ m \in Ledgers /\ l.continuity = m.continuity
  BY DEF Sound
<1> QED BY <1>6, <1>7, <1>8 DEF Ledgers, le, me

\* The digest of the latest event commits to the whole history: ledgers with
\* one latest event digest differ at most in the profile.
THEOREM HeadCommitsToHistoryHolds == Spec => []HeadCommitsToHistory
<1>1. IInv => HeadCommitsToHistory
  <2> SUFFICES ASSUME IInv PROVE HeadCommitsToHistory
    OBVIOUS
  <2>1. \A l \in Stored : Sound(l)
    BY DEF IInv, Stored
  <2> QED BY <2>1, HeadDecides DEF HeadCommitsToHistory
<1> QED BY <1>1, AlwaysSound, PTL

\* It does so for good: a ledger whose latest event has the digest of one
\* stored earlier, perhaps overwritten or appended to since, has the events
\* and the linkage of that one.
THEOREM HeadCommitsForEver ==
  ASSUME NEW l
  PROVE  Spec => [](l \in Stored =>
                    [](\A m \in Stored :
                         Digest(Last(l.events)) = Digest(Last(m.events))
                           => l = [m EXCEPT !.profile = l.profile]))
<1>1. CASE Sound(l)
  <2>1. IInv => \A m \in Stored :
                  Digest(Last(l.events)) = Digest(Last(m.events))
                    => l = [m EXCEPT !.profile = l.profile]
    <3> SUFFICES ASSUME IInv, NEW m \in Stored,
                        Digest(Last(l.events)) = Digest(Last(m.events))
                 PROVE  l = [m EXCEPT !.profile = l.profile]
      OBVIOUS
    <3>1. Sound(m)
      BY DEF IInv, Stored
    <3> QED BY <1>1, <3>1, HeadDecides
  <2> QED BY <2>1, AlwaysSound, PTL
<1>2. CASE ~Sound(l)
  <2>1. IInv => ~(l \in Stored)
    BY <1>2 DEF IInv, Stored
  <2> QED BY <2>1, AlwaysSound, PTL
<1> QED BY <1>1, <1>2
-----------------------------------------------------------------------------
(* When appended ledgers verify: `append` does not look at the outputs of   *)
(* an event that transforms nothing, nor at what the evidence of a declared *)
(* event refers to.  A ledger whose declared events are sensible is chained,*)
(* each event to the one before it; and a chained one verifies.             *)

Vouched(e) ==
  /\ Relates(e)
  /\ e.origin = "DERIVED_FROM_VERIFIED_EVIDENCE" => e.evidence # {}
  /\ \A r \in e.evidence : ReferenceHolds(r, InPlace)

Chained(events) ==
  /\ \A i \in 1..Len(events) : Vouched(events[i].claim)
  /\ \A i \in 2..Len(events) : events[i].claim.subject = Successor(events[i-1].claim)

Continuous(events) == SensiblyDeclared(events) => Chained(events)

VInv ==
  /\ \A f \in Files : ledger[f] # None => Continuous(ledger[f].events)
  /\ \A r \in Runs : pc[r] \in Holding => Continuous(held[r].events)

\* Of a sound and chained ledger, verification accepts everything.
LEMMA ChainedVerifies ==
  ASSUME NEW l, Sound(l), Chained(l.events)
  PROVE  Loads(l) /\ EvidenceHolds(l, InPlace)
<1> DEFINE events == l.events
<1>1. /\ events \in Seq(Events) /\ Linked(events) /\ Len(events) \in Nat
      /\ Len(events) >= 2 /\ l \in Ledgers /\ l.continuity = "CONSISTENT"
      /\ events[1] = EvidenceSegment[1] /\ events[2] = EvidenceSegment[2]
  BY LenProperties DEF Sound, Ledgers
<1> HIDE DEF events
<1>2. EvidenceSegment \in Seq(Events) /\ Len(EvidenceSegment) = 2
  BY EvidenceTypes
<1>3. Linear(events)
  BY <1>1, LinkedIsLinear
<1>4. events[1].claim.subject = Subject
  <2>1. EvidenceSegment[1] = BuildEvent(EvidenceEventInputs[1], 0, <<>>)
    BY DEF EvidenceSegment
  <2>2. EvidenceSegment[1].claim = EvidenceEventInputs[1]
    BY <2>1 DEF BuildEvent
  <2> QED BY <1>1, <2>2 DEF EvidenceEventInputs, DerivedEvent
<1>5. SubjectContinuity(events) = "CONSISTENT"
  BY <1>4 DEF SubjectContinuity, Chained, Vouched, events
<1>6. Loads(l)
  BY <1>1, <1>3, <1>5 DEF Loads, events
<1>7. {Passport, Validation} \subseteq InPlace
  BY UnknownAssumption DEF InPlace, Documents
<1>8. l.linkage = EvidenceLinkage(events)
  BY DEF Sound, events
<1>9. SubSeq(events, 1, 2) = EvidenceSegment
  <2>1. /\ SubSeq(events, 1, 2) \in Seq(Events)
        /\ Len(SubSeq(events, 1, 2)) = 2
        /\ \A i \in 1..2 : SubSeq(events, 1, 2)[i] = events[i]
    BY <1>1, SubSeqProperties
  <2>2. \A i \in 1..2 : SubSeq(events, 1, 2)[i] = EvidenceSegment[i]
    <3>1. \A i \in 1..2 : i = 1 \/ i = 2
      OBVIOUS
    <3> QED BY <1>1, <2>1, <3>1
  <2> QED BY <1>2, <2>1, <2>2, SeqEqual
<1>10. ASSUME Len(events) = 2 PROVE l = EvidenceLedger(l.profile)
  <2>1. \A i \in 1..2 : events[i] = EvidenceSegment[i]
    BY <1>1
  <2>2. events = EvidenceSegment
    BY <1>1, <1>2, <1>10, <2>1, SeqEqual
  <2>3. l.profile \in Profiles
    BY <1>1 DEF Ledgers
  <2> DEFINE x == EvidenceLedger(l.profile)
  <2>4. /\ x.linkage = EvidenceLinkage(EvidenceSegment) /\ x.events = EvidenceSegment
        /\ x.profile = l.profile /\ x.continuity = "CONSISTENT" /\ x \in Ledgers
    BY <2>3, EvidenceSound DEF Sound, EvidenceLedger, AssembleLedger
  <2> HIDE DEF x
  <2>5. l = x
    BY <1>1, <1>8, <2>2, <2>4 DEF Ledgers, events
  <2> QED BY <2>5 DEF x
<1>11. \A i \in 1..Len(events) :
         LET e == events[i].claim
         IN  /\ e.origin = "DERIVED_FROM_VERIFIED_EVIDENCE" => e.evidence # {}
             /\ \A r \in e.evidence : ReferenceHolds(r, InPlace)
  BY DEF Chained, Vouched, events
<1>12. EvidenceHolds(l, InPlace)
  BY <1>1, <1>2, <1>7, <1>8, <1>9, <1>10, <1>11 DEF EvidenceHolds, events
<1> QED BY <1>6, <1>12

\* The derived ledger's continuity is reconstructed as consistent.
LEMMA EvidenceChained == \A q : Chained(EvidenceLedger(q).events)
<1> DEFINE g == EvidenceEventInputs[1]
           h == EvidenceEventInputs[2]
<1>1. ASSUME NEW t \in EventTypes \ Transforming, NEW o, NEW d,
             ReferenceHolds([role |-> o, mode |-> "full_verification", digest |-> d], InPlace)
      PROVE  Vouched(DerivedEvent(t, o, d)) /\ ~Transforms(DerivedEvent(t, o, d))
             /\ DerivedEvent(t, o, d).subject = Subject
  <2> DEFINE e == DerivedEvent(t, o, d)
  <2>1. /\ e.type = t /\ e.inputs = <<>> /\ e.outputs = <<>> /\ e.subject = Subject
        /\ e.evidence = {[role |-> o, mode |-> "full_verification", digest |-> d]}
    BY DEF DerivedEvent
  <2> HIDE DEF e
  <2>2. ~Transforms(e)
    BY <2>1 DEF Transforms
  <2>3. Relates(e)
    BY <2>1, <2>2 DEF Relates
  <2>4. Vouched(e)
    BY <1>1, <2>1, <2>3 DEF Vouched
  <2> QED BY <2>1, <2>2, <2>4 DEF e
<1>2. \A d : /\ ReferenceHolds([role |-> "validation_inventory",
                               mode |-> "full_verification", digest |-> Validation], InPlace)
             /\ ReferenceHolds([role |-> "model_passport",
                               mode |-> "full_verification", digest |-> Passport], InPlace)
  BY DEF ReferenceHolds
<1>3. /\ Vouched(g) /\ ~Transforms(g) /\ g.subject = Subject
      /\ Vouched(h) /\ ~Transforms(h) /\ h.subject = Subject
  BY <1>1, <1>2 DEF EvidenceEventInputs, EventTypes, Transforming
<1> HIDE DEF g, h
<1>4. EvidenceSegment = <<BuildEvent(g, 0, <<>>), BuildEvent(h, 1, Digest(BuildEvent(g, 0, <<>>)))>>
  BY DEF EvidenceSegment, g, h
<1>5. Len(EvidenceSegment) = 2 /\ EvidenceSegment[1].claim = g /\ EvidenceSegment[2].claim = h
  BY <1>4 DEF BuildEvent
<1>6. Chained(EvidenceSegment)
  BY <1>3, <1>5 DEF Chained, Successor
<1> QED BY <1>6 DEF EvidenceLedger, AssembleLedger

\* Appending a vouched event that continues the ledger keeps its continuity.
LEMMA AppendChained ==
  ASSUME NEW l, Sound(l), Chained(l.events),
         NEW e \in EventInputs, Vouched(e), Continues(l, e)
  PROVE  Chained(AppendEvent(l, e).events)
<1> DEFINE old == l.events
           n == Len(old)
           new == BuildEvent(e, n, Digest(Last(old)))
           events == Append(old, new)
<1>1. old \in Seq(Events) /\ Linked(old) /\ n \in Nat /\ n >= 2
  BY LenProperties DEF Sound, Ledgers
<1>2. n \in 1..n
  BY <1>1
<1>3. new \in Events /\ new.claim = e
  BY <1>1, <1>2, DigestLists DEF BuildEvent, Events, Last
<1>4. AppendEvent(l, e).events = events
  BY DEF AppendEvent, AssembleLedger
<1> HIDE DEF new
<1>5. /\ Len(events) = n + 1 /\ \A i \in 1..n : events[i] = old[i]
      /\ events[n + 1] = new
  BY <1>1, <1>3, AppendProperties
<1>6. /\ \A i \in 1..n : Vouched(old[i].claim)
      /\ \A i \in 2..n : old[i].claim.subject = Successor(old[i-1].claim)
  BY DEF Chained
<1>7. e.subject = Successor(old[n].claim)
  <2>1. Relates(old[n].claim)
    BY <1>2, <1>6 DEF Vouched
  <2>2. CurrentSubject(old) = Successor(old[n].claim)
    BY <2>1 DEF CurrentSubject, Successor, Relates, Last
  <2> QED BY <2>2 DEF Continues
<1> HIDE DEF old, n, events
<1>8. \A i \in 1..(n+1) : i \in 1..n \/ i = n + 1
  BY <1>1
<1>9. \A i \in 1..(n+1) : Vouched(events[i].claim)
  BY <1>3, <1>5, <1>6, <1>8
<1>10. ASSUME NEW i \in 2..(n+1) PROVE events[i].claim.subject = Successor(events[i-1].claim)
  <2>1. i - 1 \in 1..n /\ (i \in 2..n \/ i = n + 1)
    BY <1>1
  <2>2. CASE i \in 2..n
    <3>1. i \in 1..n
      BY <1>1, <2>2
    <3> QED BY <1>5, <1>6, <2>1, <2>2, <3>1
  <2>3. CASE i = n + 1
    <3>1. i - 1 = n
      BY <1>1, <2>3
    <3> QED BY <1>3, <1>5, <1>7, <2>1, <2>3, <3>1
  <2> QED BY <2>1, <2>2, <2>3
<1> QED BY <1>4, <1>5, <1>9, <1>10 DEF Chained

\* The event of an eligible attestation that continues a ledger.
LEMMA AttestationVouched ==
  ASSUME NEW a \in Attestations, Builds(Content[a]), Eligible(Content[a]),
         NEW l, Continues(l, AttestationEvent(a))
  PROVE  Vouched(AttestationEvent(a))
<1> DEFINE s == Content[a]
           e == AttestationEvent(a)
           r == [role |-> "artifact_attestation", mode |-> "full_verification", digest |-> a]
<1>1. /\ e.type = EventType(s) /\ e.evidence = {r}
      /\ e.subject = IF IsTransform(s) THEN s.inputs[1] ELSE s.subject
      /\ e.inputs = IF IsTransform(s) THEN s.inputs ELSE <<>>
      /\ e.outputs = IF IsTransform(s) THEN s.outputs ELSE <<>>
  BY DEF AttestationEvent
<1>2. r.role = "artifact_attestation" /\ r.digest = a
  OBVIOUS
<1> HIDE DEF e, r
<1>3. s.kind \in Kinds /\ s.inputs \in Seq(Artifacts) /\ s.inputs # <<>>
  BY ContentAssumption DEF Statements
<1>4. ReferenceHolds(r, InPlace)
  <2>1. a \in InPlace
    BY UnknownAssumption DEF InPlace, Documents
  <2>2. r.digest \in Attestations \cap InPlace /\ Builds(Content[r.digest])
    BY <1>2, <2>1
  <2> QED BY <1>2, <2>2 DEF ReferenceHolds
<1>5. Transforms(e) <=> IsTransform(s)
  BY <1>1, <1>3 DEF Transforms, IsTransform, EventType, Transforming, Kinds
<1>6. CASE IsTransform(s)
  <2>1. Len(e.inputs) = 1 /\ Len(e.outputs) = 1
    BY <1>5, <1>6 DEF Continues, e
  <2>2. Continuity(s) = "VALID"
    BY DEF Eligible
  <2>3. s.subject = s.outputs[1] /\ ~\E i \in 1..Len(s.inputs) : s.inputs[i] = s.subject
    BY <1>6, <2>2 DEF Continuity, IsTransform
  <2>4. e.outputs[1] # e.subject
    BY <1>1, <1>6, <2>1, <2>3
  <2>5. Relates(e)
    BY <1>1, <1>5, <1>6, <2>1, <2>4 DEF Relates
  <2> QED BY <1>1, <1>4, <2>5 DEF Vouched, e
<1>7. CASE ~IsTransform(s)
  <2>1. Relates(e)
    BY <1>1, <1>5, <1>7 DEF Relates
  <2> QED BY <1>1, <1>4, <2>1 DEF Vouched, e
<1> QED BY <1>6, <1>7

\* Appending an event keeps a ledger continuous: if no declared event gives
\* cause for objection, the ones before were chained, and the new one is
\* vouched for.
LEMMA AppendContinuous ==
  ASSUME NEW l, Sound(l), Continuous(l.events), NEW e \in EventInputs,
         Continues(l, e),
         (e.origin = "USER_DECLARED" => Sensible(e)) => Vouched(e)
  PROVE  Continuous(AppendEvent(l, e).events)
<1> DEFINE old == l.events
           n == Len(old)
           new == BuildEvent(e, n, Digest(Last(old)))
           events == Append(old, new)
<1>1. old \in Seq(Events) /\ Linked(old) /\ n \in Nat /\ n >= 2
  BY LenProperties DEF Sound, Ledgers
<1>2. n \in 1..n
  BY <1>1
<1>3. new \in Events /\ new.claim = e
  BY <1>1, <1>2, DigestLists DEF BuildEvent, Events, Last
<1>4. AppendEvent(l, e).events = events
  BY DEF AppendEvent, AssembleLedger
<1> HIDE DEF new
<1>5. /\ Len(events) = n + 1 /\ \A i \in 1..n : events[i] = old[i]
      /\ events[n + 1] = new
  BY <1>1, <1>3, AppendProperties
<1> HIDE DEF events
<1>6. ASSUME SensiblyDeclared(events) PROVE Chained(events)
  <2>1. SensiblyDeclared(old)
    <3>1. ASSUME NEW i \in 3..n, old[i].claim.origin = "USER_DECLARED"
          PROVE  Sensible(old[i].claim)
      <4>1. i \in 1..n /\ i \in 3..(n + 1)
        BY <1>1
      <4> QED BY <1>5, <1>6, <3>1, <4>1 DEF SensiblyDeclared
    <3> QED BY <3>1 DEF SensiblyDeclared
  <2>2. e.origin = "USER_DECLARED" => Sensible(e)
    <3>1. n + 1 \in 3..(n + 1)
      BY <1>1
    <3> QED BY <1>3, <1>5, <1>6, <3>1 DEF SensiblyDeclared
  <2>3. Chained(l.events) /\ Vouched(e)
    BY <2>1, <2>2 DEF Continuous
  <2> QED BY <1>4, <2>3, AppendChained
<1> QED BY <1>4, <1>6 DEF Continuous

\* A command that goes on with a continuous ledger, or ends, keeps them continuous.
LEMMA ProceedChained ==
  ASSUME TypeOK, VInv, NEW r \in Runs, NEW to, NEW l,
         Proceed(r, to, l) \/ End(r), UNCHANGED ledger,
         Proceed(r, to, l) /\ to \in Holding => Continuous(l.events)
  PROVE  VInv'
<1>1. /\ pc \in [Runs -> Steps] /\ held \in [Runs -> Ledgers \cup {None}]
      /\ \A q \in Runs : pc[q] \in Holding => Continuous(held[q].events)
  BY DEF TypeOK, VInv
<1>2. CASE Proceed(r, to, l)
  BY <1>1, <1>2 DEF Proceed, Goto, Hold, VInv
<1>3. CASE End(r)
  BY <1>1, <1>3 DEF End, Goto, Hold, VInv, Holding
<1> QED BY <1>2, <1>3

\* A command that appends an event, or refuses it, keeps the ledgers continuous.
LEMMA AppendOrEndChained ==
  ASSUME IInv, VInv, NEW r \in Runs, pc[r] = "event", NEW e \in EventInputs,
         Continues(held[r], e) /\ OriginAllowed(e, job[r].command)
           /\ (e.origin = "USER_DECLARED" => Sensible(e)) => Vouched(e),
         AppendOrEnd(r, e), UNCHANGED ledger
  PROVE  VInv'
<1>1. Sound(held[r]) /\ Continuous(held[r].events) /\ TypeOK
  BY DEF IInv, VInv, Holding
<1>2. Appendable(held[r], e, job[r].command) => Continuous(AppendEvent(held[r], e).events)
  BY <1>1, AppendContinuous DEF Appendable
<1> QED BY <1>1, <1>2, ProceedChained DEF AppendOrEnd

\* Every step keeps the ledgers continuous.
LEMMA NextChained == IInv /\ VInv /\ [Next]_vars => VInv'
<1> SUFFICES ASSUME IInv, VInv, [Next]_vars PROVE VInv'
  OBVIOUS
<1>0. TypeOK
  BY DEF IInv
<1>1. ASSUME NEW r \in Runs, Start(r) PROVE VInv'
  BY <1>0, <1>1 DEF Start, Goto, TypeOK, VInv, Holding
<1>2. ASSUME NEW r \in Runs, Create(r) PROVE VInv'
  <2>1. \A q : Continuous(EvidenceLedger(q).events)
    BY EvidenceChained DEF Continuous
  <2>2. UNCHANGED ledger
    BY <1>2 DEF Create
  <2>3. CASE {Passport, Validation} \subseteq present
    <3>1. PICK q \in Profiles : Proceed(r, "write", EvidenceLedger(q))
      BY <1>2, <2>3 DEF Create
    <3> QED BY <1>0, <2>1, <2>2, <3>1, ProceedChained
  <2>4. CASE ~({Passport, Validation} \subseteq present)
    <3>1. End(r)
      BY <1>2, <2>4 DEF Create
    <3> QED BY <1>0, <2>2, <3>1 DEF End, Goto, Hold, VInv, TypeOK, Holding
  <2> QED BY <2>3, <2>4
<1>3. ASSUME NEW r \in Runs, Load(r) PROVE VInv'
  <2> DEFINE l == ledger[job[r].source]
  <2>1. job[r].source \in Files
    BY <1>0, <1>3 DEF Load, TypeOK, Jobs
  <2>2. l # None => Continuous(l.events)
    BY <2>1 DEF VInv
  <2>3. CASE l # None /\ Loads(l)
    <3>1. Proceed(r, "evidence", l) /\ UNCHANGED ledger
      BY <1>3, <2>3 DEF Load
    <3> QED BY <1>0, <2>2, <2>3, <3>1, ProceedChained
  <2>4. CASE ~(l # None /\ Loads(l))
    <3>1. End(r) /\ UNCHANGED ledger
      BY <1>3, <2>4 DEF Load
    <3> QED BY <1>0, <3>1 DEF End, Goto, Hold, VInv, TypeOK, Holding
  <2> QED BY <2>3, <2>4
<1>4. ASSUME NEW r \in Runs, CheckEvidence(r) PROVE VInv'
  <2>1. Continuous(held[r].events)
    BY <1>4 DEF CheckEvidence, VInv, Holding
  <2> QED BY <1>0, <1>4, <2>1, ProceedChained DEF CheckEvidence
<1>5. ASSUME NEW r \in Runs, AppendDeclared(r) PROVE VInv'
  <2>1. PICK e \in DeclaredEvents : AppendOrEnd(r, e)
    BY <1>5 DEF AppendDeclared
  <2>2. e \in EventInputs
    BY DeclaredAssumption
  <2>3. pc[r] = "event" /\ job[r].command = "append" /\ UNCHANGED ledger
    BY <1>5 DEF AppendDeclared
  <2>4. OriginAllowed(e, job[r].command) /\ (e.origin = "USER_DECLARED" => Sensible(e))
          => Vouched(e)
    BY <2>3 DEF OriginAllowed, Sensible, Vouched
  <2> QED BY <2>1, <2>2, <2>3, <2>4, AppendOrEndChained
<1>6. ASSUME NEW r \in Runs, AppendAttestation(r) PROVE VInv'
  <2>1. pc[r] = "event" /\ UNCHANGED ledger
    BY <1>6 DEF AppendAttestation
  <2>2. PICK a \in Attestations :
          IF a \in present /\ Builds(Content[a]) /\ Eligible(Content[a])
          THEN AppendOrEnd(r, AttestationEvent(a))
          ELSE End(r)
    BY <1>6 DEF AppendAttestation
  <2>3. CASE a \in present /\ Builds(Content[a]) /\ Eligible(Content[a])
    <3>1. AttestationEvent(a) \in EventInputs
      BY <2>3, AttestationEarned
    <3>2. Continues(held[r], AttestationEvent(a)) => Vouched(AttestationEvent(a))
      BY <2>3, AttestationVouched
    <3> QED BY <2>1, <2>2, <2>3, <3>1, <3>2, AppendOrEndChained
  <2>4. CASE ~(a \in present /\ Builds(Content[a]) /\ Eligible(Content[a]))
    <3>1. End(r)
      BY <2>2, <2>4
    <3> QED BY <1>0, <2>1, <3>1 DEF End, Goto, Hold, VInv, TypeOK, Holding
  <2> QED BY <2>3, <2>4
<1>7. ASSUME NEW r \in Runs, Abandon(r) PROVE VInv'
  <2>1. End(r) /\ UNCHANGED ledger
    BY <1>7 DEF Abandon
  <2> QED BY <1>0, <2>1 DEF End, Goto, Hold, VInv, TypeOK, Holding
<1>8. ASSUME NEW r \in Runs, Write(r) PROVE VInv'
  <2>1. Continuous(held[r].events) /\ job[r].output \in Files
    BY <1>0, <1>8 DEF Write, VInv, Holding, TypeOK, Jobs
  <2>2. ledger' = [ledger EXCEPT ![job[r].output] = held[r]] /\ End(r)
    BY <1>8 DEF Write
  <2>3. \A g \in Files : ledger'[g] = held[r] \/ ledger'[g] = ledger[g]
    BY <1>0, <2>1, <2>2 DEF TypeOK
  <2>4. \A g \in Files : ledger'[g] # None => Continuous(ledger'[g].events)
    BY <2>1, <2>3 DEF VInv
  <2>5. \A q \in Runs : pc'[q] \in Holding => Continuous(held'[q].events)
    BY <1>0, <2>2 DEF End, Goto, Hold, VInv, TypeOK, Holding
  <2> QED BY <2>4, <2>5 DEF VInv
<1>9. CASE MoveDocument
  BY <1>9 DEF MoveDocument, VInv
<1>10. CASE UNCHANGED vars
  BY <1>10 DEF vars, VInv
<1> QED BY <1>1, <1>2, <1>3, <1>4, <1>5, <1>6, <1>7, <1>8, <1>9, <1>10 DEF Next

\* In a ledger that verification accepts it objects to no declared event.
LEMMA VerifiedIsSensible ==
  ASSUME NEW l, Sound(l), Loads(l), EvidenceHolds(l, InPlace)
  PROVE  SensiblyDeclared(l.events)
<1>1. SubjectContinuity(l.events) = "CONSISTENT"
  BY DEF Loads, Sound
<1>2. \A i \in 1..Len(l.events) : Relates(l.events[i].claim)
  BY <1>1 DEF SubjectContinuity
<1>3. \A i \in 1..Len(l.events) :
        \A r \in l.events[i].claim.evidence : ReferenceHolds(r, InPlace)
  BY DEF EvidenceHolds
<1>4. \A i \in 3..Len(l.events) : i \in 1..Len(l.events)
  BY LenProperties DEF Sound, Ledgers
<1> QED BY <1>2, <1>3, <1>4 DEF SensiblyDeclared, Sensible

\* What `append` wrote, `verify` accepts with every document in place,
\* exactly if the events that users declared give it no cause to object.
THEOREM AppendedLedgersVerifyHolds == Spec => []AppendedLedgersVerify
<1>1. Init => VInv
  <2> SUFFICES ASSUME Init PROVE VInv
    OBVIOUS
  <2>1. (\A f \in Files : ledger[f] = None) /\ \A r \in Runs : pc[r] \notin Holding
    BY DEF Init, Holding
  <2> QED BY <2>1 DEF VInv
<1>2. IInv /\ VInv /\ [Next]_vars => VInv'
  BY NextChained
<1>3. IInv /\ VInv => AppendedLedgersVerify
  <2> SUFFICES ASSUME IInv, VInv PROVE AppendedLedgersVerify
    OBVIOUS
  <2>1. \A l \in Stored : Sound(l) /\ Continuous(l.events)
    BY DEF IInv, VInv, Stored
  <2>2. ASSUME NEW l \in Stored, SensiblyDeclared(l.events)
        PROVE  Loads(l) /\ EvidenceHolds(l, InPlace)
    BY <2>1, <2>2, ChainedVerifies DEF Continuous
  <2>3. ASSUME NEW l \in Stored, Loads(l), EvidenceHolds(l, InPlace)
        PROVE  SensiblyDeclared(l.events)
    BY <2>1, <2>3, VerifiedIsSensible
  <2> QED BY <2>2, <2>3 DEF AppendedLedgersVerify
<1> QED BY <1>1, <1>2, <1>3, AlwaysSound, PTL DEF Spec
=============================================================================
