--------------------------- MODULE TrustTimeline ---------------------------
(***************************************************************************)
(* The history of a subject as omiv.continuous_trust.building sees it: a   *)
(* record of events grows while time passes, and a timeline or a           *)
(* historical result is built for a cutoff that lies in the past.          *)
(*                                                                         *)
(* Abstracted: an event is a constant with the attributes the builders     *)
(* look at, so two events with different contents are two constants and    *)
(* an identity is never listed twice; limitations and digests are left     *)
(* out.  Assumed of the world: evidence enters the record at the moment it *)
(* says it became available (the code compares available_at and has no     *)
(* means to check it).                                                     *)
(***************************************************************************)
EXTENDS Integers, FiniteSets

CONSTANTS HistoricalEvents,    \* the events that may come to be known
          Namespace, Epoch, Sequence,
                               \* [HistoricalEvents -> ...]: the position
          Predecessor,         \* [HistoricalEvents -> HistoricalEvents \cup {NoEvent}]
          AvailableAt,         \* [HistoricalEvents -> Moments]
          Revokes,             \* the events of type EVIDENCE_REVOKED
          Supersedes,          \* the events of type EVIDENCE_SUPERSEDED
          OtherSubject,        \* the events about another subject
          NoEvent,             \* not an event
          RangeStart, RangeEnd,   \* the declared range of sequence numbers
          CutoffSequence,         \* the request's cutoff_sequence
          MaxTimelineEvents,      \* MAX_TIMELINE_EVENTS
          MaxTimelineForks,       \* MAX_TIMELINE_FORKS
          MaxReportInputs,        \* MAX_REPORT_INPUTS
          MaxListedEvents,        \* of each list of evidence in a result
          MaxListedIds,           \* of each other list in a result
          LastMoment              \* bound: the last moment of a behaviour

Moments == 1 .. LastMoment

ASSUME TimelineAssumption ==
    /\ IsFiniteSet(HistoricalEvents)
    /\ NoEvent \notin HistoricalEvents
    /\ Predecessor \in [HistoricalEvents -> HistoricalEvents \cup {NoEvent}]
    /\ AvailableAt \in [HistoricalEvents -> Moments]
    /\ Sequence \in [HistoricalEvents -> Nat]
    /\ Revokes \subseteq HistoricalEvents
    /\ Supersedes \subseteq HistoricalEvents
    /\ OtherSubject \subseteq HistoricalEvents
    /\ LastMoment \in Nat \ {0}
    /\ {MaxTimelineEvents, MaxTimelineForks} \subseteq Nat
    /\ {MaxReportInputs, MaxListedEvents, MaxListedIds} \subseteq Nat

VARIABLES moment,   \* the present
          record    \* the events supplied so far
timelineVars == <<moment, record>>

(***************************************************************************)
(* What the builders compute.                                              *)
(***************************************************************************)
KnownAt(events, cutoff) == {e \in events : AvailableAt[e] <= cutoff}

Position(e) == <<Namespace[e], Epoch[e], Sequence[e]>>

\* detect_forks: a position held by two contents, and a predecessor named
\* by two events.
Forks(events) ==
    {<<"CONFLICT_DETECTED", Position(e)>> : e \in
        {d \in events : \E f \in events \ {d} : Position(f) = Position(d)}}
    \cup
    {<<"FORK_DETECTED", Predecessor[e]>> : e \in
        {d \in events : /\ Predecessor[d] # NoEvent
                        /\ \E f \in events \ {d} : Predecessor[f] = Predecessor[d]}}

\* The numbers of the range nobody holds, whatever their epoch or namespace.
MissingNumbers(events) ==
    (RangeStart .. RangeEnd) \ {Sequence[e] : e \in events}

\* Mutant: forks do not count.
CompleteByNumbers(events) ==
    IF MissingNumbers(events) # {} THEN "MISSING_PREDECESSOR"
    ELSE "COMPLETE_FOR_DECLARED_RANGE"

Completeness(events) ==
    CASE Forks(events) # {}          -> "FORKED"
      [] Forks(events) = {} /\ MissingNumbers(events) # {}
                                     -> "MISSING_PREDECESSOR"
      [] OTHER                       -> "COMPLETE_FOR_DECLARED_RANGE"

\* build_timeline raises: the limits and the subject are looked at over all
\* the events, the forks over those known at the cutoff.
TimelineRefused(events, cutoff) ==
    \/ Cardinality(events) > MaxTimelineEvents
    \/ events \cap OtherSubject # {}
    \/ Cardinality(Forks(KnownAt(events, cutoff))) > MaxTimelineForks

BuildTimeline(events, cutoff) ==
    LET ordered == KnownAt(events, cutoff) IN
    [event_ids |-> ordered, fork_ids |-> Forks(ordered),
     completeness |-> Completeness(ordered)]

\* build_historical_result: what the evaluation at the cutoff rests on, what
\* came too late, and the forks as the caller supplies them (an event without
\* authority cannot be constructed, so nothing is rejected).
Eligible(events, cutoff) ==
    {e \in KnownAt(events, cutoff) : Sequence[e] <= CutoffSequence}

HistoricalResult(events, forks, cutoff) ==
    [accepted |-> Eligible(events, cutoff),
     late |-> events \ Eligible(events, cutoff),
     revocations |-> Eligible(events, cutoff) \cap Revokes,
     superseded |-> Eligible(events, cutoff) \cap Supersedes,
     fork_ids |-> forks]

\* build_historical_result raises: the inputs are too many, or a list of the
\* result is too long for its model.
ResultRefused(events, forks, cutoff) ==
    LET result == HistoricalResult(events, forks, cutoff) IN
    \/ Cardinality(events) + Cardinality(forks) > MaxReportInputs
    \/ \E ids \in {result.accepted, result.late} : Cardinality(ids) > MaxListedEvents
    \/ \E ids \in {result.revocations, result.superseded} : Cardinality(ids) > MaxListedIds
    \/ Cardinality(forks) > MaxListedIds

(***************************************************************************)
(* The world: evidence arrives and time passes.                            *)
(***************************************************************************)
TimelineInit == moment = 1 /\ record = {}

Arrive(e) ==
    /\ e \notin record
    /\ AvailableAt[e] = moment
    /\ record' = record \cup {e}
    /\ UNCHANGED moment

Pass ==
    /\ moment < LastMoment
    /\ moment' = moment + 1
    /\ UNCHANGED record

TimelineNext == Pass \/ \E e \in HistoricalEvents : Arrive(e)

TimelineSpec == TimelineInit /\ [][TimelineNext]_timelineVars

(***************************************************************************)
(* Properties.                                                             *)
(***************************************************************************)
TimelineTypeOK ==
    /\ moment \in Moments
    /\ record \subseteq HistoricalEvents
    /\ \A e \in record : AvailableAt[e] <= moment

\* "Evidence first available after the cutoff cannot affect the earlier
\* result": whatever has arrived since, build_timeline and
\* build_historical_result answer for a past cutoff as they answer from the
\* evidence known at the cutoff alone.
OnlyKnownEvidenceCounts ==
    \A cutoff \in Moments : cutoff < moment =>
      LET known == KnownAt(record, cutoff)
          now == HistoricalResult(record, Forks(known), cutoff)
          then == HistoricalResult(known, Forks(known), cutoff)
      IN  /\ TimelineRefused(record, cutoff) <=> TimelineRefused(known, cutoff)
          /\ BuildTimeline(record, cutoff) = BuildTimeline(known, cutoff)
          /\ ResultRefused(record, Forks(known), cutoff)
                <=> ResultRefused(known, Forks(known), cutoff)
          /\ [now EXCEPT !.late = {}] = [then EXCEPT !.late = {}]
=============================================================================
