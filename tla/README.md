# Verification of OMIV

OMIV, the Open Model Integration Validator, turns artifacts of machine-learning models (headers, payload files,
conversion runs, signed statements, deployments) into evidence documents that can be verified later, offline.
This directory holds TLA+ models of the parts of it whose correctness depends on the order of steps, on files
that change under the reader, on processes that are killed, on limits, or on long sequences of legal calls;
the TLC configurations that check them on small instances; and proofs, checked by TLAPS, for every instance.

    tlc -workers 2 -config MCSafeWrite.cfg MCSafeWrite      # a run
    tlapm SafeWriteProofs.tla                               # a proof module

`PROJECT.json` lists components, runs, mutants (deliberate bugs that must break a property), the map from each
definition to the source lines it translates, findings, hazards and theorems. Paths below are relative to
`src/src/omiv/` unless they start with `docs/` or `tests/`.

## 1. The system

OMIV is one Python package. A command (`cli.py`, 283 of them) parses its arguments, calls one component, writes
the report and maps the result to an exit code. There are no threads; concurrency is that of several commands,
of the child processes they start, of other programs on the same files, and of remote providers. Documents are
canonical JSON with SHA-256 identities, immutable once written; what changes is which file stands at which path.

| Component | State it keeps | Operations | What is hard | What makes it correct |
|---|---|---|---|---|
| Output safety (`safe_write.py`) | the report path, a temporary file | `atomic_write_text`, `validate_output_path` | kills between any two system calls, power failure with unsynced directory, links and inputs appearing after a check, racing writers | readers see whole reports only; nothing refused is replaced; no stray files |
| Payload observation (`payload_integrity/observation.py`) | two inventories, records, findings, byte budget | `observe_payload` | files rewritten, relinked, removed or swapped while being listed and hashed; hard links; short reads | a COMPLETE manifest has digests of what its files held, one per file, for all files |
| Conversion capture (`provenance/capture.py`) | source hashes, tool state, target hash, four reports | `run_conversion` | a child process that outlives its parent, tool and sources changing during the run, killed runs followed by others | what emitted provenance says went in, ran and came out did |
| Custody ledgers (`custody/`) and attestations (`attestations/`) | ledger files of hash-linked events | create, append, append-custody, verify | sequences of appends against a whole-ledger verification, evidence that comes and goes, two commands on one file | head digest commits to the history; no claim twice; authenticity earned; what is appended verifies unless a user declared what cannot be |
| Range client (`remote/range_client.py`) | one request, its redirects and body | `read` | redirects to other hosts, bodies that are short, long, endless or cut off | the asked interval or a failure; credentials stay with the host; responses closed |
| Remote GGUF header (`remote/gguf_header.py`, `range_source.py`) | cursor, one cached window, request log, caps | `parse`, `read_exact` | a header that does not say how long it is, read ahead under caps, values across windows | nothing fetched twice or beyond the header; no undue refusal; consistent inventory |
| Split aggregation (`remote/split_*.py`) | shard inventories | `aggregate_split_inventories` | coverage and overlap over shards | every tensor in exactly one shard |
| Revocation, timelines, snapshots (`continuous_trust/building.py`) | the stack of a walk; lists of events | `propagate_revocation`, `build_timeline`, `build_historical_result`, `compare_snapshots`, chains | cycles, branches, limits; evidence that arrives after the cutoff, forks and gaps across epochs | exactly the dependents are affected; what arrives later does not change an earlier answer |
| Audit bundles (`continuous_trust/bundles.py`) | a directory with members and a manifest | materialize, verify | makers killed half way and others after them, changes during verification | a manifest only next to whole members; the verdict is that of the directory, and of the history at the cutoff if the timeline was built from it |
| Offline trust (`trust/`) | the frontier of a walk over delegations | `verify_bundle`, `verify_envelope` | cycles, branches and three depth limits; order of verdicts, combination of revocations | trust only over a chain to a root; no chain overlooked without a reason; revocation in force is fatal |
| Runtime continuity (`runtime/`) | none between calls; documents of deployments that replace one another | `evaluate_continuity` | evidence of another instance, partial observations, a chain of twenty-odd conditions | PASS is earned; nothing wrong is reported as merely limited |
| Governance (`governance/`) | documents: decisions, approval records, results | policy decisions, approvals, quorum, separation, promotion gates | records in any order, results of earlier days, requests and approvals | what is promoted was decided and approved; rejections are final |
| Security inspection (`security/`) | none | `inspect_local_artifact` | limits of archives | bounded, fail closed |
| Reconciliation, payload comparison, quantization, tokenizer parity, runtime resolution, structural comparison, mapping, model packs | none | pure functions of documents | matching and policy cascades | verdicts follow from the differences |
| Validation bundles, article packages, passports | none | assembling and re-deriving documents | none is concurrent | reconstruction |
| Local readers (`gguf/`, `hf/`), CLI, shared models | none | parsing, dispatch | offsets, exit codes | |

How they interact: every command writes through *output safety*. A *payload manifest* and a *passport* made from a
*conversion capture* are the evidence that a *custody ledger* refers to by digest and re-reads on every append;
*attestations* enter a ledger as events. The *remote header* parser reads only through the *range client*, and its
inventories feed *split aggregation*. *Trust* verifies the signatures that *governance*, *runtime* and
*continuous trust* take as verified facts; *revocation propagation* runs over explicit dependencies among their
documents. Components share files and documents, never memory.

`PROJECT.json` "hazards" lists, at its source line, what in this code a test would hardly reach, with the
properties that cover it, or why none does yet.

## 2. The modules

Each module says in its header what it abstracts. Common to all: digests are injective (a document is its own
digest), so that nothing here is about SHA-256; wording and layout of reports are left out. An MC module gives
constants their values; a `...Proofs` module extends its specification (`ContinuousTrustProofs` and `VerdictProofs`
have a section for each of several) and holds only lemmas and theorems. `Descent` defines the well-founded orders
that the theorems about termination use. No module uses RECURSIVE.

### SafeWrite implements AtomicFile

`SafeWrite` is `atomic_write_text`, one action per statement (check, mkdir, check, mkstemp, write, fsync, check,
replace, cleanup, whose unlink the system may refuse), for several calls racing for one path. A directory entry and
file content each exist in memory and on disk; `Persist...` actions move one to the other at any time, `fsync` forces
the content, and a power failure reverts to what the disk has. The code never syncs the directory, and neither does
the model. Kills and `Interfere` (another program puts a link, directory, input or nothing at the path) may come
between any two steps. `AtomicFile` is the promise to callers: a whole text in one step or nothing, and after a power
failure a value the path held before. The refinement maps the path to what a reader finds in it and each program
counter to running, committed or aborted.

### PayloadObservation

`observe_payload` with its system calls as actions: open the root, list, stat each entry, hash each file (lstat,
open, fstat, reads, fstat, lstat), list and stat again, decide. Other programs rewrite, truncate, lengthen, relink,
remove, put a link or a FIFO in place of a file and swap the root in between; `ReadPipe` is the open of a FIFO that
came after the lstat, which waits until somebody writes, perhaps for ever. The root is flat: descending into
directories only changes which name comes next. The other root mode, `SINGLE_FILE_ROOT`, whose inventory is one lstat
instead of a listing (`observation.py:55`), is left out. A
digest is the sequence of blocks read. A time stamp moves on each change of bytes (inode reuse counts as one) and
may move on a change of links. `held` and `touched` are history: what each file held during the observation, and
which paths changed after they were hashed. Not promised by the code and not claimed here: that a file rewritten
after it was hashed is noticed (the documentation disclaims that), or that a record's size is the inventoried one.
Depth, path and metadata limits are left out, the file and byte limits are in.
Without file identities no manifest is COMPLETE; the run has them, the proofs cover both.

### ConversionCapture

`run_conversion` with the converter as a process of its own. A run checks the outputs are absent, inspects the
tool checkout (HEAD, clean), hashes the sources, starts the converter, looks at its exit and target, inspects the
tool again, describes and hashes the target in two reads, re-reads sources and target in validation (PROV-002,
PROV-009) and writes four reports, each by an atomic replacement. Runs can be killed anywhere, their converters go
on, runs of one spec follow one another or overlap, other programs change sources, checkout, target and reports.
`churn`, `toolChurn`, `touched` and `overlapped` are history and appear only in properties: a change that is undone
before the second look cannot be noticed, nor can two runs that overlap (there is no lock and none is promised), so
the properties say exactly under what they hold. The other ten PROV rules compare documents that do not change
during a run and are the constant `Consistent`.

### CustodyLedger

`custody create`, `custody append`, `custody verify` (the first half of append: load and check the evidence) and
`attestation append-custody`. A ledger is a sequence of events with a linkage status; an event's digest is the list
of claims up to it. A command loads a file, verifies it internally, verifies evidence, checks `Appendable` (policy,
origin, duplicate, subject continuity), appends and writes, while other commands do the same and documents come
and go. `EvidenceSegment` has two of the six events that a create derives; the others differ in name only. A ledger
also has the completeness profile that `custody create --profile` selects; it stands for the analysis of missing
events, which is a function of it and of the events, and it is in no event digest. Reports and the custody-linked
passport are left out. Declared events are whatever a user passes, also what verification objects to later: an
artifact transformed into itself, outputs without a transformation, a reference that does not hold (`Sensible`).

### RangeClient implements ReadRange

`BoundedRangeClient.read` against a provider that may redirect, answer anything and stop or go on for ever. A URL
is its host; scheme, port and user-information faults make a host unapproved. A body is its number of bytes.
`ReadRange` is the promise: one answer, the whole interval or a failure. Redirects drop the authorization unless
they stay on the original host; every response opened is closed; sizes and the number of requests are bounded.

### RemoteHeader

`RemoteGGUFHeaderParser.parse` over `RangeBackedByteSource`: each field is a read, what it says is chosen when it
is read, so that a behaviour is a header. The twenty hand-written lower bounds of `_minimum_later_bytes` that decide
how far to read ahead are in `Later`/`MinimumLater`, with the window, the four caps and the payload boundary. A byte
stands for its position. Names, digests and preview text are abstracted to `Reject`, a refusal for some other
reason. `Fetch` is one atomic step, which is what ReadRange promises; the pinned revision is taken as immutable.
Overflow checks against 2^64 and the truncation of a UTF-8 preview inside a character are left out.

### RevocationPropagation

`propagate_revocation`, one step per stack entry, over any list of explicit edges, with its three limits. `seen`
and `affected` are the result, which its model refuses when it lists too many dimensions or snapshots (`Result`).

### TrustTimeline, and AuditBundle over it

`TrustTimeline` is the world and three builders. Evidence enters a record at the moment it says it became available
(assumed: the code compares `available_at` and cannot check it) while time passes; `build_timeline`, `detect_forks`
and `build_historical_result` are operators on the record and a cutoff, with the limits that make each of them raise
(`TimelineRefused`, `ResultRefused`); the forks of a result are the caller's. `AuditBundle` extends it: a history is
packed for a past cutoff (`Pack`), with the timeline that build_timeline makes of it or with one from elsewhere that
states what it likes, since `audit timeline-build` accepts any that is well-formed; `materialize_bundle` writes it and
`verify_bundle_directory` walks it, one action per file operation. Makers may be killed, fail on a source, or find the
root there already; when none runs and one has finished, others change the directory, also between two reads of the
verifier. Contents are what a comparison of digests tells apart. `witnessed` and `quiet` are history: which members
held their declared bytes at some time since verification began, and whether anything changed meanwhile. `Judged` is
`build_completeness` with `build_verification`. The manifest's own atomic write is `Stage` and `Publish...`, as in
SafeWrite without power failures.

### TrustVerification

`verify_bundle` and `verify_envelope`. `VerifyBundle` is one step; for each signature the search for a trust path
(`_trust_path`) takes one entry off its frontier per step (`PathTooDeep`, `Anchor`, `Expand`, `Exhausted`), then
`Judge` combines revocations and windows of all that the signature rests on, and `Total` gives the overall status.
A document of the bundle is its scope and what it is about; the four lists of constraints are one list of purposes;
what a signature shows by itself is `meets`. The order of delegations in the bundle is kept, because the walk, and
the cycle check with its dictionary (`Last`), depend on it.

### ReleaseGovernance

The governance process: evidence is collected and decided on (`Collect`, `Decide`), approval is requested for
decisions, actors approve and reject, days pass, quorum and separation are evaluated over the records on hand, and a
gate judges a candidate. Results are documents: `quorum` and `separation` stay as they were computed while records
and days go on, and `Promote` takes any decisions, request and listed approvals, as the command does. A requirement's
constraints are one field `meets`; records of another scope or policy do not occur; the gate's conditions that only
compare documents are taken as met (they can only block more).

### RuntimeContinuity

`evaluate_continuity` in its setting: a deployment is replaced (`Redeploy`), an observer records what it sees
under some plan (`Observe`), somebody evaluates the record with documents of any instance (`Evaluate`). `Chain`
lists the conditions of the if-chain in the code's order with their verdicts (consecutive ones with one verdict are
merged), and `Evaluate` takes the first that holds. `Unacceptable` and `RequiredBy` are the five built-in policies.
`EvidenceRecord.wrong` is history: what really ran otherwise than declared. `Truthful` is what is assumed of the
observer: what it observes directly is what runs; proxies may hide a difference, unexpected components may be
overlooked, and the digest of the whole set may be copied from the manifest, as `build_artifact_observation` does.
Identities are "as declared" or "different"; the thirty reference comparisons are the identity of instance, plan
and record. A runtime-generated member compares provenance rather than identity, with the same effect.

## 3. What each run checks

Each run finishes within five minutes with two workers. "Terminating" means that CHECK_DEADLOCK is off because the
modelled program ends. Type invariants are proved (section 5), not run.

| Run | Properties | Bounds | States |
|---|---|---|---|
| `safe_write` | NoStrayTemporaries, RefusedIsKept, ImplementsAtomicFile | 2 writers, 2 inodes, 1 chunk, 2 faults; terminating; symmetry of writers and files | 736,342 |
| `payload_observation` | RecordsAreOfTheFiles, NoFileTwice, CompleteCoversBothInventories, QuietRootIsComplete, OnlyGrowthDelays | 2 names, 2 inodes, 3 contents, 2 roots, 2 changes; limits 2 files, 3 bytes; with and without an exclusion; terminating | 2,594,773 |
| `conversion_capture` | InputsAreTheRecorded, TargetIsTheRecorded, ReportsAreOfOneRun | 2 runs, 1 role, 2 versions, 2 commits, 2 changes; terminating | 2,667,153 |
| `custody_ledger` | HeadCommitsToHistory, AuthenticityIsEarned, AppendedLedgersVerify | 2 files, 2 commands, 2 artifacts, 2 profiles, 4 attestations, 5 declarations, 4 events, 1 missing document | 743,736 |
| `remote`, the client | AuthorizationStaysHome, ResponsesAreClosed, ClientEnds, ImplementsReadRange | 2 approved hosts and one not, blocks of 2, responses of 3, 2 redirects; WF of the client | 409,083 |
| `remote`, the parser | ValuesAreTheFiles, HeaderOnce, RefusalsAreDue, InventoryIsConsistent | file of 215 bytes, requests of 45, read-ahead 40, total 200, 6 requests; 2 entries, 2 tensors | |
| `trust`, verification | TrustIsAnchored, FindsAnchor, UnmaskedIsFatal, VerificationEnds | lists of up to 4 of 9 delegations over 4 keys, in every order, with one root, a second one that is disabled, or one on the way that may not delegate so far; a chain and a branch with up to 2 revocations or a window; 6 policies; WF of the verifier | 983,722 |
| `trust`, propagation | NothingUnrelated, EveryDependent, RefusalMeansDepth, PropagationEnds | 5 objects, up to 5 edges, 4 nodes, depth 3, lists of 2 in a result; WF of the walk | |
| `trust`, bundles | VerdictIsOfTheDirectory, ManifestComesLast, VerifiedHistoryIsWhole | 4 events, 2 moments, 2 makers, 4 member paths in 2 directories, 6 bundles to make, 4 kinds of change, 2 changes | |
| `verdicts`, continuity | PassIsEarned, ReviewableIsIntact | 3 members, 2 instances, 2 sequences, age 0, all 5 policies, evidence with up to 2 shortcomings | 1,093,586 |
| `verdicts`, governance | AllowedRestsOnEvidence, PromotedWasApproved, QuorumIsStable | 3 requirements, 8 pieces of evidence, 4 actors, 2 days, 3 records, 1 decision after others, one release at a time | |

Components that share no state share a run: `MCRemote`, `MCTrust` and `MCVerdicts` extend the MC modules of two or
three, and their variable `focus` says which one works in a behaviour while the others rest in an initial state. The
state spaces are added up, not multiplied, and each component has the behaviours it has by itself; `ClientEnds`,
`VerificationEnds` and `PropagationEnds` are the components' own `Ends` and `TrustEnds` where they have the focus.
These three are terminating.

Five more runs check what the documentation says and find it broken by what the code does (section 6):
`header_preview`, `late_evidence`, `forked_timeline`, `unidentified_member` and `masked_revocation`.

Why the bounds are enough. Two racing calls, runs, commands or makers show every pairwise race, and nothing in the
code counts its peers. Two changes by other programs are what it takes to change something and change it back, the
shortest way to fool a check that looks twice; the proofs show that more do not matter. Two names and two inodes give
aliases, swaps and removals; initial states of `payload_observation` are taken up to renaming roots and files
(`MCInit`). Four ledger events are the derived segment of two with two appends, so that an append follows an append.
The header bounds make every one of keys, strings, numbers and dimensions longer than a request possible, windows that
end inside any field, and every cap reachable. Graphs with five edges contain the shapes that matter: a branch that
joins, a cycle through the target, a chain one longer than the limit; four delegations over four keys likewise, with a
root at either end of a cycle, and three with a root half way. Two revocations are the least of which one may hide the
other, as are two shortcomings of evidence. A fork and a gap each take one event of the four, and an event that
arrives after the cutoff another. Three records are every approval there is, one of which is by the requester's key,
or two of them and a rejection; two days are before and after one ends. Decisions on a second artifact are there from
the start, so that results of one release can be presented for another. Every module with proofs shows that its safety
properties do not depend on these bounds.

What breaks them: each property has a mutant of the code that must violate it, for example a window read from its
start instead of the cursor, a depth counted from zero, sources not hashed again after the run, a run that resumes
where a killed one left reports, a stale subject compared with an event's, values required by the policy taken
from the observer's word, a walk over delegations that goes depth first, `mkdir` with `exist_ok`, a timeline
whose forks do not count, rejections looked at only when the quorum is short.

## 4. Fairness

Safety needs none. Liveness is claimed three times, each for one sequential caller whose every step returns:

- `ClientEnds`: WF of the client's next step. It is one thread, and each step of a response ends by the transport's
  time-out (an endless body is a body longer than the cap). No fairness of the provider is assumed.
- `PropagationEnds`: WF of the walk, a loop in memory.
- `VerificationEnds`: WF of the verifier's next step, again a loop in memory. The walk over delegations ends because
  no entry of the frontier repeats a key and the policy bounds their depth, not because cycles are excluded.

That a payload observation ends is *not* claimed, because the code does not see to it. The loop that reads a file
(`observation.py:139`) has no bound, and the byte limit is compared only after it (207), so that a file which grows as
fast as it is read is read for ever; and the open of a FIFO that replaced a file (133) waits for a writer. What holds
is OnlyGrowthDelays: nothing but a longer file ever gives the observer more to do. It needs no fairness, and
ObserverDescends proves it.

Custody, capture, bundles and header parsing have no liveness property: a command may be killed, and a lost one is
not retried. Nor has governance: nobody is obliged to approve.

## 5. What is proved

For every value of the constants that meets the named assumptions (which TLC evaluates in each run):

| Proof module | Theorems | The inductive invariant, and why it is needed |
|---|---|---|
| SafeWriteProofs | TypeCorrect, NeverTornHolds, RefusedIsKeptHolds, NoStrayTemporariesHolds, Refinement; CallsDescend | `TempInv`: a call's temporary file is its own, in the directory, and no other call's; `FileInv`: an inode that any path, in memory or on disk, leads to is whole and synced. A torn report is only excluded because nobody else can write the file that `replace` moves, and a temporary file is only cleaned up because its name is given to no second call. |
| PayloadObservationProofs | TypeCorrect, RecordsAreOfTheFilesHolds, NoFileTwiceHolds, CompleteCoversBothInventoriesHolds, QuietRootIsCompleteHolds; ObserverDescends | eight parts, one per stage: what was listed, what the open descriptor has read (`ReadInv`: until the stamp moves, the buffer is a prefix of the file), `HeldInv`, `RecordInv`, `AliasInv`, `VerdictInv`. For a root that nobody changes, `QuietInv`: every inventory says what is there, nothing has been found, and the totals that the byte limit is compared with are the number of blocks of the names looked at so far, whichever order they were taken in (`QuietTotals`, a cardinality, since a sum over names would need an induction). |
| ConversionCaptureProofs | TypeCorrect, InputsAreTheRecordedHolds, TargetIsTheConvertedHolds, DigestIsCurrentHolds, TargetIsTheRecordedHolds, ReportsAreOfOneRunHolds | what a run has recorded is current or somebody changed it since (`SourceInv`, `ToolInv`, `TargetInv`), and which reports are whose (`ReportInv`). |
| CustodyLedgerProofs | TypeCorrect, HeadCommitsToHistoryHolds, HeadCommitsForEver, NoClaimTwiceHolds, AuthenticityIsEarnedHolds, LinkageReconstructsHolds, AppendedLedgersVerifyHolds | every ledger held by a command or stored is `Sound`; the lemma AppendSound shows that each append the code accepts keeps it so. HeadCommitsForEver also compares ledgers stored at different times: a head once seen stands for one history, even if its file was appended to or overwritten since. What no digest covers, the profile, may differ. AppendedLedgersVerifyHolds is an equivalence and assumes nothing of what users declare: a stored ledger verifies exactly if every declared event is `Sensible`. |
| RemoteHeaderProofs | TypeCorrect, ValuesAreTheFilesHolds, NothingTwiceHolds, OnlyTheHeaderHolds, HeaderOnceHolds, RefusalsAreDueHolds, InventoryIsConsistentHolds; ParserDescends | `Ahead`: the window never ends beyond the cursor plus what any header must still contain (`Rest`). OnlyTheHeader is not inductive alone, since whether reading ahead was sound is only seen fields later. |
| RangeClientProofs | TypeCorrect, AuthorizationStaysHomeHolds, BytesAreBoundedHolds, ResponsesAreClosedHolds, Refinement; CallDescends | where the control is and what is open there (`Control`), and where credentials are (`AuthAtHome`). |
| ContinuousTrustProofs, of RevocationPropagation | TypeCorrect, NothingUnrelatedHolds, EveryDependentHolds, RefusalMeansDepthHolds; SpreadDescends | an object that is seen has its successors seen or on the stack (`Pending`), whatever is on the stack is reachable (`Related`) over a chain of different objects that has been followed and is as long as its depth says (`Distance`), so that a refusal shows a chain of MaxDepth. |
| ContinuousTrustProofs, of TrustTimeline and AuditBundle | AuditTypeCorrect, ManifestComesLastHolds, VerdictIsOfTheDirectoryHolds, VerifiedHistoryIsWholeHolds; AuditDescends | `MakingInv`: at most one maker got past `mkdir`, and how far it is says which paths hold what. `VerifyingInv`: what was read was there (`witnessed`), and while the directory is quiet every entry is listed, looked at or still in a directory to list. VerifiedHistoryIsWhole is about timelines that build_timeline made; what is known at a past cutoff does not change, since a record only grows by what becomes available now. |
| VerdictProofs, of RuntimeContinuity | TypeCorrect, PassIsEarnedHolds, ReviewableIsIntactHolds | the properties with TypeOK are inductive; the work is in the lemma Earlier, which says which conditions cannot have held given the verdict. |
| VerdictProofs, of TrustVerification | TrustTypeCorrect, FindsAnchorHolds, UnmaskedIsFatalHolds, TrustIsAnchoredHolds; TrustDescends | each chain that may anchor the signer and passes through no other active root still begins with an entry of the frontier (`NothingOverlooked`), whose paths are in order of length and differ by at most one (`InWidth`): without the second a path found first need not be a shortest. `Sure` is what a result says, whatever comes after. |
| VerdictProofs, of ReleaseGovernance | GovernanceTypeCorrect, AllowedRestsOnEvidenceHolds, QuorumIsStableHolds, PromotedWasApprovedHolds | results keep saying what was so when they were computed (`QuorumSpoke`, `DutiesSeparated`), since records are only added; `PromotedSoundly` is what the gate compared. QuorumIsStable holds because each part of a quorum is monotone in the approvals. |

Some theorems state what no run checks because a stronger property of the run implies it or because it says less
about the code: type correctness, NeverTorn (implied by ImplementsAtomicFile), NoClaimTwice, LinkageReconstructs,
NothingTwice and OnlyTheHeader (together HeaderOnce), TargetIsTheConverted, DigestIsCurrent and BytesAreBounded.

Termination. The theorems after a semicolon prove the half of liveness that does not need fairness: each module gives
the process a rank, a tuple of natural numbers, and every step of the process lowers it in the lexicographic order,
which is well founded (`Descent`); so no process can take steps for ever. What the rank is made of is why it ends:

| Theorem | Rank, from what counts most | What others can do to it |
|---|---|---|
| SafeWriteProofs, CallsDescend | the statement; chunks yet to write | nothing: other calls, other programs, kills and power failures leave it or lower it |
| PayloadObservationProofs, ObserverDescends | the stage; names yet to look at; the system call; blocks yet to read | only a file made longer while it is read raises it |
| RemoteHeaderProofs, ParserDescends | bytes of the file after the cursor; whether the parser is still going | nobody else acts |
| RangeClientProofs, CallDescends | redirects left; the stage of the request; bytes the cap still allows | the provider chooses answers only |
| ContinuousTrustProofs, SpreadDescends | the stage; objects not yet seen; the stack | nobody else acts |
| ContinuousTrustProofs, AuditDescends | of a maker: the stage, members left, the one being opened; of the verifier: the stage, directories to list, entries to look at, members to read | nothing: makers, other programs, time and new evidence leave it as it is |
| VerdictProofs, TrustDescends | signatures left; the stage; how much longer than the first path a path may get; paths as long as the first | nobody else acts |

In TrustDescends an entry of the frontier may be replaced by any number of longer ones, so its size says nothing: what
gets less is the room between the shortest path and the policy's depth, and then the paths that are as short, which
needs the order of the frontier (`InWidth`). Of AuditBundle, SafeWrite and RemoteHeader the descent theorems say what
no run checks.

Only model-checked: liveness itself (`ClientEnds`, `PropagationEnds`, `VerificationEnds`). That a step stays possible
until the end is a matter of ENABLED, and the conclusion from descent and fairness one by induction over the rank;
both are out of the prover's reach. Every invariant and action property of the passing runs, and both refinements, are
theorems.

Assumptions on constants are named, in the module that declares them. They give types, separate markers from data
(`None` is no file, no record, no digest), say what the models' validation of a policy or a limit guarantees, and, for
termination, that the names that exist are finitely many (`Paths` and `Directories` of AuditBundle, as
on any disk; `Objects` of RevocationPropagation, as in any list of edges).

## 6. Where code and documentation disagree

Five runs show that the code does otherwise than the documentation says. `tr` is
`docs/reference/technical-reference.md`, `5h` is `docs/phase-5h-continuous-trust-audit-bundles.md`.

- `header_preview`: the preview of an array of more empty strings than the preview limit outgrows it, and the
  inventory of a legal header is refused (`remote/gguf_header.py:536`; tr 1032-1038).
- `late_evidence`: limits and subjects are looked at over all the events supplied, before those that were not
  available at the cutoff are left out (`continuous_trust/building.py:394`, 667). Evidence that arrives later can make
  a past cutoff be refused; "evidence first available after the cutoff cannot affect the earlier result" (tr 2109, 5h
  53). Where neither builder refuses, the answers are the same but for the list of late evidence.
- `forked_timeline`: a bundle with everything its purpose requires is not verified if its timeline is partial
  or forked (`continuous_trust/building.py:720`); "a purpose-complete bundle can retain a partial or forked timeline"
  (5h 116).
- `unidentified_member`: a required member without any observed identity does not keep a verdict from PASS if the
  observer recorded its dimension as covered (`runtime/continuity.py:478`); "missing mandatory dimensions cannot produce
  full PASS" (tr 2041). It is the exception in PassIsEarned.
- `masked_revocation`: a revocation whose date cannot be compared hides one that is in force, if the policy does not
  require that revocations are evaluated (`trust/verification.py:542`); "2 for [...] authoritative revocation" (tr 1648).
  It is `Masked` in UnmaskedIsFatal, and TrustIsAnchored allows it.

The rest was noticed while modelling. The models follow the code, and the properties say what is left.

- Output: `safe_write` lets an unlink fail for any reason but a missing file (72), so that a temporary file may stay
  behind although the failure was handled; NoStrayTemporaries excepts it.
- Custody: `custody append` does not look at what verification objects to (`custody/append.py:77`): a declared event
  that names an output and transforms nothing is written, as consistent, into a ledger that `custody verify` then
  refuses to load. AppendedLedgersVerify says exactly when. The profile of a ledger is in no event digest
  (`cli.py:1690`, `custody/builder.py:402` and 431): two ledgers with one head digest may differ in it and in the
  analysis of missing events, and a head digest does not identify a ledger file.
- Runtime: `Chain` is in the order of the code, which is not everywhere that of `decision_precedence`, which the
  documentation calls the fail-closed precedence. Separation of duties is only looked at after coverage and age
  (`runtime/continuity.py:554`): a stale record of an observer who is not separated is exit 1. ReviewableIsIntact speaks
  of replay, drift, authority and trust only.
- Revocation: of two edges into one dependent that name different dimensions, `propagate_revocation` reports only
  those of the edge it takes first (`continuous_trust/building.py:522`). Whether a graph is too deep depends on the
  order of its edges, since depth is counted along the walk and not along a shortest chain (519); a refusal always
  shows a chain of that length, an acceptance does not exclude one.
- Trust: a chain of delegations that passes through another active root which may not anchor the signer is not looked
  at beyond it (`trust/verification.py:740`), so that a trusted root behind it is overlooked; FindsAnchor speaks of the
  other chains (`ThroughRoot`). The cycle check of `verify_bundle` keeps one delegation per delegate (273), whether the
  signer's own key is disabled is not looked at when it is trusted by delegation, and only the first path found is
  judged: a second one that nothing revokes is not tried. What has no validity window is always in date, and a window
  without a time to compare it with is accepted where the policy does not require a validity: exit 0 is not "in date".
- Timelines: predecessors are not looked up and completeness counts the numbers of all epochs and namespaces together
  (`continuous_trust/building.py:400`); `compare_snapshots` does not report a dimension that weakened when a policy
  was reclassified as well. `available_at` is whatever the event says.
- Bundles: the verifier takes the completeness that a timeline member states at its word
  (`continuous_trust/bundles.py:212`); nothing compares it with the member's fork_ids or range
  (`continuous_trust/models.py:525`), and `audit timeline-build` makes a member of any timeline that is well-formed.
  VerifiedHistoryIsWhole is therefore about timelines of `build_timeline` (`built`). `README.md` may be a member
  (`continuous_trust/models.py:793` reserves only the manifest) and is then overwritten, so that the bundle never
  verifies; members are read one after the other, so that the whole need never have been there at one time.
- Remote: the number of requests is capped as well, and no property is about that cap. Arrays are read in chunks of
  whole elements (`remote/gguf_header.py:559`), as in `Chunk`; values of elements are not modelled, so no property
  would notice one that is split.
- Governance: the gate looks at the outcomes of quorum and separation results and at no request or record behind
  them, hence `Coherent` in PromotedWasApproved, and an approval that ends after the quorum was evaluated still
  counts. One actor in two roles gives two approvals. Several fields of a policy are never read (`unanimous`,
  `missing_evidence_behavior`, `stale_evidence_behavior`, `required_object_types`). An optional requirement with
  revoked evidence is ALLOW, and with none ALLOW_WITH_LIMITATIONS; unavailable evidence hides revoked evidence.

## 7. Not modelled, and the plan

`PROJECT.json` "components" gives the reason for each part without a module. In short: pure functions of finished
documents whose only state is their result (reconciliation, comparison, mapping, tokenizer parity, assembly of
bundles and passports), floating-point measures, rendering, data tables, cryptography and third-party parsers.

Planned, in this order; a new property takes the place of a shallower one when it is better:

1. **SplitAggregation** (`remote/split_aggregation.py`) over inventories with the properties that RemoteHeader
   proves: every tensor in exactly one shard, spans disjoint, against a quadratic reference definition.
2. Reference definitions for `compare_manifests` (rename pairing), `compare_snapshots` and the grouped comparison
   engine.
3. Of the modules here: the remaining derived custody events, the report bundle next to
   a ledger, `detect_observation_forks` for RuntimeContinuity, directories in PayloadObservation, forks of epochs in
   TrustTimeline.
4. Proofs that RemoteHeader with RangeClient in place of `Fetch` keeps its properties (by ReadRange), that
   CustodyLedger with SafeWrite's outcome in place of `Write` and AuditBundle with it in place of `Stage` and
   `Publish...` do (by AtomicFile).

A liveness property for custody would need a retry that the code lacks.
