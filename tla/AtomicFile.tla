----------------------------- MODULE AtomicFile -----------------------------
(***************************************************************************)
(* What a caller of omiv.safe_write.atomic_write_text may rely on, without *)
(* temporary files, system calls or caches: a report path holds one value  *)
(* at a time, a call installs its whole text in one step or leaves the     *)
(* path alone, and a power failure falls back to a value the path held     *)
(* before.  SafeWrite implements this specification.                       *)
(***************************************************************************)
CONSTANTS
  Writers,      \* the calls of atomic_write_text; a call is its own text
  Others        \* what the path holds when no call's text is there

VARIABLES
  visible,      \* what a reader of the path finds now
  durable,      \* what a reader finds after a power failure
  call          \* [Writers -> how far the call is, to its caller]

Values == Writers \cup Others
Outcomes == {"idle", "running", "committed", "aborted"}

Init ==
  /\ visible \in Others
  /\ durable = visible
  /\ call = [w \in Writers |-> "idle"]

Begin(w) ==
  /\ call[w] # "running"
  /\ call' = [call EXCEPT ![w] = "running"]
  /\ UNCHANGED <<visible, durable>>

Commit(w) ==
  /\ call[w] = "running"
  /\ call' = [call EXCEPT ![w] = "committed"]
  /\ visible' = w
  /\ UNCHANGED durable

Abort(w) ==
  /\ call[w] = "running"
  /\ call' = [call EXCEPT ![w] = "aborted"]
  /\ UNCHANGED <<visible, durable>>

\* Another program puts something else at the path.
Interfere ==
  /\ visible' \in Others
  /\ UNCHANGED <<durable, call>>

Persist ==
  /\ durable' = visible
  /\ UNCHANGED <<visible, call>>

PowerFailure ==
  /\ visible' = durable
  /\ call' = [w \in Writers |->
                IF call[w] = "running" THEN "aborted" ELSE call[w]]
  /\ UNCHANGED durable

Next ==
  \/ \E w \in Writers : Begin(w) \/ Commit(w) \/ Abort(w)
  \/ Interfere
  \/ Persist
  \/ PowerFailure

vars == <<visible, durable, call>>

Spec == Init /\ [][Next]_vars
=============================================================================
