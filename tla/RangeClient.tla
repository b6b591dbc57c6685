----------------------------- MODULE RangeClient -----------------------------
(***************************************************************************)
(* BoundedRangeClient.read of omiv.remote.range_client: one call, against  *)
(* a provider that may redirect it, answer anything, stop in the middle of *)
(* a body or never end one.                                                *)
(*                                                                         *)
(* A URL is its host; one that the host policy refuses for its scheme, its *)
(* port or its user information is a host that is not approved.  A body is *)
(* the number of bytes it holds.                                           *)
(***************************************************************************)
EXTENDS Integers

CONSTANTS
  Hosts, Approved,    \* what URLs lead to; what HostPolicy.validate accepts
  None, Failed,
  Calls,              \* arguments of read
  Responses,          \* what a provider may answer
  Block,              \* the most that is read of a body at once
  MaxResponse, MaxErrorBody, MaxRedirects   \* limits of the client

Call == [host : Hosts, offset : Nat, length : Nat, expected : Nat \cup {None},
         authorization : BOOLEAN]
ContentRange == [first : Nat, last : Nat, total : Nat]
Response ==
  [status   : {"redirect", "partial", "whole", "other"},
   fits     : BOOLEAN,                    \* the headers are within their cap
   location : Hosts \cup {None},
   plain    : BOOLEAN,                    \* neither encoded nor multipart
   range    : ContentRange \cup {None},   \* None: absent or malformed
   declared : Nat \cup {None},            \* Content-Length
   size     : Nat]                        \* bytes the provider sends

ASSUME HostsAssumption == Approved \subseteq Hosts /\ None \notin Hosts
ASSUME NoneAssumption ==
  /\ None \notin Response /\ None # Failed
  /\ None \notin {"bytes", "refused", "failed"}
ASSUME CallsAssumption == Calls \subseteq Call
ASSUME ResponsesAssumption == Responses \subseteq Response
ASSUME LimitsAssumption ==
  /\ Block \in Nat \ {0} /\ MaxResponse \in Nat \ {0}
  /\ MaxErrorBody \in Nat \ {0} /\ MaxRedirects \in Nat

VARIABLES
  call,        \* the arguments
  pc,          \* "call", "send", "sent", "answered", "body", "error", "done"
  url,         \* current_url
  redirects,
  auth,        \* the Authorization header is still sent
  response,    \* the response being handled, None if there is none
  open,        \* how many responses are not closed
  got,         \* bytes read of this response's body
  outcome,     \* None, "bytes", "refused" or "failed"
  visited,     \* history: the hosts that were sent a request
  taken        \* history: bytes read of all bodies

clientVars == <<call, pc, url, redirects, auth, response, open, got, outcome, visited, taken>>

End == call.offset + call.length - 1
-----------------------------------------------------------------------------
\* The call ends; `finally` closes the response.
Return(o) ==
  /\ pc' = "done" /\ outcome' = o
  /\ open' = open - 1
  /\ UNCHANGED <<call, url, redirects, auth, response, visited>>

Valid == call.length \in 1..MaxResponse /\ call.host \in Approved

Refuse ==
  /\ pc = "call" /\ ~Valid
  /\ pc' = "done" /\ outcome' = "refused"
  /\ UNCHANGED <<call, url, redirects, auth, response, open, got, visited, taken>>

Begin ==
  /\ pc = "call" /\ Valid
  /\ pc' = "send" /\ url' = call.host /\ auth' = call.authorization
  /\ UNCHANGED <<call, redirects, response, open, got, outcome, visited, taken>>

Send ==
  /\ pc = "send"
  /\ pc' = "sent" /\ visited' = visited \cup {url}
  /\ UNCHANGED <<call, url, redirects, auth, response, open, got, outcome, taken>>

TransportFails ==
  /\ pc = "sent"
  /\ pc' = "done" /\ outcome' = "failed"
  /\ UNCHANGED <<call, url, redirects, auth, response, open, got, visited, taken>>

Respond ==
  /\ pc = "sent"
  /\ response' \in Responses
  /\ pc' = "answered" /\ open' = open + 1 /\ got' = 0
  /\ UNCHANGED <<call, url, redirects, auth, outcome, visited, taken>>

Redirected == response.fits /\ response.status = "redirect"

MayFollow == redirects < MaxRedirects

\* Mutant: the destination is compared with the host that redirected to it.
SameAsBefore == call.authorization /\ response.location = url

KeepsAuth == auth /\ response.location = call.host

Destination == response.location \in Approved

\* Mutant: redirects are counted only when they leave the original host.
CountAway == IF response.location = call.host THEN redirects ELSE redirects + 1

Counted == redirects + 1

Follow ==
  /\ pc = "answered" /\ Redirected /\ MayFollow /\ Destination
  /\ pc' = "send" /\ url' = response.location
  /\ redirects' = Counted
  /\ auth' = KeepsAuth
  /\ open' = open - 1
  /\ UNCHANGED <<call, response, got, outcome, visited, taken>>

RefuseRedirect ==
  /\ pc = "answered" /\ Redirected /\ ~(MayFollow /\ Destination)
  /\ Return(IF MayFollow /\ response.location # None THEN "refused" ELSE "failed")
  /\ UNCHANGED <<got, taken>>

\* Mutant: only the length of the interval is compared.
SameLength ==
  /\ response.range # None
  /\ response.range.last - response.range.first = call.length - 1
  /\ response.range.total > response.range.last
  /\ call.expected \in {None, response.range.total}

RangeMatches ==
  /\ response.range # None
  /\ response.range.first = call.offset /\ response.range.last = End
  /\ response.range.total > End
  /\ call.expected \in {None, response.range.total}

Acceptable ==
  /\ response.fits /\ response.status = "partial"
  /\ response.plain /\ RangeMatches
  /\ response.declared \in {None, call.length}

Accept ==
  /\ pc = "answered" /\ Acceptable
  /\ pc' = "body"
  /\ UNCHANGED <<call, url, redirects, auth, response, open, got, outcome, visited, taken>>

ErrorAnswer == response.fits /\ response.status = "other"

ReadError ==
  /\ pc = "answered" /\ ErrorAnswer
  /\ pc' = "error"
  /\ UNCHANGED <<call, url, redirects, auth, response, open, got, outcome, visited, taken>>

RefuseAnswer ==
  /\ pc = "answered"
  /\ ~Redirected /\ ~ErrorAnswer /\ ~Acceptable
  /\ Return("failed")
  /\ UNCHANGED <<got, taken>>
-----------------------------------------------------------------------------
\* Up to n bytes, in as many reads as the provider makes of them.
Reads(n) == {k \in 1..n : k <= Block /\ k <= response.size - got}

Take(k) == got' = got + k /\ taken' = taken + k

Limit == IF call.length < MaxResponse THEN call.length ELSE MaxResponse

Amount == Limit + 1 - got

ReadBody ==
  /\ pc = "body" /\ got <= Limit
  /\ \E k \in Reads(Amount) : Take(k)
  /\ UNCHANGED <<call, pc, url, redirects, auth, response, open, outcome, visited>>

Whole == got = call.length

BodyEnds ==
  /\ pc = "body"
  /\ got > Limit \/ got = response.size
  /\ Return(IF got <= Limit /\ Whole THEN "bytes" ELSE "failed")
  /\ UNCHANGED <<got, taken>>

ReadErrorBody ==
  /\ pc = "error" /\ got < MaxErrorBody + 1
  /\ \E k \in Reads(MaxErrorBody + 1 - got) : Take(k)
  /\ UNCHANGED <<call, pc, url, redirects, auth, response, open, outcome, visited>>

ErrorBodyEnds ==
  /\ pc = "error"
  /\ got = MaxErrorBody + 1 \/ got = response.size
  /\ Return("failed")
  /\ UNCHANGED <<got, taken>>

\* Mutant: the response is closed only when the call returns normally.
LeaveOpen ==
  /\ pc \in {"body", "error"}
  /\ pc' = "done" /\ outcome' = "failed"
  /\ UNCHANGED <<call, url, redirects, auth, response, open, got, visited, taken>>

ReadFails ==
  /\ pc \in {"body", "error"}
  /\ Return("failed")
  /\ UNCHANGED <<got, taken>>

ClientInit ==
  /\ call \in Calls
  /\ pc = "call" /\ url = call.host /\ redirects = 0 /\ auth = FALSE
  /\ response = None /\ open = 0 /\ got = 0 /\ outcome = None
  /\ visited = {} /\ taken = 0

Read ==
  \/ Refuse \/ Begin \/ Send \/ TransportFails \/ Respond
  \/ Follow \/ RefuseRedirect \/ Accept \/ ReadError \/ RefuseAnswer
  \/ ReadBody \/ BodyEnds \/ ReadErrorBody \/ ErrorBodyEnds \/ ReadFails

Done == pc = "done" /\ UNCHANGED clientVars

ClientNext == Read \/ Done

ClientSpec == ClientInit /\ [][ClientNext]_clientVars
\* The call is one thread of control, and the transport's timeout ends a wait.
FairClientSpec == ClientSpec /\ WF_clientVars(Read)
-----------------------------------------------------------------------------
(* Properties *)

\* Types; the client's counters within its limits.
ClientTypeOK ==
  /\ call \in Call
  /\ pc \in {"call", "send", "sent", "answered", "body", "error", "done"}
  /\ url \in Hosts /\ auth \in BOOLEAN
  /\ redirects \in 0..MaxRedirects
  /\ response \in Response \cup {None}
  /\ outcome \in {None, "bytes", "refused", "failed"} /\ (outcome = None <=> pc # "done")
  /\ visited \subseteq Hosts
  /\ open \in Nat /\ got \in Nat /\ taken \in Nat

\* Whatever the redirects, no request goes to a host the policy does not
\* approve; and once one has left the original host, none carries the
\* Authorization header, not even one redirected back.
OnlyApproved == visited \subseteq Approved
AuthorizationStaysHome ==
  /\ OnlyApproved
  /\ pc = "sent" /\ auth => call.authorization /\ visited = {call.host}

\* The whole call reads one byte more than was asked for at most, or than an
\* error body may have; nothing of a redirect, nor of a body that is the file.
BytesAreBounded ==
  /\ response = None => taken = 0
  /\ response # None =>
       /\ response.status = "partial" => taken <= call.length + 1
       /\ response.status = "other" => taken <= MaxErrorBody + 1
       /\ response.status \in {"redirect", "whole"} => taken = 0

\* At most one response is open at a time and none when the call has ended.
ResponsesAreClosed ==
  open = (IF pc \in {"answered", "body", "error"} THEN 1 ELSE 0)

\* The call comes to an end, also if every answer is another redirect.
Ends == <>(pc = "done")

\* A successful read is the interval asked for, complete, as ReadRange promises.
Answer ==
  IF outcome = None THEN None
  ELSE IF outcome = "bytes"
  THEN [first |-> response.range.first, last |-> response.range.first + got - 1]
  ELSE Failed

Promise == INSTANCE ReadRange WITH
  wanted <- [first |-> call.offset, last |-> End], answer <- Answer

ImplementsReadRange == Promise!Spec
=============================================================================
