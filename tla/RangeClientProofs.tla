-------------------------- MODULE RangeClientProofs --------------------------
(***************************************************************************)
(* Proofs about RangeClient, for every host policy, call, provider and     *)
(* limit.  The inductive invariant Inv adds to the properties what holds   *)
(* at each point of the call (Control): where the request goes, what the   *)
(* response was found to be before its body is read, and how much of it    *)
(* has been read.                                                          *)
(***************************************************************************)
EXTENDS RangeClient, Descent, TLAPS

Requesting == {"send", "sent", "answered", "body", "error"}

Control ==
  /\ pc = "call" => ~auth /\ visited = {} /\ response = None /\ taken = 0
  /\ pc \in Requesting => Valid /\ url \in Approved
  /\ pc \in {"send", "sent"} => response = None \/ response.status = "redirect"
  /\ pc \in {"send", "sent", "answered"} => taken = 0
  /\ pc \in {"answered", "body", "error"} => response # None
  /\ pc = "answered" => got = 0
  /\ pc = "body" => Acceptable /\ taken = got /\ got <= Limit + 1
  /\ pc = "error" => ErrorAnswer /\ taken = got /\ got <= MaxErrorBody + 1
  /\ outcome = "bytes" => RangeMatches /\ got = call.length
  /\ response # None => response \in Response

\* The header is sent as long as the call has not left its original host.
AuthAtHome ==
  /\ auth => call.authorization /\ url = call.host /\ visited \subseteq {call.host}
  /\ pc = "sent" => url \in visited

Inv == ClientTypeOK /\ Control /\ AuthAtHome /\ OnlyApproved /\ BytesAreBounded
         /\ ResponsesAreClosed
-----------------------------------------------------------------------------
\* A valid call asks for no more than a response may hold.
LEMMA LimitIsLength ==
  ClientTypeOK /\ Valid => Limit = call.length /\ call.length \in Nat /\ call.host \in Approved
BY LimitsAssumption DEF ClientTypeOK, Valid, Limit, Call

\* Until the call ends it has no outcome.
LEMMA Waiting == ClientTypeOK /\ pc # "done" => outcome = None /\ outcome # "bytes"
BY NoneAssumption DEF ClientTypeOK

\* The invariant holds before the call.
LEMMA InvInit == ClientInit => Inv
<1> SUFFICES ASSUME ClientInit PROVE Inv
  OBVIOUS
<1>1. call \in Call /\ call.host \in Hosts
  BY CallsAssumption DEF ClientInit, Call
<1>2. ClientTypeOK
  <2>1. redirects \in 0..MaxRedirects
    BY LimitsAssumption DEF ClientInit
  <2>2. open \in Nat /\ got \in Nat /\ taken \in Nat
    BY DEF ClientInit
  <2> QED BY <1>1, <2>1, <2>2 DEF ClientInit, ClientTypeOK
<1>3. Control
  BY NoneAssumption DEF ClientInit, Control, Requesting
<1>4. AuthAtHome /\ OnlyApproved /\ BytesAreBounded /\ ResponsesAreClosed
  BY DEF ClientInit, AuthAtHome, OnlyApproved, BytesAreBounded, ResponsesAreClosed
<1> QED BY <1>2, <1>3, <1>4 DEF Inv

\* The steps before a request is sent, and the one that sends it.
LEMMA RequestSteps == Inv /\ (Refuse \/ Begin \/ Send \/ TransportFails) => Inv'
<1> USE DEF Inv
<1>1. ASSUME Inv, Refuse PROVE Inv'
  <2>1. ClientTypeOK'
    BY <1>1, NoneAssumption DEF Refuse, ClientTypeOK
  <2>2. Control'
    BY <1>1 DEF Refuse, Control, Requesting
  <2>3. AuthAtHome' /\ OnlyApproved' /\ BytesAreBounded' /\ ResponsesAreClosed'
    BY <1>1 DEF Refuse, AuthAtHome, OnlyApproved, BytesAreBounded, ResponsesAreClosed
  <2> QED BY <2>1, <2>2, <2>3
<1>2. ASSUME Inv, Begin PROVE Inv'
  <2>1. ClientTypeOK'
    BY <1>2 DEF Begin, ClientTypeOK, Call
  <2>2. Control'
    BY <1>2, Waiting DEF Begin, Control, Requesting, Valid
  <2>3. AuthAtHome' /\ OnlyApproved' /\ BytesAreBounded' /\ ResponsesAreClosed'
    BY <1>2 DEF Begin, Control, AuthAtHome, OnlyApproved, BytesAreBounded, ResponsesAreClosed
  <2> QED BY <2>1, <2>2, <2>3
<1>3. ASSUME Inv, Send PROVE Inv'
  <2>1. ClientTypeOK'
    BY <1>3 DEF Send, ClientTypeOK
  <2>2. Control'
    BY <1>3, Waiting DEF Send, Control, Requesting, Valid
  <2>3. AuthAtHome' /\ OnlyApproved' /\ BytesAreBounded' /\ ResponsesAreClosed'
    BY <1>3 DEF Send, Control, Requesting, AuthAtHome, OnlyApproved, BytesAreBounded,
                ResponsesAreClosed
  <2> QED BY <2>1, <2>2, <2>3
<1>4. ASSUME Inv, TransportFails PROVE Inv'
  <2>1. ClientTypeOK'
    BY <1>4, NoneAssumption DEF TransportFails, ClientTypeOK
  <2>2. Control'
    BY <1>4 DEF TransportFails, Control, Requesting
  <2>3. AuthAtHome' /\ OnlyApproved' /\ BytesAreBounded' /\ ResponsesAreClosed'
    BY <1>4 DEF TransportFails, AuthAtHome, OnlyApproved, BytesAreBounded,
                ResponsesAreClosed
  <2> QED BY <2>1, <2>2, <2>3
<1> QED BY <1>1, <1>2, <1>3, <1>4

\* A response arrives; nothing of it has been read.
LEMMA RespondStep == Inv /\ Respond => Inv'
<1> SUFFICES ASSUME Inv, Respond PROVE Inv'
  OBVIOUS
<1>1. response' \in Response /\ response' # None
  <2>1. response' \in Response
    BY ResponsesAssumption DEF Respond
  <2> QED BY <2>1, NoneAssumption
<1>2. ClientTypeOK'
  BY <1>1 DEF Inv, Respond, ClientTypeOK
<1>3. Control'
  BY <1>1, Waiting DEF Inv, Respond, Control, Requesting, Valid
<1>4. AuthAtHome' /\ OnlyApproved' /\ ResponsesAreClosed'
  BY DEF Inv, Respond, AuthAtHome, OnlyApproved, ResponsesAreClosed
<1>5. BytesAreBounded'
  BY <1>1, LimitsAssumption DEF Inv, Respond, Control, BytesAreBounded, ClientTypeOK, Call
<1> QED BY <1>2, <1>3, <1>4, <1>5 DEF Inv

\* A redirect is followed: the header goes along only to the original host.
LEMMA FollowStep == Inv /\ Follow => Inv'
<1> SUFFICES ASSUME Inv, Follow PROVE Inv'
  OBVIOUS
<1>1. /\ UNCHANGED <<call, response, got, outcome, visited, taken>>
      /\ pc = "answered" /\ pc' = "send" /\ response # None
      /\ response.status = "redirect"
      /\ url' = response.location /\ url' \in Approved /\ url' \in Hosts
      /\ redirects < MaxRedirects /\ redirects' = redirects + 1
      /\ auth' = (auth /\ url' = call.host)
      /\ open' = open - 1
  BY HostsAssumption DEF Inv, Follow, Redirected, MayFollow, Destination, Counted,
                         KeepsAuth, Control
<1>2. open' \in Nat
  BY <1>1 DEF Inv, ResponsesAreClosed
<1>3. ClientTypeOK'
  BY <1>1, <1>2, LimitsAssumption DEF Inv, ClientTypeOK
<1>4. Control'
  BY <1>1, Waiting DEF Inv, Control, Requesting, Valid
<1>5. AuthAtHome'
  <2>1. auth' => auth /\ url' = call.host
    BY <1>1
  <2> QED BY <2>1, <1>1 DEF Inv, AuthAtHome
<1>6. OnlyApproved' /\ ResponsesAreClosed' /\ BytesAreBounded'
  BY <1>1 DEF Inv, OnlyApproved, ResponsesAreClosed, BytesAreBounded
<1> QED BY <1>3, <1>4, <1>5, <1>6 DEF Inv

\* The answer is read on, or an error's body is.
LEMMA AcceptStep == Inv /\ (Accept \/ ReadError) => Inv'
<1> SUFFICES ASSUME Inv, Accept \/ ReadError PROVE Inv'
  OBVIOUS
<1>1. /\ UNCHANGED <<call, url, redirects, auth, response, open, got, outcome, visited, taken>>
      /\ pc = "answered"
      /\ \/ pc' = "body" /\ Acceptable
         \/ pc' = "error" /\ ErrorAnswer
  BY DEF Accept, ReadError
<1>2. ClientTypeOK'
  BY <1>1 DEF Inv, ClientTypeOK
<1>3. Limit \in Nat
  BY <1>1, LimitsAssumption DEF Inv, ClientTypeOK, Limit, Call
<1>4. Control'
  BY <1>1, <1>3, LimitsAssumption
     DEF Inv, Control, Requesting, Valid, ClientTypeOK, Acceptable, RangeMatches, End, ErrorAnswer, Limit
<1>5. AuthAtHome' /\ OnlyApproved' /\ BytesAreBounded' /\ ResponsesAreClosed'
  BY <1>1 DEF Inv, AuthAtHome, OnlyApproved, BytesAreBounded, ResponsesAreClosed
<1> QED BY <1>2, <1>4, <1>5 DEF Inv

\* A part of a body is read.
LEMMA TakeStep == Inv /\ (ReadBody \/ ReadErrorBody) => Inv'
<1> SUFFICES ASSUME Inv, ReadBody \/ ReadErrorBody PROVE Inv'
  OBVIOUS
<1>1. UNCHANGED <<call, pc, url, redirects, auth, response, open, outcome, visited>>
  BY DEF ReadBody, ReadErrorBody
<1>2. got \in Nat /\ taken = got /\ Limit \in Nat
  BY LimitsAssumption DEF Inv, ClientTypeOK, Control, ReadBody, ReadErrorBody, Limit, Call
<1>3. /\ got' \in Nat /\ taken' = got'
      /\ \/ pc = "body" /\ got' <= Limit + 1
         \/ pc = "error" /\ got' <= MaxErrorBody + 1
  <2>1. CASE ReadBody
    <3>1. PICK k \in Reads(Amount) : Take(k)
      BY <2>1 DEF ReadBody
    <3>2. k \in Nat /\ k <= Limit + 1 - got
      BY <3>1, <1>2, <2>1 DEF Reads, Amount, ReadBody
    <3> QED BY <3>1, <3>2, <1>2, <2>1 DEF Take, ReadBody
  <2>2. CASE ReadErrorBody
    <3>1. PICK k \in Reads(MaxErrorBody + 1 - got) : Take(k)
      BY <2>2 DEF ReadErrorBody
    <3>2. k \in Nat /\ k <= MaxErrorBody + 1 - got
      BY <3>1, <1>2, <2>2, LimitsAssumption DEF Reads, ReadErrorBody
    <3> QED BY <3>1, <3>2, <1>2, <2>2, LimitsAssumption DEF Take, ReadErrorBody
  <2> QED BY <2>1, <2>2
<1>4. ClientTypeOK'
  BY <1>1, <1>3 DEF Inv, ClientTypeOK
<1>5. Control'
  <2>1. /\ Acceptable' = Acceptable /\ ErrorAnswer' = ErrorAnswer
        /\ Limit' = Limit /\ Valid' = Valid /\ outcome' # "bytes"
    BY <1>1, <1>3, Waiting DEF Inv, Acceptable, RangeMatches, End, ErrorAnswer, Limit, Valid
  <2> QED BY <2>1, <1>1, <1>3 DEF Inv, Control, Requesting
<1>6. AuthAtHome' /\ OnlyApproved' /\ ResponsesAreClosed'
  BY <1>1 DEF Inv, AuthAtHome, OnlyApproved, ResponsesAreClosed
<1>7. BytesAreBounded'
  <2>1. CASE pc = "body"
    <3>1. Limit = call.length /\ response.status = "partial" /\ response # None
      BY <2>1, LimitIsLength DEF Inv, Control, Requesting, Acceptable
    <3> QED BY <3>1, <2>1, <1>1, <1>3 DEF BytesAreBounded
  <2>2. CASE pc = "error"
    <3>1. response.status = "other" /\ response # None
      BY <2>2 DEF Inv, Control, ErrorAnswer
    <3> QED BY <3>1, <2>2, <1>1, <1>3 DEF BytesAreBounded
  <2> QED BY <2>1, <2>2, <1>3
<1> QED BY <1>4, <1>5, <1>6, <1>7 DEF Inv

Returns == RefuseRedirect \/ RefuseAnswer \/ BodyEnds \/ ErrorBodyEnds \/ ReadFails

\* The response is closed, and what is returned is what was asked for.
LEMMA ReturnStep == Inv /\ Returns => Inv'
<1> SUFFICES ASSUME Inv, Returns PROVE Inv'
  OBVIOUS
<1>1. /\ UNCHANGED <<call, url, redirects, auth, response, got, visited, taken>>
      /\ pc \in {"answered", "body", "error"} /\ pc' = "done" /\ open' = open - 1
      /\ outcome' \in {"bytes", "refused", "failed"}
      /\ outcome' = "bytes" => pc = "body" /\ got = call.length
  BY DEF Returns, RefuseRedirect, RefuseAnswer, BodyEnds, ErrorBodyEnds, ReadFails,
         Return, Whole
<1>2. open' = 0
  BY <1>1 DEF Inv, ResponsesAreClosed
<1>3. ClientTypeOK'
  BY <1>1, <1>2, NoneAssumption DEF Inv, ClientTypeOK
<1>4. outcome' = "bytes" => RangeMatches'
  BY <1>1 DEF Inv, Control, Acceptable, RangeMatches, End
<1>5. Control'
  BY <1>1, <1>4 DEF Inv, Control, Requesting
<1>6. AuthAtHome' /\ OnlyApproved' /\ BytesAreBounded' /\ ResponsesAreClosed'
  BY <1>1, <1>2 DEF Inv, AuthAtHome, OnlyApproved, BytesAreBounded, ResponsesAreClosed
<1> QED BY <1>3, <1>5, <1>6 DEF Inv

\* Nothing changes.
LEMMA StutterStep == Inv /\ UNCHANGED clientVars => Inv'
<1> SUFFICES ASSUME Inv, UNCHANGED clientVars PROVE Inv'
  OBVIOUS
<1>1. ClientTypeOK' /\ AuthAtHome' /\ OnlyApproved' /\ BytesAreBounded' /\ ResponsesAreClosed'
  BY DEF Inv, clientVars, ClientTypeOK, AuthAtHome, OnlyApproved, BytesAreBounded, ResponsesAreClosed
<1>2. Control'
  BY DEF Inv, clientVars, Control, Valid, Acceptable, RangeMatches, End, ErrorAnswer, Limit
<1> QED BY <1>1, <1>2 DEF Inv

\* Every step keeps the invariant.
LEMMA InvNext == Inv /\ [ClientNext]_clientVars => Inv'
BY RequestSteps, RespondStep, FollowStep, AcceptStep, TakeStep, ReturnStep, StutterStep
   DEF ClientNext, Read, Done, Returns

\* The inductive invariant holds throughout.
LEMMA InvAlways == ClientSpec => []Inv
BY InvInit, InvNext, PTL DEF ClientSpec
-----------------------------------------------------------------------------
\* The types of BoundedRangeClient.read's variables, its redirects among them.
THEOREM TypeCorrect == ClientSpec => []ClientTypeOK
<1>1. Inv => ClientTypeOK
  BY DEF Inv
<1> QED BY <1>1, InvAlways, PTL

\* read sends requests to approved hosts only, the Authorization header to the
\* original host only, and no more after a redirect has left it.
THEOREM AuthorizationStaysHomeHolds == ClientSpec => []AuthorizationStaysHome
<1>1. Inv => AuthorizationStaysHome
  BY DEF Inv, AuthAtHome, AuthorizationStaysHome
<1> QED BY <1>1, InvAlways, PTL

\* read takes no more of a body than one byte beyond its limit.
THEOREM BytesAreBoundedHolds == ClientSpec => []BytesAreBounded
<1>1. Inv => BytesAreBounded
  BY DEF Inv
<1> QED BY <1>1, InvAlways, PTL

\* read closes every response it is given, on every path.
THEOREM ResponsesAreClosedHolds == ClientSpec => []ResponsesAreClosed
<1>1. Inv => ResponsesAreClosed
  BY DEF Inv
<1> QED BY <1>1, InvAlways, PTL

\* The call begins with no answer.
LEMMA PromiseInit == ClientInit => Promise!Init
<1> SUFFICES ASSUME ClientInit PROVE Promise!Init
  OBVIOUS
<1>1. call.offset \in Nat /\ End \in Int
  BY CallsAssumption DEF ClientInit, Call, End
<1>2. Answer = None
  BY DEF ClientInit, Answer
<1> QED BY <1>1, <1>2 DEF Promise!Init, Promise!Interval

\* A step answers with the interval, fails, or leaves the caller waiting.
LEMMA PromiseNext ==
  Inv /\ Inv' /\ [ClientNext]_clientVars => [Promise!Next]_<<[first |-> call.offset, last |-> End], Answer>>
<1> SUFFICES ASSUME Inv, Inv', [ClientNext]_clientVars
             PROVE  Promise!Next \/ UNCHANGED <<[first |-> call.offset, last |-> End], Answer>>
  OBVIOUS
<1>1. call' = call /\ End' = End
  BY DEF ClientNext, Read, Done, clientVars, Refuse, Begin, Send, TransportFails, Respond, Follow,
         RefuseRedirect, Accept, ReadError, RefuseAnswer, ReadBody, BodyEnds,
         ReadErrorBody, ErrorBodyEnds, ReadFails, Return, End
<1>2. \/ outcome' = outcome
         /\ (outcome # None => got' = got /\ response' = response)
      \/ outcome = None /\ outcome' # None
  BY DEF Inv, ClientTypeOK, ClientNext, Read, Done, clientVars, Refuse, Begin, Send, TransportFails,
         Respond, Follow, RefuseRedirect, Accept, ReadError, RefuseAnswer, ReadBody,
         BodyEnds, ReadErrorBody, ErrorBodyEnds, ReadFails, Return
<1>3. CASE outcome' = outcome /\ (outcome # None => got' = got /\ response' = response)
  BY <1>1, <1>3 DEF Answer
<1>4. CASE outcome = None /\ outcome' # None
  <2>1. Answer = None
    BY <1>4 DEF Answer
  <2>2. CASE outcome' = "bytes"
    <3>1. response'.range.first = call.offset /\ got' = call.length
      BY <1>1, <2>2 DEF Inv, Control, RangeMatches
    <3>2. Answer' = [first |-> call.offset, last |-> call.offset + call.length - 1]
      BY <3>1, <2>2, <1>4 DEF Answer
    <3> QED BY <3>2, <2>1, <1>1 DEF Promise!Next, Promise!Return, End
  <2>3. CASE outcome' # "bytes"
    <3>1. Answer' = Failed
      BY <2>3, <1>4 DEF Answer
    <3> QED BY <3>1, <2>1, <1>1 DEF Promise!Next, Promise!Fail
  <2> QED BY <2>2, <2>3
<1> QED BY <1>2, <1>3, <1>4

\* read keeps the promise RemoteHeader's Fetch relies on: the interval asked
\* for, or a failure.
THEOREM Refinement == ClientSpec => ImplementsReadRange
<1>1. ClientSpec => []Inv
  BY InvAlways
<1> QED BY <1>1, PromiseInit, PromiseNext, PTL DEF ClientSpec, ImplementsReadRange, Promise!Spec

-----------------------------------------------------------------------------
(***************************************************************************)
(* Every step of a call uses something up: a redirect, a stage, or a part  *)
(* of what may be read of the body, whether or not the body has an end.    *)
(***************************************************************************)
CallStage ==
  CASE pc = "call" -> 5 [] pc = "send" -> 4 [] pc = "sent" -> 3
    [] pc = "answered" -> 2 [] pc \in {"body", "error"} -> 1 [] OTHER -> 0
Unread ==
  CASE pc = "body" -> Limit + 1 - got
    [] pc = "error" -> MaxErrorBody + 1 - got
    [] OTHER -> 0
CallRank == <<MaxRedirects - redirects, CallStage, Unread>>
CallRankFalls == <<CallRank', CallRank>> \in Descent(3)
CallRanked == MaxRedirects - redirects \in Nat /\ CallStage \in Nat /\ Unread \in Nat

\* There is no infinite descent.
LEMMA DescentEnds == \A n \in Nat : IsWellFoundedOn(Descent(n), Ranks(n))
<1>1. IsWellFoundedOn(Fewer, Nat)
  BY NatLessThanWellFounded DEF OpToRel, Fewer
<1> QED BY <1>1, WFLexProductOrdering DEF Descent, Ranks

\* When a tuple of three is less than another.
LEMMA Descends3 ==
  ASSUME NEW a \in Nat, NEW b \in Nat, NEW c \in Nat,
         NEW x \in Nat, NEW y \in Nat, NEW z \in Nat,
         a < x \/ (a = x /\ b < y) \/ (a = x /\ b = y /\ c < z)
  PROVE  <<<<a, b, c>>, <<x, y, z>>>> \in Descent(3)
BY DEF Descent, LexProductOrdering, Fewer

\* The parts of the rank are natural numbers.
LEMMA CallRankTyped == Inv => CallRanked
<1> SUFFICES ASSUME Inv
             PROVE  MaxRedirects - redirects \in Nat /\ CallStage \in Nat /\ Unread \in Nat
  BY DEF CallRanked
<1>1. MaxRedirects - redirects \in Nat /\ CallStage \in Nat
  BY LimitsAssumption DEF Inv, ClientTypeOK, CallStage
<1>2. CASE pc = "body"
  <2>1. Limit \in Nat /\ got \in Nat /\ got <= Limit + 1
    BY <1>2, LimitsAssumption DEF Inv, Control, ClientTypeOK, Limit, Call
  <2> QED BY <1>1, <1>2, <2>1 DEF Unread
<1>3. CASE pc = "error"
  <2>1. MaxErrorBody \in Nat /\ got \in Nat /\ got <= MaxErrorBody + 1
    BY <1>3, LimitsAssumption DEF Inv, Control, ClientTypeOK
  <2> QED BY <1>1, <1>3, <2>1 DEF Unread
<1>4. CASE pc \notin {"body", "error"}
  BY <1>1, <1>4 DEF Unread
<1> QED BY <1>2, <1>3, <1>4

\* A step that changes anything descends.
LEMMA CallStep ==
  ASSUME Inv, CallRanked, CallRanked', [ClientNext]_clientVars, ~UNCHANGED clientVars
  PROVE  CallRankFalls
<1>1. /\ MaxRedirects - redirects \in Nat /\ CallStage \in Nat /\ Unread \in Nat
      /\ MaxRedirects - redirects' \in Nat /\ CallStage' \in Nat /\ Unread' \in Nat
  BY DEF CallRanked
<1>2. CASE Follow
  <2>1. redirects' = redirects + 1 /\ redirects \in Nat
    BY <1>2, LimitsAssumption DEF Follow, Counted, Inv, ClientTypeOK
  <2>2. MaxRedirects - redirects' < MaxRedirects - redirects
    BY <2>1, LimitsAssumption
  <2> QED BY <1>1, <2>2, Descends3 DEF CallRank, CallRankFalls
<1>3. CASE \/ Refuse \/ Begin \/ Send \/ TransportFails \/ Respond \/ RefuseRedirect
           \/ Accept \/ ReadError \/ RefuseAnswer \/ BodyEnds \/ ErrorBodyEnds \/ ReadFails
  <2>1. UNCHANGED redirects /\ CallStage' < CallStage
    BY <1>3 DEF Refuse, Begin, Send, TransportFails, Respond, RefuseRedirect, Accept,
       ReadError, RefuseAnswer, BodyEnds, ErrorBodyEnds, ReadFails, Return, CallStage
  <2> QED BY <1>1, <2>1, Descends3 DEF CallRank, CallRankFalls
<1>4. CASE ReadBody
  <2>1. PICK k \in 1..Limit + 1 - got : got' = got + k
    BY <1>4 DEF ReadBody, Reads, Amount, Take
  <2>2. pc = "body" /\ pc' = "body" /\ UNCHANGED <<call, redirects>>
    BY <1>4 DEF ReadBody
  <2>3. Limit' = Limit /\ Limit \in Nat /\ got \in Nat
    BY <2>2, LimitsAssumption DEF Limit, Inv, ClientTypeOK, Call
  <2>4. Unread' < Unread /\ CallStage' = CallStage
    BY <2>1, <2>2, <2>3 DEF Unread, CallStage
  <2> QED BY <1>1, <2>2, <2>4, Descends3 DEF CallRank, CallRankFalls
<1>5. CASE ReadErrorBody
  <2>1. PICK k \in 1..MaxErrorBody + 1 - got : got' = got + k
    BY <1>5 DEF ReadErrorBody, Reads, Take
  <2>2. pc = "error" /\ pc' = "error" /\ UNCHANGED redirects
    BY <1>5 DEF ReadErrorBody
  <2>3. Unread' < Unread /\ CallStage' = CallStage
    BY <2>1, <2>2, LimitsAssumption DEF Unread, CallStage, Inv, ClientTypeOK
  <2> QED BY <1>1, <2>2, <2>3, Descends3 DEF CallRank, CallRankFalls
<1> QED BY <1>2, <1>3, <1>4, <1>5 DEF ClientNext, Read, Done

\* A call of read cannot go on for ever, whatever the provider answers: also
\* where every answer is a redirect, and where a body never ends.
THEOREM CallDescends ==
  /\ IsWellFoundedOn(Descent(3), Ranks(3))
  /\ ClientSpec => [][CallRankFalls]_clientVars
<1>1. IsWellFoundedOn(Descent(3), Ranks(3))
  BY DescentEnds
<1>2. Inv /\ CallRanked /\ CallRanked' /\ [ClientNext]_clientVars
        => [CallRankFalls]_clientVars
  BY CallStep
<1>3. ClientSpec => [][CallRankFalls]_clientVars
  BY InvAlways, CallRankTyped, <1>2, PTL DEF ClientSpec
<1> QED BY <1>1, <1>3
=============================================================================
