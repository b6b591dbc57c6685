------------------------- MODULE RemoteHeaderProofs -------------------------
(***************************************************************************)
(* For every header, file size and policy: the properties of RemoteHeader. *)
(*                                                                         *)
(* The inductive invariant is Inv: the window and the requests (SourceOK), *)
(* the last value (ValueOK), the shape of the field being read (ItemOK),   *)
(* and Ahead: the window never ends beyond what any continuation of the    *)
(* header still has to read.  OnlyTheHeader alone is not inductive, it     *)
(* speaks of the end only; Ahead says at each field that the lower bound   *)
(* passed to the read was sound.  ReadThenTurn and ReadThenAdvance carry   *)
(* the argument: after a read that allowed `safe` bytes to be read ahead,  *)
(* at least that many remain; there is one lemma for each action.          *)
(***************************************************************************)
EXTENDS RemoteHeader, Descent, SequenceTheorems, TLAPS

\* Aligning goes up, to a multiple, of any natural number.
LEMMA AlignUpBounds ==
  ASSUME NEW n \in Nat, NEW a \in Nat, a > 0
  PROVE  AlignUp(n, a) \in Nat /\ AlignUp(n, a) >= n /\ AlignUp(n, a) % a = 0
<1>1. n % a \in 0..a-1
  BY SMT
<1>2. n = a * (n \div a) + (n % a)
  BY SMTT(30)
<1>3. CASE n % a # 0
  <2>1. n + a - (n % a) = a * (n \div a + 1)
    BY <1>2, <1>1, SMTT(30)
  <2>2. (a * (n \div a + 1)) % a = 0
    BY SMT
  <2> QED BY <2>1, <2>2, <1>1, <1>3 DEF AlignUp
<1> QED BY <1>1, <1>3 DEF AlignUp

\* Bytes are a sequence of their number.
LEMMA BytesType ==
  ASSUME NEW s \in Nat, NEW n \in Nat
  PROVE  Bytes(s, n) \in Seq(Nat) /\ Len(Bytes(s, n)) = n
BY DEF Bytes

\* Names for two sequence operators, to cite the next lemmas by.
Slice(c, i, j) == SubSeq(c, i, j)
Join(a, b) == a \o b

\* A slice of the file's bytes is the bytes of the slice.
LEMMA BytesSub ==
  ASSUME NEW s \in Nat, NEW n \in Nat, NEW i \in Nat, NEW j \in Nat,
         NEW o \in Nat, NEW l \in Nat,
         1 <= i, i <= j, j <= n, o = s + i - 1, l = j - i + 1
  PROVE  Slice(Bytes(s, n), i, j) = Bytes(o, l)
<1> DEFINE b == Bytes(s, n)
           d == Bytes(o, l)
<1>1. b \in Seq(Nat) /\ Len(b) = n /\ \A k \in 1..n : b[k] = s + k - 1
  BY DEF Bytes
<1>2. d \in Seq(Nat) /\ Len(d) = l /\ \A k \in 1..l : d[k] = o + k - 1
  BY DEF Bytes
<1> HIDE DEF b, d
<1>3. SubSeq(b, i, j) \in Seq(Nat) /\ Len(SubSeq(b, i, j)) = l
  BY <1>1
<1>4. \A k \in 1..l : SubSeq(b, i, j)[k] = b[i + k - 1]
  BY <1>1
<1>5. \A k \in 1..l : SubSeq(b, i, j)[k] = d[k]
  BY <1>1, <1>2, <1>4
<1>6. SubSeq(b, i, j) = d
  BY <1>2, <1>3, <1>5, SeqEqual
<1> QED BY <1>6 DEF b, d, Slice

\* Adjacent bytes of the file, joined, are bytes of the file.
LEMMA BytesCat ==
  ASSUME NEW s \in Nat, NEW m \in Nat, NEW n \in Nat, NEW o \in Nat, NEW l \in Nat,
         o = s + m, l = m + n
  PROVE  Join(Bytes(s, m), Bytes(o, n)) = Bytes(s, l)
<1> DEFINE a == Bytes(s, m)
           b == Bytes(o, n)
           c == Bytes(s, l)
<1>1. a \in Seq(Nat) /\ Len(a) = m /\ \A k \in 1..m : a[k] = s + k - 1
  BY DEF Bytes
<1>2. b \in Seq(Nat) /\ Len(b) = n /\ \A k \in 1..n : b[k] = o + k - 1
  BY DEF Bytes
<1>3. c \in Seq(Nat) /\ Len(c) = l /\ \A k \in 1..l : c[k] = s + k - 1
  BY DEF Bytes
<1> HIDE DEF a, b, c
<1>4. /\ a \o b \in Seq(Nat) /\ Len(a \o b) = l
      /\ \A k \in 1..l : (a \o b)[k] = IF k <= m THEN a[k] ELSE b[k - m]
  BY <1>1, <1>2, ConcatProperties
<1>5. \A k \in 1..l : (a \o b)[k] = c[k]
  <2> TAKE k \in 1..l
  <2>1. (a \o b)[k] = IF k <= m THEN a[k] ELSE b[k - m]
    BY <1>4
  <2> QED BY <2>1, <1>1, <1>2, <1>3
<1>6. a \o b = c
  BY <1>3, <1>4, <1>5, SeqEqual
<1> QED BY <1>6 DEF a, b, c, Join
-----------------------------------------------------------------------------
(* The inductive invariant: the source, and the item being read. *)

\* The window ends where the requests do, and the cursor is within it.
SourceOK ==
  /\ offset \in Nat /\ cacheStart \in Nat /\ total \in Nat
  /\ cache \in Seq(Nat) /\ cache = Bytes(cacheStart, Len(cache))
  /\ intervals \in Seq([start : Nat, end : Nat])
  /\ NothingTwice
  /\ cacheStart <= offset /\ offset <= CacheEnd
  /\ total <= MaxTotal /\ Len(intervals) <= MaxRequests
  /\ \A i \in 1..Len(intervals) :
       /\ intervals[i].end > intervals[i].start
       /\ intervals[i].end - intervals[i].start <= MaxRequest

ValueOK ==
  /\ value \in Seq(Nat) /\ Len(value) <= offset
  /\ ValuesAreTheFiles

\* A value that is the bytes at the cursor is the file's.
LEMMA ReadValue ==
  ASSUME offset \in Nat, NEW length \in Nat,
         offset' = offset + length, value' = Bytes(offset, length)
  PROVE  ValueOK'
<1>1. value' \in Seq(Nat) /\ Len(value') = length
  BY BytesType
<1>2. offset' - Len(value') = offset
  BY <1>1
<1> QED BY <1>1, <1>2 DEF ValueOK, ValuesAreTheFiles

\* A fetch begins where the window ends, gets what is missing, and no more than is safe.
LEMMA FetchBounds ==
  ASSUME SourceOK, NEW length \in Nat, length > 0, NEW safe \in Nat,
         offset + length <= FileSize, ~Cached(length)
  PROVE  /\ FetchStart = CacheEnd /\ Missing(length) \in Nat /\ Missing(length) > 0
         /\ Missing(length) <= length
         /\ FetchLength(length, safe) \in Nat
         /\ FetchLength(length, safe) >= Missing(length)
         /\ FetchStart + FetchLength(length, safe) <= offset + length + safe
         /\ Missing(length) <= MaxRequest => FetchLength(length, safe) <= MaxRequest
<1>1. Len(cache) \in Nat /\ CacheEnd \in Nat /\ FileSize \in Nat /\ ReadAhead \in Nat
      /\ MaxRequest \in Nat
  <2>1. FileSize \in Nat /\ ReadAhead \in Nat /\ MaxRequest \in Nat
    BY PolicyAssumption
  <2>2. Len(cache) \in Nat
    BY LenProperties DEF SourceOK
  <2> QED BY <2>1, <2>2 DEF SourceOK, CacheEnd
<1>2. FetchStart = CacheEnd
  BY <1>1 DEF FetchStart, Partly, SourceOK
<1>3. Missing(length) \in Nat /\ Missing(length) > 0 /\ Missing(length) <= length
  BY <1>1, <1>2 DEF Missing, Cached, SourceOK
<1> QED
  BY <1>1, <1>2, <1>3 DEF FetchLength, Missing, Smaller, Larger, SourceOK

\* A read that succeeds returns the bytes at the cursor, and leaves the window
\* contiguous with what was requested before and at most `safe` bytes ahead.
LEMMA ObtainStep ==
  ASSUME SourceOK, NEW length \in Nat, length > 0, NEW safe \in Nat,
         Obtain(length, safe)
  PROVE  /\ SourceOK' /\ ValueOK' /\ offset' = offset + length
         /\ CacheEnd' <= CacheEnd \/ CacheEnd' <= offset + length + safe
<1>1. /\ Len(cache) \in Nat /\ CacheEnd = cacheStart + Len(cache)
      /\ CacheEnd \in Nat /\ offset \in Nat /\ cacheStart \in Nat
      /\ cacheStart <= offset /\ offset <= CacheEnd
  <2>1. Len(cache) \in Nat
    BY LenProperties DEF SourceOK
  <2> QED BY <2>1 DEF SourceOK, CacheEnd
<1>5. cache = Bytes(cacheStart, Len(cache))
  BY DEF SourceOK
<1>2. offset' = offset + length /\ offset + length <= FileSize
      /\ Refusal(length, safe) = "none" /\ FileSize \in Nat
  BY PolicyAssumption DEF Obtain, Refusal
<1>3. CASE Cached(length)
  <2>1. value' = FromCache(length) /\ UNCHANGED source
    BY <1>3 DEF Obtain
  <2>2. UNCHANGED <<cacheStart, cache, intervals, total>>
    BY <2>1 DEF source
  <2>3. value' = Bytes(offset, length)
    <3>1. PICK i \in Nat, j \in Nat :
            /\ i = offset - cacheStart + 1 /\ j = offset - cacheStart + length
            /\ 1 <= i /\ i <= j /\ j <= Len(cache)
            /\ offset = cacheStart + i - 1 /\ length = j - i + 1
      <4>1. /\ offset - cacheStart + 1 \in Nat /\ offset - cacheStart + length \in Nat
            /\ offset - cacheStart + length <= Len(cache)
        BY <1>1, <1>3 DEF Cached
      <4> QED BY <4>1, <1>1
    <3>2. value' = Slice(cache, i, j)
      BY <2>1, <3>1 DEF FromCache, Slice
    <3>3. Slice(Bytes(cacheStart, Len(cache)), i, j) = Bytes(offset, length)
      BY <3>1, <1>1, BytesSub
    <3> QED BY <3>2, <3>3, <1>5
  <2>4. ValueOK'
    BY <2>3, <1>1, <1>2, ReadValue
  <2>5. offset' <= CacheEnd' /\ CacheEnd' = CacheEnd
    BY <2>2, <1>1, <1>2, <1>3 DEF Cached, CacheEnd
  <2>6. NothingTwice'
    BY <2>2, <1>1 DEF SourceOK, NothingTwice, Highest, CacheEnd
  <2> QED BY <2>2, <2>4, <2>5, <2>6, <1>1, <1>2 DEF SourceOK, CacheEnd
<1>4. CASE ~Cached(length)
  <2>1. PICK n \in Nat, m \in Nat :
          /\ n = FetchLength(length, safe) /\ m = Missing(length)
          /\ FetchStart = CacheEnd /\ m > 0 /\ m <= length /\ n >= m
          /\ CacheEnd + n <= offset + length + safe
    BY <1>2, <1>4, FetchBounds
  <2>22. m > 0 /\ m <= length /\ n >= m /\ CacheEnd + n <= offset + length + safe
    BY <2>1
  <2>8. PICK r \in [start : Nat, end : Nat] :
          /\ r = [start |-> CacheEnd, end |-> CacheEnd + n]
          /\ r.start = CacheEnd /\ r.end = CacheEnd + n
    <3>1. /\ [start |-> CacheEnd, end |-> CacheEnd + n] \in [start : Nat, end : Nat]
          /\ [start |-> CacheEnd, end |-> CacheEnd + n].start = CacheEnd
          /\ [start |-> CacheEnd, end |-> CacheEnd + n].end = CacheEnd + n
      BY <1>1
    <3> QED BY <3>1
  <2>2. cacheStart' = CacheEnd /\ total' = total + n
    BY <1>4, <2>1 DEF Obtain, Fetch
  <2>17. cache' = Bytes(CacheEnd, n) /\ intervals' = Append(intervals, r)
    BY <1>4, <2>1, <2>8 DEF Obtain, Fetch
  <2>18. value' = Join(Prefix, Slice(Bytes(CacheEnd, n), 1, m))
    BY <1>4, <2>1 DEF Obtain, Fetch, Slice, Join
  <2>3. n <= MaxRequest /\ Len(intervals) < MaxRequests /\ total + n <= MaxTotal
    <3>1. ~(n > MaxRequest) /\ ~(Len(intervals) >= MaxRequests) /\ ~(total + n > MaxTotal)
      BY <1>2, <1>4, <2>1 DEF Refusal
    <3>2. Len(intervals) \in Nat /\ total \in Nat /\ MaxRequests \in Nat
          /\ MaxTotal \in Nat /\ MaxRequest \in Nat
      BY LenProperties, PolicyAssumption DEF SourceOK
    <3> QED BY <3>1, <3>2
  <2>4. CacheEnd \in Nat /\ m = offset + length - CacheEnd /\ n - 1 + 1 = n
    BY <1>1, <2>1 DEF Missing
  <2>19. CacheEnd' = CacheEnd + n
    BY <2>17, <2>2, <2>4, BytesType DEF CacheEnd
  <2>5. CacheEnd' = CacheEnd + n /\ Len(cache') = n /\ cache' \in Seq(Nat)
        /\ cache' = Bytes(cacheStart', Len(cache'))
    <3>1. Len(cache') = n /\ cache' \in Seq(Nat)
      BY <2>17, <2>4, BytesType
    <3> QED BY <3>1, <2>2, <2>17 DEF CacheEnd
  <2>6. value' = Bytes(offset, length)
    <3>1. Slice(Bytes(CacheEnd, n), 1, m) = Bytes(CacheEnd, m)
      BY <2>22, <2>4, BytesSub
    <3>2. CASE Partly
      <4>1. PICK i \in Nat, k \in Nat :
              /\ i = offset - cacheStart + 1 /\ k = CacheEnd - offset
              /\ 1 <= i /\ i <= Len(cache)
              /\ offset = cacheStart + i - 1 /\ k = Len(cache) - i + 1
              /\ CacheEnd = offset + k /\ length = k + m
        <5>1. offset - cacheStart + 1 \in Nat /\ CacheEnd - offset \in Nat
              /\ offset < CacheEnd
          BY <3>2, <1>1, <2>4 DEF Partly
        <5>2. /\ 1 <= offset - cacheStart + 1 /\ offset - cacheStart + 1 <= Len(cache)
              /\ offset = cacheStart + (offset - cacheStart + 1) - 1
              /\ CacheEnd - offset = Len(cache) - (offset - cacheStart + 1) + 1
              /\ CacheEnd = offset + (CacheEnd - offset)
              /\ length = (CacheEnd - offset) + m
          BY <5>1, <1>1, <2>4
        <5> QED BY <5>1, <5>2, Zenon
      <4>2. Prefix = Slice(cache, i, Len(cache))
        BY <3>2, <4>1 DEF Prefix, Slice
      <4>3. Prefix = Bytes(offset, k)
        <5>1. Slice(Bytes(cacheStart, Len(cache)), i, Len(cache)) = Bytes(offset, k)
          BY <4>1, <1>1, BytesSub
        <5> QED BY <4>2, <5>1, <1>5
      <4>4. Join(Bytes(offset, k), Bytes(CacheEnd, m)) = Bytes(offset, length)
        BY <4>1, <1>1, BytesCat
      <4> QED BY <4>3, <4>4, <3>1, <2>18
    <3>3. CASE ~Partly
      <4>1. offset = CacheEnd
        BY <3>3, <1>1, <2>4 DEF Partly
      <4>2. Prefix = <<>>
        BY <3>3 DEF Prefix
      <4>3. value' = Bytes(CacheEnd, m)
        BY <4>2, <3>1, <2>18, <2>4, BytesType, ConcatEmptySeq DEF Join
      <4> QED BY <4>1, <4>3, <2>4, <1>1
    <3> QED BY <3>2, <3>3
  <2>7. ValueOK'
    BY <2>6, <1>1, <1>2, ReadValue
  <2>9. /\ intervals \in Seq([start : Nat, end : Nat])
        /\ intervals' \in Seq([start : Nat, end : Nat])
        /\ Len(intervals') = Len(intervals) + 1 /\ Len(intervals) \in Nat
        /\ intervals'[Len(intervals')] = r
        /\ \A i \in 1..Len(intervals) : intervals'[i] = intervals[i]
    BY <2>17, <2>8, AppendProperties, LenProperties DEF SourceOK
  <2>20. /\ Len(intervals') = Len(intervals) + 1 /\ Len(intervals) \in Nat
         /\ intervals'[Len(intervals')] = r
    BY <2>9
  <2>21. total = CacheEnd
    BY DEF SourceOK, NothingTwice
  <2>10. total = CacheEnd /\ total = Highest + 1
    BY DEF SourceOK, NothingTwice
  <2>11. CacheEnd = IF Len(intervals) = 0 THEN 0 ELSE intervals[Len(intervals)].end
    <3>1. CASE intervals = <<>>
      BY <3>1, <2>10 DEF Highest
    <3>2. CASE intervals # <<>>
      <4>1. Len(intervals) \in 1..Len(intervals)
        BY <3>2, <2>9, EmptySeq
      <4>2. intervals[Len(intervals)].end \in Nat
        <5>1. intervals[Len(intervals)] \in [start : Nat, end : Nat]
          BY <4>1, <2>9, ElementOfSeq
        <5> QED BY <5>1
      <4> QED BY <4>1, <4>2, <3>2, <2>10 DEF Highest
    <3> QED BY <3>1, <3>2
  <2>12. NothingTwice'
    <3>1. Highest' = CacheEnd + n - 1
      <4>1. intervals' # <<>>
        BY <2>20, EmptySeq
      <4>2. Highest' = intervals'[Len(intervals')].end - 1
        BY <4>1 DEF Highest
      <4> QED BY <4>2, <2>8, <2>20
    <3>2. \A i \in 1..Len(intervals') :
            intervals'[i].start = IF i = 1 THEN 0 ELSE intervals'[i-1].end
      <4> TAKE i \in 1..Len(intervals')
      <4>1. CASE i = Len(intervals')
        <5>1. intervals'[i].start = CacheEnd /\ i - 1 = Len(intervals)
          BY <4>1, <2>8, <2>9
        <5>2. CASE i = 1
          BY <5>1, <5>2, <2>11
        <5>3. CASE i # 1
          <6>1. i - 1 \in 1..Len(intervals) /\ Len(intervals) # 0
            BY <5>1, <5>3
          <6>2. intervals'[i - 1] = intervals[Len(intervals)]
            BY <6>1, <5>1, <2>9
          <6> QED BY <5>1, <5>3, <6>1, <6>2, <2>11
        <5> QED BY <5>2, <5>3
      <4>2. CASE i # Len(intervals')
        <5>1. i \in 1..Len(intervals) /\ (i = 1 \/ i - 1 \in 1..Len(intervals))
          BY <4>2, <2>20
        <5>2. intervals[i].start = IF i = 1 THEN 0 ELSE intervals[i-1].end
          BY <5>1 DEF SourceOK, NothingTwice
        <5>3. CASE i = 1
          BY <5>1, <5>2, <5>3, <2>9
        <5>4. CASE i # 1
          BY <5>1, <5>2, <5>4, <2>9
        <5> QED BY <5>3, <5>4
      <4> QED BY <4>1, <4>2
    <3>3. total' = CacheEnd' /\ total' = Highest' + 1
      BY <3>1, <2>2, <2>4, <2>5, <2>10
    <3> QED BY <3>2, <3>3 DEF NothingTwice
  <2>13. \A i \in 1..Len(intervals') :
           /\ intervals'[i].end > intervals'[i].start
           /\ intervals'[i].end - intervals'[i].start <= MaxRequest
    <3> TAKE i \in 1..Len(intervals')
    <3>1. CASE i = Len(intervals')
      <4>1. intervals'[i].end = CacheEnd + n /\ intervals'[i].start = CacheEnd
        BY <3>1, <2>8, <2>20
      <4>2. CacheEnd + n > CacheEnd /\ CacheEnd + n - CacheEnd = n
        BY <2>22, <2>4
      <4> QED BY <4>1, <4>2, <2>3, <2>4
    <3>2. CASE i # Len(intervals')
      <4>1. i \in 1..Len(intervals)
        BY <3>2, <2>20
      <4>2. intervals'[i] = intervals[i]
        BY <4>1, <2>9
      <4> QED BY <4>1, <4>2 DEF SourceOK
    <3> QED BY <3>1, <3>2
  <2>14. cacheStart' \in Nat /\ cacheStart' <= offset' /\ offset' <= CacheEnd'
         /\ CacheEnd' <= offset + length + safe
    BY <2>1, <2>2, <2>4, <2>19, <1>1, <1>2
  <2>15. total' \in Nat /\ total' <= MaxTotal
    BY <2>2, <2>3, <2>4, <2>21
  <2>16. Len(intervals') <= MaxRequests /\ offset' \in Nat
    BY <2>3, <2>9, <1>1, <1>2, PolicyAssumption
  <2> QED BY <2>5, <2>7, <2>9, <2>12, <2>13, <2>14, <2>15, <2>16, <1>2 DEF SourceOK
<1> QED BY <1>3, <1>4
-----------------------------------------------------------------------------
(* The item: what the parser still has to read of the field, and types. *)

Fields == MetadataFields \cup TensorFields \cup {"fixed", "finish", "done"}
Sized == {"key", "scalar", "text", "numbers", "name", "dimensions"}

MarksOK ==
  /\ budget \in Nat /\ previews \in Nat
  /\ alignment \in Alignments \cup {32} /\ dataOffsets \subseteq Offsets

\* Only the fields that have a length, and only strings, have something left.
ItemOK ==
  /\ field \in Fields
  /\ entries \in Nat /\ tensors \in Nat /\ left \in Nat /\ strings \in Nat
  /\ width \in {1, 2, 4, 8} /\ left % width = 0
  /\ MarksOK
  /\ field \in TensorFields => entries = 0
  /\ field \in {"fixed", "finish", "done"} => entries = 0 /\ tensors = 0
  /\ field \in Sized => left > 0
  /\ field \notin Sized => left = 0
  /\ field \notin {"length", "text"} => strings = 0
  /\ field \notin {"count", "numbers"} => width = 1
  /\ field = "scalar" => left <= 8

\* What is ahead of the cursor in the window has to be read in any case.
Ahead == CacheEnd <= offset + Rest

Failures == {"none", "content", "remote", "file_end", "request_size",
             "request_count", "total", "payload"}
FailureOK == failure \in Failures /\ RefusalsAreDue

Inv == /\ SourceOK /\ ValueOK /\ ItemOK /\ Ahead /\ FailureOK
       /\ InventoryIsConsistent

\* The least that entries and tensors still to come take.
LEMMA Minimum ==
  ASSUME NEW m \in Nat, NEW t \in Nat
  PROVE  MinimumLater(m, t) = 13 * m + 32 * t /\ MinimumLater(m, t) \in Nat
BY DEF MinimumLater

\* What must still follow is a number.
LEMMA RestType ==
  ASSUME ItemOK
  PROVE  /\ Rest \in Nat /\ Suffix[field] \in Nat /\ Later \in Nat
         /\ Later = 13 * entries + 32 * tensors
<1>1. Later \in Nat /\ Later = 13 * entries + 32 * tensors
  BY DEF ItemOK, Later, MinimumLater
<1>2. Suffix[field] \in Nat
  BY DEF ItemOK, Fields, MetadataFields, TensorFields, Suffix
<1> QED BY <1>1, <1>2 DEF Rest, ItemOK

\* The same of the next state.
LEMMA RestTypeNext ==
  ASSUME ItemOK'
  PROVE  Rest' \in Nat
<1>1. Later' \in Nat
  <2>1. entries' \in Nat /\ tensors' \in Nat
    BY DEF ItemOK
  <2>2. Later' = MinimumLater(entries', tensors')
    BY DEF Later
  <2> QED BY <2>1, <2>2, Minimum
<1>2. Suffix[field'] \in Nat
  BY DEF ItemOK, Fields, MetadataFields, TensorFields, Suffix
<1> QED BY <1>1, <1>2 DEF Rest, ItemOK

\* A field with nothing of variable length before what its entry still has.
LEMMA PlainRest ==
  ASSUME ItemOK, field \notin Sized, field \notin {"length"}
  PROVE  Rest = Suffix[field] + Later
<1>1. left = 0 /\ strings = 0
  BY DEF ItemOK, Sized
<1> QED BY <1>1, RestType DEF Rest

\* Turning to the next field of an item takes from what must follow just what was read.
LEMMA Turned ==
  ASSUME ItemOK, NEW to \in Fields, NEW bytes \in Nat, NEW more \in Nat,
         NEW w \in {1, 2, 4, 8}, Turn(to, bytes, more, w),
         budget' \in Nat, previews' \in Nat, alignment' = alignment,
         bytes % w = 0,
         to \in TensorFields <=> field \in TensorFields,
         to \notin {"fixed", "finish", "done"},
         to \in Sized => bytes > 0, to \notin Sized => bytes = 0,
         to \notin {"length", "text"} => more = 0,
         to \notin {"count", "numbers"} => w = 1,
         to = "scalar" => bytes <= 8
  PROVE  /\ ItemOK' /\ failure' = failure /\ field' # "done"
         /\ Rest' = Suffix[to] + bytes + 8 * more + Later
<1>1. /\ field' = to /\ left' = bytes /\ strings' = more /\ width' = w
      /\ entries' = entries /\ tensors' = tensors /\ dataOffsets' = dataOffsets
      /\ failure' = failure
  BY DEF Turn
<1>2. MarksOK'
  BY <1>1 DEF ItemOK, MarksOK
<1>3. ItemOK'
  BY <1>1, <1>2 DEF ItemOK
<1>4. Later' = Later
  BY <1>1 DEF Later
<1>5. Rest' = Suffix[to] + bytes + 8 * more + Later
  BY <1>1, <1>4 DEF Rest
<1> QED BY <1>1, <1>3, <1>5

\* Going on to the next item leaves what the items to come take.
LEMMA Advanced ==
  ASSUME NEW m \in Nat, NEW t \in Nat, Advance(m, t), MarksOK'
  PROVE  /\ ItemOK' /\ failure' = failure /\ field' # "done"
         /\ Rest' \in Nat /\ 13 * m + 32 * t <= Rest'
<1>1. /\ left' = 0 /\ strings' = 0 /\ width' = 1 /\ failure' = failure
      /\ field' = IF m > 0 THEN "key_length" ELSE IF t > 0 THEN "name_length" ELSE "finish"
      /\ entries' = IF m > 0 THEN m - 1 ELSE 0
      /\ tensors' = IF m > 0 \/ t = 0 THEN t ELSE t - 1
  BY DEF Advance
<1>2. 0 % 1 = 0
  OBVIOUS
<1>3. ItemOK'
  BY <1>1, <1>2 DEF ItemOK, Fields, Sized, MetadataFields, TensorFields
<1>4. Rest' = Suffix[field'] + (13 * entries' + 32 * tensors')
  <2>0. entries' \in Nat /\ tensors' \in Nat
    BY <1>1
  <2>1. Later' = 13 * entries' + 32 * tensors' /\ Later' \in Nat
    <3>1. Later' = MinimumLater(entries', tensors')
      BY DEF Later
    <3> QED BY <2>0, <3>1, Minimum
  <2>2. Suffix[field'] \in Nat
    BY <1>1 DEF Suffix
  <2> QED BY <1>1, <2>1, <2>2 DEF Rest
<1>5. ASSUME m > 0 PROVE Rest' \in Nat /\ 13 * m + 32 * t <= Rest'
  <2>1. entries' = m - 1 /\ tensors' = t /\ Suffix[field'] = 14
    BY <1>1, <1>5 DEF Suffix
  <2>2. PICK r : r = Rest' /\ r = 14 + (13 * (m - 1) + 32 * t)
    BY <2>1, <1>4
  <2>3. r \in Nat /\ 13 * m + 32 * t <= r
    BY <2>2, <1>5
  <2> QED BY <2>2, <2>3
<1>6. ASSUME m = 0 /\ t > 0 PROVE Rest' \in Nat /\ 13 * m + 32 * t <= Rest'
  <2>1. entries' = 0 /\ tensors' = t - 1 /\ Suffix[field'] = 33
    BY <1>1, <1>6 DEF Suffix
  <2>2. PICK r : r = Rest' /\ r = 33 + (13 * 0 + 32 * (t - 1))
    BY <2>1, <1>4
  <2>3. r \in Nat /\ 13 * m + 32 * t <= r
    BY <2>2, <1>6
  <2> QED BY <2>2, <2>3
<1>7. ASSUME m = 0 /\ t = 0 PROVE Rest' \in Nat /\ 13 * m + 32 * t <= Rest'
  <2>1. entries' = 0 /\ tensors' = 0 /\ Suffix[field'] = 0
    BY <1>1, <1>7 DEF Suffix
  <2>2. PICK r : r = Rest' /\ r = 0 + (13 * 0 + 32 * 0)
    BY <2>1, <1>4
  <2>3. r \in Nat /\ 13 * m + 32 * t <= r
    BY <2>2, <1>7
  <2> QED BY <2>2, <2>3
<1> QED BY <1>1, <1>3, <1>5, <1>6, <1>7

\* A chunk is not empty, within a request, and leaves whole elements.
LEMMA ChunkBounds ==
  ASSUME ItemOK, field \in Sized
  PROVE  /\ Chunk \in Nat /\ Chunk > 0 /\ Chunk <= left /\ Chunk <= MaxRequest
         /\ left - Chunk \in Nat /\ (left - Chunk) % width = 0
<1>1. left \in Nat /\ left > 0 /\ left % width = 0
  BY DEF ItemOK
<1>2. MaxRequest \in Nat /\ MaxRequest >= 24
  BY PolicyAssumption
<1>3. CASE width = 1
  BY <1>1, <1>2, <1>3 DEF Chunk, Smaller, Larger
<1>4. CASE width = 2
  BY <1>1, <1>2, <1>4 DEF Chunk, Smaller, Larger
<1>5. CASE width = 4
  BY <1>1, <1>2, <1>5 DEF Chunk, Smaller, Larger
<1>6. CASE width = 8
  BY <1>1, <1>2, <1>6 DEF Chunk, Smaller, Larger
<1> QED BY <1>3, <1>4, <1>5, <1>6 DEF ItemOK
-----------------------------------------------------------------------------
(* What a read does to the invariant, whatever the field. *)

\* A step that reads nothing and changes no field keeps the invariant.
LEMMA Frame ==
  ASSUME Inv, UNCHANGED <<field, item, offset, value, source>>,
         failure' \in Failures, RefusalsAreDue'
  PROVE  Inv'
<1>1. /\ UNCHANGED <<field, entries, tensors, left, strings, width, alignment>>
      /\ UNCHANGED <<dataOffsets, budget, previews, offset, value>>
      /\ UNCHANGED <<cacheStart, cache, intervals, total>>
  BY DEF item, source
<1>2. SourceOK'
  BY <1>1 DEF Inv, SourceOK, NothingTwice, Highest, CacheEnd
<1>3. ValueOK' /\ ItemOK'
  BY <1>1 DEF Inv, ValueOK, ValuesAreTheFiles, ItemOK, MarksOK
<1>4. Ahead'
  BY <1>1 DEF Inv, Ahead, CacheEnd, Rest, Later
<1>5. InventoryIsConsistent'
  BY <1>1 DEF Inv, InventoryIsConsistent, Consistent, PayloadStart, Highest
<1> QED BY <1>2, <1>3, <1>4, <1>5 DEF Inv, FailureOK

\* A refused read keeps the invariant: the refusal is due.
LEMMA Refused ==
  ASSUME Inv, failure = "none", NEW length \in Nat, length > 0, NEW safe \in Nat,
         length + safe <= Rest,
         length <= MaxRequest \/ (field = "dimensions" /\ length = left),
         NotObtained(length, safe)
  PROVE  Inv'
<1>1. UNCHANGED <<field, item, offset, value, source>>
  BY DEF NotObtained, Stop
<1>2. Rest' = Rest /\ offset' = offset /\ field' = field /\ left' = left
  BY <1>1 DEF item, Rest, Later
<1>3. CASE failure' = "remote"
  BY <1>1, <1>3, Frame DEF RefusalsAreDue, Failures
<1>4. CASE Refusal(length, safe) # "none" /\ failure' = Refusal(length, safe)
  <2>1. failure' \in Failures /\ failure' # "payload"
    BY <1>4 DEF Refusal, Failures
  <2>2. CASE offset + length > FileSize \/ Cached(length)
    BY <1>1, <1>4, <2>2, <2>1, Frame DEF Refusal, RefusalsAreDue
  <2>3. CASE ~(offset + length > FileSize) /\ ~Cached(length)
    <3>1. offset + length <= FileSize
      <4>1. FileSize \in Nat /\ offset \in Nat
        BY PolicyAssumption DEF Inv, SourceOK
      <4> QED BY <2>3, <4>1
    <3>2. PICK n \in Nat, m \in Nat :
            /\ n = FetchLength(length, safe) /\ m = Missing(length) /\ FetchStart = CacheEnd
            /\ FetchStart + n <= offset + length + safe /\ m <= length
            /\ m <= MaxRequest => n <= MaxRequest
      BY <2>3, <3>1, FetchBounds DEF Inv
    <3>3. CacheEnd + n <= offset + length + safe /\ CacheEnd = total /\ m <= length
      BY <3>2 DEF Inv, SourceOK, NothingTwice
    <3>4. total \in Nat /\ offset \in Nat /\ Rest \in Nat
      BY RestType DEF Inv, SourceOK
    <3>5. MaxTotal \in Nat /\ MaxRequest \in Nat
      BY PolicyAssumption
    <3>6. total + n > MaxTotal => offset + Rest > MaxTotal
      BY <3>3, <3>4, <3>5
    <3>7. n > MaxRequest => field = "dimensions" /\ left > MaxRequest
      BY <3>2, <3>5
    <3>8. failure' = "total" => total + n > MaxTotal
      BY <1>4, <2>3, <3>2 DEF Refusal
    <3>9. failure' = "request_size" => n > MaxRequest
      BY <1>4, <2>3, <3>2 DEF Refusal
    <3>10. RefusalsAreDue'
      BY <3>6, <3>7, <3>8, <3>9, <2>1, <1>2 DEF RefusalsAreDue
    <3> QED BY <3>10, <1>1, <2>1, Frame
  <2> QED BY <2>2, <2>3
<1> QED BY <1>3, <1>4 DEF NotObtained, Stop

\* So does one of a read no longer than any field of fixed size.
LEMMA RefusedShort ==
  ASSUME Inv, failure = "none", NEW length \in 1..24, NEW safe \in Nat,
         length + safe <= Rest, NotObtained(length, safe)
  PROVE  Inv'
<1>1. length \in Nat /\ length > 0 /\ length <= MaxRequest
  BY PolicyAssumption
<1>2. length <= MaxRequest \/ (field = "dimensions" /\ length = left)
  BY <1>1
<1> QED BY <1>1, <1>2, Refused, Zenon

\* The field is read and the next one is known.
LEMMA Moved ==
  ASSUME Inv, failure = "none", NEW length \in Nat, length > 0, NEW safe \in Nat,
         Obtain(length, safe), length + safe <= Rest, Rest <= length + Rest',
         ItemOK', failure' = failure, field' # "done"
  PROVE  Inv'
<1>1. /\ SourceOK' /\ ValueOK' /\ offset' = offset + length
      /\ CacheEnd' <= CacheEnd \/ CacheEnd' <= offset + length + safe
  BY ObtainStep DEF Inv
<1>2. CacheEnd <= offset + Rest
  BY DEF Inv, Ahead
<1>3. CacheEnd \in Nat /\ CacheEnd' \in Nat /\ offset \in Nat
  <2>1. CacheEnd = total /\ total \in Nat /\ offset \in Nat
    BY DEF Inv, SourceOK, NothingTwice
  <2>2. CacheEnd' = total' /\ total' \in Nat
    BY <1>1 DEF SourceOK, NothingTwice
  <2> QED BY <2>1, <2>2
<1>4. Rest \in Nat
  BY RestType DEF Inv
<1>5. Rest' \in Nat
  BY RestTypeNext
<1>6. Ahead'
  <2>1. CacheEnd' <= offset' + Rest'
    <3>1. PICK r \in Nat, c \in Nat : r = Rest' /\ c = CacheEnd'
      BY <1>3, <1>5
    <3>2. Rest <= length + r /\ (c <= CacheEnd \/ c <= offset + length + safe)
      BY <3>1, <1>1
    <3>3. c <= offset + length + r
      BY <3>2, <1>2, <1>3, <1>4
    <3> QED BY <3>1, <3>3, <1>1
  <2> QED BY <2>1 DEF Ahead
<1>7. FailureOK'
  BY DEF FailureOK, Failures, RefusalsAreDue
<1> QED BY <1>1, <1>6, <1>7 DEF Inv, InventoryIsConsistent

\* The field is read and has a fault.
LEMMA Faulted ==
  ASSUME Inv, failure = "none", NEW length \in Nat, length > 0, NEW safe \in Nat,
         Obtain(length, safe), length + safe <= Rest, field # "done", Faulty
  PROVE  Inv'
<1>1. /\ SourceOK' /\ ValueOK' /\ offset' = offset + length
      /\ CacheEnd' <= CacheEnd \/ CacheEnd' <= offset + length + safe
  BY ObtainStep DEF Inv
<1>2. UNCHANGED <<field, item>> /\ failure' = "content"
  BY DEF Faulty, Stop
<1>3. ItemOK' /\ Rest' = Rest /\ field' = field
  BY <1>2 DEF Inv, ItemOK, MarksOK, item, Rest, Later
<1>4. CacheEnd <= offset + Rest
  BY DEF Inv, Ahead
<1>5. CacheEnd \in Nat /\ CacheEnd' \in Nat /\ offset \in Nat
  <2>1. CacheEnd = total /\ total \in Nat /\ offset \in Nat
    BY DEF Inv, SourceOK, NothingTwice
  <2>2. CacheEnd' = total' /\ total' \in Nat
    BY <1>1 DEF SourceOK, NothingTwice
  <2> QED BY <2>1, <2>2
<1>6. Rest \in Nat
  BY RestType DEF Inv
<1>7. Ahead'
  BY <1>1, <1>3, <1>4, <1>5, <1>6 DEF Ahead
<1>8. FailureOK'
  BY <1>2 DEF FailureOK, Failures, RefusalsAreDue
<1> QED BY <1>1, <1>3, <1>7, <1>8 DEF Inv, InventoryIsConsistent

\* A read that turns to another field of the item keeps the invariant.
LEMMA ReadThenTurn ==
  ASSUME Inv, failure = "none", NEW length \in Nat, length > 0, NEW safe \in Nat,
         Obtain(length, safe), length + safe <= Rest,
         NEW to \in Fields, NEW bytes \in Nat, NEW more \in Nat,
         NEW w \in {1, 2, 4, 8}, Turn(to, bytes, more, w),
         budget' \in Nat, previews' \in Nat, alignment' = alignment,
         bytes % w = 0,
         to \in TensorFields <=> field \in TensorFields,
         to \notin {"fixed", "finish", "done"},
         to \in Sized => bytes > 0, to \notin Sized => bytes = 0,
         to \notin {"length", "text"} => more = 0,
         to \notin {"count", "numbers"} => w = 1,
         to = "scalar" => bytes <= 8,
         Rest <= length + (Suffix[to] + bytes + 8 * more + Later)
  PROVE  Inv'
<1>1. ItemOK
  BY DEF Inv
<1>2. /\ ItemOK' /\ failure' = failure /\ field' # "done"
      /\ Rest' = Suffix[to] + bytes + 8 * more + Later
  BY <1>1, Turned
<1>3. Rest <= length + Rest'
  BY <1>2
<1> QED BY <1>2, <1>3, Moved

\* A read that ends an item keeps the invariant.
LEMMA ReadThenAdvance ==
  ASSUME Inv, failure = "none", NEW length \in Nat, length > 0, NEW safe \in Nat,
         Obtain(length, safe), length + safe <= Rest,
         NEW m \in Nat, NEW t \in Nat, Advance(m, t), MarksOK',
         Rest <= length + (13 * m + 32 * t)
  PROVE  Inv'
<1>1. /\ ItemOK' /\ failure' = failure /\ field' # "done"
      /\ Rest' \in Nat /\ 13 * m + 32 * t <= Rest'
  BY Advanced
<1>2. Rest <= length + Rest'
  <2>1. PICK r \in Nat : r = Rest' /\ 13 * m + 32 * t <= r
    BY <1>1
  <2>2. Rest <= length + r
    BY <2>1, RestType DEF Inv
  <2> QED BY <2>1, <2>2
<1> QED BY <1>1, <1>2, Moved

\* The last part of a metadata value is read.
LEMMA ReadThenEnd ==
  ASSUME Inv, failure = "none", NEW length \in Nat, length > 0, NEW safe \in Nat,
         Obtain(length, safe), length + safe <= Rest, EndEntry,
         Rest <= length + Later
  PROVE  Inv'
<1>1. entries \in Nat /\ tensors \in Nat /\ Later = 13 * entries + 32 * tensors
  BY RestType DEF Inv, ItemOK
<1>2. MarksOK' /\ Advance(entries, tensors)
  BY DEF EndEntry, Unmarked, Inv, ItemOK, MarksOK
<1>3. Rest <= length + (13 * entries + 32 * tensors)
  BY <1>1
<1> QED BY <1>1, <1>2, <1>3, ReadThenAdvance
-----------------------------------------------------------------------------
(* One lemma per action. *)

\* The start of the header.
LEMMA FixedStep == ASSUME Inv, failure = "none", ReadFixed PROVE Inv'
<1>1. ItemOK /\ field = "fixed"
  BY DEF Inv, ReadFixed
<1>2. Rest = 24
  <2>1. Later = 0
    BY <1>1, RestType DEF ItemOK
  <2>2. Suffix[field] = 24
    BY <1>1 DEF Suffix
  <2> QED BY <1>1, <2>1, <2>2, PlainRest DEF Sized
<1>4. CASE NotObtained(24, 0)
  BY <1>2, <1>4, RefusedShort
<1>5. CASE /\ Obtain(24, 0)
           /\ \E m \in Counts, t \in Counts :
                IF m > MaxMetadata \/ t > MaxTensors THEN Faulty
                ELSE Advance(m, t) /\ Unmarked /\ UNCHANGED dataOffsets
  <2>1. PICK m \in Counts, t \in Counts :
          IF m > MaxMetadata \/ t > MaxTensors THEN Faulty
          ELSE Advance(m, t) /\ Unmarked /\ UNCHANGED dataOffsets
    BY <1>5
  <2>2. CASE Faulty
    BY <1>1, <1>2, <1>5, <2>2, Faulted
  <2>3. CASE Advance(m, t) /\ Unmarked /\ UNCHANGED dataOffsets
    <3>1. m \in Nat /\ t \in Nat
      BY NumbersAssumption
    <3>2. MarksOK'
      BY <2>3, <1>1 DEF ItemOK, MarksOK, Unmarked
    <3>3. Rest <= 24 + (13 * m + 32 * t)
      BY <1>2, <3>1
    <3> QED BY <1>2, <1>5, <2>3, <3>1, <3>2, <3>3, ReadThenAdvance
  <2> QED BY <2>1, <2>2, <2>3
<1> QED BY <1>4, <1>5 DEF ReadFixed

\* The length of a key.
LEMMA KeyLengthStep == ASSUME Inv, failure = "none", ReadKeyLength PROVE Inv'
<1>1. ItemOK /\ field = "key_length"
  BY DEF Inv, ReadKeyLength
<1>2. Rest = 14 + Later /\ Later \in Nat
  <2>1. Suffix[field] = 14
    BY <1>1 DEF Suffix
  <2> QED BY <1>1, <2>1, RestType, PlainRest DEF Sized
<1>3. 8 + (Later + 5) <= Rest /\ Later + 5 \in Nat
  BY <1>2
<1>4. CASE NotObtained(8, Later + 5)
  BY <1>3, <1>4, RefusedShort
<1>5. CASE /\ Obtain(8, Later + 5)
           /\ \E n \in Lengths : IF n < 1 \/ n > MaxKey THEN Faulty ELSE Turn("key", n, 0, 1) /\ Unmarked
  <2>1. PICK n \in Lengths : IF n < 1 \/ n > MaxKey THEN Faulty ELSE Turn("key", n, 0, 1) /\ Unmarked
    BY <1>5
  <2>2. CASE Faulty
    BY <1>1, <1>3, <1>5, <2>2, Faulted
  <2>3. CASE ~(n < 1) /\ Turn("key", n, 0, 1) /\ Unmarked
    <3>1. n \in Nat /\ n > 0 /\ n % 1 = 0
      BY <2>3, NumbersAssumption
    <3>2. budget' \in Nat /\ previews' \in Nat /\ alignment' = alignment
      BY <2>3, <1>1 DEF ItemOK, MarksOK, Unmarked
    <3>3. Rest <= 8 + (Suffix["key"] + n + 8 * 0 + Later)
      BY <1>2, <3>1 DEF Suffix
    <3>4. "key" \in Fields /\ ("key" \in TensorFields <=> field \in TensorFields)
      BY <1>1 DEF Fields, MetadataFields, TensorFields
    <3> QED BY <1>3, <1>5, <2>3, <3>1, <3>2, <3>3, <3>4, ReadThenTurn DEF Sized
  <2> QED BY <2>1, <2>2, <2>3
<1> QED BY <1>4, <1>5 DEF ReadKeyLength

\* The length of a tensor's name.
LEMMA NameLengthStep == ASSUME Inv, failure = "none", ReadNameLength PROVE Inv'
<1>1. ItemOK /\ field = "name_length"
  BY DEF Inv, ReadNameLength
<1>2. Rest = 33 + Later /\ Later \in Nat
  <2>1. Suffix[field] = 33
    BY <1>1 DEF Suffix
  <2> QED BY <1>1, <2>1, RestType, PlainRest DEF Sized
<1>3. 8 + (Later + 24) <= Rest /\ Later + 24 \in Nat
  BY <1>2
<1>4. CASE NotObtained(8, Later + 24)
  BY <1>3, <1>4, RefusedShort
<1>5. CASE /\ Obtain(8, Later + 24)
           /\ \E n \in Lengths : IF n < 1 \/ n > MaxName THEN Faulty ELSE Turn("name", n, 0, 1) /\ Unmarked
  <2>1. PICK n \in Lengths : IF n < 1 \/ n > MaxName THEN Faulty ELSE Turn("name", n, 0, 1) /\ Unmarked
    BY <1>5
  <2>2. CASE Faulty
    BY <1>1, <1>3, <1>5, <2>2, Faulted
  <2>3. CASE ~(n < 1) /\ Turn("name", n, 0, 1) /\ Unmarked
    <3>1. n \in Nat /\ n > 0 /\ n % 1 = 0
      BY <2>3, NumbersAssumption
    <3>2. budget' \in Nat /\ previews' \in Nat /\ alignment' = alignment
      BY <2>3, <1>1 DEF ItemOK, MarksOK, Unmarked
    <3>3. Rest <= 8 + (Suffix["name"] + n + 8 * 0 + Later)
      BY <1>2, <3>1 DEF Suffix
    <3>4. "name" \in Fields /\ ("name" \in TensorFields <=> field \in TensorFields)
      BY <1>1 DEF Fields, MetadataFields, TensorFields
    <3> QED BY <1>3, <1>5, <2>3, <3>1, <3>2, <3>3, <3>4, ReadThenTurn DEF Sized
  <2> QED BY <2>1, <2>2, <2>3
<1> QED BY <1>4, <1>5 DEF ReadNameLength

\* The number of a tensor's dimensions.
LEMMA DimensionCountStep == ASSUME Inv, failure = "none", ReadDimensionCount PROVE Inv'
<1>1. ItemOK /\ field = "dimension_count"
  BY DEF Inv, ReadDimensionCount
<1>2. Rest = 24 + Later /\ Later \in Nat
  <2>1. Suffix[field] = 24
    BY <1>1 DEF Suffix
  <2> QED BY <1>1, <2>1, RestType, PlainRest DEF Sized
<1>3. 4 + (Later + 20) <= Rest /\ Later + 20 \in Nat
  BY <1>2
<1>4. CASE NotObtained(4, Later + 20)
  BY <1>3, <1>4, RefusedShort
<1>5. CASE /\ Obtain(4, Later + 20)
           /\ \E n \in Counts : IF n < 1 \/ n > MaxDimensions THEN Faulty ELSE Turn("dimensions", 8 * n, 0, 1) /\ Unmarked
  <2>1. PICK n \in Counts : IF n < 1 \/ n > MaxDimensions THEN Faulty ELSE Turn("dimensions", 8 * n, 0, 1) /\ Unmarked
    BY <1>5
  <2>2. CASE Faulty
    BY <1>1, <1>3, <1>5, <2>2, Faulted
  <2>3. CASE ~(n < 1) /\ Turn("dimensions", 8 * n, 0, 1) /\ Unmarked
    <3>1. n \in Nat /\ n > 0 /\ 8 * n \in Nat /\ 8 * n > 0 /\ (8 * n) % 1 = 0
      BY <2>3, NumbersAssumption
    <3>2. budget' \in Nat /\ previews' \in Nat /\ alignment' = alignment
      BY <2>3, <1>1 DEF ItemOK, MarksOK, Unmarked
    <3>3. Rest <= 4 + (Suffix["dimensions"] + 8 * n + 8 * 0 + Later)
      BY <1>2, <3>1 DEF Suffix
    <3>4. "dimensions" \in Fields /\ ("dimensions" \in TensorFields <=> field \in TensorFields)
      BY <1>1 DEF Fields, MetadataFields, TensorFields
    <3> QED BY <1>3, <1>5, <2>3, <3>1, <3>2, <3>3, <3>4, ReadThenTurn DEF Sized
  <2> QED BY <2>1, <2>2, <2>3
<1> QED BY <1>4, <1>5 DEF ReadDimensionCount

\* The type of a tensor.
LEMMA TensorTypeStep == ASSUME Inv, failure = "none", ReadTensorType PROVE Inv'
<1>1. ItemOK /\ field = "tensor_type"
  BY DEF Inv, ReadTensorType
<1>2. Rest = 12 + Later /\ Later \in Nat
  <2>1. Suffix[field] = 12
    BY <1>1 DEF Suffix
  <2> QED BY <1>1, <2>1, RestType, PlainRest DEF Sized
<1>3. 4 + (Later + 8) <= Rest /\ Later + 8 \in Nat
  BY <1>2
<1>4. CASE NotObtained(4, Later + 8)
  BY <1>3, <1>4, RefusedShort
<1>5. CASE Obtain(4, Later + 8) /\ Turn("data_offset", 0, 0, 1) /\ Unmarked
  <2>1. budget' \in Nat /\ previews' \in Nat /\ alignment' = alignment
    BY <1>5, <1>1 DEF ItemOK, MarksOK, Unmarked
  <2>2. Rest <= 4 + (Suffix["data_offset"] + 0 + 8 * 0 + Later)
    BY <1>2 DEF Suffix
  <2>3. "data_offset" \in Fields /\ ("data_offset" \in TensorFields <=> field \in TensorFields)
    BY <1>1 DEF Fields, MetadataFields, TensorFields
  <2>4. 0 % 1 = 0
    OBVIOUS
  <2> QED BY <1>3, <1>5, <2>1, <2>2, <2>3, <2>4, ReadThenTurn DEF Sized
<1> QED BY <1>4, <1>5 DEF ReadTensorType

\* A field that is read in chunks: all but the last leave the rest of it.
LEMMA ChunkStep ==
  ASSUME Inv, failure = "none", field \in {"key", "text", "numbers", "name"},
         NEW safe \in Nat, Rest = left + safe, NEW ACTION A, ReadChunk(safe, A)
  PROVE  Inv' \/ (A /\ \E c \in Nat : c > 0 /\ Obtain(c, safe) /\ Rest = c + safe)
<1>1. ItemOK /\ field \in Sized /\ left \in Nat
  BY DEF Inv, ItemOK, Sized
<1>2. PICK c \in Nat, z \in Nat :
        /\ c = Chunk /\ z = left - Chunk + safe /\ c > 0 /\ c <= left
        /\ c <= MaxRequest /\ left - c \in Nat /\ (left - c) % width = 0
  <2>1. /\ Chunk \in Nat /\ Chunk > 0 /\ Chunk <= left /\ Chunk <= MaxRequest
        /\ left - Chunk \in Nat /\ (left - Chunk) % width = 0
    BY <1>1, ChunkBounds
  <2>2. left - Chunk + safe \in Nat
    BY <2>1
  <2> QED BY <2>1, <2>2, Zenon
<1>3. z = left - c + safe /\ c + z <= Rest
  BY <1>1, <1>2
<1>4. CASE NotObtained(c, z)
  BY <1>2, <1>3, <1>4, Refused
<1>5. CASE /\ Obtain(c, z) /\ left > c
           /\ Turn(field, left - c, strings, width) /\ Unmarked
  <2>1. budget' \in Nat /\ previews' \in Nat /\ alignment' = alignment
    BY <1>5, <1>1 DEF ItemOK, MarksOK, Unmarked
  <2>2. /\ field \in Fields /\ strings \in Nat /\ width \in {1, 2, 4, 8}
        /\ field \notin {"length", "text"} => strings = 0
        /\ field \notin {"count", "numbers"} => width = 1
    BY <1>1 DEF ItemOK
  <2>3. left - c > 0 /\ field # "scalar" /\ field \notin {"fixed", "finish", "done"}
    BY <1>1, <1>2, <1>5
  <2>4. Rest <= c + (Suffix[field] + (left - c) + 8 * strings + Later)
    <3>1. Suffix[field] \in Nat /\ Later \in Nat
      BY <1>1, RestType
    <3> QED BY <1>1, <1>2, <2>2, <3>1 DEF Rest
  <2> QED BY <1>1, <1>2, <1>3, <1>5, <2>1, <2>2, <2>3, <2>4, ReadThenTurn
<1>6. CASE Obtain(c, z) /\ ~(left > c) /\ A
  <2>1. z = safe /\ Rest = c + safe
    BY <1>1, <1>2, <1>3, <1>6
  <2> QED BY <1>2, <1>6, <2>1
<1>7. \/ NotObtained(c, z)
      \/ Obtain(c, z) /\ IF left > c THEN Turn(field, left - c, strings, width) /\ Unmarked
                         ELSE A
  BY <1>2 DEF ReadChunk
<1> QED BY <1>4, <1>5, <1>6, <1>7

\* A chunk of a key.
LEMMA KeyStep == ASSUME Inv, failure = "none", ReadKey PROVE Inv'
<1>1. ItemOK /\ field = "key" /\ left \in Nat /\ strings = 0
  BY DEF Inv, ItemOK, ReadKey
<1>2. Rest = left + (Later + 5) /\ Later \in Nat /\ Later + 5 \in Nat
  <2>1. Suffix[field] = 5
    BY <1>1 DEF Suffix
  <2> QED BY <1>1, <2>1, RestType DEF Rest
<1>3. ReadChunk(Later + 5, Turn("type", 0, 0, 1) /\ Unmarked)
  BY DEF ReadKey
<1>4. \/ Inv'
      \/ /\ Turn("type", 0, 0, 1) /\ Unmarked
         /\ \E c \in Nat : c > 0 /\ Obtain(c, Later + 5) /\ Rest = c + (Later + 5)
  BY <1>1, <1>2, <1>3, ChunkStep
<1>5. ASSUME Turn("type", 0, 0, 1), Unmarked, NEW c \in Nat, c > 0,
             Obtain(c, Later + 5), Rest = c + (Later + 5)
      PROVE  Inv'
  <2>1. budget' \in Nat /\ previews' \in Nat /\ alignment' = alignment
    BY <1>5, <1>1 DEF ItemOK, MarksOK, Unmarked
  <2>2. Rest <= c + (Suffix["type"] + 0 + 8 * 0 + Later) /\ c + (Later + 5) <= Rest
    <3>1. Suffix["type"] = 5
      BY DEF Suffix
    <3> QED BY <1>2, <1>5, <3>1
  <2>3. "type" \in Fields /\ ("type" \in TensorFields <=> field \in TensorFields)
    BY <1>1 DEF Fields, MetadataFields, TensorFields
  <2>4. 0 % 1 = 0
    OBVIOUS
  <2> QED BY <1>2, <1>5, <2>1, <2>2, <2>3, <2>4, ReadThenTurn DEF Sized
<1> QED BY <1>4, <1>5

\* A chunk of a name.
LEMMA NameStep == ASSUME Inv, failure = "none", ReadName PROVE Inv'
<1>1. ItemOK /\ field = "name" /\ left \in Nat /\ strings = 0
  BY DEF Inv, ItemOK, ReadName
<1>2. Rest = left + (Later + 24) /\ Later \in Nat /\ Later + 24 \in Nat
  <2>1. Suffix[field] = 24
    BY <1>1 DEF Suffix
  <2> QED BY <1>1, <2>1, RestType DEF Rest
<1>3. ReadChunk(Later + 24, Turn("dimension_count", 0, 0, 1) /\ Unmarked)
  BY DEF ReadName
<1>4. \/ Inv'
      \/ /\ Turn("dimension_count", 0, 0, 1) /\ Unmarked
         /\ \E c \in Nat : c > 0 /\ Obtain(c, Later + 24) /\ Rest = c + (Later + 24)
  BY <1>1, <1>2, <1>3, ChunkStep
<1>5. ASSUME Turn("dimension_count", 0, 0, 1), Unmarked, NEW c \in Nat, c > 0,
             Obtain(c, Later + 24), Rest = c + (Later + 24)
      PROVE  Inv'
  <2>1. budget' \in Nat /\ previews' \in Nat /\ alignment' = alignment
    BY <1>5, <1>1 DEF ItemOK, MarksOK, Unmarked
  <2>2. Rest <= c + (Suffix["dimension_count"] + 0 + 8 * 0 + Later) /\ c + (Later + 24) <= Rest
    <3>1. Suffix["dimension_count"] = 24
      BY DEF Suffix
    <3> QED BY <1>2, <1>5, <3>1
  <2>3. "dimension_count" \in Fields /\ ("dimension_count" \in TensorFields <=> field \in TensorFields)
    BY <1>1 DEF Fields, MetadataFields, TensorFields
  <2>4. 0 % 1 = 0
    OBVIOUS
  <2> QED BY <1>2, <1>5, <2>1, <2>2, <2>3, <2>4, ReadThenTurn DEF Sized
<1> QED BY <1>4, <1>5

\* A chunk of an array of numbers.
LEMMA NumbersStep == ASSUME Inv, failure = "none", ReadNumbers PROVE Inv'
<1>1. ItemOK /\ field = "numbers" /\ left \in Nat /\ strings = 0
  BY DEF Inv, ItemOK, ReadNumbers
<1>2. Rest = left + Later /\ Later \in Nat
  <2>1. Suffix[field] = 0
    BY <1>1 DEF Suffix
  <2> QED BY <1>1, <2>1, RestType DEF Rest
<1>3. ReadChunk(Later, EndEntry)
  BY DEF ReadNumbers
<1>4. \/ Inv'
      \/ EndEntry /\ \E c \in Nat : c > 0 /\ Obtain(c, Later) /\ Rest = c + Later
  BY <1>1, <1>2, <1>3, ChunkStep
<1>5. ASSUME EndEntry, NEW c \in Nat, c > 0, Obtain(c, Later), Rest = c + Later
      PROVE  Inv'
  <2>1. c + Later <= Rest /\ Rest <= c + Later
    BY <1>2, <1>5
  <2> QED BY <1>2, <1>5, <2>1, ReadThenEnd
<1> QED BY <1>4, <1>5

\* A chunk of a string.
LEMMA TextStep == ASSUME Inv, failure = "none", ReadText PROVE Inv'
<1>1. ItemOK /\ field = "text" /\ left \in Nat /\ strings \in Nat
  BY DEF Inv, ItemOK, ReadText
<1>2. /\ Rest = left + (8 * strings + Later) /\ Later \in Nat
      /\ 8 * strings + Later \in Nat
  <2>1. Suffix[field] = 0
    BY <1>1 DEF Suffix
  <2> QED BY <1>1, <2>1, RestType DEF Rest
<1>3. ReadChunk(8 * strings + Later, EndString)
  BY DEF ReadText
<1>4. \/ Inv'
      \/ /\ EndString
         /\ \E c \in Nat : /\ c > 0 /\ Obtain(c, 8 * strings + Later)
                           /\ Rest = c + (8 * strings + Later)
  BY <1>1, <1>2, <1>3, ChunkStep
<1>5. ASSUME EndString, NEW c \in Nat, c > 0, Obtain(c, 8 * strings + Later),
             Rest = c + (8 * strings + Later)
      PROVE  Inv'
  <2>1. c + (8 * strings + Later) <= Rest
    BY <1>1, <1>2, <1>5
  <2>2. CASE strings = 0
    <3>1. Rest <= c + Later
      BY <1>2, <1>5, <2>2
    <3>2. EndEntry
      BY <1>5, <2>2 DEF EndString
    <3> QED BY <1>2, <1>5, <2>1, <3>1, <3>2, ReadThenEnd
  <2>3. CASE strings # 0
    <3>1. Turn("length", 0, strings - 1, 1) /\ Unmarked
      BY <1>5, <2>3 DEF EndString
    <3>2. budget' \in Nat /\ previews' \in Nat /\ alignment' = alignment
      BY <3>1, <1>1 DEF ItemOK, MarksOK, Unmarked
    <3>3. strings - 1 \in Nat /\ Rest <= c + (Suffix["length"] + 0 + 8 * (strings - 1) + Later)
      <4>1. Suffix["length"] = 8
        BY DEF Suffix
      <4> QED BY <1>1, <1>2, <1>5, <2>3, <4>1
    <3>4. "length" \in Fields /\ ("length" \in TensorFields <=> field \in TensorFields)
      BY <1>1 DEF Fields, MetadataFields, TensorFields
    <3>5. 0 % 1 = 0
      OBVIOUS
    <3> QED BY <1>2, <1>5, <2>1, <3>1, <3>2, <3>3, <3>4, <3>5, ReadThenTurn DEF Sized
  <2> QED BY <2>2, <2>3
<1> QED BY <1>4, <1>5

\* A scalar value.
LEMMA ScalarStep == ASSUME Inv, failure = "none", ReadScalar PROVE Inv'
<1>1. ItemOK /\ field = "scalar" /\ left \in Nat /\ strings = 0 /\ left > 0 /\ left <= 8
  BY DEF Inv, ItemOK, ReadScalar, Sized
<1>2. Rest = left + Later /\ Later \in Nat
  <2>1. Suffix[field] = 0
    BY <1>1 DEF Suffix
  <2> QED BY <1>1, <2>1, RestType DEF Rest
<1>3. left + Later <= Rest /\ Rest <= left + Later /\ left \in 1..24
  BY <1>1, <1>2
<1>4. CASE NotObtained(left, Later)
  BY <1>2, <1>3, <1>4, RefusedShort
<1>5. CASE Obtain(left, Later) /\ EndEntry
  BY <1>1, <1>2, <1>3, <1>5, ReadThenEnd
<1>6. CASE /\ Obtain(left, Later) /\ alignment' \in Alignments
           /\ Advance(entries, tensors) /\ UNCHANGED <<dataOffsets, budget, previews>>
  <2>1. MarksOK'
    BY <1>1, <1>6 DEF ItemOK, MarksOK
  <2>2. entries \in Nat /\ tensors \in Nat /\ Rest <= left + (13 * entries + 32 * tensors)
    BY <1>1, <1>2, <1>3, RestType DEF ItemOK
  <2> QED BY <1>1, <1>2, <1>3, <1>6, <2>1, <2>2, ReadThenAdvance
<1> QED BY <1>4, <1>5, <1>6 DEF ReadScalar

\* The offset of a tensor's data.
LEMMA DataOffsetStep == ASSUME Inv, failure = "none", ReadDataOffset PROVE Inv'
<1>1. ItemOK /\ field = "data_offset" /\ entries = 0
  BY DEF Inv, ItemOK, ReadDataOffset, TensorFields
<1>2. Rest = 8 + Later /\ Later \in Nat /\ Later = 13 * 0 + 32 * tensors
  <2>1. Suffix[field] = 8
    BY <1>1 DEF Suffix
  <2> QED BY <1>1, <2>1, RestType, PlainRest DEF Sized
<1>3. 8 + Later <= Rest /\ Rest <= 8 + (13 * 0 + 32 * tensors) /\ tensors \in Nat
  BY <1>1, <1>2 DEF ItemOK
<1>4. CASE NotObtained(8, Later)
  BY <1>2, <1>3, <1>4, RefusedShort
<1>5. CASE /\ Obtain(8, Later)
           /\ \E o \in Offsets : dataOffsets' = dataOffsets \cup {o}
           /\ Advance(0, tensors) /\ Unmarked
  <2>1. MarksOK'
    BY <1>1, <1>5 DEF ItemOK, MarksOK, Unmarked
  <2> QED BY <1>2, <1>3, <1>5, <2>1, ReadThenAdvance
<1> QED BY <1>4, <1>5 DEF ReadDataOffset

\* The dimensions of a tensor.
LEMMA DimensionsStep == ASSUME Inv, failure = "none", ReadDimensions PROVE Inv'
<1>1. ItemOK /\ field = "dimensions" /\ left \in Nat /\ strings = 0 /\ left > 0
  BY DEF Inv, ItemOK, ReadDimensions, Sized
<1>2. Rest = left + (Later + 12) /\ Later \in Nat /\ Later + 12 \in Nat
  <2>1. Suffix[field] = 12
    BY <1>1 DEF Suffix
  <2> QED BY <1>1, <2>1, RestType DEF Rest
<1>3. left + (Later + 12) <= Rest
  BY <1>1, <1>2
<1>4. CASE NotObtained(left, Later + 12)
  BY <1>1, <1>2, <1>3, <1>4, Refused
<1>5. CASE Obtain(left, Later + 12) /\ Turn("tensor_type", 0, 0, 1) /\ Unmarked
  <2>1. budget' \in Nat /\ previews' \in Nat /\ alignment' = alignment
    BY <1>5, <1>1 DEF ItemOK, MarksOK, Unmarked
  <2>2. Rest <= left + (Suffix["tensor_type"] + 0 + 8 * 0 + Later)
    BY <1>1, <1>2 DEF Suffix
  <2>3. "tensor_type" \in Fields /\ ("tensor_type" \in TensorFields <=> field \in TensorFields)
    BY <1>1 DEF Fields, MetadataFields, TensorFields
  <2>4. 0 % 1 = 0
    OBVIOUS
  <2> QED BY <1>1, <1>2, <1>3, <1>5, <2>1, <2>2, <2>3, <2>4, ReadThenTurn DEF Sized
<1> QED BY <1>4, <1>5 DEF ReadDimensions

\* The type of a value.
LEMMA TypeStep == ASSUME Inv, failure = "none", ReadType PROVE Inv'
<1>1. ItemOK /\ field = "type" /\ field \notin TensorFields
  BY DEF Inv, ReadType, TensorFields
<1>2. Rest = 5 + Later /\ Later \in Nat
  <2>1. Suffix[field] = 5
    BY <1>1 DEF Suffix
  <2> QED BY <1>1, <2>1, RestType, PlainRest DEF Sized
<1>3. 4 + (Later + 1) <= Rest /\ Later + 1 \in Nat
  BY <1>2
<1>4. CASE NotObtained(4, Later + 1)
  BY <1>3, <1>4, RefusedShort
<1>5. CASE /\ Obtain(4, Later + 1) /\ Preview(PreviewLimit, 0)
           /\ \/ \E w \in {1, 2, 4, 8} : Turn("scalar", w, 0, 1)
              \/ Turn("length", 0, 0, 1)
              \/ Turn("element", 0, 0, 1)
  <2>1. budget' \in Nat /\ previews' \in Nat /\ alignment' = alignment
    <3>1. PreviewLimit \in Nat
      BY PolicyAssumption
    <3> QED BY <1>5, <3>1 DEF Preview
  <2>2. /\ {"scalar", "length", "element"} \subseteq Fields
        /\ {"scalar", "length", "element"} \cap TensorFields = {}
    BY DEF Fields, MetadataFields, TensorFields
  <2>3. 0 % 1 = 0 /\ \A w \in {1, 2, 4, 8} : w % 1 = 0
    OBVIOUS
  <2>4. ASSUME NEW w \in {1, 2, 4, 8}, Turn("scalar", w, 0, 1)
        PROVE  Inv'
    <3>1. Rest <= 4 + (Suffix["scalar"] + w + 8 * 0 + Later)
      <4>1. Suffix["scalar"] = 0
        BY DEF Suffix
      <4> QED BY <1>2, <4>1
    <3>2. w \in Nat /\ w > 0 /\ w <= 8 /\ w % 1 = 0
      BY <2>3
    <3> QED BY <1>1, <1>3, <1>5, <2>1, <2>2, <2>4, <3>1, <3>2, ReadThenTurn DEF Sized
  <2>5. CASE Turn("length", 0, 0, 1)
    <3>1. Rest <= 4 + (Suffix["length"] + 0 + 8 * 0 + Later)
      <4>1. Suffix["length"] = 8
        BY DEF Suffix
      <4> QED BY <1>2, <4>1
    <3> QED BY <1>1, <1>3, <1>5, <2>1, <2>2, <2>3, <2>5, <3>1, ReadThenTurn DEF Sized
  <2>6. CASE Turn("element", 0, 0, 1)
    <3>1. Rest <= 4 + (Suffix["element"] + 0 + 8 * 0 + Later)
      <4>1. Suffix["element"] = 12
        BY DEF Suffix
      <4> QED BY <1>2, <4>1
    <3> QED BY <1>1, <1>3, <1>5, <2>1, <2>2, <2>3, <2>6, <3>1, ReadThenTurn DEF Sized
  <2> QED BY <1>5, <2>4, <2>5, <2>6
<1> QED BY <1>4, <1>5 DEF ReadType

\* The type of an array's elements.
LEMMA ElementStep == ASSUME Inv, failure = "none", ReadElement PROVE Inv'
<1>1. ItemOK /\ field = "element" /\ field \notin TensorFields
  BY DEF Inv, ReadElement, TensorFields
<1>2. Rest = 12 + Later /\ Later \in Nat
  <2>1. Suffix[field] = 12
    BY <1>1 DEF Suffix
  <2> QED BY <1>1, <2>1, RestType, PlainRest DEF Sized
<1>3. 4 + (Later + 8) <= Rest /\ Later + 8 \in Nat
  BY <1>2
<1>4. CASE NotObtained(4, Later + 8)
  BY <1>3, <1>4, RefusedShort
<1>5. CASE /\ Obtain(4, Later + 8) /\ Unmarked
           /\ \/ \E w \in {1, 2, 4, 8} : Turn("count", 0, 0, w)
              \/ Turn("string_count", 0, 0, 1)
  <2>1. budget' \in Nat /\ previews' \in Nat /\ alignment' = alignment
    BY <1>5, <1>1 DEF ItemOK, MarksOK, Unmarked
  <2>2. /\ {"count", "string_count"} \subseteq Fields
        /\ {"count", "string_count"} \cap TensorFields = {}
    BY DEF Fields, MetadataFields, TensorFields
  <2>3. 0 % 1 = 0 /\ \A w \in {1, 2, 4, 8} : 0 % w = 0
    OBVIOUS
  <2>4. ASSUME NEW w \in {1, 2, 4, 8}, Turn("count", 0, 0, w)
        PROVE  Inv'
    <3>1. Rest <= 4 + (Suffix["count"] + 0 + 8 * 0 + Later)
      <4>1. Suffix["count"] = 8
        BY DEF Suffix
      <4> QED BY <1>2, <4>1
    <3>2. 0 % w = 0
      BY <2>3
    <3> QED BY <1>1, <1>3, <1>5, <2>1, <2>2, <2>4, <3>1, <3>2, ReadThenTurn DEF Sized
  <2>5. CASE Turn("string_count", 0, 0, 1)
    <3>1. Rest <= 4 + (Suffix["string_count"] + 0 + 8 * 0 + Later)
      <4>1. Suffix["string_count"] = 8
        BY DEF Suffix
      <4> QED BY <1>2, <4>1
    <3> QED BY <1>1, <1>3, <1>5, <2>1, <2>2, <2>3, <2>5, <3>1, ReadThenTurn DEF Sized
  <2> QED BY <1>5, <2>4, <2>5
<1> QED BY <1>4, <1>5 DEF ReadElement

\* The number of an array's elements.
LEMMA CountStep == ASSUME Inv, failure = "none", ReadCount PROVE Inv'
<1>1. /\ ItemOK /\ field \in {"count", "string_count"} /\ field \notin TensorFields
      /\ width \in {1, 2, 4, 8} /\ budget \in Nat
  BY DEF Inv, ReadCount, TensorFields, ItemOK, MarksOK
<1>2. Rest = 8 + Later /\ Later \in Nat
  <2>1. Suffix[field] = 8
    BY <1>1 DEF Suffix
  <2> QED BY <1>1, <2>1, RestType, PlainRest DEF Sized
<1>3. 8 + Later <= Rest /\ Rest <= 8 + Later
  BY <1>2
<1>4. CASE NotObtained(8, Later)
  BY <1>2, <1>3, <1>4, RefusedShort
<1>5. ASSUME Obtain(8, Later), NEW n \in Counts,
             IF n > MaxElements THEN Faulty
             ELSE IF n = 0 THEN EndEntry
             ELSE IF field = "count"
             THEN /\ Turn("numbers", n * width, 0, width)
                  /\ Preview(budget, Smaller(n, budget \div width))
             ELSE Turn("length", 0, n - 1, 1) /\ Unmarked
      PROVE  Inv'
  <2>1. n \in Nat
    BY NumbersAssumption
  <2>2. /\ {"numbers", "length"} \subseteq Fields
        /\ {"numbers", "length"} \cap TensorFields = {}
    BY DEF Fields, MetadataFields, TensorFields
  <2>3. CASE Faulty
    BY <1>1, <1>2, <1>3, <1>5, <2>3, Faulted
  <2>4. CASE EndEntry
    BY <1>2, <1>3, <1>5, <2>4, ReadThenEnd
  <2>5. CASE /\ n # 0 /\ Turn("numbers", n * width, 0, width)
             /\ Preview(budget, Smaller(n, budget \div width))
    <3>1. n * width \in Nat /\ n * width > 0 /\ (n * width) % width = 0
          /\ budget \div width \in Nat
      <4>1. CASE width = 1
        BY <1>1, <2>1, <2>5, <4>1
      <4>2. CASE width = 2
        BY <1>1, <2>1, <2>5, <4>2
      <4>3. CASE width = 4
        BY <1>1, <2>1, <2>5, <4>3
      <4>4. CASE width = 8
        BY <1>1, <2>1, <2>5, <4>4
      <4> QED BY <1>1, <4>1, <4>2, <4>3, <4>4
    <3>2. budget' \in Nat /\ previews' \in Nat /\ alignment' = alignment
      <4>1. Smaller(n, budget \div width) \in Nat
        BY <2>1, <3>1 DEF Smaller
      <4> QED BY <1>1, <2>5, <4>1 DEF Preview
    <3>3. Rest <= 8 + (Suffix["numbers"] + n * width + 8 * 0 + Later)
      <4>1. Suffix["numbers"] = 0
        BY DEF Suffix
      <4>2. PICK b \in Nat : b = n * width
        BY <3>1
      <4>3. Rest <= 8 + (0 + b + 8 * 0 + Later)
        BY <1>2
      <4> QED BY <4>1, <4>2, <4>3
    <3> QED BY <1>1, <1>2, <1>3, <1>5, <2>2, <2>5, <3>1, <3>2, <3>3, ReadThenTurn DEF Sized
  <2>6. CASE n # 0 /\ Turn("length", 0, n - 1, 1) /\ Unmarked
    <3>1. budget' \in Nat /\ previews' \in Nat /\ alignment' = alignment
      BY <2>6, <1>1 DEF ItemOK, MarksOK, Unmarked
    <3>2. n - 1 \in Nat /\ 0 % 1 = 0
      BY <2>1, <2>6
    <3>3. Rest <= 8 + (Suffix["length"] + 0 + 8 * (n - 1) + Later)
      <4>1. Suffix["length"] = 8
        BY DEF Suffix
      <4> QED BY <1>2, <3>2, <4>1
    <3> QED BY <1>1, <1>2, <1>3, <1>5, <2>2, <2>6, <3>1, <3>2, <3>3, ReadThenTurn DEF Sized
  <2> QED BY <1>5, <2>3, <2>4, <2>5, <2>6
<1> QED BY <1>4, <1>5 DEF ReadCount

\* The length of a string.
LEMMA LengthStep == ASSUME Inv, failure = "none", ReadLength PROVE Inv'
<1>1. /\ ItemOK /\ field = "length" /\ field \notin TensorFields /\ left = 0
      /\ strings \in Nat /\ budget \in Nat /\ previews \in Nat
  BY DEF Inv, ReadLength, TensorFields, ItemOK, MarksOK, Sized
<1>2. Rest = 8 + (8 * strings + Later) /\ Later \in Nat
  <2>1. Suffix[field] = 8
    BY <1>1 DEF Suffix
  <2> QED BY <1>1, <2>1, RestType DEF Rest
<1>3. 8 + (8 * strings + Later) <= Rest /\ 8 * strings + Later \in Nat
  BY <1>1, <1>2
<1>4. CASE NotObtained(8, 8 * strings + Later)
  BY <1>3, <1>4, RefusedShort
<1>5. ASSUME Obtain(8, 8 * strings + Later), NEW n \in Lengths, ShowString(n),
             IF n > 0 THEN Turn("text", n, strings, 1)
             ELSE IF strings > 0 THEN Turn("length", 0, strings - 1, 1)
             ELSE Advance(entries, tensors) /\ UNCHANGED dataOffsets
      PROVE  Inv'
  <2>1. n \in Nat
    BY NumbersAssumption
  <2>2. budget' \in Nat /\ previews' \in Nat /\ alignment' = alignment
    <3>1. Larger(0, budget - n) \in Nat
      BY <1>1, <2>1 DEF Larger
    <3>2. (IF budget > 0 THEN previews + 1 ELSE previews) \in Nat
      BY <1>1
    <3> QED BY <1>5, <3>1, <3>2 DEF ShowString, Preview
  <2>3. /\ {"text", "length"} \subseteq Fields
        /\ {"text", "length"} \cap TensorFields = {}
    BY DEF Fields, MetadataFields, TensorFields
  <2>4. CASE n > 0 /\ Turn("text", n, strings, 1)
    <3>1. Rest <= 8 + (Suffix["text"] + n + 8 * strings + Later) /\ n % 1 = 0
      <4>1. Suffix["text"] = 0
        BY DEF Suffix
      <4> QED BY <1>1, <1>2, <2>1, <4>1
    <3> QED BY <1>1, <1>3, <1>5, <2>1, <2>2, <2>3, <2>4, <3>1, ReadThenTurn DEF Sized
  <2>5. CASE strings > 0 /\ Turn("length", 0, strings - 1, 1)
    <3>1. /\ Rest <= 8 + (Suffix["length"] + 0 + 8 * (strings - 1) + Later)
          /\ strings - 1 \in Nat /\ 0 % 1 = 0
      <4>1. Suffix["length"] = 8
        BY DEF Suffix
      <4> QED BY <1>1, <1>2, <2>5, <4>1
    <3> QED BY <1>1, <1>3, <1>5, <2>2, <2>3, <2>5, <3>1, ReadThenTurn DEF Sized
  <2>6. CASE ~(strings > 0) /\ Advance(entries, tensors) /\ UNCHANGED dataOffsets
    <3>1. MarksOK'
      BY <1>1, <2>2, <2>6 DEF ItemOK, MarksOK
    <3>2. entries \in Nat /\ tensors \in Nat /\ Later = 13 * entries + 32 * tensors
      BY <1>1, RestType DEF ItemOK
    <3>3. Rest <= 8 + (13 * entries + 32 * tensors)
      BY <1>1, <1>2, <2>6, <3>2
    <3> QED BY <1>3, <1>5, <2>6, <3>1, <3>2, <3>3, ReadThenAdvance
  <2> QED BY <1>5, <2>4, <2>5, <2>6
<1>6. ASSUME Obtain(8, 8 * strings + Later), Faulty
      PROVE  Inv'
  BY <1>1, <1>3, <1>6, Faulted
<1> QED BY <1>4, <1>5, <1>6 DEF ReadLength

\* At the end the window ends at the cursor, so no payload was requested.
LEMMA FinishStep == ASSUME Inv, failure = "none", Finish PROVE Inv'
<1>1. ItemOK /\ field = "finish" /\ left = 0 /\ strings = 0
  BY DEF Inv, Finish, ItemOK, Sized
<1>2. Rest = 0
  <2>1. Suffix[field] = 0
    BY <1>1 DEF Suffix
  <2>2. Later = 0
    BY <1>1, RestType DEF ItemOK
  <2> QED BY <1>1, <2>1, <2>2 DEF Rest
<1>3. UNCHANGED <<offset, value, source, item>>
  BY DEF Finish, Faulty, Stop
<1>4. CacheEnd = offset /\ Highest = offset - 1 /\ offset \in Nat
  <2>1. CacheEnd <= offset + 0 /\ offset <= CacheEnd /\ total = CacheEnd
        /\ total = Highest + 1 /\ total \in Nat /\ offset \in Nat
    BY <1>2 DEF Inv, Ahead, SourceOK, NothingTwice
  <2>2. Highest \in Int
    <3>1. CASE intervals = <<>>
      BY <3>1 DEF Highest
    <3>2. CASE intervals # <<>>
      <4>1. Len(intervals) \in 1..Len(intervals)
        BY <3>2, EmptySeq DEF Inv, SourceOK
      <4>2. intervals[Len(intervals)] \in [start : Nat, end : Nat]
        BY <4>1, ElementOfSeq DEF Inv, SourceOK
      <4> QED BY <3>2, <4>2 DEF Highest
    <3> QED BY <3>1, <3>2
  <2> QED BY <2>1, <2>2
<1>5. CASE Faulty
  BY <1>3, <1>5, Frame DEF Faulty, Stop, Failures, RefusalsAreDue
<1>6. CASE Allowed(alignment) /\ Highest >= PayloadStart
  <2>1. alignment \in Nat /\ alignment > 0
    BY <1>1, <1>6, NumbersAssumption DEF Allowed, ItemOK, MarksOK
  <2>2. PayloadStart \in Nat /\ PayloadStart >= offset
    BY <1>4, <2>1, AlignUpBounds DEF PayloadStart
  <2> QED BY <1>4, <1>6, <2>2
<1>7. CASE /\ Allowed(alignment) /\ ~(PayloadStart > FileSize)
           /\ ~(Highest >= PayloadStart) /\ OffsetsFit
           /\ field' = "done" /\ UNCHANGED <<item, failure>>
  <2>1. /\ UNCHANGED <<entries, tensors, left, strings, width, alignment>>
        /\ UNCHANGED <<dataOffsets, budget, previews, offset, value>>
        /\ UNCHANGED <<cacheStart, cache, intervals, total>>
    BY <1>3 DEF item, source
  <2>2. SourceOK'
    BY <2>1 DEF Inv, SourceOK, NothingTwice, Highest, CacheEnd
  <2>3. ValueOK'
    BY <2>1 DEF Inv, ValueOK, ValuesAreTheFiles
  <2>4. ItemOK'
    <3>1. field' = "done" /\ width = 1
      BY <1>1, <1>7 DEF ItemOK
    <3>2. MarksOK'
      BY <1>1, <2>1 DEF ItemOK, MarksOK
    <3> QED BY <1>1, <2>1, <3>1, <3>2
         DEF ItemOK, Fields, TensorFields, MetadataFields, Sized
  <2>5. Ahead'
    <3>1. Rest' = 0
      <4>1. Suffix[field'] = 0 /\ Later' = Later /\ Later = 0
        BY <1>1, <1>7, <2>1, RestType DEF Suffix, Later, ItemOK
      <4>2. left' = 0 /\ strings' = 0
        BY <1>1, <2>1
      <4> QED BY <4>1, <4>2 DEF Rest
    <3>2. CacheEnd' = CacheEnd /\ offset' = offset
      BY <2>1 DEF CacheEnd
    <3> QED BY <1>4, <3>1, <3>2 DEF Ahead
  <2>6. FailureOK'
    BY <1>7 DEF FailureOK, Failures, RefusalsAreDue
  <2>7. InventoryIsConsistent'
    <3>1. alignment \in Nat /\ alignment > 0
      BY <1>1, <1>7, NumbersAssumption DEF Allowed, ItemOK, MarksOK
    <3>2. PayloadStart \in Nat /\ PayloadStart >= offset /\ PayloadStart % alignment = 0
      BY <1>4, <3>1, AlignUpBounds DEF PayloadStart
    <3>3. PayloadStart <= FileSize /\ Highest < PayloadStart
      <4>1. FileSize \in Nat
        BY PolicyAssumption
      <4> QED BY <1>4, <1>7, <3>2, <4>1
    <3>4. /\ total <= MaxTotal /\ Len(intervals) <= MaxRequests /\ Highest + 1 = total
          /\ \A i \in 1..Len(intervals) :
               /\ intervals[i].start = IF i = 1 THEN 0 ELSE intervals[i-1].end
               /\ intervals[i].end > intervals[i].start
               /\ intervals[i].end - intervals[i].start <= MaxRequest
      BY DEF Inv, SourceOK, NothingTwice
    <3>5. Consistent
      BY <1>7, <3>2, <3>3, <3>4 DEF Consistent, OffsetsFit
    <3>6. Consistent'
      BY <3>5, <2>1 DEF Consistent, PayloadStart, Highest
    <3> QED BY <3>6 DEF InventoryIsConsistent
  <2> QED BY <2>2, <2>3, <2>4, <2>5, <2>6, <2>7 DEF Inv
<1> QED BY <1>5, <1>6, <1>7 DEF Finish

\* A refusal for another reason.
LEMMA RejectStep == ASSUME Inv, Reject PROVE Inv'
BY Frame DEF Reject, Faulty, Stop, Failures, RefusalsAreDue

\* The invariant holds before anything is read.
LEMMA InvInit == Init => Inv
<1> SUFFICES ASSUME Init PROVE Inv
  OBVIOUS
<1>1. cache = Bytes(0, 0) /\ value = Bytes(0, 0) /\ Len(<<>>) = 0
  BY DEF Init, Bytes
<1>2. /\ Len(cache) = 0 /\ Len(value) = 0 /\ Len(intervals) = 0
      /\ cache \in Seq(Nat) /\ value \in Seq(Nat)
      /\ intervals \in Seq([start : Nat, end : Nat])
  BY <1>1, EmptySeq DEF Init
<1>3. CacheEnd = 0 /\ Highest = 0 - 1
  BY <1>2 DEF CacheEnd, Highest, Init
<1>4. NothingTwice
  BY <1>2, <1>3 DEF NothingTwice, Init
<1>5. SourceOK
  <2>1. 0 <= MaxTotal /\ 0 <= MaxRequests
    BY PolicyAssumption
  <2> QED BY <1>1, <1>2, <1>3, <1>4, <2>1 DEF SourceOK, Init
<1>6. ValueOK
  BY <1>1, <1>2 DEF ValueOK, ValuesAreTheFiles, Init
<1>7. MarksOK
  BY PolicyAssumption DEF MarksOK, Init
<1>8. 0 % 1 = 0
  OBVIOUS
<1>9. ItemOK
  BY <1>7, <1>8 DEF ItemOK, Init, Fields, MetadataFields, TensorFields, Sized
<1>10. Ahead
  <2>1. Rest \in Nat
    BY <1>9, RestType
  <2> QED BY <1>3, <2>1 DEF Ahead, Init
<1> QED BY <1>5, <1>6, <1>9, <1>10
      DEF Inv, FailureOK, Failures, RefusalsAreDue, InventoryIsConsistent, Init

\* Every step keeps the invariant.
LEMMA InvNext == Inv /\ [Next]_vars => Inv'
<1>1. ASSUME Inv, Next PROVE Inv'
  <2>1. failure = "none"
    BY <1>1 DEF Next
  <2>2. CASE ReadFixed \/ ReadKeyLength \/ ReadKey \/ ReadType \/ ReadScalar
    BY <1>1, <2>1, <2>2, FixedStep, KeyLengthStep, KeyStep, TypeStep, ScalarStep
  <2>3. CASE ReadElement \/ ReadCount \/ ReadLength \/ ReadText \/ ReadNumbers
    BY <1>1, <2>1, <2>3, ElementStep, CountStep, LengthStep, TextStep, NumbersStep
  <2>4. CASE ReadNameLength \/ ReadName \/ ReadDimensionCount \/ ReadDimensions
    BY <1>1, <2>1, <2>4, NameLengthStep, NameStep, DimensionCountStep, DimensionsStep
  <2>5. CASE ReadTensorType \/ ReadDataOffset \/ Finish \/ Reject
    BY <1>1, <2>1, <2>5, TensorTypeStep, DataOffsetStep, FinishStep, RejectStep
  <2> QED BY <1>1, <2>2, <2>3, <2>4, <2>5 DEF Next
<1>2. ASSUME Inv, UNCHANGED vars PROVE Inv'
  BY <1>2, Frame DEF vars, Inv, FailureOK, RefusalsAreDue, Rest, Later, item
<1> QED BY <1>1, <1>2

\* In every reachable state of parsing any header under any policy.
THEOREM InvAlways == Spec => []Inv
BY InvInit, InvNext, PTL DEF Spec

\* Types, and that descriptors come after the metadata.
THEOREM TypeCorrect == Spec => []TypeOK
<1>1. Inv => TypeOK
  <2> SUFFICES ASSUME Inv PROVE TypeOK
    OBVIOUS
  <2>1. {entries, tensors, left, strings} \subseteq Nat
    BY DEF Inv, ItemOK
  <2>2. {budget, previews, offset, total, cacheStart} \subseteq Nat
    BY DEF Inv, ItemOK, MarksOK, SourceOK
  <2>3. /\ width \in {1, 2, 4, 8} /\ left % width = 0
        /\ alignment \in Alignments \cup {32} /\ dataOffsets \subseteq Offsets
        /\ field \in MetadataFields \cup TensorFields \cup {"fixed", "finish", "done"}
        /\ field \in TensorFields => entries = 0
        /\ field \in {"finish", "done"} => entries = 0 /\ tensors = 0
    BY DEF Inv, ItemOK, MarksOK, Fields
  <2>4. value \in Seq(Nat) /\ cache \in Seq(Nat)
        /\ intervals \in Seq([start : Nat, end : Nat])
    BY DEF Inv, ValueOK, SourceOK
  <2>5. failure \in Failures
    BY DEF Inv, FailureOK
  <2> QED BY <2>1, <2>2, <2>3, <2>4, <2>5 DEF TypeOK, Failures
<1> QED BY <1>1, InvAlways, PTL

\* Every value the parser gets is the file's bytes at the cursor, whatever
\* windows it was assembled from.
THEOREM ValuesAreTheFilesHolds == Spec => []ValuesAreTheFiles
<1>1. Inv => ValuesAreTheFiles
  BY DEF Inv, ValueOK
<1> QED BY <1>1, InvAlways, PTL

\* The requests follow one another without a gap or an overlap.
THEOREM NothingTwiceHolds == Spec => []NothingTwice
<1>1. Inv => NothingTwice
  BY DEF Inv, SourceOK
<1> QED BY <1>1, InvAlways, PTL

\* When the descriptors are read, exactly the header was fetched.
THEOREM OnlyTheHeaderHolds == Spec => []OnlyTheHeader
<1>1. Inv => OnlyTheHeader
  <2> SUFFICES ASSUME Inv, field \in {"finish", "done"} PROVE CacheEnd = offset
    BY DEF OnlyTheHeader
  <2>1. ItemOK /\ left = 0 /\ strings = 0
    BY DEF Inv, ItemOK, Sized
  <2>2. Suffix[field] = 0
    BY DEF Suffix
  <2>3. Later = 0
    BY <2>1, RestType DEF ItemOK
  <2>4. Rest = 0
    BY <2>1, <2>2, <2>3 DEF Rest
  <2>5. CacheEnd <= offset + 0 /\ offset <= CacheEnd /\ total = CacheEnd
        /\ total \in Nat /\ offset \in Nat
    BY <2>4 DEF Inv, Ahead, SourceOK, NothingTwice
  <2> QED BY <2>5
<1> QED BY <1>1, InvAlways, PTL

\* The header is fetched once, and nothing else is.
THEOREM HeaderOnceHolds == Spec => []HeaderOnce
BY NothingTwiceHolds, OnlyTheHeaderHolds, PTL DEF HeaderOnce

\* Read-ahead is never the reason to refuse a header.
THEOREM RefusalsAreDueHolds == Spec => []RefusalsAreDue
<1>1. Inv => RefusalsAreDue
  BY DEF Inv, FailureOK
<1> QED BY <1>1, InvAlways, PTL

\* The inventory of a parsed header passes its own validation.
THEOREM InventoryIsConsistentHolds == Spec => []InventoryIsConsistent
<1>1. Inv => InventoryIsConsistent
  BY DEF Inv
<1> QED BY <1>1, InvAlways, PTL

(***************************************************************************)
(* Parsing ends, whatever counts and lengths the header claims: every read *)
(* that succeeds takes the cursor on within the file, and every other step *)
(* is the last.                                                            *)
(***************************************************************************)
ParserStage == IF failure = "none" /\ field # "done" THEN 1 ELSE 0
ParserRank == <<FileSize - offset, ParserStage>>
ParserRankFalls == <<ParserRank', ParserRank>> \in Descent(2)
WithinFile == offset \in Nat /\ offset <= FileSize

\* There is no infinite descent.
LEMMA DescentEnds == \A n \in Nat : IsWellFoundedOn(Descent(n), Ranks(n))
<1>1. IsWellFoundedOn(Fewer, Nat)
  BY NatLessThanWellFounded DEF OpToRel, Fewer
<1> QED BY <1>1, WFLexProductOrdering DEF Descent, Ranks

\* When a pair is less than another.
LEMMA Descends2 ==
  ASSUME NEW a \in Nat, NEW b \in Nat, NEW x \in Nat, NEW y \in Nat,
         a < x \/ (a = x /\ b < y)
  PROVE  <<<<a, b>>, <<x, y>>>> \in Descent(2)
BY DEF Descent, LexProductOrdering, Fewer

\* A read moves the cursor within the file; one that is refused ends parsing.
Goes == (offset' > offset /\ offset' <= FileSize) \/ (offset' = offset /\ failure' # "none")

LEMMA ReadGoes ==
  ASSUME WithinFile, NEW length \in Nat, length > 0, NEW safe,
         Obtain(length, safe) \/ NotObtained(length, safe)
  PROVE  Goes
<1>1. CASE Obtain(length, safe)
  <2>1. offset' = offset + length /\ ~(offset + length > FileSize)
    BY <1>1 DEF Obtain, Refusal
  <2> QED BY <2>1, PolicyAssumption DEF Goes, WithinFile
<1>2. CASE NotObtained(length, safe)
  BY <1>2 DEF NotObtained, Stop, Goes
<1> QED BY <1>1, <1>2

\* So does the read of each field.
LEMMA FieldGoes ==
  ASSUME Inv, WithinFile, Next, ~Finish, ~Reject
  PROVE  Goes
<1>1. CASE ReadFixed
  BY <1>1, ReadGoes DEF ReadFixed
<1>2. CASE \/ ReadKeyLength \/ ReadElement \/ ReadCount \/ ReadLength \/ ReadNameLength
           \/ ReadDimensionCount \/ ReadTensorType \/ ReadDataOffset \/ ReadType
  <2>1. \E length \in {4, 8} : \E safe : Obtain(length, safe) \/ NotObtained(length, safe)
    BY <1>2 DEF ReadKeyLength, ReadElement, ReadCount, ReadLength, ReadNameLength,
       ReadDimensionCount, ReadTensorType, ReadDataOffset, ReadType
  <2> QED BY <2>1, ReadGoes
<1>3. CASE ReadKey \/ ReadText \/ ReadNumbers \/ ReadName
  <2>1. field \in Sized
    BY <1>3 DEF ReadKey, ReadText, ReadNumbers, ReadName, Sized
  <2>2. Chunk \in Nat /\ Chunk > 0
    BY <2>1, ChunkBounds DEF Inv
  <2>3. \E safe : Obtain(Chunk, safe) \/ NotObtained(Chunk, safe)
    BY <1>3 DEF ReadKey, ReadText, ReadNumbers, ReadName, ReadChunk
  <2> QED BY <2>2, <2>3, ReadGoes
<1>4. CASE ReadScalar \/ ReadDimensions
  <2>1. field \in Sized
    BY <1>4 DEF ReadScalar, ReadDimensions, Sized
  <2>2. left \in Nat /\ left > 0
    BY <2>1 DEF Inv, ItemOK
  <2>3. \E safe : Obtain(left, safe) \/ NotObtained(left, safe)
    BY <1>4 DEF ReadScalar, ReadDimensions
  <2> QED BY <2>2, <2>3, ReadGoes
<1> QED BY <1>1, <1>2, <1>3, <1>4 DEF Next

\* Any step descends, and the cursor stays within the file.
LEMMA ParserStep ==
  ASSUME Inv, WithinFile, Next
  PROVE  WithinFile' /\ ParserRankFalls
<1>1. failure = "none" /\ FileSize \in Nat /\ offset \in Nat /\ offset <= FileSize
  BY PolicyAssumption DEF Next, WithinFile
<1>2. ParserStage \in Nat /\ ParserStage' \in Nat
  BY DEF ParserStage
<1>3. ASSUME offset' > offset, offset' <= FileSize, offset' \in Nat
      PROVE  WithinFile' /\ ParserRankFalls
  <2>1. \A m, n, size \in Nat : m > n /\ m <= size =>
          size - m < size - n /\ size - m \in Nat /\ size - n \in Nat
    OBVIOUS
  <2>2. /\ FileSize - offset' < FileSize - offset
        /\ FileSize - offset' \in Nat /\ FileSize - offset \in Nat
    BY <1>1, <1>3, <2>1
  <2> QED BY <1>2, <1>3, <2>1, <2>2, Descends2 DEF WithinFile, ParserRank, ParserRankFalls
<1>4. ASSUME offset' = offset, ParserStage' < ParserStage
      PROVE  WithinFile' /\ ParserRankFalls
  <2>1. FileSize - offset' = FileSize - offset /\ FileSize - offset \in Nat
    BY <1>1, <1>4
  <2> QED BY <1>1, <1>2, <1>4, <2>1, Descends2 DEF WithinFile, ParserRank, ParserRankFalls
<1>5. CASE Finish
  <2>1. field # "done" /\ offset' = offset /\ (field' = "done" \/ failure' # "none")
    BY <1>5 DEF Finish, Stop, Faulty
  <2> QED BY <1>1, <1>4, <2>1 DEF ParserStage
<1>6. CASE Reject
  <2>1. field # "done" /\ offset' = offset /\ failure' # "none"
    BY <1>6 DEF Reject, Stop, Faulty
  <2> QED BY <1>1, <1>4, <2>1 DEF ParserStage
<1>7. CASE ~Finish /\ ~Reject
  <2>1. Goes
    BY <1>7, FieldGoes
  <2>2. field # "done"
    BY <1>7 DEF Next, ReadFixed, ReadKeyLength, ReadKey, ReadType, ReadScalar, ReadElement,
       ReadCount, ReadLength, ReadText, ReadNumbers, ReadNameLength, ReadName,
       ReadDimensionCount, ReadDimensions, ReadTensorType, ReadDataOffset
  <2>3. offset' \in Nat
    <3>1. Inv'
      BY InvNext
    <3> QED BY <3>1 DEF Inv, SourceOK
  <2>4. CASE offset' = offset /\ failure' # "none"
    BY <1>1, <1>4, <2>2, <2>4 DEF ParserStage
  <2> QED BY <1>3, <2>1, <2>3, <2>4 DEF Goes
<1> QED BY <1>5, <1>6, <1>7

\* Parsing a header comes to an end, also of one that claims any number of
\* entries, strings and elements: the cursor is always within the file, and a
\* step takes it on or is the last (RemoteGGUFHeaderParser.parse).
THEOREM ParserDescends ==
  /\ IsWellFoundedOn(Descent(2), Ranks(2))
  /\ Spec => [][ParserRankFalls]_vars
<1>1. IsWellFoundedOn(Descent(2), Ranks(2))
  BY DescentEnds
<1>2. Init => WithinFile
  BY PolicyAssumption DEF Init, WithinFile
<1>3. WithinFile /\ UNCHANGED vars => WithinFile'
  BY DEF WithinFile, vars
<1>4. Inv /\ WithinFile /\ [Next]_vars => WithinFile'
  BY <1>3, ParserStep
<1>5. Inv /\ WithinFile /\ [Next]_vars => [ParserRankFalls]_vars
  BY ParserStep
<1>6. Spec => [][ParserRankFalls]_vars
  BY InvAlways, <1>2, <1>4, <1>5, PTL DEF Spec
<1> QED BY <1>1, <1>6
=============================================================================
