---------------------------- MODULE RemoteHeader ----------------------------
(***************************************************************************)
(* omiv.remote.gguf_header reading a GGUF header through the last-window   *)
(* cache of omiv.remote.range_source.  Each field is one read; what it     *)
(* says (counts, kinds, lengths) is chosen when it is read, so a behaviour *)
(* is a header.  A GGUF header does not say how long it is: the parser     *)
(* passes each read a lower bound on what must still follow, and only so   *)
(* much is read ahead.                                                     *)
(*                                                                         *)
(* A byte of the file stands for its own position.  Names, values and      *)
(* digests are left out: a field with any other fault is a Reject.         *)
(***************************************************************************)
EXTENDS Integers, Sequences

CONSTANTS
  FileSize,                          \* the size the snapshot declares
  MaxRequest, ReadAhead, MaxTotal, MaxRequests,       \* HeaderParserPolicy
  MaxMetadata, MaxTensors, MaxKey, MaxName, MaxString, MaxElements,
  MaxDimensions, MaxAlignment, PreviewLimit,
  Counts, Lengths, Alignments, Offsets     \* numbers a file may contain

ASSUME PolicyAssumption ==
  /\ {FileSize, ReadAhead, MaxMetadata, MaxTensors, MaxKey, MaxName,
      MaxString, MaxElements, MaxDimensions, MaxAlignment, PreviewLimit} \subseteq Nat
  /\ MaxRequest \in Nat /\ MaxRequest >= 24
  /\ MaxTotal \in Nat /\ MaxTotal >= 24
  /\ MaxRequests \in Nat /\ MaxRequests >= 1
ASSUME NumbersAssumption ==
  Counts \subseteq Nat /\ Lengths \subseteq Nat
    /\ Alignments \subseteq Nat /\ Offsets \subseteq Nat

VARIABLES
  field,       \* the field to be read next, "finish" or "done"
  entries,     \* metadata entries after the one being read
  tensors,     \* tensor descriptors after the one being read
  left,        \* bytes left of the key, text, numbers, name or dimensions
  strings,     \* strings left in the array after the one being read
  width,       \* of an element of the array of numbers
  alignment, dataOffsets,
  budget, previews, \* bytes left of the preview, strings or numbers shown in it
  offset,      \* the parser's cursor
  value,       \* the bytes the last read returned
  cacheStart, cache, \* the window
  intervals,   \* the requested [start, end)
  total,       \* bytes accepted
  failure      \* why parsing stopped, or "none"

item == <<entries, tensors, left, strings, width, alignment, dataOffsets,
          budget, previews>>
source == <<cacheStart, cache, intervals, total>>
vars == <<field, item, offset, value, source, failure>>

Smaller(a, b) == IF a <= b THEN a ELSE b
Larger(a, b) == IF a >= b THEN a ELSE b
-----------------------------------------------------------------------------
(* The byte source (RangeBackedByteSource.read_exact) *)

Bytes(start, length) == [i \in 1..length |-> start + i - 1]
CacheEnd == cacheStart + Len(cache)
Highest == IF intervals = <<>> THEN -1 ELSE intervals[Len(intervals)].end - 1

Cached(length) == offset >= cacheStart /\ offset + length <= CacheEnd
Partly == offset >= cacheStart /\ offset < CacheEnd

FetchStart == IF Partly THEN CacheEnd ELSE offset
Missing(length) == offset + length - FetchStart

\* Mutant: read-ahead comes on top of the largest request.
Uncapped(length, safe) ==
  Smaller(Missing(length) + Smaller(safe, ReadAhead), FileSize - FetchStart)

FetchLength(length, safe) ==
  LET missing == Missing(length)
      extra == Smaller(Smaller(safe, ReadAhead), MaxRequest - missing)
  IN  Smaller(missing + Larger(0, extra), FileSize - FetchStart)

\* Why a read is refused before anything is requested.
Refusal(length, safe) ==
  IF offset + length > FileSize THEN "file_end"
  ELSE IF Cached(length) THEN "none"
  ELSE IF FetchLength(length, safe) > MaxRequest THEN "request_size"
  ELSE IF Len(intervals) >= MaxRequests THEN "request_count"
  ELSE IF total + FetchLength(length, safe) > MaxTotal THEN "total"
  ELSE "none"

\* Mutant: the read starts where the window does.
FromStart(length) == SubSeq(cache, 1, length)

FromCache(length) == SubSeq(cache, offset - cacheStart + 1,
                            offset - cacheStart + length)
Prefix == IF Partly THEN SubSeq(cache, offset - cacheStart + 1, Len(cache))
          ELSE <<>>

Fetch(length, safe) ==
  LET n == FetchLength(length, safe)
      data == Bytes(FetchStart, n)
  IN  /\ cacheStart' = FetchStart /\ cache' = data
      /\ intervals' = Append(intervals, [start |-> FetchStart, end |-> FetchStart + n])
      /\ total' = total + n
      /\ value' = Prefix \o SubSeq(data, 1, Missing(length))

Obtain(length, safe) ==
  /\ Refusal(length, safe) = "none"
  /\ IF Cached(length)
     THEN value' = FromCache(length) /\ UNCHANGED source
     ELSE Fetch(length, safe)
  /\ offset' = offset + length

Stop(why) == failure' = why /\ UNCHANGED <<field, item>>

\* A read that is refused, or that the remote host does not answer well.
NotObtained(length, safe) ==
  /\ \/ Refusal(length, safe) # "none" /\ Stop(Refusal(length, safe))
     \/ Refusal(length, safe) = "none" /\ ~Cached(length) /\ Stop("remote")
  /\ UNCHANGED <<offset, value, source>>
-----------------------------------------------------------------------------
(* The parser (RemoteGGUFHeaderParser) *)

\* Mutant: a descriptor is thought to take a byte and a dimension more.
GenerousMinimum(m, t) == 13 * m + 41 * t

MinimumLater(m, t) == 13 * m + 32 * t
Later == MinimumLater(entries, tensors)

Faulty == Stop("content")

\* The next field, and how many bytes, strings and what width it has.
Turn(to, bytes, more, w) ==
  /\ field' = to /\ left' = bytes /\ strings' = more /\ width' = w
  /\ UNCHANGED <<entries, tensors, dataOffsets, failure>>

\* m metadata entries and t descriptors are still to be read.
Advance(m, t) ==
  /\ field' = IF m > 0 THEN "key_length" ELSE IF t > 0 THEN "name_length" ELSE "finish"
  /\ entries' = IF m > 0 THEN m - 1 ELSE 0
  /\ tensors' = IF m > 0 \/ t = 0 THEN t ELSE t - 1
  /\ left' = 0 /\ strings' = 0 /\ width' = 1
  /\ UNCHANGED failure

Unmarked == UNCHANGED <<alignment, budget, previews>>

EndEntry == Advance(entries, tensors) /\ Unmarked /\ UNCHANGED dataOffsets

Preview(limit, elements) ==
  budget' = limit /\ previews' = elements /\ UNCHANGED alignment

Chunk ==
  LET most == Smaller(left, MaxRequest)
  IN  Larger(width, most - (most % width))

\* One chunk of the field, then the rest of it, or what comes after it.
ReadChunk(safe, After) ==
  \/ NotObtained(Chunk, left - Chunk + safe)
  \/ /\ Obtain(Chunk, left - Chunk + safe)
     /\ IF left > Chunk
        THEN Turn(field, left - Chunk, strings, width) /\ Unmarked
        ELSE After

ReadFixed ==
  /\ field = "fixed"
  /\ \/ NotObtained(24, 0)
     \/ /\ Obtain(24, 0)
        /\ \E m \in Counts, t \in Counts :
             IF m > MaxMetadata \/ t > MaxTensors THEN Faulty
             ELSE Advance(m, t) /\ Unmarked /\ UNCHANGED dataOffsets

ReadKeyLength ==
  /\ field = "key_length"
  /\ \/ NotObtained(8, Later + 5)
     \/ /\ Obtain(8, Later + 5)
        /\ \E n \in Lengths :
             IF n < 1 \/ n > MaxKey THEN Faulty
             ELSE Turn("key", n, 0, 1) /\ Unmarked

ReadKey ==
  /\ field = "key"
  /\ ReadChunk(Later + 5, Turn("type", 0, 0, 1) /\ Unmarked)

ReadType ==
  /\ field = "type"
  /\ \/ NotObtained(4, Later + 1)
     \/ /\ Obtain(4, Later + 1)
        /\ Preview(PreviewLimit, 0)
        /\ \/ \E w \in {1, 2, 4, 8} : Turn("scalar", w, 0, 1)
           \/ Turn("length", 0, 0, 1)
           \/ Turn("element", 0, 0, 1)

\* general.alignment is a scalar of four bytes, and no key comes twice.
ReadScalar ==
  /\ field = "scalar"
  /\ \/ NotObtained(left, Later)
     \/ /\ Obtain(left, Later)
        /\ \/ EndEntry
           \/ /\ left = 4 /\ alignment = 32
              /\ alignment' \in Alignments
              /\ Advance(entries, tensors)
              /\ UNCHANGED <<dataOffsets, budget, previews>>

ReadElement ==
  /\ field = "element"
  /\ \/ NotObtained(4, Later + 8)
     \/ /\ Obtain(4, Later + 8)
        /\ Unmarked
        /\ \/ \E w \in {1, 2, 4, 8} : Turn("count", 0, 0, w)
           \/ Turn("string_count", 0, 0, 1)

ReadCount ==
  /\ field \in {"count", "string_count"}
  /\ \/ NotObtained(8, Later)
     \/ /\ Obtain(8, Later)
        /\ \E n \in Counts :
             IF n > MaxElements THEN Faulty
             ELSE IF n = 0 THEN EndEntry
             ELSE IF field = "count"
             THEN /\ Turn("numbers", n * width, 0, width)
                  /\ Preview(budget, Smaller(n, budget \div width))
             ELSE Turn("length", 0, n - 1, 1) /\ Unmarked

EndString ==
  IF strings = 0 THEN EndEntry
  ELSE Turn("length", 0, strings - 1, 1) /\ Unmarked

\* A string of n bytes in the preview: nothing of it once the budget is spent.
ShowString(n) ==
  Preview(Larger(0, budget - n), IF budget > 0 THEN previews + 1 ELSE previews)

\* The length of a string value, or of the next string of an array.
ReadLength ==
  /\ field = "length"
  /\ \/ NotObtained(8, 8 * strings + Later)
     \/ /\ Obtain(8, 8 * strings + Later)
        /\ \E n \in Lengths :
             IF n > MaxString THEN Faulty
             ELSE /\ ShowString(n)
                  /\ IF n > 0 THEN Turn("text", n, strings, 1)
                     ELSE IF strings > 0 THEN Turn("length", 0, strings - 1, 1)
                     ELSE Advance(entries, tensors) /\ UNCHANGED dataOffsets

ReadText == field = "text" /\ ReadChunk(8 * strings + Later, EndString)
ReadNumbers == field = "numbers" /\ ReadChunk(Later, EndEntry)

ReadNameLength ==
  /\ field = "name_length"
  /\ \/ NotObtained(8, Later + 24)
     \/ /\ Obtain(8, Later + 24)
        /\ \E n \in Lengths :
             IF n < 1 \/ n > MaxName THEN Faulty
             ELSE Turn("name", n, 0, 1) /\ Unmarked

ReadName ==
  /\ field = "name"
  /\ ReadChunk(Later + 24, Turn("dimension_count", 0, 0, 1) /\ Unmarked)

ReadDimensionCount ==
  /\ field = "dimension_count"
  /\ \/ NotObtained(4, Later + 20)
     \/ /\ Obtain(4, Later + 20)
        /\ \E n \in Counts :
             IF n < 1 \/ n > MaxDimensions THEN Faulty
             ELSE Turn("dimensions", 8 * n, 0, 1) /\ Unmarked

ReadDimensions ==
  /\ field = "dimensions"
  /\ \/ NotObtained(left, Later + 12)
     \/ /\ Obtain(left, Later + 12)
        /\ Turn("tensor_type", 0, 0, 1) /\ Unmarked

ReadTensorType ==
  /\ field = "tensor_type"
  /\ \/ NotObtained(4, Later + 8)
     \/ /\ Obtain(4, Later + 8)
        /\ Turn("data_offset", 0, 0, 1) /\ Unmarked

ReadDataOffset ==
  /\ field = "data_offset"
  /\ \/ NotObtained(8, Later)
     \/ /\ Obtain(8, Later)
        /\ \E o \in Offsets : dataOffsets' = dataOffsets \cup {o}
        /\ Advance(0, tensors) /\ Unmarked

Allowed(a) == a > 0 /\ a <= MaxAlignment /\ \E k \in 0..a : 2^k = a

AlignUp(n, a) == IF n % a = 0 THEN n ELSE n + a - (n % a)
PayloadStart == AlignUp(offset, alignment)

\* Mutant: the offset is taken from the start of the file.
OffsetsInFile ==
  \A o \in dataOffsets : o <= FileSize /\ o % alignment = 0

OffsetsFit ==
  \A o \in dataOffsets : PayloadStart + o <= FileSize /\ o % alignment = 0

Finish ==
  /\ field = "finish"
  /\ IF ~Allowed(alignment) \/ PayloadStart > FileSize THEN Faulty
     ELSE IF Highest >= PayloadStart THEN Stop("payload")
     ELSE IF ~OffsetsFit THEN Faulty
     ELSE field' = "done" /\ UNCHANGED <<item, failure>>
  /\ UNCHANGED <<offset, value, source>>

\* The field that was read last has a fault: magic or version, a type, UTF-8,
\* a Boolean, a dimension, a name or a key that was there before.
Reject ==
  /\ field \notin {"fixed", "done"}
  /\ Faulty
  /\ UNCHANGED <<offset, value, source>>

Init ==
  /\ field = "fixed" /\ failure = "none"
  /\ entries = 0 /\ tensors = 0 /\ left = 0 /\ strings = 0 /\ width = 1
  /\ alignment = 32 /\ dataOffsets = {} /\ budget = PreviewLimit /\ previews = 0
  /\ offset = 0 /\ value = <<>>
  /\ cacheStart = 0 /\ cache = <<>> /\ intervals = <<>> /\ total = 0

Next ==
  /\ failure = "none"
  /\ \/ ReadFixed \/ ReadKeyLength \/ ReadKey \/ ReadType \/ ReadScalar
     \/ ReadElement \/ ReadCount \/ ReadLength \/ ReadText \/ ReadNumbers
     \/ ReadNameLength \/ ReadName \/ ReadDimensionCount \/ ReadDimensions
     \/ ReadTensorType \/ ReadDataOffset \/ Finish \/ Reject

Spec == Init /\ [][Next]_vars
-----------------------------------------------------------------------------
(* Properties *)

MetadataFields == {"key_length", "key", "type", "scalar", "element", "count",
                   "string_count", "length", "text", "numbers"}
TensorFields == {"name_length", "name", "dimension_count", "dimensions",
                 "tensor_type", "data_offset"}

\* Types; descriptors come after the metadata.
TypeOK ==
  /\ field \in MetadataFields \cup TensorFields \cup {"fixed", "finish", "done"}
  /\ {entries, tensors, left, strings, budget, previews, offset, total,
      cacheStart} \subseteq Nat
  /\ width \in {1, 2, 4, 8} /\ left % width = 0
  /\ alignment \in Alignments \cup {32} /\ dataOffsets \subseteq Offsets
  /\ value \in Seq(Nat) /\ cache \in Seq(Nat)
  /\ intervals \in Seq([start : Nat, end : Nat])
  /\ failure \in {"none", "content", "remote", "file_end", "request_size",
                  "request_count", "total", "payload"}
  /\ field \in TensorFields => entries = 0
  /\ field \in {"finish", "done"} => entries = 0 /\ tensors = 0

\* What the parser gets, across windows of the cache, are the bytes of the
\* file at its cursor; the digests of entries and descriptors are taken of them.
ValuesAreTheFiles == value = Bytes(offset - Len(value), Len(value))

\* No byte is requested twice and none is skipped: the requests follow one
\* another from the start of the file to what the window holds.
NothingTwice ==
  /\ \A i \in 1..Len(intervals) :
       intervals[i].start = IF i = 1 THEN 0 ELSE intervals[i-1].end
  /\ total = Highest + 1 /\ CacheEnd = total

\* Read-ahead never goes beyond the descriptors: when the last one is read,
\* exactly the header was fetched, no padding and no payload.
OnlyTheHeader == field \in {"finish", "done"} => CacheEnd = offset

\* The header is fetched once, and nothing else is.
HeaderOnce == NothingTwice /\ OnlyTheHeader

\* The least that has to be read from here on, in any header: what the entry
\* or descriptor still has after the counted part, that part, and what is later.
Suffix ==
  [fixed |-> 24, key_length |-> 14, key |-> 5, type |-> 5, scalar |-> 0,
   element |-> 12, count |-> 8, string_count |-> 8, length |-> 8, text |-> 0,
   numbers |-> 0, name_length |-> 33, name |-> 24, dimension_count |-> 24,
   dimensions |-> 12, tensor_type |-> 12, data_offset |-> 8,
   finish |-> 0, done |-> 0]
Rest == Suffix[field] + left + 8 * strings + Later

\* Read-ahead is never the reason to refuse a header: the source refuses the
\* total only if the header itself needs more, a request only if the
\* dimensions alone are larger, and payload it never has.
RefusalsAreDue ==
  /\ failure = "total" => offset + Rest > MaxTotal
  /\ failure = "request_size" => field = "dimensions" /\ left > MaxRequest
  /\ failure # "payload"

\* What RemoteGGUFHeaderInventory demands of its boundary and intervals.
Consistent ==
  /\ PayloadStart >= offset /\ PayloadStart <= FileSize
  /\ PayloadStart % alignment = 0 /\ Allowed(alignment)
  /\ Highest < PayloadStart
  /\ total <= MaxTotal /\ Len(intervals) <= MaxRequests
  /\ \A i \in 1..Len(intervals) :
       /\ intervals[i].start = IF i = 1 THEN 0 ELSE intervals[i-1].end
       /\ intervals[i].end > intervals[i].start
       /\ intervals[i].end - intervals[i].start <= MaxRequest
  /\ Highest + 1 = total
  /\ \A o \in dataOffsets : o % alignment = 0 /\ PayloadStart + o <= FileSize

\* The inventory of a header that was parsed passes its own validation.
InventoryIsConsistent == field = "done" => Consistent

\* The preview of an array stays within the limit of the policy, which the
\* validation of the inventory demands of its number of elements.
PreviewIsBounded == previews <= PreviewLimit
=============================================================================
