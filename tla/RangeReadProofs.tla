--------------------------- MODULE RangeReadProofs ---------------------------
(***************************************************************************)
(* RangeRead for every object size, chunk size, header and limit.          *)
(*                                                                         *)
(* While chunks arrive, what has been joined is the run of bytes from the  *)
(* first covering chunk to the one the loop is at (Progress); with the     *)
(* range arithmetic, which comes first, the slice at the end is then the   *)
(* range.                                                                  *)
(***************************************************************************)
EXTENDS RangeRead, TLAPS, SequenceTheorems

-----------------------------------------------------------------------------
(* What the range arithmetic of CidRange computes, for every object size,  *)
(* chunk size and header.                                                  *)


Header ==
    [kind : {"absent", "ignored", "malformed"}]
        \cup [kind : {"suffix"}, n : Nat]
        \cup [kind : {"from"}, a : Nat]
        \cup [kind : {"span"}, a : Nat, b : Nat]

\* Quotient and remainder.
LEMMA Division ==
    ASSUME NEW x \in Nat, NEW n \in Nat \ {0}
    PROVE  /\ x \div n \in Nat
           /\ (x \div n) * n <= x
           /\ x < (x \div n) * n + n
<1>1. x = n * (x \div n) + (x % n) /\ 0 <= x % n /\ x % n < n
  OBVIOUS
<1>2. x \div n \in Nat
  OBVIOUS
<1> QED
  BY <1>1, <1>2

\* Division keeps the order.
LEMMA DivisionMonotone ==
    ASSUME NEW x \in Nat, NEW y \in Nat, x <= y, NEW n \in Nat \ {0}
    PROVE  x \div n <= y \div n
<1> DEFINE p == x \div n
           q == y \div n
<1>1. p \in Nat /\ q \in Nat /\ p * n <= x /\ y < q * n + n
  BY Division
<1> HIDE DEF p, q
<1>2. p * n < (q + 1) * n
  BY <1>1
<1>3. p < q + 1
  BY <1>1, <1>2
<1> QED
  BY <1>1, <1>3 DEF p, q

\* parse_range keeps the invariant that ByteRange documents (cidrange.rs:18):
\* whatever the header says, a partial outcome has start <= end < total.
THEOREM PartialInBounds ==
    ASSUME NEW total \in Nat, NEW h \in Header,
           ParseRange(h, total).kind = "partial"
    PROVE  LET r == ParseRange(h, total)
           IN  r.start \in Nat /\ r.end \in Nat /\ r.start <= r.end /\ r.end < total
<1>1. CASE h.kind \in {"absent", "ignored", "malformed"}
  BY <1>1 DEF ParseRange, Full, Unsatisfiable, Partial
<1>2. CASE h.kind = "suffix"
  BY <1>2 DEF Header, ParseRange, Full, Unsatisfiable, Partial, Lesser
<1>3. CASE h.kind = "from"
  BY <1>3 DEF Header, ParseRange, Full, Unsatisfiable, Partial, Lesser
<1>4. CASE h.kind = "span"
  BY <1>4 DEF Header, ParseRange, Full, Unsatisfiable, Partial, Lesser
<1> QED
  BY <1>1, <1>2, <1>3, <1>4 DEF Header

\* The chunks that chunks_for_range names are the ones with bytes of the
\* range: every byte of the range lies in one of them, the first and the last
\* of them hold a byte of it, and head_skip is the offset of the range's
\* first byte within the first chunk.
THEOREM SpanCovers ==
    ASSUME NEW cs \in Nat \ {0}, NEW start \in Nat, NEW end \in Nat, start <= end
    PROVE  LET s == ChunksForRange(cs, Partial(start, end))
           IN  /\ s.first \in Nat /\ s.last \in Nat /\ s.first <= s.last
               /\ s.first * cs <= start /\ start < (s.first + 1) * cs
               /\ s.last * cs <= end /\ end < (s.last + 1) * cs
               /\ s.skip = start - s.first * cs /\ s.skip \in 0 .. cs - 1
               /\ s.len = end - start + 1
<1> DEFINE f == start \div cs
           l == end \div cs
<1>1. f \in Nat /\ f * cs <= start /\ start < f * cs + cs
  BY Division
<1>2. l \in Nat /\ l * cs <= end /\ end < l * cs + cs
  BY Division
<1>3. f <= l
  BY DivisionMonotone
<1>4. ChunksForRange(cs, Partial(start, end)) =
        [first |-> f, last |-> l, skip |-> start - f * cs, len |-> end - start + 1]
  BY DEF ChunksForRange, Partial
<1> HIDE DEF f, l
<1>5. (f + 1) * cs = f * cs + cs /\ (l + 1) * cs = l * cs + cs
  BY <1>1, <1>2
<1>6. f * cs \in Int
  BY <1>1
<1> QED
  BY <1>1, <1>2, <1>3, <1>4, <1>5, <1>6

\* Taking head_skip off the covering chunks and keeping out_len bytes gives
\* the requested bytes, also when the last chunk is short: the read is never
\* refused as too short, and it is exact.
THEOREM SliceIsRange ==
    ASSUME NEW total \in Nat, NEW cs \in Nat \ {0},
           NEW start \in Nat, NEW end \in Nat, start <= end, end < total
    PROVE  LET s == ChunksForRange(cs, Partial(start, end))
               body == Bytes(s.first * cs, Lesser((s.last + 1) * cs, total))
           IN  LongEnough(body, s) /\ SliceSpan(body, s) = Bytes(start, end + 1)
<1> DEFINE s == ChunksForRange(cs, Partial(start, end))
           lo == s.first * cs
           hi == Lesser((s.last + 1) * cs, total)
           body == Bytes(lo, hi)
<1>1. /\ s.first \in Nat /\ s.last \in Nat
      /\ lo <= start /\ end < (s.last + 1) * cs
      /\ s.skip = start - lo /\ s.len = end - start + 1
  BY SpanCovers
<1>2. lo \in Nat /\ (s.last + 1) * cs \in Nat
  BY <1>1
<1>3. hi \in Nat /\ end < hi
  BY <1>1, <1>2 DEF Lesser
<1> HIDE DEF s, lo, hi
<1>4. body \in Seq(Int) /\ Len(body) = hi - lo
  BY <1>1, <1>2, <1>3 DEF Bytes
<1>5. \A i \in 1 .. hi - lo : body[i] = lo + i - 1
  BY DEF Bytes
<1> HIDE DEF body
<1>6. s.skip + s.len <= Len(body)
  BY <1>1, <1>2, <1>3, <1>4
<1>7. SubSeq(body, s.skip + 1, s.skip + s.len) = Bytes(start, end + 1)
  <2>1. SubSeq(body, s.skip + 1, s.skip + s.len)
          = [i \in 1 .. end - start + 1 |-> body[start - lo + i]]
    BY <1>1, <1>2, <1>3, <1>4
  <2>2. \A i \in 1 .. end - start + 1 : body[start - lo + i] = start + i - 1
    BY <1>1, <1>2, <1>3, <1>5
  <2>3. (end + 1) - start = end - start + 1
    OBVIOUS
  <2> QED
    BY <2>1, <2>2, <2>3 DEF Bytes
<1> QED
  BY <1>6, <1>7 DEF s, lo, hi, body, LongEnough, SliceSpan

-----------------------------------------------------------------------------
(* The read itself.                                                        *)

\* the span that get_range and read_range ask for
FullSpan == [first |-> 0, last |-> IF ChunkCount = 0 THEN 0 ELSE ChunkCount - 1,
             skip |-> 0, len |-> job.total]

RightSpan ==
    \/ /\ outcome.kind = "full"
       /\ job.reader = "client"
       /\ span = FullSpan
    \/ /\ outcome.kind = "partial"
       /\ job.chunkSize = job.stride
       /\ span = ChunksForRange(job.stride, outcome)
       /\ job.reader = "mesh" => (span.last - span.first + 1) * job.stride <= MaxRange

\* what has been joined so far
Progress == joined = Bytes(span.first * job.stride, Lesser(current * job.stride, job.total))

Phase ==
    /\ pc \in {"start", "object", "hot", "manifest"} =>
          fetched = 0 /\ joined = << >> /\ span = NoSpan
    /\ pc = "object" => outcome.kind = "full"
    /\ pc \in {"hot", "manifest"} => outcome.kind = "partial"
    /\ pc = "chunks" => RightSpan /\ Progress /\ job.total > 0 /\ current <= span.last
    /\ pc = "slice" =>
          /\ RightSpan
          /\ Progress
          /\ job.total > 0 => current = span.last + 1
          /\ job.total = 0 => outcome.kind = "full" /\ fetched = 0
    /\ pc # "end" => answer.status = "none"

\* The inductive invariant.
Inv ==
    /\ TypeOK
    /\ Phase
    /\ ExactBytes
    /\ OnlyCoveringChunks
    /\ MeshBounded
    /\ RefusedForAReason

-----------------------------------------------------------------------------
(* Facts about the operators.                                              *)

\* A run of bytes is a sequence of numbers.
LEMMA BytesType ==
    ASSUME NEW lo \in Nat, NEW hi \in Nat, lo <= hi
    PROVE  /\ Bytes(lo, hi) \in Seq(Nat)
           /\ Len(Bytes(lo, hi)) = hi - lo
           /\ \A i \in 1 .. hi - lo : Bytes(lo, hi)[i] = lo + i - 1
<1>1. Bytes(lo, hi) \in [1 .. hi - lo -> Nat]
  BY DEF Bytes
<1>2. hi - lo \in Nat
  OBVIOUS
<1> QED
  BY <1>1, <1>2 DEF Bytes

\* Adjacent runs join to a run.
LEMMA BytesJoin ==
    ASSUME NEW a \in Nat, NEW b \in Nat, NEW c \in Nat, a <= b, b <= c
    PROVE  Bytes(a, b) \o Bytes(b, c) = Bytes(a, c)
<1> DEFINE s == Bytes(a, b)
           t == Bytes(b, c)
<1>1. /\ s \in Seq(Nat) /\ Len(s) = b - a
      /\ \A i \in 1 .. b - a : s[i] = a + i - 1
  BY BytesType
<1>2. /\ t \in Seq(Nat) /\ Len(t) = c - b
      /\ \A i \in 1 .. c - b : t[i] = b + i - 1
  BY BytesType
<1> HIDE DEF s, t
<1>3. /\ s \o t \in Seq(Nat) /\ Len(s \o t) = Len(s) + Len(t)
      /\ \A i \in 1 .. Len(s) + Len(t) :
            (s \o t)[i] = IF i <= Len(s) THEN s[i] ELSE t[i - Len(s)]
  BY <1>1, <1>2, ConcatProperties
<1>4. /\ Len(s \o t) = c - a
      /\ \A i \in 1 .. c - a : (s \o t)[i] = a + i - 1
  <2>1. Len(s) + Len(t) = c - a
    BY <1>1, <1>2
  <2>2. ASSUME NEW i \in 1 .. c - a
        PROVE  (s \o t)[i] = a + i - 1
    <3>1. (s \o t)[i] = IF i <= Len(s) THEN s[i] ELSE t[i - Len(s)]
      BY <1>3, <2>1
    <3>2. CASE i <= b - a
      BY <3>1, <3>2, <1>1
    <3>3. CASE i > b - a
      <4>1. i - (b - a) \in 1 .. c - b
        BY <3>3
      <4>2. t[i - (b - a)] = b + (i - (b - a)) - 1
        BY <1>2, <4>1
      <4> QED
        BY <3>1, <3>3, <4>2, <1>1
    <3>4. i <= b - a \/ i > b - a
      OBVIOUS
    <3> QED
      BY <3>2, <3>3, <3>4, Zenon
  <2> QED
    BY <1>3, <2>1, <2>2
<1>5. /\ Bytes(a, c) \in Seq(Nat) /\ Len(Bytes(a, c)) = c - a
      /\ \A i \in 1 .. c - a : Bytes(a, c)[i] = a + i - 1
  BY BytesType
<1>6. s \o t = Bytes(a, c)
  BY <1>3, <1>4, <1>5, SeqEqual
<1> QED
  BY <1>6 DEF s, t

\* Multiplication keeps the order.
LEMMA ProductMonotone ==
    ASSUME NEW k \in Nat, NEW m \in Nat, k <= m, NEW n \in Nat
    PROVE  k * n <= m * n /\ k * n \in Nat /\ m * n \in Nat
<1>1. m * n = k * n + (m - k) * n
  OBVIOUS
<1>2. (m - k) * n >= 0 /\ k * n \in Nat /\ m * n \in Nat
  OBVIOUS
<1> QED
  BY <1>1, <1>2

\* The chunk count is the least one whose chunks hold the object.
LEMMA CountFacts ==
    ASSUME NEW total \in Nat, NEW st \in Nat \ {0}
    PROVE  LET n == (total + st - 1) \div st
           IN  /\ n \in Nat
               /\ total <= n * st
               /\ total > 0 => n > 0 /\ (n - 1) * st < total
               /\ total = 0 => n = 0
<1> DEFINE n == (total + st - 1) \div st
<1>1. total + st - 1 \in Nat
  OBVIOUS
<1>2. n \in Nat /\ n * st <= total + st - 1 /\ total + st - 1 < n * st + st
  BY <1>1, Division
<1> HIDE DEF n
<1>3. n * st \in Nat /\ (n - 1) * st = n * st - st
  BY <1>2
<1>4. total <= n * st
  BY <1>2, <1>3
<1>5. total > 0 => n > 0 /\ (n - 1) * st < total
  BY <1>2, <1>3, <1>4
<1>6. ASSUME total = 0 PROVE n = 0
  <2>1. n * st < st
    BY <1>2, <1>3, <1>6
  <2>2. n >= 1 => 1 * st <= n * st
    BY <1>2, ProductMonotone
  <2> QED
    BY <1>2, <1>3, <2>1, <2>2
<1> QED
  BY <1>2, <1>4, <1>5, <1>6 DEF n

\* parse_range answers with what the header means.
LEMMA OutcomeMeans ==
    ASSUME NEW total \in Nat, NEW h \in Header
    PROVE  LET r == ParseRange(h, total)
           IN  /\ r.kind \in {"full", "partial", "unsatisfiable"}
               /\ r.kind = "full" =>
                     Wanted(h, total) = 0 .. total - 1 /\ h.kind \notin Ranges
               /\ r.kind = "partial" => Wanted(h, total) = r.start .. r.end
               /\ r.kind = "unsatisfiable" =>
                     IF total = 0 THEN h.kind \in Ranges \cup {"malformed"}
                     ELSE h.kind \in Ranges /\ Wanted(h, total) = {}
<1>1. CASE h.kind \in {"absent", "ignored", "malformed"}
  BY <1>1 DEF Header, ParseRange, Full, Unsatisfiable, Partial, Wanted, Ranges
<1>2. CASE h.kind = "suffix"
  BY <1>2 DEF Header, ParseRange, Full, Unsatisfiable, Partial, Lesser, Wanted, Ranges
<1>3. CASE h.kind = "from"
  BY <1>3 DEF Header, ParseRange, Full, Unsatisfiable, Partial, Lesser, Wanted, Ranges
<1>4. CASE h.kind = "span"
  BY <1>4 DEF Header, ParseRange, Full, Unsatisfiable, Partial, Lesser, Wanted, Ranges
<1> QED
  BY <1>1, <1>2, <1>3, <1>4 DEF Header

\* A run is its numbers in order.
LEMMA RunExact ==
    ASSUME NEW lo \in Nat, NEW hi \in Nat, lo <= hi
    PROVE  LET b == Bytes(lo, hi)
           IN  /\ {b[i] : i \in 1 .. Len(b)} = lo .. hi - 1
               /\ \A i \in 1 .. Len(b) - 1 : b[i] + 1 = b[i + 1]
<1> DEFINE b == Bytes(lo, hi)
<1>1. Len(b) = hi - lo /\ \A i \in 1 .. hi - lo : b[i] = lo + i - 1
  BY BytesType
<1> HIDE DEF b
<1>2. \A i \in 1 .. Len(b) : b[i] \in lo .. hi - 1
  BY <1>1
<1>3. ASSUME NEW x \in lo .. hi - 1
      PROVE  x \in {b[i] : i \in 1 .. Len(b)}
  <2>1. x - lo + 1 \in 1 .. Len(b) /\ b[x - lo + 1] = x
    BY <1>1
  <2> QED
    BY <2>1
<1>4. \A i \in 1 .. Len(b) - 1 : b[i] + 1 = b[i + 1]
  BY <1>1
<1>5. {b[i] : i \in 1 .. Len(b)} = lo .. hi - 1
  BY <1>2, <1>3
<1> QED
  BY <1>4, <1>5 DEF b

-----------------------------------------------------------------------------
(* Facts about states.                                                     *)

LEMMA JobFacts ==
    ASSUME job \in Jobs
    PROVE  /\ job.total \in Nat
           /\ job.stride \in Nat \ {0}
           /\ job.header \in Header
           /\ job.chunkSize \in {0, job.stride}
           /\ job.held \in BOOLEAN
           /\ MaxRange \in Nat
<1>1. /\ job.total \in Totals /\ job.stride \in Strides /\ job.header \in Headers
      /\ job.chunkSize \in {0, job.stride} /\ job.held \in BOOLEAN
  BY DEF Jobs
<1>2. Headers \subseteq Header
  BY RangeAssumption DEF Headers, Header
<1> QED
  BY <1>1, <1>2, RangeAssumption

\* The outcome of a job, by what its header means.
LEMMA OutcomeFacts ==
    ASSUME job \in Jobs
    PROVE  /\ outcome.kind \in {"full", "partial", "unsatisfiable"}
           /\ outcome.kind = "full" => wanted = 0 .. job.total - 1
           /\ outcome.kind = "partial" =>
                 /\ outcome.start \in Nat /\ outcome.end \in Nat
                 /\ outcome.start <= outcome.end /\ outcome.end < job.total
                 /\ wanted = outcome.start .. outcome.end
                 /\ outcome = Partial(outcome.start, outcome.end)
           /\ outcome.kind = "unsatisfiable" => refusable
           /\ outcome.kind # "unsatisfiable" => ~(job.header.kind \in Ranges /\ wanted = {})
<1>1. job.total \in Nat /\ job.header \in Header
  BY JobFacts
<1>2. outcome.kind = "partial" =>
        /\ outcome.start \in Nat /\ outcome.end \in Nat
        /\ outcome.start <= outcome.end /\ outcome.end < job.total
  BY <1>1, PartialInBounds DEF outcome
<1>3. outcome.kind = "partial" => outcome = Partial(outcome.start, outcome.end)
  BY <1>1 DEF outcome, ParseRange, Full, Unsatisfiable, Partial
<1>4. /\ outcome.kind \in {"full", "partial", "unsatisfiable"}
      /\ outcome.kind = "full" => wanted = 0 .. job.total - 1 /\ job.header.kind \notin Ranges
      /\ outcome.kind = "partial" => wanted = outcome.start .. outcome.end
      /\ outcome.kind = "unsatisfiable" => refusable
  BY <1>1, OutcomeMeans DEF outcome, wanted, refusable
<1>5. outcome.kind = "partial" => outcome.start \in wanted
  BY <1>2, <1>4
<1> QED
  BY <1>1, <1>2, <1>3, <1>4, <1>5

\* The chunks of the right span exist and hold wanted bytes.
LEMMA SpanFacts ==
    ASSUME job \in Jobs, RightSpan, job.total > 0
    PROVE  /\ span.first \in Nat /\ span.last \in Nat /\ span.first <= span.last
           /\ span.last <= ChunkCount - 1
           /\ ChunkCount \in Nat
           /\ span.last * job.stride < job.total
           /\ \A k \in span.first .. span.last :
                 wanted \cap (k * job.stride .. (k + 1) * job.stride - 1) # {}
<1> DEFINE st == job.stride
           n == ChunkCount
<1>1. job.total \in Nat /\ st \in Nat \ {0}
  BY JobFacts
<1>2. n \in Nat /\ job.total <= n * st /\ n > 0 /\ (n - 1) * st < job.total
  BY <1>1, CountFacts DEF ChunkCount
<1> HIDE DEF st, n
<1>3. CASE outcome.kind = "full"
  <2>1. span.first = 0 /\ span.last = n - 1
    BY <1>2, <1>3 DEF RightSpan, FullSpan, n
  <2>2. wanted = 0 .. job.total - 1
    BY <1>3, OutcomeFacts
  <2>3. ASSUME NEW k \in 0 .. n - 1
        PROVE  k * st \in wanted \cap (k * st .. (k + 1) * st - 1)
    <3>1. k * st \in Nat /\ k * st <= (n - 1) * st /\ (n - 1) * st \in Nat
      BY <1>1, <1>2, ProductMonotone
    <3>2. (k + 1) * st = k * st + st
      BY <1>1
    <3> QED
      BY <1>1, <1>2, <2>2, <3>1, <3>2
  <2> QED
    BY <1>2, <2>1, <2>3 DEF st, n
<1>4. CASE outcome.kind = "partial"
  <2> DEFINE f == span.first
             l == span.last
             a == outcome.start
             b == outcome.end
  <2>1. /\ a \in Nat /\ b \in Nat /\ a <= b /\ b < job.total /\ wanted = a .. b
        /\ outcome = Partial(a, b)
    BY <1>4, OutcomeFacts
  <2>2. span = ChunksForRange(st, Partial(a, b))
    BY <1>4, <2>1 DEF RightSpan, st
  <2>3. /\ f \in Nat /\ l \in Nat /\ f <= l
        /\ f * st <= a /\ a < (f + 1) * st /\ l * st <= b
    BY <1>1, <2>1, <2>2, SpanCovers
  <2> HIDE DEF f, l, a, b
  <2>4. l * st \in Nat /\ l * st < n * st
    BY <1>1, <1>2, <2>1, <2>3
  <2>5. l <= n - 1
    <3>1. n <= l => n * st <= l * st
      BY <1>1, <1>2, <2>3, ProductMonotone
    <3> QED
      BY <1>1, <1>2, <2>3, <2>4, <3>1
  <2>6. ASSUME NEW k \in f .. l
        PROVE  wanted \cap (k * st .. (k + 1) * st - 1) # {}
    <3>1. k \in Nat /\ k * st \in Nat /\ (k + 1) * st = k * st + st
      BY <1>1, <2>3
    <3>2. CASE k = f
      <4>1. a \in wanted \cap (k * st .. (k + 1) * st - 1)
        BY <2>1, <2>3, <3>1, <3>2, <1>1
      <4> QED
        BY <4>1
    <3>3. CASE k > f
      <4>1. (f + 1) * st <= k * st /\ k * st <= l * st /\ (f + 1) * st \in Nat
        BY <1>1, <2>3, <3>1, <3>3, ProductMonotone
      <4>2. k * st \in wanted \cap (k * st .. (k + 1) * st - 1)
        BY <1>1, <2>1, <2>3, <2>4, <3>1, <4>1
      <4> QED
        BY <4>2
    <3>4. k = f \/ k > f
      BY <2>3
    <3> QED
      BY <3>2, <3>3, <3>4, Zenon
  <2>7. l * st < job.total
    BY <1>1, <2>1, <2>3, <2>4
  <2> QED
    BY <1>2, <2>3, <2>5, <2>6, <2>7, Zenon DEF f, l, st, n
<1> QED
  BY <1>3, <1>4 DEF RightSpan

-----------------------------------------------------------------------------
(* The invariant is inductive.                                             *)

\* A step that ends the read: only the answer is to be looked at.
LEMMA EndPreserves ==
    ASSUME Inv, UNCHANGED <<job, span, joined, fetched>>,
           NEW status \in {"ok", "unsatisfiable", "limit", "manifest", "store"},
           NEW bytes \in Seq(Nat), Finish(status, bytes),
           status = "unsatisfiable" => outcome.kind = "unsatisfiable",
           status = "ok" => outcome.kind # "unsatisfiable",
           status = "ok" =>
               \E lo, hi \in Nat :
                   lo <= hi /\ wanted = lo .. hi - 1 /\ bytes = Bytes(lo, hi)
    PROVE  Inv'
<1>1. TypeOK'
  BY DEF Inv, TypeOK, Finish
<1>2. Phase'
  BY DEF Phase, Finish
<1>3. wanted' = wanted
  BY DEF wanted
<1>4. ExactBytes'
  <2>1. SUFFICES ASSUME status = "ok"
                 PROVE  /\ {bytes[i] : i \in 1 .. Len(bytes)} = wanted
                        /\ \A i \in 1 .. Len(bytes) - 1 : bytes[i] + 1 = bytes[i + 1]
    BY <1>3 DEF ExactBytes, Finish
  <2>2. PICK lo \in Nat, hi \in Nat :
            lo <= hi /\ wanted = lo .. hi - 1 /\ bytes = Bytes(lo, hi)
    BY <2>1
  <2> DEFINE b == Bytes(lo, hi)
  <2>3. /\ {b[i] : i \in 1 .. Len(b)} = lo .. hi - 1
        /\ \A i \in 1 .. Len(b) - 1 : b[i] + 1 = b[i + 1]
    BY <2>2, RunExact
  <2> HIDE DEF b
  <2>4. bytes = b
    BY <2>2 DEF b
  <2> QED
    BY <2>2, <2>3, <2>4
<1>5. OnlyCoveringChunks'
  BY <1>3 DEF Inv, OnlyCoveringChunks, current
<1>6. MeshBounded'
  BY DEF Inv, MeshBounded
<1>7. RefusedForAReason'
  <2>1. /\ outcome.kind = "unsatisfiable" => refusable
        /\ outcome.kind # "unsatisfiable" => ~(job.header.kind \in Ranges /\ wanted = {})
    BY OutcomeFacts DEF Inv, TypeOK
  <2>2. refusable' = refusable
    BY <1>3 DEF refusable
  <2>3. QED
    BY <1>3, <2>1, <2>2 DEF RefusedForAReason, Finish
<1> QED
  BY <1>1, <1>2, <1>4, <1>5, <1>6, <1>7 DEF Inv

\* A step that goes on without an answer and has fetched nothing yet.
LEMMA EarlyPreserves ==
    ASSUME Inv, UNCHANGED <<job, joined, fetched, answer>>,
           pc \in {"start", "object", "hot", "manifest"}, fetched = 0,
           pc' \in {"object", "hot", "manifest", "chunks", "slice"},
           span' \in [first : Nat, last : Nat, skip : Nat, len : Nat],
           Phase'
    PROVE  Inv'
<1>1. TypeOK'
  BY DEF Inv, TypeOK
<1>2. answer.status = "none"
  BY DEF Inv, Phase
<1>3. ExactBytes' /\ RefusedForAReason'
  BY <1>2 DEF ExactBytes, RefusedForAReason
<1>4. OnlyCoveringChunks'
  <2>1. span'.first \in Nat /\ fetched' = 0
    OBVIOUS
  <2>2. current' = span'.first
    BY <2>1 DEF current
  <2>3. span'.first .. current' - 1 = {}
    BY <2>1, <2>2
  <2> QED
    BY <2>3 DEF OnlyCoveringChunks
<1>5. MeshBounded'
  BY DEF Inv, MeshBounded
<1> QED
  BY <1>1, <1>3, <1>4, <1>5 DEF Inv

\* The span of a whole read by the client.
LEMMA FullSpanType ==
    ASSUME job \in Jobs
    PROVE  FullSpan \in [first : Nat, last : Nat, skip : Nat, len : Nat]
<1>1. ChunkCount \in Nat /\ job.total \in Nat
  BY JobFacts, CountFacts DEF ChunkCount
<1> QED
  BY <1>1 DEF FullSpan

\* The span of a partial read.
LEMMA PartialSpanType ==
    ASSUME job \in Jobs, outcome.kind = "partial"
    PROVE  /\ ChunksForRange(job.stride, outcome)
                 \in [first : Nat, last : Nat, skip : Nat, len : Nat]
           /\ ChunksForRange(job.stride, outcome).first <=
                 ChunksForRange(job.stride, outcome).last
<1> DEFINE s == ChunksForRange(job.stride, outcome)
<1>1. job.stride \in Nat \ {0}
  BY JobFacts
<1>2. /\ outcome.start \in Nat /\ outcome.end \in Nat /\ outcome.start <= outcome.end
      /\ outcome = Partial(outcome.start, outcome.end)
  BY OutcomeFacts
<1> DEFINE a == outcome.start
           b == outcome.end
           u == ChunksForRange(job.stride, Partial(a, b))
<1> HIDE DEF a, b
<1>a. a \in Nat /\ b \in Nat /\ a <= b /\ s = u
  BY <1>2 DEF a, b
<1>b. /\ u.first \in Nat /\ u.last \in Nat /\ u.first <= u.last
      /\ u.skip \in 0 .. job.stride - 1 /\ u.len = b - a + 1
  BY <1>1, <1>a, SpanCovers
<1> HIDE DEF u
<1>3. /\ s.first \in Nat /\ s.last \in Nat /\ s.first <= s.last
      /\ s.skip \in 0 .. job.stride - 1 /\ s.len = outcome.end - outcome.start + 1
  BY <1>a, <1>b DEF a, b
<1>4. s = [first |-> s.first, last |-> s.last, skip |-> s.skip, len |-> s.len]
  BY DEF ChunksForRange
<1>5. s.skip \in Nat /\ s.len \in Nat
  BY <1>1, <1>2, <1>3
<1> QED
  BY <1>3, <1>4, <1>5

\* An empty run.
LEMMA EmptyRun ==
    ASSUME NEW lo \in Nat, NEW hi \in Nat, hi <= lo
    PROVE  Bytes(lo, hi) = << >>
<1>1. 1 .. hi - lo = {}
  OBVIOUS
<1> QED
  BY <1>1 DEF Bytes

\* Nothing is joined before the first chunk.
LEMMA ProgressFirst ==
    ASSUME job \in Jobs, UNCHANGED <<job, joined, fetched>>, span'.first \in Nat,
           fetched = 0, joined = << >>
    PROVE  Progress' /\ current' = span'.first
<1> DEFINE x == span'.first
           y == x * job.stride
           z == Lesser(y, job.total)
<1>1. job.total \in Nat /\ job.stride \in Nat \ {0} /\ x \in Nat
  BY JobFacts
<1>2. current' = x
  BY <1>1 DEF current
<1>3. y \in Nat
  BY <1>1
<1>4. z \in Nat /\ z <= y
  BY <1>1, <1>3 DEF Lesser
<1> HIDE DEF y, z
<1>5. Bytes(y, z) = << >>
  BY <1>3, <1>4, EmptyRun
<1> QED
  BY <1>2, <1>5 DEF Progress, y, z

\* The loop's step: what is joined stays a run that ends where the loop is.
LEMMA FetchPreserves ==
    ASSUME Inv, FetchChunk
    PROVE  Inv'
<1> DEFINE st == job.stride
           f == span.first
           l == span.last
           c == current
           total == job.total
<1>1. /\ job \in Jobs /\ RightSpan /\ Progress /\ total > 0 /\ c <= l
      /\ fetched \in Nat /\ answer.status = "none" /\ pc = "chunks"
  BY DEF Inv, TypeOK, Phase, FetchChunk
<1>2. total \in Nat /\ st \in Nat \ {0} /\ MaxRange \in Nat
  BY <1>1, JobFacts
<1>3. /\ f \in Nat /\ l \in Nat /\ f <= l /\ l <= ChunkCount - 1
      /\ ChunkCount \in Nat /\ l * st < total
      /\ \A k \in f .. l : wanted \cap (k * st .. (k + 1) * st - 1) # {}
  BY <1>1, SpanFacts
<1>4. c = f + fetched /\ c \in Nat /\ f <= c
  BY <1>1, <1>3 DEF current
<1>5. /\ job' = job /\ span' = span /\ answer' = answer /\ fetched' = fetched + 1
      /\ joined' = joined \o Chunk(c)
      /\ pc' = IF c >= Lesser(l, ChunkCount - 1) THEN "slice" ELSE "chunks"
  BY DEF FetchChunk, Goto
<1>6. current' = c + 1 /\ wanted' = wanted /\ outcome' = outcome
  <2>1. wanted' = wanted /\ outcome' = outcome
    BY <1>5 DEF wanted, outcome
  <2>2. current' = span.first + (fetched + 1)
    BY <1>5 DEF current
  <2>3. span.first + (fetched + 1) = c + 1
    BY <1>1, <1>3, <1>4
  <2> QED
    BY <2>1, <2>2, <2>3, Zenon
<1>7. pc' = IF c = l THEN "slice" ELSE "chunks"
  BY <1>1, <1>3, <1>4, <1>5 DEF Lesser
<1> DEFINE hi == Lesser((c + 1) * st, total)
<1>8. /\ f * st \in Nat /\ c * st \in Nat /\ (c + 1) * st = c * st + st
      /\ f * st <= c * st /\ c * st <= l * st /\ l * st \in Nat
  BY <1>1, <1>2, <1>3, <1>4, ProductMonotone
<1>9. hi \in Nat /\ c * st <= hi /\ hi <= c * st + st
  BY <1>2, <1>3, <1>8 DEF Lesser
<1>10. joined' = Bytes(f * st, hi)
  <2>1. Lesser(c * st, total) = c * st
    BY <1>2, <1>3, <1>8 DEF Lesser
  <2>2. joined = Bytes(f * st, c * st)
    BY <1>1, <2>1 DEF Progress
  <2>3. Chunk(c) = Bytes(c * st, hi)
    BY DEF Chunk
  <2> DEFINE x == f * st
             y == c * st
  <2>4. x \in Nat /\ y \in Nat /\ hi \in Nat /\ x <= y /\ y <= hi
    BY <1>8, <1>9
  <2> HIDE DEF x, y, hi
  <2>5. Bytes(x, y) \o Bytes(y, hi) = Bytes(x, hi)
    BY <2>4, BytesJoin
  <2> QED
    BY <1>5, <2>2, <2>3, <2>5, Zenon DEF x, y
<1>11. joined' \in Seq(Nat) /\ Len(joined') = hi - f * st
  <2> DEFINE x == f * st
  <2>1. x \in Nat /\ hi \in Nat /\ x <= hi
    BY <1>8, <1>9
  <2>2. joined' = Bytes(x, hi)
    BY <1>10
  <2> HIDE DEF x, hi
  <2>3. joined' \in Seq(Nat) /\ Len(joined') = hi - x
    BY <2>1, <2>2, BytesType
  <2> QED
    BY <2>3 DEF x
<1>12. TypeOK'
  BY <1>1, <1>5, <1>7, <1>11 DEF Inv, TypeOK
<1>13. RightSpan'
  BY <1>1, <1>5 DEF RightSpan, FullSpan, ChunkCount, outcome
<1>14. Progress'
  BY <1>5, <1>6, <1>10 DEF Progress
<1>15. Phase'
  <2>1. pc' = "chunks" => current' <= span'.last
    BY <1>1, <1>3, <1>4, <1>5, <1>6, <1>7
  <2>2. pc' = "slice" => current' = span'.last + 1
    BY <1>5, <1>6, <1>7
  <2>3. pc' \in {"chunks", "slice"} /\ job'.total > 0 /\ job'.total # 0
    BY <1>1, <1>2, <1>5, <1>7
  <2>4. answer'.status = "none"
    BY <1>1, <1>5
  <2> QED
    BY <1>13, <1>14, <2>1, <2>2, <2>3, <2>4 DEF Phase
<1>16. ExactBytes' /\ RefusedForAReason'
  BY <1>1, <1>5 DEF ExactBytes, RefusedForAReason
<1>17. OnlyCoveringChunks'
  <2>1. \A k \in f .. c : k \in f .. l
    BY <1>1, <1>3, <1>4
  <2>2. span'.first .. current' - 1 = f .. c
    BY <1>3, <1>4, <1>5, <1>6
  <2> QED
    BY <1>3, <1>5, <1>6, <2>1, <2>2 DEF OnlyCoveringChunks
<1>18. MeshBounded'
  <2>1. SUFFICES ASSUME job.reader = "mesh" PROVE Len(joined') <= MaxRange
    BY <1>5 DEF MeshBounded
  <2>2. (l - f + 1) * st <= MaxRange
    BY <1>1, <2>1 DEF RightSpan
  <2>3. (l - f + 1) * st = l * st - f * st + st
    BY <1>2, <1>3
  <2> QED
    BY <1>2, <1>8, <1>9, <1>11, <2>2, <2>3
<1> QED
  BY <1>12, <1>15, <1>16, <1>17, <1>18 DEF Inv

\* The last step: the slice of what was joined is what is wanted.
LEMMA SlicePreserves ==
    ASSUME Inv, Slice
    PROVE  Inv'
<1> DEFINE st == job.stride
           total == job.total
<1>1. /\ job \in Jobs /\ RightSpan /\ Progress /\ joined \in Seq(Nat)
      /\ total > 0 => current = span.last + 1
      /\ total = 0 => outcome.kind = "full" /\ fetched = 0
      /\ UNCHANGED <<job, span, joined, fetched>>
  BY DEF Inv, TypeOK, Phase, Slice
<1>2. total \in Nat /\ st \in Nat \ {0}
  BY <1>1, JobFacts
<1>3. CASE outcome.kind = "full"
  <2>1. wanted = 0 .. total - 1 /\ span.first = 0 /\ Finish("ok", joined)
    BY <1>1, <1>3, OutcomeFacts DEF RightSpan, FullSpan, Slice
  <2>2. joined = Bytes(0, total)
    <3>1. CASE total > 0
      <4>1. ChunkCount \in Nat /\ total <= ChunkCount * st /\ ChunkCount > 0
        BY <1>2, <3>1, CountFacts DEF ChunkCount
      <4>2. current = ChunkCount
        BY <1>1, <1>3, <3>1, <4>1 DEF RightSpan, FullSpan
      <4>3. Lesser(current * st, total) = total
        BY <1>2, <4>1, <4>2 DEF Lesser
      <4> QED
        BY <1>1, <1>2, <2>1, <4>3 DEF Progress
    <3>2. CASE total = 0
      <4>1. current = 0
        BY <1>1, <2>1, <3>2 DEF current
      <4>2. Lesser(current * st, total) = 0
        BY <1>2, <3>2, <4>1 DEF Lesser
      <4> QED
        BY <1>1, <1>2, <2>1, <3>2, <4>2 DEF Progress
    <3>3. total > 0 \/ total = 0
      BY <1>2
    <3> QED
      BY <3>1, <3>2, <3>3, Zenon
  <2>3. 0 <= total /\ 0 \in Nat
    BY <1>2
  <2>4. \E lo, hi \in Nat : lo <= hi /\ wanted = lo .. hi - 1 /\ joined = Bytes(lo, hi)
    BY <1>2, <2>1, <2>2, <2>3
  <2> QED
    BY <1>1, <1>3, <2>1, <2>4, EndPreserves
<1>4. CASE outcome.kind = "partial"
  <2> DEFINE a == outcome.start
             b == outcome.end
  <2>1. /\ a \in Nat /\ b \in Nat /\ a <= b /\ b < total /\ wanted = a .. b
        /\ outcome = Partial(a, b)
    BY <1>1, <1>4, OutcomeFacts
  <2>2. span = ChunksForRange(st, Partial(a, b))
    BY <1>1, <1>4, <2>1 DEF RightSpan
  <2> HIDE DEF a, b
  <2>3. joined = Bytes(span.first * st, Lesser((span.last + 1) * st, total))
    BY <1>1, <1>2, <2>1 DEF Progress
  <2>4. LongEnough(joined, span) /\ SliceSpan(joined, span) = Bytes(a, b + 1)
    BY <1>2, <2>1, <2>2, <2>3, SliceIsRange
  <2>5. Finish("ok", Bytes(a, b + 1))
    BY <1>4, <2>4 DEF Slice
  <2>6. b + 1 \in Nat /\ a <= b + 1 /\ wanted = a .. (b + 1) - 1
    BY <2>1
  <2>7. Bytes(a, b + 1) \in Seq(Nat)
    BY <2>1, <2>6, BytesType
  <2>8. \E lo, hi \in Nat :
            lo <= hi /\ wanted = lo .. hi - 1 /\ Bytes(a, b + 1) = Bytes(lo, hi)
    BY <2>1, <2>6
  <2> QED
    BY <1>1, <1>4, <2>5, <2>7, <2>8, EndPreserves
<1> QED
  BY <1>1, <1>3, <1>4 DEF RightSpan

\* What a run of wanted bytes gives an answer.
LEMMA WantedRuns ==
    ASSUME job \in Jobs
    PROVE  /\ << >> \in Seq(Nat)
           /\ outcome.kind = "full" =>
                 /\ Bytes(0, job.total) \in Seq(Nat)
                 /\ \E lo, hi \in Nat : /\ lo <= hi /\ wanted = lo .. hi - 1
                                        /\ Bytes(0, job.total) = Bytes(lo, hi)
           /\ outcome.kind = "partial" =>
                 /\ Bytes(outcome.start, outcome.end + 1) \in Seq(Nat)
                 /\ \E lo, hi \in Nat :
                       /\ lo <= hi /\ wanted = lo .. hi - 1
                       /\ Bytes(outcome.start, outcome.end + 1) = Bytes(lo, hi)
<1>1. << >> \in Seq(Nat)
  OBVIOUS
<1>2. job.total \in Nat
  BY JobFacts
<1>3. ASSUME outcome.kind = "full"
      PROVE  /\ Bytes(0, job.total) \in Seq(Nat)
             /\ \E lo, hi \in Nat : /\ lo <= hi /\ wanted = lo .. hi - 1
                                    /\ Bytes(0, job.total) = Bytes(lo, hi)
  <2>1. wanted = 0 .. job.total - 1
    BY <1>3, OutcomeFacts
  <2>2. 0 \in Nat /\ 0 <= job.total
    BY <1>2
  <2>3. Bytes(0, job.total) \in Seq(Nat)
    BY <1>2, <2>2, BytesType
  <2> QED
    BY <1>2, <2>1, <2>2, <2>3, Zenon
<1>4. ASSUME outcome.kind = "partial"
      PROVE  /\ Bytes(outcome.start, outcome.end + 1) \in Seq(Nat)
             /\ \E lo, hi \in Nat :
                   /\ lo <= hi /\ wanted = lo .. hi - 1
                   /\ Bytes(outcome.start, outcome.end + 1) = Bytes(lo, hi)
  <2> DEFINE a == outcome.start
             b == outcome.end
  <2>1. a \in Nat /\ b \in Nat /\ a <= b /\ wanted = a .. b
    BY <1>4, OutcomeFacts
  <2> HIDE DEF a, b
  <2>2. b + 1 \in Nat /\ a <= b + 1 /\ wanted = a .. (b + 1) - 1
    BY <2>1
  <2>3. Bytes(a, b + 1) \in Seq(Nat)
    BY <2>1, <2>2, BytesType
  <2>4. \E lo, hi \in Nat : /\ lo <= hi /\ wanted = lo .. hi - 1
                            /\ Bytes(a, b + 1) = Bytes(lo, hi)
    BY <2>1, <2>2
  <2> QED
    BY <2>3, <2>4 DEF a, b
<1> QED
  BY <1>1, <1>3, <1>4, Zenon

\* get_range up to the chunks.
LEMMA ResolveClientPreserves ==
    ASSUME Inv, ResolveClient
    PROVE  Inv'
<1>1. /\ job \in Jobs /\ pc = "start" /\ fetched = 0 /\ joined = << >>
      /\ answer.status = "none" /\ job.reader = "client"
      /\ UNCHANGED <<job, joined, fetched>>
  BY DEF Inv, TypeOK, Phase, ResolveClient
<1>2. /\ job.total \in Nat /\ job.stride \in Nat \ {0}
      /\ job.chunkSize \in {0, job.stride} /\ ChunkCount \in Nat
      /\ job.total > 0 => ChunkCount > 0
      /\ job.total = 0 => ChunkCount = 0
  BY <1>1, JobFacts, CountFacts DEF ChunkCount
<1>3. ASSUME outcome.kind = "full", span' = FullSpan, UNCHANGED answer,
             pc' = IF ChunkCount = 0 THEN "slice" ELSE "chunks"
      PROVE  Inv'
  <2>1. span' \in [first : Nat, last : Nat, skip : Nat, len : Nat]
    BY <1>1, <1>3, FullSpanType
  <2>2. Progress'
    BY <1>1, <2>1, ProgressFirst
  <2>3. RightSpan'
    BY <1>1, <1>3 DEF RightSpan, FullSpan, ChunkCount, outcome
  <2>4. span'.first = 0 /\ current' = 0
    BY <1>1, <1>3 DEF FullSpan, current
  <2>5. /\ pc' = "chunks" => job'.total > 0 /\ current' <= span'.last
        /\ pc' = "slice" => job'.total = 0
    BY <1>1, <1>2, <1>3, <2>1, <2>4
  <2>6. /\ outcome'.kind = "full" /\ fetched' = 0 /\ answer'.status = "none"
        /\ pc' \in {"chunks", "slice"}
    BY <1>1, <1>3 DEF outcome
  <2>7. Phase'
    BY <1>1, <1>2, <2>2, <2>3, <2>5, <2>6 DEF Phase
  <2> QED
    BY <1>1, <1>3, <2>1, <2>6, <2>7, EarlyPreserves
<1>4. ASSUME outcome.kind = "partial", job.chunkSize > 0, UNCHANGED answer,
             span' = ChunksForRange(job.chunkSize, outcome), pc' = "chunks"
      PROVE  Inv'
  <2>1. job.chunkSize = job.stride
    BY <1>2, <1>4
  <2>2. span' \in [first : Nat, last : Nat, skip : Nat, len : Nat]
        /\ span'.first <= span'.last
    BY <1>1, <1>4, <2>1, PartialSpanType
  <2>3. Progress'
    BY <1>1, <2>2, ProgressFirst
  <2>4. RightSpan'
    BY <1>1, <1>4, <2>1 DEF RightSpan, outcome
  <2>5. current' <= span'.last
    BY <1>1, <2>2 DEF current
  <2>6. job'.total > 0
    BY <1>1, <1>2, <1>4, OutcomeFacts
  <2>7. Phase'
    BY <1>1, <1>4, <2>3, <2>4, <2>5, <2>6 DEF Phase
  <2> QED
    BY <1>1, <1>4, <2>2, <2>7, EarlyPreserves
<1>5. ASSUME UNCHANGED span, Finish("manifest", << >>) PROVE Inv'
  BY <1>1, <1>5, WantedRuns, EndPreserves
<1>6. ASSUME UNCHANGED span, outcome.kind = "unsatisfiable",
             Finish("unsatisfiable", << >>)
      PROVE  Inv'
  BY <1>1, <1>6, WantedRuns, EndPreserves
<1> QED
  BY <1>3, <1>4, <1>5, <1>6 DEF ResolveClient, Goto, FullSpan

\* do_read and read_range up to the chunks.
LEMMA MeshPreserves ==
    ASSUME Inv, ResolveMesh \/ ReadObject \/ ReadHot \/ ReadManifest
    PROVE  Inv'
<1>1. job \in Jobs /\ span \in [first : Nat, last : Nat, skip : Nat, len : Nat]
  BY DEF Inv, TypeOK
<1>2. ASSUME pc \in {"start", "object", "hot", "manifest"}
      PROVE  /\ fetched = 0 /\ joined = << >> /\ span = NoSpan /\ answer.status = "none"
             /\ pc = "object" => outcome.kind = "full"
             /\ pc \in {"hot", "manifest"} => outcome.kind = "partial"
  BY <1>2 DEF Inv, Phase
<1>3. CASE ResolveMesh
  <2>1. pc = "start" /\ UNCHANGED <<job, span, joined, fetched>>
    BY <1>3 DEF ResolveMesh
  <2>2. ASSUME UNCHANGED answer,
               \/ outcome.kind = "full" /\ pc' = "object"
               \/ outcome.kind = "partial" /\ pc' = "hot"
        PROVE  Inv'
    <3>1. Phase'
      BY <1>2, <2>1, <2>2 DEF Phase, outcome
    <3> QED
      BY <1>1, <1>2, <2>1, <2>2, <3>1, EarlyPreserves
  <2>3. ASSUME outcome.kind = "unsatisfiable", Finish("unsatisfiable", << >>)
        PROVE  Inv'
    BY <1>1, <2>1, <2>3, WantedRuns, EndPreserves
  <2> QED
    BY <1>3, <2>2, <2>3 DEF ResolveMesh, Goto
<1>4. CASE ReadObject
  <2>1. outcome.kind = "full" /\ UNCHANGED <<job, span, joined, fetched>>
    BY <1>2, <1>4 DEF ReadObject
  <2>2. ASSUME Finish("ok", Bytes(0, job.total)) PROVE Inv'
    BY <1>1, <2>1, <2>2, WantedRuns, EndPreserves
  <2>3. ASSUME Finish("limit", << >>) PROVE Inv'
    BY <1>1, <2>1, <2>3, WantedRuns, EndPreserves
  <2> QED
    BY <1>4, <2>2, <2>3 DEF ReadObject
<1>5. CASE ReadHot
  <2>1. pc = "hot" /\ outcome.kind = "partial" /\ UNCHANGED <<job, span, joined, fetched>>
    BY <1>2, <1>5 DEF ReadHot
  <2>2. ASSUME Finish("ok", Bytes(outcome.start, outcome.end + 1)) PROVE Inv'
    BY <1>1, <2>1, <2>2, WantedRuns, EndPreserves
  <2>3. ASSUME Goto("manifest") PROVE Inv'
    <3>1. pc' = "manifest" /\ UNCHANGED answer
      BY <2>3 DEF Goto
    <3>2. Phase'
      BY <1>2, <2>1, <3>1 DEF Phase, outcome
    <3> QED
      BY <1>1, <1>2, <2>1, <3>1, <3>2, EarlyPreserves
  <2> QED
    BY <1>5, <2>2, <2>3 DEF ReadHot
<1>6. CASE ReadManifest
  <2> DEFINE s == ChunksForRange(job.chunkSize, outcome)
  <2>1. /\ pc = "manifest" /\ outcome.kind = "partial" /\ fetched = 0 /\ joined = << >>
        /\ UNCHANGED <<job, joined, fetched>>
    BY <1>2, <1>6 DEF ReadManifest
  <2>2. ASSUME UNCHANGED span,
               Finish("manifest", << >>) \/ Finish("limit", << >>)
        PROVE  Inv'
    BY <1>1, <2>1, <2>2, WantedRuns, EndPreserves
  <2>3. ASSUME job.chunkSize # 0, ~(CoveringBytes(s) > MaxRange),
               Goto("chunks"), span' = s
        PROVE  Inv'
    <3>1. /\ job.chunkSize = job.stride /\ job.total \in Nat
          /\ job.stride \in Nat \ {0} /\ MaxRange \in Nat
      BY <1>1, <2>3, JobFacts
    <3>2. /\ span' \in [first : Nat, last : Nat, skip : Nat, len : Nat]
          /\ span'.first <= span'.last
      BY <1>1, <2>1, <2>3, <3>1, PartialSpanType
    <3>3. Progress' /\ current' = span'.first
      BY <1>1, <2>1, <3>2, ProgressFirst
    <3>4. (span'.last - span'.first + 1) * job.stride <= MaxRange
      <4>1. ~((s.last - s.first + 1) * job.stride > MaxRange)
        BY <2>3, <3>1 DEF CoveringBytes
      <4>2. (s.last - s.first + 1) * job.stride \in Int
        BY <2>3, <3>1, <3>2
      <4> QED
        BY <2>3, <3>1, <4>1, <4>2
    <3>5. RightSpan'
      BY <2>1, <2>3, <3>1, <3>4 DEF RightSpan, outcome
    <3>6. job'.total > 0 /\ current' <= span'.last
      BY <1>1, <2>1, <3>1, <3>2, <3>3, OutcomeFacts
    <3>7. pc' = "chunks" /\ UNCHANGED answer /\ answer.status = "none"
      BY <1>2, <2>1, <2>3 DEF Goto
    <3>8. Phase'
      BY <3>3, <3>5, <3>6, <3>7 DEF Phase
    <3> QED
      BY <2>1, <3>2, <3>7, <3>8, EarlyPreserves
  <2> QED
    BY <1>6, <2>2, <2>3 DEF ReadManifest
<1> QED
  BY <1>3, <1>4, <1>5, <1>6

\* edge::serve, and a store that fails.
LEMMA EndingPreserves ==
    ASSUME Inv, ServeHttp \/ StoreFails
    PROVE  Inv'
<1>1. job \in Jobs /\ UNCHANGED <<job, span, joined, fetched>>
  BY DEF Inv, TypeOK, ServeHttp, StoreFails
<1>2. CASE StoreFails
  BY <1>1, <1>2, WantedRuns, EndPreserves DEF StoreFails
<1>3. CASE ServeHttp
  <2>1. ASSUME outcome.kind = "full", Finish("ok", Bytes(0, job.total)) PROVE Inv'
    BY <1>1, <2>1, WantedRuns, EndPreserves
  <2>2. ASSUME outcome.kind = "partial",
               Finish("ok", Bytes(outcome.start, outcome.end + 1))
        PROVE  Inv'
    BY <1>1, <2>2, WantedRuns, EndPreserves
  <2>3. ASSUME outcome.kind = "unsatisfiable", Finish("unsatisfiable", << >>)
        PROVE  Inv'
    BY <1>1, <2>3, WantedRuns, EndPreserves
  <2> QED
    BY <1>3, <2>1, <2>2, <2>3 DEF ServeHttp
<1> QED
  BY <1>2, <1>3

\* Before the first step.
LEMMA InvInit == Init => Inv
<1>1. SUFFICES ASSUME Init PROVE Inv
  OBVIOUS
<1>2. << >> \in Seq(Nat) /\ Len(<< >>) = 0
  OBVIOUS
<1>3. TypeOK
  BY <1>1, <1>2 DEF Init, TypeOK, NoSpan
<1>4. Phase
  BY <1>1 DEF Init, Phase
<1>5. ExactBytes /\ RefusedForAReason
  BY <1>1 DEF Init, ExactBytes, RefusedForAReason
<1>6. OnlyCoveringChunks
  <2>1. span.first = 0 /\ current = 0
    BY <1>1 DEF Init, NoSpan, current
  <2>2. span.first .. current - 1 = {}
    BY <2>1
  <2> QED
    BY <2>2 DEF OnlyCoveringChunks
<1>7. MeshBounded
  BY <1>1, <1>2, RangeAssumption DEF Init, MeshBounded
<1> QED
  BY <1>3, <1>4, <1>5, <1>6, <1>7 DEF Inv

\* A step that changes nothing.
LEMMA InvStutter == Inv /\ UNCHANGED vars => Inv'
BY DEF Inv, vars, TypeOK, Phase, RightSpan, FullSpan, ChunkCount, Progress, current,
       outcome, wanted, ExactBytes, OnlyCoveringChunks, MeshBounded, RefusedForAReason,
       refusable

-----------------------------------------------------------------------------
\* Inv is an invariant of every read: get_range, do_read and edge::serve.
THEOREM InvariantHolds == Spec => []Inv
<1>1. Inv /\ [Next]_vars => Inv'
  BY EndingPreserves, ResolveClientPreserves, MeshPreserves, FetchPreserves,
     SlicePreserves, InvStutter DEF Next
<1> QED
  BY InvInit, <1>1, PTL DEF Spec

\* The state of a read keeps its types: no span reaches below the object's
\* first byte.
THEOREM TypeCorrect == Spec => []TypeOK
<1>1. Inv => TypeOK
  BY DEF Inv
<1> QED
  BY InvariantHolds, <1>1, PTL

\* For every object size, chunk size and header, on all three ways, a read
\* that succeeds returns the bytes the header means, in order.
THEOREM ReadIsExact == Spec => []ExactBytes
<1>1. Inv => ExactBytes
  BY DEF Inv
<1> QED
  BY InvariantHolds, <1>1, PTL

\* No chunk without a wanted byte is fetched (reassemble_span, fetch_chunks).
THEOREM FetchIsMinimal == Spec => []OnlyCoveringChunks
<1>1. Inv => OnlyCoveringChunks
  BY DEF Inv
<1> QED
  BY InvariantHolds, <1>1, PTL

\* A mesh range read never holds more chunk bytes than MAX_MESH_RANGE_BYTES.
THEOREM MeshReadBounded == Spec => []MeshBounded
<1>1. Inv => MeshBounded
  BY DEF Inv
<1> QED
  BY InvariantHolds, <1>1, PTL

\* slice_span never finds too few bytes; a range without a byte is refused and
\* never answered; nothing else is refused but malformed headers of an empty
\* object (parse_range).
THEOREM RefusalJustified == Spec => []RefusedForAReason
<1>1. Inv => RefusedForAReason
  BY DEF Inv
<1> QED
  BY InvariantHolds, <1>1, PTL
=============================================================================
