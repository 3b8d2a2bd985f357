------------------------------ MODULE CidRange ------------------------------
(***************************************************************************)
(* The range arithmetic of src/src/cidrange.rs.  A header is a record with *)
(* what the parser finds in it:                                            *)
(*                                                                         *)
(*   absent      there is no Range header                                  *)
(*   ignored     another unit than bytes, or several ranges                *)
(*   malformed   bytes=, followed by something that is no range            *)
(*   suffix n    bytes=-n                                                  *)
(*   from a      bytes=a-                                                  *)
(*   span a b    bytes=a-b                                                 *)
(***************************************************************************)
EXTENDS Integers, Sequences

\* bytes lo .. hi-1 of an object; byte i of the object is the number i
Bytes(lo, hi) == [i \in 1 .. hi - lo |-> lo + i - 1]

Lesser(m, n) == IF m <= n THEN m ELSE n

Full == [kind |-> "full"]
Unsatisfiable == [kind |-> "unsatisfiable"]
Partial(start, end) == [kind |-> "partial", start |-> start, end |-> end]

\* Wrong variant: an end beyond the object is kept.
ParseRangeUnclamped(h, total) ==
    CASE h.kind \in {"absent", "ignored"}    -> Full
      [] h.kind = "malformed" /\ total > 0   -> Full
      [] h.kind = "suffix" /\ h.n > 0 /\ total > 0 ->
            Partial(total - Lesser(h.n, total), total - 1)
      [] h.kind = "from" /\ h.a < total      -> Partial(h.a, total - 1)
      [] h.kind = "span" /\ h.a <= h.b /\ h.a < total -> Partial(h.a, h.b)
      [] OTHER                               -> Unsatisfiable

\* Wrong variant: a suffix longer than the object is not cut to its length.
ParseRangeLongSuffix(h, total) ==
    CASE h.kind \in {"absent", "ignored"}    -> Full
      [] h.kind = "malformed" /\ total > 0   -> Full
      [] h.kind = "suffix" /\ h.n > 0 /\ total > 0 -> Partial(total - h.n, total - 1)
      [] h.kind = "from" /\ h.a < total      -> Partial(h.a, total - 1)
      [] h.kind = "span" /\ h.a <= h.b /\ h.a < total ->
            Partial(h.a, Lesser(h.b, total - 1))
      [] OTHER                               -> Unsatisfiable

\* parse_range, for a header as above and an object of `total` bytes; an
\* empty object satisfies no range, which is found before what is malformed
ParseRange(h, total) ==
    CASE h.kind \in {"absent", "ignored"}    -> Full
      [] h.kind = "malformed" /\ total > 0   -> Full
      [] h.kind = "suffix" /\ h.n > 0 /\ total > 0 ->
            Partial(total - Lesser(h.n, total), total - 1)
      [] h.kind = "from" /\ h.a < total      -> Partial(h.a, total - 1)
      [] h.kind = "span" /\ h.a <= h.b /\ h.a < total ->
            Partial(h.a, Lesser(h.b, total - 1))
      [] OTHER                               -> Unsatisfiable

\* Wrong variant: the last chunk is computed from the exclusive end.
ChunksForRangeExclusive(chunkSize, r) ==
    [first |-> r.start \div chunkSize, last |-> (r.end + 1) \div chunkSize,
     skip |-> r.start - (r.start \div chunkSize) * chunkSize,
     len |-> r.end - r.start + 1]

\* Wrong variant: the offset is taken from the start of the object.
ChunksForRangeNoOffset(chunkSize, r) ==
    [first |-> r.start \div chunkSize, last |-> r.end \div chunkSize,
     skip |-> r.start, len |-> r.end - r.start + 1]

\* chunks_for_range, for a chunk size other than 0
ChunksForRange(chunkSize, r) ==
    [first |-> r.start \div chunkSize, last |-> r.end \div chunkSize,
     skip |-> r.start - (r.start \div chunkSize) * chunkSize,
     len |-> r.end - r.start + 1]

\* slice_span's test and its answer
LongEnough(joined, span) == span.skip + span.len <= Len(joined)
SliceSpan(joined, span) == SubSeq(joined, span.skip + 1, span.skip + span.len)
=============================================================================
