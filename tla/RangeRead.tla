------------------------------ MODULE RangeRead ------------------------------
(***************************************************************************)
(* One read of an object, whole or by range, the three ways the code has:  *)
(*                                                                         *)
(*   client   CdnClient::get_range (src/src/client.rs): manifest, covering *)
(*            chunks, slice                                                *)
(*   mesh     do_read (src/src/host.rs): the same at an edge, unless the   *)
(*            edge holds the object, and within the mesh's size limits     *)
(*   http     edge::serve (src/src/edge.rs): a slice of the whole object   *)
(*                                                                         *)
(* Byte i of the object is the number i, so that a byte out of place is    *)
(* seen.  An object is cut into chunks of `stride` bytes, the last one     *)
(* shorter, as put_object does; its manifest states that size, or 0, which *)
(* the code checks for.  The blob store may lose any blob, and return the  *)
(* wrong bytes for any chunk.                                              *)
(***************************************************************************)
EXTENDS CidRange

CONSTANTS
    Totals,       \* sizes of the object
    Strides,      \* sizes of its chunks
    Offsets,      \* numbers that occur in headers
    MaxObject,    \* MAX_MESH_OBJECT_BYTES
    MaxRange      \* MAX_MESH_RANGE_BYTES

ASSUME RangeAssumption ==
    /\ Totals \subseteq Nat
    /\ Strides \subseteq Nat \ {0}
    /\ Offsets \subseteq Nat
    /\ MaxObject \in Nat
    /\ MaxRange \in Nat

Headers ==
    [kind : {"absent", "ignored", "malformed"}]
        \cup [kind : {"suffix"}, n : Offsets]
        \cup [kind : {"from"}, a : Offsets]
        \cup [kind : {"span"}, a : Offsets, b : Offsets]

VARIABLES
    job,      \* who reads what: reader, header, total, stride, chunkSize (the
              \* manifest's), held (in the edge's cache)
    pc,       \* start, object, hot, manifest, chunks, slice, end
    span,     \* the chunk span to read
    joined,   \* the chunks read so far
    fetched,  \* how many chunks that is
    answer    \* status, and the bytes

vars == <<job, pc, span, joined, fetched, answer>>

Jobs ==
    {j \in [reader : {"client", "mesh", "http"}, header : Headers, total : Totals,
            stride : Strides, chunkSize : Strides \cup {0}, held : BOOLEAN] :
        j.chunkSize \in {0, j.stride}}

NoSpan == [first |-> 0, last |-> 0, skip |-> 0, len |-> 0]

\* the number of chunks in the manifest, and chunk k
ChunkCount == (job.total + job.stride - 1) \div job.stride
Chunk(k) == Bytes(k * job.stride, Lesser((k + 1) * job.stride, job.total))

Init ==
    /\ job \in Jobs
    /\ pc = "start"
    /\ span = NoSpan
    /\ joined = << >>
    /\ fetched = 0
    /\ answer = [status |-> "none", bytes |-> << >>]

Finish(status, bytes) ==
    /\ pc' = "end"
    /\ answer' = [status |-> status, bytes |-> bytes]

Goto(step) == pc' = step /\ UNCHANGED answer

outcome == ParseRange(job.header, job.total)

-----------------------------------------------------------------------------
\* edge::serve
ServeHttp ==
    /\ pc = "start"
    /\ job.reader = "http"
    /\ \/ outcome.kind = "full" /\ Finish("ok", Bytes(0, job.total))
       \/ outcome.kind = "partial" /\ Finish("ok", Bytes(outcome.start, outcome.end + 1))
       \/ outcome.kind = "unsatisfiable" /\ Finish("unsatisfiable", << >>)
    /\ UNCHANGED <<job, span, joined, fetched>>

\* get_range, with its manifest, up to the chunks; a full read has the span
\* of all the chunks
ResolveClient ==
    /\ pc = "start"
    /\ job.reader = "client"
    /\ \/ /\ outcome.kind = "full"
          /\ span' = [first |-> 0, last |-> IF ChunkCount = 0 THEN 0 ELSE ChunkCount - 1,
                      skip |-> 0, len |-> job.total]
          /\ Goto(IF ChunkCount = 0 THEN "slice" ELSE "chunks")
       \/ /\ outcome.kind = "partial"
          /\ job.chunkSize > 0
          /\ span' = ChunksForRange(job.chunkSize, outcome)
          /\ Goto("chunks")
       \/ /\ outcome.kind = "partial"
          /\ job.chunkSize = 0
          /\ Finish("manifest", << >>)
          /\ UNCHANGED span
       \/ /\ outcome.kind = "unsatisfiable"
          /\ Finish("unsatisfiable", << >>)
          /\ UNCHANGED span
    /\ UNCHANGED <<job, joined, fetched>>

\* do_read up to the cache; without a header the size is not asked for
ResolveMesh ==
    /\ pc = "start"
    /\ job.reader = "mesh"
    /\ \/ outcome.kind = "full" /\ Goto("object")
       \/ outcome.kind = "partial" /\ Goto("hot")
       \/ outcome.kind = "unsatisfiable" /\ Finish("unsatisfiable", << >>)
    /\ UNCHANGED <<job, span, joined, fetched>>

\* read_object: from the cache, or, within the limit, from the store
ReadObject ==
    /\ pc = "object"
    /\ IF job.held \/ job.total <= MaxObject
       THEN Finish("ok", Bytes(0, job.total))
       ELSE Finish("limit", << >>)
    /\ UNCHANGED <<job, span, joined, fetched>>

\* read_range's hot path
ReadHot ==
    /\ pc = "hot"
    /\ IF job.held
       THEN Finish("ok", Bytes(outcome.start, outcome.end + 1))
       ELSE Goto("manifest")
    /\ UNCHANGED <<job, span, joined, fetched>>

CoveringBytes(s) == (s.last - s.first + 1) * job.chunkSize

\* Wrong variant: the bytes asked for are bounded, not the chunks that cover them.
ReadManifestLen ==
    LET s == ChunksForRange(job.chunkSize, outcome)
    IN  /\ pc = "manifest"
        /\ job.chunkSize > 0
        /\ IF s.len > MaxRange
           THEN Finish("limit", << >>) /\ UNCHANGED span
           ELSE Goto("chunks") /\ span' = s
        /\ UNCHANGED <<job, joined, fetched>>

\* read_range's cold path up to the chunks
ReadManifest ==
    LET s == ChunksForRange(job.chunkSize, outcome)
    IN  /\ pc = "manifest"
        /\ IF job.chunkSize = 0
           THEN Finish("manifest", << >>) /\ UNCHANGED span
           ELSE IF CoveringBytes(s) > MaxRange
           THEN Finish("limit", << >>) /\ UNCHANGED span
           ELSE Goto("chunks") /\ span' = s
        /\ UNCHANGED <<job, joined, fetched>>

\* the chunk the loop of reassemble_span and fetch_chunks is at
current == span.first + fetched

\* the loop's next chunk arrives and is the one its CID names
FetchChunk ==
    /\ pc = "chunks"
    /\ joined' = joined \o Chunk(current)
    /\ fetched' = fetched + 1
    /\ Goto(IF current >= Lesser(span.last, ChunkCount - 1) THEN "slice" ELSE "chunks")
    /\ UNCHANGED <<job, span>>

\* a blob is missing, or a chunk's bytes are not the ones its CID names
StoreFails ==
    /\ \/ pc = "start" /\ job.reader = "client"
       \/ pc = "start" /\ job.reader = "mesh" /\ job.header.kind # "absent"
       \/ pc = "object" /\ ~job.held
       \/ pc \in {"manifest", "chunks"}
    /\ Finish("store", << >>)
    /\ UNCHANGED <<job, span, joined, fetched>>

\* slice_span; a full read by the client is not sliced
Slice ==
    /\ pc = "slice"
    /\ IF outcome.kind = "full" THEN Finish("ok", joined)
       ELSE IF LongEnough(joined, span) THEN Finish("ok", SliceSpan(joined, span))
       ELSE Finish("short", << >>)
    /\ UNCHANGED <<job, span, joined, fetched>>

Next ==
    \/ ServeHttp
    \/ ResolveClient
    \/ ResolveMesh
    \/ ReadObject
    \/ ReadHot
    \/ ReadManifest
    \/ FetchChunk
    \/ StoreFails
    \/ Slice

Spec == Init /\ [][Next]_vars

-----------------------------------------------------------------------------
(* Properties.                                                             *)

\* what a header asks for, by what it means
Wanted(h, total) ==
    {i \in 0 .. total - 1 :
        CASE h.kind = "suffix" -> i >= total - h.n
          [] h.kind = "from"   -> i >= h.a
          [] h.kind = "span"   -> h.a <= i /\ i <= h.b
          [] OTHER             -> TRUE}

wanted == Wanted(job.header, job.total)

\* The shape of the state.
TypeOK ==
    /\ job \in Jobs
    /\ pc \in {"start", "object", "hot", "manifest", "chunks", "slice", "end"}
    /\ span \in [first : Nat, last : Nat, skip : Nat, len : Nat]
    /\ joined \in Seq(Nat)
    /\ fetched \in Nat
    /\ answer.status \in {"none", "ok", "unsatisfiable", "limit", "manifest", "store", "short"}
    /\ answer.bytes \in Seq(Nat)

\* A read that succeeds returns the bytes the header means, all of them, in
\* order and nothing else, whichever way it took.
ExactBytes ==
    answer.status = "ok" =>
        /\ {answer.bytes[i] : i \in 1 .. Len(answer.bytes)} = wanted
        /\ \A i \in 1 .. Len(answer.bytes) - 1 : answer.bytes[i] + 1 = answer.bytes[i + 1]

\* A range read asks the store for no chunk without a wanted byte: "a 1-byte
\* range over a 1 GiB object pulls one chunk".
OnlyCoveringChunks ==
    \A k \in span.first .. current - 1 : wanted \cap (k * job.stride .. (k + 1) * job.stride - 1) # {}

\* A range read at an edge holds no more than the mesh limit of chunk bytes
\* in memory.
MeshBounded == job.reader = "mesh" => Len(joined) <= MaxRange

\* the kinds of header that name a byte range
Ranges == {"suffix", "from", "span"}

\* what 416 may be answered to: a range without a byte of the object; of an
\* empty object, any bytes= header of one range, malformed or not
refusable ==
    IF job.total = 0 THEN job.header.kind \in Ranges \cup {"malformed"}
    ELSE job.header.kind \in Ranges /\ wanted = {}

\* A read is refused for a reason and only then: a range without a byte is
\* never answered with bytes, a header that is ignored or malformed is never
\* refused, and never do too few bytes come together.  The exception is a
\* malformed header of an empty object, refused too (cidrange.rs:90), though
\* "a malformed header is ignored" (cidrange.rs:69).
RefusedForAReason ==
    /\ answer.status = "unsatisfiable" => refusable
    /\ answer.status = "ok" => ~(job.header.kind \in Ranges /\ wanted = {})
    /\ answer.status # "short"
=============================================================================
