------------------------------ MODULE Formats ------------------------------
(***************************************************************************)
(* The bytes on the wire and in the bucket: varints, deltas, the entries   *)
(* of a pack and of a commit-pack image, pkt-lines, and the writer that    *)
(* streams a pack in frames.                                               *)
(*                                                                         *)
(* A byte carries two bits here and an integer five, an oid is one word,   *)
(* and a compressed body is its length and its content, which ends itself  *)
(* as a zlib stream does.  What a reader refuses is Refused.               *)
(*                                                                         *)
(* Sources: packfile/src/**, ingest/src/pack.rs, store/src/commit_pack.rs, *)
(* proto/src/pktline.rs and proto/src/pack.rs.                             *)
(***************************************************************************)
EXTENDS Naturals, Sequences, FiniteSets, FiniteSetsExt, SequencesExt

CONSTANTS
    Contents,      \* contents of objects: sequences of bytes
    Images,        \* what images and packs hold: sequences of entries
    Bodies,        \* what pkt-line bodies hold: sequences of packets
    Block,         \* BLOCK
    MaxCandidates, \* MAX_CANDIDATES
    MaxInsert,     \* MAX_INSERT
    MaxObject,     \* MAX_OBJECT_BYTES
    MaxPackObjects,\* MAX_PACK_OBJECTS
    MaxSideband,   \* MAX_SIDEBAND
    Digest,        \* words of a SHA1 at the end of a pack
    MaxPack        \* bound: words of a pack streamed

ASSUME FormatConstants ==
    /\ {Block, MaxCandidates, MaxInsert, MaxPackObjects, MaxSideband, Digest, MaxPack} \subseteq Nat \ {0}
    /\ MaxObject \in 1 .. 16    \* a copy's offset, four digits, reaches any of it

VARIABLES
    probe,   \* a value that was encoded, and what was read back
    stream   \* a PackWriter

fvars == <<probe, stream>>

Refused == [ok |-> FALSE]
From(s, i) == SubSeq(s, i, Len(s))
Digits(n, count, base) == [i \in 1 .. count |-> (n \div base^(i - 1)) % base]
Total(s) == FoldLeft(LAMBDA a, b : a + b, 0, s)

---------------------------------------------------------------------------
(* Varints *)

Low == 4           \* values the payload bits of a byte have
Modulus == 32      \* values an integer has: five bits
InWidth(i) == 2 * (i - 1) < 5

WriteVarint(value) ==
    LET count == CHOOSE n \in 1 .. 3 : value < Low^n /\ (n = 1 \/ value >= Low^(n - 1))
        digits == Digits(value, count, Low)
    IN  [i \in 1 .. count |-> IF i < count THEN digits[i] + Low ELSE digits[i]]

\* Bits shifted past the width are lost; a byte that starts past it is refused.
ReadVarint(bytes) ==
    LET ends == {i \in DOMAIN bytes : bytes[i] < Low}
        n == Min(ends)
    IN  IF ends = {} \/ ~ InWidth(n) THEN Refused
        ELSE [ok |-> TRUE, used |-> n,
              value |-> Total([i \in 1 .. n |-> (bytes[i] % Low) * Low^(i - 1)]) % Modulus]

---------------------------------------------------------------------------
(* Deltas *)

HashModulus == 16
Mult == 3
Outgoing == Mult^(Block - 1) % HashModulus

BlockHash(window) == FoldLeft(LAMBDA h, b : (h * Mult + b) % HashModulus, 0, window)

Roll(hash, outgoing, incoming) ==
    ((hash + HashModulus * outgoing - outgoing * Outgoing) * Mult + incoming) % HashModulus

\* BlockIndex: aligned blocks of the base by the bucket of their hash, the
\* last one first.
Blocks(base) == Len(base) \div Block
Buckets(base) == CHOOSE n \in {1, 2, 4, 8, 16} : n >= Blocks(base) /\ n < 2 * Blocks(base)
BlockAt(base, b) == SubSeq(base, b * Block + 1, (b + 1) * Block)
Candidates(base, hash) ==
    IF Blocks(base) = 0 THEN <<>>
    ELSE LET all == Reverse([b \in 1 .. Blocks(base) |-> b - 1])
             InBucket(b) == BlockHash(BlockAt(base, b)) % Buckets(base) = hash % Buckets(base)
             chain == SelectSeq(all, InBucket)
         IN  SubSeq(chain, 1, Min({Len(chain), MaxCandidates}))

CommonPrefix(a, b) ==
    Max({n \in 0 .. Min({Len(a), Len(b)}) : SubSeq(a, 1, n) = SubSeq(b, 1, n)})
CommonSuffix(a, b) == CommonPrefix(Reverse(a), Reverse(b))

NoMatch == [start |-> 0, offset |-> 0, len |-> 0]

\* best_match: positions count from 0.  The longest run a candidate gives,
\* extended both ways, back to what is not emitted yet.
BestMatch(base, target, pos, pending, hash) ==
    LET Of(b) == LET at == b * Block
                     forward == CommonPrefix(From(base, at + 1), From(target, pos + 1))
                     back == CommonSuffix(SubSeq(base, 1, at), SubSeq(target, pending + 1, pos))
                 IN  [start |-> pos - back, offset |-> at - back,
                      len |-> IF forward = 0 \/ forward + back < Block THEN 0 ELSE forward + back]
    IN  FoldLeft(LAMBDA best, b : IF Of(b).len > best.len THEN Of(b) ELSE best,
                 NoMatch, Candidates(base, hash))

\* An insert is its length and its bytes.
PushLiteral(data) ==
    LET count == (Len(data) + MaxInsert - 1) \div MaxInsert
        Piece(i) == SubSeq(data, (i - 1) * MaxInsert + 1, Min({Len(data), i * MaxInsert}))
    IN  FlattenSeq([i \in 1 .. count |-> <<Len(Piece(i))>> \o Piece(i)])

\* A copy is its flags, then the digits of offset (four) and size (three)
\* that are not zero; two values a digit here.
Copy == 128
MaxCopy == 7
CopyInstruction(offset, size) ==
    LET digits == Digits(offset, 4, 2) \o Digits(size, 3, 2)
    IN  <<Copy + Total([i \in 1 .. 7 |-> IF digits[i] = 0 THEN 0 ELSE 2^(i - 1)])>>
        \o SelectSeq(digits, LAMBDA d : d # 0)

PushCopy(offset, len) ==
    LET count == (len + MaxCopy - 1) \div MaxCopy
    IN  FlattenSeq([i \in 1 .. count |->
            CopyInstruction(offset + (i - 1) * MaxCopy, Min({MaxCopy, len - (i - 1) * MaxCopy}))])

HashAt(target, pos) == IF pos + Block <= Len(target) THEN BlockHash(SubSeq(target, pos + 1, pos + Block)) ELSE 0

\* One turn of encode_delta's loop.
EncodeStep(base, target, s) ==
    LET found == IF s.pos + Block <= Len(target) THEN BestMatch(base, target, s.pos, s.pending, s.hash)
                 ELSE NoMatch
        next == found.start + found.len
    IN  IF s.pos >= Len(target) THEN s
        ELSE IF found.len > 0
        THEN [pos |-> next, pending |-> next, hash |-> HashAt(target, next),
              out |-> s.out \o PushLiteral(SubSeq(target, s.pending + 1, found.start))
                            \o PushCopy(found.offset, found.len)]
        ELSE [s EXCEPT !.pos = @ + 1,
                       !.hash = IF s.pos + Block < Len(target)
                                THEN Roll(@, target[s.pos + 1], target[s.pos + Block + 1]) ELSE @]

\* {} when either side is larger than an object may be.
EncodeDelta(base, target) ==
    LET turn[n \in 0 .. Len(target)] ==
          IF n = 0 THEN [pos |-> 0, pending |-> 0, hash |-> HashAt(target, 0),
                         out |-> WriteVarint(Len(base)) \o WriteVarint(Len(target))]
          ELSE EncodeStep(base, target, turn[n - 1])
        Closed(last) == last.out \o PushLiteral(From(target, last.pending + 1))
    IN  IF Len(base) > MaxObject \/ Len(target) > MaxObject THEN {} ELSE {Closed(turn[Len(target)])}

\* A delta of a client that knows no such limit, and copies nothing.
ClientDelta(base, target) == WriteVarint(Len(base)) \o WriteVarint(Len(target)) \o PushLiteral(target)

\* The bytes of a copy, read back: an absent digit is zero, a size of zero is
\* the value of the third digit.
CopyOperands(cmd, rest) ==
    LET flags == Digits(cmd % Copy, 7, 2)
        Nth(i) == Cardinality({j \in 1 .. i : flags[j] = 1})
        Value(i) == IF flags[i] = 1 THEN rest[Nth(i)] ELSE 0
        size == Value(5) + 2 * Value(6) + 4 * Value(7)
    IN  [used |-> Nth(7), offset |-> Value(1) + 2 * Value(2) + 4 * Value(3) + 8 * Value(4),
         size |-> IF size = 0 THEN 4 ELSE size]

\* Mutant: what was not produced stays zero.
ProducedAny(made, promised) == Len(made) <= promised

Produced(made, promised) == Len(made) = promised

\* One instruction of apply_delta, at place s.i.
ApplyStep(base, delta, result, s) ==
    IF ~s.ok \/ s.i > Len(delta) THEN s
    ELSE LET cmd == delta[s.i]
             rest == From(delta, s.i + 1)
             flags == Cardinality({i \in 1 .. 7 : Digits(cmd % Copy, 7, 2)[i] = 1})
             short == IF cmd >= Copy THEN Len(rest) < flags ELSE cmd = 0 \/ Len(rest) < cmd
             o == CopyOperands(cmd, rest)
             bytes == IF cmd >= Copy THEN SubSeq(base, o.offset + 1, o.offset + o.size) ELSE SubSeq(rest, 1, cmd)
         IN  IF short THEN [s EXCEPT !.ok = FALSE]
             ELSE IF (cmd >= Copy /\ o.offset + o.size > Len(base)) \/ Len(s.out) + Len(bytes) > result
             THEN [s EXCEPT !.ok = FALSE]
             ELSE [ok |-> TRUE, out |-> s.out \o bytes,
                   i |-> s.i + 1 + (IF cmd >= Copy THEN o.used ELSE cmd)]

ApplyDelta(base, delta) ==
    LET b == ReadVarint(delta)
        r == ReadVarint(From(delta, b.used + 1))
        start == b.used + r.used + 1
        turn[n \in 0 .. Len(delta)] ==
          IF n = 0 THEN [ok |-> TRUE, i |-> start, out |-> <<>>]
          ELSE ApplyStep(base, delta, r.value, turn[n - 1])
        last == turn[Len(delta)]
    IN  IF ~b.ok THEN Refused
        ELSE IF b.value # Len(base) \/ ~r.ok THEN Refused
        ELSE IF r.value > MaxObject THEN Refused
        ELSE IF ~last.ok \/ ~ Produced(last.out, r.value) THEN Refused
        ELSE [ok |-> TRUE, content |-> last.out]

---------------------------------------------------------------------------
(* Commit-pack images.  An entry is [sha, kind, base, content], base 0 for *)
(* a whole one; kinds are git's: commit 1, tree 2, blob 3, tag 4.          *)

Deflate(content) == <<Len(content)>> \o content
\* {} for bytes that are no whole zlib stream; the rest is not looked at.
Inflate(body) ==
    IF body = <<>> THEN {}
    ELSE IF Len(body) <= body[1] THEN {} ELSE {SubSeq(body, 2, body[1] + 1)}

ImageMagic == 901
DeltaFlag == 8

EncodeImageHeader(count) == <<ImageMagic, 1, count>>
DecodeImageHeader(raw) ==
    IF Len(raw) < 3 \/ SubSeq(raw, 1, 2) # <<ImageMagic, 1>> THEN Refused ELSE [ok |-> TRUE, count |-> raw[3]]

\* The length of the header is patched into its first word.
EncodeEntryHeader(e) ==
    LET fields == <<e.sha>> \o (IF e.base = 0 THEN <<e.kind>> ELSE <<e.kind + DeltaFlag, e.base>>)
                  \o WriteVarint(Len(e.content)) \o WriteVarint(Len(Deflate(e.content)))
    IN  <<Len(fields)>> \o fields

HasEntryHeader(buf) == buf # <<>> /\ Len(buf) > buf[1]

DecodeEntryHeader(buf) ==
    LET body == SubSeq(buf, 2, buf[1] + 1)
        delta == body[2] >= DeltaFlag
        fixed == IF delta THEN 3 ELSE 2
        length == ReadVarint(From(body, fixed + 1))
        compressed == ReadVarint(From(body, fixed + length.used + 1))
    IN  IF ~ HasEntryHeader(buf) THEN Refused
        ELSE IF Len(body) < 2 THEN Refused
        ELSE IF body[2] % DeltaFlag \notin 1 .. 4 \/ Len(body) < fixed THEN Refused
        ELSE IF ~length.ok THEN Refused
        ELSE IF ~compressed.ok THEN Refused
        ELSE IF fixed + length.used + compressed.used # Len(body) THEN Refused
        ELSE [ok |-> TRUE, used |-> Len(body) + 1, sha |-> body[1], kind |-> body[2] % DeltaFlag,
              base |-> IF delta THEN body[3] ELSE 0,
              length |-> length.value, compressed |-> compressed.value]

EntryBytes(e) == EncodeEntryHeader(e) \o Deflate(e.content)

\* Where entry i starts in its image, counting from 0.
OffsetOf(entries, i) == 3 + Total([j \in 1 .. (i - 1) |-> Len(EntryBytes(entries[j]))])

TrailerEntry == 5
TrailerSuffixLen(count) == 1 + count * TrailerEntry

EncodeTrailer(entries) ==
    <<Len(entries)>> \o FlattenSeq([i \in DOMAIN entries |->
        LET e == entries[i]
        IN  <<e.sha, e.kind, Len(e.content), OffsetOf(entries, i), Len(EntryBytes(e))>>])

DecodeTrailer(data) ==
    IF data = <<>> THEN Refused
    ELSE IF Len(data) # TrailerSuffixLen(data[1]) THEN Refused
    ELSE [ok |-> TRUE, entries |-> [i \in 1 .. data[1] |->
            SubSeq(data, 2 + (i - 1) * TrailerEntry, 1 + i * TrailerEntry)]]

\* blob_section_offset, from the entries of the trailer.
BlobSectionOffset(trailer) ==
    LET blobs == {i \in DOMAIN trailer : trailer[i][2] = 3}
    IN  IF blobs # {} THEN trailer[Min(blobs)][4]
        ELSE IF trailer = <<>> THEN 3 ELSE Last(trailer)[4] + Last(trailer)[5]

EncodeImage(entries) ==
    EncodeImageHeader(Len(entries)) \o FlattenSeq([i \in DOMAIN entries |-> EntryBytes(entries[i])])
    \o EncodeTrailer(entries)

\* The entry at an offset: its header, then its body.
EntryAt(image, at) ==
    LET Behind(header) ==
          LET body == SubSeq(image, at + header.used + 1, at + header.used + header.compressed)
          IN  IF ~header.ok THEN Refused
              ELSE IF Inflate(body) = {} THEN Refused
              ELSE [ok |-> TRUE, next |-> at + header.used + header.compressed,
                    entry |-> [sha |-> header.sha, kind |-> header.kind, base |-> header.base,
                               content |-> CHOOSE c \in Inflate(body) : TRUE]]
    IN  Behind(DecodeEntryHeader(From(image, at + 1)))

\* A reader that has only the image, by its header and by its trailer.
ReadImage(image) ==
    LET count == DecodeImageHeader(image).count
        suffix == DecodeTrailer(From(image, Len(image) - TrailerSuffixLen(count) + 1))
        walk[i \in 0 .. count] ==
          IF i = 0 THEN [at |-> 3, entries |-> <<>>]
          ELSE LET e == EntryAt(image, walk[i - 1].at)
               IN  [at |-> e.next, entries |-> Append(walk[i - 1].entries, e.entry)]
    IN  [walked |-> walk[count].entries, end |-> walk[count].at,
         placed |-> [i \in 1 .. count |-> EntryAt(image, suffix.entries[i][4]).entry],
         blobs |-> BlobSectionOffset(suffix.entries)]

---------------------------------------------------------------------------
(* Packs *)

PackMagic == 902
OfsDelta == 6
RefDelta == 7
PackTypes == (1 .. 4) \cup {OfsDelta, RefDelta}

\* write_pack_entry_header: three bits of type, as many of the size as the
\* byte has left, and the rest of it behind.
EntryHeader(type, size) ==
    IF size < Low THEN <<type * Low + size>>
    ELSE <<(8 + type) * Low + (size % Low)>> \o WriteVarint(size \div Low)

\* A whole object, or a delta of an object named by its id.
PackEntryHeader(e) ==
    IF e.base = 0 THEN EntryHeader(e.kind, Len(e.content))
    ELSE EntryHeader(RefDelta, Len(e.content)) \o <<e.base>>

WritePack(entries) ==
    <<PackMagic, 2, Len(entries)>>
    \o FlattenSeq([i \in DOMAIN entries |-> PackEntryHeader(entries[i]) \o Deflate(entries[i].content)])

\* git's own: the highest digits first, each but the last one less than it is.
WriteDistance(distance) ==
    LET leading[v \in 0 .. (Modulus - 1)] ==
          IF v < Low THEN <<v + Low>> ELSE Append(leading[v \div Low - 1], (v % Low) + Low)
    IN  IF distance < Low THEN <<distance>> ELSE Append(leading[distance \div Low - 1], distance % Low)

\* The pack of a client that names a base in it by how far back it starts.
ClientPack(entries) ==
    LET pack[n \in 0 .. Len(entries)] ==
          IF n = 0 THEN [bytes |-> <<PackMagic, 2, Len(entries)>>, starts |-> <<>>]
          ELSE LET e == entries[n]
                   before == pack[n - 1]
                   at == Len(before.bytes)
                   inside == {i \in 1 .. (n - 1) : entries[i].sha = e.base}
                   header == IF inside = {} THEN PackEntryHeader(e)
                             ELSE EntryHeader(OfsDelta, Len(e.content))
                                  \o WriteDistance(at - before.starts[Min(inside)])
               IN  [bytes |-> before.bytes \o header \o Deflate(e.content), starts |-> Append(before.starts, at)]
    IN  pack[Len(entries)].bytes

\* read_entry_header, up to what follows the type and the size.  The bytes
\* behind the first shift from its two bits on: one fewer than a varint has.
ReadEntryHeader(bytes) ==
    LET rest == Tail(bytes)
        ends == {i \in DOMAIN rest : rest[i] < Low}
        n == IF bytes[1] < 8 * Low THEN 0 ELSE Min(ends)
    IN  IF bytes = <<>> THEN Refused
        ELSE IF bytes[1] >= 8 * Low /\ (ends = {} \/ ~ InWidth(Min(ends) + 1)) THEN Refused
        ELSE [ok |-> TRUE, used |-> n + 1, type |-> (bytes[1] \div Low) % 8,
              size |-> ((bytes[1] % Low) + Total([i \in 1 .. n |-> (rest[i] % Low) * Low^i])) % Modulus]

\* read_ofs_delta_distance: only one more than the greatest overflows; bits
\* shifted past the width are lost.
ReadDistance(bytes) ==
    LET ends == {i \in DOMAIN bytes : bytes[i] < Low}
        n == Min(ends)
        value[i \in 1 .. n] ==
          IF i = 1 THEN {bytes[1] % Low}
          ELSE {(((v + 1) * Low) % Modulus) + (bytes[i] % Low) : v \in value[i - 1] \ {Modulus - 1}}
    IN  IF ends = {} THEN Refused
        ELSE IF value[n] = {} THEN Refused
        ELSE [ok |-> TRUE, used |-> n, value |-> CHOOSE v \in value[n] : TRUE]

\* read_entry_header, then skip_entry_body, at an offset.
ReadPackEntry(pack, at) ==
    LET head == ReadEntryHeader(From(pack, at + 1))
        distance == ReadDistance(From(pack, at + head.used + 1))
        header == head.used + CASE head.type = RefDelta -> 1
                                [] head.type = OfsDelta -> distance.used
                                [] OTHER -> 0
        body == Inflate(From(pack, at + header + 1))
        content == CHOOSE c \in body : TRUE
    IN  IF ~head.ok THEN Refused
        ELSE IF head.type \notin PackTypes \/ (head.type = OfsDelta /\ ~distance.ok) THEN Refused
        ELSE IF body = {} THEN Refused
        ELSE IF Len(content) # head.size THEN Refused
        ELSE [ok |-> TRUE, at |-> at, header |-> header, len |-> header + 1 + head.size,
              type |-> head.type, size |-> head.size,
              base |-> CASE head.type = RefDelta -> pack[at + header]
                         [] head.type = OfsDelta -> distance.value
                         [] OTHER -> 0]

\* The entry an OFS_DELTA leads back to, among those before it.
BaseInPack(located, e) ==
    {i \in DOMAIN located : e.base <= e.at /\ located[i].at = e.at - e.base}

\* locate_entries: the header, the entries it counts, and a trailer that is
\* the hash of all that was read.  The hash of some words is the words.
ReadPack(pack, trailer) ==
    LET count == pack[3]
        Located(s, e) ==
          IF ~e.ok THEN [s EXCEPT !.ok = FALSE]
          ELSE IF e.size > MaxObject THEN [s EXCEPT !.ok = FALSE]
          ELSE IF e.type # OfsDelta THEN [s EXCEPT !.at = @ + e.len, !.entries = Append(@, e)]
          ELSE IF BaseInPack(s.entries, e) = {} THEN [s EXCEPT !.ok = FALSE]
          ELSE [s EXCEPT !.at = @ + e.len,
                         !.entries = Append(@, [e EXCEPT !.base = Min(BaseInPack(s.entries, e))])]
        walk[i \in 0 .. count] ==
          IF i = 0 THEN [ok |-> TRUE, at |-> 3, entries |-> <<>>]
          ELSE IF ~ walk[i - 1].ok THEN walk[i - 1]
          ELSE Located(walk[i - 1], ReadPackEntry(pack, walk[i - 1].at))
    IN  IF Len(pack) < 3 THEN Refused
        ELSE IF SubSeq(pack, 1, 2) # <<PackMagic, 2>> \/ count > MaxPackObjects THEN Refused
        ELSE IF ~ walk[count].ok THEN Refused
        ELSE IF SubSeq(pack, 1, walk[count].at) # trailer THEN Refused
        ELSE [ok |-> TRUE, entries |-> walk[count].entries]

\* entry_body, then inflate_entry: from the kept pack, past the header.
BodyOf(pack, e) == Inflate(SubSeq(pack, e.at + e.header + 1, e.at + e.len))

---------------------------------------------------------------------------
(* Pkt-lines.  A packet is [marker] (0 flush, 1 delimiter, 2 response end) *)
(* or [data]; a prefix counts itself as four.                              *)

IsData(p) == p.marker = 9
PacketBytes(p) == IF IsData(p) THEN <<Len(p.data) + 4>> \o p.data ELSE <<p.marker>>
BodyBytes(body) == FlattenSeq([i \in DOMAIN body |-> PacketBytes(body[i])])

Bad == [marker |-> 8, data |-> <<>>]

\* Packets::next, until the body ends; an error is the last thing said.
PacketsOf(bytes) ==
    LET read[n \in 0 .. Len(bytes)] ==
          IF n = 0 THEN [at |-> 1, out |-> <<>>]
          ELSE LET s == read[n - 1]
                   prefix == bytes[s.at]
                   end == Len(bytes) + 1
               IN  IF s.at > Len(bytes) THEN s
                   ELSE IF prefix <= 2 THEN [at |-> s.at + 1, out |-> Append(s.out, [marker |-> prefix, data |-> <<>>])]
                   ELSE IF prefix <= 4 \/ s.at + prefix - 4 > Len(bytes)
                   THEN [at |-> end, out |-> Append(s.out, Bad)]
                   ELSE [at |-> s.at + prefix - 3,
                         out |-> Append(s.out, [marker |-> 9, data |-> SubSeq(bytes, s.at + 1, s.at + prefix - 4)])]
    IN  read[Len(bytes)].out

\* read_lines: the data up to a flush, other markers skipped.
ReadLines(bytes) ==
    LET packets == PacketsOf(bytes)
        flushes == {i \in DOMAIN packets : packets[i].marker \in {0, 8}}
    IN  IF flushes = {} THEN Refused
        ELSE IF packets[Min(flushes)].marker = 8 THEN Refused
        ELSE [ok |-> TRUE, lines |-> SelectSeq(SubSeq(packets, 1, Min(flushes)), IsData)]

---------------------------------------------------------------------------
(* PackWriter *)

NoProbe == [of |-> "none"]
Framings == {"sideband", "raw"}

NewStream(framing) == [framing |-> framing, at |-> "open", buf |-> <<>>, hashed |-> <<>>, frames |-> <<>>]

\* send_frame_copy refuses what a frame does not carry; raw has no frames.
Carries(framing, chunk) ==
    framing = "sideband" => Len(chunk) \in 1 .. MaxSideband

\* flush_full_frames: the full frames of some words, and what is left.
Full(words) == [i \in 1 .. (Len(words) \div MaxSideband) |->
                  SubSeq(words, (i - 1) * MaxSideband + 1, i * MaxSideband)]
Remainder(words) == From(words, (Len(words) \div MaxSideband) * MaxSideband + 1)

Upcoming(n) == [i \in 1 .. n |-> Len(stream.hashed) + i]

\* write: coalesced with what is buffered.
StreamWrite(n) ==
    /\ probe = NoProbe /\ stream.at = "open" /\ Len(stream.hashed) + n <= MaxPack
    /\ LET all == stream.buf \o Upcoming(n)
       IN  stream' = [stream EXCEPT !.hashed = @ \o Upcoming(n), !.buf = Remainder(all), !.frames = @ \o Full(all)]
    /\ UNCHANGED probe

\* Mutant: what is buffered goes out behind the payload.
OwnedFramesLate(buf, data) ==
    [frames |-> Full(data), buf |-> buf \o Remainder(data)]

\* write_bytes, a payload of a frame or more: what is buffered goes first, as
\* a frame of its own; the payload's full frames are not copied.
OwnedFrames(buf, data) ==
    [frames |-> (IF buf = <<>> THEN <<>> ELSE <<buf>>) \o Full(data), buf |-> Remainder(data)]

StreamWriteBytes(n) ==
    /\ probe = NoProbe /\ stream.at = "open" /\ Len(stream.hashed) + n <= MaxPack /\ n >= MaxSideband
    /\ LET sent == OwnedFrames(stream.buf, Upcoming(n))
       IN  stream' = [stream EXCEPT !.hashed = @ \o Upcoming(n), !.buf = sent.buf, !.frames = @ \o sent.frames]
    /\ UNCHANGED probe

\* finish: the digest joins what is buffered, in one last frame.
DigestWords == [i \in 1 .. Digest |-> 500 + i]
StreamFinish ==
    /\ probe = NoProbe /\ stream.at = "open"
    /\ LET chunk == stream.buf \o DigestWords
       IN  stream' = IF Carries(stream.framing, chunk)
                     THEN [stream EXCEPT !.at = "finished", !.buf = <<>>, !.frames = Append(@, chunk)]
                     ELSE [stream EXCEPT !.at = "failed", !.buf = <<>>]
    /\ UNCHANGED probe

\* The client goes away: the channel is closed and every send fails.
StreamCloses ==
    /\ probe = NoProbe /\ stream.at = "open" /\ stream' = [stream EXCEPT !.at = "closed", !.buf = <<>>]
    /\ UNCHANGED probe

---------------------------------------------------------------------------

FInit ==
    /\ probe = NoProbe /\ stream \in {NewStream(f) : f \in Framings}

Probe(p) ==
    /\ probe = NoProbe /\ stream = NewStream("raw")
    /\ probe' = p /\ UNCHANGED stream

FNext ==
    \/ \E n \in 1 .. (2 * MaxSideband) : StreamWrite(n) \/ StreamWriteBytes(n)
    \/ StreamFinish
    \/ StreamCloses
    \/ \E v \in 0 .. (Modulus - 1), t \in PackTypes : Probe([of |-> "number", value |-> v, type |-> t])
    \/ \E b, t \in Contents : Probe([of |-> "delta", base |-> b, target |-> t])
    \/ \E m \in Images : Probe([of |-> "image", entries |-> m])
    \/ \E m \in Bodies : Probe([of |-> "body", packets |-> m])

FSpec == FInit /\ [][FNext]_fvars

---------------------------------------------------------------------------

\* Prefixes that are not the whole.
Cuts(s) == {SubSeq(s, 1, n) : n \in 0 .. (Len(s) - 1)}

\* The same number with a digit more, a zero; flag says that one follows.
Longer(bytes, flag) == Append([bytes EXCEPT ![Len(bytes)] = @ + flag], 0)

\* A delta reads back what was encoded, and refuses to be cut or to meet a
\* base of another length; only what is larger than an object may be is
\* refused otherwise, by the encoder and by the reader.
DeltasReadBack(base, target) ==
    /\ \A coded \in {EncodeDelta(base, target)} :
         /\ Len(base) <= MaxObject /\ Len(target) <= MaxObject <=> coded # {}
         /\ \A delta \in coded :
              /\ ApplyDelta(base, delta) = [ok |-> TRUE, content |-> target]
              /\ \A bad \in ({base} \X Cuts(delta)) \cup ({b \in Contents : Len(b) # Len(base)} \X {delta}) :
                   ~ ApplyDelta(bad[1], bad[2]).ok
    /\ ApplyDelta(base, ClientDelta(base, target)) =
         IF Len(target) <= MaxObject THEN [ok |-> TRUE, content |-> target] ELSE Refused

\* The entries of a pack are found, each with its kind, its base and its
\* content, unless there are too many or one is too large; cut or changed,
\* the pack is refused.
PackReadsBack(entries, pack) ==
    \A got \in {ReadPack(pack, pack)} :
      /\ got.ok <=> Len(entries) <= MaxPackObjects /\ \A i \in DOMAIN entries : Len(entries[i].content) <= MaxObject
      /\ got.ok =>
           /\ Len(got.entries) = Len(entries)
           /\ \A i \in DOMAIN entries :
                LET e == entries[i]
                    found == got.entries[i]
                IN  /\ CASE found.type = OfsDelta -> found.base < i /\ entries[found.base].sha = e.base
                         [] found.type = RefDelta -> found.base = e.base /\ e.base # 0
                         [] OTHER -> e.base = 0 /\ found.type = e.kind
                    /\ BodyOf(pack, found) = {e.content}
           /\ \A bad \in Cuts(pack) \cup {[pack EXCEPT ![i] = @ + 1] : i \in DOMAIN pack} : ~ ReadPack(bad, pack).ok

\* What write_varint, encode_delta, encode_pack_entry_header,
\* encode_pack_trailer, write_pack_entry and Body write, and the numbers,
\* deltas and packs git writes, is what read_varint, read_entry_header,
\* read_ofs_delta_distance, apply_delta, the commit-pack readers,
\* locate_entries and Packets read back.  A number with zeros to spare reads
\* as itself or is refused; a delta or a pack that lost its end, a delta that
\* met a base of another length, a pack that was changed and what is over a
\* limit are refused.
FormatsReadBack ==
    /\ probe.of = "number" =>
         \A varint \in {WriteVarint(probe.value)}, header \in {EntryHeader(probe.type, probe.value)},
            distance \in {WriteDistance(probe.value)} :
         LET read == [ok |-> TRUE, used |-> Len(varint), value |-> probe.value]
             headed == [ok |-> TRUE, used |-> Len(header), type |-> probe.type, size |-> probe.value]
         IN  /\ ReadVarint(varint) = read
             /\ ReadVarint(Longer(varint, Low)) \in {Refused, [read EXCEPT !.used = @ + 1]}
             /\ ReadEntryHeader(header) = headed
             /\ ReadEntryHeader(Longer(header, IF Len(header) = 1 THEN 8 * Low ELSE Low))
                  \in {Refused, [headed EXCEPT !.used = @ + 1]}
             /\ ReadDistance(distance) = [ok |-> TRUE, used |-> Len(distance), value |-> probe.value]
    /\ probe.of = "delta" => DeltasReadBack(probe.base, probe.target)
    /\ probe.of = "image" =>
         /\ \A image \in {EncodeImage(probe.entries)} : \A read \in {ReadImage(image)} :
              /\ read.walked = probe.entries /\ read.placed = probe.entries
              /\ read.end + TrailerSuffixLen(Len(probe.entries)) = Len(image)
              /\ \A i \in DOMAIN probe.entries :
                   read.blobs > OffsetOf(probe.entries, i) <=> probe.entries[i].kind # 3
         /\ \A pack \in {WritePack(probe.entries), ClientPack(probe.entries)} : PackReadsBack(probe.entries, pack)
    /\ probe.of = "body" =>
         LET bytes == BodyBytes(probe.packets)
             flushes == {i \in DOMAIN probe.packets : probe.packets[i].marker = 0}
         IN  /\ PacketsOf(bytes) = probe.packets
             /\ ReadLines(bytes).ok <=> flushes # {}
             /\ flushes # {} =>
                  ReadLines(bytes).lines = SelectSeq(SubSeq(probe.packets, 1, Min(flushes)), IsData)
             /\ \A cut \in Cuts(bytes) :
                  LET said == PacketsOf(cut)
                  IN  \/ IsPrefix(said, probe.packets)
                      \/ /\ Last(said) = Bad
                         /\ IsPrefix(Front(said), probe.packets)

\* What a PackWriter has sent is a beginning of what it hashed, in order and
\* in frames a pkt-line carries; a finished one sent all of it and then the
\* digest; and one that failed did so at its last frame, with all sent but
\* what was buffered for that frame, which is less than a frame holds.
PackStreamsAreExact ==
    LET sent == FlattenSeq(stream.frames)
        last == stream.hashed \o DigestWords
    IN  /\ \A i \in DOMAIN stream.frames : Carries(stream.framing, stream.frames[i])
        /\ probe = NoProbe /\ stream.at = "open" => sent \o stream.buf = stream.hashed
        /\ stream.at = "finished" => sent = last
        /\ stream.at \in {"failed", "closed"} => IsPrefix(sent, stream.hashed)
        /\ stream.at = "failed" => Len(stream.hashed) - Len(sent) < MaxSideband

\* finish appends the digest and flushes the final chunk, whatever the pack's
\* length: only a client that went away does not get the whole of it.
EveryPackIsFinished == stream.at # "failed"
===========================================================================
