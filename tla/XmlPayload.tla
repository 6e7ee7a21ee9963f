------------------------------ MODULE XmlPayload ------------------------------
(***************************************************************************)
(* One DataArray of a serial VTK XML file: how XmlParser records where its *)
(* bytes are and how many it expects, and how ScalarPayloadReader, the     *)
(* segment readers of FileHandle and ArrayEvaluator turn them into an      *)
(* array much later, when a value is asked for (vtk/src).                  *)
(*                                                                         *)
(* The bytes of an array are stored as                                     *)
(*   "ascii"   text in the element;                                        *)
(*   "binary"  base64 text in the element;                                 *)
(*   "raw"     bytes in the appended section;                              *)
(*   "base64"  base64 text in the appended section;                        *)
(* all but the first behind a header of fixed-width words: the byte count, *)
(* or, with a compressor, the block count, the block size, the size of the *)
(* last block and the packed size of every block.  Base64 text encodes the *)
(* header with the bytes, or the header and the packed blocks as two       *)
(* streams, each padded at its end.                                        *)
(*                                                                         *)
(* Between a parse and a read, and between two reads, another program may  *)
(* rewrite the file, and it may truncate it at any time.  Rewriting a file *)
(* while one read of it runs is left out: nothing in the code detects it.  *)
(*                                                                         *)
(* A byte is abstract: it says what it is a byte of.  Bytes are grouped in *)
(* units, the pieces of a file that are read as a whole: a byte, a quartet *)
(* of base64 characters (1 to 3 bytes), or a token of text (the bytes of a *)
(* scalar, as parsed).                                                     *)
(***************************************************************************)
EXTENDS Naturals, Sequences, SequencesExt

CONSTANTS
  Elements,        \* attributes of the DataArray and of its file
  TupleCounts,     \* tuples an array may have
  BlockSizes,      \* block sizes compressors are set to
  PackedTables,    \* sizes of the compressed blocks of an array
  Leads,           \* units of other data before the array
  Cuts,            \* units a truncation may take away
  BlocksPerBatch,  \* compressed blocks one task decodes
  MaxChanges,      \* bound on rewrites and truncations
  Error,           \* what a call that throws gives
  NoSpec

ASSUME ConstantsAssumption ==
  /\ Elements \subseteq
       [format: {"ascii", "binary", "raw", "base64"}, compressed: BOOLEAN,
        word: Nat \ {0},       \* bytes of a header word
        swapped: BOOLEAN,      \* byte order is not the host's
        scalar: Nat \ {0}, components: Nat \ {0},
        counted: BOOLEAN,      \* NumberOfTuples, or the piece, tells the count
        prependZero: BOOLEAN]  \* an array of cell ends, exposed as offsets
  /\ TupleCounts \subseteq Nat /\ Leads \subseteq Nat /\ Cuts \subseteq Nat
  /\ BlockSizes \subseteq Nat \ {0} /\ PackedTables \subseteq Seq(Nat \ {0})
  /\ BlocksPerBatch \in Nat \ {0} /\ MaxChanges \in Nat

VARIABLES
  xml,      \* the element
  file,     \* the file now
  content,  \* what is in it, in units
  parsed,   \* the file when it was last parsed
  spec,     \* the ArraySpec: byte count and segments
  phase,    \* where the parser or the reader is
  source,   \* the file when the last read began
  layout,   \* the table of a compressed block
  target,   \* the array being filled
  todo,     \* batches no task has finished
  failed,   \* the atomic flag of the batch tasks
  result,   \* what the last read gave
  changes

vars == <<xml, file, content, parsed, spec, phase, source, layout, target,
          todo, failed, result, changes>>

-----------------------------------------------------------------------------
(* What a writer stores.                                                   *)

Least(a, b) == IF a <= b THEN a ELSE b
Greatest(a, b) == IF a >= b THEN a ELSE b
Total(s) == FoldLeft(LAMBDA a, b: a + b, 0, s)

Byte(kind, version, of, at) == [kind |-> kind, version |-> version, of |-> of, at |-> at]
Undefined == Byte("undefined", 0, 0, 0)
Zero == Byte("zero", 0, 0, 0)
Markup == <<Byte("markup", 0, 0, 0)>>

TupleSize == xml.components * xml.scalar
Size(f) == f.tuples * TupleSize

\* std::reverse on every scalar, when the byte order is not the host's.
ByteSwapScalarBytesInPlace(bytes) ==
  IF ~xml.swapped THEN bytes
  ELSE [p \in DOMAIN bytes |->
         LET first == ((p - 1) \div xml.scalar) * xml.scalar
         IN bytes[first + xml.scalar - ((p - 1) % xml.scalar)]]

Values(f) == [p \in 1..Size(f) |-> Byte("value", f.version, 0, p)]
DiskBytes(f) == ByteSwapScalarBytesInPlace(Values(f))

Blocks(f) == (Size(f) + f.blockSize - 1) \div f.blockSize

\* A last block that is full is given its size by some writers and zero by
\* others, VTK's own among them.
LastBlockSize(f) ==
  IF Size(f) % f.blockSize # 0 THEN Size(f) % f.blockSize
  ELSE IF f.zeroWhenFull \/ Size(f) = 0 THEN 0 ELSE f.blockSize

Block(f, k) ==
  SubSeq(DiskBytes(f), k * f.blockSize + 1, Least((k + 1) * f.blockSize, Size(f)))
Packed(f, k) == [j \in 1..f.packed[k + 1] |-> Byte("packed", f.version, k, j)]

Word(n) == [b \in 1..xml.word |-> Byte("word", 0, n, b)]
Header(f) ==
  FlattenSeq([w \in 1..(3 + Blocks(f)) |->
    Word((<<Blocks(f), f.blockSize, LastBlockSize(f)>> \o f.packed)[w])])

Streams(f) ==
  IF xml.compressed
  THEN <<Header(f), FlattenSeq([k \in 1..Blocks(f) |-> Packed(f, k - 1)])>>
  ELSE <<Word(Size(f)) \o DiskBytes(f)>>

Group(bytes, n) ==
  [q \in 1..((Len(bytes) + n - 1) \div n) |->
     SubSeq(bytes, (q - 1) * n + 1, Least(q * n, Len(bytes)))]

IsBase64 == xml.format \in {"binary", "base64"}
IsInline == xml.format \in {"ascii", "binary"}

Payload(f) ==
  IF xml.format = "ascii" THEN Group(Values(f), xml.scalar)
  ELSE LET streams == Streams(f)
       IN FlattenSeq([s \in DOMAIN streams |-> Group(streams[s], IF IsBase64 THEN 3 ELSE 1)])

\* Other data stands before the array; after it, the next array or the end of
\* the element.
Other == IF IsInline THEN Markup ELSE [b \in 1..(IF IsBase64 THEN 3 ELSE 1) |-> Byte("other", 0, 0, b)]
Content(f) ==
  LET whole == [u \in 1..f.lead |-> Other] \o Payload(f) \o <<Other>>
  IN SubSeq(whole, 1, Len(whole) - Least(f.cut, Len(whole)))

\* Files are measured in characters: a quartet is four.
UnitSize == IF IsBase64 THEN 4 ELSE 1

FilesOf(e, version) ==
  UNION {LET size == t * e.components * e.scalar
             blocks == IF e.compressed THEN (size + b - 1) \div b ELSE 0
         IN [version: {version}, tuples: {t}, blockSize: {b}, lead: Leads, cut: {0},
             zeroWhenFull: IF e.compressed /\ size % b = 0 THEN BOOLEAN ELSE {FALSE},
             packed: {p \in PackedTables : Len(p) = blocks}] :
         t \in TupleCounts, b \in IF e.compressed THEN BlockSizes ELSE {1}}

-----------------------------------------------------------------------------
(* Reading ranges of the file.  A range is given in characters; what is    *)
(* read is the units of the range.                                         *)

Failed(x) == x = Error

\* ReadFileRangeInto, and the parser's ReadFileBytes.
ReadUnits(offset, count) ==
  LET first == offset \div UnitSize
      last == (offset + count) \div UnitSize
  IN IF last > Len(content) THEN Error ELSE SubSeq(content, first + 1, last)

ReadSegmentFileRange(segment, offset, count) ==
  IF offset + count > segment.count THEN Error
  ELSE ReadUnits(segment.start + offset, count)

IsBase64Text(unit) == unit # Markup

\* Fewer than three bytes mean padding.
DecodeBase64Quartet(unit, allowPadding) ==
  IF ~IsBase64Text(unit) \/ (Len(unit) # 3 /\ ~allowPadding) THEN Error ELSE unit

DecodedBase64ByteCount(segment) ==
  IF segment.count % 4 # 0 THEN Error
  ELSE IF segment.count = 0 THEN 0
  ELSE LET final == ReadSegmentFileRange(segment, segment.count - 4, 4) IN
       IF Failed(final) \/ ~IsBase64Text(final[1]) THEN Error
       ELSE (segment.count \div 4 - 1) * 3 + Len(final[1])

\* Seeded fault: padding is taken for an error at the end of the segment too.
ReadDecodedTriple_NoPadding(segment, triple) ==
  LET quartet == ReadSegmentFileRange(segment, triple * 4, 4) IN
  IF Failed(quartet) THEN Error ELSE DecodeBase64Quartet(quartet[1], FALSE)
ReadDecodedTriple(segment, triple) ==
  LET quartet == ReadSegmentFileRange(segment, triple * 4, 4) IN
  IF Failed(quartet) THEN Error
  ELSE DecodeBase64Quartet(quartet[1], triple * 4 + 4 = segment.count)

\* The whole triples from..to-1; padding is not allowed in any of them.
ReadAlignedMiddle(segment, from, to) ==
  LET quartets == ReadSegmentFileRange(segment, from * 4, (to - from) * 4) IN
  IF Failed(quartets) THEN Error
  ELSE IF \E q \in DOMAIN quartets : Failed(DecodeBase64Quartet(quartets[q], FALSE)) THEN Error
  ELSE FlattenSeq(quartets)

\* Bytes from..to-1 of one decoded triple.
PartOfTriple(segment, from, to) ==
  LET triple == ReadDecodedTriple(segment, from \div 3)
      begin == (from \div 3) * 3
  IN IF Failed(triple) \/ to - begin > Len(triple) THEN Error
     ELSE SubSeq(triple, from - begin + 1, to - begin)

Join(parts) ==
  IF \E p \in DOMAIN parts : Failed(parts[p]) THEN Error ELSE FlattenSeq(parts)

\* Decoded bytes skip..skip+count-1: the rest of a triple, whole triples, and
\* the beginning of a triple.
ReadBase64(segment, skip, count) ==
  LET decoded == DecodedBase64ByteCount(segment)
      end == skip + count
      headEnd == IF skip % 3 = 0 THEN skip ELSE Least(end, (skip \div 3) * 3 + 3)
      middleEnd == Greatest(headEnd, (end \div 3) * 3)
  IN IF Failed(decoded) THEN Error
     ELSE IF end > decoded THEN Error
     ELSE Join((IF headEnd > skip THEN <<PartOfTriple(segment, skip, headEnd)>> ELSE <<>>)
            \o (IF middleEnd > headEnd
                THEN <<ReadAlignedMiddle(segment, headEnd \div 3, middleEnd \div 3)>> ELSE <<>>)
            \o (IF end > middleEnd THEN <<PartOfTriple(segment, middleEnd, end)>> ELSE <<>>))

ReadRaw(segment, skip, count) ==
  LET units == ReadSegmentFileRange(segment, skip, count) IN
  IF Failed(units) THEN Error ELSE FlattenSeq(units)

\* The text of the whole segment has to hold the expected number of scalars.
ReadAscii(segment, count) ==
  LET tokens == ReadUnits(segment.start, segment.count) IN
  IF Failed(tokens) THEN Error
  ELSE IF Len(tokens) * xml.scalar # count \/ \E t \in DOMAIN tokens : tokens[t] = Markup
  THEN Error
  ELSE FlattenSeq(tokens)

ReadSegment(segment, skip, count) ==
  IF IsBase64 THEN ReadBase64(segment, skip, count) ELSE ReadRaw(segment, skip, count)

\* The n-th word of a header; bytes that are no such word give a number that
\* stands for none in particular.
Garbage == 99
ReadEndianUnsigned(bytes, n) ==
  LET word == SubSeq(bytes, n * xml.word + 1, (n + 1) * xml.word)
      value == word[1].of
  IN IF word = Word(value) THEN value ELSE Garbage

-----------------------------------------------------------------------------
(* The parser.                                                             *)

Base64EncodedCharCount(count) == ((count + 2) \div 3) * 4

Start == file.lead * UnitSize

\* The size of the array from its header, without a compressor and with one.
ReadXmlBlockDecodedByteCount(words) ==
  IF ~xml.compressed THEN words[1]
  ELSE IF words[1] = 0 THEN 0 ELSE (words[1] - 1) * words[2] + words[3]

\* The first count bytes of the block, as the parser reads them.
Prefix(count) ==
  IF IsBase64
  THEN LET quartets == ReadUnits(Start, Base64EncodedCharCount(count)) IN
       IF Failed(quartets) THEN Error
       ELSE IF \E q \in DOMAIN quartets : ~IsBase64Text(quartets[q]) THEN Error
       ELSE SubSeq(FlattenSeq(quartets), 1, count)
  ELSE LET units == ReadUnits(Start, count) IN
       IF Failed(units) THEN Error ELSE FlattenSeq(units)

\* The words of the header; Error when the file ends in it.  An appended array
\* that is not compressed is looked at only to count its tuples.
HeaderWords ==
  IF ~xml.compressed
  THEN IF xml.counted /\ ~IsInline THEN <<>> ELSE LET bytes == Prefix(xml.word) IN
       IF Failed(bytes) THEN Error ELSE <<ReadEndianUnsigned(bytes, 0)>>
  ELSE LET bytes == Prefix(3 * xml.word) IN
       IF Failed(bytes) THEN Error
       ELSE LET blocks == ReadEndianUnsigned(bytes, 0)
                table == Prefix((3 + blocks) * xml.word)
            IN IF Failed(table) THEN Error
               ELSE [w \in 1..(3 + blocks) |-> ReadEndianUnsigned(table, w - 1)]

PackedByteCount(words) == Total(SubSeq(words, 4, Len(words)))

\* Tokens up to the first markup; Error when there is none.
AsciiTokens ==
  LET ends == {u \in (file.lead + 1)..Len(content) : content[u] = Markup}
  IN IF ends = {} THEN Error
     ELSE (CHOOSE u \in ends : \A v \in ends : u <= v) - file.lead - 1

\* InferXmlTupleCount, in tuples; Error when the bytes are no whole number.
InferXmlTupleCount(bytes) ==
  IF xml.counted THEN file.tuples
  ELSE IF bytes % TupleSize # 0 THEN Error ELSE bytes \div TupleSize

Segments(words, bytes) ==
  LET chars(n) == IF IsBase64 THEN Base64EncodedCharCount(n) ELSE n
      stored == IF xml.format = "binary" THEN words[1] ELSE bytes
      table == chars(Len(words) * xml.word)
  IN IF xml.compressed
     THEN <<[start |-> Start, count |-> table],
            [start |-> Start + table, count |-> chars(PackedByteCount(words))]>>
     ELSE <<[start |-> Start, count |-> chars(xml.word + stored)]>>

\* ReadXmlMetadataDom stops at raw appended data; any other file it follows to
\* the last end tag, which a truncated file lacks.
XmlIsWhole == xml.format = "raw" \/ file.cut = 0

\* Inline base64 has to be followed by markup; the appended section must hold
\* all of the segments when it is base64.
SegmentsAreInFile(segments) ==
  LET last == segments[Len(segments)]
      end == (last.start + last.count) \div UnitSize
  IN CASE xml.format = "binary" ->
            end < Len(content) /\ content[end + 1] = Markup
       [] xml.format = "base64" -> end <= Len(content)
       [] OTHER -> TRUE

ArraySpec(bytes, segments) == [bytes |-> bytes, segments |-> segments]

ParseAscii ==
  LET tokens == AsciiTokens IN
  IF Failed(tokens) THEN Error
  ELSE LET tuples == InferXmlTupleCount(tokens * xml.scalar) IN
       IF Failed(tuples) THEN Error
       ELSE ArraySpec(tuples * TupleSize, <<[start |-> file.lead, count |-> tokens]>>)

ParseBinary ==
  LET words == HeaderWords IN
  IF Failed(words) THEN Error
  ELSE LET tuples == InferXmlTupleCount(ReadXmlBlockDecodedByteCount(words)) IN
       IF Failed(tuples) THEN Error
       ELSE LET segments == Segments(words, tuples * TupleSize) IN
            IF SegmentsAreInFile(segments) THEN ArraySpec(tuples * TupleSize, segments)
            ELSE Error

-----------------------------------------------------------------------------
NoLayout == [blocks |-> 0, blockSize |-> 0, lastBlockSize |-> 0, packed |-> <<>>]

Init ==
  /\ xml \in Elements
  /\ file \in FilesOf(xml, 1)
  /\ content = Content(file)
  /\ parsed = file /\ source = file
  /\ spec = NoSpec
  /\ phase = "unparsed"
  /\ layout = NoLayout /\ target = <<>> /\ todo = {} /\ failed = FALSE
  /\ result = Error
  /\ changes = 0

Idle == phase \in {"unparsed", "rejected", "parsed"}

\* XmlParser::Parse as far as this array goes (AddXmlArray).  A file that was
\* read before is parsed anew by the next Read of the layer.
Parse ==
  /\ Idle
  /\ LET array == IF ~XmlIsWhole THEN Error
                  ELSE IF xml.format = "ascii" THEN ParseAscii ELSE ParseBinary IN
     IF Failed(array)
     THEN spec' = NoSpec /\ phase' = "rejected"
     ELSE spec' = array /\ phase' = "parsed"
  /\ parsed' = file
  /\ source' = file
  /\ UNCHANGED <<xml, file, content, layout, target, todo, failed, result, changes>>

\* A call ends: what it worked on is gone.
Forget == layout' = NoLayout /\ target' = <<>> /\ todo' = {} /\ failed' = FALSE
Throw == phase' = "done" /\ result' = Error /\ Forget

\* What ArrayEvaluator makes of the filled target.
Evaluated(bytes) == (IF xml.prependZero THEN [b \in 1..xml.scalar |-> Zero] ELSE <<>>) \o bytes
Give(bytes) == phase' = "done" /\ result' = Evaluated(bytes) /\ Forget

\* A value is asked for.  An array of no values is made without a read.
Begin ==
  /\ phase = "parsed"
  /\ source' = file
  /\ IF spec.bytes = 0 THEN Give(<<>>)
     ELSE /\ phase' = IF xml.format = "ascii" THEN "payload" ELSE "header"
          /\ target' = [b \in 1..spec.bytes |-> Undefined]
          /\ UNCHANGED <<layout, todo, failed, result>>
  /\ UNCHANGED <<xml, file, content, parsed, spec, changes>>

\* Seeded fault: a payload that is longer than what is wanted will do.
PayloadSizeMatches_AtLeast(size) == size >= spec.bytes
PayloadSizeMatches(size) == size = spec.bytes

\* XmlBinaryBlockPayloadReader::ReadDataInto without a compressor: the header
\* has to tell the size that is wanted.
ReadHeader ==
  /\ phase = "header" /\ ~xml.compressed
  /\ LET header == ReadSegment(spec.segments[1], 0, xml.word) IN
     IF Failed(header) THEN Throw
     ELSE IF ~PayloadSizeMatches(ReadEndianUnsigned(header, 0)) THEN Throw
     ELSE phase' = "payload" /\ UNCHANGED <<layout, target, todo, failed, result>>
  /\ UNCHANGED <<xml, file, content, parsed, spec, source, changes>>

\* Text is parsed to the host's order; other bytes are swapped where they are.
ReadPayload ==
  /\ phase = "payload"
  /\ LET bytes == IF xml.format = "ascii" THEN ReadAscii(spec.segments[1], spec.bytes)
                  ELSE ReadSegment(spec.segments[1], xml.word, spec.bytes)
     IN IF Failed(bytes) THEN Throw
        ELSE Give(IF xml.format = "ascii" THEN bytes ELSE ByteSwapScalarBytesInPlace(bytes))
  /\ UNCHANGED <<xml, file, content, parsed, spec, source, changes>>

BlockDecodedSize(table, k) ==
  IF k + 1 < table.blocks \/ table.lastBlockSize = 0 THEN table.blockSize ELSE table.lastBlockSize
DecodedCompressedSize(table) ==
  IF table.blocks = 0 THEN 0
  ELSE IF table.lastBlockSize = 0 THEN table.blocks * table.blockSize
  ELSE (table.blocks - 1) * table.blockSize + table.lastBlockSize

\* The table is read anew: first its three fixed words, then all of it.
ReadCompressedXmlBlockLayout ==
  LET segment == spec.segments[1]
      prefix == ReadSegment(segment, 0, 3 * xml.word)
  IN IF Failed(prefix) THEN Error
     ELSE LET blocks == ReadEndianUnsigned(prefix, 0)
              header == ReadSegment(segment, 0, (3 + blocks) * xml.word)
          IN IF Failed(header) THEN Error
             ELSE [blocks |-> blocks,
                   blockSize |-> ReadEndianUnsigned(prefix, 1),
                   lastBlockSize |-> ReadEndianUnsigned(prefix, 2),
                   packed |-> [k \in 1..blocks |-> ReadEndianUnsigned(header, 2 + k)]]

Batches(table) == 0..((table.blocks + BlocksPerBatch - 1) \div BlocksPerBatch - 1)

\* ReadCompressedXmlBlockInto up to the start of the tasks; the base64 reader
\* of the packed blocks looks at the end of its segment when it is made.
ReadLayout ==
  /\ phase = "header" /\ xml.compressed
  /\ LET table == ReadCompressedXmlBlockLayout IN
     IF Failed(table) THEN Throw
     ELSE IF ~PayloadSizeMatches(DecodedCompressedSize(table))
             \/ (IsBase64 /\ Failed(DecodedBase64ByteCount(spec.segments[2])))
     THEN Throw
     ELSE /\ layout' = table
          /\ todo' = Batches(table)
          /\ phase' = "batches"
          /\ UNCHANGED <<target, failed, result>>
  /\ UNCHANGED <<xml, file, content, parsed, spec, source, changes>>

CompressedOffset(k) == Total(SubSeq(layout.packed, 1, k))

\* zlib, lz4 or lzma: anything but a whole block fails.
Decompress(bytes, size) ==
  LET k == bytes[1].of IN
  IF bytes[1].kind = "packed" /\ bytes = Packed(file, k) /\ Len(Block(file, k)) = size
  THEN Block(file, k) ELSE Error

\* One task decodes one batch of blocks into its part of the target, unless it
\* sees that another has failed.
ReadBatch(batch) ==
  LET first == batch * BlocksPerBatch
      last == Least(layout.blocks, first + BlocksPerBatch)
      begin == CompressedOffset(first)
      bytes == ReadSegment(spec.segments[2], begin, CompressedOffset(last) - begin)
      block(k) == Decompress(
        SubSeq(bytes, CompressedOffset(k) - begin + 1, CompressedOffset(k + 1) - begin),
        BlockDecodedSize(layout, k))
      bad == {k \in first..(last - 1) : Failed(block(k))}
      written == {k \in first..(last - 1) : \A b \in bad : k < b}
      blockOf(p) == (p - 1) \div layout.blockSize
  IN
  /\ phase = "batches" /\ batch \in todo
  /\ todo' = todo \ {batch}
  /\ IF failed THEN UNCHANGED <<target, failed>>
     ELSE IF Failed(bytes) THEN failed' = TRUE /\ UNCHANGED target
     ELSE /\ target' = [p \in DOMAIN target |->
                         IF blockOf(p) \in written
                         THEN block(blockOf(p))[p - blockOf(p) * layout.blockSize]
                         ELSE target[p]]
          /\ failed' = (bad # {})
  /\ UNCHANGED <<xml, file, content, parsed, spec, phase, source, layout, result, changes>>

\* Blocks need not hold whole scalars: bytes are swapped when all are there.
JoinBatches ==
  /\ phase = "batches" /\ todo = {}
  /\ IF failed THEN Throw ELSE Give(ByteSwapScalarBytesInPlace(target))
  /\ UNCHANGED <<xml, file, content, parsed, spec, source, changes>>

\* The caller has its value; it may ask again.
Return ==
  /\ phase = "done"
  /\ phase' = "parsed" /\ result' = Error
  /\ UNCHANGED <<xml, file, content, parsed, spec, source, layout, target, todo, failed, changes>>

\* Another program rewrites the file, or takes units off its end.
Rewrite ==
  /\ phase \in {"parsed", "rejected"} /\ changes < MaxChanges
  /\ file' \in FilesOf(xml, file.version + 1)
  /\ content' = Content(file')
  /\ changes' = changes + 1
  /\ UNCHANGED <<xml, parsed, spec, phase, source, layout, target, todo, failed, result>>

Truncate ==
  /\ changes < MaxChanges /\ file.cut = 0
  /\ \E n \in Cuts : file' = [file EXCEPT !.cut = n]
  /\ content' = Content(file')
  /\ changes' = changes + 1
  /\ UNCHANGED <<xml, parsed, spec, phase, source, layout, target, todo, failed, result>>

Next ==
  \/ Parse \/ Begin \/ ReadHeader \/ ReadPayload \/ ReadLayout
  \/ \E batch \in todo : ReadBatch(batch)
  \/ JoinBatches \/ Return
  \/ Rewrite \/ Truncate

Spec == Init /\ [][Next]_vars

-----------------------------------------------------------------------------
\* Types.  While a read runs, its target keeps the size that was asked for;
\* after it, nothing of it is left.
TypeOK ==
  /\ xml \in Elements
  /\ phase \in {"unparsed", "rejected", "parsed", "header", "payload", "batches", "done"}
  /\ (spec = NoSpec) = (phase \in {"unparsed", "rejected"})
  /\ IF phase \in {"header", "payload", "batches"} THEN Len(target) = spec.bytes
     ELSE target = <<>> /\ todo = {} /\ ~failed
  /\ phase = "batches" => todo \subseteq Batches(layout)
  /\ failed \in BOOLEAN
  /\ changes \in 0..MaxChanges

\* A read that returns gives, byte for byte and in the host's order, the array
\* that the file held when the read began, behind a zero if it is an array of
\* offsets: also when the file was rewritten after the parse (other sizes,
\* other blocks, another place), and with blocks that cut scalars in two.  An
\* array parsed as empty is not read, and text has no size of its own to tell
\* that it was rewritten.
RightValues ==
  (phase = "done" /\ ~Failed(result) /\ spec.bytes # 0
     /\ (xml.format = "ascii" => parsed = source))
    => result = Evaluated(Values(source))

\* No call ends with part of an array, or leaves anything of itself behind.
ReadIsRightOrFails == TypeOK /\ RightValues

\* The header says that the last block is full by giving it the size zero, and
\* nothing but the header tells how long the array is.
InferredFromZero(f) == xml.compressed /\ ~xml.counted /\ f.zeroWhenFull

\* A file that is whole can be parsed and, as long as nobody touches it, read,
\* in every storage, with padding, head, middle and tail of the base64 text
\* wherever they fall.
IntactIsReadable ==
  /\ (phase = "rejected" /\ parsed.cut = 0) => InferredFromZero(parsed)
  /\ (phase = "done" /\ file = parsed /\ parsed.cut = 0 /\ ~InferredFromZero(parsed))
       => result = Evaluated(Values(parsed))

\* "This function decodes only the header and compressed-size table needed to
\* learn the encoded source range and decoded payload size" (XmlParser.cpp):
\* the size the parser learns is the size of the stored array.
ParsedSizeIsStoredSize ==
  phase = "parsed" /\ parsed.cut = 0 => spec.bytes = Size(parsed)
=============================================================================
