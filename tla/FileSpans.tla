----------------------------- MODULE FileSpans ------------------------------
(***************************************************************************)
(* Which bytes of which files a piece or a block lies in: the layout of    *)
(* build_storage and the loop over the files that block_file_spans and     *)
(* piece_file_spans share (a piece is the block of its whole length).      *)
(***************************************************************************)
EXTENDS Naturals, Sequences

CONSTANTS
    FileCount,       \* number of files
    FileLengths,     \* lengths a file may have
    PieceLengths,    \* values of piece_length
    HashCounts       \* numbers of hashes in the field `pieces`

ASSUME SpansAssumption ==
    /\ FileCount \in Nat \ {0} /\ FileLengths \subseteq Nat
    /\ PieceLengths \subseteq Nat \ {0} /\ HashCounts \subseteq Nat

VARIABLES
    lengths,     \* the files' lengths
    pieceLength, \* piece_length
    pieceCount,  \* piece_count(), the pieces of the storage
    block,       \* the bytes asked for: [from, size] in the torrent
    spanFile,    \* the file the loop comes to next
    cursor,      \* current_offset
    remaining,   \* remaining
    spans        \* the spans so far

spanVars == <<lengths, pieceLength, pieceCount, block, spanFile, cursor, remaining, spans>>

Files == 1 .. FileCount

(* FileEntry.offset: the sum of the lengths before. *)
Offset == LET sum[i \in 1 .. FileCount + 1] == IF i = 1 THEN 0 ELSE sum[i - 1] + lengths[i - 1]
          IN sum
TotalLength == Offset[FileCount + 1]

(* Without the field `pieces`, as many pieces as the total length needs;   *)
(* with it as many as it has hashes, which nothing compares with the       *)
(* length: a hybrid torrent counts the padding between its files there.    *)
PieceCounts(total, length) == {(total + length - 1) \div length} \cup HashCounts

(* The last of them is what is left over, unless that is nothing.          *)
PieceSize(i, count, total, length) ==
    IF i = count - 1 /\ total % length # 0 THEN total % length ELSE length

(* A block that ends behind its piece is refused; it may be empty.         *)
BlocksOf(count, length) ==
    {[from |-> i * length + offset, size |-> n] :
        i \in 0 .. count - 1, offset \in 0 .. length, n \in 0 .. length}
ValidBlock(b, count, total, length) ==
    \E i \in 0 .. count - 1 :
        /\ i * length <= b.from
        /\ b.from + b.size <= i * length + PieceSize(i, count, total, length)

SpansInit ==
    /\ lengths \in [Files -> FileLengths] /\ pieceLength \in PieceLengths
    /\ pieceCount \in PieceCounts(TotalLength, pieceLength)
    /\ block \in BlocksOf(pieceCount, pieceLength)
    /\ ValidBlock(block, pieceCount, TotalLength, pieceLength)
    /\ spanFile = 1 /\ cursor = block.from /\ remaining = block.size /\ spans = <<>>

(* Mutant: the rest of the block is taken whatever the file has left. *)
TakeAll(rest, available) == rest
Take(rest, available) == IF rest <= available THEN rest ELSE available

(* One turn of the loop over the files. *)
SpanStep ==
    /\ spanFile \in Files /\ remaining > 0
    /\ LET end == Offset[spanFile] + lengths[spanFile]
           take == Take(remaining, end - cursor)
       IN IF Offset[spanFile] <= cursor /\ cursor < end
          THEN /\ spans' = Append(spans, [file |-> spanFile, at |-> cursor - Offset[spanFile],
                                          size |-> take])
               /\ cursor' = cursor + take /\ remaining' = remaining - take
          ELSE UNCHANGED <<spans, cursor, remaining>>
    /\ spanFile' = spanFile + 1
    /\ UNCHANGED <<lengths, pieceLength, pieceCount, block>>

SpansDone == spanFile > FileCount \/ remaining = 0

SpansSpec == SpansInit /\ [][SpanStep]_spanVars

-----------------------------------------------------------------------------
SpansTypeOK ==
    /\ lengths \in [Files -> Nat] /\ {pieceLength, pieceCount} \subseteq Nat /\ spanFile \in 1 .. FileCount + 1
    /\ {cursor, remaining} \subseteq Nat

(* The spans are the block's bytes, each once and in order: every span is  *)
(* inside its file and begins in the torrent where the one before it ends, *)
(* also with empty files, blocks over several files and a short last       *)
(* piece.  When the loop is over, what is left is what lies behind the end *)
(* of the last file and nothing else: there is nothing left of a block of  *)
(* the data, whatever the pieces say, and of others the loop leaves out    *)
(* the rest, which reads and writes take for success.                      *)
SpansCover ==
    LET StartOf(span) == Offset[span.file] + span.at
        End == block.from + block.size
        Behind == IF TotalLength <= block.from THEN block.size
                  ELSE IF TotalLength <= End THEN End - TotalLength ELSE 0
    IN
    /\ \A k \in DOMAIN spans :
         /\ spans[k].size > 0 /\ spans[k].at + spans[k].size <= lengths[spans[k].file]
         /\ StartOf(spans[k]) =
              IF k = 1 THEN block.from ELSE StartOf(spans[k - 1]) + spans[k - 1].size
    /\ spans # <<>> => cursor = StartOf(spans[Len(spans)]) + spans[Len(spans)].size
    /\ cursor + remaining = End
    /\ SpansDone => remaining = Behind

=============================================================================
