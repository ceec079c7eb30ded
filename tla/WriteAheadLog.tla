---------------------------- MODULE WriteAheadLog ----------------------------
(***************************************************************************)
(* LevelDB's log file: log::Writer over a PosixWritableFile as DBImpl      *)
(* drives it, and log::Reader, which recovery runs over what a crash has   *)
(* left of the file.  A byte of the file is known by the fragment it was   *)
(* written for and its place in it; checksums tell whether the bytes of a  *)
(* fragment are all there.                                                 *)
(***************************************************************************)
EXTENDS Integers, Sequences, FiniteSets, SequencesExt

CONSTANTS
  BlockSize,    \* kBlockSize
  HeaderSize,   \* kHeaderSize
  Sizes,        \* sizes of the records written
  MaxRecords,   \* records written at most
  MaxFailures,  \* writes of the kernel that fail
  MaxDamage,    \* bytes that rot on the disk
  MaxCrashes,
  ReuseLogs     \* options.reuse_logs

VARIABLES
  file,         \* the bytes the kernel has
  durable,      \* how many of them the disk has for certain
  blockOffset,  \* block_offset_ of the writer
  next,         \* records handed to AddRecord so far
  acknowledged, \* those reported as written, that no crash has undone
  synced,       \* those reported as written and synced
  failures, damages, crashes

vars == <<file, durable, blockOffset, next, acknowledged, synced, failures, damages, crashes>>

Minimum(a, b) == IF a < b THEN a ELSE b

\* A byte of a fragment; trailers are filled with zeros, and a byte may rot.
Fragment(rec, frag, type, len) == [rec |-> rec, frag |-> frag, type |-> type, len |-> len, at |-> 1]
Zero    == [Fragment(0, 0, "zero", 0) EXCEPT !.at = 0]
Damaged == [Fragment(0, 0, "damaged", 0) EXCEPT !.at = 0]
BytesOf(f) == [j \in 1 .. HeaderSize + f.len |-> [f EXCEPT !.at = j]]

Init ==
  /\ file = <<>> /\ durable = 0 /\ blockOffset = 0
  /\ next = 0 /\ acknowledged = {} /\ synced = {}
  /\ failures = 0 /\ damages = 0 /\ crashes = 0

-----------------------------------------------------------------------------
(* log::Writer                                                             *)

\* The bytes left in the block are filled when no header fits.
Trailer(offset) == IF BlockSize - offset < HeaderSize THEN BlockSize - offset ELSE 0
StartOffset(offset) == IF BlockSize - offset < HeaderSize THEN 0 ELSE offset

\* The fragments of record rec, size bytes long: the first takes what is left
\* of the block, the others whole blocks.
Fragments(rec, size, offset) ==
  LET avail == BlockSize - StartOffset(offset) - HeaderSize
      whole == BlockSize - HeaderSize
      n     == IF size <= avail THEN 1 ELSE 1 + (size - avail + whole - 1) \div whole
      len(k) == IF k = 1 THEN Minimum(size, avail)
                ELSE Minimum(size - avail - (k - 2) * whole, whole)
      type(k) == CASE n = 1 -> "full" [] k = 1 /\ n > 1 -> "first"
                   [] k = n /\ n > 1 -> "last" [] OTHER -> "middle"
  IN  [k \in 1 .. n |-> Fragment(rec, k, type(k), len(k))]

\* EmitPhysicalRecord flushes each fragment, with the trailer before the first.
Piece(fragments, k, offset) ==
  (IF k = 1 THEN [j \in 1 .. Trailer(offset) |-> Zero] ELSE <<>>) \o BytesOf(fragments[k])

\* Mutant: block_offset_ does not start over with the new block.
OffsetAfterNoReset(fragments, k, offset) ==
  (IF k = 1 THEN offset ELSE 0) + HeaderSize + fragments[k].len

\* block_offset_ after fragment k, whether or not its write succeeded.
OffsetAfter(fragments, k, offset) ==
  (IF k = 1 THEN StartOffset(offset) ELSE 0) + HeaderSize + fragments[k].len

\* AddRecord, and the Sync of DBImpl::Write after it.
Write(size, sync) ==
  /\ next < MaxRecords
  /\ LET fs == Fragments(next + 1, size, blockOffset)
     IN  /\ file' = file \o FlattenSeq([k \in DOMAIN fs |-> Piece(fs, k, blockOffset)])
         /\ blockOffset' = OffsetAfter(fs, Len(fs), blockOffset)
  /\ next' = next + 1
  /\ acknowledged' = acknowledged \cup {next + 1}
  /\ synced' = IF sync THEN synced \cup {next + 1} ELSE synced
  /\ durable' = IF sync THEN Len(file') ELSE durable
  /\ UNCHANGED <<failures, damages, crashes>>

\* The write of fragment k fails after some of its bytes; the others are dropped
\* from the buffer, the error is returned, and the log stays in use.
WriteFails(size) ==
  /\ next < MaxRecords /\ failures < MaxFailures
  /\ LET fs == Fragments(next + 1, size, blockOffset)
     IN  \E k \in DOMAIN fs :
           LET piece == Piece(fs, k, blockOffset)
           IN  /\ \E n \in 0 .. Len(piece) - 1 :
                    file' = file \o FlattenSeq([j \in 1 .. k - 1 |-> Piece(fs, j, blockOffset)])
                                 \o SubSeq(piece, 1, n)
               /\ blockOffset' = OffsetAfter(fs, k, blockOffset)
  /\ next' = next + 1
  /\ failures' = failures + 1
  /\ UNCHANGED <<durable, acknowledged, synced, damages, crashes>>

\* A byte on the disk rots.
Damage ==
  /\ damages < MaxDamage
  /\ damages' = damages + 1
  /\ \E j \in DOMAIN file : file' = [file EXCEPT ![j] = Damaged]
  /\ UNCHANGED <<durable, blockOffset, next, acknowledged, synced, failures, crashes>>

-----------------------------------------------------------------------------
(* log::Reader                                                             *)

\* A whole fragment lies at p of block b, so that its checksum is right.
WholeAt(b, p) ==
  LET h == b[p]
  IN  /\ h.at = 1
      /\ p + HeaderSize + h.len - 1 <= Len(b)
      /\ \A j \in 0 .. HeaderSize + h.len - 1 : b[p + j] = [h EXCEPT !.at = j + 1]

BadRecord == [type |-> "bad", rec |-> 0, frag |-> 0, pos |-> 0]

\* ReadPhysicalRecord over one block that starts at offset start of the file:
\* what does not check out costs the rest of the block, and what lies before
\* initialOffset is passed over.
PhysicalRecords(b, start, initialOffset) ==
  LET parse[p \in 1 .. Len(b) + 1] ==
        IF Len(b) - p + 1 < HeaderSize THEN <<>>
        ELSE IF ~WholeAt(b, p) THEN <<BadRecord>>
        ELSE LET h == b[p]
                 pos == start + p - 1
                 item == [type |-> h.type, rec |-> h.rec, frag |-> h.frag, pos |-> pos]
             IN  <<IF pos < initialOffset THEN BadRecord ELSE item>>
                   \o parse[p + HeaderSize + h.len]
  IN  parse[1]

\* SkipToInitialBlock
FirstBlock(initialOffset) ==
  LET inBlock == initialOffset % BlockSize
  IN  initialOffset \div BlockSize
        + (IF inBlock > BlockSize - (HeaderSize - 1) THEN 1 ELSE 0)

Block(f, k) == SubSeq(f, k * BlockSize + 1, Minimum((k + 1) * BlockSize, Len(f)))

AllPhysical(f, initialOffset) ==
  LET first == FirstBlock(initialOffset)
      last  == (Len(f) - 1) \div BlockSize
  IN  IF f = <<>> \/ first > last THEN <<>>
      ELSE FlattenSeq([k \in 1 .. last - first + 1 |->
             PhysicalRecords(Block(f, first + k - 1), (first + k - 1) * BlockSize, initialOffset)])

\* One turn of the loop of ReadRecord.  A record that is returned is the
\* sequence of the fragments it was put together from.
Step(s, item) ==
  CASE s.resyncing /\ item.type = "middle" -> s
    [] s.resyncing /\ item.type = "last" -> [s EXCEPT !.resyncing = FALSE]
    [] item.type = "full" ->
         [out |-> Append(s.out, <<item>>), scratch |-> <<>>, inRecord |-> FALSE, resyncing |-> FALSE]
    [] item.type = "first" ->
         [s EXCEPT !.scratch = <<item>>, !.inRecord = TRUE, !.resyncing = FALSE]
    [] ~s.resyncing /\ item.type = "middle" ->
         IF s.inRecord THEN [s EXCEPT !.scratch = Append(@, item)] ELSE s
    [] ~s.resyncing /\ item.type = "last" ->
         IF s.inRecord
         THEN [s EXCEPT !.out = Append(@, Append(s.scratch, item)),
                        !.scratch = <<>>, !.inRecord = FALSE]
         ELSE s
    [] item.type = "bad" ->
         [s EXCEPT !.scratch = <<>>, !.inRecord = FALSE, !.resyncing = FALSE]

\* ReadRecord until it returns false.
ReadFrom(f, initialOffset) ==
  FoldLeft(Step,
           [out |-> <<>>, scratch |-> <<>>, inRecord |-> FALSE, resyncing |-> initialOffset > 0],
           AllPhysical(f, initialOffset)).out

Recovered(f) == LET out == ReadFrom(f, 0) IN [k \in DOMAIN out |-> out[k][1].rec]

-----------------------------------------------------------------------------
\* The machine stops, or only the process: the disk has all that was synced and
\* some of the rest.  Recovery reads the log; with reuse_logs it goes on with it.
Crash ==
  /\ crashes < MaxCrashes
  /\ crashes' = crashes + 1
  /\ \E n \in durable .. Len(file) : file' = SubSeq(file, 1, n)
  /\ durable' = Len(file')
  /\ acknowledged' = Range(Recovered(file'))
  /\ IF ReuseLogs
     THEN blockOffset' = Len(file') % BlockSize /\ UNCHANGED next
     ELSE next' = MaxRecords /\ UNCHANGED blockOffset
  /\ UNCHANGED <<synced, failures, damages>>

Next ==
  \/ \E size \in Sizes, sync \in BOOLEAN : Write(size, sync)
  \/ \E size \in Sizes : WriteFails(size)
  \/ Damage
  \/ Crash

Spec == Init /\ [][Next]_vars

-----------------------------------------------------------------------------
(* Properties.                                                             *)

TypeOK ==
  /\ Range(file) \subseteq [rec : 0 .. MaxRecords, frag : Nat, len : Nat, at : Nat,
                            type : {"full", "first", "middle", "last", "zero", "damaged"}]
  /\ durable \in 0 .. Len(file) /\ blockOffset \in 0 .. BlockSize
  /\ next \in 0 .. MaxRecords
  /\ acknowledged \subseteq 1 .. MaxRecords /\ synced \subseteq 1 .. MaxRecords
  /\ failures \in 0 .. MaxFailures /\ damages \in 0 .. MaxDamage /\ crashes \in 0 .. MaxCrashes

Fresh == failures = 0 /\ damages = 0 /\ (ReuseLogs => crashes = 0)

\* Whatever was torn, dropped or damaged, a record that the reader returns is
\* one that was written, whole: fragments of two records are never glued, and
\* records come in the order they were written, none twice.
ReadsOnlyWritten ==
  LET out == ReadFrom(file, 0)
  IN  /\ \A k \in DOMAIN out :
           /\ \A j \in DOMAIN out[k] : out[k][j].rec = out[k][1].rec /\ out[k][j].frag = j
           /\ Last(out[k]).type \in {"full", "last"}
      /\ \A j, k \in DOMAIN out : j < k => out[j][1].rec < out[k][1].rec

\* As long as no write has failed, the reader returns the records in order up to
\* some point, all of them before a crash, and every synced one after it.
ReadsPrefix ==
  Fresh => LET records == Recovered(file)
           IN  /\ records = [k \in 1 .. Len(records) |-> k]
               /\ crashes = 0 => Range(records) = acknowledged
               /\ synced \subseteq Range(records)

\* "The Reader will start reading at the first record located at physical
\* position >= initial_offset" (log_reader.h), trailers and records that
\* cross blocks included.
InitialOffsetExact ==
  Fresh => \A offset \in 0 .. Len(file) :
             ReadFrom(file, offset) =
               SelectSeq(ReadFrom(file, 0), LAMBDA r : r[1].pos >= offset)

\* "A DB write with sync==true has similar crash semantics to a write() system
\* call followed by fsync()" (options.h): recovery finds what was synced.
SyncedSurvives == synced \subseteq Range(Recovered(file))
=============================================================================
