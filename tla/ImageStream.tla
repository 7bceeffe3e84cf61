------------------------------ MODULE ImageStream ------------------------------
(***************************************************************************)
(* Writing a map one band of rows at a time: ImageStreamWriter and its two *)
(* kinds, PngStream and ExrStream (src/src/imageio/src/stream.cpp), against *)
(* the writers that take the whole image (png.cpp, exr.cpp).  They are     *)
(* separate encoders of one file.                                          *)
(*                                                                         *)
(* Abstracted: a byte is the sample it encodes, <<row, column, component>>, *)
(* and a row of an EXR block is its samples.  A checksum is what it was    *)
(* taken over.  The file is the pieces written to it; its constant bytes   *)
(* are left out.  A write may fail, and with it the stream.                *)
(***************************************************************************)
EXTENDS Integers, Sequences, SequencesExt

CONSTANTS
    Widths, Heights, Channels,  \* the images asked for, unusable ones too
    kMaxBlock,                  \* the longest stored block
    LengthLimit                 \* what a chunk's length field holds

StreamAssumption ==
    Widths \cup Heights \cup Channels \subseteq Nat /\ kMaxBlock \in Nat \ {0}
    /\ LengthLimit \in Nat

VARIABLES
    image,              \* what open() was asked for
    file,               \* the pieces on the disk, or NoFile
    state,              \* of the writer: "none", "open", or "refused"
    ok, finished, rowsWritten,
    pending,            \* PNG: bytes not emitted yet
    adler, crc,         \* PNG: what they were taken over so far
    call,               \* the call that runs: its rows, and how many are done
    returned            \* what the last call returned

writerVars == <<ok, finished, rowsWritten, pending, adler, crc>>
vars == <<image, file, state, writerVars, call, returned>>

NoFile == <<"no file">>
Torn == "torn"
NoCall == [op |-> "none", count |-> 0, done |-> 0]

Images == [format : {"png", "exr"}, width : Widths, height : Heights, channels : Channels]

Init ==
    /\ image \in Images /\ file = NoFile /\ state = "none"
    /\ ok = FALSE /\ finished = FALSE /\ rowsWritten = 0
    /\ pending = <<>> /\ adler = <<>> /\ crc = <<>>
    /\ call = NoCall /\ returned = TRUE

-----------------------------------------------------------------------------
(* The two formats *)

fileChannels == IF image.channels = 1 THEN 3 ELSE image.channels
RowBytes == image.width * fileChannels + 1

\* One filtered row: a grey sample is written to all three channels.
RawRow(y) ==
    LET source(k) == IF image.channels = 1 THEN 0 ELSE k % fileChannels
    IN  <<"filter">> \o [k \in 1 .. RowBytes - 1 |->
                            <<y, (k - 1) \div fileChannels, source(k - 1)>>]
Raw(rows) == FlattenSeq([y \in 1 .. rows |-> RawRow(y - 1)])

zlibStoredSize(raw) ==
    LET blocks == IF raw = 0 THEN 1 ELSE (raw + kMaxBlock - 1) \div kMaxBlock
    IN  2 + blocks * 5 + raw + 4

Prologue(size) == [idat |-> size]
Block(bytes, final) == [stored |-> bytes, final |-> final]
Checks(summed, covered) == [adler |-> summed, crc |-> covered]

\* exrChannelLayout(): the components in the order of their names.
Layout == CASE image.channels = 1 -> <<0>>
            [] image.channels = 3 -> <<2, 1, 0>>
            [] image.channels = 4 -> <<3, 2, 1, 0>>
\* The sizes in bytes: the scanlines and their offsets from the first.
BlockStride == 8 + image.channels * image.width * 4
ExrTable == [offsets |-> [y \in 1 .. image.height |-> (y - 1) * BlockStride]]
ExrRow(label, y) ==
    [y |-> label, samples |-> [k \in 1 .. image.width * image.channels |->
        <<y, (k - 1) % image.width, Layout[1 + (k - 1) \div image.width]>>]]

\* savePng(): a grey image is made an RGB one first.
Saved(y, x, c) == <<y, x, IF image.channels = 1 THEN 0 ELSE c>>
Scanlines ==
    FlattenSeq([y \in 1 .. image.height |->
        <<"filter">> \o [k \in 1 .. image.width * fileChannels |->
            Saved(y - 1, (k - 1) \div fileChannels, (k - 1) % fileChannels)]])

\* zlibStored(): at least one block, each as long as it may be.
zlibStored(raw) ==
    LET blocks == CHOOSE n \in 1 .. Len(raw) + 1 :
                     n * kMaxBlock >= Len(raw) /\ (n > 1 => (n - 1) * kMaxBlock < Len(raw))
        upto(b) == IF b < blocks THEN b * kMaxBlock ELSE Len(raw)
    IN  [b \in 1 .. blocks |->
            Block(SubSeq(raw, (b - 1) * kMaxBlock + 1, upto(b)), b = blocks)]

\* writePng() and writeChunk(): the length of what was encoded before it.
OneShotPng ==
    LET blocks == zlibStored(Scanlines)
        stored == FlattenSeq([b \in DOMAIN blocks |-> blocks[b].stored])
    IN  <<Prologue(2 + 5 * Len(blocks) + Len(stored) + 4)>> \o blocks
        \o <<Checks(Scanlines, blocks)>>

OneShotExr == <<ExrTable>> \o [y \in 1 .. image.height |-> ExrRow(y - 1, y - 1)]

\* saveImage() of the same pixels.
OneShot == IF image.format = "png" THEN OneShotPng ELSE OneShotExr

-----------------------------------------------------------------------------
(* ImageStreamWriter::open *)

Usable == image.width > 0 /\ image.height > 0 /\ image.channels \in {1, 3, 4}
Fits == image.format = "png" => zlibStoredSize(RowBytes * image.height) <= LengthLimit

Refuse ==
    /\ state = "none" /\ ~(Usable /\ Fits)
    /\ state' = "refused" /\ returned' = FALSE
    /\ UNCHANGED <<image, file, writerVars, call>>

\* The file cannot be opened, or its beginning not be written.
OpenFails ==
    /\ state = "none" /\ Usable /\ Fits
    /\ file' \in {NoFile, <<>>}
    /\ state' = "refused" /\ returned' = FALSE
    /\ UNCHANGED <<image, writerVars, call>>

Open ==
    /\ state = "none" /\ Usable /\ Fits
    /\ file' = <<IF image.format = "png" THEN Prologue(zlibStoredSize(RowBytes * image.height))
                 ELSE ExrTable>>
    /\ state' = "open" /\ ok' = TRUE /\ returned' = TRUE
    /\ UNCHANGED <<image, finished, rowsWritten, pending, adler, crc, call>>

-----------------------------------------------------------------------------
(* writeRows *)

Return(result) == call' = NoCall /\ returned' = result

fail ==
    /\ ok' = FALSE /\ Return(FALSE)
    /\ UNCHANGED <<image, file, state, finished, rowsWritten, pending, adler, crc>>

FinishRefused == ~ok \/ finished \/ rowsWritten # image.height

\* Mutant: the rows already written are not counted.
RowsRefusedAtHeight(n) == ~ok \/ finished \/ n < 0 \/ n > image.height

RowsRefused(n) == ~ok \/ finished \/ n < 0 \/ n > image.height - rowsWritten

\* Rows past the image are handed in as well.
writeRows(n) ==
    /\ state = "open" /\ call = NoCall
    /\ IF RowsRefused(n) THEN fail
       ELSE /\ call' = [op |-> "writeRows", count |-> n, done |-> 0]
            /\ UNCHANGED <<image, file, state, writerVars, returned>>

\* Mutant: a block goes as soon as it is full.
BlockDueWhenFull == Len(pending) >= kMaxBlock

\* Whether a block's worth is held back: strictly more than one, so that the last
\* block is left for finish().
BlockDue == Len(pending) > kMaxBlock

Writing(format) == call.op = "writeRows" /\ image.format = format

appendRow ==
    /\ Writing("png") /\ ~BlockDue /\ call.done < call.count
    /\ LET row == RawRow(rowsWritten + call.done)
       IN  pending' = pending \o row /\ adler' = adler \o row
    /\ call' = [call EXCEPT !.done = @ + 1]
    /\ UNCHANGED <<image, file, state, ok, finished, rowsWritten, crc, returned>>

Emit(size, final) ==
    LET block == Block(SubSeq(pending, 1, size), final)
    IN  /\ file' = Append(file, block) /\ crc' = Append(crc, block)
        /\ pending' = SubSeq(pending, size + 1, Len(pending))

emitBlock ==
    /\ Writing("png") /\ BlockDue /\ Emit(kMaxBlock, FALSE)
    /\ UNCHANGED <<image, state, ok, finished, rowsWritten, adler, call, returned>>

\* Mutant: the label counts from the beginning of the band.
LabelInBand == call.done

Label == rowsWritten + call.done

writeScanline ==
    /\ Writing("exr") /\ call.done < call.count
    /\ file' = Append(file, ExrRow(Label, rowsWritten + call.done))
    /\ call' = [call EXCEPT !.done = @ + 1]
    /\ UNCHANGED <<image, state, writerVars, returned>>

rowsDone ==
    /\ call.op = "writeRows" /\ call.done = call.count /\ ~BlockDue
    /\ rowsWritten' = rowsWritten + call.count
    /\ Return(TRUE)
    /\ UNCHANGED <<image, file, state, ok, finished, pending, adler, crc>>

-----------------------------------------------------------------------------
(* finish *)

finish ==
    /\ state = "open" /\ call = NoCall
    /\ IF FinishRefused THEN fail
       ELSE /\ finished' = TRUE
            /\ call' = [op |-> IF image.format = "png" THEN "lastBlock" ELSE "close",
                        count |-> 0, done |-> 0]
            /\ UNCHANGED <<image, file, state, ok, rowsWritten, pending, adler, crc, returned>>

emitLastBlock ==
    /\ call.op = "lastBlock" /\ Emit(Len(pending), TRUE)
    /\ call' = [call EXCEPT !.op = "close"]
    /\ UNCHANGED <<image, state, ok, finished, rowsWritten, adler, returned>>

\* The tail, and close(), which flushes.
close ==
    /\ call.op = "close" /\ Return(TRUE)
    /\ file' = IF image.format = "png" THEN Append(file, Checks(adler, crc)) ELSE file
    /\ UNCHANGED <<image, state, writerVars>>

\* A block, a scanline, or the tail cannot be written, or only some of it.  What is
\* held back is of no use then.
writeFails ==
    /\ \/ Writing("png") /\ BlockDue
       \/ Writing("exr") /\ call.done < call.count
       \/ call.op \in {"lastBlock", "close"}
    /\ ok' = FALSE /\ Return(FALSE)
    /\ file' \in {file, Append(file, Torn)}
    /\ UNCHANGED <<image, state, finished, rowsWritten, pending, adler, crc>>

Next ==
    \/ Refuse \/ OpenFails \/ Open
    \/ \E h \in Heights : \E n \in {-1, 0, h, h + 1} : writeRows(n)
    \/ appendRow \/ emitBlock \/ writeScanline \/ rowsDone
    \/ finish \/ emitLastBlock \/ close \/ writeFails

Spec == Init /\ [][Next]_vars

-----------------------------------------------------------------------------
(* Properties *)

TypeOK ==
    /\ image \in Images /\ state \in {"none", "open", "refused"}
    /\ ok \in BOOLEAN /\ finished \in BOOLEAN /\ returned \in BOOLEAN
    /\ rowsWritten \in 0 .. image.height
    /\ call.op \in {"none", "writeRows", "lastBlock", "close"}
    /\ call.done \in 0 .. call.count /\ call.count \in Nat

Complete == state = "open" /\ ok /\ finished /\ call = NoCall

\* "The file is BYTE-IDENTICAL to the one-shot writer's for the same pixels,
\* whatever the band sizes" (stream.hpp), the length that was announced before a
\* row was seen included.
CompleteIsOneShot == Complete => file = OneShot

\* Nothing is lost or written twice between bands: the blocks in the file and the
\* bytes held back are the rows so far, and what is held back stays small.
NothingLost ==
    state = "open" /\ ok /\ ~finished /\ image.format = "png" =>
        LET rows == rowsWritten + call.done
            stored == FlattenSeq([b \in DOMAIN crc |-> crc[b].stored])
        IN  /\ stored \o pending = Raw(rows) /\ adler = Raw(rows)
            /\ SubSeq(file, 2, Len(file)) = crc
            /\ Len(pending) <= kMaxBlock + RowBytes
            /\ call = NoCall => Len(pending) <= kMaxBlock

\* A writer that failed once, was handed too many rows or finished with too few
\* says so in that call and ever after, and what cannot be written leaves no file.
FailureIsTold ==
    /\ state = "open" /\ call = NoCall /\ returned => ok
    /\ finished => rowsWritten = image.height
    /\ ~(Usable /\ Fits) => file = NoFile

BandsAsWhole == TypeOK /\ CompleteIsOneShot /\ NothingLost /\ FailureIsTold
=============================================================================
