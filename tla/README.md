# A verification of detools in TLA+

[detools](../src/README.rst) creates and applies binary patches. A patch turns an
old image (*from*) into a new one (*to*). It is typically created on a computer,
in Python and C, and applied on a small device, in C, where power may be lost at
any time and memory is short. This directory holds TLA+ models of the core of the
program, the configurations that check them with TLC, and proofs, checked with TLAPS,
about the in-place and the sequential applier in C and in Python, the patch readers, the
creator, the data format, the layout of in-place patches and the calls over files.

Run a check with `tlc -config <name>.cfg MC<module>.tla`, the proofs with
`tlapm` on the modules whose names end in `_proofs`. `PROJECT.json` lists the runs,
the mutants each property detects, the source lines behind each definition, the
hazards and the findings.

## The system

| part | source | state it keeps | operations |
|---|---|---|---|
| sequential applier | `c/detools.c` 222-276, 1001-1520 | state of the applier, size being unpacked, positions in both images and in the patch, patch reader | init, process (a chunk), finalize, dump, restore |
| in-place applier | `c/detools.c` 1520-2182 | state, segment, ongoing step; the memory and the stored step belong to the host | init, process, finalize; calls mem_read, mem_write, mem_erase, step_set, step_get |
| patch readers | `c/detools.c` 160-1000 | what is left of a segment, a token, a block | init, decompress, destroy, dump, restore |
| heatshrink decoder | `c/heatshrink/` | state, window, bits left of a byte | sink, poll, finish |
| file calls | `c/detools.c` 2187-2700 | open files, position in the patch | apply a patch to files, in place or not |
| dump_restore example | `c/examples/dump_restore` | `state.bin`, the to-file | one chunk per run |
| creator | `detools/create.py`, `bsdiff.c`, `suffix_array.c` | scan, last match, records, buffers held | create a sequential or an in-place patch |
| compressors and decompressors | `detools/compression/` | input, output, counters, flags | compress, flush, decompress, eof, needs_input |
| Python appliers | `detools/apply.py` | files, positions | apply a patch, in place or not |
| data formats | `detools/data_format/` | addresses of words, blocks of differences, images with zeros | disassemble, encode, create readers |
| information, command lines | `detools/info.py`, `detools/__init__.py`, `c/main.c` | none | print, dispatch |

How they interact. The creator scans both images and writes records: diff bytes to
be added to the old image, extra bytes, and an adjustment of the position in the
old image. It compresses them as one stream. An applier receives the patch in
chunks, a patch reader decompresses the stream and hands the applier as many bytes
as there are up to what it asks for, and the applier calls back into its host to
read the old image and write the new one. With a data format, the creator first puts
zeros in place of the words of both images that hold addresses, and lists how they
differ; the applier finds the same words in the old image and makes two readers, one
for the old image with the zeros and one for what is to be added to the result. The in-place applier has both images in
the same memory. An update in place is a sequence of steps. The host stores the
number of the last one, so that an interrupted update may start again.

What is hard, and what the properties are for:

* *Crashes.* A step of an in-place update erases and writes a segment and then
  stores its number; power may be lost in and between these calls. A dumped
  applier must not be ahead of the image it was writing.
* *Cutting.* A patch arrives in chunks cut anywhere, within a header, a size, a
  compressed segment or a token. A reader delivers less than is asked for. State
  is kept from call to call, and loops must end.
* *Overlap.* In place, the old image is moved over itself, and the new one is
  written over what is left of it. Creator and appliers work out separately where
  the old bytes are. In the scan of bsdiff, the end of one record and the beginning
  of the next claim the same bytes.
* *Two sides.* What a patch means is worked out twice: by the creator from both
  images, and by the applier from the old one and a header. Which words hold addresses,
  where the old bytes are, when the end is reached: both must come to the same.
* *Failures.* Any callback, any call of the C library and any allocation may fail.
  Files must be closed, appliers finalized, buffers released, errors returned.
* *Boundaries.* Partial segments, sizes of zero, buffers that do not divide a
  segment, an integer made of 7-bit groups, padding that looks like data.

What makes each part correct: an applier reports success only when the new image
is there and whole, and accepts every patch its creator writes; a reader returns
what was compressed and withholds nothing; the creator's records give the new
image; an interrupted update can be continued.

## Modules

`InPlace` models the in-place applier. `mem`, `step` and `applied` are what
survives a crash; the rest is `struct detools_apply_patch_in_place_t` and the locals
of `in_place_shift_memory`. Every state of the applier, and every call of
`mem_erase`, `mem_write` and `step_set`, is an action. `Crash` and `Fail` may tear
the call in flight: any of the cells it touches become garbage. A cell is a copy of
a cell of the old image, or of the new one, or erased, or garbage, so a diff byte
added to the wrong old cell gives garbage. A patch is the records of each segment,
with the positions at which its creator stood; `WellFormed` says what
`create_patch_in_place` guarantees of them, and `InPlacePython` is checked to
produce only such patches. `InPlaceProps` holds the properties and the inductive
invariant, and `ResumableUpdate` is the abstract specification: a table of steps
with the memory after each, in which an unfinished step may leave its own cells in
any state. Of the chunks that the header comes in, `header` remembers only whether one
ended inside it: the size of the patch data is then too big (`detools.c:1839`), and
destroy finds the patch unfinished. `HeaderWhole` is a host that does not do that.
`InPlaceFile` puts the memory behind a buffered stream, as
`detools_apply_patch_in_place_filenames` does: `mem` is what the applier reads back
and `disk` what has left the buffer. `buffered` says which of the two memories
there is. `Losses` says what may lose the buffer, a crash of the process or a failing
close of the file, whose result nobody looks at; in either event any part of the buffer
is lost, and the next attempt finds what is in the file.

`PatchFormat` is the sequential patch file, as bytes, and the image that records
stand for. `PatchDecoder` is the specification of the applier: a decoder that takes the
whole patch byte by byte, and makes the new image or goes wrong. Whether a patch is good
is what the decoder says of it. `ApplyPatch` is the sequential applier with the reader for uncompressed
patches, and the host of the dump_restore example around it. A turn of the loop in
`apply_patch_process_once` is an action, and so is every byte of a size. `res` is
what the last turn returned, with the code's values by name. The host may dump the
applier between any two chunks, and crash at any point. What it does with its files is
in steps of its own, in the order of `main.c`, so that crashes fall between them: the
file of the dump is emptied when it is opened (`OpenState`) and written later (`Dump`),
and after the end of finalize the dump is removed (`RemoveState`) before the to-file is
closed (`CloseFiles`). Writing, closing and restoring may fail. A dump that was emptied
and not written is torn (`TornDump`); restoring it fails, the dump is removed and the
update starts over.

`PatchReader` is the abstract patch reader: what the comment above
`patch_reader_decompress` promises the appliers, in six actions. `PatchReaders` is
the dispatch of `patch_reader_init` over the readers, each a module of its own that it
instantiates, and shows that every one of them implements `PatchReader`
(`KeepsContract`). What an abstract reader has delivered is what the finished calls of
a concrete one have returned, and the rest of the current chunk is what is fed and not
taken.

* `CrleFormat` is the format of conditional run length encoding, and `Crle` the
  compressor, fed in pieces. `CrleReader`, in C, reads it with chunks and calls of any size, and
  `CrleDecompressor`, in Python, with its `eof` and `needs_input` flags and the loop of
  `PatchReader` in `apply.py` around it.
* `Heatshrink` is the heatshrink reader and the decoder that it feeds a byte at a
  time. Every turn of the decoder's state machine is an action. The encoder is a
  library and modelled only by what a stream of tokens looks like.
* `Lzma` is the LZMA reader: its input buffer, its output buffer, the turns of the loop
  between them and the allocations that may fail. The decoder of liblzma is external
  and modelled by how far it gets with the input and the space it is given, so that
  it may hold back data after it has read all of its input.

`FileIo` is the life of a call with file names: open, measure, process, finalize,
close, with a failure of any of these. The applier is reduced to whether it failed.

`Bsdiff` is the scan in `bsdiff.c`: the binary search of the suffix array, the score
of the offset of the last record, and how the pieces between two matches are cut.
A search is one action, as it only reads. The suffix array is defined by what it
is, the order of the suffixes, and not by the library that sorts them. Around the
scan are the entry points of both extension modules, with the buffers of Python objects
that they hold and the list that grows; any of their calls may fail.

`DataFormat` is the data format arm-cortex-m4. `disassemble` walks an image and finds
branches, literals that are loaded and pointers, as the code does, overlaps included;
`EncodeKind` compares the words of one kind and puts zeros in their place; `Readers` is
what the applier makes of the old image and the patch. Words are exact: the fields of a
branch are taken apart and put together bit by bit, and 32 bits are two halves.
Which runs of equal distances the matcher of `difflib` returns is left open.

`SequentialPython` is a patch from end to end in Python: the creator's encoding,
sections of all kinds of sizes in place of the scan, and every read and write of
`apply_patch_sequential`. A patch may be cut, its header may say a wrong size, and the
old image may be shorter than the creator's.

`InPlacePython` is the layout in `create_patch_in_place` and the whole of
`apply_patch_in_place` for a patch that was created. The records of a segment are
any that the scan may return.

Each `MC` module has the small instances for the runs. In every module, operators
whose comment begins with "Mutant" are plausible mistakes, used to check that the
properties are able to fail.

## Runs

All runs but the last five of the table pass.

| run | what it shows | bounds |
|---|---|---|
| `InPlace` | An update interrupted twice, anywhere, implements the table of steps, programs only erased cells, and completes with the new image. A memory file is never behind by more than the last write of the step stored last. The inductive invariant of the proofs holds. | 3 segments of 3 cells, a shift of 1, images of 5, a buffer of 2: partial last segments and pieces, a shift over itself, 4 steps. Patches with diff only, extra only, and jumps both ways. Two faults, so that a resumed update is interrupted again. |
| `ApplyPatch` | Success means that the image is complete, and in the file once that is closed; a valid patch is accepted; a dump restores; a size that is not negative leads no damaged patch beyond the size in its header; calls return. | 5 valid patches with sizes of two bytes; every truncation and 10 other damages of one. Chunks of up to 5 bytes, or the rest. A buffer of 2. One crash or failing call, dumps and crashes for one of the patches, between any two of the host's steps. |
| `PatchReaders` | Every reader, in C and in Python, implements the abstract reader: what it delivers is the data that was compressed, in order, never nothing with success. Nothing is withheld, no good stream is found corrupt, and the end is found where it is. | CRLE: all inputs of up to 5 bytes over two values, and two of 131 and 132 bytes, whose sizes take two bytes; a minimum run of 3. Heatshrink: all streams of up to 3 of 5 tokens in a window of 16, one that wraps around the window, and streams with indexes and counts of two bytes. LZMA: all streams of up to 3 of 3 tokens, one of which stands for more than a call asks for, a damaged one, and one with bytes behind its end. Chunks and calls of up to 3 bytes. |
| `Bsdiff` | The records give the new image, end only for a better match, the search misses only what the end of the old image cuts off, the scan ends, and buffers are released whichever call fails. | All images of up to 4 and 5 bytes over two values, and up to 3 over three, and images in which a record and the match after it overlap, with a slack of 1. Images of blocks moved, repeated, changed, with the slack of the code. |
| `InPlacePython` | The Python applier makes the new image, the old bytes that a record refers to are still there when its segment begins, and the header is one that the C applier can use. | 3 segments of 2 cells, 4 of 1 and 2 of 3, a memory that is no number of segments, all sizes of images, minimum shifts of up to the memory, records of all sizes, at most 3 per segment, chunks of 2. |
| `SequentialPython` | The readers of the data format give the applier exactly what the creator encoded; what is written is the new image from its start at all times; the applier returns only when it is whole, and writes no more than was announced; a patch with nothing wrong is applied. | Old and new programs of 2 to 5 instructions, with branches, literals, words that overlap, two pointers to data or code, moved or not, and pairs of different programs; empty and odd-sized images. Blocks of one word and more (8 in the code), chunks of 3 bytes (4096), sections of 0, 3 or all bytes that start at 0 or 4. One fault: a cut, a size 3 less or 2 more, an old image 4 bytes shorter; a cut and a wrong size together. |
| `FileIo` | Whatever fails, files are closed, the applier is finalized and the error is returned. | 3 or 2 files, 4 chunks, 2 failures. |
| `ApplyPatchSplitHeader` | *Violated.* A valid patch is rejected when its first chunk ends within its header. | as `ApplyPatch`, without faults |
| `ApplyPatchUnflushed` | *Violated.* The example dumps the state while part of the image is still in a buffer. | one crash or failing close |
| `InPlaceFileCrash` | *Violated.* A stored step can name work that is lost with the buffer of the memory file. | one crash |
| `FileIoCloseFails` | *Violated.* The error of the last close is dropped when an image of some size was made. | one failure |
| `SequentialPythonHighPointers` | *Violated.* A patch with pointers of 2^31 and more is created but cannot be applied. | one program, no fault |

(The passing `ApplyPatch` run therefore gives a valid patch's header in one chunk
and has a host that makes the to-file durable before it dumps. The passing
`InPlace` run gives the header in one chunk too, and no event loses the buffer of the
memory file. The passing `FileIo` run lets a close fail only when the image has size zero.)

Why these bounds are enough. The in-place applier compares positions with the
ends of a piece, a segment, a record and an image; in the instance each of these
ends falls at a different place, and once at the same. The proofs cover all others.
A chunk that ends at any byte of a patch, followed by one that ends at any of the
next few, reaches every pair of a state of the applier or reader and an empty chunk.
A size of two bytes can be cut between them, which is the same code as for more.
In the scan of bsdiff a slack of 1 makes short images behave as longer ones do with 8,
and in the data format blocks of one word make programs of a few instructions behave as
long ones do. A chunk of 3 bytes ends within every word of a program of 4-byte words,
as one of 4096 does in a longer one. LZMA's tokens matter by what they take and what they
stand for: less, as much, or more than there is room for.

Fairness. `Completes` assumes that the host goes on with an update (weak fairness of
`Update`: it starts, feeds, finalizes), as the loops of `callbacks_process` and of
any host do, and does not assume that crashes or failures happen or stop; there are
finitely many in a behaviour. `CallsReturn` assumes only that a call which can go on
does, since a C function runs until it returns. `Ends` assumes the same of the
scan. No other property needs fairness.

Deadlock is checked except in `PatchReaders`, where a reader that is destroyed, or has
failed, stops. `SequentialPython` states no fairness: that an applier gets to an end
is its deadlock check (`Idle` is the only step of one that has ended) together with
`GenuineApplies`, which names the end a genuine patch must come to.

## Proofs

Every theorem is for all values of the constants, without the bounds of the runs.

### In-place applier (`InPlace_proofs`)

| theorem | property |
|---|---|
| `InductiveInvariant` | `Inductive` is invariant |
| `UpdateIsComplete` | an update that is done has made the new image (`ImageComplete`) |
| `InterruptedAnywhere` | the step table holds of the memory at any time (`StepTable`) |
| `TypeCorrect` | `TypeOK` |
| `ImplementsTableAlways` | the applier implements `ResumableUpdate` (`ImplementsTable`) |
| `WritesErasedAlways` | only erased cells are programmed (`WritesErased`) |
| `FileTableAlways` | a memory file is as the step table says for the stored step or the one before it (`FileTable`) |

Assumptions: `SizesAssumption` (the shift is at least a segment and at most the
memory, and the images fit), `PatchesAssumption` (patches are well formed, as
`InPlacePython` is checked to make them), `HasSteps` (the host has step callbacks; an
interrupted update cannot be continued without them), `~LateCrash` (see Findings),
`HeaderWhole` (without it an update that is done may be reported as corrupt and started
over on the new image, and TLC finds `Completes` violated), and for `FileTableAlways`
`Losses = {}` (once a buffer with the write of a stored step is lost, the update goes on
from a wrong image, as `InPlaceFileCrash` shows).

The argument. `StepTable` says that while step p is stored, every cell outside the
segment of step p + 1 is as the first p steps leave it. It is not inductive: it says
nothing of where the applier is. `Position` adds that the ongoing step, the segment
and the written size agree with the applier's state, and that the applier is never
past the first step that is not stored. `Cursor` adds that it stands in the old
image and in the segment where the creator stood when it wrote the current record.
`Progress` adds that, of the first step that is not stored, what has been written so
far is right. A step that is stored already is replayed without touching the memory,
so a restart reaches the step at which it was interrupted with `StepTable` intact,
and that step begins with an erase of its own segment, the only one that may hold
garbage. When it is stored, `Progress` for the whole segment is what `StepTable`
needs of the next step; that is shown from the geometry by the lemmas
`IdealShiftStep` and `IdealSegmentStep`, and that the old cells still needed are
elsewhere by `IdealShiftSource` and `IdealSource`. There is a lemma for each action,
and the theorem `InductiveNext` combines them.

The refinement follows from the same invariant. An action that does not store a step
changes only cells of the step in progress, because `StepTable` holds before and after
it and says what all the others are. An action that stores one comes when `Progress`
covers the whole segment, so that the memory is the one of the table. An update to an
empty image has no steps, and needs an invariant of its own (`Untouched`).
`WritesErased` needs another: what is still to be written of a step that is not
completed is erased (`ErasedAhead`). A step begins with the erase of all of its
segment, and every write takes cells from the front of what is ahead.

`FileTable` is about the moment at which step p is stored while its last write is in the
buffer of the stream. What is in the file is then right for step p - 1, and the write
must have left the buffer before step p + 1 is stored. It has, because step p + 1 writes
something, and seeks before it does: once it has begun to write (`Begun`), the file is
right for step p (`FileInv`). A replayed step neither writes nor seeks and leaves the
file as it is.

### Sequential applier (`ApplyPatch_proofs`)

For every old image, every set of patches, damaged in any way, and any number of dumps,
crashes and failures:

| theorem | property |
|---|---|
| `FromInStepAlways` | the position in the old image is the recorded one (`FromInStep`) |
| `FailedIsFinalAlways` | a failed applier writes nothing until it is started again (`FailedIsFinal`) |
| `CompliesAlways` | the applier is where the decoder of `PatchDecoder` is, and has written what it made |
| `TypeOKAlways` | no turn reads beyond its chunk or the patch (`TypeOK`) |
| `OutputBoundedAlways` | unless a record has a negative size, no more is written than the header allows (`OutputBounded`) |
| `OutputIsPrefixAlways` | of a good patch, what is written is the beginning of the new image (`OutputIsPrefix`) |
| `SuccessIsCompleteAlways` | success means a good patch and that the whole image was written, and a close without an error that it is in the file (`SuccessIsComplete`) |
| `DumpIsDurableAlways` | what a dump says is written survives a crash (`DumpIsDurable`) |
| `GoodPatchAcceptedAlways` | all of a good patch ends in success unless a callback failed (`GoodPatchAccepted`) |

`OutputIsPrefixAlways`, `SuccessIsCompleteAlways` and `DumpIsDurableAlways` assume
`FlushBeforeDump`, a host that makes the to-file durable before it dumps;
`GoodPatchAcceptedAlways` assumes `HeaderWhole`, a first chunk that holds the header.
`ApplyPatchUnflushed` and `ApplyPatchSplitHeader` refute them without.

The argument. The decoder takes the whole patch byte by byte, so that what it has made
after n bytes is a recursive function of n; whether a patch is good, and the image it
makes, are defined by it. The first lemmas show what the decoder does with a run of
data at once, that it stays wrong when it is, and that the new image only grows.
`Complies` then says that the applier is a decoder at `patch_offset`, in each of its
states (`Follows`), that a chunk and what is left of the current data fit together
(`DataFits`), and the same of what was dumped (`DumpFits`), so that a restore leads back
to a decoder. A block of data is the induction step: the applier handles as much as fits
in its buffer, and the decoder that many bytes. `GoodPatchAccepted` needs more
(`Accepting`): what the applier has recorded as the size of the patch data is what the
patch has, and the host has fed it everything up to where it stands. `FailedIsFinal`
needs that the host cannot have a failed applier in hand without knowing of the error,
since a dump would flush the to-file: in a call, a failed applier has returned an error
or has a chunk left, over which it will (`FailureSeen`).

### Creator (`Bsdiff_proofs`)

For all images over bytes and every slack:

| theorem | property |
|---|---|
| `SuffixArraySorts` | the array that the model defines holds every suffix once, in strict order |
| `SearchFindsAlways` | the search finds a longest match, or one that the end of the old image cuts off (`SearchFinds`) |
| `ChunksMakeImageAlways` | the records so far make the new image so far (`ChunksMakeImage`) |
| `ReturnsWholeAlways` | the returned records make all of it (`ReturnsWhole`) |
| `ScoreIsExactAlways` | the running score counts the bytes that the last offset gives (`ScoreIsExact`) |
| `CutsForGainAlways` | a record ends only for a match that gains more than the slack (`CutsForGain`) |
| `BuffersReleasedAlways` | buffers are released whichever call fails (`BuffersReleased`) |

The argument. The array ranks each suffix by how many precede it, so a strict order of
finite length makes it a permutation. The binary search keeps the places where the image
sorts between its two ends, by induction over their distance, and the suffix next to the
place has the longest match. `Positions` ties the scan, the last match and the records
together: nothing is read outside of the images, and the two extensions of a record do
not cross. `Makes` says that the records make the image up to `last_scan`; a step adds
one record to the induction. `Score` says that the score is a signed count: of the
bytes from the scan to where it has been counted, or less those that are passed when
the scan is ahead. `Held` has the buffers and the list at each failing call.

### In-place patches (`InPlacePython_proofs`)

`HeaderFitsInPlaceAlways`, `MemoryIsImageAlways` and `OldIsThereAlways` prove the three
properties of `InPlacePython` for every request that is not refused, all sizes, and all
records the creator may choose. They assume `ShiftPossible` (the minimum shift, or twice
a segment if none is given, is at least a segment and at most the memory), which the
creator does not check and the hazards at `create.py:245` and `create.py:287` are about.
The argument for the header counts sizes in segments: the shift is a number of segments,
so is the rest of the memory, and what is no longer than a number of segments does not
round up beyond it. That the image is made rests on one line between two areas: behind it
the memory holds the new image (`NewBehind`), ahead of it the old one, shifted
(`OldAhead`); it is at the end of the segment being made, and the creator lets no record
refer to what is behind it.

### Python applier and data format (`SequentialPython_proofs`)

| theorem | property |
|---|---|
| `OutputBoundedAlways` | no more is written than was announced (`OutputBounded`) |
| `ReturnsOnlyWholeAlways` | the applier returns only with the whole image (`ReturnsOnlyWhole`) |
| `ReadersConvertAlways` | the readers of the data format undo what the creator encoded (`ReadersConvert`) |
| `OutputIsImageAlways` | what is written is the new image from its start (`OutputIsImage`) |
| `GenuineAppliesAlways` | a genuine patch is applied (`GenuineApplies`) |

for every pair of images, every cut into sections and chunks, every fault, and whatever
runs of gaps the matcher chooses. The last three assume `Convertible`: if a data format
is used, the segments that the creator is given are as long in the file as their
addresses say (`SegmentsFit`), and no segment of the new image ends above 2^31
(`PointersLow`). The code checks neither; `SequentialPythonHighPointers` refutes
`ReadersConvert` without the second. The run `SequentialPython` evaluates both for its
programs.

The argument for the applier: a section always fits in what is left of the announced size
and of the new image (`Reached`), and the applier stands in the old image where the
creator stood when it made the data (`Faithful`), so that what is added gives back the
byte of the new image. `Accepting` says that a genuine patch has met no error.

The argument for the data format has three parts. The words: both sides disassemble the
old image, the creator with the segment it is given and the applier with what the headers
say, and a disassembly depends on no more of a segment than which places are inside it
and between which addresses the data and the code are (`Alike`), turn by turn
(`DisassembleAlike`). A word is noted only where its bits are those of its kind
(`TurnNotes`), which is why it is packed as it was unpacked (`PackBw`, `PackBl`,
`WordRestored`): every bit of a branch is accounted for. The blocks: `Encoding` relates
the blocks made so far to the entries they stand for, each of which takes a word of the
old image to a word of the new one of the same kind with the difference of their values
(`GoodEntry`), and says that both images have zeros at just these words; it holds after
each kind (`EncodeKindEncodes`), because equal gaps lead from the first address of a run
to all others (`EqualGaps`). The readers: the entries are written one after the other over
zeros, and after each of them what is written is the new image wherever some word has
been written and zero elsewhere (`DiffingRestores`). Words that overlap do no harm, in
whatever order they are written, since each is the word of the new image in its place.

### Patch readers (`PatchReaders_proofs`)

For all inputs over bytes, all heatshrink and LZMA streams that `StreamsAssumption`
describes, every cut into chunks, and calls that ask for any number of bytes:

| theorem | property |
|---|---|
| `KeepsContractAlways` | every reader, in C and in Python, implements `PatchReader` (`KeepsContract`) |
| `LosslessAlways` | the segments of CRLE stand for what the compressor was given (`Lossless`) |
| `NothingWithheldAlways` | a reader that asks for more has delivered what it has read (`NothingWithheld`) |
| `ErrorIsDeservedAlways` | no good stream is found corrupt (`ErrorIsDeserved`) |
| `FinishIsExactAlways` | destroy finds the end exactly where it is (`FinishIsExact`) |
| `EofIsEndAlways` | `eof` in Python is the end of the data (`EofIsEnd`) |

`ErrorIsDeservedAlways` assumes `InputsFit`, that each input is shorter than 2^28 bytes:
`unpack_usize` (`detools.c:600`) takes four groups of 7 bits and finds a fifth one
corrupt, while the creator writes sizes of any length. The others hold without it. Of LZMA
they assume that a stream ends with its end marker, which is what `FORMAT_ALONE` in
`create.py:50` writes: without it liblzma cannot know that the data is over. The bytes of
damaged streams are anything, and an error may come at any allocation.

The argument. `IInv` is the invariant of the reader that is selected, and `ReaderMoves`
says of a step that it is one of `PatchReader`'s, or none, on what has been delivered and
what is left of the chunk. Each format has its own part, in which a position in the stream
is tied to a position in the data:

* CRLE. `Cuts` maps the bytes of the stream at which a segment ends to how much of the
  data the segments so far stand for; `CompressorInv` says that there is such a map for
  what the compressor has written, up to what it still holds (`HeldBack`), so that the
  forward recursion of `Decoded` gives the data back (`LosslessFollows`). A size is read
  from its lowest group on by the C reader and from its highest by the format
  (`UsizeAt`), and both are the same number. `CrleAt` places the C reader at the end of a
  segment, within its size, or within its data; a run that is read already needs no more
  of the chunk. `PyHolds` places the Python reader: what is read and not decompressed,
  decompressed and not returned, collected in the current call, and returned lie one
  behind the other in the stream and in the data. `eof` and "Early end" follow.
* Heatshrink. `HsHolds` says which token the decoder is in, how many of its bits it
  has used (`HsOn`), that `output_index` and `output_count` are the fields read so far,
  and that the window holds the last bytes delivered, and zeros before the first
  (`HsWindow`); there is a lemma for each turn, and `HsPoll` combines them. A copy reads
  the ring of the window byte by byte and agrees with the specification `Expand` even
  where it reaches into itself (`HsCopied`). A decoder whose next turn lacks bits has
  yielded every token it has read the bits of, and holds less than a byte of input
  (`HsDrained`); one that stopped for space in the middle of a token has not
  (`HsPending`). That the padding never makes a token, and that destroy is exact, are
  these two.
* LZMA. `LzAt` says that the input buffer holds just the bytes from `read` to what was
  taken, and that the output buffer holds the data from what was delivered to `written`;
  what the decoder has read reaches into no token that it had no space to begin, and what
  it has written comes from tokens that it has read whole (`LzPos`). `LzTurn` and
  `LzEnds` add what is known at each turn of the loop: that too little has been
  decompressed, and that the end marker is read when the data is complete.

### Files (`FileIo_proofs`)

For every list of files, number of chunks and number of failures:

| theorem | property |
|---|---|
| `ReleasedAlways` | when a call returns, its files are closed and its applier is finalized (`Released`) |
| `ErrorReturnedAlways` | a call in which anything failed returns an error (`ErrorReturned`) |
| `SuccessIsWrittenAlways` | a call that succeeds has lost nothing (`SuccessIsWritten`, which `FileIoCloseFails` refutes in general) |

The last two assume `CloseFailuresSeen`: fclose fails only in calls whose new image is
empty, since the code discards the result of the others. The argument: the files that
are open are a prefix of the list while files are opened or unwound and a suffix of it
while they are closed (`FilesInOrder`), so that both loops end with none; and a failure
is remembered, from when it happens to the return, in `res` or in what the cleanup
returns (`Reported`).

### Foundations

`Foundations` has the facts that the other proof modules rest on and that no state
enters:

* recursion, stated with sets and functions, as the theorems of the library that take an
  operator cannot be used: a set of numbers that holds 0 and is closed under successor
  holds them all (`InductionOnNat`, from the well-foundedness of the numbers), a function
  defined by recursion is the one its definition says (`RecursionUpTo`), and the same for
  a function that passes its result on (`TailRecursion`);
* sequences, powers of two and remainders;
* the CRLE format: a size is read back as it was packed (`SizeIsRead`), and what the
  segments up to a cut stand for (`Cuts`);
* a ring of bytes as a window on the end of the data (`HsWindow`), a copy out of it
  (`HsCopied`), and the records of the heatshrink and LZMA decoders.

### Only model-checked

* `Completes`, `CallsReturn` and `Ends`: liveness under fairness.
* The expected violations: each is a counterexample that TLC finds.

Every other property of a passing run is a theorem.

## Findings

`PROJECT.json` has the quotations. In short: the size of the patch data is computed
from the offset in the current chunk only, so a split header makes finalize fail
(`detools.c:1130`; in place `detools.c:1839`, where a finished update has its step set to
0 and is then reported as corrupt: with `HeaderWhole` FALSE TLC finds `Completes`
violated, with no interruption at all); the dump_restore example dumps the state before the image is
durable; in-place files are not flushed before a step is stored; the result of
closing the files is dropped on success (`detools.c:2513`, and in place 2673); and pointers are read
unsigned and written signed (`arm_cortex_m4.py:144`), so that a patch for a program at
2^31 and more cannot be applied.

Some observations have no run. The last step is stored as step 0, the same as no step:
a crash between that and the host's own record that the update is complete starts it
over on the new image. The model takes the two as one unless `LateCrash` is TRUE, in
which case TLC finds `ImageComplete` violated. The dump_restore example removes its dump
(`main.c:364`) and prints its success (`main.c:365`) before it closes the to-file
(`main.c:376`), so that a crash or a failing close between them leaves a short to-file
that was said to be whole, and no dump; `SuccessIsComplete` therefore says of the file
only what holds once it is closed, and `OutputIsPrefix` that the update made after a
crash is right. It also empties the last dump (`main.c:301`) before it writes the next, so
that a crash between the two loses both, and the update starts over. A heatshrink reader dumped before its
header byte is restored with a decoder that was never initialised. `m_add_bytes` keeps
its two buffers when their lengths differ, and `create` in `suffix_array.c` returns NULL
without an exception when the sort fails. `patch_reader_restore` copies the pointers
of an LZMA reader before it says that it is not implemented. With a minimum shift of
0 the creator can write a shift of 0, which the C applier cannot use; the runs and the
theorems exclude it. One more costs
only size: the scan may take a match without ending the record although the offset of
the record gives less of it than the match, because the score counts bytes beyond a
shorter match.

## Not modelled

* Compressed patches within `ApplyPatch`: the readers are checked to implement
  `PatchReader`, the interface that `ApplyPatch` has with the uncompressed reader.
* The decoder of liblzma, the heatshrink encoder, the suffix sort, the matcher of
  `difflib` and the C library are external.
* The data formats aarch64 and xtensa-lx106, which follow the scheme of
  arm-cortex-m4 with other instructions, and the reading of ELF files. The packing of
  blocks into bytes is taken for exact.
* hdiffpatch and the applier of bsdiff's own format; the decompressors of other
  libraries; information and command lines; the in_place example.
* The Python in-place applier for damaged patches and short files, with a data format.
* The C in-place applier without step callbacks and with damaged patches: its checks of
  sizes are there, but no patch of the model fails one, and a patch with a data format,
  which it refuses, is not among them.
* CRLE streams that no creator writes: a segment of no bytes, over which the C reader
  returns nothing and no error (`detools.c:698`), is left out.
* Requests for an in-place patch with a minimum shift below a segment (`create.py:245`),
  and executables whose segments are longer or shorter in the file than their addresses
  say: `ShiftPossible` and `SegmentsFit` exclude them.
* Sizes that overflow `size_t`, and sizes below zero in a damaged patch beyond those in
  the run: addresses and sizes are integers. `OutputBounded` says nothing of a record
  with a negative size that `common_process_size` lets pass.

## Plan

The core came first: the in-place applier with its steps and crashes, then the
sequential applier, the readers, the creator; then LZMA and the contract of all
readers, the entry points of the extension modules, the data format and the Python
sequential applier; then the proofs, module by module, the readers last.

What is left is to model: `ApplyPatch` over an abstract `PatchReader` in place of the
uncompressed reader, and with it the two proofs joined; the width of `size_t`; the
in-place applier without steps and with damaged patches; the in-place applier in Python
with a data format.
