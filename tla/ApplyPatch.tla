----------------------------- MODULE ApplyPatch -----------------------------
(***************************************************************************)
(* The sequential applier of c/detools.c with the `none` patch reader, and *)
(* a host that uses it as c/examples/dump_restore does.  The host feeds    *)
(* the patch in chunks of any size (detools_apply_patch_process), may dump *)
(* the applier between two calls, may crash anywhere, and then restores    *)
(* the dump, truncates the to-file to the applier's to-offset and goes on  *)
(* from its patch offset.  What the host does with its files around these  *)
(* calls is in steps too: the dump is emptied before it is written, and    *)
(* after the end the dump is removed before the to-file is closed.  Every  *)
(* turn of the loop in a call                                              *)
(* (apply_patch_process_once) is an action, and so is every byte of a size *)
(* that may be split over chunks.                                          *)
(***************************************************************************)
EXTENDS PatchDecoder

CONSTANTS
    From,             \* the old image, a sequence of bytes
    Patches,          \* [bytes, to, good]: a patch file, whether it is whole and
                      \* well formed, and if so the image that it makes
    BufferSize,       \* sizeof(to) and sizeof(from)
    HeaderWhole,      \* the first chunk of a good patch holds the whole header
    Dumped,           \* the patches whose host dumps the applier and may crash
    FlushBeforeDump,  \* it makes the to-file durable before it does
    MaxChunk,         \* bound: bytes of a chunk that is not the rest of the patch,
                      \* which is all that a host hands over after an error
    MaxFaults         \* bound: crashes and callbacks that fail in a behaviour

ASSUME ApplyPatchAssumption ==
    /\ From \in Seq(Byte)
    /\ BufferSize \in Nat \ {0}
    /\ {HeaderWhole, FlushBeforeDump} \subseteq BOOLEAN
    /\ Dumped \subseteq Patches
    /\ MaxFaults \in Nat /\ MaxChunk \in Nat
    /\ \A p \in Patches : /\ p.bytes \in Seq(Byte) /\ p.to \in Seq(Byte)
                          /\ p.good \in BOOLEAN
                          /\ p.good <=> WellFormed(From, p.bytes)
                          /\ p.good => p.to = MadeFrom(From, p.bytes)

VARIABLES
    patch,      \* the patch file
    to_file,    \* the to-file, as far as it survives a crash
    to_buffer,  \* bytes written to the to-file that a crash may lose
    dumped,     \* the applier as dumped last, or NoDump
    crashes, failures,
    host,       \* what the host does: off; ready for a call, or told of an error;
                \* in process or finalize; writing a dump; at the end finalized,
                \* its dump removed, and complete or, should a close fail, lost
    self,       \* the applier
    chunk,      \* the chunk of the current call
    from_pos,   \* the position in the old image
    res         \* what the last turn of the loop returned

storage == <<patch, to_file, to_buffer, dumped>>
faults == <<crashes, failures>>
vars == <<storage, faults, host, self, chunk, from_pos, res>>

MinOf(a, b) == IF a <= b THEN a ELSE b

\* Mutant: the to-file is not truncated after a restore.
Untruncated(s, n) == s

\* ftruncate
Truncate(s, n) == [k \in 1 .. n |-> IF k <= Len(s) THEN s[k] ELSE 0]

NoDump == [state |-> "none"]

\* A dump whose file is emptied and not yet written.
TornDump == [state |-> "torn"]
NoChunk == [size |-> 0, offset |-> 0]
NoReader == [open |-> FALSE]

\* detools_apply_patch_init.  to_size and chunk_size are not set there; they
\* are not read before they are.
NewApplier ==
    [state |-> "init", init_state |-> "fixed_header", size |-> FirstSize,
     patch_offset |-> 0, to_offset |-> 0, to_size |-> 0, from_offset |-> 0,
     chunk_size |-> 0, reader |-> NoReader]

Init ==
    /\ patch \in Patches
    /\ to_file = <<>>
    /\ to_buffer = <<>>
    /\ dumped = NoDump
    /\ crashes = 0
    /\ failures = 0
    /\ host = "off"
    /\ self = NewApplier
    /\ chunk = NoChunk
    /\ from_pos = 0
    /\ res = "ok"

(***************************************************************************)
(* The chunk and the patch reader.                                         *)
(***************************************************************************)
ChunkLeft == chunk.size - chunk.offset
ChunkAvailable == ChunkLeft > 0

\* The k-th of the next bytes.
ChunkByte(k) == patch.bytes[self.patch_offset - ChunkLeft + k]

Consume(size) == chunk' = [chunk EXCEPT !.offset = @ + size]

\* patch_reader_none_decompress finds that the patch does not hold size bytes.
PatchEnds(size) == self.reader.patch_offset + size > self.reader.patch_size

Reader(patch_size) ==
    [open |-> TRUE, patch_size |-> patch_size, patch_offset |-> 0, size |-> FirstSize]

(***************************************************************************)
(* apply_patch_process_once.                                               *)
(***************************************************************************)

\* The loop of process or finalize makes a turn in state st; `byte` means that
\* the turn is still in the loop over the bytes of a size.
Turn(st) ==
    /\ self.state = st
    /\ \/ res = "byte"
       \/ host = "process" /\ res \in {"ok", "more"} /\ ChunkAvailable
       \/ host = "finalize" /\ res = "ok"

Return(applier, code) == self' = applier /\ res' = code

Failed(applier) == [applier EXCEPT !.state = "failed"]

IsError(code) == code \notin {"ok", "more", "byte"}

\* process_init_fixed_header
FixedHeader ==
    /\ Turn("init") /\ self.init_state = "fixed_header"
    /\ IF ~ChunkAvailable
       THEN Return(Failed(self), "SHORT_HEADER") /\ UNCHANGED chunk
       ELSE /\ Consume(1)
            /\ IF PatchType(ChunkByte(1)) # 0
               THEN Return(Failed(self), "BAD_PATCH_TYPE")
               ELSE Return([self EXCEPT !.init_state = "to_size",
                                        !.size = FirstSize], "ok")
    /\ UNCHANGED <<storage, faults, host, from_pos>>

\* process_init_to_size once the size is read: the reader is told what is left
\* of the patch behind the current chunk's offset.
AfterToSize(applier) ==
    [applier EXCEPT !.state = IF applier.to_size > 0 THEN "dfpatch_size" ELSE "done"]

\* The compression of the patch, the low bits of its first byte.
Compression == CompressionOf(patch.bytes[1])

\* process_init_to_size.  The sign bit of the size is ignored.
ToSize ==
    /\ Turn("init") /\ self.init_state = "to_size"
    /\ IF ~ChunkAvailable
       THEN Return(self, "more") /\ UNCHANGED chunk
       ELSE LET byte == ChunkByte(1)
                size == SizeAfter(self.size, byte)
                left == Len(patch.bytes) - chunk.offset - 1
            IN  /\ Consume(1)
                /\ IF Overflow(self.size)
                   THEN Return(Failed(self), "CORRUPT_PATCH_OVERFLOW")
                   ELSE IF More(byte)
                   THEN Return([self EXCEPT !.size = size], "byte")
                   ELSE IF Compression # 0
                   THEN Return(Failed(self), "BAD_COMPRESSION")
                   ELSE Return(AfterToSize([self EXCEPT !.to_size = size.value,
                                                        !.reader = Reader(left)]),
                               "ok")
    /\ UNCHANGED <<storage, faults, host, from_pos>>

\* process_dfpatch_size: data format patches are not implemented.
AfterDfpatchSize(applier, size) ==
    /\ IF size > 0 THEN Return(Failed(applier), "NOT_IMPLEMENTED")
       ELSE Return([applier EXCEPT !.state = "diff_size"], "ok")
    /\ UNCHANGED <<from_pos, failures>>

\* Mutant: the size is compared with the image, not with what is left of it.
Exceeds(applier, size) == size > applier.to_size

\* common_process_size.  In its unsigned sum a negative size that leads below 0 is
\* beyond every image; one that does not passes.
TooLarge(applier, size) == LeadsOut(applier.to_offset, size, applier.to_size)

\* process_size
AfterSize(applier, size, next_state) ==
    /\ IF TooLarge(applier, size) THEN Return(Failed(applier), "CORRUPT_PATCH")
       ELSE Return([applier EXCEPT !.state = next_state, !.chunk_size = size], "ok")
    /\ UNCHANGED <<from_pos, failures>>

\* The bytes process_data asks the patch reader for.  A negative chunk size is one of
\* more than any patch, which does not run out.
Wanted == IF self.chunk_size < 0 THEN BufferSize ELSE MinOf(BufferSize, self.chunk_size)

\* process_data at the end of a chunk, and when the reader has nothing to give.
DataEnd(st, next_state) ==
    /\ Turn(st)
    /\ \/ Wanted = 0 /\ Return([self EXCEPT !.state = next_state], "ok")
       \/ /\ Wanted > 0 /\ PatchEnds(Wanted)
          /\ Return(Failed(self), "CORRUPT_PATCH")
       \/ /\ Wanted > 0 /\ ~PatchEnds(Wanted) /\ ~ChunkAvailable
          /\ Return(self, "more")
    /\ UNCHANGED <<storage, faults, host, chunk, from_pos>>

\* Mutant: the bytes asked for are taken for delivered.
AllWanted == Wanted

\* chunk_read delivers what the chunk holds.
Delivered == MinOf(Wanted, ChunkLeft)

\* The applier after process_data took size bytes from the reader.
Taken(size) == [self EXCEPT !.reader.patch_offset = @ + size]
Written(applier, size) ==
    [applier EXCEPT !.to_offset = @ + size, !.chunk_size = @ - size]

\* A call into the C library fails.
Fails == crashes + failures < MaxFaults /\ failures' = failures + 1

\* to_write, which may fail and have written a part of the data.
Write(applier, data) ==
    \/ /\ to_buffer' = to_buffer \o data
       /\ Return(applier, "ok")
       /\ UNCHANGED failures
    \/ /\ Fails
       /\ \E n \in 0 .. Len(data) : to_buffer' = to_buffer \o SubSeq(data, 1, n)
       /\ Return(Failed(applier), "IO_FAILED")

Readable(st) == Turn(st) /\ Wanted > 0 /\ ~PatchEnds(Wanted) /\ ChunkAvailable

\* process_data for diff data, from_read included.
DiffData ==
    /\ Readable("diff_data")
    /\ LET size == Delivered
           sum == [k \in 1 .. size |-> (ChunkByte(k) + From[from_pos + k]) % 256]
           read == [Taken(size) EXCEPT !.from_offset = @ + size]
       IN  /\ Consume(size)
           /\ \/ /\ from_pos + size <= Len(From)
                 /\ from_pos' = from_pos + size
                 /\ Write(Written(read, size), sum)
              \/ /\ from_pos + size > Len(From) \/ crashes + failures < MaxFaults
                 /\ failures' = IF from_pos + size > Len(From) THEN failures
                                ELSE failures + 1
                 /\ Return(Failed(Taken(size)), "IO_FAILED")
                 /\ UNCHANGED <<from_pos, to_buffer>>
    /\ UNCHANGED <<patch, to_file, dumped, crashes, host>>

\* process_data for extra data.
ExtraData ==
    /\ Readable("extra_data")
    /\ LET size == Delivered
       IN  /\ Consume(size)
           /\ Write(Written(Taken(size), size), [k \in 1 .. size |-> ChunkByte(k)])
    /\ UNCHANGED <<patch, to_file, dumped, crashes, host, from_pos>>

DiffEnd == DataEnd("diff_data", "extra_size")
ExtraEnd == DataEnd("extra_data", "adjustment")

\* Mutant: the old position is moved in the file only.
UntrackedAdjustment(applier, offset) ==
    /\ from_pos + offset >= 0
    /\ from_pos' = from_pos + offset
    /\ Return([applier EXCEPT !.state = IF applier.to_offset = applier.to_size
                                        THEN "done" ELSE "diff_size"], "ok")
    /\ UNCHANGED failures

\* process_adjustment, from_seek included.
AfterAdjustment(applier, offset) ==
    \/ /\ from_pos + offset >= 0
       /\ from_pos' = from_pos + offset
       /\ Return([applier EXCEPT !.from_offset = @ + offset,
                                 !.state = IF applier.to_offset = applier.to_size
                                           THEN "done" ELSE "diff_size"], "ok")
       /\ UNCHANGED failures
    \/ /\ from_pos + offset < 0 \/ crashes + failures < MaxFaults
       /\ failures' = IF from_pos + offset < 0 THEN failures ELSE failures + 1
       /\ Return(Failed(applier), "IO_FAILED")
       /\ UNCHANGED from_pos

\* What the handler of a state does with the size it has unpacked.
AfterUnpack(applier, size) ==
    CASE applier.state = "dfpatch_size" -> AfterDfpatchSize(applier, size)
      [] applier.state = "diff_size" -> AfterSize(applier, size, "diff_data")
      [] applier.state = "extra_size" -> AfterSize(applier, size, "extra_data")
      [] applier.state = "adjustment" -> AfterAdjustment(applier, size)

\* patch_reader_unpack_size, and what its handler does.
UnpackSize(st) ==
    /\ Turn(st)
    /\ IF PatchEnds(1)
       THEN Return(Failed(self), "CORRUPT_PATCH") /\ UNCHANGED <<chunk, from_pos, failures>>
       ELSE IF ~ChunkAvailable
       THEN Return(self, "more") /\ UNCHANGED <<chunk, from_pos, failures>>
       ELSE LET byte == ChunkByte(1)
                size == SizeAfter(self.reader.size, byte)
                Read(next) == [self EXCEPT !.reader.patch_offset = @ + 1,
                                           !.reader.size = next]
            IN  /\ Consume(1)
                /\ IF Overflow(self.reader.size)
                   THEN /\ Return(Failed(Read(self.reader.size)), "CORRUPT_PATCH_OVERFLOW")
                        /\ UNCHANGED <<from_pos, failures>>
                   ELSE IF More(byte)
                   THEN Return(Read(size), "byte") /\ UNCHANGED <<from_pos, failures>>
                   ELSE AfterUnpack(Read(FirstSize), SizeValue(size))
    /\ UNCHANGED <<storage, crashes, host>>

DfpatchSize == UnpackSize("dfpatch_size")
DiffSize == UnpackSize("diff_size")
ExtraSize == UnpackSize("extra_size")
Adjustment == UnpackSize("adjustment")

\* Mutant: the loop of finalize is not told to stop.
EndlesslyDone ==
    /\ Turn("done")
    /\ Return(self, "ok")
    /\ UNCHANGED <<storage, faults, host, chunk, from_pos>>

AlreadyDone ==
    /\ Turn("done")
    /\ Return(self, "ALREADY_DONE")
    /\ UNCHANGED <<storage, faults, host, chunk, from_pos>>

\* Mutant: a failed applier forgets that it failed.
ForgottenFailure ==
    /\ Turn("failed")
    /\ Return([self EXCEPT !.state = "diff_size"], "ALREADY_FAILED")
    /\ UNCHANGED <<storage, faults, host, chunk, from_pos>>

AlreadyFailed ==
    /\ Turn("failed")
    /\ Return(self, "ALREADY_FAILED")
    /\ UNCHANGED <<storage, faults, host, chunk, from_pos>>

ProcessOnce ==
    \/ FixedHeader \/ ToSize \/ DfpatchSize \/ DiffSize \/ DiffData \/ DiffEnd
    \/ ExtraSize \/ ExtraData \/ ExtraEnd \/ Adjustment \/ AlreadyDone \/ AlreadyFailed

(***************************************************************************)
(* The calls of the host.                                                  *)
(***************************************************************************)

\* The applier is at work on a to-file of its own.
Attached == host \notin {"off", "complete", "lost"}

\* Mutant: the dumped position in the old image is not restored.
UnsoughtRestored ==
    IF dumped.state \in {"none", "init"} THEN NewApplier
    ELSE [dumped EXCEPT !.init_state = "fixed_header", !.size = FirstSize,
                        !.from_offset = 0]

\* The applier after detools_apply_patch_init and, with a dump,
\* detools_apply_patch_restore: a dump of the init state restores nothing else.
Restored ==
    IF dumped.state \in {"none", "init"} THEN NewApplier
    ELSE [dumped EXCEPT !.init_state = "fixed_header", !.size = FirstSize]

\* The host opens the files, restores the applier and truncates the to-file.
\* from_seek moves from the start of the old image.
Start ==
    /\ host = "off" /\ dumped.state # "torn"
    /\ host' = "ready"
    /\ self' = Restored
    /\ from_pos' = Restored.from_offset
    /\ to_file' = Truncate(to_file, Restored.to_offset)
    /\ UNCHANGED <<patch, to_buffer, dumped, faults, chunk, res>>

\* The dump is not whole, or state_read or from_seek fails: it is removed.
RestoreFails ==
    /\ host = "off" /\ dumped # NoDump
    /\ \/ dumped = TornDump /\ UNCHANGED failures
       \/ dumped # TornDump /\ Fails
    /\ dumped' = NoDump
    /\ UNCHANGED <<patch, to_file, to_buffer, crashes, host, self, chunk, from_pos, res>>

\* The bytes of the header: the first one, and the size up to its last byte.
HeaderSize ==
    LET ends == {k \in 2 .. Len(patch.bytes) : ~More(patch.bytes[k])}
    IN  IF ends = {} THEN Len(patch.bytes) ELSE CHOOSE k \in ends : \A j \in ends : k <= j

\* detools_apply_patch_process is called with the next bytes of the patch; the
\* host of the example only goes on when there is no error, and any host that
\* calls it again gets the error again.
Process ==
    /\ host \in {"ready", "error"}
    /\ \E size \in 1 .. Len(patch.bytes) - self.patch_offset :
          /\ HeaderWhole /\ patch.good => self.patch_offset + size >= HeaderSize
          /\ \/ self.patch_offset + size = Len(patch.bytes)
             \/ size <= MaxChunk /\ host = "ready"
          /\ self' = [self EXCEPT !.patch_offset = @ + size]
          /\ chunk' = [size |-> size, offset |-> 0]
    /\ host' = "process"
    /\ res' = "ok"
    /\ UNCHANGED <<storage, faults, from_pos>>

\* It returns, without error when more data is needed or none is.
ReturnProcess ==
    /\ host = "process"
    /\ IsError(res) \/ (res # "byte" /\ ~ChunkAvailable)
    /\ host' = IF IsError(res) /\ res # "ALREADY_DONE" THEN "error" ELSE "ready"
    /\ UNCHANGED <<storage, faults, self, chunk, from_pos, res>>

\* detools_apply_patch_finalize is called, at the end of the patch or earlier.
Finalize ==
    /\ host \in {"ready", "error"}
    /\ host' = "finalize"
    /\ chunk' = NoChunk
    /\ res' = "ok"
    /\ UNCHANGED <<storage, faults, self, from_pos>>

\* patch_reader_none_destroy: the whole patch has been read.
WholePatchRead ==
    self.reader.open => self.reader.patch_offset = self.reader.patch_size

\* The applier and the place in the files are gone, the process has ended.
LoseApplier ==
    /\ self' = NewApplier
    /\ chunk' = NoChunk
    /\ from_pos' = 0
    /\ res' = "ok"

\* The streams are flushed when the host ends.
Flush == to_file' = to_file \o to_buffer /\ to_buffer' = <<>>

\* Only some of the bytes in the buffer reach the to-file.
LoseTail ==
    /\ \E n \in 0 .. Len(to_buffer) : to_file' = to_file \o SubSeq(to_buffer, 1, n)
    /\ to_buffer' = <<>>

\* The host ends after an error, the example's one without its dump
\* (clean_and_exit).
EndWithError ==
    /\ host' = "off"
    /\ dumped' \in {dumped, NoDump}
    /\ Flush
    /\ LoseApplier

CleanAndExit ==
    /\ host = "error"
    /\ EndWithError
    /\ UNCHANGED <<patch, faults>>

\* apply_patch_common_finalize
FinalResult ==
    IF res = "more" THEN "NOT_ENOUGH_PATCH_DATA"
    ELSE IF res # "ALREADY_DONE" THEN res
    ELSE IF WholePatchRead THEN "success" ELSE "CORRUPT_PATCH"

\* It returns; after an error the host ends.
ReturnFinalize ==
    /\ host = "finalize" /\ res \notin {"ok", "byte"}
    /\ IF FinalResult = "success"
       THEN host' = "finalized" /\ UNCHANGED <<storage, self, chunk, from_pos, res>>
       ELSE EndWithError /\ UNCHANGED patch
    /\ UNCHANGED faults

\* After the success the dump is removed, the to-file still open.
RemoveState ==
    /\ host = "finalized"
    /\ host' = "removed"
    /\ dumped' = NoDump
    /\ UNCHANGED <<patch, to_file, to_buffer, faults, self, chunk, from_pos, res>>

\* The to-file is closed, at the end or after a dump; nobody looks at whether
\* that fails and loses what was in the buffer.
CloseFiles ==
    /\ \/ host = "removed"
       \/ host = "ready" /\ patch \in Dumped
    /\ \/ /\ Flush /\ UNCHANGED failures
          /\ host' = IF host = "removed" THEN "complete" ELSE "off"
       \/ /\ LoseTail /\ Fails
          /\ host' = IF host = "removed" THEN "lost" ELSE "off"
    /\ LoseApplier
    /\ UNCHANGED <<patch, dumped, crashes>>

\* Mutant: the applier forgets the byte of a size that it has read.
SizelessDump(applier) ==
    IF applier.reader.open THEN [applier EXCEPT !.reader.size = FirstSize] ELSE applier

\* What detools_apply_patch_dump writes, and restore reads: the whole object.
Image(applier) == applier

\* Mutant: the to-file is not flushed.
UnflushedState ==
    /\ patch \in Dumped /\ host = "ready"
    /\ host' = "dump"
    /\ dumped' = TornDump
    /\ UNCHANGED <<patch, to_file, to_buffer, faults, self, chunk, from_pos, res>>

\* The file of the dump is opened, and the last dump is gone.
OpenState ==
    /\ patch \in Dumped /\ host = "ready"
    /\ host' = "dump"
    /\ dumped' = TornDump
    /\ IF FlushBeforeDump THEN Flush ELSE UNCHANGED <<to_file, to_buffer>>
    /\ UNCHANGED <<patch, faults, self, chunk, from_pos, res>>

\* The dump is written and its file closed; nobody looks at whether that fails.
Dump ==
    /\ host = "dump"
    /\ host' = "ready"
    /\ \/ dumped' = Image(self) /\ UNCHANGED failures
       \/ Fails /\ UNCHANGED dumped
    /\ UNCHANGED <<patch, to_file, to_buffer, crashes, self, chunk, from_pos, res>>

\* state_write fails.
DumpFails ==
    /\ host = "dump"
    /\ Fails
    /\ EndWithError
    /\ UNCHANGED <<patch, crashes>>

\* Power is lost: of the bytes in the buffer the first few may have reached the
\* file.
Crash ==
    /\ patch \in Dumped /\ Attached /\ crashes + failures < MaxFaults
    /\ host' = "off"
    /\ LoseTail
    /\ LoseApplier
    /\ crashes' = crashes + 1
    /\ UNCHANGED <<patch, dumped, failures>>

\* The update is over.
Idle == host \in {"complete", "lost"} /\ UNCHANGED vars

Call == ProcessOnce \/ ReturnProcess \/ ReturnFinalize
Host ==
    \/ Start \/ RestoreFails \/ Process \/ Finalize \/ OpenState \/ Dump \/ DumpFails
    \/ RemoveState \/ CloseFiles \/ CleanAndExit
Next == Call \/ Crash \/ Host \/ Idle

Spec == Init /\ [][Next]_vars

\* A call goes on until it returns.
FairSpec == Spec /\ WF_vars(Call)

-----------------------------------------------------------------------------
Output == to_file \o to_buffer

TypeOK ==
    /\ patch \in Patches
    /\ Output \in Seq(Byte)
    /\ host \in {"off", "ready", "error", "process", "finalize", "dump", "finalized",
                "removed", "complete", "lost"}
    /\ self.state \in {"init", "dfpatch_size", "diff_size", "diff_data", "extra_size",
                       "extra_data", "adjustment", "done", "failed"}
    /\ self.patch_offset \in 0 .. Len(patch.bytes)
    /\ chunk.offset \in 0 .. chunk.size
    /\ from_pos \in Nat
    /\ self.reader.open => self.reader.patch_offset \in 0 .. Len(patch.bytes)

\* finalize succeeds only with a whole patch, however it was cut into chunks and
\* however often the host crashed and restored the applier (c/detools.h,
\* detools_apply_patch_finalize).  The new image has then been written, its end
\* perhaps to the stream only, and a host that comes to close the to-file without
\* an error has it there; one that crashes before that starts over.
SuccessIsComplete ==
    /\ host \in {"finalized", "removed"} => patch.good /\ Output = patch.to
    /\ host = "complete" => patch.good /\ to_file = patch.to

\* What the applier has written is the beginning of the new image, as long as
\* its to-offset says, also after a restore.
OutputIsPrefix ==
    Attached /\ patch.good /\ self.state # "failed" =>
        Output = SubSeq(patch.to, 1, self.to_offset)

\* The dump never runs ahead of the to-file: what was written before it survives
\* a crash ("Restore it later, possibly after a system reboot or program crash",
\* c/README.rst).
DumpIsDurable ==
    dumped.state \notin {"none", "torn", "init"} =>
        /\ dumped.to_offset <= Len(to_file)
        /\ patch.good => Truncate(to_file, dumped.to_offset)
                            = SubSeq(patch.to, 1, dumped.to_offset)

\* The position in the old image and the applier's record of it, which restore
\* seeks to, are the same.
FromInStep == Attached /\ self.state # "failed" => from_pos = self.from_offset

\* No record, of a damaged patch either, makes the applier write more than the
\* size in the header, unless it has a negative size: that one is refused only when
\* it leads below 0, and stands for more data than the patch holds.
OutputBounded ==
    self.state # "init" /\ self.chunk_size >= 0 => self.to_offset <= self.to_size

\* A patch its creator wrote is applied when all of it was processed and no
\* callback failed, whatever the chunks.
GoodPatchAccepted ==
    [][host = "finalize" /\ host' # "finalize" /\ crashes' = crashes /\ patch.good
       /\ failures = 0 /\ self.patch_offset = Len(patch.bytes)
          => host' = "finalized"]_vars

\* After an error nothing more is written until the applier is started again.
FailedIsFinal ==
    [][Attached /\ self.state = "failed" /\ host' \notin {"off", "complete", "lost"}
          => self'.state = "failed" /\ to_buffer' = to_buffer]_vars

\* Every call returns.
CallsReturn == host \in {"process", "finalize"} ~> host \notin {"process", "finalize"}
=============================================================================
