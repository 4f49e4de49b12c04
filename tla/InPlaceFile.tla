---------------------------- MODULE InPlaceFile ----------------------------
(***************************************************************************)
(* The in-place applier over a memory file, as                             *)
(* detools_apply_patch_in_place_filenames sets it up: mem_read and         *)
(* mem_write are fseek and fread or fwrite on a buffered stream, and       *)
(* step_set is the host's own, durable at once.  mem is what the applier   *)
(* reads back, disk what has left the stream's buffer.  fseek and fclose   *)
(* empty the buffer, which holds no more than one write; when the process  *)
(* dies, or the close fails, any part of it is lost.  Nothing is erased in *)
(* a file: Erased stands for whatever the cells hold.  Without a buffer    *)
(* every write is durable at once, and the memory may as well be the flash *)
(* memory of InPlace.                                                      *)
(***************************************************************************)
EXTENDS InPlaceProps

CONSTANT Losses  \* what may lose the buffer: a "crash" of the process, a "close"
                 \* of the memory file that fails

ASSUME LossesAssumption == Losses \subseteq {"crash", "close"}

VARIABLES
    disk,     \* what is in the file
    buffered  \* the memory is a file behind a buffered stream; if not, a
              \* flash memory, or a file whose stream is not buffered

fileVars == <<vars, disk, buffered>>

FileInit == Init /\ disk = mem /\ buffered \in BOOLEAN

\* The cells whose new value is still in the buffer.
Dirty == {a \in Addr : mem[a] # disk[a]}

\* Mutant: mem_write does not seek to where the last write ended.
SeeksToRead ==
    /\ ~StepCompleted
    /\ \/ state = "shift_copy" /\ offset < SegmentSize
       \/ state = "diff_data" /\ chunk_size > 0

\* The action calls mem_read or mem_write, which start with fseek.
Seeks ==
    /\ ~StepCompleted
    /\ \/ state = "shift_copy" /\ offset < SegmentSize
       \/ state \in {"diff_data", "extra_data"} /\ chunk_size > 0

\* What is in the file after an action: all that was written before its fseek.
Sync ==
    /\ disk' = IF ~buffered THEN mem' ELSE IF Seeks THEN mem ELSE disk
    /\ UNCHANGED buffered

\* The stream comes to its end: what is in its buffer reaches the file, or only
\* a part of it.  What the next attempt finds in the memory is the file.
EndStream(event) ==
    /\ \E reached \in SUBSET Dirty :
          /\ event \in Losses \/ reached = Dirty
          /\ mem' = [a \in Addr |-> IF a \in reached THEN mem[a] ELSE disk[a]]
    /\ disk' = mem'
    /\ UNCHANGED buffered

\* Finalize and in_place_file_io_cleanup, whose result is not looked at.
FileFinalize == EndAttempt /\ EndStream("close")

\* The process dies, between two actions.
BufferCrash ==
    /\ Running \/ state = "failed"
    /\ faults < MaxFaults
    /\ EndStream("crash")
    /\ faults' = faults + 1
    /\ LoseApplier
    /\ UNCHANGED <<step, applied, patch>>

FileNext ==
    \/ (Initialize \/ ProcessOnce \/ Fail \/ Idle) /\ Sync
    \/ FileFinalize
    \/ ~buffered /\ Crash /\ Sync
    \/ buffered /\ BufferCrash

FileSpec == FileInit /\ [][FileNext]_fileVars

\* The host goes on with the update, as in FairSpec.
FileFairSpec == FileSpec /\ WF_fileVars(FileNext /\ Update)

\* The file is as the table of steps says (docs/index.rst): for the stored step, or
\* for the one before it while the last write of the step is in the buffer.  So if
\* the buffer is lost, at most the step stored last is (c/detools.c:2612).
FileTable ==
    ~Updated =>
        \/ \A a \in Addr \ StepRange(step + 1) : disk[a] = IdealCell(step, a)
        \/ /\ step > 0
           /\ \A a \in Addr \ StepRange(step) : disk[a] = IdealCell(step - 1, a)
=============================================================================
