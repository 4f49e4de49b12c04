------------------------------- MODULE FileIo -------------------------------
(***************************************************************************)
(* detools_apply_patch_filenames and detools_apply_patch_in_place_filenames *)
(* over detools_apply_patch_callbacks: open the files, feed the patch to   *)
(* an applier chunk by chunk, finalize it and close the files.  Any call   *)
(* into the C library, and the applier, may fail.  The applier itself is   *)
(* the subject of ApplyPatch and InPlace: here it only writes, and returns *)
(* an error or not.                                                        *)
(***************************************************************************)
EXTENDS Integers, Sequences, FiniteSets

CONSTANTS
    Calls,       \* the calls, described below
    Chunks,      \* the number of chunks of 512 bytes in the patch
    MaxFailures  \* bound: failures in a call

\* A call has its files in the order they are opened, the patch last, the file
\* the applier writes to, the size of the new image, and whether fclose may fail
\* and lose what was written last.
Call == [files : Seq(STRING), written : STRING, to_size : Nat, close_may_fail : BOOLEAN]

ASSUME CallsAssumption ==
    /\ Calls \subseteq Call
    /\ \A c \in Calls :
          /\ \E k \in 1 .. Len(c.files) - 1 : c.files[k] = c.written
          /\ \A j, k \in 1 .. Len(c.files) : c.files[j] = c.files[k] => j = k
    /\ Chunks \in Nat \ {0}
    /\ MaxFailures \in Nat

VARIABLES
    call,      \* the call
    pc,        \* where the call is
    open,      \* the files that are open
    offset,    \* patch_offset, in chunks
    applier,   \* "none", "open", "failed" or "finalized"
    res,       \* the code to be returned: an error, or a size
    lost,      \* something the applier wrote has not reached its file
    closing,   \* files closed by file_io_cleanup, and whether one failed
    failures

vars == <<call, pc, open, offset, applier, res, lost, closing, failures>>

Name(k) == call.files[k]
Error == -1
NotClosing == [closed |-> 0, failed |-> FALSE]

Init ==
    /\ call \in Calls
    /\ pc = "open"
    /\ open = {}
    /\ offset = 0
    /\ applier = "none"
    /\ res = 0
    /\ lost = FALSE
    /\ closing = NotClosing
    /\ failures = 0

Ok == UNCHANGED failures
Fails == failures < MaxFailures /\ failures' = failures + 1

\* file_io_init: the next file is opened, or an error unwinds what is open.
Open ==
    /\ pc = "open" /\ Cardinality(open) < Len(call.files)
    /\ \/ Ok /\ open' = open \cup {Name(Cardinality(open) + 1)} /\ UNCHANGED <<pc, res>>
       \/ Fails /\ pc' = "unwind" /\ res' = Error /\ UNCHANGED open
    /\ UNCHANGED <<call, offset, applier, lost, closing>>

\* Its last step, file_size, then detools_apply_patch_init, which cannot fail.
FileSize ==
    /\ pc = "open" /\ Cardinality(open) = Len(call.files)
    /\ \/ Ok /\ pc' = "process" /\ applier' = "open" /\ UNCHANGED res
       \/ Fails /\ pc' = "unwind" /\ res' = Error /\ UNCHANGED applier
    /\ UNCHANGED <<open, call, offset, lost, closing>>

\* Mutant: the error labels do not fall through.
SingleUnwind ==
    /\ pc = "unwind"
    /\ IF open = {} THEN UNCHANGED open
       ELSE open' = open \ {Name(Cardinality(open))}
    /\ pc' = "returned"
    /\ UNCHANGED <<call, offset, applier, res, lost, closing, failures>>

\* The error labels of file_io_init: close what is open, the last one first.
Unwind ==
    /\ pc = "unwind"
    /\ IF open = {} THEN pc' = "returned" /\ UNCHANGED open
       ELSE open' = open \ {Name(Cardinality(open))} /\ UNCHANGED pc
    /\ UNCHANGED <<call, offset, applier, res, lost, closing, failures>>

\* A turn of the loop in callbacks_process: read a chunk, process it.
Process ==
    /\ pc = "process" /\ offset < Chunks /\ res = 0
    /\ \/ Ok /\ offset' = offset + 1 /\ UNCHANGED <<res, applier>>
       \/ Fails /\ res' = Error /\ UNCHANGED <<offset, applier>>  \* patch_read
       \/ Fails /\ res' = Error /\ offset' = offset + 1 /\ applier' = "failed"
    /\ UNCHANGED <<pc, open, call, lost, closing>>

\* Its end: finalize is called in any case, and an earlier error returned.
Finalize ==
    /\ pc = "process" /\ (offset = Chunks \/ res # 0)
    /\ pc' = "close"
    /\ applier' = "finalized"
    /\ \/ Ok /\ res' = IF res # 0 THEN res ELSE call.to_size
       \/ Fails /\ res' = Error
    /\ UNCHANGED <<open, call, offset, lost, closing>>

\* file_io_cleanup: every file is closed, whether or not another fclose failed.
Close ==
    /\ pc = "close" /\ closing.closed < Len(call.files)
    /\ LET file == Name(closing.closed + 1)
       IN  /\ open' = open \ {file}
           /\ \/ /\ Ok
                 /\ closing' = [closing EXCEPT !.closed = @ + 1]
                 /\ UNCHANGED lost
              \/ /\ call.close_may_fail /\ Fails
                 /\ closing' = [closed |-> closing.closed + 1, failed |-> TRUE]
                 /\ lost' = (lost \/ file = call.written)
    /\ UNCHANGED <<pc, call, offset, applier, res>>

\* Mutant: what fclose returned is never looked at.
UncheckedReturn ==
    /\ pc = "close" /\ closing.closed = Len(call.files)
    /\ pc' = "returned"
    /\ UNCHANGED <<open, call, offset, applier, res, lost, closing, failures>>

\* The result of the cleanup is returned only if the applier returned zero.
Return ==
    /\ pc = "close" /\ closing.closed = Len(call.files)
    /\ pc' = "returned"
    /\ res' = IF res = 0 /\ closing.failed THEN Error ELSE res
    /\ UNCHANGED <<open, call, offset, applier, lost, closing, failures>>

Returned == pc = "returned" /\ UNCHANGED vars

Next ==
    \/ Open \/ FileSize \/ Unwind \/ Process \/ Finalize \/ Close \/ Return
    \/ Returned

Spec == Init /\ [][Next]_vars

-----------------------------------------------------------------------------
\* On every path, when the call returns, every file that was opened is closed, and
\* an applier that was initialized is finalized, also after an error: its
\* decompressor is only released there.
Released ==
    pc = "returned" => open = {} /\ applier \in {"none", "finalized"}

\* "Size of to-data in bytes or negative error code": a size is only returned
\* when all of it is in the file.
SuccessIsWritten == pc = "returned" /\ res >= 0 => ~lost

\* An error of any call but fclose is returned.
ErrorReturned == pc = "returned" /\ failures > 0 => res < 0
=============================================================================
