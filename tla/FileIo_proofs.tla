---------------------------- MODULE FileIo_proofs ----------------------------
(***************************************************************************)
(* Proofs about the calls over files: for any number of files, chunks and  *)
(* failures, everything is released when a call returns, and a call in     *)
(* which anything failed returns an error, if a failing fclose is reported *)
(* at all.                                                                 *)
(*                                                                         *)
(* The argument.  The files that are open are always a prefix of the list  *)
(* of files while they are opened and unwound, and a suffix of it while    *)
(* they are closed (FilesInOrder); the loops end when it is empty.  For    *)
(* the second part, Reported says where a failure is remembered: in res,   *)
(* or, once the files are being closed, in what the cleanup returns.       *)
(***************************************************************************)
EXTENDS FileIo, FiniteSetTheorems, TLAPS

First(n) == {Name(k) : k \in 1 .. n}
From(n) == {Name(k) : k \in n + 1 .. Len(call.files)}

Typed ==
    /\ call \in Calls
    /\ pc \in {"open", "unwind", "process", "close", "returned"}
    /\ offset \in 0 .. Chunks
    /\ res \in Int
    /\ failures \in Nat
    /\ closing \in [closed : Nat, failed : BOOLEAN]
    /\ lost \in BOOLEAN

FilesInOrder ==
    /\ pc \in {"open", "unwind"} =>
          applier = "none" /\ \E n \in 0 .. Len(call.files) : open = First(n)
    /\ pc \in {"open", "unwind", "process"} => closing = NotClosing
    /\ pc = "process" => open = From(0)
    /\ pc = "close" =>
          /\ applier = "finalized"
          /\ closing.closed <= Len(call.files)
          /\ open = From(closing.closed)
    /\ pc = "returned" => open = {} /\ applier \in {"none", "finalized"}

Reported ==
    /\ pc = "open" => res = 0 /\ failures = 0
    /\ pc = "unwind" => res = Error
    /\ pc = "process" => res \in {0, Error} /\ (failures > 0 => res = Error)
    /\ pc \in {"open", "unwind", "process"} => ~ closing.failed
    /\ pc = "close" =>
          /\ res \in {call.to_size, Error}
          /\ failures > 0 => res = Error \/ closing.failed
          /\ closing.failed => call.close_may_fail
    /\ pc = "returned" /\ failures > 0 => res < 0
    /\ lost => failures > 0

\* The assumption about the calls, for the call that is made.
LEMMA CallFacts ==
    ASSUME call \in Calls
    PROVE  /\ call.files \in Seq(STRING)
           /\ Len(call.files) \in Nat
           /\ call.to_size \in Nat
           /\ call.close_may_fail \in BOOLEAN
           /\ \A j, k \in 1 .. Len(call.files) : Name(j) = Name(k) => j = k
<1>1. call \in Call
  BY CallsAssumption
<1>2. /\ call.files \in Seq(STRING) /\ call.to_size \in Nat
      /\ call.close_may_fail \in BOOLEAN
  BY <1>1 DEF Call
<1>3. \A j, k \in 1 .. Len(call.files) : Name(j) = Name(k) => j = k
  BY CallsAssumption DEF Name
<1> QED BY <1>2, <1>3

\* There are as many files in First(n) as its number says, since no file is named twice.
LEMMA FirstCardinality ==
    ASSUME call \in Calls, NEW n \in 0 .. Len(call.files)
    PROVE  Cardinality(First(n)) = n
<1>1. n \in Nat /\ \A j, k \in 1 .. n : Name(j) = Name(k) => j = k
  BY CallFacts
<1> DEFINE f == [k \in 1 .. n |-> Name(k)]
<1>2. f \in Bijection(1 .. n, First(n))
  BY <1>1 DEF First, Bijection, Injection, Surjection, IsInjective
<1>3. ExistsBijection(1 .. n, First(n))
  BY <1>2 DEF ExistsBijection
<1> QED BY <1>1, <1>3, FS_CountingElements

\* Opening a file, and closing the one opened last, keep the open ones a prefix; the
\* prefix that is empty is that of no files.
LEMMA FirstSteps ==
    ASSUME call \in Calls, NEW n \in 0 .. Len(call.files)
    PROVE  /\ n < Len(call.files) => First(n) \cup {Name(n + 1)} = First(n + 1)
           /\ n > 0 => First(n) \ {Name(n)} = First(n - 1)
           /\ n = Len(call.files) => First(n) = From(0)
<1>1. /\ n \in Nat /\ Len(call.files) \in Nat
      /\ \A j, k \in 1 .. Len(call.files) : Name(j) = Name(k) => j = k
  BY CallFacts
<1>2. n < Len(call.files) => First(n) \cup {Name(n + 1)} = First(n + 1)
  <2>1. 1 .. n + 1 = (1 .. n) \cup {n + 1}
    BY <1>1
  <2> QED BY <2>1 DEF First
<1>3. n > 0 => First(n) \ {Name(n)} = First(n - 1)
  <2> SUFFICES ASSUME n > 0 PROVE First(n) \ {Name(n)} = First(n - 1)
    OBVIOUS
  <2>1. \A k \in 1 .. n : k \in 1 .. n - 1 <=> Name(k) # Name(n)
    BY <1>1
  <2>2. 1 .. n - 1 \subseteq 1 .. n
    BY <1>1
  <2> QED BY <2>1, <2>2 DEF First
<1>4. n = Len(call.files) => First(n) = From(0)
  BY DEF First, From
<1> QED BY <1>2, <1>3, <1>4

\* Closing the next file keeps the open ones a suffix, which is empty at the end.
LEMMA FromSteps ==
    ASSUME call \in Calls, NEW n \in 0 .. Len(call.files)
    PROVE  /\ n < Len(call.files) => From(n) \ {Name(n + 1)} = From(n + 1)
           /\ n = Len(call.files) => From(n) = {}
<1>1. /\ n \in Nat /\ Len(call.files) \in Nat
      /\ \A j, k \in 1 .. Len(call.files) : Name(j) = Name(k) => j = k
  BY CallFacts
<1>2. ASSUME n < Len(call.files) PROVE From(n) \ {Name(n + 1)} = From(n + 1)
  <2>1. \A k \in n + 1 .. Len(call.files) :
            k \in (n + 1) + 1 .. Len(call.files) <=> Name(k) # Name(n + 1)
    BY <1>1, <1>2
  <2>2. (n + 1) + 1 .. Len(call.files) \subseteq n + 1 .. Len(call.files)
    BY <1>1
  <2> QED BY <2>1, <2>2 DEF From
<1>3. n = Len(call.files) => From(n) = {}
  BY <1>1 DEF From
<1> QED BY <1>2, <1>3

-----------------------------------------------------------------------------
(* Released *)

\* The first state is typed, and no file is open.
LEMMA InitInOrder == Init => Typed /\ FilesInOrder
<1> SUFFICES ASSUME Init PROVE Typed /\ FilesInOrder
  OBVIOUS
<1>1. Typed
  <2>1. offset \in 0 .. Chunks /\ res \in Int /\ failures \in Nat
    BY CallsAssumption DEF Init
  <2>2. closing \in [closed : Nat, failed : BOOLEAN] /\ lost \in BOOLEAN
    BY DEF Init, NotClosing
  <2> QED BY <2>1, <2>2 DEF Init, Typed
<1>2. First(0) = {}
  BY DEF First
<1>3. 0 \in 0 .. Len(call.files)
  BY CallFacts DEF Init
<1> QED BY <1>1, <1>2, <1>3 DEF Init, FilesInOrder

\* Every step keeps the types.
LEMMA TypedStep == Typed /\ [Next]_vars => Typed'
<1> SUFFICES ASSUME Typed, [Next]_vars PROVE Typed'
  OBVIOUS
<1> USE DEF Typed
<1>1. call' = call /\ call.to_size \in Int
  BY CallFacts DEF Next, Open, FileSize, Unwind, Process, Finalize, Close, Return,
                   Returned, vars
<1>2. failures' \in Nat
  BY DEF Next, Open, FileSize, Unwind, Process, Finalize, Close, Return, Returned, vars,
         Ok, Fails
<1>3. res' \in Int
  BY <1>1 DEF Next, Open, FileSize, Unwind, Process, Finalize, Close, Return, Returned,
              vars, Error
<1>4. offset' \in 0 .. Chunks
  BY CallsAssumption DEF Next, Open, FileSize, Unwind, Process, Finalize, Close, Return,
                         Returned, vars
<1>5. pc' \in {"open", "unwind", "process", "close", "returned"}
  BY DEF Next, Open, FileSize, Unwind, Process, Finalize, Close, Return, Returned, vars
<1>6. closing' \in [closed : Nat, failed : BOOLEAN] /\ lost' \in BOOLEAN
  <2>1. CASE Close
    <3>1. closing' = [closing EXCEPT !.closed = @ + 1]
            \/ closing' = [closed |-> closing.closed + 1, failed |-> TRUE]
      BY <2>1 DEF Close
    <3>2. lost' = lost \/ lost' = (lost \/ Name(closing.closed + 1) = call.written)
      BY <2>1 DEF Close
    <3>3. closing' \in [closed : Nat, failed : BOOLEAN]
      <4>1. closing \in [closed : Nat, failed : BOOLEAN] /\ closing.closed + 1 \in Nat
        OBVIOUS
      <4>2. [closing EXCEPT !.closed = @ + 1] \in [closed : Nat, failed : BOOLEAN]
        BY <4>1
      <4>3. [closed |-> closing.closed + 1, failed |-> TRUE]
                \in [closed : Nat, failed : BOOLEAN]
        BY <4>1
      <4> QED BY <3>1, <4>2, <4>3, Zenon
    <3>4. lost' \in BOOLEAN
      BY <3>2, Zenon
    <3> QED BY <3>3, <3>4
  <2>2. CASE ~ Close
    <3>1. closing' = closing /\ lost' = lost
      BY <2>2 DEF Next, Open, FileSize, Unwind, Process, Finalize, Return, Returned, vars
    <3> QED BY <3>1
  <2> QED BY <2>1, <2>2
<1> QED BY <1>1, <1>2, <1>3, <1>4, <1>5, <1>6

\* Every step keeps the open files in order: one case for every action.
LEMMA FilesInOrderStep == Typed /\ FilesInOrder /\ [Next]_vars => FilesInOrder'
<1> SUFFICES ASSUME Typed, FilesInOrder, [Next]_vars PROVE FilesInOrder'
  OBVIOUS
<1>0. /\ call' = call
      /\ call \in Calls /\ Len(call.files) \in Nat
      /\ \A k : First(k)' = First(k) /\ From(k)' = From(k)
  <2>1. call' = call
    BY DEF Next, Open, FileSize, Unwind, Process, Finalize, Close, Return, Returned, vars
  <2> QED BY <2>1, CallFacts DEF Typed, First, From, Name
<1>1. ASSUME pc \in {"open", "unwind"}
      PROVE  \E n \in 0 .. Len(call.files) : open = First(n) /\ Cardinality(open) = n
  BY <1>0, <1>1, FirstCardinality DEF FilesInOrder
<1>2. CASE Open
  <2>1. PICK n \in 0 .. Len(call.files) : open = First(n) /\ Cardinality(open) = n
    BY <1>1, <1>2 DEF Open
  <2>2. n < Len(call.files) /\ n + 1 \in 0 .. Len(call.files)
    BY <1>0, <1>2, <2>1 DEF Open
  <2>3. open' = First(n + 1) \/ open' = First(n)
    BY <1>0, <1>2, <2>1, <2>2, FirstSteps DEF Open
  <2> QED BY <1>0, <1>2, <2>2, <2>3 DEF Open, FilesInOrder
<1>3. CASE FileSize
  <2>1. open = From(0)
    BY <1>0, <1>1, <1>3, FirstSteps DEF FileSize
  <2> QED BY <1>0, <1>3, <2>1 DEF FileSize, FilesInOrder
<1>4. CASE Unwind
  <2>1. CASE open = {}
    BY <1>0, <1>4, <2>1 DEF Unwind, FilesInOrder
  <2>2. CASE open # {}
    <3>1. PICK n \in 0 .. Len(call.files) : open = First(n) /\ Cardinality(open) = n
      BY <1>1, <1>4 DEF Unwind
    <3>2. n > 0
      BY <2>2, <3>1 DEF First
    <3>3. First(n) \ {Name(n)} = First(n - 1) /\ n - 1 \in 0 .. Len(call.files)
      BY <1>0, <3>1, <3>2, FirstSteps
    <3>4. open' = First(n - 1)
      BY <1>4, <2>2, <3>1, <3>3 DEF Unwind
    <3> QED BY <1>0, <1>4, <2>2, <3>3, <3>4 DEF Unwind, FilesInOrder
  <2> QED BY <2>1, <2>2
<1>5. CASE Process
  BY <1>0, <1>5 DEF Process, FilesInOrder
<1>6. CASE Finalize
  BY <1>0, <1>6 DEF Finalize, FilesInOrder, NotClosing
<1>7. CASE Close
  <2> DEFINE c == closing.closed
  <2>1. c \in 0 .. Len(call.files) /\ c < Len(call.files)
    BY <1>0, <1>7 DEF Close, FilesInOrder, Typed
  <2>2. open' = From(c + 1)
    BY <1>0, <1>7, <2>1, FromSteps DEF Close, FilesInOrder
  <2>3. closing'.closed = c + 1
    BY <1>7 DEF Close, Typed
  <2> QED BY <1>0, <1>7, <2>1, <2>2, <2>3 DEF Close, FilesInOrder
<1>8. CASE Return
  <2>1. open = {}
    BY <1>0, <1>8, FromSteps DEF Return, FilesInOrder, Typed
  <2> QED BY <1>0, <1>8, <2>1 DEF Return, FilesInOrder
<1>9. CASE Returned \/ UNCHANGED vars
  BY <1>0, <1>9 DEF Returned, vars, FilesInOrder
<1> QED BY <1>2, <1>3, <1>4, <1>5, <1>6, <1>7, <1>8, <1>9 DEF Next

\* Whatever files a call opens, and whatever fails, every file is closed and the applier
\* is finalized when it returns (file_io_init, file_io_cleanup, callbacks_process).
THEOREM ReleasedAlways == Spec => []Released
<1>1. Init => Typed /\ FilesInOrder
  BY InitInOrder
<1>2. Typed /\ FilesInOrder /\ [Next]_vars => (Typed /\ FilesInOrder)'
  BY TypedStep, FilesInOrderStep
<1>3. FilesInOrder => Released
  BY DEF FilesInOrder, Released
<1> QED BY <1>1, <1>2, <1>3, PTL DEF Spec

-----------------------------------------------------------------------------
(* ErrorReturned and SuccessIsWritten *)

\* fclose can fail only where its failure is returned: after an image of size zero.
CloseFailuresSeen == \A c \in Calls : c.close_may_fail => c.to_size = 0

\* Every step keeps the failures reported: one case for every action.
LEMMA ReportedStep ==
    ASSUME CloseFailuresSeen
    PROVE  Typed /\ Reported /\ [Next]_vars => Reported'
<1> SUFFICES ASSUME Typed, Reported, [Next]_vars PROVE Reported'
  OBVIOUS
<1>0. /\ call' = call /\ call.to_size \in Nat
      /\ call.close_may_fail => call.to_size = 0
  BY CallFacts DEF CloseFailuresSeen, Typed, Next, Open, FileSize, Unwind, Process,
                   Finalize, Close, Return, Returned, vars
<1> USE DEF Ok, Fails, Error
<1>1. CASE Open
  BY <1>0, <1>1 DEF Open, Reported, Typed
<1>2. CASE FileSize
  BY <1>0, <1>2 DEF FileSize, Reported, Typed
<1>3. CASE Unwind
  BY <1>0, <1>3 DEF Unwind, Reported, Typed
<1>4. CASE Process
  BY <1>0, <1>4 DEF Process, Reported, Typed
<1>5. CASE Finalize
  BY <1>0, <1>5 DEF Finalize, Reported, Typed
<1>6. CASE Close
  BY <1>0, <1>6 DEF Close, Reported, Typed
<1>7. CASE Return
  BY <1>0, <1>7 DEF Return, Reported, Typed
<1>8. CASE Returned \/ UNCHANGED vars
  BY <1>0, <1>8 DEF Returned, vars, Reported
<1> QED BY <1>1, <1>2, <1>3, <1>4, <1>5, <1>6, <1>7, <1>8 DEF Next

\* Where a failing fclose is seen, failures are reported at all times.
LEMMA ReportedAlways ==
    ASSUME CloseFailuresSeen
    PROVE  Spec => [](Typed /\ Reported)
<1>1. Init => Typed /\ Reported
  BY InitInOrder DEF Init, Reported, NotClosing
<1>2. Typed /\ Reported /\ [Next]_vars => (Typed /\ Reported)'
  BY TypedStep, ReportedStep
<1> QED BY <1>1, <1>2, PTL DEF Spec

\* If fclose fails only where that is seen, a call in which anything failed returns an
\* error (file_io_cleanup and the res that is handed from one function to the next).
THEOREM ErrorReturnedAlways ==
    ASSUME CloseFailuresSeen
    PROVE  Spec => []ErrorReturned
<1>1. Reported => ErrorReturned
  BY DEF Reported, ErrorReturned
<1> QED BY <1>1, ReportedAlways, PTL

\* Under the same condition a size is only returned when what was written is in the file:
\* the failure of fclose with an image that is not empty, which FileIoCloseFails shows,
\* is the only way to lose it.
THEOREM SuccessIsWrittenAlways ==
    ASSUME CloseFailuresSeen
    PROVE  Spec => []SuccessIsWritten
<1>1. Typed /\ Reported => SuccessIsWritten
  BY DEF Typed, Reported, SuccessIsWritten
<1> QED BY <1>1, ReportedAlways, PTL
=============================================================================
