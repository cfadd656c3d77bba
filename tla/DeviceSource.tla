---------------------------- MODULE DeviceSource ----------------------------
(***************************************************************************)
(* gr::iio::device_source_impl: an IIO capture buffer shared by three      *)
(* threads.                                                                *)
(*                                                                         *)
(*   block thread   the GNU Radio scheduler's thread of this block: it     *)
(*                  calls start(), then work() repeatedly, then stop();    *)
(*   refill thread  refill_thread(), created by start(), joined by stop(); *)
(*   application    may call set_buffer_size() from any other thread.      *)
(*                                                                         *)
(* iio_mutex protects the handshake variables.  A critical section is one  *)
(* step, because no other thread can observe its inside; whatever the code *)
(* does without the mutex (the iio_buffer_refill call, iio_buffer_cancel,  *)
(* the join, the destruction of the buffer) is a step of its own.          *)
(* A thread asleep on a condition variable is in the state "wait" and      *)
(* leaves it only when it is notified ("woken"), when its timeout expires, *)
(* when it is interrupted, or spuriously.                                  *)
(***************************************************************************)
EXTENDS Integers

CONSTANTS
  Buffers,          \* the iio_buffer handles libiio can hand out
  NoBuffer,         \* the NULL buffer pointer
  Sizes,            \* buffer sizes, in samples, the application may ask for
  MaxOutput,        \* bound: largest noutput_items the scheduler offers
  Decimation,       \* the decimation constructor argument
  SampleBytes,      \* size of the channel's samples; work() assumes a short
  EmptyRefills,     \* can a refill return without a whole sample?
  Timeouts,         \* can a refill outlast the timeout of work()?
  SpuriousWakeups,  \* can a condition variable wake up without a notify?
  Resizes           \* set_buffer_size() is called: "stopped" (only while the
                    \* block is stopped) or "any" (at any time)

ASSUME SourceAssumption ==
  /\ NoBuffer \notin Buffers
  /\ Sizes \subseteq Nat \ {0} /\ Sizes # {}
  /\ MaxOutput \in Nat \ {0}
  /\ Decimation \in Nat
  /\ SampleBytes \in Nat \ {0}
  /\ EmptyRefills \in BOOLEAN
  /\ Timeouts \in BOOLEAN
  /\ SpuriousWakeups \in BOOLEAN
  /\ Resizes \in {"stopped", "any"}

VARIABLES
  items_in_buffer,      \* samples of the last refill not yet delivered
  byte_offset,          \* position of the next one, in buffer steps
  please_refill_buffer, \* a refill is requested
  thread_stopped,       \* the refill thread has ended
  buf,                  \* current buffer or NoBuffer
  buffer_size,          \* configured size
  refill_buf,           \* the buffer the refill thread passed to libiio
  ret,                  \* what iio_buffer_refill returned
  noutput_items,        \* argument of the work() call in progress
  out,                  \* outcome of the last work() call
  posted,               \* a "done" message waits in the block's system port
  live,                 \* libiio: buffers created and not destroyed
  cancelled,            \* libiio: live buffers that were cancelled
  filled,               \* libiio: samples the last refill of a buffer stored,
                        \* or Unfilled
  block_pc,             \* where the block thread is
  refill_pc             \* where the refill thread is

handshake == <<items_in_buffer, byte_offset, please_refill_buffer, thread_stopped>>
library == <<live, cancelled, filled>>
vars == <<handshake, buf, buffer_size, refill_buf, ret, noutput_items, out,
          posted, library, block_pc, refill_pc>>

InWork == {"wait", "woken", "timedout"}
Running == InWork \cup {"idle", "parked"}
BlockStates == Running \cup {"stopped", "stop", "cancelled", "join", "destroyed"}
RefillStates == {"none", "start", "wait", "woken", "refill", "return"}

Eof == -1     \* work() returns -1: GNU Radio ends the block
Ebadf == -9   \* result of a refill of a cancelled buffer
Eio == -5     \* any other failure of a refill

Unfilled == -1   \* a new buffer, before its first refill

(* What a work() call returned, the position of the first sample it read,  *)
(* how many it stored, and the length in its "buffer_start" tag.           *)
Outcomes == [ret : Nat \cup {Eof}, first : Nat, written : Nat, tag : Nat]
Nothing(r) == [ret |-> r, first |-> 0, written |-> 0, tag |-> 0]

TypeOK ==
  /\ items_in_buffer \in Nat
  /\ byte_offset \in Nat
  /\ please_refill_buffer \in BOOLEAN
  /\ thread_stopped \in BOOLEAN
  /\ buf \in Buffers \cup {NoBuffer}
  /\ buffer_size \in Sizes
  /\ refill_buf \in Buffers \cup {NoBuffer}
  /\ ret \in Nat \cup {Ebadf, Eio}
  /\ noutput_items \in 1..MaxOutput
  /\ out \in Outcomes
  /\ posted \in BOOLEAN
  /\ live \subseteq Buffers
  /\ cancelled \subseteq live
  /\ filled \in [Buffers -> Nat \cup {Unfilled}]
  /\ block_pc \in BlockStates
  /\ refill_pc \in RefillStates

(* The constructor leaves byte_offset uninitialised. *)
Init ==
  /\ items_in_buffer = 0 /\ byte_offset \in {0} \cup Sizes
  /\ please_refill_buffer = FALSE /\ thread_stopped = FALSE
  /\ buf = NoBuffer /\ buffer_size \in Sizes
  /\ refill_buf = NoBuffer /\ ret = 0
  /\ noutput_items = 1 /\ out = Nothing(0)
  /\ posted = FALSE
  /\ live = {} /\ cancelled = {} /\ filled = [b \in Buffers |-> Unfilled]
  /\ block_pc = "stopped" /\ refill_pc = "none"

-----------------------------------------------------------------------------
(* libiio, as this code uses it. *)

(* iio_device_create_buffer: a handle not in use, holding no data yet.     *)
(* A handle that was destroyed may be handed out again.                    *)
CreateBuffer(b, others) ==
  /\ b \notin others
  /\ buf' = b
  /\ live' = others \cup {b}
  /\ filled' = [filled EXCEPT ![b] = Unfilled]

(* iio_buffer_end: the end of the valid data, the whole buffer before the  *)
(* first refill.                                                           *)
BufferEnd == IF filled[buf] = Unfilled THEN buffer_size ELSE filled[buf]

-----------------------------------------------------------------------------
(* Waking threads. *)

(* Mutant: the notify_all() is forgotten. *)
NotifiesNobody == UNCHANGED refill_pc

(* iio_cond.notify_all(): only the refill thread ever waits on iio_cond. *)
NotifyRefill ==
  refill_pc' = IF refill_pc = "wait" THEN "woken" ELSE refill_pc

(* Mutant: the notify_all() is forgotten. *)
WakesNobody == UNCHANGED block_pc

(* iio_cond2.notify_all(): only work() ever waits on iio_cond2. *)
NotifyWork ==
  block_pc' = IF block_pc = "wait" THEN "woken" ELSE block_pc

-----------------------------------------------------------------------------
(* The block thread: start(), work(), stop(). *)

StartOk(b) ==
  /\ block_pc = "stopped"
  /\ CreateBuffer(b, live)
  /\ items_in_buffer' = 0
  /\ please_refill_buffer' = FALSE
  /\ thread_stopped' = FALSE
  /\ refill_pc' = "start"
  /\ block_pc' = "idle"
  /\ UNCHANGED <<byte_offset, buffer_size, refill_buf, ret, noutput_items, out,
                 posted, cancelled>>

(* No buffer: start() throws, the scheduler drops the block's thread. *)
StartFails ==
  /\ block_pc = "stopped"
  /\ items_in_buffer' = 0
  /\ please_refill_buffer' = FALSE
  /\ thread_stopped' = FALSE
  /\ buf' = NoBuffer
  /\ UNCHANGED <<byte_offset, buffer_size, refill_buf, ret, noutput_items, out,
                 posted, library, block_pc, refill_pc>>

(* channel_read: the number of iterations of its loop, i.e. of samples it  *)
(* stores, with room samples from byte_offset to the end of the data when  *)
(* the caller has room for len shorts.                                     *)
SamplesRead(room, len) ==
  LET reads == IF room <= 0 THEN 0 ELSE (room + Decimation) \div (Decimation + 1)
      fit == (2 * len) \div SampleBytes
  IN IF reads < fit THEN reads ELSE fit

(* Mutant: the loop also wants room for a whole step after the sample. *)
ConvertedShort(len) == SamplesRead(BufferEnd - byte_offset - 1, len)

Converted(len) == SamplesRead(BufferEnd - byte_offset, len)

(* Mutant: byte_offset is advanced before the samples are read. *)
FirstAfter(items) == byte_offset + items

(* channel_read starts where the last delivery ended. *)
FirstRead(items) == byte_offset

(* Mutant: the tag is added while anything is left of the refill. *)
TagAlways == items_in_buffer

(* work() tags the first piece of a refill with the samples it holds. (A   *)
(* tag for an empty refill says 0, which here is no tag.)                  *)
BufferStartTag == IF byte_offset = 0 THEN items_in_buffer ELSE 0

(* Mutant: as many items as the scheduler has room for. *)
ItemsOffered(n) == n

ItemsToDeliver(n) == IF items_in_buffer < n THEN items_in_buffer ELSE n

(* The tail of work(): copy what is there and tag the start of a refill.   *)
(* Without a buffer, iio_buffer_end(NULL) ends the process.                *)
(* A return of 0 parks the block until the scheduler looks at it again.    *)
Deliver(n) ==
  LET items == ItemsToDeliver(n) IN
  /\ buf # NoBuffer
  /\ out' = [ret |-> items, first |-> FirstRead(items),
             written |-> Converted(items), tag |-> BufferStartTag]
  /\ items_in_buffer' = items_in_buffer - items
  /\ byte_offset' = byte_offset + items
  /\ block_pc' = IF items = 0 THEN "parked" ELSE "idle"

(* work() returns -1 and the scheduler stops the block. *)
ReturnEof ==
  /\ out' = Nothing(Eof)
  /\ block_pc' = "stop"
  /\ UNCHANGED <<items_in_buffer, byte_offset>>

(* Mutant: work() just returns 0. *)
PostNothing == UNCHANGED posted

PostDone == posted' = TRUE

(* work() goes on waiting; as a mutant of ReturnTimeout, after a timeout.  *)
WaitAgain ==
  /\ block_pc' = "wait"
  /\ UNCHANGED <<items_in_buffer, byte_offset, out, posted>>

(* work() returns 0 after a timeout: publish "timeout" and post "done" to  *)
(* the block's own system port so that it is called again promptly.        *)
ReturnTimeout ==
  /\ out' = Nothing(0)
  /\ PostDone
  /\ block_pc' = "parked"
  /\ UNCHANGED <<items_in_buffer, byte_offset>>

WantsRefill == please_refill_buffer \/ items_in_buffer = 0

(* work() entered with no item: ask for a refill and go to sleep. *)
AskForRefill ==
  /\ ~thread_stopped
  /\ WantsRefill
  /\ please_refill_buffer' = TRUE
  /\ IF please_refill_buffer THEN UNCHANGED refill_pc ELSE NotifyRefill
  /\ block_pc' = "wait"
  /\ UNCHANGED <<items_in_buffer, byte_offset, out>>

Work(n) ==
  /\ block_pc = "idle"
  /\ noutput_items' = n
  /\ \/ thread_stopped /\ ReturnEof /\ UNCHANGED <<please_refill_buffer, refill_pc>>
     \/ AskForRefill
     \/ /\ ~thread_stopped /\ ~WantsRefill
        /\ Deliver(n)
        /\ UNCHANGED <<please_refill_buffer, refill_pc>>
  /\ UNCHANGED <<thread_stopped, buf, buffer_size, refill_buf, ret, posted, library>>

(* Mutant: work() does not look at thread_stopped after the wait. *)
StopUnseen == FALSE

StopSeen == thread_stopped

(* work() resumes after timed_wait, which has taken the mutex again. *)
WorkResumes ==
  /\ \/ block_pc \in {"woken", "timedout"} /\ StopSeen
        /\ ReturnEof /\ UNCHANGED posted
     \/ block_pc = "timedout" /\ ~StopSeen /\ ReturnTimeout
     \/ block_pc = "woken" /\ ~StopSeen /\ please_refill_buffer /\ WaitAgain
     \/ /\ block_pc = "woken" /\ ~StopSeen /\ ~please_refill_buffer
        /\ Deliver(noutput_items) /\ UNCHANGED posted
  /\ UNCHANGED <<please_refill_buffer, thread_stopped, buf, buffer_size, refill_buf,
                 ret, noutput_items, library, refill_pc>>

TimeoutExpires ==
  /\ Timeouts
  /\ block_pc = "wait"
  /\ block_pc' = "timedout"
  /\ UNCHANGED <<handshake, buf, buffer_size, refill_buf, ret, noutput_items, out,
                 posted, library, refill_pc>>

(* The scheduler calls work() again: it found the posted message, or its   *)
(* own slow tick (up to 500 ms) came round.                                *)
Recall ==
  /\ block_pc = "parked"
  /\ block_pc' = "idle"
  /\ posted' = FALSE
  /\ UNCHANGED <<handshake, buf, buffer_size, refill_buf, ret, noutput_items, out,
                 library, refill_pc>>

(* The flowgraph is stopped: the scheduler interrupts the block thread at  *)
(* an interruption point (between calls, or inside timed_wait).            *)
Interrupt ==
  /\ block_pc \in {"idle", "parked", "wait"}
  /\ block_pc' = "stop"
  /\ UNCHANGED <<handshake, buf, buffer_size, refill_buf, ret, noutput_items, out,
                 posted, library, refill_pc>>

(* Mutant: stop() does not cancel. *)
CancelNothing == UNCHANGED cancelled

CancelBuffer == cancelled' = cancelled \cup ({buf} \cap live)

(* stop(), step by step: cancel without the mutex ... *)
StopCancels ==
  /\ block_pc = "stop"
  /\ CancelBuffer
  /\ block_pc' = "cancelled"
  /\ UNCHANGED <<handshake, buf, buffer_size, refill_buf, ret, noutput_items, out,
                 posted, live, filled, refill_pc>>

(* ... wake the refill thread so that it meets the cancelled buffer ... *)
StopRequests ==
  /\ block_pc = "cancelled"
  /\ please_refill_buffer' = TRUE
  /\ NotifyRefill
  /\ block_pc' = "join"
  /\ UNCHANGED <<items_in_buffer, byte_offset, thread_stopped, buf, buffer_size,
                 refill_buf, ret, noutput_items, out, posted, library>>

(* Mutant: the buffer is destroyed without waiting for the thread. *)
NotJoined == TRUE

Joined == refill_pc = "none"

(* ... join it, and destroy the buffer ... *)
StopJoins ==
  /\ block_pc = "join"
  /\ Joined
  /\ live' = live \ {buf}
  /\ cancelled' = cancelled \ {buf}
  /\ block_pc' = "destroyed"
  /\ UNCHANGED <<handshake, buf, buffer_size, refill_buf, ret, noutput_items, out,
                 posted, filled, refill_pc>>

(* ... and forget it. *)
StopReturns ==
  /\ block_pc = "destroyed"
  /\ buf' = NoBuffer
  /\ block_pc' = "stopped"
  /\ UNCHANGED <<handshake, buffer_size, refill_buf, ret, noutput_items, out,
                 posted, library, refill_pc>>

-----------------------------------------------------------------------------
(* The refill thread. *)

(* The head of its loop, with the mutex held: take a request and call      *)
(* iio_buffer_refill(buf) without the mutex, or go to sleep on iio_cond.   *)
TakeRequestOrSleep ==
  IF please_refill_buffer
  THEN /\ please_refill_buffer' = FALSE
       /\ refill_buf' = buf
       /\ refill_pc' = "refill"
  ELSE /\ refill_pc' = "wait"
       /\ UNCHANGED <<please_refill_buffer, refill_buf>>

RefillThreadRuns ==
  /\ refill_pc \in {"start", "woken"}
  /\ TakeRequestOrSleep
  /\ UNCHANGED <<items_in_buffer, byte_offset, thread_stopped, buf, buffer_size, ret,
                 noutput_items, out, posted, library, block_pc>>

(* libiio: the device delivers r samples, or the refill fails.  Of a NULL  *)
(* buffer there is no return: the process ends.                            *)
RefillCompletes(r) ==
  /\ refill_pc = "refill" /\ refill_buf # NoBuffer /\ refill_buf \notin cancelled
  /\ ret' = r
  /\ filled' = [filled EXCEPT ![refill_buf] = r]
  /\ refill_pc' = "return"
  /\ UNCHANGED <<handshake, buf, buffer_size, refill_buf, noutput_items, out, posted,
                 live, cancelled, block_pc>>

RefillFails(error) ==
  /\ refill_pc = "refill" /\ refill_buf # NoBuffer
  /\ ret' = error
  /\ refill_pc' = "return"
  /\ UNCHANGED <<handshake, buf, buffer_size, refill_buf, noutput_items, out, posted,
                 library, block_pc>>

RefillCancelled == refill_buf \in cancelled /\ RefillFails(Ebadf)

(* Mutant: the offset is not reset. *)
PublishKeepsOffset == items_in_buffer' = ret /\ UNCHANGED byte_offset

Publish == items_in_buffer' = ret /\ byte_offset' = 0

(* Back with the mutex: publish the samples, whose size libiio is asked of *)
(* the current buffer, and go round the loop ...                           *)
RefillPublishes ==
  /\ refill_pc = "return" /\ ret >= 0 /\ buf # NoBuffer
  /\ Publish
  /\ NotifyWork
  /\ TakeRequestOrSleep
  /\ UNCHANGED <<thread_stopped, buf, buffer_size, ret, noutput_items, out, posted,
                 library>>

(* ... or end the thread. *)
RefillThreadEnds ==
  /\ refill_pc = "return" /\ ret < 0
  /\ thread_stopped' = TRUE
  /\ NotifyWork
  /\ refill_pc' = "none"
  /\ UNCHANGED <<items_in_buffer, byte_offset, please_refill_buffer, buf, buffer_size,
                 refill_buf, ret, noutput_items, out, posted, library>>

SpuriousWakeup ==
  /\ SpuriousWakeups
  /\ \/ block_pc = "wait" /\ block_pc' = "woken" /\ UNCHANGED refill_pc
     \/ refill_pc = "wait" /\ refill_pc' = "woken" /\ UNCHANGED block_pc
  /\ UNCHANGED <<handshake, buf, buffer_size, refill_buf, ret, noutput_items, out,
                 posted, library>>

-----------------------------------------------------------------------------
(* The application: set_buffer_size(size), under the mutex. *)

MayResize == Resizes = "any" \/ block_pc = "stopped"

(* A different size while a buffer exists: replace the buffer; if libiio   *)
(* cannot create the new one the call throws and leaves no buffer.         *)
ReplaceBuffer(size) ==
  /\ buf # NoBuffer /\ size # buffer_size
  /\ cancelled' = cancelled \ {buf}
  /\ \/ \E b \in Buffers : CreateBuffer(b, live \ {buf}) /\ buffer_size' = size
     \/ buf' = NoBuffer /\ live' = live \ {buf} /\ UNCHANGED <<filled, buffer_size>>

SetBufferSize(size) ==
  /\ MayResize
  /\ \/ ReplaceBuffer(size)
     \/ /\ buf = NoBuffer \/ size = buffer_size
        /\ buffer_size' = size
        /\ UNCHANGED <<buf, library>>
  /\ UNCHANGED <<handshake, refill_buf, ret, noutput_items, out, posted, block_pc,
                 refill_pc>>

-----------------------------------------------------------------------------
BlockThread ==
  \/ \E b \in Buffers : StartOk(b)
  \/ StartFails
  \/ \E n \in 1..MaxOutput : Work(n)
  \/ WorkResumes \/ TimeoutExpires \/ Recall \/ Interrupt
  \/ StopCancels \/ StopRequests \/ StopJoins \/ StopReturns

(* The whole samples a refill of a buffer may return: as many as it holds, *)
(* or less.                                                                *)
RefillSizes(size) == (IF EmptyRefills THEN 0 ELSE 1)..size

DeviceDelivers == \E r \in RefillSizes(buffer_size) : RefillCompletes(r)

RefillThread ==
  \/ RefillThreadRuns
  \/ DeviceDelivers
  \/ RefillFails(Eio)
  \/ RefillCancelled
  \/ RefillPublishes
  \/ RefillThreadEnds

Next ==
  \/ BlockThread
  \/ RefillThread
  \/ SpuriousWakeup
  \/ \E size \in Sizes : SetBufferSize(size)

Spec == Init /\ [][Next]_vars

(* Threads that can run do run, timers fire and libiio returns from a      *)
(* refill of a cancelled buffer.  Nothing obliges the device to produce    *)
(* samples, the scheduler to call work() or anybody to stop the flowgraph. *)
Fairness ==
  /\ WF_vars(WorkResumes) /\ WF_vars(TimeoutExpires)
  /\ WF_vars(StopCancels) /\ WF_vars(StopRequests)
  /\ WF_vars(StopJoins) /\ WF_vars(StopReturns)
  /\ WF_vars(RefillThreadRuns) /\ WF_vars(RefillPublishes)
  /\ WF_vars(RefillThreadEnds) /\ WF_vars(RefillCancelled)

FairSpec == Spec /\ Fairness

(* ... and with a device that keeps producing samples. *)
LiveSpec == FairSpec /\ WF_vars(DeviceDelivers)

-----------------------------------------------------------------------------
(* Properties. *)

(* work(), refill_thread() and stop(): the current buffer is not destroyed *)
(* under work(), nor under a refill of it: stop() waits for the refill     *)
(* thread, wherever it is, and set_buffer_size() leaves a buffer that      *)
(* exists or none.  Only a refill that is under way when set_buffer_size() *)
(* replaces its buffer goes on in a destroyed one.                         *)
UsesLiveBuffer ==
  buf # NoBuffer =>
    /\ block_pc \in Running => buf \in live
    /\ refill_pc = "refill" /\ refill_buf = buf => buf \in live

(* iio_cond, iio_cond2: nobody sleeps on a condition that already holds or *)
(* that nobody is left to make true.  The refill thread never sleeps on a  *)
(* pending request; work() sleeps only while a request or a refill is on   *)
(* its way and the thread that answers it exists.                          *)
NoLostWakeup ==
  /\ refill_pc = "wait" => ~please_refill_buffer
  /\ block_pc = "wait" =>
       /\ refill_pc # "none" /\ ~thread_stopped
       /\ please_refill_buffer \/ refill_pc \in {"refill", "return"}

(* refill_thread() and work(): what byte_offset and items_in_buffer leave  *)
(* to be delivered is the unread rest of the last refill, to its end.      *)
OffsetTracksFill ==
  block_pc \in Running /\ items_in_buffer > 0 /\ refill_pc # "return" =>
    byte_offset + items_in_buffer = filled[buf]

(* refill_thread() ends, work(): after the refill thread has ended, a      *)
(* work() call delivers nothing until start() is called again.             *)
NoDataAfterEof ==
  [][thread_stopped /\ thread_stopped' /\ out' # out => out'.ret = Eof]_vars

(* work(): a block that returns 0 to the scheduler has posted itself the   *)
(* message that gets it called again before the scheduler's slow tick.     *)
PromptRecall == block_pc = "parked" => posted

(* work() and channel_read(): every sample work() says it produced was     *)
(* stored in the output.                                                   *)
AllItemsWritten == out.ret > 0 => out.written = out.ret

(* work(): a piece of data carries the "buffer_start" tag exactly when it  *)
(* is the first of its refill, and the tag gives the size of the refill.   *)
TagAnnouncesRefill ==
  [][out' # out /\ out'.ret > 0 =>
         out'.tag = IF items_in_buffer = filled[buf] THEN filled[buf] ELSE 0]_vars

(* work(): "No items in buffer -> ask for a refill".  libiio is never      *)
(* asked to overwrite the buffer while samples of it are undelivered.      *)
RefillOnlyWhenEmpty ==
  block_pc \in Running /\ refill_pc = "refill" => items_in_buffer = 0

(* set_buffer_size() and work(): samples are only ever delivered from a    *)
(* buffer that a refill has filled.                                        *)
ItemsComeFromARefill ==
  block_pc \in Running /\ items_in_buffer > 0 => buf # NoBuffer /\ filled[buf] > 0

(* stop(): once the scheduler has decided to stop the block, stop()        *)
(* returns, whatever the refill thread was doing.                          *)
StopTerminates == block_pc = "stop" ~> block_pc = "stopped"

(* work(): a call ends, at the latest when its timeout expires.            *)
WorkReturns == block_pc \in InWork ~> block_pc \notin InWork

(* work(), refill_thread(): with a device that produces samples, a work()  *)
(* call that waits for data returns some, unless the block is stopped.     *)
DataReachesOutput ==
  block_pc = "wait" ~> (block_pc = "idle" /\ out.ret > 0) \/ block_pc = "stop"

-----------------------------------------------------------------------------
(* The stream the block promises: captures alternate with deliveries.      *)

IsOpen == block_pc \in Running /\ ~thread_stopped
IsCapturing == IsOpen /\ refill_pc \in {"refill", "return"}
Undelivered ==
  IF IsOpen /\ ~IsCapturing THEN byte_offset..(filled[buf] - 1) ELSE {}

(* The samples the last work() call returned. *)
Given == out.first..(out.first + out.ret - 1)

Stream == INSTANCE SampleStream
            WITH open <- IsOpen, capturing <- IsCapturing, left <- Undelivered,
                 given <- Given,
                 Captures <- UNION {RefillSizes(size) : size \in Sizes}

(* The capture path as a whole, without timeouts: each capture is begun    *)
(* when the one before is used up, and what the work() calls return is     *)
(* every sample of it, once and in order, before the next begins.          *)
ImplementsSampleStream == Stream!Spec
=============================================================================
