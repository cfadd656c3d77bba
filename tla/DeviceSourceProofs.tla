------------------------- MODULE DeviceSourceProofs -------------------------
(***************************************************************************)
(* What TLAPS proves of DeviceSource, for every set of buffers, every set  *)
(* of sizes, every MaxOutput, Decimation and SampleBytes.                  *)
(***************************************************************************)
EXTENDS DeviceSource, TLAPS

USE SourceAssumption

-----------------------------------------------------------------------------
(* Arithmetic of channel_read: it stores a natural number of samples, and  *)
(* without decimation exactly what is left of the buffer.                  *)

LEMMA DivNat ==
  ASSUME NEW a \in Nat, NEW d \in Nat
  PROVE  (a + d) \div (d + 1) \in Nat
  OBVIOUS

LEMMA DivOne ==
  ASSUME NEW a \in Nat
  PROVE  (a + 0) \div (0 + 1) = a
  OBVIOUS

LEMMA DivPositive ==
  ASSUME NEW a \in Nat, NEW d \in Nat \ {0}
  PROVE  a \div d \in Nat
  OBVIOUS

LEMMA DivTwo ==
  ASSUME NEW a \in Nat
  PROVE  (2 * a) \div 2 = a
  OBVIOUS

LEMMA ConvertedNat ==
  ASSUME NEW len \in Nat, BufferEnd \in Nat, byte_offset \in Nat
  PROVE  Converted(len) \in Nat
<1> DEFINE room == BufferEnd - byte_offset
<1>1. (2 * len) \div SampleBytes \in Nat
  BY DivPositive
<1>2. CASE room <= 0
  BY <1>1, <1>2 DEF Converted, SamplesRead
<1>3. CASE room > 0
  <2>1. room \in Nat
    BY <1>3
  <2>2. (room + Decimation) \div (Decimation + 1) \in Nat
    BY <2>1, DivNat
  <2> QED
    BY <1>1, <1>3, <2>1, <2>2 DEF Converted, SamplesRead
<1> QED
  BY <1>2, <1>3

-----------------------------------------------------------------------------
(* The inductive invariants. *)

(* The refill thread exists from start() until it ends or stop() has       *)
(* joined it, and its end is recorded in thread_stopped.                   *)
ThreadLife ==
  /\ block_pc \in {"stopped", "destroyed"} => refill_pc = "none"
  /\ block_pc \in Running \cup {"stop", "cancelled", "join"} =>
       (refill_pc = "none" <=> thread_stopped)

(* There is no buffer while the block is stopped, and until stop() has     *)
(* joined the thread the current one, if there is one, exists.             *)
BufferLives ==
  /\ block_pc = "stopped" => buf = NoBuffer
  /\ block_pc \in Running \cup {"stop", "cancelled", "join"} =>
       buf \in live \cup {NoBuffer}

(* What holds in every environment. *)
IInv == TypeOK /\ ThreadLife /\ NoLostWakeup /\ BufferLives

(* With resizes only while the block is stopped there always is a buffer,  *)
(* and the two threads agree on which one it is.                           *)
BufferLife ==
  /\ block_pc \in Running \cup {"stop", "cancelled", "join"} => buf \in live
  /\ refill_pc \in {"refill", "return"} => refill_buf = buf

(* A completed refill that is not published yet. *)
Unpublished == refill_pc = "return" /\ ret >= 0

(* The two counters locate the rest of the last published refill.          *)
CountersLocateRest ==
  /\ Unpublished => ret \in RefillSizes(buffer_size) /\ filled[refill_buf] = ret
  /\ block_pc \in Running /\ ~Unpublished =>
       \/ byte_offset + items_in_buffer = filled[buf]
       \/ items_in_buffer = 0 /\ filled[buf] = Unfilled

(* What holds when the buffer is only resized while the block is stopped.  *)
BInv == IInv /\ BufferLife /\ CountersLocateRest

(* Without timeouts and spurious wakeups the two threads take turns: while *)
(* a refill is wanted or under way, work() sleeps and nothing is left.     *)
Alternation ==
  /\ block_pc # "timedout"
  /\ block_pc \in Running /\ (please_refill_buffer \/ refill_pc \in {"refill", "return"})
       => block_pc = "wait" /\ items_in_buffer = 0
  /\ refill_pc \in {"refill", "return"} /\ block_pc \in Running => ~please_refill_buffer

SInv == BInv /\ Alternation

-----------------------------------------------------------------------------
(* Type correctness. *)

LEMMA DeliverType ==
  ASSUME TypeOK, NEW n \in 1..MaxOutput, Deliver(n)
  PROVE  /\ items_in_buffer' \in Nat /\ byte_offset' \in Nat
         /\ out' \in Outcomes
         /\ block_pc' \in {"parked", "idle"}
<1> DEFINE items == ItemsToDeliver(n)
<1>1. /\ items \in Nat /\ items_in_buffer - items \in Nat
      /\ byte_offset \in Nat /\ BufferEnd \in Nat
  BY DEF TypeOK, BufferEnd, Deliver, ItemsToDeliver, Unfilled
<1>2. Converted(items) \in Nat
  BY <1>1, ConvertedNat
<1>3. BufferStartTag \in Nat
  BY DEF TypeOK, BufferStartTag
<1> QED
  BY <1>1, <1>2, <1>3 DEF Deliver, FirstRead, Outcomes

LEMMA TypeStep ==
  ASSUME TypeOK, [Next]_vars
  PROVE  TypeOK'
<1> USE DEF TypeOK, BlockStates, RefillStates, Running, InWork, NotifyRefill, NotifyWork,
            Outcomes, Nothing, RefillSizes
<1>1. ASSUME NEW b \in Buffers, StartOk(b) PROVE TypeOK'
  BY <1>1 DEF StartOk, CreateBuffer
<1>2. CASE StartFails
  BY <1>2 DEF StartFails, library
<1>3. ASSUME NEW n \in 1..MaxOutput, Work(n) PROVE TypeOK'
  <2>1. CASE ReturnEof /\ UNCHANGED <<please_refill_buffer, refill_pc>>
    BY <1>3, <2>1 DEF Work, ReturnEof, library
  <2>2. CASE AskForRefill
    BY <1>3, <2>2 DEF Work, AskForRefill, library
  <2>3. CASE Deliver(n) /\ UNCHANGED <<please_refill_buffer, refill_pc>>
    BY <1>3, <2>3, DeliverType DEF Work, library
  <2> QED
    BY <1>3, <2>1, <2>2, <2>3 DEF Work
<1>4. CASE WorkResumes
  <2>1. CASE ReturnEof /\ UNCHANGED posted
    BY <1>4, <2>1 DEF WorkResumes, ReturnEof, library
  <2>2. CASE ReturnTimeout
    BY <1>4, <2>2 DEF WorkResumes, ReturnTimeout, PostDone, library
  <2>3. CASE WaitAgain
    BY <1>4, <2>3 DEF WorkResumes, WaitAgain, library
  <2>4. CASE Deliver(noutput_items) /\ UNCHANGED posted
    BY <1>4, <2>4, DeliverType DEF WorkResumes, library
  <2> QED
    BY <1>4, <2>1, <2>2, <2>3, <2>4 DEF WorkResumes
<1>5. CASE TimeoutExpires \/ Recall \/ Interrupt
  BY <1>5 DEF TimeoutExpires, Recall, Interrupt, handshake, library
<1>6. CASE StopCancels \/ StopRequests \/ StopJoins \/ StopReturns
  BY <1>6 DEF StopCancels, CancelBuffer, StopRequests, StopJoins, StopReturns,
              handshake, library
<1>7. CASE RefillThreadRuns
  BY <1>7 DEF RefillThreadRuns, TakeRequestOrSleep, library
<1>8. CASE DeviceDelivers
  BY <1>8 DEF DeviceDelivers, RefillCompletes, handshake
<1>9. ASSUME NEW error \in {Eio, Ebadf}, RefillFails(error) PROVE TypeOK'
  BY <1>9 DEF RefillFails, handshake, library
<1>10. CASE RefillPublishes
  <2>1. ret \in Nat
    BY <1>10 DEF RefillPublishes, Ebadf, Eio
  <2>2. items_in_buffer' \in Nat /\ byte_offset' \in Nat
    BY <1>10, <2>1 DEF RefillPublishes, Publish
  <2>3. block_pc' \in BlockStates
    BY <1>10 DEF RefillPublishes
  <2>4. /\ please_refill_buffer' \in BOOLEAN
        /\ refill_buf' \in Buffers \cup {NoBuffer}
        /\ refill_pc' \in RefillStates
    BY <1>10 DEF RefillPublishes, TakeRequestOrSleep
  <2> QED
    BY <1>10, <2>2, <2>3, <2>4 DEF RefillPublishes, library
<1>11. CASE RefillThreadEnds
  BY <1>11 DEF RefillThreadEnds, library
<1>12. CASE SpuriousWakeup
  BY <1>12 DEF SpuriousWakeup, handshake, library
<1>13. ASSUME NEW size \in Sizes, SetBufferSize(size) PROVE TypeOK'
  BY <1>13 DEF SetBufferSize, ReplaceBuffer, CreateBuffer, handshake, library
<1>14. CASE UNCHANGED vars
  BY <1>14 DEF vars, handshake, library
<1> QED
  BY <1>1, <1>2, <1>3, <1>4, <1>5, <1>6, <1>7, <1>8, <1>9, <1>10, <1>11, <1>12,
     <1>13, <1>14 DEF Next, BlockThread, RefillThread, RefillCancelled

LEMMA TypeInit == Init => TypeOK
<1> SUFFICES ASSUME Init PROVE TypeOK
  OBVIOUS
<1>1. byte_offset \in Nat
  BY DEF Init
<1>2. out \in Outcomes
  BY DEF Init, Outcomes, Nothing
<1>3. noutput_items \in 1..MaxOutput
  BY DEF Init
<1>4. filled \in [Buffers -> Nat \cup {Unfilled}]
  BY DEF Init
<1>5. block_pc \in BlockStates /\ refill_pc \in RefillStates
  BY DEF Init, BlockStates, RefillStates
<1> QED
  BY <1>1, <1>2, <1>3, <1>4, <1>5 DEF Init, TypeOK

(* Every variable keeps its type, in every environment. *)
THEOREM TypeCorrect == Spec => []TypeOK
  BY TypeInit, TypeStep, PTL DEF Spec

-----------------------------------------------------------------------------
(* No lost wakeup, and no buffer destroyed under its users.  Neither       *)
(* property is inductive alone: that a waiting work() has a thread to wake *)
(* it, and that a refill has ended before stop() destroys the buffer, need *)
(* to know when the refill thread exists.                                  *)

LEMMA WakeupStep ==
  ASSUME IInv, [Next]_vars
  PROVE  (ThreadLife /\ NoLostWakeup /\ BufferLives)'
<1> USE DEF IInv, TypeOK, BlockStates, RefillStates, Running, InWork, ThreadLife,
            NoLostWakeup, BufferLives, NotifyRefill, NotifyWork
<1>1. ASSUME NEW b \in Buffers, StartOk(b) PROVE (ThreadLife /\ NoLostWakeup /\ BufferLives)'
  BY <1>1 DEF StartOk, CreateBuffer
<1>2. CASE StartFails
  BY <1>2 DEF StartFails, library
<1>3. ASSUME NEW n \in 1..MaxOutput, Work(n) PROVE (ThreadLife /\ NoLostWakeup /\ BufferLives)'
  BY <1>3 DEF Work, ReturnEof, AskForRefill, WantsRefill, Deliver, ItemsToDeliver, library
<1>4. CASE WorkResumes
  BY <1>4 DEF WorkResumes, StopSeen, ReturnEof, ReturnTimeout, WaitAgain, Deliver, ItemsToDeliver, library
<1>5. CASE TimeoutExpires \/ Recall \/ Interrupt
  BY <1>5 DEF TimeoutExpires, Recall, Interrupt, handshake, library
<1>6. CASE StopCancels \/ StopRequests
  BY <1>6 DEF StopCancels, CancelBuffer, StopRequests, handshake, library
<1>7. CASE StopJoins \/ StopReturns
  BY <1>7 DEF StopJoins, Joined, StopReturns, handshake, library
<1>8. CASE RefillThreadRuns
  BY <1>8 DEF RefillThreadRuns, TakeRequestOrSleep, library
<1>9. CASE DeviceDelivers
  BY <1>9 DEF DeviceDelivers, RefillCompletes, handshake
<1>10. ASSUME NEW error \in {Eio, Ebadf}, RefillFails(error) PROVE (ThreadLife /\ NoLostWakeup /\ BufferLives)'
  BY <1>10 DEF RefillFails, handshake, library
<1>11. CASE RefillPublishes
  BY <1>11 DEF RefillPublishes, Publish, TakeRequestOrSleep, library
<1>12. CASE RefillThreadEnds
  BY <1>12 DEF RefillThreadEnds, library
<1>13. CASE SpuriousWakeup
  BY <1>13 DEF SpuriousWakeup, handshake, library
<1>14. ASSUME NEW size \in Sizes, SetBufferSize(size) PROVE (ThreadLife /\ NoLostWakeup /\ BufferLives)'
  BY <1>14 DEF SetBufferSize, ReplaceBuffer, CreateBuffer, handshake, library
<1>15. CASE UNCHANGED vars
  BY <1>15 DEF vars, handshake, library
<1> QED
  BY <1>1, <1>2, <1>3, <1>4, <1>5, <1>6, <1>7, <1>8, <1>9, <1>10, <1>11, <1>12,
     <1>13, <1>14, <1>15 DEF Next, BlockThread, RefillThread, RefillCancelled

LEMMA Invariance == Spec => []IInv
<1>1. Init => IInv
  BY TypeInit DEF Init, IInv, ThreadLife, NoLostWakeup, BufferLives, Running, InWork
<1>2. IInv /\ [Next]_vars => IInv'
  BY TypeStep, WakeupStep DEF IInv
<1> QED
  BY <1>1, <1>2, PTL DEF Spec

(* In every environment, timeouts, spurious wakeups and resizes at any     *)
(* time included, no thread sleeps through what it waits for.              *)
THEOREM NoWakeupIsLost == Spec => []NoLostWakeup
<1>1. IInv => NoLostWakeup
  BY DEF IInv
<1> QED
  BY <1>1, Invariance, PTL

(* In every environment, set_buffer_size() at any moment included, work()  *)
(* and the refills of the current buffer have a buffer that exists.        *)
THEOREM BufferOutlivesUse == Spec => []UsesLiveBuffer
<1>1. IInv => UsesLiveBuffer
  BY DEF IInv, TypeOK, BlockStates, ThreadLife, BufferLives, UsesLiveBuffer, Running,
         InWork
<1> QED
  BY <1>1, Invariance, PTL

(* After the refill thread has ended, no work() call delivers anything.    *)
THEOREM EofIsFinal == Spec => NoDataAfterEof
<1> DEFINE A == thread_stopped /\ thread_stopped' /\ out' # out => out'.ret = Eof
<1>1. IInv /\ [Next]_vars => [A]_vars
  <2> SUFFICES ASSUME IInv, [Next]_vars, thread_stopped, thread_stopped', out' # out
               PROVE  out'.ret = Eof
    OBVIOUS
  <2>1. ASSUME NEW n \in 1..MaxOutput, Work(n) PROVE out'.ret = Eof
    BY <2>1 DEF Work, ReturnEof, AskForRefill, Nothing
  <2>2. CASE WorkResumes
    BY <2>2 DEF WorkResumes, StopSeen, ReturnEof, ReturnTimeout, WaitAgain, Nothing
  <2>3. CASE \/ \E b \in Buffers : StartOk(b)
             \/ StartFails \/ TimeoutExpires \/ Recall \/ Interrupt
             \/ StopCancels \/ StopRequests \/ StopJoins \/ StopReturns
    BY <2>3 DEF StartOk, StartFails, TimeoutExpires, Recall, Interrupt,
                StopCancels, StopRequests, StopJoins, StopReturns
  <2>4. CASE RefillThread
    BY <2>4 DEF RefillThread, RefillThreadRuns, DeviceDelivers, RefillCompletes,
                RefillFails, RefillCancelled, RefillPublishes, RefillThreadEnds
  <2>5. CASE SpuriousWakeup \/ (\E size \in Sizes : SetBufferSize(size)) \/ UNCHANGED vars
    BY <2>5 DEF SpuriousWakeup, SetBufferSize, vars
  <2> QED
    BY <2>1, <2>2, <2>3, <2>4, <2>5 DEF Next, BlockThread
<1> QED
  BY <1>1, Invariance, PTL DEF NoDataAfterEof, Spec

-----------------------------------------------------------------------------
(* The buffer's life, when it is only resized while the block is stopped.  *)

LEMMA BufferLifeStep ==
  ASSUME BInv, [Next]_vars, Resizes = "stopped"
  PROVE  BufferLife'
<1> USE DEF BInv, IInv, TypeOK, BlockStates, RefillStates, Running, InWork,
            ThreadLife, BufferLives, BufferLife, NotifyRefill, NotifyWork
<1>1. ASSUME NEW b \in Buffers, StartOk(b) PROVE BufferLife'
  BY <1>1 DEF StartOk, CreateBuffer
<1>2. CASE StartFails
  BY <1>2 DEF StartFails, library
<1>3. ASSUME NEW n \in 1..MaxOutput, Work(n) PROVE BufferLife'
  BY <1>3 DEF Work, ReturnEof, AskForRefill, WantsRefill, Deliver, ItemsToDeliver, library
<1>4. CASE WorkResumes
  BY <1>4 DEF WorkResumes, StopSeen, ReturnEof, ReturnTimeout, WaitAgain, Deliver, ItemsToDeliver, library
<1>5. CASE TimeoutExpires \/ Recall \/ Interrupt
  BY <1>5 DEF TimeoutExpires, Recall, Interrupt, handshake, library
<1>6. CASE StopCancels \/ StopRequests
  BY <1>6 DEF StopCancels, CancelBuffer, StopRequests, handshake, library
<1>7. CASE StopJoins \/ StopReturns
  BY <1>7 DEF StopJoins, Joined, StopReturns, handshake, library
<1>8. CASE RefillThreadRuns
  BY <1>8 DEF RefillThreadRuns, TakeRequestOrSleep, library
<1>9. CASE DeviceDelivers
  BY <1>9 DEF DeviceDelivers, RefillCompletes, handshake
<1>10. ASSUME NEW error \in {Eio, Ebadf}, RefillFails(error) PROVE BufferLife'
  BY <1>10 DEF RefillFails, handshake, library
<1>11. CASE RefillPublishes
  BY <1>11 DEF RefillPublishes, Publish, TakeRequestOrSleep, library
<1>12. CASE RefillThreadEnds
  BY <1>12 DEF RefillThreadEnds, library
<1>13. CASE SpuriousWakeup
  BY <1>13 DEF SpuriousWakeup, handshake, library
<1>14. ASSUME NEW size \in Sizes, SetBufferSize(size) PROVE BufferLife'
  BY <1>14 DEF SetBufferSize, MayResize, ReplaceBuffer, handshake, library
<1>15. CASE UNCHANGED vars
  BY <1>15 DEF vars, handshake, library
<1> QED
  BY <1>1, <1>2, <1>3, <1>4, <1>5, <1>6, <1>7, <1>8, <1>9, <1>10, <1>11, <1>12,
     <1>13, <1>14, <1>15 DEF Next, BlockThread, RefillThread, RefillCancelled

LEMMA CountersStep ==
  ASSUME BInv, [Next]_vars, Resizes = "stopped"
  PROVE  CountersLocateRest'
<1> USE DEF BInv, IInv, TypeOK, BlockStates, RefillStates, Running, InWork, ThreadLife,
            BufferLives, BufferLife, CountersLocateRest, Unpublished, RefillSizes, Eio,
            Ebadf, Unfilled, NotifyRefill, NotifyWork
<1>1. ASSUME NEW b \in Buffers, StartOk(b) PROVE CountersLocateRest'
  BY <1>1 DEF StartOk, CreateBuffer
<1>2. CASE StartFails
  BY <1>2 DEF StartFails, library
<1>3. ASSUME NEW n \in 1..MaxOutput, Work(n) PROVE CountersLocateRest'
  BY <1>3 DEF Work, ReturnEof, AskForRefill, WantsRefill, Deliver, ItemsToDeliver, library
<1>4. CASE WorkResumes
  BY <1>4 DEF WorkResumes, StopSeen, ReturnEof, ReturnTimeout, WaitAgain, Deliver, ItemsToDeliver, library
<1>5. CASE TimeoutExpires \/ Recall \/ Interrupt
  BY <1>5 DEF TimeoutExpires, Recall, Interrupt, handshake, library
<1>6. CASE StopCancels \/ StopRequests
  BY <1>6 DEF StopCancels, CancelBuffer, StopRequests, handshake, library
<1>7. CASE StopJoins \/ StopReturns
  BY <1>7 DEF StopJoins, Joined, StopReturns, handshake, library
<1>8. CASE RefillThreadRuns
  BY <1>8 DEF RefillThreadRuns, TakeRequestOrSleep, library
<1>9. CASE DeviceDelivers
  BY <1>9 DEF DeviceDelivers, RefillCompletes, handshake
<1>10. ASSUME NEW error \in {Eio, Ebadf}, RefillFails(error) PROVE CountersLocateRest'
  BY <1>10 DEF RefillFails, handshake, library
<1>11. CASE RefillPublishes
  BY <1>11 DEF RefillPublishes, Publish, TakeRequestOrSleep, library
<1>12. CASE RefillThreadEnds
  BY <1>12 DEF RefillThreadEnds, library
<1>13. CASE SpuriousWakeup
  BY <1>13 DEF SpuriousWakeup, handshake, library
<1>14. ASSUME NEW size \in Sizes, SetBufferSize(size) PROVE CountersLocateRest'
  BY <1>14 DEF SetBufferSize, MayResize, ReplaceBuffer, handshake, library
<1>15. CASE UNCHANGED vars
  BY <1>15 DEF vars, handshake, library
<1> QED
  BY <1>1, <1>2, <1>3, <1>4, <1>5, <1>6, <1>7, <1>8, <1>9, <1>10, <1>11, <1>12,
     <1>13, <1>14, <1>15 DEF Next, BlockThread, RefillThread, RefillCancelled

LEMMA BufferInvariance ==
  ASSUME Resizes = "stopped"
  PROVE  Spec => []BInv
<1>1. Init => BInv
  BY TypeInit DEF Init, BInv, IInv, ThreadLife, NoLostWakeup, BufferLives, BufferLife,
                  CountersLocateRest, Unpublished, Running, InWork
<1>2. BInv /\ [Next]_vars => BInv'
  BY TypeStep, WakeupStep, BufferLifeStep, CountersStep DEF BInv, IInv
<1> QED
  BY <1>1, <1>2, PTL DEF Spec

(* The counters locate the undelivered rest of the last refill.            *)
THEOREM OffsetIsRight ==
  ASSUME Resizes = "stopped"
  PROVE  Spec => []OffsetTracksFill
<1>1. BInv => OffsetTracksFill
  BY DEF BInv, CountersLocateRest, Unpublished, OffsetTracksFill
<1> QED
  BY <1>1, BufferInvariance, PTL

-----------------------------------------------------------------------------
(* Being called again.  That a parked block has posted its message is not  *)
(* inductive: that a wakeup never delivers 0 samples needs to know what it *)
(* is notified of.                                                         *)

(* work() is woken by data or by the end of the refill thread.             *)
WokenByNews == block_pc = "woken" => thread_stopped \/ items_in_buffer > 0

PInv == BInv /\ WokenByNews /\ PromptRecall

NoSurprise == ~SpuriousWakeups /\ ~EmptyRefills /\ Resizes = "stopped"

LEMMA DeliverDoesNotPark ==
  ASSUME TypeOK, NEW n \in 1..MaxOutput, Deliver(n), items_in_buffer > 0
  PROVE  block_pc' = "idle"
  BY DEF TypeOK, Deliver, ItemsToDeliver

LEMMA RecallStep ==
  ASSUME PInv, [Next]_vars, NoSurprise
  PROVE  (WokenByNews /\ PromptRecall)'
<1> USE DEF PInv, BInv, IInv, NoSurprise, WokenByNews, PromptRecall
<1>1. ASSUME NEW n \in 1..MaxOutput, Work(n) PROVE (WokenByNews /\ PromptRecall)'
  <2>1. CASE ReturnEof \/ AskForRefill
    BY <2>1 DEF ReturnEof, AskForRefill
  <2>2. CASE Deliver(n) /\ ~WantsRefill
    <3>1. items_in_buffer > 0
      BY <2>2 DEF WantsRefill, TypeOK
    <3> QED
      BY <2>2, <3>1, DeliverDoesNotPark
  <2> QED
    BY <1>1, <2>1, <2>2 DEF Work
<1>2. CASE WorkResumes
  <2>1. CASE block_pc' # "parked"
    BY <1>2, <2>1 DEF WorkResumes, ReturnEof, ReturnTimeout, WaitAgain, Deliver
  <2>2. CASE ReturnTimeout
    BY <2>2 DEF ReturnTimeout, PostDone
  <2>3. CASE block_pc = "woken" /\ ~thread_stopped /\ Deliver(noutput_items)
    <3>1. noutput_items \in 1..MaxOutput /\ items_in_buffer > 0
      BY <2>3 DEF TypeOK
    <3> QED
      BY <2>3, <3>1, DeliverDoesNotPark
  <2> QED
    BY <1>2, <2>1, <2>2, <2>3 DEF WorkResumes, StopSeen, ReturnEof, WaitAgain
<1>3. CASE RefillPublishes
  <2>1. ret > 0
    BY <1>3 DEF RefillPublishes, CountersLocateRest, Unpublished, RefillSizes, TypeOK
  <2> QED
    BY <1>3, <2>1 DEF RefillPublishes, Publish, NotifyWork
<1>4. CASE RefillThreadEnds
  BY <1>4 DEF RefillThreadEnds, NotifyWork
<1>5. CASE \/ \E b \in Buffers : StartOk(b)
           \/ StartFails \/ TimeoutExpires \/ Recall \/ Interrupt
           \/ StopCancels \/ StopRequests \/ StopJoins \/ StopReturns
  BY <1>5 DEF StartOk, StartFails, TimeoutExpires, Recall, Interrupt, StopCancels,
              StopRequests, StopJoins, StopReturns
<1>6. CASE \/ RefillThreadRuns \/ DeviceDelivers \/ RefillFails(Eio) \/ RefillCancelled
  BY <1>6 DEF RefillThreadRuns, DeviceDelivers, RefillCompletes, RefillFails,
              RefillCancelled, handshake
<1>7. CASE SpuriousWakeup
  BY <1>7 DEF SpuriousWakeup
<1>8. ASSUME NEW size \in Sizes, SetBufferSize(size) PROVE (WokenByNews /\ PromptRecall)'
  BY <1>8 DEF SetBufferSize, MayResize
<1>9. CASE UNCHANGED vars
  BY <1>9 DEF vars, handshake
<1> QED
  BY <1>1, <1>2, <1>3, <1>4, <1>5, <1>6, <1>7, <1>8, <1>9
  DEF Next, BlockThread, RefillThread

(* work(): whenever it returns 0 to the scheduler it has posted itself the *)
(* message that gets it called again, however the timeouts fall; a wakeup  *)
(* never delivers 0 samples.                                               *)
THEOREM RecalledPromptly ==
  ASSUME NoSurprise
  PROVE  Spec => []PromptRecall
<1>1. Init => WokenByNews /\ PromptRecall
  BY DEF Init, WokenByNews, PromptRecall
<1>2. PInv /\ [Next]_vars => (WokenByNews /\ PromptRecall)'
  BY RecallStep
<1>3. Spec => []BInv
  BY BufferInvariance DEF NoSurprise
<1> QED
  BY <1>1, <1>2, <1>3, PTL DEF Spec, PInv

-----------------------------------------------------------------------------
(* The two threads take turns, when refills do not outlast the timeout and *)
(* no wakeup is spurious.                                                  *)

TurnTaking == ~Timeouts /\ ~SpuriousWakeups /\ Resizes = "stopped"

LEMMA AlternationStep ==
  ASSUME SInv, [Next]_vars, TurnTaking
  PROVE  Alternation'
<1> USE DEF SInv, BInv, IInv, TypeOK, BlockStates, RefillStates, Running, InWork,
            ThreadLife, NoLostWakeup, BufferLives, BufferLife, CountersLocateRest,
            Unpublished, Alternation, TurnTaking, NotifyRefill, NotifyWork
<1>1. ASSUME NEW b \in Buffers, StartOk(b) PROVE Alternation'
  BY <1>1 DEF StartOk, CreateBuffer
<1>2. CASE StartFails
  BY <1>2 DEF StartFails, library
<1>3. ASSUME NEW n \in 1..MaxOutput, Work(n) PROVE Alternation'
  BY <1>3 DEF Work, ReturnEof, AskForRefill, WantsRefill, Deliver, ItemsToDeliver, library
<1>4. CASE WorkResumes
  BY <1>4 DEF WorkResumes, StopSeen, ReturnEof, ReturnTimeout, WaitAgain, Deliver, ItemsToDeliver, library
<1>5. CASE TimeoutExpires \/ Recall \/ Interrupt
  BY <1>5 DEF TimeoutExpires, Recall, Interrupt, handshake, library
<1>6. CASE StopCancels \/ StopRequests
  BY <1>6 DEF StopCancels, CancelBuffer, StopRequests, handshake, library
<1>7. CASE StopJoins \/ StopReturns
  BY <1>7 DEF StopJoins, Joined, StopReturns, handshake, library
<1>8. CASE RefillThreadRuns
  BY <1>8 DEF RefillThreadRuns, TakeRequestOrSleep, library
<1>9. CASE DeviceDelivers
  BY <1>9 DEF DeviceDelivers, RefillCompletes, handshake
<1>10. ASSUME NEW error \in {Eio, Ebadf}, RefillFails(error) PROVE Alternation'
  BY <1>10 DEF RefillFails, handshake, library
<1>11. CASE RefillPublishes
  BY <1>11 DEF RefillPublishes, Publish, TakeRequestOrSleep, library
<1>12. CASE RefillThreadEnds
  BY <1>12 DEF RefillThreadEnds, library
<1>13. CASE SpuriousWakeup
  BY <1>13 DEF SpuriousWakeup
<1>14. ASSUME NEW size \in Sizes, SetBufferSize(size) PROVE Alternation'
  BY <1>14 DEF SetBufferSize, MayResize, ReplaceBuffer, handshake, library
<1>15. CASE UNCHANGED vars
  BY <1>15 DEF vars, handshake, library
<1> QED
  BY <1>1, <1>2, <1>3, <1>4, <1>5, <1>6, <1>7, <1>8, <1>9, <1>10, <1>11, <1>12,
     <1>13, <1>14, <1>15 DEF Next, BlockThread, RefillThread, RefillCancelled

LEMMA TurnInvariance ==
  ASSUME TurnTaking
  PROVE  Spec => []SInv
<1>1. Init => Alternation
  BY DEF Init, Alternation, Running, InWork
<1>2. SInv /\ [Next]_vars => Alternation'
  BY AlternationStep
<1>3. Spec => []BInv
  BY BufferInvariance DEF TurnTaking
<1> QED
  BY <1>1, <1>2, <1>3, PTL DEF Spec, SInv

(* Without decimation, and with samples of two bytes, a delivery stores    *)
(* every sample it counts.                                                 *)
LEMMA DeliverStoresAll ==
  ASSUME SInv, NEW n \in 1..MaxOutput, Deliver(n), block_pc \in {"idle", "woken"},
         Decimation = 0, SampleBytes = 2
  PROVE  out'.written = out'.ret
<1> DEFINE items == ItemsToDeliver(n)
<1>1. ~Unpublished /\ block_pc \in Running
  <2> USE DEF SInv, BInv, IInv, ThreadLife, Alternation, Unpublished, Running, InWork
  <2>1. CASE block_pc = "idle"
    BY <2>1
  <2>2. CASE block_pc = "woken"
    BY <2>2
  <2> QED
    BY <2>1, <2>2
<1>2. /\ items \in Nat /\ items <= items_in_buffer /\ byte_offset \in Nat
      /\ items_in_buffer \in Nat /\ BufferEnd \in Nat
      /\ filled[buf] \in Nat \cup {Unfilled}
      /\ out'.ret = items /\ out'.written = Converted(items)
  BY DEF SInv, BInv, IInv, TypeOK, Deliver, ItemsToDeliver, BufferEnd, Unfilled
<1>3. (2 * items) \div SampleBytes = items
  BY <1>2, DivTwo
<1>4. CASE items = 0
  <2> DEFINE room == BufferEnd - byte_offset
  <2>1. room <= 0 \/ (room + Decimation) \div (Decimation + 1) \in Nat
    BY <1>2, DivNat
  <2> QED
    BY <1>2, <1>3, <1>4, <2>1 DEF Converted, SamplesRead
<1>5. CASE items > 0
  <2>1. BufferEnd - byte_offset = items_in_buffer /\ items_in_buffer > 0
    BY <1>1, <1>2, <1>5 DEF SInv, BInv, CountersLocateRest, BufferEnd, Unfilled
  <2>2. (items_in_buffer + Decimation) \div (Decimation + 1) = items_in_buffer
    BY <1>2, DivOne
  <2>3. Converted(items) = items
    BY <1>2, <1>3, <2>1, <2>2 DEF Converted, SamplesRead
  <2> QED
    BY <1>2, <2>3
<1> QED
  BY <1>2, <1>4, <1>5

(* Every sample work() counts as produced is stored in its output.         *)
THEOREM NoSampleIsMadeUp ==
  ASSUME TurnTaking, Decimation = 0, SampleBytes = 2
  PROVE  Spec => []AllItemsWritten
<1>1. Init => AllItemsWritten
  BY DEF Init, Nothing, AllItemsWritten
<1>2. SInv /\ AllItemsWritten /\ [Next]_vars => AllItemsWritten'
  <2> SUFFICES ASSUME SInv, AllItemsWritten, [Next]_vars, out' # out
               PROVE  AllItemsWritten'
    BY DEF AllItemsWritten
  <2>1. ASSUME NEW n \in 1..MaxOutput, Work(n) PROVE AllItemsWritten'
    <3>1. CASE Deliver(n)
      BY <2>1, <3>1, DeliverStoresAll DEF Work, AllItemsWritten
    <3>2. CASE ~Deliver(n)
      BY <2>1, <3>2 DEF Work, ReturnEof, AskForRefill, AllItemsWritten, Nothing, Eof
    <3> QED
      BY <3>1, <3>2
  <2>2. CASE WorkResumes
    <3>1. CASE block_pc = "woken" /\ Deliver(noutput_items)
      <4>1. noutput_items \in 1..MaxOutput
        BY DEF SInv, BInv, IInv, TypeOK
      <4> QED
        BY <3>1, <4>1, DeliverStoresAll DEF AllItemsWritten
    <3>2. CASE ~(block_pc = "woken" /\ Deliver(noutput_items))
      BY <2>2, <3>2 DEF WorkResumes, StopSeen, ReturnEof, ReturnTimeout, WaitAgain,
                        AllItemsWritten, Nothing, Eof
    <3> QED
      BY <3>1, <3>2
  <2>3. CASE \/ \E b \in Buffers : StartOk(b)
             \/ StartFails \/ TimeoutExpires \/ Recall \/ Interrupt
             \/ StopCancels \/ StopRequests \/ StopJoins \/ StopReturns
    BY <2>3 DEF StartOk, StartFails, TimeoutExpires, Recall, Interrupt,
                StopCancels, StopRequests, StopJoins, StopReturns
  <2>4. CASE RefillThread
    BY <2>4 DEF RefillThread, RefillThreadRuns, DeviceDelivers, RefillCompletes,
                RefillFails, RefillCancelled, RefillPublishes, RefillThreadEnds
  <2>5. CASE SpuriousWakeup \/ (\E size \in Sizes : SetBufferSize(size)) \/ UNCHANGED vars
    BY <2>5 DEF SpuriousWakeup, SetBufferSize, vars
  <2> QED
    BY <2>1, <2>2, <2>3, <2>4, <2>5 DEF Next, BlockThread
<1> QED
  BY <1>1, <1>2, TurnInvariance, PTL DEF Spec

(* What a delivery counts starts at byte_offset, and byte_offset is 0 only *)
(* while the whole refill is left.                                         *)
LEMMA DeliverTags ==
  ASSUME SInv, NEW n \in 1..MaxOutput, Deliver(n), block_pc \in {"idle", "woken"}, out'.ret > 0
  PROVE  out'.tag = IF items_in_buffer = filled[buf] THEN filled[buf] ELSE 0
<1>1. ~Unpublished /\ block_pc \in Running
  <2> USE DEF SInv, BInv, IInv, ThreadLife, Alternation, Unpublished, Running, InWork
  <2>1. CASE block_pc = "idle"
    <3>1. items_in_buffer > 0
      BY <2>1 DEF Deliver, ItemsToDeliver, TypeOK
    <3> QED
      BY <2>1, <3>1
  <2>2. CASE block_pc = "woken"
    BY <2>2
  <2> QED
    BY <2>1, <2>2
<1>2. /\ items_in_buffer \in Nat /\ items_in_buffer > 0
      /\ byte_offset \in Nat /\ filled[buf] \in Nat \cup {Unfilled}
      /\ out'.tag = BufferStartTag
  BY DEF SInv, BInv, IInv, TypeOK, Deliver, ItemsToDeliver
<1>3. byte_offset + items_in_buffer = filled[buf]
  BY <1>1, <1>2 DEF SInv, BInv, CountersLocateRest
<1> QED
  BY <1>2, <1>3 DEF BufferStartTag, Unfilled

(* The "buffer_start" tag is on the first piece of each refill, with the   *)
(* size of the refill, and on no other.                                    *)
THEOREM TagsAreRight ==
  ASSUME TurnTaking
  PROVE  Spec => TagAnnouncesRefill
<1> DEFINE A == out' # out /\ out'.ret > 0 =>
                  out'.tag = IF items_in_buffer = filled[buf] THEN filled[buf] ELSE 0
<1>1. SInv /\ [Next]_vars => [A]_vars
  <2> SUFFICES ASSUME SInv, [Next]_vars, out' # out, out'.ret > 0
               PROVE  out'.tag = IF items_in_buffer = filled[buf] THEN filled[buf] ELSE 0
    OBVIOUS
  <2>1. ASSUME NEW n \in 1..MaxOutput, Work(n)
        PROVE  out'.tag = IF items_in_buffer = filled[buf] THEN filled[buf] ELSE 0
    BY <2>1, DeliverTags DEF Work, ReturnEof, AskForRefill, Nothing, Eof
  <2>2. CASE WorkResumes
    <3>1. noutput_items \in 1..MaxOutput
      BY DEF SInv, BInv, IInv, TypeOK
    <3> QED
      BY <2>2, <3>1, DeliverTags DEF WorkResumes, ReturnEof, ReturnTimeout, WaitAgain, Nothing,
                                     Eof
  <2>3. CASE \/ \E b \in Buffers : StartOk(b)
             \/ StartFails \/ TimeoutExpires \/ Recall \/ Interrupt
             \/ StopCancels \/ StopRequests \/ StopJoins \/ StopReturns
    BY <2>3 DEF StartOk, StartFails, TimeoutExpires, Recall, Interrupt,
                StopCancels, StopRequests, StopJoins, StopReturns
  <2>4. CASE RefillThread
    BY <2>4 DEF RefillThread, RefillThreadRuns, DeviceDelivers, RefillCompletes,
                RefillFails, RefillCancelled, RefillPublishes, RefillThreadEnds
  <2>5. CASE SpuriousWakeup \/ (\E size \in Sizes : SetBufferSize(size)) \/ UNCHANGED vars
    BY <2>5 DEF SpuriousWakeup, SetBufferSize, vars
  <2> QED
    BY <2>1, <2>2, <2>3, <2>4, <2>5 DEF Next, BlockThread
<1> QED
  BY <1>1, TurnInvariance, PTL DEF Spec, TagAnnouncesRefill

-----------------------------------------------------------------------------
(* The block implements SampleStream.                                      *)

(* Nothing the stream is made of changes.                                  *)
LEMMA Stutter ==
  ASSUME IsOpen' = IsOpen, IsCapturing' = IsCapturing, Undelivered' = Undelivered,
         out' = out
  PROVE  [Stream!Next]_(Stream!vars)
  BY DEF Stream!vars, Given

(* A call that returns no sample takes none.                               *)
LEMMA QuietRefines ==
  ASSUME IsOpen' = IsOpen, IsCapturing' = IsCapturing, Undelivered' = Undelivered,
         out'.first \in Nat, out'.ret \in {0, Eof}
  PROVE  [Stream!Next]_(Stream!vars)
<1>1. Given' = {}
  BY DEF Given, Eof
<1> QED
  BY <1>1 DEF Stream!Next, Stream!DeliverNothing

(* A delivery gives the positions from byte_offset to the new byte_offset, *)
(* and leaves those from there on.                                         *)
LEMMA DeliverRefines ==
  ASSUME SInv, NEW n \in 1..MaxOutput, Deliver(n), TurnTaking,
         UNCHANGED <<thread_stopped, refill_pc, filled, buf>>, ~thread_stopped,
         block_pc \in {"idle", "woken"}, block_pc' \in {"idle", "parked"},
         ~please_refill_buffer
  PROVE  [Stream!Next]_(Stream!vars)
<1> USE DEF Running, InWork
<1> DEFINE items == ItemsToDeliver(n)
<1>1. IsOpen /\ ~IsCapturing /\ IsOpen' /\ ~IsCapturing' /\ ~Unpublished
  BY DEF SInv, Alternation, IsOpen, IsCapturing, Unpublished
<1>2. /\ byte_offset \in Nat /\ items_in_buffer \in Nat
      /\ filled[buf] \in Nat \cup {Unfilled}
      /\ byte_offset' = byte_offset + items
      /\ items \in Nat /\ items <= items_in_buffer
      /\ out'.ret = items /\ out'.first = byte_offset
  BY DEF SInv, BInv, IInv, TypeOK, Deliver, ItemsToDeliver, FirstRead
<1>3. /\ Undelivered = byte_offset..(filled[buf] - 1)
      /\ Undelivered' = byte_offset'..(filled[buf] - 1)
  BY <1>1 DEF Undelivered
<1>4. IsOpen' = IsOpen /\ IsCapturing' = IsCapturing
  BY <1>1 DEF IsOpen, IsCapturing
<1>5. CASE items = 0
  BY <1>2, <1>3, <1>4, <1>5, QuietRefines
<1>6. CASE items > 0
  <2>1. byte_offset + items_in_buffer = filled[buf]
    BY <1>1, <1>2, <1>6 DEF SInv, BInv, CountersLocateRest, IsOpen
  <2>2. byte_offset' - 1 \in Undelivered
    BY <1>2, <1>3, <1>6, <2>1
  <2>3. Given' = {s \in Undelivered : s <= byte_offset' - 1}
    BY <1>2, <1>3, <2>1 DEF Given
  <2>4. Undelivered' = Undelivered \ Given'
    BY <1>2, <1>3, <2>1, <2>3
  <2>5. Stream!Deliver(byte_offset' - 1)
    BY <1>1, <1>4, <2>3, <2>4 DEF Stream!Deliver
  <2> QED
    BY <2>2, <2>5 DEF Stream!Next
<1> QED
  BY <1>2, <1>5, <1>6

(* Whatever ends the stream, or happens while it is closed.                *)
LEMMA CloseRefines ==
  ASSUME ~IsOpen', out' = out
  PROVE  [Stream!Next]_(Stream!vars)
<1>1. ~IsCapturing' /\ Undelivered' = {}
  BY DEF IsCapturing, Undelivered
<1>2. CASE IsOpen
  BY <1>1, <1>2 DEF Stream!Next, Stream!Close, Given
<1>3. CASE ~IsOpen
  <2>1. ~IsCapturing /\ Undelivered = {}
    BY <1>3 DEF IsCapturing, Undelivered
  <2>2. IsOpen' = IsOpen /\ IsCapturing' = IsCapturing
    BY <1>1, <1>3, <2>1 DEF IsOpen, IsCapturing
  <2> QED
    BY <1>1, <2>1, <2>2, Stutter
<1> QED
  BY <1>2, <1>3

(* work() of a block whose refill thread has ended.                        *)
LEMMA EofRefines ==
  ASSUME ReturnEof, thread_stopped, thread_stopped'
  PROVE  [Stream!Next]_(Stream!vars)
<1>1. IsOpen = FALSE /\ IsOpen' = FALSE /\ IsCapturing = FALSE /\ IsCapturing' = FALSE
  BY DEF IsOpen, IsCapturing
<1> QED
  BY <1>1, QuietRefines DEF ReturnEof, Nothing, Undelivered

(* A request taken by the refill thread begins a capture.                  *)
LEMMA TakeRefines ==
  ASSUME SInv, refill_pc \in {"start", "wait", "woken"}, TakeRequestOrSleep,
         UNCHANGED <<block_pc, thread_stopped, filled, buf, byte_offset, out>>
  PROVE  [Stream!Next]_(Stream!vars)
<1>1. CASE ~IsOpen'
  BY <1>1, CloseRefines
<1>2. CASE IsOpen' /\ ~please_refill_buffer
  <2>1. /\ IsOpen' = IsOpen /\ IsCapturing' = IsCapturing
    BY <1>2 DEF IsOpen, IsCapturing, TakeRequestOrSleep
  <2> QED
    BY <2>1, Stutter DEF Undelivered
<1>3. CASE IsOpen' /\ please_refill_buffer
  <2>1. IsOpen /\ ~IsCapturing /\ IsCapturing'
    BY <1>3 DEF IsOpen, IsCapturing, TakeRequestOrSleep
  <2>2. items_in_buffer = 0
    BY <1>3, <2>1 DEF SInv, Alternation, IsOpen
  <2>3. byte_offset \in Nat /\ filled[buf] \in Int /\ byte_offset >= filled[buf]
    BY <2>1, <2>2 DEF SInv, BInv, IInv, TypeOK, BufferLife, CountersLocateRest,
                      Unpublished, Unfilled, IsOpen, IsCapturing
  <2>4. Undelivered = {} /\ Undelivered' = {}
    BY <2>1, <2>3 DEF Undelivered
  <2>5. IsOpen' = IsOpen
    BY <1>3, <2>1
  <2> QED
    BY <2>1, <2>4, <2>5 DEF Stream!Next, Stream!Begin, Given
<1> QED
  BY <1>1, <1>2, <1>3

LEMMA PublishRefines ==
  ASSUME SInv, RefillPublishes, TurnTaking
  PROVE  [Stream!Next]_(Stream!vars)
<1> USE DEF Running, InWork
<1>1. CASE ~IsOpen'
  BY <1>1, CloseRefines DEF RefillPublishes
<1>2. CASE IsOpen'
  <2>1. IsOpen
    BY <1>2 DEF RefillPublishes, NotifyWork, IsOpen
  <2>2. IsCapturing /\ ~please_refill_buffer
    BY <2>1 DEF RefillPublishes, IsOpen, IsCapturing, SInv, Alternation
  <2>3. ~IsCapturing'
    BY <2>2 DEF RefillPublishes, TakeRequestOrSleep, IsCapturing
  <2>4. /\ ret \in RefillSizes(buffer_size) /\ buffer_size \in Sizes
        /\ ret \in Nat /\ filled[buf] = ret
    BY DEF RefillPublishes, SInv, BInv, IInv, TypeOK, BufferLife, CountersLocateRest,
           Unpublished, RefillSizes
  <2>5. Undelivered' = 0..(ret - 1)
    BY <1>2, <2>3, <2>4 DEF RefillPublishes, Publish, Undelivered, library
  <2>6. IsOpen' = IsOpen
    BY <1>2, <2>1
  <2>7. Stream!Complete(ret)
    BY <2>1, <2>2, <2>3, <2>5, <2>6 DEF Stream!Complete, RefillPublishes, Given
  <2>8. ret \in UNION {RefillSizes(size) : size \in Sizes}
    BY <2>4
  <2> QED
    BY <2>7, <2>8 DEF Stream!Next
<1> QED
  BY <1>1, <1>2

LEMMA StartRefines ==
  ASSUME SInv, NEW b \in Buffers, StartOk(b)
  PROVE  [Stream!Next]_(Stream!vars)
<1> USE DEF Running, InWork
<1>1. ~IsOpen /\ IsOpen' /\ ~IsCapturing'
  BY DEF StartOk, IsOpen, IsCapturing
<1>2. filled'[buf'] = Unfilled /\ byte_offset' \in Nat
  BY DEF StartOk, CreateBuffer, SInv, BInv, IInv, TypeOK
<1>3. Undelivered' = {}
  BY <1>1, <1>2 DEF Undelivered, Unfilled
<1> QED
  BY <1>1, <1>3 DEF Stream!Next, Stream!Open, StartOk, Given

LEMMA StreamStep ==
  ASSUME SInv, [Next]_vars, TurnTaking
  PROVE  [Stream!Next]_(Stream!vars)
<1> USE DEF Running, InWork
<1>1. ASSUME NEW b \in Buffers, StartOk(b) PROVE [Stream!Next]_(Stream!vars)
  BY <1>1, StartRefines
<1>2. CASE StartFails
  BY <1>2, CloseRefines DEF StartFails, IsOpen
<1>3. ASSUME NEW n \in 1..MaxOutput, Work(n) PROVE [Stream!Next]_(Stream!vars)
  <2>1. CASE ReturnEof
    BY <1>3, <2>1, EofRefines DEF Work, ReturnEof, AskForRefill, Deliver
  <2>2. CASE AskForRefill
    <3>1. IsOpen' = IsOpen /\ IsCapturing' = IsCapturing
      BY <1>3, <2>2 DEF Work, AskForRefill, NotifyRefill, IsOpen, IsCapturing
    <3> QED
      BY <1>3, <2>2, <3>1, Stutter DEF Work, AskForRefill, Undelivered, library
  <2>3. CASE ~thread_stopped /\ ~WantsRefill /\ Deliver(n) /\ UNCHANGED refill_pc
    BY <1>3, <2>3, DeliverRefines DEF Work, WantsRefill, Deliver, library
  <2> QED
    BY <1>3, <2>1, <2>2, <2>3 DEF Work
<1>4. CASE WorkResumes
  <2>1. CASE ReturnEof
    BY <1>4, <2>1, EofRefines DEF WorkResumes, StopSeen, ReturnEof, ReturnTimeout,
                                  WaitAgain, Deliver
  <2>2. CASE ~thread_stopped /\ block_pc = "woken" /\ block_pc' = "wait"
                /\ UNCHANGED <<byte_offset, out>>
    <3>1. IsOpen' = IsOpen /\ IsCapturing' = IsCapturing
      BY <1>4, <2>2 DEF WorkResumes, WaitAgain, IsOpen, IsCapturing
    <3> QED
      BY <1>4, <2>2, <3>1, Stutter DEF WorkResumes, Undelivered, library
  <2>3. CASE /\ block_pc = "woken" /\ ~thread_stopped /\ ~please_refill_buffer
             /\ Deliver(noutput_items)
    <3>1. noutput_items \in 1..MaxOutput
      BY DEF SInv, BInv, IInv, TypeOK
    <3> QED
      BY <1>4, <2>3, <3>1, DeliverRefines DEF WorkResumes, Deliver, library
  <2> QED
    BY <1>4, <2>1, <2>2, <2>3 DEF WorkResumes, WaitAgain, StopSeen, SInv, Alternation
<1>5. CASE TimeoutExpires
  BY <1>5 DEF TimeoutExpires, TurnTaking
<1>6. CASE Recall
  <2>1. IsOpen' = IsOpen /\ IsCapturing' = IsCapturing
    BY <1>6 DEF Recall, handshake, IsOpen, IsCapturing
  <2> QED
    BY <1>6, <2>1, Stutter DEF Recall, handshake, library, Undelivered
<1>7. CASE Interrupt \/ StopCancels \/ StopRequests \/ StopJoins \/ StopReturns
  BY <1>7, CloseRefines DEF Interrupt, StopCancels, StopRequests, StopJoins,
                            StopReturns, IsOpen
<1>8. CASE RefillThreadRuns
  BY <1>8, TakeRefines DEF RefillThreadRuns, library
<1>9. CASE DeviceDelivers \/ RefillFails(Eio) \/ RefillCancelled
  <2>1. refill_pc = "refill" /\ refill_pc' = "return" /\ UNCHANGED <<block_pc, handshake, out>>
    BY <1>9 DEF DeviceDelivers, RefillCompletes, RefillCancelled, RefillFails
  <2>2. IsOpen' = IsOpen /\ IsCapturing' = IsCapturing
    BY <2>1 DEF handshake, IsOpen, IsCapturing
  <2>3. Undelivered = {} /\ Undelivered' = {}
    BY <2>1, <2>2 DEF Undelivered, IsCapturing
  <2> QED
    BY <2>1, <2>2, <2>3, Stutter
<1>10. CASE RefillPublishes
  BY <1>10, PublishRefines
<1>11. CASE RefillThreadEnds
  BY <1>11, CloseRefines DEF RefillThreadEnds, IsOpen
<1>12. CASE SpuriousWakeup
  BY <1>12 DEF SpuriousWakeup, TurnTaking
<1>13. ASSUME NEW size \in Sizes, SetBufferSize(size) PROVE [Stream!Next]_(Stream!vars)
  <2>1. ~IsOpen'
    BY <1>13 DEF SetBufferSize, MayResize, TurnTaking, IsOpen
  <2> QED
    BY <1>13, <2>1, CloseRefines DEF SetBufferSize
<1>14. CASE UNCHANGED vars
  <2>1. IsOpen' = IsOpen /\ IsCapturing' = IsCapturing
    BY <1>14 DEF vars, handshake, IsOpen, IsCapturing
  <2> QED
    BY <1>14, <2>1, Stutter DEF vars, handshake, library, Undelivered
<1> QED
  BY <1>1, <1>2, <1>3, <1>4, <1>5, <1>6, <1>7, <1>8, <1>9, <1>10, <1>11, <1>12,
     <1>13, <1>14 DEF Next, BlockThread, RefillThread

(* The three threads together return every sample of each capture, once    *)
(* and in order, and never capture over samples that are not returned yet; *)
(* empty refills do no harm.                                               *)
THEOREM Refinement ==
  ASSUME TurnTaking
  PROVE  Spec => ImplementsSampleStream
<1>1. Init => Stream!Init
  BY DEF Init, Nothing, Stream!Init, IsOpen, IsCapturing, Undelivered, Given, Running, InWork
<1>2. SInv /\ [Next]_vars => [Stream!Next]_(Stream!vars)
  BY StreamStep
<1> QED
  BY <1>1, <1>2, TurnInvariance, PTL DEF Spec, ImplementsSampleStream, Stream!Spec
=============================================================================
