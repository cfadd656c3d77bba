----------------------------- MODULE DeviceSink -----------------------------
(***************************************************************************)
(* gr::iio::device_sink_impl, and the work() of the blocks derived from    *)
(* it: samples of the flowgraph are laid out in the memory of a libiio     *)
(* buffer, one every interpolation + 1 steps, and pushed to the device.    *)
(*                                                                         *)
(* The samples the flowgraph offers are numbered 1, 2, ..., so that one    *)
(* lost, repeated or sent out of order shows; a flowgraph that is          *)
(* restarted goes on with the next one not consumed.                       *)
(***************************************************************************)
EXTENDS Integers, Sequences

CONSTANTS
  Setups,     \* what a block can be made with: buffer size, interpolation,
              \* cyclic buffer or not, and whether it is a derived block
              \* (fmcomms2_sink, fmcomms5_sink)
  MaxInput    \* bound: samples the flowgraph produces

Setup == [buffer_size : Nat \ {0}, interpolation : Nat, cyclic : BOOLEAN, derived : BOOLEAN]

ASSUME SinkAssumption == Setups \subseteq Setup /\ MaxInput \in Nat

VARIABLES
  setup,      \* the constructor arguments
  memory,     \* what each step of the buffer holds: a sample, Silence or Junk
  consumed,   \* samples consumed
  sent,       \* the memories the device was given, in order
  air,        \* what the last accepted push gave the device, <<>> before it
  state       \* of the block: "running", or "done" when it told the
              \* scheduler so, or "restarted" after that, or "destroyed"

vars == <<setup, memory, consumed, sent, air, state>>

Silence == 0
Junk == -1

buffer_size == setup.buffer_size
interpolation == setup.interpolation
Slots == 0..(buffer_size - 1)

TypeOK ==
  /\ setup \in Setups
  /\ memory \in [Slots -> {Junk} \cup 0..MaxInput]
  /\ consumed \in 0..MaxInput
  /\ sent \in Seq([Slots -> 0..MaxInput])
  /\ air \in {<<>>} \cup [Slots -> 0..MaxInput]
  /\ state \in {"running", "done", "restarted", "destroyed"}

(* The output multiple, and what every work() call consumes. *)
Portion == buffer_size \div (interpolation + 1)

(* set_output_multiple throws when the portion is empty; the memory of a   *)
(* new buffer holds anything.                                              *)
Init ==
  /\ setup \in Setups /\ Portion > 0
  /\ memory = [slot \in Slots |-> Junk]
  /\ consumed = 0 /\ sent = <<>> /\ air = <<>>
  /\ state = "running"

-----------------------------------------------------------------------------
(* Mutant: the memory is not cleared. *)
Uncleared == memory

(* With interpolation, work() first clears the memory. *)
Cleared == IF interpolation >= 1 THEN [slot \in Slots |-> Silence] ELSE memory

(* Mutant: the loop stops one sample short. *)
FilledShort(n) ==
  [slot \in Slots |->
     LET k == slot \div (interpolation + 1) IN
     IF slot % (interpolation + 1) = 0 /\ k < n - 1 THEN consumed + k + 1
                                                    ELSE Cleared[slot]]

(* channel_write: sample k of the n offered goes to step                   *)
(* k * (interpolation + 1), as long as that is inside the buffer.          *)
Filled(n) ==
  [slot \in Slots |->
     LET k == slot \div (interpolation + 1) IN
     IF slot % (interpolation + 1) = 0 /\ k < n THEN consumed + k + 1
                                                ELSE Cleared[slot]]

(* Mutant: everything offered is consumed. *)
ConsumeAll(n) == consumed' = consumed + n

ConsumeEach(n) == consumed' = consumed + Portion

(* Mutant: work() does not tell the scheduler that it is done. *)
CarriesOn == "running"

(* device_sink goes on; the derived blocks are done after the one push of  *)
(* a cyclic buffer.                                                        *)
AfterPush == IF setup.derived /\ setup.cyclic THEN "done" ELSE "running"

(* libiio refuses a second push of a cyclic buffer. *)
Accepts == ~(setup.cyclic /\ air # <<>>)

Working == state \in {"running", "restarted"}

(* The scheduler offers a multiple of the portion, as many as it has. *)
Offers(n) == n > 0 /\ n % Portion = 0 /\ consumed + n <= MaxInput

Work(n) ==
  /\ Working /\ Offers(n) /\ Accepts
  /\ memory' = Filled(n)
  /\ air' = memory'
  /\ sent' = Append(sent, memory')
  /\ ConsumeEach(n)
  /\ state' = AfterPush
  /\ UNCHANGED setup

(* The push fails: EOF, and nothing is consumed. *)
WorkFails(n) ==
  /\ Working /\ Offers(n)
  /\ memory' = Filled(n)
  /\ state' = "done"
  /\ UNCHANGED <<setup, consumed, sent, air>>

(* The application stops the flowgraph and starts it again: the scheduler  *)
(* calls work() again, done or not, and the block, which has neither       *)
(* start() nor stop(), is as it was.                                       *)
Restart ==
  /\ state = "done"
  /\ state' = "restarted"
  /\ UNCHANGED <<setup, memory, consumed, sent, air>>

(* The destructor destroys the buffer, which ends a cyclic transmission. *)
Destroy ==
  /\ state # "destroyed"
  /\ state' = "destroyed"
  /\ air' = <<>>
  /\ UNCHANGED <<setup, memory, consumed, sent>>

Next ==
  \/ \E n \in 1..MaxInput : Work(n) \/ WorkFails(n)
  \/ Restart \/ Destroy

Spec == Init /\ [][Next]_vars

-----------------------------------------------------------------------------
(* What the device has in each slot of each push, and which of them comes  *)
(* before which.                                                           *)
Places == (1..Len(sent)) \X Slots
Given(place) == sent[place[1]][place[2]]
Before(one, other) == one[1] < other[1] \/ (one[1] = other[1] /\ one[2] < other[2])

(* work(), channel_write(), consume_each(): the device is given every      *)
(* sample that is consumed, once and in order, and no other.               *)
SentIsConsumed ==
  /\ \A sample \in 1..consumed : \E place \in Places : Given(place) = sample
  /\ \A place \in Places : Given(place) \in {Silence} \cup 1..consumed
  /\ \A one, other \in Places :
       Before(one, other) /\ Given(one) # Silence /\ Given(other) # Silence =>
         Given(one) < Given(other)

(* work(): what the last push gave the device is the last portion          *)
(* consumed, at its steps, with silence between: nothing of an earlier     *)
(* push or of the initial memory.                                          *)
AirIsLastPortion ==
  air # <<>> =>
    \A slot \in Slots :
      air[slot] = IF slot % (interpolation + 1) = 0
                  THEN consumed - Portion + slot \div (interpolation + 1) + 1
                  ELSE Silence

(* fmcomms2_sink, fmcomms5_sink: once a cyclic buffer of a derived block   *)
(* is on the air, no later work() writes to its memory, unless the         *)
(* application restarts the flowgraph.                                     *)
CyclicPushedOnce ==
  [][setup.derived /\ setup.cyclic /\ air # <<>> /\ memory' # memory => state = "restarted"]_vars
=============================================================================
