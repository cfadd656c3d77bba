----------------------------- MODULE StreamBlocks -----------------------------
(***************************************************************************)
(* What making, starting, stopping and destroying the streaming blocks     *)
(* does to the channels of the devices: the make functions and the         *)
(* constructors of device_source, device_sink, the blocks derived from     *)
(* them and the complex float blocks around those.                         *)
(*                                                                         *)
(* Channel "voltageN" is the number N; receiver (or transmitter) r of a    *)
(* transceiver has the channels 2r - 2 (I) and 2r - 1 (Q).  Which channels *)
(* of a device are enabled is state of the libiio context, which blocks    *)
(* share and which outlives them.                                          *)
(***************************************************************************)
EXTENDS Integers, Sequences, SequencesExt, FiniteSets

CONSTANTS
  Blocks,         \* the blocks an application may have at one time
  Requests,       \* what it makes them with, see Request
  Channels,       \* libiio: the channels of each device, in its order
  ScanElements    \* libiio: those of them that can be enabled

Devices == DOMAIN Channels
Absent == [device |-> "none"]
Nobody == "nobody"

(* The arguments of the device_source or device_sink constructor, and the  *)
(* receivers (transmitters) the complex float block around it was asked    *)
(* for, <<>> when there is none.                                           *)
Request == [sink : BOOLEAN, derived : BOOLEAN, device : Devices,
            channels : Seq(Nat), receivers : Seq(BOOLEAN)]

VARIABLES
  request,        \* what each block was made with, Absent if it does not exist
  channel_list,   \* the channels it keeps, in order
  enabled,        \* libiio: the enabled channels of each device
  scan,           \* libiio: the channels in the block's buffer, {} without one
  owner           \* history: the block whose constructor was the last to
                  \* enable channels of the device, Nobody if it threw

vars == <<request, channel_list, enabled, scan, owner>>

Exists(b) == request[b] # Absent

-----------------------------------------------------------------------------
(* The make functions, down to the arguments of the device block.          *)

(* get_channels_vector: the channels whose flag is set. *)
If(flag, channel) == IF flag THEN <<channel>> ELSE <<>>

FourChannels(on) ==
  If(on[1], 0) \o If(on[2], 1) \o If(on[3], 2) \o If(on[4], 3)

EightChannels(on) ==
  FourChannels(on) \o If(on[5], 4) \o If(on[6], 5) \o If(on[7], 6) \o If(on[8], 7)

DeviceBlock(sink, device, channels) ==
  [sink |-> sink, derived |-> FALSE, device |-> device, channels |-> channels,
   receivers |-> <<>>]

Derived(sink, device, channels) ==
  [DeviceBlock(sink, device, channels) EXCEPT !.derived = TRUE]

Fmcomms2Source(on) == Derived(FALSE, "cf-ad9361-lpc", FourChannels(on))
Fmcomms5Source(on) == Derived(FALSE, "cf-ad9361-A", EightChannels(on))
Fmcomms2Sink(on) == Derived(TRUE, "cf-ad9361-dds-core-lpc", FourChannels(on))
Fmcomms5Sink(on) == Derived(TRUE, "cf-ad9361-dds-core-lpc", EightChannels(on))

(* The complex float blocks ask for both channels of each receiver. *)
BothChannels(receivers) ==
  [i \in 1..(2 * Len(receivers)) |-> receivers[(i + 1) \div 2]]

Complex(block, receivers) == [block EXCEPT !.receivers = receivers]

Fmcomms2SourceF32c(rx) == Complex(Fmcomms2Source(BothChannels(rx)), rx)
Fmcomms5SourceF32c(rx) == Complex(Fmcomms5Source(BothChannels(rx)), rx)
Fmcomms2SinkF32c(tx) == Complex(Fmcomms2Sink(BothChannels(tx)), tx)
Fmcomms5SinkF32c(tx) == Complex(Fmcomms5Sink(BothChannels(tx)), tx)

PlutoSource == Complex(Fmcomms2Source(<<TRUE, TRUE, FALSE, FALSE>>), <<TRUE, FALSE>>)
PlutoSink == Complex(Fmcomms2Sink(<<TRUE, TRUE, FALSE, FALSE>>), <<TRUE, FALSE>>)

(* The requests for a complex float block. *)
ComplexRequests ==
  {Fmcomms2SourceF32c(rx) : rx \in [1..2 -> BOOLEAN]}
  \cup {Fmcomms5SourceF32c(rx) : rx \in [1..4 -> BOOLEAN]}
  \cup {Fmcomms2SinkF32c(tx) : tx \in [1..2 -> BOOLEAN]}
  \cup {Fmcomms5SinkF32c(tx) : tx \in [1..4 -> BOOLEAN]}
  \cup {PlutoSource, PlutoSink}

(* What the constants must be. *)
Parameters ==
  /\ Nobody \notin Blocks
  /\ Requests \subseteq Request
  /\ \A r \in Requests : r.receivers # <<>> => r \in ComplexRequests
  /\ DOMAIN ScanElements = Devices
  /\ \A d \in Devices : Channels[d] \in Seq(Nat) /\ ScanElements[d] \subseteq Range(Channels[d])

(* How many of the first n receivers are asked for; num_streams. *)
Asked(r, n) == Cardinality({i \in 1..n : r.receivers[i]})
NumStreams(r) == Asked(r, Len(r.receivers))

(* Mutant: the two halves are exchanged. *)
Crossed(r) ==
  [port \in 1..(2 * NumStreams(r)) |->
     [stream |-> (port + 1) \div 2, half |-> IF port % 2 = 1 THEN "Q" ELSE "I"]]

(* The constructor of the complex float block connects ports 2i and 2i + 1 *)
(* of the inner block to the real and the imaginary half of stream i.      *)
Wires(r) ==
  [port \in 1..(2 * NumStreams(r)) |->
     [stream |-> (port + 1) \div 2, half |-> IF port % 2 = 1 THEN "I" ELSE "Q"]]

-----------------------------------------------------------------------------
(* The constructors of device_source and device_sink.                      *)

(* Mutant: what was enabled before stays enabled. *)
KeepsOthers(d, list) == enabled[d] \cup (Range(list) \cap ScanElements[d])

(* All channels of the device are disabled, then those of the list enabled. *)
OnlyThese(d, list) == Range(list) \cap ScanElements[d]

(* No channels named: all of the device. *)
Wanted(r) == IF r.channels = <<>> THEN Channels[r.device] ELSE r.channels

(* A named channel must exist, and that of a sink must let itself enable. *)
Usable(r, c) ==
  r.channels = <<>> \/ c \in (IF r.sink THEN ScanElements ELSE [d \in Devices |-> Range(Channels[d])])[r.device]

AllUsable(r) == \A i \in DOMAIN Wanted(r) : Usable(r, Wanted(r)[i])

(* libiio opens a device for one buffer at a time, with at least one       *)
(* channel.                                                                *)
Busy(d) == \E b \in Blocks : Exists(b) /\ request[b].device = d /\ scan[b] # {}

SetsChannels(d, list, b) ==
  /\ enabled' = [enabled EXCEPT ![d] = OnlyThese(d, list)]
  /\ owner' = [owner EXCEPT ![d] = b]

(* A sink creates its buffer in the constructor, a source in start(). *)
Make(b, r) ==
  /\ ~Exists(b) /\ AllUsable(r)
  /\ SetsChannels(r.device, Wanted(r), b)
  /\ request' = [request EXCEPT ![b] = r]
  /\ channel_list' = [channel_list EXCEPT ![b] = Wanted(r)]
  /\ IF r.sink
     THEN /\ ~Busy(r.device) /\ enabled'[r.device] # {}
          /\ scan' = [scan EXCEPT ![b] = enabled'[r.device]]
     ELSE UNCHANGED scan

(* "Channel not found" or "Channel not enabled" at the i-th name. *)
MakeThrowsHalfway(b, r) ==
  /\ ~Exists(b)
  /\ \E i \in DOMAIN Wanted(r) :
       /\ ~Usable(r, Wanted(r)[i])
       /\ \A j \in 1..(i - 1) : Usable(r, Wanted(r)[j])
       /\ SetsChannels(r.device, SubSeq(Wanted(r), 1, i - 1), Nobody)
  /\ UNCHANGED <<request, channel_list, scan>>

(* set_params, the buffer or the second phy fail. *)
MakeThrowsLate(b, r) ==
  /\ ~Exists(b) /\ AllUsable(r)
  /\ SetsChannels(r.device, Wanted(r), Nobody)
  /\ UNCHANGED <<request, channel_list, scan>>

(* start() of a source creates the buffer. *)
Start(b) ==
  /\ Exists(b) /\ ~request[b].sink /\ scan[b] = {}
  /\ ~Busy(request[b].device) /\ enabled[request[b].device] # {}
  /\ scan' = [scan EXCEPT ![b] = enabled[request[b].device]]
  /\ UNCHANGED <<request, channel_list, enabled, owner>>

(* set_buffer_size of a started source replaces the buffer. *)
Resize(b) ==
  /\ Exists(b) /\ ~request[b].sink /\ scan[b] # {}
  /\ scan' = [scan EXCEPT ![b] = enabled[request[b].device]]
  /\ UNCHANGED <<request, channel_list, enabled, owner>>

(* stop() of a source destroys it. *)
Stop(b) ==
  /\ Exists(b) /\ ~request[b].sink /\ scan[b] # {}
  /\ scan' = [scan EXCEPT ![b] = {}]
  /\ UNCHANGED <<request, channel_list, enabled, owner>>

(* The channels stay enabled. *)
Destroy(b) ==
  /\ Exists(b) /\ (request[b].sink \/ scan[b] = {})
  /\ request' = [request EXCEPT ![b] = Absent]
  /\ channel_list' = [channel_list EXCEPT ![b] = <<>>]
  /\ scan' = [scan EXCEPT ![b] = {}]
  /\ owner' = [d \in Devices |-> IF owner[d] = b THEN Nobody ELSE owner[d]]
  /\ UNCHANGED enabled

(* A local context finds the channels as the last program left them. *)
Init ==
  /\ request = [b \in Blocks |-> Absent]
  /\ channel_list = [b \in Blocks |-> <<>>]
  /\ enabled \in {[d \in Devices |-> {}], ScanElements}
  /\ scan = [b \in Blocks |-> {}]
  /\ owner = [d \in Devices |-> Nobody]

Block(b) ==
  \/ \E r \in Requests : Make(b, r) \/ MakeThrowsHalfway(b, r) \/ MakeThrowsLate(b, r)
  \/ Start(b) \/ Resize(b) \/ Stop(b) \/ Destroy(b)

Next == \E b \in Blocks : Block(b)

Spec == Init /\ [][Next]_vars

-----------------------------------------------------------------------------
(* fmcomms*_f32c, get_channels_vector and the constructors together: every *)
(* receiver asked for has its stream, in order and whichever are left out; *)
(* the two halves of the stream are its I and its Q channel, and every     *)
(* port the inner block has a channel for is connected.                    *)
StreamIsOneReceiver ==
  \A b \in Blocks : Exists(b) /\ NumStreams(request[b]) > 0 =>
    LET wires == Wires(request[b]) IN
    /\ DOMAIN wires = DOMAIN channel_list[b]
    /\ \A i \in DOMAIN request[b].receivers : request[b].receivers[i] =>
         \A half \in {"I", "Q"} :
           \E port \in DOMAIN wires :
             /\ wires[port] = [stream |-> Asked(request[b], i), half |-> half]
             /\ channel_list[b][port] = 2 * i - (IF half = "I" THEN 2 ELSE 1)

(* device_source, device_sink: the buffer of the block that was the last   *)
(* to set up a device has exactly the block's channels, and they stay      *)
(* enabled, whatever blocks were made, failed half-way, were resized or    *)
(* destroyed before.                                                       *)
HasItsChannels ==
  \A b \in Blocks : Exists(b) /\ owner[request[b].device] = b =>
    LET own == Range(channel_list[b]) \cap ScanElements[request[b].device] IN
    /\ enabled[request[b].device] = own
    /\ scan[b] \in {{}, own}
=============================================================================
