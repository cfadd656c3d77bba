---------------------------- MODULE MCTransmitter ----------------------------
(* An instance of Transmitter for TLC: a transceiver with two receive      *)
(* channels on one device and eight on the other, and a transmit device    *)
(* with eight channels and a tone (channel 10) that cannot be enabled.     *)
(* Buffer sizes are ones that interpolation + 1 divides.                   *)
EXTENDS Transmitter, TLC

Lpc == "cf-ad9361-lpc"
Dds == "cf-ad9361-dds-core-lpc"

Eight == <<0, 1, 2, 3, 4, 5, 6, 7>>

BoardChannels == (Lpc :> <<0, 1>>) @@ ("cf-ad9361-A" :> Eight) @@ (Dds :> Eight \o <<10>>)
BoardScanElements == (Lpc :> 0..1) @@ ("cf-ad9361-A" :> 0..7) @@ (Dds :> 0..7)

(* The make functions, apart from the blocks that are made. *)
Board == INSTANCE StreamBlocks
           WITH Blocks <- {}, Requests <- {}, Channels <- BoardChannels,
                ScanElements <- BoardScanElements

BoardRequests == {
  Board!PlutoSource,
  Board!Fmcomms2Source(<<FALSE, TRUE, FALSE, FALSE>>),
  Board!Fmcomms2SourceF32c(<<TRUE, TRUE>>),
  Board!Fmcomms5SourceF32c(<<FALSE, TRUE, FALSE, TRUE>>),
  Board!DeviceBlock(FALSE, Lpc, <<>>),
  Board!PlutoSink,
  Board!Fmcomms2SinkF32c(<<FALSE, TRUE>>),
  Board!Fmcomms5SinkF32c(<<TRUE, FALSE, TRUE, TRUE>>),
  Board!Fmcomms2Sink(<<FALSE, FALSE, TRUE, TRUE>>),
  Board!DeviceBlock(TRUE, Dds, <<>>),
  Board!DeviceBlock(TRUE, Dds, <<0, 10, 1>>) }

BoardSetups ==
  {[buffer_size |-> s[1], interpolation |-> s[2], cyclic |-> c, derived |-> d] :
     s \in {<<1, 0>>, <<2, 0>>}, c \in BOOLEAN, d \in BOOLEAN}
  \cup
  {[buffer_size |-> s[1], interpolation |-> s[2], cyclic |-> c, derived |-> FALSE] :
     s \in {<<4, 1>>, <<6, 2>>, <<3, 2>>}, c \in BOOLEAN}
=============================================================================
