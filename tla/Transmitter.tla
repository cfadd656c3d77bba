----------------------------- MODULE Transmitter -----------------------------
(***************************************************************************)
(* A transmitting block from make to destruction among other blocks: the   *)
(* constructors of StreamBlocks set up its channels and its buffer, the    *)
(* work() of DeviceSink fills and pushes that buffer.                      *)
(*                                                                         *)
(* The other blocks are sources: a second block on the transmit device     *)
(* would take its channels away, which HasItsChannels leaves aside.        *)
(***************************************************************************)
EXTENDS DeviceSink, FiniteSets

CONSTANTS
  Receivers, Requests, Channels, ScanElements,
  Sink            \* the transmitting block

VARIABLES request, channel_list, enabled, scan, owner

Stream == INSTANCE StreamBlocks WITH Blocks <- Receivers \cup {Sink}

ASSUME TransmitterAssumption == Sink \notin Receivers /\ Stream!Parameters

streamVars == <<request, channel_list, enabled, scan, owner>>
transmitterVars == <<vars, streamVars>>

TransmitterInit == Init /\ Stream!Init

(* The constructor arguments that DeviceSink abstracts from agree with the *)
(* ones it keeps: the derived blocks pass 0 for the interpolation.         *)
Agrees(r) == setup.derived = r.derived /\ (r.derived => interpolation = 0)

(* The destructor of the sink ends the transmission and frees the buffer   *)
(* and the block.                                                          *)
Destroyed == Stream!Destroy(Sink) /\ Destroy

(* The transmitting block is made once; until then, and if that throws,    *)
(* there is no buffer to fill.                                             *)
TransmitterMade(r) ==
  /\ r.sink /\ Agrees(r) /\ state = "running"
  /\ Stream!Make(Sink, r) \/ Stream!MakeThrowsHalfway(Sink, r) \/ Stream!MakeThrowsLate(Sink, r)
  /\ UNCHANGED vars

ReceiverMade(b, r) ==
  /\ ~r.sink
  /\ Stream!Make(b, r) \/ Stream!MakeThrowsHalfway(b, r) \/ Stream!MakeThrowsLate(b, r)
  /\ UNCHANGED vars

ReceiverStep(b) ==
  /\ Stream!Start(b) \/ Stream!Resize(b) \/ Stream!Stop(b) \/ Stream!Destroy(b)
  /\ UNCHANGED vars

(* work() of the sink uses the channels and leaves them alone. *)
Transmit ==
  /\ Stream!Exists(Sink)
  /\ \E n \in 1..MaxInput : Work(n) \/ WorkFails(n)
  /\ UNCHANGED streamVars

Restarted ==
  /\ Stream!Exists(Sink)
  /\ Restart
  /\ UNCHANGED streamVars

TransmitterNext ==
  \/ \E r \in Requests : TransmitterMade(r)
  \/ \E b \in Receivers, r \in Requests : ReceiverMade(b, r)
  \/ \E b \in Receivers : ReceiverStep(b)
  \/ Transmit \/ Restarted
  \/ Destroyed

TransmitterSpec == TransmitterInit /\ [][TransmitterNext]_transmitterVars

-----------------------------------------------------------------------------
(* See StreamBlocks. *)
StreamIsOneReceiver == Stream!StreamIsOneReceiver
HasItsChannels == Stream!HasItsChannels
=============================================================================
