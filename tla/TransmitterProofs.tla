-------------------------- MODULE TransmitterProofs --------------------------
(***************************************************************************)
(* What TLAPS proves of Transmitter, for every set of blocks, of requests  *)
(* and of setups, every device and every MaxInput.                         *)
(***************************************************************************)
EXTENDS Transmitter, FiniteSetTheorems, TLAPS

USE TransmitterAssumption, SinkAssumption

All == Receivers \cup {Sink}

-----------------------------------------------------------------------------
(* What an operation of a block does to the channels.                      *)

(* The channels of the device that the block's constructor enabled. *)
Own(b) == Stream!Range(channel_list[b]) \cap ScanElements[request[b].device]

StreamTypeOK ==
  /\ request \in [All -> Requests \cup {Stream!Absent}]
  /\ DOMAIN channel_list = All
  /\ DOMAIN enabled = Stream!Devices
  /\ DOMAIN scan = All
  /\ owner \in [Stream!Devices -> All \cup {Stream!Nobody}]

(* A device is owned by a block of its own, and only a block that exists   *)
(* has a buffer.                                                           *)
OwnerIsThere ==
  \A d \in Stream!Devices : owner[d] # Stream!Nobody =>
    request[owner[d]] # Stream!Absent /\ request[owner[d]].device = d

NoBufferWithoutBlock == \A b \in All : ~Stream!Exists(b) => scan[b] = {}

StreamInv == StreamTypeOK /\ OwnerIsThere /\ NoBufferWithoutBlock /\ HasItsChannels

LEMMA RequestFacts ==
  /\ Stream!Absent \notin Requests
  /\ Stream!Nobody \notin All
  /\ \A r \in Requests : r.device \in Stream!Devices
<1>1. /\ Requests \subseteq Stream!Request
      /\ Stream!Nobody \notin All
  BY DEF Stream!Parameters, All
<1>2. Stream!Absent \notin Stream!Request
  <2> SUFFICES ASSUME Stream!Absent \in Stream!Request PROVE FALSE
    OBVIOUS
  <2>1. DOMAIN Stream!Absent = {"device"}
    BY DEF Stream!Absent
  <2>2. "sink" \in DOMAIN Stream!Absent
    BY DEF Stream!Request
  <2> QED
    BY <2>1, <2>2
<1>3. \A r \in Stream!Request : r.device \in Stream!Devices
  BY DEF Stream!Request
<1> QED
  BY <1>1, <1>2, <1>3

LEMMA StreamInvInit == Stream!Init => StreamInv
<1> SUFFICES ASSUME Stream!Init PROVE StreamInv
  OBVIOUS
<1>1. StreamTypeOK
  BY DEF Stream!Init, StreamTypeOK, Stream!Devices, All, Stream!Parameters
<1>2. \A b \in All : ~Stream!Exists(b)
  BY DEF Stream!Init, Stream!Exists, All
<1>3. \A d \in Stream!Devices : owner[d] = Stream!Nobody
  BY DEF Stream!Init
<1>4. NoBufferWithoutBlock
  BY DEF NoBufferWithoutBlock, Stream!Init, All
<1> QED
  BY <1>1, <1>2, <1>3, <1>4
  DEF StreamInv, OwnerIsThere, HasItsChannels, Stream!HasItsChannels, All

(* A constructor that throws leaves its device to nobody. *)
LEMMA ThrowKeepsStreamInv ==
  ASSUME StreamInv, NEW b \in All, NEW r \in Requests,
         Stream!MakeThrowsHalfway(b, r) \/ Stream!MakeThrowsLate(b, r)
  PROVE  StreamInv'
<1> USE DEF StreamInv
<1>1. PICK list : Stream!SetsChannels(r.device, list, Stream!Nobody)
  BY DEF Stream!MakeThrowsHalfway, Stream!MakeThrowsLate
<1>2. UNCHANGED <<request, channel_list, scan>>
  BY DEF Stream!MakeThrowsHalfway, Stream!MakeThrowsLate
<1>3. /\ r.device \in Stream!Devices
      /\ DOMAIN enabled' = Stream!Devices
      /\ owner' = [owner EXCEPT ![r.device] = Stream!Nobody]
      /\ \A d \in Stream!Devices : d # r.device => enabled'[d] = enabled[d]
  BY <1>1, RequestFacts DEF Stream!SetsChannels, StreamTypeOK
<1>4. StreamTypeOK'
  BY <1>2, <1>3 DEF StreamTypeOK
<1>5. OwnerIsThere'
  BY <1>2, <1>3 DEF OwnerIsThere, StreamTypeOK, Stream!Exists
<1>6. NoBufferWithoutBlock'
  BY <1>2 DEF NoBufferWithoutBlock, Stream!Exists
<1>7. HasItsChannels'
  <2> SUFFICES ASSUME NEW c \in All, Stream!Exists(c)', owner'[request'[c].device] = c
               PROVE  /\ enabled'[request'[c].device] = Own(c)'
                      /\ scan'[c] \in {{}, Own(c)'}
    BY DEF HasItsChannels, Stream!HasItsChannels, Own, All
  <2>1. request[c] \in Requests /\ request[c].device \in Stream!Devices
    BY <1>2, RequestFacts DEF Stream!Exists, StreamTypeOK
  <2>2. request[c].device # r.device
    BY <1>2, <1>3, <2>1, RequestFacts DEF StreamTypeOK
  <2>3. enabled'[request[c].device] = enabled[request[c].device] /\ owner[request[c].device] = c
    BY <1>2, <1>3, <2>1, <2>2 DEF StreamTypeOK
  <2> QED
    BY <1>2, <2>3 DEF HasItsChannels, Stream!HasItsChannels, Own, All, Stream!Exists
<1> QED
  BY <1>4, <1>5, <1>6, <1>7

(* A constructor that ends makes its block the owner of the device. *)
LEMMA MakeKeepsStreamInv ==
  ASSUME StreamInv, NEW b \in All, NEW r \in Requests, Stream!Make(b, r)
  PROVE  StreamInv'
<1> USE DEF StreamInv
<1> DEFINE list == Stream!Wanted(r)
           own == Stream!Range(list) \cap ScanElements[r.device]
<1>1. /\ r.device \in Stream!Devices
      /\ ~Stream!Exists(b)
      /\ DOMAIN enabled' = Stream!Devices
      /\ enabled'[r.device] = own
      /\ \A d \in Stream!Devices : d # r.device => enabled'[d] = enabled[d]
      /\ owner' = [owner EXCEPT ![r.device] = b]
      /\ request' = [request EXCEPT ![b] = r]
      /\ channel_list' = [channel_list EXCEPT ![b] = list]
  BY RequestFacts DEF Stream!Make, Stream!SetsChannels, Stream!OnlyThese, StreamTypeOK
<1>2. /\ DOMAIN scan' = All
      /\ scan'[b] \in {{}, own}
      /\ \A c \in All : c # b => scan'[c] = scan[c]
  BY <1>1 DEF Stream!Make, StreamTypeOK, NoBufferWithoutBlock
<1>3. /\ request'[b] = r /\ channel_list'[b] = list
      /\ \A c \in All : c # b => request'[c] = request[c] /\ channel_list'[c] = channel_list[c]
  BY <1>1 DEF StreamTypeOK
<1>4. StreamTypeOK'
  BY <1>1, <1>2 DEF StreamTypeOK
<1>5. OwnerIsThere'
  <2> SUFFICES ASSUME NEW d \in Stream!Devices, owner'[d] # Stream!Nobody
               PROVE  request'[owner'[d]] # Stream!Absent /\ request'[owner'[d]].device = d
    BY DEF OwnerIsThere
  <2>1. CASE d = r.device
    BY <1>1, <1>3, <2>1, RequestFacts DEF StreamTypeOK, Stream!Exists
  <2>2. CASE d # r.device
    <3>1. owner'[d] = owner[d] /\ owner[d] \in All
      BY <1>1, <2>2 DEF StreamTypeOK
    <3>2. request[owner[d]] # Stream!Absent /\ request[owner[d]].device = d
      BY <3>1 DEF OwnerIsThere
    <3> QED
      BY <1>1, <1>3, <3>1, <3>2 DEF Stream!Exists
  <2> QED
    BY <2>1, <2>2
<1>6. NoBufferWithoutBlock'
  BY <1>2, <1>3, RequestFacts DEF NoBufferWithoutBlock, Stream!Exists
<1>7. HasItsChannels'
  <2> SUFFICES ASSUME NEW c \in All, Stream!Exists(c)', owner'[request'[c].device] = c
               PROVE  /\ enabled'[request'[c].device] = Own(c)'
                      /\ scan'[c] \in {{}, Own(c)'}
    BY DEF HasItsChannels, Stream!HasItsChannels, Own, All
  <2>1. CASE c = b
    BY <1>1, <1>2, <1>3, <2>1 DEF Own
  <2>2. CASE c # b
    <3>1. request[c] \in Requests /\ request[c].device \in Stream!Devices
      BY <1>3, <2>2, RequestFacts DEF Stream!Exists, StreamTypeOK
    <3>2. request[c].device # r.device
      BY <1>1, <1>3, <2>2 DEF StreamTypeOK
    <3>3. /\ enabled'[request[c].device] = enabled[request[c].device]
          /\ owner[request[c].device] = c
      BY <1>1, <1>3, <2>2, <3>1, <3>2 DEF StreamTypeOK
    <3> QED
      BY <1>2, <1>3, <2>2, <3>3
      DEF HasItsChannels, Stream!HasItsChannels, Own, All, Stream!Exists
  <2> QED
    BY <2>1, <2>2
<1> QED
  BY <1>4, <1>5, <1>6, <1>7

(* A source opens, replaces or drops its buffer. *)
LEMMA BufferKeepsStreamInv ==
  ASSUME StreamInv, NEW b \in All,
         Stream!Start(b) \/ Stream!Resize(b) \/ Stream!Stop(b)
  PROVE  StreamInv'
<1> USE DEF StreamInv
<1>1. /\ Stream!Exists(b)
      /\ UNCHANGED <<request, channel_list, enabled, owner>>
      /\ DOMAIN scan' = All
      /\ scan'[b] \in {{}, enabled[request[b].device]}
      /\ \A c \in All : c # b => scan'[c] = scan[c]
  BY DEF Stream!Start, Stream!Resize, Stream!Stop, StreamTypeOK
<1>2. StreamTypeOK' /\ OwnerIsThere'
  BY <1>1 DEF StreamTypeOK, OwnerIsThere, Stream!Exists
<1>3. NoBufferWithoutBlock'
  BY <1>1 DEF NoBufferWithoutBlock, Stream!Exists
<1>4. HasItsChannels'
  BY <1>1 DEF HasItsChannels, Stream!HasItsChannels, All, Stream!Exists
<1> QED
  BY <1>2, <1>3, <1>4

LEMMA DestroyKeepsStreamInv ==
  ASSUME StreamInv, NEW b \in All, Stream!Destroy(b)
  PROVE  StreamInv'
<1> USE DEF StreamInv
<1>1. /\ request' = [request EXCEPT ![b] = Stream!Absent]
      /\ channel_list' = [channel_list EXCEPT ![b] = <<>>]
      /\ scan' = [scan EXCEPT ![b] = {}]
      /\ enabled' = enabled
      /\ owner' = [d \in Stream!Devices |-> IF owner[d] = b THEN Stream!Nobody ELSE owner[d]]
  BY DEF Stream!Destroy
<1>2. StreamTypeOK'
  BY <1>1 DEF StreamTypeOK
<1>3. OwnerIsThere'
  BY <1>1 DEF StreamTypeOK, OwnerIsThere, Stream!Exists
<1>4. NoBufferWithoutBlock'
  BY <1>1 DEF StreamTypeOK, NoBufferWithoutBlock, Stream!Exists
<1>5. HasItsChannels'
  <2> SUFFICES ASSUME NEW c \in All, Stream!Exists(c)', owner'[request'[c].device] = c
               PROVE  /\ enabled'[request'[c].device] = Own(c)'
                      /\ scan'[c] \in {{}, Own(c)'}
    BY DEF HasItsChannels, Stream!HasItsChannels, Own, All
  <2>1. c # b
    BY <1>1 DEF Stream!Exists, StreamTypeOK
  <2>2. request'[c] = request[c] /\ channel_list'[c] = channel_list[c] /\ scan'[c] = scan[c]
    BY <1>1, <2>1 DEF StreamTypeOK
  <2>3. request[c] \in Requests /\ request[c].device \in Stream!Devices
    BY <2>2, RequestFacts DEF Stream!Exists, StreamTypeOK
  <2>4. owner[request[c].device] = c
    BY <1>1, <2>2, <2>3, RequestFacts
  <2> QED
    BY <1>1, <2>2, <2>4 DEF HasItsChannels, Stream!HasItsChannels, Own, All, Stream!Exists
<1> QED
  BY <1>2, <1>3, <1>4, <1>5

LEMMA StreamInvStep ==
  ASSUME StreamInv, [TransmitterNext]_transmitterVars
  PROVE  StreamInv'
<1>1. ASSUME NEW r \in Requests, TransmitterMade(r) PROVE StreamInv'
  BY <1>1, MakeKeepsStreamInv, ThrowKeepsStreamInv DEF TransmitterMade, All
<1>2. ASSUME NEW b \in Receivers, NEW r \in Requests, ReceiverMade(b, r) PROVE StreamInv'
  BY <1>2, MakeKeepsStreamInv, ThrowKeepsStreamInv DEF ReceiverMade, All
<1>3. ASSUME NEW b \in Receivers, ReceiverStep(b) PROVE StreamInv'
  BY <1>3, BufferKeepsStreamInv, DestroyKeepsStreamInv DEF ReceiverStep, All
<1>4. CASE Destroyed
  BY <1>4, DestroyKeepsStreamInv DEF Destroyed, All
<1>5. CASE UNCHANGED streamVars
  BY <1>5 DEF streamVars, StreamInv, StreamTypeOK, OwnerIsThere, NoBufferWithoutBlock,
              HasItsChannels, Stream!HasItsChannels, Stream!Exists
<1> QED
  BY <1>1, <1>2, <1>3, <1>4, <1>5 DEF TransmitterNext, Transmit, Restarted, transmitterVars

(* The channels of the context, the constructors and start(): the buffer   *)
(* of the block that was the last to set up a device has exactly the       *)
(* block's channels, whatever was made, failed half-way, was resized or    *)
(* destroyed before, for any number of blocks and devices.                 *)
THEOREM BlocksHaveTheirChannels == TransmitterSpec => []HasItsChannels
<1>1. TransmitterInit => StreamInv
  BY StreamInvInit DEF TransmitterInit
<1>2. StreamInv /\ [TransmitterNext]_transmitterVars => StreamInv'
  BY StreamInvStep
<1>3. StreamInv => HasItsChannels
  BY DEF StreamInv
<1> QED
  BY <1>1, <1>2, <1>3, PTL DEF TransmitterSpec

-----------------------------------------------------------------------------
(* The streams of a complex float block.                                   *)

LEMMA AskedStep ==
  ASSUME NEW r
  PROVE  /\ Stream!Asked(r, 0) = 0
         /\ \A n \in Nat : Stream!Asked(r, n) \in Nat
         /\ \A n \in Nat \ {0} :
              Stream!Asked(r, n) = Stream!Asked(r, n - 1) + (IF r.receivers[n] THEN 1 ELSE 0)
<1> DEFINE chosen(n) == {i \in 1..n : r.receivers[i]}
<1>1. \A n : Stream!Asked(r, n) = Cardinality(chosen(n))
  BY Zenon DEF Stream!Asked, Stream!Cardinality, Cardinality
<1>2. chosen(0) = {}
  OBVIOUS
<1>3. \A n \in Nat : chosen(n) \in SUBSET (1..n)
  OBVIOUS
<1>4. \A n \in Nat \ {0} :
        chosen(n) = IF r.receivers[n] THEN chosen(n - 1) \cup {n} ELSE chosen(n - 1)
  OBVIOUS
<1> HIDE DEF chosen
<1>5. \A n \in Nat : IsFiniteSet(chosen(n)) /\ Cardinality(chosen(n)) \in Nat
  <2> SUFFICES ASSUME NEW n \in Nat
               PROVE IsFiniteSet(chosen(n)) /\ Cardinality(chosen(n)) \in Nat
    OBVIOUS
  <2>1. IsFiniteSet(1..n)
    BY FS_Interval
  <2>2. IsFiniteSet(chosen(n))
    BY <1>3, <2>1, FS_Subset
  <2> QED
    BY <2>2, FS_CardinalityType
<1>6. Stream!Asked(r, 0) = 0
  BY <1>1, <1>2, FS_EmptySet
<1>7. ASSUME NEW n \in Nat \ {0}
      PROVE Stream!Asked(r, n) = Stream!Asked(r, n - 1) + (IF r.receivers[n] THEN 1 ELSE 0)
  <2>1. n - 1 \in Nat /\ n \notin chosen(n - 1)
    BY <1>3
  <2>2. CASE r.receivers[n]
    <3>1. chosen(n) = chosen(n - 1) \cup {n}
      BY <1>4, <2>2
    <3>2. Cardinality(chosen(n)) = Cardinality(chosen(n - 1)) + 1
      BY <1>5, <2>1, <3>1, FS_AddElement
    <3> QED
      BY <1>1, <2>2, <3>2
  <2>3. CASE ~r.receivers[n]
    <3>1. chosen(n) = chosen(n - 1) /\ Cardinality(chosen(n - 1)) \in Nat
      BY <1>4, <1>5, <2>1, <2>3
    <3> QED
      BY <1>1, <2>3, <3>1
  <2> QED
    BY <2>2, <2>3
<1>8. \A n \in Nat : Stream!Asked(r, n) \in Nat
  BY <1>1, <1>5
<1> QED
  BY <1>6, <1>7, <1>8

(* A list that has the channels of the first n receivers, where they       *)
(* belong.                                                                 *)
Paired(list, r, n) ==
  /\ list \in Seq(Nat) /\ Len(list) = 2 * Stream!Asked(r, n)
  /\ \A i \in 1..n : r.receivers[i] =>
       /\ Stream!Asked(r, i) \in 1..Stream!Asked(r, n)
       /\ list[2 * Stream!Asked(r, i) - 1] = 2 * i - 2
       /\ list[2 * Stream!Asked(r, i)] = 2 * i - 1

LEMMA TwoAppended ==
  ASSUME NEW list \in Seq(Nat), NEW one \in Nat, NEW other \in Nat
  PROVE  LET longer == (list \o <<one>>) \o <<other>>
         IN /\ longer \in Seq(Nat) /\ Len(longer) = Len(list) + 2
            /\ longer[Len(list) + 1] = one /\ longer[Len(list) + 2] = other
            /\ \A i \in 1..Len(list) : longer[i] = list[i]
  OBVIOUS

LEMMA PairAppended ==
  ASSUME NEW r, NEW n \in Nat \ {0}, NEW list, Paired(list, r, n - 1)
  PROVE  Paired((list \o Stream!If(r.receivers[n], 2 * n - 2)) \o Stream!If(r.receivers[n], 2 * n - 1),
                r, n)
<1>0. \A k \in Nat : Stream!Asked(r, k) \in Nat
  BY AskedStep
<1>1. /\ list \in Seq(Nat) /\ Len(list) = 2 * Stream!Asked(r, n - 1)
      /\ n - 1 \in Nat /\ Stream!Asked(r, n - 1) \in Nat /\ Len(list) \in Nat
  BY <1>0 DEF Paired
<1>2. Stream!Asked(r, n) = Stream!Asked(r, n - 1) + (IF r.receivers[n] THEN 1 ELSE 0)
  BY AskedStep
<1>3. CASE r.receivers[n]
  <2> DEFINE longer == (list \o <<2 * n - 2>>) \o <<2 * n - 1>>
  <2>1. /\ longer \in Seq(Nat) /\ Len(longer) = Len(list) + 2
        /\ longer[Len(list) + 1] = 2 * n - 2 /\ longer[Len(list) + 2] = 2 * n - 1
        /\ \A i \in 1..Len(list) : longer[i] = list[i]
    BY <1>1, TwoAppended
  <2>2. (list \o Stream!If(r.receivers[n], 2 * n - 2)) \o Stream!If(r.receivers[n], 2 * n - 1) = longer
    BY <1>3 DEF Stream!If
  <2> HIDE DEF longer
  <2>3. ASSUME NEW i \in 1..n, r.receivers[i]
        PROVE  /\ Stream!Asked(r, i) \in 1..Stream!Asked(r, n)
               /\ longer[2 * Stream!Asked(r, i) - 1] = 2 * i - 2
               /\ longer[2 * Stream!Asked(r, i)] = 2 * i - 1
    <3>1. CASE i = n
      BY <1>1, <1>2, <1>3, <2>1, <3>1
    <3>2. CASE i # n
      <4>0. i \in 1..(n - 1)
        BY <3>2
      <4>1. /\ Stream!Asked(r, i) \in 1..Stream!Asked(r, n - 1)
            /\ list[2 * Stream!Asked(r, i) - 1] = 2 * i - 2
            /\ list[2 * Stream!Asked(r, i)] = 2 * i - 1
        BY <2>3, <4>0 DEF Paired
      <4>2. /\ 2 * Stream!Asked(r, i) - 1 \in 1..Len(list)
            /\ 2 * Stream!Asked(r, i) \in 1..Len(list)
        BY <1>1, <4>1
      <4>3. /\ longer[2 * Stream!Asked(r, i) - 1] = 2 * i - 2
            /\ longer[2 * Stream!Asked(r, i)] = 2 * i - 1
        BY <2>1, <4>1, <4>2
      <4>4. Stream!Asked(r, i) \in 1..Stream!Asked(r, n)
        BY <1>1, <1>2, <1>3, <4>1
      <4> QED
        BY <4>3, <4>4
    <3> QED
      BY <3>1, <3>2
  <2>4. Len(longer) = 2 * Stream!Asked(r, n)
    BY <1>1, <1>2, <1>3, <2>1
  <2> QED
    BY <2>1, <2>2, <2>3, <2>4 DEF Paired
<1>4. CASE ~r.receivers[n]
  <2>1. (list \o Stream!If(r.receivers[n], 2 * n - 2)) \o Stream!If(r.receivers[n], 2 * n - 1) = list
    BY <1>1, <1>4 DEF Stream!If
  <2>2. Stream!Asked(r, n) = Stream!Asked(r, n - 1)
    BY <1>1, <1>2, <1>4
  <2>3. \A i \in 1..n : r.receivers[i] => i \in 1..(n - 1)
    BY <1>4
  <2> QED
    BY <1>1, <2>1, <2>2, <2>3 DEF Paired
<1> QED
  BY <1>3, <1>4

LEMMA NothingPaired == ASSUME NEW r PROVE Paired(<<>>, r, 0)
  BY AskedStep DEF Paired

LEMMA EmptyFirst == ASSUME NEW list \in Seq(Nat) PROVE <<>> \o list = list
  OBVIOUS

LEMMA IfIsList == ASSUME NEW flag, NEW c \in Nat PROVE Stream!If(flag, c) \in Seq(Nat)
  BY DEF Stream!If

(* get_channels_vector, with both flags of a receiver alike.               *)
LEMMA FourArePaired ==
  ASSUME NEW r, NEW on, on[1] = r.receivers[1], on[2] = r.receivers[1],
         on[3] = r.receivers[2], on[4] = r.receivers[2]
  PROVE  Paired(Stream!FourChannels(on), r, 2)
<1> DEFINE one == Stream!If(r.receivers[1], 0) \o Stream!If(r.receivers[1], 1)
<1>1. Paired(one, r, 1)
  <2>1. Paired((<<>> \o Stream!If(r.receivers[1], 2 * 1 - 2)) \o Stream!If(r.receivers[1], 2 * 1 - 1), r, 1)
    <3>1. Paired(<<>>, r, 1 - 1)
      BY NothingPaired
    <3>2. 1 \in Nat \ {0}
      OBVIOUS
    <3> QED
      BY <3>1, <3>2, PairAppended
  <2>2. <<>> \o Stream!If(r.receivers[1], 0) = Stream!If(r.receivers[1], 0)
    BY EmptyFirst, IfIsList
  <2> QED
    BY <2>1, <2>2
<1> HIDE DEF one
<1>2. Paired((one \o Stream!If(r.receivers[2], 2 * 2 - 2)) \o Stream!If(r.receivers[2], 2 * 2 - 1), r, 2)
  BY <1>1, PairAppended
<1> QED
  BY <1>2 DEF one, Stream!FourChannels

LEMMA EightArePaired ==
  ASSUME NEW r, NEW on, on[1] = r.receivers[1], on[2] = r.receivers[1],
         on[3] = r.receivers[2], on[4] = r.receivers[2],
         on[5] = r.receivers[3], on[6] = r.receivers[3],
         on[7] = r.receivers[4], on[8] = r.receivers[4]
  PROVE  Paired(Stream!EightChannels(on), r, 4)
<1> DEFINE four == Stream!FourChannels(on)
           six == (four \o Stream!If(r.receivers[3], 4)) \o Stream!If(r.receivers[3], 5)
<1>1. Paired(four, r, 2)
  BY FourArePaired
<1> HIDE DEF four
<1>2. Paired((four \o Stream!If(r.receivers[3], 2 * 3 - 2)) \o Stream!If(r.receivers[3], 2 * 3 - 1), r, 3)
  BY <1>1, PairAppended
<1>3. Paired(six, r, 3)
  BY <1>2
<1> HIDE DEF six
<1>4. Paired((six \o Stream!If(r.receivers[4], 2 * 4 - 2)) \o Stream!If(r.receivers[4], 2 * 4 - 1), r, 4)
  BY <1>3, PairAppended
<1> QED
  BY <1>4 DEF six, four, Stream!EightChannels

LEMMA BothAreAsked ==
  ASSUME NEW n \in Nat, NEW rx \in [1..n -> BOOLEAN]
  PROVE  \A i \in 1..n : /\ Stream!BothChannels(rx)[2 * i - 1] = rx[i]
                         /\ Stream!BothChannels(rx)[2 * i] = rx[i]
<1> SUFFICES ASSUME NEW i \in 1..n
             PROVE  /\ Stream!BothChannels(rx)[2 * i - 1] = rx[i]
                    /\ Stream!BothChannels(rx)[2 * i] = rx[i]
  OBVIOUS
<1>1. Len(rx) = n
  OBVIOUS
<1>2. /\ 2 * i - 1 \in 1..(2 * n) /\ 2 * i \in 1..(2 * n)
      /\ ((2 * i - 1) + 1) \div 2 = i /\ (2 * i + 1) \div 2 = i
  OBVIOUS
<1> QED
  BY <1>1, <1>2 DEF Stream!BothChannels

(* The request of a complex float block of two or four receivers.          *)
IsComplex(r, n) == Len(r.receivers) = n /\ DOMAIN r.receivers = 1..n /\ Paired(r.channels, r, n)

LEMMA TwoReceivers ==
  ASSUME NEW rx \in [1..2 -> BOOLEAN],
         NEW r, r.receivers = rx, r.channels = Stream!FourChannels(Stream!BothChannels(rx))
  PROVE  IsComplex(r, 2)
<1> DEFINE on == Stream!BothChannels(rx)
<1>1. \A i \in 1..2 : on[2 * i - 1] = rx[i] /\ on[2 * i] = rx[i]
  BY BothAreAsked
<1> HIDE DEF on
<1>2. on[1] = rx[1] /\ on[2] = rx[1] /\ on[3] = rx[2] /\ on[4] = rx[2]
  BY <1>1
<1>3. Paired(Stream!FourChannels(on), r, 2)
  BY <1>2, FourArePaired
<1> QED
  BY <1>3 DEF IsComplex, on

LEMMA FourReceivers ==
  ASSUME NEW rx \in [1..4 -> BOOLEAN],
         NEW r, r.receivers = rx, r.channels = Stream!EightChannels(Stream!BothChannels(rx))
  PROVE  IsComplex(r, 4)
<1> DEFINE on == Stream!BothChannels(rx)
<1>1. \A i \in 1..4 : on[2 * i - 1] = rx[i] /\ on[2 * i] = rx[i]
  BY BothAreAsked
<1> HIDE DEF on
<1>2. /\ on[1] = rx[1] /\ on[2] = rx[1] /\ on[3] = rx[2] /\ on[4] = rx[2]
      /\ on[5] = rx[3] /\ on[6] = rx[3] /\ on[7] = rx[4] /\ on[8] = rx[4]
  BY <1>1
<1>3. Paired(Stream!EightChannels(on), r, 4)
  BY <1>2, EightArePaired
<1> QED
  BY <1>3 DEF IsComplex, on

LEMMA PlutoReceivers ==
  ASSUME NEW r, r.receivers = <<TRUE, FALSE>>,
         r.channels = Stream!FourChannels(<<TRUE, TRUE, FALSE, FALSE>>)
  PROVE  IsComplex(r, 2)
<1> DEFINE on == <<TRUE, TRUE, FALSE, FALSE>>
<1>1. on[1] = r.receivers[1] /\ on[2] = r.receivers[1] /\ on[3] = r.receivers[2] /\ on[4] = r.receivers[2]
  OBVIOUS
<1>2. Paired(Stream!FourChannels(on), r, 2)
  BY <1>1, FourArePaired
<1>3. Len(r.receivers) = 2 /\ DOMAIN r.receivers = 1..2
  OBVIOUS
<1> QED
  BY <1>2, <1>3 DEF IsComplex

LEMMA RequestIsComplex ==
  ASSUME NEW r \in Stream!ComplexRequests
  PROVE  IsComplex(r, 2) \/ IsComplex(r, 4)
<1> USE DEF Stream!Complex, Stream!Derived, Stream!DeviceBlock
<1>1. ASSUME NEW rx \in [1..2 -> BOOLEAN],
             r = Stream!Fmcomms2SourceF32c(rx) \/ r = Stream!Fmcomms2SinkF32c(rx)
      PROVE IsComplex(r, 2)
  <2>1. r.receivers = rx /\ r.channels = Stream!FourChannels(Stream!BothChannels(rx))
    BY <1>1 DEF Stream!Fmcomms2SourceF32c, Stream!Fmcomms2Source, Stream!Fmcomms2SinkF32c,
                Stream!Fmcomms2Sink
  <2> QED
    BY <2>1, TwoReceivers
<1>2. ASSUME NEW rx \in [1..4 -> BOOLEAN],
             r = Stream!Fmcomms5SourceF32c(rx) \/ r = Stream!Fmcomms5SinkF32c(rx)
      PROVE IsComplex(r, 4)
  <2>1. r.receivers = rx /\ r.channels = Stream!EightChannels(Stream!BothChannels(rx))
    BY <1>2 DEF Stream!Fmcomms5SourceF32c, Stream!Fmcomms5Source, Stream!Fmcomms5SinkF32c,
                Stream!Fmcomms5Sink
  <2> QED
    BY <2>1, FourReceivers
<1>3. ASSUME r = Stream!PlutoSource \/ r = Stream!PlutoSink PROVE IsComplex(r, 2)
  <2>1. /\ r.receivers = <<TRUE, FALSE>>
        /\ r.channels = Stream!FourChannels(<<TRUE, TRUE, FALSE, FALSE>>)
    BY <1>3 DEF Stream!PlutoSource, Stream!PlutoSink, Stream!Fmcomms2Source, Stream!Fmcomms2Sink
  <2> QED
    BY <2>1, PlutoReceivers
<1> QED
  BY <1>1, <1>2, <1>3 DEF Stream!ComplexRequests

LEMMA Halves ==
  ASSUME NEW k \in Nat \ {0}
  PROVE  /\ ((2 * k - 1) + 1) \div 2 = k /\ (2 * k - 1) % 2 = 1
         /\ (2 * k + 1) \div 2 = k /\ (2 * k) % 2 = 0
  OBVIOUS

(* The wiring of one request: the channels of the inner block are where    *)
(* the constructor of the block around it looks for them.                  *)
LEMMA WiresFit ==
  ASSUME NEW r, NEW n \in Nat, IsComplex(r, n)
  PROVE  /\ DOMAIN Stream!Wires(r) = DOMAIN r.channels
         /\ \A i \in DOMAIN r.receivers : r.receivers[i] =>
              \A half \in {"I", "Q"} : \E port \in DOMAIN Stream!Wires(r) :
                /\ Stream!Wires(r)[port] = [stream |-> Stream!Asked(r, i), half |-> half]
                /\ r.channels[port] = 2 * i - (IF half = "I" THEN 2 ELSE 1)
<1> DEFINE streams == Stream!Asked(r, n)
<1>1. /\ DOMAIN r.receivers = 1..n /\ Stream!NumStreams(r) = streams /\ streams \in Nat
      /\ r.channels \in Seq(Nat) /\ Len(r.channels) = 2 * streams
  BY AskedStep DEF IsComplex, Paired, Stream!NumStreams
<1>2. DOMAIN Stream!Wires(r) = 1..(2 * streams) /\ DOMAIN r.channels = 1..(2 * streams)
  BY <1>1 DEF Stream!Wires
<1>3. ASSUME NEW i \in DOMAIN r.receivers, r.receivers[i], NEW half \in {"I", "Q"}
      PROVE  \E port \in DOMAIN Stream!Wires(r) :
                /\ Stream!Wires(r)[port] = [stream |-> Stream!Asked(r, i), half |-> half]
                /\ r.channels[port] = 2 * i - (IF half = "I" THEN 2 ELSE 1)
  <2> DEFINE k == Stream!Asked(r, i)
  <2>1. /\ k \in 1..streams
        /\ r.channels[2 * k - 1] = 2 * i - 2
        /\ r.channels[2 * k] = 2 * i - 1
    BY <1>1, <1>3 DEF IsComplex, Paired
  <2> HIDE DEF k, streams
  <2>2. 2 * k - 1 \in 1..(2 * streams) /\ 2 * k \in 1..(2 * streams) /\ k \in Nat \ {0}
    BY <1>1, <2>1
  <2>3. CASE half = "I"
    <3>1. Stream!Wires(r)[2 * k - 1] = [stream |-> k, half |-> half]
      <4>1. ((2 * k - 1) + 1) \div 2 = k /\ (2 * k - 1) % 2 = 1
        BY <2>2, Halves
      <4> QED
        BY <1>1, <2>2, <2>3, <4>1 DEF Stream!Wires
    <3> QED
      BY <1>2, <2>1, <2>2, <2>3, <3>1 DEF k
  <2>4. CASE half = "Q"
    <3>1. Stream!Wires(r)[2 * k] = [stream |-> k, half |-> half]
      <4>1. (2 * k + 1) \div 2 = k /\ (2 * k) % 2 = 0
        BY <2>2, Halves
      <4> QED
        BY <1>1, <2>2, <2>4, <4>1 DEF Stream!Wires
    <3> QED
      BY <1>2, <2>1, <2>2, <2>4, <3>1 DEF k
  <2> QED
    BY <2>3, <2>4
<1> QED
  BY <1>2, <1>3

(* A block keeps the channels it was made with, all of the device if it    *)
(* was given no names.                                                     *)
ListIsWanted == \A b \in All : Stream!Exists(b) => channel_list[b] = Stream!Wanted(request[b])

LEMMA ListIsWantedStep ==
  ASSUME StreamInv, ListIsWanted, [TransmitterNext]_transmitterVars
  PROVE  ListIsWanted'
<1> USE DEF StreamInv, StreamTypeOK, ListIsWanted
<1>1. ASSUME UNCHANGED <<request, channel_list>> PROVE ListIsWanted'
  BY <1>1 DEF Stream!Exists, Stream!Wanted
<1>2. ASSUME NEW b \in All, NEW r \in Requests,
             Stream!Make(b, r) \/ Stream!MakeThrowsHalfway(b, r) \/ Stream!MakeThrowsLate(b, r)
      PROVE ListIsWanted'
  <2>1. CASE Stream!Make(b, r)
    BY <2>1 DEF Stream!Make, Stream!Exists, Stream!Wanted
  <2>2. CASE Stream!MakeThrowsHalfway(b, r) \/ Stream!MakeThrowsLate(b, r)
    BY <1>1, <2>2 DEF Stream!MakeThrowsHalfway, Stream!MakeThrowsLate
  <2> QED
    BY <1>2, <2>1, <2>2
<1>3. ASSUME NEW b \in All, Stream!Destroy(b) PROVE ListIsWanted'
  BY <1>3 DEF Stream!Destroy, Stream!Exists, Stream!Wanted
<1>4. ASSUME NEW b \in All, Stream!Start(b) \/ Stream!Resize(b) \/ Stream!Stop(b)
      PROVE ListIsWanted'
  BY <1>1, <1>4 DEF Stream!Start, Stream!Resize, Stream!Stop
<1>5. CASE UNCHANGED streamVars
  BY <1>1, <1>5 DEF streamVars
<1> QED
  BY <1>2, <1>3, <1>4, <1>5
  DEF TransmitterNext, TransmitterMade, ReceiverMade, ReceiverStep, Destroyed, Transmit, Restarted,
      transmitterVars, All

(* fmcomms*_f32c, pluto_*, get_channels_vector and the constructors: for   *)
(* any choice of the receivers of any complex float block, every receiver  *)
(* asked for is one stream, its I and its Q channel are the halves, and    *)
(* no port of the inner block is left open.                                *)
THEOREM StreamsAreReceivers == TransmitterSpec => []StreamIsOneReceiver
<1>1. TransmitterInit => StreamInv /\ ListIsWanted
  BY StreamInvInit DEF TransmitterInit, ListIsWanted, Stream!Init, Stream!Exists, All
<1>2. StreamInv /\ ListIsWanted /\ [TransmitterNext]_transmitterVars => StreamInv' /\ ListIsWanted'
  BY StreamInvStep, ListIsWantedStep
<1>3. StreamInv /\ ListIsWanted => StreamIsOneReceiver
  <2> SUFFICES ASSUME StreamInv, ListIsWanted, NEW b \in All, Stream!Exists(b),
                      Stream!NumStreams(request[b]) > 0
               PROVE  LET r == request[b] IN
                      /\ DOMAIN Stream!Wires(r) = DOMAIN channel_list[b]
                      /\ \A i \in DOMAIN r.receivers : r.receivers[i] =>
                           \A half \in {"I", "Q"} : \E port \in DOMAIN Stream!Wires(r) :
                             /\ Stream!Wires(r)[port] = [stream |-> Stream!Asked(r, i), half |-> half]
                             /\ channel_list[b][port] = 2 * i - (IF half = "I" THEN 2 ELSE 1)
    BY DEF StreamIsOneReceiver, Stream!StreamIsOneReceiver, All
  <2> DEFINE r == request[b]
  <2>1. r \in Requests /\ channel_list[b] = Stream!Wanted(r)
    BY DEF StreamInv, StreamTypeOK, ListIsWanted, Stream!Exists
  <2>2. r.receivers # <<>>
    <3> SUFFICES ASSUME r.receivers = <<>> PROVE FALSE
      OBVIOUS
    <3>1. Stream!NumStreams(r) = Stream!Asked(r, 0)
      BY DEF Stream!NumStreams
    <3>2. Stream!Asked(r, 0) = 0
      BY AskedStep
    <3> QED
      BY <3>1, <3>2
  <2>3. r \in Stream!ComplexRequests
    BY <2>1, <2>2 DEF Stream!Parameters
  <2>4. PICK n \in Nat : IsComplex(r, n)
    BY <2>3, RequestIsComplex
  <2>5. r.channels # <<>>
    <3>1. Len(r.channels) = 2 * Stream!NumStreams(r) /\ Stream!NumStreams(r) \in Nat
      BY <2>4, AskedStep DEF IsComplex, Paired, Stream!NumStreams
    <3> QED
      BY <3>1
  <2>6. channel_list[b] = r.channels
    BY <2>1, <2>5 DEF Stream!Wanted
  <2> QED
    BY <2>4, <2>6, WiresFit
<1> QED
  BY <1>1, <1>2, <1>3, PTL DEF TransmitterSpec

-----------------------------------------------------------------------------
(* What work() puts on the air.                                            *)

(* The derived blocks tell the scheduler that they are done after the push *)
(* of a cyclic buffer, and only a restart calls their work() again.        *)
DoneAfterCyclic == setup.derived /\ setup.cyclic /\ air # <<>> => state # "running"

LEMMA DoneAfterCyclicStep ==
  ASSUME DoneAfterCyclic, [TransmitterNext]_transmitterVars
  PROVE  DoneAfterCyclic'
<1> USE DEF DoneAfterCyclic
<1>1. ASSUME NEW n \in 1..MaxInput, Work(n) PROVE DoneAfterCyclic'
  BY <1>1 DEF Work, AfterPush
<1>2. ASSUME NEW n \in 1..MaxInput, WorkFails(n) PROVE DoneAfterCyclic'
  BY <1>2 DEF WorkFails
<1>3. CASE Destroy \/ Restart
  BY <1>3 DEF Destroy, Restart
<1>4. CASE UNCHANGED vars
  BY <1>4 DEF vars
<1> QED
  BY <1>1, <1>2, <1>3, <1>4
  DEF TransmitterNext, Transmit, Restarted, Destroyed, TransmitterMade, ReceiverMade,
      ReceiverStep, transmitterVars

(* fmcomms2_sink, fmcomms5_sink: the scheduler does not call work() of a   *)
(* derived block while its cyclic buffer is on the air, whatever other     *)
(* blocks do, unless the flowgraph is restarted: nothing else writes to    *)
(* what the device repeats.                                                *)
THEOREM CyclicBuffersArePushedOnce == TransmitterSpec => CyclicPushedOnce
<1>1. TransmitterInit => DoneAfterCyclic
  BY DEF TransmitterInit, Init, DoneAfterCyclic
<1>2. DoneAfterCyclic /\ [TransmitterNext]_transmitterVars => DoneAfterCyclic'
  BY DoneAfterCyclicStep
<1>3. DoneAfterCyclic /\ [TransmitterNext]_transmitterVars =>
        [setup.derived /\ setup.cyclic /\ air # <<>> /\ memory' # memory
           => state = "restarted"]_vars
  <2> SUFFICES ASSUME DoneAfterCyclic, [TransmitterNext]_transmitterVars,
                      setup.derived, setup.cyclic, air # <<>>, memory' # memory
               PROVE  state = "restarted"
    OBVIOUS
  <2>1. Working
    BY DEF TransmitterNext, Transmit, Restarted, Destroyed, TransmitterMade, ReceiverMade,
           ReceiverStep, transmitterVars, vars, Work, WorkFails, Restart, Destroy
  <2> QED
    BY <2>1 DEF DoneAfterCyclic, Working
<1> QED
  BY <1>1, <1>2, <1>3, PTL DEF TransmitterSpec, CyclicPushedOnce

(* The buffer sizes that leave no rest. *)
DividesEvenly == \A s \in Setups : s.buffer_size % (s.interpolation + 1) = 0

LEMMA StepOfSlot ==
  ASSUME NEW size \in Nat, NEW step \in Nat \ {0}, size % step = 0, NEW slot \in 0..(size - 1)
  PROVE  slot \div step < size \div step /\ slot \div step \in Nat
  OBVIOUS

LEMMA WholePortions ==
  ASSUME NEW n \in Nat \ {0}, NEW portion \in Nat \ {0}, n % portion = 0
  PROVE  n >= portion
  OBVIOUS

LEMMA ModOne == ASSUME NEW n \in Nat PROVE n % 1 = 0
  OBVIOUS

AirInv ==
  /\ setup \in Setups /\ consumed \in Nat
  /\ Portion \in Nat \ {0}
  /\ AirIsLastPortion

(* A call is offered at least a portion, which has a sample for every step *)
(* of the buffer.                                                          *)
LEMMA FilledIsPortion ==
  ASSUME DividesEvenly, setup \in Setups, Portion \in Nat \ {0}, NEW n \in 1..MaxInput, n % Portion = 0, NEW slot \in Slots
  PROVE  Filled(n)[slot] = IF slot % (interpolation + 1) = 0
                           THEN consumed + slot \div (interpolation + 1) + 1
                           ELSE Silence
<1> DEFINE step == interpolation + 1
           k == slot \div step
<1>1. /\ buffer_size \in Nat /\ interpolation \in Nat /\ step \in Nat \ {0}
      /\ buffer_size % step = 0
  BY DEF DividesEvenly, Setup, buffer_size, interpolation
<1>2. slot \in 0..(buffer_size - 1)
  BY DEF Slots
<1>3. k < Portion /\ k \in Nat
  BY <1>1, <1>2, StepOfSlot DEF Portion
<1>4. n >= Portion
  BY WholePortions
<1>5. k < n
  BY <1>3, <1>4
<1>6. slot % step # 0 => interpolation >= 1
  BY <1>1, <1>2, ModOne
<1>7. slot % step # 0 => Cleared[slot] = Silence
  BY <1>6 DEF Cleared
<1> QED
  BY <1>5, <1>7 DEF Filled

LEMMA AirInvStep ==
  ASSUME DividesEvenly, AirInv, [TransmitterNext]_transmitterVars
  PROVE  AirInv'
<1>1. ASSUME NEW n \in 1..MaxInput, Work(n) PROVE AirInv'
  <2>1. /\ air' = Filled(n) /\ setup' = setup /\ consumed' = consumed + Portion
        /\ n % Portion = 0
    BY <1>1 DEF Work, ConsumeEach, Offers
  <2>2. /\ Portion' = Portion /\ Slots' = Slots /\ interpolation' = interpolation
        /\ consumed' \in Nat /\ consumed' - Portion = consumed
    BY <2>1 DEF Portion, Slots, interpolation, buffer_size, AirInv
  <2>3. AirIsLastPortion'
    <3> SUFFICES ASSUME NEW slot \in Slots
                 PROVE  air'[slot] = IF slot % (interpolation + 1) = 0
                                     THEN consumed' - Portion + slot \div (interpolation + 1) + 1
                                     ELSE Silence
      BY <2>2 DEF AirIsLastPortion, Silence
    <3> QED
      BY <1>1, <2>1, <2>2, FilledIsPortion DEF AirInv
  <2> QED
    BY <2>1, <2>2, <2>3 DEF AirInv
<1>2. ASSUME UNCHANGED <<setup, consumed>>, air' = air \/ air' = <<>> PROVE AirInv'
  BY <1>2 DEF AirInv, AirIsLastPortion, Portion, Slots, interpolation, buffer_size, Silence
<1> QED
  BY <1>1, <1>2
  DEF TransmitterNext, Transmit, Destroyed, TransmitterMade, ReceiverMade, ReceiverStep,
      transmitterVars, vars, WorkFails, Restarted, Restart, Destroy

(* work(): when interpolation + 1 divides the buffer size, what the last   *)
(* push gave the device is the last portion consumed, each sample at its   *)
(* step and silence between, for every buffer size and offer.              *)
THEOREM LastPortionIsOnAir ==
  ASSUME DividesEvenly
  PROVE  TransmitterSpec => []AirIsLastPortion
<1>1. TransmitterInit => AirInv
  <2> SUFFICES ASSUME Init PROVE AirInv
    BY DEF TransmitterInit
  <2>1. buffer_size \in Nat /\ interpolation \in Nat
    BY DEF Init, Setup, buffer_size, interpolation
  <2> QED
    BY <2>1 DEF Init, AirInv, AirIsLastPortion, Portion
<1>2. AirInv /\ [TransmitterNext]_transmitterVars => AirInv'
  BY AirInvStep
<1>3. AirInv => AirIsLastPortion
  BY DEF AirInv
<1> QED
  BY <1>1, <1>2, <1>3, PTL DEF TransmitterSpec

-----------------------------------------------------------------------------
(* What the device is given.                                               *)

(* The memory holds samples that were offered, or what it held when it was *)
(* allocated; what is pushed holds no rest of the allocation.              *)
TypeInv == TypeOK /\ Portion \in Nat \ {0}

LEMMA DivOne == ASSUME NEW n \in Nat PROVE n \div 1 = n
  OBVIOUS

LEMMA FilledHoldsSamples ==
  ASSUME TypeInv, NEW n \in 1..MaxInput, Offers(n)
  PROVE  Filled(n) \in [Slots -> 0..MaxInput]
<1> DEFINE step == interpolation + 1
<1>1. /\ buffer_size \in Nat /\ interpolation \in Nat /\ step \in Nat \ {0}
      /\ consumed \in Nat /\ Portion \in Nat \ {0}
  BY DEF TypeInv, TypeOK, Setup, buffer_size, interpolation
<1>2. consumed + n <= MaxInput /\ n >= Portion
  BY <1>1, WholePortions DEF Offers
<1> SUFFICES ASSUME NEW slot \in Slots PROVE Filled(n)[slot] \in 0..MaxInput
  BY DEF Filled
<1>3. slot \in Nat /\ slot < buffer_size /\ slot \div step \in Nat
  BY <1>1 DEF Slots
<1>4. CASE slot % step = 0 /\ slot \div step < n
  BY <1>1, <1>2, <1>3, <1>4 DEF Filled
<1>5. CASE ~(slot % step = 0 /\ slot \div step < n)
  <2>1. CASE interpolation >= 1
    BY <1>5, <2>1 DEF Filled, Cleared, Silence
  <2>2. CASE ~(interpolation >= 1)
    <3>1. step = 1 /\ Portion = buffer_size
      BY <1>1, <2>2 DEF Portion
    <3>2. slot % step = 0 /\ slot \div step = slot
      BY <1>3, <3>1, ModOne, DivOne
    <3> QED
      BY <1>1, <1>2, <1>3, <1>5, <3>1, <3>2
  <2> QED
    BY <2>1, <2>2
<1> QED
  BY <1>4, <1>5

LEMMA TypeInvStep ==
  ASSUME TypeInv, [TransmitterNext]_transmitterVars
  PROVE  TypeInv'
<1>1. ASSUME NEW n \in 1..MaxInput, Work(n) PROVE TypeInv'
  <2>1. /\ setup' = setup /\ Portion' = Portion /\ Slots' = Slots
        /\ memory' = Filled(n) /\ air' = memory' /\ sent' = Append(sent, memory')
        /\ consumed' = consumed + Portion /\ Offers(n)
        /\ state' \in {"running", "done"}
    BY <1>1 DEF Work, ConsumeEach, AfterPush, Portion, Slots, interpolation, buffer_size
  <2>2. memory' \in [Slots -> 0..MaxInput]
    BY <2>1, FilledHoldsSamples
  <2>3. consumed' \in 0..MaxInput
    <3>1. /\ n \in Nat \ {0} /\ Portion \in Nat \ {0} /\ consumed \in Nat
          /\ n % Portion = 0 /\ consumed + n <= MaxInput
      BY <2>1 DEF Offers, TypeInv, TypeOK
    <3>2. n >= Portion
      BY <3>1, WholePortions
    <3> QED
      BY <2>1, <3>1, <3>2
  <2> QED
    BY <2>1, <2>2, <2>3 DEF TypeInv, TypeOK
<1>2. ASSUME NEW n \in 1..MaxInput, WorkFails(n) PROVE TypeInv'
  <2>1. /\ UNCHANGED <<setup, consumed, sent, air>> /\ Portion' = Portion /\ Slots' = Slots
        /\ memory' = Filled(n) /\ Offers(n) /\ state' = "done"
    BY <1>2 DEF WorkFails, Portion, Slots, interpolation, buffer_size
  <2>2. memory' \in [Slots -> 0..MaxInput]
    BY <2>1, FilledHoldsSamples
  <2> QED
    BY <2>1, <2>2 DEF TypeInv, TypeOK
<1>3. CASE Destroy \/ Restart
  BY <1>3 DEF Destroy, Restart, TypeInv, TypeOK, Portion, Slots, interpolation, buffer_size
<1>4. CASE UNCHANGED vars
  BY <1>4 DEF vars, TypeInv, TypeOK, Portion, Slots, interpolation, buffer_size
<1> QED
  BY <1>1, <1>2, <1>3, <1>4
  DEF TransmitterNext, Transmit, Restarted, Destroyed, TransmitterMade, ReceiverMade,
      ReceiverStep, transmitterVars

LEMMA TypeInvInit == TransmitterInit => TypeInv
<1> SUFFICES ASSUME Init PROVE TypeInv
  BY DEF TransmitterInit
<1>1. buffer_size \in Nat /\ interpolation \in Nat /\ Portion \in Nat \ {0}
  BY DEF Init, Setup, buffer_size, interpolation, Portion
<1> QED
  BY <1>1 DEF Init, TypeInv, TypeOK, Junk

(* The state of the transmitting block has its type: work() of any buffer  *)
(* size and interpolation, divisible or not, gives the device samples and  *)
(* silence, and nothing of the memory as it was allocated.                 *)
THEOREM TransmitterTypeOK == TransmitterSpec => []TypeOK
<1>1. TypeInv /\ [TransmitterNext]_transmitterVars => TypeInv'
  BY TypeInvStep
<1>2. TypeInv => TypeOK
  BY DEF TypeInv
<1> QED
  BY TypeInvInit, <1>1, <1>2, PTL DEF TransmitterSpec

(* Multiples of the step: how they divide, and where they are.             *)
LEMMA Monotone ==
  ASSUME NEW a \in Nat, NEW b \in Nat, NEW c \in Nat, a <= b
  PROVE  a * c <= b * c
  OBVIOUS

LEMMA Multiples ==
  ASSUME NEW k \in Nat, NEW step \in Nat \ {0}
  PROVE  k * step \in Nat /\ (k * step) % step = 0 /\ (k * step) \div step = k
  OBVIOUS

LEMMA MultipleInside ==
  ASSUME NEW size \in Nat, NEW step \in Nat \ {0}, NEW k \in Nat, k < size \div step
  PROVE  k * step < size
  OBVIOUS

LEMMA QuotientsGrow ==
  ASSUME NEW step \in Nat \ {0}, NEW one \in Nat, NEW other \in Nat,
         one % step = 0, other % step = 0, one < other
  PROVE  one \div step < other \div step
  OBVIOUS

(* What has been given is what has been consumed; the memory is longer by  *)
(* a portion's slots.                                                      *)
SentInv == TypeInv /\ SentIsConsumed

LEMMA SentInvWork ==
  ASSUME DividesEvenly, SentInv, NEW n \in 1..MaxInput, Work(n)
  PROVE  SentIsConsumed'
<1> DEFINE step == interpolation + 1
           last == Len(sent) + 1
<1>1. /\ buffer_size \in Nat /\ interpolation \in Nat /\ step \in Nat \ {0}
      /\ consumed \in Nat /\ Portion \in Nat \ {0} /\ buffer_size % step = 0
      /\ sent \in Seq([Slots -> 0..MaxInput]) /\ Len(sent) \in Nat
  BY DEF SentInv, TypeInv, TypeOK, DividesEvenly, Setup, buffer_size, interpolation
<1>2. /\ setup' = setup /\ Slots' = Slots /\ n % Portion = 0
      /\ consumed' = consumed + Portion
      /\ sent' = Append(sent, Filled(n))
  BY DEF Work, ConsumeEach, Offers, Slots, buffer_size
<1>3. /\ Len(sent') = last
      /\ sent'[last] = Filled(n)
      /\ \A p \in 1..Len(sent) : sent'[p] = sent[p]
  BY <1>1, <1>2
<1>4. \A place \in Places : place \in Places' /\ Given(place)' = Given(place)
  BY <1>1, <1>2, <1>3 DEF Places, Given
<1>5. \A place \in Places' : place \in Places \/ (place[1] = last /\ place[2] \in Slots)
  BY <1>1, <1>2, <1>3 DEF Places
<1>6. ASSUME NEW place \in Places', place[1] = last
      PROVE  /\ place[2] \in Slots
             /\ Given(place)' = Filled(n)[place[2]]
             /\ Given(place)' = IF place[2] % step = 0 THEN consumed + place[2] \div step + 1
                                                    ELSE Silence
  <2>1. place[2] \in Slots /\ Given(place)' = Filled(n)[place[2]]
    BY <1>2, <1>3, <1>6 DEF Places, Given
  <2> QED
    BY <1>2, <2>1, FilledIsPortion DEF SentInv, TypeInv, TypeOK
<1>7. \A slot \in Slots : slot \in Nat /\ slot < buffer_size
  BY <1>1 DEF Slots
<1>8. \A slot \in Slots : slot \div step \in Nat /\ slot \div step < Portion
  BY <1>1, <1>7, StepOfSlot DEF Portion
<1>9. ASSUME NEW sample \in 1..consumed' PROVE \E place \in Places' : Given(place)' = sample
  <2>1. CASE sample \in 1..consumed
    BY <1>4, <2>1 DEF SentInv, SentIsConsumed
  <2>2. CASE sample \notin 1..consumed
    <3> DEFINE k == sample - consumed - 1
    <3>1. k \in Nat /\ k < Portion
      BY <1>1, <1>2, <2>2
    <3>2. k * step \in Nat /\ (k * step) % step = 0 /\ (k * step) \div step = k
      BY <1>1, <3>1, Multiples
    <3>3. k * step < buffer_size
      BY <1>1, <3>1, MultipleInside DEF Portion
    <3>4. k * step \in Slots
      BY <1>1, <3>2, <3>3 DEF Slots
    <3>5. PICK place : place = <<last, k * step>>
      OBVIOUS
    <3>6. place \in Places' /\ place[1] = last /\ place[2] = k * step
      BY <1>1, <1>2, <1>3, <3>4, <3>5 DEF Places
    <3>7. Given(place)' = consumed + k + 1
      BY <1>6, <3>2, <3>6
    <3>8. Given(place)' = sample
      BY <1>1, <1>2, <3>7
    <3> QED
      BY <3>6, <3>8
  <2> QED
    BY <2>1, <2>2
<1>10. ASSUME NEW place \in Places' PROVE Given(place)' \in {Silence} \cup 1..consumed'
  <2>1. CASE place \in Places
    BY <1>1, <1>2, <1>4, <2>1 DEF SentInv, SentIsConsumed
  <2>2. CASE place[1] = last
    <3>1. CASE place[2] % step = 0
      <4>1. Given(place)' = consumed + place[2] \div step + 1
        BY <1>6, <2>2, <3>1
      <4>2. place[2] \div step \in Nat /\ place[2] \div step < Portion
        BY <1>6, <1>8, <2>2
      <4> QED
        BY <1>1, <1>2, <4>1, <4>2
    <3>2. CASE place[2] % step # 0
      BY <1>6, <2>2, <3>2
    <3> QED
      BY <3>1, <3>2
  <2> QED
    BY <1>5, <2>1, <2>2
<1>11. ASSUME NEW one \in Places', NEW other \in Places',
              Before(one, other), Given(one)' # Silence, Given(other)' # Silence
       PROVE  Given(one)' < Given(other)'
  <2>1. CASE one \in Places /\ other \in Places
    BY <1>4, <1>11, <2>1 DEF SentInv, SentIsConsumed
  <2>2. CASE one \in Places /\ other[1] = last
    <3>1. Given(one)' \in 1..consumed
      BY <1>4, <1>11, <2>2 DEF SentInv, SentIsConsumed
    <3>2. Given(other)' = consumed + other[2] \div step + 1 /\ other[2] \div step \in Nat
      BY <1>6, <1>8, <1>11, <2>2
    <3> QED
      BY <1>1, <3>1, <3>2
  <2>3. CASE one[1] = last /\ other \in Places
    BY <1>1, <1>11, <2>3 DEF Before, Places
  <2>4. CASE one[1] = last /\ other[1] = last
    <3>1. one[2] \in Nat /\ other[2] \in Nat
      BY <1>6, <1>7, <2>4
    <3>2. one[2] < other[2]
      BY <1>1, <1>11, <2>4 DEF Before
    <3>3. /\ one[2] % step = 0 /\ Given(one)' = consumed + one[2] \div step + 1
          /\ other[2] % step = 0 /\ Given(other)' = consumed + other[2] \div step + 1
      BY <1>6, <1>11, <2>4
    <3>4. one[2] \div step < other[2] \div step
      BY <1>1, <3>1, <3>2, <3>3, QuotientsGrow
    <3>5. one[2] \div step \in Nat /\ other[2] \div step \in Nat
      BY <1>6, <1>8, <2>4
    <3> QED
      BY <1>1, <3>3, <3>4, <3>5
  <2> QED
    BY <1>5, <2>1, <2>2, <2>3, <2>4
<1> QED
  BY <1>9, <1>10, <1>11 DEF SentIsConsumed, Before, Silence

(* work(), channel_write(), consume_each(): when interpolation + 1 divides *)
(* the buffer size, the device is given every sample consumed, once and in *)
(* order, and no other, whatever pushes fail: for every buffer size,       *)
(* interpolation and offer.                                                *)
THEOREM DeviceIsGivenWhatIsConsumed ==
  ASSUME DividesEvenly
  PROVE  TransmitterSpec => []SentIsConsumed
<1>1. TransmitterInit => SentInv
  <2> SUFFICES ASSUME TransmitterInit PROVE SentIsConsumed
    BY TypeInvInit DEF SentInv
  <2>1. consumed = 0 /\ Len(sent) = 0
    BY DEF TransmitterInit, Init
  <2>2. Places = {}
    BY <2>1 DEF Places
  <2> QED
    BY <2>1, <2>2 DEF SentIsConsumed
<1>2. SentInv /\ [TransmitterNext]_transmitterVars => SentInv'
  <2> SUFFICES ASSUME SentInv, [TransmitterNext]_transmitterVars PROVE SentInv'
    OBVIOUS
  <2>1. TypeInv'
    BY TypeInvStep DEF SentInv
  <2>2. ASSUME NEW n \in 1..MaxInput, Work(n) PROVE SentIsConsumed'
    BY <2>2, SentInvWork
  <2>3. CASE UNCHANGED <<setup, consumed, sent>>
    <3>1. Places' = Places /\ \A place : Given(place)' = Given(place)
      BY <2>3 DEF Places, Given, Slots, buffer_size
    <3>2. \A sample \in 1..consumed' : \E place \in Places' : Given(place)' = sample
      BY <2>3, <3>1 DEF SentInv, SentIsConsumed
    <3>3. \A place \in Places' : Given(place)' \in {Silence} \cup 1..consumed'
      BY <2>3, <3>1 DEF SentInv, SentIsConsumed
    <3>4. \A one, other \in Places' :
            Before(one, other) /\ Given(one)' # Silence /\ Given(other)' # Silence =>
              Given(one)' < Given(other)'
      BY <3>1 DEF SentInv, SentIsConsumed
    <3> QED
      BY <2>1, <3>2, <3>3, <3>4 DEF SentInv, SentIsConsumed, Before, Silence
  <2> QED
    BY <2>1, <2>2, <2>3
    DEF TransmitterNext, Transmit, Destroyed, TransmitterMade, ReceiverMade, ReceiverStep,
        transmitterVars, vars, WorkFails, Restarted, Restart, Destroy, SentInv
<1>3. SentInv => SentIsConsumed
  BY DEF SentInv
<1> QED
  BY <1>1, <1>2, <1>3, PTL DEF TransmitterSpec

(* Without DividesEvenly: push number p is given the samples of the p-th   *)
(* portion, in order, and at most the sample that follows them.            *)
Window(p) == ((p - 1) * Portion + 1)..((p - 1) * Portion + Portion + 1)

PushWindows ==
  /\ consumed = Len(sent) * Portion
  /\ \A sample \in 1..consumed : \E place \in Places : Given(place) = sample
  /\ \A place \in Places : Given(place) # Silence => Given(place) \in Window(place[1])
  /\ \A one, other \in Places :
       /\ one[1] = other[1] /\ one[2] < other[2]
       /\ Given(one) # Silence /\ Given(other) # Silence
       => Given(one) < Given(other)

(* What a push carries, whether or not the steps fill the buffer.          *)
LEMMA FilledIsWindow ==
  ASSUME TypeInv, NEW n \in 1..MaxInput, Offers(n), NEW slot \in Slots
  PROVE  LET k == slot \div (interpolation + 1) IN
         /\ k \in 0..Portion
         /\ slot % (interpolation + 1) = 0 /\ k < Portion => Filled(n)[slot] = consumed + k + 1
         /\ Filled(n)[slot] # Silence =>
              slot % (interpolation + 1) = 0 /\ Filled(n)[slot] = consumed + k + 1
<1> DEFINE step == interpolation + 1
           k == slot \div step
<1>1. /\ buffer_size \in Nat /\ interpolation \in Nat /\ step \in Nat \ {0}
      /\ consumed \in Nat /\ Portion \in Nat \ {0} /\ n % Portion = 0
  BY DEF TypeInv, TypeOK, Setup, buffer_size, interpolation, Offers
<1>2. slot \in Nat /\ slot < buffer_size
  BY <1>1 DEF Slots
<1>3. k \in Nat /\ k <= buffer_size \div step
  BY <1>1, <1>2
<1>4. k \in 0..Portion
  BY <1>1, <1>3 DEF Portion
<1>5. n >= Portion
  BY <1>1, WholePortions
<1>6. slot % step = 0 /\ k < n => Filled(n)[slot] = consumed + k + 1
  BY DEF Filled
<1>7. ~(slot % step = 0 /\ k < n) => Filled(n)[slot] = Silence
  <2>1. CASE interpolation >= 1
    BY <2>1 DEF Filled, Cleared
  <2>2. CASE ~(interpolation >= 1)
    <3>1. step = 1 /\ Portion = buffer_size
      BY <1>1, <2>2 DEF Portion
    <3>2. slot % step = 0 /\ k = slot
      BY <1>2, <3>1, ModOne, DivOne
    <3> QED
      BY <1>1, <1>2, <1>5, <3>1, <3>2
  <2> QED
    BY <2>1, <2>2
<1> HIDE DEF k
<1>8. k < Portion => k < n
  BY <1>1, <1>4, <1>5
<1> QED
  BY <1>4, <1>6, <1>7, <1>8 DEF k

LEMMA NextPortion ==
  ASSUME NEW p \in Nat, NEW portion \in Nat
  PROVE  (p + 1) * portion = p * portion + portion /\ ((p + 1) - 1) * portion = p * portion
  OBVIOUS

LEMMA PushWindowsWork ==
  ASSUME TypeInv, PushWindows, NEW n \in 1..MaxInput, Work(n)
  PROVE  PushWindows'
<1> DEFINE step == interpolation + 1
           last == Len(sent) + 1
<1>1. /\ buffer_size \in Nat /\ interpolation \in Nat /\ step \in Nat \ {0}
      /\ consumed \in Nat /\ Portion \in Nat \ {0}
      /\ sent \in Seq([Slots -> 0..MaxInput]) /\ Len(sent) \in Nat
  BY DEF TypeInv, TypeOK, Setup, buffer_size, interpolation
<1>2. /\ setup' = setup /\ Slots' = Slots /\ Portion' = Portion /\ Offers(n)
      /\ consumed' = consumed + Portion
      /\ sent' = Append(sent, Filled(n))
  BY DEF Work, ConsumeEach, Slots, buffer_size, interpolation, Portion
<1>3. /\ Len(sent') = last
      /\ sent'[last] = Filled(n)
      /\ \A p \in 1..Len(sent) : sent'[p] = sent[p]
  BY <1>1, <1>2
<1>4. \A place \in Places : place \in Places' /\ Given(place)' = Given(place)
  BY <1>1, <1>2, <1>3 DEF Places, Given
<1>5. \A place \in Places' : place \in Places \/ (place[1] = last /\ place[2] \in Slots)
  BY <1>1, <1>2, <1>3 DEF Places
<1>6. ASSUME NEW place \in Places', place[1] = last
      PROVE  LET k == place[2] \div step IN
             /\ place[2] \in Slots /\ k \in 0..Portion
             /\ place[2] % step = 0 /\ k < Portion => Given(place)' = consumed + k + 1
             /\ Given(place)' # Silence =>
                  place[2] % step = 0 /\ Given(place)' = consumed + k + 1
  <2>1. place[2] \in Slots /\ Given(place)' = Filled(n)[place[2]]
    BY <1>2, <1>3, <1>6 DEF Places, Given
  <2> QED
    BY <1>2, <2>1, FilledIsWindow
<1>7. \A slot \in Slots : slot \in Nat /\ slot < buffer_size
  BY <1>1 DEF Slots
<1>8. consumed' = Len(sent') * Portion'
  BY <1>1, <1>2, <1>3, NextPortion DEF PushWindows
<1>9. \A p \in Nat : Window(p)' = Window(p)
  BY <1>2 DEF Window
<1>10. Window(last) = (consumed + 1)..(consumed + Portion + 1)
  BY <1>1, NextPortion DEF Window, PushWindows
<1>11. ASSUME NEW sample \in 1..consumed' PROVE \E place \in Places' : Given(place)' = sample
  <2>1. CASE sample \in 1..consumed
    BY <1>4, <2>1 DEF PushWindows
  <2>2. CASE sample \notin 1..consumed
    <3> DEFINE k == sample - consumed - 1
    <3>1. k \in Nat /\ k < Portion
      BY <1>1, <1>2, <2>2
    <3>2. k * step \in Nat /\ (k * step) % step = 0 /\ (k * step) \div step = k
      BY <1>1, <3>1, Multiples
    <3>3. k * step < buffer_size
      BY <1>1, <3>1, MultipleInside DEF Portion
    <3>4. k * step \in Slots
      BY <1>1, <3>2, <3>3 DEF Slots
    <3>5. PICK place : place = <<last, k * step>>
      OBVIOUS
    <3>6. place \in Places' /\ place[1] = last /\ place[2] = k * step
      BY <1>1, <1>2, <1>3, <3>4, <3>5 DEF Places
    <3>7. Given(place)' = consumed + k + 1
      BY <1>6, <3>1, <3>2, <3>6
    <3>8. Given(place)' = sample
      BY <1>1, <1>2, <3>7
    <3> QED
      BY <3>6, <3>8
  <2> QED
    BY <2>1, <2>2
<1>12. ASSUME NEW place \in Places', Given(place)' # Silence
       PROVE  Given(place)' \in Window(place[1])'
  <2>1. CASE place \in Places
    <3>1. place[1] \in Nat
      BY <1>1, <2>1 DEF Places
    <3> QED
      BY <1>4, <1>9, <1>12, <2>1, <3>1 DEF PushWindows
  <2>2. CASE place[1] = last
    <3>1. /\ place[2] \div step \in 0..Portion
          /\ Given(place)' = consumed + place[2] \div step + 1
      BY <1>6, <1>12, <2>2
    <3>2. Given(place)' \in (consumed + 1)..(consumed + Portion + 1)
      BY <1>1, <3>1
    <3>3. Window(place[1])' = Window(last)
      BY <1>1, <1>9, <2>2
    <3> QED
      BY <1>10, <3>2, <3>3
  <2> QED
    BY <1>5, <2>1, <2>2
<1>13. ASSUME NEW one \in Places', NEW other \in Places', one[1] = other[1], one[2] < other[2],
              Given(one)' # Silence, Given(other)' # Silence
       PROVE  Given(one)' < Given(other)'
  <2>1. CASE one \in Places /\ other \in Places
    BY <1>4, <1>13, <2>1 DEF PushWindows
  <2>2. CASE one[1] = last /\ other[1] = last
    <3>1. one[2] \in Nat /\ other[2] \in Nat
      BY <1>6, <1>7, <2>2
    <3>2. /\ one[2] % step = 0 /\ Given(one)' = consumed + one[2] \div step + 1
          /\ other[2] % step = 0 /\ Given(other)' = consumed + other[2] \div step + 1
          /\ one[2] \div step \in 0..Portion /\ other[2] \div step \in 0..Portion
      BY <1>6, <1>13, <2>2
    <3>3. one[2] \div step < other[2] \div step
      BY <1>1, <1>13, <3>1, <3>2, QuotientsGrow
    <3> QED
      BY <1>1, <3>2, <3>3
  <2> QED
    BY <1>1, <1>5, <1>13, <2>1, <2>2 DEF Places
<1> QED
  BY <1>8, <1>11, <1>12, <1>13 DEF PushWindows, Silence

(* work(), channel_write(), consume_each(): for every buffer size and      *)
(* interpolation, also one whose steps leave a rest, the device is given   *)
(* every sample consumed; each push carries one portion in order and, in   *)
(* the rest, at most the sample after it, which the next push repeats.     *)
THEOREM NoConsumedSampleIsLost == TransmitterSpec => []PushWindows
<1>1. TransmitterInit => TypeInv /\ PushWindows
  <2> SUFFICES ASSUME TransmitterInit PROVE PushWindows
    BY TypeInvInit
  <2>1. consumed = 0 /\ Len(sent) = 0 /\ Portion \in Nat
    BY TypeInvInit DEF TransmitterInit, Init, TypeInv
  <2>2. Places = {}
    BY <2>1 DEF Places
  <2> QED
    BY <2>1, <2>2 DEF PushWindows
<1>2. TypeInv /\ PushWindows /\ [TransmitterNext]_transmitterVars => TypeInv' /\ PushWindows'
  <2> SUFFICES ASSUME TypeInv, PushWindows, [TransmitterNext]_transmitterVars PROVE PushWindows'
    BY TypeInvStep
  <2>1. CASE UNCHANGED <<setup, consumed, sent>>
    <3>1. /\ Places' = Places /\ Portion' = Portion /\ \A place : Given(place)' = Given(place)
          /\ \A p : Window(p)' = Window(p)
      BY <2>1 DEF Places, Given, Slots, buffer_size, interpolation, Portion, Window
    <3>2. \A sample \in 1..consumed' : \E place \in Places' : Given(place)' = sample
      BY <2>1, <3>1 DEF PushWindows
    <3>3. \A place \in Places' : Given(place)' # Silence => Given(place)' \in Window(place[1])'
      BY <3>1 DEF PushWindows
    <3>4. \A one, other \in Places' :
            /\ one[1] = other[1] /\ one[2] < other[2]
            /\ Given(one)' # Silence /\ Given(other)' # Silence
            => Given(one)' < Given(other)'
      BY <3>1 DEF PushWindows
    <3>5. consumed' = Len(sent') * Portion'
      BY <2>1, <3>1 DEF PushWindows
    <3> QED
      BY <3>2, <3>3, <3>4, <3>5 DEF PushWindows, Silence
  <2> QED
    BY <2>1, PushWindowsWork
    DEF TransmitterNext, Transmit, Destroyed, TransmitterMade, ReceiverMade, ReceiverStep,
        transmitterVars, vars, WorkFails, Restarted, Restart, Destroy
<1> QED
  BY <1>1, <1>2, PTL DEF TransmitterSpec
=============================================================================
