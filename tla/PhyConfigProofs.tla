--------------------------- MODULE PhyConfigProofs ---------------------------
(***************************************************************************)
(* What TLAPS proves of PhyConfig, for every set of arguments, every set   *)
(* of filter files and any number of failures.                             *)
(***************************************************************************)
EXTENDS PhyConfig, TLAPS

USE ConfigAssumption

-----------------------------------------------------------------------------
(* What the list of a call contains.                                       *)

Ops(s) == {s[i] : i \in DOMAIN s}
IsList(s) == s \in Seq(Ops(s))

LEMMA Retyped ==
  ASSUME NEW S, NEW T, NEW q \in Seq(S), \A i \in 1..Len(q) : q[i] \in T
  PROVE  q \in Seq(T)
  OBVIOUS

LEMMA EmptyList == IsList(<<>>) /\ Ops(<<>>) = {}
  BY DEF IsList, Ops

LEMMA OneOp ==
  ASSUME NEW x
  PROVE  IsList(<<x>>) /\ Ops(<<x>>) = {x}
<1>1. DOMAIN <<x>> = {1} /\ <<x>>[1] = x
  OBVIOUS
<1>2. Ops(<<x>>) = {x}
  BY <1>1 DEF Ops
<1> QED
  BY <1>2 DEF IsList

LEMMA Concatenation ==
  ASSUME NEW s, NEW t, IsList(s), IsList(t)
  PROVE  IsList(s \o t) /\ Ops(s \o t) = Ops(s) \cup Ops(t)
<1> DEFINE all == Ops(s) \cup Ops(t)
<1>1. s \in Seq(all) /\ t \in Seq(all)
  BY DEF IsList
<1>2. s \o t \in Seq(all) /\ Len(s \o t) = Len(s) + Len(t)
  BY <1>1
<1>3. /\ \A i \in 1..Len(s) : (s \o t)[i] = s[i]
      /\ \A i \in 1..Len(t) : (s \o t)[Len(s) + i] = t[i]
  BY <1>1
<1>4. /\ DOMAIN s = 1..Len(s) /\ DOMAIN t = 1..Len(t) /\ Len(s) \in Nat /\ Len(t) \in Nat
      /\ DOMAIN (s \o t) = 1..(Len(s) + Len(t))
  BY <1>1, <1>2
<1>5. ASSUME NEW x \in all PROVE x \in Ops(s \o t)
  <2>1. CASE x \in Ops(s)
    <3>1. PICK i \in 1..Len(s) : x = s[i]
      BY <1>4, <2>1 DEF Ops
    <3>2. i \in DOMAIN (s \o t) /\ (s \o t)[i] = x
      BY <1>3, <1>4, <3>1
    <3> QED
      BY <3>2 DEF Ops
  <2>2. CASE x \in Ops(t)
    <3>1. PICK i \in 1..Len(t) : x = t[i]
      BY <1>4, <2>2 DEF Ops
    <3>2. Len(s) + i \in DOMAIN (s \o t) /\ (s \o t)[Len(s) + i] = x
      BY <1>3, <1>4, <3>1
    <3> QED
      BY <3>2 DEF Ops
  <2> QED
    BY <2>1, <2>2
<1>6. Ops(s \o t) \subseteq all
  BY <1>2, <1>4 DEF Ops
<1>7. Ops(s \o t) = all
  BY <1>5, <1>6
<1> QED
  BY <1>2, <1>7 DEF IsList

LEMMA HeadAndTail ==
  ASSUME NEW s, IsList(s), s # <<>>
  PROVE  /\ IsList(Tail(s)) /\ Ops(Tail(s)) \subseteq Ops(s)
         /\ \A x \in Ops(s) : x = Head(s) \/ x \in Ops(Tail(s))
         /\ Head(s) \in Ops(s)
<1> DEFINE all == Ops(s)
           rest == Tail(s)
<1>1. /\ s \in Seq(all) /\ DOMAIN s = 1..Len(s) /\ Len(s) \in Nat \ {0} /\ Head(s) = s[1]
      /\ rest \in Seq(all) /\ DOMAIN rest = 1..(Len(s) - 1)
      /\ \A i \in 1..(Len(s) - 1) : rest[i] = s[i + 1]
  BY DEF IsList
<1>2. Ops(rest) \subseteq all
  BY <1>1 DEF Ops
<1>3. rest \in Seq(Ops(rest))
  <2>1. Len(rest) = Len(s) - 1
    BY <1>1
  <2>2. \A i \in 1..Len(rest) : rest[i] \in Ops(rest)
    BY <1>1, <2>1 DEF Ops
  <2>3. rest \in Seq(all)
    BY <1>1
  <2> HIDE DEF rest
  <2> QED
    BY <2>2, <2>3, Retyped
<1>4. ASSUME NEW x \in all PROVE x = Head(s) \/ x \in Ops(rest)
  <2>1. PICK i \in 1..Len(s) : x = s[i]
    BY <1>1 DEF Ops
  <2>2. CASE i = 1
    BY <1>1, <2>1, <2>2
  <2>3. CASE i # 1
    <3>1. i - 1 \in 1..(Len(s) - 1) /\ (i - 1) + 1 = i
      BY <1>1, <2>3
    <3>2. i - 1 \in DOMAIN rest /\ rest[i - 1] = x
      BY <1>1, <2>1, <3>1
    <3> QED
      BY <3>2 DEF Ops
  <2> QED
    BY <2>2, <2>3
<1>5. Head(s) \in all
  BY <1>1 DEF Ops
<1> QED
  BY <1>2, <1>3, <1>4, <1>5 DEF IsList

(* A list of writes. *)
OnlyWrites(s) == IsList(s) /\ \A x \in Ops(s) : x.op = "write"

LEMMA ParamWrites ==
  ASSUME NEW p, NEW name, NEW value
  PROVE  OnlyWrites(Param(p, name, value))
  BY OneOp DEF Param, OnlyWrites

LEMMA WritesWrites ==
  ASSUME NEW s, NEW t, OnlyWrites(s), OnlyWrites(t)
  PROVE  OnlyWrites(s \o t)
  BY Concatenation DEF OnlyWrites

LEMMA ParamsWrite ==
  ASSUME NEW b, NEW p, NEW c
  PROVE  OnlyWrites(Params(b, p, c))
<1>1. OnlyWrites(<<>>)
  BY EmptyList DEF OnlyWrites
<1>2. OnlyWrites(RateParam(p, c))
  BY <1>1, ParamWrites DEF RateParam
<1>3. ASSUME NEW n PROVE OnlyWrites(ForChannel(b, p, c, n))
  <2>1. OnlyWrites(ModeThenGain(p, c, n))
    BY <1>1, ParamWrites, WritesWrites DEF ModeThenGain
  <2>2. OnlyWrites(Attenuation(p, c, n))
    BY ParamWrites DEF Attenuation
  <2> QED
    BY <1>1, <2>1, <2>2 DEF ForChannel
<1>4. OnlyWrites(Param(p, Tuning(b), c.id) \o RateParam(p, c))
  BY <1>2, ParamWrites, WritesWrites
<1>5. OnlyWrites(Param(p, Tuning(b), c.id) \o RateParam(p, c) \o ForChannel(b, p, c, 1))
  BY <1>3, <1>4, WritesWrites
<1> QED
  BY <1>3, <1>5, WritesWrites DEF Params

-----------------------------------------------------------------------------
(* The filter.                                                             *)

(* A list loads no filter but the one of the arguments c, either from a    *)
(* file or with ad9361_set_bb_rate().                                      *)
LoadsOnly(s, c) ==
  \A x \in Ops(s) :
    /\ x.op = "fir" => x.value = c.filter /\ ~UsesAutoFilter(c)
    /\ x.op = "bb_rate" => UsesAutoFilter(c)

(* It does so on transceiver p.                                            *)
Loads(s, c, p) ==
  /\ c.filter # NoFile => \E x \in Ops(s) : x.op = "fir" /\ x.phy = p
  /\ UsesAutoFilter(c) => \E x \in Ops(s) : x.op = "bb_rate" /\ x.phy = p

LEMMA CallLoads ==
  ASSUME NEW b, NEW c, NEW s, board \in Boards,
         s = Construct(b, c) \/ (board.family = "fmcomms2" /\ s = SetParams(b, c))
  PROVE  /\ IsList(s) /\ LoadsOnly(s, c)
         /\ \A p \in Configured : Loads(s, c, p)
<1> DEFINE bb == Action("bb_rate", "phy", c.rate)
           sync == Action("sync", "phy", c.rate)
<1>1. /\ IsList(bb) /\ \A x \in Ops(bb) : x.op = "bb_rate" /\ x.phy = "phy"
      /\ \E x \in Ops(bb) : x.op = "bb_rate" /\ x.phy = "phy"
  BY OneOp DEF Action
<1>2. IsList(sync) /\ \A x \in Ops(sync) : x.op = "sync"
  BY OneOp DEF Action
<1>3. ASSUME NEW p
      PROVE  /\ IsList(LoadFilter(p, c))
             /\ \A x \in Ops(LoadFilter(p, c)) :
                  c.filter # NoFile /\ x.op = "fir" /\ x.phy = p /\ x.value = c.filter
             /\ c.filter # NoFile =>
                  \E x \in Ops(LoadFilter(p, c)) : x.op = "fir" /\ x.phy = p
  <2>1. CASE c.filter = NoFile
    BY <2>1, EmptyList DEF LoadFilter
  <2>2. CASE c.filter # NoFile
    BY <2>2, OneOp DEF LoadFilter, Action
  <2> QED
    BY <2>1, <2>2
<1>4. ASSUME NEW p
      PROVE  IsList(Params(b, p, c)) /\ \A x \in Ops(Params(b, p, c)) : x.op = "write"
  BY ParamsWrite DEF OnlyWrites
<1>5. CASE board.family = "fmcomms2"
  <2> DEFINE last == IF UsesAutoFilter(c) THEN bb ELSE LoadFilter("phy", c)
  <2>1. s = Params(b, "phy", c) \o last
    BY <1>5 DEF Construct, SetParams
  <2>2. IsList(last)
    BY <1>1, <1>3
  <2>3. IsList(s) /\ Ops(s) = Ops(Params(b, "phy", c)) \cup Ops(last)
    BY <1>4, <2>1, <2>2, Concatenation
  <2>4. /\ \A x \in Ops(last) : x.op = "fir" => x.value = c.filter /\ ~UsesAutoFilter(c)
        /\ \A x \in Ops(last) : x.op = "bb_rate" => UsesAutoFilter(c)
        /\ Loads(last, c, "phy")
    <3>1. CASE UsesAutoFilter(c)
      BY <1>1, <3>1 DEF Loads, UsesAutoFilter
    <3>2. CASE ~UsesAutoFilter(c)
      BY <1>3, <3>2 DEF Loads
    <3> QED
      BY <3>1, <3>2
  <2>5. LoadsOnly(s, c)
    BY <1>4, <2>3, <2>4 DEF LoadsOnly
  <2>6. Loads(s, c, "phy")
    BY <2>3, <2>4 DEF Loads
  <2> QED
    BY <1>5, <2>3, <2>5, <2>6 DEF Configured
<1>6. CASE board.family = "fmcomms5"
  <2> DEFINE p1 == Params(b, "phy", c)
             p2 == Params(b, "phy2", c)
             f1 == LoadFilter("phy", c)
             f2 == LoadFilter("phy2", c)
  <2>1. s = ((p1 \o p2) \o sync) \o (f1 \o f2)
    BY <1>6 DEF Construct, SetParams
  <2>2. IsList(p1 \o p2) /\ Ops(p1 \o p2) = Ops(p1) \cup Ops(p2)
    BY <1>4, Concatenation
  <2>3. IsList((p1 \o p2) \o sync) /\ Ops((p1 \o p2) \o sync) = Ops(p1) \cup Ops(p2) \cup Ops(sync)
    BY <1>2, <2>2, Concatenation
  <2>4. IsList(f1 \o f2) /\ Ops(f1 \o f2) = Ops(f1) \cup Ops(f2)
    BY <1>3, Concatenation
  <2>5. /\ IsList(s)
        /\ Ops(s) =
             Ops(p1) \cup Ops(p2) \cup Ops(sync) \cup Ops(f1) \cup Ops(f2)
    BY <2>1, <2>3, <2>4, Concatenation
  <2>6. ~UsesAutoFilter(c)
    BY <1>6 DEF UsesAutoFilter
  <2>7. LoadsOnly(s, c)
    <3> SUFFICES ASSUME NEW x \in Ops(s)
                 PROVE  x.op # "bb_rate" /\ (x.op = "fir" => x.value = c.filter)
      BY <2>6 DEF LoadsOnly
    <3>1. x.op = "write" \/ x.op = "sync" \/ (x.op = "fir" /\ x.value = c.filter)
      BY <1>2, <1>3, <1>4, <2>5
    <3> QED
      BY <3>1
  <2>8. \A p \in Phys : Loads(s, c, p)
    BY <1>3, <2>5, <2>6 DEF Loads, Phys
  <2> QED
    BY <1>6, <2>5, <2>7, <2>8 DEF Configured
<1> QED
  BY <1>5, <1>6 DEF Boards

(* set_params() of an fmcomms5 block loads none.                           *)
LEMMA SetParamsLoads ==
  ASSUME NEW b, NEW c, board.family = "fmcomms5"
  PROVE  IsList(SetParams(b, c)) /\ \A x \in Ops(SetParams(b, c)) : x.op \in {"write", "sync"}
<1> DEFINE sync == Action("sync", "phy", c.rate)
           p1 == Params(b, "phy", c)
           p2 == Params(b, "phy2", c)
<1>1. IsList(sync) /\ \A x \in Ops(sync) : x.op = "sync"
  BY OneOp DEF Action
<1>2. /\ IsList(p1) /\ \A x \in Ops(p1) : x.op = "write"
      /\ IsList(p2) /\ \A x \in Ops(p2) : x.op = "write"
  BY ParamsWrite DEF OnlyWrites
<1>3. IsList(p1 \o p2) /\ Ops(p1 \o p2) = Ops(p1) \cup Ops(p2)
  BY <1>2, Concatenation
<1>4. SetParams(b, c) = (p1 \o p2) \o sync
  BY DEF SetParams
<1> QED
  BY <1>1, <1>2, <1>3, <1>4, Concatenation

CallTypeOK ==
  /\ board \in Boards
  /\ DOMAIN todo = Blocks /\ DOMAIN config = Blocks /\ DOMAIN outcome = Blocks
  /\ DOMAIN alone = Blocks /\ DOMAIN made = Blocks /\ DOMAIN refused = Blocks
  /\ DOMAIN fir = Phys

(* A block that is not in a call has nothing to do, and while a block is   *)
(* alone the other is not in a call.                                       *)
CallsInProgress ==
  \A b \in Blocks :
    /\ outcome[b] # "called" => todo[b] = <<>>
    /\ alone[b] => outcome[Other(b)] # "called"

(* What is left to do loads no filter but the one asked for ...            *)
LoadsWhatWasAsked ==
  \A b \in Blocks : IsList(todo[b]) /\ LoadsOnly(todo[b], config[b])

(* ... and the filter asked for is there already or is left to do.         *)
LoadedOrToDo(b, p) ==
  /\ config[b].filter # NoFile =>
       \/ fir[p] = config[b].filter
       \/ \E x \in Ops(todo[b]) : x.op = "fir" /\ x.phy = p
  /\ UsesAutoFilter(config[b]) =>
       \/ fir[p] = "auto"
       \/ \E x \in Ops(todo[b]) : x.op = "bb_rate" /\ x.phy = p

FilterInProgress ==
  \A b \in Blocks : alone[b] /\ outcome[b] \in {"called", "returned"} =>
    \A p \in Configured : LoadedOrToDo(b, p)

FilterInv == CallTypeOK /\ CallsInProgress /\ LoadsWhatWasAsked /\ FilterInProgress

LEMMA TwoBlocks ==
  /\ \A b \in Blocks : Other(b) \in Blocks /\ Other(b) # b /\ Other(Other(b)) = b
  /\ \A b, c \in Blocks : c # b => c = Other(b)
<1>1. Other("source") = "sink" /\ Other("sink") = "source"
  BY DEF Other, Blocks
<1> QED
  BY <1>1 DEF Blocks

LEMMA BeginKeepsFilterInv ==
  ASSUME FilterInv, NEW b \in Blocks, NEW c \in Configs, Begin(b, c)
  PROVE  FilterInv'
<1> USE DEF FilterInv
<1>1. /\ board' = board /\ fir' = fir /\ made' = made
      /\ outcome' = [outcome EXCEPT ![b] = "called"]
      /\ todo' = [todo EXCEPT ![b] = IF made[b] THEN SetParams(b, c) ELSE Construct(b, c)]
      /\ config' = [config EXCEPT ![b] =
            IF made[b] /\ board.family = "fmcomms5" THEN [c EXCEPT !.filter = NoFile] ELSE c]
      /\ refused' = [refused EXCEPT ![b] = FALSE]
      /\ alone' = [alone EXCEPT ![b] = outcome[Other(b)] # "called", ![Other(b)] = FALSE]
  BY DEF Begin, device
<1>2. CallTypeOK'
  BY <1>1 DEF CallTypeOK
<1>3. /\ outcome'[b] = "called" /\ outcome'[Other(b)] = outcome[Other(b)]
      /\ todo'[Other(b)] = todo[Other(b)] /\ config'[Other(b)] = config[Other(b)]
      /\ alone'[b] = (outcome[Other(b)] # "called") /\ alone'[Other(b)] = FALSE
  BY <1>1, TwoBlocks DEF CallTypeOK
<1>4. CallsInProgress'
  <2> SUFFICES ASSUME NEW d \in Blocks
               PROVE  /\ outcome'[d] # "called" => todo'[d] = <<>>
                      /\ alone'[d] => outcome'[Other(d)] # "called"
    BY DEF CallsInProgress, Other
  <2>1. CASE d = b
    BY <1>3, <2>1
  <2>2. CASE d = Other(b)
    BY <1>3, <2>2, TwoBlocks DEF CallsInProgress
  <2> QED
    BY <2>1, <2>2, TwoBlocks
<1>5. /\ IsList(todo'[b]) /\ LoadsOnly(todo'[b], config'[b])
      /\ \A p \in Configured : Loads(todo'[b], config'[b], p)
  <2>1. CASE made[b] /\ board.family = "fmcomms5"
    <3>1. todo'[b] = SetParams(b, c) /\ config'[b].filter = NoFile
      <4>1. todo'[b] = SetParams(b, c) /\ config'[b] = [c EXCEPT !.filter = NoFile]
        BY <1>1, <2>1 DEF CallTypeOK
      <4>2. c \in Config
        OBVIOUS
      <4> QED
        BY <4>1, <4>2 DEF Config
    <3>2. ~UsesAutoFilter(config'[b])
      BY <2>1 DEF UsesAutoFilter
    <3> QED
      BY <2>1, <3>1, <3>2, SetParamsLoads DEF LoadsOnly, Loads
  <2>2. CASE ~(made[b] /\ board.family = "fmcomms5")
    <3>1. config'[b] = c
      BY <1>1, <2>2 DEF CallTypeOK
    <3>2. \/ todo'[b] = Construct(b, c)
          \/ board.family = "fmcomms2" /\ todo'[b] = SetParams(b, c)
      BY <1>1, <2>2 DEF CallTypeOK, Boards
    <3> QED
      BY <3>1, <3>2, CallLoads DEF CallTypeOK
  <2> QED
    BY <2>1, <2>2
<1>6. UsesAutoFilter(config[b])' = UsesAutoFilter(config'[b]) /\ Configured' = Configured
  BY <1>1 DEF UsesAutoFilter, Configured
<1>7. LoadsWhatWasAsked'
  <2> SUFFICES ASSUME NEW d \in Blocks
               PROVE  IsList(todo'[d]) /\ LoadsOnly(todo'[d], config'[d])
    BY <1>1 DEF LoadsWhatWasAsked, LoadsOnly, UsesAutoFilter
  <2>1. CASE d = b
    BY <1>5, <2>1
  <2>2. CASE d = Other(b)
    BY <1>3, <2>2, TwoBlocks DEF LoadsWhatWasAsked
  <2> QED
    BY <2>1, <2>2, TwoBlocks
<1>8. FilterInProgress'
  <2> SUFFICES ASSUME NEW d \in Blocks, alone'[d], NEW p \in Configured
               PROVE  LoadedOrToDo(d, p)'
    BY <1>6 DEF FilterInProgress
  <2>1. d = b
    BY <1>3, TwoBlocks
  <2>2. Loads(todo'[b], config'[b], p)
    BY <1>5
  <2> QED
    BY <1>1, <2>1, <2>2 DEF Loads, LoadedOrToDo, UsesAutoFilter
<1> QED
  BY <1>2, <1>4, <1>7, <1>8

(* An operation takes the first of what is left to do, and what loads a    *)
(* filter loads the one the transceiver was to have.                       *)
LEMMA OperationKeepsFilterInv ==
  ASSUME FilterInv, NEW b \in Blocks,
         Write(b) \/ WriteRefused(b) \/ SetBbRate(b) \/ LoadFirFilter(b) \/ Sync(b)
  PROVE  FilterInv'
<1> USE DEF FilterInv
<1> DEFINE first == Head(todo[b])
<1>1. /\ todo[b] # <<>>
      /\ todo' = [todo EXCEPT ![b] = Tail(@)]
      /\ UNCHANGED <<board, config, outcome, alone, made>>
  BY DEF Write, WriteRefused, SetBbRate, LoadFirFilter, Sync, Doing, Done
<1>2. \/ UNCHANGED fir /\ first.op \notin {"fir", "bb_rate"}
      \/ first.op = "bb_rate" /\ fir' = [fir EXCEPT ![first.phy] = "auto"]
      \/ first.op = "fir" /\ fir' = [fir EXCEPT ![first.phy] = first.value]
  BY DEF Write, WriteRefused, SetBbRate, LoadFirFilter, Sync, Doing, Step, device
<1>3. DOMAIN refused' = Blocks /\ DOMAIN fir' = Phys
  BY <1>2 DEF Write, WriteRefused, SetBbRate, LoadFirFilter, Sync, CallTypeOK
<1>4. CallTypeOK'
  BY <1>1, <1>3 DEF CallTypeOK
<1>5. /\ todo'[b] = Tail(todo[b]) /\ outcome[b] = "called"
      /\ \A d \in Blocks : d # b => todo'[d] = todo[d]
  BY <1>1 DEF CallTypeOK, CallsInProgress
<1>6. CallsInProgress'
  BY <1>1, <1>5 DEF CallsInProgress, Other
<1>7. /\ IsList(todo[b]) /\ LoadsOnly(todo[b], config[b])
      /\ IsList(todo'[b]) /\ Ops(todo'[b]) \subseteq Ops(todo[b]) /\ first \in Ops(todo[b])
      /\ \A x \in Ops(todo[b]) : x = first \/ x \in Ops(todo'[b])
  BY <1>1, <1>5, HeadAndTail DEF LoadsWhatWasAsked
<1>8. \A c : UsesAutoFilter(c)' = UsesAutoFilter(c)
  BY <1>1 DEF UsesAutoFilter
<1>9. LoadsWhatWasAsked'
  <2> SUFFICES ASSUME NEW d \in Blocks
               PROVE  IsList(todo'[d]) /\ LoadsOnly(todo'[d], config[d])
    BY <1>1 DEF LoadsWhatWasAsked, LoadsOnly, UsesAutoFilter
  <2>1. CASE d = b
    BY <1>7, <2>1 DEF LoadsOnly
  <2>2. CASE d # b
    BY <1>5, <2>2 DEF LoadsWhatWasAsked
  <2> QED
    BY <2>1, <2>2
<1>10. FilterInProgress'
  <2> SUFFICES ASSUME NEW d \in Blocks, alone[d], outcome[d] \in {"called", "returned"},
                      NEW p \in Configured
               PROVE  LoadedOrToDo(d, p)'
    BY <1>1 DEF FilterInProgress, Configured
  <2>1. d = b
    BY <1>5, TwoBlocks DEF CallsInProgress
  <2>2. LoadedOrToDo(b, p) /\ p \in Phys
    BY <2>1 DEF FilterInProgress, Configured, Phys
  <2>3. config[b].filter # NoFile =>
          \/ fir'[p] = config[b].filter
          \/ \E x \in Ops(todo'[b]) : x.op = "fir" /\ x.phy = p
    <3> SUFFICES ASSUME config[b].filter # NoFile,
                        ~ \E x \in Ops(todo'[b]) : x.op = "fir" /\ x.phy = p
                 PROVE  fir'[p] = config[b].filter
      OBVIOUS
    <3>1. ~UsesAutoFilter(config[b]) /\ first.op # "bb_rate"
      BY <1>7 DEF UsesAutoFilter, LoadsOnly
    <3>2. first.op = "fir" => first.value = config[b].filter
      BY <1>7 DEF LoadsOnly
    <3>3. fir[p] = config[b].filter \/ (first.op = "fir" /\ first.phy = p)
      BY <1>7, <2>2 DEF LoadedOrToDo
    <3> QED
      BY <1>2, <2>2, <3>1, <3>2, <3>3 DEF CallTypeOK
  <2>4. UsesAutoFilter(config[b]) =>
          \/ fir'[p] = "auto"
          \/ \E x \in Ops(todo'[b]) : x.op = "bb_rate" /\ x.phy = p
    <3> SUFFICES ASSUME UsesAutoFilter(config[b]),
                        ~ \E x \in Ops(todo'[b]) : x.op = "bb_rate" /\ x.phy = p
                 PROVE  fir'[p] = "auto"
      OBVIOUS
    <3>1. first.op # "fir"
      BY <1>7 DEF LoadsOnly
    <3>2. fir[p] = "auto" \/ (first.op = "bb_rate" /\ first.phy = p)
      BY <1>7, <2>2 DEF LoadedOrToDo
    <3> QED
      BY <1>2, <2>2, <3>1, <3>2 DEF CallTypeOK
  <2> QED
    BY <1>1, <2>1, <2>3, <2>4 DEF LoadedOrToDo, UsesAutoFilter
<1> QED
  BY <1>4, <1>6, <1>9, <1>10

LEMMA EndKeepsFilterInv ==
  ASSUME FilterInv, NEW b \in Blocks, Throw(b) \/ Return(b)
  PROVE  FilterInv'
<1> USE DEF FilterInv
<1>1. /\ UNCHANGED <<board, fir, config, alone, refused>>
      /\ DOMAIN made' = Blocks /\ DOMAIN todo' = Blocks /\ DOMAIN outcome' = Blocks
      /\ todo'[b] = <<>> /\ outcome'[b] \in {"returned", "thrown"}
      /\ outcome'[b] = "returned" => outcome[b] = "called" /\ todo[b] = <<>>
      /\ \A d \in Blocks : d # b => todo'[d] = todo[d] /\ outcome'[d] = outcome[d]
  BY DEF Throw, Return, CallTypeOK, device
<1>2. CallTypeOK' /\ CallsInProgress'
  BY <1>1, TwoBlocks DEF CallTypeOK, CallsInProgress, Other
<1>3. LoadsWhatWasAsked'
  BY <1>1, EmptyList DEF LoadsWhatWasAsked, LoadsOnly, UsesAutoFilter
<1>4. FilterInProgress'
  <2> SUFFICES ASSUME NEW d \in Blocks, alone[d], outcome'[d] \in {"called", "returned"},
                      NEW p \in Configured
               PROVE  LoadedOrToDo(d, p)'
    BY <1>1 DEF FilterInProgress, Configured
  <2>1. todo'[d] = todo[d] /\ outcome[d] \in {"called", "returned"}
    BY <1>1
  <2>2. LoadedOrToDo(d, p)
    BY <2>1 DEF FilterInProgress
  <2> QED
    BY <1>1, <2>1, <2>2 DEF LoadedOrToDo, UsesAutoFilter
<1> QED
  BY <1>2, <1>3, <1>4

LEMMA MissingKeepsFilterInv ==
  ASSUME FilterInv, NEW b \in Blocks, PhyMissing(b)
  PROVE  FilterInv'
<1> USE DEF FilterInv
<1>1. /\ UNCHANGED <<board, fir, made, todo, config, refused, alone>>
      /\ outcome' = [outcome EXCEPT ![b] = "missing"]
      /\ outcome[b] \in {"none", "missing"}
  BY DEF PhyMissing, device
<1>2. CallTypeOK'
  BY <1>1 DEF CallTypeOK
<1>3. /\ outcome'[b] = "missing"
      /\ \A d \in Blocks : d # b => outcome'[d] = outcome[d]
  BY <1>1 DEF CallTypeOK
<1>4. CallsInProgress'
  <2>1. \A d \in Blocks : Other(d)' = Other(d) /\ Other(d) \in Blocks
    BY TwoBlocks DEF Other
  <2> QED
    BY <1>1, <1>3, <2>1 DEF CallsInProgress
<1>5. LoadsWhatWasAsked'
  BY <1>1 DEF LoadsWhatWasAsked, LoadsOnly, UsesAutoFilter
<1>6. FilterInProgress'
  BY <1>1, <1>3 DEF FilterInProgress, Configured, LoadedOrToDo, UsesAutoFilter
<1> QED
  BY <1>2, <1>4, <1>5, <1>6

LEMMA FilterInvariance == Spec => []FilterInv
<1>1. Init => FilterInv
  BY EmptyList DEF Init, FilterInv, CallTypeOK, CallsInProgress, LoadsWhatWasAsked, LoadsOnly,
                   FilterInProgress
<1>2. FilterInv /\ [Next]_vars => FilterInv'
  <2> SUFFICES ASSUME FilterInv, [Next]_vars PROVE FilterInv'
    OBVIOUS
  <2>1. CASE UNCHANGED vars
    BY <2>1 DEF vars, call, device, FilterInv, CallTypeOK, CallsInProgress, Other,
                LoadsWhatWasAsked, LoadsOnly, UsesAutoFilter, FilterInProgress, Configured,
                LoadedOrToDo
  <2> QED
    BY <2>1, BeginKeepsFilterInv, MissingKeepsFilterInv,
       OperationKeepsFilterInv, EndKeepsFilterInv DEF Next
<1> QED
  BY <1>1, <1>2, PTL DEF Spec

(* set_params(), load_fir_filter(), ad9361_set_bb_rate(): a call that      *)
(* returns has put the filter it was asked for in every transceiver it     *)
(* configures, for every set of arguments, of files and of failures.       *)
THEOREM FilterIsLoaded == Spec => []FilterOrThrow
<1>1. FilterInv => FilterOrThrow
  BY DEF FilterInv, CallsInProgress, FilterInProgress, LoadedOrToDo, FilterOrThrow, Ops
<1> QED
  BY <1>1, FilterInvariance, PTL

-----------------------------------------------------------------------------
(* The attributes.                                                         *)

(* The attributes a block writes, those that c makes it write on every     *)
(* transceiver, and what it writes to them.                                *)
NamesOf(b) ==
  {Rate, Tuning(b)} \cup {Gain(b, n) : n \in {1, 2}} \cup
  (IF b = "source" THEN {Mode(n) : n \in {1, 2}} ELSE {})

Needed(b, c) ==
  {Tuning(b)} \cup
  (IF b = "sink" \/ c.mode = "manual" THEN {Gain(b, n) : n \in Channels} ELSE {}) \cup
  (IF b = "source" THEN {Mode(n) : n \in Channels} ELSE {})

Asked(b, c, name) ==
  IF name = Rate THEN c.rate
  ELSE IF name[1] = "mode" THEN c.mode
  ELSE IF name[1] = "gain" /\ b = "sink" THEN -c.id
  ELSE c.id

LEMMA NameFacts ==
  ASSUME NEW b \in Blocks, NEW n \in {1, 2}
  PROVE  /\ Rate[1] = "rate" /\ Tuning(b)[1] = "tuning" /\ Mode(n)[1] = "mode"
         /\ Gain(b, n)[1] = "gain" /\ Tuning(b)[2] = b /\ Gain(b, n)[2] = b
         /\ Mode(n)[3] = n /\ Gain(b, n)[3] = n
  BY DEF Rate, Tuning, Mode, Gain

LEMMA NamesAreNames ==
  ASSUME NEW b \in Blocks
  PROVE  NamesOf(b) \subseteq Names
<1>1. Rate \in Names
  BY DEF Rate, Names
<1>2. Tuning(b) \in Names
  BY DEF Tuning, Names, Blocks
<1>3. ASSUME NEW n \in {1, 2} PROVE Gain(b, n) \in Names /\ Mode(n) \in Names
  BY DEF Gain, Mode, Names, Blocks
<1> QED
  BY <1>1, <1>2, <1>3 DEF NamesOf

LEMMA OwnNames ==
  ASSUME NEW b \in Blocks, NEW c, board \in Boards
  PROVE  /\ Needed(b, c) \subseteq NamesOf(b) /\ Rate \notin Needed(b, c)
         /\ Needed(b, c) \cap NamesOf(Other(b)) = {}
         /\ Channels \subseteq {1, 2}
<1>1. Channels \subseteq {1, 2}
  BY DEF Channels, Boards
<1>2. Needed(b, c) \subseteq NamesOf(b)
  BY <1>1 DEF Needed, NamesOf
<1>3. Rate \notin Needed(b, c)
  BY <1>1, NameFacts DEF Needed
<1>4. Needed(b, c) \cap NamesOf(Other(b)) = {}
  <2> SUFFICES ASSUME NEW x \in Needed(b, c), x \in NamesOf(Other(b)) PROVE FALSE
    OBVIOUS
  <2>1. /\ x[1] \in {"tuning", "gain"} => x[2] = b
        /\ x[1] \in {"tuning", "gain", "mode"}
        /\ x[1] = "mode" => b = "source"
    BY <1>1, NameFacts DEF Needed
  <2>2. /\ x[1] \in {"tuning", "gain"} => x[2] = Other(b)
        /\ x[1] = "mode" => Other(b) = "source"
    BY NameFacts, TwoBlocks DEF NamesOf
  <2> QED
    BY <2>1, <2>2, TwoBlocks
<1> QED
  BY <1>1, <1>2, <1>3, <1>4

(* A list of writes to transceiver p of what c asks for.                   *)
AsksOnly(s, b, p, c) ==
  /\ IsList(s)
  /\ \A x \in Ops(s) : /\ x.op = "write" /\ x.phy = p
                       /\ x.name \in NamesOf(b) /\ x.value = Asked(b, c, x.name)

(* Each receive gain comes after the mode it depends on.                   *)
IsGain(x, n) == x.op = "write" /\ x.name = Gain("source", n)
IsMode(x, n) == x.op = "write" /\ x.name = Mode(n)

GainAfterMode(s) ==
  \A i \in DOMAIN s, n \in {1, 2} : IsGain(s[i], n) =>
    \E j \in DOMAIN s : j < i /\ IsMode(s[j], n) /\ s[j].phy = s[i].phy

(* What may throw comes last.                                              *)
WritesFirst(s) ==
  \A i, j \in DOMAIN s : s[i].op \in {"fir", "bb_rate"} /\ i < j => s[j].op # "write"

LEMMA Places ==
  ASSUME NEW s, NEW t, IsList(s), IsList(t)
  PROVE  /\ DOMAIN s = 1..Len(s) /\ DOMAIN t = 1..Len(t) /\ Len(s) \in Nat /\ Len(t) \in Nat
         /\ DOMAIN (s \o t) = 1..(Len(s) + Len(t))
         /\ \A i \in 1..Len(s) : (s \o t)[i] = s[i]
         /\ \A i \in 1..Len(t) : (s \o t)[Len(s) + i] = t[i]
<1> DEFINE all == Ops(s) \cup Ops(t)
<1>1. s \in Seq(all) /\ t \in Seq(all)
  BY DEF IsList
<1>2. s \o t \in Seq(all) /\ Len(s \o t) = Len(s) + Len(t)
  BY <1>1
<1> QED
  BY <1>1, <1>2

LEMMA GainAfterModeInBoth ==
  ASSUME NEW s, NEW t, IsList(s), IsList(t), GainAfterMode(s), GainAfterMode(t)
  PROVE  GainAfterMode(s \o t)
<1> DEFINE st == s \o t
<1> SUFFICES ASSUME NEW i \in DOMAIN st, NEW n \in {1, 2}, IsGain(st[i], n)
             PROVE  \E j \in DOMAIN st : j < i /\ IsMode(st[j], n) /\ st[j].phy = st[i].phy
  BY DEF GainAfterMode
<1>1. CASE i \in DOMAIN s
  <2>1. st[i] = s[i]
    BY <1>1, Places
  <2>2. PICK j \in DOMAIN s : j < i /\ IsMode(s[j], n) /\ s[j].phy = s[i].phy
    BY <1>1, <2>1 DEF GainAfterMode
  <2>3. j \in DOMAIN st /\ st[j] = s[j]
    BY Places
  <2> QED
    BY <2>1, <2>2, <2>3
<1>2. CASE i \notin DOMAIN s
  <2> DEFINE k == i - Len(s)
  <2>1. k \in DOMAIN t /\ i = Len(s) + k /\ st[i] = t[k]
    BY <1>2, Places
  <2>2. PICK j \in DOMAIN t : j < k /\ IsMode(t[j], n) /\ t[j].phy = t[k].phy
    BY <2>1 DEF GainAfterMode
  <2>3. Len(s) + j \in DOMAIN st /\ st[Len(s) + j] = t[j] /\ Len(s) + j < i
    BY <2>1, <2>2, Places
  <2> QED
    BY <2>1, <2>2, <2>3
<1> QED
  BY <1>1, <1>2

LEMMA NoGains ==
  ASSUME NEW s, \A x \in Ops(s), n \in {1, 2} : ~IsGain(x, n)
  PROVE  GainAfterMode(s)
  BY DEF GainAfterMode, Ops

LEMMA WritesThenLoads ==
  ASSUME NEW s, NEW t, IsList(s), IsList(t),
         \A x \in Ops(s) : x.op \notin {"fir", "bb_rate"},
         \A x \in Ops(t) : x.op # "write"
  PROVE  WritesFirst(s \o t)
<1> SUFFICES ASSUME NEW i \in DOMAIN (s \o t), NEW j \in DOMAIN (s \o t),
                    (s \o t)[i].op \in {"fir", "bb_rate"}, i < j
             PROVE  (s \o t)[j].op # "write"
  BY DEF WritesFirst
<1>1. i \notin DOMAIN s
  BY Places DEF Ops
<1>2. j - Len(s) \in DOMAIN t /\ (s \o t)[j] = t[j - Len(s)]
  BY <1>1, Places
<1> QED
  BY <1>2 DEF Ops

LEMMA ParamAsks ==
  ASSUME NEW b, NEW p, NEW c, NEW name \in NamesOf(b), NEW value, value = Asked(b, c, name)
  PROVE  /\ AsksOnly(Param(p, name, value), b, p, c)
         /\ \E x \in Ops(Param(p, name, value)) : x.name = name
         /\ \A x \in Ops(Param(p, name, value)) : x.name = name
  BY OneOp DEF Param, AsksOnly

LEMMA AsksBoth ==
  ASSUME NEW b, NEW p, NEW c, NEW s, NEW t, AsksOnly(s, b, p, c), AsksOnly(t, b, p, c)
  PROVE  AsksOnly(s \o t, b, p, c) /\ Ops(s \o t) = Ops(s) \cup Ops(t)
  BY Concatenation DEF AsksOnly

LEMMA AfterItsMode ==
  ASSUME NEW m, NEW t, NEW p, NEW n \in {1, 2}, IsList(m), IsList(t), Len(m) = 1,
         IsMode(m[1], n), m[1].phy = p,
         \A x \in Ops(t) : x.phy = p /\ \A k \in {1, 2} : IsGain(x, k) => k = n
  PROVE  GainAfterMode(m \o t)
<1> DEFINE mt == m \o t
<1>1. /\ mt[1] = m[1] /\ 1 \in DOMAIN mt
      /\ \A i \in DOMAIN mt : i \in Nat /\ i >= 1
      /\ \A i \in DOMAIN mt : i # 1 => mt[i] \in Ops(t)
  <2>1. /\ DOMAIN mt = 1..(1 + Len(t)) /\ Len(t) \in Nat /\ DOMAIN t = 1..Len(t)
        /\ mt[1] = m[1] /\ \A i \in 1..Len(t) : mt[1 + i] = t[i]
    <3>1. Len(m) = 1 /\ 1 \in 1..Len(m)
      OBVIOUS
    <3>2. /\ DOMAIN (m \o t) = 1..(Len(m) + Len(t)) /\ Len(t) \in Nat /\ DOMAIN t = 1..Len(t)
          /\ \A i \in 1..Len(m) : (m \o t)[i] = m[i]
          /\ \A i \in 1..Len(t) : (m \o t)[Len(m) + i] = t[i]
      BY Places, SMTT(60)
    <3> QED
      BY <3>1, <3>2
  <2>2. ASSUME NEW i \in DOMAIN mt, i # 1 PROVE mt[i] \in Ops(t)
    <3>1. i - 1 \in 1..Len(t) /\ 1 + (i - 1) = i
      BY <2>1, <2>2
    <3>2. mt[i] = t[i - 1]
      BY <2>1, <3>1
    <3> QED
      BY <2>1, <3>1, <3>2 DEF Ops
  <2> HIDE DEF mt
  <2> QED
    BY <2>1, <2>2
<1> HIDE DEF mt
<1>2. ASSUME NEW i \in DOMAIN mt, NEW k \in {1, 2}, IsGain(mt[i], k)
      PROVE  \E j \in DOMAIN mt : j < i /\ IsMode(mt[j], k) /\ mt[j].phy = mt[i].phy
  <2>1. i # 1
    BY <1>1, <1>2, NameFacts DEF IsGain, IsMode, Blocks
  <2>2. k = n /\ mt[i].phy = p
    BY <1>1, <1>2, <2>1
  <2>3. 1 < i
    BY <1>1, <2>1
  <2> QED
    BY <1>1, <2>2, <2>3
<1>3. GainAfterMode(mt)
  BY <1>2 DEF GainAfterMode
<1> QED
  BY <1>3 DEF mt

(* The parameters of one channel.                                          *)
LEMMA ChannelAsks ==
  ASSUME NEW b \in Blocks, NEW p, NEW c, NEW n \in {1, 2}, board \in Boards
  PROVE  /\ AsksOnly(ForChannel(b, p, c, n), b, p, c) /\ GainAfterMode(ForChannel(b, p, c, n))
         /\ n \in Channels => \A name \in Needed(b, c) :
              name = Gain(b, n) \/ name = Mode(n) =>
                \E x \in Ops(ForChannel(b, p, c, n)) : x.name = name
<1>1. AsksOnly(<<>>, b, p, c) /\ GainAfterMode(<<>>)
  BY EmptyList, NoGains DEF AsksOnly
<1>2. CASE n \notin Channels
  BY <1>1, <1>2 DEF ForChannel
<1>3. CASE n \in Channels /\ b = "sink"
  <2> DEFINE s == Param(p, Gain("sink", n), -c.id)
  <2>1. ForChannel(b, p, c, n) = s
    BY <1>3 DEF ForChannel, Attenuation
  <2>2. Gain("sink", n) \in NamesOf(b) /\ Asked(b, c, Gain("sink", n)) = -c.id
    BY <1>3, NameFacts DEF NamesOf, Asked
  <2>3. /\ AsksOnly(s, b, p, c) /\ \E x \in Ops(s) : x.name = Gain("sink", n)
        /\ \A x \in Ops(s) : x.name = Gain("sink", n)
    BY <2>2, ParamAsks
  <2>4. \A m \in {1, 2} : Gain("sink", n) # Gain("source", m)
    BY NameFacts DEF Blocks
  <2>5. GainAfterMode(s)
    BY <2>3, <2>4, NoGains DEF IsGain
  <2>6. Mode(n) \notin Needed(b, c)
    BY <1>3, NameFacts, OwnNames DEF Needed
  <2> QED
    BY <1>3, <2>1, <2>3, <2>5, <2>6
<1>4. CASE n \in Channels /\ b = "source"
  <2> DEFINE m == Param(p, Mode(n), c.mode)
             g == Param(p, Gain("source", n), c.id)
             t == IF board.family = "fmcomms5" \/ c.mode = "manual" THEN g ELSE <<>>
  <2>1. ForChannel(b, p, c, n) = m \o t
    BY <1>4 DEF ForChannel, ModeThenGain
  <2>2. /\ Mode(n) \in NamesOf(b) /\ Asked(b, c, Mode(n)) = c.mode
        /\ Gain("source", n) \in NamesOf(b) /\ Asked(b, c, Gain("source", n)) = c.id
    BY <1>4, NameFacts DEF NamesOf, Asked
  <2>3. /\ AsksOnly(m, b, p, c) /\ AsksOnly(g, b, p, c)
        /\ \E x \in Ops(m) : x.name = Mode(n)
        /\ \A x \in Ops(m) : x.name = Mode(n)
        /\ \E x \in Ops(g) : x.name = Gain("source", n)
        /\ \A x \in Ops(g) : x.name = Gain("source", n)
    BY <2>2, ParamAsks
  <2>4. Len(m) = 1 /\ m[1] \in Ops(m)
    BY DEF Param, Ops
  <2>5. Gain(b, n) \in Needed(b, c) => t = g
    <3>1. \A k \in {1, 2} : Gain(b, n) # Mode(k) /\ Gain(b, n) # Tuning(b)
      BY NameFacts
    <3> QED
      BY <1>4, <3>1, OwnNames DEF Needed
  <2>6. t = g \/ t = <<>>
    OBVIOUS
  <2> HIDE DEF m, g, t
  <2>7. AsksOnly(t, b, p, c) /\ \A x \in Ops(t) : x.name = Gain("source", n)
    BY <1>1, <2>3, <2>6, EmptyList
  <2>8. AsksOnly(m \o t, b, p, c) /\ Ops(m \o t) = Ops(m) \cup Ops(t)
    <3>1. IsList(m) /\ IsList(t)
      BY <2>3, <2>7 DEF AsksOnly
    <3>2. IsList(m \o t) /\ Ops(m \o t) = Ops(m) \cup Ops(t)
      BY <3>1, Concatenation
    <3> QED
      BY <2>3, <2>7, <3>2 DEF AsksOnly
  <2>9. GainAfterMode(m \o t)
    <3>1. IsMode(m[1], n) /\ m[1].phy = p
      BY <2>3, <2>4 DEF IsMode, AsksOnly
    <3>2. \A k \in {1, 2} : Gain("source", k) = Gain("source", n) => k = n
      BY NameFacts DEF Blocks
    <3>3. \A x \in Ops(t) : x.phy = p /\ \A k \in {1, 2} : IsGain(x, k) => k = n
      BY <2>7, <3>2 DEF IsGain, AsksOnly
    <3>4. IsList(m) /\ IsList(t)
      BY <2>3, <2>7 DEF AsksOnly
    <3> QED
      BY <2>4, <3>1, <3>3, <3>4, AfterItsMode
  <2> QED
    BY <2>1, <2>3, <2>5, <2>8, <2>9, <1>4
<1> QED
  BY <1>2, <1>3, <1>4 DEF Blocks

(* The parameters of one transceiver.                                      *)
LEMMA ParamsAsk ==
  ASSUME NEW b \in Blocks, NEW p, NEW c, board \in Boards
  PROVE  /\ AsksOnly(Params(b, p, c), b, p, c) /\ GainAfterMode(Params(b, p, c))
         /\ \A name \in Needed(b, c) : \E x \in Ops(Params(b, p, c)) : x.name = name
         /\ ~UsesAutoFilter(c) => \E x \in Ops(Params(b, p, c)) : x.name = Rate
<1> DEFINE t == Param(p, Tuning(b), c.id)
           r == RateParam(p, c)
           one == ForChannel(b, p, c, 1)
           two == ForChannel(b, p, c, 2)
<1>1. /\ AsksOnly(t, b, p, c) /\ GainAfterMode(t)
      /\ \E x \in Ops(t) : x.name = Tuning(b)
  <2>1. Tuning(b) \in NamesOf(b) /\ Asked(b, c, Tuning(b)) = c.id
    BY NameFacts DEF NamesOf, Asked
  <2>2. \A n \in {1, 2} : Tuning(b) # Gain("source", n)
    BY NameFacts DEF Blocks
  <2>3. /\ AsksOnly(t, b, p, c)
        /\ \E x \in Ops(t) : x.name = Tuning(b) /\ \A y \in Ops(t) : y.name = Tuning(b)
    BY <2>1, ParamAsks
  <2> QED
    BY <2>2, <2>3, NoGains DEF IsGain
<1>2. /\ AsksOnly(r, b, p, c) /\ GainAfterMode(r)
      /\ ~UsesAutoFilter(c) => \E x \in Ops(r) : x.name = Rate
  <2>1. CASE UsesAutoFilter(c)
    <3>1. r = <<>>
      BY <2>1 DEF RateParam
    <3> QED
      BY <2>1, <3>1, EmptyList, NoGains DEF AsksOnly
  <2>2. CASE ~UsesAutoFilter(c)
    <3>1. Rate \in NamesOf(b) /\ Asked(b, c, Rate) = c.rate
      BY DEF NamesOf, Asked
    <3>2. \A n \in {1, 2} : Rate # Gain("source", n)
      BY NameFacts DEF Blocks
    <3>3. /\ AsksOnly(r, b, p, c)
          /\ \E x \in Ops(r) : x.name = Rate /\ \A y \in Ops(r) : y.name = Rate
      BY <2>2, <3>1, ParamAsks DEF RateParam
    <3> QED
      BY <3>2, <3>3, NoGains DEF IsGain
  <2> QED
    BY <2>1, <2>2
<1>3. /\ AsksOnly(one, b, p, c) /\ GainAfterMode(one)
      /\ AsksOnly(two, b, p, c) /\ GainAfterMode(two)
  BY ChannelAsks
<1>4. ASSUME NEW name \in Needed(b, c)
      PROVE  \/ name = Tuning(b)
             \/ \E x \in Ops(one) : x.name = name
             \/ \E x \in Ops(two) : x.name = name
  <2>1. \/ name = Tuning(b)
        \/ \E n \in Channels : name = Gain(b, n) \/ name = Mode(n)
    BY DEF Needed
  <2>2. ASSUME NEW n \in Channels, name = Gain(b, n) \/ name = Mode(n)
        PROVE  \E x \in Ops(ForChannel(b, p, c, n)) : x.name = name
    BY <2>2, ChannelAsks, OwnNames
  <2>3. Channels \subseteq {1, 2}
    BY OwnNames
  <2> QED
    BY <2>1, <2>2, <2>3
<1>5. Params(b, p, c) = ((t \o r) \o one) \o two
  BY DEF Params
<1> HIDE DEF t, r, one, two
<1>6. AsksOnly(t \o r, b, p, c) /\ Ops(t \o r) = Ops(t) \cup Ops(r)
  BY <1>1, <1>2, AsksBoth
<1>7. /\ AsksOnly((t \o r) \o one, b, p, c)
      /\ Ops((t \o r) \o one) = Ops(t) \cup Ops(r) \cup Ops(one)
  <2>1. AsksOnly(t \o r, b, p, c)
    BY <1>6
  <2>2. AsksOnly(one, b, p, c)
    BY <1>3
  <2>3. AsksOnly((t \o r) \o one, b, p, c) /\ Ops((t \o r) \o one) = Ops(t \o r) \cup Ops(one)
    BY <2>1, <2>2, AsksBoth
  <2> QED
    BY <1>6, <2>3
<1>8. /\ AsksOnly(((t \o r) \o one) \o two, b, p, c)
      /\ Ops(((t \o r) \o one) \o two) = Ops(t) \cup Ops(r) \cup Ops(one) \cup Ops(two)
  <2>1. IsList((t \o r) \o one) /\ IsList(two)
    BY <1>3, <1>7 DEF AsksOnly
  <2>2. /\ IsList(((t \o r) \o one) \o two)
        /\ Ops(((t \o r) \o one) \o two) = Ops((t \o r) \o one) \cup Ops(two)
    BY <2>1, Concatenation
  <2> QED
    BY <1>3, <1>7, <2>2 DEF AsksOnly
<1>9. GainAfterMode(((t \o r) \o one) \o two)
  <2>1. GainAfterMode(t \o r)
    BY <1>1, <1>2, GainAfterModeInBoth DEF AsksOnly
  <2>2. GainAfterMode((t \o r) \o one)
    BY <1>3, <1>6, <2>1, GainAfterModeInBoth DEF AsksOnly
  <2> QED
    BY <1>3, <1>7, <2>2, GainAfterModeInBoth DEF AsksOnly
<1> QED
  BY <1>1, <1>2, <1>4, <1>5, <1>8, <1>9

(* A call writes what it was asked for, on every transceiver, each gain    *)
(* after its mode and all of it before what may throw.                     *)
Proper(x, b, c) ==
  /\ x.op = "write" => x.phy \in Phys /\ x.name \in NamesOf(b) /\ x.value = Asked(b, c, x.name)
  /\ x.op = "bb_rate" => x.phy \in Phys /\ x.value = c.rate

Writes(x, p, name) == x.op = "write" /\ x.phy = p /\ x.name = name
SetsRate(x, p) == Writes(x, p, Rate) \/ (x.op = "bb_rate" /\ x.phy = p)

CallAsks(s, b, c) ==
  /\ IsList(s) /\ GainAfterMode(s) /\ WritesFirst(s)
  /\ \A x \in Ops(s) : Proper(x, b, c)
  /\ \A p \in Configured : \A name \in Needed(b, c) : \E x \in Ops(s) : Writes(x, p, name)
  /\ \A p \in Configured : \E x \in Ops(s) : SetsRate(x, p)

LEMMA WritesThenTheRest ==
  ASSUME NEW b \in Blocks, NEW c, NEW w, NEW l, IsList(w), IsList(l), GainAfterMode(w),
         \A x \in Ops(w) : Proper(x, b, c) /\ x.op \notin {"fir", "bb_rate"},
         \A x \in Ops(l) : Proper(x, b, c) /\ x.op # "write",
         \A p \in Configured : \A name \in Needed(b, c) : \E x \in Ops(w) : Writes(x, p, name),
         \A p \in Configured : \E x \in Ops(w) \cup Ops(l) : SetsRate(x, p)
  PROVE  CallAsks(w \o l, b, c)
<1>1. IsList(w \o l) /\ Ops(w \o l) = Ops(w) \cup Ops(l)
  BY Concatenation
<1>2. GainAfterMode(l)
  BY NoGains DEF IsGain
<1>3. GainAfterMode(w \o l)
  BY <1>2, GainAfterModeInBoth
<1>4. WritesFirst(w \o l)
  BY WritesThenLoads
<1> QED
  BY <1>1, <1>3, <1>4 DEF CallAsks

LEMMA FilterIsProper ==
  ASSUME NEW b, NEW p, NEW c
  PROVE  /\ IsList(LoadFilter(p, c))
         /\ \A x \in Ops(LoadFilter(p, c)) : Proper(x, b, c) /\ x.op # "write"
<1>1. CASE c.filter = NoFile
  BY <1>1, EmptyList DEF LoadFilter
<1>2. CASE c.filter # NoFile
  <2>1. /\ IsList(LoadFilter(p, c))
        /\ \A x \in Ops(LoadFilter(p, c)) : x.op = "fir"
    BY <1>2, OneOp DEF LoadFilter, Action
  <2> QED
    BY <2>1 DEF Proper
<1> QED
  BY <1>1, <1>2

LEMMA ParamsAreProper ==
  ASSUME NEW b \in Blocks, NEW p \in Phys, NEW c, board \in Boards
  PROVE  /\ IsList(Params(b, p, c)) /\ GainAfterMode(Params(b, p, c))
         /\ \A x \in Ops(Params(b, p, c)) : Proper(x, b, c) /\ x.op \notin {"fir", "bb_rate"}
         /\ \A name \in Needed(b, c) : \E x \in Ops(Params(b, p, c)) : Writes(x, p, name)
         /\ ~UsesAutoFilter(c) => \E x \in Ops(Params(b, p, c)) : SetsRate(x, p)
<1>1. /\ AsksOnly(Params(b, p, c), b, p, c) /\ GainAfterMode(Params(b, p, c))
      /\ \A name \in Needed(b, c) : \E x \in Ops(Params(b, p, c)) : x.name = name
      /\ ~UsesAutoFilter(c) => \E x \in Ops(Params(b, p, c)) : x.name = Rate
  BY ParamsAsk
<1> QED
  BY <1>1 DEF AsksOnly, Proper, Writes, SetsRate

LEMMA OneTransceiverAsks ==
  ASSUME NEW b \in Blocks, NEW c, NEW s, board \in Boards, board.family = "fmcomms2",
         s = Construct(b, c) \/ s = SetParams(b, c)
  PROVE  CallAsks(s, b, c)
<1> DEFINE w == Params(b, "phy", c)
           bb == Action("bb_rate", "phy", c.rate)
           last == IF UsesAutoFilter(c) THEN bb ELSE LoadFilter("phy", c)
<1>1. /\ IsList(bb) /\ \A x \in Ops(bb) : x.op = "bb_rate" /\ x.phy = "phy" /\ x.value = c.rate
      /\ \E x \in Ops(bb) : x.op = "bb_rate" /\ x.phy = "phy"
  BY OneOp DEF Action
<1>2. s = w \o last
  <2>1. SetParams(b, c) = w \o last
    BY DEF SetParams
  <2>2. Construct(b, c) = SetParams(b, c) \o <<>>
    BY DEF Construct
  <2>3. IsList(w) /\ IsList(last)
    BY <1>1, FilterIsProper, ParamsWrite DEF OnlyWrites
  <2>4. IsList(w \o last)
    BY <2>3, Concatenation
  <2>5. (w \o last) \o <<>> = w \o last
    BY <2>4 DEF IsList
  <2> QED
    BY <2>1, <2>2, <2>5
<1>3. IsList(last) /\ \A x \in Ops(last) : Proper(x, b, c) /\ x.op # "write"
  BY <1>1, FilterIsProper DEF Proper, Phys
<1>4. \E x \in Ops(w) \cup Ops(last) : SetsRate(x, "phy")
  <2>1. CASE UsesAutoFilter(c)
    BY <1>1, <2>1 DEF SetsRate
  <2>2. CASE ~UsesAutoFilter(c)
    BY <2>2, ParamsAreProper DEF Phys
  <2> QED
    BY <2>1, <2>2
<1>5. Configured = {"phy"} /\ "phy" \in Phys
  BY DEF Configured, Phys
<1>6. /\ IsList(w) /\ GainAfterMode(w)
      /\ \A x \in Ops(w) : Proper(x, b, c) /\ x.op \notin {"fir", "bb_rate"}
      /\ \A p \in Configured : \A name \in Needed(b, c) : \E x \in Ops(w) : Writes(x, p, name)
  BY <1>5, ParamsAreProper
<1>7. \A p \in Configured : \E x \in Ops(w) \cup Ops(last) : SetsRate(x, p)
  BY <1>4, <1>5
<1> HIDE DEF w, last
<1>8. CallAsks(w \o last, b, c)
  BY <1>3, <1>6, <1>7, WritesThenTheRest
<1> QED
  BY <1>2, <1>8

LEMMA TwoTransceiversAsk ==
  ASSUME NEW b \in Blocks, NEW c, board \in Boards, board.family = "fmcomms5"
  PROVE  CallAsks(Construct(b, c), b, c) /\ CallAsks(SetParams(b, c), b, c)
<1> DEFINE p1 == Params(b, "phy", c)
           p2 == Params(b, "phy2", c)
           sync == Action("sync", "phy", c.rate)
           f1 == LoadFilter("phy", c)
           f2 == LoadFilter("phy2", c)
<1>1. IsList(sync) /\ \A x \in Ops(sync) : x.op = "sync"
  BY OneOp DEF Action
<1>2. \A x \in Ops(sync) : Proper(x, b, c) /\ x.op \notin {"write", "fir", "bb_rate"}
  BY <1>1 DEF Proper
<1>3. GainAfterMode(sync)
  BY <1>2, NoGains DEF IsGain
<1>4. Configured = Phys /\ Phys = {"phy", "phy2"} /\ ~UsesAutoFilter(c)
  BY DEF Configured, Phys, UsesAutoFilter
<1>5. /\ IsList(p1) /\ GainAfterMode(p1) /\ IsList(p2) /\ GainAfterMode(p2)
      /\ \A x \in Ops(p1) \cup Ops(p2) : Proper(x, b, c) /\ x.op \notin {"fir", "bb_rate"}
      /\ \A p \in Phys : \A name \in Needed(b, c) :
           \E x \in Ops(p1) \cup Ops(p2) : Writes(x, p, name)
      /\ \A p \in Phys : \E x \in Ops(p1) \cup Ops(p2) : SetsRate(x, p)
  BY <1>4, ParamsAreProper
<1>6. /\ IsList(f1) /\ IsList(f2)
      /\ \A x \in Ops(f1) \cup Ops(f2) : Proper(x, b, c) /\ x.op # "write"
  BY FilterIsProper
<1>7. /\ SetParams(b, c) = (p1 \o p2) \o sync
      /\ Construct(b, c) = ((p1 \o p2) \o sync) \o (f1 \o f2)
  BY DEF SetParams, Construct
<1> DEFINE w == p1 \o p2
           ws == w \o sync
           f == f1 \o f2
<1> HIDE DEF p1, p2, sync, f1, f2
<1>8. IsList(w) /\ Ops(w) = Ops(p1) \cup Ops(p2)
  BY <1>5, Concatenation
<1>9. GainAfterMode(w)
  BY <1>5, GainAfterModeInBoth
<1>10. IsList(f) /\ Ops(f) = Ops(f1) \cup Ops(f2)
  BY <1>6, Concatenation
<1> HIDE DEF w, f
<1>11. IsList(ws) /\ Ops(ws) = Ops(w) \cup Ops(sync)
  BY <1>1, <1>8, Concatenation
<1>12. GainAfterMode(ws)
  BY <1>1, <1>3, <1>8, <1>9, GainAfterModeInBoth
<1>13. /\ \A x \in Ops(w) : Proper(x, b, c) /\ x.op \notin {"fir", "bb_rate"}
       /\ \A p \in Configured : \A name \in Needed(b, c) : \E x \in Ops(w) : Writes(x, p, name)
       /\ \A p \in Configured : \E x \in Ops(w) : SetsRate(x, p)
  BY <1>4, <1>5, <1>8
<1>14. CallAsks(w \o sync, b, c)
  <2>1. \A x \in Ops(sync) : Proper(x, b, c) /\ x.op # "write"
    BY <1>2
  <2>2. \A p \in Configured : \E x \in Ops(w) \cup Ops(sync) : SetsRate(x, p)
    BY <1>13
  <2> QED
    BY <1>1, <1>8, <1>9, <1>13, <2>1, <2>2, WritesThenTheRest
<1> HIDE DEF ws
<1>15. CallAsks(ws \o f, b, c)
  <2>1. /\ \A x \in Ops(ws) : Proper(x, b, c) /\ x.op \notin {"fir", "bb_rate"}
        /\ \A p \in Configured : \A name \in Needed(b, c) : \E x \in Ops(ws) : Writes(x, p, name)
        /\ \A p \in Configured : \E x \in Ops(ws) \cup Ops(f) : SetsRate(x, p)
    BY <1>2, <1>11, <1>13
  <2>2. \A x \in Ops(f) : Proper(x, b, c) /\ x.op # "write"
    BY <1>6, <1>10
  <2> QED
    BY <1>10, <1>11, <1>12, <2>1, <2>2, WritesThenTheRest
<1> QED
  BY <1>7, <1>14, <1>15 DEF ws, w, f

-----------------------------------------------------------------------------
AttrTypeOK == DOMAIN attr = Phys /\ \A p \in Phys : DOMAIN attr[p] = Names

(* What is left to do is what was asked for, and what may throw is last.   *)
WritesWhatWasAsked ==
  \A b \in Blocks : WritesFirst(todo[b]) /\ \A x \in Ops(todo[b]) : Proper(x, b, config[b])

(* An attribute that the call needs has its value or is left to do.        *)
WrittenOrToDo(b, p, name) ==
  \/ attr[p][name] = Asked(b, config[b], name)
  \/ \E x \in Ops(todo[b]) : Writes(x, p, name)

NamesInProgress ==
  \A b \in Blocks : outcome[b] \notin {"none", "missing"} /\ ~refused[b] =>
    \A p \in Configured : \A name \in Needed(b, config[b]) : WrittenOrToDo(b, p, name)

(* A gain that is left to do will be taken.                                *)
WillBeManual(i, n) ==
  \/ attr[todo["source"][i].phy][Mode(n)] = "manual"
  \/ \E j \in DOMAIN todo["source"] :
       j < i /\ IsMode(todo["source"][j], n) /\ todo["source"][j].phy = todo["source"][i].phy

GainsInProgress ==
  config["source"].mode = "manual" /\ ~refused["source"] =>
    \A i \in DOMAIN todo["source"], n \in {1, 2} :
      IsGain(todo["source"][i], n) => WillBeManual(i, n)

(* While the block is alone, so has the rate.                              *)
RateOrToDo(b, p) ==
  \/ attr[p][Rate] = config[b].rate
  \/ \E x \in Ops(todo[b]) : SetsRate(x, p)

RateInProgress ==
  \A b \in Blocks :
    alone[b] /\ ~refused[b] /\ (outcome[b] = "thrown" => ~UsesAutoFilter(config[b])) =>
      \A p \in Configured : RateOrToDo(b, p)

AttrInv ==
  AttrTypeOK /\ WritesWhatWasAsked /\ NamesInProgress /\ GainsInProgress /\ RateInProgress

LEMMA TailPlaces ==
  ASSUME NEW s, IsList(s), s # <<>>
  PROVE  /\ DOMAIN s = 1..Len(s) /\ Len(s) \in Nat \ {0} /\ Head(s) = s[1]
         /\ DOMAIN Tail(s) = 1..(Len(s) - 1)
         /\ \A i \in 1..(Len(s) - 1) : Tail(s)[i] = s[i + 1]
  BY DEF IsList

LEMMA SameNames ==
  ASSUME board' = board
  PROVE  /\ \A b, c : Needed(b, c)' = Needed(b, c)
         /\ \A c : UsesAutoFilter(c)' = UsesAutoFilter(c)
         /\ Configured' = Configured
  BY DEF Needed, Channels, UsesAutoFilter, Configured

LEMMA BeginKeepsAttrInv ==
  ASSUME FilterInv, AttrInv, NEW b \in Blocks, NEW c \in Configs, Begin(b, c)
  PROVE  AttrInv'
<1> USE DEF AttrInv
<1>1. CallTypeOK
  BY DEF FilterInv
<1>2. /\ board' = board /\ attr' = attr
      /\ outcome' = [outcome EXCEPT ![b] = "called"]
      /\ todo' = [todo EXCEPT ![b] = IF made[b] THEN SetParams(b, c) ELSE Construct(b, c)]
      /\ config' = [config EXCEPT ![b] =
            IF made[b] /\ board.family = "fmcomms5" THEN [c EXCEPT !.filter = NoFile] ELSE c]
      /\ refused' = [refused EXCEPT ![b] = FALSE]
      /\ alone' = [alone EXCEPT ![b] = outcome[Other(b)] # "called", ![Other(b)] = FALSE]
  BY DEF Begin, device
<1> DEFINE d == Other(b)
<1>3. /\ d \in Blocks /\ d # b /\ \A e \in Blocks : e = b \/ e = d
  BY TwoBlocks
<1> HIDE DEF d
<1>4. /\ todo'[d] = todo[d] /\ config'[d] = config[d] /\ outcome'[d] = outcome[d]
      /\ refused'[d] = refused[d] /\ alone'[d] = FALSE
  BY <1>1, <1>2, <1>3 DEF CallTypeOK, d
<1>5. CallAsks(todo'[b], b, config'[b])
  <2>1. todo'[b] = Construct(b, c) \/ todo'[b] = SetParams(b, c)
    BY <1>1, <1>2 DEF CallTypeOK
  <2>2. CallAsks(todo'[b], b, c)
    BY <1>1, <2>1, OneTransceiverAsks, TwoTransceiversAsk DEF CallTypeOK, Boards
  <2>3. /\ config'[b].id = c.id /\ config'[b].rate = c.rate /\ config'[b].mode = c.mode
    <3>1. config'[b] = c \/ config'[b] = [c EXCEPT !.filter = NoFile]
      BY <1>1, <1>2 DEF CallTypeOK
    <3>2. c \in Config
      OBVIOUS
    <3> QED
      BY <3>1, <3>2 DEF Config
  <2>4. /\ \A name : Asked(b, config'[b], name) = Asked(b, c, name)
        /\ Needed(b, config'[b]) = Needed(b, c)
    BY <2>3 DEF Asked, Needed
  <2> QED
    BY <2>2, <2>3, <2>4 DEF CallAsks, Proper
<1>6. AttrTypeOK'
  BY <1>2 DEF AttrTypeOK
<1>7. WritesWhatWasAsked'
  BY <1>3, <1>4, <1>5 DEF WritesWhatWasAsked, CallAsks, Proper, WritesFirst, Asked
<1>8. NamesInProgress'
  <2> SUFFICES ASSUME NEW e \in Blocks, outcome'[e] \notin {"none", "missing"}, ~refused'[e],
                      NEW p \in Configured,
                      NEW name \in Needed(e, config'[e])
               PROVE  WrittenOrToDo(e, p, name)'
    BY <1>2, SameNames DEF NamesInProgress
  <2>1. CASE e = b
    BY <1>5, <2>1 DEF CallAsks, WrittenOrToDo
  <2>2. CASE e = d
    BY <1>2, <1>4, <2>2 DEF NamesInProgress, WrittenOrToDo
  <2> QED
    BY <1>3, <2>1, <2>2
<1>9. GainsInProgress'
  <2> SUFFICES ASSUME config'["source"].mode = "manual", ~refused'["source"],
                      NEW i \in DOMAIN todo'["source"], NEW n \in {1, 2},
                      IsGain(todo'["source"][i], n)
               PROVE  WillBeManual(i, n)'
    BY DEF GainsInProgress
  <2>1. CASE b = "source"
    BY <1>5, <2>1 DEF CallAsks, GainAfterMode, WillBeManual
  <2>2. CASE d = "source"
    <3>1. /\ todo'["source"] = todo["source"] /\ config'["source"] = config["source"]
          /\ refused'["source"] = refused["source"]
      BY <1>4, <2>2
    <3>2. WillBeManual(i, n)
      BY <3>1 DEF GainsInProgress
    <3> QED
      BY <1>2, <3>1, <3>2 DEF WillBeManual
  <2> QED
    BY <1>3, <2>1, <2>2 DEF Blocks
<1>10. RateInProgress'
  <2> SUFFICES ASSUME NEW e \in Blocks, alone'[e], NEW p \in Configured
               PROVE  RateOrToDo(e, p)'
    BY <1>2, SameNames DEF RateInProgress
  <2>1. e = b
    BY <1>3, <1>4
  <2> QED
    BY <1>5, <2>1 DEF CallAsks, RateOrToDo
<1> QED
  BY <1>6, <1>7, <1>8, <1>9, <1>10

LEMMA EndKeepsAttrInv ==
  ASSUME FilterInv, AttrInv, NEW b \in Blocks, Throw(b) \/ Return(b)
  PROVE  AttrInv'
<1> USE DEF AttrInv
<1>1. CallTypeOK /\ CallsInProgress /\ LoadsWhatWasAsked
  BY DEF FilterInv
<1>2. /\ board' = board /\ attr' = attr /\ config' = config /\ refused' = refused
      /\ alone' = alone
      /\ todo'[b] = <<>> /\ outcome[b] = "called"
      /\ \A d \in Blocks : d # b => todo'[d] = todo[d] /\ outcome'[d] = outcome[d]
      /\ outcome'[b] = "returned" \/ outcome'[b] = "thrown"
      /\ outcome'[b] = "returned" => todo[b] = <<>>
      /\ outcome'[b] = "thrown" =>
           todo[b] # <<>> /\ Head(todo[b]).op \in {"fir", "bb_rate"}
  BY <1>1 DEF Throw, Return, CallTypeOK, CallsInProgress, device, Doing, Step
<1>3. \A x \in Ops(todo[b]) : x.op # "write"
  <2>1. CASE todo[b] = <<>>
    BY <2>1, EmptyList
  <2>2. CASE todo[b] # <<>>
    <3>1. Head(todo[b]).op \in {"fir", "bb_rate"}
      BY <1>2, <2>2
    <3>2. /\ DOMAIN todo[b] = 1..Len(todo[b]) /\ Len(todo[b]) \in Nat \ {0}
          /\ Head(todo[b]) = todo[b][1]
      BY <1>1, <2>2, TailPlaces DEF LoadsWhatWasAsked
    <3>3. WritesFirst(todo[b])
      BY DEF WritesWhatWasAsked
    <3>4. ASSUME NEW i \in DOMAIN todo[b] PROVE todo[b][i].op # "write"
      <4>1. 1 \in DOMAIN todo[b] /\ (i = 1 \/ 1 < i)
        BY <3>2
      <4>2. i = 1 => todo[b][i].op \in {"fir", "bb_rate"}
        BY <3>1, <3>2
      <4>3. 1 < i => todo[b][i].op # "write"
        BY <3>1, <3>2, <3>3, <4>1 DEF WritesFirst
      <4> QED
        BY <4>1, <4>2, <4>3
    <3> QED
      BY <3>4 DEF Ops
  <2> QED
    BY <2>1, <2>2
<1>4. outcome'[b] = "thrown" /\ ~UsesAutoFilter(config[b]) =>
        \A x \in Ops(todo[b]) : x.op # "bb_rate"
  BY <1>1 DEF LoadsWhatWasAsked, LoadsOnly
<1>5. outcome'[b] = "returned" => Ops(todo[b]) = {}
  BY <1>2, EmptyList
<1>6. AttrTypeOK'
  BY <1>2 DEF AttrTypeOK
<1>7. WritesWhatWasAsked'
  BY <1>2, EmptyList DEF WritesWhatWasAsked, Proper, WritesFirst, Asked
<1>8. NamesInProgress'
  <2> SUFFICES ASSUME NEW e \in Blocks, outcome'[e] \notin {"none", "missing"}, ~refused[e],
                      NEW p \in Configured,
                      NEW name \in Needed(e, config[e])
               PROVE  WrittenOrToDo(e, p, name)'
    BY <1>2, SameNames DEF NamesInProgress
  <2>1. WrittenOrToDo(e, p, name)
    BY <1>2 DEF NamesInProgress
  <2>2. CASE e = b
    BY <1>2, <1>3, <2>1, <2>2 DEF WrittenOrToDo, Writes
  <2>3. CASE e # b
    BY <1>2, <2>1, <2>3 DEF WrittenOrToDo
  <2> QED
    BY <2>2, <2>3
<1>9. GainsInProgress'
  <2>1. CASE b = "source"
    BY <1>2, <2>1 DEF GainsInProgress
  <2>2. CASE b # "source"
    <3>1. todo'["source"] = todo["source"]
      BY <1>2, <2>2 DEF Blocks
    <3> QED
      BY <1>2, <3>1 DEF GainsInProgress, WillBeManual
  <2> QED
    BY <2>1, <2>2
<1>10. RateInProgress'
  <2> SUFFICES ASSUME NEW e \in Blocks, alone[e], ~refused[e], NEW p \in Configured,
                      outcome'[e] = "thrown" => ~UsesAutoFilter(config[e])
               PROVE  RateOrToDo(e, p)'
    BY <1>2, SameNames DEF RateInProgress
  <2>1. outcome[e] = "thrown" => ~UsesAutoFilter(config[e])
    BY <1>2
  <2>2. RateOrToDo(e, p)
    BY <2>1 DEF RateInProgress
  <2>3. CASE e = b
    <3>1. \A x \in Ops(todo[b]) : ~SetsRate(x, p)
      BY <1>2, <1>3, <1>4, <1>5, <2>3 DEF SetsRate, Writes
    <3> QED
      BY <1>2, <2>2, <2>3, <3>1 DEF RateOrToDo
  <2>4. CASE e # b
    BY <1>2, <2>2, <2>4 DEF RateOrToDo
  <2> QED
    BY <2>3, <2>4
<1> QED
  BY <1>6, <1>7, <1>8, <1>9, <1>10

(* What an operation does to the attributes: it writes nothing but what    *)
(* the block was asked for, and, unless it is refused or the driver does   *)
(* not take it, what it was to write.                                      *)
Operation(b) == Write(b) \/ WriteRefused(b) \/ SetBbRate(b) \/ LoadFirFilter(b) \/ Sync(b)

LEMMA OperationWrites ==
  ASSUME FilterInv, AttrInv, NEW b \in Blocks, Operation(b)
  PROVE  /\ AttrTypeOK'
         /\ \A p \in Phys : \A name \in Names :
              \/ attr'[p][name] = attr[p][name]
              \/ name \in NamesOf(b) /\ attr'[p][name] = Asked(b, config[b], name)
         /\ ~refused'[b] => ~refused[b] /\ \A p \in Phys :
              /\ \A name \in Names : Writes(Head(todo[b]), p, name) /\ Takes(p, name) =>
                   attr'[p][name] = Asked(b, config[b], name)
              /\ Head(todo[b]).op = "bb_rate" /\ Head(todo[b]).phy = p =>
                   attr'[p][Rate] = config[b].rate
<1> DEFINE first == Head(todo[b])
<1>1. todo[b] # <<>>
  BY DEF Operation, Write, WriteRefused, SetBbRate, LoadFirFilter, Sync, Doing
<1>2. Proper(first, b, config[b])
  <2>1. IsList(todo[b])
    BY DEF FilterInv, LoadsWhatWasAsked
  <2> QED
    BY <1>1, <2>1, HeadAndTail DEF AttrInv, WritesWhatWasAsked
<1>3. /\ DOMAIN attr = Phys /\ \A p \in Phys : DOMAIN attr[p] = Names
      /\ DOMAIN refused = Blocks
  BY DEF FilterInv, CallTypeOK, AttrInv, AttrTypeOK
<1>4. Rate \in NamesOf(b) /\ NamesOf(b) \subseteq Names /\ Asked(b, config[b], Rate) = config[b].rate
  BY NamesAreNames DEF NamesOf, Asked
<1>5. CASE Write(b) /\ Takes(first.phy, first.name)
  <2>1. /\ first.op = "write" /\ refused' = refused
        /\ attr' = [attr EXCEPT ![first.phy][first.name] = first.value]
    BY <1>5 DEF Write, Doing, Step, Set
  <2>2. /\ first.phy \in Phys /\ first.name \in NamesOf(b) /\ first.name \in Names
        /\ first.value = Asked(b, config[b], first.name)
    BY <1>2, <1>4, <2>1 DEF Proper
  <2> HIDE DEF first
  <2>3. /\ DOMAIN attr' = Phys /\ \A p \in Phys : DOMAIN attr'[p] = Names
        /\ attr'[first.phy][first.name] = first.value
        /\ \A p \in Phys : \A name \in Names :
             p # first.phy \/ name # first.name => attr'[p][name] = attr[p][name]
    BY <1>3, <2>1, <2>2
  <2> QED
    BY <1>3, <2>1, <2>2, <2>3 DEF AttrTypeOK, Writes, first
<1>6. CASE Write(b) /\ ~Takes(first.phy, first.name)
  <2>1. attr' = attr /\ refused' = refused /\ first.op = "write"
    BY <1>6 DEF Write, Doing, Step
  <2> QED
    BY <1>3, <1>6, <2>1 DEF AttrTypeOK, Writes
<1>7. CASE WriteRefused(b)
  <2>1. attr' = attr /\ refused'[b] = TRUE
    BY <1>3, <1>7 DEF WriteRefused, device
  <2> QED
    BY <1>3, <2>1 DEF AttrTypeOK
<1>8. CASE SetBbRate(b)
  <2>1. /\ first.op = "bb_rate" /\ refused' = refused
        /\ attr' = [attr EXCEPT ![first.phy][Rate] = first.value]
    BY <1>8 DEF SetBbRate, Doing, Step, Set
  <2>2. first.phy \in Phys /\ first.value = config[b].rate /\ Rate \in Names
    BY <1>2, <1>4, <2>1 DEF Proper
  <2> HIDE DEF first
  <2>3. /\ DOMAIN attr' = Phys /\ \A p \in Phys : DOMAIN attr'[p] = Names
        /\ attr'[first.phy][Rate] = first.value
        /\ \A p \in Phys : \A name \in Names :
             p # first.phy \/ name # Rate => attr'[p][name] = attr[p][name]
    BY <1>3, <2>1, <2>2
  <2> QED
    BY <1>3, <1>4, <2>1, <2>2, <2>3 DEF AttrTypeOK, Writes, first
<1>9. CASE LoadFirFilter(b) \/ Sync(b)
  <2>1. attr' = attr /\ refused' = refused /\ first.op \in {"fir", "sync"}
    BY <1>9 DEF LoadFirFilter, Sync, Doing, Step
  <2> QED
    BY <1>3, <2>1 DEF AttrTypeOK, Writes
<1> QED
  BY <1>5, <1>6, <1>7, <1>8, <1>9 DEF Operation

LEMMA OperationKeepsAttrInv ==
  ASSUME FilterInv, AttrInv, NEW b \in Blocks, Operation(b)
  PROVE  AttrInv'
<1> DEFINE first == Head(todo[b])
<1>1. CallTypeOK /\ CallsInProgress /\ LoadsWhatWasAsked
  BY DEF FilterInv
<1>2. /\ todo[b] # <<>> /\ todo' = [todo EXCEPT ![b] = Tail(@)]
      /\ UNCHANGED <<board, config, outcome, alone>>
      /\ \A d \in Blocks : d # b => refused'[d] = refused[d]
  BY <1>1 DEF Operation, Write, WriteRefused, SetBbRate, LoadFirFilter, Sync, Doing, Done, CallTypeOK
<1>3. /\ todo'[b] = Tail(todo[b]) /\ outcome[b] = "called"
      /\ \A d \in Blocks : d # b => todo'[d] = todo[d]
  BY <1>1, <1>2 DEF CallTypeOK, CallsInProgress
<1>4. /\ IsList(todo[b]) /\ Ops(todo'[b]) \subseteq Ops(todo[b]) /\ first \in Ops(todo[b])
      /\ \A x \in Ops(todo[b]) : x = first \/ x \in Ops(todo'[b])
  BY <1>1, <1>2, <1>3, HeadAndTail DEF LoadsWhatWasAsked
<1>5. /\ DOMAIN todo[b] = 1..Len(todo[b]) /\ Len(todo[b]) \in Nat \ {0} /\ first = todo[b][1]
      /\ DOMAIN todo'[b] = 1..(Len(todo[b]) - 1)
      /\ \A i \in 1..(Len(todo[b]) - 1) : todo'[b][i] = todo[b][i + 1]
  <2> DEFINE rest == Tail(todo[b])
  <2>1. /\ DOMAIN todo[b] = 1..Len(todo[b]) /\ Len(todo[b]) \in Nat \ {0} /\ first = todo[b][1]
        /\ DOMAIN rest = 1..(Len(todo[b]) - 1)
        /\ \A i \in 1..(Len(todo[b]) - 1) : rest[i] = todo[b][i + 1]
    BY <1>2, <1>4, TailPlaces
  <2>2. todo'[b] = rest
    BY <1>3
  <2> HIDE DEF rest, first
  <2> QED
    BY <2>1, <2>2
<1>6. /\ AttrTypeOK'
      /\ \A p \in Phys : \A name \in Names :
           \/ attr'[p][name] = attr[p][name]
           \/ name \in NamesOf(b) /\ attr'[p][name] = Asked(b, config[b], name)
      /\ ~refused'[b] => ~refused[b] /\ \A p \in Phys :
           /\ \A name \in Names : Writes(first, p, name) /\ Takes(p, name) =>
                attr'[p][name] = Asked(b, config[b], name)
           /\ first.op = "bb_rate" /\ first.phy = p => attr'[p][Rate] = config[b].rate
  BY OperationWrites
<1>7. board \in Boards /\ Configured \subseteq Phys
  BY <1>1 DEF CallTypeOK, Configured, Phys
<1>8. /\ \A n \in {1, 2} : Mode(n) \in Names /\ Mode(n) # Rate
      /\ Rate \in Names /\ Rate \in NamesOf(b) /\ Asked(b, config[b], Rate) = config[b].rate
      /\ \A n \in {1, 2} : Mode(n) \in NamesOf(b) => b = "source"
      /\ \A c : \A n \in {1, 2} : Asked(b, c, Mode(n)) = c.mode
  <2>1. /\ Rate \in NamesOf(b) /\ NamesOf(b) \subseteq Names /\ NamesOf("source") \subseteq Names
    BY NamesAreNames DEF NamesOf, Blocks
  <2>2. \A n \in {1, 2} : Mode(n) \in NamesOf("source") /\ Mode(n)[1] = "mode"
    BY NameFacts DEF NamesOf, Blocks
  <2>3. \A n \in {1, 2} : Mode(n) \in NamesOf(b) => b = "source"
    <3>1. \A n, m \in {1, 2} : Mode(n) # Rate /\ Mode(n) # Tuning(b) /\ Mode(n) # Gain(b, m)
      BY NameFacts
    <3> QED
      BY <3>1 DEF NamesOf
  <2> QED
    BY <2>1, <2>2, <2>3, NameFacts DEF Asked
<1> HIDE DEF first
<1>9. WritesWhatWasAsked'
  <2> SUFFICES ASSUME NEW d \in Blocks
               PROVE  WritesFirst(todo'[d]) /\ \A x \in Ops(todo'[d]) : Proper(x, d, config[d])
    BY <1>2 DEF WritesWhatWasAsked, WritesFirst, Proper, Asked
  <2>1. WritesFirst(todo[d]) /\ \A x \in Ops(todo[d]) : Proper(x, d, config[d])
    BY DEF AttrInv, WritesWhatWasAsked
  <2>2. CASE d = b
    <3>1. WritesFirst(todo'[b])
      <4> SUFFICES ASSUME NEW i \in DOMAIN todo'[b], NEW j \in DOMAIN todo'[b],
                          todo'[b][i].op \in {"fir", "bb_rate"}, i < j
                   PROVE  todo'[b][j].op # "write"
        BY DEF WritesFirst
      <4>1. /\ i + 1 \in DOMAIN todo[b] /\ j + 1 \in DOMAIN todo[b] /\ i + 1 < j + 1
            /\ todo'[b][i] = todo[b][i + 1] /\ todo'[b][j] = todo[b][j + 1]
        <5>1. Len(todo[b]) \in Nat /\ i \in 1..(Len(todo[b]) - 1) /\ j \in 1..(Len(todo[b]) - 1)
          BY <1>5
        <5>2. i + 1 \in 1..Len(todo[b]) /\ j + 1 \in 1..Len(todo[b]) /\ i + 1 < j + 1
          BY <5>1
        <5> QED
          BY <1>5, <5>1, <5>2
      <4> QED
        BY <2>1, <2>2, <4>1 DEF WritesFirst
    <3> QED
      BY <1>4, <2>1, <2>2, <3>1
  <2>3. CASE d # b
    BY <1>3, <2>1, <2>3
  <2> QED
    BY <2>2, <2>3
<1>10. NamesInProgress'
  <2> SUFFICES ASSUME NEW d \in Blocks, outcome[d] \notin {"none", "missing"}, ~refused'[d],
                      NEW p \in Configured,
                      NEW name \in Needed(d, config[d])
               PROVE  WrittenOrToDo(d, p, name)'
    BY <1>2, SameNames DEF NamesInProgress
  <2>1. ~refused[d] /\ p \in Phys
    BY <1>2, <1>6, <1>7
  <2>2. WrittenOrToDo(d, p, name)
    BY <2>1 DEF AttrInv, NamesInProgress
  <2>3. name \in NamesOf(d) /\ name \in Names /\ name # Rate
    BY <1>7, OwnNames, NamesAreNames
  <2>4. Asked(d, config[d], name)' = Asked(d, config[d], name)
    BY <1>2 DEF Asked
  <2>5. CASE d # b
    <3>1. name \notin NamesOf(b)
      BY <1>7, <2>5, OwnNames, TwoBlocks
    <3>2. attr'[p][name] = attr[p][name] /\ todo'[d] = todo[d]
      BY <1>3, <1>6, <2>1, <2>3, <2>5, <3>1
    <3> QED
      BY <2>2, <2>4, <3>2 DEF WrittenOrToDo
  <2>6. CASE d = b
    <3>1. CASE attr[p][name] = Asked(b, config[b], name)
      BY <1>6, <2>1, <2>3, <2>4, <2>6, <3>1 DEF WrittenOrToDo
    <3>2. CASE \E x \in Ops(todo'[b]) : Writes(x, p, name)
      BY <2>6, <3>2 DEF WrittenOrToDo
    <3>3. CASE Writes(first, p, name)
      <4>1. Takes(p, name)
        <5> SUFFICES ASSUME name[1] = "gain", name[2] = "source"
                     PROVE  attr[p][Mode(name[3])] = "manual"
          BY DEF Takes
        <5>1. PICK n \in {1, 2} : b = "source" /\ name = Gain("source", n) /\ config[b].mode = "manual"
          <6>1. b = "source"
            <7>1. name \in NamesOf(b) /\ \A m \in {1, 2} : Gain(b, m)[2] = b
              BY <2>3, <2>6, NameFacts
            <7>2. \A m \in {1, 2} : Rate[1] # "gain" /\ Tuning(b)[1] # "gain" /\ Mode(m)[1] # "gain"
              BY NameFacts
            <7> QED
              BY <7>1, <7>2 DEF NamesOf
          <6>2. \A m \in {1, 2} : Tuning(b)[1] # "gain" /\ Mode(m)[1] # "gain"
            BY NameFacts
          <6>3. Channels \subseteq {1, 2}
            BY <1>7, OwnNames
          <6> QED
            BY <2>6, <6>1, <6>2, <6>3 DEF Needed
        <5>2. Mode(name[3]) = Mode(n)
          BY <5>1, NameFacts DEF Blocks
        <5>3. /\ 1 \in DOMAIN todo["source"] /\ todo["source"][1] = first
              /\ \A j \in DOMAIN todo["source"] : ~(j < 1)
          BY <1>5, <5>1
        <5>4. IsGain(first, n) /\ first.phy = p
          BY <3>3, <5>1 DEF IsGain, Writes
        <5>5. WillBeManual(1, n)
          BY <2>1, <2>6, <5>1, <5>3, <5>4 DEF AttrInv, GainsInProgress
        <5> QED
          BY <5>2, <5>3, <5>4, <5>5 DEF WillBeManual
      <4> QED
        BY <1>6, <2>1, <2>3, <2>4, <2>6, <3>3, <4>1 DEF WrittenOrToDo
    <3> QED
      BY <1>4, <2>2, <2>6, <3>1, <3>2, <3>3 DEF WrittenOrToDo
  <2> QED
    BY <2>5, <2>6
<1>11. GainsInProgress'
  <2> SUFFICES ASSUME config["source"].mode = "manual", ~refused'["source"],
                      NEW i \in DOMAIN todo'["source"], NEW n \in {1, 2},
                      IsGain(todo'["source"][i], n)
               PROVE  WillBeManual(i, n)'
    BY <1>2 DEF GainsInProgress
  <2>1. ~refused["source"]
    BY <1>2, <1>6 DEF Blocks
  <2>2. Asked("source", config["source"], Mode(n)) = "manual"
    BY NameFacts DEF Asked, Blocks
  <2>3. ASSUME NEW p \in Phys, attr[p][Mode(n)] = "manual"
        PROVE  attr'[p][Mode(n)] = "manual"
    BY <1>6, <1>8, <2>2, <2>3
  <2>4. \A x \in Ops(todo["source"]) : x.op = "write" => x.phy \in Phys
    BY DEF AttrInv, WritesWhatWasAsked, Proper, Blocks
  <2>5. CASE b # "source"
    <3>1. todo'["source"] = todo["source"]
      BY <1>3, <2>5 DEF Blocks
    <3>2. WillBeManual(i, n)
      BY <2>1, <3>1 DEF AttrInv, GainsInProgress
    <3>3. todo["source"][i].phy \in Phys
      BY <2>4, <3>1 DEF Ops, IsGain
    <3> QED
      BY <2>3, <3>1, <3>2, <3>3 DEF WillBeManual
  <2>6. CASE b = "source"
    <3>1. /\ i + 1 \in DOMAIN todo["source"] /\ todo'["source"][i] = todo["source"][i + 1]
          /\ i \in Nat \ {0}
      BY <1>5, <2>6
    <3>2. WillBeManual(i + 1, n)
      BY <2>1, <3>1 DEF AttrInv, GainsInProgress
    <3>3. todo["source"][i + 1].phy \in Phys
      BY <2>4, <3>1 DEF Ops, IsGain
    <3>4. CASE attr[todo["source"][i + 1].phy][Mode(n)] = "manual"
      BY <2>3, <3>1, <3>3, <3>4 DEF WillBeManual
    <3>5. ASSUME NEW j \in DOMAIN todo["source"], j < i + 1, IsMode(todo["source"][j], n),
                 todo["source"][j].phy = todo["source"][i + 1].phy
          PROVE  WillBeManual(i, n)'
      <4>1. CASE j = 1
        <5> DEFINE p == todo["source"][i + 1].phy
        <5>1. Writes(first, p, Mode(n))
          BY <1>5, <2>6, <3>5, <4>1 DEF Writes, IsMode
        <5>2. Takes(p, Mode(n))
          BY NameFacts DEF Takes, Blocks
        <5>3. attr'[p][Mode(n)] = "manual"
          BY <1>6, <1>8, <2>2, <2>6, <3>3, <5>1, <5>2
        <5> QED
          BY <3>1, <5>3 DEF WillBeManual
      <4>2. CASE j # 1
        <5>1. /\ j - 1 \in DOMAIN todo'["source"] /\ j - 1 < i
              /\ todo'["source"][j - 1] = todo["source"][j]
          <6>1. j - 1 \in 1..(Len(todo["source"]) - 1) /\ (j - 1) + 1 = j /\ j - 1 < i
            BY <1>5, <2>6, <3>1, <3>5, <4>2
          <6> QED
            BY <1>5, <2>6, <6>1
        <5> QED
          BY <3>1, <3>5, <5>1 DEF WillBeManual
      <4> QED
        BY <4>1, <4>2
    <3> QED
      BY <3>2, <3>4, <3>5 DEF WillBeManual
  <2> QED
    BY <2>5, <2>6
<1>12. RateInProgress'
  <2> SUFFICES ASSUME NEW d \in Blocks, alone[d], ~refused'[d], NEW p \in Configured,
                      outcome[d] = "thrown" => ~UsesAutoFilter(config[d])
               PROVE  RateOrToDo(d, p)'
    BY <1>2, SameNames DEF RateInProgress
  <2>1. d = b
    BY <1>1, <1>3, TwoBlocks DEF CallsInProgress
  <2>2. ~refused[b] /\ p \in Phys
    BY <1>6, <1>7, <2>1
  <2>3. RateOrToDo(b, p)
    BY <2>1, <2>2 DEF AttrInv, RateInProgress
  <2>4. attr[p][Rate] = config[b].rate => attr'[p][Rate] = config[b].rate
    BY <1>6, <1>8, <2>2
  <2>5. SetsRate(first, p) => attr'[p][Rate] = config[b].rate
    <3>1. Takes(p, Rate)
      BY NameFacts DEF Takes, Blocks
    <3> QED
      BY <1>6, <1>8, <2>1, <2>2, <3>1 DEF SetsRate
  <2> QED
    BY <1>2, <1>4, <2>1, <2>3, <2>4, <2>5 DEF RateOrToDo
<1> QED
  BY <1>6, <1>9, <1>10, <1>11, <1>12 DEF AttrInv

LEMMA MissingKeepsAttrInv ==
  ASSUME FilterInv, AttrInv, NEW b \in Blocks, PhyMissing(b)
  PROVE  AttrInv'
<1> USE DEF AttrInv
<1>1. /\ UNCHANGED <<board, attr, todo, config, refused, alone>>
      /\ outcome' = [outcome EXCEPT ![b] = "missing"]
      /\ outcome[b] \in {"none", "missing"}
  BY DEF PhyMissing, device
<1>2. /\ outcome'[b] = "missing"
      /\ \A d \in Blocks : d # b => outcome'[d] = outcome[d]
  BY <1>1 DEF FilterInv, CallTypeOK
<1>3. AttrTypeOK' /\ WritesWhatWasAsked'
  BY <1>1 DEF AttrTypeOK, WritesWhatWasAsked, WritesFirst, Proper, Asked
<1>4. NamesInProgress' /\ RateInProgress'
  <2>1. ASSUME NEW d \in Blocks, NEW p, NEW name, WrittenOrToDo(d, p, name)
        PROVE  WrittenOrToDo(d, p, name)'
    BY <1>1, <2>1 DEF WrittenOrToDo, Asked
  <2>2. ASSUME NEW d \in Blocks
        PROVE  /\ Needed(d, config[d])' = Needed(d, config[d])
               /\ UsesAutoFilter(config[d])' = UsesAutoFilter(config[d])
    BY <1>1 DEF Needed, Channels, UsesAutoFilter
  <2>3. Configured' = Configured
    BY <1>1, SameNames
  <2>4. NamesInProgress'
    BY <1>1, <1>2, <2>1, <2>2, <2>3 DEF NamesInProgress
  <2>5. ASSUME NEW d \in Blocks, NEW p, RateOrToDo(d, p)
        PROVE  RateOrToDo(d, p)'
    BY <1>1, <2>5 DEF RateOrToDo
  <2>6. RateInProgress'
    <3> SUFFICES ASSUME NEW d \in Blocks, alone[d], ~refused[d], NEW p \in Configured,
                        outcome'[d] = "thrown" => ~UsesAutoFilter(config[d])
                 PROVE  RateOrToDo(d, p)'
      BY <1>1, <2>2, <2>3 DEF RateInProgress
    <3>1. outcome[d] = "thrown" => ~UsesAutoFilter(config[d])
      BY <1>1, <1>2
    <3> QED
      BY <2>5, <3>1 DEF RateInProgress
  <2> QED
    BY <2>4, <2>6
<1>5. GainsInProgress'
  BY <1>1 DEF GainsInProgress, WillBeManual
<1> QED
  BY <1>3, <1>4, <1>5

LEMMA AttrInvariance == Spec => []AttrInv
<1>1. Init => AttrInv
  <2> SUFFICES ASSUME Init PROVE AttrInv
    OBVIOUS
  <2>1. \A b \in Blocks : todo[b] = <<>> /\ outcome[b] = "none" /\ alone[b] = FALSE
    BY DEF Init
  <2>2. DOMAIN todo["source"] = {}
    BY <2>1 DEF Blocks
  <2>3. AttrTypeOK
    BY DEF Init, AttrTypeOK
  <2>4. WritesWhatWasAsked
    BY <2>1, EmptyList DEF WritesWhatWasAsked, WritesFirst
  <2>5. NamesInProgress /\ GainsInProgress /\ RateInProgress
    BY <2>1, <2>2 DEF NamesInProgress, GainsInProgress, RateInProgress
  <2> QED
    BY <2>3, <2>4, <2>5 DEF AttrInv
<1>2. FilterInv /\ AttrInv /\ [Next]_vars => AttrInv'
  <2> SUFFICES ASSUME FilterInv, AttrInv, [Next]_vars PROVE AttrInv'
    OBVIOUS
  <2>1. CASE UNCHANGED vars
    BY <2>1 DEF vars, call, device, AttrInv, AttrTypeOK, WritesWhatWasAsked, WritesFirst, Proper,
                Asked, NamesInProgress, WrittenOrToDo, Needed, Channels, Configured,
                GainsInProgress, WillBeManual, RateInProgress, RateOrToDo, UsesAutoFilter
  <2> QED
    BY <2>1, BeginKeepsAttrInv, MissingKeepsAttrInv,
       OperationKeepsAttrInv, EndKeepsAttrInv DEF Next, Operation
<1> QED
  BY <1>1, <1>2, FilterInvariance, PTL DEF Spec

(* set_params(), whichever block calls it and whatever the other does at   *)
(* the same time: each transceiver gets the tuning, the modes and the      *)
(* gains asked for, for every set of arguments and of failures.            *)
THEOREM ConfigIsReached == Spec => []ReachesConfig
<1>1. FilterInv /\ AttrInv => ReachesConfig
  <2> SUFFICES ASSUME FilterInv, AttrInv, NEW b \in Blocks, Ended(b), ~refused[b],
                      NEW p \in Configured
               PROVE  /\ attr[p][Tuning(b)] = config[b].id
                      /\ \A n \in Channels : GainAsAsked(b, p, n)
                      /\ alone[b] /\ (UsesAutoFilter(config[b]) => outcome[b] = "returned") =>
                           attr[p][Rate] = config[b].rate
    BY DEF ReachesConfig
  <2>1. board \in Boards /\ Ops(todo[b]) = {}
    BY EmptyList DEF FilterInv, CallTypeOK, CallsInProgress, Ended
  <2>2. \A name \in Needed(b, config[b]) : attr[p][name] = Asked(b, config[b], name)
    BY <2>1 DEF AttrInv, NamesInProgress, WrittenOrToDo, Ended
  <2>3. attr[p][Tuning(b)] = config[b].id
    <3>1. Tuning(b) \in Needed(b, config[b]) /\ Asked(b, config[b], Tuning(b)) = config[b].id
      BY NameFacts DEF Needed, Asked
    <3> QED
      BY <2>2, <3>1
  <2>4. ASSUME NEW n \in Channels PROVE GainAsAsked(b, p, n)
    <3>1. n \in {1, 2}
      BY <2>1, OwnNames
    <3>2. /\ Asked(b, config[b], Mode(n)) = config[b].mode
          /\ Asked(b, config[b], Gain(b, n)) = (IF b = "sink" THEN -config[b].id ELSE config[b].id)
      BY <3>1, NameFacts DEF Asked
    <3>3. CASE b = "sink"
      <4>1. Gain(b, n) \in Needed(b, config[b])
        BY <3>3 DEF Needed
      <4> QED
        BY <2>2, <3>2, <3>3, <4>1 DEF GainAsAsked
    <3>4. CASE b = "source"
      <4>1. /\ Mode(n) \in Needed(b, config[b])
            /\ config[b].mode = "manual" => Gain(b, n) \in Needed(b, config[b])
        BY <3>4 DEF Needed
      <4> QED
        BY <2>2, <3>2, <3>4, <4>1 DEF GainAsAsked
    <3> QED
      BY <3>3, <3>4 DEF Blocks
  <2>5. alone[b] /\ (UsesAutoFilter(config[b]) => outcome[b] = "returned") =>
          attr[p][Rate] = config[b].rate
    BY <2>1 DEF AttrInv, RateInProgress, RateOrToDo
  <2> QED
    BY <2>3, <2>4, <2>5
<1> QED
  BY <1>1, FilterInvariance, AttrInvariance, PTL

-----------------------------------------------------------------------------
(* The synchronisation of the two transceivers of an FMComms5.             *)

(* It comes after the writes and before the filters, with the rate that    *)
(* was asked for.                                                          *)
WritesBeforeSync(s) ==
  \A i, j \in DOMAIN s : s[i].op = "sync" /\ i < j => s[j].op # "write"

LoadsAfterSync(s) ==
  \A i, j \in DOMAIN s : s[i].op = "fir" /\ i < j => s[j].op # "sync"

HasSync(s) == \E x \in Ops(s) : x.op = "sync"

CallSyncs(s, c) ==
  /\ HasSync(s) /\ WritesBeforeSync(s) /\ LoadsAfterSync(s)
  /\ \A x \in Ops(s) : x.op = "sync" => x.value = c.rate
  /\ \A p \in Phys : \E x \in Ops(s) : Writes(x, p, Rate)

LEMMA NoWritesAfter ==
  ASSUME NEW s, NEW t, IsList(s), IsList(t), WritesBeforeSync(s), \A x \in Ops(t) : x.op # "write"
  PROVE  WritesBeforeSync(s \o t)
<1> SUFFICES ASSUME NEW i \in DOMAIN (s \o t), NEW j \in DOMAIN (s \o t),
                    (s \o t)[i].op = "sync", i < j
             PROVE  (s \o t)[j].op # "write"
  BY DEF WritesBeforeSync
<1>1. CASE j \in DOMAIN s
  <2>1. i \in DOMAIN s /\ (s \o t)[i] = s[i] /\ (s \o t)[j] = s[j]
    BY <1>1, Places
  <2> QED
    BY <1>1, <2>1 DEF WritesBeforeSync
<1>2. CASE j \notin DOMAIN s
  <2>1. j - Len(s) \in DOMAIN t /\ (s \o t)[j] = t[j - Len(s)]
    BY <1>2, Places
  <2> QED
    BY <2>1 DEF Ops
<1> QED
  BY <1>1, <1>2

LEMMA NoSyncsAfter ==
  ASSUME NEW s, NEW t, IsList(s), IsList(t), \A x \in Ops(s) : x.op # "fir",
         \A x \in Ops(t) : x.op # "sync"
  PROVE  LoadsAfterSync(s \o t)
<1> SUFFICES ASSUME NEW i \in DOMAIN (s \o t), NEW j \in DOMAIN (s \o t),
                    (s \o t)[i].op = "fir", i < j
             PROVE  (s \o t)[j].op # "sync"
  BY DEF LoadsAfterSync
<1>1. i \notin DOMAIN s
  BY Places DEF Ops
<1>2. j - Len(s) \in DOMAIN t /\ (s \o t)[j] = t[j - Len(s)]
  BY <1>1, Places
<1> QED
  BY <1>2 DEF Ops

LEMMA TwoTransceiversSync ==
  ASSUME NEW b \in Blocks, NEW c, board \in Boards, board.family = "fmcomms5"
  PROVE  CallSyncs(Construct(b, c), c) /\ CallSyncs(SetParams(b, c), c)
<1> DEFINE p1 == Params(b, "phy", c)
           p2 == Params(b, "phy2", c)
           sync == Action("sync", "phy", c.rate)
           f1 == LoadFilter("phy", c)
           f2 == LoadFilter("phy2", c)
<1>1. /\ IsList(sync) /\ \A x \in Ops(sync) : x.op = "sync" /\ x.value = c.rate
      /\ \E x \in Ops(sync) : x.op = "sync"
  BY OneOp DEF Action
<1>2. /\ IsList(p1) /\ \A x \in Ops(p1) : x.op = "write"
      /\ IsList(p2) /\ \A x \in Ops(p2) : x.op = "write"
  BY ParamsWrite DEF OnlyWrites
<1>3. /\ IsList(f1) /\ \A x \in Ops(f1) : x.op = "fir"
      /\ IsList(f2) /\ \A x \in Ops(f2) : x.op = "fir"
  <2>1. ASSUME NEW p
        PROVE  IsList(LoadFilter(p, c)) /\ \A x \in Ops(LoadFilter(p, c)) : x.op = "fir"
    <3>1. CASE c.filter = NoFile
      BY <3>1, EmptyList DEF LoadFilter
    <3>2. CASE c.filter # NoFile
      BY <3>2, OneOp DEF LoadFilter, Action
    <3> QED
      BY <3>1, <3>2
  <2> QED
    BY <2>1
<1>4. \A p \in Phys : \E x \in Ops(p1) \cup Ops(p2) : Writes(x, p, Rate)
  <2>1. "phy" \in Phys /\ "phy2" \in Phys /\ ~UsesAutoFilter(c) /\ \A p \in Phys : p = "phy" \/ p = "phy2"
    BY DEF Phys, UsesAutoFilter
  <2>2. /\ \E x \in Ops(p1) : SetsRate(x, "phy")
        /\ \E x \in Ops(p2) : SetsRate(x, "phy2")
    BY <2>1, ParamsAreProper
  <2>3. /\ \E x \in Ops(p1) : Writes(x, "phy", Rate)
        /\ \E x \in Ops(p2) : Writes(x, "phy2", Rate)
    BY <1>2, <2>2 DEF SetsRate
  <2> QED
    BY <2>1, <2>3
<1>5. /\ SetParams(b, c) = (p1 \o p2) \o sync
      /\ Construct(b, c) = ((p1 \o p2) \o sync) \o (f1 \o f2)
  BY DEF SetParams, Construct
<1> DEFINE w == p1 \o p2
           ws == w \o sync
           f == f1 \o f2
           s == ws \o f
<1> HIDE DEF p1, p2, sync, f1, f2
<1>6. IsList(w) /\ Ops(w) = Ops(p1) \cup Ops(p2)
  BY <1>2, Concatenation
<1>7. IsList(f) /\ Ops(f) = Ops(f1) \cup Ops(f2)
  BY <1>3, Concatenation
<1> HIDE DEF w, f
<1>8. WritesBeforeSync(w)
  BY <1>2, <1>6 DEF WritesBeforeSync, Ops
<1>9. IsList(ws) /\ Ops(ws) = Ops(w) \cup Ops(sync)
  BY <1>1, <1>6, Concatenation
<1>10. WritesBeforeSync(ws)
  <2>1. \A x \in Ops(sync) : x.op # "write"
    BY <1>1
  <2> QED
    BY <1>1, <1>6, <1>8, <2>1, NoWritesAfter
<1> HIDE DEF ws
<1>11. \A x \in Ops(ws) : x.op # "fir"
  BY <1>1, <1>2, <1>6, <1>9
<1>12. LoadsAfterSync(ws)
  BY <1>11 DEF LoadsAfterSync, Ops
<1>13. IsList(s) /\ Ops(s) = Ops(ws) \cup Ops(f)
  BY <1>7, <1>9, Concatenation
<1>14. WritesBeforeSync(s)
  <2>1. \A x \in Ops(f) : x.op # "write"
    BY <1>3, <1>7
  <2> QED
    BY <1>7, <1>9, <1>10, <2>1, NoWritesAfter
<1>15. LoadsAfterSync(s)
  <2>1. \A x \in Ops(f) : x.op # "sync"
    BY <1>3, <1>7
  <2> QED
    BY <1>7, <1>9, <1>11, <2>1, NoSyncsAfter
<1> HIDE DEF s
<1>16. CallSyncs(ws, c)
  BY <1>1, <1>2, <1>4, <1>6, <1>9, <1>10, <1>12 DEF CallSyncs, HasSync
<1>17. CallSyncs(s, c)
  BY <1>1, <1>2, <1>3, <1>4, <1>6, <1>7, <1>9, <1>13, <1>14, <1>15 DEF CallSyncs, HasSync
<1> QED
  BY <1>5, <1>16, <1>17 DEF s, ws, w, f

(* The rate that every block was last asked for.                           *)
Asks(rate) ==
  /\ \E b \in Blocks : outcome[b] \notin {"none", "missing"}
  /\ \A b \in Blocks : outcome[b] \notin {"none", "missing"} => config[b].rate = rate

InSync(rate) == synced /\ \A p \in Phys : attr[p][Rate] = rate

(* A synchronisation that will not be skipped, after what rates are left   *)
(* to write.                                                               *)
WillSync(b, rate) ==
  /\ HasSync(todo[b]) /\ samplerate[b] # rate
  /\ \A p \in Phys : attr[p][Rate] = rate \/ \E x \in Ops(todo[b]) : Writes(x, p, Rate)

SyncedOrToDo == \A rate : Asks(rate) => InSync(rate) \/ \E b \in Blocks : WillSync(b, rate)

SyncsAsAsked ==
  \A b \in Blocks :
    /\ WritesBeforeSync(todo[b]) /\ LoadsAfterSync(todo[b])
    /\ \A x \in Ops(todo[b]) : x.op = "sync" => x.value = config[b].rate

Remembers ==
  \A b \in Blocks : outcome[b] \in {"called", "returned"} =>
    HasSync(todo[b]) \/ samplerate[b] = config[b].rate

(* Only a constructor throws.                                              *)
NothingThrows ==
  \A b \in Blocks : made[b] =>
    outcome[b] # "thrown" /\ \A x \in Ops(todo[b]) : x.op \notin {"fir", "bb_rate"}

SyncTypeOK ==
  /\ failures \in Nat /\ DOMAIN samplerate = Blocks
  /\ \A b \in Blocks : outcome[b] \in {"none", "missing", "called", "returned", "thrown"}
  /\ \A b \in Blocks : outcome[b] \notin {"none", "missing"} => config[b].rate \in Nat \ {0}
  /\ \A b \in Blocks : made[b] => outcome[b] \notin {"none", "missing"}

SyncInv ==
  /\ SyncTypeOK
  /\ board.family = "fmcomms5" /\ failures = 0 =>
       /\ \A b \in Blocks : ~refused[b]
       /\ SyncsAsAsked /\ Remembers /\ NothingThrows /\ SyncedOrToDo

LEMMA BeginKeepsSyncInv ==
  ASSUME FilterInv, SyncInv, NEW b \in Blocks, NEW c \in Configs, Begin(b, c)
  PROVE  SyncInv'
<1>1. CallTypeOK
  BY DEF FilterInv
<1>2. /\ board' = board /\ attr' = attr /\ synced' = synced /\ made' = made
      /\ failures' = failures
      /\ outcome' = [outcome EXCEPT ![b] = "called"]
      /\ todo' = [todo EXCEPT ![b] = IF made[b] THEN SetParams(b, c) ELSE Construct(b, c)]
      /\ config' = [config EXCEPT ![b] =
            IF made[b] /\ board.family = "fmcomms5" THEN [c EXCEPT !.filter = NoFile] ELSE c]
      /\ samplerate' = IF made[b] THEN samplerate ELSE [samplerate EXCEPT ![b] = 0]
      /\ refused' = [refused EXCEPT ![b] = FALSE]
      /\ outcome[b] # "called"
  BY DEF Begin, device
<1> DEFINE d == Other(b)
<1>3. d \in Blocks /\ d # b /\ \A e \in Blocks : e = b \/ e = d
  BY TwoBlocks
<1> HIDE DEF d
<1>4. /\ todo'[d] = todo[d] /\ config'[d] = config[d] /\ outcome'[d] = outcome[d]
      /\ refused'[d] = refused[d] /\ samplerate'[d] = samplerate[d]
      /\ outcome'[b] = "called" /\ refused'[b] = FALSE
      /\ samplerate'[b] = IF made[b] THEN samplerate[b] ELSE 0
      /\ DOMAIN samplerate' = Blocks
  BY <1>1, <1>2, <1>3 DEF CallTypeOK, SyncInv, SyncTypeOK
<1>5. config'[b].rate = c.rate /\ c.rate \in Nat \ {0}
  <2>1. config'[b] = c \/ config'[b] = [c EXCEPT !.filter = NoFile]
    BY <1>1, <1>2 DEF CallTypeOK
  <2>2. c \in Config
    OBVIOUS
  <2> QED
    BY <2>1, <2>2 DEF Config
<1>6. SyncTypeOK'
  BY <1>2, <1>3, <1>4, <1>5 DEF SyncInv, SyncTypeOK
<1>7. ASSUME board.family = "fmcomms5", failures = 0
      PROVE  /\ \A e \in Blocks : ~refused'[e]
             /\ SyncsAsAsked' /\ Remembers' /\ NothingThrows' /\ SyncedOrToDo'
  <2>1. /\ \A e \in Blocks : ~refused[e]
        /\ SyncsAsAsked /\ Remembers /\ NothingThrows /\ SyncedOrToDo
    BY <1>7 DEF SyncInv
  <2>2. CallSyncs(todo'[b], c)
    BY <1>1, <1>2, <1>7, TwoTransceiversSync DEF CallTypeOK
  <2>3. \A e \in Blocks : ~refused'[e]
    BY <1>3, <1>4, <2>1
  <2>4. SyncsAsAsked'
    <3> SUFFICES ASSUME NEW e \in Blocks
                 PROVE  /\ WritesBeforeSync(todo'[e]) /\ LoadsAfterSync(todo'[e])
                        /\ \A x \in Ops(todo'[e]) : x.op = "sync" => x.value = config'[e].rate
      BY DEF SyncsAsAsked, WritesBeforeSync, LoadsAfterSync
    <3>1. CASE e = b
      BY <1>5, <2>2, <3>1 DEF CallSyncs
    <3>2. CASE e = d
      BY <1>4, <2>1, <3>2 DEF SyncsAsAsked
    <3> QED
      BY <1>3, <3>1, <3>2
  <2>5. Remembers'
    <3> SUFFICES ASSUME NEW e \in Blocks, outcome'[e] \in {"called", "returned"}
                 PROVE  HasSync(todo'[e]) \/ samplerate'[e] = config'[e].rate
      BY DEF Remembers, HasSync
    <3>1. CASE e = b
      BY <2>2, <3>1 DEF CallSyncs
    <3>2. CASE e = d
      BY <1>4, <2>1, <3>2 DEF Remembers
    <3> QED
      BY <1>3, <3>1, <3>2
  <2>6. NothingThrows'
    <3> SUFFICES ASSUME NEW e \in Blocks, made[e]
                 PROVE  /\ outcome'[e] # "thrown"
                        /\ \A x \in Ops(todo'[e]) : x.op \notin {"fir", "bb_rate"}
      BY <1>2 DEF NothingThrows
    <3>1. CASE e = b
      <4>1. todo'[b] = SetParams(b, c)
        BY <1>1, <1>2, <3>1 DEF CallTypeOK
      <4>2. \A x \in Ops(SetParams(b, c)) : x.op \in {"write", "sync"}
        BY <1>7, SetParamsLoads
      <4> QED
        BY <1>4, <3>1, <4>1, <4>2
    <3>2. CASE e = d
      BY <1>4, <2>1, <3>2 DEF NothingThrows
    <3> QED
      BY <1>3, <3>1, <3>2
  <2>7. ASSUME NEW rate, Asks(rate)'
        PROVE  InSync(rate)' \/ \E e \in Blocks : WillSync(e, rate)'
    <3>1. c.rate = rate
      BY <1>4, <1>5, <2>7 DEF Asks
    <3>2. CASE samplerate'[b] # rate
      <4>1. WillSync(b, rate)'
        BY <2>2, <3>2 DEF WillSync, CallSyncs, HasSync
      <4> QED
        BY <4>1
    <3>3. CASE samplerate'[b] = rate
      <4>1. made[b] /\ samplerate[b] = rate
        BY <1>4, <1>5, <3>1, <3>3
      <4>2. outcome[b] = "returned"
        BY <1>2, <2>1, <4>1 DEF NothingThrows, SyncInv, SyncTypeOK
      <4>3. todo[b] = <<>>
        BY <4>2 DEF FilterInv, CallsInProgress
      <4>4. ~HasSync(todo[b])
        BY <4>3, EmptyList DEF HasSync
      <4>5. config[b].rate = rate
        BY <2>1, <4>1, <4>2, <4>4 DEF Remembers
      <4>6. Asks(rate)
        BY <1>3, <1>4, <2>7, <4>2, <4>5 DEF Asks
      <4>7. InSync(rate) \/ WillSync(d, rate)
        BY <1>3, <2>1, <4>4, <4>6 DEF SyncedOrToDo, WillSync
      <4>8. CASE InSync(rate)
        BY <1>2, <4>8 DEF InSync
      <4>9. CASE WillSync(d, rate)
        <5>1. WillSync(d, rate)'
          BY <1>2, <1>4, <4>9 DEF WillSync, HasSync
        <5> QED
          BY <1>3, <5>1
      <4> QED
        BY <4>7, <4>8, <4>9
    <3> QED
      BY <3>2, <3>3
  <2>8. SyncedOrToDo'
    BY <2>7 DEF SyncedOrToDo
  <2> QED
    BY <2>3, <2>4, <2>5, <2>6, <2>8
<1> QED
  BY <1>2, <1>6, <1>7 DEF SyncInv

LEMMA EndKeepsSyncInv ==
  ASSUME FilterInv, SyncInv, NEW b \in Blocks, Throw(b) \/ Return(b)
  PROVE  SyncInv'
<1>1. CallTypeOK /\ CallsInProgress
  BY DEF FilterInv
<1>2. /\ board' = board /\ attr' = attr /\ synced' = synced /\ config' = config
      /\ refused' = refused /\ samplerate' = samplerate
      /\ todo'[b] = <<>> /\ outcome[b] = "called"
      /\ \A d \in Blocks : d # b =>
           todo'[d] = todo[d] /\ outcome'[d] = outcome[d] /\ made'[d] = made[d]
      /\ \/ outcome'[b] = "returned" /\ todo[b] = <<>>
         \/ /\ outcome'[b] = "thrown" /\ made'[b] = made[b]
            /\ todo[b] # <<>> /\ Head(todo[b]).op \in {"fir", "bb_rate"}
  BY <1>1 DEF Throw, Return, CallTypeOK, CallsInProgress, device, Doing, Step
<1>3. failures' \in Nat /\ (failures' = 0 => failures = 0)
  BY DEF Throw, Return, Fails, SyncInv, SyncTypeOK
<1>4. SyncTypeOK'
  BY <1>2, <1>3 DEF SyncInv, SyncTypeOK
<1>5. ASSUME board.family = "fmcomms5", failures' = 0
      PROVE  /\ \A e \in Blocks : ~refused'[e]
             /\ SyncsAsAsked' /\ Remembers' /\ NothingThrows' /\ SyncedOrToDo'
  <2>1. /\ \A e \in Blocks : ~refused[e]
        /\ SyncsAsAsked /\ Remembers /\ NothingThrows /\ SyncedOrToDo
    BY <1>3, <1>5 DEF SyncInv
  <2>2. \A e \in Blocks : ~refused'[e]
    BY <1>2, <2>1
  <2>3. SyncsAsAsked'
    <3> SUFFICES ASSUME NEW e \in Blocks
                 PROVE  /\ WritesBeforeSync(todo'[e]) /\ LoadsAfterSync(todo'[e])
                        /\ \A x \in Ops(todo'[e]) : x.op = "sync" => x.value = config'[e].rate
      BY DEF SyncsAsAsked, WritesBeforeSync, LoadsAfterSync
    <3>1. CASE e = b
      BY <1>2, <3>1, EmptyList DEF WritesBeforeSync, LoadsAfterSync
    <3>2. CASE e # b
      BY <1>2, <2>1, <3>2 DEF SyncsAsAsked
    <3> QED
      BY <3>1, <3>2
  <2>4. ~HasSync(<<>>)
    BY EmptyList DEF HasSync
  <2>5. Remembers'
    <3> SUFFICES ASSUME NEW e \in Blocks, outcome'[e] \in {"called", "returned"}
                 PROVE  HasSync(todo'[e]) \/ samplerate'[e] = config'[e].rate
      BY DEF Remembers, HasSync
    <3>1. CASE e = b
      BY <1>2, <2>1, <2>4, <3>1 DEF Remembers
    <3>2. CASE e # b
      BY <1>2, <2>1, <3>2 DEF Remembers
    <3> QED
      BY <3>1, <3>2
  <2>6. NothingThrows'
    <3> SUFFICES ASSUME NEW e \in Blocks, made'[e]
                 PROVE  /\ outcome'[e] # "thrown"
                        /\ \A x \in Ops(todo'[e]) : x.op \notin {"fir", "bb_rate"}
      BY DEF NothingThrows
    <3>1. CASE e = b
      <4>1. outcome'[b] # "thrown"
        <5> SUFFICES ASSUME outcome'[b] = "thrown" PROVE FALSE
          OBVIOUS
        <5>1. made[b] /\ todo[b] # <<>> /\ Head(todo[b]).op \in {"fir", "bb_rate"}
          BY <1>2, <3>1
        <5>2. Head(todo[b]) \in Ops(todo[b])
          BY <5>1, HeadAndTail DEF FilterInv, LoadsWhatWasAsked
        <5> QED
          BY <2>1, <5>1, <5>2 DEF NothingThrows
      <4> QED
        BY <1>2, <3>1, <4>1, EmptyList
    <3>2. CASE e # b
      BY <1>2, <2>1, <3>2 DEF NothingThrows
    <3> QED
      BY <3>1, <3>2
  <2>7. ASSUME NEW rate, Asks(rate)'
        PROVE  InSync(rate)' \/ \E e \in Blocks : WillSync(e, rate)'
    <3>1. Asks(rate)
      BY <1>2, <2>7 DEF Asks
    <3>2. CASE InSync(rate)
      BY <1>2, <3>2 DEF InSync
    <3>3. ASSUME NEW e \in Blocks, WillSync(e, rate) PROVE InSync(rate)' \/ WillSync(e, rate)'
      <4>1. CASE e # b
        BY <1>2, <3>3, <4>1 DEF WillSync, HasSync
      <4>2. CASE e = b
        <5> SUFFICES ASSUME HasSync(todo[b]) PROVE FALSE
          BY <3>3, <4>2 DEF WillSync
        <5>1. todo[b] # <<>> /\ Head(todo[b]).op \in {"fir", "bb_rate"}
          BY <1>2, EmptyList DEF HasSync
        <5>2. /\ DOMAIN todo[b] = 1..Len(todo[b]) /\ Len(todo[b]) \in Nat \ {0}
              /\ Head(todo[b]) = todo[b][1] /\ Head(todo[b]) \in Ops(todo[b])
          BY <5>1, TailPlaces, HeadAndTail DEF FilterInv, LoadsWhatWasAsked
        <5>3. Head(todo[b]).op = "fir"
          BY <1>5, <5>1, <5>2 DEF FilterInv, LoadsWhatWasAsked, LoadsOnly, UsesAutoFilter
        <5>4. PICK j \in DOMAIN todo[b] : todo[b][j].op = "sync"
          BY DEF HasSync, Ops
        <5>5. 1 \in DOMAIN todo[b] /\ 1 < j
          BY <5>2, <5>3, <5>4
        <5>6. LoadsAfterSync(todo[b])
          BY <2>1 DEF SyncsAsAsked
        <5> QED
          BY <5>2, <5>3, <5>4, <5>5, <5>6 DEF LoadsAfterSync
      <4> QED
        BY <4>1, <4>2
    <3> QED
      BY <2>1, <3>1, <3>2, <3>3 DEF SyncedOrToDo
  <2>8. SyncedOrToDo'
    BY <2>7 DEF SyncedOrToDo
  <2> QED
    BY <2>2, <2>3, <2>5, <2>6, <2>8
<1> QED
  BY <1>2, <1>3, <1>4, <1>5 DEF SyncInv

LEMMA OperationKeepsSyncInv ==
  ASSUME FilterInv, AttrInv, SyncInv, NEW b \in Blocks, Operation(b)
  PROVE  SyncInv'
<1> DEFINE first == Head(todo[b])
<1>1. CallTypeOK /\ CallsInProgress /\ LoadsWhatWasAsked
  BY DEF FilterInv
<1>2. /\ todo[b] # <<>> /\ todo' = [todo EXCEPT ![b] = Tail(@)]
      /\ UNCHANGED <<board, config, outcome, made>>
      /\ failures' \in Nat /\ (failures' = 0 => failures = 0 /\ refused' = refused)
      /\ DOMAIN samplerate' = Blocks
  BY DEF Operation, Write, WriteRefused, SetBbRate, LoadFirFilter, Sync, Doing, Done, Fails,
         SyncInv, SyncTypeOK
<1>3. /\ todo'[b] = Tail(todo[b]) /\ outcome[b] = "called"
      /\ \A d \in Blocks : d # b => todo'[d] = todo[d]
  BY <1>1, <1>2 DEF CallTypeOK, CallsInProgress
<1>4. /\ IsList(todo[b]) /\ Ops(todo'[b]) \subseteq Ops(todo[b]) /\ first \in Ops(todo[b])
      /\ \A x \in Ops(todo[b]) : x = first \/ x \in Ops(todo'[b])
  BY <1>1, <1>2, <1>3, HeadAndTail DEF LoadsWhatWasAsked
<1>5. /\ DOMAIN todo[b] = 1..Len(todo[b]) /\ Len(todo[b]) \in Nat \ {0} /\ first = todo[b][1]
      /\ DOMAIN todo'[b] = 1..(Len(todo[b]) - 1)
      /\ \A i \in 1..(Len(todo[b]) - 1) : todo'[b][i] = todo[b][i + 1]
  <2> DEFINE rest == Tail(todo[b])
  <2>1. /\ DOMAIN todo[b] = 1..Len(todo[b]) /\ Len(todo[b]) \in Nat \ {0} /\ first = todo[b][1]
        /\ DOMAIN rest = 1..(Len(todo[b]) - 1)
        /\ \A i \in 1..(Len(todo[b]) - 1) : rest[i] = todo[b][i + 1]
    BY <1>2, <1>4, TailPlaces
  <2>2. todo'[b] = rest
    BY <1>3
  <2> HIDE DEF rest, first
  <2> QED
    BY <2>1, <2>2
<1>6. SyncTypeOK'
  BY <1>2 DEF SyncInv, SyncTypeOK
<1>7. ASSUME board.family = "fmcomms5", failures' = 0
      PROVE  /\ \A e \in Blocks : ~refused'[e]
             /\ SyncsAsAsked' /\ Remembers' /\ NothingThrows' /\ SyncedOrToDo'
  <2>1. /\ \A e \in Blocks : ~refused[e]
        /\ SyncsAsAsked /\ Remembers /\ NothingThrows /\ SyncedOrToDo
    BY <1>2, <1>7 DEF SyncInv
  <2>2. \A e \in Blocks : ~refused'[e]
    BY <1>2, <1>7, <2>1
  <2>3. first.op # "bb_rate"
    BY <1>1, <1>4, <1>7 DEF LoadsWhatWasAsked, LoadsOnly, UsesAutoFilter
  (* What the operation does to the rates and to the synchronisation.      *)
  <2>4. /\ \A p \in Phys : attr'[p][Rate] = attr[p][Rate] \/ attr'[p][Rate] = config[b].rate
        /\ \A p \in Phys : Writes(first, p, Rate) => attr'[p][Rate] = config[b].rate
    <3>1. /\ Rate \in Names /\ Asked(b, config[b], Rate) = config[b].rate
          /\ \A p : Takes(p, Rate)
      <4>1. Rate \in NamesOf(b)
        BY DEF NamesOf
      <4> QED
        BY <4>1, NamesAreNames, NameFacts DEF Asked, Takes, Blocks
    <3>2. ~refused'[b]
      BY <2>2
    <3> QED
      BY <3>1, <3>2, OperationWrites
  <2>5. /\ first.op # "sync" => samplerate' = samplerate
        /\ first.op = "sync" => /\ samplerate' = [samplerate EXCEPT ![b] = config[b].rate]
                                /\ attr' = attr
                                /\ synced \/ samplerate[b] # config[b].rate => synced'
    <3>1. first.op = "sync" => first.value = config[b].rate
      BY <1>4, <2>1 DEF SyncsAsAsked
    <3>2. failures \in Nat
      BY DEF SyncInv, SyncTypeOK
    <3>3. CASE Sync(b)
      <4>1. first.op = "sync" /\ ~Fails
        BY <1>7, <3>2, <3>3 DEF Sync, Doing, Step, Fails
      <4>2. synced' = (synced \/ samplerate[b] # config[b].rate)
        BY <3>1, <3>3, <4>1 DEF Sync, Step, MustSync
      <4>3. attr' = attr /\ samplerate' = [samplerate EXCEPT ![b] = config[b].rate]
        BY <3>1, <3>3, <4>1 DEF Sync, Step
      <4> QED
        BY <4>1, <4>2, <4>3
    <3>4. CASE ~Sync(b)
      BY <3>4 DEF Operation, Write, WriteRefused, SetBbRate, LoadFirFilter, Doing, Step
    <3> QED
      BY <3>3, <3>4
  <2>6. ASSUME InSync(config[b].rate) PROVE synced' /\ \A p \in Phys : attr'[p][Rate] = config[b].rate
    <3>1. synced /\ \A p \in Phys : attr[p][Rate] = config[b].rate
      BY <2>6 DEF InSync
    <3>2. \A p \in Phys : attr'[p][Rate] = config[b].rate
      BY <2>4, <3>1
    <3>3. synced'
      <4>1. CASE Write(b)
        <5>1. Proper(first, b, config[b]) /\ first.op = "write"
          BY <1>4, <4>1 DEF AttrInv, WritesWhatWasAsked, Write, Doing, Step
        <5>2. first.name = Rate => attr[first.phy][Rate] = first.value
          BY <3>1, <5>1 DEF Proper, Asked
        <5> QED
          BY <3>1, <4>1, <5>2 DEF Write, Set, Step
      <4>2. CASE WriteRefused(b) \/ LoadFirFilter(b)
        BY <3>1, <4>2 DEF WriteRefused, LoadFirFilter, device
      <4>3. CASE SetBbRate(b)
        BY <2>3, <4>3 DEF SetBbRate, Doing, Step
      <4>4. CASE Sync(b)
        BY <2>5, <3>1, <4>4 DEF Sync, Doing, Step
      <4> QED
        BY <4>1, <4>2, <4>3, <4>4 DEF Operation
    <3> QED
      BY <3>2, <3>3
  <2> HIDE DEF first
  <2>7. SyncsAsAsked'
    <3> SUFFICES ASSUME NEW e \in Blocks
                 PROVE  /\ WritesBeforeSync(todo'[e]) /\ LoadsAfterSync(todo'[e])
                        /\ \A x \in Ops(todo'[e]) : x.op = "sync" => x.value = config[e].rate
      BY <1>2 DEF SyncsAsAsked, WritesBeforeSync, LoadsAfterSync
    <3>1. /\ WritesBeforeSync(todo[e]) /\ LoadsAfterSync(todo[e])
          /\ \A x \in Ops(todo[e]) : x.op = "sync" => x.value = config[e].rate
      BY <2>1 DEF SyncsAsAsked
    <3>2. CASE e = b
      <4>1. ASSUME NEW i \in DOMAIN todo'[b], NEW j \in DOMAIN todo'[b], i < j
            PROVE  /\ i + 1 \in DOMAIN todo[b] /\ j + 1 \in DOMAIN todo[b] /\ i + 1 < j + 1
                   /\ todo'[b][i] = todo[b][i + 1] /\ todo'[b][j] = todo[b][j + 1]
        <5>1. Len(todo[b]) \in Nat /\ i \in 1..(Len(todo[b]) - 1) /\ j \in 1..(Len(todo[b]) - 1)
          BY <1>5
        <5>2. i + 1 \in 1..Len(todo[b]) /\ j + 1 \in 1..Len(todo[b]) /\ i + 1 < j + 1
          BY <4>1, <5>1
        <5> QED
          BY <1>5, <5>1, <5>2
      <4>2. WritesBeforeSync(todo'[b]) /\ LoadsAfterSync(todo'[b])
        BY <3>1, <3>2, <4>1 DEF WritesBeforeSync, LoadsAfterSync
      <4> QED
        BY <1>4, <3>1, <3>2, <4>2
    <3>3. CASE e # b
      BY <1>3, <3>1, <3>3
    <3> QED
      BY <3>2, <3>3
  <2>8. \A e \in Blocks : e # b => samplerate'[e] = samplerate[e]
    BY <2>5 DEF SyncInv, SyncTypeOK
  <2>9. first.op = "sync" => samplerate'[b] = config[b].rate
    BY <2>5 DEF SyncInv, SyncTypeOK
  <2>10. HasSync(todo[b]) => HasSync(todo'[b]) \/ first.op = "sync"
    BY <1>4 DEF HasSync
  <2>11. Remembers'
    <3> SUFFICES ASSUME NEW e \in Blocks, outcome[e] \in {"called", "returned"}
                 PROVE  HasSync(todo'[e]) \/ samplerate'[e] = config[e].rate
      BY <1>2 DEF Remembers, HasSync
    <3>1. HasSync(todo[e]) \/ samplerate[e] = config[e].rate
      BY <2>1 DEF Remembers
    <3>2. CASE e = b
      BY <2>5, <2>9, <2>10, <3>1, <3>2
    <3>3. CASE e # b
      BY <1>3, <2>8, <3>1, <3>3
    <3> QED
      BY <3>2, <3>3
  <2>12. NothingThrows'
    BY <1>2, <1>3, <1>4, <2>1 DEF NothingThrows
  <2>13. ASSUME NEW rate, Asks(rate)'
         PROVE  InSync(rate)' \/ \E e \in Blocks : WillSync(e, rate)'
    <3>1. Asks(rate) /\ config[b].rate = rate
      BY <1>2, <1>3, <2>13 DEF Asks
    <3>2. CASE InSync(rate)
      BY <2>6, <3>1, <3>2 DEF InSync
    <3>3. ASSUME NEW e \in Blocks, WillSync(e, rate) PROVE InSync(rate)' \/ WillSync(e, rate)'
      <4>1. CASE e # b
        <5>1. \A p \in Phys : attr[p][Rate] = rate => attr'[p][Rate] = rate
          BY <2>4, <3>1
        <5> QED
          BY <1>3, <2>8, <3>3, <4>1, <5>1 DEF WillSync, HasSync
      <4>2. CASE e = b /\ first.op # "sync"
        <5>1. HasSync(todo'[b])
          BY <2>10, <3>3, <4>2 DEF WillSync
        <5>2. samplerate'[b] # rate
          BY <2>5, <3>3, <4>2 DEF WillSync
        <5>3. ASSUME NEW p \in Phys
              PROVE  attr'[p][Rate] = rate \/ \E x \in Ops(todo'[b]) : Writes(x, p, Rate)
          <6>1. attr[p][Rate] = rate \/ \E x \in Ops(todo[b]) : Writes(x, p, Rate)
            BY <3>3, <4>2 DEF WillSync
          <6> QED
            BY <1>4, <2>4, <3>1, <6>1
        <5> QED
          BY <4>2, <5>1, <5>2, <5>3 DEF WillSync, HasSync
      <4>3. CASE e = b /\ first.op = "sync"
        <5>1. \A x \in Ops(todo[b]) : x.op # "write"
          <6> SUFFICES ASSUME NEW i \in DOMAIN todo[b] PROVE todo[b][i].op # "write"
            BY DEF Ops
          <6>1. 1 \in DOMAIN todo[b] /\ (i = 1 \/ 1 < i)
            BY <1>5
          <6>2. WritesBeforeSync(todo[b])
            BY <2>1 DEF SyncsAsAsked
          <6> QED
            BY <1>5, <4>3, <6>1, <6>2 DEF WritesBeforeSync
        <5>2. \A p \in Phys : attr[p][Rate] = rate
          BY <3>3, <4>3, <5>1 DEF WillSync, Writes
        <5>3. attr' = attr /\ synced'
          BY <2>5, <3>1, <3>3, <4>3 DEF WillSync
        <5> QED
          BY <5>2, <5>3 DEF InSync
      <4> QED
        BY <4>1, <4>2, <4>3
    <3> QED
      BY <2>1, <3>1, <3>2, <3>3 DEF SyncedOrToDo
  <2>14. SyncedOrToDo'
    BY <2>13 DEF SyncedOrToDo
  <2> QED
    BY <2>2, <2>7, <2>11, <2>12, <2>14
<1> QED
  BY <1>2, <1>6, <1>7 DEF SyncInv

LEMMA MissingKeepsSyncInv ==
  ASSUME FilterInv, SyncInv, NEW b \in Blocks, PhyMissing(b)
  PROVE  SyncInv'
<1>1. /\ UNCHANGED <<board, attr, synced, samplerate, made, todo, config, refused, failures>>
      /\ outcome' = [outcome EXCEPT ![b] = "missing"]
      /\ outcome[b] \in {"none", "missing"}
  BY DEF PhyMissing, device
<1>2. /\ outcome'[b] = "missing"
      /\ \A d \in Blocks : d # b => outcome'[d] = outcome[d]
  BY <1>1 DEF FilterInv, CallTypeOK
<1>3. SyncTypeOK'
  BY <1>1, <1>2 DEF SyncInv, SyncTypeOK
<1>4. \A rate : Asks(rate)' <=> Asks(rate)
  BY <1>1, <1>2 DEF Asks
<1>5. SyncedOrToDo => SyncedOrToDo'
  BY <1>1, <1>4 DEF SyncedOrToDo, InSync, WillSync, HasSync
<1>6. Remembers /\ NothingThrows => Remembers' /\ NothingThrows'
  BY <1>1, <1>2 DEF Remembers, HasSync, NothingThrows
<1>7. SyncsAsAsked => SyncsAsAsked'
  BY <1>1 DEF SyncsAsAsked, WritesBeforeSync, LoadsAfterSync
<1> QED
  BY <1>1, <1>3, <1>5, <1>6, <1>7 DEF SyncInv

LEMMA SyncInvariance == Spec => []SyncInv
<1>1. Init => SyncInv
  <2> SUFFICES ASSUME Init PROVE SyncInv
    OBVIOUS
  <2>1. \A b \in Blocks : /\ todo[b] = <<>> /\ outcome[b] = "none"
                          /\ made[b] = FALSE /\ refused[b] = FALSE
    BY DEF Init
  <2>2. SyncTypeOK
    BY <2>1 DEF Init, SyncTypeOK
  <2>3. SyncsAsAsked
    BY <2>1, EmptyList DEF SyncsAsAsked, WritesBeforeSync, LoadsAfterSync
  <2>4. Remembers /\ NothingThrows
    BY <2>1 DEF Remembers, NothingThrows
  <2>5. SyncedOrToDo
    BY <2>1 DEF SyncedOrToDo, Asks
  <2> QED
    BY <2>1, <2>2, <2>3, <2>4, <2>5 DEF SyncInv
<1>2. FilterInv /\ AttrInv /\ SyncInv /\ [Next]_vars => SyncInv'
  <2> SUFFICES ASSUME FilterInv, AttrInv, SyncInv, [Next]_vars PROVE SyncInv'
    OBVIOUS
  <2>1. CASE UNCHANGED vars
    BY <2>1 DEF vars, call, device, SyncInv, SyncTypeOK, SyncsAsAsked, WritesBeforeSync,
                LoadsAfterSync, Remembers, NothingThrows, SyncedOrToDo, Asks, InSync, WillSync, HasSync
  <2> QED
    BY <2>1, BeginKeepsSyncInv, MissingKeepsSyncInv,
       OperationKeepsSyncInv, EndKeepsSyncInv DEF Next, Operation
<1> QED
  BY <1>1, <1>2, FilterInvariance, AttrInvariance, PTL DEF Spec

(* set_params() of the fmcomms5 blocks: when no call is in progress and    *)
(* the blocks were last asked for the same rate, the transceivers have it  *)
(* and are synchronised, although each block skips the synchronisation by  *)
(* a rate of its own, for every set of arguments.                          *)
THEOREM ChipsAreSynchronised == Spec => []ChipsInSync
<1>1. FilterInv /\ SyncInv => ChipsInSync
  <2> SUFFICES ASSUME FilterInv, SyncInv, board.family = "fmcomms5", failures = 0,
                      NEW c \in Configs, Agree(c.rate)
               PROVE  synced /\ \A p \in Phys : attr[p][Rate] = c.rate
    BY DEF ChipsInSync
  <2>1. /\ \A b \in Blocks : outcome[b] # "called" /\ (Ended(b) => config[b].rate = c.rate)
        /\ \E b \in Blocks : Ended(b)
    BY DEF Agree
  <2>2. \A b \in Blocks : ~HasSync(todo[b])
    BY <2>1, EmptyList DEF FilterInv, CallsInProgress, HasSync
  <2>3. \A b \in Blocks : outcome[b] \notin {"none", "missing"} => Ended(b)
    BY <2>1 DEF SyncInv, SyncTypeOK, Ended
  <2>4. Asks(c.rate)
    BY <2>1, <2>3 DEF Asks, Ended
  <2>5. InSync(c.rate)
    BY <2>2, <2>4 DEF SyncInv, SyncedOrToDo, WillSync
  <2> QED
    BY <2>5 DEF InSync
<1> QED
  BY <1>1, FilterInvariance, SyncInvariance, PTL

=============================================================================
