----------------------------- MODULE PhyConfig -----------------------------
(***************************************************************************)
(* How the FMComms blocks configure the AD9361 transceivers of a board.    *)
(*                                                                         *)
(* set_params() is a list of attribute writes, the ones of                 *)
(* device_source_impl::set_params() only logged when they are refused,     *)
(* followed by what may throw: ad9361_set_bb_rate() or load_fir_filter().  *)
(* The fmcomms5 blocks configure two transceivers and synchronise them     *)
(* when the sample rate is not the one they remember; their constructors   *)
(* load the filter.  A source and a sink share the transceivers, and each  *)
(* may be called from a thread of its own.                                 *)
(*                                                                         *)
(* One attribute, "tuning", stands for those that are written and never    *)
(* looked at again: frequency, bandwidth, tracking and port.               *)
(***************************************************************************)
EXTENDS Integers, Sequences

CONSTANTS
  Configs,    \* the arguments the application uses
  Files,      \* the filter files that load_fir_filter() accepts
  NoFile,     \* the empty file name
  MaxRefused  \* bound: what the device refuses or fails to do, in all

Blocks == {"source", "sink"}
Phys == {"phy", "phy2"}
Config == [id : Nat \ {0}, rate : Nat \ {0}, mode : {"manual", "auto"},
           filter : STRING, auto_filter : BOOLEAN]

ASSUME ConfigAssumption ==
  /\ Configs \subseteq Config /\ Configs # {}
  /\ Files \subseteq STRING /\ NoFile \in STRING \ Files /\ "auto" \notin Files
  /\ MaxRefused \in Nat

VARIABLES
  board,      \* "fmcomms2" or "fmcomms5", the channels of a transceiver: one
              \* on an FMComms4, and is there the second one of an FMComms5?
  attr,       \* the attributes of each transceiver
  fir,        \* the filter each has: NoFile, "auto" or a file
  synced,     \* have they been synchronised since a rate last changed?
  samplerate, \* the rate an fmcomms5 block remembers
  made,       \* is the block constructed?
  todo,       \* what its last call has still to do
  config,     \* its arguments
  outcome,    \* how it ended: "called" when it has not, "missing" when the
              \* constructor found no second transceiver
  refused,    \* has the device refused it a write?
  alone,      \* has the other block been idle since it began?
  failures    \* how often the device refused or failed

call == <<made, todo, config, outcome, refused, alone>>
device == <<attr, fir, synced>>
vars == <<board, device, samplerate, call, failures>>

NoConfig == [id |-> 0, rate |-> 0, mode |-> "auto", filter |-> NoFile, auto_filter |-> FALSE]
Boards == [family : {"fmcomms2", "fmcomms5"}, channels : {1, 2}, second : BOOLEAN]
Channels == 1..board.channels

(* The attributes.  The two directions share the clock.                    *)
Names == {<<"rate">>} \cup ({"tuning", "mode", "gain"} \X Blocks \X {1, 2})
Rate == <<"rate">>
Tuning(b) == <<"tuning", b, 1>>
Mode(n) == <<"mode", "source", n>>
Gain(b, n) == <<"gain", b, n>>

(* Only an FMComms4 has a transceiver with one channel; the blocks of a    *)
(* board with one transceiver do not look for a second.                    *)
Init ==
  /\ board \in Boards
  /\ IF board.family = "fmcomms5" THEN board.channels = 2 ELSE ~board.second
  /\ attr = [p \in Phys |-> [name \in Names |-> IF name[1] = "mode" THEN "auto" ELSE 0]]
  /\ fir = [p \in Phys |-> NoFile] /\ synced = FALSE
  /\ samplerate = [b \in Blocks |-> 0]
  /\ made = [b \in Blocks |-> FALSE]
  /\ todo = [b \in Blocks |-> <<>>] /\ config = [b \in Blocks |-> NoConfig]
  /\ outcome = [b \in Blocks |-> "none"]
  /\ refused = [b \in Blocks |-> FALSE] /\ alone = [b \in Blocks |-> FALSE]
  /\ failures = 0

-----------------------------------------------------------------------------
(* What a call does: the code's lists of parameters, and what follows.     *)

Param(p, name, value) == <<[op |-> "write", phy |-> p, name |-> name, value |-> value]>>
Action(op, p, value) == <<[op |-> op, phy |-> p, name |-> <<op>>, value |-> value]>>

(* Mutant: a filter file leaves the automatic filter on. *)
AutoFilterWins(c) == board.family = "fmcomms2" /\ c.auto_filter

(* fmcomms2: a filter file switches the automatic filter off.              *)
UsesAutoFilter(c) == board.family = "fmcomms2" /\ c.auto_filter /\ c.filter = NoFile

RateParam(p, c) == IF UsesAutoFilter(c) THEN <<>> ELSE Param(p, Rate, c.rate)

(* Mutant: the gain comes before the mode. *)
GainThenMode(p, c, n) == Param(p, Gain("source", n), c.id) \o Param(p, Mode(n), c.mode)

(* fmcomms2 leaves the gain alone unless the mode is manual.               *)
ModeThenGain(p, c, n) ==
  Param(p, Mode(n), c.mode) \o
  IF board.family = "fmcomms5" \/ c.mode = "manual"
  THEN Param(p, Gain("source", n), c.id) ELSE <<>>

Attenuation(p, c, n) == Param(p, Gain("sink", n), -c.id)

ForChannel(b, p, c, n) ==
  IF n \notin Channels THEN <<>>
  ELSE IF b = "source" THEN ModeThenGain(p, c, n) ELSE Attenuation(p, c, n)

Params(b, p, c) ==
  Param(p, Tuning(b), c.id) \o RateParam(p, c) \o ForChannel(b, p, c, 1) \o ForChannel(b, p, c, 2)

LoadFilter(p, c) == IF c.filter = NoFile THEN <<>> ELSE Action("fir", p, c.filter)

SetParams(b, c) ==
  IF board.family = "fmcomms2"
  THEN Params(b, "phy", c) \o
       (IF UsesAutoFilter(c) THEN Action("bb_rate", "phy", c.rate) ELSE LoadFilter("phy", c))
  ELSE Params(b, "phy", c) \o Params(b, "phy2", c) \o Action("sync", "phy", c.rate)

(* fmcomms5: only the constructor loads a filter.                          *)
Construct(b, c) ==
  SetParams(b, c) \o
  IF board.family = "fmcomms5" THEN LoadFilter("phy", c) \o LoadFilter("phy2", c) ELSE <<>>

-----------------------------------------------------------------------------
Other(b) == CHOOSE other \in Blocks : other # b

HasTransceivers == board.family = "fmcomms5" => board.second

(* The constructor of an fmcomms5 block throws before it has configured    *)
(* anything (and does so again when the application tries again).          *)
PhyMissing(b) ==
  /\ outcome[b] \in {"none", "missing"} /\ ~HasTransceivers
  /\ outcome' = [outcome EXCEPT ![b] = "missing"]
  /\ UNCHANGED <<board, device, samplerate, made, todo, config, refused, alone, failures>>

(* The application makes a block, or calls set_params(), which has no      *)
(* filter argument in an fmcomms5 block.                                   *)
Begin(b, c) ==
  /\ outcome[b] # "called" /\ HasTransceivers
  /\ outcome' = [outcome EXCEPT ![b] = "called"]
  /\ todo' = [todo EXCEPT ![b] = IF made[b] THEN SetParams(b, c) ELSE Construct(b, c)]
  /\ config' = [config EXCEPT ![b] =
       IF made[b] /\ board.family = "fmcomms5" THEN [c EXCEPT !.filter = NoFile] ELSE c]
  /\ samplerate' = IF made[b] THEN samplerate ELSE [samplerate EXCEPT ![b] = 0]
  /\ refused' = [refused EXCEPT ![b] = FALSE]
  /\ alone' = [alone EXCEPT ![b] = outcome[Other(b)] # "called", ![Other(b)] = FALSE]
  /\ UNCHANGED <<board, device, made, failures>>

Step(b) == Head(todo[b])
Doing(b, op) == todo[b] # <<>> /\ Step(b).op = op
Done(b) == todo' = [todo EXCEPT ![b] = Tail(@)]
Fails == failures < MaxRefused /\ failures' = failures + 1

Set(p, name, value) ==
  /\ attr' = [attr EXCEPT ![p][name] = value]
  /\ synced' = (synced /\ (name = Rate => attr[p][Rate] = value))

(* The driver takes a receive gain only in the manual mode.                *)
Takes(p, name) ==
  name[1] = "gain" /\ name[2] = "source" => attr[p][Mode(name[3])] = "manual"

Write(b) ==
  /\ Doing(b, "write") /\ Done(b)
  /\ IF Takes(Step(b).phy, Step(b).name)
     THEN Set(Step(b).phy, Step(b).name, Step(b).value)
     ELSE UNCHANGED <<attr, synced>>
  /\ UNCHANGED <<board, fir, samplerate, made, config, outcome, refused, alone, failures>>

(* A refused write is logged, and the next parameter is written.           *)
WriteRefused(b) ==
  /\ Doing(b, "write") /\ Done(b) /\ Fails
  /\ refused' = [refused EXCEPT ![b] = TRUE]
  /\ UNCHANGED <<board, device, samplerate, made, config, outcome, alone>>

(* ad9361_set_bb_rate() sets the rate with a filter of its own.            *)
SetBbRate(b) ==
  /\ Doing(b, "bb_rate") /\ Done(b)
  /\ Set(Step(b).phy, Rate, Step(b).value)
  /\ fir' = [fir EXCEPT ![Step(b).phy] = "auto"]
  /\ UNCHANGED <<board, samplerate, made, config, outcome, refused, alone, failures>>

LoadFirFilter(b) ==
  /\ Doing(b, "fir") /\ Step(b).value \in Files /\ Done(b)
  /\ fir' = [fir EXCEPT ![Step(b).phy] = Step(b).value]
  /\ UNCHANGED <<board, attr, synced, samplerate, made, config, outcome, refused, alone, failures>>

(* Mutant: only the first call synchronises. *)
NeverSynced(b, rate) == samplerate[b] = 0

MustSync(b, rate) == samplerate[b] # rate

(* The result of ad9361_fmcomms5_multichip_sync() is not looked at.        *)
Sync(b) ==
  /\ Doing(b, "sync") /\ Done(b)
  /\ \/ synced' = (synced \/ MustSync(b, Step(b).value)) /\ UNCHANGED failures
     \/ MustSync(b, Step(b).value) /\ Fails /\ UNCHANGED synced
  /\ samplerate' = [samplerate EXCEPT ![b] = Step(b).value]
  /\ UNCHANGED <<board, attr, fir, made, config, outcome, refused, alone>>

(* A file is missing or incompatible, or the device fails.                 *)
Throw(b) ==
  /\ \/ Doing(b, "fir") /\ Step(b).value \notin Files /\ UNCHANGED failures
     \/ (Doing(b, "fir") \/ Doing(b, "bb_rate")) /\ Fails
  /\ todo' = [todo EXCEPT ![b] = <<>>]
  /\ outcome' = [outcome EXCEPT ![b] = "thrown"]
  /\ UNCHANGED <<board, device, samplerate, made, config, refused, alone>>

Return(b) ==
  /\ outcome[b] = "called" /\ todo[b] = <<>>
  /\ outcome' = [outcome EXCEPT ![b] = "returned"]
  /\ made' = [made EXCEPT ![b] = TRUE]
  /\ UNCHANGED <<board, device, samplerate, todo, config, refused, alone, failures>>

Next ==
  \E b \in Blocks :
    \/ (\E c \in Configs : Begin(b, c)) \/ PhyMissing(b)
    \/ Write(b) \/ WriteRefused(b)
    \/ SetBbRate(b) \/ LoadFirFilter(b) \/ Sync(b)
    \/ Throw(b) \/ Return(b)

Spec == Init /\ [][Next]_vars

-----------------------------------------------------------------------------
(* The transceivers a call configures.                                     *)
Configured == IF board.family = "fmcomms5" THEN Phys ELSE {"phy"}
Ended(b) == outcome[b] \in {"returned", "thrown"}

(* When a call has ended, even by an exception, each transceiver has the   *)
(* tuning, the modes and the gains it was asked for, whatever the other    *)
(* block does at the same time, and the rate, if the other block did       *)
(* nothing and the failure was not of the rate: the code writes the mode   *)
(* of a channel before its gain, and on every transceiver of the board.    *)
GainAsAsked(b, p, n) ==
  IF b = "sink" THEN attr[p][Gain(b, n)] = -config[b].id
  ELSE /\ attr[p][Mode(n)] = config[b].mode
       /\ config[b].mode = "manual" => attr[p][Gain(b, n)] = config[b].id

ReachesConfig ==
  \A b \in Blocks : Ended(b) /\ ~refused[b] =>
    \A p \in Configured :
      /\ attr[p][Tuning(b)] = config[b].id
      /\ \A n \in Channels : GainAsAsked(b, p, n)
      /\ alone[b] /\ (UsesAutoFilter(config[b]) => outcome[b] = "returned") =>
           attr[p][Rate] = config[b].rate

(* A call that returns has put the filter it was asked for in every        *)
(* transceiver it configures: a file goes before the automatic filter, and *)
(* a filter that cannot be loaded is an exception, never a silent default. *)
FilterOrThrow ==
  \A b \in Blocks : outcome[b] = "returned" /\ alone[b] =>
    \A p \in Configured :
      /\ config[b].filter # NoFile => fir[p] = config[b].filter
      /\ UsesAutoFilter(config[b]) => fir[p] = "auto"

(* The two transceivers of an FMComms5 are synchronised at the rate that   *)
(* the blocks were last asked for, when they were asked for the same: each *)
(* block skips the synchronisation by a rate of its own, which says        *)
(* nothing of what the other did to the shared clock meanwhile.            *)
Agree(rate) ==
  /\ \E b \in Blocks : Ended(b)
  /\ \A b \in Blocks : outcome[b] # "called" /\ (Ended(b) => config[b].rate = rate)

ChipsInSync ==
  board.family = "fmcomms5" /\ failures = 0 =>
    \A c \in Configs : Agree(c.rate) => synced /\ \A p \in Phys : attr[p][Rate] = c.rate
=============================================================================
