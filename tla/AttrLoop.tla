------------------------------- MODULE AttrLoop -------------------------------
(***************************************************************************)
(* The attribute path there and back: an attr_updater and an attr_sink, as *)
(* in AttrLink, and an attr_source that reads the same attribute.          *)
(*                                                                         *)
(* The attribute is 0 at first, and value v of the updater is the number   *)
(* v + 1.                                                                  *)
(***************************************************************************)
EXTENDS AttrLink

CONSTANTS Makes, Limit, Floats, samples_per_update, MaxOutput, MaxFailures

VARIABLES attr_type, data_type, noutput_items, sample, item, pc, failures

Source == INSTANCE AttrSource WITH number <- written[Attribute] + 1

ASSUME LoopAssumption == Source!Parameters

reader == <<attr_type, data_type, noutput_items, sample, item, pc, failures>>
loop == <<vars, reader>>

(* The variables of all three blocks. *)
LoopTypeOK == TypeOK /\ Source!TypeOK

LoopInit == Init /\ Source!BlockInit

LoopNext ==
  \/ Next /\ UNCHANGED reader
  \/ UNCHANGED vars /\ Source!Block

(* The threads run; nobody has to update, connect or delete anything, and  *)
(* publishing need not fail.  libiio returns from a read, and the          *)
(* flowgraph takes the items, so that the scheduler calls work() again.    *)
LoopFairness ==
  /\ WF_loop(/\ SenderChecks \/ SenderBuilds \/ SenderPublishes \/ SenderWakes
             /\ UNCHANGED reader)
  /\ WF_loop(Sink /\ UNCHANGED reader)
  /\ WF_loop(DelReturns /\ UNCHANGED reader)
  /\ WF_loop(/\ UNCHANGED vars
             /\ Source!WorkBegins(samples_per_update) \/ Source!Read \/ Source!WorkReturns)

LoopSpec == LoopInit /\ [][LoopNext]_loop /\ LoopFairness

-----------------------------------------------------------------------------
(* get_attribute_data(), get_register_data(): an item stands for a number  *)
(* no newer than the one the attribute has, and which the type of the item *)
(* can hold: it is that number, for a float the float nearest to it, for a *)
(* bool the character 0 or 1.  A failed read is all that makes it junk.    *)
ItemsWereGiven ==
  /\ item = Source!None => sample = 0
  /\ item = Source!Junk => failures > 0
  /\ item >= 0 /\ Source!StoreType = "uint8" =>
       item \in {48, 49} /\ (written[Attribute] = Never => item = 48)
  /\ item >= 0 /\ Source!StoreType \in {"double", "longlong", "int"} =>
       item <= written[Attribute] + 1 /\ (Source!Cast => item <= Limit[Source!StoreType])
  /\ item >= 0 /\ Source!StoreType = "float" =>
       \E n \in 0..(written[Attribute] + 1) : n <= Limit["float"] /\ item \in Source!Rounded(n)

(* type_sizeof(), work(), set_output_multiple().                           *)
FillsWhatItReturns == Source!FillsWhatItReturns

(* update_value() to work(): once the value stays the same and all threads *)
(* live, every item attr_source delivers is that value, for a float one    *)
(* that is nearest to it.                                                  *)
Shown(v) ==
  CASE Source!StoreType = "uint8" -> {49}
    [] Source!StoreType = "float" -> Source!Rounded(v + 1)
    [] OTHER                      -> {v + 1}

LastValueShows ==
  \A v \in 0..MaxValue :
    <>[](/\ value = v /\ connected /\ sender_pc # "ended" /\ sink_pc # "ended"
         /\ pc # "ended")
      => <>[](item \in Shown(v))
=============================================================================
