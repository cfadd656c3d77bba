------------------------------ MODULE AttrSource ------------------------------
(***************************************************************************)
(* gr::iio::attr_source_impl: every call of work() reads an attribute or a *)
(* register of the device samples_per_update times, sleeping before each   *)
(* read, and returns that many items.                                      *)
(*                                                                         *)
(* The attribute has a number, which changes while work() runs.  A failed  *)
(* read is only printed: the item is then Junk, what the output memory or  *)
(* an uninitialised local held.                                            *)
(***************************************************************************)
EXTENDS Integers

CONSTANTS
  Makes,              \* the <<attr_type, data_type>> a block can be made with
  Limit,              \* the largest number a float and an int can hold
  Floats,             \* the numbers that a float holds exactly
  samples_per_update,
  MaxOutput,          \* bound: largest noutput_items the scheduler offers
  MaxFailures         \* bound: failed reads

(* What the constants must be. *)
Parameters ==
  /\ Makes \subseteq (0..3) \X (0..4)
  /\ Limit \in [{"float", "int"} -> Nat]
  /\ Floats \subseteq 0..Limit["float"] /\ Limit["float"] \in Floats
  /\ samples_per_update \in Nat \ {0} /\ MaxOutput \in Nat /\ MaxFailures \in Nat

VARIABLES
  number,             \* the device: what a read returns
  attr_type, data_type,
  noutput_items,      \* argument of the work() call in progress
  sample,             \* items it has stored
  item,               \* the last of them
  pc,                 \* "idle" between calls, "work", or "ended"
  failures            \* reads that failed

block == <<attr_type, data_type, noutput_items, sample, item, pc, failures>>
vars == <<number, block>>

None == -2            \* no item yet
Junk == -1

Register == attr_type = 3

(* The types of the data_type argument, in its order.                      *)
DataType == <<"double", "float", "longlong", "int", "uint8">>[data_type + 1]

(* The pointer type through which work() stores an item.                   *)
StoreType == IF Register THEN "int" ELSE DataType

SizeOf == [double |-> 8, float |-> 4, longlong |-> 8, int |-> 4, uint8 |-> 1]

(* Mutant: a register item has the size of the data type, too.             *)
SizeOfDataType == SizeOf[DataType]

(* type_sizeof: the size of an item in the output signature.               *)
ItemSize == IF Register THEN SizeOf["int"] ELSE SizeOf[DataType]

TypeOK ==
  /\ number \in Nat
  /\ <<attr_type, data_type>> \in Makes
  /\ noutput_items \in 0..MaxOutput
  /\ sample \in 0..samples_per_update
  /\ item \in {None, Junk} \cup Nat
  /\ pc \in {"idle", "work", "ended"}
  /\ failures \in 0..MaxFailures

(* What the constructor leaves. *)
BlockInit ==
  /\ \E make \in Makes : attr_type = make[1] /\ data_type = make[2]
  /\ noutput_items = 0 /\ sample = 0 /\ item = None
  /\ pc = "idle" /\ failures = 0

Init == number \in Nat /\ BlockInit

-----------------------------------------------------------------------------
(* Mutant: no output multiple. *)
OffersAny(n) == n > 0

(* set_output_multiple(samples_per_update). *)
Offers(n) == n > 0 /\ n % samples_per_update = 0

WorkBegins(n) ==
  /\ pc = "idle" /\ Offers(n)
  /\ noutput_items' = n /\ sample' = 0 /\ pc' = "work"
  /\ UNCHANGED <<attr_type, data_type, item, failures>>

Sampling == pc = "work" /\ sample < samples_per_update

(* A float is read as a double, an int as a long long, a register as 32    *)
(* bits without a sign: lexical_cast to a type that not all of them fit.   *)
Cast == StoreType \in {"float", "int"}

(* Mutant: a cast that does not check. *)
AlwaysFits == TRUE

Fits == Cast => number <= Limit[StoreType]

Distance(a, b) == IF a < b THEN b - a ELSE a - b

(* What a float makes of the number n: the nearest float, either of two    *)
(* that are equally near.                                                  *)
Rounded(n) == {f \in Floats : \A g \in Floats : Distance(n, f) <= Distance(n, g)}

(* The item a number n becomes.  A float is rounded without a word; a bool *)
(* is cast to the character '0' or '1'; anything else is stored as it is.  *)
Converted(n) ==
  CASE StoreType = "float" -> Rounded(n)
    [] StoreType = "uint8" -> {IF n = 0 THEN 48 ELSE 49}
    [] OTHER               -> {n}

(* Mutant: the item of an earlier call is delivered again. *)
StoresOnce(i) ==
  /\ item' = IF item < 0 THEN i ELSE item
  /\ sample' = sample + 1
  /\ UNCHANGED <<attr_type, data_type, noutput_items, pc>>

Stores(i) ==
  /\ item' = i
  /\ sample' = sample + 1
  /\ UNCHANGED <<attr_type, data_type, noutput_items, pc>>

ReadItem ==
  /\ Sampling /\ Fits
  /\ \E i \in Converted(number) : Stores(i)
  /\ UNCHANGED failures

Fails == failures < MaxFailures /\ failures' = failures + 1

(* check() prints, and the item counts all the same. *)
ReadFails ==
  /\ Sampling /\ Fails
  /\ Stores(Junk)

(* The call is over, and its arguments and locals with it. *)
Ends ==
  /\ pc' = "ended" /\ noutput_items' = 0 /\ sample' = 0 /\ item' = None
  /\ UNCHANGED <<attr_type, data_type>>

(* lexical_cast throws: on a number too large, or after a failed read.     *)
(* Nothing catches it, and the block's thread ends; it ends as well when   *)
(* the flowgraph is stopped, which interrupts the sleep.                   *)
CastThrows ==
  /\ Sampling /\ Cast
  /\ (~Fits /\ UNCHANGED failures) \/ Fails
  /\ Ends

Interrupt ==
  /\ pc \in {"idle", "work"}
  /\ Ends
  /\ UNCHANGED failures

WorkReturns ==
  /\ pc = "work" /\ sample = samples_per_update
  /\ pc' = "idle"
  /\ UNCHANGED <<attr_type, data_type, noutput_items, sample, item, failures>>

Read == ReadItem \/ ReadFails \/ CastThrows

Block == (\E n \in 1..MaxOutput : WorkBegins(n)) \/ Read \/ WorkReturns \/ Interrupt

DeviceChanges(v) == number' = v /\ UNCHANGED block

Next == (Block /\ UNCHANGED number) \/ \E v \in Nat : DeviceChanges(v)

Spec == Init /\ [][Next]_vars

-----------------------------------------------------------------------------
(* type_sizeof(), work(), set_output_multiple(): the items are stored side *)
(* by side in the slots the scheduler set aside for them, never past the   *)
(* end of the output, and a call that returns has filled every byte of     *)
(* what it says it produced.                                               *)
FillsWhatItReturns ==
  /\ sample * SizeOf[StoreType] <= noutput_items * ItemSize
  /\ pc = "idle" => sample * SizeOf[StoreType] = sample * ItemSize
=============================================================================
