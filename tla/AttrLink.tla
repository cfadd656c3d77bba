------------------------------ MODULE AttrLink ------------------------------
(***************************************************************************)
(* The attribute message path: attr_updater publishes dictionaries from a  *)
(* thread of its own, GNU Radio queues them for attr_sink, and the message *)
(* handler of attr_sink writes their entries to the device one by one.     *)
(*                                                                         *)
(*   application   calls update_value(), connects the ports by starting    *)
(*                 the flowgraph, and may end the updater with __del__;    *)
(*   sender        the thread created by attr_updater.__init__;            *)
(*   sink thread   GNU Radio's thread of attr_sink;                        *)
(*   others        any other block that posts messages to attr_sink.       *)
(*                                                                         *)
(* The values given to update_value() are numbered in the order given.     *)
(***************************************************************************)
EXTENDS Integers, Sequences

CONSTANTS
  Attribute,      \* the attribute the updater is made for
  OtherKeys,      \* the keys of other messages
  Unparsed,       \* of those, the ones that are not numbers (registers only)
  Refused,        \* of those, the ones the device refuses
  MaxValue,       \* bound: values given to update_value()
  MaxQueue,       \* bound: messages waiting at attr_sink
  MaxOthers       \* bound: messages of other blocks

ASSUME LinkAssumption ==
  /\ Attribute \notin OtherKeys
  /\ Unparsed \subseteq OtherKeys /\ Refused \subseteq OtherKeys \ Unparsed
  /\ MaxValue \in Nat \ {0} /\ MaxQueue \in Nat \ {0} /\ MaxOthers \in Nat

VARIABLES
  value,          \* the updater's value
  run,            \* cleared by __del__
  sender_pc,      \* where the sender thread is
  message,        \* the dictionary it is about to publish
  del_pc,         \* where __del__ is: not called, in the join, returned
  connected,      \* the flowgraph has connected the ports
  queue,          \* messages waiting at attr_sink
  others,         \* messages posted by other blocks so far
  sink_pc,        \* attr_sink: between messages, in the handler, or ended
  entries,        \* entries of the message being handled, not yet written
  written         \* the device: the last value written to each attribute

updater == <<value, run, sender_pc, message, del_pc>>
sink == <<sink_pc, entries, written>>
vars == <<updater, connected, queue, others, sink>>

Keys == {Attribute} \cup OtherKeys
Never == -1
DictEntry == [key : Keys, value : 0..MaxValue]
Message == [dict : BOOLEAN, entries : Seq(DictEntry)]

(* The handler is between two entries exactly when some are left.          *)
TypeOK ==
  /\ value \in 0..MaxValue
  /\ run \in BOOLEAN
  /\ sender_pc \in {"check", "build", "publish", "sleep", "ended"}
  /\ message \in Seq(DictEntry)
  /\ del_pc \in {"none", "join", "returned"}
  /\ connected \in BOOLEAN
  /\ queue \in Seq(Message) /\ Len(queue) <= MaxQueue
  /\ others \in 0..MaxOthers
  /\ sink_pc \in {"idle", "handling", "ended"}
  /\ entries \in Seq(DictEntry)
  /\ sink_pc = "handling" <=> entries # <<>>
  /\ written \in [Keys -> {Never} \cup 0..MaxValue]

(* __init__ starts the sender before the flowgraph connects anything. *)
Init ==
  /\ value = 0 /\ run = TRUE /\ sender_pc = "check" /\ message = <<>>
  /\ del_pc = "none" /\ connected = FALSE /\ queue = <<>> /\ others = 0
  /\ sink_pc = "idle" /\ entries = <<>> /\ written = [k \in Keys |-> Never]

-----------------------------------------------------------------------------
(* The application. *)

(* GNU Radio appends what is posted to the queue of the subscriber, without *)
(* ever blocking the publisher; what nobody will take any more is not kept *)
(* here.                                                                   *)
Post(m) == queue' = IF sink_pc = "ended" THEN queue ELSE Append(queue, m)

Room == sink_pc = "ended" \/ Len(queue) < MaxQueue

(* Mutant: update_value() does not wait for the sender's next turn but     *)
(* publishes the new value itself.                                         *)
UpdateAndPublish ==
  /\ value < MaxValue /\ connected /\ Room
  /\ value' = value + 1
  /\ Post([dict |-> TRUE, entries |-> <<[key |-> Attribute, value |-> value + 1]>>])
  /\ UNCHANGED <<run, sender_pc, message, del_pc, connected, others, sink>>

UpdateValue ==
  /\ value < MaxValue
  /\ value' = value + 1
  /\ UNCHANGED <<run, sender_pc, message, del_pc, connected, queue, others, sink>>

Connect ==
  /\ ~connected
  /\ connected' = TRUE
  /\ UNCHANGED <<updater, queue, others, sink>>

(* Mutant: __del__ does not clear run. *)
LeaveRunning == UNCHANGED run

StopRunning == run' = FALSE

(* __del__: clear run under the lock, then join the sender. *)
Del ==
  /\ del_pc = "none"
  /\ StopRunning
  /\ del_pc' = "join"
  /\ UNCHANGED <<value, sender_pc, message, connected, queue, others, sink>>

(* Mutant: __del__ does not wait. *)
NotWaited == TRUE

SenderJoined == sender_pc = "ended"

DelReturns ==
  /\ del_pc = "join" /\ SenderJoined
  /\ del_pc' = "returned"
  /\ UNCHANGED <<value, run, sender_pc, message, connected, queue, others, sink>>

-----------------------------------------------------------------------------
(* The sender. *)

(* The test of run is made under the lock, which nobody holds for long. *)
SenderChecks ==
  /\ sender_pc = "check"
  /\ sender_pc' = IF run THEN "build" ELSE "ended"
  /\ UNCHANGED <<value, run, message, del_pc, connected, queue, others, sink>>

(* Mutant: the thread keeps the value it was started with. *)
BuildFirst == message' = <<[key |-> Attribute, value |-> 0]>>

Build == message' = <<[key |-> Attribute, value |-> value]>>

SenderBuilds ==
  /\ sender_pc = "build"
  /\ Build
  /\ sender_pc' = "publish"
  /\ UNCHANGED <<value, run, del_pc, connected, queue, others, sink>>

(* A message published before the ports are connected reaches nobody. *)
SenderPublishes ==
  /\ sender_pc = "publish"
  /\ IF connected
     THEN Room /\ Post([dict |-> TRUE, entries |-> message])
     ELSE UNCHANGED queue
  /\ sender_pc' = "sleep" /\ message' = <<>>
  /\ UNCHANGED <<value, run, del_pc, connected, others, sink>>

PublishFails ==
  /\ sender_pc = "publish"
  /\ sender_pc' = "ended" /\ message' = <<>>
  /\ UNCHANGED <<value, run, del_pc, connected, queue, others, sink>>

SenderWakes ==
  /\ sender_pc = "sleep"
  /\ sender_pc' = "check"
  /\ UNCHANGED <<value, run, message, del_pc, connected, queue, others, sink>>

-----------------------------------------------------------------------------
(* Other blocks: dictionaries of two entries, or something else.  (With    *)
(* the first one gone, a dictionary is one of a single entry.)             *)

OtherValue == 1

TwoEntries ==
  UNION {{<<[key |-> j, value |-> OtherValue], [key |-> k, value |-> OtherValue]>> :
            k \in OtherKeys \ {j}} : j \in OtherKeys}

OtherMessages ==
  {[dict |-> FALSE, entries |-> <<>>]} \cup [dict : {TRUE}, entries : TwoEntries]

OtherPosts(m) ==
  /\ connected /\ others < MaxOthers /\ Room
  /\ Post(m)
  /\ others' = others + 1
  /\ UNCHANGED <<updater, connected, sink>>

-----------------------------------------------------------------------------
(* attr_sink: write_attribute(). *)

(* An exception leaves the handler and ends the block's thread. *)
SinkTakes ==
  /\ sink_pc = "idle" /\ queue # <<>>
  /\ queue' = Tail(queue)
  /\ IF Head(queue).dict
     THEN sink_pc' = "handling" /\ entries' = Head(queue).entries
     ELSE sink_pc' = "ended" /\ UNCHANGED entries
  /\ UNCHANGED <<updater, connected, others, written>>

(* Mutant: an entry that is not a number ends the loop. *)
SkipRest ==
  LET left == IF Head(entries).key \in Unparsed THEN <<>> ELSE Tail(entries)
  IN  entries' = left /\ sink_pc' = IF left = <<>> THEN "idle" ELSE "handling"

(* Mutant: the loop goes once too often. *)
OneTooMany == entries' = Tail(entries) /\ UNCHANGED sink_pc

(* A register whose key or value is not a number is skipped. *)
NextEntry ==
  /\ entries' = Tail(entries)
  /\ sink_pc' = IF Tail(entries) = <<>> THEN "idle" ELSE "handling"

SinkWrites ==
  /\ sink_pc = "handling" /\ Head(entries).key \notin Refused
  /\ written' = IF Head(entries).key \in Unparsed
                THEN written
                ELSE [written EXCEPT ![Head(entries).key] = Head(entries).value]
  /\ NextEntry
  /\ UNCHANGED <<updater, connected, queue, others>>

(* "Attribute write failed": what precedes it in the message is written,   *)
(* what follows is not.                                                    *)
SinkWriteFails ==
  /\ sink_pc = "handling" /\ Head(entries).key \in Refused
  /\ sink_pc' = "ended" /\ entries' = <<>>
  /\ UNCHANGED <<updater, connected, queue, others, written>>

-----------------------------------------------------------------------------
Sender == SenderChecks \/ SenderBuilds \/ SenderPublishes \/ PublishFails \/ SenderWakes

Sink == SinkTakes \/ SinkWrites \/ SinkWriteFails

Next ==
  \/ UpdateValue \/ Connect \/ Del \/ DelReturns
  \/ Sender
  \/ \E m \in OtherMessages : OtherPosts(m)
  \/ Sink

Spec == Init /\ [][Next]_vars

-----------------------------------------------------------------------------
(* update_value(), sender(), write_attribute(): once the value stays the   *)
(* same, the device ends up with it, as long as both threads live.         *)
LastValueArrives ==
  \A v \in 0..MaxValue :
    <>[](value = v /\ connected /\ sender_pc # "ended" /\ sink_pc # "ended")
      => <>[](written[Attribute] = v)

(* The device never goes back to a value older than the one it has.        *)
NeverGoesBack == [][written'[Attribute] >= written[Attribute]]_vars

(* __del__: it returns, whatever the sender was doing.                     *)
DelEnds == del_pc = "join" ~> del_pc = "returned"

(* __del__: once it has returned, the updater posts nothing any more.      *)
QuietAfterDel ==
  [][del_pc = "returned" /\ Len(queue') > Len(queue) => others' # others]_vars

(* write_attribute(): a number in a message that another block has posted  *)
(* reaches the device, wherever in its dictionary it stands, what else the *)
(* dictionary holds and what waits before it, unless the handler throws.   *)
EntriesArrive ==
  \A k \in OtherKeys \ (Unparsed \cup Refused) :
    (\E m \in DOMAIN queue : \E i \in DOMAIN queue[m].entries : queue[m].entries[i].key = k)
      ~> (written[k] = OtherValue \/ sink_pc = "ended")
=============================================================================
