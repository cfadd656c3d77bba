--------------------------- MODULE AttrLoopProofs ---------------------------
(***************************************************************************)
(* What TLAPS proves of AttrLoop, for every attribute, every set of other  *)
(* keys and every bound: the attribute path never writes an older value    *)
(* after a newer one and is silent after __del__; an attr_source of any    *)
(* kind stays inside its slots and delivers what was given.                *)
(***************************************************************************)
EXTENDS AttrLoop, SequenceTheorems, TLAPS

USE LinkAssumption, LoopAssumption

-----------------------------------------------------------------------------
(* Types.  A message that waits has at least one entry if it is a          *)
(* dictionary, and so has what the sender is about to publish.             *)

NonEmpty ==
  /\ sender_pc = "publish" => message # <<>>
  /\ \A m \in DOMAIN queue : queue[m].dict => queue[m].entries # <<>>

LEMMA OthersAreMessages ==
  ASSUME NEW m \in OtherMessages
  PROVE  /\ m \in Message
         /\ m.dict => m.entries # <<>>
         /\ \A i \in DOMAIN m.entries : m.entries[i].key # Attribute
<1>1. CASE m = [dict |-> FALSE, entries |-> <<>>]
  BY <1>1 DEF Message
<1>2. CASE m \in [dict : {TRUE}, entries : TwoEntries]
  <2>1. PICK e \in TwoEntries : m = [dict |-> TRUE, entries |-> e]
    BY <1>2
  <2>2. PICK j \in OtherKeys, k \in OtherKeys :
          e = <<[key |-> j, value |-> OtherValue], [key |-> k, value |-> OtherValue]>>
    BY DEF TwoEntries
  <2>3. /\ [key |-> j, value |-> OtherValue] \in DictEntry
        /\ [key |-> k, value |-> OtherValue] \in DictEntry
    BY DEF DictEntry, Keys, OtherValue
  <2>4. /\ e \in Seq(DictEntry) /\ e # <<>>
        /\ \A i \in DOMAIN e : e[i].key \in OtherKeys
    BY <2>2, <2>3
  <2>5. m \in Message
    BY <2>1, <2>4 DEF Message
  <2> QED
    BY <2>1, <2>4, <2>5
<1> QED
  BY <1>1, <1>2 DEF OtherMessages

LEMMA PostKeepsType ==
  ASSUME TypeOK, NonEmpty, Room, NEW m \in Message, m.dict => m.entries # <<>>, Post(m)
  PROVE  /\ queue' \in Seq(Message) /\ Len(queue') <= MaxQueue
         /\ \A i \in DOMAIN queue' : queue'[i].dict => queue'[i].entries # <<>>
<1>1. CASE sink_pc = "ended"
  BY <1>1 DEF Post, TypeOK, NonEmpty
<1>2. CASE sink_pc # "ended"
  <2>1. queue' = Append(queue, m) /\ Len(queue) < MaxQueue
    BY <1>2 DEF Post, Room
  <2> QED
    BY <2>1 DEF TypeOK, NonEmpty
<1> QED
  BY <1>1, <1>2

LEMMA LinkTypeStep ==
  ASSUME TypeOK, NonEmpty, [Next]_vars
  PROVE  TypeOK' /\ NonEmpty'
<1> USE DEF updater, sink
<1>1. CASE UpdateValue
  BY <1>1 DEF TypeOK, NonEmpty, UpdateValue
<1>2. CASE Connect
  BY <1>2 DEF TypeOK, NonEmpty, Connect
<1>3. CASE Del \/ DelReturns
  BY <1>3 DEF TypeOK, NonEmpty, Del, StopRunning, DelReturns
<1>4. CASE SenderChecks \/ SenderWakes
  BY <1>4 DEF TypeOK, NonEmpty, SenderChecks, SenderWakes
<1>12. CASE PublishFails
  <2>1. message' = <<>> /\ message' \in Seq(DictEntry)
    BY <1>12 DEF PublishFails
  <2> QED
    BY <1>12, <2>1 DEF TypeOK, NonEmpty, PublishFails
<1>5. CASE SenderBuilds
  <2>1. [key |-> Attribute, value |-> value] \in DictEntry
    BY DEF TypeOK, DictEntry, Keys
  <2>2. message' \in Seq(DictEntry) /\ message' # <<>>
    BY <1>5, <2>1 DEF SenderBuilds, Build
  <2> QED
    BY <1>5, <2>2 DEF TypeOK, NonEmpty, SenderBuilds
<1>6. CASE SenderPublishes
  <2>3. message' = <<>> /\ message' \in Seq(DictEntry)
    BY <1>6 DEF SenderPublishes
  <2>1. CASE connected
    <3> DEFINE m == [dict |-> TRUE, entries |-> message]
    <3>1. m \in Message /\ m.entries # <<>> /\ Room /\ Post(m)
      BY <1>6, <2>1 DEF TypeOK, NonEmpty, SenderPublishes, Message
    <3>2. /\ queue' \in Seq(Message) /\ Len(queue') <= MaxQueue
          /\ \A i \in DOMAIN queue' : queue'[i].dict => queue'[i].entries # <<>>
      BY <3>1, PostKeepsType
    <3> QED
      BY <1>6, <2>3, <3>2 DEF TypeOK, NonEmpty, SenderPublishes
  <2>2. CASE ~connected
    BY <1>6, <2>2, <2>3 DEF TypeOK, NonEmpty, SenderPublishes
  <2> QED
    BY <2>1, <2>2
<1>7. ASSUME NEW m \in OtherMessages, OtherPosts(m)
      PROVE  TypeOK' /\ NonEmpty'
  <2>1. /\ queue' \in Seq(Message) /\ Len(queue') <= MaxQueue
        /\ \A i \in DOMAIN queue' : queue'[i].dict => queue'[i].entries # <<>>
    BY <1>7, OthersAreMessages, PostKeepsType DEF OtherPosts
  <2> QED
    BY <1>7, <2>1 DEF TypeOK, NonEmpty, OtherPosts
<1>8. CASE SinkTakes
  <2>1. /\ Head(queue) \in Message /\ Head(queue) = queue[1] /\ 1 \in DOMAIN queue
        /\ queue' \in Seq(Message) /\ Len(queue') <= MaxQueue
        /\ \A i \in DOMAIN queue' : i + 1 \in DOMAIN queue /\ queue'[i] = queue[i + 1]
    BY <1>8 DEF TypeOK, SinkTakes
  <2>2. NonEmpty'
    BY <1>8, <2>1 DEF NonEmpty, SinkTakes
  <2> QED
    BY <1>8, <2>1, <2>2 DEF TypeOK, NonEmpty, SinkTakes, Message
<1>9. CASE SinkWrites
  <2>1. Head(entries) \in DictEntry /\ Tail(entries) \in Seq(DictEntry)
    BY <1>9 DEF TypeOK, SinkWrites
  <2>2. written' \in [Keys -> {Never} \cup 0..MaxValue]
    BY <1>9, <2>1 DEF TypeOK, SinkWrites, DictEntry
  <2> QED
    BY <1>9, <2>1, <2>2 DEF TypeOK, NonEmpty, SinkWrites, NextEntry
<1>10. CASE SinkWriteFails
  BY <1>10 DEF TypeOK, NonEmpty, SinkWriteFails
<1>11. CASE UNCHANGED vars
  BY <1>11 DEF TypeOK, NonEmpty, vars
<1> QED
  BY <1>1, <1>2, <1>3, <1>4, <1>5, <1>6, <1>7, <1>8, <1>9, <1>10, <1>11, <1>12
  DEF Next, Sender, Sink

-----------------------------------------------------------------------------
(* The order of values on their way.  Vals(s) are the values that a        *)
(* sequence of entries holds for the attribute: the updater's dictionaries *)
(* hold one, those of other blocks none.                                   *)

Vals(s) == {s[i].value : i \in {j \in DOMAIN s : s[j].key = Attribute}}

UpTo(S, T) == \A u \in S, v \in T : u <= v

Had == {written[Attribute]}

InOrder ==
  /\ UpTo(Vals(entries), Vals(entries)) /\ UpTo(Had, Vals(entries))
  /\ \A m \in DOMAIN queue :
       /\ UpTo(Vals(queue[m].entries), Vals(queue[m].entries))
       /\ UpTo(Had, Vals(queue[m].entries))
       /\ UpTo(Vals(entries), Vals(queue[m].entries))
       /\ \A n \in DOMAIN queue :
            m < n => UpTo(Vals(queue[m].entries), Vals(queue[n].entries))

ToPublish == IF sender_pc = "publish" THEN Vals(message) ELSE {}

(* Everything on its way is no newer than what the updater holds next.     *)
Before(S) ==
  /\ UpTo(Had, S)
  /\ UpTo(Vals(entries), S)
  /\ \A m \in DOMAIN queue : UpTo(Vals(queue[m].entries), S)

UpdaterLast ==
  /\ Before({value}) /\ Before(ToPublish)
  /\ UpTo(ToPublish, {value}) /\ UpTo(ToPublish, ToPublish)

Order == InOrder /\ UpdaterLast

LEMMA OneVal ==
  ASSUME NEW v
  PROVE  Vals(<<[key |-> Attribute, value |-> v]>>) = {v}
BY DEF Vals

LEMMA NoVals ==
  ASSUME NEW m \in OtherMessages
  PROVE  Vals(m.entries) = {}
BY OthersAreMessages, Z3 DEF Vals, Keys

LEMMA TailVals ==
  ASSUME NEW s \in Seq(DictEntry), s # <<>>
  PROVE  /\ Vals(Tail(s)) \subseteq Vals(s)
         /\ Head(s).key = Attribute => Head(s).value \in Vals(s)
BY DEF Vals

LEMMA ValsAreInts ==
  ASSUME NEW s \in Seq(DictEntry)
  PROVE  Vals(s) \subseteq Int
<1>1. \A j \in DOMAIN s : s[j] \in DictEntry
  OBVIOUS
<1> QED
  BY <1>1 DEF Vals, DictEntry

LEMMA ValuesAreInts ==
  ASSUME TypeOK
  PROVE  /\ Had \subseteq Int /\ Vals(entries) \subseteq Int /\ Vals(message) \subseteq Int
         /\ value \in Int
         /\ \A m \in DOMAIN queue : Vals(queue[m].entries) \subseteq Int
<1>1. written[Attribute] \in Int
  BY DEF TypeOK, Keys, Never
<1>2. \A m \in DOMAIN queue : queue[m].entries \in Seq(DictEntry)
  <2>1. \A m \in DOMAIN queue : queue[m] \in Message
    BY DEF TypeOK
  <2> QED
    BY <2>1 DEF Message
<1> QED
  BY <1>1, <1>2, ValsAreInts DEF TypeOK, Had

(* A step that only removes what is on its way, or writes it.              *)
LEMMA ShrinkKeepsOrder ==
  ASSUME TypeOK, Order, TypeOK', UNCHANGED queue,
         Vals(entries)' \subseteq Vals(entries), Had' \subseteq Had \cup Vals(entries),
         ToPublish' \subseteq ToPublish, value' >= value
  PROVE  Order'
<1> USE ValuesAreInts DEF UpTo
<1>1. InOrder'
  BY DEF Order, InOrder
<1>2. value' \in Int
  BY DEF TypeOK
<1>3. Before({value})'
  BY <1>2 DEF Order, UpdaterLast, Before
<1>4. Before(ToPublish)'
  BY DEF Order, UpdaterLast, Before
<1>5. UpTo(ToPublish, {value})' /\ UpTo(ToPublish, ToPublish)'
  <2>1. ToPublish \subseteq Int
    BY DEF ToPublish
  <2> QED
    BY <1>2, <2>1 DEF Order, UpdaterLast
<1> QED
  BY <1>1, <1>3, <1>4, <1>5 DEF Order, UpdaterLast

(* A message that is posted goes behind everything on its way.             *)
LEMMA PostKeepsOrder ==
  ASSUME TypeOK, Order, NEW m \in Message, Post(m), UNCHANGED <<entries, written, value>>,
         Before(Vals(m.entries)), UpTo(Vals(m.entries), Vals(m.entries)),
         UpTo(Vals(m.entries), {value}), UpTo(Vals(m.entries), ToPublish'),
         ToPublish' \subseteq ToPublish
  PROVE  Order'
<1> USE DEF UpTo
<1>1. CASE queue' = queue
  <2>1. Vals(entries)' = Vals(entries) /\ Had' = Had
    BY DEF Vals, Had
  <2> QED
    BY <1>1, <2>1 DEF Order, InOrder, UpdaterLast, Before
<1>2. CASE queue' = Append(queue, m)
  <2>1. Vals(entries)' = Vals(entries) /\ Had' = Had
    BY DEF Vals, Had
  <2>2. /\ DOMAIN queue' = 1..(Len(queue) + 1) /\ DOMAIN queue = 1..Len(queue) /\ Len(queue) \in Nat
        /\ \A n \in DOMAIN queue : queue'[n] = queue[n]
        /\ queue'[Len(queue) + 1] = m
    BY <1>2 DEF TypeOK
  <2>3. ASSUME NEW n \in DOMAIN queue' PROVE n \in DOMAIN queue \/ n = Len(queue) + 1
    BY <2>2
  <2>4. InOrder'
    <3>1. UpTo(Vals(entries), Vals(entries))' /\ UpTo(Had, Vals(entries))'
      BY <2>1 DEF Order, InOrder
    <3>2. ASSUME NEW n \in DOMAIN queue'
          PROVE  /\ UpTo(Vals(queue'[n].entries), Vals(queue'[n].entries))
                 /\ UpTo(Had', Vals(queue'[n].entries))
                 /\ UpTo(Vals(entries'), Vals(queue'[n].entries))
      BY <2>1, <2>2, <2>3 DEF Order, InOrder, Before
    <3>3. ASSUME NEW k \in DOMAIN queue', NEW n \in DOMAIN queue', k < n
          PROVE  UpTo(Vals(queue'[k].entries), Vals(queue'[n].entries))
      <4>1. CASE n \in DOMAIN queue
        <5>1. k \in DOMAIN queue
          BY <2>2, <2>3, <3>3, <4>1
        <5> QED
          BY <2>2, <3>3, <4>1, <5>1 DEF Order, InOrder
      <4>2. CASE n = Len(queue) + 1
        <5>1. k \in DOMAIN queue
          BY <2>2, <2>3, <3>3, <4>2
        <5> QED
          BY <2>2, <4>2, <5>1 DEF Before
      <4> QED
        BY <2>3, <4>1, <4>2
    <3> QED
      BY <3>1, <3>2, <3>3 DEF InOrder
  <2>5. UpdaterLast'
    BY <2>1, <2>2, <2>3 DEF Order, UpdaterLast, Before
  <2> QED
    BY <2>4, <2>5 DEF Order
<1> QED
  BY <1>1, <1>2 DEF Post

(* The handler takes the first message, when it holds no entries.          *)
LEMMA TakeKeepsOrder ==
  ASSUME TypeOK, NonEmpty, Order, SinkTakes
  PROVE  Order'
<1> DEFINE first == Vals(queue[1].entries)
<1>1. /\ DOMAIN queue = 1..Len(queue) /\ Len(queue) \in Nat \ {0}
      /\ Head(queue) = queue[1] /\ 1 \in DOMAIN queue
      /\ \A n \in DOMAIN queue' : n \in Nat \ {0} /\ n + 1 \in DOMAIN queue /\ queue'[n] = queue[n + 1]
  BY DEF SinkTakes, TypeOK
<1>2. /\ Had' = Had /\ value' = value /\ ToPublish' = ToPublish
  BY DEF SinkTakes, Had, ToPublish, updater, Vals
<1>3. Vals(entries') = first \/ Vals(entries') = Vals(entries)
  BY <1>1 DEF SinkTakes
<1> HIDE DEF first
<1>4. /\ UpTo(first, first) /\ UpTo(Had, first)
      /\ UpTo(first, {value}) /\ UpTo(first, ToPublish)
      /\ \A n \in DOMAIN queue' : UpTo(first, Vals(queue'[n].entries))
  <2>1. UpTo(first, first) /\ UpTo(Had, first)
    BY <1>1 DEF Order, InOrder, first
  <2>2. UpTo(first, {value}) /\ UpTo(first, ToPublish)
    BY <1>1 DEF Order, UpdaterLast, Before, first
  <2>3. ASSUME NEW n \in DOMAIN queue'
        PROVE  UpTo(first, Vals(queue'[n].entries))
    <3>1. 1 < n + 1 /\ n + 1 \in DOMAIN queue /\ queue'[n] = queue[n + 1]
      BY <1>1
    <3>2. UpTo(first, Vals(queue[n + 1].entries))
      BY <1>1, <3>1 DEF Order, InOrder, first
    <3> QED
      BY <3>1, <3>2
  <2> QED
    BY <2>1, <2>2, <2>3
<1>5. InOrder'
  <2>1. /\ UpTo(Vals(entries'), Vals(entries')) /\ UpTo(Had', Vals(entries'))
    BY <1>2, <1>3, <1>4 DEF Order, InOrder
  <2>2. ASSUME NEW n \in DOMAIN queue'
        PROVE  /\ UpTo(Vals(queue'[n].entries), Vals(queue'[n].entries))
               /\ UpTo(Had', Vals(queue'[n].entries))
               /\ UpTo(Vals(entries'), Vals(queue'[n].entries))
    BY <1>1, <1>2, <1>3, <1>4 DEF Order, InOrder
  <2>3. ASSUME NEW k \in DOMAIN queue', NEW n \in DOMAIN queue', k < n
        PROVE  UpTo(Vals(queue'[k].entries), Vals(queue'[n].entries))
    <3>1. k + 1 < n + 1
      BY <1>1, <2>3
    <3> QED
      BY <1>1, <3>1 DEF Order, InOrder
  <2> QED
    BY <2>1, <2>2, <2>3 DEF InOrder
<1>6. UpdaterLast'
  <2>1. ASSUME NEW S, Before(S), UpTo(first, S)
        PROVE  /\ UpTo(Had', S) /\ UpTo(Vals(entries'), S)
               /\ \A n \in DOMAIN queue' : UpTo(Vals(queue'[n].entries), S)
    BY <1>1, <1>2, <1>3, <2>1 DEF Before
  <2> QED
    BY <1>2, <1>4, <2>1 DEF Order, UpdaterLast, Before
<1> QED
  BY <1>5, <1>6 DEF Order

LEMMA OrderStep ==
  ASSUME TypeOK, NonEmpty, Order, TypeOK', [Next]_vars
  PROVE  Order'
<1> USE DEF updater, sink
<1>1. CASE UpdateValue \/ Connect \/ Del \/ DelReturns \/ SenderChecks \/ PublishFails \/ SenderWakes
  <2>1. /\ UNCHANGED <<queue, entries, written>> /\ value' >= value
        /\ ToPublish' \subseteq ToPublish
    BY <1>1 DEF UpdateValue, Connect, Del, DelReturns, SenderChecks, PublishFails, SenderWakes,
                ToPublish, TypeOK
  <2>2. Vals(entries)' \subseteq Vals(entries) /\ Had' \subseteq Had
    BY <2>1 DEF Vals, Had
  <2> QED
    BY <2>1, <2>2, ShrinkKeepsOrder
<1>2. CASE SenderBuilds
  <2>1. /\ UNCHANGED <<queue, entries, written, value>>
        /\ ToPublish' = {value}
    BY <1>2, OneVal DEF SenderBuilds, Build, ToPublish
  <2>2. Vals(entries)' = Vals(entries) /\ Had' = Had /\ UpTo({value}, {value})
    BY <2>1 DEF Vals, Had, UpTo, TypeOK
  <2>3. InOrder'
    BY <2>1, <2>2 DEF Order, InOrder
  <2>4. UpdaterLast'
    BY <2>1, <2>2 DEF Order, UpdaterLast, Before
  <2> QED
    BY <2>3, <2>4 DEF Order
<1>3. CASE SenderPublishes
  <2>1. /\ UNCHANGED <<entries, written, value>>
        /\ ToPublish' = {} /\ ToPublish = Vals(message)
    BY <1>3 DEF SenderPublishes, ToPublish
  <2>2. CASE connected
    <3> DEFINE m == [dict |-> TRUE, entries |-> message]
    <3>1. m \in Message /\ m.entries = message /\ Post(m)
      BY <1>3, <2>2 DEF SenderPublishes, TypeOK, Message
    <3>2. /\ Before(Vals(m.entries)) /\ UpTo(Vals(m.entries), Vals(m.entries))
          /\ UpTo(Vals(m.entries), {value}) /\ UpTo(Vals(m.entries), ToPublish')
      BY <2>1, <3>1 DEF Order, UpdaterLast, UpTo
    <3> HIDE DEF m
    <3> QED
      BY <2>1, <3>1, <3>2, PostKeepsOrder
  <2>3. CASE ~connected
    <3>1. UNCHANGED queue
      BY <1>3, <2>3 DEF SenderPublishes
    <3>2. Vals(entries)' \subseteq Vals(entries) /\ Had' \subseteq Had /\ value' >= value
      BY <2>1 DEF Vals, Had, TypeOK
    <3> QED
      BY <2>1, <3>1, <3>2, ShrinkKeepsOrder
  <2> QED
    BY <2>2, <2>3
<1>4. ASSUME NEW m \in OtherMessages, OtherPosts(m)
      PROVE  Order'
  <2>1. m \in Message /\ Vals(m.entries) = {}
    BY OthersAreMessages, NoVals
  <2>2. Post(m) /\ UNCHANGED <<entries, written, value>> /\ ToPublish' = ToPublish
    BY <1>4 DEF OtherPosts, ToPublish, Vals
  <2> QED
    BY <2>1, <2>2, PostKeepsOrder DEF Before, UpTo
<1>5. CASE SinkTakes
  BY <1>5, TakeKeepsOrder
<1>6. CASE SinkWrites
  <2>1. entries \in Seq(DictEntry) /\ entries # <<>> /\ entries' = Tail(entries)
    BY <1>6 DEF SinkWrites, NextEntry, TypeOK
  <2>2. /\ Vals(entries') \subseteq Vals(entries)
        /\ Head(entries).key = Attribute => Head(entries).value \in Vals(entries)
    BY <2>1, TailVals
  <2>3. written'[Attribute] \in Had \cup Vals(entries)
    BY <1>6, <2>2 DEF SinkWrites, Had, TypeOK, Keys
  <2>4. UNCHANGED queue /\ value' >= value /\ ToPublish' = ToPublish
    BY <1>6 DEF SinkWrites, ToPublish, Vals, TypeOK
  <2>5. Vals(entries)' \subseteq Vals(entries) /\ Had' \subseteq Had \cup Vals(entries)
    BY <2>2, <2>3 DEF Had, Vals
  <2> QED
    BY <2>4, <2>5, ShrinkKeepsOrder
<1>7. CASE SinkWriteFails
  <2>1. /\ UNCHANGED queue /\ value' >= value /\ ToPublish' = ToPublish
        /\ Vals(entries)' = {} /\ Had' = Had
    BY <1>7 DEF SinkWriteFails, ToPublish, Vals, Had, TypeOK
  <2> QED
    BY <2>1, ShrinkKeepsOrder
<1>8. CASE UNCHANGED vars
  <2>1. /\ UNCHANGED queue /\ value' >= value /\ ToPublish' = ToPublish
        /\ Vals(entries)' = Vals(entries) /\ Had' = Had
    BY <1>8 DEF vars, ToPublish, Vals, Had, TypeOK
  <2> QED
    BY <2>1, ShrinkKeepsOrder
<1> QED
  BY <1>1, <1>2, <1>3, <1>4, <1>5, <1>6, <1>7, <1>8 DEF Next, Sender, Sink

-----------------------------------------------------------------------------
(* attr_source.  A call is offered room for all the items it stores.       *)

Room4Items ==
  /\ sample <= noutput_items
  /\ pc = "work" => samples_per_update <= noutput_items

LEMMA MultipleIsEnough ==
  ASSUME NEW n \in Nat, NEW m \in Nat \ {0}, n > 0, n % m = 0
  PROVE  m <= n
<1> SUFFICES ASSUME n < m PROVE FALSE
  OBVIOUS
<1>1. n % m = n
  OBVIOUS
<1> QED
  BY <1>1

LEMMA NumberIsNat ==
  ASSUME TypeOK
  PROVE  written[Attribute] + 1 \in Nat
BY DEF TypeOK, Keys, Never

LEMMA SourceStep ==
  ASSUME TypeOK, Source!TypeOK, Room4Items, Source!Block
  PROVE  /\ attr_type' = attr_type /\ data_type' = data_type
         /\ noutput_items' \in 0..MaxOutput /\ sample' \in 0..samples_per_update
         /\ item' \in {Source!None, Source!Junk} \cup Nat
         /\ pc' \in {"idle", "work", "ended"} /\ failures' \in 0..MaxFailures
         /\ Room4Items'
<1> USE DEF Source!TypeOK, Room4Items, Source!Parameters, Source!Stores, Source!Ends,
            Source!Sampling, Source!Fails
<1>1. ASSUME NEW n \in 1..MaxOutput, Source!WorkBegins(n)
      PROVE  /\ attr_type' = attr_type /\ data_type' = data_type
             /\ noutput_items' \in 0..MaxOutput /\ sample' \in 0..samples_per_update
             /\ item' = item /\ pc' = "work" /\ failures' = failures
             /\ Room4Items'
  <2>1. samples_per_update <= n
    BY <1>1, MultipleIsEnough DEF Source!WorkBegins, Source!Offers
  <2> QED
    BY <1>1, <2>1 DEF Source!WorkBegins
<1>2. CASE Source!ReadItem
  <2>1. PICK i \in Source!Converted(written[Attribute] + 1) : Source!Stores(i)
    BY <1>2 DEF Source!ReadItem
  <2>2. i \in Nat
    BY <2>1, NumberIsNat DEF Source!Converted, Source!Rounded
  <2> QED
    BY <1>2, <2>1, <2>2 DEF Source!ReadItem
<1>3. CASE Source!ReadFails
  BY <1>3 DEF Source!ReadFails
<1>4. CASE Source!CastThrows
  BY <1>4 DEF Source!CastThrows
<1>5. CASE Source!Interrupt
  BY <1>5 DEF Source!Interrupt
<1>6. CASE Source!WorkReturns
  BY <1>6 DEF Source!WorkReturns
<1> QED
  BY <1>1, <1>2, <1>3, <1>4, <1>5, <1>6 DEF Source!Block, Source!Read

LEMMA StoreTypes ==
  ASSUME Source!TypeOK
  PROVE  /\ Source!StoreType \in {"double", "float", "longlong", "int", "uint8"}
         /\ Source!ItemSize = Source!SizeOf[Source!StoreType]
         /\ Source!ItemSize \in Nat
<1>1. data_type \in 0..4
  BY DEF Source!TypeOK, Source!Parameters
<1>2. Source!DataType \in {"double", "float", "longlong", "int", "uint8"}
  BY <1>1 DEF Source!DataType
<1> QED
  BY <1>2 DEF Source!StoreType, Source!ItemSize, Source!SizeOf

LEMMA RoomIsEnough ==
  ASSUME Source!TypeOK, Room4Items
  PROVE  FillsWhatItReturns
<1> DEFINE size == Source!ItemSize
<1>1. size \in Nat /\ Source!SizeOf[Source!StoreType] = size
  BY StoreTypes
<1>2. sample \in Nat /\ noutput_items \in Nat /\ sample <= noutput_items
  BY DEF Source!TypeOK, Room4Items, Source!Parameters
<1> HIDE DEF size
<1>3. sample * size <= noutput_items * size
  BY <1>1, <1>2
<1> QED
  BY <1>1, <1>3 DEF FillsWhatItReturns, Source!FillsWhatItReturns, size

-----------------------------------------------------------------------------
(* Steps of the attribute path are steps of its actions.                   *)

(* Once __del__ has waited for the sender, it has ended.                   *)
Joined == del_pc = "returned" => sender_pc = "ended"

LEMMA JoinedStep ==
  ASSUME TypeOK, Joined, [Next]_vars
  PROVE  Joined'
<1> USE DEF updater, sink
<1>1. CASE \E m \in OtherMessages : OtherPosts(m)
  BY <1>1 DEF Joined, OtherPosts
<1>2. CASE Sender
  BY <1>2 DEF Joined, Sender, SenderChecks, SenderBuilds, SenderPublishes, PublishFails, SenderWakes
<1>3. CASE Sink
  BY <1>3 DEF Joined, Sink, SinkTakes, SinkWrites, SinkWriteFails
<1>4. CASE UpdateValue \/ Connect \/ Del \/ DelReturns
  BY <1>4 DEF Joined, UpdateValue, Connect, Del, DelReturns, SenderJoined
<1>5. CASE UNCHANGED vars
  BY <1>5 DEF Joined, vars
<1> QED
  BY <1>1, <1>2, <1>3, <1>4, <1>5 DEF Next

LEMMA StepNeverGoesBack ==
  ASSUME TypeOK, Order, [Next]_vars
  PROVE  written'[Attribute] >= written[Attribute]
<1> USE DEF updater, sink
<1>1. written[Attribute] \in Int
  BY ValuesAreInts DEF Had
<1>2. CASE SinkWrites
  <2>1. entries \in Seq(DictEntry) /\ entries # <<>>
    BY <1>2 DEF SinkWrites, TypeOK
  <2>2. Head(entries).key = Attribute => Head(entries).value >= written[Attribute]
    BY <1>1, <2>1, TailVals, ValuesAreInts DEF Order, InOrder, UpTo, Had
  <2> QED
    BY <1>1, <1>2, <2>2 DEF SinkWrites, TypeOK, Keys
<1>3. CASE UNCHANGED written
  BY <1>1, <1>3
<1> QED
  BY <1>2, <1>3 DEF Next, UpdateValue, Connect, Del, DelReturns, Sender, SenderChecks,
     SenderBuilds, SenderPublishes, PublishFails, SenderWakes, OtherPosts, Sink, SinkTakes,
     SinkWriteFails, vars

LEMMA StepQuietAfterDel ==
  ASSUME TypeOK, Joined, [Next]_vars, del_pc = "returned", Len(queue') > Len(queue)
  PROVE  others' # others
<1> USE DEF updater, sink
<1>1. CASE \E m \in OtherMessages : OtherPosts(m)
  BY <1>1 DEF OtherPosts, TypeOK
<1>2. CASE SinkTakes
  BY <1>2 DEF SinkTakes, TypeOK
<1>3. CASE UNCHANGED queue
  BY <1>3 DEF TypeOK
<1>4. CASE SenderPublishes
  BY <1>4 DEF Joined, SenderPublishes
<1> QED
  BY <1>1, <1>2, <1>3, <1>4 DEF Next, UpdateValue, Connect, Del, DelReturns, Sender,
     SenderChecks, SenderBuilds, PublishFails, SenderWakes, Sink, SinkWrites, SinkWriteFails, vars

-----------------------------------------------------------------------------
(* What attr_source has delivered stays given while the attribute path     *)
(* goes on, because that never goes back.                                  *)
LEMMA WriteKeepsItems ==
  ASSUME TypeOK, Source!TypeOK, Order, ItemsWereGiven, TypeOK', [Next]_vars, UNCHANGED reader
  PROVE  ItemsWereGiven'
<1>1. /\ written[Attribute] \in {Never} \cup Nat /\ written'[Attribute] \in {Never} \cup Nat
      /\ written'[Attribute] >= written[Attribute]
  BY StepNeverGoesBack DEF TypeOK, Keys
<1>2. /\ item' = item /\ failures' = failures /\ sample' = sample
      /\ Source!StoreType' = Source!StoreType /\ Source!Cast' = Source!Cast
  BY DEF reader, Source!StoreType, Source!Cast, Source!Register, Source!DataType
<1> QED
  BY <1>1, <1>2, StoreTypes DEF ItemsWereGiven, Source!None, Source!Junk, Never, Source!TypeOK

LEMMA ReadGivesItems ==
  ASSUME TypeOK, Source!TypeOK, ItemsWereGiven, Source!Block, UNCHANGED vars
  PROVE  ItemsWereGiven'
<1> DEFINE number == written[Attribute] + 1
<1>1. number \in Nat /\ (written[Attribute] = Never <=> number = 0) /\ written' = written
  BY NumberIsNat DEF Never, vars, sink, TypeOK, Keys
<1>2. attr_type' = attr_type /\ data_type' = data_type
  BY DEF Source!Block, Source!WorkBegins, Source!Read, Source!ReadItem, Source!ReadFails,
         Source!CastThrows, Source!Interrupt, Source!WorkReturns, Source!Stores, Source!Ends
<1>3. Source!StoreType' = Source!StoreType /\ Source!Cast' = Source!Cast
  BY <1>2 DEF Source!StoreType, Source!Cast, Source!Register, Source!DataType
<1>4. failures \in Nat /\ failures' \in Nat /\ failures' >= failures
  BY DEF Source!TypeOK, Source!Parameters, Source!Block, Source!WorkBegins, Source!Read,
         Source!ReadItem, Source!ReadFails, Source!CastThrows, Source!Interrupt,
         Source!WorkReturns, Source!Fails
<1>5. CASE Source!ReadItem
  <2>1. item' \in Source!Converted(number) /\ Source!Fits
    BY <1>5 DEF Source!ReadItem, Source!Stores
  <2> HIDE DEF number
  <2>2. CASE Source!StoreType = "uint8"
    <3>1. item' \in {48, 49} /\ (number = 0 => item' = 48)
      BY <2>1, <2>2 DEF Source!Converted
    <3> QED
      BY <1>1, <1>3, <2>2, <3>1 DEF ItemsWereGiven, Source!None, Source!Junk
  <2>3. CASE Source!StoreType = "float"
    <3>1. item' \in Source!Rounded(number) /\ number <= Limit["float"]
      BY <2>1, <2>3 DEF Source!Converted, Source!Fits, Source!Cast, number
    <3>2. item' \in Nat /\ item' >= 0 /\ number \in 0..(written'[Attribute] + 1)
      BY <1>1, <3>1 DEF Source!Rounded, Source!Parameters, number
    <3> QED
      BY <1>3, <2>3, <3>1, <3>2 DEF ItemsWereGiven, Source!None, Source!Junk
  <2>4. CASE Source!StoreType \in {"double", "longlong", "int"}
    <3>1. item' = number
      BY <2>1, <2>4 DEF Source!Converted
    <3>2. item' >= 0 /\ item' <= written'[Attribute] + 1
      BY <1>1, <3>1 DEF number
    <3>3. Source!Cast' => item' <= Limit[Source!StoreType']
      BY <1>3, <2>1, <3>1 DEF Source!Fits, number
    <3> QED
      BY <1>3, <2>4, <3>2, <3>3 DEF ItemsWereGiven, Source!None, Source!Junk
  <2> QED
    BY <2>2, <2>3, <2>4, StoreTypes
<1>6. CASE Source!ReadFails
  <2>1. item' = Source!Junk /\ failures' > 0
    BY <1>4, <1>6 DEF Source!ReadFails, Source!Stores, Source!Fails
  <2> QED
    BY <2>1 DEF ItemsWereGiven, Source!None, Source!Junk
<1>7. CASE item' = item /\ (item = Source!None => sample' = 0)
  <2>1. item' = item /\ written' = written /\ Source!StoreType' = Source!StoreType
    BY <1>1, <1>3, <1>7
  <2>2. /\ item = Source!None => sample' = 0
        /\ item = Source!Junk => failures' > 0
    BY <1>4, <1>7 DEF ItemsWereGiven
  <2>3. Source!Cast' <=> Source!Cast
    BY <2>1 DEF Source!Cast
  <2> QED
    BY <2>1, <2>2, <2>3 DEF ItemsWereGiven, Source!None, Source!Junk
<1>8. CASE Source!CastThrows \/ Source!Interrupt
  <2>1. item' = Source!None /\ sample' = 0
    BY <1>8 DEF Source!CastThrows, Source!Interrupt, Source!Ends
  <2> QED
    BY <2>1 DEF ItemsWereGiven, Source!None, Source!Junk
<1>10. CASE \E n \in 1..MaxOutput : Source!WorkBegins(n)
  BY <1>7, <1>10 DEF Source!WorkBegins
<1>9. CASE Source!WorkReturns
  BY <1>7, <1>9 DEF Source!WorkReturns, ItemsWereGiven
<1> QED
  BY <1>5, <1>6, <1>8, <1>9, <1>10 DEF Source!Block, Source!Read

-----------------------------------------------------------------------------
(* The inductive invariant. *)
LoopInv ==
  /\ LoopTypeOK /\ NonEmpty /\ Order /\ Joined
  /\ Room4Items /\ ItemsWereGiven

LEMMA LoopInvInit ==
  ASSUME LoopInit
  PROVE  LoopInv
<1> USE DEF LoopInit, Init, Source!BlockInit
<1>1. TypeOK /\ NonEmpty /\ Joined
  <2>1. Init /\ DOMAIN queue = {} /\ Len(queue) = 0
    OBVIOUS
  <2>2. /\ message \in Seq(DictEntry) /\ entries \in Seq(DictEntry) /\ queue \in Seq(Message)
    OBVIOUS
  <2>3. written \in [Keys -> {Never} \cup 0..MaxValue]
    OBVIOUS
  <2>4. /\ value \in 0..MaxValue /\ others \in 0..MaxOthers /\ Len(queue) <= MaxQueue
        /\ run \in BOOLEAN /\ connected \in BOOLEAN
    <3>1. value \in 0..MaxValue /\ others \in 0..MaxOthers /\ Len(queue) <= MaxQueue
      BY <2>1
    <3>2. run \in BOOLEAN /\ connected \in BOOLEAN
      BY <2>1, Zenon
    <3> QED
      BY <3>1, <3>2
  <2>5. NonEmpty /\ Joined
    BY <2>1 DEF NonEmpty, Joined
  <2> QED
    BY <2>1, <2>2, <2>3, <2>4, <2>5 DEF TypeOK
<1>2. Source!TypeOK
  BY <1>1, NumberIsNat DEF Source!TypeOK, Source!Parameters, Source!None
<1>3. Order
  BY DEF Order, InOrder, UpdaterLast, Before, ToPublish, UpTo, Vals, Had, Never, Keys
<1>4. Room4Items /\ ItemsWereGiven
  BY DEF Room4Items, ItemsWereGiven, Source!None, Source!Junk
<1> QED
  BY <1>1, <1>2, <1>3, <1>4 DEF LoopInv, LoopTypeOK

LEMMA LoopInvStep ==
  ASSUME LoopInv, [LoopNext]_loop
  PROVE  LoopInv'
<1> USE DEF LoopInv, LoopTypeOK
<1>1. CASE [Next]_vars /\ UNCHANGED reader
  <2>1. TypeOK' /\ NonEmpty'
    BY <1>1, LinkTypeStep
  <2>2. Order' /\ Joined'
    BY <1>1, <2>1, OrderStep, JoinedStep
  <2>3. Source!TypeOK' /\ Room4Items'
    <3>1. written'[Attribute] + 1 \in Nat
      BY <2>1 DEF TypeOK, Keys, Never
    <3>2. /\ attr_type' = attr_type /\ data_type' = data_type /\ noutput_items' = noutput_items
          /\ sample' = sample /\ item' = item /\ pc' = pc /\ failures' = failures
      BY <1>1 DEF reader
    <3> QED
      BY <3>1, <3>2 DEF Source!TypeOK, Room4Items
  <2>4. ItemsWereGiven'
    BY <1>1, <2>1, WriteKeepsItems
  <2> QED
    BY <2>1, <2>2, <2>3, <2>4
<1>2. CASE UNCHANGED vars /\ Source!Block
  <2>1. TypeOK' /\ NonEmpty' /\ Joined'
    BY <1>2, LinkTypeStep, JoinedStep
  <2>2. Order'
    BY <1>2, <2>1, OrderStep
  <2>3. written' = written
    BY <1>2 DEF vars, sink
  <2>4. Source!TypeOK' /\ Room4Items'
    BY <1>2, <2>3, SourceStep, NumberIsNat DEF Source!TypeOK
  <2>5. ItemsWereGiven'
    BY <1>2, ReadGivesItems
  <2> QED
    BY <2>1, <2>2, <2>4, <2>5
<1> QED
  BY <1>1, <1>2 DEF LoopNext, loop

THEOREM LoopInvariant == LoopSpec => []LoopInv
<1>1. LoopInit => LoopInv
  BY LoopInvInit
<1>2. LoopInv /\ [LoopNext]_loop => LoopInv'
  BY LoopInvStep
<1> QED
  BY <1>1, <1>2, PTL DEF LoopSpec

(* Everything has its type, for every attribute, bound and kind of block.  *)
THEOREM LoopTypes == LoopSpec => []LoopTypeOK
<1>1. LoopInv => LoopTypeOK
  BY DEF LoopInv
<1> QED
  BY <1>1, LoopInvariant, PTL

(* get_attribute_data(), get_register_data(): an item is a number no newer *)
(* than the attribute's that its type can hold, for a float the nearest to *)
(* such a number, or a read has failed.                                    *)
THEOREM ItemsAreGiven == LoopSpec => []ItemsWereGiven
<1>1. LoopInv => ItemsWereGiven
  BY DEF LoopInv
<1> QED
  BY <1>1, LoopInvariant, PTL

(* type_sizeof(), work(), set_output_multiple(): items stay in their slots.*)
THEOREM SlotsAreFilled == LoopSpec => []FillsWhatItReturns
<1>1. LoopInv => FillsWhatItReturns
  BY RoomIsEnough DEF LoopInv, LoopTypeOK
<1> QED
  BY <1>1, LoopInvariant, PTL

(* The steps of all three blocks are steps of the attribute path or leave  *)
(* it alone.                                                               *)
LEMMA LoopStepIsLinkStep ==
  ASSUME [LoopNext]_loop
  PROVE  [Next]_vars
BY DEF LoopNext, loop

(* sender(), write_attribute(): the device never goes back to an older     *)
(* value, however many messages and entries are on their way.              *)
THEOREM ValuesNeverGoBack == LoopSpec => NeverGoesBack
<1>1. LoopInv /\ [LoopNext]_loop => [written'[Attribute] >= written[Attribute]]_vars
  BY LoopStepIsLinkStep, StepNeverGoesBack DEF LoopInv, LoopTypeOK
<1> QED
  BY <1>1, LoopInvariant, PTL DEF LoopSpec, NeverGoesBack

(* __del__: after it has returned, only other blocks post messages.        *)
THEOREM DelSilences == LoopSpec => QuietAfterDel
<1>1. LoopInv /\ [LoopNext]_loop =>
        [del_pc = "returned" /\ Len(queue') > Len(queue) => others' # others]_vars
  BY LoopStepIsLinkStep, StepQuietAfterDel DEF LoopInv, LoopTypeOK
<1> QED
  BY <1>1, LoopInvariant, PTL DEF LoopSpec, QuietAfterDel
=============================================================================
