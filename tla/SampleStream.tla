---------------------------- MODULE SampleStream ----------------------------
(***************************************************************************)
(* What a capture block promises the flowgraph: while the stream is open,  *)
(* captures and deliveries alternate.  A capture begins only when nothing  *)
(* of the previous one is left, nothing is delivered while one is under    *)
(* way, and each delivery gives the flowgraph the next samples of the      *)
(* capture: none is given twice, and none is passed over.                  *)
(***************************************************************************)
EXTENDS Integers

CONSTANT Captures     \* the lengths a capture can have

VARIABLES
  open,               \* the stream runs
  capturing,          \* the device is filling the buffer
  left,               \* positions of the captured samples not yet delivered
  given               \* positions of the samples the last call delivered

vars == <<open, capturing, left, given>>

TypeOK ==
  /\ open \in BOOLEAN
  /\ capturing \in BOOLEAN
  /\ left \subseteq Nat
  /\ given \subseteq Nat

Init == ~open /\ ~capturing /\ left = {} /\ given = {}

Open ==
  /\ ~open /\ open'
  /\ ~capturing' /\ left' = {}
  /\ UNCHANGED given

Begin ==
  /\ open /\ ~capturing /\ left = {}
  /\ capturing'
  /\ UNCHANGED <<open, left, given>>

Complete(n) ==
  /\ open /\ capturing
  /\ ~capturing'
  /\ left' = 0..(n - 1)
  /\ UNCHANGED <<open, given>>

(* Deliver what is left up to position p, and nothing else. *)
Deliver(p) ==
  /\ open /\ ~capturing
  /\ given' = {s \in left : s <= p}
  /\ left' = left \ given'
  /\ UNCHANGED <<open, capturing>>

(* A call that delivers nothing loses nothing. *)
DeliverNothing ==
  /\ given' = {}
  /\ UNCHANGED <<open, capturing, left>>

(* The stream ends; what was captured and not delivered is dropped. *)
Close ==
  /\ open /\ ~open'
  /\ ~capturing' /\ left' = {}
  /\ UNCHANGED given

Next ==
  \/ Open \/ Begin \/ Close \/ DeliverNothing
  \/ \E n \in Captures : Complete(n)
  \/ \E p \in left : Deliver(p)

Spec == Init /\ [][Next]_vars
=============================================================================
