--------------------------- MODULE SharedContexts ---------------------------
(***************************************************************************)
(* What the registry of contexts promises the blocks that use it: a block  *)
(* joins the context that is open to its URI, and opens one only when none *)
(* is; a context is closed by the last block that leaves it, in the same   *)
(* step, and by nothing else.  A block that is forgotten instead of        *)
(* leaving keeps the context open for good.                                *)
(***************************************************************************)
EXTENDS Naturals

CONSTANTS Blocks, UriOf, Contexts, Null

VARIABLES
  open,         \* the URI a context is open to, or Null
  holder,       \* the context each block holds, or Null
  leaked        \* the blocks that were forgotten, by their context

vars == <<open, holder, leaked>>

Init ==
  /\ open = [c \in Contexts |-> Null]
  /\ holder = [b \in Blocks |-> Null]
  /\ leaked = [c \in Contexts |-> 0]

OpenTo(u) == {c \in Contexts : open[c] = u}
HeldWith(b) == {other \in Blocks \ {b} : holder[other] = holder[b]}

Join(b, c) ==
  /\ holder[b] = Null
  /\ \/ c \in OpenTo(UriOf[b]) /\ UNCHANGED open
     \/ /\ OpenTo(UriOf[b]) = {} /\ open[c] = Null
        /\ open' = [open EXCEPT ![c] = UriOf[b]]
  /\ holder' = [holder EXCEPT ![b] = c]
  /\ UNCHANGED leaked

IsLastToLeave(b) == HeldWith(b) = {} /\ leaked[holder[b]] = 0

Leave(b) ==
  /\ holder[b] # Null
  /\ open' = IF IsLastToLeave(b) THEN [open EXCEPT ![holder[b]] = Null] ELSE open
  /\ holder' = [holder EXCEPT ![b] = Null]
  /\ UNCHANGED leaked

Forget(b) ==
  /\ holder[b] # Null
  /\ leaked' = [leaked EXCEPT ![holder[b]] = @ + 1]
  /\ holder' = [holder EXCEPT ![b] = Null]
  /\ UNCHANGED open

Next == \E b \in Blocks : Leave(b) \/ Forget(b) \/ \E c \in Contexts : Join(b, c)

Spec == Init /\ [][Next]_vars
=============================================================================
