-------------------------- MODULE ContextRegistry --------------------------
(***************************************************************************)
(* The registry of libiio contexts: blocks that name the same URI share    *)
(* one context, counted in the static vector `contexts'.                   *)
(*                                                                         *)
(* get_context() finds or connects a context, without any lock; every      *)
(* constructor then looks up its device in it and may throw; the           *)
(* destructors of the source and sink blocks call remove_ctx_history(),    *)
(* under ctx_mutex, which closes the context of the last block.            *)
(* Each kind of block cleans up after itself in its own way:               *)
(*   source    device_source and the blocks derived from it                *)
(*   sink      device_sink and the blocks derived from it                  *)
(*   attr      attr_source and attr_sink                                   *)
(*   borrowed  a source or sink made with make_from(), on a context of the *)
(*             application's own                                           *)
(* Threads that make blocks at the same time interleave here between the   *)
(* search, the count and the registration, each of which is one step; what *)
(* unlocked accesses to one std::vector do to its memory is not modelled,  *)
(* so that several threads are good for finding faults only.               *)
(***************************************************************************)
EXTENDS Integers, Sequences, FiniteSets

CONSTANTS
  Blocks,       \* the blocks of the application
  Kind,         \* the kind of each
  Uris,
  UriOf,        \* the URI each block is made with
  Contexts,     \* the iio_context handles libiio can hand out
  AppContext,   \* the context make_from() is given
  Null,
  Failures,     \* what can fail for each block: connecting ("connect"),
                \* looking up a device or channel ("lookup"), the set-up that
                \* follows it ("setup"), the constructor of a derived class
                \* ("derived")
  Concurrent,   \* are blocks made and destroyed by several threads?
  MaxCount,     \* bound: blocks counted by one entry
  MaxEntries    \* bound: entries of the registry

ASSUME RegistryAssumption ==
  /\ Kind \in [Blocks -> {"source", "sink", "attr", "borrowed"}]
  /\ UriOf \in [Blocks -> Uris]
  /\ Null \notin Contexts \cup Uris
  /\ AppContext \notin Contexts \cup {Null}
  /\ Failures \in [Blocks -> SUBSET {"connect", "lookup", "setup", "derived"}]
  /\ Concurrent \in BOOLEAN
  /\ MaxCount \in Nat \ {0} /\ MaxEntries \in Nat \ {0}

VARIABLES
  contexts,     \* the registry
  erasing,      \* the entry being erased under ctx_mutex, 0 if none
  open,         \* libiio: the URI an open context is connected to, or Null
  ctx,          \* the ctx member of each block
  it,           \* the entry get_context() has found for a block, or 0
  pc,           \* where each block is in its life
  leaked        \* history: blocks that gave up a context without being
                \* counted down

vars == <<contexts, erasing, open, ctx, it, pc, leaked>>

Entry == [uri : Uris, ctx : Contexts \cup {Null}, count : 1..MaxCount]
States == {"absent", "sharing", "connecting", "building", "alive", "removing",
           "erasing"}

TypeOK ==
  /\ contexts \in Seq(Entry) /\ Len(contexts) <= MaxEntries
  /\ erasing \in 0..Len(contexts)
  /\ open \in [Contexts -> Uris \cup {Null}]
  /\ ctx \in [Blocks -> Contexts \cup {AppContext, Null}]
  /\ it \in [Blocks -> Nat]
  /\ pc \in [Blocks -> States]
  /\ leaked \in [Contexts -> Nat]

Init ==
  /\ contexts = <<>> /\ erasing = 0
  /\ open = [c \in Contexts |-> Null]
  /\ ctx = [b \in Blocks |-> Null]
  /\ it = [b \in Blocks |-> 0]
  /\ pc = [b \in Blocks |-> "absent"]
  /\ leaked = [c \in Contexts |-> 0]

-----------------------------------------------------------------------------
Registered(b) == Kind[b] # "borrowed"

Least(S) == CHOOSE i \in S : \A j \in S : i <= j

(* Mutant: the search stops short of the last entry. *)
OfUriButLast(u) == {i \in 1..(Len(contexts) - 1) : contexts[i].uri = u}

(* Entries with this URI, entries with this context. *)
OfUri(u) == {i \in DOMAIN contexts : contexts[i].uri = u}
OfCtx(c) == {i \in DOMAIN contexts : contexts[i].ctx = c}

(* Mutants: the entry goes with its first block; it goes one block late. *)
IsAnyone(i) == TRUE
IsNobody(i) == contexts[i].count = 0

(* Whether the entry found is the one whose last block goes. *)
IsLast(i) == contexts[i].count = 1

(* Mutant: the last entry is erased instead. *)
DropLast(s, i) == SubSeq(s, 1, Len(s) - 1)

Drop(s, i) == [j \in 1..(Len(s) - 1) |-> IF j < i THEN s[j] ELSE s[j + 1]]

(* iio_context_destroy *)
Close(c) == open' = IF c \in Contexts THEN [open EXCEPT ![c] = Null] ELSE open

Becomes(b, state, c) ==
  /\ pc' = [pc EXCEPT ![b] = state]
  /\ ctx' = [ctx EXCEPT ![b] = c]

(* The count a block took when it was made stays behind. *)
LeavesItsCount(b) ==
  leaked' = IF ctx[b] \in Contexts THEN [leaked EXCEPT ![ctx[b]] = @ + 1] ELSE leaked

(* With one thread, a block is made or destroyed while no other one is. *)
MayStep(b) == Concurrent \/ \A other \in Blocks \ {b} : pc[other] \in {"absent", "alive"}

-----------------------------------------------------------------------------
(* get_context() *)

(* The search, without a lock: the URI is known ... *)
Finds(b, i) ==
  /\ contexts[i].count < MaxCount
  /\ it' = [it EXCEPT ![b] = i]
  /\ pc' = [pc EXCEPT ![b] = "sharing"]

(* ... or has to be connected to. *)
FindsNothing(b) ==
  /\ Len(contexts) < MaxEntries
  /\ pc' = [pc EXCEPT ![b] = "connecting"]
  /\ UNCHANGED it

GetContext(b) ==
  /\ pc[b] = "absent" /\ MayStep(b) /\ Registered(b)
  /\ \/ OfUri(UriOf[b]) # {} /\ Finds(b, Least(OfUri(UriOf[b])))
     \/ OfUri(UriOf[b]) = {} /\ FindsNothing(b)
  /\ UNCHANGED <<contexts, erasing, open, ctx, leaked>>

(* Mutant: the count is forgotten. *)
CountsNobody(i) == UNCHANGED contexts

CountsUp(i) == contexts' = [contexts EXCEPT ![i].count = @ + 1]

(* Share the context of whatever is in the place that was found.  (If the  *)
(* vector has become shorter, the process is not followed any further.)    *)
Share(b) ==
  /\ pc[b] = "sharing" /\ it[b] \in DOMAIN contexts
  /\ contexts[it[b]].count < MaxCount
  /\ CountsUp(it[b])
  /\ Becomes(b, "building", contexts[it[b]].ctx)
  /\ it' = [it EXCEPT ![b] = 0]
  /\ UNCHANGED <<erasing, open, leaked>>

(* Connecting takes its time; what came of it is registered. *)
Register(b, c) ==
  /\ Len(contexts) < MaxEntries
  /\ contexts' = Append(contexts, [uri |-> UriOf[b], ctx |-> c, count |-> 1])
  /\ Becomes(b, "building", c)

Connect(b, c) ==
  /\ pc[b] = "connecting"
  /\ open[c] = Null
  /\ open' = [open EXCEPT ![c] = UriOf[b]]
  /\ Register(b, c)
  /\ UNCHANGED <<erasing, it, leaked>>

ConnectFails(b) ==
  /\ "connect" \in Failures[b]
  /\ pc[b] = "connecting"
  /\ Register(b, Null)
  /\ UNCHANGED <<erasing, open, it, leaked>>

(* make_from() does not touch the registry. *)
MakeFrom(b) ==
  /\ pc[b] = "absent" /\ MayStep(b) /\ ~Registered(b)
  /\ Becomes(b, "building", AppContext)
  /\ UNCHANGED <<contexts, erasing, open, it, leaked>>

-----------------------------------------------------------------------------
(* The rest of the constructors.  A constructor that throws leaves no      *)
(* object, and its destructor does not run.                                *)

NoContext(b) ==
  /\ pc[b] = "building" /\ ctx[b] = Null
  /\ Becomes(b, "absent", Null)
  /\ UNCHANGED <<contexts, erasing, open, it, leaked>>

Built(b) ==
  /\ pc[b] = "building" /\ ctx[b] # Null
  /\ pc' = [pc EXCEPT ![b] = "alive"]
  /\ UNCHANGED <<contexts, erasing, open, ctx, it, leaked>>

(* "Device not found", "Channel not found" *)
LookupFails(b) ==
  /\ "lookup" \in Failures[b]
  /\ pc[b] = "building" /\ ctx[b] # Null
  /\ IF Registered(b) THEN Close(ctx[b]) ELSE UNCHANGED open
  /\ LeavesItsCount(b)
  /\ Becomes(b, "absent", Null)
  /\ UNCHANGED <<contexts, erasing, it>>

(* device_sink: "Channel not enabled", "Unable to create buffer";          *)
(* attr_source, attr_sink: "Failed to enabled register for device".        *)
SetupFails(b) ==
  /\ "setup" \in Failures[b]
  /\ pc[b] = "building" /\ ctx[b] # Null
  /\ Kind[b] # "source"
  /\ LeavesItsCount(b)
  /\ Becomes(b, "absent", Null)
  /\ UNCHANGED <<contexts, erasing, open, it>>

(* The constructor of a derived class throws: the destructor of the base   *)
(* class, which is complete, runs.                                         *)
DerivedFails(b) ==
  /\ "derived" \in Failures[b]
  /\ pc[b] = "building" /\ ctx[b] # Null
  /\ Kind[b] # "attr"
  /\ pc' = [pc EXCEPT ![b] = "removing"]
  /\ UNCHANGED <<contexts, erasing, open, ctx, it, leaked>>

-----------------------------------------------------------------------------
(* The destructors. *)

(* The attribute blocks have nothing in theirs. *)
Destroy(b) ==
  /\ pc[b] = "alive" /\ MayStep(b)
  /\ IF Kind[b] = "attr"
     THEN Becomes(b, "absent", Null) /\ LeavesItsCount(b)
     ELSE pc' = [pc EXCEPT ![b] = "removing"] /\ UNCHANGED <<ctx, leaked>>
  /\ UNCHANGED <<contexts, erasing, open, it>>

(* remove_ctx_history(): the loop counts down every entry of the context   *)
(* until it meets one whose last block goes; it closes that context and    *)
(* then erases the entry.                                                  *)
RemoveCtxHistory(b) ==
  LET mine == OfCtx(ctx[b])
      last == {i \in mine : IsLast(i)}
      counted == {i \in mine : \A j \in last : i < j}
  IN /\ pc[b] = "removing" /\ erasing = 0
     /\ UNCHANGED <<it, leaked>>
     /\ contexts' = [i \in DOMAIN contexts |->
          IF i \in counted THEN [contexts[i] EXCEPT !.count = @ - 1] ELSE contexts[i]]
     /\ IF last = {}
        THEN Becomes(b, "absent", Null) /\ UNCHANGED <<erasing, open>>
        ELSE /\ IF Registered(b) THEN Close(ctx[b]) ELSE UNCHANGED open
             /\ erasing' = Least(last)
             /\ pc' = [pc EXCEPT ![b] = "erasing"] /\ UNCHANGED ctx

Erase(b) ==
  /\ pc[b] = "erasing"
  /\ contexts' = Drop(contexts, erasing)
  /\ erasing' = 0
  /\ Becomes(b, "absent", Null)
  /\ UNCHANGED <<open, it, leaked>>

-----------------------------------------------------------------------------
Step(b) ==
  \/ GetContext(b) \/ Share(b) \/ ConnectFails(b) \/ MakeFrom(b)
  \/ \E c \in Contexts : Connect(b, c)
  \/ NoContext(b) \/ Built(b)
  \/ LookupFails(b) \/ SetupFails(b) \/ DerivedFails(b)
  \/ Destroy(b) \/ RemoveCtxHistory(b) \/ Erase(b)

Next == \E b \in Blocks : Step(b)

Spec == Init /\ [][Next]_vars

-----------------------------------------------------------------------------
(* Properties. *)

(* get_context(), remove_ctx_history(): the context a block works with is  *)
(* open, and is connected to the URI the block was made with.              *)
SharesOpenContext ==
  \A b \in Blocks : Registered(b) /\ pc[b] = "alive" =>
    ctx[b] \in Contexts /\ open[ctx[b]] = UriOf[b]

(* get_context(): "Check if we have a context with the same URI open".     *)
(* What the registry offers for a URI is an open context to that URI, or   *)
(* the NULL of a connection that failed.                                   *)
RegistryIsOpen ==
  \A i \in DOMAIN contexts : i # erasing /\ contexts[i].ctx # Null =>
    open[contexts[i].ctx] = contexts[i].uri

(* get_context(), remove_ctx_history(): the count of an entry is the       *)
(* number of blocks that hold its context, and of those that gave it up    *)
(* without being counted down, no more and no less.                        *)
CountsUsers ==
  \A i \in DOMAIN contexts : contexts[i].ctx # Null =>
    contexts[i].count =
      Cardinality({b \in Blocks : ctx[b] = contexts[i].ctx}) + leaked[contexts[i].ctx]

(* ~device_source_impl(): "Make sure this is the last open block with a    *)
(* given context before removing the context".  A context stays open only  *)
(* as long as a block holds it, unless a block left its count behind.      *)
ClosedWithLastBlock ==
  \A c \in Contexts : open[c] # Null /\ leaked[c] = 0 => \E b \in Blocks : ctx[b] = c

(* get_context(): no URI is connected to twice. *)
OneContextPerUri ==
  \A c, d \in Contexts : open[c] # Null /\ open[c] = open[d] => c = d

(* The context a registered block holds, from get_context() until          *)
(* remove_ctx_history() has counted it down.                               *)
Holder == [b \in Blocks |-> IF Registered(b) /\ pc[b] # "erasing" THEN ctx[b] ELSE Null]

Shared == INSTANCE SharedContexts WITH holder <- Holder

(* get_context(), remove_ctx_history(): the registry, its counts and the   *)
(* erasing of entries implement SharedContexts.  A URI is connected to     *)
(* only when no context is open to it, and a context closes in the step in *)
(* which its last block gives it up, unless a count was left behind.       *)
ImplementsSharedContexts == Shared!Spec
=============================================================================
