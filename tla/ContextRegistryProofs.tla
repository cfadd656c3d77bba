----------------------- MODULE ContextRegistryProofs -----------------------
(***************************************************************************)
(* What TLAPS proves of ContextRegistry for one thread: that it stays well *)
(* formed, whatever fails, and, when no block of the registry fails to     *)
(* look up its device, that its counts are exact and that it implements    *)
(* SharedContexts.  Connecting, the set-up and derived classes may fail,   *)
(* and attribute blocks be used.                                           *)
(***************************************************************************)
EXTENDS ContextRegistry, FiniteSetTheorems, SequenceTheorems,
        WellFoundedInduction, TLAPS

USE RegistryAssumption

-----------------------------------------------------------------------------
(* Entries, whatever happens. *)

(* The search of get_context() ends at the first entry of the URI.         *)
LEMMA LeastExists ==
  ASSUME NEW S, S \subseteq Nat, S # {}
  PROVE  Least(S) \in S
<1> DEFINE Before == {p \in Nat \X Nat : p[1] < p[2]}
<1>1. IsWellFoundedOn(Before, Nat)
  BY NatLessThanWellFounded DEF OpToRel
<1> HIDE DEF Before
<1>2. PICK i \in S : \A j \in S : ~(<<j, i>> \in Before)
  BY <1>1, WFMin
<1>3. \A j \in S : i <= j
  <2> SUFFICES ASSUME NEW j \in S, j < i PROVE FALSE
    OBVIOUS
  <2>1. <<j, i>> \in Nat \X Nat /\ <<j, i>>[1] < <<j, i>>[2]
    OBVIOUS
  <2>2. <<j, i>> \in Before
    BY <2>1 DEF Before
  <2> QED
    BY <1>2, <2>2
<1> QED
  BY <1>3 DEF Least

(* An entry keeps its URI and its context when it is counted up or down.   *)
LEMMA CountedEntry ==
  ASSUME NEW e \in Entry, NEW n \in 1..MaxCount
  PROVE  /\ [e EXCEPT !.count = n] \in Entry
         /\ [e EXCEPT !.count = n].count = n
         /\ [e EXCEPT !.count = n].uri = e.uri
         /\ [e EXCEPT !.count = n].ctx = e.ctx
  BY DEF Entry

(* std::vector::erase() takes one entry out. *)
LEMMA DropEntry ==
  ASSUME NEW s \in Seq(Entry), NEW i \in 1..Len(s)
  PROVE  /\ Drop(s, i) \in Seq(Entry) /\ Len(Drop(s, i)) = Len(s) - 1
  BY DEF Drop

(* The mutex of the registry: one block erases at a time, and there is an  *)
(* entry for it to erase.                                                  *)
Guarded ==
  /\ \A b \in Blocks : pc[b] = "erasing" => erasing # 0
  /\ \A a, b \in Blocks : pc[a] = "erasing" /\ pc[b] = "erasing" => a = b

WellFormed == TypeOK /\ Guarded

LEMMA WellFormedInit == Init => WellFormed
  BY DEF Init, WellFormed, TypeOK, Guarded, Entry, States

LEMMA WellFormedGetContext ==
  ASSUME WellFormed, NEW b \in Blocks, GetContext(b)
  PROVE  WellFormed'
<1> USE DEF WellFormed
<1>1. CASE FindsNothing(b)
  BY <1>1 DEF GetContext, FindsNothing, TypeOK, Guarded, States
<1>2. CASE OfUri(UriOf[b]) # {} /\ Finds(b, Least(OfUri(UriOf[b])))
  <2>1. PICK i \in 1..Len(contexts) : Finds(b, i)
    <3>1. OfUri(UriOf[b]) \subseteq Nat /\ OfUri(UriOf[b]) \subseteq 1..Len(contexts)
      BY DEF OfUri, TypeOK
    <3> QED
      BY <1>2, <3>1, LeastExists
  <2> QED
    BY <2>1 DEF GetContext, Finds, TypeOK, Guarded, States
<1> QED
  BY <1>1, <1>2 DEF GetContext

LEMMA WellFormedShare ==
  ASSUME WellFormed, NEW b \in Blocks, Share(b)
  PROVE  WellFormed'
<1> USE DEF WellFormed
<1> DEFINE i == it[b]
<1>1. contexts[i] \in Entry /\ contexts \in Seq(Entry) /\ i \in 1..Len(contexts)
  BY DEF TypeOK, Share
<1>2. contexts[i].count + 1 \in 1..MaxCount /\ contexts[i].ctx \in Contexts \cup {Null}
  BY <1>1 DEF Entry, Share
<1>3. contexts' = [contexts EXCEPT ![i] = [contexts[i] EXCEPT !.count = contexts[i].count + 1]]
  BY <1>1 DEF Share, CountsUp
<1>4. contexts' \in Seq(Entry) /\ Len(contexts') = Len(contexts)
  BY <1>1, <1>2, <1>3, CountedEntry, ExceptSeq
<1>5. TypeOK'
  BY <1>2, <1>4 DEF TypeOK, Share, Becomes, States
<1>6. Guarded'
  BY DEF Guarded, TypeOK, Share, Becomes
<1> QED
  BY <1>5, <1>6

(* What came of connecting is registered. *)
LEMMA WellFormedRegister ==
  ASSUME WellFormed, NEW b \in Blocks, NEW c \in Contexts \cup {Null},
         pc[b] = "connecting", Register(b, c), UNCHANGED <<erasing, it, leaked>>,
         open' \in [Contexts -> Uris \cup {Null}]
  PROVE  WellFormed'
<1> USE DEF WellFormed
<1>1. [uri |-> UriOf[b], ctx |-> c, count |-> 1] \in Entry
  BY DEF Entry
<1>2. contexts' \in Seq(Entry) /\ Len(contexts') = Len(contexts) + 1
  BY <1>1 DEF Register, TypeOK
<1>3. TypeOK'
  BY <1>2 DEF TypeOK, Register, Becomes, States
<1>4. Guarded'
  BY DEF Guarded, TypeOK, Register, Becomes
<1> QED
  BY <1>3, <1>4

(* A step of the constructor or of the destructor that leaves the registry *)
(* alone.                                                                  *)
LEMMA WellFormedStage ==
  ASSUME WellFormed, NEW b \in Blocks,
         \/ MakeFrom(b) \/ NoContext(b) \/ Built(b) \/ LookupFails(b)
         \/ SetupFails(b) \/ DerivedFails(b) \/ Destroy(b)
  PROVE  WellFormed'
<1> USE DEF WellFormed
<1>1. PICK state \in {"absent", "building", "alive", "removing"}, c \in Contexts \cup {AppContext, Null} :
        pc' = [pc EXCEPT ![b] = state] /\ ctx' = [ctx EXCEPT ![b] = c]
        /\ UNCHANGED <<contexts, erasing, it>>
  <2>1. ASSUME UNCHANGED <<contexts, erasing, it>>,
               NEW state \in {"absent", "building", "alive", "removing"},
               pc' = [pc EXCEPT ![b] = state], ctx' = ctx
        PROVE  \E s \in {"absent", "building", "alive", "removing"}, c \in Contexts \cup {AppContext, Null} :
                 pc' = [pc EXCEPT ![b] = s] /\ ctx' = [ctx EXCEPT ![b] = c]
                 /\ UNCHANGED <<contexts, erasing, it>>
    <3>1. ctx' = [ctx EXCEPT ![b] = ctx[b]] /\ ctx[b] \in Contexts \cup {AppContext, Null}
      BY <2>1 DEF TypeOK
    <3> QED
      BY <2>1, <3>1
  <2> QED
    BY <2>1 DEF MakeFrom, NoContext, Built, LookupFails, SetupFails, DerivedFails, Destroy, Becomes
<1>2. /\ open' \in [Contexts -> Uris \cup {Null}]
      /\ leaked' \in [Contexts -> Nat]
  <2>1. open' \in [Contexts -> Uris \cup {Null}]
    BY DEF TypeOK, MakeFrom, NoContext, Built, LookupFails, SetupFails, DerivedFails, Destroy,
           Close
  <2>2. UNCHANGED leaked \/ LeavesItsCount(b)
    BY DEF MakeFrom, NoContext, Built, LookupFails, SetupFails, DerivedFails, Destroy
  <2>3. leaked' \in [Contexts -> Nat]
    <3>1. ctx[b] \in Contexts => leaked[ctx[b]] + 1 \in Nat
      BY DEF TypeOK
    <3> QED
      BY <2>2, <3>1 DEF TypeOK, LeavesItsCount
  <2> QED
    BY <2>1, <2>3
<1>3. TypeOK'
  BY <1>1, <1>2 DEF TypeOK, States
<1>4. Guarded'
  BY <1>1 DEF Guarded, TypeOK
<1> QED
  BY <1>3, <1>4

(* remove_ctx_history() counts down only entries with another block.       *)
LEMMA WellFormedRemove ==
  ASSUME WellFormed, NEW b \in Blocks, RemoveCtxHistory(b)
  PROVE  WellFormed'
<1> USE DEF WellFormed
<1> DEFINE mine == OfCtx(ctx[b])
           last == {i \in mine : IsLast(i)}
           counted == {i \in mine : \A j \in last : i < j}
           less(i) == [contexts[i] EXCEPT !.count = @ - 1]
<1>1. /\ pc[b] = "removing" /\ erasing = 0 /\ UNCHANGED <<it, leaked>>
      /\ contexts' = [i \in DOMAIN contexts |-> IF i \in counted THEN less(i) ELSE contexts[i]]
      /\ \/ last = {} /\ Becomes(b, "absent", Null) /\ UNCHANGED <<erasing, open>>
         \/ /\ last # {} /\ erasing' = Least(last)
            /\ IF Registered(b) THEN Close(ctx[b]) ELSE UNCHANGED open
            /\ pc' = [pc EXCEPT ![b] = "erasing"] /\ UNCHANGED ctx
  BY DEF RemoveCtxHistory
<1>2. last \subseteq 1..Len(contexts) /\ last \subseteq Nat
  BY DEF OfCtx, TypeOK
<1>3. contexts \in Seq(Entry)
  BY DEF TypeOK
<1>4. ASSUME NEW i \in 1..Len(contexts), i \in counted
      PROVE  less(i) \in Entry
  <2>1. contexts[i] \in Entry
    BY <1>3
  <2>2. i \notin last
    BY <1>4
  <2>3. contexts[i].count # 1
    BY <1>4, <2>2 DEF IsLast
  <2>4. contexts[i].count - 1 \in 1..MaxCount
    BY <2>1, <2>3 DEF Entry
  <2> QED
    BY <2>1, <2>4, CountedEntry
<1>5. contexts' \in Seq(Entry) /\ Len(contexts') = Len(contexts)
  <2>1. \A i \in 1..Len(contexts) : contexts'[i] \in Entry
    BY <1>1, <1>3, <1>4
  <2> HIDE DEF counted, less
  <2>2. contexts' = [i \in 1..Len(contexts) |-> contexts'[i]]
    BY <1>1, <1>3
  <2> QED
    BY <1>3, <2>1, <2>2
<1> HIDE DEF last, counted, less
<1>6. CASE last = {} /\ Becomes(b, "absent", Null) /\ UNCHANGED <<erasing, open>>
  BY <1>1, <1>5, <1>6 DEF TypeOK, Guarded, Becomes, States
<1>7. CASE /\ last # {} /\ erasing' = Least(last)
           /\ IF Registered(b) THEN Close(ctx[b]) ELSE UNCHANGED open
           /\ pc' = [pc EXCEPT ![b] = "erasing"] /\ UNCHANGED ctx
  <2>1. erasing' \in 1..Len(contexts)
    BY <1>2, <1>7, LeastExists
  <2>2. open' \in [Contexts -> Uris \cup {Null}]
    BY <1>7 DEF TypeOK, Close
  <2>3. TypeOK'
    BY <1>1, <1>5, <1>7, <2>1, <2>2 DEF TypeOK, States
  <2>4. Guarded'
    BY <1>1, <1>7, <2>1 DEF Guarded, TypeOK
  <2> QED
    BY <2>3, <2>4
<1> QED
  BY <1>1, <1>6, <1>7

LEMMA WellFormedErase ==
  ASSUME WellFormed, NEW b \in Blocks, Erase(b)
  PROVE  WellFormed'
<1> USE DEF WellFormed
<1>1. erasing \in 1..Len(contexts) /\ contexts \in Seq(Entry) /\ Len(contexts) \in Nat
  BY DEF Erase, Guarded, TypeOK
<1>2. contexts' \in Seq(Entry) /\ Len(contexts') = Len(contexts) - 1
  BY <1>1, DropEntry DEF Erase
<1>3. TypeOK'
  BY <1>1, <1>2 DEF Erase, Becomes, TypeOK, States
<1>4. Guarded'
  BY DEF Erase, Becomes, Guarded, TypeOK
<1> QED
  BY <1>3, <1>4

LEMMA WellFormedNext == WellFormed /\ [Next]_vars => WellFormed'
<1> SUFFICES ASSUME WellFormed, [Next]_vars PROVE WellFormed'
  OBVIOUS
<1>1. CASE UNCHANGED vars
  BY <1>1 DEF vars, WellFormed, TypeOK, Guarded
<1>2. ASSUME NEW b \in Blocks, ConnectFails(b) PROVE WellFormed'
  BY <1>2, WellFormedRegister DEF ConnectFails, WellFormed, TypeOK
<1>3. ASSUME NEW b \in Blocks, NEW c \in Contexts, Connect(b, c) PROVE WellFormed'
  <2>1. open' \in [Contexts -> Uris \cup {Null}]
    BY <1>3 DEF Connect, WellFormed, TypeOK
  <2> QED
    BY <1>3, <2>1, WellFormedRegister DEF Connect
<1> QED
  BY <1>1, <1>2, <1>3, WellFormedGetContext, WellFormedShare, WellFormedStage,
     WellFormedRemove, WellFormedErase DEF Next, Step

(* get_context(), remove_ctx_history(): with one thread, whatever fails,   *)
(* counts stay positive and an entry is erased only while it is there.     *)
(* (Nothing is claimed of several threads: what they do to the vector in   *)
(* get_context(), which locks nothing, is not modelled.)                   *)
THEOREM RegistryTypeCorrect == ASSUME ~Concurrent PROVE Spec => []TypeOK
<1>1. WellFormed => TypeOK
  BY DEF WellFormed
<1> QED
  BY <1>1, WellFormedInit, WellFormedNext, PTL DEF Spec

-----------------------------------------------------------------------------
(* One thread. *)

Sequential ==
  /\ ~Concurrent
  /\ \A b \in Blocks : Registered(b) => "lookup" \notin Failures[b]
  /\ IsFiniteSet(Blocks)

(* The blocks that hold context c, when f is their ctx member. *)
Holders(f, c) == {b \in Blocks : f[b] = c}

(* Only one block is between two steps of its life. *)
OneAtATime ==
  \A a, b \in Blocks :
    a # b => pc[a] \in {"absent", "alive"} \/ pc[b] \in {"absent", "alive"}

(* Which context a block holds at each stage of its life. *)
Holds ==
  \A b \in Blocks :
    /\ pc[b] \in {"absent", "sharing", "connecting"} => ctx[b] = Null
    /\ pc[b] \in {"alive", "removing", "erasing"} => ctx[b] # Null
    /\ ~Registered(b) => ctx[b] \in {AppContext, Null} /\ pc[b] \notin {"sharing", "connecting"}
    /\ Registered(b) => ctx[b] # AppContext

(* Each entry stands for a URI of its own and, unless connecting failed,   *)
(* for a context of its own, which is open until the entry is erased.      *)
EntriesDistinct ==
  /\ \A i, j \in DOMAIN contexts : contexts[i].uri = contexts[j].uri => i = j
  /\ \A i, j \in DOMAIN contexts :
       contexts[i].ctx = contexts[j].ctx /\ contexts[i].ctx # Null => i = j
  /\ \A i \in DOMAIN contexts : i # erasing /\ contexts[i].ctx # Null =>
       open[contexts[i].ctx] = contexts[i].uri

(* What is open is registered, and what a block holds is registered under  *)
(* the block's URI.                                                        *)
AllRegistered ==
  /\ \A c \in Contexts : open[c] # Null =>
       \E i \in DOMAIN contexts : i # erasing /\ contexts[i].ctx = c
  /\ \A b \in Blocks : Registered(b) /\ ctx[b] # Null =>
       \E i \in DOMAIN contexts :
         contexts[i].ctx = ctx[b] /\ contexts[i].uri = UriOf[b]

(* A block that connects found no entry; one that shares, or erases, has   *)
(* its entry still in its place.                                           *)
InProgress ==
  /\ \A b \in Blocks : pc[b] = "sharing" =>
       it[b] \in DOMAIN contexts /\ contexts[it[b]].uri = UriOf[b]
  /\ \A b \in Blocks : pc[b] = "connecting" =>
       \A i \in DOMAIN contexts : contexts[i].uri # UriOf[b]
  /\ \A b \in Blocks : pc[b] = "erasing" =>
       erasing # 0 /\ contexts[erasing].ctx = ctx[b] /\ contexts[erasing].count = 1
  /\ erasing # 0 => \E b \in Blocks : pc[b] = "erasing"

(* The blocks behind the count of an entry. *)
Counted(count, f, l, c) == count = Cardinality(Holders(f, c)) + l[c]

CountsCover ==
  \A i \in DOMAIN contexts : contexts[i].ctx # Null =>
    Counted(contexts[i].count, ctx, leaked, contexts[i].ctx)

(* A context that is closed has no counts left behind. *)
ClosedIsClean == \A c \in Contexts : open[c] = Null => leaked[c] = 0

RInv ==
  /\ TypeOK /\ OneAtATime /\ Holds
  /\ EntriesDistinct /\ AllRegistered /\ InProgress /\ CountsCover /\ ClosedIsClean

-----------------------------------------------------------------------------
(* Counting. *)

Others(f, g, b) == \A a \in Blocks \ {b} : g[a] = f[a]

(* A block takes up a context, and gives one up.                           *)
LEMMA HolderJoins ==
  ASSUME IsFiniteSet(Blocks), NEW f, NEW g, NEW b \in Blocks, NEW c,
         f[b] # c, g[b] = c, Others(f, g, b)
  PROVE  /\ Cardinality(Holders(f, c)) \in Nat
         /\ Cardinality(Holders(g, c)) = Cardinality(Holders(f, c)) + 1
<1>1. IsFiniteSet(Holders(f, c)) /\ Cardinality(Holders(f, c)) \in Nat
  BY FS_Subset, FS_CardinalityType DEF Holders
<1>2. Holders(g, c) = Holders(f, c) \cup {b} /\ b \notin Holders(f, c)
  BY DEF Holders, Others
<1>3. Cardinality(Holders(f, c) \cup {b}) =
        IF b \in Holders(f, c) THEN Cardinality(Holders(f, c))
                               ELSE Cardinality(Holders(f, c)) + 1
  BY <1>1, FS_AddElement
<1> QED
  BY <1>1, <1>2, <1>3

LEMMA HolderLeaves ==
  ASSUME IsFiniteSet(Blocks), NEW f, NEW g, NEW b \in Blocks, NEW c,
         f[b] = c, g[b] # c, Others(f, g, b)
  PROVE  /\ Cardinality(Holders(f, c)) \in Nat
         /\ Cardinality(Holders(g, c)) = Cardinality(Holders(f, c)) - 1
<1>1. Cardinality(Holders(g, c)) \in Nat
      /\ Cardinality(Holders(f, c)) = Cardinality(Holders(g, c)) + 1
  <2>1. Others(g, f, b)
    BY DEF Others
  <2> QED
    BY <2>1, HolderJoins
<1> QED
  BY <1>1

(* A context held by one block at most is held by the one known to hold it. *)
LEMMA OnlyHolder ==
  ASSUME IsFiniteSet(Blocks), NEW f, NEW b \in Blocks,
         Cardinality(Holders(f, f[b])) <= 1
  PROVE  \A a \in Blocks : f[a] = f[b] => a = b
<1>1. b \in Holders(f, f[b]) /\ IsFiniteSet(Holders(f, f[b]))
  BY FS_Subset DEF Holders
<1>2. Cardinality(Holders(f, f[b])) \in Nat /\ Cardinality(Holders(f, f[b])) # 0
  BY <1>1, FS_CardinalityType, FS_EmptySet
<1>3. PICK x : Holders(f, f[b]) = {x}
  BY <1>1, <1>2, FS_Singleton
<1> QED
  BY <1>1, <1>3 DEF Holders

LEMMA SomeHolder ==
  ASSUME Sequential, NEW b \in Blocks
  PROVE  Cardinality(Holders(ctx, ctx[b])) # 0
<1>1. b \in Holders(ctx, ctx[b]) /\ IsFiniteSet(Holders(ctx, ctx[b]))
  BY FS_Subset DEF Holders, Sequential
<1> QED
  BY <1>1, FS_EmptySet

(* With the invariant, the first entry of a URI is the only one.           *)
LEMMA LeastOfOne == ASSUME NEW i \in Int PROVE Least({i}) = i
  BY DEF Least

(* A new context has no holders. *)
LEMMA NoHolders ==
  ASSUME NEW f, NEW c, \A b \in Blocks : f[b] # c
  PROVE  Cardinality(Holders(f, c)) = 0
<1>1. Holders(f, c) = {}
  BY DEF Holders
<1> QED
  BY <1>1, FS_EmptySet

(* No more blocks hold a context than its entry counts. *)
LEMMA CountBounds ==
  ASSUME Sequential, RInv, NEW i \in DOMAIN contexts, contexts[i].ctx # Null
  PROVE  /\ Cardinality(Holders(ctx, contexts[i].ctx)) \in Nat
         /\ leaked[contexts[i].ctx] \in Nat
         /\ Cardinality(Holders(ctx, contexts[i].ctx)) + leaked[contexts[i].ctx]
            = contexts[i].count
         /\ Cardinality(Holders(ctx, contexts[i].ctx)) <= contexts[i].count
<1>1. contexts[i] \in Entry
  BY DEF RInv, TypeOK
<1>2. contexts[i].ctx \in Contexts
  BY <1>1 DEF Entry
<1>3. leaked[contexts[i].ctx] \in Nat
  BY <1>2 DEF RInv, TypeOK
<1>4. Cardinality(Holders(ctx, contexts[i].ctx)) \in Nat
  BY FS_Subset, FS_CardinalityType DEF Holders, Sequential
<1> QED
  BY <1>3, <1>4 DEF RInv, CountsCover, Counted

(* A block that gives its context up without counting down is counted as   *)
(* leaked instead.                                                         *)
LEMMA CountsAfterLeak ==
  ASSUME Sequential, RInv, NEW b \in Blocks, LeavesItsCount(b),
         ctx' = [ctx EXCEPT ![b] = Null], contexts' = contexts
  PROVE  CountsCover'
<1> USE DEF Sequential, RInv
<1> SUFFICES ASSUME NEW j \in DOMAIN contexts, contexts[j].ctx # Null
             PROVE  Counted(contexts[j].count, ctx', leaked', contexts[j].ctx)
  BY DEF CountsCover, Counted
<1>1. contexts[j] \in Entry
  BY DEF TypeOK
<1>2. /\ contexts[j].ctx \in Contexts /\ contexts[j].count \in Nat
      /\ leaked[contexts[j].ctx] \in Nat
      /\ Counted(contexts[j].count, ctx, leaked, contexts[j].ctx)
  <2>1. contexts[j].ctx \in Contexts /\ contexts[j].count \in Nat
    BY <1>1 DEF Entry
  <2> QED
    BY <2>1 DEF CountsCover, TypeOK
<1>3. CASE contexts[j].ctx = ctx[b]
  <2>1. ctx[b] # Null /\ ctx'[b] = Null /\ Others(ctx, ctx', b)
    BY <1>2, <1>3 DEF Others, TypeOK
  <2>2. /\ Cardinality(Holders(ctx, ctx[b])) \in Nat
        /\ Cardinality(Holders(ctx', ctx[b])) = Cardinality(Holders(ctx, ctx[b])) - 1
    BY <2>1, HolderLeaves
  <2>3. leaked'[ctx[b]] = leaked[ctx[b]] + 1
    BY <1>2, <1>3 DEF LeavesItsCount, TypeOK
  <2> QED
    BY <1>2, <1>3, <2>2, <2>3 DEF Counted
<1>4. CASE contexts[j].ctx # ctx[b]
  <2>1. Holders(ctx', contexts[j].ctx) = Holders(ctx, contexts[j].ctx)
    BY <1>4 DEF Holders, TypeOK
  <2>2. leaked'[contexts[j].ctx] = leaked[contexts[j].ctx]
    BY <1>2, <1>4 DEF LeavesItsCount, TypeOK
  <2> QED
    BY <1>2, <2>1, <2>2 DEF Counted
<1> QED
  BY <1>3, <1>4

-----------------------------------------------------------------------------
LEMMA InitHolds == Init => RInv
  BY DEF Init, RInv, TypeOK, OneAtATime, Holds, EntriesDistinct, AllRegistered,
         InProgress, CountsCover, ClosedIsClean, Registered, Entry, States

(* get_context() looks for the URI: it finds it registered, or goes on to  *)
(* connect.                                                                *)
LEMMA GetContextHolds ==
  ASSUME Sequential, RInv, TypeOK', NEW b \in Blocks, GetContext(b)
  PROVE  RInv'
<1> USE DEF GetContext, Registered, MayStep, Sequential, RInv
<1>1. PICK state \in {"sharing", "connecting"} :
        /\ pc[b] = "absent" /\ pc' = [pc EXCEPT ![b] = state]
        /\ \A other \in Blocks \ {b} : pc[other] \in {"absent", "alive"}
        /\ UNCHANGED <<contexts, erasing, open, ctx, leaked>>
  BY DEF Finds, FindsNothing
<1>2. OneAtATime' /\ Holds'
  BY <1>1 DEF TypeOK, OneAtATime, Holds
<1>3. EntriesDistinct' /\ AllRegistered' /\ CountsCover' /\ ClosedIsClean'
  BY <1>1 DEF EntriesDistinct, AllRegistered, CountsCover, ClosedIsClean
<1>4. CASE OfUri(UriOf[b]) = {} /\ FindsNothing(b)
  <2>1. InProgress'
    BY <1>1, <1>4 DEF InProgress, OfUri, TypeOK, FindsNothing
  <2> QED
    BY <1>2, <1>3, <2>1
<1>5. CASE OfUri(UriOf[b]) # {} /\ Finds(b, Least(OfUri(UriOf[b])))
  <2>1. PICK i \in DOMAIN contexts : contexts[i].uri = UriOf[b]
    BY <1>5 DEF OfUri
  <2>2. OfUri(UriOf[b]) = {i} /\ i \in Int
    BY <2>1 DEF OfUri, EntriesDistinct, TypeOK
  <2>3. it'[b] = i /\ pc' = [pc EXCEPT ![b] = "sharing"]
    BY <1>5, <2>2, LeastOfOne DEF Finds, TypeOK
  <2>4. InProgress'
    BY <1>1, <2>1, <2>3 DEF InProgress, TypeOK
  <2> QED
    BY <1>2, <1>3, <2>4
<1> QED
  BY <1>4, <1>5

(* The entry that was found is still in its place when it is counted up.   *)
LEMMA ShareHolds ==
  ASSUME Sequential, RInv, TypeOK', NEW b \in Blocks, Share(b)
  PROVE  RInv'
<1> USE DEF Registered, Becomes, Sequential, RInv
<1> DEFINE i == it[b]
<1>1. i \in DOMAIN contexts /\ contexts[i].uri = UriOf[b] /\ pc[b] = "sharing"
  BY DEF InProgress, Share
<1>2. /\ UNCHANGED <<erasing, open, leaked>>
      /\ contexts' = [contexts EXCEPT ![i].count = @ + 1]
      /\ contexts[i].count < MaxCount
      /\ pc' = [pc EXCEPT ![b] = "building"]
      /\ ctx' = [ctx EXCEPT ![b] = contexts[i].ctx]
      /\ ctx[b] = Null
  BY <1>1 DEF Share, CountsUp, Holds
<1> HIDE DEF i
<1>3. contexts[i] \in Entry /\ contexts[i].ctx \in Contexts \cup {Null}
  <2>1. contexts[i] \in Entry
    BY <1>1 DEF TypeOK
  <2> QED
    BY <2>1 DEF Entry
<1>4. /\ DOMAIN contexts' = DOMAIN contexts
      /\ contexts'[i].count = contexts[i].count + 1 /\ contexts[i].count \in Nat
      /\ \A j \in DOMAIN contexts :
           /\ contexts'[j].uri = contexts[j].uri /\ contexts'[j].ctx = contexts[j].ctx
           /\ j # i => contexts'[j] = contexts[j]
  <2>1. contexts' = [contexts EXCEPT ![i] = [contexts[i] EXCEPT !.count = contexts[i].count + 1]]
    BY <1>1, <1>2
  <2>2. contexts[i].count + 1 \in 1..MaxCount /\ contexts[i].count \in Nat
    BY <1>2, <1>3 DEF Entry
  <2>3. /\ DOMAIN contexts' = DOMAIN contexts
        /\ contexts'[i] = [contexts[i] EXCEPT !.count = contexts[i].count + 1]
        /\ \A j \in DOMAIN contexts : j # i => contexts'[j] = contexts[j]
    BY <1>1, <2>1
  <2>4. /\ contexts'[i].uri = contexts[i].uri /\ contexts'[i].ctx = contexts[i].ctx
        /\ contexts'[i].count = contexts[i].count + 1
    BY <1>3, <2>2, <2>3, CountedEntry
  <2> QED
    BY <2>2, <2>3, <2>4
<1>5. OneAtATime' /\ Holds'
  BY <1>1, <1>2, <1>3 DEF OneAtATime, Holds, TypeOK
<1>6. EntriesDistinct'
  BY <1>2, <1>4 DEF EntriesDistinct
<1>7. AllRegistered'
  <2>1. ASSUME NEW c \in Contexts, open'[c] # Null
        PROVE  \E k \in DOMAIN contexts : k # erasing' /\ contexts'[k].ctx = c
    BY <1>2, <1>4, <2>1 DEF AllRegistered
  <2>2. ASSUME NEW a \in Blocks, Registered(a), ctx'[a] # Null
        PROVE  \E k \in DOMAIN contexts :
                 contexts'[k].ctx = ctx'[a] /\ contexts'[k].uri = UriOf[a]
    <3>1. CASE a = b
      BY <1>1, <1>2, <1>4, <3>1 DEF TypeOK
    <3>2. CASE a # b
      <4>1. ctx'[a] = ctx[a]
        BY <1>2, <3>2 DEF TypeOK
      <4> QED
        BY <1>4, <2>2, <4>1 DEF AllRegistered
    <3> QED
      BY <3>1, <3>2
  <2> QED
    BY <1>2, <1>4, <2>1, <2>2 DEF AllRegistered
<1>8. InProgress'
  BY <1>1, <1>2, <1>4 DEF InProgress, TypeOK, OneAtATime
<1>9. CountsCover'
  <2> SUFFICES ASSUME NEW j \in DOMAIN contexts, contexts[j].ctx # Null
               PROVE  Counted(contexts'[j].count, ctx', leaked', contexts[j].ctx)
    BY <1>4 DEF CountsCover, Counted
  <2>1. contexts[j] \in Entry
    BY DEF TypeOK
  <2>2. contexts[j].count \in Nat
    BY <2>1 DEF Entry
  <2>3. Counted(contexts[j].count, ctx, leaked, contexts[j].ctx)
    BY DEF CountsCover
  <2>4. CASE j = i
    <3>1. /\ Cardinality(Holders(ctx, contexts[j].ctx)) \in Nat
          /\ Cardinality(Holders(ctx', contexts[j].ctx))
             = Cardinality(Holders(ctx, contexts[j].ctx)) + 1
      <4>1. /\ ctx[b] # contexts[j].ctx /\ ctx'[b] = contexts[j].ctx
            /\ Others(ctx, ctx', b)
        BY <1>2, <2>4 DEF Others, TypeOK
      <4> QED
        BY <4>1, HolderJoins
    <3>2. leaked[contexts[j].ctx] \in Nat /\ leaked' = leaked
      BY <1>2, CountBounds
    <3> QED
      BY <1>4, <2>2, <2>3, <2>4, <3>1, <3>2 DEF Counted
  <2>5. CASE j # i
    <3>1. contexts[j].ctx # contexts[i].ctx
      BY <1>1, <2>5 DEF EntriesDistinct
    <3>2. Holders(ctx', contexts[j].ctx) = Holders(ctx, contexts[j].ctx)
      BY <1>2, <3>1 DEF Holders, TypeOK
    <3> QED
      BY <1>2, <1>4, <2>3, <2>5, <3>2 DEF Counted
  <2> QED
    BY <2>4, <2>5
<1>10. ClosedIsClean'
  BY <1>2 DEF ClosedIsClean
<1> QED
  BY <1>5, <1>6, <1>7, <1>8, <1>9, <1>10

(* What came of connecting is registered last, for a URI that was new.     *)
LEMMA RegisterHolds ==
  ASSUME Sequential, RInv, TypeOK', NEW b \in Blocks, NEW c \in Contexts \cup {Null},
         pc[b] = "connecting", Register(b, c), UNCHANGED <<erasing, it, leaked>>,
         \/ c \in Contexts /\ open[c] = Null /\ open' = [open EXCEPT ![c] = UriOf[b]]
         \/ c = Null /\ UNCHANGED open
  PROVE  RInv'
<1> USE DEF Sequential, RInv
<1> DEFINE n == Len(contexts)
           e == [uri |-> UriOf[b], ctx |-> c, count |-> 1]
<1>1. /\ ctx[b] = Null /\ Registered(b)
      /\ contexts' = Append(contexts, e)
      /\ pc' = [pc EXCEPT ![b] = "building"] /\ ctx' = [ctx EXCEPT ![b] = c]
  BY DEF Register, Becomes, Holds
<1>2. contexts \in Seq(Entry) /\ n \in Nat /\ DOMAIN contexts = 1..n /\ e \in Entry
  BY DEF TypeOK, Entry
<1>3. /\ DOMAIN contexts' = 1..(n + 1)
      /\ contexts'[n + 1] = e /\ \A j \in 1..n : contexts'[j] = contexts[j]
  BY <1>1, <1>2
<1>4. /\ \A j \in 1..n : contexts[j].uri # UriOf[b]
      /\ erasing = 0
  BY <1>2 DEF InProgress, OneAtATime
<1>5. \A j \in 1..n : contexts[j].ctx = c => c = Null
  <2> SUFFICES ASSUME NEW j \in 1..n, contexts[j].ctx = c, c # Null PROVE FALSE
    OBVIOUS
  <2>1. contexts[j] \in Entry
    BY <1>2
  <2>2. j # erasing /\ open[c] = Null
    BY <1>4
  <2>3. contexts[j].uri = Null
    BY <1>2, <2>2 DEF EntriesDistinct
  <2> QED
    BY <2>1, <2>3 DEF Entry
<1>6. c # Null => \A a \in Blocks : ctx[a] # c
  <2> SUFFICES ASSUME NEW a \in Blocks, ctx[a] = c, c # Null PROVE FALSE
    OBVIOUS
  <2>1. Registered(a) /\ ctx[a] # Null
    BY DEF Holds
  <2> QED
    BY <1>2, <1>5, <2>1 DEF AllRegistered
<1>7. c # Null => open'[c] = UriOf[b]
  BY DEF TypeOK
<1>8. \A d \in Contexts : d # c => open'[d] = open[d]
  BY DEF TypeOK
<1>9. OneAtATime' /\ Holds'
  BY <1>1 DEF OneAtATime, Holds, TypeOK, Registered
<1>10. EntriesDistinct'
  <2>1. ASSUME NEW j \in 1..n PROVE contexts[j].ctx \in Contexts \cup {Null}
    <3>1. contexts[j] \in Entry
      BY <1>2
    <3> QED
      BY <3>1 DEF Entry
  <2>2. \A i, j \in 1..(n + 1) : contexts'[i].uri = contexts'[j].uri => i = j
    BY <1>2, <1>3, <1>4 DEF EntriesDistinct
  <2>3. \A i, j \in 1..(n + 1) :
          contexts'[i].ctx = contexts'[j].ctx /\ contexts'[i].ctx # Null => i = j
    BY <1>2, <1>3, <1>5 DEF EntriesDistinct
  <2>4. \A i \in 1..(n + 1) : contexts'[i].ctx # Null =>
          open'[contexts'[i].ctx] = contexts'[i].uri
    <3> SUFFICES ASSUME NEW i \in 1..(n + 1), contexts'[i].ctx # Null
                 PROVE  open'[contexts'[i].ctx] = contexts'[i].uri
      OBVIOUS
    <3>1. CASE i = n + 1
      BY <1>3, <1>7, <3>1
    <3>2. CASE i \in 1..n
      <4>1. contexts[i].ctx \in Contexts /\ contexts[i].ctx # c /\ contexts'[i] = contexts[i]
        BY <1>3, <1>5, <2>1, <3>2
      <4>2. i # erasing /\ open[contexts[i].ctx] = contexts[i].uri
        BY <1>2, <1>4, <3>2, <4>1 DEF EntriesDistinct
      <4> QED
        BY <1>8, <4>1, <4>2
    <3> QED
      BY <1>2, <3>1, <3>2
  <2> QED
    BY <1>3, <2>2, <2>3, <2>4 DEF EntriesDistinct
<1>11. AllRegistered'
  <2>1. ASSUME NEW d \in Contexts, open'[d] # Null
        PROVE  \E i \in 1..(n + 1) : i # erasing' /\ contexts'[i].ctx = d
    <3>1. CASE d = c
      BY <1>2, <1>3, <1>4, <3>1
    <3>2. CASE d # c
      <4>1. open[d] # Null
        BY <1>8, <2>1, <3>2
      <4> QED
        BY <1>2, <1>3, <4>1 DEF AllRegistered
    <3> QED
      BY <3>1, <3>2
  <2>2. ASSUME NEW a \in Blocks, Registered(a), ctx'[a] # Null
        PROVE  \E i \in 1..(n + 1) :
                 contexts'[i].ctx = ctx'[a] /\ contexts'[i].uri = UriOf[a]
    <3>1. CASE a = b
      <4>1. /\ contexts'[n + 1].ctx = ctx'[a] /\ contexts'[n + 1].uri = UriOf[a]
            /\ n + 1 \in 1..(n + 1)
        BY <1>1, <1>2, <1>3, <3>1 DEF TypeOK
      <4> QED
        BY <4>1
    <3>2. CASE a # b
      <4>1. ctx'[a] = ctx[a]
        BY <1>1, <3>2 DEF TypeOK
      <4> QED
        BY <1>2, <1>3, <2>2, <4>1 DEF AllRegistered
    <3> QED
      BY <3>1, <3>2
  <2> QED
    BY <1>3, <2>1, <2>2 DEF AllRegistered, Registered
<1>12. InProgress'
  BY <1>1, <1>2, <1>3, <1>4 DEF InProgress, OneAtATime, TypeOK
<1>13. CountsCover'
  <2> SUFFICES ASSUME NEW j \in 1..(n + 1), contexts'[j].ctx # Null
               PROVE  Counted(contexts'[j].count, ctx', leaked', contexts'[j].ctx)
    BY <1>3 DEF CountsCover, Counted
  <2>1. CASE j = n + 1
    <3>1. c # Null /\ contexts'[j].ctx = c /\ contexts'[j].count = 1
      BY <1>3, <2>1
    <3>2. Cardinality(Holders(ctx', c)) = Cardinality(Holders(ctx, c)) + 1
      <4>1. ctx[b] # c /\ ctx'[b] = c /\ Others(ctx, ctx', b)
        BY <1>1, <3>1 DEF Others, TypeOK
      <4> QED
        BY <4>1, HolderJoins
    <3>3. Cardinality(Holders(ctx, c)) = 0
      BY <1>6, <3>1, NoHolders
    <3>4. leaked'[c] = 0
      BY <3>1 DEF ClosedIsClean
    <3> QED
      BY <3>1, <3>2, <3>3, <3>4 DEF Counted
  <2>2. CASE j \in 1..n
    <3>1. contexts'[j] = contexts[j] /\ contexts[j] \in Entry
      BY <1>2, <1>3, <2>2
    <3>2. contexts[j].ctx # c
      BY <1>5, <2>2, <3>1
    <3>3. Holders(ctx', contexts[j].ctx) = Holders(ctx, contexts[j].ctx)
      <4>1. contexts[j].ctx # Null
        BY <3>1
      <4> QED
        BY <1>1, <3>2, <4>1 DEF Holders, TypeOK
    <3> QED
      BY <1>2, <2>2, <3>1, <3>3 DEF CountsCover, Counted
  <2> QED
    BY <1>2, <2>1, <2>2
<1>14. ClosedIsClean'
  BY <1>8 DEF ClosedIsClean, TypeOK, RInv
<1> QED
  BY <1>9, <1>10, <1>11, <1>12, <1>13, <1>14

LEMMA ConnectHolds ==
  ASSUME Sequential, RInv, TypeOK', NEW b \in Blocks,
         ConnectFails(b) \/ \E c \in Contexts : Connect(b, c)
  PROVE  RInv'
  BY RegisterHolds DEF ConnectFails, Connect

(* make_from(): the application's context is in no entry.                  *)
LEMMA MakeFromHolds ==
  ASSUME Sequential, RInv, TypeOK', NEW b \in Blocks, MakeFrom(b)
  PROVE  RInv'
<1> USE DEF Sequential, RInv
<1>1. /\ pc[b] = "absent" /\ ctx[b] = Null /\ ~Registered(b) /\ MayStep(b)
      /\ pc' = [pc EXCEPT ![b] = "building"] /\ ctx' = [ctx EXCEPT ![b] = AppContext]
      /\ UNCHANGED <<contexts, erasing, open, it, leaked>>
  BY DEF MakeFrom, Becomes, Holds
<1>2. OneAtATime' /\ Holds'
  BY <1>1 DEF TypeOK, OneAtATime, MayStep, Holds, Registered
<1>3. EntriesDistinct' /\ AllRegistered' /\ InProgress' /\ ClosedIsClean'
  BY <1>1 DEF EntriesDistinct, AllRegistered, InProgress, ClosedIsClean, TypeOK, Registered
<1>4. CountsCover'
  <2> SUFFICES ASSUME NEW j \in DOMAIN contexts, contexts[j].ctx # Null
               PROVE  Counted(contexts[j].count, ctx', leaked', contexts[j].ctx)
    BY <1>1 DEF CountsCover, Counted
  <2>1. contexts[j] \in Entry
    BY DEF TypeOK
  <2>2. contexts[j].ctx \in Contexts
    BY <2>1 DEF Entry
  <2>3. Holders(ctx', contexts[j].ctx) = Holders(ctx, contexts[j].ctx)
    BY <1>1, <2>2 DEF Holders, TypeOK
  <2> QED
    BY <1>1, <2>3 DEF CountsCover, Counted
<1> QED
  BY <1>2, <1>3, <1>4

(* A block goes on to its next stage, and nothing else changes.            *)
LEMMA StageHolds ==
  ASSUME Sequential, RInv, TypeOK', NEW b \in Blocks,
         Built(b) \/ DerivedFails(b) \/ (Destroy(b) /\ Kind[b] # "attr")
  PROVE  RInv'
<1> USE DEF Sequential, RInv
<1>1. PICK state \in {"alive", "removing"} :
        /\ pc[b] \in {"building", "alive"} /\ pc' = [pc EXCEPT ![b] = state]
        /\ UNCHANGED <<contexts, erasing, open, ctx, it, leaked>> /\ ctx[b] # Null
        /\ \A other \in Blocks \ {b} : pc[other] \in {"absent", "alive"}
  BY DEF Built, DerivedFails, Destroy, MayStep, OneAtATime, Holds
<1>2. OneAtATime' /\ Holds'
  BY <1>1 DEF TypeOK, OneAtATime, Holds, Registered
<1>3. EntriesDistinct' /\ AllRegistered' /\ InProgress' /\ CountsCover' /\ ClosedIsClean'
  BY <1>1 DEF EntriesDistinct, AllRegistered, InProgress, CountsCover, ClosedIsClean, TypeOK, Registered
<1> QED
  BY <1>2, <1>3

(* The entry of a block that is not erasing it is not being erased.        *)
LEMMA NotErased ==
  ASSUME Sequential, RInv, NEW b \in Blocks, Registered(b), ctx[b] # Null,
         pc[b] # "erasing"
  PROVE  \E i \in DOMAIN contexts :
           /\ i # erasing /\ contexts[i].ctx = ctx[b] /\ contexts[i].uri = UriOf[b]
           /\ ctx[b] \in Contexts
<1>1. ctx[b] # AppContext /\ ctx[b] \in Contexts
  BY DEF RInv, Holds, TypeOK
<1>2. PICK i \in DOMAIN contexts : contexts[i].ctx = ctx[b] /\ contexts[i].uri = UriOf[b]
  BY <1>1 DEF RInv, AllRegistered
<1>3. i # erasing
  <2> SUFFICES ASSUME i = erasing PROVE FALSE
    OBVIOUS
  <2>1. PICK a \in Blocks : pc[a] = "erasing" /\ contexts[i].count = 1 /\ ctx[a] = ctx[b]
    BY <1>2 DEF RInv, InProgress, TypeOK
  <2>2. Cardinality(Holders(ctx, ctx[b])) <= 1
    BY <1>1, <1>2, <2>1, CountBounds DEF RInv
  <2>3. a = b
    BY <2>1, <2>2, OnlyHolder DEF Sequential
  <2> QED
    BY <2>1, <2>3
<1> QED
  BY <1>1, <1>2, <1>3

(* A block goes and leaves its count behind: a constructor threw, or an    *)
(* attribute block was destroyed.                                          *)
LEMMA Leaves ==
  ASSUME Sequential, RInv, NEW b \in Blocks,
         \/ NoContext(b) \/ LookupFails(b) \/ SetupFails(b)
         \/ (Destroy(b) /\ Kind[b] = "attr")
  PROVE  /\ pc[b] \in {"building", "alive"} /\ pc' = [pc EXCEPT ![b] = "absent"]
         /\ ctx' = [ctx EXCEPT ![b] = Null] /\ LeavesItsCount(b)
         /\ UNCHANGED <<contexts, erasing, open, it>>
<1>1. CASE NoContext(b)
  BY <1>1 DEF NoContext, Becomes, LeavesItsCount
<1>2. CASE LookupFails(b)
  BY <1>2 DEF LookupFails, Becomes, Sequential
<1> QED
  BY <1>1, <1>2 DEF SetupFails, Destroy, Becomes

LEMMA LeaveHolds ==
  ASSUME Sequential, RInv, TypeOK', NEW b \in Blocks,
         \/ NoContext(b) \/ LookupFails(b) \/ SetupFails(b)
         \/ (Destroy(b) /\ Kind[b] = "attr")
  PROVE  RInv'
<1> USE DEF Sequential, RInv
<1>1. /\ pc[b] \in {"building", "alive"} /\ pc' = [pc EXCEPT ![b] = "absent"]
      /\ ctx' = [ctx EXCEPT ![b] = Null] /\ LeavesItsCount(b)
      /\ UNCHANGED <<contexts, erasing, open, it>>
  BY Leaves
<1>2. OneAtATime' /\ Holds'
  BY <1>1 DEF TypeOK, OneAtATime, Holds, Registered
<1>3. EntriesDistinct' /\ AllRegistered' /\ InProgress'
  <2>1. EntriesDistinct'
    BY <1>1 DEF EntriesDistinct
  <2>2. AllRegistered'
    BY <1>1 DEF AllRegistered, TypeOK, Registered
  <2>3. InProgress'
    BY <1>1 DEF InProgress, TypeOK
  <2> QED
    BY <2>1, <2>2, <2>3
<1>4. CountsCover'
  BY <1>1, CountsAfterLeak
<1>5. ClosedIsClean'
  <2> SUFFICES ASSUME NEW c \in Contexts, open[c] = Null PROVE leaked'[c] = 0
    BY <1>1 DEF ClosedIsClean
  <2>1. ctx[b] # c
    <3> SUFFICES ASSUME ctx[b] = c PROVE FALSE
      OBVIOUS
    <3>1. Registered(b) /\ pc[b] \in {"building", "alive"} /\ ctx[b] # Null
      BY <1>1 DEF Holds
    <3>2. PICK i \in DOMAIN contexts : i # erasing /\ contexts[i].ctx = c
      BY <1>1, <3>1, NotErased
    <3>3. contexts[i] \in Entry
      BY <3>2 DEF TypeOK
    <3> QED
      BY <3>1, <3>2, <3>3 DEF EntriesDistinct, Entry
  <2>2. leaked'[c] = leaked[c]
    BY <1>1, <2>1 DEF LeavesItsCount, TypeOK
  <2> QED
    BY <2>2 DEF ClosedIsClean
<1> QED
  BY <1>2, <1>3, <1>4, <1>5

(* remove_ctx_history(): the block holds the context of one entry at most, *)
(* and counts it down or closes it.                                        *)
LEMMA RemoveBorrowed ==
  ASSUME Sequential, RInv, NEW b \in Blocks, RemoveCtxHistory(b), ~Registered(b)
  PROVE  /\ UNCHANGED <<contexts, erasing, open, it, leaked>> /\ ctx[b] = AppContext
         /\ pc' = [pc EXCEPT ![b] = "absent"] /\ ctx' = [ctx EXCEPT ![b] = Null]
<1> USE DEF RInv
<1>1. ctx[b] = AppContext
  BY DEF RemoveCtxHistory, Holds
<1>2. OfCtx(ctx[b]) = {}
  <2> SUFFICES ASSUME NEW i \in DOMAIN contexts, contexts[i].ctx = AppContext PROVE FALSE
    BY <1>1 DEF OfCtx
  <2>1. contexts[i] \in Entry
    BY DEF TypeOK
  <2> QED
    BY <2>1 DEF Entry
<1>3. contexts' = [i \in DOMAIN contexts |-> contexts[i]]
  BY <1>2 DEF RemoveCtxHistory
<1> QED
  BY <1>1, <1>2, <1>3 DEF RemoveCtxHistory, Becomes, TypeOK

LEMMA RemoveRegistered ==
  ASSUME Sequential, RInv, NEW b \in Blocks, RemoveCtxHistory(b), Registered(b)
  PROVE  \E i \in DOMAIN contexts :
           /\ ctx[b] \in Contexts /\ contexts[i].ctx = ctx[b] /\ contexts[i].uri = UriOf[b]
           /\ \/ /\ contexts[i].count = 1
                 /\ contexts' = contexts /\ erasing' = i /\ UNCHANGED ctx
                 /\ pc' = [pc EXCEPT ![b] = "erasing"]
                 /\ open' = [open EXCEPT ![ctx[b]] = Null]
              \/ /\ contexts[i].count # 1
                 /\ contexts' = [contexts EXCEPT ![i] = [contexts[i] EXCEPT !.count = contexts[i].count - 1]]
                 /\ UNCHANGED <<erasing, open>>
                 /\ pc' = [pc EXCEPT ![b] = "absent"] /\ ctx' = [ctx EXCEPT ![b] = Null]
<1> USE DEF RInv
<1>1. ctx[b] # Null /\ contexts \in Seq(Entry) /\ DOMAIN contexts = 1..Len(contexts)
  BY DEF RemoveCtxHistory, Holds, TypeOK
<1>2. PICK i \in 1..Len(contexts) : contexts[i].ctx = ctx[b] /\ contexts[i].uri = UriOf[b]
  BY <1>1 DEF AllRegistered
<1>3. OfCtx(ctx[b]) = {i} /\ ctx[b] \in Contexts
  BY <1>1, <1>2 DEF OfCtx, EntriesDistinct, Holds, TypeOK
<1> DEFINE last == {k \in OfCtx(ctx[b]) : IsLast(k)}
           counted == {k \in OfCtx(ctx[b]) : \A l \in last : k < l}
<1>4. CASE contexts[i].count = 1
  <2>1. last = {i} /\ counted = {}
    BY <1>2, <1>3, <1>4 DEF IsLast
  <2>2. /\ contexts' = [k \in DOMAIN contexts |-> contexts[k]]
        /\ erasing' = i /\ UNCHANGED ctx
        /\ pc' = [pc EXCEPT ![b] = "erasing"]
        /\ open' = [open EXCEPT ![ctx[b]] = Null]
    BY <1>2, <1>3, <2>1, LeastOfOne DEF RemoveCtxHistory, Close
  <2>3. contexts' = contexts
    BY <1>1, <2>2
  <2> QED
    BY <1>1, <1>2, <1>3, <1>4, <2>2, <2>3
<1>5. CASE contexts[i].count # 1
  <2>1. last = {} /\ counted = {i}
    BY <1>3, <1>5 DEF IsLast
  <2>2. /\ contexts' = [k \in DOMAIN contexts |-> IF k \in {i} THEN [contexts[k] EXCEPT !.count = @ - 1]
                                                  ELSE contexts[k]]
        /\ UNCHANGED <<erasing, open>>
        /\ pc' = [pc EXCEPT ![b] = "absent"] /\ ctx' = [ctx EXCEPT ![b] = Null]
    BY <2>1 DEF RemoveCtxHistory, Becomes
  <2>3. contexts' = [contexts EXCEPT ![i] = [contexts[i] EXCEPT !.count = contexts[i].count - 1]]
    BY <1>1, <1>2, <2>2
  <2> QED
    BY <1>1, <1>2, <1>3, <1>5, <2>2, <2>3
<1> QED
  BY <1>4, <1>5

LEMMA RemoveHolds ==
  ASSUME Sequential, RInv, TypeOK', NEW b \in Blocks, RemoveCtxHistory(b)
  PROVE  RInv'
<1> USE DEF Sequential, RInv
<1>1. /\ pc[b] = "removing" /\ erasing = 0 /\ ctx[b] # Null
      /\ DOMAIN contexts = 1..Len(contexts) /\ contexts \in Seq(Entry)
      /\ \A other \in Blocks \ {b} : pc[other] \in {"absent", "alive"}
      /\ UNCHANGED <<it, leaked>>
  BY DEF RemoveCtxHistory, Holds, TypeOK, OneAtATime
<1>2. CASE ~Registered(b)
  <2>1. /\ UNCHANGED <<contexts, erasing, open, it, leaked>> /\ ctx[b] = AppContext
        /\ pc' = [pc EXCEPT ![b] = "absent"] /\ ctx' = [ctx EXCEPT ![b] = Null]
    BY <1>2, RemoveBorrowed
  <2>2. OneAtATime' /\ Holds'
    BY <1>1, <2>1 DEF TypeOK, OneAtATime, Holds, Registered
  <2>3. EntriesDistinct' /\ AllRegistered' /\ InProgress' /\ ClosedIsClean'
    BY <1>1, <1>2, <2>1 DEF EntriesDistinct, AllRegistered, InProgress, ClosedIsClean, TypeOK, Registered
  <2>4. CountsCover'
    BY <2>1, CountsAfterLeak DEF LeavesItsCount
  <2> QED
    BY <2>2, <2>3, <2>4
<1>3. CASE Registered(b)
  <2>1. PICK i \in DOMAIN contexts :
          /\ ctx[b] \in Contexts /\ contexts[i].ctx = ctx[b] /\ contexts[i].uri = UriOf[b]
          /\ \/ /\ contexts[i].count = 1
                /\ contexts' = contexts /\ erasing' = i /\ UNCHANGED ctx
                /\ pc' = [pc EXCEPT ![b] = "erasing"]
                /\ open' = [open EXCEPT ![ctx[b]] = Null]
             \/ /\ contexts[i].count # 1
                /\ contexts' = [contexts EXCEPT ![i] = [contexts[i] EXCEPT !.count = contexts[i].count - 1]]
                /\ UNCHANGED <<erasing, open>>
                /\ pc' = [pc EXCEPT ![b] = "absent"] /\ ctx' = [ctx EXCEPT ![b] = Null]
    BY <1>3, RemoveRegistered
  <2>2. CASE erasing' = i /\ contexts' = contexts
    <3>1. /\ contexts[i].count = 1 /\ UNCHANGED ctx /\ i # 0
          /\ pc' = [pc EXCEPT ![b] = "erasing"]
          /\ open' = [open EXCEPT ![ctx[b]] = Null]
      BY <1>1, <2>1, <2>2
    <3>2. OneAtATime' /\ Holds'
      BY <1>1, <3>1 DEF OneAtATime, Holds, Registered, TypeOK
    <3>3. EntriesDistinct'
      <4>1. \A j \in DOMAIN contexts : contexts[j].ctx \in Contexts \cup {Null}
        <5> TAKE j \in DOMAIN contexts
        <5>1. contexts[j] \in Entry
          BY <1>1
        <5> QED
          BY <5>1 DEF Entry
      <4>2. \A j \in DOMAIN contexts : j # i /\ contexts[j].ctx # Null =>
              open'[contexts[j].ctx] = contexts[j].uri
        <5> SUFFICES ASSUME NEW j \in DOMAIN contexts, j # i, contexts[j].ctx # Null
                     PROVE  open'[contexts[j].ctx] = contexts[j].uri
          OBVIOUS
        <5>1. contexts[j].ctx # ctx[b]
          BY <2>1 DEF EntriesDistinct
        <5>2. open[contexts[j].ctx] = contexts[j].uri
          BY <1>1 DEF EntriesDistinct, TypeOK
        <5>3. open'[contexts[j].ctx] = open[contexts[j].ctx]
          BY <3>1, <4>1, <5>1 DEF TypeOK
        <5> QED
          BY <5>2, <5>3
      <4> QED
        BY <2>2, <4>2 DEF EntriesDistinct
    <3>4. AllRegistered'
      <4>1. ASSUME NEW c \in Contexts, open'[c] # Null
            PROVE  \E k \in DOMAIN contexts : k # i /\ contexts[k].ctx = c
        <5>1. c # ctx[b] /\ open[c] # Null
          BY <2>1, <3>1, <4>1 DEF TypeOK
        <5> QED
          BY <2>1, <5>1 DEF AllRegistered
      <4> QED
        BY <2>2, <3>1, <4>1 DEF AllRegistered, Registered
    <3>5. InProgress'
      BY <1>1, <2>1, <2>2, <3>1 DEF InProgress, TypeOK
    <3>6. CountsCover'
      BY <1>1, <2>2, <3>1 DEF CountsCover
    <3>7. ClosedIsClean'
      <4>1. /\ Cardinality(Holders(ctx, ctx[b])) \in Nat /\ leaked[ctx[b]] \in Nat
            /\ Cardinality(Holders(ctx, ctx[b])) + leaked[ctx[b]] = 1
        BY <1>1, <2>1, <3>1, CountBounds
      <4>2. Cardinality(Holders(ctx, ctx[b])) # 0
        BY SomeHolder
      <4>3. leaked[ctx[b]] = 0
        BY <4>1, <4>2
      <4> QED
        BY <1>1, <2>1, <3>1, <4>3 DEF ClosedIsClean, TypeOK
    <3> QED
      BY <3>2, <3>3, <3>4, <3>5, <3>6, <3>7
  <2>3. CASE UNCHANGED erasing /\ contexts[i].count # 1
    <3>1. /\ contexts' = [contexts EXCEPT ![i] = [contexts[i] EXCEPT !.count = contexts[i].count - 1]]
          /\ UNCHANGED open
          /\ pc' = [pc EXCEPT ![b] = "absent"] /\ ctx' = [ctx EXCEPT ![b] = Null]
      BY <2>1, <2>3
    <3>2. contexts[i].count \in Nat /\ contexts[i] \in Entry /\ contexts[i].count - 1 \in 1..MaxCount
      <4>1. contexts[i] \in Entry
        BY <1>1
      <4> QED
        BY <2>3, <4>1 DEF Entry
    <3>3. /\ DOMAIN contexts' = DOMAIN contexts
          /\ contexts'[i].count = contexts[i].count - 1
          /\ \A j \in DOMAIN contexts :
               /\ contexts'[j].uri = contexts[j].uri /\ contexts'[j].ctx = contexts[j].ctx
               /\ j # i => contexts'[j] = contexts[j]
      <4>1. /\ DOMAIN contexts' = DOMAIN contexts
            /\ contexts'[i] = [contexts[i] EXCEPT !.count = contexts[i].count - 1]
            /\ \A j \in DOMAIN contexts : j # i => contexts'[j] = contexts[j]
        BY <2>1, <3>1
      <4>2. /\ contexts'[i].uri = contexts[i].uri /\ contexts'[i].ctx = contexts[i].ctx
            /\ contexts'[i].count = contexts[i].count - 1
        BY <3>2, <4>1, CountedEntry
      <4> QED
        BY <4>1, <4>2
    <3>4. OneAtATime' /\ Holds'
      BY <1>1, <3>1 DEF TypeOK, OneAtATime, Holds, Registered
    <3>5. EntriesDistinct'
      BY <2>3, <3>1, <3>3 DEF EntriesDistinct
    <3>6. AllRegistered'
      <4>1. ASSUME NEW a \in Blocks, Registered(a), ctx'[a] # Null
            PROVE  \E k \in DOMAIN contexts :
                     contexts'[k].ctx = ctx'[a] /\ contexts'[k].uri = UriOf[a]
        <5>1. ctx'[a] = ctx[a]
          BY <3>1, <4>1 DEF TypeOK
        <5> QED
          BY <3>3, <4>1, <5>1 DEF AllRegistered
      <4> QED
        BY <2>3, <3>1, <3>3, <4>1 DEF AllRegistered, Registered
    <3>7. InProgress' /\ ClosedIsClean'
      BY <1>1, <2>3, <3>1, <3>3 DEF InProgress, ClosedIsClean, TypeOK
    <3>8. CountsCover'
      <4> SUFFICES ASSUME NEW j \in DOMAIN contexts, contexts[j].ctx # Null
                   PROVE  Counted(contexts'[j].count, ctx', leaked', contexts[j].ctx)
        BY <3>3 DEF CountsCover, Counted
      <4>1. Counted(contexts[j].count, ctx, leaked, contexts[j].ctx)
        BY DEF CountsCover
      <4>2. CASE j = i
        <5>1. /\ Cardinality(Holders(ctx, ctx[b])) \in Nat
              /\ Cardinality(Holders(ctx', ctx[b])) = Cardinality(Holders(ctx, ctx[b])) - 1
          <6>1. ctx'[b] # ctx[b] /\ Others(ctx, ctx', b)
            BY <1>1, <3>1 DEF Others, TypeOK
          <6> QED
            BY <6>1, HolderLeaves
        <5>2. leaked[ctx[b]] \in Nat
          BY <2>1 DEF TypeOK
        <5>3. contexts[i].count = Cardinality(Holders(ctx, ctx[b])) + leaked[ctx[b]]
          BY <2>1, <4>1, <4>2 DEF Counted
        <5>4. contexts'[i].count = Cardinality(Holders(ctx', ctx[b])) + leaked'[ctx[b]]
          BY <1>1, <3>2, <3>3, <5>1, <5>2, <5>3
        <5> QED
          BY <2>1, <4>2, <5>4 DEF Counted
      <4>3. CASE j # i
        <5>1. contexts[j].ctx # ctx[b]
          BY <2>1, <4>3 DEF EntriesDistinct
        <5>2. Holders(ctx', contexts[j].ctx) = Holders(ctx, contexts[j].ctx)
          BY <3>1, <5>1 DEF Holders, TypeOK
        <5> QED
          BY <1>1, <3>3, <4>1, <4>3, <5>2 DEF Counted
      <4> QED
        BY <4>2, <4>3
    <3> QED
      BY <3>4, <3>5, <3>6, <3>7, <3>8
  <2> QED
    BY <2>1, <2>2, <2>3
<1> QED
  BY <1>2, <1>3

(* remove_ctx_history() erases the entry of the closed context.            *)
LEMMA EraseHolds ==
  ASSUME Sequential, RInv, TypeOK', NEW b \in Blocks, Erase(b)
  PROVE  RInv'
<1> USE DEF Sequential, RInv
<1> DEFINE n == Len(contexts)
           was(k) == IF k < erasing THEN k ELSE k + 1
<1>1. /\ pc[b] = "erasing" /\ erasing \in 1..n
      /\ contexts[erasing].ctx = ctx[b] /\ contexts[erasing].count = 1 /\ ctx[b] # Null
      /\ contexts \in Seq(Entry) /\ n \in Nat \ {0} /\ DOMAIN contexts = 1..n
      /\ contexts' = Drop(contexts, erasing) /\ erasing' = 0
      /\ UNCHANGED <<open, it, leaked>>
      /\ pc' = [pc EXCEPT ![b] = "absent"] /\ ctx' = [ctx EXCEPT ![b] = Null]
      /\ \A other \in Blocks \ {b} : pc[other] \in {"absent", "alive"}
  BY DEF Erase, Becomes, InProgress, TypeOK, OneAtATime, Holds
<1>2. /\ DOMAIN contexts' = 1..(n - 1)
      /\ \A k \in 1..(n - 1) : contexts'[k] = contexts[was(k)] /\ was(k) \in (1..n) \ {erasing}
  BY <1>1 DEF Drop
<1>3. \A j \in (1..n) \ {erasing} : \E k \in 1..(n - 1) : was(k) = j
  <2> SUFFICES ASSUME NEW j \in (1..n) \ {erasing} PROVE \E k \in 1..(n - 1) : was(k) = j
    OBVIOUS
  <2>1. CASE j < erasing
    BY <1>1, <2>1
  <2>2. CASE j > erasing
    <3>1. j - 1 \in 1..(n - 1) /\ was(j - 1) = j
      BY <1>1, <2>2
    <3> QED
      BY <3>1
  <2> QED
    BY <1>1, <2>1, <2>2
<1>4. \A k, l \in 1..(n - 1) : was(k) = was(l) => k = l
  BY <1>1
<1>5. \A a \in Blocks : a # b => ctx[a] # ctx[b]
  <2>1. Cardinality(Holders(ctx, ctx[b])) <= 1
    BY <1>1, CountBounds
  <2> QED
    BY <2>1, OnlyHolder
<1> HIDE DEF was
<1>6. OneAtATime' /\ Holds'
  BY <1>1 DEF TypeOK, OneAtATime, Holds, Registered
<1>7. EntriesDistinct'
  <2>1. \A k, l \in 1..(n - 1) : contexts'[k].uri = contexts'[l].uri => k = l
    BY <1>1, <1>2, <1>4 DEF EntriesDistinct
  <2>2. \A k, l \in 1..(n - 1) :
          contexts'[k].ctx = contexts'[l].ctx /\ contexts'[k].ctx # Null => k = l
    BY <1>1, <1>2, <1>4 DEF EntriesDistinct
  <2>3. \A k \in 1..(n - 1) : contexts'[k].ctx # Null =>
          open'[contexts'[k].ctx] = contexts'[k].uri
    BY <1>1, <1>2 DEF EntriesDistinct
  <2> QED
    BY <1>2, <2>1, <2>2, <2>3 DEF EntriesDistinct
<1>8. AllRegistered'
  <2>1. ASSUME NEW c \in Contexts, open'[c] # Null
        PROVE  \E k \in 1..(n - 1) : k # erasing' /\ contexts'[k].ctx = c
    <3>1. PICK j \in (1..n) \ {erasing} : contexts[j].ctx = c
      BY <1>1, <2>1 DEF AllRegistered
    <3>2. PICK k \in 1..(n - 1) : was(k) = j
      BY <1>3
    <3> QED
      <4>1. contexts'[k] = contexts[j] /\ k # erasing'
        BY <1>1, <1>2, <3>2
      <4> QED
        BY <3>1, <4>1
  <2>2. ASSUME NEW a \in Blocks, Registered(a), ctx'[a] # Null
        PROVE  \E k \in 1..(n - 1) : contexts'[k].ctx = ctx'[a] /\ contexts'[k].uri = UriOf[a]
    <3>1. a # b /\ ctx'[a] = ctx[a]
      BY <1>1, <2>2 DEF TypeOK
    <3>2. PICK j \in 1..n : contexts[j].ctx = ctx[a] /\ contexts[j].uri = UriOf[a]
      BY <1>1, <2>2, <3>1 DEF AllRegistered
    <3>3. j # erasing
      BY <1>1, <1>5, <3>1, <3>2
    <3>4. PICK k \in 1..(n - 1) : was(k) = j
      BY <1>3, <3>3
    <3> QED
      BY <1>2, <3>1, <3>2, <3>4
  <2> QED
    BY <1>2, <2>1, <2>2 DEF AllRegistered, Registered
<1>9. InProgress' /\ ClosedIsClean'
  <2>1. \A a \in Blocks : pc'[a] \in {"absent", "alive"}
    BY <1>1 DEF TypeOK
  <2> QED
    BY <1>1, <1>2, <2>1 DEF InProgress, ClosedIsClean
<1>10. CountsCover'
  <2> SUFFICES ASSUME NEW k \in 1..(n - 1), contexts'[k].ctx # Null
               PROVE  Counted(contexts'[k].count, ctx', leaked', contexts'[k].ctx)
    BY <1>2 DEF CountsCover, Counted
  <2>1. contexts'[k] = contexts[was(k)] /\ was(k) \in (1..n) \ {erasing}
    BY <1>2
  <2>2. contexts[was(k)].ctx # ctx[b] /\ contexts[was(k)].ctx # Null
    BY <1>1, <2>1 DEF EntriesDistinct
  <2>3. Holders(ctx', contexts'[k].ctx) = Holders(ctx, contexts[was(k)].ctx)
    BY <1>1, <2>1, <2>2 DEF Holders, TypeOK
  <2> QED
    BY <1>1, <2>1, <2>2, <2>3 DEF CountsCover, Counted
<1> QED
  BY <1>6, <1>7, <1>8, <1>9, <1>10

-----------------------------------------------------------------------------
LEMMA Inductive ==
  ASSUME Sequential, RInv, [Next]_vars, TypeOK'
  PROVE  RInv'
<1>1. CASE UNCHANGED vars
  BY <1>1 DEF vars, RInv, OneAtATime, Holds, EntriesDistinct, AllRegistered,
              InProgress, CountsCover, ClosedIsClean
<1>2. CASE Next
  <2>1. PICK b \in Blocks : Step(b)
    BY <1>2 DEF Next
  <2> QED
    BY <2>1, GetContextHolds, ShareHolds, ConnectHolds, MakeFromHolds, StageHolds,
       LeaveHolds, RemoveHolds, EraseHolds DEF Step
<1> QED
  BY <1>1, <1>2

LEMMA Invariant == ASSUME Sequential PROVE Spec => []RInv
<1>1. Init => RInv
  BY InitHolds
<1>2. RInv /\ [Next]_vars /\ TypeOK' => RInv'
  BY Inductive
<1> QED
  BY <1>1, <1>2, RegistryTypeCorrect, PTL DEF Spec, Sequential

-----------------------------------------------------------------------------
(* With one thread. *)

(* remove_ctx_history(): the context under a block stays open, however the *)
(* blocks that share it come and go, fail to connect or to be set up, and  *)
(* leave counts behind.                                                    *)
THEOREM ContextOutlivesBlocks == ASSUME Sequential PROVE Spec => []SharesOpenContext
<1>1. RInv => SharesOpenContext
  <2> SUFFICES ASSUME RInv, NEW b \in Blocks, Registered(b), pc[b] = "alive"
               PROVE  ctx[b] \in Contexts /\ open[ctx[b]] = UriOf[b]
    BY DEF SharesOpenContext
  <2>1. PICK i \in DOMAIN contexts :
          /\ i # erasing /\ contexts[i].ctx = ctx[b] /\ contexts[i].uri = UriOf[b]
          /\ ctx[b] \in Contexts
    BY NotErased DEF RInv, Holds
  <2> QED
    BY <2>1 DEF RInv, EntriesDistinct
<1> QED
  BY <1>1, Invariant, PTL

(* get_context(): no URI is connected to twice, although the entry of a    *)
(* failed connection stays in the registry.                                *)
THEOREM UrisAreShared == ASSUME Sequential PROVE Spec => []OneContextPerUri
<1>1. RInv => OneContextPerUri
  <2> SUFFICES ASSUME RInv, NEW c \in Contexts, NEW d \in Contexts,
                      open[c] # Null, open[c] = open[d]
               PROVE  c = d
    BY DEF OneContextPerUri
  <2>1. PICK i \in DOMAIN contexts : i # erasing /\ contexts[i].ctx = c
    BY DEF RInv, AllRegistered
  <2>2. PICK j \in DOMAIN contexts : j # erasing /\ contexts[j].ctx = d
    BY DEF RInv, AllRegistered
  <2>3. contexts[i].uri = open[c] /\ contexts[j].uri = open[d]
    BY <2>1, <2>2 DEF RInv, EntriesDistinct
  <2> QED
    BY <2>1, <2>2, <2>3 DEF RInv, EntriesDistinct
<1> QED
  BY <1>1, Invariant, PTL

(* get_context(): what the registry offers for a URI is an open context to *)
(* that URI, or the NULL of a connection that failed.                      *)
THEOREM OffersOpenContexts == ASSUME Sequential PROVE Spec => []RegistryIsOpen
<1>1. RInv => RegistryIsOpen
  BY DEF RInv, EntriesDistinct, RegistryIsOpen
<1> QED
  BY <1>1, Invariant, PTL

(* get_context(), remove_ctx_history(): the count of an entry is, at every *)
(* moment, the blocks that hold its context and those that went without    *)
(* being counted down.                                                     *)
THEOREM CountsAreExact == ASSUME Sequential PROVE Spec => []CountsUsers
<1>1. RInv => CountsUsers
  BY DEF RInv, CountsCover, CountsUsers, Counted, Holders
<1> QED
  BY <1>1, Invariant, PTL

(* A context that is open is registered, and its count is not 0.           *)
LEMMA OpenIsHeld ==
  ASSUME Sequential, RInv, NEW c \in Contexts, open[c] # Null, leaked[c] = 0
  PROVE  \E b \in Blocks : ctx[b] = c
<1>1. PICK i \in DOMAIN contexts : contexts[i].ctx = c
  BY DEF RInv, AllRegistered
<1>2. /\ Cardinality(Holders(ctx, c)) \in Nat
      /\ Cardinality(Holders(ctx, c)) + leaked[c] = contexts[i].count
  BY <1>1, CountBounds
<1>3. contexts[i].count # 0
  <2>1. contexts[i] \in Entry
    BY <1>1 DEF RInv, TypeOK
  <2> QED
    BY <2>1 DEF Entry
<1> QED
  BY <1>2, <1>3, NoHolders

(* remove_ctx_history(): a context that no block left a count behind in is *)
(* closed when its last block goes.                                        *)
THEOREM NoContextLeaks == ASSUME Sequential PROVE Spec => []ClosedWithLastBlock
<1>1. RInv => ClosedWithLastBlock
  BY OpenIsHeld DEF ClosedWithLastBlock
<1> QED
  BY <1>1, Invariant, PTL

-----------------------------------------------------------------------------
(* The registry implements SharedContexts.  Becoming known to the registry *)
(* (Share, Connect) joins a context, counting down (RemoveCtxHistory)      *)
(* leaves it, going without counting down is to be forgotten; the rest of  *)
(* a block's life is invisible.                                            *)

(* A step that changes neither the open contexts nor who holds one.        *)
LEMMA HolderUnchanged ==
  ASSUME UNCHANGED <<open, leaked>>, \A b \in Blocks : Holder'[b] = Holder[b]
  PROVE  UNCHANGED Shared!vars
<1>1. Holder' = Holder
  BY DEF Holder
<1> QED
  BY <1>1 DEF Shared!vars

LEMMA StepOfHolder ==
  ASSUME RInv, NEW b \in Blocks, NEW c,
         Registered(b), ctx' = [ctx EXCEPT ![b] = c] , c = Null \/ pc'[b] # "erasing",
         \A other \in Blocks \ {b} : pc'[other] = pc[other]
  PROVE  Holder' = [Holder EXCEPT ![b] = c]
<1>1. \A a \in Blocks : Holder'[a] = IF a = b THEN c ELSE Holder[a]
  BY DEF Holder, Registered, RInv, TypeOK
<1>2. Holder = [a \in Blocks |-> Holder[a]] /\ Holder' = [a \in Blocks |-> Holder'[a]]
  BY DEF Holder
<1> QED
  BY <1>1, <1>2

LEMMA JoinRefined ==
  ASSUME Sequential, RInv, NEW b \in Blocks, Share(b), contexts[it[b]].ctx # Null
  PROVE  Shared!Next
<1> USE DEF RInv, Sequential
<1> DEFINE i == it[b]
<1>1. /\ pc[b] = "sharing" /\ ctx[b] = Null /\ Registered(b) /\ UNCHANGED <<open, leaked>>
      /\ \A other \in Blocks \ {b} : pc[other] \in {"absent", "alive"}
      /\ i \in DOMAIN contexts /\ contexts[i].uri = UriOf[b]
  BY DEF Share, Holds, InProgress, OneAtATime
<1>2. /\ pc' = [pc EXCEPT ![b] = "building"]
      /\ ctx' = [ctx EXCEPT ![b] = contexts[i].ctx]
  BY DEF Share, Becomes
<1>3. contexts[i].ctx \in Contexts
  <2>1. contexts[i] \in Entry
    BY <1>1 DEF TypeOK
  <2> QED
    BY <2>1 DEF Entry
<1>4. i # erasing
  <2>1. i # 0
    BY <1>1 DEF TypeOK
  <2> QED
    BY <1>1, <2>1 DEF InProgress
<1>5. contexts[i].ctx \in Shared!OpenTo(UriOf[b])
  BY <1>1, <1>3, <1>4 DEF Shared!OpenTo, EntriesDistinct
<1>6. pc'[b] # "erasing" /\ \A other \in Blocks \ {b} : pc'[other] = pc[other]
  BY <1>2 DEF TypeOK
<1>7. Holder' = [Holder EXCEPT ![b] = contexts[i].ctx] /\ Holder[b] = Null
  BY <1>1, <1>2, <1>6, StepOfHolder DEF Holder
<1>8. Shared!Join(b, contexts[i].ctx)
  BY <1>1, <1>5, <1>7 DEF Shared!Join
<1> QED
  BY <1>3, <1>8 DEF Shared!Next

LEMMA OpenRefined ==
  ASSUME Sequential, RInv, NEW b \in Blocks, NEW c \in Contexts, Connect(b, c)
  PROVE  Shared!Next
<1> USE DEF RInv, Sequential
<1>1. /\ pc[b] = "connecting" /\ ctx[b] = Null /\ Registered(b)
      /\ open[c] = Null /\ open' = [open EXCEPT ![c] = UriOf[b]] /\ UNCHANGED leaked
      /\ pc' = [pc EXCEPT ![b] = "building"] /\ ctx' = [ctx EXCEPT ![b] = c]
  BY DEF Connect, Register, Becomes, Holds
<1>2. Shared!OpenTo(UriOf[b]) = {}
  <2> SUFFICES ASSUME NEW d \in Contexts, open[d] = UriOf[b] PROVE FALSE
    BY DEF Shared!OpenTo
  <2>1. PICK i \in DOMAIN contexts : i # erasing /\ contexts[i].ctx = d
    BY DEF AllRegistered
  <2>2. contexts[i].uri = UriOf[b]
    BY <2>1 DEF EntriesDistinct
  <2> QED
    BY <1>1, <2>1, <2>2 DEF InProgress
<1>3. Holder' = [Holder EXCEPT ![b] = c] /\ Holder[b] = Null
  BY <1>1, StepOfHolder DEF Holder, TypeOK
<1>4. Shared!Join(b, c)
  BY <1>1, <1>2, <1>3 DEF Shared!Join
<1> QED
  BY <1>4 DEF Shared!Next

(* The last block closes the context, any other one leaves it open.        *)
LEMMA LeaveRefined ==
  ASSUME Sequential, RInv, NEW b \in Blocks, RemoveCtxHistory(b), Registered(b)
  PROVE  Shared!Next
<1> USE DEF RInv, Sequential
<1>1. PICK i \in DOMAIN contexts :
        /\ ctx[b] \in Contexts /\ contexts[i].ctx = ctx[b] /\ contexts[i].uri = UriOf[b]
        /\ \/ /\ contexts[i].count = 1
              /\ contexts' = contexts /\ erasing' = i /\ UNCHANGED ctx
              /\ pc' = [pc EXCEPT ![b] = "erasing"]
              /\ open' = [open EXCEPT ![ctx[b]] = Null]
           \/ /\ contexts[i].count # 1
              /\ contexts' = [contexts EXCEPT ![i] = [contexts[i] EXCEPT !.count = contexts[i].count - 1]]
              /\ UNCHANGED <<erasing, open>>
              /\ pc' = [pc EXCEPT ![b] = "absent"] /\ ctx' = [ctx EXCEPT ![b] = Null]
  BY RemoveRegistered
<1>2. /\ Cardinality(Holders(ctx, ctx[b])) \in Nat /\ leaked[ctx[b]] \in Nat
      /\ Cardinality(Holders(ctx, ctx[b])) + leaked[ctx[b]] = contexts[i].count
  BY <1>1, CountBounds
<1>3. /\ pc[b] = "removing" /\ ctx[b] # Null /\ UNCHANGED leaked
      /\ \A other \in Blocks \ {b} : pc[other] \in {"absent", "alive"}
  BY DEF RemoveCtxHistory, Holds, OneAtATime
<1>4. \A a \in Blocks : ctx[a] = ctx[b] => Holder[a] = ctx[a]
  BY <1>1, <1>3 DEF Holder, Holds, TypeOK
<1>5. \A a \in Blocks : Holder[a] = ctx[b] => ctx[a] = ctx[b]
  BY <1>3 DEF Holder
<1>6. Holder[b] = ctx[b]
  BY <1>4
<1>7. Holder' = [Holder EXCEPT ![b] = Null]
  <2>1. \A a \in Blocks : Holder'[a] = IF a = b THEN Null ELSE Holder[a]
    BY <1>1 DEF Holder, Registered, TypeOK
  <2> QED
    BY <2>1 DEF Holder
<1>8. contexts[i].count = 1 <=> Shared!IsLastToLeave(b)
  <2>1. Cardinality(Holders(ctx, ctx[b])) # 0
    BY SomeHolder
  <2>2. CASE contexts[i].count = 1
    <3>1. Cardinality(Holders(ctx, ctx[b])) <= 1 /\ leaked[ctx[b]] = 0
      BY <1>2, <2>1, <2>2
    <3>2. \A a \in Blocks : ctx[a] = ctx[b] => a = b
      BY <3>1, OnlyHolder
    <3> QED
      BY <1>5, <1>6, <2>2, <3>1, <3>2 DEF Shared!HeldWith, Shared!IsLastToLeave
  <2>3. CASE contexts[i].count # 1 /\ leaked[ctx[b]] = 0
    <3>1. Holders(ctx, ctx[b]) # {b}
      BY <1>2, <2>3, FS_Singleton
    <3>2. PICK a \in Blocks \ {b} : ctx[a] = ctx[b]
      BY <3>1 DEF Holders
    <3> QED
      BY <1>4, <1>6, <2>3, <3>2 DEF Shared!HeldWith, Shared!IsLastToLeave
  <2>4. CASE contexts[i].count # 1 /\ leaked[ctx[b]] # 0
    BY <1>6, <2>4 DEF Shared!IsLastToLeave
  <2> QED
    BY <2>2, <2>3, <2>4
<1>9. Shared!Leave(b)
  BY <1>1, <1>3, <1>6, <1>7, <1>8 DEF Shared!Leave
<1> QED
  BY <1>9 DEF Shared!Next

(* A block that goes without being counted down. *)
LEMMA ForgetRefined ==
  ASSUME Sequential, RInv, NEW b \in Blocks, Registered(b), ctx[b] # Null,
         LookupFails(b) \/ SetupFails(b) \/ (Destroy(b) /\ Kind[b] = "attr")
  PROVE  Shared!Next
<1> USE DEF RInv, Sequential
<1>1. /\ pc[b] \in {"building", "alive"} /\ pc' = [pc EXCEPT ![b] = "absent"]
      /\ ctx' = [ctx EXCEPT ![b] = Null] /\ LeavesItsCount(b) /\ UNCHANGED open
  BY Leaves
<1>2. ctx[b] \in Contexts
  BY DEF Holds, TypeOK
<1>3. \A other \in Blocks \ {b} : pc'[other] = pc[other]
  BY <1>1 DEF TypeOK
<1>4. Holder' = [Holder EXCEPT ![b] = Null] /\ Holder[b] = ctx[b]
  BY <1>1, <1>3, StepOfHolder DEF Holder
<1>5. leaked' = [leaked EXCEPT ![Holder[b]] = @ + 1]
  BY <1>1, <1>2, <1>4 DEF LeavesItsCount
<1>6. Shared!Forget(b)
  BY <1>1, <1>4, <1>5 DEF Shared!Forget
<1> QED
  BY <1>6 DEF Shared!Next

(* A step of a block that holds no context, or only moves on with its own. *)
LEMMA StutterRefined ==
  ASSUME Sequential, RInv, NEW b \in Blocks,
         \/ GetContext(b) \/ ConnectFails(b) \/ MakeFrom(b) \/ NoContext(b) \/ Built(b)
         \/ DerivedFails(b) \/ (Destroy(b) /\ Kind[b] # "attr") \/ Erase(b)
         \/ (Share(b) /\ contexts[it[b]].ctx = Null)
         \/ (RemoveCtxHistory(b) /\ ~Registered(b))
         \/ ((LookupFails(b) \/ SetupFails(b)) /\ ~Registered(b))
  PROVE  UNCHANGED Shared!vars
<1> USE DEF RInv, Sequential, Becomes
<1>1. ASSUME UNCHANGED <<open, leaked>>,
             \A a \in Blocks \ {b} : ctx'[a] = ctx[a] /\ pc'[a] = pc[a],
             Holder'[b] = Holder[b]
      PROVE  UNCHANGED Shared!vars
  <2>1. \A a \in Blocks : Holder'[a] = Holder[a]
    BY <1>1 DEF Holder, Registered
  <2> QED
    BY <1>1, <2>1, HolderUnchanged
<1>2. CASE ~Registered(b) /\ (MakeFrom(b) \/ RemoveCtxHistory(b) \/ LookupFails(b) \/ SetupFails(b))
  <2>1. CASE MakeFrom(b) \/ RemoveCtxHistory(b)
    <3>1. /\ UNCHANGED <<open, leaked>>
          /\ \A a \in Blocks \ {b} : ctx'[a] = ctx[a] /\ pc'[a] = pc[a]
      BY <1>2, <2>1, RemoveBorrowed DEF MakeFrom, TypeOK
    <3> QED
      BY <1>1, <1>2, <3>1 DEF Holder, Registered
  <2>2. CASE LookupFails(b) \/ SetupFails(b)
    <3>1. ctx[b] \notin Contexts
      BY <1>2 DEF Holds
    <3>2. /\ UNCHANGED <<open, leaked>>
          /\ \A a \in Blocks \ {b} : ctx'[a] = ctx[a] /\ pc'[a] = pc[a]
      BY <2>2, <3>1, Leaves DEF LeavesItsCount, TypeOK
    <3> QED
      BY <1>1, <1>2, <3>2 DEF Holder, Registered
  <2> QED
    BY <1>2, <2>1, <2>2
<1>3. CASE Built(b) \/ DerivedFails(b) \/ (Destroy(b) /\ Kind[b] # "attr")
  <2>1. /\ UNCHANGED <<open, ctx, leaked>> /\ pc[b] \in {"building", "alive"}
        /\ \/ pc' = [pc EXCEPT ![b] = "alive"]
           \/ pc' = [pc EXCEPT ![b] = "removing"]
    BY <1>3 DEF Built, DerivedFails, Destroy
  <2> QED
    BY <1>1, <2>1 DEF TypeOK, Holder, Registered
<1>4. CASE Erase(b)
  <2>1. /\ UNCHANGED <<open, leaked>> /\ pc[b] = "erasing" /\ ctx'[b] = Null
        /\ \A a \in Blocks \ {b} : ctx'[a] = ctx[a] /\ pc'[a] = pc[a]
    BY <1>4 DEF Erase, TypeOK
  <2> QED
    BY <1>1, <2>1 DEF Holder, Registered
<1>5. CASE \/ GetContext(b) \/ ConnectFails(b) \/ NoContext(b)
           \/ (Share(b) /\ contexts[it[b]].ctx = Null)
  <2>1. /\ UNCHANGED <<open, leaked>> /\ ctx[b] = Null
        /\ \A a \in Blocks \ {b} : ctx'[a] = ctx[a] /\ pc'[a] = pc[a]
    BY <1>5 DEF GetContext, Finds, FindsNothing, ConnectFails, Register, NoContext, Share,
                Holds, TypeOK
  <2>2. ctx'[b] = Null
    BY <1>5, <2>1 DEF GetContext, ConnectFails, Register, NoContext, Share, TypeOK
  <2> QED
    BY <1>1, <2>1, <2>2 DEF Holder, Registered
<1> QED
  BY <1>2, <1>3, <1>4, <1>5 DEF MakeFrom

(* get_context(), remove_ctx_history(): a URI is connected to only when no *)
(* context is open to it, and its last block closes it, in one step.       *)
THEOREM Refinement == ASSUME Sequential PROVE Spec => ImplementsSharedContexts
<1>1. Init => Shared!Init
  BY DEF Init, Shared!Init, Holder
<1>2. RInv /\ TypeOK' /\ [Next]_vars => [Shared!Next]_(Shared!vars)
  <2> SUFFICES ASSUME RInv, TypeOK', [Next]_vars PROVE [Shared!Next]_(Shared!vars)
    OBVIOUS
  <2>1. CASE UNCHANGED vars
    BY <2>1 DEF vars, Shared!vars, Holder
  <2>2. CASE Next
    <3>1. PICK b \in Blocks : Step(b)
      BY <2>2 DEF Next
    <3>2. CASE Share(b)
      BY <3>2, JoinRefined, StutterRefined
    <3>3. CASE LookupFails(b) \/ SetupFails(b)
      <4>1. ctx[b] # Null
        BY <3>3 DEF LookupFails, SetupFails
      <4> QED
        BY <3>3, <4>1, ForgetRefined, StutterRefined
    <3>4. CASE Destroy(b)
      <4>1. CASE Kind[b] = "attr"
        <5>1. ctx[b] # Null /\ Registered(b)
          BY <3>4, <4>1 DEF Destroy, RInv, Holds, Registered
        <5> QED
          BY <3>4, <4>1, <5>1, ForgetRefined
      <4> QED
        BY <3>4, <4>1, StutterRefined
    <3>5. CASE RemoveCtxHistory(b)
      BY <3>5, LeaveRefined, StutterRefined
    <3> QED
      BY <3>1, <3>2, <3>3, <3>4, <3>5, OpenRefined, StutterRefined DEF Step
  <2> QED
    BY <2>1, <2>2
<1>3. Spec => []RInv
  BY Invariant
<1> QED
  BY <1>1, <1>2, <1>3, RegistryTypeCorrect,
     PTL DEF Spec, Sequential, ImplementsSharedContexts, Shared!Spec
=============================================================================
