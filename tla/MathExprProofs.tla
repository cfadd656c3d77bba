--------------------------- MODULE MathExprProofs ---------------------------
(***************************************************************************)
(* What TLAPS proves of MathExpr, for texts of any length over any set of  *)
(* the symbols.                                                            *)
(***************************************************************************)
EXTENDS MathExpr, FiniteSetTheorems, TLAPS

USE MathAssumption

-----------------------------------------------------------------------------
(* The inductive invariant.                                                *)

Operators == Loose \cup Tight \cup Power
Leaves == {"in", "const"}
Terminals == Loose \cup Tight \cup {"IN_PORT", "VALUE", "FNAME", "POWER", "(", ")", "?", "end", "none"}
Grammatical == Terminals \cup Nonterminals \cup {"Line"}
Semantics == Nat \cup Symbols \cup {"2pi", "end"}
Entries == [sym : Grammatical, val : Semantics]
Nodes == [kind : Leaves \cup {"func", "neg"} \cup Operators, operands : Seq(Semantics)]

Typed ==
  /\ stack \in Seq(Entries)
  /\ nodes \in Seq(Nodes)
  /\ yylval \in Nat
  /\ token \in [type : Terminals, value : Semantics]
  /\ token.type \in Loose \cup FactorOps => token.value \in Operators

(* What may be where on the stack of the parser. *)
At(k) == IF k \in DOMAIN stack THEN stack[k].sym ELSE "bottom"

Grammar ==
  \A k \in DOMAIN stack :
    /\ At(k) \in FactorOps => At(k - 1) = "Factor"
    /\ At(k) \in Loose /\ At(k - 1) \in Nonterminals => At(k - 1) = "Term"
    /\ At(k) = ")" => At(k - 1) = "Term" /\ At(k - 2) = "("
    /\ At(k) \in {"Factor", "Term"} /\ At(k - 1) \in Loose => At(k - 2) = "Term"
    /\ At(k) = "Line" => Len(stack) = 1
    /\ At(k) \in Loose \cup FactorOps => stack[k].val \in Operators
    /\ At(k) \in Nonterminals => stack[k].val \in DOMAIN nodes

(* Each structure is held once: by the stack, by a later structure that is *)
(* connected to it, or by the output.                                      *)
OnStack(k, i) == k \in DOMAIN stack /\ stack[k].sym \in Nonterminals /\ stack[k].val = i
Operand(j, m, i) ==
  /\ j \in DOMAIN nodes /\ nodes[j].kind \notin Leaves
  /\ m \in DOMAIN nodes[j].operands /\ nodes[j].operands[m] = i

HeldOnce ==
  /\ \A i, k, l : OnStack(k, i) /\ OnStack(l, i) => k = l
  /\ \A i, j, m, k, l : Operand(j, m, i) /\ Operand(k, l, i) => j = k /\ m = l
  /\ \A i, j, m, k : ~(Operand(j, m, i) /\ OnStack(k, i))
  /\ \A j, m : ~Operand(j, m, output)
  /\ \A i \in DOMAIN nodes :
       (\E k : OnStack(k, i)) \/ (\E j, m : Operand(j, m, i)) \/ i = output

Earlier == \A i, j, m : Operand(j, m, i) => i \in 1..(j - 1)

LineIsOutput ==
  /\ output # 0 => Len(stack) = 1 /\ At(1) = "Line" /\ output \in DOMAIN nodes
  /\ output = 0 => At(1) # "Line"

(* The ports that are marked are those of the structures made for them. *)
Marked ==
  /\ \A i \in DOMAIN nodes : nodes[i].kind = "in" => \E port : nodes[i].operands = <<port>>
  /\ block.class = "math" =>
       \A port : port \in used <=> \E i \in DOMAIN nodes : nodes[i].kind = "in" /\ nodes[i].operands = <<port>>

MathInv == Typed /\ Grammar /\ HeldOnce /\ Earlier /\ LineIsOutput /\ Marked

-----------------------------------------------------------------------------
(* The stack.                                                              *)

(* The top of the stack is its last entry. *)
LEMMA TopOfStack ==
  ASSUME Typed
  PROVE  /\ Len(stack) \in Nat /\ DOMAIN stack = 1..Len(stack)
         /\ \A k \in Nat : At(Len(stack) - k) = Sym(k)
         /\ \A k \in Nat : Sym(k) # "bottom" => k < Len(stack)
         /\ \A k \in Nat : k < Len(stack) =>
              /\ Len(stack) - k \in DOMAIN stack
              /\ stack[Len(stack) - k].sym = Sym(k) /\ stack[Len(stack) - k].val = Val(k)
<1>1. Len(stack) \in Nat /\ DOMAIN stack = 1..Len(stack)
  BY DEF Typed
<1>2. ASSUME NEW k \in Nat PROVE At(Len(stack) - k) = Sym(k)
  <2>1. CASE k < Len(stack)
    BY <1>1, <2>1 DEF At, Sym, Entry
  <2>2. CASE ~(k < Len(stack))
    BY <1>1, <2>2 DEF At, Sym
  <2> QED
    BY <2>1, <2>2
<1>3. \A k \in Nat : Sym(k) # "bottom" => k < Len(stack)
  BY <1>1 DEF Sym
<1>4. \A k \in Nat : k < Len(stack) =>
        /\ Len(stack) - k \in DOMAIN stack
        /\ stack[Len(stack) - k].sym = Sym(k) /\ stack[Len(stack) - k].val = Val(k)
  BY <1>1 DEF Sym, Val, Entry
<1> QED
  BY <1>1, <1>2, <1>3, <1>4

LEMMA PushedStack ==
  ASSUME Typed, NEW n \in 0..Len(stack), NEW sym \in Grammatical, NEW val \in Semantics,
         stack' = Pushed(n, sym, val)
  PROVE  /\ stack' \in Seq(Entries)
         /\ Len(stack') = Len(stack) - n + 1
         /\ DOMAIN stack' = 1..(Len(stack) - n + 1)
         /\ stack'[Len(stack) - n + 1] = [sym |-> sym, val |-> val]
         /\ \A k \in 1..(Len(stack) - n) : stack'[k] = stack[k]
<1> DEFINE rest == SubSeq(stack, 1, Len(stack) - n)
           top == [sym |-> sym, val |-> val]
<1>1. stack \in Seq(Entries) /\ Len(stack) \in Nat /\ top \in Entries
  BY DEF Typed, Entries
<1>2. /\ rest \in Seq(Entries) /\ Len(rest) = Len(stack) - n
      /\ \A k \in 1..(Len(stack) - n) : rest[k] = stack[k]
  BY <1>1
<1>3. stack' = Append(rest, top)
  BY DEF Pushed
<1> HIDE DEF rest, top
<1>4. /\ stack' \in Seq(Entries) /\ Len(stack') = Len(stack) - n + 1
      /\ DOMAIN stack' = 1..(Len(stack) - n + 1)
      /\ stack'[Len(stack) - n + 1] = top
      /\ \A k \in 1..(Len(stack) - n) : stack'[k] = rest[k]
  BY <1>1, <1>2, <1>3
<1> QED
  BY <1>2, <1>4 DEF top

(* An entry that may replace the first n, when these are the structures.   *)
Fits(n, sym, val, structures) ==
  /\ n = 0 => Sym(0) # "Line"
  /\ sym \in FactorOps => Sym(n) = "Factor"
  /\ sym \in Loose /\ Sym(n) \in Nonterminals => Sym(n) = "Term"
  /\ sym = ")" => Sym(n) = "Term" /\ Sym(n + 1) = "("
  /\ sym \in {"Factor", "Term"} /\ Sym(n) \in Loose => Sym(n + 1) = "Term"
  /\ sym = "Line" => n = Len(stack)
  /\ sym \in Loose \cup FactorOps => val \in Operators
  /\ sym \in Nonterminals => val \in structures

LEMMA GrammarPushed ==
  ASSUME Typed, Grammar, NEW n \in 0..Len(stack), NEW sym \in Grammatical, NEW val \in Semantics,
         stack' = Pushed(n, sym, val),
         DOMAIN nodes \subseteq DOMAIN nodes',
         Fits(n, sym, val, DOMAIN nodes')
  PROVE  Grammar'
<1>1. /\ Len(stack) \in Nat /\ DOMAIN stack = 1..Len(stack)
      /\ At(Len(stack) - n) = Sym(n) /\ At(Len(stack) - (n + 1)) = Sym(n + 1)
      /\ At(Len(stack)) = Sym(0)
  <2>1. n \in Nat /\ n + 1 \in Nat /\ 0 \in Nat
    OBVIOUS
  <2>2. Len(stack) \in Nat /\ DOMAIN stack = 1..Len(stack)
    BY TopOfStack
  <2>3. At(Len(stack) - n) = Sym(n) /\ At(Len(stack) - (n + 1)) = Sym(n + 1) /\ At(Len(stack) - 0) = Sym(0)
    BY <2>1, TopOfStack
  <2> QED
    BY <2>2, <2>3
<1>0. PICK last \in Nat \ {0} : last = Len(stack) - n + 1
  BY <1>1
<1>2. /\ Len(stack') = last /\ DOMAIN stack' = 1..last
      /\ stack'[last] = [sym |-> sym, val |-> val]
      /\ \A k \in 1..(last - 1) : stack'[k] = stack[k]
  BY <1>0, <1>1, PushedStack
<1>3. last \in Nat \ {0} /\ last - 1 = Len(stack) - n /\ last - 2 = Len(stack) - (n + 1)
  BY <1>0, <1>1
<1>4. \A k \in Int : k < last => At(k)' = At(k)
  BY <1>1, <1>2, <1>3 DEF At
<1>5. At(last)' = sym /\ stack'[last].val = val
  BY <1>2, <1>3 DEF At
<1> SUFFICES ASSUME NEW k \in 1..last
             PROVE  /\ At(k)' \in FactorOps => At(k - 1)' = "Factor"
                    /\ At(k)' \in Loose /\ At(k - 1)' \in Nonterminals => At(k - 1)' = "Term"
                    /\ At(k)' = ")" => At(k - 1)' = "Term" /\ At(k - 2)' = "("
                    /\ At(k)' \in {"Factor", "Term"} /\ At(k - 1)' \in Loose => At(k - 2)' = "Term"
                    /\ At(k)' = "Line" => last = 1
                    /\ At(k)' \in Loose \cup FactorOps => stack'[k].val \in Operators
                    /\ At(k)' \in Nonterminals => stack'[k].val \in DOMAIN nodes'
  BY <1>2 DEF Grammar, FactorOps, Loose, Tight, Nonterminals, Operators, Power
<1>6. CASE k = last
  <2>1. At(k - 1)' = Sym(n) /\ At(k - 2)' = Sym(n + 1)
    BY <1>1, <1>3, <1>4, <1>6
  <2>2. sym = "Line" => last = 1
    BY <1>0, <1>1 DEF Fits
  <2> QED
    BY <1>5, <1>6, <2>1, <2>2 DEF Fits
<1>7. CASE k # last
  <2>1. k \in DOMAIN stack /\ k \in 1..(last - 1) /\ k \in Int
    BY <1>1, <1>3, <1>7
  <2>2. At(k)' = At(k) /\ At(k - 1)' = At(k - 1) /\ At(k - 2)' = At(k - 2) /\ stack'[k] = stack[k]
    BY <1>2, <1>3, <1>4, <2>1
  <2>3. /\ At(k) \in FactorOps => At(k - 1) = "Factor"
        /\ At(k) \in Loose /\ At(k - 1) \in Nonterminals => At(k - 1) = "Term"
        /\ At(k) = ")" => At(k - 1) = "Term" /\ At(k - 2) = "("
        /\ At(k) \in {"Factor", "Term"} /\ At(k - 1) \in Loose => At(k - 2) = "Term"
        /\ At(k) = "Line" => Len(stack) = 1
        /\ At(k) \in Loose \cup FactorOps => stack[k].val \in Operators
        /\ At(k) \in Nonterminals => stack[k].val \in DOMAIN nodes
    BY <2>1 DEF Grammar
  <2>4. At(k) # "Line"
    <3> SUFFICES ASSUME At(k) = "Line" PROVE FALSE
      OBVIOUS
    <3>0. Len(stack) = 1
      BY <2>3
    <3>1. k = 1 /\ n = 0
      BY <1>0, <1>1, <2>1, <3>0
    <3> QED
      BY <1>1, <2>1, <3>0, <3>1 DEF Fits
  <2> QED
    BY <2>2, <2>3, <2>4
<1> QED
  BY <1>6, <1>7

-----------------------------------------------------------------------------
(* Who holds the structures.                                               *)

LEMMA PushedHolds ==
  ASSUME Typed, NEW n \in 0..Len(stack), NEW sym \in Grammatical, NEW val \in Semantics,
         stack' = Pushed(n, sym, val)
  PROVE  \A k, i : OnStack(k, i)' <=>
           \/ k \in 1..(Len(stack) - n) /\ OnStack(k, i)
           \/ k = Len(stack) - n + 1 /\ sym \in Nonterminals /\ i = val
<1> SUFFICES ASSUME NEW k, NEW i
             PROVE OnStack(k, i)' <=>
                     \/ k \in 1..(Len(stack) - n) /\ OnStack(k, i)
                     \/ k = Len(stack) - n + 1 /\ sym \in Nonterminals /\ i = val
  OBVIOUS
<1>1. Len(stack) \in Nat /\ DOMAIN stack = 1..Len(stack)
  BY TopOfStack
<1>2. PICK last \in Nat \ {0} : last = Len(stack) - n + 1
  <2>1. Len(stack) - n + 1 \in Nat \ {0}
    BY <1>1
  <2> QED
    BY <2>1
<1>3. /\ DOMAIN stack' = 1..last /\ stack'[last] = [sym |-> sym, val |-> val]
      /\ \A l \in 1..(last - 1) : stack'[l] = stack[l]
  BY <1>1, <1>2, PushedStack
<1>4. ASSUME k = last PROVE OnStack(k, i)' <=> sym \in Nonterminals /\ i = val
  BY <1>3, <1>4 DEF OnStack
<1>5. ASSUME k \in 1..(last - 1) PROVE k # last /\ (OnStack(k, i)' <=> OnStack(k, i))
  BY <1>1, <1>2, <1>3, <1>5 DEF OnStack
<1>6. ASSUME k \notin 1..last PROVE ~OnStack(k, i)' /\ k # last
  BY <1>3, <1>6 DEF OnStack
<1>7. k \in 1..last => k = last \/ k \in 1..(last - 1)
  BY <1>2
<1>8. k \in 1..(Len(stack) - n) <=> k \in 1..(last - 1)
  BY <1>1, <1>2
<1>9. k = Len(stack) - n + 1 <=> k = last
  BY <1>2
<1> QED
  BY <1>4, <1>5, <1>6, <1>7, <1>8, <1>9

LEMMA SameNodes ==
  ASSUME nodes' = nodes
  PROVE  \A j, m, i : Operand(j, m, i)' <=> Operand(j, m, i)
  BY DEF Operand, Leaves

(* A terminal comes on top. *)
LEMMA HoldsShifted ==
  ASSUME Typed, HeldOnce, NEW sym \in Grammatical \ Nonterminals, NEW val \in Semantics,
         stack' = Pushed(0, sym, val), nodes' = nodes, output' = output
  PROVE  HeldOnce'
<1>1. Len(stack) \in Nat /\ DOMAIN stack = 1..Len(stack) /\ 0 \in 0..Len(stack) /\ Len(stack) - 0 = Len(stack)
  BY TopOfStack
<1>2. \A k, i : OnStack(k, i)' <=> k \in 1..Len(stack) /\ OnStack(k, i)
  BY <1>1, PushedHolds
<1>3. \A k, i : OnStack(k, i)' <=> OnStack(k, i)
  BY <1>1, <1>2 DEF OnStack
<1> QED
  BY <1>3, SameNodes DEF HeldOnce

(* The structure at q goes to the top; no other leaves the stack. *)
LEMMA HoldsMoved ==
  ASSUME Typed, HeldOnce, NEW n \in 1..Len(stack), NEW q \in (Len(stack) - n + 1)..Len(stack),
         At(q) \in Nonterminals,
         \A k \in (Len(stack) - n + 1)..Len(stack) : k # q => At(k) \notin Nonterminals,
         NEW sym \in Nonterminals, stack' = Pushed(n, sym, stack[q].val),
         nodes' = nodes, output' = output
  PROVE  HeldOnce'
<1>1. Len(stack) \in Nat /\ DOMAIN stack = 1..Len(stack) /\ q \in DOMAIN stack
  BY TopOfStack
<1>2. PICK last \in Nat \ {0} : last = Len(stack) - n + 1
  <2>1. Len(stack) - n + 1 \in Nat \ {0}
    BY <1>1
  <2> QED
    BY <2>1
<1>3. sym \in Grammatical /\ stack[q].val \in Semantics
  <2>1. sym \in Grammatical
    BY DEF Grammatical
  <2>2. stack[q] \in Entries
    BY <1>1 DEF Typed
  <2> QED
    BY <2>1, <2>2 DEF Entries
<1>4. \A k, i : OnStack(k, i)' <=>
        (k \in 1..(last - 1) /\ OnStack(k, i)) \/ (k = last /\ i = stack[q].val)
  <2>1. last - 1 = Len(stack) - n /\ n \in 0..Len(stack)
    BY <1>1, <1>2
  <2> QED
    BY <1>2, <1>3, <2>1, PushedHolds
<1>5. \A k, i : OnStack(k, i) => k \in 1..(last - 1) \/ k = q
  BY <1>1, <1>2 DEF OnStack, At
<1>6. \A i : OnStack(q, i) <=> i = stack[q].val
  BY <1>1 DEF OnStack, At
<1>7. q \notin 1..(last - 1)
  BY <1>2
<1>8. ASSUME NEW i, NEW k, NEW l, OnStack(k, i)', OnStack(l, i)' PROVE k = l
  BY <1>4, <1>6, <1>7, <1>8 DEF HeldOnce
<1>9. ASSUME NEW i, NEW j, NEW m, NEW k, Operand(j, m, i)', OnStack(k, i)' PROVE FALSE
  BY <1>4, <1>6, <1>9, SameNodes DEF HeldOnce
<1>10. ASSUME NEW i, NEW k, OnStack(k, i) PROVE \E l : OnStack(l, i)'
  BY <1>4, <1>5, <1>6, <1>10
<1> QED
  BY <1>8, <1>9, <1>10, SameNodes DEF HeldOnce

(* A structure that nothing is connected to yet comes to the top. *)
LEMMA HoldsLeaf ==
  ASSUME Typed, HeldOnce, Grammar, Earlier, output = 0, output' = 0,
         NEW n \in 1..Len(stack),
         \A k \in (Len(stack) - n + 1)..Len(stack) : At(k) \notin Nonterminals,
         NEW kind \in Leaves, NEW operands \in Seq(Semantics),
         nodes' = Append(nodes, [kind |-> kind, operands |-> operands]),
         stack' = Pushed(n, "Element", Newest)
  PROVE  HeldOnce' /\ Earlier'
<1>1. /\ Len(stack) \in Nat /\ DOMAIN stack = 1..Len(stack) /\ nodes \in Seq(Nodes)
      /\ Len(nodes) \in Nat /\ DOMAIN nodes = 1..Len(nodes)
  BY TopOfStack DEF Typed
<1>2. PICK last \in Nat \ {0} : last = Len(stack) - n + 1
  <2>1. Len(stack) - n + 1 \in Nat \ {0}
    BY <1>1
  <2> QED
    BY <2>1
<1>3. PICK new \in Nat \ {0} : new = Len(nodes) + 1
  <2>1. Len(nodes) + 1 \in Nat \ {0}
    BY <1>1
  <2> QED
    BY <2>1
<1>4. /\ DOMAIN nodes' = 1..new /\ nodes'[new] = [kind |-> kind, operands |-> operands]
      /\ \A j \in DOMAIN nodes : nodes'[j] = nodes[j]
  BY <1>1, <1>3
<1>5. \A k, i : OnStack(k, i)' <=> OnStack(k, i) \/ (k = last /\ i = new)
  <2>1. \A k, i : OnStack(k, i)' <=>
          (k \in 1..(last - 1) /\ OnStack(k, i)) \/ (k = last /\ i = new)
    <3>1. last - 1 = Len(stack) - n /\ n \in 0..Len(stack) /\ new \in Semantics
      BY <1>1, <1>2, <1>3 DEF Semantics
    <3>2. stack' = Pushed(n, "Element", new)
      BY <1>3 DEF Newest
    <3>3. "Element" \in Grammatical /\ "Element" \in Nonterminals
      BY DEF Grammatical, Nonterminals
    <3>4. \A k, i : OnStack(k, i)' <=>
            \/ k \in 1..(Len(stack) - n) /\ OnStack(k, i)
            \/ k = Len(stack) - n + 1 /\ "Element" \in Nonterminals /\ i = new
      BY <3>1, <3>2, <3>3, PushedHolds
    <3> QED
      BY <1>2, <3>1, <3>3, <3>4
  <2>2. \A k, i : OnStack(k, i) => k \in 1..(last - 1)
    BY <1>1, <1>2 DEF OnStack, At
  <2> QED
    BY <2>1, <2>2
<1>6. \A j, m, i : Operand(j, m, i)' <=> Operand(j, m, i)
  BY <1>1, <1>3, <1>4 DEF Operand, Leaves
<1>7. \A k, i : OnStack(k, i) => i \in DOMAIN nodes /\ k \in 1..(last - 1)
  BY <1>1, <1>2 DEF Grammar, OnStack, At
<1>8. \A j, m, i : Operand(j, m, i) => i \in DOMAIN nodes
  BY <1>1 DEF Earlier, Operand
<1>9. new \notin DOMAIN nodes /\ last \notin 1..(last - 1)
  BY <1>1, <1>3
<1>10. ASSUME NEW i, NEW k, NEW l, OnStack(k, i)', OnStack(l, i)' PROVE k = l
  BY <1>5, <1>7, <1>9, <1>10 DEF HeldOnce
<1>11. ASSUME NEW i, NEW j, NEW m, NEW k, Operand(j, m, i)', OnStack(k, i)' PROVE FALSE
  BY <1>5, <1>6, <1>8, <1>9, <1>11 DEF HeldOnce
<1>12. ASSUME NEW i \in DOMAIN nodes'
       PROVE (\E k : OnStack(k, i)') \/ (\E j, m : Operand(j, m, i)') \/ i = output
  <2>1. CASE i = new
    BY <1>5, <2>1
  <2>2. CASE i \in DOMAIN nodes
    BY <1>5, <1>6, <2>2 DEF HeldOnce
  <2> QED
    BY <1>1, <1>3, <1>4, <2>1, <2>2
<1> QED
  BY <1>6, <1>10, <1>11, <1>12 DEF HeldOnce, Earlier

(* The structures on the n top entries are the operands, each once. *)
Replaced(n, operands, at) ==
  /\ \A m \in DOMAIN operands :
       at[m] \in (Len(stack) - n + 1)..Len(stack) /\ OnStack(at[m], operands[m])
  /\ \A l, m \in DOMAIN operands : at[l] = at[m] => l = m
  /\ \A k \in (Len(stack) - n + 1)..Len(stack) :
       At(k) \in Nonterminals => \E m \in DOMAIN operands : at[m] = k

(* A structure that is connected to others on the stack replaces them. *)
LEMMA HoldsOperator ==
  ASSUME Typed, HeldOnce, Grammar, Earlier, output = 0, output' = 0,
         NEW n \in 1..Len(stack), NEW sym \in Nonterminals,
         NEW kind, kind \notin Leaves, NEW operands \in Seq(Semantics), NEW at,
         Replaced(n, operands, at),
         nodes' = Append(nodes, [kind |-> kind, operands |-> operands]),
         stack' = Pushed(n, sym, Newest)
  PROVE  HeldOnce' /\ Earlier'
<1>1. /\ Len(stack) \in Nat /\ DOMAIN stack = 1..Len(stack) /\ nodes \in Seq(Nodes)
      /\ Len(nodes) \in Nat /\ DOMAIN nodes = 1..Len(nodes)
  BY TopOfStack DEF Typed
<1>2. PICK last \in Nat \ {0} : last = Len(stack) - n + 1
  <2>1. Len(stack) - n + 1 \in Nat \ {0}
    BY <1>1
  <2> QED
    BY <2>1
<1>3. PICK new \in Nat \ {0} : new = Len(nodes) + 1
  <2>1. Len(nodes) + 1 \in Nat \ {0}
    BY <1>1
  <2> QED
    BY <2>1
<1>4. /\ DOMAIN nodes' = 1..new /\ nodes'[new] = [kind |-> kind, operands |-> operands]
      /\ \A j \in DOMAIN nodes : nodes'[j] = nodes[j]
  BY <1>1, <1>3
<1>5. new \notin DOMAIN nodes /\ last \notin 1..(last - 1)
  BY <1>1, <1>3
<1>6. \A k, i : OnStack(k, i)' <=> (k \in 1..(last - 1) /\ OnStack(k, i)) \/ (k = last /\ i = new)
  <2>1. last - 1 = Len(stack) - n /\ n \in 0..Len(stack) /\ new \in Semantics
    BY <1>1, <1>2, <1>3 DEF Semantics
  <2>2. stack' = Pushed(n, sym, new)
    BY <1>3 DEF Newest
  <2>3. sym \in Grammatical
    BY DEF Grammatical
  <2>4. \A k, i : OnStack(k, i)' <=>
          \/ k \in 1..(Len(stack) - n) /\ OnStack(k, i)
          \/ k = Len(stack) - n + 1 /\ sym \in Nonterminals /\ i = new
    BY <2>1, <2>2, <2>3, PushedHolds
  <2> QED
    BY <1>2, <2>1, <2>4
<1>7. \A j, m, i : Operand(j, m, i)' <=>
        Operand(j, m, i) \/ (j = new /\ m \in DOMAIN operands /\ operands[m] = i)
  BY <1>1, <1>3, <1>4 DEF Operand, Leaves
<1>8. \A k, i : OnStack(k, i) => i \in DOMAIN nodes
  BY DEF Grammar, OnStack, At
<1>9. \A j, m, i : Operand(j, m, i) => i \in DOMAIN nodes /\ j \in DOMAIN nodes
  BY <1>1 DEF Earlier, Operand
<1>10. \A m \in DOMAIN operands : at[m] \notin 1..(last - 1) /\ OnStack(at[m], operands[m])
  BY <1>1, <1>2 DEF Replaced
<1>11. \A k, i : OnStack(k, i) =>
         k \in 1..(last - 1) \/ \E m \in DOMAIN operands : at[m] = k /\ operands[m] = i
  <2> SUFFICES ASSUME NEW k, NEW i, OnStack(k, i), k \notin 1..(last - 1)
               PROVE  \E m \in DOMAIN operands : at[m] = k /\ operands[m] = i
    OBVIOUS
  <2>1. k \in (Len(stack) - n + 1)..Len(stack) /\ At(k) \in Nonterminals
    BY <1>1, <1>2 DEF OnStack, At
  <2>2. PICK m \in DOMAIN operands : at[m] = k
    BY <2>1 DEF Replaced
  <2>3. OnStack(k, operands[m])
    BY <2>2 DEF Replaced
  <2> QED
    BY <2>2, <2>3 DEF OnStack
<1>12. ASSUME NEW i, NEW k, NEW l, OnStack(k, i)', OnStack(l, i)' PROVE k = l
  BY <1>5, <1>6, <1>8, <1>12 DEF HeldOnce
<1>13. ASSUME NEW i, NEW j, NEW m, NEW k, NEW l, Operand(j, m, i)', Operand(k, l, i)'
       PROVE  j = k /\ m = l
  <2>1. CASE Operand(j, m, i) /\ Operand(k, l, i)
    BY <2>1 DEF HeldOnce
  <2>2. CASE Operand(j, m, i) /\ ~Operand(k, l, i)
    BY <1>7, <1>10, <1>13, <2>2 DEF HeldOnce
  <2>3. CASE ~Operand(j, m, i) /\ Operand(k, l, i)
    BY <1>7, <1>10, <1>13, <2>3 DEF HeldOnce
  <2>4. CASE ~Operand(j, m, i) /\ ~Operand(k, l, i)
    <3>1. /\ j = new /\ k = new
          /\ m \in DOMAIN operands /\ operands[m] = i /\ l \in DOMAIN operands /\ operands[l] = i
      BY <1>7, <1>13, <2>4
    <3>2. at[m] = at[l]
      BY <1>10, <3>1 DEF HeldOnce
    <3> QED
      BY <3>1, <3>2 DEF Replaced
  <2> QED
    BY <2>1, <2>2, <2>3, <2>4
<1>14. ASSUME NEW i, NEW j, NEW m, NEW k, Operand(j, m, i)', OnStack(k, i)' PROVE FALSE
  <2>1. CASE k = last /\ i = new
    <3>1. m \in DOMAIN operands /\ operands[m] = i
      BY <1>5, <1>7, <1>9, <1>14, <2>1
    <3> QED
      BY <1>5, <1>8, <1>10, <2>1, <3>1
  <2>2. CASE k \in 1..(last - 1) /\ OnStack(k, i)
    <3>1. CASE Operand(j, m, i)
      BY <2>2, <3>1 DEF HeldOnce
    <3>2. CASE m \in DOMAIN operands /\ operands[m] = i
      BY <1>10, <2>2, <3>2 DEF HeldOnce
    <3> QED
      BY <1>7, <1>14, <3>1, <3>2
  <2> QED
    BY <1>6, <1>14, <2>1, <2>2
<1>15. ASSUME NEW i \in DOMAIN nodes'
       PROVE (\E k : OnStack(k, i)') \/ (\E j, m : Operand(j, m, i)') \/ i = output
  <2>1. CASE i = new
    BY <1>6, <2>1
  <2>2. CASE i \in DOMAIN nodes
    <3>1. ASSUME NEW k, OnStack(k, i) PROVE (\E l : OnStack(l, i)') \/ (\E j, m : Operand(j, m, i)')
      <4>1. CASE k \in 1..(last - 1)
        BY <1>6, <3>1, <4>1
      <4>2. CASE k \notin 1..(last - 1)
        <5>1. PICK m \in DOMAIN operands : operands[m] = i
          BY <1>11, <3>1, <4>2
        <5>2. Operand(new, m, i)'
          BY <1>7, <5>1
        <5> QED
          BY <5>2
      <4> QED
        BY <4>1, <4>2
    <3> QED
      BY <1>7, <2>2, <3>1 DEF HeldOnce
  <2> QED
    BY <1>1, <1>3, <1>4, <2>1, <2>2
<1>16. Earlier'
  <2> SUFFICES ASSUME NEW i, NEW j, NEW m, Operand(j, m, i)' PROVE i \in 1..(j - 1)
    BY DEF Earlier
  <2>1. CASE Operand(j, m, i)
    BY <2>1 DEF Earlier
  <2>2. CASE j = new /\ m \in DOMAIN operands /\ operands[m] = i
    <3>1. i \in DOMAIN nodes
      BY <1>8, <1>10, <2>2
    <3> QED
      BY <1>1, <1>3, <2>2, <3>1
  <2> QED
    BY <1>7, <2>1, <2>2
<1>17. \A j, m : ~Operand(j, m, output)'
  BY <1>16 DEF Earlier
<1> QED
  BY <1>12, <1>13, <1>14, <1>15, <1>16, <1>17 DEF HeldOnce

-----------------------------------------------------------------------------
(* What is below the top of the stack. *)
LEMMA GrammarTop ==
  ASSUME Typed, Grammar, NEW k \in Nat, k < Len(stack)
  PROVE  /\ Sym(k) \in FactorOps => Sym(k + 1) = "Factor"
         /\ Sym(k) \in Loose /\ Sym(k + 1) \in Nonterminals => Sym(k + 1) = "Term"
         /\ Sym(k) = ")" => Sym(k + 1) = "Term" /\ Sym(k + 2) = "("
         /\ Sym(k) \in {"Factor", "Term"} /\ Sym(k + 1) \in Loose => Sym(k + 2) = "Term"
         /\ Sym(k) = "Line" => Len(stack) = 1
         /\ Sym(k) \in Loose \cup FactorOps => Val(k) \in Operators
         /\ Sym(k) \in Nonterminals => Val(k) \in DOMAIN nodes
<1>1. /\ Len(stack) \in Nat
      /\ Len(stack) - k \in DOMAIN stack
      /\ stack[Len(stack) - k].val = Val(k)
      /\ At(Len(stack) - k) = Sym(k)
      /\ At(Len(stack) - (k + 1)) = Sym(k + 1) /\ At(Len(stack) - (k + 2)) = Sym(k + 2)
  <2>1. k \in Nat /\ k + 1 \in Nat /\ k + 2 \in Nat
    OBVIOUS
  <2> QED
    BY <2>1, TopOfStack
<1>2. Len(stack) - (k + 1) = (Len(stack) - k) - 1 /\ Len(stack) - (k + 2) = (Len(stack) - k) - 2
  BY <1>1
<1>3. PICK top \in DOMAIN stack : top = Len(stack) - k
  BY <1>1
<1>4. /\ At(top) = Sym(k) /\ stack[top].val = Val(k)
      /\ At(top - 1) = Sym(k + 1) /\ At(top - 2) = Sym(k + 2)
  BY <1>1, <1>2, <1>3
<1> QED
  BY <1>4 DEF Grammar

(* No structure is connected to the output before the Line. *)
LEMMA NoOutputYet ==
  ASSUME Typed, LineIsOutput, Sym(0) # "Line"
  PROVE  output = 0
<1>1. Len(stack) \in Nat /\ At(Len(stack) - 0) = Sym(0)
  BY TopOfStack
<1>2. At(Len(stack)) = Sym(0)
  BY <1>1
<1>3. CASE output # 0
  <2>1. At(1) = "Line" /\ Len(stack) = 1
    BY <1>3 DEF LineIsOutput
  <2> QED
    BY <1>2, <2>1
<1> QED
  BY <1>3

LEMMA NoLineYet ==
  ASSUME Typed, LineIsOutput, Sym(0) # "Line", NEW n \in 0..Len(stack),
         NEW sym \in Grammatical \ {"Line"}, NEW val \in Semantics,
         stack' = Pushed(n, sym, val), output' = output
  PROVE  LineIsOutput'
<1>1. output = 0 /\ At(1) # "Line" /\ Len(stack) \in Nat /\ DOMAIN stack = 1..Len(stack)
  BY NoOutputYet, TopOfStack DEF LineIsOutput
<1>2. PICK last \in Nat \ {0} : last = Len(stack) - n + 1
  <2>1. Len(stack) - n + 1 \in Nat \ {0}
    BY <1>1
  <2> QED
    BY <2>1
<1>3. /\ DOMAIN stack' = 1..last /\ stack'[last] = [sym |-> sym, val |-> val]
      /\ \A k \in 1..(last - 1) : stack'[k] = stack[k]
  BY <1>1, <1>2, PushedStack
<1>4. CASE last = 1
  BY <1>1, <1>3, <1>4 DEF LineIsOutput, At
<1>5. CASE last # 1
  <2>1. 1 \in 1..(last - 1) /\ 1 \in DOMAIN stack /\ 1 \in DOMAIN stack'
    BY <1>1, <1>2, <1>3, <1>5
  <2>2. At(1)' = At(1)
    BY <1>3, <2>1 DEF At
  <2> QED
    BY <1>1, <2>2 DEF LineIsOutput
<1> QED
  BY <1>4, <1>5

LEMMA TypedPushed ==
  ASSUME Typed, NEW n \in 0..Len(stack), NEW sym \in Grammatical, NEW val \in Semantics,
         stack' = Pushed(n, sym, val), nodes' \in Seq(Nodes), yylval' = yylval,
         token' \in {token, None}
  PROVE  Typed'
<1>1. stack' \in Seq(Entries)
  BY PushedStack
<1>2. /\ None \in [type : Terminals, value : Semantics]
      /\ None.type \notin Loose \cup FactorOps
  BY DEF None, Terminals, Semantics, Loose, FactorOps, Tight
<1> QED
  BY <1>1, <1>2 DEF Typed

LEMMA SameMarks ==
  ASSUME Marked, nodes' = nodes, used' = used, block' = block
  PROVE  Marked'
  BY DEF Marked

(* A structure that is no input marks no port. *)
LEMMA MarkedOther ==
  ASSUME Typed, Marked, NEW kind, kind # "in", NEW operands,
         nodes' = Append(nodes, [kind |-> kind, operands |-> operands]),
         used' = used, block' = block
  PROVE  Marked'
<1>1. nodes \in Seq(Nodes) /\ Len(nodes) \in Nat /\ DOMAIN nodes = 1..Len(nodes)
  BY DEF Typed
<1>2. PICK new \in Nat \ {0} : new = Len(nodes) + 1
  BY <1>1
<1>3. /\ DOMAIN nodes' = 1..new /\ nodes'[new].kind = kind
      /\ DOMAIN nodes' = DOMAIN nodes \cup {new}
      /\ \A j \in DOMAIN nodes : nodes'[j] = nodes[j]
  BY <1>1, <1>2
<1> QED
  BY <1>3 DEF Marked

-----------------------------------------------------------------------------
(* The operations of the parser.                                           *)

LEMMA NewStructure ==
  ASSUME Typed, NEW kind \in Leaves \cup {"func", "neg"} \cup Operators, NEW operands \in Seq(Semantics),
         nodes' = Append(nodes, [kind |-> kind, operands |-> operands])
  PROVE  /\ nodes' \in Seq(Nodes) /\ DOMAIN nodes \subseteq DOMAIN nodes'
         /\ Newest \in DOMAIN nodes' /\ Newest \in Semantics
<1>1. nodes \in Seq(Nodes) /\ Len(nodes) \in Nat /\ DOMAIN nodes = 1..Len(nodes)
  BY DEF Typed
<1>2. [kind |-> kind, operands |-> operands] \in Nodes
  BY DEF Nodes
<1>3. PICK new \in Nat \ {0} : new = Len(nodes) + 1
  BY <1>1
<1>4. nodes' \in Seq(Nodes) /\ DOMAIN nodes' = 1..new
  BY <1>1, <1>2, <1>3
<1> QED
  BY <1>1, <1>3, <1>4 DEF Newest, Semantics

(* A structure for a port or a number replaces its token. *)
LEMMA LeafMade ==
  ASSUME MathInv, Sym(0) \in {"IN_PORT", "VALUE"}, NEW kind \in Leaves, NEW value \in Semantics,
         Makes(1, kind, <<value>>), UNCHANGED Parser
  PROVE  Typed' /\ Grammar' /\ HeldOnce' /\ Earlier' /\ LineIsOutput'
<1>1. /\ Typed /\ Grammar /\ HeldOnce /\ Earlier /\ LineIsOutput
      /\ nodes' = Append(nodes, [kind |-> kind, operands |-> <<value>>])
      /\ stack' = Pushed(1, "Element", Newest)
      /\ yylval' = yylval /\ token' = token /\ output' = output
  BY DEF MathInv, Makes, Parser, ends
<1>2. <<value>> \in Seq(Semantics) /\ "Element" \in Grammatical \ {"Line"} /\ "Element" \in Nonterminals
  BY DEF Grammatical, Nonterminals
<1>3. /\ Len(stack) \in Nat /\ 0 < Len(stack)
      /\ \A k \in (Len(stack) - 1 + 1)..Len(stack) : At(k) = Sym(0)
  <2>1. Len(stack) \in Nat /\ At(Len(stack) - 0) = Sym(0) /\ 0 < Len(stack)
    BY <1>1, TopOfStack
  <2> QED
    BY <2>1
<1>4. 1 \in 0..Len(stack) /\ 1 \in 1..Len(stack)
  BY <1>3
<1>5. /\ nodes' \in Seq(Nodes) /\ DOMAIN nodes \subseteq DOMAIN nodes'
      /\ Newest \in DOMAIN nodes' /\ Newest \in Semantics
  BY <1>1, <1>2, NewStructure
<1>6. Typed'
  BY <1>1, <1>2, <1>4, <1>5, TypedPushed
<1>7. Grammar'
  <2>1. Fits(1, "Element", Newest, DOMAIN nodes')
    BY <1>5 DEF Fits, FactorOps, Loose, Tight
  <2> QED
    BY <1>1, <1>2, <1>4, <1>5, <2>1, GrammarPushed
<1>8. LineIsOutput' /\ output = 0
  BY <1>1, <1>2, <1>4, <1>5, NoLineYet, NoOutputYet
<1>9. HeldOnce' /\ Earlier'
  <2>1. \A k \in (Len(stack) - 1 + 1)..Len(stack) : At(k) \notin Nonterminals
    BY <1>3 DEF Nonterminals
  <2> QED
    BY <1>1, <1>2, <1>4, <1>8, <2>1, HoldsLeaf
<1> QED
  BY <1>6, <1>7, <1>8, <1>9

(* The structure of an operator replaces those of its operands. *)
LEMMA OperatorMade ==
  ASSUME MathInv, Sym(0) # "Line", NEW n \in 1..Len(stack), NEW sym \in Nonterminals,
         sym # "Element" /\ Sym(n) \in Loose => Sym(n + 1) = "Term",
         NEW kind \in {"func", "neg"} \cup Operators, NEW operands \in Seq(Semantics), NEW at,
         Replaced(n, operands, at),
         nodes' = Append(nodes, [kind |-> kind, operands |-> operands]),
         stack' = Pushed(n, sym, Newest), UNCHANGED <<used, Parser>>
  PROVE  MathInv'
<1>1. /\ Typed /\ Grammar /\ HeldOnce /\ Earlier /\ LineIsOutput /\ Marked
      /\ used' = used /\ block' = block
      /\ yylval' = yylval /\ token' = token /\ output' = output
  BY DEF MathInv, Parser, ends
<1>2. /\ sym \in Grammatical \ {"Line"} /\ n \in 0..Len(stack) /\ n # 0
      /\ kind \notin Leaves /\ kind # "in"
  <2>1. Len(stack) \in Nat
    BY <1>1, TopOfStack
  <2> QED
    BY <2>1 DEF Grammatical, Nonterminals, Leaves, Operators, Loose, Tight, Power
<1>3. /\ nodes' \in Seq(Nodes) /\ DOMAIN nodes \subseteq DOMAIN nodes'
      /\ Newest \in DOMAIN nodes' /\ Newest \in Semantics
  BY <1>1, NewStructure
<1>4. Typed'
  BY <1>1, <1>2, <1>3, TypedPushed
<1>5. Grammar'
  <2>1. Fits(n, sym, Newest, DOMAIN nodes')
    BY <1>2, <1>3 DEF Fits, FactorOps, Loose, Tight, Nonterminals
  <2> QED
    BY <1>1, <1>2, <1>3, <2>1, GrammarPushed
<1>6. LineIsOutput' /\ output = 0
  BY <1>1, <1>2, <1>3, NoLineYet, NoOutputYet
<1>7. HeldOnce' /\ Earlier'
  BY <1>1, <1>2, <1>6, HoldsOperator
<1>8. Marked'
  BY <1>1, <1>2, MarkedOther
<1> QED
  BY <1>4, <1>5, <1>6, <1>7, <1>8 DEF MathInv

(* The value of the entry at q replaces the top entries. *)
LEMMA ValueMoved ==
  ASSUME MathInv, Sym(0) # "Line", NEW n \in 1..Len(stack), NEW sym \in Nonterminals,
         sym # "Element" /\ Sym(n) \in Loose => Sym(n + 1) = "Term",
         NEW q \in (Len(stack) - n + 1)..Len(stack), At(q) \in Nonterminals,
         \A k \in (Len(stack) - n + 1)..Len(stack) : k # q => At(k) \notin Nonterminals,
         stack' = Pushed(n, sym, stack[q].val), UNCHANGED <<graph, Parser>>
  PROVE  MathInv'
<1>1. /\ Typed /\ Grammar /\ HeldOnce /\ Earlier /\ LineIsOutput /\ Marked
      /\ used' = used /\ block' = block /\ nodes' = nodes
      /\ yylval' = yylval /\ token' = token /\ output' = output
  BY DEF MathInv, Parser, ends, graph
<1>2. /\ sym \in Grammatical \ {"Line"} /\ n \in 0..Len(stack) /\ n # 0
      /\ q \in DOMAIN stack /\ nodes \in Seq(Nodes)
  <2>1. Len(stack) \in Nat /\ DOMAIN stack = 1..Len(stack)
    BY <1>1, TopOfStack
  <2> QED
    BY <1>1, <2>1 DEF Typed, Grammatical, Nonterminals
<1>3. stack[q].val \in DOMAIN nodes /\ stack[q].val \in Semantics
  <2>1. stack[q].val \in DOMAIN nodes
    BY <1>1, <1>2 DEF Grammar
  <2>2. stack[q] \in Entries
    BY <1>1, <1>2 DEF Typed
  <2> QED
    BY <2>1, <2>2 DEF Entries
<1>4. Typed'
  BY <1>1, <1>2, <1>3, TypedPushed
<1>5. Grammar'
  <2>1. Fits(n, sym, stack[q].val, DOMAIN nodes')
    BY <1>1, <1>2, <1>3 DEF Fits, FactorOps, Loose, Tight, Nonterminals
  <2> QED
    BY <1>1, <1>2, <1>3, <2>1, GrammarPushed
<1>6. LineIsOutput'
  BY <1>1, <1>2, <1>3, NoLineYet
<1>7. HeldOnce'
  BY <1>1, HoldsMoved
<1>8. Earlier' /\ Marked'
  BY <1>1, SameNodes, SameMarks DEF Earlier
<1> QED
  BY <1>4, <1>5, <1>6, <1>7, <1>8 DEF MathInv

(* The lexer returns the tokens of the grammar. *)
LEMMA Tokens ==
  ASSUME Typed, NEW type \in Terminals \ {"none"}, NEW symbol \in Symbols \cup {"2pi", "end"},
         type \in Loose \cup FactorOps => symbol \in Operators,
         Returns(type, symbol)
  PROVE  /\ yylval' \in Nat /\ token' \in [type : Terminals, value : Semantics]
         /\ token'.type \in Loose \cup FactorOps => token'.value \in Operators
<1>1. yylval \in Nat
  BY DEF Typed
<1>2. AsPort(symbol) \in Nat
  <2>1. CASE symbol \in InPorts
    <3>1. symbol \in {"x0", "x1"}
      BY <2>1 DEF InPorts, PortOf
    <3>2. PortOf[symbol] \in Nat
      BY <3>1 DEF PortOf
    <3>3. AsPort(symbol) = PortOf[symbol]
      <4>1. symbol # "2" /\ symbol \notin {"pi", "2pi"} \cup Functions
        BY <3>1 DEF Functions
      <4> QED
        BY <2>1, <4>1 DEF AsPort
    <3> QED
      BY <3>2, <3>3
  <2>2. CASE symbol \notin InPorts
    BY <1>1, <2>2 DEF AsPort, Wild
  <2> QED
    BY <2>1, <2>2
<1>3. PICK port \in IF type = "IN_PORT" /\ AsPort(symbol) = Unset THEN {0, Wild} ELSE {AsPort(symbol)} :
        /\ yylval' = port
        /\ token' = [type |-> type, value |-> IF type = "IN_PORT" THEN port ELSE symbol]
  BY DEF Returns
<1>4. port \in Nat
  BY <1>2, <1>3 DEF Wild
<1>5. "IN_PORT" \notin Loose \cup FactorOps
  BY DEF Loose, FactorOps, Tight
<1> QED
  BY <1>3, <1>4, <1>5 DEF Semantics

LEMMA LexerOnly ==
  ASSUME MathInv, UNCHANGED <<stack, nodes, used, output, block>>,
         yylval' \in Nat /\ token' \in [type : Terminals, value : Semantics],
         token'.type \in Loose \cup FactorOps => token'.value \in Operators
  PROVE  MathInv'
  BY SameNodes DEF MathInv, Typed, Grammar, At, HeldOnce, OnStack, Earlier, LineIsOutput, Marked

LEMMA LexSymbolInv ==
  ASSUME MathInv, NEW symbol \in Alphabet, LexSymbol(symbol)
  PROVE  MathInv'
<1>1. symbol \in Symbols
  BY DEF MathAssumption
<1>2. UNCHANGED <<stack, nodes, used, output, block>> /\ Typed
  BY DEF LexSymbol, graph, ends, MathInv
<1>3. PICK type : /\ Returns(type, symbol) \/ Returns("(", "(")
                  /\ type = Type(symbol)
  BY DEF LexSymbol
<1>4. CASE Returns("(", "(")
  <2>1. "(" \in Terminals \ {"none"} /\ "(" \in Symbols /\ "(" \notin Loose \cup FactorOps
    BY DEF Terminals, Symbols, Loose, FactorOps, Tight
  <2> QED
    BY <1>2, <1>4, <2>1, Tokens, LexerOnly
<1>5. CASE symbol # "w" /\ Returns(type, symbol)
  <2>1. type \in Terminals \ {"none"} /\ (type \in Loose \cup FactorOps => symbol \in Operators)
    <3>1. CASE symbol \in InPorts \cup Values \cup Functions \cup Power
      BY <1>3, <3>1 DEF Type, InPorts, PortOf, Values, Functions, Power, Terminals, Loose, Tight, FactorOps, Operators
    <3>2. CASE symbol \in Loose \cup Tight \cup {"(", ")", "?"}
      BY <1>3, <3>2 DEF Type, InPorts, PortOf, Values, Functions, Power, Terminals, Loose, Tight, FactorOps, Operators
    <3> QED
      BY <1>1, <1>5, <3>1, <3>2 DEF Symbols
  <2> QED
    BY <1>1, <1>2, <1>5, <2>1, Tokens, LexerOnly
<1> QED
  BY <1>3, <1>4, <1>5 DEF LexSymbol

LEMMA LexAgainInv ==
  ASSUME MathInv, LexAgain \/ LexEnd
  PROVE  MathInv'
<1>1. UNCHANGED <<stack, nodes, used, output, block>> /\ Typed
  BY DEF LexAgain, LexEnd, graph, ends, MathInv
<1>2. \/ Returns("IN_PORT", "w") \/ Returns("*", "*") \/ Returns("VALUE", "2pi")
      \/ Returns(")", ")") \/ Returns("end", "end")
  BY DEF LexAgain, LexEnd
<1>3. PICK type, symbol :
        /\ type \in Terminals \ {"none"} /\ symbol \in Symbols \cup {"2pi", "end"}
        /\ type \in Loose \cup FactorOps => symbol \in Operators
        /\ Returns(type, symbol)
  BY <1>2 DEF Terminals, Symbols, Loose, Tight, FactorOps, Operators
<1> QED
  BY <1>1, <1>3, Tokens, LexerOnly

LEMMA ShiftInv ==
  ASSUME MathInv, Shift
  PROVE  MathInv'
<1>1. /\ Typed /\ Grammar /\ HeldOnce /\ Earlier /\ LineIsOutput /\ Marked
      /\ Shifts(token.type) /\ token.type # "none"
      /\ stack' = Pushed(0, token.type, token.value) /\ token' = None
      /\ used' = used /\ block' = block /\ nodes' = nodes
      /\ yylval' = yylval /\ output' = output
  <2>1. token.type # "none"
    BY DEF Shift, Shifts, Starts, FactorOps, Loose, Tight
  <2> QED
    BY <2>1 DEF MathInv, Shift, graph, ends
<1>2. /\ token.type \in Terminals /\ token.value \in Semantics /\ nodes \in Seq(Nodes)
      /\ token.type \in Loose \cup FactorOps => token.value \in Operators
  BY <1>1 DEF Typed
<1>3. token.type \in Grammatical \ {"Line"} /\ token.type \in Grammatical \ Nonterminals
  BY <1>2 DEF Grammatical, Terminals, Nonterminals, Loose, Tight
<1>4. 0 \in 0..Len(stack)
  BY <1>1, TopOfStack
<1>5. Sym(0) # "Line"
  BY <1>1 DEF Shifts, FactorOps, Loose, Tight
<1>6. Typed'
  BY <1>1, <1>2, <1>3, <1>4, TypedPushed
<1>7. Grammar'
  <2>1. /\ token.type \in FactorOps => Sym(0) = "Factor"
        /\ token.type \in Loose /\ Sym(0) \in Nonterminals => Sym(0) = "Term"
        /\ token.type = ")" => Sym(0) = "Term" /\ Sym(1) = "("
    BY <1>1 DEF Shifts, Starts, FactorOps, Loose, Tight, Nonterminals
  <2>2. Fits(0, token.type, token.value, DOMAIN nodes')
    BY <1>2, <1>3, <1>5, <2>1 DEF Fits, Nonterminals
  <2> QED
    BY <1>1, <1>2, <1>3, <1>4, <2>2, GrammarPushed
<1>8. LineIsOutput'
  BY <1>1, <1>2, <1>3, <1>4, <1>5, NoLineYet
<1>9. HeldOnce'
  BY <1>1, <1>2, <1>3, HoldsShifted
<1>10. Earlier' /\ Marked'
  BY <1>1, SameNodes, SameMarks DEF Earlier
<1> QED
  BY <1>6, <1>7, <1>8, <1>9, <1>10 DEF MathInv

LEMMA SrcBlockInv ==
  ASSUME MathInv, SrcBlock
  PROVE  MathInv'
<1>1. Typed /\ Marked /\ Sym(0) = "IN_PORT" /\ block' = block
  BY DEF MathInv, SrcBlock, Parser, ends
<1>2. PICK port : port = Val(0) /\ port \in Semantics
  <2>1. /\ Len(stack) \in Nat /\ DOMAIN stack = 1..Len(stack)
        /\ Len(stack) - 0 \in DOMAIN stack /\ stack[Len(stack) - 0].val = Val(0)
    BY <1>1, TopOfStack
  <2>2. stack[Len(stack) - 0] \in Entries
    BY <1>1, <2>1 DEF Typed
  <2> QED
    BY <2>1, <2>2 DEF Entries
<1>3. /\ Makes(1, "in", <<port>>) /\ UNCHANGED Parser /\ "in" \in Leaves
      /\ nodes' = Append(nodes, [kind |-> "in", operands |-> <<port>>])
      /\ used' = IF block.class = "math" THEN used \cup {port} ELSE used
  BY <1>2 DEF SrcBlock, Leaves, Makes, SetPortUsed
<1>4. Typed' /\ Grammar' /\ HeldOnce' /\ Earlier' /\ LineIsOutput'
  BY <1>1, <1>2, <1>3, LeafMade
<1>5. Marked'
  <2>1. nodes \in Seq(Nodes) /\ Len(nodes) \in Nat /\ DOMAIN nodes = 1..Len(nodes)
    BY <1>1 DEF Typed
  <2>2. PICK new \in Nat \ {0} : new = Len(nodes) + 1
    BY <2>1
  <2>3. /\ nodes'[new].kind = "in" /\ nodes'[new].operands = <<port>>
        /\ DOMAIN nodes' = DOMAIN nodes \cup {new}
        /\ \A j \in DOMAIN nodes : nodes'[j] = nodes[j]
    BY <1>3, <2>1, <2>2
  <2>4. \A i \in DOMAIN nodes' : nodes'[i].kind = "in" => \E p : nodes'[i].operands = <<p>>
    BY <1>1, <2>3 DEF Marked
  <2>5. ASSUME block.class = "math", NEW p
        PROVE  p \in used' <=> \E i \in DOMAIN nodes' : nodes'[i].kind = "in" /\ nodes'[i].operands = <<p>>
    <3>1. p \in used' <=> p \in used \/ p = port
      BY <1>3, <2>5
    <3>2. p \in used <=> \E i \in DOMAIN nodes : nodes[i].kind = "in" /\ nodes[i].operands = <<p>>
      BY <1>1, <2>5 DEF Marked
    <3>3. <<port>> = <<p>> <=> p = port
      OBVIOUS
    <3> QED
      BY <2>3, <3>1, <3>2, <3>3
  <2> QED
    BY <1>1, <2>4, <2>5 DEF Marked
<1> QED
  BY <1>4, <1>5 DEF MathInv

LEMMA ConstBlockInv ==
  ASSUME MathInv, ConstBlock
  PROVE  MathInv'
<1>1. Typed /\ Marked /\ Sym(0) = "VALUE" /\ block' = block /\ used' = used
  BY DEF MathInv, ConstBlock, Parser, ends
<1>2. PICK value : value = Val(0) /\ value \in Semantics
  <2>1. /\ Len(stack) \in Nat /\ DOMAIN stack = 1..Len(stack)
        /\ Len(stack) - 0 \in DOMAIN stack /\ stack[Len(stack) - 0].val = Val(0)
    BY <1>1, TopOfStack
  <2>2. stack[Len(stack) - 0] \in Entries
    BY <1>1, <2>1 DEF Typed
  <2> QED
    BY <2>1, <2>2 DEF Entries
<1>3. /\ Makes(1, "const", <<value>>) /\ UNCHANGED Parser /\ "const" \in Leaves /\ "const" # "in"
      /\ nodes' = Append(nodes, [kind |-> "const", operands |-> <<value>>])
  BY <1>2 DEF ConstBlock, Leaves, Makes
<1>4. Typed' /\ Grammar' /\ HeldOnce' /\ Earlier' /\ LineIsOutput'
  BY <1>1, <1>2, <1>3, LeafMade
<1>5. Marked'
  BY <1>1, <1>3, MarkedOther
<1> QED
  BY <1>4, <1>5 DEF MathInv

(* The entries at the top of the stack, by their place from the bottom. *)
LEMMA TopEntries ==
  ASSUME Typed, NEW n \in Nat, n < Len(stack)
  PROVE  \E last \in Nat :
           /\ last = Len(stack) - n /\ last \in 1..Len(stack)
           /\ At(last) = Sym(n) /\ stack[last].val = Val(n) /\ last \in DOMAIN stack
<1>1. /\ Len(stack) \in Nat /\ DOMAIN stack = 1..Len(stack)
      /\ At(Len(stack) - n) = Sym(n) /\ stack[Len(stack) - n].val = Val(n)
  BY TopOfStack
<1>2. PICK last \in Nat : last = Len(stack) - n
  <2>1. Len(stack) - n \in Nat
    BY <1>1
  <2> QED
    BY <2>1
<1>3. /\ last = Len(stack) - n /\ last \in 1..Len(stack)
      /\ At(last) = Sym(n) /\ stack[last].val = Val(n) /\ last \in DOMAIN stack
  BY <1>1, <1>2
<1> QED
  BY <1>3

LEMMA ParenthesisInv ==
  ASSUME MathInv, Parenthesis
  PROVE  MathInv'
<1>1. /\ Typed /\ Grammar /\ Sym(0) = ")"
      /\ stack' = Pushed(3, "Element", Val(1)) /\ UNCHANGED <<graph, Parser>>
  BY DEF MathInv, Parenthesis
<1>2. Sym(1) = "Term" /\ Sym(2) = "(" /\ 2 < Len(stack) /\ Len(stack) \in Nat
  <2>1. 0 < Len(stack) /\ Len(stack) \in Nat
    BY <1>1, TopOfStack
  <2>2. Sym(0 + 1) = "Term" /\ Sym(0 + 2) = "("
    BY <1>1, <2>1, GrammarTop
  <2>3. Sym(1) = "Term" /\ Sym(2) = "("
    BY <2>2
  <2> QED
    BY <1>1, <2>1, <2>3, TopOfStack
<1>3. PICK q \in Nat : /\ q = Len(stack) - 1 /\ q \in 1..Len(stack)
                      /\ At(q) = Sym(1) /\ stack[q].val = Val(1)
  BY <1>1, <1>2, TopEntries
<1>4. \A k \in (Len(stack) - 3 + 1)..Len(stack) : k # q => At(k) \in {")", "("}
  <2>1. At(Len(stack) - 0) = Sym(0) /\ At(Len(stack) - 2) = Sym(2)
    BY <1>1, TopOfStack
  <2>2. \A k \in (Len(stack) - 3 + 1)..Len(stack) :
          k # q => k = Len(stack) - 0 \/ k = Len(stack) - 2
    BY <1>2, <1>3
  <2> QED
    BY <1>1, <1>2, <2>1, <2>2
<1>5. /\ Sym(0) # "Line" /\ "Element" \in Nonterminals /\ At(q) \in Nonterminals
      /\ \A k \in (Len(stack) - 3 + 1)..Len(stack) : k # q => At(k) \notin Nonterminals
      /\ 3 \in 1..Len(stack) /\ q \in (Len(stack) - 3 + 1)..Len(stack)
  BY <1>1, <1>2, <1>3, <1>4 DEF Nonterminals
<1>6. stack' = Pushed(3, "Element", stack[q].val)
  BY <1>1, <1>3
<1> QED
  BY <1>1, <1>5, <1>6, ValueMoved

LEMMA PlusSignInv ==
  ASSUME MathInv, PlusSign
  PROVE  MathInv'
<1>1. /\ Typed /\ Sym(0) = "Element" /\ Sym(1) = "+"
      /\ stack' = Pushed(2, "Element", Val(0)) /\ UNCHANGED <<graph, Parser>>
  BY DEF MathInv, PlusSign
<1>2. 1 < Len(stack) /\ Len(stack) \in Nat
  BY <1>1, TopOfStack
<1>3. PICK q \in Nat : /\ q = Len(stack) - 0 /\ q \in 1..Len(stack)
                      /\ At(q) = Sym(0) /\ stack[q].val = Val(0)
  BY <1>1, <1>2, TopEntries
<1>4. \A k \in (Len(stack) - 2 + 1)..Len(stack) : k # q => At(k) = "+"
  <2>1. At(Len(stack) - 1) = Sym(1)
    BY <1>1, TopOfStack
  <2>2. \A k \in (Len(stack) - 2 + 1)..Len(stack) : k # q => k = Len(stack) - 1
    BY <1>2, <1>3
  <2> QED
    BY <1>1, <2>1, <2>2
<1>5. /\ Sym(0) # "Line" /\ "Element" \in Nonterminals /\ At(q) \in Nonterminals
      /\ \A k \in (Len(stack) - 2 + 1)..Len(stack) : k # q => At(k) \notin Nonterminals
      /\ 2 \in 1..Len(stack) /\ q \in (Len(stack) - 2 + 1)..Len(stack)
  BY <1>1, <1>2, <1>3, <1>4 DEF Nonterminals
<1>6. stack' = Pushed(2, "Element", stack[q].val)
  BY <1>1, <1>3
<1> QED
  BY <1>1, <1>5, <1>6, ValueMoved

LEMMA PromoteInv ==
  ASSUME MathInv, Promote
  PROVE  MathInv'
<1>1. Typed /\ Grammar /\ UNCHANGED <<graph, Parser>>
  BY DEF MathInv, Promote
<1>2. PICK sym \in {"Factor", "Term"} :
        /\ (Sym(0) = "Element" /\ ~IsSign) \/ Sym(0) = "Factor"
        /\ stack' = Pushed(1, sym, Val(0))
  BY DEF Promote
<1>3. 0 < Len(stack) /\ Len(stack) \in Nat
  BY <1>1, <1>2, TopOfStack
<1>4. Sym(1) \in Loose => Sym(2) = "Term"
  <2> SUFFICES ASSUME Sym(1) \in Loose PROVE Sym(2) = "Term"
    OBVIOUS
  <2>1. CASE Sym(0) = "Factor"
    <3>1. Sym(0 + 1) \in Loose => Sym(0 + 2) = "Term"
      BY <1>1, <1>3, <2>1, GrammarTop
    <3> QED
      BY <3>1
  <2>2. CASE ~IsSign
    <3>1. 1 < Len(stack)
      BY <1>1, TopOfStack DEF Loose
    <3>2. Sym(1 + 1) \in Nonterminals => Sym(1 + 1) = "Term"
      BY <1>1, <3>1, GrammarTop
    <3> QED
      BY <2>2, <3>2 DEF IsSign
  <2> QED
    BY <1>2, <2>1, <2>2
<1>5. PICK q \in Nat : /\ q = Len(stack) - 0 /\ q \in 1..Len(stack)
                      /\ At(q) = Sym(0) /\ stack[q].val = Val(0)
  BY <1>1, <1>3, TopEntries
<1>6. /\ Sym(0) # "Line" /\ sym \in Nonterminals /\ At(q) \in Nonterminals
      /\ \A k \in (Len(stack) - 1 + 1)..Len(stack) : k # q => At(k) \notin Nonterminals
      /\ 1 \in 1..Len(stack) /\ q \in (Len(stack) - 1 + 1)..Len(stack)
      /\ Sym(1) \in Loose => Sym(1 + 1) = "Term"
  BY <1>2, <1>3, <1>4, <1>5 DEF Nonterminals
<1>7. stack' = Pushed(1, sym, stack[q].val)
  BY <1>2, <1>5
<1> QED
  BY <1>1, <1>6, <1>7, ValueMoved

LEMMA StackValue ==
  ASSUME Typed, NEW n \in Nat, n < Len(stack)
  PROVE  Val(n) \in Semantics
<1>1. PICK last \in Nat : stack[last].val = Val(n) /\ last \in DOMAIN stack
  BY TopEntries
<1>2. stack[last] \in Entries
  BY <1>1 DEF Typed
<1> QED
  BY <1>1, <1>2 DEF Entries

(* GNU Radio throws: the constructor ends there. *)
LEMMA EndInv ==
  ASSUME MathInv, UNCHANGED <<stack, nodes, used, output, block, yylval, token>>
  PROVE  MathInv'
  BY SameNodes DEF MathInv, Typed, Grammar, At, HeldOnce, OnStack, Earlier, LineIsOutput, Marked

LEMMA OneOperand ==
  ASSUME MathInv, NEW n \in 1..Len(stack), NEW q \in (Len(stack) - n + 1)..Len(stack),
         At(q) \in Nonterminals, NEW value, value = stack[q].val,
         \A k \in (Len(stack) - n + 1)..Len(stack) : k # q => At(k) \notin Nonterminals
  PROVE  Replaced(n, <<value>>, <<q>>)
<1>1. Len(stack) \in Nat /\ DOMAIN stack = 1..Len(stack)
  BY TopOfStack DEF MathInv
<1>2. OnStack(q, value)
  BY <1>1 DEF OnStack, At
<1>3. DOMAIN <<value>> = {1} /\ <<value>>[1] = value /\ <<q>>[1] = q
  OBVIOUS
<1> QED
  BY <1>2, <1>3 DEF Replaced

LEMMA FuncBlockInv ==
  ASSUME MathInv, FuncBlock
  PROVE  MathInv'
<1>1. CASE Throws
  BY <1>1, EndInv DEF Throws, graph
<1>2. CASE Makes(4, "func", <<Val(1)>>) /\ UNCHANGED <<used, Parser>>
  <2>1. /\ Typed /\ Grammar /\ Sym(0) = ")" /\ Sym(3) = "FNAME"
        /\ nodes' = Append(nodes, [kind |-> "func", operands |-> <<Val(1)>>])
        /\ stack' = Pushed(4, "Element", Newest)
    BY <1>2 DEF MathInv, FuncBlock, Makes
  <2>2. Sym(1) = "Term" /\ Sym(2) = "(" /\ 3 < Len(stack) /\ Len(stack) \in Nat
    <3>1. 0 < Len(stack) /\ 3 < Len(stack) /\ Len(stack) \in Nat
      BY <2>1, TopOfStack
    <3>2. Sym(0 + 1) = "Term" /\ Sym(0 + 2) = "("
      BY <2>1, <3>1, GrammarTop
    <3> QED
      BY <3>1, <3>2
  <2>3. PICK q \in Nat : /\ q = Len(stack) - 1 /\ q \in 1..Len(stack)
                        /\ At(q) = Sym(1) /\ stack[q].val = Val(1)
    BY <2>1, <2>2, TopEntries
  <2>4. \A k \in (Len(stack) - 4 + 1)..Len(stack) : k # q => At(k) \in {")", "(", "FNAME"}
    <3>1. At(Len(stack) - 0) = Sym(0) /\ At(Len(stack) - 2) = Sym(2) /\ At(Len(stack) - 3) = Sym(3)
      BY <2>1, TopOfStack
    <3>2. \A k \in (Len(stack) - 4 + 1)..Len(stack) :
            k # q => k = Len(stack) - 0 \/ k = Len(stack) - 2 \/ k = Len(stack) - 3
      BY <2>2, <2>3
    <3> QED
      BY <2>1, <2>2, <3>1, <3>2
  <2>5. /\ Sym(0) # "Line" /\ "Element" \in Nonterminals /\ At(q) \in Nonterminals
        /\ \A k \in (Len(stack) - 4 + 1)..Len(stack) : k # q => At(k) \notin Nonterminals
        /\ 4 \in 1..Len(stack) /\ q \in (Len(stack) - 4 + 1)..Len(stack)
    <3>1. /\ Sym(0) # "Line" /\ "Element" \in Nonterminals /\ At(q) \in Nonterminals
          /\ \A sym \in {")", "(", "FNAME"} : sym \notin Nonterminals
      BY <2>1, <2>2, <2>3 DEF Nonterminals
    <3>2. 4 \in 1..Len(stack) /\ q \in (Len(stack) - 4 + 1)..Len(stack)
      BY <2>2, <2>3
    <3> QED
      BY <2>4, <3>1, <3>2
  <2>6. Replaced(4, <<Val(1)>>, <<q>>)
    BY <2>3, <2>5, OneOperand
  <2>7. <<Val(1)>> \in Seq(Semantics)
    BY <2>1, <2>2, StackValue
  <2> QED
    BY <1>2, <2>1, <2>5, <2>6, <2>7, OperatorMade
<1> QED
  BY <1>1, <1>2 DEF FuncBlock

LEMMA NegBlockInv ==
  ASSUME MathInv, NegBlock
  PROVE  MathInv'
<1>1. CASE Throws
  BY <1>1, EndInv DEF Throws, graph
<1>2. CASE Makes(2, "neg", <<Val(0)>>) /\ UNCHANGED <<used, Parser>>
  <2>1. /\ Typed /\ Sym(0) = "Element" /\ Sym(1) = "-"
        /\ nodes' = Append(nodes, [kind |-> "neg", operands |-> <<Val(0)>>])
        /\ stack' = Pushed(2, "Element", Newest)
    BY <1>2 DEF MathInv, NegBlock, Makes
  <2>2. 1 < Len(stack) /\ 0 < Len(stack) /\ Len(stack) \in Nat
    BY <2>1, TopOfStack
  <2>3. PICK q \in Nat : /\ q = Len(stack) - 0 /\ q \in 1..Len(stack)
                        /\ At(q) = Sym(0) /\ stack[q].val = Val(0)
    BY <2>1, <2>2, TopEntries
  <2>4. \A k \in (Len(stack) - 2 + 1)..Len(stack) : k # q => At(k) = "-"
    <3>1. At(Len(stack) - 1) = Sym(1)
      BY <2>1, TopOfStack
    <3>2. \A k \in (Len(stack) - 2 + 1)..Len(stack) : k # q => k = Len(stack) - 1
      BY <2>2, <2>3
    <3> QED
      BY <2>1, <3>1, <3>2
  <2>5. /\ Sym(0) # "Line" /\ "Element" \in Nonterminals /\ At(q) \in Nonterminals
        /\ \A k \in (Len(stack) - 2 + 1)..Len(stack) : k # q => At(k) \notin Nonterminals
        /\ 2 \in 1..Len(stack) /\ q \in (Len(stack) - 2 + 1)..Len(stack)
    <3>1. Sym(0) # "Line" /\ "Element" \in Nonterminals /\ At(q) \in Nonterminals /\ "-" \notin Nonterminals
      BY <2>1, <2>3 DEF Nonterminals
    <3>2. 2 \in 1..Len(stack) /\ q \in (Len(stack) - 2 + 1)..Len(stack)
      BY <2>2, <2>3
    <3> QED
      BY <2>4, <3>1, <3>2
  <2>6. Replaced(2, <<Val(0)>>, <<q>>)
    BY <2>3, <2>5, OneOperand
  <2>7. <<Val(0)>> \in Seq(Semantics)
    BY <2>1, <2>2, StackValue
  <2> QED
    BY <1>2, <2>1, <2>5, <2>6, <2>7, OperatorMade
<1> QED
  BY <1>1, <1>2 DEF NegBlock

LEMMA BinaryBlockInv ==
  ASSUME MathInv, BinaryBlock
  PROVE  MathInv'
<1>1. CASE Throws
  BY <1>1, EndInv DEF Throws, graph
<1>2. CASE /\ nodes' = Append(nodes, [kind |-> Val(1), operands |-> <<Val(2), Val(0)>>])
           /\ stack' = Pushed(3, Sym(0), Newest)
           /\ UNCHANGED <<used, Parser>>
  <2>1. /\ Typed /\ Grammar
        /\ \/ Sym(0) = "Factor" /\ Sym(1) \in FactorOps
           \/ Sym(0) = "Term" /\ Sym(1) \in Loose
    BY DEF MathInv, BinaryBlock, ReducesFactors, ReducesTerms
  <2>2. 1 < Len(stack) /\ 0 < Len(stack) /\ Len(stack) \in Nat
    BY <2>1, TopOfStack DEF FactorOps, Loose, Tight
  <2>3. Sym(2) = Sym(0)
    <3>1. Sym(0 + 1) \in Loose /\ Sym(0) = "Term" => Sym(0 + 2) = "Term"
      BY <2>1, <2>2, GrammarTop
    <3>2. Sym(1) \in FactorOps => Sym(1 + 1) = "Factor"
      BY <2>1, <2>2, GrammarTop
    <3> QED
      BY <2>1, <3>1, <3>2
  <2>4. 2 < Len(stack)
    BY <2>1, <2>3, TopOfStack
  <2>5. /\ Sym(0) # "Line" /\ Sym(0) \in Nonterminals /\ Sym(2) \in Nonterminals
        /\ Sym(1) \notin Nonterminals /\ Val(1) \in {"func", "neg"} \cup Operators
        /\ Sym(3) \in Loose => Sym(3 + 1) = "Term"
    <3>1. Sym(1) \in Loose \cup FactorOps => Val(1) \in Operators
      BY <2>1, <2>2, GrammarTop
    <3>2. Sym(2) \in {"Factor", "Term"} /\ Sym(2 + 1) \in Loose => Sym(2 + 2) = "Term"
      BY <2>1, <2>4, GrammarTop
    <3> QED
      BY <2>1, <2>3, <3>1, <3>2 DEF Nonterminals, Loose, FactorOps, Tight
  <2>6. PICK right \in Nat : /\ right = Len(stack) - 0 /\ right \in DOMAIN stack
                            /\ At(right) = Sym(0) /\ stack[right].val = Val(0)
    BY <2>1, <2>2, TopEntries
  <2>7. PICK left \in Nat : /\ left = Len(stack) - 2 /\ left \in DOMAIN stack
                           /\ At(left) = Sym(2) /\ stack[left].val = Val(2)
    BY <2>1, <2>4, TopEntries
  <2>8. Replaced(3, <<Val(2), Val(0)>>, <<left, right>>)
    <3>1. /\ left \in (Len(stack) - 3 + 1)..Len(stack) /\ right \in (Len(stack) - 3 + 1)..Len(stack)
          /\ left # right
          /\ \A k \in (Len(stack) - 3 + 1)..Len(stack) : k = left \/ k = Len(stack) - 1 \/ k = right
      BY <2>2, <2>4, <2>6, <2>7
    <3>2. At(Len(stack) - 1) = Sym(1)
      BY <2>1, TopOfStack
    <3>3. OnStack(left, Val(2)) /\ OnStack(right, Val(0))
      BY <2>5, <2>6, <2>7 DEF OnStack, At
    <3>4. PICK operands, at :
            /\ operands = <<Val(2), Val(0)>> /\ at = <<left, right>> /\ DOMAIN operands = {1, 2}
            /\ operands[1] = Val(2) /\ operands[2] = Val(0) /\ at[1] = left /\ at[2] = right
      <4>1. /\ DOMAIN <<Val(2), Val(0)>> = {1, 2}
            /\ <<Val(2), Val(0)>>[1] = Val(2) /\ <<Val(2), Val(0)>>[2] = Val(0)
            /\ <<left, right>>[1] = left /\ <<left, right>>[2] = right
        OBVIOUS
      <4> QED
        BY <4>1, Zenon
    <3>5. \A k \in (Len(stack) - 3 + 1)..Len(stack) :
            At(k) \in Nonterminals => k = at[1] \/ k = at[2]
      BY <2>5, <3>1, <3>2, <3>4
    <3>6. Replaced(3, operands, at)
      BY <3>1, <3>3, <3>4, <3>5 DEF Replaced
    <3> QED
      BY <3>4, <3>6
  <2>9. <<Val(2), Val(0)>> \in Seq(Semantics) /\ 3 \in 1..Len(stack)
    <3>1. Val(2) \in Semantics /\ Val(0) \in Semantics
      BY <2>1, <2>2, <2>4, StackValue
    <3> QED
      BY <2>2, <2>4, <3>1
  <2> QED
    BY <1>2, <2>5, <2>8, <2>9, OperatorMade
<1> QED
  BY <1>1, <1>2 DEF BinaryBlock

LEMMA ConnectToOutputInv ==
  ASSUME MathInv, ConnectToOutput
  PROVE  MathInv'
<1>1. CASE Throws
  BY <1>1, EndInv DEF Throws, graph
<1>2. CASE /\ output' = Val(0) /\ stack' = Pushed(1, "Line", 0)
           /\ UNCHANGED <<block, text, lexer, yylval, token, graph, deleted, sinks, outcome>>
  <2>1. /\ Typed /\ Grammar /\ HeldOnce /\ Earlier /\ LineIsOutput /\ Marked
        /\ Len(stack) = 1 /\ Sym(0) = "Term"
        /\ stack' = Pushed(1, "Line", 0) /\ output' = Val(0)
        /\ used' = used /\ block' = block /\ nodes' = nodes /\ yylval' = yylval /\ token' = token
    BY <1>2 DEF MathInv, ConnectToOutput, IsLine, graph
  <2>2. /\ nodes \in Seq(Nodes) /\ 1 \in 0..Len(stack) /\ DOMAIN nodes = 1..Len(nodes)
        /\ "Line" \in Grammatical /\ "Line" \notin Nonterminals /\ 0 \in Semantics /\ 0 \in Nat
    BY <2>1 DEF Typed, Grammatical, Nonterminals, Semantics, Terminals
  <2>3. OnStack(1, Val(0)) /\ Val(0) \in DOMAIN nodes /\ Val(0) # 0
    <3>1. Val(0) \in DOMAIN nodes
      BY <2>1, GrammarTop DEF Nonterminals
    <3>2. PICK last \in Nat : /\ last = Len(stack) - 0 /\ last \in DOMAIN stack
                              /\ At(last) = Sym(0) /\ stack[last].val = Val(0)
      BY <2>1, TopEntries
    <3>3. last = 1
      BY <2>1, <3>2
    <3> QED
      BY <2>1, <2>2, <3>1, <3>2, <3>3 DEF OnStack, At, Nonterminals
  <2>4. Typed'
    BY <2>1, <2>2, TypedPushed
  <2>5. Len(stack') = 1 /\ DOMAIN stack' = 1..1 /\ stack'[1] = [sym |-> "Line", val |-> 0]
    <3>1. /\ Len(stack') = Len(stack) - 1 + 1 /\ DOMAIN stack' = 1..(Len(stack) - 1 + 1)
          /\ stack'[Len(stack) - 1 + 1] = [sym |-> "Line", val |-> 0]
      BY <2>1, <2>2, PushedStack
    <3> QED
      BY <2>1, <3>1
  <2>6. Grammar'
    <3>1. Fits(1, "Line", 0, DOMAIN nodes')
      BY <2>1, <2>2 DEF Fits, FactorOps, Loose, Tight
    <3> QED
      BY <2>1, <2>2, <3>1, GrammarPushed
  <2>7. \A k, i : ~OnStack(k, i)'
    BY <2>2, <2>5 DEF OnStack
  <2>8. \A k, i : OnStack(k, i) => i = Val(0)
    BY <2>1, <2>3 DEF OnStack, Typed
  <2>9. output = 0
    BY <2>1, NoOutputYet
  <2>10. HeldOnce'
    BY <2>1, <2>2, <2>3, <2>7, <2>8, <2>9, SameNodes DEF HeldOnce
  <2>11. LineIsOutput'
    BY <2>1, <2>3, <2>5 DEF LineIsOutput, At
  <2>12. Earlier' /\ Marked'
    BY <2>1, SameNodes, SameMarks DEF Earlier
  <2> QED
    BY <2>4, <2>6, <2>10, <2>11, <2>12 DEF MathInv
<1> QED
  BY <1>1, <1>2 DEF ConnectToOutput

-----------------------------------------------------------------------------
(* The invariant, and what follows from it.                                *)

LEMMA MathInit ==
  ASSUME Init
  PROVE  MathInv
<1>1. stack = <<>> /\ DOMAIN stack = {} /\ nodes = <<>> /\ DOMAIN nodes = {} /\ output = 0
  BY DEF Init
<1>2. Typed
  BY <1>1 DEF Init, Typed, Unset, None, Terminals, Semantics, Loose, FactorOps, Tight
<1>3. Grammar /\ Earlier
  BY <1>1 DEF Grammar, Earlier, Operand
<1>4. HeldOnce
  BY <1>1 DEF HeldOnce, OnStack, Operand
<1>5. LineIsOutput
  BY <1>1 DEF LineIsOutput, At
<1>6. Marked
  BY <1>1 DEF Init, Marked
<1> QED
  BY <1>2, <1>3, <1>4, <1>5, <1>6 DEF MathInv

LEMMA MathStep ==
  ASSUME MathInv, [Next]_vars
  PROVE  MathInv'
<1>1. CASE \E symbol \in Alphabet : LexSymbol(symbol)
  BY <1>1, LexSymbolInv
<1>2. CASE LexAgain \/ LexEnd
  BY <1>2, LexAgainInv
<1>3. CASE Shift
  BY <1>3, ShiftInv
<1>4. CASE SrcBlock
  BY <1>4, SrcBlockInv
<1>5. CASE ConstBlock
  BY <1>5, ConstBlockInv
<1>6. CASE Parenthesis
  BY <1>6, ParenthesisInv
<1>7. CASE FuncBlock
  BY <1>7, FuncBlockInv
<1>8. CASE NegBlock
  BY <1>8, NegBlockInv
<1>9. CASE PlusSign
  BY <1>9, PlusSignInv
<1>10. CASE Promote
  BY <1>10, PromoteInv
<1>11. CASE BinaryBlock
  BY <1>11, BinaryBlockInv
<1>12. CASE ConnectToOutput
  BY <1>12, ConnectToOutputInv
<1>13. CASE SrcBlockCrashes \/ Accept \/ SyntaxError
  BY <1>13, EndInv DEF SrcBlockCrashes, Accept, SyntaxError, graph
<1>14. CASE UNCHANGED vars
  BY <1>14, EndInv DEF vars, graph
<1> QED
  BY <1>1, <1>2, <1>3, <1>4, <1>5, <1>6, <1>7, <1>8, <1>9, <1>10, <1>11, <1>12, <1>13, <1>14 DEF Next

(* yacc's value stack and the connections of the blocks, whatever the      *)
(* text: what the stack holds fits the grammar, each structure made has    *)
(* one holder, a block is connected to blocks made before it, and the      *)
(* ports that are marked are those that blocks were made for.              *)
THEOREM GraphIsBuiltOnce == Spec => []MathInv
<1>1. Init => MathInv
  BY MathInit
<1>2. MathInv /\ [Next]_vars => MathInv'
  BY MathStep
<1> QED
  BY <1>1, <1>2, PTL DEF Spec

(* After a syntax error the parser deletes a structure once at most. *)
LEMMA DiscardedOnce ==
  ASSUME HeldOnce, NEW i \in DOMAIN nodes
  PROVE  DeletedOnError[i] <= 1
<1> DEFINE places == {k \in DOMAIN stack : stack[k].sym \in Nonterminals /\ stack[k].val = i}
<1>1. \A k, l \in places : k = l
  BY DEF HeldOnce, OnStack
<1>2. DeletedOnError[i] = Cardinality(places)
  BY DEF DeletedOnError
<1> HIDE DEF places
<1>3. CASE places = {}
  BY <1>2, <1>3, FS_EmptySet
<1>4. CASE places # {}
  <2>1. PICK k : places = {k}
    BY <1>1, <1>4
  <2>2. Cardinality(places) = 1
    BY <2>1, FS_Singleton
  <2> QED
    BY <1>2, <2>2
<1> QED
  BY <1>3, <1>4

(* %destructor and cleanup(): whatever the text, and wherever its error,   *)
(* no structure is deleted twice, and each is deleted when a block is made.*)
THEOREM StructuresAreDeletedOnce == Spec => []DeletedOnce
<1> DEFINE Ended == DeletedOnce /\ (outcome = "parsing" => deleted = <<>>)
<1>1. Init => Ended
  BY DEF Init, DeletedOnce
<1>2. ASSUME Ended, MathInv, [Next]_vars PROVE Ended'
  <2>1. CASE Accept
    BY <2>1 DEF Accept, CleanedUp, DeletedOnce, graph
  <2>2. CASE SyntaxError
    <3>1. deleted' = DeletedOnError /\ outcome' = "invalid"
      BY <2>2 DEF SyntaxError
    <3>2. DOMAIN DeletedOnError = DOMAIN nodes
      BY DEF DeletedOnError
    <3>3. \A i \in DOMAIN deleted' : deleted'[i] <= 1
      BY <1>2, <3>1, <3>2, DiscardedOnce DEF MathInv
    <3> QED
      BY <3>1, <3>3 DEF DeletedOnce
  <2>3. CASE \/ deleted' = deleted /\ outcome' = outcome /\ outcome = "parsing"
             \/ deleted' = deleted /\ outcome = "parsing" /\ outcome' \in {"thrown", "crashed"}
    BY <1>2, <2>3 DEF DeletedOnce
  <2>4. CASE UNCHANGED vars
    BY <1>2, <2>4 DEF vars, graph, ends, DeletedOnce
  <2>5. CASE \/ \E symbol \in Alphabet : LexSymbol(symbol)
             \/ LexAgain \/ LexEnd \/ Shift
    BY <2>3, <2>5 DEF LexSymbol, LexAgain, LexEnd, Shift, Reading, Parsing, ends
  <2>6. CASE \/ SrcBlock \/ SrcBlockCrashes \/ ConstBlock \/ Parenthesis \/ FuncBlock
             \/ NegBlock \/ PlusSign \/ Promote \/ BinaryBlock \/ ConnectToOutput
    BY <2>3, <2>6 DEF SrcBlock, SrcBlockCrashes, ConstBlock, Parenthesis, FuncBlock, NegBlock,
         PlusSign, Promote, BinaryBlock, ConnectToOutput, Throws, Parser, ends, Parsing
  <2> QED
    BY <1>2, <2>1, <2>2, <2>4, <2>5, <2>6 DEF Next
<1>3. Ended => DeletedOnce
  OBVIOUS
<1> QED
  BY <1>1, <1>2, <1>3, GraphIsBuiltOnce, PTL DEF Spec

(* A block that was made has nothing left on the stack: each structure     *)
(* feeds the output or one later block.                                    *)
LEMMA OnlyTheLine ==
  ASSUME MathInv, Sym(0) = "Line"
  PROVE  /\ \A k, i : ~OnStack(k, i)
         /\ \A i \in DOMAIN nodes : i = output \/ \E j, m : Operand(j, m, i)
<1>1. Typed /\ Grammar /\ HeldOnce
  BY DEF MathInv
<1>2. 0 < Len(stack)
  BY <1>1, TopOfStack
<1>3. Len(stack) = 1
  BY <1>1, <1>2, GrammarTop
<1>4. PICK last \in Nat : last = Len(stack) - 0 /\ At(last) = Sym(0) /\ last \in DOMAIN stack
  BY <1>1, <1>2, TopEntries
<1>5. DOMAIN stack = {1} /\ last = 1
  BY <1>1, <1>3, <1>4 DEF Typed
<1>6. \A k, i : ~OnStack(k, i)
  BY <1>4, <1>5 DEF OnStack, At, Nonterminals
<1> QED
  BY <1>1, <1>6 DEF HeldOnce

LEMMA FedIsMarked ==
  ASSUME MathInv, Sym(0) = "Line", block.class = "math", NEW port
  PROVE  Feeds(port) <=> port \in used
<1>1. port \in used <=> \E i \in DOMAIN nodes : nodes[i].kind = "in" /\ nodes[i].operands = <<port>>
  BY DEF MathInv, Marked
<1>2. ASSUME Feeds(port) PROVE port \in used
  BY <1>1, <1>2 DEF Feeds
<1>3. ASSUME port \in used PROVE Feeds(port)
  <2>1. PICK i \in DOMAIN nodes : nodes[i].kind = "in" /\ nodes[i].operands = <<port>>
    BY <1>1, <1>3
  <2>2. i = output \/ \E j, m : Operand(j, m, i)
    BY OnlyTheLine
  <2> QED
    BY <2>1, <2>2 DEF Feeds, Operand, Leaves
<1> QED
  BY <1>2, <1>3

(* set_port_used() and connect_null_sinks(): whatever the text, an input   *)
(* of an iio_math that was made feeds its graph or a null sink, never both.*)
THEOREM InputsAreConnected == Spec => []InputsConnected
<1>1. Init => InputsConnected
  BY DEF Init, InputsConnected
<1>2. ASSUME InputsConnected, MathInv, [Next]_vars PROVE InputsConnected'
  <2>1. CASE Accept
    <3> SUFFICES ASSUME block.class = "math", NEW port \in Ports
                 PROVE  Feeds(port)' <=> port \notin sinks'
      BY <2>1 DEF Accept, InputsConnected, Ports
    <3>1. Feeds(port)' <=> Feeds(port)
      BY <2>1 DEF Accept, Feeds, graph
    <3>2. sinks' = Ports \ used
      BY <2>1 DEF Accept, NullSinks
    <3>3. Feeds(port) <=> port \in used
      BY <1>2, <2>1, FedIsMarked DEF Accept
    <3> QED
      BY <3>1, <3>2, <3>3
  <2>2. CASE UNCHANGED vars
    <3>1. /\ block' = block /\ nodes' = nodes /\ output' = output
          /\ sinks' = sinks /\ outcome' = outcome
      BY <2>2 DEF vars, graph, ends
    <3>2. Ports' = Ports /\ \A port : Feeds(port)' <=> Feeds(port)
      BY <3>1 DEF Ports, Feeds
    <3> QED
      BY <1>2, <3>1, <3>2 DEF InputsConnected
  <2>3. CASE outcome' # "made"
    BY <2>3 DEF InputsConnected
  <2>4. CASE \/ \E symbol \in Alphabet : LexSymbol(symbol)
             \/ LexAgain \/ LexEnd \/ Shift \/ SyntaxError
    BY <2>3, <2>4 DEF LexSymbol, LexAgain, LexEnd, Shift, SyntaxError, Reading, Parsing, ends
  <2>5. CASE \/ SrcBlock \/ SrcBlockCrashes \/ ConstBlock \/ Parenthesis \/ FuncBlock
             \/ NegBlock \/ PlusSign \/ Promote \/ BinaryBlock \/ ConnectToOutput
    BY <2>3, <2>5 DEF SrcBlock, SrcBlockCrashes, ConstBlock, Parenthesis, FuncBlock, NegBlock,
         PlusSign, Promote, BinaryBlock, ConnectToOutput, Throws, Parser, ends, Parsing
  <2> QED
    BY <1>2, <2>1, <2>2, <2>4, <2>5 DEF Next
<1> QED
  BY <1>1, <1>2, GraphIsBuiltOnce, PTL DEF Spec

(* The structures that were made are a tree below the output.              *)
IsTree ==
  /\ \A j, m : ~Operand(j, m, output)
  /\ \A i \in DOMAIN nodes \ {output} :
       \E j, m :
         i < j /\ Operand(j, m, i) /\ \A k, l : Operand(k, l, i) => k = j /\ l = m

GraphIsATree == outcome = "made" => IsTree

(* parse() and cleanup(): when a block is made, every GNU Radio block that *)
(* was made for it reaches the output, along one path: none is left        *)
(* unconnected, is connected twice, or is part of a loop.                  *)
THEOREM MadeBlocksAreTrees == Spec => []GraphIsATree
<1> DEFINE Ended == outcome = "made" => Sym(0) = "Line"
<1>1. Init => Ended
  BY DEF Init
<1>2. ASSUME Ended, [Next]_vars PROVE Ended'
  <2>1. CASE Accept
    BY <2>1 DEF Accept, Sym, Entry
  <2>2. CASE UNCHANGED vars
    BY <1>2, <2>2 DEF vars, ends, Sym, Entry
  <2>3. CASE outcome' # "made"
    BY <2>3
  <2>4. CASE \/ \E symbol \in Alphabet : LexSymbol(symbol)
             \/ LexAgain \/ LexEnd \/ Shift \/ SyntaxError
    BY <2>3, <2>4 DEF LexSymbol, LexAgain, LexEnd, Shift, SyntaxError, Reading, Parsing, ends
  <2>5. CASE \/ SrcBlock \/ SrcBlockCrashes \/ ConstBlock \/ Parenthesis \/ FuncBlock
             \/ NegBlock \/ PlusSign \/ Promote \/ BinaryBlock \/ ConnectToOutput
    BY <2>3, <2>5 DEF SrcBlock, SrcBlockCrashes, ConstBlock, Parenthesis, FuncBlock, NegBlock,
         PlusSign, Promote, BinaryBlock, ConnectToOutput, Throws, Parser, ends, Parsing
  <2> QED
    BY <1>2, <2>1, <2>2, <2>4, <2>5 DEF Next
<1>3. ASSUME MathInv, Ended PROVE GraphIsATree
  <2> SUFFICES ASSUME outcome = "made" PROVE IsTree
    BY DEF GraphIsATree
  <2>1. /\ \A i \in DOMAIN nodes : i = output \/ \E j, m : Operand(j, m, i)
        /\ HeldOnce /\ Earlier /\ nodes \in Seq(Nodes)
    BY <1>3, OnlyTheLine DEF MathInv, Typed
  <2>2. \A j, m : ~Operand(j, m, output)
    BY <2>1 DEF HeldOnce
  <2>3. ASSUME NEW i \in DOMAIN nodes \ {output}
        PROVE  \E j, m :
                 i < j /\ Operand(j, m, i) /\ \A k, l : Operand(k, l, i) => k = j /\ l = m
    <3>1. PICK j, m : Operand(j, m, i)
      BY <2>1, <2>3
    <3>2. j \in DOMAIN nodes /\ i \in 1..(j - 1) /\ j \in Int
      BY <2>1, <3>1 DEF Earlier, Operand
    <3>3. i < j
      BY <3>2
    <3>4. \A k, l : Operand(k, l, i) => k = j /\ l = m
      BY <2>1, <3>1 DEF HeldOnce
    <3> QED
      BY <3>1, <3>2, <3>3, <3>4
  <2> QED
    BY <2>2, <2>3 DEF IsTree
<1> QED
  BY <1>1, <1>2, <1>3, GraphIsBuiltOnce, PTL DEF Spec
=============================================================================
