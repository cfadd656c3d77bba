---------------------------- MODULE MathReading ----------------------------
(***************************************************************************)
(* What the expressions of the math blocks mean, read as a person does:    *)
(* the whole text at once, from its loosest operator inwards.  MathExpr is *)
(* the parser of the code, and is compared with it.                        *)
(*                                                                         *)
(* A text is a sequence of symbols, and a reading a tree: <<"in", port>>,  *)
(* <<"const", symbol>>, or an operator, or "func", or "neg", with its      *)
(* operands.                                                               *)
(***************************************************************************)
EXTENDS MathSymbols

(* After these a sign is an operator.                                      *)
Operands == InPorts \cup Values \cup {"w", ")"}

Count(text, symbol) == Cardinality({i \in DOMAIN text : text[i] = symbol})

(* The places of the operators outside all parentheses.                    *)
Places(text, operators) ==
  {i \in 2..Len(text) :
     /\ text[i] \in operators /\ text[i - 1] \in Operands
     /\ LET before == SubSeq(text, 1, i) IN Count(before, "(") = Count(before, ")")}

First(places) == CHOOSE i \in places : \A j \in places : i <= j
Last(places) == CHOOSE i \in places : \A j \in places : j <= i

(* The readings of a text: one, or none if it is no expression.  Operators *)
(* of the same strength apply from the left, powers from the right, and a  *)
(* sign to what follows it immediately; w stands for x*2*pi.               *)
Leaf(symbol) ==
  CASE symbol \in InPorts -> {<<"in", PortOf[symbol]>>}
    [] symbol \in Values -> {<<"const", symbol>>}
    [] symbol = "w" -> {<<"*", <<"in", 0>>, <<"const", "2pi">>>>}
    [] OTHER -> {}

RECURSIVE Readings(_)
Readings(text) ==
  LET n == Len(text)
      Part(from, to) == Readings(SubSeq(text, from, to))
      Split(i) == {<<text[i], left, right>> : left \in Part(1, i - 1), right \in Part(i + 1, n)}
  IN CASE n = 0 -> {}
       [] n = 1 -> Leaf(text[1])
       [] Places(text, Loose) # {} -> Split(Last(Places(text, Loose)))
       [] Places(text, Tight) # {} -> Split(Last(Places(text, Tight)))
       [] Places(text, Power) # {} -> Split(First(Places(text, Power)))
       [] text[1] = "-" -> {<<"neg", operand>> : operand \in Part(2, n)}
       [] text[1] = "+" -> Part(2, n)
       [] text[n] = ")" /\ text[1] = "(" -> Part(2, n - 1)
       [] text[n] = ")" /\ text[1] \in Functions /\ text[2] = "(" ->
            {<<"func", operand>> : operand \in Part(3, n - 1)}
       [] OTHER -> {}

(* A tree without the numbers of its ports. *)
RECURSIVE Shape(_)
Shape(tree) ==
  CASE tree[1] = "in" -> <<"in">>
    [] tree[1] = "const" -> tree
    [] OTHER -> [k \in DOMAIN tree |-> IF k = 1 THEN tree[1] ELSE Shape(tree[k])]
=============================================================================
