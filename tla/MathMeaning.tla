---------------------------- MODULE MathMeaning ----------------------------
(***************************************************************************)
(* The parser of MathExpr compared with the readings of MathReading.       *)
(***************************************************************************)
EXTENDS MathExpr, MathReading

(* The tree of blocks that feeds the output. *)
Tree ==
  LET tree[i \in DOMAIN nodes] ==
        LET node == nodes[i]
        IN IF node.kind \in {"in", "const"} THEN <<node.kind>> \o node.operands
           ELSE <<node.kind>> \o [k \in DOMAIN node.operands |-> tree[node.operands[k]]]
  IN tree[output]

(* Lexer and parser: the graph of a block that was made computes what its  *)
(* text means, read from its loosest operator inwards: strengths,          *)
(* directions, signs and parentheses.  The ports are the ones of the text, *)
(* unless it contains a w; a generator has one signal whatever the port.   *)
MeansWhatItSays ==
  outcome = "made" =>
    IF block.class = "math" /\ \A i \in DOMAIN text : text[i] # "w"
    THEN Readings(text) = {Tree}
    ELSE {Shape(tree) : tree \in Readings(text)} = {Shape(Tree)}

(* Lexer and parser: a syntax error is reported only when the symbols read *)
(* so far do not begin any expression: of MaxLength symbols at most, two   *)
(* more at most.                                                           *)
Continuations ==
  LET room == IF token.type = "end" THEN 0 ELSE MaxLength - Len(text)
  IN UNION {[1..n -> Alphabet] : n \in {k \in 0..2 : k <= room}}

RefusesNonsense ==
  outcome = "invalid" => \A rest \in Continuations : Readings(text \o rest) = {}
=============================================================================
