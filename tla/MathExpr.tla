------------------------------ MODULE MathExpr ------------------------------
(***************************************************************************)
(* The math blocks of gr-iio: the constructor of iio_math or iio_math_gen  *)
(* turns an expression into a graph of GNU Radio blocks.  A flex lexer     *)
(* feeds a bison parser whose actions make and connect the blocks; each is *)
(* kept in a structure of its own, which the parser deletes when it        *)
(* discards a value after a syntax error, and cleanup() after success.     *)
(*                                                                         *)
(* The parser is modelled by its decisions: what it reduces and shifts for *)
(* the top of its stack and the next token.                                *)
(***************************************************************************)
EXTENDS MathSymbols

CONSTANTS
  Alphabet,    \* the symbols that texts are made of
  MaxLength    \* bound: of a text

ASSUME MathAssumption == Alphabet \subseteq Symbols /\ MaxLength \in Nat

Wild == 99     \* a number that no port has
Unset == 100   \* uninitialised

VARIABLES
  block,       \* the block under construction: its class, and how many ports
               \* x may name
  text,        \* the symbols read so far
  lexer,       \* the start condition of the lexer
  yylval,      \* its semantic value, read as a port: a union that only some
               \* tokens set
  token,       \* the next token; None when the lexer has to be called
  stack,       \* of the parser
  nodes,       \* the structures made, with what their block is connected to
  used,        \* connected_ports
  deleted,     \* how many times each structure was deleted, <<>> before the end
  output,      \* the structure connected to the output, 0 if none
  sinks,       \* the inputs connected to a null sink
  outcome      \* "parsing", "made", "invalid" (syntax error), "thrown", "crashed"

vars == <<block, text, lexer, yylval, token, stack, nodes, used, deleted, output, sinks, outcome>>
graph == <<nodes, used>>
ends == <<deleted, output, sinks, outcome>>

None == [type |-> "none", value |-> 0]
Ports == 0..(block.ports - 1)

Init ==
  /\ block \in [class : {"math"}, ports : {1, 2}] \cup [class : {"gen"}, ports : {1}]
  /\ text = <<>> /\ lexer = "INITIAL" /\ yylval = Unset /\ token = None
  /\ stack = <<>> /\ nodes = <<>> /\ used = {}
  /\ deleted = <<>> /\ output = 0 /\ sinks = {} /\ outcome = "parsing"

-----------------------------------------------------------------------------
(* The lexer.                                                              *)

Type(symbol) ==
  CASE symbol \in InPorts -> "IN_PORT"
    [] symbol \in Values -> "VALUE"
    [] symbol \in Functions -> "FNAME"
    [] symbol \in Power -> "POWER"
    [] OTHER -> symbol

(* The low bytes of a whole number are 0 as a double; those of pi, and of  *)
(* the address of a name, are not.                                         *)
AsPort(symbol) ==
  CASE symbol \in InPorts -> PortOf[symbol]
    [] symbol = "2" -> 0
    [] symbol \in {"pi", "2pi"} \cup Functions -> Wild
    [] OTHER -> yylval

(* A port is what the union holds when its token is returned: if nothing   *)
(* was ever stored there, anything.                                        *)
Returns(type, symbol) ==
  \E port \in IF type = "IN_PORT" /\ AsPort(symbol) = Unset THEN {0, Wild} ELSE {AsPort(symbol)} :
    /\ yylval' = port
    /\ token' = [type |-> type, value |-> IF type = "IN_PORT" THEN port ELSE symbol]

Enters(condition) == lexer' = condition

Reading == outcome = "parsing" /\ token = None

LexSymbol(symbol) ==
  /\ Reading /\ lexer = "INITIAL" /\ Len(text) < MaxLength
  /\ text' = Append(text, symbol)
  /\ IF symbol = "w" THEN Returns("(", "(") /\ Enters("WANT_IN_PORT")
     ELSE Returns(Type(symbol), symbol) /\ Enters("INITIAL")
  /\ UNCHANGED <<block, stack, graph, ends>>

(* w is read four more times, as x * 2pi and a parenthesis; the port is    *)
(* not set.                                                                *)
LexAgain ==
  /\ Reading
  /\ \/ lexer = "WANT_IN_PORT" /\ Returns("IN_PORT", "w") /\ Enters("WANT_MULT")
     \/ lexer = "WANT_MULT" /\ Returns("*", "*") /\ Enters("WANT_TWO_PI")
     \/ lexer = "WANT_TWO_PI" /\ Returns("VALUE", "2pi") /\ Enters("WANT_END")
     \/ lexer = "WANT_END" /\ Returns(")", ")") /\ Enters("INITIAL")
  /\ UNCHANGED <<block, text, stack, graph, ends>>

LexEnd ==
  /\ Reading /\ lexer = "INITIAL"
  /\ Returns("end", "end")
  /\ UNCHANGED <<block, text, lexer, stack, graph, ends>>

-----------------------------------------------------------------------------
(* The parser.  Sym(0) is the top of its stack, Sym(1) what is below.      *)

Entry(k) == stack[Len(stack) - k]
Sym(k) == IF k < Len(stack) THEN Entry(k).sym ELSE "bottom"
Val(k) == Entry(k).val
Pushed(n, sym, val) == Append(SubSeq(stack, 1, Len(stack) - n), [sym |-> sym, val |-> val])

Parsing == outcome = "parsing" /\ token # None
Nonterminals == {"Element", "Factor", "Term"}
FactorOps == Tight \cup {"POWER"}

(* Mutants: a token that cannot start an operand; operators of all         *)
(* strengths from the left.                                                *)
NoPlus == {"IN_PORT", "VALUE", "FNAME", "(", "-"}
FromTheLeft(type) == Sym(0) = "Factor" /\ Sym(1) \in FactorOps

Starts == {"IN_PORT", "VALUE", "FNAME", "(", "-", "+"}

(* A sign is one if no operand is before it.                               *)
IsSign == Sym(1) \in Loose /\ Sym(2) \notin Nonterminals

(* %right POWER, above %left '*' '/': a power always waits for a power.    *)
ReducesFactors(type) == Sym(0) = "Factor" /\ Sym(1) \in FactorOps /\ type # "POWER"

ReducesTerms == Sym(0) = "Term" /\ Sym(1) \in Loose

Shifts(type) ==
  \/ Sym(0) \in FactorOps \cup Loose \cup {"(", "bottom"} /\ type \in Starts
  \/ Sym(0) = "FNAME" /\ type = "("
  \/ Sym(0) = "Factor" /\ type \in FactorOps /\ ~ReducesFactors(type)
  \/ Sym(0) = "Term" /\ type \in Loose /\ ~ReducesTerms
  \/ Sym(0) = "Term" /\ type = ")" /\ Sym(1) = "("

Shift ==
  /\ Parsing /\ Shifts(token.type)
  /\ stack' = Pushed(0, token.type, token.value)
  /\ token' = None
  /\ UNCHANGED <<block, text, lexer, yylval, graph, ends>>

(* The actions: n entries of the stack become the value of a new block.    *)
Newest == Len(nodes) + 1

Makes(n, kind, operands) ==
  /\ nodes' = Append(nodes, [kind |-> kind, operands |-> operands])
  /\ stack' = Pushed(n, "Element", Newest)

(* GNU Radio throws when a port does not exist.                            *)
IsInput(i) == nodes[i].kind = "in"
Connectable(i) == IsInput(i) => nodes[i].operands[1] \in Ports

Throws ==
  /\ outcome' = "thrown"
  /\ UNCHANGED <<block, text, lexer, yylval, token, stack, graph, deleted, output, sinks>>

Parser == <<block, text, lexer, yylval, token, ends>>

(* Mutant: no port is marked. *)
NotMarked(port) == UNCHANGED used

SetPortUsed(port) == used' = IF block.class = "math" THEN used \cup {port} ELSE used

SrcBlock ==
  /\ Parsing /\ Sym(0) = "IN_PORT"
  /\ SetPortUsed(Val(0))
  /\ Makes(1, "in", <<Val(0)>>)
  /\ UNCHANGED Parser

(* connected_ports is written outside its bounds: iio_math may crash.      *)
SrcBlockCrashes ==
  /\ Parsing /\ Sym(0) = "IN_PORT"
  /\ block.class = "math" /\ Val(0) \notin Ports
  /\ outcome' = "crashed"
  /\ UNCHANGED <<block, text, lexer, yylval, token, stack, graph, deleted, output, sinks>>

ConstBlock ==
  /\ Parsing /\ Sym(0) = "VALUE"
  /\ Makes(1, "const", <<Val(0)>>)
  /\ UNCHANGED <<used, Parser>>

(* '(' Term ')', alone or after a name; only "f" is a function.            *)
Parenthesis ==
  /\ Parsing /\ Sym(0) = ")" /\ Sym(3) # "FNAME"
  /\ stack' = Pushed(3, "Element", Val(1))
  /\ UNCHANGED <<graph, Parser>>

FuncBlock ==
  /\ Parsing /\ Sym(0) = ")" /\ Sym(3) = "FNAME"
  /\ IF Val(3) = "f" /\ Connectable(Val(1))
     THEN Makes(4, "func", <<Val(1)>>) /\ UNCHANGED <<used, Parser>>
     ELSE Throws

NegBlock ==
  /\ Parsing /\ Sym(0) = "Element" /\ IsSign /\ Sym(1) = "-"
  /\ IF Connectable(Val(0))
     THEN Makes(2, "neg", <<Val(0)>>) /\ UNCHANGED <<used, Parser>>
     ELSE Throws

PlusSign ==
  /\ Parsing /\ Sym(0) = "Element" /\ IsSign /\ Sym(1) = "+"
  /\ stack' = Pushed(2, "Element", Val(0))
  /\ UNCHANGED <<graph, Parser>>

(* An Element is a Factor, a Factor a Term, where nothing else is done.    *)
Promote ==
  /\ Parsing
  /\ \/ Sym(0) = "Element" /\ ~IsSign /\ stack' = Pushed(1, "Factor", Val(0))
     \/ /\ Sym(0) = "Factor" /\ ~ReducesFactors(token.type) /\ token.type \notin FactorOps
        /\ stack' = Pushed(1, "Term", Val(0))
  /\ UNCHANGED <<graph, Parser>>

(* mult_block, div_block and pow_block; add_block and sub_block.           *)
BinaryBlock ==
  /\ Parsing /\ (ReducesFactors(token.type) \/ ReducesTerms)
  /\ IF Connectable(Val(2)) /\ Connectable(Val(0))
     THEN /\ nodes' = Append(nodes, [kind |-> Val(1), operands |-> <<Val(2), Val(0)>>])
          /\ stack' = Pushed(3, Sym(0), Newest)
          /\ UNCHANGED <<used, Parser>>
     ELSE Throws

-----------------------------------------------------------------------------
(* The end of the constructor.                                             *)

CleanedUp == [i \in DOMAIN nodes |-> 1]

(* Mutant: cleanup() comes before the test of the result. *)
CleansUpToo ==
  [i \in DOMAIN nodes |->
     1 + Cardinality({k \in DOMAIN stack : stack[k].sym \in Nonterminals /\ stack[k].val = i})]

(* The parser discards its stack. *)
DeletedOnError ==
  [i \in DOMAIN nodes |->
     Cardinality({k \in DOMAIN stack : stack[k].sym \in Nonterminals /\ stack[k].val = i})]

NullSinks == Ports \ used

IsLine == Len(stack) = 1 /\ Sym(0) = "Term" /\ token.type \notin Loose

(* The Line is connected to the output; a generator takes its port 0.      *)
(* Then the token must be the end.                                         *)
ConnectToOutput ==
  /\ Parsing /\ IsLine
  /\ IF block.class = "math" => Connectable(Val(0))
     THEN /\ output' = Val(0)
          /\ stack' = Pushed(1, "Line", 0)
          /\ UNCHANGED <<block, text, lexer, yylval, token, graph, deleted, sinks, outcome>>
     ELSE Throws

Accept ==
  /\ Parsing /\ Sym(0) = "Line" /\ token.type = "end"
  /\ outcome' = "made"
  /\ sinks' = IF block.class = "math" THEN NullSinks ELSE {}
  /\ deleted' = CleanedUp
  /\ UNCHANGED <<block, text, lexer, yylval, token, stack, graph, output>>

Reduces ==
  \/ Sym(0) \in {"IN_PORT", "VALUE", ")", "Element"}
  \/ Sym(0) = "Factor" /\ (ReducesFactors(token.type) \/ token.type \notin FactorOps)
  \/ ReducesTerms \/ IsLine

SyntaxError ==
  /\ Parsing /\ ~Shifts(token.type) /\ ~Reduces
  /\ ~(Sym(0) = "Line" /\ token.type = "end")
  /\ deleted' = DeletedOnError
  /\ outcome' = "invalid"
  /\ UNCHANGED <<block, text, lexer, yylval, token, stack, graph, output, sinks>>

Next ==
  \/ \E symbol \in Alphabet : LexSymbol(symbol)
  \/ LexAgain \/ LexEnd
  \/ Shift
  \/ SrcBlock \/ SrcBlockCrashes \/ ConstBlock \/ Parenthesis \/ FuncBlock
  \/ NegBlock \/ PlusSign \/ Promote \/ BinaryBlock
  \/ ConnectToOutput \/ Accept \/ SyntaxError

Spec == Init /\ [][Next]_vars

-----------------------------------------------------------------------------
(* %destructor and cleanup(): each structure is deleted at most once, and  *)
(* exactly once when the block was made.                                   *)
DeletedOnce ==
  /\ \A i \in DOMAIN deleted : deleted[i] <= 1
  /\ outcome = "made" => \A i \in DOMAIN nodes : deleted[i] = 1

(* set_port_used(), connect_null_sinks(): each input of an iio_math that   *)
(* was made feeds the graph or, if the text does not name it, a null sink: *)
(* GNU Radio runs no flowgraph with an unconnected port.                   *)
Feeds(port) ==
  \E i \in DOMAIN nodes :
    /\ nodes[i].kind = "in" /\ nodes[i].operands = <<port>>
    /\ \/ i = output
       \/ \E j \in DOMAIN nodes : nodes[j].kind \notin {"in", "const"}
                                 /\ \E k \in DOMAIN nodes[j].operands : nodes[j].operands[k] = i

InputsConnected ==
  outcome = "made" /\ block.class = "math" =>
    \A port \in Ports : Feeds(port) <=> port \notin sinks
=============================================================================
