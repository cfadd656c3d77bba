---------------------------- MODULE MathSymbols ----------------------------
(***************************************************************************)
(* The symbols that the expressions of the math blocks are made of.  Two   *)
(* per kind stand for all; % is as * and /; "?" is one the lexer does not  *)
(* know.                                                                   *)
(***************************************************************************)
EXTENDS Integers, Sequences, FiniteSets

PortOf == [x0 |-> 0, x1 |-> 1]
InPorts == DOMAIN PortOf
Values == {"2", "pi"}
Functions == {"f", "g"}

Loose == {"+", "-"}
Tight == {"*", "/"}
Power == {"**"}
Symbols == InPorts \cup Values \cup Functions \cup Loose \cup Tight \cup Power
           \cup {"w", "(", ")", "?"}
=============================================================================
