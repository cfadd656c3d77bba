----------------------------- MODULE MCMathExpr -----------------------------
(* All texts of at most MaxLength symbols.                                 *)
EXTENDS MathMeaning
=============================================================================
