------------------------- MODULE MCContextRegistry -------------------------
(* Instances of ContextRegistry for TLC: five blocks on two URIs, so that  *)
(* one context has several users while another comes and goes.             *)
EXTENDS ContextRegistry, TLC

CONSTANTS b1, b2, b3, b4, b5, u1, u2, c1, c2, c3

(* Every kind of block, and everything that can fail but the lookup of a   *)
(* registered block.                                                       *)
KindMixed == b1 :> "source" @@ b2 :> "attr" @@ b3 :> "sink" @@ b4 :> "source" @@ b5 :> "borrowed"
UriMixed == b1 :> u1 @@ b2 :> u1 @@ b3 :> u1 @@ b4 :> u2 @@ b5 :> u2
FailuresMixed ==
  b1 :> {"connect"} @@ b2 :> {"setup"} @@ b3 :> {"setup", "derived"} @@
  b4 :> {"connect", "derived"} @@ b5 :> {"lookup", "setup", "derived"}

(* Two sources on one URI. *)
KindPlain == b1 :> "source" @@ b2 :> "source"
UriPlain == b1 :> u1 @@ b2 :> u1
FailingLookup == b1 :> {"lookup"} @@ b2 :> {"lookup"}
NoFailure == b1 :> {} @@ b2 :> {}
=============================================================================
