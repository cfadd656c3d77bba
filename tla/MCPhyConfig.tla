---------------------------- MODULE MCPhyConfig ----------------------------
(* An FMComms2/3/4 or FMComms5 board, a source and a sink, two rates.      *)
EXTENDS PhyConfig

Arguments == {
  [id |-> 1, rate |-> 1, mode |-> "manual", filter |-> "good", auto_filter |-> TRUE],
  [id |-> 2, rate |-> 2, mode |-> "auto",   filter |-> "",     auto_filter |-> TRUE],
  [id |-> 1, rate |-> 2, mode |-> "manual", filter |-> "bad",  auto_filter |-> FALSE]}
=============================================================================
