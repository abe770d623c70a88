-------------------------- MODULE MCConfigApplier --------------------------
(* Small instances of ConfigApplier on which one path changes its format.    *)
EXTENDS ConfigApplier, TLC

Desired(format) ==
  [paths |-> "p" :> [tag |-> "u", format |-> format, volume |-> 1],
   sinks |-> "s" :> [config |-> 1, links |-> {"p"}]]

MCStates == {Desired(f) : f \in {1, 2}}
=============================================================================
