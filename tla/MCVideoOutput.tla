---------------------------- MODULE MCVideoOutput ----------------------------
EXTENDS VideoOutput

(* The sub-options bomi sends without and with motion interpolation *)
(* (playengine_p.cpp:133-137), with a shorter queue.                 *)
Plain == [size |-> 2, drop |-> "clear", timed |-> FALSE]
Smooth == [size |-> 1, drop |-> "block", timed |-> TRUE]
(* The third drop mode of the output, which bomi does not use.       *)
Popping == [size |-> 2, drop |-> "pop", timed |-> FALSE]

MCOptions == {Plain, Smooth, Popping}
==============================================================================
