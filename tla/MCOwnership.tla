---------------------------- MODULE MCOwnership ----------------------------
(* The scripts of MCMessage, followed for a few writes and sends.  Of those   *)
(* with a schema, the fills and what they overlap: the outer fill alone makes *)
(* five writes.                                                               *)
EXTENDS MessageHistory, MCMessage

CONSTANT MaxEvents      \* bound: how many logged events a behaviour has

BoundedNext == LogNext /\ Len(log') <= MaxEvents

HSpec == LogInit /\ [][BoundedNext]_logVars

FillPlacement ==
  { << <<>>, OuterFill >>, << <<"a">>, InnerFill >>, << <<"a", "b">>, LiveB >>,
    << <<"a", "c">>, LiveC >>, << <<"d">>, ArrayValue(<<NumberValue>>) >>, << <<"a">>, Whole >> }
=============================================================================
