------------------------------- MODULE MCTyping --------------------------------
(* A program for Typing: structs with numbers and with a list, functions that
   take and return a struct and an enum, and one that returns nothing. *)
EXTENDS Typing

MCStructs == [P |-> [x |-> TYPE_INT, w |-> TYPE_FLOAT], Q |-> [tags |-> <<"list", "string">>]]
MCEnums == {"E"}
MCFunctions ==
  [f |-> [params |-> <<<<"P">>, TYPE_BOOL>>, ret |-> <<"P">>],
   g |-> [params |-> <<<<"E">>, <<"list", "P">>>>, ret |-> <<"E">>],
   v |-> [params |-> <<>>, ret |-> TYPE_VOID]]
================================================================================
