------------------------------- MODULE MCServices ------------------------------
(* A small instance of Services for TLC. *)
EXTENDS Services

CONSTANTS x, sp

SmallLiterals == {<<x>>, <<sp>>}

(* A line of three characters; two lines, the last one without its end; a   *)
(* file that is no text                                                     *)
SmallContents == {<<x, x, x, NewLine>>, <<sp, NewLine, x>>, <<x, Nul>>}

Spaces == {sp, NewLine}
================================================================================
