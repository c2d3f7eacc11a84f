------------------------------- MODULE MCDriver --------------------------------
(* Small instances of Driver for TLC. *)
EXTENDS Driver

(* prog.c.fy is built to prog.c, which is where prog.fy has its C. *)
TwoSources == {<<"prog", "fy">>, <<"prog", "c", "fy">>}
OneSource == {<<"prog", "fy">>}
ExitStatuses == {0, 1, 127}
===============================================================================
