------------------------------- MODULE MCLoader --------------------------------
(* Small instances of Loader for TLC. *)
EXTENDS Loader

CONSTANTS main, lib, util, S, T
CONSTANTS pMain, pLib, pAlias, pUtil, pGone

(* lib has two spellings, and util is found only from the directory of lib *)
Found ==
  [p \in (Files \cup {None}) \X Paths |->
     CASE p[2] = pMain -> main
       [] p[2] = pLib \/ p[2] = pAlias -> lib
       [] p[2] = pUtil /\ p[1] = lib -> util
       [] OTHER -> None]

I(kind, n) == [kind |-> kind, name |-> n]
In(p) == I("involve", p)

MainSources ==
  {<<a, b, I("fr", t)>> : a, b \in {In(pLib), In(pAlias), In(pUtil), In(pMain), I("struct", S)}, t \in {S, T}}
  \cup {<<In(pGone)>>, <<>>, <<In(pLib), I("garbage", None)>>, Unreadable}
LibSources ==
  {<<a, b>> : a \in {In(pMain), In(pUtil), In(pAlias), I("broken", S), I("garbage", None)},
              b \in {I("struct", S), I("enum", S), I("enum", T), I("fr", T), In(pUtil), I("stray", None)}}
  \cup {Unreadable}
UtilSources ==
  {<<>>, <<I("struct", T)>>, <<In(pMain), I("fr", T)>>, <<I("struct", T), I("struct", S)>>, <<I("enum", T), In(pGone)>>,
   <<I("fr", S), I("broken", T)>>, Unreadable}

SmallDisks ==
  {[f \in Files |-> CASE f = main -> m [] f = lib -> l [] f = util -> u] :
     m \in MainSources, l \in LibSources, u \in UtilSources}
===============================================================================
