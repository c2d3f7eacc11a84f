-------------------------------- MODULE MCControl ------------------------------
(* The function bodies TLC goes through: every construct around every jump, *)
(* and up to two more constructs around these.                              *)
EXTENDS Control

Row(kind, blocks, sizes, gives) == [kind |-> kind, blocks |-> blocks, sizes |-> sizes, gives |-> gives]

(* The rows of a body but its last, the block, moved to places from d + 1   *)
(* on, and the statements of that block.                                    *)
Moved(b, d) ==
  [n \in 1 .. Len(b) - 1 |->
     [b[n] EXCEPT !.blocks = [i \in DOMAIN @ |-> [p \in DOMAIN @[i] |-> @[i][p] + d]]]]
Places(b, d) == LET top == b[Len(b)].blocks[1] IN [p \in DOMAIN top |-> top[p] + d]

(* The number of rows before those of the i-th of bodies bs *)
Before(bs, i) == FoldLeft(LAMBDA d, b : d + Len(b) - 1, 0, SubSeq(bs, 1, i - 1))
Rows(bs) == FlattenSeq([i \in DOMAIN bs |-> Moved(bs[i], Before(bs, i))])
Blocks(bs) == [i \in DOMAIN bs |-> Places(bs[i], Before(bs, i))]

(* A body of one statement, one after the other, and one around others *)
Simple(kind, gives) == <<Row(kind, <<>>, <<>>, gives), Row("block", <<<<1>>>>, <<>>, FALSE)>>
Nothing == <<Row("block", <<<<>>>>, <<>>, FALSE)>>
Then(a, b) == Rows(<<a, b>>) \o <<Row("block", <<FlattenSeq(Blocks(<<a, b>>))>>, <<>>, FALSE)>>
Compound(kind, sizes, bs) ==
  LET rows == Rows(bs) \o <<Row(kind, Blocks(bs), sizes, FALSE)>>
  IN  rows \o <<Row("block", <<<<Len(rows)>>>>, <<>>, FALSE)>>

DoIt == Simple("do", FALSE)
Jumps == {Simple("break", FALSE), Simple("continue", FALSE), Simple("return", FALSE), Simple("return", TRUE)}

(* A statement; a jump; a jump on a condition, with a statement after it *)
Inner == {DoIt} \cup Jumps \cup {Then(Compound("if", <<>>, <<j, Nothing>>), DoIt) : j \in Jumps}

(* The constructs around the bodies of B *)
Around(B) ==
  {Compound(kind, <<>>, <<b>>) : kind \in Loops, b \in B}
  \cup {Compound("if", <<>>, <<b, DoIt>>) : b \in B}
  \cup {Compound("branch", <<1, 2>>, <<b, DoIt, DoIt>>) : b \in B}
  \cup {Compound("branch", <<2>>, <<DoIt, b>>) : b \in B}

(* Two constructs one after the other as well *)
Outer == {Then(s, DoIt) : s \in Around(Inner)}
         \cup {Then(s, t) : s \in Around({DoIt}), t \in Around({Simple("break", FALSE)})}

SmallBodies ==
  LET deep == Around(Outer)
      deeper == Around(deep)
      all == Outer \cup deep \cup deeper
  IN  all \cup {Then(b, Simple("return", TRUE)) : b \in all}
================================================================================
