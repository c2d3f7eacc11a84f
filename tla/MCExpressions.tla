------------------------------ MODULE MCExpressions ----------------------------
(* A small instance of Grammar for TLC.  What tokens go on from, up to      *)
(* MaxTokens of them, and whole statements that are longer.                 *)
EXTENDS Grammar

Operators == {"*", "+", "-", "<<", "<", "==", "&", "^", "|", "&&", "||"}

(* Nothing, and the beginnings of the forms of primaries and targets *)
Beginnings ==
  {<<>>, <<"x", "=", "S">>, <<"x", "=", "S", "{", "x", ":", "x">>, <<"x", "=", "E">>, <<"x", "=", "{", "x">>,
   <<"contains", "(", "x">>, <<"len", "(", "x">>, <<"keys">>,
   <<"compose">>, <<"compose", "(", "s">>, <<"x", "=", "compose", "(", "s", ",", "x">>,
   <<"x", ".", "x", ".", "x">>, <<"x", "[", "x", "]">>, <<"x", "--">>}
  \cup {<<k>> : k \in Keywords}
  \cup {<<"x", op, "x">> : op \in DOMAIN Compound}
  \cup {<<"x", op, "x">> : op \in Operators}

(* Every three operators in a row, with a sign, and around a conditional *)
Rows ==
  {<<"1", op, "x", op2, "1", op3, "x", ";">> : op, op2, op3 \in Operators}
  \cup {<<"x", "=", "-", "x", op, "!", "-", "x", op2, "~", "x", ";">> : op, op2 \in Operators}
  \cup {<<"x", "<<=", "x", op, "x", "?", "x", op2, "x", ":", "x", op3, "x", ";">> : op, op2, op3 \in Operators}

(* Conditionals, brackets and postfixes in each other *)
Nested ==
  {<<"x", "?", "x", ":", "x", "?", "x", ":", "x", ";">>, <<"x", "?", "x", "?", "x", ":", "x", ":", "x", ";">>,
   <<"x", "=", "x", "[", "x", "?", "x", ":", "x", ":", "x", "]", ";">>,
   <<"x", "=", "x", "[", "x", ":", "x", "?", "x", ":", "x", "]", ";">>,
   <<"x", "=", "x", "[", "x", ":", "x", ":", "x", "]", ";">>,
   <<"x", "=", "{", "x", "?", "x", ":", "x", ":", "x", ",", "x", ":", "x", "}", ";">>,
   <<"x", "=", "S", "{", "x", ":", "x", "?", "x", ":", "x", ",", "x", ":", "E", ".", "x", "}", ";">>,
   <<"x", "=", "-", "x", ".", "x", "(", "x", ",", "(", "x", ")", ")", ".", "x", "(", ")", ".", "x", "[", "x", "]", ";">>,
   <<"x", "=", "x", "-", "contains", "(", "[", "x", ",", "x", "]", ",", "x", "-", "x", ")", ";">>,
   <<"x", "=", "(", "x", "?", "x", ":", "x", ")", "*", "len", "(", "keys", "(", "x", ")", ")", ";">>,
   <<"x", "=", "compose", "(", "s", ",", "x", "?", "x", ":", "x", ",", "x", "-", "x", ")", "+", "x", ";">>,
   <<"x", ".", "x", "(", "x", ",", "x", ")", ";">>, <<"x", "[", "x", "]", ".", "x", "(", ")", ";">>,
   <<"x", "(", "x", ")", ".", "x", "(", "x", ")", ";">>,
   <<"x", ".", "x", ".", "x", "=", "x", "-", "x", ";">>, <<"x", "[", "x", "-", "x", "]", "=", "x", "?", "x", ":", "x", ";">>}

SmallStarts == Beginnings \cup Rows \cup Nested
================================================================================
