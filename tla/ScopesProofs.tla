----------------------------- MODULE ScopesProofs ------------------------------
(***************************************************************************)
(* Proofs about Scopes, for programs of any size over any set of names:    *)
(* the types and the shape of the two sets of scopes, that a fixed         *)
(* variable is never assigned to, and, with the rules each needs, that gcc *)
(* finds the declaration sema found and refuses no second one.             *)
(*                                                                         *)
(* All rest on one invariant, Matched: the scopes of C are those of sema,  *)
(* the parameters and the block of the function merged into one.           *)
(***************************************************************************)
EXTENDS Scopes, SequenceTheorems, NaturalsInduction, WellFoundedInduction, TLAPS

-------------------------------------------------------------------------------
(* What a name finds *)

(* Place i is the innermost that has x. *)
Innermost(scopes, x, i) ==
  /\ i \in 1 .. Len(scopes) /\ scopes[i][x] # 0
  /\ \A j \in i + 1 .. Len(scopes) : scopes[j][x] = 0

(* A bounded set of numbers that is not empty has a greatest member.       *)
LEMMA GreatestExists ==
  ASSUME NEW n \in Nat, NEW S \in SUBSET (1 .. n), S # {}
  PROVE  \E i \in S : \A j \in S : j <= i
<1> DEFINE M == {n - i : i \in S}
<1>1. M \in SUBSET Nat /\ M # {}
  <2>1. \A i \in S : n - i \in Nat
    OBVIOUS
  <2>2. PICK i : i \in S
    OBVIOUS
  <2>3. n - i \in M
    BY <2>2
  <2>4. QED
    BY <2>1, <2>3
<1>2. \E x \in M : \A y \in M : ~(<<y, x>> \in OpToRel(<, Nat))
  <2> HIDE DEF M
  <2>1. QED
    BY <1>1, WFMin, NatLessThanWellFounded
<1>3. PICK x \in M : \A y \in M : x <= y
  <2>1. \A a, b \in Nat : ~(<<b, a>> \in OpToRel(<, Nat)) => a <= b
    BY DEF OpToRel
  <2> HIDE DEF M
  <2>2. QED
    BY <1>1, <1>2, <2>1
<1>4. PICK i \in S : x = n - i
  BY <1>3
<1>5. \A j \in S : j <= i
  <2>1. \A j \in S : n - j \in M
    OBVIOUS
  <2>2. QED
    BY <1>3, <1>4, <2>1
<1>6. QED
  BY <1>5

LEMMA LookupNone ==
  ASSUME NEW scopes, NEW x, \A i \in 1 .. Len(scopes) : scopes[i][x] = 0
  PROVE  Lookup(scopes, x) = 0
BY DEF Lookup

LEMMA LookupInnermost ==
  ASSUME NEW scopes, NEW x, NEW i, Len(scopes) \in Nat, Innermost(scopes, x, i)
  PROVE  Lookup(scopes, x) = scopes[i][x]
<1> DEFINE with == {k \in 1 .. Len(scopes) : scopes[k][x] # 0}
<1>1. i \in with /\ \A j \in with : j <= i
  BY DEF Innermost
<1>2. \A k \in with : (\A j \in with : j <= k) => k = i
  <2>1. \A k \in with : k \in Int
    OBVIOUS
  <2> HIDE DEF with
  <2>2. QED
    BY <1>1, <2>1
<1>3. (CHOOSE k \in with : \A j \in with : j <= k) = i
  <2> HIDE DEF with
  <2>1. QED
    BY <1>1, <1>2
<1>4. QED
  BY <1>1, <1>3 DEF Lookup

LEMMA InnermostExists ==
  ASSUME NEW scopes, NEW x, Len(scopes) \in Nat, NEW k \in 1 .. Len(scopes), scopes[k][x] # 0
  PROVE  \E i : Innermost(scopes, x, i)
<1> DEFINE with == {j \in 1 .. Len(scopes) : scopes[j][x] # 0}
<1>1. with \in SUBSET (1 .. Len(scopes)) /\ with # {}
  OBVIOUS
<1>2. PICK i \in with : \A j \in with : j <= i
  <2> HIDE DEF with
  <2>1. QED
    BY <1>1, GreatestExists
<1>3. \A j \in i + 1 .. Len(scopes) : scopes[j][x] = 0
  <2>1. SUFFICES ASSUME NEW j \in i + 1 .. Len(scopes), scopes[j][x] # 0
                 PROVE  FALSE
    OBVIOUS
  <2>2. i \in 1 .. Len(scopes) /\ j \in with
    <3>1. i \in 1 .. Len(scopes)
      BY <1>1
    <3>2. j \in 1 .. Len(scopes)
      BY <3>1
    <3>3. QED
      BY <2>1, <3>1, <3>2
  <2>3. j <= i
    <3> HIDE DEF with
    <3>1. QED
      BY <1>2, <2>2
  <2>4. QED
    BY <2>2, <2>3
<1>4. Innermost(scopes, x, i)
  BY <1>3 DEF Innermost
<1>5. QED
  BY <1>4

(* A name is found nowhere, or in the innermost scope that has it.         *)
LEMMA LookupCases ==
  ASSUME NEW scopes, NEW x, Len(scopes) \in Nat
  PROVE  \/ Lookup(scopes, x) = 0
         \/ \E i : Innermost(scopes, x, i) /\ Lookup(scopes, x) = scopes[i][x]
BY LookupNone, LookupInnermost, InnermostExists

LEMMA LookupType ==
  ASSUME NEW S, 0 \in S, NEW scopes \in Seq([Names -> S]), NEW x \in Names
  PROVE  Lookup(scopes, x) \in S
<1>1. Len(scopes) \in Nat /\ \A i \in 1 .. Len(scopes) : scopes[i][x] \in S
  <2>1. Len(scopes) \in Nat /\ \A i \in 1 .. Len(scopes) : scopes[i] \in [Names -> S]
    BY LenProperties, ElementOfSeq
  <2>2. QED
    BY <2>1
<1>2. QED
  BY <1>1, LookupCases DEF Innermost

(* What a name finds depends on that name's declarations only.             *)
LEMMA LookupSame ==
  ASSUME NEW a, NEW b, NEW x, Len(a) \in Nat, Len(b) = Len(a),
         \A i \in 1 .. Len(a) : b[i][x] = a[i][x]
  PROVE  Lookup(b, x) = Lookup(a, x)
<1>1. CASE Lookup(a, x) = 0
  <2>1. CASE \E i : Innermost(a, x, i)
    BY <1>1, <2>1, LookupInnermost DEF Innermost
  <2>2. CASE ~ \E i : Innermost(a, x, i)
    BY <1>1, <2>2, InnermostExists, LookupNone
  <2>3. QED
    BY <2>1, <2>2
<1>2. CASE \E i : Innermost(a, x, i) /\ Lookup(a, x) = a[i][x]
  <2>1. PICK i : Innermost(a, x, i) /\ Lookup(a, x) = a[i][x]
    BY <1>2
  <2>2. Innermost(b, x, i)
    BY <2>1 DEF Innermost
  <2>3. QED
    BY <2>1, <2>2, LookupInnermost DEF Innermost
<1>3. QED
  BY <1>1, <1>2, LookupCases

-------------------------------------------------------------------------------
(* The operations on a sequence of scopes *)

LEMMA AppendIs ==
  ASSUME NEW S, NEW s \in Seq(S), NEW e \in S
  PROVE  /\ Append(s, e) \in Seq(S) /\ Len(Append(s, e)) = Len(s) + 1 /\ Len(s) \in Nat
         /\ \A i \in 1 .. Len(s) : Append(s, e)[i] = s[i]
         /\ Append(s, e)[Len(s) + 1] = e
BY AppendProperties, LenProperties

LEMMA PopIs ==
  ASSUME NEW S, NEW s \in Seq(S), NEW n \in Nat, n <= Len(s)
  PROVE  /\ Pop(s, n) \in Seq(S) /\ Len(Pop(s, n)) = Len(s) - n
         /\ \A i \in 1 .. Len(s) - n : Pop(s, n)[i] = s[i]
<1>1. Len(s) \in Nat
  BY LenProperties
<1>2. QED
  BY <1>1, SubSeqProperties DEF Pop

(* u is t but for x, which is d in the last of its n scopes.               *)
Redeclared(u, t, n, x, d) ==
  /\ \A i \in 1 .. n - 1 : u[i] = t[i]
  /\ \A y \in Names : u[n][y] = IF y = x THEN d ELSE t[n][y]

LEMMA DeclareIs ==
  ASSUME NEW S, NEW s \in Seq([Names -> S]), s # <<>>, NEW x \in Names, NEW d \in S
  PROVE  /\ Declare(s, x, d) \in Seq([Names -> S]) /\ Len(Declare(s, x, d)) = Len(s)
         /\ Redeclared(Declare(s, x, d), s, Len(s), x, d)
<1>1. Len(s) \in Nat \ {0} /\ Len(s) \in 1 .. Len(s) /\ s[Len(s)] \in [Names -> S]
  <2>1. Len(s) \in Nat /\ Len(s) # 0
    BY LenProperties, EmptySeq
  <2>2. QED
    BY <2>1, ElementOfSeq
<1>2. [s[Len(s)] EXCEPT ![x] = d] \in [Names -> S]
  BY <1>1
<1>3. Declare(s, x, d) = [s EXCEPT ![Len(s)] = [s[Len(s)] EXCEPT ![x] = d]]
  BY DEF Declare
<1>4. /\ Declare(s, x, d) \in Seq([Names -> S]) /\ Len(Declare(s, x, d)) = Len(s)
      /\ \A i \in 1 .. Len(s) - 1 : Declare(s, x, d)[i] = s[i]
      /\ Declare(s, x, d)[Len(s)] = [s[Len(s)] EXCEPT ![x] = d]
  BY <1>1, <1>2, <1>3, ExceptSeq
<1>5. \A y \in Names : Declare(s, x, d)[Len(s)][y] = IF y = x THEN d ELSE s[Len(s)][y]
  BY <1>1, <1>4
<1>6. QED
  BY <1>4, <1>5 DEF Redeclared

LEMMA AppendByConcat ==
  ASSUME NEW S, NEW s \in Seq(S), NEW d \in S, NEW e \in S, NEW f \in S
  PROVE  /\ s \o <<>> = s /\ s \o <<d>> = Append(s, d)
         /\ s \o <<d, e>> = Append(Append(s, d), e)
         /\ s \o <<d, e, f>> = Append(Append(Append(s, d), e), f)
OBVIOUS

LEMMA NoScopeType ==
  /\ NoScope \in [Names -> Decl] /\ NoScope \in [Names -> Decl \cup {Lib}]
  /\ \A x \in Names : NoScope[x] = 0
BY ScopesAssumption DEF NoScope, Decl

(* A scope without declarations hides nothing.                             *)
LEMMA LookupPush ==
  ASSUME NEW S, NEW s \in Seq([Names -> S]), NoScope \in [Names -> S], NEW x \in Names
  PROVE  Lookup(Append(s, NoScope), x) = Lookup(s, x)
<1> DEFINE t == Append(s, NoScope)
<1>1. /\ Len(t) = Len(s) + 1 /\ Len(s) \in Nat
      /\ \A i \in 1 .. Len(s) : t[i] = s[i]
      /\ t[Len(s) + 1][x] = 0
  BY AppendIs, NoScopeType
<1> SUFFICES Lookup(t, x) = Lookup(s, x)
  OBVIOUS
<1> HIDE DEF t
<1>2. CASE \E i : Innermost(s, x, i)
  <2>1. PICK i : Innermost(s, x, i)
    BY <1>2
  <2>2. Innermost(t, x, i) /\ t[i][x] = s[i][x] /\ Len(t) \in Nat
    <3>1. i \in 1 .. Len(s) /\ s[i][x] # 0 /\ \A j \in i + 1 .. Len(s) : s[j][x] = 0
      BY <2>1 DEF Innermost
    <3>2. \A j \in i + 1 .. Len(t) : t[j][x] = 0
      <4>1. \A j \in i + 1 .. Len(t) : j \in i + 1 .. Len(s) \/ j = Len(s) + 1
        <5>1. \A a, n \in Int : \A j \in a + 1 .. n + 1 : j \in a + 1 .. n \/ j = n + 1
          OBVIOUS
        <5>2. i \in Int /\ Len(s) \in Int
          BY <1>1, <3>1
        <5>3. QED
          BY <1>1, <5>1, <5>2
      <4>2. \A j \in i + 1 .. Len(s) : t[j] = s[j]
        BY <1>1, <3>1
      <4>3. QED
        BY <1>1, <3>1, <4>1, <4>2
    <3>3. QED
      BY <1>1, <3>1, <3>2 DEF Innermost
  <2>3. QED
    BY <1>1, <2>1, <2>2, LookupInnermost
<1>3. CASE ~ \E i : Innermost(s, x, i)
  <2>1. \A i \in 1 .. Len(s) : s[i][x] = 0
    BY <1>1, <1>3, InnermostExists
  <2>2. \A i \in 1 .. Len(t) : t[i][x] = 0
    <3>1. \A i \in 1 .. Len(t) : i \in 1 .. Len(s) \/ i = Len(s) + 1
      BY <1>1
    <3>2. QED
      BY <1>1, <2>1, <3>1
  <2>3. QED
    BY <2>1, <2>2, LookupNone
<1>4. QED
  BY <1>2, <1>3

-------------------------------------------------------------------------------
(* The scopes of C are those of sema *)

(* The m scopes of s and the n of t: globals for globals, with the library *)
(* under them; the function's one scope for its parameters and its block;  *)
(* then one for one.                                                       *)
Merged(s, t, m, n) ==
  /\ (m = 1 /\ n = 1) \/ (m >= 3 /\ n = m - 1)
  /\ \A x \in Names : t[1][x] = IF s[1][x] # 0 THEN s[1][x] ELSE IF x \in Library THEN Lib ELSE 0
  /\ m >= 3 => \A x \in Names : t[2][x] = IF s[3][x] # 0 THEN s[3][x] ELSE s[2][x]
  /\ \A i \in 4 .. m : t[i - 1] = s[i]

Matched(s, t) ==
  /\ s \in Seq([Names -> Decl]) /\ t \in Seq([Names -> Decl \cup {Lib}])
  /\ Merged(s, t, Len(s), Len(t))

LEMMA MatchedParts ==
  ASSUME NEW s, NEW t, Matched(s, t)
  PROVE  /\ s \in Seq([Names -> Decl]) /\ t \in Seq([Names -> Decl \cup {Lib}])
         /\ Len(s) \in Nat /\ Len(t) \in Nat /\ Len(s) >= 1 /\ Len(t) >= 1
         /\ s # <<>> /\ t # <<>>
         /\ \A i \in 1 .. Len(s) : s[i] \in [Names -> Decl]
         /\ \A i \in 1 .. Len(t) : t[i] \in [Names -> Decl \cup {Lib}]
<1>1. Len(s) \in Nat /\ Len(t) \in Nat
  BY LenProperties DEF Matched
<1>2. Len(s) >= 1 /\ Len(t) >= 1
  <2>1. \A m, n \in Nat : Merged(s, t, m, n) => m >= 1 /\ n >= 1
    BY DEF Merged
  <2>2. QED
    BY <1>1, <2>1 DEF Matched
<1>3. s # <<>> /\ t # <<>>
  BY <1>2
<1>4. QED
  BY <1>1, <1>2, <1>3, ElementOfSeq DEF Matched

LEMMA MergedInnermost ==
  ASSUME NEW s, NEW t, NEW m \in Nat, NEW n \in Nat, Merged(s, t, m, n), NEW x \in Names,
         NEW i \in 1 .. m, s[i][x] # 0, \A j \in i + 1 .. m : s[j][x] = 0
  PROVE  \E k \in 1 .. n : t[k][x] = s[i][x] /\ \A j \in k + 1 .. n : t[j][x] = 0
<1>1. \A k \in 3 .. n : k + 1 \in 4 .. m /\ t[k] = s[k + 1]
  <2>1. \A k \in 3 .. n : k + 1 \in 4 .. m /\ k + 1 - 1 = k
    BY DEF Merged
  <2>2. QED
    BY <2>1 DEF Merged
<1>2. CASE i = 1
  <2>1. t[1][x] = s[1][x]
    BY <1>2 DEF Merged
  <2>2. \A j \in 2 .. n : t[j][x] = 0
    <3>1. SUFFICES ASSUME NEW j \in 2 .. n PROVE t[j][x] = 0
      OBVIOUS
    <3>2. m >= 3 /\ n = m - 1
      BY DEF Merged
    <3>3. s[2][x] = 0 /\ s[3][x] = 0
      BY <1>2, <3>2
    <3>4. t[2][x] = 0
      BY <3>2, <3>3 DEF Merged
    <3>5. j \in 3 .. n => t[j][x] = 0
      <4>1. j \in 3 .. n => j + 1 \in i + 1 .. m /\ t[j] = s[j + 1]
        BY <1>1, <1>2, <3>2
      <4>2. QED
        BY <4>1
    <3>6. QED
      BY <3>4, <3>5
  <2>3. 1 \in 1 .. n
    BY DEF Merged
  <2>4. QED
    BY <1>2, <2>1, <2>2, <2>3
<1>3. CASE i \in {2, 3}
  <2>1. m >= 3 /\ n = m - 1
    BY <1>3 DEF Merged
  <2>2. t[2][x] = s[i][x]
    <3>1. i = 2 => s[3][x] = 0
      BY <2>1
    <3>2. QED
      BY <1>3, <2>1, <3>1 DEF Merged
  <2>3. \A j \in 3 .. n : t[j][x] = 0
    <3>1. \A j \in 3 .. n : j + 1 \in i + 1 .. m
      BY <1>3, <2>1
    <3>2. QED
      BY <1>1, <3>1
  <2>4. 2 \in 1 .. n
    BY <2>1
  <2>5. QED
    BY <2>2, <2>3, <2>4
<1>4. CASE i >= 4
  <2>1. m >= 3 /\ n = m - 1 /\ i - 1 \in 3 .. n /\ i \in 4 .. m
    BY <1>4 DEF Merged
  <2>2. t[i - 1] = s[i]
    BY <2>1 DEF Merged
  <2>3. \A j \in (i - 1) + 1 .. n : t[j][x] = 0
    <3>1. \A j \in (i - 1) + 1 .. n : j \in 3 .. n /\ j + 1 \in i + 1 .. m
      BY <2>1
    <3>2. QED
      BY <1>1, <3>1
  <2>4. i - 1 \in 1 .. n
    BY <2>1
  <2>5. QED
    BY <2>2, <2>3, <2>4
<1>5. QED
  BY <1>2, <1>3, <1>4

(* What sema finds, C finds.                                               *)
LEMMA MatchedLookup ==
  ASSUME NEW s, NEW t, Matched(s, t), NEW x \in Names, Lookup(s, x) # 0
  PROVE  Lookup(t, x) = Lookup(s, x)
<1>1. Len(s) \in Nat /\ Len(t) \in Nat
  BY MatchedParts
<1>2. PICK i : Innermost(s, x, i) /\ Lookup(s, x) = s[i][x]
  BY <1>1, LookupCases
<1>3. i \in 1 .. Len(s) /\ s[i][x] # 0 /\ \A j \in i + 1 .. Len(s) : s[j][x] = 0
  BY <1>2 DEF Innermost
<1>4. \E k \in 1 .. Len(t) : t[k][x] = s[i][x] /\ \A j \in k + 1 .. Len(t) : t[j][x] = 0
  <2>1. Merged(s, t, Len(s), Len(t)) /\ i \in 1 .. Len(s) /\ s[i][x] # 0
    BY <1>3 DEF Matched
  <2>2. \A j \in i + 1 .. Len(s) : s[j][x] = 0
    BY <1>3
  <2>3. QED
    BY <1>1, <2>1, <2>2, MergedInnermost
<1>5. \E k : Innermost(t, x, k) /\ t[k][x] = s[i][x]
  BY <1>3, <1>4 DEF Innermost
<1>6. QED
  BY <1>1, <1>2, <1>5, LookupInnermost

LEMMA MergedDeclare ==
  ASSUME NEW s, NEW t, NEW m \in Nat, NEW n \in Nat, Merged(s, t, m, n),
         NEW x \in Names, NEW d, d # 0, NEW u, NEW w,
         Redeclared(u, s, m, x, d), Redeclared(w, t, n, x, d),
         u[m] \in [Names -> Decl], w[n] \in [Names -> Decl \cup {Lib}]
  PROVE  Merged(u, w, m, n)
<1> USE DEF Redeclared
<1>1. CASE m = 1 /\ n = 1
  <2>1. \A y \in Names : t[1][y] = IF s[1][y] # 0 THEN s[1][y] ELSE IF y \in Library THEN Lib ELSE 0
    BY DEF Merged
  <2>2. \A y \in Names : w[1][y] = IF u[1][y] # 0 THEN u[1][y] ELSE IF y \in Library THEN Lib ELSE 0
    BY <1>1, <2>1
  <2>3. QED
    BY <1>1, <2>2 DEF Merged
<1>2. CASE m >= 3 /\ n = m - 1
  <2>1. u[1] = s[1] /\ w[1] = t[1] /\ u[2] = s[2]
    BY <1>2
  <2>2. \A y \in Names : w[2][y] = IF u[3][y] # 0 THEN u[3][y] ELSE u[2][y]
    <3>1. \A y \in Names : t[2][y] = IF s[3][y] # 0 THEN s[3][y] ELSE s[2][y]
      BY <1>2 DEF Merged
    <3>2. CASE m = 3
      <4>1. n = 2
        BY <1>2, <3>2
      <4>2. \A y \in Names : u[3][y] = IF y = x THEN d ELSE s[3][y]
        BY <3>2
      <4>3. \A y \in Names : w[2][y] = IF y = x THEN d ELSE t[2][y]
        BY <4>1
      <4>4. QED
        BY <2>1, <3>1, <4>2, <4>3
    <3>3. CASE m > 3
      <4>1. 3 \in 1 .. m - 1 /\ 2 \in 1 .. n - 1
        BY <1>2, <3>3
      <4>2. u[3] = s[3] /\ w[2] = t[2]
        BY <4>1
      <4>3. QED
        BY <2>1, <3>1, <4>2
    <3>4. m = 3 \/ m > 3
      BY <1>2
    <3>5. QED
      BY <3>2, <3>3, <3>4
  <2>4. \A y \in Names : w[1][y] = IF u[1][y] # 0 THEN u[1][y] ELSE IF y \in Library THEN Lib ELSE 0
    BY <2>1 DEF Merged
  <2>5. \A i \in 4 .. m : w[i - 1] = u[i]
    <3>1. SUFFICES ASSUME NEW i \in 4 .. m PROVE w[i - 1] = u[i]
      OBVIOUS
    <3>2. t[i - 1] = s[i]
      BY DEF Merged
    <3>3. CASE i < m
      <4>1. i \in 1 .. m - 1 /\ i - 1 \in 1 .. n - 1
        BY <1>2, <3>3
      <4>2. QED
        BY <3>2, <4>1
    <3>4. CASE i = m
      <4>1. i - 1 = n
        BY <1>2, <3>4
      <4>2. \A y \in Names : w[i - 1][y] = u[i][y]
        BY <3>2, <3>4, <4>1
      <4>3. u[i] \in [Names -> Decl] /\ w[i - 1] \in [Names -> Decl \cup {Lib}]
        BY <3>4, <4>1
      <4>4. \A f \in [Names -> Decl], g \in [Names -> Decl \cup {Lib}] :
              (\A y \in Names : g[y] = f[y]) => g = f
        OBVIOUS
      <4>5. QED
        BY <4>2, <4>3, <4>4
    <3>5. QED
      BY <3>3, <3>4
  <2>6. QED
    BY <1>2, <2>2, <2>4, <2>5 DEF Merged
<1>3. QED
  BY <1>1, <1>2 DEF Merged

LEMMA MatchedDeclare ==
  ASSUME NEW s, NEW t, Matched(s, t), NEW x \in Names, NEW d \in Decl, d # 0
  PROVE  Matched(Declare(s, x, d), Declare(t, x, d)) /\ Len(Declare(s, x, d)) = Len(s)
<1> DEFINE u == Declare(s, x, d)
           w == Declare(t, x, d)
<1>1. /\ u \in Seq([Names -> Decl]) /\ Len(u) = Len(s)
      /\ Redeclared(u, s, Len(s), x, d)
  <2>1. s \in Seq([Names -> Decl]) /\ s # <<>>
    BY MatchedParts
  <2>2. QED
    BY <2>1, DeclareIs
<1>2. /\ w \in Seq([Names -> Decl \cup {Lib}]) /\ Len(w) = Len(t)
      /\ Redeclared(w, t, Len(t), x, d)
  <2>1. t \in Seq([Names -> Decl \cup {Lib}]) /\ t # <<>> /\ d \in Decl \cup {Lib}
    BY MatchedParts
  <2>2. QED
    BY <2>1, DeclareIs
<1> SUFFICES Matched(u, w)
  BY <1>1
<1> HIDE DEF u, w
<1>3. Merged(u, w, Len(s), Len(t))
  <2>1. Merged(s, t, Len(s), Len(t)) /\ Len(s) \in Nat /\ Len(t) \in Nat
    BY MatchedParts DEF Matched
  <2>2. u[Len(s)] \in [Names -> Decl]
    <3>1. Len(s) \in 1 .. Len(u)
      BY <1>1, MatchedParts
    <3>2. QED
      BY <1>1, <3>1, ElementOfSeq
  <2>3. w[Len(t)] \in [Names -> Decl \cup {Lib}]
    <3>1. Len(t) \in 1 .. Len(w)
      BY <1>2, MatchedParts
    <3>2. QED
      BY <1>2, <3>1, ElementOfSeq
  <2>4. QED
    BY <1>1, <1>2, <2>1, <2>2, <2>3, MergedDeclare
<1>4. QED
  BY <1>1, <1>2, <1>3 DEF Matched

LEMMA MergedPush ==
  ASSUME NEW s, NEW t, NEW m \in Nat, NEW n \in Nat, Merged(s, t, m, n), m >= 3, NEW u, NEW w,
         \A i \in 1 .. m : u[i] = s[i], \A i \in 1 .. n : w[i] = t[i], u[m + 1] = w[n + 1]
  PROVE  Merged(u, w, m + 1, n + 1)
<1>1. n = m - 1
  BY DEF Merged
<1>2. u[1] = s[1] /\ u[2] = s[2] /\ u[3] = s[3] /\ w[1] = t[1] /\ w[2] = t[2]
  BY <1>1
<1>3. \A i \in 4 .. m + 1 : w[i - 1] = u[i]
  <2>1. SUFFICES ASSUME NEW i \in 4 .. m + 1 PROVE w[i - 1] = u[i]
    OBVIOUS
  <2>2. CASE i \in 4 .. m
    <3>1. i \in 1 .. m /\ i - 1 \in 1 .. n /\ t[i - 1] = s[i]
      BY <1>1, <2>2 DEF Merged
    <3>2. QED
      BY <3>1
  <2>3. CASE i = m + 1
    <3>1. i - 1 = n + 1
      BY <1>1, <2>3
    <3>2. QED
      BY <2>3, <3>1
  <2>4. QED
    BY <2>2, <2>3
<1>4. m + 1 >= 3 /\ n + 1 = m + 1 - 1
  BY <1>1
<1>5. QED
  BY <1>2, <1>3, <1>4 DEF Merged

LEMMA MatchedPush ==
  ASSUME NEW s, NEW t, Matched(s, t), Len(s) >= 3
  PROVE  /\ Matched(Append(s, NoScope), Append(t, NoScope))
         /\ Len(Append(s, NoScope)) = Len(s) + 1
<1> DEFINE u == Append(s, NoScope)
           w == Append(t, NoScope)
<1>1. Len(s) \in Nat /\ Len(t) \in Nat
  BY MatchedParts
<1>2. /\ u \in Seq([Names -> Decl]) /\ Len(u) = Len(s) + 1
      /\ \A i \in 1 .. Len(s) : u[i] = s[i]
      /\ u[Len(s) + 1] = NoScope
  BY AppendIs, NoScopeType, MatchedParts
<1>3. /\ w \in Seq([Names -> Decl \cup {Lib}]) /\ Len(w) = Len(t) + 1
      /\ \A i \in 1 .. Len(t) : w[i] = t[i]
      /\ w[Len(t) + 1] = NoScope
  BY AppendIs, NoScopeType, MatchedParts
<1> SUFFICES Matched(u, w)
  BY <1>2
<1> HIDE DEF u, w
<1>4. Merged(u, w, Len(s) + 1, Len(t) + 1)
  <2>1. Merged(s, t, Len(s), Len(t)) /\ u[Len(s) + 1] = w[Len(t) + 1]
    BY <1>2, <1>3 DEF Matched
  <2>2. \A i \in 1 .. Len(s) : u[i] = s[i]
    BY <1>2
  <2>3. \A i \in 1 .. Len(t) : w[i] = t[i]
    BY <1>3
  <2>4. QED
    BY <1>1, <2>1, <2>2, <2>3, MergedPush
<1>5. QED
  BY <1>2, <1>3, <1>4 DEF Matched

LEMMA MergedPop ==
  ASSUME NEW s, NEW t, NEW m \in Nat, NEW n \in Nat, Merged(s, t, m, n),
         NEW p \in Nat, m - p >= 3, NEW u, NEW w,
         \A i \in 1 .. m - p : u[i] = s[i], \A i \in 1 .. n - p : w[i] = t[i]
  PROVE  Merged(u, w, m - p, n - p)
<1>1. n = m - 1 /\ m >= 3
  BY DEF Merged
<1>2. u[1] = s[1] /\ u[2] = s[2] /\ u[3] = s[3] /\ w[1] = t[1] /\ w[2] = t[2]
  BY <1>1
<1>3. \A i \in 4 .. m - p : w[i - 1] = u[i]
  <2>1. SUFFICES ASSUME NEW i \in 4 .. m - p PROVE w[i - 1] = u[i]
    OBVIOUS
  <2>2. i \in 1 .. m - p /\ i - 1 \in 1 .. n - p /\ i \in 4 .. m
    BY <1>1
  <2>3. t[i - 1] = s[i]
    BY <2>2 DEF Merged
  <2>4. QED
    BY <2>2, <2>3
<1>4. m - p >= 3 /\ n - p = m - p - 1
  BY <1>1
<1>5. QED
  BY <1>1, <1>2, <1>3, <1>4 DEF Merged

LEMMA MatchedPop ==
  ASSUME NEW s, NEW t, Matched(s, t), NEW p \in Nat, Len(s) - p >= 3
  PROVE  Matched(Pop(s, p), Pop(t, p)) /\ Len(Pop(s, p)) = Len(s) - p
<1> DEFINE u == Pop(s, p)
           w == Pop(t, p)
<1>1. Len(s) \in Nat /\ Len(t) \in Nat /\ p <= Len(s) /\ p <= Len(t)
  <2>1. \A m, n \in Nat : Merged(s, t, m, n) /\ m - p >= 3 => p <= m /\ p <= n
    BY DEF Merged
  <2>2. Len(s) \in Nat /\ Len(t) \in Nat /\ Merged(s, t, Len(s), Len(t))
    BY MatchedParts DEF Matched
  <2>3. QED
    BY <2>1, <2>2
<1>2. /\ u \in Seq([Names -> Decl]) /\ Len(u) = Len(s) - p
      /\ \A i \in 1 .. Len(s) - p : u[i] = s[i]
  BY <1>1, PopIs, MatchedParts
<1>3. /\ w \in Seq([Names -> Decl \cup {Lib}]) /\ Len(w) = Len(t) - p
      /\ \A i \in 1 .. Len(t) - p : w[i] = t[i]
  BY <1>1, PopIs, MatchedParts
<1> SUFFICES Matched(u, w)
  BY <1>2
<1> HIDE DEF u, w
<1>4. Merged(u, w, Len(s) - p, Len(t) - p)
  BY <1>1, <1>2, <1>3, MergedPop DEF Matched
<1>5. QED
  BY <1>2, <1>3, <1>4 DEF Matched

(* The } of a function: two scopes of sema for one of C.                   *)
LEMMA MatchedReturn ==
  ASSUME NEW s, NEW t, Matched(s, t), Len(s) >= 3, Len(s) <= 3
  PROVE  Matched(Pop(s, 2), Pop(t, 1)) /\ Len(Pop(s, 2)) <= 1
<1> DEFINE u == Pop(s, 2)
           w == Pop(t, 1)
<1>1. /\ s \in Seq([Names -> Decl]) /\ t \in Seq([Names -> Decl \cup {Lib}])
      /\ Len(s) \in Nat /\ Len(t) \in Nat /\ Merged(s, t, Len(s), Len(t))
  BY MatchedParts DEF Matched
<1>2. 2 <= Len(s) /\ 1 <= Len(t) /\ Len(s) - 2 = 1 /\ Len(t) - 1 = 1
  <2>1. \A m, n \in Nat : Merged(s, t, m, n) /\ m >= 3 /\ m <= 3
                          => 2 <= m /\ 1 <= n /\ m - 2 = 1 /\ n - 1 = 1
    BY DEF Merged
  <2>2. QED
    BY <1>1, <2>1
<1>3. /\ u \in Seq([Names -> Decl]) /\ Len(u) = Len(s) - 2
      /\ \A i \in 1 .. Len(s) - 2 : u[i] = s[i]
  BY <1>1, <1>2, PopIs
<1>4. /\ w \in Seq([Names -> Decl \cup {Lib}]) /\ Len(w) = Len(t) - 1
      /\ \A i \in 1 .. Len(t) - 1 : w[i] = t[i]
  BY <1>1, <1>2, PopIs
<1> HIDE DEF u, w
<1>5. Len(u) = 1 /\ Len(w) = 1 /\ u[1] = s[1] /\ w[1] = t[1]
  BY <1>2, <1>3, <1>4
<1>6. Merged(u, w, 1, 1)
  BY <1>1, <1>5 DEF Merged
<1>7. Matched(u, w)
  BY <1>3, <1>4, <1>5, <1>6 DEF Matched
<1>8. QED
  BY <1>5, <1>7 DEF u, w

(* fr f(p, q) {: two scopes of sema for one of C.                          *)
LEMMA MatchedCall ==
  ASSUME NEW s, NEW t, Matched(s, t), Len(s) <= 1, NEW params \in [Names -> Decl]
  PROVE  /\ Matched(s \o <<params, NoScope>>, Append(t, params))
         /\ Len(s \o <<params, NoScope>>) = 3
         /\ (s \o <<params, NoScope>>)[2] = params
<1> DEFINE r == Append(s, params)
           u == Append(r, NoScope)
           w == Append(t, params)
<1>1. /\ s \in Seq([Names -> Decl]) /\ t \in Seq([Names -> Decl \cup {Lib}])
      /\ Len(s) \in Nat /\ Len(t) \in Nat /\ Merged(s, t, Len(s), Len(t))
  BY MatchedParts DEF Matched
<1>2. Len(s) = 1 /\ Len(t) = 1
  <2>1. \A m, n \in Nat : Merged(s, t, m, n) /\ m <= 1 => m = 1 /\ n = 1
    BY DEF Merged
  <2>2. QED
    BY <1>1, <2>1
<1>3. s \o <<params, NoScope>> = u
  BY <1>1, NoScopeType, AppendByConcat
<1>4. /\ r \in Seq([Names -> Decl]) /\ Len(r) = Len(s) + 1
      /\ \A i \in 1 .. Len(s) : r[i] = s[i]
      /\ r[Len(s) + 1] = params
  BY <1>1, AppendIs
<1>5. r \in Seq([Names -> Decl]) /\ Len(r) = 2 /\ r[1] = s[1] /\ r[2] = params
  <2> HIDE DEF r
  <2>1. QED
    BY <1>2, <1>4
<1>6. /\ u \in Seq([Names -> Decl]) /\ Len(u) = Len(r) + 1
      /\ \A i \in 1 .. Len(r) : u[i] = r[i]
      /\ u[Len(r) + 1] = NoScope
  <2> HIDE DEF r
  <2>1. QED
    BY <1>4, AppendIs, NoScopeType
<1>7. w \in Seq([Names -> Decl \cup {Lib}]) /\ Len(w) = Len(t) + 1
      /\ (\A i \in 1 .. Len(t) : w[i] = t[i])
      /\ w[Len(t) + 1] = params
  <2>1. params \in [Names -> Decl \cup {Lib}]
    OBVIOUS
  <2>2. QED
    BY <1>1, <2>1, AppendIs
<1> HIDE DEF r, u, w
<1>8. Len(u) = 3 /\ u[1] = s[1] /\ u[2] = params /\ u[3] = NoScope
  BY <1>5, <1>6
<1>9. Len(w) = 2 /\ w[1] = t[1] /\ w[2] = params
  BY <1>2, <1>7
<1>10. Merged(u, w, 3, 2)
  BY <1>1, <1>8, <1>9, NoScopeType DEF Merged
<1>11. Matched(u, w)
  BY <1>6, <1>7, <1>8, <1>9, <1>10 DEF Matched
<1>12. QED
  BY <1>3, <1>8, <1>11 DEF w

-------------------------------------------------------------------------------
(* What is open, and the scopes of sema it stands for *)

Inner == {"block", "for", "foreach"}
Width(k) == IF k = "foreach" THEN 3 ELSE IF k = "for" THEN 2 ELSE 1

(* A function, with blocks in it; n scopes of sema are open: h[i] of them  *)
(* up to the ith block.                                                    *)
Heights(b, n, h) ==
  /\ h[1] = 3 /\ h[Len(b)] = n
  /\ \A i \in 1 .. Len(b) : h[i] >= 3
  /\ \A i \in 2 .. Len(b) : h[i] = h[i - 1] + Width(b[i])

Nested(b, n) ==
  /\ b \in Seq(Kinds) /\ Len(b) >= 1 /\ b[1] = "function"
  /\ \A i \in 2 .. Len(b) : b[i] \in Inner
  /\ \E h \in [1 .. Len(b) -> Nat] : Heights(b, n, h)

LEMMA NestedLength ==
  ASSUME NEW b, NEW n, Nested(b, n)
  PROVE  /\ b \in Seq(Kinds) /\ Len(b) \in Nat /\ Len(b) >= 1 /\ b # <<>> /\ b # <<"globals">>
         /\ n \in Nat /\ n >= 3
<1>1. b \in Seq(Kinds) /\ Len(b) >= 1 /\ b[1] = "function" /\ Len(b) \in Nat
  BY LenProperties DEF Nested
<1>2. b # <<>> /\ b # <<"globals">>
  BY <1>1
<1>3. PICK h \in [1 .. Len(b) -> Nat] : Heights(b, n, h)
  BY DEF Nested
<1>4. n \in Nat /\ n >= 3
  BY <1>1, <1>3 DEF Heights
<1>5. QED
  BY <1>1, <1>2, <1>4

LEMMA WidthIs == \A k \in Inner : Width(k) \in 1 .. 3
BY DEF Width, Inner

LEMMA NestedFunction == Nested(<<"function">>, 3)
<1> DEFINE b == <<"function">>
           h == [i \in 1 .. 1 |-> 3]
<1>1. b \in Seq(Kinds) /\ Len(b) = 1 /\ b[1] = "function"
  BY DEF Kinds
<1>2. h \in [1 .. Len(b) -> Nat] /\ Heights(b, 3, h)
  <2>1. h \in [1 .. 1 -> Nat] /\ h[1] = 3
    OBVIOUS
  <2> HIDE DEF b, h
  <2>2. QED
    BY <1>1, <2>1 DEF Heights
<1>3. \A i \in 2 .. Len(b) : b[i] \in Inner
  <2> HIDE DEF b
  <2>1. QED
    BY <1>1
<1> HIDE DEF b, h
<1>4. Nested(b, 3)
  BY <1>1, <1>2, <1>3 DEF Nested
<1>5. QED
  BY <1>4 DEF b

LEMMA NestedAppend ==
  ASSUME NEW b, NEW n, Nested(b, n), NEW k \in Inner
  PROVE  Nested(Append(b, k), n + Width(k))
<1> DEFINE l == Len(b)
           a == Append(b, k)
           w == Width(k)
<1>1. l \in Nat /\ l >= 1 /\ n \in Nat /\ n >= 3 /\ w \in Nat
  BY NestedLength, WidthIs
<1>2. /\ a \in Seq(Kinds) /\ Len(a) = l + 1 /\ (\A i \in 1 .. l : a[i] = b[i]) /\ a[l + 1] = k
  <2>1. b \in Seq(Kinds) /\ k \in Kinds
    BY DEF Nested, Inner, Kinds
  <2>2. QED
    BY <2>1, AppendIs
<1>3. PICK h \in [1 .. l -> Nat] : Heights(b, n, h)
  BY DEF Nested
<1> DEFINE g == [i \in 1 .. l + 1 |-> IF i = l + 1 THEN n + w ELSE h[i]]
<1>4. b[1] = "function" /\ \A i \in 2 .. l : b[i] \in Inner
  BY DEF Nested
<1>5. h[1] = 3 /\ h[l] = n /\ (\A i \in 1 .. l : h[i] >= 3) /\ \A i \in 2 .. l : h[i] = h[i - 1] + Width(b[i])
  BY <1>3 DEF Heights
<1>6. Width(k) = w
  OBVIOUS
<1>7. g \in [1 .. l + 1 -> Nat] /\ g[l + 1] = n + w /\ \A i \in 1 .. l : g[i] = h[i]
  <2> HIDE DEF l, w
  <2>1. QED
    BY <1>1
<1> SUFFICES Nested(a, n + w)
  OBVIOUS
<1>8. Len(a) = l + 1
  BY <1>2
<1> HIDE DEF l, a, w, g
<1>9. Heights(a, n + w, g)
  <2>1. g[1] = 3 /\ g[Len(a)] = n + w
    BY <1>1, <1>5, <1>7, <1>8
  <2>2. \A i \in 1 .. Len(a) : g[i] >= 3
    <3>1. \A i \in 1 .. l + 1 : i \in 1 .. l \/ i = l + 1
      BY <1>1
    <3>2. n + w >= 3
      BY <1>1
    <3>3. QED
      BY <1>5, <1>7, <1>8, <3>1, <3>2
  <2>3. \A i \in 2 .. Len(a) : g[i] = g[i - 1] + Width(a[i])
    <3>1. SUFFICES ASSUME NEW i \in 2 .. l + 1 PROVE g[i] = g[i - 1] + Width(a[i])
      BY <1>8
    <3>2. CASE i \in 2 .. l
      <4>1. i \in 1 .. l /\ i - 1 \in 1 .. l
        BY <1>1, <3>2
      <4>2. QED
        BY <1>2, <1>5, <1>7, <3>2, <4>1
    <3>3. CASE i = l + 1
      <4>1. i - 1 = l /\ l \in 1 .. l
        BY <1>1, <3>3
      <4>2. QED
        BY <1>2, <1>5, <1>6, <1>7, <3>3, <4>1
    <3>4. QED
      BY <1>1, <3>2, <3>3
  <2>4. QED
    BY <2>1, <2>2, <2>3 DEF Heights
<1>10. \A i \in 2 .. Len(a) : a[i] \in Inner
  <2>1. \A i \in 2 .. l + 1 : (i \in 2 .. l /\ i \in 1 .. l) \/ i = l + 1
    BY <1>1
  <2>2. QED
    BY <1>2, <1>4, <1>8, <2>1
<1>11. a[1] = "function" /\ Len(a) >= 1
  BY <1>1, <1>2, <1>4
<1>12. \E f \in [1 .. Len(a) -> Nat] : Heights(a, n + w, f)
  BY <1>7, <1>8, <1>9
<1>13. QED
  BY <1>2, <1>10, <1>11, <1>12 DEF Nested

(* What the last of several blocks leaves when it is closed.               *)
LEMMA NestedPop ==
  ASSUME NEW b, NEW n, Nested(b, n), Len(b) >= 2
  PROVE  /\ b[Len(b)] \in Inner
         /\ n - Width(b[Len(b)]) >= 3
         /\ Nested(Pop(b, 1), n - Width(b[Len(b)]))
<1> DEFINE l == Len(b)
           a == Pop(b, 1)
           w == Width(b[l])
<1>1. l \in Nat /\ l >= 2 /\ n \in Nat
  BY NestedLength
<1>2. b[1] = "function" /\ \A i \in 2 .. l : b[i] \in Inner
  BY DEF Nested
<1>3. b[l] \in Inner /\ w \in Nat
  <2>1. l \in 2 .. l
    BY <1>1
  <2>2. b[l] \in Inner
    BY <1>2, <2>1
  <2>3. QED
    BY <2>2, WidthIs
<1>4. /\ a \in Seq(Kinds) /\ Len(a) = l - 1 /\ \A i \in 1 .. l - 1 : a[i] = b[i]
  <2>1. b \in Seq(Kinds) /\ 1 <= l
    BY <1>1 DEF Nested
  <2>2. QED
    BY <2>1, PopIs
<1>5. PICK h \in [1 .. l -> Nat] : Heights(b, n, h)
  BY DEF Nested
<1>6. h[1] = 3 /\ h[l] = n /\ (\A i \in 1 .. l : h[i] >= 3) /\ \A i \in 2 .. l : h[i] = h[i - 1] + Width(b[i])
  BY <1>5 DEF Heights
<1>7. Width(b[l]) = w
  OBVIOUS
<1> DEFINE g == [i \in 1 .. l - 1 |-> h[i]]
<1>8. g \in [1 .. l - 1 -> Nat] /\ \A i \in 1 .. l - 1 : g[i] = h[i]
  <2>1. \A i \in 1 .. l - 1 : i \in 1 .. l
    BY <1>1
  <2> HIDE DEF l
  <2>2. QED
    BY <2>1
<1>9. b[Len(b)] = b[l]
  OBVIOUS
<1> SUFFICES b[l] \in Inner /\ n - w >= 3 /\ Nested(a, n - w)
  OBVIOUS
<1> HIDE DEF l, a, w, g
<1>10. h[l - 1] = n - w /\ h[l - 1] >= 3
  <2>1. l \in 2 .. l /\ l - 1 \in 1 .. l /\ h[l - 1] \in Nat
    BY <1>1
  <2>2. h[l] = h[l - 1] + Width(b[l])
    BY <1>6, <2>1
  <2>3. n = h[l - 1] + w
    BY <1>6, <1>7, <2>2
  <2>4. QED
    BY <1>1, <1>3, <1>6, <2>1, <2>3
<1>11. Len(a) = l - 1
  BY <1>4
<1>12. Heights(a, n - w, g)
  <2>1. g[1] = 3 /\ g[Len(a)] = n - w
    <3>1. 1 \in 1 .. l - 1 /\ l - 1 \in 1 .. l - 1
      BY <1>1
    <3>2. QED
      BY <1>6, <1>8, <1>10, <1>11, <3>1
  <2>2. \A i \in 1 .. Len(a) : g[i] >= 3
    <3>1. \A i \in 1 .. l - 1 : i \in 1 .. l
      BY <1>1
    <3>2. QED
      BY <1>6, <1>8, <1>11, <3>1
  <2>3. \A i \in 2 .. Len(a) : g[i] = g[i - 1] + Width(a[i])
    <3>1. \A i \in 2 .. l - 1 : i \in 1 .. l - 1 /\ i - 1 \in 1 .. l - 1 /\ i \in 2 .. l
      BY <1>1
    <3>2. QED
      BY <1>4, <1>6, <1>8, <1>11, <3>1
  <2>4. QED
    BY <2>1, <2>2, <2>3 DEF Heights
<1>13. \A i \in 2 .. Len(a) : a[i] \in Inner
  <2>1. \A i \in 2 .. l - 1 : i \in 1 .. l - 1 /\ i \in 2 .. l
    BY <1>1
  <2>2. QED
    BY <1>2, <1>4, <1>11, <2>1
<1>14. a[1] = "function" /\ Len(a) >= 1
  <2>1. 1 \in 1 .. l - 1 /\ l - 1 >= 1
    BY <1>1
  <2>2. QED
    BY <1>2, <1>4, <1>11, <2>1
<1>15. Nested(a, n - w)
  <2>1. \E f \in [1 .. Len(a) -> Nat] : Heights(a, n - w, f)
    BY <1>8, <1>11, <1>12
  <2>2. QED
    BY <1>4, <1>13, <1>14, <2>1 DEF Nested
<1>16. QED
  BY <1>3, <1>10, <1>15

(* The block of a function is the first, and its three scopes are all      *)
(* there are.                                                              *)
LEMMA NestedOne ==
  ASSUME NEW b, NEW n, Nested(b, n)
  PROVE  /\ b[Len(b)] = "function" => Len(b) <= 1
         /\ Len(b) <= 1 => b = <<"function">> /\ n <= 3
         /\ n <= 3 => Len(b) <= 1
<1>1. /\ Len(b) \in Nat /\ Len(b) >= 1 /\ b \in Seq(Kinds) /\ n \in Nat
      /\ b[1] = "function" /\ \A i \in 2 .. Len(b) : b[i] \in Inner
  BY NestedLength DEF Nested
<1>2. ASSUME Len(b) >= 2 PROVE b[Len(b)] # "function" /\ n > 3
  <2>1. b[Len(b)] \in Inner /\ n - Width(b[Len(b)]) >= 3
    BY <1>2, NestedPop
  <2>2. Width(b[Len(b)]) \in 1 .. 3
    BY <2>1, WidthIs
  <2>3. b[Len(b)] # "function"
    BY <2>1 DEF Inner
  <2>4. QED
    BY <1>1, <2>1, <2>2, <2>3
<1>3. ASSUME Len(b) <= 1 PROVE b = <<"function">> /\ n <= 3
  <2>1. Len(b) = 1
    <3>1. \A m \in Nat : m >= 1 /\ m <= 1 => m = 1
      OBVIOUS
    <3>2. QED
      BY <1>1, <1>3, <3>1
  <2>2. b = <<"function">>
    BY <1>1, <2>1
  <2>3. PICK h \in [1 .. Len(b) -> Nat] : Heights(b, n, h)
    BY DEF Nested
  <2>4. n = 3
    BY <2>1, <2>3 DEF Heights
  <2>5. QED
    BY <2>2, <2>4
<1>4. Len(b) <= 1 \/ Len(b) >= 2
  BY <1>1
<1>5. QED
  BY <1>1, <1>2, <1>3, <1>4

-------------------------------------------------------------------------------
(* The invariant of any program *)

Shape == IF InFunction THEN Nested(blocks, Len(sema)) ELSE Len(sema) <= 1

IInv ==
  /\ Matched(sema, c)
  /\ blocks \in Seq(Kinds)
  /\ Shape
  /\ decls \in Decl /\ fixed \subseteq 1 .. decls
  /\ bindings \subseteq (Decl \cup {Lib}) \X (Decl \cup {Lib})
  /\ target \in Decl
  /\ verdict \in {"accepted", "rejected", "gcc error"}

LEMMA Numbers ==
  /\ MaxDecls \in Nat /\ 0 \in Decl /\ 0 \in Decl \cup {Lib} /\ Lib \in Decl \cup {Lib}
  /\ \A d \in Decl : d \in Nat /\ (d < MaxDecls => d + 1 \in Decl /\ d + 1 # 0)
BY ScopesAssumption DEF Decl

LEMMA IInvType ==
  ASSUME IInv PROVE TypeOK
<1>1. fixed \subseteq Decl
  <2>1. \A d \in Decl : 1 .. d \subseteq Decl
    BY ScopesAssumption DEF Decl
  <2>2. QED
    BY <2>1 DEF IInv
<1>2. /\ Len(sema) = IF InFunction THEN Len(c) + 1 ELSE 1
      /\ ~InFunction => Len(c) = 1
  <2>1. Len(sema) \in Nat /\ Len(c) \in Nat /\ Merged(sema, c, Len(sema), Len(c))
    BY MatchedParts DEF IInv, Matched
  <2>2. CASE InFunction
    <3>1. Len(sema) >= 3
      BY <2>2, NestedLength DEF IInv, Shape
    <3>2. \A m, n \in Nat : Merged(sema, c, m, n) /\ m >= 3 => m = n + 1
      BY DEF Merged
    <3>3. QED
      BY <2>1, <2>2, <3>1, <3>2
  <2>3. CASE ~InFunction
    <3>1. Len(sema) <= 1
      BY <2>3 DEF IInv, Shape
    <3>2. \A m, n \in Nat : Merged(sema, c, m, n) /\ m <= 1 => m = 1 /\ n = 1
      BY DEF Merged
    <3>3. QED
      BY <2>1, <2>3, <3>1, <3>2
  <2>4. QED
    BY <2>2, <2>3
<1>3. QED
  BY <1>1, <1>2, MatchedParts DEF IInv, TypeOK

LEMMA FindType ==
  ASSUME IInv
  PROVE  \A x \in Names : SemaFind(x) \in Decl /\ Lookup(c, x) \in Decl \cup {Lib}
<1>1. sema \in Seq([Names -> Decl]) /\ c \in Seq([Names -> Decl \cup {Lib}])
  BY MatchedParts DEF IInv
<1>2. QED
  BY <1>1, Numbers, LookupType DEF SemaFind

(* A name sema has found binds C to the same declaration, in C's scopes or *)
(* in any that agree on it.                                                *)
LEMMA BindingIs ==
  ASSUME IInv, NEW y \in Names \cup {None}, Known(y), NEW t,
         y # None => Lookup(t, y) \in Decl \cup {Lib}
  PROVE  /\ Binding(t, y) \subseteq (Decl \cup {Lib}) \X (Decl \cup {Lib})
         /\ (y # None => Lookup(t, y) = Lookup(c, y)) => \A b \in Binding(t, y) : b[1] = b[2]
<1>1. CASE y = None
  BY <1>1 DEF Binding
<1>2. CASE y # None
  <2>1. y \in Names /\ SemaFind(y) # 0 /\ SemaFind(y) \in Decl
    BY <1>2, FindType DEF Known
  <2>2. Binding(t, y) = {<<SemaFind(y), Lookup(t, y)>>}
    BY <1>2 DEF Binding
  <2>3. Lookup(c, y) = SemaFind(y)
    BY <2>1, MatchedLookup DEF IInv, SemaFind
  <2>4. QED
    BY <1>2, <2>1, <2>2, <2>3
<1>3. QED
  BY <1>1, <1>2

LEMMA RejectKeeps ==
  ASSUME IInv, Reject, UNCHANGED blocks
  PROVE  IInv'
BY Numbers DEF IInv, Reject, Shape, InFunction

LEMMA AssignType ==
  ASSUME IInv, NEW x \in Names, NEW y \in Names \cup {None}, Assign(x, y)
  PROVE  IInv'
<1>1. CASE SemaFind(x) = 0 \/ SemaFind(x) \in fixed \/ ~Known(y)
  BY <1>1, RejectKeeps DEF Assign
<1>2. CASE ~(SemaFind(x) = 0 \/ SemaFind(x) \in fixed \/ ~Known(y))
  <2>1. /\ bindings' = Binding(c, x) \cup Binding(c, y) /\ target' = Lookup(c, x)
        /\ UNCHANGED <<sema, c, blocks, decls, fixed, verdict>>
    BY <1>2 DEF Assign
  <2>2. Known(x) /\ Known(y)
    BY <1>2 DEF Known
  <2>3. Binding(c, x) \cup Binding(c, y) \subseteq (Decl \cup {Lib}) \X (Decl \cup {Lib})
    BY <2>2, FindType, BindingIs
  <2>4. Lookup(c, x) = SemaFind(x) /\ SemaFind(x) \in Decl
    BY <1>2, MatchedLookup, FindType DEF IInv, SemaFind
  <2>5. QED
    BY <2>1, <2>3, <2>4 DEF IInv, Shape, InFunction
<1>3. QED
  BY <1>1, <1>2

LEMMA CallLibraryType ==
  ASSUME IInv, NEW f \in Library, CallLibrary(f)
  PROVE  IInv'
<1>1. f \in Names
  BY ScopesAssumption
<1>2. <<Lib, Lookup(c, f)>> \in (Decl \cup {Lib}) \X (Decl \cup {Lib})
  BY <1>1, FindType, Numbers
<1>3. QED
  BY <1>2, Numbers DEF IInv, CallLibrary, Shape, InFunction

LEMMA ScopesTypes == <<>> \in {<<>>, <<NoScope>>} /\ <<NoScope>> \in {<<>>, <<NoScope>>}
OBVIOUS

(* The two sets of scopes after a declaration that sema accepts.           *)
LEMMA DeclareVarChanges ==
  ASSUME IInv, NEW s, NEW t, Matched(s, t), NEW x \in Names, NEW y \in Names \cup {None},
         NEW isFixed \in BOOLEAN, NEW body \in {<<>>, <<NoScope>>},
         body = <<NoScope>> => Len(s) >= 3,
         DeclareVar(s, t, x, y, isFixed, body), Known(y), Top(s)[x] = 0
  PROVE  /\ Matched(sema', c')
         /\ Len(sema') = IF body = <<>> THEN Len(s) ELSE Len(s) + 1
         /\ decls' \in Decl /\ fixed' \subseteq 1 .. decls' /\ target' = 0
         /\ bindings' \subseteq (Decl \cup {Lib}) \X (Decl \cup {Lib})
         /\ verdict' \in {verdict, "gcc error"}
<1> DEFINE d == decls + 1
           u == Declare(s, x, d)
           w == Declare(t, x, d)
<1>1. /\ sema' = u \o body /\ c' = w \o body
      /\ bindings' = Binding(w, y)
      /\ verdict' = IF Top(t)[x] # 0 THEN "gcc error" ELSE verdict
      /\ decls' = d
      /\ fixed' = IF isFixed THEN fixed \cup {d} ELSE fixed
      /\ target' = 0 /\ decls < MaxDecls
  BY DEF DeclareVar
<1>2. d \in Decl /\ d # 0
  BY <1>1, Numbers DEF IInv
<1>3. Matched(u, w) /\ Len(u) = Len(s)
  BY <1>2, MatchedDeclare
<1>4. bindings' \subseteq (Decl \cup {Lib}) \X (Decl \cup {Lib})
  <2>1. w \in Seq([Names -> Decl \cup {Lib}])
    BY <1>3, MatchedParts
  <2>2. y # None => Lookup(w, y) \in Decl \cup {Lib}
    BY <2>1, Numbers, LookupType
  <2>3. QED
    BY <1>1, <2>2, BindingIs
<1>5. fixed' \subseteq 1 .. decls'
  <2>1. fixed \subseteq 1 .. decls /\ decls \in Nat
    BY Numbers DEF IInv
  <2>2. fixed \subseteq 1 .. d /\ d \in 1 .. d
    BY <2>1
  <2>3. QED
    BY <1>1, <2>2
<1>6. verdict' \in {verdict, "gcc error"} /\ decls' \in Decl
  BY <1>1, <1>2
<1>7. Matched(sema', c') /\ Len(sema') = IF body = <<>> THEN Len(s) ELSE Len(s) + 1
  <2>1. u \in Seq([Names -> Decl]) /\ w \in Seq([Names -> Decl \cup {Lib}])
    BY <1>3, MatchedParts
  <2> HIDE DEF d, u, w
  <2>2. CASE body = <<>>
    <3>1. u \o <<>> = u /\ w \o <<>> = w
      BY <2>1
    <3>2. QED
      BY <1>1, <1>3, <2>2, <3>1
  <2>3. CASE body = <<NoScope>>
    <3>1. u \o <<NoScope>> = Append(u, NoScope) /\ w \o <<NoScope>> = Append(w, NoScope)
      BY <2>1, NoScopeType, AppendByConcat
    <3>2. Len(u) >= 3
      BY <1>3, <2>3
    <3>3. Matched(Append(u, NoScope), Append(w, NoScope)) /\ Len(Append(u, NoScope)) = Len(u) + 1
      BY <1>3, <3>2, MatchedPush
    <3>4. body # <<>>
      BY <2>3
    <3>5. QED
      BY <1>1, <1>3, <2>3, <3>1, <3>3, <3>4
  <2>4. QED
    BY <2>2, <2>3
<1>8. QED
  BY <1>1, <1>4, <1>5, <1>6, <1>7

LEMMA LetType ==
  ASSUME IInv, NEW x \in Names, NEW y \in Names \cup {None}, NEW isFixed \in BOOLEAN, Let(x, y, isFixed)
  PROVE  IInv'
<1>1. DeclareVar(sema, c, x, y, isFixed, <<>>) /\ UNCHANGED blocks
  BY DEF Let
<1>2. CASE ~Known(y) \/ Top(sema)[x] # 0
  BY <1>1, <1>2, RejectKeeps DEF DeclareVar
<1>3. CASE ~(~Known(y) \/ Top(sema)[x] # 0)
  <2>1. /\ Matched(sema', c') /\ Len(sema') = Len(sema)
        /\ decls' \in Decl /\ fixed' \subseteq 1 .. decls' /\ target' = 0
        /\ bindings' \subseteq (Decl \cup {Lib}) \X (Decl \cup {Lib})
        /\ verdict' \in {verdict, "gcc error"}
    <3>1. Matched(sema, c) /\ <<>> # <<NoScope>> /\ Known(y) /\ Top(sema)[x] = 0
      BY <1>3 DEF IInv
    <3>2. QED
      BY <1>1, <3>1, ScopesTypes, DeclareVarChanges
  <2>2. QED
    BY <1>1, <2>1, Numbers DEF IInv, Shape, InFunction
<1>4. QED
  BY <1>2, <1>3

(* The shape once a block has been opened.                                 *)
LEMMA OpenedShape ==
  ASSUME IInv, InFunction, NEW k \in Inner, blocks' = Append(blocks, k),
         Len(sema') = Len(sema) + Width(k)
  PROVE  Shape' /\ blocks' \in Seq(Kinds)
<1>1. Nested(blocks', Len(sema'))
  BY NestedAppend DEF IInv, Shape
<1>2. blocks' # <<>> /\ blocks' # <<"globals">> /\ blocks' \in Seq(Kinds)
  BY <1>1, NestedLength
<1>3. QED
  BY <1>1, <1>2 DEF Shape, InFunction

LEMMA InnerIs ==
  /\ {"block", "for", "foreach"} = Inner
  /\ Width("block") = 1 /\ Width("for") = 2 /\ Width("foreach") = 3
BY DEF Width, Inner

LEMMA InFunctionDepth ==
  ASSUME IInv, InFunction PROVE Len(sema) >= 3 /\ Len(sema) \in Nat /\ Nested(blocks, Len(sema))
BY NestedLength DEF IInv, Shape

LEMMA ForType ==
  ASSUME IInv, NEW x \in Names, NEW y \in Names \cup {None}, For(x, y)
  PROVE  IInv'
<1> DEFINE s == Append(sema, NoScope)
           t == Append(c, NoScope)
<1>1. /\ Accepted /\ InFunction
      /\ DeclareVar(s, t, x, y, FALSE, <<NoScope>>)
      /\ blocks' = IF verdict' = "rejected" THEN blocks ELSE Append(blocks, "for")
  BY DEF For
<1>2. Len(sema) >= 3 /\ Len(sema) \in Nat
  BY <1>1, InFunctionDepth
<1>3. Matched(s, t) /\ Len(s) = Len(sema) + 1 /\ Len(s) >= 3
  <2>1. Matched(s, t) /\ Len(s) = Len(sema) + 1
    BY <1>2, MatchedPush DEF IInv
  <2> HIDE DEF s, t
  <2>2. QED
    BY <1>2, <2>1
<1> HIDE DEF s, t
<1>4. CASE ~Known(y) \/ Top(s)[x] # 0
  <2>1. Reject
    BY <1>1, <1>4 DEF DeclareVar
  <2>2. QED
    BY <1>1, <2>1, RejectKeeps DEF Reject
<1>5. CASE ~(~Known(y) \/ Top(s)[x] # 0)
  <2>1. Known(y) /\ Top(s)[x] = 0 /\ <<NoScope>> # <<>>
    BY <1>5
  <2>2. /\ Matched(sema', c') /\ Len(sema') = Len(s) + 1
        /\ decls' \in Decl /\ fixed' \subseteq 1 .. decls' /\ target' = 0
        /\ bindings' \subseteq (Decl \cup {Lib}) \X (Decl \cup {Lib})
        /\ verdict' \in {verdict, "gcc error"}
    BY <1>1, <1>3, <2>1, ScopesTypes, DeclareVarChanges
  <2>3. blocks' = Append(blocks, "for") /\ verdict' \in {"accepted", "gcc error"}
    BY <1>1, <2>2 DEF Accepted
  <2>4. Len(sema') = Len(sema) + Width("for")
    <3>1. Len(sema') = Len(sema) + 1 + 1
      BY <1>3, <2>2
    <3>2. \A n \in Nat : n + 1 + 1 = n + 2
      OBVIOUS
    <3>3. QED
      BY <1>2, <3>1, <3>2, InnerIs
  <2>5. "for" \in Inner
    BY DEF Inner
  <2>6. Shape' /\ blocks' \in Seq(Kinds)
    BY <1>1, <2>3, <2>4, <2>5, OpenedShape
  <2>7. QED
    BY <2>2, <2>3, <2>6, Numbers DEF IInv
<1>6. QED
  BY <1>4, <1>5

LEMMA BlockType ==
  ASSUME IInv, NEW y \in Names \cup {None}, Block(y)
  PROVE  IInv'
<1>1. CASE ~Known(y)
  BY <1>1, RejectKeeps DEF Block
<1>2. CASE Known(y)
  <2>1. /\ InFunction /\ bindings' = Binding(c, y)
        /\ sema' = Append(sema, NoScope) /\ c' = Append(c, NoScope)
        /\ blocks' = Append(blocks, "block")
        /\ target' = 0 /\ UNCHANGED <<decls, fixed, verdict>>
    BY <1>2 DEF Block
  <2>2. Len(sema) >= 3 /\ Matched(sema, c)
    BY <2>1, InFunctionDepth DEF IInv
  <2>3. Matched(sema', c') /\ Len(sema') = Len(sema) + Width("block")
    BY <2>1, <2>2, MatchedPush, InnerIs
  <2>4. "block" \in Inner
    BY DEF Inner
  <2>5. Shape' /\ blocks' \in Seq(Kinds)
    BY <2>1, <2>3, <2>4, OpenedShape
  <2>6. bindings' \subseteq (Decl \cup {Lib}) \X (Decl \cup {Lib})
    BY <1>2, <2>1, FindType, BindingIs
  <2>7. QED
    BY <2>1, <2>3, <2>5, <2>6, Numbers DEF IInv
<1>3. QED
  BY <1>1, <1>2

LEMMA ForeachType ==
  ASSUME IInv, NEW x \in Names, NEW y \in Names, Foreach(x, y)
  PROVE  IInv'
<1>1. CASE ~Known(y)
  BY <1>1, RejectKeeps DEF Foreach
<1>2. CASE Known(y)
  <2> DEFINE d == decls + 1
             s1 == Append(sema, NoScope)
             t1 == Append(c, NoScope)
             s2 == Append(s1, NoScope)
             t2 == Append(t1, NoScope)
             s3 == Append(s2, NoScope)
             t3 == Append(t2, NoScope)
  <2>1. /\ InFunction /\ bindings' = Binding(c, y) /\ decls < MaxDecls
        /\ sema' = Declare(sema \o <<NoScope, NoScope, NoScope>>, x, d)
        /\ c' = Declare(c \o <<NoScope, NoScope, NoScope>>, x, d)
        /\ blocks' = Append(blocks, "foreach")
        /\ decls' = d /\ target' = 0 /\ UNCHANGED <<fixed, verdict>>
    BY <1>2 DEF Foreach
  <2>2. sema \o <<NoScope, NoScope, NoScope>> = s3 /\ c \o <<NoScope, NoScope, NoScope>> = t3
    <3>1. sema \in Seq([Names -> Decl]) /\ c \in Seq([Names -> Decl \cup {Lib}])
      BY MatchedParts DEF IInv
    <3>2. QED
      BY <3>1, NoScopeType, AppendByConcat
  <2>3. Len(sema) >= 3 /\ Len(sema) \in Nat /\ Matched(sema, c)
    BY <2>1, InFunctionDepth DEF IInv
  <2>4. Matched(s1, t1) /\ Len(s1) = Len(sema) + 1
    BY <2>3, MatchedPush
  <2>5. Matched(s2, t2) /\ Len(s2) = Len(sema) + 2
    <3> HIDE DEF s1, t1
    <3>1. Len(s1) >= 3
      BY <2>3, <2>4
    <3>2. Matched(s2, t2) /\ Len(s2) = Len(s1) + 1
      BY <2>4, <3>1, MatchedPush
    <3> HIDE DEF s2, t2
    <3>3. QED
      BY <2>3, <2>4, <3>2
  <2>6. Matched(s3, t3) /\ Len(s3) = Len(sema) + 3
    <3> HIDE DEF s2, t2
    <3>1. Len(s2) >= 3
      BY <2>3, <2>5
    <3>2. Matched(s3, t3) /\ Len(s3) = Len(s2) + 1
      BY <2>5, <3>1, MatchedPush
    <3> HIDE DEF s3, t3
    <3>3. QED
      BY <2>3, <2>5, <3>2
  <2>7. d \in Decl /\ d # 0
    BY <2>1, Numbers DEF IInv
  <2>8. /\ Matched(Declare(s3, x, d), Declare(t3, x, d))
        /\ Len(Declare(s3, x, d)) = Len(s3)
    <3> HIDE DEF s3, t3, d
    <3>1. QED
      BY <2>6, <2>7, MatchedDeclare
  <2>9. sema' = Declare(s3, x, d) /\ c' = Declare(t3, x, d)
    BY <2>1, <2>2
  <2>10. fixed' \subseteq 1 .. decls' /\ decls' \in Decl
    <3>1. fixed \subseteq 1 .. decls /\ decls \in Nat
      BY Numbers DEF IInv
    <3>2. QED
      BY <2>1, <2>7, <3>1
  <2> HIDE DEF s3, t3, d
  <2>11. Matched(sema', c') /\ Len(sema') = Len(sema) + Width("foreach")
    BY <2>6, <2>8, <2>9, InnerIs
  <2>12. "foreach" \in Inner
    BY DEF Inner
  <2>13. Shape' /\ blocks' \in Seq(Kinds)
    BY <2>1, <2>11, <2>12, OpenedShape
  <2>14. bindings' \subseteq (Decl \cup {Lib}) \X (Decl \cup {Lib})
    BY <1>2, <2>1, FindType, BindingIs
  <2>15. QED
    BY <2>1, <2>10, <2>11, <2>13, <2>14, Numbers DEF IInv
<1>3. QED
  BY <1>1, <1>2

LEMMA FunctionType ==
  ASSUME IInv, NEW p \in Names \cup {None}, NEW q \in Names \cup {None}, Function(p, q)
  PROVE  IInv'
<1> DEFINE n == IF p = None THEN 0 ELSE IF q = None THEN 1 ELSE 2
           params == [x \in Names |-> IF x = p THEN decls + 1 ELSE IF x = q THEN decls + 2 ELSE 0]
<1>0. /\ p = None => q = None
      /\ decls + n <= MaxDecls /\ decls' = decls + n /\ fixed' = fixed
  BY DEF Function
<1>1. /\ Accepted /\ ~InFunction
      /\ sema' = sema \o <<params, NoScope>> /\ c' = Append(c, params)
      /\ blocks' = <<"function">>
      /\ verdict' = IF p = q /\ p # None THEN "gcc error" ELSE verdict
      /\ bindings' = {} /\ target' = 0
  BY DEF Function
<1>2. decls \in Nat /\ MaxDecls \in Nat /\ decls' \in Decl /\ n \in 0 .. 2 /\ decls' <= MaxDecls
  <2>1. decls \in Nat /\ MaxDecls \in Nat
    BY Numbers DEF IInv
  <2>2. n \in 0 .. 2
    OBVIOUS
  <2>3. \A a, k, m \in Nat : a + k <= m => a + k \in 0 .. m /\ a + k <= m
    OBVIOUS
  <2>4. decls + n <= MaxDecls /\ decls' = decls + n /\ n \in Nat
    BY <1>0, <2>2
  <2> HIDE DEF n
  <2>5. QED
    BY <2>1, <2>2, <2>3, <2>4 DEF Decl
<1>3. params \in [Names -> Decl]
  <2>1. None \notin Names
    BY ScopesAssumption
  <2>2. \A a, k, m, e \in Nat : a + k <= m /\ e <= k => a + e \in 0 .. m
    OBVIOUS
  <2>3. \A x \in Names : x = p => decls + 1 \in Decl
    <3>1. p # None => 1 <= n
      OBVIOUS
    <3>2. p # None => decls + 1 \in Decl
      <4> HIDE DEF n
      <4>1. decls + n <= MaxDecls /\ n \in Nat
        BY <1>0, <1>2
      <4>2. QED
        BY <1>2, <2>2, <3>1, <4>1 DEF Decl
    <3>3. QED
      BY <2>1, <3>2
  <2>4. \A x \in Names : x = q => decls + 2 \in Decl
    <3>1. q # None => 2 <= n
      BY <1>0
    <3>2. q # None => decls + 2 \in Decl
      <4> HIDE DEF n
      <4>1. decls + n <= MaxDecls /\ n \in Nat
        BY <1>0, <1>2
      <4>2. QED
        BY <1>2, <2>2, <3>1, <4>1 DEF Decl
    <3>3. QED
      BY <2>1, <3>2
  <2>5. 0 \in Decl
    BY Numbers
  <2>6. QED
    BY <2>3, <2>4, <2>5
<1> HIDE DEF n, params
<1>4. Matched(sema', c') /\ Len(sema') = 3
  <2>1. Matched(sema, c) /\ Len(sema) <= 1
    BY <1>1 DEF IInv, Shape
  <2>2. QED
    BY <1>1, <1>3, <2>1, MatchedCall
<1>5. Shape' /\ blocks' \in Seq(Kinds)
  <2>1. Nested(blocks', Len(sema'))
    BY <1>1, <1>4, NestedFunction
  <2>2. blocks' # <<>> /\ blocks' # <<"globals">> /\ blocks' \in Seq(Kinds)
    BY <2>1, NestedLength
  <2>3. QED
    BY <2>1, <2>2 DEF Shape, InFunction
<1>6. fixed' \subseteq 1 .. decls'
  <2>1. fixed \subseteq 1 .. decls
    BY DEF IInv
  <2>2. \A a, k \in Nat : 1 .. a \subseteq 1 .. (a + k)
    OBVIOUS
  <2>3. decls' = decls + n /\ n \in Nat /\ fixed' = fixed
    BY <1>0, <1>2
  <2>4. QED
    BY <1>2, <2>1, <2>2, <2>3
<1>7. verdict' \in {"accepted", "rejected", "gcc error"}
  BY <1>1 DEF IInv
<1>8. QED
  BY <1>1, <1>2, <1>4, <1>5, <1>6, <1>7, Numbers DEF IInv

(* The two sets of scopes once a block or a function has been closed.      *)
LEMMA ClosedShape ==
  ASSUME IInv, InFunction, blocks' = Pop(blocks, 1),
         IF Top(blocks) = "function"
         THEN sema' = Pop(sema, 2) /\ c' = Pop(c, 1)
         ELSE sema' = Pop(sema, Width(Top(blocks))) /\ c' = Pop(c, Width(Top(blocks)))
  PROVE  Matched(sema', c') /\ Shape' /\ blocks' \in Seq(Kinds)
<1>1. /\ Nested(blocks, Len(sema)) /\ Matched(sema, c) /\ Len(sema) \in Nat /\ Len(sema) >= 3
      /\ Len(blocks) \in Nat
  BY InFunctionDepth, NestedLength DEF IInv
<1>2. CASE Top(blocks) = "function"
  <2>1. blocks = <<"function">> /\ Len(sema) <= 3
    BY <1>1, <1>2, NestedOne DEF Top
  <2>2. Matched(sema', c') /\ Len(sema') <= 1
    BY <1>1, <1>2, <2>1, MatchedReturn
  <2>3. blocks' = <<>>
    BY <2>1 DEF Pop
  <2>4. <<>> \in Seq(Kinds)
    OBVIOUS
  <2>5. QED
    BY <2>2, <2>3, <2>4 DEF Shape, InFunction
<1>3. CASE Top(blocks) # "function"
  <2> DEFINE k == Width(Top(blocks))
  <2>1. Len(blocks) >= 2
    <3>1. ~(Len(blocks) <= 1)
      <4>1. SUFFICES ASSUME Len(blocks) <= 1 PROVE FALSE
        OBVIOUS
      <4>2. blocks = <<"function">>
        BY <1>1, <4>1, NestedOne
      <4>3. QED
        BY <1>3, <4>2 DEF Top
    <3>2. QED
      BY <1>1, <3>1
  <2>2. Top(blocks) \in Inner /\ Len(sema) - k >= 3 /\ Nested(Pop(blocks, 1), Len(sema) - k)
    BY <1>1, <2>1, NestedPop DEF Top
  <2>3. k \in Nat
    BY <2>2, WidthIs
  <2>4. sema' = Pop(sema, k) /\ c' = Pop(c, k)
    BY <1>3
  <2> HIDE DEF k
  <2>5. Matched(sema', c') /\ Len(sema') = Len(sema) - k
    BY <1>1, <2>2, <2>3, <2>4, MatchedPop
  <2>6. Nested(blocks', Len(sema'))
    BY <2>2, <2>5
  <2>7. blocks' # <<>> /\ blocks' # <<"globals">> /\ blocks' \in Seq(Kinds)
    BY <2>6, NestedLength
  <2>8. QED
    BY <2>5, <2>6, <2>7 DEF Shape, InFunction
<1>4. QED
  BY <1>2, <1>3

(* The step of a for is checked when its block has been closed.            *)
LEMMA CloseForFinds ==
  ASSUME IInv, NEW z \in Names, InFunction, Top(blocks) = "for", Lookup(Pop(sema, 1), z) # 0
  PROVE  Lookup(Pop(c, 1), z) = Lookup(Pop(sema, 1), z) /\ Lookup(Pop(sema, 1), z) \in Decl
<1>1. Nested(blocks, Len(sema)) /\ Matched(sema, c) /\ Len(sema) \in Nat /\ Len(blocks) \in Nat
  BY InFunctionDepth, NestedLength DEF IInv
<1>2. Len(blocks) >= 2
  <2>1. SUFFICES ASSUME Len(blocks) <= 1 PROVE FALSE
    BY <1>1
  <2>2. blocks = <<"function">>
    BY <1>1, <2>1, NestedOne
  <2>3. QED
    BY <2>2 DEF Top
<1>3. Len(sema) - 2 >= 3
  <2>1. Len(sema) - Width("for") >= 3
    BY <1>1, <1>2, NestedPop DEF Top
  <2>2. QED
    BY <2>1, InnerIs
<1>4. Len(sema) - 1 >= 3
  BY <1>1, <1>3
<1>5. Matched(Pop(sema, 1), Pop(c, 1))
  BY <1>1, <1>4, MatchedPop
<1>6. Pop(sema, 1) \in Seq([Names -> Decl])
  BY <1>5, MatchedParts
<1>7. QED
  BY <1>5, <1>6, MatchedLookup, LookupType, Numbers

LEMMA CloseForType ==
  ASSUME IInv, NEW z \in Names, CloseFor(z)
  PROVE  IInv'
<1> DEFINE found == Lookup(Pop(sema, 1), z)
<1>1. CASE found = 0 \/ found \in fixed
  BY <1>1, RejectKeeps DEF CloseFor
<1>2. CASE ~(found = 0 \/ found \in fixed)
  <2>1. /\ InFunction /\ Top(blocks) = "for"
        /\ target' = Lookup(Pop(c, 1), z) /\ bindings' = {<<found, target'>>}
        /\ sema' = Pop(sema, 2) /\ c' = Pop(c, 2) /\ blocks' = Pop(blocks, 1)
        /\ UNCHANGED <<decls, fixed, verdict>>
    BY <1>2 DEF CloseFor
  <2>2. target' \in Decl /\ bindings' \subseteq (Decl \cup {Lib}) \X (Decl \cup {Lib})
    BY <1>2, <2>1, CloseForFinds
  <2>3. Matched(sema', c') /\ Shape' /\ blocks' \in Seq(Kinds)
    BY <2>1, ClosedShape, InnerIs
  <2>4. QED
    BY <2>1, <2>2, <2>3 DEF IInv
<1>3. QED
  BY <1>1, <1>2

LEMMA CloseType ==
  ASSUME IInv, Close
  PROVE  IInv'
<1> DEFINE b == Top(blocks)
<1>1. /\ InFunction /\ b # "for"
      /\ sema' = Pop(sema, IF b = "foreach" THEN 3 ELSE IF b = "function" THEN 2 ELSE 1)
      /\ c' = Pop(c, IF b = "foreach" THEN 3 ELSE 1)
      /\ blocks' = Pop(blocks, 1)
      /\ bindings' = {} /\ target' = 0 /\ UNCHANGED <<decls, fixed, verdict>>
  BY DEF Close
<1>2. IF b = "function"
      THEN sema' = Pop(sema, 2) /\ c' = Pop(c, 1)
      ELSE sema' = Pop(sema, Width(b)) /\ c' = Pop(c, Width(b))
  BY <1>1 DEF Width
<1>3. Matched(sema', c') /\ Shape' /\ blocks' \in Seq(Kinds)
  BY <1>1, <1>2, ClosedShape
<1>4. QED
  BY <1>1, <1>3, Numbers DEF IInv

LEMMA IInvInit ==
  ASSUME Init PROVE IInv
<1> DEFINE g == [x \in Names |-> IF x \in Library THEN Lib ELSE 0]
<1>1. sema = <<NoScope>> /\ c = <<g>> /\ blocks = <<"globals">>
  BY DEF Init
<1>2. g \in [Names -> Decl \cup {Lib}] /\ \A x \in Names : g[x] = IF x \in Library THEN Lib ELSE 0
  BY Numbers
<1> HIDE DEF g
<1>3. sema \in Seq([Names -> Decl]) /\ Len(sema) = 1 /\ sema[1] = NoScope
  BY <1>1, NoScopeType
<1>4. c \in Seq([Names -> Decl \cup {Lib}]) /\ Len(c) = 1 /\ c[1] = g
  BY <1>1, <1>2
<1>5. Merged(sema, c, 1, 1)
  BY <1>2, <1>3, <1>4, NoScopeType DEF Merged
<1>6. Matched(sema, c)
  BY <1>3, <1>4, <1>5 DEF Matched
<1>7. blocks \in Seq(Kinds) /\ ~InFunction
  BY <1>1 DEF Kinds, InFunction
<1>8. QED
  BY <1>3, <1>6, <1>7, Numbers DEF IInv, Init, Shape

LEMMA IInvNext ==
  ASSUME IInv, [Next]_vars
  PROVE  IInv'
<1>1. ASSUME NEW x \in Names, NEW y \in Names \cup {None},
             \/ \E isFixed \in BOOLEAN : Let(x, y, isFixed)
             \/ Assign(x, y) \/ ChangeInPlace(x, y) \/ For(x, y)
      PROVE  IInv'
  BY <1>1, LetType, AssignType, ForType DEF ChangeInPlace
<1>2. ASSUME NEW x \in Names, NEW y \in Names, Foreach(x, y) PROVE IInv'
  BY <1>2, ForeachType
<1>3. ASSUME NEW y \in Names \cup {None}, Block(y) PROVE IInv'
  BY <1>3, BlockType
<1>4. ASSUME NEW p \in Names \cup {None}, NEW q \in Names \cup {None}, Function(p, q) PROVE IInv'
  BY <1>4, FunctionType
<1>5. ASSUME NEW f \in Library, CallLibrary(f) PROVE IInv'
  BY <1>5, CallLibraryType
<1>6. ASSUME NEW z \in Names, CloseFor(z) PROVE IInv'
  BY <1>6, CloseForType
<1>7. ASSUME Close PROVE IInv'
  BY <1>7, CloseType
<1>8. ASSUME UNCHANGED vars PROVE IInv'
  BY <1>8 DEF vars, IInv, Shape, InFunction
<1>9. QED
  BY <1>1, <1>2, <1>3, <1>4, <1>5, <1>6, <1>7, <1>8 DEF Next

LEMMA Invariant == Spec => []IInv
BY IInvInit, IInvNext, PTL DEF Spec

(* Whatever the program, the scopes of C are one fewer than those of sema  *)
(* inside a function and one outside, and every name, binding and target   *)
(* is a declaration: sema.c's scope_push and scope_pop and codegen.c's     *)
(* braces keep step.                                                       *)
THEOREM TypeCorrect == Spec => []TypeOK
BY Invariant, IInvType, PTL

-------------------------------------------------------------------------------
(* Fixed variables *)

LEMMA NoTarget ==
  ASSUME IInv', target' = 0
  PROVE  FixedKept'
<1>1. decls' \in Nat /\ fixed' \subseteq 1 .. decls'
  BY Numbers DEF IInv
<1>2. QED
  BY <1>1 DEF FixedKept

LEMMA AssignKeeps ==
  ASSUME IInv, IInv', NEW x \in Names, NEW y \in Names \cup {None}, Assign(x, y)
  PROVE  FixedKept'
<1>1. CASE SemaFind(x) = 0 \/ SemaFind(x) \in fixed \/ ~Known(y)
  BY <1>1, NoTarget DEF Assign, Reject
<1>2. CASE ~(SemaFind(x) = 0 \/ SemaFind(x) \in fixed \/ ~Known(y))
  <2>1. target' = Lookup(c, x) /\ fixed' = fixed
    BY <1>2 DEF Assign
  <2>2. Lookup(c, x) = SemaFind(x)
    BY <1>2, MatchedLookup DEF IInv, SemaFind
  <2>3. QED
    BY <1>2, <2>1, <2>2 DEF FixedKept
<1>3. QED
  BY <1>1, <1>2

LEMMA CloseForKeeps ==
  ASSUME IInv, IInv', NEW z \in Names, CloseFor(z)
  PROVE  FixedKept'
<1> DEFINE found == Lookup(Pop(sema, 1), z)
<1>1. CASE found = 0 \/ found \in fixed
  BY <1>1, NoTarget DEF CloseFor, Reject
<1>2. CASE ~(found = 0 \/ found \in fixed)
  <2>1. InFunction /\ Top(blocks) = "for" /\ target' = Lookup(Pop(c, 1), z) /\ fixed' = fixed
    BY <1>2 DEF CloseFor
  <2>2. Lookup(Pop(c, 1), z) = found
    BY <1>2, <2>1, CloseForFinds
  <2>3. QED
    BY <1>2, <2>1, <2>2 DEF FixedKept
<1>3. QED
  BY <1>1, <1>2

LEMMA FixedNext ==
  ASSUME IInv, FixedKept, [Next]_vars
  PROVE  FixedKept'
<1>1. IInv'
  BY IInvNext
<1>2. ASSUME NEW x \in Names, NEW y \in Names \cup {None}, NEW isFixed \in BOOLEAN, Let(x, y, isFixed)
      PROVE  target' = 0
  BY <1>2 DEF Let, DeclareVar, Reject
<1>3. ASSUME NEW x \in Names, NEW y \in Names \cup {None}, Assign(x, y) \/ ChangeInPlace(x, y)
      PROVE  FixedKept'
  BY <1>1, <1>3, AssignKeeps DEF ChangeInPlace
<1>4. ASSUME NEW x \in Names, NEW y \in Names \cup {None}, For(x, y) PROVE target' = 0
  BY <1>4 DEF For, DeclareVar, Reject
<1>5. ASSUME NEW x \in Names, NEW y \in Names, Foreach(x, y) PROVE target' = 0
  BY <1>5 DEF Foreach, Reject
<1>6. ASSUME NEW y \in Names \cup {None}, Block(y) PROVE target' = 0
  BY <1>6 DEF Block, Reject
<1>7. ASSUME NEW p \in Names \cup {None}, NEW q \in Names \cup {None}, Function(p, q) PROVE target' = 0
  BY <1>7 DEF Function
<1>8. ASSUME NEW f \in Library, CallLibrary(f) PROVE target' = 0
  BY <1>8 DEF CallLibrary
<1>9. ASSUME NEW z \in Names, CloseFor(z) PROVE FixedKept'
  BY <1>1, <1>9, CloseForKeeps
<1>10. ASSUME Close PROVE target' = 0
  BY <1>10 DEF Close
<1>11. ASSUME UNCHANGED vars PROVE FixedKept'
  BY <1>11 DEF vars, FixedKept
<1>12. QED
  BY <1>1, <1>2, <1>3, <1>4, <1>5, <1>6, <1>7, <1>8, <1>9, <1>10, <1>11, NoTarget DEF Next

(* A variable made with `fixed` is never assigned to, in any program and   *)
(* whatever it declares with the same name: the declaration sema's         *)
(* check_not_fixed looks at is the one gcc assigns to.                     *)
THEOREM FixedIsKept == Spec => []FixedKept
<1>1. Init => FixedKept
  BY DEF Init, FixedKept
<1>2. QED
  BY <1>1, Invariant, FixedNext, PTL DEF Spec

-------------------------------------------------------------------------------
(* Second declarations *)

(* Where sema finds the innermost scope without x, so does gcc, unless x   *)
(* is a name of the library or of a parameter.                             *)
LEMMA TopFree ==
  ASSUME IInv, NEW x \in Names, x \notin Library, Top(sema)[x] = 0,
         blocks = <<"function">> => sema[2][x] = 0
  PROVE  Top(c)[x] = 0
<1>1. Len(sema) \in Nat /\ Len(c) \in Nat /\ Merged(sema, c, Len(sema), Len(c))
  BY MatchedParts DEF IInv, Matched
<1>2. InFunction /\ Len(sema) <= 3 => blocks = <<"function">>
  BY <1>1, InFunctionDepth, NestedOne
<1>3. InFunction \/ Len(sema) <= 1
  BY DEF IInv, Shape
<1>4. sema[Len(sema)][x] = 0
  BY DEF Top
<1>5. \A m, n \in Nat :
        /\ Merged(sema, c, m, n) /\ sema[m][x] = 0
        /\ (m <= 1 \/ m > 3 \/ sema[2][x] = 0)
        => c[n][x] = 0
  <2>1. SUFFICES ASSUME NEW m \in Nat, NEW n \in Nat, Merged(sema, c, m, n), sema[m][x] = 0,
                        m <= 1 \/ m > 3 \/ sema[2][x] = 0
                 PROVE  c[n][x] = 0
    OBVIOUS
  <2>2. CASE m = 1 /\ n = 1
    <3>1. sema[1][x] = 0
      BY <2>1, <2>2
    <3>2. QED
      BY <2>1, <2>2, <3>1 DEF Merged
  <2>3. CASE m >= 3 /\ n = m - 1
    <3>1. CASE m = 3
      <4>1. n = 2 /\ sema[3][x] = 0 /\ sema[2][x] = 0
        BY <2>1, <2>3, <3>1
      <4>2. QED
        BY <2>1, <2>3, <3>1, <4>1 DEF Merged
    <3>2. CASE m > 3
      <4>1. m \in 4 .. m
        BY <3>2
      <4>2. c[m - 1] = sema[m]
        BY <2>1, <4>1 DEF Merged
      <4>3. QED
        BY <2>1, <2>3, <4>2
    <3>3. QED
      BY <2>3, <3>1, <3>2
  <2>4. QED
    BY <2>1, <2>2, <2>3 DEF Merged
<1>6. Len(sema) <= 1 \/ Len(sema) > 3 \/ sema[2][x] = 0
  BY <1>1, <1>2, <1>3
<1>7. c[Len(c)][x] = 0
  BY <1>1, <1>4, <1>5, <1>6
<1>8. QED
  BY <1>7 DEF Top

LEMMA VerdictNext ==
  ASSUME IInv, GccAccepts, [Next]_vars, {"library", "parameter"} \subseteq Rules
  PROVE  GccAccepts'
<1>1. ASSUME NEW x \in Names, NEW y \in Names \cup {None}, NEW isFixed \in BOOLEAN, Let(x, y, isFixed)
      PROVE  GccAccepts'
  <2>1. DeclareVar(sema, c, x, y, isFixed, <<>>) /\ x \notin Library
        /\ (blocks = <<"function">> => sema[2][x] = 0)
    BY <1>1 DEF Let, NotLibrary, NotParameter
  <2>2. CASE ~Known(y) \/ Top(sema)[x] # 0
    BY <2>1, <2>2 DEF DeclareVar, Reject, GccAccepts
  <2>3. CASE ~(~Known(y) \/ Top(sema)[x] # 0)
    <3>1. Top(c)[x] = 0
      BY <2>1, <2>3, TopFree
    <3>2. verdict' = IF Top(c)[x] # 0 THEN "gcc error" ELSE verdict
      BY <2>1, <2>3 DEF DeclareVar
    <3>3. QED
      BY <3>1, <3>2 DEF GccAccepts
  <2>4. QED
    BY <2>2, <2>3
<1>2. ASSUME NEW x \in Names, NEW y \in Names \cup {None}, Assign(x, y) \/ ChangeInPlace(x, y)
      PROVE  GccAccepts'
  BY <1>2 DEF ChangeInPlace, Assign, Reject, GccAccepts
<1>3. ASSUME NEW x \in Names, NEW y \in Names \cup {None}, For(x, y) PROVE GccAccepts'
  <2> DEFINE s == Append(sema, NoScope)
             t == Append(c, NoScope)
  <2>1. DeclareVar(s, t, x, y, FALSE, <<NoScope>>)
    BY <1>3 DEF For
  <2>2. Top(t)[x] = 0
    <3>1. c \in Seq([Names -> Decl \cup {Lib}])
      BY MatchedParts DEF IInv
    <3>2. Len(t) = Len(c) + 1 /\ t[Len(c) + 1] = NoScope
      BY <3>1, AppendIs, NoScopeType
    <3>3. Top(t) = NoScope
      BY <3>2 DEF Top
    <3>4. QED
      BY <3>3, NoScopeType
  <2> HIDE DEF s, t
  <2>3. QED
    BY <2>1, <2>2 DEF DeclareVar, Reject, GccAccepts
<1>4. ASSUME NEW x \in Names, NEW y \in Names, Foreach(x, y) PROVE GccAccepts'
  BY <1>4 DEF Foreach, Reject, GccAccepts
<1>5. ASSUME NEW y \in Names \cup {None}, Block(y) PROVE GccAccepts'
  BY <1>5 DEF Block, Reject, GccAccepts
<1>6. ASSUME NEW p \in Names \cup {None}, NEW q \in Names \cup {None}, Function(p, q) PROVE GccAccepts'
  <2>1. ~(p = q /\ p # None) /\ verdict' = IF p = q /\ p # None THEN "gcc error" ELSE verdict
    BY <1>6 DEF Function
  <2>2. QED
    BY <2>1 DEF GccAccepts
<1>7. ASSUME NEW f \in Library, CallLibrary(f) PROVE GccAccepts'
  BY <1>7 DEF CallLibrary, GccAccepts
<1>8. ASSUME NEW z \in Names, CloseFor(z) PROVE GccAccepts'
  BY <1>8 DEF CloseFor, Reject, GccAccepts
<1>9. ASSUME Close PROVE GccAccepts'
  BY <1>9 DEF Close, GccAccepts
<1>10. ASSUME UNCHANGED vars PROVE GccAccepts'
  BY <1>10 DEF vars, GccAccepts
<1>11. QED
  BY <1>1, <1>2, <1>3, <1>4, <1>5, <1>6, <1>7, <1>8, <1>9, <1>10 DEF Next

(* In a program that keeps the names of C and of its parameters to         *)
(* themselves, gcc refuses no second declaration: whatever sema's          *)
(* scope_add lets through is a new name in its C scope as well.            *)
THEOREM NothingRefused ==
  ASSUME {"library", "parameter"} \subseteq Rules
  PROVE  Spec => []GccAccepts
<1>1. Init => GccAccepts
  BY DEF Init, GccAccepts
<1>2. QED
  BY <1>1, Invariant, VerdictNext, PTL DEF Spec

-------------------------------------------------------------------------------
(* The same declaration for sema and for gcc *)

(* No scope of s has a name of the library.                                *)
WithoutLibrary(s) == \A i \in 1 .. Len(s), f \in Library : s[i][f] = 0

LEMMA WithoutLibraryAppend ==
  ASSUME NEW S, NEW s \in Seq([Names -> S]), NEW e \in [Names -> S],
         WithoutLibrary(s), \A f \in Library : e[f] = 0
  PROVE  WithoutLibrary(Append(s, e))
<1> DEFINE u == Append(s, e)
<1>1. /\ Len(u) = Len(s) + 1 /\ Len(s) \in Nat
      /\ (\A i \in 1 .. Len(s) : u[i] = s[i]) /\ u[Len(s) + 1] = e
  BY AppendIs
<1> SUFFICES WithoutLibrary(u)
  OBVIOUS
<1> HIDE DEF u
<1>2. \A i \in 1 .. Len(u) : i \in 1 .. Len(s) \/ i = Len(s) + 1
  BY <1>1
<1>3. QED
  BY <1>1, <1>2 DEF WithoutLibrary

LEMMA WithoutLibraryDeclare ==
  ASSUME NEW S, NEW s \in Seq([Names -> S]), s # <<>>, NEW x \in Names, x \notin Library,
         NEW d \in S, WithoutLibrary(s)
  PROVE  WithoutLibrary(Declare(s, x, d))
<1> DEFINE u == Declare(s, x, d)
<1>1. Len(u) = Len(s) /\ Redeclared(u, s, Len(s), x, d) /\ Len(s) \in Nat
  <2>1. Len(u) = Len(s) /\ Redeclared(u, s, Len(s), x, d)
    BY DeclareIs
  <2>2. QED
    BY <2>1, LenProperties
<1> SUFFICES WithoutLibrary(u)
  OBVIOUS
<1> HIDE DEF u
<1>2. SUFFICES ASSUME NEW i \in 1 .. Len(s), NEW f \in Library PROVE u[i][f] = 0
  BY <1>1 DEF WithoutLibrary
<1>3. s[i][f] = 0 /\ f \in Names /\ f # x
  BY ScopesAssumption DEF WithoutLibrary
<1>4. CASE i \in 1 .. Len(s) - 1
  BY <1>1, <1>3, <1>4 DEF Redeclared
<1>5. CASE i = Len(s)
  BY <1>1, <1>3, <1>5 DEF Redeclared
<1>6. QED
  BY <1>1, <1>4, <1>5

LEMMA WithoutLibraryPop ==
  ASSUME NEW S, NEW s \in Seq(S), NEW n \in Nat, n <= Len(s), WithoutLibrary(s)
  PROVE  WithoutLibrary(Pop(s, n))
<1> DEFINE u == Pop(s, n)
<1>1. Len(u) = Len(s) - n /\ (\A i \in 1 .. Len(s) - n : u[i] = s[i]) /\ Len(s) \in Nat
  BY PopIs, LenProperties
<1> SUFFICES WithoutLibrary(u)
  OBVIOUS
<1> HIDE DEF u
<1>2. \A i \in 1 .. Len(s) - n : i \in 1 .. Len(s)
  BY <1>1
<1>3. QED
  BY <1>1, <1>2 DEF WithoutLibrary

(* What a name finds, a declaration of another name leaves.                *)
LEMMA LookupOther ==
  ASSUME NEW S, NEW t \in Seq([Names -> S]), t # <<>>, NEW x \in Names, NEW d \in S,
         NEW y \in Names, y # x
  PROVE  Lookup(Declare(t, x, d), y) = Lookup(t, y)
<1> DEFINE u == Declare(t, x, d)
<1>1. Len(u) = Len(t) /\ Redeclared(u, t, Len(t), x, d) /\ Len(t) \in Nat
  <2>1. Len(u) = Len(t) /\ Redeclared(u, t, Len(t), x, d)
    BY DeclareIs
  <2>2. QED
    BY <2>1, LenProperties
<1> SUFFICES Lookup(u, y) = Lookup(t, y)
  OBVIOUS
<1> HIDE DEF u
<1>2. SUFFICES ASSUME NEW i \in 1 .. Len(t) PROVE u[i][y] = t[i][y]
  BY <1>1, LookupSame
<1>3. CASE i \in 1 .. Len(t) - 1
  BY <1>1, <1>3 DEF Redeclared
<1>4. CASE i = Len(t)
  BY <1>1, <1>4 DEF Redeclared
<1>5. QED
  BY <1>1, <1>3, <1>4

LEMMA WithoutNone ==
  ASSUME IInv, WithoutLibrary(sema)
  PROVE  /\ sema \in Seq([Names -> Decl]) /\ Len(sema) \in Nat
         /\ WithoutLibrary(Append(sema, NoScope))
         /\ Append(sema, NoScope) \in Seq([Names -> Decl])
<1>1. sema \in Seq([Names -> Decl]) /\ Len(sema) \in Nat
  BY MatchedParts DEF IInv
<1>2. \A f \in Library : NoScope[f] = 0
  BY ScopesAssumption, NoScopeType
<1>3. WithoutLibrary(Append(sema, NoScope))
  BY <1>1, <1>2, NoScopeType, WithoutLibraryAppend
<1>4. QED
  BY <1>1, <1>3, NoScopeType, AppendIs

(* A call of the library finds it.                                         *)
LEMMA LibraryFound ==
  ASSUME IInv, WithoutLibrary(sema), NEW f \in Library
  PROVE  Lookup(c, f) = Lib
<1>1. /\ Len(sema) \in Nat /\ Len(c) \in Nat /\ Merged(sema, c, Len(sema), Len(c)) /\ f \in Names
      /\ Len(sema) >= 1 /\ Len(c) >= 1
  BY ScopesAssumption, MatchedParts DEF IInv, Matched
<1>2. \A i \in 1 .. Len(sema) : sema[i][f] = 0
  BY DEF WithoutLibrary
<1>3. \A m, n \in Nat :
        Merged(sema, c, m, n) /\ (\A i \in 1 .. m : sema[i][f] = 0)
        => c[1][f] = Lib /\ \A i \in 2 .. n : c[i][f] = 0
  <2>1. SUFFICES ASSUME NEW m \in Nat, NEW n \in Nat, Merged(sema, c, m, n),
                        \A i \in 1 .. m : sema[i][f] = 0
                 PROVE  c[1][f] = Lib /\ \A i \in 2 .. n : c[i][f] = 0
    OBVIOUS
  <2>2. c[1][f] = Lib
    <3>1. sema[1][f] = 0
      BY <2>1 DEF Merged
    <3>2. QED
      BY <1>1, <2>1, <3>1 DEF Merged
  <2>3. ASSUME NEW i \in 2 .. n PROVE c[i][f] = 0
    <3>1. m >= 3 /\ n = m - 1
      BY <2>1 DEF Merged
    <3>2. CASE i = 2
      <4>1. sema[3][f] = 0 /\ sema[2][f] = 0
        BY <2>1, <3>1
      <4>2. QED
        BY <1>1, <2>1, <3>1, <3>2, <4>1 DEF Merged
    <3>3. CASE i > 2
      <4>1. i + 1 \in 4 .. m /\ i + 1 - 1 = i /\ i + 1 \in 1 .. m
        BY <3>1, <3>3
      <4>2. c[i] = sema[i + 1]
        <5>1. c[i + 1 - 1] = sema[i + 1]
          BY <2>1, <4>1 DEF Merged
        <5>2. QED
          BY <4>1, <5>1
      <4>3. QED
        BY <2>1, <4>1, <4>2
    <3>4. QED
      BY <3>2, <3>3
  <2>4. QED
    BY <2>2, <2>3
<1>4. c[1][f] = Lib /\ \A i \in 2 .. Len(c) : c[i][f] = 0
  BY <1>1, <1>2, <1>3
<1>5. Lib # 0 /\ 1 \in 1 .. Len(c)
  BY <1>1 DEF Lib
<1>6. Innermost(c, f, 1)
  <2>1. 1 + 1 = 2
    OBVIOUS
  <2>2. QED
    BY <1>4, <1>5, <2>1 DEF Innermost
<1>7. QED
  BY <1>1, <1>4, <1>6, LookupInnermost

LEMMA NothingBound == bindings' = {} => SameBinding'
BY DEF SameBinding

LEMMA DeclareVarSame ==
  ASSUME IInv, WithoutLibrary(sema), NEW s, NEW t, Matched(s, t), WithoutLibrary(s),
         NEW x \in Names, x \notin Library, NEW y \in Names \cup {None}, y # x,
         y # None => Lookup(t, y) = Lookup(c, y),
         NEW isFixed \in BOOLEAN, NEW body \in {<<>>, <<NoScope>>},
         DeclareVar(s, t, x, y, isFixed, body)
  PROVE  SameBinding' /\ WithoutLibrary(sema')
<1> DEFINE d == decls + 1
           u == Declare(s, x, d)
           w == Declare(t, x, d)
<1>1. CASE ~Known(y) \/ Top(s)[x] # 0
  BY <1>1, NothingBound DEF DeclareVar, Reject
<1>2. CASE ~(~Known(y) \/ Top(s)[x] # 0)
  <2>1. sema' = u \o body /\ bindings' = Binding(w, y) /\ decls < MaxDecls
    BY <1>2 DEF DeclareVar
  <2>2. d \in Decl /\ d # 0 /\ d \in Decl \cup {Lib}
    BY <2>1, Numbers DEF IInv
  <2>3. /\ s \in Seq([Names -> Decl]) /\ s # <<>>
        /\ t \in Seq([Names -> Decl \cup {Lib}]) /\ t # <<>>
    BY MatchedParts
  <2>4. WithoutLibrary(u) /\ u \in Seq([Names -> Decl])
    <3>1. u \in Seq([Names -> Decl])
      BY <2>2, <2>3, DeclareIs
    <3>2. WithoutLibrary(u)
      BY <2>2, <2>3, WithoutLibraryDeclare
    <3>3. QED
      BY <3>1, <3>2
  <2>5. y # None => Lookup(w, y) = Lookup(c, y)
    <3>1. SUFFICES ASSUME y # None PROVE Lookup(w, y) = Lookup(t, y)
      OBVIOUS
    <3>2. y \in Names
      BY <3>1
    <3> HIDE DEF d
    <3>3. QED
      BY <2>2, <2>3, <3>2, LookupOther
  <2>6. SameBinding'
    <3>1. y # None => Lookup(w, y) \in Decl \cup {Lib}
      BY <2>5, FindType
    <3> HIDE DEF w
    <3>2. \A b \in Binding(w, y) : b[1] = b[2]
      BY <1>2, <2>5, <3>1, BindingIs
    <3>3. QED
      BY <2>1, <3>2 DEF SameBinding
  <2>7. WithoutLibrary(sema')
    <3> HIDE DEF u
    <3>1. CASE body = <<>>
      <4>1. u \o <<>> = u
        BY <2>4
      <4>2. QED
        BY <2>1, <2>4, <3>1, <4>1
    <3>2. CASE body = <<NoScope>>
      <4>1. u \o <<NoScope>> = Append(u, NoScope)
        BY <2>4, NoScopeType, AppendByConcat
      <4>2. \A f \in Library : NoScope[f] = 0
        BY ScopesAssumption, NoScopeType
      <4>3. WithoutLibrary(Append(u, NoScope))
        BY <2>4, <4>2, NoScopeType, WithoutLibraryAppend
      <4>4. QED
        BY <2>1, <3>2, <4>1, <4>3
    <3>3. QED
      BY <3>1, <3>2
  <2>8. QED
    BY <2>6, <2>7
<1>3. QED
  BY <1>1, <1>2

LEMMA AssignSame ==
  ASSUME IInv, WithoutLibrary(sema), NEW x \in Names, NEW y \in Names \cup {None}, Assign(x, y)
  PROVE  SameBinding' /\ WithoutLibrary(sema')
<1>1. CASE SemaFind(x) = 0 \/ SemaFind(x) \in fixed \/ ~Known(y)
  BY <1>1, NothingBound DEF Assign, Reject
<1>2. CASE ~(SemaFind(x) = 0 \/ SemaFind(x) \in fixed \/ ~Known(y))
  <2>1. bindings' = Binding(c, x) \cup Binding(c, y) /\ sema' = sema
    BY <1>2 DEF Assign
  <2>2. Known(x) /\ Known(y)
    BY <1>2 DEF Known
  <2>3. \A b \in Binding(c, x) \cup Binding(c, y) : b[1] = b[2]
    BY <2>2, FindType, BindingIs
  <2>4. QED
    BY <2>1, <2>3 DEF SameBinding
<1>3. QED
  BY <1>1, <1>2

LEMMA ForSame ==
  ASSUME IInv, WithoutLibrary(sema), {"library", "self"} \subseteq Rules,
         NEW x \in Names, NEW y \in Names \cup {None}, For(x, y)
  PROVE  SameBinding' /\ WithoutLibrary(sema')
<1> DEFINE s == Append(sema, NoScope)
           t == Append(c, NoScope)
<1>1. x \notin Library /\ x # y /\ InFunction /\ DeclareVar(s, t, x, y, FALSE, <<NoScope>>)
  BY DEF For, NotLibrary, NotSelf
<1>2. Matched(s, t)
  BY <1>1, InFunctionDepth, MatchedPush DEF IInv
<1>3. WithoutLibrary(s)
  BY WithoutNone
<1>4. y # None => Lookup(t, y) = Lookup(c, y)
  <2>1. c \in Seq([Names -> Decl \cup {Lib}])
    BY MatchedParts DEF IInv
  <2>2. QED
    BY <2>1, NoScopeType, LookupPush
<1> HIDE DEF s, t
<1>5. FALSE \in BOOLEAN
  OBVIOUS
<1>6. QED
  BY <1>1, <1>2, <1>3, <1>4, <1>5, ScopesTypes, DeclareVarSame

LEMMA ForeachSame ==
  ASSUME IInv, WithoutLibrary(sema), "library" \in Rules, NEW x \in Names, NEW y \in Names, Foreach(x, y)
  PROVE  SameBinding' /\ WithoutLibrary(sema')
<1>1. CASE ~Known(y)
  BY <1>1, NothingBound DEF Foreach, Reject
<1>2. CASE Known(y)
  <2> DEFINE d == decls + 1
             s1 == Append(sema, NoScope)
             s2 == Append(s1, NoScope)
             s3 == Append(s2, NoScope)
  <2>1. /\ bindings' = Binding(c, y) /\ decls < MaxDecls /\ x \notin Library
        /\ sema' = Declare(sema \o <<NoScope, NoScope, NoScope>>, x, d)
    BY <1>2 DEF Foreach, NotLibrary
  <2>2. \A f \in Library : NoScope[f] = 0
    BY ScopesAssumption, NoScopeType
  <2>3. sema \in Seq([Names -> Decl]) /\ WithoutLibrary(s1) /\ s1 \in Seq([Names -> Decl])
    BY WithoutNone
  <2>4. sema \o <<NoScope, NoScope, NoScope>> = s3
    BY <2>3, NoScopeType, AppendByConcat
  <2>5. WithoutLibrary(s2) /\ s2 \in Seq([Names -> Decl])
    <3> HIDE DEF s1
    <3>1. QED
      BY <2>2, <2>3, NoScopeType, WithoutLibraryAppend, AppendIs
  <2>6. WithoutLibrary(s3) /\ s3 \in Seq([Names -> Decl]) /\ s3 # <<>>
    <3> HIDE DEF s2
    <3>1. WithoutLibrary(s3) /\ s3 \in Seq([Names -> Decl])
      BY <2>2, <2>5, NoScopeType, WithoutLibraryAppend, AppendIs
    <3>2. s3 # <<>>
      BY <2>5, NoScopeType, AppendProperties
    <3>3. QED
      BY <3>1, <3>2
  <2>7. d \in Decl
    BY <2>1, Numbers DEF IInv
  <2>8. WithoutLibrary(sema')
    <3> HIDE DEF s3, d
    <3>1. QED
      BY <2>1, <2>4, <2>6, <2>7, WithoutLibraryDeclare
  <2>9. SameBinding'
    <3>1. \A b \in Binding(c, y) : b[1] = b[2]
      BY <1>2, FindType, BindingIs
    <3>2. QED
      BY <2>1, <3>1 DEF SameBinding
  <2>10. QED
    BY <2>8, <2>9
<1>3. QED
  BY <1>1, <1>2

LEMMA FunctionSame ==
  ASSUME IInv, WithoutLibrary(sema), "library" \in Rules,
         NEW p \in Names \cup {None}, NEW q \in Names \cup {None}, Function(p, q)
  PROVE  SameBinding' /\ WithoutLibrary(sema')
<1> DEFINE params == [x \in Names |-> IF x = p THEN decls + 1 ELSE IF x = q THEN decls + 2 ELSE 0]
<1>1. /\ sema' = sema \o <<params, NoScope>> /\ bindings' = {}
      /\ p \notin Library /\ q \notin Library
  BY DEF Function, NotLibrary
<1>2. decls \in Nat /\ sema \in Seq([Names -> Decl]) /\ Library \subseteq Names
  BY Numbers, MatchedParts, ScopesAssumption DEF IInv
<1>3. params \in [Names -> Nat] /\ \A f \in Library : params[f] = 0
  BY <1>1, <1>2
<1>4. sema \in Seq([Names -> Nat]) /\ NoScope \in [Names -> Nat] /\ \A f \in Library : NoScope[f] = 0
  <2>1. Decl \subseteq Nat
    BY Numbers
  <2>2. [Names -> Decl] \subseteq [Names -> Nat]
    BY <2>1
  <2>3. \A S, T : S \subseteq T => Seq(S) \subseteq Seq(T)
    OBVIOUS
  <2>4. sema \in Seq([Names -> Nat])
    BY <1>2, <2>2, <2>3
  <2>5. QED
    BY <1>2, <2>2, <2>4, NoScopeType
<1> DEFINE r == Append(sema, params)
<1>5. WithoutLibrary(r) /\ r \in Seq([Names -> Nat])
  <2> HIDE DEF params
  <2>1. QED
    BY <1>3, <1>4, WithoutLibraryAppend, AppendIs
<1>6. WithoutLibrary(Append(r, NoScope))
  <2> HIDE DEF r
  <2>1. QED
    BY <1>4, <1>5, WithoutLibraryAppend
<1>7. sema \o <<params, NoScope>> = Append(r, NoScope)
  <2> HIDE DEF params
  <2>1. QED
    BY <1>3, <1>4, AppendByConcat
<1>8. QED
  BY <1>1, <1>6, <1>7, NothingBound

LEMMA CloseForSame ==
  ASSUME IInv, WithoutLibrary(sema), NEW z \in Names, CloseFor(z)
  PROVE  SameBinding' /\ WithoutLibrary(sema')
<1> DEFINE found == Lookup(Pop(sema, 1), z)
<1>1. CASE found = 0 \/ found \in fixed
  BY <1>1, NothingBound DEF CloseFor, Reject
<1>2. CASE ~(found = 0 \/ found \in fixed)
  <2>1. /\ InFunction /\ Top(blocks) = "for" /\ target' = Lookup(Pop(c, 1), z)
        /\ bindings' = {<<found, target'>>} /\ sema' = Pop(sema, 2)
    BY <1>2 DEF CloseFor
  <2>2. Lookup(Pop(c, 1), z) = found
    BY <1>2, <2>1, CloseForFinds
  <2>3. SameBinding'
    BY <2>1, <2>2 DEF SameBinding
  <2>4. sema \in Seq([Names -> Decl]) /\ 2 <= Len(sema)
    <3>1. Len(sema) >= 3 /\ Len(sema) \in Nat /\ Matched(sema, c)
      BY <2>1, InFunctionDepth DEF IInv
    <3>2. QED
      BY <3>1, MatchedParts
  <2>5. WithoutLibrary(sema')
    BY <2>1, <2>4, WithoutLibraryPop
  <2>6. QED
    BY <2>3, <2>5
<1>3. QED
  BY <1>1, <1>2

LEMMA CloseSame ==
  ASSUME IInv, WithoutLibrary(sema), Close
  PROVE  SameBinding' /\ WithoutLibrary(sema')
<1>1. InFunction /\ bindings' = {} /\ \E n \in {1, 2, 3} : sema' = Pop(sema, n)
  BY DEF Close
<1>2. sema \in Seq([Names -> Decl]) /\ Len(sema) >= 3 /\ Len(sema) \in Nat
  BY <1>1, InFunctionDepth, MatchedParts DEF IInv
<1>3. \A n \in {1, 2, 3} : n \in Nat /\ n <= Len(sema)
  BY <1>2
<1>4. WithoutLibrary(sema')
  BY <1>1, <1>2, <1>3, WithoutLibraryPop
<1>5. QED
  BY <1>1, <1>4, NothingBound

LEMMA SameNext ==
  ASSUME IInv, WithoutLibrary(sema), SameBinding, {"library", "self"} \subseteq Rules, [Next]_vars
  PROVE  SameBinding' /\ WithoutLibrary(sema')
<1>2. ASSUME NEW x \in Names, NEW y \in Names \cup {None}, NEW isFixed \in BOOLEAN, Let(x, y, isFixed)
      PROVE  SameBinding' /\ WithoutLibrary(sema')
  <2>1. DeclareVar(sema, c, x, y, isFixed, <<>>) /\ x \notin Library /\ y # x /\ Matched(sema, c)
    BY <1>2 DEF Let, NotLibrary, NotSelf, IInv
  <2>2. QED
    BY <2>1, ScopesTypes, DeclareVarSame
<1>3. ASSUME NEW x \in Names, NEW y \in Names \cup {None}, Assign(x, y) \/ ChangeInPlace(x, y)
      PROVE  SameBinding' /\ WithoutLibrary(sema')
  BY <1>3, AssignSame DEF ChangeInPlace
<1>4. ASSUME NEW x \in Names, NEW y \in Names \cup {None}, For(x, y)
      PROVE  SameBinding' /\ WithoutLibrary(sema')
  BY <1>4, ForSame
<1>5. ASSUME NEW x \in Names, NEW y \in Names, Foreach(x, y)
      PROVE  SameBinding' /\ WithoutLibrary(sema')
  BY <1>5, ForeachSame
<1>6. ASSUME NEW y \in Names \cup {None}, Block(y) PROVE SameBinding' /\ WithoutLibrary(sema')
  <2>1. CASE ~Known(y)
    BY <1>6, <2>1, NothingBound DEF Block, Reject
  <2>2. CASE Known(y)
    <3>1. bindings' = Binding(c, y) /\ sema' = Append(sema, NoScope)
      BY <1>6, <2>2 DEF Block
    <3>2. \A b \in Binding(c, y) : b[1] = b[2]
      BY <2>2, FindType, BindingIs
    <3>3. QED
      BY <3>1, <3>2, WithoutNone DEF SameBinding
  <2>3. QED
    BY <2>1, <2>2
<1>7. ASSUME NEW p \in Names \cup {None}, NEW q \in Names \cup {None}, Function(p, q)
      PROVE  SameBinding' /\ WithoutLibrary(sema')
  BY <1>7, FunctionSame
<1>8. ASSUME NEW f \in Library, CallLibrary(f) PROVE SameBinding' /\ WithoutLibrary(sema')
  <2>1. bindings' = {<<Lib, Lookup(c, f)>>} /\ sema' = sema
    BY <1>8 DEF CallLibrary
  <2>2. Lookup(c, f) = Lib
    BY LibraryFound
  <2>3. QED
    BY <2>1, <2>2 DEF SameBinding
<1>9. ASSUME NEW z \in Names, CloseFor(z) PROVE SameBinding' /\ WithoutLibrary(sema')
  BY <1>9, CloseForSame
<1>10. ASSUME Close PROVE SameBinding' /\ WithoutLibrary(sema')
  BY <1>10, CloseSame
<1>11. ASSUME UNCHANGED vars PROVE SameBinding' /\ WithoutLibrary(sema')
  BY <1>11 DEF vars, SameBinding
<1>12. QED
  BY <1>2, <1>3, <1>4, <1>5, <1>6, <1>7, <1>8, <1>9, <1>10, <1>11 DEF Next

(* In a program that keeps the names of C to itself and uses no variable   *)
(* in its own initializer, every name means to gcc the declaration that    *)
(* sema_check resolved it to, and every call emit_expr makes of the        *)
(* library reaches it, however scopes are nested and names are hidden.     *)
THEOREM NamesMeanTheSame ==
  ASSUME {"library", "self"} \subseteq Rules
  PROVE  Spec => []SameBinding
<1>1. Init => SameBinding /\ WithoutLibrary(sema)
  <2>1. SUFFICES ASSUME Init PROVE SameBinding /\ WithoutLibrary(sema)
    OBVIOUS
  <2>2. sema = <<NoScope>> /\ bindings = {}
    BY <2>1 DEF Init
  <2>3. Len(sema) = 1 /\ sema[1] = NoScope
    BY <2>2
  <2>4. \A f \in Library : NoScope[f] = 0
    BY ScopesAssumption, NoScopeType
  <2>5. QED
    BY <2>2, <2>3, <2>4 DEF SameBinding, WithoutLibrary
<1>2. IInv /\ (SameBinding /\ WithoutLibrary(sema)) /\ [Next]_vars => (SameBinding /\ WithoutLibrary(sema))'
  BY SameNext DEF WithoutLibrary
<1>3. QED
  BY <1>1, <1>2, Invariant, PTL DEF Spec
===============================================================================
