--------------------------- MODULE EntriesProofs ----------------------------
(***************************************************************************)
(* Proofs about Mapping: what the controller reads in an entry of an       *)
(* annotation is what RuleBook says that its author means by it, for words *)
(* and paths of every length.                                              *)
(*                                                                         *)
(* strings.SplitN and the text of an entry are recursive.  What is proved  *)
(* of them by induction is proved of a set of numbers: it has 1, with each *)
(* number the next (Climb), because the numbers that it lacked would have  *)
(* a least one (Least).                                                    *)
(***************************************************************************)
EXTENDS Sources, SequenceTheorems, WellFoundedInduction, TLAPS

-----------------------------------------------------------------------------
(***************************************************************************)
(* Induction and recursion.                                                *)
(***************************************************************************)
(* Every set of numbers has a least one.  Proofs by induction are proofs   *)
(* that there is no least counterexample.                                  *)
LEMMA Least ==
    ASSUME NEW S \in SUBSET Nat, S # {}
    PROVE  \E m \in S : \A y \in S : m <= y
<1> DEFINE R == OpToRel(<, Nat)
<1>1. IsWellFoundedOn(R, Nat)
  BY NatLessThanWellFounded, Zenon
<1>2. \A x, y \in Nat : x < y => <<x, y>> \in R
  BY DEF OpToRel
<1> HIDE DEF R
<1>3. PICK m \in S : \A y \in S : ~(<<y, m>> \in R)
  BY <1>1, WFMin
<1>4. \A y \in S : ~(y < m)
  BY <1>2, <1>3, Zenon
<1> QED
  BY <1>4

(* Induction: a set with 1 and with the next of each has all up to n.      *)
LEMMA Climb ==
    ASSUME NEW n \in Nat, NEW S, 1 \in S, \A i \in 1 .. n - 1 : i \in S => i + 1 \in S
    PROVE  \A i \in 1 .. n : i \in S
<1> SUFFICES ASSUME NEW j \in 1 .. n, j \notin S
             PROVE  FALSE
  OBVIOUS
<1> DEFINE Left == {i \in 1 .. n : i \notin S}
<1>1. Left \in SUBSET Nat /\ Left # {}
  OBVIOUS
<1>2. PICK m \in Left : \A y \in Left : m <= y
  <2> HIDE DEF Left
  <2> QED
    BY <1>1, Least
<1>3. m \in 2 .. n
  BY <1>2
<1>4. m - 1 \in 1 .. n - 1 /\ m - 1 \in S /\ m - 1 + 1 = m
  BY <1>2, <1>3
<1> QED
  BY <1>2, <1>4

(* g is what comes of x when the steps of st are taken one by one.         *)
IsChain(g, n, X, x, st) ==
    /\ g \in [1 .. n -> X] /\ g[1] = x
    /\ \A i \in 2 .. n : g[i] = st[i][g[i - 1]]

(* A function on 1 .. n can be defined by such steps.                      *)
LEMMA Chain ==
    ASSUME NEW n \in Nat, n >= 1, NEW X, NEW x \in X, NEW st \in [2 .. n -> [X -> X]]
    PROVE  \E g : IsChain(g, n, X, x, st)
<1> DEFINE S == {k \in 1 .. n : \E g : IsChain(g, k, X, x, st)}
<1>1. 1 \in S
  <2>1. IsChain([i \in 1 .. 1 |-> x], 1, X, x, st)
    BY DEF IsChain
  <2> QED
    BY <2>1
<1>2. ASSUME NEW k \in 1 .. n - 1, k \in S
      PROVE  k + 1 \in S
  <2>1. PICK g : IsChain(g, k, X, x, st)
    BY <1>2
  <2> DEFINE h == [i \in 1 .. k + 1 |-> IF i = k + 1 THEN st[k + 1][g[k]] ELSE g[i]]
  <2>2. g \in [1 .. k -> X] /\ g[1] = x /\ \A i \in 2 .. k : g[i] = st[i][g[i - 1]]
    BY <2>1 DEF IsChain
  <2>3. k + 1 \in 2 .. n /\ st[k + 1] \in [X -> X] /\ g[k] \in X
    BY <2>2
  <2>4. st[k + 1][g[k]] \in X
    BY <2>3
  <2>5. h \in [1 .. k + 1 -> X]
    BY <2>2, <2>4
  <2>6. h[1] = x
    BY <2>2
  <2>7. ASSUME NEW i \in 2 .. k + 1
        PROVE  h[i] = st[i][h[i - 1]]
    <3>1. i - 1 \in 1 .. k /\ h[i - 1] = g[i - 1]
      OBVIOUS
    <3>2. CASE i = k + 1
      BY <3>1, <3>2
    <3>3. CASE i # k + 1
      BY <2>2, <3>1, <3>3
    <3> QED
      BY <3>2, <3>3
  <2>8. IsChain(h, k + 1, X, x, st)
    <3> HIDE DEF h
    <3> QED
      BY <2>5, <2>6, <2>7 DEF IsChain
  <2> QED
    BY <2>8
<1>3. \A i \in 1 .. n : i \in S
  <2> HIDE DEF S
  <2> QED
    BY <1>1, <1>2, Climb
<1>4. n \in S
  <2> HIDE DEF S
  <2> QED
    BY <1>3
<1> QED
  BY <1>4

-----------------------------------------------------------------------------
(***************************************************************************)
(* Texts that are cut at a separator.                                      *)
(***************************************************************************)
LEMMA MinIs ==
    ASSUME NEW S \in SUBSET Int, NEW m \in S, \A y \in S : m <= y
    PROVE  Min(S) = m
<1>1. \A x \in S : (\A y \in S : x <= y) => x = m
  OBVIOUS
<1> QED
  BY <1>1, Zenon DEF Min

(* u is what t has from place m on.                                        *)
IsRemnant(u, t, m, W) ==
    /\ u \in Seq(W) /\ Len(u) = Len(t) - m + 1
    /\ \A i \in 1 .. Len(t) - m + 1 : u[i] = t[m + i - 1]

(* What SubSeq leaves of a text from m on.                                 *)
LEMMA Suffix ==
    ASSUME NEW W, NEW t \in Seq(W), NEW m \in 1 .. Len(t) + 1
    PROVE  IsRemnant(SubSeq(t, m, Len(t)), t, m, W)
<1>1. \A i \in m .. Len(t) : t[i] \in W
  OBVIOUS
<1>2. Len(SubSeq(t, m, Len(t))) = Len(t) - m + 1
  BY <1>1, SubSeqProperties
<1>3. SubSeq(t, m, Len(t)) \in Seq(W)
  OBVIOUS
<1>4. ASSUME NEW i \in 1 .. Len(t) - m + 1
      PROVE  SubSeq(t, m, Len(t))[i] = t[m + i - 1]
  <2>1. PICK u : u = SubSeq(t, m, Len(t))
    OBVIOUS
  <2>2. u[i] = t[m + i - 1]
    BY <1>1, <2>1, SubSeqProperties
  <2> QED
    BY <2>1, <2>2
<1> QED
  BY <1>2, <1>3, <1>4 DEF IsRemnant

(* The text t is made of the pieces x and y with the separator c between.  *)
IsJoint(t, W, x, c, y) ==
    /\ t \in Seq(W) /\ Len(t) = Len(x) + 1 + Len(y)
    /\ \A i \in 1 .. Len(x) : t[i] = x[i]
    /\ t[Len(x) + 1] = c
    /\ SubSeq(t, 1, Len(x)) = x
    /\ SubSeq(t, Len(x) + 2, Len(t)) = y

(* The texts x and y with c between them, place by place.                  *)
LEMMA Joint ==
    ASSUME NEW W, NEW x \in Seq(W), NEW y \in Seq(W), NEW e \in Seq(W), Len(e) = 1
    PROVE  IsJoint(x \o (e \o y), W, x, e[1], y)
<1> PICK d, t : d = e \o y /\ t = x \o d
  OBVIOUS
<1>1. /\ d \in Seq(W) /\ Len(d) = 1 + Len(y) /\ d[1] = e[1]
      /\ \A i \in 1 .. Len(y) : d[i + 1] = y[i]
  <2>1. /\ e \o y \in Seq(W) /\ Len(e \o y) = Len(e) + Len(y)
        /\ \A i \in 1 .. Len(e) + Len(y) :
              (e \o y)[i] = IF i <= Len(e) THEN e[i] ELSE y[i - Len(e)]
    BY ConcatProperties
  <2>2. Len(y) \in Nat
    OBVIOUS
  <2>3. ASSUME NEW i \in 1 .. Len(y)
        PROVE  d[i + 1] = y[i]
    <3>1. i + 1 \in 1 .. 1 + Len(y) /\ ~(i + 1 <= 1) /\ i + 1 - 1 = i
      BY <2>2
    <3> QED
      BY <2>1, <3>1
  <2> QED
    BY <2>1, <2>2, <2>3
<1>2. /\ t \in Seq(W) /\ Len(t) = Len(x) + Len(d)
      /\ \A i \in 1 .. Len(x) + Len(d) : t[i] = IF i <= Len(x) THEN x[i] ELSE d[i - Len(x)]
  BY <1>1, ConcatProperties, ZenonT(60)
<1>3. /\ Len(x) \in Nat /\ Len(y) \in Nat /\ Len(t) = Len(x) + 1 + Len(y)
      /\ \A i \in 1 .. Len(t) : t[i] \in W
  BY <1>1, <1>2
<1>4. \A i \in 1 .. Len(x) : t[i] = x[i]
  BY <1>1, <1>2, <1>3
<1>5. t[Len(x) + 1] = e[1]
  BY <1>1, <1>2, <1>3
<1>6. ASSUME NEW i \in 1 .. Len(y)
      PROVE  t[Len(x) + 1 + i] = y[i]
  <2>1. t[Len(x) + 1 + i] = d[i + 1]
    BY <1>1, <1>2, <1>3
  <2> QED
    BY <1>1, <2>1
<1>7. SubSeq(t, 1, Len(x)) = x
  <2>1. PICK u : u = SubSeq(t, 1, Len(x))
    OBVIOUS
  <2>2. u \in Seq(W) /\ Len(u) = Len(x) /\ \A i \in 1 .. Len(x) : u[i] = t[i]
    BY <1>2, <1>3, <2>1
  <2>3. u = x
    BY <1>4, <2>2, SeqEqual
  <2> QED
    BY <2>1, <2>3
<1>8. SubSeq(t, Len(x) + 2, Len(t)) = y
  <2>1. PICK m \in 1 .. Len(t) + 1 : m = Len(x) + 2
    BY <1>3
  <2>2. IsRemnant(SubSeq(t, m, Len(t)), t, m, W)
    BY <1>2, Suffix
  <2>3. PICK u : u = SubSeq(t, m, Len(t))
    OBVIOUS
  <2>4. /\ u \in Seq(W) /\ Len(u) = Len(t) - m + 1
        /\ \A i \in 1 .. Len(t) - m + 1 : u[i] = t[m + i - 1]
    BY <2>2, <2>3 DEF IsRemnant
  <2>5. Len(u) = Len(y)
    BY <1>3, <2>1, <2>4
  <2>6. ASSUME NEW i \in 1 .. Len(y)
        PROVE  u[i] = y[i]
    <3>1. i \in 1 .. Len(t) - m + 1 /\ m + i - 1 = Len(x) + 1 + i
      BY <1>3, <2>1
    <3> QED
      BY <1>6, <2>4, <3>1
  <2>7. u = y
    BY <2>4, <2>5, <2>6, SeqEqual
  <2> QED
    BY <2>1, <2>3, <2>7
<1> QED
  BY <1>2, <1>3, <1>4, <1>5, <1>7, <1>8 DEF IsJoint

(* The text x is without c.                                                *)
Lacks(x, c) == \A i \in 1 .. Len(x) : x[i] # c

(* strings.SplitN(t, c, 2) cuts at the first c, if there is one.           *)
IsCut(h, W, x, y) == h \in Seq(Seq(W)) /\ Len(h) = 2 /\ h[1] = x /\ h[2] = y

(* A text is cut at the first separator: that after x, which has none.     *)
LEMMA HalvesCut ==
    ASSUME NEW W, NEW x \in Seq(W), NEW y \in Seq(W), NEW e \in Seq(W), Len(e) = 1,
           Lacks(x, e[1])
    PROVE  IsCut(Halves(x \o (e \o y), e[1]), W, x, y)
<1>1. PICK d, t : d = e \o y /\ t = x \o d
  OBVIOUS
<1>2. IsJoint(t, W, x, e[1], y)
  BY <1>1, Joint
<1>3. PICK c : c = e[1]
  OBVIOUS
<1>4. PICK k \in Nat \ {0} : k = Len(x) + 1
  OBVIOUS
<1>5. k \in 1 .. Len(t)
  BY <1>2, <1>4 DEF IsJoint
<1>6. t[k] = c
  BY <1>2, <1>3, <1>4 DEF IsJoint
<1>7. \A i \in 1 .. k - 1 : t[i] # c
  BY <1>2, <1>3, <1>4 DEF IsJoint, Lacks
<1>8. SubSeq(t, 1, k - 1) = x /\ SubSeq(t, k + 1, Len(t)) = y
  BY <1>2, <1>4 DEF IsJoint
<1> DEFINE I == {i \in 1 .. Len(t) : t[i] = c}
<1>9. k \in I /\ \A i \in I : k <= i
  BY <1>5, <1>6, <1>7
<1>10. Min(I) = k
  <2>1. I \in SUBSET Int
    OBVIOUS
  <2> HIDE DEF I
  <2> QED
    BY <1>9, <2>1, MinIs
<1>11. Halves(t, c) = <<SubSeq(t, 1, k - 1), SubSeq(t, k + 1, Len(t))>>
  BY <1>9, <1>10 DEF Halves, SelectInSeq
<1>12. Halves(t, c) = <<x, y>>
  BY <1>8, <1>11
<1>13. <<x, y>> \in Seq(Seq(W)) /\ Len(<<x, y>>) = 2 /\ <<x, y>>[1] = x /\ <<x, y>>[2] = y
  OBVIOUS
<1> QED
  BY <1>1, <1>3, <1>12, <1>13, Zenon DEF IsCut

IsWhole(h, W, t) == h \in Seq(Seq(W)) /\ Len(h) = 1 /\ h[1] = t

(* A text without a separator is not cut.                                  *)
LEMMA HalvesNone ==
    ASSUME NEW W, NEW t \in Seq(W), NEW c, Lacks(t, c)
    PROVE  IsWhole(Halves(t, c), W, t)
<1>1. Halves(t, c) = <<t>>
  BY DEF Halves, SelectInSeq, Lacks
<1>2. <<t>> \in Seq(Seq(W)) /\ Len(<<t>>) = 1 /\ <<t>>[1] = t
  OBVIOUS
<1> QED
  BY <1>1, <1>2, Zenon DEF IsWhole

(* The schema ends at the first separator, whichever that is.              *)
LEMMA SchemaCut ==
    ASSUME NEW W, NEW q \in Seq(W), NEW y \in Seq(W), NEW e \in Seq(W), Len(e) = 1,
           e[1] \in {"/", "|"}, \A i \in 1 .. Len(q) : q[i] \notin {"/", "|"}
    PROVE  SchemaEnd(q \o (e \o y)) = Len(q) + 1
<1>1. PICK d, t : d = e \o y /\ t = q \o d
  OBVIOUS
<1>2. IsJoint(t, W, q, e[1], y)
  BY <1>1, Joint
<1>3. PICK C : C = {"/", "|"}
  OBVIOUS
<1>4. PICK k \in Nat \ {0} : k = Len(q) + 1
  OBVIOUS
<1>5. k \in 1 .. Len(t)
  BY <1>2, <1>4 DEF IsJoint
<1>6. t[k] \in C
  BY <1>2, <1>3, <1>4 DEF IsJoint
<1>7. \A i \in 1 .. k - 1 : t[i] \notin C
  <2>1. \A i \in 1 .. Len(q) : t[i] = q[i]
    BY <1>2 DEF IsJoint
  <2> QED
    BY <1>3, <1>4, <2>1
<1> DEFINE I == {i \in 1 .. Len(t) : t[i] \in C}
<1>8. k \in I /\ \A i \in I : k <= i
  BY <1>5, <1>6, <1>7
<1>9. Min(I) = k
  <2>1. I \in SUBSET Int
    OBVIOUS
  <2> HIDE DEF I
  <2> QED
    BY <1>8, <2>1, MinIs
<1>10. SchemaEnd(t) = k
  BY <1>3, <1>8, <1>9 DEF SchemaEnd, SelectInSeq
<1> QED
  BY <1>1, <1>4, <1>10

(* Without a separator the schema has no end.                              *)
LEMMA SchemaUncut ==
    ASSUME NEW W, NEW q \in Seq(W), \A i \in 1 .. Len(q) : q[i] \notin {"/", "|"}
    PROVE  SchemaEnd(q) = 0
  BY DEF SchemaEnd, SelectInSeq

(* strings.TrimLeft(p, "/") is p without the slashes that it begins with,  *)
(* however many those are.                                                 *)
LEMMA Trimmed ==
    ASSUME NEW W, NEW p \in Seq(W)
    PROVE  TrimSlashes(p) = RB!Unslashed(p)
<1>1. PICK slash : slash = "/"
  OBVIOUS
<1> DEFINE I == {i \in 1 .. Len(p) : p[i] # slash}
           Good(n) == (\A k \in 1 .. n : p[k] = slash) /\ (n < Len(p) => p[n + 1] # slash)
<1>2. RB!Unslashed(p) = LET n == CHOOSE n \in 0 .. Len(p) : Good(n) IN SubSeq(p, n + 1, Len(p))
  BY <1>1 DEF RB!Unslashed
<1>3. ASSUME NEW n \in 0 .. Len(p), Good(n),
             \A k \in 0 .. Len(p) : Good(k) => k = n
      PROVE  RB!Unslashed(p) = SubSeq(p, n + 1, Len(p))
  <2>1. (CHOOSE k \in 0 .. Len(p) : Good(k)) = n
    <3> HIDE DEF Good
    <3> QED
      BY <1>3
  <2> HIDE DEF Good
  <2> QED
    BY <1>2, <2>1
<1>4. CASE I = {}
  <2>1. TrimSlashes(p) = <<>>
    BY <1>1, <1>4 DEF TrimSlashes, SelectInSeq
  <2>2. \A i \in 1 .. Len(p) : p[i] = slash
    BY <1>4
  <2>3. PICK n \in Nat : n = Len(p)
    OBVIOUS
  <2>4. Good(n) /\ \A k \in 0 .. Len(p) : Good(k) => k = n
    BY <2>2, <2>3
  <2>5. RB!Unslashed(p) = SubSeq(p, n + 1, Len(p))
    <3> HIDE DEF Good
    <3> QED
      BY <1>3, <2>3, <2>4
  <2>6. SubSeq(p, n + 1, Len(p)) = <<>>
    BY <2>3, SubSeqEmpty
  <2> QED
    BY <2>1, <2>5, <2>6
<1>5. CASE I # {}
  <2>1. I \in SUBSET Nat /\ I \in SUBSET Int
    OBVIOUS
  <2>2. PICK f \in I : \A y \in I : f <= y
    <3> HIDE DEF I
    <3> QED
      BY <1>5, <2>1, Least
  <2>3. Min(I) = f
    <3> HIDE DEF I
    <3> QED
      BY <2>1, <2>2, MinIs
  <2>4. f \in 1 .. Len(p) /\ p[f] # slash /\ \A i \in 1 .. f - 1 : p[i] = slash
    BY <2>2
  <2>5. TrimSlashes(p) = SubSeq(p, f, Len(p))
    <3>1. TrimSlashes(p) = LET k == IF I # {} THEN Min(I) ELSE 0
                           IN  IF k = 0 THEN <<>> ELSE SubSeq(p, k, Len(p))
      BY <1>1, Zenon DEF TrimSlashes, SelectInSeq
    <3> HIDE DEF I
    <3> QED
      BY <1>5, <2>3, <2>4, <3>1
  <2>6. PICK n \in 0 .. Len(p) : n + 1 = f
    BY <2>4
  <2>7. Good(n) /\ \A k \in 0 .. Len(p) : Good(k) => k = n
    <3>1. Good(n)
      BY <2>4, <2>6
    <3>2. ASSUME NEW k \in 0 .. Len(p), Good(k), k < n
          PROVE  FALSE
      BY <2>4, <2>6, <3>2
    <3>3. ASSUME NEW k \in 0 .. Len(p), Good(k), n < k
          PROVE  FALSE
      <4>1. f \in 1 .. k
        BY <2>4, <2>6, <3>3
      <4> QED
        BY <2>4, <3>3, <4>1
    <3> HIDE DEF Good
    <3> QED
      BY <3>1, <3>2, <3>3
  <2>8. RB!Unslashed(p) = SubSeq(p, n + 1, Len(p))
    <3> HIDE DEF Good
    <3> QED
      BY <1>3, <2>7
  <2> QED
    BY <2>5, <2>6, <2>8
<1> QED
  BY <1>4, <1>5

-----------------------------------------------------------------------------
(***************************************************************************)
(* Texts that are joined, and cut into the same pieces again.              *)
(***************************************************************************)
(* FlattenSeq puts the sequences of s behind each other.                   *)
IsSum(g, s, W) ==
    /\ g \in [1 .. Len(s) -> Seq(W)] /\ g[1] = s[1]
    /\ \A i \in 2 .. Len(s) : g[i] = g[i - 1] \o s[i]

(* FlattenSeq puts the texts of s together from the left.                  *)
LEMMA Flattened ==
    ASSUME NEW W, NEW s \in Seq(Seq(W)), Len(s) >= 1
    PROVE  \E g : IsSum(g, s, W) /\ FlattenSeq(s) = g[Len(s)]
<1>1. PICK n \in Nat : n = Len(s) /\ n >= 1
  OBVIOUS
<1> DEFINE st == [i \in 2 .. n |-> [x \in Seq(W) |-> x \o s[i]]]
<1>2. \A i \in 1 .. n : s[i] \in Seq(W)
  BY <1>1
<1>3. \A x \in Seq(W), y \in Seq(W) : x \o y \in Seq(W)
  BY ConcatProperties
<1>4. st \in [2 .. n -> [Seq(W) -> Seq(W)]]
  BY <1>2, <1>3
<1>5. s[1] \in Seq(W)
  BY <1>1, <1>2
<1>6. PICK g : IsChain(g, n, Seq(W), s[1], st)
  <2> HIDE DEF st
  <2> QED
    BY <1>1, <1>4, <1>5, Chain
<1>7. g \in [1 .. n -> Seq(W)] /\ g[1] = s[1] /\ \A i \in 2 .. n : g[i] = st[i][g[i - 1]]
  <2> HIDE DEF st
  <2> QED
    BY <1>6 DEF IsChain
<1>8. ASSUME NEW i \in 2 .. n
      PROVE  g[i] = g[i - 1] \o s[i]
  <2>1. g[i - 1] \in Seq(W)
    <3>1. i - 1 \in 1 .. n
      OBVIOUS
    <3> HIDE DEF st
    <3> QED
      BY <1>7, <3>1
  <2>2. \A x \in Seq(W) : st[i][x] = x \o s[i]
    BY Zenon
  <2>3. g[i] = st[i][g[i - 1]]
    BY <1>7, Zenon
  <2> HIDE DEF st
  <2> QED
    BY <2>1, <2>2, <2>3, Zenon
<1> HIDE DEF st
<1> DEFINE Sum(f, i) == IF i = 1 THEN s[i] ELSE f[i - 1] \o s[i]
           Sums(f)   == f = [i \in 1 .. Len(s) |-> Sum(f, i)]
<1>9. Sums(g)
  <2>1. ASSUME NEW i \in 1 .. n
        PROVE  g[i] = Sum(g, i)
    <3>1. CASE i = 1
      BY <1>7, <3>1, Zenon
    <3>2. CASE i # 1
      <4>1. i \in 2 .. n
        BY <3>2
      <4> QED
        BY <1>8, <3>2, <4>1, Zenon
    <3> QED
      BY <3>1, <3>2
  <2> HIDE DEF Sum
  <2> QED
    BY <1>1, <1>7, <2>1
<1>10. PICK f : f = CHOOSE h : Sums(h)
  OBVIOUS
<1>11. Sums(f)
  <2> HIDE DEF Sums
  <2> QED
    BY <1>9, <1>10
<1>12. FlattenSeq(s) = f[n]
  <2>1. Len(s) # 0
    BY <1>1
  <2>2. FlattenSeq(s) = f[Len(s)]
    BY <1>10, <2>1, Zenon DEF FlattenSeq
  <2> QED
    BY <1>1, <2>2
<1>13. \A i \in 1 .. n : f[i] = Sum(f, i)
  <2> HIDE DEF Sum
  <2> QED
    BY <1>1, <1>11
<1> DEFINE S == {i \in 1 .. n : f[i] = g[i]}
<1>14. 1 \in S
  <2>1. 1 \in 1 .. n
    BY <1>1
  <2> QED
    BY <1>7, <1>13, <2>1, Zenon
<1>15. ASSUME NEW i \in 1 .. n - 1, i \in S
       PROVE  i + 1 \in S
  <2>1. PICK j \in 2 .. n : j = i + 1 /\ j # 1 /\ j - 1 = i /\ j \in 1 .. n
    OBVIOUS
  <2>2. f[i] = g[i]
    BY <1>15, Zenon
  <2>3. f[j] = f[j - 1] \o s[j]
    BY <1>13, <2>1, Zenon
  <2>4. g[j] = g[j - 1] \o s[j]
    BY <1>8, Zenon
  <2>5. f[j] = g[j]
    BY <2>1, <2>2, <2>3, <2>4, Zenon
  <2> QED
    BY <2>1, <2>5, Zenon
<1>16. \A i \in 1 .. n : i \in S
  <2> HIDE DEF S
  <2> QED
    BY <1>14, <1>15, Climb
<1>17. f[n] = g[n]
  BY <1>1, <1>16
<1> QED
  BY <1>1, <1>7, <1>8, <1>12, <1>17 DEF IsSum

(* G has what is left of the joined texts of ws from each of them on.      *)
IsRest(G, ws, e, W) ==
    /\ G \in [1 .. Len(ws) -> Seq(W)] /\ G[Len(ws)] = ws[Len(ws)]
    /\ \A i \in 1 .. Len(ws) - 1 : G[i] = ws[i] \o (e \o G[i + 1])

(* There is such a G.                                                      *)
LEMMA Rest ==
    ASSUME NEW W, NEW ws \in Seq(Seq(W)), Len(ws) >= 1, NEW e \in Seq(W)
    PROVE  \E G : IsRest(G, ws, e, W)
<1>1. PICK n \in Nat : n = Len(ws) /\ n >= 1
  OBVIOUS
<1> DEFINE st == [i \in 2 .. n |-> [x \in Seq(W) |-> ws[n + 1 - i] \o (e \o x)]]
<1>2. \A i \in 1 .. n : ws[i] \in Seq(W)
  BY <1>1
<1>3. \A x \in Seq(W), y \in Seq(W) : x \o y \in Seq(W)
  BY ConcatProperties
<1>4. st \in [2 .. n -> [Seq(W) -> Seq(W)]]
  <2>1. \A i \in 2 .. n : n + 1 - i \in 1 .. n
    OBVIOUS
  <2>2. \A i \in 2 .. n : ws[n + 1 - i] \in Seq(W)
    BY <1>2, <2>1
  <2>3. \A i \in 2 .. n : \A x \in Seq(W) : ws[n + 1 - i] \o (e \o x) \in Seq(W)
    BY <1>3, <2>2, Zenon
  <2> QED
    BY <2>3
<1>5. ws[n] \in Seq(W)
  BY <1>1, <1>2
<1>6. PICK g : IsChain(g, n, Seq(W), ws[n], st)
  <2> HIDE DEF st
  <2> QED
    BY <1>1, <1>4, <1>5, Chain
<1>7. g \in [1 .. n -> Seq(W)] /\ g[1] = ws[n] /\ \A i \in 2 .. n : g[i] = st[i][g[i - 1]]
  <2> HIDE DEF st
  <2> QED
    BY <1>6 DEF IsChain
<1> DEFINE G == [i \in 1 .. n |-> g[n + 1 - i]]
<1>8. G \in [1 .. n -> Seq(W)] /\ G[n] = ws[n]
  <2>1. \A i \in 1 .. n : n + 1 - i \in 1 .. n
    OBVIOUS
  <2>2. n \in 1 .. n /\ n + 1 - n = 1
    BY <1>1
  <2> HIDE DEF st
  <2> QED
    BY <1>7, <2>1, <2>2
<1>9. ASSUME NEW i \in 1 .. n - 1
      PROVE  G[i] = ws[i] \o (e \o G[i + 1])
  <2>1. PICK j \in 2 .. n : j = n + 1 - i
    OBVIOUS
  <2>2. /\ i = n + 1 - j /\ j - 1 = n + 1 - (i + 1) /\ j - 1 \in 1 .. n
        /\ i \in 1 .. n /\ i + 1 \in 1 .. n
    BY <2>1
  <2>3. G[i] = g[j] /\ G[i + 1] = g[j - 1]
    <3> HIDE DEF st
    <3> QED
      BY <2>1, <2>2
  <2>4. \A x \in Seq(W) : st[j][x] = ws[n + 1 - j] \o (e \o x)
    BY Zenon
  <2>5. g[j - 1] \in Seq(W)
    <3> HIDE DEF st
    <3> QED
      BY <1>7, <2>2
  <2>6. g[j] = st[j][g[j - 1]]
    BY <1>7, Zenon
  <2> HIDE DEF st, G
  <2>7. g[j] = ws[n + 1 - j] \o (e \o g[j - 1])
    BY <2>4, <2>5, <2>6, Zenon
  <2>8. ws[i] = ws[n + 1 - j]
    BY <2>2, Zenon
  <2> QED
    BY <2>3, <2>7, <2>8, Zenon
<1>10. IsRest(G, ws, e, W)
  <2> HIDE DEF st, G
  <2>1. \A i \in 1 .. n - 1 : G[i] = ws[i] \o (e \o G[i + 1])
    BY <1>9, Zenon
  <2>2. /\ G \in [1 .. Len(ws) -> Seq(W)] /\ G[Len(ws)] = ws[Len(ws)]
        /\ \A i \in 1 .. Len(ws) - 1 : G[i] = ws[i] \o (e \o G[i + 1])
    BY <1>1, <1>8, <2>1, Zenon
  <2> QED
    BY <2>2, Zenon DEF IsRest
<1> QED
  BY <1>10, Zenon

(* F has the joined texts of ws up to each of them.                        *)
IsJoin(F, ws, e, W) ==
    /\ F \in [1 .. Len(ws) -> Seq(W)] /\ F[1] = ws[1]
    /\ \A i \in 2 .. Len(ws) : F[i] = F[i - 1] \o (e \o ws[i])

Regroups(a, b, c, d) == a \o (b \o (c \o d)) = (a \o (b \o c)) \o d

(* Texts may be put together from either side.                             *)
LEMMA Regroup ==
    ASSUME NEW W, NEW a \in Seq(W), NEW b \in Seq(W), NEW c \in Seq(W), NEW d \in Seq(W)
    PROVE  Regroups(a, b, c, d)
<1>1. PICK bc \in Seq(W) : bc = b \o c
  BY ConcatProperties
<1> DEFINE Associate(s, t, u) == (s \o t) \o u = s \o (t \o u)
<1>2. \A s, t, u \in Seq(W) : Associate(s, t, u)
  BY SMTT(60)
<1>3. Associate(a, bc, d) /\ Associate(b, c, d)
  <2> HIDE DEF Associate
  <2> QED
    BY <1>2, Zenon
<1> QED
  BY <1>1, <1>3, Zenon DEF Regroups

(* Joined from the left or from the right, the text is the same.           *)
LEMMA JoinIsRest ==
    ASSUME NEW W, NEW ws \in Seq(Seq(W)), Len(ws) >= 1, NEW e \in Seq(W),
           NEW F, IsJoin(F, ws, e, W), NEW G, IsRest(G, ws, e, W)
    PROVE  F[Len(ws)] = G[1]
<1>1. PICK n \in Nat : n = Len(ws) /\ n >= 1
  OBVIOUS
<1>2. /\ F \in [1 .. n -> Seq(W)] /\ F[1] = ws[1]
      /\ \A i \in 2 .. n : F[i] = F[i - 1] \o (e \o ws[i])
  BY <1>1, Zenon DEF IsJoin
<1>3. /\ G \in [1 .. n -> Seq(W)] /\ G[n] = ws[n]
      /\ \A i \in 1 .. n - 1 : G[i] = ws[i] \o (e \o G[i + 1])
  BY <1>1, Zenon DEF IsRest
<1>4. \A i \in 1 .. n : ws[i] \in Seq(W)
  BY <1>1
<1> DEFINE Upto(i) == IF i = n THEN G[1] = F[i] ELSE G[1] = F[i] \o (e \o G[i + 1])
           S == {i \in 1 .. n : Upto(i)}
<1>5. 1 \in S
  <2>1. 1 \in 1 .. n
    BY <1>1
  <2>2. CASE n = 1
    BY <1>2, <1>3, <2>1, <2>2, Zenon
  <2>3. CASE n # 1
    <3>1. 1 \in 1 .. n - 1
      BY <2>1, <2>3
    <3>2. G[1] = ws[1] \o (e \o G[1 + 1])
      BY <1>3, <3>1, Zenon
    <3> QED
      BY <1>2, <2>1, <2>3, <3>2, Zenon
  <2> QED
    BY <2>2, <2>3
<1>6. ASSUME NEW i \in 1 .. n - 1, i \in S
      PROVE  i + 1 \in S
  <2>1. PICK j \in 2 .. n : j = i + 1 /\ j - 1 = i /\ i # n /\ j \in 1 .. n /\ i \in 1 .. n
    OBVIOUS
  <2>2. G[1] = F[i] \o (e \o G[j])
    BY <1>6, <2>1, Zenon
  <2>3. F[j] = F[i] \o (e \o ws[j])
    BY <1>2, <2>1, Zenon
  <2>4. CASE j = n
    <3>1. G[1] = F[j]
      BY <1>3, <2>2, <2>3, <2>4, Zenon
    <3> QED
      BY <2>1, <2>4, <3>1, Zenon
  <2>5. CASE j # n
    <3>1. PICK k \in 1 .. n : k = j + 1 /\ j \in 1 .. n - 1
      BY <2>5
    <3>2. G[j] = ws[j] \o (e \o G[k])
      BY <1>3, <3>1, Zenon
    <3>3. PICK d \in Seq(W) : d = e \o G[k]
      <4>1. G[k] \in Seq(W)
        BY <1>3
      <4> QED
        BY <4>1, ConcatProperties
    <3>4. PICK a \in Seq(W), b \in Seq(W) : a = F[i] /\ b = ws[j]
      BY <1>2, <1>4, <2>1
    <3>5. Regroups(a, e, b, d)
      BY Regroup
    <3>6. G[1] = F[j] \o (e \o G[k])
      BY <2>2, <2>3, <3>2, <3>3, <3>4, <3>5, Zenon DEF Regroups
    <3> QED
      BY <2>1, <2>5, <3>1, <3>6, Zenon
  <2> QED
    BY <2>4, <2>5
<1>7. \A i \in 1 .. n : i \in S
  <2> HIDE DEF S
  <2> QED
    BY <1>5, <1>6, Climb
<1>8. n \in S
  <2> HIDE DEF S
  <2> QED
    BY <1>1, <1>7
<1>9. F[n] = G[1]
  BY <1>8, Zenon
<1> QED
  BY <1>1, <1>9, Zenon

(* r is q with the sequence h in the place of its last element.            *)
IsReplaced(r, q, h, X) ==
    /\ r \in Seq(X) /\ Len(r) = Len(q) - 1 + Len(h)
    /\ \A i \in 1 .. Len(q) - 1 : r[i] = q[i]
    /\ \A i \in 1 .. Len(h) : r[Len(q) - 1 + i] = h[i]

(* What comes of it: the pieces but the last, and then those of h.         *)
LEMMA Replaced ==
    ASSUME NEW X, NEW q \in Seq(X), Len(q) >= 1, NEW h \in Seq(X)
    PROVE  IsReplaced(Front(q) \o h, q, h, X)
<1>0. PICK m \in Nat : m = Len(q) - 1
  OBVIOUS
<1>1. PICK f : f = SubSeq(q, 1, m)
  OBVIOUS
<1>2. f \in Seq(X) /\ Len(f) = m /\ \A i \in 1 .. m : f[i] = q[i]
  BY <1>0, <1>1
<1>3. PICK r : r = f \o h
  OBVIOUS
<1>4. /\ r \in Seq(X) /\ Len(r) = m + Len(h)
      /\ \A i \in 1 .. m + Len(h) : r[i] = IF i <= m THEN f[i] ELSE h[i - m]
  <2>1. /\ f \o h \in Seq(X) /\ Len(f \o h) = Len(f) + Len(h)
        /\ \A i \in 1 .. Len(f) + Len(h) :
              (f \o h)[i] = IF i <= Len(f) THEN f[i] ELSE h[i - Len(f)]
    BY <1>2, ConcatProperties
  <2> QED
    BY <1>2, <1>3, <2>1, Zenon
<1>5. Len(h) \in Nat
  OBVIOUS
<1>6. \A i \in 1 .. m : r[i] = q[i]
  BY <1>2, <1>4, <1>5
<1>7. \A i \in 1 .. Len(h) : r[m + i] = h[i]
  BY <1>4, <1>5
<1>8. IsReplaced(r, q, h, X)
  BY <1>0, <1>4, <1>6, <1>7 DEF IsReplaced
<1>9. r = Front(q) \o h
  BY <1>0, <1>1, <1>3, Zenon DEF Front
<1> QED
  BY <1>8, <1>9, Zenon

(* What SplitN has after k - 1 cuts: k - 1 of the words, and the rest.     *)
Cuts(k, ws, G) ==
    [i \in 1 .. (IF k < Len(ws) THEN k ELSE Len(ws)) |-> IF i < k THEN ws[i] ELSE G[i]]

(* One more cut.                                                           *)
Cut(q, c) == Front(q) \o Halves(Last(q), c)

(* The next cut takes the next text off the last piece.                    *)
LEMMA NextCut ==
    ASSUME NEW W, NEW ws \in Seq(Seq(W)), Len(ws) >= 1, NEW e \in Seq(W), Len(e) = 1,
           \A k \in 1 .. Len(ws) : Lacks(ws[k], e[1]),
           NEW G, IsRest(G, ws, e, W), NEW k \in Nat, k >= 1
    PROVE  Cut(Cuts(k, ws, G), e[1]) = Cuts(k + 1, ws, G)
<1> DEFINE X == Seq(W)
<1>1. PICK n \in Nat : n = Len(ws) /\ n >= 1
  OBVIOUS
<1>2. /\ G \in [1 .. n -> X] /\ G[n] = ws[n]
      /\ \A i \in 1 .. n - 1 : G[i] = ws[i] \o (e \o G[i + 1])
  BY <1>1, Zenon DEF IsRest
<1>3. \A i \in 1 .. n : ws[i] \in X
  BY <1>1
<1>4. PICK c : c = e[1]
  OBVIOUS
<1>5. PICK q, v : q = Cuts(k, ws, G) /\ v = Cuts(k + 1, ws, G)
  OBVIOUS
<1> SUFFICES Front(q) \o Halves(Last(q), c) = v
  BY <1>4, <1>5, Zenon DEF Cut
<1> DEFINE Cap(j) == IF j < n THEN j ELSE n
           Has(x, j) == /\ x \in Seq(X) /\ Len(x) = Cap(j)
                        /\ \A i \in 1 .. Cap(j) : x[i] = IF i < j THEN ws[i] ELSE G[i]
<1>6. Has(q, k) /\ Has(v, k + 1)
  <2>1. ASSUME NEW j \in Nat, j >= 1, NEW x, x = Cuts(j, ws, G)
        PROVE  Has(x, j)
    <3>1. Cap(j) \in Nat /\ \A i \in 1 .. Cap(j) : i \in 1 .. n
      BY <1>1
    <3>2. x = [i \in 1 .. Cap(j) |-> IF i < j THEN ws[i] ELSE G[i]]
      BY <1>1, <2>1 DEF Cuts
    <3>3. \A i \in 1 .. Cap(j) : (IF i < j THEN ws[i] ELSE G[i]) \in X
      BY <1>2, <1>3, <3>1
    <3>4. PICK N \in Nat : N = Cap(j)
      BY <3>1
    <3> HIDE DEF Cap, X
    <3>5. x \in [1 .. N -> X] /\ \A i \in 1 .. N : x[i] = IF i < j THEN ws[i] ELSE G[i]
      BY <3>2, <3>3, <3>4
    <3>6. x \in Seq(X) /\ Len(x) = N
      BY <3>5
    <3> QED
      BY <3>4, <3>5, <3>6
  <2> HIDE DEF Has
  <2> QED
    BY <1>5, <2>1
<1> HIDE DEF X
<1>7. ASSUME NEW h \in Seq(X)
      PROVE  IsReplaced(Front(q) \o h, q, h, X)
  <2>1. q \in Seq(X) /\ Len(q) >= 1
    BY <1>1, <1>6
  <2> HIDE DEF Has
  <2> QED
    BY <2>1, Replaced, Zenon
<1>8. Last(q) = q[Cap(k)]
  BY <1>6, Zenon DEF Last
<1>9. CASE k < n
  <2>1. PICK j \in 1 .. n : j = k + 1 /\ k \in 1 .. n - 1 /\ k \in 1 .. n
    BY <1>9
  <2>2. Last(q) = ws[k] \o (e \o G[j])
    <3>1. Last(q) = G[k]
      BY <1>6, <1>8, <1>9, <2>1
    <3>2. G[k] = ws[k] \o (e \o G[j])
      BY <1>2, <2>1, Zenon
    <3> QED
      BY <3>1, <3>2, Zenon
  <2>3. PICK h : h = Halves(Last(q), c)
    OBVIOUS
  <2>4. h \in Seq(X) /\ Len(h) = 2 /\ h[1] = ws[k] /\ h[2] = G[j]
    <3>1. PICK x \in Seq(W), y \in Seq(W) : x = ws[k] /\ y = G[j]
      BY <1>2, <1>3, <2>1 DEF X
    <3>2. Lacks(x, e[1])
      BY <1>1, <2>1, <3>1, Zenon
    <3>3. IsCut(Halves(x \o (e \o y), e[1]), W, x, y)
      BY <3>2, HalvesCut, Zenon
    <3>4. h = Halves(x \o (e \o y), e[1])
      BY <1>4, <2>2, <2>3, <3>1, Zenon
    <3> QED
      BY <3>1, <3>3, <3>4, Zenon DEF X, IsCut
  <2>5. PICK r : r = Front(q) \o h
    OBVIOUS
  <2>6. IsReplaced(r, q, h, X)
    <3> HIDE DEF Has
    <3> QED
      BY <1>7, <2>4, <2>5, Zenon
  <2>7. /\ r \in Seq(X) /\ Len(r) = k + 1 /\ \A i \in 1 .. k - 1 : r[i] = q[i]
        /\ r[k] = ws[k] /\ r[k + 1] = G[j]
    <3>1. Len(q) = k
      BY <1>6, <1>9
    <3>2. /\ r \in Seq(X) /\ Len(r) = k - 1 + 2 /\ \A i \in 1 .. k - 1 : r[i] = q[i]
          /\ \A i \in 1 .. 2 : r[k - 1 + i] = h[i]
      BY <2>4, <2>6, <3>1, Zenon DEF IsReplaced
    <3>3. r[k - 1 + 1] = h[1] /\ r[k - 1 + 2] = h[2]
      BY <3>2
    <3>4. k - 1 + 1 = k /\ k - 1 + 2 = k + 1
      OBVIOUS
    <3> HIDE DEF Has
    <3> QED
      BY <2>4, <3>2, <3>3, <3>4
  <2>8. v \in Seq(X) /\ Len(v) = k + 1
    BY <1>6, <1>9
  <2>9. ASSUME NEW i \in 1 .. k + 1
        PROVE  r[i] = v[i]
    <3>1. v[i] = IF i < k + 1 THEN ws[i] ELSE G[i]
      BY <1>6, <1>9
    <3>2. CASE i < k
      <4>1. q[i] = ws[i]
        BY <1>6, <1>9, <3>2
      <4>2. i \in 1 .. k - 1 /\ i < k + 1
        BY <3>2
      <4>3. r[i] = q[i]
        BY <2>7, <4>2, Zenon
      <4> QED
        BY <3>1, <4>1, <4>2, <4>3, Zenon
    <3>3. CASE i = k
      BY <2>7, <3>1, <3>3
    <3>4. CASE i = k + 1
      BY <2>1, <2>7, <3>1, <3>4
    <3> HIDE DEF Has
    <3> QED
      BY <3>2, <3>3, <3>4
  <2>10. r = v
    <3> HIDE DEF Has
    <3> QED
      BY <2>7, <2>8, <2>9, SeqEqual
  <2> QED
    BY <2>3, <2>5, <2>10, Zenon
<1>10. CASE ~(k < n)
  <2>1. n \in 1 .. n
    BY <1>1
  <2>2. q \in Seq(X) /\ Len(q) = n /\ \A i \in 1 .. n : q[i] = ws[i]
    BY <1>1, <1>2, <1>6, <1>10
  <2>3. v \in Seq(X) /\ Len(v) = n /\ \A i \in 1 .. n : v[i] = ws[i]
    BY <1>1, <1>2, <1>6, <1>10
  <2> HIDE DEF Has
  <2>4. Last(q) = ws[n]
    BY <1>8, <1>10, <2>1, <2>2
  <2>5. PICK h : h = Halves(Last(q), c)
    OBVIOUS
  <2>6. h \in Seq(X) /\ Len(h) = 1 /\ h[1] = ws[n]
    <3>1. PICK t \in Seq(W) : t = ws[n]
      BY <1>3, <2>1 DEF X
    <3>2. Lacks(t, c)
      BY <1>1, <1>4, <2>1, <3>1, Zenon
    <3>3. IsWhole(Halves(t, c), W, t)
      BY <3>2, HalvesNone, Zenon
    <3> QED
      BY <2>4, <2>5, <3>1, <3>3, Zenon DEF X, IsWhole
  <2>7. PICK r : r = Front(q) \o h
    OBVIOUS
  <2>8. IsReplaced(r, q, h, X)
    BY <1>7, <2>6, <2>7, Zenon
  <2>9. /\ r \in Seq(X) /\ Len(r) = n - 1 + 1 /\ \A i \in 1 .. n - 1 : r[i] = q[i]
        /\ \A i \in 1 .. 1 : r[n - 1 + i] = h[i]
    BY <2>2, <2>6, <2>8, Zenon DEF IsReplaced
  <2>10. Len(r) = n /\ r[n] = ws[n]
    BY <2>6, <2>9
  <2>11. ASSUME NEW i \in 1 .. n
         PROVE  r[i] = v[i]
    <3>1. i = n \/ i \in 1 .. n - 1
      OBVIOUS
    <3> QED
      BY <2>2, <2>3, <2>9, <2>10, <3>1
  <2>12. r = v
    BY <2>3, <2>9, <2>10, <2>11, SeqEqual
  <2> QED
    BY <2>5, <2>7, <2>12, Zenon
<1> QED
  BY <1>9, <1>10

IsSplit(ws, t, c, n) == SplitN(t, c, n) = ws

(* strings.SplitN with a limit that is no less than the number of texts    *)
(* that were joined gives these texts.                                     *)
LEMMA SplitJoined ==
    ASSUME NEW W, NEW ws \in Seq(Seq(W)), Len(ws) >= 1, NEW e \in Seq(W), Len(e) = 1,
           \A k \in 1 .. Len(ws) : Lacks(ws[k], e[1]),
           NEW G, IsRest(G, ws, e, W), NEW n \in Nat, n >= Len(ws)
    PROVE  IsSplit(ws, G[1], e[1], n)
<1>1. PICK t, c : t = G[1] /\ c = e[1]
  OBVIOUS
<1> DEFINE Again(q) == Cut(q, c)
           Step(f, k) == IF k = 1 THEN <<t>> ELSE Again(f[k - 1])
           Steps(f) == f = [k \in 1 .. n |-> Step(f, k)]
           R == [k \in 1 .. n |-> Cuts(k, ws, G)]
<1>2. Cuts(1, ws, G) = <<t>>
  <2>1. \A i \in 1 .. 1 : ~(i < 1) /\ i = 1
    OBVIOUS
  <2>2. (IF 1 < Len(ws) THEN 1 ELSE Len(ws)) = 1
    OBVIOUS
  <2>3. Cuts(1, ws, G) = [i \in 1 .. 1 |-> IF i < 1 THEN ws[i] ELSE G[i]]
    BY <2>2, Zenon DEF Cuts
  <2> QED
    BY <1>1, <2>1, <2>3
<1>3. ASSUME NEW k \in Nat, k >= 1
      PROVE  Again(Cuts(k, ws, G)) = Cuts(k + 1, ws, G)
  <2>1. Cut(Cuts(k, ws, G), e[1]) = Cuts(k + 1, ws, G)
    BY <1>3, NextCut
  <2> QED
    BY <1>1, <2>1, Zenon
<1> HIDE DEF Again
<1>4. Steps(R)
  <2>1. ASSUME NEW k \in 1 .. n
        PROVE  R[k] = Step(R, k)
    <3>1. CASE k = 1
      BY <1>2, <3>1
    <3>2. CASE k # 1
      <4>1. PICK j \in Nat : j >= 1 /\ j + 1 = k /\ j = k - 1 /\ j \in 1 .. n
        BY <3>2
      <4>2. Again(Cuts(j, ws, G)) = Cuts(k, ws, G)
        BY <1>3, <4>1
      <4>3. R[j] = Cuts(j, ws, G) /\ R[k] = Cuts(k, ws, G)
        BY <4>1
      <4> HIDE DEF R
      <4> QED
        BY <3>2, <4>1, <4>2, <4>3
    <3> QED
      BY <3>1, <3>2
  <2>2. R = [k \in 1 .. n |-> R[k]]
    OBVIOUS
  <2> HIDE DEF R, Step
  <2> QED
    BY <2>1, <2>2
<1>5. PICK f : f = CHOOSE h : Steps(h)
  OBVIOUS
<1>6. Steps(f)
  <2> HIDE DEF Steps, R
  <2> QED
    BY <1>4, <1>5
<1>7. SplitN(t, c, n) = f[n]
  BY <1>5, Zenon DEF SplitN, Again, Cut
<1>8. \A k \in 1 .. n : f[k] = Step(f, k)
  <2> HIDE DEF Step
  <2> QED
    BY <1>6
<1> DEFINE S == {k \in 1 .. n : f[k] = Cuts(k, ws, G)}
<1>9. n >= 1 /\ 1 \in S
  <2>1. n >= 1
    OBVIOUS
  <2>2. 1 \in 1 .. n
    BY <2>1
  <2> QED
    BY <1>2, <1>8, <2>1, <2>2, Zenon
<1>10. ASSUME NEW k \in 1 .. n - 1, k \in S
       PROVE  k + 1 \in S
  <2>1. PICK j \in 1 .. n : j = k + 1 /\ j # 1 /\ j - 1 = k /\ k \in Nat /\ k >= 1
    OBVIOUS
  <2>2. f[j] = Again(f[j - 1])
    BY <1>8, <2>1, Zenon
  <2>3. f[k] = Cuts(k, ws, G)
    BY <1>10, Zenon
  <2>4. Again(Cuts(k, ws, G)) = Cuts(k + 1, ws, G)
    BY <1>3, <2>1
  <2> QED
    BY <2>1, <2>2, <2>3, <2>4, Zenon
<1>11. \A k \in 1 .. n : k \in S
  <2> HIDE DEF S
  <2> QED
    BY <1>9, <1>10, Climb
<1>12. f[n] = Cuts(n, ws, G)
  <2>1. n \in 1 .. n
    BY <1>9
  <2> QED
    BY <1>11, <2>1, Zenon
<1>13. Cuts(n, ws, G) = ws
  <2>1. PICK m \in Nat : m = Len(ws) /\ m >= 1 /\ n >= m
    OBVIOUS
  <2>2. (IF n < m THEN n ELSE m) = m
    BY <2>1
  <2>3. Cuts(n, ws, G) = [i \in 1 .. m |-> IF i < n THEN ws[i] ELSE G[i]]
    BY <2>1, <2>2, Zenon DEF Cuts
  <2>4. G[m] = ws[m]
    BY <2>1, Zenon DEF IsRest
  <2>5. \A i \in 1 .. m : (IF i < n THEN ws[i] ELSE G[i]) = ws[i]
    <3> SUFFICES ASSUME NEW i \in 1 .. m
                 PROVE  (IF i < n THEN ws[i] ELSE G[i]) = ws[i]
      OBVIOUS
    <3>1. CASE i < n
      BY <3>1, Zenon
    <3>2. CASE ~(i < n)
      <4>1. i = m
        BY <2>1, <3>2
      <4> QED
        BY <2>4, <3>2, <4>1, Zenon
    <3> QED
      BY <3>1, <3>2
  <2>6. ws = [i \in 1 .. m |-> ws[i]]
    BY <2>1
  <2> QED
    BY <2>3, <2>5, <2>6
<1> QED
  BY <1>1, <1>7, <1>12, <1>13, Zenon DEF IsSplit

-----------------------------------------------------------------------------
(***************************************************************************)
(* Entries: what is written, and what is read.                             *)
(***************************************************************************)
(* The words of an entry are without separators, and may be empty; its     *)
(* path may have them anywhere.  W are the tokens of all texts.            *)
IsEntry(i, W) ==
    /\ "/" \in W /\ "|" \in W
    /\ i.parts \in Seq(W \ {"/", "|"}) /\ Len(i.parts) >= 1
    /\ i.mark \in {"", "|", "/"} /\ i.path \in Seq(W)
    /\ i.mark = "" => i.path = <<>>

(* The form of an entry for an Ingress, and of one for a Service.          *)
IsIngressEntry(i, n) == Len(i.parts) <= n /\ i.mark # "/"
IsSvcEntry(i) == Len(i.parts) <= 2 /\ (i.mark # "" => Len(i.parts) = 2)

TextsOf(i) == [k \in DOMAIN i.parts |-> RB!Word(i.parts[k])]

IsOneWord(e, W, w) == e \in Seq(W) /\ Len(e) = 1 /\ e[1] = w

(* A text of one word.                                                     *)
LEMMA OneWord ==
    ASSUME NEW W, NEW w \in W
    PROVE  IsOneWord(<<w>>, W, w)
  BY DEF IsOneWord

(* It lacks all other words.                                               *)
LEMMA OneLacks ==
    ASSUME NEW W, NEW w \in W, NEW e, IsOneWord(e, W, w), NEW c, w # c
    PROVE  Lacks(e, c)
  BY DEF IsOneWord, Lacks

IsText(t, W, w) == /\ t \in Seq(W) /\ (t = <<>> <=> w = "")
                   /\ \A c : w # c => Lacks(t, c)

(* RB!Word makes such a text.                                              *)
LEMMA WordText ==
    ASSUME NEW W, NEW w \in W
    PROVE  IsText(RB!Word(w), W, w)
<1>1. PICK nul : nul = ""
  OBVIOUS
<1>2. PICK t : t = RB!Word(w)
  OBVIOUS
<1>3. CASE w = nul
  <2>1. t = <<>>
    BY <1>1, <1>2, <1>3, Zenon DEF RB!Word
  <2>2. t \in Seq(W) /\ (t = <<>> <=> w = nul) /\ \A c : w # c => Lacks(t, c)
    BY <1>3, <2>1 DEF Lacks
  <2> QED
    BY <1>1, <1>2, <2>2, Zenon DEF IsText
<1>4. CASE w # nul
  <2>1. t = <<w>>
    BY <1>1, <1>2, <1>4, Zenon DEF RB!Word
  <2>2. IsOneWord(t, W, w)
    BY <2>1, OneWord
  <2>3. \A c : w # c => Lacks(t, c)
    BY <2>2, OneLacks
  <2>4. t \in Seq(W) /\ (t = <<>> <=> w = nul)
    BY <1>4, <2>1
  <2> QED
    BY <1>1, <1>2, <2>3, <2>4, Zenon DEF IsText
<1> QED
  BY <1>3, <1>4

(* The texts of an entry are without separators.                           *)
LEMMA TextsAre ==
    ASSUME NEW i, NEW W, IsEntry(i, W)
    PROVE  /\ TextsOf(i) \in Seq(Seq(W)) /\ Len(TextsOf(i)) = Len(i.parts)
           /\ Len(TextsOf(i)) \in Nat /\ Len(TextsOf(i)) >= 1
           /\ DOMAIN i.parts = 1 .. Len(i.parts)
           /\ \A k \in 1 .. Len(i.parts) :
                 /\ TextsOf(i)[k] = RB!Word(i.parts[k])
                 /\ IsText(TextsOf(i)[k], W, i.parts[k])
                 /\ Lacks(TextsOf(i)[k], "/") /\ Lacks(TextsOf(i)[k], "|")
<1>1. PICK p : p = i.parts
  OBVIOUS
<1>2. PICK V : V = W \ {"/", "|"}
  OBVIOUS
<1>3. p \in Seq(V) /\ Len(p) >= 1
  BY <1>1, <1>2, Zenon DEF IsEntry
<1>4. PICK n \in Nat : n = Len(p) /\ n >= 1 /\ DOMAIN p = 1 .. n
  BY <1>3
<1>5. ASSUME NEW k \in 1 .. n
      PROVE  /\ IsText(RB!Word(p[k]), W, p[k])
             /\ Lacks(RB!Word(p[k]), "/") /\ Lacks(RB!Word(p[k]), "|")
  <2>1. p[k] \in V
    BY <1>3, <1>4
  <2>2. p[k] \in W /\ p[k] # "/" /\ p[k] # "|"
    BY <1>2, <2>1
  <2>3. IsText(RB!Word(p[k]), W, p[k])
    BY <2>2, WordText
  <2> QED
    BY <2>2, <2>3, Zenon DEF IsText
<1> DEFINE Of(k) == RB!Word(p[k])
<1>6. TextsOf(i) = [k \in 1 .. n |-> Of(k)]
  BY <1>1, <1>4, Zenon DEF TextsOf
<1>7. \A k \in 1 .. n : Of(k) \in Seq(W)
  BY <1>5, Zenon DEF IsText
<1> HIDE DEF Of
<1>8. PICK t : t = TextsOf(i)
  OBVIOUS
<1>9. t \in Seq(Seq(W)) /\ Len(t) = n /\ \A k \in 1 .. n : t[k] = Of(k)
  BY <1>6, <1>7, <1>8
<1>10. Len(t) \in Nat /\ Len(t) >= 1
  BY <1>4, <1>9
<1>11. \A k \in 1 .. n : /\ t[k] = RB!Word(p[k]) /\ IsText(t[k], W, p[k])
                         /\ Lacks(t[k], "/") /\ Lacks(t[k], "|")
  BY <1>5, <1>9, Zenon DEF Of
<1> QED
  BY <1>1, <1>4, <1>8, <1>9, <1>10, <1>11, Zenon

IsSlash(e) == e = <<"/">>

(* An entry is written as its texts with slashes between, then the mark    *)
(* and the path.                                                           *)
LEMMA WrittenJoins ==
    ASSUME NEW i, NEW W, IsEntry(i, W), NEW e, IsSlash(e)
    PROVE  \E F : /\ IsJoin(F, TextsOf(i), e, W)
                  /\ RB!Written(i) = (F[Len(i.parts)] \o RB!Word(i.mark)) \o i.path
<1>1. PICK ws \in Seq(Seq(W)), n \in Nat :
         /\ ws = TextsOf(i) /\ n = Len(i.parts) /\ Len(ws) = n /\ n >= 1
         /\ DOMAIN i.parts = 1 .. n
         /\ \A k \in 1 .. n : ws[k] = RB!Word(i.parts[k])
  BY TextsAre, Zenon
<1>2. e \in Seq(W)
  <2>1. PICK w \in W : w = "/"
    BY Zenon DEF IsEntry
  <2>2. IsOneWord(<<w>>, W, w)
    BY OneWord
  <2> QED
    BY <2>1, <2>2, Zenon DEF IsOneWord, IsSlash
<1> DEFINE Between(k) == (IF k = 1 THEN <<>> ELSE e) \o ws[k]
           s == [k \in 1 .. n |-> Between(k)]
<1>3. ASSUME NEW k \in 1 .. n
      PROVE  /\ Between(k) \in Seq(W) /\ (k = 1 => Between(k) = ws[k])
             /\ (k # 1 => Between(k) = e \o ws[k])
  <2>1. ws[k] \in Seq(W)
    BY <1>1
  <2>2. CASE k = 1
    <3>1. <<>> \o ws[k] = ws[k]
      BY <2>1, ConcatEmptySeq
    <3> QED
      BY <2>1, <2>2, <3>1, Zenon
  <2>3. CASE k # 1
    <3>1. e \o ws[k] \in Seq(W)
      BY <1>2, <2>1, ConcatProperties
    <3> QED
      BY <2>3, <3>1, Zenon
  <2> QED
    BY <2>2, <2>3
<1>4. RB!Written(i) = (FlattenSeq(s) \o RB!Word(i.mark)) \o i.path
  <2>1. ASSUME NEW k \in 1 .. n
        PROVE  Between(k) = (IF k = 1 THEN <<>> ELSE <<"/">>) \o RB!Word(i.parts[k])
    BY <1>1, Zenon DEF IsSlash
  <2>2. s = [k \in DOMAIN i.parts |->
                (IF k = 1 THEN <<>> ELSE <<"/">>) \o RB!Word(i.parts[k])]
    <3> DEFINE Part(k) == (IF k = 1 THEN <<>> ELSE <<"/">>) \o RB!Word(i.parts[k])
    <3>1. \A k \in 1 .. n : Between(k) = Part(k)
      BY <2>1, Zenon
    <3>2. s = [k \in DOMAIN i.parts |-> Part(k)]
      <4> HIDE DEF Between, Part
      <4> QED
        BY <1>1, <3>1
    <3> QED
      BY <3>2, Zenon
  <2> HIDE DEF s
  <2>3. RB!Written(i) = (RB!FlattenSeq(s) \o RB!Word(i.mark)) \o i.path
    BY <2>2, Zenon DEF RB!Written
  <2>4. RB!FlattenSeq(s) = FlattenSeq(s)
    BY Zenon DEF RB!FlattenSeq, FlattenSeq
  <2> QED
    BY <2>3, <2>4, Zenon
<1> HIDE DEF Between
<1>5. s \in Seq(Seq(W)) /\ Len(s) = n /\ \A k \in 1 .. n : s[k] = Between(k)
  BY <1>3
<1> HIDE DEF s
<1>6. PICK F : IsSum(F, s, W) /\ FlattenSeq(s) = F[Len(s)]
  <2>1. Len(s) >= 1
    BY <1>1, <1>5
  <2> QED
    BY <1>5, <2>1, Flattened
<1>7. IsJoin(F, ws, e, W)
  <2>1. /\ F \in [1 .. n -> Seq(W)] /\ F[1] = s[1]
        /\ \A k \in 2 .. n : F[k] = F[k - 1] \o s[k]
    BY <1>5, <1>6, Zenon DEF IsSum
  <2>2. F[1] = ws[1]
    <3>1. PICK k \in 1 .. n : k = 1
      BY <1>1
    <3>2. s[k] = Between(k) /\ Between(k) = ws[k]
      BY <1>3, <1>5, <3>1
    <3> QED
      BY <2>1, <3>1, <3>2, Zenon
  <2>3. ASSUME NEW k \in 2 .. n
        PROVE  F[k] = F[k - 1] \o (e \o ws[k])
    <3>1. k \in 1 .. n /\ k # 1
      OBVIOUS
    <3> QED
      BY <1>3, <1>5, <2>1, <3>1, Zenon
  <2> QED
    BY <1>1, <2>1, <2>2, <2>3, Zenon DEF IsJoin
<1> QED
  BY <1>1, <1>4, <1>5, <1>6, <1>7, Zenon

(* Texts without c make a text without c.                                  *)
LEMMA LacksBoth ==
    ASSUME NEW W, NEW x \in Seq(W), NEW y \in Seq(W), NEW c, Lacks(x, c), Lacks(y, c)
    PROVE  Lacks(x \o y, c)
<1>1. PICK t : t = x \o y
  OBVIOUS
<1>2. /\ Len(x) \in Nat /\ Len(y) \in Nat /\ Len(t) = Len(x) + Len(y)
      /\ \A i \in 1 .. Len(x) + Len(y) : t[i] = IF i <= Len(x) THEN x[i] ELSE y[i - Len(x)]
  BY <1>1, ConcatProperties
<1>3. ASSUME NEW i \in 1 .. Len(t)
      PROVE  t[i] # c
  <2>1. CASE i <= Len(x)
    BY <1>2, <2>1 DEF Lacks
  <2>2. CASE ~(i <= Len(x))
    <3>1. PICK j \in 1 .. Len(y) : j = i - Len(x)
      BY <1>2, <2>2
    <3>2. t[i] = y[j]
      BY <1>2, <2>2, <3>1
    <3> QED
      BY <3>2, Zenon DEF Lacks
  <2> QED
    BY <2>1, <2>2
<1> QED
  BY <1>1, <1>3, Zenon DEF Lacks

(* So do any number of them, joined by a separator without c.              *)
LEMMA JoinLacks ==
    ASSUME NEW W, NEW ws \in Seq(Seq(W)), Len(ws) >= 1, NEW e \in Seq(W), NEW c,
           NEW F, IsJoin(F, ws, e, W), Lacks(e, c),
           \A k \in 1 .. Len(ws) : Lacks(ws[k], c)
    PROVE  F[Len(ws)] \in Seq(W) /\ Lacks(F[Len(ws)], c)
<1>1. PICK n \in Nat : n = Len(ws) /\ n >= 1
  OBVIOUS
<1>2. F \in [1 .. n -> Seq(W)]
  BY <1>1, Zenon DEF IsJoin
<1>3. F[1] = ws[1] /\ \A i \in 2 .. n : F[i] = F[i - 1] \o (e \o ws[i])
  BY <1>1, Zenon DEF IsJoin
<1> DEFINE S == {k \in 1 .. n : Lacks(F[k], c)}
<1>4. 1 \in S
  <2>1. 1 \in 1 .. n
    BY <1>1
  <2> QED
    BY <1>1, <1>3, <2>1, Zenon
<1>5. ASSUME NEW k \in 1 .. n - 1, k \in S
      PROVE  k + 1 \in S
  <2>1. PICK j \in 2 .. n : j = k + 1 /\ j - 1 = k /\ j \in 1 .. n /\ k \in 1 .. n
    OBVIOUS
  <2>2. PICK x \in Seq(W), y \in Seq(W) : x = F[k] /\ y = ws[j]
    <3>1. F[k] \in Seq(W)
      BY <1>2, <2>1, Zenon
    <3>2. ws[j] \in Seq(W)
      BY <1>1, <2>1
    <3> QED
      BY <3>1, <3>2, Zenon
  <2>3. Lacks(x, c) /\ Lacks(y, c)
    BY <1>1, <1>5, <2>1, <2>2, Zenon
  <2>4. PICK d \in Seq(W) : d = e \o y
    BY ConcatProperties
  <2>5. Lacks(d, c)
    BY <2>3, <2>4, LacksBoth, Zenon
  <2>6. Lacks(x \o d, c)
    BY <2>3, <2>5, LacksBoth
  <2>7. F[j] = x \o d
    BY <1>3, <2>1, <2>2, <2>4, Zenon
  <2> QED
    BY <2>1, <2>6, <2>7, Zenon
<1>6. \A k \in 1 .. n : k \in S
  <2> HIDE DEF S
  <2> QED
    BY <1>4, <1>5, Climb
<1>7. n \in 1 .. n
  BY <1>1
<1>8. Lacks(F[n], c) /\ F[n] \in Seq(W)
  BY <1>2, <1>6, <1>7, Zenon
<1> QED
  BY <1>1, <1>8, Zenon

(* The text of the parts, and the mark and the path after it.              *)
IsWritten(i, W, e, G) ==
    /\ IsRest(G, TextsOf(i), e, W) /\ G[1] \in Seq(W) /\ Lacks(G[1], "|")
    /\ i.mark = "" => RB!Written(i) = G[1]
    /\ i.mark # "" => RB!Written(i) = G[1] \o (<<i.mark>> \o i.path)

(* What is written, with the texts that are left at each word.             *)
LEMMA WrittenText ==
    ASSUME NEW i, NEW W, IsEntry(i, W), NEW e, IsSlash(e)
    PROVE  \E G : IsWritten(i, W, e, G)
<1>1. PICK ws \in Seq(Seq(W)), n \in Nat :
         /\ ws = TextsOf(i) /\ n = Len(i.parts) /\ Len(ws) = n /\ n >= 1
         /\ \A k \in 1 .. n : Lacks(ws[k], "|")
  BY TextsAre, Zenon
<1>2. e \in Seq(W) /\ Lacks(e, "|")
  <2>1. PICK c : c = "|"
    OBVIOUS
  <2>2. PICK w \in W : w = "/" /\ w # c
    BY <2>1, Zenon DEF IsEntry
  <2>3. IsOneWord(<<w>>, W, w)
    BY OneWord
  <2>4. Lacks(<<w>>, c)
    BY <2>1, <2>2, <2>3, OneLacks
  <2> QED
    BY <2>1, <2>2, <2>3, <2>4, Zenon DEF IsOneWord, IsSlash
<1>3. PICK F : /\ IsJoin(F, ws, e, W)
               /\ RB!Written(i) = (F[n] \o RB!Word(i.mark)) \o i.path
  BY <1>1, WrittenJoins, Zenon
<1>4. PICK G : IsRest(G, ws, e, W)
  BY <1>1, <1>2, Rest
<1>5. F[n] = G[1]
  <2>1. F[Len(ws)] = G[1]
    BY <1>1, <1>2, <1>3, <1>4, JoinIsRest
  <2> QED
    BY <1>1, <2>1, Zenon
<1>6. PICK t \in Seq(W) : t = G[1] /\ Lacks(t, "|")
  BY <1>1, <1>2, <1>3, <1>5, JoinLacks
<1>7. PICK p \in Seq(W) : p = i.path
  BY Zenon DEF IsEntry
<1>8. PICK nul : nul = ""
  OBVIOUS
<1>9. RB!Written(i) = (t \o RB!Word(i.mark)) \o p
  BY <1>3, <1>5, <1>6, <1>7, Zenon
<1>10. CASE i.mark = nul
  <2>1. RB!Word(i.mark) = <<>> /\ p = <<>>
    BY <1>7, <1>8, <1>10, Zenon DEF RB!Word, IsEntry
  <2>2. t \o <<>> = t
    BY ConcatEmptySeq
  <2>3. RB!Written(i) = t
    BY <1>9, <2>1, <2>2, Zenon
  <2> QED
    BY <1>1, <1>4, <1>6, <1>8, <1>10, <2>3, Zenon DEF IsWritten
<1>11. CASE i.mark # nul
  <2>1. PICK w \in W : w = i.mark
    BY <1>8, <1>11, Zenon DEF IsEntry
  <2>2. RB!Word(i.mark) = <<w>>
    BY <1>8, <1>11, <2>1, Zenon DEF RB!Word
  <2>3. PICK m \in Seq(W) : m = <<w>>
    <3>1. IsOneWord(<<w>>, W, w)
      BY OneWord
    <3> QED
      BY <3>1, Zenon DEF IsOneWord
  <2>4. (t \o m) \o p = t \o (m \o p)
    BY ConcatAssociative
  <2>5. RB!Written(i) = t \o (<<i.mark>> \o p)
    BY <1>9, <2>1, <2>2, <2>3, <2>4, Zenon
  <2> QED
    BY <1>1, <1>4, <1>6, <1>7, <1>8, <1>11, <2>5, Zenon DEF IsWritten
<1> QED
  BY <1>10, <1>11

(* What ParseClassIngressMapping and ParseStackIngressMapping make of an   *)
(* entry that has no more words than they expect.                          *)
LEMMA PiecesRead ==
    ASSUME NEW i, NEW W, NEW n \in Nat, IsEntry(i, W), IsIngressEntry(i, n)
    PROVE  Pieces(RB!Written(i), n) = [parts |-> TextsOf(i), path |-> RB!VerbatimPath(i)]
<1>1. PICK e : IsSlash(e)
  BY Zenon DEF IsSlash
<1>2. PICK G : IsWritten(i, W, e, G)
  BY <1>1, WrittenText
<1>3. PICK c, slash : c = "|" /\ slash = "/"
  OBVIOUS
<1>4. PICK t \in Seq(W) : t = G[1] /\ Lacks(t, c)
  BY <1>2, <1>3, Zenon DEF IsWritten
<1>5. e \in Seq(W) /\ Len(e) = 1 /\ e[1] = slash
  <2>1. slash \in W /\ e = <<slash>>
    BY <1>1, <1>3, <1>4, Zenon DEF IsEntry, IsSlash
  <2> QED
    BY <2>1
<1>6. SplitN(t, slash, n) = TextsOf(i)
  <2>1. PICK ws \in Seq(Seq(W)) :
           /\ ws = TextsOf(i) /\ Len(ws) >= 1 /\ Len(ws) = Len(i.parts)
           /\ \A k \in 1 .. Len(ws) : Lacks(ws[k], e[1])
    BY <1>3, <1>4, <1>5, TextsAre, Zenon
  <2>2. IsRest(G, ws, e, W)
    BY <1>2, <2>1, Zenon DEF IsWritten
  <2>3. n >= Len(ws)
    <3>1. Len(i.parts) <= n
      BY Zenon DEF IsIngressEntry
    <3> QED
      BY <2>1, <3>1
  <2>4. IsSplit(ws, G[1], e[1], n)
    BY <1>5, <2>1, <2>2, <2>3, SplitJoined
  <2> QED
    BY <1>3, <1>4, <1>5, <2>1, <2>4, Zenon DEF IsSplit
<1>7. PICK w : w = RB!Written(i)
  OBVIOUS
<1>8. PICK h : h = Halves(w, c)
  OBVIOUS
<1>9. Pieces(w, n) = [parts |-> SplitN(h[1], slash, n),
                      path  |-> IF Len(h) = 2 THEN h[2] ELSE Root]
  BY <1>3, <1>4, <1>8, Zenon DEF Pieces
<1>10. CASE i.mark = ""
  <2>1. w = t
    BY <1>2, <1>3, <1>4, <1>7, <1>10, Zenon DEF IsWritten
  <2>2. IsWhole(Halves(t, c), W, t)
    BY <1>3, <1>4, HalvesNone
  <2>3. h[1] = t /\ Len(h) = 1
    BY <1>8, <2>1, <2>2, Zenon DEF IsWhole
  <2>4. Len(h) # 2
    BY <2>3
  <2>5. RB!VerbatimPath(i) = Root
    BY <1>10, Zenon DEF RB!VerbatimPath, Root
  <2> QED
    BY <1>6, <1>7, <1>9, <2>3, <2>4, <2>5, Zenon
<1>11. CASE i.mark # ""
  <2>1. i.mark = c
    BY <1>3, <1>4, <1>11, Zenon DEF IsEntry, IsIngressEntry
  <2>2. PICK p \in Seq(W) : p = i.path
    BY Zenon DEF IsEntry
  <2>3. PICK m \in Seq(W) : m = <<c>> /\ Len(m) = 1 /\ m[1] = c
    <3>1. c \in W
      BY <1>3, <1>4, Zenon DEF IsEntry
    <3>2. IsOneWord(<<c>>, W, c)
      BY <3>1, OneWord
    <3> QED
      BY <3>2, Zenon DEF IsOneWord
  <2>4. w = t \o (m \o p)
    BY <1>2, <1>3, <1>4, <1>7, <1>11, <2>1, <2>2, <2>3, Zenon DEF IsWritten
  <2>5. IsCut(Halves(t \o (m \o p), m[1]), W, t, p)
    BY <1>3, <1>4, <2>3, HalvesCut
  <2>6. h[1] = t /\ Len(h) = 2 /\ h[2] = p
    BY <1>8, <2>3, <2>4, <2>5, Zenon DEF IsCut
  <2>7. RB!VerbatimPath(i) = p
    BY <1>3, <1>4, <2>1, <2>2, Zenon DEF RB!VerbatimPath
  <2> QED
    BY <1>6, <1>7, <1>9, <2>6, <2>7, Zenon
<1> QED
  BY <1>10, <1>11

(* The k-th word as it is read, with nothing or http as the default.       *)
IsField(i, k, W) ==
    LET text == RB!Word(RB!Field(i, k))
    IN  /\ IsText(text, W, RB!Field(i, k))
        /\ Piece(TextsOf(i), k, <<>>) = text
        /\ Piece(TextsOf(i), k, Http) = RB!Schema(RB!Field(i, k))
        /\ k \in 1 .. Len(i.parts) => TextsOf(i)[k] = text
        /\ RB!Field(i, k) # "" => RB!Field(i, k) \in W /\ k \in 1 .. Len(i.parts)

(* A part that an entry lacks is an empty one.                             *)
LEMMA FieldIs ==
    ASSUME NEW i, NEW W, IsEntry(i, W), NEW k \in Nat
    PROVE  IsField(i, k, W)
<1>1. PICK ws \in Seq(Seq(W)), n \in Nat :
         /\ ws = TextsOf(i) /\ n = Len(i.parts) /\ Len(ws) = n
         /\ DOMAIN i.parts = 1 .. n
         /\ \A j \in 1 .. n : /\ ws[j] = RB!Word(i.parts[j])
                              /\ IsText(ws[j], W, i.parts[j])
  BY TextsAre, Zenon
<1>2. DOMAIN ws = 1 .. n
  BY <1>1
<1>3. PICK w, nul : w = RB!Field(i, k) /\ nul = ""
  OBVIOUS
<1>4. CASE k \in 1 .. n /\ w # nul
  <2>1. w = i.parts[k]
    BY <1>1, <1>3, <1>4, Zenon DEF RB!Field
  <2>2. ws[k] = RB!Word(w) /\ IsText(ws[k], W, w) /\ ws[k] # <<>>
    BY <1>1, <1>3, <1>4, <2>1, Zenon DEF IsText
  <2>3. Piece(ws, k, <<>>) = ws[k] /\ Piece(ws, k, Http) = ws[k]
    BY <1>2, <1>4, <2>2, Zenon DEF Piece
  <2>4. RB!Word(w) = <<w>> /\ RB!Schema(w) = <<w>>
    BY <1>3, <1>4, Zenon DEF RB!Word, RB!Schema
  <2>5. w \in W
    <3>1. i.parts[k] \in W \ {"/", "|"}
      <4>1. PICK V, p : V = W \ {"/", "|"} /\ p = i.parts
        OBVIOUS
      <4>2. p \in Seq(V)
        BY <4>1, Zenon DEF IsEntry
      <4>3. p[k] \in V
        BY <1>1, <1>4, <4>1, <4>2
      <4> QED
        BY <4>1, <4>3, Zenon
    <3> QED
      BY <2>1, <3>1, Zenon
  <2> QED
    BY <1>1, <1>3, <1>4, <2>2, <2>3, <2>4, <2>5, Zenon DEF IsField
<1>5. CASE k \in 1 .. n /\ w = nul
  <2>1. w = i.parts[k]
    BY <1>1, <1>3, <1>5, Zenon DEF RB!Field
  <2>2. ws[k] = RB!Word(w) /\ IsText(ws[k], W, w) /\ ws[k] = <<>>
    BY <1>1, <1>3, <1>5, <2>1, Zenon DEF IsText
  <2>3. Piece(ws, k, <<>>) = <<>> /\ Piece(ws, k, Http) = Http
    BY <2>2, Zenon DEF Piece
  <2>4. RB!Schema(w) = Http
    BY <1>3, <1>5, Zenon DEF RB!Schema, Http
  <2> QED
    BY <1>1, <1>3, <1>5, <2>2, <2>3, <2>4, Zenon DEF IsField
<1>6. CASE k \notin 1 .. n
  <2>1. w = nul
    BY <1>1, <1>3, <1>6, Zenon DEF RB!Field
  <2>2. Piece(ws, k, <<>>) = <<>> /\ Piece(ws, k, Http) = Http
    BY <1>2, <1>6, Zenon DEF Piece
  <2>3. RB!Schema(w) = Http /\ RB!Word(w) = <<>>
    BY <1>3, <2>1, Zenon DEF RB!Schema, Http, RB!Word
  <2>4. IsText(<<>>, W, nul)
    <3>1. <<>> \in Seq(W) /\ \A c : Lacks(<<>>, c)
      BY DEF Lacks
    <3> QED
      BY <1>3, <3>1, Zenon DEF IsText
  <2> QED
    BY <1>1, <1>3, <1>6, <2>1, <2>2, <2>3, <2>4, Zenon DEF IsField
<1> QED
  BY <1>4, <1>5, <1>6

(* The code's schemas (isValidSchema) are those of the RuleBook.           *)
LEMMA SchemasSame == validSchema = RB!Schemas
  BY Zenon DEF validSchema, RB!Schemas, Http, Https, NoTLS

(* An entry of the annotation of an Ingress of the class "cloudflared",    *)
(* with at most a host name, a schema and a header, and any path, is taken *)
(* by ParseClassIngressMapping (parse-mapping.go) exactly if it is sound,  *)
(* and read as what it means.                                              *)
THEOREM ClassEntriesAreRead ==
    ASSUME NEW i, NEW W, IsEntry(i, W), IsIngressEntry(i, 3)
    PROVE  LET e == Pieces(RB!Written(i), 3)
           IN  /\ ClassOk(e) <=> RB!ClassSound(i)
               /\ ClassMapping(e) = RB!ClassMeaning(i)
<1>1. PICK e : e = Pieces(RB!Written(i), 3)
  OBVIOUS
<1>2. e.parts = TextsOf(i) /\ e.path = RB!VerbatimPath(i)
  <2>1. e = [parts |-> TextsOf(i), path |-> RB!VerbatimPath(i)]
    <3>1. PICK n \in Nat : n = 3
      OBVIOUS
    <3>2. IsIngressEntry(i, n)
      BY <3>1, Zenon
    <3>3. Pieces(RB!Written(i), n) = [parts |-> TextsOf(i), path |-> RB!VerbatimPath(i)]
      BY <3>2, PiecesRead
    <3> QED
      BY <1>1, <3>1, <3>3, Zenon
  <2> QED
    BY <2>1, Zenon
<1>3. IsField(i, 1, W) /\ IsField(i, 2, W) /\ IsField(i, 3, W)
  BY FieldIs
<1>4. 1 \in 1 .. Len(i.parts)
  BY TextsAre
<1>5. /\ e.parts[1] = RB!Word(RB!Field(i, 1)) /\ (e.parts[1] = <<>> <=> RB!Field(i, 1) = "")
      /\ Piece(e.parts, 2, Http) = RB!Schema(RB!Field(i, 2))
      /\ Piece(e.parts, 3, <<>>) = RB!Word(RB!Field(i, 3))
  BY <1>2, <1>3, <1>4, Zenon DEF IsField, IsText
<1>6. ClassOk(e) <=> RB!ClassSound(i)
  BY <1>5, SchemasSame, Zenon DEF ClassOk, RB!ClassSound
<1>7. ClassMapping(e) = RB!ClassMeaning(i)
  BY <1>2, <1>5, Zenon DEF ClassMapping, RB!ClassMeaning
<1> QED
  BY <1>1, <1>6, <1>7, Zenon

(* A port is a decimal number that ParseInt takes as one of 16 bits with a *)
(* sign, and that is above zero.                                           *)
LEMMA PortRead ==
    ASSUME NEW w
    PROVE  PortOk(<<w>>) <=> w \in DOMAIN Number /\ RB!IsPort(Number[w])
<1>1. PICK t, v : t = <<w>> /\ v = Number[w]
  OBVIOUS
<1>2. Len(t) = 1 /\ t[1] = w
  BY <1>1
<1>3. w \in DOMAIN Number => v \in Int
  BY <1>1, NumberAssumption
<1>4. v \in Int => ( /\ v \in -(2 ^ 15) .. (2 ^ 15) - 1
                     /\ 0 < v /\ v < 65536
                   <=> RB!IsPort(v))
  BY SMT DEF RB!IsPort
<1>5. PortOk(t) <=> w \in DOMAIN Number /\ RB!IsPort(v)
  <2>1. Number[t[1]] = v /\ (t[1] \in DOMAIN Number <=> w \in DOMAIN Number)
    BY <1>1, <1>2, Zenon
  <2> QED
    BY <1>2, <1>3, <1>4, <2>1, SMT DEF PortOk
<1> QED
  BY <1>1, <1>5, Zenon

(* An entry of the annotation of any other Ingress, with at most a schema, *)
(* a host name, a port, a header and an outer host name, and any path, is  *)
(* taken by ParseStackIngressMapping (parse-mapping.go) exactly if it is   *)
(* sound, and then read as what it means.                                  *)
THEOREM StackEntriesAreRead ==
    ASSUME NEW i, NEW W, IsEntry(i, W), IsIngressEntry(i, 5)
    PROVE  LET e == Pieces(RB!Written(i), 5)
           IN  /\ StackOk(e) <=> RB!StackSound(i)
               /\ StackOk(e) => StackMapping(e) = RB!StackMeaning(i)
<1>1. PICK e : e = Pieces(RB!Written(i), 5)
  OBVIOUS
<1>2. e.parts = TextsOf(i) /\ e.path = RB!VerbatimPath(i)
  <2>1. e = [parts |-> TextsOf(i), path |-> RB!VerbatimPath(i)]
    <3>1. PICK n \in Nat : n = 5
      OBVIOUS
    <3>2. IsIngressEntry(i, n)
      BY <3>1, Zenon
    <3>3. Pieces(RB!Written(i), n) = [parts |-> TextsOf(i), path |-> RB!VerbatimPath(i)]
      BY <3>2, PiecesRead
    <3> QED
      BY <1>1, <3>1, <3>3, Zenon
  <2> QED
    BY <2>1, Zenon
<1>3. /\ IsField(i, 1, W) /\ IsField(i, 2, W) /\ IsField(i, 3, W)
      /\ IsField(i, 4, W) /\ IsField(i, 5, W)
  BY FieldIs
<1>4. PICK n \in Nat : n = Len(i.parts) /\ n = Len(e.parts) /\ n <= 5
  <2>1. Len(i.parts) = Len(e.parts) /\ Len(e.parts) \in Nat /\ Len(i.parts) <= 5
    BY <1>2, TextsAre, Zenon DEF IsIngressEntry
  <2> QED
    BY <2>1, Zenon
<1>5. /\ Piece(e.parts, 1, Http) = RB!Schema(RB!Field(i, 1))
      /\ Piece(e.parts, 4, <<>>) = RB!Word(RB!Field(i, 4))
  BY <1>2, <1>3, Zenon DEF IsField
<1>6. CASE n = 5
  <2>1. 2 \in 1 .. n /\ 3 \in 1 .. n /\ 5 \in 1 .. n
    BY <1>6
  <2>2. PICK port, text : port = RB!Field(i, 3) /\ text = e.parts[3]
    OBVIOUS
  <2>3. /\ e.parts[2] = RB!Word(RB!Field(i, 2)) /\ (e.parts[2] = <<>> <=> RB!Field(i, 2) = "")
        /\ text = RB!Word(port) /\ (text = <<>> <=> port = "")
        /\ e.parts[5] = RB!Word(RB!Field(i, 5)) /\ (e.parts[5] = <<>> <=> RB!Field(i, 5) = "")
    BY <1>2, <1>3, <1>4, <2>1, <2>2, Zenon DEF IsField, IsText
  <2>4. port # "" => text = <<port>> /\ text[1] = port
    <3>1. PICK t : t = <<port>>
      OBVIOUS
    <3>2. t[1] = port
      BY <3>1
    <3> QED
      BY <2>3, <3>1, <3>2, Zenon DEF RB!Word
  <2>5. (text # <<>> => PortOk(text)) <=> RB!PortSound(port)
    BY <2>3, <2>4, PortRead, Zenon DEF RB!PortSound
  <2>6. Len(e.parts) = 5
    BY <1>4, <1>6
  <2>7. StackOk(e) <=> RB!StackSound(i)
    BY <1>5, <2>2, <2>3, <2>5, <2>6, SchemasSame, Zenon DEF StackOk, RB!StackSound
  <2>8. (IF text = <<>> THEN 80 ELSE Number[text[1]]) = (IF port = "" THEN 80 ELSE Number[port])
    BY <2>3, <2>4, Zenon
  <2>9. StackMapping(e) = RB!StackMeaning(i)
    BY <1>2, <1>5, <2>2, <2>3, <2>8, Zenon DEF StackMapping, RB!StackMeaning
  <2> QED
    BY <1>1, <2>7, <2>9, Zenon
<1>7. CASE n # 5
  <2>1. 5 \notin 1 .. n
    <3>1. n <= 5
      BY <1>4, Zenon
    <3> QED
      BY <1>7, <3>1
  <2>2. Len(e.parts) # 5
    BY <1>4, <1>7, Zenon
  <2>3. RB!Field(i, 5) = ""
    BY <1>3, <1>4, <2>1, Zenon DEF IsField
  <2>4. ~StackOk(e)
    BY <2>2, Zenon DEF StackOk
  <2>5. ~RB!StackSound(i)
    BY <2>3, Zenon DEF RB!StackSound
  <2> QED
    BY <1>1, <2>4, <2>5, Zenon
<1> QED
  BY <1>6, <1>7

(* A path that is not given is "/".                                        *)
LEMMA NothingTrimmed == TrimSlashes(<<>>) = <<>>
<1>1. {k \in 1 .. Len(<<>>) : <<>>[k] # "/"} = {}
  OBVIOUS
<1> QED
  BY <1>1, Zenon DEF TrimSlashes, SelectInSeq

(* An entry without a path means the root.                                 *)
LEMMA RootAlone ==
    ASSUME NEW i, NEW W, IsEntry(i, W)
    PROVE  i.mark = "" => Root \o RB!Unslashed(i.path) = Root
<1>1. PICK r \in Seq(W) : r = Root
  <2>1. PICK w \in W : w = "/"
    BY Zenon DEF IsEntry
  <2>2. IsOneWord(<<w>>, W, w)
    BY OneWord
  <2> QED
    BY <2>1, <2>2, Zenon DEF IsOneWord, Root
<1>2. PICK none \in Seq(W) : none = <<>>
  BY EmptySeq
<1>3. RB!Unslashed(none) = none
  <2>1. TrimSlashes(none) = RB!Unslashed(none)
    BY Trimmed
  <2> QED
    BY <1>2, <2>1, NothingTrimmed, Zenon
<1>4. r \o none = r
  BY <1>2, ConcatEmptySeq
<1> QED
  BY <1>1, <1>2, <1>3, <1>4, Zenon DEF IsEntry

(* What ParseSvcMapping makes of an entry: whichever of the separators     *)
(* comes after the schema, and whatever is in the path.                    *)
LEMMA SvcPiecesRead ==
    ASSUME NEW i, NEW W, IsEntry(i, W), IsSvcEntry(i)
    PROVE  SvcPieces(RB!Written(i)) =
              [name |-> RB!Word(RB!Field(i, 1)), schema |-> RB!Word(RB!Field(i, 2)),
               path |-> IF i.mark = "|" THEN i.path ELSE Root \o RB!Unslashed(i.path)]
<1>1. PICK e : IsSlash(e)
  BY Zenon DEF IsSlash
<1>2. PICK G : IsWritten(i, W, e, G)
  BY <1>1, WrittenText
<1>3. PICK ws \in Seq(Seq(W)), n \in Nat :
         /\ ws = TextsOf(i) /\ n = Len(i.parts) /\ Len(ws) = n /\ n >= 1
         /\ \A k \in 1 .. n : Lacks(ws[k], "/") /\ Lacks(ws[k], "|")
  BY TextsAre, Zenon
<1>4. PICK slash, pipe : slash = "/" /\ pipe = "|"
  OBVIOUS
<1>5. slash \in W /\ pipe \in W
  BY <1>4, Zenon DEF IsEntry
<1>6. e \in Seq(W) /\ Len(e) = 1 /\ e[1] = slash
  <2>1. e = <<slash>>
    BY <1>1, <1>4, Zenon DEF IsSlash
  <2> QED
    BY <1>5, <2>1
<1>7. PICK x \in Seq(W), q \in Seq(W) :
         /\ x = RB!Word(RB!Field(i, 1)) /\ q = RB!Word(RB!Field(i, 2))
         /\ (1 \in 1 .. n => ws[1] = x) /\ (2 \in 1 .. n => ws[2] = q)
  <2>1. IsField(i, 1, W) /\ IsField(i, 2, W)
    BY FieldIs
  <2> QED
    BY <1>3, <2>1, Zenon DEF IsField, IsText
<1>8. 1 \in 1 .. n /\ ws[1] = x /\ Lacks(x, slash) /\ Lacks(x, pipe)
  <2>1. 1 \in 1 .. n
    BY <1>3
  <2> QED
    BY <1>3, <1>4, <1>7, <2>1, Zenon
<1>9. PICK entry, h, rest, end :
         /\ entry = RB!Written(i) /\ h = Halves(entry, slash)
         /\ rest = Piece(h, 2, <<>>) /\ end = SchemaEnd(rest)
  BY Zenon
<1> DEFINE After == SubSeq(rest, end + 1, Len(rest))
<1>10. SvcPieces(entry) =
         [name   |-> h[1],
          schema |-> IF end = 0 THEN rest ELSE SubSeq(rest, 1, end - 1),
          path   |-> CASE end = 0 -> Root
                       [] end # 0 /\ rest[end] = pipe -> After
                       [] OTHER -> Root \o TrimSlashes(After)]
  BY <1>4, <1>9, Zenon DEF SvcPieces
<1> DEFINE Plain  == end = 0 /\ rest = q /\ i.mark = ""
           Pathed == /\ end # 0 /\ SubSeq(rest, 1, end - 1) = q
                     /\ rest[end] = i.mark /\ i.mark \in {"/", "|"} /\ After = i.path
<1> HIDE DEF After, Plain, Pathed
<1>11. h[1] = x /\ (Plain \/ Pathed)
  <2>1. CASE n = 1
    <3>1. 1 \in 1 .. Len(ws) /\ 2 \notin 1 .. n /\ n # 2
      BY <1>3, <2>1
    <3>2. i.mark = ""
      BY <1>3, <3>1, Zenon DEF IsSvcEntry
    <3>3. entry = x
      <4>1. G[1] = ws[1]
        BY <1>2, <1>3, <2>1, Zenon DEF IsWritten, IsRest
      <4> QED
        BY <1>2, <1>8, <1>9, <3>2, <4>1, Zenon DEF IsWritten
    <3>4. IsWhole(Halves(x, slash), W, x)
      BY <1>8, HalvesNone
    <3>5. h \in Seq(Seq(W)) /\ Len(h) = 1 /\ h[1] = x
      BY <1>9, <3>3, <3>4, Zenon DEF IsWhole
    <3>6. 2 \notin DOMAIN h
      BY <3>5
    <3>7. rest = <<>>
      BY <1>9, <3>6, Zenon DEF Piece
    <3>8. q = <<>>
      <4>1. IsField(i, 2, W)
        BY FieldIs
      <4> QED
        BY <1>3, <1>7, <3>1, <4>1, Zenon DEF IsField, IsText
    <3>9. SchemaEnd(q) = 0
      <4>1. \A j \in 1 .. Len(q) : q[j] \notin {"/", "|"}
        BY <3>8
      <4> QED
        BY <4>1, SchemaUncut
    <3>10. Plain
      BY <1>9, <3>2, <3>7, <3>8, <3>9, Zenon DEF Plain
    <3> QED
      BY <3>5, <3>10
  <2>2. CASE n # 1
    <3>1. n = 2
      <4>1. n <= 2
        BY <1>3, Zenon DEF IsSvcEntry
      <4>2. n >= 1
        BY <1>3, Zenon
      <4> QED
        BY <2>2, <4>1, <4>2
    <3>2. 2 \in 1 .. n /\ 1 \in 1 .. 2 - 1 /\ 1 + 1 = 2
      BY <3>1
    <3>3. ws[2] = q /\ Lacks(q, slash) /\ Lacks(q, pipe)
      BY <1>3, <1>4, <1>7, <3>2, Zenon
    <3>4. \A j \in 1 .. Len(q) : q[j] \notin {"/", "|"}
      BY <1>4, <3>3 DEF Lacks
    <3>5. G[1] = x \o (e \o q)
      <4>1. G[1] = ws[1] \o (e \o G[2]) /\ G[2] = ws[2]
        BY <1>2, <1>3, <3>1, <3>2, Zenon DEF IsWritten, IsRest
      <4> QED
        BY <1>8, <3>3, <4>1, Zenon
    <3>6. CASE i.mark = ""
      <4>1. entry = x \o (e \o q)
        BY <1>2, <1>9, <3>5, <3>6, Zenon DEF IsWritten
      <4>2. IsCut(Halves(x \o (e \o q), e[1]), W, x, q)
        BY <1>6, <1>8, HalvesCut
      <4>3. h[1] = x /\ h[2] = q
        BY <1>6, <1>9, <4>1, <4>2, Zenon DEF IsCut
      <4>4. rest = q
        <5>1. h \in Seq(Seq(W)) /\ Len(h) = 2
          BY <1>6, <1>9, <4>1, <4>2, Zenon DEF IsCut
        <5>2. 2 \in DOMAIN h
          BY <5>1
        <5> QED
          BY <1>9, <4>3, <5>2, Zenon DEF Piece
      <4>5. SchemaEnd(q) = 0
        BY <3>4, SchemaUncut
      <4> QED
        BY <1>9, <3>6, <4>3, <4>4, <4>5, Zenon DEF Plain
    <3>7. CASE i.mark # ""
      <4>1. PICK c \in W : c = i.mark /\ c \in {"/", "|"}
        BY <1>4, <1>5, <3>7, Zenon DEF IsEntry
      <4>2. PICK m \in Seq(W) : m = <<c>> /\ Len(m) = 1 /\ m[1] = c
        <5>1. IsOneWord(<<c>>, W, c)
          BY OneWord
        <5> QED
          BY <5>1, Zenon DEF IsOneWord
      <4>3. PICK p \in Seq(W) : p = i.path
        BY Zenon DEF IsEntry
      <4>4. PICK y \in Seq(W) : y = q \o (m \o p)
        BY ConcatProperties
      <4>5. IsJoint(y, W, q, m[1], p)
        BY <4>2, <4>4, Joint
      <4>6. entry = x \o (e \o y)
        <5>1. PICK mp \in Seq(W) : mp = m \o p
          BY ConcatProperties
        <5>2. Regroups(x, e, q, mp)
          BY <1>6, Regroup
        <5>3. entry = (x \o (e \o q)) \o mp
          BY <1>2, <1>9, <3>5, <3>7, <4>1, <4>2, <4>3, <5>1, Zenon DEF IsWritten
        <5> QED
          BY <4>4, <5>1, <5>2, <5>3, Zenon DEF Regroups
      <4>7. IsCut(Halves(x \o (e \o y), e[1]), W, x, y)
        BY <1>6, <1>8, HalvesCut
      <4>8. h \in Seq(Seq(W)) /\ Len(h) = 2 /\ h[1] = x /\ h[2] = y
        BY <1>6, <1>9, <4>6, <4>7, Zenon DEF IsCut
      <4>9. 2 \in DOMAIN h
        BY <4>8
      <4>10. PICK k \in Nat : k = Len(q) + 1 /\ k # 0 /\ k - 1 = Len(q) /\ k + 1 = Len(q) + 2
        <5>1. Len(q) \in Nat
          OBVIOUS
        <5>2. \A l \in Nat : l + 1 \in Nat /\ l + 1 # 0 /\ (l + 1) - 1 = l /\ (l + 1) + 1 = l + 2
          OBVIOUS
        <5> QED
          BY <5>1, <5>2, Zenon
      <4>11. /\ SubSeq(y, 1, k - 1) = q /\ y[k] = c /\ SubSeq(y, k + 1, Len(y)) = p
             /\ Len(y) >= 1
        <5>1. Len(y) = Len(q) + 1 + Len(p) /\ Len(q) \in Nat /\ Len(p) \in Nat
          BY <4>5 DEF IsJoint
        <5> QED
          BY <4>2, <4>5, <4>10, <5>1 DEF IsJoint
      <4>12. y # <<>>
        BY <4>11
      <4>13. rest = y
        BY <1>9, <4>8, <4>9, <4>12, Zenon DEF Piece
      <4>14. end = k
        <5>1. SchemaEnd(q \o (m \o p)) = Len(q) + 1
          BY <3>4, <4>1, <4>2, SchemaCut
        <5> QED
          BY <1>9, <4>4, <4>10, <4>13, <5>1, Zenon
      <4>15. Pathed
        BY <4>1, <4>3, <4>10, <4>11, <4>13, <4>14, Zenon DEF Pathed, After
      <4> QED
        BY <4>8, <4>15
    <3> QED
      BY <3>6, <3>7, Zenon
  <2> QED
    BY <2>1, <2>2
<1>12. CASE Plain
  <2>1. SvcPieces(entry) = [name |-> x, schema |-> q, path |-> Root]
    BY <1>10, <1>11, <1>12, Zenon DEF Plain
  <2>2. (IF i.mark = "|" THEN i.path ELSE Root \o RB!Unslashed(i.path)) = Root
    BY <1>12, RootAlone, Zenon DEF Plain
  <2> QED
    BY <1>7, <1>9, <2>1, <2>2, Zenon
<1>13. CASE Pathed
  <2>1. TrimSlashes(i.path) = RB!Unslashed(i.path)
    BY Trimmed, Zenon DEF IsEntry
  <2>2. SvcPieces(entry) = [name |-> x, schema |-> q,
                            path |-> IF i.mark = "|" THEN i.path
                                     ELSE Root \o TrimSlashes(i.path)]
    <3>1. CASE i.mark = "|"
      BY <1>4, <1>10, <1>11, <1>13, <3>1, Zenon DEF Pathed
    <3>2. CASE i.mark # "|"
      BY <1>4, <1>10, <1>11, <1>13, <3>2, Zenon DEF Pathed
    <3> QED
      BY <3>1, <3>2, Zenon
  <2> QED
    BY <1>7, <1>9, <2>1, <2>2, Zenon
<1> QED
  BY <1>11, <1>12, <1>13

(* An entry of the annotation of a Service, with a port name and perhaps a *)
(* schema and a path after either of the separators, whatever is in the    *)
(* path, is taken by ParseSvcMapping (parse-mapping.go) exactly if it is   *)
(* sound, and read as what it means.                                       *)
THEOREM SvcEntriesAreRead ==
    ASSUME NEW i, NEW W, IsEntry(i, W), IsSvcEntry(i), NEW order
    PROVE  LET e == SvcPieces(RB!Written(i))
               m == SvcMapping(e, order)
           IN  /\ SvcOk(e) <=> RB!SvcSound(i)
               /\ [portName |-> m.portName, schema |-> m.schema, path |-> m.path]
                     = RB!SvcMeaning(i)
<1>1. PICK e, m : e = SvcPieces(RB!Written(i)) /\ m = SvcMapping(e, order)
  BY Zenon
<1>2. /\ e.name = RB!Word(RB!Field(i, 1)) /\ e.schema = RB!Word(RB!Field(i, 2))
      /\ e.path = IF i.mark = "|" THEN i.path ELSE <<"/">> \o RB!Unslashed(i.path)
  <2>1. e = [name |-> RB!Word(RB!Field(i, 1)), schema |-> RB!Word(RB!Field(i, 2)),
             path |-> IF i.mark = "|" THEN i.path ELSE Root \o RB!Unslashed(i.path)]
    BY <1>1, SvcPiecesRead, Zenon
  <2> QED
    BY <2>1, Zenon DEF Root
<1>3. IsField(i, 1, W) /\ IsField(i, 2, W)
  BY FieldIs
<1>4. e.name = <<>> <=> RB!Field(i, 1) = ""
  BY <1>2, <1>3, Zenon DEF IsField, IsText
<1>5. /\ (e.schema = <<>> <=> RB!Field(i, 2) = "")
      /\ RB!Schema(RB!Field(i, 2)) = IF e.schema = <<>> THEN Http ELSE e.schema
  <2>1. e.schema = <<>> <=> RB!Field(i, 2) = ""
    BY <1>2, <1>3, Zenon DEF IsField, IsText
  <2>2. CASE RB!Field(i, 2) = ""
    BY <2>1, <2>2, Zenon DEF RB!Schema, Http
  <2>3. CASE RB!Field(i, 2) # ""
    BY <1>2, <2>1, <2>3, Zenon DEF RB!Schema, RB!Word
  <2> QED
    BY <2>1, <2>2, <2>3, Zenon
<1>6. SvcOk(e) <=> RB!SvcSound(i)
  <2>1. Http \in validSchema /\ validSchema = RB!Schemas
    BY SchemasSame, Zenon DEF validSchema
  <2> QED
    BY <1>4, <1>5, <2>1, Zenon DEF SvcOk, RB!SvcSound
<1>7. [portName |-> m.portName, schema |-> m.schema, path |-> m.path] = RB!SvcMeaning(i)
  <2>1. /\ m.portName = e.name /\ m.path = e.path
        /\ m.schema = IF e.schema = <<>> THEN Http ELSE e.schema
    BY <1>1, Zenon DEF SvcMapping
  <2> QED
    BY <1>2, <1>5, <2>1, Zenon DEF RB!SvcMeaning
<1> QED
  BY <1>1, <1>6, <1>7, Zenon
=============================================================================
