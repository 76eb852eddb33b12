----------------------------- MODULE TextProofs -----------------------------
(***************************************************************************)
(* What the rewriting of a text does, for every text: re.sub and the       *)
(* redaction passes return texts, _resolve_overlap keeps the better        *)
(* findings, and splicing from the right is one pass from the left.        *)
(*                                                                         *)
(* The definitions are recursive functions over positions. RecursionExists *)
(* gives such a function the equation it is defined by, and Induction goes *)
(* over the set of the positions a claim is true of.                       *)
(***************************************************************************)
EXTENDS MaskingEngine, Integers, FiniteSetTheorems, SequenceTheorems,
        WellFoundedInduction, TLAPS

-----------------------------------------------------------------------------
(* A set of numbers that is not empty has a least element. *)
LEMMA Least ==
    ASSUME NEW T \in SUBSET Nat, T # {}
    PROVE  \E x \in T : \A y \in T : x <= y
<1> DEFINE R == {p \in Nat \X Nat : p[1] < p[2]}
<1>1. IsWellFoundedOn(R, Nat)
  BY NatLessThanWellFounded DEF OpToRel
<1>2. PICK x \in T : \A y \in T : <<y, x>> \notin R
  <2> HIDE DEF R
  <2> QED BY <1>1, WFMin
<1>3. \A y \in Nat : y < x => <<y, x>> \in R
  OBVIOUS
<1>4. ASSUME NEW y \in T PROVE x <= y
  <2>1. x \in Nat /\ y \in Nat
    OBVIOUS
  <2>2. <<y, x>> \notin R
    BY <1>2
  <2>3. ~(y < x)
    BY <1>3, <2>1, <2>2
  <2> QED BY <2>1, <2>3
<1> QED BY <1>4

(* Induction over a set: the set of the positions a claim is true of       *)
(* takes the place of the claim.                                           *)
LEMMA Induction ==
    ASSUME NEW N \in Nat, NEW S, 0 \in S, \A n \in 0 .. N - 1 : n \in S => n + 1 \in S
    PROVE  \A n \in 0 .. N : n \in S
<1> DEFINE T == (0 .. N) \ S
<1>1. SUFFICES ASSUME T # {} PROVE FALSE
  OBVIOUS
<1>2. PICK x \in T : \A y \in T : x <= y
  <2>1. T \in SUBSET Nat
    OBVIOUS
  <2> HIDE DEF T
  <2> QED BY <1>1, <2>1, Least
<1>3. x # 0 /\ x - 1 \in 0 .. N - 1 /\ x - 1 \notin T /\ x - 1 + 1 = x
  BY <1>2
<1> QED BY <1>3, <1>2

(* A recursive function over 0 .. N with values in a given set exists, so  *)
(* the function a definition CHOOSEs satisfies its equation.               *)
LEMMA RecursionExists ==
    ASSUME NEW V, NEW base \in V, NEW N \in Nat, NEW step \in [1 .. N -> [V -> V]]
    PROVE  \E f \in [0 .. N -> V] :
              f[0] = base /\ \A i \in 1 .. N : f[i] = step[i][f[i - 1]]
<1> DEFINE Good(n) == \E f \in [0 .. n -> V] :
                f[0] = base /\ \A i \in 1 .. n : f[i] = step[i][f[i - 1]]
           S == {n \in 0 .. N : Good(n)}
<1>1. 0 \in S
  <2> DEFINE f == [i \in 0 .. 0 |-> base]
  <2>1. f \in [0 .. 0 -> V] /\ f[0] = base /\ \A i \in 1 .. 0 : f[i] = step[i][f[i - 1]]
    OBVIOUS
  <2>2. Good(0)
    <3> HIDE DEF f
    <3> QED BY <2>1
  <2> HIDE DEF Good
  <2> QED BY <2>2
<1>2. ASSUME NEW n \in 0 .. N - 1, n \in S PROVE n + 1 \in S
  <2> SUFFICES \E g \in [0 .. n + 1 -> V] :
                 g[0] = base /\ \A i \in 1 .. n + 1 : g[i] = step[i][g[i - 1]]
    <3>1. n + 1 \in 0 .. N
      OBVIOUS
    <3> QED BY <3>1
  <2>1. PICK f \in [0 .. n -> V] :
                f[0] = base /\ \A i \in 1 .. n : f[i] = step[i][f[i - 1]]
    BY <1>2
  <2> DEFINE g == [i \in 0 .. n + 1 |-> IF i = n + 1 THEN step[n + 1][f[n]] ELSE f[i]]
  <2>2. f[n] \in V /\ n + 1 \in 1 .. N
    BY <2>1
  <2>3. step[n + 1][f[n]] \in V
    BY <2>2
  <2>4. g \in [0 .. n + 1 -> V]
    BY <2>3, <2>1
  <2>5. g[0] = base
    BY <2>1
  <2>6. ASSUME NEW i \in 1 .. n + 1 PROVE g[i] = step[i][g[i - 1]]
    <3>1. CASE i = n + 1
      <4>1. g[i] = step[n + 1][f[n]] /\ g[i - 1] = f[n]
        BY <3>1
      <4> QED BY <4>1, <3>1
    <3>2. CASE i # n + 1
      <4>1. i \in 1 .. n /\ g[i] = f[i] /\ g[i - 1] = f[i - 1]
        BY <3>2
      <4> QED BY <4>1, <2>1
    <3> QED BY <3>1, <3>2
  <2> QED BY <2>4, <2>5, <2>6
<1>3. N \in S
  <2> HIDE DEF S
  <2>1. \A n \in 0 .. N - 1 : n \in S => n + 1 \in S
    BY <1>2
  <2>2. \A n \in 0 .. N : n \in S
    BY ONLY <1>1, <2>1, Induction, N \in Nat
  <2> QED BY <2>2
<1> QED BY <1>3

-----------------------------------------------------------------------------
(* The length and the symbols of a concatenation. *)
LEMMA Concatenation ==
    ASSUME NEW S, NEW a \in Seq(S), NEW b \in Seq(S)
    PROVE  /\ a \o b \in Seq(S)
           /\ Len(a) \in Nat /\ Len(b) \in Nat
           /\ DOMAIN a = 1 .. Len(a) /\ DOMAIN b = 1 .. Len(b)
           /\ DOMAIN (a \o b) = 1 .. Len(a) + Len(b)
           /\ \A q \in 1 .. Len(a) : (a \o b)[q] = a[q]
           /\ \A q \in 1 .. Len(b) : (a \o b)[Len(a) + q] = b[q]
  OBVIOUS

(* A position of a sequence of length l, behind one of length m. *)
LEMMA Shifted ==
    ASSUME NEW m \in Nat, NEW l \in Nat, NEW k \in 1 .. l
    PROVE  m + k \in 1 .. m + l /\ m + k > m /\ m + k - m = k
  OBVIOUS

(* FlattenSeq puts one piece behind the others. *)
LEMMA FlattenUnfolds ==
    ASSUME NEW S, NEW pieces \in Seq(Seq(S))
    PROVE  \E g \in [0 .. Len(pieces) -> Seq(S)] :
              /\ g[0] = <<>>
              /\ \A i \in 1 .. Len(pieces) : g[i] = g[i - 1] \o pieces[i]
              /\ Seqs!FlattenSeq(pieces) = g[Len(pieces)]
<1> DEFINE n == Len(pieces)
           F(f) == [i \in 1 .. n |-> IF i = 1 THEN pieces[i] ELSE f[i - 1] \o pieces[i]]
           f == CHOOSE f : f = F(f)
           step == [i \in 1 .. n |-> [v \in Seq(S) |-> v \o pieces[i]]]
<1>1. n \in Nat /\ \A i \in 1 .. n : pieces[i] \in Seq(S)
  BY ONLY pieces \in Seq(Seq(S))
<1>2. PICK h \in [0 .. n -> Seq(S)] : h[0] = <<>> /\ \A i \in 1 .. n : h[i] = step[i][h[i - 1]]
  <2> DEFINE V == Seq(S)
             base == <<>>
  <2>1. n \in Nat /\ base \in V /\ step \in [1 .. n -> [V -> V]]
    BY <1>1
  <2> HIDE DEF step, V, n, base
  <2>2. \E h \in [0 .. n -> V] : h[0] = base /\ \A i \in 1 .. n : h[i] = step[i][h[i - 1]]
    BY ONLY <2>1, RecursionExists, SMTT(30)
  <2> QED BY <2>2 DEF V, base
<1>3. \A i \in 1 .. n : h[i] = h[i - 1] \o pieces[i]
  <2> TAKE i \in 1 .. n
  <2>1. h[i - 1] \in Seq(S)
    OBVIOUS
  <2> QED BY <1>2, <2>1
<1> HIDE DEF step
<1>4. CASE n = 0
  <2>1. Seqs!FlattenSeq(pieces) = pieces /\ pieces = <<>>
    BY <1>4 DEF Seqs!FlattenSeq
  <2> QED BY <2>1, <1>4, <1>2
<1>5. CASE n # 0
  <2> DEFINE g == [i \in 1 .. n |-> h[i]]
  <2>1. \A i \in 1 .. n : g[i] = IF i = 1 THEN pieces[i] ELSE g[i - 1] \o pieces[i]
    <3> TAKE i \in 1 .. n
    <3>1. CASE i = 1
      <4>1. h[i] = <<>> \o pieces[i]
        <5>1. h[i] = h[i - 1] \o pieces[i]
          BY ONLY <1>3, i \in 1 .. n, Zenon
        <5>2. i - 1 = 0
          BY <3>1
        <5> QED BY <5>1, <5>2, <1>2
      <4>2. <<>> \o pieces[i] = pieces[i]
        BY <1>1
      <4> QED BY <3>1, <4>1, <4>2
    <3>2. CASE i # 1
      <4>1. g[i] = h[i] /\ g[i - 1] = h[i - 1]
        BY <3>2, <1>1
      <4> QED BY <3>2, <4>1, <1>3
    <3> QED BY <3>1, <3>2
  <2>2. g = F(g)
    <3> DEFINE G == F(g)
    <3>1. g = [i \in 1 .. n |-> g[i]]
      <4> HIDE DEF n
      <4> QED OBVIOUS
    <3>2. G = [i \in 1 .. n |-> G[i]] /\ \A i \in 1 .. n : G[i] = g[i]
      <4> HIDE DEF g, n
      <4> QED BY <2>1
    <3>3. g = G
      <4> HIDE DEF g, n, G
      <4> QED BY ONLY <3>1, <3>2
    <3> QED BY <3>3
  <2>3. f = F(f)
    <3> HIDE DEF g
    <3> QED BY <2>2, Zenon
  <2> HIDE DEF f
  <2>4. \A i \in 1 .. n : f[i] = IF i = 1 THEN pieces[i] ELSE f[i - 1] \o pieces[i]
    <3> DEFINE G == F(f)
    <3>1. \A i \in 1 .. n : G[i] = IF i = 1 THEN pieces[i] ELSE f[i - 1] \o pieces[i]
      OBVIOUS
    <3>2. f = G
      BY <2>3
    <3> HIDE DEF G
    <3> QED BY <3>1, <3>2
  <2>5. Seqs!FlattenSeq(pieces) = f[n]
    BY <1>5 DEF Seqs!FlattenSeq, f
  <2>6. PICK k : /\ Seqs!FlattenSeq(pieces) = k[n]
                 /\ \A i \in 1 .. n : k[i] = IF i = 1 THEN pieces[i] ELSE k[i - 1] \o pieces[i]
    BY <2>4, <2>5
  <2> DEFINE A == {i \in 0 .. n : i # 0 => k[i] = h[i]}
  <2>7. 0 \in A
    BY <1>1
  <2>8. ASSUME NEW i \in 0 .. n - 1, i \in A PROVE i + 1 \in A
    <3>1. i + 1 \in 1 .. n /\ i + 1 - 1 = i
      BY <1>1
    <3>2. k[i + 1] = IF i + 1 = 1 THEN pieces[i + 1] ELSE k[i] \o pieces[i + 1]
      BY <2>6, <3>1
    <3>3. h[i + 1] = h[i] \o pieces[i + 1]
      <4>1. PICK j \in 1 .. n : j = i + 1
        BY <3>1
      <4>2. h[j] = h[j - 1] \o pieces[j]
        BY ONLY <1>3, j \in 1 .. n, Zenon
      <4>3. j - 1 = i
        BY <4>1
      <4> QED BY <4>1, <4>2, <4>3
    <3>4. CASE i = 0
      <4>1. <<>> \o pieces[1] = pieces[1]
        BY <1>1, <3>1, <3>4
      <4> QED BY <3>1, <3>2, <3>3, <3>4, <4>1, <1>2
    <3>5. CASE i # 0
      <4>1. k[i] = h[i]
        BY <2>8, <3>5
      <4>2. i + 1 # 1
        BY <3>5
      <4>3. k[i + 1] = h[i + 1]
        BY ONLY <3>2, <3>3, <4>1, <4>2
      <4> QED BY <4>3, <3>1
    <3> QED BY <3>4, <3>5
  <2>9. n \in A
    <3> HIDE DEF A, n
    <3>1. \A i \in 0 .. n - 1 : i \in A => i + 1 \in A
      BY <2>8
    <3>2. \A i \in 0 .. n : i \in A
      BY ONLY <1>1, <2>7, <3>1, Induction
    <3> QED BY <3>2, <1>1
  <2>10. Seqs!FlattenSeq(pieces) = h[n]
    BY <2>9, <1>5, <2>6
  <2> QED BY <2>10, <1>2, <1>3
<1> QED BY <1>4, <1>5

(* Every symbol of a flattened sequence comes from one place of one piece, *)
(* in order, and every place of every piece is in it.                      *)
From(out, pieces, n, src, off) ==
    /\ src \in [DOMAIN out -> 1 .. n] /\ off \in [DOMAIN out -> Nat]
    /\ \A q \in DOMAIN out :
          off[q] \in DOMAIN pieces[src[q]] /\ out[q] = pieces[src[q]][off[q]]
    /\ \A q, r \in DOMAIN out : q < r =>
          src[q] < src[r] \/ (src[q] = src[r] /\ off[q] < off[r])
    /\ \A i \in 1 .. n : \A k \in DOMAIN pieces[i] :
          \E q \in DOMAIN out : src[q] = i /\ off[q] = k

(* What FlattenSeq returns is a sequence over the symbols of the pieces,   *)
(* and comes from them place by place.                                     *)
LEMMA FlattenFrom ==
    ASSUME NEW S, NEW pieces \in Seq(Seq(S))
    PROVE  /\ Seqs!FlattenSeq(pieces) \in Seq(S)
           /\ \E src, off : From(Seqs!FlattenSeq(pieces), pieces, Len(pieces), src, off)
<1> DEFINE n == Len(pieces)
<1>1. n \in Nat /\ \A i \in 1 .. n : pieces[i] \in Seq(S)
  OBVIOUS
<1>2. PICK g \in [0 .. n -> Seq(S)] :
         /\ g[0] = <<>>
         /\ \A i \in 1 .. n : g[i] = g[i - 1] \o pieces[i]
         /\ Seqs!FlattenSeq(pieces) = g[n]
  BY FlattenUnfolds
<1> HIDE DEF n
<1> DEFINE A == {i \in 0 .. n : \E src, off : From(g[i], pieces, i, src, off)}
<1>3. 0 \in A
  <2> DEFINE src == <<>>
             off == <<>>
  <2>1. From(g[0], pieces, 0, src, off)
    BY <1>2 DEF From
  <2> QED BY <2>1, <1>1
<1>4. ASSUME NEW i \in 0 .. n - 1, i \in A PROVE i + 1 \in A
  <2>1. PICK src, off : From(g[i], pieces, i, src, off)
    BY <1>4
  <2>2. PICK j \in 1 .. n : j = i + 1
    BY <1>1
  <2> DEFINE p == pieces[j]
             m == Len(g[i])
  <2>3. g[j] = g[i] \o p
    <3>1. g[j] = g[j - 1] \o pieces[j]
      BY ONLY <1>2, j \in 1 .. n, Zenon
    <3>2. j - 1 = i
      BY <2>2
    <3> QED BY ONLY <3>1, <3>2
  <2>4. p \in Seq(S) /\ g[i] \in Seq(S) /\ m \in Nat /\ g[j] \in Seq(S)
    BY <1>1, <1>2
  <2>5. /\ DOMAIN g[j] = 1 .. m + Len(p) /\ DOMAIN g[i] = 1 .. m /\ DOMAIN p = 1 .. Len(p)
        /\ \A q \in 1 .. m : g[j][q] = g[i][q]
        /\ \A q \in 1 .. Len(p) : g[j][m + q] = p[q]
        /\ Len(p) \in Nat
    <3> HIDE DEF p
    <3>1. /\ Len(g[i]) \in Nat /\ Len(p) \in Nat
          /\ DOMAIN g[i] = 1 .. Len(g[i]) /\ DOMAIN p = 1 .. Len(p)
          /\ DOMAIN (g[i] \o p) = 1 .. Len(g[i]) + Len(p)
          /\ \A q \in 1 .. Len(g[i]) : (g[i] \o p)[q] = g[i][q]
          /\ \A q \in 1 .. Len(p) : (g[i] \o p)[Len(g[i]) + q] = p[q]
      BY ONLY <2>4, Concatenation
    <3> QED BY ONLY <3>1, <2>3
  <2> DEFINE src2 == [q \in DOMAIN g[j] |-> IF q <= m THEN src[q] ELSE j]
             off2 == [q \in DOMAIN g[j] |-> IF q <= m THEN off[q] ELSE q - m]
  <2> HIDE DEF m, p
  <2>6. \A q \in DOMAIN g[j] : q > m => g[j][q] = p[q - m] /\ q - m \in DOMAIN p
    <3> TAKE q \in DOMAIN g[j]
    <3> HAVE q > m
    <3>1. q - m \in 1 .. Len(p) /\ m + (q - m) = q
      BY <2>4, <2>5
    <3> QED BY <3>1, <2>5
  <2>7. From(g[j], pieces, j, src2, off2)
    <3>1. src2 \in [DOMAIN g[j] -> 1 .. j] /\ off2 \in [DOMAIN g[j] -> Nat]
      <4>1. ASSUME NEW q \in DOMAIN g[j] PROVE src2[q] \in 1 .. j /\ off2[q] \in Nat
        <5>1. CASE q <= m
          <6>1. q \in DOMAIN g[i] /\ src2[q] = src[q] /\ off2[q] = off[q]
            BY <5>1, <2>4, <2>5
          <6>2. src[q] \in 1 .. i /\ off[q] \in Nat
            BY <6>1, <2>1 DEF From
          <6> QED BY <6>1, <6>2, <2>2
        <5>2. CASE q > m
          <6>1. src2[q] = j /\ off2[q] = q - m
            BY <5>2, <2>4, <2>5
          <6>2. q - m \in Nat
            BY <5>2, <2>4, <2>5
          <6> QED BY <6>1, <6>2, <2>2
        <5> QED BY <5>1, <5>2, <2>4, <2>5
      <4> QED BY <4>1
    <3>2. ASSUME NEW q \in DOMAIN g[j]
          PROVE  off2[q] \in DOMAIN pieces[src2[q]] /\ g[j][q] = pieces[src2[q]][off2[q]]
      <4>1. CASE q <= m
        <5>1. q \in DOMAIN g[i] /\ src2[q] = src[q] /\ off2[q] = off[q] /\ g[j][q] = g[i][q]
          BY <4>1, <2>4, <2>5
        <5> QED BY <5>1, <2>1 DEF From
      <4>2. CASE q > m
        <5>1. src2[q] = j /\ off2[q] = q - m
          BY <4>2, <2>4, <2>5
        <5> QED BY <5>1, <4>2, <2>6 DEF p
      <4> QED BY <4>1, <4>2, <2>4, <2>5
    <3>3. ASSUME NEW q \in DOMAIN g[j], NEW r \in DOMAIN g[j], q < r
          PROVE  src2[q] < src2[r] \/ (src2[q] = src2[r] /\ off2[q] < off2[r])
      <4>1. q \in Nat /\ r \in Nat
        BY <2>4, <2>5
      <4>2. CASE r <= m
        <5>1. q \in DOMAIN g[i] /\ r \in DOMAIN g[i] /\ src2[q] = src[q] /\ off2[q] = off[q]
                /\ src2[r] = src[r] /\ off2[r] = off[r]
          BY <4>1, <4>2, <2>4, <2>5, <3>3
        <5> QED BY <5>1, <2>1, <3>3 DEF From
      <4>3. CASE r > m /\ q <= m
        <5>1. q \in DOMAIN g[i] /\ src2[q] = src[q] /\ src2[r] = j
          BY <4>1, <4>3, <2>4, <2>5
        <5>2. src[q] \in 1 .. i
          BY <5>1, <2>1 DEF From
        <5> QED BY <5>1, <5>2, <2>2
      <4>4. CASE q > m
        <5>1. src2[q] = j /\ src2[r] = j /\ off2[q] = q - m /\ off2[r] = r - m
          BY <4>1, <4>4, <2>4, <2>5, <3>3
        <5> QED BY <5>1, <4>1, <2>4, <3>3
      <4> QED BY <4>1, <4>2, <4>3, <4>4, <2>4
    <3>4. ASSUME NEW a \in 1 .. j, NEW k \in DOMAIN pieces[a]
          PROVE  \E q \in DOMAIN g[j] : src2[q] = a /\ off2[q] = k
      <4>1. CASE a = j
        <5>1. k \in 1 .. Len(p)
          BY <4>1, <2>5 DEF p
        <5>2. m + k \in DOMAIN g[j] /\ m + k > m /\ m + k - m = k
          <6>1. m \in Nat /\ Len(p) \in Nat /\ DOMAIN g[j] = 1 .. m + Len(p)
            BY ONLY <2>4, <2>5
          <6>2. PICK l \in Nat : l = Len(p)
            BY ONLY <6>1
          <6> HIDE DEF m, p, src2, off2
          <6>3. k \in 1 .. l /\ DOMAIN g[j] = 1 .. m + l
            BY ONLY <5>1, <6>1, <6>2
          <6>4. m + k \in 1 .. m + l /\ m + k > m /\ m + k - m = k
            BY ONLY <6>1, <6>3, l \in Nat, Shifted
          <6> QED BY ONLY <6>3, <6>4
        <5>3. src2[m + k] = j /\ off2[m + k] = k
          BY <5>2, <2>4, <5>1
        <5> QED BY <5>2, <5>3, <4>1
      <4>2. CASE a # j
        <5>1. a \in 1 .. i
          BY <4>2, <2>2
        <5>2. PICK q \in DOMAIN g[i] : src[q] = a /\ off[q] = k
          BY <5>1, <2>1, <3>4 DEF From
        <5>3. q \in DOMAIN g[j] /\ q <= m
          BY <2>4, <2>5
        <5>4. src2[q] = a /\ off2[q] = k
          BY <5>2, <5>3
        <5> QED BY <5>3, <5>4
      <4> QED BY <4>1, <4>2
    <3> HIDE DEF src2, off2
    <3> QED BY <3>1, <3>2, <3>3, <3>4 DEF From
  <2>8. \E s2, o2 : From(g[j], pieces, j, s2, o2)
    BY <2>7
  <2> QED BY <2>8, <2>2
<1>5. n \in A
  <2> HIDE DEF A
  <2>1. \A i \in 0 .. n - 1 : i \in A => i + 1 \in A
    BY <1>4
  <2>2. \A i \in 0 .. n : i \in A
    BY ONLY <1>1, <1>3, <2>1, Induction
  <2> QED BY <2>2, <1>1
<1> QED BY <1>5, <1>2, <1>1 DEF n

-----------------------------------------------------------------------------
(* Whatever a regular expression matches, re.sub returns a text over what  *)
(* was there and what it puts in.                                          *)
LEMMA SubText ==
    ASSUME NEW S, NEW text \in Seq(S), NEW end, NEW by \in [DOMAIN text -> Seq(S)]
    PROVE  Sub(text, end, by) \in Seq(S)
<1> DEFINE M == Matches(text, end)
           Piece(i) == IF i \in M THEN by[i]
                       ELSE IF InMatch(end, M, i) THEN <<>> ELSE <<text[i]>>
           pieces == [i \in DOMAIN text |-> Piece(i)]
<1>1. Sub(text, end, by) = Seqs!FlattenSeq(pieces)
  BY DEF Sub
<1>2. pieces \in Seq(Seq(S))
  <2>1. ASSUME NEW i \in DOMAIN text PROVE Piece(i) \in Seq(S)
    <3>1. text[i] \in S /\ by[i] \in Seq(S) /\ <<>> \in Seq(S) /\ <<text[i]>> \in Seq(S)
      OBVIOUS
    <3> HIDE DEF M
    <3> QED BY <3>1
  <2>2. DOMAIN text = 1 .. Len(text) /\ Len(text) \in Nat
    OBVIOUS
  <2> HIDE DEF Piece
  <2> QED BY <2>1, <2>2
<1> HIDE DEF pieces
<1> QED BY <1>1, <1>2, FlattenFrom

(* What can match ends behind where it starts. *)
Ends(text, end) ==
    \A i \in DOMAIN text : end[i] = NoMatch \/ (end[i] \in Nat /\ i <= end[i])

(* The matches of one scan up to a position: none starts where none can,   *)
(* they do not meet, and what could match and does not is in another one.  *)
ScannedTo(end, k, M) ==
    /\ \A i \in M : i \in 1 .. k /\ end[i] # NoMatch
    /\ \A i \in 1 .. k : end[i] # NoMatch => InMatch(end, M, i)
    /\ \A i, j \in M : i < j => end[i] < j

(* Matches as a loop over the positions. *)
LEMMA MatchesUnfold ==
    ASSUME NEW S, NEW text, text \in Seq(S), NEW end
    PROVE  \E g \in [0 .. Len(text) -> SUBSET DOMAIN text] :
              /\ g[0] = {}
              /\ \A i \in 1 .. Len(text) :
                    g[i] = IF end[i] = NoMatch \/ InMatch(end, g[i - 1], i)
                           THEN g[i - 1] ELSE g[i - 1] \cup {i}
              /\ Matches(text, end) = g[Len(text)]
<1> DEFINE n == Len(text)
           E(i, v) == IF end[i] = NoMatch \/ InMatch(end, v, i) THEN v ELSE v \cup {i}
           G(f) == [i \in 0 .. n |-> IF i = 0 THEN {} ELSE E(i, f[i - 1])]
           found == CHOOSE f : f = G(f)
           step == [i \in 1 .. n |-> [v \in SUBSET DOMAIN text |-> E(i, v)]]
<1>1. n \in Nat /\ DOMAIN text = 1 .. n
  OBVIOUS
<1>2. ASSUME NEW i \in 1 .. n, NEW v \in SUBSET DOMAIN text PROVE E(i, v) \in SUBSET DOMAIN text
  BY <1>1
<1>3. step \in [1 .. n -> [SUBSET DOMAIN text -> SUBSET DOMAIN text]]
  <2> HIDE DEF E
  <2> QED BY <1>2
<1>4. Matches(text, end) = found[n]
  BY DEF Matches
<1>5. PICK h \in [0 .. n -> SUBSET DOMAIN text] : h[0] = {} /\ \A i \in 1 .. n : h[i] = step[i][h[i - 1]]
  <2> DEFINE V == SUBSET DOMAIN text
  <2>1. n \in Nat /\ {} \in V /\ step \in [1 .. n -> [V -> V]]
    BY <1>1, <1>3
  <2> HIDE DEF step, V, n
  <2>2. \E h \in [0 .. n -> V] : h[0] = {} /\ \A i \in 1 .. n : h[i] = step[i][h[i - 1]]
    BY ONLY <2>1, RecursionExists, SMTT(30)
  <2> QED BY <2>2 DEF V
<1> HIDE DEF E
<1>6. \A i \in 1 .. n : h[i] = E(i, h[i - 1])
  <2> TAKE i \in 1 .. n
  <2>1. h[i - 1] \in SUBSET DOMAIN text
    OBVIOUS
  <2>2. h[i] = step[i][h[i - 1]]
    BY <1>5
  <2> QED BY <2>1, <2>2
<1> HIDE DEF step
<1>7. h = G(h)
  <2> DEFINE H == G(h)
  <2>1. H = [i \in 0 .. n |-> h[i]]
    BY <1>5, <1>6
  <2> HIDE DEF H
  <2>2. h = H
    BY <2>1
  <2> QED BY <2>2 DEF H
<1>8. found = G(found)
  BY <1>7
<1> HIDE DEF found
<1>9. found[0] = {} /\ \A i \in 1 .. n : found[i] = E(i, found[i - 1])
  <2> DEFINE H == G(found)
  <2>1. H[0] = {} /\ \A i \in 1 .. n : H[i] = E(i, found[i - 1])
    OBVIOUS
  <2>2. found = H
    BY <1>8
  <2> HIDE DEF H
  <2> QED BY <2>1, <2>2
<1>10. \A i \in 0 .. n : found[i] \in SUBSET DOMAIN text
  <2> DEFINE A == {i \in 0 .. n : found[i] \in SUBSET DOMAIN text}
  <2>1. 0 \in A
    BY <1>9
  <2>2. ASSUME NEW i \in 0 .. n - 1, i \in A PROVE i + 1 \in A
    <3>1. PICK j \in 1 .. n : j = i + 1 /\ j - 1 = i
      OBVIOUS
    <3>2. found[j] = E(j, found[j - 1])
      BY ONLY <1>9, j \in 1 .. n, Zenon
    <3>3. E(j, found[i]) \in SUBSET DOMAIN text
      BY <2>2, <1>2
    <3> QED BY <3>1, <3>2, <3>3
  <2> HIDE DEF A
  <2>3. \A i \in 0 .. n - 1 : i \in A => i + 1 \in A
    BY <2>2
  <2> HIDE DEF n
  <2>4. \A i \in 0 .. n : i \in A
    BY ONLY <1>1, <2>1, <2>3, Induction
  <2> QED BY <2>4 DEF A
<1> DEFINE a == [i \in 0 .. n |-> found[i]]
<1>11. a \in [0 .. n -> SUBSET DOMAIN text] /\ a[0] = {} /\ a[n] = found[n]
  BY <1>9, <1>10
<1>12. \A i \in 1 .. n : a[i] = E(i, a[i - 1])
  BY <1>9
<1> HIDE DEF a
<1> QED BY <1>11, <1>12, <1>4 DEF E

(* Matches is one scan of the whole text. *)
LEMMA MatchesAre ==
    ASSUME NEW S, NEW text \in Seq(S), NEW end, Ends(text, end)
    PROVE  ScannedTo(end, Len(text), Matches(text, end))
<1> DEFINE n == Len(text)
<1>1. n \in Nat /\ DOMAIN text = 1 .. n
  OBVIOUS
<1>2. PICK g \in [0 .. n -> SUBSET DOMAIN text] :
         /\ g[0] = {}
         /\ \A i \in 1 .. n : g[i] = IF end[i] = NoMatch \/ InMatch(end, g[i - 1], i)
                                     THEN g[i - 1] ELSE g[i - 1] \cup {i}
         /\ Matches(text, end) = g[n]
  BY MatchesUnfold
<1> HIDE DEF n
<1> DEFINE A == {k \in 0 .. n : ScannedTo(end, k, g[k])}
<1>3. 0 \in A
  BY <1>1, <1>2 DEF ScannedTo
<1>4. ASSUME NEW k \in 0 .. n - 1, k \in A PROVE k + 1 \in A
  <2>1. PICK j \in 1 .. n : j = k + 1 /\ j - 1 = k
    BY <1>1
  <2>2. g[j] = IF end[j] = NoMatch \/ InMatch(end, g[j - 1], j)
               THEN g[j - 1] ELSE g[j - 1] \cup {j}
    BY ONLY <1>2, j \in 1 .. n, Zenon
  <2> DEFINE M == g[k]
  <2>3. ScannedTo(end, k, M)
    BY <1>4
  <2>4. g[j] = IF end[j] = NoMatch \/ InMatch(end, M, j) THEN M ELSE M \cup {j}
    BY <2>1, <2>2
  <2> HIDE DEF M
  <2>5. CASE end[j] = NoMatch \/ InMatch(end, M, j)
    <3>1. g[j] = M
      BY <2>4, <2>5
    <3>2. ScannedTo(end, j, M)
      <4>1. \A i \in M : i \in 1 .. j /\ end[i] # NoMatch
        BY <2>1, <2>3, <1>1 DEF ScannedTo
      <4>2. \A i \in 1 .. j : i \in 1 .. k \/ i = j
        BY <2>1, <1>1
      <4> QED BY <4>1, <4>2, <2>3, <2>5 DEF ScannedTo
    <3> QED BY <2>1, <3>1, <3>2
  <2>6. CASE ~(end[j] = NoMatch \/ InMatch(end, M, j))
    <3> DEFINE N == M \cup {j}
    <3>1. g[j] = N
      BY <2>4, <2>6
    <3>2. \A i \in M : i \in 1 .. k /\ i < j /\ i \in Nat /\ end[i] # NoMatch
      BY <2>1, <2>3, <1>1 DEF ScannedTo
    <3>3. ASSUME NEW i \in M PROVE end[i] < j
      <4>1. i \in DOMAIN text
        BY <3>2, <1>1, <2>1
      <4>2. end[i] \in Nat
        BY <4>1, <3>2 DEF Ends
      <4>3. ~(i <= j /\ j <= end[i])
        BY <2>6 DEF InMatch
      <4> QED BY <4>2, <4>3, <3>2, <2>1
    <3>4. \A i \in N : i \in 1 .. j /\ end[i] # NoMatch
      BY <3>2, <2>1, <2>6, <1>1
    <3>5. ASSUME NEW i \in 1 .. j, end[i] # NoMatch PROVE InMatch(end, N, i)
      <4>1. CASE i = j
        <5>1. j \in DOMAIN text
          BY <1>1
        <5>2. j <= end[j] /\ j <= j
          BY <5>1, <2>6 DEF Ends
        <5> QED BY <4>1, <5>2 DEF InMatch
      <4>2. CASE i # j
        <5>1. i \in 1 .. k
          BY <4>2, <2>1, <1>1
        <5>2. InMatch(end, M, i)
          BY <5>1, <3>5, <2>3 DEF ScannedTo
        <5> QED BY <5>2 DEF InMatch
      <4> QED BY <4>1, <4>2
    <3>6. ASSUME NEW i \in N, NEW l \in N, i < l PROVE end[i] < l
      <4>1. CASE l = j
        <5>1. i # j
          BY <3>6, <4>1, <3>4
        <5> QED BY <5>1, <4>1, <3>3
      <4>2. CASE l # j
        <5>1. l \in M
          BY <4>2
        <5>2. i # j
          BY <5>1, <3>2, <3>6, <3>4
        <5> QED BY <5>1, <5>2, <2>3, <3>6 DEF ScannedTo
      <4> QED BY <4>1, <4>2
    <3> HIDE DEF N
    <3> QED BY <2>1, <3>1, <3>4, <3>5, <3>6 DEF ScannedTo
  <2> QED BY <2>5, <2>6
<1>5. \A k \in 0 .. n : k \in A
  <2> HIDE DEF A
  <2>1. \A k \in 0 .. n - 1 : k \in A => k + 1 \in A
    BY <1>4
  <2> QED BY ONLY <1>1, <1>3, <2>1, Induction
<1>6. ScannedTo(end, n, g[n])
  BY <1>1, <1>5
<1> QED BY <1>2, <1>6 DEF n

(* Every symbol of re.sub's result is one the scan passed over or comes    *)
(* from what a match was replaced with, in the order of the text.          *)
Substituted(text, end, M, by, out, src, off) ==
    /\ src \in [DOMAIN out -> DOMAIN text] /\ off \in [DOMAIN out -> Nat]
    /\ \A q \in DOMAIN out :
          IF src[q] \in M
          THEN off[q] \in DOMAIN by[src[q]] /\ out[q] = by[src[q]][off[q]]
          ELSE ~InMatch(end, M, src[q]) /\ off[q] = 1 /\ out[q] = text[src[q]]
    /\ \A q, r \in DOMAIN out : q < r =>
          src[q] < src[r] \/ (src[q] = src[r] /\ off[q] < off[r])
    /\ \A i \in DOMAIN text : i \notin M /\ ~InMatch(end, M, i) =>
          \E q \in DOMAIN out : src[q] = i
    /\ \A i \in M : \A k \in DOMAIN by[i] : \E q \in DOMAIN out : src[q] = i /\ off[q] = k

(* What re.sub returns is a text, made up as Substituted says. *)
LEMMA SubFrom ==
    ASSUME NEW S, NEW text \in Seq(S), NEW end, NEW by \in [DOMAIN text -> Seq(S)],
           NEW M, M = Matches(text, end), M \in SUBSET DOMAIN text
    PROVE  /\ Sub(text, end, by) \in Seq(S)
           /\ \E src, off : Substituted(text, end, M, by, Sub(text, end, by), src, off)
<1> DEFINE n == Len(text)
           Piece(i) == IF i \in M THEN by[i]
                       ELSE IF InMatch(end, M, i) THEN <<>> ELSE <<text[i]>>
           pieces == [i \in DOMAIN text |-> Piece(i)]
           out == Sub(text, end, by)
<1>1. n \in Nat /\ DOMAIN text = 1 .. n /\ DOMAIN text = 1 .. Len(text)
  OBVIOUS
<1>2. out = Seqs!FlattenSeq(pieces)
  BY DEF Sub
<1>3. ASSUME NEW i \in DOMAIN text PROVE Piece(i) \in Seq(S)
  <2>1. text[i] \in S /\ by[i] \in Seq(S) /\ <<>> \in Seq(S) /\ <<text[i]>> \in Seq(S)
    OBVIOUS
  <2> QED BY <2>1
<1>4. pieces \in Seq(Seq(S)) /\ Len(pieces) = n
        /\ \A i \in DOMAIN text : pieces[i] = Piece(i)
  <2> HIDE DEF Piece
  <2>1. pieces = [i \in 1 .. n |-> Piece(i)] /\ \A i \in 1 .. n : Piece(i) \in Seq(S)
    BY <1>1, <1>3
  <2> HIDE DEF n, pieces
  <2>2. pieces \in Seq(Seq(S)) /\ Len(pieces) = n
    BY <2>1, <1>1
  <2> QED BY <2>1, <2>2, <1>1
<1> HIDE DEF pieces
<1>5. /\ Seqs!FlattenSeq(pieces) \in Seq(S)
      /\ \E src, off : From(Seqs!FlattenSeq(pieces), pieces, Len(pieces), src, off)
  BY ONLY <1>4, FlattenFrom
<1>6. PICK src, off : From(out, pieces, n, src, off)
  BY <1>2, <1>4, <1>5
<1> HIDE DEF out, n
<1>7. src \in [DOMAIN out -> DOMAIN text] /\ off \in [DOMAIN out -> Nat]
  BY <1>6, <1>1 DEF From
<1>8. ASSUME NEW i \in DOMAIN text
      PROVE  /\ i \in M => pieces[i] = by[i]
             /\ i \notin M /\ InMatch(end, M, i) => pieces[i] = <<>>
             /\ i \notin M /\ ~InMatch(end, M, i) => pieces[i] = <<text[i]>>
  BY <1>4
<1> HIDE DEF Piece
<1>9. ASSUME NEW q \in DOMAIN out
      PROVE  IF src[q] \in M
             THEN off[q] \in DOMAIN by[src[q]] /\ out[q] = by[src[q]][off[q]]
             ELSE ~InMatch(end, M, src[q]) /\ off[q] = 1 /\ out[q] = text[src[q]]
  <2>1. off[q] \in DOMAIN pieces[src[q]] /\ out[q] = pieces[src[q]][off[q]]
          /\ src[q] \in DOMAIN text
    BY <1>6, <1>7 DEF From
  <2>2. CASE src[q] \in M
    BY <2>1, <2>2, <1>8
  <2>3. CASE src[q] \notin M /\ InMatch(end, M, src[q])
    <3>1. pieces[src[q]] = <<>>
      BY <2>1, <2>3, <1>8
    <3>2. DOMAIN pieces[src[q]] = {}
      BY <3>1
    <3> QED BY <3>2, <2>1
  <2>4. CASE src[q] \notin M /\ ~InMatch(end, M, src[q])
    <3>1. pieces[src[q]] = <<text[src[q]]>>
      BY <2>1, <2>4, <1>8
    <3>2. off[q] = 1
      BY <3>1, <2>1
    <3> QED BY <3>1, <3>2, <2>1, <2>4
  <2> QED BY <2>2, <2>3, <2>4
<1>10. ASSUME NEW i \in DOMAIN text, i \notin M /\ ~InMatch(end, M, i)
      PROVE  \E q \in DOMAIN out : src[q] = i
  <2>1. 1 \in DOMAIN pieces[i] /\ i \in 1 .. n
    BY <1>1, <1>8, <1>10
  <2> QED BY <2>1, <1>6 DEF From
<1>11. ASSUME NEW i \in M, NEW k \in DOMAIN by[i]
       PROVE  \E q \in DOMAIN out : src[q] = i /\ off[q] = k
  <2>1. k \in DOMAIN pieces[i] /\ i \in 1 .. n
    BY <1>1, <1>8
  <2> QED BY <2>1, <1>6 DEF From
<1>12. \A q, r \in DOMAIN out : q < r =>
          src[q] < src[r] \/ (src[q] = src[r] /\ off[q] < off[r])
  BY <1>6 DEF From
<1>13. Substituted(text, end, M, by, out, src, off)
  BY <1>7, <1>9, <1>10, <1>11, <1>12 DEF Substituted
<1>14. out \in Seq(S)
  BY <1>2, <1>5
<1> QED BY <1>13, <1>14 DEF out

-----------------------------------------------------------------------------
(* The redaction of one tag returns a text, by its two passes. *)
LEMMA RedactTagText ==
    ASSUME NEW S, Redacted \in S, Newline \in S, NEW text \in Seq(S), NEW tag
    PROVE  RedactTag(text, tag) \in Seq(S)
<1>1. RedactBlocks(text, tag) \in Seq(S)
  <2>1. Everywhere(text, <<Redacted>>) \in [DOMAIN text -> Seq(S)]
    BY DEF Everywhere
  <2> QED BY <2>1, SubText DEF RedactBlocks
<1>2. ASSUME NEW t \in Seq(S) PROVE RedactLines(t, tag) \in Seq(S)
  <2>1. Everywhere(t, <<Redacted, Newline>>) \in [DOMAIN t -> Seq(S)]
    BY DEF Everywhere
  <2> QED BY <2>1, SubText DEF RedactLines
<1> QED BY <1>1, <1>2 DEF RedactTag

(* The texts between the tags, in the given order. *)
TagByTag(g, text, order, tags) ==
    /\ g[0] = text
    /\ \A k \in 1 .. Len(order) :
          g[k] = IF order[k] \in tags THEN RedactTag(g[k - 1], order[k]) ELSE g[k - 1]
    /\ RedactTags(text, order, tags) = g[Len(order)]

(* And so the redaction tag after tag, whatever the order and the tags. *)
LEMMA RedactTagsUnfolds ==
    ASSUME NEW S, Redacted \in S, Newline \in S, NEW text \in Seq(S),
           NEW order, Len(order) \in Nat, NEW tags
    PROVE  \E g \in [0 .. Len(order) -> Seq(S)] : TagByTag(g, text, order, tags)
<1> DEFINE n == Len(order)
           E(k, v) == IF order[k] \in tags THEN RedactTag(v, order[k]) ELSE v
           F(f) == [k \in 0 .. n |-> IF k = 0 THEN text ELSE E(k, f[k - 1])]
           f == CHOOSE f : f = F(f)
           step == [k \in 1 .. n |-> [v \in Seq(S) |-> E(k, v)]]
<1>1. ASSUME NEW k, NEW v \in Seq(S) PROVE E(k, v) \in Seq(S)
  BY RedactTagText
<1>2. step \in [1 .. n -> [Seq(S) -> Seq(S)]]
  <2> HIDE DEF E
  <2> QED BY <1>1
<1>3. RedactTags(text, order, tags) = f[n]
  BY DEF RedactTags
<1>4. PICK h \in [0 .. n -> Seq(S)] : h[0] = text /\ \A k \in 1 .. n : h[k] = step[k][h[k - 1]]
  <2> DEFINE V == Seq(S)
  <2>1. n \in Nat /\ text \in V /\ step \in [1 .. n -> [V -> V]]
    BY <1>2
  <2> HIDE DEF step, V, n
  <2>2. \E h \in [0 .. n -> V] : h[0] = text /\ \A i \in 1 .. n : h[i] = step[i][h[i - 1]]
    BY ONLY <2>1, RecursionExists, SMTT(30)
  <2> QED BY <2>2 DEF V
<1> HIDE DEF E
<1>5. \A k \in 1 .. n : h[k] = E(k, h[k - 1])
  <2> TAKE k \in 1 .. n
  <2>1. h[k - 1] \in Seq(S)
    OBVIOUS
  <2>2. h[k] = step[k][h[k - 1]]
    BY <1>4
  <2> QED BY <2>1, <2>2
<1> HIDE DEF step
<1>6. h = F(h)
  <2> DEFINE G == F(h)
  <2>1. G = [k \in 0 .. n |-> h[k]]
    BY <1>4, <1>5
  <2> HIDE DEF G
  <2>2. h = G
    BY <2>1
  <2> QED BY <2>2 DEF G
<1>7. f = F(f)
  BY <1>6
<1> HIDE DEF f
<1>8. f[0] = text /\ \A k \in 1 .. n : f[k] = E(k, f[k - 1])
  <2> DEFINE G == F(f)
  <2>1. G[0] = text /\ \A k \in 1 .. n : G[k] = E(k, f[k - 1])
    OBVIOUS
  <2>2. f = G
    BY <1>7
  <2> HIDE DEF G
  <2> QED BY <2>1, <2>2
<1>9. \A k \in 0 .. n : f[k] \in Seq(S)
  <2> DEFINE A == {k \in 0 .. n : f[k] \in Seq(S)}
  <2>1. 0 \in A
    BY <1>8
  <2>2. ASSUME NEW k \in 0 .. n - 1, k \in A PROVE k + 1 \in A
    <3>1. PICK j \in 1 .. n : j = k + 1 /\ j - 1 = k
      OBVIOUS
    <3>2. f[j] = E(j, f[j - 1])
      BY ONLY <1>8, j \in 1 .. n, Zenon
    <3>3. E(j, f[k]) \in Seq(S)
      BY <2>2, <1>1
    <3> QED BY <3>1, <3>2, <3>3
  <2> HIDE DEF A
  <2>3. \A k \in 0 .. n - 1 : k \in A => k + 1 \in A
    BY <2>2
  <2>4. n \in Nat
    OBVIOUS
  <2> HIDE DEF n
  <2>5. \A k \in 0 .. n : k \in A
    BY ONLY <2>4, <2>1, <2>3, Induction
  <2> QED BY <2>5 DEF A
<1> DEFINE g == [k \in 0 .. n |-> f[k]]
<1>10. g \in [0 .. n -> Seq(S)] /\ g[0] = text /\ g[n] = f[n]
  BY <1>8, <1>9
<1>11. \A k \in 1 .. n : g[k] = E(k, g[k - 1])
  BY <1>8
<1> HIDE DEF g
<1>12. TagByTag(g, text, order, tags)
  BY <1>10, <1>11, <1>3 DEF E, TagByTag
<1> QED BY <1>10, <1>12

-----------------------------------------------------------------------------
(* First is the least of the positions, if there is one. *)
LEMMA FirstIs ==
    ASSUME NEW hits \in SUBSET (Nat \ {0})
    PROVE  /\ hits = {} <=> First(hits) = NoMatch
           /\ hits # {} => First(hits) \in hits /\ \A k \in hits : First(hits) <= k
<1>1. CASE hits = {}
  BY <1>1 DEF First, NoMatch
<1>2. CASE hits # {}
  <2>1. \E j \in hits : \A k \in hits : j <= k
    <3>1. hits \in SUBSET Nat
      OBVIOUS
    <3> QED BY <3>1, <1>2, Least
  <2>2. First(hits) \in hits /\ \A k \in hits : First(hits) <= k
    BY <2>1, <1>2 DEF First
  <2> QED BY <2>2, <1>2 DEF NoMatch
<1> QED BY <1>1, <1>2

(* A line ends at the first newline behind a position, or behind the       *)
(* text.                                                                   *)
LEMMA LineEnds ==
    ASSUME NEW S, NEW text \in Seq(S), NEW i \in DOMAIN text
    PROVE  /\ EndOfLine(text, i) \in i + 1 .. Len(text) + 1
           /\ \A j \in i + 1 .. EndOfLine(text, i) - 1 :
                 j \in DOMAIN text /\ text[j] # Newline
           /\ EndOfLine(text, i) \in DOMAIN text => text[EndOfLine(text, i)] = Newline
<1> DEFINE hits == {j \in Behind(text, i) : text[j] = Newline}
<1>1. /\ DOMAIN text = 1 .. Len(text) /\ Len(text) \in Nat
      /\ hits \in SUBSET (Nat \ {0}) /\ \A j \in hits : j \in i + 1 .. Len(text)
  BY DEF Behind
<1>2. /\ hits = {} <=> First(hits) = NoMatch
      /\ hits # {} => First(hits) \in hits /\ \A k \in hits : First(hits) <= k
  <2> HIDE DEF hits
  <2> QED BY <1>1, FirstIs
<1>3. EndOfLine(text, i) = IF First(hits) = NoMatch THEN Len(text) + 1 ELSE First(hits)
  BY DEF EndOfLine
<1>4. \A j \in i + 1 .. Len(text) : text[j] = Newline => j \in hits
  BY DEF Behind
<1>5. \A j \in hits : text[j] = Newline
  OBVIOUS
<1>6. i \in 1 .. Len(text)
  OBVIOUS
<1> HIDE DEF hits
<1>7. CASE hits = {}
  <2>1. EndOfLine(text, i) = Len(text) + 1
    BY <1>7, <1>2, <1>3
  <2> QED BY <2>1, <1>1, <1>4, <1>6, <1>7
<1>8. CASE hits # {}
  <2>1. EndOfLine(text, i) = First(hits) /\ First(hits) \in hits
    BY <1>8, <1>2, <1>3
  <2>2. First(hits) \in i + 1 .. Len(text) /\ text[First(hits)] = Newline
    BY <2>1, <1>1, <1>5
  <2>3. \A j \in i + 1 .. First(hits) - 1 : j \in 1 .. Len(text) /\ j \notin hits
    BY <2>2, <1>1, <1>2, <1>6, <1>8
  <2> QED BY <2>1, <2>2, <2>3, <1>1, <1>4
<1> QED BY <1>7, <1>8

(* The patterns of the recognizers, with their entities and scores. *)
LEMMA PatternFacts ==
    /\ DOMAIN Patterns = {"swift", "ip", "marker", "key", "header", "amount"}
    /\ \A k \in DOMAIN Patterns :
          /\ Patterns[k].score \in Nat /\ Patterns[k].score <= MaxScore
          /\ Patterns[k].entity \in PERSISTED_VIEW_ENTITIES
    /\ Patterns["ip"] = [entity |-> "INTERNAL_IP_ADDRESS", score |-> 90]
    /\ Patterns["key"] = [entity |-> "PROPRIETARY_SOURCE_MARKER", score |-> 95]
    /\ Patterns["header"] = [entity |-> "PROPRIETARY_SOURCE_MARKER", score |-> 99]
    /\ Patterns["marker"] = [entity |-> "PROPRIETARY_SOURCE_MARKER", score |-> 85]
    /\ Patterns["amount"] = [entity |-> "MONETARY_AMOUNT", score |-> 60]
BY DEF Patterns, PERSISTED_VIEW_ENTITIES, DEFAULT_ENTITIES_TO_MASK, ENTITY_LABELS, MaxScore

(* The context only raises a score. *)
LEMMA RaisedFacts ==
    ASSUME NEW kind, NEW score \in Nat, score <= MaxScore, NEW raised
    PROVE  Raised(kind, score, raised) \in Nat /\ Raised(kind, score, raised) >= score
BY DEF Raised, MaxScore, ContextBoost

(* A finding starts where it is found, and the kind of the symbol says     *)
(* what it is, how far it goes and what it scores.  Two at one position    *)
(* are the two entities of a card number.                                  *)
LEMMA FindingShape ==
    ASSUME NEW S, NEW text \in Seq(S), NEW i \in DOMAIN text, NEW raised,
           NEW f \in FindingsAt(text, i, raised)
    PROVE  /\ \A g \in FindingsAt(text, i, raised) :
                 (g.entity = "CREDIT_CARD" <=> f.entity = "CREDIT_CARD") => g = f
           /\ f.entity \in DOMAIN ENTITY_LABELS \cup {"PROMPT_INJECTION_ATTEMPT"}
           /\ f.start = i /\ f.end \in i + 1 .. Len(text) + 1
           /\ Kind(text[i]) # "attempt" =>
                 f.score \in Nat /\ f.entity # "PROMPT_INJECTION_ATTEMPT"
           /\ Kind(text[i]) = "attempt" => f.entity = "PROMPT_INJECTION_ATTEMPT"
           /\ Kind(text[i]) # "marker" => f.end = i + 1
           /\ Kind(text[i]) = "marker" => f.end = EndOfLine(text, i)
           /\ f.score = IF Kind(text[i]) = "digits" THEN MaxScore
                        ELSE IF Kind(text[i]) = "attempt"
                        THEN Raised("attempt", text[i][2], raised)
                        ELSE Raised(Kind(text[i]), Patterns[Kind(text[i])].score, raised)
<1> DEFINE kind == Kind(text[i])
<1>1. i \in 1 .. Len(text) /\ Len(text) \in Nat
  OBVIOUS
<1>2. CASE kind = "digits"
  <2>1. \A g \in FindingsAt(text, i, raised) :
           \E e \in {"BANK_CARD_NUMBER", "CREDIT_CARD"} : g = Finding(e, i, i + 1, MaxScore)
    BY <1>2 DEF FindingsAt, CardEntities
  <2>2. PICK e \in {"BANK_CARD_NUMBER", "CREDIT_CARD"} : f = Finding(e, i, i + 1, MaxScore)
    BY <2>1
  <2>3. \A g \in FindingsAt(text, i, raised) :
           (g.entity = "CREDIT_CARD" <=> f.entity = "CREDIT_CARD") => g = f
    BY <2>1, <2>2 DEF Finding
  <2>4. e \in DOMAIN ENTITY_LABELS
    BY DEF ENTITY_LABELS
  <2> QED BY <2>2, <2>3, <2>4, <1>1, <1>2 DEF Finding, MaxScore
<1>3. CASE kind = "attempt"
  <2>1. /\ f = Finding("PROMPT_INJECTION_ATTEMPT", i, i + 1,
                       Raised("attempt", text[i][2], raised))
        /\ FindingsAt(text, i, raised) = {f}
    BY <1>3 DEF FindingsAt
  <2> QED BY <2>1, <1>1, <1>3 DEF Finding
<1>4. CASE kind \notin {"digits", "attempt"}
  <2> DEFINE g == Finding(Patterns[kind].entity, i,
                      IF kind = "marker" THEN EndOfLine(text, i) ELSE i + 1,
                      Raised(kind, Patterns[kind].score, raised))
  <2>1. kind \in DOMAIN Patterns /\ FindingsAt(text, i, raised) = {g}
    BY <1>4 DEF FindingsAt
  <2>2. Raised(kind, Patterns[kind].score, raised) \in Nat
    BY <2>1, PatternFacts, RaisedFacts
  <2>3. /\ Patterns[kind].entity # "PROMPT_INJECTION_ATTEMPT"
        /\ Patterns[kind].entity \in DOMAIN ENTITY_LABELS
    BY <2>1, PatternFacts DEF PERSISTED_VIEW_ENTITIES, DEFAULT_ENTITIES_TO_MASK, ENTITY_LABELS
  <2>4. EndOfLine(text, i) \in i + 1 .. Len(text) + 1
    BY LineEnds
  <2>5. f = g
    BY <2>1
  <2> QED BY <2>1, <2>2, <2>3, <2>4, <2>5, <1>1, <1>4 DEF Finding
<1> QED BY <1>2, <1>3, <1>4

-----------------------------------------------------------------------------
(* The findings of one text.  Several may start at one place; of those of  *)
(* one entity and score that do, the analyzer reports only the longest.    *)
SomeFindings(F) ==
    /\ IsFiniteSet(F)
    /\ \A f \in F : /\ f.start \in Nat /\ f.end \in Nat /\ f.score \in Nat
                    /\ f.start < f.end /\ f.entity \in DOMAIN ENTITY_LABELS
    /\ \A f, g \in F :
          f.start = g.start /\ f.entity = g.entity /\ f.score = g.score => f = g

(* The number of findings that go before one. *)
Rank(F) == [f \in F |-> Cardinality({g \in F : Better(g, f)})]

(* A subset that lacks an element is smaller. *)
LEMMA SmallerSubset ==
    ASSUME NEW A, IsFiniteSet(A), NEW B \in SUBSET A, NEW x \in A, x \notin B
    PROVE  Cardinality(B) \in Nat /\ Cardinality(A) \in Nat /\ Cardinality(B) < Cardinality(A)
<1>1. /\ IsFiniteSet(B) /\ Cardinality(B) <= Cardinality(A)
      /\ Cardinality(A) = Cardinality(B) => A = B
  BY FS_Subset
<1>2. Cardinality(A) \in Nat /\ Cardinality(B) \in Nat
  BY <1>1, FS_CardinalityType
<1>3. A # B
  OBVIOUS
<1> QED BY <1>1, <1>2, <1>3

(* Sorted by score, then by start, then as the analyzer lists them, the    *)
(* findings have ranks of their own, and the better one comes first.       *)
LEMMA RankFacts ==
    ASSUME NEW F, SomeFindings(F)
    PROVE  /\ Rank(F) \in [F -> 0 .. Cardinality(F) - 1]
           /\ Cardinality(F) \in Nat
           /\ \A f, g \in F : Rank(F)[f] = Rank(F)[g] => f = g
           /\ \A f, g \in F : Rank(F)[g] < Rank(F)[f] => Better(g, f)
<1> DEFINE Ahead(f) == {g \in F : Better(g, f)}
<1> DEFINE o == [f \in F |-> AnalyzerOrder[f.entity]]
<1>1. /\ \A f \in F : o[f] \in Nat /\ f.score \in Nat /\ f.start \in Nat
      /\ \A f, g \in F : f.score = g.score /\ f.start = g.start /\ o[f] = o[g] => f = g
      /\ \A f, g \in F : Better(f, g) <=>
            \/ f.score > g.score
            \/ f.score = g.score /\ f.start < g.start
            \/ f.score = g.score /\ f.start = g.start /\ o[f] < o[g]
  BY AnalyzerAssumption DEF Better, SomeFindings, IsInjective
<1> HIDE DEF o
<1>2. \A f \in F : ~Better(f, f)
  BY <1>1
<1>3. \A f, g \in F : f # g => Better(f, g) \/ Better(g, f)
  BY <1>1
<1>4. \A f, g, h \in F : Better(f, g) /\ Better(g, h) => Better(f, h)
  BY <1>1
<1>5. IsFiniteSet(F) /\ Cardinality(F) \in Nat
  BY FS_CardinalityType DEF SomeFindings
<1>6. ASSUME NEW f \in F
      PROVE  IsFiniteSet(Ahead(f)) /\ Cardinality(Ahead(f)) \in 0 .. Cardinality(F) - 1
  <2>1. Ahead(f) \in SUBSET F /\ f \notin Ahead(f)
    BY <1>2
  <2>2. IsFiniteSet(Ahead(f))
    <3> HIDE DEF Ahead
    <3> QED BY <2>1, <1>5, FS_Subset
  <2> HIDE DEF Ahead
  <2>3. Cardinality(Ahead(f)) \in Nat /\ Cardinality(Ahead(f)) < Cardinality(F)
    BY <2>1, <1>5, SmallerSubset
  <2> QED BY <2>2, <2>3, <1>5
<1>7. ASSUME NEW f \in F, NEW g \in F, Better(g, f)
      PROVE  Cardinality(Ahead(g)) < Cardinality(Ahead(f))
  <2>1. Ahead(g) \in SUBSET Ahead(f) /\ g \in Ahead(f) /\ g \notin Ahead(g)
    BY <1>2, <1>4, <1>7
  <2>2. IsFiniteSet(Ahead(f))
    BY <1>6
  <2> HIDE DEF Ahead
  <2> QED BY <2>1, <2>2, SmallerSubset
<1>8. \A f \in F : Rank(F)[f] = Cardinality(Ahead(f))
  BY DEF Rank
<1>9. Rank(F) \in [F -> 0 .. Cardinality(F) - 1]
  BY <1>6 DEF Rank
<1>10. ASSUME NEW f \in F, NEW g \in F, ~Better(g, f), f # g
      PROVE  Rank(F)[f] < Rank(F)[g] /\ Rank(F)[f] \in Nat /\ Rank(F)[g] \in Nat
  <2>1. Better(f, g)
    BY <1>3, <1>10
  <2>2. Cardinality(Ahead(f)) < Cardinality(Ahead(g))
    BY <2>1, <1>7
  <2> HIDE DEF Ahead
  <2>3. Cardinality(Ahead(f)) \in Nat /\ Cardinality(Ahead(g)) \in Nat
    <3>1. Cardinality(Ahead(f)) \in 0 .. Cardinality(F) - 1
      BY <1>6
    <3>2. Cardinality(Ahead(g)) \in 0 .. Cardinality(F) - 1
      BY <1>6
    <3> QED BY <3>1, <3>2, <1>5
  <2> QED BY <2>2, <2>3, <1>8
<1>11. ASSUME NEW f \in F, NEW g \in F, Rank(F)[f] = Rank(F)[g] PROVE f = g
  <2>1. ~Better(g, f) => f = g
    BY <1>10, <1>11
  <2>2. ~Better(f, g) => f = g
    BY <1>10, <1>11
  <2>3. ~(Better(f, g) /\ Better(g, f))
    BY <1>2, <1>4
  <2> QED BY <2>1, <2>2, <2>3
<1>12. ASSUME NEW f \in F, NEW g \in F, Rank(F)[g] < Rank(F)[f] PROVE Better(g, f)
  <2>1. Rank(F)[f] \in Nat /\ Rank(F)[g] \in Nat
    BY <1>9, <1>5
  <2> QED BY <2>1, <1>10, <1>12
<1> QED BY <1>5, <1>9, <1>11, <1>12

(* One turn of the loop of _resolve_overlap. *)
LEMMA AcceptedUnfolds ==
    ASSUME NEW F, Cardinality(F) \in Nat, NEW rank
    PROVE  \E g \in [0 .. Cardinality(F) -> SUBSET F] :
              /\ g[0] = {}
              /\ \A k \in 1 .. Cardinality(F) :
                    g[k] = g[k - 1] \cup {f \in F : rank[f] = k - 1
                                             /\ \A h \in g[k - 1] : ~Overlap(f, h)}
              /\ Accepted(F, rank) = g[Cardinality(F)]
<1> DEFINE n == Cardinality(F)
           E(k, v) == v \cup {f \in F : rank[f] = k - 1 /\ \A h \in v : ~Overlap(f, h)}
           G(g) == [k \in 0 .. n |-> IF k = 0 THEN {} ELSE E(k, g[k - 1])]
           g == CHOOSE g : g = G(g)
           step == [k \in 1 .. n |-> [v \in SUBSET F |-> E(k, v)]]
<1>1. ASSUME NEW k, NEW v \in SUBSET F PROVE E(k, v) \in SUBSET F
  OBVIOUS
<1>2. step \in [1 .. n -> [SUBSET F -> SUBSET F]]
  <2> HIDE DEF E
  <2> QED BY <1>1
<1>3. Accepted(F, rank) = g[n]
  BY DEF Accepted
<1>4. PICK h \in [0 .. n -> SUBSET F] : h[0] = {} /\ \A k \in 1 .. n : h[k] = step[k][h[k - 1]]
  <2> DEFINE V == SUBSET F
  <2>1. n \in Nat /\ {} \in V /\ step \in [1 .. n -> [V -> V]]
    BY <1>2
  <2> HIDE DEF step, V, n
  <2>2. \E h \in [0 .. n -> V] : h[0] = {} /\ \A i \in 1 .. n : h[i] = step[i][h[i - 1]]
    BY ONLY <2>1, RecursionExists, SMTT(30)
  <2> QED BY <2>2 DEF V
<1> HIDE DEF E
<1>5. \A k \in 1 .. n : h[k] = E(k, h[k - 1])
  <2> TAKE k \in 1 .. n
  <2>1. h[k - 1] \in SUBSET F
    OBVIOUS
  <2>2. h[k] = step[k][h[k - 1]]
    BY <1>4
  <2> QED BY <2>1, <2>2
<1> HIDE DEF step
<1>6. h = G(h)
  <2> DEFINE H == G(h)
  <2>1. H = [k \in 0 .. n |-> h[k]]
    BY <1>4, <1>5
  <2> HIDE DEF H
  <2>2. h = H
    BY <2>1
  <2> QED BY <2>2 DEF H
<1>7. g = G(g)
  BY <1>6
<1> HIDE DEF g
<1>8. g[0] = {} /\ \A k \in 1 .. n : g[k] = E(k, g[k - 1])
  <2> DEFINE H == G(g)
  <2>1. H[0] = {} /\ \A k \in 1 .. n : H[k] = E(k, g[k - 1])
    OBVIOUS
  <2>2. g = H
    BY <1>7
  <2> HIDE DEF H
  <2> QED BY <2>1, <2>2
<1>9. \A k \in 0 .. n : g[k] \in SUBSET F
  <2> DEFINE A == {k \in 0 .. n : g[k] \in SUBSET F}
  <2>1. 0 \in A
    BY <1>8
  <2>2. ASSUME NEW k \in 0 .. n - 1, k \in A PROVE k + 1 \in A
    <3>1. PICK j \in 1 .. n : j = k + 1 /\ j - 1 = k
      OBVIOUS
    <3>2. g[j] = E(j, g[j - 1])
      BY ONLY <1>8, j \in 1 .. n, Zenon
    <3>3. E(j, g[k]) \in SUBSET F
      BY <2>2, <1>1
    <3> QED BY <3>1, <3>2, <3>3
  <2> HIDE DEF A
  <2>3. \A k \in 0 .. n - 1 : k \in A => k + 1 \in A
    BY <2>2
  <2>4. n \in Nat
    OBVIOUS
  <2> HIDE DEF n
  <2>5. \A k \in 0 .. n : k \in A
    BY ONLY <2>4, <2>1, <2>3, Induction
  <2> QED BY <2>5 DEF A
<1> DEFINE a == [k \in 0 .. n |-> g[k]]
<1>10. a \in [0 .. n -> SUBSET F] /\ a[0] = {} /\ a[n] = g[n]
  BY <1>8, <1>9
<1>11. \A k \in 1 .. n : a[k] = E(k, a[k - 1])
  BY <1>8
<1> HIDE DEF a
<1> QED BY <1>10, <1>11, <1>3 DEF E

(* resolve_overlap accepts findings that do not meet, and what it refuses  *)
(* meets a better one it accepted.                                         *)
Resolved(F, accepted) ==
    /\ accepted \in SUBSET F
    /\ \A f, g \in accepted : f # g => ~Overlap(f, g)
    /\ \A f \in F \ accepted : \E g \in accepted : Overlap(f, g) /\ Better(g, f)

(* _resolve_overlap keeps findings that do not meet, and only drops one    *)
(* for a better one that it keeps, for every set of findings, those in     *)
(* which two recognizers report one card number included                   *)
(* (engine.py:63-75).                                                      *)
THEOREM ResolveOverlap ==
    ASSUME NEW F, SomeFindings(F)
    PROVE  Resolved(F, resolve_overlap(F))
<1> DEFINE n == Cardinality(F)
           rank == Rank(F)
<1>1. /\ n \in Nat /\ rank \in [F -> 0 .. n - 1]
      /\ \A f, g \in F : rank[f] = rank[g] => f = g
      /\ \A f, g \in F : rank[g] < rank[f] => Better(g, f)
  BY RankFacts
<1>2. resolve_overlap(F) = Accepted(F, rank)
  BY DEF resolve_overlap, Rank
<1>3. PICK g \in [0 .. n -> SUBSET F] :
              /\ g[0] = {}
              /\ \A k \in 1 .. n :
                    g[k] = g[k - 1] \cup {f \in F : rank[f] = k - 1
                                             /\ \A h \in g[k - 1] : ~Overlap(f, h)}
              /\ Accepted(F, rank) = g[n]
  BY <1>1, AcceptedUnfolds
<1>4. \A f, h \in F : Overlap(f, h) <=> Overlap(h, f)
  BY DEF Overlap, SomeFindings
<1> HIDE DEF n, rank
<1> DEFINE P(k) == /\ \A f \in g[k] : rank[f] < k
                   /\ \A f, h \in g[k] : f # h => ~Overlap(f, h)
                   /\ \A f \in F : rank[f] < k /\ f \notin g[k] =>
                         \E h \in g[k] : Overlap(f, h) /\ rank[h] < rank[f]
           A == {k \in 0 .. n : P(k)}
<1>5. 0 \in A
  BY <1>1, <1>3
<1>6. ASSUME NEW k \in 0 .. n - 1, k \in A PROVE k + 1 \in A
  <2>1. PICK j \in 1 .. n : j = k + 1 /\ j - 1 = k
    BY <1>1
  <2> DEFINE new == {f \in F : rank[f] = k /\ \A h \in g[k] : ~Overlap(f, h)}
  <2>2. g[j] = g[k] \cup new
    <3>1. g[j] = g[j - 1] \cup {f \in F : rank[f] = j - 1
                                             /\ \A h \in g[j - 1] : ~Overlap(f, h)}
      BY ONLY <1>3, j \in 1 .. n, Zenon
    <3> QED BY <3>1, <2>1
  <2>3. P(k) /\ g[k] \in SUBSET F
    BY <1>6, <1>3
  <2>4. /\ \A f \in new : f \in F /\ rank[f] = k /\ \A h \in g[k] : ~Overlap(f, h)
        /\ \A f \in F : rank[f] = k /\ f \notin new => \E h \in g[k] : Overlap(f, h)
    OBVIOUS
  <2>5. \A f \in F : rank[f] \in Nat
    BY <1>1
  <2> HIDE DEF new
  <2>6. \A f \in g[j] : rank[f] < j
    BY <2>1, <2>2, <2>3, <2>4, <2>5
  <2>7. \A f, h \in g[j] : f # h => ~Overlap(f, h)
    BY <1>1, <1>4, <2>2, <2>3, <2>4
  <2>8. ASSUME NEW f \in F, rank[f] < j, f \notin g[j]
        PROVE  \E h \in g[j] : Overlap(f, h) /\ rank[h] < rank[f]
    <3>1. CASE rank[f] < k
      BY <3>1, <2>2, <2>3, <2>8
    <3>2. CASE rank[f] = k
      <4>1. PICK h \in g[k] : Overlap(f, h)
        BY <3>2, <2>2, <2>4, <2>8
      <4> QED BY <4>1, <3>2, <2>2, <2>3
    <3> QED BY <3>1, <3>2, <2>1, <2>5, <2>8
  <2>9. P(j)
    BY <2>6, <2>7, <2>8
  <2> QED BY <2>9, <2>1
<1>7. n \in A
  <2> HIDE DEF A
  <2>1. \A k \in 0 .. n - 1 : k \in A => k + 1 \in A
    BY <1>6
  <2>2. \A k \in 0 .. n : k \in A
    BY ONLY <1>1, <1>5, <2>1, Induction
  <2> QED BY <2>2, <1>1
<1>8. P(n) /\ g[n] \in SUBSET F
  BY <1>7, <1>3
<1>9. ASSUME NEW f \in F, f \notin g[n] PROVE \E h \in g[n] : Overlap(f, h) /\ Better(h, f)
  <2>1. rank[f] < n
    BY <1>1
  <2>2. PICK h \in g[n] : Overlap(f, h) /\ rank[h] < rank[f]
    BY <2>1, <1>8, <1>9
  <2> QED BY <2>2, <1>1, <1>8
<1> HIDE DEF A
<1> QED BY <1>8, <1>9, <1>2, <1>3 DEF Resolved

-----------------------------------------------------------------------------
(* A sequence with a stretch of it replaced by one symbol, as Spliced does. *)
Cut(a, from, to, symbol) == SubSeq(a, 1, from - 1) \o <<symbol>> \o SubSeq(a, to, Len(a))

(* The front of a concatenation, up to a place in its first part. *)
LEMMA FrontOfConcat ==
    ASSUME NEW S, NEW a \in Seq(S), NEW p \in Seq(S), NEW k \in 0 .. Len(a)
    PROVE  /\ SubSeq(a, 1, k) \in Seq(S)
           /\ SubSeq(a \o p, 1, k) = SubSeq(a, 1, k)
<1>1. /\ a \o p \in Seq(S) /\ Len(a \o p) = Len(a) + Len(p)
      /\ \A i \in 1 .. Len(a) + Len(p) :
            (a \o p)[i] = IF i <= Len(a) THEN a[i] ELSE p[i - Len(a)]
  BY ConcatProperties
<1>2. Len(a) \in Nat /\ Len(p) \in Nat /\ k \in Int /\ 1 \in Int
  OBVIOUS
<1>3. \A i \in 1 .. k : a[i] \in S /\ (a \o p)[i] \in S /\ (a \o p)[i] = a[i]
  BY <1>1, <1>2
<1> DEFINE l == SubSeq(a \o p, 1, k)
           r == SubSeq(a, 1, k)
<1>4. /\ r \in Seq(S) /\ Len(r) = (IF 1 <= k THEN k - 1 + 1 ELSE 0)
      /\ \A i \in 1 .. k - 1 + 1 : r[i] = a[1 + i - 1]
  BY <1>2, <1>3, SubSeqProperties
<1>5. /\ l \in Seq(S) /\ Len(l) = (IF 1 <= k THEN k - 1 + 1 ELSE 0)
      /\ \A i \in 1 .. k - 1 + 1 : l[i] = (a \o p)[1 + i - 1]
  BY <1>2, <1>3, SubSeqProperties
<1> HIDE DEF l, r
<1>6. Len(l) = k /\ Len(r) = k
  BY <1>4, <1>5, <1>2
<1>7. ASSUME NEW i \in 1 .. k PROVE l[i] = r[i]
  <2>1. i \in 1 .. k - 1 + 1 /\ 1 + i - 1 = i
    BY <1>2
  <2>2. l[i] = (a \o p)[i] /\ r[i] = a[i]
    BY <1>4, <1>5, <2>1
  <2> QED BY <2>2, <1>3
<1>8. l = r
  BY <1>4, <1>5, <1>6, <1>7, SeqEqual
<1> QED BY <1>4, <1>8 DEF l, r

(* The back of a concatenation, from a place in its first part. *)
LEMMA BackOfConcat ==
    ASSUME NEW S, NEW a \in Seq(S), NEW p \in Seq(S), NEW e \in 1 .. Len(a) + 1
    PROVE  /\ SubSeq(a, e, Len(a)) \in Seq(S)
           /\ SubSeq(a \o p, e, Len(a \o p)) = SubSeq(a, e, Len(a)) \o p
<1> DEFINE n == Len(a)
           m == Len(p)
           c == a \o p
           k == Len(c)
           l == SubSeq(c, e, k)
           b == SubSeq(a, e, n)
           r == b \o p
<1>1. /\ c \in Seq(S) /\ k = n + m
      /\ \A i \in 1 .. n + m : c[i] = IF i <= n THEN a[i] ELSE p[i - n]
  BY ConcatProperties
<1>2. n \in Nat /\ m \in Nat /\ e \in Int /\ e \in 1 .. n + 1
      /\ (\A i \in 1 .. n : a[i] \in S) /\ (\A i \in 1 .. m : p[i] \in S)
  OBVIOUS
<1> HIDE DEF c, n, m, k
<1>3. \A i \in 1 .. k : c[i] \in S
  <2> TAKE i \in 1 .. k
  <2>1. i \in 1 .. n + m
    BY <1>1
  <2>2. CASE i <= n
    BY <2>1, <2>2, <1>1, <1>2
  <2>3. CASE ~(i <= n)
    <3>1. i - n \in 1 .. m
      BY <2>1, <2>3, <1>2
    <3> QED BY <2>1, <2>3, <3>1, <1>1, <1>2
  <2> QED BY <2>2, <2>3
<1>4. /\ b \in Seq(S) /\ Len(b) = (IF e <= n THEN n - e + 1 ELSE 0)
      /\ \A i \in 1 .. n - e + 1 : b[i] = a[e + i - 1]
  <2>1. e \in Int /\ n \in Int
    BY <1>2
  <2>2. \A i \in e .. n : a[i] \in S
    BY <1>2
  <2> QED BY ONLY <2>1, <2>2, SubSeqProperties
<1>5. /\ l \in Seq(S) /\ Len(l) = (IF e <= k THEN k - e + 1 ELSE 0)
      /\ \A i \in 1 .. k - e + 1 : l[i] = c[e + i - 1]
  <2>1. e \in Int /\ k \in Int
    BY <1>1, <1>2
  <2>2. \A i \in e .. k : c[i] \in S
    BY <1>2, <1>3, <2>1
  <2> QED BY ONLY <2>1, <2>2, SubSeqProperties
<1> HIDE DEF b, l
<1>6. /\ r \in Seq(S) /\ Len(r) = Len(b) + m
      /\ \A i \in 1 .. Len(b) + m : r[i] = IF i <= Len(b) THEN b[i] ELSE p[i - Len(b)]
  BY <1>4, ConcatProperties DEF m
<1> HIDE DEF r
<1>7. Len(b) = n - e + 1 /\ Len(l) = n + m - e + 1 /\ Len(r) = n + m - e + 1
  BY <1>1, <1>2, <1>4, <1>5, <1>6
<1>8. ASSUME NEW i \in 1 .. n + m - e + 1 PROVE l[i] = r[i]
  <2>1. PICK j \in 1 .. n + m : j = e + i - 1
    BY <1>2
  <2>2. l[i] = c[j] /\ c[j] = IF j <= n THEN a[j] ELSE p[j - n]
    <3>1. k = n + m
      BY <1>1, Zenon
    <3>2. i \in 1 .. k - e + 1
      BY <3>1, <1>2
    <3>3. l[i] = c[e + i - 1]
      BY <3>2, <1>5, Zenon
    <3>4. c[j] = IF j <= n THEN a[j] ELSE p[j - n]
      BY <1>1, j \in 1 .. n + m, Zenon
    <3> QED BY <2>1, <3>3, <3>4
  <2>3. r[i] = IF i <= n - e + 1 THEN b[i] ELSE p[i - (n - e + 1)]
    BY <1>6, <1>7, <1>2
  <2>4. CASE i <= n - e + 1
    <3>1. i \in 1 .. n - e + 1 /\ j <= n /\ e + i - 1 = j
      BY <1>2, <2>1, <2>4
    <3>2. b[i] = a[e + i - 1]
      BY ONLY <3>1, <1>4
    <3> QED BY <3>1, <3>2, <2>2, <2>3, <2>4
  <2>5. CASE i > n - e + 1
    <3>1. j - n = i - (n - e + 1) /\ ~(j <= n) /\ ~(i <= n - e + 1)
      BY <2>1, <2>5, <1>2
    <3> QED BY <3>1, <2>2, <2>3
  <2> QED BY <2>4, <2>5, <1>2
<1>9. l = r
  BY <1>5, <1>6, <1>7, <1>8, SeqEqual
<1> QED BY <1>4, <1>9 DEF l, r, b, n, k, c

(* A name for a concatenation. *)
Joined(a, p) == a \o p

(* A replacement in the first part leaves the second alone. *)
LEMMA CutBefore ==
    ASSUME NEW S, NEW a \in Seq(S), NEW p \in Seq(S), NEW symbol \in S,
           NEW from \in Nat, NEW to \in Nat, 1 <= from, from < to, to - 1 <= Len(a)
    PROVE  Cut(Joined(a, p), from, to, symbol) = Joined(Cut(a, from, to, symbol), p)
<1> DEFINE f == SubSeq(a, 1, from - 1)
           x == <<symbol>>
           t == SubSeq(a, to, Len(a))
<1>1. to \in 1 .. Len(a) + 1 /\ from - 1 \in 0 .. Len(a)
  OBVIOUS
<1>2. t \in Seq(S) /\ SubSeq(a \o p, to, Len(a \o p)) = t \o p
  BY <1>1, BackOfConcat
<1>3. f \in Seq(S) /\ SubSeq(a \o p, 1, from - 1) = f
  BY <1>1, FrontOfConcat
<1>4. /\ Cut(Joined(a, p), from, to, symbol) = (f \o x) \o (t \o p)
      /\ Cut(a, from, to, symbol) = (f \o x) \o t
  BY <1>2, <1>3 DEF Cut, Joined
<1>5. x \in Seq(S)
  OBVIOUS
<1> HIDE DEF f, t, x
<1> DEFINE y == f \o x
<1>6. y \in Seq(S)
  BY <1>3, <1>5, ConcatProperties
<1> HIDE DEF y
<1>7. (y \o t) \o p = y \o (t \o p)
  <2>1. t \in Seq(S)
    BY <1>2
  <2> QED BY ONLY <1>6, <2>1, p \in Seq(S), ConcatAssociative, SMTT(30)
<1>8. Joined(Cut(a, from, to, symbol), p) = (y \o t) \o p
  BY ONLY <1>4 DEF y, Joined
<1>9. Cut(Joined(a, p), from, to, symbol) = y \o (t \o p)
  BY ONLY <1>4 DEF y
<1> QED BY ONLY <1>7, <1>8, <1>9

(* A replacement up to the end takes away what is behind its start. *)
LEMMA CutAcross ==
    ASSUME NEW S, NEW a \in Seq(S), NEW p \in Seq(S), NEW symbol \in S,
           NEW from \in Nat, NEW to \in Nat, 1 <= from, from < to,
           from - 1 <= Len(a), Len(Joined(a, p)) < to
    PROVE  Cut(Joined(a, p), from, to, symbol) = Cut(a, from, to, symbol)
<1> DEFINE c == Joined(a, p)
<1>1. Len(c) = Len(a) + Len(p) /\ Len(a) \in Nat /\ Len(p) \in Nat
  BY ConcatProperties DEF Joined
<1>2. SubSeq(c, to, Len(c)) = <<>> /\ SubSeq(a, to, Len(a)) = <<>>
  <2>1. Len(a) \in Int /\ Len(c) \in Int /\ to \in Int /\ Len(a) < to /\ Len(c) < to
    BY <1>1
  <2> QED BY <2>1, SubSeqEmpty
<1>3. SubSeq(c, 1, from - 1) = SubSeq(a, 1, from - 1)
  <2>1. from - 1 \in 0 .. Len(a)
    BY <1>1
  <2> QED BY <2>1, FrontOfConcat DEF Joined
<1> QED BY <1>2, <1>3 DEF Cut

(* A replacement behind the last symbol appends to it. *)
LEMMA CutAtEnd ==
    ASSUME NEW S, NEW a \in Seq(S), NEW symbol \in S,
           NEW from \in Nat, NEW to \in Nat, from < to, Len(a) = from - 1
    PROVE  Cut(a, from, to, symbol) = a \o <<symbol>>
<1>1. SubSeq(a, to, Len(a)) = <<>>
  <2>1. Len(a) \in Int /\ to \in Int /\ Len(a) < to
    OBVIOUS
  <2> QED BY <2>1, SubSeqEmpty
<1>2. SubSeq(a, 1, from - 1) = a
  BY SubSeqFull
<1> DEFINE x == <<symbol>>
<1>3. x \in Seq(S)
  OBVIOUS
<1>4. a \o x \in Seq(S)
  BY <1>3, ConcatProperties
<1>5. (a \o x) \o <<>> = a \o x
  BY <1>4, ConcatEmptySeq
<1> QED BY <1>1, <1>2, <1>5 DEF Cut

-----------------------------------------------------------------------------
(* Spans within the text, no two of which meet. *)
DisjointSpans(text, F) ==
    /\ \A f \in F : f.start \in DOMAIN text /\ f.end \in f.start + 1 .. Len(text) + 1
    /\ \A f, g \in F : f # g => f.end <= g.start \/ g.end <= f.start

(* What one pass puts in the place of position i when only the findings G  *)
(* of F are replaced.                                                      *)
Piece(text, F, G, i) ==
    IF \E f \in G : f.start = i
    THEN <<Placeholder(F, CHOOSE f \in G : f.start = i)>>
    ELSE IF \E f \in G : f.start < i /\ i < f.end THEN <<>>
    ELSE <<text[i]>>

(* The pieces of a text in which the findings G of F are replaced. *)
Pieces(text, F, G) == [i \in DOMAIN text |-> Piece(text, F, G, i)]

(* The pieces are sequences over the symbols and the placeholders. *)
LEMMA PiecesTyped ==
    ASSUME NEW S, NEW text \in Seq(S), NEW F, NEW G \in SUBSET F,
           \A f \in F : Placeholder(F, f) \in S
    PROVE  /\ Pieces(text, F, G) \in Seq(Seq(S))
           /\ Len(Pieces(text, F, G)) = Len(text)
           /\ \A i \in 1 .. Len(text) : Pieces(text, F, G)[i] = Piece(text, F, G, i)
<1>1. ASSUME NEW i \in DOMAIN text PROVE Piece(text, F, G, i) \in Seq(S)
  <2>1. CASE \E f \in G : f.start = i
    <3> DEFINE g == CHOOSE f \in G : f.start = i
    <3>1. g \in F
      BY <2>1
    <3>2. Placeholder(F, g) \in S
      BY <3>1
    <3>3. Piece(text, F, G, i) = <<Placeholder(F, g)>>
      BY <2>1 DEF Piece
    <3> HIDE DEF g
    <3>4. <<Placeholder(F, g)>> \in Seq(S)
      BY <3>2
    <3> QED BY <3>3, <3>4
  <2>2. CASE ~\E f \in G : f.start = i
    <3>1. Piece(text, F, G, i) \in {<<>>, <<text[i]>>}
      BY <2>2 DEF Piece
    <3>2. <<text[i]>> \in Seq(S) /\ <<>> \in Seq(S)
      OBVIOUS
    <3> QED BY <3>1, <3>2
  <2> QED BY <2>1, <2>2
<1>2. DOMAIN text = 1 .. Len(text) /\ Len(text) \in Nat
  OBVIOUS
<1> QED BY <1>1, <1>2 DEF Pieces

(* When the findings to the right of a position are replaced, splicing     *)
(* the finding at the position in gives the text with that one replaced    *)
(* too: the spans to its left have not moved.                              *)
LEMMA OneMoreSplice ==
    ASSUME NEW S, NEW text \in Seq(S), NEW F, DisjointSpans(text, F),
           \A f \in F : Placeholder(F, f) \in S, NEW i \in DOMAIN text
    PROVE  Seqs!FlattenSeq(Pieces(text, F, {f \in F : f.start >= i}))
             = Spliced(Seqs!FlattenSeq(Pieces(text, F, {f \in F : f.start >= i + 1})), F, i)
<1> DEFINE n == Len(text)
           G == {f \in F : f.start >= i + 1}
           H == {f \in F : f.start >= i}
           P == Pieces(text, F, G)
           Q == Pieces(text, F, H)
<1>1. n \in Nat /\ DOMAIN text = 1 .. n /\ i \in 1 .. n
  OBVIOUS
<1>2. \A f \in F : f.start \in 1 .. n /\ f.end \in f.start + 1 .. n + 1
  BY DEF DisjointSpans
<1>3. G \in SUBSET F /\ H \in SUBSET F /\ \A f \in F : f \in G <=> f \in H /\ f.start # i
  BY <1>1, <1>2
<1>4. \A f, g \in F : f.start = g.start => f = g
  BY <1>2 DEF DisjointSpans
<1>5. CASE \A f \in F : f.start # i
  <2>1. G = H
    BY <1>3, <1>5
  <2> QED BY <2>1, <1>5 DEF Spliced
<1>6. CASE \E f \in F : f.start = i
  <2> DEFINE f == CHOOSE g \in F : g.start = i
             e == f.end
             ph == Placeholder(F, f)
  <2>1. f \in F /\ f.start = i
    BY <1>6
  <2>2. e \in i + 1 .. n + 1 /\ ph \in S
    BY <2>1, <1>2
  <2>3. Spliced(Seqs!FlattenSeq(P), F, i) = Cut(Seqs!FlattenSeq(P), i, e, ph)
    BY <1>6 DEF Spliced, Cut
  <2>4. \A g \in F : g # f => g.end <= i \/ e <= g.start
    BY <2>1 DEF DisjointSpans
  <2> HIDE DEF f
  <2>5. ASSUME NEW m \in 1 .. n, m < i
        PROVE  Piece(text, F, G, m) = <<text[m]>> /\ Piece(text, F, H, m) = <<text[m]>>
    BY <2>5, <1>1, <1>2 DEF Piece
  <2>6. Piece(text, F, G, i) = <<text[i]>> /\ Piece(text, F, H, i) = <<ph>>
    <3>1. \A g \in G : g.start # i /\ ~(g.start < i)
      BY <1>1, <1>2
    <3>2. Piece(text, F, G, i) = <<text[i]>>
      BY <3>1 DEF Piece
    <3>3. f \in H
      BY <2>1, <1>1
    <3>4. f = CHOOSE g \in H : g.start = i
      BY <2>1, <3>3, <1>3, <1>4
    <3> HIDE DEF H
    <3>5. Piece(text, F, H, i) = <<ph>>
      BY <2>1, <3>3, <3>4 DEF Piece
    <3> QED BY <3>2, <3>5
  <2>7. ASSUME NEW m \in 1 .. n, i < m, m < e
        PROVE  Piece(text, F, G, m) = <<text[m]>> /\ Piece(text, F, H, m) = <<>>
    <3>1. f \in H /\ f.start < m /\ m < f.end
      BY <2>1, <2>7, <1>1
    <3>2. \A g \in G : m < g.start
      BY <2>1, <2>2, <2>4, <2>7, <1>1, <1>2
    <3>3. \A g \in H : g.start # m
      <4> TAKE g \in H
      <4>1. CASE g = f
        BY <4>1, <3>1, <1>1, <2>1
      <4>2. CASE g # f
        BY <4>2, <2>2, <2>4, <2>7, <1>1, <1>2
      <4> QED BY <4>1, <4>2
    <3>4. \A g \in G : g.start # m /\ ~(g.start < m)
      BY <3>2, <1>2
    <3> HIDE DEF G, H
    <3>5. Piece(text, F, H, m) = <<>>
      BY <3>1, <3>3 DEF Piece
    <3>6. Piece(text, F, G, m) = <<text[m]>>
      BY <3>4 DEF Piece
    <3> QED BY <3>5, <3>6
  <2>8. ASSUME NEW m \in 1 .. n, e <= m
        PROVE  Piece(text, F, G, m) = Piece(text, F, H, m)
    <3>1. ~(m < f.end) /\ f.start # m
      BY <2>1, <2>2, <2>8, <1>1
    <3>2. \A g \in H : g # f => g \in G
      BY <1>3, <1>4, <2>1
    <3>3. G \in SUBSET H
      BY <1>3
    <3> HIDE DEF G, H
    <3>4. (\E g \in G : g.start = m) <=> (\E g \in H : g.start = m)
      BY <3>1, <3>2, <3>3
    <3>5. (\E g \in G : g.start < m /\ m < g.end) <=> (\E g \in H : g.start < m /\ m < g.end)
      BY <3>1, <3>2, <3>3
    <3>6. ASSUME \E g \in G : g.start = m
          PROVE  (CHOOSE g \in G : g.start = m) = (CHOOSE g \in H : g.start = m)
      <4>1. \A g, h \in H : g.start = m /\ h.start = m => g = h
        BY <1>3, <1>4
      <4> QED BY <3>6, <3>3, <4>1
    <3> QED BY <3>4, <3>5, <3>6 DEF Piece
  <2>9. /\ P \in Seq(Seq(S)) /\ Len(P) = n /\ \A m \in 1 .. n : P[m] = Piece(text, F, G, m)
        /\ Q \in Seq(Seq(S)) /\ Len(Q) = n /\ \A m \in 1 .. n : Q[m] = Piece(text, F, H, m)
    BY <1>3, PiecesTyped
  <2> HIDE DEF P, Q, G, H, n, e, ph
  <2>10. PICK a \in [0 .. n -> Seq(S)] :
              /\ a[0] = <<>>
              /\ \A m \in 1 .. n : a[m] = a[m - 1] \o P[m]
              /\ Seqs!FlattenSeq(P) = a[n]
    <3>1. P \in Seq(Seq(S)) /\ Len(P) = n
      BY <2>9
    <3> QED BY <3>1, FlattenUnfolds
  <2>11. PICK b \in [0 .. n -> Seq(S)] :
              /\ b[0] = <<>>
              /\ \A m \in 1 .. n : b[m] = b[m - 1] \o Q[m]
              /\ Seqs!FlattenSeq(Q) = b[n]
    <3>1. Q \in Seq(Seq(S)) /\ Len(Q) = n
      BY <2>9
    <3> QED BY <3>1, FlattenUnfolds
  <2> DEFINE R(m) == /\ m < i => b[m] = a[m]
                     /\ m >= i => b[m] = Cut(a[m], i, e, ph)
                     /\ m < e => Len(a[m]) = m
                     /\ m >= e => Len(a[m]) >= e - 1
             A == {m \in 0 .. n : R(m)}
  <2>12. 0 \in A
    <3>1. Len(<<>>) = 0
      OBVIOUS
    <3> QED BY <3>1, <1>1, <2>2, <2>10, <2>11
  <2>13. ASSUME NEW k \in 0 .. n - 1, k \in A PROVE k + 1 \in A
    <3>1. PICK m \in 1 .. n : m = k + 1 /\ m - 1 = k
      BY <1>1
    <3>2. R(k) /\ a[k] \in Seq(S) /\ Len(a[k]) \in Nat /\ b[k] \in Seq(S)
      BY <2>13, <2>10, <2>11
    <3>3. a[m] = a[m - 1] \o P[m] /\ b[m] = b[m - 1] \o Q[m]
      BY ONLY <2>10, <2>11, m \in 1 .. n, Zenon
    <3>4. a[m] = a[k] \o P[m] /\ b[m] = b[k] \o Q[m]
      BY ONLY <3>1, <3>3
    <3>5. P[m] \in Seq(S) /\ Len(P[m]) \in Nat /\ Len(a[m]) = Len(a[k]) + Len(P[m])
      <4>1. P[m] \in Seq(S)
        BY <2>9
      <4> QED BY <3>2, <3>4, <4>1, ConcatProperties
    <3>6. /\ i \in Nat /\ e \in Nat /\ 1 <= i /\ i < e /\ ph \in S
          /\ k \in Nat /\ m \in Nat /\ m = k + 1
      BY <1>1, <2>2, <3>1
    <3> HIDE DEF R
    <3>7. /\ a[k] \in Seq(S) /\ P[m] \in Seq(S)
           /\ i \in Nat /\ e \in Nat /\ 1 <= i /\ i < e /\ ph \in S
      BY ONLY <3>2, <3>5, <3>6
    <3>8. e - 1 <= Len(a[k]) =>
                 Cut(Joined(a[k], P[m]), i, e, ph) = Joined(Cut(a[k], i, e, ph), P[m])
      BY ONLY <3>7, CutBefore
    <3>9. i - 1 <= Len(a[k]) /\ Len(Joined(a[k], P[m])) < e =>
                 Cut(Joined(a[k], P[m]), i, e, ph) = Cut(a[k], i, e, ph)
      BY ONLY <3>7, CutAcross
    <3>10. Len(a[k]) = i - 1 => Cut(a[k], i, e, ph) = a[k] \o <<ph>>
      BY ONLY <3>7, CutAtEnd
    <3>11. text[m] \in S /\ <<text[m]>> \in Seq(S) /\ Len(<<text[m]>>) = 1
      BY <1>1
    <3>12. CASE m < i
      <4>1. P[m] = <<text[m]>> /\ Q[m] = <<text[m]>>
        BY <2>5, <2>9, <3>12
      <4>2. a[k] = b[k] /\ Len(a[k]) = k /\ k < i
        BY ONLY <3>2, <3>6, <3>12 DEF R
      <4>3. a[m] = b[m] /\ Len(a[m]) = m
        BY <4>1, <4>2, <3>1, <3>4, <3>5, <3>11
      <4>4. R(m)
        BY ONLY <4>3, <3>6, <3>12 DEF R
      <4> QED BY <4>4, <3>1
    <3>13. CASE m = i
      <4>1. P[m] = <<text[m]>> /\ Q[m] = <<ph>>
        BY <2>6, <2>9, <3>13
      <4>2. a[k] = b[k] /\ Len(a[k]) = i - 1 /\ Len(a[k]) = k
        BY ONLY <3>2, <3>6, <3>13 DEF R
      <4>3. b[m] = Cut(a[k], i, e, ph)
        BY <4>1, <4>2, <3>4, <3>10
      <4>4. Cut(a[m], i, e, ph) = Cut(a[k], i, e, ph)
        <5>1. Len(Joined(a[k], P[m])) = i - 1 + 1
          <6>1. Len(P[m]) = 1
            BY ONLY <4>1, <3>11
          <6> QED BY ONLY <6>1, <4>2, <3>4, <3>5 DEF Joined
        <5>2. i - 1 <= Len(a[k]) /\ Len(Joined(a[k], P[m])) < e
          BY ONLY <5>1, <4>2, <3>6
        <5> QED BY <5>2, <3>4, <3>9 DEF Joined
      <4>5. b[m] = Cut(a[m], i, e, ph) /\ Len(a[m]) = m
        <5>1. Len(P[m]) = 1
          BY ONLY <4>1, <3>11
        <5>2. Len(a[m]) = m
          BY ONLY <5>1, <4>2, <3>5, <3>6
        <5> QED BY ONLY <5>2, <4>2, <4>3, <4>4
      <4>6. R(m)
        BY ONLY <4>5, <3>6, <3>13 DEF R
      <4> QED BY <4>6, <3>1
    <3>14. CASE i < m /\ m < e
      <4>1. P[m] = <<text[m]>> /\ Q[m] = <<>>
        BY <2>7, <2>9, <3>14
      <4>2. b[k] = Cut(a[k], i, e, ph) /\ Len(a[k]) = k
        BY ONLY <3>2, <3>6, <3>14 DEF R
      <4>3. b[m] = b[k]
        BY <4>1, <3>2, <3>4, ConcatEmptySeq
      <4>4. Cut(a[m], i, e, ph) = Cut(a[k], i, e, ph)
        <5>1. i - 1 <= Len(a[k]) /\ Len(Joined(a[k], P[m])) < e
          <6>1. Len(P[m]) = 1
            BY ONLY <4>1, <3>11
          <6>2. Len(Joined(a[k], P[m])) = k + 1
            BY ONLY <6>1, <4>2, <3>4, <3>5 DEF Joined
          <6> QED BY ONLY <6>2, <4>2, <3>6, <3>14
        <5> QED BY <5>1, <3>4, <3>9 DEF Joined
      <4>5. b[m] = Cut(a[m], i, e, ph) /\ Len(a[m]) = m
        <5>1. Len(P[m]) = 1
          BY ONLY <4>1, <3>11
        <5>2. Len(a[m]) = m
          BY ONLY <5>1, <4>2, <3>5, <3>6
        <5> QED BY ONLY <5>2, <4>2, <4>3, <4>4
      <4>6. R(m)
        BY ONLY <4>5, <3>6, <3>14 DEF R
      <4> QED BY <4>6, <3>1
    <3>15. CASE e <= m
      <4>1. P[m] = Q[m]
        BY <2>8, <2>9, <3>15
      <4>2. b[k] = Cut(a[k], i, e, ph) /\ e - 1 <= Len(a[k])
        <5>1. k >= i /\ (k < e => k = e - 1)
          BY ONLY <3>6, <3>15
        <5> QED BY ONLY <5>1, <3>2, <3>6 DEF R
      <4>3. Cut(a[m], i, e, ph) = Cut(a[k], i, e, ph) \o P[m]
        BY <4>2, <3>4, <3>8 DEF Joined
      <4>4. b[m] = Cut(a[m], i, e, ph)
        BY <4>1, <4>2, <4>3, <3>4
      <4>5. Len(a[m]) >= e - 1
        <5>1. PICK x \in Nat, y \in Nat, z \in Nat :
                     x = Len(a[k]) /\ y = Len(P[m]) /\ z = e
          BY <3>2, <3>5, <3>6
        <5>2. Len(a[m]) = x + y /\ z - 1 <= x
          BY ONLY <5>1, <4>2, <3>5
        <5>3. x + y >= z - 1
          BY ONLY <5>2, x \in Nat, y \in Nat, z \in Nat
        <5> QED BY ONLY <5>1, <5>2, <5>3
      <4>6. R(m)
        BY ONLY <4>4, <4>5, <3>6, <3>15 DEF R
      <4> QED BY <4>6, <3>1
    <3> QED BY <3>12, <3>13, <3>14, <3>15, <1>1, <2>2
  <2>14. n \in A
    <3> HIDE DEF A
    <3>1. \A k \in 0 .. n - 1 : k \in A => k + 1 \in A
      BY <2>13
    <3>2. \A k \in 0 .. n : k \in A
      BY ONLY <1>1, <2>12, <3>1, Induction
    <3> QED BY <3>2, <1>1
  <2>15. b[n] = Cut(a[n], i, e, ph)
    BY <2>14, <1>1
  <2> QED BY <2>15, <2>10, <2>11, <2>3 DEF P, Q, G, H
<1> QED BY <1>5, <1>6

(* Symbol by symbol, a text is the concatenation of its symbols. *)
LEMMA FlattenSingletons ==
    ASSUME NEW S, NEW text \in Seq(S)
    PROVE  Seqs!FlattenSeq([i \in DOMAIN text |-> <<text[i]>>]) = text
<1> DEFINE n == Len(text)
           pieces == [i \in DOMAIN text |-> <<text[i]>>]
<1>1. n \in Nat /\ DOMAIN text = 1 .. n /\ \A i \in 1 .. n : text[i] \in S
  OBVIOUS
<1>2. pieces \in Seq(Seq(S)) /\ Len(pieces) = n /\ \A i \in 1 .. n : pieces[i] = <<text[i]>>
  <2>1. \A i \in 1 .. n : <<text[i]>> \in Seq(S)
    BY <1>1
  <2> QED BY <2>1, <1>1
<1> HIDE DEF pieces, n
<1>3. PICK g \in [0 .. n -> Seq(S)] :
         /\ g[0] = <<>>
         /\ \A i \in 1 .. n : g[i] = g[i - 1] \o pieces[i]
         /\ Seqs!FlattenSeq(pieces) = g[n]
  <2>1. pieces \in Seq(Seq(S)) /\ Len(pieces) = n
    BY <1>2
  <2> QED BY <2>1, FlattenUnfolds
<1> DEFINE R(k) == Len(g[k]) = k /\ \A q \in 1 .. k : g[k][q] = text[q]
           A == {k \in 0 .. n : R(k)}
<1>4. 0 \in A
  <2>1. Len(<<>>) = 0
    OBVIOUS
  <2> QED BY <2>1, <1>1, <1>3
<1>5. ASSUME NEW k \in 0 .. n - 1, k \in A PROVE k + 1 \in A
  <2>1. PICK m \in 1 .. n : m = k + 1 /\ m - 1 = k
    BY <1>1
  <2>2. g[m] = g[m - 1] \o pieces[m]
    BY ONLY <1>3, m \in 1 .. n, Zenon
  <2>3. R(k) /\ g[k] \in Seq(S) /\ text[m] \in S
    BY <1>5, <1>3, <1>1
  <2>4. g[m] = Append(g[k], text[m])
    <3>1. pieces[m] = <<text[m]>>
      BY <1>2
    <3>2. g[m] = g[k] \o <<text[m]>>
      BY ONLY <2>1, <2>2, <3>1
    <3> QED BY <3>2, <2>3
  <2>5. R(m)
    BY <2>1, <2>3, <2>4
  <2> QED BY <2>5, <2>1
<1>6. n \in A
  <2> HIDE DEF A
  <2>1. \A k \in 0 .. n - 1 : k \in A => k + 1 \in A
    BY <1>5
  <2>2. \A k \in 0 .. n : k \in A
    BY ONLY <1>1, <1>4, <2>1, Induction
  <2> QED BY <2>2, <1>1
<1>7. g[n] = text
  <2>1. g[n] \in Seq(S) /\ Len(g[n]) = Len(text) /\ \A q \in 1 .. Len(g[n]) : g[n][q] = text[q]
    BY <1>6, <1>3, <1>1 DEF n
  <2> QED BY <2>1, SeqEqual
<1> QED BY <1>3, <1>7 DEF pieces

(* Spliced in from the right one after the other, the placeholders of      *)
(* findings that do not meet give the text one pass from the left gives,   *)
(* for every text and every set of such findings (engine.py:138-140).      *)
THEOREM SplicingFromTheRight ==
    ASSUME NEW S, NEW text \in Seq(S), NEW F, DisjointSpans(text, F),
           \A f \in F : Placeholder(F, f) \in S
    PROVE  SplicedInOrder(text, F, [k \in DOMAIN text |-> Len(text) + 1 - k])
             = Seqs!FlattenSeq(Pieces(text, F, F))
<1> DEFINE n == Len(text)
           starts == [k \in DOMAIN text |-> n + 1 - k]
           G(i) == {f \in F : f.start >= i}
           T(k) == Seqs!FlattenSeq(Pieces(text, F, G(n + 1 - k)))
           t == [k \in 0 .. n |-> T(k)]
           E(g) == [k \in 0 .. n |-> IF k = 0 THEN text ELSE Spliced(g[k - 1], F, starts[k])]
           g == CHOOSE g : g = E(g)
<1>1. n \in Nat /\ DOMAIN text = 1 .. n /\ \A k \in 1 .. n : starts[k] = n + 1 - k
  OBVIOUS
<1>2. SplicedInOrder(text, F, starts) = g[n]
  BY DEF SplicedInOrder
<1>3. \A f \in F : f.start \in 1 .. n
  BY DEF DisjointSpans
<1>4. T(0) = text
  <2>1. G(n + 1) = {}
    BY <1>3, <1>1
  <2>2. Pieces(text, F, {}) = [i \in DOMAIN text |-> <<text[i]>>]
    BY DEF Pieces, Piece
  <2>3. n + 1 - 0 = n + 1
    BY <1>1
  <2> QED BY <2>1, <2>2, <2>3, FlattenSingletons
<1>5. T(n) = Seqs!FlattenSeq(Pieces(text, F, F))
  <2>1. G(n + 1 - n) = F
    BY <1>3, <1>1
  <2> QED BY <2>1
<1>6. ASSUME NEW k \in 1 .. n PROVE T(k) = Spliced(T(k - 1), F, starts[k])
  <2>1. PICK i \in DOMAIN text : i = n + 1 - k /\ i + 1 = n + 1 - (k - 1)
    BY <1>1
  <2>2. Seqs!FlattenSeq(Pieces(text, F, G(i)))
             = Spliced(Seqs!FlattenSeq(Pieces(text, F, G(i + 1))), F, i)
    BY OneMoreSplice
  <2>3. starts[k] = i
    BY <2>1, <1>1
  <2> HIDE DEF G
  <2> QED BY ONLY <2>1, <2>2, <2>3
<1> HIDE DEF starts, n
<1>7. t = E(t)
  <2> HIDE DEF T
  <2>1. \A k \in 1 .. n : t[k - 1] = T(k - 1)
    BY <1>1
  <2>2. \A k \in 0 .. n : T(k) = IF k = 0 THEN text ELSE Spliced(t[k - 1], F, starts[k])
    BY <1>1, <1>4, <1>6, <2>1
  <2> DEFINE H == E(t)
  <2>3. H = [k \in 0 .. n |-> T(k)]
    BY <2>2
  <2> QED BY <2>3
<1>8. g = E(g)
  <2> HIDE DEF t
  <2> QED BY <1>7
<1> HIDE DEF g
<1>9. g[0] = text /\ \A k \in 1 .. n : g[k] = Spliced(g[k - 1], F, starts[k])
  <2> DEFINE H == E(g)
  <2>1. H[0] = text /\ \A k \in 1 .. n : H[k] = Spliced(g[k - 1], F, starts[k])
    BY <1>1
  <2>2. g = H
    BY <1>8
  <2> HIDE DEF H
  <2> QED BY <2>1, <2>2
<1> HIDE DEF T
<1> DEFINE A == {k \in 0 .. n : g[k] = T(k)}
<1>10. 0 \in A
  BY <1>1, <1>4, <1>9
<1>11. ASSUME NEW k \in 0 .. n - 1, k \in A PROVE k + 1 \in A
  <2>1. PICK m \in 1 .. n : m = k + 1 /\ m - 1 = k
    BY <1>1
  <2>2. g[m] = Spliced(g[m - 1], F, starts[m])
    BY ONLY <1>9, m \in 1 .. n, Zenon
  <2>3. T(m) = Spliced(T(m - 1), F, starts[m])
    BY ONLY <1>6, m \in 1 .. n, Zenon
  <2> QED BY <2>1, <2>2, <2>3, <1>11
<1>12. n \in A
  <2> HIDE DEF A
  <2>1. \A k \in 0 .. n - 1 : k \in A => k + 1 \in A
    BY <1>11
  <2>2. \A k \in 0 .. n : k \in A
    BY ONLY <1>1, <1>10, <2>1, Induction
  <2> QED BY <2>2, <1>1
<1> QED BY <1>12, <1>2, <1>5 DEF starts, n
=============================================================================
