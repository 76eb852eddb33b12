---------------------------- MODULE RecordProofs ----------------------------
(***************************************************************************)
(* What is left of wrapped text on its way to the record, for every text,  *)
(* user, matrix and threshold: a cut respects the wraps around it, so      *)
(* redaction, the strips and the masks keep what stands in a wrap in it,   *)
(* and the pattern that looks for the wrap finds it.                       *)
(*                                                                         *)
(* Cuts and Respects say what a cut is and when it leaves wraps whole;     *)
(* then one section for each kind: proprietary lines under a cut, the      *)
(* strips, the redaction of tags, the masks, the hook, and the resolution, *)
(* which cuts nothing and puts wraps in.  Settled is what every stage      *)
(* behind it keeps and the next one needs.                                 *)
(***************************************************************************)
EXTENDS BodyTextProofs

-----------------------------------------------------------------------------
(* Sentinel wraps under the cuts of the other rules.                       *)

\* The closing sentinel an opening one waits for.
CloseOf(symbol) == Close(symbol[2][1], symbol[2][2], symbol[2][3])

\* The two kinds of wrap the gateway makes.
Families == {"DOC", "IAP"}

(* A wrap stands from a to b: up to the first closing sentinel of its      *)
(* token and name.                                                         *)
Wrap(c, a, b) ==
    /\ a \in DOMAIN c /\ b \in DOMAIN c /\ a < b
    /\ Kind(c[a]) = "open" /\ c[a][2][1] \in Families
    /\ c[b] = CloseOf(c[a])
    /\ \A k \in DOMAIN c : a < k /\ k < b => c[k] # CloseOf(c[a])

(* The sentinels of a wrap are neither what a cut leaves behind nor what   *)
(* other rules look for.                                                   *)
LEMMA SentinelKinds ==
    ASSUME NEW c, NEW a, NEW b, Wrap(c, a, b)
    PROVE  /\ Kind(c[a]) = "open" /\ Kind(c[b]) = "close"
           /\ c[a] # Newline /\ c[b] # Newline
           /\ \A u : /\ c[a] # Opening(u) /\ c[b] # Opening(u)
                     /\ c[a] # Closing(u) /\ c[b] # Closing(u)
<1>1. Kind(c[a]) = "open" /\ Kind(c[b]) = "close"
  BY DEF Wrap, CloseOf, Close, Kind
<1>2. /\ Kind(Newline) = "newline"
      /\ \A u : Kind(Opening(u)) = "opening" /\ Kind(Closing(u)) = "closing"
  BY DEF Kind, Newline, Opening, Closing
<1> QED BY <1>1, <1>2

(* The strip pattern of a token matches its wraps. *)
LEMMA WrapEndIs ==
    ASSUME NEW S, NEW c, c \in Seq(S), NEW i \in DOMAIN c, NEW family \in Families, NEW token
    PROVE  /\ \/ WrapEnd(family, token, c, i) = NoMatch
              \/ /\ Wrap(c, i, WrapEnd(family, token, c, i))
                 /\ c[i][2][1] = family /\ c[i][2][2] = token
           /\ \A b : Wrap(c, i, b) /\ c[i][2][1] = family /\ c[i][2][2] = token =>
                        WrapEnd(family, token, c, i) = b /\ b # NoMatch
<1> DEFINE x == Close(family, token, c[i][2][3])
           e == Ahead(c, i, x)
           sought == Kind(c[i]) = "open" /\ c[i][2][1] = family /\ c[i][2][2] = token
<1>1. WrapEnd(family, token, c, i) = IF ~sought THEN NoMatch ELSE e
  BY DEF WrapEnd, IsSentinel, Ahead
<1>2. sought => x = CloseOf(c[i])
  BY DEF CloseOf
<1> HIDE DEF x
<1>3. \/ /\ e = NoMatch /\ \A j \in DOMAIN c : i < j => c[j] # x
      \/ /\ e \in DOMAIN c /\ i < e /\ c[e] = x /\ e # NoMatch
         /\ \A j \in DOMAIN c : i < j /\ j < e => c[j] # x
  BY FirstBehind
<1> HIDE DEF e
<1>4. ASSUME WrapEnd(family, token, c, i) # NoMatch
      PROVE  Wrap(c, i, WrapEnd(family, token, c, i)) /\ c[i][2][1] = family /\ c[i][2][2] = token
  <2>1. sought /\ WrapEnd(family, token, c, i) = e /\ x = CloseOf(c[i]) /\ e # NoMatch
    BY <1>1, <1>2, <1>4
  <2> QED BY <2>1, <1>3 DEF Wrap
<1>5. ASSUME NEW b, Wrap(c, i, b), c[i][2][1] = family, c[i][2][2] = token
      PROVE  WrapEnd(family, token, c, i) = b /\ b # NoMatch
  <2>1. sought
    BY <1>5 DEF Wrap
  <2>2. x = CloseOf(c[i]) /\ WrapEnd(family, token, c, i) = e
    BY <2>1, <1>1, <1>2
  <2>3. b \in DOMAIN c /\ i < b /\ c[b] = x /\ \A k \in DOMAIN c : i < k /\ k < b => c[k] # x
    BY <1>5, <2>2 DEF Wrap
  <2>4. e \in DOMAIN c /\ i < e /\ c[e] = x /\ e # NoMatch
           /\ \A j \in DOMAIN c : i < j /\ j < e => c[j] # x
    BY <1>3, <2>3
  <2>5. ~(b < e) /\ ~(e < b) /\ b \in Nat /\ e \in Nat
    BY <2>3, <2>4, TextPositions
  <2> QED BY <2>2, <2>4, <2>5
<1> QED BY <1>4, <1>5

(* WrapStretches gives the wraps of a family, and those never closed.      *)
LEMMA WrapIs ==
    ASSUME NEW S, NEW c, c \in Seq(S), NEW family \in Families
    PROVE  /\ \A s \in WrapStretches(c, family) :
                 s.to = NoMatch \/ (Wrap(c, s.from, s.to) /\ c[s.from][2][1] = family)
           /\ \A a, b : Wrap(c, a, b) /\ c[a][2][1] = family =>
                 Stretch(a, b, FALSE) \in WrapStretches(c, family)
<1> DEFINE At(i) == WrapEnd(family, c[i][2][2], c, i)
<1>1. \A s : s \in WrapStretches(c, family) <=>
                \E i \in DOMAIN c : /\ Kind(c[i]) = "open" /\ c[i][2][1] = family
                                    /\ s = Stretch(i, At(i), FALSE)
  BY DEF WrapStretches, IsSentinel, Positions
<1>2. ASSUME NEW i \in DOMAIN c
      PROVE  /\ At(i) = NoMatch \/ (Wrap(c, i, At(i)) /\ c[i][2][1] = family)
             /\ \A b : Wrap(c, i, b) /\ c[i][2][1] = family => At(i) = b
  BY WrapEndIs
<1>3. \A i : Stretch(i, At(i), FALSE).from = i /\ Stretch(i, At(i), FALSE).to = At(i)
  BY DEF Stretch
<1> HIDE DEF At
<1>4. ASSUME NEW s \in WrapStretches(c, family)
      PROVE  s.to = NoMatch \/ (Wrap(c, s.from, s.to) /\ c[s.from][2][1] = family)
  <2>1. PICK i \in DOMAIN c : s = Stretch(i, At(i), FALSE)
    BY <1>1
  <2>2. s.from = i /\ s.to = At(i)
    BY <2>1, <1>3
  <2> QED BY <2>2, <1>2
<1>5. ASSUME NEW a, NEW b, Wrap(c, a, b), c[a][2][1] = family
      PROVE  Stretch(a, b, FALSE) \in WrapStretches(c, family)
  BY <1>1, <1>2, <1>5 DEF Wrap
<1> QED BY <1>4, <1>5

(* A position is in a wrap when it is in a closed one. *)
LEMMA InWrapIs ==
    ASSUME NEW S, NEW c, c \in Seq(S), NEW family \in Families, NEW j \in DOMAIN c
    PROVE  InWrap(c, family, j) <=>
              \E a, b : Wrap(c, a, b) /\ c[a][2][1] = family /\ a < j /\ j < b
<1>1. ASSUME InWrap(c, family, j)
      PROVE  \E a, b : Wrap(c, a, b) /\ c[a][2][1] = family /\ a < j /\ j < b
  <2>1. PICK s \in WrapStretches(c, family) : s.from < j /\ j < s.to
    BY <1>1 DEF InWrap
  <2>2. s.to # NoMatch
    BY <2>1, TextPositions DEF NoMatch
  <2> QED BY <2>1, <2>2, WrapIs
<1>2. ASSUME NEW a, NEW b, Wrap(c, a, b), c[a][2][1] = family, a < j, j < b
      PROVE  InWrap(c, family, j)
  <2> DEFINE s == Stretch(a, b, FALSE)
  <2>1. s \in WrapStretches(c, family)
    BY <1>2, WrapIs
  <2>2. s.from = a /\ s.to = b
    BY DEF Stretch
  <2> HIDE DEF s
  <2> QED BY <1>2, <2>1, <2>2 DEF InWrap
<1> QED BY <1>1, <1>2

(* What a rule puts where it cut. *)
Fillers == {"redacted", "newline", "named", "masked"}

(* t is c with the stretches of N cut out, whatever is put in for them:    *)
(* src says where a symbol of t comes from.                                *)
Cuts(c, N, t, src) ==
    /\ src \in [DOMAIN t -> DOMAIN c]
    /\ \A q, r \in DOMAIN t : q < r => src[q] <= src[r]
    /\ \A q, r \in DOMAIN t : src[q] = src[r] /\ ~Hits(N, src[q]) => q = r
    /\ \A q \in DOMAIN t : IF Hits(N, src[q]) THEN Kind(t[q]) \in Fillers
                                              ELSE t[q] = c[src[q]]
    /\ \A i \in DOMAIN c : ~Hits(N, i) => \E q \in DOMAIN t : src[q] = i
    /\ \A n \in N : n.from \in Nat /\ n.to \in Nat

(* The order of the symbols kept, and that only fillers are put in.        *)
LEMMA CutOrder ==
    ASSUME NEW S, NEW c, c \in Seq(S), NEW R, NEW t, t \in Seq(R), NEW N, NEW src,
           Cuts(c, N, t, src), NEW q \in DOMAIN t, NEW r \in DOMAIN t
    PROVE  /\ q \in Nat /\ r \in Nat /\ src[q] \in Nat /\ src[r] \in Nat
           /\ src[q] \in DOMAIN c /\ src[r] \in DOMAIN c
           /\ src[q] < src[r] => q < r
           /\ q < r /\ (~Hits(N, src[q]) \/ ~Hits(N, src[r])) => src[q] < src[r]
           /\ Kind(t[q]) \notin Fillers => ~Hits(N, src[q])
           /\ ~Hits(N, src[q]) => t[q] = c[src[q]]
<1>1. q \in Nat /\ r \in Nat
  BY TextPositions
<1>2. src[q] \in DOMAIN c /\ src[r] \in DOMAIN c
  BY DEF Cuts
<1>3. src[q] \in Nat /\ src[r] \in Nat
  BY <1>2, TextPositions
<1>4. (q < r => src[q] <= src[r]) /\ (r < q => src[r] <= src[q])
  BY DEF Cuts
<1>5. ASSUME q < r, ~Hits(N, src[q]) \/ ~Hits(N, src[r]) PROVE src[q] # src[r]
  <2>1. ASSUME src[q] = src[r] PROVE FALSE
    <3>1. ~Hits(N, src[q]) /\ src[q] = src[r]
      BY <1>5, <2>1
    <3>2. q = r
      BY <3>1 DEF Cuts
    <3> QED BY <1>1, <1>5, <3>2
  <2> QED BY <2>1
<1>6. /\ Kind(t[q]) \notin Fillers => ~Hits(N, src[q])
      /\ ~Hits(N, src[q]) => t[q] = c[src[q]]
  BY DEF Cuts
<1> QED BY <1>1, <1>2, <1>3, <1>4, <1>5, <1>6

(* A cut is apart from a wrap, strictly within it, or takes it whole.      *)
Clear(n, a, b) ==
    \/ n.to < a \/ b < n.from
    \/ n.from <= a /\ b <= n.to
    \/ a < n.from /\ n.to < b

\* Every cut is clear of every wrap.
Respects(c, N) == \A n \in N : \A a, b : Wrap(c, a, b) => Clear(n, a, b)

(* What is left of a wrap is left with its sentinels. *)
LEMMA SentinelsKept ==
    ASSUME NEW S, NEW c, c \in Seq(S), NEW N, \A n \in N : n.from \in Nat /\ n.to \in Nat,
           Respects(c, N), NEW a, NEW b, Wrap(c, a, b), NEW i \in Nat, a <= i, i <= b, ~Hits(N, i)
    PROVE  ~Hits(N, a) /\ ~Hits(N, b)
<1>1. a \in Nat /\ b \in Nat /\ a < b
  BY TextPositions DEF Wrap
<1>2. ASSUME NEW n \in N, (n.from <= a /\ a <= n.to) \/ (n.from <= b /\ b <= n.to) PROVE FALSE
  <2>1. Clear(n, a, b)
    BY DEF Respects
  <2>2. n.from <= a /\ b <= n.to
    BY <1>1, <1>2, <2>1 DEF Clear
  <2>3. n.from <= i /\ i <= n.to
    BY <1>1, <2>2
  <2> QED BY <2>3 DEF Hits
<1> QED BY <1>2 DEF Hits

(* And stands between them as before. *)
LEMMA WrapImage ==
    ASSUME NEW S, NEW c, c \in Seq(S), NEW R, NEW t, t \in Seq(R), NEW N, NEW src,
           Cuts(c, N, t, src), NEW a, NEW b, Wrap(c, a, b), NEW p \in DOMAIN t, NEW e \in DOMAIN t,
           src[p] = a, src[e] = b, ~Hits(N, a), ~Hits(N, b)
    PROVE  Wrap(t, p, e) /\ t[p] = c[a]
<1>1. t[p] = c[a] /\ t[e] = c[b]
  BY DEF Cuts
<1>2. p < e
  BY CutOrder DEF Wrap
<1>3. ASSUME NEW k \in DOMAIN t, p < k, k < e PROVE t[k] # CloseOf(c[a])
  <2> SUFFICES ASSUME t[k] = CloseOf(c[a]) PROVE FALSE
    OBVIOUS
  <2>1. ~Hits(N, src[k])
    <3>1. Kind(t[k]) \notin Fillers
      BY DEF CloseOf, Close, Kind, Fillers
    <3> QED BY <3>1, CutOrder
  <2>2. a < src[k] /\ src[k] < b /\ src[k] \in DOMAIN c
    BY <1>3, CutOrder
  <2>3. c[src[k]] = CloseOf(c[a])
    BY <2>1, CutOrder
  <2> QED BY <2>2, <2>3 DEF Wrap
<1> QED BY <1>1, <1>2, <1>3 DEF Wrap

(* There are no wraps but those. *)
LEMMA WrapFrom ==
    ASSUME NEW S, NEW c, c \in Seq(S), NEW R, NEW t, t \in Seq(R), NEW N, NEW src,
           Cuts(c, N, t, src), Respects(c, N), NEW p, NEW e, Wrap(t, p, e)
    PROVE  /\ p \in DOMAIN t /\ e \in DOMAIN t /\ p < e
           /\ Wrap(c, src[p], src[e]) /\ t[p] = c[src[p]]
           /\ ~Hits(N, src[p]) /\ ~Hits(N, src[e])
<1>1. p \in DOMAIN t /\ e \in DOMAIN t /\ p < e
  BY DEF Wrap
<1>2. Kind(t[p]) = "open" /\ Kind(t[e]) = "close"
  BY SentinelKinds
<1>3. ~Hits(N, src[p]) /\ ~Hits(N, src[e])
  <2>1. "open" \notin Fillers /\ "close" \notin Fillers
    BY DEF Fillers
  <2> QED BY <1>1, <1>2, <2>1, CutOrder
<1>4. /\ t[p] = c[src[p]] /\ t[e] = c[src[e]] /\ src[p] < src[e]
      /\ src[p] \in DOMAIN c /\ src[e] \in DOMAIN c /\ src[p] \in Nat /\ src[e] \in Nat
  BY <1>1, <1>3, CutOrder
<1>5. PICK a \in DOMAIN c : a = src[p]
  BY <1>4
<1> DEFINE x == CloseOf(c[a])
           f == Ahead(c, a, x)
<1>6. c[src[e]] = x /\ Kind(c[a]) = "open" /\ c[a][2][1] \in Families
        /\ \A k \in DOMAIN t : p < k /\ k < e => t[k] # x
  BY <1>4, <1>5 DEF Wrap
<1> HIDE DEF x
<1>7. \/ /\ f = NoMatch /\ \A j \in DOMAIN c : a < j => c[j] # x
      \/ /\ f \in DOMAIN c /\ a < f /\ c[f] = x /\ f # NoMatch
         /\ \A j \in DOMAIN c : a < j /\ j < f => c[j] # x
  BY FirstBehind
<1> HIDE DEF f
<1>8. /\ f \in DOMAIN c /\ f \in Nat /\ a < f /\ c[f] = x /\ f <= src[e]
      /\ \A j \in DOMAIN c : a < j /\ j < f => c[j] # x
  <2>1. /\ f \in DOMAIN c /\ a < f /\ c[f] = x
        /\ \A j \in DOMAIN c : a < j /\ j < f => c[j] # x
    BY <1>4, <1>6, <1>7, <1>5
  <2>2. f \in Nat
    BY <2>1, TextPositions
  <2> QED BY <1>4, <1>5, <1>6, <2>1, <2>2
<1>9. Wrap(c, a, f)
  BY <1>4, <1>6, <1>8 DEF Wrap, x
<1>10. ~Hits(N, f)
  <2>1. \A n \in N : n.from \in Nat /\ n.to \in Nat
    BY DEF Cuts
  <2>2. a \in Nat /\ a <= f
    BY <1>4, <1>8, <1>5
  <2>3. ~Hits(N, a)
    BY <1>3, <1>5
  <2> QED BY <1>9, <2>1, <2>2, <2>3, SentinelsKept
<1>11. PICK k \in DOMAIN t : src[k] = f
  BY <1>8, <1>10 DEF Cuts
<1>12. t[k] = x /\ p < k
  BY <1>1, <1>8, <1>10, <1>11, <1>5, CutOrder
<1>13. ~(k < e)
  BY <1>6, <1>12
<1>14. ~(f < src[e])
  BY <1>1, <1>11, <1>13, CutOrder
<1>15. f = src[e]
  BY <1>4, <1>8, <1>14
<1> QED BY <1>1, <1>3, <1>4, <1>9, <1>15, <1>5

(* What wraps stand for. *)
BodiesCarried(c, t) ==
    \A q \in DOMAIN t : Kind(t[q]) \in {"body", "payload"} =>
       \E i \in DOMAIN c :
          /\ c[i] = t[q]
          /\ \A a, b : Wrap(c, a, b) /\ a < i /\ i < b =>
                \E p, e : Wrap(t, p, e) /\ p < q /\ q < e /\ t[p] = c[a]

(* No cut frees a body or a payload of its wrap. *)
LEMMA CutsCarryBodies ==
    ASSUME NEW S, NEW c, c \in Seq(S), NEW R, NEW t, t \in Seq(R), NEW N, NEW src,
           Cuts(c, N, t, src), Respects(c, N)
    PROVE  BodiesCarried(c, t)
<1> SUFFICES ASSUME NEW q \in DOMAIN t, Kind(t[q]) \in {"body", "payload"}
             PROVE  \E i \in DOMAIN c :
                       /\ c[i] = t[q]
                       /\ \A a, b : Wrap(c, a, b) /\ a < i /\ i < b =>
                             \E p, e : Wrap(t, p, e) /\ p < q /\ q < e /\ t[p] = c[a]
  BY DEF BodiesCarried
<1>1. ~Hits(N, src[q]) /\ src[q] \in DOMAIN c /\ c[src[q]] = t[q] /\ src[q] \in Nat
  <2>1. Kind(t[q]) \notin Fillers
    BY DEF Fillers
  <2> QED BY <2>1, CutOrder
<1>2. ASSUME NEW a, NEW b, Wrap(c, a, b), a < src[q], src[q] < b
      PROVE  \E p, e : Wrap(t, p, e) /\ p < q /\ q < e /\ t[p] = c[a]
  <2>1. a \in DOMAIN c /\ b \in DOMAIN c /\ a \in Nat /\ b \in Nat
    BY <1>2, TextPositions DEF Wrap
  <2>2. ~Hits(N, a) /\ ~Hits(N, b)
    <3>1. \A n \in N : n.from \in Nat /\ n.to \in Nat
      BY DEF Cuts
    <3>2. a <= src[q] /\ src[q] <= b
      BY <1>1, <1>2, <2>1
    <3> QED BY <3>1, <3>2, <1>1, <1>2, SentinelsKept
  <2>3. PICK p \in DOMAIN t : src[p] = a
    BY <2>1, <2>2 DEF Cuts
  <2>4. PICK e \in DOMAIN t : src[e] = b
    BY <2>1, <2>2 DEF Cuts
  <2>5. Wrap(t, p, e) /\ t[p] = c[a]
    BY <1>2, <2>2, <2>3, <2>4, WrapImage
  <2>6. p < q /\ q < e
    BY <1>2, <2>3, <2>4, CutOrder
  <2> QED BY <2>5, <2>6
<1> QED BY <1>1, <1>2

(* One cut after the other. *)
LEMMA BodiesCarriedOn ==
    ASSUME NEW c, NEW t, NEW u, BodiesCarried(c, t), BodiesCarried(t, u)
    PROVE  BodiesCarried(c, u)
<1> SUFFICES ASSUME NEW q \in DOMAIN u, Kind(u[q]) \in {"body", "payload"}
             PROVE  \E i \in DOMAIN c :
                       /\ c[i] = u[q]
                       /\ \A a, b : Wrap(c, a, b) /\ a < i /\ i < b =>
                             \E p, e : Wrap(u, p, e) /\ p < q /\ q < e /\ u[p] = c[a]
  BY DEF BodiesCarried
<1>1. PICK j \in DOMAIN t :
         /\ t[j] = u[q]
         /\ \A a, b : Wrap(t, a, b) /\ a < j /\ j < b =>
               \E p, e : Wrap(u, p, e) /\ p < q /\ q < e /\ u[p] = t[a]
  BY DEF BodiesCarried
<1>2. PICK i \in DOMAIN c :
         /\ c[i] = t[j]
         /\ \A a, b : Wrap(c, a, b) /\ a < i /\ i < b =>
               \E p, e : Wrap(t, p, e) /\ p < j /\ j < e /\ t[p] = c[a]
  BY <1>1 DEF BodiesCarried
<1>3. ASSUME NEW a, NEW b, Wrap(c, a, b), a < i, i < b
      PROVE  \E p, e : Wrap(u, p, e) /\ p < q /\ q < e /\ u[p] = c[a]
  <2>1. PICK x, y : Wrap(t, x, y) /\ x < j /\ j < y /\ t[x] = c[a]
    BY <1>2, <1>3
  <2> QED BY <1>1, <2>1
<1> QED BY <1>1, <1>2, <1>3

\* The sentinels of this request stand in pairs.
OwnPaired(c) ==
    \A j \in DOMAIN c : OwnSentinel(c[j]) =>
       \E a, b : Wrap(c, a, b) /\ OwnSentinel(c[a]) /\ (j = a \/ j = b)

\* None but those stand in the wraps of earlier requests.
EchoesApart(c) ==
    \A a, b, j : /\ Wrap(c, a, b) /\ c[a][2][1] = "DOC" /\ ~OwnSentinel(c[a])
                 /\ j \in DOMAIN c /\ a < j /\ j < b /\ DocSentinel(c[j])
                 => OwnSentinel(c[j])

(* What is left of a sentinel's text is it, uncut. *)
LEMMA SentinelFrom ==
    ASSUME NEW S, NEW c, c \in Seq(S), NEW R, NEW t, t \in Seq(R), NEW N, NEW src,
           Cuts(c, N, t, src), NEW q \in DOMAIN t, DocSentinel(t[q])
    PROVE  /\ src[q] \in DOMAIN c /\ src[q] \in Nat /\ ~Hits(N, src[q])
           /\ t[q] = c[src[q]]
<1>1. Kind(t[q]) \notin Fillers
  BY DEF DocSentinel, IsSentinel, Fillers
<1> QED BY <1>1, CutOrder

(* No cut takes one of a pair. *)
LEMMA PairedAfter ==
    ASSUME NEW S, NEW c, c \in Seq(S), NEW R, NEW t, t \in Seq(R), NEW N, NEW src,
           Cuts(c, N, t, src), Respects(c, N), OwnPaired(c)
    PROVE  OwnPaired(t)
<1> SUFFICES ASSUME NEW j \in DOMAIN t, OwnSentinel(t[j])
             PROVE  \E p, e : Wrap(t, p, e) /\ OwnSentinel(t[p]) /\ (j = p \/ j = e)
  BY DEF OwnPaired
<1>1. /\ src[j] \in DOMAIN c /\ src[j] \in Nat /\ ~Hits(N, src[j]) /\ t[j] = c[src[j]]
  BY SentinelFrom DEF OwnSentinel
<1>2. PICK a, b : Wrap(c, a, b) /\ OwnSentinel(c[a]) /\ (src[j] = a \/ src[j] = b)
  BY <1>1 DEF OwnPaired
<1>3. a \in DOMAIN c /\ b \in DOMAIN c /\ a \in Nat /\ b \in Nat /\ a < b
  BY <1>2, TextPositions DEF Wrap
<1>4. ~Hits(N, a) /\ ~Hits(N, b)
  <2>1. \A n \in N : n.from \in Nat /\ n.to \in Nat
    BY DEF Cuts
  <2>2. a <= src[j] /\ src[j] <= b
    BY <1>1, <1>2, <1>3
  <2> QED BY <1>1, <1>2, <2>1, <2>2, SentinelsKept
<1>5. PICK p \in DOMAIN t : src[p] = a
  BY <1>3, <1>4 DEF Cuts
<1>6. PICK e \in DOMAIN t : src[e] = b
  BY <1>3, <1>4 DEF Cuts
<1>7. Wrap(t, p, e) /\ t[p] = c[a]
  BY <1>2, <1>4, <1>5, <1>6, WrapImage
<1>8. j = p \/ j = e
  BY <1>1, <1>2, <1>5, <1>6 DEF Cuts
<1> QED BY <1>2, <1>7, <1>8

(* And none puts a sentinel between two others. *)
LEMMA EchoesAfter ==
    ASSUME NEW S, NEW c, c \in Seq(S), NEW R, NEW t, t \in Seq(R), NEW N, NEW src,
           Cuts(c, N, t, src), Respects(c, N), EchoesApart(c)
    PROVE  EchoesApart(t)
<1> SUFFICES ASSUME NEW p, NEW e, NEW j \in DOMAIN t, Wrap(t, p, e), t[p][2][1] = "DOC",
                    ~OwnSentinel(t[p]), p < j, j < e, DocSentinel(t[j])
             PROVE  OwnSentinel(t[j])
  BY DEF EchoesApart
<1>1. /\ p \in DOMAIN t /\ e \in DOMAIN t /\ Wrap(c, src[p], src[e])
      /\ t[p] = c[src[p]] /\ ~Hits(N, src[p]) /\ ~Hits(N, src[e])
  BY WrapFrom
<1>2. src[j] \in DOMAIN c /\ ~Hits(N, src[j]) /\ t[j] = c[src[j]]
  BY SentinelFrom
<1>3. src[p] < src[j] /\ src[j] < src[e]
  BY <1>1, <1>2, CutOrder
<1> QED BY <1>1, <1>2, <1>3 DEF EchoesApart

(* Documents that stood apart still do. *)
LEMMA ApartAfter ==
    ASSUME NEW S, NEW c, c \in Seq(S), NEW R, NEW t, t \in Seq(R), NEW N, NEW src,
           Cuts(c, N, t, src), Respects(c, N), DocumentsApart(c)
    PROVE  DocumentsApart(t)
<1> SUFFICES ASSUME NEW j \in DOMAIN t, InWrap(t, "DOC", j), DocSentinel(t[j])
             PROVE  FALSE
  BY DEF DocumentsApart
<1>1. "DOC" \in Families
  BY DEF Families
<1>2. PICK p, e : Wrap(t, p, e) /\ t[p][2][1] = "DOC" /\ p < j /\ j < e
  BY <1>1, InWrapIs
<1>3. /\ p \in DOMAIN t /\ e \in DOMAIN t /\ Wrap(c, src[p], src[e])
      /\ t[p] = c[src[p]] /\ ~Hits(N, src[p]) /\ ~Hits(N, src[e])
  BY <1>2, WrapFrom
<1>4. ~Hits(N, src[j]) /\ t[j] = c[src[j]] /\ src[j] \in DOMAIN c
  BY SentinelFrom
<1>5. src[p] < src[j] /\ src[j] < src[e]
  BY <1>2, <1>3, CutOrder
<1>6. InWrap(c, "DOC", src[j])
  BY <1>1, <1>2, <1>3, <1>4, <1>5, InWrapIs
<1> QED BY <1>4, <1>6 DEF DocumentsApart

(* What a stage keeps of the wraps of a text: bodies and payloads in them, *)
(* no sentinels of documents but those it had, this request's in pairs,    *)
(* and echoes and documents apart.                                         *)
Carried(c, t) ==
    /\ BodiesCarried(c, t)
    /\ \A q \in DOMAIN t : DocSentinel(t[q]) => \E i \in DOMAIN c : c[i] = t[q]
    /\ OwnPaired(c) => OwnPaired(t)
    /\ EchoesApart(c) => EchoesApart(t)
    /\ DocumentsApart(c) => DocumentsApart(t)

(* A cut that respects them does. *)
LEMMA CutsCarry ==
    ASSUME NEW S, NEW c, c \in Seq(S), NEW R, NEW t, t \in Seq(R), NEW N, NEW src,
           Cuts(c, N, t, src), Respects(c, N)
    PROVE  Carried(c, t)
<1>1. BodiesCarried(c, t)
  BY CutsCarryBodies
<1>2. \A q \in DOMAIN t : DocSentinel(t[q]) => \E i \in DOMAIN c : c[i] = t[q]
  BY SentinelFrom
<1>3. OwnPaired(c) => OwnPaired(t)
  BY PairedAfter
<1>4. EchoesApart(c) => EchoesApart(t)
  BY EchoesAfter
<1>5. DocumentsApart(c) => DocumentsApart(t)
  BY ApartAfter
<1> QED BY <1>1, <1>2, <1>3, <1>4, <1>5 DEF Carried

(* One after the other. *)
LEMMA CarriedOn ==
    ASSUME NEW c, NEW t, NEW u, Carried(c, t), Carried(t, u)
    PROVE  Carried(c, u)
<1>1. BodiesCarried(c, u)
  BY BodiesCarriedOn DEF Carried
<1>2. \A q \in DOMAIN u : DocSentinel(u[q]) => \E i \in DOMAIN c : c[i] = u[q]
  BY DEF Carried
<1> QED BY <1>1, <1>2 DEF Carried

(* Of two wraps one is behind the other or in it.                          *)
WrapsNested(c) ==
    \A a, b, x, y : Wrap(c, a, b) /\ Wrap(c, x, y) =>
       b < x \/ y < a \/ (a <= x /\ y <= b) \/ (x <= a /\ b <= y)

(* That stays so. *)
LEMMA NestedAfter ==
    ASSUME NEW S, NEW c, c \in Seq(S), NEW R, NEW t, t \in Seq(R), NEW N, NEW src,
           Cuts(c, N, t, src), Respects(c, N), WrapsNested(c)
    PROVE  WrapsNested(t)
<1> SUFFICES ASSUME NEW a, NEW b, Wrap(t, a, b), NEW x, NEW y, Wrap(t, x, y)
             PROVE  b < x \/ y < a \/ (a <= x /\ y <= b) \/ (x <= a /\ b <= y)
  BY DEF WrapsNested
<1>1. /\ a \in DOMAIN t /\ b \in DOMAIN t /\ Wrap(c, src[a], src[b])
      /\ ~Hits(N, src[a]) /\ ~Hits(N, src[b])
  BY WrapFrom
<1>2. /\ x \in DOMAIN t /\ y \in DOMAIN t /\ Wrap(c, src[x], src[y])
      /\ ~Hits(N, src[x]) /\ ~Hits(N, src[y])
  BY WrapFrom
<1>3. ASSUME NEW p \in DOMAIN t, NEW q \in DOMAIN t, ~Hits(N, src[p])
      PROVE  /\ p \in Nat /\ q \in Nat
             /\ src[p] < src[q] => p < q
             /\ src[p] <= src[q] => p <= q
             /\ src[q] <= src[p] => q <= p
  <2>1. /\ p \in Nat /\ q \in Nat /\ src[p] \in Nat /\ src[q] \in Nat
        /\ src[p] < src[q] => p < q
        /\ p < q => src[p] < src[q]
    BY <1>3, CutOrder
  <2>2. q < p => src[q] < src[p]
    BY <1>3, CutOrder
  <2> QED BY <2>1, <2>2
<1>4. \/ src[b] < src[x] \/ src[y] < src[a]
      \/ (src[a] <= src[x] /\ src[y] <= src[b]) \/ (src[x] <= src[a] /\ src[b] <= src[y])
  BY <1>1, <1>2 DEF WrapsNested
<1> QED BY <1>1, <1>2, <1>3, <1>4

-----------------------------------------------------------------------------
(* Proprietary lines under the cuts of the other rules.                    *)

\* A proprietary line starts here.
Marker(c, m) == m \in DOMAIN c /\ Kind(c[m]) = "marker"

(* No line ends between x and y. *)
OneLine(c, x, y) == \A k \in DOMAIN c : x < k /\ k < y => c[k] # Newline

\* A proprietary line that reaches x reaches y.
LineHolds(c, x, y) == \A m : Marker(c, m) /\ m < x /\ OneLine(c, m, x) => OneLine(c, x, y)

\* One that starts between a and b ends there.
LineEndsIn(c, a, b) == \A m : Marker(c, m) /\ a < m /\ m < b => ~OneLine(c, m, b)

(* A proprietary line holds a wrap whole, lies in one, or apart from it.   *)
LinesClear(c) == \A a, b : Wrap(c, a, b) => LineHolds(c, a, b) /\ LineEndsIn(c, a, b)

\* The newline at k, where the proprietary line of m ends, is kept.
LineStays(c, N, t, src, m, k) ==
    Marker(c, m) /\ ~Hits(N, m) /\ k \in DOMAIN c /\ m < k /\ c[k] = Newline /\ OneLine(c, m, k) =>
       \E q \in DOMAIN t : t[q] = Newline /\ src[q] = k

\* No proprietary line that stays loses the newline it ends at.
NewlinesStay(c, N, t, src) == \A m, k : LineStays(c, N, t, src, m, k)

\* A newline between symbols kept was between them before.
NewlinesFrom(c, N, t, src) ==
    \A p, q, e \in DOMAIN t :
       p < q /\ q < e /\ t[q] = Newline /\ ~Hits(N, src[p]) /\ ~Hits(N, src[e]) =>
          src[p] < src[q] /\ src[q] < src[e] /\ c[src[q]] = Newline

(* Where a line that ends before y ends. *)
LEMMA FirstNewline ==
    ASSUME NEW S, NEW c, c \in Seq(S), NEW m \in DOMAIN c, NEW y \in Nat, ~OneLine(c, m, y)
    PROVE  \E k \in DOMAIN c : m < k /\ k < y /\ c[k] = Newline /\ OneLine(c, m, k)
<1> DEFINE e == Ahead(c, m, Newline)
<1>1. PICK l \in DOMAIN c : m < l /\ l < y /\ c[l] = Newline
  BY DEF OneLine
<1>2. \/ /\ e = NoMatch /\ \A j \in DOMAIN c : m < j => c[j] # Newline
      \/ /\ e \in DOMAIN c /\ m < e /\ c[e] = Newline /\ e # NoMatch
         /\ \A j \in DOMAIN c : m < j /\ j < e => c[j] # Newline
  BY FirstBehind
<1> HIDE DEF e
<1>3. e \in DOMAIN c /\ m < e /\ c[e] = Newline /\ OneLine(c, m, e) /\ ~(l < e)
  BY <1>1, <1>2 DEF OneLine
<1>4. e \in Nat /\ l \in Nat
  BY <1>1, <1>3, TextPositions
<1> QED BY <1>1, <1>3, <1>4

(* A proprietary line reaches as far as before, and no line ends that did  *)
(* not.                                                                    *)
LEMMA LinesKept ==
    ASSUME NEW S, NEW c, c \in Seq(S), NEW R, NEW t, t \in Seq(R), NEW N, NEW src,
           Cuts(c, N, t, src), NewlinesStay(c, N, t, src), NewlinesFrom(c, N, t, src),
           NEW p \in DOMAIN t, NEW e \in DOMAIN t, ~Hits(N, src[p]), ~Hits(N, src[e])
    PROVE  /\ OneLine(c, src[p], src[e]) => OneLine(t, p, e)
           /\ Marker(c, src[p]) /\ OneLine(t, p, e) => OneLine(c, src[p], src[e])
<1>1. ASSUME OneLine(c, src[p], src[e]) PROVE OneLine(t, p, e)
  <2> SUFFICES ASSUME NEW k \in DOMAIN t, p < k, k < e, t[k] = Newline PROVE FALSE
    BY DEF OneLine
  <2>1. src[p] < src[k] /\ src[k] < src[e] /\ c[src[k]] = Newline
    BY DEF NewlinesFrom
  <2>2. src[k] \in DOMAIN c
    BY CutOrder
  <2> QED BY <1>1, <2>1, <2>2 DEF OneLine
<1>2. ASSUME Marker(c, src[p]), OneLine(t, p, e), ~OneLine(c, src[p], src[e]) PROVE FALSE
  <2>1. src[p] \in DOMAIN c /\ src[e] \in Nat
    BY CutOrder
  <2>2. PICK m \in DOMAIN c : m = src[p]
    BY <2>1
  <2>3. PICK k \in DOMAIN c : m < k /\ k < src[e] /\ c[k] = Newline /\ OneLine(c, m, k)
    BY <1>2, <2>1, <2>2, FirstNewline
  <2>4. LineStays(c, N, t, src, m, k)
    BY DEF NewlinesStay
  <2>5. PICK q \in DOMAIN t : t[q] = Newline /\ src[q] = k
    BY <1>2, <2>2, <2>3, <2>4 DEF LineStays
  <2>6. p < q /\ q < e
    BY <2>2, <2>3, <2>5, CutOrder
  <2> QED BY <1>2, <2>5, <2>6 DEF OneLine
<1> QED BY <1>1, <1>2

(* The marker of a line is left where the line is. *)
LEMMA MarkerFrom ==
    ASSUME NEW S, NEW c, c \in Seq(S), NEW R, NEW t, t \in Seq(R), NEW N, NEW src,
           Cuts(c, N, t, src), NEW m, Marker(t, m)
    PROVE  m \in DOMAIN t /\ ~Hits(N, src[m]) /\ Marker(c, src[m])
<1>1. m \in DOMAIN t /\ Kind(t[m]) \notin Fillers
  BY DEF Marker, Fillers
<1>2. ~Hits(N, src[m]) /\ t[m] = c[src[m]] /\ src[m] \in DOMAIN c
  BY <1>1, CutOrder
<1> QED BY <1>1, <1>2 DEF Marker

(* What holds of the lines of a stretch holds of what is left of it. *)
LEMMA HoldsAfter ==
    ASSUME NEW S, NEW c, c \in Seq(S), NEW R, NEW t, t \in Seq(R), NEW N, NEW src,
           Cuts(c, N, t, src), NewlinesStay(c, N, t, src), NewlinesFrom(c, N, t, src),
           NEW x \in DOMAIN t, NEW y \in DOMAIN t, ~Hits(N, src[x]), ~Hits(N, src[y])
    PROVE  /\ LineHolds(c, src[x], src[y]) => LineHolds(t, x, y)
           /\ LineEndsIn(c, src[x], src[y]) => LineEndsIn(t, x, y)
<1>1. ASSUME LineHolds(c, src[x], src[y]), NEW m, Marker(t, m), m < x, OneLine(t, m, x)
      PROVE  OneLine(t, x, y)
  <2>1. m \in DOMAIN t /\ ~Hits(N, src[m]) /\ Marker(c, src[m])
    BY <1>1, MarkerFrom
  <2>2. OneLine(c, src[m], src[x])
    BY <1>1, <2>1, LinesKept
  <2>3. src[m] < src[x]
    BY <1>1, <2>1, CutOrder
  <2>4. OneLine(c, src[x], src[y])
    BY <1>1, <2>1, <2>2, <2>3 DEF LineHolds
  <2> QED BY <2>4, LinesKept
<1>2. ASSUME LineEndsIn(c, src[x], src[y]), NEW m, Marker(t, m), x < m, m < y, OneLine(t, m, y)
      PROVE  FALSE
  <2>1. m \in DOMAIN t /\ ~Hits(N, src[m]) /\ Marker(c, src[m])
    BY <1>2, MarkerFrom
  <2>2. OneLine(c, src[m], src[y])
    BY <1>2, <2>1, LinesKept
  <2>3. src[x] < src[m] /\ src[m] < src[y]
    BY <1>2, <2>1, CutOrder
  <2> QED BY <1>2, <2>1, <2>2, <2>3 DEF LineEndsIn
<1> QED BY <1>1, <1>2 DEF LineHolds, LineEndsIn

(* What the stages after the resolution keep. *)
Settled(c) == WrapsNested(c) /\ LinesClear(c)

(* A cut that respects the wraps and keeps the newlines leaves a text      *)
(* settled, with all that stood in a wrap in it.                           *)
LEMMA SettledAfter ==
    ASSUME NEW S, NEW c, c \in Seq(S), NEW R, NEW t, t \in Seq(R), NEW N, NEW src,
           Cuts(c, N, t, src), Respects(c, N), NewlinesStay(c, N, t, src),
           NewlinesFrom(c, N, t, src), Settled(c)
    PROVE  Settled(t) /\ Carried(c, t)
<1>1. WrapsNested(t)
  BY NestedAfter DEF Settled
<1>2. Carried(c, t)
  BY CutsCarry
<1>3. ASSUME NEW a, NEW b, Wrap(t, a, b) PROVE LineHolds(t, a, b) /\ LineEndsIn(t, a, b)
  <2>1. /\ a \in DOMAIN t /\ b \in DOMAIN t /\ Wrap(c, src[a], src[b])
        /\ ~Hits(N, src[a]) /\ ~Hits(N, src[b])
    BY <1>3, WrapFrom
  <2>2. LineHolds(c, src[a], src[b]) /\ LineEndsIn(c, src[a], src[b])
    BY <2>1 DEF Settled, LinesClear
  <2> QED BY <2>1, <2>2, HoldsAfter
<1> QED BY <1>1, <1>2, <1>3 DEF Settled, LinesClear

-----------------------------------------------------------------------------
(* The two strips.                                                         *)

\* A wrap of a family and token.
WrapOf(c, family, token, a, b) == Wrap(c, a, b) /\ c[a][2][1] = family /\ c[a][2][2] = token

(* N is what a strip cuts: wraps of its family and token, behind each      *)
(* other, and the sentinels of all others lie in those.                    *)
Stripping(c, family, token, N) ==
    /\ \A n \in N : WrapOf(c, family, token, n.from, n.to)
    /\ \A a, b : WrapOf(c, family, token, a, b) => Hits(N, a)
    /\ \A n, o \in N : n.from < o.from => n.to < o.from

(* t is c with those named only. *)
NamesOnly(N, t, src) == \A q \in DOMAIN t : Hits(N, src[q]) => Kind(t[q]) = "named"

(* Stripping cuts the wraps of the token and leaves their names.           *)
LEMMA StripCuts ==
    ASSUME NEW S, NEW c, c \in Seq(S), NEW family \in Families, NEW token
    PROVE  LET t == StripWraps(c, family, token)
           IN  /\ \E R : t \in Seq(R)
               /\ \E N, src : /\ Stripping(c, family, token, N)
                              /\ Cuts(c, N, t, src) /\ NamesOnly(N, t, src)
<1> DEFINE end == [i \in DOMAIN c |-> WrapEnd(family, token, c, i)]
           by == Names(c, family)
           t == StripWraps(c, family, token)
           M == Matches(c, end)
           V == S \cup {Named(family, c[i][2][3]) : i \in DOMAIN c}
           N == {Stretch(m, end[m], FALSE) : m \in M}
<1>1. /\ Len(c) \in Nat /\ DOMAIN c = 1 .. Len(c) /\ \A i \in DOMAIN c : i \in Nat
  BY TextPositions
<1>2. ASSUME NEW i \in DOMAIN c
      PROVE  /\ end[i] # NoMatch =>
                   WrapOf(c, family, token, i, end[i]) /\ end[i] \in DOMAIN c /\ i < end[i]
             /\ \A b : WrapOf(c, family, token, i, b) => end[i] = b /\ b # NoMatch
  <2>1. end[i] = WrapEnd(family, token, c, i)
    OBVIOUS
  <2> HIDE DEF end
  <2>2. end[i] # NoMatch => WrapOf(c, family, token, i, end[i])
    BY <2>1, WrapEndIs DEF WrapOf
  <2>3. \A b : WrapOf(c, family, token, i, b) => end[i] = b /\ b # NoMatch
    BY <2>1, WrapEndIs DEF WrapOf
  <2> QED BY <2>2, <2>3 DEF WrapOf, Wrap
<1>3. Ends(c, end)
  <2> HIDE DEF end
  <2>1. ASSUME NEW i \in DOMAIN c, end[i] # NoMatch PROVE end[i] \in Nat /\ i <= end[i]
    BY <1>1, <1>2, <2>1
  <2> QED BY <2>1 DEF Ends
<1>4. ScannedTo(end, Len(c), M)
  BY <1>3, MatchesAre
<1>5. t = Sub(c, end, by)
  BY DEF StripWraps
<1>6. by \in [DOMAIN c -> Seq(V)] /\ c \in Seq(V)
      /\ \A i \in DOMAIN c : IsSentinel(c[i], "open", family) =>
            by[i] = <<Named(family, c[i][2][3])>>
  <2>1. \A i \in DOMAIN c : c[i] \in V /\ Named(family, c[i][2][3]) \in V
    OBVIOUS
  <2> HIDE DEF V
  <2>2. \A i \in DOMAIN c : <<Named(family, c[i][2][3])>> \in Seq(V) /\ <<>> \in Seq(V)
    BY <2>1
  <2>3. c \in Seq(V)
    BY <2>1
  <2> QED BY <2>2, <2>3 DEF Names
<1> HIDE DEF end, by, V, M
<1>7. ASSUME NEW m \in M PROVE m \in DOMAIN c /\ end[m] # NoMatch
  BY <1>1, <1>4, <1>7 DEF ScannedTo
<1>8. M \in SUBSET DOMAIN c
  BY <1>7
<1>9. t \in Seq(V) /\ \E src, off : Substituted(c, end, M, by, t, src, off)
  BY <1>5, <1>6, <1>8, SubFrom DEF M
<1>10. PICK src, off : Substituted(c, end, M, by, t, src, off)
  BY <1>9
<1> HIDE DEF t
<1>11. \A k : InMatch(end, M, k) <=> Hits(N, k)
  <2>1. \A m : Stretch(m, end[m], FALSE).from = m /\ Stretch(m, end[m], FALSE).to = end[m]
    BY DEF Stretch
  <2> QED BY <2>1 DEF InMatch, Hits
<1>12. \A n \in N : \E m \in M : n.from = m /\ n.to = end[m]
  BY DEF Stretch
<1> HIDE DEF N
<1>13. Stripping(c, family, token, N)
  <2>1. ASSUME NEW n \in N PROVE WrapOf(c, family, token, n.from, n.to)
    BY <1>2, <1>7, <1>12
  <2>2. ASSUME NEW a, NEW b, WrapOf(c, family, token, a, b) PROVE Hits(N, a)
    <3>1. a \in DOMAIN c
      BY <2>2 DEF WrapOf, Wrap
    <3>2. end[a] # NoMatch
      BY <1>2, <2>2, <3>1
    <3>3. InMatch(end, M, a)
      BY <1>1, <1>4, <3>1, <3>2 DEF ScannedTo
    <3> QED BY <1>11, <3>3
  <2>3. ASSUME NEW n \in N, NEW o \in N, n.from < o.from PROVE n.to < o.from
    BY <1>4, <1>12, <2>3 DEF ScannedTo
  <2> QED BY <2>1, <2>2, <2>3 DEF Stripping
<1>14. ASSUME NEW q \in DOMAIN t
       PROVE  /\ src[q] \in DOMAIN c
              /\ Hits(N, src[q]) => src[q] \in M /\ off[q] = 1 /\ Kind(t[q]) = "named"
              /\ ~Hits(N, src[q]) => off[q] = 1 /\ t[q] = c[src[q]]
  <2>1. /\ src[q] \in DOMAIN c
        /\ src[q] \in M => off[q] \in DOMAIN by[src[q]] /\ t[q] = by[src[q]][off[q]]
        /\ src[q] \notin M => ~InMatch(end, M, src[q]) /\ off[q] = 1 /\ t[q] = c[src[q]]
    BY <1>10 DEF Substituted
  <2>2. CASE src[q] \in M
    <3>1. PICK m \in DOMAIN c : m = src[q]
      BY <2>1
    <3>2. WrapOf(c, family, token, m, end[m]) /\ m < end[m] /\ end[m] \in Nat /\ m \in Nat
      BY <1>1, <1>2, <1>7, <2>2, <3>1
    <3>3. by[m] = <<Named(family, c[m][2][3])>>
      BY <1>6, <3>2 DEF WrapOf, Wrap, IsSentinel
    <3>4. off[q] = 1 /\ t[q] = Named(family, c[m][2][3])
      <4> DEFINE x == Named(family, c[m][2][3])
      <4>1. DOMAIN <<x>> = {1} /\ <<x>>[1] = x
        OBVIOUS
      <4> HIDE DEF x
      <4> QED BY <2>1, <2>2, <3>1, <3>3, <4>1 DEF x
    <3>5. Hits(N, src[q])
      BY <1>11, <2>2, <3>1, <3>2 DEF InMatch
    <3> QED BY <2>1, <2>2, <3>4, <3>5 DEF Named, Kind
  <2>3. CASE src[q] \notin M
    BY <1>11, <2>1, <2>3
  <2> QED BY <2>2, <2>3
<1>15. \A q, r \in DOMAIN t : q < r =>
          src[q] < src[r] \/ (src[q] = src[r] /\ off[q] < off[r])
  BY <1>10 DEF Substituted
<1>16. \A q, r \in DOMAIN t : q < r => src[q] < src[r]
  <2> SUFFICES ASSUME NEW q \in DOMAIN t, NEW r \in DOMAIN t, q < r PROVE src[q] < src[r]
    OBVIOUS
  <2>1. off[q] = 1 /\ off[r] = 1
    BY <1>14
  <2> QED BY <1>15, <2>1
<1>17. Cuts(c, N, t, src)
  <2>1. src \in [DOMAIN t -> DOMAIN c]
    BY <1>10 DEF Substituted
  <2>2. \A q, r \in DOMAIN t : q < r => src[q] <= src[r]
    BY <1>1, <1>14, <1>16
  <2>3. \A q, r \in DOMAIN t : src[q] = src[r] => q = r
    <3> SUFFICES ASSUME NEW q \in DOMAIN t, NEW r \in DOMAIN t, src[q] = src[r] PROVE q = r
      OBVIOUS
    <3>1. src[q] \in Nat /\ q \in Nat /\ r \in Nat
      BY <1>1, <1>9, <1>14, TextPositions
    <3>2. ~(q < r) /\ ~(r < q)
      BY <1>16, <3>1
    <3> QED BY <3>1, <3>2
  <2>4. \A q \in DOMAIN t : IF Hits(N, src[q]) THEN Kind(t[q]) \in Fillers
                                               ELSE t[q] = c[src[q]]
    BY <1>14 DEF Fillers
  <2>5. ASSUME NEW i \in DOMAIN c, ~Hits(N, i) PROVE \E q \in DOMAIN t : src[q] = i
    <3>1. ~InMatch(end, M, i)
      BY <1>11, <2>5
    <3>2. i \notin M
      <4>1. i \in M => i <= i /\ i <= end[i]
        BY <1>1, <1>2, <1>7
      <4> QED BY <3>1, <4>1 DEF InMatch
    <3> QED BY <1>10, <3>1, <3>2 DEF Substituted
  <2>6. \A n \in N : n.from \in Nat /\ n.to \in Nat
    BY <1>1, <1>2, <1>7, <1>12
  <2> QED BY <2>1, <2>2, <2>3, <2>4, <2>5, <2>6 DEF Cuts
<1>18. NamesOnly(N, t, src)
  BY <1>14 DEF NamesOnly
<1> QED BY <1>9, <1>13, <1>17, <1>18 DEF t

(* A wrap has one end. *)
LEMMA OneWrapEnd ==
    ASSUME NEW S, NEW c, c \in Seq(S), NEW a, NEW b, Wrap(c, a, b), NEW e, Wrap(c, a, e)
    PROVE  b = e
<1>1. b \in Nat /\ e \in Nat
  BY TextPositions DEF Wrap
<1>2. ~(b < e) /\ ~(e < b)
  BY DEF Wrap
<1> QED BY <1>1, <1>2

(* A strip does not cut into other wraps. *)
LEMMA StripRespects ==
    ASSUME NEW S, NEW c, c \in Seq(S), WrapsNested(c), NEW family \in Families, NEW token,
           NEW N, Stripping(c, family, token, N)
    PROVE  Respects(c, N)
<1> SUFFICES ASSUME NEW n \in N, NEW a, NEW b, Wrap(c, a, b) PROVE Clear(n, a, b)
  BY DEF Respects
<1> DEFINE x == n.from
           y == n.to
<1>1. WrapOf(c, family, token, x, y)
  BY DEF Stripping
<1>2. /\ x \in DOMAIN c /\ y \in DOMAIN c /\ x \in Nat /\ y \in Nat /\ x < y
      /\ a \in DOMAIN c /\ b \in DOMAIN c /\ a \in Nat /\ b \in Nat /\ a < b
  BY <1>1, TextPositions DEF WrapOf, Wrap
<1>3. b < x \/ y < a \/ (a <= x /\ y <= b) \/ (x <= a /\ b <= y)
  BY <1>1 DEF WrapOf, WrapsNested
<1>4. CASE a = x
  <2>1. b = y
    BY <1>1, <1>4, OneWrapEnd DEF WrapOf
  <2> QED BY <1>2, <1>4, <2>1 DEF Clear
<1>5. CASE a < x /\ y = b
  <2>1. c[b] = CloseOf(c[a]) /\ c[b] = CloseOf(c[x])
    BY <1>1, <1>5 DEF WrapOf, Wrap
  <2>2. c[a][2][1] = c[x][2][1] /\ c[a][2][2] = c[x][2][2]
    BY <2>1 DEF CloseOf, Close
  <2>3. WrapOf(c, family, token, a, b)
    BY <1>1, <2>2 DEF WrapOf
  <2>4. PICK o \in N : o.from <= a /\ a <= o.to
    BY <2>3 DEF Stripping, Hits
  <2>5. WrapOf(c, family, token, o.from, o.to) /\ o.from \in Nat /\ o.to \in Nat
    <3>1. WrapOf(c, family, token, o.from, o.to)
      BY DEF Stripping
    <3> QED BY <3>1, TextPositions DEF WrapOf, Wrap
  <2>6. o.to < x
    <3>1. o.from < n.from
      BY <1>2, <1>5, <2>4, <2>5
    <3> QED BY <3>1 DEF Stripping
  <2>7. o.to < a \/ b < o.from \/ (a <= o.from /\ o.to <= b) \/ (o.from <= a /\ b <= o.to)
    BY <2>5 DEF WrapOf, WrapsNested
  <2>8. o.from = a
    BY <1>2, <1>5, <2>4, <2>5, <2>6, <2>7
  <2>9. o.to = b
    BY <2>5, <2>8, OneWrapEnd DEF WrapOf
  <2> QED BY <1>2, <1>5, <2>6, <2>9
<1>6. CASE a < x /\ y < b
  BY <1>6 DEF Clear
<1>7. CASE b < x \/ y < a \/ (x <= a /\ b <= y)
  BY <1>7 DEF Clear
<1> QED BY <1>2, <1>3, <1>4, <1>5, <1>6, <1>7

(* And puts in no newline and takes none a proprietary line ends at.       *)
LEMMA StripLines ==
    ASSUME NEW S, NEW c, c \in Seq(S), LinesClear(c), NEW R, NEW t, t \in Seq(R),
           NEW family, NEW token, NEW N, NEW src,
           Stripping(c, family, token, N), Cuts(c, N, t, src), NamesOnly(N, t, src)
    PROVE  NewlinesStay(c, N, t, src) /\ NewlinesFrom(c, N, t, src)
<1>1. Kind(Newline) # "named"
  BY DEF Kind, Newline
<1>2. ASSUME NEW p \in DOMAIN t, NEW q \in DOMAIN t, NEW e \in DOMAIN t, p < q, q < e,
             t[q] = Newline
      PROVE  src[p] < src[q] /\ src[q] < src[e] /\ c[src[q]] = Newline
  <2>1. ~Hits(N, src[q])
    BY <1>1, <1>2 DEF NamesOnly
  <2> QED BY <1>2, <2>1, CutOrder
<1>3. ASSUME NEW m, NEW k, Marker(c, m), ~Hits(N, m), k \in DOMAIN c, m < k, c[k] = Newline,
             OneLine(c, m, k), Hits(N, k)
      PROVE  FALSE
  <2>1. PICK n \in N : n.from <= k /\ k <= n.to
    BY <1>3 DEF Hits
  <2>2. Wrap(c, n.from, n.to)
    BY DEF Stripping, WrapOf
  <2>3. n.from \in Nat /\ n.to \in Nat /\ k \in Nat /\ m \in Nat
    BY <1>3, <2>2, TextPositions DEF Wrap, Marker
  <2>4. n.from # k /\ n.to # k
    BY <1>3, <2>2, SentinelKinds
  <2>5. n.from < k /\ k < n.to
    BY <2>1, <2>3, <2>4
  <2>6. m < n.from
    <3>1. ~(n.from <= m /\ m <= n.to)
      BY <1>3 DEF Hits
    <3> QED BY <1>3, <2>3, <2>5, <3>1
  <2>7. OneLine(c, m, n.from)
    BY <1>3, <2>3, <2>5, TextPositions DEF OneLine
  <2>8. OneLine(c, n.from, n.to)
    BY <1>3, <2>2, <2>6, <2>7 DEF LinesClear, LineHolds
  <2> QED BY <1>3, <2>5, <2>8 DEF OneLine
<1>4. ASSUME NEW m, NEW k PROVE LineStays(c, N, t, src, m, k)
  <2> SUFFICES ASSUME Marker(c, m), ~Hits(N, m), k \in DOMAIN c, m < k, c[k] = Newline,
                      OneLine(c, m, k)
               PROVE  \E q \in DOMAIN t : t[q] = Newline /\ src[q] = k
    BY DEF LineStays
  <2>1. ~Hits(N, k)
    BY <1>3
  <2>2. PICK q \in DOMAIN t : src[q] = k
    BY <2>1 DEF Cuts
  <2>3. t[q] = Newline
    BY <2>1, <2>2, CutOrder
  <2> QED BY <2>2, <2>3
<1> QED BY <1>2, <1>4 DEF NewlinesStay, NewlinesFrom

(* After a strip the wraps of its family and token are gone, whatever they *)
(* stand in or hold, and the others are as they were.                      *)
LEMMA StripSettles ==
    ASSUME NEW S, NEW c, c \in Seq(S), NEW family \in Families, NEW token, WrapsNested(c)
    PROVE  LET t == StripWraps(c, family, token)
           IN  /\ \E R : t \in Seq(R)
               /\ Carried(c, t)
               /\ Settled(c) => Settled(t)
               /\ \A a, b : ~WrapOf(t, family, token, a, b)
<1> DEFINE t == StripWraps(c, family, token)
<1>1. PICK R : t \in Seq(R)
  BY StripCuts
<1>2. PICK N, src : Stripping(c, family, token, N) /\ Cuts(c, N, t, src) /\ NamesOnly(N, t, src)
  BY StripCuts
<1> HIDE DEF t
<1>3. Respects(c, N)
  BY <1>2, StripRespects
<1>4. Carried(c, t)
  BY <1>1, <1>2, <1>3, CutsCarry
<1>5. ASSUME Settled(c) PROVE Settled(t)
  <2>1. NewlinesStay(c, N, t, src) /\ NewlinesFrom(c, N, t, src)
    BY <1>1, <1>2, <1>5, StripLines DEF Settled
  <2> QED BY <1>1, <1>2, <1>3, <1>5, <2>1, SettledAfter
<1>6. ASSUME NEW a, NEW b, WrapOf(t, family, token, a, b) PROVE FALSE
  <2>1. Wrap(t, a, b)
    BY <1>6 DEF WrapOf
  <2>2. Wrap(c, src[a], src[b]) /\ t[a] = c[src[a]] /\ ~Hits(N, src[a])
    BY <1>1, <1>2, <1>3, <2>1, WrapFrom
  <2>3. WrapOf(c, family, token, src[a], src[b])
    BY <1>6, <2>2 DEF WrapOf
  <2> QED BY <1>2, <2>2, <2>3 DEF Stripping
<1> QED BY <1>1, <1>4, <1>5, <1>6 DEF t

(* What a strip leaves of the payloads stood in none of its wraps.         *)
LEMMA LeftByStrip ==
    ASSUME NEW S, NEW c, c \in Seq(S), NEW family \in Families, NEW token, WrapsNested(c),
           NEW q \in DOMAIN StripWraps(c, family, token),
           Kind(StripWraps(c, family, token)[q]) = "payload"
    PROVE  \E j \in DOMAIN c :
              /\ c[j] = StripWraps(c, family, token)[q]
              /\ \A a, b : WrapOf(c, family, token, a, b) => ~(a < j /\ j < b)
<1> DEFINE t == StripWraps(c, family, token)
<1>1. PICK R : t \in Seq(R)
  BY StripCuts
<1>2. PICK N, src : Stripping(c, family, token, N) /\ Cuts(c, N, t, src) /\ NamesOnly(N, t, src)
  BY StripCuts
<1>3. Respects(c, N)
  BY <1>2, StripRespects
<1>4. q \in DOMAIN t /\ Kind(t[q]) = "payload"
  OBVIOUS
<1> HIDE DEF t
<1>5. ~Hits(N, src[q]) /\ src[q] \in DOMAIN c /\ src[q] \in Nat /\ t[q] = c[src[q]]
  <2>1. Kind(t[q]) \notin Fillers
    BY <1>4 DEF Fillers
  <2> QED BY <1>1, <1>2, <1>4, <2>1, CutOrder
<1>6. ASSUME NEW a, NEW b, WrapOf(c, family, token, a, b), a < src[q], src[q] < b PROVE FALSE
  <2>1. Wrap(c, a, b) /\ a \in Nat /\ b \in Nat
    BY <1>6, TextPositions DEF WrapOf, Wrap
  <2>2. a <= src[q] /\ src[q] <= b
    BY <1>5, <1>6, <2>1
  <2>3. \A n \in N : n.from \in Nat /\ n.to \in Nat
    BY <1>2 DEF Cuts
  <2>4. ~Hits(N, a)
    BY <1>3, <1>5, <2>1, <2>2, <2>3, SentinelsKept
  <2> QED BY <1>2, <1>6, <2>4 DEF Stripping
<1> QED BY <1>5, <1>6 DEF t

-----------------------------------------------------------------------------
(* The redaction of a system message.                                      *)

(* Passages hold wraps whole, lie in them, or apart; and a proprietary     *)
(* line that runs into a block holds it.                                   *)
PassagesClear(c, tags) ==
    \A u \in tags : \A s \in PassageStretches(c, u) :
       /\ \A a, b : Wrap(c, a, b) => Clear(s, a, b)
       /\ ~s.line => LineHolds(c, s.from, s.to)

(* What the passes of a redaction keep: passages that cross neither each   *)
(* other nor wraps nor proprietary lines.                                  *)
TagsSettled(c, tags) ==
    Uncrossed(Passages(c, tags)) /\ Settled(c) /\ PassagesClear(c, tags)

(* A pass cuts no more than its stretches. *)
LEMMA RewrittenCuts ==
    ASSUME NEW S, NEW c, c \in Seq(S), NEW tags, NEW tag, NEW line, NEW N, NEW t, NEW src,
           Cutting(c, tags, tag, line, N), Rewritten(c, N, t, src)
    PROVE  Cuts(c, N, t, src)
<1>1. \A n \in N : n.from \in Nat /\ n.to \in Nat
  BY TextPositions DEF Cutting
<1>2. ASSUME NEW q \in DOMAIN t, Hits(N, src[q]) PROVE Kind(t[q]) \in Fillers
  <2>1. t[q] = Redacted \/ t[q] = Newline
    BY <1>2 DEF Rewritten
  <2>2. Kind(Redacted) \in Fillers /\ Kind(Newline) \in Fillers
    BY DEF Kind, Redacted, Newline, Fillers
  <2> QED BY <2>1, <2>2
<1> QED BY <1>1, <1>2 DEF Cuts, Rewritten

(* The newline a proprietary line ends at is kept, or put in again.        *)
LEMMA PassLines ==
    ASSUME NEW S, NEW c, c \in Seq(S), NEW R, NEW t, t \in Seq(R), NEW tags, NEW tag, NEW line,
           NEW N, NEW src, Pass(c, tags, tag, line, N, t, src), PassagesClear(c, tags),
           Cuts(c, N, t, src)
    PROVE  NewlinesStay(c, N, t, src) /\ NewlinesFrom(c, N, t, src)
<1>1. ASSUME NEW p \in DOMAIN t, NEW q \in DOMAIN t, NEW e \in DOMAIN t, p < q, q < e,
             t[q] = Newline, ~Hits(N, src[p])
      PROVE  src[p] < src[q] /\ src[q] < src[e] /\ c[src[q]] = Newline
  <2>1. CASE Hits(N, src[q])
    BY <1>1, <2>1, InsertedNewline
  <2>2. CASE ~Hits(N, src[q])
    BY <1>1, <2>2, CutOrder
  <2> QED BY <2>1, <2>2
<1>2. ASSUME NEW m, NEW k, Marker(c, m), ~Hits(N, m), k \in DOMAIN c, m < k, c[k] = Newline,
             OneLine(c, m, k), Hits(N, k)
      PROVE  \E q \in DOMAIN t : t[q] = Newline /\ src[q] = k
  <2>1. PICK n \in N : n.from <= k /\ k <= n.to
    BY <1>2 DEF Hits
  <2>2. n \in PassageStretches(c, tag) /\ tag \in tags
    BY DEF Pass, Cutting
  <2>3. n.from \in Nat /\ n.to \in Nat /\ k \in Nat /\ m \in Nat /\ n.to \in DOMAIN c
    BY <1>2, <2>2, TextPositions DEF Marker
  <2>4. IsPassage(c, tag, n)
    BY <2>2, PassageIs
  <2>5. n.from < k
    <3>1. c[n.from] = Opening(tag)
      BY <2>4 DEF IsPassage
    <3>2. n.from # k
      BY <1>2, <3>1 DEF Opening, Newline
    <3> QED BY <2>1, <2>3, <3>2
  <2>6. CASE n.line
    <3>1. EndsLine(c, n.from, n.to)
      BY <2>4, <2>6 DEF IsPassage
    <3>2. ~(k < n.to)
      BY <1>2, <2>5, <3>1 DEF EndsLine
    <3>3. k = n.to
      BY <2>1, <2>3, <3>2
    <3> QED BY <2>6, <3>3 DEF Pass, Rewritten
  <2>7. CASE ~n.line
    <3>1. c[n.to] = Closing(tag)
      BY <2>4, <2>7 DEF IsPassage, EndsBlock
    <3>2. k < n.to
      <4>1. n.to # k
        BY <1>2, <3>1 DEF Closing, Newline
      <4> QED BY <2>1, <2>3, <4>1
    <3>3. m < n.from
      <4>1. ~(n.from <= m /\ m <= n.to)
        BY <1>2 DEF Hits
      <4> QED BY <1>2, <2>3, <3>2, <4>1
    <3>4. OneLine(c, m, n.from)
      BY <1>2, <2>3, <2>5, TextPositions DEF OneLine
    <3>5. OneLine(c, n.from, n.to)
      BY <1>2, <2>2, <2>7, <3>3, <3>4 DEF PassagesClear, LineHolds
    <3> QED BY <1>2, <2>5, <3>2, <3>5 DEF OneLine
  <2> QED BY <2>6, <2>7
<1>3. ASSUME NEW m, NEW k PROVE LineStays(c, N, t, src, m, k)
  <2> SUFFICES ASSUME Marker(c, m), ~Hits(N, m), k \in DOMAIN c, m < k, c[k] = Newline,
                      OneLine(c, m, k)
               PROVE  \E q \in DOMAIN t : t[q] = Newline /\ src[q] = k
    BY DEF LineStays
  <2>1. CASE Hits(N, k)
    BY <1>2, <2>1
  <2>2. CASE ~Hits(N, k)
    <3>1. PICK q \in DOMAIN t : src[q] = k
      BY <2>2 DEF Cuts
    <3>2. t[q] = Newline
      BY <2>2, <3>1, CutOrder
    <3> QED BY <3>1, <3>2
  <2> QED BY <2>1, <2>2
<1> QED BY <1>1, <1>3 DEF NewlinesStay, NewlinesFrom

(* What is left of a passage is clear of what is left of a wrap. *)
LEMMA ClearAfter ==
    ASSUME NEW S, NEW c, c \in Seq(S), NEW R, NEW t, t \in Seq(R), NEW N, NEW src,
           Rewritten(c, N, t, src), NEW u, NEW v, NEW s \in PassageStretches(c, u),
           NEW r \in PassageStretches(t, v), Image(c, N, t, src, s, r),
           NEW p \in DOMAIN t, NEW e \in DOMAIN t, ~Hits(N, src[p]), ~Hits(N, src[e]),
           Clear(s, src[p], src[e])
    PROVE  Clear(r, p, e)
<1>1. /\ r.from \in DOMAIN t /\ r.to \in DOMAIN t /\ r.from \in Nat /\ r.to \in Nat
      /\ r.from <= r.to /\ s.from \in Nat /\ s.to \in Nat /\ s.from <= s.to
      /\ p \in Nat /\ e \in Nat
  BY TextPositions
<1>2. src[p] \in Nat /\ src[e] \in Nat
  BY KeptOrder
<1>3. src[r.from] = s.from /\ ~Hits(N, src[r.from])
  BY DEF Image
<1>4. \A q \in DOMAIN t : ~Hits(N, src[q]) =>
          (r.from <= q /\ q <= r.to <=> s.from <= src[q] /\ src[q] <= s.to)
  BY DEF Image
<1>5. ASSUME NEW q \in DOMAIN t, ~Hits(N, src[q])
      PROVE  /\ q \in Nat /\ src[q] \in Nat
             /\ src[q] < s.from => q < r.from
             /\ s.from <= src[q] /\ src[q] <= s.to => r.from <= q /\ q <= r.to
             /\ s.to < src[q] => r.to < q
  <2>1. /\ q \in Nat /\ src[q] \in Nat
        /\ src[q] < src[r.from] => q < r.from
        /\ src[r.from] < src[q] => r.from < q
    BY <1>1, KeptOrder
  <2>2. s.to < src[q] => r.to < q
    <3> SUFFICES ASSUME s.to < src[q] PROVE r.to < q
      OBVIOUS
    <3>1. r.from < q
      BY <1>1, <1>3, <2>1
    <3>2. ~(r.from <= q /\ q <= r.to)
      BY <1>1, <1>4, <1>5, <2>1
    <3> QED BY <1>1, <2>1, <3>1, <3>2
  <2> QED BY <1>3, <1>4, <1>5, <2>1, <2>2
<1>6. CASE s.to < src[p]
  BY <1>5, <1>6 DEF Clear
<1>7. CASE src[e] < s.from
  BY <1>5, <1>7 DEF Clear
<1>8. CASE s.from <= src[p] /\ src[e] <= s.to
  <2>1. r.from <= p
    <3>1. src[p] <= s.to => r.from <= p
      BY <1>5, <1>8
    <3>2. s.to < src[p] => r.from <= p
      BY <1>1, <1>5
    <3> QED BY <1>1, <1>2, <3>1, <3>2
  <2>2. e <= r.to
    <3>1. s.from <= src[e] => e <= r.to
      BY <1>5, <1>8
    <3>2. src[e] < s.from => e <= r.to
      BY <1>1, <1>5
    <3> QED BY <1>1, <1>2, <3>1, <3>2
  <2> QED BY <2>1, <2>2 DEF Clear
<1>9. CASE src[p] < s.from /\ s.to < src[e]
  BY <1>5, <1>9 DEF Clear
<1> QED BY <1>6, <1>7, <1>8, <1>9 DEF Clear

(* A pass leaves a settled text settled. *)
LEMMA PassSettles ==
    ASSUME NEW S, NEW c, c \in Seq(S), NEW R, NEW t, t \in Seq(R), NEW tags, NEW tag, NEW line,
           NEW N, NEW src, Pass(c, tags, tag, line, N, t, src), TagsSettled(c, tags)
    PROVE  TagsSettled(t, tags) /\ Carried(c, t)
<1>1. Cuts(c, N, t, src)
  BY RewrittenCuts DEF Pass
<1>2. Respects(c, N)
  BY DEF Pass, Cutting, TagsSettled, PassagesClear, Respects
<1>3. NewlinesStay(c, N, t, src) /\ NewlinesFrom(c, N, t, src)
  BY <1>1, PassLines DEF TagsSettled
<1>4. Settled(t) /\ Carried(c, t)
  BY <1>1, <1>2, <1>3, SettledAfter DEF TagsSettled
<1>5. Uncrossed(Passages(t, tags))
  BY UncrossedAfter, Zenon
<1>6. ASSUME NEW u \in tags, NEW r \in PassageStretches(t, u)
      PROVE  /\ \A a, b : Wrap(t, a, b) => Clear(r, a, b)
             /\ ~r.line => LineHolds(t, r.from, r.to)
  <2>1. PICK s \in PassageStretches(c, u) : Image(c, N, t, src, s, r)
    BY PassageFrom
  <2>2. ASSUME NEW a, NEW b, Wrap(t, a, b) PROVE Clear(r, a, b)
    <3>1. /\ a \in DOMAIN t /\ b \in DOMAIN t /\ Wrap(c, src[a], src[b])
          /\ ~Hits(N, src[a]) /\ ~Hits(N, src[b])
      BY <1>1, <1>2, <2>2, WrapFrom
    <3>2. Clear(s, src[a], src[b])
      BY <3>1 DEF TagsSettled, PassagesClear
    <3> QED BY <2>1, <3>1, <3>2, ClearAfter DEF Pass
  <2>3. ASSUME ~r.line PROVE LineHolds(t, r.from, r.to)
    <3>1. /\ src[r.from] = s.from /\ ~Hits(N, src[r.from]) /\ ~s.line
          /\ src[r.to] = s.to /\ ~Hits(N, src[r.to])
      BY <2>1, <2>3 DEF Image
    <3>2. r.from \in DOMAIN t /\ r.to \in DOMAIN t
      BY TextPositions
    <3>3. LineHolds(c, src[r.from], src[r.to])
      BY <3>1 DEF TagsSettled, PassagesClear
    <3> QED BY <1>1, <1>3, <3>1, <3>2, <3>3, HoldsAfter
  <2> QED BY <2>2, <2>3
<1> QED BY <1>4, <1>5, <1>6 DEF TagsSettled, PassagesClear

(* So do the two passes of a tag. *)
LEMMA TagSettles ==
    ASSUME NEW S, Redacted \in S, Newline \in S, NEW c, c \in Seq(S), NEW tags, NEW tag \in tags,
           TagsSettled(c, tags)
    PROVE  TagsSettled(RedactTag(c, tag), tags) /\ Carried(c, RedactTag(c, tag))
<1> DEFINE b == RedactBlocks(c, tag)
           t == RedactLines(b, tag)
<1>1. b \in Seq(S)
  BY BlocksPass
<1>2. PICK N, src : Cutting(c, tags, tag, FALSE, N) /\ Rewritten(c, N, b, src)
  BY BlocksPass
<1> HIDE DEF b
<1>3. Pass(c, tags, tag, FALSE, N, b, src)
  BY <1>2 DEF Pass, TagsSettled
<1>4. TagsSettled(b, tags) /\ Carried(c, b)
  BY <1>1, <1>3, PassSettles, Zenon
<1>5. ASSUME NEW r \in PassageStretches(b, tag) PROVE r.line = TRUE
  <2>1. PICK s \in PassageStretches(c, tag) : Image(c, N, b, src, s, r)
    BY <1>1, <1>3, PassageFrom
  <2>2. ~Hits(N, s.from) /\ r.line = s.line
    BY <2>1 DEF Image
  <2>3. s.line # FALSE /\ s.line \in BOOLEAN
    BY <1>2, <2>2, TextPositions DEF Cutting
  <2> QED BY <2>2, <2>3
<1>6. t \in Seq(S)
  BY <1>1, <1>5, LinesPass
<1>7. PICK M, from : Cutting(b, tags, tag, TRUE, M) /\ Rewritten(b, M, t, from)
  BY <1>1, <1>5, LinesPass
<1> HIDE DEF t
<1>8. Pass(b, tags, tag, TRUE, M, t, from)
  BY <1>4, <1>7 DEF Pass, TagsSettled
<1>9. TagsSettled(t, tags) /\ Carried(b, t)
  BY <1>1, <1>4, <1>6, <1>8, PassSettles, Zenon
<1>10. RedactTag(c, tag) = t
  BY DEF RedactTag, t, b
<1> QED BY <1>4, <1>9, <1>10, CarriedOn

(* A text stands for itself. *)
LEMMA CarriedSelf ==
    ASSUME NEW c
    PROVE  Carried(c, c)
BY DEF Carried, BodiesCarried

(* And the redaction tag after tag. *)
LEMMA TagsSettle ==
    ASSUME NEW S, Redacted \in S, Newline \in S, NEW text, text \in Seq(S),
           NEW order, Len(order) \in Nat, NEW tags, TagsSettled(text, tags)
    PROVE  /\ RedactTags(text, order, tags) \in Seq(S)
           /\ Settled(RedactTags(text, order, tags))
           /\ Carried(text, RedactTags(text, order, tags))
<1> DEFINE n == Len(order)
<1>1. PICK g \in [0 .. n -> Seq(S)] : TagByTag(g, text, order, tags)
  BY RedactTagsUnfolds
<1>2. /\ g[0] = text
      /\ \A k \in 1 .. n : g[k] = IF order[k] \in tags THEN RedactTag(g[k - 1], order[k])
                                                       ELSE g[k - 1]
      /\ RedactTags(text, order, tags) = g[n]
  BY <1>1 DEF TagByTag
<1> HIDE DEF n
<1> DEFINE Good(t) == TagsSettled(t, tags) /\ Carried(text, t)
           A == {k \in 0 .. n : Good(g[k])}
<1>3. n \in Nat
  BY DEF n
<1>4. 0 \in A
  BY <1>2, <1>3, CarriedSelf
<1>5. ASSUME NEW k \in 0 .. n - 1, k \in A PROVE k + 1 \in A
  <2>1. PICK j \in 1 .. n : j = k + 1 /\ j - 1 = k
    BY <1>3
  <2>2. g[j] = IF order[j] \in tags THEN RedactTag(g[j - 1], order[j]) ELSE g[j - 1]
    BY ONLY <1>2, j \in 1 .. n, Zenon
  <2> DEFINE c == g[k]
  <2>3. c \in Seq(S) /\ Good(c)
    BY <1>3, <1>5, <1>2
  <2>4. g[j] = IF order[j] \in tags THEN RedactTag(c, order[j]) ELSE c
    BY <2>1, <2>2
  <2> HIDE DEF c
  <2>5. CASE order[j] \in tags
    <3>1. TagsSettled(RedactTag(c, order[j]), tags) /\ Carried(c, RedactTag(c, order[j]))
      <4>1. order[j] \in tags /\ c \in Seq(S) /\ TagsSettled(c, tags)
        BY <2>3, <2>5
      <4> QED BY <4>1, TagSettles
    <3>2. Good(g[j])
      BY <2>3, <2>4, <2>5, <3>1, CarriedOn
    <3> QED BY <2>1, <3>2
  <2>6. CASE order[j] \notin tags
    <3>1. Good(g[j])
      BY <2>3, <2>4, <2>6
    <3> QED BY <2>1, <3>1
  <2> QED BY <2>5, <2>6
<1>6. n \in A
  <2> HIDE DEF A
  <2>1. \A k \in 0 .. n - 1 : k \in A => k + 1 \in A
    BY <1>5
  <2>2. \A k \in 0 .. n : k \in A
    BY ONLY <1>3, <1>4, <2>1, Induction
  <2> QED BY <1>3, <2>2
<1>7. Good(g[n]) /\ g[n] \in Seq(S)
  BY <1>3, <1>6
<1> QED BY <1>2, <1>7 DEF TagsSettled

-----------------------------------------------------------------------------
(* What a laminar text gives the stages.                                   *)

\* No two of the stretches cross.
Apart(s, o) == s.to < o.from \/ o.to < s.from \/ Within(s, o) \/ Within(o, s) \/ s = o

(* The fields of a stretch. *)
LEMMA StretchFields ==
    \A x, y, l : /\ Stretch(x, y, l).from = x /\ Stretch(x, y, l).to = y
                 /\ Stretch(x, y, l).line = l
BY DEF Stretch

(* In a laminar text, wraps, lines and passages do not cross. *)
LEMMA LaminarStretches ==
    ASSUME NEW S, NEW c, c \in Seq(S), Laminar(c)
    PROVE  /\ \A a, b : Wrap(c, a, b) => Stretch(a, b, FALSE) \in Stretches(c)
           /\ \A m : Marker(c, m) => Stretch(m, EndOfLine(c, m), TRUE) \in Stretches(c)
           /\ part.where = "system" =>
                 \A s \in Passages(c, most_restrictive_doc_tags) : s \in Stretches(c)
           /\ \A s, o \in Stretches(c) : Apart(s, o)
<1>1. ASSUME NEW a, NEW b, Wrap(c, a, b) PROVE Stretch(a, b, FALSE) \in Stretches(c)
  <2>1. c[a][2][1] \in Families
    BY <1>1 DEF Wrap
  <2>2. Stretch(a, b, FALSE) \in WrapStretches(c, c[a][2][1])
    BY <1>1, <2>1, WrapIs
  <2> QED BY <2>1, <2>2 DEF Stretches, Families
<1>2. ASSUME NEW m, Marker(c, m) PROVE Stretch(m, EndOfLine(c, m), TRUE) \in Stretches(c)
  <2>1. Stretch(m, EndOfLine(c, m), TRUE) \in LineStretches(c)
    BY <1>2 DEF LineStretches, Positions, Marker
  <2> QED BY <2>1 DEF Stretches
<1>3. ASSUME part.where = "system", NEW s \in Passages(c, most_restrictive_doc_tags)
      PROVE  s \in Stretches(c)
  BY <1>3 DEF Stretches
<1>4. \A s, o \in Stretches(c) : Apart(s, o)
  BY DEF Laminar, Uncrossed, Apart
<1>5. part.where = "system" =>
          \A s \in Passages(c, most_restrictive_doc_tags) : s \in Stretches(c)
  BY <1>3
<1> QED BY ONLY <1>1, <1>2, <1>4, <1>5, Zenon

(* Where a proprietary line ends. *)
LEMMA MarkerLine ==
    ASSUME NEW S, NEW c, c \in Seq(S), NEW m, Marker(c, m), NEW y \in Nat
    PROVE  /\ m \in Nat /\ EndOfLine(c, m) \in Nat /\ m < EndOfLine(c, m)
           /\ y <= EndOfLine(c, m) => OneLine(c, m, y)
           /\ OneLine(c, m, y) /\ EndOfLine(c, m) < y => y > Len(c) + 1
           /\ EndOfLine(c, m) \in DOMAIN c => c[EndOfLine(c, m)] = Newline
           /\ EndOfLine(c, m) \notin DOMAIN c => EndOfLine(c, m) = Len(c) + 1
<1>1. m \in DOMAIN c /\ m \in Nat /\ DOMAIN c = 1 .. Len(c) /\ Len(c) \in Nat
  BY TextPositions DEF Marker
<1> DEFINE e == EndOfLine(c, m)
<1>2. /\ e \in m + 1 .. Len(c) + 1
      /\ \A j \in m + 1 .. e - 1 : j \in DOMAIN c /\ c[j] # Newline
      /\ e \in DOMAIN c => c[e] = Newline
  BY <1>1, LineEnds
<1> HIDE DEF e
<1>3. e \in Nat /\ m < e /\ (e \notin DOMAIN c => e = Len(c) + 1)
  BY <1>1, <1>2
<1>4. ASSUME y <= e PROVE OneLine(c, m, y)
  <2> SUFFICES ASSUME NEW k \in DOMAIN c, m < k, k < y PROVE c[k] # Newline
    BY DEF OneLine
  <2>1. k \in m + 1 .. e - 1
    BY <1>1, <1>3, <1>4
  <2> QED BY <2>1, <1>2
<1>5. ASSUME OneLine(c, m, y), e < y PROVE y > Len(c) + 1
  <2>1. e \notin DOMAIN c
    BY <1>2, <1>3, <1>5 DEF OneLine
  <2> QED BY <1>1, <1>3, <1>5, <2>1
<1> QED BY <1>1, <1>2, <1>3, <1>4, <1>5 DEF e

(* A line that runs into a stretch without newline at its end holds it. *)
LEMMA LineHoldsStretch ==
    ASSUME NEW S, NEW c, c \in Seq(S), NEW x \in DOMAIN c, NEW y \in DOMAIN c, x <= y,
           \A m : Marker(c, m) => Apart(Stretch(m, EndOfLine(c, m), TRUE), Stretch(x, y, FALSE)),
           NEW m, Marker(c, m), m < x, OneLine(c, m, x)
    PROVE  OneLine(c, x, y)
<1> DEFINE e == EndOfLine(c, m)
           s == Stretch(m, e, TRUE)
           o == Stretch(x, y, FALSE)
<1>1. x \in Nat /\ y \in Nat /\ x <= Len(c) /\ Len(c) \in Nat
  BY TextPositions
<1>2. /\ m \in Nat /\ e \in Nat /\ m < e
      /\ OneLine(c, m, x) /\ e < x => x > Len(c) + 1
  BY <1>1, MarkerLine
<1>3. y <= e => OneLine(c, m, y)
  BY <1>1, MarkerLine
<1>4. /\ s.from = m /\ s.to = e /\ o.from = x /\ o.to = y
  BY DEF Stretch
<1>5. Apart(s, o)
  OBVIOUS
<1> HIDE DEF e, s, o
<1>6. y <= e
  <2>1. ~(e < x)
    BY <1>1, <1>2
  <2>2. s # o
    BY <1>1, <1>2, <1>4
  <2> QED BY <1>1, <1>2, <1>4, <1>5, <2>1, <2>2 DEF Apart, Within
<1>7. ASSUME NEW k \in DOMAIN c, x < k, k < y PROVE c[k] # Newline
  <2>1. m < k
    BY <1>1, <1>2, <1>7, TextPositions
  <2> QED BY <1>3, <1>6, <1>7, <2>1 DEF OneLine
<1> QED BY <1>7 DEF OneLine

(* In a laminar text, wraps, lines and passages are as the stages need.    *)
LEMMA LaminarSettles ==
    ASSUME NEW S, NEW c, c \in Seq(S), Laminar(c)
    PROVE  /\ Settled(c)
           /\ part.where = "system" => TagsSettled(c, most_restrictive_doc_tags)
<1> DEFINE wide == most_restrictive_doc_tags
<1>1. /\ \A a, b : Wrap(c, a, b) => Stretch(a, b, FALSE) \in Stretches(c)
      /\ \A m : Marker(c, m) => Stretch(m, EndOfLine(c, m), TRUE) \in Stretches(c)
      /\ part.where = "system" => \A s \in Passages(c, wide) : s \in Stretches(c)
      /\ \A s, o \in Stretches(c) : Apart(s, o)
  BY LaminarStretches
<1> HIDE DEF wide
<1>2. ASSUME NEW a, NEW b, Wrap(c, a, b)
      PROVE  /\ a \in DOMAIN c /\ b \in DOMAIN c /\ a \in Nat /\ b \in Nat /\ a < b /\ a <= b
             /\ b <= Len(c) /\ Len(c) \in Nat
  BY <1>2, TextPositions DEF Wrap
<1>3. WrapsNested(c)
  <2> SUFFICES ASSUME NEW a, NEW b, Wrap(c, a, b), NEW x, NEW y, Wrap(c, x, y)
               PROVE  b < x \/ y < a \/ (a <= x /\ y <= b) \/ (x <= a /\ b <= y)
    BY DEF WrapsNested
  <2> DEFINE s == Stretch(a, b, FALSE)
             o == Stretch(x, y, FALSE)
  <2>1. s.from = a /\ s.to = b /\ o.from = x /\ o.to = y
    BY DEF Stretch
  <2>2. s \in Stretches(c) /\ o \in Stretches(c)
    BY <1>1
  <2>3. (s = o) => (a = x /\ b = y)
    BY <2>1
  <2> HIDE DEF s, o
  <2>4. Apart(s, o)
    BY <1>1, <2>2
  <2> QED BY <1>2, <2>1, <2>3, <2>4 DEF Apart, Within
<1>4. ASSUME NEW a, NEW b, Wrap(c, a, b) PROVE LineHolds(c, a, b)
  <2>1. \A m : Marker(c, m) => Apart(Stretch(m, EndOfLine(c, m), TRUE), Stretch(a, b, FALSE))
    BY <1>1, <1>4
  <2> QED BY <1>2, <1>4, <2>1, LineHoldsStretch DEF LineHolds
<1>5. ASSUME NEW a, NEW b, Wrap(c, a, b), NEW m, Marker(c, m), a < m, m < b, OneLine(c, m, b)
      PROVE  FALSE
  <2> DEFINE e == EndOfLine(c, m)
             s == Stretch(m, e, TRUE)
             o == Stretch(a, b, FALSE)
  <2>1. s.from = m /\ s.to = e /\ o.from = a /\ o.to = b
    BY DEF Stretch
  <2>2. s \in Stretches(c) /\ o \in Stretches(c)
    BY <1>1, <1>5
  <2>3. a \in Nat /\ b \in Nat /\ b \in DOMAIN c /\ b <= Len(c) /\ Len(c) \in Nat /\ c[b] # Newline
    BY <1>2, <1>5, SentinelKinds
  <2>4. /\ m \in Nat /\ e \in Nat /\ m < e
        /\ OneLine(c, m, b) /\ e < b => b > Len(c) + 1
        /\ e \in DOMAIN c => c[e] = Newline
    BY <1>5, <2>3, MarkerLine
  <2> HIDE DEF e, s, o
  <2>5. Apart(s, o)
    BY <1>1, <2>2
  <2>6. b < e
    <3>1. ~(e < b) /\ e # b
      BY <1>5, <2>3, <2>4
    <3> QED BY <2>3, <2>4, <3>1
  <2>7. s # o
    BY <1>5, <2>1, <2>3, <2>4
  <2> QED BY <1>5, <2>1, <2>3, <2>4, <2>6, <2>7, <2>5 DEF Apart, Within
<1>6. Settled(c)
  BY <1>3, <1>4, <1>5 DEF Settled, LinesClear, LineEndsIn
<1>7. ASSUME part.where = "system" PROVE TagsSettled(c, wide)
  <2>1. Uncrossed(Passages(c, wide))
    BY <1>1, <1>7 DEF Uncrossed, Apart
  <2>2. ASSUME NEW u \in wide, NEW s \in PassageStretches(c, u)
        PROVE  /\ \A a, b : Wrap(c, a, b) => Clear(s, a, b)
               /\ ~s.line => LineHolds(c, s.from, s.to)
    <3>1. s \in Stretches(c)
      BY <1>1, <1>7 DEF Passages
    <3>2. /\ s.from \in DOMAIN c /\ s.to \in DOMAIN c /\ s.from <= s.to
          /\ s.from \in Nat /\ s.to \in Nat
      BY TextPositions
    <3>3. IsPassage(c, u, s)
      BY PassageIs
    <3>4. c[s.from] = Opening(u) /\ (~s.line => c[s.to] = Closing(u) /\ s.line = FALSE)
      BY <3>3 DEF IsPassage, EndsBlock
    <3>5. ASSUME NEW a, NEW b, Wrap(c, a, b) PROVE Clear(s, a, b)
      <4> DEFINE o == Stretch(a, b, FALSE)
      <4>1. o.from = a /\ o.to = b /\ o.line = FALSE
        BY DEF Stretch
      <4>2. o \in Stretches(c)
        BY <1>1, <3>5
      <4>3. a \in Nat /\ b \in Nat
        BY <1>2, <3>5
      <4>4. s.from # a /\ (~s.line => s.to # b)
        BY <3>4, <3>5, SentinelKinds
      <4> HIDE DEF o
      <4>5. Apart(s, o)
        BY <1>1, <3>1, <4>2
      <4>6. Within(s, o) => a < s.from /\ s.to < b
        BY <3>2, <4>1, <4>3, <4>4 DEF Within
      <4>7. s # o
        BY <4>1, <4>4
      <4> QED BY <4>1, <4>6, <4>7, <4>5 DEF Apart, Within, Clear
    <3>6. ASSUME ~s.line PROVE LineHolds(c, s.from, s.to)
      <4>1. s = Stretch(s.from, s.to, FALSE)
        BY <3>3, <3>4, <3>6 DEF IsPassage
      <4>2. \A m : Marker(c, m) =>
                Apart(Stretch(m, EndOfLine(c, m), TRUE), Stretch(s.from, s.to, FALSE))
        BY <1>1, <3>1, <4>1
      <4> QED BY <3>2, <4>2, LineHoldsStretch DEF LineHolds
    <3> QED BY <3>5, <3>6
  <2> QED BY <1>6, <2>1, <2>2 DEF TagsSettled, PassagesClear
<1> QED BY <1>6, <1>7 DEF wide

-----------------------------------------------------------------------------
(* Masking as a cut.                                                       *)

\* What a mask cuts.
MaskStretches(F) == {Stretch(f.start, f.end - 1, FALSE) : f \in F}

(* The span of a finding: one symbol, no sentinel, or a proprietary line.  *)
LEMMA FindingSpan ==
    ASSUME NEW S, NEW text, text \in Seq(S), NEW entities, IsMasking(entities), NEW exempt,
           NEW raised, NEW f \in MaskedFindings(text, entities, exempt, raised)
    PROVE  /\ f.start \in DOMAIN text /\ f.start \in Nat /\ f.end \in Nat /\ f.start < f.end
           /\ f.end <= Len(text) + 1
           /\ Kind(text[f.start]) \notin {"open", "close"}
           /\ Kind(text[f.start]) # "marker" => f.end = f.start + 1
           /\ Kind(text[f.start]) = "marker" => f.end = EndOfLine(text, f.start)
<1> DEFINE F == MaskedFindings(text, entities, exempt, raised)
           scan == scan_entities(text, entities, raised)
<1>1. F \in SUBSET scan
  BY MaskedFacts
<1>2. \A g \in scan : g.start \in DOMAIN text /\ g \in FindingsAt(text, g.start, raised)
  BY ScanFacts
<1> HIDE DEF F, scan
<1>3. PICK i \in DOMAIN text : i = f.start /\ f \in FindingsAt(text, i, raised)
  BY <1>1, <1>2 DEF F
<1>4. /\ f.end \in i + 1 .. Len(text) + 1
      /\ Kind(text[i]) # "marker" => f.end = i + 1
      /\ Kind(text[i]) = "marker" => f.end = EndOfLine(text, i)
  BY <1>3, FindingShape
<1>5. Kind(text[i]) \notin {"open", "close"}
  <2>1. FindingsAt(text, i, raised) # {}
    BY <1>3
  <2> QED BY <2>1, PatternFacts DEF FindingsAt
<1>6. i \in Nat /\ Len(text) \in Nat
  BY TextPositions
<1> QED BY <1>3, <1>4, <1>5, <1>6

(* mask_text cuts its findings out. *)
LEMMA MaskCuts ==
    ASSUME NEW S, NEW text, text \in Seq(S), NEW entities, IsMasking(entities), NEW exempt,
           NEW raised
    PROVE  \E src : Cuts(text, MaskStretches(MaskedFindings(text, entities, exempt, raised)),
                         mask_text(text, entities, exempt, raised), src)
<1> DEFINE F == MaskedFindings(text, entities, exempt, raised)
           t == mask_text(text, entities, exempt, raised)
           N == MaskStretches(F)
<1>1. PICK src : Kept(text, F, t, src)
  BY MaskText
<1>2. \E X : t \in Seq(X)
  BY MaskTextIsText
<1>3. ASSUME NEW f \in F PROVE f.start \in Nat /\ f.end \in Nat /\ f.start < f.end
  BY FindingSpan
<1> HIDE DEF F, t
<1>4. ASSUME NEW i \in Nat PROVE Hits(N, i) <=> Hit(F, i)
  <2>1. ASSUME Hits(N, i) PROVE Hit(F, i)
    <3>1. PICK n \in N : n.from <= i /\ i <= n.to
      BY <2>1 DEF Hits
    <3>2. PICK f \in F : n = Stretch(f.start, f.end - 1, FALSE)
      BY DEF MaskStretches
    <3>3. n.from = f.start /\ n.to = f.end - 1
      BY <3>2 DEF Stretch
    <3>4. f.start <= i /\ i < f.end
      BY <1>3, <3>1, <3>3
    <3> QED BY <3>4 DEF Hit
  <2>2. ASSUME Hit(F, i) PROVE Hits(N, i)
    <3>1. PICK f \in F : f.start <= i /\ i < f.end
      BY <2>2 DEF Hit
    <3> DEFINE n == Stretch(f.start, f.end - 1, FALSE)
    <3>2. n \in N
      BY DEF MaskStretches
    <3>3. n.from = f.start /\ n.to = f.end - 1
      BY DEF Stretch
    <3> HIDE DEF n, N
    <3>4. n.from <= i /\ i <= n.to
      BY <1>3, <3>1, <3>3
    <3> QED BY <3>2, <3>4 DEF Hits
  <2> QED BY <2>1, <2>2
<1>5. \A n \in N : n.from \in Nat /\ n.to \in Nat
  <2> SUFFICES ASSUME NEW n \in N PROVE n.from \in Nat /\ n.to \in Nat
    OBVIOUS
  <2>1. PICK f \in F : n = Stretch(f.start, f.end - 1, FALSE)
    BY DEF MaskStretches
  <2>2. n.from = f.start /\ n.to = f.end - 1
    BY <2>1 DEF Stretch
  <2> QED BY <1>3, <2>2
<1> HIDE DEF N
<1>6. ASSUME NEW q \in DOMAIN t
      PROVE  /\ src[q] \in DOMAIN text /\ src[q] \in Nat /\ q \in Nat
             /\ IF Hits(N, src[q]) THEN Kind(t[q]) \in Fillers ELSE t[q] = text[src[q]]
  <2>1. src[q] \in DOMAIN text /\ src[q] \in Nat /\ q \in Nat
    BY <1>1, <1>2, TextPositions DEF Kept
  <2>2. ASSUME NEW f \in F, f.start = src[q], t[q] = Placeholder(F, f)
        PROVE  Hits(N, src[q]) /\ Kind(t[q]) \in Fillers
    <3>1. Hit(F, src[q])
      BY <1>3, <2>1, <2>2 DEF Hit
    <3>2. Kind(t[q]) = "masked"
      BY <2>2, PlaceholderKind
    <3> QED BY <1>4, <2>1, <3>1, <3>2 DEF Fillers
  <2>3. \/ \E f \in F : f.start = src[q] /\ t[q] = Placeholder(F, f)
        \/ ~Hit(F, src[q]) /\ t[q] = text[src[q]]
    BY <1>1 DEF Kept
  <2> QED BY <1>4, <2>1, <2>2, <2>3
<1>7. \A q, r \in DOMAIN t : q < r => src[q] < src[r]
  BY <1>1 DEF Kept
<1>8. \A q, r \in DOMAIN t : q < r => src[q] <= src[r]
  BY <1>6, <1>7
<1>9. \A q, r \in DOMAIN t : src[q] = src[r] => q = r
  <2> SUFFICES ASSUME NEW q \in DOMAIN t, NEW r \in DOMAIN t, src[q] = src[r] PROVE q = r
    OBVIOUS
  <2>1. ~(q < r) /\ ~(r < q)
    BY <1>6, <1>7
  <2> QED BY <1>6, <2>1
<1>10. ASSUME NEW i \in DOMAIN text, ~Hits(N, i) PROVE \E q \in DOMAIN t : src[q] = i
  <2>1. ~Hit(F, i)
    BY <1>4, <1>10, TextPositions
  <2> QED BY <1>1, <2>1 DEF Kept
<1>11. src \in [DOMAIN t -> DOMAIN text]
  BY <1>1 DEF Kept
<1>12. Cuts(text, N, t, src)
  BY <1>5, <1>6, <1>8, <1>9, <1>10, <1>11 DEF Cuts
<1> QED BY <1>12 DEF F, t, N

(* And does not cut into wraps. *)
LEMMA MaskRespects ==
    ASSUME NEW S, NEW text, text \in Seq(S), NEW entities, IsMasking(entities), NEW exempt,
           NEW raised, LinesClear(text)
    PROVE  Respects(text, MaskStretches(MaskedFindings(text, entities, exempt, raised)))
<1> DEFINE F == MaskedFindings(text, entities, exempt, raised)
<1> SUFFICES ASSUME NEW n \in MaskStretches(F), NEW a, NEW b, Wrap(text, a, b)
             PROVE  Clear(n, a, b)
  BY DEF Respects
<1>1. PICK f \in F : n = Stretch(f.start, f.end - 1, FALSE)
  BY DEF MaskStretches
<1>2. n.from = f.start /\ n.to = f.end - 1
  BY <1>1 DEF Stretch
<1>3. PICK m \in DOMAIN text : m = f.start
  BY FindingSpan
<1> DEFINE e == EndOfLine(text, m)
<1>4. /\ m \in Nat /\ f.end \in Nat /\ m < f.end /\ f.end <= Len(text) + 1
      /\ Kind(text[m]) \notin {"open", "close"}
      /\ Kind(text[m]) # "marker" => f.end = m + 1
      /\ Kind(text[m]) = "marker" => f.end = e
  BY <1>3, FindingSpan
<1> HIDE DEF F
<1>5. /\ a \in DOMAIN text /\ b \in DOMAIN text /\ a \in Nat /\ b \in Nat /\ a < b
      /\ b <= Len(text) /\ Len(text) \in Nat
  BY TextPositions DEF Wrap
<1>6. m # a /\ m # b /\ text[b] # Newline /\ text[a] # Newline
  BY <1>4, SentinelKinds
<1>7. CASE Kind(text[m]) # "marker"
  BY <1>2, <1>3, <1>4, <1>5, <1>6, <1>7 DEF Clear
<1>8. CASE Kind(text[m]) = "marker"
  <2>1. Marker(text, m)
    BY <1>8 DEF Marker
  <2>2. LineHolds(text, a, b) /\ LineEndsIn(text, a, b)
    BY DEF LinesClear
  <2>3. \A y \in Nat :
           /\ y <= e => OneLine(text, m, y)
           /\ OneLine(text, m, y) /\ e < y => y > Len(text) + 1
    BY <2>1, MarkerLine
  <2>4. e \in DOMAIN text => text[e] = Newline
    BY <2>1, <1>4, MarkerLine
  <2>5. e \in Nat /\ m < e /\ f.end = e
    BY <1>4, <1>8
  <2> HIDE DEF e
  <2>6. e # a /\ e # b
    BY <1>5, <1>6, <2>4
  <2>7. CASE m < a /\ a < e
    <3>1. OneLine(text, m, a)
      BY <1>5, <2>3, <2>5, <2>7
    <3>2. OneLine(text, a, b)
      BY <2>1, <2>2, <2>7, <3>1 DEF LineHolds
    <3>3. OneLine(text, m, b)
      <4> SUFFICES ASSUME NEW k \in DOMAIN text, m < k, k < b PROVE text[k] # Newline
        BY DEF OneLine
      <4>1. k \in Nat
        BY TextPositions
      <4>2. k < a \/ k = a \/ a < k
        BY <1>5, <4>1
      <4> QED BY <1>6, <3>1, <3>2, <4>2 DEF OneLine
    <3>4. ~(e < b)
      BY <1>5, <2>3, <3>3
    <3>5. b < e
      BY <1>5, <2>5, <2>6, <3>4
    <3> QED BY <1>2, <1>3, <1>5, <2>5, <2>7, <3>5 DEF Clear
  <2>8. CASE m < a /\ e < a
    BY <1>2, <1>3, <1>5, <2>5, <2>8 DEF Clear
  <2>9. CASE a < m /\ m < b
    <3>1. ~OneLine(text, m, b)
      BY <2>1, <2>2, <2>9 DEF LineEndsIn
    <3>2. ~(b <= e)
      BY <1>5, <2>3, <3>1
    <3>3. e < b
      BY <1>5, <2>5, <3>2
    <3> QED BY <1>2, <1>3, <1>5, <2>5, <2>9, <3>3 DEF Clear
  <2>10. CASE b < m
    BY <1>2, <1>3, <2>10 DEF Clear
  <2>11. (m < a /\ a < e) \/ (m < a /\ e < a) \/ (a < m /\ m < b) \/ b < m
    BY <1>4, <1>5, <1>6, <2>5, <2>6
  <2> QED BY <2>7, <2>8, <2>9, <2>10, <2>11
<1> QED BY <1>7, <1>8

-----------------------------------------------------------------------------
(* What reaches the record.                                                *)

(* A body a cut leaves is in a document's wrap as before. *)
LEMMA BodiesAfter ==
    ASSUME NEW S, NEW c, c \in Seq(S), NEW R, NEW t, t \in Seq(R), Carried(c, t), BodiesWrapped(c)
    PROVE  BodiesWrapped(t)
<1> SUFFICES ASSUME NEW q \in DOMAIN t, Kind(t[q]) = "body" PROVE InWrap(t, "DOC", q)
  BY DEF BodiesWrapped, Positions
<1>1. PICK i \in DOMAIN c :
         /\ c[i] = t[q]
         /\ \A a, b : Wrap(c, a, b) /\ a < i /\ i < b =>
               \E p, e : Wrap(t, p, e) /\ p < q /\ q < e /\ t[p] = c[a]
  BY DEF Carried, BodiesCarried
<1>2. "DOC" \in Families
  BY DEF Families
<1>3. InWrap(c, "DOC", i)
  BY <1>1 DEF BodiesWrapped, Positions
<1>4. PICK a, b : Wrap(c, a, b) /\ c[a][2][1] = "DOC" /\ a < i /\ i < b
  BY <1>2, <1>3, InWrapIs
<1>5. PICK p, e : Wrap(t, p, e) /\ p < q /\ q < e /\ t[p] = c[a]
  BY <1>1, <1>4
<1> QED BY <1>2, <1>4, <1>5, InWrapIs

(* What the hook leaves of a text: "[REDACTED]", and what is in none of    *)
(* its matches.                                                            *)
LEMMA HookLeaves ==
    ASSUME NEW S, NEW t, t \in Seq(S), NEW q \in DOMAIN langfuse_mask(t),
           Kind(langfuse_mask(t)[q]) = "body"
    PROVE  \E j \in DOMAIN t :
              /\ t[j] = langfuse_mask(t)[q]
              /\ DocumentsApart(t) => ~InWrap(t, "DOC", j)
<1> DEFINE out == langfuse_mask(t)
           hits(i) == {j \in Behind(t, i) : IsSentinel(t[j], "close", "DOC")}
           end == [i \in DOMAIN t |->
                     IF IsSentinel(t[i], "open", "DOC") THEN First(hits(i)) ELSE NoMatch]
           by == Everywhere(t, <<Redacted>>)
           M == Matches(t, end)
           V == S \cup {Redacted}
<1>1. /\ Len(t) \in Nat /\ DOMAIN t = 1 .. Len(t) /\ \A i \in DOMAIN t : i \in Nat
  BY TextPositions
<1>2. ASSUME NEW i \in DOMAIN t
      PROVE  /\ end[i] # NoMatch =>
                   /\ end[i] \in DOMAIN t /\ i < end[i]
                   /\ IsSentinel(t[end[i]], "close", "DOC")
             /\ \A b \in DOMAIN t : /\ i < b /\ IsSentinel(t[b], "close", "DOC")
                                    /\ IsSentinel(t[i], "open", "DOC")
                   => end[i] # NoMatch /\ end[i] <= b
  <2>1. /\ hits(i) \in SUBSET (Nat \ {0})
        /\ \A j : j \in hits(i) <=> j \in DOMAIN t /\ i < j /\ IsSentinel(t[j], "close", "DOC")
    BY <1>1 DEF Behind
  <2>2. /\ hits(i) = {} <=> First(hits(i)) = NoMatch
        /\ hits(i) # {} => First(hits(i)) \in hits(i) /\ \A k \in hits(i) : First(hits(i)) <= k
    <3> DEFINE h == hits(i)
    <3>1. h \in SUBSET (Nat \ {0})
      BY <2>1
    <3> HIDE DEF h
    <3>2. /\ h = {} <=> First(h) = NoMatch
          /\ h # {} => First(h) \in h /\ \A k \in h : First(h) <= k
      BY <3>1, FirstIs
    <3> QED BY <3>2 DEF h
  <2>3. end[i] = IF IsSentinel(t[i], "open", "DOC") THEN First(hits(i)) ELSE NoMatch
    OBVIOUS
  <2> HIDE DEF end, hits
  <2> QED BY <2>1, <2>2, <2>3
<1>3. Ends(t, end)
  <2> HIDE DEF end
  <2>1. ASSUME NEW i \in DOMAIN t, end[i] # NoMatch PROVE end[i] \in Nat /\ i <= end[i]
    BY <1>1, <1>2, <2>1
  <2> QED BY <2>1 DEF Ends
<1>4. ScannedTo(end, Len(t), M)
  BY <1>3, MatchesAre
<1>5. out = Sub(t, end, by)
  BY DEF langfuse_mask
<1>6. by \in [DOMAIN t -> Seq(V)] /\ t \in Seq(V) /\ \A i \in DOMAIN t : by[i] = <<Redacted>>
  BY DEF Everywhere
<1> HIDE DEF end, by, V, M
<1>7. ASSUME NEW m \in M PROVE m \in DOMAIN t /\ end[m] # NoMatch
  BY <1>1, <1>4, <1>7 DEF ScannedTo
<1>8. M \in SUBSET DOMAIN t
  BY <1>7
<1>9. \E src, off : Substituted(t, end, M, by, out, src, off)
  BY <1>5, <1>6, <1>8, SubFrom DEF M
<1>10. PICK src, off : Substituted(t, end, M, by, out, src, off)
  BY <1>9
<1>11. q \in DOMAIN out /\ Kind(out[q]) = "body"
  OBVIOUS
<1> HIDE DEF out
<1>12. PICK j \in DOMAIN t : j = src[q]
  BY <1>10, <1>11 DEF Substituted
<1>13. j \notin M
  <2> SUFFICES ASSUME j \in M PROVE FALSE
    OBVIOUS
  <2>1. off[q] \in DOMAIN by[j] /\ out[q] = by[j][off[q]]
    BY <1>10, <1>11, <1>12 DEF Substituted
  <2>2. DOMAIN <<Redacted>> = {1} /\ <<Redacted>>[1] = Redacted
    OBVIOUS
  <2>3. out[q] = Redacted
    BY <1>6, <2>1, <2>2
  <2> QED BY <1>11, <2>3 DEF Redacted, Kind
<1>14. ~InMatch(end, M, j) /\ out[q] = t[j]
  BY <1>10, <1>11, <1>12, <1>13 DEF Substituted
<1>15. ASSUME DocumentsApart(t), InWrap(t, "DOC", j) PROVE FALSE
  <2>1. "DOC" \in Families
    BY DEF Families
  <2>2. PICK a, b : Wrap(t, a, b) /\ t[a][2][1] = "DOC" /\ a < j /\ j < b
    BY <1>15, <2>1, InWrapIs
  <2>3. /\ a \in DOMAIN t /\ b \in DOMAIN t /\ a \in Nat /\ b \in Nat /\ j \in Nat
        /\ IsSentinel(t[a], "open", "DOC") /\ IsSentinel(t[b], "close", "DOC")
    BY <1>1, <2>2 DEF Wrap, IsSentinel, CloseOf, Close, Kind
  <2>4. ASSUME NEW e \in DOMAIN t, a < e, e < b, IsSentinel(t[e], "close", "DOC") PROVE FALSE
    <3>1. InWrap(t, "DOC", e)
      BY <2>1, <2>2, <2>4, InWrapIs
    <3> QED BY <1>15, <2>4, <3>1 DEF DocumentsApart, DocSentinel
  <2>5. end[a] = b
    <3>1. end[a] # NoMatch /\ end[a] <= b
      BY <1>2, <2>2, <2>3
    <3>2. end[a] \in DOMAIN t /\ a < end[a] /\ IsSentinel(t[end[a]], "close", "DOC")
      BY <1>2, <2>3, <3>1
    <3>3. ~(end[a] < b)
      BY <2>4, <3>2
    <3> QED BY <1>1, <2>3, <3>1, <3>2, <3>3
  <2>6. PICK m \in M : m <= a /\ a <= end[m]
    <3>1. b # NoMatch
      BY <2>3, <2>2 DEF NoMatch
    <3>2. InMatch(end, M, a)
      BY <1>1, <1>4, <2>3, <2>5, <3>1 DEF ScannedTo
    <3> QED BY <3>2 DEF InMatch
  <2>7. /\ m \in DOMAIN t /\ end[m] \in DOMAIN t /\ m \in Nat /\ end[m] \in Nat
        /\ IsSentinel(t[end[m]], "close", "DOC")
    BY <1>1, <1>2, <1>7
  <2>8. end[m] # a
    BY <2>3, <2>7 DEF IsSentinel
  <2>9. ~(end[m] < b)
    BY <2>3, <2>4, <2>6, <2>7, <2>8
  <2>10. m <= j /\ j <= end[m]
    BY <2>2, <2>3, <2>6, <2>7, <2>9
  <2> QED BY <1>14, <2>10 DEF InMatch
<1> QED BY <1>14, <1>15 DEF out

-----------------------------------------------------------------------------
(* One string through the stages, and what unwrap recovers of it.          *)

(* A body or payload in a masked string was in it before, and not with     *)
(* escapes.                                                                *)
LEMMA Reached ==
    ASSUME NEW S, NEW text, text \in Seq(S), WellSpelt(text), NEW entities, IsMasking(entities),
           NEW exempt, NEW raised, NEW q \in DOMAIN mask_part(text, entities, exempt, raised),
           Kind(mask_part(text, entities, exempt, raised)[q]) \in {"body", "payload"}
    PROVE  \E r \in DOMAIN text : text[r] = mask_part(text, entities, exempt, raised)[q]
<1>1. ASSUME NEW R, NEW c, c \in Seq(R), NEW p \in DOMAIN mask_text(c, entities, exempt, raised),
             Kind(mask_text(c, entities, exempt, raised)[p]) \in {"body", "payload"}
      PROVE  \E r \in DOMAIN c : c[r] = mask_text(c, entities, exempt, raised)[p]
  <2> DEFINE t == mask_text(c, entities, exempt, raised)
             N == MaskStretches(MaskedFindings(c, entities, exempt, raised))
  <2>1. PICK src : Cuts(c, N, t, src)
    BY <1>1, MaskCuts
  <2>2. PICK V : t \in Seq(V)
    BY <1>1, MaskTextIsText
  <2>3. p \in DOMAIN t /\ Kind(t[p]) \in {"body", "payload"}
    BY <1>1
  <2> HIDE DEF t, N
  <2>4. Kind(t[p]) \notin Fillers
    BY <2>3 DEF Fillers
  <2>5. t[p] = c[src[p]] /\ src[p] \in DOMAIN c
    BY <1>1, <2>1, <2>2, <2>3, <2>4, CutOrder
  <2> QED BY <2>5 DEF t
<1>2. CASE IsJson /\ ParsesAsJson(text)
  <2> DEFINE masked == mask_json_value(text, entities, exempt, raised)
             out == json_dumps(text, masked)
             L == json_loads(text)
  <2>1. mask_part(text, entities, exempt, raised) = out
    BY <1>2 DEF mask_part, mask_json_encoded_string
  <2>2. q \in DOMAIN out /\ Kind(out[q]) \in {"body", "payload"}
    BY <2>1
  <2>3. PICK V : masked \in [DOMAIN L -> Seq(V)]
    BY MaskedStretches
  <2>4. \A i \in DOMAIN L :
           masked[i] = IF text[i] = Leaf THEN mask_text(L[i], entities, exempt, raised) ELSE L[i]
    BY MaskedStretches
  <2>5. /\ \A i \in DOMAIN L : /\ text[i] \in Openers /\ L[i] \in Seq(Decoded(S))
                              /\ \A k \in DOMAIN L[i] :
                                    i + k \in DOMAIN text /\ L[i][k] = Unescaped(text[i + k])
    BY LoadsAre
  <2> HIDE DEF masked
  <2>6. PICK src, off : FromStretches(text, masked, out, src, off)
    BY <2>3, DumpedFrom
  <2> HIDE DEF out, L
  <2>7. /\ src[q] \in DOMAIN masked /\ off[q] \in DOMAIN masked[src[q]]
        /\ out[q] = masked[src[q]][off[q]]
    BY <2>2, <2>3, <2>5, <2>6, InSomeStretch
  <2>8. PICK i \in DOMAIN L, c \in Seq(Decoded(S)) : i = src[q] /\ c = L[i]
    BY <2>3, <2>5, <2>7
  <2>9. \E k \in DOMAIN c : c[k] = out[q]
    <3>1. CASE text[i] = Leaf
      <4>1. masked[i] = mask_text(c, entities, exempt, raised)
        BY <2>4, <2>8, <3>1
      <4> QED BY <4>1, <1>1, <2>2, <2>7, <2>8
    <3>2. CASE text[i] # Leaf
      <4>1. masked[i] = c
        BY <2>4, <2>8, <3>2
      <4> QED BY <4>1, <2>7, <2>8
    <3> QED BY <3>1, <3>2
  <2>10. PICK k \in DOMAIN L[i] : L[i][k] = out[q]
    BY <2>8, <2>9
  <2>11. i + k \in DOMAIN text /\ Unescaped(text[i + k]) = out[q]
    BY <2>5, <2>10
  <2>12. text[i + k] = out[q]
    BY <2>2, <2>11 DEF Unescaped, WellSpelt, Spelt
  <2> QED BY <2>1, <2>11, <2>12
<1>3. CASE ~(IsJson /\ ParsesAsJson(text))
  <2>1. mask_part(text, entities, exempt, raised) = mask_text(text, entities, exempt, raised)
    BY <1>3 DEF mask_part, mask_json_encoded_string
  <2> QED BY <1>1, <2>1
<1> QED BY <1>2, <1>3

(* The redaction for everybody and the strips keep what stands in wraps    *)
(* there.                                                                  *)
LEMMA RedactSettles ==
    ASSUME NEW c, IsText(c), Laminar(c), part.user \in UserContext
    PROVE  /\ \E R : redact_part(c) \in Seq(R)
           /\ Settled(redact_part(c)) /\ Carried(c, redact_part(c))
<1>1. PICK S : Redacted \in S /\ Newline \in S /\ c \in Seq(S)
  BY SymbolsAndMarks
<1>2. Settled(c) /\ (part.where = "system" => TagsSettled(c, most_restrictive_doc_tags))
  BY <1>1, LaminarSettles
<1>3. CASE part.where = "system"
  <2>1. redact_part(c) = RedactTags(c, SortedTags, most_restrictive_doc_tags)
    BY <1>3 DEF redact_part, RedactForEverybody
  <2>2. Len(SortedTags) \in Nat
    BY TagsListed
  <2>3. TagsSettled(c, most_restrictive_doc_tags)
    BY <1>2, <1>3
  <2> QED BY <1>1, <2>1, <2>2, <2>3, TagsSettle
<1>4. CASE part.where # "system"
  BY <1>1, <1>2, <1>4, CarriedSelf DEF redact_part
<1> QED BY <1>3, <1>4

\* The first of the two strips.
DocumentsStripped(text) == IF IsReply THEN text ELSE StripWraps(text, "DOC", Token)

(* It leaves a text settled.                                               *)
LEMMA DocumentsSettle ==
    ASSUME NEW S, NEW c, c \in Seq(S), Settled(c)
    PROVE  LET t == DocumentsStripped(c)
           IN  (\E R : t \in Seq(R)) /\ Settled(t) /\ Carried(c, t)
<1>1. "DOC" \in Families /\ WrapsNested(c)
  BY DEF Families, Settled
<1>2. CASE IsReply
  BY <1>2, CarriedSelf DEF DocumentsStripped
<1>3. CASE ~IsReply
  BY <1>1, <1>3, StripSettles DEF DocumentsStripped
<1> QED BY <1>2, <1>3

(* And so do both.                                                         *)
LEMMA StripPartSettles ==
    ASSUME NEW S, NEW c, c \in Seq(S), Settled(c)
    PROVE  (\E R : strip_part(c) \in Seq(R)) /\ Settled(strip_part(c)) /\ Carried(c, strip_part(c))
<1> DEFINE d == DocumentsStripped(c)
<1>1. PICK R : d \in Seq(R)
  BY DocumentsSettle
<1>2. Settled(d) /\ Carried(c, d)
  BY DocumentsSettle
<1>3. strip_part(c) = IF part.where = "arguments" THEN c
                      ELSE IF part.interagent THEN StripWraps(d, "IAP", Token) ELSE d
  BY DEF strip_part, DocumentsStripped
<1> HIDE DEF d
<1>4. "IAP" \in Families /\ WrapsNested(d)
  BY <1>2 DEF Families, Settled
<1>5. CASE part.where = "arguments"
  BY <1>3, <1>5, CarriedSelf
<1>6. CASE part.where # "arguments" /\ part.interagent
  <2> DEFINE t == StripWraps(d, "IAP", Token)
  <2>1. (\E Q : t \in Seq(Q)) /\ Carried(d, t) /\ (Settled(d) => Settled(t))
    BY <1>1, <1>4, StripSettles
  <2> HIDE DEF t
  <2>2. Carried(c, t)
    BY <1>2, <2>1, CarriedOn
  <2>3. strip_part(c) = t
    BY <1>3, <1>6 DEF t
  <2> QED BY <1>2, <2>1, <2>2, <2>3
<1>7. CASE part.where # "arguments" /\ ~part.interagent
  BY <1>1, <1>2, <1>3, <1>7
<1> QED BY <1>5, <1>6, <1>7

\* The label and payload of a match that starts at i.
PairAt(text, end, i) == <<text[i][2][3], SubSeq(text, i + 1, end[i] - 1)>>

(* The pairs unwrap returns: one for each match, its payload what stands   *)
(* between the sentinels.                                                  *)
LEMMA UnwrapGives ==
    ASSUME NEW S, NEW text, text \in Seq(S), NEW token,
           NEW end, end = [i \in DOMAIN text |-> WrapEnd("IAP", token, text, i)],
           NEW M, M = Matches(text, end)
    PROVE  \A pair : pair \in Seqs!ToSet(unwrap_interagent_payload(text, token)) <=>
              \E m \in DOMAIN text :
                 m \in M /\ pair = PairAt(text, end, m)
<1> DEFINE Pair(i) == PairAt(text, end, i)
           V == {Pair(i) : i \in DOMAIN text}
           pieces == [i \in DOMAIN text |-> IF i \in M THEN <<Pair(i)>> ELSE <<>>]
           out == unwrap_interagent_payload(text, token)
<1>1. DOMAIN text = 1 .. Len(text) /\ Len(text) \in Nat
  BY TextPositions
<1>2. out = Seqs!FlattenSeq(pieces)
  BY DEF unwrap_interagent_payload, PairAt
<1>3. \A i \in DOMAIN text : Pair(i) \in V
  OBVIOUS
<1>4. DOMAIN pieces = 1 .. Len(text)
        /\ \A i \in 1 .. Len(text) : pieces[i] = IF i \in M THEN <<Pair(i)>> ELSE <<>>
  BY <1>1
<1> HIDE DEF Pair, V, pieces, out
<1>5. pieces \in Seq(Seq(V)) /\ Len(pieces) = Len(text)
  <2>1. ASSUME NEW i \in 1 .. Len(text) PROVE pieces[i] \in Seq(V)
    <3>1. Pair(i) \in V
      BY <1>1, <1>3
    <3>2. <<Pair(i)>> \in Seq(V) /\ <<>> \in Seq(V)
      BY <3>1
    <3> QED BY <1>4, <3>2
  <2>2. pieces = [i \in 1 .. Len(text) |-> pieces[i]]
    BY <1>1, <1>4 DEF pieces
  <2> QED BY <1>1, <2>1, <2>2
<1>6. PICK src, off : From(out, pieces, Len(text), src, off)
  BY <1>2, <1>5, FlattenFrom
<1>7. \A x : DOMAIN <<x>> = {1} /\ <<x>>[1] = x
  OBVIOUS
<1>8. ASSUME NEW q \in DOMAIN out
      PROVE  \E m \in DOMAIN text : m \in M /\ out[q] = Pair(m)
  <2>1. PICK m \in 1 .. Len(text) : m = src[q]
    BY <1>6 DEF From
  <2>2. off[q] \in DOMAIN pieces[m] /\ out[q] = pieces[m][off[q]]
    BY <1>6, <2>1 DEF From
  <2>3. m \in M
    <3>1. DOMAIN <<>> = {}
      OBVIOUS
    <3> QED BY <1>4, <2>2, <3>1
  <2>4. out[q] = Pair(m)
    BY <1>4, <1>7, <2>2, <2>3
  <2> QED BY <1>1, <2>3, <2>4
<1>9. ASSUME NEW m \in DOMAIN text, m \in M PROVE \E q \in DOMAIN out : out[q] = Pair(m)
  <2>1. m \in 1 .. Len(text) /\ pieces[m] = <<Pair(m)>>
    BY <1>1, <1>4, <1>9
  <2>2. 1 \in DOMAIN pieces[m] /\ pieces[m][1] = Pair(m)
    BY <1>7, <2>1
  <2>3. PICK q \in DOMAIN out : src[q] = m /\ off[q] = 1
    BY <1>6, <2>1, <2>2 DEF From
  <2>4. out[q] = pieces[m][1]
    BY <1>6, <2>3 DEF From
  <2> QED BY <2>2, <2>4
<1>10. \A pair : pair \in Seqs!ToSet(out) <=> \E q \in DOMAIN out : out[q] = pair
  BY DEF Seqs!ToSet
<1> QED BY <1>8, <1>9, <1>10 DEF Pair, out

(* InPayload by closed wraps. *)
LEMMA InPayloadIs ==
    ASSUME NEW S, NEW c, c \in Seq(S), NEW j \in DOMAIN c
    PROVE  InPayload(c, j) <=> \E a, b : WrapOf(c, "IAP", Token, a, b) /\ a < j /\ j < b
<1>1. "IAP" \in Families
  BY DEF Families
<1>2. ASSUME InPayload(c, j)
      PROVE  \E a, b : WrapOf(c, "IAP", Token, a, b) /\ a < j /\ j < b
  <2>1. PICK s \in WrapStretches(c, "IAP") : c[s.from][2][2] = Token /\ s.from < j /\ j < s.to
    BY <1>2 DEF InPayload
  <2>2. s.to # NoMatch
    BY <2>1, TextPositions DEF NoMatch
  <2>3. Wrap(c, s.from, s.to) /\ c[s.from][2][1] = "IAP"
    BY <1>1, <2>2, WrapIs
  <2> QED BY <2>1, <2>3 DEF WrapOf
<1>3. ASSUME NEW a, NEW b, WrapOf(c, "IAP", Token, a, b), a < j, j < b
      PROVE  InPayload(c, j)
  <2> DEFINE s == Stretch(a, b, FALSE)
  <2>1. s \in WrapStretches(c, "IAP")
    BY <1>1, <1>3, WrapIs DEF WrapOf
  <2>2. s.from = a /\ s.to = b
    BY DEF Stretch
  <2> HIDE DEF s
  <2> QED BY <1>3, <2>1, <2>2 DEF InPayload, WrapOf
<1> QED BY <1>2, <1>3

(* unwrap recovers what stands in the wraps of its token. *)
LEMMA RecoversPayloads ==
    ASSUME NEW S, NEW c, c \in Seq(S), WrapsNested(c)
    PROVE  Recovered(c) = Payloads(c)
<1> DEFINE end == [i \in DOMAIN c |-> WrapEnd("IAP", Token, c, i)]
           M == Matches(c, end)
           Found == Seqs!ToSet(unwrap_interagent_payload(c, Token))
<1>1. /\ Len(c) \in Nat /\ DOMAIN c = 1 .. Len(c) /\ \A i \in DOMAIN c : i \in Nat
  BY TextPositions
<1>2. ASSUME NEW i \in DOMAIN c
      PROVE  /\ end[i] # NoMatch => WrapOf(c, "IAP", Token, i, end[i])
             /\ \A b : WrapOf(c, "IAP", Token, i, b) => end[i] = b /\ b # NoMatch
  <2>1. end[i] = WrapEnd("IAP", Token, c, i) /\ "IAP" \in Families
    BY DEF Families
  <2> HIDE DEF end
  <2>2. end[i] # NoMatch => WrapOf(c, "IAP", Token, i, end[i])
    BY <2>1, WrapEndIs DEF WrapOf
  <2>3. \A b : WrapOf(c, "IAP", Token, i, b) => end[i] = b /\ b # NoMatch
    BY <2>1, WrapEndIs DEF WrapOf
  <2> QED BY <2>2, <2>3
<1>3. ASSUME NEW i \in DOMAIN c, end[i] # NoMatch
      PROVE  end[i] \in DOMAIN c /\ end[i] \in Nat /\ i < end[i] /\ i <= end[i]
  <2> HIDE DEF end
  <2> QED BY <1>1, <1>2, <1>3 DEF WrapOf, Wrap
<1>4. Ends(c, end)
  <2> HIDE DEF end
  <2> QED BY <1>3 DEF Ends
<1>5. ScannedTo(end, Len(c), M)
  BY <1>4, MatchesAre
<1>6. \A pair : pair \in Found <=> \E m \in DOMAIN c : m \in M /\ pair = PairAt(c, end, m)
  <2>1. end = [i \in DOMAIN c |-> WrapEnd("IAP", Token, c, i)] /\ M = Matches(c, end)
    OBVIOUS
  <2> HIDE DEF end, M
  <2> QED BY <2>1, UnwrapGives
<1> HIDE DEF end, M, Found
<1>7. ASSUME NEW m \in M PROVE m \in DOMAIN c /\ end[m] # NoMatch
  BY <1>1, <1>5, <1>7 DEF ScannedTo
<1>8. ASSUME NEW m \in M
      PROVE  \A x : x \in Symbols(SubSeq(c, m + 1, end[m] - 1), "payload") <=>
                \E k \in DOMAIN c : m < k /\ k < end[m] /\ Kind(c[k]) = "payload" /\ x = c[k]
  <2>1. m \in Nat /\ end[m] \in Nat /\ m < end[m] /\ end[m] <= Len(c)
    BY <1>1, <1>3, <1>7
  <2> DEFINE e == end[m]
             inner == SubSeq(c, m + 1, e - 1)
  <2> HIDE DEF e
  <2>2. /\ DOMAIN inner = 1 .. e - 1 - m
        /\ \A k \in 1 .. e - 1 - m : m + k \in DOMAIN c /\ inner[k] = c[m + k]
    BY <1>1, <2>1 DEF e
  <2> HIDE DEF inner
  <2>3. \A x : x \in Symbols(inner, "payload") <=>
           \E k \in DOMAIN inner : Kind(inner[k]) = "payload" /\ x = inner[k]
    BY DEF Symbols, Positions
  <2>4. ASSUME NEW k \in DOMAIN inner
        PROVE  \E l \in DOMAIN c : m < l /\ l < e /\ inner[k] = c[l]
    <3>1. k \in 1 .. e - 1 - m /\ m + k \in DOMAIN c /\ inner[k] = c[m + k]
      BY <2>2
    <3>2. m < m + k /\ m + k < e
      BY <2>1, <3>1 DEF e
    <3> QED BY <3>1, <3>2
  <2>5. ASSUME NEW l \in DOMAIN c, m < l, l < e
        PROVE  \E k \in DOMAIN inner : inner[k] = c[l]
    <3>1. l - m \in 1 .. e - 1 - m /\ m + (l - m) = l
      BY <1>1, <2>1, <2>5 DEF e
    <3> QED BY <2>2, <3>1
  <2>6. \A x : x \in Symbols(inner, "payload") <=>
           \E k \in DOMAIN c : m < k /\ k < e /\ Kind(c[k]) = "payload" /\ x = c[k]
    BY <2>3, <2>4, <2>5
  <2> QED BY <2>6 DEF e, inner
<1>9. \A x : x \in Recovered(c) <=>
         \E m \in M : x \in Symbols(SubSeq(c, m + 1, end[m] - 1), "payload")
  <2>1. \A x : x \in Recovered(c) <=> \E pair \in Found : x \in Symbols(pair[2], "payload")
    BY DEF Recovered, Found
  <2>2. \A m : PairAt(c, end, m)[2] = SubSeq(c, m + 1, end[m] - 1)
    BY DEF PairAt
  <2>3. ASSUME NEW x, x \in Recovered(c)
        PROVE  \E m \in M : x \in Symbols(SubSeq(c, m + 1, end[m] - 1), "payload")
    <3>1. PICK pair \in Found : x \in Symbols(pair[2], "payload")
      BY <2>1, <2>3
    <3>2. PICK m \in DOMAIN c : m \in M /\ pair = PairAt(c, end, m)
      BY <1>6
    <3>3. pair[2] = SubSeq(c, m + 1, end[m] - 1)
      BY <2>2, <3>2
    <3> QED BY <3>1, <3>2, <3>3
  <2>4. ASSUME NEW x, NEW m \in M, x \in Symbols(SubSeq(c, m + 1, end[m] - 1), "payload")
        PROVE  x \in Recovered(c)
    <3>1. PICK pair : pair = PairAt(c, end, m)
      OBVIOUS
    <3>2. pair \in Found
      BY <1>6, <1>7, <3>1
    <3>3. pair[2] = SubSeq(c, m + 1, end[m] - 1)
      BY <2>2, <3>1
    <3>4. x \in Symbols(pair[2], "payload")
      BY <2>4, <3>3
    <3> QED BY <2>1, <3>2, <3>4
  <2> QED BY <2>3, <2>4
<1>10. \A x : x \in Payloads(c) <=>
         \E k \in DOMAIN c : Kind(c[k]) = "payload" /\ InPayload(c, k) /\ x = c[k]
  BY DEF Payloads, Positions
<1>11. ASSUME NEW m \in M, NEW k \in DOMAIN c, m < k, k < end[m] PROVE InPayload(c, k)
  BY <1>2, <1>7, <1>11, InPayloadIs
<1>12. ASSUME NEW k \in DOMAIN c, InPayload(c, k) PROVE \E m \in M : m < k /\ k < end[m]
  <2>1. PICK a, b : WrapOf(c, "IAP", Token, a, b) /\ a < k /\ k < b
    BY <1>12, InPayloadIs
  <2>2. a \in DOMAIN c /\ b \in DOMAIN c /\ a \in Nat /\ b \in Nat /\ k \in Nat
    BY <1>1, <2>1 DEF WrapOf, Wrap
  <2>3. end[a] = b /\ b # NoMatch
    BY <1>2, <2>1, <2>2
  <2>4. PICK m \in M : m <= a /\ a <= end[m]
    BY <1>1, <1>5, <2>2, <2>3 DEF ScannedTo, InMatch
  <2>5. WrapOf(c, "IAP", Token, m, end[m]) /\ m \in Nat /\ end[m] \in Nat
    BY <1>1, <1>2, <1>3, <1>7
  <2>6. end[m] < a \/ b < m \/ (m <= a /\ b <= end[m]) \/ (a <= m /\ end[m] <= b)
    BY <2>1, <2>5 DEF WrapsNested, WrapOf
  <2>7. CASE m = a
    BY <2>1, <2>3, <2>7
  <2>8. CASE m < a
    BY <2>1, <2>2, <2>4, <2>5, <2>6, <2>8, SentinelKinds
  <2> QED BY <2>2, <2>4, <2>5, <2>7, <2>8
<1>13. ASSUME NEW x, x \in Recovered(c) PROVE x \in Payloads(c)
  <2>1. PICK m \in M : x \in Symbols(SubSeq(c, m + 1, end[m] - 1), "payload")
    BY <1>9, <1>13
  <2>2. PICK k \in DOMAIN c : m < k /\ k < end[m] /\ Kind(c[k]) = "payload" /\ x = c[k]
    BY <1>8, <2>1
  <2>3. InPayload(c, k)
    BY <1>11, <2>2
  <2> QED BY <1>10, <2>2, <2>3
<1>14. ASSUME NEW x, x \in Payloads(c) PROVE x \in Recovered(c)
  <2>1. PICK k \in DOMAIN c : Kind(c[k]) = "payload" /\ InPayload(c, k) /\ x = c[k]
    BY <1>10, <1>14
  <2>2. PICK m \in M : m < k /\ k < end[m]
    BY <1>12, <2>1
  <2>3. x \in Symbols(SubSeq(c, m + 1, end[m] - 1), "payload")
    BY <1>8, <2>1, <2>2
  <2> QED BY <1>9, <2>3
<1> QED BY <1>13, <1>14

(* What masking makes of a string is a text. *)
LEMMA PartIsText ==
    ASSUME NEW S, NEW text, text \in Seq(S), NEW entities, IsMasking(entities), NEW exempt,
           NEW raised
    PROVE  \E R : mask_part(text, entities, exempt, raised) \in Seq(R)
<1>1. CASE IsJson /\ ParsesAsJson(text)
  <2> DEFINE masked == mask_json_value(text, entities, exempt, raised)
  <2>1. mask_part(text, entities, exempt, raised) = json_dumps(text, masked)
    BY <1>1 DEF mask_part, mask_json_encoded_string
  <2>2. PICK V : masked \in [DOMAIN json_loads(text) -> Seq(V)]
    BY MaskedStretches
  <2> HIDE DEF masked
  <2>3. json_dumps(text, masked) \in Seq(S \cup V \cup {Escaped(s) : s \in V})
    BY <2>2, DumpedFrom
  <2> QED BY <2>1, <2>3
<1>2. CASE ~(IsJson /\ ParsesAsJson(text))
  BY <1>2, MaskTextIsText DEF mask_part, mask_json_encoded_string
<1> QED BY <1>1, <1>2

-----------------------------------------------------------------------------
(* The resolution of documents.                                            *)

(* The places of what stands between two symbols put around it.            *)
LEMMA WrappedPlaces ==
    ASSUME NEW V, NEW o \in V, NEW c \in V, NEW d \in Seq(V), NEW n, n = Len(d),
           NEW w, w = <<o>> \o d \o <<c>>
    PROVE  /\ n \in Nat /\ DOMAIN w = 1 .. n + 2
           /\ w[1] = o /\ w[n + 2] = c
           /\ \A k \in 2 .. n + 1 : k - 1 \in DOMAIN d /\ w[k] = d[k - 1]
<1> DEFINE a == <<o>>
           l == a \o d
           b == <<c>>
<1>1. a \in Seq(V) /\ Len(a) = 1 /\ a[1] = o /\ b \in Seq(V) /\ Len(b) = 1 /\ b[1] = c
  OBVIOUS
<1>2. n \in Nat /\ DOMAIN d = 1 .. n
  OBVIOUS
<1>3. w = l \o b
  OBVIOUS
<1> HIDE DEF a, b
<1>4. /\ l \in Seq(V) /\ Len(l) = n + 1 /\ l[1] = o
      /\ \A k \in 1 .. n : l[1 + k] = d[k]
  <2>1. /\ l \in Seq(V) /\ DOMAIN l = 1 .. Len(a) + Len(d)
        /\ \A q \in 1 .. Len(a) : l[q] = a[q]
        /\ \A q \in 1 .. Len(d) : l[Len(a) + q] = d[q]
    <3>1. a \in Seq(V) /\ d \in Seq(V)
      BY <1>1
    <3> QED BY ONLY <3>1, Concatenation
  <2> HIDE DEF l
  <2>2. Len(l) = n + 1
    BY <1>1, <1>2, <2>1
  <2>3. l[1] = o
    BY <1>1, <2>1
  <2>4. \A k \in 1 .. n : l[1 + k] = d[k]
    BY <1>1, <2>1
  <2> QED BY <2>1, <2>2, <2>3, <2>4
<1> HIDE DEF l
<1>5. /\ DOMAIN w = 1 .. n + 2 /\ w[n + 2] = c
      /\ \A k \in 1 .. n + 1 : w[k] = l[k]
  <2>1. /\ DOMAIN w = 1 .. Len(l) + Len(b)
        /\ \A q \in 1 .. Len(l) : w[q] = l[q]
        /\ \A q \in 1 .. Len(b) : w[Len(l) + q] = b[q]
    BY <1>1, <1>3, <1>4, Concatenation
  <2>2. (n + 1) + 1 = n + 2
    BY <1>2
  <2>3. w[n + 2] = c
    BY <1>1, <1>4, <2>1, <2>2
  <2> QED BY <1>1, <1>2, <1>4, <2>1, <2>2, <2>3
<1>6. \A k \in 2 .. n + 1 : k - 1 \in DOMAIN d /\ w[k] = d[k - 1]
  <2> SUFFICES ASSUME NEW k \in 2 .. n + 1 PROVE k - 1 \in DOMAIN d /\ w[k] = d[k - 1]
    OBVIOUS
  <2>1. PICK j \in 1 .. n : k = 1 + j /\ k - 1 = j
    BY <1>2
  <2> QED BY <1>2, <1>4, <1>5, <2>1
<1> QED BY <1>2, <1>4, <1>5, <1>6

(* A document between its sentinels, none of which is in it.               *)
Document(piece, token, n) ==
    /\ n \in Nat /\ DOMAIN piece = 1 .. n + 2
    /\ Kind(piece[1]) = "open" /\ piece[1][2][1] = "DOC" /\ piece[1][2][2] = token
    /\ piece[n + 2] = CloseOf(piece[1])
    /\ \A k \in 2 .. n + 1 : ~DocSentinel(piece[k])

\* A reference that stays, or a refusal.
NoSentinels(piece) ==
    \A k \in DOMAIN piece : Kind(piece[k]) \in {"reference", "refusal"}

(* Of those two kinds is what a reference is replaced with.                *)
LEMMA ReplacementIs ==
    ASSUME NEW s, IsReference(s), NEW user, NEW token, PlainDocuments
    PROVE  \/ NoSentinels(ResolveSymbol(s, user, token))
           \/ \E n : Document(ResolveSymbol(s, user, token), token, n)
<1> DEFINE piece == ResolveSymbol(s, user, token)
<1>1. CASE s[2] \notin DOMAIN registry
  <2>1. piece = <<s>>
    BY <1>1 DEF ResolveSymbol
  <2>2. NoSentinels(piece)
    BY <2>1 DEF NoSentinels, IsReference
  <2> QED BY <2>2
<1>2. CASE s[2] \in DOMAIN registry
  <2>1. PICK d \in DOMAIN registry : d = s[2]
    BY <1>2
  <2>2. CASE ~is_authorized(d, user)
    <3>1. piece = <<Refusal(d)>>
      BY <2>1, <2>2 DEF ResolveSymbol, IsReference
    <3>2. NoSentinels(piece)
      BY <3>1 DEF NoSentinels, Refusal, Kind
    <3> QED BY <3>2
  <2>3. CASE is_authorized(d, user)
    <3> DEFINE o == Open("DOC", token, d)
               c == Close("DOC", token, d)
               t == DocumentText[d]
               n == Len(t)
    <3>1. piece = <<o>> \o t \o <<c>>
      BY <2>1, <2>3 DEF ResolveSymbol, IsReference
    <3>2. PICK V : o \in V /\ c \in V /\ t \in Seq(V)
      <4> DEFINE V == {t[i] : i \in DOMAIN t} \cup {o, c}
      <4>1. o \in V /\ c \in V /\ \A i \in DOMAIN t : t[i] \in V
        OBVIOUS
      <4>2. t \in Seq({t[i] : i \in DOMAIN t})
        BY DocumentsAssumption DEF IsText
      <4> HIDE DEF V, t
      <4>3. t \in Seq(V)
        BY <4>1, <4>2
      <4> QED BY <4>1, <4>3
    <3>3. /\ Kind(o) = "open" /\ o[2][1] = "DOC" /\ o[2][2] = token /\ c = CloseOf(o)
      BY DEF Open, Close, CloseOf, Kind
    <3>4. \A k \in DOMAIN t : ~DocSentinel(t[k])
      BY DEF PlainDocuments
    <3> HIDE DEF o, c, t, n, piece
    <3>5. /\ n \in Nat /\ DOMAIN piece = 1 .. n + 2 /\ piece[1] = o /\ piece[n + 2] = c
          /\ \A k \in 2 .. n + 1 : k - 1 \in DOMAIN t /\ piece[k] = t[k - 1]
      BY <3>1, <3>2, WrappedPlaces DEF n
    <3>6. Document(piece, token, n)
      BY <3>3, <3>4, <3>5 DEF Document
    <3> QED BY <3>6 DEF piece
  <2> QED BY <2>2, <2>3
<1> QED BY <1>1, <1>2

(* t is text resolved: those in M are replaced, and src and off say which  *)
(* symbol of the text one of t comes from, and where it is in what that    *)
(* was replaced with.                                                      *)
Resolution(text, M, by, t, src, off) ==
    /\ \A q \in DOMAIN t :
          /\ q \in Nat /\ src[q] \in DOMAIN text /\ src[q] \in Nat /\ off[q] \in Nat
          /\ src[q] \in M => off[q] \in DOMAIN by[src[q]] /\ t[q] = by[src[q]][off[q]]
          /\ src[q] \notin M => off[q] = 1 /\ t[q] = text[src[q]]
    /\ \A q, r \in DOMAIN t :
          q < r <=> src[q] < src[r] \/ (src[q] = src[r] /\ off[q] < off[r])
    /\ \A i \in DOMAIN text : ~IsReference(text[i]) =>
          \E q \in DOMAIN t : src[q] = i /\ i \notin M /\ t[q] = text[i]
    /\ \A i \in M :
          /\ NoSentinels(by[i]) \/ \E n : Document(by[i], Token, n)
          /\ \A k \in DOMAIN by[i] : \E q \in DOMAIN t : src[q] = i /\ off[q] = k

(* That is what ResolveReferences makes of it. *)
LEMMA ResolvedAs ==
    ASSUME NEW text, IsText(text), WellSpelt(text), NEW user, PlainDocuments
    PROVE  LET t == ResolveReferences(text, user, Token)
           IN  /\ \E S : text \in Seq(S) /\ t \in Seq(S)
               /\ \E M, by, src, off : Resolution(text, M, by, t, src, off)
<1> DEFINE end == [i \in DOMAIN text |-> IF IsReference(text[i]) THEN i ELSE NoMatch]
           by == [i \in DOMAIN text |-> ResolveSymbol(text[i], user, Token)]
           M == Matches(text, end)
           t == ResolveReferences(text, user, Token)
<1>1. PICK V : text \in Seq(V) /\ by \in [DOMAIN text -> Seq(V)]
  BY ReplacementTexts
<1>2. DOMAIN text = 1 .. Len(text) /\ \A i \in DOMAIN text : i \in Nat /\ i # NoMatch
  BY <1>1 DEF NoMatch
<1>3. Ends(text, end)
  BY <1>2 DEF Ends
<1>4. ScannedTo(end, Len(text), M)
  BY <1>1, <1>3, MatchesAre
<1>5. \A i \in M : i \in DOMAIN text /\ IsReference(text[i]) /\ end[i] = i
  BY <1>2, <1>4 DEF ScannedTo
<1>6. \A i \in DOMAIN text : by[i] = ResolveSymbol(text[i], user, Token)
  BY <1>2
<1>7. t = Sub(text, end, by)
  BY DEF ResolveReferences
<1> HIDE DEF M, t, end, by
<1>8. t \in Seq(V) /\ \E src, off : Substituted(text, end, M, by, t, src, off)
  <2>1. M \in SUBSET DOMAIN text
    BY <1>5
  <2> QED BY <1>1, <1>7, <2>1, SubFrom DEF M
<1>9. PICK src, off : Substituted(text, end, M, by, t, src, off)
  BY <1>8
<1>10. \A q \in DOMAIN t :
          /\ q \in Nat /\ src[q] \in DOMAIN text /\ src[q] \in Nat /\ off[q] \in Nat
          /\ src[q] \in M => off[q] \in DOMAIN by[src[q]] /\ t[q] = by[src[q]][off[q]]
          /\ src[q] \notin M => off[q] = 1 /\ t[q] = text[src[q]]
  BY <1>2, <1>8, <1>9 DEF Substituted
<1>11. \A q, r \in DOMAIN t : q < r => src[q] < src[r] \/ (src[q] = src[r] /\ off[q] < off[r])
  BY <1>9 DEF Substituted
<1>12. \A q, r \in DOMAIN t : src[q] < src[r] \/ (src[q] = src[r] /\ off[q] < off[r]) => q < r
  <2> SUFFICES ASSUME NEW q \in DOMAIN t, NEW r \in DOMAIN t,
                      src[q] < src[r] \/ (src[q] = src[r] /\ off[q] < off[r])
               PROVE  q < r
    OBVIOUS
  <2>1. q # r
    BY <1>10
  <2>2. ~(r < q)
    BY <1>10, <1>11
  <2> QED BY <1>10, <2>1, <2>2
<1>13. ASSUME NEW i \in DOMAIN text, ~IsReference(text[i])
       PROVE  \E q \in DOMAIN t : src[q] = i /\ i \notin M /\ t[q] = text[i]
  <2>1. i \notin M
    BY <1>5, <1>13
  <2>2. ~InMatch(end, M, i)
    <3> SUFFICES ASSUME NEW m \in M, m <= i, i <= end[m] PROVE FALSE
      BY DEF InMatch
    <3>1. m \in Nat /\ i \in Nat /\ end[m] = m
      BY <1>2, <1>5
    <3> QED BY <3>1, <2>1
  <2>3. PICK q \in DOMAIN t : src[q] = i
    BY <1>9, <2>1, <2>2 DEF Substituted
  <2> QED BY <1>10, <2>1, <2>3
<1>14. \A i \in M : NoSentinels(by[i]) \/ \E n : Document(by[i], Token, n)
  BY <1>5, <1>6, ReplacementIs
<1>15. \A i \in M : \A k \in DOMAIN by[i] : \E q \in DOMAIN t : src[q] = i /\ off[q] = k
  BY <1>9 DEF Substituted
<1>16. Resolution(text, M, by, t, src, off)
  BY <1>10, <1>11, <1>12, <1>13, <1>14, <1>15 DEF Resolution
<1>17. \E N, b, f, g : Resolution(text, N, b, t, f, g)
  BY <1>16
<1> QED BY <1>1, <1>8, <1>17 DEF t

(* A document is in it between its sentinels. *)
LEMMA DocumentStands ==
    ASSUME NEW text, NEW M, NEW by, NEW t, NEW src, NEW off,
           Resolution(text, M, by, t, src, off), NEW i \in M, NEW n, Document(by[i], Token, n)
    PROVE  \E p, e \in DOMAIN t :
              /\ src[p] = i /\ off[p] = 1 /\ src[e] = i /\ off[e] = n + 2
              /\ Wrap(t, p, e) /\ OwnSentinel(t[p])
<1>1. /\ n \in Nat /\ DOMAIN by[i] = 1 .. n + 2
      /\ Kind(by[i][1]) = "open" /\ by[i][1][2][1] = "DOC" /\ by[i][1][2][2] = Token
      /\ by[i][n + 2] = CloseOf(by[i][1])
      /\ \A k \in 2 .. n + 1 : ~DocSentinel(by[i][k])
  BY DEF Document
<1>2. 1 \in DOMAIN by[i] /\ n + 2 \in DOMAIN by[i]
  BY <1>1
<1>3. PICK p \in DOMAIN t : src[p] = i /\ off[p] = 1
  BY <1>2 DEF Resolution
<1>4. PICK e \in DOMAIN t : src[e] = i /\ off[e] = n + 2
  BY <1>2 DEF Resolution
<1>5. t[p] = by[i][1] /\ t[e] = by[i][n + 2]
  BY <1>3, <1>4 DEF Resolution
<1>6. p < e
  BY <1>1, <1>3, <1>4 DEF Resolution
<1>7. ASSUME NEW k \in DOMAIN t, p < k, k < e PROVE t[k] # CloseOf(t[p])
  <2>1. /\ src[k] \in Nat /\ off[k] \in Nat /\ i \in Nat
        /\ src[p] < src[k] \/ (src[p] = src[k] /\ off[p] < off[k])
        /\ src[k] < src[e] \/ (src[k] = src[e] /\ off[k] < off[e])
    BY <1>3, <1>7 DEF Resolution
  <2>2. src[k] = i /\ 1 < off[k] /\ off[k] < n + 2
    BY <1>1, <1>3, <1>4, <2>1
  <2>3. t[k] = by[i][off[k]] /\ off[k] \in 2 .. n + 1
    <3>1. t[k] = by[i][off[k]]
      BY <2>2 DEF Resolution
    <3>2. off[k] \in 2 .. n + 1
      BY ONLY <1>1, <2>1, <2>2
    <3> QED BY <3>1, <3>2
  <2>4. DocSentinel(CloseOf(t[p]))
    BY <1>1, <1>5 DEF CloseOf, Close, DocSentinel, IsSentinel, Kind
  <2> QED BY <1>1, <2>3, <2>4
<1>8. Wrap(t, p, e) /\ OwnSentinel(t[p])
  BY <1>1, <1>5, <1>6, <1>7 DEF Wrap, Families, OwnSentinel, DocSentinel, IsSentinel
<1> QED BY <1>3, <1>4, <1>8

(* The sentinels that came with a document are its own two, and those of   *)
(* earlier requests are where they were.                                   *)
LEMMA ResolvedSentinels ==
    ASSUME NEW text, NEW M, NEW by, NEW t, NEW src, NEW off,
           Resolution(text, M, by, t, src, off), NEW q \in DOMAIN t, DocSentinel(t[q])
    PROVE  IF src[q] \in M
           THEN \E n : Document(by[src[q]], Token, n) /\ (off[q] = 1 \/ off[q] = n + 2)
                       /\ OwnSentinel(t[q])
           ELSE t[q] = text[src[q]]
<1>1. CASE src[q] \notin M
  BY <1>1 DEF Resolution
<1>2. CASE src[q] \in M
  <2>1. PICK i \in M : i = src[q]
    BY <1>2
  <2>2. off[q] \in DOMAIN by[i] /\ t[q] = by[i][off[q]]
    BY <2>1 DEF Resolution
  <2>3. ~NoSentinels(by[i])
    BY <2>2 DEF NoSentinels, DocSentinel, IsSentinel
  <2>4. PICK n : Document(by[i], Token, n)
    BY <2>3 DEF Resolution
  <2>5. /\ n \in Nat /\ DOMAIN by[i] = 1 .. n + 2
        /\ by[i][1][2][2] = Token /\ by[i][n + 2] = CloseOf(by[i][1])
        /\ \A k \in 2 .. n + 1 : ~DocSentinel(by[i][k])
    BY <2>4 DEF Document
  <2>6. off[q] = 1 \/ off[q] = n + 2
    BY <2>2, <2>5
  <2>7. t[q][2][2] = Token
    BY <2>2, <2>5, <2>6 DEF CloseOf, Close
  <2> QED BY <2>1, <2>4, <2>6, <2>7 DEF OwnSentinel
<1> QED BY <1>1, <1>2

(* So all of this request's stand in pairs. *)
LEMMA ResolvedPaired ==
    ASSUME NEW text, NEW M, NEW by, NEW t, NEW src, NEW off,
           Resolution(text, M, by, t, src, off),
           \A i \in DOMAIN text : ~OwnSentinel(text[i])
    PROVE  OwnPaired(t)
<1> SUFFICES ASSUME NEW j \in DOMAIN t, OwnSentinel(t[j])
             PROVE  \E p, e : Wrap(t, p, e) /\ OwnSentinel(t[p]) /\ (j = p \/ j = e)
  BY DEF OwnPaired
<1>1. src[j] \in DOMAIN text /\ DocSentinel(t[j])
  BY DEF Resolution, OwnSentinel
<1>2. src[j] \in M
  BY <1>1, ResolvedSentinels
<1>3. PICK i \in M : i = src[j]
  BY <1>2
<1>4. PICK n : Document(by[i], Token, n) /\ (off[j] = 1 \/ off[j] = n + 2)
  BY <1>1, <1>3, ResolvedSentinels
<1>5. PICK p, e \in DOMAIN t :
         /\ src[p] = i /\ off[p] = 1 /\ src[e] = i /\ off[e] = n + 2
         /\ Wrap(t, p, e) /\ OwnSentinel(t[p])
  BY <1>4, DocumentStands
<1>6. ASSUME NEW r \in DOMAIN t, src[r] = src[j], off[r] = off[j] PROVE r = j
  <2>1. /\ r \in Nat /\ j \in Nat /\ src[j] \in Nat /\ off[j] \in Nat
        /\ r < j <=> src[r] < src[j] \/ (src[r] = src[j] /\ off[r] < off[j])
        /\ j < r <=> src[j] < src[r] \/ (src[j] = src[r] /\ off[j] < off[r])
    BY DEF Resolution
  <2> QED BY <1>6, <2>1
<1> QED BY <1>3, <1>4, <1>5, <1>6

(* And none of an earlier one has come to stand in an earlier one's wrap.  *)
LEMMA ResolvedApart ==
    ASSUME NEW text, NEW M, NEW by, NEW t, NEW src, NEW off,
           Resolution(text, M, by, t, src, off), EchoesApart(text)
    PROVE  EchoesApart(t)
<1> SUFFICES ASSUME NEW p, NEW e, NEW j, Wrap(t, p, e), t[p][2][1] = "DOC",
                    ~OwnSentinel(t[p]), j \in DOMAIN t, p < j, j < e, DocSentinel(t[j]),
                    ~OwnSentinel(t[j])
             PROVE  FALSE
  BY DEF EchoesApart
<1>1. /\ p \in DOMAIN t /\ e \in DOMAIN t /\ Kind(t[p]) = "open" /\ t[e] = CloseOf(t[p])
      /\ \A k \in DOMAIN t : p < k /\ k < e => t[k] # CloseOf(t[p])
  BY DEF Wrap
<1>2. DocSentinel(t[p]) /\ DocSentinel(t[e]) /\ ~OwnSentinel(t[e])
  BY <1>1 DEF DocSentinel, OwnSentinel, IsSentinel, CloseOf, Close, Kind
<1>3. ASSUME NEW q \in {p, j, e}
      PROVE  /\ q \in DOMAIN t /\ src[q] \in DOMAIN text /\ src[q] \in Nat /\ src[q] \notin M
             /\ t[q] = text[src[q]] /\ off[q] = 1
  <2>1. q \in DOMAIN t /\ DocSentinel(t[q]) /\ ~OwnSentinel(t[q])
    BY <1>1, <1>2
  <2>2. src[q] \notin M
    BY <2>1, ResolvedSentinels
  <2> QED BY <2>1, <2>2 DEF Resolution
<1>4. src[p] < src[j] /\ src[j] < src[e]
  <2>1. \A q, r \in DOMAIN t :
           q < r => src[q] < src[r] \/ (src[q] = src[r] /\ off[q] < off[r])
    BY DEF Resolution
  <2> QED BY <1>3, <2>1
<1>5. PICK a \in DOMAIN text : a = src[p] /\ a \in Nat
  BY <1>3
<1>6. PICK b \in DOMAIN text : b = src[e] /\ b \in Nat
  BY <1>3
<1>7. text[a] = t[p] /\ text[b] = t[e] /\ off[p] = 1 /\ off[e] = 1
  BY <1>3, <1>5, <1>6
<1>8. ASSUME NEW k \in DOMAIN text, a < k, k < b PROVE text[k] # CloseOf(text[a])
  <2> SUFFICES ASSUME text[k] = CloseOf(text[a]) PROVE FALSE
    OBVIOUS
  <2>1. ~IsReference(text[k])
    BY DEF IsReference, CloseOf, Close, Kind
  <2>2. PICK q \in DOMAIN t : src[q] = k /\ t[q] = text[k]
    BY <2>1 DEF Resolution
  <2>3. p < q /\ q < e
    BY <1>1, <1>5, <1>6, <1>8, <2>2 DEF Resolution
  <2> QED BY <1>1, <1>7, <2>2, <2>3
<1>9. Wrap(text, a, b)
  <2>1. a < b
    BY <1>3, <1>4, <1>5, <1>6
  <2> QED BY <1>1, <1>7, <1>8, <2>1 DEF Wrap, Families
<1>10. PICK x \in DOMAIN text : x = src[j] /\ text[x] = t[j]
  BY <1>3
<1> QED BY <1>4, <1>5, <1>6, <1>7, <1>9, <1>10 DEF EchoesApart

\* Every body stands in the wrap of a document of an earlier request.
BodiesEchoed(text) ==
    \A j \in DOMAIN text : Kind(text[j]) = "body" =>
       \E a, b : /\ Wrap(text, a, b) /\ a < j /\ j < b
                 /\ text[a][2][1] = "DOC" /\ text[a][2][2] # Token

(* Resolved, it still does, and the others stand in the wraps they came    *)
(* with.                                                                   *)
LEMMA BodiesResolved ==
    ASSUME NEW text, IsText(text), WellSpelt(text), NEW user,
           BodiesEchoed(text), PlainDocuments
    PROVE  BodiesWrapped(ResolveReferences(text, user, Token))
<1> DEFINE t == ResolveReferences(text, user, Token)
<1>1. /\ \E S : text \in Seq(S) /\ t \in Seq(S)
      /\ \E M, by, src, off : Resolution(text, M, by, t, src, off)
  BY ResolvedAs
<1>2. PICK M, by, src, off : Resolution(text, M, by, t, src, off)
  BY <1>1
<1>3. PICK S : text \in Seq(S) /\ t \in Seq(S)
  BY <1>1
<1> HIDE DEF t
<1> SUFFICES ASSUME NEW q \in DOMAIN t, Kind(t[q]) = "body"
             PROVE  InWrap(t, "DOC", q)
  BY DEF BodiesWrapped, Positions, t
<1>4. "DOC" \in Families
  BY DEF Families
<1>5. SUFFICES \E p, e : Wrap(t, p, e) /\ t[p][2][1] = "DOC" /\ p < q /\ q < e
  BY <1>3, <1>4, InWrapIs
<1>6. \A r \in DOMAIN t :
         /\ r \in Nat /\ src[r] \in DOMAIN text /\ src[r] \in Nat /\ off[r] \in Nat
         /\ src[r] \in M => off[r] \in DOMAIN by[src[r]] /\ t[r] = by[src[r]][off[r]]
         /\ src[r] \notin M => off[r] = 1 /\ t[r] = text[src[r]]
  BY <1>2 DEF Resolution
<1>7. \A r, s \in DOMAIN t : r < s <=> src[r] < src[s] \/ (src[r] = src[s] /\ off[r] < off[s])
  BY <1>2 DEF Resolution
<1>8. CASE src[q] \in M
  <2>1. PICK i \in M : i = src[q]
    BY <1>8
  <2>2. off[q] \in DOMAIN by[i] /\ t[q] = by[i][off[q]]
    BY <1>6, <2>1
  <2>3. ~NoSentinels(by[i])
    BY <2>2 DEF NoSentinels
  <2>4. PICK n : Document(by[i], Token, n)
    BY <1>2, <2>3 DEF Resolution
  <2>5. PICK p, e \in DOMAIN t :
           /\ src[p] = i /\ off[p] = 1 /\ src[e] = i /\ off[e] = n + 2
           /\ Wrap(t, p, e) /\ OwnSentinel(t[p])
    BY <1>2, <2>4, DocumentStands
  <2>6. /\ n \in Nat /\ DOMAIN by[i] = 1 .. n + 2 /\ Kind(by[i][1]) = "open"
        /\ Kind(by[i][n + 2]) = "close"
    BY <2>4 DEF Document, CloseOf, Close, Kind
  <2>7. 1 < off[q] /\ off[q] < n + 2
    BY <2>2, <2>6
  <2>8. p < q /\ q < e
    BY <1>7, <2>1, <2>5, <2>7
  <2>9. t[p][2][1] = "DOC"
    BY <2>5 DEF OwnSentinel, DocSentinel, IsSentinel
  <2> QED BY <2>5, <2>8, <2>9
<1>9. CASE src[q] \notin M
  <2>1. PICK i \in DOMAIN text : i = src[q] /\ t[q] = text[i] /\ i \in Nat
    BY <1>6, <1>9
  <2>2. PICK a, b : /\ Wrap(text, a, b) /\ a < i /\ i < b
                    /\ text[a][2][1] = "DOC" /\ text[a][2][2] # Token
    BY <2>1 DEF BodiesEchoed
  <2>3. /\ a \in DOMAIN text /\ b \in DOMAIN text /\ a < b
        /\ Kind(text[a]) = "open" /\ text[b] = CloseOf(text[a])
        /\ \A k \in DOMAIN text : a < k /\ k < b => text[k] # CloseOf(text[a])
    BY <2>2 DEF Wrap
  <2>4. Kind(text[b]) = "close" /\ a \in Nat /\ b \in Nat
    BY <1>3, <2>2, <2>3, SentinelKinds, TextPositions
  <2>5. PICK p \in DOMAIN t : src[p] = a /\ a \notin M /\ t[p] = text[a]
    BY <1>2, <2>3 DEF IsReference, Resolution
  <2>6. PICK e \in DOMAIN t : src[e] = b /\ b \notin M /\ t[e] = text[b]
    BY <1>2, <2>3, <2>4 DEF IsReference, Resolution
  <2>7. p < q /\ q < e /\ p < e
    BY <1>7, <2>1, <2>2, <2>3, <2>5, <2>6
  <2>8. ASSUME NEW k \in DOMAIN t, p < k, k < e, t[k] = CloseOf(text[a]) PROVE FALSE
    <3>1. a < src[k] /\ src[k] < b
      <4>1. off[p] = 1 /\ off[e] = 1
        BY <1>6, <2>5, <2>6
      <4>2. /\ a < src[k] \/ (a = src[k] /\ 1 < off[k])
            /\ src[k] < b \/ (src[k] = b /\ off[k] < 1)
        BY <1>7, <2>5, <2>6, <2>8, <4>1
      <4>3. a = src[k] => off[k] = 1
        BY <1>6, <2>5
      <4>4. src[k] = b => off[k] = 1
        BY <1>6, <2>6
      <4> QED BY <1>6, <4>2, <4>3, <4>4
    <3>2. DocSentinel(t[k]) /\ ~OwnSentinel(t[k])
      BY <2>2, <2>8 DEF DocSentinel, OwnSentinel, IsSentinel, CloseOf, Close, Kind
    <3>3. t[k] = text[src[k]] /\ src[k] \in DOMAIN text
      BY <1>2, <1>6, <3>2, ResolvedSentinels
    <3> QED BY <2>3, <2>8, <3>1, <3>3
  <2>9. Wrap(t, p, e) /\ t[p][2][1] = "DOC"
    BY <1>4, <2>2, <2>3, <2>5, <2>6, <2>7, <2>8 DEF Wrap
  <2> QED BY <2>7, <2>9
<1> QED BY <1>8, <1>9

(* The sentinels of a resolved text: this request's in pairs, none of an   *)
(* earlier one in an earlier one's wrap, and those as they came.           *)
LEMMA SentinelsResolved ==
    ASSUME NEW text, IsText(text), WellSpelt(text), NEW user, PlainDocuments,
           \A i \in DOMAIN text : ~OwnSentinel(text[i]), EchoesApart(text)
    PROVE  LET t == ResolveReferences(text, user, Token)
           IN  /\ OwnPaired(t) /\ EchoesApart(t)
               /\ \A q \in DOMAIN t : DocSentinel(t[q]) /\ ~OwnSentinel(t[q]) =>
                     \E i \in DOMAIN text : text[i] = t[q]
<1> DEFINE t == ResolveReferences(text, user, Token)
<1>1. \E M, by, src, off : Resolution(text, M, by, t, src, off)
  BY ResolvedAs
<1>2. PICK M, by, src, off : Resolution(text, M, by, t, src, off)
  BY <1>1
<1> HIDE DEF t
<1>3. OwnPaired(t)
  BY <1>2, ResolvedPaired
<1>4. EchoesApart(t)
  BY <1>2, ResolvedApart
<1>5. ASSUME NEW q \in DOMAIN t, DocSentinel(t[q]), ~OwnSentinel(t[q])
      PROVE  \E i \in DOMAIN text : text[i] = t[q]
  <2>1. t[q] = text[src[q]]
    BY <1>2, <1>5, ResolvedSentinels
  <2>2. src[q] \in DOMAIN text
    BY <1>2 DEF Resolution
  <2> QED BY <2>1, <2>2
<1> QED BY <1>3, <1>4, <1>5 DEF t

(* A smaller set of tags leaves no more to cut.                            *)
LEMMA FewerTags ==
    ASSUME NEW c, NEW tags, NEW fewer, fewer \subseteq tags, TagsSettled(c, tags)
    PROVE  TagsSettled(c, fewer)
<1>1. Passages(c, fewer) \subseteq Passages(c, tags)
  BY DEF Passages
<1> QED BY <1>1 DEF TagsSettled, PassagesClear, Uncrossed

-----------------------------------------------------------------------------
(* The properties.                                                         *)

(* The redaction for the user keeps what a request brings with it. *)
LEMMA FilteredCarries ==
    ASSUME IInv, pc \notin {"policy", "resolve"}, ~IsReply, Laminar(part.content)
    PROVE  /\ Carried(part.content, copy.filtered)
           /\ copy.resolved = resolve_part(copy.filtered)
           /\ part.where # "system" => copy.filtered = part.content
           /\ IsText(copy.filtered) /\ WellSpelt(copy.filtered)
<1>1. /\ part.user \in UserContext /\ IsText(part.content)
      /\ IsText(copy.filtered) /\ WellSpelt(copy.filtered)
  BY DEF IInv, TypeOK
<1>2. PICK S : Redacted \in S /\ Newline \in S /\ part.content \in Seq(S)
  BY <1>1, SymbolsAndMarks
<1>3. copy.filtered = filter_part(part.content) /\ copy.resolved = resolve_part(copy.filtered)
  BY DEF IInv, RequestCopies
<1>4. CASE part.where = "system"
  <2> DEFINE tags == RestrictedTags(part.user)
  <2>1. tags \subseteq most_restrictive_doc_tags /\ Len(ListedTags) \in Nat
    BY <1>1, TagsListed
  <2>2. TagsSettled(part.content, most_restrictive_doc_tags)
    BY <1>2, <1>4, LaminarSettles
  <2>3. copy.filtered = RedactTags(part.content, ListedTags, tags)
    BY <1>3, <1>4 DEF filter_part, RedactForUser, RestrictedTags
  <2> HIDE DEF tags
  <2>4. TagsSettled(part.content, tags)
    BY <2>1, <2>2, FewerTags
  <2>5. Carried(part.content, copy.filtered)
    BY <1>2, <2>1, <2>3, <2>4, TagsSettle
  <2> QED BY <1>1, <1>3, <1>4, <2>5
<1>5. CASE part.where # "system"
  <2>1. copy.filtered = part.content
    BY <1>3, <1>5 DEF filter_part
  <2> QED BY <1>1, <1>3, <2>1, CarriedSelf
<1> QED BY <1>4, <1>5

(* Every body of a resolved copy is in the wrap of its document. *)
LEMMA BodiesArrive ==
    ASSUME IInv
    PROVE  BodiesArriveWrapped
<1> SUFFICES ASSUME pc \notin {"policy", "resolve"}, Laminar(part.content),
                    BodiesWrapped(part.content), TokenIsFresh, PlainDocuments
             PROVE  BodiesWrapped(copy.resolved)
  BY DEF BodiesArriveWrapped, EchoesInOrder
<1>1. PICK S : part.content \in Seq(S)
  BY SymbolsAndMarks DEF IInv, TypeOK
<1>2. CASE IsReply
  BY <1>2 DEF IInv, RequestCopies
<1>3. CASE ~IsReply
  <2>1. /\ Carried(part.content, copy.filtered)
        /\ copy.resolved = resolve_part(copy.filtered)
        /\ part.where # "system" => copy.filtered = part.content
        /\ IsText(copy.filtered) /\ WellSpelt(copy.filtered)
    BY <1>3, FilteredCarries
  <2>2. ASSUME NEW j \in DOMAIN part.content, Kind(part.content[j]) = "body"
        PROVE  \E a, b : /\ Wrap(part.content, a, b) /\ a < j /\ j < b
                         /\ part.content[a][2][1] = "DOC"
                         /\ part.content[a][2][2] # Token
    <3>1. InWrap(part.content, "DOC", j)
      BY <2>2 DEF BodiesWrapped, Positions
    <3>2. PICK a, b : /\ Wrap(part.content, a, b) /\ a < j /\ j < b
                      /\ part.content[a][2][1] = "DOC"
      BY <1>1, <3>1, InWrapIs DEF Families
    <3>3. DocSentinel(part.content[a]) /\ a \in DOMAIN part.content
      BY <3>2 DEF Wrap, DocSentinel, IsSentinel
    <3>4. ~OwnSentinel(part.content[a])
      BY <1>3, <3>3 DEF TokenIsFresh
    <3> QED BY <3>2, <3>3, <3>4 DEF OwnSentinel
  <2>3. ASSUME NEW q \in DOMAIN copy.filtered, Kind(copy.filtered[q]) = "body"
        PROVE  \E p, e : /\ Wrap(copy.filtered, p, e) /\ p < q /\ q < e
                         /\ copy.filtered[p][2][1] = "DOC"
                         /\ copy.filtered[p][2][2] # Token
    <3>1. PICK i \in DOMAIN part.content :
             /\ part.content[i] = copy.filtered[q]
             /\ \A a, b : Wrap(part.content, a, b) /\ a < i /\ i < b =>
                   \E p, e : /\ Wrap(copy.filtered, p, e) /\ p < q /\ q < e
                             /\ copy.filtered[p] = part.content[a]
      BY <2>1, <2>3 DEF Carried, BodiesCarried
    <3>2. PICK a, b : /\ Wrap(part.content, a, b) /\ a < i /\ i < b
                      /\ part.content[a][2][1] = "DOC" /\ part.content[a][2][2] # Token
      BY <2>2, <2>3, <3>1
    <3> QED BY <3>1, <3>2
  <2>4. BodiesEchoed(copy.filtered)
    BY <2>3 DEF BodiesEchoed
  <2>5. CASE part.where = "arguments"
    BY <2>1, <2>5 DEF resolve_part
  <2>6. CASE part.where # "arguments"
    <3>1. copy.resolved = ResolveReferences(copy.filtered, part.user, Token)
      BY <2>1, <2>6 DEF resolve_part
    <3> QED BY <2>1, <2>4, <3>1, BodiesResolved
  <2> QED BY <2>5, <2>6
<1> QED BY <1>2, <1>3

(* The copies a string has when it is persisted. *)
LEMMA CopiesOfRecord ==
    ASSUME IInv, pc \in {"log", "logged"}, Laminar(copy.resolved)
    PROVE  /\ copy.stripped = strip_part(copy.redacted)
           /\ copy.persisted = mask_part(copy.stripped, PERSISTED_VIEW_ENTITIES, {}, boosted)
           /\ pc = "logged" => copy.record = langfuse_mask(copy.persisted)
           /\ \E S : copy.resolved \in Seq(S)
           /\ \E S : copy.redacted \in Seq(S)
           /\ \E S : copy.stripped \in Seq(S)
           /\ Settled(copy.resolved)
           /\ Settled(copy.redacted) /\ Carried(copy.resolved, copy.redacted)
           /\ Settled(copy.stripped) /\ Carried(copy.resolved, copy.stripped)
<1>1. /\ copy.redacted = redact_part(copy.resolved)
      /\ copy.stripped = strip_part(copy.redacted)
      /\ copy.persisted = mask_part(copy.stripped, PERSISTED_VIEW_ENTITIES, {}, boosted)
      /\ pc = "logged" => copy.record = langfuse_mask(copy.persisted)
  BY DEF IInv, RecordedCopies
<1>2. part.user \in UserContext /\ IsText(copy.resolved)
  BY DEF IInv, TypeOK
<1>3. PICK S : copy.resolved \in Seq(S)
  BY CopiesAreTexts
<1>4. Settled(copy.resolved)
  BY <1>3, LaminarSettles
<1>5. /\ \E R : copy.redacted \in Seq(R)
      /\ Settled(copy.redacted) /\ Carried(copy.resolved, copy.redacted)
  BY <1>1, <1>2, RedactSettles
<1>6. /\ \E R : copy.stripped \in Seq(R)
      /\ Settled(copy.stripped) /\ Carried(copy.redacted, copy.stripped)
  BY <1>1, <1>5, StripPartSettles
<1>7. Carried(copy.resolved, copy.stripped)
  BY <1>5, <1>6, CarriedOn
<1> QED BY <1>1, <1>3, <1>4, <1>5, <1>6, <1>7

(* The payloads of a persisted copy stood outside the wraps of the token,  *)
(* and unwrap finds those within.                                          *)
LEMMA PayloadsOut ==
    ASSUME IInv
    PROVE  PayloadsStayOut
<1> SUFFICES ASSUME pc \in {"log", "logged"}, part.interagent, part.where # "arguments",
                    Laminar(copy.resolved)
             PROVE  /\ Symbols(copy.persisted, "payload") \subseteq PayloadsOutside(copy.resolved)
                    /\ ~contains_interagent_payload(copy.stripped, Token)
                    /\ Recovered(copy.resolved) = Payloads(copy.resolved)
  BY DEF PayloadsStayOut
<1>1. /\ copy.stripped = strip_part(copy.redacted)
      /\ copy.persisted = mask_part(copy.stripped, PERSISTED_VIEW_ENTITIES, {}, boosted)
      /\ \E S : copy.resolved \in Seq(S)
      /\ \E S : copy.redacted \in Seq(S)
      /\ \E S : copy.stripped \in Seq(S)
      /\ Settled(copy.resolved)
      /\ Settled(copy.redacted) /\ Carried(copy.resolved, copy.redacted)
  BY CopiesOfRecord
<1>2. PICK S : copy.resolved \in Seq(S)
  BY <1>1
<1>3. PICK Q : copy.redacted \in Seq(Q)
  BY <1>1
<1>4. PICK T : copy.stripped \in Seq(T)
  BY <1>1
<1>5. PICK c : c = copy.resolved
  OBVIOUS
<1>6. PICK d : d = DocumentsStripped(copy.redacted)
  OBVIOUS
<1>7. /\ \E R : d \in Seq(R)
      /\ Settled(d) /\ Carried(copy.redacted, d)
  BY <1>1, <1>3, <1>6, DocumentsSettle
<1>8. PICK R : d \in Seq(R)
  BY <1>7
<1>9. WrapsNested(d) /\ WrapsNested(c) /\ Carried(c, d)
  BY <1>1, <1>5, <1>7, CarriedOn DEF Settled
<1>10. copy.stripped = StripWraps(d, "IAP", Token) /\ "IAP" \in Families
  BY <1>1, <1>6 DEF strip_part, DocumentsStripped, Families
<1>11. Recovered(c) = Payloads(c)
  BY <1>2, <1>5, <1>9, RecoversPayloads
<1>12. ~contains_interagent_payload(copy.stripped, Token)
  <2>1. \A a, b : ~WrapOf(copy.stripped, "IAP", Token, a, b)
    BY <1>8, <1>9, <1>10, StripSettles
  <2>2. ASSUME NEW i \in DOMAIN copy.stripped
        PROVE  WrapEnd("IAP", Token, copy.stripped, i) = NoMatch
    BY <1>4, <1>10, <2>1, WrapEndIs DEF WrapOf
  <2> QED BY <2>2 DEF contains_interagent_payload
<1>13. ASSUME NEW x \in Symbols(copy.persisted, "payload")
       PROVE  x \in PayloadsOutside(c)
  <2>1. PICK q \in DOMAIN copy.persisted : Kind(copy.persisted[q]) = "payload" /\ x = copy.persisted[q]
    BY DEF Symbols, Positions
  <2>2. PICK r \in DOMAIN copy.stripped : copy.stripped[r] = x
    <3>1. IsMasking(PERSISTED_VIEW_ENTITIES) /\ WellSpelt(copy.stripped)
      BY EntityFacts, CopiesAreTexts
    <3> QED BY <1>1, <1>4, <2>1, <3>1, Reached
  <2>3. Kind(x) = "payload"
    BY <2>1
  <2>4. PICK j \in DOMAIN d :
           d[j] = x /\ \A a, b : WrapOf(d, "IAP", Token, a, b) => ~(a < j /\ j < b)
    BY <1>8, <1>9, <1>10, <2>2, <2>3, LeftByStrip
  <2>5. PICK i \in DOMAIN c :
           /\ c[i] = d[j]
           /\ \A a, b : Wrap(c, a, b) /\ a < i /\ i < b =>
                 \E p, e : Wrap(d, p, e) /\ p < j /\ j < e /\ d[p] = c[a]
    BY <1>9, <2>3, <2>4 DEF Carried, BodiesCarried
  <2>6. ~InPayload(c, i)
    <3> SUFFICES ASSUME InPayload(c, i) PROVE FALSE
      OBVIOUS
    <3>1. PICK a, b : WrapOf(c, "IAP", Token, a, b) /\ a < i /\ i < b
      BY <1>2, <1>5, InPayloadIs
    <3>2. PICK p, e : Wrap(d, p, e) /\ p < j /\ j < e /\ d[p] = c[a]
      BY <2>5, <3>1 DEF WrapOf
    <3>3. WrapOf(d, "IAP", Token, p, e)
      BY <3>1, <3>2 DEF WrapOf
    <3> QED BY <2>4, <3>2, <3>3
  <2> QED BY <2>3, <2>4, <2>5, <2>6 DEF PayloadsOutside, Positions
<1> QED BY <1>5, <1>11, <1>12, <1>13

(* The sentinels of documents left once the strips are done: no document   *)
(* stands in another, and what is left of a request's came with it.        *)
LEMMA EchoesLeft ==
    ASSUME IInv, pc = "logged", EchoesInOrder, DocumentsApart(part.content),
           Laminar(copy.resolved)
    PROVE  /\ DocumentsApart(copy.stripped)
           /\ ~IsReply => \A q \in DOMAIN copy.stripped : DocSentinel(copy.stripped[q]) =>
                             \E i \in DOMAIN part.content : part.content[i] = copy.stripped[q]
<1> DEFINE d == DocumentsStripped(copy.redacted)
<1>1. /\ copy.stripped = strip_part(copy.redacted)
      /\ \E S : copy.redacted \in Seq(S)
      /\ Settled(copy.redacted) /\ Carried(copy.resolved, copy.redacted)
      /\ Carried(copy.resolved, copy.stripped)
  BY CopiesOfRecord
<1>2. CASE IsReply
  <2>1. copy.resolved = part.content
    BY <1>2 DEF IInv, RequestCopies
  <2> QED BY <1>1, <1>2, <2>1 DEF Carried
<1>3. CASE ~IsReply
  <2>1. /\ Carried(part.content, copy.filtered)
        /\ copy.resolved = resolve_part(copy.filtered)
        /\ part.where # "system" => copy.filtered = part.content
        /\ IsText(copy.filtered) /\ WellSpelt(copy.filtered)
    BY <1>3, FilteredCarries DEF EchoesInOrder
  <2>2. CASE part.where = "arguments"
    <3>1. copy.resolved = part.content
      BY <2>1, <2>2 DEF resolve_part
    <3> QED BY <1>1, <3>1 DEF Carried
  <2>3. CASE part.where # "arguments"
    <3>1. copy.resolved = ResolveReferences(copy.filtered, part.user, Token)
      BY <2>1, <2>3 DEF resolve_part
    <3>2. /\ \A q \in DOMAIN copy.filtered : DocSentinel(copy.filtered[q]) =>
                \E i \in DOMAIN part.content : part.content[i] = copy.filtered[q]
          /\ DocumentsApart(copy.filtered)
      BY <2>1 DEF Carried
    <3>3. \A i \in DOMAIN copy.filtered : ~OwnSentinel(copy.filtered[i])
      <4>1. \A i \in DOMAIN part.content : ~OwnSentinel(part.content[i])
        BY <1>3 DEF EchoesInOrder, TokenIsFresh
      <4> QED BY <3>2, <4>1 DEF OwnSentinel
    <3>4. EchoesApart(copy.filtered)
      <4>1. PICK S : copy.filtered \in Seq(S)
        BY <2>1, SymbolsAndMarks
      <4> QED BY <3>2, <4>1, InWrapIs DEF EchoesApart, DocumentsApart, Families
    <3>5. /\ OwnPaired(copy.resolved) /\ EchoesApart(copy.resolved)
          /\ \A q \in DOMAIN copy.resolved :
                DocSentinel(copy.resolved[q]) /\ ~OwnSentinel(copy.resolved[q]) =>
                   \E i \in DOMAIN copy.filtered : copy.filtered[i] = copy.resolved[q]
      BY <2>1, <3>1, <3>3, <3>4, SentinelsResolved DEF EchoesInOrder
    <3>6. PICK S : copy.redacted \in Seq(S)
      BY <1>1
    <3>7. (\E R : d \in Seq(R)) /\ Settled(d) /\ Carried(copy.redacted, d)
      BY <1>1, <3>6, DocumentsSettle
    <3>8. \A a, b : ~WrapOf(d, "DOC", Token, a, b)
      <4>1. d = StripWraps(copy.redacted, "DOC", Token)
        BY <1>3 DEF DocumentsStripped
      <4>2. "DOC" \in Families /\ WrapsNested(copy.redacted)
        BY <1>1 DEF Families, Settled
      <4> QED BY <3>6, <4>1, <4>2, StripSettles
    <3>9. copy.stripped = IF part.interagent THEN StripWraps(d, "IAP", Token) ELSE d
      BY <1>1, <2>3 DEF strip_part, DocumentsStripped
    <3>10. PICK R : d \in Seq(R)
      BY <3>7
    <3> HIDE DEF d
    <3>11. Carried(copy.resolved, d)
      BY <1>1, <3>7, CarriedOn
    <3>12. OwnPaired(d) /\ EchoesApart(d)
      BY <3>5, <3>11 DEF Carried
    <3>13. \A j \in DOMAIN d : ~OwnSentinel(d[j])
      BY <3>8, <3>12
         DEF OwnPaired, OwnSentinel, DocSentinel, IsSentinel, WrapOf, Wrap
    <3>14. DocumentsApart(d)
      <4> SUFFICES ASSUME NEW j \in DOMAIN d, InWrap(d, "DOC", j), DocSentinel(d[j])
                   PROVE  FALSE
        BY DEF DocumentsApart
      <4>1. PICK a, b : Wrap(d, a, b) /\ d[a][2][1] = "DOC" /\ a < j /\ j < b
        BY <3>10, InWrapIs DEF Families
      <4>2. a \in DOMAIN d
        BY <4>1 DEF Wrap
      <4> QED BY <3>12, <3>13, <4>1, <4>2 DEF EchoesApart
    <3>15. Carried(d, copy.stripped)
      <4>1. "IAP" \in Families /\ WrapsNested(d)
        BY <3>7 DEF Families, Settled
      <4> QED BY <3>9, <3>10, <4>1, StripSettles, CarriedSelf
    <3>16. DocumentsApart(copy.stripped)
      BY <3>14, <3>15 DEF Carried
    <3>17. ASSUME NEW q \in DOMAIN copy.stripped, DocSentinel(copy.stripped[q])
           PROVE  \E i \in DOMAIN part.content : part.content[i] = copy.stripped[q]
      <4>1. PICK j \in DOMAIN d : d[j] = copy.stripped[q]
        BY <3>15, <3>17 DEF Carried
      <4>2. DocSentinel(d[j]) /\ ~OwnSentinel(d[j])
        BY <3>13, <3>17, <4>1
      <4>3. PICK k \in DOMAIN copy.resolved : copy.resolved[k] = d[j]
        BY <3>11, <4>2 DEF Carried
      <4>4. PICK l \in DOMAIN copy.filtered : copy.filtered[l] = copy.resolved[k]
        BY <3>5, <4>2, <4>3
      <4> QED BY <3>2, <4>1, <4>2, <4>3, <4>4
    <3> QED BY <3>16, <3>17
  <2> QED BY <2>2, <2>3
<1> QED BY <1>2, <1>3

(* No body is left in a record. *)
LEMMA DocumentsOut ==
    ASSUME IInv
    PROVE  DocumentsStayOut
<1> SUFFICES ASSUME pc = "logged", EchoesInOrder, DocumentsApart(part.content),
                    Laminar(copy.resolved), ~EchoHidden
             PROVE  Positions(copy.record, "body") = {}
  BY DEF DocumentsStayOut
<1>1. BodiesWrapped(copy.resolved)
  BY BodiesArrive DEF BodiesArriveWrapped
<1>2. /\ copy.persisted = mask_part(copy.stripped, PERSISTED_VIEW_ENTITIES, {}, boosted)
      /\ copy.record = langfuse_mask(copy.persisted)
      /\ \E S : copy.resolved \in Seq(S)
      /\ \E S : copy.stripped \in Seq(S)
      /\ Settled(copy.stripped) /\ Carried(copy.resolved, copy.stripped)
  BY CopiesOfRecord
<1>3. PICK S : copy.resolved \in Seq(S)
  BY <1>2
<1>4. PICK T : copy.stripped \in Seq(T)
  BY <1>2
<1>5. BodiesWrapped(copy.stripped)
  BY <1>1, <1>2, <1>3, <1>4, BodiesAfter
<1>6. IsMasking(PERSISTED_VIEW_ENTITIES) /\ "DOC" \in Families /\ WellSpelt(copy.stripped)
  BY EntityFacts, CopiesAreTexts DEF Families
<1>7. IInv /\ pc = "logged" /\ EchoesInOrder /\ DocumentsApart(part.content)
        /\ Laminar(copy.resolved)
  OBVIOUS
<1>8. DocumentsApart(copy.stripped)
  BY <1>7, EchoesLeft
<1>9. ASSUME NEW q \in DOMAIN copy.record, Kind(copy.record[q]) = "body",
             NEW R, copy.persisted \in Seq(R)
      PROVE  \E j \in DOMAIN copy.persisted :
                /\ Kind(copy.persisted[j]) = "body"
                /\ DocumentsApart(copy.persisted) => ~InWrap(copy.persisted, "DOC", j)
  BY <1>2, <1>9, HookLeaves
<1>10. CASE IsJson /\ ParsesAsJson(copy.stripped)
  <2>1. ASSUME NEW r \in DOMAIN copy.stripped, Kind(copy.stripped[r]) = "body" PROVE FALSE
    <3>1. InWrap(copy.stripped, "DOC", r)
      BY <1>5, <2>1 DEF BodiesWrapped, Positions
    <3>2. PICK a, b : Wrap(copy.stripped, a, b) /\ copy.stripped[a][2][1] = "DOC"
      BY <1>4, <1>6, <3>1, InWrapIs
    <3>3. a \in DOMAIN copy.stripped /\ IsSentinel(copy.stripped[a], "open", "DOC")
      BY <3>2 DEF Wrap, IsSentinel
    <3>4. ~IsReply
      BY <1>10 DEF IsJson, IsReply
    <3>5. \E i \in DOMAIN part.content : part.content[i] = copy.stripped[a]
      BY <1>7, <3>3, <3>4, EchoesLeft DEF DocSentinel
    <3> QED BY <1>10, <3>3, <3>5 DEF EchoHidden, AsJson
  <2>2. ASSUME NEW j \in DOMAIN copy.persisted, Kind(copy.persisted[j]) = "body" PROVE FALSE
    <3>1. PICK r \in DOMAIN copy.stripped : copy.stripped[r] = copy.persisted[j]
      BY <1>2, <1>4, <1>6, <2>2, Reached
    <3> QED BY <2>1, <2>2, <3>1
  <2>3. \E R : copy.persisted \in Seq(R)
    BY <1>2, <1>4, <1>6, PartIsText
  <2> QED BY <1>9, <2>2, <2>3 DEF Positions
<1>11. CASE ~(IsJson /\ ParsesAsJson(copy.stripped))
  <2> DEFINE F == MaskedFindings(copy.stripped, PERSISTED_VIEW_ENTITIES, {}, boosted)
             N == MaskStretches(F)
  <2>1. copy.persisted = mask_text(copy.stripped, PERSISTED_VIEW_ENTITIES, {}, boosted)
    BY <1>2, <1>11 DEF mask_part, mask_json_encoded_string
  <2>2. PICK R : copy.persisted \in Seq(R)
    BY <1>4, <1>6, <2>1, MaskTextIsText
  <2>3. PICK src : Cuts(copy.stripped, N, copy.persisted, src)
    BY <1>4, <1>6, <2>1, MaskCuts
  <2>4. Respects(copy.stripped, N)
    BY <1>2, <1>4, <1>6, MaskRespects DEF Settled
  <2> HIDE DEF N
  <2>5. Carried(copy.stripped, copy.persisted)
    BY <1>4, <2>2, <2>3, <2>4, CutsCarry
  <2>6. BodiesWrapped(copy.persisted)
    BY <1>4, <1>5, <2>2, <2>5, BodiesAfter
  <2>7. DocumentsApart(copy.persisted)
    BY <1>4, <1>8, <2>2, <2>3, <2>4, ApartAfter
  <2> QED BY <1>9, <2>2, <2>6, <2>7 DEF BodiesWrapped, Positions
<1> QED BY <1>10, <1>11

(* Every document body in what goes upstream, or on to the record, is in a *)
(* wrap that closes (documents/pipeline.py:34-77).                         *)
THEOREM WrapsHold == Spec => []BodiesArriveWrapped
BY Invariant, BodiesArrive, PTL

(* Given its token, a payload is recovered in full, and none that stood in *)
(* a wrap of that token is in the persisted copy (interagent/pipeline.py,  *)
(* pipeline.py:164-168).                                                   *)
THEOREM PayloadsHold == Spec => []PayloadsStayOut
BY Invariant, PayloadsOut, PTL

(* No document body is in the record, however wraps, passages, lines and   *)
(* the cuts made for them are nested (documents/pipeline.py:80,            *)
(* langfuse_logger.py:10).                                                 *)
THEOREM DocumentsHold == Spec => []DocumentsStayOut
BY Invariant, DocumentsOut, PTL
=============================================================================
