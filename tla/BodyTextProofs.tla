--------------------------- MODULE BodyTextProofs ---------------------------
(***************************************************************************)
(* What redaction, masking and the injection scan do to a string of a      *)
(* body, for every string, user, matrix, registry and threshold, and       *)
(* whatever the context raises at each analysis.                           *)
(*                                                                         *)
(* First mask_text and its JSON form as functions, then the redaction of   *)
(* tags, then the stages of BodyText as steps that keep IInv, then the     *)
(* properties, each from IInv and what the functions return.               *)
(***************************************************************************)
EXTENDS BodyTextProperties, TextProofs, PolicyProofs

-----------------------------------------------------------------------------
(* What is mapped one to one into a finite set is no larger than it. *)
LEMMA Injected ==
    ASSUME NEW A, NEW B, IsFiniteSet(B), NEW f \in [A -> B],
           \A a, b \in A : f[a] = f[b] => a = b
    PROVE  IsFiniteSet(A) /\ Cardinality(A) <= Cardinality(B)
<1>1. f \in Injection(A, B)
  BY DEF Injection, IsInjective
<1> QED BY <1>1, FS_Injection

(* What a scan reports lies in the text and was asked for, and no two      *)
(* start at one place but the two entities of a card number.               *)
LEMMA ScanFacts ==
    ASSUME NEW S, NEW text \in Seq(S), NEW entities, NEW raised
    PROVE  LET F == scan_entities(text, entities, raised)
           IN  /\ \A f \in F : /\ f.start \in DOMAIN text
                               /\ f.end \in f.start + 1 .. Len(text) + 1
                               /\ f \in FindingsAt(text, f.start, raised)
                               /\ f.entity \in entities /\ f.score >= ScoreThreshold
               /\ \A f, g \in F :
                     /\ f.start = g.start
                     /\ f.entity = "CREDIT_CARD" <=> g.entity = "CREDIT_CARD"
                     => f = g
               /\ IsFiniteSet(F) /\ Cardinality(F) \in Nat
<1> DEFINE F == scan_entities(text, entities, raised)
<1>1. ASSUME NEW f \in F
      PROVE  /\ f.start \in DOMAIN text
             /\ f.end \in f.start + 1 .. Len(text) + 1
             /\ f \in FindingsAt(text, f.start, raised)
             /\ f.entity \in entities /\ f.score >= ScoreThreshold
  <2>1. PICK i \in DOMAIN text : f \in FindingsAt(text, i, raised)
    BY DEF scan_entities
  <2>2. f.entity \in entities /\ f.score >= ScoreThreshold
    BY DEF scan_entities
  <2>3. f.start = i /\ f.end \in i + 1 .. Len(text) + 1
    BY <2>1, FindingShape
  <2> QED BY <2>1, <2>2, <2>3
<1> HIDE DEF F
<1>2. ASSUME NEW f \in F, NEW g \in F, f.start = g.start,
             f.entity = "CREDIT_CARD" <=> g.entity = "CREDIT_CARD"
      PROVE  f = g
  <2>1. PICK i \in DOMAIN text :
           f \in FindingsAt(text, i, raised) /\ g \in FindingsAt(text, i, raised)
    BY <1>1, <1>2
  <2> QED BY <2>1, <1>2, FindingShape
<1>3. IsFiniteSet(F)
  <2>1. IsFiniteSet(DOMAIN text)
    <3>1. DOMAIN text = 1 .. Len(text) /\ 1 \in Int /\ Len(text) \in Int
      OBVIOUS
    <3> QED BY <3>1, FS_Interval
  <2>2. ASSUME NEW A \in SUBSET F, \A f, g \in A : f.start = g.start => f = g
        PROVE  IsFiniteSet(A)
    <3> DEFINE m == [f \in A |-> f.start]
    <3>1. m \in [A -> DOMAIN text] /\ \A f, g \in A : m[f] = m[g] => f = g
      BY <1>1, <2>2
    <3> HIDE DEF m
    <3> QED BY <3>1, <2>1, Injected
  <2> DEFINE credit == {f \in F : f.entity = "CREDIT_CARD"}
             other  == {f \in F : f.entity # "CREDIT_CARD"}
  <2>3. IsFiniteSet(credit) /\ IsFiniteSet(other)
    BY <1>2, <2>2
  <2>4. credit \cup other = F
    OBVIOUS
  <2> HIDE DEF credit, other
  <2> QED BY <2>3, <2>4, FS_Union
<1>4. Cardinality(F) \in Nat
  BY <1>3, FS_CardinalityType
<1> QED BY <1>1, <1>2, <1>3, <1>4 DEF F

(* What a text is masked for. *)
IsMasking(entities) == entities \in SUBSET PERSISTED_VIEW_ENTITIES

(* The entities masked in the two views are those with a label; injection  *)
(* patterns are not among them.                                            *)
LEMMA EntityFacts ==
    /\ "PROMPT_INJECTION_ATTEMPT" \notin PERSISTED_VIEW_ENTITIES
    /\ PERSISTED_VIEW_ENTITIES = DOMAIN ENTITY_LABELS
    /\ IsMasking(DEFAULT_ENTITIES_TO_MASK) /\ IsMasking(PERSISTED_VIEW_ENTITIES)
BY DEF IsMasking, PERSISTED_VIEW_ENTITIES, DEFAULT_ENTITIES_TO_MASK, ENTITY_LABELS

(* A scan gives resolve_overlap what it needs. *)
LEMMA ScanSome ==
    ASSUME NEW S, NEW text \in Seq(S), NEW entities, IsMasking(entities), NEW raised
    PROVE  SomeFindings(scan_entities(text, entities, raised))
<1> DEFINE F == scan_entities(text, entities, raised)
<1>1. /\ \A f \in F : /\ f.start \in DOMAIN text
                      /\ f.end \in f.start + 1 .. Len(text) + 1
                      /\ f \in FindingsAt(text, f.start, raised)
                      /\ f.entity \in entities
      /\ \A f, g \in F : /\ f.start = g.start
                         /\ f.entity = "CREDIT_CARD" <=> g.entity = "CREDIT_CARD"
                         => f = g
      /\ IsFiniteSet(F)
  BY ScanFacts
<1> HIDE DEF F
<1>2. ASSUME NEW f \in F
      PROVE  /\ f.start \in Nat /\ f.end \in Nat /\ f.score \in Nat /\ f.start < f.end
             /\ f.entity \in DOMAIN ENTITY_LABELS
  <2>1. PICK i \in DOMAIN text : i = f.start /\ f \in FindingsAt(text, i, raised)
    BY <1>1
  <2>2. f.end \in i + 1 .. Len(text) + 1
    BY <1>1, <2>1
  <2>3. f.entity # "PROMPT_INJECTION_ATTEMPT" /\ f.entity \in DOMAIN ENTITY_LABELS
    BY <1>1, EntityFacts DEF IsMasking
  <2>4. f.score \in Nat
    BY <2>1, <2>3, FindingShape
  <2> QED BY <2>1, <2>2, <2>3, <2>4
<1>3. \A f, g \in F : f.start = g.start /\ f.entity = g.entity /\ f.score = g.score => f = g
  BY <1>1
<1> QED BY <1>1, <1>2, <1>3 DEF SomeFindings, F

(* The findings that are masked are the accepted ones that are not         *)
(* exempt, and they do not meet.                                           *)
LEMMA MaskedFacts ==
    ASSUME NEW S, NEW text \in Seq(S), NEW entities, IsMasking(entities), NEW exempt, NEW raised
    PROVE  LET scan == scan_entities(text, entities, raised)
               accepted == resolve_overlap(scan)
               F == MaskedFindings(text, entities, exempt, raised)
           IN  /\ \A f : f \in F <=> f \in accepted /\ f.entity \notin exempt
               /\ Resolved(scan, accepted)
               /\ F \in SUBSET scan
               /\ DisjointSpans(text, F)
<1> DEFINE scan == scan_entities(text, entities, raised)
           accepted == resolve_overlap(scan)
           F == MaskedFindings(text, entities, exempt, raised)
<1>1. \A f : f \in F <=> f \in accepted /\ f.entity \notin exempt
  BY DEF MaskedFindings
<1>2. SomeFindings(scan)
  BY ScanSome
<1>3. Resolved(scan, accepted)
  BY <1>2, ResolveOverlap
<1>4. \A f \in scan : f.start \in DOMAIN text /\ f.end \in f.start + 1 .. Len(text) + 1
  BY ScanFacts
<1> HIDE DEF scan, accepted, F
<1>5. F \in SUBSET scan /\ F \in SUBSET accepted
  BY <1>1, <1>3 DEF Resolved
<1>6. ASSUME NEW f \in F, NEW g \in F, f # g PROVE f.end <= g.start \/ g.end <= f.start
  <2>1. ~Overlap(f, g)
    BY <1>3, <1>5, <1>6 DEF Resolved
  <2>2. f \in scan /\ g \in scan
    BY <1>5
  <2>3. f.end <= g.start \/ f.start >= g.end
    BY <2>1 DEF Overlap
  <2>4. f.start \in Nat /\ g.end \in Nat
    BY <2>2, <1>2 DEF SomeFindings
  <2> QED BY <2>3, <2>4
<1> QED BY <1>1, <1>3, <1>4, <1>5, <1>6 DEF DisjointSpans, scan, accepted, F

(* Numbered from the left per label, placeholders are distinct. *)
LEMMA DistinctPlaceholders ==
    ASSUME NEW F, IsFiniteSet(F), \A f \in F : f.start \in Nat,
           \A f, g \in F : f.start = g.start => f = g
    PROVE  \A f, g \in F : Placeholder(F, f) = Placeholder(F, g) => f = g
<1> DEFINE Upto(f) == {g \in F : Label(g) = Label(f) /\ g.start <= f.start}
<1>1. ASSUME NEW f \in F, NEW g \in F, Label(f) = Label(g), f.start < g.start
      PROVE  Cardinality(Upto(f)) # Cardinality(Upto(g))
  <2>1. Upto(f) \in SUBSET Upto(g) /\ g \in Upto(g) /\ g \notin Upto(f)
    BY <1>1
  <2>2. IsFiniteSet(Upto(g))
    <3>1. Upto(g) \in SUBSET F
      OBVIOUS
    <3> HIDE DEF Upto
    <3> QED BY <3>1, FS_Subset
  <2> HIDE DEF Upto
  <2>3. Cardinality(Upto(f)) \in Nat /\ Cardinality(Upto(g)) \in Nat
           /\ Cardinality(Upto(f)) < Cardinality(Upto(g))
    BY <2>1, <2>2, SmallerSubset
  <2> QED BY <2>3
<1>2. ASSUME NEW f \in F, NEW g \in F, Placeholder(F, f) = Placeholder(F, g)
      PROVE  f = g
  <2>1. Label(f) = Label(g) /\ Cardinality(Upto(f)) = Cardinality(Upto(g))
    BY <1>2 DEF Placeholder, Masked
  <2>2. ~(f.start < g.start) /\ ~(g.start < f.start)
    BY <2>1, <1>1
  <2> QED BY <2>2
<1> QED BY <1>2

(* No recognizer reports a newline. *)
LEMMA NewlineIsNotFound ==
    ASSUME NEW text, NEW i, NEW raised, FindingsAt(text, i, raised) # {}
    PROVE  text[i] # Newline
BY PatternFacts DEF FindingsAt, Newline, Kind

(* What is masked is one symbol or a line up to its end, under a           *)
(* placeholder of its own.                                                 *)
LEMMA MaskedFindingsExact ==
    ASSUME NEW S, NEW text \in Seq(S), NEW entities, IsMasking(entities), NEW exempt, NEW raised
    PROVE  FindingsExact(text, MaskedFindings(text, entities, exempt, raised))
<1> DEFINE scan == scan_entities(text, entities, raised)
           F == MaskedFindings(text, entities, exempt, raised)
<1>1. F \in SUBSET scan /\ DisjointSpans(text, F)
  BY MaskedFacts
<1>2. SomeFindings(scan)
  BY ScanSome
<1>3. \A f \in scan : f \in FindingsAt(text, f.start, raised)
  BY ScanFacts
<1> HIDE DEF scan, F
<1>4. IsFiniteSet(F)
  BY <1>1, <1>2, FS_Subset DEF SomeFindings
<1>5. \A f, g \in F : Placeholder(F, f) = Placeholder(F, g) => f = g
  <2>1. \A f \in F : f.start \in Nat /\ f.end \in Nat /\ f.start < f.end
    BY <1>1, <1>2 DEF SomeFindings
  <2>2. \A f, g \in F : f.start = g.start => f = g
    BY <2>1, <1>1 DEF DisjointSpans
  <2> QED BY <2>1, <2>2, <1>4, DistinctPlaceholders
<1>6. ASSUME NEW f \in F, NEW i \in f.start .. f.end - 1
      PROVE  i \in DOMAIN text /\ text[i] # Newline /\ (i # f.start => InMarkerLine(text, i))
  <2>1. PICK s \in DOMAIN text : s = f.start /\ f \in FindingsAt(text, s, raised)
    BY <1>1, <1>3 DEF DisjointSpans
  <2>2. text[s] # Newline
    BY <2>1, NewlineIsNotFound
  <2>3. /\ f.end \in s + 1 .. Len(text) + 1
        /\ Kind(text[s]) # "marker" => f.end = s + 1
        /\ Kind(text[s]) = "marker" => f.end = EndOfLine(text, s)
    BY <2>1, FindingShape
  <2>4. s \in 1 .. Len(text) /\ Len(text) \in Nat
    OBVIOUS
  <2>5. i \in s .. f.end - 1
    BY <2>1
  <2>6. CASE i = s
    BY <2>6, <2>1, <2>2
  <2>7. CASE i # s
    <3>1. Kind(text[s]) = "marker" /\ f.end = EndOfLine(text, s) /\ i \in s + 1 .. f.end - 1
      BY <2>3, <2>4, <2>5, <2>7
    <3>2. i \in DOMAIN text /\ text[i] # Newline
      BY <3>1, LineEnds
    <3>3. InMarkerLine(text, i)
      <4>1. s \in 1 .. i - 1 /\ EndOfLine(text, s) > i
        BY <3>1, <2>3, <2>4
      <4> QED BY <4>1, <3>1 DEF InMarkerLine
    <3> QED BY <3>2, <3>3
  <2> QED BY <2>6, <2>7
<1> QED BY <1>5, <1>6 DEF FindingsExact, F

(* One pass from the left, as the pieces SplicingFromTheRight speaks of. *)
LEMMA OnePassIsPieces ==
    ASSUME NEW text, NEW F
    PROVE  OnePass(text, F) = Seqs!FlattenSeq(Pieces(text, F, F))
BY DEF OnePass, Pieces, Piece

(* A position is hit when a finding covers it. *)
Hit(F, i) == \E f \in F : f.start <= i /\ i < f.end

(* The text that masking leaves: every symbol is the placeholder of a       *)
(* finding or one that no finding hit, in the order of the source.          *)
Kept(text, F, out, src) ==
    /\ src \in [DOMAIN out -> DOMAIN text]
    /\ \A q, r \in DOMAIN out : q < r => src[q] < src[r]
    /\ \A q \in DOMAIN out :
          \/ \E f \in F : f.start = src[q] /\ out[q] = Placeholder(F, f)
          \/ ~Hit(F, src[q]) /\ out[q] = text[src[q]]
    /\ \A i \in DOMAIN text : ~Hit(F, i) => \E q \in DOMAIN out : src[q] = i

(* mask_text returns what one pass returns, a text over the source and     *)
(* the placeholders, in the order of the source.                           *)
LEMMA MaskText ==
    ASSUME NEW S, NEW text \in Seq(S), NEW entities, IsMasking(entities), NEW exempt, NEW raised
    PROVE  LET F == MaskedFindings(text, entities, exempt, raised)
               out == mask_text(text, entities, exempt, raised)
           IN  /\ out = OnePass(text, F)
               /\ out \in Seq(S \cup {Placeholder(F, f) : f \in F})
               /\ \E src : Kept(text, F, out, src)
<1> DEFINE F == MaskedFindings(text, entities, exempt, raised)
           V == S \cup {Placeholder(F, f) : f \in F}
           out == mask_text(text, entities, exempt, raised)
           P == Pieces(text, F, F)
           n == Len(text)
<1>1. DisjointSpans(text, F)
  BY MaskedFacts
<1>2. text \in Seq(V) /\ (\A f \in F : Placeholder(F, f) \in V) /\ F \in SUBSET F
         /\ DOMAIN text = 1 .. n /\ n \in Nat
  <2>1. S \in SUBSET V
    OBVIOUS
  <2>2. text \in Seq(V)
    <3>1. \A i \in DOMAIN text : text[i] \in V
      BY <2>1
    <3> HIDE DEF V
    <3> QED BY <3>1
  <2> QED BY <2>2
<1>3. out = SplicedInOrder(text, F, [k \in DOMAIN text |-> Len(text) + 1 - k])
  BY DEF mask_text
<1> HIDE DEF F, V, out
<1>4. out = Seqs!FlattenSeq(P)
  BY <1>1, <1>2, <1>3, SplicingFromTheRight
<1>5. out = OnePass(text, F)
  BY <1>4, OnePassIsPieces
<1>6. P \in Seq(Seq(V)) /\ Len(P) = n /\ \A i \in 1 .. n : P[i] = Piece(text, F, F, i)
  BY <1>2, PiecesTyped
<1> HIDE DEF P
<1>7. out \in Seq(V) /\ \E src, off : From(out, P, n, src, off)
  <2>1. P \in Seq(Seq(V)) /\ Len(P) = n
    BY <1>6
  <2>2. /\ Seqs!FlattenSeq(P) \in Seq(V)
        /\ \E src, off : From(Seqs!FlattenSeq(P), P, Len(P), src, off)
    BY <2>1, FlattenFrom
  <2> QED BY <2>1, <2>2, <1>4
<1>8. PICK src, off : From(out, P, n, src, off)
  BY <1>7
<1> HIDE DEF n
<1>9. \A f, g \in F : f.start = g.start => f = g
  <2>1. \A f \in F : f.start \in Nat /\ f.end \in Nat /\ f.start < f.end
    BY <1>1, <1>2 DEF DisjointSpans, n
  <2> QED BY <2>1, <1>1 DEF DisjointSpans
<1>10. ASSUME NEW i \in 1 .. n
       PROVE  \/ \E f \in F : f.start = i /\ P[i] = <<Placeholder(F, f)>>
              \/ ~Hit(F, i) /\ P[i] = <<text[i]>>
              \/ Hit(F, i) /\ P[i] = <<>>
  <2>1. P[i] = Piece(text, F, F, i)
    BY <1>6
  <2>2. CASE \E f \in F : f.start = i
    <3>1. PICK f \in F : f.start = i
      BY <2>2
    <3>2. f = CHOOSE g \in F : g.start = i
      BY <3>1, <1>9
    <3> QED BY <3>1, <3>2, <2>1 DEF Piece
  <2>3. CASE ~\E f \in F : f.start = i
    <3>1. \A f \in F : f.start \in Nat
      BY <1>1, <1>2 DEF DisjointSpans
    <3>2. Hit(F, i) <=> \E f \in F : f.start < i /\ i < f.end
      BY <2>3, <3>1, <1>2 DEF Hit, n
    <3> QED BY <2>1, <2>3, <3>2 DEF Piece
  <2> QED BY <2>2, <2>3
<1>11. /\ src \in [DOMAIN out -> DOMAIN text]
       /\ \A q \in DOMAIN out : off[q] \in DOMAIN P[src[q]] /\ out[q] = P[src[q]][off[q]]
  BY <1>8, <1>2 DEF From, n
<1>12. ASSUME NEW i \in 1 .. n PROVE DOMAIN P[i] \in SUBSET {1}
  <2>1. \A x : DOMAIN <<x>> = {1}
    OBVIOUS
  <2>2. DOMAIN <<>> = {}
    OBVIOUS
  <2> QED BY <2>1, <2>2, <1>10
<1>13. ASSUME NEW q \in DOMAIN out, NEW r \in DOMAIN out, q < r PROVE src[q] < src[r]
  <2>1. src[q] < src[r] \/ (src[q] = src[r] /\ off[q] < off[r])
    BY <1>8, <1>13 DEF From
  <2>2. off[q] = 1 /\ off[r] = 1
    BY <1>11, <1>12, <1>2 DEF n
  <2> QED BY <2>1, <2>2
<1>14. ASSUME NEW q \in DOMAIN out
       PROVE \/ \E f \in F : f.start = src[q] /\ out[q] = Placeholder(F, f)
             \/ ~Hit(F, src[q]) /\ out[q] = text[src[q]]
  <2>1. PICK i \in 1 .. n : i = src[q]
    BY <1>11, <1>2 DEF n
  <2>2. off[q] \in DOMAIN P[i] /\ out[q] = P[i][off[q]]
    BY <1>11, <2>1
  <2>3. off[q] = 1
    BY <2>2, <1>12
  <2>4. \A x : <<x>>[1] = x
    OBVIOUS
  <2>5. P[i] # <<>>
    BY <2>2
  <2> QED BY <2>1, <2>2, <2>3, <2>4, <2>5, <1>10
<1>15. ASSUME NEW i \in DOMAIN text, ~Hit(F, i) PROVE \E q \in DOMAIN out : src[q] = i
  <2>1. i \in 1 .. n
    BY <1>2 DEF n
  <2>2. P[i] = <<text[i]>> \/ \E f \in F : f.start = i /\ P[i] = <<Placeholder(F, f)>>
    BY <2>1, <1>10, <1>15
  <2>3. 1 \in DOMAIN P[i]
    BY <2>2
  <2> QED BY <2>1, <2>3, <1>8 DEF From
<1>16. Kept(text, F, out, src)
  BY <1>11, <1>13, <1>14, <1>15 DEF Kept
<1> QED BY <1>5, <1>7, <1>16 DEF F, V, out

(* What is found at a position, by the kind of its symbol. *)
LEMMA PatternFindings ==
    ASSUME NEW text, NEW i, NEW raised, Kind(text[i]) \in DOMAIN Patterns,
           Kind(text[i]) = "marker" => ~InMarkerLine(text, i)
    PROVE  LET kind == Kind(text[i])
           IN  FindingsAt(text, i, raised)
                 = {Finding(Patterns[kind].entity, i,
                            IF kind = "marker" THEN EndOfLine(text, i) ELSE i + 1,
                            Raised(kind, Patterns[kind].score, raised))}
<1>1. Kind(text[i]) # "digits" /\ Kind(text[i]) # "attempt"
  BY PatternFacts
<1> QED BY <1>1 DEF FindingsAt

(* Only a proprietary line is longer than a symbol. *)
LEMMA LongFindings ==
    ASSUME NEW S, NEW text \in Seq(S), NEW i \in DOMAIN text, NEW raised,
           NEW f \in FindingsAt(text, i, raised), f.end # i + 1
    PROVE  /\ Kind(text[i]) = "marker" /\ f.end = EndOfLine(text, i)
           /\ f.entity = "PROPRIETARY_SOURCE_MARKER"
<1>1. Kind(text[i]) = "marker" /\ f.end = EndOfLine(text, i)
  BY FindingShape
<1>2. FindingsAt(text, i, raised) # {} /\ Kind(text[i]) \in DOMAIN Patterns
  BY <1>1, PatternFacts
<1>3. ~InMarkerLine(text, i)
  BY <1>1, <1>2 DEF FindingsAt
<1>4. f = Finding(Patterns["marker"].entity, i, EndOfLine(text, i),
                  Raised("marker", Patterns["marker"].score, raised))
  BY <1>1, <1>2, <1>3, PatternFindings
<1>5. f.entity = Patterns["marker"].entity
  BY <1>4 DEF Finding
<1> QED BY <1>1, <1>5, PatternFacts

(* A value that is one symbol is masked, by its own placeholder or with a  *)
(* line that took its place.                                               *)
LEMMA ValueIsHit ==
    ASSUME NEW S, NEW text \in Seq(S), NEW entities, IsMasking(entities), NEW exempt, NEW raised,
           "PROPRIETARY_SOURCE_MARKER" \notin exempt,
           NEW i \in DOMAIN text, NEW f \in FindingsAt(text, i, raised), f.end = i + 1,
           f.entity \in entities, f.score >= ScoreThreshold,
           \A g \in FindingsAt(text, i, raised) : g.entity \notin exempt
    PROVE  Hit(MaskedFindings(text, entities, exempt, raised), i)
<1> DEFINE scan == scan_entities(text, entities, raised)
           accepted == resolve_overlap(scan)
           F == MaskedFindings(text, entities, exempt, raised)
<1>1. /\ \A g : g \in F <=> g \in accepted /\ g.entity \notin exempt
      /\ Resolved(scan, accepted)
  BY MaskedFacts
<1>2. f \in scan /\ f.start = i
  BY FindingShape DEF scan_entities
<1>3. /\ \A g \in scan : /\ g.start \in DOMAIN text
                         /\ g.end \in g.start + 1 .. Len(text) + 1
                         /\ g \in FindingsAt(text, g.start, raised)
  BY ScanFacts
<1> HIDE DEF scan, accepted, F
<1>4. i \in Nat /\ i < i + 1
  OBVIOUS
<1>5. CASE f \in accepted
  <2>1. f \in F
    BY <1>1, <1>5
  <2> QED BY <2>1, <1>2, <1>4 DEF Hit, F
<1>6. CASE f \notin accepted
  <2>1. PICK g \in accepted : Overlap(f, g)
    BY <1>1, <1>2, <1>6 DEF Resolved
  <2>2. g \in scan
    BY <1>1, <2>1 DEF Resolved
  <2>3. PICK s \in DOMAIN text : s = g.start /\ g \in FindingsAt(text, s, raised)
    BY <2>2, <1>3
  <2>4. g.end \in s + 1 .. Len(text) + 1
    BY <2>2, <2>3, <1>3
  <2>5. g.end > i /\ s < i + 1
    <3>1. ~(i + 1 <= s \/ i >= g.end)
      BY <2>1, <2>3, <1>2 DEF Overlap
    <3> QED BY <3>1, <2>4
  <2>6. g.entity \notin exempt
    <3>1. CASE s = i
      BY <3>1, <2>3
    <3>2. CASE s # i
      <4>1. g.end # s + 1
        BY <3>2, <2>5
      <4> QED BY <4>1, <2>3, LongFindings
    <3> QED BY <3>1, <3>2
  <2>7. g \in F /\ s <= i
    BY <2>1, <2>5, <2>6, <1>1
  <2> QED BY <2>3, <2>5, <2>7 DEF Hit, F
<1> QED BY <1>5, <1>6

(* What ValuesMasked needs of the Luhn check. *)
ValidCards == \A ds \in CardNumbers : validate_result(ds)

-----------------------------------------------------------------------------
(* No value of a masked kind is left in a text: its finding was accepted,  *)
(* or dropped for a better one that covers it.                             *)
LEMMA MaskTextLeavesNone ==
    ASSUME NEW S, NEW text \in Seq(S), NEW entities, IsMasking(entities), NEW exempt, NEW raised,
           DEFAULT_ENTITIES_TO_MASK \subseteq entities,
           "PROPRIETARY_SOURCE_MARKER" \notin exempt, ValidCards
    PROVE  LET out == mask_text(text, entities, exempt, raised)
           IN  /\ NoneOf(out, exempt)
               /\ "MONETARY_AMOUNT" \in entities \ exempt => Positions(out, "amount") = {}
<1> DEFINE F == MaskedFindings(text, entities, exempt, raised)
           out == mask_text(text, entities, exempt, raised)
<1>1. PICK src : Kept(text, F, out, src)
  BY MaskText
<1>2. ASSUME NEW q \in DOMAIN out, Kind(out[q]) # "masked"
      PROVE  src[q] \in DOMAIN text /\ ~Hit(F, src[q]) /\ out[q] = text[src[q]]
  <2>1. \A f : Kind(Placeholder(F, f)) = "masked"
    BY DEF Placeholder, Masked, Kind
  <2> HIDE DEF F, out
  <2> QED BY <1>1, <1>2, <2>1 DEF Kept
<1>3. ScoreThreshold \in Nat /\ ScoreThreshold <= 50
  BY ThresholdAssumption
<1>4. ASSUME NEW kind \in {"ip", "key", "header", "amount"}, Patterns[kind].entity \in entities,
             Patterns[kind].entity \notin exempt
      PROVE  Positions(out, kind) = {}
  <2> SUFFICES ASSUME NEW q \in DOMAIN out, Kind(out[q]) = kind PROVE FALSE
    BY DEF Positions
  <2>1. PICK i \in DOMAIN text : i = src[q] /\ ~Hit(F, i) /\ Kind(text[i]) = kind
    BY <1>2
  <2> DEFINE f == Finding(Patterns[kind].entity, i, i + 1,
                          Raised(kind, Patterns[kind].score, raised))
  <2>2. kind \in DOMAIN Patterns /\ kind # "marker"
    BY PatternFacts
  <2>3. FindingsAt(text, i, raised) = {f}
    BY <2>1, <2>2, PatternFindings
  <2>4. f.end = i + 1 /\ f.entity = Patterns[kind].entity
           /\ f.score = Raised(kind, Patterns[kind].score, raised)
    BY DEF Finding
  <2>5. Patterns[kind].score \in Nat /\ Patterns[kind].score <= MaxScore
           /\ Patterns[kind].score >= 50
    BY <2>2, PatternFacts
  <2>6. f.score \in Nat /\ f.score >= Patterns[kind].score
    BY <2>4, <2>5, RaisedFacts
  <2> HIDE DEF f, F, out
  <2>7. f.score >= ScoreThreshold
    BY <2>5, <2>6, <1>3
  <2>8. Hit(F, i)
    BY <2>3, <2>4, <2>7, <1>4, ValueIsHit DEF F
  <2> QED BY <2>1, <2>8
<1>5. ASSUME {"BANK_CARD_NUMBER", "CREDIT_CARD"} \cap exempt = {}
      PROVE  {s[2] : s \in Symbols(out, "digits")} \cap CardNumbers = {}
  <2> SUFFICES ASSUME NEW q \in DOMAIN out, Kind(out[q]) = "digits", out[q][2] \in CardNumbers
               PROVE  FALSE
    BY DEF Symbols, Positions
  <2>1. PICK i \in DOMAIN text : /\ i = src[q] /\ ~Hit(F, i) /\ Kind(text[i]) = "digits"
                                 /\ text[i][2] \in CardNumbers
    BY <1>2
  <2>2. validate_result(text[i][2])
    BY <2>1 DEF ValidCards
  <2> DEFINE f == Finding("BANK_CARD_NUMBER", i, i + 1, MaxScore)
  <2>3. FindingsAt(text, i, raised)
          = {Finding(e, i, i + 1, MaxScore) : e \in CardEntities(text[i][2])}
    BY <2>1 DEF FindingsAt
  <2>4. /\ f \in FindingsAt(text, i, raised)
        /\ \A g \in FindingsAt(text, i, raised) : g.entity \notin exempt
    BY <2>2, <2>3, <1>5 DEF CardEntities, Finding
  <2>5. f.end = i + 1 /\ f.entity = "BANK_CARD_NUMBER" /\ f.score = 100
    BY DEF Finding, MaxScore
  <2>6. "BANK_CARD_NUMBER" \in entities
    BY DEF DEFAULT_ENTITIES_TO_MASK, ENTITY_LABELS
  <2> HIDE DEF f, F, out
  <2>7. Hit(F, i)
    BY <2>4, <2>5, <2>6, <1>3, ValueIsHit DEF F
  <2> QED BY <2>1, <2>7
<1>6. /\ "INTERNAL_IP_ADDRESS" \in entities /\ "PROPRIETARY_SOURCE_MARKER" \in entities
  BY DEF DEFAULT_ENTITIES_TO_MASK, ENTITY_LABELS
<1>7. NoneOf(out, exempt)
  <2>1. ASSUME NEW k \in MaskedKinds(exempt) PROVE Positions(out, k) = {}
    <3>1. k \in {"ip", "key", "header"} /\ Patterns[k].entity \notin exempt
      BY DEF MaskedKinds
    <3>2. Patterns[k].entity \in entities
      BY <3>1, <1>6, PatternFacts
    <3> HIDE DEF out
    <3> QED BY <3>1, <3>2, <1>4
  <2> HIDE DEF out
  <2> QED BY <2>1, <1>5 DEF NoneOf
<1>8. ASSUME "MONETARY_AMOUNT" \in entities \ exempt PROVE Positions(out, "amount") = {}
  <2>1. Patterns["amount"].entity = "MONETARY_AMOUNT"
    BY PatternFacts
  <2> QED BY <2>1, <1>4, <1>8
<1> QED BY <1>7, <1>8

(* A stretch lies between its opener and the next one. *)
LEMMA StretchSpans ==
    ASSUME NEW S, NEW text \in Seq(S), NEW i \in DOMAIN text
    PROVE  /\ StretchEnd(text, i) \in i .. Len(text)
           /\ \A j \in i + 1 .. StretchEnd(text, i) : j \in DOMAIN text /\ text[j] \notin Openers
<1> DEFINE hits == {j \in Behind(text, i) : text[j] \in Openers}
<1>1. /\ DOMAIN text = 1 .. Len(text) /\ Len(text) \in Nat /\ i \in 1 .. Len(text)
      /\ hits \in SUBSET (Nat \ {0}) /\ \A j \in hits : j \in i + 1 .. Len(text)
  BY DEF Behind
<1>2. /\ hits = {} <=> First(hits) = NoMatch
      /\ hits # {} => First(hits) \in hits /\ \A k \in hits : First(hits) <= k
  <2> HIDE DEF hits
  <2> QED BY <1>1, FirstIs
<1>3. StretchEnd(text, i) = IF First(hits) = NoMatch THEN Len(text) ELSE First(hits) - 1
  BY DEF StretchEnd
<1>4. \A j \in i + 1 .. Len(text) : text[j] \in Openers => j \in hits
  BY DEF Behind
<1> HIDE DEF hits
<1>5. CASE hits = {}
  <2>1. StretchEnd(text, i) = Len(text)
    BY <1>5, <1>2, <1>3
  <2> QED BY <2>1, <1>1, <1>4, <1>5
<1>6. CASE hits # {}
  <2>1. StretchEnd(text, i) = First(hits) - 1 /\ First(hits) \in i + 1 .. Len(text)
    BY <1>6, <1>1, <1>2, <1>3
  <2>2. \A j \in i + 1 .. First(hits) - 1 : j \in 1 .. Len(text) /\ j \notin hits
    BY <2>1, <1>1, <1>2, <1>6
  <2> QED BY <2>1, <2>2, <1>1, <1>4
<1> QED BY <1>5, <1>6

(* The symbols of a set, and those they may be the escapes of. *)
Decoded(S) == S \cup {s[2] : s \in S}

(* What json.loads returns, symbol by symbol. *)
LEMMA LoadsAre ==
    ASSUME NEW S, NEW text \in Seq(S)
    PROVE  LET L == json_loads(text)
           IN  /\ L = [i \in DOMAIN L |-> L[i]]
               /\ \A i : i \in DOMAIN L <=> i \in DOMAIN text /\ text[i] \in Openers
               /\ \A i \in DOMAIN L :
                     /\ L[i] \in Seq(Decoded(S))
                     /\ DOMAIN L[i] = 1 .. StretchEnd(text, i) - i
                     /\ \A k \in DOMAIN L[i] :
                           /\ i + k \in DOMAIN text
                           /\ L[i][k] = Unescaped(text[i + k]) /\ text[i + k] \notin Openers
<1> DEFINE L == json_loads(text)
           spelt(i) == SubSeq(text, i + 1, StretchEnd(text, i))
<1>1. /\ L = [i \in DOMAIN L |-> L[i]]
      /\ \A i : i \in DOMAIN L <=> i \in DOMAIN text /\ text[i] \in Openers
  BY DEF json_loads
<1>2. ASSUME NEW i \in DOMAIN L
      PROVE  /\ L[i] \in Seq(Decoded(S))
             /\ DOMAIN L[i] = 1 .. StretchEnd(text, i) - i
             /\ \A k \in DOMAIN L[i] :
                   /\ i + k \in DOMAIN text
                   /\ L[i][k] = Unescaped(text[i + k]) /\ text[i + k] \notin Openers
  <2> DEFINE e == StretchEnd(text, i)
             l == spelt(i)
             u == [k \in DOMAIN l |-> Unescaped(l[k])]
  <2>1. i \in 1 .. Len(text) /\ Len(text) \in Nat /\ DOMAIN text = 1 .. Len(text)
    BY <1>1
  <2>2. e \in i .. Len(text) /\ \A j \in i + 1 .. e : j \in DOMAIN text /\ text[j] \notin Openers
    BY <2>1, StretchSpans
  <2>3. L[i] = u
    BY <1>2, <1>1 DEF json_loads
  <2>4. /\ l \in Seq(S) /\ Len(l) = (IF i + 1 <= e THEN e - (i + 1) + 1 ELSE 0)
        /\ \A k \in 1 .. e - (i + 1) + 1 : l[k] = text[i + 1 + k - 1]
    <3>1. i + 1 \in Int /\ e \in Int
      BY <2>1, <2>2
    <3>2. \A j \in i + 1 .. e : text[j] \in S
      BY <2>2
    <3> QED BY ONLY <3>1, <3>2, SubSeqProperties
  <2> HIDE DEF l, e, L
  <2>5. Len(l) = e - i /\ DOMAIN l = 1 .. e - i
    <3>1. Len(l) = e - i
      BY <2>1, <2>2, <2>4
    <3>2. DOMAIN l = 1 .. Len(l)
      BY <2>4
    <3> QED BY <3>1, <3>2
  <2>6. ASSUME NEW k \in 1 .. e - i PROVE i + k \in i + 1 .. e /\ l[k] = text[i + k]
    <3>1. k \in 1 .. e - (i + 1) + 1 /\ i + 1 + k - 1 = i + k
      BY <2>1, <2>2
    <3>2. l[k] = text[i + 1 + k - 1]
      BY <2>4, <3>1
    <3> QED BY <3>1, <3>2, <2>1, <2>2
  <2>7. u \in Seq(Decoded(S))
    <3>1. \A k \in 1 .. Len(l) : l[k] \in S
      BY <2>4
    <3>2. \A s \in S : Unescaped(s) \in Decoded(S)
      BY DEF Unescaped, Decoded
    <3>3. Len(l) \in Nat /\ DOMAIN l = 1 .. Len(l)
      BY <2>4
    <3> QED BY <3>1, <3>2, <3>3
  <2>8. DOMAIN u = 1 .. e - i /\ \A k \in 1 .. e - i : u[k] = Unescaped(text[i + k])
    BY <2>5, <2>6
  <2> HIDE DEF u
  <2> QED BY <2>2, <2>3, <2>6, <2>7, <2>8 DEF e, L
<1> QED BY <1>1, <1>2

(* Where the symbols of a dumped JSON text come from: each is an opener or *)
(* one of the stretch behind it, in order, from a place of its own, and    *)
(* every opener is written.                                                *)
FromStretches(text, values, out, src, off) ==
    /\ \A q \in DOMAIN out :
          /\ src[q] \in DOMAIN values
          /\ \/ off[q] = 0 /\ out[q] = text[src[q]]
             \/ /\ off[q] \in DOMAIN values[src[q]] /\ off[q] > 0
                /\ out[q] = EscapedSymbol(values[src[q]][off[q]])
    /\ src \in [DOMAIN out -> DOMAIN text] /\ off \in [DOMAIN out -> Nat]
    /\ \A q, r \in DOMAIN out :
          q < r => src[q] < src[r] \/ (src[q] = src[r] /\ off[q] < off[r])
    /\ \A q, r \in DOMAIN out : src[q] = src[r] /\ off[q] = off[r] => q = r
    /\ \A i \in DOMAIN values : \E q \in DOMAIN out : src[q] = i /\ off[q] = 0

(* json.dumps writes keys and values in the order of the text. *)
LEMMA DumpedFrom ==
    ASSUME NEW S, NEW text \in Seq(S), NEW V,
           NEW values \in [DOMAIN json_loads(text) -> Seq(V)]
    PROVE  /\ json_dumps(text, values) \in Seq(S \cup V \cup {Escaped(s) : s \in V})
           /\ \E src, off : FromStretches(text, values, json_dumps(text, values), src, off)
<1> DEFINE n == Len(text)
           W == S \cup V \cup {Escaped(s) : s \in V}
           Written(o, l) == <<o>> \o [k \in DOMAIN l |-> EscapedSymbol(l[k])]
           P == [i \in DOMAIN text |->
                    IF i \in DOMAIN values THEN Written(text[i], values[i]) ELSE <<>>]
           out == json_dumps(text, values)
<1>1. n \in Nat /\ DOMAIN text = 1 .. n /\ DOMAIN values \in SUBSET (1 .. n)
  BY LoadsAre
<1>2. ASSUME NEW o \in S, NEW l \in Seq(V)
      PROVE  /\ Written(o, l) \in Seq(W) /\ 1 \in DOMAIN Written(o, l)
             /\ \A k \in DOMAIN Written(o, l) :
                   \/ k = 1 /\ Written(o, l)[k] = o
                   \/ /\ k \in Nat /\ k > 1 /\ k - 1 \in DOMAIN l
                      /\ Written(o, l)[k] = EscapedSymbol(l[k - 1])
  <2> DEFINE m == [k \in DOMAIN l |-> EscapedSymbol(l[k])]
             x == <<o>>
  <2>1. DOMAIN l = 1 .. Len(l) /\ Len(l) \in Nat /\ \A k \in 1 .. Len(l) : l[k] \in V
    OBVIOUS
  <2>2. \A s \in V : EscapedSymbol(s) \in W
    BY DEF EscapedSymbol
  <2>3. o \in W
    OBVIOUS
  <2> HIDE DEF W
  <2>4. m \in Seq(W) /\ Len(m) = Len(l) /\ \A k \in 1 .. Len(l) : m[k] = EscapedSymbol(l[k])
    BY <2>1, <2>2
  <2>5. x \in Seq(W) /\ Len(x) = 1 /\ x[1] = o
    BY <2>3
  <2> HIDE DEF m, x
  <2>6. /\ x \o m \in Seq(W) /\ Len(x \o m) = Len(x) + Len(m)
        /\ \A k \in 1 .. Len(x) + Len(m) :
              (x \o m)[k] = IF k <= Len(x) THEN x[k] ELSE m[k - Len(x)]
    BY <2>4, <2>5, ConcatProperties
  <2> DEFINE w == x \o m
  <2> HIDE DEF w
  <2>7. w \in Seq(W) /\ Len(w) = 1 + Len(l)
           /\ \A k \in 1 .. 1 + Len(l) : w[k] = IF k <= 1 THEN x[k] ELSE m[k - 1]
    BY <2>4, <2>5, <2>6 DEF w
  <2>8. \A k \in 1 .. 1 + Len(l) :
          \/ k = 1 /\ w[k] = o
          \/ /\ k \in Nat /\ k > 1 /\ k - 1 \in DOMAIN l
             /\ w[k] = EscapedSymbol(l[k - 1])
    <3> TAKE k \in 1 .. 1 + Len(l)
    <3>1. CASE k = 1
      BY <3>1, <2>5, <2>7
    <3>2. CASE k # 1
      <4>1. k \in Nat /\ k > 1 /\ k - 1 \in 1 .. Len(l)
        BY <3>2, <2>1
      <4> QED BY <4>1, <2>1, <2>4, <2>7
    <3> QED BY <3>1, <3>2
  <2>9. DOMAIN w = 1 .. 1 + Len(l) /\ 1 \in 1 .. 1 + Len(l)
    BY <2>1, <2>7
  <2>10. Written(o, l) = w
    BY DEF w, x, m
  <2> QED BY <2>7, <2>8, <2>9, <2>10
<1> HIDE DEF Written, W
<1>3. ASSUME NEW i \in DOMAIN values PROVE text[i] \in S /\ values[i] \in Seq(V) /\ i \in 1 .. n
  BY <1>1
<1>4. P \in Seq(Seq(W)) /\ Len(P) = n /\ \A i \in 1 .. n :
             P[i] = IF i \in DOMAIN values THEN Written(text[i], values[i]) ELSE <<>>
  <2>1. \A i \in 1 .. n :
          (IF i \in DOMAIN values THEN Written(text[i], values[i]) ELSE <<>>) \in Seq(W)
    <3> TAKE i \in 1 .. n
    <3>1. CASE i \in DOMAIN values
      BY <3>1, <1>2, <1>3
    <3>2. CASE i \notin DOMAIN values
      <4>1. <<>> \in Seq(W)
        OBVIOUS
      <4> QED BY <3>2, <4>1
    <3> QED BY <3>1, <3>2
  <2> QED BY <2>1, <1>1
<1>5. out = Seqs!FlattenSeq(P)
  BY DEF json_dumps, Written
<1> HIDE DEF P, out
<1>6. out \in Seq(W) /\ \E src, off : From(out, P, n, src, off)
  <2>1. P \in Seq(Seq(W)) /\ Len(P) = n
    BY <1>4
  <2>2. /\ Seqs!FlattenSeq(P) \in Seq(W)
        /\ \E src, off : From(Seqs!FlattenSeq(P), P, Len(P), src, off)
    BY <2>1, FlattenFrom
  <2> QED BY <2>1, <2>2, <1>5
<1>7. PICK src, place : From(out, P, n, src, place)
  BY <1>6
<1> DEFINE off == [q \in DOMAIN out |-> place[q] - 1]
<1> HIDE DEF n
<1>8. ASSUME NEW q \in DOMAIN out
      PROVE /\ src[q] \in DOMAIN values /\ place[q] \in Nat /\ place[q] > 0
            /\ \/ off[q] = 0 /\ out[q] = text[src[q]]
               \/ /\ off[q] \in DOMAIN values[src[q]] /\ off[q] > 0
                  /\ out[q] = EscapedSymbol(values[src[q]][off[q]])
  <2>1. /\ src[q] \in 1 .. n /\ place[q] \in DOMAIN P[src[q]]
        /\ out[q] = P[src[q]][place[q]] /\ off[q] = place[q] - 1
    BY <1>7 DEF From
  <2>2. PICK i \in 1 .. n : i = src[q]
    BY <2>1
  <2>3. i \in DOMAIN values /\ P[i] = Written(text[i], values[i])
    <3>1. DOMAIN <<>> = {}
      OBVIOUS
    <3>2. P[i] = IF i \in DOMAIN values THEN Written(text[i], values[i]) ELSE <<>>
      BY <1>4
    <3> QED BY <2>1, <2>2, <3>1, <3>2
  <2>4. PICK o \in S, l \in Seq(V) : o = text[i] /\ l = values[i]
    BY <2>3, <1>3
  <2>5. P[i] = Written(o, l) /\ place[q] \in DOMAIN Written(o, l)
    BY <2>1, <2>2, <2>3, <2>4
  <2>6. \A k \in DOMAIN Written(o, l) :
           \/ k = 1 /\ Written(o, l)[k] = o
           \/ /\ k \in Nat /\ k > 1 /\ k - 1 \in DOMAIN l
              /\ Written(o, l)[k] = EscapedSymbol(l[k - 1])
    BY <1>2
  <2> QED BY <2>1, <2>2, <2>3, <2>4, <2>5, <2>6
<1>9. src \in [DOMAIN out -> DOMAIN text] /\ off \in [DOMAIN out -> Nat]
  <2>1. src \in [DOMAIN out -> DOMAIN text]
    BY <1>7, <1>1 DEF From, n
  <2>2. \A q \in DOMAIN out : place[q] - 1 \in Nat
    BY <1>8
  <2> QED BY <2>1, <2>2
<1>10. ASSUME NEW q \in DOMAIN out, NEW r \in DOMAIN out, q < r
       PROVE  src[q] < src[r] \/ (src[q] = src[r] /\ off[q] < off[r])
  <2>1. src[q] < src[r] \/ (src[q] = src[r] /\ place[q] < place[r])
    BY <1>7, <1>10 DEF From
  <2>2. place[q] \in Nat /\ place[r] \in Nat
    BY <1>8
  <2>3. off[q] = place[q] - 1 /\ off[r] = place[r] - 1
    OBVIOUS
  <2> HIDE DEF off
  <2> QED BY <2>1, <2>2, <2>3
<1>11. ASSUME NEW i \in DOMAIN values PROVE \E q \in DOMAIN out : src[q] = i /\ off[q] = 0
  <2>1. i \in 1 .. n /\ 1 \in DOMAIN P[i]
    BY <1>2, <1>3, <1>4
  <2>2. PICK q \in DOMAIN out : src[q] = i /\ place[q] = 1
    BY <2>1, <1>7 DEF From
  <2>3. off[q] = 0
    BY <2>2
  <2> QED BY <2>2, <2>3
<1> HIDE DEF off
<1>12. ASSUME NEW q \in DOMAIN out, NEW r \in DOMAIN out, src[q] = src[r], off[q] = off[r]
       PROVE  q = r
  <2>1. q \in Nat /\ r \in Nat
    <3>1. DOMAIN out = 1 .. Len(out)
      BY <1>6
    <3> QED BY <3>1
  <2>2. src[q] \in Nat /\ off[q] \in Nat
    <3>1. src[q] \in DOMAIN text /\ off[q] \in Nat
      BY <1>9
    <3> QED BY <3>1
  <2>3. ~(q < r) /\ ~(r < q)
    BY <2>2, <1>10, <1>12
  <2> QED BY <2>1, <2>3
<1>13. FromStretches(text, values, out, src, off)
  BY <1>8, <1>9, <1>10, <1>11, <1>12 DEF FromStretches
<1> QED BY <1>6, <1>13 DEF out, W

(* mask_text returns a text. *)
LEMMA MaskTextIsText ==
    ASSUME NEW S, NEW text \in Seq(S), NEW entities, IsMasking(entities), NEW exempt, NEW raised
    PROVE  \E X : mask_text(text, entities, exempt, raised) \in Seq(X)
BY MaskText

(* mask_json_value masks every string value as a text of its own, and      *)
(* leaves keys and other values as they are.                               *)
LEMMA MaskedStretches ==
    ASSUME NEW S, NEW text \in Seq(S), NEW entities, IsMasking(entities), NEW exempt, NEW raised
    PROVE  LET masked == mask_json_value(text, entities, exempt, raised)
               L == json_loads(text)
           IN  /\ \E V : masked \in [DOMAIN L -> Seq(V)]
               /\ \A i \in DOMAIN L :
                     masked[i] = IF text[i] = Leaf THEN mask_text(L[i], entities, exempt, raised)
                                                   ELSE L[i]
<1> DEFINE masked == mask_json_value(text, entities, exempt, raised)
           L == json_loads(text)
           V == UNION {{masked[i][k] : k \in DOMAIN masked[i]} : i \in DOMAIN L}
<1>1. /\ DOMAIN masked = DOMAIN L /\ masked = [i \in DOMAIN L |-> masked[i]]
      /\ \A i \in DOMAIN L :
            masked[i] = IF text[i] = Leaf THEN mask_text(L[i], entities, exempt, raised) ELSE L[i]
  BY DEF mask_json_value
<1>2. \A i \in DOMAIN L : L[i] \in Seq(Decoded(S))
  BY LoadsAre
<1> HIDE DEF masked, L
<1>3. ASSUME NEW i \in DOMAIN L PROVE masked[i] \in Seq(V)
  <2>1. \E X : masked[i] \in Seq(X)
    <3>1. PICK t \in Seq(Decoded(S)) : t = L[i]
      BY <1>2
    <3>2. \E X : mask_text(t, entities, exempt, raised) \in Seq(X)
      BY MaskTextIsText
    <3> QED BY <1>1, <3>1, <3>2
  <2>2. \A k \in DOMAIN masked[i] : masked[i][k] \in V
    OBVIOUS
  <2> HIDE DEF V
  <2> QED BY <2>1, <2>2
<1> HIDE DEF V
<1>4. masked \in [DOMAIN L -> Seq(V)]
  BY <1>1, <1>3
<1> QED BY <1>1, <1>4 DEF masked, L

(* A placeholder is of the kind "masked". *)
LEMMA PlaceholderKind ==
    ASSUME NEW F, NEW f
    PROVE  Kind(Placeholder(F, f)) = "masked"
BY DEF Placeholder, Masked, Kind

(* What is written with an escape is read back, and opens nothing. *)
LEMMA EscapedKind ==
    ASSUME NEW s
    PROVE  /\ Unescaped(EscapedSymbol(s)) = s
           /\ EscapedSymbol(s) \notin Openers
           /\ Kind(EscapedSymbol(s)) # "escaped" => EscapedSymbol(s) = s
BY DEF EscapedSymbol, Escaped, EscapedKinds, Unescaped, Kind, Openers, Leaf, Bare

(* Whatever is neither an escape nor an opener is in a dumped text because *)
(* it is in a key or value.                                                *)
LEMMA InSomeStretch ==
    ASSUME NEW text, NEW values, NEW out, NEW src, NEW off,
           FromStretches(text, values, out, src, off), \A i \in DOMAIN values : text[i] \in Openers,
           NEW q \in DOMAIN out, Kind(out[q]) \notin {"escaped", "leaf", "bare"}
    PROVE  /\ src[q] \in DOMAIN values /\ off[q] \in DOMAIN values[src[q]]
           /\ out[q] = values[src[q]][off[q]]
<1>1. /\ src[q] \in DOMAIN values
      /\ \/ off[q] = 0 /\ out[q] = text[src[q]]
         \/ /\ off[q] \in DOMAIN values[src[q]]
            /\ out[q] = EscapedSymbol(values[src[q]][off[q]])
  BY DEF FromStretches
<1>2. Kind(out[q]) # "leaf" /\ Kind(out[q]) # "bare" /\ Kind(out[q]) # "escaped"
  OBVIOUS
<1>3. out[q] \notin Openers
  BY <1>2 DEF Openers, Leaf, Bare, Kind
<1>4. /\ off[q] \in DOMAIN values[src[q]]
      /\ out[q] = EscapedSymbol(values[src[q]][off[q]])
  BY <1>1, <1>3
<1> QED BY <1>1, <1>2, <1>4, EscapedKind

(* json.loads of what json.dumps wrote holds, behind a Leaf, nothing but   *)
(* symbols of one string value.                                            *)
LEMMA ReadBack ==
    ASSUME NEW S, NEW text \in Seq(S), NEW V,
           NEW values \in [DOMAIN json_loads(text) -> Seq(V)],
           NEW p \in DOMAIN json_dumps(text, values), json_dumps(text, values)[p] = Leaf
    PROVE  \E i \in DOMAIN values :
              /\ text[i] = Leaf
              /\ LET t == json_loads(json_dumps(text, values))[p]
                 IN  \A k \in DOMAIN t : \E m \in DOMAIN values[i] : t[k] = values[i][m]
<1> DEFINE out == json_dumps(text, values)
           t == json_loads(out)[p]
<1>1. PICK W : out \in Seq(W)
  BY DumpedFrom
<1>2. PICK src, off : FromStretches(text, values, out, src, off)
  BY DumpedFrom
<1>3. /\ out[p] = Leaf /\ p \in DOMAIN out
      /\ \A i \in DOMAIN values : text[i] \in Openers
  BY LoadsAre
<1>4. /\ DOMAIN t = 1 .. StretchEnd(out, p) - p
      /\ \A k \in DOMAIN t : /\ p + k \in DOMAIN out
                             /\ t[k] = Unescaped(out[p + k])
  <2>1. p \in DOMAIN json_loads(out)
    BY <1>1, <1>3, LoadsAre DEF Openers
  <2> QED BY <1>1, <2>1, LoadsAre
<1>5. /\ StretchEnd(out, p) \in p .. Len(out)
      /\ \A j \in p + 1 .. StretchEnd(out, p) : out[j] \notin Openers
  BY <1>1, <1>3, StretchSpans
<1>6. DOMAIN out = 1 .. Len(out) /\ Len(out) \in Nat /\ DOMAIN text \in SUBSET Nat
  BY <1>1
<1> HIDE DEF out, t
<1>7. \A q \in DOMAIN out :
         /\ src[q] \in DOMAIN values /\ src[q] \in Nat /\ off[q] \in Nat
         /\ \/ off[q] = 0 /\ out[q] = text[src[q]]
            \/ /\ off[q] \in DOMAIN values[src[q]] /\ off[q] > 0
               /\ out[q] = EscapedSymbol(values[src[q]][off[q]])
  BY <1>2, <1>6 DEF FromStretches
<1>8. \A q, r \in DOMAIN out :
         q < r => src[q] < src[r] \/ (src[q] = src[r] /\ off[q] < off[r])
  BY <1>2 DEF FromStretches
<1>9. \A i \in DOMAIN values : \E q \in DOMAIN out : src[q] = i /\ off[q] = 0
  BY <1>2 DEF FromStretches
<1>10. off[p] = 0 /\ text[src[p]] = Leaf
  BY <1>3, <1>7, EscapedKind DEF Openers
<1>11. ASSUME NEW k \in DOMAIN t
      PROVE  \E m \in DOMAIN values[src[p]] : t[k] = values[src[p]][m]
  <2>1. PICK q \in DOMAIN out : q = p + k /\ t[k] = Unescaped(out[q])
    BY <1>4
  <2>2. q \in p + 1 .. StretchEnd(out, p) /\ p \in Nat
    BY <2>1, <1>3, <1>4, <1>5, <1>6
  <2>3. src[p] <= src[q]
    <3>1. p < q
      BY <2>1, <2>2, <1>6
    <3>2. src[p] \in Nat /\ src[q] \in Nat
      BY <1>3, <1>7
    <3>3. src[p] < src[q] \/ src[p] = src[q]
      BY <3>1, <1>3, <1>8
    <3> QED BY <3>2, <3>3
  <2>4. ~(src[p] < src[q])
    <3> SUFFICES ASSUME src[p] < src[q] PROVE FALSE
      OBVIOUS
    <3>1. src[q] \in DOMAIN values /\ src[p] \in Nat /\ src[q] \in Nat /\ off[q] \in Nat
      BY <1>3, <1>7
    <3>2. PICK r \in DOMAIN out : src[r] = src[q] /\ off[r] = 0
      BY <3>1, <1>9
    <3>3. out[r] \in Openers
      <4>1. out[r] = text[src[r]]
        BY <3>2, <1>7
      <4> QED BY <4>1, <3>1, <3>2, <1>3
    <3>4. r \in Nat /\ q \in Nat /\ p \in Nat
      BY <1>3, <1>6
    <3>5. ~(r < p) /\ r # p
      <4>1. r < p => src[r] < src[p] \/ src[r] = src[p]
        BY <1>3, <1>8
      <4> QED BY <4>1, <3>1, <3>2
    <3>6. ~(q < r)
      <4>1. q < r => src[q] < src[r] \/ off[q] < off[r]
        BY <1>8
      <4> QED BY <4>1, <3>1, <3>2
    <3>7. r \in p + 1 .. StretchEnd(out, p)
      BY <3>4, <3>5, <3>6, <2>2, <1>5, <1>6
    <3> QED BY <3>3, <3>7, <1>5
  <2>5. src[q] = src[p]
    BY <2>3, <2>4, <1>3, <1>7
  <2>6. out[q] \notin Openers
    BY <2>2, <1>5
  <2>7. off[q] \in DOMAIN values[src[q]] /\ out[q] = EscapedSymbol(values[src[q]][off[q]])
    BY <2>6, <1>3, <1>7
  <2>8. t[k] = values[src[q]][off[q]]
    BY <2>1, <2>7, EscapedKind
  <2> QED BY <2>5, <2>7, <2>8
<1>12. src[p] \in DOMAIN values
  BY <1>3, <1>7
<1> QED BY <1>10, <1>11, <1>12 DEF out, t

(* What a text lacks, one of no other symbols lacks as well. *)
LEMMA FewerSymbols ==
    ASSUME NEW s, NEW t, \A k \in DOMAIN t : \E m \in DOMAIN s : t[k] = s[m], NEW exempt
    PROVE  /\ NoneOf(s, exempt) => NoneOf(t, exempt)
           /\ Positions(s, "amount") = {} => Positions(t, "amount") = {}
<1>1. ASSUME NEW kind, Positions(s, kind) = {} PROVE Positions(t, kind) = {}
  BY <1>1 DEF Positions
<1>2. Symbols(t, "digits") \subseteq Symbols(s, "digits")
  BY DEF Symbols, Positions
<1>3. {x[2] : x \in Symbols(t, "digits")} \subseteq {x[2] : x \in Symbols(s, "digits")}
  BY <1>2
<1>4. ASSUME NoneOf(s, exempt) PROVE NoneOf(t, exempt)
  <2>1. \A k \in MaskedKinds(exempt) : Positions(t, k) = {}
    BY <1>1, <1>4 DEF NoneOf
  <2> QED BY <2>1, <1>3, <1>4 DEF NoneOf
<1> QED BY <1>1, <1>4

(* Read back from a masked JSON text, no string value holds what masking   *)
(* replaces.                                                               *)
LEMMA MaskJsonLeavesNone ==
    ASSUME NEW S, NEW text \in Seq(S), NEW entities, IsMasking(entities), NEW exempt, NEW raised,
           DEFAULT_ENTITIES_TO_MASK \subseteq entities,
           "PROPRIETARY_SOURCE_MARKER" \notin exempt, ValidCards, ParsesAsJson(text)
    PROVE  LET out == mask_json_encoded_string(text, entities, exempt, raised)
           IN  \A p \in DOMAIN out : out[p] = Leaf =>
                  /\ NoneOf(json_loads(out)[p], exempt)
                  /\ "MONETARY_AMOUNT" \in entities \ exempt =>
                        Positions(json_loads(out)[p], "amount") = {}
<1> DEFINE out == mask_json_encoded_string(text, entities, exempt, raised)
           masked == mask_json_value(text, entities, exempt, raised)
           L == json_loads(text)
<1> SUFFICES ASSUME NEW p \in DOMAIN out, out[p] = Leaf
             PROVE  /\ NoneOf(json_loads(out)[p], exempt)
                    /\ "MONETARY_AMOUNT" \in entities \ exempt =>
                          Positions(json_loads(out)[p], "amount") = {}
  OBVIOUS
<1> HIDE DEF out
<1>1. out = json_dumps(text, masked)
  BY DEF mask_json_encoded_string, out
<1>2. PICK V : masked \in [DOMAIN L -> Seq(V)]
  BY MaskedStretches
<1>3. \A i \in DOMAIN L :
         /\ masked[i] = IF text[i] = Leaf THEN mask_text(L[i], entities, exempt, raised) ELSE L[i]
         /\ L[i] \in Seq(Decoded(S))
  BY MaskedStretches, LoadsAre
<1> HIDE DEF masked
<1>4. PICK i \in DOMAIN masked :
         /\ text[i] = Leaf
         /\ \A k \in DOMAIN json_loads(out)[p] : \E m \in DOMAIN masked[i] :
               json_loads(out)[p][k] = masked[i][m]
  BY <1>1, <1>2, ReadBack
<1> HIDE DEF L
<1>5. PICK t \in Seq(Decoded(S)) : masked[i] = mask_text(t, entities, exempt, raised)
  BY <1>2, <1>3, <1>4
<1>6. /\ NoneOf(masked[i], exempt)
      /\ "MONETARY_AMOUNT" \in entities \ exempt => Positions(masked[i], "amount") = {}
  BY <1>5, MaskTextLeavesNone
<1> QED BY <1>4, <1>6, FewerSymbols

-----------------------------------------------------------------------------
(* No match of an injection pattern comes into a masked text from two      *)
(* places: each is drawn from one of its own.                              *)
Drawn(out, places, from) ==
    /\ from \in [Positions(out, "attempt") -> places]
    /\ \A q, r \in Positions(out, "attempt") : from[q] = from[r] => q = r

(* In a text masked whole. *)
LEMMA MaskTextDrawn ==
    ASSUME NEW S, NEW text \in Seq(S), NEW entities, IsMasking(entities), NEW exempt, NEW raised
    PROVE  \E from : Drawn(mask_text(text, entities, exempt, raised),
                           Positions(text, "attempt"), from)
<1> DEFINE F == MaskedFindings(text, entities, exempt, raised)
           out == mask_text(text, entities, exempt, raised)
<1>1. PICK src : Kept(text, F, out, src)
  BY MaskText
<1>2. \E X : out \in Seq(X)
  BY MaskText
<1> HIDE DEF F, out
<1> DEFINE from == [q \in Positions(out, "attempt") |-> src[q]]
<1>3. ASSUME NEW q \in Positions(out, "attempt") PROVE from[q] \in Positions(text, "attempt")
  <2>1. q \in DOMAIN out /\ Kind(out[q]) = "attempt"
    BY DEF Positions
  <2>2. out[q] = text[src[q]] /\ src[q] \in DOMAIN text
    BY <1>1, <2>1, PlaceholderKind DEF Kept
  <2> QED BY <2>1, <2>2 DEF Positions
<1>4. ASSUME NEW q \in Positions(out, "attempt"), NEW r \in Positions(out, "attempt"),
             from[q] = from[r]
      PROVE  q = r
  <2>1. q \in DOMAIN out /\ r \in DOMAIN out
    BY DEF Positions
  <2>2. q \in Nat /\ r \in Nat
    BY <2>1, <1>2
  <2>3. src[q] \in DOMAIN text /\ src[r] \in DOMAIN text /\ src[q] = src[r]
    BY <2>1, <1>1, <1>4 DEF Kept
  <2>4. src[q] \in Nat
    BY <2>3
  <2>5. ~(q < r) /\ ~(r < q)
    BY <2>1, <2>3, <2>4, <1>1 DEF Kept
  <2> QED BY <2>2, <2>5
<1>5. Drawn(out, Positions(text, "attempt"), from)
  BY <1>3, <1>4 DEF Drawn
<1> QED BY <1>5 DEF out

(* The matches that json.loads brings out of a text. *)
Coded(text) == {i \in Positions(text, "escaped") : Kind(text[i][2]) = "attempt"}

(* In a text masked value by value. *)
LEMMA MaskJsonDrawn ==
    ASSUME NEW S, NEW text \in Seq(S), NEW entities, IsMasking(entities), NEW exempt, NEW raised,
           ParsesAsJson(text)
    PROVE  \E from : Drawn(mask_json_encoded_string(text, entities, exempt, raised),
                           Positions(text, "attempt") \cup Coded(text), from)
<1> DEFINE masked == mask_json_value(text, entities, exempt, raised)
           out == json_dumps(text, masked)
           L == json_loads(text)
<1>1. mask_json_encoded_string(text, entities, exempt, raised) = out
  BY DEF mask_json_encoded_string
<1>2. PICK V : masked \in [DOMAIN L -> Seq(V)]
  BY MaskedStretches
<1>3. /\ \A i : i \in DOMAIN L <=> i \in DOMAIN text /\ text[i] \in Openers
      /\ \A i \in DOMAIN L :
            /\ L[i] \in Seq(Decoded(S))
            /\ DOMAIN L[i] = 1 .. StretchEnd(text, i) - i
            /\ \A k \in DOMAIN L[i] :
                  i + k \in DOMAIN text /\ L[i][k] = Unescaped(text[i + k])
  BY LoadsAre
<1>4. ASSUME NEW i \in DOMAIN L PROVE \E from : Drawn(masked[i], Positions(L[i], "attempt"), from)
  <2>1. masked[i] = IF text[i] = Leaf THEN mask_text(L[i], entities, exempt, raised) ELSE L[i]
    BY MaskedStretches
  <2>2. CASE text[i] = Leaf
    BY <1>3, <2>1, <2>2, MaskTextDrawn
  <2>3. CASE text[i] # Leaf
    <3> DEFINE same == [k \in Positions(L[i], "attempt") |-> k]
    <3>1. masked[i] = L[i] /\ Drawn(L[i], Positions(L[i], "attempt"), same)
      BY <2>1, <2>3 DEF Drawn
    <3> QED BY <3>1
  <2> QED BY <2>2, <2>3
<1> HIDE DEF masked
<1>5. PICK src, off : FromStretches(text, masked, out, src, off)
  BY <1>2, DumpedFrom
<1> HIDE DEF out, L
<1>6. \A q, r \in DOMAIN out : src[q] = src[r] /\ off[q] = off[r] => q = r
  BY <1>5 DEF FromStretches
<1> DEFINE inside == [i \in DOMAIN L |-> CHOOSE from :
                                           Drawn(masked[i], Positions(L[i], "attempt"), from)]
           from == [q \in Positions(out, "attempt") |-> src[q] + inside[src[q]][off[q]]]
<1>7. \A i \in DOMAIN L : Drawn(masked[i], Positions(L[i], "attempt"), inside[i])
  BY <1>4
<1> HIDE DEF inside
<1>8. ASSUME NEW q \in Positions(out, "attempt")
      PROVE  /\ src[q] \in DOMAIN L /\ off[q] \in Positions(masked[src[q]], "attempt")
             /\ inside[src[q]][off[q]] \in Positions(L[src[q]], "attempt")
  <2>1. q \in DOMAIN out /\ Kind(out[q]) = "attempt"
    BY DEF Positions
  <2>2. \A i \in DOMAIN masked : text[i] \in Openers
    BY <1>2, <1>3
  <2>3. /\ src[q] \in DOMAIN masked /\ off[q] \in DOMAIN masked[src[q]]
        /\ out[q] = masked[src[q]][off[q]]
    BY <2>1, <2>2, <1>5, InSomeStretch
  <2>4. src[q] \in DOMAIN L
    BY <1>2, <2>3
  <2>5. off[q] \in Positions(masked[src[q]], "attempt")
    BY <2>1, <2>3 DEF Positions
  <2> QED BY <2>4, <2>5, <1>7 DEF Drawn
<1>9. ASSUME NEW q \in Positions(out, "attempt")
      PROVE  from[q] \in Positions(text, "attempt") \cup Coded(text)
  <2>1. PICK i \in DOMAIN L : i = src[q]
    BY <1>8
  <2>2. PICK k \in Positions(L[i], "attempt") : k = inside[i][off[q]]
    BY <1>8, <2>1
  <2>3. k \in DOMAIN L[i] /\ Kind(L[i][k]) = "attempt"
    BY DEF Positions
  <2>4. i + k \in DOMAIN text /\ Kind(Unescaped(text[i + k])) = "attempt"
    BY <2>3, <1>3
  <2>5. i + k \in Positions(text, "attempt") \cup Coded(text)
    BY <2>4 DEF Unescaped, Coded, Positions
  <2> QED BY <2>1, <2>2, <2>5
<1>10. ASSUME NEW q \in Positions(out, "attempt"), NEW r \in Positions(out, "attempt"),
              from[q] = from[r]
       PROVE  q = r
  <2>1. PICK i \in DOMAIN L, j \in DOMAIN L : i = src[q] /\ j = src[r]
    BY <1>8
  <2>2. PICK a \in DOMAIN L[i] : a = inside[i][off[q]]
    BY <1>8, <2>1 DEF Positions
  <2>3. PICK b \in DOMAIN L[j] : b = inside[j][off[r]]
    BY <1>8, <2>1 DEF Positions
  <2>4. i + a = j + b
    BY <1>10, <2>2, <2>3, <2>1
  <2>5. /\ i \in DOMAIN text /\ text[i] \in Openers /\ a \in 1 .. StretchEnd(text, i) - i
        /\ j \in DOMAIN text /\ text[j] \in Openers /\ b \in 1 .. StretchEnd(text, j) - j
    BY <1>3, <2>2, <2>3
  <2>6. /\ StretchEnd(text, i) \in i .. Len(text)
        /\ \A m \in i + 1 .. StretchEnd(text, i) : text[m] \notin Openers
        /\ StretchEnd(text, j) \in j .. Len(text)
        /\ \A m \in j + 1 .. StretchEnd(text, j) : text[m] \notin Openers
    BY <2>5, StretchSpans
  <2>7. i \in Nat /\ j \in Nat /\ a \in Nat /\ b \in Nat /\ a >= 1 /\ b >= 1
           /\ i + a <= StretchEnd(text, i) /\ j + b <= StretchEnd(text, j)
    BY <2>5, <2>6
  <2>8. ~(i < j)
    <3> SUFFICES ASSUME i < j PROVE FALSE
      OBVIOUS
    <3>1. j \in i + 1 .. StretchEnd(text, i)
      BY <2>4, <2>6, <2>7
    <3> QED BY <3>1, <2>5, <2>6
  <2>9. ~(j < i)
    <3> SUFFICES ASSUME j < i PROVE FALSE
      OBVIOUS
    <3>1. i \in j + 1 .. StretchEnd(text, j)
      BY <2>4, <2>6, <2>7
    <3> QED BY <3>1, <2>5, <2>6
  <2>10. i = j /\ a = b
    BY <2>4, <2>7, <2>8, <2>9
  <2>11. off[q] \in Positions(masked[i], "attempt") /\ off[r] \in Positions(masked[i], "attempt")
    BY <1>8, <2>10, <2>1
  <2>12. off[q] = off[r] /\ src[q] = src[r]
    BY <2>1, <2>2, <2>3, <2>10, <2>11, <1>7 DEF Drawn
  <2>13. q \in DOMAIN out /\ r \in DOMAIN out
    BY DEF Positions
  <2> QED BY <2>12, <2>13, <1>6
<1>11. Drawn(out, Positions(text, "attempt") \cup Coded(text), from)
  <2> HIDE DEF from
  <2>1. from \in [Positions(out, "attempt") -> Positions(text, "attempt") \cup Coded(text)]
    BY <1>9 DEF from
  <2> QED BY <2>1, <1>10 DEF Drawn
<1> QED BY <1>1, <1>11

(* The scan reports every match of an injection pattern in a text.         *)
LEMMA ScanCountsAttempts ==
    ASSUME NEW S, NEW text \in Seq(S), WellSpelt(text), NEW raised
    PROVE  /\ IsFiniteSet(Positions(text, "attempt"))
           /\ Cardinality(Positions(text, "attempt"))
                <= Cardinality(scan_text_for_injection(text, raised))
           /\ Cardinality(scan_text_for_injection(text, raised)) \in Nat
<1> DEFINE scan == scan_text_for_injection(text, raised)
           Att(i) == Finding("PROMPT_INJECTION_ATTEMPT", i, i + 1,
                             Raised("attempt", text[i][2], raised))
<1>1. IsFiniteSet(scan) /\ Cardinality(scan) \in Nat
  BY ScanFacts DEF scan_text_for_injection
<1>2. ASSUME NEW i \in Positions(text, "attempt") PROVE Att(i) \in scan
  <2>1. i \in DOMAIN text /\ Kind(text[i]) = "attempt"
    BY DEF Positions
  <2>2. text[i][2] \in AttemptScores
    BY <2>1 DEF WellSpelt, Spelt
  <2>3. text[i][2] \in Nat /\ text[i][2] >= 50 /\ text[i][2] <= MaxScore
    BY <2>2 DEF AttemptScores, MaxScore
  <2>4. Raised("attempt", text[i][2], raised) \in Nat
          /\ Raised("attempt", text[i][2], raised) >= text[i][2]
    BY <2>3, RaisedFacts
  <2>5. Raised("attempt", text[i][2], raised) >= ScoreThreshold
    BY <2>3, <2>4, ThresholdAssumption
  <2>6. FindingsAt(text, i, raised) = {Att(i)}
    BY <2>1 DEF FindingsAt
  <2>7. Att(i).entity = "PROMPT_INJECTION_ATTEMPT"
           /\ Att(i).score = Raised("attempt", text[i][2], raised)
    BY DEF Finding
  <2> QED BY <2>1, <2>5, <2>6, <2>7
       DEF scan_text_for_injection, scan_entities, INJECTION_ENTITY_TYPES
<1>3. \A i, j : Att(i) = Att(j) => i = j
  <2> TAKE i, j
  <2>1. Att(i).start = i /\ Att(j).start = j
    BY DEF Finding
  <2> HIDE DEF Att
  <2> QED BY <2>1
<1> DEFINE P == Positions(text, "attempt")
           m == [i \in P |-> Att(i)]
<1> HIDE DEF Att, scan
<1>4. m \in [P -> scan] /\ \A q, r \in P : m[q] = m[r] => q = r
  <2> HIDE DEF P
  <2>1. \A q, r \in P : m[q] = m[r] => q = r
    BY <1>3
  <2> QED BY <2>1, <1>2 DEF P
<1> HIDE DEF m, P
<1>5. IsFiniteSet(P) /\ Cardinality(P) <= Cardinality(scan)
  BY <1>1, <1>4, Injected
<1> QED BY <1>1, <1>5 DEF P, scan

(* Drawn from two sets of places, the matches in a text are no more than   *)
(* the places of both.                                                     *)
LEMMA DrawnCount ==
    ASSUME NEW out, NEW A, NEW B, IsFiniteSet(A), IsFiniteSet(B),
           NEW from, Drawn(out, A \cup B, from)
    PROVE  Cardinality(Positions(out, "attempt")) <= Cardinality(A) + Cardinality(B)
<1> DEFINE P == Positions(out, "attempt")
<1>1. /\ IsFiniteSet(A \cup B) /\ IsFiniteSet(A \cap B)
      /\ Cardinality(A \cup B) = Cardinality(A) + Cardinality(B) - Cardinality(A \cap B)
  BY FS_Union, FS_Intersection
<1>2. /\ Cardinality(A) \in Nat /\ Cardinality(B) \in Nat /\ Cardinality(A \cap B) \in Nat
      /\ Cardinality(A \cup B) \in Nat
  BY <1>1, FS_CardinalityType
<1>3. from \in [P -> A \cup B] /\ \A q, r \in P : from[q] = from[r] => q = r
  BY DEF Drawn
<1> HIDE DEF P
<1>4. IsFiniteSet(P) /\ Cardinality(P) <= Cardinality(A \cup B)
  BY <1>1, <1>3, Injected
<1>5. Cardinality(P) \in Nat
  BY <1>4, FS_CardinalityType
<1> QED BY <1>1, <1>2, <1>4, <1>5 DEF P

(* Two lines, one of which starts within the other, end together. *)
LEMMA SameLineEnd ==
    ASSUME NEW S, NEW text \in Seq(S), NEW m \in DOMAIN text, NEW i \in DOMAIN text,
           m <= i, i < EndOfLine(text, m)
    PROVE  EndOfLine(text, m) = EndOfLine(text, i)
<1>1. /\ EndOfLine(text, m) \in m + 1 .. Len(text) + 1
      /\ \A j \in m + 1 .. EndOfLine(text, m) - 1 : text[j] # Newline
      /\ EndOfLine(text, m) \in DOMAIN text => text[EndOfLine(text, m)] = Newline
  BY LineEnds
<1>2. /\ EndOfLine(text, i) \in i + 1 .. Len(text) + 1
      /\ \A j \in i + 1 .. EndOfLine(text, i) - 1 : text[j] # Newline
      /\ EndOfLine(text, i) \in DOMAIN text => text[EndOfLine(text, i)] = Newline
  BY LineEnds
<1>3. PICK a \in Nat, b \in Nat, n \in Nat :
         a = EndOfLine(text, m) /\ b = EndOfLine(text, i) /\ n = Len(text)
  BY <1>1, <1>2
<1>4. DOMAIN text = 1 .. n /\ m \in 1 .. n /\ i \in 1 .. n
  BY <1>3
<1>5. ~(a < b)
  <2> SUFFICES ASSUME a < b PROVE FALSE
    OBVIOUS
  <2>1. a \in i + 1 .. b - 1 /\ a \in 1 .. n
    BY <1>1, <1>2, <1>3, <1>4
  <2> QED BY <2>1, <1>1, <1>2, <1>3, <1>4
<1>6. ~(b < a)
  <2> SUFFICES ASSUME b < a PROVE FALSE
    OBVIOUS
  <2>1. b \in m + 1 .. a - 1 /\ b \in 1 .. n
    BY <1>1, <1>2, <1>3, <1>4
  <2> QED BY <2>1, <1>1, <1>2, <1>3, <1>4
<1> QED BY <1>3, <1>5, <1>6

(* A proprietary line is found from its first marker on. *)
LEMMA FirstMarker ==
    ASSUME NEW S, NEW text \in Seq(S), NEW i \in Positions(text, "marker")
    PROVE  \E m \in Positions(text, "marker") :
              m <= i /\ EndOfLine(text, m) = EndOfLine(text, i) /\ ~InMarkerLine(text, m)
<1> DEFINE T == {p \in Positions(text, "marker") : p <= i /\ i < EndOfLine(text, p)}
<1>1. /\ DOMAIN text = 1 .. Len(text) /\ Len(text) \in Nat /\ i \in DOMAIN text
      /\ \A p \in Positions(text, "marker") : p \in DOMAIN text /\ Kind(text[p]) = "marker"
      /\ \A p \in DOMAIN text : Kind(text[p]) = "marker" => p \in Positions(text, "marker")
  BY DEF Positions
<1>2. i \in T
  <2>1. EndOfLine(text, i) \in i + 1 .. Len(text) + 1
    BY <1>1, LineEnds
  <2> QED BY <2>1, <1>1
<1>3. PICK m \in T : \A p \in T : m <= p
  <2>1. T \in SUBSET Nat /\ T # {}
    BY <1>1, <1>2
  <2> HIDE DEF T
  <2> QED BY <2>1, Least
<1>4. EndOfLine(text, m) = EndOfLine(text, i)
  BY <1>1, SameLineEnd
<1>5. ~InMarkerLine(text, m)
  <2> SUFFICES ASSUME NEW p \in 1 .. m - 1, Kind(text[p]) = "marker", EndOfLine(text, p) > m
               PROVE  FALSE
    BY DEF InMarkerLine
  <2>1. p \in DOMAIN text /\ p < m /\ m \in DOMAIN text
    BY <1>1
  <2>2. EndOfLine(text, p) \in Nat
    <3>1. EndOfLine(text, p) \in p + 1 .. Len(text) + 1
      BY <2>1, LineEnds
    <3> QED BY <3>1, <2>1, <1>1
  <2>3. EndOfLine(text, p) = EndOfLine(text, m)
    <3>1. p <= m /\ m < EndOfLine(text, p)
      BY <2>1, <2>2, <1>1
    <3> QED BY <2>1, <3>1, SameLineEnd
  <2>4. p \in T
    <3>1. i < EndOfLine(text, p) /\ p <= i
      BY <2>1, <2>3, <1>1, <1>4
    <3> QED BY <3>1, <2>1, <1>1
  <2> QED BY <2>1, <2>4, <1>1, <1>3
<1> QED BY <1>4, <1>5

(* A line of which a word survives was dropped for a better finding in     *)
(* it.                                                                     *)
LEMMA MaskTextYields ==
    ASSUME NEW S, NEW text \in Seq(S), NEW entities, IsMasking(entities), NEW exempt,
           DEFAULT_ENTITIES_TO_MASK \subseteq entities,
           "PROPRIETARY_SOURCE_MARKER" \notin exempt
    PROVE  LinesYield(text, mask_text(text, entities, exempt, boosted))
<1> DEFINE scan == scan_entities(text, entities, boosted)
           accepted == resolve_overlap(scan)
           F == MaskedFindings(text, entities, exempt, boosted)
           out == mask_text(text, entities, exempt, boosted)
<1> SUFFICES ASSUME NEW i \in Positions(text, "marker"),
                    NEW j \in i + 1 .. EndOfLine(text, i) - 1, Survives(text, out, j)
             PROVE  \E m \in Positions(text, "marker") :
                       EndOfLine(text, m) = EndOfLine(text, i) /\ BetterInLine(text, m)
  BY DEF LinesYield
<1>1. PICK src : Kept(text, F, out, src)
  BY MaskText
<1>2. /\ \A g : g \in F <=> g \in accepted /\ g.entity \notin exempt
      /\ Resolved(scan, accepted)
  BY MaskedFacts
<1>3. /\ \A g \in scan : /\ g.start \in DOMAIN text
                         /\ g.end \in g.start + 1 .. Len(text) + 1
                         /\ g \in FindingsAt(text, g.start, boosted)
  BY ScanFacts
<1>4. SomeFindings(scan)
  BY ScanSome
<1> HIDE DEF out, F, accepted, scan
<1>5. ~Hit(F, j)
  <2>1. PICK k \in DOMAIN out : out[k] = text[j]
    BY DEF Survives
  <2>2. Kind(text[j]) = "word" /\ \A p \in DOMAIN text : text[p] = text[j] => p = j
    BY DEF Survives, Positions
  <2>3. ~Hit(F, src[k]) /\ out[k] = text[src[k]] /\ src[k] \in DOMAIN text
    BY <1>1, <2>1, <2>2, PlaceholderKind DEF Kept
  <2> QED BY <2>1, <2>2, <2>3
<1>6. PICK m \in Positions(text, "marker") :
         m <= i /\ EndOfLine(text, m) = EndOfLine(text, i) /\ ~InMarkerLine(text, m)
  BY FirstMarker
<1>7. m \in DOMAIN text /\ i \in DOMAIN text /\ Kind(text[m]) = "marker"
        /\ DOMAIN text = 1 .. Len(text) /\ Len(text) \in Nat
  BY DEF Positions
<1>8. EndOfLine(text, m) \in m + 1 .. Len(text) + 1
  BY <1>7, LineEnds
<1> DEFINE score == Raised("marker", Patterns["marker"].score, boosted)
           f == Finding("PROPRIETARY_SOURCE_MARKER", m, EndOfLine(text, m), score)
<1>9. FindingsAt(text, m, boosted) = {f}
  <2>1. Kind(text[m]) \in DOMAIN Patterns
    BY <1>7, PatternFacts
  <2>2. Kind(text[m]) = "marker" /\ ~InMarkerLine(text, m)
    BY <1>6, <1>7
  <2>3. FindingsAt(text, m, boosted)
          = {Finding(Patterns["marker"].entity, m, EndOfLine(text, m), score)}
    BY <2>1, <2>2, PatternFindings
  <2>4. Patterns["marker"].entity = "PROPRIETARY_SOURCE_MARKER"
    BY PatternFacts
  <2> QED BY <2>3, <2>4
<1>10. /\ f.start = m /\ f.end = EndOfLine(text, m) /\ f.score = score
       /\ f.entity = "PROPRIETARY_SOURCE_MARKER"
  BY DEF Finding
<1>11. score \in Nat /\ score >= 85
  <2>1. Patterns["marker"].score = 85 /\ 85 \in Nat /\ 85 <= MaxScore
    BY PatternFacts DEF MaxScore
  <2> QED BY <2>1, RaisedFacts
<1>12. f \in scan
  <2>1. "PROPRIETARY_SOURCE_MARKER" \in entities
    BY DEF DEFAULT_ENTITIES_TO_MASK, ENTITY_LABELS
  <2>2. f.score >= ScoreThreshold
    BY <1>10, <1>11, ThresholdAssumption
  <2> HIDE DEF f
  <2> QED BY <2>1, <2>2, <1>7, <1>9, <1>10 DEF scan, scan_entities
<1> HIDE DEF f
<1>13. f \notin accepted
  <2> SUFFICES ASSUME f \in accepted PROVE FALSE
    OBVIOUS
  <2>1. f \in F
    BY <1>2, <1>10
  <2>2. m <= j /\ j < EndOfLine(text, m)
    BY <1>6, <1>7, <1>8
  <2> QED BY <2>1, <2>2, <1>5, <1>10 DEF Hit
<1>14. PICK g \in accepted : Overlap(f, g) /\ Better(g, f)
  BY <1>2, <1>12, <1>13 DEF Resolved
<1>15. g \in scan /\ g # f
  BY <1>2, <1>13, <1>14 DEF Resolved
<1>16. PICK s \in DOMAIN text : s = g.start /\ g \in FindingsAt(text, s, boosted)
  BY <1>3, <1>15
<1>17. g.end \in s + 1 .. Len(text) + 1 /\ s # m
  BY <1>3, <1>9, <1>15, <1>16
<1>18. g.end > m /\ s < EndOfLine(text, m)
  <2>1. ~(EndOfLine(text, m) <= s \/ m >= g.end)
    BY <1>10, <1>14, <1>16 DEF Overlap
  <2> QED BY <2>1, <1>7, <1>8, <1>17
<1>19. ~(s < m)
  <2> SUFFICES ASSUME s < m PROVE FALSE
    OBVIOUS
  <2>1. g.end # s + 1
    BY <1>7, <1>17, <1>18
  <2>2. Kind(text[s]) = "marker" /\ g.end = EndOfLine(text, s)
    BY <2>1, <1>16, LongFindings
  <2>3. s \in 1 .. m - 1
    BY <1>7
  <2> QED BY <2>2, <2>3, <1>6, <1>18 DEF InMarkerLine
<1>20. s \in m + 1 .. EndOfLine(text, m) - 1
  BY <1>7, <1>8, <1>17, <1>18, <1>19
<1>21. g.score > score
  <2>1. ~(g.start < f.start) /\ g.start # f.start
    BY <1>10, <1>16, <1>17, <1>19
  <2> QED BY <2>1, <1>10, <1>14 DEF Better
<1>22. BetterInLine(text, m)
  <2>1. g.score > Raised("marker", Patterns.marker.score, boosted)
    BY <1>21
  <2> QED BY <2>1, <1>16, <1>20 DEF BetterInLine
<1> QED BY <1>6, <1>22

-----------------------------------------------------------------------------
(* The redaction of a text as a function: what one pass over it does to    *)
(* the passages of the tags.                                               *)

(* From i the line ends at e: at the first newline behind i, or with the   *)
(* text.                                                                   *)
EndsLine(c, i, e) ==
    /\ e \in DOMAIN c /\ i <= e
    /\ \A j \in DOMAIN c : i < j /\ j < e => c[j] # Newline
    /\ \/ i < e /\ c[e] = Newline
       \/ e = Len(c) /\ \A j \in DOMAIN c : i < j => c[j] # Newline

(* The block that opens at i ends at e, with the first closing tag. *)
EndsBlock(c, tag, i, e) ==
    /\ e \in DOMAIN c /\ i < e /\ c[e] = Closing(tag)
    /\ \A j \in DOMAIN c : i < j /\ j < e => c[j] # Closing(tag)

(* No closing tag comes behind i. *)
NoneCloses(c, tag, i) == \A j \in DOMAIN c : i < j => c[j] # Closing(tag)

(* The first x behind a position. *)
Ahead(c, i, x) == First({j \in Behind(c, i) : c[j] = x})

(* It is there, and none is before it, or there is none at all. *)
LEMMA FirstBehind ==
    ASSUME NEW S, NEW c, c \in Seq(S), NEW i \in DOMAIN c, NEW x
    PROVE  LET e == Ahead(c, i, x)
           IN  \/ /\ e = NoMatch /\ \A j \in DOMAIN c : i < j => c[j] # x
               \/ /\ e \in DOMAIN c /\ i < e /\ c[e] = x /\ e # NoMatch
                  /\ \A j \in DOMAIN c : i < j /\ j < e => c[j] # x
<1> DEFINE hits == {j \in Behind(c, i) : c[j] = x}
           e == First(hits)
<1>1. Ahead(c, i, x) = e
  BY DEF Ahead
<1>2. DOMAIN c = 1 .. Len(c) /\ Len(c) \in Nat
  OBVIOUS
<1>3. \A j : j \in hits <=> j \in DOMAIN c /\ i < j /\ c[j] = x
  BY <1>2 DEF Behind
<1>4. hits \in SUBSET (Nat \ {0})
  BY <1>2, <1>3
<1> HIDE DEF hits
<1>5. (hits = {} <=> e = NoMatch) /\ (hits # {} => e \in hits /\ \A k \in hits : e <= k)
  BY <1>4, FirstIs
<1> HIDE DEF e
<1>6. CASE hits = {}
  BY <1>3, <1>5, <1>6, <1>1
<1>7. CASE hits # {}
  <2>1. e \in DOMAIN c /\ i < e /\ c[e] = x /\ e # NoMatch
    BY <1>3, <1>5, <1>7
  <2>2. ASSUME NEW j \in DOMAIN c, i < j, j < e PROVE c[j] # x
    <3>1. j \in Nat /\ e \in Nat
      BY <1>2, <2>1
    <3>2. j \in hits => e <= j
      BY <1>5, <1>7
    <3> QED BY <3>1, <3>2, <2>2, <1>3
  <2> QED BY <2>1, <2>2, <1>1
<1> QED BY <1>6, <1>7

(* The block pattern matches to the first closing tag, if there is one. *)
LEMMA BlockEndIs ==
    ASSUME NEW S, NEW c, c \in Seq(S), NEW i \in DOMAIN c, NEW tag, c[i] = Opening(tag)
    PROVE  \/ BlockEnd(tag, c, i) = NoMatch /\ NoneCloses(c, tag, i)
           \/ BlockEnd(tag, c, i) # NoMatch /\ EndsBlock(c, tag, i, BlockEnd(tag, c, i))
<1> DEFINE x == Closing(tag)
           e == Ahead(c, i, x)
<1>1. BlockEnd(tag, c, i) = e
  BY DEF BlockEnd, Ahead
<1> HIDE DEF x
<1>2. \/ /\ e = NoMatch /\ \A j \in DOMAIN c : i < j => c[j] # x
      \/ /\ e \in DOMAIN c /\ i < e /\ c[e] = x /\ e # NoMatch
         /\ \A j \in DOMAIN c : i < j /\ j < e => c[j] # x
  BY FirstBehind
<1> HIDE DEF e
<1> QED BY <1>1, <1>2 DEF NoneCloses, EndsBlock, x

(* The line pattern matches to the end of the line. *)
LEMMA LineEndIs ==
    ASSUME NEW S, NEW c, c \in Seq(S), NEW i \in DOMAIN c, NEW tag, c[i] = Opening(tag)
    PROVE  EndsLine(c, i, LineEnd(tag, c, i)) /\ LineEnd(tag, c, i) # NoMatch
<1> DEFINE e == Ahead(c, i, Newline)
<1>1. LineEnd(tag, c, i) = IF e = NoMatch THEN Len(c) ELSE e
  BY DEF LineEnd, Ahead
<1>2. DOMAIN c = 1 .. Len(c) /\ Len(c) \in Nat
  OBVIOUS
<1>3. \/ /\ e = NoMatch /\ \A j \in DOMAIN c : i < j => c[j] # Newline
      \/ /\ e \in DOMAIN c /\ i < e /\ c[e] = Newline /\ e # NoMatch
         /\ \A j \in DOMAIN c : i < j /\ j < e => c[j] # Newline
  BY FirstBehind
<1> HIDE DEF e
<1>4. CASE e = NoMatch
  <2>1. Len(c) \in DOMAIN c /\ i <= Len(c) /\ Len(c) # NoMatch
    BY <1>2 DEF NoMatch
  <2> QED BY <2>1, <1>1, <1>3, <1>4 DEF EndsLine
<1>5. CASE e # NoMatch
  <2>1. i <= e
    BY <1>2, <1>3, <1>5
  <2> QED BY <2>1, <1>1, <1>3, <1>5 DEF EndsLine
<1> QED BY <1>4, <1>5

(* A line and a block have one end. *)
LEMMA OneEnd ==
    ASSUME NEW S, NEW c, c \in Seq(S), NEW i \in DOMAIN c, NEW e, NEW f
    PROVE  /\ EndsLine(c, i, e) /\ EndsLine(c, i, f) => e = f
           /\ \A tag : EndsBlock(c, tag, i, e) /\ EndsBlock(c, tag, i, f) => e = f
<1>1. DOMAIN c = 1 .. Len(c) /\ Len(c) \in Nat
  OBVIOUS
<1>2. ASSUME EndsLine(c, i, e), EndsLine(c, i, f) PROVE e = f
  <2>1. e \in DOMAIN c /\ f \in DOMAIN c
    BY <1>2 DEF EndsLine
  <2>2. CASE i < e /\ c[e] = Newline
    <3>1. i < f /\ c[f] = Newline
      BY <1>2, <2>1, <2>2 DEF EndsLine
    <3>2. ~(f < e)
      BY <1>2, <2>1, <3>1 DEF EndsLine
    <3>3. ~(e < f)
      BY <1>2, <2>1, <2>2 DEF EndsLine
    <3>4. e \in Nat /\ f \in Nat
      BY <1>1, <2>1
    <3> QED BY ONLY <3>2, <3>3, <3>4
  <2>3. CASE ~(i < e /\ c[e] = Newline)
    <3>1. e = Len(c) /\ \A j \in DOMAIN c : i < j => c[j] # Newline
      BY <1>2, <2>3 DEF EndsLine
    <3>2. f = Len(c)
      BY <1>2, <2>1, <3>1 DEF EndsLine
    <3> QED BY <3>1, <3>2
  <2> QED BY <2>2, <2>3
<1>3. ASSUME NEW tag, EndsBlock(c, tag, i, e), EndsBlock(c, tag, i, f) PROVE e = f
  <2>1. e \in DOMAIN c /\ f \in DOMAIN c /\ i < e /\ i < f
          /\ c[e] = Closing(tag) /\ c[f] = Closing(tag)
    BY <1>3 DEF EndsBlock
  <2>2. ~(f < e)
    BY <1>3, <2>1 DEF EndsBlock
  <2>3. ~(e < f)
    BY <1>3, <2>1 DEF EndsBlock
  <2>4. e \in Nat /\ f \in Nat
    BY <1>1, <2>1
  <2> QED BY ONLY <2>2, <2>3, <2>4
<1> QED BY <1>2, <1>3

(* What a passage is. *)
IsPassage(c, tag, s) ==
    /\ s = Stretch(s.from, s.to, s.line)
    /\ s.from \in DOMAIN c /\ c[s.from] = Opening(tag)
    /\ \/ ~s.line /\ s.line = FALSE /\ EndsBlock(c, tag, s.from, s.to)
       \/ s.line /\ s.line = TRUE /\ NoneCloses(c, tag, s.from) /\ EndsLine(c, s.from, s.to)

(* PassageStretches gives the passages of a tag, one for each place it     *)
(* opens at.                                                               *)
LEMMA PassageIs ==
    ASSUME NEW S, NEW c, c \in Seq(S), NEW tag
    PROVE  /\ \A s : s \in PassageStretches(c, tag) <=> IsPassage(c, tag, s)
           /\ \A i \in DOMAIN c : c[i] = Opening(tag) =>
                 \E s \in PassageStretches(c, tag) : s.from = i
<1> DEFINE At(i) == Stretch(i, IF BlockEnd(tag, c, i) # NoMatch THEN BlockEnd(tag, c, i)
                                                    ELSE LineEnd(tag, c, i),
                            BlockEnd(tag, c, i) = NoMatch)
<1>1. \A s : s \in PassageStretches(c, tag) <=>
                \E i \in DOMAIN c : c[i] = Opening(tag) /\ s = At(i)
  BY DEF PassageStretches
<1>2. ASSUME NEW i \in DOMAIN c
      PROVE  /\ At(i).from = i /\ At(i).line = (BlockEnd(tag, c, i) = NoMatch)
             /\ At(i).line => At(i).to = LineEnd(tag, c, i)
             /\ ~At(i).line => At(i).to = BlockEnd(tag, c, i)
             /\ At(i) = Stretch(At(i).from, At(i).to, At(i).line)
  BY DEF Stretch
<1> HIDE DEF At
<1>3. ASSUME NEW i \in DOMAIN c, c[i] = Opening(tag) PROVE IsPassage(c, tag, At(i))
  <2>1. CASE At(i).line
    <3>1. BlockEnd(tag, c, i) = NoMatch /\ At(i).to = LineEnd(tag, c, i) /\ At(i).line = TRUE
      BY <1>2, <2>1
    <3>2. NoneCloses(c, tag, i)
      BY <1>3, <3>1, BlockEndIs
    <3>3. EndsLine(c, i, LineEnd(tag, c, i))
      BY <1>3, LineEndIs
    <3> QED BY <1>2, <1>3, <2>1, <3>1, <3>2, <3>3 DEF IsPassage
  <2>2. CASE ~At(i).line
    <3>1. EndsBlock(c, tag, i, At(i).to)
      <4>1. BlockEnd(tag, c, i) # NoMatch /\ At(i).to = BlockEnd(tag, c, i)
        BY <1>2, <2>2
      <4>2. EndsBlock(c, tag, i, BlockEnd(tag, c, i))
        BY <1>3, <4>1, BlockEndIs
      <4> QED BY <4>1, <4>2
    <3> QED BY <1>2, <1>3, <2>2, <3>1 DEF IsPassage
  <2> QED BY <2>1, <2>2
<1>4. ASSUME NEW s, IsPassage(c, tag, s) PROVE s = At(s.from)
  <2> DEFINE i == s.from
  <2>1. i \in DOMAIN c /\ c[i] = Opening(tag) /\ s = Stretch(i, s.to, s.line)
    BY <1>4 DEF IsPassage
  <2>2. \/ BlockEnd(tag, c, i) = NoMatch /\ NoneCloses(c, tag, i)
        \/ BlockEnd(tag, c, i) # NoMatch /\ EndsBlock(c, tag, i, BlockEnd(tag, c, i))
    BY <2>1, BlockEndIs
  <2>3. CASE ~s.line
    <3>1. EndsBlock(c, tag, i, s.to) /\ s.line = FALSE
      BY <1>4, <2>3 DEF IsPassage
    <3>2. ~NoneCloses(c, tag, i)
      BY <3>1 DEF EndsBlock, NoneCloses
    <3>3. s.to = BlockEnd(tag, c, i) /\ BlockEnd(tag, c, i) # NoMatch
      <4>1. EndsBlock(c, tag, i, BlockEnd(tag, c, i)) /\ BlockEnd(tag, c, i) # NoMatch
        BY <2>2, <3>2
      <4>2. \A e, f : EndsBlock(c, tag, i, e) /\ EndsBlock(c, tag, i, f) => e = f
        BY <2>1, OneEnd
      <4> QED BY <3>1, <4>1, <4>2
    <3>4. ~At(i).line /\ At(i).line = FALSE
      BY <1>2, <2>1, <3>3
    <3>5. /\ At(i).from = i /\ At(i).to = s.to /\ At(i).line = s.line
          /\ At(i) = Stretch(At(i).from, At(i).to, At(i).line)
      BY <1>2, <2>1, <3>1, <3>3, <3>4
    <3> QED BY ONLY <2>1, <3>5
  <2>4. CASE s.line
    <3>1. NoneCloses(c, tag, i) /\ EndsLine(c, i, s.to) /\ s.line = TRUE
      BY <1>4, <2>4 DEF IsPassage
    <3>2. BlockEnd(tag, c, i) = NoMatch
      BY <2>2, <3>1 DEF NoneCloses, EndsBlock
    <3>3. s.to = LineEnd(tag, c, i)
      BY <2>1, <3>1, OneEnd, LineEndIs
    <3>4. At(i).line = TRUE
      BY <1>2, <2>1, <3>2
    <3>5. /\ At(i).from = i /\ At(i).to = s.to /\ At(i).line = s.line
          /\ At(i) = Stretch(At(i).from, At(i).to, At(i).line)
      BY <1>2, <2>1, <3>1, <3>3, <3>4
    <3> QED BY ONLY <2>1, <3>5
  <2> QED BY <2>3, <2>4
<1>5. ASSUME NEW s, IsPassage(c, tag, s) PROVE s \in PassageStretches(c, tag)
  BY <1>1, <1>4, <1>5 DEF IsPassage
<1>6. ASSUME NEW i \in DOMAIN c, c[i] = Opening(tag)
      PROVE  \E s \in PassageStretches(c, tag) : s.from = i
  BY <1>1, <1>2, <1>6
<1> QED BY <1>1, <1>3, <1>5, <1>6

(* Two passages do not start at the same place. *)
LEMMA OnePassage ==
    ASSUME NEW S, NEW c, c \in Seq(S), NEW t, NEW u, NEW s \in PassageStretches(c, t),
           NEW r \in PassageStretches(c, u), s.from = r.from
    PROVE  t = u /\ s = r
<1>1. IsPassage(c, t, s) /\ IsPassage(c, u, r)
  BY PassageIs
<1>2. t = u
  BY <1>1 DEF IsPassage, Opening
<1>3. s.line = r.line /\ s.to = r.to
  <2> DEFINE i == s.from
  <2>1. i \in DOMAIN c
    BY <1>1 DEF IsPassage
  <2>2. ASSUME NEW e, EndsBlock(c, t, i, e) PROVE ~NoneCloses(c, t, i)
    BY <2>2 DEF EndsBlock, NoneCloses
  <2> QED BY <1>1, <1>2, <2>1, <2>2, OneEnd DEF IsPassage
<1> QED BY <1>1, <1>2, <1>3 DEF IsPassage

(* A stretch of N holds the position. *)
Hits(N, i) == \E s \in N : s.from <= i /\ i <= s.to

(* N is what one pass cuts: the passages of one tag with a closing tag, or *)
(* those without, but those that open inside another one.                  *)
Cutting(c, tags, tag, line, N) ==
    /\ tag \in tags /\ line \in BOOLEAN
    /\ \A s \in N : s \in PassageStretches(c, tag) /\ s.line = line
    /\ \A s \in PassageStretches(c, tag) : s.line = line => Hits(N, s.from)

(* t is c with each stretch of N replaced by "[REDACTED]", and a newline   *)
(* behind it for a line.  src says where a symbol of t comes from: the     *)
(* newline from the end of the stretch.                                    *)
Rewritten(c, N, t, src) ==
    /\ src \in [DOMAIN t -> DOMAIN c]
    /\ \A q, r \in DOMAIN t : q < r => src[q] <= src[r]
    /\ \A q, r \in DOMAIN t : src[q] = src[r] /\ ~Hits(N, src[q]) => q = r
    /\ \A q \in DOMAIN t : ~Hits(N, src[q]) => t[q] = c[src[q]]
    /\ \A q \in DOMAIN t : Hits(N, src[q]) =>
          \/ t[q] = Redacted
          \/ /\ t[q] = Newline
             /\ \E s \in N : /\ s.line /\ src[q] = s.to
                             /\ \A r \in DOMAIN t : q < r => s.to < src[r]
    /\ \A i \in DOMAIN c : ~Hits(N, i) => \E q \in DOMAIN t : src[q] = i
    /\ \A s \in N : s.line => \E q \in DOMAIN t : src[q] = s.to /\ t[q] = Newline

(* What a pass over a text has to do with the passages of the text. *)
Pass(c, tags, tag, line, N, t, src) ==
    /\ Uncrossed(Passages(c, tags))
    /\ Cutting(c, tags, tag, line, N)
    /\ Rewritten(c, N, t, src)

(* Positions are numbers. *)
LEMMA TextPositions ==
    ASSUME NEW S, NEW c, c \in Seq(S)
    PROVE  /\ Len(c) \in Nat /\ DOMAIN c = 1 .. Len(c)
           /\ \A i \in DOMAIN c : i \in Nat /\ i <= Len(c)
           /\ \A u : \A s \in PassageStretches(c, u) :
                 /\ s.from \in DOMAIN c /\ s.to \in DOMAIN c /\ s.from <= s.to
                 /\ s.from \in Nat /\ s.to \in Nat /\ s.line \in BOOLEAN
<1>1. Len(c) \in Nat /\ DOMAIN c = 1 .. Len(c)
  OBVIOUS
<1>2. \A i \in DOMAIN c : i \in Nat /\ i <= Len(c)
  BY <1>1
<1>3. ASSUME NEW u, NEW s \in PassageStretches(c, u)
      PROVE  s.from \in DOMAIN c /\ s.to \in DOMAIN c /\ s.from <= s.to /\ s.line \in BOOLEAN
  <2>1. IsPassage(c, u, s)
    BY PassageIs
  <2>2. s.from \in DOMAIN c /\ s.to \in DOMAIN c /\ s.line \in BOOLEAN
          /\ (s.from < s.to \/ s.from <= s.to)
    BY <2>1 DEF IsPassage, EndsBlock, EndsLine
  <2> QED BY <2>2, <1>2
<1> QED BY <1>1, <1>2, <1>3

(* A stretch that is cut out of another passage lies within it. *)
LEMMA CutInside ==
    ASSUME NEW S, NEW c, c \in Seq(S), NEW tags, NEW tag, NEW line, NEW N,
           Uncrossed(Passages(c, tags)), Cutting(c, tags, tag, line, N),
           NEW u \in tags, NEW s \in PassageStretches(c, u), ~Hits(N, s.from),
           NEW n \in N, NEW k \in Nat, s.from <= k, k <= s.to, n.from <= k, k <= n.to
    PROVE  s.from < n.from /\ n.to <= s.to /\ (n.to = s.to => (n.line => s.line))
<1>1. n \in PassageStretches(c, tag) /\ tag \in tags
  BY DEF Cutting
<1>2. n \in Passages(c, tags) /\ s \in Passages(c, tags)
  BY <1>1 DEF Passages
<1>3. s.from \in Nat /\ s.to \in Nat /\ n.from \in Nat /\ n.to \in Nat /\ n.from <= n.to
  BY <1>1, TextPositions
<1>4. ~(n.from <= s.from /\ s.from <= n.to)
  BY DEF Hits
<1>5. \/ s.to < n.from \/ n.to < s.from
      \/ Within(s, n) \/ Within(n, s) \/ s = n
  BY <1>2 DEF Uncrossed
<1>6. ~(s.to < n.from) /\ ~(n.to < s.from)
  BY <1>3
<1>7. s # n
  BY <1>3, <1>4
<1>8. ~Within(s, n)
  BY <1>3, <1>4 DEF Within
<1>9. Within(n, s)
  BY <1>5, <1>6, <1>7, <1>8
<1>10. n.from # s.from
  BY <1>3, <1>4
<1> QED BY <1>3, <1>9, <1>10 DEF Within

(* The order of the symbols a pass keeps. *)
LEMMA KeptOrder ==
    ASSUME NEW S, NEW c, c \in Seq(S), NEW R, NEW t, t \in Seq(R), NEW N, NEW src,
           Rewritten(c, N, t, src), NEW q \in DOMAIN t, NEW r \in DOMAIN t
    PROVE  /\ q \in Nat /\ r \in Nat /\ src[q] \in Nat /\ src[r] \in Nat
           /\ src[q] \in DOMAIN c /\ src[r] \in DOMAIN c
           /\ q <= r => src[q] <= src[r]
           /\ src[q] < src[r] => q < r
           /\ q < r /\ (~Hits(N, src[q]) \/ ~Hits(N, src[r])) => src[q] < src[r]
<1>1. q \in Nat /\ r \in Nat
  BY TextPositions
<1>2. src[q] \in DOMAIN c /\ src[r] \in DOMAIN c
  BY DEF Rewritten
<1>3. src[q] \in Nat /\ src[r] \in Nat
  BY <1>2, TextPositions
<1>4. (q < r => src[q] <= src[r]) /\ (r < q => src[r] <= src[q])
  BY DEF Rewritten
<1>5. ASSUME q < r, ~Hits(N, src[q]) \/ ~Hits(N, src[r]) PROVE src[q] # src[r]
  <2>1. ASSUME src[q] = src[r] PROVE FALSE
    <3>1. ~Hits(N, src[q]) /\ src[q] = src[r]
      BY <1>5, <2>1
    <3>2. q = r
      BY <3>1 DEF Rewritten
    <3> QED BY <1>1, <1>5, <3>2
  <2> QED BY <2>1
<1> QED BY <1>1, <1>2, <1>3, <1>4, <1>5

(* Tags come from the text, and newlines too but those put behind a line. *)
LEMMA KeptSymbols ==
    ASSUME NEW c, NEW N, NEW t, NEW src, Rewritten(c, N, t, src), NEW q \in DOMAIN t
    PROVE  /\ ~Hits(N, src[q]) => t[q] = c[src[q]]
           /\ \A u : t[q] = Opening(u) \/ t[q] = Closing(u) => ~Hits(N, src[q])
           /\ Kind(t[q]) = "word" => ~Hits(N, src[q])
           /\ t[q] = Newline /\ Hits(N, src[q]) =>
                 \E s \in N : /\ s.line /\ src[q] = s.to
                              /\ \A r \in DOMAIN t : q < r => s.to < src[r]
<1>1. ~Hits(N, src[q]) => t[q] = c[src[q]]
  BY DEF Rewritten
<1>2. Hits(N, src[q]) => t[q] = Redacted \/ t[q] = Newline
  BY DEF Rewritten
<1>3. \A u : /\ Opening(u) # Redacted /\ Opening(u) # Newline
             /\ Closing(u) # Redacted /\ Closing(u) # Newline
  BY DEF Opening, Closing, Redacted, Newline
<1>4. Kind(Redacted) # "word" /\ Kind(Newline) # "word" /\ Redacted # Newline
  BY DEF Kind, Redacted, Newline
<1>5. t[q] = Newline /\ Hits(N, src[q]) =>
         \E s \in N : /\ s.line /\ src[q] = s.to
                      /\ \A r \in DOMAIN t : q < r => s.to < src[r]
  BY <1>4 DEF Rewritten
<1> QED BY <1>1, <1>2, <1>3, <1>4, <1>5

(* The passage s of c is r in t: it opens and ends where s does, unless it *)
(* is a line that ends with the text, and holds the same kept symbols.     *)
Image(c, N, t, src, s, r) ==
    /\ src[r.from] = s.from /\ ~Hits(N, s.from) /\ r.line = s.line
    /\ \/ src[r.to] = s.to /\ (~s.line => ~Hits(N, s.to))
       \/ s.line /\ s.to = Len(c) /\ r.to = Len(t)
    /\ \A q \in DOMAIN t : ~Hits(N, src[q]) =>
          (r.from <= q /\ q <= r.to <=> s.from <= src[q] /\ src[q] <= s.to)

(* Between two kept symbols stand the same kept symbols as before. *)
LEMMA ImageSpan ==
    ASSUME NEW S, NEW c, c \in Seq(S), NEW R, NEW t, t \in Seq(R), NEW N, NEW src,
           Rewritten(c, N, t, src), NEW p \in DOMAIN t, NEW e \in DOMAIN t, ~Hits(N, src[p])
    PROVE  \A q \in DOMAIN t : ~Hits(N, src[q]) =>
              (p <= q /\ q <= e <=> src[p] <= src[q] /\ src[q] <= src[e])
<1> SUFFICES ASSUME NEW q \in DOMAIN t, ~Hits(N, src[q])
             PROVE  p <= q /\ q <= e <=> src[p] <= src[q] /\ src[q] <= src[e]
  OBVIOUS
<1>1. p \in Nat /\ q \in Nat /\ e \in Nat /\ src[p] \in Nat /\ src[q] \in Nat /\ src[e] \in Nat
  BY KeptOrder
<1>2. (p <= q => src[p] <= src[q]) /\ (q < p => src[q] < src[p])
  BY KeptOrder
<1>3. (q <= e => src[q] <= src[e]) /\ (e < q => src[e] < src[q])
  BY KeptOrder
<1> QED BY <1>1, <1>2, <1>3

(* What is left in t of a block and of a line of c. *)
BlockAgain(N, t, u, src, s, q, e) ==
    IsPassage(t, u, Stretch(q, e, FALSE)) /\ src[e] = s.to /\ ~Hits(N, s.to)

LineAgain(c, t, u, src, s, q, e) ==
    /\ IsPassage(t, u, Stretch(q, e, TRUE))
    /\ src[e] = s.to \/ (s.to = Len(c) /\ e = Len(t))

(* The end of a block is kept when its opening tag is. *)
LEMMA BlockImage ==
    ASSUME NEW S, NEW c, c \in Seq(S), NEW R, NEW t, t \in Seq(R), NEW tags, NEW tag, NEW line,
           NEW N, NEW src, Pass(c, tags, tag, line, N, t, src),
           NEW u \in tags, NEW s \in PassageStretches(c, u), ~s.line,
           NEW q \in DOMAIN t, src[q] = s.from, ~Hits(N, s.from)
    PROVE  \E e \in DOMAIN t : BlockAgain(N, t, u, src, s, q, e)
<1>1. /\ s.from \in DOMAIN c /\ c[s.from] = Opening(u) /\ EndsBlock(c, u, s.from, s.to)
      /\ s.line = FALSE
  <2>1. IsPassage(c, u, s)
    BY PassageIs
  <2> QED BY <2>1 DEF IsPassage
<1>2. s.to \in DOMAIN c /\ s.from < s.to /\ c[s.to] = Closing(u) /\ s.to \in Nat /\ s.from \in Nat
        /\ s.from <= s.to
  BY <1>1, TextPositions DEF EndsBlock
<1>3. ~Hits(N, s.to)
  <2> SUFFICES ASSUME NEW n \in N, n.from <= s.to, s.to <= n.to PROVE FALSE
    BY DEF Hits
  <2>1. n.to <= s.to /\ (n.to = s.to => (n.line => s.line))
    BY <1>2, CutInside DEF Pass
  <2>2. n \in PassageStretches(c, tag) /\ n.line = line
    BY DEF Pass, Cutting
  <2>3. n.to = s.to
    <3>1. n.to \in Nat
      BY <2>2, TextPositions
    <3> QED BY <2>1, <3>1, <1>2
  <2>4. ~n.line
    BY <2>1, <2>3
  <2>5. c[n.to] = Closing(tag) /\ n.line = FALSE
    <3>1. IsPassage(c, tag, n)
      BY <2>2, PassageIs
    <3> QED BY <3>1, <2>4 DEF IsPassage, EndsBlock
  <2>6. u = tag
    BY <1>2, <2>3, <2>5 DEF Closing
  <2>7. s.line = line
    BY <1>1, <2>2, <2>5
  <2> QED BY <2>6, <2>7 DEF Pass, Cutting
<1>4. PICK e \in DOMAIN t : src[e] = s.to
  BY <1>2, <1>3 DEF Pass, Rewritten
<1>5. t[e] = Closing(u) /\ t[q] = Opening(u)
  BY <1>1, <1>2, <1>3, <1>4, KeptSymbols DEF Pass
<1>6. q < e
  BY <1>2, <1>4, KeptOrder DEF Pass
<1>7. ASSUME NEW j \in DOMAIN t, q < j, j < e PROVE t[j] # Closing(u)
  <2> SUFFICES ASSUME t[j] = Closing(u) PROVE FALSE
    OBVIOUS
  <2>1. ~Hits(N, src[j]) /\ t[j] = c[src[j]]
    BY KeptSymbols DEF Pass
  <2>2. src[q] < src[j] /\ src[j] < src[e] /\ src[j] \in DOMAIN c
    BY <1>7, <2>1, KeptOrder DEF Pass
  <2> QED BY <2>1, <2>2, <1>1, <1>4 DEF EndsBlock
<1>8. EndsBlock(t, u, q, e)
  BY <1>5, <1>6, <1>7 DEF EndsBlock
<1>9. IsPassage(t, u, Stretch(q, e, FALSE))
  BY <1>5, <1>8 DEF IsPassage, Stretch
<1> QED BY <1>3, <1>4, <1>9 DEF BlockAgain

(* A newline a pass has put in was put behind a line it cut. *)
LEMMA InsertedNewline ==
    ASSUME NEW S, NEW c, c \in Seq(S), NEW R, NEW t, t \in Seq(R), NEW tags, NEW tag, NEW line,
           NEW N, NEW src, Pass(c, tags, tag, line, N, t, src),
           NEW j \in DOMAIN t, t[j] = Newline, Hits(N, src[j]),
           NEW q \in DOMAIN t, q < j, ~Hits(N, src[q]), NEW r \in DOMAIN t, j < r
    PROVE  src[q] < src[j] /\ src[j] < src[r] /\ c[src[j]] = Newline
<1>1. PICK n \in N : n.line /\ src[j] = n.to /\ \A k \in DOMAIN t : j < k => n.to < src[k]
  BY KeptSymbols DEF Pass
<1>2. n \in PassageStretches(c, tag)
  BY DEF Pass, Cutting
<1>3. src[q] <= src[j] /\ src[q] \in Nat /\ src[j] \in Nat /\ src[r] \in Nat /\ src[r] \in DOMAIN c
        /\ q \in Nat /\ j \in Nat /\ r \in Nat
  <2>1. q \in Nat /\ j \in Nat
    BY TextPositions
  <2>2. q <= j
    BY <2>1
  <2> QED BY <2>2, KeptOrder DEF Pass
<1>4. src[q] # src[j]
  BY DEF Pass
<1>5. src[j] < src[r]
  BY <1>1
<1>6. n.to # Len(c)
  <2>1. src[r] <= Len(c) /\ Len(c) \in Nat
    BY <1>3, TextPositions
  <2> QED BY <2>1, <1>1, <1>3, <1>5
<1>7. EndsLine(c, n.from, n.to)
  BY <1>1, <1>2, PassageIs DEF IsPassage
<1>8. c[n.to] = Newline
  BY <1>6, <1>7 DEF EndsLine
<1> QED BY <1>1, <1>3, <1>4, <1>5, <1>8

(* Whatever was cut behind it, a line still ends at its newline, or with   *)
(* the text.                                                               *)
LEMMA LineImage ==
    ASSUME NEW S, NEW c, c \in Seq(S), NEW R, NEW t, t \in Seq(R), NEW tags, NEW tag, NEW line,
           NEW N, NEW src, Pass(c, tags, tag, line, N, t, src),
           NEW u \in tags, NEW s \in PassageStretches(c, u), s.line,
           NEW q \in DOMAIN t, src[q] = s.from, ~Hits(N, s.from)
    PROVE  \E e \in DOMAIN t : LineAgain(c, t, u, src, s, q, e)
<1>1. /\ s.from \in DOMAIN c /\ c[s.from] = Opening(u) /\ EndsLine(c, s.from, s.to)
      /\ NoneCloses(c, u, s.from)
  BY PassageIs DEF IsPassage
<1>2. s.to \in DOMAIN c /\ s.from <= s.to /\ s.to \in Nat /\ s.from \in Nat
  BY TextPositions
<1>3. t[q] = Opening(u)
  BY <1>1, KeptSymbols DEF Pass
<1>4. NoneCloses(t, u, q)
  <2> SUFFICES ASSUME NEW j \in DOMAIN t, q < j, t[j] = Closing(u) PROVE FALSE
    BY DEF NoneCloses
  <2>1. ~Hits(N, src[j]) /\ t[j] = c[src[j]]
    BY KeptSymbols DEF Pass
  <2>2. src[q] < src[j] /\ src[j] \in DOMAIN c
    BY <2>1, KeptOrder DEF Pass
  <2> QED BY <2>1, <2>2, <1>1 DEF NoneCloses
<1>5. ASSUME NEW j \in DOMAIN t, t[j] = Newline, q < j, NEW e \in DOMAIN t, j < e
      PROVE  src[q] < src[j] /\ src[j] < src[e] /\ c[src[j]] = Newline /\ src[j] \in DOMAIN c
  <2>1. src[j] \in DOMAIN c
    BY KeptOrder DEF Pass
  <2>2. CASE Hits(N, src[j])
    BY <1>5, <2>1, <2>2, InsertedNewline
  <2>3. CASE ~Hits(N, src[j])
    BY <1>5, <2>1, <2>3, KeptOrder, KeptSymbols DEF Pass
  <2> QED BY <2>2, <2>3
<1>6. CASE s.from < s.to /\ c[s.to] = Newline
  <2>1. PICK e \in DOMAIN t : src[e] = s.to /\ t[e] = Newline
    <3>1. CASE ~Hits(N, s.to)
      BY <1>2, <1>6, <3>1 DEF Pass, Rewritten
    <3>2. CASE Hits(N, s.to)
      <4>1. PICK n \in N : n.from <= s.to /\ s.to <= n.to
        BY <3>2 DEF Hits
      <4>2. n.to <= s.to
        BY <1>2, <4>1, CutInside DEF Pass
      <4>3. n \in PassageStretches(c, tag)
        BY DEF Pass, Cutting
      <4>4. n.to = s.to
        <5>1. n.to \in Nat
          BY <4>3, TextPositions
        <5> QED BY <4>1, <4>2, <5>1, <1>2
      <4>5. n.line
        <5>1. ~n.line => c[n.to] = Closing(tag)
          <6>1. IsPassage(c, tag, n)
            BY <4>3, PassageIs
          <6> QED BY <6>1 DEF IsPassage, EndsBlock
        <5> QED BY <5>1, <4>4, <1>6 DEF Closing, Newline
      <4> QED BY <4>4, <4>5 DEF Pass, Rewritten
    <3> QED BY <3>1, <3>2
  <2>2. q < e
    BY <2>1, <1>6, KeptOrder DEF Pass
  <2>3. ASSUME NEW j \in DOMAIN t, q < j, j < e PROVE t[j] # Newline
    <3> SUFFICES ASSUME t[j] = Newline PROVE FALSE
      OBVIOUS
    <3>1. src[q] < src[j] /\ src[j] < src[e] /\ c[src[j]] = Newline /\ src[j] \in DOMAIN c
      BY <1>5, <2>3
    <3> QED BY <3>1, <2>1, <1>1 DEF EndsLine
  <2>4. EndsLine(t, q, e)
    <3>1. q <= e
      BY <2>2, KeptOrder DEF Pass
    <3> QED BY <2>1, <2>2, <2>3, <3>1 DEF EndsLine
  <2>5. IsPassage(t, u, Stretch(q, e, TRUE))
    BY <1>3, <1>4, <2>4 DEF IsPassage, Stretch
  <2> QED BY <2>1, <2>5 DEF LineAgain
<1>7. CASE ~(s.from < s.to /\ c[s.to] = Newline)
  <2>1. s.to = Len(c) /\ \A j \in DOMAIN c : s.from < j => c[j] # Newline
    BY <1>1, <1>7 DEF EndsLine
  <2> DEFINE e == Len(t)
  <2>2. e \in DOMAIN t /\ e \in Nat /\ \A j \in DOMAIN t : j \in Nat /\ j <= e
    <3>1. e \in Nat /\ DOMAIN t = 1 .. e /\ q \in 1 .. e
      BY TextPositions
    <3> QED BY <3>1
  <2> HIDE DEF e
  <2>3. ASSUME NEW j \in DOMAIN t, q < j, j < e PROVE t[j] # Newline
    <3> SUFFICES ASSUME t[j] = Newline PROVE FALSE
      OBVIOUS
    <3>1. src[q] < src[j] /\ c[src[j]] = Newline /\ src[j] \in DOMAIN c
      BY <1>5, <2>2, <2>3
    <3> QED BY <3>1, <2>1
  <2>4. EndsLine(t, q, e)
    <3>1. CASE q < e /\ t[e] = Newline
      BY <2>2, <2>3, <3>1 DEF EndsLine
    <3>2. CASE ~(q < e /\ t[e] = Newline)
      <4>1. ASSUME NEW j \in DOMAIN t, q < j PROVE t[j] # Newline
        <5>1. j < e \/ j = e
          BY <2>2
        <5> QED BY <4>1, <5>1, <2>3, <3>2
      <4> QED BY <2>2, <2>3, <4>1 DEF EndsLine, e
    <3> QED BY <3>1, <3>2
  <2>5. IsPassage(t, u, Stretch(q, e, TRUE))
    BY <1>3, <1>4, <2>4 DEF IsPassage, Stretch
  <2> QED BY <2>1, <2>2, <2>5 DEF e, LineAgain
<1> QED BY <1>6, <1>7

(* Every passage whose tag a pass keeps is a passage of the text it        *)
(* returns, with the same kept symbols in it.                              *)
LEMMA PassageKept ==
    ASSUME NEW S, NEW c, c \in Seq(S), NEW R, NEW t, t \in Seq(R), NEW tags, NEW tag, NEW line,
           NEW N, NEW src, Pass(c, tags, tag, line, N, t, src),
           NEW u \in tags, NEW s \in PassageStretches(c, u),
           NEW q \in DOMAIN t, src[q] = s.from, ~Hits(N, s.from)
    PROVE  \E r \in PassageStretches(t, u) : r.from = q /\ Image(c, N, t, src, s, r)
<1>1. CASE ~s.line
  <2>1. PICK e \in DOMAIN t : BlockAgain(N, t, u, src, s, q, e)
    BY <1>1, BlockImage
  <2> DEFINE r == Stretch(q, e, FALSE)
  <2>2. r \in PassageStretches(t, u) /\ r.from = q /\ r.to = e /\ r.line = FALSE
    BY <2>1, PassageIs DEF Stretch, BlockAgain
  <2>3. s.line = FALSE
    BY <1>1, TextPositions
  <2>4. \A p \in DOMAIN t : ~Hits(N, src[p]) =>
           (q <= p /\ p <= e <=> s.from <= src[p] /\ src[p] <= s.to)
    BY <2>1, ImageSpan DEF Pass, BlockAgain
  <2> HIDE DEF r
  <2> QED BY <2>1, <2>2, <2>3, <2>4 DEF Image, BlockAgain
<1>2. CASE s.line
  <2>1. PICK e \in DOMAIN t : LineAgain(c, t, u, src, s, q, e)
    BY <1>2, LineImage
  <2> DEFINE r == Stretch(q, e, TRUE)
  <2>2. r \in PassageStretches(t, u) /\ r.from = q /\ r.to = e /\ r.line = TRUE
    BY <2>1, PassageIs DEF Stretch, LineAgain
  <2>3. s.line = TRUE
    BY <1>2, TextPositions
  <2>4. ASSUME NEW p \in DOMAIN t, ~Hits(N, src[p])
        PROVE  q <= p /\ p <= e <=> s.from <= src[p] /\ src[p] <= s.to
    <3>1. CASE src[e] = s.to
      BY <2>4, <3>1, ImageSpan DEF Pass
    <3>2. CASE s.to = Len(c) /\ e = Len(t)
      <4>1. p <= e
        BY <3>2, TextPositions
      <4>2. src[p] <= s.to
        <5>1. src[p] \in DOMAIN c
          BY KeptOrder DEF Pass
        <5> QED BY <3>2, <5>1, TextPositions
      <4>3. q <= p <=> src[q] <= src[p]
        <5>1. /\ q \in Nat /\ p \in Nat /\ src[p] \in Nat /\ src[q] \in Nat
              /\ q <= p => src[q] <= src[p]
              /\ p < q => src[p] < src[q]
          BY KeptOrder DEF Pass
        <5> QED BY <5>1
      <4> QED BY <4>1, <4>2, <4>3
    <3> QED BY <2>1, <3>1, <3>2 DEF LineAgain
  <2> HIDE DEF r
  <2> QED BY <2>1, <2>2, <2>3, <2>4 DEF Image, LineAgain
<1> QED BY <1>1, <1>2

(* And there are no others. *)
LEMMA PassageFrom ==
    ASSUME NEW S, NEW c, c \in Seq(S), NEW R, NEW t, t \in Seq(R), NEW tags, NEW tag, NEW line,
           NEW N, NEW src, Pass(c, tags, tag, line, N, t, src),
           NEW u \in tags, NEW r \in PassageStretches(t, u)
    PROVE  \E s \in PassageStretches(c, u) : Image(c, N, t, src, s, r)
<1>1. r.from \in DOMAIN t /\ t[r.from] = Opening(u)
  <2>1. IsPassage(t, u, r)
    BY PassageIs
  <2> QED BY <2>1 DEF IsPassage
<1> DEFINE q == r.from
<1>2. ~Hits(N, src[q]) /\ t[q] = c[src[q]] /\ src[q] \in DOMAIN c
  <2>1. ~Hits(N, src[q])
    BY <1>1, KeptSymbols DEF Pass
  <2>2. t[q] = c[src[q]]
    BY <1>1, <2>1, KeptSymbols DEF Pass
  <2> QED BY <1>1, <2>1, <2>2, KeptOrder DEF Pass
<1>3. PICK s \in PassageStretches(c, u) : s.from = src[q]
  BY <1>1, <1>2, PassageIs
<1>4. PICK o \in PassageStretches(t, u) : o.from = q /\ Image(c, N, t, src, s, o)
  BY <1>1, <1>2, <1>3, PassageKept
<1>5. o = r
  BY <1>4, OnePassage
<1> QED BY <1>4, <1>5

(* Where a line within another passage of the text ends, when the text the *)
(* pass returns is cut the same way.                                       *)
LEMMA WithinKept ==
    ASSUME NEW S, NEW c, c \in Seq(S), NEW R, NEW t, t \in Seq(R), NEW tags, NEW tag, NEW line,
           NEW N, NEW src, Pass(c, tags, tag, line, N, t, src),
           NEW u \in tags, NEW s \in PassageStretches(c, u), NEW a \in PassageStretches(t, u),
           Image(c, N, t, src, s, a),
           NEW v \in tags, NEW o \in PassageStretches(c, v), NEW b \in PassageStretches(t, v),
           Image(c, N, t, src, o, b), Within(s, o)
    PROVE  Within(a, b)
<1>1. /\ a.from \in DOMAIN t /\ a.to \in DOMAIN t /\ a.from \in Nat /\ a.to \in Nat
      /\ b.from \in DOMAIN t /\ b.to \in DOMAIN t /\ b.from \in Nat /\ b.to \in Nat
      /\ s.from \in Nat /\ s.to \in Nat /\ o.from \in Nat /\ o.to \in Nat
      /\ s.from <= s.to /\ o.from <= o.to /\ a.from <= a.to /\ b.from <= b.to
      /\ a.to <= Len(t) /\ s.to <= Len(c) /\ b.to <= Len(t) /\ o.to <= Len(c)
      /\ Len(t) \in Nat /\ Len(c) \in Nat
  BY TextPositions
<1>2. o.from <= s.from /\ s.to <= o.to /\ (s.to = o.to => (s.line => o.line))
  BY DEF Within
<1>3. /\ src[a.from] = s.from /\ ~Hits(N, src[a.from]) /\ a.line = s.line
      /\ src[b.from] = o.from /\ ~Hits(N, src[b.from]) /\ b.line = o.line
  BY DEF Image
<1>4. b.from <= a.from /\ a.from <= b.to
  <2>1. o.from <= src[a.from] /\ src[a.from] <= o.to
    BY <1>1, <1>2, <1>3
  <2> QED BY <1>1, <1>3, <2>1 DEF Image
<1>5. a.to <= b.to
  <2>1. CASE ~s.line
    <3>1. src[a.to] = s.to /\ ~Hits(N, src[a.to])
      BY <2>1 DEF Image
    <3>2. o.from <= src[a.to] /\ src[a.to] <= o.to
      BY <1>1, <1>2, <3>1
    <3> QED BY <1>1, <3>1, <3>2 DEF Image
  <2>2. CASE s.line /\ ~o.line
    <3>1. src[b.to] = o.to /\ ~Hits(N, src[b.to])
      BY <2>2 DEF Image
    <3>2. s.to # o.to /\ s.to < o.to /\ s.to # Len(c)
      BY <2>2, <1>1, <1>2
    <3>3. src[a.to] = s.to
      BY <3>2 DEF Image
    <3>4. a.to < b.to
      BY <1>1, <3>1, <3>2, <3>3, KeptOrder DEF Pass
    <3> QED BY <1>1, <3>4
  <2>3. CASE s.line /\ o.line
    <3>1. /\ EndsLine(t, a.from, a.to) /\ EndsLine(t, b.from, b.to)
      <4>1. IsPassage(t, u, a) /\ IsPassage(t, v, b)
        BY PassageIs
      <4> QED BY <4>1, <2>3, <1>3 DEF IsPassage
    <3> SUFFICES ASSUME b.to < a.to PROVE FALSE
      BY <1>1
    <3>2. CASE a.from < b.to
      <4>1. t[b.to] # Newline
        BY <1>1, <3>1, <3>2 DEF EndsLine
      <4>2. b.to = Len(t)
        BY <3>1, <4>1 DEF EndsLine
      <4> QED BY <4>2, <1>1
    <3>3. CASE a.from = b.to
      <4>1. t[b.to] # Newline
        <5>1. IsPassage(t, u, a)
          BY PassageIs
        <5>2. t[a.from] = Opening(u)
          BY <5>1 DEF IsPassage
        <5> QED BY <5>2, <3>3 DEF Opening, Newline
      <4>2. b.to = Len(t)
        BY <3>1, <4>1 DEF EndsLine
      <4> QED BY <4>2, <1>1
    <3> QED BY <1>1, <1>4, <3>2, <3>3
  <2> QED BY <2>1, <2>2, <2>3
<1>6. ASSUME a.to = b.to, a.line PROVE b.line
  <2> SUFFICES ASSUME ~o.line PROVE FALSE
    BY <1>3
  <2>1. src[b.to] = o.to /\ ~Hits(N, src[b.to])
    BY DEF Image
  <2>2. s.line /\ s.to < o.to /\ s.to # Len(c)
    BY <1>1, <1>2, <1>3, <1>6
  <2>3. src[a.to] = s.to
    BY <2>2 DEF Image
  <2> QED BY <1>1, <1>6, <2>1, <2>2, <2>3
<1> QED BY <1>4, <1>5, <1>6 DEF Within

(* The passages of the text a pass returns do not cross either. *)
LEMMA UncrossedAfter ==
    ASSUME NEW S, NEW c, c \in Seq(S), NEW R, NEW t, t \in Seq(R), NEW tags, NEW tag, NEW line,
           NEW N, NEW src, Pass(c, tags, tag, line, N, t, src)
    PROVE  Uncrossed(Passages(t, tags))
<1> SUFFICES ASSUME NEW a \in Passages(t, tags), NEW b \in Passages(t, tags)
             PROVE  a.to < b.from \/ b.to < a.from \/ Within(a, b) \/ Within(b, a) \/ a = b
  BY DEF Uncrossed
<1>1. PICK u \in tags : a \in PassageStretches(t, u)
  BY DEF Passages
<1>2. PICK v \in tags : b \in PassageStretches(t, v)
  BY DEF Passages
<1>3. PICK s \in PassageStretches(c, u) : Image(c, N, t, src, s, a)
  BY <1>1, PassageFrom
<1>4. PICK o \in PassageStretches(c, v) : Image(c, N, t, src, o, b)
  BY <1>2, PassageFrom
<1>5. s.to < o.from \/ o.to < s.from \/ Within(s, o) \/ Within(o, s) \/ s = o
  BY DEF Pass, Uncrossed, Passages
<1>6. /\ src[a.from] = s.from /\ ~Hits(N, src[a.from]) /\ a.from \in DOMAIN t
      /\ src[b.from] = o.from /\ ~Hits(N, src[b.from]) /\ b.from \in DOMAIN t
  BY <1>1, <1>2, <1>3, <1>4, TextPositions DEF Image
<1>7. /\ a.from \in Nat /\ a.to \in Nat /\ b.from \in Nat /\ b.to \in Nat
      /\ s.from \in Nat /\ s.to \in Nat /\ o.from \in Nat /\ o.to \in Nat
      /\ s.from <= s.to /\ o.from <= o.to
  BY <1>1, <1>2, TextPositions
<1>8. CASE s.to < o.from
  <2>1. ~(b.from <= a.to /\ a.from <= b.from)
    <3>1. \A q \in DOMAIN t : ~Hits(N, src[q]) =>
             (a.from <= q /\ q <= a.to <=> s.from <= src[q] /\ src[q] <= s.to)
      BY <1>3 DEF Image
    <3>2. a.from <= b.from /\ b.from <= a.to <=> s.from <= o.from /\ o.from <= s.to
      BY <3>1, <1>6
    <3> QED BY <3>2, <1>7, <1>8
  <2>2. a.from < b.from
    BY <1>6, <1>7, <1>8, KeptOrder DEF Pass
  <2> QED BY <1>7, <2>1, <2>2
<1>9. CASE o.to < s.from
  <2>1. ~(a.from <= b.to /\ b.from <= a.from)
    <3>1. \A q \in DOMAIN t : ~Hits(N, src[q]) =>
             (b.from <= q /\ q <= b.to <=> o.from <= src[q] /\ src[q] <= o.to)
      BY <1>4 DEF Image
    <3>2. b.from <= a.from /\ a.from <= b.to <=> o.from <= s.from /\ s.from <= o.to
      BY <3>1, <1>6
    <3> QED BY <3>2, <1>7, <1>9
  <2>2. b.from < a.from
    BY <1>6, <1>7, <1>9, KeptOrder DEF Pass
  <2> QED BY <1>7, <2>1, <2>2
<1>10. CASE Within(s, o)
  BY <1>1, <1>2, <1>3, <1>4, <1>10, WithinKept
<1>11. CASE Within(o, s)
  BY <1>1, <1>2, <1>3, <1>4, <1>11, WithinKept
<1>12. CASE s = o
  <2>1. a.from = b.from
    BY <1>6, <1>12 DEF Pass, Rewritten
  <2> QED BY <2>1, <1>1, <1>2, OnePassage
<1> QED BY <1>5, <1>8, <1>9, <1>10, <1>11, <1>12

(* The words a set of tags does not cover. *)
LEMMA WordsOutsideIs ==
    ASSUME NEW c, NEW tags, NEW x
    PROVE  x \in WordsOutside(c, tags) <=>
              \E i \in DOMAIN c :
                 /\ c[i] = x /\ Kind(c[i]) = "word"
                 /\ \A u \in tags : \A s \in PassageStretches(c, u) :
                       ~(s.from <= i /\ i <= s.to)
<1>1. \A i : i \in Covered(c, tags) <=>
         i \in DOMAIN c /\ \E u \in tags : \E s \in PassageStretches(c, u) :
                              s.from <= i /\ i <= s.to
  BY DEF Covered, Passages
<1>2. \A i : i \in Positions(c, "word") <=> i \in DOMAIN c /\ Kind(c[i]) = "word"
  BY DEF Positions
<1>3. x \in WordsOutside(c, tags) <=>
         \E i : i \in Positions(c, "word") /\ i \notin Covered(c, tags) /\ c[i] = x
  BY DEF WordsOutside
<1> QED BY <1>1, <1>2, <1>3

(* What a pass cuts lies in a passage of its tag; and a passage whose tag  *)
(* is cut is cut with all that is in it.                                   *)
LEMMA CutWhole ==
    ASSUME NEW S, NEW c, c \in Seq(S), NEW tags, NEW tag, NEW line, NEW N,
           Uncrossed(Passages(c, tags)), Cutting(c, tags, tag, line, N),
           NEW u \in tags, NEW s \in PassageStretches(c, u), Hits(N, s.from),
           NEW i \in DOMAIN c, s.from <= i, i <= s.to
    PROVE  Hits(N, i)
<1>1. PICK n \in N : n.from <= s.from /\ s.from <= n.to
  BY DEF Hits
<1>2. n \in PassageStretches(c, tag) /\ tag \in tags
  BY DEF Cutting
<1>3. n \in Passages(c, tags) /\ s \in Passages(c, tags)
  BY <1>2 DEF Passages
<1>4. /\ s.from \in Nat /\ s.to \in Nat /\ n.from \in Nat /\ n.to \in Nat /\ i \in Nat
      /\ s.from <= s.to /\ n.from <= n.to
  BY <1>2, TextPositions
<1>5. \/ s.to < n.from \/ n.to < s.from
      \/ Within(s, n) \/ Within(n, s) \/ s = n
  BY <1>3 DEF Uncrossed
<1>6. ASSUME Within(s, n) PROVE n.from <= i /\ i <= n.to
  BY <1>4, <1>6 DEF Within
<1>7. ASSUME Within(n, s) PROVE s = n
  <2>1. s.from = n.from
    BY <1>1, <1>4, <1>7 DEF Within
  <2> QED BY <2>1, <1>2, OnePassage
<1>8. n.from <= i /\ i <= n.to
  BY <1>1, <1>4, <1>5, <1>6, <1>7
<1> QED BY <1>8 DEF Hits

(* A pass takes no word from outside the passages of the tags, and brings  *)
(* none of a passage outside.                                              *)
LEMMA WordsAfter ==
    ASSUME NEW S, NEW c, c \in Seq(S), NEW R, NEW t, t \in Seq(R), NEW tags, NEW tag, NEW line,
           NEW N, NEW src, Pass(c, tags, tag, line, N, t, src)
    PROVE  \A x : x \in WordsOutside(t, tags) <=> x \in WordsOutside(c, tags)
<1>1. ASSUME NEW x, x \in WordsOutside(t, tags) PROVE x \in WordsOutside(c, tags)
  <2>1. PICK q \in DOMAIN t :
           /\ t[q] = x /\ Kind(t[q]) = "word"
           /\ \A u \in tags : \A r \in PassageStretches(t, u) : ~(r.from <= q /\ q <= r.to)
    BY <1>1, WordsOutsideIs
  <2>2. ~Hits(N, src[q])
    BY <2>1, KeptSymbols DEF Pass
  <2>3. t[q] = c[src[q]] /\ src[q] \in DOMAIN c
    BY <2>2, KeptSymbols, KeptOrder DEF Pass
  <2>4. ASSUME NEW u \in tags, NEW s \in PassageStretches(c, u),
               s.from <= src[q], src[q] <= s.to
        PROVE  FALSE
    <3>1. ~Hits(N, s.from)
      BY <2>2, <2>3, <2>4, CutWhole DEF Pass
    <3>2. s.from \in DOMAIN c
      BY TextPositions
    <3>3. PICK p \in DOMAIN t : src[p] = s.from
      BY <3>1, <3>2 DEF Pass, Rewritten
    <3>4. PICK r \in PassageStretches(t, u) : r.from = p /\ Image(c, N, t, src, s, r)
      BY <3>1, <3>3, PassageKept
    <3>5. r.from <= q /\ q <= r.to
      BY <2>2, <2>4, <3>4 DEF Image
    <3> QED BY <3>5, <2>1
  <2> QED BY <2>1, <2>3, <2>4, WordsOutsideIs
<1>2. ASSUME NEW x, x \in WordsOutside(c, tags) PROVE x \in WordsOutside(t, tags)
  <2>1. PICK i \in DOMAIN c :
           /\ c[i] = x /\ Kind(c[i]) = "word"
           /\ \A u \in tags : \A s \in PassageStretches(c, u) : ~(s.from <= i /\ i <= s.to)
    BY <1>2, WordsOutsideIs
  <2>2. ~Hits(N, i)
    BY <2>1 DEF Hits, Pass, Cutting
  <2>3. PICK q \in DOMAIN t : src[q] = i
    BY <2>2 DEF Pass, Rewritten
  <2>4. t[q] = c[i]
    BY <2>2, <2>3, KeptSymbols DEF Pass
  <2>5. ASSUME NEW u \in tags, NEW r \in PassageStretches(t, u), r.from <= q, q <= r.to
        PROVE  FALSE
    <3>1. PICK s \in PassageStretches(c, u) : Image(c, N, t, src, s, r)
      BY PassageFrom
    <3>2. s.from <= src[q] /\ src[q] <= s.to
      BY <2>2, <2>3, <2>5, <3>1 DEF Image
    <3> QED BY <2>1, <2>3, <3>2
  <2> QED BY <2>1, <2>4, <2>5, WordsOutsideIs
<1> QED BY <1>1, <1>2

(* What re.sub puts in for a match of a tag's block or line pattern. *)
PutIn(line) == IF line THEN <<Redacted, Newline>> ELSE <<Redacted>>

(* Its symbols. *)
LEMMA PutInIs ==
    ASSUME NEW line \in BOOLEAN
    PROVE  /\ 1 \in DOMAIN PutIn(line) /\ PutIn(line)[1] = Redacted
           /\ \A k \in DOMAIN PutIn(line) :
                 k = 1 \/ (k = 2 /\ line /\ PutIn(line)[k] = Newline)
           /\ line => 2 \in DOMAIN PutIn(line) /\ PutIn(line)[2] = Newline
           /\ PutIn(line) \in Seq({Redacted, Newline})
<1>1. CASE line
  <2>1. PutIn(line) = <<Redacted, Newline>>
    BY <1>1 DEF PutIn
  <2> DEFINE p == <<Redacted, Newline>>
  <2>2. /\ DOMAIN p = 1 .. 2 /\ p[1] = Redacted /\ p[2] = Newline
        /\ p \in Seq({Redacted, Newline})
    OBVIOUS
  <2>3. /\ 1 \in DOMAIN p /\ 2 \in DOMAIN p
        /\ \A k \in DOMAIN p : k = 1 \/ (k = 2 /\ p[k] = Newline)
    BY <2>2
  <2> HIDE DEF p
  <2>4. PutIn(line) = p
    BY <2>1 DEF p
  <2> QED BY <1>1, <2>2, <2>3, <2>4, Zenon
<1>2. CASE ~line
  <2>1. PutIn(line) = <<Redacted>>
    BY <1>2 DEF PutIn
  <2> DEFINE p == <<Redacted>>
  <2>2. DOMAIN p = {1} /\ p[1] = Redacted /\ p \in Seq({Redacted, Newline})
    OBVIOUS
  <2> HIDE DEF p
  <2>3. PutIn(line) = p
    BY <2>1 DEF p
  <2> QED BY <1>2, <2>2, <2>3
<1> QED BY <1>1, <1>2

(* A pattern matches the passages of a tag that are lines, or those that   *)
(* are not.                                                                *)
MatchesPassages(c, tag, line, end) ==
    /\ \A i \in DOMAIN c : end[i] # NoMatch =>
          Stretch(i, end[i], line) \in PassageStretches(c, tag)
    /\ \A s \in PassageStretches(c, tag) : s.line = line => end[s.from] = s.to

(* The matches of a tag's pattern are what its pass cuts. *)
LEMMA SubRewrites ==
    ASSUME NEW S, Redacted \in S, Newline \in S, NEW c, c \in Seq(S),
           NEW tags, NEW tag \in tags, NEW line \in BOOLEAN, NEW end,
           MatchesPassages(c, tag, line, end)
    PROVE  LET t == Sub(c, end, Everywhere(c, PutIn(line)))
           IN  /\ t \in Seq(S)
               /\ \E N, src : Cutting(c, tags, tag, line, N) /\ Rewritten(c, N, t, src)
<1> DEFINE by == Everywhere(c, PutIn(line))
           t == Sub(c, end, by)
           M == Matches(c, end)
           N == {Stretch(i, end[i], line) : i \in M}
<1>1. /\ Len(c) \in Nat /\ DOMAIN c = 1 .. Len(c) /\ \A i \in DOMAIN c : i \in Nat
  BY TextPositions
<1>2. ASSUME NEW i \in DOMAIN c, end[i] # NoMatch PROVE end[i] \in Nat /\ i <= end[i]
  <2>1. Stretch(i, end[i], line) \in PassageStretches(c, tag)
    BY <1>2 DEF MatchesPassages
  <2>2. Stretch(i, end[i], line).from = i /\ Stretch(i, end[i], line).to = end[i]
    BY DEF Stretch
  <2> QED BY <2>1, <2>2, TextPositions
<1>3. Ends(c, end)
  BY <1>2 DEF Ends
<1>4. ScannedTo(end, Len(c), M)
  BY <1>3, MatchesAre
<1>5. ASSUME NEW m \in M
      PROVE  m \in DOMAIN c /\ end[m] # NoMatch /\ end[m] \in Nat /\ m <= end[m] /\ m \in Nat
  BY <1>1, <1>2, <1>4 DEF ScannedTo
<1>6. \A k : InMatch(end, M, k) <=> Hits(N, k)
  <2>1. \A m : Stretch(m, end[m], line).from = m /\ Stretch(m, end[m], line).to = end[m]
    BY DEF Stretch
  <2> QED BY <2>1 DEF InMatch, Hits
<1>7. \A s \in N : \E m \in M : s.from = m /\ s.to = end[m] /\ s.line = line
                               /\ s = Stretch(m, end[m], line)
  BY DEF Stretch
<1>8. ASSUME NEW m \in M PROVE \E s \in N : s.from = m /\ s.to = end[m] /\ s.line = line
  <2> DEFINE s == Stretch(m, end[m], line)
  <2>1. s \in N
    OBVIOUS
  <2>2. s.from = m /\ s.to = end[m] /\ s.line = line
    BY DEF Stretch
  <2> HIDE DEF s, N
  <2> QED BY <2>1, <2>2
<1> HIDE DEF N
<1>9. Cutting(c, tags, tag, line, N)
  <2>1. ASSUME NEW s \in PassageStretches(c, tag), s.line = line PROVE Hits(N, s.from)
    <3>1. end[s.from] = s.to
      BY <2>1 DEF MatchesPassages
    <3>2. s.from \in DOMAIN c /\ s.to \in DOMAIN c
      BY <2>1, TextPositions
    <3>3. end[s.from] # NoMatch /\ s.from \in 1 .. Len(c)
      BY <3>1, <3>2, <1>1 DEF NoMatch
    <3> QED BY <3>3, <1>4, <1>6 DEF ScannedTo
  <2>2. ASSUME NEW s \in N PROVE s \in PassageStretches(c, tag) /\ s.line = line
    <3>1. PICK m \in M : s = Stretch(m, end[m], line) /\ s.line = line
      BY <1>7
    <3>2. Stretch(m, end[m], line) \in PassageStretches(c, tag)
      BY <1>5 DEF MatchesPassages
    <3> QED BY <3>1, <3>2
  <2> QED BY <2>1, <2>2 DEF Cutting
<1>10. by \in [DOMAIN c -> Seq(S)] /\ \A i \in DOMAIN c : by[i] = PutIn(line)
  <2>1. PutIn(line) \in Seq(S)
    BY DEF PutIn
  <2> QED BY <2>1 DEF Everywhere
<1>11. M \in SUBSET DOMAIN c
  BY <1>5
<1> HIDE DEF by, M
<1>12. /\ t \in Seq(S)
       /\ \E src, off : Substituted(c, end, M, by, t, src, off)
  BY <1>10, <1>11, SubFrom DEF M
<1>13. PICK from, off : Substituted(c, end, M, by, t, from, off)
  BY <1>12
<1> HIDE DEF t
<1> DEFINE src == [q \in DOMAIN t |-> IF from[q] \in M /\ off[q] = 2 THEN end[from[q]]
                                                                  ELSE from[q]]
<1>14. ASSUME NEW q \in DOMAIN t
       PROVE  /\ from[q] \in DOMAIN c /\ from[q] \in Nat /\ off[q] \in Nat
              /\ from[q] \in M =>
                    /\ off[q] \in DOMAIN PutIn(line) /\ t[q] = PutIn(line)[off[q]]
                    /\ off[q] = 1 \/ (off[q] = 2 /\ line /\ t[q] = Newline)
                    /\ off[q] = 1 => t[q] = Redacted
              /\ from[q] \notin M => /\ ~InMatch(end, M, from[q]) /\ off[q] = 1
                                     /\ t[q] = c[from[q]]
  <2>1. from[q] \in DOMAIN c /\ off[q] \in Nat
    BY <1>13 DEF Substituted
  <2>2. IF from[q] \in M
        THEN off[q] \in DOMAIN by[from[q]] /\ t[q] = by[from[q]][off[q]]
        ELSE ~InMatch(end, M, from[q]) /\ off[q] = 1 /\ t[q] = c[from[q]]
    BY <1>13 DEF Substituted
  <2>3. from[q] \in M => off[q] \in DOMAIN PutIn(line) /\ t[q] = PutIn(line)[off[q]]
    BY <2>1, <2>2, <1>10
  <2> QED BY <2>1, <2>2, <2>3, <1>1, PutInIs
<1>15. ASSUME NEW q \in DOMAIN t
       PROVE  /\ from[q] \in M => /\ Hits(N, src[q]) /\ src[q] \in Nat
                                  /\ from[q] <= src[q] /\ src[q] <= end[from[q]]
                                  /\ src[q] \in DOMAIN c
              /\ from[q] \notin M => src[q] = from[q] /\ ~Hits(N, src[q])
              /\ off[q] = 1 => src[q] = from[q]
              /\ from[q] \in M /\ off[q] = 2 => src[q] = end[from[q]]
  <2>1. CASE from[q] \in M
    <3>1. src[q] = from[q] \/ src[q] = end[from[q]]
      OBVIOUS
    <3>2. end[from[q]] \in DOMAIN c
      <4>1. PICK s \in N : s.to = end[from[q]]
        BY <2>1, <1>8
      <4> QED BY <4>1, <1>9, TextPositions DEF Cutting
    <3>3. /\ src[q] \in Nat /\ from[q] <= src[q] /\ src[q] <= end[from[q]]
          /\ src[q] \in DOMAIN c
      BY <2>1, <3>1, <3>2, <1>5
    <3>4. Hits(N, src[q])
      BY <3>3, <2>1, <1>6 DEF InMatch
    <3> QED BY <2>1, <3>3, <3>4
  <2>2. CASE from[q] \notin M
    BY <2>2, <1>6, <1>14
  <2> QED BY <2>1, <2>2
<1> HIDE DEF src
<1>16. \A q \in DOMAIN t : src[q] \in DOMAIN c /\ src[q] \in Nat
  BY <1>14, <1>15
<1>17. ASSUME NEW q \in DOMAIN t, NEW r \in DOMAIN t, from[q] < from[r]
       PROVE  src[q] < src[r]
  <2>1. from[r] <= src[r]
    BY <1>14, <1>15
  <2>2. src[q] < from[r]
    <3>1. CASE from[q] \in M
      <4>1. end[from[q]] < from[r]
        <5>1. CASE from[r] \in M
          BY <1>4, <1>17, <3>1, <5>1 DEF ScannedTo
        <5>2. CASE from[r] \notin M
          <6>1. ~(from[q] <= from[r] /\ from[r] <= end[from[q]])
            BY <1>14, <3>1, <5>2 DEF InMatch
          <6> QED BY <6>1, <1>14, <1>5, <3>1, <1>17
        <5> QED BY <5>1, <5>2
      <4> QED BY <4>1, <3>1, <1>5, <1>14, <1>15
    <3>2. CASE from[q] \notin M
      BY <3>2, <1>15, <1>17
    <3> QED BY <3>1, <3>2
  <2> QED BY <2>1, <2>2, <1>14, <1>16
<1>18. \A q, r \in DOMAIN t : q < r =>
          from[q] < from[r] \/ (from[q] = from[r] /\ off[q] < off[r])
  BY <1>13 DEF Substituted
<1>19. ASSUME NEW q \in DOMAIN t, NEW r \in DOMAIN t, q < r PROVE src[q] <= src[r]
  <2>1. CASE from[q] < from[r]
    BY <2>1, <1>16, <1>17
  <2>2. CASE from[q] = from[r] /\ off[q] < off[r]
    <3>1. from[q] \in M /\ off[q] = 1 /\ off[r] = 2
      BY <2>2, <1>14
    <3>2. src[q] = from[q] /\ src[r] = end[from[q]]
      BY <2>2, <3>1, <1>15
    <3> QED BY <3>1, <3>2, <1>5
  <2> QED BY <1>18, <1>19, <2>1, <2>2
<1>20. ASSUME NEW q \in DOMAIN t, NEW r \in DOMAIN t, src[q] = src[r], ~Hits(N, src[q])
       PROVE  q = r
  <2>1. from[q] \notin M /\ from[r] \notin M
    BY <1>15, <1>20
  <2>2. from[q] = from[r] /\ off[q] = 1 /\ off[r] = 1
    BY <2>1, <1>14, <1>15, <1>20
  <2>3. ~(q < r) /\ ~(r < q)
    BY <2>2, <1>18, <1>14
  <2>4. q \in Nat /\ r \in Nat
    BY <1>12, TextPositions
  <2> QED BY <2>3, <2>4
<1>21. ASSUME NEW q \in DOMAIN t, Hits(N, src[q])
       PROVE  \/ t[q] = Redacted
              \/ /\ t[q] = Newline
                 /\ \E s \in N : /\ s.line /\ src[q] = s.to
                                 /\ \A r \in DOMAIN t : q < r => s.to < src[r]
  <2>1. from[q] \in M
    BY <1>15, <1>21
  <2>2. CASE off[q] = 1
    BY <2>1, <2>2, <1>14
  <2>3. CASE off[q] # 1
    <3>1. off[q] = 2 /\ line /\ t[q] = Newline
      BY <2>1, <2>3, <1>14
    <3>2. PICK s \in N : s.to = end[from[q]] /\ s.line = line
      BY <2>1, <1>8
    <3>3. src[q] = s.to
      BY <2>1, <3>1, <3>2, <1>15
    <3>4. ASSUME NEW r \in DOMAIN t, q < r PROVE src[q] < src[r]
      <4>1. ~(from[q] = from[r] /\ off[q] < off[r])
        <5> SUFFICES ASSUME from[r] = from[q] PROVE off[r] = 1 \/ off[r] = 2
          BY <3>1
        <5> QED BY <2>1, <1>14
      <4>2. from[q] < from[r]
        BY <3>4, <4>1, <1>18
      <4> QED BY <4>2, <1>17
    <3> QED BY <3>1, <3>2, <3>3, <3>4
  <2> QED BY <2>2, <2>3
<1>22. ASSUME NEW i \in DOMAIN c, ~Hits(N, i) PROVE \E q \in DOMAIN t : src[q] = i
  <2>1. i \notin M
    <3>1. i \in M => InMatch(end, M, i)
      BY <1>5 DEF InMatch
    <3> QED BY <3>1, <1>6, <1>22
  <2>2. ~InMatch(end, M, i)
    BY <1>6, <1>22
  <2>3. PICK q \in DOMAIN t : from[q] = i
    BY <2>1, <2>2, <1>13 DEF Substituted
  <2> QED BY <2>1, <2>3, <1>15
<1>23. ASSUME NEW s \in N, s.line PROVE \E q \in DOMAIN t : src[q] = s.to /\ t[q] = Newline
  <2>1. PICK m \in M : s.to = end[m] /\ s.line = line
    BY <1>7
  <2>2. 2 \in DOMAIN by[m]
    BY <1>5, <1>10, <1>23, <2>1, PutInIs
  <2>3. PICK q \in DOMAIN t : from[q] = m /\ off[q] = 2
    BY <2>1, <2>2, <1>13 DEF Substituted
  <2>4. src[q] = s.to /\ t[q] = Newline
    BY <2>1, <2>3, <1>14, <1>15
  <2> QED BY <2>4
<1>24. \A q \in DOMAIN t : ~Hits(N, src[q]) => t[q] = c[src[q]]
  BY <1>14, <1>15
<1>25. src \in [DOMAIN t -> DOMAIN c]
  BY <1>16 DEF src
<1>26. Rewritten(c, N, t, src)
  BY <1>19, <1>20, <1>21, <1>22, <1>23, <1>24, <1>25 DEF Rewritten
<1> QED BY <1>9, <1>12, <1>26 DEF t, by

(* The block pattern cuts the passages of its tag that have an end. *)
LEMMA BlocksPass ==
    ASSUME NEW S, Redacted \in S, Newline \in S, NEW c, c \in Seq(S), NEW tags, NEW tag \in tags
    PROVE  /\ RedactBlocks(c, tag) \in Seq(S)
           /\ \E N, src : /\ Cutting(c, tags, tag, FALSE, N)
                          /\ Rewritten(c, N, RedactBlocks(c, tag), src)
<1> DEFINE end == [i \in DOMAIN c |-> BlockEnd(tag, c, i)]
<1>1. ASSUME NEW i \in DOMAIN c, end[i] # NoMatch
      PROVE  Stretch(i, end[i], FALSE) \in PassageStretches(c, tag)
  <2>1. end[i] = BlockEnd(tag, c, i) /\ c[i] = Opening(tag)
    BY <1>1 DEF BlockEnd
  <2> HIDE DEF end
  <2>2. EndsBlock(c, tag, i, end[i])
    BY <1>1, <2>1, BlockEndIs
  <2>3. IsPassage(c, tag, Stretch(i, end[i], FALSE))
    BY <2>1, <2>2 DEF IsPassage, Stretch
  <2> QED BY <2>3, PassageIs
<1>2. ASSUME NEW s \in PassageStretches(c, tag), s.line = FALSE PROVE end[s.from] = s.to
  <2>1. IsPassage(c, tag, s)
    BY PassageIs
  <2>2. s.from \in DOMAIN c /\ c[s.from] = Opening(tag) /\ EndsBlock(c, tag, s.from, s.to)
    BY <1>2, <2>1 DEF IsPassage
  <2>3. ~NoneCloses(c, tag, s.from)
    BY <2>2 DEF EndsBlock, NoneCloses
  <2>4. end[s.from] = BlockEnd(tag, c, s.from)
    BY <2>2
  <2> HIDE DEF end
  <2>5. EndsBlock(c, tag, s.from, BlockEnd(tag, c, s.from))
    BY <2>2, <2>3, BlockEndIs
  <2>6. BlockEnd(tag, c, s.from) = s.to
    <3>1. \A e, f : EndsBlock(c, tag, s.from, e) /\ EndsBlock(c, tag, s.from, f) => e = f
      BY <2>2, OneEnd
    <3> QED BY <2>2, <2>5, <3>1
  <2> QED BY <2>4, <2>6
<1>3. RedactBlocks(c, tag) = Sub(c, end, Everywhere(c, PutIn(FALSE)))
  BY DEF RedactBlocks, PutIn
<1> HIDE DEF end
<1>4. \A s \in PassageStretches(c, tag) : s.line = FALSE => end[s.from] = s.to
  BY <1>2
<1>5. MatchesPassages(c, tag, FALSE, end)
  BY <1>1, <1>4 DEF MatchesPassages
<1>6. PICK line \in BOOLEAN : line = FALSE
  OBVIOUS
<1>7. MatchesPassages(c, tag, line, end)
  BY <1>5, <1>6
<1>8. RedactBlocks(c, tag) = Sub(c, end, Everywhere(c, PutIn(line)))
  BY <1>3, <1>6
<1>9. /\ RedactBlocks(c, tag) \in Seq(S)
      /\ \E N, src : /\ Cutting(c, tags, tag, line, N)
                     /\ Rewritten(c, N, RedactBlocks(c, tag), src)
  BY <1>7, <1>8, SubRewrites
<1> QED BY <1>6, <1>9

(* Where none has one, the line pattern cuts them all. *)
LEMMA LinesPass ==
    ASSUME NEW S, Redacted \in S, Newline \in S, NEW c, c \in Seq(S), NEW tags, NEW tag \in tags,
           \A s \in PassageStretches(c, tag) : s.line = TRUE
    PROVE  /\ RedactLines(c, tag) \in Seq(S)
           /\ \E N, src : /\ Cutting(c, tags, tag, TRUE, N)
                          /\ Rewritten(c, N, RedactLines(c, tag), src)
<1> DEFINE end == [i \in DOMAIN c |-> LineEnd(tag, c, i)]
<1>1. ASSUME NEW s \in PassageStretches(c, tag) PROVE end[s.from] = s.to
  <2>1. IsPassage(c, tag, s) /\ s.line = TRUE
    BY PassageIs
  <2>2. s.from \in DOMAIN c /\ c[s.from] = Opening(tag) /\ EndsLine(c, s.from, s.to)
    BY <2>1 DEF IsPassage
  <2>3. end[s.from] = LineEnd(tag, c, s.from)
    BY <2>2
  <2> HIDE DEF end
  <2>4. EndsLine(c, s.from, LineEnd(tag, c, s.from))
    BY <2>2, LineEndIs
  <2> QED BY <2>2, <2>3, <2>4, OneEnd
<1>2. ASSUME NEW i \in DOMAIN c, end[i] # NoMatch
      PROVE  Stretch(i, end[i], TRUE) \in PassageStretches(c, tag)
  <2>1. c[i] = Opening(tag)
    BY <1>2 DEF LineEnd
  <2>2. PICK s \in PassageStretches(c, tag) : s.from = i
    BY <2>1, PassageIs
  <2>3. s.line = TRUE /\ s.to = end[i]
    BY <1>1, <2>2
  <2> HIDE DEF end
  <2>4. s = Stretch(i, end[i], TRUE)
    <3>1. IsPassage(c, tag, s)
      BY PassageIs
    <3> QED BY <3>1, <2>2, <2>3 DEF IsPassage
  <2> QED BY <2>4
<1>3. RedactLines(c, tag) = Sub(c, end, Everywhere(c, PutIn(TRUE)))
  BY DEF RedactLines, PutIn
<1> HIDE DEF end
<1>4. \A s \in PassageStretches(c, tag) : s.line = TRUE => end[s.from] = s.to
  BY <1>1
<1>5. MatchesPassages(c, tag, TRUE, end)
  BY <1>2, <1>4 DEF MatchesPassages
<1>6. PICK line \in BOOLEAN : line = TRUE
  OBVIOUS
<1>7. MatchesPassages(c, tag, line, end)
  BY <1>5, <1>6
<1>8. RedactLines(c, tag) = Sub(c, end, Everywhere(c, PutIn(line)))
  BY <1>3, <1>6
<1>9. /\ RedactLines(c, tag) \in Seq(S)
      /\ \E N, src : /\ Cutting(c, tags, tag, line, N)
                     /\ Rewritten(c, N, RedactLines(c, tag), src)
  BY <1>7, <1>8, SubRewrites
<1> QED BY <1>6, <1>9

(* The two passes of one tag leave the words outside the passages of any   *)
(* set of tags it is of, and leave no two passages crossing.               *)
LEMMA TagPass ==
    ASSUME NEW S, Redacted \in S, Newline \in S, NEW c, c \in Seq(S), NEW tags, NEW tag \in tags,
           Uncrossed(Passages(c, tags))
    PROVE  /\ RedactTag(c, tag) \in Seq(S)
           /\ Uncrossed(Passages(RedactTag(c, tag), tags))
           /\ WordsOutside(RedactTag(c, tag), tags) = WordsOutside(c, tags)
<1> DEFINE b == RedactBlocks(c, tag)
           t == RedactLines(b, tag)
<1>1. b \in Seq(S)
  BY BlocksPass
<1>2. PICK N, src : Cutting(c, tags, tag, FALSE, N) /\ Rewritten(c, N, b, src)
  BY BlocksPass
<1> HIDE DEF b
<1>3. Pass(c, tags, tag, FALSE, N, b, src)
  BY <1>2 DEF Pass
<1>4. Uncrossed(Passages(b, tags)) /\ WordsOutside(b, tags) = WordsOutside(c, tags)
  <2>1. Uncrossed(Passages(b, tags))
    BY <1>1, <1>3, UncrossedAfter, Zenon
  <2>2. WordsOutside(b, tags) = WordsOutside(c, tags)
    <3>1. \A x : x \in WordsOutside(b, tags) <=> x \in WordsOutside(c, tags)
      BY <1>1, <1>3, WordsAfter, Zenon
    <3> QED BY <3>1
  <2> QED BY <2>1, <2>2
<1>5. ASSUME NEW r \in PassageStretches(b, tag) PROVE r.line = TRUE
  <2>1. PICK s \in PassageStretches(c, tag) : Image(c, N, b, src, s, r)
    BY <1>1, <1>3, PassageFrom
  <2>2. ~Hits(N, s.from) /\ r.line = s.line
    BY <2>1 DEF Image
  <2>3. s.line # FALSE /\ s.line \in BOOLEAN
    BY <1>2, <2>2, TextPositions DEF Cutting
  <2> QED BY <2>2, <2>3
<1>6. t \in Seq(S)
  BY <1>1, <1>5, LinesPass
<1>7. PICK M, from : Cutting(b, tags, tag, TRUE, M) /\ Rewritten(b, M, t, from)
  BY <1>1, <1>5, LinesPass
<1> HIDE DEF t
<1>8. Pass(b, tags, tag, TRUE, M, t, from)
  BY <1>4, <1>7 DEF Pass
<1>9. Uncrossed(Passages(t, tags)) /\ WordsOutside(t, tags) = WordsOutside(b, tags)
  <2>1. Uncrossed(Passages(t, tags))
    BY <1>1, <1>6, <1>8, UncrossedAfter, Zenon
  <2>2. WordsOutside(t, tags) = WordsOutside(b, tags)
    <3>1. \A x : x \in WordsOutside(t, tags) <=> x \in WordsOutside(b, tags)
      BY <1>1, <1>6, <1>8, WordsAfter, Zenon
    <3> QED BY <3>1
  <2> QED BY <2>1, <2>2
<1>10. RedactTag(c, tag) = t
  BY DEF RedactTag, t, b
<1> QED BY <1>4, <1>6, <1>9, <1>10

(* Every symbol of t was put in, or is one of c that no match starts at. *)
MadeOf(t, c, end) ==
    \A q \in DOMAIN t :
       \/ t[q] = Redacted \/ t[q] = Newline
       \/ \E i \in DOMAIN c : end[i] = NoMatch /\ t[q] = c[i]

(* So is what a pass returns. *)
LEMMA PutInOrKept ==
    ASSUME NEW S, Redacted \in S, Newline \in S, NEW c, c \in Seq(S), NEW line \in BOOLEAN,
           NEW end, Ends(c, end)
    PROVE  LET t == Sub(c, end, Everywhere(c, PutIn(line)))
           IN  t \in Seq(S) /\ MadeOf(t, c, end)
<1> DEFINE by == Everywhere(c, PutIn(line))
           t == Sub(c, end, by)
           M == Matches(c, end)
<1>1. DOMAIN c = 1 .. Len(c)
  BY TextPositions
<1>2. ScannedTo(end, Len(c), M)
  BY MatchesAre
<1>3. M \in SUBSET DOMAIN c
  BY <1>1, <1>2 DEF ScannedTo
<1>4. by \in [DOMAIN c -> Seq(S)] /\ \A i \in DOMAIN c : by[i] = PutIn(line)
  <2>1. PutIn(line) \in Seq(S)
    BY DEF PutIn
  <2> QED BY <2>1 DEF Everywhere
<1> HIDE DEF by, M
<1>5. /\ t \in Seq(S)
      /\ \E src, off : Substituted(c, end, M, by, t, src, off)
  BY <1>3, <1>4, SubFrom DEF M
<1>6. PICK src, off : Substituted(c, end, M, by, t, src, off)
  BY <1>5
<1> HIDE DEF t
<1>7. ASSUME NEW q \in DOMAIN t
      PROVE  \/ t[q] = Redacted \/ t[q] = Newline
             \/ \E i \in DOMAIN c : end[i] = NoMatch /\ t[q] = c[i]
  <2>1. /\ src[q] \in DOMAIN c
        /\ src[q] \in M => off[q] \in DOMAIN by[src[q]] /\ t[q] = by[src[q]][off[q]]
        /\ src[q] \notin M => ~InMatch(end, M, src[q]) /\ t[q] = c[src[q]]
    BY <1>6 DEF Substituted
  <2>2. CASE src[q] \in M
    <3>1. off[q] \in DOMAIN PutIn(line) /\ t[q] = PutIn(line)[off[q]]
      BY <1>4, <2>1, <2>2
    <3> QED BY <3>1, PutInIs
  <2>3. CASE src[q] \notin M
    <3>1. end[src[q]] = NoMatch
      BY <1>1, <1>2, <2>1, <2>3 DEF ScannedTo
    <3> QED BY <2>1, <2>3, <3>1
  <2> QED BY <2>2, <2>3
<1> QED BY <1>5, <1>7 DEF t, by, MadeOf

(* A tag opens nowhere after its passes, and no other opens but where one  *)
(* did.                                                                    *)
LEMMA OpeningsLeft ==
    ASSUME NEW S, Redacted \in S, Newline \in S, NEW c, c \in Seq(S), NEW tag
    PROVE  \A q \in DOMAIN RedactTag(c, tag) :
              /\ RedactTag(c, tag)[q] # Opening(tag)
              /\ \A u : RedactTag(c, tag)[q] = Opening(u) => \E i \in DOMAIN c : c[i] = Opening(u)
<1> DEFINE b == RedactBlocks(c, tag)
           t == RedactLines(b, tag)
           bend == [i \in DOMAIN c |-> BlockEnd(tag, c, i)]
           lend == [i \in DOMAIN b |-> LineEnd(tag, b, i)]
<1>1. \A u : Opening(u) # Redacted /\ Opening(u) # Newline
  BY DEF Opening, Redacted, Newline
<1>2. TRUE \in BOOLEAN /\ FALSE \in BOOLEAN
  OBVIOUS
<1>3. Ends(c, bend)
  <2> SUFFICES ASSUME NEW i \in DOMAIN c, BlockEnd(tag, c, i) # NoMatch
               PROVE  BlockEnd(tag, c, i) \in Nat /\ i <= BlockEnd(tag, c, i)
    BY DEF Ends
  <2>1. EndsBlock(c, tag, i, BlockEnd(tag, c, i))
    <3>1. c[i] = Opening(tag)
      BY DEF BlockEnd
    <3> QED BY <3>1, BlockEndIs
  <2>2. BlockEnd(tag, c, i) \in DOMAIN c /\ i < BlockEnd(tag, c, i)
    BY <2>1 DEF EndsBlock
  <2>3. i \in Nat /\ BlockEnd(tag, c, i) \in Nat
    BY <2>2, TextPositions
  <2> QED BY <2>2, <2>3
<1>4. b = Sub(c, bend, Everywhere(c, PutIn(FALSE)))
  BY DEF RedactBlocks, PutIn
<1> HIDE DEF b, bend
<1>5. b \in Seq(S) /\ \A q \in DOMAIN b :
         b[q] = Redacted \/ b[q] = Newline \/ \E i \in DOMAIN c : b[q] = c[i]
  <2> DEFINE s == Sub(c, bend, Everywhere(c, PutIn(FALSE)))
  <2>1. s \in Seq(S) /\ MadeOf(s, c, bend)
    BY ONLY <1>3, Redacted \in S, Newline \in S, c \in Seq(S), <1>2, PutInOrKept
  <2> HIDE DEF s
  <2>2. b = s
    BY <1>4 DEF s
  <2> QED BY <2>1, <2>2 DEF MadeOf
<1>6. \A i \in DOMAIN b : LineEnd(tag, b, i) # NoMatch =>
         LineEnd(tag, b, i) \in DOMAIN b /\ i <= LineEnd(tag, b, i)
  <2> SUFFICES ASSUME NEW i \in DOMAIN b, LineEnd(tag, b, i) # NoMatch
               PROVE  LineEnd(tag, b, i) \in DOMAIN b /\ i <= LineEnd(tag, b, i)
    OBVIOUS
  <2>1. b[i] = Opening(tag)
    BY DEF LineEnd
  <2> QED BY <1>5, <2>1, LineEndIs DEF EndsLine
<1>7. Ends(b, lend)
  <2>1. \A i \in DOMAIN b : i \in Nat
    BY <1>5, TextPositions
  <2> QED BY <1>6, <2>1 DEF Ends
<1>8. t = Sub(b, lend, Everywhere(b, PutIn(TRUE)))
  BY DEF RedactLines, PutIn
<1>9. \A i \in DOMAIN b : lend[i] = LineEnd(tag, b, i)
  OBVIOUS
<1> HIDE DEF t, lend
<1>10. \A q \in DOMAIN t :
         t[q] = Redacted \/ t[q] = Newline \/ \E i \in DOMAIN b : lend[i] = NoMatch /\ t[q] = b[i]
  <2> DEFINE s == Sub(b, lend, Everywhere(b, PutIn(TRUE)))
  <2>1. b \in Seq(S)
    BY <1>5
  <2>2. s \in Seq(S) /\ MadeOf(s, b, lend)
    BY ONLY <1>7, Redacted \in S, Newline \in S, <1>2, <2>1, PutInOrKept
  <2> HIDE DEF s
  <2>3. t = s
    BY <1>8 DEF s
  <2> QED BY <2>2, <2>3 DEF MadeOf
<1>11. ASSUME NEW q \in DOMAIN t, t[q] = Opening(tag) PROVE FALSE
  <2>1. PICK i \in DOMAIN b : lend[i] = NoMatch /\ b[i] = Opening(tag)
    BY <1>1, <1>10, <1>11
  <2>2. LineEnd(tag, b, i) # NoMatch
    BY <1>5, <2>1, LineEndIs
  <2> QED BY <1>9, <2>1, <2>2
<1>12. ASSUME NEW q \in DOMAIN t, NEW u, t[q] = Opening(u)
       PROVE  \E i \in DOMAIN c : c[i] = Opening(u)
  <2>1. PICK i \in DOMAIN b : b[i] = Opening(u)
    BY <1>1, <1>10, <1>12
  <2> QED BY <1>1, <1>5, <2>1
<1>13. RedactTag(c, tag) = t
  BY DEF RedactTag, t, b
<1> QED BY <1>11, <1>12, <1>13

(* A passage marked with the tag opens in the text. *)
Opens(t, u) == \E q \in DOMAIN t : t[q] = Opening(u)

(* The redaction of a set of tags, whatever the order, keeps the words     *)
(* outside the passages of every larger set of tags.                       *)
LEMMA TagsPass ==
    ASSUME NEW S, Redacted \in S, Newline \in S, NEW text, text \in Seq(S),
           NEW order, Len(order) \in Nat, NEW tags, NEW wide, tags \subseteq wide,
           Uncrossed(Passages(text, wide))
    PROVE  /\ RedactTags(text, order, tags) \in Seq(S)
           /\ \A x : x \in WordsOutside(RedactTags(text, order, tags), wide)
                        <=> x \in WordsOutside(text, wide)
<1> DEFINE n == Len(order)
<1>1. PICK g \in [0 .. n -> Seq(S)] : TagByTag(g, text, order, tags)
  BY RedactTagsUnfolds
<1>2. /\ g[0] = text
      /\ \A k \in 1 .. n : g[k] = IF order[k] \in tags THEN RedactTag(g[k - 1], order[k])
                                                       ELSE g[k - 1]
      /\ RedactTags(text, order, tags) = g[n]
  BY <1>1 DEF TagByTag
<1> HIDE DEF n
<1> DEFINE Same(t) == /\ Uncrossed(Passages(t, wide))
                      /\ WordsOutside(t, wide) = WordsOutside(text, wide)
           A == {k \in 0 .. n : Same(g[k])}
<1>3. n \in Nat
  BY DEF n
<1>4. 0 \in A
  BY <1>2, <1>3
<1>5. ASSUME NEW k \in 0 .. n - 1, k \in A PROVE k + 1 \in A
  <2>1. PICK j \in 1 .. n : j = k + 1 /\ j - 1 = k
    BY <1>3
  <2>2. g[j] = IF order[j] \in tags THEN RedactTag(g[j - 1], order[j]) ELSE g[j - 1]
    BY ONLY <1>2, j \in 1 .. n, Zenon
  <2> DEFINE c == g[k]
  <2>3. c \in Seq(S) /\ Same(c)
    BY <1>3, <1>5, <1>2
  <2>4. g[j] = IF order[j] \in tags THEN RedactTag(c, order[j]) ELSE c
    BY <2>1, <2>2
  <2> HIDE DEF c
  <2>5. CASE order[j] \in tags
    <3>1. /\ Uncrossed(Passages(RedactTag(c, order[j]), wide))
          /\ WordsOutside(RedactTag(c, order[j]), wide) = WordsOutside(c, wide)
      <4>1. order[j] \in wide /\ c \in Seq(S) /\ Uncrossed(Passages(c, wide))
        BY <2>3, <2>5
      <4> QED BY <4>1, TagPass
    <3>2. Same(g[j])
      BY <2>3, <2>4, <2>5, <3>1
    <3> QED BY <2>1, <3>2
  <2>6. CASE order[j] \notin tags
    <3>1. Same(g[j])
      BY <2>3, <2>4, <2>6
    <3> QED BY <2>1, <3>1
  <2> QED BY <2>5, <2>6
<1>6. n \in A
  <2> HIDE DEF A
  <2>1. \A k \in 0 .. n - 1 : k \in A => k + 1 \in A
    BY <1>5
  <2>2. \A k \in 0 .. n : k \in A
    BY ONLY <1>3, <1>4, <2>1, Induction
  <2> QED BY <1>3, <2>2
<1> QED BY <1>2, <1>3, <1>6

(* No tag of the set opens in what is left, and no other but where it did. *)
LEMMA TagsGone ==
    ASSUME NEW S, Redacted \in S, Newline \in S, NEW text, text \in Seq(S),
           NEW order, Len(order) \in Nat, NEW tags
    PROVE  /\ \A u : Opens(RedactTags(text, order, tags), u) => Opens(text, u)
           /\ \A k \in 1 .. Len(order) :
                 order[k] \in tags => ~Opens(RedactTags(text, order, tags), order[k])
<1> DEFINE n == Len(order)
<1>1. PICK g \in [0 .. n -> Seq(S)] : TagByTag(g, text, order, tags)
  BY RedactTagsUnfolds
<1>2. /\ g[0] = text
      /\ \A k \in 1 .. n : g[k] = IF order[k] \in tags THEN RedactTag(g[k - 1], order[k])
                                                       ELSE g[k - 1]
      /\ RedactTags(text, order, tags) = g[n]
  BY <1>1 DEF TagByTag
<1> HIDE DEF n
<1> DEFINE Left(t, k) == /\ \A u : Opens(t, u) => Opens(text, u)
                         /\ \A i \in 1 .. k : order[i] \in tags => ~Opens(t, order[i])
           A == {k \in 0 .. n : Left(g[k], k)}
<1>3. n \in Nat
  BY DEF n
<1>4. 0 \in A
  BY <1>2, <1>3
<1>5. ASSUME NEW k \in 0 .. n - 1, k \in A PROVE k + 1 \in A
  <2>1. PICK j \in 1 .. n : j = k + 1 /\ j - 1 = k
    BY <1>3
  <2>2. g[j] = IF order[j] \in tags THEN RedactTag(g[j - 1], order[j]) ELSE g[j - 1]
    BY ONLY <1>2, j \in 1 .. n, Zenon
  <2> DEFINE c == g[k]
  <2>3. c \in Seq(S) /\ Left(c, k)
    BY <1>3, <1>5, <1>2
  <2>4. g[j] = IF order[j] \in tags THEN RedactTag(c, order[j]) ELSE c
    BY <2>1, <2>2
  <2> HIDE DEF c
  <2>5. \A i \in 1 .. j : i \in 1 .. k \/ i = j
    BY <2>1, <1>3
  <2>6. CASE order[j] \in tags
    <3>1. ~Opens(g[j], order[j]) /\ \A u : Opens(g[j], u) => Opens(c, u)
      BY <2>3, <2>4, <2>6, OpeningsLeft DEF Opens
    <3>2. Left(g[j], j)
      BY <2>3, <2>5, <3>1
    <3> QED BY <2>1, <3>2
  <2>7. CASE order[j] \notin tags
    <3>1. Left(g[j], j)
      BY <2>3, <2>4, <2>5, <2>7
    <3> QED BY <2>1, <3>1
  <2> QED BY <2>6, <2>7
<1>6. n \in A
  <2> HIDE DEF A
  <2>1. \A k \in 0 .. n - 1 : k \in A => k + 1 \in A
    BY <1>5
  <2>2. \A k \in 0 .. n : k \in A
    BY ONLY <1>3, <1>4, <2>1, Induction
  <2> QED BY <1>3, <2>2
<1> QED BY <1>2, <1>6 DEF n

(* A text none of the tags opens in has all its words outside their        *)
(* passages.                                                               *)
LEMMA NothingCovered ==
    ASSUME NEW S, NEW c, c \in Seq(S), NEW tags, \A u \in tags : ~Opens(c, u)
    PROVE  \A x : x \in WordsOutside(c, tags) <=> x \in Symbols(c, "word")
<1>1. ASSUME NEW u \in tags, NEW s \in PassageStretches(c, u) PROVE FALSE
  <2>1. IsPassage(c, u, s)
    BY PassageIs
  <2> QED BY <2>1 DEF IsPassage, Opens
<1>2. ASSUME NEW x
      PROVE  x \in Symbols(c, "word") <=> \E i \in DOMAIN c : c[i] = x /\ Kind(c[i]) = "word"
  BY DEF Symbols, Positions
<1> QED BY <1>1, <1>2, WordsOutsideIs

(* _redact_tags takes away exactly the passages marked with its tags, as   *)
(* long as they do not cross: one with a closing tag whole, whatever was   *)
(* cut in it before, the others to the end of their line                   *)
(* (enforcement.py:74-89).                                                 *)
THEOREM RedactionOfTags ==
    ASSUME NEW S, Redacted \in S, Newline \in S, NEW text, text \in Seq(S),
           NEW order, Len(order) \in Nat, NEW tags,
           \A u \in tags : \E k \in 1 .. Len(order) : order[k] = u,
           Uncrossed(Passages(text, tags))
    PROVE  Symbols(RedactTags(text, order, tags), "word") = WordsOutside(text, tags)
<1> DEFINE t == RedactTags(text, order, tags)
<1>1. /\ t \in Seq(S)
      /\ \A x : x \in WordsOutside(t, tags) <=> x \in WordsOutside(text, tags)
  <2>1. tags \subseteq tags
    OBVIOUS
  <2> QED BY <2>1, TagsPass, Zenon
<1>2. \A k \in 1 .. Len(order) : order[k] \in tags => ~Opens(t, order[k])
  BY TagsGone, Zenon
<1> HIDE DEF t
<1>3. \A u \in tags : ~Opens(t, u)
  BY <1>2
<1>4. \A x : x \in WordsOutside(t, tags) <=> x \in Symbols(t, "word")
  BY <1>1, <1>3, NothingCovered
<1>5. Symbols(t, "word") = WordsOutside(text, tags)
  BY <1>1, <1>4
<1> QED BY <1>5 DEF t

-----------------------------------------------------------------------------
(* Symbols that are spelt as those of parts and documents. *)
AllSpelt(V) == \A v \in V : Spelt(v)

(* A text over such symbols. *)
LEMMA SpeltText ==
    ASSUME NEW V, AllSpelt(V), NEW text \in Seq(V)
    PROVE  IsText(text) /\ WellSpelt(text)
<1>1. \A i \in DOMAIN text : text[i] \in V
  OBVIOUS
<1>2. text \in Seq({text[i] : i \in DOMAIN text})
  OBVIOUS
<1> QED BY <1>1, <1>2 DEF IsText, WellSpelt, AllSpelt

(* And the symbols of such a text. *)
LEMMA TextSymbols ==
    ASSUME NEW text, IsText(text), WellSpelt(text)
    PROVE  LET V == {text[i] : i \in DOMAIN text} IN text \in Seq(V) /\ AllSpelt(V)
BY DEF IsText, WellSpelt, AllSpelt

(* Redaction adds only its own mark and a newline. *)
LEMMA RedactedText ==
    ASSUME NEW text, IsText(text), WellSpelt(text), NEW order \in Seq(Tags), NEW tags
    PROVE  IsText(RedactTags(text, order, tags)) /\ WellSpelt(RedactTags(text, order, tags))
<1> DEFINE U == {text[i] : i \in DOMAIN text}
           V == U \cup {Redacted, Newline}
<1>1. text \in Seq(U) /\ AllSpelt(U)
  BY TextSymbols
<1>2. AllSpelt(V)
  <2>1. Kind(Redacted) = "redacted" /\ Kind(Newline) = "newline"
    BY DEF Kind, Redacted, Newline
  <2> HIDE DEF U
  <2> QED BY <1>1, <2>1 DEF AllSpelt, Spelt
<1>3. text \in Seq(V)
  <2> HIDE DEF U
  <2>1. \A i \in DOMAIN text : text[i] \in V
    BY <1>1
  <2> HIDE DEF V
  <2> QED BY <1>1, <2>1
<1>4. Redacted \in V /\ Newline \in V /\ Len(order) \in Nat
  OBVIOUS
<1> HIDE DEF U, V
<1>5. RedactTags(text, order, tags) \in Seq(V)
  <2>1. PICK g \in [0 .. Len(order) -> Seq(V)] : RedactTags(text, order, tags) = g[Len(order)]
    BY <1>3, <1>4, RedactTagsUnfolds DEF TagByTag
  <2> QED BY <2>1, <1>4
<1> QED BY <1>2, <1>5, SpeltText

(* What references are replaced with: documents, sentinels and refusals. *)
LEMMA ReplacementTexts ==
    ASSUME NEW text, IsText(text), WellSpelt(text), NEW user, NEW token
    PROVE  \E V : /\ AllSpelt(V) /\ text \in Seq(V)
                  /\ [i \in DOMAIN text |-> ResolveSymbol(text[i], user, token)]
                        \in [DOMAIN text -> Seq(V)]
<1> DEFINE U == {text[i] : i \in DOMAIN text}
           D == DOMAIN registry
           Body(d) == {DocumentText[d][k] : k \in DOMAIN DocumentText[d]}
           V == U \cup {Open("DOC", token, d) : d \in D} \cup {Close("DOC", token, d) : d \in D}
                  \cup {Refusal(d) : d \in D} \cup UNION {Body(d) : d \in D}
           by == [i \in DOMAIN text |-> ResolveSymbol(text[i], user, token)]
<1>1. text \in Seq(U) /\ AllSpelt(U)
  BY TextSymbols
<1>2. \A d \in D : DocumentText[d] \in Seq(Body(d)) /\ AllSpelt(Body(d))
  BY DocumentsAssumption, TextSymbols
<1> HIDE DEF U, Body
<1>3. AllSpelt(V)
  <2>1. ASSUME NEW d PROVE /\ Kind(Open("DOC", token, d)) = "open"
                           /\ Kind(Close("DOC", token, d)) = "close"
                           /\ Kind(Refusal(d)) = "refusal"
    BY DEF Kind, Open, Close, Refusal
  <2> QED BY <1>1, <1>2, <2>1 DEF AllSpelt, Spelt
<1>4. /\ U \in SUBSET V
      /\ \A d \in D : /\ Open("DOC", token, d) \in V /\ Close("DOC", token, d) \in V
                      /\ Refusal(d) \in V /\ Body(d) \in SUBSET V
  OBVIOUS
<1> HIDE DEF V
<1>5. text \in Seq(V)
  <2>1. \A i \in DOMAIN text : text[i] \in V
    BY <1>1, <1>4
  <2> QED BY <1>1, <2>1
<1>6. ASSUME NEW i \in DOMAIN text PROVE ResolveSymbol(text[i], user, token) \in Seq(V)
  <2>1. text[i] \in V
    BY <1>5
  <2>2. CASE Kind(text[i]) # "reference" \/ text[i][2] \notin D
    <3>1. ResolveSymbol(text[i], user, token) = <<text[i]>>
      BY <2>2 DEF ResolveSymbol
    <3> QED BY <2>1, <3>1
  <2>3. CASE ~(Kind(text[i]) # "reference" \/ text[i][2] \notin D)
    <3>1. PICK d \in D : d = text[i][2]
      BY <2>3
    <3> DEFINE o == Open("DOC", token, d)
               c == Close("DOC", token, d)
               t == DocumentText[d]
    <3>2. /\ ResolveSymbol(text[i], user, token) = <<o>> \o t \o <<c>>
             \/ ResolveSymbol(text[i], user, token) = <<Refusal(d)>>
      BY <2>3, <3>1 DEF ResolveSymbol
    <3>3. o \in V /\ c \in V /\ Refusal(d) \in V
      BY <1>4
    <3>4. t \in Seq(V)
      <4>1. t \in Seq(Body(d)) /\ Body(d) \in SUBSET V
        BY <1>2, <1>4
      <4> HIDE DEF t
      <4>2. \A k \in DOMAIN t : t[k] \in V
        BY <4>1
      <4> QED BY <4>1, <4>2
    <3> HIDE DEF o, c, t
    <3>5. <<o>> \in Seq(V) /\ <<c>> \in Seq(V) /\ <<Refusal(d)>> \in Seq(V)
      BY <3>3
    <3>6. <<o>> \o t \in Seq(V)
      BY <3>4, <3>5, ConcatProperties
    <3>7. (<<o>> \o t) \o <<c>> \in Seq(V)
      BY <3>5, <3>6, ConcatProperties
    <3> QED BY <3>2, <3>5, <3>7
  <2> QED BY <2>2, <2>3
<1>7. by \in [DOMAIN text -> Seq(V)]
  BY <1>6
<1> QED BY <1>3, <1>5, <1>7

(* Resolution adds no more than that. *)
LEMMA ResolvedText ==
    ASSUME NEW text, IsText(text), WellSpelt(text), NEW user, NEW token
    PROVE  /\ IsText(ResolveReferences(text, user, token))
           /\ WellSpelt(ResolveReferences(text, user, token))
<1> DEFINE by == [i \in DOMAIN text |-> ResolveSymbol(text[i], user, token)]
           end == [i \in DOMAIN text |-> IF IsReference(text[i]) THEN i ELSE NoMatch]
<1>1. PICK V : AllSpelt(V) /\ text \in Seq(V) /\ by \in [DOMAIN text -> Seq(V)]
  BY ReplacementTexts
<1>2. ResolveReferences(text, user, token) = Sub(text, end, by)
  BY DEF ResolveReferences
<1> HIDE DEF by, end
<1>3. ResolveReferences(text, user, token) \in Seq(V)
  BY <1>1, <1>2, SubText
<1> QED BY <1>1, <1>3, SpeltText

(* None of it is a word but the reference itself. *)
LEMMA ReplacementWordless ==
    ASSUME NEW s, NEW user, NEW token
    PROVE  \A k \in DOMAIN ResolveSymbol(s, user, token) :
              \/ ResolveSymbol(s, user, token)[k] = s
              \/ Kind(ResolveSymbol(s, user, token)[k]) # "word"
<1>1. CASE Kind(s) # "reference" \/ s[2] \notin DOMAIN registry
  <2>1. ResolveSymbol(s, user, token) = <<s>>
    BY <1>1 DEF ResolveSymbol
  <2> QED BY <2>1
<1>2. CASE ~(Kind(s) # "reference" \/ s[2] \notin DOMAIN registry)
  <2>1. PICK d \in DOMAIN registry : d = s[2]
    BY <1>2
  <2> DEFINE o == <<Open("DOC", token, d)>>
             c == <<Close("DOC", token, d)>>
             t == DocumentText[d]
             r == <<Refusal(d)>>
             l == o \o t
             whole == l \o c
  <2>2. ResolveSymbol(s, user, token) = whole \/ ResolveSymbol(s, user, token) = r
    BY <1>2, <2>1 DEF ResolveSymbol
  <2>3. /\ \A k \in DOMAIN o : Kind(o[k]) # "word"
        /\ \A k \in DOMAIN c : Kind(c[k]) # "word"
        /\ \A k \in DOMAIN r : Kind(r[k]) # "word"
    BY DEF Open, Close, Refusal, Kind
  <2>4. IsText(t) /\ \A k \in DOMAIN t : Kind(t[k]) # "word"
    BY DocumentsAssumption
  <2>5. PICK V : o \in Seq(V) /\ c \in Seq(V) /\ t \in Seq(V)
    <3> DEFINE V == {t[i] : i \in DOMAIN t} \cup {Open("DOC", token, d), Close("DOC", token, d)}
    <3>1. Open("DOC", token, d) \in V /\ Close("DOC", token, d) \in V
      OBVIOUS
    <3>2. \A i \in DOMAIN t : t[i] \in V
      OBVIOUS
    <3>3. t \in Seq({t[i] : i \in DOMAIN t})
      BY <2>4 DEF IsText
    <3> HIDE DEF V, t
    <3>4. t \in Seq(V)
      BY <3>2, <3>3
    <3> QED BY <3>1, <3>4
  <2> HIDE DEF o, c, t, r
  <2>6. ASSUME NEW a, NEW b, a \in Seq(V), b \in Seq(V),
               \A k \in DOMAIN a : Kind(a[k]) # "word", \A k \in DOMAIN b : Kind(b[k]) # "word"
        PROVE  a \o b \in Seq(V) /\ \A k \in DOMAIN (a \o b) : Kind((a \o b)[k]) # "word"
    <3>1. /\ a \o b \in Seq(V) /\ Len(a) \in Nat /\ Len(b) \in Nat
          /\ DOMAIN a = 1 .. Len(a) /\ DOMAIN b = 1 .. Len(b)
          /\ DOMAIN (a \o b) = 1 .. Len(a) + Len(b)
          /\ \A k \in 1 .. Len(a) + Len(b) :
                (a \o b)[k] = IF k <= Len(a) THEN a[k] ELSE b[k - Len(a)]
      BY <2>6
    <3> DEFINE w == a \o b
               m == Len(a)
    <3> HIDE DEF w, m
    <3>2. ASSUME NEW k \in DOMAIN w PROVE Kind(w[k]) # "word"
      <4>1. k \in 1 .. m + Len(b) /\ w[k] = IF k <= m THEN a[k] ELSE b[k - m]
        BY <3>1 DEF w, m
      <4>2. m \in Nat /\ Len(b) \in Nat /\ DOMAIN a = 1 .. m /\ DOMAIN b = 1 .. Len(b)
        BY <3>1 DEF m
      <4>3. CASE k <= m
        <5>1. k \in DOMAIN a /\ w[k] = a[k]
          BY <4>1, <4>2, <4>3
        <5> QED BY <5>1, <2>6
      <4>4. CASE ~(k <= m)
        <5>1. k - m \in DOMAIN b /\ w[k] = b[k - m]
          BY <4>1, <4>2, <4>4
        <5> QED BY <5>1, <2>6
      <4> QED BY <4>3, <4>4
    <3> QED BY <3>1, <3>2 DEF w
  <2>7. l \in Seq(V) /\ \A k \in DOMAIN l : Kind(l[k]) # "word"
    BY <2>3, <2>4, <2>5, <2>6
  <2> HIDE DEF l
  <2>8. \A k \in DOMAIN whole : Kind(whole[k]) # "word"
    BY <2>3, <2>5, <2>6, <2>7
  <2> HIDE DEF whole
  <2> QED BY <2>2, <2>3, <2>8
<1> QED BY <1>1, <1>2

(* Stripping adds only the names of what it strips. *)
LEMMA StrippedText ==
    ASSUME NEW text, IsText(text), WellSpelt(text), NEW family, NEW token
    PROVE  /\ IsText(StripWraps(text, family, token))
           /\ WellSpelt(StripWraps(text, family, token))
<1> DEFINE U == {text[i] : i \in DOMAIN text}
           V == U \cup {Named(family, text[i][2][3]) : i \in DOMAIN text}
           by == Names(text, family)
<1>1. text \in Seq(U) /\ AllSpelt(U)
  BY TextSymbols
<1>2. AllSpelt(V)
  <2>1. ASSUME NEW x PROVE Kind(Named(family, x)) = "named"
    BY DEF Kind, Named
  <2> HIDE DEF U
  <2> QED BY <1>1, <2>1 DEF AllSpelt, Spelt
<1>3. text \in Seq(V)
  <2> HIDE DEF U
  <2>1. \A i \in DOMAIN text : text[i] \in V
    BY <1>1
  <2> HIDE DEF V
  <2> QED BY <1>1, <2>1
<1>4. by \in [DOMAIN text -> Seq(V)]
  <2>1. ASSUME NEW i \in DOMAIN text PROVE Named(family, text[i][2][3]) \in V
    OBVIOUS
  <2> HIDE DEF V
  <2>2. \A i \in DOMAIN text : <<Named(family, text[i][2][3])>> \in Seq(V) /\ <<>> \in Seq(V)
    BY <2>1
  <2> QED BY <2>2 DEF Names
<1> HIDE DEF U, V, by
<1>5. StripWraps(text, family, token) \in Seq(V)
  <2> DEFINE end == [i \in DOMAIN text |-> WrapEnd(family, token, text, i)]
  <2>1. StripWraps(text, family, token) = Sub(text, end, by)
    BY DEF StripWraps, by
  <2> HIDE DEF end
  <2> QED BY <1>3, <1>4, <2>1, SubText
<1> QED BY <1>2, <1>5, SpeltText

(* The copies later stages work on. *)
Stages == {"filtered", "resolved", "redacted", "stripped"}

(* The names of the copies. *)
LEMMA StageNames ==
    /\ DOMAIN NoCopies = {"filtered", "resolved", "live", "redacted", "stripped",
                          "persisted", "record"}
    /\ Stages \in SUBSET DOMAIN NoCopies
    /\ \A stage \in DOMAIN NoCopies : NoCopies[stage] = <<>>
BY DEF NoCopies, Stages

(* A copy not made yet is empty. *)
LEMMA EmptyText == IsText(<<>>) /\ WellSpelt(<<>>)
<1>1. <<>> \in Seq({})
  OBVIOUS
<1> QED BY <1>1, SpeltText DEF AllSpelt

(* Nothing has been masked or scanned, and what came is a text. *)
LEMMA Initially == Init => IInv
<1> SUFFICES ASSUME Init PROVE IInv
  OBVIOUS
<1>1. /\ part.where \in {"system", "user", "tool", "arguments", "reply"}
      /\ part.user \in UserContext
      /\ IsText(part.content) /\ WellSpelt(part.content)
  BY PartsAssumption DEF Init
<1>2. DOMAIN copy = DOMAIN NoCopies /\ \A stage \in Stages :
          copy[stage] = <<>> \/ copy[stage] = part.content
  <2>1. CASE part.where = "reply"
    BY <2>1, StageNames DEF Init
  <2>2. CASE part.where # "reply"
    BY <2>2, StageNames DEF Init
  <2> QED BY <2>1, <2>2
<1>3. TypeOK
  BY <1>1, <1>2, EmptyText DEF TypeOK, Init, Stages
<1>4. pc \in {"mask", "policy"} /\ (pc = "mask" => IsReply)
  BY DEF Init, IsReply
<1>5. IsReply => pc = "mask" /\ copy.resolved = part.content
  BY StageNames DEF Init, IsReply
<1>6. RequestCopies /\ RecordedCopies
  BY <1>4, <1>5 DEF RequestCopies, RecordedCopies
<1> QED BY <1>3, <1>4, <1>6 DEF IInv

(* A stage writes its own copy and leaves the others.                       *)
LEMMA CopyKeepsType ==
    ASSUME TypeOK, NEW stage \in DOMAIN NoCopies, NEW text, Copy(stage, text), part' = part,
           stage \in Stages => IsText(text) /\ WellSpelt(text),
           pc' \in {"policy", "resolve", "scan", "mask", "redact", "strip", "persist",
                    "log", "logged", "rejected"}
    PROVE  /\ TypeOK'
           /\ copy'[stage] = text
           /\ \A other \in DOMAIN NoCopies : other # stage => copy'[other] = copy[other]
<1>1. copy' = [copy EXCEPT ![stage] = text] /\ DOMAIN copy = DOMAIN NoCopies
  BY DEF Copy, TypeOK
<1>2. /\ DOMAIN copy' = DOMAIN NoCopies /\ copy'[stage] = text
      /\ \A other \in DOMAIN NoCopies : other # stage => copy'[other] = copy[other]
  BY <1>1
<1>3. \A s \in Stages : IsText(copy[s]) /\ WellSpelt(copy[s])
  BY DEF TypeOK, Stages
<1>4. \A s \in Stages : IsText(copy'[s]) /\ WellSpelt(copy'[s])
  BY <1>2, <1>3, StageNames
<1>5. \A s \in {"filtered", "resolved", "redacted", "stripped"} :
         (IsText(copy[s]) /\ WellSpelt(copy[s]))'
  BY <1>4 DEF Stages, IsText, WellSpelt
<1>6. (IsText(part.content) /\ WellSpelt(part.content))'
  BY DEF TypeOK, IsText, WellSpelt
<1>7. TypeOK'
  BY <1>2, <1>5, <1>6 DEF TypeOK
<1> QED BY <1>2, <1>7

(* The copies that went upstream are not written again.                    *)
LEMMA CopiesStay ==
    ASSUME RequestCopies, part' = part,
           copy'.filtered = copy.filtered, copy'.resolved = copy.resolved,
           pc \notin {"policy", "resolve"}, pc' \notin {"policy", "resolve", "scan"}
    PROVE  RequestCopies'
BY DEF RequestCopies, filter_part, resolve_part, IsReply

(* What is cut for the user stays a text. *)
LEMMA FilteredPart ==
    ASSUME NEW text, IsText(text), WellSpelt(text)
    PROVE  IsText(filter_part(text)) /\ WellSpelt(filter_part(text))
BY RedactedText, TagListsAssumption DEF filter_part, RedactForUser

(* What the documents are resolved in becomes one. *)
LEMMA ResolvedPart ==
    ASSUME NEW text, IsText(text), WellSpelt(text)
    PROVE  IsText(resolve_part(text)) /\ WellSpelt(resolve_part(text))
BY ResolvedText DEF resolve_part

(* What a string's part of the body asks for leaves a text. *)
LEMMA RedactedPart ==
    ASSUME NEW text, IsText(text), WellSpelt(text)
    PROVE  IsText(redact_part(text)) /\ WellSpelt(redact_part(text))
BY RedactedText, TagListsAssumption DEF redact_part, RedactForEverybody

(* So do the two strips. *)
LEMMA StrippedPart ==
    ASSUME NEW text, IsText(text), WellSpelt(text)
    PROVE  IsText(strip_part(text)) /\ WellSpelt(strip_part(text))
<1> DEFINE documents == IF IsReply THEN text ELSE StripWraps(text, "DOC", Token)
<1>1. IsText(documents) /\ WellSpelt(documents)
  BY StrippedText
<1>2. strip_part(text) = IF part.where = "arguments" THEN text
                         ELSE IF part.interagent THEN StripWraps(documents, "IAP", Token)
                         ELSE documents
  BY DEF strip_part
<1> HIDE DEF documents
<1>3. /\ IsText(StripWraps(documents, "IAP", Token))
      /\ WellSpelt(StripWraps(documents, "IAP", Token))
  BY <1>1, StrippedText
<1> QED BY <1>1, <1>2, <1>3

(* A stage leaves its text for the next one, and no later stage writes     *)
(* over the text a masked copy or the scan is compared with.               *)
LEMMA Stepwise ==
    ASSUME IInv, [Next]_vars
    PROVE  IInv'
<1>1. TypeOK
  BY DEF IInv
<1>2. \A stage \in Stages : IsText(copy[stage]) /\ WellSpelt(copy[stage])
  BY <1>1 DEF TypeOK, Stages
<1>3. IsText(part.content) /\ WellSpelt(part.content)
  BY <1>1 DEF TypeOK
<1>4. /\ "filtered" \in Stages /\ "resolved" \in Stages /\ "redacted" \in Stages
      /\ "stripped" \in Stages
      /\ \A s \in {"filtered", "resolved", "live", "redacted", "stripped", "persisted",
                   "record"} : s \in DOMAIN NoCopies
      /\ "live" \notin Stages /\ "persisted" \notin Stages /\ "record" \notin Stages
  BY StageNames DEF Stages
<1>5. RequestCopies
  BY DEF IInv
<1>6. CASE EnforcePolicy
  <2> DEFINE text == filter_part(part.content)
  <2>1. Copy("filtered", text) /\ part' = part /\ pc' = "resolve" /\ pc = "policy"
    BY <1>6 DEF EnforcePolicy
  <2>2. IsText(text) /\ WellSpelt(text)
    BY <1>3, FilteredPart
  <2> HIDE DEF text
  <2>3. TypeOK' /\ copy'["filtered"] = text
    BY <1>1, <1>4, <2>1, <2>2, CopyKeepsType
  <2>4. RequestCopies'
    BY <1>5, <2>1, <2>3 DEF RequestCopies, text, filter_part, IsReply
  <2>5. RecordedCopies'
    BY <2>1 DEF RecordedCopies
  <2> QED BY <2>1, <2>3, <2>4, <2>5 DEF IInv
<1>7. CASE Resolve
  <2> DEFINE text == resolve_part(copy.filtered)
  <2>1. Copy("resolved", text) /\ part' = part /\ pc' = "scan" /\ pc = "resolve"
    BY <1>7 DEF Resolve
  <2>2. IsText(text) /\ WellSpelt(text)
    <3>1. IsText(copy["filtered"]) /\ WellSpelt(copy["filtered"])
      BY <1>2, <1>4
    <3> QED BY <3>1, ResolvedPart
  <2> HIDE DEF text
  <2>3. /\ TypeOK' /\ copy'["resolved"] = text
        /\ \A other \in DOMAIN NoCopies : other # "resolved" => copy'[other] = copy[other]
    BY <1>1, <1>4, <2>1, <2>2, CopyKeepsType
  <2>4. copy'.filtered = copy.filtered
    BY <1>4, <2>3
  <2>5. RequestCopies'
    BY <2>1, <2>3, <2>4, <1>5 DEF RequestCopies, text, filter_part, resolve_part, IsReply
  <2>6. RecordedCopies'
    BY <2>1 DEF RecordedCopies
  <2> QED BY <2>1, <2>3, <2>5, <2>6 DEF IInv
<1>8. CASE Scan
  <2>1. PICK raised \in SUBSET Boostable(ScannedText, {"attempt"}) :
           scanned' = scan_text_for_injection(ScannedText, raised)
    BY <1>8 DEF Scan
  <2>2. UNCHANGED <<part, copy, restricted>> /\ pc' \in {"rejected", "mask"} /\ pc = "scan"
          /\ (pc' = "mask" => ~exceeds(scanned'))
    BY <1>8 DEF Scan
  <2>3. TypeOK'
    BY <1>1, <2>2 DEF TypeOK, IsText, WellSpelt
  <2>4. raised \in SUBSET {"attempt"}
    BY DEF Boostable
  <2>5. scanned' = scan_text_for_injection(copy'.resolved, raised)
    BY <2>1, <2>2 DEF ScannedText
  <2>6. pc' = "mask" => ~exceeds(scanned)'
    BY <2>2 DEF exceeds
  <2>7. RequestCopies'
    BY <1>5, <2>2, CopiesStay
  <2>8. RecordedCopies'
    BY <2>2 DEF RecordedCopies
  <2> QED BY <2>2, <2>3, <2>4, <2>5, <2>6, <2>7, <2>8 DEF IInv
<1>9. CASE MaskLive
  <2>1. PICK raised : /\ boosted' = raised
                      /\ Copy("live", mask_part(copy.resolved, DEFAULT_ENTITIES_TO_MASK,
                                        get_masking_exempt_entities(part.user), raised))
    BY <1>9 DEF MaskLive
  <2>2. part' = part /\ scanned' = scanned /\ pc' = "redact" /\ pc = "mask" /\ restricted' = restricted
    BY <1>9 DEF MaskLive
  <2> DEFINE text == mask_part(copy.resolved, DEFAULT_ENTITIES_TO_MASK,
                               get_masking_exempt_entities(part.user), raised)
  <2>3. /\ TypeOK' /\ copy'["live"] = text
        /\ \A other \in DOMAIN NoCopies : other # "live" => copy'[other] = copy[other]
    <3> HIDE DEF text
    <3> QED BY <1>1, <1>4, <2>1, <2>2, CopyKeepsType DEF text
  <2>4. copy'.resolved = copy.resolved /\ copy'.filtered = copy.filtered
          /\ copy'.redacted = copy.redacted
    BY <1>4, <2>3
  <2>5. copy'.live = mask_part(copy.resolved, DEFAULT_ENTITIES_TO_MASK, LiveExempt, boosted)'
    BY <2>1, <2>2, <2>3, <2>4 DEF mask_part, IsJson, LiveExempt
  <2>6. ~IsReply' => /\ \E r \in SUBSET {"attempt"} :
                           scanned' = scan_text_for_injection(copy'.resolved, r)
                     /\ ~exceeds(scanned')
    BY <2>2, <2>4 DEF IInv, IsReply
  <2>7. RequestCopies'
    BY <1>5, <2>2, <2>4, CopiesStay
  <2>8. RecordedCopies'
    BY <2>2 DEF RecordedCopies
  <2> QED BY <2>2, <2>3, <2>5, <2>6, <2>7, <2>8 DEF IInv, exceeds
<1>10. CASE Redact
  <2> DEFINE text == redact_part(copy.resolved)
  <2>1. Copy("redacted", text) /\ part' = part /\ pc' = "strip" /\ pc = "redact"
          /\ restricted' = (text # copy.resolved)
    BY <1>10 DEF Redact
  <2>2. IsText(text) /\ WellSpelt(text)
    <3>1. IsText(copy["resolved"]) /\ WellSpelt(copy["resolved"])
      BY <1>2, <1>4
    <3> QED BY <3>1, RedactedPart
  <2> HIDE DEF text
  <2>3. /\ TypeOK' /\ copy'["redacted"] = text
        /\ \A other \in DOMAIN NoCopies : other # "redacted" => copy'[other] = copy[other]
    BY <1>1, <1>4, <2>1, <2>2, CopyKeepsType
  <2>4. copy'.filtered = copy.filtered /\ copy'.resolved = copy.resolved
    BY <1>4, <2>3
  <2>5. RequestCopies'
    BY <1>5, <2>1, <2>4, CopiesStay
  <2>6. /\ copy'.redacted = redact_part(copy.resolved)'
        /\ restricted' = (copy'.redacted # copy'.resolved)
    BY <2>1, <2>3, <2>4 DEF text, redact_part
  <2>7. RecordedCopies'
    BY <2>1, <2>6 DEF RecordedCopies
  <2> QED BY <2>1, <2>3, <2>5, <2>7 DEF IInv
<1>11. CASE Strip
  <2> DEFINE text == strip_part(copy.redacted)
  <2>1. Copy("stripped", text) /\ part' = part /\ pc' = "persist"
          /\ pc = "strip" /\ restricted' = restricted
    BY <1>11 DEF Strip
  <2>2. IsText(text) /\ WellSpelt(text)
    <3>1. IsText(copy["redacted"]) /\ WellSpelt(copy["redacted"])
      BY <1>2, <1>4
    <3> QED BY <3>1, StrippedPart
  <2> HIDE DEF text
  <2>3. /\ TypeOK' /\ copy'["stripped"] = text
        /\ \A other \in DOMAIN NoCopies : other # "stripped" => copy'[other] = copy[other]
    BY <1>1, <1>4, <2>1, <2>2, CopyKeepsType
  <2>4. copy'.resolved = copy.resolved /\ copy'.filtered = copy.filtered
          /\ copy'.redacted = copy.redacted
    BY <1>4, <2>3
  <2>5. RequestCopies'
    BY <1>5, <2>1, <2>4, CopiesStay
  <2>6. /\ copy'.redacted = redact_part(copy.resolved)'
        /\ restricted' = (copy'.redacted # copy'.resolved)
    BY <2>1, <2>4 DEF IInv, RecordedCopies, redact_part
  <2>7. copy'.stripped = strip_part(copy.redacted)'
    BY <2>1, <2>3, <2>4 DEF text, strip_part, IsReply
  <2>8. RecordedCopies'
    BY <2>1, <2>6, <2>7 DEF RecordedCopies
  <2> QED BY <2>1, <2>3, <2>5, <2>8 DEF IInv
<1>12. CASE MaskPersisted
  <2>1. PICK raised : /\ boosted' = raised
                      /\ Copy("persisted",
                              mask_part(copy.stripped, PERSISTED_VIEW_ENTITIES, {}, raised))
    BY <1>12 DEF MaskPersisted
  <2>2. part' = part /\ pc' = "log" /\ pc = "persist" /\ restricted' = restricted
    BY <1>12 DEF MaskPersisted
  <2> DEFINE text == mask_part(copy.stripped, PERSISTED_VIEW_ENTITIES, {}, raised)
  <2>3. /\ TypeOK' /\ copy'["persisted"] = text
        /\ \A other \in DOMAIN NoCopies : other # "persisted" => copy'[other] = copy[other]
    <3> HIDE DEF text
    <3> QED BY <1>1, <1>4, <2>1, <2>2, CopyKeepsType DEF text
  <2>4. copy'.stripped = copy.stripped /\ copy'.resolved = copy.resolved
          /\ copy'.filtered = copy.filtered /\ copy'.redacted = copy.redacted
    BY <1>4, <2>3
  <2>5. copy'.persisted = mask_part(copy.stripped, PERSISTED_VIEW_ENTITIES, {}, boosted)'
    BY <2>1, <2>2, <2>3, <2>4 DEF mask_part, IsJson
  <2>6. RequestCopies'
    BY <1>5, <2>2, <2>4, CopiesStay
  <2>7. /\ copy'.redacted = redact_part(copy.resolved)' /\ copy'.stripped = strip_part(copy.redacted)'
        /\ restricted' = (copy'.redacted # copy'.resolved)
    BY <2>2, <2>4 DEF IInv, RecordedCopies, redact_part, strip_part, IsReply
  <2>8. RecordedCopies'
    BY <2>2, <2>5, <2>7 DEF RecordedCopies
  <2> QED BY <2>2, <2>3, <2>6, <2>8 DEF IInv
<1>13. CASE Log
  <2>1. Copy("record", langfuse_mask(copy.persisted)) /\ part' = part /\ pc' = "logged"
          /\ pc = "log" /\ restricted' = restricted /\ boosted' = boosted
    BY <1>13 DEF Log
  <2> DEFINE text == langfuse_mask(copy.persisted)
  <2> HIDE DEF text
  <2>2. /\ TypeOK' /\ copy'["record"] = text
        /\ \A other \in DOMAIN NoCopies : other # "record" => copy'[other] = copy[other]
    BY <1>1, <1>4, <2>1, CopyKeepsType DEF text
  <2>3. copy'.resolved = copy.resolved /\ copy'.filtered = copy.filtered
          /\ copy'.redacted = copy.redacted /\ copy'.stripped = copy.stripped
          /\ copy'.persisted = copy.persisted
    BY <1>4, <2>2
  <2>4. RequestCopies'
    BY <1>5, <2>1, <2>3, CopiesStay
  <2>5. /\ copy'.redacted = redact_part(copy.resolved)' /\ copy'.stripped = strip_part(copy.redacted)'
        /\ restricted' = (copy'.redacted # copy'.resolved)
    BY <2>1, <2>3 DEF IInv, RecordedCopies, redact_part, strip_part, IsReply
  <2>6. copy'.persisted = mask_part(copy.stripped, PERSISTED_VIEW_ENTITIES, {}, boosted)'
    BY <2>1, <2>3 DEF IInv, RecordedCopies, mask_part, IsJson
  <2>7. copy'.record = langfuse_mask(copy.persisted)'
    BY <2>2, <2>3 DEF text
  <2>8. RecordedCopies'
    BY <2>1, <2>5, <2>6, <2>7 DEF RecordedCopies
  <2> QED BY <2>1, <2>2, <2>4, <2>8 DEF IInv
<1>14. CASE UNCHANGED vars
  <2>1. RecordedCopies'
    BY <1>14 DEF vars, IInv, RecordedCopies, redact_part, strip_part, mask_part, IsReply, IsJson
  <2> QED BY <1>14, <2>1 DEF vars, IInv, RequestCopies, TypeOK, IsText, WellSpelt, IsReply,
       filter_part, resolve_part, LiveExempt, mask_part, IsJson, exceeds
<1> QED BY <1>6, <1>7, <1>8, <1>9, <1>10, <1>11, <1>12, <1>13, <1>14 DEF Next

(* IInv holds of every string on its whole way through the handler, for    *)
(* every matrix, registry, thresholds and set of texts (main.py:224-286).  *)
THEOREM Invariant == Spec => []IInv
BY Initially, Stepwise, PTL DEF Spec

-----------------------------------------------------------------------------
(* Counted from the left with the parity of the length, the code's Luhn    *)
(* check is the one counted from the right (recognizers.py:64-88).         *)
LEMMA IssuedNumbersValidate == ValidCards
<1> SUFFICES ASSUME NEW ds \in CardNumbers PROVE validate_result(ds)
  BY DEF ValidCards
<1>1. ds \in Seq(0 .. 9) /\ Len(ds) \in 13 .. 19 /\ LuhnSum(ds) % 10 = 0
  BY CardNumbersAssumption
<1> DEFINE fromTheRight(i) == IF (Len(ds) + 1 - i) % 2 = 0
                              THEN ((2 * ds[i]) \div 10) + ((2 * ds[i]) % 10) ELSE ds[i]
           asCoded(i) == IF (i - 1) % 2 = Len(ds) % 2 THEN Doubled(ds[i]) ELSE ds[i]
<1>2. ASSUME NEW i \in DOMAIN ds PROVE fromTheRight(i) = asCoded(i)
  <2>1. i \in Nat /\ Len(ds) \in Nat /\ i <= Len(ds) /\ 1 <= i /\ ds[i] \in 0 .. 9
    BY <1>1
  <2>2. (Len(ds) + 1 - i) % 2 = 0 <=> (i - 1) % 2 = Len(ds) % 2
    <3>1. PICK l \in Nat : l = Len(ds)
      BY <2>1
    <3>2. (l + 1 - i) % 2 = 0 <=> (i - 1) % 2 = l % 2
      BY <2>1, <3>1, Z3
    <3> QED BY <3>1, <3>2
  <2>3. \A d \in 0 .. 9 : ((2 * d) \div 10) + ((2 * d) % 10) = Doubled(d)
    BY DEF Doubled
  <2> QED BY <2>1, <2>2, <2>3
<1>3. [i \in DOMAIN ds |-> fromTheRight(i)] = [i \in DOMAIN ds |-> asCoded(i)]
  <2> HIDE DEF fromTheRight, asCoded
  <2> QED BY <1>2
<1>4. luhn_checksum(ds) = LuhnSum(ds) % 10
  BY <1>3 DEF luhn_checksum, LuhnSum
<1> QED BY <1>1, <1>4 DEF validate_result

(* No value of a masked kind is left, however the string is masked. *)
LEMMA PartMasked ==
    ASSUME NEW S, NEW text \in Seq(S), NEW entities, IsMasking(entities), NEW exempt, NEW raised,
           DEFAULT_ENTITIES_TO_MASK \subseteq entities,
           "PROPRIETARY_SOURCE_MARKER" \notin exempt,
           NEW t \in MaskedTexts(text, mask_part(text, entities, exempt, raised))
    PROVE  /\ NoneOf(t, exempt)
           /\ "MONETARY_AMOUNT" \in entities \ exempt => Positions(t, "amount") = {}
<1>1. CASE AsJson(text)
  <2>1. LET out == mask_json_encoded_string(text, entities, exempt, raised)
        IN  \A p \in DOMAIN out : out[p] = Leaf =>
               /\ NoneOf(json_loads(out)[p], exempt)
               /\ "MONETARY_AMOUNT" \in entities \ exempt =>
                     Positions(json_loads(out)[p], "amount") = {}
    BY <1>1, IssuedNumbersValidate, MaskJsonLeavesNone DEF AsJson
  <2>2. mask_part(text, entities, exempt, raised)
          = mask_json_encoded_string(text, entities, exempt, raised)
    BY <1>1 DEF AsJson, mask_part
  <2> QED BY <1>1, <2>1, <2>2 DEF MaskedTexts
<1>2. CASE ~AsJson(text)
  <2>1. t = mask_text(text, entities, exempt, raised)
    BY <1>2 DEF MaskedTexts, AsJson, mask_part, mask_json_encoded_string
  <2> QED BY <2>1, IssuedNumbersValidate, MaskTextLeavesNone
<1> QED BY <1>1, <1>2

(* What the invariant says of the copies that are masked. *)
LEMMA CopiesAreTexts ==
    ASSUME IInv
    PROVE  /\ \E S : copy.resolved \in Seq(S)
           /\ \E S : copy.stripped \in Seq(S)
           /\ WellSpelt(copy.resolved) /\ WellSpelt(copy.stripped)
BY DEF IInv, TypeOK, IsText

(* ValuesMasked follows from the invariant. *)
LEMMA MaskedValues ==
    ASSUME IInv
    PROVE  ValuesMasked
<1>1. ASSUME pc = "redact", LinesAreMasked, NEW t \in MaskedTexts(copy.resolved, copy.live)
      PROVE  NoneOf(t, LiveExempt)
  <2>1. copy.live = mask_part(copy.resolved, DEFAULT_ENTITIES_TO_MASK, LiveExempt, boosted)
    BY <1>1 DEF IInv
  <2>2. PICK S : copy.resolved \in Seq(S)
    BY CopiesAreTexts
  <2>3. IsMasking(DEFAULT_ENTITIES_TO_MASK) /\ "PROPRIETARY_SOURCE_MARKER" \notin LiveExempt
    BY <1>1, EntityFacts DEF LinesAreMasked
  <2> QED BY <2>1, <2>2, <2>3, PartMasked
<1>2. ASSUME pc = "log", NEW t \in MaskedTexts(copy.stripped, copy.persisted)
      PROVE  NoneOf(t, {}) /\ Positions(t, "amount") = {}
  <2>1. copy.persisted = mask_part(copy.stripped, PERSISTED_VIEW_ENTITIES, {}, boosted)
    BY <1>2 DEF IInv, RecordedCopies
  <2>2. PICK S : copy.stripped \in Seq(S)
    BY CopiesAreTexts
  <2>3. /\ IsMasking(PERSISTED_VIEW_ENTITIES)
        /\ DEFAULT_ENTITIES_TO_MASK \subseteq PERSISTED_VIEW_ENTITIES
        /\ "MONETARY_AMOUNT" \in PERSISTED_VIEW_ENTITIES \ {}
    BY EntityFacts DEF PERSISTED_VIEW_ENTITIES
  <2> QED BY <2>1, <2>2, <2>3, PartMasked
<1> QED BY <1>1, <1>2 DEF ValuesMasked

(* MaskText and MaskedFindingsExact for one text. *)
LEMMA TextInOnePass ==
    ASSUME NEW S, NEW text \in Seq(S), NEW entities, IsMasking(entities), NEW exempt, NEW raised
    PROVE  LET found == MaskedFindings(text, entities, exempt, raised)
           IN  /\ mask_text(text, entities, exempt, raised) = OnePass(text, found)
               /\ FindingsExact(text, found)
<1> DEFINE F == MaskedFindings(text, entities, exempt, raised)
           out == mask_text(text, entities, exempt, raised)
<1>1. /\ out = OnePass(text, F)
      /\ out \in Seq(S \cup {Placeholder(F, f) : f \in F})
      /\ \E src : Kept(text, F, out, src)
  BY MaskText, Zenon
<1> QED BY <1>1, MaskedFindingsExact

(* The same for a string masked whole or value by value. *)
LEMMA PartInOnePass ==
    ASSUME NEW S, NEW text \in Seq(S), NEW entities, IsMasking(entities), NEW exempt
    PROVE  MaskedInOnePass(text, mask_part(text, entities, exempt, boosted), entities, exempt)
<1> DEFINE found(t) == MaskedFindings(t, entities, exempt, boosted)
           parsed   == json_loads(text)
<1>1. CASE AsJson(text)
  <2> DEFINE spliced == [i \in DOMAIN parsed |->
                            IF text[i] = Leaf THEN OnePass(parsed[i], found(parsed[i]))
                                              ELSE parsed[i]]
  <2>1. mask_part(text, entities, exempt, boosted)
          = json_dumps(text, mask_json_value(text, entities, exempt, boosted))
    BY <1>1 DEF AsJson, mask_part, mask_json_encoded_string
  <2>2. ASSUME NEW i \in DOMAIN parsed
        PROVE  /\ mask_text(parsed[i], entities, exempt, boosted)
                    = OnePass(parsed[i], found(parsed[i]))
               /\ FindingsExact(parsed[i], found(parsed[i]))
    <3>1. parsed[i] \in Seq(Decoded(S))
      BY LoadsAre
    <3> QED BY <3>1, TextInOnePass
  <2>3. mask_json_value(text, entities, exempt, boosted)
          = [i \in DOMAIN parsed |->
                IF text[i] = Leaf THEN mask_text(parsed[i], entities, exempt, boosted)
                                  ELSE parsed[i]]
    BY DEF mask_json_value
  <2> HIDE DEF parsed, found
  <2>4. mask_json_value(text, entities, exempt, boosted) = spliced
    BY <2>2, <2>3
  <2> QED BY <1>1, <2>1, <2>2, <2>4 DEF MaskedInOnePass, parsed, found
<1>2. CASE ~AsJson(text)
  <2>1. mask_part(text, entities, exempt, boosted) = mask_text(text, entities, exempt, boosted)
    BY <1>2 DEF AsJson, mask_part, mask_json_encoded_string
  <2>2. mask_text(text, entities, exempt, boosted) = OnePass(text, found(text))
           /\ FindingsExact(text, found(text))
    BY TextInOnePass
  <2> QED BY <1>2, <2>1, <2>2 DEF MaskedInOnePass
<1> QED BY <1>1, <1>2

(* SplicesExact follows from the invariant. *)
LEMMA ExactSplices ==
    ASSUME IInv
    PROVE  SplicesExact
<1>1. ASSUME pc = "redact"
      PROVE  MaskedInOnePass(copy.resolved, copy.live, DEFAULT_ENTITIES_TO_MASK, LiveExempt)
  <2>1. copy.live = mask_part(copy.resolved, DEFAULT_ENTITIES_TO_MASK, LiveExempt, boosted)
    BY <1>1 DEF IInv
  <2>2. PICK S : copy.resolved \in Seq(S)
    BY CopiesAreTexts
  <2> QED BY <2>1, <2>2, EntityFacts, PartInOnePass
<1>2. ASSUME pc = "log"
      PROVE  MaskedInOnePass(copy.stripped, copy.persisted, PERSISTED_VIEW_ENTITIES, {})
  <2>1. copy.persisted = mask_part(copy.stripped, PERSISTED_VIEW_ENTITIES, {}, boosted)
    BY <1>2 DEF IInv, RecordedCopies
  <2>2. PICK S : copy.stripped \in Seq(S)
    BY CopiesAreTexts
  <2> QED BY <2>1, <2>2, EntityFacts, PartInOnePass
<1> QED BY <1>1, <1>2 DEF SplicesExact

(* LinesYieldOnlyToBetter follows from the invariant. *)
LEMMA YieldingLines ==
    ASSUME IInv
    PROVE  LinesYieldOnlyToBetter
<1>1. ASSUME ~IsJson, pc = "redact", LinesAreMasked
      PROVE  LinesYield(copy.resolved, copy.live)
  <2>1. copy.live = mask_text(copy.resolved, DEFAULT_ENTITIES_TO_MASK, LiveExempt, boosted)
    BY <1>1 DEF IInv, mask_part
  <2>2. PICK S : copy.resolved \in Seq(S)
    BY CopiesAreTexts
  <2>3. "PROPRIETARY_SOURCE_MARKER" \notin LiveExempt
    BY <1>1 DEF LinesAreMasked
  <2> QED BY <2>1, <2>2, <2>3, EntityFacts, MaskTextYields
<1>2. ASSUME ~IsJson, pc = "log"
      PROVE  LinesYield(copy.stripped, copy.persisted)
  <2>1. copy.persisted = mask_text(copy.stripped, PERSISTED_VIEW_ENTITIES, {}, boosted)
    BY <1>2 DEF IInv, RecordedCopies, mask_part
  <2>2. PICK S : copy.stripped \in Seq(S)
    BY CopiesAreTexts
  <2>3. DEFAULT_ENTITIES_TO_MASK \subseteq PERSISTED_VIEW_ENTITIES
           /\ "PROPRIETARY_SOURCE_MARKER" \notin {}
    BY DEF PERSISTED_VIEW_ENTITIES
  <2> QED BY <2>1, <2>2, <2>3, EntityFacts, MaskTextYields
<1> QED BY <1>1, <1>2 DEF LinesYieldOnlyToBetter

(* ScanSeesWhatIsForwarded follows: the live copy is masked from the text  *)
(* the scanner passed.                                                     *)
LEMMA WhatIsForwarded ==
    ASSUME IInv
    PROVE  ScanSeesWhatIsForwarded
<1> SUFFICES ASSUME pc = "redact", ~IsReply
             PROVE  /\ Cardinality(Positions(copy.live, "attempt"))
                         <= Cardinality(scanned) + Cardinality(DecodedAttempts(copy.resolved))
                    /\ \A f \in scanned : f.score < BlockThreshold
  BY DEF ScanSeesWhatIsForwarded
<1>1. copy.live = mask_part(copy.resolved, DEFAULT_ENTITIES_TO_MASK, LiveExempt, boosted)
  BY DEF IInv
<1>2. PICK S : copy.resolved \in Seq(S)
  BY CopiesAreTexts
<1>3. PICK raised : scanned = scan_text_for_injection(copy.resolved, raised)
  BY DEF IInv
<1>4. ~exceeds(scanned)
  BY DEF IInv
<1>5. WellSpelt(copy.resolved)
  BY CopiesAreTexts
<1> DEFINE raw     == Positions(copy.resolved, "attempt")
           decoded == DecodedAttempts(copy.resolved)
<1>6. /\ IsFiniteSet(raw) /\ Cardinality(raw) <= Cardinality(scanned)
      /\ Cardinality(scanned) \in Nat
  BY <1>2, <1>3, <1>5, ScanCountsAttempts
<1>7. IsFiniteSet(decoded) /\ Cardinality(raw) \in Nat /\ Cardinality(decoded) \in Nat
  <2>1. decoded \in SUBSET (1 .. Len(copy.resolved)) /\ Len(copy.resolved) \in Nat
    BY <1>2 DEF DecodedAttempts, Positions
  <2> HIDE DEF raw, decoded
  <2>2. IsFiniteSet(decoded)
    <3>1. IsFiniteSet(1 .. Len(copy.resolved))
      BY <2>1, FS_Interval
    <3> QED BY <2>1, <3>1, FS_Subset
  <2> QED BY <2>2, <1>6, FS_CardinalityType
<1>8. PICK from : Drawn(copy.live, raw \cup decoded, from)
  <2>1. CASE AsJson(copy.resolved)
    <3>1. /\ ParsesAsJson(copy.resolved) /\ decoded = Coded(copy.resolved)
          /\ copy.live = mask_json_encoded_string(copy.resolved, DEFAULT_ENTITIES_TO_MASK,
                                                  LiveExempt, boosted)
      BY <1>1, <2>1 DEF AsJson, mask_part, DecodedAttempts, Coded
    <3>2. \E from : Drawn(mask_json_encoded_string(copy.resolved, DEFAULT_ENTITIES_TO_MASK,
                                                  LiveExempt, boosted),
                          Positions(copy.resolved, "attempt") \cup Coded(copy.resolved), from)
      BY <3>1, <1>2, EntityFacts, MaskJsonDrawn
    <3> QED BY <3>1, <3>2
  <2>2. CASE ~AsJson(copy.resolved)
    <3>1. /\ raw \cup decoded = raw
          /\ copy.live = mask_text(copy.resolved, DEFAULT_ENTITIES_TO_MASK, LiveExempt, boosted)
      BY <1>1, <2>2 DEF AsJson, mask_part, mask_json_encoded_string, DecodedAttempts
    <3>2. \E from : Drawn(mask_text(copy.resolved, DEFAULT_ENTITIES_TO_MASK, LiveExempt, boosted),
                          Positions(copy.resolved, "attempt"), from)
      BY <1>2, EntityFacts, MaskTextDrawn
    <3> QED BY <3>1, <3>2
  <2> QED BY <2>1, <2>2
<1>9. Cardinality(Positions(copy.live, "attempt"))
         <= Cardinality(scanned) + Cardinality(decoded)
  <2> HIDE DEF raw, decoded
  <2>1. Cardinality(Positions(copy.live, "attempt"))
           <= Cardinality(raw) + Cardinality(decoded)
    BY <1>6, <1>7, <1>8, DrawnCount
  <2>2. Cardinality(Positions(copy.live, "attempt")) \in Nat
    <3>1. from \in [Positions(copy.live, "attempt") -> raw \cup decoded]
             /\ \A q, r \in Positions(copy.live, "attempt") : from[q] = from[r] => q = r
      BY <1>8 DEF Drawn
    <3>2. IsFiniteSet(raw \cup decoded)
      BY <1>6, <1>7, FS_Union
    <3> QED BY <3>1, <3>2, Injected, FS_CardinalityType
  <2> QED BY <2>1, <2>2, <1>6, <1>7
<1>10. ASSUME NEW f \in scanned PROVE f.score < BlockThreshold
  <2>1. PICK i \in DOMAIN copy.resolved :
           /\ f \in FindingsAt(copy.resolved, i, raised)
           /\ f.entity \in INJECTION_ENTITY_TYPES
    BY <1>3 DEF scan_text_for_injection, scan_entities
  <2>2. Kind(copy.resolved[i]) = "attempt"
    BY <2>1, <1>2, FindingShape DEF INJECTION_ENTITY_TYPES
  <2>3. f.score = Raised("attempt", copy.resolved[i][2], raised)
    BY <2>1, <2>2, <1>2, FindingShape
  <2>4. copy.resolved[i][2] \in Nat /\ copy.resolved[i][2] <= MaxScore
    BY <1>5, <2>2 DEF WellSpelt, Spelt, AttemptScores, MaxScore
  <2>5. f.score \in Nat
    BY <2>3, <2>4, RaisedFacts
  <2> QED BY <2>5, <1>4, ThresholdAssumption DEF exceeds
<1> QED BY <1>9, <1>10

(* Every text is over its own symbols and what a redaction puts in. *)
LEMMA SymbolsAndMarks ==
    ASSUME NEW text, IsText(text)
    PROVE  \E S : Redacted \in S /\ Newline \in S /\ text \in Seq(S)
<1> DEFINE U == {text[i] : i \in DOMAIN text}
           S == U \cup {Redacted, Newline}
<1>1. text \in Seq(U)
  BY DEF IsText
<1> HIDE DEF U
<1>2. \A i \in DOMAIN text : text[i] \in S
  BY <1>1
<1>3. Redacted \in S /\ Newline \in S
  OBVIOUS
<1> HIDE DEF S
<1>4. text \in Seq(S)
  BY <1>1, <1>2
<1> QED BY <1>3, <1>4

(* The matrix's lists hold every tag that is restricted for somebody. *)
LEMMA TagsListed ==
    ASSUME NEW user \in UserContext
    PROVE  /\ Len(ListedTags) \in Nat /\ Len(SortedTags) \in Nat
           /\ RestrictedTags(user) \subseteq most_restrictive_doc_tags
           /\ \A u \in RestrictedTags(user) : \E k \in 1 .. Len(ListedTags) : ListedTags[k] = u
           /\ \A u \in most_restrictive_doc_tags :
                 \E k \in 1 .. Len(SortedTags) : SortedTags[k] = u
<1>1. user.clearance_level \in Clearances /\ user.department \in Departments
  BY DEF UserContext
<1>2. RestrictedTags(user) \subseteq most_restrictive_doc_tags
  BY <1>1, BaselineCoversPolicies DEF RestrictedTags, policy_of
<1>3. most_restrictive_doc_tags \subseteq Tags
  BY BaselineType
<1>4. /\ DOMAIN ListedTags = 1 .. Len(ListedTags) /\ Len(ListedTags) \in Nat
      /\ DOMAIN SortedTags = 1 .. Len(SortedTags) /\ Len(SortedTags) \in Nat
  BY TagListsAssumption
<1>5. \A u \in Tags : /\ \E k \in DOMAIN ListedTags : ListedTags[k] = u
                      /\ \E k \in DOMAIN SortedTags : SortedTags[k] = u
  BY TagListsAssumption
<1> QED BY <1>2, <1>3, <1>4, <1>5

(* Documents bring in no words, and what is not a reference stays.         *)
LEMMA ResolvedWords ==
    ASSUME NEW text, IsText(text), WellSpelt(text), NEW user, NEW token
    PROVE  LET t == ResolveReferences(text, user, token)
           IN  /\ \A u : Opens(text, u) => Opens(t, u)
               /\ Symbols(t, "word") \subseteq Symbols(text, "word")
<1> DEFINE end == [i \in DOMAIN text |-> IF IsReference(text[i]) THEN i ELSE NoMatch]
           by == [i \in DOMAIN text |-> ResolveSymbol(text[i], user, token)]
           M == Matches(text, end)
           t == ResolveReferences(text, user, token)
<1>1. PICK V : text \in Seq(V) /\ by \in [DOMAIN text -> Seq(V)]
  BY ReplacementTexts
<1>2. DOMAIN text = 1 .. Len(text) /\ \A i \in DOMAIN text : i \in Nat /\ i # NoMatch
  BY <1>1 DEF NoMatch
<1>3. Ends(text, end)
  BY <1>2 DEF Ends
<1>4. ScannedTo(end, Len(text), M)
  BY <1>1, <1>3, MatchesAre
<1>5. \A i \in M : i \in DOMAIN text /\ IsReference(text[i]) /\ end[i] = i
  BY <1>2, <1>4 DEF ScannedTo
<1>6. \A i \in DOMAIN text : /\ end[i] # NoMatch <=> IsReference(text[i])
                             /\ by[i] = ResolveSymbol(text[i], user, token)
  BY <1>2
<1>7. t = Sub(text, end, by)
  BY DEF ResolveReferences
<1> HIDE DEF M, t, end, by
<1>8. PICK src, off : Substituted(text, end, M, by, t, src, off)
  <2>1. M \in SUBSET DOMAIN text
    BY <1>5
  <2> QED BY <1>1, <1>7, <2>1, SubFrom DEF M
<1>9. ASSUME NEW u, Opens(text, u) PROVE Opens(t, u)
  <2>1. PICK i \in DOMAIN text : text[i] = Opening(u)
    BY <1>9 DEF Opens
  <2>2. ~IsReference(text[i])
    BY <2>1 DEF IsReference, Opening, Kind
  <2>3. i \notin M
    BY <1>5, <2>2
  <2>4. ~InMatch(end, M, i)
    <3> SUFFICES ASSUME NEW m \in M, m <= i, i <= end[m] PROVE FALSE
      BY DEF InMatch
    <3>1. m \in Nat /\ i \in Nat /\ end[m] = m
      BY <1>2, <1>5
    <3> QED BY <3>1, <2>3
  <2>5. PICK q \in DOMAIN t : src[q] = i
    BY <1>8, <2>3, <2>4 DEF Substituted
  <2>6. t[q] = text[i]
    BY <1>8, <2>3, <2>5 DEF Substituted
  <2> QED BY <2>1, <2>6 DEF Opens
<1>10. ASSUME NEW q \in DOMAIN t, Kind(t[q]) = "word" PROVE \E i \in DOMAIN text : t[q] = text[i]
  <2>1. /\ src[q] \in DOMAIN text
        /\ src[q] \in M => off[q] \in DOMAIN by[src[q]] /\ t[q] = by[src[q]][off[q]]
        /\ src[q] \notin M => t[q] = text[src[q]]
    BY <1>8 DEF Substituted
  <2>2. CASE src[q] \in M
    <3> DEFINE s == text[src[q]]
               piece == ResolveSymbol(s, user, token)
    <3>1. off[q] \in DOMAIN piece /\ t[q] = piece[off[q]]
      BY <1>6, <2>1, <2>2
    <3> HIDE DEF piece, s
    <3>2. \A k \in DOMAIN piece : piece[k] = s \/ Kind(piece[k]) # "word"
      BY ReplacementWordless DEF piece
    <3>3. t[q] = s
      BY <3>1, <3>2, <1>10
    <3> QED BY <2>1, <3>3 DEF s
  <2> QED BY <2>1, <2>2
<1>11. Symbols(t, "word") \subseteq Symbols(text, "word")
  BY <1>10 DEF Symbols, Positions
<1> QED BY <1>9, <1>11 DEF t

(* The redacted copies hold the words outside the passages, and no others. *)
LEMMA ExactRedaction ==
    ASSUME IInv
    PROVE  RedactionExact
<1>1. ASSUME NEW S, Redacted \in S, Newline \in S, NEW text, text \in Seq(S), NEW order,
             Len(order) \in Nat, NEW tags, \A u \in tags : \E k \in 1 .. Len(order) : order[k] = u,
             Uncrossed(Passages(text, tags))
      PROVE  Symbols(RedactTags(text, order, tags), "word") = WordsOutside(text, tags)
  BY <1>1, RedactionOfTags
<1>2. ASSUME part.where = "system", pc = "resolve",
             Uncrossed(Passages(part.content, RestrictedTags(part.user)))
      PROVE  Symbols(copy.filtered, "word") = WordsOutside(part.content, RestrictedTags(part.user))
  <2>1. IsText(part.content) /\ part.user \in UserContext
    BY DEF IInv, TypeOK
  <2>2. copy.filtered = RedactTags(part.content, ListedTags, RestrictedTags(part.user))
    BY <1>2 DEF IInv, RequestCopies, filter_part, IsReply, RedactForUser,
                         RestrictedTags
  <2>3. PICK S : Redacted \in S /\ Newline \in S /\ part.content \in Seq(S)
    BY <2>1, SymbolsAndMarks
  <2>4. /\ Len(ListedTags) \in Nat
        /\ \A u \in RestrictedTags(part.user) : \E k \in 1 .. Len(ListedTags) : ListedTags[k] = u
    BY <2>1, TagsListed
  <2> QED BY <1>2, <2>2, <2>3, <2>4, <1>1
<1>3. ASSUME part.where = "system", pc = "strip",
             Uncrossed(Passages(copy.resolved, most_restrictive_doc_tags))
      PROVE  Symbols(copy.redacted, "word")
               = WordsOutside(copy.resolved, most_restrictive_doc_tags)
  <2>1. IsText(copy.resolved) /\ part.user \in UserContext
    BY DEF IInv, TypeOK
  <2>2. copy.redacted = RedactTags(copy.resolved, SortedTags, most_restrictive_doc_tags)
    BY <1>3 DEF IInv, RecordedCopies, redact_part, RedactForEverybody
  <2>3. PICK S : Redacted \in S /\ Newline \in S /\ copy.resolved \in Seq(S)
    BY <2>1, SymbolsAndMarks
  <2>4. /\ Len(SortedTags) \in Nat
        /\ \A u \in most_restrictive_doc_tags : \E k \in 1 .. Len(SortedTags) : SortedTags[k] = u
    BY <2>1, TagsListed
  <2> QED BY <1>3, <2>2, <2>3, <2>4, <1>1
<1> QED BY <1>2, <1>3 DEF RedactionExact

(* If the persisted copy is not redacted any further, none of the words    *)
(* the user was shown is in a passage restricted for somebody.             *)
LEMMA NoticedRestriction ==
    ASSUME IInv
    PROVE  RestrictionNoticed
<1> DEFINE wide == most_restrictive_doc_tags
<1> SUFFICES ASSUME pc = "logged", part.where = "system", Uncrossed(Passages(part.content, wide)),
                    ~restricted, NEW x \in Symbols(copy.resolved, "word")
             PROVE  x \in WordsOutside(part.content, wide)
  BY DEF RestrictionNoticed
<1>1. /\ part.user \in UserContext /\ IsText(part.content)
      /\ IsText(copy.filtered) /\ WellSpelt(copy.filtered) /\ IsText(copy.resolved)
  BY DEF IInv, TypeOK
<1>2. /\ copy.filtered = RedactTags(part.content, ListedTags, RestrictedTags(part.user))
      /\ copy.resolved = ResolveReferences(copy.filtered, part.user, Token)
      /\ copy.resolved = RedactTags(copy.resolved, SortedTags, wide)
  BY DEF IInv, RequestCopies, RecordedCopies, filter_part, resolve_part, redact_part, IsReply,
         RedactForUser, RestrictedTags, RedactForEverybody
<1>3. /\ RestrictedTags(part.user) \subseteq wide
      /\ Len(ListedTags) \in Nat /\ Len(SortedTags) \in Nat
      /\ \A u \in wide : \E k \in 1 .. Len(SortedTags) : SortedTags[k] = u
  BY <1>1, TagsListed
<1> HIDE DEF wide
<1>4. PICK S : Redacted \in S /\ Newline \in S /\ copy.resolved \in Seq(S)
  BY <1>1, SymbolsAndMarks
<1>5. PICK R : Redacted \in R /\ Newline \in R /\ part.content \in Seq(R)
  BY <1>1, SymbolsAndMarks
<1>6. \A u \in wide : ~Opens(copy.resolved, u)
  <2>1. \A k \in 1 .. Len(SortedTags) : SortedTags[k] \in wide =>
           ~Opens(RedactTags(copy.resolved, SortedTags, wide), SortedTags[k])
    BY ONLY <1>3, <1>4, TagsGone, Zenon
  <2> QED BY <1>2, <1>3, <2>1
<1>7. /\ \A u : Opens(copy.filtered, u) => Opens(copy.resolved, u)
      /\ Symbols(copy.resolved, "word") \subseteq Symbols(copy.filtered, "word")
  BY <1>1, <1>2, ResolvedWords
<1>8. /\ copy.filtered \in Seq(R)
      /\ \A y : y \in WordsOutside(copy.filtered, wide) <=> y \in WordsOutside(part.content, wide)
  <2> DEFINE t == RedactTags(part.content, ListedTags, RestrictedTags(part.user))
  <2>1. /\ t \in Seq(R)
        /\ \A y : y \in WordsOutside(t, wide) <=> y \in WordsOutside(part.content, wide)
    BY <1>3, <1>5, TagsPass, Zenon
  <2> HIDE DEF t
  <2>2. copy.filtered = t
    BY <1>2 DEF t
  <2> QED BY <2>1, <2>2
<1>9. \A y : y \in WordsOutside(copy.filtered, wide) <=> y \in Symbols(copy.filtered, "word")
  BY <1>6, <1>7, <1>8, NothingCovered
<1> QED BY <1>7, <1>8, <1>9

(* No address, key, issued card number or, in persisted copies, amount is  *)
(* left in a masked text or in a string value of masked JSON               *)
(* (engine.py:63-156, json_masking.py:8-36).                               *)
THEOREM MaskingHolds == Spec => []ValuesMasked
BY Invariant, MaskedValues, PTL

(* The masked copies are what one pass from the left makes of their        *)
(* sources, value by value for JSON (engine.py:138-140,                    *)
(* json_masking.py:15-36).                                                 *)
THEOREM SplicingHolds == Spec => []SplicesExact
BY Invariant, ExactSplices, PTL

(* A word of a proprietary line survives only where a better finding took  *)
(* the line's place (engine.py:65-74).                                     *)
THEOREM YieldingHolds == Spec => []LinesYieldOnlyToBetter
BY Invariant, YieldingLines, PTL

(* The live copy holds no more injection patterns than the scan found, but *)
(* for those that unescaping a JSON string brings out, and none that was   *)
(* found reaches the blocking threshold (main.py:239-258,                  *)
(* json_masking.py:29-36).                                                 *)
THEOREM ScanningHolds == Spec => []ScanSeesWhatIsForwarded
BY Invariant, WhatIsForwarded, PTL

(* After each redaction the text holds the words outside the restricted    *)
(* passages and no others (enforcement.py:74-89, main.py:224, 275).        *)
THEOREM RedactionHolds == Spec => []RedactionExact
BY Invariant, ExactRedaction, PTL

(* had_restricted_context is set whenever the user was shown a word that   *)
(* somebody may not see (main.py:275, 366).                                *)
THEOREM NoticingHolds == Spec => []RestrictionNoticed
BY Invariant, NoticedRestriction, PTL
=============================================================================
