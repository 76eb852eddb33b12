--------------------------- MODULE MaskingEngine ---------------------------
(***************************************************************************)
(* guardrails/: the recognizers, the resolution of overlapping findings,   *)
(* the splicing of placeholders, the masking of JSON strings and the       *)
(* injection scan, over the texts of GovernedText.                         *)
(*                                                                         *)
(* Presidio itself is outside: it reports one finding per match of a       *)
(* pattern, with the pattern's score, raised by ContextBoost when one of   *)
(* the recognizer's context words is near.  Which kinds of match are       *)
(* raised is left open (boosted).  Scores are in hundredths.               *)
(***************************************************************************)
EXTENDS GovernedText, Functions

CONSTANTS
    ScoreThreshold,      \* guardrails_score_threshold
    BlockThreshold,      \* guardrails_injection_block_threshold
    PredefinedCards,     \* card numbers Presidio's own recognizer finds as well
    AnalyzerOrder        \* in which the analyzer lists findings of one span and score

(* At the default 0.4 every pattern but SWIFT's is reported without        *)
(* context words.                                                          *)
ASSUME ThresholdAssumption ==
    /\ ScoreThreshold \in Nat /\ ScoreThreshold <= 50
    /\ BlockThreshold \in Nat

Leaf          == <<"leaf", 0>>           \* what opens a string value of a JSON text
Bare          == <<"bare", 0>>           \* what opens a key, or a value that is no string
Digits(ds)    == <<"digits", ds>>        \* what the card pattern may match
Value(kind)   == <<kind, 0>>             \* one of the kinds of Patterns
Attempt(s)    == <<"attempt", s>>        \* a match of an injection pattern of score s
Masked(label, n) == <<"masked", <<label, n>>>>
Escaped(s)    == <<"escaped", s>>        \* s spelt with the escapes of JSON

ContextBoost == 35
MaxScore     == 100

ENTITY_LABELS ==
    [CREDIT_CARD               |-> "CREDIT_CARD",
     BANK_CARD_NUMBER          |-> "CREDIT_CARD",
     INTERNAL_IP_ADDRESS       |-> "INTERNAL_IP",
     SWIFT_BIC_CODE            |-> "SWIFT_BIC",
     PROPRIETARY_SOURCE_MARKER |-> "SOURCE_MARKER",
     MONETARY_AMOUNT           |-> "AMOUNT"]

ASSUME AnalyzerAssumption ==
    /\ AnalyzerOrder \in [DOMAIN ENTITY_LABELS -> Nat]
    /\ IsInjective(AnalyzerOrder)

DEFAULT_ENTITIES_TO_MASK == DOMAIN ENTITY_LABELS \ {"MONETARY_AMOUNT"}

\* Mutation: what is persisted is masked like what is sent.
PersistedLikeLive == DEFAULT_ENTITIES_TO_MASK

PERSISTED_VIEW_ENTITIES == DEFAULT_ENTITIES_TO_MASK \cup {"MONETARY_AMOUNT"}

-----------------------------------------------------------------------------
(* recognizers.py *)

Patterns ==
    [swift  |-> [entity |-> "SWIFT_BIC_CODE", score |-> 30],
     ip     |-> [entity |-> "INTERNAL_IP_ADDRESS", score |-> 90],
     marker |-> [entity |-> "PROPRIETARY_SOURCE_MARKER", score |-> 85],
     key    |-> [entity |-> "PROPRIETARY_SOURCE_MARKER", score |-> 95],
     header |-> [entity |-> "PROPRIETARY_SOURCE_MARKER", score |-> 99],
     amount |-> [entity |-> "MONETARY_AMOUNT", score |-> 60]]

\* The scores of the injection patterns.
AttemptScores == {50, 55, 60}

\* The kinds a mask can be asked for whose score the context can raise.
Maskable == DOMAIN Patterns

Doubled(digit) == IF 2 * digit > 9 THEN 2 * digit - 9 ELSE 2 * digit

\* Mutation: the parity of the length is not taken into account.
luhn_from_the_left(ds) ==
    SumFunction([i \in DOMAIN ds |-> IF i % 2 = 1 THEN Doubled(ds[i]) ELSE ds[i]]) % 10

(* _luhn_checksum: position i - 1 of the code's list has the parity of its *)
(* length when it is doubled.                                              *)
luhn_checksum(ds) ==
    SumFunction([i \in DOMAIN ds |->
                   IF (i - 1) % 2 = Len(ds) % 2 THEN Doubled(ds[i]) ELSE ds[i]]) % 10

(* BankCardRecognizer.validate_result: Presidio gives a validated match    *)
(* the highest score and drops one that is refused.                        *)
validate_result(ds) == Len(ds) \in 13 .. 19 /\ luhn_checksum(ds) = 0

(* The entities a card number is found as, by the gateway's recognizer and *)
(* by Presidio's own, each with the highest score over the same digits.    *)
CardEntities(ds) ==
    (IF validate_result(ds) THEN {"BANK_CARD_NUMBER"} ELSE {})
      \cup (IF ds \in PredefinedCards THEN {"CREDIT_CARD"} ELSE {})

Raised(kind, score, boosted) ==
    IF kind \notin boosted THEN score
    ELSE IF score + ContextBoost > MaxScore THEN MaxScore ELSE score + ContextBoost

(* The proprietary marker runs to the end of its line, and the next match  *)
(* is looked for behind it.                                                *)
EndOfLine(text, i) ==
    LET newline == First({j \in Behind(text, i) : text[j] = Newline})
    IN  IF newline = NoMatch THEN Len(text) + 1 ELSE newline

InMarkerLine(text, i) ==
    \E j \in 1 .. i - 1 : Kind(text[j]) = "marker" /\ EndOfLine(text, j) > i

Finding(entity, start, end, score) ==
    [entity |-> entity, start |-> start, end |-> end, score |-> score]

FindingsAt(text, i, boosted) ==
    LET kind == Kind(text[i])
    IN  IF kind = "digits"
        THEN {Finding(e, i, i + 1, MaxScore) : e \in CardEntities(text[i][2])}
        ELSE IF kind = "attempt"
        THEN {Finding("PROMPT_INJECTION_ATTEMPT", i, i + 1,
                      Raised(kind, text[i][2], boosted))}
        ELSE IF \/ kind \notin DOMAIN Patterns
                \/ kind = "marker" /\ InMarkerLine(text, i)
        THEN {}
        ELSE {Finding(Patterns[kind].entity, i,
                      IF kind = "marker" THEN EndOfLine(text, i) ELSE i + 1,
                      Raised(kind, Patterns[kind].score, boosted))}

(* analyzer.analyze, and the threshold both its callers apply *)
scan_entities(text, entities, boosted) ==
    {f \in UNION {FindingsAt(text, i, boosted) : i \in DOMAIN text} :
        f.entity \in entities /\ f.score >= ScoreThreshold}

\* The kinds in a text whose score its context can raise.
Boostable(text, kinds) == {Kind(text[i]) : i \in DOMAIN text} \cap kinds

-----------------------------------------------------------------------------
(* engine.py *)

Overlap(f, g) == ~(f.end <= g.start \/ f.start >= g.end)

\* The findings are gone through by rank; one that meets no accepted one is accepted.
Accepted(findings, rank) ==
    LET accepted[k \in 0 .. Cardinality(findings)] ==
            IF k = 0 THEN {}
            ELSE LET before == accepted[k - 1]
                 IN  before \cup {f \in findings :
                        rank[f] = k - 1 /\ \A g \in before : ~Overlap(f, g)}
    IN  accepted[Cardinality(findings)]

Better(f, g) ==
    \/ f.score > g.score
    \/ f.score = g.score /\ f.start < g.start
    \/ /\ f.score = g.score /\ f.start = g.start
       /\ AnalyzerOrder[f.entity] < AnalyzerOrder[g.entity]

\* Mutation: the weakest finding is accepted first.
weakest_first(findings) ==
    Accepted(findings,
             [f \in findings |-> Cardinality({g \in findings : Better(f, g)})])

(* _resolve_overlap: by falling score, then by start.  The sort is stable, *)
(* so findings that agree in both, as two recognizers' of one card number  *)
(* do, stay in the order in which the analyzer listed them.                *)
resolve_overlap(findings) ==
    Accepted(findings,
             [f \in findings |-> Cardinality({g \in findings : Better(g, f)})])

(* Exempt findings are left as they are, after the overlaps are resolved.  *)
MaskedFindings(text, entities, exempt, boosted) ==
    {f \in resolve_overlap(scan_entities(text, entities, boosted)) :
        f.entity \notin exempt}

(* Placeholders are numbered per label from the left and spliced in from   *)
(* the right, so that no splice moves the spans still to come.             *)
Label(f) == ENTITY_LABELS[f.entity]

Placeholder(findings, f) ==
    Masked(Label(f),
           Cardinality({g \in findings : Label(g) = Label(f) /\ g.start <= f.start}))

\* The finding that starts at i, if there is one, is replaced.
Spliced(text, findings, i) ==
    IF \A f \in findings : f.start # i THEN text
    ELSE LET f == CHOOSE g \in findings : g.start = i
         IN  SubSeq(text, 1, i - 1) \o <<Placeholder(findings, f)>>
               \o SubSeq(text, f.end, Len(text))

SplicedInOrder(text, findings, starts) ==
    LET spliced[k \in 0 .. Len(text)] ==
            IF k = 0 THEN text ELSE Spliced(spliced[k - 1], findings, starts[k])
    IN  spliced[Len(text)]

\* Mutation: the spans are spliced from the left.
mask_text_forwards(text, entities, exempt, boosted) ==
    SplicedInOrder(text, MaskedFindings(text, entities, exempt, boosted),
                   [k \in DOMAIN text |-> k])

mask_text(text, entities, exempt, boosted) ==
    SplicedInOrder(text, MaskedFindings(text, entities, exempt, boosted),
                   [k \in DOMAIN text |-> Len(text) + 1 - k])

-----------------------------------------------------------------------------
(* json_masking.py: every string value is a text of its own; keys and      *)
(* values that are no strings stay as they are.  A JSON text is a row of   *)
(* stretches, each behind an opener that stands for the brackets, commas,  *)
(* quotes and blanks before it: what is no string, a number alone too, is  *)
(* behind Bare.  A raw newline inside a string, which a resolved document  *)
(* can bring in, makes json.loads fail.                                    *)
Openers == {Leaf, Bare}

ParsesAsJson(text) ==
    text # <<>> /\ text[1] \in Openers /\ \A i \in DOMAIN text : text[i] # Newline

StretchEnd(text, i) ==
    LET next == First({j \in Behind(text, i) : text[j] \in Openers})
    IN  IF next = NoMatch THEN Len(text) ELSE next - 1

Unescaped(s) == IF Kind(s) = "escaped" THEN s[2] ELSE s

\* The keys and values, without their escapes, by where they open.
json_loads(text) ==
    [i \in {j \in DOMAIN text : text[j] \in Openers} |->
        LET spelt == SubSeq(text, i + 1, StretchEnd(text, i))
        IN  [k \in DOMAIN spelt |-> Unescaped(spelt[k])]]

\* Mutation: only a string the text starts with is masked.
mask_first_leaf(text, entities, exempt, boosted) ==
    LET parsed == json_loads(text)
    IN  [i \in DOMAIN parsed |->
            IF i = 1 /\ text[i] = Leaf THEN mask_text(parsed[i], entities, exempt, boosted)
                                      ELSE parsed[i]]

mask_json_value(text, entities, exempt, boosted) ==
    LET parsed == json_loads(text)
    IN  [i \in DOMAIN parsed |->
            IF text[i] = Leaf THEN mask_text(parsed[i], entities, exempt, boosted)
                              ELSE parsed[i]]

(* json.dumps escapes quotes, backslashes, line breaks and whatever is not *)
(* ASCII: the brackets of a sentinel, the dash of a refusal.               *)
EscapedKinds == {"leaf", "bare", "newline", "escaped", "open", "close", "refusal"}

EscapedSymbol(s) == IF Kind(s) \in EscapedKinds THEN Escaped(s) ELSE s

json_dumps(text, values) ==
    Seqs!FlattenSeq([i \in DOMAIN text |->
        IF i \in DOMAIN values
        THEN <<text[i]>> \o [k \in DOMAIN values[i] |-> EscapedSymbol(values[i][k])]
        ELSE <<>>])

mask_json_encoded_string(text, entities, exempt, boosted) ==
    IF ParsesAsJson(text)
    THEN json_dumps(text, mask_json_value(text, entities, exempt, boosted))
    ELSE mask_text(text, entities, exempt, boosted)

-----------------------------------------------------------------------------
(* injection_scanner.py: the findings of one text, and the verdict.        *)

INJECTION_ENTITY_TYPES == {"PROMPT_INJECTION_ATTEMPT"}

scan_text_for_injection(text, boosted) ==
    scan_entities(text, INJECTION_ENTITY_TYPES, boosted)

exceeds(findings) == \E f \in findings : f.score >= BlockThreshold
=============================================================================
