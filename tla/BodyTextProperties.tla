------------------------- MODULE BodyTextProperties -------------------------
(***************************************************************************)
(* What the rewriting of a string must achieve.  The regular expressions   *)
(* work one after the other on what the ones before left, so the exact     *)
(* properties are about texts whose marked stretches do not cross          *)
(* (Uncrossed); what can happen to others is in DocumentsNeverLogged.      *)
(***************************************************************************)
EXTENDS BodyText

Positions(text, kind) == {i \in DOMAIN text : Kind(text[i]) = kind}
Symbols(text, kind)   == {text[i] : i \in Positions(text, kind)}

-----------------------------------------------------------------------------
(* The stretches of a text that a rule is to remove: a passage from its    *)
(* tag to the closing tag, or to the end of the line when there is none; a *)
(* sentinel wrap; a proprietary line.                                      *)

Stretch(from, to, line) == [from |-> from, to |-> to, line |-> line]

PassageStretches(text, tag) ==
    {Stretch(i, IF BlockEnd(tag, text, i) # NoMatch THEN BlockEnd(tag, text, i)
                                                    ELSE LineEnd(tag, text, i),
             BlockEnd(tag, text, i) = NoMatch) :
        i \in {j \in DOMAIN text : text[j] = Opening(tag)}}

Passages(text, tags) == UNION {PassageStretches(text, t) : t \in tags}

WrapStretches(text, family) ==
    {Stretch(i, WrapEnd(family, text[i][2][2], text, i), FALSE) :
        i \in {j \in Positions(text, "open") :
                  IsSentinel(text[j], "open", family)}}

LineStretches(text) ==
    {Stretch(i, EndOfLine(text, i), TRUE) : i \in Positions(text, "marker")}

Stretches(text) ==
    (IF part.where = "system" THEN Passages(text, most_restrictive_doc_tags) ELSE {})
      \cup WrapStretches(text, "DOC") \cup WrapStretches(text, "IAP")
      \cup LineStretches(text)

(* The line pattern puts a newline where it cuts, so a line that ends with *)
(* the block around it is not within it.                                   *)
Within(s, outer) ==
    /\ outer.from <= s.from /\ s.to <= outer.to
    /\ s.to = outer.to => (s.line => outer.line)

Uncrossed(stretches) ==
    \A s, t \in stretches :
        \/ s.to < t.from \/ t.to < s.from
        \/ Within(s, t) \/ Within(t, s) \/ s = t

Laminar(text) == Uncrossed(Stretches(text))

Covered(text, tags) ==
    {i \in DOMAIN text : \E s \in Passages(text, tags) : s.from <= i /\ i <= s.to}

WordsOutside(text, tags) == {text[i] : i \in Positions(text, "word") \ Covered(text, tags)}

RestrictedTags(user) == policy_of(user).restricted_doc_tags

-----------------------------------------------------------------------------
(* Tag after tag, block pattern before line pattern, on a text earlier     *)
(* passes have cut: for the user, and later for everybody on the text the  *)
(* documents are in, exactly the passages marked with a restricted tag are *)
(* gone and every other word is left (enforcement.py:74-89, main.py:224,   *)
(* 275).                                                                   *)
RedactionExact ==
    /\ part.where = "system" /\ pc = "resolve"
         /\ Uncrossed(Passages(part.content, RestrictedTags(part.user))) =>
          Symbols(copy.filtered, "word")
            = WordsOutside(part.content, RestrictedTags(part.user))
    /\ part.where = "system" /\ pc = "strip"
         /\ Uncrossed(Passages(copy.resolved, most_restrictive_doc_tags)) =>
          Symbols(copy.redacted, "word")
            = WordsOutside(copy.resolved, most_restrictive_doc_tags)

(* A passage restricted for somebody that this user may see is noticed     *)
(* when the persisted copy is made, after the user's own redaction and the *)
(* resolution of documents rewrote the text around it: the reply to it     *)
(* must not be kept (main.py:275, 366).                                    *)
RestrictionNoticed ==
    pc = "logged" /\ part.where = "system"
        /\ Uncrossed(Passages(part.content, most_restrictive_doc_tags)) =>
      (Symbols(copy.resolved, "word")
          \ WordsOutside(part.content, most_restrictive_doc_tags) # {} => restricted)

(* A position is in a wrap that stands between its two sentinels. *)
InWrap(text, family, j) ==
    \E s \in WrapStretches(text, family) : s.from < j /\ j < s.to

(* Bodies come into a text in the wrap of their document, this request's   *)
(* or one echoed from an earlier one.                                      *)
BodiesWrapped(text) == \A j \in Positions(text, "body") : InWrap(text, "DOC", j)

(* The sentinels of documents, and those with the token of this request. *)
DocSentinel(symbol) == IsSentinel(symbol, "open", "DOC") \/ IsSentinel(symbol, "close", "DOC")
OwnSentinel(symbol) == DocSentinel(symbol) /\ symbol[2][2] = Token

(* What a string brings with it: nothing of it crosses, bodies only in the *)
(* wraps they were resolved in, and those with other tokens than this      *)
(* request will draw (a reply may echo its own).  No document of the       *)
(* registry holds sentinels.                                               *)
TokenIsFresh ==
    ~IsReply => \A i \in DOMAIN part.content : ~OwnSentinel(part.content[i])

PlainDocuments ==
    \A d \in DOMAIN registry : \A i \in DOMAIN DocumentText[d] :
        ~DocSentinel(DocumentText[d][i])

EchoesInOrder ==
    /\ Laminar(part.content) /\ BodiesWrapped(part.content)
    /\ TokenIsFresh /\ PlainDocuments

(* What the stages behind the resolution rely on: whatever the redaction   *)
(* for the user cut around an echoed wrap, and wherever a document is put  *)
(* into the text, inside an echoed wrap too, every body then stands in a   *)
(* wrap that closes (documents/pipeline.py:34-77).                         *)
BodiesArriveWrapped ==
    pc \notin {"policy", "resolve"} /\ EchoesInOrder => BodiesWrapped(copy.resolved)

(* No document stands inside another one.  Of two echoed ones that do the  *)
(* hook would cut no more than up to the first closing sentinel.           *)
DocumentsApart(text) ==
    \A j \in DOMAIN text : InWrap(text, "DOC", j) => ~DocSentinel(text[j])

AsJson(text) == IsJson /\ ParsesAsJson(text)

(* json.dumps hides an echoed wrap from the hook. *)
EchoHidden ==
    AsJson(copy.stripped)
      /\ \E i \in DOMAIN part.content : IsSentinel(part.content[i], "open", "DOC")

(* No document body is in the record: the request's own are stripped by    *)
(* their token, those echoed from earlier requests by the hook at the      *)
(* logging boundary, however wraps, passages, proprietary lines and the    *)
(* cuts made for them are nested (documents/pipeline.py:80,                *)
(* langfuse_logger.py:10).                                                 *)
DocumentsStayOut ==
    pc = "logged" /\ EchoesInOrder /\ DocumentsApart(part.content)
        /\ Laminar(copy.resolved) /\ ~EchoHidden =>
      Positions(copy.record, "body") = {}

(* Given its token, an inter-agent payload is recovered in full by unwrap, *)
(* also next to, inside or around other wraps; and no cut made for another *)
(* rule frees one, so that what payloads a persisted copy holds stood      *)
(* outside the wraps (interagent/pipeline.py; build_persisted_view,        *)
(* pipeline.py:164-168).                                                   *)
InPayload(text, j) ==
    \E s \in WrapStretches(text, "IAP") :
        text[s.from][2][2] = Token /\ s.from < j /\ j < s.to

Payloads(text) ==
    {text[k] : k \in {j \in Positions(text, "payload") : InPayload(text, j)}}

PayloadsOutside(text) ==
    {text[k] : k \in {j \in Positions(text, "payload") : ~InPayload(text, j)}}

Recovered(text) ==
    UNION {Symbols(pair[2], "payload") :
              pair \in Seqs!ToSet(unwrap_interagent_payload(text, Token))}

PayloadsStayOut ==
    pc \in {"log", "logged"} /\ part.interagent /\ part.where # "arguments"
        /\ Laminar(copy.resolved) =>
      /\ Symbols(copy.persisted, "payload") \subseteq PayloadsOutside(copy.resolved)
      /\ ~contains_interagent_payload(copy.stripped, Token)
      /\ Recovered(copy.resolved) = Payloads(copy.resolved)

-----------------------------------------------------------------------------
CONSTANT CardNumbers   \* numbers the networks have issued

(* The check every issued number satisfies, counted from its last digit:   *)
(* every second digit is doubled, and the digits of the results added up.  *)
LuhnSum(ds) ==
    SumFunction([i \in DOMAIN ds |->
        IF (Len(ds) + 1 - i) % 2 = 0 THEN ((2 * ds[i]) \div 10) + ((2 * ds[i]) % 10)
                                     ELSE ds[i]])

ASSUME CardNumbersAssumption ==
    \A ds \in CardNumbers :
        ds \in Seq(0 .. 9) /\ Len(ds) \in 13 .. 19 /\ LuhnSum(ds) % 10 = 0

(* The entity types a copy was masked for, by the symbols they are found   *)
(* by.  A SWIFT code is below the threshold unless its context raises it.  *)
MaskedKinds(exempt) ==
    {k \in {"ip", "key", "header"} : Patterns[k].entity \notin exempt}

NoneOf(text, exempt) ==
    /\ \A k \in MaskedKinds(exempt) : Positions(text, k) = {}
    /\ {"BANK_CARD_NUMBER", "CREDIT_CARD"} \cap exempt = {} =>
          {s[2] : s \in Symbols(text, "digits")} \cap CardNumbers = {}

(* The live copy is masked for the user's department, the persisted one    *)
(* for nobody in particular.                                               *)
LiveExempt     == get_masking_exempt_entities(part.user)
LinesAreMasked == "PROPRIETARY_SOURCE_MARKER" \notin LiveExempt

(* What a reader of a masked string reads as one text: all of it, or each  *)
(* string value of a JSON text.  Keys, and values that are no strings, are *)
(* left as they are (test_tool_call_masking.py:22), card numbers too.      *)
MaskedTexts(source, masked) ==
    IF AsJson(source)
    THEN {json_loads(masked)[i] : i \in {j \in DOMAIN masked : masked[j] = Leaf}}
    ELSE {masked}

(* Whatever the findings of a text overlap, whatever its context raises    *)
(* and however JSON spells it, no address, key or issued card number of    *)
(* any length is left in a text or string value of the live copy of a user *)
(* who is not exempt, nor in the persisted one of anybody, nor an amount   *)
(* in the latter (engine.py:63-156, recognizers.py:64-88,                  *)
(* json_masking.py:8-36).  A user exempt from source markers would be sent *)
(* a raised proprietary line with all that stands in it, and one exempt    *)
(* from one of the two card entities what is found as both.                *)
ValuesMasked ==
    /\ pc = "redact" /\ LinesAreMasked =>
          \A text \in MaskedTexts(copy.resolved, copy.live) : NoneOf(text, LiveExempt)
    /\ pc = "log" =>
          \A text \in MaskedTexts(copy.stripped, copy.persisted) :
             NoneOf(text, {}) /\ Positions(text, "amount") = {}

(* A text with its findings replaced in one pass from the left. *)
OnePass(text, findings) ==
    Seqs!FlattenSeq([i \in DOMAIN text |->
        IF \E f \in findings : f.start = i
        THEN <<Placeholder(findings, CHOOSE f \in findings : f.start = i)>>
        ELSE IF \E f \in findings : f.start < i /\ i < f.end THEN <<>>
        ELSE <<text[i]>>])

(* A finding is one symbol, or a proprietary line up to its end, and no    *)
(* two have the same placeholder, so a reader can tell the values apart.   *)
FindingsExact(text, findings) ==
    \A f \in findings :
        /\ \A i \in f.start .. f.end - 1 :
              i \in DOMAIN text /\ text[i] # Newline /\ (i # f.start => InMarkerLine(text, i))
        /\ \A g \in findings : Placeholder(findings, f) = Placeholder(findings, g) => f = g

MaskedInOnePass(source, masked, entities, exempt) ==
    LET found(text) == MaskedFindings(text, entities, exempt, boosted)
        parsed      == json_loads(source)
    IN  IF AsJson(source)
        THEN /\ masked = json_dumps(source, [i \in DOMAIN parsed |->
                             IF source[i] = Leaf THEN OnePass(parsed[i], found(parsed[i]))
                                                 ELSE parsed[i]])
             /\ \A i \in DOMAIN parsed : FindingsExact(parsed[i], found(parsed[i]))
        ELSE /\ masked = OnePass(source, found(source))
             /\ FindingsExact(source, found(source))

(* Placeholders are spliced in from the right into the text earlier        *)
(* splices left, and what comes out is what one pass over the source       *)
(* gives, string value by string value for JSON, with its keys and other   *)
(* values between them: no splice moves the spans still to come            *)
(* (engine.py:138-140, json_masking.py:15-36).                             *)
SplicesExact ==
    /\ pc = "redact" => MaskedInOnePass(copy.resolved, copy.live,
                                        DEFAULT_ENTITIES_TO_MASK, LiveExempt)
    /\ pc = "log" => MaskedInOnePass(copy.stripped, copy.persisted,
                                     PERSISTED_VIEW_ENTITIES, {})

(* A word of a proprietary line survives only where something that scored  *)
(* higher was found in its line, and so took the line's place              *)
(* (engine.py:65-74).                                                      *)
BetterInLine(text, i) ==
    \E k \in i + 1 .. EndOfLine(text, i) - 1 :
        \E f \in FindingsAt(text, k, boosted) :
            f.score > Raised("marker", Patterns.marker.score, boosted)

Survives(source, masked, i) ==
    /\ i \in Positions(source, "word")
    /\ \A j \in DOMAIN source : source[j] = source[i] => j = i
    /\ \E k \in DOMAIN masked : masked[k] = source[i]

LinesYield(source, masked) ==
    \A i \in Positions(source, "marker") :
        (\E j \in i + 1 .. EndOfLine(source, i) - 1 : Survives(source, masked, j))
          => \E m \in Positions(source, "marker") :
                EndOfLine(source, m) = EndOfLine(source, i) /\ BetterInLine(source, m)

LinesYieldOnlyToBetter ==
    ~IsJson => /\ pc = "redact" /\ LinesAreMasked => LinesYield(copy.resolved, copy.live)
               /\ pc = "log" => LinesYield(copy.stripped, copy.persisted)

(* The matches of the injection patterns that only json.loads brings out:  *)
(* spelt with escapes, they are none in the raw string the scanner reads.  *)
DecodedAttempts(text) ==
    IF AsJson(text)
    THEN {i \in Positions(text, "escaped") : Kind(text[i][2]) = "attempt"}
    ELSE {}

(* Every match of an injection pattern the upstream receives was before    *)
(* the scanner, those a document brought in included, but for those that   *)
(* the escapes of a JSON string hid from it; and none that was found to    *)
(* reach the blocking threshold is forwarded (main.py:239-258,             *)
(* injection_scanner.py:22-25, json_masking.py:29-36).                     *)
ScanSeesWhatIsForwarded ==
    pc = "redact" /\ ~IsReply =>
      /\ Cardinality(Positions(copy.live, "attempt"))
            <= Cardinality(scanned) + Cardinality(DecodedAttempts(copy.resolved))
      /\ \A f \in scanned : f.score < BlockThreshold

-----------------------------------------------------------------------------
(* The copies the stages work on are texts, spelt as the parts and the     *)
(* documents are.                                                          *)
TypeOK ==
    /\ part.where \in {"system", "user", "tool", "arguments", "reply"}
    /\ part.user \in UserContext
    /\ IsText(part.content) /\ WellSpelt(part.content)
    /\ pc \in {"policy", "resolve", "scan", "mask", "redact", "strip", "persist",
              "log", "logged", "rejected"}
    /\ DOMAIN copy = DOMAIN NoCopies
    /\ \A stage \in {"filtered", "resolved", "redacted", "stripped"} :
          IsText(copy[stage]) /\ WellSpelt(copy[stage])

(* The copies that go upstream, cut for the user and then resolved; a      *)
(* reply is only masked and recorded.                                      *)
RequestCopies ==
    /\ IsReply => pc \notin {"policy", "resolve", "scan"} /\ copy.resolved = part.content
    /\ ~IsReply /\ pc # "policy" => copy.filtered = filter_part(part.content)
    /\ ~IsReply /\ pc \notin {"policy", "resolve"} =>
          copy.resolved = resolve_part(copy.filtered)

(* The copies on the way to the record, each made of the one before, with  *)
(* had_restricted_context saying whether redaction changed anything.       *)
RecordedCopies ==
    /\ pc \in {"strip", "persist", "log", "logged"} =>
          /\ copy.redacted = redact_part(copy.resolved)
          /\ restricted = (copy.redacted # copy.resolved)
    /\ pc \in {"persist", "log", "logged"} => copy.stripped = strip_part(copy.redacted)
    /\ pc \in {"log", "logged"} =>
          copy.persisted = mask_part(copy.stripped, PERSISTED_VIEW_ENTITIES, {}, boosted)
    /\ pc = "logged" => copy.record = langfuse_mask(copy.persisted)

(* Every copy is what its stage makes of the one before, and none of those *)
(* is written again: the live one is made of the text the scanner passed,  *)
(* the persisted one of the text the sentinels were stripped from          *)
(* (main.py:224-280).                                                      *)
IInv ==
    /\ TypeOK
    /\ RequestCopies
    /\ RecordedCopies
    /\ pc = "redact" =>
          copy.live = mask_part(copy.resolved, DEFAULT_ENTITIES_TO_MASK, LiveExempt, boosted)
    /\ pc \in {"mask", "redact"} /\ ~IsReply =>
          /\ \E raised \in SUBSET {"attempt"} :
                scanned = scan_text_for_injection(copy.resolved, raised)
          /\ ~exceeds(scanned)

-----------------------------------------------------------------------------
(* report.md:71, "a second layer of defense against document content ever  *)
(* reaching the trace": a record holds no document body.                   *)
DocumentsNeverLogged == pc = "logged" => Positions(copy.record, "body") = {}
=============================================================================
