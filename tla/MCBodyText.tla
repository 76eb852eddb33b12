----------------------------- MODULE MCBodyText -----------------------------
(***************************************************************************)
(* Small texts for BodyText: system prompts with the passages of two tags  *)
(* and a document reference in every order, messages with wraps of         *)
(* documents and payloads, and texts with the values the recognizers look  *)
(* for.                                                                    *)
(***************************************************************************)
EXTENDS BodyTextProperties

CONSTANTS eng, hr, junior, senior, ana, hal, eve, SENIOR_ONLY, PEER_COMP, handbook, missing

MCLower  == [d \in {eng, hr} |-> d]
MCOrder  == [c \in {junior, senior} |-> IF c = junior THEN 0 ELSE 2]

Restricting(tags) ==
    [allow_all_tools |-> FALSE, allowed_tools |-> {}, allowed_tool_prefixes |-> {},
     restricted_doc_tags |-> tags, masking_exempt_entities |-> {}]

MCPolicies ==
    [c \in {junior, senior} |-> Restricting(IF c = junior THEN {SENIOR_ONLY} ELSE {})]
MCDefault  == Restricting({SENIOR_ONLY})

MCOverrides ==
    [k \in {<<hr, junior>>, <<hr, senior>>} |->
        [additional_restricted_doc_tags     |-> {PEER_COMP},
         additional_masking_exempt_entities |->
            IF k[2] = senior THEN Entities ELSE {}]]

MCRegistry ==
    [d \in {handbook} |-> [required_clearance |-> senior, required_department |-> hr]]

MCListed == <<SENIOR_ONLY, PEER_COMP>>
MCSorted == <<PEER_COMP, SENIOR_ONLY>>

\* Two lines, with an instruction in the second.
MCDocumentText ==
    [d \in {handbook} |-> <<<<"body", 1>>, Newline, <<"body", 2>>, Attempt(50)>>]

Ana == [user_id |-> ana, department |-> hr, clearance_level |-> junior]
Hal == [user_id |-> hal, department |-> hr, clearance_level |-> senior]
Eve == [user_id |-> eve, department |-> eng, clearance_level |-> senior]

-----------------------------------------------------------------------------
\* Each mark followed by a word.
Spelled(marks) ==
    Seqs!FlattenSeq([i \in DOMAIN marks |-> <<marks[i], Word(0)>>])

\* The words of a text are told apart by their places.
Numbered(text) ==
    [i \in DOMAIN text |-> IF Kind(text[i]) = "word" THEN Word(i) ELSE text[i]]

Texts(symbols, n) == [1 .. n -> symbols]

Text(where, user, content, interagent) ==
    [where |-> where, user |-> user, content |-> Numbered(content), interagent |-> interagent]

Marks ==
    {Opening(SENIOR_ONLY), Closing(SENIOR_ONLY), Opening(PEER_COMP),
     Closing(PEER_COMP), Newline, Reference(handbook)}

\* Any four marks, with a word behind the last one or not, and five different
\* ones in any order.
PromptTexts ==
    LET four == {Spelled(t) : t \in Texts(Marks, 4)}
    IN  four \cup {SubSeq(t, 1, 7) : t \in four}
             \cup {Spelled(t) : t \in {s \in Texts(Marks, 5) : IsInjective(s)}}

Prompts ==
    {Text("system", u, t, FALSE) : u \in {Ana, Hal, Eve}, t \in PromptTexts}

\* Documents echoed from an earlier request, one of them around a reference, and
\* payloads of this one.
Echo    == <<Open("DOC", "old", handbook), <<"body", 1>>, Close("DOC", "old", handbook)>>
Nested  == wrap_interagent_payload(Token, "outer",
              wrap_interagent_payload(Token, "inner", <<<<"payload", 1>>>>)
                \o <<<<"payload", 2>>>>)
Citing  == wrap_interagent_payload(Token, "citing",
              <<<<"payload", 3>>, Reference(handbook), <<"payload", 4>>>>)
Around  == <<Open("DOC", "old", handbook), <<"body", 4>>, Reference(handbook), <<"body", 5>>,
             Close("DOC", "old", handbook)>>
Foreign == wrap_interagent_payload("old", "foreign", <<<<"payload", 5>>>>)

Segments ==
    {Echo, Around, Nested, Citing, Foreign, <<Reference(handbook)>>, <<Reference(missing)>>,
     <<Value("marker")>>, <<Newline>>, <<Word(0)>>}

Wrapped ==
    {Text(w, Hal, Seqs!FlattenSeq(t), g) :
        w \in {"user", "reply"}, t \in Texts(Segments, 3), g \in BOOLEAN}

\* Echoed documents next to, in and around the passages of a prompt.
PromptSegments ==
    {Echo, Around, <<Opening(SENIOR_ONLY)>>, <<Closing(SENIOR_ONLY)>>,
     <<Opening(PEER_COMP)>>, <<Newline>>}

\* Any three, and four different ones in any order.
WrappedPrompts ==
    {Text("system", u, Seqs!FlattenSeq(t), FALSE) :
        u \in {Ana, Hal},
        t \in Texts(PromptSegments, 3)
               \cup {s \in Texts(PromptSegments, 4) : IsInjective(s)}}

WrappedJson ==
    {Text(w, Hal, <<Leaf>> \o t[1] \o <<Leaf>> \o t[2], TRUE) :
        w \in {"tool", "arguments"}, t \in Texts(Segments \ {<<Newline>>}, 2)}

\* Test numbers of 15 and 16 digits, one of 19, which Presidio does not look for,
\* and the first with two digits swapped.
Amex == <<3,7,8,2,8,2,2,4,6,3,1,0,0,0,5>>
Visa == <<4,1,1,1,1,1,1,1,1,1,1,1,1,1,1,1>>
Long == <<6,2,0,5,5,0,0,0,0,0,0,0,0,0,0,0,0,0,4>>
Typo == <<3,7,2,8,8,2,2,4,6,3,1,0,0,0,5>>

MCCards      == {Amex, Visa, Long}
MCPredefined == {Amex, Visa}

\* Presidio's own recognizers were registered first.
MCAnalyzerOrder ==
    [e \in DOMAIN ENTITY_LABELS |->
        CHOOSE n \in 0 .. 5 : e = <<"CREDIT_CARD", "BANK_CARD_NUMBER", "SWIFT_BIC_CODE",
            "INTERNAL_IP_ADDRESS", "PROPRIETARY_SOURCE_MARKER", "MONETARY_AMOUNT">>[n + 1]]

Values ==
    {Value("marker"), Value("key"), Value("header"), Value("ip"), Value("amount"),
     Value("swift"), Digits(Visa), Newline}

Valued ==
    {Text(w, u, Spelled(t), FALSE) :
        w \in {"user", "reply"}, u \in {Ana, Hal}, t \in Texts(Values, 3)}

\* Two stretches, the first a string, a key or a number.
JsonValues == (Values \ {Newline}) \cup {Escaped(Newline), Escaped(Value("key"))}

ValuedJson ==
    {Text(w, Ana, <<o, s[1], Word(0), Leaf, s[2], Word(0), s[3]>>, FALSE) :
        w \in {"tool", "arguments"}, o \in Openers, s \in Texts(JsonValues, 3)}

Numbers ==
    {Text("user", u, <<Digits(n)>>, FALSE) : u \in {Ana, Hal}, n \in MCCards \cup {Typo}}
      \cup {Text("tool", u, <<o, Digits(n)>>, FALSE) :
                u \in {Ana, Hal}, o \in Openers, n \in MCCards \cup {Typo}}

Attempts ==
    {Text(w, Hal, <<Attempt(s), Word(0), t>>, FALSE) :
        w \in {"user", "arguments"}, s \in {50, 60}, t \in {Attempt(50), Reference(handbook)}}

\* Patterns some of which are spelt with escapes, in a string or a key.
HiddenAttempts ==
    {Text(w, Hal, <<o, s, Word(0), Leaf, t>>, FALSE) :
        w \in {"tool", "arguments"}, o \in Openers,
        s \in {Attempt(60), Escaped(Attempt(60))},
        t \in {Attempt(50), Escaped(Attempt(50)), Reference(handbook)}}

MCParts == Prompts \cup Wrapped \cup WrappedPrompts \cup WrappedJson \cup Valued \cup ValuedJson
             \cup Numbers \cup Attempts \cup HiddenAttempts

\* Prompts that cite the document next to a passage.
CitingPrompts ==
    {p \in Prompts : p.user = Hal /\ Reference(handbook) \in Seqs!ToSet(p.content)}
=============================================================================
