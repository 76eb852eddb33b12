---------------------------- MODULE GovernedText ----------------------------
(***************************************************************************)
(* The text rewriting of policy/enforcement.py, documents/pipeline.py,     *)
(* interagent/pipeline.py and the Langfuse hook.  A text is a sequence of  *)
(* symbols <<kind, value>>: what a regular expression of the code matches  *)
(* as a unit (a tag, a sentinel, a reference) is one symbol, and so is a   *)
(* stretch of text none of them looks at.                                  *)
(*                                                                         *)
(* Policy says which items a text may carry; here the rewriting itself is  *)
(* modelled, with the order in which its passes run and what one pass does *)
(* to the marks another one is looking for.                                *)
(***************************************************************************)
EXTENDS Policy, Sequences, FiniteSets

Seqs == INSTANCE SequencesExt

CONSTANTS
    ListedTags,     \* every tag, in the order the matrix lists them
    SortedTags,     \* every tag, in the order of sorted()
    DocumentText    \* DocumentRecord.content

ASSUME TagListsAssumption ==
    /\ ListedTags \in Seq(Tags) /\ {ListedTags[i] : i \in DOMAIN ListedTags} = Tags
    /\ SortedTags \in Seq(Tags) /\ {SortedTags[i] : i \in DOMAIN SortedTags} = Tags

Kind(symbol) == symbol[1]

IsText(text) == text \in Seq({text[i] : i \in DOMAIN text})

Word(w)       == <<"word", w>>         \* text no rule looks at
Newline       == <<"newline", 0>>
Opening(tag)  == <<"opening", tag>>    \* "[TAG]"
Closing(tag)  == <<"closing", tag>>    \* "[/TAG]"
Redacted      == <<"redacted", 0>>
Reference(d)  == <<"reference", d>>    \* "[[DOCUMENT:d]]"
Refusal(d)    == <<"refusal", d>>      \* "[Document: d - access not authorized]"

(* A sentinel carries the family of its brackets, the request's token and  *)
(* the name of what it wraps.                                              *)
Open(family, token, name)  == <<"open", <<family, token, name>>>>
Close(family, token, name) == <<"close", <<family, token, name>>>>
Named(family, name)        == <<"named", <<family, name>>>>

IsSentinel(symbol, kind, family) ==
    Kind(symbol) = kind /\ symbol[2][1] = family

-----------------------------------------------------------------------------
(* re.sub: scanning from the left, each match is replaced and the scan     *)
(* goes on behind it.  end[i] is the last position of the match that can   *)
(* start at i, or NoMatch; by[i] replaces it.                              *)
NoMatch == 0

InMatch(end, matches, i) == \E m \in matches : m <= i /\ i <= end[m]

\* Where the matches of one scan start.
Matches(text, end) ==
    LET found[i \in 0 .. Len(text)] ==
            IF i = 0 THEN {}
            ELSE LET before == found[i - 1]
                 IN  IF end[i] = NoMatch \/ InMatch(end, before, i)
                     THEN before ELSE before \cup {i}
    IN  found[Len(text)]

Sub(text, end, by) ==
    LET matches == Matches(text, end)
    IN  Seqs!FlattenSeq([i \in DOMAIN text |->
            IF i \in matches THEN by[i]
            ELSE IF InMatch(end, matches, i) THEN <<>> ELSE <<text[i]>>])

(* A lazy ".*?" ends at the first symbol that lets the pattern end. *)
First(hits) ==
    IF hits = {} THEN NoMatch ELSE CHOOSE j \in hits : \A k \in hits : j <= k

Behind(text, i) == i + 1 .. Len(text)

Everywhere(text, by) == [i \in DOMAIN text |-> by]

-----------------------------------------------------------------------------
(* enforcement.py *)

(* "[TAG].*?[/TAG]", across lines *)
BlockEnd(tag, text, i) ==
    IF text[i] # Opening(tag) THEN NoMatch
    ELSE First({j \in Behind(text, i) : text[j] = Closing(tag)})

(* "[TAG].*?(\n|$)", within a line *)
LineEnd(tag, text, i) ==
    IF text[i] # Opening(tag) THEN NoMatch
    ELSE LET newline == First({j \in Behind(text, i) : text[j] = Newline})
         IN  IF newline = NoMatch THEN Len(text) ELSE newline

RedactBlocks(text, tag) ==
    Sub(text, [i \in DOMAIN text |-> BlockEnd(tag, text, i)],
        Everywhere(text, <<Redacted>>))

RedactLines(text, tag) ==
    Sub(text, [i \in DOMAIN text |-> LineEnd(tag, text, i)],
        Everywhere(text, <<Redacted, Newline>>))

\* Mutation: the line pattern runs before the block pattern.
RedactTagLinesFirst(text, tag) == RedactBlocks(RedactLines(text, tag), tag)

RedactTag(text, tag) == RedactLines(RedactBlocks(text, tag), tag)

(* _redact_tags: tag after tag, in the given order, the block pattern      *)
(* before the line pattern.                                                *)
RedactTags(text, order, tags) ==
    LET redacted[k \in 0 .. Len(order)] ==
            IF k = 0 THEN text
            ELSE LET before == redacted[k - 1]
                 IN  IF order[k] \in tags THEN RedactTag(before, order[k]) ELSE before
    IN  redacted[Len(order)]

(* policy.restricted_doc_tags of the user, in the matrix's order *)
RedactForUser(text, user) ==
    RedactTags(text, ListedTags, policy_of(user).restricted_doc_tags)

\* Mutation: the baseline is the default policy's tags.
RedactDefault(text) ==
    RedactTags(text, SortedTags, default_policy.restricted_doc_tags)

(* most_restrictive_doc_tags, sorted *)
RedactForEverybody(text) == RedactTags(text, SortedTags, most_restrictive_doc_tags)

-----------------------------------------------------------------------------
(* documents/pipeline.py.  A document's name is taken to be its id. *)

References(text) == {d \in DocIds : Reference(d) \in Seqs!ToSet(text)}

\* Mutation: a document is put in without its closing sentinel.
ResolveUnclosed(symbol, user, token) ==
    IF \/ Kind(symbol) # "reference" \/ symbol[2] \notin DOMAIN registry
       \/ ~is_authorized(symbol[2], user)
    THEN <<symbol>>
    ELSE <<Open("DOC", token, symbol[2])>> \o DocumentText[symbol[2]]

(* _replace and _sentinel_wrap: what is inserted is not looked at again. *)
ResolveSymbol(symbol, user, token) ==
    IF Kind(symbol) # "reference" \/ symbol[2] \notin DOMAIN registry
    THEN <<symbol>>
    ELSE LET d == symbol[2]
         IN  IF is_authorized(d, user)
             THEN <<Open("DOC", token, d)>> \o DocumentText[d]
                    \o <<Close("DOC", token, d)>>
             ELSE <<Refusal(d)>>

IsReference(symbol) == Kind(symbol) = "reference"

ResolveReferences(text, user, token) ==
    Sub(text, [i \in DOMAIN text |-> IF IsReference(text[i]) THEN i ELSE NoMatch],
        [i \in DOMAIN text |-> ResolveSymbol(text[i], user, token)])

(* _build_sentinel_strip_pattern: from an opening sentinel of this token   *)
(* to the first closing one of the same token and name.                    *)
WrapEnd(family, token, text, i) ==
    IF ~(IsSentinel(text[i], "open", family) /\ text[i][2][2] = token) THEN NoMatch
    ELSE First({j \in Behind(text, i) : text[j] = Close(family, token, text[i][2][3])})

Names(text, family) ==
    [i \in DOMAIN text |->
        IF IsSentinel(text[i], "open", family) THEN <<Named(family, text[i][2][3])>>
        ELSE <<>>]

\* Mutation: the closing sentinel may be of another name.
StripToAnyName(text, family, token) ==
    Sub(text,
        [i \in DOMAIN text |->
            IF WrapEnd(family, token, text, i) = NoMatch THEN NoMatch
            ELSE First({j \in Behind(text, i) : IsSentinel(text[j], "close", family)})],
        Names(text, family))

(* strip_document_content and strip_interagent_payload *)
StripWraps(text, family, token) ==
    Sub(text, [i \in DOMAIN text |-> WrapEnd(family, token, text, i)],
        Names(text, family))

-----------------------------------------------------------------------------
(* interagent/pipeline.py: the same sentinels with brackets of their own.  *)

wrap_interagent_payload(token, label, payload) ==
    <<Open("IAP", token, label)>> \o payload \o <<Close("IAP", token, label)>>

contains_interagent_payload(text, token) ==
    \E i \in DOMAIN text : WrapEnd("IAP", token, text, i) # NoMatch

(* finditer over the capture pattern: labels and payloads in text order.   *)
unwrap_interagent_payload(text, token) ==
    LET end     == [i \in DOMAIN text |-> WrapEnd("IAP", token, text, i)]
        matches == Matches(text, end)
    IN  Seqs!FlattenSeq([i \in DOMAIN text |->
            IF i \in matches
            THEN <<<<text[i][2][3], SubSeq(text, i + 1, end[i] - 1)>>>>
            ELSE <<>>])

-----------------------------------------------------------------------------
(* observability/langfuse_logger.py: STRUCTURAL_SENTINEL_PATTERN, from any *)
(* opening document sentinel to the first closing one.                     *)
\* Mutation: the hook is not installed.
NoHook(text) == text

langfuse_mask(text) ==
    Sub(text,
        [i \in DOMAIN text |->
            IF IsSentinel(text[i], "open", "DOC")
            THEN First({j \in Behind(text, i) : IsSentinel(text[j], "close", "DOC")})
            ELSE NoMatch],
        Everywhere(text, <<Redacted>>))
=============================================================================
