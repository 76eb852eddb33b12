------------------------------ MODULE BodyText ------------------------------
(***************************************************************************)
(* The way of one string of a body through the handler (main.py:224-286,   *)
(* 347-386) and the audit logger: the copies that are made of it, each     *)
(* from the one before, in the handler's order.                            *)
(*                                                                         *)
(* The stages of a request run without an await between them; what is open *)
(* is the text, its user and which kinds of match the analyzer's context   *)
(* raises, anew at each analysis.  Strings of one body meet only in        *)
(* had_restricted_context and the scan's verdict, which are disjunctions   *)
(* over them.                                                              *)
(***************************************************************************)
EXTENDS MaskingEngine

CONSTANT Parts         \* the strings considered

(* where: the content of a message by role, the arguments of a tool call,  *)
(* or a reply's content.  interagent: the caller of build_persisted_view   *)
(* gives it the token of an inter-agent payload (the handler never does).  *)
PartFields == {"where", "user", "content", "interagent"}

(* The injection patterns are those the recognizer knows.  A stretch no    *)
(* rule looks at, a body or a payload is the same symbol however JSON      *)
(* spells it; the other symbols are told from their escapes.               *)
Spelt(symbol) ==
    /\ Kind(symbol) = "attempt" => symbol[2] \in AttemptScores
    /\ Kind(symbol) = "escaped" => Kind(symbol[2]) \notin {"word", "body", "payload"}

WellSpelt(text) == \A i \in DOMAIN text : Spelt(text[i])

ASSUME PartsAssumption ==
    \A p \in Parts :
        /\ DOMAIN p = PartFields
        /\ p.where \in {"system", "user", "tool", "arguments", "reply"}
        /\ p.user \in UserContext
        /\ p.interagent \in BOOLEAN
        /\ IsText(p.content) /\ WellSpelt(p.content)

(* The text of a document is of the kind "body", to be told from the words *)
(* of the string it is resolved in.                                        *)
ASSUME DocumentsAssumption ==
    \A d \in DOMAIN registry :
        /\ IsText(DocumentText[d]) /\ WellSpelt(DocumentText[d])
        /\ \A i \in DOMAIN DocumentText[d] : Kind(DocumentText[d][i]) # "word"

VARIABLES
    part,         \* the string as it came
    pc,           \* the next stage
    copy,         \* the copies made of it so far
    restricted,   \* had_restricted_context
    scanned,      \* the findings of the injection scan
    boosted       \* the kinds the last analysis raised

vars == <<part, pc, copy, restricted, scanned, boosted>>

Token == "now"   \* document_token; other tokens are those of earlier requests

NoCopies ==
    [filtered |-> <<>>, resolved |-> <<>>, live |-> <<>>, redacted |-> <<>>,
     stripped |-> <<>>, persisted |-> <<>>, record |-> <<>>]

Copy(stage, text) == copy' = [copy EXCEPT ![stage] = text]

IsReply == part.where = "reply"
IsJson  == part.where \in {"tool", "arguments"}

(* _mask_tool_calls, mask_inbound_payload and _mask_openai_style_choices:  *)
(* tool results and arguments are masked value by value, other texts whole. *)
mask_part(text, entities, exempt, raised) ==
    IF IsJson THEN mask_json_encoded_string(text, entities, exempt, raised)
              ELSE mask_text(text, entities, exempt, raised)

-----------------------------------------------------------------------------
Init ==
    /\ part \in Parts
    /\ pc = IF part.where = "reply" THEN "mask" ELSE "policy"
    /\ copy = IF part.where = "reply"
              THEN [NoCopies EXCEPT !.resolved = part.content]
              ELSE NoCopies
    /\ restricted = FALSE
    /\ scanned = {}
    /\ boosted = {}

(* enforce_policy_on_payload: system messages only *)
filter_part(text) ==
    IF part.where = "system" THEN RedactForUser(text, part.user) ELSE text

EnforcePolicy ==
    /\ pc = "policy"
    /\ Copy("filtered", filter_part(part.content))
    /\ pc' = "resolve"
    /\ UNCHANGED <<part, restricted, scanned, boosted>>

(* resolve_document_references: message contents only *)
resolve_part(text) ==
    IF part.where = "arguments" THEN text ELSE ResolveReferences(text, part.user, Token)

Resolve ==
    /\ pc = "resolve"
    /\ Copy("resolved", resolve_part(copy.filtered))
    /\ pc' = "scan"
    /\ UNCHANGED <<part, restricted, scanned, boosted>>

\* Mutation: the scan runs on the copy the documents are not in yet.
ScannedBeforeResolving == copy.filtered

ScannedText == copy.resolved

(* scan_payload_for_injection, with blocking enabled *)
Scan ==
    /\ pc = "scan"
    /\ \E raised \in SUBSET Boostable(ScannedText, {"attempt"}) :
          /\ boosted' = raised
          /\ scanned' = scan_text_for_injection(ScannedText, raised)
    /\ pc' = IF exceeds(scanned') THEN "rejected" ELSE "mask"
    /\ UNCHANGED <<part, copy, restricted>>

(* The live view: the default entities but the user's exempt ones. *)
MaskLive ==
    /\ pc = "mask"
    /\ \E raised \in SUBSET Boostable(copy.resolved, Maskable) :
          /\ boosted' = raised
          /\ Copy("live", mask_part(copy.resolved, DEFAULT_ENTITIES_TO_MASK,
                                    get_masking_exempt_entities(part.user), raised))
    /\ pc' = "redact"
    /\ UNCHANGED <<part, restricted, scanned>>

(* redact_payload_for_persisted_view: every tag of the matrix, system      *)
(* messages of requests only.                                              *)
redact_part(text) ==
    IF part.where = "system" THEN RedactForEverybody(text) ELSE text

Redact ==
    /\ pc = "redact"
    /\ Copy("redacted", redact_part(copy.resolved))
    /\ restricted' = (redact_part(copy.resolved) # copy.resolved)
    /\ pc' = "strip"
    /\ UNCHANGED <<part, scanned, boosted>>

(* _strip_sentinels_from_payload, for documents, then for payloads: not in *)
(* tool calls, and a reply is given no document token.                     *)
strip_part(text) ==
    LET documents == IF IsReply THEN text ELSE StripWraps(text, "DOC", Token)
    IN  IF part.where = "arguments" THEN text
        ELSE IF part.interagent THEN StripWraps(documents, "IAP", Token)
        ELSE documents

Strip ==
    /\ pc = "strip"
    /\ Copy("stripped", strip_part(copy.redacted))
    /\ pc' = "persist"
    /\ UNCHANGED <<part, restricted, scanned, boosted>>

(* build_persisted_view: amounts too, and nobody is exempt. *)
MaskPersisted ==
    /\ pc = "persist"
    /\ \E raised \in SUBSET Boostable(copy.stripped, Maskable) :
          /\ boosted' = raised
          /\ Copy("persisted",
                  mask_part(copy.stripped, PERSISTED_VIEW_ENTITIES, {}, raised))
    /\ pc' = "log"
    /\ UNCHANGED <<part, restricted, scanned>>

(* log_call, through the mask hook of the Langfuse client *)
Log ==
    /\ pc = "log"
    /\ Copy("record", langfuse_mask(copy.persisted))
    /\ pc' = "logged"
    /\ UNCHANGED <<part, restricted, scanned, boosted>>

Next ==
    \/ EnforcePolicy \/ Resolve \/ Scan \/ MaskLive
    \/ Redact \/ Strip \/ MaskPersisted \/ Log

Spec == Init /\ [][Next]_vars
=============================================================================
