--------------------------- MODULE ResponseParser ---------------------------
(***************************************************************************)
(* What is read out of the text of an answer: which brands it mentions, in *)
(* which order and with which sentiment, and whom its citations belong to. *)
(*                                                                         *)
(* A text is a sequence of items: words, spaces, sentence ends and URLs.   *)
(* Two words with nothing between them are glued.  A word carries what the *)
(* matching looks at: its letters without case (id), whether it is written *)
(* with capitals, its script, its length, and whether it is one of the     *)
(* sentiment keywords.  A URL carries the labels of its host, and its id   *)
(* is the label a brand name would be found in.  A term (the name of a     *)
(* brand or an alias) is the sequence of its words.                        *)
(***************************************************************************)
EXTENDS Integers, SequencesExt

CONSTANT None    \* null in the database and in Python

ShortAliasMaxLen == 3

IsUrl(x) == x.host # <<>>

(* _TOKEN_SPLIT_RE: white space and punctuation, the full stop included *)
IsSeparator(x) == x.script \in {"space", "stop"}

(* [A-Za-z0-9] next to a match, which forbids it; Hangul does not. *)
IsLatin(x) == x.script = "latin" /\ ~IsUrl(x)

(* re.IGNORECASE: not for short terms, unless they are all Hangul *)
IgnoresCase(term) ==
    \/ FoldLeft(LAMBDA n, w : n + w.letters, 0, term) > ShortAliasMaxLen
    \/ \A i \in DOMAIN term : term[i].script = "hangul"

(* The spans of text that build_alias_pattern(term) finds: the words of    *)
(* the term with any separators, or none, between them.  A URL is found    *)
(* by a term of one word only.                                             *)
Spans(text, term) ==
    {span \in UNION {{i} \X (i .. Len(text)) :
                     i \in {i \in DOMAIN text : text[i].id = Head(term).id}} :
        LET found == SelectSeq(SubSeq(text, span[1], span[2]),
                               LAMBDA x : ~IsSeparator(x))
        IN  /\ ~IsSeparator(text[span[2]])
            /\ Len(found) = Len(term)
            /\ \A k \in DOMAIN term :
                  /\ found[k].id = term[k].id
                  /\ IgnoresCase(term) \/ found[k].upper = term[k].upper
                  /\ Len(term) > 1 => ~IsUrl(found[k])
            /\ span[1] > 1 => ~IsLatin(text[span[1] - 1])
            /\ span[2] < Len(text) => ~IsLatin(text[span[2] + 1])}

(* The elements of S, R being the pairs of which the first comes first.    *)
Sorted(S, R) ==
    [k \in 1 .. Cardinality(S) |->
        CHOOSE x \in S : Cardinality({y \in S : <<y, x>> \in R}) = k - 1]

(* The items of s at the places in K. *)
Subsequence(s, K) ==
    LET at == Sorted(K, {p \in K \X K : p[1] < p[2]}) IN [k \in DOMAIN at |-> s[at[k]]]

(* brands is a list of [brand, terms, domains], in the order of a SELECT   *)
(* without ORDER BY.                                                       *)
AliasMatches(text, brands) ==
    UNION {{[rank |-> i, brand |-> brands[i].brand, start |-> span[1], end |-> span[2]] :
               span \in UNION {Spans(text, t) : t \in brands[i].terms}} :
           i \in DOMAIN brands}

(* The sort by start is stable, so that of two brands found at one place   *)
(* the first of the list comes first.                                      *)
ComesFirst(m, n) ==
    \/ m.start < n.start
    \/ m.start = n.start /\ m.rank < n.rank
    \/ m.start = n.start /\ m.rank = n.rank /\ m.end < n.end

FindAllAliasMatches(text, brands) ==
    LET found == AliasMatches(text, brands)
    IN  Sorted(found, {p \in found \X found : ComesFirst(p[1], p[2])})

(* Mutant: every match counts, not the first of each brand. *)
FirstMentionPerBrandAll(matches) == matches

FirstMentionPerBrand(matches) ==
    Subsequence(matches, {i \in DOMAIN matches :
                             \A j \in 1 .. i - 1 : matches[j].brand # matches[i].brand})

(* extract_context_sentences(): the sentence of the match and its          *)
(* neighbours                                                              *)
Context(text, start) ==
    LET sentence(i) == Len(SelectSeq(SubSeq(text, 1, i - 1),
                                     LAMBDA x : x.script = "stop"))
    IN  {text[i] : i \in {i \in DOMAIN text :
            sentence(i) - sentence(start) \in {-1, 0, 1}}}

Tones == {"positive", "neutral", "negative"}

(* KeywordRuleSentimentClassifier *)
Classify(context) ==
    LET tones == {x.tone : x \in context} \ {"none"}
    IN  IF Cardinality(tones) = 1 THEN CHOOSE t \in tones : TRUE ELSE "neutral"

(* resolve_citations(): those of the adapter as they are, or the different *)
(* URLs of the text                                                        *)
ResolveCitations(answer) ==
    IF answer.citations # <<>>
    THEN answer.citations
    ELSE Subsequence(answer.text,
                     {i \in DOMAIN answer.text :
                         /\ IsUrl(answer.text[i])
                         /\ \A j \in 1 .. i - 1 : answer.text[j] # answer.text[i]})

(* match_domain_to_brand(): the first brand of the list with a registered  *)
(* domain that is the host or a domain above it                            *)
MatchDomainToBrand(host, brands) ==
    LET matching == {i \in DOMAIN brands :
                        \E d \in brands[i].domains : IsSuffix(d, host)}
    IN  IF matching = {} THEN None ELSE brands[Min(matching)].brand

ParseResponse(answer, brands) ==
    LET firsts == FirstMentionPerBrand(FindAllAliasMatches(answer.text, brands))
        urls == ResolveCitations(answer)
    IN  [mentions |->
            [order \in DOMAIN firsts |->
                [brand |-> firsts[order].brand,
                 order |-> order,
                 sentiment |-> Classify(Context(answer.text, firsts[order].start))]],
         citations |->
            [i \in DOMAIN urls |->
                [url |-> urls[i].id,
                 brand |-> MatchDomainToBrand(urls[i].host, brands)]]]
=============================================================================
