-------------------------------- MODULE Search --------------------------------
(***************************************************************************)
(* What a reader is shown: the page of a search, fused from a lexical and  *)
(* a vector arm; the passages a listing's assistant is given, and how the  *)
(* evaluation grades an answer made of them; the chunks a document is cut  *)
(* into.  Each is computed from what the database holds, which is chosen.  *)
(*                                                                         *)
(* Words are abstracted to the rank a text has for the query, vectors to   *)
(* similarities, sentences to a length in lines.  Product ids are numbers, *)
(* as the ties they break are.                                             *)
(***************************************************************************)
EXTENDS Integers, Sequences, FiniteSets, SequencesExt

CONSTANTS
    Listings, Locales,
    RRFK,              \* RRF_K
    Limit,             \* listings on a page
    Widen, Least,      \* an arm looks for Limit * Widen, and for Least at least
    Spread,            \* chunks the vector arm reads, per listing it looks for
    PassageK, FetchK,  \* passages of an answer, and the chunks they are picked of
    Quoted,            \* QUOTED: passages the extractive baseline quotes
    LineChars, Target, Overlap, \* characters of a line; targetTokens; overlapSentences
    Absent,
    Corpora, Docs, EvalQuestions, Documents \* the inputs TLC is given

Chunks == [rank : Nat, near : Int]
Texts  == [published : BOOLEAN, locale : Locales, words : [Locales -> Nat \cup {Absent}], chunks : Seq(Chunks)]
Lines  == {"heading", "blank", "ends", "runs on"}

ASSUME SearchAssumption ==
    /\ Listings \subseteq Nat /\ IsFiniteSet(Listings)
    /\ IsFiniteSet(Locales) /\ Absent \notin Locales /\ Absent \notin Nat
    /\ RRFK \in Nat /\ Limit \in Nat /\ Widen \in Nat /\ Least \in Nat /\ Spread \in Nat
    /\ PassageK \in Nat /\ FetchK \in Nat /\ Quoted \in 0..PassageK
    /\ LineChars \in Nat \ {0} /\ Target \in Nat /\ Overlap \in Nat
    \* A listing is written in its own locale; what is to be rejected no passage says.
    /\ \A c \in Corpora : c \in [Listings -> Texts] /\ \A p \in Listings : c[p].words[c[p].locale] # Absent
    /\ \A doc \in Docs :
         /\ doc.score \in Seq(Int) /\ \A i, j \in DOMAIN doc.score : doc.alike[i][j] \in Int
         /\ \A q \in EvalQuestions : q.reject \intersect DOMAIN doc.score = {}
    /\ \A doc \in Documents : doc \in Seq(Lines)

VARIABLE shown \* what was computed last, and from what

searchVars == <<shown>>

Nothing == [kind |-> "nothing"]
SearchInit == shown = Nothing

AtMost(a, b)  == IF a < b THEN a ELSE b
AtLeast(a, b) == IF a < b THEN b ELSE a
First(s, n)   == SubSeq(s, 1, AtMost(Len(s), n))

\* Where a sequence has an element first, or 0.
IndexIn(s, e) == SelectInSeq(s, LAMBDA x : x = e)

Ordered(S, Before(_, _)) ==
    CHOOSE s \in SetToSeqs(S) : \A i, j \in DOMAIN s : i < j => Before(s[i], s[j])

-----------------------------------------------------------------------------
(* The arms.  A corpus gives every listing its status, the locale it was   *)
(* written in, the rank of its words in each locale (Absent: it has none,  *)
(* 0: they do not match), and of its chunks how they rank and how near     *)
(* they are to the query.                                                  *)

Published(c) == {p \in Listings : c[p].published}
Written(c, p) == {l \in Locales : c[p].words[l] # Absent}

\* The reader's language where the seller wrote it, the listing's own elsewhere.
LocaliseListing(c, p, reader) == IF reader \in Written(c, p) THEN reader ELSE c[p].locale

\* A match in words this reader is not shown names their locale.
TextHits(c, p, reader) ==
    {[id |-> p, matchedLocale |-> IF l = LocaliseListing(c, p, reader) THEN Absent ELSE l,
      score |-> c[p].words[l]] : l \in {l \in Written(c, p) : c[p].words[l] > 0}}
    \cup {[id |-> p, matchedLocale |-> Absent, score |-> ch.rank] :
            ch \in {ch \in ToSet(c[p].chunks) : ch.rank > 0}}

\* Slip: the order forgets whose words they are.
ReadsBetterByScore(a, b) ==
    \/ a.score > b.score
    \/ a.score = b.score /\ a.matchedLocale = Absent /\ b.matchedLocale # Absent
    \/ a.score = b.score /\ (a.matchedLocale = Absent) = (b.matchedLocale = Absent) /\ a.id < b.id

Nearer(a, b) == a.score > b.score \/ (a.score = b.score /\ a.id < b.id)

\* Own words first, then the score, then the id.
ReadsBetter(a, b) ==
    LET foreign(h) == h.matchedLocale # Absent IN
    \/ ~foreign(a) /\ foreign(b)
    \/ foreign(a) = foreign(b) /\ Nearer(a, b)

BestOf(hits, Before(_, _)) == CHOOSE h \in hits : \A g \in hits : ~Before(g, h)

TextArm(c, reader, candidates) ==
    LET found == {p \in Published(c) : TextHits(c, p, reader) # {}}
        best  == {BestOf(TextHits(c, p, reader), ReadsBetter) : p \in found}
    IN First(Ordered(best, ReadsBetter), candidates)

\* The nearest n chunks of a corpus; which of those at the cut, nothing says.
Nearest(c, n) ==
    LET all == UNION {{p} \X DOMAIN c[p].chunks : p \in Published(c)}
        near(x) == c[x[1]].chunks[x[2]].near
    IN {cut \in SUBSET all :
          /\ Cardinality(cut) = AtMost(Cardinality(all), n)
          /\ \A x \in cut : \A y \in all \ cut : near(x) >= near(y)}

\* The best chunk of each listing speaks for it.
VectorHits(c, cut, p) ==
    {[id |-> p, matchedLocale |-> Absent, score |-> c[p].chunks[x[2]].near] : x \in {x \in cut : x[1] = p}}

VectorArm(c, cut, candidates) ==
    LET best == {BestOf(VectorHits(c, cut, p), Nearer) : p \in {x[1] : x \in cut}}
    IN First(Ordered(best, Nearer), candidates)

-----------------------------------------------------------------------------
(* The fusion.                                                             *)

\* Where a list has a listing, or 0: a listing twice in a list counts once.
RankOf(list, p) == SelectInSeq(list, LAMBDA h : h.id = p)

\* Slip: the constant is forgotten.
AddShareUndamped(w, rank) == IF rank = 0 THEN w ELSE <<w[1] * rank + w[2], w[2] * rank>>

\* What a rank adds to a weight, which is a fraction: 1/(k + rank), or nothing.
AddShare(w, rank) == IF rank = 0 THEN w ELSE <<w[1] * (RRFK + rank) + w[2], w[2] * (RRFK + rank)>>

Weight(ranks) ==
    LET sum[n \in 0..Len(ranks)] == IF n = 0 THEN <<0, 1>> ELSE AddShare(sum[n - 1], ranks[n])
    IN sum[Len(ranks)]

\* A listing of some list: the copy of the list that ranked it best, the first of
\* those that tie.
FusedOf(lists, p) ==
    LET r == [i \in DOMAIN lists |-> RankOf(lists[i], p)]
        i == CHOOSE i \in DOMAIN r :
               /\ r[i] # 0
               /\ \A j \in DOMAIN r : r[j] = 0 \/ r[i] < r[j] \/ (r[i] = r[j] /\ i <= j)
    IN [id |-> p, matchedLocale |-> lists[i][r[i]].matchedLocale, ranks |-> r, weight |-> Weight(r)]

Outweighs(a, b) ==
    LET x == a.weight[1] * b.weight[2]
        y == b.weight[1] * a.weight[2]
    IN x > y \/ (x = y /\ a.id < b.id)

ReciprocalRankFusion(lists) ==
    LET ids == UNION {{h.id : h \in ToSet(lists[i])} : i \in DOMAIN lists}
    IN Ordered({FusedOf(lists, p) : p \in ids}, Outweighs)

Candidates == AtLeast(Limit * Widen, Least)

Hybrid == <<"text", "vector">>

ArmHits(c, reader, cut, arms) ==
    [i \in DOMAIN arms |-> IF arms[i] = "text" THEN TextArm(c, reader, Candidates)
                                              ELSE VectorArm(c, cut, Candidates)]

\* Where an arm had a hit, or 0: it did not, or was not asked.
RankIn(arms, ranks, arm) ==
    IF arm \in ToSet(arms) THEN ranks[IndexIn(arms, arm)] ELSE 0

SearchProducts(lists) == First(ReciprocalRankFusion(lists), Limit)

\* Slip: of some hit that matched no word.
NearestOnlyOfSome(hits) == 
    hits # <<>> /\ \E i \in DOMAIN hits : RankIn(Hybrid, hits[i].ranks, "text") = 0

\* No listing of the page matched a word.
NearestOnly(hits) ==
    hits # <<>> /\ \A i \in DOMAIN hits : RankIn(Hybrid, hits[i].ranks, "text") = 0

\* The home page of a query that is not blank.
SearchPage(c, reader) ==
    \E cut \in Nearest(c, Candidates * Spread) :
        LET lists == ArmHits(c, reader, cut, Hybrid)
            hits  == SearchProducts(lists)
        IN shown' = [kind |-> "page", corpus |-> c, reader |-> reader, lists |-> lists,
                     hits |-> hits, nearestOnly |-> NearestOnly(hits)]

-----------------------------------------------------------------------------
(* The evaluation of search: a query with a listing that should come       *)
(* first, asked of each arm alone and of both.                             *)

ScoredArms  == {"text", "vector", "hybrid"}
ArmsOf(arm) == IF arm = "hybrid" THEN Hybrid ELSE <<arm>>

\* One case's share of each score, the reciprocal of a rank as a fraction.
Score(rank) == [recall |-> rank # 0, precisionAt1 |-> rank = 1,
                mrr |-> IF rank = 0 THEN <<0, 1>> ELSE <<1, rank>>]

\* The same rows are asked three times over, and are cut alike each time.
RunSearchEval(c, p) ==
    \E cut \in Nearest(c, Candidates * Spread) :
        LET hits(arm) == SearchProducts(ArmHits(c, "en", cut, ArmsOf(arm)))
            rank(arm) == RankOf(hits(arm), p)
        IN shown' = [kind |-> "scores", scores |-> [arm \in ScoredArms |-> Score(rank(arm))]]

-----------------------------------------------------------------------------
(* The assistant's passages.  Chunks come with their score for the         *)
(* question and their similarity to one another.                           *)

\* The database orders by distance, and chunks as near as each other anyhow.
NearestChunks(doc, n) ==
    LET best(s) == \A i, j \in DOMAIN s : i < j => doc.score[s[i]] >= doc.score[s[j]]
    IN {First(s, n) : s \in {s \in SetToSeqs(DOMAIN doc.score) : best(s)}}

\* What stands in for it where there is no database.
MemoryIndex(doc, n) ==
    LET before(i, j) == \/ doc.score[i] > doc.score[j]
                        \/ doc.score[i] = doc.score[j] /\ i < j
    IN First(Ordered(DOMAIN doc.score, before), n)

Redundancy(doc, i, picked) == IF picked = {} THEN 0 ELSE Max({doc.alike[i][j] : j \in picked})

\* Slip: what is like the picked is preferred.
GainAlike(doc, i, picked) == 7 * doc.score[i] + 3 * Redundancy(doc, i, picked)

\* Ten times lambda * relevance - (1 - lambda) * redundancy, lambda 0.7.
Gain(doc, i, picked) == 7 * doc.score[i] - 3 * Redundancy(doc, i, picked)

\* Of the candidates left, the first of those that gain most.
BestOfTheRest(doc, candidates, picked) ==
    LET left  == ToSet(candidates) \ picked
        at(i) == IndexIn(candidates, i)
    IN CHOOSE i \in left : \A j \in left \ {i} :
           \/ Gain(doc, i, picked) > Gain(doc, j, picked)
           \/ Gain(doc, i, picked) = Gain(doc, j, picked) /\ at(i) < at(j)

\* The passages picked in so many rounds, for each number of rounds up to one.
Picks(doc, candidates, rounds) ==
    LET pick[n \in 0..rounds] ==
            IF n = 0 THEN <<>>
            ELSE Append(pick[n - 1], BestOfTheRest(doc, candidates, ToSet(pick[n - 1])))
    IN pick

MMR(doc, candidates, k) ==
    LET rounds == AtMost(Len(candidates), k) IN Picks(doc, candidates, rounds)[rounds]

Fetched == AtLeast(FetchK, 3 * PassageK)

\* Numbered from 1, as they are cited.
Retrieve(doc, candidates) == MMR(doc, candidates, PassageK)

\* The tool of the listing's agent.
SearchDocs(doc) ==
    \E candidates \in NearestChunks(doc, Fetched) :
        shown' = [kind |-> "passages", doc |-> doc, passages |-> Retrieve(doc, candidates)]

\* Slip: it quotes what the passages were picked of.
ExtractiveBaselineUnpicked(passages) == 1..Quoted

\* The listing's agent with the model that stands in where there is no key: it
\* searches once with the question, and quotes the first passages word for word.
ExtractiveBaseline(passages) == ToSet(First(passages, Quoted))

\* A question names the passages whose facts its answer has, or none, and what
\* no passage says; here a fact is the chunk that says it.
Grade(q, answer, retrieved) ==
    [hit     |-> q.passages # {} /\ q.passages \subseteq retrieved,
     correct |-> q.passages \subseteq answer /\ q.reject \intersect answer = {}]

\* One question of an evaluation run.
AskPassages(doc, q) ==
    LET passages == Retrieve(doc, MemoryIndex(doc, Fetched)) IN
    shown' = [kind |-> "answer", doc |-> doc, question |-> q, passages |-> passages,
              grade |-> Grade(q, ExtractiveBaseline(passages), ToSet(passages))]

-----------------------------------------------------------------------------
(* The chunks of a document: lines that are a heading, blank, or words,    *)
(* which end a sentence or run on into the next line.                      *)

EstimateTokens(chars) == (chars + 3) \div 4

\* Sections of sentences, each a number of lines; open where the last runs on.
AddLine(s, line) ==
    LET n == Len(s.sections)
        last == s.sections[n]
        words == IF s.open THEN [last EXCEPT ![Len(last)] = @ + 1] ELSE Append(last, 1)
    IN CASE line = "heading" -> [sections |-> Append(s.sections, <<>>), open |-> FALSE]
         [] line = "blank"   -> [s EXCEPT !.open = FALSE]
         [] OTHER -> [sections |-> [s.sections EXCEPT ![n] = words], open |-> line = "runs on"]

\* What the first n lines are split into, for each n.
Splits(doc) ==
    LET split[n \in 0..Len(doc)] ==
            IF n = 0 THEN [sections |-> <<<<>>>>, open |-> FALSE] ELSE AddLine(split[n - 1], doc[n])
    IN split

SplitSections(doc) == Splits(doc)[Len(doc)].sections

\* The lines of a section's first n sentences, for each n.
LinesTo(section) ==
    LET lines[n \in 0..Len(section)] == IF n = 0 THEN 0 ELSE lines[n - 1] + section[n] IN lines

\* The sentences from..to of a section, joined by spaces as their lines are.
Chars(section, from, to) ==
    IF to < from THEN 0
    ELSE (LinesTo(section)[to] - LinesTo(section)[from - 1]) * (LineChars + 1) - 1

\* Slip: the first sentences of the buffer are carried over, not the last.
CarryOverFirst(from, to) == from

\* buffer.slice(-overlap): of no overlap, all of it.
CarryOver(from, to) ==
    IF Overlap = 0 \/ to - from + 1 <= Overlap THEN from ELSE to - Overlap + 1

\* Sentence i would not fit behind what the buffer holds.
IsFull(section, from, i) ==
    /\ from < i
    /\ EstimateTokens(Chars(section, from, i - 1)) + EstimateTokens(Chars(section, i, i)) > Target

\* Where the buffer begins after each sentence, and the chunks <<from, to>> cut off it.
Buffers(section) ==
    LET buffer[i \in 0..Len(section)] ==
            IF i = 0 THEN [from |-> 1, chunks |-> <<>>]
            ELSE LET b == buffer[i - 1] IN
                 IF IsFull(section, b.from, i)
                 THEN [from |-> CarryOver(b.from, i - 1), chunks |-> Append(b.chunks, <<b.from, i - 1>>)]
                 ELSE b
    IN buffer

ChunkSection(section) ==
    LET last == Buffers(section)[Len(section)] IN
    IF section = <<>> THEN <<>> ELSE Append(last.chunks, <<last.from, Len(section)>>)

ChunkDocument(doc) ==
    shown' = [kind |-> "chunks", sections |-> SplitSections(doc),
              chunks |-> [s \in DOMAIN SplitSections(doc) |-> ChunkSection(SplitSections(doc)[s])]]

-----------------------------------------------------------------------------
Leave == shown # Nothing /\ shown' = Nothing

SearchNext ==
    \/ /\ shown = Nothing
       /\ \/ \E c \in Corpora, reader \in Locales : SearchPage(c, reader)
          \/ \E c \in Corpora, p \in Listings : RunSearchEval(c, p)
          \/ \E doc \in Docs : SearchDocs(doc)
          \/ \E doc \in Docs, q \in EvalQuestions : AskPassages(doc, q)
          \/ \E doc \in Documents : ChunkDocument(doc)
    \/ Leave

SearchSpec == SearchInit /\ [][SearchNext]_searchVars

-----------------------------------------------------------------------------
Shows(kind) == shown.kind = kind
Finders(p) == {a \in DOMAIN shown.lists : RankOf(shown.lists[a], p) # 0}

\* A listing both arms found is above every listing that only one did, however
\* well that one ranked it: where the page has room for one of the two, it is on
\* it.  No listing is on a page twice (rrf.ts:42).
TwoArmsOutrankOne ==
    Shows("page") =>
        LET at(p) == {j \in DOMAIN shown.hits : shown.hits[j].id = p} IN
        \A p \in Listings :
            /\ Cardinality(at(p)) <= 1
            /\ \A i \in DOMAIN shown.hits :
                 Cardinality(Finders(p)) > Cardinality(Finders(shown.hits[i].id)) =>
                     \E j \in at(p) : j < i

\* A card says a listing was found in another language only where nothing its
\* reader can read of it matched, not its words and no passage (search.ts:158).
CardAccountsForItself ==
    Shows("page") =>
        \A i \in DOMAIN shown.hits :
            LET h == shown.hits[i]
                listing == shown.corpus[h.id] IN
            h.matchedLocale # Absent =>
                /\ listing.words[h.matchedLocale] > 0
                /\ listing.words[LocaliseListing(shown.corpus, h.id, shown.reader)] = 0
                /\ \A ch \in ToSet(listing.chunks) : ch.rank = 0

\* A page says that nothing the buyer typed is in any listing exactly when it
\* is in none of those published, and not because the vector arm crowded them
\* out (page.tsx:86).
NearestOnlyIsTrue ==
    Shows("page") /\ shown.hits # <<>> =>
        (shown.nearestOnly <=>
            \A p \in Published(shown.corpus) : TextHits(shown.corpus, p, shown.reader) = {})

\* What a page says of why its listings are on it is true: of each card and of
\* the page (search.ts:158, page.tsx:82-89).
PageAccountsForItself == CardAccountsForItself /\ NearestOnlyIsTrue

\* However well each arm alone does, the fusion first lists what both list first
\* (evals/search.ts:73).  What both merely list, it may drop.
AgreedIsFirst ==
    Shows("scores") =>
        (shown.scores["text"].precisionAt1 /\ shown.scores["vector"].precisionAt1
            => shown.scores["hybrid"].precisionAt1)

\* What the second arm is for (rrf.ts:42, evals/search.ts:73).
FusionRewardsAgreement == TwoArmsOutrankOne /\ AgreedIsFirst

\* No passage is given that another, left out, should have been given for: one
\* more relevant and, against every passage before it, no more alike.
NoPassageIsDominated ==
    shown.kind \in {"passages", "answer"} =>
        LET doc == shown.doc
            ps  == shown.passages
        IN /\ IsInjective(ps)
           /\ \A n \in DOMAIN ps : \A i \in DOMAIN doc.score \ ToSet(ps) :
                ~ /\ doc.score[i] > doc.score[ps[n]]
                  /\ \A m \in 1..n - 1 : doc.alike[i][ps[m]] <= doc.alike[ps[n]][ps[m]]

\* The baseline cannot invent, and is right only about what was retrieved: every
\* point it loses is the pipeline's (providers/fake.ts:58).
BaselineOnlyQuotes ==
    Shows("answer") =>
        /\ shown.question.passages = {} => shown.grade.correct
        /\ shown.question.passages # {} /\ shown.grade.correct => shown.grade.hit

\* What an evaluation retrieves, the database could have (harness.ts:7-10).
MemoryIsTheDatabase ==
    Shows("answer") => MemoryIndex(shown.doc, Fetched) \in NearestChunks(shown.doc, Fetched)

\* An answer is as good as its passages, and those as good as the document
\* (mmr.ts:18-22, providers/fake.ts:58).
AnswerIsItsPassages == NoPassageIsDominated /\ BaselineOnlyQuotes /\ MemoryIsTheDatabase

\* A section's chunks hold all its sentences, in order, repeat no more than the
\* overlap, and are within the target unless the overlap alone fills it.  (The
\* heading put before a chunk is not counted, as the loop does not count it.)
ChunksCoverTheDocument ==
    Shows("chunks") =>
        \A s \in DOMAIN shown.sections :
            LET cs == shown.chunks[s]
                section == shown.sections[s]
            IN /\ UNION {c[1]..c[2] : c \in ToSet(cs)} = DOMAIN section
               /\ \A n \in DOMAIN cs :
                    /\ n > 1 => /\ cs[n][1] <= cs[n - 1][2] + 1 /\ cs[n][2] > cs[n - 1][2]
                                /\ cs[n - 1][2] - cs[n][1] < Overlap
                    /\ \/ EstimateTokens(Chars(section, cs[n][1], cs[n][2])) <= Target + 1
                       \/ cs[n][2] - cs[n][1] <= Overlap
=============================================================================
