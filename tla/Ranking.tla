------------------------------- MODULE Ranking -------------------------------
(***************************************************************************)
(* From the lists a search returns to the evidence of an answer:           *)
(* reciprocal rank fusion, expansion and reranking of src/retrieval.py,    *)
(* and the merge of the aspects' evidence of src/nodes.py.                 *)
(*                                                                         *)
(* One aspect of a question is followed through the stages; what the other *)
(* aspects have, from this pass or an earlier one, joins it in the merge.  *)
(* What the searches return, in which order and how often, what the        *)
(* cross-encoder scores and whether it fails is open.  Scores are          *)
(* integers: weights in hundredths times Unit divided by 60 + rank.        *)
(***************************************************************************)
EXTENDS Naturals, SequencesExt, FiniteSetsExt

CONSTANTS
  Chunks, Evidences,
  EvidenceOf,    \* evidence_id of each chunk
  KindOf,        \* its representation_type
  TextOf,        \* its normalized text
  Neighbours,    \* its previous and its next segment, as far as there are any
  Matches,       \* how many entities of the question it names
  Preferred,     \* chunks of a preferred manual
  Paths, TopK,   \* searches that may find something, and at most how much
  QueryCount,    \* number of queries, the original question first
  FusedTopK, ExpandLimit, RerankLimit, EvidenceLimit, MaxSources,
  Topics,        \* number of aspects, relationship evidence included
  Unit           \* scale of the scores

\* The searches in the order of _rank_fuse's lists, with their weights.
Weight == [exact_headings |-> 220, concepts |-> 135, bm25 |-> 120, preferred_exact |-> 110,
           supporting |-> 70, preferred_concepts |-> 85, preferred_bm25 |-> 75,
           vector |-> 100, representations |-> 100, preferred_vector |-> 65,
           preferred_representations |-> 65, preferred_supporting |-> 45]
InOrder == <<"exact_headings", "concepts", "bm25", "preferred_exact", "supporting",
             "preferred_concepts", "preferred_bm25", "vector", "representations",
             "preferred_vector", "preferred_representations", "preferred_supporting">>

ASSUME RankingAssumption ==
  /\ Paths \subseteq DOMAIN Weight /\ TopK \in [Paths -> Nat]
  /\ EvidenceOf \in [Chunks -> Evidences] /\ DOMAIN TextOf = Chunks
  /\ Neighbours \in [Chunks -> Seq(Chunks)] /\ Matches \in [Chunks -> Nat]
  /\ {QueryCount, FusedTopK, ExpandLimit, RerankLimit, EvidenceLimit, Topics} \subseteq Nat \ {0}
  /\ {MaxSources, Unit} \subseteq Nat

\* The scale tells every two ranks apart, as the floats of the code do.
Finer(n) == \A i, j \in 1 .. n : i < j => Unit \div (60 + j) < Unit \div (60 + i)

ASSUME UnitAssumption == Finer(FusedTopK) /\ \A p \in Paths : Finer(TopK[p])

VARIABLES
  at,         \* the stage
  lists,      \* what the searches of a query found
  perQuery,   \* the ranking of each query
  fused,      \* retrieve_multiple_queries
  evidence,   \* the evidence units of the aspect
  disabled,   \* the reranker is in _disabled_rerankers
  found,      \* the evidence of each aspect
  about,      \* the aspects each evidence unit is tagged with
  sources     \* what the answer is written from

question == <<perQuery, fused, evidence, found, about, sources>>
rankingVars == <<at, lists, disabled, question>>

None == [p \in Paths |-> <<>>]

RankingInit ==
  /\ at = "search" /\ lists = None /\ disabled = FALSE
  /\ perQuery = <<>> /\ fused = <<>> /\ evidence = <<>>
  /\ found = <<>> /\ about = <<>> /\ sources = <<>>
-----------------------------------------------------------------------------
(* Sequences *)

Cut(s, n) == SubSeq(s, 1, Min({n, Len(s)}))

Pairs(I) == {<<i, j>> : i, j \in I}

\* The elements of I in the order of the pairs before.
Arranged(I, before) ==
  [k \in 1 .. Cardinality(I) |->
     CHOOSE i \in I : Cardinality({j \in I : <<j, i>> \in before}) = k - 1]

\* The elements of s at the positions I, in the order of the pairs before.
Rearranged(s, I, before) ==
  LET order == Arranged(I, before) IN [k \in DOMAIN order |-> s[order[k]]]

\* The elements of s at the positions I, in order.
Pick(s, I) == Rearranged(s, I, {p \in Pairs(I) : p[1] < p[2]})

\* The first of all elements with the same key.
FirstOf(s, key) ==
  Pick(s, {i \in DOMAIN s : \A j \in 1 .. i - 1 : key[s[j]] # key[s[i]]})

Distinct(s) == FirstOf(s, [c \in ToSet(s) |-> c])

\* Stable, highest first.
SortedBy(s, score) ==
  Rearranged(s, DOMAIN s, {p \in Pairs(DOMAIN s) :
                 \/ score[s[p[1]]] > score[s[p[2]]]
                 \/ score[s[p[1]]] = score[s[p[2]]] /\ p[1] < p[2]})

Place(s, c) == SelectInSeq(s, LAMBDA d : d = c)
-----------------------------------------------------------------------------
(* Fusion *)

\* Mutant of Contribution: an id that a list repeats counts each time.
ContributionRepeated(list, weight, c) ==
  MapThenSumSet(LAMBDA i : weight * (Unit \div (60 + i)), {i \in DOMAIN list : list[i] = c})

Contribution(list, weight, c) ==
  LET rank == Place(Distinct(list), c)
  IN  IF rank = 0 THEN 0 ELSE weight * (Unit \div (60 + rank))

Total(ranked, weights, c) ==
  LET sum[n \in 0 .. Len(ranked)] ==
        IF n = 0 THEN 0 ELSE sum[n - 1] + Contribution(ranked[n], weights[n], c)
  IN  sum[Len(ranked)]

\* _rank_fuse: ties stay in the order of first appearance.
RankFuse(ranked, weights) ==
  SortedBy(Distinct(FlattenSeq(ranked)), [c \in Chunks |-> Total(ranked, weights, c)])

\* _retrieve_query_paths
Searched == Pick(InOrder, {n \in DOMAIN InOrder : InOrder[n] \in Paths})
Ranked == [n \in DOMAIN Searched |-> lists[Searched[n]]]
QueryRanking ==
  Cut(RankFuse(Ranked, [n \in DOMAIN Searched |-> Weight[Searched[n]]]), FusedTopK)

QueryWeights == [n \in 1 .. QueryCount |-> IF n = 1 THEN 115 ELSE 100]

\* _entity_bonus at most 0.0009, _manual_bonus 0.0004
Bonus(c) == ((3 * Min({3, Matches[c]}) + (IF c \in Preferred THEN 4 ELSE 0)) * Unit) \div 100

Fused ==
  LET ranking == RankFuse(perQuery, QueryWeights)
      best == SortedBy(ranking,
                       [c \in Chunks |-> Total(perQuery, QueryWeights, c) + Bonus(c)])
  IN  Cut(FirstOf(best, TextOf), FusedTopK)

\* What one search may return: any chunks in any order, some of them repeatedly
\* where several headings or concepts lead to them.
Results(p) == BoundedSeq(Chunks, TopK[p])

Found == {l \in [Paths -> UNION {Results(p) : p \in Paths}] :
            \A p \in Paths : l[p] \in Results(p)}

\* The searches of the next query; a failed one finds nothing.
Search ==
  /\ at = "search"
  /\ lists' \in Found
  /\ at' = "rank"
  /\ UNCHANGED <<disabled, question>>

Rank ==
  /\ at = "rank"
  /\ perQuery' = Append(perQuery, QueryRanking)
  /\ lists' = None
  /\ at' = IF Len(perQuery') < QueryCount THEN "search" ELSE "fuse"
  /\ UNCHANGED <<fused, evidence, disabled, found, about, sources>>

FuseQueries ==
  /\ at = "fuse"
  /\ fused' = Fused
  /\ at' = "rerank"
  /\ UNCHANGED <<lists, perQuery, evidence, disabled, found, about, sources>>
-----------------------------------------------------------------------------
(* Expansion and reranking *)

\* Mutant of LimitPerEvidence: every candidate stays.
Unlimited(s) == s

\* limit_candidates_per_evidence: the first of an evidence unit, and the next of
\* another kind or else the next.
LimitPerEvidence(s) ==
  LET Same(i) == {j \in DOMAIN s : EvidenceOf[s[j]] = EvidenceOf[s[i]]}
      First(i) == Min(Same(i))
      Others(i) == {j \in Same(i) : KindOf[s[j]] # KindOf[s[First(i)]]}
      Second(i) == IF Others(i) # {} THEN Min(Others(i)) ELSE Min(Same(i) \ {First(i)})
  IN  Pick(s, {i \in DOMAIN s : i = First(i) \/ i = Second(i)})

Seeds(s) == Cut(s, Max({1, ExpandLimit \div 2}))

\* expand_context: neighbours follow all the seeds.
Expand(s) ==
  LET seeds == Seeds(s)
      near == FlattenSeq([n \in DOMAIN seeds |-> Neighbours[seeds[n]]])
  IN  Cut(LimitPerEvidence(Distinct(seeds \o near)), ExpandLimit)

\* prepare_rerank_candidates; its 20 candidates are those of ExpandLimit.
Candidates(s) == LimitPerEvidence(Expand(s))

\* resolve_evidence_units
Resolve(s) ==
  Cut(Distinct([n \in DOMAIN s |-> EvidenceOf[s[n]]]), EvidenceLimit)

\* Any scores, hence any order.
Rerank ==
  /\ at = "rerank" /\ ~disabled
  /\ \E order \in SetToSeqs(ToSet(Candidates(fused))) :
       evidence' = Resolve(Cut(order, RerankLimit))
  /\ at' = "compress"
  /\ UNCHANGED <<lists, perQuery, fused, disabled, found, about, sources>>

\* Whatever the cross-encoder raises disables it until the process ends.
Fallback ==
  /\ at = "rerank"
  /\ evidence' = Resolve(Cut(Candidates(fused), RerankLimit))
  /\ disabled' = TRUE
  /\ at' = "compress"
  /\ UNCHANGED <<lists, perQuery, fused, found, about, sources>>
-----------------------------------------------------------------------------
(* The aspects *)

\* _with_compressed_view adds a view to each evidence unit, in place; only the
\* evidence is needed from here on.
Compress ==
  /\ at = "compress"
  /\ at' = "merge"
  /\ perQuery' = <<>> /\ fused' = <<>>
  /\ UNCHANGED <<lists, evidence, disabled, found, about, sources>>

\* Mutant of RoundRobin: one aspect after the other.
OneByOne(ranked) == Distinct(FlattenSeq(ranked))

RoundRobin(ranked) ==
  LET At(d) == FlattenSeq([k \in DOMAIN ranked |->
                 IF d <= Len(ranked[k]) THEN <<ranked[k][d]>> ELSE <<>>])
  IN  Distinct(FlattenSeq([d \in 1 .. EvidenceLimit |-> At(d)]))

Covered(chosen, tags) == UNION {tags[e] : e \in ToSet(chosen)}

\* prefer_shared: what covers several aspects first, then an evidence unit for
\* each aspect that is not covered, then the rest.
Shared(ranked, tags, first) ==
  LET useful[n \in 0 .. Len(first)] ==
        IF n = 0 THEN <<>>
        ELSE IF tags[first[n]] \subseteq Covered(useful[n - 1], tags) THEN useful[n - 1]
        ELSE Append(useful[n - 1], first[n])
      Own(chosen, k) ==
        LET left == {d \in DOMAIN ranked[k] : ranked[k][d] \notin ToSet(chosen)}
        IN  IF k \in Covered(chosen, tags) \/ left = {} THEN chosen
            ELSE Append(chosen, ranked[k][Min(left)])
      own[k \in 0 .. Len(ranked)] ==
        IF k = 0 THEN useful[Len(first)] ELSE Own(own[k - 1], k)
  IN  Distinct(own[Len(ranked)] \o RoundRobin(ranked))

\* The evidence of an aspect is tagged with it, and relationship evidence, the
\* last of the aspects, with what it mentions besides.
Tags(ranked, mentions) ==
  [e \in UNION {ToSet(ranked[k]) : k \in DOMAIN ranked} |->
     {k \in DOMAIN ranked : e \in ToSet(ranked[k])} \cup
     (IF e \in DOMAIN mentions THEN mentions[e] ELSE {})]

\* Every order of relationship evidence and evidence of several aspects that
\* the scores may give: the best of the relationship evidence comes first.
Firsts(ranked, tags) ==
  LET relation == {e \in DOMAIN tags : Topics \in tags[e]}
      direct == {e \in DOMAIN tags : Cardinality(tags[e]) > 1
                   /\ \E k \in DOMAIN ranked : k # Topics /\ e \in ToSet(ranked[k])}
  IN  IF relation = {} THEN SetToSeqs(direct)
      ELSE UNION {{<<e>> \o s : s \in SetToSeqs(direct \ {e})} : e \in relation}

EvidenceLists == {s \in BoundedSeq(Evidences, EvidenceLimit) : Distinct(s) = s}

\* _merge_aspect_documents over all aspects, this one being any of them.
Merge ==
  /\ at = "merge"
  /\ found' \in [1 .. Topics -> EvidenceLists]
  /\ evidence \in ToSet(found')
  /\ \/ /\ about' = Tags(found', <<>>)
        /\ sources' = Cut(RoundRobin(found'), MaxSources)
     \/ \E mentions \in [ToSet(found'[Topics]) -> SUBSET (1 .. Topics - 1)] :
          /\ about' = Tags(found', mentions)
          /\ \E first \in Firsts(found', about') :
               sources' = Cut(Shared(found', about', first), MaxSources)
  /\ at' = "done" /\ evidence' = <<>>
  /\ UNCHANGED <<lists, disabled, perQuery, fused>>

\* The next question of this process.
NextQuestion ==
  /\ at = "done"
  /\ at' = "search"
  /\ found' = <<>> /\ about' = <<>> /\ sources' = <<>>
  /\ UNCHANGED <<lists, disabled, perQuery, fused, evidence>>

RankingNext ==
  Search \/ Rank \/ FuseQueries \/ Rerank \/ Fallback \/ Compress \/ Merge \/ NextQuestion

RankingSpec == RankingInit /\ [][RankingNext]_rankingVars
-----------------------------------------------------------------------------
(* Properties *)

\* a is ranked above b by every list that has b.
Above(a, b, ranked) ==
  /\ \E n \in DOMAIN ranked : b \in ToSet(ranked[n])
  /\ \A n \in DOMAIN ranked : b \in ToSet(ranked[n]) =>
       Place(ranked[n], a) \in 1 .. Place(ranked[n], b) - 1

\* b comes only after a, or after a chunk with the same text as a.
Respects(ranking, a, b) ==
  \A j \in DOMAIN ranking : ranking[j] = b =>
    \E i \in 1 .. j - 1 : TextOf[ranking[i]] = TextOf[a]

\* A chunk that every search ranks above another, and that has as much of a
\* bonus, is not outranked by it, in a query or in the end; whatever one search
\* repeats.
Undominated ==
  /\ at = "rank" => LET ranking == QueryRanking IN
       \A a, b \in Chunks : Above(a, b, Ranked) => Respects(ranking, a, b)
  /\ at = "rerank" =>
       \A a, b \in Chunks :
         Above(a, b, perQuery) /\ Bonus(a) >= Bonus(b) => Respects(fused, a, b)

\* Evidence units do not crowd each other out: whatever the cross-encoder
\* prefers, no unit takes more than two of the places reranking leaves.  The 6
\* places of an aspect give 3 units, the 8 of relationship evidence 4 of its 5.
EveryEvidence ==
  at = "compress" =>
    Len(evidence) >=
      Min({EvidenceLimit, (RerankLimit + 1) \div 2,
           Cardinality({EvidenceOf[c] : c \in ToSet(Expand(fused))})})

\* "so one topic cannot crowd out the others", as far as the sources go: either
\* every aspect that found evidence has some among them, or they speak of as many
\* aspects as there are sources.  Of eight aspects and relationship evidence, one
\* may be left out of MAX_EVIDENCE_SOURCES.
EveryTopic ==
  at = "done" =>
    LET spoken == Covered(sources, about) IN
    \/ \A k \in DOMAIN found : found[k] # <<>> => k \in spoken
    \/ Cardinality(spoken) >= MaxSources

NothingCrowdedOut == EveryEvidence /\ EveryTopic
=============================================================================
