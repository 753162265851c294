----------------------------- MODULE BrandSpoofing -----------------------------
(***************************************************************************)
(* CheckBrandSpoofing (internal/analysis/brand.go): is a domain made to    *)
(* look like one of a list of brands?  A domain is the sequence of its     *)
(* labels, a label a string of letters; costs and distances of the         *)
(* weighted edit distance are counted in halves.                           *)
(***************************************************************************)
EXTENDS Integers, SequencesExt

CONSTANTS
    TrustedBrands,    \* sequence of brands: name, official (its root domains)
    Lookalike,        \* homoglyphMap: letters outside ASCII, and what they look like
    Adjacent,         \* keyboardAdjacency: the neighbours of a letter
    SuspiciousTLDs,
    DecodedLabel      \* idna.ToUnicode: labels in Punycode, and what they encode

LetterOf(s, i) == SubSeq(s, i, i)
Indexes(s) == [i \in 1..Len(s) |-> i]
Mentions(s, name) == \E i \in 1..(Len(s) - Len(name) + 1) : SubSeq(s, i, i + Len(name) - 1) = name
MapLabels(Op(_), d) == [i \in DOMAIN d |-> Op(d[i])]

\* len of a string, in bytes: the letters outside ASCII take two.
Bytes(s) == Len(s) + Cardinality({i \in 1..Len(s) : LetterOf(s, i) \in DOMAIN Lookalike})

-----------------------------------------------------------------------------
(* Edit distances *)

Min3(a, b, c) == Min({a, b, c})

\* Mutant: the entry is kept for the next step after it has been overwritten.
LateKey(state, x, y, unit, cost) ==
    LET new == [state.column EXCEPT ![y] = Min3(@ + unit, state.column[y - 1] + unit,
                                                state.lastkey + cost[y][x])]
    IN  [column |-> new, lastkey |-> new[y]]

\* One turn of the inner loop: entry y of the column goes from s2's first x - 1
\* letters to its first x, and is kept for the next step.
Overwrite(state, x, y, unit, cost) ==
    [column |-> [state.column EXCEPT ![y] = Min3(@ + unit, state.column[y - 1] + unit,
                                                 state.lastkey + cost[y][x])],
     lastkey |-> state.column[y]]

\* One turn of the outer loop, over the n letters of s1.
Turn(column, n, x, unit, cost) ==
    LET after[y \in DOMAIN column] ==
            IF y = 0 THEN [column |-> [column EXCEPT ![0] = x * unit], lastkey |-> (x - 1) * unit]
            ELSE Overwrite(after[y - 1], x, y, unit, cost)
    IN  after[n].column

\* Of strings of n and m letters, where cost[y][x] is that of the one's y-th letter
\* for the other's x-th, and unit that of a letter too many or too few.
EditDistance(n, m, unit, cost) ==
    LET column[x \in 0..m] ==
            IF x = 0 THEN [y \in 0..n |-> y * unit] ELSE Turn(column[x - 1], n, x, unit, cost)
    IN  IF n = 0 THEN m * unit ELSE IF m = 0 THEN n * unit ELSE column[m][n]

EditCosts(s1, s2) ==
    [y \in 1..Len(s1) |-> [x \in 1..Len(s2) |-> IF LetterOf(s1, y) = LetterOf(s2, x) THEN 0 ELSE 1]]

LevenshteinDistance(s1, s2) == EditDistance(Len(s1), Len(s2), 1, EditCosts(s1, s2))

Neighbours(a, b) == a \in DOMAIN Adjacent /\ Mentions(Adjacent[a], b)

\* A letter for its neighbour on the keyboard costs half an edit.
KeyboardCost(a, b) ==
    IF a = b THEN 0
    ELSE IF Neighbours(a, b) \/ Neighbours(b, a) THEN 1 ELSE 2

KeyboardCosts(s1, s2) ==
    [y \in 1..Len(s1) |-> [x \in 1..Len(s2) |-> KeyboardCost(LetterOf(s1, y), LetterOf(s2, x))]]

WeightedLevenshteinDistance(s1, s2) == EditDistance(Len(s1), Len(s2), 2, KeyboardCosts(s1, s2))

-----------------------------------------------------------------------------
(* Domains *)

DoubleTLDs == {"com", "co", "net", "org", "gov", "edu", "ac"}

\* The registrable part of a domain.
getRootDomain(d) ==
    LET n == Len(d) IN
    IF n <= 2 THEN d
    ELSE IF d[n - 1] \in DoubleTLDs /\ Bytes(d[n]) = 2 THEN SubSeq(d, n - 2, n)
    ELSE SubSeq(d, n - 1, n)

getMainLabel(d) == getRootDomain(d)[1]

isVietnamGovernmentRoot(root) == IsSuffix(<<"gov", "vn">>, root)

ToUnicode(d) ==
    MapLabels(LAMBDA l : IF l \in DOMAIN DecodedLabel THEN DecodedLabel[l] ELSE l, d)

SkeletonOf(l) ==
    FoldLeft(LAMBDA s, i : s \o (IF LetterOf(l, i) \in DOMAIN Lookalike
                                 THEN Lookalike[LetterOf(l, i)] ELSE LetterOf(l, i)),
             "", Indexes(l))

ToSkeleton(d) == MapLabels(SkeletonOf, d)

-----------------------------------------------------------------------------
(* The checks *)

\* Mutant: only the very names of the list are official.
IsOfficialName(brand, d) == d \in brand.official

IsOfficial(brand, d) == getRootDomain(d) \in brand.official

\* The labels the typosquatting check looks at: whatever equals the last label is
\* left out, and what equals the last but one if it is of a double TLD.
Examined(d) ==
    LET n == Len(d) IN
    {i \in 1..n : /\ n > 1 => d[i] # d[n]
                  /\ ~(n > 2 /\ d[i] = d[n - 1] /\ d[i] \in DoubleTLDs)}

\* Label i of d is a likeness of the brand's name: the same to the eye, or a few
\* edits away.  Names of three letters are like too many labels.
Typosquatting(brand, d, i) ==
    LET skeleton == ToSkeleton(ToUnicode(d))
        weighted == WeightedLevenshteinDistance(skeleton[i], brand.name)
        classic == LevenshteinDistance(skeleton[i], brand.name)
    IN  /\ Min({Bytes(brand.name), Bytes(skeleton[i])}) >= 4
        /\ \/ /\ skeleton[i] = brand.name /\ d[i] # brand.name
              /\ skeleton # ToUnicode(d)
           \/ weighted > 0 /\ weighted <= 3
           \/ classic > 0 /\ classic <= 2

KeywordMention(brand, d) ==
    \/ \E i \in DOMAIN getRootDomain(d) : Mentions(getRootDomain(d)[i], brand.name)
    \/ LET root == ToSkeleton(getRootDomain(ToUnicode(d)))
       IN  \E i \in DOMAIN root : Mentions(root[i], brand.name)

SubdomainAbuse(brand, d) ==
    \E i \in 1..(Len(d) - Len(getRootDomain(d))) :
        \/ Mentions(d[i], brand.name)
        \/ Mentions(ToSkeleton(ToUnicode(d))[i], brand.name)

\* What one brand's turn of the loop finds.
FoundFor(brand, d) ==
    IF IsOfficial(brand, d) THEN "nothing"
    ELSE IF \E i \in Examined(d) : Typosquatting(brand, d, i) THEN "typosquatting"
    ELSE IF KeywordMention(brand, d) THEN "keyword"
    ELSE IF SubdomainAbuse(brand, d) THEN "subdomain"
    ELSE "nothing"

TldPenalty(d) ==
    LET root == getRootDomain(d)
    IN  IF Len(root) > 1 /\ Last(root) \in SuspiciousTLDs THEN 20 ELSE 0

NoSpoof == [isSpoof |-> FALSE, brand |-> "", penalty |-> 0]

\* The brand whose turn ends the loop, or 0.
FirstBrand(d) == SelectInSeq(TrustedBrands, LAMBDA b : FoundFor(b, d) # "nothing")

CheckBrandSpoofing(d, brandSpoofingScore) ==
    IF isVietnamGovernmentRoot(getRootDomain(d)) \/ FirstBrand(d) = 0 THEN NoSpoof
    ELSE LET brand == TrustedBrands[FirstBrand(d)]
         IN  [isSpoof |-> TRUE,
              brand |-> brand.name,
              penalty |-> brandSpoofingScore + TldPenalty(d)
                            - (IF FoundFor(brand, d) = "subdomain" THEN 10 ELSE 0)]
-----------------------------------------------------------------------------
(* What the checks promise *)

\* The least cost of turning one string into the other, by definition.
LeastCost(n, m, unit, cost) ==
    LET least[p \in (0..n) \X (0..m)] ==
            LET i == p[1]
                j == p[2]
            IN  IF i = 0 THEN j * unit
                ELSE IF j = 0 THEN i * unit
                ELSE Min3(least[<<i - 1, j>>] + unit, least[<<i, j - 1>>] + unit,
                          least[<<i - 1, j - 1>>] + cost[i][j])
    IN  least[<<n, m>>]

Beginning(s) == SubSeq(s, 1, Min({5, Len(s)}))

\* The distances computed between labels of d and brands, as far as the first five
\* letters (bound), are the least costs.
DistancesAreLeast(d) ==
    \A i \in DOMAIN d, k \in DOMAIN TrustedBrands :
        LET s1 == Beginning(SkeletonOf(ToUnicode(d)[i]))
            s2 == Beginning(TrustedBrands[k].name)
        IN  /\ LevenshteinDistance(s1, s2) = LeastCost(Len(s1), Len(s2), 1, EditCosts(s1, s2))
            /\ WeightedLevenshteinDistance(s1, s2) = LeastCost(Len(s1), Len(s2), 2, KeyboardCosts(s1, s2))

\* A domain is never reported as a likeness of a brand it belongs to, only of one
\* that a label of it resembles.
OwnersPass(d, finding) ==
    finding.isSpoof =>
        \E k \in DOMAIN TrustedBrands :
            /\ TrustedBrands[k].name = finding.brand
            /\ getRootDomain(d) \notin TrustedBrands[k].official
            /\ \E i \in DOMAIN d :
                  LET l == SkeletonOf(ToUnicode(d)[i])
                  IN  Mentions(l, finding.brand) \/ LevenshteinDistance(l, finding.brand) <= 3

\* What is reported of a site is reported of its hosts, whatever they are called.
HostsFollow(d, finding) ==
    Len(d) > 1 /\ finding.isSpoof =>
        \A host \in {"www", "vn", finding.brand} : CheckBrandSpoofing(<<host>> \o d, 0).isSpoof
=============================================================================
