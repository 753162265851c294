-------------------------------- MODULE Lexical --------------------------------
(***************************************************************************)
(* Analyzer.Analyze (internal/analysis/analysis.go): the score of a        *)
(* normalized domain from what its name looks like, and the verdict; and   *)
(* LoadAnalysisConfig (internal/config/analysis.go), which says how much   *)
(* each sign counts.  Ratios are percentages.                              *)
(***************************************************************************)
EXTENDS BrandSpoofing

CONSTANTS
    DefaultAnalysisConfig,  \* a value for each field of AnalysisConfig
    HighEntropy             \* labels whose ShannonEntropy is above the default threshold

Fields == DOMAIN DefaultAnalysisConfig
Unreadable == [error |-> TRUE]

\* A file that cannot be read or parsed gives the defaults.  Of one that can, the
\* fields it does not mention are zero, but for the keywords.
LoadAnalysisConfig(file) ==
    IF file = Unreadable THEN DefaultAnalysisConfig
    ELSE [f \in Fields |->
            IF f \in DOMAIN file THEN file[f]
            ELSE IF f = "keywords" THEN DefaultAnalysisConfig.keywords ELSE 0]

Digits == {"0", "1", "2", "3", "4", "5", "6", "7", "8", "9"}

SumOver(d, Value(_)) == FoldLeft(LAMBDA n, l : n + Value(l), 0, d)
CountIn(l, S) == Cardinality({i \in 1..Len(l) : LetterOf(l, i) \in S})

\* The domain's length in bytes, the dots included.
Length(d) == SumOver(d, Bytes) + Len(d) - 1
Hyphens(d) == SumOver(d, LAMBDA l : CountIn(l, {"-"}))

digitRatioAbove(d, percent) == SumOver(d, LAMBDA l : CountIn(l, Digits)) * 100 > percent * Length(d)

mixedScripts(d) ==
    LET letters == UNION {{LetterOf(d[i], j) : j \in 1..Len(d[i])} : i \in DOMAIN d} \ (Digits \cup {"-"})
    IN  letters \cap DOMAIN Lookalike # {} /\ letters \ DOMAIN Lookalike # {}

InPunycode(d) == \E i \in DOMAIN d : SubSeq(d[i], 1, Min({4, Len(d[i])})) = "xn--"

KeywordCount(d, config) ==
    Cardinality({w \in config.keywords : \E i \in DOMAIN d : Mentions(d[i], w)})

\* suspiciousKeywordStats
KeywordScore(d, config) ==
    LET n == KeywordCount(d, config)
    IN  IF n = 0 THEN 0
        ELSE config.keywordBase + n * config.keywordMatch
               + (IF n >= 2 THEN config.keywordBonus ELSE 0)

isProtectedVietnamPublicServiceAbuse(d) ==
    LET root == getRootDomain(d)
    IN  /\ ~isVietnamGovernmentRoot(d)
        /\ \E i \in DOMAIN root : Mentions(root[i], "dichvucong")

-----------------------------------------------------------------------------
(* The score, in the order of Analyze *)

If(condition, points) == IF condition THEN points ELSE 0

SignsScore(d, config) ==
    If(InPunycode(d), config.punycode)
      + If(Length(d) > config.longLength, config.long)
      + If(Hyphens(d) >= config.hyphens, config.hyphen)
      + If(digitRatioAbove(d, config.digitPercent), config.digit)
      + If(mixedScripts(d), config.mixed)
      + KeywordScore(d, config)

\* Mutant: the floor is only for domains without other signs.
FloorWithoutSigns(d, config) ==
    IF SignsScore(d, config) > 0 THEN SignsScore(d, config)
    ELSE If(isProtectedVietnamPublicServiceAbuse(d), 75)

\* The signs' score, at least 75 for the abuse of a protected name.
FlooredScore(d, config) ==
    Max({SignsScore(d, config), If(isProtectedVietnamPublicServiceAbuse(d), 75)})

Score(d, config) ==
    LET label == getMainLabel(d)
        entropic == /\ Bytes(label) >= 8
                    /\ \/ label \in HighEntropy
                       \/ config.entropyThreshold = 0 /\ \E i \in 1..Len(label) : LetterOf(label, i) # LetterOf(label, 1)
        total == FlooredScore(d, config)
                   + CheckBrandSpoofing(d, config.brandSpoofing).penalty
                   + If(entropic, config.entropy)
    IN  Min({total, 100})

\* Analyze's Verdict.
Verdict(d, config) ==
    LET score == Score(d, config)
    IN  IF score >= 70 THEN "MALICIOUS" ELSE IF score >= 40 THEN "SUSPICIOUS" ELSE "SAFE"

-----------------------------------------------------------------------------
(* What the score promises *)

\* A likeness of a brand alone makes a domain SUSPICIOUS, with the weight the
\* defaults give it, and the abuse of a protected name makes it MALICIOUS, whatever
\* the file leaves out; but a brand's weight below 5 counts against it (brand.go:411).
EvidenceSuffices(d, config) ==
    /\ CheckBrandSpoofing(d, config.brandSpoofing).isSpoof /\ config.brandSpoofing >= 50
         => Verdict(d, config) # "SAFE"
    /\ isProtectedVietnamPublicServiceAbuse(d) /\ config.brandSpoofing >= 5
         => Verdict(d, config) = "MALICIOUS"
=============================================================================
