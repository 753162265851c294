------------------------------- MODULE MCWhitelist -------------------------------
(* Instance of Whitelist for TLC. *)
EXTENDS Whitelist

\* Two processes, each with one reader; the filters have the sizes NewBloomFilter
\* computes, the domains the FNV-1a halves of their names, modulo the filters'
\* sizes.  nhac.vn is a false positive of the filter of the other two.
MCHome == [r \in {"inApi", "inResolver"} |-> IF r = "inApi" THEN "core-api" ELSE "dns-resolver"]
MCSuffixes == [d \in {"shop.vn", "m.shop.vn", "nhac.vn"} |->
                 IF d = "m.shop.vn" THEN <<"m.shop.vn", "shop.vn">> ELSE <<d>>]
MCSize == <<16, 24, 32>>
MCHashes == <<11, 8, 7>>
MCH1 == [d \in DOMAIN MCSuffixes |-> CASE d = "shop.vn" -> 37 [] d = "m.shop.vn" -> 84 [] OTHER -> 91]
MCH2 == [d \in DOMAIN MCSuffixes |-> CASE d = "shop.vn" -> 27 [] d = "m.shop.vn" -> 71 [] OTHER -> 36]
=============================================================================
