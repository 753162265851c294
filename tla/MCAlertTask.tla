------------------------------ MODULE MCAlertTask ------------------------------
(* Instance of AlertTask for TLC: some of the brands, in the source's order, with *)
(* the tables of brand.go and the defaults of config/analysis.go.  Capital        *)
(* letters stand for the Cyrillic ones that look like the small Latin ones.       *)
EXTENDS AlertTask

Brand(name, official) == [name |-> name, official |-> official]

MCBrands ==
    <<Brand("google", {<<"google", "com">>, <<"google", "com", "vn">>}),
      Brand("paypal", {<<"paypal", "com">>, <<"paypal", "me">>}),
      Brand("apple", {<<"apple", "com">>, <<"icloud", "com">>}),
      Brand("vtv", {<<"vtv", "vn">>}),
      Brand("vietcombank", {<<"vietcombank", "com", "vn">>, <<"vietcombank", "com">>}),
      Brand("mbbank", {<<"mbbank", "com", "vn">>, <<"mbbank", "com">>}),
      Brand("vpbank", {<<"vpbank", "com", "vn">>, <<"vpbank", "com">>}),
      Brand("acb", {<<"acb", "com", "vn">>, <<"acb", "com">>}),
      Brand("tpbank", {<<"tpb", "vn">>, <<"tpbank", "com", "vn">>}),
      Brand("scb", {<<"scb", "com", "vn">>})>>

MCVietnam == {"vtv", "vietcombank", "mbbank", "vpbank", "acb", "tpbank", "scb"}

MCLookalike == [A |-> "a", B |-> "b", C |-> "c", E |-> "e", I |-> "i", O |-> "o", P |-> "p", T |-> "t"]

MCAdjacent ==
    [a |-> "qwsz", b |-> "vghn", c |-> "xdfv", d |-> "ersfxc", e |-> "wsdr34", f |-> "rtgvcd",
     g |-> "tyhbvf", h |-> "yujnbg", i |-> "ujko89", j |-> "uikmnh", k |-> "ijlm09", l |-> "okp",
     m |-> "njk", n |-> "bhjm", o |-> "iklp90", p |-> "ol0", q |-> "w12a", r |-> "edft45",
     s |-> "wedxza", t |-> "rfgy56", u |-> "yhji78", v |-> "cfgb", w |-> "qase23", x |-> "zsdc",
     y |-> "tghu67", z |-> "asx"]

MCDecoded == [l \in {"xn--ggle-55da"} |-> "gOOgle"]

MCDefaults ==
    [punycode |-> 35, longLength |-> 24, long |-> 15, hyphens |-> 3, hyphen |-> 10,
     digitPercent |-> 25, digit |-> 10, mixed |-> 25,
     keywords |-> {"login", "secure", "verify", "account", "update", "support", "wallet",
                   "dichvucong", "congan", "vneid", "phatnguoi", "xulyphat", "nganhang",
                   "xacthuc", "cungcap"},
     keywordBase |-> 15, keywordMatch |-> 10, keywordBonus |-> 10,
     brandSpoofing |-> 50, entropyThreshold |-> 39, entropy |-> 15]

\* A file that sets one field, and one that sets another.
MCFiles == {Unreadable, [f \in {"brandSpoofing"} |-> 50], [f \in {"punycode"} |-> 60]}

MCSubjects ==
    {<<"google", "com">>, <<"support", "google", "com", "vn">>, <<"googel", "com">>,
     <<"www", "goofle", "com">>, <<"xn--ggle-55da", "com">>, <<"gOOgle", "net">>,
     <<"login-paypal-verify", "com">>, <<"paypal", "secure-login-verify", "com">>,
     <<"google", "vietconbank", "com", "vn">>, <<"vietcombank", "xyz">>,
     <<"support", "vietcombank", "com", "vn">>, <<"mbbank", "com", "vn">>, <<"tpb", "vn">>,
     <<"scb", "com", "vn">>, <<"paypal", "mbbank", "com", "vn">>,
     <<"vtv", "dichvucong-vn", "com">>, <<"vtv", "dichvucong", "gov", "vn">>,
     <<"pine", "com">>, <<"qweasdzxc1234lkjh", "info">>, <<"appIe">>}
=============================================================================
