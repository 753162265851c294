---------------------------- MODULE MCClientPolicy ----------------------------
(* A tablet known by its ID, its address and the network it is in, asks for a *)
(* whitelisted domain and for its parent, which is not on the whitelist.       *)
EXTENDS ClientPolicy, TLC

MCDirect == [c \in {"tablet"} |-> <<"tabletId", "tabletIp">>]
MCRangesOf == [c \in {"tablet"} |-> {"home"}]
MCRangeOrder == <<"home">>
MCLine == [d \in {"www.shop.example", "shop.example"} |->
             IF d = "shop.example" THEN <<d>> ELSE <<d, "shop.example">>]
MCThreats == [d \in DOMAIN MCLine |-> {{"malware"}, {"ads"}}]
MCSymmetry == Permutations(Admins)
MCSettings == {{"malware"}, {"ads"}}
=============================================================================
