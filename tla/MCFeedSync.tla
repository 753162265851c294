------------------------------ MODULE MCFeedSync ------------------------------
(* Instances of FeedSync for TLC. *)
EXTENDS FeedSync, TLC

\* Everything that may happen to a run and to the keys.
RunFaults == {"redis", "lostReply", "retry", "source", "oversize", "timeout", "crash",
              "evictFeed", "evictRevision"}

NameSymmetry == Permutations(Names)
=============================================================================
