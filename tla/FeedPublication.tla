--------------------------- MODULE FeedPublication ---------------------------
(***************************************************************************)
(* What feed.Sync promises the readers of the threat feed in Replace mode: *)
(* a run publishes the whole snapshot of its source in one step or not at  *)
(* all, at most once, and raises the revision only for a snapshot it has   *)
(* published.                                                              *)
(***************************************************************************)
EXTENDS Naturals

CONSTANTS Names, Runs

VARIABLES feed, revision, stage, snapshot

pubVars == <<feed, revision, stage, snapshot>>

Init ==
    /\ feed = {}
    /\ revision = 0
    /\ stage = [r \in Runs |-> "idle"]
    /\ snapshot = [r \in Runs |-> {}]

Enter(r, from, to) == stage[r] \in from /\ stage' = [stage EXCEPT ![r] = to]

Begin(r) ==
    /\ Enter(r, {"idle"}, "loading")
    /\ \E S \in SUBSET Names : snapshot' = [snapshot EXCEPT ![r] = S]
    /\ UNCHANGED <<feed, revision>>

\* The caller may be told of a failure although the snapshot is out.
Publish(r) ==
    /\ \E to \in {"published", "failed"} : Enter(r, {"loading"}, to)
    /\ feed' = snapshot[r]
    /\ UNCHANGED <<revision, snapshot>>

Announce(r) ==
    /\ \E to \in {"announced", "failed"} : Enter(r, {"published"}, to)
    /\ revision' \in {revision + 1, revision + 2}
    /\ UNCHANGED <<feed, snapshot>>

\* Only a run that has announced its snapshot may end without a failure.
End(r) ==
    /\ \/ /\ Enter(r, {"idle", "loading", "published", "announced"}, "failed")
          /\ UNCHANGED snapshot
       \/ /\ Enter(r, {"announced", "failed"}, "idle")
          /\ snapshot' = [snapshot EXCEPT ![r] = {}]
    /\ UNCHANGED <<feed, revision>>

\* The process that runs r dies.
Die(r) ==
    /\ Enter(r, {"loading", "published", "announced", "failed"}, "idle")
    /\ snapshot' = [snapshot EXCEPT ![r] = {}]
    /\ UNCHANGED <<feed, revision>>

\* Redis evicts one of the keys.
LoseFeed == feed' = {} /\ UNCHANGED <<revision, stage, snapshot>>
LoseRevision == revision' = 0 /\ UNCHANGED <<feed, stage, snapshot>>

Next ==
    \/ \E r \in Runs : Begin(r) \/ Publish(r) \/ Announce(r) \/ End(r) \/ Die(r)
    \/ LoseFeed
    \/ LoseRevision

Spec == Init /\ [][Next]_pubVars
=============================================================================
