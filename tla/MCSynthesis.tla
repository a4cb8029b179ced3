----------------------------- MODULE MCSynthesis -----------------------------
EXTENDS Synthesis

MCMaturity == [c \in Capabilities |-> CASE c = "c1" -> 3 [] c = "c2" -> 1]

\* A lens that runs again may drop a record, of either kind.
MCCorpora == {LensFindings \cup Capabilities, {"f1", "f2", "c1", "c2"}, {"f1", "f3", "c1"}}

Merge(m) == [kind |-> "merge", members |-> m]
Link(m) == [kind |-> "link", members |-> m]
Separate(m) == [kind |-> "separate", members |-> m]
Stale(f, c) == [finding |-> f, capability |-> c, classification |-> "stale"]
Compatible(f, c) == [finding |-> f, capability |-> c, classification |-> "compatible"]

\* One merge of each kind; merges that share a member; a merge of both kinds beside a
\* good one; a group named in part twice; groups kept apart; nothing to decide.
MCDecisionLists ==
    { <<Merge(<<"f1", "f2">>), Merge(<<"c2", "c1">>)>>,
      <<Merge(<<"f2", "f3">>), Merge(<<"f1", "f2", "f3">>)>>,
      <<Merge(<<"f1", "c1">>), Merge(<<"f3", "f1">>)>>,
      <<Merge(<<"c1", "c1">>), Merge(<<"c1", "c2">>)>>,
      <<Link(<<"f1", "c2">>), Separate(<<"f2", "f3">>)>>,
      <<>> }

MCVerdictLists ==
    { <<Stale("f1", "c1"), Stale("f2", "c1")>>,
      <<Compatible("f1", "c1"), Stale("f3", "c2"), Stale("f1", "c2")>>,
      <<Stale(NoId, "c1"), Stale("f1", NoId), Stale("f2", "c1")>>,
      <<>> }
=============================================================================
