------------------------ MODULE MCPageViewAggregator ------------------------
(* Instances of PageViewAggregator for TLC.                                *)
EXTENDS PageViewAggregator

\* Every mixture of valid and invalid messages.
AllLogs == [Offsets -> Kinds]

\* One invalid message before, between or after the valid ones.
MixedLogs ==
    {l \in AllLogs : \E o \in Offsets : \A p \in Offsets : (l[p] = "bad") <=> (p = o)}
=============================================================================
