--------------------------- MODULE MCSessionPool ---------------------------
(***************************************************************************)
(* Instances of SessionPool for TLC, and a claim the program makes.        *)
(***************************************************************************)
EXTENDS SessionPool

\* socket/main.py:180: the cleaner reaps "orphaned SESSION_POOL entries that
\* missed heartbeats (e.g. crashed instance)": whatever a session left behind is
\* reaped in a deployment that always has a node up and is never held up.
EveryOrphanIsReaped ==
    \A s \in Sessions :
        timely /\ Orphan(s) ~> (~Orphan(s) \/ \A n \in Nodes : cleaner[n] = "off")

=============================================================================
