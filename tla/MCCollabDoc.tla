----------------------------- MODULE MCCollabDoc -----------------------------
(***************************************************************************)
(* Instances of CollabDoc for TLC, and a claim the program makes.          *)
(***************************************************************************)
EXTENDS CollabDoc, TLC

CONSTANTS s1, s2, s3

\* The sessions are alike, and no property tells them apart.
Symmetric == Permutations(Session)

\* Nothing is claimed of what follows once an access was overtaken: TLC checks
\* such a state, and does not go on from it.
Whole == ~torn

\* A document is cleaned up "as no users are left" (socket/main.py:730): while
\* someone uses it, no update that was stored is lost.
UsedDocumentKeepsItsUpdates ==
    [][users # {} /\ users' # {} => Merged(updates) \subseteq Merged(updates')]_vars

=============================================================================
