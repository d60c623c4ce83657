-------------------------- MODULE SessionRegistry --------------------------
(***************************************************************************)
(* What the registry of sessions promises, whatever the commands it is     *)
(* made of: a session is taken out by its own end, or by a cleaner once it *)
(* has been silent for too long; a session that has ended is never entered *)
(* again; and where the deployment can be trusted to keep a lock for as    *)
(* long as its cleaner runs, one node cleans at a time.                    *)
(***************************************************************************)
CONSTANTS Sessions, Nodes

VARIABLES
    pool,      \* the sessions in the registry
    silent,    \* those that have once been silent for too long
    gone,      \* those that have ended
    cleaning,  \* the nodes that clean
    trusted    \* whether a lock outlasts its cleaner's round

registryVars == <<pool, silent, gone, cleaning, trusted>>

RegistryInit ==
    /\ pool = {} /\ silent = {} /\ gone = {} /\ cleaning = {}
    /\ trusted \in BOOLEAN

Enter(s) ==
    /\ s \notin gone
    /\ pool' = pool \cup {s}
    /\ UNCHANGED <<silent, gone, cleaning, trusted>>

Leave(s) ==
    /\ pool' = pool \ {s}
    /\ gone' = gone \cup {s}
    /\ UNCHANGED <<silent, cleaning, trusted>>

FallSilent(S) ==
    /\ S \subseteq pool
    /\ silent' = silent \cup S
    /\ UNCHANGED <<pool, gone, cleaning, trusted>>

Reap(s) ==
    /\ cleaning # {}
    /\ s \in silent
    /\ pool' = pool \ {s}
    /\ UNCHANGED <<silent, gone, cleaning, trusted>>

BeginCleaning(n) ==
    /\ trusted => cleaning = {}
    /\ cleaning' = cleaning \cup {n}
    /\ UNCHANGED <<pool, silent, gone, trusted>>

EndCleaning(n) ==
    /\ cleaning' = cleaning \ {n}
    /\ UNCHANGED <<pool, silent, gone, trusted>>

\* A node dies with its sessions, and leaves what they entered behind.
Die(n, S) ==
    /\ cleaning' = cleaning \ {n}
    /\ gone' = gone \cup S
    /\ UNCHANGED <<pool, silent, trusted>>

RegistryNext ==
    \/ \E s \in Sessions : Enter(s) \/ Leave(s) \/ Reap(s)
    \/ \E n \in Nodes : BeginCleaning(n) \/ EndCleaning(n)
    \/ \E S \in SUBSET Sessions : FallSilent(S) \/ \E n \in Nodes : Die(n, S)

RegistrySpec == RegistryInit /\ [][RegistryNext]_registryVars

=============================================================================
