---------------------------- MODULE MCAppManager ----------------------------
(* Small application frameworks for TLC.                                     *)
EXTENDS AppManager

CONSTANTS main, t

MCMaxCalls == [c \in Clients |-> IF c = main THEN 3 ELSE 2]
MCTwoCalls == [c \in Clients |-> 3]

\* See AppManager: a handle that the manager keeps is one of a live application,
\* which can be sent to, and no application runs that it has no handle of.
ManagerKnowsApps == TypeOK /\ HandlesAreUsable /\ NoOrphan
=============================================================================
