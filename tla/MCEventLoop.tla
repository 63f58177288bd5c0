----------------------------- MODULE MCEventLoop -----------------------------
(* The event loops of a cluster of three, for as many terms as MaxTerm.    *)
EXTENDS EventLoop, TLC

CONSTANT MaxTerm

FullMesh == Server \X Server

AllElections == Server \X (1 .. MaxTerm)

Symmetry == Permutations(Server)

\* Two states have the same future when they differ in what no action reads: the
\* history variables, what was applied and answered, and the heartbeat deadline of
\* a follower, which is set anew before it can lead.
View == <<sm, store, net, pending, proposed, election_deadline, wake, unheard,
          [n \in Server |-> IF sm[n].role = "Follower" THEN 0 ELSE heartbeat_deadline[n]]>>

=============================================================================
