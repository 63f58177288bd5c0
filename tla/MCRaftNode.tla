----------------------------- MODULE MCRaftNode -----------------------------
(* RaftNode, its refinements, loops and liveness on up to three nodes.     *)
EXTENDS RaftRefinement, RaftLoops, RaftLiveness, TLC

CONSTANTS n1, n2, n3

FullMesh == Server \X Server

\* n1 and n3 only reach n2.
Chain == {<<n1, n2>>, <<n2, n1>>, <<n2, n3>>, <<n3, n2>>}

\* n3 is cut off.
Pair == {<<n1, n2>>, <<n2, n1>>}

\* Two nodes contend for both terms.
TwoContenders == {n1, n2} \X {1, 2}

\* Leadership goes from n1 to n2 and back.
BackAndForth == {<<n1, 1>>, <<n2, 2>>, <<n1, 3>>}

\* The two ends of a chain take turns.
Alternating == {<<n1, 1>>, <<n3, 1>>, <<n3, 2>>, <<n1, 3>>, <<n3, 4>>}

\* The middle of a chain leads, loses the lead and regains it.
MiddleFirst == {<<n2, 1>>, <<n1, 2>>}

\* n1 leads twice.
Reelection == {<<n1, 1>>, <<n1, 2>>}

\* A node leads three times.
ThreeTerms == Server \X (1 .. 3)

\* The middle of a chain leads all along.
OneLeader == {<<n2, 1>>}

\* Nodes are interchangeable as long as elections and faulty nodes are mapped
\* to elections and faulty nodes; commands always are.
Symmetry ==
    {f \in Permutations(Server) :
        /\ {<<f[e[1]], e[2]>> : e \in Elections} = Elections
        /\ {f[n] : n \in Faulty} = Faulty
        /\ {<<f[l[1]], f[l[2]]>> : l \in Links} = Links}
    \cup Permutations(Command)

\* An answer that no action will ever accept again, or only to ignore it: the
\* loop it was sent to is gone or, without late responses, its receiver is past
\* its term.
Dead(m) ==
    \/ phase[m.to] = "stopped"
    \/ m.incarnation < incarnation[m.to]
    \/ ~LateResponses /\ phase[m.to] = "running" /\ m.term < sm[m.to].current_term

\* ... or it is a vote and its receiver no longer counts votes of that term.
DeadVote(m) ==
    \/ Dead(m)
    \/ /\ ~LateResponses /\ phase[m.to] = "running"
       /\ m.term = sm[m.to].current_term
       /\ ~m.vote_granted \/ sm[m.to].role # "Candidate"

\* States that differ in dead answers only have the same future.
View == <<sm, store, pending, phase, incarnation, applied, acked, proposed,
          votes, leaders, committed,
          [net EXCEPT !.vote_resp   = {m \in @ : ~DeadVote(m)},
                      !.append_resp = {m \in @ : ~Dead(m)},
                      !.snap_resp   = {m \in @ : ~Dead(m)}]>>

=============================================================================
