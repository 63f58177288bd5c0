----------------------------- MODULE MCSlowVotes -----------------------------
(* Three event loops and votes that may be late, for as many terms as MaxTerm. *)
EXTENDS SlowVotes, TLC

CONSTANTS MaxTerm, n1, n2, n3

\* The ends of a chain only reach its middle.
Chain == {<<n1, n2>>, <<n2, n1>>, <<n2, n3>>, <<n3, n2>>}

AllElections == Server \X (1 .. MaxTerm)

Symmetry == {f \in Permutations(Server) : f[n2] = n2}

\* Two states have the same future when they differ in what no action reads (the
\* heartbeat deadline of a follower, which is set anew before it can lead, and
\* unheard), in votes no longer awaited, and in answers that find the logs empty and
\* the term known.
View == <<sm, store, leaders, election_deadline, wake, awaited,
          [n \in Server |-> IF sm[n].role = "Follower" THEN 0 ELSE heartbeat_deadline[n]],
          net.append_req, net.vote_req,
          {m \in net.vote_resp :
              \/ m.term > sm[m.to].current_term
              \/ m.vote_granted /\ InTime(m)},
          {m \in net.append_resp : m.term > sm[m.to].current_term}>>

=============================================================================
