---------------------------- MODULE RaftLiveness ----------------------------
(***************************************************************************)
(* What nodes that keep running get done.                                  *)
(*                                                                         *)
(* Fairness.  An event loop sleeps until its deadline and is woken: the    *)
(* restore at its top, the election and the heartbeat are weakly fair.  A  *)
(* leader sends to every peer again at every heartbeat, so some request    *)
(* arrives (weakly fair) and, again and again, some answer arrives before  *)
(* the next heartbeat supersedes the RPC (strongly fair).  Nothing is      *)
(* assumed of proposals, votes, faults or compaction.                      *)
(***************************************************************************)
EXTENDS RaftNode

\* Some AppendEntries or InstallSnapshot of l reaches p.
RequestArrives(l, p) ==
    \/ \E m \in net.append_req : m.leader_id = l /\ on_append_entries(p, m)
    \/ \E m \in net.snap_req : m.leader_id = l /\ on_install_snapshot(p, m)

\* Some answer of p reaches l's event loop.
AnswerArrives(l, p) ==
    \/ \E m \in net.append_resp : m.peer = p /\ handle_append_response(l, m)
    \/ \E m \in net.snap_resp : m.peer = p /\ handle_snapshot_response(l, m)

LoopRuns(n) ==
    /\ WF_vars(restore(n))
    /\ WF_vars(start_election(n))
    /\ WF_vars(heartbeat(n))

Fairness ==
    /\ \A n \in Server : LoopRuns(n)
    /\ \A l \in Server : \A p \in Peers(l) :
          WF_vars(RequestArrives(l, p)) /\ SF_vars(AnswerArrives(l, p))

FairSpec == Spec /\ Fairness

\* What a leader and its peers come to: everything proposed in the leader's term
\* is committed and its callers answered, everything committed was handed to the
\* application, and every peer its RPCs reach holds the leader's log and knows
\* what is committed.  Entries of earlier terms wait for the next proposal: a new
\* leader appends nothing of its own.
Settled(l) ==
    /\ \A k \in DOMAIN store[l].entries :
          LET e == store[l].entries[k]
          IN  e.term = sm[l].current_term =>
              /\ e.index <= sm[l].commit_index
              /\ \A w \in pending[l] : w.index # e.index
    /\ sm[l].last_applied = sm[l].commit_index
    /\ \A p \in Peers(l) :
          /\ sm[p].commit_index >= sm[l].commit_index
          /\ \A k \in DOMAIN store[l].entries : Holds(store[p], store[l].entries[k])

\* A cluster of one that keeps running leads, answers every proposal and applies
\* what it commits, although no RPC is ever answered ("no peers -> instantly
\* becomes leader"): its own vote and its own copy are the quorum, and the commit
\* index moves at the heartbeat.
AloneServes ==
    \A n \in Server :
        Server = {n} /\ <>[](phase[n] = "running") =>
            <>[](sm[n].role = "Leader" /\ Settled(n))

\* Under a leader that stays, the walk of next_index back and forth ends with
\* every reachable peer caught up, and every accepted proposal is answered.
StableLeaderSettles ==
    \A l \in Server :
        <>[](sm[l].role = "Leader" /\ phase[l] = "running") => <>[]Settled(l)

=============================================================================
