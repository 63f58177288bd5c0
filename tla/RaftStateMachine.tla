-------------------------- MODULE RaftStateMachine --------------------------
(***************************************************************************)
(* iceraft-node/src/state.rs: the in-memory Raft state of one node and its *)
(* role transitions.  A state is a record with the fields of the struct    *)
(* RaftStateMachine.                                                       *)
(*                                                                         *)
(* progress (a HashMap) is a function on Server; a peer that is not in the *)
(* map has next_index 0, which no present peer ever has.  in_flight is     *)
(* left out: it is written FALSE everywhere and read nowhere.              *)
(***************************************************************************)
EXTENDS Integers, FiniteSets

CONSTANTS
    Server,   \* the members of the cluster (NodeId)
    None      \* Option::None for a NodeId

Absent == [next_index |-> 0, match_index |-> 0]

\* RaftStateMachine::new
new_state == [
    current_term   |-> 0,
    voted_for      |-> None,
    role           |-> "Follower",
    commit_index   |-> 0,
    last_applied   |-> 0,
    leader_id      |-> None,
    progress       |-> [p \in Server |-> Absent],
    votes_received |-> {}]

\* Slip: a step-down starts over from a fresh state.
FreshFollower(s, t, leader) ==
    [new_state EXCEPT !.current_term = t, !.leader_id = leader]

become_follower(s, t, leader) ==
    [s EXCEPT !.role = "Follower",
              !.current_term = t,
              !.voted_for = None,
              !.leader_id = leader,
              !.votes_received = {},
              !.progress = [p \in Server |-> Absent]]

\* Slip: the leader of the past term is kept.
KeepsLeader(s, self) ==
    [s EXCEPT !.current_term = @ + 1,
              !.role = "Candidate",
              !.voted_for = self,
              !.votes_received = {self}]

become_candidate(s, self) ==
    [s EXCEPT !.current_term = @ + 1,
              !.role = "Candidate",
              !.voted_for = self,
              !.leader_id = None,
              !.votes_received = {self}]

become_leader(s, self, last) ==
    [s EXCEPT !.role = "Leader",
              !.leader_id = self,
              !.progress = [p \in Server |->
                  IF p = self THEN Absent
                  ELSE [next_index |-> last + 1, match_index |-> 0]]]

\* Slip: half of the cluster is taken for a majority.
HalfQuorum == (Cardinality(Server) - 1 + 1) \div 2

\* RaftConfig::quorum, from the number of peers.
quorum == (Cardinality(Server) - 1 + 1) \div 2 + 1

\* Slip: next_index is read where match_index is meant.
SentTo(s, i) ==
    Cardinality({p \in Server : s.progress[p].next_index >= i}) + 1

\* How many nodes, the leader included, are known to hold index i.
replicated(s, i) ==
    Cardinality({p \in Server : s.progress[p].match_index >= i}) + 1

=============================================================================
