--------------------------- MODULE RaftRefinement ---------------------------
(***************************************************************************)
(* RaftNode implements the abstract election and the abstract log storage. *)
(***************************************************************************)
EXTENDS RaftNode

\* An election is made of what is durable: the term on storage, the votes granted.
Election == INSTANCE LeaderElection WITH
    terms   <- [n \in Server |-> store[n].hard_state.term],
    votes   <- votes,
    leaders <- leaders

\* Every vote is cast in the voter's durable term, once, and every leader holds
\* a majority of its term, whatever RPCs, restarts and step-downs do in between.
ImplementsElection == Election!Spec

\* The log a store holds: the entries of its vector, after its snapshot.
Log == INSTANCE LogStorage WITH
    base <- [n \in Server |-> store[n].snapshot.last_included_index],
    held <- [n \in Server |-> {store[n].entries[k] : k \in DOMAIN store[n].entries}]

\* The vector, addressed by offset from the snapshot, is a log addressed by
\* index: appends replace a suffix and leave no gap, snapshots only move on and
\* take exactly the entries they cover.
ImplementsStorage == Log!Spec

=============================================================================
