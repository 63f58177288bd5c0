---------------------------- MODULE ElectionProofs ----------------------------
(***************************************************************************)
(* The safety of elections in RaftNode, for every cluster.                 *)
(*                                                                         *)
(* The argument follows the vote: it is saved before it is answered        *)
(* (HardStateSync), so the storage of a node knows its last vote           *)
(* (VotesRecorded), so a node votes once per term; a candidate counts      *)
(* votes that were really granted to it in its term (VotesCounted), so a   *)
(* leader has the votes of a majority, and two majorities share a voter.   *)
(***************************************************************************)
EXTENDS RaftNodeTypeProofs

\* The node's memory and its storage agree on term, vote and commit.
Synced(n) == store[n].hard_state = hard_state_of(sm[n])

-----------------------------------------------------------------------------
(* Most steps do not concern elections: they leave term, vote and role of  *)
(* the node they run on alone, or move it to a higher term as a follower.  *)

\* Term, vote and role stay, and a commit index that moved is saved.
QuietNode(n) ==
    /\ sm'[n].current_term = sm[n].current_term
    /\ sm'[n].voted_for = sm[n].voted_for
    /\ sm'[n].role = sm[n].role
    /\ sm'[n].votes_received = sm[n].votes_received
    /\ \/ /\ phase[n] # "starting" \/ ServeBeforeRestore
          /\ store'[n].hard_state = hard_state_of(sm'[n])
       \/ /\ store'[n].hard_state = store[n].hard_state
          /\ sm'[n].commit_index = sm[n].commit_index

\* The node sees a higher term, steps down and saves that.
HigherNode(n) ==
    /\ phase[n] # "starting" \/ ServeBeforeRestore
    /\ sm'[n].current_term > sm[n].current_term
    /\ sm'[n].voted_for = None
    /\ sm'[n].role = "Follower"
    /\ store'[n].hard_state = hard_state_of(sm'[n])

\* The other nodes do not move.
OthersStay(n) ==
    \A p \in Server \ {n} : sm'[p] = sm[p] /\ store'[p].hard_state = store[p].hard_state

Calm(n) ==
    /\ UNCHANGED <<phase, incarnation, votes, leaders>>
    /\ \A m \in net'.vote_resp : m.vote_granted => m \in net.vote_resp
    /\ OthersStay(n)
    /\ QuietNode(n) \/ HigherNode(n)

\* A step that writes one node's state and storage.
LEMMA NodeUpdate ==
    ASSUME TypeInv, NEW n \in Server, NEW z, NEW y,
           sm' = [sm EXCEPT ![n] = z], store' = [store EXCEPT ![n] = y]
    PROVE  sm'[n] = z /\ store'[n] = y /\ OthersStay(n)
<1>1. sm \in [Server -> StateMachine] /\ store \in [Server -> Store]
  BY DEF TypeInv, TypeOK
<1> QED  BY <1>1 DEF OthersStay

\* ... and the commonest case, a step that writes the storage's log only.
LEMMA StoreOnly ==
    ASSUME TypeInv, NEW n \in Server, NEW y, y.hard_state = store[n].hard_state,
           sm' = sm, store' = [store EXCEPT ![n] = y]
    PROVE  OthersStay(n) /\ QuietNode(n)
<1>1. sm \in [Server -> StateMachine] /\ store \in [Server -> Store]
  BY DEF TypeInv, TypeOK
<1> QED  BY <1>1 DEF OthersStay, QuietNode

\* A node that does not move at all.
LEMMA NothingMoves ==
    ASSUME NEW n \in Server, sm' = sm, store' = store
    PROVE  OthersStay(n) /\ QuietNode(n)
BY DEF OthersStay, QuietNode

\* become_follower takes the term and forgets the vote.
LEMMA FollowerFields ==
    ASSUME NEW s \in StateMachine, NEW t, NEW l
    PROVE  /\ become_follower(s, t, l).current_term = t
           /\ become_follower(s, t, l).voted_for = None
           /\ become_follower(s, t, l).role = "Follower"
           /\ become_follower(s, t, l).commit_index = s.commit_index
BY DEF become_follower, StateMachine

\* "Step down if we see a higher term": either the request's term is not higher
\* and nothing changes, or the node follows it and has saved that.
LEMMA ObserveCases ==
    ASSUME NEW s \in StateMachine, NEW st \in Store, NEW t \in Nat, NEW l \in Sender \cup {None}
    PROVE  \/ /\ t <= s.current_term
              /\ Observe(s, t, l) = s /\ ObserveStore(st, s, t, l) = st
           \/ /\ t > s.current_term
              /\ Observe(s, t, l).current_term = t
              /\ Observe(s, t, l).voted_for = None
              /\ Observe(s, t, l).role = "Follower"
              /\ ObserveStore(st, s, t, l).hard_state = hard_state_of(Observe(s, t, l))
<1>1. s.current_term \in Nat
  BY DEF StateMachine
<1>2. CASE t > s.current_term
  <2>1. Observe(s, t, l) = become_follower(s, t, l)
    BY <1>2 DEF Observe
  <2>2. ObserveStore(st, s, t, l) = Saved(st, become_follower(s, t, l))
    BY <1>2 DEF ObserveStore
  <2>3. become_follower(s, t, l) \in StateMachine
    BY FollowerType, ConstantsAssumption
  <2> QED  BY <1>2, <2>1, <2>2, <2>3, SavedType, FollowerFields
<1>3. CASE ~(t > s.current_term)
  BY <1>1, <1>3 DEF Observe, ObserveStore
<1> QED  BY <1>2, <1>3

\* A step-down triggered by an answer.
LEMMA StepDownHigher ==
    ASSUME TypeInv, NEW n \in Server, NEW m, m.term \in Nat, StepDown(n, m), phase[n] = "running"
    PROVE  OthersStay(n) /\ HigherNode(n)
<1> DEFINE s == become_follower(sm[n], m.term, None)
<1>1. sm[n] \in StateMachine /\ store[n] \in Store /\ sm \in [Server -> StateMachine]
  BY DEF TypeInv, TypeOK
<1>2. s \in StateMachine
  BY <1>1, FollowerType
<1>3. /\ s.current_term = m.term /\ s.voted_for = None /\ s.role = "Follower"
      /\ m.term > sm[n].current_term
  BY <1>1, FollowerFields DEF StepDown
<1>4. sm' = [sm EXCEPT ![n] = s] /\ store' = [store EXCEPT ![n] = Saved(store[n], sm'[n])]
  BY DEF StepDown
<1> HIDE DEF s
<1>5. sm'[n] = s
  BY <1>1, <1>4
<1>6. store'[n] = Saved(store[n], s) /\ OthersStay(n)
  BY <1>4, <1>5, NodeUpdate
<1>7. Saved(store[n], s).hard_state = hard_state_of(s)
  BY <1>1, <1>2, SavedType
<1> QED  BY <1>3, <1>5, <1>6, <1>7 DEF HigherNode

\* maybe_advance_commit saves the commit index when it moved.
LEMMA CommitQuiet ==
    ASSUME TypeInv, NEW n \in Server, phase[n] = "running", NEW s \in StateMachine,
           NEW c \in CommitRange(s, store[n]), Commit(n, s, c), s.commit_index = sm[n].commit_index,
           NEW z, sm' = [sm EXCEPT ![n] = z],
           z.current_term = sm[n].current_term, z.voted_for = sm[n].voted_for,
           z.role = sm[n].role, z.votes_received = sm[n].votes_received, z.commit_index = c,
           s.current_term = sm[n].current_term, s.voted_for = sm[n].voted_for
    PROVE  OthersStay(n) /\ QuietNode(n)
<1> DEFINE y == [s EXCEPT !.commit_index = c]
<1>1. /\ sm \in [Server -> StateMachine] /\ store \in [Server -> Store] /\ store[n] \in Store
      /\ s.commit_index \in Nat
  BY DEF TypeInv, TypeOK, StateMachine
<1>2. c \in Nat /\ y \in StateMachine
  BY CommitType
<1>3. /\ y.current_term = s.current_term /\ y.voted_for = s.voted_for /\ y.commit_index = c
  BY DEF StateMachine
<1>4. store' = IF c > s.commit_index THEN [store EXCEPT ![n] = Saved(store[n], y)] ELSE store
  BY DEF Commit
<1> HIDE DEF y
<1>5. sm'[n] = z
  BY <1>1
<1>6. CASE c > s.commit_index
  <2>0. store' = [store EXCEPT ![n] = Saved(store[n], y)]
    BY <1>4, <1>6
  <2> DEFINE w == Saved(store[n], y)
  <2> HIDE DEF w
  <2>1. store'[n] = Saved(store[n], y) /\ OthersStay(n)
    <3>1. store' = [store EXCEPT ![n] = w]
      BY <2>0 DEF w
    <3>2. store'[n] = w /\ OthersStay(n)
      BY <1>1, <3>1 DEF OthersStay
    <3> QED  BY <3>2 DEF w
  <2>2. Saved(store[n], y).hard_state = hard_state_of(y)
    BY <1>1, <1>2, SavedType
  <2>3. hard_state_of(y) = hard_state_of(z)
    BY <1>3 DEF hard_state_of
  <2> QED  BY <1>5, <2>1, <2>2, <2>3 DEF QuietNode
<1>7. CASE ~(c > s.commit_index)
  <2>1. store' = store
    BY <1>4, <1>7
  <2>2. c = s.commit_index
    BY <1>1, <1>2, <1>7 DEF CommitRange
  <2> QED  BY <1>1, <1>5, <2>1, <2>2 DEF QuietNode, OthersStay
<1> QED  BY <1>6, <1>7

\* The leader's timer.
LEMMA HeartbeatCalm ==
    ASSUME TypeInv, NEW n \in Server, heartbeat(n)
    PROVE  Calm(n)
<1>1. /\ sm[n] \in StateMachine /\ store[n] \in Store /\ net \in Net
      /\ sm \in [Server -> StateMachine]
      /\ incarnation \in [Server -> Nat] /\ LeaderProgress(n, sm[n])
  BY DEF TypeInv, TypeOK, ProgressOK
<1>2. /\ Aligned(store[n]) /\ sm[n].role = "Leader" /\ phase[n] = "running"
      /\ net' = replicate_all(net, n, sm[n], store[n])
      /\ UNCHANGED <<phase, incarnation, proposed, votes, leaders>>
  BY DEF heartbeat
<1>3. PICK c \in CommitRange(sm[n], store[n]) :
        /\ Commit(n, sm[n], c)
        /\ sm' = [sm EXCEPT ![n].commit_index = c,
                            ![n].last_applied = @ + Len(ToApply(sm[n], store[n], c))]
  BY DEF heartbeat
<1> DEFINE z == [sm[n] EXCEPT !.commit_index = c,
                              !.last_applied = @ + Len(ToApply(sm[n], store[n], c))]
<1>4. sm' = [sm EXCEPT ![n] = z]
  BY <1>1, <1>3
<1>5. /\ z.current_term = sm[n].current_term /\ z.voted_for = sm[n].voted_for
      /\ z.role = sm[n].role /\ z.votes_received = sm[n].votes_received /\ z.commit_index = c
  BY <1>1 DEF StateMachine
<1> HIDE DEF z
<1>6. OthersStay(n) /\ QuietNode(n)
  BY <1>1, <1>2, <1>3, <1>4, <1>5, CommitQuiet
<1>7. net'.vote_resp = net.vote_resp
  BY <1>1, <1>2, ReplicateAllType
<1> QED  BY <1>2, <1>6, <1>7 DEF Calm

\* A client's command.
LEMMA OnProposalCalm ==
    ASSUME TypeInv, NEW n \in Server, NEW cmd \in Command, on_proposal(n, cmd)
    PROVE  Calm(n)
<1> DEFINE st == append_entries(store[n], <<new_entry(n, cmd)>>)
<1>1. /\ sm' = sm /\ store' = [store EXCEPT ![n] = st]
      /\ net' = replicate_all(net, n, sm[n], st)
      /\ UNCHANGED <<phase, incarnation, votes, leaders>>
  BY DEF on_proposal, history
<1>2. st.hard_state = store[n].hard_state
  BY DEF append_entries, TypeInv, TypeOK, Store
<1>3. net'.vote_resp = net.vote_resp
  BY <1>1 DEF replicate_all, Outstanding, TypeInv, TypeOK, Net
<1> HIDE DEF st
<1>4. OthersStay(n) /\ QuietNode(n)
  BY <1>1, <1>2, StoreOnly
<1> QED  BY <1>1, <1>3, <1>4 DEF Calm

\* The two handlers of replication answers.
LEMMA ReplicationAnswerCalm ==
    ASSUME TypeInv, NEW n \in Server, NEW m, m.term \in Nat, phase[n] = "running",
           NEW s \in StateMachine,
           s.current_term = sm[n].current_term, s.voted_for = sm[n].voted_for,
           s.role = sm[n].role, s.votes_received = sm[n].votes_received,
           s.commit_index = sm[n].commit_index,
           \/ StepDown(n, m)
           \/ UNCHANGED <<sm, store>>
           \/ \E c \in CommitRange(s, store[n]) :
                 /\ Commit(n, s, c)
                 /\ sm' = [sm EXCEPT ![n] = [s EXCEPT !.commit_index = c]],
           net'.vote_resp = net.vote_resp,
           UNCHANGED <<phase, incarnation, votes, leaders>>
    PROVE  Calm(n)
<1>1. CASE StepDown(n, m)
  BY <1>1, StepDownHigher DEF Calm
<1>2. CASE UNCHANGED <<sm, store>>
  BY <1>2, NothingMoves DEF Calm
<1>3. CASE \E c \in CommitRange(s, store[n]) :
              /\ Commit(n, s, c)
              /\ sm' = [sm EXCEPT ![n] = [s EXCEPT !.commit_index = c]]
  <2>1. PICK c \in CommitRange(s, store[n]) :
              /\ Commit(n, s, c)
              /\ sm' = [sm EXCEPT ![n] = [s EXCEPT !.commit_index = c]]
    BY <1>3
  <2> DEFINE z == [s EXCEPT !.commit_index = c]
  <2>2. /\ z.current_term = sm[n].current_term /\ z.voted_for = sm[n].voted_for
        /\ z.role = sm[n].role /\ z.votes_received = sm[n].votes_received /\ z.commit_index = c
    BY DEF StateMachine
  <2>3. sm' = [sm EXCEPT ![n] = z]
    BY <2>1
  <2> HIDE DEF z
  <2>4. OthersStay(n) /\ QuietNode(n)
    BY <2>1, <2>2, <2>3, CommitQuiet
  <2> QED  BY <2>4 DEF Calm
<1> QED  BY <1>1, <1>2, <1>3

\* An answer to AppendEntries.
LEMMA HandleAppendResponseCalm ==
    ASSUME TypeInv, NEW n \in Server, NEW m \in net.append_resp, handle_append_response(n, m)
    PROVE  Calm(n)
<1> DEFINE p == sm[n].progress[m.peer]
           match == IF p.match_index >= m.req_last_index THEN p.match_index ELSE m.req_last_index
           back == IF m.conflict_index > 0 THEN m.conflict_index
                   ELSE IF p.next_index > 2 THEN p.next_index - 1 ELSE 1
           q == IF m.success THEN [next_index |-> match + 1, match_index |-> match]
                             ELSE [p EXCEPT !.next_index = back]
           s == [sm[n] EXCEPT !.progress[m.peer] = q]
<1>1. sm[n] \in StateMachine /\ net \in Net /\ LeaderProgress(n, sm[n])
  BY DEF TypeInv, TypeOK, ProgressOK
<1>2. /\ m.term \in Nat /\ m.peer \in Server /\ m.req_last_index \in Nat
      /\ m.conflict_index \in Nat /\ m.success \in BOOLEAN
  BY <1>1 DEF Net, AppendResp
<1>3. p \in Progress /\ p.next_index \in Nat /\ p.match_index \in Nat
  BY <1>1, <1>2 DEF StateMachine, Progress
<1>4. match \in Nat /\ match + 1 \in Nat /\ match + 1 >= 1 /\ back \in Nat /\ back >= 1
  <2> HIDE DEF p
  <2> QED  BY <1>2, <1>3
<1>5. q \in Progress /\ q.next_index >= 1
  <2> HIDE DEF p, match, back
  <2> QED  BY <1>2, <1>3, <1>4 DEF Progress
<1>6. /\ phase[n] = "running"
      /\ net' = [net EXCEPT !.append_resp = Rest(@, m)]
      /\ \/ StepDown(n, m)
         \/ UNCHANGED <<sm, store>>
         \/ \E c \in CommitRange(s, store[n]) :
               /\ Commit(n, s, c)
               /\ sm' = [sm EXCEPT ![n] = [s EXCEPT !.commit_index = c]]
      /\ UNCHANGED <<phase, incarnation, votes, leaders>>
  BY DEF handle_append_response, Hears
<1> HIDE DEF q
<1>7. s \in StateMachine
  BY <1>1, <1>2, <1>5, ProgressUpdate
<1>8. /\ s.current_term = sm[n].current_term /\ s.voted_for = sm[n].voted_for
      /\ s.role = sm[n].role /\ s.votes_received = sm[n].votes_received
      /\ s.commit_index = sm[n].commit_index
  BY <1>1 DEF StateMachine
<1>9. net'.vote_resp = net.vote_resp
  BY <1>1, <1>6 DEF Net
<1> HIDE DEF s
<1> QED  BY <1>2, <1>6, <1>7, <1>8, <1>9, ReplicationAnswerCalm

\* An answer to InstallSnapshot.
LEMMA HandleSnapshotResponseCalm ==
    ASSUME TypeInv, NEW n \in Server, NEW m \in net.snap_resp, handle_snapshot_response(n, m)
    PROVE  Calm(n)
<1> DEFINE p == sm[n].progress[m.peer]
           match == IF p.match_index >= m.req_last_index THEN p.match_index ELSE m.req_last_index
           q == [next_index |-> match + 1, match_index |-> match]
           s == [sm[n] EXCEPT !.progress[m.peer] = q]
<1>1. sm[n] \in StateMachine /\ net \in Net /\ LeaderProgress(n, sm[n])
  BY DEF TypeInv, TypeOK, ProgressOK
<1>2. m.term \in Nat /\ m.peer \in Server /\ m.req_last_index \in Nat
  BY <1>1 DEF Net, SnapResp
<1>3. p.match_index \in Nat
  BY <1>1, <1>2 DEF StateMachine, Progress
<1>4. match \in Nat /\ match + 1 \in Nat /\ match + 1 >= 1
  <2> HIDE DEF p
  <2> QED  BY <1>2, <1>3
<1>5. q \in Progress /\ q.next_index >= 1
  <2> HIDE DEF match
  <2> QED  BY <1>4 DEF Progress
<1>6. /\ phase[n] = "running"
      /\ net' = [net EXCEPT !.snap_resp = Rest(@, m)]
      /\ \/ StepDown(n, m)
         \/ UNCHANGED <<sm, store>>
         \/ \E c \in CommitRange(s, store[n]) :
               /\ Commit(n, s, c)
               /\ sm' = [sm EXCEPT ![n] = [s EXCEPT !.commit_index = c]]
      /\ UNCHANGED <<phase, incarnation, votes, leaders>>
  BY DEF handle_snapshot_response, Hears
<1> HIDE DEF q
<1>7. s \in StateMachine
  BY <1>1, <1>2, <1>5, ProgressUpdate
<1>8. /\ s.current_term = sm[n].current_term /\ s.voted_for = sm[n].voted_for
      /\ s.role = sm[n].role /\ s.votes_received = sm[n].votes_received
      /\ s.commit_index = sm[n].commit_index
  BY <1>1 DEF StateMachine
<1>9. net'.vote_resp = net.vote_resp
  BY <1>1, <1>6 DEF Net
<1> HIDE DEF s
<1> QED  BY <1>2, <1>6, <1>7, <1>8, <1>9, ReplicationAnswerCalm

\* The application takes a snapshot.
LEMMA CompactCalm ==
    ASSUME TypeInv, NEW n \in Server, compact(n)
    PROVE  Calm(n)
<1>1. PICK snap : store' = [store EXCEPT ![n] = apply_snapshot(@, snap)]
  BY DEF compact
<1>2. store' = [store EXCEPT ![n] = apply_snapshot(store[n], snap)]
  BY <1>1
<1>3. UNCHANGED <<sm, phase, incarnation, net, votes, leaders>>
  BY DEF compact, history
<1>4. apply_snapshot(store[n], snap).hard_state = store[n].hard_state
  BY DEF apply_snapshot, TypeInv, TypeOK, Store
<1>5. OthersStay(n) /\ QuietNode(n)
  BY <1>2, <1>3, <1>4, StoreOnly
<1> QED  BY <1>3, <1>5 DEF Calm

\* A handler that observed the request's term and wrote nothing else but
\* leader, progress and a commit index it saved.
LEMMA ObservedCalm ==
    ASSUME TypeInv, NEW n \in Server, phase[n] # "starting" \/ ServeBeforeRestore,
           NEW t \in Nat, NEW l \in Sender \cup {None}, NEW z, NEW y,
           sm' = [sm EXCEPT ![n] = z], store' = [store EXCEPT ![n] = y],
           z.current_term = Observe(sm[n], t, l).current_term,
           z.voted_for = Observe(sm[n], t, l).voted_for,
           z.role = Observe(sm[n], t, l).role,
           z.votes_received = Observe(sm[n], t, l).votes_received,
           \/ y.hard_state = hard_state_of(z)
           \/ /\ z.commit_index = Observe(sm[n], t, l).commit_index
              /\ y.hard_state = ObserveStore(store[n], sm[n], t, l).hard_state
    PROVE  OthersStay(n) /\ (QuietNode(n) \/ HigherNode(n))
<1> DEFINE s == Observe(sm[n], t, l)
           st == ObserveStore(store[n], sm[n], t, l)
<1>1. sm[n] \in StateMachine /\ store[n] \in Store
  BY DEF TypeInv, TypeOK
<1>2. sm'[n] = z /\ store'[n] = y /\ OthersStay(n)
  BY NodeUpdate
<1>3. CASE s = sm[n] /\ st = store[n]
  BY <1>2, <1>3 DEF QuietNode
<1>4. CASE /\ t > sm[n].current_term /\ s.current_term = t /\ s.voted_for = None
           /\ s.role = "Follower" /\ st.hard_state = hard_state_of(s)
  <2>1. y.hard_state = hard_state_of(z)
    <3>1. CASE z.commit_index = s.commit_index /\ y.hard_state = st.hard_state
      <4> HIDE DEF s, st
      <4>1. hard_state_of(z) = hard_state_of(s)
        BY <3>1 DEF hard_state_of, s
      <4> QED  BY <1>4, <3>1, <4>1
    <3> QED  BY <3>1
  <2> QED  BY <1>2, <1>4, <2>1 DEF HigherNode
<1> QED  BY <1>1, <1>2, <1>3, <1>4, ObserveCases

\* AppendEntries at a follower.
LEMMA OnAppendEntriesCalm ==
    ASSUME TypeInv, NEW n \in Server, NEW m \in net.append_req, on_append_entries(n, m)
    PROVE  Calm(n)
<1> DEFINE o  == Observe(sm[n], m.term, m.leader_id)
           s  == [o EXCEPT !.leader_id = m.leader_id]
           st == ObserveStore(store[n], sm[n], m.term, m.leader_id)
           appended == IF m.entries = <<>> THEN st ELSE append_entries(st, m.entries)
           c  == [s EXCEPT !.commit_index = commit_bound(appended, m)]
<1>1. /\ sm[n] \in StateMachine /\ store[n] \in Store /\ net \in Net
      /\ LeaderProgress(n, sm[n])
  BY DEF TypeInv, TypeOK, ProgressOK
<1>2. /\ m.term \in Nat /\ m.leader_id \in Sender
      /\ m.entries \in Seq(Entry) /\ m.leader_commit \in Nat
  BY <1>1 DEF Net, AppendReq
<1>3. o \in StateMachine /\ st \in Store
  BY <1>1, <1>2, ObserveType
<1>4. /\ phase[n] # "starting" \/ ServeBeforeRestore
      /\ \/ sm' = sm /\ store' = store
         \/ sm' = [sm EXCEPT ![n] = s] /\ store' = [store EXCEPT ![n] = st]
         \/ sm' = [sm EXCEPT ![n] = s] /\ store' = [store EXCEPT ![n] = appended]
         \/ sm' = [sm EXCEPT ![n] = c] /\ store' = [store EXCEPT ![n] = Saved(appended, c)]
      /\ UNCHANGED <<phase, incarnation, votes, leaders>>
  BY DEF on_append_entries, Serving, history
<1>5. net'.vote_resp = net.vote_resp
  BY <1>1 DEF on_append_entries, Net
<1> HIDE DEF o, st
<1>6. /\ s \in StateMachine
      /\ s.current_term = o.current_term /\ s.voted_for = o.voted_for /\ s.role = o.role
      /\ s.votes_received = o.votes_received /\ s.commit_index = o.commit_index
  BY <1>2, <1>3 DEF StateMachine
<1>7. appended \in Store /\ appended.hard_state = st.hard_state
  <2>1. append_entries(st, m.entries).hard_state = st.hard_state
    BY <1>3 DEF append_entries, Store
  <2>2. appended \in Store
    BY <1>2, <1>3, AppendType
  <2> QED  BY <2>1, <2>2
<1> HIDE DEF s, appended
<1>8. commit_bound(appended, m) \in Nat
  BY <1>2, <1>7, StoreIndexTypes DEF commit_bound
<1>9. /\ c \in StateMachine
      /\ c.current_term = s.current_term /\ c.voted_for = s.voted_for /\ c.role = s.role
      /\ c.votes_received = s.votes_received
  BY <1>6, <1>8 DEF StateMachine
<1> HIDE DEF c
<1>10. Saved(appended, c).hard_state = hard_state_of(c)
  BY <1>7, <1>9, SavedType
<1>11. OthersStay(n) /\ (QuietNode(n) \/ HigherNode(n))
  <2>1. CASE sm' = sm /\ store' = store
    BY <2>1, NothingMoves
  <2>2. CASE sm' = [sm EXCEPT ![n] = s] /\ store' = [store EXCEPT ![n] = st]
    BY <1>2, <1>4, <1>6, <2>2, ObservedCalm DEF o, st
  <2>3. CASE sm' = [sm EXCEPT ![n] = s] /\ store' = [store EXCEPT ![n] = appended]
    BY <1>2, <1>4, <1>6, <1>7, <2>3, ObservedCalm DEF o, st
  <2>4. CASE sm' = [sm EXCEPT ![n] = c] /\ store' = [store EXCEPT ![n] = Saved(appended, c)]
    <3> DEFINE y == Saved(appended, c)
    <3> HIDE DEF y
    <3>1. y.hard_state = hard_state_of(c) /\ store' = [store EXCEPT ![n] = y]
      BY <1>10, <2>4 DEF y
    <3>2. /\ c.current_term = o.current_term /\ c.voted_for = o.voted_for /\ c.role = o.role
          /\ c.votes_received = o.votes_received
      BY <1>6, <1>9
    <3>3. sm' = [sm EXCEPT ![n] = c] /\ m.leader_id \in Sender \cup {None}
      BY <1>2, <2>4
    <3> QED  BY <1>2, <1>4, <3>1, <3>2, <3>3, ObservedCalm DEF o
  <2> QED  BY <1>4, <2>1, <2>2, <2>3, <2>4
<1> QED  BY <1>4, <1>5, <1>11 DEF Calm

\* InstallSnapshot at a follower.
LEMMA OnInstallSnapshotCalm ==
    ASSUME TypeInv, NEW n \in Server, NEW m \in net.snap_req, on_install_snapshot(n, m)
    PROVE  Calm(n)
<1> DEFINE s  == Observe(sm[n], m.term, m.leader_id)
           st == ObserveStore(store[n], sm[n], m.term, m.leader_id)
           last == m.snapshot.last_included_index
           installed == [s EXCEPT !.commit_index = IF @ >= last THEN @ ELSE last,
                                  !.last_applied = IF @ >= last THEN @ ELSE last]
           saved == Saved(apply_snapshot(st, m.snapshot), installed)
<1>1. /\ sm[n] \in StateMachine /\ store[n] \in Store /\ net \in Net
      /\ LeaderProgress(n, sm[n])
  BY DEF TypeInv, TypeOK, ProgressOK
<1>2. m.term \in Nat /\ m.leader_id \in Server /\ m.leader_id \in Sender /\ m.snapshot \in Snapshot /\ last \in Nat
  BY <1>1 DEF Net, SnapReq, Snapshot, Sender
<1>3. s \in StateMachine /\ st \in Store
  BY <1>1, <1>2, ObserveType
<1>4. /\ phase[n] # "starting" \/ ServeBeforeRestore
      /\ \/ sm' = sm /\ store' = store
         \/ sm' = [sm EXCEPT ![n] = installed] /\ store' = [store EXCEPT ![n] = saved]
      /\ UNCHANGED <<phase, incarnation, votes, leaders>>
  BY DEF on_install_snapshot, Serving, history
<1>5. net'.vote_resp = net.vote_resp
  BY <1>1 DEF on_install_snapshot, Net
<1> HIDE DEF s, st
<1>6. /\ installed.current_term = s.current_term /\ installed.voted_for = s.voted_for
      /\ installed.role = s.role /\ installed.votes_received = s.votes_received
  BY <1>3 DEF StateMachine
<1>7. saved.hard_state = hard_state_of(installed)
  <2>1. apply_snapshot(st, m.snapshot) \in Store
    BY <1>2, <1>3, ApplySnapshotType
  <2> HIDE DEF installed
  <2> QED  BY <2>1 DEF Saved, save_hard_state, Store
<1> HIDE DEF installed, saved
<1>8. OthersStay(n) /\ (QuietNode(n) \/ HigherNode(n))
  <2>1. CASE sm' = sm /\ store' = store
    BY <2>1, NothingMoves
  <2>2. CASE sm' = [sm EXCEPT ![n] = installed] /\ store' = [store EXCEPT ![n] = saved]
    BY <1>2, <1>4, <1>6, <1>7, <2>2, ObservedCalm DEF s
  <2> QED  BY <1>4, <2>1, <2>2
<1> QED  BY <1>4, <1>5, <1>8 DEF Calm

-----------------------------------------------------------------------------
(* The steps that do concern elections.                                    *)

\* The outcome of RequestVote at a node: a refusal, or a vote that the node is
\* free to give in the request's term and that is saved before it is sent.
Granting(n, m) ==
    /\ phase[n] # "starting" \/ ServeBeforeRestore
    /\ UNCHANGED <<phase, incarnation, leaders>>
    /\ OthersStay(n)
    /\ \/ m.term > sm[n].current_term /\ sm'[n].role = "Follower"
       \/ /\ m.term = sm[n].current_term
          /\ sm[n].voted_for \in {None, m.candidate_id}
          /\ sm'[n].role = sm[n].role /\ sm'[n].votes_received = sm[n].votes_received
    /\ sm'[n].current_term = m.term
    /\ sm'[n].voted_for = m.candidate_id
    /\ store'[n].hard_state = hard_state_of(sm'[n])
    /\ votes' = votes \cup {<<n, m.term, m.candidate_id>>}
    /\ \A r \in net'.vote_resp : r.vote_granted =>
          r \in net.vote_resp \/ (r.peer = n /\ r.to = m.candidate_id /\ r.term = m.term)

\* on_request_vote refuses or grants.
LEMMA OnRequestVoteStep ==
    ASSUME TypeInv, NEW n \in Server, NEW m \in net.vote_req, on_request_vote(n, m)
    PROVE  Calm(n) \/ Granting(n, m)
<1> DEFINE s  == Observe(sm[n], m.term, None)
           st == ObserveStore(store[n], sm[n], m.term, None)
           v  == [s EXCEPT !.voted_for = m.candidate_id]
           resp(g) == [peer |-> n, to |-> m.candidate_id, incarnation |-> m.incarnation,
                       term |-> s.current_term, vote_granted |-> g]
           granting == /\ m.term >= s.current_term
                       /\ s.voted_for \in {None, m.candidate_id}
                       /\ CandidateLogOk(st, m)
<1>1. /\ sm[n] \in StateMachine /\ store[n] \in Store /\ net \in Net
      /\ LeaderProgress(n, sm[n]) /\ sm[n].current_term \in Nat
  BY DEF TypeInv, TypeOK, ProgressOK, StateMachine
<1>2. m.term \in Nat /\ m.candidate_id \in Server
  BY <1>1 DEF Net, VoteReq
<1>3. s \in StateMachine /\ st \in Store
  BY <1>1, <1>2, ObserveType
<1>4. /\ phase[n] # "starting" \/ ServeBeforeRestore
      /\ UNCHANGED <<phase, incarnation, leaders>>
      /\ \/ /\ granting
            /\ sm' = [sm EXCEPT ![n] = v]
            /\ store' = [store EXCEPT ![n] = Saved(st, v)]
            /\ votes' = votes \cup {<<n, m.term, m.candidate_id>>}
            /\ net'.vote_resp = net.vote_resp \cup {resp(TRUE)}
         \/ /\ sm' = [sm EXCEPT ![n] = s]
            /\ store' = [store EXCEPT ![n] = st]
            /\ net'.vote_resp = net.vote_resp \cup {resp(FALSE)}
            /\ votes' = votes
  BY <1>1 DEF on_request_vote, Serving, Net
<1> HIDE DEF s, st
<1>5. CASE /\ sm' = [sm EXCEPT ![n] = s]
           /\ store' = [store EXCEPT ![n] = st]
           /\ net'.vote_resp = net.vote_resp \cup {resp(FALSE)}
           /\ votes' = votes
  <2>1. OthersStay(n) /\ (QuietNode(n) \/ HigherNode(n))
    BY <1>2, <1>4, <1>5, ObservedCalm DEF s, st
  <2> QED  BY <1>4, <1>5, <2>1 DEF Calm
<1>6. CASE /\ granting
           /\ sm' = [sm EXCEPT ![n] = v]
           /\ store' = [store EXCEPT ![n] = Saved(st, v)]
           /\ votes' = votes \cup {<<n, m.term, m.candidate_id>>}
           /\ net'.vote_resp = net.vote_resp \cup {resp(TRUE)}
  <2>1. /\ v \in StateMachine /\ v.voted_for = m.candidate_id
        /\ v.current_term = s.current_term /\ v.role = s.role
        /\ v.votes_received = s.votes_received
    BY <1>2, <1>3 DEF StateMachine
  <2> HIDE DEF v
  <2>2. sm'[n] = v /\ store'[n] = Saved(st, v) /\ OthersStay(n)
    BY <1>6, NodeUpdate
  <2>3. Saved(st, v).hard_state = hard_state_of(v)
    BY <1>3, <2>1, SavedType
  <2>4. \/ m.term <= sm[n].current_term /\ s = sm[n]
        \/ m.term > sm[n].current_term /\ s.current_term = m.term /\ s.role = "Follower"
    BY <1>1, <1>2, ObserveCases DEF s
  <2>5. s.current_term = m.term
    BY <1>1, <1>2, <1>6, <2>4
  <2>6. \/ m.term > sm[n].current_term /\ sm'[n].role = "Follower"
        \/ /\ m.term = sm[n].current_term
           /\ sm[n].voted_for \in {None, m.candidate_id}
           /\ sm'[n].role = sm[n].role /\ sm'[n].votes_received = sm[n].votes_received
    BY <1>6, <2>1, <2>2, <2>4, <2>5
  <2>7. \A r \in net'.vote_resp : r.vote_granted =>
          r \in net.vote_resp \/ (r.peer = n /\ r.to = m.candidate_id /\ r.term = m.term)
    BY <1>6, <2>5
  <2> QED  BY <1>4, <1>6, <2>1, <2>2, <2>3, <2>5, <2>6, <2>7 DEF Granting
<1> QED  BY <1>4, <1>5, <1>6

\* A candidacy: a term higher than any before, a vote for itself, saved at once;
\* with one node that is an election won.
Standing(n) ==
    LET t == sm[n].current_term + 1
    IN  /\ phase[n] = "running"
        /\ UNCHANGED <<phase, incarnation>>
        /\ OthersStay(n)
        /\ sm'[n].current_term = t /\ sm'[n].voted_for = n
        /\ sm'[n].votes_received = {n}
        /\ store'[n].hard_state = hard_state_of(sm'[n])
        /\ votes' = votes \cup {<<n, t, n>>}
        /\ net'.vote_resp = net.vote_resp
        /\ \/ leaders' = leaders /\ sm'[n].role = "Candidate"
           \/ /\ leaders' = leaders \cup {<<t, n>>} /\ sm'[n].role = "Leader"
              /\ Cardinality({n}) >= quorum

\* start_election is a candidacy.
LEMMA StartElectionStep ==
    ASSUME TypeInv, NEW n \in Server, start_election(n)
    PROVE  Standing(n)
<1> DEFINE s   == become_candidate(sm[n], n)
           l   == become_leader(s, n, last_index(store[n]))
           reqs == {vote_request(n, s, store[n], p) : p \in Peers(n)}
           nt  == [net EXCEPT !.vote_req = @ \cup reqs]
<1>1. /\ sm[n] \in StateMachine /\ store[n] \in Store /\ net \in Net
  BY DEF TypeInv, TypeOK
<1>2. s \in StateMachine
  BY <1>1, CandidateType
<1>3. /\ s.current_term = sm[n].current_term + 1 /\ s.voted_for = n
      /\ s.votes_received = {n} /\ s.role = "Candidate"
  BY <1>1 DEF become_candidate, StateMachine
<1>4. nt.vote_resp = net.vote_resp
  BY <1>1 DEF Net
<1>5. replicate_all(nt, n, l, store[n]).vote_resp = net.vote_resp
  <2> HIDE DEF l, reqs
  <2> QED  BY <1>1 DEF replicate_all, Outstanding, Net
<1>6. /\ phase[n] = "running" /\ UNCHANGED <<phase, incarnation>>
      /\ store' = [store EXCEPT ![n] = Saved(store[n], s)]
      /\ votes' = votes \cup {<<n, s.current_term, n>>}
      /\ \/ /\ sm' = [sm EXCEPT ![n] = l]
            /\ Cardinality(s.votes_received) >= quorum
            /\ leaders' = leaders \cup {<<s.current_term, n>>}
            /\ net' = replicate_all(nt, n, l, store[n])
         \/ /\ sm' = [sm EXCEPT ![n] = s] /\ net' = nt /\ leaders' = leaders
  BY <1>1 DEF start_election, TypeInv, TypeOK
<1> HIDE DEF s, nt
<1>7. /\ l.current_term = s.current_term /\ l.voted_for = s.voted_for /\ l.role = "Leader"
      /\ l.votes_received = s.votes_received /\ hard_state_of(l) = hard_state_of(s)
  BY <1>2 DEF become_leader, StateMachine, hard_state_of
<1>8. Saved(store[n], s).hard_state = hard_state_of(s)
  BY <1>1, <1>2, SavedType
<1> HIDE DEF l
<1>9. /\ store'[n] = Saved(store[n], s) /\ OthersStay(n)
      /\ \/ /\ sm'[n] = l /\ Cardinality(s.votes_received) >= quorum
            /\ leaders' = leaders \cup {<<s.current_term, n>>}
         \/ sm'[n] = s /\ leaders' = leaders
  BY <1>6, NodeUpdate
<1>10. store'[n].hard_state = hard_state_of(sm'[n])
  BY <1>7, <1>8, <1>9
<1> QED  BY <1>3, <1>4, <1>5, <1>6, <1>7, <1>9, <1>10 DEF Standing

\* A vote counted by a candidate; it becomes leader when it has a majority.
Counting(n, m) ==
    /\ phase[n] = "running"
    /\ UNCHANGED <<phase, incarnation, votes>>
    /\ OthersStay(n)
    /\ m.vote_granted /\ m.to = n /\ sm[n].role = "Candidate"
    /\ m.term <= sm[n].current_term
    /\ LateResponses \/ m.term >= sm[n].current_term
    /\ sm'[n].current_term = sm[n].current_term
    /\ sm'[n].voted_for = sm[n].voted_for
    /\ sm'[n].commit_index = sm[n].commit_index
    /\ sm'[n].votes_received = sm[n].votes_received \cup {m.peer}
    /\ store'[n].hard_state = store[n].hard_state
    /\ net'.vote_resp \subseteq net.vote_resp \ {m}
    /\ \/ leaders' = leaders /\ sm'[n].role = "Candidate"
       \/ /\ leaders' = leaders \cup {<<sm[n].current_term, n>>} /\ sm'[n].role = "Leader"
          /\ Cardinality(sm[n].votes_received \cup {m.peer}) >= quorum

\* handle_vote_response counts a vote or has nothing to count.
LEMMA HandleVoteResponseStep ==
    ASSUME TypeInv, NEW n \in Server, NEW m \in net.vote_resp, handle_vote_response(n, m)
    PROVE  Calm(n) \/ Counting(n, m)
<1> DEFINE s  == [sm[n] EXCEPT !.votes_received = @ \cup {m.peer}]
           l  == become_leader(s, n, last_index(store[n]))
           nt == [net EXCEPT !.vote_resp = @ \ {m}]
           counts == m.vote_granted /\ sm[n].role = "Candidate"
<1>1. /\ sm[n] \in StateMachine /\ store[n] \in Store /\ net \in Net
      /\ store \in [Server -> Store] /\ sm \in [Server -> StateMachine]
  BY DEF TypeInv, TypeOK
<1>2. m.term \in Nat /\ m.peer \in Server
  BY <1>1 DEF Net, VoteResp
<1>3. s \in StateMachine
  <2>1. sm[n].votes_received \cup {m.peer} \in SUBSET Server
    BY <1>1, <1>2 DEF StateMachine
  <2> QED  BY <1>1, <2>1 DEF StateMachine
<1>4. /\ s.current_term = sm[n].current_term /\ s.voted_for = sm[n].voted_for
      /\ s.commit_index = sm[n].commit_index /\ s.role = sm[n].role
      /\ s.votes_received = sm[n].votes_received \cup {m.peer}
  BY <1>1 DEF StateMachine
<1>5. nt.vote_resp \subseteq net.vote_resp /\ nt.vote_resp = net.vote_resp \ {m}
  BY <1>1 DEF Net
<1>6. replicate_all(nt, n, l, store[n]).vote_resp = nt.vote_resp
  <2> HIDE DEF l
  <2> QED  BY <1>1 DEF replicate_all, Outstanding, Net
<1>7. /\ phase[n] = "running" /\ m.to = n
      /\ LateResponses \/ m.term >= sm[n].current_term
      /\ UNCHANGED <<phase, incarnation, votes>>
      /\ \/ StepDown(n, m) /\ net' = nt /\ leaders' = leaders
         \/ /\ m.term <= sm[n].current_term /\ counts
            /\ Cardinality(s.votes_received) >= quorum
            /\ sm' = [sm EXCEPT ![n] = l]
            /\ leaders' = leaders \cup {<<l.current_term, n>>}
            /\ net' = replicate_all(nt, n, l, store[n])
            /\ store' = store
         \/ /\ m.term <= sm[n].current_term /\ counts
            /\ sm' = [sm EXCEPT ![n] = s]
            /\ net' = nt /\ store' = store /\ leaders' = leaders
         \/ /\ sm' = sm
            /\ net' = nt /\ store' = store /\ leaders' = leaders
  BY DEF handle_vote_response, Hears
<1> HIDE DEF s, nt
<1>8. /\ l.current_term = s.current_term /\ l.voted_for = s.voted_for
      /\ l.votes_received = s.votes_received /\ l.commit_index = s.commit_index
      /\ l.role = "Leader"
  BY <1>3 DEF become_leader, StateMachine
<1> HIDE DEF l
<1>9. CASE StepDown(n, m) /\ net' = nt /\ leaders' = leaders
  <2>1. OthersStay(n) /\ HigherNode(n)
    BY <1>2, <1>7, <1>9, StepDownHigher
  <2> QED  BY <1>5, <1>7, <1>9, <2>1 DEF Calm
<1>10. CASE sm' = sm /\ net' = nt /\ store' = store /\ leaders' = leaders
  BY <1>5, <1>7, <1>10, NothingMoves DEF Calm
<1>11. CASE /\ m.term <= sm[n].current_term /\ counts
            /\ sm' = [sm EXCEPT ![n] = s]
            /\ net' = nt /\ store' = store /\ leaders' = leaders
  <2>1. sm'[n] = s /\ OthersStay(n)
    BY <1>1, <1>11 DEF OthersStay
  <2> QED  BY <1>4, <1>5, <1>7, <1>11, <2>1 DEF Counting
<1>12. CASE /\ m.term <= sm[n].current_term /\ counts
            /\ Cardinality(s.votes_received) >= quorum
            /\ sm' = [sm EXCEPT ![n] = l]
            /\ leaders' = leaders \cup {<<l.current_term, n>>}
            /\ net' = replicate_all(nt, n, l, store[n])
            /\ store' = store
  <2>1. sm'[n] = l /\ OthersStay(n)
    BY <1>1, <1>12 DEF OthersStay
  <2>2. net'.vote_resp = net.vote_resp \ {m}
    BY <1>5, <1>6, <1>12
  <2> QED  BY <1>4, <1>7, <1>8, <1>12, <2>1, <2>2 DEF Counting
<1> QED  BY <1>7, <1>9, <1>10, <1>11, <1>12

\* What a step of the system is to an election.
LEMMA ElectionSteps ==
    ASSUME TypeInv, [Next]_vars
    PROVE  \/ UNCHANGED <<sm, store, phase, incarnation, net, votes, leaders>>
           \/ \E n \in Server :
                 \/ Calm(n)
                 \/ Standing(n)
                 \/ \E m \in net.vote_req : Granting(n, m)
                 \/ \E m \in net.vote_resp : Counting(n, m)
                 \/ restore(n)
                 \/ shutdown(n)
                 \/ start(n)
<1>1. CASE UNCHANGED vars
  BY <1>1 DEF vars
<1>2. ASSUME NEW n \in Server, start_election(n) PROVE Standing(n)
  BY <1>2, StartElectionStep
<1>3. ASSUME NEW n \in Server, heartbeat(n) PROVE Calm(n)
  BY <1>3, HeartbeatCalm
<1>4. ASSUME NEW n \in Server, NEW cmd \in Command, on_proposal(n, cmd) PROVE Calm(n)
  BY <1>4, OnProposalCalm
<1>5. ASSUME NEW n \in Server, NEW m \in net.vote_req, on_request_vote(n, m)
      PROVE  Calm(n) \/ Granting(n, m)
  BY <1>5, OnRequestVoteStep
<1>6. ASSUME NEW n \in Server, NEW m \in net.vote_resp, handle_vote_response(n, m)
      PROVE  Calm(n) \/ Counting(n, m)
  BY <1>6, HandleVoteResponseStep
<1>7. ASSUME NEW n \in Server, NEW m \in net.append_req, on_append_entries(n, m) PROVE Calm(n)
  BY <1>7, OnAppendEntriesCalm
<1>8. ASSUME NEW n \in Server, NEW m \in net.append_resp, handle_append_response(n, m) PROVE Calm(n)
  BY <1>8, HandleAppendResponseCalm
<1>9. ASSUME NEW n \in Server, NEW m \in net.snap_req, on_install_snapshot(n, m) PROVE Calm(n)
  BY <1>9, OnInstallSnapshotCalm
<1>10. ASSUME NEW n \in Server, NEW m \in net.snap_resp, handle_snapshot_response(n, m) PROVE Calm(n)
  BY <1>10, HandleSnapshotResponseCalm
<1>11. ASSUME NEW n \in Server, compact(n) PROVE Calm(n)
  BY <1>11, CompactCalm
<1> QED
  BY <1>1, <1>2, <1>3, <1>4, <1>5, <1>6, <1>7, <1>8, <1>9, <1>10, <1>11 DEF Next

-----------------------------------------------------------------------------
(* Memory and storage agree.                                               *)

\* What the event loop restores is what was saved: 0 stands for None in
\* storage, and no node is None.
LEMMA RestoreFields ==
    ASSUME TypeInv, NEW n \in Server, restore(n)
    PROVE  /\ sm'[n].current_term = store[n].hard_state.term
           /\ sm'[n].role = sm[n].role /\ sm'[n].leader_id = sm[n].leader_id
           /\ hard_state_of(sm'[n]) = store[n].hard_state
           /\ store' = store
           /\ phase' = [phase EXCEPT ![n] = "running"]
           /\ \A p \in Server \ {n} : sm'[p] = sm[p]
           /\ UNCHANGED <<incarnation, net, votes, leaders>>
<1> DEFINE hs == store[n].hard_state
           s == [sm[n] EXCEPT !.current_term = hs.term, !.voted_for = restored_vote(hs),
                              !.commit_index = hs.commit, !.last_applied = hs.commit]
<1>1. /\ sm \in [Server -> StateMachine] /\ sm[n] \in StateMachine /\ hs \in HardState
  BY DEF TypeInv, TypeOK, Store
<1>2. sm' = [sm EXCEPT ![n] = s]
  BY <1>1 DEF restore
<1>3. /\ store' = store /\ phase' = [phase EXCEPT ![n] = "running"]
      /\ UNCHANGED <<incarnation, net, votes, leaders>>
  BY DEF restore, history
<1> HIDE DEF hs
<1>4. /\ s.current_term = hs.term /\ s.voted_for = restored_vote(hs)
      /\ s.commit_index = hs.commit /\ s.role = sm[n].role /\ s.leader_id = sm[n].leader_id
  BY <1>1 DEF StateMachine
<1> HIDE DEF s
<1>5. hs = [term |-> hs.term, vote |-> hs.vote, commit |-> hs.commit]
  BY <1>1 DEF HardState
<1>6. hs.vote # None
  BY <1>1, ConstantsAssumption DEF HardState
<1>7. hard_state_of(s) = hs
  BY <1>4, <1>5, <1>6 DEF hard_state_of, restored_vote
<1>8. sm'[n] = s /\ \A p \in Server \ {n} : sm'[p] = sm[p]
  BY <1>1, <1>2
<1> QED  BY <1>3, <1>4, <1>7, <1>8 DEF hs

\* RaftNode::start forgets everything but the storage.
LEMMA StartFields ==
    ASSUME TypeInv, NEW n \in Server, start(n)
    PROVE  /\ sm'[n].role = "Follower" /\ sm'[n].current_term = 0 /\ sm'[n].leader_id = None
           /\ store' = store
           /\ phase' = [phase EXCEPT ![n] = "starting"]
           /\ incarnation' = [incarnation EXCEPT ![n] = @ + 1]
           /\ \A p \in Server \ {n} : sm'[p] = sm[p]
           /\ UNCHANGED <<net, votes, leaders>>
<1>1. sm \in [Server -> StateMachine]
  BY DEF TypeInv, TypeOK
<1>2. sm' = [sm EXCEPT ![n] = new_state]
  BY DEF start
<1>3. /\ new_state.role = "Follower" /\ new_state.current_term = 0
      /\ new_state.leader_id = None
  BY DEF new_state
<1> HIDE DEF new_state
<1>4. sm'[n] = new_state /\ \A p \in Server \ {n} : sm'[p] = sm[p]
  BY <1>1, <1>2
<1> QED  BY <1>3, <1>4 DEF start, history

\* HardStateSync is inductive on its own.
LEMMA SyncStep == TypeInv /\ HardStateSync /\ [Next]_vars => HardStateSync'
<1> SUFFICES ASSUME TypeInv, HardStateSync, [Next]_vars,
                    NEW p \in Server, phase'[p] # "starting"
             PROVE  Synced(p)'
  BY DEF HardStateSync, Synced
<1>0. phase \in [Server -> {"starting", "running", "stopped"}]
  BY DEF TypeInv, TypeOK
<1>1. ASSUME phase[p] # "starting" PROVE Synced(p)
  BY <1>1 DEF HardStateSync, Synced
<1>2. CASE UNCHANGED <<sm, store, phase, incarnation, net, votes, leaders>>
  BY <1>1, <1>2 DEF Synced
<1>3. ASSUME NEW n \in Server, OthersStay(n), p # n, phase' = phase
      PROVE  Synced(p)'
  BY <1>1, <1>3 DEF Synced, OthersStay
<1>4. ASSUME NEW n \in Server, Calm(n) PROVE Synced(p)'
  <2>1. CASE p # n
    BY <1>3, <1>4, <2>1 DEF Calm
  <2>2. CASE p = n /\ HigherNode(n)
    BY <2>2 DEF HigherNode, Synced
  <2>3. CASE p = n /\ QuietNode(n)
    <3>1. CASE store'[n].hard_state = hard_state_of(sm'[n])
      BY <2>3, <3>1 DEF Synced
    <3>2. CASE /\ store'[n].hard_state = store[n].hard_state
               /\ sm'[n].commit_index = sm[n].commit_index
      <4>1. hard_state_of(sm'[n]) = hard_state_of(sm[n])
        BY <2>3, <3>2 DEF QuietNode, hard_state_of
      <4>2. phase[n] # "starting"
        BY <1>4, <2>3 DEF Calm
      <4> QED  BY <1>1, <2>3, <3>2, <4>1, <4>2 DEF Synced
    <3> QED  BY <2>3, <3>1, <3>2 DEF QuietNode
  <2> QED  BY <1>4, <2>1, <2>2, <2>3 DEF Calm
<1>5. ASSUME NEW n \in Server, Standing(n) PROVE Synced(p)'
  <2>1. CASE p # n
    BY <1>3, <1>5, <2>1 DEF Standing
  <2>2. CASE p = n
    BY <1>5, <2>2 DEF Standing, Synced
  <2> QED  BY <2>1, <2>2
<1>6. ASSUME NEW n \in Server, NEW m, Granting(n, m) PROVE Synced(p)'
  <2>1. CASE p # n
    BY <1>3, <1>6, <2>1 DEF Granting
  <2>2. CASE p = n
    BY <1>6, <2>2 DEF Granting, Synced
  <2> QED  BY <2>1, <2>2
<1>7. ASSUME NEW n \in Server, NEW m, Counting(n, m) PROVE Synced(p)'
  <2>1. CASE p # n
    BY <1>3, <1>7, <2>1 DEF Counting
  <2>2. CASE p = n
    <3>1. hard_state_of(sm'[n]) = hard_state_of(sm[n])
      BY <1>7 DEF Counting, hard_state_of
    <3> QED  BY <1>1, <1>7, <2>2, <3>1 DEF Counting, Synced
  <2> QED  BY <2>1, <2>2
<1>8. ASSUME NEW n \in Server, restore(n) PROVE Synced(p)'
  <2>1. /\ hard_state_of(sm'[n]) = store[n].hard_state /\ store' = store
        /\ phase' = [phase EXCEPT ![n] = "running"]
        /\ \A q \in Server \ {n} : sm'[q] = sm[q]
    BY <1>8, RestoreFields
  <2> QED  BY <1>0, <1>1, <2>1 DEF Synced
<1>9. ASSUME NEW n \in Server, shutdown(n) PROVE Synced(p)'
  <2>1. phase[p] # "starting" /\ sm' = sm /\ store' = store
    BY <1>0, <1>9 DEF shutdown
  <2> QED  BY <1>1, <2>1 DEF Synced
<1>10. ASSUME NEW n \in Server, start(n) PROVE Synced(p)'
  <2>1. /\ store' = store /\ phase' = [phase EXCEPT ![n] = "starting"]
        /\ \A q \in Server \ {n} : sm'[q] = sm[q]
    BY <1>10, StartFields
  <2> QED  BY <1>0, <1>1, <2>1 DEF Synced
<1> QED  BY <1>2, <1>4, <1>5, <1>6, <1>7, <1>8, <1>9, <1>10, ElectionSteps

\* Initially both are empty.
LEMMA SyncInit == Init => HardStateSync
BY DEF Init, HardStateSync, EmptyStore, hard_state_of, new_state

\* Whatever a restart brings back is what the node last answered with: term,
\* vote and commit index in memory are those in storage, in every cluster and
\* every environment (save_hard_state at every place that changes them).
THEOREM HardStateSynced == Spec => []HardStateSync
<1>1. TypeInv /\ HardStateSync /\ [Next]_vars => (TypeInv /\ HardStateSync)'
  BY NextType, SyncStep
<1>2. Init => TypeInv /\ HardStateSync
  BY InitType, SyncInit
<1> QED  BY <1>1, <1>2, PTL DEF Spec

-----------------------------------------------------------------------------
(* Votes.                                                                  *)

\* The storage of a node knows the last vote the node gave.
RecordedVote(v) ==
    /\ v[2] <= store[v[1]].hard_state.term
    /\ v[2] = store[v[1]].hard_state.term => store[v[1]].hard_state.vote = v[3]

VotesRecorded == \A v \in votes : RecordedVote(v)

VoteInv == TypeInv /\ HardStateSync /\ VotesRecorded /\ OneVotePerTerm

\* A step that leaves the vote in a node's storage alone, or moves the node to
\* a higher term, keeps its votes recorded.
LEMMA RecordedKept ==
    ASSUME TypeInv, TypeInv', NEW v \in votes, RecordedVote(v),
           \/ /\ store'[v[1]].hard_state.term = store[v[1]].hard_state.term
              /\ store'[v[1]].hard_state.vote = store[v[1]].hard_state.vote
           \/ store'[v[1]].hard_state.term > store[v[1]].hard_state.term
    PROVE  RecordedVote(v)'
<1>1. v \in Server \X Nat \X Server
  BY DEF TypeInv, TypeOK
<1>2. v[1] \in Server /\ v[2] \in Nat
  BY <1>1
<1>3. /\ store[v[1]].hard_state.term \in Nat
      /\ store'[v[1]].hard_state.term \in Nat
  BY <1>2 DEF TypeInv, TypeOK, Store, HardState
<1> QED  BY <1>2, <1>3 DEF RecordedVote

\* Memory and storage agree in detail.
LEMMA SyncedFields ==
    ASSUME TypeInv, NEW n \in Server, Synced(n)
    PROVE  /\ store[n].hard_state.term = sm[n].current_term
           /\ store[n].hard_state.vote = IF sm[n].voted_for = None THEN ZeroId
                                         ELSE sm[n].voted_for
BY DEF Synced, hard_state_of

\* A calm step changes no vote in storage without a higher term.
LEMMA CalmKeepsVote ==
    ASSUME TypeInv, TypeInv', HardStateSync, ~ServeBeforeRestore,
           NEW n \in Server, Calm(n), NEW p \in Server
    PROVE  \/ /\ store'[p].hard_state.term = store[p].hard_state.term
              /\ store'[p].hard_state.vote = store[p].hard_state.vote
           \/ store'[p].hard_state.term > store[p].hard_state.term
<1>1. CASE p # n
  BY <1>1 DEF Calm, OthersStay
<1>2. CASE p = n /\ HigherNode(n)
  <2>1. phase[n] # "starting"
    BY <1>2 DEF HigherNode
  <2>2. store[n].hard_state.term = sm[n].current_term
    BY <2>1, SyncedFields DEF HardStateSync, Synced
  <2>3. store'[n].hard_state.term = sm'[n].current_term
    BY <1>2 DEF HigherNode, hard_state_of
  <2> QED  BY <1>2, <2>2, <2>3 DEF HigherNode
<1>3. CASE p = n /\ QuietNode(n)
  <2>1. CASE store'[n].hard_state = store[n].hard_state
    BY <1>3, <2>1
  <2>2. CASE phase[n] # "starting" /\ store'[n].hard_state = hard_state_of(sm'[n])
    <3>1. store[n].hard_state = hard_state_of(sm[n])
      BY <2>2 DEF HardStateSync
    <3> QED  BY <1>3, <2>2, <3>1 DEF QuietNode, hard_state_of
  <2> QED  BY <1>3, <2>1, <2>2 DEF QuietNode
<1> QED  BY <1>1, <1>2, <1>3 DEF Calm

\* Every step keeps the votes recorded, when the node does not serve before it
\* restored its state and no node has the id that means "no vote".
LEMMA VotesStep ==
    ASSUME ~ServeBeforeRestore, ZeroId \notin Server
    PROVE  VoteInv /\ TypeInv' /\ [Next]_vars => VotesRecorded'
<1> SUFFICES ASSUME VoteInv, TypeInv', [Next]_vars, NEW v \in votes'
             PROVE  RecordedVote(v)'
  BY DEF VotesRecorded
<1>1. TypeInv /\ HardStateSync /\ VotesRecorded
  BY DEF VoteInv
<1>2. \A w \in votes : w[1] \in Server /\ w[2] \in Nat /\ w[3] \in Server
  BY <1>1 DEF TypeInv, TypeOK
<1>3. ASSUME v \in votes, UNCHANGED store
      PROVE  RecordedVote(v)'
  BY <1>1, <1>3, RecordedKept DEF VotesRecorded
<1>4. CASE UNCHANGED <<sm, store, phase, incarnation, net, votes, leaders>>
  BY <1>3, <1>4
<1>5. ASSUME NEW n \in Server, Calm(n) PROVE RecordedVote(v)'
  <2>1. v \in votes
    BY <1>5 DEF Calm
  <2> QED  BY <1>1, <1>2, <1>5, <2>1, CalmKeepsVote, RecordedKept DEF VotesRecorded
<1>6. ASSUME NEW n \in Server, Standing(n) PROVE RecordedVote(v)'
  <2> DEFINE t == sm[n].current_term + 1
  <2>1. /\ sm[n].current_term \in Nat
        /\ store[n].hard_state.term = sm[n].current_term
    BY <1>1, <1>6, SyncedFields DEF Standing, HardStateSync, Synced, TypeInv, TypeOK, StateMachine
  <2>2. store'[n].hard_state.term = t /\ store'[n].hard_state.vote = n
    BY <1>6, ConstantsAssumption DEF Standing, hard_state_of
  <2>3. CASE v = <<n, t, n>>
    BY <2>1, <2>2, <2>3 DEF RecordedVote
  <2>4. CASE v \in votes /\ v[1] = n
    <3>1. store'[n].hard_state.term > store[n].hard_state.term
      BY <2>1, <2>2
    <3> QED  BY <1>1, <2>4, <3>1, RecordedKept DEF VotesRecorded
  <2>5. CASE v \in votes /\ v[1] # n
    <3>1. store'[v[1]].hard_state = store[v[1]].hard_state
      BY <1>2, <1>6, <2>5 DEF Standing, OthersStay
    <3> QED  BY <1>1, <2>5, <3>1, RecordedKept DEF VotesRecorded
  <2>6. v \in votes \/ v = <<n, t, n>>
    BY <1>6 DEF Standing
  <2> QED  BY <2>3, <2>4, <2>5, <2>6
<1>7. ASSUME NEW n \in Server, NEW m \in net.vote_req, Granting(n, m) PROVE RecordedVote(v)'
  <2>0. m.term \in Nat /\ m.candidate_id \in Server
    BY <1>1 DEF TypeInv, TypeOK, Net, VoteReq
  <2>1. /\ sm[n].current_term \in Nat
        /\ store[n].hard_state.term = sm[n].current_term
        /\ store[n].hard_state.vote = IF sm[n].voted_for = None THEN ZeroId
                                      ELSE sm[n].voted_for
    <3>1. phase[n] # "starting"
      BY <1>7 DEF Granting
    <3>2. Synced(n)
      BY <1>1, <3>1 DEF HardStateSync, Synced
    <3> QED  BY <1>1, <3>2, SyncedFields DEF TypeInv, TypeOK, StateMachine
  <2>2. store'[n].hard_state.term = m.term /\ store'[n].hard_state.vote = m.candidate_id
    BY <1>7, <2>0, ConstantsAssumption DEF Granting, hard_state_of
  <2>3. CASE v = <<n, m.term, m.candidate_id>>
    BY <2>0, <2>2, <2>3 DEF RecordedVote
  <2>4. CASE v \in votes /\ v[1] = n /\ m.term > sm[n].current_term
    <3>1. store'[n].hard_state.term > store[n].hard_state.term
      BY <2>1, <2>2, <2>4
    <3> QED  BY <1>1, <2>4, <3>1, RecordedKept DEF VotesRecorded
  <2>5. CASE /\ v \in votes /\ v[1] = n /\ m.term = sm[n].current_term
             /\ sm[n].voted_for \in {None, m.candidate_id}
    <3>1. RecordedVote(v) /\ v[3] \in Server
      BY <1>1, <1>2, <2>5 DEF VotesRecorded
    <3>2. v[2] <= m.term
      BY <2>1, <2>5, <3>1 DEF RecordedVote
    <3>3. v[2] = m.term => v[3] = m.candidate_id
      BY <2>1, <2>5, <3>1 DEF RecordedVote
    <3> QED  BY <2>2, <2>5, <3>2, <3>3 DEF RecordedVote
  <2>6. CASE v \in votes /\ v[1] # n
    <3>1. store'[v[1]].hard_state = store[v[1]].hard_state
      BY <1>2, <1>7, <2>6 DEF Granting, OthersStay
    <3> QED  BY <1>1, <2>6, <3>1, RecordedKept DEF VotesRecorded
  <2>7. v \in votes \/ v = <<n, m.term, m.candidate_id>>
    BY <1>7 DEF Granting
  <2>8. \/ m.term > sm[n].current_term
        \/ m.term = sm[n].current_term /\ sm[n].voted_for \in {None, m.candidate_id}
    BY <1>7 DEF Granting
  <2> QED  BY <2>3, <2>4, <2>5, <2>6, <2>7, <2>8
<1>8. ASSUME NEW n \in Server, NEW m, Counting(n, m) PROVE RecordedVote(v)'
  <2>1. v \in votes
    BY <1>8 DEF Counting
  <2>2. store'[v[1]].hard_state = store[v[1]].hard_state
    BY <1>2, <1>8, <2>1 DEF Counting, OthersStay
  <2> QED  BY <1>1, <2>1, <2>2, RecordedKept DEF VotesRecorded
<1>9. ASSUME NEW n \in Server, restore(n) \/ shutdown(n) \/ start(n) PROVE RecordedVote(v)'
  <2>1. v \in votes /\ store' = store
    BY <1>9 DEF restore, shutdown, start, history
  <2> QED  BY <1>3, <2>1
<1> QED  BY <1>1, <1>4, <1>5, <1>6, <1>7, <1>8, <1>9, ElectionSteps

\* A vote just given is a vote of the term in storage.
LEMMA NewVotes ==
    ASSUME TypeInv, [Next]_vars, NEW v \in votes', v \notin votes
    PROVE  v[2] = store'[v[1]].hard_state.term
<1>1. PICK n \in Server : Standing(n) \/ \E m \in net.vote_req : Granting(n, m)
  BY ElectionSteps DEF Calm, Counting, restore, shutdown, start, history
<1>2. CASE Standing(n)
  BY <1>2 DEF Standing, hard_state_of
<1>3. CASE \E m \in net.vote_req : Granting(n, m)
  BY <1>3 DEF Granting, hard_state_of
<1> QED  BY <1>1, <1>2, <1>3

\* So a second vote in a term is the vote the first one recorded.
LEMMA OneVoteStep ==
    ASSUME TypeInv, OneVotePerTerm, VotesRecorded', [Next]_vars
    PROVE  OneVotePerTerm'
<1> SUFFICES ASSUME NEW v \in votes', NEW w \in votes', v[1] = w[1], v[2] = w[2]
             PROVE  v[3] = w[3]
  BY DEF OneVotePerTerm
<1>1. RecordedVote(v)' /\ RecordedVote(w)'
  BY DEF VotesRecorded
<1>2. CASE v \in votes /\ w \in votes
  BY <1>2 DEF OneVotePerTerm
<1>3. CASE v \notin votes \/ w \notin votes
  <2>1. v[2] = store'[v[1]].hard_state.term
    BY <1>3, NewVotes
  <2> QED  BY <1>1, <2>1 DEF RecordedVote
<1> QED  BY <1>2, <1>3

\* Votes are recorded and unique from the start on.
LEMMA VoteInvariant ==
    ASSUME ~ServeBeforeRestore, ZeroId \notin Server
    PROVE  Spec => []VoteInv
<1>1. VoteInv /\ [Next]_vars => VoteInv'
  BY NextType, SyncStep, VotesStep, OneVoteStep DEF VoteInv
<1>2. Init => VoteInv
  <2>1. Init => VotesRecorded /\ OneVotePerTerm
    BY DEF Init, VotesRecorded, OneVotePerTerm
  <2> QED  BY <2>1, InitType, SyncInit DEF VoteInv
<1> QED  BY <1>1, <1>2, PTL DEF Spec

\* A node never votes for two candidates of one term, restarts included, as long
\* as RPCs reach it only once its event loop restored the hard state and no node
\* has id 0 (both are needed: see the README's section 3 and restored_vote).
THEOREM VotesOnce ==
    ASSUME ~ServeBeforeRestore, ZeroId \notin Server
    PROVE  Spec => []OneVotePerTerm
<1>1. VoteInv => OneVotePerTerm
  BY DEF VoteInv
<1> QED  BY <1>1, VoteInvariant, PTL

-----------------------------------------------------------------------------
(* Leaders.                                                                *)

\* Between start() and the restore the node is a follower of term 0.
Unstarted == \A n \in Server : phase[n] = "starting" =>
    sm[n].role = "Follower" /\ sm[n].current_term = 0

\* A granted vote on its way back was given.
GrantsRecorded == \A m \in net.vote_resp : m.vote_granted => <<m.peer, m.term, m.to>> \in votes

\* A candidate counts votes given to it in its term.
VotesCounted == \A n \in Server : sm[n].role = "Candidate" =>
    \A p \in sm[n].votes_received : <<p, sm[n].current_term, n>> \in votes

\* A quorum voted for the node in the term.
Elected(t, n) ==
    \E Q \in SUBSET Server :
        /\ Cardinality(Q) >= quorum
        /\ \A p \in Q : <<p, t, n>> \in votes

LeadersElected == \A l \in leaders : Elected(l[1], l[2])

\* No vote that a candidate hears in a step is of an earlier election of its.
Timely == \A m \in net.vote_resp \ net'.vote_resp :
    m.vote_granted /\ sm[m.to].role = "Candidate" => m.term >= sm[m.to].current_term

ElectionInv == VoteInv /\ Unstarted /\ GrantsRecorded /\ VotesCounted /\ LeadersElected

\* Only candidacies, grants and counts add to the history of elections.
LEMMA HistoryKept ==
    ASSUME NEW n, Calm(n) \/ restore(n) \/ shutdown(n) \/ start(n)
    PROVE  votes' = votes /\ leaders' = leaders
<1>1. CASE Calm(n)
  BY <1>1 DEF Calm
<1>2. CASE restore(n) \/ shutdown(n) \/ start(n)
  BY <1>2 DEF restore, shutdown, start, history
<1> QED  BY <1>1, <1>2

\* No vote and no election is ever taken back.
LEMMA HistoryGrows ==
    ASSUME TypeInv, [Next]_vars
    PROVE  votes \subseteq votes' /\ leaders \subseteq leaders'
<1>1. ASSUME NEW n \in Server, Standing(n)
      PROVE  votes \subseteq votes' /\ leaders \subseteq leaders'
  BY <1>1 DEF Standing
<1>2. ASSUME NEW n \in Server, NEW m, Granting(n, m)
      PROVE  votes \subseteq votes' /\ leaders \subseteq leaders'
  BY <1>2 DEF Granting
<1>3. ASSUME NEW n \in Server, NEW m, Counting(n, m)
      PROVE  votes \subseteq votes' /\ leaders \subseteq leaders'
  BY <1>3 DEF Counting
<1> QED  BY <1>1, <1>2, <1>3, HistoryKept, ElectionSteps

LEMMA VotesGrow ==
    ASSUME TypeInv, [Next]_vars
    PROVE  votes \subseteq votes'
BY HistoryGrows

\* Without early serving nothing happens to a node that has not restored yet.
LEMMA UnstartedStep ==
    ASSUME ~ServeBeforeRestore, TypeInv, Unstarted, [Next]_vars
    PROVE  Unstarted'
<1> SUFFICES ASSUME NEW p \in Server, phase'[p] = "starting"
             PROVE  sm'[p].role = "Follower" /\ sm'[p].current_term = 0
  BY DEF Unstarted
<1>0. phase \in [Server -> {"starting", "running", "stopped"}]
  BY DEF TypeInv, TypeOK
<1>1. phase[p] = "starting" => sm[p].role = "Follower" /\ sm[p].current_term = 0
  BY DEF Unstarted
<1>2. CASE UNCHANGED <<sm, store, phase, incarnation, net, votes, leaders>>
  BY <1>1, <1>2
<1>3. ASSUME NEW n \in Server, Calm(n)
      PROVE  sm'[p].role = "Follower" /\ sm'[p].current_term = 0
  <2>1. phase[p] = "starting"
    BY <1>3 DEF Calm
  <2> QED  BY <1>1, <1>3, <2>1 DEF Calm, QuietNode, HigherNode, OthersStay
<1>4. ASSUME NEW n \in Server,
             Standing(n) \/ (\E m : Granting(n, m)) \/ (\E m : Counting(n, m))
      PROVE  sm'[p].role = "Follower" /\ sm'[p].current_term = 0
  <2>1. phase[p] = "starting" /\ p # n
    BY <1>4 DEF Standing, Granting, Counting
  <2>2. OthersStay(n)
    BY <1>4 DEF Standing, Granting, Counting
  <2> QED  BY <1>1, <2>1, <2>2 DEF OthersStay
<1>5. ASSUME NEW n \in Server, restore(n)
      PROVE  sm'[p].role = "Follower" /\ sm'[p].current_term = 0
  <2>1. /\ phase' = [phase EXCEPT ![n] = "running"]
        /\ \A q \in Server \ {n} : sm'[q] = sm[q]
    BY <1>5, RestoreFields
  <2> QED  BY <1>0, <1>1, <2>1
<1>6. ASSUME NEW n \in Server, shutdown(n)
      PROVE  sm'[p].role = "Follower" /\ sm'[p].current_term = 0
  BY <1>0, <1>1, <1>6 DEF shutdown
<1>7. ASSUME NEW n \in Server, start(n)
      PROVE  sm'[p].role = "Follower" /\ sm'[p].current_term = 0
  <2>1. /\ phase' = [phase EXCEPT ![n] = "starting"]
        /\ sm'[n].role = "Follower" /\ sm'[n].current_term = 0
        /\ \A q \in Server \ {n} : sm'[q] = sm[q]
    BY <1>7, StartFields
  <2> QED  BY <1>0, <1>1, <2>1
<1> QED  BY <1>2, <1>3, <1>4, <1>5, <1>6, <1>7, ElectionSteps

\* An answer that grants a vote is sent by the step that gives it.
LEMMA GrantsStep ==
    ASSUME TypeInv, GrantsRecorded, [Next]_vars
    PROVE  GrantsRecorded'
<1> SUFFICES ASSUME NEW r \in net'.vote_resp, r.vote_granted
             PROVE  <<r.peer, r.term, r.to>> \in votes'
  BY DEF GrantsRecorded
<1>1. CASE r \in net.vote_resp
  BY <1>1, VotesGrow DEF GrantsRecorded
<1>2. CASE r \notin net.vote_resp
  <2>0. /\ \A n \in Server : ~Calm(n) /\ ~Standing(n)
        /\ \A n \in Server : ~restore(n) /\ ~shutdown(n) /\ ~start(n)
        /\ \A n \in Server, m \in net.vote_resp : ~Counting(n, m)
        /\ net' # net
    <3>1. \A n \in Server : ~Calm(n)
      BY <1>2 DEF Calm
    <3>2. \A n \in Server : ~Standing(n)
      BY <1>2 DEF Standing
    <3>3. \A n \in Server : ~restore(n) /\ ~shutdown(n) /\ ~start(n)
      BY <1>2 DEF restore, shutdown, start
    <3>4. \A n \in Server, m \in net.vote_resp : ~Counting(n, m)
      BY <1>2 DEF Counting
    <3> QED  BY <1>2, <3>1, <3>2, <3>3, <3>4
  <2>1. PICK n \in Server, m \in net.vote_req : Granting(n, m)
    BY <2>0, ElectionSteps
  <2> QED  BY <1>2, <2>1 DEF Granting
<1> QED  BY <1>1, <1>2

\* A vote is counted in the term it was given in: unless responses are late, the
\* answer's term is the candidate's.
LEMMA CountedStep ==
    ASSUME ~LateResponses \/ Timely, TypeInv, Unstarted, GrantsRecorded, VotesCounted, [Next]_vars
    PROVE  VotesCounted'
<1> SUFFICES ASSUME NEW p \in Server, sm'[p].role = "Candidate", NEW q \in sm'[p].votes_received
             PROVE  <<q, sm'[p].current_term, p>> \in votes'
  BY DEF VotesCounted
<1>1. votes \subseteq votes'
  BY VotesGrow
<1>2. ASSUME sm'[p].role = sm[p].role, sm'[p].current_term = sm[p].current_term,
             sm'[p].votes_received = sm[p].votes_received
      PROVE  <<q, sm'[p].current_term, p>> \in votes'
  BY <1>1, <1>2 DEF VotesCounted
<1>3. CASE UNCHANGED <<sm, store, phase, incarnation, net, votes, leaders>>
  BY <1>2, <1>3
<1>4. ASSUME NEW n \in Server, OthersStay(n), p # n
      PROVE  <<q, sm'[p].current_term, p>> \in votes'
  BY <1>2, <1>4 DEF OthersStay
<1>5. ASSUME NEW n \in Server, Calm(n)
      PROVE  <<q, sm'[p].current_term, p>> \in votes'
  BY <1>2, <1>4, <1>5 DEF Calm, QuietNode, HigherNode
<1>6. ASSUME NEW n \in Server, Standing(n)
      PROVE  <<q, sm'[p].current_term, p>> \in votes'
  BY <1>4, <1>6 DEF Standing
<1>7. ASSUME NEW n \in Server, NEW m \in net.vote_req, Granting(n, m)
      PROVE  <<q, sm'[p].current_term, p>> \in votes'
  BY <1>2, <1>4, <1>7 DEF Granting
<1>8. ASSUME NEW n \in Server, NEW m \in net.vote_resp, Counting(n, m)
      PROVE  <<q, sm'[p].current_term, p>> \in votes'
  <2>1. CASE p # n
    BY <1>4, <1>8, <2>1 DEF Counting
  <2>2. CASE p = n
    <3>1. m.term \in Nat /\ sm[n].current_term \in Nat
      BY DEF TypeInv, TypeOK, Net, VoteResp, StateMachine
    <3>2. m.term = sm[n].current_term
      BY <1>8, <3>1 DEF Counting, Timely
    <3>3. <<m.peer, sm[n].current_term, n>> \in votes
      BY <1>8, <3>2 DEF Counting, GrantsRecorded
    <3>4. \A x \in sm[n].votes_received : <<x, sm[n].current_term, n>> \in votes
      BY <1>8 DEF Counting, VotesCounted
    <3> QED  BY <1>8, <2>2, <3>3, <3>4 DEF Counting
  <2> QED  BY <2>1, <2>2
<1>9. ASSUME NEW n \in Server, restore(n)
      PROVE  <<q, sm'[p].current_term, p>> \in votes'
  <2>1. sm'[n].role = sm[n].role /\ \A x \in Server \ {n} : sm'[x] = sm[x]
    BY <1>9, RestoreFields
  <2>2. sm[n].role = "Follower"
    BY <1>9 DEF restore, Unstarted
  <2> QED  BY <1>2, <2>1, <2>2
<1>10. ASSUME NEW n \in Server, shutdown(n)
      PROVE  <<q, sm'[p].current_term, p>> \in votes'
  BY <1>2, <1>10 DEF shutdown
<1>11. ASSUME NEW n \in Server, start(n)
      PROVE  <<q, sm'[p].current_term, p>> \in votes'
  <2>1. sm'[n].role = "Follower" /\ \A x \in Server \ {n} : sm'[x] = sm[x]
    BY <1>11, StartFields
  <2> QED  BY <1>2, <2>1
<1> QED  BY <1>3, <1>5, <1>6, <1>7, <1>8, <1>9, <1>10, <1>11, ElectionSteps

\* Whoever wins has the votes.
LEMMA ElectedStep ==
    ASSUME ~LateResponses \/ Timely, TypeInv, TypeInv', GrantsRecorded, VotesCounted, LeadersElected,
           [Next]_vars
    PROVE  LeadersElected'
<1> SUFFICES ASSUME NEW l \in leaders'
             PROVE  Elected(l[1], l[2])'
  BY DEF LeadersElected
<1>1. votes \subseteq votes'
  BY VotesGrow
<1>2. CASE l \in leaders
  BY <1>1, <1>2 DEF LeadersElected, Elected
<1>3. CASE l \notin leaders
  <2>1. PICK n \in Server : Standing(n) \/ \E m \in net.vote_resp : Counting(n, m)
    BY <1>3, ElectionSteps DEF Calm, Granting, restore, shutdown, start, history
  <2>2. CASE Standing(n)
    <3>1. /\ l = <<sm[n].current_term + 1, n>> /\ Cardinality({n}) >= quorum
          /\ <<n, sm[n].current_term + 1, n>> \in votes'
      BY <1>3, <2>2 DEF Standing
    <3>2. {n} \in SUBSET Server
      OBVIOUS
    <3> QED  BY <3>1, <3>2 DEF Elected
  <2>3. CASE \E m \in net.vote_resp : Counting(n, m)
    <3>1. PICK m \in net.vote_resp : Counting(n, m)
      BY <2>3
    <3> DEFINE Q == sm[n].votes_received \cup {m.peer}
    <3>2. /\ m.term \in Nat /\ sm[n].current_term \in Nat /\ m.peer \in Server
          /\ sm[n].votes_received \in SUBSET Server
      BY DEF TypeInv, TypeOK, Net, VoteResp, StateMachine
    <3>3. m.term = sm[n].current_term
      BY <3>1, <3>2 DEF Counting, Timely
    <3>4. <<m.peer, sm[n].current_term, n>> \in votes
      BY <3>1, <3>3 DEF Counting, GrantsRecorded
    <3>5. \A x \in sm[n].votes_received : <<x, sm[n].current_term, n>> \in votes
      BY <3>1 DEF Counting, VotesCounted
    <3>6. \A x \in Q : <<x, sm[n].current_term, n>> \in votes'
      BY <1>1, <3>4, <3>5
    <3>7. l = <<sm[n].current_term, n>> /\ Cardinality(Q) >= quorum
      BY <1>3, <3>1 DEF Counting
    <3>8. Q \in SUBSET Server
      BY <3>2
    <3> HIDE DEF Q
    <3>9. l[1] = sm[n].current_term /\ l[2] = n
      BY <3>7
    <3> QED  BY <3>6, <3>7, <3>8, <3>9 DEF Elected
  <2> QED  BY <2>1, <2>2, <2>3
<1> QED  BY <1>2, <1>3

LEMMA ElectionInvStep ==
    ASSUME ~ServeBeforeRestore, ~LateResponses \/ Timely, ZeroId \notin Server,
           ElectionInv, [Next]_vars
    PROVE  ElectionInv'
<1>1. /\ VoteInv /\ TypeInv /\ HardStateSync /\ VotesRecorded /\ OneVotePerTerm
      /\ Unstarted /\ GrantsRecorded /\ VotesCounted /\ LeadersElected
  BY DEF ElectionInv, VoteInv
<1>2. TypeInv'
  BY <1>1, NextType
<1>3. VoteInv'
  BY <1>1, <1>2, SyncStep, VotesStep, OneVoteStep DEF VoteInv
<1>4. Unstarted' /\ GrantsRecorded' /\ VotesCounted' /\ LeadersElected'
  BY <1>1, <1>2, UnstartedStep, GrantsStep, CountedStep, ElectedStep
<1> QED  BY <1>3, <1>4 DEF ElectionInv

LEMMA ElectionInvInit == Init => ElectionInv
<1>1. Init => VoteInv
  <2>1. Init => VotesRecorded /\ OneVotePerTerm
    BY DEF Init, VotesRecorded, OneVotePerTerm
  <2> QED  BY <2>1, InitType, SyncInit DEF VoteInv
<1>2. Init => Unstarted
  BY DEF Init, Unstarted
<1>3. Init => GrantsRecorded /\ VotesCounted /\ LeadersElected
  BY DEF Init, NoRpcs, GrantsRecorded, VotesCounted, LeadersElected, new_state
<1> QED  BY <1>1, <1>2, <1>3 DEF ElectionInv

\* The invariant holds in the environment elections need: RPCs reach a node only
\* once it restored its state, no answer outlives the term it was asked in, and
\* no node has the id that means "no vote".
LEMMA ElectionInvariant ==
    ASSUME ~ServeBeforeRestore, ~LateResponses, ZeroId \notin Server
    PROVE  Spec => []ElectionInv
<1>1. ElectionInv /\ [Next]_vars => ElectionInv'
  BY ElectionInvStep
<1> QED  BY <1>1, ElectionInvInit, PTL DEF Spec

\* Any two quorums share a node (RaftConfig::quorum).
LEMMA QuorumsIntersect ==
    ASSUME NEW P \in SUBSET Server, NEW Q \in SUBSET Server,
           Cardinality(P) >= quorum, Cardinality(Q) >= quorum
    PROVE  P \cap Q # {}
<1>1. IsFiniteSet(Server) /\ IsFiniteSet(P) /\ IsFiniteSet(Q)
  BY ConstantsAssumption, FS_Subset
<1>2. Cardinality(Server) \in Nat /\ Cardinality(P) \in Nat /\ Cardinality(Q) \in Nat
  BY <1>1, FS_CardinalityType
<1>3. Cardinality(P) + Cardinality(Q) > Cardinality(Server)
  BY <1>2 DEF quorum
<1> QED  BY <1>1, <1>3, FS_MajoritiesIntersect

\* Two leaders of a term have a voter in common, and it voted once.
LEMMA OneLeaderPerTerm == ElectionInv => ElectionSafety
<1> SUFFICES ASSUME ElectionInv, NEW l \in leaders, NEW k \in leaders, l[1] = k[1]
             PROVE  l[2] = k[2]
  BY DEF ElectionSafety
<1>1. Elected(l[1], l[2]) /\ Elected(k[1], k[2])
  BY DEF ElectionInv, LeadersElected
<1>2. PICK P \in SUBSET Server : /\ Cardinality(P) >= quorum
                                /\ \A p \in P : <<p, l[1], l[2]>> \in votes
  BY <1>1 DEF Elected
<1>3. PICK Q \in SUBSET Server : /\ Cardinality(Q) >= quorum
                                /\ \A p \in Q : <<p, k[1], k[2]>> \in votes
  BY <1>1 DEF Elected
<1>4. PICK p \in P \cap Q : TRUE
  BY <1>2, <1>3, QuorumsIntersect
<1>5. <<p, l[1], l[2]>> \in votes /\ <<p, k[1], k[2]>> \in votes
  BY <1>2, <1>3, <1>4
<1>6. \A v, w \in votes : v[1] = w[1] /\ v[2] = w[2] => v[3] = w[3]
  BY DEF ElectionInv, VoteInv, OneVotePerTerm
<1> QED  BY <1>5, <1>6

\* At most one node wins the election of a term, in a cluster of any size, with
\* any number of restarts, lost and reordered RPCs, as long as no answer is
\* delivered after its candidate moved on (the run StaleVote shows why).
THEOREM ElectionsSafe ==
    ASSUME ~ServeBeforeRestore, ~LateResponses, ZeroId \notin Server
    PROVE  Spec => []ElectionSafety
BY OneLeaderPerTerm, ElectionInvariant, PTL

-----------------------------------------------------------------------------
(* Terms.                                                                  *)

\* What TermsNeverDecrease says of one step.
TermsKept ==
    \A n \in Server :
        /\ store'[n].hard_state.term >= store[n].hard_state.term
        /\ incarnation'[n] = incarnation[n] =>
              sm'[n].current_term >= sm[n].current_term

\* The terms of a node in a step that does not restart it.
LEMMA TermsStep ==
    ASSUME ~ServeBeforeRestore, TypeInv, TypeInv', HardStateSync, Unstarted, [Next]_vars
    PROVE  TermsKept
<1> SUFFICES ASSUME NEW p \in Server
             PROVE  /\ store'[p].hard_state.term >= store[p].hard_state.term
                    /\ incarnation'[p] = incarnation[p] =>
                          sm'[p].current_term >= sm[p].current_term
  BY DEF TermsKept
<1>1. /\ store[p].hard_state.term \in Nat /\ sm[p].current_term \in Nat
      /\ store'[p].hard_state.term \in Nat /\ sm'[p].current_term \in Nat
      /\ incarnation \in [Server -> Nat]
  BY DEF TypeInv, TypeOK, Store, HardState, StateMachine
<1>2. ASSUME phase[p] # "starting" PROVE store[p].hard_state.term = sm[p].current_term
  <2>1. Synced(p)
    BY <1>2 DEF HardStateSync, Synced
  <2> QED  BY <2>1, SyncedFields
<1>3. CASE UNCHANGED <<sm, store, phase, incarnation, net, votes, leaders>>
  BY <1>1, <1>3
<1>4. ASSUME NEW n \in Server, OthersStay(n), p # n
      PROVE  /\ store'[p].hard_state.term >= store[p].hard_state.term
             /\ sm'[p].current_term >= sm[p].current_term
  BY <1>1, <1>4 DEF OthersStay
<1>5. ASSUME NEW n \in Server, Calm(n)
      PROVE  /\ store'[p].hard_state.term >= store[p].hard_state.term
             /\ sm'[p].current_term >= sm[p].current_term
  <2>1. store'[p].hard_state.term >= store[p].hard_state.term
    BY <1>1, <1>5, CalmKeepsVote
  <2>2. CASE p # n
    BY <1>4, <1>5, <2>2 DEF Calm
  <2>3. CASE p = n
    BY <1>1, <1>5, <2>1, <2>3 DEF Calm, QuietNode, HigherNode
  <2> QED  BY <2>2, <2>3
<1>6. ASSUME NEW n \in Server, Standing(n)
      PROVE  /\ store'[p].hard_state.term >= store[p].hard_state.term
             /\ sm'[p].current_term >= sm[p].current_term
  <2>1. CASE p # n
    BY <1>4, <1>6, <2>1 DEF Standing
  <2>2. CASE p = n
    <3>1. /\ store'[p].hard_state.term = sm'[p].current_term
          /\ sm'[p].current_term = sm[p].current_term + 1
          /\ phase[p] # "starting"
      BY <1>6, <2>2 DEF Standing, hard_state_of
    <3> QED  BY <1>1, <1>2, <3>1
  <2> QED  BY <2>1, <2>2
<1>7. ASSUME NEW n \in Server, NEW m \in net.vote_req, Granting(n, m)
      PROVE  /\ store'[p].hard_state.term >= store[p].hard_state.term
             /\ sm'[p].current_term >= sm[p].current_term
  <2>1. CASE p # n
    BY <1>4, <1>7, <2>1 DEF Granting
  <2>2. CASE p = n
    <3>1. /\ store'[p].hard_state.term = sm'[p].current_term
          /\ sm'[p].current_term = m.term
          /\ m.term > sm[p].current_term \/ m.term = sm[p].current_term
          /\ phase[p] # "starting"
      BY <1>7, <2>2 DEF Granting, hard_state_of
    <3> QED  BY <1>1, <1>2, <3>1
  <2> QED  BY <2>1, <2>2
<1>8. ASSUME NEW n \in Server, NEW m \in net.vote_resp, Counting(n, m)
      PROVE  /\ store'[p].hard_state.term >= store[p].hard_state.term
             /\ sm'[p].current_term >= sm[p].current_term
  <2>1. CASE p # n
    BY <1>4, <1>8, <2>1 DEF Counting
  <2>2. CASE p = n
    BY <1>1, <1>8, <2>2 DEF Counting
  <2> QED  BY <2>1, <2>2
<1>9. ASSUME NEW n \in Server, restore(n)
      PROVE  /\ store'[p].hard_state.term >= store[p].hard_state.term
             /\ sm'[p].current_term >= sm[p].current_term
  <2>1. store' = store /\ \A x \in Server \ {n} : sm'[x] = sm[x]
    BY <1>9, RestoreFields
  <2>2. sm[n].current_term = 0
    BY <1>9 DEF restore, Unstarted
  <2> QED  BY <1>1, <2>1, <2>2
<1>10. ASSUME NEW n \in Server, shutdown(n)
      PROVE  /\ store'[p].hard_state.term >= store[p].hard_state.term
             /\ sm'[p].current_term >= sm[p].current_term
  BY <1>1, <1>10 DEF shutdown
<1>11. ASSUME NEW n \in Server, start(n)
      PROVE  /\ store'[p].hard_state.term >= store[p].hard_state.term
             /\ incarnation'[p] = incarnation[p] =>
                   sm'[p].current_term >= sm[p].current_term
  <2>1. /\ store' = store /\ \A x \in Server \ {n} : sm'[x] = sm[x]
        /\ incarnation' = [incarnation EXCEPT ![n] = @ + 1]
    BY <1>11, StartFields
  <2>2. CASE p = n
    <3>1. incarnation'[p] = incarnation[p] + 1 /\ incarnation[p] \in Nat
      BY <1>1, <2>1, <2>2
    <3> QED  BY <1>1, <2>1, <3>1
  <2>3. CASE p # n
    BY <1>1, <2>1, <2>3
  <2> QED  BY <2>2, <2>3
<1> QED  BY <1>3, <1>5, <1>6, <1>7, <1>8, <1>9, <1>10, <1>11, ElectionSteps

\* Neither a restart nor any RPC takes a node back to an earlier term, provided
\* it restores its hard state before it serves.
THEOREM TermsMonotone ==
    ASSUME ~ServeBeforeRestore
    PROVE  Spec => TermsNeverDecrease
<1> DEFINE Inv == TypeInv /\ HardStateSync /\ Unstarted
<1>1. Init => Inv
  BY InitType, SyncInit DEF Init, Unstarted
<1>2. Inv /\ [Next]_vars => Inv'
  BY NextType, SyncStep, UnstartedStep
<1>3. Inv /\ [Next]_vars => [TermsKept]_vars
  BY NextType, TermsStep
<1>4. Spec => [][TermsKept]_vars
  BY <1>1, <1>2, <1>3, PTL DEF Spec
<1> QED  BY <1>4 DEF TermsNeverDecrease, TermsKept

=============================================================================
