-------------------------- MODULE RaftNodeTypeProofs --------------------------
(***************************************************************************)
(* Type correctness of RaftNode for every cluster, every set of commands   *)
(* and every choice of the environment constants.                          *)
(*                                                                         *)
(* TypeOK is not inductive: the index replicate_to puts in front of a      *)
(* batch is next_index - 1, a u64 subtraction, so the proof needs that a   *)
(* leader's next_index is never 0 (ProgressOK).                            *)
(***************************************************************************)
EXTENDS RaftNode, SequenceTheorems, FiniteSetTheorems, TLAPS

-----------------------------------------------------------------------------
(* Storage.                                                                *)

\* A store's indices and terms are natural numbers whatever is asked of it
\* (first_index, last_index and term of MemStorageInner).
LEMMA StoreIndexTypes ==
    ASSUME NEW st \in Store
    PROVE  /\ first_index(st) \in Nat /\ first_index(st) >= 1
           /\ last_index(st) \in Nat
           /\ \A i \in Nat : term_or_zero(st, i) \in Nat
<1>1. /\ st.entries \in Seq(Entry)
      /\ st.snapshot.last_included_index \in Nat
      /\ st.snapshot.last_included_term \in Nat
  BY DEF Store, Snapshot
<1>2. /\ first_index(st) \in Nat /\ first_index(st) >= 1
  BY <1>1 DEF first_index
<1>3. last_index(st) \in Nat
  <2>1. CASE st.entries = <<>>
    BY <1>1, <2>1 DEF last_index
  <2>2. CASE st.entries # <<>>
    <3>1. st.entries[Len(st.entries)] \in Entry
      BY <1>1, <2>2
    <3> QED  BY <2>2, <3>1 DEF last_index, Entry
  <2> QED  BY <2>1, <2>2
<1>4. ASSUME NEW i \in Nat
      PROVE  term_or_zero(st, i) \in Nat
  <2>1. CASE LogCompacted(st, i) \/ LogUnavailable(st, i)
    BY <2>1 DEF term_or_zero
  <2>2. CASE i = 0 \/ i = st.snapshot.last_included_index
    BY <2>2, <1>1 DEF term_or_zero, term
  <2>3. CASE /\ ~LogCompacted(st, i) /\ ~LogUnavailable(st, i)
             /\ i # 0 /\ i # st.snapshot.last_included_index
    <3>1. i - first_index(st) + 1 \in 1 .. Len(st.entries)
      <4>1. Len(st.entries) \in Nat
        BY <1>1
      <4>2. i > st.snapshot.last_included_index
        BY <2>3, <1>1 DEF LogCompacted
      <4>3. i - first_index(st) < Len(st.entries)
        BY <2>3, <1>2, <4>1 DEF LogUnavailable
      <4>4. /\ first_index(st) = st.snapshot.last_included_index + 1
            /\ st.snapshot.last_included_index \in Nat
        BY <1>1 DEF first_index
      <4> QED  BY <4>1, <4>2, <4>3, <4>4
    <3>2. st.entries[i - first_index(st) + 1] \in Entry
      BY <3>1, <1>1
    <3> QED  BY <2>3, <3>2 DEF term_or_zero, term, Entry
  <2> QED  BY <2>1, <2>2, <2>3
<1> QED  BY <1>2, <1>3, <1>4

\* In an aligned store the last index is the offset of the vector's end.
LEMMA AlignedLast ==
    ASSUME NEW st \in Store, Aligned(st)
    PROVE  last_index(st) = first_index(st) + Len(st.entries) - 1
<1>1. /\ st.entries \in Seq(Entry)
      /\ st.snapshot.last_included_index \in Nat
  BY DEF Store, Snapshot
<1>2. CASE st.entries = <<>>
  BY <1>1, <1>2 DEF last_index, first_index
<1>3. CASE st.entries # <<>>
  <2>1. Len(st.entries) \in DOMAIN st.entries
    BY <1>1, <1>3
  <2> QED  BY <1>1, <1>3, <2>1 DEF last_index, first_index, Aligned
<1> QED  BY <1>2, <1>3

\* entries(lo, hi, max) of an aligned store returns entries when the range is
\* inside the log, the condition under which the code does not return an error.
LEMMA EntriesType ==
    ASSUME NEW st \in Store, Aligned(st),
           NEW lo \in Nat, NEW hi \in Nat, NEW max \in Nat,
           lo >= first_index(st), hi <= last_index(st) + 1
    PROVE  entries(st, lo, hi, max) \in Seq(Entry)
<1> DEFINE from == lo - first_index(st) + 1
           upto == hi - first_index(st)
           to == IF upto - from + 1 > max THEN from + max - 1 ELSE upto
<1>1. st.entries \in Seq(Entry)
  BY DEF Store
<1>2. /\ from \in Int /\ to \in Int
      /\ from >= 1 /\ to <= Len(st.entries)
  <2>1. Len(st.entries) \in Nat
    BY <1>1
  <2>2. first_index(st) \in Nat /\ last_index(st) \in Nat
    BY StoreIndexTypes
  <2>3. last_index(st) = first_index(st) + Len(st.entries) - 1
    BY AlignedLast
  <2>4. from \in Int /\ upto \in Int /\ from >= 1 /\ upto <= Len(st.entries)
    <3> DEFINE fi == first_index(st)
               la == last_index(st)
    <3>1. /\ fi \in Nat /\ la \in Nat /\ la = fi + Len(st.entries) - 1
          /\ lo >= fi /\ hi <= la + 1
      BY <2>2, <2>3
    <3> HIDE DEF fi, la
    <3>2. /\ lo - fi + 1 \in Int /\ hi - fi \in Int
          /\ lo - fi + 1 >= 1 /\ hi - fi <= Len(st.entries)
      BY <2>1, <3>1
    <3> QED  BY <3>2 DEF fi
  <2>5. max \in Nat
    OBVIOUS
  <2> HIDE DEF from, upto
  <2>6. to \in Int /\ to <= upto
    BY <2>4, <2>5
  <2> HIDE DEF to
  <2> QED  BY <2>1, <2>4, <2>6
<1>3. \A i \in from .. to : st.entries[i] \in Entry
  BY <1>1, <1>2
<1>4. SubSeq(st.entries, from, to) \in Seq(Entry)
  <2> HIDE DEF from, to
  <2> QED  BY <1>2, <1>3, SubSeqProperties
<1> QED  BY <1>4 DEF entries

\* append_entries and apply_snapshot yield stores, even where they lose the
\* alignment, and leave the hard state alone.
LEMMA AppendType ==
    ASSUME NEW st \in Store, NEW es \in Seq(Entry), es # <<>>
    PROVE  /\ append_entries(st, es) \in Store
           /\ append_entries(st, es).hard_state = st.hard_state
           /\ append_entries(st, es).snapshot = st.snapshot
<1> DEFINE at == es[1].index - first_index(st)
           kept == IF /\ es[1].index <= last_index(st)
                      /\ at \in 0 .. Len(st.entries) - 1
                   THEN SubSeq(st.entries, 1, at)
                   ELSE st.entries
<1>1. st.entries \in Seq(Entry)
  BY DEF Store
<1>2. kept \in Seq(Entry)
  <2>1. ASSUME at \in 0 .. Len(st.entries) - 1
        PROVE  SubSeq(st.entries, 1, at) \in Seq(Entry)
    <3>1. \A i \in 1 .. at : st.entries[i] \in Entry
      BY <1>1, <2>1
    <3>2. at \in Int
      BY <2>1
    <3> HIDE DEF at
    <3> QED  BY <3>1, <3>2, SubSeqProperties
  <2> QED  BY <1>1, <2>1
<1>3. kept \o es \in Seq(Entry)
  <2> HIDE DEF kept
  <2> QED  BY <1>2
<1>4. append_entries(st, es) = [st EXCEPT !.entries = kept \o es]
  BY DEF append_entries
<1> HIDE DEF kept
<1> QED  BY <1>3, <1>4 DEF Store

\* Appending one entry right after the last one keeps a store aligned.
LEMMA AppendAligned ==
    ASSUME NEW st \in Store, Aligned(st), NEW e \in Entry, e.index = last_index(st) + 1
    PROVE  Aligned(append_entries(st, <<e>>))
<1>1. st.entries \in Seq(Entry) /\ Len(st.entries) \in Nat
  BY DEF Store
<1>2. /\ first_index(st) \in Nat /\ last_index(st) \in Nat
      /\ last_index(st) = first_index(st) + Len(st.entries) - 1
  BY StoreIndexTypes, AlignedLast
<1>3. append_entries(st, <<e>>) = [st EXCEPT !.entries = @ \o <<e>>]
  <2>1. <<e>>[1] = e
    OBVIOUS
  <2>2. ~(e.index <= last_index(st))
    BY <1>2
  <2> QED  BY <2>1, <2>2 DEF append_entries
<1> DEFINE st2 == [st EXCEPT !.entries = @ \o <<e>>]
<1>4. st2.entries = st.entries \o <<e>> /\ st2.snapshot = st.snapshot
  BY DEF Store
<1>5. first_index(st2) = first_index(st)
  BY <1>4 DEF first_index
<1> HIDE DEF st2
<1>6. ASSUME NEW k \in DOMAIN st2.entries
      PROVE  st2.entries[k].index = first_index(st) + k - 1
  <2>1. CASE k \in DOMAIN st.entries
    <3>1. st2.entries[k] = st.entries[k]
      BY <1>1, <1>4, <2>1
    <3> QED  BY <2>1, <3>1 DEF Aligned
  <2>2. CASE k = Len(st.entries) + 1
    <3>1. st2.entries[k] = e
      BY <1>1, <1>4, <2>2
    <3> QED  BY <1>1, <1>2, <2>2, <3>1
  <2> QED  BY <1>1, <1>4, <2>1, <2>2
<1> QED  BY <1>3, <1>5, <1>6 DEF Aligned, st2

\* apply_snapshot leaves a store, aligned or not.
LEMMA ApplySnapshotType ==
    ASSUME NEW st \in Store, NEW snap \in Snapshot
    PROVE  /\ apply_snapshot(st, snap) \in Store
           /\ apply_snapshot(st, snap).hard_state = st.hard_state
<1> DEFINE drop == snap.last_included_index - first_index(st) + 1
           kept == IF drop <= 0 THEN st.entries
                   ELSE SubSeq(st.entries, drop + 1, Len(st.entries))
<1>1. st.entries \in Seq(Entry) /\ Len(st.entries) \in Nat
  BY DEF Store
<1>2. drop \in Int
  BY StoreIndexTypes DEF Snapshot
<1>3. kept \in Seq(Entry)
  <2>1. ASSUME drop > 0
        PROVE  SubSeq(st.entries, drop + 1, Len(st.entries)) \in Seq(Entry)
    <3>1. \A i \in drop + 1 .. Len(st.entries) : st.entries[i] \in Entry
      BY <1>1, <1>2, <2>1
    <3> HIDE DEF drop
    <3> QED  BY <1>1, <1>2, <3>1, SubSeqProperties
  <2> QED  BY <1>1, <1>2, <2>1
<1>4. apply_snapshot(st, snap) = [st EXCEPT !.entries = kept, !.snapshot = snap]
  BY DEF apply_snapshot
<1> HIDE DEF kept
<1> QED  BY <1>3, <1>4 DEF Store

-----------------------------------------------------------------------------
(* The in-memory state.                                                    *)

\* A leader has replication progress, with a next_index of at least 1, for
\* every peer.
LeaderProgress(n, s) ==
    s.role = "Leader" => \A p \in Server \ {n} : s.progress[p].next_index >= 1

ProgressOK == \A n \in Server : LeaderProgress(n, sm[n])

TypeInv == TypeOK /\ ProgressOK

\* RaftStateMachine::new
LEMMA NewStateType ==
    ASSUME NEW n \in Server
    PROVE  new_state \in StateMachine /\ LeaderProgress(n, new_state)
BY DEF new_state, StateMachine, Absent, Progress, LeaderProgress

\* become_follower clears the progress map, so nothing is claimed of it.
LEMMA FollowerType ==
    ASSUME NEW s \in StateMachine, NEW t \in Nat, NEW l \in Sender \cup {None}, NEW n \in Server
    PROVE  /\ become_follower(s, t, l) \in StateMachine
           /\ LeaderProgress(n, become_follower(s, t, l))
BY DEF become_follower, StateMachine, Absent, Progress, LeaderProgress

\* become_candidate moves the term on and votes for itself.
LEMMA CandidateType ==
    ASSUME NEW s \in StateMachine, NEW n \in Server
    PROVE  /\ become_candidate(s, n) \in StateMachine
           /\ LeaderProgress(n, become_candidate(s, n))
<1>1. become_candidate(s, n) \in StateMachine
  <2>1. s.current_term + 1 \in Nat
    BY DEF StateMachine
  <2>2. {n} \in SUBSET Server
    OBVIOUS
  <2> QED  BY <2>1, <2>2 DEF become_candidate, StateMachine
<1>2. become_candidate(s, n).role = "Candidate"
  BY DEF become_candidate, StateMachine
<1> QED  BY <1>1, <1>2 DEF LeaderProgress

\* become_leader gives every peer a next_index past the end of the log.
LEMMA LeaderType ==
    ASSUME NEW s \in StateMachine, NEW n \in Server, NEW last \in Nat
    PROVE  /\ become_leader(s, n, last) \in StateMachine
           /\ become_leader(s, n, last).role = "Leader"
           /\ LeaderProgress(n, become_leader(s, n, last))
<1> DEFINE prog == [p \in Server |-> IF p = n THEN Absent
                                    ELSE [next_index |-> last + 1, match_index |-> 0]]
<1>1. prog \in [Server -> Progress]
  BY DEF Absent, Progress
<1>2. \A p \in Server \ {n} : prog[p].next_index >= 1
  OBVIOUS
<1>3. become_leader(s, n, last) = [s EXCEPT !.role = "Leader", !.leader_id = n, !.progress = prog]
  BY DEF become_leader
<1> HIDE DEF prog
<1> QED  BY <1>1, <1>2, <1>3 DEF StateMachine, LeaderProgress, Sender

\* save_hard_state replaces the hard state and nothing else.
LEMMA SavedType ==
    ASSUME NEW st \in Store, NEW s \in StateMachine
    PROVE  /\ hard_state_of(s) \in HardState
           /\ Saved(st, s) \in Store
           /\ Saved(st, s).hard_state = hard_state_of(s)
           /\ Saved(st, s).entries = st.entries
           /\ Saved(st, s).snapshot = st.snapshot
<1>1. hard_state_of(s) \in HardState
  BY DEF hard_state_of, HardState, StateMachine
<1> QED  BY <1>1 DEF Saved, save_hard_state, Store

\* The step-down that opens every RPC handler, in memory and on storage.
LEMMA ObserveType ==
    ASSUME NEW s \in StateMachine, NEW st \in Store, NEW n \in Server,
           NEW t \in Nat, NEW l \in Sender \cup {None}, LeaderProgress(n, s)
    PROVE  /\ Observe(s, t, l) \in StateMachine
           /\ LeaderProgress(n, Observe(s, t, l))
           /\ ObserveStore(st, s, t, l) \in Store
BY FollowerType, SavedType DEF Observe, ObserveStore

-----------------------------------------------------------------------------
(* Messages.                                                               *)

\* start_election sends what the end of its log says.
LEMMA VoteRequestType ==
    ASSUME NEW n \in Server, NEW p \in Server, NEW s \in StateMachine, NEW st \in Store,
           incarnation \in [Server -> Nat]
    PROVE  vote_request(n, s, st, p) \in VoteReq
<1>1. /\ last_index(st) \in Nat
      /\ term_or_zero(st, last_index(st)) \in Nat
  BY StoreIndexTypes
<1>2. s.current_term \in Nat /\ incarnation[n] \in Nat
  BY DEF StateMachine
<1> QED  BY <1>1, <1>2 DEF vote_request, VoteReq

\* replicate_to never sends a request it could not build: the batch is inside
\* the log and the index before it does not underflow.
LEMMA AppendRequestType ==
    ASSUME NEW n \in Server, NEW p \in Server \ {n}, NEW s \in StateMachine, NEW st \in Store,
           incarnation \in [Server -> Nat], Aligned(st),
           s.role = "Leader", LeaderProgress(n, s), ~NeedsSnapshot(s, st, p)
    PROVE  append_request(n, s, st, p) \in AppendReq
<1> DEFINE next == s.progress[p].next_index
           batch == IF last_index(st) >= next
                    THEN entries(st, next, last_index(st) + 1, MaxBatch) ELSE <<>>
<1>1. next \in Nat /\ next >= 1
  BY DEF StateMachine, Progress, LeaderProgress
<1>2. next - 1 \in Nat
  BY <1>1
<1>3. term_or_zero(st, next - 1) \in Nat /\ last_index(st) \in Nat /\ first_index(st) \in Nat
  BY <1>2, StoreIndexTypes
<1>4. batch \in Seq(Entry)
  <2>1. CASE last_index(st) >= next
    <3>1. next >= first_index(st)
      BY <1>1, <1>3, <2>1 DEF NeedsSnapshot, EntriesCompacted
    <3>2. MaxBatch \in Nat /\ last_index(st) + 1 \in Nat
      BY <1>3, ConstantsAssumption
    <3>3. entries(st, next, last_index(st) + 1, MaxBatch) \in Seq(Entry)
      <4> HIDE DEF next
      <4>1. last_index(st) + 1 <= last_index(st) + 1
        BY <1>3
      <4> QED  BY <1>1, <3>1, <3>2, <4>1, EntriesType
    <3> QED  BY <2>1, <3>3
  <2>2. CASE ~(last_index(st) >= next)
    BY <2>2
  <2> QED  BY <2>1, <2>2
<1>5. s.current_term \in Nat /\ s.commit_index \in Nat /\ incarnation[n] \in Nat
  BY DEF StateMachine
<1>6. append_request(n, s, st, p) =
        [leader_id |-> n, to |-> p, incarnation |-> incarnation[n], term |-> s.current_term,
         prev_log_index |-> next - 1, prev_log_term |-> term_or_zero(st, next - 1),
         entries |-> batch, leader_commit |-> s.commit_index]
  BY DEF append_request
<1> HIDE DEF next, batch
<1> QED  BY <1>2, <1>3, <1>4, <1>5, <1>6 DEF AppendReq, Sender

\* send_snapshot_to sends the snapshot in storage.
LEMMA SnapshotRequestType ==
    ASSUME NEW n \in Server, NEW p \in Server, NEW s \in StateMachine, NEW st \in Store,
           incarnation \in [Server -> Nat]
    PROVE  snapshot_request(n, s, st, p) \in SnapReq
<1>1. s.current_term \in Nat /\ incarnation[n] \in Nat /\ st.snapshot \in Snapshot
  BY DEF StateMachine, Store
<1> QED  BY <1>1 DEF snapshot_request, SnapReq

\* replicate_all adds requests and, without redundant RPCs, drops superseded
\* ones; votes are left alone.
LEMMA ReplicateAllType ==
    ASSUME NEW nt \in Net, NEW n \in Server, NEW s \in StateMachine, NEW st \in Store,
           incarnation \in [Server -> Nat], Aligned(st),
           s.role = "Leader", LeaderProgress(n, s)
    PROVE  /\ replicate_all(nt, n, s, st) \in Net
           /\ replicate_all(nt, n, s, st).vote_req = nt.vote_req
           /\ replicate_all(nt, n, s, st).vote_resp = nt.vote_resp
<1> DEFINE behind == {p \in Peers(n) : NeedsSnapshot(s, st, p)}
           out == Outstanding(nt, n)
           appends == {append_request(n, s, st, p) : p \in Peers(n) \ behind}
           snaps == {snapshot_request(n, s, st, p) : p \in behind}
<1>1. /\ out \in Net
      /\ out.vote_req = nt.vote_req /\ out.vote_resp = nt.vote_resp
  BY DEF Outstanding, Net
<1>2. Peers(n) \subseteq Server \ {n}
  BY DEF Peers
<1>3. appends \subseteq AppendReq
  BY <1>2, AppendRequestType
<1>4. snaps \subseteq SnapReq
  BY <1>2, SnapshotRequestType
<1>5. replicate_all(nt, n, s, st) = [out EXCEPT !.append_req = @ \cup appends,
                                               !.snap_req = @ \cup snaps]
  BY DEF replicate_all
<1> HIDE DEF out, appends, snaps
<1>6. [out EXCEPT !.append_req = @ \cup appends, !.snap_req = @ \cup snaps] \in Net
  BY <1>1, <1>3, <1>4 DEF Net
<1> QED  BY <1>1, <1>5, <1>6 DEF Net

-----------------------------------------------------------------------------
(* One lemma per action: it preserves TypeInv.                             *)

\* A step that replaces the memory of one node by a well-typed one.
LEMMA SmUpdate ==
    ASSUME TypeInv, NEW n \in Server, NEW s \in StateMachine, LeaderProgress(n, s),
           sm' = [sm EXCEPT ![n] = s]
    PROVE  sm' \in [Server -> StateMachine] /\ ProgressOK'
<1>1. sm \in [Server -> StateMachine]
  BY DEF TypeInv, TypeOK
<1>2. sm' \in [Server -> StateMachine]
  BY <1>1
<1>3. ASSUME NEW p \in Server
      PROVE  LeaderProgress(p, sm'[p])
  <2>1. CASE p = n
    BY <1>1, <2>1
  <2>2. CASE p # n
    <3>1. sm'[p] = sm[p]
      BY <1>1, <2>2
    <3> QED  BY <3>1 DEF TypeInv, ProgressOK
  <2> QED  BY <2>1, <2>2
<1> QED  BY <1>2, <1>3 DEF ProgressOK, LeaderProgress

\* A step that replaces the storage of one node by a well-typed one.
LEMMA StoreUpdate ==
    ASSUME TypeInv, NEW n \in Server, NEW st \in Store,
           store' = [store EXCEPT ![n] = st]
    PROVE  store' \in [Server -> Store]
BY DEF TypeInv, TypeOK

\* start_election: candidacy, and leadership at once in a cluster of one.
LEMMA StartElectionType ==
    ASSUME TypeInv, NEW n \in Server, start_election(n)
    PROVE  TypeInv'
<1> DEFINE s   == become_candidate(sm[n], n)
           won == Cardinality(s.votes_received) >= quorum
           l   == become_leader(s, n, last_index(store[n]))
           reqs == {vote_request(n, s, store[n], p) : p \in Peers(n)}
           nt  == [net EXCEPT !.vote_req = @ \cup reqs]
<1>1. /\ sm[n] \in StateMachine /\ store[n] \in Store /\ net \in Net
      /\ incarnation \in [Server -> Nat] /\ LeaderProgress(n, sm[n])
  BY DEF TypeInv, TypeOK, ProgressOK
<1>2. s \in StateMachine /\ LeaderProgress(n, s)
  BY <1>1, CandidateType
<1>3. l \in StateMachine /\ LeaderProgress(n, l) /\ l.role = "Leader"
  <2>1. last_index(store[n]) \in Nat
    BY <1>1, StoreIndexTypes
  <2> HIDE DEF s
  <2> QED  BY <1>2, <2>1, LeaderType
<1>4. nt \in Net
  <2>1. reqs \subseteq VoteReq
    BY <1>1, <1>2, VoteRequestType DEF Peers
  <2> HIDE DEF reqs
  <2> QED  BY <1>1, <2>1 DEF Net
<1>5. Saved(store[n], s) \in Store
  BY <1>1, <1>2, SavedType
<1>6. /\ Aligned(store[n])
      /\ store' = [store EXCEPT ![n] = Saved(store[n], s)]
      /\ votes' = votes \cup {<<n, s.current_term, n>>}
      /\ \/ /\ sm' = [sm EXCEPT ![n] = l]
            /\ leaders' = leaders \cup {<<s.current_term, n>>}
            /\ net' = replicate_all(nt, n, l, store[n])
         \/ /\ sm' = [sm EXCEPT ![n] = s] /\ net' = nt /\ leaders' = leaders
      /\ UNCHANGED <<pending, phase, incarnation, applied, acked, proposed, committed>>
  BY <1>1 DEF start_election, TypeInv, TypeOK
<1>7. s.current_term \in Nat
  <2> HIDE DEF s
  <2> QED  BY <1>2 DEF StateMachine
<1> HIDE DEF s, l, nt
<1>8. store' \in [Server -> Store]
  BY <1>5, <1>6, StoreUpdate
<1>9. sm' \in [Server -> StateMachine] /\ ProgressOK'
  BY <1>2, <1>3, <1>6, SmUpdate
<1>10. net' \in Net
  BY <1>1, <1>3, <1>4, <1>6, ReplicateAllType
<1>11. votes' \subseteq Server \X Nat \X Server /\ leaders' \subseteq Nat \X Server
  BY <1>6, <1>7 DEF TypeInv, TypeOK
<1> QED  BY <1>6, <1>8, <1>9, <1>10, <1>11 DEF TypeInv, TypeOK

\* on_request_vote, granted or denied.
LEMMA OnRequestVoteType ==
    ASSUME TypeInv, NEW n \in Server, NEW m \in net.vote_req, on_request_vote(n, m)
    PROVE  TypeInv'
<1> DEFINE s  == Observe(sm[n], m.term, None)
           st == ObserveStore(store[n], sm[n], m.term, None)
           v  == [s EXCEPT !.voted_for = m.candidate_id]
           resp(g) == [peer |-> n, to |-> m.candidate_id, incarnation |-> m.incarnation,
                       term |-> s.current_term, vote_granted |-> g]
           reply(g) == [net EXCEPT !.vote_req = @ \ {m}, !.vote_resp = @ \cup {resp(g)}]
<1>1. /\ sm[n] \in StateMachine /\ store[n] \in Store /\ net \in Net
      /\ LeaderProgress(n, sm[n])
  BY DEF TypeInv, TypeOK, ProgressOK
<1>2. /\ m \in VoteReq
      /\ m.term \in Nat /\ m.candidate_id \in Server /\ m.incarnation \in Nat
  BY <1>1 DEF Net, VoteReq
<1>3. s \in StateMachine /\ LeaderProgress(n, s) /\ st \in Store
  BY <1>1, <1>2, ObserveType
<1>4. /\ \/ /\ sm' = [sm EXCEPT ![n] = v]
            /\ store' = [store EXCEPT ![n] = Saved(st, v)]
            /\ votes' = votes \cup {<<n, m.term, m.candidate_id>>}
            /\ net' = reply(TRUE)
         \/ /\ sm' = [sm EXCEPT ![n] = s]
            /\ store' = [store EXCEPT ![n] = st]
            /\ net' = reply(FALSE)
            /\ votes' = votes
      /\ UNCHANGED <<pending, phase, incarnation, applied, acked, proposed, leaders, committed>>
  BY DEF on_request_vote, clientVars
<1> HIDE DEF s, st
<1>5. v \in StateMachine /\ LeaderProgress(n, v)
  BY <1>2, <1>3 DEF StateMachine, LeaderProgress
<1>6. s.current_term \in Nat
  BY <1>3 DEF StateMachine
<1>7. \A g \in BOOLEAN : resp(g) \in VoteResp
  BY <1>2, <1>6 DEF VoteResp
<1>8. \A g \in BOOLEAN : reply(g) \in Net
  <2> HIDE DEF resp
  <2> QED  BY <1>1, <1>7 DEF Net
<1>9. Saved(st, v) \in Store
  BY <1>3, <1>5, SavedType
<1> HIDE DEF v, reply
<1>10. store' \in [Server -> Store]
  BY <1>3, <1>4, <1>9, StoreUpdate
<1>11. sm' \in [Server -> StateMachine] /\ ProgressOK'
  BY <1>3, <1>4, <1>5, SmUpdate
<1>12. net' \in Net
  BY <1>4, <1>8
<1>13. votes' \subseteq Server \X Nat \X Server
  <2>1. <<n, m.term, m.candidate_id>> \in Server \X Nat \X Server
    BY <1>2
  <2>2. votes \subseteq Server \X Nat \X Server
    BY DEF TypeInv, TypeOK
  <2> QED  BY <1>4, <2>1, <2>2
<1> QED  BY <1>4, <1>10, <1>11, <1>12, <1>13 DEF TypeInv, TypeOK

\* The step-down that opens every handler of an answer.
LEMMA StepDownType ==
    ASSUME TypeInv, NEW n \in Server, NEW m, m.term \in Nat, StepDown(n, m)
    PROVE  sm' \in [Server -> StateMachine] /\ ProgressOK' /\ store' \in [Server -> Store]
<1> DEFINE s == become_follower(sm[n], m.term, None)
<1>1. sm \in [Server -> StateMachine] /\ store[n] \in Store
  BY DEF TypeInv, TypeOK
<1>2. s \in StateMachine /\ LeaderProgress(n, s)
  BY <1>1, FollowerType
<1>3. sm' = [sm EXCEPT ![n] = s]
  BY DEF StepDown
<1>4. store' = [store EXCEPT ![n] = Saved(store[n], sm'[n])]
  BY DEF StepDown
<1> HIDE DEF s
<1>5. sm'[n] = s
  BY <1>1, <1>3
<1>6. Saved(store[n], s) \in Store
  BY <1>1, <1>2, SavedType
<1> QED  BY <1>2, <1>3, <1>4, <1>5, <1>6, SmUpdate, StoreUpdate

\* handle_vote_response, whether or not the vote decides the election.
LEMMA HandleVoteResponseType ==
    ASSUME TypeInv, NEW n \in Server, NEW m \in net.vote_resp, handle_vote_response(n, m)
    PROVE  TypeInv'
<1> DEFINE s  == [sm[n] EXCEPT !.votes_received = @ \cup {m.peer}]
           l  == become_leader(s, n, last_index(store[n]))
           nt == [net EXCEPT !.vote_resp = @ \ {m}]
<1>1. /\ sm[n] \in StateMachine /\ store[n] \in Store /\ net \in Net
      /\ incarnation \in [Server -> Nat] /\ LeaderProgress(n, sm[n])
  BY DEF TypeInv, TypeOK, ProgressOK
<1>2. m.term \in Nat /\ m.peer \in Server
  BY <1>1 DEF Net, VoteResp
<1>3. s \in StateMachine /\ LeaderProgress(n, s)
  <2>1. sm[n].votes_received \cup {m.peer} \in SUBSET Server
    BY <1>1, <1>2 DEF StateMachine
  <2> QED  BY <1>1, <2>1 DEF StateMachine, LeaderProgress
<1>4. nt \in Net
  BY <1>1 DEF Net
<1>5. /\ Aligned(store[n])
      /\ \/ StepDown(n, m) /\ net' = nt /\ leaders' = leaders
         \/ /\ sm' = [sm EXCEPT ![n] = l]
            /\ leaders' = leaders \cup {<<l.current_term, n>>}
            /\ net' = replicate_all(nt, n, l, store[n])
            /\ store' = store
         \/ /\ sm' = [sm EXCEPT ![n] = s] \/ sm' = sm
            /\ net' = nt /\ store' = store /\ leaders' = leaders
      /\ UNCHANGED <<pending, phase, incarnation, applied, acked, proposed, votes, committed>>
  BY DEF handle_vote_response, Hears, clientVars
<1> HIDE DEF s, nt
<1>6. last_index(store[n]) \in Nat
  BY <1>1, StoreIndexTypes
<1>7. l \in StateMachine /\ LeaderProgress(n, l) /\ l.role = "Leader"
  BY <1>3, <1>6, LeaderType
<1> HIDE DEF l
<1>8. l.current_term \in Nat
  BY <1>7 DEF StateMachine
<1>9. sm' \in [Server -> StateMachine] /\ ProgressOK' /\ store' \in [Server -> Store]
  <2>1. CASE StepDown(n, m)
    BY <1>2, <2>1, StepDownType
  <2>2. CASE sm' = [sm EXCEPT ![n] = l] /\ store' = store
    BY <1>7, <2>2, SmUpdate DEF TypeInv, TypeOK
  <2>3. CASE sm' = [sm EXCEPT ![n] = s] /\ store' = store
    BY <1>3, <2>3, SmUpdate DEF TypeInv, TypeOK
  <2>4. CASE sm' = sm /\ store' = store
    BY <2>4 DEF TypeInv, TypeOK, ProgressOK, LeaderProgress
  <2> QED  BY <1>5, <2>1, <2>2, <2>3, <2>4
<1>10. net' \in Net
  BY <1>1, <1>4, <1>5, <1>7, ReplicateAllType
<1>11. leaders' \subseteq Nat \X Server
  BY <1>5, <1>8 DEF TypeInv, TypeOK
<1> QED  BY <1>5, <1>9, <1>10, <1>11 DEF TypeInv, TypeOK

\* on_append_entries on each of its paths: stale, missing, conflicting,
\* panicking and appended.
LEMMA OnAppendEntriesType ==
    ASSUME TypeInv, NEW n \in Server, NEW m \in net.append_req, on_append_entries(n, m)
    PROVE  TypeInv'
<1> DEFINE o  == Observe(sm[n], m.term, m.leader_id)
           s  == [o EXCEPT !.leader_id = m.leader_id]
           st == ObserveStore(store[n], sm[n], m.term, m.leader_id)
           appended == IF m.entries = <<>> THEN st ELSE append_entries(st, m.entries)
           c  == [s EXCEPT !.commit_index = commit_bound(appended, m)]
           resp(ok, i) == append_response(n, m, s.current_term, ok, i)
           answer(R) == [net EXCEPT !.append_req = Rest(@, m), !.append_resp = @ \cup R]
<1>1. /\ sm[n] \in StateMachine /\ store[n] \in Store /\ net \in Net
      /\ LeaderProgress(n, sm[n])
  BY DEF TypeInv, TypeOK, ProgressOK
<1>2. /\ m.term \in Nat /\ m.leader_id \in Sender /\ m.incarnation \in Nat
      /\ m.prev_log_index \in Nat /\ m.entries \in Seq(Entry) /\ m.leader_commit \in Nat
  BY <1>1 DEF Net, AppendReq
<1>3. o \in StateMachine /\ LeaderProgress(n, o) /\ st \in Store
  BY <1>1, <1>2, ObserveType
<1>4. /\ \/ /\ sm' = sm /\ store' = store
            /\ net' = answer({resp(FALSE, 0)})
         \/ /\ sm' = [sm EXCEPT ![n] = s]
            /\ store' = [store EXCEPT ![n] = st]
            /\ \/ net' = answer({resp(FALSE, m.prev_log_index)})
               \/ \E i \in 1 .. first_index(st) + m.prev_log_index : net' = answer({resp(FALSE, i)})
               \/ net' = answer({})
         \/ /\ sm' = [sm EXCEPT ![n] = s] \/ sm' = [sm EXCEPT ![n] = c]
            /\ \/ store' = [store EXCEPT ![n] = appended]
               \/ store' = [store EXCEPT ![n] = Saved(appended, c)]
            /\ net' = answer({resp(TRUE, 0)})
      /\ UNCHANGED <<pending, phase, incarnation, applied, acked, proposed,
                     votes, leaders, committed>>
  BY DEF on_append_entries, clientVars, history
<1> HIDE DEF o, st
<1>5. s \in StateMachine /\ LeaderProgress(n, s)
  BY <1>2, <1>3 DEF StateMachine, LeaderProgress
<1>6. appended \in Store
  BY <1>2, <1>3, AppendType
<1> HIDE DEF s, appended
<1>7. commit_bound(appended, m) \in Nat
  BY <1>2, <1>6, StoreIndexTypes DEF commit_bound
<1>8. c \in StateMachine /\ LeaderProgress(n, c)
  BY <1>5, <1>7 DEF StateMachine, LeaderProgress
<1> HIDE DEF c
<1>9. Saved(appended, c) \in Store
  BY <1>6, <1>8, SavedType
<1>10. sm' \in [Server -> StateMachine] /\ ProgressOK'
  <2>1. CASE sm' = sm
    BY <2>1 DEF TypeInv, TypeOK, ProgressOK, LeaderProgress
  <2>2. CASE sm' = [sm EXCEPT ![n] = s] \/ sm' = [sm EXCEPT ![n] = c]
    BY <1>5, <1>8, <2>2, SmUpdate
  <2> QED  BY <1>4, <2>1, <2>2
<1>11. store' \in [Server -> Store]
  <2>1. CASE store' = store
    BY <2>1 DEF TypeInv, TypeOK
  <2>2. CASE store' # store
    BY <1>3, <1>4, <1>6, <1>9, <2>2, StoreUpdate
  <2> QED  BY <2>1, <2>2
<1>12. net' \in Net
  <2>1. ASSUME NEW ok \in BOOLEAN, NEW i \in Nat
        PROVE  resp(ok, i) \in AppendResp
    <3>1. s.current_term \in Nat
      BY <1>5 DEF StateMachine
    <3>2. m.prev_log_index + Len(m.entries) \in Nat
      BY <1>2
    <3> QED  BY <1>2, <3>1, <3>2 DEF append_response, AppendResp
  <2>2. ASSUME NEW R \in SUBSET AppendResp
        PROVE  answer(R) \in Net
    BY <1>1 DEF Net, Rest
  <2>3. first_index(st) + m.prev_log_index \in Nat
    <3>1. first_index(st) \in Nat
      BY <1>3, StoreIndexTypes
    <3> QED  BY <1>2, <3>1
  <2> HIDE DEF resp, answer
  <2>4. \E R \in SUBSET AppendResp : net' = answer(R)
    <3>1. CASE net' = answer({})
      BY <3>1
    <3>2. CASE net' = answer({resp(FALSE, 0)}) \/ net' = answer({resp(FALSE, m.prev_log_index)})
               \/ net' = answer({resp(TRUE, 0)})
      BY <1>2, <2>1, <3>2
    <3>3. CASE \E i \in 1 .. first_index(st) + m.prev_log_index : net' = answer({resp(FALSE, i)})
      <4>1. PICK i \in 1 .. first_index(st) + m.prev_log_index : net' = answer({resp(FALSE, i)})
        BY <3>3
      <4>2. i \in Nat
        BY <2>3
      <4> QED  BY <2>1, <4>1, <4>2
    <3> QED  BY <1>4, <3>1, <3>2, <3>3
  <2> QED  BY <2>2, <2>4
<1> QED  BY <1>4, <1>10, <1>11, <1>12 DEF TypeInv, TypeOK

\* on_install_snapshot: commit_index and last_applied only move up.
LEMMA OnInstallSnapshotType ==
    ASSUME TypeInv, NEW n \in Server, NEW m \in net.snap_req, on_install_snapshot(n, m)
    PROVE  TypeInv'
<1> DEFINE s  == Observe(sm[n], m.term, m.leader_id)
           st == ObserveStore(store[n], sm[n], m.term, m.leader_id)
           last == m.snapshot.last_included_index
           installed == [s EXCEPT !.commit_index = IF @ >= last THEN @ ELSE last,
                                  !.last_applied = IF @ >= last THEN @ ELSE last]
           saved == Saved(apply_snapshot(st, m.snapshot), installed)
           resp == [peer |-> n, to |-> m.leader_id, incarnation |-> m.incarnation,
                    term |-> s.current_term, req_last_index |-> last]
<1>1. /\ sm[n] \in StateMachine /\ store[n] \in Store /\ net \in Net
      /\ LeaderProgress(n, sm[n])
  BY DEF TypeInv, TypeOK, ProgressOK
<1>2. /\ m.term \in Nat /\ m.leader_id \in Server /\ m.leader_id \in Sender /\ m.incarnation \in Nat
      /\ m.snapshot \in Snapshot /\ last \in Nat
  BY <1>1 DEF Net, SnapReq, Snapshot, Sender
<1>3. s \in StateMachine /\ LeaderProgress(n, s) /\ st \in Store
  BY <1>1, <1>2, ObserveType
<1>4. /\ \/ sm' = sm /\ store' = store
         \/ sm' = [sm EXCEPT ![n] = installed] /\ store' = [store EXCEPT ![n] = saved]
      /\ net' = [net EXCEPT !.snap_req = Rest(@, m), !.snap_resp = @ \cup {resp}]
      /\ UNCHANGED <<pending, phase, incarnation, applied, acked, proposed,
                     votes, leaders, committed>>
  BY DEF on_install_snapshot, clientVars, history
<1> HIDE DEF s, st
<1>5. installed \in StateMachine /\ LeaderProgress(n, installed)
  <2>1. s.commit_index \in Nat /\ s.last_applied \in Nat
    BY <1>3 DEF StateMachine
  <2> DEFINE a == IF s.commit_index >= last THEN s.commit_index ELSE last
             b == IF s.last_applied >= last THEN s.last_applied ELSE last
  <2>2. a \in Nat /\ b \in Nat
    BY <1>2, <2>1
  <2>3. installed = [s EXCEPT !.commit_index = a, !.last_applied = b]
    OBVIOUS
  <2> HIDE DEF a, b, installed
  <2> QED  BY <1>3, <2>2, <2>3 DEF StateMachine, LeaderProgress
<1> HIDE DEF installed
<1>6. saved \in Store
  BY <1>2, <1>3, <1>5, SavedType, ApplySnapshotType
<1> HIDE DEF saved
<1>7. resp \in SnapResp
  <2>1. s.current_term \in Nat
    BY <1>3 DEF StateMachine
  <2> QED  BY <1>2, <2>1 DEF SnapResp
<1> HIDE DEF resp
<1>8. net' \in Net
  BY <1>1, <1>4, <1>7 DEF Net, Rest
<1>9. sm' \in [Server -> StateMachine] /\ ProgressOK' /\ store' \in [Server -> Store]
  <2>1. CASE sm' = sm /\ store' = store
    BY <2>1 DEF TypeInv, TypeOK, ProgressOK, LeaderProgress
  <2>2. CASE sm' = [sm EXCEPT ![n] = installed] /\ store' = [store EXCEPT ![n] = saved]
    BY <1>5, <1>6, <2>2, SmUpdate, StoreUpdate
  <2> QED  BY <1>4, <2>1, <2>2
<1> QED  BY <1>4, <1>8, <1>9 DEF TypeInv, TypeOK

\* on_proposal keeps the leader's log aligned, so the RPCs it sends at once are
\* built from the new log.
LEMMA OnProposalType ==
    ASSUME TypeInv, NEW n \in Server, NEW cmd \in Command, on_proposal(n, cmd)
    PROVE  TypeInv'
<1> DEFINE e  == new_entry(n, cmd)
           st == append_entries(store[n], <<e>>)
<1>1. /\ sm[n] \in StateMachine /\ store[n] \in Store /\ net \in Net
      /\ incarnation \in [Server -> Nat] /\ LeaderProgress(n, sm[n])
  BY DEF TypeInv, TypeOK, ProgressOK
<1>2. /\ Aligned(store[n]) /\ sm[n].role = "Leader"
      /\ store' = [store EXCEPT ![n] = st]
      /\ pending' = [pending EXCEPT ![n] = @ \cup {[index |-> e.index, command |-> cmd]}]
      /\ proposed' = proposed \cup {cmd}
      /\ net' = replicate_all(net, n, sm[n], st)
      /\ UNCHANGED <<sm, phase, incarnation, applied, acked, votes, leaders, committed>>
  BY DEF on_proposal, history
<1>3. last_index(store[n]) + 1 \in Nat
  <2>1. last_index(store[n]) \in Nat
    BY <1>1, StoreIndexTypes
  <2> QED  BY <2>1
<1>4. e \in Entry /\ e.index = last_index(store[n]) + 1
  BY <1>1, <1>3 DEF new_entry, Entry, StateMachine
<1>5. e.index \in Nat
  BY <1>3, <1>4
<1> HIDE DEF e
<1>6. <<e>> \in Seq(Entry) /\ <<e>> # <<>> /\ <<e>>[1] = e /\ Len(<<e>>) = 1
  BY <1>4
<1>7. st \in Store
  BY <1>1, <1>6, AppendType
<1>8. Aligned(st)
  BY <1>1, <1>2, <1>4, <1>6, AppendAligned
<1> HIDE DEF st
<1>9. store' \in [Server -> Store]
  BY <1>2, <1>7, StoreUpdate
<1>10. net' \in Net
  BY <1>1, <1>2, <1>7, <1>8, ReplicateAllType
<1>11. pending' \in [Server -> SUBSET Pending] /\ proposed' \subseteq Command
  <2>1. [index |-> e.index, command |-> cmd] \in Pending
    BY <1>5 DEF Pending
  <2>2. pending \in [Server -> SUBSET Pending] /\ proposed \subseteq Command
    BY DEF TypeInv, TypeOK
  <2> QED  BY <1>2, <2>1, <2>2
<1> QED  BY <1>2, <1>9, <1>10, <1>11 DEF TypeInv, TypeOK, ProgressOK, LeaderProgress

\* maybe_advance_commit: the index it stops at is one of the log.
LEMMA CommitType ==
    ASSUME TypeInv, NEW n \in Server, NEW s \in StateMachine,
           NEW c \in CommitRange(s, store[n]), Commit(n, s, c)
    PROVE  /\ c \in Nat
           /\ [s EXCEPT !.commit_index = c] \in StateMachine
           /\ store' \in [Server -> Store]
           /\ pending' \in [Server -> SUBSET Pending]
           /\ acked' \subseteq Pending
           /\ committed' \subseteq [term : Nat, entry : Entry]
<1> DEFINE z == [s EXCEPT !.commit_index = c]
           done == {p \in pending[n] : p.index <= c}
<1>1. /\ store[n] \in Store /\ store \in [Server -> Store]
      /\ pending \in [Server -> SUBSET Pending] /\ acked \subseteq Pending
      /\ committed \subseteq [term : Nat, entry : Entry]
  BY DEF TypeInv, TypeOK
<1>2. /\ s.commit_index \in Nat /\ s.current_term \in Nat
      /\ last_index(store[n]) \in Nat
  BY <1>1, StoreIndexTypes DEF StateMachine
<1>3. c \in Nat
  BY <1>2 DEF CommitRange
<1>4. z \in StateMachine
  BY <1>3 DEF StateMachine
<1>5. store' \in [Server -> Store]
  <2> HIDE DEF z
  <2>1. Saved(store[n], z) \in Store
    BY <1>1, <1>4, SavedType
  <2>2. store' = store \/ store' = [store EXCEPT ![n] = Saved(store[n], z)]
    BY DEF Commit, z
  <2> QED  BY <1>1, <2>1, <2>2
<1>6. pending' = [pending EXCEPT ![n] = @ \ done] /\ acked' = acked \cup done
  BY DEF Commit
<1>7. done \subseteq Pending
  BY <1>1
<1>8. pending' \in [Server -> SUBSET Pending] /\ acked' \subseteq Pending
  <2> HIDE DEF done
  <2> QED  BY <1>1, <1>6, <1>7
<1>9. committed' \subseteq [term : Nat, entry : Entry]
  <2>1. \A k \in DOMAIN store[n].entries : store[n].entries[k] \in Entry
    <3>1. store[n].entries \in Seq(Entry)
      BY <1>1 DEF Store
    <3> QED  BY <3>1
  <2>2. ASSUME NEW x \in committed'
        PROVE  x \in [term : Nat, entry : Entry]
    <3>1. CASE x \in committed
      BY <1>1, <3>1
    <3>2. CASE x \notin committed
      <4>1. PICK k \in DOMAIN store[n].entries :
                x = [term |-> s.current_term, entry |-> store[n].entries[k]]
        BY <3>2 DEF Commit
      <4> QED  BY <1>2, <2>1, <4>1
    <3> QED  BY <3>1, <3>2
  <2> QED  BY <2>2
<1> QED  BY <1>3, <1>4, <1>5, <1>8, <1>9

\* The two handlers of replication answers differ in the progress they record.
LEMMA HandleReplicationType ==
    ASSUME TypeInv, NEW n \in Server, NEW s \in StateMachine, LeaderProgress(n, s),
           NEW nt \in Net, NEW m, m.term \in Nat, net' = nt,
           \/ StepDown(n, m) /\ UNCHANGED <<pending, acked, committed>>
           \/ UNCHANGED <<sm, store, pending, acked, committed>>
           \/ \E c \in CommitRange(s, store[n]) :
                 /\ Commit(n, s, c)
                 /\ sm' = [sm EXCEPT ![n] = [s EXCEPT !.commit_index = c]],
           UNCHANGED <<phase, incarnation, applied, proposed, votes, leaders>>
    PROVE  TypeInv'
<1>1. CASE StepDown(n, m) /\ UNCHANGED <<pending, acked, committed>>
  <2>1. sm' \in [Server -> StateMachine] /\ ProgressOK' /\ store' \in [Server -> Store]
    BY <1>1, StepDownType
  <2> QED  BY <1>1, <2>1 DEF TypeInv, TypeOK
<1>2. CASE UNCHANGED <<sm, store, pending, acked, committed>>
  BY <1>2 DEF TypeInv, TypeOK, ProgressOK, LeaderProgress
<1>3. CASE \E c \in CommitRange(s, store[n]) :
              /\ Commit(n, s, c)
              /\ sm' = [sm EXCEPT ![n] = [s EXCEPT !.commit_index = c]]
  <2>1. PICK c \in CommitRange(s, store[n]) :
              /\ Commit(n, s, c)
              /\ sm' = [sm EXCEPT ![n] = [s EXCEPT !.commit_index = c]]
    BY <1>3
  <2> DEFINE z == [s EXCEPT !.commit_index = c]
  <2>2. /\ z \in StateMachine /\ store' \in [Server -> Store]
        /\ pending' \in [Server -> SUBSET Pending] /\ acked' \subseteq Pending
        /\ committed' \subseteq [term : Nat, entry : Entry]
    BY <2>1, CommitType
  <2>3. LeaderProgress(n, z)
    BY DEF LeaderProgress, StateMachine
  <2>4. sm' = [sm EXCEPT ![n] = z]
    BY <2>1
  <2> HIDE DEF z
  <2>5. sm' \in [Server -> StateMachine] /\ ProgressOK'
    BY <2>2, <2>3, <2>4, SmUpdate
  <2> QED  BY <2>2, <2>5 DEF TypeInv, TypeOK
<1> QED  BY <1>1, <1>2, <1>3

\* Recording progress of a peer with a next_index of at least 1.
LEMMA ProgressUpdate ==
    ASSUME NEW s \in StateMachine, NEW n \in Server, LeaderProgress(n, s), NEW p \in Server,
           NEW q \in Progress, q.next_index >= 1
    PROVE  /\ [s EXCEPT !.progress[p] = q] \in StateMachine
           /\ LeaderProgress(n, [s EXCEPT !.progress[p] = q])
<1> DEFINE f == [s.progress EXCEPT ![p] = q]
           z == [s EXCEPT !.progress = f]
<1>1. s.progress \in [Server -> Progress]
  BY DEF StateMachine
<1>2. f \in [Server -> Progress]
  BY <1>1
<1>3. s.role = "Leader" => \A r \in Server \ {n} : f[r].next_index >= 1
  BY <1>1 DEF LeaderProgress
<1> HIDE DEF f
<1>4. z \in StateMachine /\ z.role = s.role /\ z.progress = f
  BY <1>2 DEF StateMachine
<1>5. [s EXCEPT !.progress[p] = q] = z
  BY DEF f
<1> QED  BY <1>3, <1>4, <1>5 DEF LeaderProgress

\* handle_append_response: next_index never reaches 0, however far it backs off.
LEMMA HandleAppendResponseType ==
    ASSUME TypeInv, NEW n \in Server, NEW m \in net.append_resp, handle_append_response(n, m)
    PROVE  TypeInv'
<1> DEFINE p == sm[n].progress[m.peer]
           match == IF p.match_index >= m.req_last_index THEN p.match_index ELSE m.req_last_index
           back == IF m.conflict_index > 0 THEN m.conflict_index
                   ELSE IF p.next_index > 2 THEN p.next_index - 1 ELSE 1
           q == IF m.success THEN [next_index |-> match + 1, match_index |-> match]
                             ELSE [p EXCEPT !.next_index = back]
           s == [sm[n] EXCEPT !.progress[m.peer] = q]
           nt == [net EXCEPT !.append_resp = Rest(@, m)]
<1>1. sm[n] \in StateMachine /\ net \in Net /\ LeaderProgress(n, sm[n])
  BY DEF TypeInv, TypeOK, ProgressOK
<1>2. /\ m.term \in Nat /\ m.peer \in Server /\ m.req_last_index \in Nat
      /\ m.conflict_index \in Nat /\ m.success \in BOOLEAN
  BY <1>1 DEF Net, AppendResp
<1>3. p \in Progress /\ p.next_index \in Nat /\ p.match_index \in Nat
  BY <1>1, <1>2 DEF StateMachine, Progress
<1>4. match \in Nat /\ match + 1 \in Nat /\ match + 1 >= 1 /\ back \in Nat /\ back >= 1
  <2> HIDE DEF p
  <2> QED  BY <1>2, <1>3
<1>5. q \in Progress /\ q.next_index >= 1
  <2> HIDE DEF p, match, back
  <2> QED  BY <1>2, <1>3, <1>4 DEF Progress
<1>6. /\ net' = nt
      /\ \/ StepDown(n, m) /\ UNCHANGED <<pending, acked, committed>>
         \/ UNCHANGED <<sm, store, pending, acked, committed>>
         \/ \E c \in CommitRange(s, store[n]) :
               /\ Commit(n, s, c)
               /\ sm' = [sm EXCEPT ![n] = [s EXCEPT !.commit_index = c]]
      /\ UNCHANGED <<phase, incarnation, applied, proposed, votes, leaders>>
  BY DEF handle_append_response
<1>7. nt \in Net
  BY <1>1 DEF Net, Rest
<1> HIDE DEF q, nt
<1>8. s \in StateMachine /\ LeaderProgress(n, s)
  BY <1>1, <1>2, <1>5, ProgressUpdate
<1> HIDE DEF s
<1> QED  BY <1>2, <1>6, <1>7, <1>8, HandleReplicationType

\* handle_snapshot_response.
LEMMA HandleSnapshotResponseType ==
    ASSUME TypeInv, NEW n \in Server, NEW m \in net.snap_resp, handle_snapshot_response(n, m)
    PROVE  TypeInv'
<1> DEFINE p == sm[n].progress[m.peer]
           match == IF p.match_index >= m.req_last_index THEN p.match_index ELSE m.req_last_index
           q == [next_index |-> match + 1, match_index |-> match]
           s == [sm[n] EXCEPT !.progress[m.peer] = q]
           nt == [net EXCEPT !.snap_resp = Rest(@, m)]
<1>1. sm[n] \in StateMachine /\ net \in Net /\ LeaderProgress(n, sm[n])
  BY DEF TypeInv, TypeOK, ProgressOK
<1>2. m.term \in Nat /\ m.peer \in Server /\ m.req_last_index \in Nat
  BY <1>1 DEF Net, SnapResp
<1>3. p.match_index \in Nat
  BY <1>1, <1>2 DEF StateMachine, Progress
<1>4. match \in Nat /\ match + 1 \in Nat /\ match + 1 >= 1
  <2> HIDE DEF p
  <2> QED  BY <1>2, <1>3
<1>5. q \in Progress /\ q.next_index >= 1
  <2> HIDE DEF match
  <2> QED  BY <1>4 DEF Progress
<1>6. /\ net' = nt
      /\ \/ StepDown(n, m) /\ UNCHANGED <<pending, acked, committed>>
         \/ UNCHANGED <<sm, store, pending, acked, committed>>
         \/ \E c \in CommitRange(s, store[n]) :
               /\ Commit(n, s, c)
               /\ sm' = [sm EXCEPT ![n] = [s EXCEPT !.commit_index = c]]
      /\ UNCHANGED <<phase, incarnation, applied, proposed, votes, leaders>>
  BY DEF handle_snapshot_response
<1>7. nt \in Net
  BY <1>1 DEF Net, Rest
<1> HIDE DEF q, nt
<1>8. s \in StateMachine /\ LeaderProgress(n, s)
  BY <1>1, <1>2, <1>5, ProgressUpdate
<1> HIDE DEF s
<1> QED  BY <1>2, <1>6, <1>7, <1>8, HandleReplicationType

\* apply_committed sends log entries, and only what the log has.
LEMMA ToApplyType ==
    ASSUME NEW s \in StateMachine, NEW st \in Store, Aligned(st), NEW c \in Nat
    PROVE  ToApply(s, st, c) \in Seq(Entry)
<1>1. /\ s.last_applied \in Nat
      /\ first_index(st) \in Nat /\ last_index(st) \in Nat
  BY StoreIndexTypes DEF StateMachine
<1>2. CASE s.last_applied >= c \/ EntriesCompacted(st, s.last_applied + 1) \/ c > last_index(st)
  BY <1>2 DEF ToApply
<1>3. CASE ~(s.last_applied >= c \/ EntriesCompacted(st, s.last_applied + 1) \/ c > last_index(st))
  <2>1. /\ s.last_applied + 1 \in Nat /\ c + 1 \in Nat
        /\ s.last_applied + 1 >= first_index(st)
        /\ c + 1 <= last_index(st) + 1
    BY <1>1, <1>3 DEF EntriesCompacted
  <2>2. entries(st, s.last_applied + 1, c + 1, c) \in Seq(Entry)
    BY <2>1, EntriesType
  <2> QED  BY <1>3, <2>2 DEF ToApply
<1> QED  BY <1>2, <1>3

\* The heartbeat: replicate, advance, apply.
LEMMA HeartbeatType ==
    ASSUME TypeInv, NEW n \in Server, heartbeat(n)
    PROVE  TypeInv'
<1>1. /\ sm[n] \in StateMachine /\ store[n] \in Store /\ net \in Net
      /\ sm \in [Server -> StateMachine]
      /\ incarnation \in [Server -> Nat] /\ LeaderProgress(n, sm[n])
      /\ applied \in [Server -> Seq(Entry)]
  BY DEF TypeInv, TypeOK, ProgressOK
<1>2. /\ Aligned(store[n]) /\ sm[n].role = "Leader"
      /\ net' = replicate_all(net, n, sm[n], store[n])
      /\ UNCHANGED <<phase, incarnation, proposed, votes, leaders>>
  BY DEF heartbeat
<1>3. PICK c \in CommitRange(sm[n], store[n]) :
        /\ Commit(n, sm[n], c)
        /\ applied' = [applied EXCEPT ![n] = @ \o ToApply(sm[n], store[n], c)]
        /\ sm' = [sm EXCEPT ![n].commit_index = c,
                            ![n].last_applied = @ + Len(ToApply(sm[n], store[n], c))]
  BY DEF heartbeat
<1> DEFINE out == ToApply(sm[n], store[n], c)
           s == [sm[n] EXCEPT !.commit_index = c, !.last_applied = @ + Len(out)]
<1>4. /\ c \in Nat /\ store' \in [Server -> Store]
      /\ pending' \in [Server -> SUBSET Pending] /\ acked' \subseteq Pending
      /\ committed' \subseteq [term : Nat, entry : Entry]
  BY <1>1, <1>3, CommitType
<1>5. out \in Seq(Entry)
  BY <1>1, <1>2, <1>4, ToApplyType
<1>6. sm' = [sm EXCEPT ![n] = s]
  <2> HIDE DEF out
  <2> QED  BY <1>1, <1>3 DEF out
<1> HIDE DEF out
<1>7. s \in StateMachine /\ LeaderProgress(n, s)
  <2>1. sm[n].last_applied + Len(out) \in Nat
    <3>1. sm[n].last_applied \in Nat /\ Len(out) \in Nat
      BY <1>1, <1>5 DEF StateMachine
    <3> QED  BY <3>1
  <2> QED  BY <1>1, <1>4, <2>1 DEF StateMachine, LeaderProgress
<1> HIDE DEF s
<1>8. sm' \in [Server -> StateMachine] /\ ProgressOK'
  BY <1>6, <1>7, SmUpdate
<1>9. applied' \in [Server -> Seq(Entry)]
  BY <1>1, <1>3, <1>5 DEF out
<1>10. net' \in Net
  BY <1>1, <1>2, ReplicateAllType
<1> QED  BY <1>2, <1>4, <1>8, <1>9, <1>10 DEF TypeInv, TypeOK

\* The restore at the head of the event loop.
LEMMA RestoreType ==
    ASSUME TypeInv, NEW n \in Server, restore(n)
    PROVE  TypeInv'
<1> DEFINE hs == store[n].hard_state
           s == [sm[n] EXCEPT !.current_term = hs.term, !.voted_for = restored_vote(hs),
                              !.commit_index = hs.commit, !.last_applied = hs.commit]
<1>1. /\ sm \in [Server -> StateMachine] /\ sm[n] \in StateMachine
      /\ store[n] \in Store /\ LeaderProgress(n, sm[n])
  BY DEF TypeInv, TypeOK, ProgressOK
<1>2. /\ phase' = [phase EXCEPT ![n] = "running"]
      /\ sm' = [sm EXCEPT ![n] = s]
      /\ UNCHANGED <<store, pending, incarnation, net, applied, acked, proposed,
                     votes, leaders, committed>>
  BY <1>1 DEF restore, clientVars, history
<1>3. hs \in HardState
  BY <1>1 DEF Store
<1> HIDE DEF hs
<1>4. restored_vote(hs) \in Server \cup {None} /\ hs.term \in Nat /\ hs.commit \in Nat
  BY <1>3 DEF restored_vote, HardState
<1>5. s \in StateMachine /\ LeaderProgress(n, s)
  BY <1>1, <1>4 DEF StateMachine, LeaderProgress
<1> HIDE DEF s
<1>6. sm' \in [Server -> StateMachine] /\ ProgressOK'
  BY <1>2, <1>5, SmUpdate
<1> QED  BY <1>2, <1>6 DEF TypeInv, TypeOK

\* Shutdown ends the loop and nothing else.
LEMMA ShutdownType ==
    ASSUME TypeInv, NEW n \in Server, shutdown(n)
    PROVE  TypeInv'
BY DEF shutdown, clientVars, history, TypeInv, TypeOK, ProgressOK, LeaderProgress

\* RaftNode::start on storage that is already there.
LEMMA StartType ==
    ASSUME TypeInv, NEW n \in Server, start(n)
    PROVE  TypeInv'
<1>1. new_state \in StateMachine /\ LeaderProgress(n, new_state)
  BY NewStateType
<1>2. sm' = [sm EXCEPT ![n] = new_state]
  BY DEF start
<1>3. sm' \in [Server -> StateMachine] /\ ProgressOK'
  BY <1>1, <1>2, SmUpdate
<1> QED  BY <1>3 DEF start, clientVars, history, TypeInv, TypeOK

\* A snapshot the application takes of what it applied.
LEMMA CompactType ==
    ASSUME TypeInv, NEW n \in Server, compact(n)
    PROVE  TypeInv'
<1>1. store[n] \in Store /\ applied[n] \in Seq(Entry)
  BY DEF TypeInv, TypeOK
<1>2. PICK k \in DOMAIN applied[n] :
        store' = [store EXCEPT ![n] = apply_snapshot(@,
                    [last_included_index |-> applied[n][k].index,
                     last_included_term  |-> applied[n][k].term,
                     data                |-> SubSeq(applied[n], 1, k)])]
  BY DEF compact
<1> DEFINE snap == [last_included_index |-> applied[n][k].index,
                    last_included_term  |-> applied[n][k].term,
                    data                |-> SubSeq(applied[n], 1, k)]
<1>3. applied[n][k] \in Entry /\ k \in Int /\ \A i \in 1 .. k : applied[n][i] \in Entry
  BY <1>1
<1>4. SubSeq(applied[n], 1, k) \in Seq(Entry)
  BY <1>3, SubSeqProperties
<1>5. snap \in Snapshot
  BY <1>3, <1>4 DEF Snapshot, Entry
<1>6. store' = [store EXCEPT ![n] = apply_snapshot(store[n], snap)]
  BY <1>2
<1> HIDE DEF snap
<1>7. store' \in [Server -> Store]
  BY <1>1, <1>5, <1>6, ApplySnapshotType, StoreUpdate
<1> QED  BY <1>7 DEF compact, clientVars, history, TypeInv, TypeOK, ProgressOK, LeaderProgress

-----------------------------------------------------------------------------

\* Initially every store is empty and no RPC is in flight.
LEMMA InitType == Init => TypeInv
<1> SUFFICES ASSUME Init PROVE TypeInv
  OBVIOUS
<1>1. NoSnapshot \in Snapshot
  BY DEF NoSnapshot, Snapshot
<1>2. EmptyStore \in Store
  BY <1>1 DEF EmptyStore, Store, HardState
<1>3. NoRpcs \in Net
  BY DEF NoRpcs, Net
<1>4. \A n \in Server : new_state \in StateMachine /\ LeaderProgress(n, new_state)
  BY NewStateType
<1>5. sm \in [Server -> StateMachine] /\ ProgressOK
  BY <1>4 DEF Init, ProgressOK
<1> QED  BY <1>2, <1>3, <1>5 DEF Init, TypeInv, TypeOK

\* Every step of Next preserves the inductive invariant.
LEMMA NextType == TypeInv /\ [Next]_vars => TypeInv'
<1> SUFFICES ASSUME TypeInv, [Next]_vars PROVE TypeInv'
  OBVIOUS
<1>1. CASE UNCHANGED vars
  BY <1>1 DEF vars, TypeInv, TypeOK, ProgressOK, LeaderProgress
<1>2. ASSUME NEW n \in Server, start_election(n) PROVE TypeInv'
  BY <1>2, StartElectionType
<1>3. ASSUME NEW n \in Server, heartbeat(n) PROVE TypeInv'
  BY <1>3, HeartbeatType
<1>4. ASSUME NEW n \in Server, NEW cmd \in Command, on_proposal(n, cmd) PROVE TypeInv'
  BY <1>4, OnProposalType
<1>5. ASSUME NEW n \in Server, NEW m \in net.vote_req, on_request_vote(n, m) PROVE TypeInv'
  BY <1>5, OnRequestVoteType
<1>6. ASSUME NEW n \in Server, NEW m \in net.vote_resp, handle_vote_response(n, m) PROVE TypeInv'
  BY <1>6, HandleVoteResponseType
<1>7. ASSUME NEW n \in Server, NEW m \in net.append_req, on_append_entries(n, m) PROVE TypeInv'
  BY <1>7, OnAppendEntriesType
<1>8. ASSUME NEW n \in Server, NEW m \in net.append_resp, handle_append_response(n, m) PROVE TypeInv'
  BY <1>8, HandleAppendResponseType
<1>9. ASSUME NEW n \in Server, NEW m \in net.snap_req, on_install_snapshot(n, m) PROVE TypeInv'
  BY <1>9, OnInstallSnapshotType
<1>10. ASSUME NEW n \in Server, NEW m \in net.snap_resp, handle_snapshot_response(n, m) PROVE TypeInv'
  BY <1>10, HandleSnapshotResponseType
<1>11. ASSUME NEW n \in Server, restore(n) \/ shutdown(n) \/ start(n) \/ compact(n) PROVE TypeInv'
  BY <1>11, RestoreType, ShutdownType, StartType, CompactType
<1> QED
  BY <1>1, <1>2, <1>3, <1>4, <1>5, <1>6, <1>7, <1>8, <1>9, <1>10, <1>11 DEF Next

\* Every reachable state of every cluster is well typed.  In particular no
\* next_index - 1, no batch range and no replayed range is ever out of bounds in
\* a node whose log is aligned.
THEOREM TypeCorrect == Spec => []TypeOK
<1>1. Spec => []TypeInv
  BY InitType, NextType, PTL DEF Spec
<1> QED  BY <1>1, PTL DEF TypeInv

=============================================================================
