------------------------------- MODULE LogProofs -------------------------------
(***************************************************************************)
(* Leaders, the requests they send and the logs they write.                *)
(*                                                                         *)
(* Every AppendEntries and every InstallSnapshot comes from a node that    *)
(* won the election of the request's term (LeaderInv).  So leader_id names *)
(* an elected leader, and where elections are safe a leader never gets a   *)
(* request of its own term: nobody overwrites its log.                     *)
(*                                                                         *)
(* Without compaction every log starts at index 1, so position and index   *)
(* agree (AlignInv), and every AppendEntries carries a stretch of the log  *)
(* it was read from.                                                       *)
(***************************************************************************)
EXTENDS ElectionProofs, WellFoundedInduction

-----------------------------------------------------------------------------
(* What a step does to logs and requests.                                  *)

\* p's vector and snapshot stay.
LogSame(p) ==
    /\ store'[p].entries = store[p].entries
    /\ store'[p].snapshot = store[p].snapshot

\* A leader appends a client's command to its own log.
Extends(n) ==
    /\ sm' = sm /\ sm[n].role = "Leader" /\ Aligned(store[n])
    /\ store'[n].snapshot = store[n].snapshot
    /\ \E cmd \in Command :
          store'[n].entries = Append(store[n].entries, new_entry(n, cmd))

\* A follower appends the entries of a request it found consistent.
Overwrites(n, m) ==
    /\ m.to = n /\ m.entries # <<>> /\ Aligned(store[n])
    /\ m.term >= sm[n].current_term /\ sm'[n].current_term = m.term
    /\ Consistent(store[n], m)
    /\ store'[n].entries = append_entries(store[n], m.entries).entries
    /\ store'[n].snapshot = store[n].snapshot

\* A follower installs a leader's snapshot.
Installs(n, m) ==
    /\ m.to = n
    /\ m.term >= sm[n].current_term /\ sm'[n].current_term = m.term
    /\ store'[n].entries = apply_snapshot(store[n], m.snapshot).entries
    /\ store'[n].snapshot = m.snapshot

\* The application compacts its node's log.
Compacts(n) ==
    /\ AppSnapshots
    /\ sm' = sm
    /\ first_index(store'[n]) > first_index(store[n])

\* What the handlers and timers of n may do to the logs.
LogStep(n) ==
    /\ \A p \in Server \ {n} : LogSame(p)
    /\ \/ LogSame(n)
       \/ Extends(n)
       \/ \E m \in net.append_req : Overwrites(n, m)
       \/ \E m \in net.snap_req : Installs(n, m)
       \/ Compacts(n)

\* No request of a leader is sent.
SendsNothing ==
    net'.append_req \subseteq net.append_req /\ net'.snap_req \subseteq net.snap_req

\* n, a leader, sends every peer the AppendEntries or InstallSnapshot its log and
\* its progress ask for.
Sends(n) ==
    /\ sm'[n].role = "Leader"
    /\ \E s \in StateMachine, st \in Store :
          /\ s.role = "Leader" /\ LeaderProgress(n, s)
          /\ s.current_term = sm'[n].current_term /\ s.progress = sm'[n].progress
          /\ s.commit_index <= sm'[n].commit_index
          /\ Aligned(st)
          /\ st.entries = store'[n].entries /\ st.snapshot = store'[n].snapshot
          /\ \A m \in net'.append_req :
                \/ m \in net.append_req /\ (RedundantRpcs \/ m.leader_id # n)
                \/ \E p \in Peers(n) :
                      ~NeedsSnapshot(s, st, p) /\ m = append_request(n, s, st, p)
          /\ \A m \in net'.snap_req :
                \/ m \in net.snap_req /\ (RedundantRpcs \/ m.leader_id # n)
                \/ \E p \in Peers(n) :
                      NeedsSnapshot(s, st, p) /\ m = snapshot_request(n, s, st, p)

\* Whom n takes for the leader: nobody, the one it knew, the sender of a request
\* of its term, or itself.
Believes(n) ==
    \/ sm'[n].leader_id = None
    \/ /\ sm'[n].leader_id = sm[n].leader_id
       /\ sm'[n].current_term = sm[n].current_term
    \/ \E m \in net.append_req \cup net.snap_req :
          sm'[n].leader_id = m.leader_id /\ sm'[n].current_term = m.term
    \/ /\ sm'[n].leader_id = n
       /\ <<sm'[n].current_term, n>> \in leaders'

\* A step of node n's handlers and timers.
NodeStep(n) ==
    /\ \A p \in Server \ {n} : sm'[p] = sm[p]
    /\ LogStep(n)
    /\ SendsNothing \/ Sends(n)
    /\ Believes(n)

\* A step that writes one store.
LEMMA StoreWritten ==
    ASSUME TypeInv, NEW n \in Server, NEW y, store' = [store EXCEPT ![n] = y]
    PROVE  store'[n] = y /\ \A p \in Server \ {n} : store'[p] = store[p]
BY DEF TypeInv, TypeOK

LEMMA SmWritten ==
    ASSUME TypeInv, NEW n \in Server, NEW z, sm' = [sm EXCEPT ![n] = z]
    PROVE  sm'[n] = z /\ \A p \in Server \ {n} : sm'[p] = sm[p]
BY DEF TypeInv, TypeOK

\* ... but not its log.
LEMMA LogKept ==
    ASSUME TypeInv, NEW n \in Server, NEW y, store' = [store EXCEPT ![n] = y],
           y.entries = store[n].entries, y.snapshot = store[n].snapshot
    PROVE  LogStep(n) /\ LogSame(n)
BY StoreWritten DEF LogStep, LogSame

\* Stepping down saves the hard state only.
LEMMA ObservedLog ==
    ASSUME NEW s \in StateMachine, NEW st \in Store, NEW t \in Nat, NEW l \in Sender \cup {None}
    PROVE  /\ ObserveStore(st, s, t, l).entries = st.entries
           /\ ObserveStore(st, s, t, l).snapshot = st.snapshot
<1>1. \A n \in Server : become_follower(s, t, l) \in StateMachine
  BY FollowerType
<1>2. become_follower(s, t, l) \in StateMachine
  BY <1>1, ConstantsAssumption
<1> QED  BY <1>2, SavedType DEF ObserveStore

\* The leader "step down if we see a higher term" leaves.
LEMMA ObservedLeader ==
    ASSUME NEW s \in StateMachine, NEW t \in Nat, NEW l
    PROVE  \/ t <= s.current_term /\ Observe(s, t, l) = s
           \/ /\ t > s.current_term /\ Observe(s, t, l).leader_id = l
              /\ Observe(s, t, l).current_term = t
BY DEF Observe, become_follower, StateMachine

\* The requests replicate_all sends.
LEMMA ReplicateRequests ==
    ASSUME NEW nt \in Net, NEW n \in Server, NEW s, NEW st,
           NEW r, r = replicate_all(nt, n, s, st)
    PROVE  /\ \A m \in r.append_req :
                 \/ m \in nt.append_req /\ (RedundantRpcs \/ m.leader_id # n)
                 \/ \E p \in Peers(n) : ~NeedsSnapshot(s, st, p) /\ m = append_request(n, s, st, p)
           /\ \A m \in r.snap_req :
                 \/ m \in nt.snap_req /\ (RedundantRpcs \/ m.leader_id # n)
                 \/ \E p \in Peers(n) : NeedsSnapshot(s, st, p) /\ m = snapshot_request(n, s, st, p)
<1> DEFINE o == Outstanding(nt, n)
           behind == {p \in Peers(n) : NeedsSnapshot(s, st, p)}
           as == {append_request(n, s, st, p) : p \in Peers(n) \ behind}
           ss == {snapshot_request(n, s, st, p) : p \in behind}
<1>1. /\ \A m \in o.append_req : m \in nt.append_req /\ (RedundantRpcs \/ m.leader_id # n)
      /\ \A m \in o.snap_req : m \in nt.snap_req /\ (RedundantRpcs \/ m.leader_id # n)
      /\ o = [vote_req |-> o.vote_req, vote_resp |-> o.vote_resp, append_req |-> o.append_req,
              append_resp |-> o.append_resp, snap_req |-> o.snap_req, snap_resp |-> o.snap_resp]
  BY DEF Outstanding, Net
<1>2. r = [o EXCEPT !.append_req = @ \cup as, !.snap_req = @ \cup ss]
  BY DEF replicate_all
<1> HIDE DEF o
<1>3. r.append_req = o.append_req \cup as /\ r.snap_req = o.snap_req \cup ss
  <2> HIDE DEF as, ss
  <2> QED  BY <1>1, <1>2
<1> QED  BY <1>1, <1>3

\* A call of replicate_all by a leader.
LEMMA ReplicateSends ==
    ASSUME NEW n \in Server, NEW nt \in Net, NEW s \in StateMachine, NEW st \in Store,
           nt.append_req = net.append_req, nt.snap_req = net.snap_req,
           net' = replicate_all(nt, n, s, st),
           s.role = "Leader", LeaderProgress(n, s), Aligned(st),
           sm'[n].role = "Leader", s.current_term = sm'[n].current_term,
           s.progress = sm'[n].progress, s.commit_index <= sm'[n].commit_index,
           st.entries = store'[n].entries, st.snapshot = store'[n].snapshot
    PROVE  Sends(n)
BY ReplicateRequests DEF Sends

\* The election timer.
LEMMA StartElectionNode ==
    ASSUME TypeInv, NEW n \in Server, start_election(n)
    PROVE  NodeStep(n)
<1> DEFINE s   == become_candidate(sm[n], n)
           l   == become_leader(s, n, last_index(store[n]))
           reqs == {vote_request(n, s, store[n], p) : p \in Peers(n)}
           nt  == [net EXCEPT !.vote_req = @ \cup reqs]
<1>1. /\ sm[n] \in StateMachine /\ store[n] \in Store /\ net \in Net
      /\ incarnation \in [Server -> Nat]
  BY DEF TypeInv, TypeOK
<1>2. s \in StateMachine /\ s.leader_id = None
  BY <1>1, CandidateType DEF become_candidate, StateMachine
<1>3. nt \in Net /\ nt.append_req = net.append_req /\ nt.snap_req = net.snap_req
  <2>1. reqs \subseteq VoteReq
    <3> HIDE DEF s
    <3> QED  BY <1>1, <1>2, VoteRequestType DEF Peers
  <2> HIDE DEF reqs
  <2> QED  BY <1>1, <2>1 DEF Net
<1>4. /\ Aligned(store[n])
      /\ store' = [store EXCEPT ![n] = Saved(store[n], s)]
      /\ \/ /\ sm' = [sm EXCEPT ![n] = l]
            /\ leaders' = leaders \cup {<<s.current_term, n>>}
            /\ net' = replicate_all(nt, n, l, store[n])
         \/ sm' = [sm EXCEPT ![n] = s] /\ net' = nt
  BY <1>1 DEF start_election
<1> HIDE DEF s, nt
<1>5. /\ l \in StateMachine /\ l.role = "Leader" /\ LeaderProgress(n, l)
      /\ l.current_term = s.current_term /\ l.leader_id = n
  <2>1. l \in StateMachine /\ l.role = "Leader" /\ LeaderProgress(n, l)
    BY <1>1, <1>2, LeaderType, StoreIndexTypes
  <2>2. l.current_term = s.current_term /\ l.leader_id = n
    BY <1>2 DEF become_leader, StateMachine
  <2> QED  BY <2>1, <2>2
<1> HIDE DEF l
<1>6. LogStep(n) /\ LogSame(n)
  BY <1>1, <1>2, <1>4, SavedType, LogKept
<1>7. CASE /\ sm' = [sm EXCEPT ![n] = l]
           /\ leaders' = leaders \cup {<<s.current_term, n>>}
           /\ net' = replicate_all(nt, n, l, store[n])
  <2>1. sm'[n] = l /\ \A p \in Server \ {n} : sm'[p] = sm[p]
    BY <1>7, SmWritten
  <2>2. l.commit_index <= l.commit_index
    BY <1>5 DEF StateMachine
  <2>3. Sends(n)
    BY <1>1, <1>3, <1>4, <1>5, <1>6, <1>7, <2>1, <2>2, ReplicateSends DEF LogSame
  <2>4. Believes(n)
    BY <1>5, <1>7, <2>1 DEF Believes
  <2> QED  BY <1>6, <2>1, <2>3, <2>4 DEF NodeStep
<1>8. CASE sm' = [sm EXCEPT ![n] = s] /\ net' = nt
  <2>1. sm'[n] = s /\ \A p \in Server \ {n} : sm'[p] = sm[p]
    BY <1>8, SmWritten
  <2>2. Believes(n) /\ SendsNothing
    BY <1>2, <1>3, <1>8, <2>1 DEF Believes, SendsNothing
  <2> QED  BY <1>6, <2>1, <2>2 DEF NodeStep
<1> QED  BY <1>4, <1>7, <1>8

\* maybe_advance_commit saves the hard state only.
LEMMA CommitLog ==
    ASSUME TypeInv, NEW n \in Server, NEW s \in StateMachine,
           NEW c \in CommitRange(s, store[n]), Commit(n, s, c)
    PROVE  LogStep(n) /\ LogSame(n)
<1> DEFINE y == [s EXCEPT !.commit_index = c]
<1>1. y \in StateMachine /\ store[n] \in Store
  BY CommitType DEF TypeInv, TypeOK
<1>2. \/ store' = [store EXCEPT ![n] = Saved(store[n], y)]
      \/ store' = store
  BY DEF Commit
<1> HIDE DEF y
<1>3. CASE store' = [store EXCEPT ![n] = Saved(store[n], y)]
  BY <1>1, <1>3, SavedType, LogKept
<1>4. CASE store' = store
  BY <1>4 DEF LogStep, LogSame
<1> QED  BY <1>2, <1>3, <1>4

\* The heartbeat timer.
LEMMA HeartbeatNode ==
    ASSUME TypeInv, NEW n \in Server, heartbeat(n)
    PROVE  NodeStep(n)
<1>1. /\ sm[n] \in StateMachine /\ store[n] \in Store /\ net \in Net
      /\ sm \in [Server -> StateMachine]
      /\ LeaderProgress(n, sm[n]) /\ sm[n].commit_index \in Nat
  BY DEF TypeInv, TypeOK, ProgressOK, StateMachine
<1>2. /\ Aligned(store[n]) /\ sm[n].role = "Leader"
      /\ net' = replicate_all(net, n, sm[n], store[n])
  BY DEF heartbeat
<1>3. PICK c \in CommitRange(sm[n], store[n]) :
        /\ Commit(n, sm[n], c)
        /\ sm' = [sm EXCEPT ![n].commit_index = c,
                            ![n].last_applied = @ + Len(ToApply(sm[n], store[n], c))]
  BY DEF heartbeat
<1> DEFINE z == [sm[n] EXCEPT !.commit_index = c,
                              !.last_applied = @ + Len(ToApply(sm[n], store[n], c))]
<1>4. sm' = [sm EXCEPT ![n] = z]
  BY <1>1, <1>3
<1>5. /\ z.current_term = sm[n].current_term /\ z.role = "Leader" /\ z.commit_index = c
      /\ z.leader_id = sm[n].leader_id /\ z.progress = sm[n].progress
  BY <1>1, <1>2 DEF StateMachine
<1> HIDE DEF z
<1>6. sm'[n] = z /\ \A p \in Server \ {n} : sm'[p] = sm[p]
  BY <1>4, SmWritten
<1>7. sm[n].commit_index <= c
  BY <1>1, <1>3, StoreIndexTypes DEF CommitRange
<1>8. LogStep(n) /\ LogSame(n)
  BY <1>1, <1>3, CommitLog
<1>9. Sends(n)
  BY <1>1, <1>2, <1>5, <1>6, <1>7, <1>8, ReplicateSends DEF LogSame
<1>10. Believes(n)
  BY <1>5, <1>6 DEF Believes
<1> QED  BY <1>6, <1>8, <1>9, <1>10 DEF NodeStep

\* An entry appended at the end of an aligned log.
LEMMA AppendAtEnd ==
    ASSUME NEW st \in Store, NEW e \in Entry, e.index = last_index(st) + 1
    PROVE  append_entries(st, <<e>>).entries = Append(st.entries, e)
<1>1. last_index(st) \in Nat /\ st.entries \in Seq(Entry)
  BY StoreIndexTypes DEF Store
<1>2. <<e>>[1] = e /\ ~(e.index <= last_index(st))
  BY <1>1
<1>3. append_entries(st, <<e>>) = [st EXCEPT !.entries = st.entries \o <<e>>]
  BY <1>2 DEF append_entries
<1>4. st.entries \o <<e>> = Append(st.entries, e)
  BY <1>1
<1> QED  BY <1>3, <1>4 DEF Store

\* A client's command.
LEMMA OnProposalNode ==
    ASSUME TypeInv, NEW n \in Server, NEW cmd \in Command, on_proposal(n, cmd)
    PROVE  NodeStep(n)
<1> DEFINE e  == new_entry(n, cmd)
           st == append_entries(store[n], <<e>>)
<1>1. /\ sm[n] \in StateMachine /\ store[n] \in Store /\ net \in Net
      /\ LeaderProgress(n, sm[n]) /\ sm[n].commit_index \in Nat
  BY DEF TypeInv, TypeOK, ProgressOK, StateMachine
<1>2. /\ sm' = sm /\ sm[n].role = "Leader" /\ Aligned(store[n])
      /\ store' = [store EXCEPT ![n] = st]
      /\ net' = replicate_all(net, n, sm[n], st)
  BY DEF on_proposal
<1>3. e \in Entry /\ e.index = last_index(store[n]) + 1
  BY <1>1, StoreIndexTypes DEF new_entry, Entry, StateMachine
<1>4. Aligned(st)
  BY <1>1, <1>2, <1>3, AppendAligned
<1>5. st \in Store /\ st.snapshot = store[n].snapshot
  <2>1. <<e>> \in Seq(Entry) /\ <<e>> # <<>>
    BY <1>3
  <2> QED  BY <1>1, <2>1, AppendType
<1>6. st.entries = Append(store[n].entries, e)
  BY <1>1, <1>3, AppendAtEnd
<1> HIDE DEF st
<1>7. store'[n] = st /\ \A p \in Server \ {n} : store'[p] = store[p]
  BY <1>2, StoreWritten
<1>8. Extends(n)
  BY <1>2, <1>5, <1>6, <1>7 DEF Extends
<1>9. LogStep(n)
  BY <1>7, <1>8 DEF LogStep, LogSame
<1>10. Sends(n)
  BY <1>1, <1>2, <1>4, <1>5, <1>7, ReplicateSends
<1> QED  BY <1>2, <1>9, <1>10 DEF NodeStep, Believes

\* RequestVote.
LEMMA OnRequestVoteNode ==
    ASSUME TypeInv, NEW n \in Server, NEW m \in net.vote_req, on_request_vote(n, m)
    PROVE  NodeStep(n)
<1> DEFINE s  == Observe(sm[n], m.term, None)
           st == ObserveStore(store[n], sm[n], m.term, None)
           v  == [s EXCEPT !.voted_for = m.candidate_id]
<1>1. /\ sm[n] \in StateMachine /\ store[n] \in Store /\ net \in Net
      /\ LeaderProgress(n, sm[n])
  BY DEF TypeInv, TypeOK, ProgressOK
<1>2. m.term \in Nat /\ m.candidate_id \in Server
  BY <1>1 DEF Net, VoteReq
<1>3. s \in StateMachine /\ st \in Store
  BY <1>1, <1>2, ObserveType
<1>4. /\ \/ sm' = [sm EXCEPT ![n] = v] /\ store' = [store EXCEPT ![n] = Saved(st, v)]
         \/ sm' = [sm EXCEPT ![n] = s] /\ store' = [store EXCEPT ![n] = st]
      /\ net'.append_req = net.append_req /\ net'.snap_req = net.snap_req
  BY <1>1 DEF on_request_vote, Net
<1>5. st.entries = store[n].entries /\ st.snapshot = store[n].snapshot
  BY <1>1, <1>2, ObservedLog
<1>6. \/ s.leader_id = None
      \/ s.leader_id = sm[n].leader_id /\ s.current_term = sm[n].current_term
  BY <1>1, <1>2, ObservedLeader
<1> HIDE DEF s, st
<1>7. v \in StateMachine /\ v.leader_id = s.leader_id /\ v.current_term = s.current_term
  BY <1>2, <1>3 DEF StateMachine
<1> HIDE DEF v
<1>8. /\ Saved(st, v).entries = store[n].entries
      /\ Saved(st, v).snapshot = store[n].snapshot
  BY <1>3, <1>5, <1>7, SavedType
<1>9. LogStep(n)
  BY <1>4, <1>5, <1>8, LogKept
<1>10. sm'[n] \in {s, v} /\ \A p \in Server \ {n} : sm'[p] = sm[p]
  BY <1>4, SmWritten
<1>11. Believes(n) /\ SendsNothing
  BY <1>4, <1>6, <1>7, <1>10 DEF Believes, SendsNothing
<1> QED  BY <1>9, <1>10, <1>11 DEF NodeStep

\* A step-down triggered by an answer.
LEMMA StepDownNode ==
    ASSUME TypeInv, NEW n \in Server, NEW m, m.term \in Nat, StepDown(n, m), SendsNothing
    PROVE  NodeStep(n)
<1> DEFINE s == become_follower(sm[n], m.term, None)
<1>1. sm[n] \in StateMachine /\ store[n] \in Store
  BY DEF TypeInv, TypeOK
<1>2. s \in StateMachine /\ s.leader_id = None
  BY <1>1, FollowerType DEF become_follower, StateMachine
<1>3. sm' = [sm EXCEPT ![n] = s] /\ store' = [store EXCEPT ![n] = Saved(store[n], sm'[n])]
  BY DEF StepDown
<1> HIDE DEF s
<1>4. sm'[n] = s /\ \A p \in Server \ {n} : sm'[p] = sm[p]
  BY <1>3, SmWritten
<1>5. LogStep(n)
  BY <1>1, <1>2, <1>3, <1>4, SavedType, LogKept
<1> QED  BY <1>2, <1>4, <1>5 DEF NodeStep, Believes

\* An answer to RequestVote.
LEMMA HandleVoteResponseNode ==
    ASSUME TypeInv, NEW n \in Server, NEW m \in net.vote_resp, handle_vote_response(n, m)
    PROVE  NodeStep(n)
<1> DEFINE s  == [sm[n] EXCEPT !.votes_received = @ \cup {m.peer}]
           l  == become_leader(s, n, last_index(store[n]))
           nt == [net EXCEPT !.vote_resp = @ \ {m}]
<1>1. /\ sm[n] \in StateMachine /\ store[n] \in Store /\ net \in Net
  BY DEF TypeInv, TypeOK
<1>2. m.term \in Nat /\ m.peer \in Server
  BY <1>1 DEF Net, VoteResp
<1>3. s \in StateMachine
  <2>1. sm[n].votes_received \cup {m.peer} \in SUBSET Server
    BY <1>1, <1>2 DEF StateMachine
  <2> QED  BY <1>1, <2>1 DEF StateMachine
<1>4. s.leader_id = sm[n].leader_id /\ s.current_term = sm[n].current_term
  BY <1>1 DEF StateMachine
<1>5. nt \in Net /\ nt.append_req = net.append_req /\ nt.snap_req = net.snap_req
  BY <1>1 DEF Net
<1>6. /\ Aligned(store[n])
      /\ \/ StepDown(n, m) /\ net' = nt
         \/ /\ sm' = [sm EXCEPT ![n] = l]
            /\ leaders' = leaders \cup {<<l.current_term, n>>}
            /\ net' = replicate_all(nt, n, l, store[n])
            /\ store' = store
         \/ /\ sm' = [sm EXCEPT ![n] = s] \/ sm' = sm
            /\ net' = nt /\ store' = store
  BY DEF handle_vote_response, Hears
<1> HIDE DEF s, nt
<1>7. /\ l \in StateMachine /\ l.role = "Leader" /\ LeaderProgress(n, l) /\ l.leader_id = n
  <2>1. l \in StateMachine /\ l.role = "Leader" /\ LeaderProgress(n, l)
    BY <1>1, <1>3, LeaderType, StoreIndexTypes
  <2>2. l.leader_id = n
    BY <1>3 DEF become_leader, StateMachine
  <2> QED  BY <2>1, <2>2
<1> HIDE DEF l
<1>8. CASE StepDown(n, m) /\ net' = nt
  BY <1>2, <1>5, <1>8, StepDownNode DEF SendsNothing
<1>9. CASE /\ sm' = [sm EXCEPT ![n] = l]
           /\ leaders' = leaders \cup {<<l.current_term, n>>}
           /\ net' = replicate_all(nt, n, l, store[n])
           /\ store' = store
  <2>1. sm'[n] = l /\ \A p \in Server \ {n} : sm'[p] = sm[p]
    BY <1>9, SmWritten
  <2>2. l.commit_index <= l.commit_index
    BY <1>7 DEF StateMachine
  <2>3. Sends(n)
    BY <1>1, <1>5, <1>6, <1>7, <1>9, <2>1, <2>2, ReplicateSends
  <2>4. Believes(n) /\ LogStep(n)
    BY <1>7, <1>9, <2>1 DEF Believes, LogStep, LogSame
  <2> QED  BY <2>1, <2>3, <2>4 DEF NodeStep
<1>10. CASE /\ sm' = [sm EXCEPT ![n] = s] \/ sm' = sm
            /\ net' = nt /\ store' = store
  <2>1. sm'[n] \in {s, sm[n]} /\ \A p \in Server \ {n} : sm'[p] = sm[p]
    BY <1>10, SmWritten
  <2>2. Believes(n) /\ LogStep(n) /\ SendsNothing
    BY <1>4, <1>5, <1>10, <2>1 DEF Believes, LogStep, LogSame, SendsNothing
  <2> QED  BY <2>1, <2>2 DEF NodeStep
<1> QED  BY <1>6, <1>8, <1>9, <1>10

\* AppendEntries.
LEMMA OnAppendEntriesNode ==
    ASSUME TypeInv, NEW n \in Server, NEW m \in net.append_req, on_append_entries(n, m)
    PROVE  NodeStep(n)
<1> DEFINE o  == Observe(sm[n], m.term, m.leader_id)
           s  == [o EXCEPT !.leader_id = m.leader_id]
           st == ObserveStore(store[n], sm[n], m.term, m.leader_id)
           appended == IF m.entries = <<>> THEN st ELSE append_entries(st, m.entries)
           c  == [s EXCEPT !.commit_index = commit_bound(appended, m)]
<1>1. /\ sm[n] \in StateMachine /\ store[n] \in Store /\ net \in Net
      /\ LeaderProgress(n, sm[n]) /\ sm[n].current_term \in Nat
  BY DEF TypeInv, TypeOK, ProgressOK, StateMachine
<1>2. /\ m.term \in Nat /\ m.leader_id \in Sender
      /\ m.entries \in Seq(Entry) /\ m.leader_commit \in Nat /\ m.prev_log_index \in Nat
  BY <1>1 DEF Net, AppendReq
<1>3. o \in StateMachine /\ st \in Store
  BY <1>1, <1>2, ObserveType
<1>4. /\ m.to = n /\ Aligned(store[n])
      /\ \/ sm' = sm /\ store' = store
         \/ /\ ~(m.term < sm[n].current_term)
            /\ \/ sm' = [sm EXCEPT ![n] = s] /\ store' = [store EXCEPT ![n] = st]
               \/ /\ Consistent(st, m)
                  /\ \/ sm' = [sm EXCEPT ![n] = s] /\ store' = [store EXCEPT ![n] = appended]
                     \/ sm' = [sm EXCEPT ![n] = c] /\ store' = [store EXCEPT ![n] = Saved(appended, c)]
  BY DEF on_append_entries, Serving
<1>5. SendsNothing
  <2>1. PICK rs : net' = [net EXCEPT !.append_req = Rest(@, m), !.append_resp = @ \cup rs]
    BY DEF on_append_entries
  <2> QED  BY <1>1, <2>1 DEF Net, Rest, SendsNothing
<1>6. st.entries = store[n].entries /\ st.snapshot = store[n].snapshot
  BY <1>1, <1>2, ObservedLog
<1>7. ~(m.term < sm[n].current_term) => o.current_term = m.term
  BY <1>1, <1>2, ObservedLeader
<1> HIDE DEF o, st
<1>8. /\ s \in StateMachine /\ s.current_term = o.current_term /\ s.leader_id = m.leader_id
  BY <1>2, <1>3 DEF StateMachine
<1>9. appended \in Store /\ appended.snapshot = store[n].snapshot
  BY <1>2, <1>3, <1>6, AppendType
<1>10. m.entries # <<>> => appended.entries = append_entries(store[n], m.entries).entries
  <2>1. append_entries(st, m.entries).entries = append_entries(store[n], m.entries).entries
    BY <1>1, <1>3, <1>6 DEF append_entries, first_index, last_index, Store
  <2> QED  BY <2>1
<1>11. m.entries = <<>> => appended.entries = store[n].entries
  BY <1>6
<1>12. Consistent(st, m) => Consistent(store[n], m)
  BY <1>6 DEF Consistent, LogCompacted, LogUnavailable, term, first_index
<1> HIDE DEF s, appended
<1>13. /\ c \in StateMachine /\ c.current_term = s.current_term /\ c.leader_id = s.leader_id
  <2>1. commit_bound(appended, m) \in Nat
    BY <1>2, <1>9, StoreIndexTypes DEF commit_bound
  <2> QED  BY <1>8, <2>1 DEF StateMachine
<1> HIDE DEF c
<1>14. CASE sm' = sm /\ store' = store
  BY <1>5, <1>14 DEF NodeStep, LogStep, LogSame, Believes
<1>15. ASSUME NEW z \in {s, c}, sm' = [sm EXCEPT ![n] = z], ~(m.term < sm[n].current_term)
       PROVE  /\ sm'[n].current_term = m.term /\ Believes(n)
              /\ \A p \in Server \ {n} : sm'[p] = sm[p]
  <2>1. sm'[n] = z /\ \A p \in Server \ {n} : sm'[p] = sm[p]
    BY <1>15, SmWritten
  <2> QED  BY <1>7, <1>8, <1>13, <1>15, <2>1 DEF Believes
<1>16. CASE /\ ~(m.term < sm[n].current_term)
            /\ sm' = [sm EXCEPT ![n] = s] /\ store' = [store EXCEPT ![n] = st]
  <2>1. LogStep(n)
    BY <1>6, <1>16, LogKept
  <2> QED  BY <1>5, <1>15, <1>16, <2>1 DEF NodeStep
<1>17. ASSUME ~(m.term < sm[n].current_term), Consistent(st, m),
              sm'[n].current_term = m.term,
              NEW y, y.entries = appended.entries, y.snapshot = appended.snapshot,
              store' = [store EXCEPT ![n] = y]
       PROVE  LogStep(n)
  <2>1. CASE m.entries = <<>>
    BY <1>9, <1>11, <1>17, <2>1, LogKept
  <2>2. CASE m.entries # <<>>
    <3>1. store'[n] = y /\ \A p \in Server \ {n} : store'[p] = store[p]
      BY <1>17, StoreWritten
    <3>2. Overwrites(n, m)
      BY <1>1, <1>2, <1>4, <1>9, <1>10, <1>12, <1>17, <2>2, <3>1 DEF Overwrites
    <3> QED  BY <3>1, <3>2 DEF LogStep, LogSame
  <2> QED  BY <2>1, <2>2
<1>18. CASE /\ ~(m.term < sm[n].current_term) /\ Consistent(st, m)
            /\ sm' = [sm EXCEPT ![n] = s] /\ store' = [store EXCEPT ![n] = appended]
  BY <1>5, <1>15, <1>17, <1>18 DEF NodeStep
<1>19. CASE /\ ~(m.term < sm[n].current_term) /\ Consistent(st, m)
            /\ sm' = [sm EXCEPT ![n] = c] /\ store' = [store EXCEPT ![n] = Saved(appended, c)]
  <2> DEFINE y == Saved(appended, c)
  <2>1. y.entries = appended.entries /\ y.snapshot = appended.snapshot
    BY <1>9, <1>13, SavedType
  <2>2. store' = [store EXCEPT ![n] = y]
    BY <1>19
  <2> HIDE DEF y
  <2>3. LogStep(n)
    BY <1>15, <1>17, <1>19, <2>1, <2>2
  <2> QED  BY <1>5, <1>15, <1>19, <2>3 DEF NodeStep
<1> QED  BY <1>4, <1>14, <1>16, <1>18, <1>19

\* The two handlers of replication answers.
LEMMA ReplicationAnswerNode ==
    ASSUME TypeInv, NEW n \in Server, NEW m, m.term \in Nat,
           NEW s \in StateMachine, s.current_term = sm[n].current_term,
           s.leader_id = sm[n].leader_id,
           \/ StepDown(n, m)
           \/ UNCHANGED <<sm, store>>
           \/ \E c \in CommitRange(s, store[n]) :
                 /\ Commit(n, s, c)
                 /\ sm' = [sm EXCEPT ![n] = [s EXCEPT !.commit_index = c]],
           SendsNothing
    PROVE  NodeStep(n)
<1>1. CASE StepDown(n, m)
  BY <1>1, StepDownNode
<1>2. CASE UNCHANGED <<sm, store>>
  BY <1>2 DEF NodeStep, LogStep, LogSame, Believes
<1>3. ASSUME NEW c \in CommitRange(s, store[n]), Commit(n, s, c),
             sm' = [sm EXCEPT ![n] = [s EXCEPT !.commit_index = c]]
      PROVE  NodeStep(n)
  <2> DEFINE z == [s EXCEPT !.commit_index = c]
  <2>1. z.current_term = sm[n].current_term /\ z.leader_id = sm[n].leader_id
    BY DEF StateMachine
  <2>2. sm' = [sm EXCEPT ![n] = z]
    BY <1>3
  <2> HIDE DEF z
  <2>3. sm'[n] = z /\ \A p \in Server \ {n} : sm'[p] = sm[p]
    BY <2>2, SmWritten
  <2>4. LogStep(n)
    BY <1>3, CommitLog
  <2> QED  BY <2>1, <2>3, <2>4 DEF NodeStep, Believes
<1> QED  BY <1>1, <1>2, <1>3

\* An answer to AppendEntries.
LEMMA HandleAppendResponseNode ==
    ASSUME TypeInv, NEW n \in Server, NEW m \in net.append_resp, handle_append_response(n, m)
    PROVE  NodeStep(n)
<1> DEFINE p == sm[n].progress[m.peer]
           match == IF p.match_index >= m.req_last_index THEN p.match_index ELSE m.req_last_index
           back == IF m.conflict_index > 0 THEN m.conflict_index
                   ELSE IF p.next_index > 2 THEN p.next_index - 1 ELSE 1
           q == IF m.success THEN [next_index |-> match + 1, match_index |-> match]
                             ELSE [p EXCEPT !.next_index = back]
           s == [sm[n] EXCEPT !.progress[m.peer] = q]
<1>1. sm[n] \in StateMachine /\ net \in Net /\ LeaderProgress(n, sm[n])
  BY DEF TypeInv, TypeOK, ProgressOK
<1>2. /\ m.term \in Nat /\ m.peer \in Server /\ m.req_last_index \in Nat
      /\ m.conflict_index \in Nat /\ m.success \in BOOLEAN
  BY <1>1 DEF Net, AppendResp
<1>3. p \in Progress /\ p.next_index \in Nat /\ p.match_index \in Nat
  BY <1>1, <1>2 DEF StateMachine, Progress
<1>4. match \in Nat /\ match + 1 \in Nat /\ match + 1 >= 1 /\ back \in Nat /\ back >= 1
  <2> HIDE DEF p
  <2> QED  BY <1>2, <1>3
<1>5. q \in Progress /\ q.next_index >= 1
  <2> HIDE DEF p, match, back
  <2> QED  BY <1>2, <1>3, <1>4 DEF Progress
<1>6. /\ net' = [net EXCEPT !.append_resp = Rest(@, m)]
      /\ \/ StepDown(n, m)
         \/ UNCHANGED <<sm, store>>
         \/ \E c \in CommitRange(s, store[n]) :
               /\ Commit(n, s, c)
               /\ sm' = [sm EXCEPT ![n] = [s EXCEPT !.commit_index = c]]
  BY DEF handle_append_response
<1> HIDE DEF q
<1>7. s \in StateMachine
  BY <1>1, <1>2, <1>5, ProgressUpdate
<1>8. s.current_term = sm[n].current_term /\ s.leader_id = sm[n].leader_id
  BY <1>1 DEF StateMachine
<1>9. SendsNothing
  BY <1>1, <1>6 DEF Net, SendsNothing
<1> HIDE DEF s
<1> QED  BY <1>2, <1>6, <1>7, <1>8, <1>9, ReplicationAnswerNode

\* An answer to InstallSnapshot.
LEMMA HandleSnapshotResponseNode ==
    ASSUME TypeInv, NEW n \in Server, NEW m \in net.snap_resp, handle_snapshot_response(n, m)
    PROVE  NodeStep(n)
<1> DEFINE p == sm[n].progress[m.peer]
           match == IF p.match_index >= m.req_last_index THEN p.match_index ELSE m.req_last_index
           q == [next_index |-> match + 1, match_index |-> match]
           s == [sm[n] EXCEPT !.progress[m.peer] = q]
<1>1. sm[n] \in StateMachine /\ net \in Net /\ LeaderProgress(n, sm[n])
  BY DEF TypeInv, TypeOK, ProgressOK
<1>2. m.term \in Nat /\ m.peer \in Server /\ m.req_last_index \in Nat
  BY <1>1 DEF Net, SnapResp
<1>3. p.match_index \in Nat
  BY <1>1, <1>2 DEF StateMachine, Progress
<1>4. match \in Nat /\ match + 1 \in Nat /\ match + 1 >= 1
  <2> HIDE DEF p
  <2> QED  BY <1>2, <1>3
<1>5. q \in Progress /\ q.next_index >= 1
  <2> HIDE DEF match
  <2> QED  BY <1>4 DEF Progress
<1>6. /\ net' = [net EXCEPT !.snap_resp = Rest(@, m)]
      /\ \/ StepDown(n, m)
         \/ UNCHANGED <<sm, store>>
         \/ \E c \in CommitRange(s, store[n]) :
               /\ Commit(n, s, c)
               /\ sm' = [sm EXCEPT ![n] = [s EXCEPT !.commit_index = c]]
  BY DEF handle_snapshot_response
<1> HIDE DEF q
<1>7. s \in StateMachine
  BY <1>1, <1>2, <1>5, ProgressUpdate
<1>8. s.current_term = sm[n].current_term /\ s.leader_id = sm[n].leader_id
  BY <1>1 DEF StateMachine
<1>9. SendsNothing
  BY <1>1, <1>6 DEF Net, SendsNothing
<1> HIDE DEF s
<1> QED  BY <1>2, <1>6, <1>7, <1>8, <1>9, ReplicationAnswerNode

\* InstallSnapshot.
LEMMA OnInstallSnapshotNode ==
    ASSUME TypeInv, NEW n \in Server, NEW m \in net.snap_req, on_install_snapshot(n, m)
    PROVE  NodeStep(n)
<1> DEFINE s  == Observe(sm[n], m.term, m.leader_id)
           st == ObserveStore(store[n], sm[n], m.term, m.leader_id)
           last == m.snapshot.last_included_index
           installed == [s EXCEPT !.commit_index = IF @ >= last THEN @ ELSE last,
                                  !.last_applied = IF @ >= last THEN @ ELSE last]
           taken == apply_snapshot(st, m.snapshot)
           saved == Saved(taken, installed)
<1>1. /\ sm[n] \in StateMachine /\ store[n] \in Store /\ net \in Net
      /\ LeaderProgress(n, sm[n]) /\ sm[n].current_term \in Nat
  BY DEF TypeInv, TypeOK, ProgressOK, StateMachine
<1>2. m.term \in Nat /\ m.leader_id \in Server /\ m.leader_id \in Sender /\ m.snapshot \in Snapshot /\ last \in Nat
  BY <1>1 DEF Net, SnapReq, Snapshot, Sender
<1>3. s \in StateMachine /\ st \in Store
  BY <1>1, <1>2, ObserveType
<1>4. /\ m.to = n
      /\ \/ sm' = sm /\ store' = store
         \/ /\ m.term >= sm[n].current_term
            /\ sm' = [sm EXCEPT ![n] = installed] /\ store' = [store EXCEPT ![n] = saved]
  BY DEF on_install_snapshot
<1>5. SendsNothing
  BY <1>1 DEF on_install_snapshot, Net, Rest, SendsNothing
<1>6. st.entries = store[n].entries /\ st.snapshot = store[n].snapshot
  BY <1>1, <1>2, ObservedLog
<1>7. m.term >= sm[n].current_term =>
        /\ s.current_term = m.term
        /\ \/ s.leader_id = m.leader_id
           \/ s.leader_id = sm[n].leader_id /\ s.current_term = sm[n].current_term
  BY <1>1, <1>2, ObservedLeader
<1> HIDE DEF s, st
<1>8. /\ installed.current_term = s.current_term /\ installed.leader_id = s.leader_id
  BY <1>3 DEF StateMachine
<1>9. /\ saved.entries = apply_snapshot(store[n], m.snapshot).entries
      /\ saved.snapshot = m.snapshot
  <2>1. taken \in Store
    BY <1>2, <1>3, ApplySnapshotType
  <2>2. taken.snapshot = m.snapshot
    BY <1>3 DEF apply_snapshot, Store
  <2>3. taken.entries = apply_snapshot(store[n], m.snapshot).entries
    BY <1>1, <1>3, <1>6 DEF apply_snapshot, first_index, Store
  <2>4. saved.entries = taken.entries /\ saved.snapshot = taken.snapshot
    <3> HIDE DEF taken, installed
    <3> QED  BY <2>1 DEF Saved, save_hard_state, Store
  <2> QED  BY <2>2, <2>3, <2>4
<1> HIDE DEF installed, saved
<1>10. CASE sm' = sm /\ store' = store
  BY <1>5, <1>10 DEF NodeStep, LogStep, LogSame, Believes
<1>11. CASE /\ m.term >= sm[n].current_term
            /\ sm' = [sm EXCEPT ![n] = installed] /\ store' = [store EXCEPT ![n] = saved]
  <2>1. sm'[n] = installed /\ \A p \in Server \ {n} : sm'[p] = sm[p]
    BY <1>11, SmWritten
  <2>2. store'[n] = saved /\ \A p \in Server \ {n} : store'[p] = store[p]
    BY <1>11, StoreWritten
  <2>3. Installs(n, m)
    BY <1>4, <1>7, <1>8, <1>9, <1>11, <2>1, <2>2 DEF Installs
  <2>4. LogStep(n)
    BY <2>2, <2>3 DEF LogStep, LogSame
  <2>5. Believes(n)
    BY <1>7, <1>8, <1>11, <2>1 DEF Believes
  <2> QED  BY <1>5, <2>1, <2>4, <2>5 DEF NodeStep
<1> QED  BY <1>4, <1>10, <1>11

\* The application takes a snapshot.
LEMMA CompactNode ==
    ASSUME TypeInv, NEW n \in Server, compact(n)
    PROVE  NodeStep(n)
<1>1. store[n] \in Store /\ applied[n] \in Seq(Entry) /\ first_index(store[n]) \in Nat
  BY StoreIndexTypes DEF TypeInv, TypeOK
<1>2. PICK k \in DOMAIN applied[n] :
        /\ applied[n][k].index >= first_index(store[n])
        /\ store' = [store EXCEPT ![n] = apply_snapshot(@,
               [last_included_index |-> applied[n][k].index,
                last_included_term  |-> applied[n][k].term,
                data                |-> SubSeq(applied[n], 1, k)])]
  BY DEF compact
<1> DEFINE snap == [last_included_index |-> applied[n][k].index,
                    last_included_term  |-> applied[n][k].term,
                    data                |-> SubSeq(applied[n], 1, k)]
           y == apply_snapshot(store[n], snap)
<1>3. store' = [store EXCEPT ![n] = y]
  BY <1>2
<1>4. applied[n][k].index \in Nat
  <2>1. applied[n][k] \in Entry
    BY <1>1
  <2> QED  BY <2>1 DEF Entry
<1>5. first_index(y) = applied[n][k].index + 1
  <2>1. y.snapshot = snap
    <3> HIDE DEF snap
    <3> QED  BY <1>1 DEF apply_snapshot, Store
  <2> QED  BY <2>1 DEF first_index
<1> HIDE DEF y
<1>6. store'[n] = y /\ \A p \in Server \ {n} : store'[p] = store[p]
  BY <1>3, StoreWritten
<1>7. Compacts(n)
  BY <1>1, <1>2, <1>4, <1>5, <1>6 DEF compact, Compacts
<1>8. LogStep(n)
  BY <1>6, <1>7 DEF LogStep, LogSame
<1>9. sm' = sm /\ net' = net
  BY DEF compact
<1> QED  BY <1>8, <1>9 DEF NodeStep, SendsNothing, Believes

\* What a step of the system is to logs and requests.
LEMMA NodeSteps ==
    ASSUME TypeInv, [Next]_vars
    PROVE  \/ UNCHANGED <<sm, store, net, leaders>>
           \/ \E n \in Server :
                 \/ NodeStep(n)
                 \/ restore(n)
                 \/ shutdown(n)
                 \/ start(n)
<1>1. CASE UNCHANGED vars
  BY <1>1 DEF vars
<1>2. ASSUME NEW n \in Server, start_election(n) \/ heartbeat(n) \/ compact(n) PROVE NodeStep(n)
  BY <1>2, StartElectionNode, HeartbeatNode, CompactNode
<1>3. ASSUME NEW n \in Server, NEW cmd \in Command, on_proposal(n, cmd) PROVE NodeStep(n)
  BY <1>3, OnProposalNode
<1>4. ASSUME NEW n \in Server, NEW m \in net.vote_req, on_request_vote(n, m) PROVE NodeStep(n)
  BY <1>4, OnRequestVoteNode
<1>5. ASSUME NEW n \in Server, NEW m \in net.vote_resp, handle_vote_response(n, m)
      PROVE  NodeStep(n)
  BY <1>5, HandleVoteResponseNode
<1>6. ASSUME NEW n \in Server, NEW m \in net.append_req, on_append_entries(n, m) PROVE NodeStep(n)
  BY <1>6, OnAppendEntriesNode
<1>7. ASSUME NEW n \in Server, NEW m \in net.append_resp, handle_append_response(n, m)
      PROVE  NodeStep(n)
  BY <1>7, HandleAppendResponseNode
<1>8. ASSUME NEW n \in Server, NEW m \in net.snap_req, on_install_snapshot(n, m)
      PROVE  NodeStep(n)
  BY <1>8, OnInstallSnapshotNode
<1>9. ASSUME NEW n \in Server, NEW m \in net.snap_resp, handle_snapshot_response(n, m)
      PROVE  NodeStep(n)
  BY <1>9, HandleSnapshotResponseNode
<1> QED
  BY <1>1, <1>2, <1>3, <1>4, <1>5, <1>6, <1>7, <1>8, <1>9 DEF Next

-----------------------------------------------------------------------------
(* Leaders and their requests.                                             *)

\* A candidate or leader has started, and in a term of its own making.
RolesOK == \A n \in Server :
    /\ phase[n] = "starting" => sm[n].role = "Follower"
    /\ sm[n].role # "Follower" => sm[n].current_term > 0

\* A term in memory is saved: only a node that just started knows less than its
\* storage.
TermsSaved == \A n \in Server :
    sm[n].current_term > 0 => store[n].hard_state.term = sm[n].current_term

LeadersRecorded == \A n \in Server :
    sm[n].role = "Leader" => <<sm[n].current_term, n>> \in leaders

LeaderTerms == \A l \in leaders : l[1] > 0

\* Requests come from an elected leader, which does not send them to itself.
RequestsFromLeaders == \A m \in net.append_req \cup net.snap_req :
    <<m.term, m.leader_id>> \in leaders /\ m.to # m.leader_id

LeaderInv ==
    /\ TypeInv /\ RolesOK /\ TermsSaved
    /\ LeadersRecorded /\ LeaderTerms /\ RequestsFromLeaders /\ LeaderHintTrue

\* No election is ever taken back.
LEMMA LeadersGrow ==
    ASSUME TypeInv, [Next]_vars
    PROVE  leaders \subseteq leaders'
BY HistoryGrows

\* Roles, saved terms and recorded leaders of one node.
NodeLeads(p) ==
    /\ phase[p] = "starting" => sm[p].role = "Follower"
    /\ sm[p].role # "Follower" => sm[p].current_term > 0
    /\ sm[p].current_term > 0 => store[p].hard_state.term = sm[p].current_term
    /\ sm[p].role = "Leader" => <<sm[p].current_term, p>> \in leaders

\* A node becomes leader only in the step that records its election.
LEMMA NodeLeadsStep ==
    ASSUME TypeInv, TypeInv', [Next]_vars, NEW p \in Server, NodeLeads(p)
    PROVE  NodeLeads(p)'
<1>0. /\ phase \in [Server -> {"starting", "running", "stopped"}]
      /\ sm[p].current_term \in Nat /\ sm'[p].current_term \in Nat
  BY DEF TypeInv, TypeOK, StateMachine
<1>1. leaders \subseteq leaders'
  BY LeadersGrow
<1>2. CASE UNCHANGED <<sm, store, phase, incarnation, net, votes, leaders>>
  BY <1>2 DEF NodeLeads
<1>3. ASSUME NEW n \in Server, OthersStay(n), p # n, phase' = phase
      PROVE  NodeLeads(p)'
  BY <1>1, <1>3 DEF NodeLeads, OthersStay
<1>4. ASSUME NEW n \in Server, Calm(n) PROVE NodeLeads(p)'
  <2>1. CASE p # n
    BY <1>3, <1>4, <2>1 DEF Calm
  <2>2. CASE p = n /\ HigherNode(n)
    BY <1>0, <1>4, <2>2 DEF Calm, HigherNode, NodeLeads, hard_state_of
  <2>3. CASE p = n /\ QuietNode(n)
    BY <1>0, <1>1, <1>4, <2>3 DEF Calm, QuietNode, NodeLeads, hard_state_of
  <2> QED  BY <1>4, <2>1, <2>2, <2>3 DEF Calm
<1>5. ASSUME NEW n \in Server, Standing(n) PROVE NodeLeads(p)'
  <2>1. CASE p # n
    BY <1>3, <1>5, <2>1 DEF Standing
  <2>2. CASE p = n
    BY <1>0, <1>5, <2>2 DEF Standing, NodeLeads, hard_state_of
  <2> QED  BY <2>1, <2>2
<1>6. ASSUME NEW n \in Server, NEW m \in net.vote_req, Granting(n, m) PROVE NodeLeads(p)'
  <2>1. CASE p # n
    BY <1>3, <1>6, <2>1 DEF Granting
  <2>2. CASE p = n
    BY <1>0, <1>1, <1>6, <2>2 DEF Granting, NodeLeads, hard_state_of
  <2> QED  BY <2>1, <2>2
<1>7. ASSUME NEW n \in Server, NEW m \in net.vote_resp, Counting(n, m) PROVE NodeLeads(p)'
  <2>1. CASE p # n
    BY <1>3, <1>7, <2>1 DEF Counting
  <2>2. CASE p = n
    BY <1>0, <1>7, <2>2 DEF Counting, NodeLeads
  <2> QED  BY <2>1, <2>2
<1>8. ASSUME NEW n \in Server, restore(n) PROVE NodeLeads(p)'
  <2>1. /\ sm'[n].current_term = store[n].hard_state.term /\ sm'[n].role = sm[n].role
        /\ store' = store /\ phase' = [phase EXCEPT ![n] = "running"] /\ leaders' = leaders
        /\ \A q \in Server \ {n} : sm'[q] = sm[q]
    BY <1>8, RestoreFields
  <2>2. phase[n] = "starting"
    BY <1>8 DEF restore
  <2> QED  BY <1>0, <2>1, <2>2 DEF NodeLeads
<1>9. ASSUME NEW n \in Server, shutdown(n) PROVE NodeLeads(p)'
  BY <1>0, <1>9 DEF shutdown, history, NodeLeads
<1>10. ASSUME NEW n \in Server, start(n) PROVE NodeLeads(p)'
  <2>1. /\ sm'[n].role = "Follower" /\ sm'[n].current_term = 0
        /\ store' = store /\ phase' = [phase EXCEPT ![n] = "starting"] /\ leaders' = leaders
        /\ \A q \in Server \ {n} : sm'[q] = sm[q]
    BY <1>10, StartFields
  <2> QED  BY <1>0, <2>1 DEF NodeLeads
<1> QED  BY <1>2, <1>4, <1>5, <1>6, <1>7, <1>8, <1>9, <1>10, ElectionSteps

\* Elections are won in terms after 0.
LEMMA LeaderTermsStep ==
    ASSUME TypeInv, RolesOK, LeaderTerms, [Next]_vars
    PROVE  LeaderTerms'
<1> SUFFICES ASSUME NEW l \in leaders', l \notin leaders PROVE l[1] > 0
  BY DEF LeaderTerms
<1>1. PICK n \in Server : Standing(n) \/ \E m \in net.vote_resp : Counting(n, m)
  BY ElectionSteps DEF Calm, Granting, restore, shutdown, start, history
<1>2. sm[n].current_term \in Nat
  BY DEF TypeInv, TypeOK, StateMachine
<1>3. CASE Standing(n)
  BY <1>2, <1>3 DEF Standing
<1>4. CASE \E m \in net.vote_resp : Counting(n, m)
  BY <1>2, <1>4 DEF Counting, RolesOK
<1> QED  BY <1>1, <1>3, <1>4

\* A request is sent by a leader, to somebody else.
LEMMA RequestsStep ==
    ASSUME TypeInv, RequestsFromLeaders, LeadersRecorded', [Next]_vars
    PROVE  RequestsFromLeaders'
<1> SUFFICES ASSUME NEW m \in net'.append_req \cup net'.snap_req
             PROVE  <<m.term, m.leader_id>> \in leaders' /\ m.to # m.leader_id
  BY DEF RequestsFromLeaders
<1>1. leaders \subseteq leaders'
  BY LeadersGrow
<1>2. CASE m \in net.append_req \cup net.snap_req
  BY <1>1, <1>2 DEF RequestsFromLeaders
<1>3. CASE m \notin net.append_req \cup net.snap_req
  <2>1. PICK n \in Server : NodeStep(n)
    BY <1>3, NodeSteps DEF restore, shutdown, start
  <2>2. Sends(n)
    BY <1>3, <2>1 DEF NodeStep, SendsNothing
  <2>3. PICK s \in StateMachine, st \in Store, p \in Peers(n) :
          /\ s.current_term = sm'[n].current_term
          /\ m = append_request(n, s, st, p) \/ m = snapshot_request(n, s, st, p)
    BY <1>3, <2>2 DEF Sends
  <2>4. m.term = sm'[n].current_term /\ m.leader_id = n /\ m.to = p
    BY <2>3 DEF append_request, snapshot_request
  <2>5. <<sm'[n].current_term, n>> \in leaders'
    BY <2>2 DEF Sends, LeadersRecorded
  <2> QED  BY <2>3, <2>4, <2>5 DEF Peers
<1> QED  BY <1>2, <1>3

\* Whom a node takes for the leader was elected in the node's term.
LEMMA HintStep ==
    ASSUME LeaderInv, [Next]_vars
    PROVE  LeaderHintTrue'
<1> SUFFICES ASSUME NEW p \in Server, sm'[p].leader_id # None
             PROVE  <<sm'[p].current_term, sm'[p].leader_id>> \in leaders'
  BY DEF LeaderHintTrue
<1>1. TypeInv /\ leaders \subseteq leaders'
  BY LeadersGrow DEF LeaderInv
<1>2. ASSUME sm'[p].leader_id = sm[p].leader_id, sm'[p].current_term = sm[p].current_term
      PROVE  <<sm'[p].current_term, sm'[p].leader_id>> \in leaders'
  BY <1>1, <1>2 DEF LeaderInv, LeaderHintTrue
<1>3. CASE UNCHANGED <<sm, store, net, leaders>>
  BY <1>2, <1>3
<1>4. ASSUME NEW n \in Server, NodeStep(n)
      PROVE  <<sm'[p].current_term, sm'[p].leader_id>> \in leaders'
  <2>1. CASE p # n
    BY <1>2, <1>4, <2>1 DEF NodeStep
  <2>2. CASE p = n
    <3>1. Believes(n)
      BY <1>4 DEF NodeStep
    <3>2. \A m \in net.append_req \cup net.snap_req : <<m.term, m.leader_id>> \in leaders
      BY DEF LeaderInv, RequestsFromLeaders
    <3> QED  BY <1>1, <1>2, <2>2, <3>1, <3>2 DEF Believes
  <2> QED  BY <2>1, <2>2
<1>5. ASSUME NEW n \in Server, restore(n)
      PROVE  <<sm'[p].current_term, sm'[p].leader_id>> \in leaders'
  <2>1. /\ sm'[n].current_term = store[n].hard_state.term
        /\ sm'[n].leader_id = sm[n].leader_id
        /\ \A q \in Server \ {n} : sm'[q] = sm[q]
    BY <1>1, <1>5, RestoreFields
  <2>2. CASE p # n
    BY <1>2, <2>1, <2>2
  <2>3. CASE p = n
    <3>1. <<sm[n].current_term, sm[n].leader_id>> \in leaders
      BY <2>1, <2>3 DEF LeaderInv, LeaderHintTrue
    <3>2. sm[n].current_term > 0
      BY <3>1 DEF LeaderInv, LeaderTerms
    <3>3. store[n].hard_state.term = sm[n].current_term
      BY <3>2 DEF LeaderInv, TermsSaved
    <3> QED  BY <1>1, <2>1, <2>3, <3>1, <3>3
  <2> QED  BY <2>2, <2>3
<1>6. ASSUME NEW n \in Server, shutdown(n)
      PROVE  <<sm'[p].current_term, sm'[p].leader_id>> \in leaders'
  BY <1>2, <1>6 DEF shutdown
<1>7. ASSUME NEW n \in Server, start(n)
      PROVE  <<sm'[p].current_term, sm'[p].leader_id>> \in leaders'
  <2>1. sm'[n].leader_id = None /\ \A q \in Server \ {n} : sm'[q] = sm[q]
    BY <1>1, <1>7, StartFields
  <2> QED  BY <1>2, <2>1
<1> QED  BY <1>1, <1>3, <1>4, <1>5, <1>6, <1>7, NodeSteps

\* Leaders, their requests and what nodes make of them, in any environment.
LEMMA LeaderInvariant == Spec => []LeaderInv
<1>1. LeaderInv /\ [Next]_vars => LeaderInv'
  <2> SUFFICES ASSUME LeaderInv, [Next]_vars PROVE LeaderInv'
    OBVIOUS
  <2>1. TypeInv /\ TypeInv'
    BY NextType DEF LeaderInv
  <2>2. \A p \in Server : NodeLeads(p)
    BY DEF LeaderInv, RolesOK, TermsSaved, LeadersRecorded, NodeLeads
  <2>3. \A p \in Server : NodeLeads(p)'
    BY <2>1, <2>2, NodeLeadsStep
  <2>4. RolesOK' /\ TermsSaved' /\ LeadersRecorded'
    BY <2>3 DEF RolesOK, TermsSaved, LeadersRecorded, NodeLeads
  <2>5. LeaderTerms' /\ RequestsFromLeaders' /\ LeaderHintTrue'
    BY <2>1, <2>4, LeaderTermsStep, RequestsStep, HintStep DEF LeaderInv
  <2> QED  BY <2>1, <2>4, <2>5 DEF LeaderInv
<1>2. Init => LeaderInv
  <2> SUFFICES ASSUME Init PROVE LeaderInv
    OBVIOUS
  <2>1. TypeInv
    BY InitType
  <2>2. RolesOK /\ TermsSaved /\ LeadersRecorded /\ LeaderHintTrue
    BY DEF Init, new_state, RolesOK, TermsSaved, LeadersRecorded, LeaderHintTrue
  <2>3. LeaderTerms /\ RequestsFromLeaders
    BY DEF Init, NoRpcs, LeaderTerms, RequestsFromLeaders
  <2> QED  BY <2>1, <2>2, <2>3 DEF LeaderInv
<1> QED  BY <1>1, <1>2, PTL DEF Spec

\* leader_id, the hint in NotLeader, names the winner of the node's current term
\* or nobody: in every environment, late answers, duplicates and RPCs that arrive
\* before the hard state is restored included.
THEOREM HintsTrue == Spec => []LeaderHintTrue
<1>1. LeaderInv => LeaderHintTrue
  BY DEF LeaderInv
<1> QED  BY <1>1, LeaderInvariant, PTL

-----------------------------------------------------------------------------
(* Leaders' logs.                                                          *)

\* Where elections are safe, a node that takes a request's term is not left a
\* leader by it: the term has a leader already, and that is the sender.
LEMMA ReceiverFollows ==
    ASSUME LeaderInv, LeaderInv', ElectionSafety', [Next]_vars,
           NEW m \in net.append_req \cup net.snap_req, m.to \in Server,
           sm'[m.to].current_term = m.term
    PROVE  sm'[m.to].role # "Leader"
<1> SUFFICES ASSUME sm'[m.to].role = "Leader" PROVE FALSE
  OBVIOUS
<1> DEFINE l == <<m.term, m.leader_id>>
           k == <<m.term, m.to>>
<1>1. l \in leaders' /\ m.to # m.leader_id
  BY LeadersGrow DEF LeaderInv, RequestsFromLeaders
<1>2. k \in leaders'
  BY DEF LeaderInv, LeadersRecorded
<1>3. l[1] = k[1] /\ l[2] = m.leader_id /\ k[2] = m.to
  OBVIOUS
<1> HIDE DEF l, k
<1> QED  BY <1>1, <1>2, <1>3 DEF ElectionSafety

\* What LeaderAppendOnly says of one step.
LeaderLogKept ==
    \A n \in Server :
        /\ sm[n].role = "Leader" /\ sm'[n].role = "Leader"
        /\ first_index(store[n]) = first_index(store'[n])
        => /\ Len(store[n].entries) <= Len(store'[n].entries)
           /\ \A k \in DOMAIN store[n].entries :
                 store'[n].entries[k] = store[n].entries[k]

\* A leader's log changes by its own proposals only.
LEMMA LeaderLogStep ==
    ASSUME LeaderInv, LeaderInv', ElectionSafety', [Next]_vars
    PROVE  LeaderLogKept
<1> SUFFICES ASSUME NEW p \in Server,
                    sm[p].role = "Leader", sm'[p].role = "Leader",
                    first_index(store[p]) = first_index(store'[p])
             PROVE  /\ Len(store[p].entries) <= Len(store'[p].entries)
                    /\ \A k \in DOMAIN store[p].entries :
                          store'[p].entries[k] = store[p].entries[k]
  BY DEF LeaderLogKept
<1>1. /\ TypeInv /\ store[p] \in Store /\ store[p].entries \in Seq(Entry)
      /\ first_index(store[p]) \in Nat
  BY StoreIndexTypes DEF LeaderInv, TypeInv, TypeOK, Store
<1>2. ASSUME store'[p].entries = store[p].entries
      PROVE  /\ Len(store[p].entries) <= Len(store'[p].entries)
             /\ \A k \in DOMAIN store[p].entries :
                   store'[p].entries[k] = store[p].entries[k]
  BY <1>1, <1>2
<1>3. CASE store' = store
  BY <1>2, <1>3
<1>4. ASSUME NEW n \in Server, NodeStep(n)
      PROVE  /\ Len(store[p].entries) <= Len(store'[p].entries)
             /\ \A k \in DOMAIN store[p].entries :
                   store'[p].entries[k] = store[p].entries[k]
  <2>1. CASE LogSame(p)
    BY <1>2, <2>1 DEF LogSame
  <2>2. CASE p = n /\ Extends(n)
    <3>1. PICK cmd \in Command :
            store'[p].entries = Append(store[p].entries, new_entry(p, cmd))
      BY <2>2 DEF Extends
    <3> QED  BY <1>1, <3>1
  <2>3. CASE p = n /\ \E m \in net.append_req : Overwrites(n, m)
    BY <2>3, ReceiverFollows DEF Overwrites
  <2>4. CASE p = n /\ \E m \in net.snap_req : Installs(n, m)
    BY <2>4, ReceiverFollows DEF Installs
  <2>5. CASE p = n /\ Compacts(n)
    BY <1>1, <2>5 DEF Compacts
  <2> QED  BY <1>4, <2>1, <2>2, <2>3, <2>4, <2>5 DEF NodeStep, LogStep
<1> QED  BY <1>1, <1>3, <1>4, NodeSteps DEF restore, shutdown, start

\* A leader never overwrites or deletes an entry of its own log, in the
\* environment of ElectionsSafe: with compaction, restarts, and any number of
\* lost, duplicated and reordered requests.
THEOREM LeadersAppendOnly ==
    ASSUME ~ServeBeforeRestore, ~LateResponses, ZeroId \notin Server
    PROVE  Spec => LeaderAppendOnly
<1>1. LeaderInv /\ LeaderInv' /\ ElectionInv' /\ [Next]_vars => [LeaderLogKept]_vars
  <2>1. ElectionInv' => ElectionSafety'
    BY OneLeaderPerTerm, PTL
  <2> QED  BY <2>1, LeaderLogStep
<1>2. Spec => [][LeaderLogKept]_vars
  BY <1>1, LeaderInvariant, ElectionInvariant, PTL DEF Spec
<1> QED  BY <1>2 DEF LeaderAppendOnly, LeaderLogKept

-----------------------------------------------------------------------------
(* Logs without compaction.                                                *)

\* A set of numbers that is not empty has a least one.
LEMMA LeastNumber ==
    ASSUME NEW T, T \subseteq Nat, T # {}
    PROVE  \E x \in T : \A y \in T : x <= y
<1> DEFINE R == {ss \in Nat \X Nat : ss[1] < ss[2]}
<1>1. IsWellFoundedOn(R, Nat)
  BY NatLessThanWellFounded DEF OpToRel
<1>2. ASSUME NEW x \in Nat, NEW y \in Nat, x < y PROVE <<x, y>> \in R
  BY <1>2
<1> HIDE DEF R
<1>3. PICK x \in T : \A y \in T : ~(<<y, x>> \in R)
  BY <1>1, WFMin
<1>4. ASSUME NEW y \in T PROVE x <= y
  <2>1. x \in Nat /\ y \in Nat /\ ~(<<y, x>> \in R)
    BY <1>3
  <2>2. ~(y < x)
    BY <1>2, <2>1
  <2> QED  BY <2>1, <2>2
<1> QED  BY <1>3, <1>4

-----------------------------------------------------------------------------
(* Requests and appends of a log that was never compacted.                 *)

\* The log was never compacted, and position and index agree.
Whole(st) == st.snapshot = NoSnapshot /\ Aligned(st)

\* What is known of such a store.
LEMMA WholeStore ==
    ASSUME NEW st \in Store, Whole(st)
    PROVE  /\ st.entries \in Seq(Entry) /\ Len(st.entries) \in Nat
           /\ first_index(st) = 1 /\ last_index(st) = Len(st.entries)
           /\ st.snapshot.last_included_index = 0
           /\ \A k \in 1 .. Len(st.entries) : st.entries[k] \in Entry /\ st.entries[k].index = k
<1>1. st.entries \in Seq(Entry) /\ Len(st.entries) \in Nat
  BY DEF Store
<1>2. st.snapshot.last_included_index = 0 /\ first_index(st) = 1
  BY DEF Whole, NoSnapshot, first_index
<1>3. last_index(st) = Len(st.entries)
  BY <1>1, <1>2, AlignedLast DEF Whole
<1>4. ASSUME NEW k \in 1 .. Len(st.entries)
      PROVE  st.entries[k] \in Entry /\ st.entries[k].index = k
  <2>1. k \in DOMAIN st.entries
    BY <1>1
  <2>2. st.entries[k] \in Entry
    BY <1>1, <2>1
  <2>3. st.entries[k].index = first_index(st) + k - 1
    BY <2>1 DEF Whole, Aligned
  <2> QED  BY <1>2, <2>2, <2>3
<1> QED  BY <1>1, <1>2, <1>3, <1>4

\* term(i).unwrap_or(0): 0 in front of the log and behind it.
LEMMA WholeTerm ==
    ASSUME NEW st \in Store, Whole(st), NEW i \in Nat
    PROVE  term_or_zero(st, i) = IF i = 0 \/ i > Len(st.entries) THEN 0 ELSE st.entries[i].term
<1>1. /\ Len(st.entries) \in Nat /\ first_index(st) = 1
      /\ st.snapshot.last_included_index = 0
  BY WholeStore
<1>2. ~LogCompacted(st, i)
  BY <1>1 DEF LogCompacted
<1>3. LogUnavailable(st, i) <=> i > Len(st.entries)
  BY <1>1 DEF LogUnavailable
<1>4. i # 0 => i - first_index(st) + 1 = i
  BY <1>1
<1> QED  BY <1>1, <1>2, <1>3, <1>4 DEF term_or_zero, term

\* entries(lo, end, max) of such a store is the slice from position lo on.
LEMMA Slice ==
    ASSUME NEW st, first_index(st) = 1, NEW lo \in Nat, NEW max \in Nat, last_index(st) \in Nat,
           NEW to, to = IF last_index(st) - lo + 1 > max THEN lo + max - 1 ELSE last_index(st)
    PROVE  entries(st, lo, last_index(st) + 1, max) = SubSeq(st.entries, lo, to)
<1> DEFINE from == lo - first_index(st) + 1
           upto == last_index(st) + 1 - first_index(st)
           cut == IF upto - from + 1 > max THEN from + max - 1 ELSE upto
<1>1. entries(st, lo, last_index(st) + 1, max) = SubSeq(st.entries, from, cut)
  BY DEF entries
<1>2. from = lo /\ upto = last_index(st)
  OBVIOUS
<1> HIDE DEF from, upto
<1>3. cut = to
  BY <1>2
<1> QED  BY <1>1, <1>2, <1>3

\* The AppendEntries replicate_to reads off a log: a stretch of it and the term
\* in front, or nothing and no term when next_index is past the end.
Stretch(m, es) ==
    \/ m.entries = <<>> /\ m.prev_log_term = 0
    \/ /\ m.prev_log_index + Len(m.entries) <= Len(es)
       /\ m.prev_log_term = IF m.prev_log_index = 0 THEN 0 ELSE es[m.prev_log_index].term
       /\ \A k \in 1 .. Len(m.entries) : m.entries[k] = es[m.prev_log_index + k]

LEMMA RequestOfLog ==
    ASSUME NEW n \in Server, NEW p \in Peers(n), NEW s \in StateMachine,
           NEW st \in Store, Whole(st), s.role = "Leader", LeaderProgress(n, s)
    PROVE  /\ ~NeedsSnapshot(s, st, p)
           /\ Stretch(append_request(n, s, st, p), st.entries)
<1> DEFINE next == s.progress[p].next_index
           r == append_request(n, s, st, p)
           to == IF last_index(st) - next + 1 > MaxBatch THEN next + MaxBatch - 1
                 ELSE last_index(st)
<1>1. next \in Nat /\ next >= 1 /\ next - 1 \in Nat
  <2>1. s.progress[p] \in Progress /\ p \in Server \ {n}
    BY DEF StateMachine, Peers
  <2> QED  BY <2>1 DEF Progress, LeaderProgress
<1>2. /\ st.entries \in Seq(Entry) /\ Len(st.entries) \in Nat
      /\ first_index(st) = 1 /\ last_index(st) = Len(st.entries)
  BY WholeStore
<1>3. ~NeedsSnapshot(s, st, p)
  BY <1>1, <1>2 DEF NeedsSnapshot, EntriesCompacted
<1>4. /\ r.prev_log_index = next - 1
      /\ r.prev_log_term = term_or_zero(st, next - 1)
      /\ r.entries = IF last_index(st) >= next
                     THEN entries(st, next, last_index(st) + 1, MaxBatch) ELSE <<>>
  BY DEF append_request
<1>5. term_or_zero(st, next - 1) =
        IF next - 1 = 0 \/ next - 1 > Len(st.entries) THEN 0 ELSE st.entries[next - 1].term
  BY <1>1, WholeTerm
<1>6. entries(st, next, last_index(st) + 1, MaxBatch) = SubSeq(st.entries, next, to)
  <2>1. MaxBatch \in Nat
    BY ConstantsAssumption
  <2>2. next \in Nat /\ first_index(st) = 1 /\ last_index(st) \in Nat
    BY <1>1, <1>2
  <2> HIDE DEF next
  <2> QED  BY <2>1, <2>2, Slice
<1> HIDE DEF next, r
<1>7. CASE last_index(st) >= next
  <2>1. MaxBatch \in Nat /\ MaxBatch > 0
    BY ConstantsAssumption
  <2>2. to \in Nat /\ to <= Len(st.entries) /\ next <= to
    BY <1>1, <1>2, <1>7, <2>1
  <2> HIDE DEF to
  <2>3. \A i \in next .. to : st.entries[i] \in Entry
    BY <1>1, <1>2, <2>2
  <2>4. /\ Len(SubSeq(st.entries, next, to)) = to - next + 1
        /\ \A i \in 1 .. to - next + 1 : SubSeq(st.entries, next, to)[i] = st.entries[next + i - 1]
    <3>1. next \in Int /\ to \in Int
      BY <1>1, <2>2
    <3> QED  BY <2>2, <2>3, <3>1, SubSeqProperties
  <2>5. r.entries = SubSeq(st.entries, next, to)
    BY <1>4, <1>6, <1>7
  <2>6. /\ Len(r.entries) = to - next + 1
        /\ \A i \in 1 .. to - next + 1 : r.entries[i] = st.entries[(next - 1) + i]
    <3>1. \A i \in 1 .. to - next + 1 : next + i - 1 = (next - 1) + i
      BY <1>1, <2>2
    <3> QED  BY <2>4, <2>5, <3>1
  <2>7. r.prev_log_term = IF next - 1 = 0 THEN 0 ELSE st.entries[next - 1].term
    BY <1>1, <1>2, <1>4, <1>5, <1>7
  <2>8. (next - 1) + Len(r.entries) <= Len(st.entries)
    <3>1. /\ next \in Nat /\ to \in Nat /\ Len(st.entries) \in Nat
          /\ to <= Len(st.entries) /\ Len(r.entries) = to - next + 1
      BY <1>1, <1>2, <2>2, <2>6
    <3> QED  BY <3>1
  <2> QED  BY <1>3, <1>4, <2>6, <2>7, <2>8 DEF Stretch, r
<1>8. CASE ~(last_index(st) >= next)
  <2>1. r.entries = <<>> /\ Len(r.entries) = 0
    BY <1>4, <1>8
  <2>2. CASE next - 1 > Len(st.entries)
    BY <1>3, <1>4, <1>5, <2>1, <2>2 DEF Stretch, r
  <2>3. CASE ~(next - 1 > Len(st.entries))
    <3>1. r.prev_log_term = IF next - 1 = 0 THEN 0 ELSE st.entries[next - 1].term
      BY <1>4, <1>5, <2>3
    <3>2. (next - 1) + Len(r.entries) <= Len(st.entries)
      BY <1>1, <1>2, <2>1, <2>3
    <3> QED  BY <1>3, <1>4, <2>1, <3>1, <3>2 DEF Stretch, r
  <2> QED  BY <2>2, <2>3
<1> QED  BY <1>7, <1>8

\* Two logs put one after the other.
LEMMA ConcatSplit ==
    ASSUME NEW a \in Seq(Entry), NEW b \in Seq(Entry)
    PROVE  /\ a \o b \in Seq(Entry) /\ Len(a \o b) = Len(a) + Len(b)
           /\ \A k \in 1 .. Len(a) : (a \o b)[k] = a[k]
           /\ \A k \in 1 .. Len(b) : (a \o b)[Len(a) + k] = b[k]
<1>1. a \o b \in Seq(Entry) /\ Len(a \o b) = Len(a) + Len(b)
  OBVIOUS
<1>2. ASSUME NEW k \in 1 .. Len(a) PROVE (a \o b)[k] = a[k]
  OBVIOUS
<1>3. ASSUME NEW k \in 1 .. Len(b) PROVE (a \o b)[Len(a) + k] = b[k]
  OBVIOUS
<1> QED  BY <1>1, <1>2, <1>3

\* append_entries of a batch whose predecessor was found: the log up to the
\* predecessor, then the batch.
Spliced(es, m, r) ==
    /\ m.prev_log_index <= Len(es)
    /\ m.prev_log_index = 0 \/ es[m.prev_log_index].term = m.prev_log_term
    /\ r \in Seq(Entry) /\ Len(r) = m.prev_log_index + Len(m.entries)
    /\ \A k \in 1 .. m.prev_log_index : r[k] = es[k]
    /\ \A k \in 1 .. Len(m.entries) : r[m.prev_log_index + k] = m.entries[k]

LEMMA AppendSplices ==
    ASSUME NEW st \in Store, Whole(st), NEW m, m.prev_log_index \in Nat,
           m.entries \in Seq(Entry), m.entries # <<>>,
           m.entries[1].index = m.prev_log_index + 1, Consistent(st, m)
    PROVE  Spliced(st.entries, m, append_entries(st, m.entries).entries)
<1> DEFINE prev == m.prev_log_index
           kept == IF prev < Len(st.entries) THEN SubSeq(st.entries, 1, prev) ELSE st.entries
<1>1. /\ st.entries \in Seq(Entry) /\ Len(st.entries) \in Nat
      /\ first_index(st) = 1 /\ last_index(st) = Len(st.entries)
      /\ st.snapshot.last_included_index = 0
  BY WholeStore
<1>2. prev = 0 \/ (prev <= Len(st.entries) /\ st.entries[prev].term = m.prev_log_term)
  <2>1. ~LogCompacted(st, prev)
    BY <1>1 DEF LogCompacted
  <2>2. CASE prev # 0
    <3>1. ~LogUnavailable(st, prev) /\ term(st, prev) = m.prev_log_term
      BY <2>1, <2>2 DEF Consistent
    <3>2. prev <= Len(st.entries)
      BY <1>1, <3>1 DEF LogUnavailable
    <3>3. prev - first_index(st) + 1 = prev
      BY <1>1
    <3>4. term(st, prev) = st.entries[prev].term
      BY <1>1, <2>2, <3>3 DEF term
    <3> QED  BY <3>1, <3>2, <3>4
  <2> QED  BY <2>2
<1>3. prev <= Len(st.entries)
  BY <1>1, <1>2
<1>4. kept \in Seq(Entry) /\ Len(kept) = prev /\ \A k \in 1 .. prev : kept[k] = st.entries[k]
  <2>1. CASE prev < Len(st.entries)
    <3>1. \A i \in 1 .. prev : st.entries[i] \in Entry
      BY <1>1, <2>1
    <3>2. prev \in Int /\ 1 \in Int /\ prev - 1 + 1 = prev
      OBVIOUS
    <3>3. /\ SubSeq(st.entries, 1, prev) \in Seq(Entry)
          /\ Len(SubSeq(st.entries, 1, prev)) = IF 1 <= prev THEN prev - 1 + 1 ELSE 0
          /\ \A i \in 1 .. prev - 1 + 1 : SubSeq(st.entries, 1, prev)[i] = st.entries[1 + i - 1]
      BY <3>1, <3>2, SubSeqProperties
    <3> QED  BY <2>1, <3>2, <3>3
  <2>2. CASE ~(prev < Len(st.entries))
    BY <1>1, <1>3, <2>2
  <2> QED  BY <2>1, <2>2
<1>5. append_entries(st, m.entries) = [st EXCEPT !.entries = kept \o m.entries]
  <2>1. m.entries[1].index - first_index(st) = prev
    BY <1>1
  <2>2. (m.entries[1].index <= last_index(st) /\ prev \in 0 .. Len(st.entries) - 1)
          <=> prev < Len(st.entries)
    BY <1>1
  <2> QED  BY <2>1, <2>2 DEF append_entries
<1> HIDE DEF kept
<1>6. append_entries(st, m.entries).entries = kept \o m.entries
  BY <1>5 DEF Store
<1>7. /\ kept \o m.entries \in Seq(Entry)
      /\ Len(kept \o m.entries) = prev + Len(m.entries)
      /\ \A k \in 1 .. prev : (kept \o m.entries)[k] = kept[k]
      /\ \A k \in 1 .. Len(m.entries) : (kept \o m.entries)[prev + k] = m.entries[k]
  <2> DEFINE es == m.entries
  <2>1. es \in Seq(Entry)
    OBVIOUS
  <2> HIDE DEF es
  <2>2. /\ kept \o es \in Seq(Entry)
        /\ Len(kept \o es) = prev + Len(es)
        /\ \A k \in 1 .. prev : (kept \o es)[k] = kept[k]
        /\ \A k \in 1 .. Len(es) : (kept \o es)[prev + k] = es[k]
    <3>1. /\ kept \o es \in Seq(Entry)
          /\ Len(kept \o es) = Len(kept) + Len(es)
          /\ \A k \in 1 .. Len(kept) : (kept \o es)[k] = kept[k]
          /\ \A k \in 1 .. Len(es) : (kept \o es)[Len(kept) + k] = es[k]
      BY <1>4, <2>1, ConcatSplit
    <3>2. Len(kept) = prev
      BY <1>4
    <3> QED  BY Zenon, <3>1, <3>2
  <2> QED  BY <2>2 DEF es
<1> QED  BY <1>2, <1>3, <1>4, <1>6, <1>7 DEF Spliced

-----------------------------------------------------------------------------
(* Position and index agree.                                               *)

\* A request's entries follow prev_log_index one by one.
Numbered(m) == \A k \in 1 .. Len(m.entries) : m.entries[k].index = m.prev_log_index + k

AlignInv ==
    /\ TypeInv
    /\ \A n \in Server : Whole(store[n])
    /\ net.snap_req = {}
    /\ \A m \in net.append_req : Numbered(m)

\* The types of a request in flight.
LEMMA RequestFields ==
    ASSUME TypeInv, NEW m \in net.append_req
    PROVE  /\ m.to \in Server /\ m.leader_id \in Sender /\ m.term \in Nat
           /\ m.prev_log_index \in Nat /\ m.prev_log_term \in Nat
           /\ m.entries \in Seq(Entry) /\ Len(m.entries) \in Nat
           /\ m.entries # <<>> => Len(m.entries) > 0
<1>1. m \in AppendReq
  BY DEF TypeInv, TypeOK, Net
<1>2. m.entries \in Seq(Entry)
  BY <1>1 DEF AppendReq
<1>3. Len(m.entries) \in Nat /\ (m.entries # <<>> => Len(m.entries) > 0)
  BY <1>2
<1> QED  BY <1>1, <1>2, <1>3 DEF AppendReq

\* Without compaction a handler keeps logs, appends a proposal at the end of the
\* leader's or splices a request's entries into a follower's.
LogGrows(n) ==
    \/ LogSame(n)
    \/ /\ Extends(n) /\ \E cmd \in Command :
          /\ new_entry(n, cmd) \in Entry
          /\ new_entry(n, cmd).index = Len(store[n].entries) + 1
          /\ store'[n].entries = Append(store[n].entries, new_entry(n, cmd))
    \/ \E m \in net.append_req :
          Overwrites(n, m) /\ Spliced(store[n].entries, m, store'[n].entries)

LEMMA WholeLogStep ==
    ASSUME AlignInv, ~AppSnapshots, NEW n \in Server, NodeStep(n)
    PROVE  LogGrows(n)
<1>1. store[n] \in Store /\ Whole(store[n]) /\ TypeInv /\ sm[n] \in StateMachine
  BY DEF AlignInv, TypeInv, TypeOK
<1>2. ~(\E m \in net.snap_req : Installs(n, m)) /\ ~Compacts(n)
  BY DEF AlignInv, Compacts
<1>3. ASSUME Extends(n)
      PROVE  \E cmd \in Command :
               /\ new_entry(n, cmd) \in Entry
               /\ new_entry(n, cmd).index = Len(store[n].entries) + 1
               /\ store'[n].entries = Append(store[n].entries, new_entry(n, cmd))
  <2>1. PICK cmd \in Command :
          store'[n].entries = Append(store[n].entries, new_entry(n, cmd))
    BY <1>3 DEF Extends
  <2>2. last_index(store[n]) = Len(store[n].entries) /\ Len(store[n].entries) \in Nat
    BY <1>1, WholeStore
  <2>3. sm[n].current_term \in Nat
    BY <1>1 DEF StateMachine
  <2>4. /\ new_entry(n, cmd) \in Entry
        /\ new_entry(n, cmd).index = Len(store[n].entries) + 1
    BY <2>2, <2>3 DEF new_entry, Entry
  <2> QED  BY <2>1, <2>4
<1>4. ASSUME NEW m \in net.append_req, Overwrites(n, m)
      PROVE  Spliced(store[n].entries, m, store'[n].entries)
  <2>1. /\ m.prev_log_index \in Nat /\ m.entries \in Seq(Entry) /\ Len(m.entries) \in Nat
        /\ m.entries # <<>> => Len(m.entries) > 0
    BY <1>1, RequestFields
  <2>2. /\ m.entries # <<>> /\ Consistent(store[n], m)
        /\ store'[n].entries = append_entries(store[n], m.entries).entries
    BY <1>4 DEF Overwrites
  <2>3. 1 \in 1 .. Len(m.entries)
    BY <2>1, <2>2
  <2>4. m.entries[1].index = m.prev_log_index + 1
    BY <2>3 DEF AlignInv, Numbered
  <2> QED  BY <1>1, <2>1, <2>2, <2>4, AppendSplices
<1> QED  BY <1>2, <1>3, <1>4 DEF NodeStep, LogStep, LogGrows

\* The new requests of a step are stretches of the sender's log.
LEMMA NewRequests ==
    ASSUME TypeInv', \A p \in Server : Whole(store'[p]), NEW n \in Server, NodeStep(n)
    PROVE  /\ net'.snap_req \subseteq net.snap_req
           /\ \A m \in net'.append_req :
                 m \in net.append_req \/ Stretch(m, store'[n].entries)
<1>1. CASE SendsNothing
  BY <1>1 DEF SendsNothing
<1>2. CASE Sends(n)
  <2>1. PICK s \in StateMachine, st \in Store :
          /\ s.role = "Leader" /\ LeaderProgress(n, s)
          /\ Aligned(st)
          /\ st.entries = store'[n].entries /\ st.snapshot = store'[n].snapshot
          /\ \A m \in net'.append_req :
                \/ m \in net.append_req /\ (RedundantRpcs \/ m.leader_id # n)
                \/ \E p \in Peers(n) :
                      ~NeedsSnapshot(s, st, p) /\ m = append_request(n, s, st, p)
          /\ \A m \in net'.snap_req :
                \/ m \in net.snap_req /\ (RedundantRpcs \/ m.leader_id # n)
                \/ \E p \in Peers(n) :
                      NeedsSnapshot(s, st, p) /\ m = snapshot_request(n, s, st, p)
    BY <1>2 DEF Sends
  <2>2. Whole(st)
    BY <2>1 DEF Whole
  <2>3. \A p \in Peers(n) :
          ~NeedsSnapshot(s, st, p) /\ Stretch(append_request(n, s, st, p), st.entries)
    BY <2>1, <2>2, RequestOfLog
  <2> QED  BY <2>1, <2>3
<1> QED  BY <1>1, <1>2 DEF NodeStep

LEMMA StoresStep ==
    ASSUME AlignInv, ~AppSnapshots, TypeInv', [Next]_vars, NEW p \in Server
    PROVE  Whole(store'[p])
<1>0. /\ TypeInv /\ Whole(store[p]) /\ store[p] \in Store /\ store'[p] \in Store
  BY DEF AlignInv, TypeInv, TypeOK
<1>1. ASSUME LogSame(p) PROVE Whole(store'[p])
  <2>1. /\ store'[p].entries = store[p].entries
        /\ store'[p].snapshot = store[p].snapshot
    BY <1>1 DEF LogSame
  <2> QED  BY <1>0, <2>1 DEF Whole, Aligned, first_index
<1>2. CASE store' = store
  BY <1>1, <1>2 DEF LogSame
<1>3. ASSUME NEW n \in Server, NodeStep(n) PROVE Whole(store'[p])
  <2>1. CASE p # n
    BY <1>1, <1>3, <2>1 DEF NodeStep, LogStep
  <2> SUFFICES ASSUME p = n, ~LogSame(p) PROVE Whole(store'[p])
    BY <1>1, <2>1
  <2>2. store'[p].snapshot = NoSnapshot
    BY <1>0, <1>3, WholeLogStep DEF LogGrows, Extends, Overwrites, Whole
  <2>3. /\ store[p].entries \in Seq(Entry) /\ Len(store[p].entries) \in Nat
        /\ \A k \in 1 .. Len(store[p].entries) : store[p].entries[k].index = k
    BY <1>0, WholeStore
  <2>4. store'[p].entries \in Seq(Entry) /\ Len(store'[p].entries) \in Nat
    BY <1>0 DEF Store
  <2>5. ASSUME NEW k \in 1 .. Len(store'[p].entries)
        PROVE  store'[p].entries[k].index = k
    <3>1. ASSUME NEW cmd \in Command, new_entry(p, cmd) \in Entry,
                 new_entry(p, cmd).index = Len(store[p].entries) + 1,
                 store'[p].entries = Append(store[p].entries, new_entry(p, cmd))
          PROVE  store'[p].entries[k].index = k
      BY <2>3, <3>1
    <3>2. ASSUME NEW m \in net.append_req, Spliced(store[p].entries, m, store'[p].entries)
          PROVE  store'[p].entries[k].index = k
      <4>1. m.prev_log_index \in Nat /\ Len(m.entries) \in Nat
        BY <1>0, RequestFields
      <4>2. CASE k <= m.prev_log_index
        <5>1. k \in 1 .. m.prev_log_index /\ m.prev_log_index <= Len(store[p].entries)
          BY <2>4, <3>2, <4>1, <4>2 DEF Spliced
        <5>2. store'[p].entries[k] = store[p].entries[k] /\ k \in 1 .. Len(store[p].entries)
          BY <2>3, <3>2, <4>1, <5>1 DEF Spliced
        <5> QED  BY <2>3, <5>2
      <4>3. CASE k > m.prev_log_index
        <5> DEFINE j == k - m.prev_log_index
        <5>1. j \in 1 .. Len(m.entries) /\ m.prev_log_index + j = k
          BY <3>2, <4>1, <4>3 DEF Spliced
        <5> HIDE DEF j
        <5>2. store'[p].entries[m.prev_log_index + j] = m.entries[j]
          BY <3>2, <5>1 DEF Spliced
        <5>3. m.entries[j].index = m.prev_log_index + j
          BY <5>1 DEF AlignInv, Numbered
        <5> QED  BY <5>1, <5>2, <5>3
      <4> QED  BY <4>1, <4>2, <4>3
    <3> QED  BY <1>3, <3>1, <3>2, WholeLogStep DEF LogGrows
  <2>6. first_index(store'[p]) = 1
    BY <2>2 DEF first_index, NoSnapshot
  <2>7. Aligned(store'[p])
    BY <2>4, <2>5, <2>6 DEF Aligned
  <2> QED  BY <2>2, <2>7 DEF Whole
<1> QED  BY <1>0, <1>2, <1>3, NodeSteps DEF restore, shutdown, start

\* A stretch of a log that was never compacted is numbered.
LEMMA StretchNumbered ==
    ASSUME NEW st \in Store, Whole(st), NEW m, m.prev_log_index \in Nat,
           m.entries \in Seq(Entry), Stretch(m, st.entries)
    PROVE  Numbered(m)
<1> SUFFICES ASSUME NEW k \in 1 .. Len(m.entries)
             PROVE  m.entries[k].index = m.prev_log_index + k
  BY DEF Numbered
<1>1. Len(m.entries) \in Nat /\ m.entries # <<>>
  OBVIOUS
<1>2. /\ m.prev_log_index + Len(m.entries) <= Len(st.entries)
      /\ m.entries[k] = st.entries[m.prev_log_index + k]
  BY <1>1 DEF Stretch
<1>3. Len(st.entries) \in Nat /\ \A j \in 1 .. Len(st.entries) : st.entries[j].index = j
  BY WholeStore
<1> DEFINE at == m.prev_log_index + k
<1>4. at \in 1 .. Len(st.entries)
  <2>1. /\ m.prev_log_index + Len(m.entries) <= Len(st.entries)
        /\ Len(m.entries) \in Nat /\ Len(st.entries) \in Nat
    BY <1>1, <1>2, <1>3
  <2> QED  BY <2>1
<1>5. m.entries[k] = st.entries[at]
  BY <1>2
<1> HIDE DEF at
<1>6. m.entries[k].index = at
  BY <1>3, <1>4, <1>5
<1> QED  BY <1>6 DEF at

LEMMA AlignInvariant ==
    ASSUME ~AppSnapshots
    PROVE  Spec => []AlignInv
<1>1. AlignInv /\ [Next]_vars => AlignInv'
  <2> SUFFICES ASSUME AlignInv, [Next]_vars PROVE AlignInv'
    OBVIOUS
  <2>1. TypeInv /\ TypeInv'
    BY NextType DEF AlignInv
  <2>2. \A p \in Server : Whole(store'[p])
    BY <2>1, StoresStep
  <2>3. net'.snap_req = {} /\ \A m \in net'.append_req : Numbered(m)
    <3>1. CASE net' = net
      BY <3>1 DEF AlignInv
    <3>2. ASSUME NEW n \in Server, NodeStep(n)
          PROVE  net'.snap_req = {} /\ \A m \in net'.append_req : Numbered(m)
      <4>1. /\ net'.snap_req \subseteq net.snap_req
            /\ \A m \in net'.append_req :
                  m \in net.append_req \/ Stretch(m, store'[n].entries)
        BY <2>1, <2>2, <3>2, NewRequests
      <4>2. store'[n] \in Store
        BY <2>1 DEF TypeInv, TypeOK
      <4>3. \A m \in net'.append_req : m.prev_log_index \in Nat /\ m.entries \in Seq(Entry)
        <5>1. \A m \in net'.append_req : m \in AppendReq
          BY <2>1 DEF TypeInv, TypeOK, Net
        <5> QED  BY <5>1 DEF AppendReq
      <4> QED  BY <2>2, <4>1, <4>2, <4>3, StretchNumbered DEF AlignInv
    <3> QED  BY <2>1, <3>1, <3>2, NodeSteps DEF restore, shutdown, start
  <2> QED  BY <2>1, <2>2, <2>3 DEF AlignInv, Numbered
<1>2. Init => AlignInv
  <2> SUFFICES ASSUME Init PROVE AlignInv
    OBVIOUS
  <2>1. \A n \in Server : store[n] = EmptyStore
    BY DEF Init
  <2>2. Whole(EmptyStore)
    BY DEF EmptyStore, Whole, Aligned
  <2>3. net.snap_req = {} /\ net.append_req = {}
    BY DEF Init, NoRpcs
  <2> QED  BY <2>1, <2>2, <2>3, InitType DEF AlignInv
<1> QED  BY <1>1, <1>2, PTL DEF Spec

\* "entries[0].index equals the first available index" and every later entry
\* follows by one, in every store, as long as the application does not compact:
\* whatever is lost, duplicated, late or served before the restore, no splice of
\* append_entries leaves a gap or an overlap.
THEOREM StoresStayAligned ==
    ASSUME ~AppSnapshots
    PROVE  Spec => []StoresAligned
<1>1. AlignInv => StoresAligned
  BY DEF AlignInv, StoresAligned, Whole
<1> QED  BY <1>1, AlignInvariant, PTL

-----------------------------------------------------------------------------
(* Segments of logs.                                                       *)
(*                                                                         *)
(* A log and a request in flight are both a stretch of entries behind a    *)
(* known term, so both are segments; LogMatching alone is not inductive,   *)
(* it has to be claimed of the requests as well.                           *)

Segment == [base : Nat, term : Nat, entries : Seq(Entry)]

LogSeg(es) == [base |-> 0, term |-> 0, entries |-> es]
ReqSeg(m) == [base |-> m.prev_log_index, term |-> m.prev_log_term, entries |-> m.entries]

\* The segment tells the term of index i, and beyond its base the entry.
Covers(a, i) == a.base <= i /\ i <= a.base + Len(a.entries)
EntryAt(a, i) == a.entries[i - a.base]
TermAt(a, i) == IF i = a.base THEN a.term ELSE EntryAt(a, i).term

Agree(a, b, j) ==
    /\ TermAt(a, j) = TermAt(b, j)
    /\ j > a.base /\ j > b.base => EntryAt(a, j) = EntryAt(b, j)

\* Segments that agree on the term of an index agree on everything before it.
Matching(a, b) ==
    \A i \in Nat : Covers(a, i) /\ Covers(b, i) /\ TermAt(a, i) = TermAt(b, i) =>
        \A j \in Nat : j <= i /\ Covers(a, j) /\ Covers(b, j) => Agree(a, b, j)

\* a shows nothing at i that x does not show.
Same(a, x, i) ==
    /\ Covers(x, i) /\ TermAt(a, i) = TermAt(x, i)
    /\ i > a.base => i > x.base /\ EntryAt(a, i) = EntryAt(x, i)

\* a is part of x.
Part(a, x) == \A i \in Nat : Covers(a, i) => Same(a, x, i)

\* a is a request for a next_index past the log's end.
Blank(a) == a.term = 0 /\ \A i \in Nat : Covers(a, i) => i = a.base

LEMMA MatchingSymmetric ==
    ASSUME NEW a, NEW b, Matching(a, b) PROVE Matching(b, a)
BY DEF Matching, Agree

LEMMA MatchingSelf == ASSUME NEW a PROVE Matching(a, a)
BY DEF Matching, Agree

LEMMA PartSelf == ASSUME NEW a \in Segment PROVE Part(a, a)
BY DEF Part, Same

LEMMA BlankMatching ==
    ASSUME NEW a \in Segment, NEW b, Blank(a) PROVE Matching(a, b)
<1> SUFFICES ASSUME NEW i \in Nat, Covers(a, i), Covers(b, i), TermAt(a, i) = TermAt(b, i),
                    NEW j \in Nat, j <= i, Covers(a, j), Covers(b, j)
             PROVE  Agree(a, b, j)
  BY DEF Matching
<1>1. i = a.base /\ j = a.base /\ a.base \in Nat
  BY DEF Blank, Segment
<1> QED  BY <1>1 DEF Agree

LEMMA PartMatching ==
    ASSUME NEW a, NEW x, NEW b, Part(a, x), Matching(x, b) PROVE Matching(a, b)
<1> SUFFICES ASSUME NEW i \in Nat, Covers(a, i), Covers(b, i), TermAt(a, i) = TermAt(b, i),
                    NEW j \in Nat, j <= i, Covers(a, j), Covers(b, j)
             PROVE  Agree(a, b, j)
  BY DEF Matching
<1>1. Same(a, x, i) /\ Same(a, x, j)
  BY DEF Part
<1>2. Agree(x, b, j)
  BY <1>1 DEF Same, Matching
<1> QED  BY <1>1, <1>2 DEF Same, Agree

\* a is x with one more entry, of term t.
Longer(a, x, t) ==
    /\ a.base = x.base
    /\ \A i \in Nat : Covers(a, i) => Same(a, x, i) \/ (~Covers(x, i) /\ TermAt(a, i) = t)

LEMMA LongerMatching ==
    ASSUME NEW a \in Segment, NEW x \in Segment, NEW t, NEW b,
           Longer(a, x, t), Matching(x, b),
           \A i \in Nat : Covers(b, i) /\ TermAt(b, i) = t => Covers(x, i)
    PROVE  Matching(a, b)
<1> SUFFICES ASSUME NEW i \in Nat, Covers(a, i), Covers(b, i), TermAt(a, i) = TermAt(b, i),
                    NEW j \in Nat, j <= i, Covers(a, j), Covers(b, j)
             PROVE  Agree(a, b, j)
  BY DEF Matching
<1>1. Same(a, x, i)
  BY DEF Longer
<1>2. Same(a, x, j)
  <2>1. Covers(x, i) /\ a.base = x.base
    BY <1>1 DEF Same, Longer
  <2>2. Covers(x, j)
    BY <2>1 DEF Covers, Segment
  <2> QED  BY <2>2 DEF Longer
<1>3. Agree(x, b, j)
  BY <1>1, <1>2 DEF Same, Matching
<1> QED  BY <1>2, <1>3 DEF Same, Agree

\* a is x up to m's base, where x has m's term, and m behind it.
Joined(a, x, m) ==
    /\ Covers(a, m.base) /\ TermAt(a, m.base) = TermAt(m, m.base)
    /\ \A i \in Nat : Covers(a, i) => IF i <= m.base THEN Same(a, x, i) ELSE Same(a, m, i)

LEMMA JoinedMatching ==
    ASSUME NEW a, NEW x, NEW m \in Segment, NEW b \in Segment,
           Joined(a, x, m), Matching(x, b), Matching(m, b)
    PROVE  Matching(a, b)
<1> SUFFICES ASSUME NEW i \in Nat, Covers(a, i), Covers(b, i), TermAt(a, i) = TermAt(b, i),
                    NEW j \in Nat, j <= i, Covers(a, j), Covers(b, j)
             PROVE  Agree(a, b, j)
  BY DEF Matching
<1>0. m.base \in Nat /\ Covers(m, m.base)
  BY DEF Segment, Covers
<1>1. CASE i <= m.base
  <2>1. Same(a, x, i) /\ Same(a, x, j)
    BY <1>0, <1>1 DEF Joined
  <2>2. Agree(x, b, j)
    BY <2>1 DEF Same, Matching
  <2> QED  BY <2>1, <2>2 DEF Same, Agree
<1>2. CASE i > m.base
  <2>1. Same(a, m, i)
    BY <1>0, <1>2 DEF Joined
  <2>2. CASE j > m.base
    <3>1. Same(a, m, j)
      BY <1>0, <2>2 DEF Joined
    <3>2. Agree(m, b, j)
      BY <2>1, <3>1 DEF Same, Matching
    <3> QED  BY <3>1, <3>2 DEF Same, Agree
  <2>3. CASE j <= m.base
    <3>1. Covers(b, m.base)
      BY <1>0, <1>2, <2>3 DEF Covers, Segment
    <3>2. m.base <= i
      BY <1>0, <1>2
    <3>3. Agree(m, b, m.base)
      BY <1>0, <2>1, <3>1, <3>2 DEF Same, Matching
    <3>4. m.base <= m.base
      BY <1>0
    <3>5. Same(a, x, m.base) /\ Same(a, x, j)
      BY <1>0, <2>3, <3>4 DEF Joined
    <3>6. TermAt(x, m.base) = TermAt(b, m.base)
      BY <3>3, <3>5 DEF Same, Agree, Joined
    <3>7. Agree(x, b, j)
      BY <1>0, <2>3, <3>1, <3>5, <3>6 DEF Same, Matching
    <3> QED  BY <3>5, <3>7 DEF Same, Agree
  <2> QED  BY <1>0, <2>2, <2>3
<1> QED  BY <1>0, <1>1, <1>2

\* Logs and requests as segments.
LEMMA LogSegment ==
    ASSUME NEW es \in Seq(Entry)
    PROVE  /\ LogSeg(es) \in Segment /\ Len(es) \in Nat
           /\ \A i \in Nat : Covers(LogSeg(es), i) <=> i <= Len(es)
           /\ TermAt(LogSeg(es), 0) = 0
           /\ \A i \in Nat \ {0} : TermAt(LogSeg(es), i) = es[i].term /\ EntryAt(LogSeg(es), i) = es[i]
<1>1. LogSeg(es) \in Segment /\ Len(es) \in Nat
  BY DEF LogSeg, Segment
<1>2. \A i \in Nat : i - 0 = i
  OBVIOUS
<1> QED  BY <1>1, <1>2 DEF LogSeg, Covers, TermAt, EntryAt

LEMMA ReqSegment ==
    ASSUME NEW m, m.prev_log_index \in Nat, m.prev_log_term \in Nat, m.entries \in Seq(Entry)
    PROVE  /\ ReqSeg(m) \in Segment /\ Len(m.entries) \in Nat
           /\ ReqSeg(m).base = m.prev_log_index /\ ReqSeg(m).term = m.prev_log_term
           /\ \A i \in Nat : Covers(ReqSeg(m), i) <=>
                 m.prev_log_index <= i /\ i <= m.prev_log_index + Len(m.entries)
           /\ TermAt(ReqSeg(m), m.prev_log_index) = m.prev_log_term
           /\ \A i \in Nat : i > m.prev_log_index =>
                 /\ TermAt(ReqSeg(m), i) = m.entries[i - m.prev_log_index].term
                 /\ EntryAt(ReqSeg(m), i) = m.entries[i - m.prev_log_index]
<1>1. ReqSeg(m) \in Segment /\ Len(m.entries) \in Nat
  BY DEF ReqSeg, Segment
<1> QED  BY <1>1 DEF ReqSeg, Covers, TermAt, EntryAt

\* A request's entries, counted from its base.
LEMMA ReqOffset ==
    ASSUME NEW prev \in Nat, NEW len \in Nat, NEW i \in Nat, i > prev, i <= prev + len
    PROVE  i - prev \in 1 .. len /\ prev + (i - prev) = i /\ i # 0
OBVIOUS

\* What replicate_to sends is part of the log it was read from.
LEMMA StretchPart ==
    ASSUME NEW es \in Seq(Entry), NEW m, m.prev_log_index \in Nat, m.prev_log_term \in Nat,
           m.entries \in Seq(Entry), Stretch(m, es)
    PROVE  Blank(ReqSeg(m)) \/ Part(ReqSeg(m), LogSeg(es))
<1>1. CASE m.entries = <<>> /\ m.prev_log_term = 0
  <2>1. Len(m.entries) = 0
    BY <1>1
  <2>2. ReqSeg(m).term = 0 /\ ReqSeg(m).base = m.prev_log_index
    BY <1>1 DEF ReqSeg
  <2>3. ASSUME NEW i \in Nat, Covers(ReqSeg(m), i) PROVE i = m.prev_log_index
    <3>1. m.prev_log_index <= i /\ i <= m.prev_log_index + Len(m.entries)
      BY <2>3, ReqSegment
    <3> QED  BY <2>1, <3>1
  <2> QED  BY <2>2, <2>3 DEF Blank
<1>2. CASE /\ m.prev_log_index + Len(m.entries) <= Len(es)
           /\ m.prev_log_term = IF m.prev_log_index = 0 THEN 0 ELSE es[m.prev_log_index].term
           /\ \A k \in 1 .. Len(m.entries) : m.entries[k] = es[m.prev_log_index + k]
  <2> SUFFICES ASSUME NEW i \in Nat, Covers(ReqSeg(m), i)
               PROVE  Same(ReqSeg(m), LogSeg(es), i)
    BY DEF Part
  <2>1. /\ Len(m.entries) \in Nat /\ Len(es) \in Nat
        /\ m.prev_log_index <= i /\ i <= m.prev_log_index + Len(m.entries)
    BY ReqSegment
  <2>2. Covers(LogSeg(es), i)
    BY <1>2, <2>1, LogSegment
  <2>3. CASE i = m.prev_log_index
    <3>1. TermAt(ReqSeg(m), i) = TermAt(LogSeg(es), i)
      BY <1>2, <2>3, LogSegment, ReqSegment
    <3>2. ~(i > ReqSeg(m).base)
      BY <2>3, ReqSegment
    <3> QED  BY <2>2, <3>1, <3>2 DEF Same
  <2>4. CASE i > m.prev_log_index
    <3> DEFINE k == i - m.prev_log_index
    <3>1. k \in 1 .. Len(m.entries) /\ m.prev_log_index + k = i /\ i # 0
      BY <2>1, <2>4, ReqOffset
    <3>2. TermAt(ReqSeg(m), i) = m.entries[k].term /\ EntryAt(ReqSeg(m), i) = m.entries[k]
      BY <2>4, ReqSegment
    <3> HIDE DEF k
    <3>3. m.entries[k] = es[i]
      BY <1>2, <3>1
    <3>4. TermAt(LogSeg(es), i) = es[i].term /\ EntryAt(LogSeg(es), i) = es[i]
      BY <3>1, LogSegment
    <3>5. i > LogSeg(es).base
      BY <3>1 DEF LogSeg
    <3> QED  BY <2>2, <3>2, <3>3, <3>4, <3>5 DEF Same
  <2> QED  BY <2>1, <2>3, <2>4
<1> QED  BY <1>1, <1>2 DEF Stretch

\* Two logs that hold the same entry.
LEMMA SameEntry ==
    ASSUME NEW a \in Seq(Entry), NEW b \in Seq(Entry), NEW i \in Nat, i <= Len(b),
           i # 0 => a[i] = b[i]
    PROVE  Same(LogSeg(a), LogSeg(b), i)
<1>1. Covers(LogSeg(b), i)
  BY LogSegment
<1>2. TermAt(LogSeg(a), i) = TermAt(LogSeg(b), i)
  BY LogSegment
<1>3. ASSUME i # 0 PROVE i > LogSeg(b).base /\ EntryAt(LogSeg(a), i) = EntryAt(LogSeg(b), i)
  BY <1>3, LogSegment DEF LogSeg
<1>4. i > LogSeg(a).base => i # 0
  BY DEF LogSeg
<1> QED  BY <1>1, <1>2, <1>3, <1>4 DEF Same

LEMMA AppendLonger ==
    ASSUME NEW es \in Seq(Entry), NEW e \in Entry
    PROVE  Longer(LogSeg(Append(es, e)), LogSeg(es), e.term)
<1> DEFINE r == Append(es, e)
<1>1. /\ r \in Seq(Entry) /\ Len(r) = Len(es) + 1 /\ Len(es) \in Nat
      /\ \A i \in 1 .. Len(es) : r[i] = es[i]
      /\ r[Len(es) + 1] = e
  OBVIOUS
<1> HIDE DEF r
<1>2. ASSUME NEW i \in Nat, Covers(LogSeg(r), i)
      PROVE  \/ Same(LogSeg(r), LogSeg(es), i)
             \/ ~Covers(LogSeg(es), i) /\ TermAt(LogSeg(r), i) = e.term
  <2>1. i <= Len(r)
    BY <1>1, <1>2, LogSegment
  <2>2. CASE i <= Len(es)
    BY <1>1, <2>2, SameEntry
  <2>3. CASE i = Len(es) + 1
    <3>1. ~Covers(LogSeg(es), i)
      BY <1>1, <2>3, LogSegment
    <3>2. TermAt(LogSeg(r), i) = r[i].term
      BY <1>1, <2>3, LogSegment
    <3> QED  BY <1>1, <2>3, <3>1, <3>2
  <2> QED  BY <1>1, <2>1, <2>2, <2>3
<1>3. LogSeg(r).base = LogSeg(es).base
  BY DEF LogSeg
<1> QED  BY <1>2, <1>3 DEF Longer, r

LEMMA SplicedJoined ==
    ASSUME NEW es \in Seq(Entry), NEW r \in Seq(Entry),
           NEW m, m.prev_log_index \in Nat, m.prev_log_term \in Nat,
           m.entries \in Seq(Entry), Spliced(es, m, r),
           m.prev_log_index = 0 => m.prev_log_term = 0
    PROVE  Joined(LogSeg(r), LogSeg(es), ReqSeg(m))
<1>1. /\ Len(es) \in Nat /\ Len(r) \in Nat /\ Len(m.entries) \in Nat
      /\ m.prev_log_index <= Len(es) /\ Len(r) = m.prev_log_index + Len(m.entries)
      /\ m.prev_log_index = 0 \/ es[m.prev_log_index].term = m.prev_log_term
      /\ \A k \in 1 .. m.prev_log_index : r[k] = es[k]
      /\ \A k \in 1 .. Len(m.entries) : r[m.prev_log_index + k] = m.entries[k]
  BY DEF Spliced
<1>2. ReqSeg(m).base = m.prev_log_index
  BY DEF ReqSeg
<1>3. Covers(LogSeg(r), m.prev_log_index)
  BY <1>1, LogSegment
<1>4. TermAt(LogSeg(r), m.prev_log_index) = TermAt(ReqSeg(m), m.prev_log_index)
  <2>1. TermAt(ReqSeg(m), m.prev_log_index) = m.prev_log_term
    BY ReqSegment
  <2>2. CASE m.prev_log_index = 0
    BY <2>1, <2>2, LogSegment
  <2>3. CASE m.prev_log_index # 0
    <3>1. TermAt(LogSeg(r), m.prev_log_index) = r[m.prev_log_index].term
      BY <2>3, LogSegment
    <3>2. r[m.prev_log_index] = es[m.prev_log_index]
      <4>1. m.prev_log_index \in 1 .. m.prev_log_index
        BY <2>3
      <4> QED  BY <1>1, <4>1
    <3>3. es[m.prev_log_index].term = m.prev_log_term
      BY <1>1, <2>3
    <3> QED  BY <2>1, <3>1, <3>2, <3>3
  <2> QED  BY <2>2, <2>3
<1>5. ASSUME NEW i \in Nat, Covers(LogSeg(r), i)
      PROVE  IF i <= m.prev_log_index THEN Same(LogSeg(r), LogSeg(es), i)
                                      ELSE Same(LogSeg(r), ReqSeg(m), i)
  <2>1. i <= Len(r)
    BY <1>5, LogSegment
  <2>2. CASE i <= m.prev_log_index
    <3>1. i <= Len(es) /\ (i # 0 => r[i] = es[i])
      BY <1>1, <2>2
    <3> QED  BY <2>2, <3>1, SameEntry
  <2>3. CASE i > m.prev_log_index
    <3> DEFINE k == i - m.prev_log_index
    <3>1. k \in 1 .. Len(m.entries) /\ m.prev_log_index + k = i /\ i # 0
      BY <1>1, <2>1, <2>3, ReqOffset
    <3>2. TermAt(ReqSeg(m), i) = m.entries[k].term /\ EntryAt(ReqSeg(m), i) = m.entries[k]
      BY <2>3, ReqSegment
    <3>3. Covers(ReqSeg(m), i)
      BY <1>1, <2>1, <2>3, ReqSegment
    <3> HIDE DEF k
    <3>4. r[i] = m.entries[k]
      BY <1>1, <3>1
    <3>5. TermAt(LogSeg(r), i) = r[i].term /\ EntryAt(LogSeg(r), i) = r[i]
      BY <3>1, LogSegment
    <3>6. Same(LogSeg(r), ReqSeg(m), i)
      BY <1>2, <2>3, <3>2, <3>3, <3>4, <3>5 DEF Same
    <3>7. ~(i <= m.prev_log_index)
      BY <2>3
    <3> QED  BY <3>6, <3>7
  <2> QED  BY <2>2, <2>3
<1> QED  BY <1>2, <1>3, <1>4, <1>5 DEF Joined

-----------------------------------------------------------------------------
(* Logs that agree on a term agree on everything before it.                *)

Segments ==
    {LogSeg(store[n].entries) : n \in Server} \cup {ReqSeg(m) : m \in net.append_req}

AllMatch == \A a, b \in Segments : Matching(a, b)

\* Every term in a segment has, or had, a leader.
ElectedTerm(t) == t = 0 \/ \E l \in leaders : l[1] = t

Formed(a) ==
    /\ a.base = 0 => a.term = 0
    /\ \A i \in Nat : Covers(a, i) => ElectedTerm(TermAt(a, i))

AllFormed == \A a \in Segments : Formed(a)

\* Nothing of a leader's term is anywhere that is not in the leader's log.
LeadersAhead == \A n \in Server : sm[n].role = "Leader" =>
    \A a \in Segments : \A i \in Nat :
        Covers(a, i) /\ TermAt(a, i) = sm[n].current_term => i <= Len(store[n].entries)

\* A node is elected once in a term: the terms it won are on its storage, and a
\* candidate is past all of them.
Fresh(l) ==
    /\ l[1] <= store[l[2]].hard_state.term
    /\ sm[l[2]].role = "Candidate" => l[1] < sm[l[2]].current_term

MatchInv ==
    /\ AlignInv /\ LeaderInv /\ ElectionInv
    /\ AllMatch /\ AllFormed /\ LeadersAhead
    /\ \A l \in leaders : Fresh(l)

\* A node that leads after a step led before, or won an election it had not won.
LEMMA LeaderSince ==
    ASSUME TypeInv, HardStateSync, RolesOK, \A l \in leaders : Fresh(l), [Next]_vars,
           NEW p \in Server, sm'[p].role = "Leader"
    PROVE  \/ sm[p].role = "Leader" /\ sm'[p].current_term = sm[p].current_term
           \/ <<sm'[p].current_term, p>> \notin leaders
<1> DEFINE l == <<sm'[p].current_term, p>>
<1>0. /\ sm[p].current_term \in Nat /\ store[p].hard_state.term \in Nat
      /\ phase \in [Server -> {"starting", "running", "stopped"}]
  BY DEF TypeInv, TypeOK, StateMachine, Store, HardState
<1>1. /\ l[1] = sm'[p].current_term /\ l[2] = p
  OBVIOUS
<1>2. l \in leaders => /\ sm'[p].current_term <= store[p].hard_state.term
                       /\ sm[p].role = "Candidate" => sm'[p].current_term < sm[p].current_term
  BY <1>1 DEF Fresh
<1> HIDE DEF l
<1> SUFFICES \/ sm[p].role = "Leader" /\ sm'[p].current_term = sm[p].current_term
             \/ l \notin leaders
  BY DEF l
<1>3. CASE sm' = sm
  BY <1>3
<1>4. ASSUME NEW n \in Server, p # n, OthersStay(n)
      PROVE  sm[p].role = "Leader" /\ sm'[p].current_term = sm[p].current_term
  BY <1>4 DEF OthersStay
<1>5. CASE Calm(p) \/ \E m \in net.vote_req : Granting(p, m)
  BY <1>5 DEF Calm, QuietNode, HigherNode, Granting
<1>6. CASE Standing(p)
  <2>1. sm'[p].current_term = sm[p].current_term + 1
    BY <1>6 DEF Standing
  <2>2. store[p].hard_state.term = sm[p].current_term
    <3>1. Synced(p)
      BY <1>6 DEF Standing, HardStateSync, Synced
    <3> QED  BY <3>1, SyncedFields
  <2> QED  BY <1>0, <1>2, <2>1, <2>2
<1>7. CASE \E m \in net.vote_resp : Counting(p, m)
  <2>1. sm[p].role = "Candidate" /\ sm'[p].current_term = sm[p].current_term
    BY <1>7 DEF Counting
  <2> QED  BY <1>0, <1>2, <2>1
<1>8. ASSUME NEW n \in Server, restore(n) PROVE p # n /\ sm'[p] = sm[p]
  <2>1. phase[n] = "starting" /\ sm'[n].role = sm[n].role
    BY <1>8, RestoreFields DEF restore
  <2>2. p # n
    BY <2>1 DEF RolesOK
  <2> QED  BY <1>8, <2>2, RestoreFields
<1>9. ASSUME NEW n \in Server, start(n) PROVE p # n /\ sm'[p] = sm[p]
  BY <1>9, StartFields
<1>10. ASSUME NEW n \in Server, shutdown(n) PROVE sm' = sm
  BY <1>10 DEF shutdown
<1>11. ASSUME NEW n \in Server, p # n,
              \/ Calm(n) \/ Standing(n)
              \/ \E m \in net.vote_req : Granting(n, m)
              \/ \E m \in net.vote_resp : Counting(n, m)
       PROVE  OthersStay(n)
  BY <1>11 DEF Calm, Standing, Granting, Counting
<1> QED  BY <1>3, <1>4, <1>5, <1>6, <1>7, <1>8, <1>9, <1>10, <1>11, ElectionSteps

\* A candidate was one of the same term, or stands in a term past the saved one.
LEMMA CandidateSince ==
    ASSUME TypeInv, HardStateSync, RolesOK, [Next]_vars,
           NEW p \in Server, sm'[p].role = "Candidate"
    PROVE  \/ sm[p].role = "Candidate" /\ sm'[p].current_term = sm[p].current_term
           \/ sm'[p].current_term > store[p].hard_state.term
<1>0. sm[p].current_term \in Nat
  BY DEF TypeInv, TypeOK, StateMachine
<1>1. CASE sm' = sm
  BY <1>1
<1>2. ASSUME NEW n \in Server, p # n, OthersStay(n)
      PROVE  sm'[p] = sm[p]
  BY <1>2 DEF OthersStay
<1>3. CASE Calm(p) \/ \E m \in net.vote_req : Granting(p, m)
  BY <1>3 DEF Calm, QuietNode, HigherNode, Granting
<1>4. CASE Standing(p)
  <2>1. sm'[p].current_term = sm[p].current_term + 1
    BY <1>4 DEF Standing
  <2>2. store[p].hard_state.term = sm[p].current_term
    <3>1. Synced(p)
      BY <1>4 DEF Standing, HardStateSync, Synced
    <3> QED  BY <3>1, SyncedFields
  <2> QED  BY <1>0, <2>1, <2>2
<1>5. CASE \E m \in net.vote_resp : Counting(p, m)
  BY <1>5 DEF Counting
<1>6. ASSUME NEW n \in Server, restore(n) PROVE sm'[p] = sm[p]
  <2>1. phase[n] = "starting" /\ sm'[n].role = sm[n].role
    BY <1>6, RestoreFields DEF restore
  <2>2. p # n
    BY <2>1 DEF RolesOK
  <2> QED  BY <1>6, <2>2, RestoreFields
<1>7. ASSUME NEW n \in Server, start(n) PROVE sm'[p] = sm[p]
  BY <1>7, StartFields
<1>8. ASSUME NEW n \in Server, shutdown(n) PROVE sm' = sm
  BY <1>8 DEF shutdown
<1>9. ASSUME NEW n \in Server, p # n,
             \/ Calm(n) \/ Standing(n)
             \/ \E m \in net.vote_req : Granting(n, m)
             \/ \E m \in net.vote_resp : Counting(n, m)
      PROVE  OthersStay(n)
  BY <1>9 DEF Calm, Standing, Granting, Counting
<1> QED  BY <1>1, <1>2, <1>3, <1>4, <1>5, <1>6, <1>7, <1>8, <1>9, ElectionSteps

\* A term is won once, and saved.
LEMMA FreshStep ==
    ASSUME TypeInv, TypeInv', HardStateSync, RolesOK, TermsKept,
           \A k \in leaders : Fresh(k), [Next]_vars, NEW l \in leaders'
    PROVE  /\ l[1] <= store'[l[2]].hard_state.term
           /\ sm'[l[2]].role = "Candidate" => l[1] < sm'[l[2]].current_term
<1>0. l \in Nat \X Server /\ l[1] \in Nat /\ l[2] \in Server
  BY DEF TypeInv, TypeOK
<1>1. /\ store[l[2]].hard_state.term \in Nat /\ store'[l[2]].hard_state.term \in Nat
      /\ sm'[l[2]].current_term \in Nat
  BY <1>0 DEF TypeInv, TypeOK, Store, HardState, StateMachine
<1>2. CASE l \in leaders
  <2>1. l[1] <= store[l[2]].hard_state.term
    BY <1>2 DEF Fresh
  <2>2. store'[l[2]].hard_state.term >= store[l[2]].hard_state.term
    BY <1>0 DEF TermsKept
  <2>3. ASSUME sm'[l[2]].role = "Candidate" PROVE l[1] < sm'[l[2]].current_term
    BY <1>0, <1>1, <1>2, <2>1, <2>3, CandidateSince DEF Fresh
  <2> QED  BY <1>0, <1>1, <2>1, <2>2, <2>3
<1>3. CASE l \notin leaders
  <2>1. PICK n \in Server : Standing(n) \/ \E m \in net.vote_resp : Counting(n, m)
    <3>1. leaders' # leaders
      BY <1>3
    <3>2. \A n \in Server, m \in net.vote_req : ~Granting(n, m)
      BY <3>1 DEF Granting
    <3> QED  BY <3>1, <3>2, HistoryKept, ElectionSteps
  <2>2. l = <<sm'[n].current_term, n>> /\ sm'[n].role = "Leader"
    <3>1. CASE Standing(n)
      BY <1>3, <3>1 DEF Standing
    <3>2. CASE \E m \in net.vote_resp : Counting(n, m)
      <4>1. PICK m \in net.vote_resp : Counting(n, m)
        BY <3>2
      <4> QED  BY <1>3, <4>1 DEF Counting
    <3> QED  BY <2>1, <3>1, <3>2
  <2>3. store'[n].hard_state.term = sm'[n].current_term
    <3>1. CASE Standing(n)
      BY <3>1 DEF Standing, hard_state_of
    <3>2. CASE \E m \in net.vote_resp : Counting(n, m)
      <4>1. Synced(n)
        BY <3>2 DEF Counting, HardStateSync, Synced
      <4>2. store[n].hard_state.term = sm[n].current_term
        BY <4>1, SyncedFields
      <4> QED  BY <3>2, <4>2 DEF Counting
    <3> QED  BY <2>1, <3>1, <3>2
  <2> QED  BY <1>1, <2>2, <2>3
<1> QED  BY <1>2, <1>3

\* The segments of a state are segments.
SegmentsOK == Segments \subseteq Segment

LEMMA SegmentTypes == TypeInv => SegmentsOK
<1> SUFFICES ASSUME TypeInv PROVE SegmentsOK
  OBVIOUS
<1>1. \A n \in Server : LogSeg(store[n].entries) \in Segment
  <2>1. \A n \in Server : store[n].entries \in Seq(Entry)
    BY DEF TypeInv, TypeOK, Store
  <2> QED  BY <2>1, LogSegment
<1>2. \A m \in net.append_req : ReqSeg(m) \in Segment
  BY RequestFields, ReqSegment
<1> QED  BY <1>1, <1>2 DEF Segments, SegmentsOK

\* The term y shows at i was shown before, or a leader just appended it.
Origin(y, i) ==
    \/ \E b \in Segments : Covers(b, i) /\ TermAt(b, i) = TermAt(y, i)
    \/ \E q \in Server :
          /\ sm' = sm /\ sm[q].role = "Leader" /\ TermAt(y, i) = sm[q].current_term
          /\ i <= Len(store'[q].entries)

\* A step changes at most one log, to y; every segment is then a part of an
\* earlier one or of y.
SegStep(y) ==
    /\ y \in Segment /\ y.base = 0 /\ y.term = 0
    /\ \A b \in Segments : Matching(y, b)
    /\ \A i \in Nat : Covers(y, i) => Origin(y, i)
    /\ \A a \in Segments' : Blank(a) \/ \E x \in Segments \cup {y} : Part(a, x)

\* The log a handler leaves.
LEMMA NewLog ==
    ASSUME MatchInv, TypeInv', ~AppSnapshots, NEW n \in Server, NodeStep(n),
           NEW y, y = LogSeg(store'[n].entries)
    PROVE  /\ \A b \in Segments : Matching(y, b)
           /\ \A i \in Nat : Covers(y, i) => Origin(y, i)
<1> DEFINE x == LogSeg(store[n].entries)
<1>0. TypeInv /\ AlignInv /\ AllMatch /\ LeadersAhead
  BY DEF MatchInv, AlignInv
<1>1. /\ store[n].entries \in Seq(Entry) /\ store'[n].entries \in Seq(Entry)
  BY <1>0 DEF TypeInv, TypeOK, Store
<1>2. x \in Segments /\ x \in Segment /\ y \in Segment
  BY <1>1, LogSegment DEF Segments
<1>3. \A b \in Segments : Matching(x, b) /\ b \in Segment
  BY <1>0, <1>2, SegmentTypes DEF AllMatch, SegmentsOK
<1>4. CASE LogSame(n)
  <2>1. y = x
    BY <1>4 DEF LogSame
  <2> HIDE DEF x
  <2> QED  BY <1>2, <1>3, <2>1 DEF Origin
<1>5. ASSUME Extends(n), NEW cmd \in Command, new_entry(n, cmd) \in Entry,
             store'[n].entries = Append(store[n].entries, new_entry(n, cmd))
      PROVE  /\ \A b \in Segments : Matching(y, b)
             /\ \A i \in Nat : Covers(y, i) => Origin(y, i)
  <2> DEFINE t == sm[n].current_term
  <2>1. sm' = sm /\ sm[n].role = "Leader"
    BY <1>5 DEF Extends
  <2>2. Longer(y, x, t)
    <3>1. new_entry(n, cmd).term = t
      BY DEF new_entry
    <3> QED  BY <1>1, <1>5, <3>1, AppendLonger
  <2>3. \A i \in Nat : Covers(x, i) <=> i <= Len(store[n].entries)
    BY <1>1, LogSegment
  <2>4. \A b \in Segments : \A i \in Nat : Covers(b, i) /\ TermAt(b, i) = t => Covers(x, i)
    BY <1>0, <2>1, <2>3 DEF LeadersAhead
  <2>5. \A i \in Nat : Covers(y, i) => i <= Len(store'[n].entries)
    BY <1>1, LogSegment
  <2> HIDE DEF x, t
  <2>6. \A b \in Segments : Matching(y, b)
    BY <1>2, <1>3, <2>2, <2>4, LongerMatching
  <2>7. ASSUME NEW i \in Nat, Covers(y, i) PROVE Origin(y, i)
    <3>1. Same(y, x, i) \/ TermAt(y, i) = t
      BY <2>2, <2>7 DEF Longer
    <3>2. CASE Same(y, x, i)
      BY <1>2, <3>2 DEF Same, Origin
    <3>3. CASE TermAt(y, i) = t
      BY <2>1, <2>5, <2>7, <3>3 DEF Origin, t
    <3> QED  BY <3>1, <3>2, <3>3
  <2> QED  BY <2>6, <2>7
<1>6. ASSUME NEW m \in net.append_req, Spliced(store[n].entries, m, store'[n].entries)
      PROVE  /\ \A b \in Segments : Matching(y, b)
             /\ \A i \in Nat : Covers(y, i) => Origin(y, i)
  <2> DEFINE r == ReqSeg(m)
  <2>1. r \in Segments /\ r \in Segment
    <3>1. r \in Segments
      BY DEF Segments
    <3> QED  BY <1>0, <3>1, SegmentTypes DEF SegmentsOK
  <2>2. /\ m.prev_log_index \in Nat /\ m.prev_log_term \in Nat /\ m.entries \in Seq(Entry)
    BY <1>0, RequestFields
  <2>3. m.prev_log_index = 0 => m.prev_log_term = 0
    <3>1. r.base = 0 => r.term = 0
      BY <2>1 DEF MatchInv, AllFormed, Formed
    <3> QED  BY <3>1 DEF ReqSeg
  <2>4. Joined(y, x, r)
    BY <1>1, <1>6, <2>2, <2>3, SplicedJoined
  <2> HIDE DEF r, x
  <2>5. \A b \in Segments : Matching(y, b)
    BY <1>0, <1>2, <1>3, <2>1, <2>4, JoinedMatching DEF AllMatch
  <2>6. ASSUME NEW i \in Nat, Covers(y, i) PROVE Origin(y, i)
    <3>1. Same(y, x, i) \/ Same(y, r, i)
      BY <2>4, <2>6 DEF Joined
    <3> QED  BY <1>2, <2>1, <3>1 DEF Same, Origin
  <2> QED  BY <2>5, <2>6
<1> QED  BY <1>0, <1>4, <1>5, <1>6, WholeLogStep DEF LogGrows

\* What a step of the system is to the segments.
LEMMA SegSteps ==
    ASSUME MatchInv, AlignInv', ~AppSnapshots, [Next]_vars
    PROVE  \E y : SegStep(y)
<1>0. TypeInv /\ AllMatch /\ AlignInv /\ TypeInv'
  BY DEF MatchInv, AlignInv
<1>1. Segments \subseteq Segment /\ \A a \in Segments : Part(a, a)
  BY <1>0, SegmentTypes, PartSelf DEF SegmentsOK
<1>2. CASE store' = store /\ net' = net
  <2>1. PICK n \in Server : TRUE
    BY ConstantsAssumption
  <2> DEFINE y == LogSeg(store[n].entries)
  <2>2. y \in Segments /\ y.base = 0 /\ y.term = 0
    BY DEF Segments, LogSeg
  <2> HIDE DEF y
  <2>3. Segments' = Segments
    BY <1>2 DEF Segments
  <2>4. SegStep(y)
    BY <1>0, <1>1, <2>2, <2>3 DEF SegStep, AllMatch, Origin
  <2> QED  BY <2>4
<1>3. ASSUME NEW n \in Server, NodeStep(n) PROVE \E y : SegStep(y)
  <2> DEFINE y == LogSeg(store'[n].entries)
  <2>1. store'[n].entries \in Seq(Entry)
    BY <1>0 DEF TypeInv, TypeOK, Store
  <2>2. y \in Segment /\ y.base = 0 /\ y.term = 0
    BY <2>1, LogSegment DEF LogSeg
  <2>3. /\ \A b \in Segments : Matching(y, b)
        /\ \A i \in Nat : Covers(y, i) => Origin(y, i)
    BY <1>0, <1>3, NewLog
  <2>4. \A p \in Server : LogSeg(store'[p].entries) \in Segments \cup {y}
    BY <1>3 DEF NodeStep, LogStep, LogSame, Segments
  <2>5. ASSUME NEW m \in net'.append_req
        PROVE  ReqSeg(m) \in Segments \/ Blank(ReqSeg(m)) \/ Part(ReqSeg(m), y)
    <3>1. m \in net.append_req \/ Stretch(m, store'[n].entries)
      <4>1. \A p \in Server : Whole(store'[p])
        BY DEF AlignInv
      <4> QED  BY <1>0, <1>3, <4>1, NewRequests
    <3>2. m \in AppendReq
      BY <1>0 DEF TypeInv, TypeOK, Net
    <3>3. /\ m.prev_log_index \in Nat /\ m.prev_log_term \in Nat /\ m.entries \in Seq(Entry)
      BY <3>2 DEF AppendReq
    <3>4. CASE m \in net.append_req
      BY <3>4 DEF Segments
    <3> QED  BY <2>1, <3>1, <3>3, <3>4, StretchPart
  <2> HIDE DEF y
  <2>6. Part(y, y)
    BY <2>2, PartSelf
  <2>7. ASSUME NEW a \in Segments' PROVE Blank(a) \/ \E x \in Segments \cup {y} : Part(a, x)
    <3>1. a \in Segments \cup {y} \/ Blank(a) \/ Part(a, y)
      BY <2>4, <2>5 DEF Segments
    <3> QED  BY <1>1, <2>6, <3>1
  <2>8. SegStep(y)
    BY <2>2, <2>3, <2>7 DEF SegStep
  <2> QED  BY <2>8
<1> QED  BY <1>0, <1>2, <1>3, NodeSteps DEF restore, shutdown, start

LEMMA MatchStep ==
    ASSUME MatchInv, SegmentsOK', NEW y, SegStep(y)
    PROVE  AllMatch'
<1>1. \A x, z \in Segments \cup {y} : Matching(x, z)
  BY MatchingSymmetric, MatchingSelf DEF MatchInv, AllMatch, SegStep
<1>2. ASSUME NEW a \in Segments', NEW b \in Segments' PROVE Matching(a, b)
  <2>0. a \in Segment /\ b \in Segment
    BY DEF SegmentsOK
  <2>1. CASE Blank(a) \/ Blank(b)
    BY <2>0, <2>1, BlankMatching, MatchingSymmetric
  <2>2. CASE ~Blank(a) /\ ~Blank(b)
    <3>1. PICK x \in Segments \cup {y}, z \in Segments \cup {y} : Part(a, x) /\ Part(b, z)
      BY <2>2 DEF SegStep
    <3>2. Matching(z, x)
      BY <1>1
    <3>3. Matching(b, x)
      BY <3>1, <3>2, PartMatching
    <3>4. Matching(x, b)
      BY <3>3, MatchingSymmetric
    <3> QED  BY <3>1, <3>4, PartMatching
  <2> QED  BY <2>1, <2>2
<1> QED  BY <1>2 DEF AllMatch

LEMMA FormedStep ==
    ASSUME MatchInv, SegmentsOK', leaders \subseteq leaders', NEW y, SegStep(y)
    PROVE  AllFormed'
<1>1. ASSUME NEW x \in Segments \cup {y}, NEW i \in Nat, Covers(x, i)
      PROVE  ElectedTerm(TermAt(x, i))
  <2>1. CASE x \in Segments
    BY <1>1, <2>1 DEF MatchInv, AllFormed, Formed
  <2>2. CASE x = y
    <3>1. Origin(y, i)
      BY <1>1, <2>2 DEF SegStep
    <3>2. CASE \E b \in Segments : Covers(b, i) /\ TermAt(b, i) = TermAt(y, i)
      BY <2>2, <3>2 DEF MatchInv, AllFormed, Formed
    <3>3. CASE \E q \in Server : sm[q].role = "Leader" /\ TermAt(y, i) = sm[q].current_term
      <4>1. PICK q \in Server : sm[q].role = "Leader" /\ TermAt(y, i) = sm[q].current_term
        BY <3>3
      <4>2. <<sm[q].current_term, q>> \in leaders
        BY <4>1 DEF MatchInv, LeaderInv, LeadersRecorded
      <4> QED  BY <2>2, <4>1, <4>2 DEF ElectedTerm
    <3> QED  BY <3>1, <3>2, <3>3 DEF Origin
  <2> QED  BY <1>1, <2>1, <2>2
<1>2. \A x \in Segments \cup {y} : x.base = 0 => x.term = 0
  BY DEF SegStep, MatchInv, AllFormed, Formed
<1>3. \A x \in Segments \cup {y} : x \in Segment
  <2>1. SegmentsOK
    BY SegmentTypes DEF MatchInv, AlignInv
  <2> QED  BY <2>1 DEF SegmentsOK, SegStep
<1>4. ASSUME NEW a \in Segments'
      PROVE  /\ a.base = 0 => a.term = 0
             /\ \A i \in Nat : Covers(a, i) => ElectedTerm(TermAt(a, i))
  <2>0. a.base \in Nat /\ Covers(a, a.base)
    BY DEF SegmentsOK, Segment, Covers
  <2>1. CASE Blank(a)
    BY <2>0, <2>1 DEF Blank, TermAt, ElectedTerm
  <2>2. CASE ~Blank(a)
    <3>1. PICK x \in Segments \cup {y} : Part(a, x)
      BY <2>2 DEF SegStep
    <3>2. ASSUME a.base = 0 PROVE a.term = 0
      <4>1. Covers(x, 0) /\ TermAt(a, 0) = TermAt(x, 0)
        BY <2>0, <3>1, <3>2 DEF Part, Same
      <4>2. x.base \in Nat
        BY <1>3 DEF Segment
      <4>3. x.base = 0
        BY <4>1, <4>2 DEF Covers
      <4> QED  BY <1>2, <3>2, <4>1, <4>3 DEF TermAt
    <3>3. ASSUME NEW i \in Nat, Covers(a, i) PROVE ElectedTerm(TermAt(a, i))
      BY <1>1, <3>1, <3>3 DEF Part, Same
    <3> QED  BY <3>2, <3>3
  <2> QED  BY <2>1, <2>2
<1> QED  BY <1>4 DEF AllFormed, Formed, ElectedTerm

\* A leader's log grows and a new leader starts from nothing: no segment is ahead
\* of it.
LEMMA AheadStep ==
    ASSUME MatchInv, AlignInv', LeaderInv', ElectionSafety, ElectionSafety', LeaderLogKept,
           [Next]_vars, NEW y, SegStep(y)
    PROVE  LeadersAhead'
<1> SUFFICES ASSUME NEW p \in Server, sm'[p].role = "Leader", NEW a \in Segments',
                    NEW i \in Nat, Covers(a, i), TermAt(a, i) = sm'[p].current_term
             PROVE  i <= Len(store'[p].entries)
  BY DEF LeadersAhead
<1> DEFINE t == sm'[p].current_term
           won == <<t, p>>
<1>0. TypeInv /\ TypeInv' /\ HardStateSync /\ RolesOK
  BY DEF MatchInv, AlignInv, LeaderInv, ElectionInv, VoteInv
<1>1. t > 0 /\ t \in Nat /\ won \in leaders'
  BY <1>0 DEF LeaderInv, RolesOK, LeadersRecorded, TypeInv, TypeOK, StateMachine
<1>2. \/ sm[p].role = "Leader" /\ sm[p].current_term = t
      \/ won \notin leaders
  BY <1>0, LeaderSince DEF MatchInv
<1>3. Len(store[p].entries) \in Nat /\ Len(store'[p].entries) \in Nat
  BY <1>0 DEF TypeInv, TypeOK, Store
<1>4. won[1] = t /\ won[2] = p
  OBVIOUS
<1>5. ASSUME NEW b \in Segments, Covers(b, i), TermAt(b, i) = t
      PROVE  i <= Len(store'[p].entries)
  <2>1. CASE sm[p].role = "Leader" /\ sm[p].current_term = t
    <3>1. i <= Len(store[p].entries)
      BY <1>5, <2>1 DEF MatchInv, LeadersAhead
    <3>2. first_index(store[p]) = first_index(store'[p])
      BY DEF MatchInv, AlignInv, Whole, first_index
    <3>3. Len(store[p].entries) <= Len(store'[p].entries)
      BY <2>1, <3>2 DEF LeaderLogKept
    <3> QED  BY <1>3, <3>1, <3>3
  <2>2. CASE won \notin leaders
    <3>1. PICK l \in leaders : l[1] = t
      BY <1>1, <1>5 DEF MatchInv, AllFormed, Formed, ElectedTerm
    <3> HIDE DEF won
    <3>2. l \in leaders'
      BY <1>0, LeadersGrow
    <3>3. l[2] = p
      BY <1>1, <1>4, <3>1, <3>2 DEF ElectionSafety
    <3>4. l \in Nat \X Server
      BY <1>0 DEF TypeInv, TypeOK
    <3>5. l = won
      BY <3>1, <3>3, <3>4 DEF won
    <3> QED  BY <2>2, <3>5
  <2> QED  BY <1>2, <2>1, <2>2
<1>6. ~Blank(a)
  BY <1>1 DEF Blank, TermAt
<1>7. PICK x \in Segments \cup {y} : Part(a, x)
  BY <1>6 DEF SegStep
<1>8. Covers(x, i) /\ TermAt(x, i) = t
  BY <1>7 DEF Part, Same
<1>9. CASE x \in Segments
  BY <1>5, <1>8, <1>9
<1>10. CASE x = y
  <2>1. Origin(y, i)
    BY <1>8, <1>10 DEF SegStep
  <2>2. CASE \E b \in Segments : Covers(b, i) /\ TermAt(b, i) = TermAt(y, i)
    BY <1>5, <1>8, <1>10, <2>2
  <2>3. ASSUME NEW q \in Server, sm' = sm, sm[q].role = "Leader",
               TermAt(y, i) = sm[q].current_term, i <= Len(store'[q].entries)
        PROVE  i <= Len(store'[p].entries)
    <3> DEFINE k == <<t, q>>
    <3>1. k \in leaders' /\ k[1] = t /\ k[2] = q
      BY <1>8, <1>10, <2>3 DEF LeaderInv, LeadersRecorded
    <3> HIDE DEF k, won
    <3>2. q = p
      BY <1>1, <1>4, <3>1 DEF ElectionSafety
    <3> QED  BY <2>3, <3>2
  <2> QED  BY <2>1, <2>2, <2>3 DEF Origin
<1> QED  BY <1>9, <1>10

LEMMA MatchInvStep ==
    ASSUME ~AppSnapshots, MatchInv, AlignInv', LeaderInv', ElectionInv', TermsKept,
           SegmentsOK', ElectionSafety, ElectionSafety', [Next]_vars
    PROVE  MatchInv'
<1>0. /\ TypeInv /\ TypeInv' /\ HardStateSync /\ RolesOK /\ LeaderInv
      /\ \A l \in leaders : Fresh(l)
  BY DEF MatchInv, AlignInv, LeaderInv, ElectionInv, VoteInv
<1>1. PICK y : SegStep(y)
  BY SegSteps
<1>2. LeaderLogKept
  BY <1>0, LeaderLogStep
<1>3. leaders \subseteq leaders'
  BY <1>0, LeadersGrow
<1>4. AllMatch' /\ AllFormed' /\ LeadersAhead'
  BY <1>1, <1>2, <1>3, MatchStep, FormedStep, AheadStep
<1>5. \A l \in leaders' :
        /\ l[1] <= store'[l[2]].hard_state.term
        /\ sm'[l[2]].role = "Candidate" => l[1] < sm'[l[2]].current_term
  BY <1>0, FreshStep
<1> QED  BY <1>4, <1>5 DEF MatchInv, Fresh

LEMMA MatchInvInit ==
    ASSUME Init, AlignInv, LeaderInv, ElectionInv
    PROVE  MatchInv
<1>1. Segments = {LogSeg(<<>>)}
  <2>1. \A n \in Server : store[n].entries = <<>>
    BY DEF Init, EmptyStore
  <2>2. net.append_req = {} /\ Server # {}
    BY ConstantsAssumption DEF Init, NoRpcs
  <2> QED  BY <2>1, <2>2 DEF Segments
<1>2. AllMatch
  BY <1>1, MatchingSelf DEF AllMatch
<1>3. AllFormed
  <2>1. \A i \in Nat : Covers(LogSeg(<<>>), i) => i = 0
    BY Len(<<>>) = 0 DEF Covers, LogSeg
  <2>2. TermAt(LogSeg(<<>>), 0) = 0 /\ LogSeg(<<>>).term = 0
    BY DEF LogSeg, TermAt
  <2> QED  BY <1>1, <2>1, <2>2 DEF AllFormed, Formed, ElectedTerm
<1>4. LeadersAhead
  BY DEF Init, new_state, LeadersAhead
<1>5. \A l \in leaders : Fresh(l)
  BY DEF Init
<1> QED  BY <1>2, <1>3, <1>4, <1>5 DEF MatchInv

LEMMA MatchInvariant ==
    ASSUME ~AppSnapshots, ~ServeBeforeRestore, ~LateResponses, ZeroId \notin Server
    PROVE  Spec => []MatchInv
<1>1. Spec => [](AlignInv /\ LeaderInv /\ ElectionInv)
  BY AlignInvariant, LeaderInvariant, ElectionInvariant, PTL
<1>2. TypeInv' => SegmentsOK'
  BY SegmentTypes, PTL
<1>3. /\ ElectionInv => ElectionSafety
      /\ ElectionInv' => ElectionSafety'
  BY OneLeaderPerTerm, PTL
<1>4. MatchInv /\ AlignInv' /\ LeaderInv' /\ ElectionInv' /\ [Next]_vars => MatchInv'
  <2> SUFFICES ASSUME MatchInv, AlignInv', LeaderInv', ElectionInv', [Next]_vars
               PROVE  MatchInv'
    OBVIOUS
  <2>1. TypeInv /\ TypeInv' /\ HardStateSync /\ Unstarted /\ ElectionInv
    BY DEF MatchInv, AlignInv, ElectionInv, VoteInv
  <2>2. TermsKept
    BY <2>1, TermsStep
  <2> QED  BY <1>2, <1>3, <2>1, <2>2, MatchInvStep
<1>5. Init /\ AlignInv /\ LeaderInv /\ ElectionInv => MatchInv
  BY MatchInvInit
<1> QED  BY <1>1, <1>4, <1>5, PTL DEF Spec

LEMMA MatchingLogs == MatchInv => LogMatching
<1> SUFFICES ASSUME MatchInv, NEW n \in Server, NEW p \in Server,
                    NEW i \in DOMAIN store[n].entries, NEW j \in DOMAIN store[p].entries,
                    store[n].entries[i].index = store[p].entries[j].index,
                    store[n].entries[i].term = store[p].entries[j].term,
                    NEW k \in 1 .. i, NEW l \in 1 .. j,
                    store[n].entries[k].index = store[p].entries[l].index
             PROVE  store[n].entries[k] = store[p].entries[l]
  BY DEF LogMatching
<1> DEFINE a == store[n].entries
           b == store[p].entries
<1>1. /\ store[n] \in Store /\ store[p] \in Store /\ Whole(store[n]) /\ Whole(store[p])
  BY DEF MatchInv, AlignInv, TypeInv, TypeOK
<1>2. /\ a \in Seq(Entry) /\ b \in Seq(Entry) /\ Len(a) \in Nat /\ Len(b) \in Nat
      /\ \A h \in 1 .. Len(a) : a[h].index = h
      /\ \A h \in 1 .. Len(b) : b[h].index = h
  BY <1>1, WholeStore
<1>3. Matching(LogSeg(a), LogSeg(b))
  BY DEF MatchInv, AllMatch, Segments
<1> HIDE DEF a, b
<1>4. i \in 1 .. Len(a) /\ j \in 1 .. Len(b)
  BY <1>2 DEF a, b
<1>5. i = j
  BY <1>2, <1>4 DEF a, b
<1>6. k = l
  <2>1. k \in 1 .. Len(a) /\ l \in 1 .. Len(b)
    BY <1>2, <1>4
  <2> QED  BY <1>2, <2>1 DEF a, b
<1>7. /\ Covers(LogSeg(a), i) /\ Covers(LogSeg(b), i)
      /\ Covers(LogSeg(a), k) /\ Covers(LogSeg(b), k)
      /\ i \in Nat /\ k \in Nat /\ i # 0 /\ k # 0 /\ k <= i
  BY <1>2, <1>4, <1>5, LogSegment
<1>8. TermAt(LogSeg(a), i) = TermAt(LogSeg(b), i)
  <2>1. TermAt(LogSeg(a), i) = a[i].term /\ TermAt(LogSeg(b), i) = b[i].term
    BY <1>2, <1>7, LogSegment
  <2> QED  BY <1>5, <2>1 DEF a, b
<1>9. Agree(LogSeg(a), LogSeg(b), k)
  BY <1>3, <1>7, <1>8 DEF Matching
<1>10. EntryAt(LogSeg(a), k) = a[k] /\ EntryAt(LogSeg(b), k) = b[k]
  BY <1>2, <1>7, LogSegment
<1>11. k > LogSeg(a).base /\ k > LogSeg(b).base
  BY <1>7 DEF LogSeg
<1> QED  BY <1>6, <1>9, <1>10, <1>11 DEF Agree, a, b

\* Two logs that agree on the term of an index hold the same entries up to it: in
\* the environment of ElectionsSafe without compaction, with restarts and any
\* number of lost, duplicated and reordered requests, late AppendEntries of
\* earlier leaders included.
THEOREM LogsMatch ==
    ASSUME ~AppSnapshots, ~ServeBeforeRestore, ~LateResponses, ZeroId \notin Server
    PROVE  Spec => []LogMatching
BY MatchingLogs, MatchInvariant, PTL

=============================================================================
