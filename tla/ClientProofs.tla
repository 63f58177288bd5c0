----------------------------- MODULE ClientProofs -----------------------------
(***************************************************************************)
(* A client looking for the leader, for every cluster and every list of    *)
(* members.  Its requests are handled by on_append_entries like a leader's,*)
(* so what holds of the nodes by themselves has to be shown again: types,  *)
(* elections, and that a ping leaves its receiver as it was.               *)
(***************************************************************************)
EXTENDS ClusterClient, ElectionProofs

-----------------------------------------------------------------------------
(* The requests of the client.                                             *)

\* Under id 0 nothing is sent but ping_leader's request.
OnlyPings == \A m \in net.append_req : m.leader_id = ZeroId =>
    m.term = 0 /\ m.prev_log_index = 0 /\ m.entries = <<>> /\ m.leader_commit = 0

ClientInv ==
    /\ TypeInv /\ OnlyPings
    /\ cursor \in 0 .. Len(Members) /\ finds \in Nat

\* A ping has the type of an AppendEntries.
LEMMA PingType ==
    ASSUME NEW n \in Server, NEW call \in Nat
    PROVE  ping(n, call) \in AppendReq
<1>1. <<>> \in Seq(Entry) /\ 0 \in Nat /\ ZeroId \in Sender
  BY DEF Sender
<1> QED  BY <1>1 DEF ping, AppendReq

\* Forgetting the client's RPCs concerns nobody else's.
LEMMA ForgetType ==
    ASSUME NEW nt \in Net
    PROVE  /\ Forget(nt) \in Net
           /\ Forget(nt).append_req \subseteq nt.append_req
           /\ Forget(nt).append_resp \subseteq nt.append_resp
           /\ Forget(nt).vote_req = nt.vote_req /\ Forget(nt).vote_resp = nt.vote_resp
BY DEF Forget, Net

\* What a step of the client changes.
ClientStep ==
    /\ UNCHANGED <<nodeVars, clientVars, history>>
    /\ net' \in Net
    /\ net'.vote_req = net.vote_req /\ net'.vote_resp = net.vote_resp
    /\ \A m \in net'.append_req : m \in net.append_req \/ \E n, c : m = ping(n, c)
    /\ cursor' \in 0 .. Len(Members) /\ finds' \in Nat
    /\ seekerVars' # seekerVars

\* The client's own steps change only its state and the pings under way.
LEMMA ClientSteps ==
    ASSUME ClientInv, find_leader \/ ping_answered \/ ping_failed
    PROVE  ClientStep
<1>1. /\ net \in Net /\ cursor \in 0 .. Len(Members) /\ finds \in Nat
      /\ Members \in Seq(Server) /\ Len(Members) \in Nat /\ Len(Members) > 0
  <2>1. Members \in Seq(Server) /\ Members # <<>>
    BY ClientAssumption
  <2>2. Len(Members) \in Nat /\ Len(Members) > 0
    BY <2>1
  <2> QED  BY <2>1, <2>2 DEF ClientInv, TypeInv, TypeOK
<1>2. ASSUME NEW k \in 1 .. Len(Members), NEW call \in Nat, ping_leader(k, call)
      PROVE  /\ net' \in Net
             /\ net'.vote_req = net.vote_req /\ net'.vote_resp = net.vote_resp
             /\ \A m \in net'.append_req : m \in net.append_req \/ \E n, c : m = ping(n, c)
             /\ cursor' = k
  <2> DEFINE f == Forget(net)
             q == ping(Members[k], call)
  <2>1. Members[k] \in Server
    BY <1>1
  <2>2. q \in AppendReq
    BY <2>1, PingType
  <2>3. /\ f \in Net /\ f.append_req \subseteq net.append_req
        /\ f.vote_req = net.vote_req /\ f.vote_resp = net.vote_resp
    BY <1>1, ForgetType
  <2>4. net' = [f EXCEPT !.append_req = @ \cup {q}] /\ cursor' = k
    BY <1>2 DEF ping_leader
  <2> HIDE DEF f
  <2>5. \E n, c : q = ping(n, c)
    OBVIOUS
  <2> HIDE DEF q
  <2>6. /\ net' \in Net /\ net'.append_req = f.append_req \cup {q}
        /\ net'.vote_req = f.vote_req /\ net'.vote_resp = f.vote_resp
    BY <2>2, <2>3, <2>4 DEF Net
  <2> QED  BY <2>3, <2>4, <2>5, <2>6
<1>3. ASSUME net' = Forget(net)
      PROVE  /\ net' \in Net
             /\ net'.vote_req = net.vote_req /\ net'.vote_resp = net.vote_resp
             /\ \A m \in net'.append_req : m \in net.append_req
  BY <1>1, <1>3, ForgetType
<1>4. CASE find_leader
  <2>1. finds' = finds + 1 /\ finds' \in Nat /\ finds' # finds
    BY <1>1, <1>4 DEF find_leader
  <2>2. ping_leader(1, finds') /\ UNCHANGED <<nodeVars, clientVars, history>>
    BY <1>4 DEF find_leader
  <2>3. 1 \in 1 .. Len(Members) /\ 1 \in 0 .. Len(Members)
    BY <1>1
  <2> QED  BY <1>2, <2>1, <2>2, <2>3 DEF ClientStep, seekerVars
<1>5. CASE ping_answered
  <2>1. /\ net' = Forget(net) /\ cursor > 0 /\ cursor' = 0 /\ finds' = finds
        /\ UNCHANGED <<nodeVars, clientVars, history>>
    BY <1>5 DEF ping_answered
  <2>2. cursor' \in 0 .. Len(Members) /\ cursor' # cursor
    BY <1>1, <2>1
  <2> QED  BY <1>1, <1>3, <2>1, <2>2 DEF ClientStep, seekerVars
<1>6. CASE ping_failed
  <2>1. cursor > 0 /\ finds' = finds /\ UNCHANGED <<nodeVars, clientVars, history>>
    BY <1>6 DEF ping_failed
  <2>2. CASE cursor < Len(Members) /\ ping_leader(cursor + 1, finds)
    <3>1. cursor + 1 \in 1 .. Len(Members) /\ cursor + 1 \in 0 .. Len(Members) /\ cursor + 1 # cursor
      BY <1>1, <2>2
    <3> QED  BY <1>1, <1>2, <2>1, <2>2, <3>1 DEF ClientStep, seekerVars
  <2>3. CASE cursor' = 0 /\ net' = Forget(net)
    <3>1. cursor' \in 0 .. Len(Members) /\ cursor' # cursor
      BY <1>1, <2>1, <2>3
    <3> QED  BY <1>1, <1>3, <2>1, <2>3, <3>1 DEF ClientStep, seekerVars
  <2> QED  BY <1>6, <2>2, <2>3 DEF ping_failed
<1> QED  BY <1>4, <1>5, <1>6

-----------------------------------------------------------------------------
(* The nodes and the client's requests.                                    *)

\* The requests under id 0 stay the same.
Apart == \A m : m.leader_id = ZeroId => (m \in net'.append_req <=> m \in net.append_req)

\* replicate_all sends under the sender's id and cancels its own requests only.
LEMMA ReplicateApart ==
    ASSUME NEW n \in Server, NEW nt \in Net, NEW s, NEW st,
           nt.append_req = net.append_req, net' = replicate_all(nt, n, s, st)
    PROVE  Apart
<1> DEFINE o == Outstanding(nt, n)
           behind == {p \in Peers(n) : NeedsSnapshot(s, st, p)}
           as == {append_request(n, s, st, p) : p \in Peers(n) \ behind}
           ss == {snapshot_request(n, s, st, p) : p \in behind}
<1>1. ZeroId # n
  BY ClientAssumption
<1>2. /\ \A m \in nt.append_req : m.leader_id = n \/ m \in o.append_req
      /\ o.append_req \subseteq nt.append_req
      /\ o = [vote_req |-> o.vote_req, vote_resp |-> o.vote_resp, append_req |-> o.append_req,
              append_resp |-> o.append_resp, snap_req |-> o.snap_req, snap_resp |-> o.snap_resp]
  BY DEF Outstanding, Net
<1>3. net' = [o EXCEPT !.append_req = @ \cup as, !.snap_req = @ \cup ss]
  BY DEF replicate_all
<1>4. \A m \in as : m.leader_id = n
  BY DEF append_request
<1> HIDE DEF as, ss, o
<1>5. net'.append_req = o.append_req \cup as
  BY <1>2, <1>3
<1> QED  BY <1>1, <1>2, <1>4, <1>5 DEF Apart

\* A ping leaves the network by being handled, and no node sends one.
LEMMA NodesApart ==
    ASSUME TypeInv, [Next]_vars
    PROVE  \/ Apart
           \/ \E n \in Server, m \in net.append_req :
                 /\ on_append_entries(n, m)
                 /\ net'.append_req = Rest(net.append_req, m)
<1>1. net \in Net
  BY DEF TypeInv, TypeOK
<1>2. ASSUME net'.append_req = net.append_req PROVE Apart
  BY <1>2 DEF Apart
<1>3. CASE UNCHANGED vars
  BY <1>2, <1>3 DEF vars
<1>4. ASSUME NEW n \in Server, start_election(n) PROVE Apart
  <2> DEFINE reqs == {vote_request(n, become_candidate(sm[n], n), store[n], p) : p \in Peers(n)}
             nt == [net EXCEPT !.vote_req = @ \cup reqs]
  <2>1. /\ sm[n] \in StateMachine /\ store[n] \in Store /\ incarnation \in [Server -> Nat]
        /\ become_candidate(sm[n], n) \in StateMachine
    BY CandidateType DEF TypeInv, TypeOK
  <2>2. reqs \subseteq VoteReq
    BY <2>1, VoteRequestType DEF Peers
  <2>3. (\E l : net' = replicate_all(nt, n, l, store[n])) \/ net' = nt
    BY <1>4 DEF start_election
  <2> HIDE DEF reqs
  <2>4. nt \in Net /\ nt.append_req = net.append_req
    BY <1>1, <2>2 DEF Net
  <2> HIDE DEF nt
  <2> QED  BY <1>2, <2>3, <2>4, ReplicateApart
<1>5. ASSUME NEW n \in Server, heartbeat(n) PROVE Apart
  BY <1>1, <1>5, ReplicateApart DEF heartbeat
<1>6. ASSUME NEW n \in Server, NEW cmd \in Command, on_proposal(n, cmd) PROVE Apart
  <2>1. \E st : net' = replicate_all(net, n, sm[n], st)
    BY <1>6 DEF on_proposal
  <2> QED  BY <1>1, <2>1, ReplicateApart
<1>7. ASSUME NEW n \in Server, NEW m \in net.vote_req, on_request_vote(n, m) PROVE Apart
  <2>1. \E A : net' = [net EXCEPT !.vote_req = @ \ {m}, !.vote_resp = A]
    BY Zenon, <1>7 DEF on_request_vote
  <2>2. net'.append_req = net.append_req
    BY <1>1, <2>1 DEF Net
  <2> QED  BY <1>2, <2>2
<1>8. ASSUME NEW n \in Server, NEW m \in net.vote_resp, handle_vote_response(n, m) PROVE Apart
  <2> DEFINE nt == [net EXCEPT !.vote_resp = @ \ {m}]
  <2>1. nt \in Net /\ nt.append_req = net.append_req
    BY <1>1 DEF Net
  <2>2. net' = nt \/ \E s : net' = replicate_all(nt, n, s, store[n])
    BY Zenon, <1>8 DEF handle_vote_response
  <2> HIDE DEF nt
  <2> QED  BY <1>2, <2>1, <2>2, ReplicateApart
<1>9. ASSUME NEW n \in Server, NEW m \in net.append_req, on_append_entries(n, m)
      PROVE  net'.append_req = Rest(net.append_req, m)
  <2>1. PICK rs : net' = [net EXCEPT !.append_req = Rest(@, m), !.append_resp = @ \cup rs]
    BY <1>9 DEF on_append_entries
  <2> QED  BY <1>1, <2>1 DEF Net
<1>10. ASSUME NEW n \in Server, NEW m \in net.append_resp, handle_append_response(n, m) PROVE Apart
  <2>1. net'.append_req = net.append_req
    BY <1>1, <1>10 DEF handle_append_response, Net
  <2> QED  BY <1>2, <2>1
<1>11. ASSUME NEW n \in Server, NEW m \in net.snap_req, on_install_snapshot(n, m) PROVE Apart
  <2>1. \E R, A : net' = [net EXCEPT !.snap_req = R, !.snap_resp = A]
    BY Zenon, <1>11 DEF on_install_snapshot
  <2>2. net'.append_req = net.append_req
    BY <1>1, <2>1 DEF Net
  <2> QED  BY <1>2, <2>2
<1>12. ASSUME NEW n \in Server, NEW m \in net.snap_resp, handle_snapshot_response(n, m) PROVE Apart
  <2>1. net'.append_req = net.append_req
    BY <1>1, <1>12 DEF handle_snapshot_response, Net
  <2> QED  BY <1>2, <2>1
<1>13. ASSUME NEW n \in Server, restore(n) \/ shutdown(n) \/ start(n) \/ compact(n) PROVE Apart
  BY <1>2, <1>13 DEF restore, shutdown, start, compact
<1> QED  BY <1>3, <1>4, <1>5, <1>6, <1>7, <1>8, <1>9, <1>10, <1>11, <1>12, <1>13 DEF Next

\* A member that handles a ping at most notes the client's id, and only before its
\* first election.
LEMMA PingHandled ==
    ASSUME TypeInv, OnlyPings, NEW n \in Server, NEW m \in net.append_req, m.leader_id = ZeroId,
           on_append_entries(n, m)
    PROVE  /\ m.to = n /\ store' = store
           /\ sm' \in {sm, [sm EXCEPT ![n].leader_id = ZeroId]}
           /\ sm' # sm => sm[n].current_term = 0
<1>1. /\ sm[n] \in StateMachine /\ sm \in [Server -> StateMachine]
      /\ store \in [Server -> Store]
      /\ sm[n].current_term \in Nat /\ sm[n].commit_index \in Nat
  BY DEF TypeInv, TypeOK, StateMachine
<1>2. m.term = 0 /\ m.prev_log_index = 0 /\ m.entries = <<>> /\ m.leader_commit = 0
  BY DEF OnlyPings
<1>3. /\ Observe(sm[n], m.term, m.leader_id) = sm[n]
      /\ ObserveStore(store[n], sm[n], m.term, m.leader_id) = store[n]
  BY <1>1, <1>2 DEF Observe, ObserveStore
<1> DEFINE s == [sm[n] EXCEPT !.leader_id = ZeroId]
<1>4. s.commit_index = sm[n].commit_index
  BY <1>1 DEF StateMachine
<1>5. ~(m.leader_commit > s.commit_index)
  BY <1>1, <1>2, <1>4
<1>6. /\ m.to = n
      /\ \/ m.term < sm[n].current_term /\ sm' = sm /\ store' = store
         \/ /\ ~(m.term < sm[n].current_term)
            /\ sm' = [sm EXCEPT ![n] = s] /\ store' = [store EXCEPT ![n] = store[n]]
  BY <1>2, <1>3, <1>5 DEF on_append_entries
<1>7. [store EXCEPT ![n] = store[n]] = store
  BY <1>1
<1>8. [sm EXCEPT ![n] = s] = [sm EXCEPT ![n].leader_id = ZeroId]
  OBVIOUS
<1> QED  BY <1>1, <1>2, <1>6, <1>7, <1>8

\* No step of the cluster or of the client breaks the invariant.
LEMMA ClientInvStep ==
    ASSUME ClientInv, [ClusterNext]_<<vars, seekerVars>>
    PROVE  ClientInv'
<1>1. TypeInv /\ OnlyPings /\ cursor \in 0 .. Len(Members) /\ finds \in Nat
  BY DEF ClientInv
<1>2. ASSUME [Next]_vars, UNCHANGED seekerVars PROVE ClientInv'
  <2>1. TypeInv'
    BY <1>1, <1>2, NextType
  <2>2. cursor' = cursor /\ finds' = finds
    BY <1>2 DEF seekerVars
  <2>3. \A m \in net'.append_req : m.leader_id = ZeroId => m \in net.append_req
    BY <1>1, <1>2, NodesApart DEF Apart, Rest
  <2>4. OnlyPings'
    BY <1>1, <2>3 DEF OnlyPings
  <2> QED  BY <1>1, <2>1, <2>2, <2>4 DEF ClientInv
<1>3. ASSUME ClientStep PROVE ClientInv'
  <2>1. TypeInv'
    BY <1>1, <1>3 DEF ClientStep, nodeVars, clientVars, history, TypeInv, TypeOK, ProgressOK, LeaderProgress
  <2>2. \A n, c : /\ ping(n, c).term = 0 /\ ping(n, c).prev_log_index = 0
                  /\ ping(n, c).entries = <<>> /\ ping(n, c).leader_commit = 0
    BY DEF ping
  <2>3. OnlyPings'
    BY <1>1, <1>3, <2>2 DEF ClientStep, OnlyPings
  <2> QED  BY <1>3, <2>1, <2>3 DEF ClientStep, ClientInv
<1>4. CASE find_leader \/ ping_answered \/ ping_failed
  BY <1>3, <1>4, ClientSteps
<1>5. CASE UNCHANGED <<vars, seekerVars>>
  BY <1>2, <1>5
<1> QED  BY <1>2, <1>4, <1>5 DEF ClusterNext

\* The client's requests are well-formed AppendEntries, and of no term.
LEMMA ClientInvariant == ClusterSpec => []ClientInv
<1>1. ClusterInit => ClientInv
  <2> SUFFICES ASSUME ClusterInit PROVE ClientInv
    OBVIOUS
  <2>1. TypeInv
    BY InitType DEF ClusterInit
  <2>2. OnlyPings
    BY DEF ClusterInit, Init, NoRpcs, OnlyPings
  <2>3. cursor \in 0 .. Len(Members) /\ finds \in Nat
    <3>1. Len(Members) \in Nat
      BY ClientAssumption
    <3> QED  BY <3>1 DEF ClusterInit
  <2> QED  BY <2>1, <2>2, <2>3 DEF ClientInv
<1>2. ClientInv /\ [ClusterNext]_<<vars, seekerVars>> => ClientInv'
  BY ClientInvStep
<1> QED  BY <1>1, <1>2, PTL DEF ClusterSpec

\* The probe find_leader sends, an AppendEntries of term 0 that a leader could not
\* have sent, is harmless in every environment: a node that handles it keeps its
\* log, its hard state, its term and its role, and notes id 0 as its leader only
\* before any election reached it (on_append_entries).  The invariant says that
\* nothing but pings travels under id 0, and that terms and commit indexes are
\* never below the ping's.
THEOREM PingsDoNoHarm == ClusterSpec => PingsHarmless
<1>1. ASSUME ClientInv, [ClusterNext]_<<vars, seekerVars>>,
             NEW m \in net.append_req \ net'.append_req, m.leader_id = ZeroId, UNCHANGED seekerVars
      PROVE  /\ store' = store
             /\ sm' \in {sm, [sm EXCEPT ![m.to].leader_id = ZeroId]}
             /\ sm' # sm => sm[m.to].current_term = 0
  <2>1. TypeInv /\ OnlyPings
    BY <1>1 DEF ClientInv
  <2>2. [Next]_vars
    <3>1. CASE find_leader \/ ping_answered \/ ping_failed
      BY <1>1, <3>1, ClientSteps DEF ClientStep
    <3> QED  BY <1>1, <3>1 DEF ClusterNext
  <2>3. PICK n \in Server, x \in net.append_req :
          on_append_entries(n, x) /\ net'.append_req = Rest(net.append_req, x)
    BY <1>1, <2>1, <2>2, NodesApart DEF Apart
  <2>4. x = m
    BY <1>1, <2>3 DEF Rest
  <2> QED  BY <1>1, <2>1, <2>3, <2>4, PingHandled
<1>2. ClientInv /\ [ClusterNext]_<<vars, seekerVars>> =>
         [\A m \in net.append_req \ net'.append_req :
             m.leader_id = ZeroId /\ UNCHANGED seekerVars =>
                 /\ store' = store
                 /\ sm' \in {sm, [sm EXCEPT ![m.to].leader_id = ZeroId]}
                 /\ sm' # sm => sm[m.to].current_term = 0]_vars
  BY <1>1
<1> QED  BY <1>2, ClientInvariant, PTL DEF ClusterSpec, PingsHarmless

-----------------------------------------------------------------------------
(* Elections among nodes that clients ask.                                 *)

\* A step of the client moves no node and no vote.
LEMMA ElectionInvClient ==
    ASSUME ElectionInv, ClientStep, TypeInv'
    PROVE  ElectionInv'
<1>1. /\ UNCHANGED <<sm, store, phase, votes, leaders>>
      /\ net'.vote_resp = net.vote_resp
  BY DEF ClientStep, nodeVars, history
<1>2. VoteInv'
  BY <1>1 DEF ElectionInv, VoteInv, HardStateSync, VotesRecorded, RecordedVote, OneVotePerTerm
<1>3. Unstarted' /\ GrantsRecorded' /\ VotesCounted' /\ LeadersElected'
  BY <1>1 DEF ElectionInv, Unstarted, GrantsRecorded, VotesCounted, LeadersElected, Elected
<1> QED  BY <1>2, <1>3 DEF ElectionInv

\* Every term has one leader while clients look for it, under the assumptions of
\* ElectionsSafe: a ping is an AppendEntries without an election behind it, and
\* brings no node to a term in which it might vote again.
THEOREM ElectionsSafeWithClients ==
    ASSUME ~ServeBeforeRestore, ~LateResponses
    PROVE  ClusterSpec => []ElectionSafety
<1>1. ClusterInit => ElectionInv
  BY ElectionInvInit DEF ClusterInit
<1>2. ClientInv /\ ClientInv' /\ ElectionInv /\ [ClusterNext]_<<vars, seekerVars>> => ElectionInv'
  <2> SUFFICES ASSUME ClientInv, ClientInv', ElectionInv, [ClusterNext]_<<vars, seekerVars>>
               PROVE  ElectionInv'
    OBVIOUS
  <2>1. CASE [Next]_vars
    BY <2>1, ElectionInvStep, ClientAssumption
  <2>2. CASE find_leader \/ ping_answered \/ ping_failed
    <3>1. TypeInv'
      BY DEF ClientInv
    <3> QED  BY <2>2, <3>1, ClientSteps, ElectionInvClient
  <2> QED  BY <2>1, <2>2 DEF ClusterNext
<1> QED  BY <1>1, <1>2, ClientInvariant, OneLeaderPerTerm, PTL DEF ClusterSpec

=============================================================================
