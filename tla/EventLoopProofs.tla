--------------------------- MODULE EventLoopProofs ---------------------------
(***************************************************************************)
(* The event loops and their clocks, for every cluster and every timing    *)
(* RaftConfig::validate accepts.                                           *)
(***************************************************************************)
EXTENDS SlowVotes, LogProofs

\* A turn of a loop, an RPC or a tick, at whatever time.
Turns == (\E n \in Server : timeout(n) \/ message(n) \/ rpc(n)) \/ Elapse

\* A step of the timed system is a step of the nodes or leaves them alone.
LEMMA TurnStep == [Turns]_timedVars => [Next]_vars
<1> SUFFICES ASSUME [Turns]_timedVars PROVE [Next]_vars
  OBVIOUS
<1>1. CASE UNCHANGED timedVars \/ Elapse
  BY <1>1 DEF timedVars, Elapse
<1>2. ASSUME NEW n \in Server, timeout(n) PROVE [Next]_vars
  BY <1>2 DEF timeout, Next
<1>3. ASSUME NEW n \in Server, message(n) PROVE [Next]_vars
  BY <1>3 DEF message, Next
<1>4. ASSUME NEW n \in Server, rpc(n) PROVE [Next]_vars
  BY <1>4 DEF rpc, Next
<1> QED  BY <1>1, <1>2, <1>3, <1>4 DEF Turns

LEMMA TimedStep == [TimedNext]_timedVars => [Turns]_timedVars /\ [Next]_vars
<1>1. [TimedNext]_timedVars => [Turns]_timedVars
  BY DEF TimedNext, Tick, Turns
<1> QED  BY <1>1, TurnStep

LEMMA SlowStep == [SlowNext]_slowVars => [Turns]_timedVars /\ [Next]_vars
<1>1. [SlowNext]_slowVars => [Turns]_timedVars
  BY DEF SlowNext, slow_timeout, slow_message, slow_rpc, SlowTick, Turns, slowVars, timedVars
<1> QED  BY <1>1, TurnStep

\* With clocks the nodes do nothing they may not do without: what is proved of
\* RaftNode holds of a cluster whose deadlines pass when they are due.
THEOREM ClocksOnlyRestrict == TimedSpec => Spec
<1>1. TimedInit => Init
  BY DEF TimedInit
<1> QED  BY <1>1, TimedStep, PTL DEF TimedSpec, Spec

-----------------------------------------------------------------------------
(* Sleeping.                                                               *)

\* Deadlines are numbers of ticks, and no heartbeat is further away than the
\* interval.
ClocksOK ==
    /\ election_deadline \in [Server -> Nat]
    /\ heartbeat_deadline \in [Server -> 0 .. heartbeat_interval]
    /\ wake \in [Server -> Nat]

\* When n's loop sleeps until.
Due(n) == deadline(sm[n], election_deadline[n], heartbeat_deadline[n])

Rests(n) == wake[n] <= Due(n) \/ wake[n] <= heartbeat_interval

SleepInv == TypeInv /\ ClocksOK /\ \A n \in Server : Rests(n)

\* The loop that went round sleeps until its deadline.
LEMMA SleepsUntilDue ==
    ASSUME ClocksOK, ClocksOK', NEW n \in Server, Sleeps(n), NEW p \in Server,
           Rests(p), p # n => /\ sm'[p] = sm[p]
                              /\ election_deadline'[p] = election_deadline[p]
                              /\ heartbeat_deadline'[p] = heartbeat_deadline[p]
    PROVE  Rests(p)'
<1>1. CASE p = n
  <2>1. wake'[p] = Due(p)' /\ wake'[p] \in Nat
    BY <1>1 DEF Sleeps, Due, ClocksOK
  <2> QED  BY <2>1 DEF Rests
<1>2. CASE p # n
  <2>1. wake'[p] = wake[p]
    BY <1>2 DEF Sleeps, ClocksOK
  <2>2. Due(p)' = Due(p)
    BY <1>2 DEF Due
  <2> QED  BY <2>1, <2>2 DEF Rests
<1> QED  BY <1>1, <1>2

\* A step of one node's handlers leaves the state of the others alone.
LEMMA OnlyOneMoves ==
    ASSUME TypeInv, NEW n \in Server, NEW p \in Server, p # n,
           \/ start_election(n) \/ heartbeat(n)
           \/ \E cmd \in Command : on_proposal(n, cmd)
           \/ \E m \in net.vote_req : on_request_vote(n, m)
           \/ \E m \in net.vote_resp : handle_vote_response(n, m)
           \/ \E m \in net.append_req : on_append_entries(n, m)
           \/ \E m \in net.append_resp : handle_append_response(n, m)
    PROVE  sm'[p] = sm[p]
<1>1. OthersStay(n) => sm'[p] = sm[p]
  BY DEF OthersStay
<1>2. start_election(n) => OthersStay(n)
  BY StartElectionStep DEF Standing
<1>3. heartbeat(n) \/ (\E cmd \in Command : on_proposal(n, cmd)) => OthersStay(n)
  BY HeartbeatCalm, OnProposalCalm DEF Calm
<1>4. (\E m \in net.vote_req : on_request_vote(n, m)) => OthersStay(n)
  BY OnRequestVoteStep DEF Calm, Granting
<1>5. (\E m \in net.vote_resp : handle_vote_response(n, m)) => OthersStay(n)
  BY HandleVoteResponseStep DEF Calm, Counting
<1>6. (\E m \in net.append_req : on_append_entries(n, m)) => OthersStay(n)
  BY OnAppendEntriesCalm DEF Calm
<1>7. (\E m \in net.append_resp : handle_append_response(n, m)) => OthersStay(n)
  BY HandleAppendResponseCalm DEF Calm
<1> QED  BY <1>1, <1>2, <1>3, <1>4, <1>5, <1>6, <1>7

\* An RPC makes nobody leader.
LEMMA RpcRoles ==
    ASSUME TypeInv, NEW n \in Server, rpc(n), NEW p \in Server
    PROVE  sm'[p].role = "Leader" => sm[p].role = "Leader"
<1>1. \/ Calm(n)
      \/ \E m \in net.vote_req : Granting(n, m)
  BY OnRequestVoteStep, OnAppendEntriesCalm DEF rpc
<1>2. ASSUME Calm(n) PROVE sm'[p].role = "Leader" => sm[p].role = "Leader"
  BY <1>2 DEF Calm, OthersStay, QuietNode, HigherNode
<1>3. ASSUME NEW m \in net.vote_req, Granting(n, m)
      PROVE  sm'[p].role = "Leader" => sm[p].role = "Leader"
  BY <1>3 DEF Granting, OthersStay
<1> QED  BY <1>1, <1>2, <1>3

\* The clocks stay within their ranges.
LEMMA ClocksStep == TypeInv /\ ClocksOK /\ [Turns]_timedVars => ClocksOK'
<1> SUFFICES ASSUME TypeInv, ClocksOK, [Turns]_timedVars PROVE ClocksOK'
  OBVIOUS
<1>0. /\ heartbeat_interval \in Nat /\ Jitter \subseteq Nat
      /\ heartbeat_interval \in 0 .. heartbeat_interval
  BY ConfigAssumption DEF Jitter
<1>1. ASSUME NEW n \in Server, Sleeps(n),
             election_deadline' \in [Server -> Nat],
             heartbeat_deadline' \in [Server -> 0 .. heartbeat_interval]
      PROVE  ClocksOK'
  <2> DEFINE d == deadline(sm'[n], election_deadline'[n], heartbeat_deadline'[n])
  <2>1. d \in Nat
    BY <1>0, <1>1 DEF deadline
  <2>2. wake' = [wake EXCEPT ![n] = d]
    BY <1>1 DEF Sleeps
  <2> HIDE DEF d
  <2> QED  BY <1>1, <2>1, <2>2 DEF ClocksOK
<1>2. ASSUME NEW n \in Server, timeout(n) PROVE ClocksOK'
  <2>1. election_deadline' \in [Server -> Nat]
    <3>1. CASE election_deadline' = election_deadline
      BY <3>1 DEF ClocksOK
    <3>2. CASE \E e \in Jitter : election_deadline' = [election_deadline EXCEPT ![n] = e]
      BY <1>0, <3>2 DEF ClocksOK
    <3> QED  BY <1>2, <3>1, <3>2 DEF timeout
  <2>2. heartbeat_deadline' \in [Server -> 0 .. heartbeat_interval]
    <3>1. \/ heartbeat_deadline' = heartbeat_deadline
          \/ heartbeat_deadline' = [heartbeat_deadline EXCEPT ![n] = heartbeat_interval]
      BY <1>2 DEF timeout
    <3> QED  BY <1>0, <3>1 DEF ClocksOK
  <2>3. Sleeps(n)
    BY <1>2 DEF timeout
  <2> QED  BY <1>1, <2>1, <2>2, <2>3
<1>3. ASSUME NEW n \in Server, message(n) PROVE ClocksOK'
  BY <1>1, <1>3 DEF message, ClocksOK
<1>4. ASSUME NEW n \in Server, rpc(n) PROVE ClocksOK'
  BY <1>4 DEF rpc, clocks, ClocksOK
<1>5. CASE Elapse
  BY <1>0, <1>5 DEF Elapse, ClocksOK
<1>6. CASE UNCHANGED timedVars
  BY <1>6 DEF timedVars, clocks, ClocksOK
<1> QED  BY <1>2, <1>3, <1>4, <1>5, <1>6 DEF Turns

\* Every loop that goes round sleeps until its deadline; an RPC that ends a
\* leadership leaves it asleep for a heartbeat at most; time passes for the
\* sleeper and the deadline alike.
LEMMA SleepStep == SleepInv /\ [TimedNext]_timedVars => SleepInv'
<1> SUFFICES ASSUME SleepInv, [TimedNext]_timedVars PROVE SleepInv'
  OBVIOUS
<1>1. TypeInv /\ ClocksOK
  BY DEF SleepInv
<1>2. TypeInv'
  BY <1>1, TimedStep, NextType
<1>3. ClocksOK'
  BY <1>1, TimedStep, ClocksStep
<1>4. ASSUME NEW p \in Server PROVE Rests(p)'
  <2>0. /\ Rests(p) /\ heartbeat_interval \in Nat
        /\ wake[p] \in Nat /\ wake'[p] \in Nat
        /\ election_deadline[p] \in Nat /\ election_deadline'[p] \in Nat
        /\ heartbeat_deadline[p] \in 0 .. heartbeat_interval
        /\ heartbeat_deadline'[p] \in 0 .. heartbeat_interval
    BY <1>1, <1>3, <1>4, ConfigAssumption DEF SleepInv, ClocksOK
  <2>1. ASSUME NEW n \in Server, timeout(n) PROVE Rests(p)'
    <3>1. p # n => sm'[p] = sm[p]
      BY <1>1, <2>1, OnlyOneMoves DEF timeout, vars
    <3>2. p # n => election_deadline'[p] = election_deadline[p]
      BY <1>1, <2>1 DEF timeout, ClocksOK
    <3>3. p # n => heartbeat_deadline'[p] = heartbeat_deadline[p]
      BY <1>1, <2>1 DEF timeout, ClocksOK
    <3>4. Sleeps(n)
      BY <2>1 DEF timeout
    <3> QED  BY <1>1, <1>3, <2>0, <3>1, <3>2, <3>3, <3>4, SleepsUntilDue
  <2>2. ASSUME NEW n \in Server, message(n) PROVE Rests(p)'
    <3>1. p # n => sm'[p] = sm[p]
      BY <1>1, <2>2, OnlyOneMoves DEF message
    <3>2. Sleeps(n) /\ UNCHANGED <<election_deadline, heartbeat_deadline>>
      BY <2>2 DEF message
    <3> QED  BY <1>1, <1>3, <2>0, <3>1, <3>2, SleepsUntilDue
  <2>3. ASSUME NEW n \in Server, rpc(n) PROVE Rests(p)'
    <3>1. sm'[p].role = "Leader" => sm[p].role = "Leader"
      BY <1>1, <2>3, RpcRoles
    <3>2. /\ wake'[p] = wake[p] /\ election_deadline'[p] = election_deadline[p]
          /\ heartbeat_deadline'[p] = heartbeat_deadline[p]
      BY <2>3 DEF rpc, clocks
    <3> QED  BY <2>0, <3>1, <3>2 DEF Rests, Due, deadline
  <2>4. CASE Tick
    <3>1. sm' = sm
      BY <2>4 DEF Tick, Elapse, vars
    <3>2. /\ wake'[p] = wake[p] - 1 /\ wake[p] > 0
          /\ election_deadline'[p] >= election_deadline[p] - 1
          /\ heartbeat_deadline'[p] >= heartbeat_deadline[p] - 1
      BY <2>0, <2>4 DEF Tick, Elapse
    <3> QED  BY <2>0, <3>1, <3>2 DEF Rests, Due, deadline
  <2>5. CASE UNCHANGED timedVars
    BY <2>0, <2>5 DEF timedVars, vars, clocks, Rests, Due
  <2> QED  BY <2>1, <2>2, <2>3, <2>4, <2>5 DEF TimedNext
<1> QED  BY <1>2, <1>3, <1>4 DEF SleepInv

\* The event loop never sleeps longer than until the deadline of the role it has,
\* or one heartbeat when an RPC changed that role in its sleep, whatever the
\* timeouts and however RPCs are delayed within an instant.
THEOREM NoOversleeping == TimedSpec => []NeverOversleeps
<1>1. TimedInit => SleepInv
  <2> SUFFICES ASSUME TimedInit PROVE SleepInv
    OBVIOUS
  <2>1. TypeInv
    BY InitType DEF TimedInit
  <2>2. ClocksOK
    BY ConfigAssumption DEF TimedInit, ClocksOK, Jitter
  <2>3. \A n \in Server : Rests(n)
    <3> SUFFICES ASSUME NEW n \in Server PROVE Rests(n)
      OBVIOUS
    <3>1. sm[n].role = "Follower" /\ wake[n] = election_deadline[n] /\ wake[n] \in Nat
      BY <2>2 DEF TimedInit, Init, new_state, ClocksOK
    <3> QED  BY <3>1 DEF Rests, Due, deadline
  <2> QED  BY <2>1, <2>2, <2>3 DEF SleepInv
<1>2. SleepInv => NeverOversleeps
  BY DEF SleepInv, Rests, Due, deadline, NeverOversleeps
<1> QED  BY <1>1, <1>2, SleepStep, PTL DEF TimedSpec

-----------------------------------------------------------------------------
(* Elections in time.                                                      *)

\* replicate_all sends no vote and no answer.
LEMMA ReplicateVotes ==
    ASSUME NEW nt \in Net, NEW n, NEW s, NEW st, NEW r, r = replicate_all(nt, n, s, st)
    PROVE  /\ r.vote_req = nt.vote_req /\ r.vote_resp = nt.vote_resp
           /\ r.append_resp \subseteq nt.append_resp
BY DEF replicate_all, Outstanding, Net

\* A candidate asks every peer for its vote in the new term.
LEMMA StartElectionVotes ==
    ASSUME TypeInv, NEW n \in Server, start_election(n)
    PROVE  /\ net.vote_req \subseteq net'.vote_req
           /\ net'.vote_resp = net.vote_resp
           /\ \A m \in net'.vote_req : \/ m \in net.vote_req
                                       \/ m.candidate_id = n /\ m.term = sm'[n].current_term
           /\ \A p \in Peers(n) : \E m \in net'.vote_req :
                 m.to = p /\ m.term = sm'[n].current_term
<1> DEFINE s   == become_candidate(sm[n], n)
           l   == become_leader(s, n, last_index(store[n]))
           reqs == {vote_request(n, s, store[n], p) : p \in Peers(n)}
           nt  == [net EXCEPT !.vote_req = @ \cup reqs]
<1>1. /\ sm[n] \in StateMachine /\ store[n] \in Store /\ net \in Net
      /\ incarnation \in [Server -> Nat]
  BY DEF TypeInv, TypeOK
<1>2. s \in StateMachine /\ s.current_term = sm[n].current_term + 1
  BY <1>1, CandidateType DEF become_candidate, StateMachine
<1>3. sm'[n].current_term = s.current_term
  BY <1>2, StartElectionStep DEF Standing
<1>4. nt \in Net /\ nt.vote_req = net.vote_req \cup reqs /\ nt.vote_resp = net.vote_resp
  <2>1. reqs \subseteq VoteReq
    <3> HIDE DEF s
    <3> QED  BY <1>1, <1>2, VoteRequestType DEF Peers
  <2> HIDE DEF reqs
  <2> QED  BY <1>1, <2>1 DEF Net
<1>5. net' = replicate_all(nt, n, l, store[n]) \/ net' = nt
  BY <1>1 DEF start_election
<1>6. net'.vote_req = net.vote_req \cup reqs /\ net'.vote_resp = net.vote_resp
  <2> HIDE DEF nt, l, reqs
  <2> QED  BY <1>4, <1>5, ReplicateVotes
<1>7. \A m \in reqs : m.candidate_id = n /\ m.term = s.current_term
  BY DEF vote_request
<1>8. ASSUME NEW p \in Peers(n) PROVE \E m \in reqs : m.to = p /\ m.term = s.current_term
  <2>1. vote_request(n, s, store[n], p) \in reqs
    OBVIOUS
  <2>2. /\ vote_request(n, s, store[n], p).to = p
        /\ vote_request(n, s, store[n], p).term = s.current_term
    BY DEF vote_request
  <2> HIDE DEF reqs, s
  <2> QED  BY <2>1, <2>2
<1> HIDE DEF reqs, s
<1> QED  BY <1>3, <1>6, <1>7, <1>8

\* Replication neither asks for votes nor answers.
LEMMA ReplicationVotes ==
    ASSUME TypeInv, NEW n \in Server,
           \/ heartbeat(n)
           \/ \E cmd \in Command : on_proposal(n, cmd)
           \/ \E m \in net.append_req : on_append_entries(n, m)
           \/ \E m \in net.append_resp : handle_append_response(n, m)
    PROVE  net'.vote_req = net.vote_req /\ net'.vote_resp = net.vote_resp
<1>1. net \in Net
  BY DEF TypeInv, TypeOK
<1>2. ASSUME NEW s, NEW st, net' = replicate_all(net, n, s, st)
      PROVE  net'.vote_req = net.vote_req /\ net'.vote_resp = net.vote_resp
  BY <1>1, <1>2, ReplicateVotes
<1>3. ASSUME heartbeat(n) PROVE net' = replicate_all(net, n, sm[n], store[n])
  BY <1>3 DEF heartbeat
<1>4. ASSUME NEW cmd \in Command, on_proposal(n, cmd)
      PROVE  \E st : net' = replicate_all(net, n, sm[n], st)
  BY <1>4 DEF on_proposal
<1>5. ASSUME NEW m \in net.append_req, on_append_entries(n, m)
      PROVE  \E R, A : net' = [net EXCEPT !.append_req = R, !.append_resp = A]
  <2>1. \E A : net' = [net EXCEPT !.append_req = Rest(@, m), !.append_resp = A]
    BY Zenon, <1>5 DEF on_append_entries
  <2> QED  BY <2>1
<1>6. ASSUME NEW m \in net.append_resp, handle_append_response(n, m)
      PROVE  net' = [net EXCEPT !.append_resp = Rest(@, m)]
  BY <1>6 DEF handle_append_response
<1>7. ASSUME NEW R, NEW A, \/ net' = [net EXCEPT !.append_req = R, !.append_resp = A]
                           \/ net' = [net EXCEPT !.append_resp = A]
      PROVE  net'.vote_req = net.vote_req /\ net'.vote_resp = net.vote_resp
  BY <1>1, <1>7 DEF Net
<1> QED  BY <1>2, <1>3, <1>4, <1>5, <1>6, <1>7

\* A request for a vote is answered once, in the voter's term.
LEMMA RequestVoteVotes ==
    ASSUME TypeInv, NEW n \in Server, NEW m \in net.vote_req, on_request_vote(n, m)
    PROVE  /\ net'.vote_req = net.vote_req \ {m} /\ m.to = n
           /\ sm'[n].current_term \in {sm[n].current_term, m.term}
           /\ sm'[n].current_term >= sm[n].current_term /\ sm'[n].current_term >= m.term
           /\ net'.append_req = net.append_req /\ net'.append_resp = net.append_resp
           /\ net.vote_resp \subseteq net'.vote_resp
           /\ \A r \in net'.vote_resp :
                 \/ r \in net.vote_resp
                 \/ /\ r.to = m.candidate_id /\ r.term = sm'[n].current_term
                    /\ r.vote_granted => r.term = m.term
<1> DEFINE s  == Observe(sm[n], m.term, None)
           st == ObserveStore(store[n], sm[n], m.term, None)
           v  == [s EXCEPT !.voted_for = m.candidate_id]
           resp(granted) == [peer |-> n, to |-> m.candidate_id, incarnation |-> m.incarnation,
                             term |-> s.current_term, vote_granted |-> granted]
<1>1. sm[n] \in StateMachine /\ net \in Net /\ m \in VoteReq /\ m.term \in Nat
  BY DEF TypeInv, TypeOK, Net, VoteReq
<1>2. /\ s \in StateMachine /\ s.current_term \in {sm[n].current_term, m.term}
      /\ s.current_term >= sm[n].current_term /\ s.current_term >= m.term
  <2>1. s \in StateMachine
    <3>1. store[n] \in Store /\ LeaderProgress(n, sm[n])
      BY DEF TypeInv, TypeOK, ProgressOK
    <3> QED  BY <1>1, <3>1, ObserveType
  <2>2. sm[n].current_term \in Nat
    BY <1>1 DEF StateMachine
  <2>3. s.current_term = IF m.term > sm[n].current_term THEN m.term ELSE sm[n].current_term
    BY <1>1 DEF Observe, become_follower, StateMachine
  <2> QED  BY <1>1, <2>1, <2>2, <2>3
<1>3. v.current_term = s.current_term
  <2> HIDE DEF s
  <2> QED  BY <1>2 DEF StateMachine
<1>4. /\ m.to = n
      /\ \/ /\ m.term >= s.current_term
            /\ sm' = [sm EXCEPT ![n] = v]
            /\ net' = [net EXCEPT !.vote_req  = @ \ {m}, !.vote_resp = @ \cup {resp(TRUE)}]
         \/ /\ sm' = [sm EXCEPT ![n] = s]
            /\ net' = [net EXCEPT !.vote_req  = @ \ {m}, !.vote_resp = @ \cup {resp(FALSE)}]
  BY Zenon DEF on_request_vote
<1> HIDE DEF s, v
<1>5. sm'[n].current_term = s.current_term
  BY <1>3, <1>4, SmWritten
<1>6. PICK g \in BOOLEAN :
        /\ g => m.term >= s.current_term
        /\ net' = [net EXCEPT !.vote_req  = @ \ {m}, !.vote_resp = @ \cup {resp(g)}]
  BY <1>4
<1>7. /\ net'.vote_req = net.vote_req \ {m} /\ net'.vote_resp = net.vote_resp \cup {resp(g)}
      /\ net'.append_req = net.append_req /\ net'.append_resp = net.append_resp
  <2> DEFINE q == resp(g)
  <2> HIDE DEF q
  <2> QED  BY <1>1, <1>6 DEF Net, q
<1>8. /\ resp(g).to = m.candidate_id /\ resp(g).term = s.current_term
      /\ resp(g).vote_granted = g
  OBVIOUS
<1>9. g => s.current_term = m.term
  BY <1>1, <1>2, <1>6 DEF StateMachine
<1> HIDE DEF resp
<1> QED  BY <1>2, <1>4, <1>5, <1>7, <1>8, <1>9

\* A vote that is heard is gone.
LEMMA VoteResponseVotes ==
    ASSUME TypeInv, NEW n \in Server, NEW m \in net.vote_resp, handle_vote_response(n, m)
    PROVE  net'.vote_req = net.vote_req /\ net'.vote_resp = net.vote_resp \ {m}
<1> DEFINE nt == [net EXCEPT !.vote_resp = @ \ {m}]
<1>1. /\ nt \in Net /\ nt.vote_req = net.vote_req /\ nt.vote_resp = net.vote_resp \ {m}
  BY DEF TypeInv, TypeOK, Net
<1>2. \/ net' = nt
      \/ \E s : net' = replicate_all(nt, n, s, store[n])
  BY Zenon DEF handle_vote_response
<1> HIDE DEF nt
<1> QED  BY <1>1, <1>2, ReplicateVotes

\* An election of n that is still being answered is the last one n started.
OfElection(n, t) ==
    /\ election_deadline[n] > 0
    /\ sm[n].role = "Candidate" => t = sm[n].current_term

\* No election outlives the deadline of the next: the answers come within the
\* instant, and the deadline that was drawn for it is still ahead.
VotesDue ==
    /\ \A m \in net.vote_req : OfElection(m.candidate_id, m.term)
    /\ \A m \in net.vote_resp :
          /\ election_deadline[m.to] > 0
          /\ m.vote_granted => OfElection(m.to, m.term)

\* Elections before and after a step that starts none.
LEMMA ElectionGoesOn ==
    ASSUME NEW n \in Server, NEW p \in Server, NEW t, OfElection(p, t),
           election_deadline' = election_deadline,
           OthersStay(n),
           sm'[n].role = "Candidate" =>
               sm[n].role = "Candidate" /\ sm'[n].current_term = sm[n].current_term
    PROVE  OfElection(p, t)'
BY DEF OfElection, OthersStay

\* No handler but start_election makes a candidate.
LEMMA CandidatesStand ==
    ASSUME TypeInv, NEW n \in Server,
           \/ heartbeat(n)
           \/ \E cmd \in Command : on_proposal(n, cmd)
           \/ \E m \in net.vote_req : on_request_vote(n, m)
           \/ \E m \in net.vote_resp : handle_vote_response(n, m)
           \/ \E m \in net.append_req : on_append_entries(n, m)
           \/ \E m \in net.append_resp : handle_append_response(n, m)
    PROVE  /\ OthersStay(n)
           /\ sm'[n].role = "Candidate" =>
                 sm[n].role = "Candidate" /\ sm'[n].current_term = sm[n].current_term
<1> DEFINE Goal == /\ OthersStay(n)
                   /\ sm'[n].role = "Candidate" =>
                         sm[n].role = "Candidate" /\ sm'[n].current_term = sm[n].current_term
<1>1. ASSUME Calm(n) PROVE Goal
  BY <1>1 DEF Calm, QuietNode, HigherNode
<1>2. ASSUME NEW m \in net.vote_req, Granting(n, m) PROVE Goal
  BY <1>2 DEF Granting
<1>3. ASSUME NEW m \in net.vote_resp, Counting(n, m) PROVE Goal
  BY <1>3 DEF Counting
<1> HIDE DEF Goal
<1>4. Goal
  BY <1>1, <1>2, <1>3, HeartbeatCalm, OnProposalCalm, OnRequestVoteStep,
     HandleVoteResponseStep, OnAppendEntriesCalm, HandleAppendResponseCalm
<1> QED  BY <1>4 DEF Goal

\* No step lets an answer outlive the deadline of the election it is for.
LEMMA VotesDueStep ==
    ASSUME TypeInv, ClocksOK, VotesDue, [TimedNext]_timedVars
    PROVE  VotesDue'
<1>0. /\ \A m \in net.vote_req : m.candidate_id \in Server
      /\ \A m \in net.vote_resp : m.to \in Server
  BY DEF TypeInv, TypeOK, Net, VoteReq, VoteResp
<1>1. ASSUME NEW n \in Server, election_deadline' = election_deadline,
             \/ heartbeat(n)
             \/ \E cmd \in Command : on_proposal(n, cmd)
             \/ \E m \in net.append_req : on_append_entries(n, m)
             \/ \E m \in net.append_resp : handle_append_response(n, m)
      PROVE  VotesDue'
  <2>1. net'.vote_req = net.vote_req /\ net'.vote_resp = net.vote_resp
    BY <1>1, ReplicationVotes
  <2>2. \A p \in Server : \A t : OfElection(p, t) => OfElection(p, t)'
    BY <1>1, CandidatesStand, ElectionGoesOn
  <2> QED  BY <1>0, <1>1, <2>1, <2>2 DEF VotesDue
<1>2. ASSUME NEW n \in Server, election_deadline' = election_deadline,
             NEW m \in net.vote_req, on_request_vote(n, m)
      PROVE  VotesDue'
  <2>1. \A p \in Server : \A t : OfElection(p, t) => OfElection(p, t)'
    BY <1>2, CandidatesStand, ElectionGoesOn
  <2>2. net'.vote_req = net.vote_req \ {m}
    BY <1>2, RequestVoteVotes
  <2>3. \A r \in net'.vote_resp :
           \/ r \in net.vote_resp
           \/ r.to = m.candidate_id /\ (r.vote_granted => r.term = m.term)
    BY <1>2, RequestVoteVotes
  <2>4. OfElection(m.candidate_id, m.term) /\ OfElection(m.candidate_id, m.term)'
    BY <1>0, <2>1 DEF VotesDue
  <2>5. election_deadline'[m.candidate_id] > 0
    BY <2>4 DEF OfElection
  <2>6. \A x \in net'.vote_req : OfElection(x.candidate_id, x.term)'
    BY <1>0, <2>1, <2>2 DEF VotesDue
  <2>7. ASSUME NEW r \in net'.vote_resp
        PROVE  election_deadline'[r.to] > 0 /\ (r.vote_granted => OfElection(r.to, r.term)')
    <3>1. CASE r \in net.vote_resp
      BY <1>0, <1>2, <2>1, <3>1 DEF VotesDue
    <3>2. CASE r.to = m.candidate_id /\ (r.vote_granted => r.term = m.term)
      BY <2>4, <2>5, <3>2 DEF OfElection
    <3> QED  BY <2>3, <3>1, <3>2
  <2> QED  BY <2>6, <2>7 DEF VotesDue
<1>3. ASSUME NEW n \in Server, election_deadline' = election_deadline,
             NEW m \in net.vote_resp, handle_vote_response(n, m)
      PROVE  VotesDue'
  <2>1. \A p \in Server : \A t : OfElection(p, t) => OfElection(p, t)'
    BY <1>3, CandidatesStand, ElectionGoesOn
  <2>2. net'.vote_req = net.vote_req /\ net'.vote_resp = net.vote_resp \ {m}
    BY <1>3, VoteResponseVotes
  <2> QED  BY <1>0, <1>3, <2>1, <2>2 DEF VotesDue
<1>4. ASSUME NEW n \in Server, start_election(n), election_deadline[n] = 0,
             NEW e \in Jitter, election_deadline' = [election_deadline EXCEPT ![n] = e]
      PROVE  VotesDue'
  <2>1. e > 0
    BY ConfigAssumption DEF Jitter
  <2>2. \A p \in Server \ {n} : election_deadline'[p] = election_deadline[p] /\ sm'[p] = sm[p]
    <3>1. \A p \in Server \ {n} : election_deadline'[p] = election_deadline[p]
      BY <1>4 DEF ClocksOK
    <3>2. OthersStay(n)
      BY <1>4, StartElectionStep DEF Standing
    <3> QED  BY <3>1, <3>2 DEF OthersStay
  <2>3. election_deadline'[n] > 0
    BY <1>4, <2>1 DEF ClocksOK
  <2>4. \A p \in Server : \A t : OfElection(p, t) => OfElection(p, t)'
    BY <1>4, <2>2 DEF OfElection
  <2>5. ASSUME NEW t, t = sm'[n].current_term PROVE OfElection(n, t)'
    BY <2>3, <2>5 DEF OfElection
  <2>6. /\ net'.vote_resp = net.vote_resp
        /\ \A m \in net'.vote_req : \/ m \in net.vote_req
                                    \/ m.candidate_id = n /\ m.term = sm'[n].current_term
    BY <1>4, StartElectionVotes
  <2>7. \A m \in net'.vote_req : OfElection(m.candidate_id, m.term)'
    BY <1>0, <2>4, <2>5, <2>6 DEF VotesDue
  <2>8. \A m \in net'.vote_resp : election_deadline'[m.to] > 0
    BY <1>0, <2>2, <2>3, <2>6 DEF VotesDue
  <2> QED  BY <1>0, <2>4, <2>6, <2>7, <2>8 DEF VotesDue
<1>5. CASE Tick
  BY <1>5 DEF Tick, Elapse, NoRpcs, vars, VotesDue
<1>6. ASSUME UNCHANGED <<sm, net, election_deadline>> PROVE VotesDue'
  BY <1>6 DEF VotesDue, OfElection
<1>7. ASSUME NEW n \in Server, timeout(n) PROVE VotesDue'
  BY <1>1, <1>4, <1>6, <1>7 DEF timeout, vars
<1>8. ASSUME NEW n \in Server, message(n) PROVE VotesDue'
  BY <1>1, <1>3, <1>8 DEF message
<1>9. ASSUME NEW n \in Server, rpc(n) PROVE VotesDue'
  BY <1>1, <1>2, <1>9 DEF rpc, clocks
<1>10. CASE UNCHANGED timedVars
  BY <1>6, <1>10 DEF timedVars, vars, clocks
<1> QED  BY <1>5, <1>7, <1>8, <1>9, <1>10 DEF TimedNext

\* Over the network of EventLoop, where RPCs take no time, no candidate hears a vote
\* of an earlier election of its.
TimelyInv == ElectionInv /\ ClocksOK /\ VotesDue

\* The invariant of the election with clocks holds.
LEMMA TimelyInvariant ==
    ASSUME ~ServeBeforeRestore, ZeroId \notin Server
    PROVE  TimedSpec => []TimelyInv
<1>1. TimedInit => TimelyInv
  <2> SUFFICES ASSUME TimedInit PROVE TimelyInv
    OBVIOUS
  <2>1. ElectionInv
    BY ElectionInvInit DEF TimedInit
  <2>2. ClocksOK
    BY ConfigAssumption DEF TimedInit, ClocksOK, Jitter
  <2>3. VotesDue
    BY DEF TimedInit, Init, NoRpcs, VotesDue
  <2> QED  BY <2>1, <2>2, <2>3 DEF TimelyInv
<1>2. TimelyInv /\ [TimedNext]_timedVars => TimelyInv'
  <2> SUFFICES ASSUME TimelyInv, [TimedNext]_timedVars PROVE TimelyInv'
    OBVIOUS
  <2>1. TypeInv /\ ClocksOK /\ VotesDue /\ ElectionInv
    BY DEF TimelyInv, ElectionInv, VoteInv
  <2>2. Timely
    <3> SUFFICES ASSUME NEW m \in net.vote_resp, m.vote_granted, sm[m.to].role = "Candidate"
                 PROVE  m.term >= sm[m.to].current_term
      BY DEF Timely
    <3>1. m.term = sm[m.to].current_term
      BY <2>1 DEF VotesDue, OfElection
    <3>2. m.term \in Nat
      BY <2>1 DEF TypeInv, TypeOK, Net, VoteResp
    <3> QED  BY <3>1, <3>2
  <2>3. ElectionInv'
    BY <2>1, <2>2, TimedStep, ElectionInvStep
  <2> QED  BY <2>1, <2>3, TimedStep, ClocksStep, VotesDueStep DEF TimelyInv
<1> QED  BY <1>1, <1>2, PTL DEF TimedSpec

-----------------------------------------------------------------------------
(* Elections over a slow network.                                          *)

\* The tasks of a candidate give up before it can stand again, and they ask for the
\* votes of the term it stands in.
AwaitedInv == \A e \in awaited :
    /\ e.candidate \in Server /\ e.left \in Nat
    /\ e.left < election_deadline[e.candidate]
    /\ sm[e.candidate].role = "Candidate" => e.term = sm[e.candidate].current_term

SlowInv == ElectionInv /\ ClocksOK /\ AwaitedInv

\* A step that starts no election leaves the awaited ones as they are.
LEMMA AwaitedKept ==
    ASSUME AwaitedInv, awaited' = awaited, election_deadline' = election_deadline,
           NEW n \in Server, OthersStay(n),
           sm'[n].role = "Candidate" =>
               sm[n].role = "Candidate" /\ sm'[n].current_term = sm[n].current_term
    PROVE  AwaitedInv'
<1> SUFFICES ASSUME NEW e \in awaited
             PROVE  /\ e.candidate \in Server /\ e.left \in Nat
                    /\ e.left < election_deadline'[e.candidate]
                    /\ sm'[e.candidate].role = "Candidate" =>
                          e.term = sm'[e.candidate].current_term
  BY DEF AwaitedInv
<1>1. /\ e.candidate \in Server /\ e.left \in Nat
      /\ e.left < election_deadline[e.candidate]
      /\ sm[e.candidate].role = "Candidate" => e.term = sm[e.candidate].current_term
  BY DEF AwaitedInv
<1>2. CASE e.candidate = n
  BY <1>1, <1>2
<1>3. CASE e.candidate # n
  BY <1>1, <1>3 DEF OthersStay
<1> QED  BY <1>2, <1>3

\* Only a step that starts an election, whose tasks wait for less than the shortest
\* election timeout, adds to the awaited ones; nobody stands again before they gave up.
LEMMA AwaitedStep ==
    ASSUME vote_wait \in Nat, vote_wait < election_timeout_min, TypeInv, ClocksOK, AwaitedInv,
           [SlowNext]_slowVars
    PROVE  AwaitedInv'
<1>1. ASSUME NEW n \in Server, awaited' = awaited, election_deadline' = election_deadline,
             \/ heartbeat(n)
             \/ \E cmd \in Command : on_proposal(n, cmd)
             \/ \E m \in net.vote_req : on_request_vote(n, m)
             \/ \E m \in net.vote_resp : handle_vote_response(n, m)
             \/ \E m \in net.append_req : on_append_entries(n, m)
             \/ \E m \in net.append_resp : handle_append_response(n, m)
      PROVE  AwaitedInv'
  BY <1>1, CandidatesStand, AwaitedKept
<1>2. ASSUME NEW n \in Server, start_election(n), election_deadline[n] = 0,
             NEW d \in Jitter, election_deadline' = [election_deadline EXCEPT ![n] = d],
             awaited' = IF sm'[n].current_term = sm[n].current_term THEN awaited
                        ELSE awaited \cup {Election(n)}
      PROVE  AwaitedInv'
  <2>1. d \in Nat /\ vote_wait \in Nat /\ vote_wait < d
    BY ConfigAssumption DEF Jitter
  <2>2. /\ election_deadline'[n] = d
        /\ \A p \in Server \ {n} : election_deadline'[p] = election_deadline[p] /\ sm'[p] = sm[p]
    <3>1. OthersStay(n)
      BY <1>2, StartElectionStep DEF Standing
    <3> QED  BY <1>2, <3>1 DEF ClocksOK, OthersStay
  <2>3. Election(n).candidate = n /\ Election(n).term = sm'[n].current_term
        /\ Election(n).left = vote_wait
    BY DEF Election
  <2>4. awaited' \subseteq awaited \cup {Election(n)}
    BY <1>2
  <2>5. \A e \in awaited : e.candidate \in Server \ {n}
    BY <1>2 DEF AwaitedInv
  <2> HIDE DEF Election
  <2>6. ASSUME NEW e \in awaited'
        PROVE  /\ e.candidate \in Server /\ e.left \in Nat
               /\ e.left < election_deadline'[e.candidate]
               /\ sm'[e.candidate].role = "Candidate" => e.term = sm'[e.candidate].current_term
    <3>1. CASE e = Election(n)
      BY <2>1, <2>2, <2>3, <3>1
    <3>2. CASE e \in awaited
      BY <2>2, <2>5, <3>2 DEF AwaitedInv
    <3> QED  BY <2>4, <3>1, <3>2
  <2> QED  BY <2>6 DEF AwaitedInv
<1>3. ASSUME SlowTick PROVE AwaitedInv'
  <2>1. /\ sm' = sm
        /\ \A n \in Server : election_deadline[n] \in Nat
        /\ \A n \in Server : election_deadline'[n] = IF election_deadline[n] > 0
                                                     THEN election_deadline[n] - 1 ELSE 0
    BY <1>3 DEF SlowTick, Elapse, vars, ClocksOK
  <2>2. ASSUME NEW e \in awaited'
        PROVE  /\ e.candidate \in Server /\ e.left \in Nat
               /\ e.left < election_deadline'[e.candidate]
               /\ sm'[e.candidate].role = "Candidate" => e.term = sm'[e.candidate].current_term
    <3>1. PICK x \in awaited : x.left > 0 /\ e = [x EXCEPT !.left = @ - 1]
      BY <1>3, <2>2 DEF SlowTick
    <3>2. /\ x.candidate \in Server /\ x.left \in Nat
          /\ x.left < election_deadline[x.candidate]
          /\ sm[x.candidate].role = "Candidate" => x.term = sm[x.candidate].current_term
      BY <3>1 DEF AwaitedInv
    <3>3. e.candidate = x.candidate /\ e.term = x.term /\ e.left = x.left - 1
      BY <3>1
    <3> QED  BY <2>1, <3>1, <3>2, <3>3
  <2> QED  BY <2>2 DEF AwaitedInv
<1>4. ASSUME UNCHANGED <<sm, election_deadline, awaited>> PROVE AwaitedInv'
  BY <1>4 DEF AwaitedInv
<1>5. ASSUME NEW n \in Server, slow_timeout(n) PROVE AwaitedInv'
  <2>1. timeout(n)
    BY <1>5 DEF slow_timeout
  <2>2. awaited' = IF sm'[n].current_term = sm[n].current_term THEN awaited
                   ELSE awaited \cup {Election(n)}
    BY <1>5 DEF slow_timeout
  <2>3. CASE heartbeat(n) /\ election_deadline' = election_deadline
    <3>1. sm \in [Server -> StateMachine]
      BY DEF TypeInv, TypeOK
    <3>2. sm'[n].current_term = sm[n].current_term
      BY <2>3, <3>1 DEF heartbeat, StateMachine
    <3> QED  BY <1>1, <2>2, <2>3, <3>2
  <2>4. CASE UNCHANGED <<vars, election_deadline>>
    <3>1. sm' = sm
      BY <2>4 DEF vars
    <3> QED  BY <1>4, <2>2, <2>4, <3>1
  <2>5. CASE /\ election_deadline[n] = 0 /\ start_election(n)
             /\ \E d \in Jitter : election_deadline' = [election_deadline EXCEPT ![n] = d]
    BY <1>2, <2>2, <2>5
  <2> QED  BY <2>1, <2>3, <2>4, <2>5 DEF timeout
<1>6. ASSUME NEW n \in Server, slow_message(n) PROVE AwaitedInv'
  BY <1>1, <1>6 DEF slow_message, message
<1>7. ASSUME NEW n \in Server, slow_rpc(n) PROVE AwaitedInv'
  BY <1>1, <1>7 DEF slow_rpc, rpc, clocks
<1>8. CASE UNCHANGED slowVars
  BY <1>4, <1>8 DEF slowVars, timedVars, vars, clocks
<1> QED  BY <1>3, <1>5, <1>6, <1>7, <1>8 DEF SlowNext

\* A vote a candidate hears is awaited, and so of the election it stands in.
LEMMA AwaitedTimely ==
    ASSUME TypeInv, AwaitedInv, [SlowNext]_slowVars
    PROVE  Timely
<1>1. ASSUME NEW n \in Server, slow_message(n) PROVE Timely
  <2> SUFFICES ASSUME NEW m \in net.vote_resp \ net'.vote_resp,
                      m.vote_granted, sm[m.to].role = "Candidate"
               PROVE  m.term >= sm[m.to].current_term
    BY DEF Timely
  <2>1. PICK e \in awaited : e.candidate = m.to /\ e.term = m.term
    BY <1>1 DEF slow_message, InTime
  <2>2. m.term = sm[m.to].current_term
    BY <2>1 DEF AwaitedInv
  <2>3. m.term \in Nat
    BY DEF TypeInv, TypeOK, Net, VoteResp
  <2> QED  BY <2>2, <2>3
<1>2. ASSUME net.vote_resp \subseteq net'.vote_resp PROVE Timely
  BY <1>2 DEF Timely
<1>3. ASSUME NEW n \in Server, slow_timeout(n) PROVE Timely
  BY <1>2, <1>3, StartElectionVotes, ReplicationVotes DEF slow_timeout, timeout, vars
<1>4. ASSUME NEW n \in Server, NEW m \in net.vote_req, on_request_vote(n, m)
      PROVE  net.vote_resp \subseteq net'.vote_resp
  BY <1>4, RequestVoteVotes
<1>5. ASSUME NEW n \in Server, slow_rpc(n) PROVE Timely
  BY <1>2, <1>4, <1>5, ReplicationVotes DEF slow_rpc, rpc
<1>6. CASE SlowTick \/ UNCHANGED slowVars
  BY <1>2, <1>6 DEF SlowTick, Elapse, slowVars, timedVars, vars
<1> QED  BY <1>1, <1>3, <1>5, <1>6 DEF SlowNext

\* handle_vote_response counts a vote whatever term it was granted in, and start_election
\* awaits an answer for as long as it takes: with a late vote there are two leaders
\* of one term.  So the safety of elections rests on the time a vote may take.
\* Whatever the delays of the network and however many elections cross, one leader
\* per term is all there is if no vote is heard that comes election_timeout_min
\* ticks after it was asked for, or later: by then the candidate may stand again.
THEOREM TimelyElections ==
    ASSUME ~ServeBeforeRestore, ZeroId \notin Server,
           vote_wait \in Nat, vote_wait < election_timeout_min
    PROVE  SlowSpec => []ElectionSafety
<1>1. SlowInit => SlowInv
  <2> SUFFICES ASSUME SlowInit PROVE SlowInv
    OBVIOUS
  <2>1. ElectionInv
    BY ElectionInvInit DEF SlowInit, TimedInit
  <2>2. ClocksOK
    BY ConfigAssumption DEF SlowInit, TimedInit, ClocksOK, Jitter
  <2>3. AwaitedInv
    BY DEF SlowInit, AwaitedInv
  <2> QED  BY <2>1, <2>2, <2>3 DEF SlowInv
<1>2. SlowInv /\ [SlowNext]_slowVars => SlowInv'
  <2> SUFFICES ASSUME SlowInv, [SlowNext]_slowVars PROVE SlowInv'
    OBVIOUS
  <2>1. TypeInv /\ ClocksOK /\ AwaitedInv /\ ElectionInv
    BY DEF SlowInv, ElectionInv, VoteInv
  <2>2. ElectionInv'
    BY <2>1, SlowStep, AwaitedTimely, ElectionInvStep
  <2>3. ClocksOK'
    BY <2>1, SlowStep, ClocksStep
  <2>4. AwaitedInv'
    BY <2>1, AwaitedStep
  <2> QED  BY <2>2, <2>3, <2>4 DEF SlowInv
<1>3. SlowInv => ElectionSafety
  BY OneLeaderPerTerm DEF SlowInv
<1> QED  BY <1>1, <1>2, <1>3, PTL DEF SlowSpec

-----------------------------------------------------------------------------
(* Heartbeats.                                                             *)

Rpcs == net.vote_req \cup net.vote_resp \cup net.append_req \cup net.append_resp

\* n is in term t or will be once a RequestVote reached it.
Covered(n, t) == sm[n].current_term >= t \/ \E m \in net.vote_req : m.to = n /\ m.term >= t

\* No term is known to some node, or on its way, that is not known or on its way
\* to every node: a candidate asks everyone.
Spread == \A n \in Server :
    /\ \A p \in Server : Covered(n, sm[p].current_term)
    /\ \A m \in Rpcs : Covered(n, m.term)

\* Where the terms after a step of n come from.
TermsFrom(n) ==
    /\ OthersStay(n)
    /\ sm'[n].current_term >= sm[n].current_term
    /\ \/ sm'[n].current_term = sm[n].current_term
       \/ \E m \in Rpcs : sm'[n].current_term = m.term
       \/ \A p \in Server \ {n} : \E m \in net'.vote_req :
             m.to = p /\ m.term = sm'[n].current_term
    /\ \A m \in Rpcs' : m \in Rpcs \/ m.term = sm'[n].current_term
    /\ \A m \in net.vote_req :
          m \in net'.vote_req \/ (m.to = n /\ m.term <= sm'[n].current_term)

\* n, leading, has sent an AppendEntries of its term to everyone.
Reaches(n) == \A p \in Server \ {n} : \E m \in net'.append_req :
    m.leader_id = n /\ m.to = p /\ m.term = sm'[n].current_term

\* What n's own handlers do to AppendEntries in flight and to the leader it knows.
Speaks(n) ==
    /\ \/ /\ net'.append_req = net.append_req
          /\ sm'[n].role = "Leader" =>
                sm[n].role = "Leader" /\ sm'[n].current_term = sm[n].current_term
       \/ Reaches(n) /\ \A m \in net.append_req : m.leader_id = n \/ m \in net'.append_req
    /\ \/ sm'[n].current_term > sm[n].current_term
       \/ /\ sm'[n].current_term = sm[n].current_term
          /\ sm'[n].leader_id = sm[n].leader_id \/ sm'[n].role = "Leader"

\* A step that takes its term from an RPC or asks everyone for it keeps terms spread.
LEMMA SpreadStep ==
    ASSUME TypeInv, TypeInv', Spread, NEW n \in Server, TermsFrom(n)
    PROVE  Spread'
<1>0. /\ \A p \in Server : sm[p].current_term \in Nat /\ sm'[p].current_term \in Nat
      /\ \A m \in Rpcs : m.term \in Nat
      /\ \A m \in Rpcs' : m.term \in Nat
  BY DEF TypeInv, TypeOK, Net, VoteReq, VoteResp, AppendReq, AppendResp, StateMachine, Rpcs
<1>1. ASSUME NEW p \in Server, NEW t \in Nat, Covered(p, t) PROVE Covered(p, t)'
  <2>1. CASE sm[p].current_term >= t
    <3>1. sm'[p].current_term >= sm[p].current_term
      BY <1>0 DEF TermsFrom, OthersStay
    <3> QED  BY <1>0, <2>1, <3>1 DEF Covered
  <2>2. ASSUME NEW m \in net.vote_req, m.to = p, m.term >= t PROVE Covered(p, t)'
    <3>1. CASE m \in net'.vote_req
      BY <2>2, <3>1 DEF Covered
    <3>2. CASE m.to = n /\ m.term <= sm'[n].current_term
      <4>1. m.term \in Nat
        BY <1>0 DEF Rpcs
      <4> QED  BY <1>0, <2>2, <3>2, <4>1 DEF Covered
    <3> QED  BY <3>1, <3>2 DEF TermsFrom
  <2> QED  BY <1>1, <2>1, <2>2 DEF Covered
<1>2. ASSUME NEW p \in Server, NEW t, t = sm'[n].current_term PROVE Covered(p, t)'
  <2>1. CASE p = n
    BY <1>0, <1>2, <2>1 DEF Covered
  <2>2. CASE t = sm[n].current_term
    BY <1>0, <1>1, <2>2 DEF Spread
  <2>3. ASSUME NEW m \in Rpcs, t = m.term PROVE Covered(p, t)'
    BY <1>0, <1>1, <2>3 DEF Spread
  <2>4. CASE p # n /\ \E m \in net'.vote_req : m.to = p /\ m.term = t
    <3>1. t >= t
      BY <1>0, <1>2
    <3> QED  BY <2>4, <3>1 DEF Covered
  <2> QED  BY <1>2, <2>1, <2>2, <2>3, <2>4 DEF TermsFrom
<1>3. ASSUME NEW p \in Server, NEW q \in Server PROVE Covered(p, sm[q].current_term)'
  <2>1. ASSUME NEW t, t = sm'[q].current_term PROVE Covered(p, t)'
    <3>1. CASE q = n
      BY <1>2, <2>1, <3>1
    <3>2. CASE q # n
      <4>1. t = sm[q].current_term /\ t \in Nat
        BY <1>0, <2>1, <3>2 DEF TermsFrom, OthersStay
      <4> QED  BY <1>1, <4>1 DEF Spread
    <3> QED  BY <3>1, <3>2
  <2> QED  BY <2>1 DEF Covered
<1>4. ASSUME NEW p \in Server, NEW m \in Rpcs' PROVE Covered(p, m.term)'
  BY <1>0, <1>1, <1>2 DEF TermsFrom, Spread
<1> QED  BY <1>3, <1>4 DEF Spread

\* replicate_all over a full mesh reaches everyone, and drops none but the
\* sender's own earlier requests.
LEMMA ReplicateReaches ==
    ASSUME Links = Server \X Server, NEW n \in Server, NEW nt \in Net,
           NEW s \in StateMachine, NEW st \in Store, Whole(st),
           s.role = "Leader", LeaderProgress(n, s), s.current_term = sm'[n].current_term,
           nt.append_req = net.append_req, nt.append_resp = net.append_resp,
           net' = replicate_all(nt, n, s, st)
    PROVE  /\ Reaches(n)
           /\ \A m \in net.append_req : m.leader_id = n \/ m \in net'.append_req
           /\ net'.vote_req = nt.vote_req /\ net'.vote_resp = nt.vote_resp
           /\ net'.append_resp \subseteq net.append_resp
           /\ \A m \in net'.append_req : m \in net.append_req \/ m.term = sm'[n].current_term
<1> DEFINE o == Outstanding(nt, n)
           behind == {p \in Peers(n) : NeedsSnapshot(s, st, p)}
           as == {append_request(n, s, st, p) : p \in Peers(n) \ behind}
           ss == {snapshot_request(n, s, st, p) : p \in behind}
<1>1. Peers(n) = Server \ {n}
  BY DEF Peers
<1>2. behind = {}
  BY RequestOfLog
<1>3. /\ \A m \in nt.append_req : m.leader_id = n \/ m \in o.append_req
      /\ o.append_req \subseteq nt.append_req
      /\ o = [vote_req |-> o.vote_req, vote_resp |-> o.vote_resp, append_req |-> o.append_req,
              append_resp |-> o.append_resp, snap_req |-> o.snap_req, snap_resp |-> o.snap_resp]
  BY DEF Outstanding, Net
<1>4. net' = [o EXCEPT !.append_req = @ \cup as, !.snap_req = @ \cup ss]
  BY DEF replicate_all
<1>5. net'.append_req = o.append_req \cup as
  <2> HIDE DEF as, ss, o
  <2> QED  BY <1>3, <1>4
<1>6. ASSUME NEW p \in Server \ {n}
      PROVE  \E m \in as : m.leader_id = n /\ m.to = p /\ m.term = s.current_term
  <2>1. append_request(n, s, st, p) \in as
    <3> HIDE DEF behind
    <3> QED  BY <1>1, <1>2
  <2>2. /\ append_request(n, s, st, p).leader_id = n /\ append_request(n, s, st, p).to = p
        /\ append_request(n, s, st, p).term = s.current_term
    BY DEF append_request
  <2> HIDE DEF as
  <2> QED  BY <2>1, <2>2
<1>7. \A m \in as : m.term = s.current_term
  BY DEF append_request
<1>8. /\ net'.vote_req = nt.vote_req /\ net'.vote_resp = nt.vote_resp
      /\ net'.append_resp \subseteq nt.append_resp
  BY ReplicateVotes
<1> HIDE DEF as, o
<1>9. Reaches(n)
  BY <1>5, <1>6 DEF Reaches
<1> QED  BY <1>3, <1>5, <1>7, <1>8, <1>9

\* The election timer.
LEMMA StartElectionSpeaks ==
    ASSUME Links = Server \X Server, TypeInv, NEW n \in Server, Whole(store[n]), start_election(n)
    PROVE  TermsFrom(n) /\ Speaks(n) /\ (sm'[n].role = "Leader" => Reaches(n))
<1> DEFINE s   == become_candidate(sm[n], n)
           l   == become_leader(s, n, last_index(store[n]))
           reqs == {vote_request(n, s, store[n], p) : p \in Peers(n)}
           nt  == [net EXCEPT !.vote_req = @ \cup reqs]
<1>1. /\ sm[n] \in StateMachine /\ store[n] \in Store /\ net \in Net
      /\ incarnation \in [Server -> Nat] /\ sm[n].current_term \in Nat
  BY DEF TypeInv, TypeOK, StateMachine
<1>2. s \in StateMachine /\ s.role = "Candidate"
  BY <1>1, CandidateType DEF become_candidate, StateMachine
<1>3. nt \in Net /\ nt.append_req = net.append_req /\ nt.append_resp = net.append_resp
  <2>1. reqs \subseteq VoteReq
    <3> HIDE DEF s
    <3> QED  BY <1>1, <1>2, VoteRequestType DEF Peers
  <2> HIDE DEF reqs
  <2> QED  BY <1>1, <2>1 DEF Net
<1>4. \/ sm' = [sm EXCEPT ![n] = l] /\ net' = replicate_all(nt, n, l, store[n])
      \/ sm' = [sm EXCEPT ![n] = s] /\ net' = nt
  BY <1>1 DEF start_election
<1> HIDE DEF s, nt
<1>5. l \in StateMachine /\ l.role = "Leader" /\ LeaderProgress(n, l)
  BY <1>1, <1>2, LeaderType, StoreIndexTypes
<1> HIDE DEF l
<1>6. OthersStay(n) /\ sm'[n].current_term = sm[n].current_term + 1
  BY StartElectionStep DEF Standing
<1>7. /\ net.vote_req \subseteq net'.vote_req /\ net'.vote_resp = net.vote_resp
      /\ \A m \in net'.vote_req : m \in net.vote_req \/ m.term = sm'[n].current_term
      /\ \A p \in Server \ {n} : \E m \in net'.vote_req :
            m.to = p /\ m.term = sm'[n].current_term
  <2>1. Peers(n) = Server \ {n}
    BY DEF Peers
  <2> QED  BY <2>1, StartElectionVotes
<1>8. CASE sm' = [sm EXCEPT ![n] = l] /\ net' = replicate_all(nt, n, l, store[n])
  <2>1. sm'[n] = l
    BY <1>8, SmWritten
  <2>2. /\ Reaches(n)
        /\ \A m \in net.append_req : m.leader_id = n \/ m \in net'.append_req
        /\ net'.append_resp \subseteq net.append_resp
        /\ \A m \in net'.append_req : m \in net.append_req \/ m.term = sm'[n].current_term
    BY <1>1, <1>3, <1>5, <1>8, <2>1, ReplicateReaches
  <2> QED  BY <1>1, <1>6, <1>7, <2>2 DEF TermsFrom, Speaks, Rpcs
<1>9. CASE sm' = [sm EXCEPT ![n] = s] /\ net' = nt
  <2>1. sm'[n] = s
    BY <1>9, SmWritten
  <2>2. net'.append_req = net.append_req /\ net'.append_resp = net.append_resp
    BY <1>3, <1>9
  <2> QED  BY <1>1, <1>2, <1>6, <1>7, <2>1, <2>2 DEF TermsFrom, Speaks, Rpcs
<1> QED  BY <1>4, <1>8, <1>9

\* The heartbeat timer.
LEMMA HeartbeatSpeaks ==
    ASSUME Links = Server \X Server, TypeInv, NEW n \in Server, Whole(store[n]), heartbeat(n)
    PROVE  TermsFrom(n) /\ Speaks(n) /\ Reaches(n)
<1>1. /\ sm[n] \in StateMachine /\ store[n] \in Store /\ net \in Net
      /\ sm \in [Server -> StateMachine] /\ LeaderProgress(n, sm[n])
      /\ sm[n].current_term \in Nat
  BY DEF TypeInv, TypeOK, ProgressOK, StateMachine
<1>2. sm[n].role = "Leader" /\ net' = replicate_all(net, n, sm[n], store[n])
  BY DEF heartbeat
<1>3. PICK c : sm' = [sm EXCEPT ![n].commit_index = c,
                            ![n].last_applied = @ + Len(ToApply(sm[n], store[n], c))]
  BY DEF heartbeat
<1>4. sm'[n].current_term = sm[n].current_term /\ sm'[n].leader_id = sm[n].leader_id
  BY <1>1, <1>3 DEF StateMachine
<1>5. /\ Reaches(n)
      /\ \A m \in net.append_req : m.leader_id = n \/ m \in net'.append_req
      /\ net'.vote_req = net.vote_req /\ net'.vote_resp = net.vote_resp
      /\ net'.append_resp \subseteq net.append_resp
      /\ \A m \in net'.append_req : m \in net.append_req \/ m.term = sm'[n].current_term
  BY <1>1, <1>2, <1>4, ReplicateReaches
<1>6. OthersStay(n)
  BY HeartbeatCalm DEF Calm
<1> QED  BY <1>1, <1>4, <1>5, <1>6 DEF TermsFrom, Speaks, Rpcs

\* A client's command.
LEMMA OnProposalSpeaks ==
    ASSUME Links = Server \X Server, TypeInv, TypeInv', NEW n \in Server, Whole(store'[n]),
           NEW cmd \in Command, on_proposal(n, cmd)
    PROVE  TermsFrom(n) /\ Speaks(n)
<1> DEFINE st == append_entries(store[n], <<new_entry(n, cmd)>>)
<1>1. /\ sm[n] \in StateMachine /\ net \in Net /\ LeaderProgress(n, sm[n])
      /\ store'[n] \in Store /\ sm[n].current_term \in Nat
  BY DEF TypeInv, TypeOK, ProgressOK, StateMachine
<1>2. /\ sm[n].role = "Leader" /\ net' = replicate_all(net, n, sm[n], st) /\ sm' = sm
      /\ store' = [store EXCEPT ![n] = st]
  BY DEF on_proposal
<1> HIDE DEF st
<1>3. store'[n] = st
  BY <1>2, StoreWritten
<1>4. st \in Store /\ Whole(st)
  BY <1>1, <1>3
<1>5. /\ Reaches(n)
      /\ \A m \in net.append_req : m.leader_id = n \/ m \in net'.append_req
      /\ net'.vote_req = net.vote_req /\ net'.vote_resp = net.vote_resp
      /\ net'.append_resp \subseteq net.append_resp
      /\ \A m \in net'.append_req : m \in net.append_req \/ m.term = sm'[n].current_term
  BY <1>1, <1>2, <1>4, ReplicateReaches
<1>6. OthersStay(n)
  BY OnProposalCalm DEF Calm
<1> QED  BY <1>1, <1>2, <1>5, <1>6 DEF TermsFrom, Speaks, Rpcs

\* A request for a vote.
LEMMA OnRequestVoteSpeaks ==
    ASSUME TypeInv, NEW n \in Server, NEW m \in net.vote_req, on_request_vote(n, m)
    PROVE  TermsFrom(n) /\ Speaks(n)
<1> DEFINE s == Observe(sm[n], m.term, None)
           v == [s EXCEPT !.voted_for = m.candidate_id]
<1>1. /\ sm[n] \in StateMachine /\ store[n] \in Store /\ LeaderProgress(n, sm[n])
      /\ m.term \in Nat /\ sm[n].current_term \in Nat
  BY DEF TypeInv, TypeOK, ProgressOK, StateMachine, Net, VoteReq
<1>2. s \in StateMachine
  BY <1>1, ObserveType
<1>3. /\ m.term > sm[n].current_term => s.current_term = m.term /\ s.role = "Follower"
      /\ ~(m.term > sm[n].current_term) => s = sm[n]
  BY <1>1 DEF Observe, become_follower, StateMachine
<1>4. sm' = [sm EXCEPT ![n] = v] \/ sm' = [sm EXCEPT ![n] = s]
  BY Zenon DEF on_request_vote
<1> HIDE DEF s
<1>5. /\ v.current_term = s.current_term /\ v.role = s.role /\ v.leader_id = s.leader_id
  BY <1>2 DEF StateMachine
<1> HIDE DEF v
<1>6. sm'[n] = v \/ sm'[n] = s
  BY <1>4, SmWritten
<1>7. \/ sm'[n].current_term = m.term /\ m.term > sm[n].current_term /\ sm'[n].role = "Follower"
      \/ /\ sm'[n].current_term = sm[n].current_term /\ sm'[n].role = sm[n].role
         /\ sm'[n].leader_id = sm[n].leader_id
  BY <1>3, <1>5, <1>6
<1>8. /\ net'.vote_req = net.vote_req \ {m} /\ m.to = n
      /\ sm'[n].current_term >= sm[n].current_term /\ m.term <= sm'[n].current_term
      /\ net'.append_req = net.append_req /\ net'.append_resp = net.append_resp
      /\ \A r \in net'.vote_resp : r \in net.vote_resp \/ r.term = sm'[n].current_term
  BY <1>1, <1>7, RequestVoteVotes
<1>9. OthersStay(n)
  BY CandidatesStand
<1>10. Speaks(n)
  BY <1>7, <1>8 DEF Speaks
<1>11. m \in Rpcs
  BY DEF Rpcs
<1>12. TermsFrom(n)
  BY <1>7, <1>8, <1>9, <1>11 DEF TermsFrom, Rpcs
<1> QED  BY <1>10, <1>12

\* An answer to RequestVote.
LEMMA HandleVoteResponseSpeaks ==
    ASSUME Links = Server \X Server, TypeInv, NEW n \in Server, Whole(store[n]),
           NEW m \in net.vote_resp, handle_vote_response(n, m)
    PROVE  TermsFrom(n) /\ Speaks(n)
<1> DEFINE s  == [sm[n] EXCEPT !.votes_received = @ \cup {m.peer}]
           l  == become_leader(s, n, last_index(store[n]))
           nt == [net EXCEPT !.vote_resp = @ \ {m}]
           f  == become_follower(sm[n], m.term, None)
<1>1. /\ sm[n] \in StateMachine /\ store[n] \in Store /\ net \in Net
      /\ m.term \in Nat /\ m.peer \in Server /\ sm[n].current_term \in Nat
  BY DEF TypeInv, TypeOK, Net, VoteResp, StateMachine
<1>2. s \in StateMachine
  <2>1. sm[n].votes_received \cup {m.peer} \in SUBSET Server
    BY <1>1 DEF StateMachine
  <2> QED  BY <1>1, <2>1 DEF StateMachine
<1>3. /\ s.leader_id = sm[n].leader_id /\ s.current_term = sm[n].current_term /\ s.role = sm[n].role
      /\ f.current_term = m.term /\ f.role = "Follower"
  BY <1>1 DEF StateMachine, become_follower
<1>4. /\ nt \in Net /\ nt.append_req = net.append_req /\ nt.append_resp = net.append_resp
      /\ nt.vote_req = net.vote_req /\ nt.vote_resp \subseteq net.vote_resp
  BY <1>1 DEF Net
<1>5. \/ /\ m.term > sm[n].current_term
         /\ sm' = [sm EXCEPT ![n] = f] /\ net' = nt
      \/ sm' = [sm EXCEPT ![n] = l] /\ net' = replicate_all(nt, n, l, store[n])
      \/ /\ sm' = [sm EXCEPT ![n] = s] \/ sm' = sm
         /\ net' = nt
  BY DEF handle_vote_response, StepDown
<1> HIDE DEF s, nt, f
<1>6. /\ l \in StateMachine /\ l.role = "Leader" /\ LeaderProgress(n, l)
      /\ l.current_term = s.current_term
  <2>1. l \in StateMachine /\ l.role = "Leader" /\ LeaderProgress(n, l)
    BY <1>1, <1>2, LeaderType, StoreIndexTypes
  <2>2. l.current_term = s.current_term
    BY <1>2 DEF become_leader, StateMachine
  <2> QED  BY <2>1, <2>2
<1> HIDE DEF l
<1>7. OthersStay(n)
  BY CandidatesStand
<1>8. CASE m.term > sm[n].current_term /\ sm' = [sm EXCEPT ![n] = f] /\ net' = nt
  <2>1. sm'[n] = f
    BY <1>8, SmWritten
  <2>2. m \in Rpcs
    BY DEF Rpcs
  <2>3. Speaks(n)
    BY <1>1, <1>3, <1>4, <1>8, <2>1 DEF Speaks
  <2>4. sm'[n].current_term >= sm[n].current_term
    BY <1>1, <1>3, <1>8, <2>1
  <2> QED  BY <1>3, <1>4, <1>7, <1>8, <2>1, <2>2, <2>3, <2>4 DEF TermsFrom, Rpcs
<1>9. CASE sm' = [sm EXCEPT ![n] = l] /\ net' = replicate_all(nt, n, l, store[n])
  <2>1. sm'[n] = l
    BY <1>9, SmWritten
  <2>2. /\ Reaches(n)
        /\ \A x \in net.append_req : x.leader_id = n \/ x \in net'.append_req
        /\ net'.vote_req = nt.vote_req /\ net'.vote_resp = nt.vote_resp
        /\ net'.append_resp \subseteq net.append_resp
        /\ \A x \in net'.append_req : x \in net.append_req \/ x.term = sm'[n].current_term
    BY <1>1, <1>4, <1>6, <1>9, <2>1, ReplicateReaches
  <2>3. sm'[n].current_term = sm[n].current_term /\ sm'[n].current_term >= sm[n].current_term
    BY <1>1, <1>3, <1>6, <2>1
  <2>4. Speaks(n)
    BY <1>6, <2>1, <2>2, <2>3 DEF Speaks
  <2> QED  BY <1>4, <1>7, <2>2, <2>3, <2>4 DEF TermsFrom, Rpcs
<1>10. CASE /\ sm' = [sm EXCEPT ![n] = s] \/ sm' = sm
            /\ net' = nt
  <2>1. sm'[n] = s \/ sm'[n] = sm[n]
    BY <1>10, SmWritten
  <2>2. /\ sm'[n].current_term = sm[n].current_term /\ sm'[n].current_term >= sm[n].current_term
        /\ sm'[n].leader_id = sm[n].leader_id /\ sm'[n].role = sm[n].role
    BY <1>1, <1>3, <2>1
  <2>3. Speaks(n)
    BY <1>4, <1>10, <2>2 DEF Speaks
  <2> QED  BY <1>4, <1>7, <1>10, <2>2, <2>3 DEF TermsFrom, Rpcs
<1> QED  BY <1>5, <1>8, <1>9, <1>10

\* An answer to AppendEntries.
LEMMA HandleAppendResponseSpeaks ==
    ASSUME TypeInv, NEW n \in Server, NEW m \in net.append_resp, handle_append_response(n, m)
    PROVE  TermsFrom(n) /\ Speaks(n)
<1> DEFINE f == become_follower(sm[n], m.term, None)
<1>1. /\ sm[n] \in StateMachine /\ net \in Net /\ m.term \in Nat /\ sm[n].current_term \in Nat
  BY DEF TypeInv, TypeOK, Net, AppendResp, StateMachine
<1>2. /\ net'.append_req = net.append_req /\ net'.append_resp \subseteq net.append_resp
      /\ net'.vote_req = net.vote_req /\ net'.vote_resp = net.vote_resp
  <2>1. net' = [net EXCEPT !.append_resp = Rest(@, m)]
    BY DEF handle_append_response
  <2> QED  BY <1>1, <2>1 DEF Net, Rest
<1>3. f.current_term = m.term /\ f.role = "Follower"
  BY <1>1 DEF StateMachine, become_follower
<1>4. \/ m.term > sm[n].current_term /\ sm' = [sm EXCEPT ![n] = f]
      \/ sm' = sm
      \/ \E x, c : sm' = [sm EXCEPT ![n] = [[sm[n] EXCEPT !.progress[m.peer] = x] EXCEPT !.commit_index = c]]
  BY DEF handle_append_response, StepDown
<1>5. \/ m.term > sm[n].current_term /\ sm'[n].current_term = m.term /\ sm'[n].role = "Follower"
      \/ /\ sm'[n].current_term = sm[n].current_term /\ sm'[n].role = sm[n].role
         /\ sm'[n].leader_id = sm[n].leader_id
  <2>1. ASSUME NEW x, NEW c, NEW z, z = [[sm[n] EXCEPT !.progress[m.peer] = x] EXCEPT !.commit_index = c],
               sm' = [sm EXCEPT ![n] = z]
        PROVE  /\ sm'[n].current_term = sm[n].current_term /\ sm'[n].role = sm[n].role
               /\ sm'[n].leader_id = sm[n].leader_id
    <3>1. z.current_term = sm[n].current_term /\ z.role = sm[n].role /\ z.leader_id = sm[n].leader_id
      BY <1>1, <2>1 DEF StateMachine
    <3>2. sm'[n] = z
      BY <2>1, SmWritten
    <3> QED  BY <3>1, <3>2
  <2> HIDE DEF f
  <2>2. CASE m.term > sm[n].current_term /\ sm' = [sm EXCEPT ![n] = f]
    <3>1. sm'[n] = f
      BY <2>2, SmWritten
    <3> QED  BY <1>3, <2>2, <3>1
  <2>3. CASE sm' = sm
    BY <2>3
  <2>4. ASSUME NEW x, NEW c,
               sm' = [sm EXCEPT ![n] = [[sm[n] EXCEPT !.progress[m.peer] = x] EXCEPT !.commit_index = c]]
        PROVE  /\ sm'[n].current_term = sm[n].current_term /\ sm'[n].role = sm[n].role
               /\ sm'[n].leader_id = sm[n].leader_id
    <3> DEFINE z == [[sm[n] EXCEPT !.progress[m.peer] = x] EXCEPT !.commit_index = c]
    <3>1. sm' = [sm EXCEPT ![n] = z]
      BY <2>4
    <3>2. z = [[sm[n] EXCEPT !.progress[m.peer] = x] EXCEPT !.commit_index = c]
      OBVIOUS
    <3> HIDE DEF z
    <3> QED  BY <2>1, <3>1, <3>2
  <2> QED  BY <1>4, <2>2, <2>3, <2>4
<1>6. OthersStay(n)
  BY CandidatesStand
<1>7. m \in Rpcs /\ sm'[n].current_term >= sm[n].current_term
  BY <1>1, <1>5 DEF Rpcs
<1> QED  BY <1>2, <1>5, <1>6, <1>7 DEF TermsFrom, Speaks, Rpcs

\* What an AppendEntries does to the node it reaches and to the others in flight.
Listens(n, m) ==
    /\ m.to = n
    /\ \A x \in net.append_req : x = m \/ x \in net'.append_req
    /\ sm'[n].role = "Leader" =>
          sm[n].role = "Leader" /\ sm'[n].current_term = sm[n].current_term
    /\ \/ m.term < sm[n].current_term /\ sm' = sm
       \/ /\ m.term >= sm[n].current_term
          /\ sm'[n].current_term = m.term /\ sm'[n].leader_id = m.leader_id

\* on_append_entries takes over the term and the leader of its request unless it is stale.
LEMMA OnAppendEntriesListens ==
    ASSUME TypeInv, NEW n \in Server, NEW m \in net.append_req, on_append_entries(n, m)
    PROVE  TermsFrom(n) /\ Listens(n, m)
<1> DEFINE o  == Observe(sm[n], m.term, m.leader_id)
           s  == [o EXCEPT !.leader_id = m.leader_id]
           st == ObserveStore(store[n], sm[n], m.term, m.leader_id)
           appended == IF m.entries = <<>> THEN st ELSE append_entries(st, m.entries)
           c  == [s EXCEPT !.commit_index = commit_bound(appended, m)]
           Reply(success, i) == {append_response(n, m, s.current_term, success, i)}
           Answer(resps) ==
              net' = [net EXCEPT !.append_req = Rest(@, m), !.append_resp = @ \cup resps]
<1>1. /\ sm[n] \in StateMachine /\ store[n] \in Store /\ net \in Net
      /\ LeaderProgress(n, sm[n]) /\ sm[n].current_term \in Nat
  BY DEF TypeInv, TypeOK, ProgressOK, StateMachine
<1>2. m.term \in Nat /\ m.leader_id \in Sender
  BY <1>1 DEF Net, AppendReq
<1>3. o \in StateMachine
  BY <1>1, <1>2, ObserveType
<1>4. o.current_term = IF m.term > sm[n].current_term THEN m.term ELSE sm[n].current_term
  BY <1>1, <1>2 DEF Observe, become_follower, StateMachine
<1>5. /\ m.to = n
      /\ \/ m.term < sm[n].current_term /\ sm' = sm
         \/ ~(m.term < sm[n].current_term) /\ sm' = [sm EXCEPT ![n] = s]
         \/ ~(m.term < sm[n].current_term) /\ sm' = [sm EXCEPT ![n] = c]
  BY DEF on_append_entries
<1>6. Answer({}) \/ \E b \in BOOLEAN : \E i : Answer(Reply(b, i))
  BY DEF on_append_entries
<1>7. ASSUME NEW b, NEW i, NEW r \in Reply(b, i) PROVE r.term = s.current_term
  BY <1>7 DEF append_response
<1> HIDE DEF o, appended
<1>8. /\ s.current_term = o.current_term /\ s.leader_id = m.leader_id
      /\ c.current_term = o.current_term /\ c.leader_id = m.leader_id
  BY <1>3 DEF StateMachine
<1> HIDE DEF s, c
<1>9. /\ s.current_term = sm'[n].current_term
      /\ \/ m.term < sm[n].current_term /\ sm' = sm
         \/ /\ m.term >= sm[n].current_term
            /\ sm'[n].current_term = m.term /\ sm'[n].leader_id = m.leader_id
  <2>1. CASE m.term < sm[n].current_term /\ sm' = sm
    BY <1>1, <1>2, <1>4, <1>8, <2>1
  <2>2. ASSUME NEW z \in {s, c}, ~(m.term < sm[n].current_term), sm' = [sm EXCEPT ![n] = z]
        PROVE  /\ s.current_term = sm'[n].current_term /\ m.term >= sm[n].current_term
               /\ sm'[n].current_term = m.term /\ sm'[n].leader_id = m.leader_id
    <3>1. sm'[n] = z
      BY <2>2, SmWritten
    <3> QED  BY <1>1, <1>2, <1>4, <1>8, <2>2, <3>1
  <2> QED  BY <1>5, <2>1, <2>2
<1>10. ASSUME NEW rs, Answer(rs)
       PROVE  /\ net'.append_req = Rest(net.append_req, m)
              /\ net'.append_resp = net.append_resp \cup rs
  BY <1>1, <1>10 DEF Net
<1> HIDE DEF Reply, Answer
<1>11. /\ net'.append_req = Rest(net.append_req, m)
       /\ \A r \in net'.append_resp : r \in net.append_resp \/ r.term = sm'[n].current_term
  BY <1>6, <1>7, <1>9, <1>10
<1>12. /\ \A x \in net.append_req : x = m \/ x \in net'.append_req
       /\ net'.append_req \subseteq net.append_req
  BY <1>11 DEF Rest
<1>13. /\ OthersStay(n)
       /\ sm'[n].role = "Leader" =>
             sm[n].role = "Leader" /\ sm'[n].current_term = sm[n].current_term
  BY OnAppendEntriesCalm DEF Calm, QuietNode, HigherNode
<1>14. net'.vote_req = net.vote_req /\ net'.vote_resp = net.vote_resp
  BY ReplicationVotes
<1>15. m \in Rpcs
  BY DEF Rpcs
<1>16. /\ sm'[n].current_term >= sm[n].current_term
       /\ sm'[n].current_term = sm[n].current_term \/ sm'[n].current_term = m.term
  BY <1>1, <1>9
<1>17. TermsFrom(n)
  BY <1>11, <1>12, <1>13, <1>14, <1>15, <1>16 DEF TermsFrom, Rpcs
<1>18. Listens(n, m)
  BY <1>5, <1>9, <1>12, <1>13 DEF Listens
<1> QED  BY <1>17, <1>18

\* A leader's loop sleeps until the next heartbeat.
LeadersWake == \A n \in Server : sm[n].role = "Leader" => wake[n] = heartbeat_deadline[n]

\* p has left the term of leader l for a later one, or an AppendEntries of l is on
\* its way to p, or p follows l and heard of it since l's last heartbeat.
Heard(l, p) ==
    \/ sm[p].current_term > sm[l].current_term
    \/ \E m \in net.append_req :
          m.leader_id = l /\ m.to = p /\ m.term = sm[l].current_term
    \/ /\ sm[p].current_term = sm[l].current_term /\ sm[p].leader_id = l
       /\ unheard[p] \in 0 .. heartbeat_interval - heartbeat_deadline[l]

BeatInv ==
    /\ unheard \in [Server -> Int]
    /\ Spread /\ LeadersWake
    /\ \A l, p \in Server : sm[l].role = "Leader" /\ p # l => Heard(l, p)

\* One term, one leader.
LEMMA OneLeads ==
    ASSUME NEW won, \A x, y \in won : x[1] = y[1] => x[2] = y[2],
           NEW t, NEW l, NEW k, <<t, l>> \in won, <<t, k>> \in won
    PROVE  k = l
<1>1. <<t, l>>[1] = <<t, k>>[1]
  OBVIOUS
<1>2. <<t, l>>[2] = <<t, k>>[2]
  BY <1>1
<1> QED  BY <1>2

\* With no RPC in flight every node is in the term of a leader and follows it.
LEMMA Quiet ==
    ASSUME TypeInv, ClocksOK, BeatInv, net = NoRpcs, NEW l \in Server, sm[l].role = "Leader",
           NEW p \in Server, p # l
    PROVE  /\ sm[p].current_term = sm[l].current_term /\ sm[p].leader_id = l
           /\ unheard[p] \in 0 .. heartbeat_interval - heartbeat_deadline[l]
<1>1. net.append_req = {} /\ net.vote_req = {}
  BY DEF NoRpcs
<1>2. sm[p].current_term \in Nat /\ sm[l].current_term \in Nat
  BY DEF TypeInv, TypeOK, StateMachine
<1>3. Covered(l, sm[p].current_term) /\ Heard(l, p)
  BY DEF BeatInv, Spread
<1>4. sm[l].current_term >= sm[p].current_term
  BY <1>1, <1>3 DEF Covered
<1> QED  BY <1>1, <1>2, <1>3, <1>4 DEF Heard

\* n's own timers and the answers it hears.
LEMMA SpeaksHeard ==
    ASSUME TypeInv, TypeInv', LeadersRecorded', ElectionSafety', ClocksOK, ClocksOK', BeatInv,
           NEW n \in Server, OthersStay(n), Speaks(n), unheard' = unheard,
           \/ heartbeat_deadline' = heartbeat_deadline
           \/ /\ heartbeat_deadline' = [heartbeat_deadline EXCEPT ![n] = heartbeat_interval]
              /\ sm'[n].role = "Leader" => Reaches(n),
           NEW l \in Server, NEW p \in Server, p # l, sm'[l].role = "Leader"
    PROVE  Heard(l, p)'
<1>1. \A q \in Server : sm[q].current_term \in Nat /\ sm'[q].current_term \in Nat
  BY DEF TypeInv, TypeOK, StateMachine
<1>2. \A q \in Server \ {n} : /\ sm'[q] = sm[q]
                              /\ heartbeat_deadline'[q] = heartbeat_deadline[q]
  BY DEF OthersStay, ClocksOK
<1>3. CASE l = n /\ Reaches(n)
  <2>1. \E m \in net'.append_req : m.leader_id = l /\ m.to = p /\ m.term = sm'[l].current_term
    BY <1>3 DEF Reaches
  <2> QED  BY <2>1 DEF Heard
<1>4. CASE l = n /\ ~Reaches(n)
  <2>1. /\ net'.append_req = net.append_req
        /\ sm[l].role = "Leader" /\ sm'[l].current_term = sm[l].current_term
        /\ heartbeat_deadline' = heartbeat_deadline
    BY <1>4 DEF Speaks
  <2>2. sm'[p] = sm[p] /\ Heard(l, p)
    BY <1>2, <1>4, <2>1 DEF BeatInv
  <2> QED  BY <2>1, <2>2 DEF Heard
<1>5. CASE l # n
  <2>1. /\ sm'[l] = sm[l] /\ heartbeat_deadline'[l] = heartbeat_deadline[l]
        /\ Heard(l, p)
    BY <1>2, <1>5 DEF BeatInv
  <2>2. \A m \in net.append_req : m.leader_id = l => m \in net'.append_req
    BY <1>5 DEF Speaks
  <2>3. /\ sm'[p].current_term >= sm[p].current_term
        /\ sm'[p].current_term = sm[p].current_term =>
              sm'[p].leader_id = sm[p].leader_id \/ (p = n /\ sm'[n].role = "Leader")
    <3>1. CASE p = n
      BY <1>1, <3>1 DEF Speaks
    <3>2. CASE p # n
      BY <1>1, <1>2, <3>2
    <3> QED  BY <3>1, <3>2
  <2>4. CASE sm[p].current_term > sm[l].current_term
    BY <1>1, <2>1, <2>3, <2>4 DEF Heard
  <2>5. CASE \E m \in net.append_req :
                m.leader_id = l /\ m.to = p /\ m.term = sm[l].current_term
    BY <2>1, <2>2, <2>5 DEF Heard
  <2>6. CASE /\ sm[p].current_term = sm[l].current_term /\ sm[p].leader_id = l
             /\ unheard[p] \in 0 .. heartbeat_interval - heartbeat_deadline[l]
    <3>1. CASE sm'[p].current_term > sm[p].current_term
      BY <2>1, <2>6, <3>1 DEF Heard
    <3>2. CASE sm'[p].current_term = sm[p].current_term /\ sm'[p].leader_id = sm[p].leader_id
      BY <2>1, <2>6, <3>2 DEF Heard
    <3>3. CASE /\ sm'[p].current_term = sm[p].current_term
               /\ p = n /\ sm'[n].role = "Leader"
      <4>1. <<sm'[l].current_term, n>> \in leaders' /\ <<sm'[l].current_term, l>> \in leaders'
        BY <2>1, <2>6, <3>3 DEF LeadersRecorded
      <4>2. \A x, y \in leaders' : x[1] = y[1] => x[2] = y[2]
        BY DEF ElectionSafety
      <4>3. n = l
        BY <4>1, <4>2, OneLeads
      <4> QED  BY <1>5, <4>3
    <3> QED  BY <1>1, <2>3, <3>1, <3>2, <3>3
  <2> QED  BY <2>1, <2>4, <2>5, <2>6 DEF Heard
<1> QED  BY <1>3, <1>4, <1>5

\* An AppendEntries arrives.
LEMMA ListensHeard ==
    ASSUME TypeInv, TypeInv', LeaderInv, ElectionSafety, ClocksOK, BeatInv,
           NEW n \in Server, NEW m \in net.append_req, OthersStay(n), Listens(n, m),
           unheard' = IF m.term >= sm[n].current_term THEN [unheard EXCEPT ![n] = 0] ELSE unheard,
           heartbeat_deadline' = heartbeat_deadline,
           NEW l \in Server, NEW p \in Server, p # l, sm'[l].role = "Leader"
    PROVE  Heard(l, p)'
<1>1. /\ \A q \in Server : sm[q].current_term \in Nat /\ sm'[q].current_term \in Nat
      /\ m.term \in Nat /\ m.leader_id \in Sender
  BY RequestFields DEF TypeInv, TypeOK, StateMachine
<1>2. /\ sm[l].role = "Leader" /\ sm'[l].current_term = sm[l].current_term
      /\ Heard(l, p)
  <2>1. sm[l].role = "Leader" /\ sm'[l].current_term = sm[l].current_term
    BY DEF Listens, OthersStay
  <2> QED  BY <2>1 DEF BeatInv
<1>3. unheard \in [Server -> Int]
  BY DEF BeatInv
<1>4. 0 \in 0 .. heartbeat_interval - heartbeat_deadline[l]
  <2>1. heartbeat_deadline[l] \in 0 .. heartbeat_interval
    BY DEF ClocksOK
  <2> QED  BY <2>1, ConfigAssumption
<1>5. CASE p # n
  <2>1. sm'[p] = sm[p] /\ unheard'[p] = unheard[p]
    BY <1>3, <1>5 DEF OthersStay
  <2>2. \A x \in net.append_req : x.to = p => x \in net'.append_req
    BY <1>5 DEF Listens
  <2> QED  BY <1>2, <2>1, <2>2 DEF Heard
<1>6. CASE p = n /\ m.term < sm[n].current_term /\ sm' = sm
  <2>1. unheard' = unheard
    BY <1>1, <1>6
  <2>2. CASE \E x \in net.append_req :
                x.leader_id = l /\ x.to = p /\ x.term = sm[l].current_term
    BY <1>2, <1>6, <2>2 DEF Heard, Listens
  <2> QED  BY <1>2, <1>6, <2>1, <2>2 DEF Heard
<1>7. CASE p = n /\ m.term >= sm[n].current_term
  <2>1. /\ sm'[n].current_term = m.term /\ sm'[n].leader_id = m.leader_id
        /\ unheard'[n] = 0
    BY <1>1, <1>3, <1>7 DEF Listens
  <2>2. CASE m.term > sm[l].current_term
    BY <1>2, <1>7, <2>1, <2>2 DEF Heard
  <2>3. CASE m.term = sm[l].current_term
    <3>1. <<sm[l].current_term, m.leader_id>> \in leaders /\ <<sm[l].current_term, l>> \in leaders
      BY <1>2, <2>3 DEF LeaderInv, RequestsFromLeaders, LeadersRecorded
    <3>2. \A x, y \in leaders : x[1] = y[1] => x[2] = y[2]
      BY DEF ElectionSafety
    <3>3. m.leader_id = l
      BY <3>1, <3>2, OneLeads
    <3> QED  BY <1>2, <1>4, <1>7, <2>1, <2>3, <3>3 DEF Heard
  <2>4. CASE m.term < sm[l].current_term
    <3>1. \E x \in net.append_req : x.leader_id = l /\ x.to = p /\ x.term = sm[l].current_term
      BY <1>1, <1>2, <1>7, <2>4 DEF Heard
    <3>2. \E x \in net'.append_req : x.leader_id = l /\ x.to = p /\ x.term = sm[l].current_term
      BY <1>1, <2>4, <3>1 DEF Listens
    <3> QED  BY <1>2, <3>2 DEF Heard
  <2> QED  BY <1>1, <2>2, <2>3, <2>4
<1> QED  BY <1>5, <1>6, <1>7 DEF Listens

\* What is known of the nodes and their clocks by now.
Known == AlignInv /\ LeaderInv /\ ClocksOK /\ ElectionSafety

\* A loop that went round sleeps until its deadline, so a leader's until the next
\* heartbeat.
LEMMA WakesStep ==
    ASSUME TypeInv, ClocksOK, ClocksOK', LeadersWake, [TimedNext]_timedVars
    PROVE  LeadersWake'
<1>1. ASSUME NEW n \in Server, Sleeps(n), \A p \in Server \ {n} : sm'[p] = sm[p],
             \A p \in Server \ {n} : heartbeat_deadline'[p] = heartbeat_deadline[p]
      PROVE  LeadersWake'
  <2>1. wake'[n] = deadline(sm'[n], election_deadline'[n], heartbeat_deadline'[n])
    BY <1>1 DEF Sleeps, ClocksOK
  <2>2. \A p \in Server \ {n} : wake'[p] = wake[p]
    BY <1>1 DEF Sleeps, ClocksOK
  <2> QED  BY <1>1, <2>1, <2>2 DEF LeadersWake, deadline
<1>2. ASSUME NEW n \in Server, timeout(n) PROVE LeadersWake'
  <2>1. \A p \in Server \ {n} : sm'[p] = sm[p]
    BY <1>2, OnlyOneMoves DEF timeout, vars
  <2>2. \A p \in Server \ {n} : heartbeat_deadline'[p] = heartbeat_deadline[p]
    BY <1>2 DEF timeout, ClocksOK
  <2>3. Sleeps(n)
    BY <1>2 DEF timeout
  <2> QED  BY <1>1, <2>1, <2>2, <2>3
<1>3. ASSUME NEW n \in Server, message(n) PROVE LeadersWake'
  <2>1. \A p \in Server \ {n} : sm'[p] = sm[p]
    BY <1>3, OnlyOneMoves DEF message
  <2>2. Sleeps(n) /\ heartbeat_deadline' = heartbeat_deadline
    BY <1>3 DEF message
  <2> QED  BY <1>1, <2>1, <2>2
<1>4. ASSUME NEW n \in Server, rpc(n) PROVE LeadersWake'
  <2>1. \A p \in Server : sm'[p].role = "Leader" => sm[p].role = "Leader"
    BY <1>4, RpcRoles
  <2>2. wake' = wake /\ heartbeat_deadline' = heartbeat_deadline
    BY <1>4 DEF rpc, clocks
  <2> QED  BY <2>1, <2>2 DEF LeadersWake
<1>5. CASE Tick
  <2>1. sm' = sm
    BY <1>5 DEF Tick, Elapse, vars
  <2>2. \A p \in Server : wake[p] = heartbeat_deadline[p] => wake'[p] = heartbeat_deadline'[p]
    BY <1>5 DEF Tick, Elapse
  <2> QED  BY <2>1, <2>2 DEF LeadersWake
<1>6. CASE UNCHANGED timedVars
  BY <1>6 DEF timedVars, vars, clocks, LeadersWake
<1> QED  BY <1>2, <1>3, <1>4, <1>5, <1>6 DEF TimedNext

\* A heartbeat reaches everyone within its instant, so no follower goes without
\* one for longer than the interval.
LEMMA BeatStep ==
    ASSUME Links = Server \X Server, Known, Known', BeatInv, [TimedNext]_timedVars
    PROVE  BeatInv'
<1> DEFINE AllHeard == \A l, p \in Server : sm[l].role = "Leader" /\ p # l => Heard(l, p)
<1>1. /\ TypeInv /\ TypeInv' /\ ClocksOK /\ ClocksOK' /\ LeaderInv /\ LeaderInv'
      /\ ElectionSafety /\ ElectionSafety' /\ LeadersRecorded'
      /\ \A n \in Server : Whole(store[n]) /\ Whole(store'[n])
  BY DEF Known, AlignInv, LeaderInv
<1>2. LeadersWake'
  BY <1>1, WakesStep DEF BeatInv
<1>3. unheard \in [Server -> Int] /\ Spread /\ LeadersWake /\ AllHeard
  BY DEF BeatInv
<1>4. ASSUME NEW n \in Server, TermsFrom(n), Speaks(n), unheard' = unheard,
             \/ heartbeat_deadline' = heartbeat_deadline
             \/ /\ heartbeat_deadline' = [heartbeat_deadline EXCEPT ![n] = heartbeat_interval]
                /\ sm'[n].role = "Leader" => Reaches(n)
      PROVE  BeatInv'
  <2>1. Spread'
    BY <1>1, <1>3, <1>4, SpreadStep
  <2>2. OthersStay(n)
    BY <1>4 DEF TermsFrom
  <2>3. AllHeard'
    BY <1>1, <1>4, <2>2, SpeaksHeard
  <2> QED  BY <1>2, <1>3, <1>4, <2>1, <2>3 DEF BeatInv
<1>5. ASSUME NEW n \in Server, NEW m \in net.append_req, on_append_entries(n, m),
             unheard' = IF m.term >= sm[n].current_term THEN [unheard EXCEPT ![n] = 0] ELSE unheard,
             heartbeat_deadline' = heartbeat_deadline
      PROVE  BeatInv'
  <2>1. TermsFrom(n) /\ Listens(n, m)
    BY <1>1, <1>5, OnAppendEntriesListens
  <2>2. Spread'
    BY <1>1, <1>3, <2>1, SpreadStep
  <2>3. OthersStay(n)
    BY <2>1 DEF TermsFrom
  <2>4. AllHeard'
    BY <1>1, <1>5, <2>1, <2>3, ListensHeard
  <2>5. unheard' \in [Server -> Int]
    BY <1>3, <1>5
  <2> QED  BY <1>2, <2>2, <2>4, <2>5 DEF BeatInv
<1>6. CASE Tick
  <2>1. sm' = sm /\ net' = net /\ net = NoRpcs
    BY <1>6 DEF Tick, Elapse, vars
  <2>2. Spread'
    BY <1>3, <2>1 DEF Spread, Rpcs, Covered
  <2>3. unheard' \in [Server -> Int]
    BY <1>3, <1>6, ConfigAssumption DEF Tick, Elapse
  <2>4. ASSUME NEW l \in Server, NEW p \in Server, sm'[l].role = "Leader", p # l
        PROVE  Heard(l, p)'
    <3>1. /\ sm[p].current_term = sm[l].current_term /\ sm[p].leader_id = l
          /\ unheard[p] \in 0 .. heartbeat_interval - heartbeat_deadline[l]
      BY <1>1, <2>1, <2>4, Quiet
    <3>2. /\ heartbeat_deadline[l] \in 0 .. heartbeat_interval /\ heartbeat_deadline[l] > 0
          /\ unheard[p] \in Int
      BY <1>1, <1>3, <1>6, <2>1, <2>4 DEF ClocksOK, LeadersWake, Tick, Elapse
    <3>3. heartbeat_deadline'[l] = heartbeat_deadline[l] - 1
      BY <1>6, <3>2 DEF Tick, Elapse
    <3>4. unheard[p] \in 0 .. election_timeout_min - 1
      BY <3>1, <3>2, ConfigAssumption
    <3>5. unheard'[p] = unheard[p] + 1
      BY <1>6, <3>4 DEF Tick, Elapse
    <3>6. unheard'[p] \in 0 .. heartbeat_interval - heartbeat_deadline'[l]
      BY <3>1, <3>2, <3>3, <3>5, ConfigAssumption
    <3> QED  BY <2>1, <3>1, <3>6 DEF Heard
  <2> QED  BY <1>2, <2>2, <2>3, <2>4 DEF BeatInv
<1>7. ASSUME UNCHANGED <<sm, net, heartbeat_deadline, unheard>> PROVE BeatInv'
  <2>1. Spread'
    BY <1>3, <1>7 DEF Spread, Rpcs, Covered
  <2>2. AllHeard'
    BY <1>3, <1>7 DEF Heard
  <2> QED  BY <1>2, <1>3, <1>7, <2>1, <2>2 DEF BeatInv
<1>8. ASSUME NEW n \in Server, timeout(n) PROVE BeatInv'
  <2>1. CASE /\ start_election(n)
             /\ heartbeat_deadline' = [heartbeat_deadline EXCEPT ![n] = heartbeat_interval]
    BY <1>1, <1>4, <1>8, <2>1, StartElectionSpeaks DEF timeout
  <2>2. CASE /\ heartbeat(n)
             /\ heartbeat_deadline' = [heartbeat_deadline EXCEPT ![n] = heartbeat_interval]
    BY <1>1, <1>4, <1>8, <2>2, HeartbeatSpeaks DEF timeout
  <2>3. CASE UNCHANGED <<vars, heartbeat_deadline>>
    BY <1>7, <1>8, <2>3 DEF timeout, vars
  <2> QED  BY <1>8, <2>1, <2>2, <2>3 DEF timeout
<1>9. ASSUME NEW n \in Server, message(n) PROVE BeatInv'
  <2>1. unheard' = unheard /\ heartbeat_deadline' = heartbeat_deadline
    BY <1>9 DEF message
  <2>2. ASSUME NEW cmd \in Command, on_proposal(n, cmd) PROVE BeatInv'
    BY <1>1, <1>4, <2>1, <2>2, OnProposalSpeaks
  <2>3. ASSUME NEW m \in net.vote_resp, handle_vote_response(n, m) PROVE BeatInv'
    BY <1>1, <1>4, <2>1, <2>3, HandleVoteResponseSpeaks
  <2>4. ASSUME NEW m \in net.append_resp, handle_append_response(n, m) PROVE BeatInv'
    BY <1>1, <1>4, <2>1, <2>4, HandleAppendResponseSpeaks
  <2> QED  BY <1>9, <2>2, <2>3, <2>4 DEF message
<1>10. ASSUME NEW n \in Server, rpc(n) PROVE BeatInv'
  <2>1. heartbeat_deadline' = heartbeat_deadline
    BY <1>10 DEF rpc, clocks
  <2>2. ASSUME NEW m \in net.vote_req, on_request_vote(n, m), unheard' = unheard PROVE BeatInv'
    BY <1>1, <1>4, <2>1, <2>2, OnRequestVoteSpeaks
  <2> QED  BY <1>5, <1>10, <2>1, <2>2 DEF rpc
<1>11. CASE UNCHANGED timedVars
  BY <1>7, <1>11 DEF timedVars, vars, clocks
<1> QED  BY <1>6, <1>8, <1>9, <1>10, <1>11 DEF TimedNext

\* Over a network without faults or delays (an RPC is over within its tick) the election
\* timeout RaftConfig::validate demands, longer than the heartbeat interval, is long
\* enough: whenever time goes on with a
\* leader in the cluster, every other node is in its term, follows it and has
\* heard from it within the heartbeat interval (replicate_all on the heartbeat
\* deadline and on election, on_append_entries).  The invariant behind it says
\* where a leader's word is: no term is known to one node without a RequestVote on
\* its way to the others, and each follower has moved on to a later term, has an
\* AppendEntries coming, or has heard since the leader's deadline was last set.
THEOREM FollowersHear ==
    ASSUME ~ServeBeforeRestore, ~AppSnapshots, ZeroId \notin Server, Links = Server \X Server
    PROVE  TimedSpec => []LeaderHeard
<1>1. TimedInit => BeatInv
  <2> SUFFICES ASSUME TimedInit PROVE BeatInv
    OBVIOUS
  <2>1. \A n \in Server : sm[n].role = "Follower" /\ sm[n].current_term = 0
    BY DEF TimedInit, Init, new_state
  <2>2. Rpcs = {}
    BY DEF TimedInit, Init, NoRpcs, Rpcs
  <2>3. Spread
    BY <2>1, <2>2 DEF Spread, Covered
  <2>4. unheard \in [Server -> Int]
    BY DEF TimedInit
  <2> QED  BY <2>1, <2>3, <2>4 DEF BeatInv, LeadersWake
<1>2. Known /\ Known' /\ BeatInv /\ [TimedNext]_timedVars => BeatInv'
  BY BeatStep
<1>3. TimedSpec => []Known
  <2>1. TimedSpec => [](AlignInv /\ LeaderInv)
    BY ClocksOnlyRestrict, AlignInvariant, LeaderInvariant, PTL
  <2>2. TimedSpec => []TimelyInv
    BY TimelyInvariant
  <2>3. TimelyInv => ClocksOK /\ ElectionSafety
    BY OneLeaderPerTerm DEF TimelyInv
  <2>4. AlignInv /\ LeaderInv /\ ClocksOK /\ ElectionSafety => Known
    BY DEF Known
  <2> QED  BY <2>1, <2>2, <2>3, <2>4, PTL
<1>4. Known /\ BeatInv => LeaderHeard
  <2> SUFFICES ASSUME Known, BeatInv, net = NoRpcs, NEW l \in Server, NEW p \in Server,
                      sm[l].role = "Leader", p # l
               PROVE  /\ sm[p].current_term = sm[l].current_term /\ sm[p].leader_id = l
                      /\ unheard[p] \in 0 .. heartbeat_interval
    BY DEF LeaderHeard
  <2>1. TypeInv /\ ClocksOK
    BY DEF Known, LeaderInv
  <2>2. /\ sm[p].current_term = sm[l].current_term /\ sm[p].leader_id = l
        /\ unheard[p] \in 0 .. heartbeat_interval - heartbeat_deadline[l]
    BY <2>1, Quiet
  <2>3. heartbeat_deadline[l] \in 0 .. heartbeat_interval
    BY <2>1 DEF ClocksOK
  <2> QED  BY <2>2, <2>3, ConfigAssumption
<1> QED  BY <1>1, <1>2, <1>3, <1>4, PTL DEF TimedSpec

=============================================================================
