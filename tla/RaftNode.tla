------------------------------ MODULE RaftNode ------------------------------
(***************************************************************************)
(* iceraft-node/src/node.rs: a cluster of RaftNodes, each with its storage,*)
(* connected by unary RPCs.                                                *)
(*                                                                         *)
(* Every handler runs under the node's tokio Mutex, so a handler is one    *)
(* action.  An RPC is a spawned task: it sends its request once, awaits    *)
(* the answer and forwards it to the event loop of the incarnation that    *)
(* sent it; a task that fails drops the answer.  Tasks are independent, so *)
(* requests and answers overtake each other freely, and an RPC that is     *)
(* lost is one that is never delivered.                                    *)
(***************************************************************************)
EXTENDS MemStorage, RaftStateMachine

CONSTANTS
    Command,    \* payloads clients propose, each at most once
    ZeroId,     \* the node id whose u64 value is 0, HardState's "no vote"
    MaxBatch,   \* how many commands fit the byte budget of one AppendEntries
    \* --- what the environment may do ---
    LateResponses,      \* an answer may arrive after its sender's term moved on
    RedundantRpcs,      \* a leader's RPC to a peer may be sent while an earlier
                        \* one is still outstanding
    ServeBeforeRestore, \* RPCs may reach a node before its loop restored HardState
    AppSnapshots,       \* the application may compact its node's log
    Links,              \* <<n, p>>: RPCs from n reach p; the others all fail
    \* --- bounds ---
    Elections,    \* <<n, t>>: node n may start the election of term t
    MaxRestarts,  \* restarts per node
    Faulty        \* nodes that may be shut down or restarted

ASSUME ConstantsAssumption ==
    /\ IsFiniteSet(Server) /\ Server # {}
    /\ None \notin Server /\ ZeroId # None
    /\ MaxBatch \in Nat \ {0}
    /\ LateResponses \in BOOLEAN /\ RedundantRpcs \in BOOLEAN
    /\ ServeBeforeRestore \in BOOLEAN /\ AppSnapshots \in BOOLEAN
    /\ Links \subseteq Server \X Server
    /\ Elections \subseteq Server \X Nat
    /\ MaxRestarts \in Nat /\ Faulty \subseteq Server

VARIABLES
    sm,          \* sm[n]: the RaftStateMachine of node n (volatile)
    store,       \* store[n]: its Storage (survives restarts)
    pending,     \* pending[n]: proposals of n whose callers still wait
    phase,       \* phase[n]: start() called / event loop running / loop ended
    incarnation, \* incarnation[n]: how often n was restarted on its storage
    net,         \* the RPCs in flight, a set per kind of request and answer
    applied,     \* applied[n]: what n sent on apply_tx, in order
    acked,       \* proposals whose callers were told Ok(index)
    proposed,    \* commands some leader accepted
    \* history variables, read by properties only
    votes,       \* <<voter, term, candidate>> for every vote granted
    leaders,     \* <<term, node>> for every election won
    committed    \* [term, entry] for every entry a leader of term committed

nodeVars == <<sm, store, pending, phase, incarnation, applied>>
clientVars == <<acked, proposed>>
history == <<votes, leaders, committed>>
vars == <<sm, store, pending, phase, incarnation, net, applied, acked, proposed,
          votes, leaders, committed>>

\* The members of config.peers that n's RPCs reach.
Peers(n) == {p \in Server \ {n} : <<n, p>> \in Links}

\* save_hard_state writes these: voted_for.unwrap_or(0).
hard_state_of(s) == [
    term   |-> s.current_term,
    vote   |-> IF s.voted_for = None THEN ZeroId ELSE s.voted_for,
    commit |-> s.commit_index]

Saved(st, s) == save_hard_state(st, hard_state_of(s))

EmptyStore == [
    hard_state |-> [term |-> 0, vote |-> ZeroId, commit |-> 0],
    entries    |-> <<>>,
    snapshot   |-> NoSnapshot]

NoRpcs == [vote_req |-> {}, vote_resp |-> {}, append_req |-> {},
           append_resp |-> {}, snap_req |-> {}, snap_resp |-> {}]

-----------------------------------------------------------------------------
(* The network.                                                            *)

\* The gRPC server hands requests to the node's handlers as soon as start()
\* returned; shutting the event loop down does not stop them.  A node whose
\* storage lost its alignment is not followed further: from there its reads
\* are out of range.
Serving(n) ==
    /\ phase[n] # "starting" \/ ServeBeforeRestore
    /\ Aligned(store[n])

\* An answer reaches the event loop that sent the request.
Hears(n, m) ==
    /\ m.to = n
    /\ phase[n] = "running"
    /\ m.incarnation = incarnation[n]
    /\ LateResponses \/ m.term >= sm[n].current_term
    /\ Aligned(store[n])

\* With redundant RPCs an element of a set of replication messages stands for
\* any number of equal ones: the leader sends the same request again at every
\* heartbeat, and every copy is answered.  Delivering one leaves the others.
Rest(S, m) == IF RedundantRpcs THEN S ELSE S \ {m}

\* Without redundant RPCs a new RPC to a peer cancels the outstanding one and its
\* answer.  That is the environment's doing: replicate_to spawns a task for every
\* RPC and cancels none.
Outstanding(nt, n) ==
    IF RedundantRpcs THEN nt
    ELSE [nt EXCEPT !.append_req  = {m \in @ : m.leader_id # n},
                    !.snap_req    = {m \in @ : m.leader_id # n},
                    !.append_resp = {m \in @ : m.to # n},
                    !.snap_resp   = {m \in @ : m.to # n}]

vote_request(n, s, st, p) == [
    candidate_id   |-> n,
    to             |-> p,
    incarnation    |-> incarnation[n],
    term           |-> s.current_term,
    last_log_index |-> last_index(st),
    last_log_term  |-> term_or_zero(st, last_index(st))]

append_request(n, s, st, p) ==
    LET next == s.progress[p].next_index IN [
        leader_id      |-> n,
        to             |-> p,
        incarnation    |-> incarnation[n],
        term           |-> s.current_term,
        prev_log_index |-> next - 1,
        prev_log_term  |-> term_or_zero(st, next - 1),
        entries        |-> IF last_index(st) >= next
                           THEN entries(st, next, last_index(st) + 1, MaxBatch)
                           ELSE <<>>,
        leader_commit  |-> s.commit_index]

snapshot_request(n, s, st, p) == [
    leader_id   |-> n,
    to          |-> p,
    incarnation |-> incarnation[n],
    term        |-> s.current_term,
    snapshot    |-> st.snapshot]

\* replicate_to reads entries(next_index, ..) and gets LogCompacted.
NeedsSnapshot(s, st, p) ==
    /\ last_index(st) >= s.progress[p].next_index
    /\ EntriesCompacted(st, s.progress[p].next_index)

\* Slip: peers that lack nothing are not sent to.
SendsOnlyEntries(nt, n, s, st) ==
    LET behind == {p \in Peers(n) : last_index(st) >= s.progress[p].next_index}
    IN  [Outstanding(nt, n) EXCEPT
            !.append_req = @ \cup {append_request(n, s, st, p) : p \in behind}]

\* replicate_all: one AppendEntries or InstallSnapshot per peer.
replicate_all(nt, n, s, st) ==
    LET behind == {p \in Peers(n) : NeedsSnapshot(s, st, p)}
    IN  [Outstanding(nt, n) EXCEPT
            !.append_req = @ \cup {append_request(n, s, st, p) : p \in Peers(n) \ behind},
            !.snap_req   = @ \cup {snapshot_request(n, s, st, p) : p \in behind}]

-----------------------------------------------------------------------------
(* Elections.                                                              *)

\* The election deadline passed.  Nothing but starting an election moves that
\* deadline, so it may pass in any state of a node that does not lead.
start_election(n) ==
    LET s   == become_candidate(sm[n], n)
        won == Cardinality(s.votes_received) >= quorum
        l   == become_leader(s, n, last_index(store[n]))
        nt  == [net EXCEPT !.vote_req =
                   @ \cup {vote_request(n, s, store[n], p) : p \in Peers(n)}]
    IN  /\ <<n, s.current_term>> \in Elections
        /\ phase[n] = "running" /\ Aligned(store[n])
        /\ sm[n].role # "Leader"
        /\ store' = [store EXCEPT ![n] = Saved(@, s)]
        /\ votes' = votes \cup {<<n, s.current_term, n>>}
        /\ \/ /\ won
              /\ sm' = [sm EXCEPT ![n] = l]
              /\ leaders' = leaders \cup {<<s.current_term, n>>}
              /\ net' = replicate_all(nt, n, l, store[n])
           \/ /\ ~won
              /\ sm' = [sm EXCEPT ![n] = s]
              /\ net' = nt
              /\ UNCHANGED leaders
        /\ UNCHANGED <<pending, phase, incarnation, applied, acked, proposed, committed>>

\* Slip: any other term is taken over.
ObserveAny(s, t, leader) ==
    IF t # s.current_term THEN become_follower(s, t, leader) ELSE s

\* The state after "step down if we see a higher term".
Observe(s, t, leader) ==
    IF t > s.current_term THEN become_follower(s, t, leader) ELSE s

\* Slip: the new term is not saved.
ObserveUnsaved(st, s, t, leader) == st

\* ... and the storage, where stepping down is saved at once.
ObserveStore(st, s, t, leader) ==
    IF t > s.current_term THEN Saved(st, become_follower(s, t, leader)) ELSE st

\* Slip: the longer log is taken for the more recent one.
LongerLogOk(st, m) == m.last_log_index >= last_index(st)

CandidateLogOk(st, m) ==
    LET our_last_term == term_or_zero(st, last_index(st))
    IN  \/ m.last_log_term > our_last_term
        \/ m.last_log_term = our_last_term /\ m.last_log_index >= last_index(st)

on_request_vote(n, m) ==
    LET s  == Observe(sm[n], m.term, None)
        st == ObserveStore(store[n], sm[n], m.term, None)
        Reply(granted) == [net EXCEPT
            !.vote_req  = @ \ {m},
            !.vote_resp = @ \cup {[peer |-> n, to |-> m.candidate_id,
                                   incarnation |-> m.incarnation,
                                   term |-> s.current_term, vote_granted |-> granted]}]
        granting == /\ m.term >= s.current_term
                    /\ s.voted_for \in {None, m.candidate_id}
                    /\ CandidateLogOk(st, m)
        v == [s EXCEPT !.voted_for = m.candidate_id]
    IN  /\ m.to = n /\ Serving(n)
        /\ \/ /\ granting
              /\ sm' = [sm EXCEPT ![n] = v]
              /\ store' = [store EXCEPT ![n] = Saved(st, v)]
              /\ votes' = votes \cup {<<n, m.term, m.candidate_id>>}
              /\ net' = Reply(TRUE)
           \/ /\ ~granting
              /\ sm' = [sm EXCEPT ![n] = s]
              /\ store' = [store EXCEPT ![n] = st]
              /\ net' = Reply(FALSE)
              /\ UNCHANGED votes
        /\ UNCHANGED <<pending, phase, incarnation, applied, clientVars, leaders, committed>>

\* A step-down triggered by the term of an answer (all three kinds).
StepDown(n, m) ==
    /\ m.term > sm[n].current_term
    /\ sm' = [sm EXCEPT ![n] = become_follower(@, m.term, None)]
    /\ store' = [store EXCEPT ![n] = Saved(@, sm'[n])]

\* A granted vote counts whatever term it was granted in.
handle_vote_response(n, m) ==
    LET s  == [sm[n] EXCEPT !.votes_received = @ \cup {m.peer}]
        l  == become_leader(s, n, last_index(store[n]))
        nt == [net EXCEPT !.vote_resp = @ \ {m}]
        counts == m.vote_granted /\ sm[n].role = "Candidate"
        won == Cardinality(s.votes_received) >= quorum
    IN  /\ Hears(n, m)
        /\ \/ /\ StepDown(n, m)
              /\ net' = nt
              /\ UNCHANGED leaders
           \/ /\ m.term <= sm[n].current_term
              /\ counts /\ won
              /\ sm' = [sm EXCEPT ![n] = l]
              /\ leaders' = leaders \cup {<<l.current_term, n>>}
              /\ net' = replicate_all(nt, n, l, store[n])
              /\ UNCHANGED store
           \/ /\ m.term <= sm[n].current_term
              /\ ~(counts /\ won)
              /\ sm' = IF counts THEN [sm EXCEPT ![n] = s] ELSE sm
              /\ net' = nt
              /\ UNCHANGED <<store, leaders>>
        /\ UNCHANGED <<pending, phase, incarnation, applied, clientVars, votes, committed>>

-----------------------------------------------------------------------------
(* Replication: the follower.                                              *)

\* Slip: the term of the entry before is not compared.
ConsistentAnyTerm(st, m) ==
    \/ m.prev_log_index = 0
    \/ ~LogUnavailable(st, m.prev_log_index)

\* The entry before the new ones is there, or a snapshot covers it.
Consistent(st, m) ==
    \/ m.prev_log_index = 0
    \/ LogCompacted(st, m.prev_log_index)
    \/ /\ ~LogCompacted(st, m.prev_log_index)
       /\ ~LogUnavailable(st, m.prev_log_index)
       /\ term(st, m.prev_log_index) = m.prev_log_term

\* The index the binary search of first_index_of_term ends at: its left
\* neighbour holds a smaller term, and it does not itself, unless the search
\* reached the end of its range.  In a log whose terms never decrease there is
\* exactly one such index.
IsFirstIndexOfTerm(st, t, upper, i) ==
    LET Smaller(k) == /\ ~LogCompacted(st, k) /\ ~LogUnavailable(st, k)
                      /\ term(st, k) < t
    IN  IF first_index(st) >= upper THEN i = first_index(st)
        ELSE /\ i \in first_index(st) .. upper
             /\ i > first_index(st) => Smaller(i - 1)
             /\ i < upper => ~Smaller(i)

\* Slip: off by one in req_last_index.
AckBeyond(n, m, t, success, conflict_index) == [
    peer |-> n, to |-> m.leader_id, incarnation |-> m.incarnation,
    term |-> t, success |-> success, conflict_index |-> conflict_index,
    req_last_index |-> m.prev_log_index + Len(m.entries) + 1]

\* Slip: the index after the missing entry is reported.
ConflictBeyond(n, m, t, success, conflict_index) == [
    peer |-> n, to |-> m.leader_id, incarnation |-> m.incarnation,
    term |-> t, success |-> success,
    conflict_index |-> IF conflict_index > 0 THEN conflict_index + 1 ELSE 0,
    req_last_index |-> m.prev_log_index + Len(m.entries)]

append_response(n, m, t, success, conflict_index) == [
    peer |-> n, to |-> m.leader_id, incarnation |-> m.incarnation,
    term |-> t, success |-> success, conflict_index |-> conflict_index,
    req_last_index |-> m.prev_log_index + Len(m.entries)]

\* leader_commit.min(last)
commit_bound(st, m) ==
    IF m.leader_commit <= last_index(st) THEN m.leader_commit ELSE last_index(st)

\* A node that is a candidate of the request's term stays one; only a higher
\* term makes it a follower.
on_append_entries(n, m) ==
    LET s  == [Observe(sm[n], m.term, m.leader_id) EXCEPT !.leader_id = m.leader_id]
        st == ObserveStore(store[n], sm[n], m.term, m.leader_id)
        appended == IF m.entries = <<>> THEN st ELSE append_entries(st, m.entries)
        panics == m.entries # <<>> /\ AppendUnderflows(st, m.entries) /\ OverflowChecks
        commits == m.leader_commit > s.commit_index
        c == [s EXCEPT !.commit_index = commit_bound(appended, m)]
        Stale == m.term < sm[n].current_term
        Missing == m.prev_log_index > 0 /\ LogUnavailable(st, m.prev_log_index)
        Reply(success, i) == {append_response(n, m, s.current_term, success, i)}
        Answer(resps) ==
            net' = [net EXCEPT !.append_req = Rest(@, m), !.append_resp = @ \cup resps]
    IN  /\ m.to = n /\ Serving(n)
        /\ \/ /\ Stale
              /\ Answer(Reply(FALSE, 0))
              /\ UNCHANGED <<sm, store>>
           \/ /\ ~Stale /\ Missing
              /\ sm' = [sm EXCEPT ![n] = s]
              /\ store' = [store EXCEPT ![n] = st]
              /\ Answer(Reply(FALSE, m.prev_log_index))
           \/ /\ ~Stale /\ ~Missing /\ ~Consistent(st, m)
              /\ sm' = [sm EXCEPT ![n] = s]
              /\ store' = [store EXCEPT ![n] = st]
              /\ \E i \in 1 .. first_index(st) + m.prev_log_index :
                    /\ IsFirstIndexOfTerm(st, term(st, m.prev_log_index), m.prev_log_index, i)
                    /\ Answer(Reply(FALSE, i))
           \/ /\ ~Stale /\ Consistent(st, m) /\ panics
              /\ sm' = [sm EXCEPT ![n] = s]
              /\ store' = [store EXCEPT ![n] = st]
              /\ Answer({})
           \/ /\ ~Stale /\ Consistent(st, m) /\ ~panics
              /\ sm' = [sm EXCEPT ![n] = IF commits THEN c ELSE s]
              /\ store' = [store EXCEPT ![n] = IF commits THEN Saved(appended, c) ELSE appended]
              /\ Answer(Reply(TRUE, 0))
        /\ UNCHANGED <<pending, phase, incarnation, applied, clientVars, history>>

\* The only sender of snapshots sends them whole (done = true), so the chunk
\* buffer is empty between handlers.
on_install_snapshot(n, m) ==
    LET s  == Observe(sm[n], m.term, m.leader_id)
        st == ObserveStore(store[n], sm[n], m.term, m.leader_id)
        AtLeast(i) == IF i >= m.snapshot.last_included_index
                      THEN i ELSE m.snapshot.last_included_index
        installed == [s EXCEPT !.commit_index = AtLeast(@), !.last_applied = AtLeast(@)]
        resp == [peer |-> n, to |-> m.leader_id, incarnation |-> m.incarnation,
                 term |-> s.current_term,
                 req_last_index |-> m.snapshot.last_included_index]
    IN  /\ m.to = n /\ Serving(n)
        /\ \/ /\ m.term < sm[n].current_term
              /\ UNCHANGED <<sm, store>>
           \/ /\ m.term >= sm[n].current_term
              /\ sm' = [sm EXCEPT ![n] = installed]
              /\ store' = [store EXCEPT ![n] = Saved(apply_snapshot(st, m.snapshot), installed)]
        /\ net' = [net EXCEPT !.snap_req = Rest(@, m), !.snap_resp = @ \cup {resp}]
        /\ UNCHANGED <<pending, phase, incarnation, applied, clientVars, history>>

-----------------------------------------------------------------------------
(* Replication: the leader.                                                *)

\* Slip: the log ends where the committed part ends.
EntryAfterCommit(n, cmd) ==
    [term |-> sm[n].current_term, index |-> sm[n].commit_index + 1, data |-> cmd]

new_entry(n, cmd) ==
    [term |-> sm[n].current_term, index |-> last_index(store[n]) + 1, data |-> cmd]

on_proposal(n, cmd) ==
    LET e  == new_entry(n, cmd)
        st == append_entries(store[n], <<e>>)
    IN  /\ phase[n] = "running" /\ Aligned(store[n])
        /\ sm[n].role = "Leader"        \* otherwise the caller gets NotLeader
        /\ cmd \notin proposed
        /\ store' = [store EXCEPT ![n] = st]
        /\ pending' = [pending EXCEPT ![n] = @ \cup {[index |-> e.index, command |-> cmd]}]
        /\ proposed' = proposed \cup {cmd}
        /\ net' = replicate_all(net, n, sm[n], st)
        /\ UNCHANGED <<sm, phase, incarnation, applied, acked, history>>

\* Slip: entries of earlier terms are committed by counting replicas.
CommitsAnyTerm(s, st, c) ==
    /\ c = s.commit_index \/ replicated(s, c) >= quorum
    /\ \A i \in s.commit_index + 1 .. last_index(st) : i > c => replicated(s, i) < quorum

\* Slip: the leader's own copy is not counted.
CommitsBeyondQuorum(s, st, c) ==
    LET Committable(i) == /\ term_or_zero(st, i) = s.current_term
                          /\ replicated(s, i) > quorum
    IN  /\ c = s.commit_index \/ Committable(c)
        /\ \A i \in s.commit_index + 1 .. last_index(st) : i > c => ~Committable(i)

\* The index maybe_advance_commit's downward walk stops at: the highest index
\* above commit_index that is of the current term and on a quorum, or
\* commit_index itself.
IsNewCommit(s, st, c) ==
    LET Committable(i) == /\ term_or_zero(st, i) = s.current_term
                          /\ replicated(s, i) >= quorum
    IN  /\ c = s.commit_index \/ Committable(c)
        /\ \A i \in s.commit_index + 1 .. last_index(st) : i > c => ~Committable(i)

\* maybe_advance_commit of leader n in state s: commit_index moves to c, the
\* change is saved, and every pending proposal at or below c is answered.
Commit(n, s, c) ==
    LET done == {p \in pending[n] : p.index <= c}
    IN  /\ IsNewCommit(s, store[n], c)
        /\ store' = IF c > s.commit_index
                    THEN [store EXCEPT ![n] = Saved(@, [s EXCEPT !.commit_index = c])]
                    ELSE store
        /\ pending' = [pending EXCEPT ![n] = @ \ done]
        /\ acked' = acked \cup done
        /\ committed' = committed \cup
              {[term |-> s.current_term, entry |-> store[n].entries[k]] :
                  k \in {j \in DOMAIN store[n].entries :
                            store[n].entries[j].index \in s.commit_index + 1 .. c}}

\* The values maybe_advance_commit may leave commit_index at.
CommitRange(s, st) == {s.commit_index} \cup s.commit_index + 1 .. last_index(st)

handle_append_response(n, m) ==
    LET p == sm[n].progress[m.peer]
        match == IF p.match_index >= m.req_last_index THEN p.match_index ELSE m.req_last_index
        back == IF m.conflict_index > 0 THEN m.conflict_index
                ELSE IF p.next_index > 2 THEN p.next_index - 1 ELSE 1
        s == [sm[n] EXCEPT !.progress[m.peer] =
                 IF m.success THEN [next_index |-> match + 1, match_index |-> match]
                              ELSE [@ EXCEPT !.next_index = back]]
    IN  /\ Hears(n, m)
        /\ net' = [net EXCEPT !.append_resp = Rest(@, m)]
        /\ \/ /\ StepDown(n, m)
              /\ UNCHANGED <<pending, acked, committed>>
           \/ /\ m.term <= sm[n].current_term /\ sm[n].role # "Leader"
              /\ UNCHANGED <<sm, store, pending, acked, committed>>
           \/ /\ m.term <= sm[n].current_term /\ sm[n].role = "Leader"
              /\ \E c \in CommitRange(s, store[n]) :
                    /\ Commit(n, s, c)
                    /\ sm' = [sm EXCEPT ![n] = [s EXCEPT !.commit_index = c]]
        /\ UNCHANGED <<phase, incarnation, applied, proposed, votes, leaders>>

handle_snapshot_response(n, m) ==
    LET p == sm[n].progress[m.peer]
        match == IF p.match_index >= m.req_last_index THEN p.match_index ELSE m.req_last_index
        s == [sm[n] EXCEPT !.progress[m.peer] =
                 [next_index |-> match + 1, match_index |-> match]]
    IN  /\ Hears(n, m)
        /\ net' = [net EXCEPT !.snap_resp = Rest(@, m)]
        /\ \/ /\ StepDown(n, m)
              /\ UNCHANGED <<pending, acked, committed>>
           \/ /\ m.term <= sm[n].current_term /\ sm[n].role # "Leader"
              /\ UNCHANGED <<sm, store, pending, acked, committed>>
           \/ /\ m.term <= sm[n].current_term /\ sm[n].role = "Leader"
              /\ \E c \in CommitRange(s, store[n]) :
                    /\ Commit(n, s, c)
                    /\ sm' = [sm EXCEPT ![n] = [s EXCEPT !.commit_index = c]]
        /\ UNCHANGED <<phase, incarnation, applied, proposed, votes, leaders>>

\* Slip: the range starts at the first entry of the log every time.
AppliesFromStart(s, st, c) ==
    IF s.last_applied >= c \/ c > last_index(st) THEN <<>>
    ELSE entries(st, first_index(st), c + 1, c)

\* Slip: everything in the log is applied.
AppliesWholeLog(s, st, c) ==
    IF EntriesCompacted(st, s.last_applied + 1) THEN <<>>
    ELSE entries(st, s.last_applied + 1, last_index(st) + 1, last_index(st))

\* apply_committed(from = last_applied + 1, to = c): the entries sent on
\* apply_tx, none when storage answers with an error.
ToApply(s, st, c) ==
    IF \/ s.last_applied >= c
       \/ EntriesCompacted(st, s.last_applied + 1)
       \/ c > last_index(st)
    THEN <<>>
    ELSE entries(st, s.last_applied + 1, c + 1, c)

\* The heartbeat deadline of a leader: replicate, then advance, then apply.
heartbeat(n) ==
    /\ phase[n] = "running" /\ Aligned(store[n])
    /\ sm[n].role = "Leader"
    /\ net' = replicate_all(net, n, sm[n], store[n])
    /\ \E c \in CommitRange(sm[n], store[n]) :
          LET out == ToApply(sm[n], store[n], c)
          IN  /\ Commit(n, sm[n], c)
              /\ applied' = [applied EXCEPT ![n] = @ \o out]
              /\ sm' = [sm EXCEPT ![n].commit_index = c,
                                  ![n].last_applied = @ + Len(out)]
    /\ UNCHANGED <<phase, incarnation, proposed, votes, leaders>>

-----------------------------------------------------------------------------
(* Lifecycle and application.                                              *)

\* Slip: the saved vote is not read back.
VoteForgotten(hs) == None

\* Slip: 0 is taken for a node id.
VoteTakenLiterally(hs) == hs.vote

\* vote 0 means None.
restored_vote(hs) == IF hs.vote = ZeroId THEN None ELSE hs.vote

\* The event loop restores the hard state before it does anything else.
restore(n) ==
    LET hs == store[n].hard_state
    IN  /\ phase[n] = "starting"
        /\ phase' = [phase EXCEPT ![n] = "running"]
        /\ sm' = [sm EXCEPT
              ![n].current_term = hs.term,
              ![n].voted_for    = restored_vote(hs),
              ![n].commit_index = hs.commit,
              ![n].last_applied = hs.commit]
        /\ UNCHANGED <<store, pending, incarnation, net, applied, clientVars, history>>

\* RaftMessage::Shutdown ends the event loop; the handlers stay registered.
shutdown(n) ==
    /\ n \in Faulty
    /\ phase[n] = "running"
    /\ phase' = [phase EXCEPT ![n] = "stopped"]
    /\ UNCHANGED <<sm, store, pending, incarnation, net, applied, clientVars, history>>

\* The process ends and RaftNode::start runs again on the same storage.
start(n) ==
    /\ n \in Faulty /\ incarnation[n] < MaxRestarts
    /\ incarnation' = [incarnation EXCEPT ![n] = @ + 1]
    /\ phase' = [phase EXCEPT ![n] = "starting"]
    /\ sm' = [sm EXCEPT ![n] = new_state]
    /\ pending' = [pending EXCEPT ![n] = {}]
    /\ UNCHANGED <<store, net, applied, clientVars, history>>

\* The application compacts its node's storage up to an entry it applied.
compact(n) ==
    /\ AppSnapshots
    /\ Aligned(store[n])
    /\ \E k \in DOMAIN applied[n] :
          LET e == applied[n][k]
          IN  /\ e.index >= first_index(store[n])
              /\ store' = [store EXCEPT ![n] = apply_snapshot(@,
                     [last_included_index |-> e.index,
                      last_included_term  |-> e.term,
                      data                |-> SubSeq(applied[n], 1, k)])]
    /\ UNCHANGED <<sm, pending, phase, incarnation, net, applied, clientVars, history>>

-----------------------------------------------------------------------------
Init ==
    /\ sm = [n \in Server |-> new_state]
    /\ store = [n \in Server |-> EmptyStore]
    /\ pending = [n \in Server |-> {}]
    /\ phase = [n \in Server |-> "running"]   \* restored from empty storage
    /\ incarnation = [n \in Server |-> 0]
    /\ net = NoRpcs
    /\ applied = [n \in Server |-> <<>>]
    /\ acked = {} /\ proposed = {}
    /\ votes = {} /\ leaders = {} /\ committed = {}

Next ==
    \E n \in Server :
        \/ start_election(n)
        \/ heartbeat(n)
        \/ \E cmd \in Command : on_proposal(n, cmd)
        \/ \E m \in net.vote_req : on_request_vote(n, m)
        \/ \E m \in net.vote_resp : handle_vote_response(n, m)
        \/ \E m \in net.append_req : on_append_entries(n, m)
        \/ \E m \in net.append_resp : handle_append_response(n, m)
        \/ \E m \in net.snap_req : on_install_snapshot(n, m)
        \/ \E m \in net.snap_resp : handle_snapshot_response(n, m)
        \/ restore(n)
        \/ shutdown(n)
        \/ start(n)
        \/ compact(n)

Spec == Init /\ [][Next]_vars

-----------------------------------------------------------------------------
(* Types.                                                                  *)

\* Who sends AppendEntries: a member, or a client under id 0.
Sender == Server \cup {ZeroId}

Entry == [term : Nat, index : Nat, data : Command]
HardState == [term : Nat, vote : Server \cup {ZeroId}, commit : Nat]
Snapshot == [last_included_index : Nat, last_included_term : Nat, data : Seq(Entry)]
Store == [hard_state : HardState, entries : Seq(Entry), snapshot : Snapshot]
Progress == [next_index : Nat, match_index : Nat]
StateMachine == [
    current_term   : Nat,
    voted_for      : Server \cup {None},
    role           : {"Follower", "Candidate", "Leader"},
    commit_index   : Nat,
    last_applied   : Nat,
    leader_id      : Sender \cup {None},
    progress       : [Server -> Progress],
    votes_received : SUBSET Server]
Pending == [index : Nat, command : Command]

VoteReq == [candidate_id : Server, to : Server, incarnation : Nat, term : Nat,
            last_log_index : Nat, last_log_term : Nat]
VoteResp == [peer : Server, to : Server, incarnation : Nat, term : Nat,
             vote_granted : BOOLEAN]
AppendReq == [leader_id : Sender, to : Server, incarnation : Nat, term : Nat,
              prev_log_index : Nat, prev_log_term : Nat, entries : Seq(Entry),
              leader_commit : Nat]
AppendResp == [peer : Server, to : Sender, incarnation : Nat, term : Nat,
               success : BOOLEAN, conflict_index : Nat, req_last_index : Nat]
SnapReq == [leader_id : Server, to : Server, incarnation : Nat, term : Nat,
            snapshot : Snapshot]
SnapResp == [peer : Server, to : Server, incarnation : Nat, term : Nat,
             req_last_index : Nat]

Net == [vote_req : SUBSET VoteReq, vote_resp : SUBSET VoteResp,
        append_req : SUBSET AppendReq, append_resp : SUBSET AppendResp,
        snap_req : SUBSET SnapReq, snap_resp : SUBSET SnapResp]

\* Every variable has the type of the code's struct or message it models.
TypeOK ==
    /\ sm \in [Server -> StateMachine]
    /\ store \in [Server -> Store]
    /\ pending \in [Server -> SUBSET Pending]
    /\ phase \in [Server -> {"starting", "running", "stopped"}]
    /\ incarnation \in [Server -> Nat]
    /\ net \in Net
    /\ applied \in [Server -> Seq(Entry)]
    /\ acked \subseteq Pending
    /\ proposed \subseteq Command
    /\ votes \subseteq Server \X Nat \X Server
    /\ leaders \subseteq Nat \X Server
    /\ committed \subseteq [term : Nat, entry : Entry]

-----------------------------------------------------------------------------
(* Properties.                                                             *)

\* What is in memory is what is on storage once the loop restored it: every
\* handler saves term, vote and commit before it answers ("Raft hard state that
\* must be persisted to stable storage before responding to any RPC").
HardStateSync ==
    \A n \in Server : phase[n] # "starting" =>
        store[n].hard_state = hard_state_of(sm[n])

\* A node never votes for two candidates of one term, restarts included
\* (on_request_vote, start_election, run_event_loop's restore).
OneVotePerTerm ==
    \A v, w \in votes : v[1] = w[1] /\ v[2] = w[2] => v[3] = w[3]

\* At most one node ever wins the election of a term (handle_vote_response).
ElectionSafety ==
    \A l, k \in leaders : l[1] = k[1] => l[2] = k[2]

\* Neither the term in storage nor, within an incarnation, the term in memory
\* ever decreases.
TermsNeverDecrease ==
    [][\A n \in Server :
          /\ store'[n].hard_state.term >= store[n].hard_state.term
          /\ incarnation'[n] = incarnation[n] =>
                sm'[n].current_term >= sm[n].current_term]_vars

\* The vector of every store is aligned with first_index ("entries[0].index
\* equals the first available index after a snapshot").
StoresAligned == \A n \in Server : Aligned(store[n])

\* Two logs that agree on the term of an index hold the same entries up to it
\* (on_append_entries' check of prev_log_index and prev_log_term).
LogMatching ==
    \A n, p \in Server :
        \A i \in DOMAIN store[n].entries, j \in DOMAIN store[p].entries :
            LET a == store[n].entries
                b == store[p].entries
            IN  a[i].index = b[j].index /\ a[i].term = b[j].term =>
                \A k \in 1 .. i, l \in 1 .. j : a[k].index = b[l].index => a[k] = b[l]

\* "Highest log index known to be replicated on this peer": as long as the peer
\* has not moved to a later term, it holds the leader's log up to match_index.
MatchIndexSound ==
    \A n, p \in Server :
        /\ sm[n].role = "Leader" /\ phase[p] # "starting"
        /\ sm[p].current_term <= sm[n].current_term
        => \A k \in DOMAIN store[n].entries :
              LET e == store[n].entries[k]
              IN  e.index <= sm[n].progress[p].match_index =>
                  Holds(store[p], e) \/ e.index < first_index(store[p])

\* A leader holds every entry committed in an earlier term or by itself.
LeaderCompleteness ==
    \A c \in committed, n \in Server :
        /\ sm[n].role = "Leader"
        /\ sm[n].current_term >= c.term
        /\ c.entry.index >= first_index(store[n])
        => Holds(store[n], c.entry)

\* Every committed entry is in the storage of a quorum.
CommittedOnQuorum ==
    \A c \in committed :
        Cardinality({n \in Server :
            \/ Holds(store[n], c.entry)
            \/ c.entry.index < first_index(store[n])}) >= quorum

\* No two entries are ever committed at one index.
CommittedOnce ==
    \A c, d \in committed : c.entry.index = d.entry.index => c.entry = d.entry

\* The applications never apply different entries at one index.
StateMachineSafety ==
    \A n, p \in Server :
        \A i \in DOMAIN applied[n], j \in DOMAIN applied[p] :
            applied[n][i].index = applied[p][j].index => applied[n][i] = applied[p][j]

\* apply_tx delivers the log from index 1 on, without a gap or a repetition.
AppliedInOrder ==
    \A n \in Server : \A i \in DOMAIN applied[n] : applied[n][i].index = i

\* commit_index never points past the end of the node's log.
CommitWithinLog ==
    \A n \in Server : phase[n] # "starting" => sm[n].commit_index <= last_index(store[n])

\* A leader never overwrites or deletes entries of its own log.
LeaderAppendOnly ==
    [][\A n \in Server :
          /\ sm[n].role = "Leader" /\ sm'[n].role = "Leader"
          /\ first_index(store[n]) = first_index(store'[n])
          => /\ Len(store[n].entries) <= Len(store'[n].entries)
             /\ \A k \in DOMAIN store[n].entries :
                   store'[n].entries[k] = store[n].entries[k]]_vars

\* propose() answered Ok(index): the caller's command was committed there.
AckedIsCommitted ==
    \A a \in acked : \E c \in committed :
        c.entry.index = a.index /\ c.entry.data = a.command

\* leader_id, which propose() hands out in NotLeader, names the node that won the
\* election of the node's current term, or nobody.
LeaderHintTrue ==
    \A n \in Server : sm[n].leader_id # None =>
        <<sm[n].current_term, sm[n].leader_id>> \in leaders

\* last_applied never runs ahead of commit_index: new_commit - last_applied, the
\* unchecked subtraction of the committed-entries counter, does not underflow.
AppliedWithinCommit ==
    \A n \in Server : sm[n].last_applied <= sm[n].commit_index

\* commit_index never moves back within an incarnation.
CommitNeverRegresses ==
    [][\A n \in Server : incarnation'[n] = incarnation[n] =>
          sm'[n].commit_index >= sm[n].commit_index]_vars

=============================================================================
