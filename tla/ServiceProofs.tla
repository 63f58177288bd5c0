----------------------------- MODULE ServiceProofs -----------------------------
(***************************************************************************)
(* What a node's users get: the entries on apply_tx and the answers to     *)
(* proposals.                                                              *)
(***************************************************************************)
EXTENDS LogProofs

-----------------------------------------------------------------------------
(* apply_committed.                                                        *)

\* entries(lo, hi, max) is a slice of the vector, the whole range when it fits.
LEMMA EntriesSlice ==
    ASSUME NEW st, NEW lo, NEW hi, NEW max, NEW from, NEW upto,
           from = lo - first_index(st) + 1, upto = hi - first_index(st),
           ~(upto - from + 1 > max)
    PROVE  entries(st, lo, hi, max) = SubSeq(st.entries, from, upto)
BY DEF entries

\* What apply_committed sends continues at last_applied + 1 and ends at the commit
\* index, or it sends nothing.
LEMMA OutIndices ==
    ASSUME NEW s \in StateMachine, NEW st \in Store, Aligned(st), NEW c \in Nat,
           NEW out, out = ToApply(s, st, c)
    PROVE  /\ out \in Seq(Entry) /\ Len(out) \in Nat
           /\ \A k \in 1 .. Len(out) : out[k].index = s.last_applied + k
           /\ Len(out) > 0 => s.last_applied + Len(out) <= c
<1>1. /\ s.last_applied \in Nat /\ first_index(st) \in Nat /\ last_index(st) \in Nat
      /\ last_index(st) = first_index(st) + Len(st.entries) - 1 /\ first_index(st) >= 1
      /\ st.entries \in Seq(Entry) /\ Len(st.entries) \in Nat
  <2>1. st.entries \in Seq(Entry) /\ st.snapshot.last_included_index \in Nat
    BY DEF Store, Snapshot
  <2>2. first_index(st) \in Nat /\ first_index(st) >= 1 /\ Len(st.entries) \in Nat
    BY <2>1 DEF first_index
  <2>3. s.last_applied \in Nat
    BY DEF StateMachine
  <2> QED  BY <2>1, <2>2, <2>3, StoreIndexTypes, AlignedLast
<1>2. out \in Seq(Entry) /\ Len(out) \in Nat
  <2>1. out \in Seq(Entry)
    BY ToApplyType
  <2> QED  BY <2>1
<1>3. CASE out = <<>>
  BY <1>2, <1>3
<1>4. CASE out # <<>>
  <2> DEFINE la == s.last_applied
             fi == first_index(st)
             from == la + 1 - fi + 1
             upto == c + 1 - fi
  <2>1. /\ la < c /\ la + 1 >= fi /\ c <= last_index(st)
        /\ out = entries(st, la + 1, c + 1, c)
    <3>1. ~(la >= c \/ EntriesCompacted(st, la + 1) \/ c > last_index(st))
      BY <1>4 DEF ToApply
    <3>2. out = entries(st, la + 1, c + 1, c)
      BY <3>1 DEF ToApply
    <3> QED  BY <1>1, <3>1, <3>2 DEF EntriesCompacted
  <2>2. /\ from \in Int /\ upto \in Int /\ from >= 1 /\ upto <= Len(st.entries)
        /\ from <= upto /\ upto - from + 1 <= c /\ upto - from + 1 = c - la
        /\ fi + from = la + 2
    <3>1. /\ la \in Nat /\ fi \in Nat /\ Len(st.entries) \in Nat
          /\ last_index(st) = fi + Len(st.entries) - 1
      BY <1>1
    <3> HIDE DEF la, fi
    <3> QED  BY <2>1, <3>1
  <2>3. out = SubSeq(st.entries, from, upto)
    <3>1. ~(upto - from + 1 > c)
      BY <2>2
    <3>2. from = (la + 1) - first_index(st) + 1 /\ upto = (c + 1) - first_index(st)
      BY <1>1
    <3>3. out = entries(st, la + 1, c + 1, c)
      BY <2>1
    <3> HIDE DEF la, fi, from, upto
    <3> QED  BY <3>1, <3>2, <3>3, EntriesSlice
  <2> HIDE DEF from, upto
  <2>4. \A i \in from .. upto : st.entries[i] \in Entry
    <3>1. /\ from \in Int /\ upto \in Int /\ from >= 1 /\ upto <= Len(st.entries)
          /\ st.entries \in Seq(Entry)
      BY <1>1, <2>2
    <3> QED  BY <3>1
  <2>5. /\ Len(out) = upto - from + 1
        /\ \A i \in 1 .. upto - from + 1 : out[i] = st.entries[from + i - 1]
    <3>1. from \in Int /\ upto \in Int /\ from <= upto
      BY <2>2
    <3> QED  BY <2>3, <2>4, <3>1, SubSeqProperties
  <2>6. ASSUME NEW k \in 1 .. Len(out) PROVE out[k].index = la + k
    <3>0. k \in 1 .. upto - from + 1
      BY <2>5
    <3>1. from + k - 1 \in DOMAIN st.entries /\ out[k] = st.entries[from + k - 1]
      <4>0. /\ from \in Int /\ upto \in Int /\ from >= 1 /\ upto <= Len(st.entries)
            /\ Len(st.entries) \in Nat
        BY <1>1, <2>2
      <4>1. from + k - 1 \in 1 .. Len(st.entries)
        BY <3>0, <4>0
      <4> QED  BY <1>1, <2>5, <3>0, <4>1
    <3>2. out[k].index = fi + (from + k - 1) - 1
      BY <3>1 DEF Aligned
    <3>3. la \in Nat /\ fi \in Nat
      BY <1>1
    <3> HIDE DEF la, fi
    <3> QED  BY <2>2, <3>2, <3>3
  <2>7. la + Len(out) <= c
    BY <1>1, <2>2, <2>5
  <2> QED  BY <1>2, <2>6, <2>7
<1> QED  BY <1>3, <1>4

\* The heartbeat of a leader commits up to some index and then applies.
Applies(n, c, out) ==
    /\ Commit(n, sm[n], c) /\ c \in CommitRange(sm[n], store[n])
    /\ c \in Nat /\ c >= sm[n].commit_index
    /\ c = sm[n].commit_index \/ c <= last_index(store[n])
    /\ out \in Seq(Entry) /\ Len(out) \in Nat
    /\ \A k \in 1 .. Len(out) : out[k].index = sm[n].last_applied + k
    /\ Len(out) > 0 => sm[n].last_applied + Len(out) <= c
    /\ applied' = [applied EXCEPT ![n] = applied[n] \o out]
    /\ sm'[n].commit_index = c /\ sm'[n].last_applied = sm[n].last_applied + Len(out)
    /\ \A p \in Server \ {n} : sm'[p] = sm[p]
    /\ phase' = phase

LEMMA HeartbeatApplies ==
    ASSUME TypeInv, NEW n \in Server, heartbeat(n)
    PROVE  \E c, out : Applies(n, c, out)
<1>1. /\ sm[n] \in StateMachine /\ store[n] \in Store
      /\ sm \in [Server -> StateMachine] /\ sm[n].commit_index \in Nat
  BY DEF TypeInv, TypeOK, StateMachine
<1>2. Aligned(store[n]) /\ phase' = phase /\ last_index(store[n]) \in Nat
  BY <1>1, StoreIndexTypes DEF heartbeat
<1>3. PICK c \in CommitRange(sm[n], store[n]) :
        /\ Commit(n, sm[n], c)
        /\ applied' = [applied EXCEPT ![n] = @ \o ToApply(sm[n], store[n], c)]
        /\ sm' = [sm EXCEPT ![n].commit_index = c,
                            ![n].last_applied = @ + Len(ToApply(sm[n], store[n], c))]
  BY DEF heartbeat
<1> DEFINE out == ToApply(sm[n], store[n], c)
           z == [sm[n] EXCEPT !.commit_index = c, !.last_applied = @ + Len(out)]
<1>4. /\ c \in Nat /\ c >= sm[n].commit_index
      /\ c = sm[n].commit_index \/ c <= last_index(store[n])
  BY <1>1, <1>2, <1>3 DEF CommitRange
<1>5. sm' = [sm EXCEPT ![n] = z]
  BY <1>1, <1>3
<1>6. z.commit_index = c /\ z.last_applied = sm[n].last_applied + Len(out)
  BY <1>1 DEF StateMachine
<1> HIDE DEF z
<1>7. sm'[n] = z /\ \A p \in Server \ {n} : sm'[p] = sm[p]
  BY <1>5, SmWritten
<1>8. applied' = [applied EXCEPT ![n] = applied[n] \o out]
  BY <1>3
<1>9. /\ out \in Seq(Entry) /\ Len(out) \in Nat
      /\ \A k \in 1 .. Len(out) : out[k].index = sm[n].last_applied + k
      /\ Len(out) > 0 => sm[n].last_applied + Len(out) <= c
  BY <1>1, <1>2, <1>4, OutIndices
<1> HIDE DEF out
<1> QED  BY <1>2, <1>3, <1>4, <1>6, <1>7, <1>8, <1>9 DEF Applies
\* The steps that are no heartbeat, no snapshot and no restart leave what was
\* applied alone.
LEMMA AppliedKept ==
    ASSUME TypeInv, [Next]_vars
    PROVE  \/ \E n \in Server : \/ heartbeat(n) \/ restore(n) \/ start(n) \/ compact(n)
                                \/ \E m \in net.snap_req : on_install_snapshot(n, m)
           \/ /\ applied' = applied
              /\ \A p \in Server : sm'[p].last_applied = sm[p].last_applied
<1>0. /\ sm \in [Server -> StateMachine]
      /\ \A p \in Server : sm[p] \in StateMachine
  BY DEF TypeInv, TypeOK
<1> DEFINE Kept == applied' = applied /\ \A p \in Server : sm'[p].last_applied = sm[p].last_applied
<1>1. ASSUME NEW n \in Server, NEW z, sm' = [sm EXCEPT ![n] = z],
             z.last_applied = sm[n].last_applied
      PROVE  \A p \in Server : sm'[p].last_applied = sm[p].last_applied
  BY <1>1, SmWritten
<1>2. ASSUME NEW s \in StateMachine, NEW n \in Server, NEW t, NEW l, NEW i
      PROVE  /\ become_follower(s, t, l).last_applied = s.last_applied
             /\ become_candidate(s, n).last_applied = s.last_applied
             /\ become_leader(s, n, i).last_applied = s.last_applied
             /\ Observe(s, t, l).last_applied = s.last_applied
             /\ Observe(s, t, l) \in StateMachine \/ Observe(s, t, l) = become_follower(s, t, l)
  BY DEF become_follower, become_candidate, become_leader, Observe, StateMachine
<1>3. ASSUME NEW n \in Server, start_election(n) PROVE Kept
  <2>1. become_candidate(sm[n], n) \in StateMachine
    BY <1>0, CandidateType
  <2>2. \/ sm' = [sm EXCEPT ![n] = become_candidate(sm[n], n)]
        \/ sm' = [sm EXCEPT ![n] = become_leader(become_candidate(sm[n], n), n, last_index(store[n]))]
    BY <1>3 DEF start_election
  <2>3. /\ become_candidate(sm[n], n).last_applied = sm[n].last_applied
        /\ become_leader(become_candidate(sm[n], n), n, last_index(store[n])).last_applied
             = sm[n].last_applied
    BY <1>0, <1>2, <2>1
  <2> QED  BY <1>1, <1>3, <2>2, <2>3 DEF start_election
<1>4. ASSUME NEW n \in Server, NEW m \in net.vote_req, on_request_vote(n, m) PROVE Kept
  <2> DEFINE s == Observe(sm[n], m.term, None)
  <2>1. s.last_applied = sm[n].last_applied
    BY <1>0, <1>2
  <2>2. [s EXCEPT !.voted_for = m.candidate_id].last_applied = s.last_applied
    BY <1>0 DEF Observe, become_follower, StateMachine
  <2> DEFINE v == [s EXCEPT !.voted_for = m.candidate_id]
  <2>3. /\ applied' = applied
        /\ sm' = [sm EXCEPT ![n] = v] \/ sm' = [sm EXCEPT ![n] = s]
    BY <1>4 DEF on_request_vote
  <2> HIDE DEF s, v
  <2>4. v.last_applied = sm[n].last_applied
    BY <2>1, <2>2 DEF v
  <2> QED  BY <1>1, <2>1, <2>3, <2>4
<1>5. ASSUME NEW n \in Server, NEW m, StepDown(n, m)
      PROVE  \A p \in Server : sm'[p].last_applied = sm[p].last_applied
  <2>1. sm' = [sm EXCEPT ![n] = become_follower(sm[n], m.term, None)]
    BY <1>5 DEF StepDown
  <2> QED  BY <1>0, <1>1, <1>2, <2>1
<1>6. ASSUME NEW n \in Server, NEW m \in net.vote_resp, handle_vote_response(n, m) PROVE Kept
  <2> DEFINE s == [sm[n] EXCEPT !.votes_received = @ \cup {m.peer}]
             l == become_leader(s, n, last_index(store[n]))
  <2>1. /\ applied' = applied
        /\ \/ StepDown(n, m)
           \/ sm' = [sm EXCEPT ![n] = l]
           \/ sm' = [sm EXCEPT ![n] = s]
           \/ sm' = sm
    BY <1>6 DEF handle_vote_response
  <2>2. s.last_applied = sm[n].last_applied /\ l.last_applied = s.last_applied
    BY <1>0 DEF become_leader, StateMachine
  <2> HIDE DEF s, l
  <2> QED  BY <1>1, <1>5, <2>1, <2>2
<1>7. ASSUME NEW n \in Server, NEW m \in net.append_req, on_append_entries(n, m) PROVE Kept
  <2> DEFINE s == [Observe(sm[n], m.term, m.leader_id) EXCEPT !.leader_id = m.leader_id]
             st == ObserveStore(store[n], sm[n], m.term, m.leader_id)
             i == commit_bound(IF m.entries = <<>> THEN st ELSE append_entries(st, m.entries), m)
             c == [s EXCEPT !.commit_index = i]
  <2>1. /\ applied' = applied
        /\ sm' \in {sm, [sm EXCEPT ![n] = s], [sm EXCEPT ![n] = c]}
    BY <1>7 DEF on_append_entries
  <2>2. s.last_applied = sm[n].last_applied /\ c.last_applied = s.last_applied
    BY <1>0 DEF Observe, become_follower, StateMachine
  <2> HIDE DEF s, c
  <2> QED  BY <1>1, <2>1, <2>2
<1>8. ASSUME NEW n \in Server, NEW m, NEW q, NEW c, NEW s, s = [sm[n] EXCEPT !.progress[m.peer] = q],
             \/ StepDown(n, m)
             \/ sm' = sm
             \/ sm' = [sm EXCEPT ![n] = [s EXCEPT !.commit_index = c]]
      PROVE  \A p \in Server : sm'[p].last_applied = sm[p].last_applied
  <2> DEFINE z == [s EXCEPT !.commit_index = c]
  <2>1. z.last_applied = sm[n].last_applied
    BY <1>0, <1>8 DEF StateMachine
  <2> HIDE DEF z
  <2>2. sm' = [sm EXCEPT ![n] = z] => \A p \in Server : sm'[p].last_applied = sm[p].last_applied
    BY <1>1, <2>1
  <2> QED  BY <1>5, <1>8, <2>2 DEF z
<1>9. ASSUME NEW n \in Server, NEW m \in net.append_resp, handle_append_response(n, m) PROVE Kept
  <2> DEFINE p == sm[n].progress[m.peer]
             match == IF p.match_index >= m.req_last_index THEN p.match_index ELSE m.req_last_index
             back == IF m.conflict_index > 0 THEN m.conflict_index
                     ELSE IF p.next_index > 2 THEN p.next_index - 1 ELSE 1
             q == IF m.success THEN [next_index |-> match + 1, match_index |-> match]
                               ELSE [p EXCEPT !.next_index = back]
             s == [sm[n] EXCEPT !.progress[m.peer] = q]
  <2>1. /\ applied' = applied
        /\ \E c : \/ StepDown(n, m)
                 \/ sm' = sm
                 \/ sm' = [sm EXCEPT ![n] = [s EXCEPT !.commit_index = c]]
    BY <1>9 DEF handle_append_response
  <2> HIDE DEF q
  <2> QED  BY <1>8, <2>1
<1>10. ASSUME NEW n \in Server, NEW m \in net.snap_resp, handle_snapshot_response(n, m) PROVE Kept
  <2> DEFINE p == sm[n].progress[m.peer]
             match == IF p.match_index >= m.req_last_index THEN p.match_index ELSE m.req_last_index
             q == [next_index |-> match + 1, match_index |-> match]
             s == [sm[n] EXCEPT !.progress[m.peer] = q]
  <2>1. /\ applied' = applied
        /\ \E c : \/ StepDown(n, m)
                 \/ sm' = sm
                 \/ sm' = [sm EXCEPT ![n] = [s EXCEPT !.commit_index = c]]
    BY <1>10 DEF handle_snapshot_response
  <2> HIDE DEF q
  <2> QED  BY <1>8, <2>1
<1>11. ASSUME NEW n \in Server, NEW cmd \in Command, on_proposal(n, cmd) PROVE Kept
  BY <1>11 DEF on_proposal
<1>12. ASSUME NEW n \in Server, shutdown(n) PROVE Kept
  BY <1>12 DEF shutdown
<1>13. ASSUME UNCHANGED vars PROVE Kept
  BY <1>13 DEF vars
<1> HIDE DEF Kept
<1>14. ASSUME NEW n \in Server,
              \/ start_election(n)
              \/ \E cmd \in Command : on_proposal(n, cmd)
              \/ \E m \in net.vote_req : on_request_vote(n, m)
              \/ \E m \in net.vote_resp : handle_vote_response(n, m)
              \/ \E m \in net.append_req : on_append_entries(n, m)
              \/ \E m \in net.append_resp : handle_append_response(n, m)
              \/ \E m \in net.snap_resp : handle_snapshot_response(n, m)
              \/ shutdown(n)
       PROVE  Kept
  BY <1>3, <1>4, <1>6, <1>7, <1>9, <1>10, <1>11, <1>12, <1>14
<1>15. Kept \/ \E n \in Server : \/ heartbeat(n) \/ restore(n) \/ start(n) \/ compact(n)
                               \/ \E m \in net.snap_req : on_install_snapshot(n, m)
  BY <1>13, <1>14 DEF Next
<1> QED  BY <1>15 DEF Kept
\* Handlers and timers leave the phase alone.
LEMMA PhaseKept ==
    ASSUME [Next]_vars
    PROVE  phase' = phase \/ \E n \in Server : restore(n) \/ shutdown(n) \/ start(n)
<1>1. CASE UNCHANGED vars
  BY <1>1 DEF vars
<1>2. ASSUME NEW n \in Server, start_election(n) \/ heartbeat(n) \/ compact(n) PROVE phase' = phase
  BY <1>2 DEF start_election, heartbeat, compact
<1>3. ASSUME NEW n \in Server, NEW cmd, on_proposal(n, cmd) PROVE phase' = phase
  BY <1>3 DEF on_proposal
<1>4. ASSUME NEW n \in Server, NEW m, on_request_vote(n, m) PROVE phase' = phase
  BY <1>4 DEF on_request_vote
<1>5. ASSUME NEW n \in Server, NEW m, handle_vote_response(n, m) PROVE phase' = phase
  BY <1>5 DEF handle_vote_response
<1>6. ASSUME NEW n \in Server, NEW m, on_append_entries(n, m) PROVE phase' = phase
  BY <1>6 DEF on_append_entries
<1>7. ASSUME NEW n \in Server, NEW m, handle_append_response(n, m) PROVE phase' = phase
  BY <1>7 DEF handle_append_response
<1>8. ASSUME NEW n \in Server, NEW m, on_install_snapshot(n, m) PROVE phase' = phase
  BY <1>8 DEF on_install_snapshot
<1>9. ASSUME NEW n \in Server, NEW m, handle_snapshot_response(n, m) PROVE phase' = phase
  BY <1>9 DEF handle_snapshot_response
<1> QED  BY <1>1, <1>2, <1>3, <1>4, <1>5, <1>6, <1>7, <1>8, <1>9 DEF Next

\* As long as no node is restarted and no application compacts, last_applied is the
\* number of entries sent, and they are numbered from 1.
InOrder(n) ==
    /\ phase[n] # "starting"
    /\ sm[n].last_applied = Len(applied[n])
    /\ \A i \in 1 .. Len(applied[n]) : applied[n][i].index = i

\* A heartbeat continues the sequence.
LEMMA HeartbeatInOrder ==
    ASSUME TypeInv, NEW n \in Server, InOrder(n), heartbeat(n)
    PROVE  /\ phase' = phase
           /\ sm'[n].last_applied = Len(applied'[n])
           /\ \A i \in 1 .. Len(applied'[n]) : applied'[n][i].index = i
           /\ \A p \in Server \ {n} : sm'[p] = sm[p] /\ applied'[p] = applied[p]
<1>1. PICK c, out : Applies(n, c, out)
  BY HeartbeatApplies
<1>2. /\ out \in Seq(Entry) /\ Len(out) \in Nat
      /\ \A k \in 1 .. Len(out) : out[k].index = sm[n].last_applied + k
      /\ applied' = [applied EXCEPT ![n] = applied[n] \o out]
      /\ sm'[n].last_applied = sm[n].last_applied + Len(out)
      /\ \A p \in Server \ {n} : sm'[p] = sm[p]
      /\ phase' = phase
  BY <1>1 DEF Applies
<1> DEFINE a == applied[n]
<1>3. applied \in [Server -> Seq(Entry)] /\ a \in Seq(Entry) /\ Len(a) \in Nat
  <2>1. applied \in [Server -> Seq(Entry)] /\ a \in Seq(Entry)
    BY DEF TypeInv, TypeOK
  <2> QED  BY <2>1
<1>4. applied'[n] = a \o out /\ \A p \in Server \ {n} : applied'[p] = applied[p]
  BY <1>2, <1>3
<1>5. sm[n].last_applied = Len(a) /\ \A i \in 1 .. Len(a) : a[i].index = i
  BY DEF InOrder
<1> HIDE DEF a
<1>6. /\ Len(a \o out) = Len(a) + Len(out)
      /\ \A k \in 1 .. Len(a) : (a \o out)[k] = a[k]
      /\ \A k \in 1 .. Len(out) : (a \o out)[Len(a) + k] = out[k]
  BY <1>2, <1>3, ConcatSplit
<1>7. ASSUME NEW i \in 1 .. Len(a \o out) PROVE (a \o out)[i].index = i
  <2>1. CASE i <= Len(a)
    BY <1>2, <1>3, <1>5, <1>6, <2>1
  <2>2. CASE i > Len(a)
    <3> DEFINE k == i - Len(a)
    <3>1. k \in 1 .. Len(out) /\ i = Len(a) + k
      BY <1>2, <1>3, <1>6, <2>2
    <3> HIDE DEF k
    <3>2. (a \o out)[i] = out[k] /\ out[k].index = Len(a) + k
      BY <1>2, <1>5, <1>6, <3>1
    <3> QED  BY <3>1, <3>2
  <2> QED  BY <1>2, <1>3, <1>6, <2>1, <2>2
<1> QED  BY <1>2, <1>4, <1>5, <1>6, <1>7

\* apply_tx delivers the log from index 1 on, without a gap or a repetition, in
\* every cluster whose nodes are not restarted and whose applications do not
\* compact, whatever happens to the RPCs: lost, duplicated, late and reordered.
\* (A restart skips entries: SkippedApply.)
THEOREM AppliesInOrder ==
    ASSUME ~AppSnapshots, Faulty = {} \/ MaxRestarts = 0
    PROVE  Spec => []AppliedInOrder
<1>1. Init => \A n \in Server : InOrder(n)
  <2> SUFFICES ASSUME Init, NEW n \in Server PROVE InOrder(n)
    OBVIOUS
  <2>1. phase[n] = "running" /\ applied[n] = <<>> /\ sm[n].last_applied = 0
    BY DEF Init, new_state
  <2> QED  BY <2>1 DEF InOrder
<1>2. AlignInv /\ (\A n \in Server : InOrder(n)) /\ [Next]_vars => (\A n \in Server : InOrder(n))'
  <2> SUFFICES ASSUME AlignInv, \A n \in Server : InOrder(n), [Next]_vars, NEW p \in Server
               PROVE  InOrder(p)'
    OBVIOUS
  <2>1. /\ TypeInv /\ InOrder(p) /\ net.snap_req = {}
        /\ \A n \in Server : phase[n] # "starting" /\ incarnation[n] \in Nat
        /\ phase \in [Server -> {"starting", "running", "stopped"}]
    BY DEF AlignInv, InOrder, TypeInv, TypeOK
  <2>2. \A n \in Server : ~restore(n) /\ ~start(n) /\ ~compact(n)
    BY <2>1, ConstantsAssumption DEF restore, start, compact
  <2>3. ASSUME NEW n \in Server, heartbeat(n) PROVE InOrder(p)'
    <3>1. /\ phase' = phase
          /\ sm'[n].last_applied = Len(applied'[n])
          /\ \A i \in 1 .. Len(applied'[n]) : applied'[n][i].index = i
          /\ \A q \in Server \ {n} : sm'[q] = sm[q] /\ applied'[q] = applied[q]
      BY <2>1, <2>3, HeartbeatInOrder
    <3>2. CASE p = n
      BY <2>1, <3>1, <3>2 DEF InOrder
    <3>3. CASE p # n
      BY <2>1, <3>1, <3>3 DEF InOrder
    <3> QED  BY <3>2, <3>3
  <2>4. ASSUME applied' = applied, sm'[p].last_applied = sm[p].last_applied,
               ~(\E n \in Server : heartbeat(n))
        PROVE  InOrder(p)'
    <3>1. phase'[p] # "starting"
      <4>1. CASE \E n \in Server : shutdown(n)
        BY <2>1, <4>1 DEF shutdown
      <4>2. CASE phase' = phase
        BY <2>1, <4>2
      <4> QED  BY <2>2, <2>4, <4>1, <4>2, PhaseKept
    <3> QED  BY <2>1, <2>4, <3>1 DEF InOrder
  <2> QED  BY <2>1, <2>2, <2>3, <2>4, AppliedKept
<1>3. (\A n \in Server : InOrder(n)) /\ TypeInv => AppliedInOrder
  <2> SUFFICES ASSUME \A n \in Server : InOrder(n), TypeInv,
                      NEW n \in Server, NEW i \in DOMAIN applied[n]
               PROVE  applied[n][i].index = i
    BY DEF AppliedInOrder
  <2>1. applied[n] \in Seq(Entry)
    BY DEF TypeInv, TypeOK
  <2> QED  BY <2>1 DEF InOrder
<1>4. AlignInv => TypeInv
  BY DEF AlignInv
<1>5. Spec => []AlignInv
  BY AlignInvariant
<1> QED  BY <1>1, <1>2, <1>3, <1>4, <1>5, PTL DEF Spec
-----------------------------------------------------------------------------
(* A cluster of one.                                                       *)

\* No RPC is in flight.
Silent == net = NoRpcs

\* The node's log is aligned and reaches beyond what it committed; what it applied
\* was committed; and the command of every caller who waits is in the log, beyond
\* the commit index.
Waiting(n, p) ==
    /\ p.index > store[n].hard_state.commit
    /\ \E k \in 1 .. Len(store[n].entries) :
          store[n].entries[k].index = p.index /\ store[n].entries[k].data = p.command

Alone(n) ==
    /\ Aligned(store[n])
    /\ store[n].hard_state.commit <= last_index(store[n])
    /\ \A k \in 1 .. Len(applied[n]) : applied[n][k].index <= store[n].hard_state.commit
    /\ phase[n] = "starting" => pending[n] = {}
    /\ \A p \in pending[n] : Waiting(n, p)

SoloInv ==
    /\ TypeInv /\ HardStateSync
    /\ Silent
    /\ \A n \in Server : Alone(n)
    /\ AckedIsCommitted
\* A cluster of one has no peers, so replicate_all sends nothing.
LEMMA SilentReplication ==
    ASSUME NEW n \in Server, Server = {n}, NEW s, NEW st, NEW nt, nt = NoRpcs
    PROVE  Peers(n) = {} /\ replicate_all(nt, n, s, st) = NoRpcs
<1>1. Peers(n) = {}
  BY DEF Peers
<1>2. Outstanding(nt, n) = NoRpcs
  BY DEF Outstanding, NoRpcs
<1> DEFINE behind == {p \in Peers(n) : NeedsSnapshot(s, st, p)}
           appends == {append_request(n, s, st, p) : p \in Peers(n) \ behind}
           snaps == {snapshot_request(n, s, st, p) : p \in behind}
<1>3. appends = {} /\ snaps = {}
  BY <1>1
<1>4. replicate_all(nt, n, s, st) = [NoRpcs EXCEPT !.append_req = @ \cup appends,
                                                  !.snap_req = @ \cup snaps]
  BY <1>2 DEF replicate_all
<1> HIDE DEF appends, snaps
<1> QED  BY <1>1, <1>3, <1>4 DEF NoRpcs

\* The log behind a snapshot of something it holds: aligned as before, with the
\* same end and the same entries beyond the snapshot.
LEMMA SnapshotKeepsRest ==
    ASSUME NEW st \in Store, Aligned(st), NEW snap \in Snapshot,
           snap.last_included_index >= first_index(st),
           snap.last_included_index <= last_index(st),
           NEW y, y = apply_snapshot(st, snap)
    PROVE  /\ Aligned(y) /\ last_index(y) = last_index(st)
           /\ \A k \in 1 .. Len(st.entries) :
                 st.entries[k].index > snap.last_included_index =>
                    \E j \in 1 .. Len(y.entries) : y.entries[j] = st.entries[k]
<1> DEFINE i == snap.last_included_index
           drop == i - first_index(st) + 1
           from == drop + 1
           l == Len(st.entries)
           kept == SubSeq(st.entries, from, l)
<1>1. /\ st.entries \in Seq(Entry) /\ l \in Nat /\ i \in Nat
      /\ first_index(st) \in Nat /\ first_index(st) >= 1
      /\ last_index(st) = first_index(st) + l - 1
  <2>1. st.entries \in Seq(Entry) /\ st.snapshot.last_included_index \in Nat /\ i \in Nat
    BY DEF Store, Snapshot
  <2>2. first_index(st) \in Nat /\ first_index(st) >= 1 /\ l \in Nat
    BY <2>1 DEF first_index
  <2> QED  BY <2>1, <2>2, AlignedLast
<1>2. /\ drop \in Nat /\ drop >= 1 /\ drop <= l /\ first_index(st) + drop = i + 1
      /\ from \in Nat /\ from = drop + 1
  BY <1>1
<1>3. y = [st EXCEPT !.entries = kept, !.snapshot = snap]
  <2>1. ~(drop <= 0)
    BY <1>2
  <2> QED  BY <2>1 DEF apply_snapshot
<1>3b. DOMAIN st.entries = 1 .. l
  BY <1>1
<1> HIDE DEF kept, i, drop, from, l
<1>3a. /\ l \in Nat /\ i \in Nat /\ drop \in Nat /\ drop <= l /\ first_index(st) \in Nat
       /\ first_index(st) + drop = i + 1 /\ last_index(st) = first_index(st) + l - 1
  BY <1>1, <1>2
<1>4. y.entries = kept /\ y.snapshot = snap
  BY <1>3 DEF Store
<1>5. kept \in Seq(Entry) /\ Len(kept) = l - drop /\ \A j \in 1 .. l - drop : kept[j] = st.entries[drop + j]
  <2>1. \A j \in from .. l : st.entries[j] \in Entry
    BY <1>3b, <1>1, <1>2
  <2>2. from \in Int /\ l \in Int
    BY <1>1, <1>2
  <2>3. /\ SubSeq(st.entries, from, l) \in Seq(Entry)
        /\ Len(SubSeq(st.entries, from, l)) = IF from <= l THEN l - from + 1 ELSE 0
        /\ \A j \in 1 .. l - from + 1 : SubSeq(st.entries, from, l)[j] = st.entries[from + j - 1]
    BY <2>1, <2>2, SubSeqProperties
  <2>4. Len(kept) = l - drop /\ l - from + 1 = l - drop
    BY <1>1, <1>2, <2>3 DEF kept
  <2>5. ASSUME NEW j \in 1 .. l - drop PROVE kept[j] = st.entries[drop + j]
    <3>1. from + j - 1 = drop + j /\ j \in 1 .. l - from + 1
      BY <1>1, <1>2
    <3> QED  BY <2>3, <3>1 DEF kept
  <2> QED  BY <2>3, <2>4, <2>5 DEF kept
<1>6. first_index(y) = i + 1
  BY <1>4 DEF first_index, i
<1>7. Aligned(y)
  <2> SUFFICES ASSUME NEW j \in 1 .. l - drop PROVE kept[j].index = i + 1 + j - 1
    BY <1>4, <1>5, <1>6 DEF Aligned
  <2>1. drop + j \in DOMAIN st.entries
    BY <1>3b, <1>1, <1>2
  <2>2. st.entries[drop + j].index = first_index(st) + (drop + j) - 1
    BY <2>1 DEF Aligned
  <2>3. first_index(st) + (drop + j) - 1 = i + 1 + j - 1
    BY <1>3a
  <2> QED  BY <1>5, <2>2, <2>3
<1>8. y \in Store
  BY ApplySnapshotType
<1>9. last_index(y) = last_index(st)
  <2>1. last_index(y) = first_index(y) + Len(y.entries) - 1
    BY <1>7, <1>8, AlignedLast
  <2>2. last_index(y) = (i + 1) + (l - drop) - 1
    BY <1>4, <1>5, <1>6, <2>1
  <2>3. ASSUME NEW f \in Nat, f + drop = i + 1
        PROVE  (i + 1) + (l - drop) - 1 = f + l - 1
    BY <1>3a, <2>3
  <2> QED  BY <1>3a, <2>2, <2>3
<1>10. ASSUME NEW k \in 1 .. l, st.entries[k].index > i
       PROVE  \E j \in 1 .. Len(y.entries) : y.entries[j] = st.entries[k]
  <2>1. st.entries[k].index = first_index(st) + k - 1
    BY <1>3b DEF Aligned
  <2> DEFINE j == k - drop
  <2>2. j \in 1 .. l - drop /\ drop + j = k
    BY <1>1, <1>2, <1>10, <2>1
  <2> QED  BY <1>4, <1>5, <2>2
<1> QED  BY <1>7, <1>9, <1>10 DEF i, l
\* The steps a cluster of one can take.
LEMMA SoloSteps ==
    ASSUME Silent, [Next]_vars, NEW n \in Server, Server = {n}
    PROVE  \/ UNCHANGED vars
           \/ start_election(n) \/ heartbeat(n)
           \/ \E cmd \in Command : on_proposal(n, cmd)
           \/ restore(n) \/ shutdown(n) \/ start(n) \/ compact(n)
<1>1. /\ net.vote_req = {} /\ net.vote_resp = {} /\ net.append_req = {}
      /\ net.append_resp = {} /\ net.snap_req = {} /\ net.snap_resp = {}
  BY DEF Silent, NoRpcs
<1> QED  BY <1>1 DEF Next

\* Nothing is ever sent.
LEMMA SilentStep ==
    ASSUME Silent, [Next]_vars, NEW n \in Server, Server = {n}
    PROVE  Silent'
<1>1. ASSUME start_election(n) PROVE net' = NoRpcs
  <2> DEFINE s  == become_candidate(sm[n], n)
             l  == become_leader(s, n, last_index(store[n]))
             nt == [net EXCEPT !.vote_req =
                       @ \cup {vote_request(n, s, store[n], p) : p \in Peers(n)}]
  <2>1. net' \in {nt, replicate_all(nt, n, l, store[n])}
    BY <1>1 DEF start_election
  <2>2. nt = NoRpcs
    BY SilentReplication DEF Silent, NoRpcs
  <2> HIDE DEF nt
  <2> QED  BY <2>1, <2>2, SilentReplication
<1>2. ASSUME heartbeat(n) PROVE net' = NoRpcs
  BY <1>2, SilentReplication DEF heartbeat, Silent
<1>3. ASSUME NEW cmd \in Command, on_proposal(n, cmd) PROVE net' = NoRpcs
  BY <1>3, SilentReplication DEF on_proposal, Silent
<1>4. ASSUME restore(n) \/ shutdown(n) \/ start(n) \/ compact(n) \/ UNCHANGED vars
      PROVE  net' = NoRpcs
  BY <1>4 DEF restore, shutdown, start, compact, vars, Silent
<1> QED  BY <1>1, <1>2, <1>3, <1>4, SoloSteps DEF Silent

\* A step that keeps log, commit index, callers and applied entries.
LEMMA AloneKept ==
    ASSUME NEW n \in Server, Alone(n),
           store'[n].entries = store[n].entries, store'[n].snapshot = store[n].snapshot,
           store'[n].hard_state.commit = store[n].hard_state.commit,
           applied'[n] = applied[n],
           \/ pending'[n] = {}
           \/ /\ pending'[n] = pending[n]
              /\ phase'[n] = "starting" => phase[n] = "starting"
    PROVE  Alone(n)'
<1>1. /\ Aligned(store'[n]) /\ last_index(store'[n]) = last_index(store[n])
  BY DEF Alone, Aligned, first_index, last_index
<1>2. \A p \in pending[n] : Waiting(n, p)'
  BY DEF Alone, Waiting
<1> QED  BY <1>1, <1>2 DEF Alone
\* The hard state has the commit index.
LEMMA CommitSaved ==
    ASSUME NEW s
    PROVE  hard_state_of(s).commit = s.commit_index
BY DEF hard_state_of

LEMMA SyncedCommit ==
    ASSUME HardStateSync, NEW n \in Server, phase[n] = "running"
    PROVE  store[n].hard_state.commit = sm[n].commit_index
<1>1. store[n].hard_state = hard_state_of(sm[n])
  BY DEF HardStateSync
<1> QED  BY <1>1, CommitSaved

\* Standing for election saves a new term and the same commit index.
LEMMA ElectionAlone ==
    ASSUME TypeInv, HardStateSync, NEW n \in Server, Alone(n), start_election(n)
    PROVE  Alone(n)'
<1> DEFINE s == become_candidate(sm[n], n)
<1>1. /\ sm[n] \in StateMachine /\ store[n] \in Store /\ s \in StateMachine
  BY CandidateType DEF TypeInv, TypeOK
<1>2. /\ store' = [store EXCEPT ![n] = Saved(store[n], s)]
      /\ pending' = pending /\ phase' = phase /\ applied' = applied /\ phase[n] = "running"
  BY DEF start_election
<1>3. s.commit_index = sm[n].commit_index
  BY <1>1 DEF become_candidate, StateMachine
<1> HIDE DEF s
<1>4. store'[n] = Saved(store[n], s)
  BY <1>2, StoreWritten
<1>5. store[n].hard_state.commit = sm[n].commit_index
  BY <1>2, SyncedCommit
<1>6. store'[n].hard_state.commit = s.commit_index
  BY <1>1, <1>4, SavedType, CommitSaved
<1>7. store'[n].entries = store[n].entries /\ store'[n].snapshot = store[n].snapshot
  BY <1>1, <1>4, SavedType
<1>8. store'[n].hard_state.commit = store[n].hard_state.commit
  BY <1>3, <1>5, <1>6
<1> QED  BY <1>2, <1>7, <1>8, AloneKept

\* A proposal goes behind everything the node committed.
LEMMA ProposalAlone ==
    ASSUME TypeInv, NEW n \in Server, Alone(n), NEW cmd \in Command, on_proposal(n, cmd)
    PROVE  Alone(n)'
<1> DEFINE e  == new_entry(n, cmd)
           st == append_entries(store[n], <<e>>)
           w  == [index |-> e.index, command |-> cmd]
<1>1. /\ sm[n] \in StateMachine /\ store[n] \in Store /\ store[n].entries \in Seq(Entry)
      /\ Len(store[n].entries) \in Nat
      /\ pending \in [Server -> SUBSET Pending] /\ last_index(store[n]) \in Nat
      /\ store[n].hard_state.commit \in Nat
  <2>1. sm[n] \in StateMachine /\ store[n] \in Store /\ pending \in [Server -> SUBSET Pending]
    BY DEF TypeInv, TypeOK
  <2>2. store[n].entries \in Seq(Entry) /\ store[n].hard_state \in HardState
    BY <2>1 DEF Store
  <2>3. Len(store[n].entries) \in Nat
    BY <2>2
  <2>4. store[n].hard_state.commit \in Nat
    BY <2>2 DEF HardState
  <2> QED  BY <2>1, <2>2, <2>3, <2>4, StoreIndexTypes
<1>2. /\ store' = [store EXCEPT ![n] = st] /\ Aligned(store[n])
      /\ pending' = [pending EXCEPT ![n] = @ \cup {w}]
      /\ phase' = phase /\ applied' = applied /\ phase[n] = "running"
  BY DEF on_proposal
<1>3. e \in Entry /\ e.index = last_index(store[n]) + 1 /\ e.data = cmd
  <2>1. e = [term |-> sm[n].current_term, index |-> last_index(store[n]) + 1, data |-> cmd]
    BY DEF new_entry
  <2>2. sm[n].current_term \in Nat /\ last_index(store[n]) + 1 \in Nat
    BY <1>1 DEF StateMachine
  <2> HIDE DEF e
  <2> QED  BY <2>1, <2>2 DEF Entry
<1>4. Aligned(st) /\ st.entries = Append(store[n].entries, e)
  BY <1>1, <1>2, <1>3, AppendAligned, AppendAtEnd
<1>5. st \in Store /\ st.snapshot = store[n].snapshot /\ st.hard_state = store[n].hard_state
  <2>1. <<e>> \in Seq(Entry) /\ <<e>> # <<>>
    BY <1>3
  <2>2. st.hard_state = store[n].hard_state
    BY <1>1 DEF append_entries, Store
  <2> QED  BY <1>1, <2>1, <2>2, AppendType
<1>6. w.index = e.index /\ w.command = e.data
  BY <1>3
<1> HIDE DEF st, e, w
<1>7. store'[n] = st
  BY <1>2, StoreWritten
<1>8. pending'[n] = pending[n] \cup {w}
  BY <1>1, <1>2
<1>9. /\ Len(st.entries) = Len(store[n].entries) + 1
      /\ \A k \in 1 .. Len(store[n].entries) : st.entries[k] = store[n].entries[k]
      /\ st.entries[Len(store[n].entries) + 1] = e
  BY <1>1, <1>3, <1>4
<1>10. last_index(st) = last_index(store[n]) + 1
  <2>1. st.entries # <<>> /\ st.entries[Len(st.entries)] = e
    BY <1>1, <1>4, <1>9
  <2> QED  BY <1>3, <2>1 DEF last_index
<1>11. ASSUME NEW p \in pending'[n] PROVE Waiting(n, p)'
  <2>1. CASE p = w
    <3>1. p.index > st.hard_state.commit
      BY <1>1, <1>3, <1>5, <1>6, <2>1 DEF Alone
    <3>2. Len(store[n].entries) + 1 \in 1 .. Len(st.entries)
      BY <1>1, <1>9
    <3> QED  BY <1>6, <1>7, <1>9, <2>1, <3>1, <3>2 DEF Waiting
  <2>2. CASE p \in pending[n]
    <3>1. p.index > store[n].hard_state.commit
      BY <2>2 DEF Alone, Waiting
    <3>2. PICK k \in 1 .. Len(store[n].entries) :
            store[n].entries[k].index = p.index /\ store[n].entries[k].data = p.command
      BY <2>2 DEF Alone, Waiting
    <3>3. k \in 1 .. Len(st.entries) /\ st.entries[k] = store[n].entries[k]
      BY <1>1, <1>9
    <3> QED  BY <1>5, <1>7, <3>1, <3>2, <3>3 DEF Waiting
  <2> QED  BY <1>8, <2>1, <2>2
<1>12. store'[n].hard_state.commit <= last_index(store'[n])
  BY <1>1, <1>5, <1>7, <1>10 DEF Alone
<1> QED  BY <1>2, <1>4, <1>5, <1>7, <1>11, <1>12 DEF Alone

\* The application's snapshot covers committed entries only.
LEMMA CompactAlone ==
    ASSUME TypeInv, NEW n \in Server, Alone(n), compact(n)
    PROVE  Alone(n)'
<1>1. store[n] \in Store /\ applied[n] \in Seq(Entry)
  BY DEF TypeInv, TypeOK
<1>2. PICK k \in DOMAIN applied[n] :
        /\ applied[n][k].index >= first_index(store[n])
        /\ store' = [store EXCEPT ![n] = apply_snapshot(@,
                    [last_included_index |-> applied[n][k].index,
                     last_included_term  |-> applied[n][k].term,
                     data                |-> SubSeq(applied[n], 1, k)])]
  BY DEF compact
<1> DEFINE snap == [last_included_index |-> applied[n][k].index,
                    last_included_term  |-> applied[n][k].term,
                    data                |-> SubSeq(applied[n], 1, k)]
           y == apply_snapshot(store[n], snap)
           i == snap.last_included_index
<1>3. applied[n][k] \in Entry /\ k \in 1 .. Len(applied[n]) /\ \A j \in 1 .. k : applied[n][j] \in Entry
  BY <1>1
<1>4. SubSeq(applied[n], 1, k) \in Seq(Entry)
  BY <1>3, SubSeqProperties
<1>5. snap \in Snapshot /\ i = applied[n][k].index
  BY <1>3, <1>4 DEF Snapshot, Entry
<1>6. store' = [store EXCEPT ![n] = y]
  BY <1>2
<1> HIDE DEF snap
<1>7. /\ i \in Nat /\ store[n].hard_state.commit \in Nat /\ last_index(store[n]) \in Nat
      /\ i <= store[n].hard_state.commit /\ i <= last_index(store[n])
  <2>1. store[n].hard_state \in HardState /\ i \in Nat
    BY <1>1, <1>5 DEF Store, Snapshot
  <2>2. store[n].hard_state.commit \in Nat
    BY <2>1 DEF HardState
  <2>3. /\ i <= store[n].hard_state.commit
        /\ store[n].hard_state.commit <= last_index(store[n])
    BY <1>3, <1>5 DEF Alone
  <2>4. last_index(store[n]) \in Nat
    BY <1>1, StoreIndexTypes
  <2> HIDE DEF i
  <2> QED  BY <2>1, <2>2, <2>3, <2>4
<1>8. /\ Aligned(y) /\ last_index(y) = last_index(store[n])
      /\ \A j \in 1 .. Len(store[n].entries) :
            store[n].entries[j].index > i =>
               \E l \in 1 .. Len(y.entries) : y.entries[l] = store[n].entries[j]
  <2>1. i >= first_index(store[n]) /\ Aligned(store[n])
    BY <1>2, <1>5 DEF Alone
  <2>2. /\ snap.last_included_index >= first_index(store[n])
        /\ snap.last_included_index <= last_index(store[n])
    BY <1>7, <2>1
  <2>3. y = apply_snapshot(store[n], snap)
    OBVIOUS
  <2> HIDE DEF y
  <2> QED  BY <1>1, <1>5, <2>1, <2>2, <2>3, SnapshotKeepsRest
<1>9. y.hard_state = store[n].hard_state
  BY <1>1, <1>5, ApplySnapshotType
<1> HIDE DEF y
<1>10. store'[n] = y
  BY <1>6, StoreWritten
<1>11. phase' = phase /\ pending' = pending /\ applied' = applied
  BY DEF compact
<1>12. ASSUME NEW p \in pending[n] PROVE Waiting(n, p)'
  <2>1. p.index > store[n].hard_state.commit
    BY DEF Alone, Waiting
  <2>2. PICK j \in 1 .. Len(store[n].entries) :
          store[n].entries[j].index = p.index /\ store[n].entries[j].data = p.command
    BY DEF Alone, Waiting
  <2>3. p.index \in Nat
    <3>1. p \in Pending
      BY DEF TypeInv, TypeOK
    <3> QED  BY <3>1 DEF Pending
  <2>4. store[n].entries[j].index > i
    BY <1>7, <2>1, <2>2, <2>3
  <2> QED  BY <1>8, <1>9, <1>10, <2>1, <2>2, <2>4 DEF Waiting
<1> QED  BY <1>8, <1>9, <1>10, <1>11, <1>12 DEF Alone
\* A heartbeat commits, saves, answers and applies: who is answered waited for an
\* entry that is committed with this very step.
LEMMA HeartbeatAlone ==
    ASSUME TypeInv, HardStateSync, AckedIsCommitted, NEW n \in Server, Alone(n), heartbeat(n)
    PROVE  Alone(n)' /\ AckedIsCommitted'
<1> DEFINE hc == store[n].hard_state.commit
           s  == sm[n]
           es == store[n].entries
<1>1. PICK c, out : Applies(n, c, out)
  BY HeartbeatApplies
<1>2. /\ s \in StateMachine /\ store[n] \in Store /\ es \in Seq(Entry) /\ hc \in Nat
      /\ s.commit_index \in Nat /\ s.last_applied \in Nat /\ last_index(store[n]) \in Nat
  <2>1. s \in StateMachine /\ store[n] \in Store
    BY DEF TypeInv, TypeOK
  <2>2. es \in Seq(Entry) /\ store[n].hard_state \in HardState
    BY <2>1 DEF Store
  <2>3. hc \in Nat
    BY <2>2 DEF HardState
  <2>4. s.commit_index \in Nat /\ s.last_applied \in Nat
    BY <2>1 DEF StateMachine
  <2> QED  BY <2>1, <2>2, <2>3, <2>4, StoreIndexTypes
<1>3. hc = s.commit_index /\ phase[n] = "running"
  BY SyncedCommit DEF heartbeat
<1>4. /\ c \in Nat /\ c >= s.commit_index /\ c <= last_index(store[n])
  BY <1>1, <1>2, <1>3 DEF Applies, Alone
<1>5. LogSame(n)
  BY <1>1, <1>2, CommitLog DEF Applies
<1>6. store'[n].hard_state.commit = c
  <2> DEFINE z == [s EXCEPT !.commit_index = c]
  <2>1. z \in StateMachine /\ z.commit_index = c
    BY <1>2, <1>4 DEF StateMachine
  <2>2. CASE c > s.commit_index
    <3>1. store' = [store EXCEPT ![n] = Saved(store[n], z)]
      BY <1>1, <2>2 DEF Applies, Commit
    <3> HIDE DEF z
    <3>2. store'[n] = Saved(store[n], z)
      BY <3>1, StoreWritten
    <3>3. Saved(store[n], z).hard_state = hard_state_of(z)
      BY <1>2, <2>1, SavedType
    <3> QED  BY <2>1, <3>2, <3>3, CommitSaved
  <2>3. CASE ~(c > s.commit_index)
    <3>1. store' = store
      BY <1>1, <2>3 DEF Applies, Commit
    <3> QED  BY <1>2, <1>3, <1>4, <2>3, <3>1
  <2> QED  BY <2>2, <2>3
<1>7. Aligned(store'[n]) /\ last_index(store'[n]) = last_index(store[n])
  BY <1>5 DEF LogSame, Alone, Aligned, first_index, last_index
<1>8. ASSUME NEW k \in 1 .. Len(applied'[n]) PROVE applied'[n][k].index <= c
  <2> DEFINE a == applied[n]
  <2>1. a \in Seq(Entry) /\ Len(a) \in Nat /\ applied \in [Server -> Seq(Entry)]
    <3>1. a \in Seq(Entry) /\ applied \in [Server -> Seq(Entry)]
      BY DEF TypeInv, TypeOK
    <3> QED  BY <3>1
  <2>2. applied'[n] = a \o out
    BY <1>1, <2>1 DEF Applies
  <2>3. \A j \in 1 .. Len(a) : a[j] \in Entry /\ a[j].index <= hc
    BY <2>1 DEF Alone
  <2>4. /\ out \in Seq(Entry) /\ Len(out) \in Nat
        /\ \A j \in 1 .. Len(out) : out[j].index = s.last_applied + j
        /\ Len(out) > 0 => s.last_applied + Len(out) <= c
    BY <1>1 DEF Applies
  <2> HIDE DEF a, s, hc
  <2>5. /\ Len(a \o out) = Len(a) + Len(out)
        /\ \A j \in 1 .. Len(a) : (a \o out)[j] = a[j]
        /\ \A j \in 1 .. Len(out) : (a \o out)[Len(a) + j] = out[j]
    BY <2>1, <2>4, ConcatSplit
  <2>6. CASE k <= Len(a)
    <3>1. k \in 1 .. Len(a) /\ applied'[n][k] = a[k]
      BY <2>1, <2>2, <2>4, <2>5, <2>6
    <3>2. a[k].index \in Nat /\ a[k].index <= hc
      <4>1. a[k] \in Entry /\ a[k].index <= hc
        BY <2>3, <3>1
      <4> QED  BY <4>1 DEF Entry
    <3> QED  BY <1>2, <1>3, <1>4, <3>1, <3>2
  <2>7. CASE k > Len(a)
    <3> DEFINE j == k - Len(a)
    <3>1. j \in 1 .. Len(out) /\ k = Len(a) + j
      BY <2>1, <2>2, <2>4, <2>5, <2>7
    <3> HIDE DEF j
    <3>2. applied'[n][k] = out[j] /\ out[j].index = s.last_applied + j
      BY <2>2, <2>4, <2>5, <3>1
    <3> QED  BY <1>2, <1>4, <2>4, <3>1, <3>2
  <2> QED  BY <2>1, <2>2, <2>4, <2>5, <2>6, <2>7
<1> DEFINE done == {p \in pending[n] : p.index <= c}
<1>9. pending'[n] = pending[n] \ done /\ acked' = acked \cup done
  <2>1. pending \in [Server -> SUBSET Pending]
    BY DEF TypeInv, TypeOK
  <2> QED  BY <1>1, <2>1 DEF Applies, Commit
<1>10. \A p \in pending[n] : p.index \in Nat /\ Waiting(n, p)
  <2>1. \A p \in pending[n] : p \in Pending
    BY DEF TypeInv, TypeOK
  <2> QED  BY <2>1 DEF Pending, Alone
<1>11. ASSUME NEW p \in pending'[n] PROVE Waiting(n, p)'
  <2>1. p \in pending[n] /\ p.index > c
    BY <1>4, <1>9, <1>10
  <2> QED  BY <1>5, <1>6, <1>10, <2>1 DEF Waiting, LogSame
<1>12. Alone(n)'
  <2>1. phase' = phase
    BY <1>1 DEF Applies
  <2> QED  BY <1>3, <1>4, <1>6, <1>7, <1>8, <1>11, <2>1 DEF Alone
<1>13. committed \subseteq committed'
  BY <1>1 DEF Applies, Commit
<1>14. ASSUME NEW p \in done
       PROVE  \E d \in committed' : d.entry.index = p.index /\ d.entry.data = p.command
  <2>1. /\ p.index \in Nat /\ p.index > hc /\ p.index <= c
    BY <1>10 DEF Waiting
  <2>2. PICK k \in 1 .. Len(es) : es[k].index = p.index /\ es[k].data = p.command
    BY <1>10 DEF Waiting
  <2>3. k \in DOMAIN es /\ es[k].index \in s.commit_index + 1 .. c
    BY <1>2, <1>3, <1>4, <2>1, <2>2
  <2> DEFINE d == [term |-> s.current_term, entry |-> es[k]]
  <2>4. d \in committed'
    BY <1>1, <2>3 DEF Applies, Commit
  <2>5. d.entry = es[k]
    OBVIOUS
  <2> HIDE DEF d
  <2> QED  BY <2>2, <2>4, <2>5
<1>15. AckedIsCommitted'
  BY <1>9, <1>13, <1>14 DEF AckedIsCommitted
<1> QED  BY <1>12, <1>15

\* "Returns when the entry is committed": in a cluster of one, the configuration of
\* the quick start, a caller of propose() who is told Ok(index) had its command
\* committed at that index, through any elections, restarts, compaction and
\* shutdowns.  (In larger clusters pending outlives a step-down: StalePending.)
THEOREM SoloAnswersTrue ==
    ASSUME NEW n \in Server, Server = {n}
    PROVE  Spec => []AckedIsCommitted
<1>1. Init => SoloInv
  <2> SUFFICES ASSUME Init PROVE SoloInv
    OBVIOUS
  <2>1. /\ store[n] = EmptyStore /\ applied[n] = <<>> /\ pending[n] = {}
        /\ phase[n] = "running" /\ net = NoRpcs /\ acked = {}
    BY DEF Init
  <2>2. Alone(n)
    BY <2>1 DEF Alone, EmptyStore, NoSnapshot, Aligned, last_index
  <2> QED  BY <2>1, <2>2, InitType, SyncInit DEF SoloInv, Silent, AckedIsCommitted
<1>2. SoloInv /\ [Next]_vars => SoloInv'
  <2> SUFFICES ASSUME SoloInv, [Next]_vars PROVE SoloInv'
    OBVIOUS
  <2>1. TypeInv /\ HardStateSync /\ Silent /\ Alone(n) /\ AckedIsCommitted
    BY DEF SoloInv
  <2>2. TypeInv' /\ HardStateSync' /\ Silent'
    BY <2>1, NextType, SyncStep, SilentStep
  <2>3. Alone(n)' /\ AckedIsCommitted'
    <3>1. CASE heartbeat(n)
      BY <2>1, <3>1, HeartbeatAlone
    <3>2. ASSUME UNCHANGED <<acked, committed>> PROVE AckedIsCommitted'
      BY <2>1, <3>2 DEF AckedIsCommitted
    <3>3. CASE start_election(n)
      BY <2>1, <3>2, <3>3, ElectionAlone DEF start_election
    <3>4. ASSUME NEW cmd \in Command, on_proposal(n, cmd) PROVE Alone(n)' /\ AckedIsCommitted'
      BY <2>1, <3>2, <3>4, ProposalAlone DEF on_proposal, history
    <3>5. CASE compact(n)
      BY <2>1, <3>2, <3>5, CompactAlone DEF compact, clientVars, history
    <3>6. CASE restore(n) \/ shutdown(n) \/ start(n) \/ UNCHANGED vars
      <4>1. /\ phase \in [Server -> {"starting", "running", "stopped"}]
            /\ pending \in [Server -> SUBSET Pending]
        BY <2>1 DEF TypeInv, TypeOK
      <4>2. /\ store' = store /\ applied' = applied /\ UNCHANGED <<acked, committed>>
            /\ \/ pending'[n] = {}
               \/ pending'[n] = pending[n] /\ (phase'[n] = "starting" => phase[n] = "starting")
        BY <3>6, <4>1 DEF restore, shutdown, start, vars, clientVars, history
      <4> QED  BY <2>1, <3>2, <4>2, AloneKept
    <3> QED  BY <2>1, <3>1, <3>3, <3>4, <3>5, <3>6, SoloSteps
  <2> QED  BY <2>2, <2>3 DEF SoloInv
<1>3. SoloInv => AckedIsCommitted
  BY DEF SoloInv
<1> QED  BY <1>1, <1>2, <1>3, PTL DEF Spec

=============================================================================
