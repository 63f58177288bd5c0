---------------------------- MODULE CommitProofs ----------------------------
(***************************************************************************)
(* Commitment: what a quorum holds no later leader loses.  Proved for      *)
(* every cluster in which                                                  *)
(*   Orderly: no response is handled late and no RPC is sent twice (a      *)
(*     leader's RPCs to a peer do not overtake each other), nodes serve    *)
(*     only once restored, and applications take no snapshots;             *)
(*   Caught: what a leader has yet to send a peer fits one request.        *)
(* on_append_entries cuts off the log after the request's last entry, so a *)
(* request that ends before the leader's log does can take from a follower *)
(* entries of the leader's that it acknowledged to an earlier one.  Caught *)
(* excludes that, and BacklogsFit shows a bound on constants that gives it.*)
(***************************************************************************)
EXTENDS RaftHistory, ServiceProofs

-----------------------------------------------------------------------------
(* Logs that agree.                                                        *)

\* a and b hold the same entries up to i.
SameTo(a, b, i) ==
    /\ i <= Len(a) /\ i <= Len(b)
    /\ \A k \in 1 .. i : a[k] = b[k]

LEMMA SameSymmetric ==
    ASSUME NEW a, NEW b, NEW i, SameTo(a, b, i)
    PROVE  SameTo(b, a, i)
BY DEF SameTo

LEMMA SameShorter ==
    ASSUME NEW a, NEW b, Len(a) \in Nat, Len(b) \in Nat,
           NEW i \in Nat, NEW j \in Nat, SameTo(a, b, i), j <= i
    PROVE  SameTo(a, b, j)
BY DEF SameTo

LEMMA SameTransitive ==
    ASSUME NEW a, NEW b, NEW c, Len(a) \in Nat, Len(b) \in Nat, Len(c) \in Nat,
           NEW i \in Nat, SameTo(a, b, i), SameTo(b, c, i)
    PROVE  SameTo(a, c, i)
BY DEF SameTo

LEMMA SameSelf ==
    ASSUME NEW a, NEW i \in Nat, i <= Len(a)
    PROVE  SameTo(a, a, i)
BY DEF SameTo

\* Whatever agrees with the beginning of a log agrees with the log, and up to the
\* beginning's end the other way round.
LEMMA SameExtended ==
    ASSUME NEW a, NEW b, NEW c, Len(a) \in Nat, Len(b) \in Nat, Len(c) \in Nat,
           SameTo(b, c, Len(b)), NEW i \in Nat, i <= Len(b)
    PROVE  SameTo(a, b, i) <=> SameTo(a, c, i)
BY DEF SameTo

-----------------------------------------------------------------------------
(* What a step adds to the history.                                        *)

\* opening, ledger and acks after a step.
Recorded ==
    /\ DOMAIN opening' = Terms' /\ DOMAIN ledger' = Terms' /\ Terms \subseteq Terms'
    /\ opening' = [t \in Terms' |-> opening'[t]] /\ ledger' = [t \in Terms' |-> ledger'[t]]
    /\ \A t \in Terms : opening'[t] = opening[t]
    /\ \A t \in Terms', n \in Server : Leading(sm'[n], t) => ledger'[t] = store'[n].entries
    /\ \A t \in Terms' : (\A n \in Server : ~Leading(sm'[n], t)) => t \in Terms /\ ledger'[t] = ledger[t]
    /\ \A t \in Terms' \ Terms : opening'[t] = ledger'[t]
    /\ acks \subseteq acks'
    /\ \A a \in acks' : a \in acks \/ a \in Acknowledged'
    /\ Acknowledged' \subseteq acks'

\* The history as far as it does not depend on the step.
HistoryBase ==
    /\ DOMAIN opening = Terms /\ DOMAIN ledger = Terms
    /\ opening \in [Terms -> Seq(Entry)] /\ ledger \in [Terms -> Seq(Entry)]
    /\ \A t \in Terms, n \in Server : Leading(sm[n], t) => ledger[t] = store[n].entries
    /\ Acknowledged \subseteq acks

\* Who wins an election leads after the step.
LEMMA NewLeader ==
    ASSUME TypeInv, [Next]_vars, NEW l \in leaders', l \notin leaders
    PROVE  l[2] \in Server /\ Leading(sm'[l[2]], l[1])
<1>1. PICK n \in Server : Standing(n) \/ \E m \in net.vote_resp : Counting(n, m)
  <2>1. leaders' # leaders
    OBVIOUS
  <2>2. \A n \in Server, m \in net.vote_req : ~Granting(n, m)
    BY <2>1 DEF Granting
  <2> QED  BY <2>1, <2>2, HistoryKept, ElectionSteps
<1>2. l = <<sm'[n].current_term, n>> /\ sm'[n].role = "Leader"
  <2>1. CASE Standing(n)
    BY <2>1 DEF Standing
  <2>2. CASE \E m \in net.vote_resp : Counting(n, m)
    <3>1. PICK m \in net.vote_resp : Counting(n, m)
      BY <2>2
    <3> QED  BY <3>1 DEF Counting
  <2> QED  BY <1>1, <2>1, <2>2
<1> QED  BY <1>2 DEF Leading
\* A term has one leader, and the terms with a leader have been won.
LEMMA LeaderUnique ==
    ASSUME TypeInv', ElectionSafety', LeadersRecorded', NEW t, NEW n \in Server, Leading(sm'[n], t)
    PROVE  /\ t \in Terms'
           /\ LeaderLog(sm', store', t) = store'[n].entries
<1>1. \A p \in Server : Leading(sm'[p], t) => <<t, p>> \in leaders'
  BY DEF LeadersRecorded, Leading
<1>2. \A p \in Server : Leading(sm'[p], t) => p = n
  BY <1>1 DEF ElectionSafety
<1>3. t \in Terms'
  <2>1. <<t, n>> \in leaders' /\ <<t, n>>[1] = t
    BY <1>1
  <2> QED  BY <2>1 DEF Terms
<1>4. (CHOOSE p \in Server : Leading(sm'[p], t)) = n
  BY <1>2
<1> QED  BY <1>3, <1>4 DEF LeaderLog

LEMMA RecordedStep ==
    ASSUME HistoryBase, TypeInv, TypeInv', ElectionSafety', LeadersRecorded',
           [HistoryNext]_historyVars
    PROVE  Recorded
<1>1. [Next]_vars
  BY DEF HistoryNext, historyVars
<1>2. Terms \subseteq Terms'
  BY <1>1, LeadersGrow DEF Terms
<1>3. CASE Remember
  <2>1. \A t \in Terms' \ Terms : \E n \in Server : Leading(sm'[n], t)
    <3> SUFFICES ASSUME NEW t \in Terms', t \notin Terms PROVE \E n \in Server : Leading(sm'[n], t)
      OBVIOUS
    <3>1. PICK l \in leaders' : l[1] = t
      BY DEF Terms
    <3>2. l \notin leaders
      BY <3>1 DEF Terms
    <3> QED  BY <1>1, <3>1, <3>2, NewLeader
  <2>2. /\ opening' = [t \in Terms' |-> IF t \in DOMAIN opening THEN opening[t] ELSE LeaderLog(sm', store', t)]
        /\ ledger' = [t \in Terms' |-> IF \E n \in Server : Leading(sm'[n], t) THEN LeaderLog(sm', store', t)
                                       ELSE ledger[t]]
    BY <1>3 DEF Remember
  <2>3. /\ DOMAIN opening' = Terms' /\ DOMAIN ledger' = Terms'
        /\ opening' = [t \in Terms' |-> opening'[t]] /\ ledger' = [t \in Terms' |-> ledger'[t]]
    BY <2>2
  <2>4. \A t \in Terms : opening'[t] = opening[t]
    BY <1>2, <2>2 DEF HistoryBase
  <2>5. \A t \in Terms', n \in Server : Leading(sm'[n], t) => ledger'[t] = store'[n].entries
    BY <2>2, LeaderUnique
  <2>6. \A t \in Terms' : (\A n \in Server : ~Leading(sm'[n], t)) => t \in Terms /\ ledger'[t] = ledger[t]
    BY <2>1, <2>2
  <2>7. \A t \in Terms' \ Terms : opening'[t] = ledger'[t]
    BY <2>1, <2>2 DEF HistoryBase
  <2>8. acks' = acks \cup Acknowledged'
    BY <1>3 DEF Remember
  <2> QED  BY <1>2, <2>3, <2>4, <2>5, <2>6, <2>7, <2>8 DEF Recorded
<1>4. CASE UNCHANGED historyVars
  <2>1. UNCHANGED <<sm, store, leaders, net, opening, ledger, acks>>
    BY <1>4 DEF historyVars, vars
  <2>2. /\ Terms' = Terms /\ Acknowledged' = Acknowledged
    BY <2>1 DEF Terms, Acknowledged
  <2> QED  BY <2>1, <2>2 DEF Recorded, HistoryBase
<1> QED  BY <1>3, <1>4 DEF HistoryNext

-----------------------------------------------------------------------------
(* Logs and the ledgers they come from.                                    *)

\* Every entry of es was, with all that comes before it, in the log of the leader
\* of the entry's term.
Rooted(es, ld) ==
    \A i \in 1 .. Len(es) : es[i].term \in DOMAIN ld /\ SameTo(es, ld[es[i].term], i)

\* Some leader after term t and before term u was elected without the first i
\* entries of the leader of t.
Dropped(op, ld, t, i, u) ==
    \E v \in DOMAIN op : t < v /\ v < u /\ ~SameTo(op[v], ld[t], i)

\* es holds the first i entries of the leader of t, or a term before u dropped them.
Kept(es, op, ld, t, i, u) == SameTo(es, ld[t], i) \/ Dropped(op, ld, t, i, u)

\* What the leader of term t makes of the log it was elected with.
Led(op, ld, t) ==
    /\ SameTo(op[t], ld[t], Len(op[t]))
    /\ \A k \in 1 .. Len(op[t]) : op[t][k].term < t
    /\ \A k \in 1 .. Len(ld[t]) : k > Len(op[t]) => ld[t][k].term = t
    /\ \A k \in 1 .. Len(ld[t]) : \A j \in 1 .. k : ld[t][j].term <= ld[t][k].term
    /\ Rooted(ld[t], ld)

\* Openings are kept and ledgers get longer.
Grown(op, ld, op2, ld2) ==
    /\ DOMAIN op = DOMAIN ld /\ DOMAIN op2 = DOMAIN ld2 /\ DOMAIN op \subseteq DOMAIN op2
    /\ \A t \in DOMAIN op : op[t] \in Seq(Entry) /\ ld[t] \in Seq(Entry)
    /\ \A t \in DOMAIN op2 : op2[t] \in Seq(Entry) /\ ld2[t] \in Seq(Entry)
    /\ \A t \in DOMAIN op : op2[t] = op[t] /\ SameTo(ld[t], ld2[t], Len(ld[t]))

LEMMA SameKept ==
    ASSUME NEW op, NEW ld, NEW op2, NEW ld2, Grown(op, ld, op2, ld2),
           NEW es \in Seq(Entry), NEW t \in DOMAIN ld, NEW i \in Nat, i <= Len(ld[t])
    PROVE  SameTo(es, ld[t], i) <=> SameTo(es, ld2[t], i)
<1>1. /\ t \in DOMAIN op /\ t \in DOMAIN op2
      /\ Len(es) \in Nat /\ Len(ld[t]) \in Nat /\ Len(ld2[t]) \in Nat
      /\ SameTo(ld[t], ld2[t], Len(ld[t]))
  BY LenProperties DEF Grown
<1> QED  BY <1>1, SameExtended

LEMMA DroppedKept ==
    ASSUME NEW op, NEW ld, NEW op2, NEW ld2, Grown(op, ld, op2, ld2),
           DOMAIN op \subseteq Nat,
           NEW t \in DOMAIN ld, NEW i \in Nat, i <= Len(ld[t]),
           NEW u \in Nat, NEW w \in Nat, u <= w, Dropped(op, ld, t, i, u)
    PROVE  Dropped(op2, ld2, t, i, w)
<1>1. PICK v \in DOMAIN op : t < v /\ v < u /\ ~SameTo(op[v], ld[t], i)
  BY DEF Dropped
<1>2. v \in DOMAIN op2 /\ op2[v] = op[v] /\ op[v] \in Seq(Entry) /\ v \in Nat
  BY <1>1 DEF Grown
<1>3. ~SameTo(op2[v], ld2[t], i)
  BY <1>1, <1>2, SameKept
<1>4. v < w
  BY <1>1, <1>2
<1> QED  BY <1>1, <1>2, <1>3, <1>4 DEF Dropped

LEMMA RootedKept ==
    ASSUME NEW op, NEW ld, NEW op2, NEW ld2, Grown(op, ld, op2, ld2),
           NEW es \in Seq(Entry), Rooted(es, ld)
    PROVE  Rooted(es, ld2)
<1> SUFFICES ASSUME NEW i \in 1 .. Len(es)
             PROVE  es[i].term \in DOMAIN ld2 /\ SameTo(es, ld2[es[i].term], i)
  BY DEF Rooted
<1>1. es[i].term \in DOMAIN ld /\ SameTo(es, ld[es[i].term], i) /\ i \in Nat
  BY DEF Rooted
<1>2. i <= Len(ld[es[i].term])
  BY <1>1 DEF SameTo
<1>3. SameTo(es, ld2[es[i].term], i)
  BY <1>1, <1>2, SameKept
<1> QED  BY <1>1, <1>3 DEF Grown

\* The beginning of a rooted log is rooted.
LEMMA RootedShorter ==
    ASSUME NEW ld, NEW es \in Seq(Entry), NEW r \in Seq(Entry), SameTo(r, es, Len(r)),
           \A t \in DOMAIN ld : ld[t] \in Seq(Entry), Rooted(es, ld)
    PROVE  Rooted(r, ld)
<1> SUFFICES ASSUME NEW i \in 1 .. Len(r)
             PROVE  r[i].term \in DOMAIN ld /\ SameTo(r, ld[r[i].term], i)
  BY DEF Rooted
<1>1. Len(r) \in Nat /\ Len(es) \in Nat /\ i \in Nat
  BY LenProperties
<1>2. i \in 1 .. Len(es) /\ r[i] = es[i] /\ SameTo(r, es, i)
  BY <1>1 DEF SameTo
<1>3. es[i].term \in DOMAIN ld /\ SameTo(es, ld[es[i].term], i)
  BY <1>2 DEF Rooted
<1>4. Len(ld[es[i].term]) \in Nat
  BY <1>3, LenProperties
<1> QED  BY <1>1, <1>2, <1>3, <1>4, SameTransitive

\* Two rooted logs that agree on the term of an entry agree up to it.
LEMMA RootedMatch ==
    ASSUME NEW ld, NEW es \in Seq(Entry), NEW fs \in Seq(Entry), NEW i \in Nat \ {0},
           i <= Len(es), i <= Len(fs), es[i].term = fs[i].term,
           \A t \in DOMAIN ld : ld[t] \in Seq(Entry), Rooted(es, ld), Rooted(fs, ld)
    PROVE  SameTo(es, fs, i)
<1>1. Len(es) \in Nat /\ Len(fs) \in Nat /\ i \in 1 .. Len(es) /\ i \in 1 .. Len(fs)
  BY LenProperties
<1>2. /\ es[i].term \in DOMAIN ld
      /\ SameTo(es, ld[es[i].term], i) /\ SameTo(fs, ld[es[i].term], i)
  BY <1>1 DEF Rooted
<1>3. Len(ld[es[i].term]) \in Nat
  BY <1>2, LenProperties
<1> QED  BY <1>1, <1>2, <1>3, SameSymmetric, SameTransitive

\* The terms of a rooted log never decrease.
LEMMA RootedOrdered ==
    ASSUME NEW op, NEW ld, \A t \in DOMAIN ld : Led(op, ld, t),
           NEW es \in Seq(Entry), Rooted(es, ld),
           NEW k \in 1 .. Len(es), NEW j \in 1 .. k
    PROVE  es[j].term <= es[k].term
<1>1. Len(es) \in Nat /\ k \in Nat /\ j \in Nat /\ j <= k
  BY LenProperties
<1>2. es[k].term \in DOMAIN ld /\ SameTo(es, ld[es[k].term], k)
  BY DEF Rooted
<1>3. /\ k <= Len(ld[es[k].term]) /\ es[k] = ld[es[k].term][k] /\ es[j] = ld[es[k].term][j]
  BY <1>1, <1>2 DEF SameTo
<1> QED  BY <1>1, <1>2, <1>3 DEF Led

-----------------------------------------------------------------------------
(* What a step does to logs, ledgers and terms.                            *)

\* The environment under which commitment is proved: logs are not compacted, nodes
\* serve when they have restored their hard state, answers of past terms are not
\* delivered, and a leader's RPC to a peer replaces the outstanding one.
Orderly ==
    /\ ~AppSnapshots /\ ~ServeBeforeRestore /\ ~LateResponses /\ ~RedundantRpcs
    /\ ZeroId \notin Server

\* A step between states of which the earlier theorems hold, with its history.
Advance ==
    /\ [Next]_vars
    /\ MatchInv /\ MatchInv' /\ ElectionSafety /\ ElectionSafety' /\ TermsKept
    /\ HistoryBase /\ Recorded

LEMMA AdvanceBase ==
    ASSUME Advance
    PROVE  /\ TypeInv /\ TypeInv' /\ AlignInv /\ AlignInv' /\ LeaderInv /\ LeaderInv'
           /\ HardStateSync /\ HardStateSync' /\ VotesRecorded /\ VotesRecorded'
           /\ RolesOK /\ RolesOK' /\ TermsSaved /\ TermsSaved'
           /\ LeadersRecorded /\ LeadersRecorded'
           /\ RequestsFromLeaders /\ RequestsFromLeaders'
           /\ Unstarted /\ LeadersElected'
           /\ \A l \in leaders : Fresh(l)
BY DEF Advance, MatchInv, AlignInv, LeaderInv, ElectionInv, VoteInv

\* The fields the arguments below compute with.
LEMMA EntryOfLog ==
    ASSUME NEW es \in Seq(Entry), NEW k \in 1 .. Len(es)
    PROVE  es[k] \in Entry /\ es[k].term \in Nat /\ es[k].index \in Nat
<1>1. es[k] \in Entry
  BY ElementOfSeq
<1> QED  BY <1>1 DEF Entry

LEMMA NodeFields ==
    ASSUME TypeInv, NEW n \in Server
    PROVE  /\ store[n] \in Store /\ store[n].entries \in Seq(Entry) /\ Len(store[n].entries) \in Nat
           /\ store[n].hard_state.term \in Nat /\ store[n].hard_state.commit \in Nat
           /\ sm[n] \in StateMachine /\ sm[n].current_term \in Nat /\ sm[n].commit_index \in Nat
           /\ \A k \in 1 .. Len(store[n].entries) :
                 store[n].entries[k] \in Entry /\ store[n].entries[k].term \in Nat
<1>1. /\ store[n] \in Store /\ sm[n] \in StateMachine
  BY DEF TypeInv, TypeOK
<1>2. /\ store[n].entries \in Seq(Entry) /\ Len(store[n].entries) \in Nat
      /\ store[n].hard_state.term \in Nat /\ store[n].hard_state.commit \in Nat
      /\ sm[n].current_term \in Nat /\ sm[n].commit_index \in Nat
  BY <1>1 DEF Store, HardState, StateMachine
<1>3. ASSUME NEW k \in 1 .. Len(store[n].entries)
      PROVE  store[n].entries[k] \in Entry /\ store[n].entries[k].term \in Nat
  BY <1>2, EntryOfLog
<1> QED  BY <1>1, <1>2, <1>3

LEMMA NodeFieldsAfter ==
    ASSUME TypeInv', NEW n \in Server
    PROVE  /\ store'[n] \in Store /\ store'[n].entries \in Seq(Entry) /\ Len(store'[n].entries) \in Nat
           /\ store'[n].hard_state.term \in Nat /\ store'[n].hard_state.commit \in Nat
           /\ sm'[n] \in StateMachine /\ sm'[n].current_term \in Nat /\ sm'[n].commit_index \in Nat
           /\ \A k \in 1 .. Len(store'[n].entries) :
                 store'[n].entries[k] \in Entry /\ store'[n].entries[k].term \in Nat
<1>1. /\ store'[n] \in Store /\ sm'[n] \in StateMachine
  BY DEF TypeInv, TypeOK
<1>2. /\ store'[n].entries \in Seq(Entry) /\ Len(store'[n].entries) \in Nat
      /\ store'[n].hard_state.term \in Nat /\ store'[n].hard_state.commit \in Nat
      /\ sm'[n].current_term \in Nat /\ sm'[n].commit_index \in Nat
  BY <1>1 DEF Store, HardState, StateMachine
<1>3. ASSUME NEW k \in 1 .. Len(store'[n].entries)
      PROVE  store'[n].entries[k] \in Entry /\ store'[n].entries[k].term \in Nat
  BY <1>2, EntryOfLog
<1> QED  BY <1>1, <1>2, <1>3

LEMMA LogMoves ==
    ASSUME Orderly, Advance, NEW p \in Server
    PROVE  LogGrows(p)
<1>1. TypeInv /\ AlignInv /\ [Next]_vars /\ ~AppSnapshots
  BY AdvanceBase DEF Advance, Orderly
<1>2. CASE store' = store
  BY <1>2 DEF LogGrows, LogSame
<1>3. ASSUME NEW n \in Server, NodeStep(n) PROVE LogGrows(p)
  <2>1. CASE p # n
    BY <1>3, <2>1 DEF NodeStep, LogStep, LogGrows
  <2>2. CASE p = n
    BY <1>1, <1>3, <2>2, WholeLogStep
  <2> QED  BY <2>1, <2>2
<1>4. ASSUME NEW n \in Server, restore(n) \/ shutdown(n) \/ start(n) PROVE store' = store
  BY <1>4 DEF restore, shutdown, start
<1> QED  BY <1>1, <1>2, <1>3, <1>4, NodeSteps

\* The receiver of a leader's entries does not lead, and is in the leader's term.
LEMMA Overwritten ==
    ASSUME Advance, NEW n \in Server, NEW m \in net.append_req, Overwrites(n, m)
    PROVE  /\ m.term \in Terms /\ sm'[n].current_term = m.term /\ sm'[n].role # "Leader"
           /\ store'[n].hard_state.term = m.term
<1>1. m.to = n /\ sm'[n].current_term = m.term
  BY DEF Overwrites
<1>2. sm'[n].role # "Leader"
  BY <1>1, AdvanceBase, ReceiverFollows DEF Advance
<1>3. <<m.term, m.leader_id>> \in leaders
  BY AdvanceBase DEF RequestsFromLeaders
<1>4. m.term \in Terms
  <2>1. <<m.term, m.leader_id>>[1] = m.term
    OBVIOUS
  <2> QED  BY <1>3, <2>1 DEF Terms
<1>5. m.term > 0
  <2>1. LeaderTerms
    BY AdvanceBase DEF LeaderInv
  <2> QED  BY <1>3, <2>1 DEF LeaderTerms
<1>6. store'[n].hard_state.term = m.term
  BY <1>1, <1>5, AdvanceBase DEF TermsSaved
<1> QED  BY <1>1, <1>2, <1>4, <1>6

\* Who stands or leads did so before, in the same term, or has just begun a term.
LEMMA RoleSince ==
    ASSUME Advance, NEW p \in Server, sm'[p].role # "Follower"
    PROVE  \/ sm[p].role # "Follower" /\ sm'[p].current_term = sm[p].current_term
           \/ sm'[p].current_term > store[p].hard_state.term
<1>0. sm[p].current_term \in Nat /\ TypeInv /\ HardStateSync /\ RolesOK /\ [Next]_vars
  BY AdvanceBase DEF Advance, TypeInv, TypeOK, StateMachine
<1>1. CASE sm' = sm
  BY <1>1
<1>2. ASSUME NEW n \in Server, p # n, OthersStay(n)
      PROVE  sm'[p] = sm[p]
  BY <1>2 DEF OthersStay
<1>3. CASE Calm(p) \/ \E m \in net.vote_req : Granting(p, m)
  BY <1>3 DEF Calm, QuietNode, HigherNode, Granting
<1>4. CASE Standing(p)
  <2>1. sm'[p].current_term = sm[p].current_term + 1
    BY <1>4 DEF Standing
  <2>2. store[p].hard_state.term = sm[p].current_term
    <3>1. Synced(p)
      BY <1>0, <1>4 DEF Standing, HardStateSync, Synced
    <3> QED  BY <1>0, <3>1, SyncedFields
  <2> QED  BY <1>0, <2>1, <2>2
<1>5. CASE \E m \in net.vote_resp : Counting(p, m)
  BY <1>5 DEF Counting
<1>6. ASSUME NEW n \in Server, restore(n) PROVE sm'[p] = sm[p]
  <2>1. phase[n] = "starting" /\ sm'[n].role = sm[n].role
    BY <1>0, <1>6, RestoreFields DEF restore
  <2>2. p # n
    BY <1>0, <2>1 DEF RolesOK
  <2> QED  BY <1>0, <1>6, <2>2, RestoreFields
<1>7. ASSUME NEW n \in Server, start(n) PROVE sm'[p] = sm[p]
  BY <1>0, <1>7, StartFields
<1>8. ASSUME NEW n \in Server, shutdown(n) PROVE sm' = sm
  BY <1>8 DEF shutdown
<1>9. ASSUME NEW n \in Server, p # n,
             \/ Calm(n) \/ Standing(n)
             \/ \E m \in net.vote_req : Granting(n, m)
             \/ \E m \in net.vote_resp : Counting(n, m)
      PROVE  OthersStay(n)
  BY <1>9 DEF Calm, Standing, Granting, Counting
<1> QED  BY <1>0, <1>1, <1>2, <1>3, <1>4, <1>5, <1>6, <1>7, <1>8, <1>9, ElectionSteps

\* A node that stands or leads in a term nobody had won keeps its log.
LEMMA OpenLogSame ==
    ASSUME Orderly, Advance, NEW p \in Server, sm'[p].current_term \notin Terms
    PROVE  LogSame(p)
<1>1. ASSUME Extends(p) PROVE FALSE
  <2>1. sm[p].role = "Leader" /\ sm' = sm
    BY <1>1 DEF Extends
  <2>2. <<sm[p].current_term, p>> \in leaders /\ <<sm[p].current_term, p>>[1] = sm[p].current_term
    BY <2>1, AdvanceBase DEF LeadersRecorded
  <2> QED  BY <2>1, <2>2 DEF Terms
<1>2. ASSUME NEW m \in net.append_req, Overwrites(p, m) PROVE FALSE
  BY <1>2, Overwritten
<1> QED  BY <1>1, <1>2, LogMoves DEF LogGrows

\* The ledger of a won term stays as it is, or its leader appends an entry of the
\* term.
LEMMA LedgerMoves ==
    ASSUME Orderly, Advance, NEW t \in Terms
    PROVE  \/ ledger'[t] = ledger[t]
           \/ \E e \in Entry : e.term = t /\ ledger'[t] = Append(ledger[t], e)
<1>0. t \in Terms'
  BY DEF Advance, Recorded
<1>1. CASE \A n \in Server : ~Leading(sm'[n], t)
  BY <1>0, <1>1 DEF Advance, Recorded
<1>2. ASSUME NEW n \in Server, Leading(sm'[n], t)
      PROVE  \/ ledger'[t] = ledger[t]
             \/ \E e \in Entry : e.term = t /\ ledger'[t] = Append(ledger[t], e)
  <2>1. sm'[n].role = "Leader" /\ sm'[n].current_term = t /\ ledger'[t] = store'[n].entries
    BY <1>0, <1>2 DEF Leading, Advance, Recorded
  <2>2. <<t, n>> \in leaders
    <3>1. PICK l \in leaders : l[1] = t
      BY DEF Terms
    <3>2. <<t, n>> \in leaders' /\ l \in leaders' /\ <<t, n>>[1] = t /\ <<t, n>>[2] = n
      BY <2>1, <3>1, AdvanceBase, LeadersGrow DEF LeadersRecorded, Advance
    <3>3. l[2] = n
      BY <3>1, <3>2 DEF Advance, ElectionSafety
    <3>4. l \in Nat \X Server
      BY AdvanceBase DEF TypeInv, TypeOK
    <3>5. l = <<t, n>>
      BY <3>1, <3>3, <3>4
    <3> QED  BY <3>5
  <2>3. sm[n].role = "Leader" /\ sm[n].current_term = t
    BY <2>1, <2>2, AdvanceBase, LeaderSince DEF Advance
  <2>4. ledger[t] = store[n].entries
    BY <2>3 DEF Advance, HistoryBase, Leading
  <2>5. CASE LogSame(n)
    BY <2>1, <2>4, <2>5 DEF LogSame
  <2>6. ASSUME NEW cmd \in Command, new_entry(n, cmd) \in Entry,
               store'[n].entries = Append(store[n].entries, new_entry(n, cmd))
        PROVE  \E e \in Entry : e.term = t /\ ledger'[t] = Append(ledger[t], e)
    <3>1. new_entry(n, cmd).term = t
      BY <2>3 DEF new_entry
    <3> QED  BY <2>1, <2>4, <2>6, <3>1
  <2>7. ASSUME NEW m \in net.append_req, Overwrites(n, m) PROVE FALSE
    BY <2>1, <2>7, Overwritten
  <2> QED  BY <2>5, <2>6, <2>7, LogMoves DEF LogGrows
<1> QED  BY <1>1, <1>2

\* A term is won with the log its winner had before.
LEMMA NewLedger ==
    ASSUME Orderly, Advance, NEW t \in Terms', t \notin Terms
    PROVE  \E n \in Server :
              /\ Leading(sm'[n], t) /\ <<t, n>> \in leaders' /\ store'[n].hard_state.term = t
              /\ LogSame(n) /\ opening'[t] = store[n].entries /\ ledger'[t] = store[n].entries
<1>1. PICK n \in Server : Leading(sm'[n], t)
  BY DEF Advance, Recorded
<1>2. sm'[n].role = "Leader" /\ sm'[n].current_term = t
  BY <1>1 DEF Leading
<1>3. LogSame(n)
  BY <1>2, OpenLogSame
<1>4. <<t, n>> \in leaders' /\ t > 0
  BY <1>2, AdvanceBase DEF LeadersRecorded, RolesOK
<1>5. store'[n].hard_state.term = t
  BY <1>2, <1>4, AdvanceBase DEF TermsSaved
<1>6. opening'[t] = ledger'[t] /\ ledger'[t] = store'[n].entries
  BY <1>1 DEF Advance, Recorded
<1> QED  BY <1>1, <1>3, <1>4, <1>5, <1>6 DEF LogSame

LEMMA HistoryGrown ==
    ASSUME Orderly, Advance
    PROVE  Grown(opening, ledger, opening', ledger')
<1>1. /\ DOMAIN opening = Terms /\ DOMAIN ledger = Terms
      /\ DOMAIN opening' = Terms' /\ DOMAIN ledger' = Terms' /\ Terms \subseteq Terms'
      /\ \A t \in Terms : opening[t] \in Seq(Entry) /\ ledger[t] \in Seq(Entry)
      /\ \A t \in Terms : opening'[t] = opening[t]
  BY DEF Advance, HistoryBase, Recorded
<1>2. ASSUME NEW t \in Terms
      PROVE  ledger'[t] \in Seq(Entry) /\ SameTo(ledger[t], ledger'[t], Len(ledger[t]))
  <2>1. ledger[t] \in Seq(Entry) /\ Len(ledger[t]) \in Nat
    BY <1>1, LenProperties
  <2>2. CASE ledger'[t] = ledger[t]
    BY <2>1, <2>2, SameSelf
  <2>3. ASSUME NEW e \in Entry, ledger'[t] = Append(ledger[t], e)
        PROVE  ledger'[t] \in Seq(Entry) /\ SameTo(ledger[t], ledger'[t], Len(ledger[t]))
    BY <2>1, <2>3, AppendProperties DEF SameTo
  <2> QED  BY <2>2, <2>3, LedgerMoves
<1>3. ASSUME NEW t \in Terms', t \notin Terms
      PROVE  opening'[t] \in Seq(Entry) /\ ledger'[t] \in Seq(Entry)
  BY <1>3, NewLedger, AdvanceBase, NodeFields
<1> QED  BY <1>1, <1>2, <1>3 DEF Grown

LEMMA HistoryBaseStep ==
    ASSUME Orderly, Advance
    PROVE  HistoryBase'
<1>1. Grown(opening, ledger, opening', ledger')
  BY HistoryGrown
<1>2. /\ DOMAIN opening' = Terms' /\ DOMAIN ledger' = Terms'
      /\ opening' = [t \in Terms' |-> opening'[t]] /\ ledger' = [t \in Terms' |-> ledger'[t]]
  BY DEF Advance, Recorded
<1>3. opening' \in [Terms' -> Seq(Entry)] /\ ledger' \in [Terms' -> Seq(Entry)]
  BY <1>1, <1>2 DEF Grown
<1>4. /\ \A t \in Terms', n \in Server : Leading(sm'[n], t) => ledger'[t] = store'[n].entries
      /\ Acknowledged' \subseteq acks'
  BY DEF Advance, Recorded
<1> QED  BY <1>2, <1>3, <1>4 DEF HistoryBase, Leading

-----------------------------------------------------------------------------
(* What a follower does with a leader's entries.                           *)

\* es holds the entry before those of request m.
Joins(es, m) ==
    /\ m.prev_log_index <= Len(es)
    /\ m.prev_log_index = 0 \/ es[m.prev_log_index].term = m.prev_log_term

LastOf(m) == m.prev_log_index + Len(m.entries)

\* n takes the entries of m over, and its commit index as far as its log reaches.
Accepts(n, m) ==
    /\ Joins(store[n].entries, m)
    /\ IF m.entries = <<>> THEN store'[n].entries = store[n].entries
                           ELSE Spliced(store[n].entries, m, store'[n].entries)
    /\ \/ m.leader_commit <= sm[n].commit_index /\ sm'[n].commit_index = sm[n].commit_index
       \/ /\ m.leader_commit > sm[n].commit_index
          /\ sm'[n].commit_index = IF m.leader_commit <= Len(store'[n].entries)
                                   THEN m.leader_commit ELSE Len(store'[n].entries)

\* r tells the leader that n does not hold the entry before those of m.
Refuses(n, m, r) ==
    /\ ~r.success
    /\ r.conflict_index > 0 => r.term = m.term /\ r.conflict_index <= m.prev_log_index

Delivered(n, m) ==
    /\ m.to = n /\ phase[n] # "starting" /\ phase' = phase /\ applied' = applied
    /\ UNCHANGED <<committed, votes, leaders>>
    /\ \A p \in Server \ {n} : sm'[p] = sm[p] /\ store'[p] = store[p]
    /\ net'.append_req = net.append_req \ {m}
    /\ sm'[n].role = "Leader" =>
          /\ sm[n].role = "Leader" /\ sm'[n].current_term = sm[n].current_term
          /\ sm'[n].progress = sm[n].progress
    /\ \/ /\ Accepts(n, m) /\ m.term >= sm[n].current_term /\ sm'[n].current_term = m.term
          /\ \E r \in net'.append_resp :
                r.success /\ r.peer = n /\ r.term = m.term /\ r.req_last_index = LastOf(m)
       \/ sm'[n].commit_index = sm[n].commit_index /\ LogSame(n)
    /\ \A r \in net'.append_resp :
          \/ r \in net.append_resp
          \/ /\ r.peer = n /\ r.to = m.leader_id /\ r.req_last_index = LastOf(m)
             /\ \/ Refuses(n, m, r)
                \/ /\ r.term = m.term /\ r.conflict_index = 0
                   /\ sm'[n].current_term = m.term /\ Accepts(n, m)

LEMMA CommitBound ==
    ASSUME NEW st \in Store, Whole(st), NEW m
    PROVE  commit_bound(st, m) =
              IF m.leader_commit <= Len(st.entries) THEN m.leader_commit ELSE Len(st.entries)
BY WholeStore DEF commit_bound

\* The conflict index is an index of the leader's log.
LEMMA SearchBound ==
    ASSUME NEW st \in Store, Whole(st), NEW t, NEW upper \in Nat \ {0},
           NEW i \in Nat, IsFirstIndexOfTerm(st, t, upper, i)
    PROVE  i <= upper
<1>1. first_index(st) = 1
  BY WholeStore
<1>2. CASE first_index(st) >= upper
  BY <1>1, <1>2 DEF IsFirstIndexOfTerm
<1>3. CASE ~(first_index(st) >= upper)
  <2>1. i \in first_index(st) .. upper
    BY <1>3 DEF IsFirstIndexOfTerm
  <2> QED  BY <1>1, <2>1
<1> QED  BY <1>2, <1>3

LEMMA OnAppendDelivered ==
    ASSUME Orderly, AlignInv, \A p \in Server : Whole(store'[p]), TypeInv',
           NEW n \in Server, NEW m \in net.append_req, on_append_entries(n, m)
    PROVE  Delivered(n, m)
<1> DEFINE o  == Observe(sm[n], m.term, m.leader_id)
           s  == [o EXCEPT !.leader_id = m.leader_id]
           st == ObserveStore(store[n], sm[n], m.term, m.leader_id)
           appended == IF m.entries = <<>> THEN st ELSE append_entries(st, m.entries)
           c  == [s EXCEPT !.commit_index = commit_bound(appended, m)]
           Reply(success, i) == {append_response(n, m, s.current_term, success, i)}
           Answer(resps) ==
              net' = [net EXCEPT !.append_req = Rest(@, m), !.append_resp = @ \cup resps]
<1>1. /\ sm[n] \in StateMachine /\ store[n] \in Store /\ net \in Net /\ Whole(store[n])
      /\ sm[n].current_term \in Nat /\ TypeInv /\ sm[n].commit_index \in Nat
  BY DEF AlignInv, TypeInv, TypeOK, StateMachine
<1>2. /\ m.term \in Nat /\ m.leader_id \in Sender
      /\ m.entries \in Seq(Entry) /\ m.leader_commit \in Nat /\ m.prev_log_index \in Nat
  BY <1>1 DEF Net, AppendReq
<1>3. o \in StateMachine /\ st \in Store
  <2>1. LeaderProgress(n, sm[n])
    BY <1>1 DEF TypeInv, ProgressOK
  <2> QED  BY <1>1, <1>2, <2>1, ObserveType
<1>4. st.entries = store[n].entries /\ st.snapshot = store[n].snapshot
  BY <1>1, <1>2, ObservedLog
<1>5. Whole(st)
  BY <1>1, <1>4 DEF Whole, Aligned, first_index
<1>6. ~(m.term < sm[n].current_term) => o.current_term = m.term
  BY <1>1, <1>2, ObservedLeader
<1>7. o.commit_index = sm[n].commit_index
  BY <1>1 DEF Observe, become_follower, StateMachine
<1>8. /\ s \in StateMachine /\ s.current_term = o.current_term /\ s.commit_index = sm[n].commit_index
  BY <1>2, <1>3, <1>7 DEF StateMachine
<1>9. /\ m.to = n /\ phase[n] # "starting" /\ phase' = phase /\ applied' = applied
      /\ UNCHANGED <<committed, votes, leaders>>
  BY DEF on_append_entries, Serving, Orderly, history
<1>10. \/ sm' = sm /\ store' = store /\ m.term < sm[n].current_term /\ Answer(Reply(FALSE, 0))
       \/ /\ ~(m.term < sm[n].current_term)
          /\ sm' = [sm EXCEPT ![n] = s] /\ store' = [store EXCEPT ![n] = st]
          /\ \/ Answer(Reply(FALSE, m.prev_log_index))
             \/ Answer({})
             \/ /\ m.prev_log_index # 0
                /\ \E i \in 1 .. first_index(st) + m.prev_log_index :
                      /\ IsFirstIndexOfTerm(st, term(st, m.prev_log_index), m.prev_log_index, i)
                      /\ Answer(Reply(FALSE, i))
       \/ /\ ~(m.term < sm[n].current_term) /\ Consistent(st, m) /\ Answer(Reply(TRUE, 0))
          /\ \/ /\ ~(m.leader_commit > s.commit_index)
                /\ sm' = [sm EXCEPT ![n] = s] /\ store' = [store EXCEPT ![n] = appended]
             \/ /\ m.leader_commit > s.commit_index
                /\ sm' = [sm EXCEPT ![n] = c] /\ store' = [store EXCEPT ![n] = Saved(appended, c)]
  BY DEF on_append_entries, Consistent
<1>21. ASSUME sm'[n] = sm[n] \/ sm'[n] = s \/ sm'[n] = c
       PROVE  sm'[n].role = "Leader" =>
                 /\ sm[n].role = "Leader" /\ sm'[n].current_term = sm[n].current_term
                 /\ sm'[n].progress = sm[n].progress
  <2>1. /\ s.role = o.role /\ s.progress = o.progress
        /\ c.role = o.role /\ c.progress = o.progress /\ c.current_term = o.current_term
    <3> HIDE DEF o, appended
    <3> QED  BY <1>3, <1>8 DEF StateMachine
  <2>2. o.role = "Leader" => o = sm[n]
    BY <1>1 DEF Observe, become_follower, StateMachine
  <2> HIDE DEF o, s, c
  <2> QED  BY <1>8, <1>21, <2>1, <2>2
<1> HIDE DEF o, st, s
<1>11. ASSUME NEW rs, Answer(rs)
       PROVE  /\ net'.append_req = net.append_req \ {m}
              /\ net'.append_resp = net.append_resp \cup rs
  BY <1>1, <1>11 DEF Net, Rest, Orderly
<1>12. ASSUME NEW i, NEW r \in Reply(FALSE, i)
       PROVE  /\ r.peer = n /\ r.to = m.leader_id /\ r.req_last_index = LastOf(m)
              /\ r.term = s.current_term /\ ~r.success /\ r.conflict_index = i
  BY <1>12 DEF append_response, LastOf
<1>20. ASSUME NEW i, NEW r \in Reply(TRUE, i)
       PROVE  /\ r.peer = n /\ r.to = m.leader_id /\ r.req_last_index = LastOf(m)
              /\ r.term = s.current_term /\ r.success /\ r.conflict_index = i
  BY <1>20 DEF append_response, LastOf
<1> HIDE DEF Answer, Reply
<1>13. CASE sm' = sm /\ store' = store /\ m.term < sm[n].current_term /\ Answer(Reply(FALSE, 0))
  <2>1. /\ net'.append_req = net.append_req \ {m}
        /\ net'.append_resp = net.append_resp \cup Reply(FALSE, 0)
    BY <1>11, <1>13
  <2>2. ASSUME NEW r \in Reply(FALSE, 0) PROVE Refuses(n, m, r)
    <3>1. ~r.success /\ r.conflict_index = 0
      BY <1>12
    <3> QED  BY <3>1 DEF Refuses
  <2>3. LogSame(n)
    BY <1>13 DEF LogSame
  <2> QED  BY <1>9, <1>12, <1>13, <1>21, <2>1, <2>2, <2>3 DEF Delivered
<1>14. ASSUME ~(m.term < sm[n].current_term),
              sm' = [sm EXCEPT ![n] = s], store' = [store EXCEPT ![n] = st]
       PROVE  /\ sm'[n].commit_index = sm[n].commit_index /\ LogSame(n)
              /\ \A p \in Server \ {n} : sm'[p] = sm[p] /\ store'[p] = store[p]
              /\ s.current_term = m.term /\ sm'[n] = s
  BY <1>1, <1>4, <1>6, <1>8, <1>14, SmWritten, StoreWritten DEF LogSame
<1>15. CASE /\ ~(m.term < sm[n].current_term)
            /\ sm' = [sm EXCEPT ![n] = s] /\ store' = [store EXCEPT ![n] = st]
            /\ \E i \in Nat : Answer(Reply(FALSE, i)) /\ i <= m.prev_log_index
  <2>1. PICK i \in Nat : Answer(Reply(FALSE, i)) /\ i <= m.prev_log_index
    BY <1>15
  <2>2. /\ sm'[n].commit_index = sm[n].commit_index /\ LogSame(n)
        /\ \A p \in Server \ {n} : sm'[p] = sm[p] /\ store'[p] = store[p]
        /\ s.current_term = m.term /\ sm'[n] = s
    BY <1>14, <1>15
  <2>3. \A r \in Reply(FALSE, i) : Refuses(n, m, r)
    BY <1>12, <2>1, <2>2 DEF Refuses
  <2>4. /\ net'.append_req = net.append_req \ {m}
        /\ net'.append_resp = net.append_resp \cup Reply(FALSE, i)
    BY <1>11, <2>1
  <2>5. ASSUME NEW r \in net'.append_resp, r \notin net.append_resp
        PROVE  /\ r.peer = n /\ r.to = m.leader_id /\ r.req_last_index = LastOf(m)
               /\ r.term = s.current_term /\ Refuses(n, m, r)
    BY <1>12, <2>3, <2>4, <2>5
  <2> QED  BY <1>9, <1>21, <2>2, <2>4, <2>5 DEF Delivered
<1>16. CASE /\ ~(m.term < sm[n].current_term)
            /\ sm' = [sm EXCEPT ![n] = s] /\ store' = [store EXCEPT ![n] = st]
            /\ Answer({})
  <2>1. /\ net'.append_req = net.append_req \ {m}
        /\ net'.append_resp = net.append_resp \cup {}
    BY <1>11, <1>16
  <2> QED  BY <1>9, <1>14, <1>16, <1>21, <2>1 DEF Delivered
<1>17. CASE /\ ~(m.term < sm[n].current_term)
            /\ sm' = [sm EXCEPT ![n] = s] /\ store' = [store EXCEPT ![n] = st]
            /\ m.prev_log_index # 0
            /\ \E i \in 1 .. first_index(st) + m.prev_log_index :
                  /\ IsFirstIndexOfTerm(st, term(st, m.prev_log_index), m.prev_log_index, i)
                  /\ Answer(Reply(FALSE, i))
  <2>1. PICK i \in 1 .. first_index(st) + m.prev_log_index :
           /\ IsFirstIndexOfTerm(st, term(st, m.prev_log_index), m.prev_log_index, i)
           /\ Answer(Reply(FALSE, i))
    BY <1>17
  <2>2. i \in Nat /\ m.prev_log_index \in Nat \ {0}
    BY <1>2, <1>17
  <2>3. i <= m.prev_log_index
    BY <1>3, <1>5, <2>1, <2>2, SearchBound
  <2> QED  BY <1>15, <1>17, <2>1, <2>2, <2>3
<1>18. CASE /\ ~(m.term < sm[n].current_term) /\ Consistent(st, m) /\ Answer(Reply(TRUE, 0))
            /\ \/ /\ ~(m.leader_commit > s.commit_index)
                  /\ sm' = [sm EXCEPT ![n] = s] /\ store' = [store EXCEPT ![n] = appended]
               \/ /\ m.leader_commit > s.commit_index
                  /\ sm' = [sm EXCEPT ![n] = c] /\ store' = [store EXCEPT ![n] = Saved(appended, c)]
  <2>1. s.current_term = m.term
    BY <1>6, <1>8, <1>18
  <2>2. /\ Joins(store[n].entries, m)
        /\ IF m.entries = <<>> THEN appended.entries = store[n].entries
                               ELSE Spliced(store[n].entries, m, appended.entries)
    <3>1. Joins(st.entries, m)
      <4>1. /\ Len(st.entries) \in Nat /\ first_index(st) = 1
            /\ st.snapshot.last_included_index = 0
        BY <1>3, <1>5, WholeStore
      <4>2. CASE m.prev_log_index = 0
        BY <4>1, <4>2 DEF Joins
      <4>3. CASE m.prev_log_index # 0
        <5>1. ~LogCompacted(st, m.prev_log_index)
          BY <4>1, <1>2 DEF LogCompacted
        <5>2. ~LogUnavailable(st, m.prev_log_index) /\ term(st, m.prev_log_index) = m.prev_log_term
          BY <1>18, <4>3, <5>1 DEF Consistent
        <5>3. m.prev_log_index <= Len(st.entries)
          BY <1>2, <4>1, <5>2 DEF LogUnavailable
        <5>4. m.prev_log_index - first_index(st) + 1 = m.prev_log_index
          BY <1>2, <4>1
        <5>5. term(st, m.prev_log_index) = st.entries[m.prev_log_index].term
          BY <4>1, <4>3, <5>4 DEF term
        <5> QED  BY <5>2, <5>3, <5>5 DEF Joins
      <4> QED  BY <4>2, <4>3
    <3>2. m.entries # <<>> => Spliced(st.entries, m, append_entries(st, m.entries).entries)
      <4>1. m.entries # <<>> => 1 \in 1 .. Len(m.entries)
        BY <1>2
      <4>2. m.entries # <<>> => m.entries[1].index = m.prev_log_index + 1
        BY <4>1 DEF AlignInv, Numbered
      <4> QED  BY <1>2, <1>3, <1>5, <1>18, <4>2, AppendSplices
    <3> QED  BY <1>4, <3>1, <3>2
  <2>3. appended \in Store
    BY <1>2, <1>3, AppendType
  <2> HIDE DEF appended
  <2>4. commit_bound(appended, m) \in Nat /\ c \in StateMachine /\ c.current_term = s.current_term
    <3>1. commit_bound(appended, m) \in Nat
      BY <1>2, <2>3, StoreIndexTypes DEF commit_bound
    <3> QED  BY <1>8, <3>1 DEF StateMachine
  <2>5. c.commit_index = commit_bound(appended, m)
    BY <1>8 DEF StateMachine
  <2> HIDE DEF c
  <2>6. /\ \A p \in Server \ {n} : sm'[p] = sm[p] /\ store'[p] = store[p]
        /\ store'[n].entries = appended.entries /\ store'[n].snapshot = appended.snapshot
        /\ \/ m.leader_commit <= sm[n].commit_index /\ sm'[n] = s
           \/ m.leader_commit > sm[n].commit_index /\ sm'[n] = c
    <3>1. CASE /\ ~(m.leader_commit > s.commit_index)
               /\ sm' = [sm EXCEPT ![n] = s] /\ store' = [store EXCEPT ![n] = appended]
      <4>1. sm'[n] = s /\ store'[n] = appended
        BY <1>1, <3>1, SmWritten, StoreWritten
      <4>2. \A p \in Server \ {n} : sm'[p] = sm[p] /\ store'[p] = store[p]
        BY <1>1, <3>1, SmWritten, StoreWritten
      <4>3. m.leader_commit <= sm[n].commit_index
        BY <1>1, <1>2, <1>8, <3>1
      <4> QED  BY <4>1, <4>2, <4>3
    <3>2. CASE /\ m.leader_commit > s.commit_index
               /\ sm' = [sm EXCEPT ![n] = c] /\ store' = [store EXCEPT ![n] = Saved(appended, c)]
      <4>1. sm'[n] = c /\ store'[n] = Saved(appended, c)
        BY <1>1, <3>2, SmWritten, StoreWritten
      <4>2. \A p \in Server \ {n} : sm'[p] = sm[p] /\ store'[p] = store[p]
        BY <1>1, <3>2, SmWritten, StoreWritten
      <4>3. m.leader_commit > sm[n].commit_index
        BY <1>8, <3>2
      <4>4. Saved(appended, c).entries = appended.entries /\ Saved(appended, c).snapshot = appended.snapshot
        BY <2>3, <2>4, SavedType
      <4> QED  BY <4>1, <4>2, <4>3, <4>4
    <3> QED  BY <1>18, <3>1, <3>2
  <2>7. Whole(appended)
    BY <2>6 DEF Whole, Aligned, first_index
  <2>8. /\ sm'[n].current_term = m.term
        /\ \/ m.leader_commit <= sm[n].commit_index /\ sm'[n].commit_index = sm[n].commit_index
           \/ /\ m.leader_commit > sm[n].commit_index
              /\ sm'[n].commit_index = IF m.leader_commit <= Len(store'[n].entries)
                                       THEN m.leader_commit ELSE Len(store'[n].entries)
    BY <1>8, <2>1, <2>3, <2>4, <2>5, <2>6, <2>7, CommitBound
  <2>9. Accepts(n, m)
    BY <2>2, <2>6, <2>8 DEF Accepts
  <2>10. /\ net'.append_req = net.append_req \ {m}
         /\ net'.append_resp = net.append_resp \cup Reply(TRUE, 0)
    BY <1>11, <1>18
  <2>11. m.term >= sm[n].current_term
    BY <1>1, <1>2, <1>18
  <2>12. \E r \in net'.append_resp :
            r.success /\ r.peer = n /\ r.term = m.term /\ r.req_last_index = LastOf(m)
    <3>1. append_response(n, m, s.current_term, TRUE, 0) \in Reply(TRUE, 0)
      BY DEF Reply
    <3> DEFINE r == append_response(n, m, s.current_term, TRUE, 0)
    <3>2. r \in net'.append_resp
      BY <2>10, <3>1
    <3>3. r.success /\ r.peer = n /\ r.term = m.term /\ r.req_last_index = LastOf(m)
      BY <1>20, <2>1, <3>1
    <3> HIDE DEF r
    <3> QED  BY <3>2, <3>3, Zenon
  <2>13. \A r \in net'.append_resp :
            \/ r \in net.append_resp
            \/ /\ r.peer = n /\ r.to = m.leader_id /\ r.req_last_index = LastOf(m)
               /\ r.term = m.term /\ r.conflict_index = 0
    BY <1>20, <2>1, <2>10
  <2> QED  BY <1>9, <1>21, <2>6, <2>8, <2>9, <2>10, <2>11, <2>12, <2>13 DEF Delivered
<1>19. Answer(Reply(FALSE, m.prev_log_index)) =>
          \E i \in Nat : Answer(Reply(FALSE, i)) /\ i <= m.prev_log_index
  <2>1. m.prev_log_index <= m.prev_log_index
    BY <1>2
  <2> QED  BY <1>2, <2>1
<1> HIDE DEF appended, c
<1> QED  BY <1>10, <1>13, <1>15, <1>16, <1>17, <1>18, <1>19

-----------------------------------------------------------------------------
(* Which steps answer, ask for votes, commit and apply.                    *)

LEMMA ReplicateAnswers ==
    ASSUME NEW nt \in Net, NEW n, NEW s, NEW st, NEW r, r = replicate_all(nt, n, s, st)
    PROVE  /\ r.append_resp \subseteq nt.append_resp /\ r.snap_resp \subseteq nt.snap_resp
           /\ r.vote_req = nt.vote_req
<1> DEFINE q == Outstanding(nt, n)
<1>1. /\ q.append_resp \subseteq nt.append_resp /\ q.snap_resp \subseteq nt.snap_resp
      /\ q.vote_req = nt.vote_req
      /\ q = [vote_req |-> q.vote_req, vote_resp |-> q.vote_resp, append_req |-> q.append_req,
              append_resp |-> q.append_resp, snap_req |-> q.snap_req, snap_resp |-> q.snap_resp]
  BY DEF Outstanding, Net
<1> HIDE DEF q
<1>2. PICK x, y : r = [q EXCEPT !.append_req = x, !.snap_req = y]
  BY DEF replicate_all, q
<1> QED  BY <1>1, <1>2

\* What only some handlers do.
Messages ==
    /\ \/ \E n \in Server, m \in net.append_req : on_append_entries(n, m)
       \/ net'.append_resp \subseteq net.append_resp
    /\ \/ \E n \in Server : start_election(n)
       \/ net'.vote_req \subseteq net.vote_req
    /\ net'.snap_resp \subseteq net.snap_resp

LEMMA NetMoves ==
    ASSUME AlignInv, [Next]_vars
    PROVE  Messages
<1>0. net \in Net /\ net.snap_req = {}
  BY DEF AlignInv, TypeInv, TypeOK
<1> DEFINE Less == /\ net'.append_resp \subseteq net.append_resp
                   /\ net'.vote_req \subseteq net.vote_req
                   /\ net'.snap_resp \subseteq net.snap_resp
<1>1. Less => Messages
  BY DEF Messages
<1>2. CASE net' = net
  BY <1>1, <1>2
<1>3. ASSUME NEW s, NEW st, NEW p, net' = replicate_all(net, p, s, st) PROVE Less
  BY <1>0, <1>3, ReplicateAnswers
<1>4. ASSUME NEW p \in Server, start_election(p) PROVE Messages
  <2> DEFINE s  == become_candidate(sm[p], p)
             l  == become_leader(s, p, last_index(store[p]))
             x  == net.vote_req \cup {vote_request(p, s, store[p], q) : q \in Peers(p)}
             nt == [net EXCEPT !.vote_req = x]
  <2>1. net' = replicate_all(nt, p, l, store[p]) \/ net' = nt
    BY <1>4 DEF start_election
  <2> HIDE DEF s, l, x
  <2>2. nt.append_resp = net.append_resp /\ nt.snap_resp = net.snap_resp
    BY <1>0 DEF Net
  <2>3. ASSUME net' = replicate_all(nt, p, l, store[p])
        PROVE  net'.append_resp \subseteq nt.append_resp /\ net'.snap_resp \subseteq nt.snap_resp
    <3> DEFINE q == Outstanding(nt, p)
    <3>1. /\ q.append_resp \subseteq nt.append_resp /\ q.snap_resp \subseteq nt.snap_resp
          /\ q = [vote_req |-> q.vote_req, vote_resp |-> q.vote_resp, append_req |-> q.append_req,
                  append_resp |-> q.append_resp, snap_req |-> q.snap_req, snap_resp |-> q.snap_resp]
      BY <1>0 DEF Outstanding, Net
    <3> HIDE DEF q
    <3>2. PICK a, b : net' = [q EXCEPT !.append_req = a, !.snap_req = b]
      BY <2>3 DEF replicate_all, q
    <3> QED  BY <3>1, <3>2
  <2> QED  BY <1>4, <2>1, <2>2, <2>3 DEF Messages
<1>5. ASSUME NEW p \in Server, heartbeat(p) PROVE Messages
  <2>1. net' = replicate_all(net, p, sm[p], store[p])
    BY <1>5 DEF heartbeat
  <2> QED  BY <1>1, <1>3, <2>1
<1>6. ASSUME NEW p \in Server, NEW cmd \in Command, on_proposal(p, cmd) PROVE Messages
  <2>1. net' = replicate_all(net, p, sm[p], append_entries(store[p], <<new_entry(p, cmd)>>))
    BY <1>6 DEF on_proposal
  <2> QED  BY <1>1, <1>3, <2>1
<1>7. ASSUME NEW p \in Server, NEW m \in net.vote_req, on_request_vote(p, m) PROVE Messages
  <2>1. PICK b : net' = [net EXCEPT !.vote_req = @ \ {m}, !.vote_resp = @ \cup {b}]
    BY <1>7 DEF on_request_vote
  <2> QED  BY <1>0, <1>1, <2>1 DEF Net
<1>8. ASSUME NEW p \in Server, NEW m \in net.vote_resp, handle_vote_response(p, m) PROVE Messages
  <2> DEFINE nt == [net EXCEPT !.vote_resp = @ \ {m}]
             l  == become_leader([sm[p] EXCEPT !.votes_received = @ \cup {m.peer}], p, last_index(store[p]))
  <2>1. net' = replicate_all(nt, p, l, store[p]) \/ net' = nt
    BY <1>8 DEF handle_vote_response
  <2> HIDE DEF l
  <2>2. /\ nt \in Net /\ nt.append_resp = net.append_resp /\ nt.snap_resp = net.snap_resp
        /\ nt.vote_req = net.vote_req
    BY <1>0 DEF Net
  <2> HIDE DEF nt
  <2>3. net' = replicate_all(nt, p, l, store[p]) => Less
    BY <2>2, ReplicateAnswers
  <2> QED  BY <1>1, <2>1, <2>2, <2>3
<1>9. ASSUME NEW p \in Server, NEW m \in net.append_req, on_append_entries(p, m) PROVE Messages
  <2>1. PICK rs : net' = [net EXCEPT !.append_req = Rest(@, m), !.append_resp = @ \cup rs]
    BY <1>9 DEF on_append_entries
  <2>2. net'.vote_req = net.vote_req /\ net'.snap_resp = net.snap_resp
    BY <1>0, <2>1 DEF Net
  <2> QED  BY <1>9, <2>2 DEF Messages
<1>10. ASSUME NEW p \in Server, NEW m \in net.append_resp, handle_append_response(p, m) PROVE Messages
  <2>1. net' = [net EXCEPT !.append_resp = Rest(@, m)]
    BY <1>10 DEF handle_append_response
  <2> QED  BY <1>0, <1>1, <2>1 DEF Net, Rest
<1>11. ASSUME NEW p \in Server, NEW m \in net.snap_resp, handle_snapshot_response(p, m) PROVE Messages
  <2>1. net' = [net EXCEPT !.snap_resp = Rest(@, m)]
    BY <1>11 DEF handle_snapshot_response
  <2> QED  BY <1>0, <1>1, <2>1 DEF Net, Rest
<1>12. ASSUME NEW p \in Server, restore(p) \/ shutdown(p) \/ start(p) \/ compact(p) PROVE net' = net
  BY <1>12 DEF restore, shutdown, start, compact
<1>13. UNCHANGED vars => net' = net
  BY DEF vars
<1> HIDE DEF Less
<1> QED  BY <1>0, <1>2, <1>4, <1>5, <1>6, <1>7, <1>8, <1>9, <1>10, <1>11, <1>12, <1>13 DEF Next

\* The progress of a peer before and after its answer r.
Moved(g, h, r) ==
    /\ h.match_index = g.match_index \/ (r.success /\ h.match_index = r.req_last_index)
    /\ \/ h.next_index = h.match_index + 1
       \/ r.conflict_index > 0 /\ h.next_index = r.conflict_index
       \/ h.next_index <= g.next_index \/ h.next_index = 1

\* Leader n looks for a new commit index in state s and finds c.
Tallies(n, s, c) ==
    /\ phase[n] = "running" /\ sm[n].role = "Leader" /\ phase' = phase
    /\ s \in StateMachine /\ s.commit_index = sm[n].commit_index
    /\ s.current_term = sm[n].current_term
    /\ c \in CommitRange(s, store[n]) /\ IsNewCommit(s, store[n], c)
    /\ sm'[n].role = "Leader" /\ sm'[n].current_term = sm[n].current_term
    /\ sm'[n].progress = s.progress /\ sm'[n].commit_index = c
    /\ \A p \in Server \ {n} : sm'[p] = sm[p] /\ store'[p] = store[p]
    /\ committed' = committed \cup
          {[term |-> s.current_term, entry |-> store[n].entries[k]] :
              k \in {j \in DOMAIN store[n].entries :
                        store[n].entries[j].index \in s.commit_index + 1 .. c}}

\* ... in a heartbeat, and applies what is committed,
Beats(n, c) ==
    /\ Tallies(n, sm[n], c) /\ Aligned(store[n])
    /\ applied' = [applied EXCEPT ![n] = applied[n] \o ToApply(sm[n], store[n], c)]
    /\ sm'[n].last_applied = sm[n].last_applied + Len(ToApply(sm[n], store[n], c))

\* ... or after an answer.
Hearing(n, s, c, r) ==
    /\ Tallies(n, s, c)
    /\ applied' = applied
    /\ r.to = n /\ r.term = sm[n].current_term
    /\ Moved(sm[n].progress[r.peer], s.progress[r.peer], r)
    /\ \A p \in Server \ {r.peer} : s.progress[p] = sm[n].progress[p]
    /\ \A p \in Server : sm'[p].last_applied = sm[p].last_applied

\* What a new leader p knows of the others.
NoProgress(p) == [q \in Server |->
    IF q = p THEN Absent
    ELSE [next_index |-> Len(store[p].entries) + 1, match_index |-> 0]]

\* A node's commit index stays, and if it leads it did before or starts afresh.
Unmoved(p) ==
    /\ store'[p].hard_state.commit = store[p].hard_state.commit
    /\ sm'[p].role = "Leader" =>
          \/ /\ sm[p].role = "Leader" /\ sm'[p].current_term = sm[p].current_term
             /\ sm'[p].progress = sm[p].progress
          \/ sm'[p].progress = NoProgress(p)

NothingCommitted ==
    /\ committed' = committed /\ applied' = applied
    /\ \A p \in Server : Unmoved(p)

LEMMA HeartbeatBeats ==
    ASSUME TypeInv, NEW n \in Server, heartbeat(n)
    PROVE  \E c : Beats(n, c)
<1>1. PICK c \in CommitRange(sm[n], store[n]) :
         /\ Commit(n, sm[n], c)
         /\ applied' = [applied EXCEPT ![n] = @ \o ToApply(sm[n], store[n], c)]
         /\ sm' = [sm EXCEPT ![n].commit_index = c,
                             ![n].last_applied = @ + Len(ToApply(sm[n], store[n], c))]
  BY DEF heartbeat
<1>2. /\ phase[n] = "running" /\ sm[n].role = "Leader" /\ phase' = phase /\ Aligned(store[n])
      /\ sm[n] \in StateMachine /\ applied \in [Server -> Seq(Entry)]
  BY DEF heartbeat, TypeInv, TypeOK
<1>3. /\ sm'[n].role = "Leader" /\ sm'[n].current_term = sm[n].current_term
      /\ sm'[n].progress = sm[n].progress /\ sm'[n].commit_index = c
      /\ sm'[n].last_applied = sm[n].last_applied + Len(ToApply(sm[n], store[n], c))
      /\ \A p \in Server \ {n} : sm'[p] = sm[p]
  BY <1>1, <1>2 DEF TypeInv, TypeOK, StateMachine
<1>4. \A p \in Server \ {n} : store'[p] = store[p]
  BY <1>1 DEF Commit, TypeInv, TypeOK
<1>5. /\ IsNewCommit(sm[n], store[n], c)
      /\ committed' = committed \cup
          {[term |-> sm[n].current_term, entry |-> store[n].entries[k]] :
              k \in {j \in DOMAIN store[n].entries :
                        store[n].entries[j].index \in sm[n].commit_index + 1 .. c}}
  BY <1>1 DEF Commit
<1>6. Tallies(n, sm[n], c)
  BY <1>1, <1>2, <1>3, <1>4, <1>5 DEF Tallies
<1>7. applied' = [applied EXCEPT ![n] = applied[n] \o ToApply(sm[n], store[n], c)]
  BY <1>1, <1>2
<1> QED  BY <1>2, <1>3, <1>6, <1>7 DEF Beats

LEMMA AnswerTallied ==
    ASSUME Orderly, TypeInv, HardStateSync, HardStateSync',
           NEW n \in Server, NEW r \in net.append_resp, handle_append_response(n, r)
    PROVE  NothingCommitted \/ \E s, c : Hearing(n, s, c, r)
<1> DEFINE p == sm[n].progress[r.peer]
           match == IF p.match_index >= r.req_last_index THEN p.match_index ELSE r.req_last_index
           back == IF r.conflict_index > 0 THEN r.conflict_index
                   ELSE IF p.next_index > 2 THEN p.next_index - 1 ELSE 1
           g == IF r.success THEN [next_index |-> match + 1, match_index |-> match]
                             ELSE [p EXCEPT !.next_index = back]
           s == [sm[n] EXCEPT !.progress[r.peer] = g]
<1>1. /\ sm[n] \in StateMachine /\ store[n] \in Store /\ r \in AppendResp
      /\ sm[n].current_term \in Nat /\ sm[n].progress \in [Server -> Progress]
      /\ store \in [Server -> Store]
  BY DEF TypeInv, TypeOK, Net, StateMachine
<1>2. /\ r.peer \in Server /\ r.term \in Nat /\ r.req_last_index \in Nat /\ r.conflict_index \in Nat
      /\ p \in Progress /\ p.next_index \in Nat /\ p.match_index \in Nat
  BY <1>1 DEF AppendResp, Progress
<1>3. /\ g \in Progress /\ Moved(p, g, r)
  <2>1. CASE r.success
    BY <1>2, <2>1 DEF Progress, Moved
  <2>2. CASE ~r.success
    <3>1. g = [next_index |-> back, match_index |-> p.match_index]
      BY <1>2, <2>2 DEF Progress
    <3>2. /\ back \in Nat
          /\ \/ r.conflict_index > 0 /\ back = r.conflict_index
             \/ back <= p.next_index \/ back = 1
      BY <1>2
    <3>3. g \in Progress /\ g.next_index = back /\ g.match_index = p.match_index
      BY <1>2, <3>1, <3>2 DEF Progress
    <3> HIDE DEF p, g, back
    <3> QED  BY <3>2, <3>3 DEF Moved
  <2> QED  BY <2>1, <2>2
<1>4. /\ phase[n] = "running" /\ phase' = phase /\ r.to = n /\ r.term >= sm[n].current_term
      /\ applied' = applied
  BY DEF handle_append_response, Hears, Orderly
<1>5. \/ StepDown(n, r) /\ committed' = committed
      \/ sm' = sm /\ store' = store /\ committed' = committed
      \/ /\ r.term <= sm[n].current_term /\ sm[n].role = "Leader"
         /\ \E c \in CommitRange(s, store[n]) :
               /\ Commit(n, s, c)
               /\ sm' = [sm EXCEPT ![n] = [s EXCEPT !.commit_index = c]]
  BY DEF handle_append_response
<1> HIDE DEF g
<1>6. /\ s \in StateMachine /\ s.commit_index = sm[n].commit_index /\ s.role = sm[n].role
      /\ s.current_term = sm[n].current_term /\ s.last_applied = sm[n].last_applied
      /\ s.progress[r.peer] = g /\ \A q \in Server \ {r.peer} : s.progress[q] = sm[n].progress[q]
  BY <1>1, <1>2, <1>3 DEF StateMachine
<1> HIDE DEF s
<1>7. CASE StepDown(n, r) /\ committed' = committed
  <2>1. sm'[n] = become_follower(sm[n], r.term, None) /\ \A q \in Server \ {n} : sm'[q] = sm[q]
    BY <1>7, SmWritten DEF StepDown
  <2>2. \A q \in Server \ {n} : store'[q] = store[q]
    BY <1>1, <1>7 DEF StepDown
  <2>3. sm'[n].role = "Follower" /\ sm'[n].commit_index = sm[n].commit_index
    BY <1>1, <2>1, FollowerFields
  <2>4. store'[n].hard_state.commit = store[n].hard_state.commit
    BY <1>4, <2>3, CommitSaved DEF HardStateSync
  <2> QED  BY <1>4, <1>7, <2>1, <2>2, <2>3, <2>4 DEF NothingCommitted, Unmoved
<1>8. CASE sm' = sm /\ store' = store /\ committed' = committed
  BY <1>4, <1>8 DEF NothingCommitted, Unmoved
<1>9. ASSUME r.term <= sm[n].current_term, sm[n].role = "Leader",
             NEW c \in CommitRange(s, store[n]), Commit(n, s, c),
             sm' = [sm EXCEPT ![n] = [s EXCEPT !.commit_index = c]]
      PROVE  Hearing(n, s, c, r)
  <2>1. /\ sm'[n] = [s EXCEPT !.commit_index = c]
        /\ \A q \in Server \ {n} : sm'[q] = sm[q]
    BY <1>9, SmWritten
  <2>2. /\ sm'[n].role = "Leader" /\ sm'[n].current_term = sm[n].current_term
        /\ sm'[n].progress = s.progress /\ sm'[n].commit_index = c
        /\ sm'[n].last_applied = sm[n].last_applied
    BY <1>6, <1>9, <2>1 DEF StateMachine
  <2>3. \A q \in Server \ {n} : store'[q] = store[q]
    BY <1>1, <1>9 DEF Commit
  <2>4. /\ IsNewCommit(s, store[n], c)
        /\ committed' = committed \cup
            {[term |-> s.current_term, entry |-> store[n].entries[k]] :
                k \in {j \in DOMAIN store[n].entries :
                          store[n].entries[j].index \in s.commit_index + 1 .. c}}
    BY <1>9 DEF Commit
  <2>5. Tallies(n, s, c)
    BY <1>4, <1>6, <1>9, <2>1, <2>2, <2>3, <2>4 DEF Tallies
  <2>6. r.term = sm[n].current_term
    BY <1>1, <1>2, <1>4, <1>9
  <2> QED  BY <1>3, <1>4, <1>6, <2>1, <2>2, <2>5, <2>6 DEF Hearing
<1> QED  BY <1>5, <1>7, <1>8, <1>9

\* What is in memory and unchanged is unchanged on storage.
LEMMA CommitUnmoved ==
    ASSUME HardStateSync, HardStateSync', NEW n \in Server, phase[n] # "starting", phase' = phase,
           sm'[n].commit_index = sm[n].commit_index
    PROVE  store'[n].hard_state.commit = store[n].hard_state.commit
BY CommitSaved DEF HardStateSync

LEMMA NothingCommittedBy ==
    ASSUME HardStateSync, HardStateSync',
           NEW n \in Server, phase[n] # "starting", phase' = phase,
           committed' = committed, applied' = applied,
           \A p \in Server \ {n} : sm'[p] = sm[p] /\ store'[p] = store[p],
           sm'[n].commit_index = sm[n].commit_index,
           \/ sm'[n].role # "Leader"
           \/ /\ sm[n].role = "Leader" /\ sm'[n].current_term = sm[n].current_term
              /\ sm'[n].progress = sm[n].progress
           \/ sm'[n].progress = NoProgress(n)
    PROVE  NothingCommitted
<1>1. Unmoved(n)
  BY CommitUnmoved DEF Unmoved
<1>2. \A p \in Server \ {n} : Unmoved(p)
  BY DEF Unmoved
<1> QED  BY <1>1, <1>2 DEF NothingCommitted

LEMMA CommitSteps ==
    ASSUME Orderly, Advance, net.snap_resp = {}
    PROVE  \/ \E n \in Server, m \in net.append_req : Delivered(n, m)
           \/ \E n \in Server, c \in Nat : Beats(n, c)
           \/ \E n \in Server, r \in net.append_resp, s \in StateMachine, c \in Nat : Hearing(n, s, c, r)
           \/ NothingCommitted
<1> DEFINE Goal == \/ \E n \in Server, m \in net.append_req : Delivered(n, m)
                   \/ \E n \in Server, c \in Nat : Beats(n, c)
                   \/ \E n \in Server, r \in net.append_resp, s \in StateMachine, c \in Nat :
                         Hearing(n, s, c, r)
                   \/ NothingCommitted
<1>0. /\ TypeInv /\ TypeInv' /\ HardStateSync /\ HardStateSync' /\ AlignInv /\ RolesOK /\ [Next]_vars
      /\ net.snap_req = {} /\ ~AppSnapshots /\ ~ServeBeforeRestore
      /\ \A p \in Server : Whole(store[p])
  BY AdvanceBase DEF Advance, AlignInv, Orderly
<1>1. ASSUME NEW n \in Server
      PROVE  /\ sm[n] \in StateMachine /\ store[n] \in Store
             /\ last_index(store[n]) = Len(store[n].entries)
  BY <1>0, WholeStore DEF TypeInv, TypeOK
<1>2. ASSUME NEW n \in Server, NEW s, NEW c, Tallies(n, s, c)
      PROVE  s \in StateMachine /\ c \in Nat
  <2>1. s \in StateMachine /\ c \in CommitRange(s, store[n]) /\ last_index(store[n]) \in Nat
    BY <1>1, <1>2, StoreIndexTypes DEF Tallies
  <2> QED  BY <2>1 DEF CommitRange, StateMachine
<1>3. ASSUME NEW n \in Server, start_election(n) PROVE NothingCommitted
  <2> DEFINE s == become_candidate(sm[n], n)
             l == become_leader(s, n, last_index(store[n]))
  <2>1. /\ phase[n] = "running" /\ phase' = phase /\ committed' = committed /\ applied' = applied
        /\ store' = [store EXCEPT ![n] = Saved(@, s)]
        /\ \/ sm' = [sm EXCEPT ![n] = l] \/ sm' = [sm EXCEPT ![n] = s]
    BY <1>3 DEF start_election
  <2>2. /\ s \in StateMachine /\ s.role = "Candidate" /\ s.commit_index = sm[n].commit_index
    <3>1. s \in StateMachine
      BY <1>1, CandidateType
    <3>2. s.role = "Candidate" /\ s.commit_index = sm[n].commit_index
      BY <1>1 DEF become_candidate, StateMachine
    <3> QED  BY <3>1, <3>2
  <2>3. /\ l.commit_index = s.commit_index
        /\ l.progress = NoProgress(n)
    BY <1>1, <2>2 DEF become_leader, StateMachine, NoProgress
  <2> HIDE DEF s, l
  <2>4. /\ sm'[n] = l \/ sm'[n] = s
        /\ \A p \in Server \ {n} : sm'[p] = sm[p] /\ store'[p] = store[p]
    BY <1>0, <2>1, SmWritten, StoreWritten
  <2>5. phase[n] # "starting" /\ s.role # "Leader" /\ l.commit_index = sm[n].commit_index
    BY <2>1, <2>2, <2>3
  <2> QED  BY <1>0, <2>1, <2>2, <2>3, <2>4, <2>5, NothingCommittedBy
<1>4. ASSUME NEW n \in Server, NEW cmd \in Command, on_proposal(n, cmd) PROVE NothingCommitted
  <2> DEFINE y == append_entries(store[n], <<new_entry(n, cmd)>>)
  <2>1. /\ phase[n] = "running" /\ phase' = phase /\ committed' = committed /\ applied' = applied
        /\ store' = [store EXCEPT ![n] = y] /\ sm' = sm
    BY <1>4 DEF on_proposal, history
  <2> HIDE DEF y
  <2>2. \A p \in Server \ {n} : store'[p] = store[p]
    BY <1>0, <2>1, StoreWritten
  <2>3. store'[n].hard_state.commit = store[n].hard_state.commit
    BY <1>0, <2>1, CommitUnmoved
  <2> QED  BY <2>1, <2>2, <2>3 DEF NothingCommitted, Unmoved
<1>5. ASSUME NEW n \in Server, NEW m \in net.vote_req, on_request_vote(n, m) PROVE NothingCommitted
  <2> DEFINE s == Observe(sm[n], m.term, None)
             st == ObserveStore(store[n], sm[n], m.term, None)
             v == [s EXCEPT !.voted_for = m.candidate_id]
  <2>1. /\ phase[n] # "starting" /\ phase' = phase /\ committed' = committed /\ applied' = applied
        /\ \/ sm' = [sm EXCEPT ![n] = v] /\ store' = [store EXCEPT ![n] = Saved(st, v)]
           \/ sm' = [sm EXCEPT ![n] = s] /\ store' = [store EXCEPT ![n] = st]
    BY <1>0, <1>5 DEF on_request_vote, Serving
  <2>2. /\ s \in StateMachine /\ s.commit_index = sm[n].commit_index
        /\ s = sm[n] \/ s.role = "Follower"
    <3>1. m.term \in Nat /\ LeaderProgress(n, sm[n])
      BY <1>0 DEF TypeInv, TypeOK, ProgressOK, Net, VoteReq
    <3>2. s \in StateMachine
      BY <1>1, <3>1, ObserveType
    <3>3. s = sm[n] \/ s = become_follower(sm[n], m.term, None)
      BY DEF Observe
    <3> HIDE DEF s
    <3> QED  BY <1>1, <3>2, <3>3, FollowerFields
  <2>3. v.commit_index = s.commit_index /\ v.role = s.role /\ v.current_term = s.current_term
        /\ v.progress = s.progress
    BY <2>2 DEF StateMachine
  <2> HIDE DEF s, st, v
  <2>4. /\ s.role # "Leader" \/ (sm[n].role = "Leader" /\ s.current_term = sm[n].current_term
                                 /\ s.progress = sm[n].progress)
    BY <2>2
  <2>5. /\ sm'[n] = v \/ sm'[n] = s
        /\ \A p \in Server \ {n} : sm'[p] = sm[p] /\ store'[p] = store[p]
    BY <1>0, <2>1, SmWritten, StoreWritten
  <2> QED  BY <1>0, <2>1, <2>2, <2>3, <2>4, <2>5, NothingCommittedBy
<1>6. ASSUME NEW n \in Server, NEW m \in net.vote_resp, handle_vote_response(n, m) PROVE NothingCommitted
  <2> DEFINE s == [sm[n] EXCEPT !.votes_received = @ \cup {m.peer}]
             l == become_leader(s, n, last_index(store[n]))
             f == become_follower(sm[n], m.term, None)
  <2>1. /\ phase[n] = "running" /\ phase' = phase /\ committed' = committed /\ applied' = applied
        /\ \/ sm' = [sm EXCEPT ![n] = f] /\ store' = [store EXCEPT ![n] = Saved(@, sm'[n])]
           \/ sm' = [sm EXCEPT ![n] = l] /\ store' = store
           \/ sm' = [sm EXCEPT ![n] = s] /\ store' = store /\ sm[n].role = "Candidate"
           \/ sm' = sm /\ store' = store
    BY <1>6 DEF handle_vote_response, Hears, StepDown
  <2>2. /\ s.commit_index = sm[n].commit_index /\ s.role = sm[n].role
        /\ f.commit_index = sm[n].commit_index /\ f.role = "Follower"
        /\ l.commit_index = sm[n].commit_index
        /\ l.progress = NoProgress(n)
    BY <1>1 DEF become_leader, become_follower, StateMachine, NoProgress
  <2> HIDE DEF s, l, f
  <2>3. /\ \A p \in Server \ {n} : sm'[p] = sm[p] /\ store'[p] = store[p]
        /\ \/ sm'[n] = f \/ sm'[n] = l \/ sm'[n] = sm[n]
           \/ sm'[n] = s /\ sm[n].role = "Candidate"
    BY <1>0, <2>1, SmWritten, StoreWritten
  <2>4. phase[n] # "starting" /\ f.role # "Leader"
    BY <2>1, <2>2
  <2> QED  BY <1>0, <2>1, <2>2, <2>3, <2>4, NothingCommittedBy
<1>7. ASSUME NEW n \in Server, restore(n) \/ start(n) \/ shutdown(n) PROVE NothingCommitted
  <2>1. /\ store' = store /\ committed' = committed /\ applied' = applied
    BY <1>7 DEF restore, start, shutdown, history
  <2>2. ASSUME NEW p \in Server PROVE sm'[p] = sm[p] \/ sm'[p].role = "Follower"
    <3>1. CASE restore(n)
      <4>1. sm'[n].role = "Follower" /\ \A q \in Server \ {n} : sm'[q] = sm[q]
        BY <1>0, <3>1, RestoreFields DEF RolesOK, restore
      <4> QED  BY <4>1
    <3>2. CASE start(n)
      BY <1>0, <3>2, StartFields
    <3>3. CASE shutdown(n)
      BY <3>3 DEF shutdown
    <3> QED  BY <1>7, <3>1, <3>2, <3>3
  <2> QED  BY <2>1, <2>2 DEF NothingCommitted, Unmoved
<1>8. ASSUME NEW n \in Server, NEW m \in net.append_req, on_append_entries(n, m) PROVE Delivered(n, m)
  <2>1. \A p \in Server : Whole(store'[p])
    BY AdvanceBase DEF AlignInv
  <2> QED  BY <1>0, <1>8, <2>1, OnAppendDelivered
<1>9. ASSUME NEW n \in Server, heartbeat(n) PROVE Goal
  <2>1. PICK c : Beats(n, c)
    BY <1>0, <1>9, HeartbeatBeats
  <2>2. c \in Nat
    BY <1>2, <2>1 DEF Beats
  <2> QED  BY <2>1, <2>2
<1>10. ASSUME NEW n \in Server, NEW r \in net.append_resp, handle_append_response(n, r) PROVE Goal
  <2>1. CASE NothingCommitted
    BY <2>1
  <2>2. ASSUME NEW s, NEW c, Hearing(n, s, c, r) PROVE Goal
    <3>1. s \in StateMachine /\ c \in Nat
      BY <1>2, <2>2 DEF Hearing
    <3> QED  BY <2>2, <3>1
  <2> QED  BY <1>0, <1>10, <2>1, <2>2, AnswerTallied
<1>11. UNCHANGED vars => NothingCommitted
  BY DEF vars, NothingCommitted, Unmoved
<1>12. ASSUME NEW n \in Server PROVE ~compact(n)
  BY <1>0 DEF compact
<1> QED  BY <1>0, <1>3, <1>4, <1>5, <1>6, <1>7, <1>8, <1>9, <1>10, <1>11, <1>12 DEF Next

-----------------------------------------------------------------------------
(* What logs, requests, answers and acknowledgements have to do with the   *)
(* ledgers.                                                                *)

\* m carries a stretch of the ledger of its term that reaches at least to where the
\* leader's log ended when it was elected, and to all its receiver acknowledged.
Request(m, op, ld, ak) ==
    /\ m.term \in DOMAIN ld
    /\ Len(op[m.term]) <= LastOf(m) /\ LastOf(m) <= Len(ld[m.term])
    /\ \A k \in 1 .. Len(m.entries) : m.entries[k] = ld[m.term][m.prev_log_index + k]
    /\ m.prev_log_index = 0 \/ m.prev_log_term = ld[m.term][m.prev_log_index].term
    /\ \A a \in ak : a[1] = m.to /\ a[2] = m.term => a[3] <= LastOf(m)

RequestsGood ==
    /\ \A m \in net.append_req : Request(m, opening, ledger, acks)
    /\ \A m, k \in net.append_req : m.leader_id = k.leader_id /\ m.to = k.to => m = k

LedgersGood == \A t \in Terms : Led(opening, ledger, t)

LogsGood == \A n \in Server :
    /\ Rooted(store[n].entries, ledger)
    /\ \A k \in 1 .. Len(store[n].entries) : store[n].entries[k].term <= store[n].hard_state.term

\* What p acknowledged it keeps until a leader elected without it, of a term no later
\* than p's, comes in between.
AcksGood ==
    /\ acks \subseteq Server \X Nat \X Nat
    /\ \A a \in acks :
          /\ a[2] \in Terms /\ a[3] <= Len(ledger[a[2]]) /\ a[2] <= store[a[1]].hard_state.term
          /\ \A i \in 1 .. a[3] :
                Kept(store[a[1]].entries, opening, ledger, a[2], i, store[a[1]].hard_state.term + 1)

AnswersGood ==
    /\ net.snap_resp = {}
    /\ \A r \in net.append_resp :
          /\ r.peer # r.to
          /\ r.conflict_index > 0 => r.term \in Terms /\ r.conflict_index <= Len(ledger[r.term])

\* A leader sends from inside its log, and its match indices were acknowledged.
LeaderKnows(n, s, len, ak) ==
    /\ s.progress[n].match_index = 0
    /\ \A p \in Server :
          /\ s.progress[p].next_index <= len + 1
          /\ \/ s.progress[p].match_index = 0
             \/ \E a \in ak : /\ a[1] = p /\ a[2] = s.current_term
                              /\ s.progress[p].match_index <= a[3]

KnowledgeGood == \A n \in Server :
    sm[n].role = "Leader" => LeaderKnows(n, sm[n], Len(store[n].entries), acks)

ReplicaInv ==
    /\ HistoryBase /\ LedgersGood /\ LogsGood /\ RequestsGood /\ AcksGood /\ AnswersGood
    /\ KnowledgeGood

\* No peer is further behind than one AppendEntries can carry.
Caught == \A n \in Server : \A p \in Server \ {n} :
    sm[n].role = "Leader" => Len(store[n].entries) < sm[n].progress[p].next_index + MaxBatch

\* Terms, openings and ledgers as numbers and sequences.
LEMMA TermFields ==
    ASSUME TypeInv, HistoryBase
    PROVE  /\ Terms \subseteq Nat /\ DOMAIN opening = Terms /\ DOMAIN ledger = Terms
           /\ \A t \in Terms : /\ opening[t] \in Seq(Entry) /\ Len(opening[t]) \in Nat
                               /\ ledger[t] \in Seq(Entry) /\ Len(ledger[t]) \in Nat
<1>1. Terms \subseteq Nat
  BY DEF TypeInv, TypeOK, Terms
<1>2. /\ DOMAIN opening = Terms /\ DOMAIN ledger = Terms
      /\ \A t \in Terms : opening[t] \in Seq(Entry) /\ ledger[t] \in Seq(Entry)
  BY DEF HistoryBase
<1> QED  BY <1>1, <1>2, LenProperties

LEMMA TermFieldsAfter ==
    ASSUME Orderly, Advance
    PROVE  /\ Terms' \subseteq Nat /\ DOMAIN opening' = Terms' /\ DOMAIN ledger' = Terms'
           /\ Terms \subseteq Terms'
           /\ \A t \in Terms' : /\ opening'[t] \in Seq(Entry) /\ Len(opening'[t]) \in Nat
                                /\ ledger'[t] \in Seq(Entry) /\ Len(ledger'[t]) \in Nat
<1>1. Terms' \subseteq Nat
  BY AdvanceBase DEF TypeInv, TypeOK, Terms
<1>2. /\ DOMAIN opening' = Terms' /\ DOMAIN ledger' = Terms' /\ Terms \subseteq Terms'
      /\ \A t \in Terms' : opening'[t] \in Seq(Entry) /\ ledger'[t] \in Seq(Entry)
  BY HistoryGrown DEF Advance, Recorded, Grown
<1> QED  BY <1>1, <1>2, LenProperties

\* No ledger has an entry of a later term.
LEMMA LedgerTerms ==
    ASSUME NEW op, NEW ld, NEW t \in Nat, Led(op, ld, t),
           op[t] \in Seq(Entry), ld[t] \in Seq(Entry),
           NEW k \in 1 .. Len(ld[t])
    PROVE  ld[t][k].term <= t
<1>1. /\ Len(op[t]) \in Nat /\ Len(ld[t]) \in Nat /\ ld[t][k].term \in Nat /\ k \in Nat
  BY LenProperties, EntryOfLog
<1>2. CASE k > Len(op[t])
  BY <1>1, <1>2 DEF Led
<1>3. CASE k <= Len(op[t])
  <2>1. k \in 1 .. Len(op[t]) /\ ld[t][k] = op[t][k] /\ op[t][k].term < t
    BY <1>1, <1>3 DEF Led, SameTo
  <2> QED  BY <1>1, <2>1
<1> QED  BY <1>1, <1>2, <1>3

\* A log that holds the entry before those of a request holds the ledger up to there.
LEMMA JoinsSame ==
    ASSUME NEW op, NEW ld, \A t \in DOMAIN ld : ld[t] \in Seq(Entry) /\ Led(op, ld, t),
           NEW es \in Seq(Entry), Rooted(es, ld),
           NEW m, NEW ak, m.prev_log_index \in Nat, m.entries \in Seq(Entry), Request(m, op, ld, ak),
           Joins(es, m)
    PROVE  SameTo(es, ld[m.term], m.prev_log_index)
<1>1. /\ m.term \in DOMAIN ld /\ ld[m.term] \in Seq(Entry) /\ Len(ld[m.term]) \in Nat
      /\ Rooted(ld[m.term], ld) /\ Len(es) \in Nat /\ Len(m.entries) \in Nat
  BY LenProperties DEF Request, Led
<1>2. m.prev_log_index <= Len(ld[m.term]) /\ m.prev_log_index <= Len(es)
  BY <1>1 DEF Request, LastOf, Joins
<1>3. CASE m.prev_log_index = 0
  BY <1>2, <1>3 DEF SameTo
<1>4. CASE m.prev_log_index # 0
  <2>1. es[m.prev_log_index].term = ld[m.term][m.prev_log_index].term
    BY <1>4 DEF Joins, Request
  <2> QED  BY <1>1, <1>2, <1>4, <2>1, RootedMatch
<1> QED  BY <1>3, <1>4

\* A log into which a request is spliced is the ledger up to the end of the request.
LEMMA SplicedSame ==
    ASSUME NEW op, NEW ld, \A t \in DOMAIN ld : ld[t] \in Seq(Entry) /\ Led(op, ld, t),
           NEW es \in Seq(Entry), Rooted(es, ld),
           NEW m, NEW ak, m.prev_log_index \in Nat, m.entries \in Seq(Entry), Request(m, op, ld, ak),
           NEW r, Spliced(es, m, r)
    PROVE  SameTo(r, ld[m.term], LastOf(m)) /\ Len(r) = LastOf(m) /\ r \in Seq(Entry)
<1>1. Joins(es, m)
  BY DEF Spliced, Joins
<1>2. SameTo(es, ld[m.term], m.prev_log_index)
  BY <1>1, JoinsSame
<1>3. /\ Len(m.entries) \in Nat /\ Len(r) = LastOf(m) /\ LastOf(m) <= Len(ld[m.term])
      /\ r \in Seq(Entry)
  BY LenProperties DEF Spliced, Request, LastOf
<1>4. ASSUME NEW k \in 1 .. LastOf(m) PROVE r[k] = ld[m.term][k]
  <2>1. CASE k <= m.prev_log_index
    <3>1. k \in 1 .. m.prev_log_index
      BY <1>3, <2>1 DEF LastOf
    <3> QED  BY <1>2, <3>1 DEF SameTo, Spliced
  <2>2. CASE ~(k <= m.prev_log_index)
    <3> DEFINE j == k - m.prev_log_index
    <3>1. j \in 1 .. Len(m.entries) /\ m.prev_log_index + j = k
      BY <1>3, <2>2 DEF LastOf
    <3> HIDE DEF j
    <3> QED  BY <3>1 DEF Spliced, Request
  <2> QED  BY <2>1, <2>2
<1>5. LastOf(m) <= Len(r)
  BY <1>3 DEF LastOf
<1> QED  BY <1>3, <1>4, <1>5 DEF SameTo

-----------------------------------------------------------------------------
(* These facts are kept by every step.                                     *)

LEMMA LedgersStep ==
    ASSUME Orderly, Advance, ReplicaInv
    PROVE  LedgersGood'
<1> SUFFICES ASSUME NEW t \in Terms' PROVE Led(opening', ledger', t)
  BY DEF LedgersGood, Led
<1>0. /\ Grown(opening, ledger, opening', ledger') /\ TypeInv /\ TypeInv'
      /\ Terms \subseteq Nat /\ DOMAIN ledger = Terms /\ DOMAIN opening = Terms
      /\ \A u \in Terms : Led(opening, ledger, u)
  BY HistoryGrown, AdvanceBase, TermFields DEF ReplicaInv, LedgersGood
<1>1. /\ t \in Nat /\ opening'[t] \in Seq(Entry) /\ ledger'[t] \in Seq(Entry)
      /\ Len(opening'[t]) \in Nat /\ Len(ledger'[t]) \in Nat /\ DOMAIN ledger' = Terms'
  BY TermFieldsAfter
<1>2. CASE t \in Terms
  <2>1. /\ ledger[t] \in Seq(Entry) /\ Len(ledger[t]) \in Nat /\ Len(opening[t]) \in Nat
        /\ opening[t] \in Seq(Entry) /\ opening'[t] = opening[t]
        /\ SameTo(ledger[t], ledger'[t], Len(ledger[t]))
    BY <1>0, <1>2, TermFields DEF ReplicaInv, Grown
  <2>2. /\ SameTo(opening[t], ledger[t], Len(opening[t]))
        /\ \A k \in 1 .. Len(opening[t]) : opening[t][k].term < t
        /\ \A k \in 1 .. Len(ledger[t]) : k > Len(opening[t]) => ledger[t][k].term = t
        /\ \A k \in 1 .. Len(ledger[t]) : \A j \in 1 .. k : ledger[t][j].term <= ledger[t][k].term
        /\ Rooted(ledger[t], ledger)
    BY <1>0, <1>2 DEF Led
  <2>3. Rooted(ledger[t], ledger')
    BY <1>0, <2>1, <2>2, RootedKept
  <2>4. CASE ledger'[t] = ledger[t]
    BY <2>1, <2>2, <2>3, <2>4 DEF Led
  <2>5. ASSUME NEW e \in Entry, e.term = t, ledger'[t] = Append(ledger[t], e)
        PROVE  Led(opening', ledger', t)
    <3>1. /\ Len(ledger'[t]) = Len(ledger[t]) + 1 /\ ledger'[t][Len(ledger[t]) + 1] = e
          /\ \A k \in 1 .. Len(ledger[t]) : ledger'[t][k] = ledger[t][k]
      BY <2>1, <2>5, AppendProperties
    <3>2. SameTo(opening'[t], ledger'[t], Len(opening'[t]))
      BY <2>1, <2>2, <3>1 DEF SameTo
    <3>3. \A k \in 1 .. Len(ledger'[t]) : k \in 1 .. Len(ledger[t]) \/ k = Len(ledger[t]) + 1
      BY <2>1, <3>1
    <3>4. \A k \in 1 .. Len(ledger'[t]) : k > Len(opening'[t]) => ledger'[t][k].term = t
      BY <2>1, <2>2, <2>5, <3>1, <3>3
    <3>5. \A k \in 1 .. Len(ledger[t]) : ledger[t][k].term <= t
      BY <1>0, <1>1, <1>2, <2>1, LedgerTerms
    <3>6. ASSUME NEW k \in 1 .. Len(ledger'[t]), NEW j \in 1 .. k
          PROVE  ledger'[t][j].term <= ledger'[t][k].term
      <4>1. CASE k \in 1 .. Len(ledger[t])
        <5>1. j \in 1 .. Len(ledger[t]) /\ ledger[t][j].term <= ledger[t][k].term
          BY <2>1, <2>2, <4>1
        <5> QED  BY <3>1, <4>1, <5>1
      <4>2. CASE k = Len(ledger[t]) + 1
        <5>1. ledger'[t][k].term = t
          BY <2>5, <3>1, <4>2
        <5>2. j \in 1 .. Len(ledger[t]) \/ j = k
          BY <2>1, <4>2
        <5> QED  BY <1>1, <3>1, <3>5, <5>1, <5>2
      <4> QED  BY <3>3, <4>1, <4>2
    <3>7. ASSUME NEW i \in 1 .. Len(ledger'[t])
          PROVE  /\ ledger'[t][i].term \in DOMAIN ledger'
                 /\ SameTo(ledger'[t], ledger'[ledger'[t][i].term], i)
      <4>1. CASE i \in 1 .. Len(ledger[t])
        <5>1. /\ ledger'[t][i] = ledger[t][i] /\ ledger[t][i].term \in DOMAIN ledger'
              /\ SameTo(ledger[t], ledger'[ledger[t][i].term], i)
          BY <2>3, <3>1, <4>1 DEF Rooted
        <5>2. SameTo(ledger'[t], ledger[t], i)
          BY <2>1, <3>1, <4>1 DEF SameTo
        <5>3. Len(ledger'[ledger[t][i].term]) \in Nat /\ i \in Nat
          BY <1>1, <4>1, <5>1, TermFieldsAfter
        <5> QED  BY <1>1, <2>1, <5>1, <5>2, <5>3, SameTransitive
      <4>2. CASE i = Len(ledger[t]) + 1
        <5>1. ledger'[t][i].term = t /\ i \in Nat /\ i <= Len(ledger'[t])
          BY <2>1, <2>5, <3>1, <4>2
        <5> QED  BY <1>1, <5>1, SameSelf
      <4> QED  BY <3>3, <4>1, <4>2
    <3> QED  BY <2>1, <2>2, <3>2, <3>4, <3>6, <3>7 DEF Led, Rooted
  <2> QED  BY <1>2, <2>4, <2>5, LedgerMoves
<1>3. CASE t \notin Terms
  <2>1. PICK n \in Server :
           /\ store'[n].hard_state.term = t
           /\ opening'[t] = store[n].entries /\ ledger'[t] = store[n].entries
    BY <1>3, NewLedger
  <2> DEFINE es == store[n].entries
  <2>2. /\ es \in Seq(Entry) /\ Len(es) \in Nat /\ \A k \in 1 .. Len(es) : es[k].term \in Nat
        /\ store[n].hard_state.term \in Nat
    BY <1>0, NodeFields
  <2>3. Rooted(es, ledger) /\ \A k \in 1 .. Len(es) : es[k].term <= store[n].hard_state.term
    BY DEF ReplicaInv, LogsGood
  <2>4. store[n].hard_state.term <= t
    BY <2>1 DEF Advance, TermsKept
  <2> HIDE DEF es
  <2>5. \A k \in 1 .. Len(es) : es[k].term < t
    <3>1. \A k \in 1 .. Len(es) : es[k].term # t
      BY <1>0, <1>3, <2>3 DEF Rooted
    <3> QED  BY <1>1, <2>2, <2>3, <2>4, <3>1
  <2>6. \A k \in 1 .. Len(es) : \A j \in 1 .. k : es[j].term <= es[k].term
    BY <1>0, <2>2, <2>3, RootedOrdered
  <2>7. Rooted(es, ledger')
    BY <1>0, <2>2, <2>3, RootedKept
  <2>8. SameTo(es, es, Len(es))
    BY <2>2, SameSelf
  <2>9. \A k \in 1 .. Len(es) : k > Len(es) => es[k].term = t
    BY <2>2
  <2>10. opening'[t] = es /\ ledger'[t] = es
    BY <2>1 DEF es
  <2> QED  BY <2>5, <2>6, <2>7, <2>8, <2>9, <2>10 DEF Led
<1> QED  BY <1>2, <1>3

LEMMA LogsStep ==
    ASSUME Orderly, Advance, ReplicaInv, LedgersGood'
    PROVE  LogsGood'
<1> SUFFICES ASSUME NEW n \in Server
             PROVE  /\ Rooted(store'[n].entries, ledger')
                    /\ \A k \in 1 .. Len(store'[n].entries) :
                          store'[n].entries[k].term <= store'[n].hard_state.term
  BY DEF LogsGood, Rooted
<1>0. /\ Grown(opening, ledger, opening', ledger') /\ TypeInv /\ TypeInv'
      /\ Terms \subseteq Nat /\ DOMAIN ledger = Terms
      /\ \A t \in DOMAIN ledger : ledger[t] \in Seq(Entry) /\ Led(opening, ledger, t)
  BY HistoryGrown, AdvanceBase, TermFields DEF ReplicaInv, LedgersGood
<1>1. /\ store[n].entries \in Seq(Entry) /\ Len(store[n].entries) \in Nat
      /\ Rooted(store[n].entries, ledger)
      /\ \A k \in 1 .. Len(store[n].entries) : store[n].entries[k].term <= store[n].hard_state.term
      /\ store'[n].hard_state.term >= store[n].hard_state.term
      /\ store[n].hard_state.term \in Nat /\ store'[n].hard_state.term \in Nat
      /\ \A k \in 1 .. Len(store[n].entries) : store[n].entries[k].term \in Nat
  BY <1>0, NodeFields, NodeFieldsAfter DEF ReplicaInv, LogsGood, Advance, TermsKept
<1>2. CASE LogSame(n)
  <2>1. store'[n].entries = store[n].entries
    BY <1>2 DEF LogSame
  <2>2. Rooted(store'[n].entries, ledger')
    BY <1>0, <1>1, <2>1, RootedKept
  <2> QED  BY <1>1, <2>1, <2>2
<1>3. CASE Extends(n)
  <2> DEFINE t == sm'[n].current_term
  <2>1. Leading(sm'[n], t)
    BY <1>3 DEF Extends, Leading
  <2>2. t \in Terms' /\ t > 0
    <3>1. <<t, n>> \in leaders' /\ <<t, n>>[1] = t /\ t > 0
      BY <2>1, AdvanceBase DEF LeadersRecorded, Leading, RolesOK
    <3> QED  BY <3>1 DEF Terms
  <2>3. ledger'[t] = store'[n].entries /\ store'[n].hard_state.term = t
    BY <2>1, <2>2, AdvanceBase DEF Advance, Recorded, TermsSaved
  <2>4. Led(opening', ledger', t)
    BY <2>2 DEF LedgersGood, Led
  <2>5. /\ t \in Nat /\ opening'[t] \in Seq(Entry) /\ ledger'[t] \in Seq(Entry)
    BY <2>2, TermFieldsAfter
  <2> HIDE DEF t
  <2>6. \A k \in 1 .. Len(ledger'[t]) : ledger'[t][k].term <= t
    BY <2>4, <2>5, LedgerTerms
  <2> QED  BY <2>3, <2>4, <2>6 DEF Led
<1>4. ASSUME NEW m \in net.append_req, Overwrites(n, m),
             Spliced(store[n].entries, m, store'[n].entries)
      PROVE  /\ Rooted(store'[n].entries, ledger')
             /\ \A k \in 1 .. Len(store'[n].entries) :
                   store'[n].entries[k].term <= store'[n].hard_state.term
  <2>1. m.term \in Terms /\ store'[n].hard_state.term = m.term
    BY <1>4, Overwritten
  <2>2. /\ m.prev_log_index \in Nat /\ m.entries \in Seq(Entry) /\ m.term \in Nat
        /\ Request(m, opening, ledger, acks)
    BY <1>0, RequestFields DEF ReplicaInv, RequestsGood
  <2> DEFINE r == store'[n].entries
  <2>3. SameTo(r, ledger[m.term], LastOf(m)) /\ Len(r) = LastOf(m) /\ r \in Seq(Entry)
    BY <1>0, <1>1, <1>4, <2>2, SplicedSame
  <2> HIDE DEF r
  <2>4. ledger[m.term] \in Seq(Entry) /\ opening[m.term] \in Seq(Entry) /\ Led(opening, ledger, m.term)
    BY <1>0, <2>1, TermFields DEF ReplicaInv
  <2>5. Rooted(r, ledger)
    BY <1>0, <2>3, <2>4, RootedShorter DEF Led
  <2>6. Rooted(r, ledger')
    BY <1>0, <2>3, <2>5, RootedKept
  <2>7. ASSUME NEW k \in 1 .. Len(r) PROVE r[k].term <= m.term
    <3>1. r[k] = ledger[m.term][k] /\ k \in 1 .. Len(ledger[m.term])
      BY <2>3 DEF SameTo
    <3> QED  BY <2>2, <2>4, <3>1, LedgerTerms
  <2> QED  BY <2>1, <2>6, <2>7 DEF r
<1> QED  BY <1>2, <1>3, <1>4, LogMoves DEF LogGrows

\* What a node acknowledges in a step it holds after the step: a leader its own
\* log, a follower the log up to the end of the request it was delivered.
Takes(m, a) ==
    /\ m.to = a[1] /\ m.term = a[2] /\ a[3] = LastOf(m)
    /\ net'.append_req = net.append_req \ {m}

LEMMA AnswerFieldsAfter ==
    ASSUME TypeInv', NEW r \in net'.append_resp
    PROVE  /\ r.peer \in Server /\ r.term \in Nat
           /\ r.conflict_index \in Nat /\ r.req_last_index \in Nat
<1>1. net' \in Net
  BY DEF TypeInv, TypeOK
<1>2. r \in AppendResp
  BY <1>1 DEF Net
<1> QED  BY <1>2 DEF AppendResp

LEMMA NewAck ==
    ASSUME Orderly, Advance, ReplicaInv, NEW a \in acks', a \notin acks
    PROVE  /\ a \in Server \X Nat \X Nat /\ a[2] \in Terms'
           /\ store'[a[1]].hard_state.term = a[2]
           /\ SameTo(store'[a[1]].entries, ledger'[a[2]], a[3])
           /\ \/ Leading(sm'[a[1]], a[2]) /\ a[3] = Len(ledger'[a[2]])
              \/ a[2] \in Terms /\ \E m \in net.append_req : Takes(m, a)
<1>0. /\ Grown(opening, ledger, opening', ledger') /\ TypeInv /\ TypeInv'
      /\ Terms \subseteq Nat /\ DOMAIN ledger = Terms
      /\ \A t \in DOMAIN ledger : ledger[t] \in Seq(Entry) /\ Led(opening, ledger, t)
  BY HistoryGrown, AdvanceBase, TermFields DEF ReplicaInv, LedgersGood
<1>1. a \in Acknowledged'
  BY DEF Advance, Recorded
<1>2. ASSUME NEW n \in Server, sm'[n].role = "Leader",
             a = <<n, sm'[n].current_term, Len(store'[n].entries)>>
      PROVE  /\ a \in Server \X Nat \X Nat /\ a[2] \in Terms'
             /\ store'[a[1]].hard_state.term = a[2]
             /\ SameTo(store'[a[1]].entries, ledger'[a[2]], a[3])
             /\ Leading(sm'[a[1]], a[2]) /\ a[3] = Len(ledger'[a[2]])
  <2> DEFINE t == sm'[n].current_term
  <2>1. Leading(sm'[n], t)
    BY <1>2 DEF Leading
  <2>2. t \in Terms' /\ t > 0 /\ t \in Nat
    <3>1. <<t, n>> \in leaders' /\ <<t, n>>[1] = t /\ t > 0
      BY <2>1, AdvanceBase DEF LeadersRecorded, Leading, RolesOK
    <3> QED  BY <3>1, TermFieldsAfter DEF Terms
  <2>3. ledger'[t] = store'[n].entries /\ store'[n].hard_state.term = t
    BY <2>1, <2>2, AdvanceBase DEF Advance, Recorded, TermsSaved
  <2>4. Len(store'[n].entries) \in Nat
    BY <1>0, NodeFieldsAfter
  <2>5. a[1] = n /\ a[2] = t /\ a[3] = Len(store'[n].entries) /\ a \in Server \X Nat \X Nat
    BY <1>2, <2>2, <2>4
  <2>6. SameTo(store'[n].entries, store'[n].entries, Len(store'[n].entries))
    BY <2>4, SameSelf
  <2> QED  BY <2>1, <2>2, <2>3, <2>5, <2>6
<1>3. ASSUME NEW r \in net'.append_resp, r.success,
             a = <<r.peer, r.term, r.req_last_index>>
      PROVE  /\ a \in Server \X Nat \X Nat /\ a[2] \in Terms'
             /\ store'[a[1]].hard_state.term = a[2]
             /\ SameTo(store'[a[1]].entries, ledger'[a[2]], a[3])
             /\ a[2] \in Terms /\ \E m \in net.append_req : Takes(m, a)
  <2>1. r \notin net.append_resp
    <3>1. Acknowledged \subseteq acks
      BY DEF ReplicaInv, HistoryBase
    <3>2. r \in net.append_resp => <<r.peer, r.term, r.req_last_index>> \in Acknowledged
      BY <1>3, Zenon DEF Acknowledged
    <3> QED  BY <1>3, <3>1, <3>2
  <2>2. PICK n \in Server, m \in net.append_req : on_append_entries(n, m)
    BY <2>1, NetMoves, AdvanceBase DEF Advance, Messages
  <2>3. Delivered(n, m)
    BY <2>2, OnAppendDelivered, AdvanceBase DEF AlignInv
  <2>4. /\ m.to = n /\ r.peer = n /\ r.req_last_index = LastOf(m) /\ r.term = m.term
        /\ sm'[n].current_term = m.term /\ Accepts(n, m)
        /\ net'.append_req = net.append_req \ {m} /\ phase'[n] # "starting"
    BY <1>3, <2>1, <2>3 DEF Delivered, Refuses
  <2>5. /\ m.prev_log_index \in Nat /\ m.entries \in Seq(Entry) /\ m.term \in Nat
        /\ Len(m.entries) \in Nat /\ Request(m, opening, ledger, acks) /\ m.term \in Terms
    BY <1>0, RequestFields DEF ReplicaInv, RequestsGood, Request
  <2>6. store'[n].hard_state.term = m.term
    <3>1. store'[n].hard_state = hard_state_of(sm'[n])
      BY <2>4, AdvanceBase DEF HardStateSync
    <3> QED  BY <2>4, <3>1 DEF hard_state_of
  <2>7. a[1] = n /\ a[2] = m.term /\ a[3] = LastOf(m) /\ a \in Server \X Nat \X Nat
    BY <1>0, <1>3, <2>4, AnswerFieldsAfter
  <2>8. /\ store[n].entries \in Seq(Entry) /\ store'[n].entries \in Seq(Entry)
        /\ Rooted(store[n].entries, ledger)
    BY <1>0, NodeFields, NodeFieldsAfter DEF ReplicaInv, LogsGood
  <2>9. SameTo(store'[n].entries, ledger[m.term], LastOf(m))
    <3>1. CASE m.entries = <<>>
      <4>1. store'[n].entries = store[n].entries /\ LastOf(m) = m.prev_log_index
        BY <2>4, <2>5, <3>1 DEF Accepts, LastOf
      <4>2. Joins(store[n].entries, m)
        BY <2>4 DEF Accepts
      <4> QED  BY <1>0, <2>5, <2>8, <4>1, <4>2, JoinsSame
    <3>2. CASE m.entries # <<>>
      <4>1. Spliced(store[n].entries, m, store'[n].entries)
        BY <2>4, <3>2 DEF Accepts
      <4> QED  BY <1>0, <2>5, <2>8, <4>1, SplicedSame
    <3> QED  BY <3>1, <3>2
  <2>10. LastOf(m) \in Nat /\ LastOf(m) <= Len(ledger[m.term])
    BY <2>5 DEF LastOf, Request
  <2>11. SameTo(store'[n].entries, ledger'[m.term], LastOf(m))
    BY <1>0, <2>5, <2>8, <2>9, <2>10, SameKept
  <2>12. m.term \in Terms'
    BY <2>5, TermFieldsAfter
  <2>13. Takes(m, a)
    BY <2>4, <2>7 DEF Takes
  <2> QED  BY <2>5, <2>6, <2>7, <2>11, <2>12, <2>13
<1>4. \/ \E r \in net'.append_resp : r.success /\ a = <<r.peer, r.term, r.req_last_index>>
      \/ \E n \in Server : sm'[n].role = "Leader" /\ a = <<n, sm'[n].current_term, Len(store'[n].entries)>>
  BY <1>1 DEF Acknowledged
<1> QED  BY <1>2, <1>3, <1>4

\* What a node acknowledged it still holds, unless a leader of a later term was
\* elected without it.
LEMMA OldAck ==
    ASSUME Orderly, Advance, ReplicaInv, NEW a \in acks, NEW i \in 1 .. a[3]
    PROVE  Kept(store'[a[1]].entries, opening', ledger', a[2], i, store'[a[1]].hard_state.term + 1)
<1> DEFINE p == a[1]
           t == a[2]
           es == store[p].entries
           fs == store'[p].entries
           H == store[p].hard_state.term
           K == store'[p].hard_state.term
<1>0. /\ Grown(opening, ledger, opening', ledger') /\ TypeInv /\ TypeInv'
      /\ Terms \subseteq Nat /\ DOMAIN ledger = Terms /\ DOMAIN opening = Terms
      /\ \A u \in DOMAIN ledger : ledger[u] \in Seq(Entry) /\ Led(opening, ledger, u)
  BY HistoryGrown, AdvanceBase, TermFields DEF ReplicaInv, LedgersGood
<1>1. /\ p \in Server /\ t \in Terms /\ a[3] \in Nat /\ a[3] <= Len(ledger[t]) /\ t <= H
      /\ Kept(es, opening, ledger, t, i, H + 1)
  BY DEF ReplicaInv, AcksGood
<1>2. /\ es \in Seq(Entry) /\ fs \in Seq(Entry) /\ H \in Nat /\ K \in Nat /\ H <= K
      /\ Len(es) \in Nat /\ Len(fs) \in Nat /\ Rooted(es, ledger)
  BY <1>0, <1>1, NodeFields, NodeFieldsAfter DEF ReplicaInv, LogsGood, Advance, TermsKept
<1> SUFFICES Kept(fs, opening', ledger', t, i, K + 1)
  OBVIOUS
<1> HIDE DEF H, K, p, t
<1>3. /\ i \in Nat /\ i <= Len(ledger[t]) /\ t \in Nat /\ Len(ledger[t]) \in Nat
      /\ ledger[t] \in Seq(Entry) /\ H + 1 \in Nat /\ K + 1 \in Nat /\ H + 1 <= K + 1
  <2>1. ledger[t] \in Seq(Entry) /\ Len(ledger[t]) \in Nat /\ t \in Nat
    BY <1>0, <1>1, TermFields DEF ReplicaInv
  <2>2. i \in Nat /\ i <= Len(ledger[t])
    BY <1>1, <2>1
  <2>3. H + 1 \in Nat /\ K + 1 \in Nat /\ H + 1 <= K + 1
    BY <1>2
  <2> QED  BY <2>1, <2>2, <2>3
<1>4. LogGrows(p)
  BY <1>1, LogMoves
<1>5. ASSUME SameTo(fs, ledger[t], i) PROVE Kept(fs, opening', ledger', t, i, K + 1)
  BY <1>0, <1>1, <1>2, <1>3, <1>5, SameKept DEF Kept
<1>6. ASSUME Dropped(opening, ledger, t, i, K + 1) PROVE Kept(fs, opening', ledger', t, i, K + 1)
  <2>1. Dropped(opening', ledger', t, i, K + 1)
    <3>1. K + 1 <= K + 1
      BY <1>2
    <3> QED  BY <1>0, <1>1, <1>3, <1>6, <3>1, DroppedKept
  <2> QED  BY <2>1 DEF Kept
<1>7. CASE Dropped(opening, ledger, t, i, H + 1)
  <2>1. Dropped(opening', ledger', t, i, K + 1)
    BY <1>0, <1>1, <1>3, <1>7, DroppedKept
  <2> QED  BY <2>1 DEF Kept
<1>8. CASE SameTo(es, ledger[t], i)
  <2>1. CASE LogSame(p)
    BY <1>5, <1>8, <2>1 DEF LogSame
  <2>2. ASSUME NEW cmd \in Command, new_entry(p, cmd) \in Entry,
               fs = Append(es, new_entry(p, cmd))
        PROVE  SameTo(fs, ledger[t], i)
    <3>1. Len(fs) = Len(es) + 1 /\ \A k \in 1 .. Len(es) : fs[k] = es[k]
      BY <1>2, <2>2, AppendProperties
    <3> HIDE DEF es, fs
    <3> QED  BY <1>2, <1>3, <1>8, <3>1 DEF SameTo
  <2>3. ASSUME NEW m \in net.append_req, Overwrites(p, m), Spliced(es, m, fs)
        PROVE  Kept(fs, opening', ledger', t, i, K + 1)
    <3>1. m.term \in Terms /\ K = m.term
      BY <1>1, <2>3, Overwritten DEF K
    <3>2. /\ m.prev_log_index \in Nat /\ m.entries \in Seq(Entry) /\ m.term \in Nat
          /\ Len(m.entries) \in Nat /\ Request(m, opening, ledger, acks)
      BY <1>0, RequestFields DEF ReplicaInv, RequestsGood
    <3>3. SameTo(fs, ledger[m.term], LastOf(m)) /\ Len(fs) = LastOf(m) /\ LastOf(m) \in Nat
      BY SMTT(30), <1>0, <1>2, <2>3, <3>2, SplicedSame DEF LastOf
    <3>4. m.to = p
      BY <2>3 DEF Overwrites
    <3>5. /\ ledger[m.term] \in Seq(Entry) /\ opening[m.term] \in Seq(Entry)
          /\ Led(opening, ledger, m.term)
          /\ Len(ledger[m.term]) \in Nat /\ Len(opening[m.term]) \in Nat
          /\ Len(opening[m.term]) <= LastOf(m)
      BY <1>0, <3>1, <3>2, TermFields DEF ReplicaInv, Request
    <3> HIDE DEF p, t, es, fs, H, K
    <3>6. CASE t = m.term
      <4>1. a[3] <= LastOf(m)
        BY <3>2, <3>4, <3>6 DEF Request, p, t
      <4>2. SameTo(fs, ledger[t], i)
        BY SMTT(30), <1>1, <1>2, <1>3, <3>3, <3>5, <3>6, <4>1, SameShorter
      <4> QED  BY <1>5, <4>2
    <3>7. CASE t < m.term
      <4>1. CASE SameTo(opening[m.term], ledger[t], i)
        <5>1. i <= Len(opening[m.term]) /\ i <= LastOf(m)
          BY <1>3, <3>3, <3>5, <4>1 DEF SameTo
        <5>2. SameTo(fs, ledger[m.term], i)
          BY <1>2, <1>3, <3>3, <3>5, <5>1, SameShorter
        <5>3. SameTo(opening[m.term], ledger[m.term], i)
          BY <1>3, <3>5, <5>1, SameShorter DEF Led
        <5>4. SameTo(ledger[m.term], opening[m.term], i)
          BY <5>3, SameSymmetric
        <5>5. SameTo(fs, opening[m.term], i)
          BY <1>2, <1>3, <3>5, <5>2, <5>4, SameTransitive
        <5>6. SameTo(fs, ledger[t], i)
          BY <1>2, <1>3, <3>5, <4>1, <5>5, SameTransitive
        <5> QED  BY <1>5, <5>6
      <4>2. CASE ~SameTo(opening[m.term], ledger[t], i)
        <5>1. Dropped(opening, ledger, t, i, K + 1)
          BY <1>0, <3>1, <3>2, <3>7, <4>2 DEF Dropped
        <5> QED  BY <1>6, <5>1
      <4> QED  BY <4>1, <4>2
    <3> QED  BY <1>1, <1>2, <1>3, <3>1, <3>2, <3>6, <3>7
  <2> QED  BY <1>4, <1>5, <2>1, <2>2, <2>3 DEF LogGrows
<1> QED  BY <1>1, <1>7, <1>8 DEF Kept

LEMMA AcksStep ==
    ASSUME Orderly, Advance, ReplicaInv
    PROVE  AcksGood'
<1>0. /\ Grown(opening, ledger, opening', ledger') /\ TypeInv /\ TypeInv'
      /\ DOMAIN ledger = Terms /\ acks \subseteq Server \X Nat \X Nat
      /\ \A t \in Terms : Len(ledger[t]) \in Nat
  BY HistoryGrown, AdvanceBase, TermFields DEF ReplicaInv, AcksGood
<1>1. acks' \subseteq Server \X Nat \X Nat
  BY <1>0, NewAck
<1>2. ASSUME NEW a \in acks'
      PROVE  /\ a[2] \in Terms' /\ a[3] <= Len(ledger'[a[2]])
             /\ a[2] <= store'[a[1]].hard_state.term
             /\ \A i \in 1 .. a[3] :
                   Kept(store'[a[1]].entries, opening', ledger', a[2], i,
                        store'[a[1]].hard_state.term + 1)
  <2>0. a[1] \in Server /\ a[2] \in Nat /\ a[3] \in Nat
    BY <1>1
  <2>1. CASE a \in acks
    <3>1. a[2] \in Terms /\ a[3] <= Len(ledger[a[2]]) /\ a[2] <= store[a[1]].hard_state.term
      BY <2>1 DEF ReplicaInv, AcksGood
    <3>2. /\ store[a[1]].hard_state.term \in Nat /\ store'[a[1]].hard_state.term \in Nat
          /\ store[a[1]].hard_state.term <= store'[a[1]].hard_state.term
      BY <1>0, <2>0, NodeFields, NodeFieldsAfter DEF Advance, TermsKept
    <3>3. a[2] \in Terms' /\ Len(ledger'[a[2]]) \in Nat
      BY <3>1, TermFieldsAfter
    <3>4. a[3] <= Len(ledger'[a[2]])
      BY <1>0, <2>0, <3>1, <3>3 DEF Grown, SameTo
    <3> QED  BY <2>0, <2>1, <3>1, <3>2, <3>3, <3>4, OldAck
  <2>2. CASE a \notin acks
    <3>1. /\ a[2] \in Terms' /\ store'[a[1]].hard_state.term = a[2]
          /\ SameTo(store'[a[1]].entries, ledger'[a[2]], a[3])
      BY <2>2, NewAck
    <3>2. /\ Len(store'[a[1]].entries) \in Nat /\ Len(ledger'[a[2]]) \in Nat
          /\ store'[a[1]].entries \in Seq(Entry)
      BY <1>0, <2>0, <3>1, NodeFieldsAfter, TermFieldsAfter
    <3>3. ASSUME NEW i \in 1 .. a[3] PROVE SameTo(store'[a[1]].entries, ledger'[a[2]], i)
      BY <2>0, <3>1, <3>2, SameShorter
    <3>4. a[3] <= Len(ledger'[a[2]])
      BY <3>1 DEF SameTo
    <3> QED  BY <2>0, <3>1, <3>3, <3>4 DEF Kept
  <2> QED  BY <2>1, <2>2
<1> QED  BY <1>1, <1>2, Zenon DEF AcksGood, Kept, Dropped

LEMMA AnswersStep ==
    ASSUME Orderly, Advance, ReplicaInv
    PROVE  AnswersGood'
<1>0. /\ Grown(opening, ledger, opening', ledger') /\ TypeInv /\ TypeInv'
      /\ DOMAIN ledger = Terms /\ Terms \subseteq Nat
      /\ \A t \in Terms : Len(ledger[t]) \in Nat
  BY HistoryGrown, AdvanceBase, TermFields DEF ReplicaInv
<1>1. net'.snap_resp = {}
  BY NetMoves, AdvanceBase DEF Advance, Messages, ReplicaInv, AnswersGood
<1>2. ASSUME NEW t \in Terms, NEW i \in Nat, i <= Len(ledger[t])
      PROVE  t \in Terms' /\ i <= Len(ledger'[t])
  <2>1. t \in Terms' /\ Len(ledger'[t]) \in Nat
    BY TermFieldsAfter
  <2> QED  BY <1>0, <1>2, <2>1 DEF Grown, SameTo
<1>3. ASSUME NEW r \in net'.append_resp
      PROVE  /\ r.peer # r.to
             /\ r.conflict_index > 0 => r.term \in Terms' /\ r.conflict_index <= Len(ledger'[r.term])
  <2>0. r.conflict_index \in Nat
    BY <1>0, AnswerFieldsAfter
  <2>1. CASE r \in net.append_resp
    BY <1>2, <2>0, <2>1 DEF ReplicaInv, AnswersGood
  <2>2. CASE r \notin net.append_resp
    <3>1. PICK n \in Server, m \in net.append_req : on_append_entries(n, m)
      BY <2>2, NetMoves, AdvanceBase DEF Advance, Messages
    <3>2. Delivered(n, m)
      BY <3>1, OnAppendDelivered, AdvanceBase DEF AlignInv
    <3>3. /\ m.to = n /\ r.peer = n /\ r.to = m.leader_id
          /\ r.conflict_index > 0 => r.term = m.term /\ r.conflict_index <= m.prev_log_index
      BY <2>2, <3>2 DEF Delivered, Refuses
    <3>4. m.to # m.leader_id
      BY AdvanceBase DEF RequestsFromLeaders
    <3>5. /\ m.prev_log_index \in Nat /\ Len(m.entries) \in Nat
          /\ LastOf(m) <= Len(ledger[m.term]) /\ m.term \in Terms
      BY <1>0, RequestFields DEF ReplicaInv, RequestsGood, Request
    <3>6. m.prev_log_index <= Len(ledger[m.term])
      BY <1>0, <3>5 DEF LastOf
    <3>7. m.term \in Terms' /\ m.prev_log_index <= Len(ledger'[m.term]) /\ Len(ledger'[m.term]) \in Nat
      BY <1>2, <3>5, <3>6, TermFieldsAfter
    <3> QED  BY <2>0, <3>3, <3>4, <3>5, <3>7
  <2> QED  BY <2>1, <2>2
<1> QED  BY <1>1, <1>3, Zenon DEF AnswersGood

\* A leader's knowledge stays true while its log grows.
LEMMA KnowsKept ==
    ASSUME NEW n \in Server, NEW s \in StateMachine, NEW z, NEW len \in Nat, NEW ln \in Nat,
           NEW ak, NEW ak2, LeaderKnows(n, s, len, ak), len <= ln, ak \subseteq ak2,
           z.progress = s.progress, z.current_term = s.current_term
    PROVE  LeaderKnows(n, z, ln, ak2)
<1>1. \A p \in Server : s.progress[p].next_index \in Nat /\ s.progress[p].match_index \in Nat
  BY DEF StateMachine, Progress
<1>2. ASSUME NEW p \in Server
      PROVE  /\ s.progress[p].next_index <= ln + 1
             /\ \/ s.progress[p].match_index = 0
                \/ \E a \in ak2 : /\ a[1] = p /\ a[2] = s.current_term
                                  /\ s.progress[p].match_index <= a[3]
  <2>1. s.progress[p].next_index <= ln + 1
    BY <1>1 DEF LeaderKnows
  <2> QED  BY <2>1 DEF LeaderKnows
<1> QED  BY <1>2 DEF LeaderKnows

LEMMA LeaderLogLonger ==
    ASSUME Orderly, Advance, NEW n \in Server, sm'[n].role = "Leader"
    PROVE  Len(store[n].entries) <= Len(store'[n].entries)
<1>0. /\ store[n].entries \in Seq(Entry) /\ Len(store[n].entries) \in Nat /\ LogGrows(n)
  BY AdvanceBase, NodeFields, LogMoves
<1>1. CASE LogSame(n)
  BY <1>0, <1>1 DEF LogSame
<1>2. ASSUME NEW e \in Entry, store'[n].entries = Append(store[n].entries, e)
      PROVE  Len(store[n].entries) <= Len(store'[n].entries)
  BY <1>0, <1>2, AppendProperties
<1>3. \A m \in net.append_req : ~Overwrites(n, m)
  BY Overwritten
<1> QED  BY <1>0, <1>1, <1>2, <1>3 DEF LogGrows

\* ... and is confirmed by every answer it hears.
LEMMA HearingKnows ==
    ASSUME Orderly, Advance, ReplicaInv, NEW n \in Server, NEW r \in net.append_resp,
           NEW s \in StateMachine, NEW c, Hearing(n, s, c, r)
    PROVE  LeaderKnows(n, s, Len(store[n].entries), acks)
<1> DEFINE len == Len(store[n].entries)
           q == r.peer
           g == sm[n].progress[q]
           h == s.progress[q]
           t == sm[n].current_term
<1>1. /\ sm[n].role = "Leader" /\ s.current_term = t /\ r.to = n /\ r.term = t
      /\ Moved(g, h, r) /\ \A p \in Server \ {q} : s.progress[p] = sm[n].progress[p]
  BY DEF Hearing, Tallies
<1>2. TypeInv /\ sm[n] \in StateMachine /\ len \in Nat
  BY AdvanceBase, NodeFields
<1>3. LeaderKnows(n, sm[n], len, acks)
  BY <1>1 DEF ReplicaInv, KnowledgeGood
<1>4. /\ r \in AppendResp /\ q \in Server /\ r.req_last_index \in Nat /\ r.conflict_index \in Nat
  <2>1. net \in Net
    BY <1>2 DEF TypeInv, TypeOK
  <2>2. r \in AppendResp
    BY <2>1 DEF Net
  <2> QED  BY <2>2 DEF AppendResp
<1>5. /\ g.next_index \in Nat /\ g.match_index \in Nat /\ h.next_index \in Nat /\ h.match_index \in Nat
  BY <1>2, <1>4 DEF StateMachine, Progress
<1>6. t \in Terms /\ Len(ledger[t]) = len
  <2>1. <<t, n>> \in leaders /\ <<t, n>>[1] = t /\ Leading(sm[n], t)
    BY <1>1, AdvanceBase DEF LeadersRecorded, Leading
  <2>2. t \in Terms
    BY <2>1 DEF Terms
  <2> QED  BY <2>1, <2>2 DEF ReplicaInv, HistoryBase
<1>7. q # n
  BY <1>1 DEF ReplicaInv, AnswersGood
<1>8. r.success => <<q, t, r.req_last_index>> \in acks
  <2>1. r.success => <<r.peer, r.term, r.req_last_index>> \in Acknowledged
    BY Zenon DEF Acknowledged
  <2> QED  BY <1>1, <2>1 DEF ReplicaInv, HistoryBase
<1>9. \A a \in acks : a[2] = t => a[3] \in Nat /\ a[3] <= len
  BY <1>6 DEF ReplicaInv, AcksGood
<1>10. h.match_index = 0 \/ \E a \in acks : a[1] = q /\ a[2] = t /\ h.match_index <= a[3]
  <2>1. CASE h.match_index = g.match_index
    BY <1>3, <1>4, <2>1 DEF LeaderKnows
  <2>2. CASE r.success /\ h.match_index = r.req_last_index
    <3> DEFINE a == <<q, t, r.req_last_index>>
    <3>1. a \in acks
      BY <1>8, <2>2
    <3>2. a[1] = q /\ a[2] = t /\ a[3] = h.match_index
      BY <2>2
    <3> HIDE DEF a, q, h, t
    <3> QED  BY <1>5, <3>1, <3>2
  <2> QED  BY <1>1, <2>1, <2>2 DEF Moved
<1> HIDE DEF len, q, g, h, t
<1>11. h.match_index <= len
  BY <1>2, <1>5, <1>9, <1>10
<1>12. h.next_index <= len + 1
  <2>1. CASE h.next_index = h.match_index + 1
    BY <1>2, <1>5, <1>11, <2>1
  <2>2. CASE r.conflict_index > 0 /\ h.next_index = r.conflict_index
    <3>1. r.conflict_index <= Len(ledger[r.term])
      BY <2>2 DEF ReplicaInv, AnswersGood
    <3> QED  BY <1>1, <1>2, <1>4, <1>6, <2>2, <3>1
  <2>3. CASE h.next_index <= g.next_index
    <3>1. g.next_index <= len + 1
      BY <1>3, <1>4 DEF LeaderKnows, g
    <3> QED  BY <1>2, <1>5, <2>3, <3>1
  <2>4. CASE h.next_index = 1
    BY <1>2, <2>4
  <2> QED  BY <1>1, <2>1, <2>2, <2>3, <2>4 DEF Moved
<1>13. s.progress[n].match_index = 0
  BY <1>1, <1>3, <1>7 DEF LeaderKnows
<1>14. ASSUME NEW p \in Server
       PROVE  /\ s.progress[p].next_index <= len + 1
              /\ \/ s.progress[p].match_index = 0
                 \/ \E a \in acks : /\ a[1] = p /\ a[2] = t /\ s.progress[p].match_index <= a[3]
  <2>1. CASE p = q
    BY <1>10, <1>12, <2>1 DEF h
  <2>2. CASE p # q
    BY <1>1, <1>3, <2>2 DEF LeaderKnows, t
  <2> QED  BY <2>1, <2>2
<1> QED  BY <1>1, <1>13, <1>14 DEF LeaderKnows, len

LEMMA KnowledgeStep ==
    ASSUME Orderly, Advance, ReplicaInv
    PROVE  KnowledgeGood'
<1> SUFFICES ASSUME NEW n \in Server, sm'[n].role = "Leader"
             PROVE  LeaderKnows(n, sm'[n], Len(store'[n].entries), acks')
  BY DEF KnowledgeGood, LeaderKnows
<1>0. /\ sm[n] \in StateMachine /\ sm'[n] \in StateMachine
      /\ Len(store[n].entries) \in Nat /\ Len(store'[n].entries) \in Nat
      /\ Len(store[n].entries) <= Len(store'[n].entries) /\ acks \subseteq acks'
  BY AdvanceBase, NodeFields, NodeFieldsAfter, LeaderLogLonger DEF Advance, Recorded
<1>1. ASSUME sm[n].role = "Leader", sm'[n].current_term = sm[n].current_term,
             sm'[n].progress = sm[n].progress
      PROVE  LeaderKnows(n, sm'[n], Len(store'[n].entries), acks')
  <2>1. LeaderKnows(n, sm[n], Len(store[n].entries), acks)
    BY <1>1 DEF ReplicaInv, KnowledgeGood
  <2> QED  BY <1>0, <1>1, <2>1, KnowsKept
<1>2. ASSUME NEW k \in Server, NEW m \in net.append_req, Delivered(k, m)
      PROVE  LeaderKnows(n, sm'[n], Len(store'[n].entries), acks')
  <2>1. CASE n = k
    BY <1>1, <1>2, <2>1 DEF Delivered
  <2>2. CASE n # k
    BY <1>1, <1>2, <2>2 DEF Delivered
  <2> QED  BY <2>1, <2>2
<1>3. ASSUME NEW k \in Server, NEW c \in Nat, Beats(k, c)
      PROVE  LeaderKnows(n, sm'[n], Len(store'[n].entries), acks')
  <2>1. CASE n = k
    BY <1>1, <1>3, <2>1 DEF Beats, Tallies
  <2>2. CASE n # k
    BY <1>1, <1>3, <2>2 DEF Beats, Tallies
  <2> QED  BY <2>1, <2>2
<1>4. ASSUME NEW k \in Server, NEW r \in net.append_resp, NEW s \in StateMachine, NEW c \in Nat,
             Hearing(k, s, c, r)
      PROVE  LeaderKnows(n, sm'[n], Len(store'[n].entries), acks')
  <2>1. CASE n = k
    <3>1. LeaderKnows(n, s, Len(store[n].entries), acks)
      BY <1>4, <2>1, HearingKnows
    <3>2. sm'[n].progress = s.progress /\ sm'[n].current_term = s.current_term
      BY <1>4, <2>1 DEF Hearing, Tallies
    <3> QED  BY SMTT(30), <1>0, <3>1, <3>2, KnowsKept
  <2>2. CASE n # k
    BY <1>1, <1>4, <2>2 DEF Hearing, Tallies
  <2> QED  BY <2>1, <2>2
<1>5. CASE NothingCommitted
  <2>1. CASE sm'[n].progress = NoProgress(n)
    <3>1. \A p \in Server : /\ NoProgress(n)[p].match_index = 0
                            /\ NoProgress(n)[p].next_index <= Len(store[n].entries) + 1
      BY <1>0 DEF NoProgress, Absent
    <3>2. \A p \in Server : /\ sm'[n].progress[p].match_index = 0
                            /\ sm'[n].progress[p].next_index <= Len(store[n].entries) + 1
                            /\ sm'[n].progress[p].next_index \in Nat
      BY <1>0, <2>1, <3>1 DEF StateMachine, Progress
    <3> QED  BY <1>0, <3>2 DEF LeaderKnows
  <2>2. CASE sm'[n].progress # NoProgress(n)
    BY <1>1, <1>5, <2>2 DEF NothingCommitted, Unmoved
  <2> QED  BY <2>1, <2>2
<1>6. net.snap_resp = {}
  BY DEF ReplicaInv, AnswersGood
<1> QED  BY <1>2, <1>3, <1>4, <1>5, <1>6, CommitSteps

\* The request of a leader whose whole backlog fits one batch ends where its
\* log ends.
Carries(r, n, p, s, es) ==
    /\ r.leader_id = n /\ r.to = p /\ r.term = s.current_term
    /\ r.leader_commit = s.commit_index /\ r.prev_log_index \in Nat
    /\ LastOf(r) = Len(es)
    /\ \A k \in 1 .. Len(r.entries) : r.entries[k] = es[r.prev_log_index + k]
    /\ r.prev_log_index = 0 \/ r.prev_log_term = es[r.prev_log_index].term

LEMMA WholeRequest ==
    ASSUME NEW n \in Server, NEW p \in Peers(n), NEW s \in StateMachine,
           NEW st \in Store, Whole(st), s.role = "Leader", LeaderProgress(n, s),
           s.progress[p].next_index <= Len(st.entries) + 1,
           Len(st.entries) < s.progress[p].next_index + MaxBatch
    PROVE  Carries(append_request(n, s, st, p), n, p, s, st.entries)
<1> DEFINE r == append_request(n, s, st, p)
           next == s.progress[p].next_index
           to == IF last_index(st) - next + 1 > MaxBatch THEN next + MaxBatch - 1
                 ELSE last_index(st)
<1>1. next \in Nat /\ next >= 1 /\ next - 1 \in Nat /\ MaxBatch \in Nat
  <2>1. s.progress[p] \in Progress /\ p \in Server \ {n} /\ MaxBatch \in Nat
    BY ConstantsAssumption DEF StateMachine, Peers
  <2> QED  BY <2>1 DEF Progress, LeaderProgress
<1>2. /\ st.entries \in Seq(Entry) /\ Len(st.entries) \in Nat
      /\ first_index(st) = 1 /\ last_index(st) = Len(st.entries)
  BY WholeStore
<1>3. next <= Len(st.entries) + 1 /\ Len(st.entries) < next + MaxBatch
  OBVIOUS
<1>4. /\ r.prev_log_index = next - 1 /\ r.leader_id = n /\ r.to = p
      /\ r.term = s.current_term /\ r.leader_commit = s.commit_index
      /\ r.prev_log_term = term_or_zero(st, next - 1)
      /\ r.entries = IF last_index(st) >= next
                     THEN entries(st, next, last_index(st) + 1, MaxBatch) ELSE <<>>
  BY DEF append_request
<1> HIDE DEF next, r
<1>5. term_or_zero(st, next - 1) =
        IF next - 1 = 0 \/ next - 1 > Len(st.entries) THEN 0 ELSE st.entries[next - 1].term
  BY <1>1, WholeTerm
<1>6. r.prev_log_index = 0 \/ r.prev_log_term = st.entries[r.prev_log_index].term
  BY <1>1, <1>2, <1>3, <1>4, <1>5
<1>7. CASE last_index(st) >= next
  <2>1. entries(st, next, last_index(st) + 1, MaxBatch) = SubSeq(st.entries, next, to)
    <3>1. next \in Nat /\ first_index(st) = 1 /\ last_index(st) \in Nat /\ MaxBatch \in Nat
      BY <1>1, <1>2
    <3> QED  BY <3>1, Slice
  <2>2. to = Len(st.entries)
    BY <1>1, <1>2, <1>3
  <2>3. next \in Int /\ Len(st.entries) \in Int /\ \A i \in next .. Len(st.entries) : st.entries[i] \in Entry
    BY <1>1, <1>2
  <2>4. /\ Len(SubSeq(st.entries, next, Len(st.entries))) = Len(st.entries) - next + 1
        /\ \A i \in 1 .. Len(st.entries) - next + 1 :
              SubSeq(st.entries, next, Len(st.entries))[i] = st.entries[next + i - 1]
    BY <1>2, <1>7, <2>3, SubSeqProperties
  <2>5. r.entries = SubSeq(st.entries, next, Len(st.entries))
    BY <1>4, <1>7, <2>1, <2>2
  <2>8. Len(r.entries) = Len(st.entries) - next + 1
    BY <2>4, <2>5
  <2>6. LastOf(r) = Len(st.entries)
    <3>1. LastOf(r) = (next - 1) + (Len(st.entries) - next + 1)
      BY <1>4, <2>8 DEF LastOf
    <3> QED  BY <1>1, <1>2, <3>1
  <2>7. ASSUME NEW k \in 1 .. Len(r.entries) PROVE r.entries[k] = st.entries[r.prev_log_index + k]
    <3>1. next + k - 1 = (next - 1) + k /\ k \in 1 .. Len(st.entries) - next + 1
      BY <1>1, <1>2, <2>8
    <3> QED  BY <1>4, <2>4, <2>5, <3>1
  <2> QED  BY <1>1, <1>4, <1>6, <2>6, <2>7 DEF Carries, r
<1>8. CASE ~(last_index(st) >= next)
  <2>1. r.entries = <<>> /\ Len(r.entries) = 0
    BY <1>4, <1>8
  <2>2. LastOf(r) = Len(st.entries)
    BY <1>1, <1>2, <1>3, <1>4, <1>8, <2>1 DEF LastOf
  <2> QED  BY <1>1, <1>4, <1>6, <2>1, <2>2 DEF Carries, r
<1> QED  BY <1>7, <1>8

\* A request stays good until it is delivered.
LEMMA RequestKept ==
    ASSUME Orderly, Advance, ReplicaInv, NEW m \in net.append_req, m \in net'.append_req
    PROVE  Request(m, opening', ledger', acks')
<1> DEFINE t == m.term
<1>0. /\ Grown(opening, ledger, opening', ledger') /\ TypeInv /\ TypeInv'
      /\ DOMAIN ledger = Terms /\ DOMAIN ledger' = Terms' /\ Terms \subseteq Terms'
      /\ Request(m, opening, ledger, acks)
  BY HistoryGrown, AdvanceBase, TermFields, TermFieldsAfter DEF ReplicaInv, RequestsGood
<1>1. /\ m.prev_log_index \in Nat /\ Len(m.entries) \in Nat /\ t \in Nat
  BY <1>0, RequestFields
<1>2. /\ t \in Terms /\ opening'[t] = opening[t] /\ SameTo(ledger[t], ledger'[t], Len(ledger[t]))
      /\ Len(ledger[t]) \in Nat /\ Len(ledger'[t]) \in Nat /\ Len(opening[t]) \in Nat
  BY <1>0, TermFields, TermFieldsAfter DEF Request, Grown, ReplicaInv
<1>3. /\ Len(opening[t]) <= LastOf(m) /\ LastOf(m) <= Len(ledger[t])
      /\ \A k \in 1 .. Len(m.entries) : m.entries[k] = ledger[t][m.prev_log_index + k]
      /\ m.prev_log_index = 0 \/ m.prev_log_term = ledger[t][m.prev_log_index].term
      /\ \A a \in acks : a[1] = m.to /\ a[2] = t => a[3] <= LastOf(m)
  BY <1>0 DEF Request
<1>4. LastOf(m) = m.prev_log_index + Len(m.entries)
  BY DEF LastOf
<1> HIDE DEF t
<1>5. LastOf(m) <= Len(ledger'[t]) /\ LastOf(m) \in Nat
  BY <1>1, <1>2, <1>3, <1>4 DEF SameTo
<1>6. \A k \in 1 .. Len(ledger[t]) : ledger'[t][k] = ledger[t][k]
  BY <1>2 DEF SameTo
<1>7. \A k \in 1 .. Len(m.entries) : m.entries[k] = ledger'[t][m.prev_log_index + k]
  <2>1. \A k \in 1 .. Len(m.entries) : m.prev_log_index + k \in 1 .. Len(ledger[t])
    BY <1>1, <1>2, <1>3, <1>4
  <2> QED  BY <1>3, <1>6, <2>1
<1>8. m.prev_log_index = 0 \/ m.prev_log_term = ledger'[t][m.prev_log_index].term
  <2>1. m.prev_log_index # 0 => m.prev_log_index \in 1 .. Len(ledger[t])
    BY <1>1, <1>2, <1>3, <1>4
  <2> QED  BY <1>3, <1>6, <2>1
<1>9. ASSUME NEW a \in acks', a[1] = m.to, a[2] = t, a \notin acks PROVE FALSE
  <2>1. /\ a \in Server \X Nat \X Nat
        /\ \/ Leading(sm'[a[1]], a[2])
           \/ \E k \in net.append_req : Takes(k, a)
    BY <1>9, NewAck
  <2>2. <<t, m.leader_id>> \in leaders /\ m.to # m.leader_id /\ m.to \in Server
    BY <1>0, AdvanceBase, RequestFields DEF RequestsFromLeaders, t
  <2>3. CASE Leading(sm'[a[1]], a[2])
    <3>1. <<t, m.to>> \in leaders'
      BY <1>9, <2>2, <2>3, AdvanceBase DEF LeadersRecorded, Leading
    <3>2. <<t, m.leader_id>> \in leaders'
      BY <1>0, <2>2, LeadersGrow DEF Advance
    <3>3. <<t, m.to>>[1] = <<t, m.leader_id>>[1] => <<t, m.to>>[2] = <<t, m.leader_id>>[2]
      BY <3>1, <3>2 DEF Advance, ElectionSafety
    <3> QED  BY <2>2, <3>3
  <2>4. ASSUME NEW k \in net.append_req, Takes(k, a) PROVE FALSE
    <3>1. k.to = m.to /\ k.term = t /\ net'.append_req = net.append_req \ {k}
      BY <1>9, <2>4 DEF Takes
    <3>2. <<t, k.leader_id>> \in leaders
      BY <3>1, AdvanceBase DEF RequestsFromLeaders
    <3>3. <<t, k.leader_id>>[1] = <<t, m.leader_id>>[1] => <<t, k.leader_id>>[2] = <<t, m.leader_id>>[2]
      BY <2>2, <3>2 DEF Advance, ElectionSafety
    <3>4. k = m
      BY <3>1, <3>3 DEF ReplicaInv, RequestsGood
    <3> QED  BY <3>1, <3>4
  <2> QED  BY <2>1, <2>3, <2>4
<1>10. \A a \in acks' : a[1] = m.to /\ a[2] = t => a[3] <= LastOf(m)
  BY <1>3, <1>9
<1> QED  BY <1>0, <1>2, <1>3, <1>5, <1>7, <1>8, <1>10 DEF Request, t

\* A leader's new request carries its log to the end.
LEMMA RequestSent ==
    ASSUME Orderly, Advance, LedgersGood', AcksGood', NEW n \in Server,
           sm'[n].role = "Leader", NEW r,
           r.leader_id = n, r.term = sm'[n].current_term, LastOf(r) = Len(store'[n].entries),
           \A k \in 1 .. Len(r.entries) : r.entries[k] = store'[n].entries[r.prev_log_index + k],
           r.prev_log_index = 0 \/ r.prev_log_term = store'[n].entries[r.prev_log_index].term
    PROVE  Request(r, opening', ledger', acks')
<1> DEFINE t == sm'[n].current_term
<1>1. Leading(sm'[n], t)
  BY DEF Leading
<1>2. t \in Terms'
  <2>1. <<t, n>> \in leaders' /\ <<t, n>>[1] = t
    BY AdvanceBase DEF LeadersRecorded
  <2> QED  BY <2>1 DEF Terms
<1>3. ledger'[t] = store'[n].entries
  BY <1>1, <1>2 DEF Advance, Recorded
<1>4. DOMAIN ledger' = Terms' /\ Len(ledger'[t]) \in Nat /\ Len(opening'[t]) \in Nat
  BY <1>2, TermFieldsAfter
<1>5. Len(opening'[t]) <= Len(ledger'[t])
  BY <1>2, <1>4 DEF LedgersGood, Led, SameTo
<1>6. \A a \in acks' : a[2] = t => a[3] <= Len(ledger'[t])
  BY DEF AcksGood
<1> HIDE DEF t
<1>7. r.term = t
  BY DEF t
<1>8. LastOf(r) <= Len(ledger'[t])
  BY <1>3, <1>4
<1> QED  BY <1>2, <1>3, <1>4, <1>5, <1>6, <1>7, <1>8 DEF Request

LEMMA RequestsGoodStep ==
    ASSUME Orderly, Advance, ReplicaInv, Caught', LedgersGood', AcksGood', KnowledgeGood'
    PROVE  RequestsGood'
<1> DEFINE Goal == /\ \A m \in net'.append_req : Request(m, opening', ledger', acks')
                   /\ \A m, k \in net'.append_req : m.leader_id = k.leader_id /\ m.to = k.to => m = k
<1> SUFFICES Goal
  BY Zenon DEF RequestsGood, Request
<1>0. TypeInv /\ TypeInv' /\ AlignInv' /\ [Next]_vars
  BY AdvanceBase DEF Advance
<1>1. \A m, k \in net.append_req : m.leader_id = k.leader_id /\ m.to = k.to => m = k
  BY DEF ReplicaInv, RequestsGood
<1>2. ASSUME net'.append_req \subseteq net.append_req PROVE Goal
  BY <1>1, <1>2, RequestKept
<1>3. ASSUME NEW n \in Server, Sends(n) PROVE Goal
  <2>1. PICK s \in StateMachine, st \in Store :
          /\ s.role = "Leader" /\ LeaderProgress(n, s)
          /\ s.current_term = sm'[n].current_term /\ s.progress = sm'[n].progress
          /\ Aligned(st)
          /\ st.entries = store'[n].entries /\ st.snapshot = store'[n].snapshot
          /\ \A m \in net'.append_req :
                \/ m \in net.append_req /\ (RedundantRpcs \/ m.leader_id # n)
                \/ \E p \in Peers(n) :
                      ~NeedsSnapshot(s, st, p) /\ m = append_request(n, s, st, p)
    BY <1>3 DEF Sends
  <2>2. Whole(st) /\ sm'[n].role = "Leader"
    BY <1>0, <1>3, <2>1 DEF AlignInv, Whole, Sends
  <2>3. ASSUME NEW p \in Peers(n)
        PROVE  /\ s.progress[p].next_index <= Len(st.entries) + 1
               /\ Len(st.entries) < s.progress[p].next_index + MaxBatch
    <3>1. p \in Server \ {n}
      BY DEF Peers
    <3>2. sm'[n].progress[p].next_index <= Len(store'[n].entries) + 1
      BY <2>2, <3>1 DEF KnowledgeGood, LeaderKnows
    <3>3. Len(store'[n].entries) < sm'[n].progress[p].next_index + MaxBatch
      BY <2>2, <3>1 DEF Caught
    <3> QED  BY <2>1, <3>2, <3>3
  <2>4. ASSUME NEW m \in net'.append_req
        PROVE  \/ m \in net.append_req /\ m.leader_id # n
               \/ \E p \in Peers(n) : m = append_request(n, s, st, p)
    BY <2>1 DEF Orderly
  <2>5. ASSUME NEW p \in Peers(n), NEW m, m = append_request(n, s, st, p)
        PROVE  m.leader_id = n /\ m.to = p /\ Request(m, opening', ledger', acks')
    <3>1. Carries(m, n, p, s, st.entries)
      <4>1. /\ s.role = "Leader" /\ LeaderProgress(n, s) /\ Whole(st)
            /\ s.progress[p].next_index <= Len(st.entries) + 1
            /\ Len(st.entries) < s.progress[p].next_index + MaxBatch
        BY <2>1, <2>2, <2>3
      <4> QED  BY <2>5, <4>1, WholeRequest
    <3>2. /\ m.leader_id = n /\ m.to = p /\ m.term = sm'[n].current_term /\ LastOf(m) = Len(store'[n].entries)
          /\ \A k \in 1 .. Len(m.entries) : m.entries[k] = store'[n].entries[m.prev_log_index + k]
          /\ m.prev_log_index = 0 \/ m.prev_log_term = store'[n].entries[m.prev_log_index].term
      BY <2>1, <3>1 DEF Carries
    <3> QED  BY <2>2, <3>2, RequestSent
  <2>6. ASSUME NEW m \in net'.append_req PROVE Request(m, opening', ledger', acks')
    BY <2>4, <2>5, RequestKept
  <2>7. ASSUME NEW m \in net'.append_req, NEW k \in net'.append_req,
               m.leader_id = k.leader_id, m.to = k.to
        PROVE  m = k
    <3>1. CASE m \in net.append_req /\ m.leader_id # n
      <4>1. k.leader_id # n
        BY <2>7, <3>1
      <4>2. k \in net.append_req
        BY <2>4, <2>5, <4>1
      <4> QED  BY <1>1, <2>7, <3>1, <4>2
    <3>2. ASSUME NEW p \in Peers(n), m = append_request(n, s, st, p) PROVE m = k
      <4>1. m.leader_id = n /\ m.to = p
        BY <2>5, <3>2
      <4>2. PICK q \in Peers(n) : k = append_request(n, s, st, q)
        BY <2>4, <2>7, <4>1
      <4>3. k.to = q
        BY <2>5, <4>2
      <4> QED  BY <2>7, <3>2, <4>1, <4>2, <4>3
    <3> QED  BY <2>4, <3>1, <3>2
  <2> QED  BY <2>6, <2>7
<1> HIDE DEF Goal
<1>4. ASSUME NEW n \in Server, NodeStep(n) PROVE Goal
  BY <1>2, <1>3, <1>4 DEF NodeStep, SendsNothing
<1>5. ASSUME net' = net PROVE Goal
  BY <1>2, <1>5
<1>6. ASSUME NEW n \in Server, restore(n) \/ shutdown(n) \/ start(n) PROVE net' = net
  BY <1>6 DEF restore, shutdown, start
<1> QED  BY <1>0, <1>4, <1>5, <1>6, NodeSteps

\* The invariant of replication is kept by every step of an orderly cluster.
LEMMA ReplicaStep ==
    ASSUME Orderly, Advance, ReplicaInv, Caught'
    PROVE  ReplicaInv'
<1>1. HistoryBase' /\ LedgersGood'
  BY HistoryBaseStep, LedgersStep
<1>2. LogsGood' /\ AcksGood' /\ AnswersGood' /\ KnowledgeGood'
  BY <1>1, LogsStep, AcksStep, AnswersStep, KnowledgeStep
<1>3. RequestsGood'
  BY <1>1, <1>2, RequestsGoodStep
<1> QED  BY <1>1, <1>2, <1>3 DEF ReplicaInv

LEMMA HistoryImplements == HistorySpec => Spec
<1>1. HistoryInit => Init
  BY DEF HistoryInit
<1>2. [HistoryNext]_historyVars => [Next]_vars
  BY DEF HistoryNext, historyVars
<1> QED  BY <1>1, <1>2, PTL DEF HistorySpec, Spec

LEMMA StepAdvances ==
    ASSUME Orderly, MatchInv, MatchInv', HistoryBase, [HistoryNext]_historyVars
    PROVE  Advance
<1>1. [Next]_vars
  BY DEF HistoryNext, historyVars
<1>2. /\ ElectionInv => ElectionSafety
      /\ ElectionInv' => ElectionSafety'
  BY OneLeaderPerTerm, PTL
<1>3. /\ TypeInv /\ TypeInv' /\ HardStateSync /\ Unstarted
      /\ ElectionInv /\ ElectionInv' /\ LeadersRecorded'
  BY DEF MatchInv, AlignInv, ElectionInv, VoteInv, LeaderInv
<1>4. TermsKept
  BY <1>1, <1>3, TermsStep DEF Orderly
<1>5. Recorded
  BY <1>2, <1>3, RecordedStep
<1> QED  BY <1>1, <1>2, <1>3, <1>4, <1>5 DEF Advance

LEMMA ReplicaInit ==
    ASSUME HistoryInit
    PROVE  ReplicaInv
<1>1. /\ leaders = {} /\ DOMAIN opening = {} /\ DOMAIN ledger = {} /\ acks = {}
      /\ opening = [t \in {} |-> <<>>] /\ ledger = [t \in {} |-> <<>>]
      /\ \A n \in Server : sm[n].role = "Follower" /\ store[n].entries = <<>>
      /\ net.append_req = {} /\ net.append_resp = {} /\ net.snap_resp = {}
  BY DEF HistoryInit, Init, new_state, EmptyStore, NoRpcs
<1>2. Terms = {}
  BY <1>1 DEF Terms
<1>3. Acknowledged = {}
  BY <1>1 DEF Acknowledged
<1>4. HistoryBase
  BY <1>1, <1>2, <1>3 DEF HistoryBase
<1>5. LedgersGood /\ AcksGood /\ AnswersGood /\ RequestsGood /\ KnowledgeGood
  BY <1>1, <1>2 DEF LedgersGood, AcksGood, AnswersGood, RequestsGood, KnowledgeGood
<1>6. LogsGood
  <2>1. Len(<<>>) = 0
    OBVIOUS
  <2> QED  BY <1>1, <2>1 DEF LogsGood, Rooted
<1> QED  BY <1>4, <1>5, <1>6 DEF ReplicaInv

LEMMA ReplicaInvariant ==
    ASSUME Orderly
    PROVE  HistorySpec /\ []Caught => [](MatchInv /\ ReplicaInv)
<1>1. Spec => []MatchInv
  BY MatchInvariant DEF Orderly
<1>2. MatchInv /\ MatchInv' /\ ReplicaInv /\ Caught' /\ [HistoryNext]_historyVars => ReplicaInv'
  <2> SUFFICES ASSUME MatchInv, MatchInv', ReplicaInv, Caught', [HistoryNext]_historyVars
               PROVE  ReplicaInv'
    OBVIOUS
  <2>1. Advance
    BY StepAdvances DEF ReplicaInv
  <2> QED  BY <2>1, ReplicaStep
<1>3. HistoryInit => ReplicaInv
  BY ReplicaInit
<1> QED  BY <1>1, <1>2, <1>3, HistoryImplements, PTL DEF HistorySpec

LEMMA MatchIsHeld ==
    ASSUME MatchInv, ReplicaInv
    PROVE  MatchIndexSound
<1> SUFFICES ASSUME NEW n \in Server, NEW p \in Server, sm[n].role = "Leader",
                    phase[p] # "starting", sm[p].current_term <= sm[n].current_term,
                    NEW k \in DOMAIN store[n].entries,
                    store[n].entries[k].index <= sm[n].progress[p].match_index
             PROVE  Holds(store[p], store[n].entries[k])
  BY DEF MatchIndexSound
<1> DEFINE t == sm[n].current_term
           H == store[p].hard_state.term
<1>1. TypeInv /\ \A q \in Server : Whole(store[q])
  BY DEF MatchInv, AlignInv
<1>2. /\ store[n].entries \in Seq(Entry) /\ Len(store[n].entries) \in Nat
      /\ store[p].entries \in Seq(Entry) /\ Len(store[p].entries) \in Nat
      /\ t \in Nat /\ sm[p].current_term \in Nat /\ sm[n] \in StateMachine /\ H \in Nat
  BY <1>1, NodeFields
<1>3. k \in 1 .. Len(store[n].entries) /\ store[n].entries[k].index = k
  BY <1>1, <1>2, WholeStore DEF TypeInv, TypeOK
<1>4. sm[n].progress[p].match_index \in Nat /\ k <= sm[n].progress[p].match_index
  BY <1>2, <1>3 DEF StateMachine, Progress
<1>5. PICK a \in acks : a[1] = p /\ a[2] = t /\ sm[n].progress[p].match_index <= a[3]
  BY <1>2, <1>3, <1>4 DEF ReplicaInv, KnowledgeGood, LeaderKnows
<1>6. /\ t <= H /\ a[3] \in Nat
      /\ \A i \in 1 .. a[3] : Kept(store[p].entries, opening, ledger, t, i, H + 1)
  BY <1>5 DEF ReplicaInv, AcksGood
<1>7. H = sm[p].current_term
  <2>1. HardStateSync
    BY DEF MatchInv, ElectionInv, VoteInv
  <2>2. store[p].hard_state = hard_state_of(sm[p])
    BY <2>1 DEF HardStateSync
  <2> QED  BY <2>2 DEF hard_state_of
<1>8. H = t
  BY <1>2, <1>6, <1>7
<1>9. ledger[t] = store[n].entries
  <2>1. <<t, n>> \in leaders /\ <<t, n>>[1] = t /\ Leading(sm[n], t)
    BY DEF MatchInv, LeaderInv, LeadersRecorded, Leading
  <2>2. t \in Terms
    BY <2>1 DEF Terms
  <2> QED  BY <2>1, <2>2 DEF ReplicaInv, HistoryBase
<1>10. k \in 1 .. a[3]
  BY <1>3, <1>4, <1>5, <1>6
<1>11. ~Dropped(opening, ledger, t, k, H + 1)
  <2>1. Terms \subseteq Nat /\ DOMAIN opening = Terms
    BY <1>1, TermFields DEF ReplicaInv
  <2> HIDE DEF t, H
  <2>2. \A v \in Terms : ~(t < v /\ v < H + 1)
    BY <1>2, <1>8, <2>1
  <2> QED  BY <2>1, <2>2 DEF Dropped
<1>12. SameTo(store[p].entries, store[n].entries, k)
  BY <1>6, <1>9, <1>10, <1>11 DEF Kept
<1>13. k \in 1 .. Len(store[p].entries) /\ store[p].entries[k] = store[n].entries[k]
  BY <1>2, <1>3, <1>12 DEF SameTo
<1>14. DOMAIN store[p].entries = 1 .. Len(store[p].entries)
  BY <1>2
<1> QED  BY <1>13, <1>14 DEF Holds

\* A leader's match_index for a peer is true: as long as the peer has not moved
\* to a later term, it holds the leader's log up to there
\* (handle_append_response records it, on_append_entries of a peer, an election
\* or a restart could falsify it).
THEOREM MatchIndexTrue ==
    ASSUME Orderly
    PROVE  HistorySpec /\ []Caught => []MatchIndexSound
<1>1. MatchInv /\ ReplicaInv => MatchIndexSound
  BY MatchIsHeld
<1> QED  BY <1>1, ReplicaInvariant, PTL

-----------------------------------------------------------------------------
(* What the voters of a leader acknowledged before.                        *)

LastTerm(es) == IF Len(es) = 0 THEN 0 ELSE es[Len(es)].term

\* The log described by vote request m is at least as up to date as es.
UpToDate(m, es) ==
    \/ m.last_log_term > LastTerm(es)
    \/ m.last_log_term = LastTerm(es) /\ m.last_log_index >= Len(es)

\* A vote is cast by a candidate for itself or after on_request_vote compared
\* the logs.
LEMMA VotesBy ==
    ASSUME [Next]_vars, NEW v \in votes', v \notin votes
    PROVE  \/ \E n \in Server : start_election(n)
           \/ \E n \in Server, m \in net.vote_req : on_request_vote(n, m)
<1>1. ASSUME NEW n \in Server, heartbeat(n) PROVE votes' = votes
  BY <1>1 DEF heartbeat
<1>2. ASSUME NEW n \in Server, NEW cmd \in Command, on_proposal(n, cmd) PROVE votes' = votes
  BY <1>2 DEF on_proposal, history
<1>3. ASSUME NEW n \in Server, NEW m \in net.vote_resp, handle_vote_response(n, m) PROVE votes' = votes
  BY <1>3 DEF handle_vote_response
<1>4. ASSUME NEW n \in Server, NEW m \in net.append_req, on_append_entries(n, m) PROVE votes' = votes
  BY <1>4 DEF on_append_entries, history
<1>5. ASSUME NEW n \in Server, NEW m \in net.append_resp, handle_append_response(n, m) PROVE votes' = votes
  BY <1>5 DEF handle_append_response
<1>6. ASSUME NEW n \in Server, NEW m \in net.snap_req, on_install_snapshot(n, m) PROVE votes' = votes
  BY <1>6 DEF on_install_snapshot, history
<1>7. ASSUME NEW n \in Server, NEW m \in net.snap_resp, handle_snapshot_response(n, m) PROVE votes' = votes
  BY <1>7 DEF handle_snapshot_response
<1>8. ASSUME NEW n \in Server, restore(n) \/ shutdown(n) \/ start(n) \/ compact(n) PROVE votes' = votes
  BY <1>8 DEF restore, shutdown, start, compact, history
<1>9. UNCHANGED vars => votes' = votes
  BY DEF vars
<1> QED  BY <1>1, <1>2, <1>3, <1>4, <1>5, <1>6, <1>7, <1>8, <1>9 DEF Next

LEMMA VoteComparesLogs ==
    ASSUME AlignInv, NEW n \in Server, NEW m \in net.vote_req, on_request_vote(n, m),
           NEW v \in votes', v \notin votes
    PROVE  /\ v = <<n, m.term, m.candidate_id>> /\ UpToDate(m, store[n].entries)
           /\ m.term \in Nat /\ m.candidate_id \in Server
<1> DEFINE st == ObserveStore(store[n], sm[n], m.term, None)
<1>1. /\ sm[n] \in StateMachine /\ store[n] \in Store /\ net \in Net /\ Whole(store[n])
      /\ LeaderProgress(n, sm[n]) /\ sm[n].current_term \in Nat
  BY DEF AlignInv, TypeInv, TypeOK, ProgressOK, StateMachine
<1>2. m.term \in Nat /\ m.candidate_id \in Server
  BY <1>1 DEF Net, VoteReq
<1>3. st \in Store /\ st.entries = store[n].entries /\ st.snapshot = store[n].snapshot
  <2>1. st \in Store
    BY <1>1, <1>2, ObserveType
  <2>2. st.entries = store[n].entries /\ st.snapshot = store[n].snapshot
    BY <1>1, <1>2, ObservedLog
  <2> QED  BY <2>1, <2>2
<1>4. v = <<n, m.term, m.candidate_id>> /\ CandidateLogOk(st, m)
  <2>1. \/ CandidateLogOk(st, m) /\ votes' = votes \cup {<<n, m.term, m.candidate_id>>}
        \/ votes' = votes
    BY DEF on_request_vote
  <2> QED  BY <2>1
<1> HIDE DEF st
<1>5. Whole(st)
  BY <1>1, <1>3 DEF Whole, Aligned, first_index
<1>6. last_index(st) = Len(st.entries) /\ Len(st.entries) \in Nat
  BY <1>3, <1>5, WholeStore
<1>7. term_or_zero(st, last_index(st)) = LastTerm(st.entries)
  <2>1. term_or_zero(st, Len(st.entries)) =
          IF Len(st.entries) = 0 \/ Len(st.entries) > Len(st.entries) THEN 0
          ELSE st.entries[Len(st.entries)].term
    BY <1>3, <1>5, <1>6, WholeTerm
  <2> QED  BY <1>6, <2>1 DEF LastTerm
<1> QED  BY <1>2, <1>3, <1>4, <1>6, <1>7 DEF CandidateLogOk, UpToDate

\* A log at least as up to date as one that holds an entry of the leader of term
\* t in its own term holds it too, unless a leader in between did not.
LEMMA UpToDateKept ==
    ASSUME NEW op, NEW ld, DOMAIN op = DOMAIN ld, DOMAIN ld \subseteq Nat,
           \A w \in DOMAIN ld : op[w] \in Seq(Entry) /\ ld[w] \in Seq(Entry) /\ Led(op, ld, w),
           NEW es \in Seq(Entry), Rooted(es, ld), NEW fs \in Seq(Entry), Rooted(fs, ld),
           NEW m, m.last_log_index = Len(fs), m.last_log_term = LastTerm(fs), UpToDate(m, es),
           NEW u \in Nat, \A k \in 1 .. Len(fs) : fs[k].term < u,
           NEW t \in DOMAIN ld, NEW i \in Nat \ {0}, SameTo(es, ld[t], i), ld[t][i].term = t
    PROVE  Kept(fs, op, ld, t, i, u)
<1> DEFINE L == Len(fs)
           M == Len(es)
<1>1. /\ L \in Nat /\ M \in Nat /\ i <= M /\ i <= Len(ld[t]) /\ Len(ld[t]) \in Nat /\ M > 0
      /\ es[i] = ld[t][i] /\ i \in 1 .. M /\ M \in 1 .. M /\ t \in Nat
  BY DEF SameTo
<1>2. es[M].term \in Nat /\ LastTerm(es) = es[M].term
  BY <1>1, EntryOfLog DEF LastTerm
<1>3. t <= es[M].term
  BY <1>1, RootedOrdered
<1>4. L > 0
  BY <1>1, <1>2 DEF UpToDate, LastTerm
<1>5. LastTerm(fs) = fs[L].term /\ fs[L].term \in Nat /\ L \in 1 .. L
  BY <1>1, <1>4, EntryOfLog DEF LastTerm
<1>6. fs[L].term \in DOMAIN ld /\ SameTo(fs, ld[fs[L].term], L)
  BY <1>5 DEF Rooted
<1> DEFINE U == fs[L].term
<1>7. CASE U = es[M].term /\ L >= M
  <2>1. es[M].term \in DOMAIN ld /\ SameTo(es, ld[U], M)
    BY <1>1, <1>7 DEF Rooted
  <2>2. Len(ld[U]) \in Nat
    BY <1>6
  <2> HIDE DEF U, L, M
  <2>3. SameTo(fs, ld[U], i) /\ SameTo(es, ld[U], i)
    <3>1. Len(fs) \in Nat /\ Len(es) \in Nat /\ i <= L
      BY <1>1, <1>7 DEF L, M
    <3> QED  BY <1>1, <1>6, <2>1, <2>2, <3>1, SameShorter DEF U
  <2>4. SameTo(ld[U], es, i)
    BY <2>3, SameSymmetric
  <2>5. SameTo(fs, es, i)
    BY <1>1, <2>2, <2>3, <2>4, SameTransitive DEF L, M
  <2>6. SameTo(fs, ld[t], i)
    BY <1>1, <2>5, SameTransitive DEF L, M
  <2> QED  BY <2>6 DEF Kept
<1>8. CASE U > es[M].term
  <2>1. t < U /\ U < u
    BY <1>1, <1>2, <1>3, <1>5, <1>8
  <2>2. CASE ~SameTo(op[U], ld[t], i)
    BY <1>6, <2>1, <2>2 DEF Kept, Dropped
  <2>3. CASE SameTo(op[U], ld[t], i)
    <3>1. /\ op[U] \in Seq(Entry) /\ ld[U] \in Seq(Entry) /\ Len(op[U]) \in Nat
          /\ Len(ld[U]) \in Nat /\ Led(op, ld, U) /\ i <= Len(op[U])
      BY <1>6, <2>3 DEF SameTo
    <3>2. L > Len(op[U])
      <4>1. ld[U][L] = fs[L] /\ L <= Len(ld[U])
        BY <1>5, <1>6 DEF SameTo
      <4>2. \A k \in 1 .. Len(op[U]) : ld[U][k].term < U
        BY <3>1 DEF Led, SameTo
      <4> QED  BY SMTT(30), <1>1, <1>4, <1>5, <3>1, <4>1, <4>2
    <3> HIDE DEF U, L, M
    <3>3. SameTo(fs, ld[U], i)
      <4>1. i <= L /\ Len(fs) \in Nat
        BY <1>1, <3>1, <3>2 DEF L
      <4> QED  BY <1>1, <1>6, <3>1, <4>1, SameShorter DEF U
    <3>4. SameTo(op[U], ld[U], i)
      BY <3>1, SameShorter DEF Led
    <3>5. SameTo(ld[U], op[U], i)
      BY <3>4, SameSymmetric
    <3>6. SameTo(fs, op[U], i)
      BY <1>1, <3>1, <3>3, <3>5, SameTransitive DEF L
    <3>7. SameTo(fs, ld[t], i)
      BY <1>1, <2>3, <3>1, <3>6, SameTransitive DEF L
    <3> QED  BY <3>7 DEF Kept
  <2> QED  BY <2>2, <2>3
<1> QED  BY <1>1, <1>2, <1>5, <1>7, <1>8 DEF UpToDate

LEMMA NewVoteRequests ==
    ASSUME AlignInv, NEW n \in Server, start_election(n), NEW m \in net'.vote_req,
           m \notin net.vote_req
    PROVE  /\ m.candidate_id = n /\ m.term = sm[n].current_term + 1
           /\ m.last_log_index = Len(store[n].entries)
           /\ m.last_log_term = LastTerm(store[n].entries)
<1> DEFINE s  == become_candidate(sm[n], n)
           l  == become_leader(s, n, last_index(store[n]))
           x  == net.vote_req \cup {vote_request(n, s, store[n], q) : q \in Peers(n)}
           nt == [net EXCEPT !.vote_req = x]
<1>0. net \in Net /\ store[n] \in Store /\ Whole(store[n]) /\ sm[n] \in StateMachine
  BY DEF AlignInv, TypeInv, TypeOK
<1>1. net' = replicate_all(nt, n, l, store[n]) \/ net' = nt
  BY DEF start_election
<1>2. s.current_term = sm[n].current_term + 1
  BY <1>0 DEF become_candidate, StateMachine
<1> HIDE DEF s, l, x
<1>3. nt.vote_req = x
  BY <1>0 DEF Net
<1>4. ASSUME net' = replicate_all(nt, n, l, store[n]) PROVE net'.vote_req = nt.vote_req
  <2> DEFINE q == Outstanding(nt, n)
  <2>1. /\ q.vote_req = nt.vote_req
        /\ q = [vote_req |-> q.vote_req, vote_resp |-> q.vote_resp, append_req |-> q.append_req,
                append_resp |-> q.append_resp, snap_req |-> q.snap_req, snap_resp |-> q.snap_resp]
    BY <1>0 DEF Outstanding, Net
  <2> HIDE DEF q
  <2>2. PICK a, b : net' = [q EXCEPT !.append_req = a, !.snap_req = b]
    BY <1>4 DEF replicate_all, q
  <2> QED  BY <2>1, <2>2
<1>5. m \in x
  BY <1>1, <1>3, <1>4
<1>6. PICK q \in Peers(n) : m = vote_request(n, s, store[n], q)
  BY <1>5 DEF x
<1>7. /\ m.candidate_id = n /\ m.term = s.current_term
      /\ m.last_log_index = last_index(store[n])
      /\ m.last_log_term = term_or_zero(store[n], last_index(store[n]))
  BY <1>6 DEF vote_request
<1>8. last_index(store[n]) = Len(store[n].entries) /\ Len(store[n].entries) \in Nat
  BY <1>0, WholeStore
<1>9. term_or_zero(store[n], last_index(store[n])) = LastTerm(store[n].entries)
  <2>1. term_or_zero(store[n], Len(store[n].entries)) =
          IF Len(store[n].entries) = 0 \/ Len(store[n].entries) > Len(store[n].entries) THEN 0
          ELSE store[n].entries[Len(store[n].entries)].term
    BY <1>0, <1>8, WholeTerm
  <2> QED  BY <1>8, <2>1 DEF LastTerm
<1> QED  BY <1>2, <1>7, <1>8, <1>9

Stands(s, t) == s.role = "Candidate" /\ s.current_term = t

\* What q acknowledged before term u, of entries the leaders appended in their
\* own terms, is in es, unless a leader before u did not have it.
Supports(q, es, u, ak, op, ld) ==
    \A a \in ak : a[1] = q /\ a[2] < u =>
        \A i \in 1 .. a[3] : ld[a[2]][i].term = a[2] => Kept(es, op, ld, a[2], i, u)

\* A request for a vote describes the log of the candidate, as long as its
\* election is open.
VoteReqsGood == \A m \in net.vote_req :
    /\ m.term <= store[m.candidate_id].hard_state.term
    /\ m.term \notin Terms /\ Stands(sm[m.candidate_id], m.term) =>
          /\ m.last_log_index = Len(store[m.candidate_id].entries)
          /\ m.last_log_term = LastTerm(store[m.candidate_id].entries)

\* ... and the candidate's log holds what those who voted for it acknowledged.
VotesGood == \A v \in votes :
    /\ v[2] <= store[v[3]].hard_state.term
    /\ v[2] \notin Terms /\ Stands(sm[v[3]], v[2]) =>
          Supports(v[1], store[v[3]].entries, v[2], acks, opening, ledger)

\* A leader was elected with what a quorum had acknowledged.
ChosenGood == \A u \in Terms : \E Q \in SUBSET Server :
    /\ Cardinality(Q) >= quorum
    /\ \A q \in Q : /\ u <= store[q].hard_state.term
                    /\ Supports(q, opening[u], u, acks, opening, ledger)

VoteLayer == VoteReqsGood /\ VotesGood /\ ChosenGood

\* Who stands in an election that is open stood before, with the same log.
LEMMA StoodBefore ==
    ASSUME Orderly, Advance, NEW p \in Server, NEW u \in Nat, u \notin Terms,
           u <= store[p].hard_state.term, sm'[p].role # "Follower", sm'[p].current_term = u
    PROVE  Stands(sm[p], u) /\ store'[p].entries = store[p].entries
<1>0. /\ store[p].hard_state.term \in Nat /\ sm[p] \in StateMachine
      /\ sm[p].role \in {"Follower", "Candidate", "Leader"}
  BY AdvanceBase, NodeFields DEF StateMachine
<1>1. sm[p].role # "Follower" /\ sm[p].current_term = u
  BY <1>0, RoleSince
<1>2. sm[p].role # "Leader"
  <2>1. sm[p].role = "Leader" => <<u, p>> \in leaders /\ <<u, p>>[1] = u
    BY <1>1, AdvanceBase DEF LeadersRecorded
  <2> QED  BY <2>1 DEF Terms
<1>3. LogSame(p)
  BY OpenLogSame
<1> QED  BY <1>0, <1>1, <1>2, <1>3 DEF Stands, LogSame

LEMMA VoteReqFields ==
    ASSUME TypeInv, NEW m \in net.vote_req
    PROVE  m.candidate_id \in Server /\ m.term \in Nat
<1>1. net \in Net
  BY DEF TypeInv, TypeOK
<1> QED  BY <1>1 DEF Net, VoteReq

LEMMA VoteReqsStep ==
    ASSUME Orderly, Advance, VoteReqsGood
    PROVE  VoteReqsGood'
<1> SUFFICES ASSUME NEW m \in net'.vote_req
             PROVE  /\ m.term <= store'[m.candidate_id].hard_state.term
                    /\ m.term \notin Terms' /\ Stands(sm'[m.candidate_id], m.term) =>
                          /\ m.last_log_index = Len(store'[m.candidate_id].entries)
                          /\ m.last_log_term = LastTerm(store'[m.candidate_id].entries)
  BY Zenon DEF VoteReqsGood
<1>0. TypeInv /\ TypeInv' /\ AlignInv /\ Terms \subseteq Terms'
  BY AdvanceBase, TermFieldsAfter
<1>1. CASE m \in net.vote_req
  <2> DEFINE p == m.candidate_id
  <2>1. p \in Server /\ m.term \in Nat
    BY <1>0, <1>1, VoteReqFields
  <2>2. /\ m.term <= store[p].hard_state.term
        /\ store[p].hard_state.term \in Nat /\ store'[p].hard_state.term \in Nat
        /\ store[p].hard_state.term <= store'[p].hard_state.term
    BY <1>0, <1>1, <2>1, NodeFields, NodeFieldsAfter DEF VoteReqsGood, Advance, TermsKept
  <2>3. m.term <= store'[p].hard_state.term
    <3> HIDE DEF p
    <3> QED  BY <2>1, <2>2
  <2>4. ASSUME m.term \notin Terms', Stands(sm'[p], m.term)
        PROVE  Stands(sm[p], m.term) /\ store'[p].entries = store[p].entries /\ m.term \notin Terms
    <3>1. m.term \notin Terms /\ sm'[p].role # "Follower" /\ sm'[p].current_term = m.term
      BY <1>0, <2>4 DEF Stands
    <3> QED  BY <2>1, <2>2, <3>1, StoodBefore
  <2> QED  BY <1>1, <2>3, <2>4 DEF VoteReqsGood
<1>2. CASE m \notin net.vote_req
  <2>1. PICK n \in Server : start_election(n)
    BY <1>0, <1>2, NetMoves DEF Advance, Messages
  <2>2. /\ m.candidate_id = n /\ m.term = sm[n].current_term + 1
        /\ m.last_log_index = Len(store[n].entries)
        /\ m.last_log_term = LastTerm(store[n].entries)
    BY <1>0, <1>2, <2>1, NewVoteRequests
  <2>3. Standing(n)
    BY <1>0, <2>1, StartElectionStep
  <2>4. store'[n].hard_state.term = m.term /\ sm'[n].current_term = m.term
    BY <2>2, <2>3 DEF Standing, hard_state_of
  <2>5. sm[n].current_term \in Nat
    BY <1>0, NodeFields
  <2>6. m.term \notin Terms' => LogSame(n)
    BY <1>0, <2>4, OpenLogSame
  <2> QED  BY <2>2, <2>4, <2>5, <2>6 DEF LogSame
<1> QED  BY <1>1, <1>2

\* Support is not lost: what q acknowledges later it acknowledges in later terms.
LEMMA SupportsKept ==
    ASSUME Orderly, Advance, ReplicaInv, NEW q \in Server, NEW es \in Seq(Entry), NEW u \in Nat,
           Supports(q, es, u, acks, opening, ledger), u <= store'[q].hard_state.term
    PROVE  Supports(q, es, u, acks', opening', ledger')
<1> SUFFICES ASSUME NEW a \in acks', a[1] = q, a[2] < u, NEW i \in 1 .. a[3],
                    ledger'[a[2]][i].term = a[2]
             PROVE  Kept(es, opening', ledger', a[2], i, u)
  BY DEF Supports
<1>0. /\ Grown(opening, ledger, opening', ledger') /\ TypeInv /\ TypeInv'
      /\ DOMAIN ledger = Terms /\ DOMAIN opening = Terms /\ Terms \subseteq Nat
      /\ \A t \in Terms : Len(ledger[t]) \in Nat
  BY HistoryGrown, AdvanceBase, TermFields DEF ReplicaInv
<1>1. a \in acks
  <2>1. store'[q].hard_state.term \in Nat
    BY <1>0, NodeFieldsAfter
  <2>2. a \notin acks => a[2] \in Nat /\ store'[q].hard_state.term = a[2]
    BY NewAck
  <2> QED  BY <2>1, <2>2
<1>2. /\ a[2] \in Terms /\ a[3] \in Nat /\ a[3] <= Len(ledger[a[2]]) /\ Len(ledger[a[2]]) \in Nat
  BY <1>0, <1>1 DEF ReplicaInv, AcksGood
<1>3. i \in Nat /\ i <= Len(ledger[a[2]]) /\ i \in 1 .. Len(ledger[a[2]])
  BY <1>2
<1>4. ledger[a[2]][i].term = a[2]
  BY <1>0, <1>2, <1>3 DEF Grown, SameTo
<1>5. Kept(es, opening, ledger, a[2], i, u)
  BY <1>1, <1>4 DEF Supports
<1>6. CASE SameTo(es, ledger[a[2]], i)
  BY <1>0, <1>2, <1>3, <1>6, SameKept DEF Kept
<1>7. CASE Dropped(opening, ledger, a[2], i, u)
  <2>1. u <= u
    OBVIOUS
  <2>2. Dropped(opening', ledger', a[2], i, u)
    BY <1>0, <1>2, <1>3, <1>7, <2>1, DroppedKept
  <2> QED  BY <2>2 DEF Kept
<1> QED  BY <1>5, <1>6, <1>7 DEF Kept

\* What a node acknowledged, seen from a term that has no leader yet.
LEMMA AckBefore ==
    ASSUME TypeInv, ReplicaInv, NEW a \in acks, NEW i \in 1 .. a[3], NEW u \in Nat, u \notin Terms,
           store[a[1]].hard_state.term <= u
    PROVE  Kept(store[a[1]].entries, opening, ledger, a[2], i, u)
<1> DEFINE H == store[a[1]].hard_state.term
<1>1. a[1] \in Server /\ Kept(store[a[1]].entries, opening, ledger, a[2], i, H + 1)
  BY DEF ReplicaInv, AcksGood
<1>2. H \in Nat /\ Terms \subseteq Nat /\ DOMAIN opening = Terms /\ H <= u
  BY <1>1, NodeFields, TermFields DEF ReplicaInv
<1>3. \A v \in Terms : v < H + 1 => v < u
  <2> HIDE DEF H
  <2> QED  BY <1>2
<1> QED  BY <1>1, <1>2, <1>3 DEF Kept, Dropped

\* The log of whoever stands in, or has just won, an open election holds what
\* its voters acknowledged.
LEMMA VoteSupports ==
    ASSUME Orderly, Advance, ReplicaInv, VoteReqsGood, VotesGood,
           NEW v \in votes', v[2] \notin Terms,
           sm'[v[3]].role # "Follower", sm'[v[3]].current_term = v[2]
    PROVE  /\ Supports(v[1], store[v[3]].entries, v[2], acks, opening, ledger)
           /\ store'[v[3]].entries = store[v[3]].entries
<1> DEFINE q == v[1]
           u == v[2]
           p == v[3]
<1>0. /\ TypeInv /\ TypeInv' /\ AlignInv /\ [Next]_vars /\ HardStateSync
      /\ \A t \in Terms : opening[t] \in Seq(Entry) /\ ledger[t] \in Seq(Entry) /\ Led(opening, ledger, t)
      /\ DOMAIN ledger = Terms /\ DOMAIN opening = Terms /\ Terms \subseteq Nat
  BY AdvanceBase, TermFields DEF ReplicaInv, LedgersGood, Advance
<1>1. q \in Server /\ u \in Nat /\ p \in Server
  BY <1>0 DEF TypeInv, TypeOK
<1>2. store'[p].entries = store[p].entries
  BY <1>1, OpenLogSame DEF LogSame
<1>3. CASE v \in votes
  <2>1. u <= store[p].hard_state.term
    BY <1>3 DEF VotesGood
  <2>2. Stands(sm[p], u)
    BY <1>1, <2>1, StoodBefore
  <2> QED  BY <1>2, <1>3, <2>2 DEF VotesGood
<1>4. ASSUME v \notin votes, NEW n \in Server, start_election(n)
      PROVE  Supports(q, store[p].entries, u, acks, opening, ledger)
  <2>1. Standing(n)
    BY <1>0, <1>4, StartElectionStep
  <2>2. v = <<n, sm[n].current_term + 1, n>> /\ phase[n] = "running"
    BY <1>4, <2>1 DEF Standing
  <2>3. q = n /\ p = n /\ u = sm[n].current_term + 1
    BY <2>2
  <2>4. store[n].hard_state.term = sm[n].current_term /\ sm[n].current_term \in Nat
    <3>1. store[n].hard_state = hard_state_of(sm[n])
      BY <1>0, <2>2 DEF HardStateSync
    <3> QED  BY <1>0, <3>1, NodeFields DEF hard_state_of
  <2>5. store[n].hard_state.term <= u
    BY <1>1, <2>3, <2>4
  <2>6. ASSUME NEW a \in acks, a[1] = n, NEW i \in 1 .. a[3]
        PROVE  Kept(store[n].entries, opening, ledger, a[2], i, u)
    BY <1>0, <1>1, <2>5, <2>6, AckBefore
  <2> HIDE DEF q, u, p
  <2> QED  BY <2>3, <2>6 DEF Supports
<1>5. ASSUME v \notin votes, NEW n \in Server, NEW m \in net.vote_req, on_request_vote(n, m)
      PROVE  Supports(q, store[p].entries, u, acks, opening, ledger)
  <2>1. /\ v = <<n, m.term, m.candidate_id>> /\ UpToDate(m, store[n].entries)
    BY <1>0, <1>5, VoteComparesLogs
  <2>2. q = n /\ u = m.term /\ p = m.candidate_id
    BY <2>1
  <2>3. u <= store[p].hard_state.term
    BY <2>2 DEF VoteReqsGood
  <2>4. Stands(sm[p], u)
    BY <1>1, <2>3, StoodBefore
  <2>5. m.last_log_index = Len(store[p].entries) /\ m.last_log_term = LastTerm(store[p].entries)
    BY <2>2, <2>4 DEF VoteReqsGood
  <2>6. /\ store[n].entries \in Seq(Entry) /\ Rooted(store[n].entries, ledger)
        /\ store[p].entries \in Seq(Entry) /\ Rooted(store[p].entries, ledger)
        /\ \A k \in 1 .. Len(store[p].entries) :
              /\ store[p].entries[k].term <= store[p].hard_state.term
              /\ store[p].entries[k].term \in Nat
        /\ Len(store[p].entries) \in Nat
    BY <1>0, <1>1, NodeFields DEF ReplicaInv, LogsGood
  <2>7. store[p].hard_state.term = u
    <3>1. u > 0
      BY <2>4, AdvanceBase, <1>1 DEF Stands, RolesOK
    <3> QED  BY <1>1, <2>4, <3>1, AdvanceBase DEF Stands, TermsSaved
  <2>8. \A k \in 1 .. Len(store[p].entries) : store[p].entries[k].term < u
    <3>1. \A k \in 1 .. Len(store[p].entries) : store[p].entries[k].term # u
      BY <1>0, <2>6 DEF Rooted
    <3> HIDE DEF u, p
    <3> QED  BY <1>1, <2>6, <2>7, <3>1
  <2>9. store[n].hard_state.term <= u
    <3>1. /\ store[n].hard_state.term <= store'[n].hard_state.term
          /\ store[n].hard_state.term \in Nat /\ store'[n].hard_state.term \in Nat
      BY <1>0, NodeFields, NodeFieldsAfter DEF Advance, TermsKept
    <3>2. u = store'[n].hard_state.term
      BY <1>0, <1>5, <2>2, NewVotes
    <3> QED  BY <3>1, <3>2
  <2>10. ASSUME NEW a \in acks, a[1] = n, NEW i \in 1 .. a[3], ledger[a[2]][i].term = a[2]
         PROVE  Kept(store[p].entries, opening, ledger, a[2], i, u)
    <3>1. a[2] \in Terms /\ a[3] \in Nat /\ i \in Nat \ {0}
      BY DEF ReplicaInv, AcksGood
    <3>2. Kept(store[n].entries, opening, ledger, a[2], i, u)
      BY <1>0, <1>1, <2>9, <2>10, AckBefore
    <3>3. CASE Dropped(opening, ledger, a[2], i, u)
      BY <3>3 DEF Kept
    <3>4. CASE SameTo(store[n].entries, ledger[a[2]], i)
      <4> HIDE DEF u, p, q
      <4> QED  BY <1>0, <1>1, <2>1, <2>5, <2>6, <2>8, <2>10, <3>1, <3>4, UpToDateKept
    <3> QED  BY <3>2, <3>3, <3>4 DEF Kept
  <2> HIDE DEF q, u, p
  <2> QED  BY <2>2, <2>10 DEF Supports
<1>6. Supports(q, store[p].entries, u, acks, opening, ledger)
  BY <1>0, <1>3, <1>4, <1>5, VotesBy
<1> QED  BY <1>2, <1>6

LEMMA VotesGoodStep ==
    ASSUME Orderly, Advance, ReplicaInv, VoteReqsGood, VotesGood
    PROVE  VotesGood'
<1> SUFFICES ASSUME NEW v \in votes'
             PROVE  /\ v[2] <= store'[v[3]].hard_state.term
                    /\ v[2] \notin Terms' /\ Stands(sm'[v[3]], v[2]) =>
                          Supports(v[1], store'[v[3]].entries, v[2], acks', opening', ledger')
  BY Zenon DEF VotesGood
<1> DEFINE q == v[1]
           u == v[2]
           p == v[3]
<1>0. TypeInv /\ TypeInv' /\ AlignInv /\ Terms \subseteq Terms' /\ VotesRecorded' /\ [Next]_vars
  BY AdvanceBase, TermFieldsAfter DEF Advance
<1>1. q \in Server /\ u \in Nat /\ p \in Server
  BY <1>0 DEF TypeInv, TypeOK
<1>2. /\ store[p].hard_state.term \in Nat /\ store'[p].hard_state.term \in Nat
      /\ store[p].hard_state.term <= store'[p].hard_state.term
      /\ store[p].entries \in Seq(Entry)
  BY <1>0, <1>1, NodeFields, NodeFieldsAfter DEF Advance, TermsKept
<1>3. u <= store'[p].hard_state.term
  <2>1. ASSUME u <= store[p].hard_state.term PROVE u <= store'[p].hard_state.term
    <3> HIDE DEF u, p
    <3> QED  BY <1>1, <1>2, <2>1
  <2>2. CASE v \in votes
    BY <2>1, <2>2 DEF VotesGood
  <2>3. ASSUME v \notin votes, NEW n \in Server, start_election(n) PROVE u <= store'[p].hard_state.term
    <3>1. Standing(n)
      BY <1>0, <2>3, StartElectionStep
    <3>2. v[2] = store'[v[1]].hard_state.term
      BY <1>0, <2>3, NewVotes
    <3>3. v = <<n, sm[n].current_term + 1, n>>
      BY <2>3, <3>1 DEF Standing
    <3>4. q = p /\ u = store'[p].hard_state.term
      BY <3>2, <3>3
    <3> QED  BY <1>2, <3>4
  <2>4. ASSUME v \notin votes, NEW n \in Server, NEW m \in net.vote_req, on_request_vote(n, m)
        PROVE  u <= store'[p].hard_state.term
    <3>1. v = <<n, m.term, m.candidate_id>>
      BY <1>0, <2>4, VoteComparesLogs
    <3>2. u <= store[p].hard_state.term
      BY <3>1 DEF VoteReqsGood
    <3> QED  BY <2>1, <3>2
  <2> QED  BY <1>0, <2>2, <2>3, <2>4, VotesBy
<1>4. ASSUME u \notin Terms', Stands(sm'[p], u)
      PROVE  Supports(q, store'[p].entries, u, acks', opening', ledger')
  <2>1. u \notin Terms /\ sm'[p].role # "Follower" /\ sm'[p].current_term = u
    BY <1>0, <1>4 DEF Stands
  <2>2. /\ Supports(q, store[p].entries, u, acks, opening, ledger)
        /\ store'[p].entries = store[p].entries
    BY <2>1, VoteSupports
  <2>3. u <= store'[q].hard_state.term
    BY <1>0 DEF VotesRecorded, RecordedVote
  <2>4. Supports(q, store[p].entries, u, acks', opening', ledger')
    BY <1>1, <1>2, <2>2, <2>3, SupportsKept
  <2> QED  BY <2>2, <2>4
<1> QED  BY <1>3, <1>4

LEMMA ChosenStep ==
    ASSUME Orderly, Advance, ReplicaInv, VoteLayer
    PROVE  ChosenGood'
<1> SUFFICES ASSUME NEW u \in Terms'
             PROVE  \E Q \in SUBSET Server :
                       /\ Cardinality(Q) >= quorum
                       /\ \A q \in Q : /\ u <= store'[q].hard_state.term
                                       /\ Supports(q, opening'[u], u, acks', opening', ledger')
  BY Zenon DEF ChosenGood
<1>0. /\ TypeInv /\ TypeInv' /\ VotesRecorded' /\ LeadersElected' /\ [Next]_vars
      /\ u \in Nat /\ opening'[u] \in Seq(Entry)
  BY AdvanceBase, TermFieldsAfter DEF Advance
<1>1. CASE u \in Terms
  <2>1. PICK Q \in SUBSET Server :
           /\ Cardinality(Q) >= quorum
           /\ \A q \in Q : /\ u <= store[q].hard_state.term
                           /\ Supports(q, opening[u], u, acks, opening, ledger)
    BY <1>1 DEF VoteLayer, ChosenGood
  <2>2. opening'[u] = opening[u]
    BY <1>1 DEF Advance, Recorded
  <2>3. ASSUME NEW q \in Q
        PROVE  /\ u <= store'[q].hard_state.term
               /\ Supports(q, opening'[u], u, acks', opening', ledger')
    <3>1. q \in Server
      OBVIOUS
    <3>2. /\ store[q].hard_state.term \in Nat /\ store'[q].hard_state.term \in Nat
          /\ store[q].hard_state.term <= store'[q].hard_state.term
      BY <1>0, <3>1, NodeFields, NodeFieldsAfter DEF Advance, TermsKept
    <3>3. u <= store'[q].hard_state.term
      BY <1>0, <2>1, <3>2
    <3>4. Supports(q, opening'[u], u, acks, opening, ledger)
      BY <2>1, <2>2
    <3> QED  BY <1>0, <3>1, <3>3, <3>4, SupportsKept
  <2> QED  BY <2>1, <2>3
<1>2. CASE u \notin Terms
  <2>1. PICK n \in Server :
           /\ Leading(sm'[n], u) /\ <<u, n>> \in leaders' /\ opening'[u] = store[n].entries
    BY <1>2, NewLedger
  <2>2. PICK Q \in SUBSET Server : /\ Cardinality(Q) >= quorum
                                   /\ \A q \in Q : <<q, u, n>> \in votes'
    <3>1. <<u, n>>[1] = u /\ <<u, n>>[2] = n
      OBVIOUS
    <3>2. Elected(u, n)'
      BY <1>0, <2>1, <3>1 DEF LeadersElected, Elected
    <3> QED  BY <3>2 DEF Elected
  <2>3. ASSUME NEW q \in Q
        PROVE  /\ u <= store'[q].hard_state.term
               /\ Supports(q, opening'[u], u, acks', opening', ledger')
    <3> DEFINE v == <<q, u, n>>
    <3>1. v \in votes' /\ v[1] = q /\ v[2] = u /\ v[3] = n /\ q \in Server
      BY <2>2
    <3>2. u <= store'[q].hard_state.term
      BY <1>0, <3>1 DEF VotesRecorded, RecordedVote
    <3>3. sm'[n].role # "Follower" /\ sm'[n].current_term = u
      BY <2>1 DEF Leading
    <3> HIDE DEF v
    <3>4. Supports(q, store[n].entries, u, acks, opening, ledger)
      BY <1>2, <3>1, <3>3, VoteSupports DEF VoteLayer
    <3>5. Supports(q, opening'[u], u, acks, opening, ledger)
      BY <2>1, <3>4
    <3> QED  BY <1>0, <3>1, <3>2, <3>5, SupportsKept
  <2> QED  BY <2>2, <2>3
<1> QED  BY <1>1, <1>2

LEMMA VoteLayerStep ==
    ASSUME Orderly, Advance, ReplicaInv, VoteLayer
    PROVE  VoteLayer'
<1>1. VoteReqsGood' /\ VotesGood'
  BY VoteReqsStep, VotesGoodStep DEF VoteLayer
<1>2. ChosenGood'
  BY ChosenStep
<1> QED  BY <1>1, <1>2 DEF VoteLayer

-----------------------------------------------------------------------------
(* Acknowledged by a quorum.                                               *)

\* A quorum acknowledged the log of the leader of term t up to c, an entry the
\* leader appended in its own term.
Sealed(t, c, ak, ld) ==
    /\ t \in DOMAIN ld /\ c \in 1 .. Len(ld[t]) /\ ld[t][c].term = t
    /\ \E Q \in SUBSET Server :
          /\ Cardinality(Q) >= quorum
          /\ \A q \in Q : \E a \in ak : a[1] = q /\ a[2] = t /\ c <= a[3]

\* Every later leader was elected with such a log: the first one that was not
\* would share a voter with the quorum.
LEMMA SealedIsKept ==
    ASSUME TypeInv, ReplicaInv, ChosenGood, NEW t, NEW c, Sealed(t, c, acks, ledger),
           NEW u \in Terms, t < u
    PROVE  SameTo(opening[u], ledger[t], c)
<1> DEFINE Bad == {w \in Terms : t < w /\ ~SameTo(opening[w], ledger[t], c)}
<1>0. DOMAIN ledger = Terms /\ DOMAIN opening = Terms /\ Terms \subseteq Nat
  BY TermFields DEF ReplicaInv
<1> SUFFICES ASSUME Bad # {} PROVE FALSE
  OBVIOUS
<1>1. PICK w \in Bad : \A y \in Bad : w <= y
  <2>1. Bad \subseteq Nat
    BY <1>0
  <2> HIDE DEF Bad
  <2> QED  BY <2>1, LeastNumber
<1>2. w \in Terms /\ t < w /\ ~SameTo(opening[w], ledger[t], c) /\ w \in Nat
  BY <1>0, <1>1
<1>3. PICK P \in SUBSET Server :
         /\ Cardinality(P) >= quorum
         /\ \A q \in P : \E a \in acks : a[1] = q /\ a[2] = t /\ c <= a[3]
  BY DEF Sealed
<1>4. PICK Q \in SUBSET Server :
         /\ Cardinality(Q) >= quorum
         /\ \A q \in Q : Supports(q, opening[w], w, acks, opening, ledger)
  BY <1>2 DEF ChosenGood
<1>5. PICK q \in P : q \in Q
  BY <1>3, <1>4, QuorumsIntersect
<1>6. PICK a \in acks : a[1] = q /\ a[2] = t /\ c <= a[3]
  BY <1>3
<1>7. c \in 1 .. a[3] /\ ledger[t][c].term = t
  BY <1>6 DEF Sealed, ReplicaInv, AcksGood
<1>8. Kept(opening[w], opening, ledger, t, c, w)
  BY <1>2, <1>4, <1>5, <1>6, <1>7 DEF Supports
<1>9. Dropped(opening, ledger, t, c, w)
  BY <1>2, <1>8 DEF Kept
<1>10. PICK v \in Terms : t < v /\ v < w /\ ~SameTo(opening[v], ledger[t], c)
  BY <1>0, <1>9 DEF Dropped
<1>11. v \in Bad /\ v \in Nat
  BY <1>0, <1>10
<1> QED  BY <1>1, <1>2, <1>10, <1>11
\* What a quorum acknowledged stays acknowledged.
LEMMA SealedStays ==
    ASSUME Orderly, Advance, NEW t, NEW c, Sealed(t, c, acks, ledger)
    PROVE  Sealed(t, c, acks', ledger')
<1>1. /\ Terms \subseteq Terms' /\ DOMAIN ledger = Terms /\ DOMAIN ledger' = Terms'
      /\ acks \subseteq acks' /\ Terms \subseteq Nat
  BY AdvanceBase, TermFields, TermFieldsAfter DEF Advance, Recorded
<1>2. t \in Terms /\ t \in Terms' /\ c \in 1 .. Len(ledger[t])
  BY <1>1 DEF Sealed
<1>3. /\ ledger[t] \in Seq(Entry) /\ Len(ledger[t]) \in Nat
      /\ ledger'[t] \in Seq(Entry) /\ Len(ledger'[t]) \in Nat
  BY <1>2, AdvanceBase, TermFields, TermFieldsAfter DEF Advance
<1>4. SameTo(ledger[t], ledger'[t], Len(ledger[t]))
  BY <1>1, <1>2, HistoryGrown DEF Grown, Advance, HistoryBase
<1>5. c \in 1 .. Len(ledger'[t]) /\ ledger'[t][c] = ledger[t][c]
  BY <1>2, <1>3, <1>4 DEF SameTo
<1>6. PICK Q \in SUBSET Server :
         /\ Cardinality(Q) >= quorum
         /\ \A q \in Q : \E a \in acks : a[1] = q /\ a[2] = t /\ c <= a[3]
  BY DEF Sealed
<1>7. \A q \in Q : \E a \in acks' : a[1] = q /\ a[2] = t /\ c <= a[3]
  BY <1>1, <1>6
<1>8. ledger'[t][c].term = t
  BY <1>5 DEF Sealed
<1> QED  BY <1>1, <1>2, <1>5, <1>6, <1>7, <1>8 DEF Sealed

\* The first k entries of es are those a quorum acknowledged to the leader of a
\* term up to u.
Fixed(es, k, u, ak, ld) ==
    \/ k = 0
    \/ \E t \in DOMAIN ld, c \in Nat :
          t <= u /\ Sealed(t, c, ak, ld) /\ k <= c /\ SameTo(es, ld[t], k)

\* ... and if that term is u, n acknowledged them as well.
Backed(n, es, k, u, ak, ld) ==
    \/ k = 0
    \/ \E t \in DOMAIN ld, c \in Nat :
          /\ t <= u /\ Sealed(t, c, ak, ld) /\ k <= c /\ SameTo(es, ld[t], k)
          /\ t = u => \E a \in ak : a[1] = n /\ a[2] = t /\ k <= a[3]

LEMMA BackedFixed ==
    ASSUME NEW n, NEW es, NEW k, NEW u, NEW ak, NEW ld, Backed(n, es, k, u, ak, ld)
    PROVE  Fixed(es, k, u, ak, ld)
BY DEF Backed, Fixed

LEMMA FixedShorter ==
    ASSUME NEW es, Len(es) \in Nat, NEW k \in Nat, NEW j \in Nat, j <= k, NEW u, NEW ak, NEW ld,
           \A t \in DOMAIN ld : Len(ld[t]) \in Nat,
           Fixed(es, k, u, ak, ld)
    PROVE  Fixed(es, j, u, ak, ld)
<1>1. CASE k = 0
  BY <1>1 DEF Fixed
<1>2. ASSUME NEW t \in DOMAIN ld, NEW c \in Nat,
             t <= u, Sealed(t, c, ak, ld), k <= c, SameTo(es, ld[t], k)
      PROVE  Fixed(es, j, u, ak, ld)
  <2>1. SameTo(es, ld[t], j) /\ j <= c
    BY <1>2, SameShorter
  <2> QED  BY <1>2, <2>1 DEF Fixed
<1> QED  BY <1>1, <1>2 DEF Fixed

\* Both survive a step of the cluster, for a log that keeps those entries.
LEMMA FixedStays ==
    ASSUME Orderly, Advance, NEW es \in Seq(Entry), NEW fs \in Seq(Entry), NEW k \in Nat,
           SameTo(fs, es, k), NEW u \in Nat, NEW w \in Nat, u <= w,
           Fixed(es, k, u, acks, ledger)
    PROVE  Fixed(fs, k, w, acks', ledger')
<1>1. CASE k = 0
  BY <1>1 DEF Fixed
<1>2. ASSUME NEW t \in DOMAIN ledger, NEW c \in Nat,
             t <= u, Sealed(t, c, acks, ledger), k <= c, SameTo(es, ledger[t], k)
      PROVE  Fixed(fs, k, w, acks', ledger')
  <2>1. /\ t \in Terms /\ t \in Nat /\ t \in DOMAIN ledger' /\ ledger[t] \in Seq(Entry)
        /\ Len(es) \in Nat /\ Len(fs) \in Nat /\ Len(ledger[t]) \in Nat
    BY <1>2, AdvanceBase, TermFields, TermFieldsAfter DEF Advance
  <2>2. SameTo(fs, ledger[t], k) /\ k <= Len(ledger[t])
    BY <1>2, <2>1, SameTransitive DEF SameTo
  <2>3. SameTo(fs, ledger'[t], k)
    BY <1>2, <2>1, <2>2, HistoryGrown, SameKept
  <2>4. Sealed(t, c, acks', ledger') /\ t <= w
    BY <1>2, <2>1, SealedStays
  <2> QED  BY <1>2, <2>1, <2>3, <2>4 DEF Fixed
<1> QED  BY <1>1, <1>2 DEF Fixed

LEMMA BackedStays ==
    ASSUME Orderly, Advance, NEW n, NEW es \in Seq(Entry), NEW fs \in Seq(Entry), NEW k \in Nat,
           SameTo(fs, es, k), NEW u \in Nat, NEW w \in Nat, u <= w,
           Backed(n, es, k, u, acks, ledger)
    PROVE  Backed(n, fs, k, w, acks', ledger')
<1>1. CASE k = 0
  BY <1>1 DEF Backed
<1>2. ASSUME NEW t \in DOMAIN ledger, NEW c \in Nat,
             t <= u, Sealed(t, c, acks, ledger), k <= c, SameTo(es, ledger[t], k),
             t = u => \E a \in acks : a[1] = n /\ a[2] = t /\ k <= a[3]
      PROVE  Backed(n, fs, k, w, acks', ledger')
  <2>1. /\ t \in Terms /\ t \in Nat /\ t \in DOMAIN ledger' /\ ledger[t] \in Seq(Entry)
        /\ Len(es) \in Nat /\ Len(fs) \in Nat /\ Len(ledger[t]) \in Nat
        /\ acks \subseteq acks'
    BY SMTT(30), <1>2, AdvanceBase, TermFields, TermFieldsAfter DEF Advance, Recorded
  <2>2. SameTo(fs, ledger[t], k) /\ k <= Len(ledger[t])
    BY <1>2, <2>1, SameTransitive DEF SameTo
  <2>3. SameTo(fs, ledger'[t], k)
    BY <1>2, <2>1, <2>2, HistoryGrown, SameKept
  <2>4. Sealed(t, c, acks', ledger') /\ t <= w
    BY <1>2, <2>1, SealedStays
  <2>5. t = w => \E a \in acks' : a[1] = n /\ a[2] = t /\ k <= a[3]
    <3> SUFFICES ASSUME t = w PROVE \E a \in acks : a[1] = n /\ a[2] = t /\ k <= a[3]
      BY <2>1
    <3>1. t = u
      BY <1>2, <2>1
    <3> QED  BY <1>2, <3>1
  <2> QED  BY <1>2, <2>1, <2>3, <2>4, <2>5 DEF Backed
<1> QED  BY <1>1, <1>2 DEF Backed
\* A leader's count of match indices finds acknowledgements of a quorum.
LEMMA TallySeals ==
    ASSUME Orderly, Advance, ReplicaInv, NEW n \in Server, NEW s \in StateMachine, NEW c \in Nat,
           Tallies(n, s, c), LeaderKnows(n, s, Len(store[n].entries), acks)
    PROVE  /\ ledger[s.current_term] = store[n].entries
           /\ <<n, s.current_term, Len(store[n].entries)>> \in acks
           /\ store[n].hard_state.term = s.current_term /\ s.current_term \in Terms
           /\ store[n].hard_state.commit = s.commit_index
           /\ \/ c = s.commit_index
              \/ /\ c > s.commit_index /\ c <= Len(store[n].entries)
                 /\ Sealed(s.current_term, c, acks, ledger)
<1> DEFINE T == s.current_term
           es == store[n].entries
           M == {p \in Server : s.progress[p].match_index >= c}
<1>1. /\ TypeInv /\ HardStateSync /\ LeadersRecorded /\ HistoryBase /\ \A p \in Server : Whole(store[p])
  BY AdvanceBase DEF Advance, AlignInv
<1>2. /\ sm[n].role = "Leader" /\ sm[n].current_term = T /\ sm[n].commit_index = s.commit_index
      /\ phase[n] # "starting" /\ c \in CommitRange(s, store[n]) /\ IsNewCommit(s, store[n], c)
      /\ T \in Nat /\ s.commit_index \in Nat
  BY DEF Tallies, StateMachine
<1>3. store[n] \in Store /\ es \in Seq(Entry) /\ Len(es) \in Nat
  BY <1>1, NodeFields
<1>4. store[n].hard_state.term = T /\ store[n].hard_state.commit = s.commit_index
  <2>1. store[n].hard_state = hard_state_of(sm[n])
    BY <1>1, <1>2 DEF HardStateSync
  <2> QED  BY <1>2, <2>1 DEF hard_state_of
<1>5. T \in Terms /\ ledger[T] = es
  <2>1. <<T, n>> \in leaders /\ <<T, n>>[1] = T /\ Leading(sm[n], T)
    BY <1>1, <1>2 DEF LeadersRecorded, Leading
  <2>2. T \in Terms
    BY <2>1 DEF Terms
  <2> QED  BY <1>1, <2>1, <2>2 DEF HistoryBase
<1>6. <<n, T, Len(es)>> \in acks
  <2>1. <<n, sm[n].current_term, Len(store[n].entries)>> \in Acknowledged
    BY <1>2 DEF Acknowledged
  <2> QED  BY <1>1, <1>2, <2>1 DEF HistoryBase
<1>7. ASSUME c # s.commit_index
      PROVE  c > s.commit_index /\ c <= Len(es) /\ Sealed(T, c, acks, ledger)
  <2>1. c \in s.commit_index + 1 .. last_index(store[n]) /\ last_index(store[n]) = Len(es)
    BY <1>1, <1>2, <1>3, <1>7, WholeStore DEF CommitRange
  <2>2. c > s.commit_index /\ c <= Len(es) /\ c \in 1 .. Len(es)
    BY <1>2, <1>3, <2>1
  <2>3. term_or_zero(store[n], c) = T /\ replicated(s, c) >= quorum
    BY <1>2, <1>7 DEF IsNewCommit
  <2>4. es[c].term = T
    <3>1. term_or_zero(store[n], c) = IF c = 0 \/ c > Len(es) THEN 0 ELSE es[c].term
      BY <1>1, <1>3, WholeTerm
    <3> QED  BY <1>3, <2>2, <2>3, <3>1
  <2>5. n \notin M
    BY <2>2 DEF LeaderKnows
  <2>6. IsFiniteSet(M) /\ M \subseteq Server
    BY ConstantsAssumption, FS_Subset
  <2>7. Cardinality(M \cup {n}) = Cardinality(M) + 1
    BY <2>5, <2>6, FS_AddElement
  <2>8. Cardinality(M \cup {n}) >= quorum
    BY <2>3, <2>7 DEF replicated
  <2>9. ASSUME NEW q \in M \cup {n} PROVE \E a \in acks : a[1] = q /\ a[2] = T /\ c <= a[3]
    <3>1. CASE q = n
      <4>1. <<n, T, Len(es)>>[1] = n /\ <<n, T, Len(es)>>[2] = T /\ <<n, T, Len(es)>>[3] = Len(es)
        OBVIOUS
      <4> QED  BY <1>6, <2>2, <3>1, <4>1
    <3>2. CASE q \in M
      <4>1. q \in Server /\ s.progress[q].match_index >= c /\ s.progress[q].match_index \in Nat
        BY <3>2 DEF StateMachine, Progress
      <4>2. PICK a \in acks : a[1] = q /\ a[2] = T /\ s.progress[q].match_index <= a[3]
        BY <2>2, <4>1 DEF LeaderKnows
      <4>3. a[3] \in Nat
        BY <4>2 DEF ReplicaInv, AcksGood
      <4> QED  BY <4>1, <4>2, <4>3
    <3> QED  BY <2>9, <3>1, <3>2
  <2>10. \E Q \in SUBSET Server :
            /\ Cardinality(Q) >= quorum
            /\ \A q \in Q : \E a \in acks : a[1] = q /\ a[2] = T /\ c <= a[3]
    <3>1. M \cup {n} \in SUBSET Server
      BY <2>6
    <3> HIDE DEF M
    <3> QED  BY <2>8, <2>9, <3>1
  <2> HIDE DEF T, es, M
  <2> QED  BY <1>1, <1>5, <2>2, <2>4, <2>10 DEF Sealed, HistoryBase
<1> QED  BY <1>4, <1>5, <1>6, <1>7

\* ... so what it commits is backed by them.
LEMMA TallyBacked ==
    ASSUME Orderly, Advance, ReplicaInv, NEW n \in Server, NEW s \in StateMachine, NEW c \in Nat,
           Tallies(n, s, c), LeaderKnows(n, s, Len(store[n].entries), acks),
           Backed(n, store[n].entries, store[n].hard_state.commit, store[n].hard_state.term, acks, ledger)
    PROVE  Backed(n, store[n].entries, c, store[n].hard_state.term, acks, ledger)
<1> DEFINE T == s.current_term
           es == store[n].entries
<1>1. /\ ledger[T] = es /\ <<n, T, Len(es)>> \in acks
      /\ store[n].hard_state.term = T /\ T \in Terms /\ store[n].hard_state.commit = s.commit_index
      /\ \/ c = s.commit_index
         \/ c > s.commit_index /\ c <= Len(es) /\ Sealed(T, c, acks, ledger)
  BY TallySeals
<1>2. CASE c = s.commit_index
  BY <1>1, <1>2
<1>3. CASE c <= Len(es) /\ Sealed(T, c, acks, ledger)
  <2>1. T \in DOMAIN ledger /\ T <= T
    BY <1>1 DEF Advance, HistoryBase, Tallies, StateMachine
  <2>2. SameTo(es, ledger[T], c)
    BY <1>1, <1>3, SameSelf
  <2>3. \E a \in acks : a[1] = n /\ a[2] = T /\ c <= a[3]
    <3>1. <<n, T, Len(es)>>[1] = n /\ <<n, T, Len(es)>>[2] = T /\ <<n, T, Len(es)>>[3] = Len(es)
      OBVIOUS
    <3> QED  BY <1>1, <1>3, <3>1
  <2>4. c <= c
    OBVIOUS
  <2> HIDE DEF T, es
  <2>5. Backed(n, es, c, T, acks, ledger)
    BY <1>3, <2>1, <2>2, <2>3, <2>4 DEF Backed
  <2> QED  BY <1>1, <2>5 DEF T, es
<1> QED  BY <1>1, <1>2, <1>3
-----------------------------------------------------------------------------
(* Committed entries stay in the logs.                                     *)

\* A node that accepts a request holds the sender's log up to its last entry.
LEMMA AcceptedSame ==
    ASSUME Orderly, Advance, ReplicaInv, NEW n \in Server, NEW m \in net.append_req, Accepts(n, m)
    PROVE  /\ m.term \in Terms /\ LastOf(m) \in Nat
           /\ SameTo(store'[n].entries, ledger[m.term], LastOf(m))
<1>1. /\ TypeInv /\ DOMAIN ledger = Terms
      /\ \A u \in DOMAIN ledger : ledger[u] \in Seq(Entry) /\ Led(opening, ledger, u)
  BY AdvanceBase, TermFields DEF ReplicaInv, LedgersGood
<1>2. /\ m.prev_log_index \in Nat /\ m.entries \in Seq(Entry) /\ Len(m.entries) \in Nat
      /\ Request(m, opening, ledger, acks)
      /\ store[n].entries \in Seq(Entry) /\ Rooted(store[n].entries, ledger)
  BY <1>1, RequestFields, NodeFields DEF ReplicaInv, RequestsGood, LogsGood
<1>3. m.term \in Terms /\ LastOf(m) \in Nat
  BY <1>1, <1>2 DEF Request, LastOf
<1>4. CASE m.entries = <<>>
  <2>1. /\ store'[n].entries = store[n].entries /\ LastOf(m) = m.prev_log_index
        /\ Joins(store[n].entries, m)
    BY <1>2, <1>4 DEF Accepts, LastOf
  <2> QED  BY <1>1, <1>2, <1>3, <2>1, JoinsSame
<1>5. CASE m.entries # <<>>
  <2>1. Spliced(store[n].entries, m, store'[n].entries)
    BY <1>5 DEF Accepts
  <2> QED  BY <1>1, <1>2, <1>3, <2>1, SplicedSame
<1> QED  BY <1>4, <1>5

\* A request overwrites nothing a quorum acknowledged to a leader of an earlier
\* term, and nothing the node acknowledged in its own.
LEMMA OverwriteKeeps ==
    ASSUME Orderly, Advance, ReplicaInv, ChosenGood, NEW n \in Server, NEW m \in net.append_req,
           Overwrites(n, m), Spliced(store[n].entries, m, store'[n].entries),
           NEW t \in Terms, NEW c \in Nat, NEW k \in Nat, t <= store[n].hard_state.term,
           Sealed(t, c, acks, ledger), k <= c,
           t = store[n].hard_state.term => \E a \in acks : a[1] = n /\ a[2] = t /\ k <= a[3]
    PROVE  SameTo(store'[n].entries, ledger[t], k)
<1> DEFINE u == m.term
           es == store'[n].entries
<1>1. /\ TypeInv /\ TypeInv' /\ DOMAIN ledger = Terms /\ Terms \subseteq Nat /\ t \in Nat
      /\ \A w \in Terms : ledger[w] \in Seq(Entry) /\ Len(ledger[w]) \in Nat
                          /\ opening[w] \in Seq(Entry) /\ Len(opening[w]) \in Nat
      /\ \A w \in DOMAIN ledger : ledger[w] \in Seq(Entry) /\ Led(opening, ledger, w)
  BY AdvanceBase, TermFields DEF ReplicaInv, LedgersGood
<1>2. /\ m.prev_log_index \in Nat /\ m.entries \in Seq(Entry) /\ Len(m.entries) \in Nat
      /\ Request(m, opening, ledger, acks) /\ m.to = n
      /\ store[n].entries \in Seq(Entry) /\ Rooted(store[n].entries, ledger)
  BY <1>1, RequestFields, NodeFields DEF ReplicaInv, RequestsGood, LogsGood, Overwrites
<1>3. u \in Terms /\ store'[n].hard_state.term = u /\ u \in Nat
  BY <1>1, Overwritten
<1>4. SameTo(es, ledger[u], LastOf(m)) /\ LastOf(m) \in Nat /\ es \in Seq(Entry) /\ Len(es) \in Nat
  <2>1. SameTo(es, ledger[u], LastOf(m)) /\ es \in Seq(Entry)
    BY <1>1, <1>2, SplicedSame
  <2> QED  BY <1>2, <2>1 DEF LastOf
<1>5. store[n].hard_state.term <= u /\ store[n].hard_state.term \in Nat
  BY <1>1, <1>3, NodeFields DEF Advance, TermsKept
<1>6. CASE t = u
  <2>1. PICK a \in acks : a[1] = n /\ a[2] = t /\ k <= a[3]
    BY <1>1, <1>3, <1>5, <1>6
  <2>2. a[3] <= LastOf(m) /\ a[3] \in Nat
    BY <1>2, <1>6, <2>1 DEF Request, ReplicaInv, AcksGood
  <2>3. k <= LastOf(m)
    BY <1>4, <2>1, <2>2
  <2> QED  BY <1>1, <1>3, <1>4, <1>6, <2>3, SameShorter
<1>7. CASE t < u
  <2>1. SameTo(opening[u], ledger[t], c)
    BY <1>1, <1>3, <1>7, SealedIsKept
  <2>2. SameTo(opening[u], ledger[t], k) /\ k <= Len(opening[u])
    <3>1. SameTo(opening[u], ledger[t], k)
      BY <1>1, <1>3, <2>1, SameShorter
    <3> QED  BY <3>1 DEF SameTo
  <2>3. Len(opening[u]) <= LastOf(m)
    BY <1>2 DEF Request
  <2>4. SameTo(es, ledger[u], k)
    <3>1. k <= LastOf(m)
      BY <1>1, <1>3, <1>4, <2>2, <2>3
    <3> QED  BY <1>1, <1>3, <1>4, <3>1, SameShorter
  <2>5. SameTo(opening[u], ledger[u], k)
    <3>1. SameTo(opening[u], ledger[u], Len(opening[u]))
      BY <1>1, <1>3 DEF Led
    <3> QED  BY <1>1, <1>3, <2>2, <3>1, SameShorter
  <2>6. SameTo(ledger[u], opening[u], k)
    BY <2>5, SameSymmetric
  <2>7. SameTo(es, opening[u], k)
    BY <1>1, <1>3, <1>4, <2>4, <2>6, SameTransitive
  <2> QED  BY <1>1, <1>3, <1>4, <2>2, <2>7, SameTransitive
<1>8. t <= u
  BY <1>1, <1>3, <1>5
<1> QED  BY <1>1, <1>3, <1>6, <1>7, <1>8

\* So a node's log keeps its backed entries.
LEMMA BackedKept ==
    ASSUME Orderly, Advance, ReplicaInv, ChosenGood, NEW p \in Server, NEW k \in Nat,
           Backed(p, store[p].entries, k, store[p].hard_state.term, acks, ledger)
    PROVE  Backed(p, store'[p].entries, k, store'[p].hard_state.term, acks', ledger')
<1> DEFINE es == store[p].entries
           fs == store'[p].entries
           u == store[p].hard_state.term
           w == store'[p].hard_state.term
<1>1. /\ es \in Seq(Entry) /\ fs \in Seq(Entry) /\ Len(es) \in Nat /\ Len(fs) \in Nat
      /\ u \in Nat /\ w \in Nat /\ u <= w
  BY AdvanceBase, NodeFields, NodeFieldsAfter DEF Advance, TermsKept
<1>2. k <= Len(es)
  BY <1>1 DEF Backed, SameTo
<1>3. SameTo(fs, es, k)
  <2>1. CASE LogSame(p)
    BY <1>1, <1>2, <2>1, SameSelf DEF LogSame
  <2>2. ASSUME NEW cmd \in Command, new_entry(p, cmd) \in Entry,
               fs = Append(es, new_entry(p, cmd))
        PROVE  SameTo(fs, es, k)
    <3>1. Len(fs) = Len(es) + 1 /\ \A i \in 1 .. Len(es) : fs[i] = es[i]
      BY <1>1, <2>2
    <3> QED  BY <1>1, <1>2, <3>1 DEF SameTo
  <2>3. ASSUME NEW m \in net.append_req, Overwrites(p, m), Spliced(es, m, fs)
        PROVE  SameTo(fs, es, k)
    <3>1. CASE k = 0
      BY <1>1, <3>1 DEF SameTo
    <3>2. ASSUME NEW t \in DOMAIN ledger, NEW c \in Nat,
                 t <= u, Sealed(t, c, acks, ledger), k <= c, SameTo(es, ledger[t], k),
                 t = u => \E a \in acks : a[1] = p /\ a[2] = t /\ k <= a[3]
          PROVE  SameTo(fs, es, k)
      <4>1. t \in Terms /\ Len(ledger[t]) \in Nat
        BY <3>2, AdvanceBase, TermFields DEF Advance
      <4>2. SameTo(fs, ledger[t], k)
        BY <2>3, <3>2, <4>1, OverwriteKeeps
      <4>3. SameTo(ledger[t], es, k)
        BY <3>2, SameSymmetric
      <4> QED  BY <1>1, <4>1, <4>2, <4>3, SameTransitive
    <3> QED  BY <3>1, <3>2 DEF Backed
  <2>4. LogGrows(p)
    BY LogMoves
  <2> QED  BY <2>1, <2>2, <2>3, <2>4 DEF LogGrows
<1> QED  BY <1>1, <1>3, BackedStays
-----------------------------------------------------------------------------
(* What is committed, announced and applied was acknowledged by a quorum.  *)

\* A quorum acknowledged e to the leader of term t, at e's index.
SettledBy(t, e, ak, ld) ==
    \E c \in Nat : Sealed(t, c, ak, ld) /\ e.index \in 1 .. c /\ ld[t][e.index] = e

Settled(e, ak, ld) == \E t \in DOMAIN ld : SettledBy(t, e, ak, ld)

\* A request announces a commit index within what it vouches for.
Announces(m, ak, ld) ==
    /\ m.leader_commit <= LastOf(m)
    /\ Fixed(ld[m.term], m.leader_commit, m.term, ak, ld)

CommitsGood == \A n \in Server :
    Backed(n, store[n].entries, store[n].hard_state.commit, store[n].hard_state.term, acks, ledger)

AnnouncedGood == \A m \in net.append_req : Announces(m, acks, ledger)

CommittedGood == \A x \in committed : SettledBy(x.term, x.entry, acks, ledger)

AppliedGood == \A n \in Server : \A j \in DOMAIN applied[n] : Settled(applied[n][j], acks, ledger)

CommitLayer == CommitsGood /\ AnnouncedGood /\ CommittedGood /\ AppliedGood

\* Leader n, in state s, moves its commit index to c.
Counts(n, s, c) ==
    /\ Tallies(n, s, c) /\ LeaderKnows(n, s, Len(store[n].entries), acks)
    /\ \/ applied' = applied
       \/ applied' = [applied EXCEPT ![n] = applied[n] \o ToApply(s, store[n], c)]

LEMMA CommitCases ==
    ASSUME Orderly, Advance, ReplicaInv
    PROVE  \/ \E n \in Server, m \in net.append_req : Delivered(n, m)
           \/ \E n \in Server, s \in StateMachine, c \in Nat : Counts(n, s, c)
           \/ NothingCommitted
<1>1. net.snap_resp = {} /\ TypeInv
  BY AdvanceBase DEF ReplicaInv, AnswersGood
<1>2. ASSUME NEW n \in Server, NEW c \in Nat, Beats(n, c)
      PROVE  \E s \in StateMachine : Counts(n, s, c)
  <2>1. Tallies(n, sm[n], c) /\ sm[n] \in StateMachine /\ sm[n].role = "Leader"
    BY <1>1, <1>2, NodeFields DEF Beats, Tallies
  <2>2. LeaderKnows(n, sm[n], Len(store[n].entries), acks)
    BY <2>1 DEF ReplicaInv, KnowledgeGood
  <2> QED  BY <1>2, <2>1, <2>2 DEF Counts, Beats
<1>3. ASSUME NEW n \in Server, NEW r \in net.append_resp, NEW s \in StateMachine, NEW c \in Nat,
             Hearing(n, s, c, r)
      PROVE  Counts(n, s, c)
  <2>1. LeaderKnows(n, s, Len(store[n].entries), acks)
    BY <1>3, HearingKnows
  <2> QED  BY <1>3, <2>1 DEF Counts, Hearing
<1> QED  BY <1>1, <1>2, <1>3, CommitSteps

\* A follower takes over an announced commit index with the entries it is for.
LEMMA AcceptBacked ==
    ASSUME Orderly, Advance, ReplicaInv, NEW n \in Server, NEW m \in net.append_req, Accepts(n, m),
           Announces(m, acks, ledger),
           \E r \in net'.append_resp :
              r.success /\ r.peer = n /\ r.term = m.term /\ r.req_last_index = LastOf(m)
    PROVE  /\ m.leader_commit <= Len(store'[n].entries)
           /\ Backed(n, store'[n].entries, m.leader_commit, m.term, acks', ledger')
<1> DEFINE k == m.leader_commit
           u == m.term
           fs == store'[n].entries
<1>1. /\ u \in Terms /\ LastOf(m) \in Nat /\ SameTo(fs, ledger[u], LastOf(m))
  BY AcceptedSame
<1>2. /\ k \in Nat /\ u \in Nat /\ fs \in Seq(Entry) /\ Len(fs) \in Nat
      /\ ledger[u] \in Seq(Entry) /\ Len(ledger[u]) \in Nat
  <2>1. /\ TypeInv /\ TypeInv' /\ HistoryBase
    BY AdvanceBase DEF Advance
  <2>2. m.leader_commit \in Nat
    BY <2>1 DEF TypeInv, TypeOK, Net, AppendReq
  <2> QED  BY <1>1, <2>1, <2>2, TermFields, NodeFieldsAfter
<1>3. k <= LastOf(m) /\ Fixed(ledger[u], k, u, acks, ledger)
  BY DEF Announces
<1>4. SameTo(fs, ledger[u], k) /\ k <= Len(fs)
  <2>1. SameTo(fs, ledger[u], k)
    BY <1>1, <1>2, <1>3, SameShorter
  <2> QED  BY <2>1 DEF SameTo
<1>5. Fixed(fs, k, u, acks', ledger')
  <2>1. u <= u
    BY <1>2
  <2> QED  BY <1>2, <1>3, <1>4, <2>1, FixedStays
<1>6. \E a \in acks' : a[1] = n /\ a[2] = u /\ k <= a[3]
  <2>1. PICK r \in net'.append_resp :
           r.success /\ r.peer = n /\ r.term = m.term /\ r.req_last_index = LastOf(m)
    OBVIOUS
  <2> DEFINE a == <<r.peer, r.term, r.req_last_index>>
  <2>2. r \in {q \in net'.append_resp : q.success}
    BY <2>1
  <2>3. a \in Acknowledged'
    BY <2>2, Zenon DEF Acknowledged
  <2>4. a \in acks' /\ a[1] = n /\ a[2] = u /\ a[3] = LastOf(m)
    BY <2>1, <2>3 DEF Advance, Recorded
  <2> QED  BY <1>3, <2>4
<1>7. Backed(n, fs, k, u, acks', ledger')
  <2> HIDE DEF k, u, fs
  <2> QED  BY <1>5, <1>6 DEF Fixed, Backed
<1> QED  BY <1>4, <1>7
LEMMA CommitsStep ==
    ASSUME Orderly, Advance, ReplicaInv, ChosenGood, CommitsGood, AnnouncedGood
    PROVE  CommitsGood'
<1> SUFFICES ASSUME NEW p \in Server
             PROVE  Backed(p, store'[p].entries, store'[p].hard_state.commit,
                           store'[p].hard_state.term, acks', ledger')
  BY Zenon DEF CommitsGood
<1> DEFINE k == store'[p].hard_state.commit
<1>0. TypeInv /\ TypeInv' /\ HardStateSync /\ HardStateSync'
  BY AdvanceBase
<1>1. k \in Nat /\ store'[p].hard_state.term \in Nat
  BY <1>0, NodeFieldsAfter
<1>2. Backed(p, store[p].entries, store[p].hard_state.commit, store[p].hard_state.term, acks, ledger)
  BY DEF CommitsGood
<1>3. ASSUME store'[p].hard_state.commit = store[p].hard_state.commit
      PROVE  Backed(p, store'[p].entries, k, store'[p].hard_state.term, acks', ledger')
  BY <1>1, <1>2, <1>3, BackedKept
<1>4. CASE NothingCommitted
  BY <1>3, <1>4 DEF NothingCommitted, Unmoved
<1>5. ASSUME NEW n \in Server, NEW s \in StateMachine, NEW c \in Nat, Counts(n, s, c)
      PROVE  Backed(p, store'[p].entries, k, store'[p].hard_state.term, acks', ledger')
  <2>1. Tallies(n, s, c) /\ LeaderKnows(n, s, Len(store[n].entries), acks)
    BY <1>5 DEF Counts
  <2>2. CASE p # n
    BY <1>3, <2>1, <2>2 DEF Tallies
  <2>3. CASE p = n
    <3>1. sm'[n].commit_index = c /\ phase'[n] # "starting"
      BY <2>1 DEF Tallies
    <3>2. k = c
      <4>1. store'[n].hard_state = hard_state_of(sm'[n])
        BY <1>0, <3>1 DEF HardStateSync, hard_state_of
      <4> QED  BY <2>3, <3>1, <4>1 DEF hard_state_of
    <3>3. Backed(p, store[p].entries, c, store[p].hard_state.term, acks, ledger)
      BY <1>2, <2>1, <2>3, TallyBacked
    <3> QED  BY <3>2, <3>3, BackedKept
  <2> QED  BY <2>2, <2>3
<1>6. ASSUME NEW n \in Server, NEW m \in net.append_req, Delivered(n, m)
      PROVE  Backed(p, store'[p].entries, k, store'[p].hard_state.term, acks', ledger')
  <2>1. CASE p # n
    BY <1>3, <1>6, <2>1 DEF Delivered
  <2>2. phase[n] # "starting" /\ phase' = phase
    BY <1>6 DEF Delivered
  <2>3. CASE p = n /\ sm'[n].commit_index = sm[n].commit_index
    BY <1>0, <1>3, <2>2, <2>3, CommitUnmoved
  <2>4. CASE p = n /\ sm'[n].commit_index # sm[n].commit_index
    <3>1. /\ Accepts(n, m) /\ sm'[n].current_term = m.term
          /\ \E r \in net'.append_resp :
                r.success /\ r.peer = n /\ r.term = m.term /\ r.req_last_index = LastOf(m)
      BY <1>6, <2>4 DEF Delivered
    <3>2. /\ m.leader_commit <= Len(store'[n].entries)
          /\ Backed(n, store'[n].entries, m.leader_commit, m.term, acks', ledger')
      BY <3>1, AcceptBacked DEF AnnouncedGood
    <3>3. sm'[n].commit_index = m.leader_commit
      BY <2>4, <3>1, <3>2 DEF Accepts
    <3>4. store'[n].hard_state.commit = m.leader_commit /\ store'[n].hard_state.term = m.term
      <4>1. store'[n].hard_state = hard_state_of(sm'[n])
        BY <1>0, <2>2 DEF HardStateSync, hard_state_of
      <4> QED  BY <3>1, <3>3, <4>1 DEF hard_state_of
    <3> QED  BY <2>4, <3>2, <3>4
  <2> QED  BY <2>1, <2>3, <2>4
<1> QED  BY <1>4, <1>5, <1>6, CommitCases

\* A new request carries the whole log of its leader, and a commit index its
\* leader has reached.
LEMMA SentCommit ==
    ASSUME Orderly, Advance, KnowledgeGood', Caught', NEW m \in net'.append_req, m \notin net.append_req
    PROVE  \E n \in Server :
              /\ sm'[n].role = "Leader" /\ m.term = sm'[n].current_term
              /\ LastOf(m) = Len(store'[n].entries)
              /\ m.leader_commit \in Nat /\ m.leader_commit <= sm'[n].commit_index
<1>0. TypeInv /\ TypeInv' /\ AlignInv' /\ [Next]_vars
  BY AdvanceBase DEF Advance
<1>1. ASSUME NEW n \in Server, Sends(n)
      PROVE  /\ sm'[n].role = "Leader" /\ m.term = sm'[n].current_term
             /\ LastOf(m) = Len(store'[n].entries)
             /\ m.leader_commit \in Nat /\ m.leader_commit <= sm'[n].commit_index
  <2>1. PICK s \in StateMachine, st \in Store :
          /\ s.role = "Leader" /\ LeaderProgress(n, s)
          /\ s.current_term = sm'[n].current_term /\ s.progress = sm'[n].progress
          /\ s.commit_index <= sm'[n].commit_index
          /\ Aligned(st)
          /\ st.entries = store'[n].entries /\ st.snapshot = store'[n].snapshot
          /\ \A k \in net'.append_req :
                \/ k \in net.append_req /\ (RedundantRpcs \/ k.leader_id # n)
                \/ \E p \in Peers(n) :
                      ~NeedsSnapshot(s, st, p) /\ k = append_request(n, s, st, p)
    BY <1>1 DEF Sends
  <2>2. Whole(st) /\ sm'[n].role = "Leader"
    BY <1>0, <1>1, <2>1 DEF AlignInv, Whole, Sends
  <2>3. PICK p \in Peers(n) : m = append_request(n, s, st, p)
    BY <2>1
  <2>4. p \in Server \ {n}
    BY DEF Peers
  <2>5. sm'[n].progress[p].next_index <= Len(store'[n].entries) + 1
    BY <2>2, <2>4 DEF KnowledgeGood, LeaderKnows
  <2>6. Len(store'[n].entries) < sm'[n].progress[p].next_index + MaxBatch
    BY <2>2, <2>4 DEF Caught
  <2>7. /\ s.role = "Leader" /\ LeaderProgress(n, s) /\ Whole(st)
        /\ s.progress[p].next_index <= Len(st.entries) + 1
        /\ Len(st.entries) < s.progress[p].next_index + MaxBatch
    BY <2>1, <2>2, <2>5, <2>6
  <2>8. Carries(m, n, p, s, st.entries)
    BY <2>3, <2>7, WholeRequest
  <2>9. s.commit_index \in Nat
    BY DEF StateMachine
  <2> QED  BY <2>1, <2>2, <2>8, <2>9 DEF Carries
<1>2. ASSUME NEW n \in Server, NodeStep(n) PROVE Sends(n)
  BY <1>2 DEF NodeStep, SendsNothing
<1>3. ASSUME NEW n \in Server, restore(n) \/ shutdown(n) \/ start(n) PROVE net' = net
  BY <1>3 DEF restore, shutdown, start
<1> QED  BY <1>0, <1>1, <1>2, <1>3, NodeSteps
LEMMA AnnouncedStep ==
    ASSUME Orderly, Advance, ReplicaInv, Caught', AnnouncedGood, KnowledgeGood', CommitsGood'
    PROVE  AnnouncedGood'
<1> SUFFICES ASSUME NEW m \in net'.append_req PROVE Announces(m, acks', ledger')
  BY Zenon DEF AnnouncedGood, Announces
<1>0. /\ TypeInv /\ TypeInv' /\ HardStateSync' /\ RolesOK' /\ LeadersRecorded' /\ HistoryBase
  BY AdvanceBase DEF Advance
<1>1. CASE m \in net.append_req
  <2> DEFINE k == m.leader_commit
             u == m.term
  <2>1. Announces(m, acks, ledger) /\ Request(m, opening, ledger, acks)
    BY <1>1 DEF AnnouncedGood, ReplicaInv, RequestsGood
  <2>2. k \in Nat /\ u \in Nat /\ LastOf(m) \in Nat /\ u \in Terms
    <3>1. m.leader_commit \in Nat
      BY <1>0, <1>1 DEF TypeInv, TypeOK, Net, AppendReq
    <3>2. u \in Nat /\ LastOf(m) \in Nat
      BY <1>0, <1>1, RequestFields DEF LastOf
    <3> QED  BY <1>0, <2>1, <3>1, <3>2 DEF Request, HistoryBase
  <2>3. /\ ledger[u] \in Seq(Entry) /\ Len(ledger[u]) \in Nat
        /\ ledger'[u] \in Seq(Entry) /\ Len(ledger'[u]) \in Nat
    BY <1>0, <2>2, TermFields, TermFieldsAfter
  <2>4. k <= LastOf(m) /\ LastOf(m) <= Len(ledger[u]) /\ Fixed(ledger[u], k, u, acks, ledger)
    BY <2>1 DEF Announces, Request
  <2>5. SameTo(ledger'[u], ledger[u], k)
    <3>1. SameTo(ledger[u], ledger'[u], Len(ledger[u]))
      BY <1>0, <2>2, HistoryGrown DEF Grown, HistoryBase
    <3>2. SameTo(ledger[u], ledger'[u], k)
      BY <2>2, <2>3, <2>4, <3>1, SameShorter
    <3> QED  BY <3>2, SameSymmetric
  <2>6. Fixed(ledger'[u], k, u, acks', ledger')
    <3>1. u <= u
      BY <2>2
    <3> QED  BY <2>2, <2>3, <2>4, <2>5, <3>1, FixedStays
  <2> QED  BY <2>4, <2>6 DEF Announces
<1>2. CASE m \notin net.append_req
  <2>1. PICK n \in Server :
           /\ sm'[n].role = "Leader" /\ m.term = sm'[n].current_term
           /\ LastOf(m) = Len(store'[n].entries)
           /\ m.leader_commit \in Nat /\ m.leader_commit <= sm'[n].commit_index
    BY <1>2, SentCommit
  <2> DEFINE K == store'[n].hard_state.commit
             es == store'[n].entries
             T == m.term
  <2>2. phase'[n] # "starting"
    BY <1>0, <2>1 DEF RolesOK
  <2>3. K = sm'[n].commit_index /\ store'[n].hard_state.term = T
    <3>1. store'[n].hard_state = hard_state_of(sm'[n])
      BY <1>0, <2>2 DEF HardStateSync, hard_state_of
    <3> QED  BY <2>1, <3>1 DEF hard_state_of
  <2>4. T \in Terms' /\ ledger'[T] = es
    <3>1. <<T, n>> \in leaders' /\ <<T, n>>[1] = T /\ Leading(sm'[n], T)
      BY <1>0, <2>1 DEF LeadersRecorded, Leading
    <3>2. T \in Terms'
      BY <3>1 DEF Terms
    <3> QED  BY <3>1, <3>2 DEF Advance, Recorded
  <2>5. K \in Nat /\ es \in Seq(Entry) /\ Len(es) \in Nat
    BY <1>0, NodeFieldsAfter
  <2>6. Backed(n, es, K, T, acks', ledger')
    BY <2>3 DEF CommitsGood
  <2>7. Fixed(es, K, T, acks', ledger') /\ K <= Len(es)
    <3>1. Fixed(es, K, T, acks', ledger')
      BY <2>6, BackedFixed
    <3> QED  BY <2>5, <3>1 DEF Fixed, SameTo
  <2>8. \A t \in DOMAIN ledger' : Len(ledger'[t]) \in Nat
    BY TermFieldsAfter
  <2>9. m.leader_commit <= K
    BY <2>1, <2>3
  <2>10. Fixed(es, m.leader_commit, T, acks', ledger')
    BY <2>1, <2>5, <2>7, <2>8, <2>9, FixedShorter
  <2>11. m.leader_commit <= LastOf(m)
    BY <2>1, <2>5, <2>7, <2>9
  <2> QED  BY <2>4, <2>10, <2>11 DEF Announces
<1> QED  BY <1>1, <1>2

LEMMA SettledStays ==
    ASSUME Orderly, Advance, NEW t, NEW e, e.index \in Nat, SettledBy(t, e, acks, ledger)
    PROVE  SettledBy(t, e, acks', ledger')
<1>1. PICK c \in Nat : Sealed(t, c, acks, ledger) /\ e.index \in 1 .. c /\ ledger[t][e.index] = e
  BY DEF SettledBy
<1>2. Sealed(t, c, acks', ledger')
  BY <1>1, SealedStays
<1>3. t \in DOMAIN ledger /\ c <= Len(ledger[t]) /\ t \in Terms
  BY <1>1 DEF Sealed, Advance, HistoryBase
<1>4. SameTo(ledger[t], ledger'[t], Len(ledger[t])) /\ Len(ledger[t]) \in Nat
  BY <1>3, HistoryGrown, AdvanceBase, TermFields DEF Grown, Advance, HistoryBase
<1>5. ledger'[t][e.index] = e
  <2>1. e.index \in 1 .. Len(ledger[t])
    BY <1>1, <1>3, <1>4
  <2> QED  BY <1>1, <1>4, <2>1 DEF SameTo
<1> QED  BY <1>1, <1>2, <1>5 DEF SettledBy

\* The log of a leader that counts: backed up to the index it commits.
LEMMA CountedSettled ==
    ASSUME Orderly, Advance, ReplicaInv, CommitsGood, NEW n \in Server, NEW s \in StateMachine,
           NEW c \in Nat, Counts(n, s, c), NEW k \in 1 .. Len(store[n].entries), k <= c
    PROVE  /\ Settled(store[n].entries[k], acks, ledger)
           /\ s.commit_index < k => SettledBy(s.current_term, store[n].entries[k], acks, ledger)
<1> DEFINE es == store[n].entries
           e == es[k]
<1>1. /\ TypeInv /\ es \in Seq(Entry) /\ Len(es) \in Nat /\ Whole(store[n]) /\ store[n] \in Store
  BY AdvanceBase, NodeFields DEF AlignInv
<1>2. e.index = k /\ k \in Nat /\ k >= 1
  BY <1>1, WholeStore
<1>3. Tallies(n, s, c) /\ LeaderKnows(n, s, Len(store[n].entries), acks)
  BY DEF Counts
<1>4. ASSUME NEW t, NEW d \in Nat, Sealed(t, d, acks, ledger), k <= d, SameTo(es, ledger[t], k)
      PROVE  SettledBy(t, e, acks, ledger) /\ t \in DOMAIN ledger
  <2>1. e.index \in 1 .. d /\ ledger[t][e.index] = e
    BY <1>2, <1>4 DEF SameTo
  <2> QED  BY <1>4, <2>1 DEF SettledBy, Sealed
<1>5. Settled(e, acks, ledger)
  <2>1. Backed(n, es, c, store[n].hard_state.term, acks, ledger)
    BY <1>3, TallyBacked DEF CommitsGood
  <2>2. PICK t \in DOMAIN ledger, d \in Nat : Sealed(t, d, acks, ledger) /\ c <= d /\ SameTo(es, ledger[t], c)
    BY <1>2, <2>1 DEF Backed
  <2>3. Len(ledger[t]) \in Nat
    BY AdvanceBase, TermFields DEF Advance, HistoryBase
  <2>4. SameTo(es, ledger[t], k) /\ k <= d
    BY <1>1, <1>2, <2>2, <2>3, SameShorter
  <2>5. SettledBy(t, e, acks, ledger)
    BY <1>4, <2>2, <2>4
  <2> QED  BY <2>5 DEF Settled
<1>6. ASSUME s.commit_index < k PROVE SettledBy(s.current_term, e, acks, ledger)
  <2>1. /\ ledger[s.current_term] = es
        /\ \/ c = s.commit_index
           \/ Sealed(s.current_term, c, acks, ledger)
    BY <1>3, TallySeals
  <2>2. s.commit_index \in Nat
    BY DEF StateMachine
  <2>3. Sealed(s.current_term, c, acks, ledger)
    BY <1>2, <1>6, <2>1, <2>2
  <2>4. SameTo(es, ledger[s.current_term], k)
    BY <1>1, <1>2, <2>1, SameSelf
  <2> QED  BY <1>4, <2>3, <2>4
<1> QED  BY <1>5, <1>6
LEMMA CommittedStep ==
    ASSUME Orderly, Advance, ReplicaInv, CommitsGood, CommittedGood
    PROVE  CommittedGood'
<1> SUFFICES ASSUME NEW x \in committed' PROVE SettledBy(x.term, x.entry, acks', ledger')
  BY Zenon DEF CommittedGood, SettledBy, Sealed
<1>1. TypeInv /\ TypeInv'
  BY AdvanceBase
<1>2. x.entry \in Entry /\ x.entry.index \in Nat
  <2>1. x.entry \in Entry
    BY <1>1 DEF TypeInv, TypeOK
  <2> QED  BY <2>1 DEF Entry
<1>3. CASE x \in committed
  BY <1>2, <1>3, SettledStays DEF CommittedGood
<1>4. CASE x \notin committed
  <2>1. PICK n \in Server, s \in StateMachine, c \in Nat : Counts(n, s, c)
    BY <1>4, CommitCases DEF Delivered, NothingCommitted
  <2>2. committed' = committed \cup
           {[term |-> s.current_term, entry |-> store[n].entries[k]] :
               k \in {j \in DOMAIN store[n].entries :
                         store[n].entries[j].index \in s.commit_index + 1 .. c}}
    BY <2>1 DEF Counts, Tallies
  <2>3. PICK k \in DOMAIN store[n].entries :
           /\ store[n].entries[k].index \in s.commit_index + 1 .. c
           /\ x = [term |-> s.current_term, entry |-> store[n].entries[k]]
    BY <1>4, <2>2, Zenon
  <2>4. k \in 1 .. Len(store[n].entries) /\ store[n].entries[k].index = k
    <3>1. store[n] \in Store /\ Whole(store[n]) /\ store[n].entries \in Seq(Entry)
      BY AdvanceBase, NodeFields DEF AlignInv
    <3> QED  BY <3>1, WholeStore
  <2>5. s.commit_index \in Nat
    BY DEF StateMachine
  <2>6. k <= c /\ s.commit_index < k
    BY <2>3, <2>4, <2>5
  <2>7. SettledBy(s.current_term, store[n].entries[k], acks, ledger)
    BY <2>1, <2>4, <2>6, CountedSettled
  <2>8. SettledBy(x.term, x.entry, acks, ledger)
    BY <2>3, <2>7
  <2> QED  BY <1>2, <2>8, SettledStays
<1> QED  BY <1>3, <1>4

\* A node applies entries of its log, up to the index it commits.
LEMMA OutEntries ==
    ASSUME NEW s \in StateMachine, NEW st \in Store, Whole(st), NEW c \in Nat,
           NEW out, out = ToApply(s, st, c), NEW k \in 1 .. Len(out)
    PROVE  \E j \in 1 .. Len(st.entries) : j <= c /\ out[k] = st.entries[j]
<1> DEFINE la == s.last_applied
<1>1. /\ la \in Nat /\ st.entries \in Seq(Entry) /\ Len(st.entries) \in Nat
      /\ first_index(st) = 1 /\ last_index(st) = Len(st.entries)
  BY WholeStore DEF StateMachine
<1>2. out # <<>>
  OBVIOUS
<1>3. la < c /\ c <= Len(st.entries) /\ out = entries(st, la + 1, c + 1, c)
  <2>1. ~(la >= c \/ EntriesCompacted(st, la + 1) \/ c > last_index(st))
    BY <1>2 DEF ToApply
  <2>2. out = entries(st, la + 1, c + 1, c)
    BY <2>1 DEF ToApply
  <2> QED  BY <1>1, <2>1, <2>2
<1>4. out = SubSeq(st.entries, la + 1, c)
  <2>1. la + 1 = (la + 1) - first_index(st) + 1 /\ c = (c + 1) - first_index(st)
        /\ ~(c - (la + 1) + 1 > c)
    BY <1>1
  <2> HIDE DEF la
  <2> QED  BY <1>3, <2>1, EntriesSlice
<1>5. Len(out) = c - la /\ out[k] = st.entries[la + k]
  <2> HIDE DEF la
  <2>1. la + 1 \in Nat /\ la + 1 <= c /\ 1 <= la + 1 /\ c - (la + 1) + 1 = c - la
    BY <1>1, <1>3
  <2>2. Len(out) = c - la
    BY <1>1, <1>3, <1>4, <2>1
  <2>3. out[k] = st.entries[(la + 1) + k - 1]
    BY <1>1, <1>3, <1>4, <2>1, <2>2
  <2>4. (la + 1) + k - 1 = la + k
    BY <1>1, <1>2, <1>3, <2>2
  <2> QED  BY <2>2, <2>3, <2>4
<1>6. la + k \in 1 .. Len(st.entries) /\ la + k <= c
  <2> HIDE DEF la
  <2> QED  BY <1>1, <1>3, <1>5
<1> QED  BY <1>5, <1>6

LEMMA AppliedStep ==
    ASSUME Orderly, Advance, ReplicaInv, CommitsGood, AppliedGood
    PROVE  AppliedGood'
<1> SUFFICES ASSUME NEW p \in Server, NEW j \in DOMAIN applied'[p]
             PROVE  Settled(applied'[p][j], acks', ledger')
  BY Zenon DEF AppliedGood, Settled, SettledBy, Sealed
<1> DEFINE e == applied'[p][j]
<1>1. TypeInv /\ TypeInv'
  BY AdvanceBase
<1>2. e \in Entry /\ e.index \in Nat /\ applied[p] \in Seq(Entry) /\ applied'[p] \in Seq(Entry)
  <2>1. applied[p] \in Seq(Entry) /\ applied'[p] \in Seq(Entry)
    BY <1>1 DEF TypeInv, TypeOK
  <2>2. e \in Entry
    BY <2>1
  <2> QED  BY <2>1, <2>2 DEF Entry
<1>3. ASSUME Settled(e, acks, ledger) PROVE Settled(e, acks', ledger')
  <2>1. PICK t \in DOMAIN ledger : SettledBy(t, e, acks, ledger)
    BY <1>3 DEF Settled
  <2>2. t \in DOMAIN ledger'
    BY TermFieldsAfter DEF Advance, HistoryBase
  <2>3. SettledBy(t, e, acks', ledger')
    BY <1>2, <2>1, SettledStays
  <2> QED  BY <2>2, <2>3 DEF Settled
<1>4. CASE applied'[p] = applied[p]
  BY <1>3, <1>4 DEF AppliedGood
<1>5. ASSUME NEW n \in Server, NEW s \in StateMachine, NEW c \in Nat, Counts(n, s, c),
             applied'[p] # applied[p]
      PROVE  Settled(e, acks, ledger)
  <2> DEFINE out == ToApply(s, store[n], c)
  <2>1. applied' = [applied EXCEPT ![n] = applied[n] \o out]
    BY <1>5 DEF Counts
  <2>2. p = n /\ applied'[p] = applied[p] \o out
    BY <1>1, <1>5, <2>1 DEF TypeInv, TypeOK
  <2>3. store[n] \in Store /\ Whole(store[n]) /\ Aligned(store[n])
    BY AdvanceBase, NodeFields DEF AlignInv, Whole
  <2>4. out \in Seq(Entry) /\ Len(out) \in Nat
    BY <2>3, OutIndices
  <2> HIDE DEF out
  <2>5. CASE j \in 1 .. Len(applied[p])
    <3>1. e = applied[p][j] /\ j \in DOMAIN applied[p]
      BY <1>2, <2>2, <2>4, <2>5
    <3> QED  BY <3>1 DEF AppliedGood
  <2>6. ASSUME NEW k \in 1 .. Len(out), e = out[k] PROVE Settled(e, acks, ledger)
    <3>1. PICK i \in 1 .. Len(store[n].entries) : i <= c /\ out[k] = store[n].entries[i]
      BY <2>3, OutEntries DEF out
    <3>2. Settled(store[n].entries[i], acks, ledger)
      BY <1>5, <3>1, CountedSettled
    <3> QED  BY <2>6, <3>1, <3>2
  <2>7. j \in 1 .. Len(applied[p]) \/ \E k \in 1 .. Len(out) : e = out[k]
    <3>1. j \in 1 .. Len(applied[p]) + Len(out) /\ Len(applied[p]) \in Nat
      BY <1>2, <2>2, <2>4
    <3>2. ASSUME j > Len(applied[p])
          PROVE  j - Len(applied[p]) \in 1 .. Len(out) /\ e = out[j - Len(applied[p])]
      BY <1>2, <2>2, <2>4, <3>1, <3>2
    <3>3. j \in 1 .. Len(applied[p]) \/ j > Len(applied[p])
      BY <3>1
    <3> QED  BY <3>2, <3>3
  <2> QED  BY <2>5, <2>6, <2>7
<1>6. CASE applied'[p] # applied[p]
  <2>1. PICK n \in Server, s \in StateMachine, c \in Nat : Counts(n, s, c)
    BY <1>6, CommitCases DEF Delivered, NothingCommitted
  <2> QED  BY <1>3, <1>5, <1>6, <2>1
<1> QED  BY <1>4, <1>6

LEMMA CommitLayerStep ==
    ASSUME Orderly, Advance, ReplicaInv, ReplicaInv', VoteLayer, Caught', CommitLayer
    PROVE  CommitLayer'
<1>1. /\ ChosenGood /\ KnowledgeGood'
      /\ CommitsGood /\ AnnouncedGood /\ CommittedGood /\ AppliedGood
  BY DEF VoteLayer, CommitLayer, ReplicaInv
<1>2. CommitsGood' /\ CommittedGood' /\ AppliedGood'
  BY <1>1, CommitsStep, CommittedStep, AppliedStep
<1>3. AnnouncedGood'
  BY <1>1, <1>2, AnnouncedStep
<1> QED  BY <1>2, <1>3 DEF CommitLayer

\* The invariant of commitment: what the logs, the votes and the commit indices
\* owe to the acknowledgements of a quorum.
CommitInv == MatchInv /\ ReplicaInv /\ VoteLayer /\ CommitLayer

LEMMA LayersInit ==
    ASSUME HistoryInit
    PROVE  VoteLayer /\ CommitLayer
<1>1. /\ leaders = {} /\ votes = {} /\ committed = {}
      /\ \A n \in Server : store[n].hard_state.commit = 0 /\ applied[n] = <<>>
      /\ net.append_req = {} /\ net.vote_req = {}
  BY DEF HistoryInit, Init, EmptyStore, NoRpcs
<1>2. Terms = {}
  BY <1>1 DEF Terms
<1>3. VoteLayer
  BY <1>1, <1>2 DEF VoteLayer, VoteReqsGood, VotesGood, ChosenGood
<1>4. CommitsGood /\ AnnouncedGood /\ CommittedGood
  BY <1>1 DEF CommitsGood, AnnouncedGood, CommittedGood, Backed
<1>5. AppliedGood
  BY <1>1 DEF AppliedGood
<1> QED  BY <1>3, <1>4, <1>5 DEF CommitLayer

LEMMA CommitInvariant ==
    ASSUME Orderly
    PROVE  HistorySpec /\ []Caught => []CommitInv
<1>1. HistorySpec /\ []Caught => [](MatchInv /\ ReplicaInv)
  BY ReplicaInvariant
<1>2. /\ MatchInv /\ MatchInv' /\ ReplicaInv /\ ReplicaInv' /\ VoteLayer /\ CommitLayer /\ Caught'
      /\ [HistoryNext]_historyVars
      => VoteLayer' /\ CommitLayer'
  <2> SUFFICES ASSUME MatchInv, MatchInv', ReplicaInv, ReplicaInv', VoteLayer, CommitLayer, Caught',
                      [HistoryNext]_historyVars
               PROVE  VoteLayer' /\ CommitLayer'
    OBVIOUS
  <2>1. Advance
    BY StepAdvances DEF ReplicaInv
  <2> QED  BY <2>1, VoteLayerStep, CommitLayerStep
<1>3. HistoryInit => VoteLayer /\ CommitLayer
  BY LayersInit
<1> QED  BY <1>1, <1>2, <1>3, PTL DEF HistorySpec, CommitInv
-----------------------------------------------------------------------------
(* The safety of commitment.                                               *)

\* Every later leader leads with what a quorum acknowledged to an earlier one.
LEMMA SealedLater ==
    ASSUME CommitInv, NEW t, NEW c, Sealed(t, c, acks, ledger), NEW u \in Terms, t <= u
    PROVE  SameTo(ledger[u], ledger[t], c)
<1>1. TypeInv /\ ReplicaInv /\ ChosenGood /\ HistoryBase
  BY DEF CommitInv, MatchInv, AlignInv, ReplicaInv, VoteLayer
<1>2. /\ t \in Terms /\ t \in Nat /\ u \in Nat /\ c \in 1 .. Len(ledger[t])
      /\ Len(ledger[t]) \in Nat /\ Len(ledger[u]) \in Nat /\ Len(opening[u]) \in Nat
  <2>1. t \in Terms /\ c \in 1 .. Len(ledger[t])
    BY <1>1 DEF Sealed, HistoryBase
  <2> QED  BY <1>1, <2>1, TermFields
<1>3. CASE t = u
  BY <1>2, <1>3, SameSelf
<1>4. CASE t < u
  <2>1. SameTo(opening[u], ledger[t], c)
    BY <1>1, <1>4, SealedIsKept
  <2>2. SameTo(opening[u], ledger[u], Len(opening[u]))
    BY <1>1 DEF ReplicaInv, LedgersGood, Led
  <2>3. SameTo(opening[u], ledger[u], c)
    BY <1>2, <2>1, <2>2, SameShorter DEF SameTo
  <2>4. SameTo(ledger[u], opening[u], c)
    BY <2>3, SameSymmetric
  <2> QED  BY <1>2, <2>1, <2>4, SameTransitive
<1> QED  BY <1>2, <1>3, <1>4

LEMMA SettledEarlier ==
    ASSUME CommitInv, NEW t, NEW e, SettledBy(t, e, acks, ledger), NEW u \in Terms, t <= u
    PROVE  e.index \in 1 .. Len(ledger[u]) /\ ledger[u][e.index] = e
<1>1. PICK c \in Nat : Sealed(t, c, acks, ledger) /\ e.index \in 1 .. c /\ ledger[t][e.index] = e
  BY DEF SettledBy
<1>2. SameTo(ledger[u], ledger[t], c)
  BY <1>1, SealedLater
<1>3. Len(ledger[u]) \in Nat
  BY TermFields DEF CommitInv, MatchInv, AlignInv, ReplicaInv
<1> QED  BY <1>1, <1>2, <1>3 DEF SameTo

LEMMA SettledOnce ==
    ASSUME CommitInv, NEW e, NEW f, e.index = f.index,
           Settled(e, acks, ledger), Settled(f, acks, ledger)
    PROVE  e = f
<1>1. PICK t \in DOMAIN ledger : SettledBy(t, e, acks, ledger)
  BY DEF Settled
<1>2. PICK u \in DOMAIN ledger : SettledBy(u, f, acks, ledger)
  BY DEF Settled
<1>3. /\ t \in Terms /\ u \in Terms /\ t \in Nat /\ u \in Nat
  BY TermFields DEF CommitInv, MatchInv, AlignInv, ReplicaInv
<1>4. CASE t <= u
  <2>1. ledger[u][e.index] = e /\ ledger[u][f.index] = f
    BY <1>1, <1>2, <1>3, <1>4, SettledEarlier
  <2> QED  BY <2>1
<1>5. CASE u <= t
  <2>1. ledger[t][e.index] = e /\ ledger[t][f.index] = f
    BY <1>1, <1>2, <1>3, <1>5, SettledEarlier
  <2> QED  BY <2>1
<1> QED  BY <1>3, <1>4, <1>5

LEMMA CommittedSettled ==
    ASSUME CommitInv, NEW x \in committed
    PROVE  /\ SettledBy(x.term, x.entry, acks, ledger) /\ Settled(x.entry, acks, ledger)
           /\ x.term \in Terms /\ x.term \in Nat
<1>1. SettledBy(x.term, x.entry, acks, ledger)
  BY DEF CommitInv, CommitLayer, CommittedGood
<1>2. x.term \in DOMAIN ledger
  BY <1>1 DEF SettledBy, Sealed
<1>3. x.term \in Terms /\ x.term \in Nat
  BY <1>2, TermFields DEF CommitInv, MatchInv, AlignInv, ReplicaInv
<1> QED  BY <1>1, <1>2, <1>3 DEF Settled

\* A leader holds every entry a leader of an earlier term, or itself, committed:
\* on_request_vote's comparison of logs and maybe_advance_commit's restriction to
\* entries of the current term together keep any other node from being elected.
THEOREM LeadersComplete ==
    ASSUME Orderly
    PROVE  HistorySpec /\ []Caught => []LeaderCompleteness
<1>1. CommitInv => LeaderCompleteness
  <2> SUFFICES ASSUME CommitInv, NEW x \in committed, NEW n \in Server,
                      sm[n].role = "Leader", sm[n].current_term >= x.term
               PROVE  Holds(store[n], x.entry)
    BY DEF LeaderCompleteness
  <2> DEFINE T == sm[n].current_term
  <2>1. TypeInv /\ LeadersRecorded /\ HistoryBase
    BY DEF CommitInv, MatchInv, AlignInv, LeaderInv, ReplicaInv
  <2>2. T \in Terms /\ ledger[T] = store[n].entries
    <3>1. <<T, n>> \in leaders /\ <<T, n>>[1] = T /\ Leading(sm[n], T)
      BY <2>1 DEF LeadersRecorded, Leading
    <3>2. T \in Terms
      BY <3>1 DEF Terms
    <3> QED  BY <2>1, <3>1, <3>2 DEF HistoryBase
  <2>3. T \in Nat /\ store[n].entries \in Seq(Entry)
    BY <2>1, NodeFields
  <2>4. SettledBy(x.term, x.entry, acks, ledger) /\ x.term <= T
    BY <2>3, CommittedSettled
  <2>5. /\ x.entry.index \in 1 .. Len(store[n].entries)
        /\ store[n].entries[x.entry.index] = x.entry
    <3>1. x.entry.index \in 1 .. Len(ledger[T]) /\ ledger[T][x.entry.index] = x.entry
      BY <2>2, <2>4, SettledEarlier
    <3> QED  BY <2>2, <3>1
  <2>6. DOMAIN store[n].entries = 1 .. Len(store[n].entries)
    BY <2>3
  <2> QED  BY <2>5, <2>6 DEF Holds
<1> QED  BY <1>1, CommitInvariant, PTL

\* Every committed entry is in the storage of a quorum and stays there: a node
\* that acknowledged it (on_append_entries) is never made to overwrite it.
THEOREM CommittedStaysOnQuorum ==
    ASSUME Orderly
    PROVE  HistorySpec /\ []Caught => []CommittedOnQuorum
<1>1. CommitInv => CommittedOnQuorum
  <2> SUFFICES ASSUME CommitInv, NEW x \in committed
               PROVE  Cardinality({n \in Server :
                         \/ Holds(store[n], x.entry)
                         \/ x.entry.index < first_index(store[n])}) >= quorum
    BY DEF CommittedOnQuorum
  <2> DEFINE t == x.term
             e == x.entry
             S == {n \in Server : Holds(store[n], e) \/ e.index < first_index(store[n])}
  <2>1. TypeInv /\ ReplicaInv /\ ChosenGood /\ t \in Terms /\ t \in Nat
    BY CommittedSettled DEF CommitInv, MatchInv, AlignInv, VoteLayer
  <2>2. PICK c \in Nat : Sealed(t, c, acks, ledger) /\ e.index \in 1 .. c /\ ledger[t][e.index] = e
    BY CommittedSettled DEF SettledBy
  <2>3. PICK Q \in SUBSET Server :
           /\ Cardinality(Q) >= quorum
           /\ \A q \in Q : \E a \in acks : a[1] = q /\ a[2] = t /\ c <= a[3]
    BY <2>2 DEF Sealed
  <2>4. ASSUME NEW q \in Q PROVE Holds(store[q], e)
    <3>1. PICK a \in acks : a[1] = q /\ a[2] = t /\ c <= a[3]
      BY <2>3
    <3>2. q \in Server /\ a[3] \in Nat /\ c \in 1 .. a[3]
      BY <2>1, <2>2, <3>1 DEF ReplicaInv, AcksGood, Sealed
    <3>3. Kept(store[q].entries, opening, ledger, t, c, store[q].hard_state.term + 1)
      BY <2>1, <3>1, <3>2 DEF ReplicaInv, AcksGood
    <3>4. ~Dropped(opening, ledger, t, c, store[q].hard_state.term + 1)
      <4> SUFFICES ASSUME NEW v \in DOMAIN opening, t < v, ~SameTo(opening[v], ledger[t], c)
                   PROVE  FALSE
        BY DEF Dropped
      <4>1. v \in Terms
        BY <2>1 DEF ReplicaInv, HistoryBase
      <4> QED  BY <2>1, <2>2, <4>1, SealedIsKept
    <3>5. SameTo(store[q].entries, ledger[t], c)
      BY <3>3, <3>4 DEF Kept
    <3>6. store[q].entries \in Seq(Entry) /\ Len(store[q].entries) \in Nat
      BY <2>1, <3>2, NodeFields
    <3>7. e.index \in 1 .. Len(store[q].entries) /\ store[q].entries[e.index] = e
      BY <2>2, <3>5, <3>6 DEF SameTo
    <3>8. DOMAIN store[q].entries = 1 .. Len(store[q].entries)
      BY <3>6
    <3> QED  BY <3>7, <3>8 DEF Holds
  <2>5. Q \in SUBSET S
    BY <2>4
  <2>6. IsFiniteSet(S)
    BY ConstantsAssumption, FS_Subset
  <2>7. Cardinality(Q) <= Cardinality(S)
    <3> HIDE DEF S
    <3> QED  BY <2>5, <2>6, FS_Subset
  <2>8. Cardinality(Q) \in Nat /\ Cardinality(S) \in Nat /\ quorum \in Int
    <3>1. IsFiniteSet(Q) /\ Cardinality(Server) \in Nat
      BY ConstantsAssumption, FS_Subset, FS_CardinalityType
    <3>2. Cardinality(Q) \in Nat /\ Cardinality(S) \in Nat
      <4> HIDE DEF S
      <4> QED  BY <2>6, <3>1, FS_CardinalityType
    <3> QED  BY <3>1, <3>2 DEF quorum
  <2>9. Cardinality(S) >= quorum
    <3> HIDE DEF S
    <3> QED  BY <2>3, <2>7, <2>8
  <2> QED  BY <2>9
<1> QED  BY <1>1, CommitInvariant, PTL

\* No two entries are ever committed at one index, by whichever leaders
\* (maybe_advance_commit).
THEOREM CommitsOnce ==
    ASSUME Orderly
    PROVE  HistorySpec /\ []Caught => []CommittedOnce
<1>1. CommitInv => CommittedOnce
  <2> SUFFICES ASSUME CommitInv, NEW x \in committed, NEW y \in committed,
                      x.entry.index = y.entry.index
               PROVE  x.entry = y.entry
    BY DEF CommittedOnce
  <2>1. Settled(x.entry, acks, ledger) /\ Settled(y.entry, acks, ledger)
    BY CommittedSettled
  <2> QED  BY <2>1, SettledOnce
<1> QED  BY <1>1, CommitInvariant, PTL

\* The applications of two nodes never receive different entries for one index
\* on apply_tx (apply_committed).
THEOREM AppliesTheSame ==
    ASSUME Orderly
    PROVE  HistorySpec /\ []Caught => []StateMachineSafety
<1>1. CommitInv => StateMachineSafety
  <2> SUFFICES ASSUME CommitInv, NEW n \in Server, NEW p \in Server,
                      NEW i \in DOMAIN applied[n], NEW j \in DOMAIN applied[p],
                      applied[n][i].index = applied[p][j].index
               PROVE  applied[n][i] = applied[p][j]
    BY DEF StateMachineSafety
  <2>1. Settled(applied[n][i], acks, ledger) /\ Settled(applied[p][j], acks, ledger)
    BY DEF CommitInv, CommitLayer, AppliedGood
  <2> QED  BY <2>1, SettledOnce
<1> QED  BY <1>1, CommitInvariant, PTL

\* commit_index never points past the end of the node's log: append_entries
\* truncates the log, but never below what the node committed.
THEOREM CommitsWithinLog ==
    ASSUME Orderly
    PROVE  HistorySpec /\ []Caught => []CommitWithinLog
<1>1. CommitInv => CommitWithinLog
  <2> SUFFICES ASSUME CommitInv, NEW n \in Server, phase[n] # "starting"
               PROVE  sm[n].commit_index <= last_index(store[n])
    BY DEF CommitWithinLog
  <2>1. TypeInv /\ HardStateSync /\ Whole(store[n])
    BY DEF CommitInv, MatchInv, AlignInv, ElectionInv, VoteInv
  <2>2. store[n] \in Store /\ Len(store[n].entries) \in Nat
    BY <2>1, NodeFields
  <2>3. last_index(store[n]) = Len(store[n].entries)
    BY <2>1, <2>2, WholeStore
  <2>4. store[n].hard_state.commit <= Len(store[n].entries)
    BY <2>2 DEF CommitInv, CommitLayer, CommitsGood, Backed, SameTo
  <2>5. store[n].hard_state.commit = sm[n].commit_index
    <3>1. store[n].hard_state = hard_state_of(sm[n])
      BY <2>1 DEF HardStateSync
    <3> QED  BY <3>1 DEF hard_state_of
  <2> QED  BY <2>3, <2>4, <2>5
<1> QED  BY <1>1, CommitInvariant, PTL
-----------------------------------------------------------------------------
(* Commit indices only grow, and applying stays behind them.               *)

\* A node that was just started knows of no commit.
FreshNodes == \A n \in Server : phase[n] = "starting" => sm[n].commit_index = 0

LEMMA FreshNodesStep ==
    ASSUME ~ServeBeforeRestore, TypeInv, FreshNodes, [Next]_vars
    PROVE  FreshNodes'
<1> SUFFICES ASSUME NEW p \in Server, phase'[p] = "starting"
             PROVE  sm'[p].commit_index = 0
  BY DEF FreshNodes
<1>0. phase \in [Server -> {"starting", "running", "stopped"}] /\ sm \in [Server -> StateMachine]
  BY DEF TypeInv, TypeOK
<1>1. phase[p] = "starting" => sm[p].commit_index = 0
  BY DEF FreshNodes
<1>2. CASE UNCHANGED <<sm, store, phase, incarnation, net, votes, leaders>>
  BY <1>1, <1>2
<1>3. ASSUME NEW n \in Server, Calm(n)
      PROVE  sm'[p].commit_index = 0
  <2>1. phase[p] = "starting"
    BY <1>3 DEF Calm
  <2> QED  BY <1>1, <1>3, <2>1 DEF Calm, QuietNode, HigherNode, OthersStay
<1>4. ASSUME NEW n \in Server,
             Standing(n) \/ (\E m : Granting(n, m)) \/ (\E m : Counting(n, m))
      PROVE  sm'[p].commit_index = 0
  <2>1. phase[p] = "starting" /\ p # n
    BY <1>4 DEF Standing, Granting, Counting
  <2>2. OthersStay(n)
    BY <1>4 DEF Standing, Granting, Counting
  <2> QED  BY <1>1, <2>1, <2>2 DEF OthersStay
<1>5. ASSUME NEW n \in Server, restore(n)
      PROVE  sm'[p].commit_index = 0
  <2>1. /\ phase' = [phase EXCEPT ![n] = "running"]
        /\ \A q \in Server \ {n} : sm'[q] = sm[q]
    BY <1>5, RestoreFields
  <2> QED  BY <1>0, <1>1, <2>1
<1>6. ASSUME NEW n \in Server, shutdown(n)
      PROVE  sm'[p].commit_index = 0
  BY <1>0, <1>1, <1>6 DEF shutdown
<1>7. ASSUME NEW n \in Server, start(n)
      PROVE  sm'[p].commit_index = 0
  <2>1. /\ phase' = [phase EXCEPT ![n] = "starting"]
        /\ \A q \in Server \ {n} : sm'[q] = sm[q]
    BY <1>7, StartFields
  <2>2. sm'[n] = new_state
    BY <1>0, <1>7 DEF start
  <2>3. sm'[n].commit_index = 0
    BY <2>2 DEF new_state
  <2> QED  BY <1>0, <1>1, <2>1, <2>3
<1> QED  BY <1>2, <1>3, <1>4, <1>5, <1>6, <1>7, ElectionSteps

LEMMA CommitGrows ==
    ASSUME Orderly, Advance, ReplicaInv, AnnouncedGood, FreshNodes, NEW n \in Server, ~start(n)
    PROVE  sm'[n].commit_index >= sm[n].commit_index
<1>0. /\ TypeInv /\ TypeInv' /\ HardStateSync /\ HardStateSync' /\ [Next]_vars
      /\ phase \in [Server -> {"starting", "running", "stopped"}]
  BY AdvanceBase DEF Advance, TypeInv, TypeOK
<1>1. sm[n].commit_index \in Nat /\ sm'[n].commit_index \in Nat
  BY <1>0, NodeFields, NodeFieldsAfter
<1>2. CASE phase[n] = "starting"
  BY <1>1, <1>2 DEF FreshNodes
<1>3. CASE phase[n] # "starting"
  <2>1. phase'[n] # "starting"
    <3>1. ASSUME NEW q \in Server, restore(q) \/ shutdown(q) \/ start(q) PROVE phase'[n] # "starting"
      BY <1>0, <1>3, <3>1 DEF restore, shutdown, start
    <3> QED  BY <1>0, <1>3, <3>1, PhaseKept
  <2>2. store[n].hard_state.commit = sm[n].commit_index
    <3>1. store[n].hard_state = hard_state_of(sm[n])
      BY <1>0, <1>3 DEF HardStateSync
    <3> QED  BY <3>1 DEF hard_state_of
  <2>3. store'[n].hard_state.commit = sm'[n].commit_index
    <3>1. store'[n].hard_state = hard_state_of(sm'[n])
      BY <1>0, <2>1 DEF HardStateSync, hard_state_of
    <3> QED  BY <3>1 DEF hard_state_of
  <2>4. CASE NothingCommitted
    BY <1>1, <2>2, <2>3, <2>4 DEF NothingCommitted, Unmoved
  <2>5. ASSUME NEW q \in Server, NEW s \in StateMachine, NEW c \in Nat, Counts(q, s, c)
        PROVE  sm'[n].commit_index >= sm[n].commit_index
    <3>1. Tallies(q, s, c) /\ LeaderKnows(q, s, Len(store[q].entries), acks)
      BY <2>5 DEF Counts
    <3>2. c = s.commit_index \/ c > s.commit_index
      BY <3>1, TallySeals
    <3>3. /\ s.commit_index = sm[q].commit_index /\ sm'[q].commit_index = c
          /\ n # q => sm'[n] = sm[n]
      BY <3>1 DEF Tallies
    <3> QED  BY <1>1, <3>2, <3>3
  <2>6. ASSUME NEW q \in Server, NEW m \in net.append_req, Delivered(q, m)
        PROVE  sm'[n].commit_index >= sm[n].commit_index
    <3>1. CASE n # q
      BY <1>1, <2>6, <3>1 DEF Delivered
    <3>2. CASE n = q /\ sm'[n].commit_index = sm[n].commit_index
      BY <1>1, <3>2
    <3>3. CASE n = q /\ sm'[n].commit_index # sm[n].commit_index
      <4>1. /\ Accepts(n, m)
            /\ \E r \in net'.append_resp :
                  r.success /\ r.peer = n /\ r.term = m.term /\ r.req_last_index = LastOf(m)
        BY <2>6, <3>3 DEF Delivered
      <4>2. m.leader_commit <= Len(store'[n].entries)
        BY <4>1, AcceptBacked DEF AnnouncedGood
      <4>3. sm'[n].commit_index = m.leader_commit /\ m.leader_commit > sm[n].commit_index
        BY <3>3, <4>1, <4>2 DEF Accepts
      <4> QED  BY <1>1, <4>3
    <3> QED  BY <3>1, <3>2, <3>3
  <2> QED  BY <2>4, <2>5, <2>6, CommitCases
<1> QED  BY <1>2, <1>3

LEMMA AppliedBehind ==
    ASSUME Orderly, Advance, ReplicaInv, AnnouncedGood, FreshNodes, AppliedWithinCommit
    PROVE  AppliedWithinCommit'
<1> SUFFICES ASSUME NEW p \in Server PROVE sm'[p].last_applied <= sm'[p].commit_index
  BY DEF AppliedWithinCommit
<1>0. /\ TypeInv /\ TypeInv' /\ [Next]_vars /\ net.snap_req = {} /\ sm \in [Server -> StateMachine]
  BY AdvanceBase DEF Advance, AlignInv, TypeInv, TypeOK
<1>1. /\ sm[p] \in StateMachine /\ sm'[p] \in StateMachine
      /\ sm[p].commit_index \in Nat /\ sm'[p].commit_index \in Nat
      /\ sm[p].last_applied \in Nat /\ sm'[p].last_applied \in Nat
  BY <1>0, NodeFields, NodeFieldsAfter DEF StateMachine
<1>2. sm[p].last_applied <= sm[p].commit_index
  BY DEF AppliedWithinCommit
<1>3. ASSUME sm'[p] = sm[p] PROVE sm'[p].last_applied <= sm'[p].commit_index
  BY <1>2, <1>3
<1>4. ASSUME NEW n \in Server, heartbeat(n) PROVE sm'[p].last_applied <= sm'[p].commit_index
  <2>1. PICK c, out : Applies(n, c, out)
    BY <1>0, <1>4, HeartbeatApplies
  <2>2. CASE p # n
    BY <1>3, <2>1, <2>2 DEF Applies
  <2>3. CASE p = n
    <3>1. /\ c \in Nat /\ c >= sm[p].commit_index /\ Len(out) \in Nat
          /\ Len(out) > 0 => sm[p].last_applied + Len(out) <= c
          /\ sm'[p].commit_index = c /\ sm'[p].last_applied = sm[p].last_applied + Len(out)
      BY <2>1, <2>3 DEF Applies
    <3> QED  BY <1>1, <1>2, <3>1
  <2> QED  BY <2>2, <2>3
<1>5. ASSUME NEW n \in Server, restore(n) PROVE sm'[p].last_applied <= sm'[p].commit_index
  <2> DEFINE hs == store[n].hard_state
  <2>1. sm' = [sm EXCEPT ![n].current_term = hs.term, ![n].voted_for = restored_vote(hs),
                         ![n].commit_index = hs.commit, ![n].last_applied = hs.commit]
    BY <1>5 DEF restore
  <2>2. CASE p # n
    BY <1>0, <1>3, <2>1, <2>2
  <2>3. CASE p = n
    <3>1. sm'[p].last_applied = hs.commit /\ sm'[p].commit_index = hs.commit
      BY <1>0, <1>1, <2>1, <2>3 DEF StateMachine
    <3> QED  BY <1>1, <3>1
  <2> QED  BY <2>2, <2>3
<1>6. ASSUME NEW n \in Server, start(n) PROVE sm'[p].last_applied <= sm'[p].commit_index
  <2>1. sm' = [sm EXCEPT ![n] = new_state]
    BY <1>6 DEF start
  <2>2. CASE p # n
    BY <1>0, <1>3, <2>1, <2>2
  <2>3. CASE p = n
    <3>1. sm'[p] = new_state
      BY <1>0, <2>1, <2>3
    <3>2. sm'[p].last_applied = 0 /\ sm'[p].commit_index = 0
      BY <3>1 DEF new_state
    <3> QED  BY <3>2
  <2> QED  BY <2>2, <2>3
<1>7. ASSUME sm'[p].last_applied = sm[p].last_applied, ~start(p)
      PROVE  sm'[p].last_applied <= sm'[p].commit_index
  <2>1. sm'[p].commit_index >= sm[p].commit_index
    BY <1>7, CommitGrows
  <2> QED  BY <1>1, <1>2, <1>7, <2>1
<1>8. \A n \in Server : ~compact(n)
  BY DEF compact, Orderly
<1> QED  BY <1>0, <1>4, <1>5, <1>6, <1>7, <1>8, AppliedKept

\* last_applied never runs ahead of commit_index, restarts included: the counter
\* of apply_committed subtracts one from the other unchecked.
THEOREM AppliesBehindCommit ==
    ASSUME Orderly
    PROVE  HistorySpec /\ []Caught => []AppliedWithinCommit
<1>1. HistoryInit => FreshNodes /\ AppliedWithinCommit
  BY DEF HistoryInit, Init, new_state, FreshNodes, AppliedWithinCommit
<1>2. CommitInv /\ CommitInv' /\ FreshNodes /\ AppliedWithinCommit /\ [HistoryNext]_historyVars
      => FreshNodes' /\ AppliedWithinCommit'
  <2> SUFFICES ASSUME CommitInv, CommitInv', FreshNodes, AppliedWithinCommit, [HistoryNext]_historyVars
               PROVE  FreshNodes' /\ AppliedWithinCommit'
    OBVIOUS
  <2>1. MatchInv /\ MatchInv' /\ ReplicaInv /\ HistoryBase /\ AnnouncedGood /\ TypeInv
    BY DEF CommitInv, ReplicaInv, CommitLayer, MatchInv, AlignInv
  <2>2. Advance
    BY <2>1, StepAdvances
  <2>3. [Next]_vars
    BY <2>2 DEF Advance
  <2> QED  BY <2>1, <2>2, <2>3, FreshNodesStep, AppliedBehind DEF Orderly
<1> QED  BY <1>1, <1>2, CommitInvariant, PTL DEF HistorySpec

\* The commit index of a running node never moves back: on_append_entries sets it
\* to leader_commit or to the end of its log, which may just have been truncated.
THEOREM CommitsNeverRegress ==
    ASSUME Orderly
    PROVE  HistorySpec /\ []Caught => CommitNeverRegresses
<1> DEFINE Forward == \A n \in Server : incarnation'[n] = incarnation[n] =>
                         sm'[n].commit_index >= sm[n].commit_index
<1>1. HistoryInit => FreshNodes
  BY DEF HistoryInit, Init, new_state, FreshNodes
<1>2. CommitInv /\ CommitInv' /\ FreshNodes /\ [HistoryNext]_historyVars => FreshNodes' /\ [Forward]_vars
  <2> SUFFICES ASSUME CommitInv, CommitInv', FreshNodes, [HistoryNext]_historyVars
               PROVE  FreshNodes' /\ Forward
    OBVIOUS
  <2>1. /\ MatchInv /\ MatchInv' /\ ReplicaInv /\ HistoryBase /\ AnnouncedGood /\ TypeInv
    BY DEF CommitInv, ReplicaInv, CommitLayer, MatchInv, AlignInv
  <2>2. Advance
    BY <2>1, StepAdvances
  <2>3. [Next]_vars
    BY <2>2 DEF Advance
  <2>4. FreshNodes'
    BY <2>1, <2>3, FreshNodesStep DEF Orderly
  <2>5. ASSUME NEW n \in Server, incarnation'[n] = incarnation[n]
        PROVE  sm'[n].commit_index >= sm[n].commit_index
    <3>1. ~start(n)
      BY <2>1, <2>5 DEF start, TypeInv, TypeOK
    <3> QED  BY <2>1, <2>2, <3>1, CommitGrows
  <2> QED  BY <2>4, <2>5
<1> QED  BY <1>1, <1>2, CommitInvariant, PTL DEF HistorySpec, CommitNeverRegresses
-----------------------------------------------------------------------------
(* When one batch is enough.                                               *)

\* e is an entry of some log, or of some request.
Present(e) ==
    \/ \E n \in Server : \E k \in 1 .. Len(store[n].entries) : e = store[n].entries[k]
    \/ \E m \in net.append_req : \E k \in 1 .. Len(m.entries) : e = m.entries[k]

\* Every copy of a command is a copy of the entry its proposal made.
CommandsOnce == \A e, f \in Entry : Present(e) =>
    e.data \in proposed /\ (Present(f) /\ e.data = f.data => e = f)

\* Only proposals and requests write logs.
LEMMA LogWriters ==
    ASSUME Orderly, AlignInv, [Next]_vars
    PROVE  \/ \E n \in Server, cmd \in Command : on_proposal(n, cmd)
           \/ \E n \in Server, m \in net.append_req : on_append_entries(n, m)
           \/ proposed' = proposed /\ \A p \in Server : store'[p].entries = store[p].entries
<1> DEFINE Goal == proposed' = proposed /\ \A p \in Server : store'[p].entries = store[p].entries
<1>0. /\ TypeInv /\ net.snap_req = {} /\ store \in [Server -> Store]
  BY DEF AlignInv, TypeInv, TypeOK
<1>1. ASSUME NEW s PROVE \A st \in Store : Saved(st, s).entries = st.entries
  BY DEF Saved, save_hard_state, Store
<1>2. ASSUME NEW n \in Server, NEW s, proposed' = proposed,
             store' = store \/ store' = [store EXCEPT ![n] = Saved(@, s)]
      PROVE  Goal
  <2>1. CASE store' = store
    BY <1>2, <2>1
  <2>2. CASE store' = [store EXCEPT ![n] = Saved(@, s)]
    <3>1. Saved(store[n], s).entries = store[n].entries
      BY <1>0, <1>1
    <3>2. store'[n] = Saved(store[n], s) /\ \A p \in Server \ {n} : store'[p] = store[p]
      BY <1>0, <2>2
    <3> QED  BY <1>2, <3>1, <3>2
  <2> QED  BY <1>2, <2>1, <2>2
<1>3. ASSUME UNCHANGED vars PROVE Goal
  BY <1>3 DEF vars
<1>4. ASSUME NEW n \in Server, start_election(n) PROVE Goal
  <2>1. store' = [store EXCEPT ![n] = Saved(@, become_candidate(sm[n], n))] /\ proposed' = proposed
    BY <1>4 DEF start_election
  <2> QED  BY <1>2, <2>1
<1>5. ASSUME NEW n \in Server, NEW s, NEW c, Commit(n, s, c), proposed' = proposed PROVE Goal
  BY <1>2, <1>5 DEF Commit
<1>6. ASSUME NEW n \in Server, heartbeat(n) PROVE Goal
  BY <1>5, <1>6 DEF heartbeat
<1>7. ASSUME NEW n \in Server, NEW m, StepDown(n, m), proposed' = proposed PROVE Goal
  BY <1>2, <1>7 DEF StepDown
<1>8. ASSUME NEW n \in Server, NEW m \in net.vote_req, on_request_vote(n, m) PROVE Goal
  <2> DEFINE st == ObserveStore(store[n], sm[n], m.term, None)
  <2>1. st = store[n] \/ st = Saved(store[n], become_follower(sm[n], m.term, None))
    BY <1>0 DEF ObserveStore
  <2>2. proposed' = proposed
    BY <1>8 DEF on_request_vote, clientVars
  <2>3. PICK y : store' = [store EXCEPT ![n] = y] /\ (y = st \/ \E v : y = Saved(st, v))
    BY <1>8 DEF on_request_vote
  <2>4. y.entries = store[n].entries
    <3>1. st.entries = store[n].entries
      BY <1>0, <1>1, <2>1
    <3>2. \A v : Saved(st, v).entries = st.entries
      <4>1. st = store[n] \/ \E v : st = [store[n] EXCEPT !.hard_state = v]
        BY DEF ObserveStore, Saved, save_hard_state
      <4> QED  BY <1>0, <4>1 DEF Saved, save_hard_state, Store
    <3> QED  BY <2>3, <3>1, <3>2
  <2> QED  BY <1>0, <2>2, <2>3, <2>4
<1>9. ASSUME NEW n \in Server, NEW m \in net.vote_resp, handle_vote_response(n, m) PROVE Goal
  <2>1. (StepDown(n, m) \/ store' = store) /\ proposed' = proposed
    BY <1>9 DEF handle_vote_response, clientVars
  <2> QED  BY <1>7, <2>1
<1>10. ASSUME NEW n \in Server, NEW m \in net.append_resp, handle_append_response(n, m) PROVE Goal
  <2>1. (StepDown(n, m) \/ store' = store \/ \E s, c : Commit(n, s, c)) /\ proposed' = proposed
    BY <1>10 DEF handle_append_response
  <2> QED  BY <1>5, <1>7, <2>1
<1>11. ASSUME NEW n \in Server, NEW m \in net.snap_resp, handle_snapshot_response(n, m) PROVE Goal
  <2>1. (StepDown(n, m) \/ store' = store \/ \E s, c : Commit(n, s, c)) /\ proposed' = proposed
    BY <1>11 DEF handle_snapshot_response
  <2> QED  BY <1>5, <1>7, <2>1
<1>12. ASSUME NEW n \in Server, restore(n) \/ shutdown(n) \/ start(n) PROVE Goal
  BY <1>12 DEF restore, shutdown, start, clientVars
<1>13. ASSUME NEW n \in Server PROVE ~compact(n)
  BY DEF compact, Orderly
<1> HIDE DEF Goal
<1>14. (\E n \in Server, cmd \in Command : on_proposal(n, cmd))
       \/ (\E n \in Server, m \in net.append_req : on_append_entries(n, m)) \/ Goal
  <2>1. CASE UNCHANGED vars
    BY <1>3, <2>1
  <2>2. CASE Next
    <3>1. PICK n \in Server :
        \/ start_election(n) \/ heartbeat(n)
        \/ \E cmd \in Command : on_proposal(n, cmd)
        \/ \E m \in net.vote_req : on_request_vote(n, m)
        \/ \E m \in net.vote_resp : handle_vote_response(n, m)
        \/ \E m \in net.append_req : on_append_entries(n, m)
        \/ \E m \in net.append_resp : handle_append_response(n, m)
        \/ \E m \in net.snap_req : on_install_snapshot(n, m)
        \/ \E m \in net.snap_resp : handle_snapshot_response(n, m)
        \/ restore(n) \/ shutdown(n) \/ start(n) \/ compact(n)
      BY <2>2, Zenon DEF Next
    <3>2. ~\E m \in net.snap_req : on_install_snapshot(n, m)
      BY <1>0
    <3> QED  BY <1>4, <1>6, <1>8, <1>9, <1>10, <1>11, <1>12, <1>13, <3>1, <3>2
  <2> QED  BY <2>1, <2>2
<1> QED  BY <1>14 DEF Goal

\* Copying requests out of logs, and logs out of requests, copies entries whole.
LEMMA CommandsStep ==
    ASSUME Orderly, AlignInv, AlignInv', CommandsOnce, [Next]_vars
    PROVE  CommandsOnce'
<1>0. /\ TypeInv /\ TypeInv' /\ \A p \in Server : Whole(store'[p])
  BY DEF AlignInv
<1> DEFINE Logged(e) == \E n \in Server : \E k \in 1 .. Len(store'[n].entries) : e = store'[n].entries[k]
           Sent(e) == \E m \in net'.append_req : \E k \in 1 .. Len(m.entries) : e = m.entries[k]
<1>1. ASSUME NEW e \in Entry, Sent(e) PROVE Present(e) \/ Logged(e)
  <2>0. PICK m \in net'.append_req : \E k \in 1 .. Len(m.entries) : e = m.entries[k]
    BY <1>1
  <2>1. PICK k \in 1 .. Len(m.entries) : e = m.entries[k]
    BY <2>0
  <2>2. CASE m \in net.append_req
    BY <2>1, <2>2 DEF Present
  <2>3. ASSUME NEW n \in Server, Stretch(m, store'[n].entries) PROVE Logged(e)
    <3>1. /\ m.prev_log_index \in Nat /\ m.entries \in Seq(Entry) /\ Len(m.entries) \in Nat
      <4>1. net' \in Net
        BY <1>0 DEF TypeInv, TypeOK
      <4>2. m \in AppendReq
        BY <4>1 DEF Net
      <4> QED  BY <4>2 DEF AppendReq
    <3>2. m.entries # <<>>
      BY <2>1, <3>1
    <3>3. /\ m.prev_log_index + Len(m.entries) <= Len(store'[n].entries)
          /\ \A j \in 1 .. Len(m.entries) : m.entries[j] = store'[n].entries[m.prev_log_index + j]
      BY <2>3, <3>2 DEF Stretch
    <3>4. Len(store'[n].entries) \in Nat
      BY <1>0, NodeFieldsAfter
    <3>5. m.prev_log_index + k \in 1 .. Len(store'[n].entries) /\ e = store'[n].entries[m.prev_log_index + k]
      BY SMTT(30), <2>1, <3>1, <3>3, <3>4
    <3> QED  BY <3>5
  <2>4. m \in net.append_req \/ \E n \in Server : Stretch(m, store'[n].entries)
    <3>1. ASSUME NEW n \in Server, NodeStep(n)
          PROVE  m \in net.append_req \/ Stretch(m, store'[n].entries)
      BY <1>0, <3>1, NewRequests
    <3>2. ASSUME NEW n \in Server, restore(n) \/ shutdown(n) \/ start(n) PROVE net' = net
      BY <3>2 DEF restore, shutdown, start
    <3> QED  BY <1>0, <3>1, <3>2, NodeSteps
  <2> QED  BY <2>2, <2>3, <2>4
<1>2. ASSUME NEW z \in Entry, z.data \notin proposed,
             \A e \in Entry : Logged(e) => Present(e) \/ e = z, proposed' = proposed \cup {z.data}
      PROVE  CommandsOnce'
  <2>1. ASSUME NEW e \in Entry, Logged(e) \/ Sent(e) PROVE Present(e) \/ e = z
    BY <1>1, <1>2, <2>1
  <2>2. ASSUME NEW e \in Entry, Present(e) PROVE e.data \in proposed
    BY <2>2 DEF CommandsOnce
  <2>3. ASSUME NEW e \in Entry, NEW f \in Entry, Present(e), Present(f), e.data = f.data PROVE e = f
    BY <2>3 DEF CommandsOnce
  <2>4. ASSUME NEW e \in Entry, NEW f \in Entry, Logged(e) \/ Sent(e)
        PROVE  e.data \in proposed' /\ ((Logged(f) \/ Sent(f)) /\ e.data = f.data => e = f)
    <3> HIDE DEF Logged, Sent
    <3> QED  BY <1>2, <2>1, <2>2, <2>3, <2>4
  <2> QED  BY <2>4, Zenon DEF CommandsOnce, Present
<1>3. ASSUME \A e \in Entry : Logged(e) => Present(e), proposed' = proposed
      PROVE  CommandsOnce'
  <2>1. ASSUME NEW e \in Entry, Logged(e) \/ Sent(e) PROVE Present(e)
    BY <1>1, <1>3, <2>1
  <2>2. ASSUME NEW e \in Entry, NEW f \in Entry, Logged(e) \/ Sent(e)
        PROVE  e.data \in proposed' /\ ((Logged(f) \/ Sent(f)) /\ e.data = f.data => e = f)
    <3> HIDE DEF Logged, Sent
    <3> QED  BY <1>3, <2>1, <2>2 DEF CommandsOnce
  <2> QED  BY <2>2, Zenon DEF CommandsOnce, Present
<1>4. ASSUME \A p \in Server : store'[p].entries = store[p].entries, proposed' = proposed
      PROVE  CommandsOnce'
  <2>1. \A e \in Entry : Logged(e) => Present(e)
    BY <1>4 DEF Present
  <2> QED  BY <1>3, <1>4, <2>1
<1>5. ASSUME NEW n \in Server, NEW cmd \in Command, on_proposal(n, cmd) PROVE CommandsOnce'
  <2> DEFINE z == new_entry(n, cmd)
  <2>1. /\ cmd \notin proposed /\ proposed' = proposed \cup {cmd}
        /\ store' = [store EXCEPT ![n] = append_entries(store[n], <<z>>)]
    BY <1>5 DEF on_proposal
  <2>2. z \in Entry /\ z.data = cmd /\ z.index = Len(store[n].entries) + 1 /\ z.index = last_index(store[n]) + 1
    BY <1>0, NodeFields, WholeStore DEF new_entry, Entry, AlignInv
  <2>3. /\ \A p \in Server \ {n} : store'[p] = store[p]
        /\ store'[n].entries = Append(store[n].entries, z)
    <3>1. store \in [Server -> Store]
      BY <1>0 DEF TypeInv, TypeOK
    <3>2. append_entries(store[n], <<z>>).entries = Append(store[n].entries, z)
      BY <1>0, <2>2, AppendAtEnd, NodeFields
    <3> QED  BY <2>1, <3>1, <3>2
  <2>4. ASSUME NEW e \in Entry, Logged(e) PROVE Present(e) \/ e = z
    <3>0. PICK p \in Server : \E k \in 1 .. Len(store'[p].entries) : e = store'[p].entries[k]
      BY <2>4
    <3>1. PICK k \in 1 .. Len(store'[p].entries) : e = store'[p].entries[k]
      BY <3>0
    <3>2. CASE p # n
      BY <2>3, <3>1, <3>2 DEF Present
    <3>3. CASE p = n
      <4>1. store[n].entries \in Seq(Entry)
        BY <1>0, NodeFields
      <4>2. (k \in 1 .. Len(store[n].entries) /\ e = store[n].entries[k]) \/ e = z
        BY SMTT(30), <2>2, <2>3, <3>1, <3>3, <4>1
      <4> QED  BY <4>2 DEF Present
    <3> QED  BY <3>2, <3>3
  <2> HIDE DEF z, Logged
  <2> QED  BY <1>2, <2>1, <2>2, <2>4
<1>6. ASSUME NEW n \in Server, NEW m \in net.append_req, on_append_entries(n, m) PROVE CommandsOnce'
  <2>1. Delivered(n, m)
    BY <1>0, <1>6, OnAppendDelivered
  <2>2. proposed' = proposed
    BY <1>6 DEF on_append_entries, clientVars
  <2>3. ASSUME NEW e \in Entry, Logged(e) PROVE Present(e)
    <3>0. PICK p \in Server : \E k \in 1 .. Len(store'[p].entries) : e = store'[p].entries[k]
      BY <2>3
    <3>1. PICK k \in 1 .. Len(store'[p].entries) : e = store'[p].entries[k]
      BY <3>0
    <3>2. CASE store'[p].entries = store[p].entries
      BY <3>1, <3>2 DEF Present
    <3>3. CASE p = n /\ Spliced(store[n].entries, m, store'[n].entries)
      <4>1. /\ m.prev_log_index \in Nat /\ Len(m.entries) \in Nat /\ m.prev_log_index <= Len(store[n].entries)
            /\ Len(store[n].entries) \in Nat
        BY <1>0, <3>3, RequestFields, NodeFields DEF Spliced
      <4>2. /\ Len(store'[n].entries) = m.prev_log_index + Len(m.entries)
            /\ \A j \in 1 .. m.prev_log_index : store'[n].entries[j] = store[n].entries[j]
            /\ \A j \in 1 .. Len(m.entries) : store'[n].entries[m.prev_log_index + j] = m.entries[j]
        BY <3>3 DEF Spliced
      <4>3. CASE k <= m.prev_log_index
        <5>1. k \in 1 .. Len(store[n].entries) /\ e = store[n].entries[k]
          BY <3>1, <3>3, <4>1, <4>2, <4>3
        <5> QED  BY <5>1 DEF Present
      <4>4. CASE k > m.prev_log_index
        <5>1. k - m.prev_log_index \in 1 .. Len(m.entries) /\ m.prev_log_index + (k - m.prev_log_index) = k
          BY <3>1, <3>3, <4>1, <4>2, <4>4
        <5>2. e = m.entries[k - m.prev_log_index]
          BY <3>1, <3>3, <4>2, <5>1
        <5> QED  BY <5>1, <5>2 DEF Present
      <4> QED  BY <3>1, <3>3, <4>1, <4>2, <4>3, <4>4
    <3>4. store'[p].entries = store[p].entries \/ (p = n /\ Spliced(store[n].entries, m, store'[n].entries))
      BY <2>1 DEF Delivered, Accepts, LogSame
    <3> QED  BY <3>2, <3>3, <3>4
  <2> HIDE DEF Logged
  <2> QED  BY <1>3, <2>2, <2>3
<1> QED  BY <1>4, <1>5, <1>6, LogWriters

\* No command is twice in a log, so a log is no longer than there are commands.
LEMMA LogsBounded ==
    ASSUME AlignInv, CommandsOnce, IsFiniteSet(Command), NEW n \in Server
    PROVE  Len(store[n].entries) <= Cardinality(Command)
<1> DEFINE es == store[n].entries
           I == 1 .. Len(es)
           f == [k \in I |-> es[k].data]
<1>1. es \in Seq(Entry) /\ Len(es) \in Nat /\ store[n] \in Store /\ Whole(store[n])
  BY NodeFields DEF AlignInv
<1>2. \A k \in I : es[k] \in Entry /\ es[k].index = k /\ es[k].data \in Command
  BY <1>1, WholeStore DEF Entry
<1>3. ASSUME NEW i \in I, NEW j \in I, es[i].data = es[j].data PROVE i = j
  <2>1. Present(es[i]) /\ Present(es[j])
    BY DEF Present
  <2>2. es[i] = es[j]
    BY <1>2, <1>3, <2>1 DEF CommandsOnce
  <2> QED  BY <1>2, <2>2
<1>4. f \in Injection(I, Command)
  <2>1. f \in [I -> Command]
    BY <1>2
  <2>2. ASSUME NEW i \in I, NEW j \in I, f[i] = f[j] PROVE i = j
    BY <1>3, <2>2
  <2> HIDE DEF f, I
  <2> QED  BY <2>1, <2>2 DEF Injection, IsInjective
<1>5. Cardinality(I) <= Cardinality(Command)
  <2> HIDE DEF f, I
  <2> QED  BY <1>4, FS_Injection
<1>6. Cardinality(I) = Len(es)
  <2> HIDE DEF es
  <2>1. Cardinality(I) = IF 1 > Len(es) THEN 0 ELSE Len(es) - 1 + 1
    BY SMTT(30), <1>1, FS_Interval
  <2> QED  BY <1>1, <2>1
<1> QED  BY <1>5, <1>6

\* A cluster whose requests have room for every command is never behind by more
\* than a request (replicate_to's max_size), so the results above need no more
\* than that of such a cluster.
THEOREM BacklogsFit ==
    ASSUME Orderly, IsFiniteSet(Command), Cardinality(Command) <= MaxBatch
    PROVE  HistorySpec => []Caught
<1>1. Spec => []AlignInv
  BY AlignInvariant DEF Orderly
<1>2. Init => CommandsOnce
  <2> SUFFICES ASSUME Init, NEW e, Present(e) PROVE FALSE
    BY DEF CommandsOnce
  <2>1. net.append_req = {} /\ \A n \in Server : store[n].entries = <<>>
    BY DEF Init, NoRpcs, EmptyStore
  <2> QED  BY <2>1 DEF Present
<1>3. AlignInv /\ AlignInv' /\ CommandsOnce /\ [Next]_vars => CommandsOnce'
  BY CommandsStep
<1>4. AlignInv /\ CommandsOnce => Caught
  <2> SUFFICES ASSUME AlignInv, CommandsOnce, NEW n \in Server, NEW p \in Server \ {n},
                      sm[n].role = "Leader"
               PROVE  Len(store[n].entries) < sm[n].progress[p].next_index + MaxBatch
    BY DEF Caught
  <2>1. Len(store[n].entries) <= Cardinality(Command)
    BY LogsBounded
  <2>2. sm[n] \in StateMachine /\ Len(store[n].entries) \in Nat /\ sm[n].progress[p].next_index >= 1
    BY NodeFields DEF AlignInv, TypeInv, ProgressOK, LeaderProgress
  <2>3. sm[n].progress[p].next_index \in Nat
    BY <2>2 DEF StateMachine, Progress
  <2>4. Cardinality(Command) \in Nat /\ MaxBatch \in Nat
    BY FS_CardinalityType, ConstantsAssumption
  <2> QED  BY SMTT(30), <2>1, <2>2, <2>3, <2>4
<1> QED  BY <1>1, <1>2, <1>3, <1>4, HistoryImplements, PTL DEF Spec

=============================================================================
