--------------------------- MODULE RefinementProofs ---------------------------
(***************************************************************************)
(* RaftNode implements LeaderElection, for every cluster: every step of    *)
(* the nodes, their RPCs and restarts is a step of the abstract election   *)
(* or changes nothing it sees.  As long as no application compacts, it     *)
(* implements LogStorage as well.  The search of RaftLoops finds what      *)
(* RaftNode says it looks for.                                             *)
(***************************************************************************)
EXTENDS RaftRefinement, LogProofs, RaftLoops

\* The refinement mapping, by name: the term each node made durable.
DurableTerms == [n \in Server |-> store[n].hard_state.term]

\* One node's durable term changes at most, and it does not decrease.
LEMMA TermMoves ==
    ASSUME TermsKept, NEW n \in Server,
           \A p \in Server \ {n} : store'[p].hard_state = store[p].hard_state
    PROVE  Election!Moves(n)
<1>1. store'[n].hard_state.term >= store[n].hard_state.term
  BY DEF TermsKept
<1>2. DurableTerms' = [DurableTerms EXCEPT ![n] = store'[n].hard_state.term]
  BY DEF DurableTerms
<1>3. DurableTerms'[n] >= DurableTerms[n] /\ DurableTerms'[n] = store'[n].hard_state.term
  BY <1>1 DEF DurableTerms
<1> QED  BY <1>2, <1>3 DEF Election!Moves, DurableTerms

\* The instance counts the way this module does.
LEMMA SameCount ==
    ASSUME NEW S
    PROVE  Election!Cardinality(S) = Cardinality(S)
BY DEF Cardinality, Election!Cardinality, IsFiniteSet, Election!IsFiniteSet

\* RaftConfig::quorum is a majority.
LEMMA QuorumIsMajority ==
    ASSUME NEW P \in SUBSET Server, NEW Q \in SUBSET Server, P \subseteq Q,
           Cardinality(P) >= quorum
    PROVE  Election!Majority(Q)
<1>1. IsFiniteSet(Server) /\ IsFiniteSet(P) /\ IsFiniteSet(Q)
  BY ConstantsAssumption, FS_Subset
<1>2. Cardinality(Server) \in Nat /\ Cardinality(P) \in Nat /\ Cardinality(Q) \in Nat
  BY <1>1, FS_CardinalityType
<1>3. Cardinality(P) <= Cardinality(Q)
  BY <1>1, FS_Subset
<1>4. 2 * Cardinality(Q) > Cardinality(Server)
  BY <1>2, <1>3 DEF quorum
<1> QED  BY <1>4, SameCount DEF Election!Majority

\* Granting a vote is casting one, in the voter's durable term.
LEMMA CastStep ==
    ASSUME TermsKept, OneVotePerTerm', NEW n \in Server, NEW c \in Server, OthersStay(n),
           votes' = votes \cup {<<n, store'[n].hard_state.term, c>>}
    PROVE  Election!Cast(n, c)
<1>1. Election!Moves(n)
  BY TermMoves DEF OthersStay
<1>2. DurableTerms'[n] = store'[n].hard_state.term
  BY DEF DurableTerms
<1>3. \A v \in votes : v[1] = n /\ v[2] = DurableTerms'[n] => v[3] = c
  <2> SUFFICES ASSUME NEW v \in votes, v[1] = n, v[2] = store'[n].hard_state.term
               PROVE  v[3] = c
    BY <1>2
  <2> DEFINE w == <<n, store'[n].hard_state.term, c>>
  <2>1. v \in votes' /\ w \in votes'
    OBVIOUS
  <2>2. w[1] = n /\ w[2] = store'[n].hard_state.term /\ w[3] = c
    OBVIOUS
  <2> HIDE DEF w
  <2> QED  BY <2>1, <2>2 DEF OneVotePerTerm
<1> QED  BY <1>1, <1>2, <1>3 DEF Election!Cast, DurableTerms

\* Winning an election is being elected by a majority, in the winner's durable
\* term.
LEMMA ElectStep ==
    ASSUME NEW n \in Server, LeadersElected',
           leaders' = leaders \cup {<<store'[n].hard_state.term, n>>}
    PROVE  Election!Elect(n)
<1> DEFINE Q == {p \in Server : <<p, store'[n].hard_state.term, n>> \in votes'}
<1>1. PICK P \in SUBSET Server :
        /\ Cardinality(P) >= quorum
        /\ \A p \in P : <<p, store'[n].hard_state.term, n>> \in votes'
  <2> DEFINE l == <<store'[n].hard_state.term, n>>
  <2>1. l \in leaders' /\ l[1] = store'[n].hard_state.term /\ l[2] = n
    OBVIOUS
  <2> HIDE DEF l
  <2> QED  BY <2>1 DEF LeadersElected, Elected
<1>2. Q \in SUBSET Server /\ P \subseteq Q
  BY <1>1
<1>3. Election!Majority(Q)
  BY <1>1, <1>2, QuorumIsMajority
<1>4. DurableTerms'[n] = store'[n].hard_state.term
  BY DEF DurableTerms
<1> QED  BY <1>3, <1>4 DEF Election!Elect, DurableTerms

\* A step that changes no durable term, vote or leader.
LEMMA ElectionStutter ==
    ASSUME \A p \in Server : store'[p].hard_state = store[p].hard_state,
           UNCHANGED <<votes, leaders>>
    PROVE  UNCHANGED Election!vars
<1>1. DurableTerms' = DurableTerms
  BY DEF DurableTerms
<1> QED  BY <1>1 DEF Election!vars, DurableTerms

\* Every step of the system is a step of the election or changes nothing in it.
LEMMA ElectionRefined ==
    ASSUME ElectionInv, ElectionInv', TermsKept, [Next]_vars
    PROVE  [Election!Next]_(Election!vars)
<1>1. TypeInv /\ TypeInv' /\ HardStateSync /\ OneVotePerTerm' /\ LeadersElected'
  BY DEF ElectionInv, VoteInv
<1>2. CASE UNCHANGED <<sm, store, phase, incarnation, net, votes, leaders>>
  BY <1>2, ElectionStutter
<1>3. ASSUME NEW n \in Server, Calm(n) PROVE Election!Next
  <2>1. Election!Moves(n) /\ UNCHANGED <<votes, leaders>>
    BY <1>3, TermMoves DEF Calm, OthersStay
  <2> QED  BY <2>1 DEF Election!Next, Election!Advance
<1>4. ASSUME NEW n \in Server, Standing(n) PROVE Election!Next
  <2>1. store'[n].hard_state.term = sm[n].current_term + 1
    BY <1>4 DEF Standing, hard_state_of
  <2>2. Election!Cast(n, n)
    BY <1>1, <1>4, <2>1, CastStep DEF Standing
  <2>3. CASE leaders' = leaders
    BY <2>2, <2>3 DEF Election!Next
  <2>4. CASE leaders' = leaders \cup {<<store'[n].hard_state.term, n>>}
    <3>1. Election!Elect(n)
      BY <1>1, <2>4, ElectStep
    <3> QED  BY <2>2, <3>1 DEF Election!Next
  <2> QED  BY <1>4, <2>1, <2>3, <2>4 DEF Standing
<1>5. ASSUME NEW n \in Server, NEW m \in net.vote_req, Granting(n, m) PROVE Election!Next
  <2>1. m.candidate_id \in Server
    BY <1>1 DEF TypeInv, TypeOK, Net, VoteReq
  <2>2. store'[n].hard_state.term = m.term
    BY <1>5 DEF Granting, hard_state_of
  <2>3. Election!Cast(n, m.candidate_id)
    BY <1>1, <1>5, <2>1, <2>2, CastStep DEF Granting
  <2> QED  BY <1>5, <2>1, <2>3 DEF Election!Next, Granting
<1>6. ASSUME NEW n \in Server, NEW m \in net.vote_resp, Counting(n, m)
      PROVE  Election!Next \/ UNCHANGED Election!vars
  <2>1. Synced(n)
    BY <1>1, <1>6 DEF Counting, HardStateSync, Synced
  <2>2. \A p \in Server : store'[p].hard_state = store[p].hard_state
    BY <1>6 DEF Counting, OthersStay
  <2>3. store'[n].hard_state.term = sm[n].current_term
    BY <1>1, <2>1, <2>2, SyncedFields
  <2>4. CASE leaders' = leaders
    BY <1>6, <2>2, <2>4, ElectionStutter DEF Counting
  <2>5. CASE leaders' = leaders \cup {<<store'[n].hard_state.term, n>>}
    <3>1. Election!Elect(n)
      BY <1>1, <2>5, ElectStep
    <3>2. DurableTerms' = DurableTerms /\ votes' = votes
      BY <1>6, <2>2 DEF DurableTerms, Counting
    <3> QED  BY <3>1, <3>2 DEF Election!Next, DurableTerms
  <2> QED  BY <1>6, <2>3, <2>4, <2>5 DEF Counting
<1>7. ASSUME NEW n \in Server, restore(n) \/ shutdown(n) \/ start(n)
      PROVE  UNCHANGED Election!vars
  BY <1>7, ElectionStutter DEF restore, shutdown, start, history
<1> QED  BY <1>1, <1>2, <1>3, <1>4, <1>5, <1>6, <1>7, ElectionSteps

\* RaftNode implements the abstract election: every vote is cast in the voter's
\* durable term and once per term, and every leader holds a majority of its term,
\* for any number of nodes, elections, restarts and lost or reordered RPCs, in the
\* environment of ElectionsSafe.
THEOREM ElectionImplemented ==
    ASSUME ~ServeBeforeRestore, ~LateResponses, ZeroId \notin Server
    PROVE  Spec => ImplementsElection
<1>1. Init => Election!Init
  <2> SUFFICES ASSUME Init PROVE Election!Init
    OBVIOUS
  <2>1. \A n \in Server : store[n].hard_state.term = 0
    BY DEF Init, EmptyStore
  <2>2. DurableTerms = [n \in Server |-> 0]
    BY <2>1 DEF DurableTerms
  <2> QED  BY <2>2 DEF Init, Election!Init, DurableTerms
<1>2. ElectionInv /\ ElectionInv' /\ [Next]_vars => [Election!Next]_(Election!vars)
  <2>1. ElectionInv /\ ElectionInv' /\ [Next]_vars => TermsKept
    BY TermsStep DEF ElectionInv, VoteInv
  <2> QED  BY <2>1, ElectionRefined
<1>3. Spec => []ElectionInv
  BY ElectionInvariant
<1> QED  BY <1>1, <1>2, <1>3, PTL DEF Spec, ImplementsElection, Election!Spec
-----------------------------------------------------------------------------
(* The abstract log.                                                       *)

\* The entries of a vector, and the refinement mapping by name.
EntrySet(es) == {es[k] : k \in 1 .. Len(es)}
Bases == [n \in Server |-> store[n].snapshot.last_included_index]
HeldEntries == [n \in Server |-> {store[n].entries[k] : k \in DOMAIN store[n].entries}]

\* A log without gaps: every entry carries its position.
Positioned(es) ==
    /\ es \in Seq(Entry) /\ Len(es) \in Nat
    /\ \A k \in 1 .. Len(es) : es[k] \in Entry /\ es[k].index = k

\* Such a log, as a set, follows on index 0.
LEMMA PositionedFollows ==
    ASSUME NEW es, Positioned(es)
    PROVE  Log!FollowsOn(0, EntrySet(es))
<1> DEFINE S == EntrySet(es)
<1>1. \A e \in S : \E k \in 1 .. Len(es) : e = es[k] /\ e.index = k
  BY DEF EntrySet, Positioned
<1>2. \A k \in 1 .. Len(es) : es[k] \in S /\ es[k].index = k
  BY DEF EntrySet, Positioned
<1>3. Len(es) \in Nat
  BY DEF Positioned
<1> HIDE DEF S
<1>4. \A e, f \in S : e.index = f.index => e = f
  BY <1>1
<1>5. ASSUME NEW e \in S PROVE e.index > 0 /\ \A i \in 0 + 1 .. e.index : i \in Log!Indices(S)
  <2>1. PICK k \in 1 .. Len(es) : e = es[k] /\ e.index = k
    BY <1>1
  <2>2. ASSUME NEW i \in 0 + 1 .. e.index PROVE i \in Log!Indices(S)
    <3>1. i \in 1 .. Len(es)
      BY <1>3, <2>1
    <3> QED  BY <1>2, <3>1 DEF Log!Indices
  <2> QED  BY <1>3, <2>1, <2>2
<1>6. Log!FollowsOn(0, S)
  BY <1>4, <1>5 DEF Log!FollowsOn
<1> QED  BY <1>6 DEF S

\* Two logs that agree before index i hold the same entries before it.
LEMMA SameBefore ==
    ASSUME NEW a, NEW b, Positioned(a), Positioned(b), NEW i \in Nat,
           i <= Len(a) + 1, i <= Len(b) + 1, \A k \in 1 .. i - 1 : a[k] = b[k]
    PROVE  Log!Before(EntrySet(a), i) = Log!Before(EntrySet(b), i)
<1>1. ASSUME NEW x, NEW y, Positioned(x), Positioned(y), i <= Len(y) + 1,
             \A k \in 1 .. i - 1 : x[k] = y[k],
             NEW e \in EntrySet(x), e.index < i
      PROVE  e \in EntrySet(y)
  <2>0. PICK k \in 1 .. Len(x) : e = x[k]
    BY <1>1 DEF EntrySet
  <2>1. k \in 1 .. Len(x) /\ e = x[k] /\ e.index = k
    BY <1>1, <2>0 DEF Positioned
  <2>2. k \in 1 .. i - 1 /\ k \in 1 .. Len(y)
    BY <1>1, <2>1 DEF Positioned
  <2>3. e = y[k]
    BY <1>1, <2>1, <2>2
  <2> QED  BY <2>2, <2>3 DEF EntrySet
<1>2. \A k \in 1 .. i - 1 : b[k] = a[k]
  OBVIOUS
<1> QED  BY <1>1, <1>2 DEF Log!Before

\* A vector that becomes another, not empty one gains an entry, with everything in
\* front of it unchanged, or loses a suffix.  The entry is the first in which the
\* two differ.
LEMMA VectorChanges ==
    ASSUME NEW a, NEW b, Positioned(a), Positioned(b), Len(b) > 0
    PROVE  \/ \E e \in EntrySet(b) \ EntrySet(a) :
                 Log!Before(EntrySet(b), e.index) = Log!Before(EntrySet(a), e.index)
           \/ \E e \in EntrySet(a) : EntrySet(b) = Log!Before(EntrySet(a), e.index + 1)
<1> DEFINE New == {k \in 1 .. Len(b) : k > Len(a) \/ a[k] # b[k]}
<1>1. /\ Len(a) \in Nat /\ Len(b) \in Nat
      /\ \A k \in 1 .. Len(a) : a[k].index = k
      /\ \A k \in 1 .. Len(b) : b[k].index = k
  BY DEF Positioned
<1>2. CASE New # {}
  <2>1. New \subseteq Nat
    BY <1>1
  <2>2. PICK i \in New : \A k \in New : i <= k
    BY <1>2, <2>1, LeastNumber
  <2>3. i \in 1 .. Len(b) /\ (i > Len(a) \/ a[i] # b[i]) /\ i \in Nat
    BY <1>1
  <2>4. ASSUME NEW k \in 1 .. i - 1 PROVE k <= Len(a) /\ a[k] = b[k]
    BY <1>1, <2>2, <2>3
  <2>5. i <= Len(a) + 1
    <3>1. CASE i = 1
      BY <1>1, <3>1
    <3>2. CASE i # 1
      <4>1. i - 1 \in 1 .. i - 1
        BY <1>1, <2>3, <3>2
      <4> QED  BY <1>1, <2>3, <2>4, <4>1
    <3> QED  BY <3>1, <3>2
  <2>6. Log!Before(EntrySet(b), i) = Log!Before(EntrySet(a), i)
    BY <1>1, <2>3, <2>4, <2>5, SameBefore
  <2>7. b[i] \in EntrySet(b) /\ b[i].index = i
    BY <1>1, <2>3 DEF EntrySet
  <2>8. b[i] \notin EntrySet(a)
    <3> SUFFICES ASSUME NEW k \in 1 .. Len(a), b[i] = a[k] PROVE FALSE
      BY DEF EntrySet
    <3>1. k = i
      BY <1>1, <2>7
    <3> QED  BY <1>1, <2>3, <3>1
  <2> QED  BY <2>6, <2>7, <2>8
<1>3. CASE New = {}
  <2> DEFINE l == Len(b)
  <2>1. \A k \in 1 .. l : k <= Len(a) /\ a[k] = b[k]
    BY <1>1, <1>3
  <2>2. l \in 1 .. l /\ l <= Len(a) /\ a[l].index = l /\ a[l] \in EntrySet(a)
    BY <1>1, <2>1 DEF EntrySet
  <2>3. Log!Before(EntrySet(b), l + 1) = Log!Before(EntrySet(a), l + 1)
    <3> DEFINE i == l + 1
    <3>1. i \in Nat /\ i - 1 = l /\ i <= Len(a) + 1 /\ i <= Len(b) + 1
      BY <1>1, <2>2
    <3>2. \A k \in 1 .. i - 1 : b[k] = a[k]
      BY <2>1, <3>1
    <3> HIDE DEF i
    <3>3. Log!Before(EntrySet(b), i) = Log!Before(EntrySet(a), i)
      BY <3>1, <3>2, SameBefore
    <3> QED  BY <3>3 DEF i
  <2>4. Log!Before(EntrySet(b), l + 1) = EntrySet(b)
    BY <1>1 DEF Log!Before, EntrySet
  <2> QED  BY <2>2, <2>3, <2>4
<1> QED  BY <1>2, <1>3

\* Every step of the system is a step of the abstract log or keeps it.
LEMMA StorageRefined ==
    ASSUME AlignInv, AlignInv', ~AppSnapshots, [Next]_vars
    PROVE  [Log!Next]_(Log!vars)
<1>1. TypeInv /\ TypeInv'
  BY DEF AlignInv
<1>2. \A p \in Server : Positioned(store[p].entries) /\ Positioned(store'[p].entries)
  <2>1. \A p \in Server : /\ store[p] \in Store /\ Whole(store[p])
                          /\ store'[p] \in Store /\ Whole(store'[p])
    BY <1>1 DEF AlignInv, TypeInv, TypeOK
  <2> QED  BY <2>1, WholeStore DEF Positioned
<1>3. /\ HeldEntries = [p \in Server |-> EntrySet(store[p].entries)]
      /\ HeldEntries' = [p \in Server |-> EntrySet(store'[p].entries)]
  <2>1. \A p \in Server : /\ DOMAIN store[p].entries = 1 .. Len(store[p].entries)
                          /\ DOMAIN store'[p].entries = 1 .. Len(store'[p].entries)
    BY <1>2 DEF Positioned
  <2> QED  BY <2>1 DEF HeldEntries, EntrySet
<1>4. Bases = [p \in Server |-> 0] /\ Bases' = [p \in Server |-> 0]
  BY DEF Bases, AlignInv, Whole, NoSnapshot
<1>5. ASSUME \A p \in Server : store'[p].entries = store[p].entries
      PROVE  UNCHANGED Log!vars
  <2>1. HeldEntries' = HeldEntries
    BY <1>3, <1>5
  <2> QED  BY <1>4, <2>1 DEF Log!vars, Bases, HeldEntries
<1>6. ASSUME NEW n \in Server, NodeStep(n) PROVE [Log!Next]_(Log!vars)
  <2>1. \A p \in Server \ {n} : store'[p].entries = store[p].entries
    BY <1>6 DEF NodeStep, LogStep, LogSame
  <2> DEFINE a == store[n].entries
             b == store'[n].entries
  <2>2. CASE a = b
    BY <1>5, <2>1, <2>2
  <2>3. CASE a # b
    <3>1. Len(b) > 0
      <4>1. Len(a) \in Nat /\ a \in Seq(Entry)
        BY <1>2 DEF Positioned
      <4>2. LogGrows(n) /\ ~LogSame(n)
        BY <1>6, <2>3, WholeLogStep DEF LogSame
      <4>3. ASSUME NEW e \in Entry, b = Append(a, e) PROVE Len(b) > 0
        BY <4>1, <4>3
      <4>4. ASSUME NEW m \in net.append_req, m.entries # <<>>, Spliced(a, m, b)
            PROVE  Len(b) > 0
        BY <1>1, <4>4, RequestFields DEF Spliced
      <4> QED  BY <4>2, <4>3, <4>4 DEF LogGrows, Overwrites
    <3>2. Positioned(a) /\ Positioned(b)
      BY <1>2
    <3>3. /\ HeldEntries[n] = EntrySet(a) /\ HeldEntries'[n] = EntrySet(b)
          /\ HeldEntries' = [HeldEntries EXCEPT ![n] = EntrySet(b)]
      BY <1>3, <2>1
    <3> HIDE DEF a, b
    <3>4. CASE \E e \in EntrySet(b) \ EntrySet(a) :
                 Log!Before(EntrySet(b), e.index) = Log!Before(EntrySet(a), e.index)
      <4>1. Log!FollowsOn(Bases[n], HeldEntries'[n])
        BY <1>4, <3>2, <3>3, PositionedFollows
      <4>2. Log!Append(n)
        BY <1>4, <3>3, <3>4, <4>1 DEF Log!Append, Bases, HeldEntries
      <4> QED  BY <4>2 DEF Log!Next
    <3>5. CASE \E e \in EntrySet(a) : EntrySet(b) = Log!Before(EntrySet(a), e.index + 1)
      <4>1. PICK e \in HeldEntries[n] :
              HeldEntries' = [HeldEntries EXCEPT ![n] = Log!Before(HeldEntries[n], e.index + 1)]
        BY <3>3, <3>5
      <4>2. HeldEntries' = [HeldEntries EXCEPT ![n] = Log!Before(@, e.index + 1)]
        BY <4>1
      <4>3. Bases' = Bases
        BY <1>4
      <4>4. Log!Truncate(n)
        BY <4>2, <4>3 DEF Log!Truncate, Bases, HeldEntries
      <4> QED  BY <4>4 DEF Log!Next
    <3> QED  BY <3>1, <3>2, <3>4, <3>5, VectorChanges
  <2> QED  BY <2>2, <2>3
<1> QED  BY <1>1, <1>5, <1>6, NodeSteps DEF restore, shutdown, start

\* The vectors implement the abstract log as long as the application does not
\* compact: whatever RPCs are lost, repeated, late or served before the restore,
\* append_entries replaces a suffix and never leaves a gap.
THEOREM StorageImplemented ==
    ASSUME ~AppSnapshots
    PROVE  Spec => ImplementsStorage
<1>1. Init => Log!Init
  <2> SUFFICES ASSUME Init PROVE Log!Init
    OBVIOUS
  <2>1. \A n \in Server : store[n] = EmptyStore
    BY DEF Init
  <2>2. Bases = [n \in Server |-> 0]
    BY <2>1 DEF Bases, EmptyStore, NoSnapshot
  <2>3. HeldEntries = [n \in Server |-> {}]
    <3>1. DOMAIN EmptyStore.entries = {}
      BY DEF EmptyStore
    <3> QED  BY <2>1, <3>1 DEF HeldEntries
  <2> QED  BY <2>2, <2>3 DEF Log!Init, Bases, HeldEntries
<1>2. AlignInv /\ AlignInv' /\ [Next]_vars => [Log!Next]_(Log!vars)
  BY StorageRefined
<1>3. Spec => []AlignInv
  BY AlignInvariant
<1> QED  BY <1>1, <1>2, <1>3, PTL DEF Spec, ImplementsStorage, Log!Spec

-----------------------------------------------------------------------------
(* The binary search.  A recursive function is what its equation says once *)
(* the equation has a solution (SearchSolution), and then the least        *)
(* distance at which it is wrong cannot be (SearchEnds).                   *)

\* Where a search of lo .. hi for the end of B ends.
IsEnd(B, lo, hi, j) ==
    IF lo >= hi THEN j = lo
    ELSE /\ j \in lo .. hi
         /\ \A k \in lo .. hi : k < j => k \in B
         /\ j < hi => j \notin B

\* An interval of indices has an end of its stretch in B.
LEMMA EndExists ==
    ASSUME NEW B, NEW lo \in Nat, NEW hi \in Nat
    PROVE  \E j : IsEnd(B, lo, hi, j)
<1>1. CASE lo >= hi
  BY <1>1 DEF IsEnd
<1>2. CASE ~(lo >= hi)
  <2> DEFINE T == {k \in lo .. hi : k = hi \/ k \notin B}
  <2>1. T \subseteq Nat /\ hi \in T
    BY <1>2
  <2>2. PICK j \in T : \A k \in T : j <= k
    <3> HIDE DEF T
    <3> QED  BY <2>1, LeastNumber
  <2>3. j \in lo .. hi /\ (j < hi => j \notin B)
    OBVIOUS
  <2>4. ASSUME NEW k \in lo .. hi, k < j PROVE k \in B
    <3>1. k \notin T
      <4> HIDE DEF T
      <4> QED  BY <2>2, <2>3, <2>4
    <3> QED  BY <3>1, <2>3, <2>4
  <2> QED  BY <1>2, <2>3, <2>4 DEF IsEnd
<1> QED  BY <1>1, <1>2

\* One turn of the binary search: either half keeps the end, B being closed downwards.
LEMMA EndStep ==
    ASSUME NEW B, NEW u \in Nat, \A i, j \in 0 .. u : i <= j /\ j \in B => i \in B,
           NEW lo \in Nat, NEW hi \in 0 .. u, lo < hi, NEW mid \in lo .. hi - 1, NEW j
    PROVE  IsEnd(B, lo, hi, j) <=> IF mid \in B THEN IsEnd(B, mid + 1, hi, j)
                                   ELSE IsEnd(B, lo, mid, j)
<1>0. /\ mid \in 0 .. u /\ lo \in 0 .. u /\ hi \in Nat /\ mid \in Nat
      /\ lo <= mid /\ mid < hi /\ ~(lo >= hi)
  OBVIOUS
<1>1. CASE mid \in B
  <2>1. ASSUME NEW k \in lo .. mid PROVE k \in B
    BY <1>0, <1>1
  <2>2. ASSUME IsEnd(B, lo, hi, j) PROVE IsEnd(B, mid + 1, hi, j)
    <3>1. /\ j \in lo .. hi /\ \A k \in lo .. hi : k < j => k \in B
          /\ j < hi => j \notin B
      BY <1>0, <2>2 DEF IsEnd
    <3>2. j \in mid + 1 .. hi
      BY <1>0, <2>1, <3>1
    <3> QED  BY <1>0, <3>1, <3>2 DEF IsEnd
  <2>3. ASSUME IsEnd(B, mid + 1, hi, j) PROVE IsEnd(B, lo, hi, j)
    <3>1. CASE mid + 1 >= hi
      <4>1. j = hi /\ mid + 1 = hi
        BY <1>0, <2>3, <3>1 DEF IsEnd
      <4> QED  BY <1>0, <2>1, <4>1 DEF IsEnd
    <3>2. CASE ~(mid + 1 >= hi)
      <4>1. /\ j \in mid + 1 .. hi /\ \A k \in mid + 1 .. hi : k < j => k \in B
            /\ j < hi => j \notin B
        BY <2>3, <3>2 DEF IsEnd
      <4>2. \A k \in lo .. hi : k < j => k \in B
        BY <1>0, <2>1, <4>1
      <4> QED  BY <1>0, <4>1, <4>2 DEF IsEnd
    <3> QED  BY <3>1, <3>2
  <2> QED  BY <1>1, <2>2, <2>3
<1>2. CASE mid \notin B
  <2>1. ASSUME IsEnd(B, lo, hi, j) PROVE IsEnd(B, lo, mid, j)
    <3>1. /\ j \in lo .. hi /\ \A k \in lo .. hi : k < j => k \in B
          /\ j < hi => j \notin B
      BY <1>0, <2>1 DEF IsEnd
    <3>2. j \in lo .. mid
      BY <1>0, <1>2, <3>1
    <3> QED  BY <1>0, <3>1, <3>2 DEF IsEnd
  <2>2. ASSUME IsEnd(B, lo, mid, j) PROVE IsEnd(B, lo, hi, j)
    <3>1. CASE lo >= mid
      <4>1. j = lo /\ lo = mid
        BY <1>0, <2>2, <3>1 DEF IsEnd
      <4> QED  BY <1>0, <1>2, <4>1 DEF IsEnd
    <3>2. CASE ~(lo >= mid)
      <4>1. /\ j \in lo .. mid /\ \A k \in lo .. mid : k < j => k \in B
            /\ j < mid => j \notin B
        BY <2>2, <3>2 DEF IsEnd
      <4> QED  BY <1>0, <1>2, <4>1 DEF IsEnd
    <3> QED  BY <3>1, <3>2
  <2> QED  BY <1>2, <2>1, <2>2
<1> QED  BY <1>1, <1>2

\* The middle of a range.
LEMMA Middle ==
    ASSUME NEW lo \in Nat, NEW hi \in Nat, lo < hi
    PROVE  lo + (hi - lo) \div 2 \in lo .. hi - 1
OBVIOUS

Halves(B, u, g) ==
    [r \in (0 .. u + 1) \X (0 .. u) |->
        IF r[1] >= r[2] THEN r[1]
        ELSE IF r[1] + (r[2] - r[1]) \div 2 \in B
        THEN g[<<r[1] + (r[2] - r[1]) \div 2 + 1, r[2]>>]
        ELSE g[<<r[1], r[1] + (r[2] - r[1]) \div 2>>]]

\* A search that halves its range, of a set without gaps.
LEMMA SearchSolution ==
    ASSUME NEW B, NEW u \in Nat, \A i, j \in 0 .. u : i <= j /\ j \in B => i \in B
    PROVE  \E g : g = Halves(B, u, g)
<1> DEFINE D == (0 .. u + 1) \X (0 .. u)
           g == [r \in D |-> CHOOSE j : IsEnd(B, r[1], r[2], j)]
<1>1. ASSUME NEW r \in D PROVE g[r] = Halves(B, u, g)[r]
  <2> DEFINE lo == r[1]
             hi == r[2]
             mid == lo + (hi - lo) \div 2
  <2>0. lo \in 0 .. u + 1 /\ hi \in 0 .. u /\ lo \in Nat /\ hi \in Nat
    OBVIOUS
  <2>1. Halves(B, u, g)[r] = IF lo >= hi THEN lo ELSE IF mid \in B THEN g[<<mid + 1, hi>>]
                             ELSE g[<<lo, mid>>]
    <3> HIDE DEF g
    <3> QED  BY DEF Halves
  <2>2. g[r] = CHOOSE j : IsEnd(B, lo, hi, j)
    OBVIOUS
  <2>3. CASE lo >= hi
    <3>1. IsEnd(B, lo, hi, g[r])
      <4> HIDE DEF g, lo, hi
      <4> QED  BY <2>0, <2>2, EndExists
    <3> HIDE DEF g, lo, hi
    <3> QED  BY <2>1, <2>3, <3>1 DEF IsEnd
  <2>4. CASE ~(lo >= hi)
    <3>1. mid \in lo .. hi - 1
      <4> HIDE DEF lo, hi
      <4> QED  BY <2>0, <2>4, Middle
    <3>2. ASSUME NEW a \in 0 .. u + 1, NEW b \in 0 .. u PROVE g[<<a, b>>] = CHOOSE j : IsEnd(B, a, b, j)
      OBVIOUS
    <3> HIDE DEF lo, hi, mid, g
    <3>3. CASE mid \in B
      <4>1. mid + 1 \in 0 .. u + 1
        BY <2>0, <2>4, <3>1
      <4>2. \A j : IsEnd(B, lo, hi, j) <=> IsEnd(B, mid + 1, hi, j)
        BY <2>0, <2>4, <3>1, <3>3, EndStep
      <4>3. (CHOOSE j : IsEnd(B, lo, hi, j)) = (CHOOSE j : IsEnd(B, mid + 1, hi, j))
        BY <4>2
      <4>4. g[<<mid + 1, hi>>] = CHOOSE j : IsEnd(B, mid + 1, hi, j)
        BY <2>0, <3>2, <4>1
      <4> QED  BY <2>1, <2>2, <2>4, <3>3, <4>3, <4>4
    <3>4. CASE mid \notin B
      <4>1. mid \in 0 .. u
        BY <2>0, <2>4, <3>1
      <4>2. \A j : IsEnd(B, lo, hi, j) <=> IsEnd(B, lo, mid, j)
        BY <2>0, <2>4, <3>1, <3>4, EndStep
      <4>3. (CHOOSE j : IsEnd(B, lo, hi, j)) = (CHOOSE j : IsEnd(B, lo, mid, j))
        BY <4>2
      <4>4. g[<<lo, mid>>] = CHOOSE j : IsEnd(B, lo, mid, j)
        BY <2>0, <3>2, <4>1
      <4> QED  BY <2>1, <2>2, <2>4, <3>4, <4>3, <4>4
    <3> QED  BY <3>3, <3>4
  <2> QED  BY <2>3, <2>4
<1>2. g = [r \in D |-> g[r]]
  OBVIOUS
<1>3. Halves(B, u, g) = [r \in D |-> Halves(B, u, g)[r]]
  <2> HIDE DEF g
  <2> QED  BY DEF Halves
<1> HIDE DEF g, D
<1>4. g = Halves(B, u, g)
  BY <1>1, <1>2, <1>3
<1> QED  BY <1>4

\* The search over any interval returns the end of B in it.
LEMMA SearchEnds ==
    ASSUME NEW B, NEW u \in Nat, \A i, j \in 0 .. u : i <= j /\ j \in B => i \in B,
           NEW g, g = Halves(B, u, g), NEW lo \in 0 .. u + 1, NEW hi \in 0 .. u
    PROVE  IsEnd(B, lo, hi, g[<<lo, hi>>])
<1> DEFINE Bad == {d \in Nat : \E a \in 0 .. u + 1, b \in 0 .. u :
                      d + a = b /\ ~IsEnd(B, a, b, g[<<a, b>>])}
<1>1. ASSUME NEW a \in 0 .. u + 1, NEW b \in 0 .. u
      PROVE  g[<<a, b>>] = IF a >= b THEN a
                           ELSE IF a + (b - a) \div 2 \in B THEN g[<<a + (b - a) \div 2 + 1, b>>]
                           ELSE g[<<a, a + (b - a) \div 2>>]
  <2>1. <<a, b>> \in (0 .. u + 1) \X (0 .. u) /\ <<a, b>>[1] = a /\ <<a, b>>[2] = b
    OBVIOUS
  <2>2. Halves(B, u, g)[<<a, b>>] = IF a >= b THEN a
                           ELSE IF a + (b - a) \div 2 \in B THEN g[<<a + (b - a) \div 2 + 1, b>>]
                           ELSE g[<<a, a + (b - a) \div 2>>]
    BY Zenon, <2>1 DEF Halves
  <2> QED  BY <2>2
<1>2. ASSUME NEW a \in 0 .. u + 1, NEW b \in 0 .. u, a >= b PROVE IsEnd(B, a, b, g[<<a, b>>])
  BY <1>1, <1>2 DEF IsEnd
<1>3. Bad = {}
  <2> SUFFICES ASSUME Bad # {} PROVE FALSE
    OBVIOUS
  <2>1. Bad \subseteq Nat
    OBVIOUS
  <2>2. PICK d \in Bad : \A e \in Bad : d <= e
    <3> HIDE DEF Bad
    <3> QED  BY <2>1, LeastNumber
  <2>3. PICK a \in 0 .. u + 1, b \in 0 .. u : d + a = b /\ ~IsEnd(B, a, b, g[<<a, b>>])
    OBVIOUS
  <2>4. ASSUME NEW x \in 0 .. u + 1, NEW y \in 0 .. u, y - x < b - a
        PROVE  IsEnd(B, x, y, g[<<x, y>>])
    <3>1. CASE x >= y
      BY <1>2, <3>1
    <3>2. CASE ~(x >= y)
      <4>1. y - x \in Nat /\ (y - x) + x = y /\ d = b - a /\ d \in Nat
        BY <2>3, <3>2
      <4>2. IsEnd(B, x, y, g[<<x, y>>]) \/ y - x \in Bad
        BY <4>1
      <4> HIDE DEF Bad
      <4> QED  BY <2>2, <2>4, <4>1, <4>2
    <3> QED  BY <3>1, <3>2
  <2> HIDE DEF Bad
  <2>5. ~(a >= b) /\ a \in Nat /\ b \in Nat
    BY <1>2, <2>3
  <2> DEFINE mid == a + (b - a) \div 2
  <2>6. mid \in a .. b - 1
    BY <2>5, Middle
  <2>7. g[<<a, b>>] = IF mid \in B THEN g[<<mid + 1, b>>] ELSE g[<<a, mid>>]
    BY <1>1, <2>5
  <2> HIDE DEF mid
  <2>8. mid + 1 \in 0 .. u + 1 /\ b - (mid + 1) < b - a /\ mid \in 0 .. u /\ mid - a < b - a
    BY <2>5, <2>6
  <2>9. IsEnd(B, mid + 1, b, g[<<mid + 1, b>>]) /\ IsEnd(B, a, mid, g[<<a, mid>>])
    BY <2>4, <2>8
  <2>10. a < b
    BY <2>5
  <2>11. \A j : IsEnd(B, a, b, j) <=> IF mid \in B THEN IsEnd(B, mid + 1, b, j)
                                      ELSE IsEnd(B, a, mid, j)
    BY <2>5, <2>6, <2>10, EndStep
  <2>12. IsEnd(B, a, b, g[<<a, b>>])
    BY <2>7, <2>9, <2>11
  <2> QED  BY <2>3, <2>12
<1>4. CASE lo >= hi
  BY <1>2, <1>4
<1>5. CASE ~(lo >= hi)
  <2>1. hi - lo \in Nat /\ (hi - lo) + lo = hi
    BY <1>5
  <2>2. hi - lo \notin Bad
    BY <1>3
  <2> QED  BY <2>1, <2>2
<1> QED  BY <1>4, <1>5

-----------------------------------------------------------------------------
(* Logs in the order of their terms.                                       *)

\* The terms of es never decrease, and lie between lo and hi.
Rising(es, lo, hi) ==
    /\ \A k \in 1 .. Len(es) : lo <= es[k].term /\ es[k].term <= hi
    /\ \A i, j \in 1 .. Len(es) : i <= j => es[i].term <= es[j].term

RisingInv ==
    /\ \A n \in Server : Rising(store[n].entries, 0, store[n].hard_state.term)
    /\ \A m \in net.append_req : Rising(m.entries, m.prev_log_term, m.term)

\* Terms are numbers.
LEMMA EntryTerm ==
    ASSUME NEW es \in Seq(Entry), NEW k \in 1 .. Len(es)
    PROVE  es[k].term \in Nat
<1>1. es[k] \in Entry
  OBVIOUS
<1> QED  BY <1>1 DEF Entry

\* propose appends at the highest term, so terms still rise.
LEMMA RisingAppend ==
    ASSUME NEW es \in Seq(Entry), NEW h \in Nat, Rising(es, 0, h), NEW e \in Entry,
           e.term = h
    PROVE  Rising(Append(es, e), 0, h)
<1>1. Len(es) \in Nat /\ Len(Append(es, e)) = Len(es) + 1
  OBVIOUS
<1>2. ASSUME NEW k \in 1 .. Len(es) PROVE Append(es, e)[k] = es[k] /\ es[k].term \in Nat
  BY EntryTerm
<1>3. Append(es, e)[Len(es) + 1] = e
  OBVIOUS
<1> DEFINE r == Append(es, e)
<1> HIDE DEF r
<1>4. ASSUME NEW k \in 1 .. Len(r) PROVE k \in 1 .. Len(es) \/ k = Len(es) + 1
  BY <1>1 DEF r
<1>5. ASSUME NEW k \in 1 .. Len(r) PROVE 0 <= r[k].term /\ r[k].term <= h
  BY <1>2, <1>3, <1>4 DEF Rising, r
<1>6. ASSUME NEW i \in 1 .. Len(r), NEW j \in 1 .. Len(r), i <= j PROVE r[i].term <= r[j].term
  <2>1. CASE j \in 1 .. Len(es)
    <3>1. i \in 1 .. Len(es)
      BY <1>1, <1>6, <2>1
    <3> QED  BY <1>2, <1>6, <2>1, <3>1 DEF Rising, r
  <2>2. CASE j = Len(es) + 1
    <3>1. r[j].term = h
      BY <1>3, <2>2 DEF r
    <3> QED  BY <1>5, <3>1
  <2> QED  BY <1>4, <2>1, <2>2
<1> QED  BY <1>5, <1>6 DEF Rising, r

\* A request whose own terms rise leaves a log whose terms rise: append_entries
\* cuts the log at prev_log_index, whose term the receiver has checked.
LEMMA RisingSplice ==
    ASSUME NEW es \in Seq(Entry), NEW h \in Nat, Rising(es, 0, h),
           NEW m, m.prev_log_index \in Nat, m.entries \in Seq(Entry), m.prev_log_term \in Nat,
           NEW t \in Nat, h <= t, Rising(m.entries, m.prev_log_term, t),
           NEW r, Spliced(es, m, r)
    PROVE  Rising(r, 0, t)
<1> DEFINE prev == m.prev_log_index
           ms == m.entries
<1>0. ms \in Seq(Entry) /\ Rising(ms, m.prev_log_term, t) /\ prev \in Nat
  OBVIOUS
<1>1. /\ prev <= Len(es) /\ Len(r) = prev + Len(ms) /\ r \in Seq(Entry)
      /\ prev = 0 \/ es[prev].term = m.prev_log_term
      /\ \A k \in 1 .. prev : r[k] = es[k]
      /\ \A k \in 1 .. Len(ms) : r[prev + k] = ms[k]
  BY DEF Spliced
<1> HIDE DEF prev, ms
<1>2. Len(es) \in Nat /\ Len(ms) \in Nat
  BY <1>0
<1>3. ASSUME NEW k \in 1 .. Len(r)
      PROVE  \/ k \in 1 .. prev
             \/ k - prev \in 1 .. Len(ms) /\ k > prev /\ r[k] = ms[k - prev]
  <2>1. CASE k > prev
    <3> DEFINE j == k - prev
    <3>1. j \in 1 .. Len(ms) /\ prev + j = k
      BY <1>0, <1>1, <1>2, <2>1
    <3> HIDE DEF j
    <3>2. r[k] = ms[j]
      BY <1>1, <3>1
    <3> QED  BY <2>1, <3>1, <3>2 DEF j
  <2>2. CASE ~(k > prev)
    BY <1>0, <2>2
  <2> QED  BY <2>1, <2>2
<1>4. ASSUME NEW k \in 1 .. prev
      PROVE  /\ r[k] = es[k] /\ k \in 1 .. Len(es) /\ es[k].term \in Nat
             /\ es[k].term <= m.prev_log_term /\ es[k].term <= h
  <2>1. r[k] = es[k] /\ k \in 1 .. Len(es) /\ prev \in 1 .. Len(es) /\ k <= prev /\ prev # 0
    BY <1>0, <1>1, <1>2
  <2>2. es[k].term \in Nat
    BY <2>1, EntryTerm
  <2>3. es[k].term <= es[prev].term /\ es[k].term <= h
    BY <2>1 DEF Rising
  <2> QED  BY <1>1, <2>1, <2>2, <2>3
<1>5. ASSUME NEW k \in 1 .. Len(ms)
      PROVE  ms[k].term \in Nat /\ m.prev_log_term <= ms[k].term /\ ms[k].term <= t
  BY <1>0, EntryTerm DEF Rising
<1>6. ASSUME NEW k \in 1 .. Len(r) PROVE 0 <= r[k].term /\ r[k].term <= t
  BY <1>3, <1>4, <1>5
<1>7. ASSUME NEW i \in 1 .. Len(r), NEW j \in 1 .. Len(r), i <= j PROVE r[i].term <= r[j].term
  <2>1. CASE j \in 1 .. prev
    <3>1. i \in 1 .. prev
      BY <1>0, <1>7, <2>1
    <3> QED  BY <1>4, <1>7, <2>1, <3>1 DEF Rising
  <2>2. CASE i \in 1 .. prev /\ j \notin 1 .. prev
    <3>1. r[i].term \in Nat /\ r[i].term <= m.prev_log_term
      BY <1>4, <2>2
    <3>2. r[j].term \in Nat /\ m.prev_log_term <= r[j].term
      BY <1>3, <1>5, <2>2
    <3> QED  BY <3>1, <3>2
  <2>3. CASE i \notin 1 .. prev /\ j \notin 1 .. prev
    <3>1. /\ i - prev \in 1 .. Len(ms) /\ r[i] = ms[i - prev]
          /\ j - prev \in 1 .. Len(ms) /\ r[j] = ms[j - prev]
      BY <1>3, <2>3
    <3>2. i - prev <= j - prev
      BY <1>0, <1>7
    <3> QED  BY <1>0, <3>1, <3>2 DEF Rising
  <2>4. CASE j \notin 1 .. prev
    BY <2>2, <2>3, <2>4
  <2> QED  BY <2>1, <2>4
<1> QED  BY <1>6, <1>7 DEF Rising

\* A stretch of a log whose terms rise has rising terms.
LEMMA RisingStretch ==
    ASSUME NEW es \in Seq(Entry), NEW h \in Nat, Rising(es, 0, h),
           NEW m, m.prev_log_index \in Nat, m.entries \in Seq(Entry), Stretch(m, es)
    PROVE  Rising(m.entries, m.prev_log_term, h)
<1>1. CASE m.entries = <<>>
  BY <1>1 DEF Rising
<1>2. CASE m.entries # <<>>
  <2> DEFINE prev == m.prev_log_index
             ms == m.entries
  <2>1. /\ ms \in Seq(Entry) /\ Len(ms) \in Nat /\ Len(es) \in Nat /\ prev \in Nat
        /\ prev + Len(ms) <= Len(es)
        /\ m.prev_log_term = IF prev = 0 THEN 0 ELSE es[prev].term
        /\ \A k \in 1 .. Len(ms) : ms[k] = es[prev + k]
    BY <1>2 DEF Stretch
  <2> HIDE DEF prev, ms
  <2>2. ASSUME NEW k \in 1 .. Len(ms)
        PROVE  prev + k \in 1 .. Len(es) /\ ms[k] = es[prev + k] /\ es[prev + k].term \in Nat
    <3>1. prev + k \in 1 .. Len(es)
      BY <2>1
    <3>2. es[prev + k] \in Entry
      BY <3>1
    <3> QED  BY <2>1, <3>1, <3>2 DEF Entry
  <2>3. ASSUME NEW k \in 1 .. Len(ms)
        PROVE  m.prev_log_term <= ms[k].term /\ ms[k].term <= h
    <3>1. prev + k \in 1 .. Len(es) /\ ms[k] = es[prev + k] /\ es[prev + k].term \in Nat
      BY <2>2
    <3>2. prev # 0 => prev \in 1 .. Len(es) /\ prev <= prev + k
      BY <2>1, <3>1
    <3> QED  BY <2>1, <3>1, <3>2 DEF Rising
  <2>4. ASSUME NEW i \in 1 .. Len(ms), NEW j \in 1 .. Len(ms), i <= j
        PROVE  ms[i].term <= ms[j].term
    <3>1. prev + i <= prev + j
      BY <2>1, <2>4
    <3> QED  BY <2>2, <3>1 DEF Rising
  <2> QED  BY <2>3, <2>4 DEF Rising, ms
<1> QED  BY <1>1, <1>2

\* A log of a step.
LEMMA RisingLog ==
    ASSUME AlignInv, ~AppSnapshots, TypeInv', LeaderInv, TermsSaved', TermsKept, RisingInv,
           NEW n \in Server, NodeStep(n), NEW p \in Server
    PROVE  Rising(store'[p].entries, 0, store'[p].hard_state.term)
<1> DEFINE h == store[p].hard_state.term
           t == store'[p].hard_state.term
<1>0. /\ TypeInv /\ h \in Nat /\ t \in Nat /\ h <= t /\ store[p].entries \in Seq(Entry)
      /\ sm[p].current_term \in Nat
  BY DEF AlignInv, TypeInv, TypeOK, Store, HardState, StateMachine, TermsKept
<1>1. Rising(store[p].entries, 0, h)
  BY DEF RisingInv
<1>2. \A k \in 1 .. Len(store[p].entries) : store[p].entries[k].term \in Nat
  BY <1>0, EntryTerm
<1>3. Rising(store[p].entries, 0, t)
  <2> HIDE DEF h, t
  <2> QED  BY <1>0, <1>1, <1>2 DEF Rising
<1>4. CASE LogSame(p)
  BY <1>3, <1>4 DEF LogSame
<1>5. CASE p # n
  BY <1>4, <1>5 DEF NodeStep, LogStep
<1>6. CASE p = n /\ ~LogSame(p)
  <2>1. \/ /\ Extends(p) /\ \E cmd \in Command :
              /\ new_entry(p, cmd) \in Entry
              /\ store'[p].entries = Append(store[p].entries, new_entry(p, cmd))
        \/ \E m \in net.append_req : Overwrites(p, m) /\ Spliced(store[p].entries, m, store'[p].entries)
    BY <1>6, WholeLogStep DEF LogGrows
  <2>2. ASSUME Extends(p), NEW cmd \in Command, new_entry(p, cmd) \in Entry,
               store'[p].entries = Append(store[p].entries, new_entry(p, cmd))
        PROVE  Rising(store'[p].entries, 0, t)
    <3>1. sm'[p].current_term = t /\ sm'[p] = sm[p]
      BY <2>2 DEF Extends, LeaderInv, RolesOK, TermsSaved
    <3>2. new_entry(p, cmd).term = t
      BY <3>1 DEF new_entry
    <3> HIDE DEF t
    <3> QED  BY <1>0, <1>3, <2>2, <3>2, RisingAppend
  <2>3. ASSUME NEW m \in net.append_req, Overwrites(p, m), Spliced(store[p].entries, m, store'[p].entries)
        PROVE  Rising(store'[p].entries, 0, t)
    <3>1. m.term > 0
      <4>1. <<m.term, m.leader_id>> \in leaders
        BY DEF LeaderInv, RequestsFromLeaders
      <4>2. <<m.term, m.leader_id>>[1] > 0
        BY <4>1 DEF LeaderInv, LeaderTerms
      <4> QED  BY <4>2
    <3>2. t = m.term
      BY <2>3, <3>1 DEF Overwrites, TermsSaved
    <3>3. /\ m.prev_log_index \in Nat /\ m.entries \in Seq(Entry) /\ m.prev_log_term \in Nat
      BY <1>0, RequestFields
    <3>4. Rising(m.entries, m.prev_log_term, t)
      BY <3>2 DEF RisingInv
    <3> HIDE DEF h, t
    <3> QED  BY <1>0, <1>1, <2>3, <3>3, <3>4, RisingSplice
  <2> QED  BY <2>1, <2>2, <2>3
<1> QED  BY <1>4, <1>5, <1>6

\* No step appends or sends entries whose terms fall.
LEMMA RisingStep ==
    ASSUME AlignInv, AlignInv', ~AppSnapshots, LeaderInv, LeaderInv', TermsKept, RisingInv, [Next]_vars
    PROVE  RisingInv'
<1>0. TypeInv /\ TypeInv' /\ TermsSaved'
  BY DEF AlignInv, LeaderInv
<1>1. CASE store' = store /\ net' = net
  BY <1>1 DEF RisingInv
<1>2. ASSUME NEW n \in Server, NodeStep(n) PROVE RisingInv'
  <2>1. \A p \in Server : Rising(store'[p].entries, 0, store'[p].hard_state.term)
    BY <1>0, <1>2, RisingLog
  <2>2. ASSUME NEW m \in net'.append_req, m \notin net.append_req
        PROVE  Rising(m.entries, m.prev_log_term, m.term)
    <3>1. Stretch(m, store'[n].entries)
      BY <1>0, <1>2, <2>2, NewRequests DEF AlignInv
    <3>2. m.term = sm'[n].current_term /\ sm'[n].role = "Leader"
      <4>1. Sends(n)
        BY <1>2, <2>2 DEF NodeStep, SendsNothing
      <4>2. PICK s \in StateMachine, st \in Store :
              /\ s.current_term = sm'[n].current_term
              /\ \A x \in net'.append_req :
                    \/ x \in net.append_req
                    \/ \E p \in Peers(n) : x = append_request(n, s, st, p)
        BY <4>1 DEF Sends
      <4>3. PICK p \in Peers(n) : m = append_request(n, s, st, p)
        BY <2>2, <4>2
      <4> QED  BY <4>1, <4>2, <4>3 DEF Sends, append_request
    <3>3. m.term = store'[n].hard_state.term
      BY <3>2 DEF LeaderInv, RolesOK, TermsSaved
    <3>4. m \in AppendReq /\ store'[n].entries \in Seq(Entry) /\ m.term \in Nat
      <4>1. m \in AppendReq
        BY <1>0, <2>2 DEF TypeInv, TypeOK, Net
      <4> QED  BY <1>0, <4>1 DEF TypeInv, TypeOK, Store, AppendReq
    <3>5. m.prev_log_index \in Nat /\ m.entries \in Seq(Entry)
      BY <3>4 DEF AppendReq
    <3> QED  BY <2>1, <3>1, <3>3, <3>4, <3>5, RisingStretch
  <2> QED  BY <2>1, <2>2 DEF RisingInv
<1> QED  BY <1>0, <1>1, <1>2, NodeSteps DEF restore, shutdown, start

\* Along every log terms never decrease, without compaction.
LEMMA RisingInvariant ==
    ASSUME ~AppSnapshots, ~ServeBeforeRestore
    PROVE  Spec => [](AlignInv /\ RisingInv)
<1> DEFINE Inv == TypeInv /\ HardStateSync /\ Unstarted
<1>1. Init => Inv
  BY InitType, SyncInit DEF Init, Unstarted
<1>2. Inv /\ [Next]_vars => Inv'
  BY NextType, SyncStep, UnstartedStep
<1>3. Spec => []Inv
  BY <1>1, <1>2, PTL DEF Spec
<1>4. Inv /\ AlignInv /\ AlignInv' /\ LeaderInv /\ LeaderInv' /\ RisingInv /\ [Next]_vars => RisingInv'
  BY NextType, TermsStep, RisingStep
<1>5. Init => RisingInv
  BY DEF Init, EmptyStore, NoRpcs, RisingInv, Rising
<1> HIDE DEF Inv
<1>6. Spec => [](AlignInv /\ LeaderInv)
  BY AlignInvariant, LeaderInvariant, PTL
<1> QED  BY <1>3, <1>4, <1>5, <1>6, PTL DEF Spec

\* What a search of a log in the order of its terms returns.
LEMMA SearchResult ==
    ASSUME NEW st \in Store, Whole(st), NEW h, Rising(st.entries, 0, h),
           NEW u \in 1 .. Len(st.entries), u > 1, NEW t \in Nat
    PROVE  IsEnd({i \in 0 .. u : ~LogCompacted(st, i) /\ ~LogUnavailable(st, i) /\ term(st, i) < t},
                 1, u, first_index_of_term(st, t, u))
<1> DEFINE Low(i) == ~LogCompacted(st, i) /\ ~LogUnavailable(st, i) /\ term(st, i) < t
           B == {i \in 0 .. u : Low(i)}
           W(g) == [r \in (0 .. u + 1) \X (0 .. u) |->
                      IF r[1] >= r[2] THEN r[1]
                      ELSE IF Low(r[1] + (r[2] - r[1]) \div 2)
                      THEN g[<<r[1] + (r[2] - r[1]) \div 2 + 1, r[2]>>]
                      ELSE g[<<r[1], r[1] + (r[2] - r[1]) \div 2>>]]
           w == CHOOSE g : g = W(g)
<1>0. /\ first_index(st) = 1 /\ Len(st.entries) \in Nat /\ st.snapshot.last_included_index = 0
      /\ st.entries \in Seq(Entry) /\ ~(first_index(st) >= u) /\ u \in Nat
  BY WholeStore
<1>1. first_index_of_term(st, t, u) = w[<<first_index(st), u>>]
  BY <1>0, Zenon DEF first_index_of_term
<1>2. ASSUME NEW i \in 0 .. u
      PROVE  i \in B <=> (IF i = 0 THEN 0 < t ELSE st.entries[i].term < t)
  <2>1. ~LogCompacted(st, i) /\ ~LogUnavailable(st, i)
    BY <1>0 DEF LogCompacted, LogUnavailable
  <2>2. i - first_index(st) + 1 = i
    BY <1>0
  <2>3. term(st, i) = IF i = 0 THEN 0 ELSE st.entries[i].term
    BY <1>0, <2>2 DEF term
  <2> QED  BY <2>1, <2>3
<1>3. ASSUME NEW i \in 0 .. u, NEW j \in 0 .. u, i <= j, j \in B PROVE i \in B
  <2> HIDE DEF B
  <2>1. \A k \in 1 .. u : k \in 1 .. Len(st.entries) /\ st.entries[k].term \in Nat
    BY <1>0, EntryTerm
  <2>2. i # 0 => st.entries[i].term <= st.entries[j].term
    BY <1>0, <1>3, <2>1 DEF Rising
  <2>3. CASE i = 0
    BY <1>2, <1>3, <2>1, <2>3
  <2>4. CASE i # 0
    <3>1. i \in 1 .. u /\ j \in 1 .. u
      BY <1>3, <2>4
    <3>2. st.entries[j].term < t
      BY <1>2, <1>3, <3>1
    <3>3. st.entries[i].term < t
      BY <2>1, <2>2, <2>4, <3>1, <3>2
    <3> QED  BY <1>2, <2>4, <3>3
  <2> QED  BY <2>3, <2>4
<1>4. ASSUME NEW g PROVE W(g) = Halves(B, u, g)
  <2> DEFINE D == (0 .. u + 1) \X (0 .. u)
  <2>1. ASSUME NEW r \in D PROVE W(g)[r] = Halves(B, u, g)[r]
    <3> DEFINE mid == r[1] + (r[2] - r[1]) \div 2
    <3>1. W(g)[r] = IF r[1] >= r[2] THEN r[1] ELSE IF Low(mid) THEN g[<<mid + 1, r[2]>>]
                    ELSE g[<<r[1], mid>>]
      <4> HIDE DEF Low
      <4> QED  BY Zenon
    <3>2. Halves(B, u, g)[r] = IF r[1] >= r[2] THEN r[1] ELSE IF mid \in B THEN g[<<mid + 1, r[2]>>]
                               ELSE g[<<r[1], mid>>]
      <4> HIDE DEF B
      <4> QED  BY Zenon DEF Halves
    <3>3. ~(r[1] >= r[2]) => (Low(mid) <=> mid \in B)
      <4> SUFFICES ASSUME ~(r[1] >= r[2]) PROVE Low(mid) <=> mid \in B
        OBVIOUS
      <4>1. r[1] \in Nat /\ r[2] \in 0 .. u /\ r[1] < r[2]
        OBVIOUS
      <4>2. mid \in r[1] .. r[2] - 1
        BY <4>1, Middle
      <4>3. mid \in 0 .. u
        BY <4>1, <4>2
      <4> HIDE DEF mid, Low
      <4> QED  BY <4>3
    <3> HIDE DEF W, Low, B, mid
    <3> QED  BY <3>1, <3>2, <3>3
  <2>2. W(g) = [r \in D |-> W(g)[r]]
    <3> HIDE DEF Low
    <3> QED  OBVIOUS
  <2>3. Halves(B, u, g) = [r \in D |-> Halves(B, u, g)[r]]
    <3> HIDE DEF B
    <3> QED  BY DEF Halves
  <2> HIDE DEF D, W, B
  <2> QED  BY <2>1, <2>2, <2>3
<1>5. \E g : g = Halves(B, u, g)
  <2> HIDE DEF B
  <2> QED  BY <1>0, <1>3, SearchSolution
<1>6. w = W(w)
  <2> HIDE DEF W
  <2> QED  BY <1>4, <1>5
<1>7. w = Halves(B, u, w)
  <2> HIDE DEF W, w, B
  <2> QED  BY <1>4, <1>6
<1>8. IsEnd(B, 1, u, w[<<1, u>>])
  <2>1. 1 \in 0 .. u + 1 /\ u \in 0 .. u
    BY <1>0
  <2> HIDE DEF w, B
  <2> QED  BY <1>0, <1>3, <1>7, <2>1, SearchEnds
<1>9. w[<<first_index(st), u>>] = w[<<1, u>>]
  BY <1>0
<1> HIDE DEF w
<1>10. IsEnd(B, 1, u, first_index_of_term(st, t, u))
  BY <1>1, <1>8, <1>9
<1> QED  BY <1>10

\* first_index_of_term, the binary search of the conflict answer, returns the
\* first index of the term for every entry of every log: the search is right
\* because the terms of a log never decrease (RisingInv), whatever is lost,
\* late, duplicated or overwritten.
THEOREM SearchesFindFirst ==
    ASSUME ~AppSnapshots, ~ServeBeforeRestore
    PROVE  Spec => []SearchFindsFirst
<1>1. AlignInv /\ RisingInv => SearchFindsFirst
  <2> SUFFICES ASSUME AlignInv, RisingInv, NEW n \in Server, NEW k \in DOMAIN store[n].entries,
                      NEW e, e = store[n].entries[k],
                      NEW i, i = first_index_of_term(store[n], e.term, e.index)
               PROVE  /\ IsFirstIndexOfTerm(store[n], e.term, e.index, i)
                      /\ term(store[n], i) = e.term
                      /\ \A j \in 1 .. k : store[n].entries[j].index < i =>
                            store[n].entries[j].term # e.term
    BY Zenon DEF SearchFindsFirst
  <2> DEFINE st == store[n]
             es == st.entries
             t == e.term
             Low(x) == ~LogCompacted(st, x) /\ ~LogUnavailable(st, x) /\ term(st, x) < t
  <2>1. st \in Store /\ Whole(st) /\ Rising(es, 0, st.hard_state.term)
    BY DEF AlignInv, TypeInv, TypeOK, RisingInv
  <2>2. /\ es \in Seq(Entry) /\ Len(es) \in Nat /\ first_index(st) = 1
        /\ st.snapshot.last_included_index = 0
        /\ \A x \in 1 .. Len(es) : es[x].index = x
    BY <2>1, WholeStore
  <2>3. k \in 1 .. Len(es) /\ e.index = k /\ t \in Nat
    BY <2>2, EntryTerm
  <2>4. ASSUME NEW x \in 1 .. k
        PROVE  /\ term(st, x) = es[x].term /\ es[x].index = x /\ es[x].term \in Nat
               /\ x \in 1 .. Len(es) /\ es[x].term <= t
               /\ Low(x) <=> es[x].term < t
    <3>1. x \in 1 .. Len(es) /\ x <= k
      BY <2>2, <2>3
    <3>2. ~LogCompacted(st, x) /\ ~LogUnavailable(st, x)
      BY <2>2, <3>1 DEF LogCompacted, LogUnavailable
    <3>3. x - first_index(st) + 1 = x /\ x # 0 /\ x # st.snapshot.last_included_index
      BY <2>2, <3>1
    <3>4. term(st, x) = es[x].term
      BY <3>3 DEF term
    <3>5. es[x].term <= t
      BY <2>1, <2>3, <3>1 DEF Rising
    <3> QED  BY <2>2, <3>1, <3>2, <3>4, <3>5, EntryTerm
  <2>5. es[k].term = t
    OBVIOUS
  <2> DEFINE Goal == /\ IsFirstIndexOfTerm(st, t, k, i)
                     /\ term(st, i) = t
                     /\ \A j \in 1 .. k : es[j].index < i => es[j].term # t
  <2>6. ASSUME k > 1 PROVE Goal
    <3>1. IsEnd({x \in 0 .. k : Low(x)}, 1, k, i)
      <4> HIDE DEF st, t
      <4>1. Rising(st.entries, 0, st.hard_state.term) /\ k \in 1 .. Len(st.entries)
        BY <2>1, <2>3 DEF es
      <4>2. i = first_index_of_term(st, t, k)
        BY <2>3 DEF st, t
      <4> QED  BY <2>1, <2>3, <2>6, <4>1, <4>2, SearchResult
    <3> HIDE DEF Low
    <3>2. /\ i \in 1 .. k
          /\ \A x \in 1 .. k : x < i => Low(x)
          /\ i < k => ~Low(i)
      BY <2>3, <2>6, <3>1 DEF IsEnd
    <3> HIDE DEF st, es, t
    <3>3. term(st, i) = t
      <4>1. CASE i = k
        BY <2>3, <2>4, <2>5, <3>2, <4>1
      <4>2. CASE i < k
        BY <2>3, <2>4, <3>2, <4>2
      <4>3. i = k \/ i < k
        BY <2>3, <3>2
      <4> QED  BY <4>1, <4>2, <4>3
    <3>4. ASSUME NEW j \in 1 .. k, es[j].index < i PROVE es[j].term # t
      BY <2>3, <2>4, <3>2, <3>4
    <3>5. IsFirstIndexOfTerm(st, t, k, i)
      <4>1. i > 1 => Low(i - 1)
        BY <2>3, <3>2
      <4>2. ~(first_index(st) >= k) /\ i \in first_index(st) .. k
        BY <2>2, <2>3, <2>6, <3>2
      <4> QED  BY <2>2, <3>2, <4>1, <4>2 DEF IsFirstIndexOfTerm, Low
    <3> QED  BY <3>3, <3>4, <3>5
  <2>7. ASSUME ~(k > 1) PROVE Goal
    <3>1. k = 1
      BY <2>3, <2>7
    <3>2. i = 1
      <4>1. i = first_index_of_term(st, t, k) /\ first_index(st) >= k
        BY <2>2, <2>3, <3>1
      <4> HIDE DEF st, t
      <4> QED  BY <2>2, <4>1, Zenon DEF first_index_of_term
    <3> HIDE DEF st, es, t
    <3>3. term(st, i) = t
      BY <2>4, <2>5, <3>1, <3>2
    <3>4. IsFirstIndexOfTerm(st, t, k, i)
      BY <2>2, <3>1, <3>2 DEF IsFirstIndexOfTerm
    <3>5. ASSUME NEW j \in 1 .. k PROVE ~(es[j].index < i)
      BY <2>4, <3>1, <3>2
    <3> QED  BY <3>3, <3>4, <3>5
  <2>8. Goal
    BY <2>6, <2>7
  <2> QED  BY <2>3, <2>8
<1> QED  BY <1>1, RisingInvariant, PTL

=============================================================================
