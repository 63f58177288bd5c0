---------------------------- MODULE RaftHistory ----------------------------
(***************************************************************************)
(* RaftNode with a memory of what its steps overwrite: the logs leaders    *)
(* were elected with and led, and what nodes acknowledged.  The additions  *)
(* are determined by the step, so they restrict nothing: a behaviour of    *)
(* HistorySpec is a behaviour of Spec, and every behaviour of Spec has one *)
(* in which these variables are filled in.                                 *)
(***************************************************************************)
EXTENDS RaftNode

VARIABLES
    opening,  \* opening[t]: the log with which a node was elected in term t
    ledger,   \* ledger[t]: the log of the leader of term t, when it last led
    acks      \* <<p, t, i>>: p told the leader of term t that it holds its log
              \* up to i, or led itself with a log of that length

Leading(s, t) == s.role = "Leader" /\ s.current_term = t

\* The log of the node that leads in term t, in a state of nodes and stores.
LeaderLog(nodes, stores, t) == stores[CHOOSE n \in Server : Leading(nodes[n], t)].entries

Terms == {l[1] : l \in leaders}

Acknowledged ==
    {<<r.peer, r.term, r.req_last_index>> : r \in {q \in net.append_resp : q.success}}
    \cup {<<n, sm[n].current_term, Len(store[n].entries)>> :
             n \in {p \in Server : sm[p].role = "Leader"}}

Remember ==
    /\ opening' = [t \in Terms' |->
          IF t \in DOMAIN opening THEN opening[t] ELSE LeaderLog(sm', store', t)]
    /\ ledger' = [t \in Terms' |->
          IF \E n \in Server : Leading(sm'[n], t) THEN LeaderLog(sm', store', t) ELSE ledger[t]]
    /\ acks' = acks \cup Acknowledged'

HistoryInit ==
    /\ Init
    /\ opening = [t \in {} |-> <<>>] /\ ledger = [t \in {} |-> <<>>] /\ acks = {}

HistoryNext == Next /\ Remember

historyVars == <<vars, opening, ledger, acks>>

HistorySpec == HistoryInit /\ [][HistoryNext]_historyVars

=============================================================================
