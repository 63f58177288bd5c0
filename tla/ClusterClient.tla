---------------------------- MODULE ClusterClient ----------------------------
(***************************************************************************)
(* iceraft-client: a RaftClusterClient looking for the leader of a running *)
(* cluster.  It speaks to the nodes through the same AppendEntries RPC the *)
(* leader uses, so its requests travel and are handled with the leader's.  *)
(***************************************************************************)
EXTENDS RaftLiveness

CONSTANTS
    Members,    \* the nodes the client knows, in the order it tries them
    MaxFinds    \* bound: calls of find_leader

ASSUME ClientAssumption ==
    /\ Members \in Seq(Server) /\ Members # <<>>
    /\ MaxFinds \in Nat
    /\ ZeroId \notin Server      \* no node answers for id 0

VARIABLES
    known_leader,   \* the field of RaftClusterClient
    cursor,         \* the member find_leader awaits the answer of, 0 when idle
    finds           \* how often find_leader was called

seekerVars == <<known_leader, cursor, finds>>

\* Slip: the ping is of a term that a fresh node accepts.
PingOfTermOne(n, call) == [
    leader_id |-> ZeroId, to |-> n, incarnation |-> call, term |-> 1,
    prev_log_index |-> 0, prev_log_term |-> 0, entries |-> <<>>, leader_commit |-> 0]

\* ping_leader's request.  incarnation ties the answer to the call that awaits it.
ping(n, call) == [
    leader_id |-> ZeroId, to |-> n, incarnation |-> call, term |-> 0,
    prev_log_index |-> 0, prev_log_term |-> 0, entries |-> <<>>, leader_commit |-> 0]

\* What is left of the client's earlier RPCs does not matter any more: a ping that
\* is handled late is like the next one handled now.
Forget(nt) == [nt EXCEPT !.append_req  = {m \in @ : m.leader_id # ZeroId},
                         !.append_resp = {m \in @ : m.to # ZeroId}]

ping_leader(k, call) ==
    /\ cursor' = k
    /\ net' = [Forget(net) EXCEPT !.append_req = @ \cup {ping(Members[k], call)}]

find_leader ==
    /\ cursor = 0 /\ finds < MaxFinds
    /\ finds' = finds + 1
    /\ ping_leader(1, finds')
    /\ UNCHANGED <<nodeVars, clientVars, history, known_leader>>

\* Ok(response): whatever it says, the member is taken for the leader.
ping_answered ==
    /\ cursor > 0
    /\ \E m \in net.append_resp :
          /\ m.to = ZeroId /\ m.peer = Members[cursor] /\ m.incarnation = finds
          /\ net' = Forget(net)
    /\ known_leader' = Members[cursor]
    /\ cursor' = 0
    /\ UNCHANGED <<nodeVars, clientVars, history, finds>>

\* Err: the next member is tried, or None returned.  The request may have been
\* handled all the same.
ping_failed ==
    /\ cursor > 0
    /\ \/ cursor < Len(Members) /\ ping_leader(cursor + 1, finds)
       \/ cursor = Len(Members) /\ cursor' = 0 /\ net' = Forget(net)
    /\ UNCHANGED <<nodeVars, clientVars, history, known_leader, finds>>

ClusterInit ==
    /\ Init
    /\ known_leader = None /\ cursor = 0 /\ finds = 0

ClusterNext ==
    \/ Next /\ UNCHANGED seekerVars
    \/ find_leader
    \/ ping_answered
    \/ ping_failed

ClusterSpec ==
    ClusterInit /\ [][ClusterNext]_<<vars, seekerVars>> /\ Fairness

\* Looking for the leader does not disturb it.  A node that handles a ping keeps
\* its log, its hard state and its role; only a node no election reached yet
\* notes the client's id 0 as its leader.
PingsHarmless ==
    [][\A m \in net.append_req \ net'.append_req :
          m.leader_id = ZeroId /\ UNCHANGED seekerVars =>
              /\ store' = store
              /\ sm' \in {sm, [sm EXCEPT ![m.to].leader_id = ZeroId]}
              /\ sm' # sm => sm[m.to].current_term = 0]_vars

=============================================================================
