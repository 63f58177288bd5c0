------------------------------ MODULE EventLoop ------------------------------
(***************************************************************************)
(* iceraft-node/src/node.rs, run_event_loop: the clocks of RaftNode.       *)
(*                                                                         *)
(* RaftNode lets a deadline pass at any time; here it passes when it is    *)
(* due.  The network is as good as it can be: no RPC is lost and every one *)
(* arrives before time goes on.  No node fails and no log is compacted.    *)
(*                                                                         *)
(* A deadline is the number of ticks until it passes, 0 once it did.       *)
(***************************************************************************)
EXTENDS RaftNode

CONSTANTS
    heartbeat_interval,     \* ticks between heartbeats
    election_timeout_min,
    election_timeout_max

\* What RaftConfig::validate accepts.
ASSUME ConfigAssumption ==
    /\ heartbeat_interval \in Nat \ {0}
    /\ election_timeout_min \in Nat /\ election_timeout_max \in Nat
    /\ heartbeat_interval < election_timeout_min
    /\ election_timeout_min < election_timeout_max

VARIABLES
    election_deadline,   \* local variables of n's event loop
    heartbeat_deadline,
    wake,                \* wake[n]: the deadline its sleep_until was given
    unheard              \* history: ticks since n accepted an AppendEntries, counted
                         \* up to election_timeout_min, or -1

clocks == <<election_deadline, heartbeat_deadline, wake>>
timedVars == <<vars, clocks, unheard>>

\* next_election_deadline
Jitter == election_timeout_min .. election_timeout_max

\* Slip: a leader sleeps until its election deadline, too.
IgnoresRole(s, e, h) == e

\* The top of the loop, in state s with deadlines e and h.
deadline(s, e, h) == IF s.role = "Leader" THEN h ELSE e

TimedInit ==
    /\ Init
    /\ election_deadline \in [Server -> Jitter]
    /\ heartbeat_deadline = [n \in Server |-> heartbeat_interval]
    /\ wake = election_deadline
    /\ unheard = [n \in Server |-> -1]

\* The loop goes round: it sleeps until the deadline of the role it has now.
Sleeps(n) ==
    wake' = [wake EXCEPT ![n] =
                deadline(sm'[n], election_deadline'[n], heartbeat_deadline'[n])]

\* sleep_until returned.  A node that changed its role in its sleep may find that
\* neither branch is due.
timeout(n) ==
    /\ wake[n] = 0
    /\ \/ /\ election_deadline[n] = 0 /\ sm[n].role # "Leader"
          /\ start_election(n)
          /\ \E e \in Jitter : election_deadline' = [election_deadline EXCEPT ![n] = e]
          /\ heartbeat_deadline' = [heartbeat_deadline EXCEPT ![n] = heartbeat_interval]
       \/ /\ heartbeat_deadline[n] = 0 /\ sm[n].role = "Leader"
          /\ heartbeat(n)
          /\ heartbeat_deadline' = [heartbeat_deadline EXCEPT ![n] = heartbeat_interval]
          /\ UNCHANGED election_deadline
       \/ /\ IF sm[n].role = "Leader" THEN heartbeat_deadline[n] > 0
                                      ELSE election_deadline[n] > 0
          /\ UNCHANGED <<vars, election_deadline, heartbeat_deadline>>
    /\ Sleeps(n)
    /\ UNCHANGED unheard

\* rx.recv() returned: the message is handled and the loop goes round.
message(n) ==
    /\ \/ \E cmd \in Command : on_proposal(n, cmd)
       \/ \E m \in net.vote_resp : handle_vote_response(n, m)
       \/ \E m \in net.append_resp : handle_append_response(n, m)
    /\ UNCHANGED <<election_deadline, heartbeat_deadline>>
    /\ Sleeps(n)
    /\ UNCHANGED unheard

\* An RPC is handled outside the loop, which sleeps on whatever it does.
rpc(n) ==
    /\ \/ /\ \E m \in net.vote_req : on_request_vote(n, m)
          /\ UNCHANGED unheard
       \/ \E m \in net.append_req :
              /\ on_append_entries(n, m)
              /\ unheard' = IF m.term >= sm[n].current_term
                            THEN [unheard EXCEPT ![n] = 0] ELSE unheard
    /\ UNCHANGED clocks

\* Time goes on when every loop that was due has run.
Elapse ==
    LET Down(d) == [n \in Server |-> IF d[n] > 0 THEN d[n] - 1 ELSE 0]
    IN  /\ \A n \in Server : wake[n] > 0
        /\ election_deadline' = Down(election_deadline)
        /\ heartbeat_deadline' = Down(heartbeat_deadline)
        /\ wake' = Down(wake)
        /\ unheard' = [n \in Server |->
              IF unheard[n] \in 0 .. election_timeout_min - 1 THEN unheard[n] + 1 ELSE unheard[n]]
        /\ UNCHANGED vars

\* An RPC takes no time: it is over before time goes on.
Tick == net = NoRpcs /\ Elapse

TimedNext ==
    \/ \E n \in Server : timeout(n) \/ message(n) \/ rpc(n)
    \/ Tick

TimedSpec == TimedInit /\ [][TimedNext]_timedVars

\* The loop never sleeps longer than until the deadline of the role it has, or
\* one heartbeat when an RPC changed that role in its sleep.
NeverOversleeps ==
    \A n \in Server :
        LET due == IF sm[n].role = "Leader" THEN heartbeat_deadline[n] ELSE election_deadline[n]
        IN  wake[n] <= due \/ wake[n] <= heartbeat_interval

\* Whenever time goes on, the nodes agree on who leads, if anyone does, and have
\* heard from it within a heartbeat interval.
LeaderHeard ==
    net = NoRpcs =>
        \A l, p \in Server : sm[l].role = "Leader" /\ p # l =>
            /\ sm[p].current_term = sm[l].current_term
            /\ sm[p].leader_id = l
            /\ unheard[p] \in 0 .. heartbeat_interval

\* "Recognised leader - reset election clock": a node stands for election only
\* when it has not heard from a leader for the shortest election timeout.  (An
\* AppendEntries of the same instant may come too late to stop it.)
StandsOnlyUnheard ==
    [][\A n \in Server :
          sm'[n].role # "Follower" /\ sm'[n].current_term > sm[n].current_term =>
              unheard[n] \in {-1, 0, election_timeout_min}]_timedVars

\* "apply_tx is called every time an entry is committed": what a node that leads or
\* follows a leader knew to be committed when the deadline of its loop passed was
\* handed to its application by the end of that turn.
AppliedByDeadline ==
    [][\A n \in Server :
          timeout(n) /\ sm[n].leader_id # None =>
              sm'[n].last_applied >= sm[n].commit_index]_timedVars

=============================================================================
