------------------------------ MODULE SlowVotes ------------------------------
(***************************************************************************)
(* The clocks of EventLoop over a network that takes its time.  An         *)
(* AppendEntries and its answer may take for ever, and so may a            *)
(* RequestVote on its way to the voter; but a candidate's task gives up    *)
(* vote_wait ticks after it sent the request, and an answer that comes     *)
(* later is not heard.  The code has no such limit of its own              *)
(* (start_election awaits send_request_vote, RaftGrpcClient sets no        *)
(* timeout): it is what a deployment would have to give its channels.      *)
(***************************************************************************)
EXTENDS EventLoop

CONSTANT vote_wait   \* ticks a RequestVote is awaited

VARIABLE awaited     \* the elections whose votes are awaited, and for how long yet

slowVars == <<timedVars, awaited>>

\* The tasks start_election spawns.
Election(n) == [candidate |-> n, term |-> sm'[n].current_term, left |-> vote_wait]

InTime(m) == \E e \in awaited : e.candidate = m.to /\ e.term = m.term

SlowInit == TimedInit /\ awaited = {}

\* Only start_election moves the term at a deadline.
slow_timeout(n) ==
    /\ timeout(n)
    /\ awaited' = IF sm'[n].current_term = sm[n].current_term THEN awaited
                  ELSE awaited \cup {Election(n)}

\* A vote of a task that gave up never reaches the loop.  (A refusal does not say
\* which election it refused, and may come at any time.)
slow_message(n) ==
    /\ message(n)
    /\ \A m \in net.vote_resp \ net'.vote_resp : m.vote_granted => InTime(m)
    /\ UNCHANGED awaited

slow_rpc(n) == rpc(n) /\ UNCHANGED awaited

\* Time goes on over RPCs in flight.
SlowTick ==
    /\ Elapse
    /\ awaited' = {[e EXCEPT !.left = @ - 1] : e \in {x \in awaited : x.left > 0}}

SlowNext ==
    \/ \E n \in Server : slow_timeout(n) \/ slow_message(n) \/ slow_rpc(n)
    \/ SlowTick

SlowSpec == SlowInit /\ [][SlowNext]_slowVars

=============================================================================
