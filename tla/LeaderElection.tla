--------------------------- MODULE LeaderElection ---------------------------
(***************************************************************************)
(* What elections promise, without RPCs, logs, roles or restarts: a node's *)
(* term only grows, it casts one vote per term and never in a past one,    *)
(* and whoever wins a term holds the votes of a majority of that term.     *)
(* Terms are not bounded; an action leaves the new one open.               *)
(***************************************************************************)
EXTENDS Integers, FiniteSets

CONSTANT Server

VARIABLES
    terms,    \* terms[n]: the latest term n made durable
    votes,    \* <<voter, term, candidate>>
    leaders   \* <<term, node>>

vars == <<terms, votes, leaders>>

Majority(Q) == 2 * Cardinality(Q) > Cardinality(Server)

Init ==
    /\ terms = [n \in Server |-> 0]
    /\ votes = {} /\ leaders = {}

\* Only n's term may change, and it does not decrease.
Moves(n) ==
    /\ terms'[n] >= terms[n]
    /\ terms' = [terms EXCEPT ![n] = terms'[n]]

\* n learns of a later term.
Advance(n) == Moves(n) /\ UNCHANGED <<votes, leaders>>

\* n votes for c in the term it is in or moves to, and for nobody else.
Cast(n, c) ==
    /\ Moves(n)
    /\ \A v \in votes : v[1] = n /\ v[2] = terms'[n] => v[3] = c
    /\ votes' = votes \cup {<<n, terms'[n], c>>}

\* c wins the term it is in: a majority voted for it in that term.
Elect(c) ==
    /\ Majority({n \in Server : <<n, terms'[c], c>> \in votes'})
    /\ leaders' = leaders \cup {<<terms'[c], c>>}

Next ==
    \E n \in Server :
        \/ Advance(n)
        \/ \E c \in Server : Cast(n, c) /\ UNCHANGED leaders
        \/ Cast(n, n) /\ Elect(n)     \* a cluster of one
        \/ Elect(n) /\ UNCHANGED <<terms, votes>>

Spec == Init /\ [][Next]_vars

=============================================================================
