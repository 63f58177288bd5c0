----------------------------- MODULE LogStorage -----------------------------
(***************************************************************************)
(* What a Storage promises of its log, whatever keeps it: a set of entries *)
(* addressed by the index they carry, after a prefix a snapshot stands     *)
(* for.  No vector, no offsets, no subtraction.                            *)
(***************************************************************************)
EXTENDS Integers

CONSTANT Server

VARIABLES
    base,    \* base[n]: the index n's snapshot covers the log up to, or 0
    held     \* held[n]: the entries n's storage holds

vars == <<base, held>>

Indices(S) == {e.index : e \in S}

\* The entries follow the snapshot and each other: one at every index from b + 1
\* up to some last one.
FollowsOn(b, S) ==
    /\ \A e, f \in S : e.index = f.index => e = f
    /\ \A e \in S : e.index > b /\ \A i \in b + 1 .. e.index : i \in Indices(S)

Before(S, i) == {e \in S : e.index < i}

Init ==
    /\ base = [n \in Server |-> 0]
    /\ held = [n \in Server |-> {}]

\* append_entries: new entries, which replace whatever was at their indices and
\* after them.
Append(n) ==
    /\ \E e \in held'[n] \ held[n] : Before(held'[n], e.index) = Before(held[n], e.index)
    /\ FollowsOn(base[n], held'[n])
    /\ held' = [held EXCEPT ![n] = held'[n]]
    /\ UNCHANGED base

\* append_entries of entries that are all there already: what follows them goes.
Truncate(n) ==
    /\ \E e \in held[n] : held' = [held EXCEPT ![n] = Before(@, e.index + 1)]
    /\ UNCHANGED base

\* apply_snapshot: the log moves on to a later snapshot, and exactly the entries
\* it covers go.
Install(n) ==
    /\ base'[n] > base[n]
    /\ base' = [base EXCEPT ![n] = base'[n]]
    /\ held' = [held EXCEPT ![n] = {e \in @ : e.index > base'[n]}]

Next == \E n \in Server : Append(n) \/ Truncate(n) \/ Install(n)

Spec == Init /\ [][Next]_vars

=============================================================================
