------------------------------ MODULE RaftLoops ------------------------------
(***************************************************************************)
(* The binary search for the first entry of a term, whose result RaftNode  *)
(* states by what it looks for, as it is written.                          *)
(***************************************************************************)
EXTENDS RaftNode

\* Slip: the search also moves past entries of the term itself.
LastIndexOfTerm(st, t, upper) ==
    LET search[r \in (0 .. upper + 1) \X (0 .. upper)] ==
            LET mid == r[1] + (r[2] - r[1]) \div 2
            IN  IF r[1] >= r[2] THEN r[1]
                ELSE IF term_or_zero(st, mid) <= t THEN search[<<mid + 1, r[2]>>]
                ELSE search[<<r[1], mid>>]
    IN  IF first_index(st) >= upper THEN first_index(st) ELSE search[<<first_index(st), upper>>]

\* Slip: the search starts at index 1, whatever was compacted.
SearchFromOne(st, t, upper) ==
    LET Below(i) == /\ ~LogCompacted(st, i) /\ ~LogUnavailable(st, i)
                    /\ term(st, i) < t
        search[r \in (0 .. upper + 1) \X (0 .. upper)] ==
            LET mid == r[1] + (r[2] - r[1]) \div 2
            IN  IF r[1] >= r[2] THEN r[1]
                ELSE IF Below(mid) THEN search[<<mid + 1, r[2]>>]
                ELSE search[<<r[1], mid>>]
    IN  IF 1 >= upper THEN 1 ELSE search[<<1, upper>>]

\* RaftNodeInner::first_index_of_term.  An error of term(mid) moves hi, as an
\* entry of the term does.
first_index_of_term(st, t, upper) ==
    LET Below(i) == /\ ~LogCompacted(st, i) /\ ~LogUnavailable(st, i)
                    /\ term(st, i) < t
        search[r \in (0 .. upper + 1) \X (0 .. upper)] ==    \* r = <<lo, hi>>
            LET mid == r[1] + (r[2] - r[1]) \div 2
            IN  IF r[1] >= r[2] THEN r[1]
                ELSE IF Below(mid) THEN search[<<mid + 1, r[2]>>]
                ELSE search[<<r[1], mid>>]
    IN  IF first_index(st) >= upper THEN first_index(st) ELSE search[<<first_index(st), upper>>]

\* The conflict index a follower would answer for any entry it holds is the
\* first index of that entry's term in its log, so that one round trip skips the
\* term as a whole ("fast rollback").
SearchFindsFirst ==
    \A n \in Server : \A k \in DOMAIN store[n].entries :
        LET e == store[n].entries[k]
            i == first_index_of_term(store[n], e.term, e.index)
        IN  /\ IsFirstIndexOfTerm(store[n], e.term, e.index, i)
            /\ term(store[n], i) = e.term
            /\ \A j \in 1 .. k : store[n].entries[j].index < i => store[n].entries[j].term # e.term

=============================================================================
