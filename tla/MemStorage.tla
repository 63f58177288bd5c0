----------------------------- MODULE MemStorage -----------------------------
(***************************************************************************)
(* iceraft-storage: the Storage trait as MemStorage implements it.         *)
(*                                                                         *)
(* A store is a record                                                     *)
(*   hard_state  the last HardState saved (term, vote, commit)             *)
(*   entries     the Vec<LogEntry> kept in memory                          *)
(*   snapshot    the last snapshot applied, NoSnapshot for None            *)
(* Every method of MemStorageInner is an operator on such a record; the    *)
(* RwLock around it makes each of them atomic.  A Result is split in two:  *)
(* a predicate that tells when the method returns that error, and the      *)
(* value it returns otherwise.                                             *)
(***************************************************************************)
EXTENDS Integers, Sequences

CONSTANT
    OverflowChecks   \* cargo profile: TRUE when u64 underflow panics (debug),
                     \* FALSE when it wraps modulo 2^64 (release)

ASSUME OverflowChecksAssumption == OverflowChecks \in BOOLEAN

\* Option<Snapshot>::None.  No snapshot of index 0 is ever taken, so index 0
\* stands for None, and both give first_index = 1.
NoSnapshot == [last_included_index |-> 0, last_included_term |-> 0, data |-> <<>>]

first_index(st) == st.snapshot.last_included_index + 1

\* The index of the last entry is read from the entry itself, not counted.
last_index(st) ==
    IF st.entries # <<>> THEN st.entries[Len(st.entries)].index
                         ELSE st.snapshot.last_included_index

\* term(i) is Err(LogCompacted): strictly below the snapshot's last entry.
LogCompacted(st, i) == i > 0 /\ i < st.snapshot.last_included_index

\* term(i) is Err(LogUnavailable): past the end of the vector.
LogUnavailable(st, i) == i - first_index(st) >= Len(st.entries)

\* term(i) when it is Ok.  The vector is addressed by offset from first_index.
term(st, i) ==
    IF i = 0 THEN 0
    ELSE IF i = st.snapshot.last_included_index THEN st.snapshot.last_included_term
    ELSE st.entries[i - first_index(st) + 1].term

\* term(i).unwrap_or(0), the form most callers use.
term_or_zero(st, i) ==
    IF LogCompacted(st, i) \/ LogUnavailable(st, i) THEN 0 ELSE term(st, i)

\* entries(lo, hi, _) is Err(LogCompacted).
EntriesCompacted(st, lo) == lo < first_index(st)

\* entries(lo, hi, Some(max)) when it is Ok: the slice [lo, hi) cut to the
\* byte budget, which always admits the first entry.  Commands are taken to
\* have one size, so the budget is a number of entries.
entries(st, lo, hi, max) ==
    LET from == lo - first_index(st) + 1
        upto == hi - first_index(st)
    IN  SubSeq(st.entries, from, IF upto - from + 1 > max THEN from + max - 1 ELSE upto)

\* The subtraction incoming_first - first in append_entries underflows: the
\* batch starts inside the snapshot.
AppendUnderflows(st, es) ==
    /\ es[1].index <= last_index(st)
    /\ es[1].index < first_index(st)

\* Everything from the first incoming index on is discarded, whether or not it
\* conflicts.  When the subtraction wrapped, truncate_at is past the end and
\* nothing is discarded.
append_entries(st, es) ==
    LET truncate_at == es[1].index - first_index(st)
        kept == IF /\ es[1].index <= last_index(st)
                   /\ truncate_at \in 0 .. Len(st.entries) - 1
                THEN SubSeq(st.entries, 1, truncate_at)
                ELSE st.entries
    IN  [st EXCEPT !.entries = kept \o es]

\* Slip: off by one, the snapshot's last entry stays in the vector.
KeepsLastIncluded(st, snap) ==
    LET drop_count == snap.last_included_index - first_index(st)
        kept == IF drop_count <= 0 THEN st.entries
                ELSE SubSeq(st.entries, drop_count + 1, Len(st.entries))
    IN  [st EXCEPT !.entries = kept, !.snapshot = snap]

\* Slip: the whole vector is cleared.
ClearsLog(st, snap) == [st EXCEPT !.entries = <<>>, !.snapshot = snap]

\* Entries covered by the snapshot are dropped, the rest of the vector is kept;
\* the snapshot replaces the previous one even when it is older.
apply_snapshot(st, snap) ==
    LET drop_count == snap.last_included_index - first_index(st) + 1
        kept == IF drop_count <= 0 THEN st.entries
                ELSE SubSeq(st.entries, drop_count + 1, Len(st.entries))
    IN  [st EXCEPT !.entries = kept, !.snapshot = snap]

save_hard_state(st, hs) == [st EXCEPT !.hard_state = hs]

\* The vector is aligned with first_index: what every offset computation above
\* relies on.
Aligned(st) ==
    \A k \in DOMAIN st.entries : st.entries[k].index = first_index(st) + k - 1

\* The store holds entry e.
Holds(st, e) == \E k \in DOMAIN st.entries : st.entries[k] = e

=============================================================================
