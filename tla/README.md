# A verification project for iceraft

iceraft is a Raft library for async Rust: an event loop per node
(`iceraft-node`), a `Storage` trait with an in-memory implementation
(`iceraft-storage`) and a gRPC transport (`iceraft-network`).  This directory
models the protocol as that code implements it, checks it with TLC on small
clusters and proves much of it with TLAPS for clusters of any size.

## 1. Inventory

| Component | State | Operations | Modelled |
|---|---|---|---|
| `RaftNode` / `RaftNodeInner` (`iceraft-node/src/node.rs`) | the state machine, `pending` proposals, the chunk buffer `snapshot_buf`, two deadlines of the event loop | `start`, `propose`, `shutdown`, `on_append_entries`, `on_request_vote`, `on_install_snapshot`, `start_election`, `replicate_all` / `replicate_to`, the three answer handlers, `maybe_advance_commit`, `apply_committed` | `RaftNode`; the deadlines in `EventLoop` and `SlowVotes`, the binary search in `RaftLoops` |
| `RaftStateMachine` (`iceraft-node/src/state.rs`) | term, vote, role, commit and applied index, leader, progress per peer, votes received | `new`, `become_follower`, `become_candidate`, `become_leader`, `maybe_commit` (never called; `maybe_advance_commit` repeats it) | `RaftStateMachine`, `RaftNode` |
| `RaftMessage` (`iceraft-node/src/message.rs`) | the channel into the loop | the messages above, three read-only queries, two that only log | actions of `RaftNode` |
| `MemStorage`, the `Storage` trait (`iceraft-storage`) | hard state, entry vector, snapshot | `first_index`, `last_index`, `term`, `entries`, `append_entries`, `apply_snapshot`, `save_hard_state`, `load_hard_state` | `MemStorage`, abstractly `LogStorage` |
| `RocksDbStorage` (`iceraft-storage/src/rocks.rs`) | none | every method is `unimplemented!()` | no |
| `iceraft-core` | types, `RaftConfig`, errors | `quorum`, `validate` (never called) | `quorum`, the types, the timeouts |
| Transport, gRPC client and server (`iceraft-network`, `iceraft/src/lib.rs`) | channels | three unary RPCs | as the RPCs in flight |
| Protobuf code | none | encoding | message types only |
| `iceraft-metrics` | process-wide counters nothing reads | increments | no |
| `iceraft-client` | `known_leader` | `find_leader`, `ping_leader` | `ClusterClient` |

**How they interact.**  A node is one tokio task (the event loop) and any number
of handler calls made by the gRPC server; all of them take one `Mutex` and hold
it to the end of the handler, so handlers of a node are atomic towards each
other.  An outgoing RPC is a task of its own: it sends one request, awaits the
answer and posts it to the loop's channel.  Nothing orders these tasks, so
requests and answers overtake each other, are lost, and arrive in a later term.
The storage is an `Arc` shared with whoever created it; it outlives the node.
Committed entries leave through `apply_tx`; snapshots enter the storage when the
application calls `apply_snapshot` on it or a leader sends one.

**What is hard here.**  Answers that arrive after the state they refer to is
gone; AppendEntries and InstallSnapshot delivered late or twice to a log that
was compacted in between; the first moments of a restarted node; u64
subtractions at the edge of the snapshot; proposals whose entry is overwritten
while their caller waits; entries of earlier terms on a majority; a handler that
stops half way; a loop that sleeps on a deadline while RPC handlers change its
role; heartbeats that cross with answers while `next_index` walks back.  `PROJECT.json` lists the hazards at their lines.

**What makes it correct.**  Elections: one vote per node and term, one leader
per term, terms only grow, memory and storage agree when an RPC is answered.
Log: equal (index, term) means equal prefix; a leader only appends; the vector
is aligned with `first_index`; `match_index` is true of the peer.  Commitment:
a committed entry stays on a quorum and in every later leader, no index is
committed twice, the commit index stays inside the log.  Application: entries
are applied in order, without gaps, and equal everywhere; an `Ok` means that the
caller's command was committed at that index.  Storage: a log addressed by index,
behind the most recent snapshot.  Time: a leader is heard within a heartbeat
interval, a node stands for election only when it is not.  Progress: under a
leader that stays, followers catch up and callers are answered.

## 2. Modules

- **`MemStorage`** - the storage as a record, its methods as operators.  A
  `Result` is a predicate for the error (`LogCompacted`, `LogUnavailable`,
  `EntriesCompacted`) and an operator for the value.  `append_entries` truncates
  at the first incoming index without comparing terms, as the code does.
  `OverflowChecks` is the cargo profile: with it, `incoming_first - first`
  panics when it underflows (`AppendUnderflows`); without it, it wraps and
  nothing is truncated.
- **`RaftStateMachine`** - the struct and its role transitions, `quorum`, and
  the count of replicas.
- **`RaftNode`** - the cluster: one action per handler, per deadline of the
  event loop, per step of a node's lifecycle.  The helpers called from several
  handlers (`Observe` / `ObserveStore` for "step down if we see a higher term",
  `StepDown`, `Commit`, `replicate_all`) are operators.
- **`RaftLoops`** - the binary search of `first_index_of_term` as it is written, as a
  recursive function, and the property that ties it to the relation
  (`IsFirstIndexOfTerm`) `RaftNode` uses in its place.
- **`LeaderElection`** and **`LogStorage`** - two abstract specifications.  The
  first knows terms, votes and leaders: a node's term grows, it votes once per
  term, a leader has a majority.  The second is the `Storage` trait without the
  vector: a set of entries with their indices behind a compacted prefix, changed
  by appending (which replaces a suffix), truncating and installing a later
  snapshot.  Both leave the new term, the new entries and the new snapshot open
  and only relate them to the old state.
- **`RaftRefinement`** - `RaftNode` implements both.  The abstract term is the one
  in storage, so a vote counts when it is durable; votes and leaders are the
  history variables.  The abstract log is the set of entries in the vector.
- **`RaftLiveness`** - fairness, and what nodes that keep running get done.
- **`ClusterClient`** - `RaftNode` composed with a `RaftClusterClient`, whose
  pings travel as AppendEntries of term 0 from id 0 and are handled by
  `on_append_entries` like a leader's.
- **`EventLoop`** - `RaftNode` composed with the clocks of `run_event_loop`.
  `election_deadline` and `heartbeat_deadline` are its local variables, `wake`
  the deadline it captured before it went to sleep; all count down to 0.
  `timeout` and `message` are the two arms of the `select!`, and both end at the
  top of the loop (`Sleeps`); `rpc` is a handler called by the gRPC server, which
  changes the role behind the sleeping loop's back.
- **`SlowVotes`** - `EventLoop` over a network that takes its time: ticks pass over
  AppendEntries and RequestVotes in flight.  `awaited` holds the tasks
  `start_election` spawned, with the ticks each has left of `vote_wait`; a grant is
  heard while its task waits (`InTime`).
- **`MCRaftNode`**, **`MCClusterClient`**, **`MCEventLoop`**, **`MCSlowVotes`** - the instances: links,
  elections, symmetry and views.
- **`RaftHistory`** - `RaftNode` with three history variables for the proofs about
  commitment: the log each leader was elected with, the log it led, and what nodes
  acknowledged.  Each step determines their new values and no guard reads them.
- **`RaftNodeTypeProofs`**, **`ElectionProofs`**, **`LogProofs`**, **`RefinementProofs`**,
  **`ServiceProofs`**, **`CommitProofs`**, **`EventLoopProofs`**, **`ClientProofs`** - the
  theorems (section 4).  Each of the first three extends the one before;
  `RefinementProofs`, `ServiceProofs` and `EventLoopProofs` extend `LogProofs`,
  `CommitProofs` extends `ServiceProofs`, `ClientProofs` extends `ElectionProofs`.

Definitions whose comment starts with "Slip" are variants of the definition
below them, with a plausible error.  They are not part of the specification;
each is used to confirm that a property fails when the code is changed that way.

### State

`sm[n]` and `store[n]` are the two structs; `pending[n]` the callers that wait;
`phase[n]` tells a node whose `start` returned but whose loop has not restored
the hard state (`"starting"`) from one whose loop runs (`"running"`) and one
whose loop got `Shutdown` (`"stopped"`: its RPC handlers still answer).
`incarnation[n]` counts restarts, so that answers reach the loop that asked.
`net` is the set of requests and answers in flight.  `applied` is what went out
on `apply_tx`, `acked` the proposals answered `Ok`.  `votes`, `leaders` and
`committed` are history that no action reads.

### Abstractions

- *Time.*  In `RaftNode`, an election deadline may pass in any state of a node that does not
  lead, a heartbeat deadline in any state of a leader.  This is no
  over-approximation for elections: nothing but an election moves that deadline.
  `EventLoop` counts ticks; its network is the best there is (nothing is lost,
  nothing takes time: a tick waits for every RPC in flight), so what it shows is
  what the loop's own timing does, not how it bears delays.  `SlowVotes` drops
  that: RPCs take any number of ticks, and only the time a candidate waits for a
  vote is limited.
  Within a tick everything interleaves.  The condition `validate` would impose
  (heartbeat < shortest < longest election timeout) is an assumption there; no
  code calls `validate`.
- *RPCs.*  A lost RPC is one that is never delivered.  An element of a message
  set is delivered once, unless `RedundantRpcs`: then an AppendEntries or
  InstallSnapshot may be delivered again, which stands for the equal requests a
  leader sends at every heartbeat, each a task of its own.  Without
  `RedundantRpcs` each new RPC to a peer cancels the outstanding one and its
  answer (`Outstanding`), so at most one is under way per leader and peer.  The
  code does nothing of the kind (node.rs:626-636 spawns a task per RPC, and two
  proposals in a row already overlap): it is an assumption on the environment,
  stronger than that RPCs do not overtake each other, and every run and theorem
  that makes it says so.
  `LateResponses` lets an answer arrive after its receiver moved to a later
  term.  `Links` are the pairs between which RPCs succeed at all.
- *Restarts.*  `start(n)` is `RaftNode::start` on the same storage: with
  `MemStorage`, the same `Arc`; with a durable backend, the same disk.  A crash
  happens between handlers.  `ServeBeforeRestore` lets RPCs reach a node between
  `start` and the loop's restore, which the code does not exclude.
- *Panics.*  A handler that panics has done what comes before the panic and
  answers nothing; tokio's `Mutex` is not poisoned, so the node goes on.
- *Data.*  Commands are model values, each proposed once, all of one size, so
  the byte budget of a batch is `MaxBatch` entries (the first always fits, as in
  the code).  A snapshot's data is the sequence of applied entries.
- *`first_index_of_term`* is its specification, `IsFirstIndexOfTerm`: an index at
  which the binary search can stop.  `RaftLoops` has it as written.
  `maybe_advance_commit` is the index its downward walk stops at (`IsNewCommit`):
  the highest one of the leader's term on a quorum.
- *The client* keeps one ping in flight: one that is handled after its caller
  gave up is like the next one handled now.
- *Alignment.*  Once a vector lost its alignment with `first_index`, reads are
  out of range.  The model does not follow that node further (`Aligned` guards);
  `StoresAligned` is checked in its own right.
- *Left out.*  `in_flight` (never read), `conf_nodes` and entry types (never
  read), chunking (the only sender sends one chunk), storage errors
  (`MemStorage` has none on the paths used), logging and metrics.

Id 0 deserves a note: storage writes "no vote" as 0, so a node with id 0 would
lose its vote.  `ZeroId` is that id; the runs and the theorems about votes
assume that no node has it.

## 3. Runs

Three nodes unless said otherwise.  Every run bounds elections by a set of
`<<node, term>>` pairs, commands by `Command`, restarts by `MaxRestarts`;
messages need no bound, being a set.  Because the bounds exhaust, a run may stop,
and deadlock is not checked.  Nodes and commands are symmetric as far as the
bounds allow; `View` leaves out answers that no action can accept any more.

| Run | States | Question |
|---|---|---|
| `Elections` | 160,000 | Full mesh, two contenders for terms 1 and 2, the third node is shut down and restarted at any point. |
| `Replication` | 32,000 | The ends of a chain take turns over four terms, three commands: the situation in which an entry of an earlier term is on a majority and can still be overwritten. |
| `Compaction` | 175,000 | The middle of a chain leads, compacts and is deposed, so that its successor and the laggard need snapshots. |
| `UnreliableRpcs` | 24,000 | Every replication RPC and answer may be repeated and arrive at any later time, across a change of leader and over compacted logs; overflow checks on, so handlers panic. |
| `SingleNode` | 7,100 | The quick start: one node, no peers, three terms, two restarts, compaction; fair. |
| `Cluster` | 137,000 | Two nodes, the lead goes from one to the other and back, and a client asks who leads, at any moment; fair. |
| `EventLoop` | 85,000 | Two nodes, four terms, one command, timeouts in the ratios of the default configuration (1 : 3 : 6). |

`Elections` checks `TypeOK`, `HardStateSync`, `OneVotePerTerm`,
`ElectionSafety`, `TermsNeverDecrease`, `LeaderHintTrue` (the leader a node names
to clients won the node's present term) and `ImplementsElection`.  Two terms and
two contenders are enough for a split vote, a second election and a vote
remembered across a restart.

`Replication` checks `LogMatching`, `MatchIndexSound`, `LeaderCompleteness`,
`CommittedOnQuorum`, `CommittedOnce`, `StateMachineSafety`, `AppliedInOrder`,
`LeaderAppendOnly`.  Four terms are what the "entry of an earlier term" anomaly
needs (dropping the term test of `maybe_advance_commit` is found); three
commands let two logs differ in length and in content.  It assumes that an RPC to
a peer cancels the one before it and that answers are not late; the violations
below say what happens otherwise.  Its batches, and those of `Compaction`, always
reach the end of the log (`MaxBatch` is the number of commands), as they do in
the code while a backlog fits in `max_append_entries_size`; shorter ones break
commitment, as the list below says.  On every log of these states it also runs the
binary search: `SearchFindsFirst`.

`Compaction` checks `StoresAligned`, `CommitWithinLog`, `LeaderCompleteness` and
`CommittedOnQuorum` with snapshots in play, under the same assumption; besides,
`AppliedWithinCommit` (the u64 subtraction at node.rs:787 does not underflow),
`CommitNeverRegresses`, `ImplementsStorage`, and `SearchFindsFirst` at the edge of
a compacted prefix, where the search may start at or above its upper end (a search
that starts at index 1 fails there).

`UnreliableRpcs` checks what survives without any assumption on delivery:
`HardStateSync`, `LeaderAppendOnly`.  One of the three nodes is cut off there, so
that two commands, two terms and snapshots stay explorable.  That is too small for
logs to diverge, so the run says nothing of `LogMatching`: diverging logs are the
matter of `Replication`, and for repeated and late AppendEntries the property is
proved (`LogsMatch`, for all instances without compaction).

`SingleNode` checks `AckedIsCommitted`, and `AloneServes`: a lone node that keeps
running ends up leading, with everything proposed in its term committed, applied
and answered.  Three elections are one per incarnation, so the bound does not
stand in for the code.

`Cluster` checks `StableLeaderSettles`: if some node leads from some point on, its
peers come to hold its log and to know its commit index, and its own term's
proposals are committed, applied and answered.  In this instance the leader of
term 3 may hold two entries its follower lacks, so `next_index` walks back twice,
past heartbeats that cancel the RPCs it waits for (answers do not cross here).  `PingsHarmless` says
that a node that handles a ping keeps log, hard state and role; a node of term 0
notes id 0 as its leader.

`EventLoop` checks `NeverOversleeps`: whatever RPCs do to the role while the loop
sleeps, it wakes by the deadline of the role it has, or within a heartbeat
interval; and `LeaderHeard`: whenever time goes on, all nodes are in the leader's
term, name it, and have heard from it within a heartbeat interval.  Four terms
let each node lead, be deposed and lead again.  All of it is over a network without
delay.

**Fairness** (`RaftLiveness`).  Weak fairness of `restore`, `start_election` and
`heartbeat` per node: the loop sleeps until a deadline that is never moved
further away, and is woken.  Weak fairness of the arrival of some request per
leader and peer, strong fairness of the arrival of some answer: the leader
sends to every peer at every heartbeat, for ever, so these are "not every RPC is
lost", and strong fairness is needed because in the model a heartbeat cancels
the RPC before it.  Nothing is assumed of votes, proposals, pings, faults or
compaction, and no node is assumed to stay leader: `StableLeaderSettles` has it
as its hypothesis, which is as well, since `ElectionClock` shows that the code
does not provide it.  The two fair runs use neither symmetry nor a view.

### Where the code does not do what it says

Five runs end in a counterexample.  Each is a behaviour of the model that the
code has, against a sentence of its own documentation.

- **`StaleVote`** (`SlowVotes`, a chain of three nodes, timeouts in the ratios of
  the default configuration) - `handle_vote_response` (node.rs:679) counts a
  granted vote of any earlier term.  A candidate of term 2 completes its majority
  with a vote of term 1 while another node wins term 2 properly.  The late vote
  took `election_timeout_min` (`vote_wait` = 3): `start_election` awaits its
  answers for as long as they take, and `RaftGrpcClient` sets no timeout.  With
  votes awaited for any shorter time every term has one leader; that is
  `TimelyElections` (section 4).  TLC agrees on an instance small enough to
  exhaust: timeouts of 1, 2 and 3, `vote_wait` = 1, 320,000 states.
- **`DelayedAppend`** - an AppendEntries that arrives after a newer one of the
  same leader truncates what it does not conflict with (mem.rs:122); an entry
  the leader committed is then on no quorum.  The trait's comment promises to
  truncate a *conflicting* suffix.
- **`StalePending`** - `pending` survives a step-down and is matched by index
  only (node.rs:793): a caller is told `Ok` for a command that was overwritten.
- **`SkippedApply`** - the loop restores `last_applied` from the saved commit
  index (node.rs:203): entries committed but not yet applied at the crash are
  never sent on `apply_tx`.
- **`ElectionClock`** - the comment at node.rs:323 says that an AppendEntries
  resets the election clock.  Nothing does (only `start_election` moves
  `election_deadline`): a follower that heard its leader a tick ago stands for
  election, so a healthy leader is deposed within one election timeout, again
  and again.  A deposed leader, whose own deadline ran out while it led, stands
  at its next wake-up.

`AppliedByDeadline` (`EventLoop`) fails as well when it is added to `EventLoop.cfg`:
`apply_committed` runs in the leader's heartbeat branch only (node.rs:283), so a
follower that knows an entry to be committed goes through its deadline, and every
later one, without sending it on `apply_tx`, which the doc of `start` (node.rs:74)
says is called "every time an entry is committed".  Only nodes that lead ever
apply anything.

Properties that fail when a passing run is given another environment:

- `OneVotePerTerm` in `Elections` with `ServeBeforeRestore`: handlers can run
  before the loop restored the hard state (node.rs:102); such a handler sees term
  0, overwrites the saved vote and votes a second time in the term.
- `ImplementsStorage` on a chain whose middle leads term 1 only, with
  `RedundantRpcs` and `AppSnapshots`: `apply_snapshot` (mem.rs:211) replaces a newer
  snapshot by an older one that arrives late.
- `StoresAligned` there without `OverflowChecks`: in a release build
  `incoming_first - first` wraps (mem.rs:123) and a batch that starts inside the
  snapshot is appended behind newer entries.
- `CommittedOnQuorum` and `CommitWithinLog` on the chain of `Replication` with
  `MaxBatch = 1`, four commands, elections of n1 in term 1 and n2 in terms 2 and
  3, and a restart of n2 between them; nothing is late or repeated.  n1 commits entries 1 and 2
  together with n2 and appends a third alone; n2 wins term 2 with entries 1 and 2,
  appends a third of its own, restarts and wins term 3.  The conflict n1 reports
  sends n2's `next_index` back to 1, the byte budget (node.rs:594) ends the batch
  after entry 1, and `append_entries` truncates n1's log there (mem.rs:122), below
  n1's commit index.
- `LeaderHintTrue` with a client: a ping makes a node of term 0 name id 0 as its
  leader.

Two documented promises are not stated as properties because no code path of the
repository reaches them: `ReadIndex` (message.rs:12, "caller blocks until the read
index is confirmed safe") is answered at once by a node in any role, but nothing
sends it; `ping_leader` (client lib.rs:36) "returns `true` if the node accepts it
(i.e. believes it is the leader)", but any answer makes it return `true`, and a
leader always rejects the ping, its term being 0; nothing reads `known_leader`.

The environment switches are what separates the passing runs from these: each of
them is turned on in the run that shows its effect, and off where a property is
checked that its effect is known to break.

## 4. Theorems

All proofs are checked by TLAPS to the last leaf.  The constants are arbitrary
within `ConstantsAssumption`: any finite non-empty `Server`, any commands, any
links, elections, restarts and batch size.

- **`TypeCorrect`**: `Spec => []TypeOK`, in every environment.  `TypeOK` is not
  inductive: that a request's `prev_log_index = next_index - 1` is a natural
  number needs that a leader's `next_index` is at least 1 for every peer, and
  `become_follower` clears the map.  `TypeInv` adds just that (`ProgressOK`).
  The proof has lemmas for the storage operators (what `append_entries`,
  `entries`, `apply_snapshot` return on aligned stores), for the role
  transitions and for `replicate_all`, then one lemma per action.
- **`HardStateSynced`**: `Spec => []HardStateSync`, in every environment, panics
  and early serving included.  Inductive with `TypeInv`.
- **`VotesOnce`**: `Spec => []OneVotePerTerm`, assuming `~ServeBeforeRestore` and
  `ZeroId \notin Server`.  The strengthening is `VotesRecorded`: the storage of a
  voter is past the term of each of its votes, or in that term with that vote
  recorded.  `HardStateSync` turns what is recorded in storage into what the
  handler sees in memory.  Both assumptions are needed: section 3 has the
  counterexample without the first, and id 0 restores as "no vote".
- **`ElectionsSafe`**: `Spec => []ElectionSafety`, assuming `~LateResponses` as
  well (`StaleVote` refutes it otherwise).  `ElectionInv` adds: a node that has
  not restored is a follower of term 0 (`Unstarted`); every granted answer in
  flight is a vote its sender cast in that term (`GrantsRecorded`); the votes a
  candidate counted were cast for it in its term (`VotesCounted`); every leader
  has a quorum of votes (`LeadersElected`).  Two quorums meet in a node, which
  voted once.
- **`TermsMonotone`**: `Spec => TermsNeverDecrease`, an action property, assuming
  `~ServeBeforeRestore`.

`ElectionProofs` first sorts every step by what it does to elections
(`ElectionSteps`): *calm* (a node's vote state stays, or it moves to a higher
term without a vote), *standing* for election, *granting*, *counting*, restore,
shutdown and start.  The invariants are then proved over these seven kinds
instead of over every disjunct of every action.

### Leaders and logs

- **`HintsTrue`** (`LogProofs`): `Spec => []LeaderHintTrue`, in every environment,
  late votes, early serving and compaction included.  `LeaderInv`: a leader's
  election is in the history, every AppendEntries and InstallSnapshot in flight
  comes from a node that won the election of the request's term, saved terms bound
  the ones in memory.
- **`LeadersAppendOnly`** (`LogProofs`): `Spec => LeaderAppendOnly`, under the
  assumptions of `ElectionsSafe`.  A leader's log could only be overwritten by a
  request of its own term, which has one leader, itself.
- **`StoresStayAligned`** (`LogProofs`): `Spec => []StoresAligned`, assuming
  `~AppSnapshots`; RPCs may be late and repeated, with either cargo profile.
  `AlignInv`: every store is uncompacted and numbered from 1, every request's
  entries are numbered from `prev_log_index + 1`, no InstallSnapshot is in flight.
  With compaction the statement is false in a release build (section 3).
- **`LogsMatch`** (`LogProofs`): `Spec => []LogMatching`, under the assumptions of
  `ElectionsSafe` and `~AppSnapshots`, whatever is late or repeated among requests and whatever the batch
  size.  A log and a request are both *segments* (entries behind a known index and
  term).  `MatchInv`: any two segments agree up to each position at which their
  terms agree (`AllMatch`), each term in a segment was won by someone
  (`AllFormed`), nothing of a leader's term lies beyond its log (`LeadersAhead`), a
  node is elected in a term once (`Fresh`).  `LogMatching` alone is not inductive:
  a request keeps a piece of a log its sender may have lost since.

`LogProofs` sorts every step by what it does to logs and requests (`NodeStep`):
one log is kept, extended by its leader, overwritten by a request, replaced by a
snapshot or compacted; requests are lost, or sent from the leader's log as it is.
`LeastNumber` is the least-number principle for the naturals, from
the library's `WFMin`; it takes the set as a constant and not an operator, so that
the provers can use it, and it carries every induction over indices here.

### Refinements

- **`ElectionImplemented`**: `Spec => ImplementsElection`, under the assumptions of
  `ElectionsSafe`; a step of each of the seven kinds is a step or a stutter of
  `LeaderElection`.
- **`StorageImplemented`**: `Spec => ImplementsStorage`, assuming `~AppSnapshots`.  The
  vector of a node, numbered from 1, and the abstract set of entries change alike;
  the assumption is needed, as section 3 shows an older snapshot replacing a
  newer one.

### The search

`RaftNode` has the binary search of `first_index_of_term` as a relation; `RaftLoops`
has it as written.  They agree:

- **`SearchesFindFirst`** (`RefinementProofs`): `Spec => []SearchFindsFirst`, assuming
  `~AppSnapshots` and `~ServeBeforeRestore`: the search ends within its bounds, at an
  index `IsFirstIndexOfTerm` admits.  It rests on terms never decreasing along a log,
  a stretch of it in flight included (`RisingInv`, inductive with `AlignInv`).

What a recursive function computes follows from its equation only where some function
satisfies it.  `SearchSolution` gives one in closed form, and `LeastNumber` carries
the induction on the distance that is left.

### Service and time

- **`AppliesInOrder`** (`ServiceProofs`): `Spec => []AppliedInOrder`, assuming
  `~AppSnapshots` and that no node restarts (`SkippedApply` refutes it otherwise).
  The strengthening is `InOrder`: `last_applied` is the number of entries sent, and
  they are numbered 1, 2, ....  It holds even where commitment is unsafe: a commit
  index beyond the log, or below `last_applied`, sends nothing out of order.
- **`SoloAnswersTrue`** (`ServiceProofs`): for a cluster of one node,
  `Spec => []AckedIsCommitted`, with restarts, compaction and any other switch.
  `SoloInv`: the log is numbered from the snapshot on, the saved commit index lies
  in it, and every waiting caller's command is in it beyond the commit index, at
  the index it waits for.  For more nodes `StalePending` refutes the property.
- **`ClocksOnlyRestrict`**, **`NoOversleeping`** (`EventLoopProofs`): `TimedSpec => Spec`,
  so that every safety theorem above holds of the timed system; and
  `TimedSpec => []NeverOversleeps`, for any timeouts that `validate` accepts.
  `SleepInv` adds that no heartbeat is further away than the interval.
- **`TimelyElections`** (`EventLoopProofs`): `SlowSpec => []ElectionSafety`, assuming
  `~ServeBeforeRestore`, `ZeroId \notin Server` and `vote_wait < election_timeout_min`.
  `handle_vote_response` counts votes of earlier terms (`StaleVote`), and here RPCs take
  any time and elections cross; what is assumed is that a candidate gives up a vote
  `vote_wait` ticks after it asked.  `AwaitedInv`: each awaited election has less time
  left than the candidate has until its deadline, and is of the term it stands in.  So
  nobody stands again while a vote is awaited, and every vote a candidate hears is of
  its present term (`Timely`), which is all `ElectionInv` needs.  The assumption is not
  met by the code alone, which awaits answers without a limit.
- **`FollowersHear`** (`EventLoopProofs`): `TimedSpec => []LeaderHeard`, for any number
  of nodes in a full mesh and any timeouts `validate` accepts, assuming `~ServeBeforeRestore`,
  `ZeroId \notin Server` and `~AppSnapshots`, and, as `TimedSpec` does, that RPCs take no
  time: that is where elections are safe from late votes here (`VotesDue`).  `BeatInv`: no term is known to one node, or in flight, without being
  known to each other node or on its way to it in a RequestVote (`Spread`); a leader's loop
  sleeps until its heartbeat (`LeadersWake`); and each peer of a leader is in a later
  term, or has an AppendEntries of it coming, or follows it and heard from it since the
  leader's heartbeat deadline was set (`Heard`).  The proof sorts the handlers by what
  they do to terms (`TermsFrom`), to AppendEntries in flight (`Speaks`) and to the
  receiver (`Listens`).

### The client

- **`PingsDoNoHarm`** (`ClientProofs`): `ClusterSpec => PingsHarmless`, an action property, in
  every environment and for every list of members.  The client shares the nodes' network,
  so the types allow id 0 as the sender of an AppendEntries (`Sender`) and are shown to
  hold of the composed system (`ClientInv`); nothing but pings travels under id 0
  (`OnlyPings`), since `replicate_all` signs and cancels under the sender's id only.
- **`ElectionsSafeWithClients`** (`ClientProofs`): `ClusterSpec => []ElectionSafety`, under
  the assumptions of `ElectionsSafe`: a ping has no election behind it and moves nobody
  to another term.

### Commitment

`CommitProofs` proves, each as `HistorySpec /\ []Caught => ...` assuming `Orderly`:

- **`MatchIndexTrue`** (`MatchIndexSound`): a peer that has not moved to a later term
  holds the leader's log up to its `match_index`.
- **`LeadersComplete`** (`LeaderCompleteness`): a leader holds every entry that was
  committed in its term or before.
- **`CommittedStaysOnQuorum`** (`CommittedOnQuorum`): a committed entry is, and stays,
  in the storage of a quorum.
- **`CommitsOnce`** (`CommittedOnce`) and **`AppliesTheSame`** (`StateMachineSafety`): no
  index is committed with two entries, or sent on two nodes' `apply_tx` with two.
- **`CommitsWithinLog`** (`CommitWithinLog`), **`AppliesBehindCommit`**
  (`AppliedWithinCommit`), **`CommitsNeverRegress`** (`CommitNeverRegresses`): truncation
  never reaches below the commit index, so it stays in the log, ahead of
  `last_applied`, and does not move back while a node runs.
- **`BacklogsFit`**: `HistorySpec => []Caught` for a finite `Command` of at most
  `MaxBatch` commands, so the hypothesis holds of every cluster of any size whose
  requests have room for all there is to replicate, as in the runs `Replication` and
  `Compaction`.

*Assumptions.*  `Orderly` is the environment of `Replication`: `~LateResponses`,
`~RedundantRpcs`, `~ServeBeforeRestore`, `~AppSnapshots`, `ZeroId \notin Server`; nodes
crash and restart, RPCs are lost, links and elections are arbitrary.  The first
three and the last are needed (`StaleVote`, `DelayedAppend`, section 3).  `~AppSnapshots` is not known to be: with
compaction these properties are model-checked only.  `Caught` says that what a leader
has yet to send a peer fits in one request.  It is a hypothesis about the
behaviour and not a property of the code: `max_append_entries_size` limits a request
and nothing limits the backlog.  Without it the conclusions are false (section 3,
`MaxBatch = 1`): `append_entries` cuts the log off behind the last entry of the
request, and `next_index`, moved back to the first index of the conflicting term,
can make that a position before entries which the follower acknowledged to an
earlier leader.

*Argument.*  The inductive invariant is `CommitInv`, of four layers.

1. `MatchInv`, from `LogsMatch`: equal terms mean equal prefixes.
2. `ReplicaInv`: `ledger[t]` is the log of the leader of term `t` when it last led: the
   log `opening[t]` it was elected with, then entries of term `t`.  Every entry of a log
   was in the ledger of its term, with all that comes before it (`Rooted`).  A request is
   a piece of the ledger of its term that reaches past all its receiver acknowledged in
   that term; a match index was acknowledged.  An acknowledgement `<<p, t, i>>` stays true
   of `p`'s log, unless a leader of a term after `t`, up to `p`'s, was elected without the
   entry (`Kept`).  This is where `Caught` and `~RedundantRpcs` come in: what a request cuts off is not in the
   ledger of its term.
3. `VoteLayer`: whom `q` voted for holds what `q` acknowledged before, of entries
   leaders appended in their own terms, unless a leader in between was elected without
   them; so each opening is supported by a quorum (`ChosenGood`).  An index is `Sealed`
   when a quorum acknowledged an entry of the leader's own term there.  The least later
   term whose opening lacks it (`LeastNumber`) has no such leader in between, and a voter
   in common with the quorum that sealed it: a contradiction (`SealedIsKept`).
4. `CommitLayer`: every commit index, every `leader_commit` in flight, every entry in
   `committed` and every entry applied is `Settled`, i.e. lies at or below a sealed
   index in the ledger of the term that sealed it.  `SettledOnce` makes two of them at one
   index equal; a sealed index in a log cannot be cut off, since each request that may
   be accepted carries it (`BackedKept`).

The history variables cannot be done without: which log a node held when it
acknowledged or voted is lost when it is overwritten.  They restrict nothing
(`Remember` assigns each of them once, from the step), so the theorems hold of every
behaviour of `Spec` that satisfies `[]Caught`; this last remark, the usual one about
history variables, is an argument about `\EE` that TLAPS does not check.
`HistoryImplements` proves the other direction, `HistorySpec => Spec`.

### Only model-checked

- `AckedIsCommitted` has a theorem for a single node only, and is false for more.
- With compaction: `LeaderCompleteness`, `CommittedOnQuorum`, `CommitWithinLog`,
  `AppliedWithinCommit`, `CommitNeverRegresses`.
- Liveness under fairness (`AloneServes`, `StableLeaderSettles`) is out of the prover's
  reach.

## 5. Plan

1. **Compaction.**  `AppliedWithinCommit` and `CommitNeverRegresses` with `AppSnapshots`;
   the segments of `LogProofs` already start behind an arbitrary index and term.
2. **Logs among clients.**  `LogMatching` of `ClusterSpec`: a ping is an empty segment, but
   `RequestsFromLeaders` has to make an exception for it first.
3. **Failing storage.**  `save_hard_state` errors are logged and ignored
   (node.rs:828): a backend that fails, as a choice of the environment.

## 6. Not modelled

`RocksDbStorage` (a stub: every method is `unimplemented!()`); generated protobuf
code and tonic's channels (library code, seen as RPCs in flight); metrics (no
decision reads them); the chunk buffer of `on_install_snapshot` (the only sender
sends whole snapshots, so it is empty between handlers); read-only messages of
the loop (`GetLeader`, `GetTerm`, `ReadIndex`) and the two that only log; examples
and tests (drivers).
