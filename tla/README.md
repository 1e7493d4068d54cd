# A verification of go-practice

TLA+ models of the programs in this repository, checked with TLC; every safety
property that a passing run checks is also proved with TLAPS. Paths are relative to
the repository's root.

## 1. Inventory

The repository holds two systems with concurrency and shared state, Raft leader
election and a bank service, and a few smaller programs.

### Raft node (`internal/raft/node.go`)

* **State**: role, term, `votedFor`, `votesReceived`, the ticks at which a
  heartbeat was last received and sent, the outbox.
* **Operations**: `Step` with a `Tick` or one of four messages; each handler may
  change the role (`becomeLeader`, `becomeCandidate`, `becomeFollower`), fill the
  outbox, or panic with "split brain detected". There is no log and nothing is
  persisted: this is leader election only.
* **Interaction**: none of its own; whoever owns the node steps it and sends what
  the outbox holds.
* **Hard**: requests and answers of several elections in any order; what a node
  must remember when it changes roles within a term; majorities; timers that
  survive a change of role.
* **Correct when** a node votes once per term and never goes back, only granted
  votes are counted, a term has one leader, and a leader eventually emerges.

### Raft process (`cmd/raft/main.go`)

* **State**: a node, an unbuffered inbox, and the variable `tick`, which two
  goroutines share without synchronisation.
* **Operations**: `startTimer` adds to `tick` and sends a Tick into the inbox;
  `handleRpc` sends a peer's message into the inbox; `handleInbox` steps the node
  and sends each outbox message from a new goroutine, once, without retries.
* **Hard**: messages overtake each other, come late or never; `tick` may change
  between a Tick's sending and its handling; a panic ends one process only.

### Raft test cluster (`internal/raft_test/cluster.go`)

* **State**: the nodes, the disabled nodes, a message filter, the current tick.
* **Operations**: `Tick` steps every node and delivers messages in rounds until
  the outboxes stay empty; `DisableNode`, `EnableNode`, filters and sort orders.
* **Role**: the tests state what an election promises on this cluster.

### Bank service (`internal/bank`, `cmd/bank`)

* **State**: five PostgreSQL tables (currencies, accounts, account balances,
  account transactions, idempotency keys) and, in the database, row locks and a
  pool of connections.
* **Operations**: `CreateCurrency`, `CreateAccount`, `Deposit`, `Withdraw`,
  `Transfer`, each a sequence of statements of which some run before the
  transaction; the reads `GetCurrencies` and `GetAccountInfo`, one statement each.
* **Interaction**: HTTP handlers (`api.go`) run concurrently, call the service,
  and turn its error into a code; clients retry with the same idempotency key.
* **Hard**: lost updates, checks on stale reads, duplicate keys and lost answers,
  failure between two statements, deadlocks, pool exhaustion, integer overflow.
* **Correct when** it behaves like a ledger on which each request takes effect or
  is refused at one moment, at most once per key; balances are the sums of their
  transactions, nothing is overdrawn, money is conserved per currency, answers are
  true and every request is answered.

### HTTP server (`internal/httpserver`, `cmd/httpserver`)

* **State**: a listener, a goroutine per connection with a `bufio.Reader` and the
  `Request` it fills. `HandleFunc` stores handlers in a map that nothing reads.
* **Operations**: `Serve` accepts connections; `handleConnection` reads lines up to
  the empty one, then the body with a single `Read`, calls the handler, which
  writes head and body, and closes. Any read or write error, a body that one
  `Read` does not return in full, a first line without a space and a length that is
  negative or larger than memory end the process.
* **Hard**: bytes arrive in pieces; a client stalls, or leaves in the middle; what
  one connection does to the others.
* **Correct when** the handler gets exactly what was sent, the process ends only
  for those causes, and a complete request is answered whatever others do.

### Database change log (`internal/dbchangelog`)

* **State**: a table of entries, a trigger function, a trigger on every table that
  exists when `Setup` runs. Used by the bank's tests.
* **Operations**: `Setup` (three statements, called again by every test run), the
  trigger, `GetLogs`, `ToAsciiTreeString`.
* **Hard**: `Setup` next to running transactions, or failing halfway; entries of
  transactions that interleave or roll back; rows returned in any order.
* **Correct when** the log is the history of the tables, no statement fails because of
  a trigger, and the tree shows each transaction's changes once and in order.

### Smaller parts

| Part | Source | State and operations | Hard behaviour |
|---|---|---|---|
| Migrations | `internal/bank_migrations`, `cmd/bank_migrations` | table of versions; `Up`, `Down`, one transaction per migration | an interrupted run, two runs at once |
| Job queue | `cmd/jobqueue` | a bounded channel, one worker, a reply channel and a 5 s timeout per job | full queue, a late reply |
| Node talk | `cmd/nodetalk` | two nodes with unbuffered inboxes | none: the conversation is in lockstep |
| Bank configuration | `internal/bank/config.go`, `id_provider.go`, `time_provider.go`, `cmd/bank` | none that changes | none |

`PROJECT.json` lists the components with their status, and every hazard at the
line where it bites.

## 2. Plan

Done, in this order: `RaftNode`, `RaftCluster`, `RaftRounds`, `Bank`,
`BankMigrations`, `JobQueue`, `HttpServer`, `ChangeLog`; the abstract specifications
`BankLedger` and `LeaderElection`, with `Bank` and `RaftRounds` shown to implement
them; and the proofs: type correctness, the invariants of Raft, bank, migrations, job
queue and HTTP server, the two refinements, the sums of the bank, and the change log.

Nothing of the plan is left but liveness, which the prover cannot express. Worth
adding when the code grows: a log and persistence of the Raft node, and with them
restarts; limits on transfers, after which the hypotheses of section 5 become
theorems.

## 3. Modules and how they correspond to the code

```
RaftNode <- RaftCluster <- MCRaftCluster         Bank <- MCBank
         |                                        | implements
         <- RaftRounds  <- MCRaftRounds          BankLedger
                | implements
            LeaderElection                       HttpServer <- MCHttpServer
                                                 ChangeLog  <- MCChangeLog
BankMigrations <- MCBankMigrations               JobQueue
```

The theorems about module `M` are in `M_proofs`, which extends it. `RaftNode_proofs`
has the lemmas about the handlers on which `RaftCluster_proofs` and
`RaftRounds_proofs` rest; `Bank_proofs` and `RaftRounds_proofs` also prove the two
refinements, and the theorem about `LeaderElection` is in `RaftRounds_proofs`, next to
the refinement that makes use of it.

**`RaftNode`** has no variables. Each handler of `node.go` is an operator from a
node's state and a message to a result: the new state, the outbox, and whether it
panicked. The code keeps the ticks of the last heartbeats and only compares their
distance to the current tick with a timeout; the model keeps that distance,
saturated at the timeout.

**`RaftCluster`** runs a node in each process of `cmd/raft`. `TimerFires` is the
ticker in `startTimer`; `InboxTick` is `handleInbox` taking the Tick, with
`again` for the timer having advanced `tick` once more before it is read (the
data race on `tick`); four `Receive...` actions are `handleRpc` and `handleInbox`
with one message each; `Lose` is a `sendMessageToPeer` that fails. The history
variables `votes` and `counted` are read by no guard.

**`RaftRounds`** runs nodes the way `cluster.go` does: `TickAll`, then `Deliver`
and `Drop` for the messages of one round in any order, then `NextRound`.
`DisableNode` and `EnableNode` happen between Ticks; `Stabilise` marks the point
from which the test leaves the cluster alone. `votes` and `elected` are history.

**`LeaderElection`** is what an election promises: nodes cast votes, at most one in
a term, and become leader of a term with the votes of a majority of all nodes. It
has no roles, timers or messages. `RaftRounds` implements it (`ImplementsElection`)
with the variables of the same name; `votes` holds every `votedFor` a node ever had.

**`Bank`** has a process per HTTP request. A step is a statement another request
can notice: the queries before the transaction (`CreateCurrency`,
`CreateAccount`, `DepositOrWithdraw`, `Transfer`, `TransferToCurrency`), the reads
(`GetCurrencies`, `GetAccountInfo`), `Begin`
(needs a pool connection), the inserts that a unique index may block
(`InsertCurrency`, `InsertIdempotencyKey`), the `SELECT ... FOR UPDATE` of each
balance (`LockFrom`, `LockTo`) and `Commit`. The writes in between touch rows only
this transaction sees before `COMMIT`, so `Commit` applies them together, in the
order of the code (`Apply`, `UpdateBalance`). `Fail` is an error or timeout at any
statement, `CommitUnseen` a commit whose answer is lost, `DeadlockVictim`
PostgreSQL's deadlock detection, `Retry` the client sending the request again.
PostgreSQL is external, modelled from its use: READ COMMITTED, row locks to the
end of the transaction, and a unique insert that waits for another open
transaction's insert of the same key. Amounts are two's complement integers of
the width given by `Half`. IDs of accounts are unique (`NextID`), and there are as
many calls of `CreateAccount` as IDs (`UnusedIDs`, a bound).

**`BankLedger`** is what the service promises: a request is asked, takes effect
(`Perform`) or is answered without effect (`Answer`) in one step, and may be asked
again while its outcome is unknown. A refusal must be true, and an answer must show
the balances, at the step in which it is given. It has no transactions, locks,
connections or integer width. `Bank` implements it (`ImplementsLedger`): `body` is
what was asked, `answer` the outcome, `read` the balances shown, the tables are
themselves. Every step of `Bank` but `Submit`, `Retry`, the answers and the two
commits is a stutter.

**`BankMigrations`** has a process per call of `Up` or `Down` (`Start`), which makes
sure the version table exists, reads the highest version once
(`getMaxAppliedVersion`) and runs a transaction for each version up to its target
(`Up`, `Down`). A transaction is one action: PostgreSQL locks the table and the row
until its end. It succeeds only if the tables it refers to exist, other than
itself, or no other table refers to it (`CanApply`, `CanRevert`); otherwise, and at any other moment, the call ends
with `Fail`. Versions and references are constants; the run uses the five tables
of `migrations.go`. The history variable `overlapped` records that an Up and a Down
changed the database side by side.

**`JobQueue`** has a handler per job: `handleJob` sends it, `ReceiveReply` and
`Timeout` are the two cases of the `select`, `WorkerTakes` and `WorkerReplies` the
worker's loop. `queue` holds the channel's buffer and behind it the senders that
wait for room, which Go serves in order. A job that nobody refers to is used again
for a new request, so requests never stop coming. The length of the timeout is left
open: it may fire whenever the handler waits.

**`HttpServer`** has a goroutine per client. What a client sends is a sequence of
units: a whole line (`ReadString` waits for its end, however it is cut) or one byte
of the body. `arrived` units have come in, in pieces of any size (`Arrive`),
`filled` of them are in the `bufio.Reader`, `used` have been handed out. `Fill` is a
read of the connection, `ReadLine` and `EndOfHeaders` the loop of
`handleConnection`, `ReadBody` its single `Read`, `WriteHead` and `WriteBody` the
`ResponseWriter`. `Exit` is `log.Fatal` or a panic (of `make` for a length that
is negative or larger than `MaxMake`) and ends all of it. A client may
`Leave` at any time or send no more. `split` is history: a piece ended inside the
body.

**`ChangeLog`** has a process per transaction and one for `Setup`. `Write` changes a
row and runs the trigger in the same transaction; `Commit` and `Rollback` publish or
drop the rows together with their entries. `Setup` is its three statements, the
third a loop (`CreateTrigger`) that locks one table after the other and shows its
triggers when it ends (`SetupReturns`); `SetupFails` may come between any two.
PostgreSQL is external here too. `GetLogs` and `ToAsciiTreeString` are operators: the
entries are sorted by time (`ByTime`), grouped by transaction (`Group`) and the groups
sorted by the text of the ID, digit by digit, as the code sorts strings (`KeyBefore`).
A sort is stated by what it gives (`Sorted`): the n-th element has n - 1 before it.

Operators named `<definition>_<what goes wrong>` are mutants: faulty variants,
used by no specification, with which each property was seen to fail.

## 4. Runs

| Run | Expected | What it shows |
|---|---|---|
| `raft_cluster` | pass | On an asynchronous, lossy network: one vote per node and term (`VoteOncePerTerm`), `votesReceived` counts different, granted votes (`VotesReceivedAreGranted`), leaders elected by votes of their term are unique (`SplitBrainNeedsStaleVote`), terms and votes never go back (`TermsAndVotesOnlyAdvance`). |
| `raft_split_brain` | violation | `NoSplitBrain` fails: a late vote is counted in the next election. |
| `raft_rounds` | pass | In the test cluster, whatever is dropped and disabled: no term has two leaders (`ElectionSafety`), the rounds implement the abstract election (`ImplementsElection`), and after any disturbance a leader emerges for good (`SettlesOnOneLeader`). |
| `raft_even_cluster` | violation | `ElectionSafety` fails for four nodes. |
| `bank_moves` | pass | Three concurrent requests, with failures, lost answers and retries: balances match rows, no overdraft, one effect per key, true answers, and all of it is what the ledger allows (`ImplementsLedger`). |
| `bank_setup` | pass | Currencies and accounts are created while others use them, opposite transfers, transfers between currencies, reads, on two connections: money is conserved per currency, the ledger is implemented, and every request is answered without a timeout. |
| `bank_negative_transfer` | violation | A negative transfer takes money from the receiver. |
| `bank_self_transfer` | violation | A transfer to oneself creates money. |
| `bank_migrations` | pass | Concurrent, failing Ups and Downs: rows and tables agree (`AppliedMatchesTables`), versions have a gap only if an Up and a Down overlapped (`GapNeedsOverlap`), and a call that returns nil has done its work (`NilMeansDone`). |
| `job_queue` | pass | No job is lost or done twice (`JobInOnePlace`), and every request is answered even if no timeout fires (`EveryJobAnswered`). |
| `http_server` | pass | The handler gets what was sent (`RequestAsSent`), the process ends only for the causes the code has (`ExitNeedsCause`), a complete request is answered although others stall (`CompleteRequestAnswered`). |
| `change_log` | pass | The log replays to the tables (`LogReplays`); no table has a trigger that cannot run (`TriggersWork`); the tree does not depend on the order of the rows and shows every change of a transaction in order (`TreeShowsTransactions`). |

### Bounds

* `raft_cluster`: three processes, timeout 1, heartbeat interval 0. A heartbeat that
  overtakes a blocked Tick keeps it from being a timeout, unless `handleInbox` reads
  the tick after it: the data race matters here (with a timeout of 0 it would not). Ticks
  come as often as they like, so that elections come in every order that some
  timeouts would allow. `MaxTerm` 2
  and `MaxInFlight` 3 are enough for two elections of two candidates each, a vote
  that outlives its election and two leaders of one term that meet: the violation
  in `raft_split_brain` has the same bounds. At `MaxTerm` elections stop, which
  the code does not do, hence `CHECK_DEADLOCK FALSE`.
* `raft_rounds`: timeouts 2, 3, 4 and interval 1, the order of the tests' 3, 5
  and 7. Drops make any two nodes candidates of one term, a deposed leader and a
  failed election possible. Disturbances last up to term 2; after that terms are
  bounded by `MaxStableTerm` 9, which is never reached: deadlock is checked, and a
  Tick stopped by the bound would be one. `raft_even_cluster` has two nodes that
  time out together and needs one term only.
* `bank_moves`: three requests over five bodies cover two writers of one row with
  a third that shares a key with one of them, reads it, or repeats a request without
  key; two attempts cover a retry after a lost answer. `Half` 8 leaves room for
  every sum. Requests are symmetric.
* `bank_setup`: ten bodies and a free ID for every account that can be created; one
  attempt, since a retry is a new request to answer. No symmetry, because of the
  liveness property.
* `bank_migrations`: no bound on the number of calls. Two processes are enough for
  every pair of calls to overlap; the targets are those of the command and the
  test (999 and 0) and one in between. All five versions are reached, and `Up(999)` and
  `Down(0)` return nil. A gap really arises when calls overlap: a Down that has read 3
  as the highest version drops table 3 after an Up has created table 4, which does not
  refer to it, and leaves 1, 2 and 4.
* `job_queue`: four jobs and a buffer of two, so that one job can be at the worker
  and one sender blocked; no bound on the number of requests.
* `http_server`: two connections, of which one sends any of ten streams, right and
  wrong, and the other a request with a body of two bytes; the reader holds five
  units, so that one stream does not fit, and `make` allocates five bytes, so that one
  length is too large for it. The system stops when its clients do or
  the process ends: `CHECK_DEADLOCK FALSE`.
* `change_log`: two tables of one row, three transactions with four statements
  together, two calls of `Setup`. Two writers of one row with a third of the other
  table, before, during and between the calls; IDs from 9 on, so that strings sort
  differently from numbers. Transactions end, hence `CHECK_DEADLOCK FALSE`.

### Fairness

* `RaftRounds`: weak fairness of `Progress`. The loops of `Tick` run to their end
  and the test ticks again. Nothing forces a disturbance or `Stabilise`.
* `Bank`: weak fairness of the requests together: while some request can run its
  next statement or a deadlock is to be broken, that happens for one of them.
  Goroutines are scheduled, PostgreSQL grants a free lock and breaks cycles.
  Failures, timeouts and clients are not assumed to do anything.
* `JobQueue`: weak fairness of the worker and of each handler's receive. Goroutines
  are scheduled; nothing is assumed of timeouts.
* `HttpServer`: weak fairness of the accept loop and of each connection's own steps.
  Clients are not assumed to send anything more.
* `RaftCluster`, `BankMigrations` and `ChangeLog` have none: only safety is stated there.

## 5. Proofs

Every theorem holds for all values of the constants that satisfy the named
assumptions of the modules: any finite set of nodes, timeouts and bounds
(`NodeAssumption`, `TimingAssumption`, `BoundsAssumption`), any requests, accounts,
currencies, keys and connections (`BankAssumption`), any migrations
(`MigrationsAssumption`), jobs and capacity, clients, streams and reader size
(`ServerAssumption`), tables, rows, transactions and calls of `Setup`
(`ChangeLogAssumption`). Where a theorem needs more, it says so as a hypothesis, and
section 6 shows that the code needs it. `TypeCorrect`,
the type invariant, is proved for all seven specifications below that have one. TLC
had checked `CountInv`, `LeadersWon`, `RoundInv`, `ServerInv`, `RowsInv`, `ReplayInv`,
`TimesInv` and `ObjectsInv` on the runs' instances before they were proved.

### `RaftCluster_proofs`

* `NodesOnlyAdvance`: `Spec => TermsAndVotesOnlyAdvance`. One lemma per handler
  (`RaftNode_proofs`) shows that its result is ahead of the node's state: a higher
  term, or the same term with leadership and vote kept.
* `VotesOncePerTerm`: `Spec => []VoteOncePerTerm`. The property is not inductive:
  it says nothing of what a node remembers, and a node that forgot its vote could
  vote again. `VoteInv` adds `VotesMatchNodes`: no recorded vote is of a later term
  than its voter's, and one of the voter's present term is the voter's `votedFor`.
  The step cases only have to look at the one vote that a step adds.
* `VotesCountedWereGranted`: `Spec => []VotesReceivedAreGranted`. A vote would be
  counted twice if it came in two messages. `CountInv` says that it cannot: the vote
  that a request under way asks for has not been counted (`RequestOpen`), a granted
  vote under way is a recorded vote that has not been counted (`GrantOpen`), a request
  and the vote it asks for are never under way together (`OneUnderWay`), and
  `votesReceived` is the number of votes counted (`CountOf`).
* `OddClustersSplitOnlyByStaleVotes`: `Cardinality(Node) % 2 = 1` implies
  `Spec => []SplitBrainNeedsStaleVote`. A leader has counted enough votes
  (`LeadersWon`); if all were of its term, they and those of the other leader are
  two majorities of an odd set, share a voter, and a voter votes once. In clusters
  of even size the halves need not meet, which `raft_even_cluster` shows.

### `RaftRounds_proofs`

* `ElectionIsSafe`: in a cluster of odd size, `Spec => []ElectionSafety`.
* `RoundsImplementElection`: in a cluster of odd size, `Spec => ImplementsElection`.
  A `TickAll` maps to a step in which every new candidate votes for itself (and, if it
  is alone, is elected), a delivery to one that casts a vote or elects a leader, all
  else to a stutter.

  Both rest on `RoundInv`. The test cluster delivers all messages of a Tick before
  the next one, so that no vote survives its election: a request or granted vote
  under way is of the candidate's present term as long as it is a candidate, and the
  vote is recorded (`MessagesOpen`); requests and answers are of different rounds
  (`RoundsInOrder`), a request is answered once (`AnsweredOnce`), and a candidate has
  counted no more than its supporters in its present term whose vote is not under way
  (`CandidatesCount`).
  From this a leader has a majority of its own term (`ElectedByMajority`), the
  conjunct that fails on the asynchronous network.
* `LeaderUnique`: `Election!Spec => []Election!OneLeaderPerTerm`, a theorem about
  `LeaderElection`, for any finite set of nodes. The
  invariant says that votes are one per node and term and that every leader still
  has its majority. Two leaders of a term then share a voter (`MajoritiesMeet`).

### `Bank_proofs`

`BankInv` says for every request what it holds at each label (`RequestInv`): the
locks it has taken, and that what it has read under a row lock is what is stored.
It also says that the keys in the table are those of requests that took effect
(`KeysInv`), that only attempts that were made took effect, and none of a request that
is still on its way (`AppliedInv`), that IDs in use differ (`DistinctIDs`), and that accounts have their currency.

* `KeysTakeEffectOnce`: `Spec => []AppliedOncePerKey`. Only the holder of a key's
  lock commits it, and only if it is not in the table.
* `AnswersTrue`: `Spec => []AnswersAreTrue`.
* `NeverOverdrawn`: `Spec /\ []CreditsFit => []NoOverdraft`, if clients transfer no
  negative amounts (`NoNegativeTransfers`).
* `ServiceImplementsLedger`: `Spec /\ []CreditsFit => ImplementsLedger`, if clients
  also transfer nothing to the same account (`NoSelfTransfers`). `Submit`, `Retry`,
  the answers and the two commits map to steps of the ledger; every refusal is shown
  to be true at the step that gives it.

* `BalancesAreSums`: under the same hypotheses, `Spec /\ []CreditsFit =>
  []BalancesMatchTransactions`. A commit adds rows that nobody else has (`RowsInv`: every
  row is of an account there is, and its ID names an attempt that took effect), and
  changes each balance by what it adds there (`CommitTables`, `RowsAdded`).
* `MoneyConserved`: under the same hypotheses, `Spec /\ []CreditsFit =>
  []MoneyConservedPerCurrency`. A transfer takes from one balance of a currency what it
  gives to another (`CommitHeld`), and its rows are not paid in or out (`CommitPaid`).
* `TransfersDeductAndCredit`: under the same hypotheses, `Spec /\ []CreditsFit =>
  TransferDeductsAndCredits`. The run `bank_negative_transfer` violates this property;
  the theorem says that there are no other causes than those the hypotheses name.

The sums are the folds of the community modules. The library's induction takes an
operator, which the provers cannot instantiate; here induction is stated of a set
(`NatSetInduction`, `SubsetInduction`: a set that has `{}`, and with a subset also the
subset with one more element, has the whole), with the set of those subsets of which
the claim holds. From it follow that the fold exists (`FoldExists`), that it does not
depend on the order of CHOOSE (`FoldAny`) and what one more element adds (`SumAdd`,
`HeldAdd`, `HeldChange`).

`CreditsFit` says that a credit about to be committed stays in the range of int64.
The code tests none of the three hypotheses; without them the properties fail
(section 6). The proof of `ServiceImplementsLedger` found one fault of the model:
two arms of the CASE in `UpdateBalance` overlapped for a transfer to oneself, where
the code's second write wins. They exclude each other now.

### `BankMigrations_proofs`

* `RowsMatchTables`: `Spec => []AppliedMatchesTables`.
* `NoGapWithoutOverlap`: `Spec => []GapNeedsOverlap`. That there is no gap is not
  inductive: a call deep in its loop could still create or drop a table in the
  middle. The inductive invariant `IInv` says that, without an overlap, the applied
  versions are `1..m` for some `m`, every Up in its loop is at `m + 1` or below it and
  every Down at `m` or above it (`Height`). So an Up that succeeds creates table
  `m + 1`, a Down drops table `m`, and all other loops of the same kind stay in
  place. What a call reads when it starts is `m` (`MaxAppliedIsHeight`).
* `NilIsDone`: `Spec => NilMeansDone`, from the same invariant.

### `JobQueue_proofs`

* `JobsInOnePlace`: `Spec => []JobInOnePlace`. `PlaceInv` speaks of all jobs, also
  of those that timed out and are still queued: a job is queued once, and queue,
  worker and replies have none in common.

### `HttpServer_proofs`

`ServerInv` follows a connection through `handleConnection`. While it reads lines,
the `Request` holds what the lines so far say: the path of the first, the value of
the last Content-Length (`LinesRead`). Then `used` is the end of the headers
(`HeadersRead`), and when the handler runs, the end of the body (`Handled`). A piece
that ends inside the body is recorded in `split`, and a reader that ends there has
taken such a piece or is full (`PiecesSeen`).

* `RequestsArriveAsSent`: `Spec => []RequestAsSent`. The first empty line that the
  reader meets is the first of the stream (`HeaderEndIs`), and each line extends
  what is known of the length (`LastLengthGrows`, `DeclaredIs`).
* `ExitsHaveCause`: `Spec => []ExitNeedsCause`. Each way to `Exit` has its cause; the
  hard one is the short `Read` of a body, which ends where the reader or what has
  arrived ends, hence inside the body (`AtReadBody`, `PiecesSeen`).

### `ChangeLog_proofs`

* `LogIsHistory`: `Spec => []LogReplays`. Of the committed log alone this is not
  inductive. `ReplayInv` adds what the open transactions hold: a transaction has locked
  the rows it wrote, in no table that `Setup` has locked (`WriterInv`), and its entries
  of a row are later than the row's committed history and lead from the committed row
  to the row it sees (`EntriesInv`). A commit then joins two histories of which one is
  later (`ExplainsUnion`); a statement adds one entry at the end.
* `TriggersNeverFail`: `Spec => []TriggersWork`. `ObjectsInv` adds what each statement
  of `Setup` finds: the log table before the function, both before the triggers.
* `TreeIsRight`: `Spec => []TreeShowsTransactions`. `TimesInv` says that the entries,
  committed or not, are finitely many and no two have the same time. For such a set the
  tree is a function of the set (`TreeIs`), whatever the order of the rows. It rests on
  two groups of lemmas. In a finite set with a total order the number of elements below
  one, its rank, takes every value once (`RankCovers`), so that `Sorted` gives each
  element once and in order (`InRankSorts`). And the texts of IDs are in a total order
  (`KeysOrder`): the recursion of `digits` has a solution (`DigitsAre`), different
  numbers have different texts (`DigitsDiffer`), both by the induction on sets above.

### Only model-checked

Liveness under fairness, which is out of this prover's reach: `SettlesOnOneLeader`,
`EveryRequestAnswered`, `EveryJobAnswered`, `CompleteRequestAnswered`.

## 6. Where code and tests disagree

1. `internal/raft/node.go:225` counts a granted vote whatever its term, so a vote
   of a candidate's earlier election can make it a second leader. Without such
   votes it cannot happen (`SplitBrainNeedsStaleVote`).
2. `internal/raft/node.go:227` halves the number of peers: no majority of a
   cluster of even size.
3. `internal/bank/service.go:331` lets a negative transfer pass. Without these, self
   transfers and overflow every transfer does what its test says
   (`TransfersDeductAndCredit`).
4. `internal/bank/service.go:417` overwrites the first update of a transfer from
   an account to itself.

`internal/bank/service.go:212` does not check for overflow either: with a deposit of
`Half - 1` on a funded account `ImplementsLedger` fails. Nothing in the repository says
otherwise. The runs keep every sum in range, and the theorems name the condition
(`CreditsFit`).

## 7. Not modelled

* A restarted Raft process: nothing is persisted and the code has no recovery, so
  a restart is a new node with an old ID; no part of the code claims that this
  works.
* Two equal heartbeats under way at once are one message in `RaftCluster`; they
  have the same effect and the code does not count them. Ticks that advance the
  test cluster by more than one unit are several Ticks here.
* The bank's timestamps, account names, decimals, JSON and HTTP text, and the
  generator of IDs (external, unique).
* The bank's configuration and wiring: straight-line code that runs once and keeps
  no state. Two things were met while reading it: `config.MaxConns` is set on a
  configuration that the pool is not built from (`cmd/bank/main.go:44`), so that
  `dbMaxConnections` has no effect; and `LoadConfig` returns an error if the file of
  an environment does not exist (`internal/bank/config.go:55`), with a configuration
  that nobody uses then.
* Node talk: one request is under way at any time and its answer is buffered, so the
  program has one behaviour.
* How long things take in the job queue (500 ms per job, 5 s timeout).
* The text of HTTP headers (a line is one of a few kinds), and requests whose first
  empty line never comes other than by a stalled or closed connection.
* An `UPDATE` that changes a primary key, which the repository has none of; its entry
  would name the new key only.
* How `ToAsciiTreeString` draws an entry; a `GetLogs` whose connection breaks while it
  reads, which returns no entries and no error (`internal/dbchangelog/db_change_log.go:202`); tables that are created after `Setup`, and
  `TRUNCATE`, which fires no row trigger: neither is logged, by design of the SQL.
