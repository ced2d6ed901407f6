# Handsel: a TLA+ development

Handsel is a market in which a requester escrows a bounty for a task, a worker (usually a software
agent) accepts and delivers it, a grader or the requester judges the delivery, and the escrow is
settled against that verdict. The escrow lives in smart contracts; everything else - dispatching
work, grading, retrying settlements, raising the price of unclaimed jobs, withdrawing balances - is a
TypeScript service (`lib/`, `app/`) running as short-lived serverless invocations over one Postgres
database. No process is long-lived: the periodic work is a list of sweeps (`lib/ops-cycle.ts`) run
by a cron and, opportunistically, by ordinary page views, so several copies of it may run at once
and any of them may be killed between two statements.

This directory states what must hold of that system, checks it with TLC on small instances and, for
eight of its parts, proves most of the safety it states with TLAPS for every value of the parameters.

## Inventory

| Part | Source | State it keeps | Operations | What is hard |
|---|---|---|---|---|
| **LaborMarketV2** | `contracts/src/LaborMarketV2.sol` | job records, `totalEscrowed`, `withdrawable`, the token balance | post, accept, submit, assign a payee, approve, dispute, resolve, cancel, three kinds of expiry, reclaim, withdraw; views | seven ways to settle one job, a bond beside the bounty, a lien that must be paid first, four clocks, parties that disappear, a token that may refuse a transfer |
| **Price raise** | `lib/price-raise.ts`, `lib/ops-lease.ts`, `lib/ops-cycle.ts` | `job_spec` rows (intent, parent, on-chain id), a lease | sweep, cancel-and-repost, resume an interrupted raise | two money-moving steps with a crash in between; transactions whose fate is unknown; concurrent sweeps |
| **Claim and dispatch** | `lib/labor-dispatch.ts`, `lib/job-reservation.ts`, `lib/auto-mine.ts`, `lib/mining-scheduler.ts`, `lib/agent-tasks.ts` | the claim and the link on `job_spec`, `agent_task` | claim, accept, dispatch, link, reap a silent run, heal a job that is held and not worked | a claim that expires while its holder works, an accept whose fate is unknown, a heal that acts on a status read earlier |
| **Settlement queue** | `lib/callback/settlement-queue.ts`, `settlement-drain.ts`, `settle.ts` | `settlement_queue` rows | enqueue, claim, complete, defer | at-least-once execution, a lock that times out, a process that stops between statements |
| **Grading and settlement** (partly) | `lib/callback/labor-market.ts`, `lib/grading-retry.ts`, `lib/labor-settle.ts` | `agent_task`, `job_spec` | grade, retry, submit, approve, repost, re-grade | verdicts that arrive twice, transient grader failures |
| **Deadline and withdrawal sweeps** | `lib/deadlines.ts`, `lib/deadline-sweep.ts`, `lib/withdraw-sweep.ts` | leases | call the contract's permissionless exits | bounded batches, entries that keep failing, passes that die |
| **Disputes** (partly) | `lib/dispute-gate.ts`, `lib/appeal*.ts`, `lib/adjudication.ts` | `dispute_ruling` | rule, refund, publish | a verdict against a timeout; a ruling published for a refund that did not happen |
| **Spending limits** | `lib/spend-envelope*.ts`, `lib/x402-tool-server.ts`, the funding and bonding paths | a ledger of spends, reservations | check, reserve, pay, record | check-then-act under concurrency, an unreadable ledger, a payment that times out after it was made |
| **Delegation** (partly) | `lib/delegation.ts` | `delegation` rows, leases | confirm, post a wave, scan, grade, post what waited, save | whole-row saves of a row read before the lease, posts whose outcome is unknown |
| **Advances** (partly) | `lib/advance*.ts`, `lib/onchain/advance-chain.ts`, `lib/orchestration-risk.ts` | `agent_advance` rows, the lien on the job | quote, pledge, check, transfer, record | money and lien moved by different accounts in different transactions |
| LaborMarket (V1), VerifiedTaskEscrow | `contracts/src/` | as V2 without bonds, liens, expiries | the same, fewer | no exit for a silent party; superseded by V2 |
| Agent credit | `contracts/src/AgentCredit*.sol`, `lib/credit-engine`, `lib/credit-reconcile.ts`, `lib/loan-sweep.ts` | scores, loans | recalculate, draw, repay, default | idempotent recalculation from an event log |
| Solana market | `solana/programs/handsel-market` | job accounts and vaults | as V2 | the same promises over another ledger |
| Social queue | `lib/social/*` | publication jobs | claim, publish, retry | at-most-once publication |
| Office sessions | `lib/session*.ts`, `lib/office-session*.ts` | turns | start, stop | a loop of model turns |
| Web application, MCP servers, desktop client, worker runtimes, SDKs, extension | `app/`, `components/`, `lib/mcp`, `desktop/`, `agent-runtime/`, `worker-npm/`, `sdk/` | presentation, transport | - | I/O around the parts above |

The parts in bold are modelled.

How they meet: the contract is the only place money moves, and everything off-chain learns its state
by reading `jobs` and acts by sending transactions (UserOperations through a bundler). A transaction
has four outcomes for its sender: seen mined, refused before it was sent, given up on while it may
still land, and mined but reverted, which `lib/onchain/account.ts` does not tell from the first.
Every module that sends one has all the outcomes that bear on it. Off-chain parts share `job_spec`,
`agent_task` and a table of leases, and call one another only through those.

What makes each part correct:

- *LaborMarketV2*: no settlement route forgets or repeats its part of the bookkeeping; a settled job
  is final; a lien is paid first; a bond answers only for not delivering; silence never pays the
  silent party; every locked unit has a way out that needs nobody in particular.
- *Price raise*: money is escrowed again only after it came back; one piece of work never has two
  live jobs; a raise that was interrupted is finished.
- *Claims*: one worker at a time is sent to accept; the work is done once at a time, judged while it
  is still the work the job is linked to, and submitted by whoever made it; a job accepted on chain
  is worked or returned.
- *Settlement queue*: two drains never share a task; a stored deliverable always has somebody to
  settle it; every row is closed in the end; the worker is credited once.
- *Sweeps*: every due exit and every collectable balance is reached, although passes are capped and
  die; no refund is published that nobody sent.
- *Spending*: what an agent spends in a day stays within the ceiling it was granted.
- *Delegation*: one subtask, one escrow; every escrow is followed; a plan never rests for ever.
- *Advances*: money moves only onto a lien, and one lien secures one advance.

## Modules

| Module | What it is |
|---|---|
| `EscrowLedger` | The abstract promise of any escrow: units sit in one pot, owed to one account, or lost; a pot is closed once and pays exactly what it held. |
| `LaborMarketV2` | The contract: one action per external function, the views as operators. |
| `LaborMarketV2Props` | Its type, safety, action and liveness properties, and the refinement mapping to `EscrowLedger`. |
| `LaborMarketV2Watch` | The contract with a watch on its keepers: a history of whether the clock ever moved past an open exit (`late`), and `DiesOfOldAge`. |
| `PriceRaise` | `lib/price-raise.ts` with its lease and its two callers, over a chain reduced to the status of each job and a mempool of operations in flight. |
| `ClaimDispatch` | One job on its way to a worker: claim, accept, run, callback, settlement, and the self-heal of a mining agent. |
| `SettlementQueue` | The runtime callback, the drain and the steps of one settlement, over `agent_task`, the queue row and the job on chain. |
| `KeeperSweeps` | The three steps of the ops cycle that call the contract's exits: dispute gate, deadline sweep, withdrawal sweep. |
| `SpendEnvelope` | The day's ledger of one agent and the paths that consult it. |
| `DelegationTick` | A plan, its row, and the invocations that confirm and tick it. |
| `AdvanceDesk` | `openAdvance` on top of `LaborMarketV2`: it extends the contract, and each of its transactions is a step of it. |
| `MC...` | Instances for TLC, one per component; `MCMarketLive` adds fairness to the watched contract. |
| `SumLemmas` | Sums over finite sets and the induction they need, for the proofs. |
| `..._proofs` | The theorems about the module of that name; `MarketAndDesk_proofs` has those of `LaborMarketV2`, of its watch and of `AdvanceDesk`, whose proofs use one another. |

Names ending in `_slip` are plausible mistakes kept beside the definition they vary: each property
was seen to fail when its slip takes the definition's place, which shows that the property depends
on the code and not on the shape of the model.

### LaborMarketV2

The variables are the contract's storage (`jobs`, `jobCount`, `totalEscrowed`, `withdrawable`,
`totalWithdrawable`), the token as the contract meets it (`held`, its balance; `blocked`, the
accounts a transfer is refused to; `stray`, tokens sent to it by mistake), the clock `now`, and two
histories that no guard reads (`credits`, what each settlement paid to whom; `burned`, what the
forfeits took). An action is a call that succeeds, the whole of it, since a transaction that reverts
changes nothing; a precondition that reverts is a conjunct. `settle` is the internal function every
route ends in, with the waterfall of `_payWorkerSide`; `exit(j)` is the disjunction of the four
permissionless exits. Amounts are integers with the contract's rounding; widths are left out because
the token's supply is far below them. Ratings, metadata and events are left out.

`LedgerSpec` maps a job to a pot holding its bounty, and its bond once it is accepted, and checks
that every step is a step of the ledger or a stutter.

### PriceRaise

A row is a posting of a piece of work: the row it replaces, the id of its job once it is linked, and
its age. `WriteIntent`, `SendCancel`, `SendPost` and `Link` are the statements of `raisePrice`
between which the code awaits; `StartResume`, `ReadChain`, `ReadLinks`, `Backfill`, `LeaveAlone` and
`Repost` are those of `resumeOrphanedRaises`: the chain is read first and the parents' links after it,
both once for the whole pass. The rows of a pass come from a query without an order, so `todo` is a
set and the next row is a choice; the batch of a resuming pass is any of its size. Sending an operation puts it in `mempool`; it lands, reverts, or is
dropped, and its sender is told, gives up after `WAIT` (`GiveUp`), is told of an error that is no
timeout (`ReceiptError`), or dies first. After the third of these the operation belongs to nobody
(`Disown`) while `retry` or `retryRpc` may send another (`Failed`), so a posting may land twice. An
operation that reverts as it is mined is taken for one that landed (`vain`). One operation lands at
most once whoever is waiting for it; the account's nonces are abstracted to that, and two operations
of one account may land in either order. `Market` is everyone else: a worker accepts, the requester
pays, the job expires.

### SettlementQueue

One process per callback and per drain. `Claim` to `enqueueSettlement` is the callback's own part;
the settlement in the middle is shared: `Read`, then `Retry`, `Refuse`, or `Submit` - `Record` -
`Event` - `Pay`, then `Credit`, in the order of `settleLaborMarketJob` and `settleTask`, with
`Throw` wherever the code may throw past them and `Swallow` where it catches. `completeSettlement`
and `Count` - `Backoff` close or defer the row; the deferral is two actions because it is two
statements. A grader's verdict is a choice. The row's lock and its wait are counters that `Tick`
brings down. `events` counts JOB_TESTS events and stops at two. `returned` and `swallowed` are
histories: the submissions whose `settleTask` returned, and those of them for which it returned only
because `settleLaborMarketJob` caught what was thrown; `concluded` is the difference, a settlement
that ran to its end. `unlocked` is a third, the tasks whose lock a deferral released.

Only a V2 market is modelled: there a failed grade leaves the job to its deadlines
(`lib/dispute-policy.ts`). The sweep that re-grades stuck jobs is not in the model; the reaper of
stuck tasks is in `ClaimDispatch`.

### ClaimDispatch

`job` is the job on chain, `spec` the row of `job_spec` with its claim and its link, `tasks` the runs
started for it, `proc` the requests (of `acceptAndDispatchJob`, `acceptJobForExternalWorker` and
`autoMineTick`), `ops` the operations nobody waits for any more. `claimJobSpec` and `Expire` are the
claim and its 90 seconds; `Accepted`, `Refused`, `InVain` and `Pending` the four outcomes of the
accept, the last two of which start the work on a job that may be another's. `Insert`, `InsertFails`
and `Link` are `dispatchAcceptedJob`. A run delivers, fails, falls silent or is reaped, and what it delivers is judged
twice over: by its callback and by a drain of its queue row (`Drain`), which does not see the
callback at work. A judge ends in `SendBack` and then `Redispatch` or `RetryFails`, in `Settle`, in
`SubmitPending`, or dies (`SettlementDies`), also between the verdict and the redispatch; that is
`settleLaborMarketJob` up to its submission (what follows is `SettlementQueue`). `HealSubmit` and
`HealDispatch` are the sweep of a miner: submit what was finished and not submitted, or start what is
missing or dead. `Cooldown` goes by the task's last update alone, whatever stage its settlement is at.
The histories say what the properties except: `blind` a run started on an accept not seen to succeed,
`doubled` one started past an outdated read, `late` the runs whose cooldown passed before they were
settled, `astray` what a sweep submitted or a drain judged while it was being settled, or was sent
back without its worker being told.

### KeeperSweeps

An invocation of `runOpsCycle` goes through its steps in order; each takes its lease, reads its batch
in the order of the code (disputes by id, exits by deadline, balances by size), cuts it at the cap,
and works through it one entry and one transaction at a time. `acquireOpsLease` passes over a
step whose lease is taken, `Skip` ends a cycle that ran out of its budget, `CallFails` and `Crash` are
what may go wrong in between. The
dispute gate sends its refund without waiting for it (`mempool`) and then publishes the ruling.
`Blocked` and `Held` are entries that fail every time.

### SpendEnvelope

`gradeSpend` is the pure judgement; `checkSpend` applies it to the sum of the day, `CheckBlind` to
zero when the ledger cannot be read; `Transfer` and `recordSpend` follow it in the paths that check
first and write afterwards. `KeepUnchecked` is a bond that a mining tick stakes without asking
(`unchecked`). A paid tool call reserves its price under a lock (`reserveSpend`), signs
(`Select`) and pays through a facilitator that may settle at any time from then on
(`FacilitatorSettles`): after the call was given up (`TimeOut`, which keeps the reservation), after
its row was written (`settleReservation`), and after a receipt denied the payment (`ReceiptFails`,
which releases the reservation; `disowned`). An agent without a readable envelope has the
platform's (`envelopeFor`). `before` and `alongside` remember which spends of its day each one
came after, and which of those were still under way. The window is 24 hours that roll, so the
clock is a number of instants of which `DAY` make the window.

### DelegationTick

`row` is the delegation as stored, `caller` the invocations with the copy each one read. A caller
reads (`Read`), takes its lease (`acquireOpsLease`), and only the confirmation reads again
(`beginConfirm`). `scan` and `Grade` are the tick's pass over the market, `cascades` what an input
that failed does to what waits for it, `PostWave` and `PostDependent` the two ways of escrowing,
`afterSubtaskPost` what is known afterwards, and `Save` the whole-row write. What a pass is shown of
the market is one of its `Views`: the tick works on a snapshot taken before its lease, through a
cache and whatever node answers, so any of the jobs may be missing from it. An older state of a job
that is shown tells a pass no more than its absence would. `Market` keeps `Expired`
apart from `Refunded` and `Completed`, since no branch of the tick reads it (`observed`), and takes
jobs off as a price raise does, too. `Repost` is the replacement of a returned job, which `lib/labor-settle.ts` or
`lib/price-raise.ts` posts a moment after the refund. `lost` is a subtask with a hash and no id.
`excused` names the subtasks whose record was upset by one of the causes listed under *Observations*.

### AdvanceDesk

A request goes through the statements of `openAdvance`: `Quote` (the judgement of
`orchestrationLtv`, `advanceLimit` and the fee, in cents), `InsertRow`, `SendAssign`, `Verify`,
`SendPay`, `Record`. `AssignMined` is `assignPayee` of the contract, taken by the borrower;
`PayMined` moves the lender's purse. Between any two of these everybody else takes steps of the
contract (`Parties`) and time passes (`DeskTick`), which is what the order of the three money-moving
statements is about. No request outlives `LIFE`.

## Runs

| Run | Instance | Checks |
|---|---|---|
| `market_one` | 4 accounts (one is arbiter and fee recipient), 1 job, three bounties (one below the minimum, one whose forfeit rounds down, one that divides evenly), every window from 0 to past the maximum, one stray token | `TypeOK`, `SettledInFull`, `LienFirst`, `BondAnswersForDelivery`, `StallNeverPays`, `SurplusExplained`, `TermsAreFinal`, `QuotesAreHonest` |
| `market_two` | 2 accounts, 2 jobs sharing one escrow | `EscrowIsLocked`, `NoPhantomJobs`, `NoFrozenEscrow`, `LedgerSpec` |
| `market_live` | 3 accounts, 1 job, one account may be blocklisted | `DiesOfOldAge`, and under fairness `EveryJobSettles`, `EveryBalanceIsCollected` |
| `raise_faults` | two sweeps and a resume, one job, one fault, leases and ages that keep no pass from another, operations that outlast their sender, are dropped, revert, or are tried again while they may still land | `PostsOnlyAfterRefund`, `NeverBothStanding` |
| `raise_recover` | a sweep and a resume, two jobs, a batch of one, deaths around the cancel | under fairness `EveryRaiseIsFinished` |
| `settle_drain` | a callback and two drains, one fault anywhere, lock longer than life | `OneDrainPerTask`, `FirstSubmissionIsKept` |
| `settle_closed` | a callback and a drain, attempts that throw at will, one fault | under fairness `EveryRowIsClosed` |
| `claim` | a miner and an external worker, two requests, two runs, a callback and a drain judging each, one mishap | `OneClaimer`, `OneRunAtATime`, `GradesTheLinkedRun`, `SubmittedByItsMaker`, `SentBackIsNotSubmitted`, and under fairness `AcceptedIsWorked` |
| `keeper` | two jobs, three accounts, a failing entry in each sweep, one fault | `RulingsWereSent`, and under fairness `EveryDueExitIsCalled`, `EveryBalanceIsCollected`, `EveryRefundIsMade` |
| `spend` | any three of a transfer, two bonds and two tool calls, two envelopes, one fault | `ToolsStayInEnvelope`, `CeilingHolds`, `PaidIsCounted` |
| `delegation` | two subtasks, one waiting for the other, two callers, views of any age, one mishap | `TwiceOnlyIfExcused`, and under fairness `EveryEscrowIsFollowed`, `NeverRests` |
| `advance` | two requests for one job, two lenders, two mishaps, on the whole contract | `LentIsRepaid`, `RowsTellTheTruth`, `LienBeforeMoney` |

Every run is expected to pass. Where the code does not do what one would like it to, or what one of
its comments says, the property states the strongest form that holds, and names the exception: a
history variable (`vain`, `swallowed`, `blind`, `doubled`, `late`, `astray`, `unchecked`, `disowned`,
`excused`, `unheard`, `lost`, `unlocked`) records that the exceptional thing happened, or an operator reads
it off the state (`raisedTwice`, `postedTwice`, `crowded`, `missedBy`, `hollow`, `expired`). Each exception is
a named cause, not the failure itself; TLC finds the property violated without it; and each is explained under
*Observations*.

### Bounds, and why they are enough

- *Market.* One job is enough for the properties of one settlement: an action reads one job and the
  totals. Four accounts allow requester, worker, payee and operator all to differ, and every way of
  coinciding. Two jobs are what it takes for one job's money to pay another's. Deadlines are
  compared with `now` only, so the clock stops when no unsettled job waits for one (`Waiting`);
  windows of one and two instants already order all four deadlines in every way the contract allows.
  Users are interchangeable in `market_one`, which checks no liveness. `MaxStray` bounds the tokens
  sent by mistake; more of them only add to a sum.
- *Price raise.* `MaxRows`, `MaxPosts`, `MaxPending` and `MaxFaults` bound the postings of one piece
  of work, the jobs on chain, the operations in flight and the faults: a raise of a raise with a
  twin fits. Times are in units of one wait for an operation (90 s). Both runs set every one of
  `LEASE`, `LIFE`, `WAIT`, `INTERVAL` and `ORPHAN_AGE` to one, which lets a lease run out under the
  pass that took it, as the deployed 60 s do under a life of 300 s, and lets a row become an orphan
  while its sweep is still at it. No run and no theorem assumes that passes are kept apart. `Slow`
  lets an operation outlast its sender's wait. What needs most states is checked in `raise_faults` on one job;
  the liveness run has two, so that one raise can be in the way of another: `BATCH` is 1 there instead of 3, and
  one orphan that no pass can finish fills it. There operations do not outlast
  the wait, only posts are dropped, and a post is tried once, so that one that fails leaves a raise to be resumed: a
  liveness check over late operations exceeds its time, and they are not what keeps a raise unfinished. `PostsOnlyAfterRefund` and `NeverBothStanding` are proved
  for every choice of the constants. Ages stop counting once a row is an orphan.
- *Settlement.* One task, since a row is claimed, locked and closed on its own. A drain's batch is
  then a single row: a row that waits behind another of its batch is not explored to the end (two
  tasks exceed ten million states, none of the eleven million visited in a trial violated an invariant). What
  makes that wait harmless is the assumption `LOCK_TIMEOUT > LIFE`, a 360 s lock against a 300 s
  invocation, here 2 against 1 and 3 against 2. `MAX_SETTLEMENT_ATTEMPTS` is scaled to 2 or 3,
  `MaxRounds` bounds the submissions of a task. Graded attempts saturate at the limit after which
  grading is final. Two drains and liveness together exceed a million states, hence two runs.
- *Claim.* One job: claims, runs and heals of different jobs share only the slots of a worker. One
  miner, whose sweep heals, and one worker without it are the two kinds there are. Two requests are
  a race of two accepts, of an accept and a heal, or of two heals. The run begins after the first claim, since nothing else can come first. `MaxTasks` allows a run and one that replaces it; when
  both are used up nothing is started any more, so `Abandoned` asks for one to be left. `MaxMishaps`
  is one, over all kinds; a drain that begins beside its callback counts as one, since it takes a row
  that is due while the callback lives. One job cannot show that a throw in a sweep's loop over its jobs
  (`lib/auto-mine.ts:183`) skips the jobs behind it.
- *Sweeps.* One cycle at a time: two exceed the time a liveness check may take. What two would do to
  one another goes through the lease, and `RulingsWereSent` is proved for any number. With a cap of
  two and one entry that always fails, the entry behind it is reached only because the cap is larger
  than the number of failing entries, which is what the properties say. A worker's share after
  a silent review (1) is below `MIN_WITHDRAW` (2), every other payment above it.
- *Spending.* `MaxSpends` is three of five: every pair that can race, and one that comes after them.
  Two bonds are one tick's, both checked before either is recorded; two tool calls are what a reservation
  is for. Of the two envelopes one allows two spends of the one amount and one allows none beside another; the
  owner may change it at any moment, and an agent without a row has the looser one. Three instants with
  a day of two let a spend leave the window before the last is graded. The theorems are for any number
  of spends, amounts, envelopes and instants.
- *Delegation.* Two subtasks, one of which waits for the other, are the smallest plan in which a tick
  posts. With a third the liveness check outgrows its time. One mishap: with two, a confirmation that
  outlived its lease can be overwritten by a tick whose own post was not seen, and the plan then
  waits for a job nobody knows (`NeverRests` fails, as the observations say). A view may be of any age, which
  includes the one-block snapshots of the code and more.
- *Advances.* One job, since a lien is of a job; two requests by which two lenders, or one lender
  twice, meet on it. Bounty, purse and records are such that a first-time borrower gets the cold
  start ratio and an experienced one is stopped by the step-up limit. `MIN_RUNWAY` 2 against `LIFE` 1
  keeps the order of 30 minutes and 300 seconds. Roles are fixed, because the contract's own
  properties are checked in the market runs; two lenders may be swapped.
- All runs set `CHECK_DEADLOCK FALSE`: a market with no unsettled job may rest, the bounded counters
  run out, and an idle service does nothing until it is called.

### Fairness, and why the code justifies it

- Time passes (`WF` of `Tick`): block and database clocks are not ours.
- `ExitsAreCalled` (market): an exit that stays open is called. Anybody may call it, which is what
  makes it permissionless, and `lib/ops-cycle.ts` runs `sweepDeadlines` from the cron; that the sweep
  reaches every due exit, and the withdrawal sweep every balance, is checked in `keeper`. Nothing is
  assumed of requester, worker, arbiter or issuer.
- `OwnersCollect` (market): strong, because a blocklisted account's withdrawal to itself is switched
  on and off; `withdrawTo` another account is what makes it possible at all.
- A live invocation gets on or is killed (`WF` of a process's next statement; `Crash` remains
  possible, as often as `MaxFaults`), the ops cycle comes round again (`WF` of the step's start), and
  the bundler answers (`WF` of `Land` or `Mine`).
- Claim: requests go on, a run delivers or is reaped after its silence, the queue settles what it
  owes, a miner's sweeps come round, and the cooldown of a heal passes. Nobody has to claim, and
  nothing is asked of an external worker.
- Delegation: a plan under way is ticked again (five callers do), a lease that nobody gives back
  runs out, and a tick that again and again may work on an up-to-date view of the market does so once
  (`SF` of `scanUpToDate`): a cache or a node lags for seconds, a job waits for days. Confirming a plan is its owner's choice, what the market does with a job is the market's.
- `spend` and `advance` check safety and assume nothing.

## Observations

What the modelling turned up, in the words of the repository on one side and of its code on the
other. `src/` is left out of the paths.

1. *The 111 days.* `docs/v2-plan.md:772` has "worst case 111 days, after which no JOB holds escrow". Each
   clock starts when its state is entered, and neither `raiseDispute` nor `approveJob`
   (`contracts/src/LaborMarketV2.sol:844`) looks at a deadline, so the bound holds only if the exits
   were called on time all along (`DiesOfOldAge`). A keeper that arrives on day 111 may find a
   dispute raised yesterday.
2. *Both standing.* `lib/price-raise.ts:20`: "a crash mid-flight leaves either the old job or the new
   one standing, never both". Under the deployed constants both may stand, without a crash. The sweep's lease
   is 60 s against a life of 300 s and a wait of 90 s, so two sweeps write two intents for one job; an
   intent row whose cancel never happened is not removed (129) and the next sweep writes another.
   Once the cancel lands, the parent of both rows is Cancelled and both are posted (`raisedTwice`).
   Resumes have two drivers with a lease each, an operation may land after its sender gave up, and an error
   while waiting for a receipt that is not the timeout (`lib/onchain/account.ts:555`) is retried by
   `lib/labor-settle.ts:40` while the first operation may still land: one row posted twice
   (`postedTwice`). A cancel that reverted as it was mined counts as a refund (`cancelledInVain`, 7).
   `NeverBothStanding` says, and `OneStandsUnlessDoubled` proves for all constants, that there is no
   fourth way. Where a row was posted twice its link moves: the map by hash keeps the last job and the update
   of line 259 has no condition, so a raise of that row may have refunded the one posting and its
   replacement stands beside the other. `PostsOnlyAfterRefund` therefore asks for *a* posting of the
   parent to have given its escrow back.
3. *Orphans that starve.* `lib/price-raise.ts:109` speaks of a "visible orphan ... that
   resumeOrphanedRaises finishes on a later pass"; line 254 cuts the batch to three before it sets
   aside the orphans it cannot resume. Three of those, which stay first for ever, keep every later
   raise unfinished: `EveryRaiseIsFinished` excepts a market that is `crowded` from some time on.
4. *The second submission.* `app/api/runtime/callback/route.ts:14`: "a request killed at the budget
   leaves a `pending` row in settlement_queue rather than nothing at all". After a retry verdict the
   callback closes the row (228), and the next submission's insert does nothing on a conflict
   (`lib/callback/settlement-queue.ts:183`): a death while that submission is being settled leaves
   nothing to settle it (`EverySubmissionIsKept`). And `settlement-queue.ts:25` has "failure ... leaves it `pending`", but
   `settleLaborMarketJob` catches its own (`lib/callback/labor-market.ts:457`) and returns: the
   drain (`settlement-drain.ts:53`) and the callback (231) then mark the row done, whatever had been done by then.
   Nobody settles that submission any more (`swallowed`, which `FirstSubmissionIsKept` excepts). Two more windows are excluded by the statement of
   `FirstSubmissionIsKept`: a death between storing the deliverable and writing its row, and a failed insert.
5. *Two settlements of one task.* `lib/callback/settle.ts:11`: "Must be safe to run twice. It is: ...". The
   inline attempt settles a row that is due and unlocked, so a drain may settle the same task beside
   it and the worker is credited with two verdicts (`lib/callback/labor-market.ts:371`;
   `OneVerdictPerJob`). For the same reason its deferral can release a lock a drain holds, which is
   why `OneDrainPerTask` excepts the rows in `unlocked`. An attempt that is killed, rather than
   throws, is never counted.
6. *A tick works on what its caller read.* `lib/delegation.ts:1514` says of the lease: "What happens
   without it ...: two ticks overlap, both read a held-back subtask as `onchainJobId === undefined`,
   and both post it", and `docs/failure-modes.md:1921` of the confirmation that the read "must happen
   inside the lock; a read taken before acquiring it can already be stale by the time the lock is
   granted, which would have made the lease decorative". The confirmation does read again; the tick
   does not (1535), and its callers read well before: the ops cycle reads all rows and then ticks
   them one after the other, the page and the MCP tool read before they respond. So a held-back
   subtask can be posted twice with no fault at all (`OneEscrowPerSubtask`), although
   `lib/ops-cycle.ts:276` counts on "the tick's writes are guarded against double-posting".
   Further causes of the same, all in `excused`: a tick or confirmation that outlives its lease, whose
   release then deletes the next holder's; a post that throws although it landed; an id that was not
   seen before a later wave throws. A stale whole-row save undoes what was written meanwhile; and a
   tick that sees a job refunded before its replacement is on the market gives the subtask up. The
   snapshot of the market is as old as the copy of the row, or older (`lib/ops-cycle.ts:261`,
   `app/actions/delegate.ts:136`, a cache of 4 s, nodes that lag by the tick's own account,
   `lib/delegation.ts:1102`): a dependent whose post was sent but whose id was not found has
   a hash and no id (`lost`), a snapshot without its job does not bring the id back, and line 1860
   posts it again. `Send` excuses that. And the tick reads Completed, Cancelled and
   Refunded only (1716, 1727): a job that Expired, which `lib/onchain/labor.ts:20` warns its readers not to
   collapse into another status, leaves its subtask neither done nor failed, and the plan rests for ever (`expired` in
   `NeverRests`).
7. *A reverted operation counts as a success.* `lib/onchain/account.ts:558` returns the hash whatever
   the receipt says, and so does line 159, while line 560 says "anything else (a revert, an RPC refusal) is
   a real answer and must propagate unchanged". The simulation before sending catches what is
   wrong by then; a change in between is not caught. A raise then posts the replacement beside a job
   that was accepted meanwhile, contrary to "Cancel first so the requester never needs headroom for
   both at once" (`vain`); a worker starts on a job it does not hold (`blind`); a root subtask keeps
   the hash of a job that never was and is never posted again (`hollow` of `DelegationTick`); an
   advance is recorded 'open' that nobody received (`hollow` of `AdvanceDesk`).
8. *Sweeps and grading.* A deliverable under judgement already reads `completed`, so a miner's sweep
   may submit it; a verdict that asks for another attempt then comes too late, contrary to
   "called once, on the attempt that is actually going to settle" (`lib/callback/labor-market.ts:105`)
   and to "was graded on its way in" (`lib/auto-mine.ts:158`). A drain may judge a submission beside its
   callback and come to another verdict. And when the redispatch after a retry verdict fails
   (`lib/callback/settlement-drain.ts:60` only logs it) or its process dies before it, the task stays
   `completed` with the output that was sent back, and a sweep submits it. These are the causes in
   `astray`. A sweep beside the original dispatch
   starts a second run without any fault, contrary to "never double-dispatch over it"
   (`lib/mining-scheduler.ts:201`). The cooldown before a heal replaces a failed run counts from
   `agent_task.updatedAt` (`lib/auto-mine.ts:147`), which a settlement waiting in the queue does not
   touch: ten minutes later the run is replaced while it is still to be judged, and a retry verdict
   brings it back beside its replacement (`late`). After two accepts not seen mined, the chain's worker may submit
   the other's output. A request that loses releases the claim of its own worker's other request.
   Briefs that are refused and deliverables nothing can grade
   are never submitted by the callback, only by a miner's sweep: an external worker's stay Accepted
   until they are reclaimed, where `labor-market.ts:138` has them "ungraded for manual requester review".
9. *Spending.* `lib/spend-envelope-server.ts:125`: "a ledger outage must not silently lift the daily ceiling"; with
   the day's total read as zero it does (`blind`), and an envelope that cannot be read is the platform's
   (87). A bond is staked without a check where the total or the fit context is missing
   or there is no schedule (`lib/auto-mine.ts:425`), and for jobs an office assigned (441): `unchecked`. Transfers and bonds
   do not count the reservations of tool
   calls, all the bonds of a tick are checked before any is recorded, and a record that fails, or a
   transfer still pending, is spent and not counted (`missedBy`). A tool call believes the payee's receipt:
   after `success: false` it releases its reservation (`lib/x402-tool-server.ts:195`), although the
   signed authorization stays valid for as long as the challenge asked, which nothing
   pins (`lib/x402-tool.ts:82`). If it is settled then, it is paid and never counted (`disowned`). Of the
   tool calls this is the only such case: without it `ToolsStayInEnvelope` and `PaidIsCounted` hold whatever
   races, times out or dies.
10. *Rulings.* `lib/dispute-gate.ts:132`: "a row here always means the outcome actually happened". The
   refund is sent and its receipt not awaited, so it means that the refund was sent (`lost`). A ruling that
   refunds nothing counts toward the cap of a pass and is made again in every pass, so three such
   disputes keep a later refund waiting (`crowdedOut`); `MIN_DISPUTE_AGE_MS` is exported and never
   read. `lib/ops-cycle.ts:100` puts the dispute gate "Deliberately AFTER `deadlines`"; it runs before.
11. *Advances.* A transfer nobody saw mined marks the row 'failed' with "so no money moved"
   (`lib/advance-server.ts:293`), though it may land (`unheard`). A pledge without money is said to be
   "fixable by paying" (`lib/onchain/advance-chain.ts:15`), but nothing pays it later: the row is
   'failed' and a new request finds the job already pledged. A request that dies before its row is
   closed keeps the job from ever being advanced on, since the unique index counts its row. And a refund
   between the check of the lien and the transfer leaves the lender unsecured, a risk that is priced.

## Proofs

All proofs are for every value of the constants that satisfies the named assumptions of their
modules: any number of accounts, jobs, tasks, requests, passes, deaths and mishaps, any amounts, and
clocks without a bound (a bound on a counter that appears in a guard is a constant too).

| Module | Theorem | States |
|---|---|---|
| `MarketAndDesk_proofs` | `TypeCorrect` | `Spec => []TypeOK`: in particular no subtraction of a settlement goes below zero. |
| | `Solvency` | the solvency view never shows less held than owed, and its surplus is exactly what was burned and what was sent by mistake (`SurplusExplained`). |
| | `NoPhantom` | an id nobody posted stays blank (`NoPhantomJobs`). |
| | `Finality` | a settled job, a lien, a worker and a running clock never change (`TermsAreFinal`). |
| | `LenderFirst` | a worker side that saw more than its bond has paid its lien in full (`LienFirst`). |
| | `BondIsForDelivery` | a bond is lost for not delivering and for nothing else (`BondAnswersForDelivery`). |
| | `StallingNeverPays` | letting a clock run out pays nobody who let it (`StallNeverPays`). |
| | `PaidInFull` | a settled job credited and burned exactly what it held (`SettledInFull`). |
| | `TotalsAreSums` | `totalEscrowed` and `totalWithdrawable` are sums over the jobs and the accounts (`EscrowIsLocked`). |
| | `ExitsStayOpen` | past its deadline a job has an exit with every guard true and every amount there. |
| | `ImplementsLedger` | the contract implements `EscrowLedger` (`LedgerSpec`). |
| | `HonestQuotes` | what the views quote is what settlements pay (`QuotesAreHonest`). |
| | `PromptKeepersBoundIt` | if no clock is let past an open exit, no job outlives the sum of the windows (`NoneOutlivesIt`). |
| | `LateKeepersAreToBlame` | a job that outlives the sum of the windows was let past an open exit (`DiesOfOldAge`). |
| | `LienComesFirst` | a lender's money moves only when the job is pledged to it for what was agreed (`LienBeforeMoney`). |
| | `DeskRunsTheMarket` | `DeskSpec => Spec`: what is proved of the contract holds of one that is lent against. |
| | `LoansAreRepaid` | on a release the lender is credited with all it was promised (`LentIsRepaid`). |
| | `RowsAreTrue` | the rows agree with the money and the lien (`RowsTellTheTruth`). |
| `PriceRaise_proofs` | `ReplacementsFollowRefunds` | a replacement is escrowed only behind a refund (`PostsOnlyAfterRefund`). |
| | `OneStandsUnlessDoubled` | a piece of work has two live jobs only where it was raised twice, posted twice or cancelled in vain (`NeverBothStanding`). |
| `SettlementQueue_proofs` | `DrainsSplitTheWork` | no two drains have one task to settle, unless a lock was released (`OneDrainPerTask`). |
| | `NothingStoredIsLost` | a first submission that has its row is settled, being settled, or due, unless an attempt at it was cut short by a throw that was caught (`FirstSubmissionIsKept`). |
| `ClaimDispatch_proofs` | `ClaimExcludes` | two workers are on their way to accept one job only if a claim had lapsed (`OneClaimer`). |
| | `WhatSettlesIsFinal` | what grading sent back is not what is submitted, unless it went astray in one of the named ways (`SentBackIsNotSubmitted`). |
| | `WorkersArePaidForTheirOwn` | what is submitted was made by the worker it pays, unless a run was started blind (`SubmittedByItsMaker`). |
| | `WorkIsDoneOnceAtATime` | two runs in flight have one of the three named causes (`OneRunAtATime`). |
| | `GradedIsLinked` | the run under judgement is the one the job is linked to, unless it outlived its cooldown or one of the other two causes occurred (`GradesTheLinkedRun`). |
| `KeeperSweeps_proofs` | `PublishedRefunds` | no ruling publishes a refund that was not sent (`RulingsWereSent`). |
| `SpendEnvelope_proofs` | `ToolSpendIsCounted` | what a tool call paid is counted for the day at every moment, in full, unless its receipt denied it (`PaidIsCounted`). |
| | `ToolsKeepToTheEnvelope` | tool calls together, but for those denied before, never pay past the envelope they were graded on (`ToolsStayInEnvelope`). |
| | `RecordedSpendsKeepToTheCeiling` | nor does a transfer or bond graded with the ledger in sight, with all that had been recorded by then (`CeilingHolds`). |
| `DelegationTick_proofs` | `DelegationTwiceOnlyIfExcused` | a subtask is escrowed twice only where one of the excuses is on record (`TwiceOnlyIfExcused`). |

### The contract

*Solvency.* `SurplusExplained` follows from one equation, `held = totalEscrowed + totalWithdrawable +
burned + stray`, and every action keeps it; the lemma on `settle` does the arithmetic once, for all
seven routes, from the facts that a forfeit is at most the bounty and a waterfall distributes exactly
what enters it. It needs only that the totals cover the settlement at hand, so it holds without
knowing that the totals are sums over the jobs.

*Type correctness* needs that same covering: `totalEscrowed` must not go negative. Each settlement
carries it as a guard, as the checked subtraction of Solidity 0.8 does by reverting. That the guard
never bites is a theorem of its own: `TotalsAreSums` makes the total a sum over the unsettled jobs,
one of which is the job at hand (`SumsCover`). `ExitsStayOpen` is what follows for the exits, and with
`ExitsTakeThem` it is `NoFrozenEscrow` with `ENABLED` spelled out.

*Sums.* `SumLemmas` proves what the sums need (`SumChange`: one term changes; `SumAdd`, `SumMonotonic`,
`SumCovered`) from the definition of `MapThenSumSet`. The library's induction on finite sets takes an operator,
which the provers cannot instantiate; `StrongSetInduction` says the same of a set of sets, and its
minimal element comes from the finiteness of a powerset. `AddrAssumption` and `FiniteAssumption` are
what makes the sums mean anything: there are finitely many accounts and spends.

*Finality* is not inductive: a job's past must be readable from its record. `LifeCycle` adds that
ids beyond `jobCount` are blank, that an open job has no worker, and that a deadline is not set
before the state it belongs to. `Advances` is what one action may do to one record;
`OneJobAdvances` and `SettleAdvances` reduce every action to it.

*What was paid.* `Accounts` says that the credits of a settled job are a function of its record: each
of the routes that lead to a status, and nothing else, with the shares its waterfall gives (`StepKinds`
sorts the actions, `SettleAccounts` does the settlements). `LienFirst`, `BondAnswersForDelivery`,
`StallNeverPays`, `SettledInFull` and the quotes are then arithmetic on one record.

*The ledger.* An unsettled job is a pot that holds its bounty and, once accepted, its bond. Posting
funds a pot, accepting stakes one, a settlement closes one into the credits it adds (`SettlementSettles`),
a withdrawal pays a balance, and everything else stutters: `StepLedger` has one case for each.

*The quotes* compare a state with the next one, and the last conjunct (a quote of zero is final)
depends on the clock only moving forward (`TimePasses`).

*The bound* adds the windows up along a job's life (`Young`): each clock starts before the one of the
state before it has run out. Accepting and delivering have that as a guard; disputing has none, and
there it is the hypothesis, `KeepersArePrompt`, which says that the clock stands while an exit is open.
`DiesOfOldAge` says the same without a hypothesis, of a behaviour in which a variable remembers whether
the clock was ever let past an exit: while it was not, every step is one of prompt keepers
(`YoungIsInTime`).

### The service

*The price raise.* "What this row replaces gave its escrow back" is never undone, since a cancelled or
refunded job changes no more (`Grows`). So it may be carried along: `Backed` holds of the row an
invocation is about to post, by its own cancel or by what it read of the chain and of the links
(`SeenOk`, `LinksOk`: an old reading, but one whose refunds still stand); of every post in the mempool,
waited for or not; and of every job on chain. Nothing in it depends on a lease or an age: the passes
may overlap at will.

*One stands.* The rows that go back to one posting form a tree by their parents. As long as no row was
raised twice it is a line, and has one childless row at its end (`Lines`: a sweep adds a row
below a linked one, and two childless rows would need a fork, `LinesGrow`). This is said of
every function that maps rows to their roots, and that there is one, because the property names it by a recursive
function. A row that has a child was posted (`ParentsPosted`), and its posting, if it is the only one, gave its
escrow back before the child was posted, unless a cancel was in vain (`Backed`, above). So two live jobs of one root, posted
once each, are both of childless rows, which is one row. No lease, age or life occurs in it.

*The queue.* Two drains are apart because a row's lock outlives the drain that took it: `Held` says that
for every task a drain has left, the row is closed or given up, or its lock has been held for no
longer than the drain has lived, or it is in `unlocked`. The claim establishes it and `Tick` keeps it;
since `LOCK_TIMEOUT > LIFE` (360 s against 300 s), a drain that lives has locks nobody may take over. That
nothing is lost is `RowsFollow`: a row that is closed has a settlement behind it that returned, and one
that returned ran to its end or is in `swallowed`.
Each action is first shown to be a `Turn` of its invocation and a `RowTurn` of the queue, and only those
are compared with the invariant.

*The claim.* `OneClaimer` compares two requests, so the invariant says of each that is about to accept
that it holds the claim or is marked as having lost it; two that hold it are of one worker. The three
steps that touch the claim have lemmas of their own, the rest lead nobody to an accept.

*The runs.* `Sound` types the records and bounds what settlements and requests know. `Judged` says of
everything that is submitted, or could still be by an operation or a
sweep under way, that its settlement is over or that it is in `astray`; that two judges of one
output, or a judge of one that was sent back, put it there too (`JudgedOnce`); and that a task which still holds an
output that was sent back is about to be told (`ReturnedIsTold`). `Made` follows the maker of a run to the worker the chain pays.
The last part says that a run in flight or under judgement is the one the job is linked to and
that nobody is about to start another, unless one of the causes in `blind`, `doubled` and `late` occurred; `late` is
what a run joins that is past its cooldown and not settled (`Gone`).

*The rulings.* Between the statement that sends and the one that publishes, the refund is mined, on
its way or recorded as lost, and stays so (`SentStays`), whatever the other invocations do. What an
invocation is about to publish is what it has just sent (`SentBeforeRuled`).

*The spending.* For each point of a spend's path `Path` says which of its entries are filled in, and for a
tool call `Covered` says which of reservation, payment and
row stand and how they compare; no step of another spend touches them. That a row is no older than
its reservation is what keeps a payment counted for its whole day. `Saw` ties the histories to the state: a
spend that is under way now was so when a later one was graded. The ceilings then need a budget:
what each spend of its day may still pay (`May`), leaving out those it is said to miss, is within the envelope it was
graded on (`Budget`). Grading establishes it, because the sum it reads covers what the others may
pay, and every other step only lowers what may be paid: a tool call picks a price under its cap, and a
spend that was denied is one that later ones miss.

*The delegation.* `excused` names subtasks, so the invariant is about one that is not in it. Since a
lease that was outlived excuses all of them, while any is unexcused one caller at most is at work
(`Alone`). For each unexcused subtask, the stored row knows its escrow whenever nobody is at work
(`RowKnows`); the caller that is knows it from its copy or has just sent it, and still finds the row
as it read it, or works on a copy that was written past, when the row goes on to know (`InHand`; a post
out of such a copy is an excuse). What it may still come to post has no escrow, or is `lost`, which is an excuse
too: the age of the view it works on does not matter otherwise, since a view adds ids to the
record and takes none away. A wave on its way is one job after the other, each of its own
subtask (`Sent`). The whole-row save then loses nothing. That the rows of a wave come out
of a set in some order, each once, is a lemma (`SeqOfSet`).

*The lien.* `LienBeforeMoney` is an action property, so the invariant says what a request knows at
each of its statements: the borrower is the job's worker, there is more time left than it may live,
and from the check on the job is pledged. That others cannot undo this is `Finality` again: a desk
step is a contract step (`DeskIsMarket`), and the contract's lemmas are reused as they are. The
assumption `LIFE < MIN_RUNWAY` (300 s against 30 minutes, `DeskAssumption`) is what rules out that the job
passes its deadline while the request is still there to pay.

*The loans.* `DeskOk` keeps the requests for one job apart (`Apart`): the partial unique index lets one
row stand at a time, and a request that gave up on its transfer left its lien behind, which stops the
next one. So at most one was ever spent against a lien, and that lien is the one the settlement pays.
`LenderFirst` of the contract does the rest.

### Assumptions

- `ConfigAssumption` is what the constructor enforces: rates up to their caps, positive windows, a
  recipient wherever there is a fee. `InputAssumption`: amounts are naturals. `AddrAssumption` and
  `FiniteAssumption`: there are finitely many accounts and spends.
- `ConstantsOk` of `SettlementQueue`: finitely many tasks, callbacks are not drains, positive limits,
  `LOCK_TIMEOUT > LIFE`. `ConstantsOk` of `PriceRaise`: sweeps and resumes are different processes.
- `ClaimAssumption`: miners are workers, `NoWorker` is none, limits are positive.
  `KeeperAssumption`: counts and caps are positive.
- `SpendAssumption`: transfers, bonds and tool calls are different spends, amounts and envelopes are
  naturals. `DeskAssumption`: lenders are accounts, nobody completed more than was attempted, and
  `LIFE < MIN_RUNWAY`.

- `DelegationAssumption`: finitely many subtasks, whose dependencies are among them.

TLC evaluates each on the instances. One theorem has a further hypothesis, in its statement:
`PromptKeepersBoundIt` (keepers that let no exit wait).

### Left to TLC, with the reason

- Liveness, and `NoFrozenEscrow` in its form with `ENABLED` (`ExitsStayOpen` is proved in its place):
  out of the provers' reach.
- `EveryRaiseIsFinished`, `EveryRowIsClosed`, `AcceptedIsWorked`, `EveryDueExitIsCalled` and the other
  properties under fairness are liveness; their instances are small for that reason.

## Plan

Done: the contract, the price raise, the settlement queue, claims and dispatch, the sweeps, spending,
delegation, advances. What is left, in order:

1. Type invariants of the service modules as theorems, where the proofs above only carry the part
   they need.
2. `sweepStuckGradedJobs` beside a live settlement in `SettlementQueue`.
3. Revisions, review stakes and the integration check of a delegation.
4. The social queue, then office sessions.

The number of runs is kept small so that the whole project can be re-checked in under an hour.

## Not modelled, and why

- V1's contracts and the V1-only stale-claim walk: superseded, and stood down on a V2 market.
- The Solana program: the same promises over another ledger.
- Credit scoring and pricing arithmetic: pure functions with their own tests; only the events they
  consume are modelled. The sweep of loans without collateral (`lib/loan-sweep.ts`) belongs to them.
- The sweep that re-grades stuck jobs, revision rounds, peer review, review stakes and the
  integration check of delegations, the proving ground (`verified-task.ts`), appeals: see *Plan* or
  the notes of the components.
- Grading itself, adjudication, planning and every other judgement of a language model: a choice.
- The social queue and office sessions: they move no money; what they do to the market goes through
  delegation and claims.
- Building, signing and sponsoring operations, HTTP, authentication, translations, presentation, the
  desktop client, runtimes and SDKs: transport around the parts above, and by far most of the
  repository's lines.
