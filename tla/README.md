# TLA+ models of the Elrond–Ethereum bridge relayer

This directory holds TLA+ models of the relayer in `src/`, the TLC
configurations that check them, and `PROJECT.json`. `PROJECT.json` records
the following:

- the components and whether each one is modelled;
- the runs and what each one checks;
- the mutants each property is tested against;
- the source lines every definition translates;
- the findings;
- the hazards.

## The system

A relayer runs one finite state machine per bridge direction. On each tick,
the current step calls the **bridge executor**
(`src/bridges/ethElrond/bridgeExecutor.go`) and returns the id of the next
step. Any recoverable error sends the machine back to the first step.

The executor keeps a small context:

- the batch;
- the action id;
- the message hash;
- three retry counters.

Everything else lives on the two chains:

- **The Elrond multisig contract** holds the pending batch and the proposed
  actions, with their signers. It performs an action once the action has a
  quorum of signatures.
- **The Ethereum safe** executes a batch once, given a quorum of relayer
  signatures on the batch's message hash. Relayers exchange those signatures
  on a P2P topic. Each relayer gathers what it receives in its own
  signatures holder.

A topology provider names one leader per time round. Only the leader submits
proposals, performs and transfers; every relayer signs.

The **gas station** (`src/bridge/gasManagement/gasStation.go`) runs on its
own goroutine. It polls an HTTP price oracle and serves the latest price to
readers under a read-write lock.

### Inventory

| Component | State it keeps | Operations | Hard behaviour |
|---|---|---|---|
| Elrond→Ethereum steps and executor | step; executor batch, statuses, action id, message hash, two quorum counters | 10 steps: get pending, sign on Ethereum, wait quorum, perform transfer, wait confirmation, resolve statuses, propose set-status, sign it, wait quorum, perform it | several relayers interleave on shared chains; a sent transaction can report an error; P2P loss; retries run out and the machine rewinds mid-protocol; leader changes between steps |
| Ethereum→Elrond executor operations | batch, action id, was-proposed counter | fetch batch by nonce, validate it, verify deposit nonces, propose, sign, perform | stale reads of the last executed nonce; invalid batch answers; was-proposed polling |
| v2 executor and steps | same as above | same as above | inverted leader test; WasActionSigned asks WasExecuted; no batch validity check |
| `TransferBatch.ResolveNewDeposits` | statuses | resolve against deposit count | boundaries between the number of statuses and the count |
| Gas station | latestResponse, loop status, context | processLoop, doRequest, GetCurrentGasPrice, Close | Close racing an in-flight request; the select's random choice; readers racing the store |
| Component factory | pollingHandlers, the clients, role providers | NewEthElrondBridgeComponents and its seven builders | a builder failing after earlier builders started background loops |
| P2P interfaces | none | interfaces only | — |

## Modules

- **`TransferBatch.tla`** defines the status bytes and `ResolveNewDeposits`.
  `clients/batch.go` is not under `src/`, so it is modelled from spec
  section 3 and `clients/batch_test.go`.
- **`ResolveDeposits.tla`** applies `ResolveNewDepositsStatuses` repeatedly
  to every status sequence of length up to `MaxDeposits`. Its type
  invariant bounds the stored statuses. `TransferBatch` is written from
  spec 3, so comparing it with another rendering of spec 3 would check
  nothing of the code, and no such comparison is run.
- **`ElrondToEth.tla`** models the Elrond→Ethereum half-bridge for
  `NumRelayers` relayers.
  - **Relayer state.** Each executor field is a function of the relayer:
    `step`, `batch`, `statuses`, `actionID`, `msgHash`, `retriesEth` and
    `retriesElrond`. `polls` counts the sub-intervals a wait loop has
    already used.
  - **Shared state:**
    - the P2P messages in flight (`sigMsgs`);
    - each relayer's holder (`holder`);
    - Ethereum's executed statuses (`ethStatuses`);
    - Elrond's pending batch (`elrondBatch`);
    - the proposed, signed and performed actions (`proposed`, `signers`,
      `performed`);
    - the round's leader (`leader`).
  - **Steps.** Each step is one action: the whole `Execute`, with the
    executor calls it makes and every error exit. An error reported after a
    transaction was sent is a separate disjunct in which the chain changed.
  - **Wait loops.** `WaitForTransferConfirmation` and
    `WaitAndReturnFinalBatchStatuses` take one action per sub-interval, so
    other relayers move while one waits. `WaitForTransferConfirmation` can end
    before Ethereum executes the batch; step05 then rewinds, and step01
    finds the late execution on its next pass. A step05 that went on to
    resolve statuses without a confirmed transfer still keeps every safety
    property, since step06 waits for final statuses, but it fails
    `AllBatchesFinalized`: relayers then time out in step06 round after
    round.
  - **Source.** Steps 01 and 03 and step 04 (v2) are in `src/`. The other
    steps are modelled from the spec (`spec_modelled` in the map).
  - **v2 constants.** Two constants select v2 behaviour:
    - `PerformGateInverted` gives the leader test of v2 step04;
    - `WasSignedQueriesExecuted` makes v2 `WasActionSignedOnElrond` ask
      `WasExecuted`.
  - **`NilWhenNoBatch`** makes the Elrond client answer `(nil, nil)` when
    no batch is pending, as the spec allows. `GetBatchFromElrond` then
    panics, which ends the relayer process: its step becomes `Crashed`.
  - **Fault model.** It is the fault model of `EthToElrond` (below). Before
    `Stabilize`, chain calls fail, transactions may report an error after
    sending, and the topic may lose a signature (`LoseSignature`). After
    it, they do not, and the leader keeps its round for `RoundTicks` of its
    steps. `StabilizeWithin` bounds the relayer steps taken before
    stabilising; 0 leaves the period unbounded.
- **`BatchRoundTrip.tla`** is the abstract specification of the
  Elrond→Ethereum direction. Elrond holds one batch pending at a time
  (`pending`). Ethereum executes the pending batch once, with statuses of
  its choice (`ethStatuses`). Elrond then finalises the batch with those
  statuses, resolved against the number of deposits (`finalized`), and
  makes the next batch pending.
- **Refinement of `ElrondToEth`.** `RoundTrip` instantiates
  `BatchRoundTrip` with `pending <- elrondBatch`, with `ethStatuses`
  unchanged, and with `finalized` read off the set-status action Elrond
  performed for each batch (`FinalizedWith`). `ImplementsBatchRoundTrip`
  is `RoundTrip!Spec`. Liveness is stated directly as
  `AllBatchesFinalized`: checked against the abstract fairness, the
  liveness run takes more than three minutes.
- **`MCElrondToEth.tla`** instantiates `ElrondToEth`: 2 relayers, quorum 2,
  1 batch of 1 deposit, 1 quorum retry per side, and waits of 1
  sub-interval.
  - The safety runs leave rounds and the unstable period unbounded.
  - The liveness run allows 8 unstable relayer steps and rounds of 6
    leader ticks.
- **`EthToElrond.tla`** models the Ethereum→Elrond half-bridge.
  - **Relayer state:** `step`, `batch`, `actionID`, `retriesWasProposed`
    and `retriesElrond`, each a function of the relayer.
  - **Shared state:**
    - the number of batches Ethereum created (`ethCreated`);
    - Elrond's last executed batch id and deposit nonce (`lastBatchID`,
      `lastTxID`);
    - the proposals, their signers and the performed ones;
    - the leader;
    - `executedLog`, a history of the batch ids Elrond executed.
  - **Step01** reads the last executed batch id, fetches batch id+1 and
    verifies its deposit nonces. Other relayers can perform a batch between
    the first and the last of these reads, so the first read returns any
    value the contract has held (`PastLastBatchIDs`). An Ethereum client
    asked for a nonce with no batch returns an empty batch with id 0
    (`NotFoundBatch`).
  - **Executor operations** are translated from
    `bridges/ethElrond/bridgeExecutor.go`. The five steps are not under
    `src/` and are modelled from the spec.
  - **v2 constant.** `StoreUncheckedBatch` gives v2's
    `GetAndStoreBatchFromEthereum`, which has no validity check.
  - In this model, the contract's rule of one proposal per batch id is
    enough by itself to stop a stale fetch from re-executing a batch.
    `verifyDepositNonces` is a second line of defence that no run shows to
    be necessary. What breaks `ExecutedInOrder` is storing an invalid batch.
  - `CheckArgs` is the executor's argument check on the retry bounds, taken
    as an `ASSUME`.
- **`MCEthToElrond.tla`** instantiates `EthToElrond` with quorum 2,
  2 relayers, and 1 retry of each kind.
  - `MCEthToElrond.cfg`, the safety run, has 3 batches of 2 deposits.
    A stale read can lag two batches behind. `verifyDepositNonces`
    compares two nonces per batch.
    `RoundTicks` is 0, so rounds may end at any time.
  - `MCEthToElrondLive.cfg` and the v2 run have 2 batches of 1 deposit.
    The live run sets `RoundTicks` to 5, the number of steps.
- **`BatchBridge.tla`** is the abstract specification of a half-bridge.
  - The source chain closes batches 1, 2, … (`created`).
  - The destination executes them in order, each once and none before it
    was closed (`executed`).
  - `LiveSpec` adds delivery: weak fairness of `Execute`.
- **Refinement.** `EthToElrond` instantiates `BatchBridge` with the mapping
  `created <- ethCreated` and `executed <- lastBatchID`. Both are the
  chains' own state, not a history variable.
  - `ImplementsLiveBatchBridge` is `Abstract!LiveSpec`, checked under
    `FairSpec`. It contains `Abstract!Spec`, so it also checks each step:
    Elrond's last executed batch id moves only from b to b+1.
- **Fault model of `EthToElrond`.** Before `Stabilize`, any chain call may
  fail (`Fails`), a sent transaction may report an error, the first read
  of step01 may be stale, and rounds may end at any time. After it, calls
  succeed, reads are current, and a round lasts until the leader has taken
  `RoundTicks` steps. Spec 4.4 sets rounds to `StepDuration × len(steps)`:
  five ticks for this direction.
- **`BridgeComponents.tla`** models `NewEthElrondBridgeComponents`.
  - Its seven builders run in order; each succeeds or returns an error.
  - It tracks the loops they start: two role-provider polling handlers and
    the gas station. It also tracks who holds them: `pollingHandlers`, and
    the Ethereum client's gas handler.
  - The gas station is the `GasStation` module, instantiated. Its goroutine
    runs once `CreateGasStation` started it. Only the owner of returned
    components reads from it or closes it.
- **`MCBridgeComponents.tla`** enables the gas station, with the constants
  of `GasStation.cfg`.
- **`GasStation.tla`** models the poller goroutine.
  - The goroutine is split at its suspension points: start, the HTTP
    exchange, the parse-and-store, the select, and the wait.
  - `Close` and `GetCurrentGasPrice` are separate actions.

## Runs

| Run | Config | Expect | Shows |
|---|---|---|---|
| elrond_to_eth | MCElrondToEth.cfg | pass (≈1.3M states) | `ImplementsBatchRoundTrip`: Ethereum executes only the pending batch, and only once. Elrond finalises it once, only after that, and only with the resolution of Ethereum's statuses. This holds across lost signatures, errors after sending, and leader changes. |
| elrond_to_eth_live | MCElrondToEthLive.cfg | pass (≈700k states) | `AllBatchesFinalized`: after up to eight relayer steps of failing calls and lost signatures, the batch is executed on Ethereum and finalised on Elrond. |
| elrond_to_eth_nil_batch | MCElrondToEthNilBatch.cfg | violation | With an Elrond client that answers (nil, nil) when no batch is pending, as spec 4.3.10 allows, a relayer panics in `GetBatchFromElrond` on its first poll after the last batch is finalised. |
| elrond_to_eth_v2_gate | MCElrondToEthV2Gate.cfg | violation | With v2's leader test, a non-leader sends ExecuteTransfer. |
| elrond_to_eth_v2_resign | MCElrondToEthResign.cfg | violation | With v2's WasActionSigned, a relayer signs the same action twice after a rewind. |
| eth_to_elrond | MCEthToElrond.cfg | pass (≈24k states) | `ExecutedInOrder`: Elrond executes batches 1, 2 and 3 in order, each once, and its last executed deposit nonce matches. This holds across stale reads, errors after sending, and leader changes. |
| eth_to_elrond_live | MCEthToElrondLive.cfg | pass (≈45k states) | `ImplementsLiveBatchBridge`: once the environment is stable and rounds last five leader ticks, every batch Ethereum created is executed on Elrond. |
| eth_to_elrond_v2_fetch | MCEthToElrondV2Fetch.cfg | violation | With v2's unchecked `GetAndStoreBatchFromEthereum`, the empty not-found batch (id 0) passes the vacuous nonce check and is executed on Elrond. |
| resolve_deposits | ResolveDeposits.cfg | pass | `TypeOK`: repeated resolutions keep the statuses at most `MaxDeposits` long. |
| bridge_components | MCBridgeComponents.cfg | pass (≈530 states) | `ReturnedComponentsOwnTheirLoops`: returned components hold every loop the construction started. |
| bridge_components_refused | MCBridgeComponentsRefused.cfg | violation | A construction refused after `createElrondRoleProvider` leaves its polling loop running, with no handle left to stop it. |
| gas_station | GasStation.cfg | pass | `TypeOK`: a read answers a price with no error, or zero with an error. `LoopStopsAfterClose`: the poller always ends after Close. |

Each property of a passing run has a mutant in `PROJECT.json` that TLC
catches:

- an off-by-one retry check, one past the bound (it breaks `TypeOK`) and
  one short (it breaks `AllBatchesFinalized`);
- v2's jump past the status resolution (it breaks the round-trip refinement);
- a was-proposed retry check off by one;
- a batch store that dropped the validity guard (it breaks
  `ExecutedInOrder`);
- a lost reset of the quorum counter (it breaks delivery);
- an Ethereum client built without its gas station;
- an over-long `ResolveNewDeposits`;
- a price returned together with its error;
- a select that ignores `ctx.Done`.

### Findings

Every violation run is a finding in `PROJECT.json`:

- **`GetBatchFromElrond` panics on a nil batch** (`bridgeExecutor.go:152`).
  It reads `batch.ID` for a metric whenever the error is nil. The spec
  (4.3.10, step 1: "if err or nil, stay") and step01's own `batch == nil`
  test both take a nil answer as "nothing pending". The tests stub this
  method, so none of them reaches the line.
- **v2 step04 gate inverted.** A non-leader sends `ExecuteTransfer`.
- **v2 `WasActionSignedOnElrond`** asks `WasExecuted`, so a relayer signs
  the same action again after a rewind.
- **v2 `GetAndStoreBatchFromEthereum`** has no validity check, so the
  not-found batch is executed.
- **The factory** leaves polling loops and the gas station running when a
  later builder fails.

One disagreement has no run, because a unit test already shows it. Spec 8.2
says that after `ResolveNewDeposits(n)` the status at index i is Rejected
iff i ≥ n. Spec 3, the code and `clients/batch_test.go` append Rejected
entries below n when the batch has fewer statuses: `ResolveNewDeposits(1)`
on no statuses gives `<<Rejected>>`. `TransferBatch` follows spec 3 and the
test, because `clients/batch.go` is not under `src/`.

### Bounds

- **One batch with one deposit** suffices for `ImplementsBatchRoundTrip`.
  Actions are keyed by batch, and a second batch only repeats the protocol.
  A two-batch run did not finish within several minutes.
  With one batch, the part of the refinement about order across batches
  (Ethereum executes only the pending one) is not exercised here. The
  `EthToElrond` runs check order in the other direction.
- **Two relayers, three batches of two deposits** for the `EthToElrond`
  safety run: about 24k states in seconds. Three relayers with two
  batches gave 1.8M states, and a broken fetch guard then took TLC about
  two minutes to expose; three relayers with three batches did not finish
  in fifteen minutes. A third batch adds more to what the run can tell
  apart than a third relayer: a stale read two batches behind.
- **Two relayers with quorum 2** make every signature necessary, so one lost
  P2P message blocks the quorum.
  Three relayers for `ElrondToEth` passed 2.4M distinct states in two
  minutes with the queue still growing, so that instance is not run.
- **One retry per side** lets the counters hit their bound and rewind.
- **One sub-interval** keeps the wait loops' early exit and their time-out
  both reachable.
- **EthToElrond: two batches or more.** Two batches let a relayer with a
  stale read fetch an already executed batch while the next one is
  pending. They also let a second batch follow the first through a leader
  change. The liveness and v2 runs keep two batches of one deposit.
- **Factory.** Each builder either succeeds or fails once. That reaches a
  failure before, between and after the two polling loops and the gas
  station are started. The gas station runs with the bounds below.
- **Gas station.** Two selectors and two prices, one below and one above the
  maximum, give every branch of `GetCurrentGasPrice` (E5 of the spec).

## Fairness

- **EthToElrond** states delivery under `FairSpec`:
  - weak fairness of every relayer's step, because the driver ticks each
    state machine every `StepDuration`;
  - weak fairness of `NextRound`, because rounds follow wall-clock time;
  - weak fairness of `Stabilize`: errors are transient. This is an
    assumption about the chains, not a guarantee of the code.
  - The round length matters. With `RoundTicks = 1`, TLC finds a livelock:
    a relayer that is not the leader gives up after its retries and starts
    over, and its phase can miss every round it leads. Two leader ticks per
    round suffice in the model; spec 4.4 gives five.
- **ElrondToEth** states `AllBatchesFinalized` under its `FairSpec`:
  - the same fairness as `EthToElrond`;
  - plus weak fairness of `DeliverSignature`: once the topic is stable, it
    delivers what was broadcast.
  - The unstable period is bounded by eight relayer steps, to keep the
    run within minutes. Eight steps are enough to reach these states before
    stabilising:
    - a relayer that ran out of Ethereum quorum retries;
    - signatures lost;
    - a transfer executed on Ethereum with an error reported to the
      sender.
    The same run with an unbounded period also passes, with about 3M
    states in ten minutes on four workers.
  - Here the leader must pass step01 to step04 within its round. With four
    or five leader ticks per round, TLC finds a livelock even with no
    failures: each relayer reaches step04 in the other's round, goes to wait
    for the confirmation, and rewinds, round after round. Six ticks suffice. Spec 4.4 gives ten.
- **GasStation** assumes weak fairness of the loop goroutine. The Go
  scheduler runs a runnable goroutine, and `time.After` fires.

## Not modelled

- The metrics and the status handler.
- Logging.
- Batch validation through the external validator.
- Client availability checks.
- The factory's keys, clients and mappers, which are abstracted to success
  or failure. Its signature holder is `disabledSignatureHolder`, marked
  TODO at line 257. `ElrondToEth` gives each relayer a real holder instead,
  as the spec describes.
- `gasManagement/factory.CreateGasStation` and the polling handler are not
  under `src/`. The model takes them from their use: an enabled gas station
  starts its loop, and `StartProcessingLoop` either starts the loop or
  returns an error.
- The two directions composed in one relayer process. The factory under
  `src/` builds the clients, the role providers and the gas station, but
  it builds no bridge executor or state machine for either direction. How
  the two directions share a process, a leader and the Elrond contract is
  therefore not in `src/`. Each direction is modelled on its own, with the
  contract state it uses.
- The legacy `ethElrondBridgeExecutor` (`src/ethToElrond/bridgeExecutors`).
  No code under `src/` constructs it or calls it. Its step machine is not
  there, and neither is the `QuorumProvider` it asks for the quorum. Every
  method reads state that an earlier step left behind; for example,
  `WasExecutedOnDestination` dereferences `pendingBatch`.
  So each property of it would depend on a call order that a model would
  have to invent. The one decision it makes on its own is
  `isQuorumReachedOnBridge` at lines 114-125. That function logs a
  `GetQuorum` error and then compares the count with whatever quorum value
  came back. This is noted here, not checked.

## Plan

Modules in the order of the behaviour they cover:

1. `ElrondToEth` with its runs. *Done.*
2. `GasStation`. *Done.*
3. `EthToElrond`: the Ethereum→Elrond direction, with the v2 parameter for
   the missing validity check. *Done.*
4. The abstract `BatchBridge`, with `EthToElrond` refining it, and liveness
   under a stabilising environment. *Done.*
5. The factory (`BridgeComponents`), composed with `GasStation`. *Done.*
6. A composed module running both directions in one relayer: not
   modelled, see above.
7. `ElrondToEth` refining `BatchRoundTrip`, with its liveness as
   `AllBatchesFinalized`. *Done.*
8. The legacy `ethElrondBridgeExecutor`: not modelled, see above.
