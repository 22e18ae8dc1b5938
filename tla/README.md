# TLA+ models of the TSS dispatcher, the contract state store and the VSC stores

This directory models parts of the node in TLA+ and checks them with TLC:

- the threshold-signature session core (`src/modules/tss/dispatcher.go`): the
  dispatchers that drive a tss-lib party through key generation, signing and
  key resharing, the party identities they derive, and the commitments they
  produce;
- the contract state cache
  (`src/modules/state-processing/contract_session.go`);
- the transaction pool collection
  (`src/modules/db/vsc/transactions/transactionsDb.go`);
- the ledger, balance and bridge actions collections
  (`src/modules/db/vsc/ledger/ledger.go`).

## The system

`dispatcher.go` runs one protocol session per dispatcher. Its parts are:

| part | code | what it does |
|---|---|---|
| caller | `Start`, `Done` | builds identities and parties, sleeps 15 s, spawns the goroutines; `Done` is a promise that waits on `done` |
| pump | `handleMsgs` / `reshareMsgs` | drains `p2pMsg`, fans each engine message out with `SendMsg` |
| engine start | `go party.Start()` (two in resharing) | the party enters round 1 and emits |
| result goroutine | reads `end` | persists the share (keygen, reshare), sets `result`, signals `done` |
| timer | `baseStart` | after 1 minute sets `timeout` and signals `done` |
| network | `HandleP2P` | resolves the sender and feeds the bytes to the party (or both parties) |
| serializer | `Serialize()` of the five result types | projects the resolved value to a `BaseCommitment` |

These goroutines share `result`, `err`, `tssErr` and `timeout` without a lock.
They are coordinated only by the unbuffered `done` channel, which `Done` reads
once.

The stores do not talk to the dispatcher:

- **`ContractSession`** hands a contract a `StateStore`. This is a map in
  front of the `DataBin` of one state merkle. `Get` falls back to the
  datalayer, and `Commit` returns the map.
- **`transactions`** upserts a record per transaction on `Ingest`. It also
  updates records by id (`SetOutput`) and by anchor (`SetStatus`). Each
  method is one or more MongoDB requests, and the node's callers may run
  them concurrently.
- **`actionsDb`** stores bridge actions as pending, lists them by height or
  epoch, and marks them complete.
- **`ledger`** upserts ledger records by id and answers three queries: the
  records of an owner from a height on (with a limit), the records of an
  owner in a height range (with asset and op-type filters), and the distinct
  owners in a height range.
- **`balances`** upserts one balance record per (account, height) and reads
  the latest at or below a height. `GetAll` lists the accounts in one request
  and then reads each one's balance in its own request.
- **`interestClaims`** upserts a claim per block height and reads the last
  claim strictly before a height.

The ledger aggregation, the test doubles, the e2e
runner, configuration and declarations are listed in `PROJECT.json` and are
not modelled (see below).

## Modules

| module | models | kind |
|---|---|---|
| `TssParty` | tss-lib `LocalParty` as the dispatcher sees it: rounds that need messages, `Start`, `UpdateFromBytes`, `WaitingFor` | engine abstraction (tss-lib is not in the repository; written from spec.md 6) |
| `PartyIds` | `SetBytes` keys, the new-committee multiplier, `big.Int.Bytes` | pure operators |
| `Session` | a KeyGen or Sign dispatcher on `BaseDispatcher`: every goroutine above | state machine |
| `Reshare` | `ReshareDispatcher`: two parties, one pump, one `end`, the looping result goroutine, the timer | state machine, uses `TssParty` and `PartyIds` |
| `Commitment` | the result values `Done` builds and `Serialize()` | state machine over pure projections |
| `SessionPromise` | what a session promises its caller: Start runs or fails, Done settles once with one outcome | abstract specification |
| `StateStore` | `StateStore` and `NewStateStore`: `Get`, `Set`, `Delete`, `Commit` | state machine |
| `ContractSession` | `ContractSession` with the store it hands out: `GetStateStore`, `SetMetadata`, `ToOutput`, `FromOutput` | state machine, extends `StateStore` |
| `TransactionPool` | `Ingest`, `SetOutput`, `SetStatus` with concurrent callers, one step per database request; `FindUnconfirmedTransactions` as an operator | state machine with a fault switch |
| `BridgeActions` | `StoreAction`, `ExecuteComplete`, `SetStatus`, `GetPendingActions`, `GetPendingActionsByEpoch` | state machine, queries checked against a recursive reference |
| `LedgerDb` | `ledger` and `balances`: `StoreLedger`, the three ledger queries, `PutBalanceRecord`, `UpdateBalanceRecord`, `GetBalanceRecord`, `GetAll`; `interestClaims`: `SaveClaim`, `GetLastClaim` | state machine, queries as operators of the state |
| `MC_*` | constants and bounds for TLC | model-checking instances |

Correspondence to the code:

- **Variables.** Each goroutine has a program counter:
  - `engStart` for the engine start goroutine;
  - `resPc` for the result goroutine;
  - `timerPc` for the timer;
  - `donePc` for `Done`;
  - `pump` for the message being fanned out and the recipients it has left.

  The shared fields are booleans: `err`, `timeout` and `result`. In Reshare
  `tssErr` is a boolean too; in Session it is the culprit of the last feed
  error. `outQ` is `p2pMsg`, `keystore` is the key store entry, and `party`
  and `newParty` are `TssParty` records. `kind` is the dispatcher kind,
  fixed in `Init`.
- **Actions.** There is one action per goroutine step, and each is named
  after the code it models:
  - `PumpTake`, `PumpSendOk`, `PumpSendFail` and `PumpLoopback` are the pump;
  - `HandleP2P*` are the outcomes of one `HandleP2P` call (feed, feed error,
    self drop, nil-sender panic);
  - `*Collect*` is the result goroutine;
  - `TimerFire` is the timer;
  - `DoneReceive*` is the `<-done` that meets one of the senders;
  - `DoneResolve*` and `DoneReject` are the four branches of `Done`, in the
    order the code tests them.

  `Start` is split at its one suspension point, the 15 s sleep: `*Start` runs
  before it and `StartSettle` after it.
- **Environment.** The other participants are not code of this node. A peer
  sends its round-r message once it holds ours for round r-1, and stops at a
  round chosen in `Init` (`stopsAt`). In Reshare a member is chosen `mute`
  instead. Faulty peers may send one malformed message, and outsiders may
  address the session.
- **Data.** Accounts are model values (Session, Commitment) or one-byte
  strings (Reshare, so keys are real numbers and the origin tags of
  `reshareMsgs` are computed from them). Messages carry only sender, round
  or kind, and committee tags. Key material and signatures are abstracted
  away.
- **Stores.** Each MongoDB request is one step.
  - `TransactionPool` keeps a program counter per caller (`pc`): `Ingest` is
    `IngestCall`, then `IngestFind` (the FindOne), then `IngestUpdate` (the
    upsert). `FindOneFound` gives what `findResult.Err() == nil` tells
    Ingest: with `FindMayFail` a request may fail on an existing record,
    which the code cannot tell from "no documents". `SetStatus` is
    `SetStatusCall`, then one `SetStatusOne` per id
    (FindOne, Decode, UpdateMany), then `SetStatusReturn`.
  - `StateStore`'s `stored` is the DataBin, and `cache` is `ss.cache` with
    `NIL` for a key the map lacks. `MissOutcomes` lists what the datalayer
    calls can return on a miss, a nil dereference included. `Commit`
    returns `ss.cache` itself, so `committed` only records that the caller
    now holds an alias of `cache`: its contents follow every later write.
  - In `BridgeActions`, `actions[id]` is the record, and a sort is
    `SetToSortSeq` with the code's (block_height, id) order.
  - In `LedgerDb`, `ledger[id]` and `balances[account][height]` are the
    documents (or `NONE`). A query is an operator giving every row list the
    server may return: a sort on `block_height` alone leaves ties in any
    order. `GetAll` is a reader with a program counter: `GetAllDistinct`
    (the Distinct request; on an error nothing is read), one `GetAllRead` per
    account (which may fail, the error dropped), then `GetAllReturn`.
    `reader.start` keeps what `GetBalanceRecord` gave for each account when
    `GetAll` began, so a property can compare the result with it.

## Runs

| run | result | what it shows |
|---|---|---|
| `session` | pass: 513k states, about 1 min | for both keygen and sign: `TypeOK`; `ImplementsPromise` (Session refines `SessionPromise`: Done settles exactly once, whatever the peers do) |
| `session_persisted_key_blamed` | violation of `PersistedKeyMeansSuccess` | the result goroutine persists the key, the timer sets `timeout` first, and `Done` resolves a blame with no culprits |
| `session_unknown_sender_panics` | violation of `NoPanic` | a message from an outsider makes `HandleP2P` read `from.Id` of nil (line 651) |
| `session_done_sender_leak` | violation of `DoneSendersReturn` | `Done` reads `done` once, so whichever of the result goroutine and the timer sends second blocks forever (lines 691, 790) |
| `session_feed_error_masked` | violation of `FeedErrorOnlyWithoutSuccess` | in a sign session the engine rejects one stray message, then produces the signature, and `Done` resolves an `ErrorResult`: it tests the sticky `tssErr` before the result (line 543; keygen 853, reshare 279), against spec.md 7 |
| `reshare` | pass: 223k states, about 2 min | `TypeOK`; `BlameSound` (every party a timeout blames still owes its message); `ImplementsPromise` |
| `commitment` | pass: 137 states | `ProjectionTable`: for every dispatcher kind and outcome, the serialized result is the row of the spec.md 4.6 projection table |
| `state_store_get` | violation of `GetReturnsStored` | the first `Get` of a key the DataBin holds returns an empty slice: the inverted error test at contract_session.go:82 caches `make([]byte, 0)` when `databin.Get` succeeds |
| `txpool` | pass: 60k states | with one caller and reliable FindOne requests, `ReprocessingSafe`: no call resets `first_seen`, and a transaction that has left what `FindUnconfirmedTransactions` returns never comes back to it |
| `txpool_setstatus` | violation of `SetStatusSetsExactlyListed` | the `UpdateMany` filter on decoded height and op index misses an unanchored transaction; with all anchored it also confirms another transaction of the block |
| `bridge_actions` | pass: 266k states, about 1 min | `PendingListExact`: `GetPendingActions` returns every due pending action once, in (height, id) order, compared with a recursive reference `InOrder` |
| `ledger_db` | pass: 65k states, 10 s | `LedgerAfterHeightExact` (every list `GetLedgerAfterHeight` may return holds the owner's records from the height on, inclusive, once each, in height order, cut by the limit without skipping a lower one); `LedgerQueriesAgree` (`GetDistinctAccountsRange` names exactly the owners `GetLedgerRange` finds in the range, and the range to the top height equals `GetLedgerAfterHeight`); `LastClaimIsPrevious` (`GetLastClaim(h)` is the claim of greatest height strictly below h, nil only if there is none); `GetAllAsOfStart` (an action property on `GetAllReturn`: one row per account, each at or below the height and no older than at the start, and every account that had a record then is returned unless its request failed, whatever upserts interleave); `TypeOK` |

A few further cfgs reproduce counterexamples that are not among the runs.
Each checks one rule that the code breaks:

| cfg | property | what TLC finds |
|---|---|---|
| `MC_Reshare_ThresholdRule.cfg` | spec.md 4.1 | the new committee's threshold lacks the +1 (line 101) |
| `MC_Reshare_SelfNeverFed.cfg` | spec.md 8 | the new party's "both" ack is fed back to itself |
| `MC_Reshare_BlameSound.cfg` | spec.md 4.5, with epochIdx 0 | the timeout blames a member that sent |
| `MC_Commitment_CommitmentIdentifiesSession.cfg` | spec.md 6 | results built without session id, key id or epoch |
| `MC_TransactionPool_ReprocessingSafe.cfg` | the comment at transactionsDb.go:58 | two callers each ingest one new id, and the second resets `first_seen` |
| `MC_TransactionPool_IngestFindFails.cfg` | the comment at transactionsDb.go:58 | with one caller, a failed FindOne on an existing record makes Ingest reset `first_seen` and the status |
| `MC_BridgeActions_ByEpochListsAll.cfg` | the comment at ledger.go:344 | `if cursor.Next` returns one row |

`PROJECT.json` lists the findings the violations document, the hazards of
the code, and the mutants. A mutant is a plausible bug in a mapped
definition, and each passing property must detect one.

## Refinement

- **`SessionPromise`** is the caller's view of a session. `st` moves
  created → running | failed, and a running session settles `out` to one
  outcome, fairly. Both `Session` and `Reshare` instantiate it with a
  refinement mapping: `st` is the phase with `settling` seen as `created`,
  and `out` is `outcome`. They check `Promise!Spec` as a property. The
  property covers every `Done` resolution, the goroutines racing on `done`,
  and that settling happens (weak fairness of `Settle`). A mutant that
  forgets to arm the timer breaks it.
- The contract state store has no abstract specification. What a `Get` of
  a key missing from the DataBin returns depends on `DataBin.Get` and
  `DataLayer.GetRaw` (lib/datalayer, outside the repository). So the store
  is checked by `GetReturnsStored`, which only concerns keys the DataBin
  holds.

## Queries as action properties

`BridgeActions` records in `fetched` the rows a query step returned, with
its arguments. Writes reset `fetched`. `PendingListExact` is an action
property on `fetched'`: the rows of a query equal the reference list over the
state the query read.

## Bounds

- **Session.** Three participants (this node, p1, p2), two rounds (round 1
  broadcast, round 2 directed) and one outsider. p2 may send one malformed
  message, and each peer stops at any round. This reaches:
  - a finished party, a party stuck in each round, and both orders of timer
    and result;
  - a send failure before and after the final round;
  - a feed error, the self echo, and the outsider.
- **Reshare.** Old {s, a, b}, new {s, a, c} and one outsider, with at most
  one mute member (`MaxMute = 1`). Each part matters:
  - a member in both committees (a) exercises the origin tag;
  - a leaving member (b) and a joining member (c) exercise each committee
    alone;
  - the muted member makes each view stall.
- **Epoch index.** epochIdx is 1 in the pass run and 0 in the violation run.
  A new key can equal another Hive name's key only from epochIdx about 203
  (`'z54'` times 204 is `'abep'`). Enumerating names for that is beyond
  TLC, so no run checks the key derivation on its own.
- **Commitment.** All outcome kinds, with every subset of culprits.
- **Session kinds.** `Kinds = {"keygen", "sign"}`: a behaviour picks the
  dispatcher kind in `Init`, so one run covers both.
- **StateStore.** Two keys and two values. `Init` ranges over every
  DataBin content, so a key is both held and missing across behaviours.
- **TransactionPool.** Three transactions:
  - t1 and t2 share block height 10 and op index 0, with different tx
    indexes;
  - t3 is unanchored.
  - t1 is a Hive transaction; t2 and t3 are VSC transactions, which
    `FindUnconfirmedTransactions` returns.

  Statuses are "", CONFIRMED and FAILED. `MaxCalls` bounds the calls:
  4 calls with one caller in the pass run, and 3 calls with two callers in
  the race cfg.
- **LedgerDb.** Two accounts, two ledger ids, heights {1, 2}, two assets,
  two op types, two balance and claim contents, limits {1, nil} and three upserts
  (`MaxWrites`). Two records of one owner can tie on height, or differ, so
  both the sort and the limit's cut are exercised; three upserts are enough
  for a `GetAll` to see a record written at a lower height, then a higher
  one, between its requests.
- **BridgeActions.** Three ids, two heights, two epochs (or none) and two
  action types: enough for ties on height and for actions with and without
  an epoch.

## Fairness

Every goroutine of the node is weakly fair: the pump, the engine start, the
result goroutine, the timer and `Done`. So are the caller's `Start` steps and
the call to `Done`. Go's scheduler runs every runnable goroutine, and
`time.Sleep` returns. `SendMsg` returns, with success or an error.

The other participants are not fair, so a peer may never send. This is what
makes `ImplementsPromise` depend on the timer.

`TimerFire` waits until the engine goroutines have started. The timer's
minute outlasts the microseconds between spawning them and their first
statement.

The runs set `CHECK_DEADLOCK FALSE` because a session really ends: after
`Done` settles, or `Start` fails, no goroutine has anything left to do. A
live session that gets stuck violates `ImplementsPromise` instead.

The store modules have no liveness property and no fairness. Each call there
is a single request, or a loop over a finite list, and nothing in the code
waits. `MC_TransactionPool` sets `CHECK_DEADLOCK FALSE` because `MaxCalls`
ends a behaviour. `MC_StateStore_GetReturnsStored.cfg` sets it because a nil
dereference in `Get` ends the process. `MC_BridgeActions` and `MC_LedgerDb` check
deadlock: a query, or a new `GetAll`, is always possible.

## Not modelled, and why

- **Cryptography, key material and signature encoding.** TLC cannot say
  anything useful about them.
- **The `GetThreshold`, `MsgToHashInt` and `Unmarshal` errors of Sign and
  Reshare start.** The functions are outside the repository; they are listed
  as hazards.
- **A node outside one of the resharing committees** (the `@todo` at lines
  85-86). This is planned.
- **Data races on the shared fields.** Each write is atomic in the model.
- **A send failure after the result.** `PumpSendFail` sets `err`, but
  whether `Done` reads it depends on unsynchronised field accesses, which
  the model does not represent.
- **What tss-lib does at the edges.** The model assumes two things:
  - the old committee's resharing party ends without a public key
    (`Reshare.HasPub`), so a stale output never replaces the new share;
  - `UpdateFromBytes` with a nil sender returns an error rather than
    panicking.

  Both are tss-lib behaviour, outside the repository.
- **`ContractSession` runs.** The module models `GetStateStore`,
  `SetMetadata`, `ToOutput` and `FromOutput`, and it parses, but it has no
  run. Nothing in the repository calls these operations, and spec.md does
  not describe them, so no property about them has a source to rest on.
- **`DataBin` and `DataLayer`** (lib/datalayer, outside `src/`). Their
  results are a nondeterministic choice among what the code can receive.
- **`GetTransaction` and `FindTransactions`.** `GetTransaction` is one
  FindOne whose result is the record; no property tells it apart from
  `db[id]`. `FindTransactions` is an aggregation that joins `hive_blocks`
  and pages with skip and limit. Its result depends on which blocks the
  other collection holds and on the server's order among equal heights.
  The error path of `FindUnconfirmedTransactions` (a nil cursor after a
  failed Find) is listed as a hazard.
- **`GetLedgersTsRange`.** An aggregation joining `hive_blocks`, with
  pagination. Its result with both bounds given depends on how the server
  treats the duplicate `block_height` key; it is listed as a hazard.
- **The callers of the stores** (state engine, block processing). They are
  outside `src/`, so whether they ingest concurrently or re-store a
  completed action is not known. The hazards say so.

## Further work

1. A node outside a committee in Reshare. `myParty` or `myNewParty` is then
   nil and is handed to tss-lib, whose reaction is outside the repository.
2. ContractSession composed with the state engine's use of it, once that
   code is available: whether `Commit`'s map reaches `ToOutput`.
3. `StoreAction` re-storing a completed action. That needs the callers that
   replay blocks.
4. Larger instances: four participants and three rounds for Session.
5. The reproduction cfgs as runs of their own. The project keeps at most
   twelve runs, so several violations (the threshold rule, self-feeding in
   Reshare, commitments without a session id, `GetPendingActionsByEpoch`
   reading one row, Ingest after a failed FindOne) are kept as cfgs beside
   the runs.
