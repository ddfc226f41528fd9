# Verification project for mys-core's transaction pipeline

TLA+ models of the TypeScript code under `src/` that builds, funds, signs and
submits transactions against the ledger: the models, the TLC runs that check
them on small instances, and the TLAPS proofs that hold for every instance.
Everything here lives in `tla/`. `PROJECT.json` lists every component, run,
mutant, source mapping, finding, hazard and theorem.

## 1. Inventory

### Components, their state and operations

| Component | Source | State it keeps | Operations (await points) |
|---|---|---|---|
| EphemeralSponsor, GasCoinAcquirer and TransactionAssembler (all in `sponsorTransaction`) | `dapps/sponsored-transactions/src/utils/sponsorTransaction.ts`, `utils/rpc.ts` | Per call: the keypair and its address, `payment`, `retires`, the `Transaction` builder. Shared: the module-level `client`. | Make the keypair (l.14-15). Request faucet funds (l.18). Loop `getCoins({owner, limit: 1})` (l.23), taking the coin and leaving (l.24-31) or sleeping 200 ms and decrementing (l.32-33). Build from the kind with sender, gas owner and payment (l.36-39). Sign (l.41). |
| Executor, kiosk `signAndExecute` | `dapps/kiosk/src/hooks/useTransactionExecution.ts` | Per call: the signed bytes and the response. | Wallet signs (l.25). `executeTransactionBlock` with the caller's options, defaulting to `{showEffects: true}` (l.27-31). Test `effects?.status?.status === 'success'`, then return true or throw (l.33-36). |
| Executor, trading `executeTransaction` | `examples/trading/frontend/src/hooks/useTransactionExecution.ts` | Per call: the same. | Sign, then execute with showEffects and showObjectChanges, then toast success and return the response. On any error: toast the error and return undefined (l.21-39). |
| TurnCap query (`useTurnCapQuery`) | `examples/tic-tac-toe/ui/src/hooks/useTurnCapQuery.ts` | react-query's cached result. The queryFn has no state across iterations. | Return null without an account (l.36-39). `for (;;)`: `getOwnedObjects` without a cursor, scan the page for the TurnCap of `game`, break when there is no next page (l.41-67). react-query refetches every 5 s. |
| Object queries | `useObjectQuery.ts`, `useGetLockedObject.ts`, `useTurnCapQuery.ts`, `LockedObject.tsx` | react-query cache entries keyed by `[network, method, params]` | Fetch on the selected network, answer, invalidate after a move (from the closure of the render that started it). `LockedObject`: a `getDynamicFieldObject` read, enabled only without an `itemId` prop. |
| Client contexts | `DryRunContext.tsx`, `KioskClientContext.tsx` | One client per network (recreated by `useMemo` when the network changes) | Provider. Hook that throws outside a provider. |
| Move analyzer configuration | `move-analyzer/editors/code/src/configuration.ts` | The VS Code settings snapshot | Constructor: snapshot and default server path. `serverPath` and `mysPath`: `~/` expansion, `path.resolve`, platform binary names. `lint` and inlay-hint defaults. |
| Entry points, network config, docs site | `main.tsx` files, `tic-tac-toe/ui/src/config.ts`, `SuiConnectButton.tsx`, `docs/**` | None of their own | Provider wiring, static tables, rendering. |

### How they interact
A caller passes transaction-kind bytes to `sponsorTransaction`. That code
talks to two external services: the faucet and the ledger client
(`getCoins`, and `build`, which fetches the reference gas price and does a
dry run). It returns the sponsor's signature over the built bytes. The
executors take a `Transaction` and call the wallet (signature) and the
ledger client (`executeTransactionBlock`). Separate invocations do not
share mutable state. Their only link is the ledger: coins appear and
objects move between addresses. The TurnCap query reads the ledger while
other transactions, such as the opponent's move, transfer objects to and
from the account.

### What makes this code hard
- **Concurrency.** Several sponsorships can run at once on one client, and
  their awaits interleave.
- **Timing.** The faucet's coin becomes visible at some later poll, or
  never. The budget is a count of polls, not a clock.
- **Partial failure.** Any awaited call can reject. A rejection after the
  remote side acted (faucet funded, ledger executed) leaves the caller
  with an error for something that happened.
- **Paging.** The owned-object list can be longer than one page and can
  change between requests.

### What makes each component correct
- **Sponsor.** Each signed transaction pays gas with coins of its own fresh
  address, and no two share a coin. Every call ends. A call never returns
  a transaction with an empty payment: the spec wants `FundingTimeout`
  instead.
- **Executors.** "Success" is reported exactly when the ledger executed
  with status success. `ExecutionFailed` is reported only when the ledger
  reported failure. A failed execution is never a truthy result.
- **TurnCap query.** A settled result for a connected account is the
  TurnCap exactly when the last request listed it. The paged loop is one
  atomic read of the account's objects. The query settles.
- **Object queries.** A hook shows only data read from the selected
  network. Every move's invalidation reaches the entry of the network the
  move ran on, so a quiet network ends with every entry current.
  `LockedObject` never shows the item of another Locked object.
- **Move analyzer configuration.** `serverPath` is an absolute path to the
  file the setting designates. `mysPath` is the bare binary name exactly
  when the setting is unset or is that name.

The hazards at their source lines are listed in `PROJECT.json` under
"hazards".

## 2. Modules and how they correspond to the code

### `Sponsor` (core)
- **State.** `pc[c]`, `sender[c]`, `addr[c]`, `retires[c]`, `payment[c]`
  for each call `c` in `Calls`, plus the ledger's `owner[k]` for each coin
  and the faucet's `funded` set.
- **Actions.** Each action runs from one await of the code to the next:
  - `Start` covers l.12-18: a fresh keypair and the faucet request.
  - `FaucetOk` and `FaucetError` cover l.18-22. `FaucetError` may still
    fund the address, for the case where the response was lost.
  - `PollFound`, `PollEmpty` and `PollError` cover l.23-32.
  - `Wake` covers l.32-33 and the loop test of l.22 (`LoopHead`).
  - `BuildOk` and `BuildError` cover l.36-41.
- **Faucet.** `Deliver` is the faucet's transfer becoming visible. The
  faucet's code is not in `src/`, so this part is modelled from the spec.
- **Keypair freshness.** `new Ed25519Keypair()` is a random 32-byte key.
  The model treats its address as never equal to an earlier one.
- **Empty payment.** Build may succeed with an empty payment. `setGasPayment([])`
  sets a payment, so the SDK does not select coins itself.
- **Fairness.** Weak fairness for each call's steps: every awaited promise
  settles. The code has no timeout of its own, so this is an assumption
  about the network and the timer. The faucet's delivery and the callers
  get no fairness.

### `Executor`
Both wallet-signed hooks are in one module. The per-call variable `hook`
says which one a call uses. `ledger[i]` is what the ledger did and
`result[i]` is what the caller sees. `KioskOutcome` is the status test of
l.33-36. `Thrown` is the difference between kiosk, which lets errors
through, and trading, which catches them and returns undefined.
`ExecuteError` lets the ledger have executed the transaction before the
response was lost. The calls share nothing. Three calls are checked so
that both hooks and all outcomes occur together.

### `TurnCapQuery`
- **State.** `owned` is the account's objects in the node's order. `kind`
  says what each object is to the scan. `snapshot` is what the last
  request listed.
- **Actions.**
  - `Fetch` is one iteration of `for (;;)`. It reads the first page
    (`FirstPage`, no cursor), then returns the cap, returns null or loops.
    The tests are an IF/ELSE chain in the code's order: the cap test of
    line 59 comes before the `hasNextPage` test of line 64. (A TLA+ CASE
    would leave the outcome open when both hold.)
  - `FetchError` is a rejected request.
  - `Run` starts queryFn, either on a refetch or on the first run, and
    returns null when no account is connected.
  - `Receive` and `Give` are transfers by other transactions.
- **Fairness.** Weak fairness of `Fetch`: the node answers with a page.

### `TurnCapAbstract` and the refinement
`TurnCapAbstract` is what `useTurnCapQuery` promises the game page. It has
no paging and no listing order. The account holds a set `held` of objects.
- `Start` and `NoAccount` are the two starts of queryFn.
- `Answer` settles with the cap exactly when `held` contains the TurnCap of
  `game` (`CapHeld`), read at one instant.
- `Fail` is a rejected request.
- `Gain` and `Lose` are transfers.

`TurnCapQuery` implements it under the mapping `held <- Held(owned)`, the
set of listed objects.
- A `Fetch` that finds a next page and no cap is a stutter.
- The other `Fetch` outcomes are `Answer`.
- `Receive` is `Gain`, and `Give(i)` is `Lose(owned[i])`.

The `turncap_null` run checks it as the PROPERTY `Refinement`. Its mutant
is the loop that leaves after the first page. That loop answers null while
the TurnCap is on the second page.

### `SponsorAbstract` and the refinement
`SponsorAbstract` is what one call of `sponsorTransaction` promises, without
polls, the faucet or awaits. A call takes a gas owner no other call has. It
settles once: it rejects, or it returns a payment that is empty or one coin
its own gas owner holds. The ledger only mints coins. `Sponsor` implements
it under the mapping in `Sponsor.tla`:
- `status` is `pc` collapsed to idle, running, returned and rejected;
- `gasOwner` is `addr`;
- `gasPayment` is the payment of a returned call.

`Start` maps to `Call`, `BuildOk` to `Return`, the three error actions to
`Reject`, and `Deliver` to `Mint`. The other steps are stutters.
No property is stated about the faucet request of line 18. The code sends
it once and has no loop or catch around it, so a "no repeated request"
property would only restate `Start`'s guard. Its real hazard is a request
the faucet served whose response was lost. `FaucetError` reaches that
state: its coin is delivered to an address whose keypair is dropped.
Neither the code nor the spec promises those funds back, so no property
is checked against it.

### `NetworkQueries`
The tic-tac-toe and trading read hooks through the shared react-query
cache.
- **State.**
  - `network`: the network `MysClientProvider` has selected. It starts at
    testnet (`main.tsx` l.24).
  - `ledger[n][q]`: the version of object `q` on network `n`.
  - `cache[k]`: the entry under key `k`.
  - `inflight`: requests sent and not yet answered.
  - `pending`: invalidate closures waiting for their transaction.
- **Actions.**
  - `Fetch` sends to the selected network's client. It is disabled for an
    undefined param (`enabled: !!q`) and while the key already has a
    request in flight.
  - `Respond` stores the ledger's version under the request's key.
  - `Commit` is a move on the selected network.
  - `Invalidate` marks stale the key of the render that started the move.
  - `SwitchNetwork` changes the selected network.
- **Keys.** `KeyOf(n, q)` is `[ctx.network, method, params]` with the
  method folded into `q`.
- **Fairness.** The fairness is react-query's own behaviour:
  - a mounted query whose entry is missing or stale is fetched;
  - requests are answered;
  - the awaited invalidate runs.

  A refetch of fresh data is allowed but not forced.

### `QueryCacheAbstract` and the refinement
`QueryCacheAbstract` is what the query cache promises the hooks, with no
requests in flight:
- an entry is filled by one atomic `Read` of the ledger of the network its
  key names;
- a `Move` bumps an object on the selected network and leaves an
  invalidation to run;
- `MarkStale` marks the entry of the move's network.

`NetworkQueries` implements it with the identity mapping on `network`,
`ledger`, `cache` and `pending`:
- `Fetch` is a stutter;
- `Respond(f)` is `Read(f.net, f.param)`;
- `Commit`, `Invalidate` and `SwitchNetwork` are `Move`, `MarkStale` and
  `Select`.

The run checks it as the PROPERTY `Refinement`. Its mutant stores an answer
under the key of the network selected when the answer arrives.

### `LockedObjectQuery`
`LockedObject.tsx` with the parent re-rendering it for other Locked objects.
- **State.**
  - `item[l]`: the item locked in `l`.
  - `unlocked`: the objects the escrow has unlocked.
  - `obj` and `itemProp`: the props.
  - `cache[l]`: the `getDynamicFieldObject` entry keyed by parent `l`.
- **Actions.**
  - `FetchDof` sends the query, enabled only without `itemProp` (l.47-62).
  - `RespondDof` stores the answer after `select`.
  - `FailDof` keeps earlier data.
  - `Rerender` changes the props.
  - `Unlock` is another user's transaction.
- **`Rendered`.** The props passed to `Locked` (l.64-76).

### `MoveConfig`
`configuration.ts` of the Move analyzer's VS Code extension.
- **Paths.** A path is a sequence of tokens: `"/"`, `"~"`, `".."`, a name,
  and the binaries' names.
- **`path.resolve`.** It is modelled by what it does (`Resolve`):
  1. prefix the working directory;
  2. split into segments (`Canon`), dropping empty ones and letting `..`
     pop;
  3. join.
- **Getters.** `ServerPathOf` and `MysPathOf` are l.51-57 and l.60-71 line
  for line: the `??` default, the bare-name test, the `~/` expansion
  (home plus the rest, not normalised) and `path.resolve`. `LintOf` and
  `HintOf` are the `??` defaults of l.73-83.
- **State.** `platform` (l.37 and l.61) and `conf`, the snapshot the
  constructor reads (l.35).
- **Actions.** `Reconfigure(opt, v)` is one option set or cleared,
  followed by a new `Configuration`.

## 3. Runs

| Run | Checks | Result | Bounds |
|---|---|---|---|
| `sponsor_safety` | TypeOK, NoCrossContamination, IInv | pass | 2 calls, 1 sender, 2 sponsor addresses, 3 coins, MaxRetries 2, symmetry |
| `sponsor_termination` | Termination, Refinement (`SponsorAbstract`'s `ASpec`) | pass | same, no symmetry (liveness) |
| `sponsor_empty_payment` | NeverEmptyPayment | **violation** | same |
| `executor_success` | TypeOK | pass | 3 calls |
| `executor_execfailed` | ExecFailedMeansLedgerFailure | **violation** | 3 calls |
| `executor_truthy_failure` | NoTruthyFailure | **violation** | 3 calls |
| `turncap_null` | TypeOK, ResultMatchesListing, Refinement (`TurnCapAbstract`) | pass | 3 objects, page size 2 |
| `turncap_termination` | QueryTerminates | **violation** | 3 objects, page size 2 |
| `queries_safety` | TypeOK, ShownFromSelectedNetwork, InvalidationReachesCommit, EventuallyCurrent, Refinement (`QueryCacheAbstract`), CacheNeverRegresses | pass | 2 networks, 1 object, MaxVersion 2 |
| `locked_item_match` | TypeOK, RenderedItemMatchesObject | pass | 2 Locked objects, 2 items |
| `locked_item_defined` | RenderedItemDefined | **violation** | same |
| `moveconfig_paths` | ServerPathMeansSetting, MysPathMeansSetting | pass | Linux and Windows; server.path up to 3 tokens, mys.path up to 2, over `/ ~ .. bin` and the mys name |

Why these bounds are enough:
- **Sponsor.** Two calls are enough for two sponsorships to race for coins.
  Three coins let the sender already hold a coin and still let both
  sponsors be funded. MaxRetries 2 lets a coin appear on the first, second
  or no poll. That covers success on a retry, exhaustion, and a coin that
  appears after the budget is spent. The refinement is checked with
  fairness, so each call's settling is checked too.
- **TurnCapQuery.** Three objects with a page of two give a second page,
  and let the TurnCap sit on either page.
- **NetworkQueries.** Two networks let the user switch away after a move
  and back before its invalidate runs. Two versions let a response
  overtake a second commit. A second object only multiplies independent
  keys.
- **LockedObjectQuery.** Two Locked objects are the least for a re-render
  to show another object's cached field.
- **MoveConfig.** Three tokens reach `~/..`, `/..`, `bin/..`, `../mys`
  and `~/mys`. Two reach the bare name, `~/` and `..`. Each path has every
  branch of the getters and every case of `path.resolve` (root, popping
  above the root).

### Findings
1. **sponsorTransaction signs a transaction with no gas payment.** When
   the poll budget runs out, the code builds and signs with `payment = []`
   (l.39). The spec says it must fail with FundingTimeout.
2. **kiosk reports a successful execution as failed.** `signAndExecute`
   throws "Transaction execution failed." for a successful transaction
   when the caller's options do not include `showEffects`.
3. **trading reports failed executions as success.** `executeTransaction`
   toasts success and returns a truthy response when the ledger reports
   failure.
4. **The TurnCap query can loop forever.** `useTurnCapQuery` never passes
   a cursor. With more owned objects than one page and the TurnCap not on
   the first page, it fetches the first page forever. TLC's counterexample
   is a stable ledger with the cap at position 3.
5. **LockedObject passes an undefined item id to `Locked`.** l.67 is
   `itemId || mysObjectId.data?.objectId!`. Without an `itemId` prop, the
   `!` hides an undefined id in three cases:
   - before the query answers;
   - after it fails;
   - after an unlock removed the field.

   The state with no data is the initial state.

### Mutants
Every property of a passing run is shown to be violated by a plausible bug
of the code it is about (`PROJECT.json` "mutants"):
- **Sponsor:**
  - a keypair shared across calls (also breaks the refinement);
  - a dropped `retires -= 1`;
  - a loop re-entered without its test.
- **Executor:** the status string returned instead of true.
- **TurnCapQuery:** a loop that leaves after the first page; `return;`
  instead of `return null`.
- **NetworkQueries:**
  - the `enabled` test dropped;
  - a key without `ctx.network`;
  - an invalidate that reads the network when it runs instead of when it
    was rendered.
- **LockedObjectQuery:** `select` dropped; a key without the parent id.
- **MoveConfig:**
  - `path.resolve` left out;
  - the bare-name test of `mysPath` dropped.

## 4. Proofs
The proofs assume only each module's `ConstAssumption`. They hold for any
number of calls, coins, addresses, networks, objects and items, and for
any bound.

**`SponsorProofs`.** Its assumptions: `MaxRetries` is a natural number,
sender and sponsor addresses are disjoint, and `NoAddr` is neither.
- `IInvariant`: `Spec => []IInv`.
- `TypeCorrect`: `Spec => []TypeOK`.
- `NoCrossContaminationThm`: `Spec => []NoCrossContamination`.
- `RefinementSafe`: `Spec => SA!SafeSpec`, the safety part of the
  refinement.
  - `RefineInit`: the initial states map to `AInit`.
  - `RefineNext`: each step maps to a `SponsorAbstract` step or a
    stutter, one case per action. `Start` is a `Call` with an untaken
    owner (`IInv` 1-2). `BuildOk` is a `Return` (`IInv` 5). The errors are
    `Reject`.
  - The fairness part of `ASpec` is checked by TLC only.

Why the inductive invariant is needed. `TypeOK` alone is not inductive:
`Wake` decrements `retires`, which stays in range only because a sleeping
call has a non-zero counter. `NoCrossContamination` is not inductive
either. `IInv` adds what the proofs need:
1. A call is idle exactly when it has no address.
2. Started calls have pairwise distinct addresses.
3. A call that has not found a coin has an empty payment.
4. A polling or sleeping call has a non-zero counter.
5. A call that built or returned pays only with coins its address owns.

Why `IInv` is preserved:
- `Deliver` only assigns coins that were not minted yet, so the ledger
  never takes a coin away from an address.
- `PollFound` only takes a coin the ledger lists for the call's own
  address.
- Two calls with distinct addresses therefore cannot share a coin.

**`NetworkQueriesProofs`.** Its assumptions: the default network is a
network, and `NoParam` is neither a param nor a network.
- `ShownFromSelectedNetworkThm`.
- `InvalidationReachesCommitThm`.

Both come from `IInv`, which adds three facts:
- `CacheFromKeyNetwork`: an entry's source is its key's network, however
  the selection changes.
- `FlightKeyed`: a request in flight goes to its key's network and param.
- `InvalidationReachesCommit` itself.

`Commit` makes its entry outdated, but puts it in `pending`. `Invalidate`
removes it from `pending` and marks the same key stale. Lemmas:
- `KeyOfInjective`;
- `KeysDef`: `Keys` is `Networks \X Params`;
- `StaleEntry`: marking stale keeps an entry in range.

The refinement of `QueryCacheAbstract` is proved too:
- `RefineInit`: `Init => QC!AInit`.
- `RefineNext`: under `IInv`, each step is an abstract step or a stutter.
  It needs `FlightKeyed`: an answer goes under the key of the network the
  request was sent to. That is what makes `Respond` the atomic read of
  that network.
- `RefinementThm`: `Spec => Refinement`.
- `TypeCorrect` follows from `IInv`.

`CacheNeverRegressesThm` (`Spec => CacheNeverRegresses`) is an action
property: no step removes a cached object or lowers its version. It
needs one more invariant, `CacheNotAhead`: no entry holds a version ahead
of its network's ledger. `CacheNotAhead` is not implied by `IInv`, whose
`InvalidationReachesCommit` says nothing of stale entries. It is
inductive with `IInv`:
- `Respond` stores the ledger's current version under its own key
  (`FlightKeyed`);
- `Commit` only raises a ledger version;
- `Invalidate` keeps the version.

Given `CacheNotAhead`, an answer replaces an entry by its ledger's
version, which is at least the old one (`NextNeverRegresses`). TLC
checked `CacheNotAhead` on the `queries_safety` instance before it was
proved. The lemmas `RespondEntry` and `InvalidateEntry` give the entry
each of those steps leaves under every key. Both `NextIInv` and these
proofs cite them.

**`LockedObjectQueryProofs`.** Its assumption: `NoId` is neither an
object nor an item.
- `RenderedItemMatchesObjectThm`.
- `TypeCorrect`.

Its `IInv` says two things:
- each cache entry holds its own parent's item or nothing;
- the `itemId` prop is the object's item or nothing.

**`ExecutorProofs`.** It needs no assumption.
- `TypeCorrect`. `TypeOK` is inductive by itself. Lemmas `ThrownType` and
  `KioskOutcomeType` show that every value a caller can see is in
  `Results`.

No safety invariant of the executors is stated for the passing run. The
kiosk status test of line 33 is one `IF`, and a property "true only after
ledger success" would restate it. The two behaviours of the executors
that matter are the violations `ExecFailedMeansLedgerFailure` and
`NoTruthyFailure` (findings 2 and 3).

**`TurnCapQueryProofs`.** Its assumptions: the page size is positive and
the bound is a natural number.
- `TypeCorrect`. It rests on three lemmas:
  - `OwnedListsDef` characterises the lists the node can give as
    sequences of distinct objects within the bound;
  - `InsertOwned` shows that `Receive`'s insertion keeps such a list, with
    the index arithmetic of `SubSeq` and `\o`;
  - `RemoveOwned` does the same for `Give`'s removal;
  - `SliceFacts` states the length and the elements of a `SubSeq`,
    including the empty slice. `PrefixFacts` and `SuffixFacts` specialise
    it to the two slices both list lemmas cut.
- `ResultMatchesListingThm`. `ResultMatchesListing` is inductive with
  `TypeOK`. Only `Fetch` sets a cap or a null (lemma `FetchCases` gives
  one outcome per branch), and it records the list it
  read in `snapshot`. A cap is on the first page, hence in the list
  (`PageOfList`). A null is taken only without a next page, when the first
  page is the whole list (`LastPageIsAll`, `ShortListLen`). Transfers change `owned` but
  neither `snapshot` nor the result.
- `RefinementThm`: `Spec => Refinement`, the refinement of
  `TurnCapAbstract`.
  - `RefineInit` maps the initial states.
  - `RefineNext` takes one case per action, and the three outcomes of
    `Fetch`. The cap and null outcomes are the atomic read, by `PageOfList`
    and `LastPageIsAll`. The loop-again outcome is a stutter.
  - `InsertOwned` and `RemoveOwned` also state how the two transfers change
    `Held`. `Receive` adds its object. `Give(i)` removes exactly
    `owned[i]`; that needs `NoDup`, since otherwise a copy of the object
    could stay on the list.
  - No invariant beyond `TypeOK` is needed.

Only model-checked:
- **Liveness:** `Termination`, `EventuallyCurrent`, `QueryTerminates` (a
  violation) and the fairness part of `Sponsor`'s `Refinement`. TLAPS does
  not reason about fairness and ENABLED here.
- **`MoveConfig`'s `ServerPathMeansSetting` and `MysPathMeansSetting`:**
  - They rest on what `Canon` and `JoinSegments` compute. These are
    `FoldLeft` over the path's tokens.
  - Stating that for every input needs induction over sequences. The
    library's induction theorems take an operator parameter, which the
    installed provers cannot instantiate.
  - TLC checks every setting within the bounds instead.
- **The `Executor` properties violated by the code:**
  `ExecFailedMeansLedgerFailure` and `NoTruthyFailure`. They are
  findings, not theorems.

## 5. Not modelled and why
- **Client contexts.** `KioskClientProvider` rebuilds its client in
  `useMemo` on `[mysClient, network]`. `DryRunProvider` builds a new
  client on every render. Both hooks throw outside their provider. There
  is no interleaving or state to check beyond the React contract:
  `useMemo` recomputes in the same render that changes its inputs.
- **LockedObject's `owner()` and `getKeyId`.** Pure field extraction from
  the object's JSON.
- **The react-query library.** It is not in `src/`. Its behaviour is
  modelled in `NetworkQueries` and `LockedObjectQuery` from its
  documented contract: one request per key in flight; invalidation marks
  stale; on error the previous data is kept.
- **`Configuration.toString`.** Logging.
- **Windows path syntax.** Drive letters and backslashes. On win32 the
  model only changes the binaries' names.
- **The empty-string setting.** `""` resolves to the working directory.
  It is listed as a hazard; no spec under `src/` forbids it.
- **Entry points, network config, connect button, docs site.** Static
  wiring and rendering with no state changes, except the tic-tac-toe
  provider's network and default, which are part of `NetworkQueries`.
- **Sponsor-signed executor.** The code that submits the sponsor's
  signature is not in `src/`.
- **Transaction bytes, signatures, digests and toasts.** Left out: no
  property tells them apart.

## 6. Plan
Done:
1. `Sponsor`, its runs, its mutants and `SponsorProofs`.
2. `Executor`.
3. `TurnCapQuery`.
4. `SponsorAbstract` and the refinement, checked and proved (safety).
5. `NetworkQueries`, `LockedObjectQuery` and their proofs.
6. `MoveConfig`.
7. Proofs: the `Executor` and `TurnCapQuery` invariants, the
   `QueryCacheAbstract` refinement, and every type invariant.
8. The action property `CacheNeverRegresses`, checked and proved.
9. `TurnCapAbstract` and the refinement, checked and proved.

Next:
10. `SponsoredFlow`: compose `Sponsor` with the sponsor-signed submit
   (spec-modelled) and the ledger's gas-coin locking.
11. Stranded faucet funds: coins delivered to addresses whose call has
   settled without using them.
12. A `LockedObjectQuery` refinement of a one-entry-per-parent cache, and
    an abstract specification of the executors' outcome contract.
