# Verification of the controllers of a wallet

This directory is a TLA+ development for the monorepo of the wallet's core
controllers (`packages/*`, TypeScript). It holds specifications translated from
the source, TLC configurations that check them on small instances, and theorems
about them with proofs for TLAPS. Paths below are relative to `packages/`.

Everything in this repository runs in one JavaScript thread. There is no data
race, but every `await` is a point where any other callback may run, every
promise that settles queues a continuation, every message of the
`ControllerMessenger` runs its subscribers synchronously inside the step that
published it, and the host may be closed at any moment, keeping the persisted
part of the state only. The models are cut along these lines: **an action is the
code between two awaits**, with every synchronous subscriber and every trailing
update that belongs to it.

Contents: [the system](#the-system), [plan](#plan),
[modules](#modules-and-how-they-correspond-to-the-code),
[runs](#runs), [proofs](#proofs), [disagreements](#where-the-code-disagrees-with-its-comments),
[not modelled](#what-is-not-modelled).

## The system

A request of a dapp comes in over a stream (`json-rpc-middleware-stream`), passes
the middleware of a `JsonRpcEngine`: the network of the dapp is attached
(`SelectedNetworkMiddleware`), requests that need a confirmation wait in a queue
(`QueuedRequestController`), permissions are checked (`PermissionController`), and
handlers call a controller: `TransactionController`, `SignatureController`, the
token controllers. These ask the user by way of the `ApprovalController`, sign
with the `KeyringController`, and talk to the network by the clients of the
`NetworkController`. Around them, controllers of accounts, tokens, rates and
notifications keep caches that follow events of the others.

For each component: its state, its operations, who it talks to, what is hard
about it, and what makes it correct.

### Requests and networks

| component | state | operations and interactions | hard behaviours | correct when |
| --- | --- | --- | --- | --- |
| `queued-request-controller` | the queue of waiting calls, the origin of the batch in progress, the count of calls in progress, `queuedRequestCount` | `enqueueRequest`, `processNextBatch`, flush; asks `SelectedNetworkController` for the network of a dapp and `NetworkController` to select it; listens to changes of domains | awaits between deciding to run and counting; a switch that fails; a flush during a switch; continuations behind others in the microtask queue | dapps are never mixed; no overtaking; each request runs on its dapp's network; nobody waits for ever |
| `network-controller` | selected client, configurations, metadata per client; registry of clients, two global proxies, the previous selection | switch, reset, rollback, upsert, remove, load backup; lookups that ask the network for its version and latest block; publishes `networkDidChange`, `infuraIsBlocked`, … | answers of the network the wallet has left; a client replaced under a proxy; lookups in flight together | the answer recorded for a network is its own; the last selection is looked up; no client leaks |
| `selected-network-controller` | `domains`; one proxy per domain | set and get the network of a domain; follows permissions, removal of networks, the queue preference | events that announce a change before or after it is made; three maps to keep in step | permitted dapps only; networks that exist; proxies that follow |
| `json-rpc-engine` | the list of middleware; per request a list of return handlers | `handle`, batches, notifications, engines as middleware, `createAsyncMiddleware`; idempotent ids, scaffolds | end before next, errors in return handlers, a response both ended and failed | exactly one answer per request; return handlers once, in reverse order |
| `json-rpc-middleware-stream`, `eth-json-rpc-provider` | the requests awaiting an answer by id; a stalled flag | send, answer, retry on reconnect, notifications | answers for unknown ids, reconnects | each answer reaches its request |
| `base-controller`: messenger | subscriptions per event, with the selected values they were last given | publish, subscribe, unsubscribe; `update` publishes `stateChange` | handlers that update, subscribe or unsubscribe within the publication that called them | whoever subscribes knows the newest state |
| `composable-controller` | a copy of its children's states | a subscriber of each child | the same | the copy is the newest |
| `chain-controller` | clients per chain | forwards calls | none | – |
| `rate-limit-controller` | counts per API and origin | `call`, reset by a timer | the timer of one window and calls of the next | never more than the limit per window |

### Confirming, signing, sending

| component | state | operations and interactions | hard behaviours | correct when |
| --- | --- | --- | --- | --- |
| `approval-controller` | callbacks per id, `pendingApprovals`, counts per origin and type, the stack of flows | `add`, `accept` (also waiting for the requester's result), `reject`, `clear`, `startFlow`, `endFlow`, success and error pages | the same thing stored three times; a result that never comes; flows that end out of order | copies agree; one pending request per origin and type; every promise settles once |
| `transaction-controller` | `transactions` (persisted), a mutex, ids in approval, nonce locks per chain and account, listeners per transaction | add, approve, sign, publish, fail, cancel, stop, speed up, wipe, external and custodial transactions, restart | restart between any two steps, several waiters for one transaction, changes of the network, trimming of the history, locks left behind by errors | published only if confirmed, once, with its own nonce; statuses advance; every call is answered |
| `…/PendingTransactionTracker` | blocks since a transaction was last seen, resubmission counts, a global lock | on each block: receipts, drops after three blocks without the nonce, resubmission with growing delays | snapshots written back after awaits; forced checks beside the poll | a final transaction stays final; no duplicate of a nonce confirmed |
| `…/IncomingTransactionHelper`, `MultichainTrackingHelper` | last fetched block, running flag, a mutex; helpers, trackers and nonce locks per client | start, stop, fetch, per block; follow the network clients | stop during a fetch; a client removed while its lock is held | the cursor never skips; trackers are those of the clients |
| `…/GasFeePoller`, edits, simulation, fees, swaps | fields of an unapproved transaction | edit, simulate, estimate, speed up, follow the balance of a swap | each reads the record, awaits and writes it back | what is shown is what is signed; fees fit their envelope |
| `signature-controller`, `message-manager` | unapproved messages per manager, with the status of each | request a signature, approve, sign, deferred signing, reject all | a listener added after the message is settled, signing that fails after approval | each request is answered by its own message |
| `keyring-controller` | keyrings, the password, the encrypted vault, two mutexes | create and restore vaults, unlock, lock, add and remove accounts, sign, QR devices | failure between changing keyrings and writing the vault; operations that wait for a mutex while the wallet is locked | memory and vault agree; a failed operation changes nothing |
| `user-operation-controller` | user operations with their status | add, prepare, approve, sign, submit, poll | approval that changes the operation; failure in each stage | submitted operations are signed as confirmed |
| `permission-controller` | permissions per subject, side effects in progress | grant, incremental requests, revoke, caveats, execute | approval of something stale; a side effect that fails after others succeeded | what is granted was requested or approved |
| `…/SubjectMetadataController` | metadata per origin, the origins met without permissions | add, trim | the bound is kept with a set that is ordered by insertion | only subjects with permissions survive trimming |
| `permission-log-controller` | the last calls, and when each dapp was given what | a middleware around the restricted and internal methods | answers out of order, answers to calls that the limit has dropped | the log says what was answered; nothing given is forgotten |

### Accounts, assets, services

| component | state | operations and interactions | hard behaviours | correct when |
| --- | --- | --- | --- | --- |
| `accounts-controller` | internal accounts, the selected one | follows the keyrings and snaps, select, rename | accounts that go while selected; events while locked | the selected account exists |
| `preferences-controller` | identities, selected address, flags | follows the keyrings; setters | selected identity removed | identities are the accounts |
| `assets-controllers`: tokens, detection, rates, lists, NFTs, currency, account tracker, contracts | caches per chain and account | add, ignore, detect, fetch; follow network and account | an answer for the chain or account that was left; two answers merged out of order | what is stored for a chain came from it |
| `gas-fee-controller`, `polling-controller` | estimates; tokens per poll | start and stop by token, poll | a poll whose last token is gone; late answers | no poll without a token |
| `phishing-controller` | two lists of sites with the time of their last diff; bypassed origins | refresh when out of date, test a site, bypass | downloads that fail or overlap a restart; allowed sites below blocked ones | no diff is skipped; a site is judged by the lists there are |
| `name-controller`, `ens-controller` | proposed and saved names per source; resolved names | propose, set; resolve | requests in flight; a network that changes between two lookups | sources are not asked too often; a name is one of its network |
| `notification-services-controller`, `profile-sync-controller` | notification lists; triggers and push links kept at servers; the session | enable, disable, update triggers; sign in and out; push | read-modify-write of a remote store; flows of several requests | triggers and links follow accounts; who signed out stays so |
| `notification-`, `announcement-`, `address-book-`, `logging-controller`, `controller-utils`, `build-utils` | plain maps, or none | one synchronous update each | none | – |

## Plan

The modules were written in this order, most important behaviour first; all of
the parts exist now.

1. The request queue (`QueuedRequestController`) with its abstract specification
   (`RequestBatches`) and proofs of type correctness, of the count and of isolation.
2. The network clients (`NetworkClients`), their lookups (`NetworkController`) and
   the networks of dapps (`SelectedNetworkController`).
3. Approvals and the way of a transaction to the network (`ApprovalController`,
   `TransactionStore`, `TransactionController`); then what becomes of it
   (`PendingTransactionTracker`, `MultichainTrackingHelper`), and what happens to it
   before (`TransactionEdits`, `TransactionFees`, `TransactionSimulation`).
4. The keyrings, the vault and what follows them (`KeyringController`,
   `AccountsController`, `Wallet`), with proofs about the password, the followers and
   the vault.
5. Consent: `ApprovalFlows`, `PermissionController`, `SignatureController`,
   `UserOperationController`, composed in `Consents`; `MessageManagers` and
   `RestrictedMethods`.
6. What asks servers again and again: `PollingController` with the rates and the
   account tracker, `JsonRpcEngine`, composed in `Services`, with liveness.
7. What is kept of late answers: `TokensController` with the NFTs, `NameController`,
   `ChainPolls`, `ProfileServices` with the notifications, `ControllerMessenger`,
   composed in `LateAnswers`; `TokenDetectionController`, `PhishingController`, in `Dapps`.

Proofs followed in the same order: the queue, the networks, the transactions, the
consents, the wallet, the trackers, the late answers, the services, and what dapps are
served and users are told (see [proofs](#proofs)). Every invariant and every action
property of a run is stated by a theorem by now; liveness stays with TLC. What could come
next is an abstract wallet whose operations happen or do not, which `KeyringController` would implement.

## Modules and how they correspond to the code

A module has the variables of its controller, one action per operation or
continuation, and its properties at the end. Names of definitions are those of the
source where there is one. "history" in the comment of a variable says that the code
has no such variable: it remembers what a property speaks of, and nothing else
reads it. Steps that are not the controller's (users, networks, servers) are bounded
by a constant `Max…`. Where several components share no state, a composing module
(`Consents`, `Services`, `LateAnswers`, `Dapps`, and the end of
`MultichainTrackingHelper`) has a variable `part` that says whose behaviour this is:
one run then checks all of them, and their states add up instead of multiplying.

### The request queue

`QueuedRequestController` models `enqueueRequest` as four steps of each request:
the call itself (`enqueueRequest`: queue it, wait for a switch, or go on), the end
of a switch (`switchSettles`), the end of `requestNext` (`requestNextSettles`), and
the continuations in between. JavaScript runs continuations of settled promises in
the order in which they were queued, before anything else that waits for input or
output; here that order matters, so `microtasks` is this queue, and `runMicrotask`
runs its first element. A batch that has been dequeued is kept under the name of
its first request, whose call awaits the switch (`batch`); when the switch settles,
all of its members are resumed in order. `processingRequestCount`,
`queuedRequestCount` and `originOfCurrentBatch` are the fields of the same name. The
network side is reduced to the selected network, the networks of the domains, and
switches that end, or fail if `SwitchMayFail`. `flushQueueForOrigin` is the part of
a change of domain that concerns the queue.

`RequestBatches` is what the queue promises to the rest of the wallet: a request is
active after it has arrived and before it is over, requests of two dapps are never
active together, and none overtakes another. `ImplementsBatches` maps the arrivals,
the requests inside `requestNext` and those that are over to it.

### Networks

`NetworkClients` holds what `NetworkController` does synchronously: the registry of
network clients (a record with a serial number for each, since two clients of the
same configuration are different objects), the selected network, the client the two
global proxies forward to (they change together), and the operations up to their
first await: `initializeProvider`, `setActiveNetwork`, `resetConnection`,
`rollbackToPreviousProvider`, `upsertNetworkConfiguration`,
`removeNetworkConfiguration`, `loadBackup`. `NetworkController` adds the lookups:
each call in flight is a record of what it read before its await, and the listeners
that `lookupNetwork` subscribes are the flag `networkChanged` of the call, raised by
whatever publishes `networkDidChange`. `SelectedNetworkController` composes
`NetworkClients` with the domains, their proxies, the preference and the subjects of
the `PermissionController`; an event that announces a change is handled in the step
that makes it, with the part of the state that the code has already changed
at that point.

### Approvals, and who asks for them

`ApprovalController` is the pending approvals (`approvals`), what the user is shown
and the counts, which the code keeps apart. `ApprovalFlows` adds the stack of flows,
the pages of success and error, and `uiWaits`: user interfaces that accepted with
`waitForResult`. It is extended by the controllers that ask for confirmations:

- `PermissionController`: a request is checked, approved (the user may restrict it),
  its side effects run, and it is granted by replacing or merging. What an
  incremental request read before the user was asked stays in its record.
  `SubjectMetadataController` is part of the module, since grants ask it for the type of
  a subject and trimming asks which subjects have permissions.
- `SignatureController`: a message with its status, its approval, the call of
  the dapp (which listens to the first final status only), a custodian who signs
  later, and `rejectUnapproved`. Here a message is text; the four managers with their
  lists, validation and results are `MessageManagers`.
- `UserOperationController`: what a request offers, what the account built from it,
  what a paymaster vouches for, and what the bundler got are separate fields, each
  "given" or "edited": the property compares them. Polls of
  `PendingUserOperationTracker` overlap.

`RestrictedMethods` is what permissions are good for: the middleware,
`executeRestrictedMethod` and `getEndowments`, decorated with caveats, of a wallet
that may be upgraded to a version which knows other methods and caveats; and
`PermissionLogController`, which sees the calls pass. At its end is
`RateLimitController`, which limits them. A caveat that `permission-controller` calls
unrestricted is a value of its own (`Unrestricted`), and a revocation is the map
without the pairs it names (`withoutPermissions`).

### Transactions

`TransactionStore` has the transactions and the helpers on them;
`TransactionController` the calls. A call of `addTransaction` with the promise it
returns is one request: `request` says where it stands, `txOf` which transaction it
is about (its own, or the one with its `actionId`), `finished` what the hub has told
it. `mutex` is the queue of calls of `approveTransaction`, `approval` where the first
of them stands, and `nonceLock` the queue at the lock of `NonceTracker`, which others
use too. The steps of an approval are `approvalStarts`, `nonceLockGranted`, `signed`,
`networkTakes` (the network has the transaction, its answer is on the way) and
`submitted`, each of which may be `approvalFails` instead; `transactionNotFound` is the
exception between acquiring the mutex and the `try`. `restarted` keeps
`transactions` only and runs the constructor: what is unapproved is asked again, what
is approved is submitted. Trimming (`IsTrimmedTo`) walks from the newest to the
oldest, keeps what is not final and drops what is when the limit of distinct nonces
is reached. The nonce is the one the network expects or the next one after those of
pending transactions (`suggestsNonce`). What a missing chain, a missing signer or
an exception in a hook does is the same failure of the approval. Accepting or
rejecting an approval and the continuation of the promise it settles are one step:
nothing is queued between them. `initApprovals` runs once, at the start. One
account, one chain and one day are modelled here.

`PendingTransactionTracker` begins where a transaction is submitted. Each check of a block and
each pass of resubmissions is a record with the list of copies it began with, and
works it off one request at a time; the global lock is a queue. The network mines
one transaction per nonce, and a node that is out of sync denies receipts a few
times (`MaxMishaps`). `MultichainTrackingHelper` has, beside the map of trackers and the nonce
locks, the helpers for incoming transactions: cursors per account and
variation, the mutex of the explorer's client, and fetches in flight.

Before submission, in modules of their own as they touch other fields of the
record: `TransactionEdits` (the record has a version of its parameters and the notes made of it;
edits, notes, simulations, the poller and the approval each read it, await, and write), `TransactionFees`
(envelope types, the two kinds of fees and the compatibility that decides between
them, as numbers, with the increase by a tenth and the buffers of gas; and the same
for user operations), `TransactionSimulation` (events of contracts, the two
simulated executions, and balances before and after; at its end swaps, whose
balances before and after a node may not know yet).

### Keyrings, accounts, identities

In `KeyringController` every operation is a call that takes the mutex (`op`) and
keeps it until it has written the vault or finished the rollback. A call that waits
for the mutex holds nothing but its arguments, so it begins when it gets it
(`begins`); the one exception is `getOrAddQRKeyring`, which looks at the keyrings
first (`qrKeyringMissing`). A call that changes keyrings does so up to its first
await and then writes (`persists`) or throws (`fails`); `cleared`, `restored`,
`rolledBack` are the loop that destroys and rebuilds the keyrings, during which
others see them half-built; `vaultUpdated` and `vaultUpdateFails` are `#updateVault`.
`stateChanges` is an `update` with its subscribers: in the same step
`AccountsController` and `PreferencesController` (both in the module
`AccountsController`) follow. `Wallet` adds the users of these two: selection, and
`updateAccounts`, which reads the addresses, asks for the keyring of each, one await
after the other, and then replaces the list.

A keyring has a type, the secret it derives from and a number of accounts; an account is a pair
of a secret and an index. "foreign" is a keyring whose type this build does not support. A
cached encryption key is named by the password it derives from, so salts are not modelled, and
a vault is its contents and the password that opens it. `Array.prototype.filter` is a selection
of positions (`at`), without recursion. Left out: the re-encryption of vaults of an old format
at unlock, the removal of any but the newest account of a keyring, accounts of snaps, lost
identities, `removeIdentity`.

### Services

`PollingController` has timers as objects (`Timers`), so that two loops of one key
can exist if the code lets them. In the same module, the account tracker reads
balances in refreshes that wait for each other under a mutex, and the rates are three
controllers, in three parts; a rate is the currency it was asked for, a price the chain
and the tokens. `JsonRpcEngine` follows a request through an engine with a nested engine, an
asynchronous middleware, remapped ids and the stream to another context, and the
return handlers back; any middleware may call next, end, fail, do both, or neither.

### Late answers

`TokensController`, with `NftController` at its end, is what users imported: the mutex, the
awaits under it, the operations that do not take it, and the second copy of the lists that the
user interface reads. `NameController` has proposals per source with times, and the two
requests of the reverse lookup of ENS. `ChainPolls` is `GasFeeController`,
`TokenListController` and `TokenBalancesController`: timers, a mutex, abort controllers, and
the polls by network client, of which there is one answer at a time on its way.
`ProfileServices` has the session (`AuthenticationController`, `UserStorageController`), the
links of `NotificationServicesPushController`, and of `NotificationServicesController` the
triggers at the server and in the remote storage, and the lists that are fetched and pushed.
`ControllerMessenger` has the publications as a stack of frames, each walking the subscribers
it found, including those that are added while it walks. `TokenDetectionController` has each
detection as a record with its account, chain and the slice it waits for, and the list that
they share. `PhishingController` numbers the diffs of a server, and judges sites as sequences
of domain parts.

## Runs

| run | instance | shows |
| --- | --- | --- |
| `QueueQuiet` | 3 dapps, 5 requests, 2 networks, one dapp without a network of its own; no failing switch, no change of domain, no immediate switch | `BatchIsolation`, `HandedOnOnOwnNetwork`, `EveryRequestSettles`; the queue implements `RequestBatches` |
| `QueueBusy` | 4 requests, with failing switches, changing domains, a user who switches, a request that switches for itself | `TypeOK`, `WaitersHeldOnce`, `CountIsExact` |
| `QueueIsolation` | 4 requests that all switch for themselves | `BatchIsolation` fails |
| `NetLookups` | 2 networks on 2 chains, 2 calls in flight | `LookupsInform` (types, the selection is looked up, nobody stays blocked), `LookupRecordsItsNetwork`, `SelectionSettles` |
| `Dapps` | a dapp and a snap, 3 networks; 3 diffs of 2 phishing lists and 3 sites; 6 calls under a limit of 2; fees of a transaction and of a user operation; 3 logs of a simulation; 2 messages; 2 calls of methods in 4 versions of the wallet; 3 calls in a log of 2; a swap with 3 attempts; 2 detections in 2 accounts | `RoutesAreKept`, `DappsAreServed`, `UsersAreInformed`, `FeesAreSound` |
| `Transactions` | 2 calls with one `actionId`, one of them without confirmation; 1 restart, 1 change of the network, 1 wipe, history of 1 | `PublishedWasAccepted`, `PublicationsAreDistinct`, `AwaitedIsAsked`, `StatusesAdvance`, `DecisionsAreAnswered` |
| `Tracking` | a transaction and its replacement, 2 blocks, 2 passes and 1 denied receipt; 2 helpers, 2 accounts, 2 heights; 2 clients and 2 calls for a nonce | `OutcomesAreTrue`, `HelpersKeepUp`, `SpentNoncesSettle` |
| `Consents` | 2 requests for permissions with a cache of 1 subject and 1 restart; 2 flows and 2 pages; 2 messages, one typed; 1 user operation with 2 polls | `ShownIsOpen`, `PermissionsAreConsented`, `SignaturesAreConfirmed`, `OperationsAreAsApproved`, `MetadataOfSubjectsIsKept`, `WaitersAreTold` |
| `Services` | 2 holders of tokens and 3 timers; 2 currencies, 2 chains, 2 loops of prices; 2 refreshes of 2 accounts on 2 networks; 2 requests with 1 retry | `ServicesStayInStep`, `ServicesGoOn`, `RequestsAreAnswered` |
| `LateAnswers` | 2 chains, 2 accounts, 2 calls each for tokens and NFTs; 3 subscribers; 2 jobs of notifications; a name with 3 sources; 2 chains of ENS; 2 each of fetches of fees, lists and balances; 2 edited transactions; 2 calls for a session and for pushes beside another device | `AssetsAreKept`, `PollsFollowNetwork`, `EditsAreKept`, `AnswersAreKept` |
| `Keyrings` | 2 passwords, 2 recovery phrases, 1 imported key, a QR device, a foreign keyring, up to 2 accounts each; 3 calls, 1 `updateAccounts`; with and without cached keys | `TypeOK`, `ShownIsKept`, `PasswordOpensUncachedVault`, `NothingIsLost`, `FollowersAgree` |
| `KeyringsRekeyed` | the same | `PasswordOpensVault` fails |

A property of a composing module is the conjunction of the named properties of its
parts; the comment of each part's property says what it is about:

- `RoutesAreKept`: `DomainsAreUsable`, `ProxyRoutesToDomain`, `ClientsAreConfigured`
- `DappsAreServed`: `NobodyIsShutOut`, `MessagesAreAnswered`, `CallsAreRestricted`,
  `PermissionsAreLogged`
- `UsersAreInformed`: `ListsHaveNoGaps`, `SitesAreJudged`, `ShownChangesAreTrue`,
  `SwapsAreFollowed`, `DetectedIsHeld`, `NothingIsMissed`
- `FeesAreSound`: `SignedFeesFit`, `AskedFeesArePaid`, `ReplacementsPayMore`, `GasCoversEstimate`
- `HelpersKeepUp`: types, `NothingIsSkipped`, `TrackersFollowClients`, `NonceLockIsHeldByCall`
- `ShownIsOpen`: types, `ApprovalsAgree`, `FlowsShownAreOpen`
- `PublicationsAreDistinct`: `PublishedOnce`, `NoncesDistinct`
- `ServicesStayInStep`: types, `PolledWhileAsked`, `RatesAreInCurrency`, `AnsweredAsAsked`
- `ServicesGoOn`: `PollsGoOn`, `RatesCatchUp`, and again and again `BalancesAreCurrent`
- `AssetsAreKept`: `ImportsAreKept`, `NftsAreKept`
- `PollsFollowNetwork`: `FeesFollowNetwork`, `TokenListsAreKept`, `BalancesFollowTokens`
- `AnswersAreKept`: `ReadStaysRead`, `AccountsAreAddedOnce`, `TriggersAreKnown`,
  `NewestIsSeen`, `NamesAreKept`, `SessionsAreEnded`, `PushesAreLinked`
- `EditsAreKept`: types, `SignedIsShown`, `SimulationIsOfCall`, `NotesAreKept`, `EstimatesGoOn`
- `LookupsInform`: types, `SelectionIsLookedUp`, `NotStuckBlocked`

Why the bounds are enough. The queue compares origins of neighbours and counts
down to zero: three dapps give a batch before, the current one and one behind, two
requests of a dapp make a batch of more than one, and two networks a dapp that must
switch and one that need not. A lookup can be overtaken by a switch and by
the lookup of that switch: two calls. For domains, two custom networks let one be
removed while the other is selected, and a snap is a domain that may have none. Two
transactions are the least that wait for each other, collide in a nonce, or share an
`actionId`; one restart reaches every pair of a state before and the constructor
after; a history of one trims as soon as the second is final. The tracker needs a
transaction, its replacement with the same nonce, and two passes that overlap; a
denied receipt is what makes a drop wrong. Three calls of the keyrings are an
unlock, an operation that may fail, and the next one that would see what was left
behind. Consents need two requests to compete for an approval, and a cache of one
evicts with the second subject. Where an answer may be late, two calls overtake each
other, two chains and two accounts give one that was left and one that is
selected, and three or four steps of others take the wallet away, back, and change
something in between (A, B, A). A log of two of three calls drops one. A swap is
asked for three times, since the first and the last attempt differ from those between.

What the properties except. Some hold unless the code does what is listed under
[disagreements](#where-the-code-disagrees-with-its-comments); each comment says so,
and a history variable remembers that it happened:

- `PublishedOnce`, `NoncesDistinct` and `StatusesAdvance` speak of wallets whose
  network state did not change (a change queues approved transactions a second
  time), `DecisionsAreAnswered` of wallets that are not wiped in addition;
- `FollowersAgree` of `updateAccounts` calls that overlapped with no change of the keyrings;
- `SignaturesAreConfirmed` not of messages whose confirmation `rejectUnapproved` left open;
  `WaitersAreTold` not of operations that cannot be built again after an edit, and
  not of `transactionHash()` that came too late;
- `MessagesAreAnswered` of messages that end when their call waits;
- `ImportsAreKept` of calls for the selected network, without a change of the account
  during `addToken`; `NftsAreKept` without removals, switches and checks of everything within calls;
- `FeesFollowNetwork`, `TokenListsAreKept`, `BalancesFollowTokens` unless a first fetch
  failed or the network changed during it, a poll was of another network, or an
  update was late;
- `TriggersAreKnown`, `PushesAreLinked` unless calls that write the remote storage overlap;
- `SignedIsShown` unless an edit spans the approval; `NotesAreKept` unless a note is made
  within an edit or a signature; `EstimatesGoOn` unless an update failed;
- `NothingIsMissed` unless an answer failed, or something changed while a network without
  detection was selected; `SwapsAreFollowed` unless a change came after the last answer;
- `RequestsAreAnswered` if messages are not lost for ever, and no asynchronous
  middleware throws after it called next without waiting.

Deadlock is checked for the lookups (`NetLookups`), which never stop. A finite number
of requests, transactions, calls or changes is handled in the other runs, and then
nothing is left to do.

`LateAnswers` is checked up to permutations of networks, accounts, tokens, transactions and
calls (`Symmetry`): it checks invariants only, and no definition tells these apart. Parts have
model values in common there (`x1` is a call of each of them), to be permuted together.

### Fairness

- Queue: weak fairness of `runMicrotask` (the engine drains its queue), of the end of a switch
  (a lookup ends or times out) and of `requestNext` (every confirmation is answered or its
  window is closed, which rejects it). None for dapps and users.
- Lookups: weak fairness of `answered` (requests are answered or fail).
- Transactions: weak fairness of the steps of the holder of the mutex, of the release of the
  nonce lock by others and of the last step of `processApproval`. None for the user, the
  restart or the environment. `approvalAdvances` is one disjunction, since one call is at work
  at a time.
- Tracking: blocks come (`newBlock`), requests of a check end (`checkAnswered`), the next check
  gets the lock (`checksStart`), and a pass goes on (`resubmitted`), weakly. Nothing of what is
  mined.
- Consents: keyrings, custodians, accounts, paymasters, bundlers and the network answer, one
  way or the other, and polls go on (weak); a check of a receipt that is made again and again
  is answered at some time (strong). Nothing of the user.
- Services: timers fire, polls end, servers answer (weak), and sometimes with what was asked
  (strong: they may fail for a long time, but not for ever). In the engine every middleware
  calls next or end, and the other context answers what reaches it; that messages reach it is a
  premise of the property.
- Keyrings, `Dapps`, `LateAnswers`: no liveness is claimed.

## Proofs

A theorem holds for all constants that satisfy the assumptions named in the modules
(`ConstantsAssumption`, `NetworksAssumption`, `KeyringAssumption`, …), which ask for
little: that what stands for "none" is none of the values, that bounds are natural
numbers, that the keys of accounts are told apart from phrases and devices. Where a theorem
needs more, it says so in an `ASSUME` of its own. Each `…Proofs` module begins with its
inductive invariant, and has a lemma per action; where several components are in one
module, each has a section of this form. TLC checked the invariants on the
instances of the runs, too. The modules with proofs use no recursive operator: lists are filtered
by positions (`chosen`, `at`), and the rows that `TransactionSimulation` joins step by step
are a recursive function, about which the proofs argue by the least position at which a
claim would fail (`LeastIsThere`).

**The request queue** (`QueuedRequestControllerProofs`)

- `TypeCorrect`: `Spec => []TypeOK`. What
  is hard in it are the sequences: a batch is a prefix of the queue, and a flush picks
  the positions of other origins (`Array.prototype.filter`, as a function of positions
  without recursion), for which lemmas at the start of the module show
  that the selection of a sequence is a sequence of the same elements, in order.
- `InProgressCounted`: `Spec => []CountIsExact`, with failing
  switches and changes of domains. `CountIsExact` is not inductive: a request could be
  in two places at once and be counted by both. `CountInv` adds that a request that
  waits is in the queue or in one batch, at one position, where `pc` says
  (`WaitersApart`), and that finitely many are in progress.
- `WaitersAlwaysHeldOnce`: the converse, that whoever waits is held somewhere. `HeldInv`
  adds to `CountInv` that a batch is kept by its first member (`LeadersLead`), that a switch
  under way is awaited by its own request or by such a leader, who has no continuation
  yet (`SwitchesAwaited`), and that a continuation is the only one of its request and
  belongs to the await this is at (`TasksAwaited`).
- `UndisturbedIsolation`: if no request switches for
  itself, no switch fails and no domain changes (`Undisturbed`), requests of two dapps
  are never in progress together, whatever the user selects. The inductive invariant
  `IsolationInv` adds to `CountInv` that everyone who is in a batch, is resumed or in
  progress belongs to `originOfCurrentBatch` (`OneOrigin`), that a batch waits alone
  (`BatchWaitsAlone`), that the continuations of resumed requests run before those of
  requests that end (`MicrotasksInOrder`: this keeps the count from reaching 0 while
  some of a batch are yet to be counted), and that a queue that is not empty shows in
  `queuedRequestCount` (`QueueIsCounted`). Run `QueueIsolation` shows that the
  assumption on requests that switch for themselves cannot be dropped.
- `UndisturbedRefinement`: undisturbed, the queue implements `RequestBatches`. Each step
  maps to a step of the specification or to a stutter; starting needs that no
  earlier request of another dapp is still waiting, so `RefinementInv` adds that the
  queue is the last part of the arrivals, in their order (`ArrivalsInOrder`).
- `UndisturbedNetwork`: undisturbed, and while the user selects no other network
  (`UserMaySwitch = FALSE`), a request is handed on only on its dapp's network.
  `OwnNetwork` says so of everyone who is in a batch, or is resumed and not yet handed on.

**Networks** (`NetworkProofs`, which begins with what every operation on clients keeps)

- `LookupsAlwaysInform` and `LookupsRecordTheirNetwork`. A
  lookup trusts its answer if no `networkDidChange` was published since it was asked:
  `LookupInv` says that such a call is about the selected network still
  (`LookupsAreCurrent`), for which the proxies must not forward to another client in
  between (`ProviderIsSelected`). The second is an action property, of that invariant.
- `RoutedAlways`: only dapps that may have a network have
  one, their proxies forward to it, and no client is dropped without `destroy`.
  `RoutesInv` is inductive: types, the registry and one statement per domain.
- `RoutesAlwaysKept`: `RoutesAreKept`, under `SelectionStays` (the selected network is
  not removed, no backup is loaded, and the persisted selection exists). That the
  networks of domains exist is not inductive: a removal
  moves them to the selected network, so that has to exist, too (`ExistInv`).

- `RoutesOfDappsAreKept`: the same for the run, whose specification has the networks as one
  of its parts (`NetworksOfDapps`).

**What dapps are served, and users are told** (`NetworkProofs`, from its middle on; the
parts of `Dapps` share no state, so each has an invariant of its own)

- `FeesAlwaysSound`: `FeesInv` says that from the moment the user is asked there are both fees
  of EIP-1559 or a gas price, whoever of the dapp, the saved fees, the estimates and the edits
  gave which of them, and that the envelope fits once it is signed. That estimates are of one
  kind whatever the account is, is what the cases in `updateGasFees` must repair. An increase
  by a tenth rounds down, so "a tenth more" is stated and proved up to one wei.
- `DappsAlwaysServed`, of four invariants. A count that is not zero has a timer (`LimitInv`). A
  message whose call listens has not ended, and a call that ended was told the first end of its
  message (`MessagesInv`). A
  method that runs has the caveats of its permission as they were when it was called, each of a
  type that this version of the wallet decorates (`MethodsInv`); the answer is then within the
  innermost caveat, and the one further out only takes away (`DecoratedIsWithin`; permissions
  of the model have two caveats at most). The log is ordered by calls and has the last ones
  (`LogInv`: what is not listed is older than all of a full log).
- `UsersAlwaysInformed`, of four. `PhishingInv`: there is one diff up to which every list has
  its own and nothing else (`HaveAll`), some list knows its number, and an update that is under
  way asks for none after it. A stalelist that is answered late may take the lists back, but no
  hotlist is asked for meanwhile, so that one that is under way asks from no later than that.
  The verdicts follow (`SitesStayJudged`). `DetectionInv`: what the detector has in its fields
  follows what is selected, and a token on its list is known or asked for by a detection
  (`IsCovered`); a detection that began before the list was changed is marked as mixed.
  `SimulationInv`: a token of which the user gains or loses is named by an event that is listed
  (`GainsAreListed`, since contracts emit what they do); each token is asked for once, each
  answer is found at the position it was asked at, though tokens that are minted are not asked
  for before, and so the changes shown are one for each gain. `SwapInv`: what follows a swap,
  and the copy it carries across its sleep, have the balance and the kind of the transaction
  that is listed.

**Transactions** (`TransactionControllerProofs`)

- `PublishedIsAccepted`, `AskedIsAwaited`: from `ConsentInv`, which adds that the holder of the
  mutex has a transaction (`HolderExists`), that a call is with the user or in the queue for
  the mutex, once (`CallsAreQueuedOnce`), that who has added a transaction does not add it
  again (`AddedOnce`), that all that is on its way was confirmed (`OnlyAllowed`), that a nonce
  is given with the approval and known to the holder (`NoncesAreKnown`), and that transactions
  differ in their times, which trimming sorts by.
- `PublishedOnceEach`: from `PublicationInv` in addition, which holds while the network has not
  changed: a transaction is in the queue once (`QueuedOnce`), only the holder's is approved
  (`ApprovedIsNext`), what was published is not in the queue and cannot return to it
  (`PublishedIsOver`), and what is submitted next has a nonce that nothing submitted has
  (`NextNonceIsFree`).
- `TransactionsAdvance`: the action property `StatusesAdvance`, from the same invariants.

**Consent** (`ConsentsProofs`; `ApprovalControllerProofs` has what each operation of
`ApprovalController` does to its three copies, for this module and the one before.
`ApprovalsInv` has it that finitely many are pending: they are counted.)

- `ShownIsAlwaysOpen`: flows are on the stack once and have an approval, wherever in
  the stack they end.
- `PermissionsAlwaysConsented`: what is permitted was approved (`justified`), of
  requests in flight too, whatever they read before the user was asked.
- `SignaturesAlwaysConfirmed`: a call that hears of a final status hears the first one
  (`MessageInv`), and only a call that asks the user has an approval (`AskedInv`).
- `OperationsAlwaysApproved`: from the question to the bundler, the operation is as it was
  built for this request, and its paymaster data was made for it (`OperationInv`).
- `MetadataAlwaysKept`: the action property `MetadataOfSubjectsIsKept`.

**The wallet** (`WalletProofs`)

- `PasswordOpens`: without cached keys the vault opens with the last password that was set.
  `PasswordInv` says, for every point of a call, where the password in memory comes from:
  between calls it is absent or the last one set, during a call that sets one it is that one,
  and before the end of a rollback it may be anything, while the one to roll back to is known.
  The password is what `#updateVault` encrypts with, so it must be known there; and it is set
  before anything can fail, so that a missing rollback would break it later.
- `FollowersAlwaysAgree`: `FollowersInv` says the same of `shown`, the keyrings that
  subscribers were last told, at every point of a call, and that an `updateAccounts` that
  overlapped with no change looks up just what is shown.
- `TypeCorrect`, `ShownIsAlwaysKept`, `NothingIsEverLost`: from `KeptInv` (with `TypeOK`),
  which says for every point of a call what vault and memory have to do with each other. The
  list that a rollback restores is what the vault holds (`SavedIsKept`); while keyrings are
  rebuilt, those that exist and those to do make up the list, but for the unsupported ones, be
  the list the one to roll back to or that of the vault (`RestoringIsKept`, `Rebuilt`); an
  unlock that is about to be reported holds what the vault holds (`UnlockingIsKept`); a call
  that is about to write has lost no account unless it was asked to (`PersistingIsKept`). And
  what is unsupported is in the vault, and listed again by each restoration (`MemoryIsSound`).
  None of these is inductive without the others: a failure leads from writing to clearing, to
  restoring, to the idle wallet. The action property then follows for the one step that writes
  the vault. `VaultAssumption` says that no vault is not a vault.

**Services** (`WalletProofs`, its second half)

- `ServicesAlwaysInStep`: `ServicesInv` is one invariant for each part. A key that somebody
  holds is polled by one timer, the one its `intervalIds` names, so that a late poll sets no
  second one, and a client that is gone was removed for all who polled it (`PollsInv`). A fetch of rates that
  is under way asks in the currency that is set, and has found none in another (`RatesInv`). Refreshes are in the line of the mutex once, and who reads is the first
  (`BalancesInv`). In the engine, `EngineInv` says of each place of a request which return
  handlers are kept: rising on the way down, all of them in reverse once it turned, fewer only
  if one of them failed; the id is the remapped one inside and the caller's outside; and the
  log has the answer unless something above it changed that.

**What becomes of a transaction** (`TrackingProofs`)

- `OutcomesAlwaysTrue`: `TrackerInv` says that every copy of a transaction that a poll, a check
  or a replacement carries across its awaits was made while the transaction was pending
  (`CopiesAreSound`), so that writing it back changes the outcome only to what it is
  known to be; that the network mines the nonces in order, and what it was sent (`MinedInOrder`,
  `MinedWasSent`); that the call whose checks are under way holds the lock (`LockIsHeld`), that a
  pass waits for the network only within its call (`PassIsCalled`), and that a forced check is
  that of a replacement, once (`ForcedOnce`). The hard part is `DROPPED_BLOCK_COUNT`. A
  transaction that is in a block is dropped if enough checks count that it is not: a check may
  have been told so before the block came, or by a node that is out of sync. `CountsAreLate` bounds
  the checks that still count against such a transaction, with those that have, by the mishaps plus
  one, and `LeftByMishaps` bounds by the mishaps the calls that an error left behind with checks under
  way, each of which could count. The theorem therefore assumes what the model does of
  nodes and errors: `MaxMishaps < DroppedBlockCount`.
- `HelpersAlwaysKeepUp`: `HelpersInv`. A helper that fetches is the first of those that wait for the
  explorer (`FetchesInTurn`); blocks are those up to a height no cursor is beyond
  (`BlocksInOrder`), and a fetch under way asks for everything the cursor has not
  reached, wherever that is by now (`FetchesFit`), so that an answer, moving the cursor to its newest
  block, skips nothing. For the nonce lock (`NonceCallsInTurn`): a call is in the
  queue for it once, only the first is past its wait, and a call that waits has its client
  unless clients were removed.

**Late answers** (`LateAnswersProofs`: the parts share no state, so each has an invariant of
its own, which the steps of the others leave as it is)

- `PollsAlwaysFollow`: a fetch of gas fees that no switch crossed asked its own chain
  (`FetchesAreOwn`), and while the polling is reset the tokens to take up again are with
  the one call that does so (`PollingGoesOn`). Who fetches a list holds the mutex and
  writes back all that was cached (`FetchesHaveMutex`). The last update of the balances is of
  the tokens told last, unless a later one has ended (`LastIsNewest`).
- `EditsAlwaysKept`: `EstimatesInv` counts the updates that will be followed by another;
  `TransactionInv` says of each copy of a transaction that somebody carries across an await, an editor or
  the one that signs, what it has in common with what is listed (`SignedWasConfirmed`,
  `NotesAreCarried`).
- `AssetsAlwaysKept`: with the mutex, who awaits an answer is the first in line
  (`TokenMutexInTurn`, `NftMutexInTurn`). What was read before has every
  import (`FoundIsKept`); for NFTs, whoever asks about a contract has read all that are there,
  and who adds an NFT has added its contract (`ContractsAreRead`), in the
  same turn or in the one before, which only an incident in `disturbed` can undo.
- `AnswersAlwaysKept`, of six invariants. Names: what a source said last is what the
  entry has, until it expires, so that the delay is known when it is asked (`HeardIsProposed`).
  The session: who asks for one was allowed to, and while syncing is off nobody turns it on
  (`CallsAreAllowed`). Pushing: what a call that is alone has read and will write of the two
  devices is what the server has (`StageIsLinked`, `StageKeepsDevice`). Notifications: what a
  writer that is alone will write has the triggers of the server, wherever it fails
  (`WritesAreKnown`). Events: a subscriber for which an older
  publication still has a call is overtaken (`OldersAreOvertaken`), and one that is not has the
  newest state, or its publication still comes to it (`NewestComes`), through any
  number of publications within publications.

TLC cannot enumerate the types in `ProposalsInv`, the invariant of names; it checked the rest
of it. And it looked for the diff of `PhishingInv` among those there are.

Model-checked only, and why:

- Liveness (`EveryRequestSettles`, `DecisionsAreAnswered`, `SelectionSettles`,
  `SpentNoncesSettle`, `WaitersAreTold`, `ServicesGoOn`, `RequestsAreAnswered`) and what the
  fairness conditions enable: the provers have no rules for fairness here.

Neither checked nor proved is what the environments of the models may do: that contracts emit
events that agree with the balances they change, that a token is minted once, and what answers
contain (`Emittable`, `emit`, …) are parts of the models. The runs that fail (`QueueIsolation`,
`KeyringsRekeyed`) show that an assumption of a theorem is needed.

## Where the code disagrees with its comments

Shown by runs:

- `queued-request-controller`: "Processing requests in batches allows us to completely
  separate sets of requests that originate from different origins". A request that
  awaits its own switch is not counted; the end of another one lets the next dapp in (`QueueIsolation`).
- `keyring-controller`: a restored vault is encrypted with the cached key of the
  previous one (`KeyringsRekeyed`).

Met while modelling. The models have each of these; where a property would fail, its
comment names the exception.

*Requests and networks*

- `queued-request-controller`, "All requests get processed": a flush leaves
  `queuedRequestCount` as it was, so a later request is queued with nobody to dequeue it.
- `network-controller`: `getEIP1559Compatibility` records the answer of the network the
  wallet has left for the one it has now.
- `permission-controller`: `requestPermissionsIncremental` grants over what it read before
  the user was asked, replacing what is there; metadata may be evicted between
  approval and grant, so that side effects ran and the grant throws;
  `grantPermissions` with `{}` makes an empty subject; a restricted method that runs when its
  permission is revoked still answers. `addSubjectMetadata` of an origin it has met,
  at the limit, may delete what it adds. `clearState` emits a patch of the root, which
  `SelectedNetworkController` does not look at.
- `json-rpc-engine`: if nothing ends a request, or a return handler fails, later
  handlers do not run, and the answer may carry the remapped id; an asynchronous
  middleware that throws after it called next without waiting leaves the request open.
  `permission-log-controller` notes a success for an error that came after a result.
- `rate-limit-controller`: recording a call of one origin forgets the others' counts for that API
  (`RateLimitController.ts:210`), so origins that call in turn are not limited; a timer
  of before cuts a window short.
- `phishing-controller`: a failed download of the "stalelist" counts as fetched, for 30
  days; an answer that is late takes the lists back; a bypass is of the origin as it
  is written, with or without a dot at its end.
- `base-controller`: a subscriber that updates the publisher within a publication leaves later
  ones (`ComposableController`) with the older state; selected values are cached by
  handler, not by event.

*Transactions*

- `approveTransaction` may throw while it holds its mutex but before its `try`
  (2630), and its guard against approving twice never applies: a change of the network
  has what is approved processed twice.
- Two overlapping calls with one `actionId` both add a transaction; a call that joins a
  confirmed transaction is told "Unknown problem", one that joins a transaction that
  stays signed, or is rejected and trimmed, waits for ever; a transaction that is
  signed when the wallet is closed is never taken up again.
- `getNonceLock` throws with the lock of the chain held if the client is gone.
- `PendingTransactionTracker`: a request that fails in a check releases the global lock while others of
  that check are on their way; "We wait this many blocks" counts checks, not blocks; a known error
  of one transaction ends the pass for the others; overlapping passes send twice and
  lose a `retryCount`; copies of before are written back.
- `IncomingTransactionHelper` looks the cursor up after its fetch, when the account may be
  another; `getLocalTransactions` is not given, so what is known is announced again.
- `updateEditableParams` writes back what it read before its awaits: a submitted
  transaction is listed as unapproved again, is asked again after a restart, and could be
  published twice; an edit that spans the confirmation is signed unseen; a late
  simulation of old parameters replaces a newer one, and an edit of fees alone that
  spans its end shows it as loading for ever; a changed `from` is not simulated.
- `GasFeePoller` ("Automatically polls…"): an update that fails ends the chain of timers while `#running`
  stays true; a stop during an update leaves a second chain.
- Fees: a transaction whose envelope does not fit the fees that are filled in is
  added, but every later update of it throws, that of its failure included; fees that
  were asked for are lost if the account becomes incompatible between two
  questions; fee-market values for the replacement of a legacy transaction are not
  compared with its price; below 10 wei a tenth rounds to nothing.
- Simulation: leading zeros are cut from addresses, so that NFTs of an account that
  begins with 0 are not seen; the logs of nested calls are in another order than they
  were written, so that a token that is minted again in one transaction is shown
  wrongly (the model mints a token once); the two simulations may be of different blocks.
- Swaps: one whose gas cannot be estimated is cancelled before it is listed, so nobody
  is told; metadata of the page may replace the type; the balance of before is read before
  publishing, so another payment hides that the node is behind; changes after the last
  answer are undone.

*Confirming and signing*

- `approval-controller`: `endFlow` of a flow that is not the last throws, and a page that
  would end it only logs that; `accept` with `waitForResult` waits for ever if the
  requester reports no result.
- `rejectUnapproved` leaves the approvals open: a message may be confirmed and signed for a dapp
  that was told of its rejection. A call to decrypt, or for a public key, whose message
  ends before the call waits, is not answered. The chain of typed data is checked
  when it is asked only.
- `user-operation-controller`: `transactionHash()` asked after the event never settles; if an edited
  operation cannot be built again, the user interface waits for ever; operations
  that were under way at a restart are never taken up.
- `keyring-controller`: `setLocked` "deallocates all secrets" but keeps the cached encryption key;
  keyrings of unsupported types are listed once more at each unlock and each
  rollback, and end up in the vault of a restored wallet; two calls of
  `getOrAddQRKeyring` may add two keyrings; a restore that fails leaves the wallet
  unlocked without keyrings. `accounts-controller`: `updateAccounts` overwrites what the
  keyrings have announced meanwhile, and may leave a selection that does not exist.

*Assets*

- Tokens: `addToken` for another network, or across a change of the account, shows the lists of
  another pair, which `addTokens` and `ignoreTokens` then write into the selected one;
  `addTokens` with a network replaces its list, and compares spellings that differ. Detection:
  a late answer uses the list of a later detection; a network without detection is not noted,
  so that coming back detects nothing; overlapping starts leave two intervals.
- NFTs: the chain is read again in the second step of `addNft`; removals do not take the mutex;
  checks write back whole lists, or copies (a favourite is lost); a suggested NFT goes to the
  account that is selected at its approval.
- Rates: the mutex of `RatesController` is released before the callback has ended (97–104; its
  doc, 81: "only one instance of `callback` runs at a time"), so a late answer may show rates
  in the currency of before; `setCryptocurrencyList` writes a field that nobody reads; two
  changes of the currency in a row forget the natives. `AccountTrackerController` may list an
  account again that is gone.
- Lists and fees: each fetch renews the time of a cached list; a fetch for a client that is
  gone keeps the mutex; polls by client show another chain's list; gas fees are asked of the
  old chain once more after a switch, and a first fetch that fails, or a stop during it, leaves
  a token without timer or a timer without token.
- Names: another spelling of the chain is asked without delay; an older request may replace
  newer proposals. ENS: an address is looked up with one provider and verified with that of
  another network; `clear` removes what says which networks are supported.

*Notifications and profile*

- A sign-out during an authentication is undone when that ends; a session counts as valid
  until 30 minutes after its end (`Math.abs`, `AuthenticationController.ts:300`); turning syncing off
  while nobody is signed in throws and leaves it on; an authentication that fails while
  notifications are on calls itself again and again.
- A second `enablePushNotifications` forgets how to remove the listeners of the first; a
  failure to update the links is ignored; lists of tokens and of triggers are read,
  changed and written back, so two calls, or two devices, lose each other's changes.
- An account counts as seen before its triggers are made, so they are never tried again;
  and stays so when it is gone.

## What is not modelled

`PROJECT.json` lists every component with its status and, where it is "partly", what is
left out. Left out altogether:

- stateless code: `controller-utils`, the contract readers of `assets-controllers`, decoding and
  formatting, the layer 1 fees of rollups;
- stores whose operations are one synchronous update of one map: address book,
  announcements, notifications of snaps, logs;
- `chain-controller` and the adapters of streams and providers, which forward calls; the
  network client factories, whose clients are records of `NetworkClients`;
- build tooling.

Within the modelled parts: custodial transactions, hooks of a host (`beforePublish`, publish
without a raw transaction), the history of updates, batches and
notifications of JSON-RPC, the restriction of messengers to their lists, accounts of snaps, QR
devices beyond their one keyring, old formats of vaults. They are left out since they
either decide nothing that a property speaks of, or are decided by the host.
Signers, the network, `NonceTracker`, the encryptor, servers and users appear as
environments: what they may answer, and when, not how.
