------------------------ MODULE TransactionSimulation ------------------------
(***************************************************************************)
(* What the user is told a transaction would change                        *)
(* (transaction-controller: utils/simulation.ts, utils/simulation-api.ts). *)
(* A service executes the transaction; the tokens that its logs name are   *)
(* then asked for in a second execution, between the user's balances       *)
(* before and after it.  A contract's logs are listed before those of the  *)
(* contracts it calls, in whatever order they were written.                *)
(***************************************************************************)
EXTENDS Integers, Sequences, FiniteSets

CONSTANT MaxEvents   \* how many events the contracts emit

ASSUME SimulationAssumption == MaxEvents \in Nat \ {0}

VARIABLES
  simulation,     \* how far it is: "executing", "balances" or "shown"
  listed,         \* the events as extractLogs lists them: of the called contract, and of those it calls
  owner,          \* who would own each token of the ERC-721 contract after the transaction
  gain,           \* what the user would have of each token more than before
  nativeGain,     \* and of the native currency
  held,           \* what the user has of each token at the latest block
  shownChanges    \* the SimulationData that is stored: its error, and what changes

simulationVars == <<simulation, listed, owner, gain, nativeGain, held, shownChanges>>

\* A wrapped currency, an ERC-721 contract with two tokens, and an ERC-1155 contract with two.
TokenIdsOf(contract) ==
  CASE contract = "coin" -> {"undefined"}
    [] contract = "art" -> {"first", "second"}
    [] contract = "items" -> {"sword", "shield"}

Tokens == UNION {{contract} \X TokenIdsOf(contract) : contract \in {"coin", "art", "items"}}

Event(contract, name, from, to, ids) ==
  [contract |-> contract, name |-> name, from |-> from, to |-> to, ids |-> ids]

Nothing == [error |-> "none", native |-> 0, tokens |-> <<>>]

SimulationInit ==
  /\ simulation = "executing"
  /\ listed = [own |-> <<>>, nested |-> <<>>]
  /\ owner = [id \in TokenIdsOf("art") |-> IF id = "first" THEN "user" ELSE "zero"]
  /\ gain = [token \in Tokens |-> 0]
  /\ nativeGain = 0
  /\ held = [token \in Tokens |-> IF token = <<"art", "second">> THEN 0 ELSE 1]
  /\ shownChanges = Nothing

\* extractLogs, getEvents: those that no known interface parses are left out.
extractLogs == listed.own \o listed.nested

-----------------------------------------------------------------------------
(* The execution of the transaction, by the contracts. *)

Parties == {"user", "other"}

\* What may be emitted next; a token of the ERC-721 contract is minted once at most.
Emittable ==
  {Event("coin", "Transfer", f, t, <<"undefined">>) : f \in Parties, t \in Parties}
  \cup {Event("coin", "Deposit", "undefined", "user", <<"undefined">>),
        Event("coin", "Withdrawal", "user", "undefined", <<"undefined">>),
        Event("coin", "Approval", "undefined", "undefined", <<"undefined">>)}
  \cup {Event("art", "Transfer", owner[id], t, <<id>>) :
          id \in {i \in TokenIdsOf("art") : owner[i] # "burnt"}, t \in {"user", "other", "burnt"}}
  \cup {Event("items", "TransferSingle", f, t, <<"sword">>) : f \in Parties, t \in Parties}
  \cup {Event("items", "TransferBatch", f, t, ids) :
          f \in Parties, t \in Parties, ids \in {<<"sword", "shield">>, <<"sword", "sword">>}}

\* How much of a token an event gives the user.
Given(event, token) ==
  IF token[1] # event.contract THEN 0
  ELSE LET amount == Cardinality({i \in DOMAIN event.ids : event.ids[i] = token[2]})
       IN (IF event.to = "user" THEN amount ELSE 0) - (IF event.from = "user" THEN amount ELSE 0)

emit(event, call) ==
  /\ simulation = "executing" /\ Len(extractLogs) < MaxEvents
  /\ event.from # event.to \/ event.contract # "art"
  /\ listed' = [listed EXCEPT ![call] = Append(@, event)]
  /\ gain' = [token \in Tokens |-> gain[token] + Given(event, token)]
  /\ \A token \in Tokens : held[token] + gain'[token] >= 0
  /\ nativeGain' = CASE event.name = "Deposit" -> nativeGain - 1
                     [] event.name = "Withdrawal" -> nativeGain + 1
                     [] OTHER -> nativeGain
  /\ owner' = IF event.contract = "art" THEN [owner EXCEPT ![event.ids[1]] = event.to] ELSE owner
  /\ UNCHANGED <<simulation, held, shownChanges>>

-----------------------------------------------------------------------------
(* Which tokens are asked for. *)

SupportedEvents == {"Transfer", "TransferSingle", "TransferBatch", "Deposit", "Withdrawal"}

\* The elements of a sequence at these positions, in their order.
placeIn(positions, i) == Cardinality({j \in positions : j <= i})
chosen(s, positions) ==
  [p \in 1 .. Cardinality(positions) |-> s[CHOOSE i \in positions : placeIn(positions, i) = p]]

isOfUser(event) == event.name \in SupportedEvents /\ "user" \in {event.from, event.to}
userEvents == chosen(extractLogs, {n \in DOMAIN extractLogs : isOfUser(extractLogs[n])})

\* The token keys of the events in their order, each with whether its event is a mint.
eventTokenIds(event) ==
  [i \in DOMAIN event.ids |-> [key |-> <<event.contract, event.ids[i]>>,
                               mint |-> event.contract = "art" /\ event.from = "zero"]]
EventTokens ==
  LET All == userEvents
      TokensOf[n \in 0 .. Len(All)] == IF n = 0 THEN <<>> ELSE TokensOf[n - 1] \o eventTokenIds(All[n])
  IN TokensOf[Len(All)]

\* tokenKeys: additional events of the same token are ignored.
firstEventTokens ==
  LET All == EventTokens
  IN chosen(All, {n \in DOMAIN All : \A i \in 1 .. n - 1 : All[i].key # All[n].key})

\* skipPriorBalanceCheck: the owner of a token that is not minted yet cannot be asked for.
tokensBefore(tokens) == chosen(tokens, {i \in DOMAIN tokens : ~tokens[i].mint})

\* getBalanceTransactionData, getValueFromBalanceTransaction: balanceOf, or whether ownerOf is the
\* user.  The answer to the transaction itself, which is nothing here, comes between.
balanceAnswers(before, tokens) ==
  [i \in DOMAIN before |-> held[before[i].key]]
  \o <<0>>
  \o [i \in DOMAIN tokens |-> held[tokens[i].key] + gain[tokens[i].key]]

\* prevBalanceTxIndex moves on with each token that was asked for before.
previousBalance(answers, tokens, i) ==
  IF tokens[i].mint THEN 0
  ELSE answers[1 + Cardinality({j \in 1 .. i - 1 : ~tokens[j].mint})]

newBalance(answers, before, i) == answers[i + Len(before) + 1]

\* getSimulationBalanceChange: a balance that stays is no change.
balanceChanges(tokens) ==
  LET before == tokensBefore(tokens)
      answers == balanceAnswers(before, tokens)
      All == [i \in DOMAIN tokens |-> [token |-> tokens[i].key, previous |-> previousBalance(answers, tokens, i),
                                       new |-> newBalance(answers, before, i)]]
  IN chosen(All, {i \in DOMAIN All : All[i].previous # All[i].new})

changes == balanceChanges(firstEventTokens)

getTokenBalanceChanges ==
  /\ simulation = "balances"
  /\ simulation' = "shown"
  /\ shownChanges' = [shownChanges EXCEPT !.tokens = changes]
  /\ UNCHANGED <<listed, owner, gain, nativeGain, held>>

\* The first answer: the change of the native currency is in its stateDiff.
getSimulationData ==
  /\ simulation = "executing"
  /\ shownChanges' = [shownChanges EXCEPT !.native = nativeGain]
  /\ simulation' = IF firstEventTokens = <<>> THEN "shown" ELSE "balances"
  /\ UNCHANGED <<listed, owner, gain, nativeGain, held>>

\* Either request fails: the chain is not supported, the answer is an error or its transaction is,
\* or there are not as many answers as were asked for.
simulationFails ==
  /\ simulation # "shown"
  /\ simulation' = "shown"
  /\ \E code \in {"chain-not-supported", "reverted", "other"}
                 \cup (IF simulation = "balances" THEN {"invalid-response"} ELSE {}) :
       shownChanges' = [Nothing EXCEPT !.error = code]
  /\ UNCHANGED <<listed, owner, gain, nativeGain, held>>

\* Between the two executions a block gives the user a coin.
coinReceived ==
  /\ simulation = "balances" /\ held["coin", "undefined"] = 1
  /\ held' = [held EXCEPT ![<<"coin", "undefined">>] = 2]
  /\ UNCHANGED <<simulation, listed, owner, gain, nativeGain, shownChanges>>

SimulationNext ==
  \/ \E event \in Emittable, call \in {"own", "nested"} : emit(event, call)
  \/ getSimulationData \/ getTokenBalanceChanges \/ simulationFails \/ coinReceived

-----------------------------------------------------------------------------

(***************************************************************************)
(* What is shown is what the transaction would do: of every token exactly  *)
(* what the user would gain or lose, from what the user has, once; nothing *)
(* of a token that comes and goes; and with an error nothing at all.       *)
(***************************************************************************)
ShownChangesAreTrue ==
  LET shown == shownChanges.tokens
      Shown(token) == {i \in DOMAIN shown : shown[i].token = token}
  IN simulation = "shown" =>
       IF shownChanges.error # "none" THEN shown = <<>> /\ shownChanges.native = 0
       ELSE /\ shownChanges.native = nativeGain
            /\ \A token \in Tokens :
                 /\ Cardinality(Shown(token)) = IF gain[token] = 0 THEN 0 ELSE 1
                 /\ \A i \in Shown(token) : /\ shown[i].previous = held[token]
                                            /\ shown[i].new = held[token] + gain[token]

-----------------------------------------------------------------------------

(***************************************************************************)
(* Swaps of tokens (transaction-controller/src/utils/swaps.ts): what the   *)
(* swapping page says of a transaction is kept with it when it is added;   *)
(* and when it is confirmed, the node is asked for the user's balance      *)
(* until it is another one than before, for a node may not have the block  *)
(* yet.  Meanwhile others change the transaction.                          *)
(***************************************************************************)

CONSTANTS
  NoSwap,          \* no transaction is listed
  SwapAttempts,    \* UPDATE_POST_TX_BALANCE_ATTEMPTS
  MaxSwapSteps     \* how often the balance or the transaction is changed by others

ASSUME SwapsAssumption == SwapAttempts \in Nat \ {0} /\ MaxSwapSteps \in Nat

VARIABLES
  swap,            \* the transaction
  balances,        \* the user's balances that a node may answer: of the last block, or of the one before
  following,       \* updatePostTransactionBalance
  undone,          \* history: how the record undid a change of another
  swapSteps

swapVars == <<swap, balances, following, undone, swapSteps>>

SwapTypes == {"swap", "swapAndSend", "swapApproval"}
Unread == 99
NotFollowing == [step |-> "none"]

\* What updateSwap... takes of the page's metadata, for each type.
fieldsOf(type) ==
  CASE type = "swap" -> {"type", "symbols", "destination"}
    [] type = "swapAndSend" -> {"type", "symbols", "destination", "recipient"}
    [] type = "swapApproval" -> {"type", "symbols"}
    [] OTHER -> {}

SwapsInit ==
  /\ swap = NoSwap
  /\ balances = [before |-> 5, now |-> 5]
  /\ following = NotFollowing
  /\ undone = "nothing"
  /\ swapSteps = 0

swapStep == swapSteps < MaxSwapSteps /\ swapSteps' = swapSteps + 1

\* A swap without an approval of its own whose gas could not be estimated is not added:
\* cancelTransaction finds no transaction yet, and the call throws.
isRefused(type, hasApproveTx, failsSimulation) == type = "swap" /\ ~hasApproveTx /\ failsSimulation

(***************************************************************************)
(* addTransaction with updateSwapsTransaction.  "named" are the fields     *)
(* that the page gives; {} if it gives none; its type, if it gives one,    *)
(* replaces the type.  isDefault: the tokens are swapped for the currency  *)
(* of the chain.  There is one transaction.                                *)
(***************************************************************************)
addSwap(type, named, typeNamed, isDefault, hasApproveTx, failsSimulation, isSwapsDisabled) ==
  LET kept == IF isSwapsDisabled THEN {} ELSE named \cap fieldsOf(type) IN
  /\ swap = NoSwap /\ swapSteps = 0 /\ swapStep
  /\ ~(isRefused(type, hasApproveTx, failsSimulation) /\ ~isSwapsDisabled)
  /\ swap' = [type |-> IF "type" \in kept THEN typeNamed ELSE type, status |-> "unapproved", kept |-> kept,
              isDefault |-> isDefault /\ "destination" \in kept,
              pre |-> Unread, post |-> Unread, changes |-> 0]
  /\ UNCHANGED <<balances, following, undone>>

\* publishTransaction and submission; of a swap, the balance is read first.
swapSubmitted ==
  /\ swap # NoSwap /\ swap.status = "unapproved"
  /\ \E balance \in {balances.before, balances.now} :
       swap' = [swap EXCEPT !.status = "submitted", !.pre = IF swap.type = "swap" THEN balance ELSE @]
  /\ UNCHANGED <<balances, following, undone, swapSteps>>

\* onConfirmedTransaction: the block's balance is not that of the block before.
swapConfirmed ==
  /\ swap # NoSwap /\ swap.status = "submitted"
  /\ balances' = [before |-> balances.now, now |-> balances.now + 1]
  /\ swap' = [swap EXCEPT !.status = "confirmed"]
  /\ following' = IF swap.type = "swap" THEN [step |-> "asking", attempt |-> 1, pre |-> swap.pre,
                                              isDefault |-> swap.isDefault]
                  ELSE NotFollowing
  /\ UNCHANGED <<undone, swapSteps>>

newBlockHasPayment ==
  /\ swapStep
  /\ \E paid \in {0, 1} : balances' = [before |-> balances.now, now |-> balances.now - paid]
  /\ UNCHANGED <<swap, following, undone>>

\* Another updateTransaction.
swapChanged ==
  /\ swap # NoSwap /\ swapStep
  /\ swap' = [swap EXCEPT !.changes = @ + 1]
  /\ UNCHANGED <<balances, following, undone>>

\* The list is wiped, or trimmed.
swapRemoved ==
  /\ swap # NoSwap /\ swapStep
  /\ swap' = NoSwap
  /\ UNCHANGED <<balances, following, undone>>

\* What is stored is the copy, whatever has become of the transaction.
balanceRecorded(copy, attempt) ==
  /\ swap' = IF swap = NoSwap \/ copy = NoSwap THEN swap ELSE copy
  /\ following' = [step |-> "ended", attempt |-> attempt]
  /\ undone' = IF swap # NoSwap /\ copy # NoSwap /\ swap.changes # copy.changes
               THEN (IF attempt = SwapAttempts THEN "after the last attempt" ELSE "before")
               ELSE undone

withPost(balance) == IF swap = NoSwap THEN NoSwap ELSE [swap EXCEPT !.post = balance]

isSettled(f, balance) == ~f.isDefault \/ f.pre # balance

\* The node answers; the transaction is copied, and recorded unless there is nothing new.
balanceAnswered(balance) ==
  /\ following.step = "asking"
  /\ IF isSettled(following, balance)
     THEN balanceRecorded(withPost(balance), following.attempt)
     ELSE /\ following' = [step |-> "sleeping", attempt |-> following.attempt, pre |-> following.pre,
                           isDefault |-> following.isDefault, copy |-> withPost(balance)]
          /\ UNCHANGED <<swap, undone>>
  /\ UNCHANGED <<balances, swapSteps>>

sleptEnough ==
  /\ following.step = "sleeping"
  /\ IF following.attempt = SwapAttempts THEN balanceRecorded(following.copy, following.attempt)
     ELSE /\ following' = [step |-> "asking", attempt |-> following.attempt + 1, pre |-> following.pre,
                           isDefault |-> following.isDefault]
          /\ UNCHANGED <<swap, undone>>
  /\ UNCHANGED <<balances, swapSteps>>

\* The node fails: updatePostBalance ends without a record.
balanceFailed ==
  /\ following.step = "asking"
  /\ following' = [step |-> "failed"]
  /\ UNCHANGED <<swap, balances, undone, swapSteps>>

SwapsNext ==
  \/ \E type \in SwapTypes \cup {"payment"}, named \in {{}, {"symbols"}, {"type", "symbols", "destination", "recipient"}},
        isDefault, hasApproveTx, failsSimulation, isSwapsDisabled \in BOOLEAN,
        typeNamed \in SwapTypes :
       addSwap(type, named, typeNamed, isDefault, hasApproveTx, failsSimulation, isSwapsDisabled)
  \/ swapSubmitted \/ swapConfirmed \/ newBlockHasPayment \/ swapChanged \/ swapRemoved
  \/ \E balance \in {balances.before, balances.now} : balanceAnswered(balance)
  \/ sleptEnough \/ balanceFailed

-----------------------------------------------------------------------------

(***************************************************************************)
(* The balance that is shown after a swap for the chain's currency is      *)
(* another one than before it, unless the node has been asked as often as  *)
(* it may; and to record it undoes no change that others made while the    *)
(* node was asked, unless they came after its last answer.                 *)
(***************************************************************************)
SwapsAreFollowed ==
  /\ swap # NoSwap /\ following.step = "ended" /\ swap.post # Unread /\ swap.isDefault =>
       swap.post # swap.pre \/ following.attempt = SwapAttempts
  /\ undone # "before"
  /\ swap # NoSwap /\ swap.type # "swap" => swap.post = Unread
=============================================================================
