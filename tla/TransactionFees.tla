------------------------------ MODULE TransactionFees ------------------------------
(***************************************************************************)
(* What a transaction pays (packages/transaction-controller), and what a   *)
(* user operation does (packages/user-operation-controller): a dapp names  *)
(* fees or does not, the wallet fills in what is missing, from saved fees  *)
(* or from suggestions, the user edits them, they are signed, and the      *)
(* transaction is sped up or cancelled with fees that are a tenth higher.  *)
(* There are two kinds of fees: maxFeePerGas with maxPriorityFeePerGas,    *)
(* and gasPrice.  Which of them is possible depends on the network of the  *)
(* transaction, and on the account that is selected at the moment.         *)
(***************************************************************************)
EXTENDS Integers, Sequences, FiniteSets, FiniteSetsExt

CONSTANTS
  Prices,          \* fees per gas
  GasEstimates,    \* what a network estimates, and what a dapp asks for
  BlockGasLimit

ASSUME FeesAssumption ==
  /\ Prices \subseteq Nat
  /\ GasEstimates \subseteq Nat \ {0} /\ BlockGasLimit \in Nat \ {0}

VARIABLES
  feeStep,      \* where the transaction, or the user operation, stands
  compatible,   \* getEIP1559Compatibility of the transaction's network
  feesAsked,    \* txParams as they were added
  savedFees,    \* getSavedGasFees, for the chain
  gasLimit,     \* txParams.gas, and the estimate it was made of
  feeParams,    \* the fees of txParams, and the type of its envelope
  feesEdited,   \* history: the user has changed fees
  replacement   \* the fees of the transaction that takes its place

feeVars == <<feeStep, compatible, feesAsked, savedFees, gasLimit, feeParams, feesEdited, replacement>>

No == -1
Price == Prices \cup {No}
Fees == [gasPrice : Price, maxFee : Price, maxPriority : Price,
         type : {"none", "legacy", "accessList", "feeMarket"}]
NoFees == [gasPrice |-> No, maxFee |-> No, maxPriority |-> No, type |-> "none"]
NoGas == [limit |-> No, estimate |-> No]
PriceOf(p) == [gasPrice |-> p, maxFee |-> No, maxPriority |-> No, type |-> "none"]
BothFees(f, p) == [gasPrice |-> No, maxFee |-> f, maxPriority |-> p, type |-> "none"]
SavedFees == {NoFees} \cup {BothFees(f, p) : f, p \in Prices}

FeesInit ==
  /\ feeStep = "none"
  /\ compatible \in BOOLEAN
  /\ feesAsked = NoFees
  /\ savedFees \in SavedFees
  /\ gasLimit = NoGas
  /\ feeParams = NoFees
  /\ feesEdited = FALSE
  /\ replacement = NoFees

-----------------------------------------------------------------------------

isEIP1559Transaction(fees) == fees.maxFee # No /\ fees.maxPriority # No

\* validateGasFeeParams: the fees are of one kind, and of that of the envelope.
validateGasFeeParams(fees) ==
  /\ fees.gasPrice # No =>
       fees.type # "feeMarket" /\ fees.maxFee = No /\ fees.maxPriority = No
  /\ fees.maxFee # No \/ fees.maxPriority # No => fees.type \in {"none", "feeMarket"}

validateEIP1559Compatibility(fees) == isEIP1559Transaction(fees) => compatible

\* Another account is selected, which may be one of a hardware wallet.
accountSelected ==
  /\ feeStep \in {"none", "added", "estimated"}
  /\ compatible' = ~compatible
  /\ UNCHANGED <<feeStep, feesAsked, savedFees, gasLimit, feeParams, feesEdited, replacement>>

addTransaction(fees) ==
  /\ feeStep = "none"
  /\ validateGasFeeParams(fees) /\ validateEIP1559Compatibility(fees)
  /\ feesAsked' = fees /\ feeParams' = fees
  /\ feeStep' = "added"
  /\ UNCHANGED <<compatible, savedFees, gasLimit, feesEdited, replacement>>

\* addGasBuffer, with a multiplier of tenths.
addGasBuffer(estimate, multiplier) ==
  LET maxGas == (BlockGasLimit * 9) \div 10
      padded == (estimate * multiplier) \div 10
  IN IF estimate > maxGas THEN estimate ELSE IF padded < maxGas THEN padded ELSE maxGas

\* estimateGas: 95 per cent of a block if the network does not know.
estimateGas == GasEstimates \cup {(BlockGasLimit * 19) \div 20}

\* updateGas: what is asked for; 21000 for a plain payment; what a custom network says.
updateGas ==
  /\ feeStep = "added"
  /\ gasLimit' \in
       {[limit |-> g, estimate |-> No] : g \in GasEstimates}
       \cup {[limit |-> g, estimate |-> g] : g \in estimateGas}
       \cup {[limit |-> addGasBuffer(g, m), estimate |-> g] : g \in estimateGas, m \in {10, 15}}
  /\ feeStep' = "estimated"
  /\ UNCHANGED <<compatible, feesAsked, savedFees, feeParams, feesEdited, replacement>>

\* The first of several fees that is there.
FirstNamed(fees) ==
  LET named == {i \in DOMAIN fees : fees[i] # No} IN
  IF named = {} THEN No ELSE fees[Min(named)]

\* DefaultGasFeeFlow: estimates are for one kind of fees, whatever the account is.
defaultEstimates ==
  {PriceOf(p) : p \in Prices}
  \cup {fees \in {BothFees(f, p) : f, p \in Prices} : fees.maxFee >= fees.maxPriority}

\* LineaGasFeeFlow: a base fee and a priority fee, with a margin for each.
lineaEstimates ==
  {BothFees((base * 27) \div 20 + (p * 21) \div 20, (p * 21) \div 20) : base, p \in Prices}

(***************************************************************************)
(* getSuggestedGasFees: nothing is suggested where nothing is missing.     *)
(* Linea's flow falls back on the default one; and where there are no      *)
(* estimates, the node says its gas price.                                 *)
(***************************************************************************)
getSuggestedGasFees(fees, eip1559) ==
  IF IF eip1559 THEN isEIP1559Transaction(fees) ELSE fees.gasPrice # No
  THEN {NoFees} ELSE defaultEstimates \cup lineaEstimates

getMaxFeePerGas(fees, suggested) ==
  FirstNamed(<<savedFees.maxFee, fees.maxFee,
               IF fees.maxPriority = No THEN fees.gasPrice ELSE No,
               suggested.maxFee, suggested.gasPrice>>)

getMaxPriorityFeePerGas(fees, suggested) ==
  FirstNamed(<<savedFees.maxPriority, fees.maxPriority,
               IF fees.maxFee = No THEN fees.gasPrice ELSE No,
               suggested.maxPriority, getMaxFeePerGas(fees, suggested)>>)

getGasPrice(fees, suggested) ==
  FirstNamed(<<fees.gasPrice, suggested.maxFee, suggested.gasPrice>>)

\* What updateGasFees makes of the fees: one of the two kinds, whatever was asked for.
feesOfOneKind(fees, eip1559, suggested) ==
  IF eip1559
  THEN [fees EXCEPT !.maxFee = getMaxFeePerGas(fees, suggested),
                    !.maxPriority = getMaxPriorityFeePerGas(fees, suggested), !.gasPrice = No]
  ELSE [fees EXCEPT !.gasPrice = getGasPrice(fees, suggested),
                    !.maxFee = No, !.maxPriority = No]

\* Whether the account is compatible is asked again.
updateGasFees ==
  LET eip1559 == compatible /\ feeParams.type # "legacy" IN
  /\ feeStep = "estimated"
  /\ \E suggested \in getSuggestedGasFees(feeParams, eip1559) :
       feeParams' = feesOfOneKind(feeParams, eip1559, suggested)
  /\ feeStep' = "unapproved"
  /\ UNCHANGED <<compatible, feesAsked, savedFees, gasLimit, feesEdited, replacement>>

\* Fees of which some are named, to be merged with those that are there.
Edits == {fees \in Fees : fees.type = "none"} \ {NoFees}

merged(fees, edit) ==
  [field \in DOMAIN fees |->
     IF field = "type" \/ edit[field] = No THEN fees[field] ELSE edit[field]]

\* updateTransactionGasFees and updateEditableParams: an update that is not valid throws.
updateTransactionGasFees(edit) ==
  /\ feeStep = "unapproved"
  /\ validateGasFeeParams(merged(feeParams, edit))
  /\ feeParams' = merged(feeParams, edit)
  /\ feesEdited' = TRUE
  /\ UNCHANGED <<feeStep, compatible, feesAsked, savedFees, gasLimit, replacement>>

\* TransactionFactory (@ethereumjs/tx, outside this repository).
canBeSigned(fees) == fees.type = "feeMarket" => fees.maxFee >= fees.maxPriority

(***************************************************************************)
(* approveTransaction.  A transaction that cannot be signed fails.  One    *)
(* whose envelope does not fit its fees cannot be updated: it cannot       *)
(* become approved, nor failed, and stays unapproved.                      *)
(***************************************************************************)
approveTransaction ==
  LET fees == [feeParams EXCEPT !.type =
                 IF isEIP1559Transaction(feeParams) THEN "feeMarket" ELSE @] IN
  /\ feeStep = "unapproved" /\ validateGasFeeParams(feeParams) /\ validateGasFeeParams(fees)
  /\ feeParams' = fees
  /\ feeStep' = IF canBeSigned(fees) THEN "signed" ELSE "failed"
  /\ UNCHANGED <<compatible, feesAsked, savedFees, gasLimit, feesEdited, replacement>>

-----------------------------------------------------------------------------

\* getIncreasedPriceFromExisting: a tenth more, rounded down.
getIncreasedPrice(fee) == IF fee = No THEN 0 ELSE (fee * 11) \div 10

\* Fault: a fee that the user names is taken as it is.
chosenFee(old, given) == IF given # No THEN given ELSE getIncreasedPrice(old)

\* No: the fee that is given is too low.
increasedFee(old, given) ==
  IF given = No THEN getIncreasedPrice(old)
  ELSE IF given >= getIncreasedPrice(old) THEN given ELSE No

\* A fee that neither the transaction has nor the user gives.
isMissing(old, given) == old = No /\ given = No

(***************************************************************************)
(* The fees of stopTransaction and speedUpTransaction: if the transaction  *)
(* has a maxFeePerGas or is given one, and the same for its priority fee,  *)
(* these; otherwise a gasPrice.                                            *)
(***************************************************************************)
replacementFees(old, given) ==
  IF isMissing(old.maxFee, given.maxFee) \/ isMissing(old.maxPriority, given.maxPriority)
  THEN PriceOf(increasedFee(old.gasPrice, given.gasPrice))
  ELSE [BothFees(increasedFee(old.maxFee, given.maxFee),
                 increasedFee(old.maxPriority, given.maxPriority)) EXCEPT !.type = "feeMarket"]

\* normalizeGasFeeValues and validateGasValues: a gas price, or both of the other fees.
GivenFees ==
  {fees \in Edits \cup {NoFees} :
     IF fees.gasPrice = No THEN fees.maxFee = No <=> fees.maxPriority = No
     ELSE fees.maxFee = No /\ fees.maxPriority = No}

\* Every fee that is given has to be higher by a tenth, or nothing is replaced.
isIncrease(old, given) ==
  \A field \in {"gasPrice", "maxFee", "maxPriority"} :
    increasedFee(old[field], given[field]) # No

replaceTransaction(given) ==
  LET fees == replacementFees(feeParams, given) IN
  /\ feeStep = "signed" /\ isIncrease(feeParams, given) /\ canBeSigned(fees)
  /\ replacement' = fees
  /\ feeStep' = "replaced"
  /\ UNCHANGED <<compatible, feesAsked, savedFees, gasLimit, feeParams, feesEdited>>

-----------------------------------------------------------------------------

\* getSuggestedGasFees of a user operation: a gas price counts as a maxFeePerGas.
operationSuggestions ==
  {fees \in {BothFees(f, p) : f \in Prices, p \in Price} : fees.maxFee >= fees.maxPriority}

\* The gasPrice is that of the transaction that the user operation is made of.
operationMaxFee(asked, suggested) ==
  FirstNamed(<<asked.maxFee, IF asked.maxPriority = No THEN asked.gasPrice ELSE No,
               suggested.maxFee>>)

operationMaxPriority(asked, suggested) ==
  FirstNamed(<<asked.maxPriority, IF asked.maxFee = No THEN asked.gasPrice ELSE No,
               suggested.maxPriority, operationMaxFee(asked, suggested)>>)

updateOperationFees(asked) ==
  /\ feeStep = "none" /\ savedFees = NoFees
  /\ \E suggested \in operationSuggestions :
       feeParams' = [BothFees(operationMaxFee(asked, suggested),
                              operationMaxPriority(asked, suggested)) EXCEPT !.type = "feeMarket"]
  /\ feesAsked' = asked
  /\ feeStep' = "operation"
  /\ UNCHANGED <<compatible, savedFees, gasLimit, feesEdited, replacement>>

\* updateGas of a user operation: what the account says, or the bundler and half of it.
updateOperationGas ==
  /\ feeStep = "operation" /\ gasLimit = NoGas
  /\ gasLimit' \in {[limit |-> g, estimate |-> No] : g \in GasEstimates}
                   \cup {[limit |-> (g * 15) \div 10, estimate |-> g] : g \in GasEstimates}
  /\ UNCHANGED <<feeStep, compatible, feesAsked, savedFees, feeParams, feesEdited, replacement>>

FeesNext ==
  \/ accountSelected \/ updateOperationGas \/ updateGas \/ updateGasFees \/ approveTransaction
  \/ \E fees \in Fees : addTransaction(fees)
  \/ \E edit \in Edits : updateTransactionGasFees(edit)
  \/ \E fees \in Edits \cup {NoFees} : updateOperationFees(fees)
  \/ \E fees \in GivenFees : replaceTransaction(fees)

-----------------------------------------------------------------------------

areOfOneKind(fees) ==
  IF fees.type = "feeMarket"
  THEN fees.gasPrice = No /\ No \notin {fees.maxFee, fees.maxPriority}
  ELSE fees.gasPrice # No /\ {fees.maxFee, fees.maxPriority} = {No}

(***************************************************************************)
(* What is signed has the fees of its envelope, all of them and no others, *)
(* although the dapp may name any of them, the account may change between  *)
(* two questions, suggestions are of either kind, and the user changes one *)
(* fee at a time.                                                          *)
(***************************************************************************)
SignedFeesFit == feeStep \in {"signed", "replaced", "operation"} => areOfOneKind(feeParams)

(***************************************************************************)
(* A fee that was asked for is what is paid, unless the user has saved     *)
(* fees or edits them: a gas price stands for both fees of the other kind. *)
(***************************************************************************)
AskedFeesArePaid ==
  feeStep \in {"signed", "operation"} /\ ~feesEdited =>
    IF feeParams.type # "feeMarket"
    THEN feesAsked.gasPrice \in {No, feeParams.gasPrice}
    ELSE /\ savedFees # NoFees =>
              feeParams.maxFee = savedFees.maxFee /\ feeParams.maxPriority = savedFees.maxPriority
         /\ savedFees = NoFees =>
              /\ feesAsked.maxFee \in {No, feeParams.maxFee}
              /\ feesAsked.maxPriority \in {No, feeParams.maxPriority}
              /\ feesAsked.maxFee = No /\ feesAsked.maxPriority = No =>
                   feesAsked.gasPrice \in {No, feeParams.maxFee}
                   /\ feesAsked.gasPrice \in {No, feeParams.maxPriority}

\* A tenth more, as far as fees of whole wei can be.
paysMore(new, old) == 10 * new + 9 >= 11 * old

(***************************************************************************)
(* What takes the place of a transaction has fees of one kind; and if it   *)
(* is the kind that the transaction has, each is a tenth higher, given by  *)
(* the user or not: the network would not take it otherwise.               *)
(***************************************************************************)
ReplacementsPayMore ==
  feeStep = "replaced" =>
    /\ areOfOneKind(replacement)
    /\ feeParams.type = "feeMarket" =>
         /\ paysMore(replacement.maxFee, feeParams.maxFee)
         /\ paysMore(replacement.maxPriority, feeParams.maxPriority)
    /\ replacement.type # "feeMarket" => paysMore(replacement.gasPrice, feeParams.gasPrice)

(***************************************************************************)
(* The limit on gas is never below the estimate, and that of a transaction *)
(* takes more than nine tenths of a block only if the estimate does.       *)
(***************************************************************************)
GasCoversEstimate ==
  gasLimit.estimate # No =>
    /\ gasLimit.limit >= gasLimit.estimate
    /\ \/ feeStep = "operation" \/ gasLimit.limit = gasLimit.estimate
       \/ 10 * gasLimit.limit <= 9 * BlockGasLimit
=============================================================================
