------------------------ MODULE TokenDetectionController ------------------------
(***************************************************************************)
(* Tokens of an account that its user did not import                       *)
(* (assets-controllers/src/TokenDetectionController.ts).  Whenever the     *)
(* wallet is unlocked, a list is fetched, or a preference, the account or  *)
(* the network changes, the tokens of the chain's list that are in none of *)
(* the account's lists are asked for, slice by slice.  All detections      *)
(* share #tokenList, which the last one to start has set.                  *)
(***************************************************************************)
EXTENDS Naturals, FiniteSets

CONSTANTS
  DetectionAccounts,
  Holder,            \* the account that has tokens
  Detections,        \* calls of detectTokens
  SliceSize,         \* how many tokens are asked for at a time
  NoDetection,       \* a call that is not under way
  MaxDetectionSteps  \* how often something happens besides

ASSUME DetectionAssumption ==
  Holder \in DetectionAccounts /\ SliceSize \in Nat \ {0} /\ MaxDetectionSteps \in Nat

VARIABLES
  selection,      \* the account of AccountsController, that of PreferencesController, and the network
  cachedLists,    \* the chains in TokenListController's tokensChainsCache
  detector,       \* the controller's fields
  detections,     \* each call
  intervalSet,    \* whether an interval is set
  detected,       \* <<chain, account, token, list>> of TokensController's allDetectedTokens
  known,          \* <<chain, account, token>> of its allTokens and allIgnoredTokens
  lapsed,         \* history: an answer failed, or something changed on a network without detection
  detectionSteps

detectionVars ==
  <<selection, cachedLists, detector, detections, intervalSet, detected, known, lapsed, detectionSteps>>

DetectionChains == {"mainnet", "layer two", "test"}
isTokenDetectionSupported(chain) == chain # "test"

TokensOfList(list) ==
  CASE list = "mainnet" -> {"stable", "meme"}
    [] list = "layer two" -> {"stable", "bridged"}
    [] list = "static" -> {"stable"}
    [] list = "none" -> {}

\* A call that is under way asks for tokens of a list, on a chain that has detection.
DetectionCalls ==
  [chain : DetectionChains \ {"test"}, account : DetectionAccounts,
   list : {"mainnet", "layer two", "static"}, tokens : SUBSET {"stable", "meme", "bridged"},
   starts : BOOLEAN, mixed : BOOLEAN]

ASSUME NoDetectionAssumption == NoDetection \notin DetectionCalls

\* What the contracts of a chain answer.
Balances(chain, account) == IF account = Holder THEN TokensOfList(chain) ELSE {}

DetectionInit ==
  /\ \E a \in DetectionAccounts : selection = [account |-> a, preferred |-> a, network |-> "mainnet"]
  /\ cachedLists = {}
  /\ \E disabled \in BOOLEAN, unlocked \in BOOLEAN :
       detector = [address |-> selection.account, client |-> "mainnet", list |-> "none",
                   disabled |-> disabled, unlocked |-> unlocked, enabled |-> TRUE]
  /\ detections = [d \in Detections |-> NoDetection]
  /\ intervalSet = FALSE
  /\ detected = {} /\ known = {}
  /\ lapsed = FALSE
  /\ detectionSteps = 0

detectionStep == detectionSteps < MaxDetectionSteps /\ detectionSteps' = detectionSteps + 1

isActive(fields) == ~fields.disabled /\ fields.unlocked

\* #getCorrectChainIdAndNetworkClientId: a client that is gone is taken for the selected one.
chainOfClient(client) == IF client \in DetectionChains THEN client ELSE selection'.network

\* The cached list of the chain; without the preference the static one, and of mainnet only.
listFor(fields, chain) ==
  IF ~fields.enabled THEN "static" ELSE IF chain \in cachedLists' THEN chain ELSE "none"

tokensOf(entries, chain, account) ==
  {entry[3] : entry \in {e \in entries : e[1] = chain /\ e[2] = account}}

\* #getSlicesOfTokensToDetect.
tokensToDetect(list, chain, account) ==
  TokensOfList(list) \ (tokensOf(known, chain, account) \cup tokensOf(detected, chain, account))

\* detectTokens with these fields; starts tells whether #startPolling waits for it.
detectTokens(d, fields, client, account, starts) ==
  LET chain == chainOfClient(client)
      list == listFor(fields, chain)
      tokens == tokensToDetect(list, chain, account)
      detects == /\ isActive(fields)
                 /\ isTokenDetectionSupported(chain)
                 /\ fields.enabled \/ chain = "mainnet"
      asks == detects /\ tokens # {}
  IN /\ detections[d] = NoDetection
     /\ detector' = IF detects THEN [fields EXCEPT !.list = list] ELSE fields
     /\ detections' =
          [e \in Detections |->
             IF e = d THEN (IF asks THEN [chain |-> chain, account |-> account, list |-> list,
                                          tokens |-> tokens, starts |-> starts, mixed |-> FALSE]
                            ELSE NoDetection)
             ELSE IF detections[e] = NoDetection THEN NoDetection
             ELSE [detections[e] EXCEPT !.mixed = @ \/ (detects /\ detections[e].list # list)]]
     /\ intervalSet' = IF starts /\ isActive(fields) THEN ~asks ELSE intervalSet
     /\ lapsed' = (lapsed \/ (isActive(fields) /\ ~isTokenDetectionSupported(chain)))

restartTokenDetection(d, fields, client) ==
  /\ detectTokens(d, fields, client, fields.address, FALSE)
  /\ UNCHANGED <<detected, known>>

startDetection(d) ==
  /\ detectionStep
  /\ UNCHANGED <<selection, cachedLists, detected, known>>
  /\ detectTokens(d, [detector EXCEPT !.disabled = FALSE], "selected", detector.address, TRUE)

stop ==
  /\ detectionStep
  /\ detector' = [detector EXCEPT !.disabled = TRUE]
  /\ intervalSet' = FALSE
  /\ UNCHANGED <<selection, cachedLists, detections, detected, known, lapsed>>

keyringUnlocked(d) ==
  /\ detectionStep /\ ~detector.unlocked
  /\ UNCHANGED <<selection, cachedLists>>
  /\ restartTokenDetection(d, [detector EXCEPT !.unlocked = TRUE], "selected")

keyringLocked ==
  /\ detectionStep /\ detector.unlocked
  /\ detector' = [detector EXCEPT !.unlocked = FALSE]
  /\ intervalSet' = FALSE
  /\ UNCHANGED <<selection, cachedLists, detections, detected, known, lapsed>>

listFetched(d, chain) ==
  /\ detectionStep /\ chain \notin cachedLists
  /\ cachedLists' = cachedLists \cup {chain}
  /\ UNCHANGED selection
  /\ restartTokenDetection(d, detector, "selected")

\* The account is changed in AccountsController; PreferencesController follows it, and both are heard.
selectedAccountChanged(d, account) ==
  /\ detectionStep /\ selection.account # account
  /\ selection' = [selection EXCEPT !.account = account]
  /\ UNCHANGED cachedLists
  /\ IF account # detector.address
     THEN restartTokenDetection(d, [detector EXCEPT !.address = account], "selected")
     ELSE UNCHANGED <<detector, detections, intervalSet, detected, known, lapsed>>

changesDetection(fields) == fields.address # detector.address \/ fields.enabled # detector.enabled

preferencesChanged(d, account, enabled) ==
  LET fields == [detector EXCEPT !.address = account, !.enabled = enabled] IN
  /\ detectionStep
  /\ account \in {selection.preferred, selection.account}
  /\ selection' = [selection EXCEPT !.preferred = account]
  /\ UNCHANGED cachedLists
  /\ IF changesDetection(fields) THEN restartTokenDetection(d, fields, "selected")
     ELSE detector' = fields /\ UNCHANGED <<detections, intervalSet, detected, known, lapsed>>

\* networkDidChange: a network without detection is not noted as the last one.
networkChanged(d, network) ==
  /\ detectionStep /\ selection.network # network
  /\ selection' = [selection EXCEPT !.network = network]
  /\ UNCHANGED cachedLists
  /\ IF detector.client # network /\ isTokenDetectionSupported(network)
     THEN restartTokenDetection(d, [detector EXCEPT !.client = network], network)
     ELSE UNCHANGED <<detector, detections, intervalSet, detected, known, lapsed>>

\* The interval, or a poll of a network client.
detectsAgain(d, client, account) ==
  /\ detectionStep
  /\ client = "selected" => intervalSet /\ account = detector.address
  /\ UNCHANGED <<selection, cachedLists, detected, known>>
  /\ detectTokens(d, detector, client, account, FALSE)

\* The user imports or ignores a token.
tokenTaken(chain, account, token) ==
  /\ detectionStep /\ <<chain, account, token>> \notin known
  /\ known' = known \cup {<<chain, account, token>>}
  /\ detected' = {entry \in detected : <<entry[1], entry[2], entry[3]>> # <<chain, account, token>>}
  /\ UNCHANGED <<selection, cachedLists, detector, detections, intervalSet, lapsed>>

sliceEnded(d, slice) ==
  LET call == detections[d]
      ended == call.tokens = slice
  IN /\ detections' = [detections EXCEPT ![d] = IF ended THEN NoDetection ELSE [call EXCEPT !.tokens = @ \ slice]]
     /\ intervalSet' = (intervalSet \/ (ended /\ call.starts))
     /\ UNCHANGED <<selection, cachedLists, detector, known, detectionSteps>>

\* #addDetectedTokens: a token with a balance that the list of this moment does not have
\* makes the slice fail, silently; details are those of that list.
balancesAnswered(d, slice) ==
  LET call == detections[d]
      found == slice \cap Balances(call.chain, call.account)
      isDetailed == found \subseteq TokensOfList(detector.list)
      new == found \ tokensOf(known, call.chain, call.account)
      list == IF call.mixed THEN "mixed" ELSE detector.list
  IN /\ sliceEnded(d, slice)
     /\ detected' = IF ~isDetailed THEN detected
                    ELSE {entry \in detected : entry[1] # call.chain \/ entry[2] # call.account \/ entry[3] \notin new}
                         \cup {<<call.chain, call.account, token, list>> : token \in new}
     /\ lapsed' = (lapsed \/ ~isDetailed)

balancesFailed(d, slice) == sliceEnded(d, slice) /\ lapsed' = TRUE /\ UNCHANGED detected

Slices(tokens) ==
  {slice \in SUBSET tokens :
     Cardinality(slice) = IF Cardinality(tokens) < SliceSize THEN Cardinality(tokens) ELSE SliceSize}

DetectionNext ==
  \/ \E d \in Detections :
       \/ startDetection(d) \/ keyringUnlocked(d)
       \/ \E chain \in {"mainnet", "layer two"} : listFetched(d, chain)
       \/ \E account \in DetectionAccounts :
            \/ selectedAccountChanged(d, account)
            \/ \E enabled \in BOOLEAN : preferencesChanged(d, account, enabled)
            \/ \E client \in DetectionChains \cup {"selected", "removed"} : detectsAgain(d, client, account)
       \/ \E network \in DetectionChains : networkChanged(d, network)
       \/ /\ detections[d] # NoDetection
          /\ \E slice \in Slices(detections[d].tokens) : balancesAnswered(d, slice) \/ balancesFailed(d, slice)
  \/ \E account \in DetectionAccounts, token \in {"stable", "meme"} : tokenTaken("mainnet", account, token)
  \/ stop \/ keyringLocked

-----------------------------------------------------------------------------

(***************************************************************************)
(* A token is detected for an account and a chain only if that account has *)
(* it on that chain, whatever was selected while its balance was read, and *)
(* with the details of that chain's list, unless a detection for another   *)
(* list had begun meanwhile.                                               *)
(***************************************************************************)
DetectedIsHeld ==
  \A entry \in detected :
    /\ entry[3] \in Balances(entry[1], entry[2])
    /\ entry[4] \in {entry[1], "mixed"} \/ (entry[4] = "static" /\ entry[1] = "mainnet")

(***************************************************************************)
(* While the wallet is unlocked and nothing is being detected, no token of *)
(* the selected account is missing that is on the list of the selected     *)
(* network, in whatever order they were unlocked, fetched and selected;    *)
(* unless an answer failed, or something changed while a network without   *)
(* detection was selected.                                                 *)
(***************************************************************************)
NothingIsMissed ==
  LET chain == selection.network
      account == selection.account
      list == IF ~detector.enabled THEN "static" ELSE IF chain \in cachedLists THEN chain ELSE "none"
  IN /\ isActive(detector) /\ ~lapsed /\ account = selection.preferred
     /\ \A d \in Detections : detections[d] = NoDetection
     /\ isTokenDetectionSupported(chain) /\ (detector.enabled \/ chain = "mainnet")
     => TokensOfList(list) \cap Balances(chain, account)
          \subseteq tokensOf(detected, chain, account) \cup tokensOf(known, chain, account)
=============================================================================
