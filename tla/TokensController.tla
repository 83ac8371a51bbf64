-------------------------- MODULE TokensController --------------------------
(***************************************************************************)
(* The ERC-20 tokens of each account on each network                       *)
(* (packages/assets-controllers): imported, ignored or detected by         *)
(* TokenDetectionController.  The lists of the selected account and        *)
(* network are kept a second time, for the user interface.  addToken,      *)
(* addTokens and addDetectedTokens take a mutex, and addToken awaits       *)
(* answers while it holds it; ignoreTokens and switches do not wait.       *)
(*                                                                         *)
(* A token is its contract; attributes, and that a list may hold a         *)
(* contract twice under two spellings, are left out.                       *)
(***************************************************************************)
EXTENDS Naturals, Sequences

CONSTANTS
  Chains,
  Accounts,
  Tokens,
  TokenCalls,     \* calls of the asynchronous methods
  MaxTokenSteps   \* how many calls, switches and ignores there are

ASSUME TokensAssumption == MaxTokenSteps \in Nat

VARIABLES
  tokenChain,     \* #chainId
  tokenAccount,   \* #selectedAddress
  lists,          \* allTokens, allIgnoredTokens and allDetectedTokens
  view,           \* tokens, ignoredTokens and detectedTokens
  tokenCall,      \* each call
  tokenMutex,     \* the call that holds #mutex, and those that wait for it
  imports,        \* history: the tokens imported, and not ignored since
  crossed,        \* history: a call was for another network, or the account changed in it
  tokenSteps

selectionVars == <<tokenChain, tokenAccount>>
listVars == <<lists, view, imports, crossed>>
tokensVars == <<selectionVars, listVars, tokenCall, tokenMutex, tokenSteps>>

Pairs == Chains \X Accounts
Lists == [tokens : SUBSET Tokens, ignored : SUBSET Tokens, detected : SUBSET Tokens]
NoTokens == [tokens |-> {}, ignored |-> {}, detected |-> {}]
IdleTokenCall == [step |-> "idle"]
EndedTokenCall == [step |-> "ended"]

\* A call is for the tokens of a pair; `own' is the account selected when it was made,
\* `client' whether it names a network client; `found' are the lists it has read.
Call(step, kind, S, p, own, client, lower, found) ==
  [step |-> step, kind |-> kind, tokens |-> S, pair |-> p, own |-> own, client |-> client,
   lower |-> lower, found |-> found]

TokensTypeOK ==
  /\ tokenChain \in Chains /\ tokenAccount \in Accounts
  /\ lists \in [Pairs -> Lists] /\ view \in Lists
  /\ \A c \in TokenCalls :
       tokenCall[c] \in {IdleTokenCall, EndedTokenCall} \cup
         [step : {"detecting", "asking", "waiting", "fetching"},
          kind : {"add", "import", "detected"}, tokens : SUBSET Tokens, pair : Pairs,
          own : Accounts, client : BOOLEAN, lower : BOOLEAN, found : Lists]
  /\ tokenMutex \in Seq(TokenCalls)
  /\ imports \in SUBSET (Pairs \X Tokens)
  /\ crossed \in BOOLEAN /\ tokenSteps \in 0..MaxTokenSteps

TokensInit ==
  /\ tokenChain \in Chains /\ tokenAccount \in Accounts
  /\ lists = [p \in Pairs |-> NoTokens]
  /\ view = NoTokens
  /\ tokenCall = [c \in TokenCalls |-> IdleTokenCall]
  /\ tokenMutex = <<>>
  /\ imports = {}
  /\ crossed = FALSE
  /\ tokenSteps = 0

selectedPair == <<tokenChain, tokenAccount>>

tokenStep == tokenSteps < MaxTokenSteps /\ tokenSteps' = tokenSteps + 1

-----------------------------------------------------------------------------

\* #onNetworkDidChange and #onPreferenceControllerStateChange.
showsTokensOf(p) ==
  /\ tokenStep
  /\ view' = lists[p]
  /\ UNCHANGED <<lists, tokenCall, tokenMutex, imports, crossed>>

networkDidChange(chain) ==
  /\ chain # tokenChain
  /\ tokenChain' = chain /\ UNCHANGED tokenAccount
  /\ showsTokensOf(<<chain, tokenAccount>>)

preferencesDidChange(account) ==
  /\ account # tokenAccount
  /\ tokenAccount' = account /\ UNCHANGED tokenChain
  /\ showsTokensOf(<<tokenChain, account>>)

\* ignoreTokens starts from the lists that are shown, and takes no mutex.
ignoreTokens(t) ==
  LET new == [tokens |-> view.tokens \ {t}, ignored |-> view.ignored \cup {t},
              detected |-> view.detected \ {t}] IN
  /\ tokenStep
  /\ view' = new
  /\ lists' = [lists EXCEPT ![selectedPair] = new]
  /\ imports' = imports \ {<<selectedPair, t>>}
  /\ UNCHANGED <<selectionVars, tokenCall, tokenMutex, crossed>>

clearIgnoredTokens ==
  /\ tokenStep
  /\ view' = [view EXCEPT !.ignored = {}]
  /\ lists' = [p \in Pairs |-> [lists[p] EXCEPT !.ignored = {}]]
  /\ UNCHANGED <<selectionVars, tokenCall, tokenMutex, imports, crossed>>

-----------------------------------------------------------------------------

\* addToken with the mutex: it reads the lists, then asks for the contract's interface
\* and metadata.
readsLists(c, call) ==
  /\ tokenCall' = [tokenCall EXCEPT ![c] =
                     [call EXCEPT !.step = "fetching", !.found = lists[call.pair]]]
  /\ tokenMutex' = IF tokenMutex = <<>> THEN <<c>> ELSE tokenMutex
  /\ UNCHANGED listVars

crosses(call) == call.own # tokenAccount \/ (call.client /\ call.pair[1] # tokenChain)

releases(c) ==
  /\ tokenCall' = [tokenCall EXCEPT ![c] = EndedTokenCall]
  /\ tokenMutex' = IF tokenMutex = <<>> THEN <<>> ELSE Tail(tokenMutex)

\* addTokens starts from the lists that are shown; a token stays ignored if its address
\* is not given in lower case.
importsTokens(c, call) ==
  LET new == [tokens |-> view.tokens \cup call.tokens,
              ignored |-> IF call.lower THEN view.ignored \ call.tokens ELSE view.ignored,
              detected |-> view.detected \ call.tokens]
      p == IF call.client THEN call.pair ELSE selectedPair IN
  /\ view' = new
  /\ lists' = [lists EXCEPT ![p] = new]
  /\ imports' = imports \cup ({p} \X call.tokens)
  /\ crossed' = (crossed \/ (call.client /\ p # selectedPair))
  /\ releases(c)

\* addDetectedTokens compares what is ignored with the address as it is given.
keepsDetected(c, call) ==
  LET kept == lists[call.pair]
      new == {t \in call.tokens \ kept.tokens : call.lower \/ t \notin kept.ignored}
      after == [lists EXCEPT ![call.pair].detected = @ \cup new] IN
  /\ lists' = after
  /\ view' = [view EXCEPT !.tokens = after[selectedPair].tokens,
                          !.detected = after[selectedPair].detected]
  /\ UNCHANGED <<imports, crossed>>
  /\ releases(c)

begins(c, call) ==
  \/ call.kind = "add" /\ readsLists(c, call)
  \/ call.kind = "import" /\ importsTokens(c, call)
  \/ call.kind = "detected" /\ keepsDetected(c, call)

\* Each of the three methods begins with this.#mutex.acquire().
acquires(c, call) ==
  IF tokenMutex = <<>> THEN begins(c, call)
  ELSE /\ tokenCall' = [tokenCall EXCEPT ![c] = [call EXCEPT !.step = "waiting"]]
       /\ tokenMutex' = Append(tokenMutex, c)
       /\ UNCHANGED listVars

mutexHandedOn(c) ==
  /\ tokenCall[c].step = "waiting" /\ Head(tokenMutex) = c
  /\ begins(c, tokenCall[c])
  /\ UNCHANGED <<selectionVars, tokenSteps>>

\* addToken for the selected account or another one, on the selected network or that of
\* a network client.
addToken(c, t, p) ==
  /\ tokenCall[c] = IdleTokenCall /\ tokenStep
  /\ \E client \in BOOLEAN :
       /\ ~client => p[1] = tokenChain
       /\ acquires(c, Call("waiting", "add", {t}, p, tokenAccount, client, FALSE, NoTokens))
  /\ UNCHANGED selectionVars

\* Fault: a token is added on the network that was selected before.
stillOnChainAsked(call) == TRUE

\* "Switched networks while adding token" is not for calls that name a network client.
stillOnChain(call) == call.client \/ call.pair[1] = tokenChain

metadataFetched(c) ==
  LET call == tokenCall[c]
      new == [tokens |-> call.found.tokens \cup call.tokens,
              ignored |-> call.found.ignored \ call.tokens,
              detected |-> call.found.detected \ call.tokens] IN
  /\ tokenCall[c].step = "fetching" /\ stillOnChain(call)
  /\ lists' = [lists EXCEPT ![call.pair] = new]
  /\ view' = IF call.pair[2] = call.own THEN new ELSE view
  /\ imports' = imports \cup ({call.pair} \X call.tokens)
  /\ crossed' = (crossed \/ crosses(call))
  /\ releases(c)
  /\ UNCHANGED <<selectionVars, tokenSteps>>

metadataFailed(c) ==
  /\ tokenCall[c].step = "fetching"
  /\ releases(c)
  /\ UNCHANGED <<selectionVars, listVars, tokenSteps>>

addTokens(c, S, chain, lower) ==
  /\ tokenCall[c] = IdleTokenCall /\ tokenStep
  /\ \E client \in BOOLEAN :
       /\ ~client => chain = tokenChain
       /\ acquires(c, Call("waiting", "import", S, <<chain, tokenAccount>>, tokenAccount, client,
                           lower, NoTokens))
  /\ UNCHANGED selectionVars

-----------------------------------------------------------------------------

\* watchAsset of a contract that is an ERC-20; the user is asked.
watchAsset(c, t, p) ==
  /\ tokenCall[c] = IdleTokenCall /\ tokenStep
  /\ tokenCall' = [tokenCall EXCEPT ![c] =
       Call("asking", "add", {t}, p, tokenAccount, p[1] # tokenChain, FALSE, NoTokens)]
  /\ UNCHANGED <<selectionVars, listVars, tokenMutex>>

\* addToken is called: without a network client it is for the network selected now.
watchApproved(c) ==
  LET call == tokenCall[c]
      chain == IF call.client THEN call.pair[1] ELSE tokenChain IN
  /\ call.step = "asking"
  /\ acquires(c, [call EXCEPT !.own = tokenAccount, !.pair = <<chain, @[2]>>])
  /\ UNCHANGED <<selectionVars, tokenSteps>>

watchRejected(c) ==
  /\ tokenCall[c].step = "asking"
  /\ tokenCall' = [tokenCall EXCEPT ![c] = EndedTokenCall]
  /\ UNCHANGED <<selectionVars, listVars, tokenMutex, tokenSteps>>

\* detectTokens of TokenDetectionController, for tokens in none of the lists.
detectTokens(c, p) ==
  LET known == lists[p].tokens \cup lists[p].ignored \cup lists[p].detected IN
  /\ tokenCall[c] = IdleTokenCall /\ tokenStep
  /\ Tokens \ known # {}
  /\ tokenCall' = [tokenCall EXCEPT ![c] =
       Call("detecting", "detected", Tokens \ known, p, tokenAccount, TRUE, TRUE, NoTokens)]
  /\ UNCHANGED <<selectionVars, listVars, tokenMutex>>

\* #addDetectedTokens: the balances are read, and those that are not zero are kept.
balancesRead(c, S, lower) ==
  LET call == tokenCall[c] IN
  /\ call.step = "detecting" /\ S \subseteq call.tokens
  /\ IF S # {} THEN acquires(c, [call EXCEPT !.tokens = S, !.lower = lower])
     ELSE /\ tokenCall' = [tokenCall EXCEPT ![c] = EndedTokenCall]
          /\ UNCHANGED <<listVars, tokenMutex>>
  /\ UNCHANGED <<selectionVars, tokenSteps>>

TokensNext ==
  \/ \E chain \in Chains : networkDidChange(chain)
  \/ \E account \in Accounts : preferencesDidChange(account)
  \/ \E t \in Tokens : ignoreTokens(t)
  \/ clearIgnoredTokens
  \/ \E c \in TokenCalls :
       \/ \E t \in Tokens, p \in Pairs : addToken(c, t, p) \/ watchAsset(c, t, p)
       \/ \E t \in Tokens, chain \in Chains, lower \in BOOLEAN : addTokens(c, {t}, chain, lower)
       \/ \E p \in Pairs : detectTokens(c, p)
       \/ \E S \in SUBSET Tokens, lower \in BOOLEAN : balancesRead(c, S, lower)
       \/ watchApproved(c) \/ watchRejected(c)
       \/ mutexHandedOn(c) \/ metadataFetched(c) \/ metadataFailed(c)

-----------------------------------------------------------------------------

(***************************************************************************)
(* The doc of the state: `tokens' is the "List of tokens associated with   *)
(* the active network and address pair"; so are the other two.             *)
(***************************************************************************)
TokensAreOfActivePair == view = lists[selectedPair]

(***************************************************************************)
(* As long as no call was for another network and no account was changed   *)
(* while a token was fetched, the lists shown are those of the selected    *)
(* pair, no token that was imported is missing from its list until it is   *)
(* ignored, and none is imported and detected, however calls that wait for *)
(* the mutex, switches, ignores and late answers meet.                     *)
(***************************************************************************)
ImportsAreKept ==
  /\ TokensTypeOK
  /\ ~crossed =>
       /\ TokensAreOfActivePair
       /\ \A i \in imports : i[2] \in lists[i[1]].tokens
       /\ \A p \in Pairs : lists[p].tokens \cap lists[p].detected = {}

-----------------------------------------------------------------------------

(***************************************************************************)
(* The NFTs of each account on each network, and the contracts they are    *)
(* of (packages/assets-controllers).  An NFT is added in two steps, each   *)
(* with the mutex: its contract, about which servers are asked meanwhile,  *)
(* and then the NFT.  NftDetectionController adds what it finds; ownership *)
(* is checked, NFTs are removed and marked as favourites without a mutex.  *)
(*                                                                         *)
(* Of an NFT there is kept whether it is a favourite, owned, and whether   *)
(* its metadata is known.                                                  *)
(***************************************************************************)

CONSTANTS
  NftChains,
  NftAccounts,
  Contracts,
  TokenIds,
  NoNft,          \* an NFT that is not in a list
  NftCalls,       \* calls of the asynchronous methods
  MaxNftSteps     \* how many calls, switches, removals and favourites there are

ASSUME NftsAssumption == MaxNftSteps \in Nat

VARIABLES
  nftChain,       \* #chainId
  nftAccount,     \* the account of #selectedAccountId
  allNfts,
  allNftContracts,
  ignoredNfts,
  nftCall,        \* each call
  nftMutex,       \* the call that holds #mutex, and those that wait for it
  added,          \* history: the NFTs added, and not removed since
  disturbed,      \* history: a removal, a switch or a check ran into an unfinished call
  nftSteps

nftSelectionVars == <<nftChain, nftAccount>>
nftListVars == <<allNfts, allNftContracts, ignoredNfts, added, disturbed>>
nftVars == <<nftSelectionVars, nftListVars, nftCall, nftMutex, nftSteps>>

NftPairs == NftChains \X NftAccounts
Nfts == Contracts \X TokenIds
Entry == [favorite : BOOLEAN, owned : BOOLEAN, named : BOOLEAN]
NoNfts == [n \in Nfts |-> NoNft]

ASSUME NoNftAssumption == NoNft \notin Entry

IdleNftCall == [step |-> "idle"]
EndedNftCall == [step |-> "ended"]

\* `found' are the NFTs, and `contracts' the contracts that a call has read.
NftCall(step, nft, p, client, detected) ==
  [step |-> step, nft |-> nft, pair |-> p, client |-> client, detected |-> detected,
   found |-> NoNfts, contracts |-> {}]

NftsTypeOK ==
  /\ nftChain \in NftChains /\ nftAccount \in NftAccounts
  /\ allNfts \in [NftPairs -> [Nfts -> Entry \cup {NoNft}]]
  /\ allNftContracts \in [NftPairs -> SUBSET Contracts]
  /\ ignoredNfts \in SUBSET Nfts
  /\ nftMutex \in Seq(NftCalls)
  /\ added \in SUBSET (NftPairs \X Nfts)
  /\ disturbed \in BOOLEAN /\ nftSteps \in 0..MaxNftSteps

NftsInit ==
  /\ nftChain \in NftChains /\ nftAccount \in NftAccounts
  /\ allNfts = [p \in NftPairs |-> NoNfts]
  /\ allNftContracts = [p \in NftPairs |-> {}]
  /\ ignoredNfts = {}
  /\ nftCall = [c \in NftCalls |-> IdleNftCall]
  /\ nftMutex = <<>>
  /\ added = {}
  /\ disturbed = FALSE
  /\ nftSteps = 0

nftPair == <<nftChain, nftAccount>>
listed(p) == {n \in Nfts : allNfts[p][n] # NoNft}
unfinished == \E c \in NftCalls : nftCall[c] \notin {IdleNftCall, EndedNftCall}

nftStep == nftSteps < MaxNftSteps /\ nftSteps' = nftSteps + 1
nftCallIs(c, call) == nftCall' = [nftCall EXCEPT ![c] = call]
nftCallAt(c, step) == nftCall' = [nftCall EXCEPT ![c].step = step]
startsNftCall(c, call) == nftCall[c] = IdleNftCall /\ nftStep /\ nftCallIs(c, call)

\* #mutex.acquire(), and the release.
linesUp(c) == nftMutex' = Append(nftMutex, c)
hasMutex(c) == nftMutex # <<>> /\ Head(nftMutex) = c
mutexReleased == nftMutex' = Tail(nftMutex)

\* #getCorrectChainId, and #getAddressOrSelectedAddress before it.
getCorrectChainId(call) == IF call.client THEN call.pair[1] ELSE nftChain

-----------------------------------------------------------------------------

\* addNft reads the chain, and asks for the metadata unless it was given them.
addsNft(c, call, withMetadata) ==
  LET now == [call EXCEPT !.pair = <<getCorrectChainId(call), @[2]>>] IN
  IF withMetadata THEN nftCallIs(c, [now EXCEPT !.step = "contract"]) /\ linesUp(c)
  ELSE nftCallIs(c, [now EXCEPT !.step = "metadata"]) /\ UNCHANGED nftMutex

addNft(c, nft, p, client) ==
  /\ nftCall[c] = IdleNftCall /\ nftStep
  /\ ~client => p[1] = nftChain
  /\ addsNft(c, NftCall("metadata", nft, p, client, FALSE), FALSE)
  /\ UNCHANGED <<nftSelectionVars, nftListVars>>

nftInformationFound(c) ==
  /\ nftCall[c].step = "metadata"
  /\ nftCallAt(c, "contract")
  /\ linesUp(c)
  /\ UNCHANGED <<nftSelectionVars, nftListVars, nftSteps>>

\* addNftVerifyOwnership and watchNft ask the network; watchNft then asks the user.
verifiesOwnership(c, nft, p, client, watch) ==
  /\ ~client => p[1] = nftChain
  /\ startsNftCall(c, NftCall(IF watch THEN "watching" ELSE "verifying", nft, p, client, FALSE))
  /\ UNCHANGED <<nftSelectionVars, nftListVars, nftMutex>>

ownershipVerified(c) ==
  /\ nftCall[c].step = "verifying"
  /\ addsNft(c, nftCall[c], FALSE)
  /\ UNCHANGED <<nftSelectionVars, nftListVars, nftSteps>>

watchChecked(c) ==
  /\ nftCall[c].step = "watching"
  /\ nftCallAt(c, "asking")
  /\ UNCHANGED <<nftSelectionVars, nftListVars, nftMutex, nftSteps>>

\* watchNft passes on the account it was given, or else the one selected by now.
watchNftApproved(c, given) ==
  /\ nftCall[c].step = "asking"
  /\ addsNft(c, [nftCall[c] EXCEPT !.pair[2] = IF given THEN @ ELSE nftAccount], TRUE)
  /\ UNCHANGED <<nftSelectionVars, nftListVars, nftSteps>>

nftCallFails(c) ==
  /\ nftCall[c].step \in {"verifying", "watching", "asking"}
  /\ nftCallIs(c, EndedNftCall)
  /\ UNCHANGED <<nftSelectionVars, nftListVars, nftMutex, nftSteps>>

\* detectNfts, once at a time for the selected network and an account; it adds what is
\* not ignored when the answer comes.
detectNfts(c, account, client) ==
  LET key == <<nftChain, account>> IN
  /\ \A d \in NftCalls : nftCall[d] \notin {IdleNftCall, EndedNftCall} =>
       ~(nftCall[d].detected /\ nftCall[d].pair = key)
  /\ startsNftCall(c, NftCall("detecting", NoNft, key, client, TRUE))
  /\ UNCHANGED <<nftSelectionVars, nftListVars, nftMutex>>

nftDetected(c, nft) ==
  /\ nftCall[c].step = "detecting"
  /\ IF nft \in ignoredNfts THEN nftCallIs(c, EndedNftCall) /\ UNCHANGED nftMutex
     ELSE addsNft(c, [nftCall[c] EXCEPT !.nft = nft], TRUE)
  /\ UNCHANGED <<nftSelectionVars, nftListVars, nftSteps>>

\* Fault: the contract is asked for before the mutex is taken.
mayAddContractAtOnce(c) == TRUE

\* #addNftContract reads the chain again.
mayAddContract(c) == hasMutex(c)

addNftContract(c) ==
  LET call == nftCall[c]
      p == <<getCorrectChainId(call), call.pair[2]>>
      k == call.nft[1] IN
  /\ call.step = "contract" /\ mayAddContract(c)
  /\ disturbed' = (disturbed \/ p # call.pair)
  /\ IF k \in allNftContracts[p]
     THEN /\ nftCallAt(c, "individual")
          /\ nftMutex' = Append(Tail(nftMutex), c)
     ELSE /\ nftCallIs(c, [call EXCEPT !.step = "contract information",
                                       !.contracts = allNftContracts[p]])
          /\ UNCHANGED nftMutex
  /\ UNCHANGED <<nftSelectionVars, allNfts, allNftContracts, ignoredNfts, added, nftSteps>>

\* Nothing is added of a detected contract of which nothing is known.
contractInformationFound(c, known) ==
  LET call == nftCall[c] IN
  /\ call.step = "contract information"
  /\ IF call.detected /\ ~known
     THEN nftCallIs(c, EndedNftCall) /\ mutexReleased /\ UNCHANGED allNftContracts
     ELSE /\ allNftContracts' = [allNftContracts EXCEPT ![call.pair] =
                                   call.contracts \cup {call.nft[1]}]
          /\ nftCallAt(c, "individual")
          /\ nftMutex' = Append(Tail(nftMutex), c)
  /\ UNCHANGED <<nftSelectionVars, allNfts, ignoredNfts, added, disturbed, nftSteps>>

\* #addIndividualNft: an NFT that is listed keeps whether it is owned.
addIndividualNft(c, named) ==
  LET call == nftCall[c]
      old == allNfts[call.pair][call.nft]
      new == IF old = NoNft THEN [favorite |-> FALSE, owned |-> TRUE, named |-> named]
             ELSE [old EXCEPT !.named = named] IN
  /\ call.step = "individual" /\ hasMutex(c)
  /\ allNfts' = [allNfts EXCEPT ![call.pair][call.nft] = new]
  /\ added' = added \cup {<<call.pair, call.nft>>}
  /\ nftCallIs(c, EndedNftCall)
  /\ mutexReleased
  /\ UNCHANGED <<nftSelectionVars, allNftContracts, ignoredNfts, disturbed, nftSteps>>

-----------------------------------------------------------------------------

\* The contract goes with its last NFT.
withoutNft(p, nft) ==
  LET left == listed(p) \ {nft} IN
  /\ nft \in listed(p) /\ nftStep
  /\ allNfts' = [allNfts EXCEPT ![p][nft] = NoNft]
  /\ allNftContracts' = [allNftContracts EXCEPT ![p] =
       IF \E n \in left : n[1] = nft[1] THEN @ ELSE @ \ {nft[1]}]
  /\ added' = added \ {<<p, nft>>}
  /\ disturbed' = (disturbed \/ unfinished)
  /\ UNCHANGED <<nftSelectionVars, nftCall, nftMutex>>

removeNft(p, nft) ==
  /\ withoutNft(p, nft)
  /\ UNCHANGED ignoredNfts

removeAndIgnoreNft(p, nft) ==
  /\ withoutNft(p, nft)
  /\ ignoredNfts' = ignoredNfts \cup {nft}

clearIgnoredNfts ==
  /\ ignoredNfts # {} /\ nftStep
  /\ ignoredNfts' = {}
  /\ UNCHANGED <<nftSelectionVars, allNfts, allNftContracts, added, disturbed, nftCall, nftMutex>>

updateNftFavoriteStatus(p, nft) ==
  /\ nft \in listed(p) /\ nftStep
  /\ allNfts' = [allNfts EXCEPT ![p][nft].favorite = ~@]
  /\ UNCHANGED <<nftSelectionVars, allNftContracts, ignoredNfts, added, disturbed, nftCall,
                 nftMutex>>

nftNetworkDidChange(chain) ==
  /\ chain # nftChain /\ nftStep
  /\ nftChain' = chain
  /\ UNCHANGED <<nftAccount, nftListVars, nftCall, nftMutex>>

\* updateNftMetadata of what has none, with copies of the NFTs.
updatesMetadata(c, account, S) ==
  /\ nftCall[c] = IdleNftCall
  /\ nftCallIs(c, [NftCall("update", NoNft, <<nftChain, account>>, FALSE,
                           FALSE) EXCEPT
                     !.found = [n \in Nfts |-> IF n \in S THEN allNfts[<<nftChain, account>>][n]
                                               ELSE NoNft]])
  /\ linesUp(c)

\* #onSelectedAccountChange, with #updateNftUpdateForAccount.
onSelectedAccountChange(account) ==
  LET p == <<nftChain, account>>
      S == {n \in listed(p) : ~allNfts[p][n].named} IN
  /\ account # nftAccount /\ nftStep
  /\ nftAccount' = account
  /\ IF S = {} THEN UNCHANGED <<nftCall, nftMutex>>
     ELSE \E c \in NftCalls : updatesMetadata(c, account, S)
  /\ UNCHANGED <<nftChain, nftListVars>>

\* With the mutex the chain is read, and servers are asked.
updateNftMetadata(c) ==
  /\ nftCall[c].step = "update" /\ hasMutex(c)
  /\ nftCall' = [nftCall EXCEPT ![c].step = "updating", ![c].pair[1] = nftChain]
  /\ UNCHANGED <<nftSelectionVars, nftListVars, nftMutex, nftSteps>>

\* updateNft, for what is still listed, replaces it with the copy that was read.
nftMetadataFound(c) ==
  LET call == nftCall[c] IN
  /\ call.step = "updating"
  /\ allNfts' = [allNfts EXCEPT ![call.pair] = [n \in Nfts |->
       IF @[n] = NoNft \/ call.found[n] = NoNft \/ @[n].named THEN @[n]
       ELSE [call.found[n] EXCEPT !.named = TRUE]]]
  /\ nftCallIs(c, EndedNftCall)
  /\ mutexReleased
  /\ UNCHANGED <<nftSelectionVars, allNftContracts, ignoredNfts, added, disturbed, nftSteps>>

\* checkAndUpdateAllNftsOwnershipStatus, without the mutex, writes the list it has read.
checkAllOwnership(c, p, client) ==
  /\ ~client => p[1] = nftChain
  /\ startsNftCall(c, [NftCall("checking", NoNft, p, client, FALSE) EXCEPT
                         !.found = allNfts[p]])
  /\ UNCHANGED <<nftSelectionVars, nftListVars, nftMutex>>

allOwnershipChecked(c, owned) ==
  LET call == nftCall[c] IN
  /\ call.step = "checking"
  /\ allNfts' = [allNfts EXCEPT ![call.pair] = [n \in Nfts |->
       IF call.found[n] = NoNft THEN NoNft ELSE [call.found[n] EXCEPT !.owned = n \in owned]]]
  /\ disturbed' = (disturbed \/ \E n \in Nfts :
                     (n \in listed(call.pair)) # (call.found[n] # NoNft))
  /\ nftCallIs(c, EndedNftCall)
  /\ UNCHANGED <<nftSelectionVars, allNftContracts, ignoredNfts, added, nftMutex, nftSteps>>

\* checkAndUpdateSingleNftOwnershipStatus writes the copy it was given, if still listed.
checkSingleOwnership(c, p, nft) ==
  /\ nft \in listed(p)
  /\ startsNftCall(c, [NftCall("checking one", nft, p, TRUE, FALSE) EXCEPT
                         !.found = allNfts[p]])
  /\ UNCHANGED <<nftSelectionVars, nftListVars, nftMutex>>

singleOwnershipChecked(c, owned) ==
  LET call == nftCall[c] IN
  /\ call.step = "checking one"
  /\ allNfts' = [allNfts EXCEPT ![call.pair][call.nft] =
       IF @ = NoNft THEN @ ELSE [call.found[call.nft] EXCEPT !.owned = owned]]
  /\ nftCallIs(c, EndedNftCall)
  /\ UNCHANGED <<nftSelectionVars, allNftContracts, ignoredNfts, added, disturbed, nftMutex,
                 nftSteps>>

NftsNext ==
  \/ \E c \in NftCalls :
       \/ \E nft \in Nfts, p \in NftPairs, client \in BOOLEAN :
            \/ addNft(c, nft, p, client)
            \/ \E watch \in BOOLEAN : verifiesOwnership(c, nft, p, client, watch)
       \/ \E account \in NftAccounts, client \in BOOLEAN : detectNfts(c, account, client)
       \/ \E nft \in Nfts : nftDetected(c, nft)
       \/ nftInformationFound(c) \/ ownershipVerified(c) \/ watchChecked(c) \/ nftCallFails(c)
       \/ \E b \in BOOLEAN : watchNftApproved(c, b) \/ contractInformationFound(c, b)
                             \/ addIndividualNft(c, b) \/ singleOwnershipChecked(c, b)
       \/ addNftContract(c) \/ updateNftMetadata(c) \/ nftMetadataFound(c)
       \/ \E p \in NftPairs, client \in BOOLEAN : checkAllOwnership(c, p, client)
       \/ \E p \in NftPairs, nft \in Nfts : checkSingleOwnership(c, p, nft)
       \/ \E owned \in SUBSET Nfts : allOwnershipChecked(c, owned)
  \/ \E p \in NftPairs, nft \in Nfts :
       updateNftFavoriteStatus(p, nft) \/ removeNft(p, nft) \/ removeAndIgnoreNft(p, nft)
  \/ clearIgnoredNfts
  \/ \E chain \in NftChains : nftNetworkDidChange(chain)
  \/ \E account \in NftAccounts : onSelectedAccountChange(account)

-----------------------------------------------------------------------------

(***************************************************************************)
(* As long as no removal, switch or check of everything ran into a call    *)
(* that was not finished, each NFT that was added is listed until it is    *)
(* removed, and with it its contract, although an NFT is added in two      *)
(* steps with two turns of the mutex, and others are added between them.   *)
(***************************************************************************)
NftsAreKept ==
  /\ NftsTypeOK
  /\ ~disturbed =>
       /\ \A a \in added : a[2] \in listed(a[1])
       /\ \A p \in NftPairs : \A n \in listed(p) : n[1] \in allNftContracts[p]
=============================================================================
