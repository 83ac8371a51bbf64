----------------------------- MODULE NameController -----------------------------
(***************************************************************************)
(* Names of addresses: those the user saved and those that sources propose *)
(* (packages/name-controller), and those that a network registers          *)
(* (packages/ens-controller).  Proposals are asked of all providers at     *)
(* once and stored when the last of them has answered; sources that were   *)
(* asked lately may be left out.  A registered name is looked up in two    *)
(* requests, the second of which asks the provider of that moment.         *)
(*                                                                         *)
(* Time is counted in steps, and starts when a time of zero is long ago.   *)
(***************************************************************************)
EXTENDS Naturals, FiniteSets

CONSTANTS
  Named,           \* the addresses that have names, in lower case
  ChainSpellings,  \* how callers write the chain of a name
  Normal,          \* the spelling in lower case
  NameProviders,   \* a provider is the set of its sources
  DormantSources,  \* sources of providers that this build no longer has
  NameCalls,       \* calls of updateProposedNames
  NoCall,
  UpdateDelay,     \* #updateDelay, if the source asks for none
  LongDelay,       \* the delay that a source asks for
  Expire,          \* PROPOSED_NAME_EXPIRE_DURATION
  MaxTime,         \* how long we look
  MaxNameSteps,    \* how many names are saved and updates asked for
  EnsChains,       \* the networks that may be selected
  Registries,      \* those that come with a registry
  NoProvider,
  MaxEnsSteps

NameSources == UNION NameProviders

ASSUME NamesAssumption ==
  /\ Normal \in ChainSpellings
  /\ DormantSources \cap NameSources = {}
  /\ \A p, q \in NameProviders : p # q => p \cap q = {}
  /\ {UpdateDelay, LongDelay, Expire, MaxTime, MaxNameSteps, MaxEnsSteps} \subseteq Nat
  /\ UpdateDelay <= Expire
  /\ Registries \subseteq EnsChains

VARIABLES
  names,           \* state.names: the entry of each address that has one, on our chain
  updating,        \* the calls of updateProposedNames under way
  nameClock,
  answered,        \* when each source was last heard of each address, and its delay
  askedEarly,      \* whether a source was asked again before its delay was over
  nameSteps

VARIABLES
  ensEntries,      \* state.ensEntries: the chains that have entries
  resolutions,     \* state.ensResolutionsByAddress, with the network asked
  ethProvider,     \* #ethProvider: its network, or none
  ensNetwork,      \* the network selected
  resolving,       \* the calls of reverseResolveAddress under way
  ensSteps

proposalVars == <<names, updating, nameClock, answered, askedEarly, nameSteps>>

ensVars == <<ensEntries, resolutions, ethProvider, ensNetwork, resolving, ensSteps>>

namesVars == <<proposalVars, ensVars>>

\* ProposedNamesEntry, with whether it has names; no delay is zero.
Proposal(any, last, delay) == [names |-> any, lastRequestTime |-> last, updateDelay |-> delay]

\* NameEntry: whether the user gave a name, and the proposals of some sources.
NameEntry(name, proposed) == [name |-> name, proposedNames |-> proposed]

None == [s \in {} |-> 0]

NamesInit ==
  /\ \E old \in SUBSET DormantSources :
       names = IF old = {} THEN [v \in {} |-> 0]
               ELSE [v \in Named |-> NameEntry(FALSE, [s \in old |-> Proposal(FALSE, Expire, 0)])]
  /\ updating = [c \in NameCalls |-> NoCall]
  /\ nameClock = Expire /\ nameSteps = 0
  /\ answered = [v \in Named |-> None]
  /\ askedEarly = FALSE
  /\ ensEntries = Registries /\ resolutions = [v \in {} |-> 0] /\ ethProvider = NoProvider
  /\ ensNetwork \in EnsChains /\ resolving = [v \in Named |-> NoCall] /\ ensSteps = 0

-----------------------------------------------------------------------------
(* Saved and proposed names *)

mayStep == nameSteps < MaxNameSteps /\ nameSteps' = nameSteps + 1

\* The requests that pass #validateSetNameRequest: a cleared name has no source.
isValidName(name, source) ==
  source \in NameSources \cup {NoProvider} /\ (~name => source = NoProvider)

entryOf(v) == IF v \in DOMAIN names THEN names[v] ELSE NameEntry(FALSE, None)

updateEntry(v, entry) == [w \in DOMAIN names \cup {v} |-> IF w = v THEN entry ELSE names[w]]

setName(v, name, source) ==
  /\ mayStep
  /\ isValidName(name, source)
  /\ names' = updateEntry(v, [entryOf(v) EXCEPT !.name = name])
  /\ UNCHANGED <<updating, nameClock, answered, askedEarly>>

\* The spelling of the caller finds the entry only if it is the normal one.
proposalFound(v, spelling, s) ==
  IF spelling = Normal /\ v \in DOMAIN names /\ s \in DOMAIN names[v].proposedNames
  THEN names[v].proposedNames[s] ELSE Proposal(FALSE, 0, 0)

delayOf(p) == IF p.updateDelay = 0 THEN UpdateDelay ELSE p.updateDelay

matchingSourceIds(v, spelling, requested, onlyUpdateAfterDelay) ==
  {s \in requested :
     onlyUpdateAfterDelay =>
       LET p == proposalFound(v, spelling, s) IN nameClock - p.lastRequestTime >= delayOf(p)}

\* A source was heard of the address, and neither its delay nor its proposal is over.
isFresh(v, s) ==
  /\ s \in DOMAIN answered[v]
  /\ LET p == answered[v][s] IN
       nameClock - p.lastRequestTime < (IF delayOf(p) < Expire THEN delayOf(p) ELSE Expire)

updateProposedNames(c, v, spelling, requested, onlyUpdateAfterDelay) ==
  LET asked == matchingSourceIds(v, spelling, requested, onlyUpdateAfterDelay) IN
  /\ mayStep
  /\ updating[c] = NoCall
  /\ updating' = [updating EXCEPT ![c] =
       [value |-> v, results |-> None,
        waits |-> {p \in NameProviders : p \cap asked # {}}, asked |-> asked]]
  /\ askedEarly' = (\/ askedEarly
                    \/ /\ onlyUpdateAfterDelay /\ spelling = Normal
                       /\ \E s \in asked : isFresh(v, s))
  /\ UNCHANGED <<names, nameClock, answered>>

\* #getProviderResponse: names or an error, of each source that was asked, and perhaps a delay.
providerResponds(c, p, proposes, delay) ==
  /\ updating[c] # NoCall /\ p \in updating[c].waits
  /\ LET call == updating[c]
         result == [proposes |-> proposes, delay |-> delay] IN
     updating' = [updating EXCEPT ![c] = [call EXCEPT
       !.waits = @ \ {p},
       !.results = [s \in DOMAIN @ \cup (p \cap call.asked) |->
                       IF s \in DOMAIN @ THEN @[s] ELSE result]]]
  /\ UNCHANGED <<names, nameClock, answered, askedEarly, nameSteps>>

\* A source that failed keeps its names, but it was asked.
proposalAfter(call, s, p) ==
  Proposal(call.results[s].proposes \/ p.names, nameClock, call.results[s].delay)

\* #removeDormantProposedNames, and the results of the call.
proposalsAfter(call, proposed) ==
  [s \in (DOMAIN proposed \ DormantSources) \cup DOMAIN call.results |->
     IF s \notin DOMAIN call.results THEN proposed[s]
     ELSE proposalAfter(call, s,
            IF s \in DOMAIN proposed THEN proposed[s] ELSE Proposal(FALSE, 0, 0))]

isExpired(entry) ==
  /\ ~entry.name
  /\ \A s \in DOMAIN entry.proposedNames :
       nameClock - entry.proposedNames[s].lastRequestTime >= Expire

removeExpiredEntries(entries) ==
  [v \in {w \in DOMAIN entries : ~isExpired(entries[w])} |-> entries[v]]

updateProposedNameState(c) ==
  /\ updating[c] # NoCall /\ updating[c].waits = {}
  /\ LET call == updating[c]
         v == call.value
         entry == [entryOf(v) EXCEPT !.proposedNames = proposalsAfter(call, @)] IN
     /\ names' = removeExpiredEntries(updateEntry(v, entry))
     /\ answered' = [answered EXCEPT ![v] =
          [s \in DOMAIN @ \cup DOMAIN call.results |->
             IF s \notin DOMAIN call.results THEN @[s]
             ELSE Proposal(FALSE, nameClock, call.results[s].delay)]]
  /\ updating' = [updating EXCEPT ![c] = NoCall]
  /\ UNCHANGED <<nameClock, askedEarly, nameSteps>>

nameTimePasses ==
  /\ nameClock < Expire + MaxTime /\ nameClock' = nameClock + 1
  /\ UNCHANGED <<names, updating, answered, askedEarly, nameSteps>>

ProposalsNext ==
  \/ \E v \in Named, name \in BOOLEAN, source \in NameSources \cup {NoProvider} :
       setName(v, name, source)
  \/ \E c \in NameCalls, v \in Named, spelling \in ChainSpellings,
        requested \in {NameSources} \cup {{s} : s \in NameSources}, late \in BOOLEAN :
       updateProposedNames(c, v, spelling, requested, late)
  \/ \E c \in NameCalls, p \in NameProviders, proposes \in BOOLEAN, delay \in {0, LongDelay} :
       providerResponds(c, p, proposes, delay)
  \/ \E c \in NameCalls : updateProposedNameState(c)
  \/ nameTimePasses

-----------------------------------------------------------------------------
(* Registered names *)

mayLookUp == ensSteps < MaxEnsSteps /\ ensSteps' = ensSteps + 1

\* EnsController.set, of a chain that is new or a name of one that is not.
setEns(chain) ==
  /\ mayLookUp
  /\ ensEntries' = ensEntries \cup {chain}
  /\ UNCHANGED <<resolutions, ethProvider, ensNetwork, resolving>>

\* EnsController.delete, of the last entry of a chain.
deleteEns(chain) ==
  /\ mayLookUp
  /\ chain \in ensEntries
  /\ ensEntries' = ensEntries \ {chain}
  /\ UNCHANGED <<resolutions, ethProvider, ensNetwork, resolving>>

clearEns ==
  /\ mayLookUp
  /\ ensEntries' = {}
  /\ UNCHANGED <<resolutions, ethProvider, ensNetwork, resolving>>

resolutionsAfterSwitch == [v \in {} |-> 0]

ensNetworkChanged(chain) ==
  /\ mayLookUp
  /\ ensNetwork' = chain
  /\ resolutions' = resolutionsAfterSwitch
  /\ ethProvider' = IF chain \in ensEntries THEN chain ELSE NoProvider
  /\ resolving' = [v \in Named |-> IF resolving[v] = NoCall THEN NoCall
                                   ELSE [resolving[v] EXCEPT !.crossed = TRUE]]
  /\ UNCHANGED ensEntries

reverseResolveAddress(v) ==
  /\ mayLookUp
  /\ resolving[v] = NoCall /\ ethProvider # NoProvider
  /\ v \notin DOMAIN resolutions
  /\ resolving' = [resolving EXCEPT ![v] =
       [asked |-> ethProvider, named |-> FALSE, crossed |-> FALSE]]
  /\ UNCHANGED <<ensEntries, resolutions, ethProvider, ensNetwork>>

\* lookupAddress has found a domain: the provider of now is asked whose it is, if there is one.
domainFound(v) ==
  /\ resolving[v] # NoCall /\ ~resolving[v].named
  /\ resolving' = [resolving EXCEPT ![v] =
       IF ethProvider = NoProvider THEN NoCall
       ELSE [@ EXCEPT !.named = TRUE, !.asked = ethProvider]]
  /\ UNCHANGED <<ensEntries, resolutions, ethProvider, ensNetwork, ensSteps>>

\* resolveName has found the address itself.
nameResolved(v) ==
  /\ resolving[v] # NoCall /\ resolving[v].named
  /\ resolutions' = [w \in DOMAIN resolutions \cup {v} |->
       IF w # v THEN resolutions[w]
       ELSE [network |-> resolving[v].asked, crossed |-> resolving[v].crossed]]
  /\ resolving' = [resolving EXCEPT ![v] = NoCall]
  /\ UNCHANGED <<ensEntries, ethProvider, ensNetwork, ensSteps>>

\* No domain, an error, nobody's domain or that of another address.
notResolved(v) ==
  /\ resolving[v] # NoCall
  /\ resolving' = [resolving EXCEPT ![v] = NoCall]
  /\ UNCHANGED <<ensEntries, resolutions, ethProvider, ensNetwork, ensSteps>>

EnsNext ==
  \/ \E chain \in EnsChains : setEns(chain) \/ deleteEns(chain) \/ ensNetworkChanged(chain)
  \/ clearEns
  \/ \E v \in Named : reverseResolveAddress(v) \/ domainFound(v) \/ nameResolved(v)
                       \/ notResolved(v)

-----------------------------------------------------------------------------

(***************************************************************************)
(* Who asks "onlyUpdateAfterDelay" and spells the chain as it is stored    *)
(* never has a source asked before the delay of its last answer is over,   *)
(* good or bad, unless the proposals had expired: "The delay in seconds     *)
(* before a new request to a source should be made"                        *)
(* (NameController.ts:147).  Overlapping updates are no exception, since   *)
(* the delay is that from the last answer.                                 *)
(***************************************************************************)
SourcesAreSpared == ~askedEarly

(***************************************************************************)
(* A resolution that is listed was found on the network that is selected,  *)
(* unless the network changed while it was looked up: then it may be that  *)
(* of the network before.                                                  *)
(***************************************************************************)
ResolutionsAreOfNetwork ==
  \A v \in DOMAIN resolutions : ~resolutions[v].crossed => resolutions[v].network = ensNetwork

NamesAreKept == SourcesAreSpared /\ ResolutionsAreOfNetwork
=============================================================================
