------------------------------- MODULE LateAnswers -------------------------------
(***************************************************************************)
(* Controllers that keep what they were told, by contracts, servers and    *)
(* other controllers, while users and networks change before the answers   *)
(* come: the tokens and the NFTs of the accounts, names, gas fees and      *)
(* lists of tokens, notifications, the session of a profile and where is   *)
(* pushed to, subscribers of an event, and transactions that are edited.   *)
(* They share neither state nor mutex: a behaviour is one of one part,     *)
(* chosen at the start, and the states of the parts add up.                *)
(***************************************************************************)
EXTENDS TokensController, ControllerMessenger,
        NameController, ChainPolls, TransactionEdits, ProfileServices, TLC

VARIABLE part

assetVars == <<tokensVars, nftVars>>

chainVars == <<namesVars, chainPollsVars>>

answerVars == <<messengerVars, notificationVars>>

sessionVars == <<profileVars, pushVars>>

allVars == <<part, assetVars, chainVars, answerVars, editVars, sessionVars>>

Init ==
  /\ part \in {"tokens", "NFTs", "messenger", "triggers", "notes", "proposals", "ENS",
              "fees", "lists", "balances", "edits", "session", "push"}
  /\ TokensInit /\ NftsInit /\ selectedPair = nftPair
  /\ MessengerInit /\ NotificationsInit
  /\ part # "triggers" => servicesEnabled
  /\ NamesInit
  /\ part # "proposals" => DOMAIN names = {}
  /\ part # "ENS" => ensNetwork \in Registries
  /\ ChainPollsInit
  /\ feeNetwork = tokenChain /\ listChain = tokenChain /\ balanceAccount = tokenAccount
  /\ part # "lists" => ~preventPolling
  /\ part # "balances" => ~balancesDisabled
  /\ EditsInit
  /\ part # "edits" => edits = MaxEdits
  /\ SessionInit /\ PushInit
  /\ part # "session" => metrics

tokensSteps == part = "tokens" /\ TokensNext /\ UNCHANGED nftVars

nftsSteps == part = "NFTs" /\ NftsNext /\ UNCHANGED tokensVars

eventSteps == part = "messenger" /\ MessengerNext /\ UNCHANGED notificationVars

notificationSteps ==
  /\ \/ part = "triggers" /\ TriggersNext
     \/ part = "notes" /\ NotesNext
  /\ UNCHANGED messengerVars

namesSteps ==
  /\ \/ part = "proposals" /\ ProposalsNext /\ UNCHANGED ensVars
     \/ part = "ENS" /\ EnsNext /\ UNCHANGED proposalVars
  /\ UNCHANGED chainPollsVars

chainSteps ==
  /\ \/ part = "fees" /\ FeesNext /\ UNCHANGED <<tokenListVars, balanceVars>>
     \/ part = "lists" /\ ListsNext /\ UNCHANGED <<feeVars, balanceVars>>
     \/ part = "balances" /\ BalancesNext /\ UNCHANGED <<feeVars, tokenListVars>>
  /\ UNCHANGED namesVars

assetSteps ==
  /\ tokensSteps \/ nftsSteps
  /\ UNCHANGED <<part, chainVars, answerVars, editVars, sessionVars>>

networkSteps ==
  /\ namesSteps \/ chainSteps
  /\ UNCHANGED <<part, assetVars, answerVars, editVars, sessionVars>>

answerSteps ==
  /\ eventSteps \/ notificationSteps
  /\ UNCHANGED <<part, assetVars, chainVars, editVars, sessionVars>>

editSteps ==
  part = "edits" /\ EditsNext /\ UNCHANGED <<part, assetVars, chainVars, answerVars, sessionVars>>

profileSteps ==
  /\ \/ part = "session" /\ SessionNext /\ UNCHANGED pushVars
     \/ part = "push" /\ PushNext /\ UNCHANGED profileVars
  /\ UNCHANGED <<part, assetVars, chainVars, answerVars, editVars>>

Next == assetSteps \/ networkSteps \/ answerSteps \/ editSteps \/ profileSteps

Spec == Init /\ [][Next]_allVars

\* Networks, accounts, tokens, contracts and calls differ in their names only.  Parts share
\* names, so that one permutation serves all of them.
Symmetry ==
  {f @@ g @@ h @@ i @@ j :
     f \in Permutations(Chains \cup NftChains \cup FeeChains),
     g \in Permutations(Accounts \cup NftAccounts),
     h \in Permutations(TokenCalls \cup NftCalls \cup NameCalls),
     i \in Permutations(Tokens \cup Contracts),
     j \in Permutations(TokenIds)}

-----------------------------------------------------------------------------

(***************************************************************************)
(* What users imported, of tokens and of NFTs, is what they find.          *)
(***************************************************************************)
AssetsAreKept == ImportsAreKept /\ NftsAreKept

(***************************************************************************)
(* What late answers, failing calls and publications within publications   *)
(* must not undo: an announcement that was read stays so, an account is    *)
(* added once, the triggers that the server has are known; what            *)
(* subscribers of an event were told last is the newest; names are         *)
(* proposed by sources that are not asked too often, or registered on the  *)
(* selected network; who signs out stays so; and the server pushes to the  *)
(* devices that are registered.                                            *)
(***************************************************************************)
AnswersAreKept ==
  /\ ReadStaysRead /\ AccountsAreAddedOnce /\ TriggersAreKnown
  /\ NewestIsSeen
  /\ NamesAreKept
  /\ SessionsAreEnded /\ PushesAreLinked
=============================================================================
