-------------------------- MODULE AccountsController --------------------------
(***************************************************************************)
(* The accounts of the wallet (packages/accounts-controller), as they      *)
(* follow the keyrings: which ones there are and which one is selected.    *)
(* Accounts of snaps and the metadata other than the time of the last      *)
(* selection are left out.  Times are kept as an order: `recency' lists    *)
(* the accounts that were ever selected, the last one at the end.          *)
(* updateAccounts asks KeyringController for the addresses, and then for   *)
(* the keyring of each, and then replaces the list.                        *)
(***************************************************************************)
EXTENDS Integers, Sequences, FiniteSets

CONSTANTS
  NoAccount,           \* '', the id when nothing is selected
  MaxUpdates           \* calls of updateAccounts

VARIABLES
  accounts,            \* the keys of state.internalAccounts.accounts
  recency,
  selectedAccount,     \* state.internalAccounts.selectedAccount
  updating,            \* the call of updateAccounts: addresses to look up, and found
  updates,             \* how many there have been
  overlapped           \* history: the keyrings changed during one of them

updateVars == <<updating, updates, overlapped>>
accountsVars == <<accounts, recency, selectedAccount, updateVars>>

NotUpdating == [todo |-> {}, found |-> {}, busy |-> FALSE]

AccountsInit(as) ==
  /\ accounts = as
  /\ selectedAccount \in IF as = {} THEN {NoAccount} ELSE as
  /\ recency = IF as = {} THEN <<>> ELSE <<selectedAccount>>
  /\ updating = NotUpdating /\ updates = 0 /\ overlapped = FALSE

(***************************************************************************)
(* The elements of seq at positions in T, in order.  Unlike SelectSeq it   *)
(* is defined without recursion, so that the prover can reason about it.   *)
(***************************************************************************)
NumberOf(T, p) == Cardinality({q \in T : q <= p})
Nth(T, n) == CHOOSE p \in T : NumberOf(T, p) = n
at(seq, T) == [n \in 1..Cardinality(T) |-> seq[Nth(T, n)]]

\* The elements of seq that are in, or not in, a set.
among(seq, as) == at(seq, {p \in DOMAIN seq : seq[p] \in as})
without(seq, a) == at(seq, {p \in DOMAIN seq : seq[p] # a})

\* setSelectedAccount, with the recency of the accounts that are left.
select(a, seq) ==
  /\ selectedAccount' = a
  /\ recency' = Append(without(seq, a), a)

setSelectedAccount(a) ==
  /\ a \in accounts
  /\ select(a, recency)
  /\ UNCHANGED <<accounts, updateVars>>

\* Fault: the selection is left to whoever removed the account.
keptSelection(addresses) ==
  /\ recency' = among(recency, addresses)
  /\ UNCHANGED selectedAccount

\* The account that was selected last replaces a selected one that is gone.
reselected(addresses) ==
  LET left == among(recency, addresses) IN
  \/ /\ selectedAccount \in addresses
     /\ recency' = left
     /\ UNCHANGED selectedAccount
  \/ /\ selectedAccount \notin addresses
     /\ addresses = {}
     /\ recency' = left
     /\ selectedAccount' = NoAccount
  \/ /\ selectedAccount \notin addresses
     /\ \E a \in addresses :
          /\ left # <<>> => a = left[Len(left)]
          /\ select(a, left)

\* #handleAccountRemoved of each account whose address no keyring has any more.
handleAccountRemoved(as, addresses) == as \cap addresses

\* #handleNewAccountAdded of each address without an account.
handleNewAccountAdded(as, addresses) == as \cup (addresses \ as)

(***************************************************************************)
(* The keyrings have changed: accounts that are gone are removed, new ones *)
(* are added.  Nothing happens while the wallet is locked or shows no      *)
(* keyrings.                                                               *)
(***************************************************************************)
handleOnKeyringStateChange(isUnlocked, keyringsShown, addresses) ==
  /\ IF isUnlocked /\ keyringsShown
     THEN /\ accounts' =
               handleNewAccountAdded(handleAccountRemoved(accounts, addresses), addresses)
          /\ reselected(addresses)
     ELSE UNCHANGED <<accounts, recency, selectedAccount>>
  /\ overlapped' = (overlapped \/ updating.busy)
  /\ UNCHANGED <<updating, updates>>

updateAccounts(addresses) ==
  /\ ~updating.busy /\ updates < MaxUpdates
  /\ updates' = updates + 1
  /\ updating' = [todo |-> addresses, found |-> {}, busy |-> TRUE]
  /\ UNCHANGED <<accounts, recency, selectedAccount, overlapped>>

\* A keyring has the address a, or getKeyringForAccount throws.
accountLookedUp(a, isThere) ==
  /\ a \in updating.todo
  /\ updating' = IF isThere THEN [updating EXCEPT !.todo = @ \ {a}, !.found = @ \cup {a}]
                 ELSE NotUpdating
  /\ UNCHANGED <<accounts, recency, selectedAccount, updates, overlapped>>

\* The list is replaced, whatever has become of the keyrings meanwhile.
accountsUpdated ==
  /\ updating.busy /\ updating.todo = {}
  /\ accounts' = updating.found
  /\ recency' = among(recency, updating.found)
  /\ updating' = NotUpdating
  /\ UNCHANGED <<selectedAccount, updates, overlapped>>

-----------------------------------------------------------------------------
(* PreferencesController: the identities of the wallet                     *)
(* (packages/preferences-controller), an older copy of the accounts, which *)
(* follows the keyrings on its own.                                        *)

CONSTANT NoAddress     \* the selected address of a wallet without identities

VARIABLES
  identities,          \* the keys of state.identities
  selectedAddress

identityVars == <<identities, selectedAddress>>

IdentitiesInit(as) ==
  identities = as /\ selectedAddress \in IF as = {} THEN {NoAddress} ELSE as

\* The subscription to the keyrings, and #syncIdentities: one of the addresses
\* replaces a selected one that is gone.
syncIdentities(addresses) ==
  IF addresses = {} THEN UNCHANGED identityVars
  ELSE /\ identities' = addresses
       /\ IF selectedAddress \in addresses THEN UNCHANGED selectedAddress
          ELSE selectedAddress' \in addresses

setSelectedAddress(a) == selectedAddress' = a /\ UNCHANGED identities
=============================================================================
