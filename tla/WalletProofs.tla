----------------------------- MODULE WalletProofs -----------------------------
(***************************************************************************)
(* Results about the wallet, for any passwords, secrets, calls, failures   *)
(* and restarts: the password of a wallet that keeps no encryption key     *)
(* opens its vault (PasswordOpens); the accounts follow the keyrings       *)
(* (FollowersAlwaysAgree); what an unlocked wallet shows is what it holds  *)
(* and what its vault keeps (ShownIsAlwaysKept); and no step loses what is *)
(* in the vault (NothingIsEverLost).  And about the services beside it,    *)
(* for any keys, currencies, networks and requests: polls, rates, balances *)
(* and the engine of requests stay in step (ServicesAlwaysInStep).         *)
(***************************************************************************)
EXTENDS Wallet, Services, FiniteSetTheorems, SequenceTheorems, TLAPS

\* The call that holds the mutex is a record of these fields.
OpIsCall ==
  op = [step |-> op.step, kind |-> op.kind, asked |-> op.asked, saved |-> op.saved,
        savedPassword |-> op.savedPassword, todo |-> op.todo, then |-> op.then]

\* Only a call that sets a password asks for one.
AskedBySetters == op.then \in {"decrypted", "locked"} => op.asked = NoPassword

UnlockingDecrypted == op.step = "unlocking" => op.then = "decrypted"

Known == {NoPassword, chosen}

IsUndoing == op.step \in {"clearing", "restoring"} /\ op.then = "rolledBack"

\* The password in memory: none or the last one between two calls, the one asked
\* for while it is set, and anything while it is about to be rolled back.
PasswordKnown ==
  /\ op.step = "idle" => password \in Known
  /\ op.step # "idle" => op.savedPassword \in Known
  /\ op.step # "idle" /\ ~IsUndoing =>
       \/ password = op.asked /\ op.asked # NoPassword
       \/ password \in Known /\ op.asked = NoPassword

PasswordInv ==
  /\ OpIsCall /\ AskedBySetters /\ UnlockingDecrypted
  /\ ~cacheEncryptionKey => PasswordKnown /\ PasswordOpensVault

-----------------------------------------------------------------------------

\* Steps that touch neither the call nor the passwords.
passwordVars == <<op, password, vault, chosen, cacheEncryptionKey>>

LEMMA QuietSteps ==
  ASSUME PasswordInv, UNCHANGED passwordVars
  PROVE  PasswordInv'
BY DEF PasswordInv, passwordVars, OpIsCall, AskedBySetters, UnlockingDecrypted, PasswordKnown, Known,
   IsUndoing, PasswordOpensVault

LEMMA InitialPassword == Init => PasswordInv
<1> SUFFICES ASSUME Init PROVE PasswordInv OBVIOUS
<1>1. OpIsCall /\ AskedBySetters /\ UnlockingDecrypted
  BY DEF Init, KeyringInit, Idle, OpIsCall, AskedBySetters, UnlockingDecrypted
<1>2. PasswordKnown BY DEF Init, KeyringInit, Idle, PasswordKnown, Known
<1>3. PasswordOpensVault BY DEF Init, KeyringInit, PasswordOpensVault
<1> QED BY <1>1, <1>2, <1>3 DEF PasswordInv

(***************************************************************************)
(* A call that begins sets a password it asks for, the one that opens the  *)
(* vault, or none; or else it leaves the password alone.                   *)
(***************************************************************************)
LEMMA BegunCall ==
  ASSUME PasswordInv, op = Idle, NEW kind, NEW asked, NEW step \in {"clearing", "persisting"},
         op' = begun(kind, asked, step),
         UNCHANGED <<vault, chosen, cacheEncryptionKey>>,
         \/ asked # NoPassword /\ password' = asked
         \/ asked = NoPassword /\ password' \in {password, NoPassword}
  PROVE  PasswordInv'
BY DEF Idle, begun, OpIsCall, AskedBySetters, UnlockingDecrypted, PasswordInv, PasswordKnown,
   PasswordOpensVault, Known, IsUndoing

LEMMA RebuildingCall ==
  ASSUME PasswordInv, op = Idle, NEW kind, NEW asked, NEW todo,
         NEW then \in {"created", "decrypted", "locked", "rolledBack"},
         op' = restoring(begun(kind, asked, "clearing"), todo, then),
         UNCHANGED <<vault, chosen, cacheEncryptionKey>>,
         \/ asked # NoPassword /\ password' = asked /\ then = "created"
         \/ asked = NoPassword /\ password' \in {password, NoPassword}
         \/ asked = NoPassword /\ vault # NoVault /\ password' = vault.password
  PROVE  PasswordInv'
BY DEF Idle, restoring, begun, OpIsCall, AskedBySetters, UnlockingDecrypted, PasswordInv, PasswordKnown,
   PasswordOpensVault, Known, IsUndoing

LEMMA FailingCall ==
  ASSUME PasswordInv, op = Idle, NEW kind, fails(kind),
         UNCHANGED <<password, vault, chosen, cacheEncryptionKey>>
  PROVE  PasswordInv'
BY RebuildingCall DEF fails, failing, restoring, begun

-----------------------------------------------------------------------------
(* The operations, up to their first await.                                *)

LEMMA Restoring ==
  ASSUME KeyringAssumption, PasswordInv,
         NEW p \in Passwords \cup {Empty}, NEW seed \in Seeds,
         createNewVaultAndRestore(p, seed) \/ createNewVaultAndKeychain(p, seed)
  PROVE  PasswordInv'
BY RebuildingCall, FailingCall, BegunCall DEF KeyringAssumption, createNewVaultAndRestore,
   createNewVaultAndKeychain, begins, bodyRest, stateVars, restVars, persists

LEMMA Changing ==
  ASSUME KeyringAssumption, PasswordInv, NEW p \in Passwords, changePassword(p)
  PROVE  PasswordInv'
BY BegunCall, FailingCall DEF KeyringAssumption, changePassword, begins, restVars, persists

LEMMA Submitting ==
  ASSUME PasswordInv, NEW p \in Passwords, submitPassword(p) \/ submitEncryptionKey(p)
  PROVE  PasswordInv'
BY RebuildingCall, FailingCall DEF submitPassword, submitEncryptionKey, begins, bodyRest, stateVars, restVars,
   opensWith

LEMMA Locking ==
  ASSUME PasswordInv, setLocked
  PROVE  PasswordInv'
BY RebuildingCall DEF setLocked, begins, bodyRest, stateVars, restVars

\* Operations that change the keyrings and no password.
LEMMA Editing ==
  ASSUME PasswordInv, begins, UNCHANGED <<password, vault, chosen, cacheEncryptionKey>>,
         NEW kind, persists(kind, NoPassword) \/ fails(kind)
  PROVE  PasswordInv'
BY BegunCall, FailingCall DEF persists, begins

LEMMA Edits ==
  ASSUME PasswordInv,
         \/ persistAllKeyrings \/ getOrAddQRKeyring \/ unlockQRHardwareWalletAccount
         \/ forgetQRDevice
         \/ addNewAccount("hd")
         \/ \E k \in [type : {"simple", "hd"}, of : Seeds \cup Keys, size : {1}] : addNewKeyring(k)
         \/ \E a \in addressesOf(shown) : removeAccount(a)
  PROVE  PasswordInv'
BY Editing DEF persistAllKeyrings, bodyRest, stateVars, restVars, getOrAddQRKeyring,
   unlockQRHardwareWalletAccount, forgetQRDevice, addNewAccount, addNewKeyring, removeAccount

-----------------------------------------------------------------------------
(* What follows an await.                                                  *)

LEMMA Advancing ==
  ASSUME PasswordInv, cleared \/ restored \/ created \/ unlocking
  PROVE  PasswordInv'
<1> USE DEF PasswordInv, isRestored, memoryVars, stateVars, restVars
<1>1. UNCHANGED <<password, vault, chosen, cacheEncryptionKey>>
  BY DEF cleared, restored, created, unlocking
<1>2. /\ OpIsCall'
      /\ op'.then = op.then /\ op'.asked = op.asked /\ op'.savedPassword = op.savedPassword
  BY DEF cleared, restored, created, unlocking, OpIsCall
<1>3. /\ op.step \in {"clearing", "restoring"} /\ op'.step # "idle"
      /\ \/ op'.step = "restoring"
         \/ op'.step = "persisting" /\ op.then = "created"
         \/ op'.step = "unlocking" /\ op.then = "decrypted"
  BY DEF cleared, restored, created, unlocking, OpIsCall
<1>4. AskedBySetters' /\ UnlockingDecrypted' BY <1>2, <1>3 DEF AskedBySetters, UnlockingDecrypted
<1>5. ASSUME ~cacheEncryptionKey PROVE PasswordKnown' /\ PasswordOpensVault'
  BY <1>1, <1>2, <1>3, <1>5 DEF PasswordKnown, PasswordOpensVault, Known, IsUndoing
<1> QED BY <1>1, <1>2, <1>4, <1>5

LEMMA IdleIsCall ==
  ASSUME op' = Idle
  PROVE  OpIsCall' /\ AskedBySetters' /\ UnlockingDecrypted' /\ op'.step = "idle"
BY DEF Idle, OpIsCall, AskedBySetters, UnlockingDecrypted

LEMMA Finishing ==
  ASSUME PasswordInv, unlocked \/ locked \/ rolledBack
  PROVE  PasswordInv'
<1>1. op' = Idle /\ UNCHANGED <<vault, chosen, cacheEncryptionKey>>
  BY DEF unlocked, locked, rolledBack, stateVars, restVars
<1>2. ASSUME ~cacheEncryptionKey PROVE PasswordKnown' /\ PasswordOpensVault'
  <2>1. op.step # "idle" /\ PasswordKnown /\ PasswordOpensVault
    BY <1>2 DEF PasswordInv, unlocked, locked, rolledBack, isRestored
  <2>2. CASE rolledBack
    BY <1>1, <2>1, <2>2, IdleIsCall DEF rolledBack, oldPassword, PasswordKnown, Known, PasswordOpensVault
  <2>3. CASE unlocked \/ locked
    BY <2>3, <1>1, <2>1, IdleIsCall DEF unlocked, locked, isRestored, memoryVars, PasswordInv, AskedBySetters,
       UnlockingDecrypted, IsUndoing, PasswordKnown, Known, PasswordOpensVault
  <2> QED BY <2>2, <2>3
<1> QED BY <1>1, <1>2, IdleIsCall DEF PasswordInv

\* The vault is encrypted with the password that was asked for, or with the last one.
LEMMA Encrypting ==
  ASSUME KeyringAssumption, PasswordInv, vaultUpdated
  PROVE  PasswordInv'
BY IdleIsCall DEF vaultUpdated, memoryVars, mayEncrypt, hasKey, KeyringAssumption, IsUndoing, PasswordInv,
   PasswordKnown, Known, PasswordOpensVault

LEMMA EncryptionFailing ==
  ASSUME PasswordInv, vaultUpdateFails
  PROVE  PasswordInv'
<1>1. op' = restoring(op, op.saved, "rolledBack") /\ op.step = "persisting"
  BY DEF vaultUpdateFails, failing
<1>2. UNCHANGED <<password, vault, chosen, cacheEncryptionKey>>
  BY DEF vaultUpdateFails, memoryVars, stateVars, restVars
<1>3. OpIsCall' /\ AskedBySetters' /\ UnlockingDecrypted'
  BY <1>1 DEF PasswordInv, restoring, OpIsCall, AskedBySetters, UnlockingDecrypted
<1>4. op'.savedPassword = op.savedPassword /\ op'.step = "clearing" /\ op'.then = "rolledBack"
  BY <1>1 DEF PasswordInv, restoring, OpIsCall
<1>5. ASSUME ~cacheEncryptionKey PROVE PasswordKnown' /\ PasswordOpensVault'
  BY <1>1, <1>2, <1>4, <1>5 DEF PasswordInv, PasswordKnown, PasswordOpensVault, Known, IsUndoing
<1> QED BY <1>2, <1>3, <1>5 DEF PasswordInv

LEMMA Restarting ==
  ASSUME PasswordInv, restarted
  PROVE  PasswordInv'
BY IdleIsCall DEF restarted, PasswordInv, PasswordKnown, Known, PasswordOpensVault

-----------------------------------------------------------------------------

LEMMA PasswordStep ==
  ASSUME KeyringAssumption, PasswordInv, [Next]_vars
  PROVE  PasswordInv'
<1>1. CASE UNCHANGED vars
  BY <1>1, QuietSteps DEF vars, keyringVars, memoryVars, stateVars, restVars, passwordVars
<1>2. CASE updatesAccounts
  BY <1>2, QuietSteps DEF updatesAccounts, keyringVars, memoryVars, stateVars, restVars, passwordVars
<1>3. ASSUME NEW a, selects(a) \/ selectsIdentity(a) PROVE PasswordInv'
  BY <1>3, QuietSteps DEF selects, selectsIdentity, keyringVars, memoryVars, stateVars, restVars, passwordVars
<1>4. CASE qrKeyringMissing
  BY <1>4, QuietSteps DEF qrKeyringMissing, memoryVars, stateVars, passwordVars
<1>5. ASSUME NEW k \in Keys, addNewKeyring(newKeyring("simple", k, 1)) PROVE PasswordInv'
  BY <1>5, Edits DEF newKeyring
<1>6. ASSUME NEW s \in Seeds, addNewKeyring(newKeyring("hd", s, 1)) PROVE PasswordInv'
  BY <1>6, Edits DEF newKeyring
<1>7. CASE KeyringNext
  BY <1>4, <1>5, <1>6, <1>7, Restoring, Changing, Submitting, Locking, Edits, Advancing, Finishing,
     Encrypting, EncryptionFailing, Restarting DEF KeyringNext
<1> QED BY <1>1, <1>2, <1>3, <1>7 DEF Next

(***************************************************************************)
(* Without cached keys the vault opens with the last password that was     *)
(* set, whichever calls fail, are rolled back or are cut short by a        *)
(* restart.                                                                *)
(***************************************************************************)
THEOREM PasswordOpens == Spec => []PasswordOpensUncachedVault
<1>1. PasswordInv => PasswordOpensUncachedVault BY DEF PasswordInv, PasswordOpensUncachedVault
<1>2. Init => PasswordInv BY InitialPassword
<1>3. PasswordInv /\ [Next]_vars => PasswordInv' BY PasswordStep, KeyringAssumption
<1> QED BY <1>1, <1>2, <1>3, PTL DEF Spec

-----------------------------------------------------------------------------
(* The accounts and the identities follow the keyrings.                    *)

\* What an overlap-free call of updateAccounts looks up is what is shown.
LookupsAreShown ==
  updating.busy /\ ~overlapped => updating.todo \cup updating.found = addressesOf(shown)

AccountsFollow ==
  isUnlocked /\ shown # <<>> /\ ~overlapped =>
    /\ accounts = addressesOf(shown)
    /\ selectedAccount \in accounts \/ accounts = {}

IdentitiesFollow ==
  shown # <<>> /\ addressesOf(shown) # {} =>
    identities = addressesOf(shown) /\ selectedAddress \in identities

FollowersInv == LookupsAreShown /\ AccountsFollow /\ IdentitiesFollow

followedVars == <<shown, isUnlocked, followers>>

LEMMA UnpublishedSteps ==
  ASSUME FollowersInv, UNCHANGED followedVars
  PROVE  FollowersInv'
BY DEF FollowersInv, LookupsAreShown, AccountsFollow, IdentitiesFollow, addressesOf, followedVars, followers,
   accountsVars, updateVars, identityVars

(***************************************************************************)
(* Whatever is published, the accounts and the identities are brought up   *)
(* to date with it in the same step.                                       *)
(***************************************************************************)
LEMMA Publishing ==
  ASSUME FollowersInv, NEW unlocks, NEW ks, stateChanges(unlocks, ks)
  PROVE  FollowersInv'
<1> DEFINE addresses == addressesOf(ks)
<1>1. shown' = ks /\ isUnlocked' = unlocks /\ addressesOf(shown)' = addresses
  BY DEF stateChanges, addressesOf
<1>2. updating' = updating /\ overlapped' = (overlapped \/ updating.busy)
  BY DEF stateChanges, handleOnKeyringStateChange
<1>3. LookupsAreShown' BY <1>2 DEF LookupsAreShown
<1>4. ASSUME unlocks, ks # <<>>
      PROVE  /\ accounts' = addresses
             /\ selectedAccount' \in addresses \/ addresses = {}
  BY <1>4 DEF stateChanges, handleOnKeyringStateChange, handleNewAccountAdded, handleAccountRemoved,
     reselected, select
<1>5. AccountsFollow' BY <1>1, <1>4 DEF AccountsFollow
<1>6. ASSUME addresses # {} PROVE identities' = addresses /\ selectedAddress' \in addresses
  BY <1>6 DEF stateChanges, syncIdentities
<1>7. IdentitiesFollow' BY <1>1, <1>6 DEF IdentitiesFollow
<1> QED BY <1>3, <1>5, <1>7 DEF FollowersInv

LEMMA InitialFollowers == Init => FollowersInv
BY DEF Init, KeyringInit, AccountsInit, IdentitiesInit, NotUpdating, FollowersInv, LookupsAreShown,
   AccountsFollow, IdentitiesFollow

\* The calls that touch nothing the followers see before their first await.
LEMMA UnpublishedOperations ==
  ASSUME \/ persistAllKeyrings \/ setLocked \/ qrKeyringMissing \/ getOrAddQRKeyring
         \/ unlockQRHardwareWalletAccount \/ forgetQRDevice
         \/ \E p \in Passwords \cup {Empty}, s \in Seeds :
              createNewVaultAndRestore(p, s) \/ createNewVaultAndKeychain(p, s)
         \/ \E p \in Passwords : submitPassword(p) \/ submitEncryptionKey(p)
         \/ addNewAccount("hd")
         \/ \E k \in Keys : addNewKeyring(newKeyring("simple", k, 1))
         \/ \E s \in Seeds : addNewKeyring(newKeyring("hd", s, 1))
         \/ \E a \in addressesOf(shown) : removeAccount(a)
         \/ cleared \/ restored \/ rolledBack \/ vaultUpdateFails
  PROVE  UNCHANGED followedVars
BY DEF persistAllKeyrings, setLocked, qrKeyringMissing, getOrAddQRKeyring, unlockQRHardwareWalletAccount,
   forgetQRDevice, createNewVaultAndRestore, createNewVaultAndKeychain, submitPassword, submitEncryptionKey,
   addNewAccount, addNewKeyring, removeAccount, cleared, restored, rolledBack, vaultUpdateFails, bodyRest,
   stateVars, followedVars

LEMMA Published ==
  ASSUME FollowersInv,
         \/ vaultUpdated \/ created \/ unlocking \/ unlocked \/ locked
         \/ \E p \in Passwords : changePassword(p)
  PROVE  FollowersInv'
BY Publishing, UnpublishedSteps DEF vaultUpdated, created, unlocking, unlocked, locked, changePassword,
   followedVars

\* After a restart the wallet is locked and shows nothing.
LEMMA FollowersRestarting ==
  ASSUME FollowersInv, restarted
  PROVE  FollowersInv'
BY DEF restarted, NotUpdating, FollowersInv, LookupsAreShown, AccountsFollow, IdentitiesFollow

LEMMA UpdatingAccounts ==
  ASSUME FollowersInv, updatesAccounts
  PROVE  FollowersInv'
<1>1. UNCHANGED <<shown, isUnlocked, identities, selectedAddress>>
  BY DEF updatesAccounts, keyringVars, stateVars, identityVars
<1>2. addressesOf(shown)' = addressesOf(shown) /\ IdentitiesFollow'
  BY <1>1 DEF FollowersInv, IdentitiesFollow, addressesOf
<1>3. CASE updateAccounts(addressesOf(shown))
  BY <1>1, <1>2, <1>3 DEF updateAccounts, FollowersInv, LookupsAreShown, AccountsFollow
<1>4. ASSUME NEW a \in updating.todo, accountLookedUp(a, firstWith(keyrings, a) # {})
      PROVE  FollowersInv'
  BY <1>4, <1>1, <1>2 DEF accountLookedUp, FollowersInv, AccountsFollow, NotUpdating, LookupsAreShown
<1>5. CASE accountsUpdated
  BY <1>5, <1>1, <1>2 DEF accountsUpdated, FollowersInv, LookupsAreShown, NotUpdating, AccountsFollow
<1> QED BY <1>3, <1>4, <1>5 DEF updatesAccounts

LEMMA Selecting ==
  ASSUME FollowersInv,
         \/ \E a \in accounts : selects(a)
         \/ \E a \in identities : selectsIdentity(a)
  PROVE  FollowersInv'
BY DEF selects, setSelectedAccount, select, selectsIdentity, setSelectedAddress, keyringVars, stateVars,
   identityVars, accountsVars, updateVars, addressesOf, FollowersInv, LookupsAreShown, AccountsFollow,
   IdentitiesFollow

LEMMA FollowersStep ==
  ASSUME FollowersInv, [Next]_vars
  PROVE  FollowersInv'
BY UnpublishedSteps, UnpublishedOperations, Published, FollowersRestarting, UpdatingAccounts, Selecting DEF
   vars, keyringVars, stateVars, followedVars, KeyringNext, Next

(***************************************************************************)
(* Whenever an unlocked wallet shows keyrings, its accounts and identities *)
(* are those of the keyrings and what is selected exists, unless           *)
(* updateAccounts overlapped with a change of the keyrings, for any        *)
(* secrets, calls, failures and restarts.                                  *)
(***************************************************************************)
THEOREM FollowersAlwaysAgree == Spec => []FollowersAgree
<1>1. FollowersInv => FollowersAgree
  BY DEF FollowersInv, AccountsFollow, IdentitiesFollow, FollowersAgree
<1> QED BY <1>1, InitialFollowers, FollowersStep, PTL DEF Spec

-----------------------------------------------------------------------------
(* What an unlocked wallet shows is what it holds and what its vault keeps. *)

\* A keyring of a kind this build supports has a secret of its kind, and an
\* imported one has its account.
Made(k) ==
  /\ k \in Keyring
  /\ k.type = "simple" <=> k.of \in Keys
  /\ k.type = "simple" => k.size >= 1
  /\ k.type # "foreign" => k.of \in Seeds \cup Keys \cup {QR}

IsForeign(k) == k.type = "foreign"

\* No two imported keyrings have one key.
Distinct(ks) ==
  \A i, j \in DOMAIN ks : i < j /\ ks[i].type = "simple" /\ ks[j].type = "simple" => ks[i].of # ks[j].of

\* What is serialized: the keyrings in use, and then those that are not supported.
Serialized(ks) ==
  /\ ks \in Seq(Keyring) /\ \A j \in DOMAIN ks : Made(ks[j])
  /\ Distinct(ks)
  /\ \A i, j \in DOMAIN ks : i < j /\ IsForeign(ks[i]) => IsForeign(ks[j])

Supported(ks) ==
  /\ ks \in Seq(Keyring) /\ \A j \in DOMAIN ks : Made(ks[j]) /\ ~IsForeign(ks[j])
  /\ Distinct(ks)

Unsupported(ks) == ks \in Seq(Keyring) /\ \A j \in DOMAIN ks : Made(ks[j]) /\ IsForeign(ks[j])

\* ks are the supported ones among the serialized keyrings list.
SupportedOf(ks, list) ==
  /\ Len(ks) <= Len(list)
  /\ \A j \in 1..Len(list) : IF j <= Len(ks) THEN ks[j] = list[j] /\ ~IsForeign(ks[j]) ELSE IsForeign(list[j])

\* The keyrings list, of which todo is left, are restored: ks are those that were
\* supported, us holds the others.
Rebuilt(list, todo, ks, us) ==
  /\ Len(todo) + Len(ks) <= Len(list)
  /\ \A j \in 1..Len(todo) : todo[j] = list[Len(list) - Len(todo) + j]
  /\ \A j \in 1..Len(ks) : ks[j] = list[j]
  /\ \A j \in 1..(Len(list) - Len(todo)) :
       j > Len(ks) => IsForeign(list[j]) /\ list[j] \in Contents(us)

VaultHolds(contents) == vault # NoVault /\ Contents(vault.content) = contents

Held == Contents(keyrings) \cup Contents(unsupportedKeyrings)

ForeignOf(ks) == {k \in Contents(ks) : IsForeign(k)}

MemoryIsSound ==
  /\ Supported(keyrings) /\ Supported(shown) /\ Unsupported(unsupportedKeyrings)
  /\ vault # NoVault => Serialized(vault.content)
  /\ Contents(unsupportedKeyrings) \subseteq IF vault = NoVault THEN {} ELSE Contents(vault.content)

\* Between two calls.
IdleIsKept ==
  op.step = "idle" =>
    /\ shown # <<>> => shown = keyrings /\ VaultHolds(Held)
    /\ ~cacheEncryptionKey =>
         IF password = NoPassword THEN keyrings = <<>> ELSE VaultHolds(Held)

\* What a call remembers for its rollback.
SavedIsKept ==
  op.step # "idle" =>
    /\ Serialized(op.saved)
    /\ ForeignOf(op.saved) \subseteq Contents(unsupportedKeyrings)
    /\ shown # <<>> /\ op.step # "unlocking" =>
         SupportedOf(shown, op.saved) /\ VaultHolds(Contents(op.saved))
    /\ ~cacheEncryptionKey =>
         IF op.savedPassword = NoPassword THEN \A j \in DOMAIN op.saved : IsForeign(op.saved[j])
         ELSE VaultHolds(Contents(op.saved))

IsRestoring == op.step \in {"clearing", "restoring"}

Restores(list) ==
  /\ op.step = "clearing" => op.todo = list
  /\ op.step = "restoring" => Rebuilt(list, op.todo, keyrings, unsupportedKeyrings)

RestoringIsKept ==
  IsRestoring =>
    /\ op.todo \in Seq(Keyring) /\ op.then \in {"rolledBack", "decrypted", "created", "locked"}
    /\ op.then = "rolledBack" => Restores(op.saved)
    /\ op.then = "decrypted" =>
         vault # NoVault /\ Restores(vault.content) /\ (~cacheEncryptionKey => password # NoPassword)
    /\ op.then = "created" =>
         /\ op.kind \in {"restore", "keychain"}
         /\ \A j \in DOMAIN op.todo : Made(op.todo[j]) /\ op.todo[j].type = "hd"
    /\ op.then = "locked" =>
         op.todo = <<>> /\ password = NoPassword /\ (op.step = "restoring" => keyrings = <<>>)

UnlockingIsKept ==
  op.step = "unlocking" =>
    /\ shown = keyrings /\ VaultHolds(Held)
    /\ ~cacheEncryptionKey => password # NoPassword

\* What is about to be encrypted.
PersistingIsKept ==
  op.step = "persisting" =>
    /\ op.kind \notin {"restore", "keychain", "password"} => password = op.savedPassword
    /\ op.kind = "password" => op.saved = serializedKeyrings
    /\ op.kind \notin {"restore", "keychain", "remove", "forget"} =>
         addressesOf(op.saved) \subseteq addressesOf(serializedKeyrings)

AnyPassword == Passwords \cup {Empty, NoPassword}

KeptInv ==
  /\ op \in Call /\ password \in AnyPassword
  /\ MemoryIsSound /\ IdleIsKept /\ SavedIsKept /\ RestoringIsKept /\ UnlockingIsKept
  /\ PersistingIsKept

-----------------------------------------------------------------------------
(* Facts about the operators on sequences and on keyrings.                 *)

LEMMA PositionsFinite ==
  ASSUME NEW n \in Nat, NEW T \in SUBSET (1..n)
  PROVE  IsFiniteSet(T) /\ Cardinality(T) \in Nat
<1>1. IsFiniteSet(1..n) BY FS_Interval
<1>2. IsFiniteSet(T) BY <1>1, FS_Subset
<1> QED BY <1>2, FS_CardinalityType

\* Different positions have different numbers.
LEMMA NumbersDiffer ==
  ASSUME NEW n \in Nat, NEW T \in SUBSET (1..n)
  PROVE  [p \in T |-> NumberOf(T, p)] \in Injection(T, 1..Cardinality(T))
<1> DEFINE upTo(p) == {q \in T : q <= p}
<1>1. ASSUME NEW p \in T
      PROVE  IsFiniteSet(upTo(p)) /\ Cardinality(upTo(p)) \in 1..Cardinality(T)
  <2>1. IsFiniteSet(T) /\ Cardinality(T) \in Nat /\ upTo(p) \in SUBSET T BY PositionsFinite
  <2>2. /\ IsFiniteSet(upTo(p)) /\ Cardinality(upTo(p)) \in Nat
        /\ Cardinality(upTo(p)) <= Cardinality(T) BY <2>1, FS_Subset, FS_CardinalityType
  <2>3. Cardinality(upTo(p)) # 0 BY <2>2, FS_EmptySet
  <2> QED BY <2>1, <2>2, <2>3
<1>2. ASSUME NEW p \in T, NEW q \in T, p < q
      PROVE  Cardinality(upTo(p)) # Cardinality(upTo(q))
  <2>1. ASSUME NEW x \in T, x <= p PROVE x <= q BY <1>2, <2>1
  <2>2. upTo(p) \in SUBSET upTo(q) BY <2>1
  <2>3. q \in upTo(q) /\ q \notin upTo(p) BY <1>2
  <2> QED BY <1>1, <2>2, <2>3, FS_Subset
<1>3. ASSUME NEW p \in T, NEW q \in T, Cardinality(upTo(p)) = Cardinality(upTo(q))
      PROVE  p = q BY <1>2, <1>3
<1> QED BY <1>1, <1>3 DEF Injection, IsInjective, NumberOf

\* So every number up to that of all positions belongs to one.
LEMMA NthExists ==
  ASSUME NEW n \in Nat, NEW T \in SUBSET (1..n), NEW k \in 1..Cardinality(T)
  PROVE  Nth(T, k) \in T /\ NumberOf(T, Nth(T, k)) = k
<1> DEFINE numbers == [p \in T |-> NumberOf(T, p)]
<1>1. Cardinality(T) \in Nat BY PositionsFinite
<1>2. IsFiniteSet(1..Cardinality(T)) /\ Cardinality(1..Cardinality(T)) = Cardinality(T)
  BY <1>1, FS_Interval
<1>3. numbers \in Surjection(T, 1..Cardinality(T)) BY <1>2, NumbersDiffer, FS_Injection
<1>4. \E p \in T : numbers[p] = k BY <1>3 DEF Surjection
<1> QED BY <1>4 DEF Nth

\* What is picked are elements of the sequence, none of them twice.
LEMMA AtIsSeq ==
  ASSUME NEW S, NEW s \in Seq(S), NEW T \in SUBSET (1..Len(s))
  PROVE  /\ at(s, T) \in Seq(S) /\ Len(at(s, T)) = Cardinality(T)
         /\ \A k \in 1..Len(at(s, T)) : Nth(T, k) \in T /\ at(s, T)[k] = s[Nth(T, k)]
         /\ \A j, k \in 1..Len(at(s, T)) : j # k => Nth(T, j) # Nth(T, k)
<1> DEFINE n == Len(s)
<1>1. n \in Nat /\ T \in SUBSET (1..n) /\ \A p \in T : s[p] \in S OBVIOUS
<1> HIDE DEF n
<1>2. Cardinality(T) \in Nat BY <1>1, PositionsFinite
<1>3. \A k \in 1..Cardinality(T) : Nth(T, k) \in T /\ NumberOf(T, Nth(T, k)) = k BY <1>1, NthExists
<1>4. [k \in 1..Cardinality(T) |-> s[Nth(T, k)]] \in [1..Cardinality(T) -> S] BY <1>1, <1>3
<1>5. at(s, T) \in Seq(S) /\ Len(at(s, T)) = Cardinality(T) BY <1>2, <1>4 DEF at
<1>6. ASSUME NEW j \in 1..Cardinality(T), NEW k \in 1..Cardinality(T), Nth(T, j) = Nth(T, k)
      PROVE  j = k BY <1>3, <1>6
<1> QED BY <1>3, <1>5, <1>6 DEF at

LEMMA Concatenated ==
  ASSUME NEW ks, NEW us, Supported(ks), Unsupported(us)
  PROVE  /\ Serialized(ks \o us) /\ SupportedOf(ks, ks \o us)
         /\ Contents(ks \o us) = Contents(ks) \cup Contents(us)
         /\ ForeignOf(ks \o us) = Contents(us)
         /\ addressesOf(ks \o us) = addressesOf(ks) \cup addressesOf(us)
<1> DEFINE all == ks \o us
<1>1. ks \in Seq(Keyring) /\ us \in Seq(Keyring)
  BY DEF Supported, Unsupported
<1>2. /\ all \in Seq(Keyring) /\ Len(all) = Len(ks) + Len(us) /\ Len(ks) \in Nat /\ Len(us) \in Nat
      /\ \A j \in 1..Len(all) : all[j] = IF j <= Len(ks) THEN ks[j] ELSE us[j - Len(ks)]
      /\ DOMAIN all = 1..Len(all) /\ DOMAIN ks = 1..Len(ks) /\ DOMAIN us = 1..Len(us)
  BY <1>1
<1> HIDE DEF all
<1>3. \A j \in DOMAIN all :
        Made(all[j]) /\ IF j <= Len(ks) THEN j \in DOMAIN ks /\ ~IsForeign(all[j])
                        ELSE (j - Len(ks)) \in DOMAIN us /\ IsForeign(all[j])
  <2>1. \A j \in DOMAIN ks : Made(ks[j]) /\ ~IsForeign(ks[j])
    BY DEF Supported
  <2>2. \A j \in DOMAIN us : Made(us[j]) /\ IsForeign(us[j])
    BY DEF Unsupported
  <2>3. ASSUME NEW j \in DOMAIN all
        PROVE  IF j <= Len(ks) THEN j \in DOMAIN ks /\ all[j] = ks[j]
               ELSE (j - Len(ks)) \in DOMAIN us /\ all[j] = us[j - Len(ks)]
    BY <1>2
  <2> QED BY <2>1, <2>2, <2>3
<1>4. Distinct(all)
  BY <1>2, <1>3 DEF Supported, Distinct, IsForeign
<1>5. \A i, j \in DOMAIN all : i < j /\ IsForeign(all[i]) => IsForeign(all[j])
  BY <1>2, <1>3
<1>6. SupportedOf(ks, all)
  BY <1>2, <1>3 DEF SupportedOf
<1>7. /\ \A j \in DOMAIN ks : j \in DOMAIN all /\ all[j] = ks[j]
      /\ \A j \in DOMAIN us : (j + Len(ks)) \in DOMAIN all /\ all[j + Len(ks)] = us[j]
  BY <1>2
<1>8. Contents(all) = Contents(ks) \cup Contents(us)
  <2>1. ASSUME NEW j \in DOMAIN all
        PROVE  \/ j \in DOMAIN ks /\ all[j] = ks[j]
               \/ (j - Len(ks)) \in DOMAIN us /\ all[j] = us[j - Len(ks)]
    BY <1>2
  <2>2. Contents(all) \subseteq Contents(ks) \cup Contents(us)
    BY <2>1 DEF Contents
  <2>3. Contents(ks) \subseteq Contents(all) /\ Contents(us) \subseteq Contents(all)
    BY <1>7 DEF Contents
  <2> QED BY <2>2, <2>3
<1>9. ForeignOf(all) = Contents(us)
  BY <1>8 DEF ForeignOf, Contents, Supported, Unsupported
<1>10. addressesOf(all) = addressesOf(ks) \cup addressesOf(us)
  BY <1>2, <1>3, <1>7 DEF addressesOf
<1> QED BY <1>2, <1>3, <1>4, <1>5, <1>6, <1>8, <1>9, <1>10 DEF Serialized, all

\* What is left of a list that is being restored, and how restoring it ends.
LEMMA RebuildingStarts ==
  ASSUME NEW list, list \in Seq(Keyring), NEW us
  PROVE  Rebuilt(list, list, <<>>, us)
BY DEF Rebuilt

LEMMA RebuildingGoesOn ==
  ASSUME NEW list, Serialized(list), NEW todo, todo \in Seq(Keyring), todo # <<>>,
         NEW ks, Supported(ks), NEW us, Unsupported(us), Rebuilt(list, todo, ks, us)
  PROVE  /\ Made(Head(todo)) /\ Head(todo) \in Contents(list)
         /\ IF IsForeign(Head(todo)) THEN Rebuilt(list, Tail(todo), ks, Append(us, Head(todo)))
            ELSE /\ Rebuilt(list, Tail(todo), Append(ks, Head(todo)), us)
                 /\ Head(todo).type = "simple" =>
                      \A j \in DOMAIN ks : ks[j].type = "simple" => ks[j].of # Head(todo).of
<1> DEFINE n == Len(list)  m == Len(todo)  next == n - m + 1  k == Head(todo)
<1>1. /\ list \in Seq(Keyring) /\ ks \in Seq(Keyring) /\ us \in Seq(Keyring)
      /\ n \in Nat /\ m \in Nat /\ m > 0 /\ Len(ks) \in Nat /\ m + Len(ks) <= n
  BY DEF Serialized, Supported, Unsupported, Rebuilt
<1>2. k = todo[1] /\ k = list[next] /\ next \in 1..n /\ DOMAIN list = 1..n BY <1>1 DEF Rebuilt
<1>3. Made(k) /\ k \in Contents(list) BY <1>2 DEF Serialized, Contents
<1>4. /\ Tail(todo) \in Seq(Keyring) /\ Len(Tail(todo)) = m - 1
      /\ \A j \in 1..(m - 1) : Tail(todo)[j] = todo[j + 1] BY <1>1
<1>5. \A j \in 1..(m - 1) : Tail(todo)[j] = list[n - (m - 1) + j] BY <1>1, <1>4 DEF Rebuilt
<1>6. /\ \A j \in 1..Len(ks) : ks[j] = list[j]
      /\ \A j \in 1..(n - m) : j > Len(ks) => IsForeign(list[j]) /\ list[j] \in Contents(us)
  BY DEF Rebuilt
<1> HIDE DEF k
<1>7. ASSUME IsForeign(k) PROVE Rebuilt(list, Tail(todo), ks, Append(us, k))
  <2>1. Contents(us) \subseteq Contents(Append(us, k)) /\ k \in Contents(Append(us, k))
    <3>1. /\ DOMAIN Append(us, k) = 1..(Len(us) + 1) /\ DOMAIN us = 1..Len(us) /\ Len(us) \in Nat
          /\ Append(us, k)[Len(us) + 1] = k
          /\ \A j \in DOMAIN us : Append(us, k)[j] = us[j] BY <1>1
    <3> QED BY <3>1 DEF Contents
  <2>2. \A j \in 1..(n - (m - 1)) :
          j > Len(ks) => IsForeign(list[j]) /\ list[j] \in Contents(Append(us, k))
    <3>1. ASSUME NEW j \in 1..(n - (m - 1)) PROVE j \in 1..(n - m) \/ j = next
      <4> HIDE DEF n, m
      <4> QED BY <1>1
    <3> QED BY <1>2, <1>6, <1>7, <2>1, <3>1
  <2>3. (m - 1) + Len(ks) <= n BY <1>1
  <2> QED BY <1>4, <1>5, <1>6, <2>2, <2>3 DEF Rebuilt
<1>8. ASSUME ~IsForeign(k)
      PROVE  /\ Rebuilt(list, Tail(todo), Append(ks, k), us)
             /\ k.type = "simple" => \A j \in DOMAIN ks : ks[j].type = "simple" => ks[j].of # k.of
  <2>1. Len(ks) = n - m
    <3>1. ASSUME Len(ks) < n - m PROVE FALSE
      <4>1. (Len(ks) + 1) \in 1..(n - m) /\ (Len(ks) + 1) \in DOMAIN list /\ next \in DOMAIN list
            /\ Len(ks) + 1 < next /\ Len(ks) + 1 > Len(ks) BY <1>1, <1>2, <3>1
      <4>2. IsForeign(list[Len(ks) + 1]) BY <1>6, <4>1
      <4> QED BY <1>2, <1>8, <4>1, <4>2 DEF Serialized
    <3> QED BY <1>1, <3>1
  <2>2. /\ Append(ks, k) \in Seq(Keyring) /\ Len(Append(ks, k)) = Len(ks) + 1
        /\ \A j \in 1..(Len(ks) + 1) : Append(ks, k)[j] = IF j <= Len(ks) THEN ks[j] ELSE k
    BY <1>1, <1>3 DEF Made
  <2>3. \A j \in 1..Len(Append(ks, k)) : Append(ks, k)[j] = list[j]
    <3>1. ASSUME NEW j \in 1..(Len(ks) + 1) PROVE j \in 1..Len(ks) \/ j = next
      <4> HIDE DEF n, m
      <4> QED BY <1>1, <2>1
    <3>2. Append(ks, k)[next] = k /\ \A j \in 1..Len(ks) : Append(ks, k)[j] = ks[j]
      BY <1>1, <2>1, <2>2
    <3> QED BY <1>2, <1>6, <2>2, <3>1, <3>2
  <2>4. /\ (m - 1) + Len(Append(ks, k)) <= n
        /\ \A j \in 1..(n - (m - 1)) : ~(j > Len(Append(ks, k))) BY <1>1, <2>1, <2>2
  <2>5. Rebuilt(list, Tail(todo), Append(ks, k), us) BY <1>4, <1>5, <2>3, <2>4 DEF Rebuilt
  <2>6. ASSUME k.type = "simple", NEW j \in DOMAIN ks, ks[j].type = "simple" PROVE ks[j].of # k.of
    <3>1. j \in 1..Len(ks) BY <1>1
    <3>2. j \in 1..n /\ j < next
      <4> HIDE DEF n, m
      <4> QED BY <1>1, <2>1, <3>1
    <3>3. j \in DOMAIN list /\ next \in DOMAIN list /\ ks[j] = list[j] BY <1>2, <1>6, <3>1, <3>2
    <3> QED BY <1>2, <2>6, <3>2, <3>3 DEF Serialized, Distinct
  <2> QED BY <2>5, <2>6
<1> QED BY <1>3, <1>7, <1>8 DEF k

LEMMA RebuildingEnds ==
  ASSUME NEW list, list \in Seq(Keyring), NEW ks, Supported(ks), NEW us, Rebuilt(list, <<>>, ks, us)
  PROVE  /\ SupportedOf(ks, list)
         /\ Contents(ks) \subseteq Contents(list)
         /\ Contents(list) \subseteq Contents(ks) \cup Contents(us)
BY DEF Supported, Rebuilt, SupportedOf, Contents

\* The supported keyrings of a list are determined by it.
LEMMA SupportedUnique ==
  ASSUME NEW list, NEW ks \in Seq(Keyring), NEW others \in Seq(Keyring),
         SupportedOf(ks, list), SupportedOf(others, list)
  PROVE  ks = others
BY SeqEqual DEF SupportedOf

LEMMA SupportedSome ==
  ASSUME NEW list \in Seq(Keyring), NEW ks \in Seq(Keyring), SupportedOf(ks, list),
         \A j \in DOMAIN list : IsForeign(list[j])
  PROVE  ks = <<>>
BY EmptySeq DEF SupportedOf

\* The changes that calls make to the keyrings.
LEMMA AppendedIsSupported ==
  ASSUME NEW ks, Supported(ks), NEW k, Made(k), ~IsForeign(k),
         k.type = "simple" => \A j \in DOMAIN ks : ks[j].type = "simple" => ks[j].of # k.of
  PROVE  /\ Supported(Append(ks, k))
         /\ Contents(Append(ks, k)) = Contents(ks) \cup {k}
         /\ addressesOf(ks) \subseteq addressesOf(Append(ks, k))
<1>1. ks \in Seq(Keyring) /\ k \in Keyring BY DEF Supported, Made
<1>2. /\ Append(ks, k) \in Seq(Keyring) /\ Len(ks) \in Nat /\ DOMAIN ks = 1..Len(ks)
      /\ DOMAIN Append(ks, k) = 1..(Len(ks) + 1)
      /\ \A j \in 1..(Len(ks) + 1) : Append(ks, k)[j] = IF j <= Len(ks) THEN ks[j] ELSE k BY <1>1
<1>3. \A j \in 1..(Len(ks) + 1) : j \in 1..Len(ks) \/ (j = Len(ks) + 1 /\ ~(j <= Len(ks))) BY <1>2
<1>4. \A j \in DOMAIN ks : j \in DOMAIN Append(ks, k) /\ Append(ks, k)[j] = ks[j] BY <1>2
<1>5. (Len(ks) + 1) \in DOMAIN Append(ks, k) /\ Append(ks, k)[Len(ks) + 1] = k BY <1>2
<1>6. \A j \in DOMAIN Append(ks, k) : j \in DOMAIN ks \/ j = Len(ks) + 1 BY <1>2, <1>3
<1>7. \A j \in DOMAIN Append(ks, k) : Made(Append(ks, k)[j]) /\ ~IsForeign(Append(ks, k)[j])
  BY <1>4, <1>5, <1>6 DEF Supported
<1>8. Distinct(Append(ks, k))
  <2> SUFFICES ASSUME NEW i \in DOMAIN Append(ks, k), NEW j \in DOMAIN Append(ks, k), i < j,
                      Append(ks, k)[i].type = "simple", Append(ks, k)[j].type = "simple"
               PROVE  Append(ks, k)[i].of # Append(ks, k)[j].of BY DEF Distinct
  <2>1. i \in DOMAIN ks BY <1>2, <1>6
  <2>2. CASE j \in DOMAIN ks BY <1>4, <2>1, <2>2 DEF Supported, Distinct
  <2>3. CASE j = Len(ks) + 1 BY <1>4, <1>5, <2>1, <2>3
  <2> QED BY <1>6, <2>2, <2>3
<1>9. Contents(Append(ks, k)) = Contents(ks) \cup {k} BY <1>4, <1>5, <1>6 DEF Contents
<1>10. addressesOf(ks) \subseteq addressesOf(Append(ks, k)) BY <1>4 DEF addressesOf
<1> QED BY <1>2, <1>7, <1>8, <1>9, <1>10 DEF Supported

LEMMA ResizedIsSupported ==
  ASSUME NEW ks, Supported(ks), NEW j \in DOMAIN ks, NEW n \in 0..MaxSize,
         ks[j].type = "simple" => n >= 1
  PROVE  /\ Supported([ks EXCEPT ![j].size = n])
         /\ MaxSize \in Nat /\ ks[j].size <= n =>
              addressesOf(ks) \subseteq addressesOf([ks EXCEPT ![j].size = n])
<1> DEFINE k == [ks[j] EXCEPT !.size = n]  resized == [ks EXCEPT ![j].size = n]
<1>1. ks \in Seq(Keyring) /\ Made(ks[j]) /\ ~IsForeign(ks[j]) /\ ks[j] \in Keyring
  BY DEF Supported, Made
<1>2. k \in Keyring /\ k.type = ks[j].type /\ k.of = ks[j].of /\ k.size = n BY <1>1 DEF Keyring
<1>3. Made(k) /\ ~IsForeign(k) BY <1>1, <1>2 DEF Made, IsForeign
<1>4. DOMAIN resized = DOMAIN ks /\ \A i \in DOMAIN ks : resized[i] = IF i = j THEN k ELSE ks[i]
  BY <1>1
<1>5. resized \in Seq(Keyring) BY <1>1, <1>2
<1> HIDE DEF k, resized
<1>6. \A i \in DOMAIN ks : resized[i].type = ks[i].type /\ resized[i].of = ks[i].of BY <1>2, <1>4
<1>7. Distinct(resized) BY <1>4, <1>6 DEF Supported, Distinct
<1>8. \A i \in DOMAIN resized : Made(resized[i]) /\ ~IsForeign(resized[i])
  BY <1>3, <1>4 DEF Supported
<1>9. ASSUME MaxSize \in Nat, ks[j].size <= n PROVE addressesOf(ks) \subseteq addressesOf(resized)
  <2>1. ks[j].size \in Nat /\ n \in Nat BY <1>1, <1>9 DEF Keyring
  <2>2. \A m \in 1..ks[j].size : m \in 1..n BY <1>9, <2>1
  <2>3. \A i \in DOMAIN ks : \A m \in 1..ks[i].size : m \in 1..resized[i].size BY <1>2, <1>4, <2>2
  <2> QED BY <1>4, <1>6, <2>3 DEF addressesOf
<1>10. Supported(resized) BY <1>5, <1>7, <1>8 DEF Supported
<1> QED BY <1>9, <1>10 DEF resized

LEMMA PickedIsSupported ==
  ASSUME NEW ks, Supported(ks), NEW T \in SUBSET (1..Len(ks))
  PROVE  Supported(at(ks, T))
<1> DEFINE left == at(ks, T)
<1>1. ks \in Seq(Keyring) /\ Len(ks) \in Nat /\ DOMAIN ks = 1..Len(ks) BY DEF Supported
<1>2. /\ left \in Seq(Keyring)
      /\ \A n \in 1..Len(left) : Nth(T, n) \in T /\ left[n] = ks[Nth(T, n)]
      /\ \A m, n \in 1..Len(left) : m # n => Nth(T, m) # Nth(T, n) BY <1>1, AtIsSeq
<1> HIDE DEF left
<1>3. DOMAIN left = 1..Len(left) /\ Len(left) \in Nat BY <1>2
<1>4. \A n \in DOMAIN left : Nth(T, n) \in DOMAIN ks /\ left[n] = ks[Nth(T, n)] BY <1>1, <1>2, <1>3
<1>5. \A n \in DOMAIN left : Made(left[n]) /\ ~IsForeign(left[n]) BY <1>4 DEF Supported
<1>6. \A m, n \in DOMAIN ks : m # n /\ ks[m].type = "simple" /\ ks[n].type = "simple" =>
        ks[m].of # ks[n].of BY <1>1 DEF Supported, Distinct
<1>7. Distinct(left) BY <1>2, <1>3, <1>4, <1>6 DEF Distinct
<1> QED BY <1>2, <1>5, <1>7 DEF Supported, left

\* The last account of a keyring goes, and all keyrings without accounts with it.
LEMMA RemovedIsSupported ==
  ASSUME NEW ks, Supported(ks), NEW j \in DOMAIN ks, NEW shrunk, DOMAIN shrunk = DOMAIN ks,
         \A i \in DOMAIN ks : i # j => shrunk[i] = ks[i], ~(shrunk[j].size > 0),
         NEW T, T = {i \in DOMAIN shrunk : shrunk[i].size > 0}
  PROVE  Supported(at(shrunk, T))
<1>1. Len(ks) \in Nat /\ DOMAIN ks = 1..Len(ks) BY DEF Supported
<1>2. T \in SUBSET (1..Len(ks)) /\ \A i \in T : shrunk[i] = ks[i] BY <1>1
<1>3. \A n \in 1..Cardinality(T) : Nth(T, n) \in T BY <1>1, <1>2, NthExists
<1>4. at(shrunk, T) = at(ks, T) BY <1>2, <1>3 DEF at
<1> QED BY <1>2, <1>4, PickedIsSupported

LEMMA ForgottenIsSupported ==
  ASSUME NEW ks, Supported(ks), NEW T, MaxSize \in Nat, \A j \in T : j \in DOMAIN ks => ks[j].type = "qr"
  PROVE  Supported([j \in DOMAIN ks |-> IF j \in T THEN [ks[j] EXCEPT !.size = 0] ELSE ks[j]])
<1> DEFINE forgotten == [j \in DOMAIN ks |-> IF j \in T THEN [ks[j] EXCEPT !.size = 0] ELSE ks[j]]
<1>1. ks \in Seq(Keyring) /\ DOMAIN ks = 1..Len(ks) /\ Len(ks) \in Nat BY DEF Supported
<1>2. ASSUME NEW j \in DOMAIN ks
      PROVE  /\ Made(forgotten[j]) /\ ~IsForeign(forgotten[j])
             /\ forgotten[j].type = ks[j].type /\ forgotten[j].of = ks[j].of
  BY DEF Supported, Made, Keyring, IsForeign
<1>3. DOMAIN forgotten = DOMAIN ks /\ forgotten \in Seq(Keyring) BY <1>2, <1>1 DEF Made
<1> HIDE DEF forgotten
<1>4. Distinct(forgotten) BY <1>2, <1>3 DEF Supported, Distinct
<1> QED BY <1>2, <1>3, <1>4 DEF Supported, forgotten

\* An imported key is a duplicate only of an imported key.
LEMMA DuplicatesAreSimple ==
  ASSUME Supported(keyrings), NEW k, Made(k), k.type = "simple"
  PROVE  isDuplicate(k) <=> \E j \in DOMAIN keyrings : keyrings[j].type = "simple" /\ keyrings[j].of = k.of
BY DEF Supported, Made, Keyring, isDuplicate, addressesOf

LEMMA AppendedIsUnsupported ==
  ASSUME NEW us, Unsupported(us), NEW k, Made(k), IsForeign(k)
  PROVE  Unsupported(Append(us, k)) /\ Contents(Append(us, k)) = Contents(us) \cup {k}
BY DEF Unsupported, Made, Contents

-----------------------------------------------------------------------------
(* Calls begin.                                                            *)

keptVars == <<keyrings, unsupportedKeyrings, password, vault, shown, op, cacheEncryptionKey>>

LEMMA UnrelatedSteps ==
  ASSUME KeptInv, UNCHANGED keptVars
  PROVE  KeptInv'
BY DEF keptVars, KeptInv, MemoryIsSound, IdleIsKept, SavedIsKept, RestoringIsKept, UnlockingIsKept,
   PersistingIsKept, Held, VaultHolds, Restores, IsRestoring, serializedKeyrings

LEMMA NewIsMade ==
  ASSUME KeyringAssumption
  PROVE  /\ \A s \in Seeds : Made(newKeyring("hd", s, 1)) /\ newKeyring("hd", s, 1).type = "hd"
         /\ \A k \in Keys : Made(newKeyring("simple", k, 1)) /\ newKeyring("simple", k, 1).type = "simple"
         /\ Made(newKeyring("qr", QR, 0)) /\ newKeyring("qr", QR, 0).type = "qr"
         /\ Made(newKeyring("foreign", Foreign, 0)) /\ IsForeign(newKeyring("foreign", Foreign, 0))
BY DEF KeyringAssumption, newKeyring, Made, Keyring, KeyringTypes, IsForeign

LEMMA InitialKept ==
  ASSUME KeyringAssumption, Init
  PROVE  KeptInv
<1>1. /\ op = Idle /\ keyrings = <<>> /\ unsupportedKeyrings = <<>> /\ shown = <<>>
      /\ password = NoPassword BY DEF Init, KeyringInit
<1>2. op \in Call /\ password \in AnyPassword /\ op.step = "idle"
  BY <1>1 DEF Idle, Call, Kinds, AnyPassword
<1>3. Supported(<<>>) /\ Unsupported(<<>>) /\ Contents(<<>>) = {}
  BY DEF Supported, Unsupported, Distinct, Contents
<1>4. ASSUME vault # NoVault PROVE Serialized(vault.content)
  <2>1. PICK s \in Seeds :
          vault.content = <<newKeyring("hd", s, 1), newKeyring("foreign", Foreign, 0)>>
    BY <1>4 DEF Init, KeyringInit
  <2> DEFINE h == newKeyring("hd", s, 1)  f == newKeyring("foreign", Foreign, 0)
  <2>2. Made(h) /\ Made(f) /\ IsForeign(f) /\ h.type = "hd" BY NewIsMade
  <2> HIDE DEF h, f
  <2>3. h \in Keyring /\ f \in Keyring /\ ~IsForeign(h) BY <2>2 DEF Made, IsForeign
  <2> QED BY <2>1, <2>2, <2>3 DEF Serialized, Distinct, IsForeign, h, f
<1> QED
  BY <1>1, <1>2, <1>3, <1>4 DEF KeptInv, MemoryIsSound, IdleIsKept, SavedIsKept, RestoringIsKept,
     UnlockingIsKept, PersistingIsKept, IsRestoring

\* A call that begins remembers what there is.
LEMMA Remembering ==
  ASSUME KeptInv, op = Idle, UNCHANGED <<unsupportedKeyrings, vault, shown, cacheEncryptionKey>>,
         op'.saved = keyrings \o unsupportedKeyrings, op'.savedPassword = password
  PROVE  SavedIsKept' /\ Serialized(op'.saved) /\ addressesOf(keyrings) \subseteq addressesOf(op'.saved)
<1>1. op.step = "idle" /\ Supported(keyrings) /\ Unsupported(unsupportedKeyrings)
  BY DEF Idle, KeptInv, MemoryIsSound
<1>2. /\ Serialized(op'.saved) /\ SupportedOf(keyrings, op'.saved)
      /\ Contents(op'.saved) = Held
      /\ ForeignOf(op'.saved) = Contents(unsupportedKeyrings)
      /\ addressesOf(keyrings) \subseteq addressesOf(op'.saved) BY <1>1, Concatenated DEF Held
<1>3. shown # <<>> => SupportedOf(shown, op'.saved) /\ VaultHolds(Contents(op'.saved))
  BY <1>1, <1>2 DEF KeptInv, IdleIsKept
<1>4. ASSUME ~cacheEncryptionKey
      PROVE  IF password = NoPassword THEN \A j \in DOMAIN op'.saved : IsForeign(op'.saved[j])
             ELSE VaultHolds(Contents(op'.saved))
  BY <1>1, <1>2, <1>4 DEF KeptInv, IdleIsKept, Serialized, SupportedOf
<1> QED BY <1>2, <1>3, <1>4 DEF SavedIsKept, VaultHolds

LEMMA MemoryBegins ==
  ASSUME KeptInv, UNCHANGED <<unsupportedKeyrings, vault, shown>>, Supported(keyrings')
  PROVE  MemoryIsSound'
BY DEF KeptInv, MemoryIsSound

LEMMA PersistingBegins ==
  ASSUME KeptInv, op = Idle, NEW kind \in Kinds, NEW asked \in AnyPassword,
         op' = begun(kind, asked, "persisting"),
         UNCHANGED <<unsupportedKeyrings, vault, shown, cacheEncryptionKey>>,
         Supported(keyrings'), password' \in AnyPassword,
         kind \notin {"restore", "keychain", "password"} => password' = password,
         kind = "password" => keyrings' = keyrings,
         kind \notin {"restore", "keychain", "remove", "forget"} =>
           addressesOf(keyrings) \subseteq addressesOf(keyrings')
  PROVE  KeptInv'
<1>1. /\ op'.step = "persisting" /\ op'.kind = kind /\ op'.savedPassword = password
      /\ op'.saved = keyrings \o unsupportedKeyrings BY DEF begun
<1>2. SavedIsKept' /\ Serialized(op'.saved) BY <1>1, Remembering
<1>3. op' \in Call BY <1>1, <1>2 DEF begun, Call, KeptInv, AnyPassword, Serialized
<1>4. PersistingIsKept'
  <2>1. Supported(keyrings) /\ Unsupported(unsupportedKeyrings) BY DEF KeptInv, MemoryIsSound
  <2>2. /\ addressesOf(op'.saved) = addressesOf(keyrings) \cup addressesOf(unsupportedKeyrings)
        /\ addressesOf(serializedKeyrings') =
             addressesOf(keyrings') \cup addressesOf(unsupportedKeyrings)
    BY <1>1, <2>1, Concatenated DEF serializedKeyrings
  <2> QED BY <1>1, <2>2 DEF PersistingIsKept, serializedKeyrings
<1> QED
  BY <1>1, <1>2, <1>3, <1>4, MemoryBegins DEF KeptInv, IdleIsKept, RestoringIsKept, IsRestoring,
     UnlockingIsKept

LEMMA RestoringBegins ==
  ASSUME KeptInv, op = Idle, NEW kind \in Kinds, NEW asked \in AnyPassword, NEW todo, NEW then,
         op' = restoring(begun(kind, asked, "clearing"), todo, then),
         UNCHANGED <<unsupportedKeyrings, vault, shown, cacheEncryptionKey>>,
         Supported(keyrings'), password' \in AnyPassword,
         \/ then = "rolledBack" /\ todo = keyrings \o unsupportedKeyrings
         \/ /\ then = "decrypted" /\ vault # NoVault /\ todo = vault.content
            /\ ~cacheEncryptionKey => password' # NoPassword
         \/ /\ then = "created" /\ kind \in {"restore", "keychain"} /\ todo \in Seq(Keyring)
            /\ \A j \in DOMAIN todo : Made(todo[j]) /\ todo[j].type = "hd"
         \/ then = "locked" /\ todo = <<>> /\ password' = NoPassword
  PROVE  KeptInv'
<1>1. /\ op'.step = "clearing" /\ op'.kind = kind /\ op'.savedPassword = password
      /\ op'.saved = keyrings \o unsupportedKeyrings /\ op'.then = then /\ op'.todo = todo
      /\ op'.asked = asked BY DEF restoring, begun
<1>2. SavedIsKept' /\ Serialized(op'.saved) BY <1>1, Remembering
<1>3. todo \in Seq(Keyring)
  <2>1. op'.saved \in Seq(Keyring) /\ <<>> \in Seq(Keyring) BY <1>2 DEF Serialized
  <2>2. vault # NoVault => vault.content \in Seq(Keyring) BY DEF KeptInv, MemoryIsSound, Serialized
  <2> QED BY <1>1, <2>1, <2>2
<1>4. op' \in Call BY <1>1, <1>2, <1>3 DEF restoring, begun, Call, KeptInv, AnyPassword, Serialized
<1>5. RestoringIsKept' BY <1>1, <1>3 DEF RestoringIsKept, Restores
<1> QED
  BY <1>1, <1>2, <1>4, <1>5, MemoryBegins DEF KeptInv, IdleIsKept, PersistingIsKept, UnlockingIsKept

LEMMA FailureBegins ==
  ASSUME KeptInv, op = Idle, NEW kind \in Kinds, fails(kind),
         UNCHANGED <<password, unsupportedKeyrings, vault, shown, cacheEncryptionKey>>,
         Supported(keyrings')
  PROVE  KeptInv'
BY RestoringBegins DEF fails, failing, restoring, begun, AnyPassword, KeptInv

\* Where a call finds the keyrings, the vault and the rest when it has the mutex.
Untouched == UNCHANGED <<unsupportedKeyrings, vault, shown, cacheEncryptionKey>>

LEMMA BodyUntouched ==
  ASSUME UNCHANGED bodyRest
  PROVE  Untouched
BY DEF bodyRest, stateVars, restVars, Untouched

LEMMA KindsAndPasswords ==
  /\ {"restore", "keychain", "password", "remove", "forget", "other"} \subseteq Kinds
  /\ Passwords \cup {Empty, NoPassword} \subseteq AnyPassword
BY DEF Kinds, AnyPassword

\* Calls whose body leaves the keyrings as they are.
LEMMA UntouchedCalls ==
  ASSUME KeptInv, op = Idle, Untouched, UNCHANGED keyrings,
         \/ persists("other", NoPassword) /\ UNCHANGED password
         \/ \E kind \in Kinds : fails(kind) /\ UNCHANGED password
  PROVE  KeptInv'
BY KindsAndPasswords, PersistingBegins, FailureBegins DEF KeptInv, MemoryIsSound, persists, Untouched

LEMMA VaultsBegin ==
  ASSUME KeyringAssumption, KeptInv, NEW p \in Passwords \cup {Empty}, NEW seed \in Seeds,
         createNewVaultAndRestore(p, seed) \/ createNewVaultAndKeychain(p, seed)
  PROVE  KeptInv'
<1>1. op = Idle /\ Untouched /\ UNCHANGED keyrings
  BY BodyUntouched DEF createNewVaultAndRestore, createNewVaultAndKeychain, begins
<1>2. ASSUME NEW kind \in {"restore", "keychain"}, password' = p,
             op' = restoring(begun(kind, p, "clearing"), <<newKeyring("hd", seed, 1)>>, "created")
      PROVE  KeptInv'
  <2> DEFINE todo == <<newKeyring("hd", seed, 1)>>
  <2>1. todo \in Seq(Keyring) /\ \A j \in DOMAIN todo : Made(todo[j]) /\ todo[j].type = "hd"
    <3>1. Made(newKeyring("hd", seed, 1)) /\ newKeyring("hd", seed, 1).type = "hd" BY NewIsMade
    <3> HIDE DEF newKeyring
    <3> QED BY <3>1 DEF Made
  <2>2. kind \in Kinds /\ p \in AnyPassword /\ Supported(keyrings')
    BY <1>1, KindsAndPasswords DEF KeptInv, MemoryIsSound
  <2> HIDE DEF todo
  <2>3. op' = restoring(begun(kind, p, "clearing"), todo, "created") BY <1>2 DEF todo
  <2> QED BY <1>1, <1>2, <2>1, <2>2, <2>3, RestoringBegins DEF Untouched
<1>3. ASSUME \/ persists("other", NoPassword) /\ UNCHANGED password
             \/ fails("restore") /\ UNCHANGED password
      PROVE  KeptInv' BY <1>1, <1>3, UntouchedCalls, KindsAndPasswords
<1> QED BY <1>2, <1>3 DEF createNewVaultAndRestore, createNewVaultAndKeychain

LEMMA PasswordsBegin ==
  ASSUME KeyringAssumption, KeptInv, NEW p \in Passwords,
         changePassword(p) \/ submitPassword(p) \/ submitEncryptionKey(p)
  PROVE  KeptInv'
<1>1. op = Idle BY DEF changePassword, submitPassword, submitEncryptionKey, begins
<1>2. Untouched /\ UNCHANGED keyrings
  BY BodyUntouched DEF changePassword, stateChanges, Untouched, restVars, submitPassword, submitEncryptionKey
<1>3. Supported(keyrings') /\ password \in AnyPassword /\ addressesOf(keyrings) = addressesOf(keyrings')
  BY <1>2 DEF KeptInv, MemoryIsSound
<1>4. p # NoPassword /\ p \in AnyPassword /\ NoPassword \in AnyPassword
  BY DEF KeyringAssumption, AnyPassword
<1>5. CASE password' = p /\ persists("password", p)
  BY <1>1, <1>2, <1>3, <1>4, <1>5, KindsAndPasswords, PersistingBegins DEF persists, Untouched
<1>6. ASSUME NEW kind \in Kinds, fails(kind), UNCHANGED password PROVE KeptInv'
  BY <1>1, <1>2, <1>6, UntouchedCalls
<1>7. ASSUME vault # NoVault, password' = p \/ (cacheEncryptionKey /\ password' = password),
             op' = restoring(begun("other", NoPassword, "clearing"), vault.content, "decrypted")
      PROVE  KeptInv'
  BY <1>3, <1>4, <1>7, <1>1, <1>2, KindsAndPasswords, RestoringBegins DEF Untouched
<1>8. CASE changePassword(p) BY <1>5, <1>6, <1>8, KindsAndPasswords DEF changePassword
<1>9. CASE submitPassword(p) \/ submitEncryptionKey(p)
  BY <1>6, <1>7, <1>9, KindsAndPasswords DEF submitPassword, submitEncryptionKey, opensWith
<1> QED BY <1>8, <1>9

LEMMA LockingBegins ==
  ASSUME KeptInv, setLocked
  PROVE  KeptInv'
BY BodyUntouched, KindsAndPasswords, RestoringBegins DEF setLocked, begins, KeptInv, MemoryIsSound,
   AnyPassword, Untouched

\* Calls that change the keyrings, which loses accounts only if they are removed.
LEMMA ChangedCalls ==
  ASSUME KeptInv, op = Idle, Untouched, UNCHANGED password, Supported(keyrings'),
         \/ /\ \E kind \in {"remove", "forget", "other"} : persists(kind, NoPassword)
            /\ op'.kind \in {"remove", "forget"} \/ addressesOf(keyrings) \subseteq addressesOf(keyrings')
         \/ \E kind \in Kinds : fails(kind)
  PROVE  KeptInv'
BY KindsAndPasswords, PersistingBegins, FailureBegins DEF KeptInv, AnyPassword, persists, begun, Untouched

\* A keyring grows by one account.
LEMMA GrownIsSupported ==
  ASSUME KeyringAssumption, NEW ks, Supported(ks), NEW j \in DOMAIN ks, ks[j].size < MaxSize
  PROVE  /\ Supported([ks EXCEPT ![j].size = @ + 1])
         /\ addressesOf(ks) \subseteq addressesOf([ks EXCEPT ![j].size = @ + 1])
<1>1. MaxSize \in Nat /\ ks \in Seq(Keyring) /\ Made(ks[j]) /\ ks[j] \in Keyring
  BY DEF KeyringAssumption, Supported, Made
<1>2. ks[j].size \in 0..MaxSize BY <1>1 DEF Keyring
<1>3. (ks[j].size + 1) \in 0..MaxSize /\ ks[j].size <= ks[j].size + 1 /\ ks[j].size + 1 >= 1
  BY <1>1, <1>2
<1>4. [ks EXCEPT ![j].size = @ + 1] = [ks EXCEPT ![j].size = ks[j].size + 1] BY <1>1
<1> QED BY <1>1, <1>3, <1>4, ResizedIsSupported

LEMMA FirstOfType ==
  ASSUME NEW ks, NEW type, NEW j \in firstOfType(ks, type)
  PROVE  j \in DOMAIN ks /\ ks[j].type = type
BY DEF firstOfType

LEMMA AddingAccounts ==
  ASSUME KeyringAssumption, KeptInv, addNewAccount("hd")
  PROVE  KeptInv'
BY BodyUntouched, FirstOfType, GrownIsSupported, ChangedCalls, KindsAndPasswords, UntouchedCalls DEF
   addNewAccount, begins, KeptInv, MemoryIsSound

LEMMA AddingKeyrings ==
  ASSUME KeyringAssumption, KeptInv, NEW k, Made(k), k.type \in {"simple", "hd"}, addNewKeyring(k)
  PROVE  KeptInv'
<1>1. op = Idle /\ Untouched /\ UNCHANGED password /\ Supported(keyrings)
  BY BodyUntouched DEF addNewKeyring, begins, KeptInv, MemoryIsSound
<1>2. CASE isDuplicate(k) BY <1>1, <1>2, UntouchedCalls, KindsAndPasswords DEF addNewKeyring
<1>3. CASE ~isDuplicate(k)
  <2>1. persists("other", NoPassword) /\ keyrings' = Append(keyrings, k) BY <1>3 DEF addNewKeyring
  <2>2. k.type = "simple" =>
          \A j \in DOMAIN keyrings : keyrings[j].type = "simple" => keyrings[j].of # k.of
    BY <1>1, <1>3, DuplicatesAreSimple
  <2>3. ~IsForeign(k) BY DEF IsForeign
  <2>4. Supported(keyrings') /\ addressesOf(keyrings) \subseteq addressesOf(keyrings')
    BY <1>1, <2>1, <2>2, <2>3, AppendedIsSupported
  <2> QED BY <1>1, <2>1, <2>4, ChangedCalls, KindsAndPasswords
<1> QED BY <1>2, <1>3

LEMMA RemovingAccounts ==
  ASSUME KeyringAssumption, KeptInv, NEW a, removeAccount(a)
  PROVE  KeptInv'
<1>1. op = Idle /\ Untouched /\ UNCHANGED password /\ Supported(keyrings)
  BY BodyUntouched DEF removeAccount, begins, KeptInv, MemoryIsSound
<1>2. ASSUME NEW j \in firstWith(keyrings, a), a[2] = keyrings[j].size,
             keyrings' = LET shrunk == [keyrings EXCEPT ![j].size = @ - 1] IN
                         IF keyrings[j].size > 1 THEN shrunk
                         ELSE at(shrunk, {i \in DOMAIN shrunk : shrunk[i].size > 0}),
             persists("remove", NoPassword)
      PROVE  KeptInv'
  <2>1. /\ j \in DOMAIN keyrings /\ keyrings \in Seq(Keyring) /\ keyrings[j] \in Keyring
        /\ MaxSize \in Nat \ {0} BY <1>1 DEF firstWith, Supported, Made, KeyringAssumption
  <2>2. keyrings[j].size \in 0..MaxSize BY <2>1 DEF Keyring
  <2>3. [keyrings EXCEPT ![j].size = @ - 1] = [keyrings EXCEPT ![j].size = keyrings[j].size - 1]
    BY <2>1
  <2>4. CASE keyrings[j].size > 1
    <3>1. (keyrings[j].size - 1) \in 0..MaxSize /\ keyrings[j].size - 1 >= 1 BY <2>1, <2>2, <2>4
    <3>2. Supported([keyrings EXCEPT ![j].size = keyrings[j].size - 1])
      BY <1>1, <2>1, <3>1, ResizedIsSupported
    <3>3. keyrings' = [keyrings EXCEPT ![j].size = keyrings[j].size - 1] BY <1>2, <2>3, <2>4
    <3> QED BY <1>1, <1>2, <3>2, <3>3, ChangedCalls DEF persists, begun
  <2>5. CASE ~(keyrings[j].size > 1)
    <3>1. PICK shrunk : shrunk = [keyrings EXCEPT ![j].size = @ - 1] OBVIOUS
    <3>2. keyrings' = at(shrunk, {i \in DOMAIN shrunk : shrunk[i].size > 0}) BY <1>2, <2>5, <3>1
    <3>3. /\ DOMAIN shrunk = DOMAIN keyrings
          /\ \A i \in DOMAIN keyrings : i # j => shrunk[i] = keyrings[i]
          /\ shrunk[j] = [keyrings[j] EXCEPT !.size = @ - 1] BY <2>1, <3>1
    <3>4. ~(shrunk[j].size > 0) BY <2>1, <2>2, <2>5, <3>3 DEF Keyring
    <3>5. PICK T : T = {i \in DOMAIN shrunk : shrunk[i].size > 0} OBVIOUS
    <3>6. Supported(at(shrunk, T)) BY <1>1, <2>1, <3>3, <3>4, <3>5, RemovedIsSupported
    <3>7. Supported(keyrings') BY <3>2, <3>5, <3>6
    <3> QED BY <1>1, <1>2, <3>7, ChangedCalls DEF persists, begun
  <2> QED BY <2>4, <2>5
<1>3. CASE fails("remove") /\ UNCHANGED keyrings BY <1>1, <1>3, UntouchedCalls, KindsAndPasswords
<1> QED BY <1>2, <1>3 DEF removeAccount

LEMMA QRKeyrings ==
  ASSUME KeyringAssumption, KeptInv,
         getOrAddQRKeyring \/ unlockQRHardwareWalletAccount \/ forgetQRDevice
  PROVE  KeptInv'
<1>1. op = Idle /\ UNCHANGED password /\ Supported(keyrings)
  BY DEF getOrAddQRKeyring, unlockQRHardwareWalletAccount, forgetQRDevice, begins, KeptInv, MemoryIsSound
<1>2. Untouched
  BY BodyUntouched DEF getOrAddQRKeyring, stateVars, Untouched, unlockQRHardwareWalletAccount, forgetQRDevice
<1> DEFINE added == Append(keyrings, newKeyring("qr", QR, 0))
<1>3. Supported(added) /\ addressesOf(keyrings) \subseteq addressesOf(added)
  <2> DEFINE k == newKeyring("qr", QR, 0)
  <2>1. Made(k) /\ k.type = "qr" /\ ~IsForeign(k) BY NewIsMade DEF IsForeign
  <2> HIDE DEF k
  <2>2. Supported(Append(keyrings, k)) /\ addressesOf(keyrings) \subseteq addressesOf(Append(keyrings, k))
    BY <1>1, <2>1, AppendedIsSupported
  <2> QED BY <2>2 DEF k
<1> HIDE DEF added
<1>4. CASE getOrAddQRKeyring BY <1>4, <1>1, <1>2, <1>3, ChangedCalls DEF getOrAddQRKeyring, added
<1>5. CASE unlockQRHardwareWalletAccount
  <2> DEFINE ks == IF firstOfType(keyrings, "qr") = {} THEN added ELSE keyrings
  <2>1. Supported(ks) /\ addressesOf(keyrings) \subseteq addressesOf(ks) BY <1>1, <1>3
  <2>2. PICK j \in firstOfType(ks, "qr") :
          /\ ks[j].size < MaxSize
          /\ \/ keyrings' = [ks EXCEPT ![j].size = @ + 1] /\ persists("other", NoPassword)
             \/ keyrings' = ks /\ fails("other") BY <1>5 DEF unlockQRHardwareWalletAccount, added
  <2> HIDE DEF ks
  <2>3. /\ Supported([ks EXCEPT ![j].size = @ + 1])
        /\ addressesOf(ks) \subseteq addressesOf([ks EXCEPT ![j].size = @ + 1])
    BY <2>1, <2>2, FirstOfType, GrownIsSupported
  <2>4. CASE keyrings' = [ks EXCEPT ![j].size = @ + 1] /\ persists("other", NoPassword)
    BY <2>1, <2>3, <2>4, <1>1, <1>2, ChangedCalls
  <2>5. CASE keyrings' = ks /\ fails("other")
    BY <1>1, <1>2, <2>1, <2>5, ChangedCalls, KindsAndPasswords
  <2> QED BY <2>2, <2>4, <2>5
<1>6. CASE forgetQRDevice
  <2> DEFINE T == firstOfType(keyrings, "qr")
             forgotten == [j \in DOMAIN keyrings |->
                            IF j \in T THEN [keyrings[j] EXCEPT !.size = 0] ELSE keyrings[j]]
  <2>1. keyrings' = forgotten /\ persists("forget", NoPassword) BY <1>6 DEF forgetQRDevice
  <2>2. MaxSize \in Nat /\ \A j \in T : j \in DOMAIN keyrings => keyrings[j].type = "qr"
    BY FirstOfType DEF KeyringAssumption
  <2>3. Supported(forgotten)
    <3> HIDE DEF T
    <3> QED BY <1>1, <2>2, ForgottenIsSupported
  <2> HIDE DEF T, forgotten
  <2> QED BY <1>1, <1>2, <2>1, <2>3, ChangedCalls DEF persists, begun
<1> QED BY <1>4, <1>5, <1>6

-----------------------------------------------------------------------------
(* Calls go on.                                                            *)

\* Another step of the same call.
SameCall ==
  /\ op'.saved = op.saved /\ op'.savedPassword = op.savedPassword
  /\ op'.kind = op.kind /\ op'.asked = op.asked

LEMMA SavedStays ==
  ASSUME KeptInv, op.step \notin {"idle", "unlocking"}, SameCall,
         shown' = shown \/ op'.step = "unlocking", UNCHANGED <<vault, cacheEncryptionKey>>,
         Contents(unsupportedKeyrings) \subseteq Contents(unsupportedKeyrings')
  PROVE  SavedIsKept'
BY DEF KeptInv, SavedIsKept, SameCall, VaultHolds

LEMMA Clearing ==
  ASSUME KeptInv, cleared
  PROVE  KeptInv'
<1>1. /\ op.step = "clearing" /\ keyrings' = <<>> /\ op' = [op EXCEPT !.step = "restoring"]
      /\ UNCHANGED <<unsupportedKeyrings, password, vault, shown, cacheEncryptionKey>>
  BY DEF cleared, stateVars, restVars
<1>2. /\ op' \in Call /\ op'.step = "restoring" /\ op'.todo = op.todo /\ op'.then = op.then /\ SameCall
      /\ op.todo \in Seq(Keyring) BY <1>1 DEF KeptInv, Call, SameCall
<1>3. MemoryIsSound' BY <1>1 DEF KeptInv, MemoryIsSound, Supported, Distinct
<1>4. SavedIsKept' BY <1>1, <1>2, SavedStays
<1>5. RestoringIsKept /\ IsRestoring BY <1>1 DEF KeptInv, IsRestoring
<1>6. \A list : op.todo = list => Rebuilt(list, op.todo, <<>>, unsupportedKeyrings)
  BY <1>2, RebuildingStarts
<1>7. RestoringIsKept' BY <1>1, <1>2, <1>5, <1>6 DEF RestoringIsKept, Restores
<1> QED BY <1>1, <1>2, <1>3, <1>4, <1>7 DEF KeptInv, IdleIsKept, UnlockingIsKept, PersistingIsKept

\* One more of a list goes to the keyrings, if it is supported.
LEMMA RestoringList ==
  ASSUME KeptInv, restored, NEW list, Serialized(list), op.step = "restoring", Restores(list),
         ForeignOf(list) \subseteq IF vault = NoVault THEN {} ELSE Contents(vault.content)
  PROVE  /\ Supported(keyrings') /\ Unsupported(unsupportedKeyrings')
         /\ Contents(unsupportedKeyrings) \subseteq Contents(unsupportedKeyrings')
         /\ Contents(unsupportedKeyrings') \subseteq
              IF vault = NoVault THEN {} ELSE Contents(vault.content)
         /\ Rebuilt(list, op'.todo, keyrings', unsupportedKeyrings')
<1> DEFINE k == Head(op.todo)
<1>1. op.todo # <<>> /\ op.todo \in Seq(Keyring) /\ op' = [op EXCEPT !.todo = Tail(@)]
  BY DEF restored, KeptInv, Call
<1>2. op'.todo = Tail(op.todo) BY <1>1 DEF KeptInv, Call
<1>3. Supported(keyrings) /\ Unsupported(unsupportedKeyrings) /\ Rebuilt(list, op.todo, keyrings, unsupportedKeyrings)
  BY DEF KeptInv, MemoryIsSound, Restores
<1>4. /\ Made(k) /\ k \in Contents(list)
      /\ IF IsForeign(k) THEN Rebuilt(list, Tail(op.todo), keyrings, Append(unsupportedKeyrings, k))
         ELSE /\ Rebuilt(list, Tail(op.todo), Append(keyrings, k), unsupportedKeyrings)
              /\ k.type = "simple" =>
                   \A j \in DOMAIN keyrings : keyrings[j].type = "simple" => keyrings[j].of # k.of
  BY <1>1, <1>3, RebuildingGoesOn
<1>5. IF k.type = "foreign" \/ isDuplicate(k)
      THEN unsupportedKeyrings' = Append(unsupportedKeyrings, k) /\ UNCHANGED keyrings
      ELSE keyrings' = Append(keyrings, k) /\ UNCHANGED unsupportedKeyrings BY DEF restored
<1>6. Contents(unsupportedKeyrings) \subseteq IF vault = NoVault THEN {} ELSE Contents(vault.content)
  BY DEF KeptInv, MemoryIsSound
<1> HIDE DEF k
<1>7. CASE IsForeign(k)
  <2>1. unsupportedKeyrings' = Append(unsupportedKeyrings, k) /\ keyrings' = keyrings
    BY <1>5, <1>7 DEF IsForeign
  <2>2. /\ Unsupported(unsupportedKeyrings')
        /\ Contents(unsupportedKeyrings') = Contents(unsupportedKeyrings) \cup {k}
    BY <1>3, <1>4, <1>7, <2>1, AppendedIsUnsupported
  <2>3. k \in ForeignOf(list) BY <1>4, <1>7 DEF ForeignOf
  <2> QED BY <1>2, <1>3, <1>4, <1>6, <1>7, <2>1, <2>2, <2>3
<1>8. CASE ~IsForeign(k)
  <2>1. ~isDuplicate(k) BY <1>3, <1>4, <1>8, DuplicatesAreSimple DEF isDuplicate
  <2>2. keyrings' = Append(keyrings, k) /\ unsupportedKeyrings' = unsupportedKeyrings
    BY <1>5, <1>8, <2>1 DEF IsForeign
  <2>3. Supported(keyrings') BY <1>3, <1>4, <1>8, <2>2, AppendedIsSupported
  <2> QED BY <1>2, <1>3, <1>4, <1>6, <1>8, <2>2, <2>3
<1> QED BY <1>7, <1>8

LEMMA RestoringOne ==
  ASSUME KeptInv, restored
  PROVE  KeptInv'
<1>1. /\ op.step = "restoring" /\ op.todo # <<>> /\ op' = [op EXCEPT !.todo = Tail(@)]
      /\ UNCHANGED <<password, vault, shown, cacheEncryptionKey>>
  BY DEF restored, stateVars, restVars
<1>2. op \in Call /\ op.todo \in Seq(Keyring) BY DEF KeptInv, Call
<1>3. Tail(op.todo) \in Seq(Keyring) BY <1>1, <1>2
<1>4. /\ op' \in Call /\ op'.step = "restoring" /\ op'.todo = Tail(op.todo) /\ op'.then = op.then
      /\ SameCall BY <1>1, <1>2, <1>3 DEF Call, SameCall
<1>5. RestoringIsKept /\ IsRestoring /\ SavedIsKept /\ MemoryIsSound
  BY <1>1 DEF KeptInv, IsRestoring
<1>6. ASSUME Supported(keyrings'), Unsupported(unsupportedKeyrings'),
             Contents(unsupportedKeyrings) \subseteq Contents(unsupportedKeyrings'),
             Contents(unsupportedKeyrings') \subseteq
               IF vault = NoVault THEN {} ELSE Contents(vault.content),
             RestoringIsKept'
      PROVE  KeptInv'
  BY <1>1, <1>4, <1>6, SavedStays, <1>5 DEF MemoryIsSound, KeptInv, IdleIsKept, UnlockingIsKept,
     PersistingIsKept
<1>7. CASE op.then = "rolledBack"
  BY <1>1, <1>5, <1>7, RestoringList, <1>3, <1>4, <1>6 DEF RestoringIsKept, SavedIsKept, MemoryIsSound,
     Restores, SameCall
<1>8. CASE op.then = "decrypted"
  BY <1>1, <1>5, <1>8, RestoringList, <1>3, <1>4, <1>6 DEF RestoringIsKept, MemoryIsSound, ForeignOf, Restores
<1>9. CASE op.then = "created"
  <2> DEFINE k == Head(op.todo)
  <2>1. \A j \in DOMAIN op.todo : Made(op.todo[j]) /\ op.todo[j].type = "hd"
    BY <1>5, <1>9 DEF RestoringIsKept
  <2>2. Made(k) /\ k.type = "hd" BY <1>1, <1>2, <2>1
  <2>3. \A j \in DOMAIN Tail(op.todo) : (j + 1) \in DOMAIN op.todo /\ Tail(op.todo)[j] = op.todo[j + 1]
    BY <1>1, <1>2
  <2>4. keyrings' = Append(keyrings, k) /\ unsupportedKeyrings' = unsupportedKeyrings
    BY <2>2 DEF restored, isDuplicate
  <2> HIDE DEF k
  <2>5. Supported(keyrings') BY <1>5, <2>2, <2>4, AppendedIsSupported DEF MemoryIsSound, IsForeign
  <2>6. RestoringIsKept' BY <1>3, <1>4, <1>5, <1>9, <2>1, <2>3 DEF RestoringIsKept, SameCall
  <2> QED BY <1>5, <1>6, <2>4, <2>5, <2>6 DEF MemoryIsSound
<1> QED BY <1>1, <1>5, <1>7, <1>8, <1>9 DEF RestoringIsKept

\* What is restored from a list that the vault holds is what the vault holds.
LEMMA RestoredIsHeld ==
  ASSUME KeptInv, NEW list, Serialized(list), Rebuilt(list, <<>>, keyrings, unsupportedKeyrings),
         VaultHolds(Contents(list))
  PROVE  VaultHolds(Held)
BY RebuildingEnds DEF KeptInv, MemoryIsSound, Serialized, VaultHolds, Held

\* The vault keeps holding what it does as long as neither changes.
LEMMA HeldStays ==
  ASSUME UNCHANGED <<keyrings, unsupportedKeyrings, vault>>
  PROVE  VaultHolds(Held)' <=> VaultHolds(Held)
BY DEF VaultHolds, Held

LEMMA IdleIsTyped ==
  ASSUME op' = Idle
  PROVE  /\ op' \in Call /\ op'.step = "idle"
         /\ SavedIsKept' /\ RestoringIsKept' /\ UnlockingIsKept' /\ PersistingIsKept'
BY DEF Idle, Call, Kinds, SavedIsKept, RestoringIsKept, IsRestoring, UnlockingIsKept, PersistingIsKept

LEMMA RollingBack ==
  ASSUME KeptInv, rolledBack
  PROVE  KeptInv'
<1>1. /\ op.step = "restoring" /\ op.todo = <<>> /\ op.then = "rolledBack" /\ op' = Idle
      /\ password' = op.savedPassword
      /\ UNCHANGED <<keyrings, unsupportedKeyrings, vault, shown, cacheEncryptionKey>>
  BY DEF rolledBack, isRestored, oldPassword, stateVars, restVars
<1>2. SavedIsKept /\ RestoringIsKept /\ MemoryIsSound /\ op.savedPassword \in AnyPassword
  BY DEF KeptInv, Call, AnyPassword
<1>3. Serialized(op.saved) /\ Rebuilt(op.saved, <<>>, keyrings, unsupportedKeyrings)
  BY <1>1, <1>2 DEF SavedIsKept, RestoringIsKept, IsRestoring, Restores
<1>4. op.saved \in Seq(Keyring) /\ keyrings \in Seq(Keyring) /\ shown \in Seq(Keyring)
      /\ Supported(keyrings) BY <1>2, <1>3 DEF Serialized, MemoryIsSound, Supported
<1>5. SupportedOf(keyrings, op.saved) BY <1>3, <1>4, RebuildingEnds
<1>6. ASSUME shown # <<>> PROVE shown = keyrings /\ VaultHolds(Held)
  BY <1>1, <1>2, <1>6, <1>3, <1>4, <1>5, SupportedUnique, RestoredIsHeld DEF SavedIsKept
<1>7. ASSUME ~cacheEncryptionKey
      PROVE  IF op.savedPassword = NoPassword THEN keyrings = <<>> ELSE VaultHolds(Held)
  BY <1>1, <1>2, <1>7, <1>3, <1>4, <1>5, SupportedSome, RestoredIsHeld DEF SavedIsKept
<1>8. MemoryIsSound' BY <1>1, <1>2 DEF MemoryIsSound
<1>9. IdleIsKept' BY <1>1, <1>6, <1>7, HeldStays DEF IdleIsKept
<1> QED BY <1>1, <1>2, <1>8, <1>9, IdleIsTyped DEF KeptInv

LEMMA VaultUpdating ==
  ASSUME VaultAssumption, KeyringAssumption, TypeOK, KeptInv, vaultUpdated
  PROVE  KeptInv'
<1>1. /\ op.step = "persisting" /\ mayEncrypt /\ op' = Idle
      /\ shown' = keyrings
      /\ UNCHANGED <<keyrings, unsupportedKeyrings, password, cacheEncryptionKey>>
  BY DEF vaultUpdated, stateChanges, memoryVars
<1>2. vault' = [password |-> IF hasKey THEN encryptionKey ELSE password, content |-> serializedKeyrings]
  BY DEF vaultUpdated
<1>3. Supported(keyrings) /\ Unsupported(unsupportedKeyrings) /\ password \in AnyPassword
  BY DEF KeptInv, MemoryIsSound
<1>4. Serialized(serializedKeyrings) /\ Contents(serializedKeyrings) = Held
  BY <1>3, Concatenated DEF Held, serializedKeyrings
<1>5. vault'.content = serializedKeyrings /\ vault' # NoVault
  BY <1>1, <1>4, <1>2 DEF mayEncrypt, hasKey, TypeOK, Serialized, VaultAssumption
<1>6. VaultHolds(Held)' BY <1>1, <1>4, <1>5 DEF VaultHolds, Held
<1>7. MemoryIsSound' BY <1>1, <1>3, <1>4, <1>5 DEF Held, MemoryIsSound
<1>8. IdleIsKept' BY <1>1, <1>6 DEF mayEncrypt, hasKey, KeyringAssumption, IdleIsKept
<1> QED BY <1>1, <1>3, <1>7, <1>8, IdleIsTyped DEF KeptInv

LEMMA VaultUpdateFailing ==
  ASSUME KeptInv, vaultUpdateFails
  PROVE  KeptInv'
<1>1. /\ op.step = "persisting"
      /\ op' = [op EXCEPT !.step = "clearing", !.todo = op.saved, !.then = "rolledBack"]
      /\ UNCHANGED <<keyrings, unsupportedKeyrings, password, vault, shown, cacheEncryptionKey>>
  BY DEF vaultUpdateFails, failing, restoring, memoryVars, stateVars, restVars
<1>2. /\ op' \in Call /\ op'.step = "clearing" /\ op'.todo = op.saved /\ op'.then = "rolledBack"
      /\ SameCall /\ op.saved \in Seq(Keyring) BY <1>1 DEF KeptInv, Call, SameCall
<1>3. SavedIsKept' BY <1>1, <1>2, SavedStays
<1>4. RestoringIsKept' BY <1>2 DEF RestoringIsKept, Restores, SameCall
<1>5. MemoryIsSound' BY <1>1 DEF KeptInv, MemoryIsSound
<1> QED BY <1>1, <1>2, <1>3, <1>4, <1>5 DEF KeptInv, IdleIsKept, UnlockingIsKept, PersistingIsKept

LEMMA Creating ==
  ASSUME KeptInv, created
  PROVE  KeptInv'
<1>1. /\ op.step = "restoring" /\ op.then = "created"
      /\ op' = [op EXCEPT !.step = "persisting"]
      /\ UNCHANGED <<keyrings, unsupportedKeyrings, password, vault, shown, cacheEncryptionKey>>
  BY DEF created, isRestored, stateChanges, memoryVars, restVars
<1>2. op' \in Call /\ op'.step = "persisting" /\ SameCall BY <1>1 DEF KeptInv, Call, SameCall
<1>3. SavedIsKept' BY <1>1, <1>2, SavedStays
<1>4. PersistingIsKept'
  BY <1>1, <1>2 DEF KeptInv, RestoringIsKept, IsRestoring, SameCall, PersistingIsKept
<1>5. MemoryIsSound' BY <1>1 DEF KeptInv, MemoryIsSound
<1> QED
  BY <1>1, <1>2, <1>3, <1>4, <1>5 DEF KeptInv, IdleIsKept, UnlockingIsKept, RestoringIsKept, IsRestoring

LEMMA Unlocking ==
  ASSUME KeptInv, unlocking
  PROVE  KeptInv'
<1>1. /\ op.step = "restoring" /\ op.then = "decrypted" /\ op.todo = <<>>
      /\ op' = [op EXCEPT !.step = "unlocking"] /\ shown' = keyrings
      /\ UNCHANGED <<keyrings, unsupportedKeyrings, password, vault, cacheEncryptionKey>>
  BY DEF unlocking, isRestored, stateChanges, memoryVars, restVars
<1>2. op' \in Call /\ op'.step = "unlocking" /\ SameCall BY <1>1 DEF KeptInv, Call, SameCall
<1>3. SavedIsKept' BY <1>1, <1>2, SavedStays
<1>4. /\ vault # NoVault /\ Rebuilt(vault.content, <<>>, keyrings, unsupportedKeyrings)
      /\ ~cacheEncryptionKey => password # NoPassword
  BY <1>1 DEF KeptInv, RestoringIsKept, IsRestoring, Restores
<1>5. Serialized(vault.content) /\ VaultHolds(Contents(vault.content))
  BY <1>4 DEF KeptInv, MemoryIsSound, VaultHolds
<1>6. VaultHolds(Held)' BY <1>1, <1>4, <1>5, RestoredIsHeld, HeldStays
<1>7. UnlockingIsKept' BY <1>1, <1>4, <1>6 DEF UnlockingIsKept
<1>8. MemoryIsSound' BY <1>1 DEF KeptInv, MemoryIsSound
<1> QED
  BY <1>1, <1>2, <1>3, <1>7, <1>8 DEF KeptInv, IdleIsKept, PersistingIsKept, RestoringIsKept, IsRestoring

LEMMA Ending ==
  ASSUME KeptInv, unlocked \/ locked \/ restarted
  PROVE  KeptInv'
<1>1. op' = Idle /\ UNCHANGED <<vault, cacheEncryptionKey>>
  BY DEF unlocked, locked, restarted, restVars
<1>2. CASE unlocked
  BY <1>2, HeldStays, <1>1, IdleIsTyped DEF unlocked, stateChanges, memoryVars, restVars, KeptInv,
     UnlockingIsKept, IdleIsKept, MemoryIsSound
<1>3. CASE locked
  BY <1>3, <1>1, IdleIsTyped DEF locked, isRestored, stateChanges, memoryVars, restVars, KeptInv,
     RestoringIsKept, IsRestoring, IdleIsKept, MemoryIsSound, Supported, Distinct
<1>4. CASE restarted
  BY <1>4, <1>1, IdleIsTyped DEF restarted, IdleIsKept, KeptInv, MemoryIsSound, Supported, Unsupported,
     Distinct, Contents, AnyPassword
<1> QED BY <1>2, <1>3, <1>4

LEMMA KeptStep ==
  ASSUME VaultAssumption, KeyringAssumption, TypeOK, KeptInv, [Next]_vars
  PROVE  KeptInv'
<1>1. CASE UNCHANGED vars
  BY <1>1, UnrelatedSteps DEF vars, keyringVars, memoryVars, stateVars, restVars, keptVars
<1>2. CASE updatesAccounts \/ (\E a \in accounts : selects(a)) \/ (\E a \in identities : selectsIdentity(a))
  BY <1>2, UnrelatedSteps DEF updatesAccounts, selects, selectsIdentity, keyringVars, memoryVars, stateVars,
     restVars, keptVars
<1>3. CASE qrKeyringMissing
  BY <1>3, UnrelatedSteps DEF qrKeyringMissing, memoryVars, stateVars, keptVars
<1>4. CASE persistAllKeyrings BY <1>4, BodyUntouched, UntouchedCalls DEF persistAllKeyrings, begins
<1>5. ASSUME NEW k \in Keys, addNewKeyring(newKeyring("simple", k, 1)) PROVE KeptInv'
  BY <1>5, NewIsMade, AddingKeyrings
<1>6. ASSUME NEW s \in Seeds, addNewKeyring(newKeyring("hd", s, 1)) PROVE KeptInv'
  BY <1>6, NewIsMade, AddingKeyrings
<1>7. CASE setLocked \/ \E p \in Passwords : changePassword(p) \/ submitPassword(p) \/ submitEncryptionKey(p)
  BY <1>7, PasswordsBegin, LockingBegins
<1>8. CASE KeyringNext
  BY <1>3, <1>4, <1>5, <1>6, <1>7, <1>8, VaultsBegin, AddingAccounts, RemovingAccounts, QRKeyrings, Clearing,
     RestoringOne, RollingBack, VaultUpdating, VaultUpdateFailing, Creating, Unlocking, Ending DEF KeyringNext
<1> QED BY <1>1, <1>2, <1>8 DEF Next

-----------------------------------------------------------------------------
(* The types of the rest, on which the vault depends.                      *)

VaultTypes ==
  /\ vault \in {NoVault} \cup [password : Passwords, content : Seq(Keyring)]
  /\ encryptionKey \in {NoPassword} \cup (IF cacheEncryptionKey THEN Passwords ELSE {})
  /\ cacheEncryptionKey \in BOOLEAN /\ chosen \in AnyPassword
  /\ qrWaiting \in Nat /\ calls \in Nat

FollowerTypes ==
  /\ isUnlocked \in BOOLEAN /\ overlapped \in BOOLEAN /\ updates \in Nat
  /\ accounts \subseteq Addresses /\ recency \in Seq(Addresses)
  /\ selectedAccount \in Addresses \cup {NoAccount}
  /\ identities \subseteq Addresses /\ selectedAddress \in Addresses \cup {NoAddress}
  /\ updating \in [todo : SUBSET Addresses, found : SUBSET Addresses, busy : BOOLEAN]

LEMMA TypesTogether ==
  TypeOK <=> /\ keyrings \in Seq(Keyring) /\ unsupportedKeyrings \in Seq(Keyring)
             /\ shown \in Seq(Keyring) /\ password \in AnyPassword /\ op \in Call
             /\ VaultTypes /\ FollowerTypes
BY DEF TypeOK, VaultTypes, FollowerTypes, AnyPassword

LEMMA AddressesOfSupported ==
  ASSUME NEW ks, Supported(ks), MaxSize \in Nat
  PROVE  addressesOf(ks) \subseteq Addresses
<1> SUFFICES ASSUME NEW j \in DOMAIN ks, NEW i \in 1..ks[j].size
             PROVE  <<ks[j].of, i>> \in Addresses BY DEF addressesOf
<1>1. Made(ks[j]) /\ ~IsForeign(ks[j]) /\ ks[j] \in Keyring BY DEF Supported, Made
<1>2. ks[j].of \in Seeds \cup Keys \cup {QR} /\ ks[j].size \in 0..MaxSize
  BY <1>1 DEF Made, IsForeign, Keyring
<1>3. i \in 1..MaxSize BY <1>2
<1> QED BY <1>2, <1>3 DEF Addresses

\* The lists of accounts stay lists of accounts.
LEMMA AmongIsSeq ==
  ASSUME NEW S, NEW seq \in Seq(S), NEW as
  PROVE  among(seq, as) \in Seq(S) /\ \A i \in DOMAIN among(seq, as) : among(seq, as)[i] \in as
<1> DEFINE T == {p \in DOMAIN seq : seq[p] \in as}
<1>1. among(seq, as) = at(seq, T) BY DEF among
<1>2. /\ T \in SUBSET (1..Len(seq))
      /\ \A p \in T : seq[p] \in as
  <2>1. DOMAIN seq = 1..Len(seq) OBVIOUS
  <2> QED BY <2>1
<1> HIDE DEF T
<1>3. /\ at(seq, T) \in Seq(S)
      /\ \A k \in 1..Len(at(seq, T)) : Nth(T, k) \in T /\ at(seq, T)[k] = seq[Nth(T, k)]
  BY <1>2, AtIsSeq
<1>4. DOMAIN at(seq, T) = 1..Len(at(seq, T)) BY <1>3
<1> QED BY <1>1, <1>2, <1>3, <1>4

LEMMA WithoutIsSeq ==
  ASSUME NEW S, NEW seq \in Seq(S), NEW a
  PROVE  without(seq, a) \in Seq(S)
<1> DEFINE T == {p \in DOMAIN seq : seq[p] # a}
<1>1. without(seq, a) = at(seq, T) BY DEF without
<1>2. T \in SUBSET (1..Len(seq)) OBVIOUS
<1> HIDE DEF T
<1> QED BY <1>1, <1>2, AtIsSeq

LEMMA SelectTypes ==
  ASSUME NEW seq \in Seq(Addresses), NEW a \in Addresses, select(a, seq)
  PROVE  recency' \in Seq(Addresses) /\ selectedAccount' \in Addresses
BY WithoutIsSeq DEF select

LEMMA PublishingTypes ==
  ASSUME FollowerTypes, MaxSize \in Nat, NEW unlocks \in BOOLEAN, NEW ks, Supported(ks),
         stateChanges(unlocks, ks)
  PROVE  FollowerTypes'
<1> DEFINE addresses == addressesOf(ks)
<1>1. addresses \subseteq Addresses BY AddressesOfSupported
<1>2. isUnlocked' \in BOOLEAN /\ overlapped' \in BOOLEAN /\ UNCHANGED <<updating, updates>>
  BY DEF stateChanges, handleOnKeyringStateChange, FollowerTypes
<1> HIDE DEF addresses
<1>3. ASSUME reselected(addresses)
      PROVE  recency' \in Seq(Addresses) /\ selectedAccount' \in Addresses \cup {NoAccount}
  BY AmongIsSeq, <1>1, <1>3, SelectTypes DEF FollowerTypes, reselected
<1>4. /\ accounts' \subseteq Addresses /\ recency' \in Seq(Addresses)
      /\ selectedAccount' \in Addresses \cup {NoAccount}
  BY <1>1, <1>3 DEF stateChanges, handleOnKeyringStateChange, handleNewAccountAdded, handleAccountRemoved,
     FollowerTypes, addresses
<1>5. identities' \subseteq Addresses /\ selectedAddress' \in Addresses \cup {NoAddress}
  BY <1>1 DEF stateChanges, syncIdentities, identityVars, FollowerTypes, addresses
<1> QED BY <1>2, <1>4, <1>5 DEF FollowerTypes

LEMMA FollowersTyped ==
  ASSUME KeyringAssumption, TypeOK, KeptInv, [Next]_vars
  PROVE  FollowerTypes'
<1>1. FollowerTypes /\ MaxSize \in Nat /\ Supported(shown) /\ Supported(keyrings) /\ Supported(<<>>)
  BY TypesTogether DEF KeyringAssumption, KeptInv, MemoryIsSound, Supported, Distinct
<1>2. ASSUME UNCHANGED followedVars PROVE FollowerTypes'
  BY <1>1, <1>2 DEF followedVars, followers, accountsVars, updateVars, identityVars, FollowerTypes
<1>3. CASE UNCHANGED vars BY <1>2, <1>3 DEF vars, keyringVars, stateVars, followedVars
<1>4. CASE vaultUpdated \/ created \/ unlocking \/ unlocked \/ locked
  BY <1>1, <1>4, PublishingTypes DEF FollowerTypes, vaultUpdated, created, unlocking, unlocked, locked
<1>5. ASSUME NEW p \in Passwords, changePassword(p) PROVE FollowerTypes'
  BY <1>1, <1>2, <1>5, PublishingTypes DEF FollowerTypes, changePassword, followedVars
<1>6. CASE restarted BY <1>1, <1>6 DEF restarted, FollowerTypes, NotUpdating, identityVars
<1>7. CASE KeyringNext BY <1>2, <1>4, <1>5, <1>6, <1>7, UnpublishedOperations DEF KeyringNext
<1>8. CASE updatesAccounts
  <2>1. UNCHANGED <<isUnlocked, identities, selectedAddress>>
    BY <1>8 DEF updatesAccounts, keyringVars, stateVars, identityVars
  <2>2. CASE updateAccounts(addressesOf(shown))
    BY <1>1, <2>1, <2>2, AddressesOfSupported DEF updateAccounts, FollowerTypes
  <2>3. ASSUME NEW a, accountLookedUp(a, firstWith(keyrings, a) # {}) PROVE FollowerTypes'
    BY <1>1, <2>1, <2>3 DEF accountLookedUp, NotUpdating, FollowerTypes
  <2>4. CASE accountsUpdated
    BY <1>1, <2>4, AmongIsSeq, <2>1 DEF accountsUpdated, FollowerTypes, NotUpdating
  <2> QED BY <1>8, <2>2, <2>3, <2>4 DEF updatesAccounts
<1>9. ASSUME NEW a \in accounts, selects(a) PROVE FollowerTypes'
  BY <1>1, <1>9, SelectTypes DEF selects, setSelectedAccount, FollowerTypes, updateVars, keyringVars,
     stateVars, identityVars
<1>10. ASSUME NEW a \in identities, selectsIdentity(a) PROVE FollowerTypes'
  BY <1>1, <1>10 DEF selectsIdentity, setSelectedAddress, keyringVars, stateVars, accountsVars, updateVars,
     FollowerTypes
<1> QED BY <1>3, <1>7, <1>8, <1>9, <1>10 DEF Next

LEMMA VaultTyped ==
  ASSUME KeyringAssumption, TypeOK, KeptInv, [Next]_vars
  PROVE  VaultTypes'
<1>1. VaultTypes /\ op \in Call BY TypesTogether
<1>2. ASSUME UNCHANGED <<vault, encryptionKey, cacheEncryptionKey, chosen>>,
             qrWaiting' = qrWaiting \/ qrWaiting' \in Nat, calls' = calls \/ calls' = calls + 1
      PROVE  VaultTypes' BY <1>1, <1>2 DEF VaultTypes
<1>3. CASE UNCHANGED vars \/ updatesAccounts \/ (\E a \in accounts : selects(a))
           \/ (\E a \in identities : selectsIdentity(a))
  BY <1>2, <1>3 DEF vars, updatesAccounts, selects, selectsIdentity, keyringVars, stateVars, restVars
<1>4. CASE \/ persistAllKeyrings \/ setLocked \/ unlockQRHardwareWalletAccount \/ forgetQRDevice
           \/ \E p \in Passwords \cup {Empty}, s \in Seeds :
                createNewVaultAndRestore(p, s) \/ createNewVaultAndKeychain(p, s)
           \/ \E p \in Passwords : submitPassword(p) \/ submitEncryptionKey(p)
           \/ addNewAccount("hd")
           \/ \E k \in Keys : addNewKeyring(newKeyring("simple", k, 1))
           \/ \E s \in Seeds : addNewKeyring(newKeyring("hd", s, 1))
           \/ \E a \in addressesOf(shown) : removeAccount(a)
  BY <1>2, <1>4 DEF persistAllKeyrings, setLocked, unlockQRHardwareWalletAccount, forgetQRDevice,
     createNewVaultAndRestore, createNewVaultAndKeychain, submitPassword, submitEncryptionKey, addNewAccount,
     addNewKeyring, removeAccount, begins, bodyRest, stateVars, restVars
<1>5. CASE qrKeyringMissing \/ getOrAddQRKeyring
  BY <1>1, <1>5 DEF qrKeyringMissing, getOrAddQRKeyring, begins, stateVars, VaultTypes
<1>6. CASE cleared \/ restored \/ rolledBack \/ vaultUpdateFails \/ created \/ unlocked \/ locked
  BY <1>2, <1>6 DEF cleared, restored, rolledBack, vaultUpdateFails, created, unlocked, locked, stateVars,
     restVars
<1>7. CASE restarted BY <1>1, <1>7 DEF restarted, VaultTypes
<1>8. ASSUME NEW p \in Passwords, changePassword(p) PROVE VaultTypes'
  BY <1>1, <1>8 DEF changePassword, begins, restVars, VaultTypes
<1>9. CASE unlocking
  BY <1>9, <1>1 DEF unlocking, isRestored, KeptInv, RestoringIsKept, IsRestoring, VaultTypes, keyAfter,
     restVars
<1>10. CASE vaultUpdated
  <2> DEFINE encryptedWith == IF hasKey THEN encryptionKey ELSE password
  <2>1. encryptedWith \in Passwords BY <1>1, <1>10 DEF vaultUpdated, mayEncrypt, hasKey, VaultTypes
  <2>2. serializedKeyrings \in Seq(Keyring)
    BY DEF KeptInv, MemoryIsSound, Supported, Unsupported, serializedKeyrings
  <2>3. op.asked \in AnyPassword BY <1>1 DEF Call, AnyPassword
  <2> HIDE DEF encryptedWith
  <2>4. /\ vault' = [password |-> encryptedWith, content |-> serializedKeyrings]
        /\ encryptionKey' = keyAfter(encryptedWith)
        /\ chosen' = IF op.asked = NoPassword THEN chosen ELSE op.asked
        /\ UNCHANGED <<cacheEncryptionKey, qrWaiting, calls>>
    BY <1>10 DEF vaultUpdated, encryptedWith
  <2> QED BY <1>1, <2>1, <2>2, <2>3, <2>4 DEF keyAfter, VaultTypes
<1>11. CASE KeyringNext BY <1>4, <1>5, <1>6, <1>7, <1>8, <1>9, <1>10, <1>11 DEF KeyringNext
<1> QED BY <1>3, <1>11 DEF Next

LEMMA InitialTypes ==
  ASSUME KeyringAssumption, Init
  PROVE  TypeOK
<1>1. KeptInv BY InitialKept
<1>2. /\ keyrings \in Seq(Keyring) /\ unsupportedKeyrings \in Seq(Keyring) /\ shown \in Seq(Keyring)
      /\ password \in AnyPassword /\ op \in Call
  BY <1>1 DEF KeptInv, MemoryIsSound, Supported, Unsupported
<1>3. VaultTypes
  BY <1>1 DEF KeptInv, MemoryIsSound, Serialized, Init, KeyringInit, VaultTypes, AnyPassword
<1>4. PICK as : /\ as = IF vault = NoVault THEN {} ELSE {<<vault.content[1].of, 1>>}
                /\ AccountsInit(as) /\ IdentitiesInit(as) BY DEF Init, KeyringInit
<1>5. as \subseteq Addresses BY <1>4 DEF Init, KeyringInit, newKeyring, KeyringAssumption, Addresses
<1>6. /\ accounts \subseteq Addresses /\ selectedAccount \in Addresses \cup {NoAccount}
      /\ recency \in Seq(Addresses)
      /\ identities \subseteq Addresses /\ selectedAddress \in Addresses \cup {NoAddress}
  <2>1. CASE as = {}
    <3>1. accounts = {} /\ selectedAccount = NoAccount /\ recency = <<>>
      BY <1>4, <2>1 DEF AccountsInit
    <3>2. identities = {} /\ selectedAddress = NoAddress BY <1>4, <2>1 DEF IdentitiesInit
    <3>3. <<>> \in Seq(Addresses) OBVIOUS
    <3> QED BY <3>1, <3>2, <3>3
  <2>2. CASE as # {} BY <1>4, <1>5, <2>2 DEF AccountsInit, IdentitiesInit
  <2> QED BY <2>1, <2>2
<1>7. FollowerTypes
  <2>1. isUnlocked = FALSE BY DEF Init, KeyringInit
  <2>2. updating = NotUpdating /\ updates = 0 /\ overlapped = FALSE BY <1>4 DEF AccountsInit
  <2>3. NotUpdating \in [todo : SUBSET Addresses, found : SUBSET Addresses, busy : BOOLEAN]
    BY DEF NotUpdating
  <2> QED BY <1>6, <2>1, <2>2, <2>3 DEF FollowerTypes
<1> QED BY <1>2, <1>3, <1>7, TypesTogether

LEMMA TypedStep ==
  ASSUME VaultAssumption, KeyringAssumption, TypeOK, KeptInv, [Next]_vars
  PROVE  TypeOK' /\ KeptInv'
BY KeptStep, VaultTyped, FollowersTyped DEF KeptInv, MemoryIsSound, Supported, Unsupported, TypeOK,
   VaultTypes, FollowerTypes, AnyPassword

(***************************************************************************)
(* The variables keep their types, for any passwords, secrets, calls and   *)
(* failures: keyrings, saved keyrings and vaults are lists of keyrings of  *)
(* at most MaxSize accounts, and accounts are accounts of them.            *)
(***************************************************************************)
THEOREM TypeCorrect == Spec => []TypeOK
<1>1. Init => TypeOK /\ KeptInv BY InitialTypes, InitialKept, KeyringAssumption
<1>2. TypeOK /\ KeptInv /\ [Next]_vars => (TypeOK /\ KeptInv)'
  BY TypedStep, KeyringAssumption, VaultAssumption
<1> QED BY <1>1, <1>2, PTL DEF Spec

(***************************************************************************)
(* "rollback keyrings and password states in case of error": between two   *)
(* calls an unlocked wallet that shows keyrings holds exactly these, and   *)
(* they and what is unsupported are what its vault holds, whatever failed, *)
(* was rolled back or cut short before.                                    *)
(***************************************************************************)
THEOREM ShownIsAlwaysKept == Spec => []ShownIsKept
<1>1. Init => TypeOK /\ KeptInv BY InitialTypes, InitialKept, KeyringAssumption
<1>2. TypeOK /\ KeptInv /\ [Next]_vars => (TypeOK /\ KeptInv)'
  BY TypedStep, KeyringAssumption, VaultAssumption
<1>3. KeptInv => ShownIsKept BY DEF KeptInv, IdleIsKept, ShownIsKept, VaultHolds, Held, Idle
<1> QED BY <1>1, <1>2, <1>3, PTL DEF Spec

(***************************************************************************)
(* What a step does to the vault: only vaultUpdated changes it.            *)
(***************************************************************************)
LEMMA VaultChanges ==
  ASSUME [Next]_vars
  PROVE  vaultUpdated \/ UNCHANGED vault
BY DEF Next, KeyringNext, vars, updatesAccounts, selects, selectsIdentity, keyringVars, persistAllKeyrings,
   setLocked, qrKeyringMissing, getOrAddQRKeyring, unlockQRHardwareWalletAccount, forgetQRDevice,
   createNewVaultAndRestore, createNewVaultAndKeychain, changePassword, submitPassword, submitEncryptionKey,
   addNewAccount, addNewKeyring, removeAccount, cleared, restored, rolledBack, vaultUpdateFails, created,
   unlocking, unlocked, locked, restarted, bodyRest, stateVars

LEMMA NothingLostByStep ==
  ASSUME KeyringAssumption, TypeOK, KeptInv, [Next]_vars, ~cacheEncryptionKey, vault # NoVault
  PROVE  /\ op.kind \in {"restore", "keychain", "remove", "forget"} \/
              addressesOf(vault.content) \subseteq addressesOf(vault'.content)
         /\ op.kind \in {"restore", "keychain"} \/
              {k \in Contents(vault.content) : k.type = "foreign"} \subseteq Contents(vault'.content)
<1>1. CASE UNCHANGED vault BY <1>1
<1>2. CASE vaultUpdated
  <2>1. /\ op.step = "persisting" /\ mayEncrypt
        /\ \E j \in DOMAIN serializedKeyrings : serializedKeyrings[j].type = "hd"
        /\ vault'.content = serializedKeyrings BY <1>2 DEF vaultUpdated
  <2>2. password \in Passwords /\ password # NoPassword
    BY <2>1 DEF mayEncrypt, hasKey, KeyringAssumption
  <2>3. SUFFICES ASSUME op.kind \notin {"restore", "keychain"}
                 PROVE  /\ op.kind \in {"remove", "forget"} \/
                             addressesOf(vault.content) \subseteq addressesOf(serializedKeyrings)
                        /\ ForeignOf(vault.content) \subseteq Contents(serializedKeyrings)
    BY <2>1 DEF ForeignOf, IsForeign
  <2>4. SavedIsKept /\ PersistingIsKept BY DEF KeptInv
  <2>5. op.savedPassword # NoPassword
    BY <2>1, <2>3, <2>4, <2>2 DEF PersistingIsKept, SavedIsKept, IsForeign
  <2>6. Contents(vault.content) = Contents(op.saved) BY <2>1, <2>4, <2>5 DEF SavedIsKept, VaultHolds
  <2>7. ForeignOf(vault.content) \subseteq Contents(serializedKeyrings)
    BY Concatenated, <2>1, <2>4, <2>6 DEF KeptInv, MemoryIsSound, serializedKeyrings, SavedIsKept, ForeignOf
  <2>8. ASSUME op.kind \notin {"remove", "forget"}
        PROVE  addressesOf(vault.content) \subseteq addressesOf(serializedKeyrings)
    BY <2>1, <2>3, <2>4, <2>8, <2>6 DEF PersistingIsKept, addressesOf, Contents
  <2> QED BY <2>7, <2>8
<1> QED BY <1>1, <1>2, VaultChanges

(***************************************************************************)
(* No failure, lock, restart or concurrent call loses what is in the vault *)
(* of a wallet that keeps no encryption key: accounts disappear only if    *)
(* they are removed, the device is forgotten or the wallet is replaced,    *)
(* keyrings of other builds only if it is replaced.                        *)
(***************************************************************************)
THEOREM NothingIsEverLost == Spec => NothingIsLost
<1>1. Init => TypeOK /\ KeptInv BY InitialTypes, InitialKept, KeyringAssumption
<1>2. TypeOK /\ KeptInv /\ [Next]_vars => (TypeOK /\ KeptInv)'
  BY TypedStep, KeyringAssumption, VaultAssumption
<1>3. TypeOK /\ KeptInv /\ [Next]_vars =>
        [~cacheEncryptionKey /\ vault # NoVault =>
           /\ op.kind \in {"restore", "keychain", "remove", "forget"} \/
                addressesOf(vault.content) \subseteq addressesOf(vault'.content)
           /\ op.kind \in {"restore", "keychain"} \/
                {k \in Contents(vault.content) : k.type = "foreign"} \subseteq Contents(vault'.content)
        ]_vars BY NothingLostByStep, KeyringAssumption
<1> QED BY <1>1, <1>2, <1>3, PTL DEF Spec, NothingIsLost

-----------------------------------------------------------------------------

(***************************************************************************)
(* Polling.  A client that is gone was removed, so that a key whose client *)
(* never was listens to the client there is; and the timers of a key that  *)
(* are set are the one the key holds, which is why a late poll that ends   *)
(* sets no second timer.                                                   *)
(***************************************************************************)
GoneIsBereft == \A k \in BlockKeys : blockClient[k] = NoClient => k \in bereft

PollsInv == PollingTypeOK /\ PolledWhileAsked /\ GoneIsBereft

TimerRecords == [step : {"set", "polling"}, key : TimedKeys]

LEMMA TimersAre ==
  ASSUME PollingTypeOK, NEW i \in Timers, timers[i] # FreeTimer
  PROVE  timers[i] \in TimerRecords /\ timers[i].key \in TimedKeys
                                    /\ timers[i].step \in {"set", "polling"}
BY DEF PollingTypeOK, TimerRecords

LEMMA FreeIsNone == \A t \in TimerRecords : t # FreeTimer
BY DEF TimerRecords, FreeTimer

\* The first half of PolledWhileAsked, of one key.
TimedAsAsked(k) ==
  /\ (pollingTokenSets[k] # {}) = (intervalIds[k] # NoTimer)
  /\ intervalIds[k] # NoTimer =>
       timers[intervalIds[k]] # FreeTimer /\ timers[intervalIds[k]].key = k
  /\ \A i \in Timers :
       timers[i] = [step |-> "set", key |-> k] => intervalIds[k] = i

LEMMA AskedSplits ==
  PolledWhileAsked <=>
    /\ \A k \in TimedKeys : TimedAsAsked(k)
    /\ \A k \in BlockKeys \ bereft :
         activeListeners[k] = IF pollingTokenSets[k] # {} THEN blockClient[k] ELSE NoClient
BY DEF PolledWhileAsked, TimedAsAsked

LEMMA InitialPolls == PollingAssumption /\ PollingInit => PollsInv
<1> SUFFICES ASSUME PollingAssumption, PollingInit PROVE PollsInv OBVIOUS
<1>1. PollingTypeOK BY DEF PollingAssumption, PollingInit, PollingTypeOK, PollingKeys
<1>2. \A k \in TimedKeys : TimedAsAsked(k)
  BY DEF PollingAssumption, PollingInit, TimedAsAsked, PollingKeys, FreeTimer
<1>3. GoneIsBereft BY DEF PollingAssumption, PollingInit, GoneIsBereft
<1>4. \A k \in BlockKeys : activeListeners[k] = NoClient /\ pollingTokenSets[k] = {}
  BY DEF PollingInit, PollingKeys
<1> QED BY <1>1, <1>2, <1>3, <1>4, AskedSplits DEF PollsInv

LEMMA PollStepTypes ==
  ASSUME PollingAssumption, pollStep, PollingTypeOK
  PROVE  pollSteps' \in 0..MaxPollSteps
BY DEF PollingAssumption, pollStep, PollingTypeOK

LEMMA StartsPolling ==
  ASSUME PollingAssumption, PollsInv, NEW k \in PollingKeys, NEW h \in Holders,
         startPollingByNetworkClientId(k, h)
  PROVE  PollsInv'
<1>1. /\ pollingTokenSets' = [pollingTokenSets EXCEPT ![k] = @ \cup {h}] /\ pollStep
      /\ UNCHANGED <<blockClient, bereft>>
      /\ PollingTypeOK BY DEF startPollingByNetworkClientId, clientVars, PollsInv
<1>2. /\ pollingTokenSets' \in [PollingKeys -> SUBSET Holders] /\ pollSteps' \in 0..MaxPollSteps
      /\ \A l \in PollingKeys : pollingTokenSets'[l] = IF l = k THEN pollingTokenSets[k] \cup {h}
                                                 ELSE pollingTokenSets[l]
  BY <1>1, PollStepTypes DEF PollingTypeOK
<1>3. /\ \A l \in TimedKeys : TimedAsAsked(l)
      /\ \A l \in BlockKeys \ bereft :
           activeListeners[l] = IF pollingTokenSets[l] # {} THEN blockClient[l] ELSE NoClient
  BY AskedSplits DEF PollsInv
<1>4. GoneIsBereft' BY <1>1 DEF PollsInv, GoneIsBereft
<1>5. CASE pollingTokenSets[k] # {} /\ UNCHANGED <<timedVars, activeListeners, lost>>
  BY <1>5, <1>1, <1>2, <1>3, <1>4, AskedSplits DEF timedVars, PollingTypeOK, TimedAsAsked, PollingKeys,
     PollsInv, PolledWhileAsked
<1>6. CASE pollingTokenSets[k] = {} /\ k \in TimedKeys /\ startsTimer(k)
           /\ UNCHANGED <<activeListeners, lost>>
  <2>1. PICK i \in freeTimers :
          /\ intervalIds' = [intervalIds EXCEPT ![k] = i]
          /\ timers' = [timers EXCEPT ![i] = [step |-> "set", key |-> k]] BY <1>6 DEF startsTimer
  <2>2. i \in Timers /\ timers[i] = FreeTimer /\ \A l \in TimedKeys : intervalIds[l] # i
    BY DEF freeTimers
  <2>3. PICK t \in TimerRecords : t = [step |-> "set", key |-> k] /\ t.key = k /\ t # FreeTimer
    <3>1. [step |-> "set", key |-> k] \in TimerRecords BY <1>6 DEF TimerRecords
    <3> QED BY <3>1, FreeIsNone
  <2>4. timers' = [timers EXCEPT ![i] = t] BY <2>1, <2>3
  <2>5. intervalIds' \in [TimedKeys -> Timers \cup {NoTimer}] BY <1>1, <2>1, <2>2 DEF PollingTypeOK
  <2>6. timers' \in [Timers -> {FreeTimer} \cup TimerRecords]
    BY <1>1, <2>2, <2>4 DEF PollingTypeOK, TimerRecords
  <2>7. PollingTypeOK' BY <1>1, <1>2, <1>6, <2>5, <2>6 DEF PollingTypeOK, TimerRecords
  <2>8. /\ \A l \in TimedKeys : intervalIds'[l] = IF l = k THEN i ELSE intervalIds[l]
        /\ \A j \in Timers : timers'[j] = IF j = i THEN t ELSE timers[j]
        /\ \A l \in TimedKeys : intervalIds[l] \in Timers \cup {NoTimer}
    BY <1>1, <2>1, <2>2, <2>4 DEF PollingTypeOK
  <2>9. intervalIds[k] = NoTimer /\ i # NoTimer
    BY <1>3, <1>6, <2>2 DEF TimedAsAsked, PollingAssumption
  <2>10. TimedAsAsked(k)'
    BY <1>3, <1>6, <2>8, <2>9, <1>2, <2>2, <2>3 DEF TimedAsAsked, PollingAssumption
  <2>11. \A l \in TimedKeys : l # k => TimedAsAsked(l)'
    <3> SUFFICES ASSUME NEW l \in TimedKeys, l # k PROVE TimedAsAsked(l)' OBVIOUS
    <3>1. pollingTokenSets'[l] = pollingTokenSets[l] /\ intervalIds'[l] = intervalIds[l]
      BY <1>2, <2>8 DEF PollingKeys
    <3>2. intervalIds[l] # NoTimer => timers'[intervalIds[l]] = timers[intervalIds[l]] BY <2>2, <2>8
    <3>3. \A j \in Timers : timers'[j] = [step |-> "set", key |-> l] =>
                              timers[j] = [step |-> "set", key |-> l] BY <2>3, <2>8
    <3> QED BY <1>3, <3>1, <3>2, <3>3 DEF TimedAsAsked
  <2>12. \A l \in (BlockKeys \ bereft)' :
           (activeListeners[l] = IF pollingTokenSets[l] # {} THEN blockClient[l] ELSE NoClient)'
    BY <1>1, <1>2, <1>3, <1>6 DEF PollingKeys, PollingAssumption
  <2> QED
    BY <1>4, <2>7, <2>10, <2>11, <2>12, AskedSplits DEF PollsInv, PolledWhileAsked, TimedAsAsked
<1>7. CASE pollingTokenSets[k] = {} /\ k \in BlockKeys /\ startsListening(k, h)
           /\ UNCHANGED timedVars
  <2>1. /\ UNCHANGED <<intervalIds, timers>>
        /\ activeListeners' = IF activeListeners[k] = NoClient
                              THEN [activeListeners EXCEPT ![k] = blockClient[k]]
                              ELSE activeListeners
        /\ lost' \in SUBSET (BlockKeys \X Holders)
    BY <1>1, <1>7 DEF timedVars, startsListening, PollingTypeOK
  <2>2. activeListeners' \in [BlockKeys -> (1..MaxClients) \cup {NoClient}]
    BY <1>1, <1>7, <2>1 DEF PollingTypeOK
  <2>3. PollingTypeOK' BY <1>1, <1>2, <2>1, <2>2 DEF PollingTypeOK
  <2>4. \A l \in TimedKeys : TimedAsAsked(l)'
    BY <1>2, <1>3, <1>7, <2>1 DEF TimedAsAsked, PollingKeys, PollingAssumption
  <2>5. \A l \in BlockKeys \ bereft :
          activeListeners'[l] = IF pollingTokenSets'[l] # {} THEN blockClient[l] ELSE NoClient
    <3> TAKE l \in BlockKeys \ bereft
    <3>1. CASE l = k BY <1>1, <1>2, <1>3, <1>7, <2>1, <3>1 DEF PollingTypeOK
    <3>2. CASE l # k BY <1>1, <1>2, <1>3, <2>1, <3>2 DEF PollingTypeOK, PollingKeys
    <3> QED BY <3>1, <3>2
  <2> QED BY <1>1, <1>4, <2>3, <2>4, <2>5, AskedSplits DEF PollsInv, PolledWhileAsked, TimedAsAsked
<1> QED BY <1>5, <1>6, <1>7 DEF startPollingByNetworkClientId

LEMMA StopsPolling ==
  ASSUME PollingAssumption, PollsInv, NEW k \in PollingKeys, NEW h \in Holders,
         stopPollingByPollingToken(k, h)
  PROVE  PollsInv'
<1>1. /\ h \in pollingTokenSets[k]
      /\ pollingTokenSets' = [pollingTokenSets EXCEPT ![k] = @ \ {h}]
      /\ UNCHANGED <<blockClient, bereft, lost, pollSteps>>
      /\ PollingTypeOK BY DEF stopPollingByPollingToken, clientVars, PollsInv
<1>2. /\ pollingTokenSets' \in [PollingKeys -> SUBSET Holders]
      /\ \A l \in PollingKeys : pollingTokenSets'[l] = IF l = k THEN pollingTokenSets[k] \ {h}
                                                 ELSE pollingTokenSets[l] BY <1>1 DEF PollingTypeOK
<1>3. /\ \A l \in TimedKeys : TimedAsAsked(l)
      /\ \A l \in BlockKeys \ bereft :
           activeListeners[l] = IF pollingTokenSets[l] # {} THEN blockClient[l] ELSE NoClient
  BY AskedSplits DEF PollsInv
<1>4. GoneIsBereft' BY <1>1 DEF PollsInv, GoneIsBereft
<1>5. CASE pollingTokenSets[k] # {h} /\ UNCHANGED <<timedVars, activeListeners>>
  BY <1>5, <1>1, <1>2, <1>3, <1>4, AskedSplits DEF timedVars, PollingTypeOK, TimedAsAsked, PollingKeys,
     PollsInv, PolledWhileAsked
<1>6. CASE pollingTokenSets[k] = {h} /\ k \in TimedKeys /\ stopsTimer(k) /\ UNCHANGED activeListeners
  <2>1. PICK i \in Timers : i = intervalIds[k] /\ timers[i] # FreeTimer /\ timers[i].key = k
    BY <1>1, <1>3, <1>6 DEF TimedAsAsked, PollingTypeOK
  <2>2. /\ intervalIds' = [intervalIds EXCEPT ![k] = NoTimer]
        /\ timers' = IF timers[i].step = "set" THEN [timers EXCEPT ![i] = FreeTimer] ELSE timers
    BY <1>6, <2>1 DEF stopsTimer
  <2>3. /\ intervalIds' \in [TimedKeys -> Timers \cup {NoTimer}]
        /\ \A l \in TimedKeys : intervalIds'[l] = IF l = k THEN NoTimer ELSE intervalIds[l]
    BY <1>1, <1>6, <2>2 DEF PollingTypeOK
  <2>4. /\ timers' \in [Timers -> {FreeTimer} \cup TimerRecords]
        /\ \A j \in Timers : timers'[j] = IF j = i /\ timers[i].step = "set" THEN FreeTimer
                                          ELSE timers[j]
    BY <1>1, <2>2 DEF PollingTypeOK, TimerRecords
  <2>5. PollingTypeOK' BY <1>1, <1>2, <1>6, <2>3, <2>4 DEF PollingTypeOK, TimerRecords
  <2>6. TimedAsAsked(k)' BY <1>2, <1>6, <2>3, <2>4, <1>3, <2>1 DEF FreeTimer, TimedAsAsked
  <2>7. ASSUME NEW l \in TimedKeys, l # k PROVE TimedAsAsked(l)'
    BY <1>2, <2>3, <2>7, <1>1, <1>3, <2>1, <2>4 DEF PollingKeys, TimedAsAsked, PollingTypeOK, FreeTimer
  <2>8. \A l \in (BlockKeys \ bereft)' :
          (activeListeners[l] = IF pollingTokenSets[l] # {} THEN blockClient[l] ELSE NoClient)'
    BY <1>1, <1>2, <1>3, <1>6 DEF PollingKeys, PollingAssumption
  <2> QED BY <1>4, <2>5, <2>6, <2>7, <2>8, AskedSplits DEF PollsInv, PolledWhileAsked, TimedAsAsked
<1>7. CASE pollingTokenSets[k] = {h} /\ k \in BlockKeys /\ stopsListening(k) /\ UNCHANGED timedVars
  <2>1. /\ UNCHANGED <<intervalIds, timers>>
        /\ activeListeners' = IF blockClient[k] = NoClient THEN activeListeners
                              ELSE [activeListeners EXCEPT ![k] = NoClient]
    BY <1>7 DEF timedVars, stopsListening
  <2>2. activeListeners' \in [BlockKeys -> (1..MaxClients) \cup {NoClient}]
    BY <1>1, <1>7, <2>1 DEF PollingTypeOK
  <2>3. PollingTypeOK' BY <1>1, <1>2, <2>1, <2>2 DEF PollingTypeOK
  <2>4. \A l \in TimedKeys : TimedAsAsked(l)'
    BY <1>2, <1>3, <1>7, <2>1 DEF TimedAsAsked, PollingKeys, PollingAssumption
  <2>5. \A l \in BlockKeys \ bereft :
          activeListeners'[l] = IF pollingTokenSets'[l] # {} THEN blockClient[l] ELSE NoClient
    <3> TAKE l \in BlockKeys \ bereft
    <3>1. CASE l = k BY <1>1, <1>2, <1>3, <1>7, <2>1, <3>1 DEF PollingTypeOK
    <3>2. CASE l # k BY <1>1, <1>2, <1>3, <2>1, <3>2 DEF PollingTypeOK, PollingKeys
    <3> QED BY <3>1, <3>2
  <2> QED BY <1>1, <1>4, <2>3, <2>4, <2>5, AskedSplits DEF PollsInv, PolledWhileAsked, TimedAsAsked
<1> QED BY <1>5, <1>6, <1>7 DEF stopPollingByPollingToken

LEMMA TimerMoves ==
  ASSUME PollingAssumption, PollsInv, NEW i \in Timers, NEW t \in TimerRecords \cup {FreeTimer},
         timers[i] # FreeTimer, timers' = [timers EXCEPT ![i] = t],
         UNCHANGED <<pollingTokenSets, intervalIds, blockVars, pollSteps>>,
         t = FreeTimer => intervalIds[timers[i].key] # i,
         t # FreeTimer => t.key = timers[i].key
                          /\ (t.step = "set" => intervalIds[timers[i].key] = i)
  PROVE  PollsInv'
<1>1. /\ PollingTypeOK /\ timers[i].key \in TimedKeys
      /\ UNCHANGED <<pollingTokenSets, intervalIds, activeListeners, blockClient, bereft, lost, pollSteps>>
  BY TimersAre DEF PollsInv, blockVars, clientVars
<1>2. /\ timers' \in [Timers -> {FreeTimer} \cup TimerRecords]
      /\ \A j \in Timers : timers'[j] = IF j = i THEN t ELSE timers[j]
  BY <1>1 DEF PollingTypeOK, TimerRecords
<1>3. PollingTypeOK' BY <1>1, <1>2 DEF PollingTypeOK, TimerRecords
<1>4. \A l \in TimedKeys : TimedAsAsked(l) BY AskedSplits DEF PollsInv
<1>5. ASSUME NEW l \in TimedKeys PROVE TimedAsAsked(l)'
  <2>1. intervalIds[l] = i => l = timers[i].key /\ t # FreeTimer
    <3>1. i # NoTimer /\ TimedAsAsked(l) BY <1>4 DEF PollingAssumption
    <3>2. intervalIds[l] = i => timers[i].key = l BY <3>1 DEF TimedAsAsked
    <3> QED BY <3>2
  <2>2. intervalIds[l] # NoTimer => intervalIds[l] \in Timers BY <1>1 DEF PollingTypeOK
  <2>3. intervalIds'[l] # NoTimer =>
          timers'[intervalIds'[l]] # FreeTimer /\ timers'[intervalIds'[l]].key = l
    BY <1>1, <1>2, <1>4, <2>1, <2>2 DEF TimedAsAsked
  <2>4. ASSUME NEW j \in Timers, timers'[j] = [step |-> "set", key |-> l]
        PROVE  intervalIds'[l] = j BY <1>2, <2>4, <1>1, <1>4 DEF FreeTimer, TimedAsAsked
  <2> QED BY <1>1, <1>4, <2>3, <2>4 DEF TimedAsAsked
<1>6. \A l \in (BlockKeys \ bereft)' :
        (activeListeners[l] = IF pollingTokenSets[l] # {} THEN blockClient[l] ELSE NoClient)'
  BY <1>1, AskedSplits DEF PollsInv
<1>7. GoneIsBereft' BY <1>1 DEF PollsInv, GoneIsBereft
<1> QED BY <1>3, <1>5, <1>6, <1>7, AskedSplits DEF PollsInv, PolledWhileAsked, TimedAsAsked

LEMMA TimerFires == ASSUME PollingAssumption, PollsInv, NEW i \in Timers, timerFires(i) PROVE PollsInv'
<1>1. PICK r \in TimerRecords : r = timers[i] BY TimersAre DEF timerFires, PollsInv
<1>2. timers' = [timers EXCEPT ![i] = [r EXCEPT !.step = "polling"]] BY <1>1 DEF timerFires
<1>3. PICK t \in TimerRecords : /\ t = [r EXCEPT !.step = "polling"]
                                /\ t.key = r.key /\ t.step = "polling" /\ t # FreeTimer
  <2>1. [r EXCEPT !.step = "polling"] \in TimerRecords BY DEF TimerRecords
  <2>2. [r EXCEPT !.step = "polling"].key = r.key /\ [r EXCEPT !.step = "polling"].step = "polling"
    BY DEF TimerRecords
  <2> QED BY <2>1, <2>2, FreeIsNone
<1>4. timers' = [timers EXCEPT ![i] = t] /\ t \in TimerRecords \cup {FreeTimer} /\ t.step # "set"
  BY <1>2, <1>3
<1>5. timers[i] # FreeTimer /\ UNCHANGED <<pollingTokenSets, intervalIds, blockVars, pollSteps>>
  BY DEF timerFires
<1> QED BY <1>1, <1>3, <1>4, <1>5, TimerMoves

LEMMA PollEnds == ASSUME PollingAssumption, PollsInv, NEW i \in Timers, pollEnds(i) PROVE PollsInv'
<1>1. PICK r \in TimerRecords : r = timers[i] BY TimersAre DEF pollEnds, PollsInv
<1>2. timers' = [timers EXCEPT ![i] = IF intervalIds[r.key] = i THEN [r EXCEPT !.step = "set"]
                                      ELSE FreeTimer] BY <1>1 DEF pollEnds
<1>3. PICK t \in TimerRecords : /\ t = [r EXCEPT !.step = "set"]
                                /\ t.key = r.key /\ t.step = "set" /\ t # FreeTimer
  <2>1. [r EXCEPT !.step = "set"] \in TimerRecords BY DEF TimerRecords
  <2>2. [r EXCEPT !.step = "set"].key = r.key /\ [r EXCEPT !.step = "set"].step = "set"
    BY DEF TimerRecords
  <2> QED BY <2>1, <2>2, FreeIsNone
<1>4. timers[i] # FreeTimer /\ UNCHANGED <<pollingTokenSets, intervalIds, blockVars, pollSteps>>
  BY DEF pollEnds
<1>5. CASE intervalIds[r.key] = i BY <1>2, <1>3, <1>5, <1>1, <1>4, TimerMoves
<1>6. CASE intervalIds[r.key] # i BY <1>2, <1>6, <1>1, <1>4, TimerMoves
<1> QED BY <1>5, <1>6

LEMMA ClientRemoved ==
  ASSUME PollingAssumption, PollsInv, NEW k \in BlockKeys, clientRemoved(k) PROVE PollsInv'
BY PollStepTypes DEF clientRemoved, timedVars, PollsInv, PollingTypeOK, GoneIsBereft, PolledWhileAsked

LEMMA ClientSetUp ==
  ASSUME PollingAssumption, PollsInv, NEW k \in BlockKeys, clientSetUp(k) PROVE PollsInv'
BY DEF clientSetUp, timedVars, PollsInv, PollingAssumption, PollingTypeOK, GoneIsBereft, PolledWhileAsked

LEMMA PollsStep == ASSUME PollingAssumption, PollsInv, PollingNext PROVE PollsInv'
BY StartsPolling, StopsPolling, TimerFires, PollEnds, ClientRemoved, ClientSetUp DEF PollingNext

LEMMA PollsIdle == ASSUME PollsInv, UNCHANGED pollingVars PROVE PollsInv'
BY DEF pollingVars, timedVars, blockVars, clientVars, PollsInv, PollingTypeOK, PolledWhileAsked, GoneIsBereft

-----------------------------------------------------------------------------

(***************************************************************************)
(* Rates.  While a fetch has the mutex of CurrencyRateController the       *)
(* currency is not set, so that what the fetch has found before it asked   *)
(* is still in the current currency when it writes the state as a whole.   *)
(***************************************************************************)
KnownRates == Currencies \cup {None, Zero, "null"}
RateFetchRecords == [native : Natives, currency : Currencies, found : [Natives -> KnownRates]]
Jobs_ == [set : Currencies] \cup [update : Natives]

FetchIsCurrent ==
  rateFetch # NoFetch =>
    /\ rateFetch \in RateFetchRecords
    /\ rateFetch.currency = currentCurrency
    /\ \A n \in Natives : rateFetch.found[n] \in {None, Zero, "null", currentCurrency}

RatesInv == RatesTypeOK /\ RatesAreInCurrency /\ FetchIsCurrent

LEMMA InitialRates == RatesAssumption /\ RatesInit => RatesInv
<1> SUFFICES ASSUME RatesAssumption, RatesInit PROVE RatesInv OBVIOUS
<1>1. /\ currentCurrency \in Currencies /\ priceChain \in PriceChains
      /\ fiatCurrency = currentCurrency BY DEF RatesAssumption, RatesInit
<1>2. currencyRates = [n \in Natives |-> IF n = DefaultNative THEN Zero ELSE None] BY DEF RatesInit
<1>3. currencyRates \in [Natives -> KnownRates] BY <1>2 DEF KnownRates
<1>4. marketData = NoPrices /\ jobs = <<>> /\ rateSteps \in 0..MaxRateSteps
  BY DEF RatesAssumption, RatesInit
<1>5. /\ callbacks \in [RateFetches -> Currencies \cup {None}]
      /\ priceTokens \in [PriceChains -> 0..1]
      /\ inProcess \in [PriceChains -> {NoPrices} \cup 0..1]
      /\ priceState \in [active : BOOLEAN, disabled : BOOLEAN]
      /\ loops \in [PriceLoops -> {None, "timer"} \cup PriceChains]
      /\ priceHandle \in PriceLoops \cup {NoLoop} /\ rates \in Currencies \cup {Zero}
  BY DEF RatesInit
<1>6. RatesTypeOK BY <1>1, <1>3, <1>4, <1>5 DEF RatesTypeOK, KnownRates
<1>7. RatesAreInCurrency BY <1>2 DEF RatesAreInCurrency
<1>8. FetchIsCurrent BY DEF RatesInit, FetchIsCurrent
<1> QED BY <1>6, <1>7, <1>8 DEF RatesInv

LEMMA RateStepTypes ==
  ASSUME RatesAssumption, rateStep, RatesTypeOK
  PROVE  rateSteps' \in 0..MaxRateSteps
BY DEF RatesAssumption, RatesTypeOK, rateStep

\* Steps that leave CurrencyRateController alone.
LEMMA CurrencyLeft ==
  ASSUME RatesInv, UNCHANGED currencyVars, RatesTypeOK'
  PROVE  RatesInv'
BY DEF RatesInv, RatesAreInCurrency, FetchIsCurrent, currencyVars

LEMMA RateAsked ==
  ASSUME RatesAssumption, RatesInv, NEW job \in Jobs_, rateAsked(job) PROVE RatesInv'
BY RateStepTypes DEF rateAsked, RatesInv, RatesTypeOK, Jobs_, ratesVars, priceVars, RatesAreInCurrency,
   FetchIsCurrent

LEMMA FirstJob ==
  ASSUME RatesTypeOK, jobs # <<>>
  PROVE  /\ jobs \in Seq(Jobs_) /\ Head(jobs) \in Jobs_ /\ Tail(jobs) \in Seq(Jobs_)
         /\ isSetting(Head(jobs)) => Head(jobs).set \in Currencies
         /\ ~isSetting(Head(jobs)) => Head(jobs).update \in Natives
BY DEF RatesTypeOK, Jobs_, isSetting

LEMMA SequenceOfSet ==
  ASSUME NEW S, IsFiniteSet(S)
  PROVE  /\ SetToSeq(S) \in Seq(S)
         /\ \A i \in DOMAIN SetToSeq(S) : SetToSeq(S)[i] \in S
<1>1. Cardinality(S) \in Nat /\ ExistsBijection(1..Cardinality(S), S) BY FS_CardinalityType
<1>2. \E f \in [1..Cardinality(S) -> S] : IsInjective(f)
  BY <1>1 DEF ExistsBijection, Bijection, Injection, IsInjective
<1>3. SetToSeq(S) \in [1..Cardinality(S) -> S] BY <1>2 DEF SetToSeq
<1> QED BY <1>1, <1>3

LEMMA CurrencySet == ASSUME RatesAssumption, RatesInv, currencySet PROVE RatesInv'
<1> DEFINE known == SetToSeq({n \in Natives : currencyRates[n] # None})
           refetched == [i \in 1..Len(known) |-> [update |-> known[i]]]
<1>1. /\ jobs # <<>> /\ isSetting(Head(jobs)) /\ rateFetch = NoFetch
      /\ currentCurrency' = Head(jobs).set
      /\ currencyRates' = [n \in Natives |-> IF n = DefaultNative THEN Zero ELSE None]
      /\ jobs' = Tail(jobs) \o refetched
      /\ UNCHANGED <<rateFetch, ratesVars, priceVars, rateSteps>>
      /\ RatesTypeOK BY DEF currencySet, mayBegin, RatesInv
<1>2. IsFiniteSet({n \in Natives : currencyRates[n] # None}) BY FS_Subset DEF RatesAssumption
<1>3. PICK k \in Seq(Natives) : k = known /\ \A i \in 1..Len(k) : k[i] \in Natives
  <2>1. known \in Seq(Natives) BY <1>2, SequenceOfSet
  <2> HIDE DEF known
  <2> QED BY <2>1
<1>4. refetched \in Seq(Jobs_)
  <2>1. \A i \in 1..Len(k) : [update |-> k[i]] \in Jobs_ BY <1>3 DEF Jobs_
  <2>2. [i \in 1..Len(k) |-> [update |-> k[i]]] \in Seq(Jobs_) BY <2>1
  <2> HIDE DEF known
  <2> QED BY <1>3, <2>2
<1> HIDE DEF refetched, known
<1>5. jobs' \in Seq(Jobs_) BY <1>1, <1>4, FirstJob
<1>6. currentCurrency' \in Currencies BY <1>1, FirstJob
<1>7. currencyRates' \in [Natives -> Currencies \cup {None, Zero, "null"}] BY <1>1
<1>8. RatesTypeOK' BY <1>1, <1>5, <1>6, <1>7 DEF RatesTypeOK, Jobs_, ratesVars, priceVars
<1>9. RatesAreInCurrency' BY <1>1 DEF RatesAreInCurrency
<1> QED BY <1>1, <1>8, <1>9 DEF RatesInv, FetchIsCurrent

LEMMA RateFetched == ASSUME RatesInv, rateFetched PROVE RatesInv'
BY FirstJob DEF rateFetched, RatesInv, RatesTypeOK, Jobs_, ratesVars, priceVars, RatesAreInCurrency,
   KnownRates, RateFetchRecords, FetchIsCurrent

LEMMA RateAnswered ==
  ASSUME RatesInv, NEW found \in BOOLEAN, rateAnswered(found) PROVE RatesInv'
BY DEF rateAnswered, RatesInv, FetchIsCurrent, RateFetchRecords, KnownRates, RatesTypeOK, ratesVars,
   priceVars, RatesAreInCurrency

LEMMA CurrencySteps ==
  ASSUME RatesAssumption, RatesInv, currencySteps PROVE RatesInv'
BY RateAsked, CurrencySet, RateFetched, RateAnswered DEF Jobs_, setCurrentCurrency, updateExchangeRate,
   currencySteps

-----------------------------------------------------------------------------

(* RatesController and TokenRatesController leave the other one, and the currency, alone. *)

LEMMA RatesMove ==
  ASSUME RatesTypeOK, UNCHANGED <<currencyVars, priceVars>>,
         fiatCurrency' \in Currencies, rates' \in Currencies \cup {Zero},
         callbacks' \in [RateFetches -> Currencies \cup {None}],
         rateSteps' \in 0..MaxRateSteps
  PROVE  RatesTypeOK'
BY DEF RatesTypeOK, currencyVars, priceVars

LEMMA CallbacksTyped ==
  ASSUME RatesTypeOK, NEW currency \in Currencies, updatesRates(currency)
  PROVE  callbacks' \in [RateFetches -> Currencies \cup {None}]
BY DEF RatesTypeOK, updatesRates

LEMMA RatesSteps ==
  ASSUME RatesAssumption, RatesInv, ratesSteps PROVE RatesInv'
BY CallbacksTyped, RateStepTypes, RatesMove, CurrencyLeft DEF RatesInv, RatesTypeOK, setFiatCurrency,
   ratesPolled, updatesRates, ratesStartedOrStopped, ratesAnswered, ratesSteps

LEMMA PricesMove ==
  ASSUME RatesAssumption, RatesInv, UNCHANGED <<currencyVars, ratesVars>>,
         rateStep \/ UNCHANGED rateSteps,
         priceChain' \in PriceChains, priceTokens' \in [PriceChains -> 0..1],
         marketData' \in {NoPrices} \cup [chain : PriceChains, tokens : 0..1],
         inProcess' \in [PriceChains -> {NoPrices} \cup 0..1],
         priceState' \in [active : BOOLEAN, disabled : BOOLEAN],
         loops' \in [PriceLoops -> {None, "timer"} \cup PriceChains],
         priceHandle' \in PriceLoops \cup {NoLoop}
  PROVE  RatesInv'
BY RateStepTypes, CurrencyLeft DEF RatesInv, RatesTypeOK, currencyVars, ratesVars

LEMMA PricesAsked ==
  ASSUME inProcess \in [PriceChains -> {NoPrices} \cup 0..1],
         NEW chain \in PriceChains, NEW P \in [PriceChains -> 0..1], pricesAsked(chain, P)
  PROVE  inProcess' \in [PriceChains -> {NoPrices} \cup 0..1]
BY DEF pricesAsked

\* What state TokenRatesController is in, and what its loops become.
LoopStates == [PriceLoops -> {None, "timer"} \cup PriceChains]

LEMMA Polls ==
  ASSUME inProcess \in [PriceChains -> {NoPrices} \cup 0..1], priceChain \in PriceChains,
         priceTokens \in [PriceChains -> 0..1], priceHandle \in PriceLoops \cup {NoLoop},
         NEW l \in PriceLoops, NEW freed \in LoopStates, polls(l, freed)
  PROVE  /\ inProcess' \in [PriceChains -> {NoPrices} \cup 0..1]
         /\ loops' \in LoopStates /\ priceHandle' \in PriceLoops \cup {NoLoop}
BY PricesAsked DEF polls, LoopStates

LEMMA PriceSteps ==
  ASSUME RatesAssumption, RatesInv, priceSteps PROVE RatesInv'
<1>1. /\ priceChain \in PriceChains /\ priceTokens \in [PriceChains -> 0..1]
      /\ marketData \in {NoPrices} \cup [chain : PriceChains, tokens : 0..1]
      /\ inProcess \in [PriceChains -> {NoPrices} \cup 0..1]
      /\ priceState \in [active : BOOLEAN, disabled : BOOLEAN]
      /\ loops \in LoopStates /\ priceHandle \in PriceLoops \cup {NoLoop}
      /\ withoutHandle \in LoopStates BY DEF RatesInv, RatesTypeOK, LoopStates, withoutHandle
<1>2. ASSUME startPrices PROVE RatesInv'
  BY <1>2, <1>1, Polls, PricesMove DEF startPrices, LoopStates
<1>3. ASSUME stopPrices PROVE RatesInv' BY <1>3, <1>1, PricesMove DEF stopPrices, LoopStates
<1>4. ASSUME disablePrices PROVE RatesInv' BY <1>4, <1>1, PricesMove DEF disablePrices, LoopStates
<1>5. ASSUME NEW l \in PriceLoops, priceTimerFires(l) PROVE RatesInv'
  BY <1>5, <1>1, Polls, PricesMove DEF priceTimerFires, LoopStates
<1>6. ASSUME NEW chain \in PriceChains, tokensDidChange(chain) PROVE RatesInv'
  <2> DEFINE P == [priceTokens EXCEPT ![chain] = 1 - @]
  <2>1. /\ rateStep /\ priceTokens' = P /\ (pricesAsked(chain, P) \/ UNCHANGED inProcess)
        /\ UNCHANGED <<currencyVars, ratesVars, priceChain, marketData, priceState, loops,
                       priceHandle>> BY <1>6 DEF tokensDidChange
  <2>2. P \in [PriceChains -> 0..1] BY <1>1
  <2> HIDE DEF P
  <2>3. inProcess' \in [PriceChains -> {NoPrices} \cup 0..1] BY <1>1, <2>1, <2>2, PricesAsked
  <2>4. priceTokens' \in [PriceChains -> 0..1] /\ rateStep BY <1>6, <2>2 DEF tokensDidChange, P
  <2>5. UNCHANGED <<currencyVars, ratesVars, priceChain, marketData, priceState, loops, priceHandle>>
    BY <1>6 DEF tokensDidChange
  <2> QED BY <1>1, <2>3, <2>4, <2>5, PricesMove DEF LoopStates
<1>7. ASSUME NEW chain \in PriceChains, priceNetworkDidChange(chain) PROVE RatesInv'
  BY <1>7, <1>1, PricesAsked, PricesMove DEF priceNetworkDidChange, LoopStates
<1>8. ASSUME NEW chain \in PriceChains, networkPricesPolled(chain) PROVE RatesInv'
  BY <1>8, <1>1, PricesAsked, PricesMove DEF networkPricesPolled, LoopStates
<1>9. ASSUME NEW chain \in PriceChains, NEW found \in BOOLEAN, pricesAnswered(chain, found)
      PROVE  RatesInv'
  <2> DEFINE told == {l \in PriceLoops : loops[l] = chain}
  <2>1. /\ inProcess[chain] # NoPrices
        /\ inProcess' = [inProcess EXCEPT ![chain] = NoPrices]
        /\ marketData' = IF found THEN [chain |-> chain, tokens |-> inProcess[chain]]
                         ELSE marketData
        /\ loops' = toldOf(chain)
        /\ UNCHANGED priceHandle \/ priceHandle' \in told
        /\ UNCHANGED <<currencyVars, ratesVars, priceChain, priceTokens, priceState, rateSteps>>
    BY <1>9 DEF pricesAnswered
  <2>2. /\ inProcess' \in [PriceChains -> {NoPrices} \cup 0..1]
        /\ inProcess[chain] \in 0..1 BY <1>1, <2>1
  <2>3. marketData' \in {NoPrices} \cup [chain : PriceChains, tokens : 0..1] BY <1>1, <2>1, <2>2
  <2>4. loops' \in LoopStates BY <1>1, <2>1 DEF toldOf, LoopStates
  <2>5. priceHandle' \in PriceLoops \cup {NoLoop} BY <1>1, <2>1
  <2> QED BY <1>1, <2>1, <2>2, <2>3, <2>4, <2>5, PricesMove DEF LoopStates
<1> QED BY <1>2, <1>3, <1>4, <1>5, <1>6, <1>7, <1>8, <1>9 DEF priceSteps

LEMMA RatesIdle == ASSUME RatesInv, UNCHANGED exchangeVars PROVE RatesInv'
BY CurrencyLeft DEF exchangeVars, RatesInv, RatesTypeOK, currencyVars, ratesVars, priceVars

-----------------------------------------------------------------------------

(***************************************************************************)
(* Balances.  The calls of refresh that are not free are those in line for *)
(* the mutex, each once, and the one that reads is the first: so what it   *)
(* takes out of the line, when its answer comes, is itself.                *)
(***************************************************************************)
WaitingCalls ==
  [step : {"waiting"}, user : Users, client : Networks \cup {NoBalance}, poll : BOOLEAN]
ReadingCalls ==
  [step : {"reading"}, network : Networks, found : Balances, poll : BOOLEAN, asked : SUBSET Users]

InLine(r) == \E i \in DOMAIN refreshMutex : refreshMutex[i] = r

RefreshesInTurn ==
  /\ refreshCall \in [Refreshes -> {FreeCall} \cup WaitingCalls \cup ReadingCalls]
  /\ \A r \in Refreshes : refreshCall[r] # FreeCall <=> InLine(r)
  /\ \A i, j \in DOMAIN refreshMutex : refreshMutex[i] = refreshMutex[j] => i = j
  /\ \A r \in Refreshes : refreshCall[r] \in ReadingCalls =>
       refreshMutex # <<>> /\ refreshMutex[1] = r

BalancesInv == BalancesTypeOK /\ RefreshesInTurn /\ multiAccount \in BOOLEAN /\ refreshTimer \in BOOLEAN

LEMMA CallsAre ==
  /\ \A c \in WaitingCalls : c # FreeCall /\ c \notin ReadingCalls /\ c.step = "waiting"
  /\ \A c \in ReadingCalls : c # FreeCall /\ c.step = "reading"
  /\ FreeCall \notin ReadingCalls /\ FreeCall.step = "free"
BY DEF WaitingCalls, ReadingCalls, FreeCall

LEMMA InitialBalances == TrackerAssumption /\ BalancesInit => BalancesInv
<1> SUFFICES ASSUME TrackerAssumption, BalancesInit PROVE BalancesInv OBVIOUS
<1>1. /\ selectedNetwork \in Networks /\ users = Users /\ selectedUser \in Users
      /\ multiAccount \in BOOLEAN /\ refreshTimer \in BOOLEAN /\ trackerSteps \in 0..MaxTrackerSteps
  <2>1. Networks # {} /\ MaxTrackerSteps \in Nat /\ MaxTrackerSteps >= 0 BY DEF TrackerAssumption
  <2>2. (CHOOSE n \in Networks : TRUE) \in Networks BY <2>1
  <2>3. selectedNetwork \in Networks BY <2>2 DEF BalancesInit
  <2>4. trackerSteps \in 0..MaxTrackerSteps BY <2>1 DEF BalancesInit
  <2> QED BY <2>3, <2>4 DEF BalancesInit
<1>2. /\ balances \in Balances
      /\ balancesByNetwork \in [Networks -> Balances \cup {NoBalances}]
  BY DEF BalancesInit, Balances
<1>3. PICK first \in Refreshes : refreshMutex = <<first>> BY DEF TrackerAssumption, BalancesInit
<1>4. /\ refreshMutex \in Seq(Refreshes) /\ Head(refreshMutex) = first
      /\ DOMAIN refreshMutex = {1} /\ refreshMutex[1] = first BY <1>3
<1>5. PICK c \in WaitingCalls :
        c = [step |-> "waiting", user |-> selectedUser, client |-> NoBalance, poll |-> TRUE]
  BY <1>1 DEF WaitingCalls
<1>6. refreshCall = [r \in Refreshes |-> IF r = first THEN c ELSE FreeCall]
  BY <1>4, <1>5 DEF BalancesInit
<1>7. c # FreeCall /\ c \notin ReadingCalls /\ FreeCall \notin ReadingCalls BY CallsAre
<1>8. RefreshesInTurn BY <1>4, <1>6, <1>7 DEF RefreshesInTurn, InLine
<1> QED BY <1>1, <1>2, <1>4, <1>8 DEF BalancesInv, BalancesTypeOK

LEMMA TrackerStepTypes ==
  ASSUME TrackerAssumption, trackerStep, BalancesTypeOK
  PROVE  trackerSteps' \in 0..MaxTrackerSteps
BY DEF TrackerAssumption, BalancesTypeOK, trackerStep

LEMMA TurnsKept ==
  ASSUME RefreshesInTurn, UNCHANGED <<refreshCall, refreshMutex>>
  PROVE  RefreshesInTurn'
BY DEF RefreshesInTurn, InLine

\* A call of refresh takes its place at the end of the line.
LEMMA Refreshing ==
  ASSUME RefreshesInTurn, refreshMutex \in Seq(Refreshes), NEW r \in Refreshes,
         NEW user \in Users, NEW client \in Networks \cup {NoBalance}, NEW poll \in BOOLEAN,
         refresh(r, user, client, poll)
  PROVE  RefreshesInTurn' /\ refreshMutex' \in Seq(Refreshes)
<1>1. PICK c \in WaitingCalls :
        c = [step |-> "waiting", user |-> user, client |-> client, poll |-> poll]
  BY DEF WaitingCalls
<1>2. /\ refreshCall[r] = FreeCall /\ refreshCall' = [refreshCall EXCEPT ![r] = c]
      /\ refreshMutex' = Append(refreshMutex, r) BY <1>1 DEF refresh
<1>3. c # FreeCall /\ c \notin ReadingCalls BY CallsAre
<1>4. /\ refreshMutex' \in Seq(Refreshes) /\ Len(refreshMutex) \in Nat
      /\ DOMAIN refreshMutex = 1..Len(refreshMutex)
      /\ DOMAIN refreshMutex' = 1..(Len(refreshMutex) + 1)
      /\ \A i \in DOMAIN refreshMutex : refreshMutex'[i] = refreshMutex[i]
      /\ refreshMutex'[Len(refreshMutex) + 1] = r BY <1>2
<1>5. /\ refreshCall' \in [Refreshes -> {FreeCall} \cup WaitingCalls \cup ReadingCalls]
      /\ \A s \in Refreshes : refreshCall'[s] = IF s = r THEN c ELSE refreshCall[s]
  BY <1>2 DEF RefreshesInTurn
<1>6. ~InLine(r) BY <1>2 DEF RefreshesInTurn
<1>7. ASSUME NEW s \in Refreshes PROVE InLine(s)' <=> InLine(s) \/ s = r BY <1>4 DEF InLine
<1>8. \A s \in Refreshes : refreshCall'[s] # FreeCall <=> InLine(s)'
  BY <1>3, <1>5, <1>7 DEF RefreshesInTurn
<1>9. \A i, j \in DOMAIN refreshMutex' : refreshMutex'[i] = refreshMutex'[j] => i = j
  <2>1. \A i \in DOMAIN refreshMutex : refreshMutex[i] # r BY <1>6 DEF InLine
  <2> SUFFICES ASSUME NEW i \in DOMAIN refreshMutex', NEW j \in DOMAIN refreshMutex',
                      refreshMutex'[i] = refreshMutex'[j]
               PROVE  i = j OBVIOUS
  <2>2. CASE i \in DOMAIN refreshMutex /\ j \in DOMAIN refreshMutex
    BY <1>4, <2>2 DEF RefreshesInTurn
  <2>3. CASE i \notin DOMAIN refreshMutex \/ j \notin DOMAIN refreshMutex BY <1>4, <2>1, <2>3
  <2> QED BY <2>2, <2>3
<1>10. \A s \in Refreshes : refreshCall'[s] \in ReadingCalls =>
         refreshMutex' # <<>> /\ refreshMutex'[1] = s
  <2> SUFFICES ASSUME NEW s \in Refreshes, refreshCall'[s] \in ReadingCalls
               PROVE  refreshMutex' # <<>> /\ refreshMutex'[1] = s OBVIOUS
  <2>1. refreshMutex # <<>> /\ refreshMutex[1] = s BY <1>3, <1>5 DEF RefreshesInTurn
  <2>2. 1 \in DOMAIN refreshMutex BY <1>4, <2>1
  <2> QED BY <1>4, <2>1, <2>2
<1> QED BY <1>4, <1>5, <1>8, <1>9, <1>10 DEF RefreshesInTurn

LEMMA UserSelected ==
  ASSUME TrackerAssumption, BalancesInv, NEW user \in Users, userSelected(user)
  PROVE  BalancesInv'
BY Refreshing, TrackerStepTypes DEF userSelected, balanceVars, BalancesInv, BalancesTypeOK

LEMMA NetworkPolled ==
  ASSUME TrackerAssumption, BalancesInv, NEW n \in Networks, networkPolled(n)
  PROVE  BalancesInv'
BY Refreshing, TrackerStepTypes DEF networkPolled, trackerSelectionVars, balanceVars, BalancesInv,
   BalancesTypeOK

LEMMA Polled == ASSUME BalancesInv, polled PROVE BalancesInv'
BY Refreshing DEF polled, trackerSelectionVars, balanceVars, BalancesInv, BalancesTypeOK

LEMMA UsersChange ==
  ASSUME TrackerAssumption, BalancesInv, NEW S \in SUBSET Users, usersChange(S)
  PROVE  BalancesInv'
BY TurnsKept, TrackerStepTypes DEF usersChange, balanceVars, refreshVars, BalancesInv, BalancesTypeOK

LEMMA NetworkSelected ==
  ASSUME TrackerAssumption, BalancesInv, NEW n \in Networks, networkSelected(n)
  PROVE  BalancesInv'
BY TurnsKept, TrackerStepTypes DEF networkSelected, balanceVars, refreshVars, BalancesInv, BalancesTypeOK

\* The lists that a call makes have a balance, zero or none for each account.
LEMMA SyncedTypes ==
  ASSUME TrackerAssumption, BalancesTypeOK, NEW n \in Networks
  PROVE  /\ synced(balancesByNetwork, n) \in [Networks -> Balances \cup {NoBalances}]
         /\ synced(balancesByNetwork, n)[n] \in Balances
<1> DEFINE existing == knownIn(balances)
           fresh == [u \in Users |-> IF u \in existing THEN "zero" ELSE NoBalance]
           listed == IF balancesByNetwork[n] # NoBalances THEN balancesByNetwork
                     ELSE [balancesByNetwork EXCEPT ![n] = fresh]
           B == [m \in Networks |->
                  IF listed[m] = NoBalances THEN NoBalances
                  ELSE [u \in Users |-> IF u \in users \ existing THEN "zero"
                                        ELSE IF u \in existing \ users THEN NoBalance
                                        ELSE listed[m][u]]]
<1>1. B = synced(balancesByNetwork, n) BY DEF synced
<1>2. fresh \in Balances /\ NoBalances \notin Balances BY DEF Balances, TrackerAssumption
<1>3. listed \in [Networks -> Balances \cup {NoBalances}] /\ listed[n] # NoBalances
  <2> HIDE DEF fresh
  <2> QED BY <1>2 DEF BalancesTypeOK
<1> HIDE DEF listed, existing
<1>4. \A m \in Networks : listed[m] # NoBalances => B[m] \in Balances BY <1>3 DEF Balances
<1>5. \A m \in Networks : B[m] \in Balances \cup {NoBalances} BY <1>4
<1>6. B \in [Networks -> Balances \cup {NoBalances}] BY <1>5
<1> HIDE DEF B
<1> QED BY <1>1, <1>3, <1>4, <1>6

LEMMA AccountsSynced ==
  ASSUME TrackerAssumption, BalancesInv, NEW r \in Refreshes, accountsSynced(r)
  PROVE  BalancesInv'
<1>1. /\ refreshCall[r] # FreeCall /\ refreshCall[r].step = "waiting" /\ Head(refreshMutex) = r
      /\ UNCHANGED <<selectedNetwork, selectedUser, users, multiAccount, refreshMutex, refreshTimer,
                     trackerSteps>>
      /\ BalancesTypeOK /\ RefreshesInTurn
      /\ balances' = [u \in Users |->
           CASE u \notin users -> NoBalance
             [] u \in users /\ balances[u] = NoBalance -> "zero"
             [] OTHER -> balances[u]] BY DEF accountsSynced, trackerSelectionVars, BalancesInv
<1>2. PICK c \in WaitingCalls : c = refreshCall[r] BY <1>1, CallsAre DEF RefreshesInTurn
<1>3. /\ c.user \in Users /\ c.client \in Networks \cup {NoBalance} /\ c.poll \in BOOLEAN
  BY DEF WaitingCalls
<1> DEFINE n == IF c.client = NoBalance THEN selectedNetwork ELSE c.client
           B == synced(balancesByNetwork, n)
<1>4. /\ balancesByNetwork' = B
      /\ refreshCall' = [refreshCall EXCEPT ![r] =
           [step |-> "reading", network |-> n, found |-> B[n], poll |-> c.poll,
            asked |-> IF multiAccount THEN users ELSE {c.user}]] BY <1>2 DEF accountsSynced
<1>5. n \in Networks BY <1>1, <1>3 DEF BalancesTypeOK
<1>6. B \in [Networks -> Balances \cup {NoBalances}] /\ B[n] \in Balances BY <1>1, <1>5, SyncedTypes
<1> HIDE DEF B, n
<1>7. PICK d \in ReadingCalls :
        d = [step |-> "reading", network |-> n, found |-> B[n], poll |-> c.poll,
             asked |-> IF multiAccount THEN users ELSE {c.user}]
  <2>1. (IF multiAccount THEN users ELSE {c.user}) \in SUBSET Users BY <1>1, <1>3 DEF BalancesTypeOK
  <2>2. [step |-> "reading", network |-> n, found |-> B[n], poll |-> c.poll,
         asked |-> IF multiAccount THEN users ELSE {c.user}] \in ReadingCalls
    BY <1>3, <1>5, <1>6, <2>1 DEF ReadingCalls
  <2> QED BY <2>2
<1>8. balances' \in Balances BY <1>1 DEF BalancesTypeOK, Balances
<1>9. BalancesTypeOK' BY <1>1, <1>4, <1>6, <1>8 DEF BalancesTypeOK
<1>10. RefreshesInTurn' BY <1>1, <1>4, <1>7, CallsAre DEF RefreshesInTurn, InLine, BalancesTypeOK
<1> QED BY <1>1, <1>9, <1>10 DEF BalancesInv

\* Whoever is first leaves the line.
LEMMA FirstLeaves ==
  ASSUME NEW S, NEW q \in Seq(S), q # <<>>,
         \A i, j \in DOMAIN q : q[i] = q[j] => i = j
  PROVE  /\ Tail(q) \in Seq(S)
         /\ \A i, j \in DOMAIN Tail(q) : Tail(q)[i] = Tail(q)[j] => i = j
         /\ \A s : (\E i \in DOMAIN Tail(q) : Tail(q)[i] = s)
                     <=> (\E i \in DOMAIN q : q[i] = s) /\ s # q[1]
<1>1. /\ Len(q) \in Nat \ {0} /\ DOMAIN q = 1..Len(q)
      /\ Tail(q) \in Seq(S) /\ DOMAIN Tail(q) = 1..(Len(q) - 1) OBVIOUS
<1>2. \A i \in DOMAIN Tail(q) : i + 1 \in DOMAIN q /\ Tail(q)[i] = q[i + 1] BY <1>1
<1>3. PICK t : t = Tail(q) OBVIOUS
<1>4. \A i, j \in DOMAIN t : t[i] = t[j] => i = j
  <2> SUFFICES ASSUME NEW i \in DOMAIN t, NEW j \in DOMAIN t, t[i] = t[j] PROVE i = j OBVIOUS
  <2>1. i + 1 = j + 1 BY <1>2, <1>3
  <2> QED BY <1>1, <1>3, <2>1
<1>5. ASSUME NEW s, NEW i \in DOMAIN t, t[i] = s
      PROVE  (\E k \in DOMAIN q : q[k] = s) /\ s # q[1] BY <1>1, <1>2, <1>3, <1>5
<1>6. ASSUME NEW s, NEW k \in DOMAIN q, q[k] = s, s # q[1]
      PROVE  \E i \in DOMAIN t : t[i] = s
  <2>1. k # 1 /\ k - 1 \in 1..(Len(q) - 1) /\ (k - 1) + 1 = k BY <1>1, <1>6
  <2>2. k - 1 \in DOMAIN t /\ t[k - 1] = s BY <1>1, <1>2, <1>3, <1>6, <2>1
  <2> QED BY <2>2
<1> QED BY <1>1, <1>3, <1>4, <1>5, <1>6

LEMMA Refreshed ==
  ASSUME BalancesInv, NEW r \in Refreshes, NEW S \in SUBSET Users, refreshed(r, S)
  PROVE  BalancesInv'
<1>1. /\ refreshCall[r] # FreeCall /\ refreshCall[r].step = "reading"
      /\ refreshCall' = [refreshCall EXCEPT ![r] = FreeCall]
      /\ refreshMutex' = Tail(refreshMutex)
      /\ UNCHANGED <<selectedNetwork, selectedUser, users, multiAccount, trackerSteps>>
      /\ BalancesTypeOK /\ RefreshesInTurn BY DEF refreshed, trackerSelectionVars, BalancesInv
<1>2. PICK c \in ReadingCalls : c = refreshCall[r] BY <1>1, CallsAre DEF RefreshesInTurn
<1>3. c.network \in Networks /\ c.found \in Balances /\ c.poll \in BOOLEAN BY DEF ReadingCalls
<1> DEFINE B == [u \in Users |-> IF u \in S THEN c.network ELSE c.found[u]]
<1>4. /\ balances' = IF isShown(c.network) THEN B ELSE balances
      /\ balancesByNetwork' = [balancesByNetwork EXCEPT ![c.network] = B]
      /\ refreshTimer' = (refreshTimer \/ c.poll) BY <1>2 DEF refreshed
<1>5. B \in Balances BY <1>3 DEF Balances
<1> HIDE DEF B
<1>6. balances' \in Balances /\ balancesByNetwork' \in [Networks -> Balances \cup {NoBalances}]
  BY <1>1, <1>3, <1>4, <1>5 DEF BalancesTypeOK
<1>7. PICK q \in Seq(Refreshes) : q = refreshMutex BY <1>1 DEF BalancesTypeOK
<1>8. /\ q # <<>> /\ q[1] = r /\ \A i, j \in DOMAIN q : q[i] = q[j] => i = j
  BY <1>1, <1>2, <1>7 DEF RefreshesInTurn
<1>9. PICK t : t = Tail(q) OBVIOUS
<1>10. /\ t \in Seq(Refreshes) /\ refreshMutex' = t
       /\ \A i, j \in DOMAIN t : t[i] = t[j] => i = j
       /\ \A s : (\E i \in DOMAIN t : t[i] = s) <=> (\E i \in DOMAIN q : q[i] = s) /\ s # q[1]
  <2>1. /\ Tail(q) \in Seq(Refreshes)
        /\ \A i, j \in DOMAIN Tail(q) : Tail(q)[i] = Tail(q)[j] => i = j
        /\ \A s : (\E i \in DOMAIN Tail(q) : Tail(q)[i] = s)
                    <=> (\E i \in DOMAIN q : q[i] = s) /\ s # q[1] BY <1>8, FirstLeaves
  <2>2. refreshMutex' = Tail(q) BY <1>1, <1>7
  <2> QED BY <1>9, <2>1, <2>2
<1>11. BalancesTypeOK' BY <1>1, <1>6, <1>10 DEF BalancesTypeOK
<1>12. \A s \in Refreshes : InLine(s)' <=> InLine(s) /\ s # r BY <1>7, <1>8, <1>10 DEF InLine
<1>13. /\ refreshCall' \in [Refreshes -> {FreeCall} \cup WaitingCalls \cup ReadingCalls]
       /\ \A s \in Refreshes : refreshCall'[s] = IF s = r THEN FreeCall ELSE refreshCall[s]
  BY <1>1 DEF RefreshesInTurn
<1>14. \A s \in Refreshes : refreshCall'[s] # FreeCall <=> InLine(s)'
  BY <1>1, <1>12, <1>13 DEF RefreshesInTurn
<1>15. \A s \in Refreshes : refreshCall'[s] \notin ReadingCalls
  BY <1>1, <1>7, <1>8, <1>13, CallsAre DEF RefreshesInTurn
<1>16. RefreshesInTurn' BY <1>10, <1>13, <1>14, <1>15 DEF RefreshesInTurn
<1>17. multiAccount' \in BOOLEAN /\ refreshTimer' \in BOOLEAN BY <1>1, <1>3, <1>4 DEF BalancesInv
<1> QED BY <1>11, <1>16, <1>17 DEF BalancesInv

LEMMA BalancesSteps == ASSUME TrackerAssumption, BalancesInv, BalancesNext PROVE BalancesInv'
BY UserSelected, UsersChange, NetworkSelected, NetworkPolled, Polled, AccountsSynced, Refreshed DEF
   BalancesNext

LEMMA BalancesIdle == ASSUME BalancesInv, UNCHANGED accountTrackerVars PROVE BalancesInv'
BY TurnsKept DEF accountTrackerVars, trackerSelectionVars, balanceVars, refreshVars, BalancesInv,
   BalancesTypeOK

-----------------------------------------------------------------------------

(***************************************************************************)
(* The engine.  A request that is on its way has passed the outer          *)
(* middlewares, and those of the nested engine that it remembers are in    *)
(* order; on its way back, what has been run and what is left to run make  *)
(* the whole list of handlers in reverse, unless something failed.         *)
(***************************************************************************)
Places == 1..5
Responses == {Nothing, "result", "error", "both"}
CallRecords ==
  [step : {"idle", "down", "stream", "inner", "back", "answered"}, pos : Places,
   id : Requests \cup {OwnId}, response : Responses, passedOn : Seq(Places), nested : Seq(Inner),
   toRun : Seq(Places), resumed : Seq(Places), deaf : SUBSET Places, failed : BOOLEAN]

Falls(s) == \A i, j \in DOMAIN s : i < j => s[i] > s[j]
Rises(s) == \A i, j \in DOMAIN s : i < j => s[i] < s[j]
Has(s, x) == \E i \in DOMAIN s : s[i] = x

\* The handlers that have been run, and those that have not.
AllOf(c) == c.resumed \o c.toRun
InOrder(c) == Reverse(c.passedOn \o c.nested)
Sound(c) == ~c.failed /\ c.deaf = {}

OnWay(q, c, log) ==
  /\ c.toRun = <<>> /\ c.resumed = <<>> /\ Sound(c) /\ ~hasError(c.response)
  /\ c.passedOn = IF c.pos = 1 THEN <<>> ELSE IF c.pos = 2 THEN <<1>> ELSE <<1, 2>>
  /\ Rises(c.nested) /\ \A i \in DOMAIN c.nested : c.nested[i] < c.pos
  /\ c.id = IF c.pos = 1 THEN OwnId ELSE q
  /\ c.pos >= 3 => log = "asked"

InNested(c, log) ==
  /\ AllOf(c) = Reverse(c.nested) /\ Rises(c.nested) /\ Sound(c)
  /\ c.passedOn = <<1, 2>> /\ log = "asked"

Logged(c, log) ==
  Has(c.resumed, 2) => log = IF hasResult(c.response) THEN "result" ELSE "error"

OnWayBack(c, log) ==
  /\ Falls(AllOf(c)) /\ c.passedOn = <<1, 2>> /\ c.response # Nothing
  /\ Sound(c) => AllOf(c) = InOrder(c)
  /\ Has(c.resumed, 1) => c.id = OwnId
  /\ log # Nothing /\ Logged(c, log)

Answered(c, log) ==
  /\ Falls(c.resumed)
  /\ Sound(c) =>
       /\ c.resumed = InOrder(c) /\ c.id = OwnId
       /\ c.response = "result" => log = "result"
       /\ log = "error" => c.response = "error"

CallInv(q, c, log) ==
  /\ c.step = "idle" => c = NoCall
  /\ c.step \in {"down", "stream"} => OnWay(q, c, log)
  /\ c.step = "stream" => c.pos = 5
  /\ c.step = "inner" => InNested(c, log)
  /\ c.step = "back" => OnWayBack(c, log)
  /\ c.step = "answered" => Answered(c, log)

KnownIds ==
  /\ idMap \in [Requests \cup {OwnId} -> Requests \cup {NoRequest}]
  /\ \A i \in Requests \cup {OwnId} : idMap[i] # NoRequest => idMap[i] = i
  /\ \A q \in Requests : requests[q].step = "stream" <=> idMap[q] = q

EngineInv ==
  /\ lastKind \in {"async", "stream"}
  /\ requests \in [Requests -> CallRecords]
  /\ activityLog \in [Requests -> {Nothing, "asked", "result", "error"}]
  /\ \A q \in Requests : CallInv(q, requests[q], activityLog[q])
  /\ KnownIds


\* The middlewares of the stack, by their places.
LEMMA Places5 ==
  ASSUME lastKind \in {"async", "stream"}
  PROVE  /\ Bottom = 5
         /\ \A p \in Places : Stack[p] = "remap" <=> p = 1
         /\ \A p \in Places : Stack[p] = "log" <=> p = 2
         /\ \A p \in Places : Stack[p] = "plain" <=> p = 3
         /\ \A p \in Places : Stack[p] = "async" => p \in {4, 5}
         /\ \A p \in Places : Stack[p] = "stream" => p = 5
BY DEF Bottom, Stack, Places

\* A list in reverse, and the lists that are made of two.
LEMMA PairOfLists ==
  ASSUME NEW S, NEW s \in Seq(S), NEW t \in Seq(S)
  PROVE  /\ s \o t \in Seq(S) /\ Len(s \o t) = Len(s) + Len(t)
         /\ Len(s) \in Nat /\ Len(t) \in Nat
         /\ DOMAIN s = 1..Len(s) /\ DOMAIN t = 1..Len(t)
         /\ DOMAIN (s \o t) = 1..(Len(s) + Len(t))
         /\ \A i \in 1..Len(s) : (s \o t)[i] = s[i]
         /\ \A i \in 1..Len(t) : (s \o t)[i + Len(s)] = t[i]
<1>1. PICK u \in Seq(S) : u = s \o t BY ConcatProperties
<1>2. /\ Len(s) \in Nat /\ Len(t) \in Nat
      /\ DOMAIN s = 1..Len(s) /\ DOMAIN t = 1..Len(t) /\ DOMAIN u = 1..Len(u) BY LenProperties
<1>3. /\ Len(u) = Len(s) + Len(t)
      /\ \A i \in 1..(Len(s) + Len(t)) : u[i] = IF i <= Len(s) THEN s[i] ELSE t[i - Len(s)]
  BY <1>1, ConcatProperties
<1>4. \A i \in 1..Len(s) : u[i] = s[i] BY <1>2, <1>3
<1>5. \A i \in 1..Len(t) : u[i + Len(s)] = t[i]
  <2> SUFFICES ASSUME NEW i \in 1..Len(t) PROVE u[i + Len(s)] = t[i] OBVIOUS
  <2>1. i + Len(s) \in 1..(Len(s) + Len(t)) /\ ~(i + Len(s) <= Len(s)) /\ (i + Len(s)) - Len(s) = i
    BY <1>2
  <2> QED BY <1>3, <2>1
<1> QED BY <1>1, <1>2, <1>3, <1>4, <1>5

LEMMA ReversedList ==
  ASSUME NEW S, NEW s \in Seq(S)
  PROVE  /\ Reverse(s) \in Seq(S) /\ Len(Reverse(s)) = Len(s)
         /\ DOMAIN Reverse(s) = 1..Len(s) /\ DOMAIN s = 1..Len(s) /\ Len(s) \in Nat
         /\ \A i \in 1..Len(s) : Reverse(s)[i] = s[Len(s) - i + 1]
BY LenProperties, ElementOfSeq DEF Reverse

LEMMA ReversedRises ==
  ASSUME NEW S \in SUBSET Nat, NEW s \in Seq(S), Rises(s)
  PROVE  Falls(Reverse(s))
<1>1. /\ Len(Reverse(s)) = Len(s)
      /\ DOMAIN Reverse(s) = 1..Len(s) /\ DOMAIN s = 1..Len(s) /\ Len(s) \in Nat
      /\ \A i \in 1..Len(s) : Reverse(s)[i] = s[Len(s) - i + 1] BY ReversedList
<1>2. \A i \in 1..Len(s) : s[i] \in Nat BY ElementOfSeq
<1> SUFFICES ASSUME NEW i \in 1..Len(s), NEW j \in 1..Len(s), i < j
             PROVE  Reverse(s)[i] > Reverse(s)[j] BY <1>1 DEF Falls
<1>3. PICK a \in 1..Len(s) : a = Len(s) - i + 1 BY <1>1
<1>4. PICK b \in 1..Len(s) : b = Len(s) - j + 1 BY <1>1
<1>5. b < a BY <1>1, <1>3, <1>4
<1>6. s[b] < s[a] BY <1>1, <1>5 DEF Rises
<1>7. Reverse(s)[i] = s[a] /\ Reverse(s)[j] = s[b] BY <1>1, <1>3, <1>4
<1> QED BY <1>2, <1>6, <1>7

LEMMA ReversedPair ==
  ASSUME NEW S, NEW s \in Seq(S), NEW t \in Seq(S)
  PROVE  Reverse(s \o t) = Reverse(t) \o Reverse(s)
<1>1. PICK u \in Seq(S) : u = s \o t
  BY PairOfLists
<1>2. /\ Len(u) = Len(s) + Len(t) /\ Len(s) \in Nat /\ Len(t) \in Nat
      /\ \A i \in 1..Len(s) : u[i] = s[i]
      /\ \A i \in 1..Len(t) : u[i + Len(s)] = t[i]
  BY <1>1, PairOfLists
<1>3. PICK v \in Seq(S) : v = Reverse(u)
  BY ReversedList
<1>4. PICK a \in Seq(S) : a = Reverse(s)
  BY ReversedList
<1>5. PICK b \in Seq(S) : b = Reverse(t)
  BY ReversedList
<1>6. /\ Len(v) = Len(u) /\ \A i \in 1..Len(u) : v[i] = u[Len(u) - i + 1]
      /\ Len(a) = Len(s) /\ \A i \in 1..Len(s) : a[i] = s[Len(s) - i + 1]
      /\ Len(b) = Len(t) /\ \A i \in 1..Len(t) : b[i] = t[Len(t) - i + 1]
  <2>1. Len(v) = Len(u) /\ \A i \in 1..Len(u) : v[i] = u[Len(u) - i + 1]
    BY <1>3, ReversedList
  <2>2. Len(a) = Len(s) /\ \A i \in 1..Len(s) : a[i] = s[Len(s) - i + 1]
    BY <1>4, ReversedList
  <2>3. Len(b) = Len(t) /\ \A i \in 1..Len(t) : b[i] = t[Len(t) - i + 1]
    BY <1>5, ReversedList
  <2> QED BY <2>1, <2>2, <2>3
<1>7. PICK w \in Seq(S) : w = b \o a
  BY PairOfLists
<1>8. /\ Len(w) = Len(t) + Len(s)
      /\ \A i \in 1..Len(t) : w[i] = b[i]
      /\ \A i \in 1..Len(s) : w[i + Len(t)] = a[i]
  <2>1. /\ Len(w) = Len(b) + Len(a)
        /\ \A i \in 1..Len(b) : w[i] = b[i]
        /\ \A i \in 1..Len(a) : w[i + Len(b)] = a[i]
    BY <1>7, PairOfLists
  <2> QED BY <1>6, <2>1
<1>9. \A i \in 1..Len(t) : v[i] = w[i]
  <2> SUFFICES ASSUME NEW i \in 1..Len(t) PROVE v[i] = w[i]
    OBVIOUS
  <2>1. PICK k \in 1..Len(t) : k = Len(t) - i + 1
    <3>1. Len(t) \in Nat /\ Len(t) - i + 1 \in 1..Len(t)
      BY <1>2
    <3> QED BY <3>1
  <2>2. i \in 1..Len(u) /\ Len(u) - i + 1 = k + Len(s)
    BY <1>2, <2>1
  <2>3. v[i] = u[k + Len(s)]
    BY <1>6, <2>2
  <2> QED BY <1>2, <1>6, <1>8, <2>1, <2>3
<1>10. \A i \in 1..Len(s) : v[i + Len(t)] = w[i + Len(t)]
  <2> SUFFICES ASSUME NEW i \in 1..Len(s) PROVE v[i + Len(t)] = w[i + Len(t)]
    OBVIOUS
  <2>1. PICK k \in 1..Len(s) : k = Len(s) - i + 1
    <3>1. Len(s) \in Nat /\ Len(s) - i + 1 \in 1..Len(s)
      BY <1>2
    <3> QED BY <3>1
  <2>2. i + Len(t) \in 1..Len(u) /\ Len(u) - (i + Len(t)) + 1 = k
    BY <1>2, <2>1
  <2>3. v[i + Len(t)] = u[k]
    BY <1>6, <2>2
  <2> QED BY <1>2, <1>6, <1>8, <2>1, <2>3
<1>11. \A i \in 1..Len(v) : v[i] = w[i]
  <2> SUFFICES ASSUME NEW i \in 1..Len(v) PROVE v[i] = w[i]
    OBVIOUS
  <2>1. CASE i \in 1..Len(t)
    BY <1>9, <2>1
  <2>2. CASE i \notin 1..Len(t)
    <3>1. PICK k \in 1..Len(s) : i = k + Len(t)
      <4>1. i - Len(t) \in 1..Len(s) /\ i = (i - Len(t)) + Len(t)
        BY <1>2, <1>6, <2>2
      <4> QED BY <4>1
    <3> QED BY <1>10, <3>1
  <2> QED BY <2>1, <2>2
<1>12. v = w
  <2>1. Len(v) = Len(w)
    BY <1>2, <1>6, <1>8
  <2> QED BY <1>11, <2>1, SeqEqual
<1> QED BY <1>1, <1>3, <1>4, <1>5, <1>7, <1>12

LEMMA Joined ==
  ASSUME NEW S \in SUBSET Nat, NEW s \in Seq(S), NEW t \in Seq(S), Falls(s), Falls(t),
         \A i \in DOMAIN s, j \in DOMAIN t : s[i] > t[j]
  PROVE  Falls(s \o t)
<1>1. PICK u \in Seq(S) : u = s \o t BY PairOfLists
<1>2. /\ Len(u) = Len(s) + Len(t) /\ Len(s) \in Nat /\ Len(t) \in Nat
      /\ DOMAIN u = 1..Len(u) /\ DOMAIN s = 1..Len(s) /\ DOMAIN t = 1..Len(t)
      /\ \A i \in 1..Len(s) : u[i] = s[i]
      /\ \A i \in 1..Len(t) : u[i + Len(s)] = t[i] BY <1>1, PairOfLists
<1>3. \A i \in DOMAIN u : i \notin DOMAIN s => i - Len(s) \in DOMAIN t /\ u[i] = t[i - Len(s)]
  <2> SUFFICES ASSUME NEW i \in DOMAIN u, i \notin DOMAIN s
               PROVE  i - Len(s) \in DOMAIN t /\ u[i] = t[i - Len(s)] OBVIOUS
  <2>1. PICK k \in 1..Len(t) : k = i - Len(s) BY <1>2
  <2> QED BY <1>2, <2>1
<1> SUFFICES ASSUME NEW i \in DOMAIN u, NEW j \in DOMAIN u, i < j PROVE u[i] > u[j]
  BY <1>1 DEF Falls
<1>4. CASE j \in DOMAIN s BY <1>2, <1>4 DEF Falls
<1>5. CASE j \notin DOMAIN s /\ i \in DOMAIN s BY <1>2, <1>3, <1>5
<1>6. CASE j \notin DOMAIN s /\ i \notin DOMAIN s BY <1>2, <1>3, <1>6 DEF Falls
<1> QED BY <1>4, <1>5, <1>6

LEMMA FallsFirst ==
  ASSUME NEW S \in SUBSET Nat, NEW s \in Seq(S), NEW t \in Seq(S), Falls(s \o t)
  PROVE  Falls(s)
<1>1. PICK u \in Seq(S) : u = s \o t BY PairOfLists
<1>2. \A i \in DOMAIN s : i \in DOMAIN u /\ u[i] = s[i] BY <1>1, PairOfLists
<1> QED BY <1>1, <1>2 DEF Falls

\* The next handler is moved from one list to the other.
LEMMA MovedOn ==
  ASSUME NEW S, NEW s \in Seq(S), NEW t \in Seq(S), t # <<>>
  PROVE  /\ Head(t) \in S /\ Tail(t) \in Seq(S) /\ Append(s, Head(t)) \in Seq(S)
         /\ Append(s, Head(t)) \o Tail(t) = s \o t
         /\ \A x : Has(Append(s, Head(t)), x) <=> Has(s, x) \/ x = Head(t)
<1>1. PICK h \in S : h = Head(t)
  BY HeadTailProperties
<1>2. PICK r \in Seq(S) : r = Tail(t)
  BY HeadTailProperties
<1>3. PICK a \in Seq(S) : a = Append(s, h)
  BY AppendProperties
<1>4. /\ Len(t) \in Nat \ {0} /\ Len(r) = Len(t) - 1 /\ t[1] = h
      /\ \A i \in 1..Len(r) : r[i] = t[i + 1]
  BY <1>1, <1>2
<1>5. /\ Len(s) \in Nat /\ Len(a) = Len(s) + 1 /\ a[Len(s) + 1] = h
      /\ \A i \in 1..Len(s) : a[i] = s[i]
      /\ DOMAIN a = 1..(Len(s) + 1) /\ DOMAIN s = 1..Len(s)
  BY <1>3
<1>6. PICK u \in Seq(S) : u = a \o r
  BY PairOfLists
<1>7. PICK v \in Seq(S) : v = s \o t
  BY PairOfLists
<1>8. Len(u) = Len(a) + Len(r) /\ Len(v) = Len(s) + Len(t)
  BY <1>6, <1>7, PairOfLists
<1>9. \A i \in 1..Len(a) : u[i] = a[i]
  BY <1>6, PairOfLists
<1>10. \A i \in 1..Len(r) : u[i + Len(a)] = r[i]
  BY <1>6, PairOfLists
<1>11. \A i \in 1..Len(s) : v[i] = s[i]
  BY <1>7, PairOfLists
<1>12. \A i \in 1..Len(t) : v[i + Len(s)] = t[i]
  BY <1>7, PairOfLists
<1>13. \A i \in 1..Len(u) : u[i] = v[i]
  <2> SUFFICES ASSUME NEW i \in 1..Len(u) PROVE u[i] = v[i]
    OBVIOUS
  <2>1. CASE i \in 1..Len(s)
    BY <1>5, <1>9, <1>11, <2>1
  <2>2. CASE i = Len(s) + 1
    <3>1. 1 \in 1..Len(t) /\ 1 + Len(s) = i /\ i \in 1..Len(a)
      BY <1>4, <1>5, <2>2
    <3>2. v[i] = t[1]
      BY <1>12, <3>1
    <3> QED BY <1>4, <1>5, <1>9, <2>2, <3>1, <3>2
  <2>3. CASE i > Len(s) + 1
    <3>1. PICK k \in 1..Len(r) : i = k + Len(a)
      <4>1. i - Len(a) \in 1..Len(r)
        BY <1>4, <1>5, <1>8, <2>3
      <4> QED BY <1>5, <4>1
    <3>2. k + 1 \in 1..Len(t) /\ (k + 1) + Len(s) = i
      BY <1>4, <1>5, <3>1
    <3>3. v[i] = t[k + 1]
      BY <1>12, <3>2
    <3> QED BY <1>4, <1>10, <3>1, <3>3
  <2> QED BY <1>5, <1>8, <2>1, <2>2, <2>3
<1>14. u = v
  <2>1. Len(u) = Len(v)
    BY <1>4, <1>5, <1>8
  <2> QED BY <1>13, <2>1, SeqEqual
<1>15. ASSUME NEW x PROVE Has(a, x) <=> Has(s, x) \/ x = h
  <2>1. \A i \in DOMAIN a : i \in DOMAIN s \/ i = Len(s) + 1
    BY <1>5
  <2>2. ASSUME Has(a, x) PROVE Has(s, x) \/ x = h
    BY <1>5, <2>1, <2>2 DEF Has
  <2>3. ASSUME NEW i \in DOMAIN s, s[i] = x PROVE Has(a, x)
    <3>1. i \in DOMAIN a /\ a[i] = x
      BY <1>5, <2>3
    <3> QED BY <3>1 DEF Has
  <2>4. ASSUME x = h PROVE Has(a, x)
    <3>1. Len(s) + 1 \in DOMAIN a /\ a[Len(s) + 1] = x
      BY <1>5, <2>4
    <3> QED BY <3>1 DEF Has
  <2> QED BY <2>2, <2>3, <2>4 DEF Has
<1> QED BY <1>1, <1>2, <1>3, <1>6, <1>7, <1>14, <1>15

\* The handlers of the nested engine run before those of the other middlewares.
LEMMA OuterLast ==
  /\ <<1, 2>> \in Seq(Places) /\ Reverse(<<1, 2>>) \in Seq({1, 2})
  /\ Reverse(<<1, 2>>) \in Seq(Places) /\ Falls(Reverse(<<1, 2>>))
  /\ Has(Reverse(<<1, 2>>), 1) /\ Has(Reverse(<<1, 2>>), 2)
<1>1. PICK s \in Seq({1, 2}) : s = <<1, 2>>
  <2>1. <<1, 2>> \in Seq({1, 2}) OBVIOUS
  <2> QED BY <2>1
<1>2. Len(s) = 2 /\ s[1] = 1 /\ s[2] = 2 BY <1>1
<1>3. PICK r \in Seq({1, 2}) : r = Reverse(s) BY ReversedList
<1>4. DOMAIN r = 1..2 /\ r[1] = s[2 - 1 + 1] /\ r[2] = s[2 - 2 + 1]
  <2>1. DOMAIN r = 1..Len(s) /\ \A i \in 1..Len(s) : r[i] = s[Len(s) - i + 1] BY <1>3, ReversedList
  <2>2. 1 \in 1..Len(s) /\ 2 \in 1..Len(s) BY <1>2
  <2> QED BY <1>2, <2>1, <2>2
<1>5. r[1] = 2 /\ r[2] = 1 BY <1>2, <1>4
<1>6. Falls(r) BY <1>4, <1>5 DEF Falls
<1>7. Has(r, 1) /\ Has(r, 2) BY <1>4, <1>5 DEF Has
<1>8. r \in Seq(Places) /\ s \in Seq(Places) BY SeqMonotonic DEF Places
<1> QED BY <1>1, <1>3, <1>6, <1>7, <1>8

LEMMA NestedFirst ==
  ASSUME NEW n \in Seq(Inner)
  PROVE  /\ n \in Seq(Places) /\ Reverse(n) \in Seq(Inner)
         /\ \A x : Has(n, x) => x \in Inner
BY SeqMonotonic, ReversedList, ElementOfSeq, LenProperties DEF Has, Places, Inner

LEMMA NestedThenOuter ==
  ASSUME NEW s \in Seq(Inner), Falls(s)
  PROVE  Falls(s \o Reverse(<<1, 2>>))
<1>1. PICK t \in Seq({1, 2}) : t = Reverse(<<1, 2>>) BY OuterLast
<1>2. \A i \in DOMAIN s : s[i] \in Inner BY ElementOfSeq, LenProperties
<1>3. \A i \in DOMAIN t : t[i] \in {1, 2} BY ElementOfSeq, LenProperties
<1>4. \A i \in DOMAIN s, j \in DOMAIN t : s[i] > t[j] BY <1>2, <1>3 DEF Inner
<1>5. s \in Seq(Places) /\ t \in Seq(Places) /\ Falls(t) BY <1>1, OuterLast, NestedFirst
<1>6. Places \in SUBSET Nat BY DEF Places
<1> QED BY <1>1, <1>4, <1>5, <1>6, Joined

LEMMA WholeIsPair ==
  ASSUME NEW n \in Seq(Inner)
  PROVE  /\ <<1, 2>> \o n \in Seq(Places)
         /\ Reverse(<<1, 2>> \o n) = Reverse(n) \o Reverse(<<1, 2>>)
BY OuterLast, NestedFirst, PairOfLists, ReversedPair

LEMMA WholeOrder ==
  ASSUME NEW n \in Seq(Inner), Rises(n)
  PROVE  /\ <<1, 2>> \o n \in Seq(Places)
         /\ Reverse(<<1, 2>> \o n) = Reverse(n) \o Reverse(<<1, 2>>)
         /\ Falls(Reverse(n)) /\ Falls(Reverse(<<1, 2>> \o n))
<1>1. Inner \in SUBSET Nat BY DEF Inner
<1>2. Falls(Reverse(n)) /\ Reverse(n) \in Seq(Inner) BY <1>1, ReversedRises, ReversedList
<1>3. Falls(Reverse(n) \o Reverse(<<1, 2>>)) BY <1>2, NestedThenOuter
<1> QED BY <1>2, <1>3, WholeIsPair

LEMMA HasOfPair ==
  ASSUME NEW S, NEW s \in Seq(S), NEW t \in Seq(S), NEW x, Has(t, x)
  PROVE  Has(s \o t, x)
<1>1. PICK i \in DOMAIN t : t[i] = x BY DEF Has
<1>2. i + Len(s) \in DOMAIN (s \o t) /\ (s \o t)[i + Len(s)] = x BY <1>1, PairOfLists
<1> QED BY <1>2 DEF Has

LEMMA WholeHas ==
  ASSUME NEW n \in Seq(Inner)
  PROVE  Has(Reverse(<<1, 2>> \o n), 1) /\ Has(Reverse(<<1, 2>> \o n), 2)
<1>1. PICK r \in Seq(Places) : r = Reverse(n) BY NestedFirst, ReversedList
<1>2. PICK t \in Seq(Places) : t = Reverse(<<1, 2>>) BY OuterLast
<1>3. Has(t, 1) /\ Has(t, 2) BY <1>2, OuterLast
<1>4. Has(r \o t, 1) /\ Has(r \o t, 2) BY <1>3, HasOfPair
<1> QED BY <1>1, <1>2, <1>4, WholeIsPair

LEMMA EmptyIsFirst ==
  ASSUME NEW S, NEW s \in Seq(S)
  PROVE  <<>> \o s = s /\ s \o <<>> = s /\ ~Has(<<>>, 1) /\ ~Has(<<>>, 2)
BY ConcatEmptySeq DEF Has

Logs == {Nothing, "asked", "result", "error"}

\* The request is completed: its handlers run, or nothing has answered it.
LEMMA Completed ==
  ASSUME NEW q \in Requests, NEW c \in CallRecords, NEW hs \in Seq(Places), NEW log \in Logs,
         Falls(c.resumed \o Reverse(hs)), c.passedOn = <<1, 2>>, log = "asked",
         ~Has(c.resumed, 1), ~Has(c.resumed, 2),
         Sound(c) => c.resumed \o Reverse(hs) = InOrder(c)
  PROVE  /\ completes(c, hs) \in CallRecords /\ CallInv(q, completes(c, hs), log)
         /\ completes(c, hs).step \in {"back", "answered"}
<1>1. Reverse(hs) \in Seq(Places) /\ c.resumed \in Seq(Places) /\ Places \in SUBSET Nat
  BY ReversedList DEF CallRecords, Places
<1>2. CASE c.response = Nothing
  BY <1>2, <1>1, FallsFirst DEF CallRecords, Responses, completes, answers, hasError, CallInv, Answered, Sound
<1>3. CASE c.response # Nothing
  BY <1>1, <1>3 DEF CallRecords, completes, AllOf, Sound, InOrder, Nothing, OnWayBack, Logged, CallInv
<1> QED BY <1>2, <1>3

\* A middleware ends the request.
LEMMA Ended ==
  ASSUME NEW q \in Requests, NEW c \in CallRecords, NEW log \in Logs, OnWay(q, c, log), c.pos >= 3,
         NEW response \in Responses
  PROVE  /\ ends(c, response) \in CallRecords /\ CallInv(q, ends(c, response), log)
         /\ ends(c, response).step \in {"inner", "back", "answered"}
         /\ c.pos = 5 => ends(c, response).step \in {"back", "answered"}
<1>1. PICK d \in CallRecords : d = [c EXCEPT !.response = response] BY DEF CallRecords
<1>2. /\ d.step = c.step /\ d.resumed = <<>> /\ d.toRun = <<>> /\ d.passedOn = <<1, 2>>
      /\ d.nested = c.nested /\ Sound(d) /\ d.pos = c.pos /\ c.pos \in Places
      /\ c.nested \in Seq(Inner) /\ Rises(c.nested) /\ log = "asked"
  BY <1>1 DEF CallRecords, OnWay, Sound, Places
<1>3. PICK n \in Seq(Inner) : n = c.nested BY <1>2
<1>4. Reverse(n) \in Seq(Inner) /\ Reverse(n) \in Seq(Places) BY NestedFirst
<1>5. CASE c.pos \in Inner
  <2>1. PICK r \in Seq(Places) : r = Reverse(n) BY <1>4
  <2>2. PICK e \in CallRecords : e = [d EXCEPT !.step = "inner", !.toRun = r] BY DEF CallRecords
  <2>3. ends(c, response) = e BY <1>1, <1>2, <1>3, <1>5, <2>1, <2>2 DEF ends
  <2>4. /\ e.step = "inner" /\ e.resumed = <<>> /\ e.toRun = r /\ e.passedOn = <<1, 2>>
        /\ e.nested = n /\ Sound(e) BY <1>2, <1>3, <2>2 DEF CallRecords, Sound
  <2>5. AllOf(e) = Reverse(e.nested) BY <2>1, <2>4, EmptyIsFirst DEF AllOf
  <2>6. InNested(e, log) BY <1>2, <1>3, <2>4, <2>5 DEF InNested
  <2> QED BY <1>5, <2>3, <2>4, <2>6 DEF CallInv, Inner
<1>6. CASE c.pos \notin Inner
  <2>1. PICK hs \in Seq(Places) : hs = <<1, 2>> \o n BY <1>2, <1>3, WholeOrder
  <2>2. ends(c, response) = completes(d, hs) BY <1>1, <1>2, <1>3, <1>6, <2>1 DEF ends
  <2>3. d.resumed \o Reverse(hs) = Reverse(hs) BY <1>2, ReversedList, EmptyIsFirst
  <2>4. Falls(Reverse(hs)) /\ InOrder(d) = Reverse(hs) BY <1>2, <1>3, <2>1, WholeOrder DEF InOrder
  <2>5. ~Has(d.resumed, 1) /\ ~Has(d.resumed, 2) BY <1>2 DEF Has
  <2>6. /\ completes(d, hs) \in CallRecords /\ CallInv(q, completes(d, hs), log)
        /\ completes(d, hs).step \in {"back", "answered"} BY <2>3, <2>4, <1>2, <2>5, Completed
  <2> QED BY <2>2, <2>6
<1> QED BY <1>5, <1>6

\* It passes the request on, and may give a return handler.
LEMMA GoneOn ==
  ASSUME lastKind \in {"async", "stream"}, NEW q \in Requests, NEW c \in CallRecords, NEW log \in Logs,
         OnWay(q, c, log), c.pos \in Inner, c.step = "down", NEW handler \in BOOLEAN
  PROVE  /\ goesOn(c, handler) \in CallRecords /\ OnWay(q, goesOn(c, handler), log)
         /\ goesOn(c, handler).step = "down" /\ goesOn(c, handler).pos = c.pos + 1
<1>1. PICK n \in Seq(Inner) : n = IF handler THEN Append(c.nested, c.pos) ELSE c.nested
  BY AppendProperties DEF CallRecords
<1>2. c.pos \in {3, 4} /\ Bottom = 5 /\ ~hasError(c.response) BY Places5 DEF Inner, OnWay
<1>3. PICK d \in CallRecords : d = [c EXCEPT !.pos = c.pos + 1, !.nested = n]
  <2>1. c.pos + 1 \in Places BY <1>2 DEF Places
  <2>2. [c EXCEPT !.pos = c.pos + 1, !.nested = n] \in CallRecords BY <2>1 DEF CallRecords
  <2> QED BY <2>2
<1>4. goesOn(c, handler) = d
  <2>1. c.pos # Bottom BY <1>2
  <2>2. goesOn(c, handler) = [c EXCEPT !.pos = c.pos + 1, !.passedOn = c.passedOn, !.nested = n]
    BY <1>1, <1>2, <2>1 DEF goesOn, CallRecords
  <2>3. [c EXCEPT !.pos = c.pos + 1, !.passedOn = c.passedOn, !.nested = n] = d
    BY <1>3 DEF CallRecords
  <2> QED BY <2>2, <2>3
<1>5. /\ d.step = "down" /\ d.pos = c.pos + 1 /\ d.nested = n /\ d.toRun = c.toRun
      /\ d.resumed = c.resumed /\ d.passedOn = c.passedOn /\ d.id = c.id
      /\ d.response = c.response /\ d.failed = c.failed /\ d.deaf = c.deaf BY <1>3 DEF CallRecords
<1>6. PICK m \in Seq(Inner) : m = c.nested BY DEF CallRecords
<1>7. Rises(m) /\ \A i \in DOMAIN m : m[i] < c.pos BY <1>6 DEF OnWay
<1>8. Rises(n) /\ \A i \in DOMAIN n : n[i] < c.pos + 1
  <2>1. \A i \in DOMAIN m : m[i] \in {3, 4} BY ElementOfSeq, LenProperties DEF Inner
  <2>2. CASE ~handler BY <1>1, <1>2, <1>6, <1>7, <2>1, <2>2
  <2>3. CASE handler
    <3>1. n = Append(m, c.pos) BY <1>1, <1>6, <2>3
    <3>2. /\ Len(m) \in Nat /\ DOMAIN m = 1..Len(m) /\ DOMAIN n = 1..(Len(m) + 1)
          /\ \A i \in 1..Len(m) : n[i] = m[i]
          /\ n[Len(m) + 1] = c.pos BY <3>1, AppendProperties, LenProperties
    <3>3. \A i \in DOMAIN n : i \in DOMAIN m \/ i = Len(m) + 1 BY <3>2
    <3>4. \A i \in DOMAIN n : n[i] < c.pos + 1 BY <1>2, <1>7, <2>1, <3>2, <3>3
    <3>5. Rises(n)
      <4> SUFFICES ASSUME NEW i \in DOMAIN n, NEW j \in DOMAIN n, i < j PROVE n[i] < n[j]
        BY DEF Rises
      <4>1. i \in DOMAIN m BY <3>2, <3>3
      <4> QED BY <1>7, <3>2, <3>3, <4>1 DEF Rises
    <3> QED BY <3>4, <3>5
  <2> QED BY <2>2, <2>3
<1>9. OnWay(q, d, log) BY <1>2, <1>5, <1>8 DEF OnWay, Sound
<1> QED BY <1>4, <1>5, <1>9

\* No middleware is left: the request fails, and no handler is run.
LEMMA NobodyLeft ==
  ASSUME lastKind \in {"async", "stream"}, NEW q \in Requests, NEW c \in CallRecords, NEW log \in Logs,
         OnWay(q, c, log), c.pos = 5, NEW handler \in BOOLEAN
  PROVE  \E d \in CallRecords :
           goesOn(c, handler) = d /\ d.step = "answered" /\ d.failed /\ d.resumed = <<>>
<1>1. PICK d \in CallRecords : d = [c EXCEPT !.failed = TRUE, !.step = "answered", !.response = "error"]
  BY DEF CallRecords, Responses
<1>2. Bottom = 5 /\ ~hasError(c.response) BY Places5 DEF OnWay
<1>3. goesOn(c, handler) = d BY <1>1, <1>2 DEF goesOn, answers, hasError, CallRecords
<1>4. d.step = "answered" /\ d.failed /\ d.resumed = <<>> BY <1>1 DEF CallRecords, OnWay
<1> QED BY <1>3, <1>4

-----------------------------------------------------------------------------

LEMMA InitialEngine == EngineAssumption /\ EngineInit => EngineInv
<1> SUFFICES ASSUME EngineAssumption, EngineInit PROVE EngineInv OBVIOUS
<1>1. PICK c \in CallRecords : c = NoCall
  <2>1. NewCall \in CallRecords BY DEF NewCall, CallRecords, Places, Responses, Inner
  <2>2. NoCall \in CallRecords BY <2>1 DEF NoCall, CallRecords
  <2> QED BY <2>2
<1>2. c.step = "idle" BY <1>1 DEF NoCall, NewCall
<1>3. requests = [q \in Requests |-> c] BY <1>1 DEF EngineInit
<1>4. \A q \in Requests : CallInv(q, requests[q], activityLog[q]) BY <1>1, <1>2, <1>3 DEF CallInv
<1>5. KnownIds BY <1>2, <1>3 DEF KnownIds, EngineInit, EngineAssumption
<1> QED BY <1>3, <1>4, <1>5 DEF EngineInv, EngineInit

\* One call changes, and its entry in the log.
LEMMA OneCallChanges ==
  ASSUME EngineAssumption, EngineInv, NEW q \in Requests, NEW d \in CallRecords,
         requests' = [requests EXCEPT ![q] = d],
         requests[q].step # "stream", d.step # "stream",
         UNCHANGED <<lastKind, idMap>>,
         activityLog' \in [Requests -> Logs],
         \A r \in Requests \ {q} : activityLog'[r] = activityLog[r],
         CallInv(q, d, activityLog'[q])
  PROVE  EngineInv'
<1>1. /\ requests' \in [Requests -> CallRecords]
      /\ \A r \in Requests : requests'[r] = IF r = q THEN d ELSE requests[r] BY DEF EngineInv
<1>2. \A r \in Requests : CallInv(r, requests'[r], activityLog'[r])
  <2> SUFFICES ASSUME NEW r \in Requests PROVE CallInv(r, requests'[r], activityLog'[r]) OBVIOUS
  <2>1. CASE r = q BY <1>1, <2>1
  <2>2. CASE r # q BY <1>1, <2>2 DEF EngineInv
  <2> QED BY <2>1, <2>2
<1>3. KnownIds' BY <1>1 DEF EngineInv, KnownIds
<1> QED BY <1>1, <1>2, <1>3 DEF EngineInv, Logs

LEMMA OneCallMoves ==
  ASSUME EngineAssumption, EngineInv, NEW q \in Requests, NEW d \in CallRecords,
         requests' = [requests EXCEPT ![q] = d],
         requests[q].step # "stream", d.step # "stream",
         UNCHANGED <<lastKind, idMap, activityLog>>,
         CallInv(q, d, activityLog[q])
  PROVE  EngineInv'
BY OneCallChanges DEF EngineInv, Logs

LEMMA Handled ==
  ASSUME EngineAssumption, EngineInv, NEW q \in Requests, handle(q)
  PROVE  EngineInv'
<1>1. PICK d \in CallRecords : d = NewCall
  <2>1. NewCall \in CallRecords BY DEF NewCall, CallRecords, Places, Responses, Inner
  <2> QED BY <2>1
<1>2. /\ d.step = "down" /\ d.pos = 1 /\ d.id = OwnId /\ d.response = Nothing
      /\ d.passedOn = <<>> /\ d.nested = <<>> /\ d.toRun = <<>> /\ d.resumed = <<>>
      /\ d.deaf = {} /\ d.failed = FALSE BY <1>1 DEF NewCall
<1>3. OnWay(q, d, activityLog[q]) BY <1>2 DEF OnWay, Sound, Rises, hasError, Nothing
<1>4. CallInv(q, d, activityLog[q]) BY <1>2, <1>3 DEF CallInv
<1>5. requests[q].step # "stream" BY DEF handle, NoCall, NewCall
<1> QED BY <1>1, <1>2, <1>4, <1>5, OneCallMoves DEF handle, streamVars

\* A request that is on its way down is at a middleware of the stack.
LEMMA AtPlace ==
  ASSUME EngineInv, NEW q \in Requests, NEW kind, isAt(q, kind)
  PROVE  /\ requests[q] \in CallRecords /\ requests[q].step = "down" /\ requests[q].pos \in Places
         /\ Stack[requests[q].pos] = kind
         /\ activityLog[q] \in Logs /\ lastKind \in {"async", "stream"}
         /\ OnWay(q, requests[q], activityLog[q])
BY DEF EngineInv, isAt, CallInv, CallRecords, Logs

LEMMA UnchangedNested ==
  ASSUME NEW c \in CallRecords, NEW pos, NEW passedOn
  PROVE  [c EXCEPT !.pos = pos, !.passedOn = passedOn, !.nested = c.nested]
           = [c EXCEPT !.pos = pos, !.passedOn = passedOn]
BY DEF CallRecords

LEMMA OneThenTwo == Append(<<1>>, 2) = <<1, 2>>
<1>1. <<1>> \in Seq(Nat) /\ 2 \in Nat /\ Len(<<1>>) = 1 /\ <<1>>[1] = 1 OBVIOUS
<1>2. PICK s \in Seq(Nat) : s = Append(<<1>>, 2) BY <1>1, AppendProperties
<1>3. /\ Len(s) = 2 /\ s[2] = 2 /\ s[1] = 1 BY <1>1, <1>2, AppendProperties
<1>4. PICK t \in Seq(Nat) : t = <<1, 2>>
  <2>1. <<1, 2>> \in Seq(Nat) OBVIOUS
  <2> QED BY <2>1
<1>5. Len(t) = 2 /\ t[1] = 1 /\ t[2] = 2 BY <1>4
<1>6. \A i \in 1..2 : i = 1 \/ i = 2 OBVIOUS
<1>7. s = t BY <1>3, <1>5, <1>6, SeqEqual
<1> QED BY <1>2, <1>4, <1>7

LEMMA IdsRemapped ==
  ASSUME EngineAssumption, EngineInv, NEW q \in Requests, idRemapMiddleware(q)
  PROVE  EngineInv'
<1>1. isAt(q, "remap")
  BY DEF idRemapMiddleware
<1>2. PICK c \in CallRecords : c = requests[q]
  BY <1>1, AtPlace
<1>3. /\ c.step = "down" /\ c.pos = 1 /\ OnWay(q, c, activityLog[q]) /\ Bottom = 5
      /\ lastKind \in {"async", "stream"}
  BY <1>1, <1>2, AtPlace, Places5
<1>4. PICK d \in CallRecords : d = [c EXCEPT !.pos = 2, !.passedOn = <<1>>, !.id = q]
  <2>1. <<1>> \in Seq(Places) /\ 2 \in Places
    BY DEF Places
  <2>2. [c EXCEPT !.pos = 2, !.passedOn = <<1>>, !.id = q] \in CallRecords
    BY <2>1 DEF CallRecords
  <2> QED BY <2>2
<1>5. [goesOn(c, TRUE) EXCEPT !.id = newId(q)] = d
  <2>1. ~hasError(c.response) /\ c.passedOn = <<>> /\ c.pos # Bottom /\ c.pos \notin Inner
    BY <1>3 DEF OnWay, Inner
  <2>2. Append(c.passedOn, c.pos) = <<1>>
    BY <1>3, <2>1
  <2>3. goesOn(c, TRUE) = [c EXCEPT !.pos = 2, !.passedOn = <<1>>]
    <3>1. goesOn(c, TRUE) =
            [c EXCEPT !.pos = c.pos + 1, !.passedOn = Append(c.passedOn, c.pos), !.nested = c.nested]
      BY <2>1 DEF goesOn, CallRecords
    <3>2. goesOn(c, TRUE) = [c EXCEPT !.pos = 2, !.passedOn = <<1>>, !.nested = c.nested]
      <4>1. c.pos + 1 = 2
        BY <1>3
      <4> QED BY <2>2, <3>1, <4>1
    <3> QED BY <3>2, UnchangedNested
  <2> QED BY <1>4, <2>3 DEF newId, CallRecords
<1>6. requests' = [requests EXCEPT ![q] = d]
  BY <1>2, <1>5 DEF idRemapMiddleware
<1>7. /\ d.step = "down" /\ d.pos = 2 /\ d.id = q /\ d.passedOn = <<1>>
      /\ d.response = c.response /\ d.nested = c.nested /\ d.toRun = c.toRun
      /\ d.resumed = c.resumed /\ d.deaf = c.deaf /\ d.failed = c.failed
  BY <1>3, <1>4 DEF CallRecords
<1>8. \A i \in DOMAIN c.nested : c.nested[i] < 2
  <2>1. \A i \in DOMAIN c.nested : c.nested[i] \in {3, 4} /\ c.nested[i] < 1
    <3>1. c.nested \in Seq(Inner)
      BY DEF CallRecords
    <3> QED BY <1>3, <3>1, ElementOfSeq, LenProperties DEF OnWay, Inner
  <2> QED BY <2>1
<1>9. OnWay(q, d, activityLog[q])
  BY <1>3, <1>7, <1>8 DEF OnWay, Sound
<1>10. CallInv(q, d, activityLog[q])
  BY <1>7, <1>9 DEF CallInv
<1>11. requests[q].step # "stream"
  BY <1>2, <1>3
<1> QED BY <1>6, <1>7, <1>10, <1>11, OneCallMoves DEF idRemapMiddleware, streamVars

LEMMA RequestLogged ==
  ASSUME EngineAssumption, EngineInv, NEW q \in Requests, logRequest(q)
  PROVE  EngineInv'
<1>1. isAt(q, "log") BY DEF logRequest
<1>2. PICK c \in CallRecords : c = requests[q] BY <1>1, AtPlace
<1>3. /\ c.step = "down" /\ c.pos = 2 /\ OnWay(q, c, activityLog[q]) /\ Bottom = 5
      /\ lastKind \in {"async", "stream"} BY <1>1, <1>2, AtPlace, Places5
<1>4. PICK d \in CallRecords : d = [c EXCEPT !.pos = 3, !.passedOn = <<1, 2>>]
  <2>1. <<1, 2>> \in Seq(Places) /\ 3 \in Places BY OuterLast DEF Places
  <2>2. [c EXCEPT !.pos = 3, !.passedOn = <<1, 2>>] \in CallRecords BY <2>1 DEF CallRecords
  <2> QED BY <2>2
<1>5. goesOn(c, TRUE) = d
  <2>1. ~hasError(c.response) /\ c.passedOn = <<1>> /\ c.pos # Bottom /\ c.pos \notin Inner
    BY <1>3 DEF OnWay, Inner
  <2>2. Append(c.passedOn, c.pos) = <<1, 2>> BY OneThenTwo, <1>3, <2>1
  <2>3. goesOn(c, TRUE) =
          [c EXCEPT !.pos = c.pos + 1, !.passedOn = Append(c.passedOn, c.pos), !.nested = c.nested]
    BY <2>1 DEF goesOn, CallRecords
  <2>4. goesOn(c, TRUE) = [c EXCEPT !.pos = 3, !.passedOn = <<1, 2>>, !.nested = c.nested]
    <3>1. c.pos + 1 = 3 BY <1>3
    <3> QED BY <2>2, <2>3, <3>1
  <2> QED BY <1>4, <2>4, UnchangedNested
<1>6. requests' = [requests EXCEPT ![q] = d] /\ activityLog' = [activityLog EXCEPT ![q] = "asked"]
  BY <1>2, <1>5 DEF logRequest
<1>7. /\ d.step = "down" /\ d.pos = 3 /\ d.id = c.id /\ d.passedOn = <<1, 2>>
      /\ d.response = c.response /\ d.nested = c.nested /\ d.toRun = c.toRun
      /\ d.resumed = c.resumed /\ d.deaf = c.deaf /\ d.failed = c.failed
  BY <1>3, <1>4 DEF CallRecords
<1>8. \A i \in DOMAIN c.nested : c.nested[i] < 3
  <2>1. \A i \in DOMAIN c.nested : c.nested[i] \in {3, 4} /\ c.nested[i] < 2
    BY <1>3, ElementOfSeq, LenProperties DEF CallRecords, OnWay, Inner
  <2> QED BY <2>1
<1>9. /\ activityLog'[q] = "asked" /\ activityLog' \in [Requests -> Logs]
      /\ \A r \in Requests \ {q} : activityLog'[r] = activityLog[r] BY <1>6 DEF EngineInv, Logs
<1>10. OnWay(q, d, "asked") BY <1>3, <1>7, <1>8 DEF OnWay, Sound
<1>11. CallInv(q, d, activityLog'[q]) BY <1>7, <1>9, <1>10 DEF CallInv
<1>12. requests[q].step # "stream" BY <1>2, <1>3
<1> QED BY <1>6, <1>7, <1>9, <1>11, <1>12, OneCallChanges DEF logRequest, streamVars

\* What a middleware of the nested engine, or the last one, makes of a call.
LEMMA MiddlewareEnds ==
  ASSUME EngineAssumption, EngineInv, NEW q \in Requests, requests[q].step = "down",
         requests[q].pos >= 3, NEW response \in Responses,
         requests' = [requests EXCEPT ![q] = ends(@, response)],
         UNCHANGED <<lastKind, streamVars, activityLog>>
  PROVE  EngineInv'
<1>1. PICK c \in CallRecords : c = requests[q] BY DEF EngineInv
<1>2. PICK log \in Logs : log = activityLog[q] BY DEF EngineInv, Logs
<1>3. OnWay(q, c, log) BY <1>1, <1>2 DEF EngineInv, CallInv
<1>4. PICK d \in CallRecords : d = ends(c, response) BY <1>1, <1>3, Ended
<1>5. CallInv(q, d, log) /\ d.step # "stream" BY <1>1, <1>3, <1>4, Ended
<1>6. requests' = [requests EXCEPT ![q] = d] BY <1>1, <1>4
<1> QED BY <1>2, <1>5, <1>6, OneCallMoves DEF streamVars

LEMMA OnWayToo ==
  ASSUME NEW q, NEW log, NEW c \in CallRecords, OnWay(q, c, log),
         NEW response \in Responses, ~hasError(response)
  PROVE  /\ [c EXCEPT !.response = response] \in CallRecords
         /\ OnWay(q, [c EXCEPT !.response = response], log)
         /\ [c EXCEPT !.response = response].step = c.step
         /\ [c EXCEPT !.response = response].pos = c.pos
BY DEF CallRecords, OnWay, Sound

\* It passes the request on; below the last one there is nobody.
LEMMA MiddlewareGoesOn ==
  ASSUME EngineAssumption, EngineInv, NEW q \in Requests, requests[q].step = "down",
         requests[q].pos \in Inner \cup {5}, NEW response \in Responses, ~hasError(response),
         NEW handler \in BOOLEAN,
         requests' = [requests EXCEPT ![q] = goesOn([@ EXCEPT !.response = response], handler)],
         UNCHANGED <<lastKind, streamVars, activityLog>>
  PROVE  EngineInv'
<1>1. PICK b \in CallRecords : b = requests[q] BY DEF EngineInv
<1>2. PICK log \in Logs : log = activityLog[q] BY DEF EngineInv, Logs
<1>3. OnWay(q, b, log) BY <1>1, <1>2 DEF EngineInv, CallInv
<1>4. PICK c \in CallRecords : c = [b EXCEPT !.response = response] BY <1>3, OnWayToo
<1>5. OnWay(q, c, log) /\ c.step = "down" /\ c.pos \in Inner \cup {5} BY <1>1, <1>3, <1>4, OnWayToo
<1>6. lastKind \in {"async", "stream"} BY DEF EngineInv
<1>7. \E d \in CallRecords : d = goesOn(c, handler) /\ CallInv(q, d, log) /\ d.step # "stream"
  BY <1>5, <1>6, GoneOn, NobodyLeft DEF CallInv, Answered, Falls, Sound
<1>8. PICK d \in CallRecords : d = goesOn(c, handler) /\ CallInv(q, d, log) /\ d.step # "stream"
  BY <1>7
<1>9. requests' = [requests EXCEPT ![q] = d] BY <1>1, <1>4, <1>8
<1> QED BY <1>2, <1>8, <1>9, OneCallMoves DEF streamVars

LEMMA ResponsesAre ==
  /\ Nothing \in Responses /\ "result" \in Responses /\ "error" \in Responses
  /\ ~hasError(Nothing) /\ ~hasError("result")
  /\ \A response \in Responses : withError(response) \in Responses /\ hasError(withError(response))
BY DEF Responses, Nothing, hasError, hasResult, withError

LEMMA Unanswered ==
  ASSUME EngineInv, NEW q \in Requests, NEW kind, isAt(q, kind)
  PROVE  requests[q].response \in Responses /\ ~hasError(requests[q].response)
BY AtPlace DEF OnWay, CallRecords

LEMMA PlainMiddleware ==
  ASSUME EngineAssumption, EngineInv, NEW q \in Requests, plainMiddleware(q)
  PROVE  EngineInv'
<1>1. isAt(q, "plain") /\ UNCHANGED <<lastKind, streamVars, activityLog>> BY DEF plainMiddleware
<1>2. requests[q].step = "down" /\ requests[q].pos = 3 /\ requests[q].pos >= 3
  BY <1>1, AtPlace, Places5
<1>3. PICK before \in Responses : before = requests[q].response BY <1>1, Unanswered
<1>4. ~hasError(before) BY <1>1, <1>3, Unanswered
<1>5. CASE requests' = [requests EXCEPT ![q] = ends(@, withError(requests[q].response))]
  BY ResponsesAre, <1>3, <1>5, <1>1, <1>2, MiddlewareEnds
<1>6. ASSUME NEW result \in BOOLEAN, NEW response,
             response = IF result /\ requests[q].response = Nothing THEN "result"
                        ELSE requests[q].response,
             \/ requests' = [requests EXCEPT ![q] = ends(@, response)]
             \/ \E handler \in BOOLEAN :
                  requests' = [requests EXCEPT ![q] = goesOn([@ EXCEPT !.response = response], handler)]
      PROVE  EngineInv'
  BY <1>3, <1>4, <1>6, ResponsesAre, <1>1, <1>2, MiddlewareEnds, MiddlewareGoesOn DEF Inner
<1> QED BY <1>5, <1>6 DEF plainMiddleware

LEMMA AsyncMiddleware ==
  ASSUME EngineAssumption, EngineInv, NEW q \in Requests, asyncMiddleware(q)
  PROVE  EngineInv'
<1>1. isAt(q, "async") /\ UNCHANGED <<lastKind, streamVars, activityLog>> BY DEF asyncMiddleware
<1>2. requests[q].step = "down" /\ requests[q].pos \in {4, 5} /\ requests[q].pos >= 3
  BY <1>1, AtPlace, Places5
<1>3. PICK before \in Responses : before = requests[q].response BY <1>1, Unanswered
<1>4. ~hasError(before) BY <1>1, <1>3, Unanswered
<1>5. ASSUME NEW response \in {requests[q].response, "result", withError(requests[q].response)},
             requests' = [requests EXCEPT ![q] = ends(@, response)]
      PROVE  EngineInv' BY <1>3, ResponsesAre, <1>1, <1>2, <1>5, MiddlewareEnds
<1>6. CASE requests' = [requests EXCEPT ![q] = goesOn(@, TRUE)]
  <2>1. requests[q].pos \in Inner \cup {5} BY <1>2 DEF Inner
  <2>2. PICK handler \in BOOLEAN : handler = TRUE OBVIOUS
  <2>3. [requests[q] EXCEPT !.response = before] = requests[q] BY <1>3 DEF EngineInv, CallRecords
  <2>4. requests' = [requests EXCEPT ![q] = goesOn([@ EXCEPT !.response = before], handler)]
    BY <1>6, <2>2, <2>3
  <2> QED BY <1>1, <1>2, <1>4, <2>1, <2>4, MiddlewareGoesOn
<1> QED BY <1>5, <1>6 DEF asyncMiddleware

\* It throws although it has passed the request on.
LEMMA AsyncThrows ==
  ASSUME EngineAssumption, EngineInv, NEW q \in Requests, asyncThrows(q)
  PROVE  EngineInv'
<1>1. isAt(q, "async") /\ UNCHANGED <<lastKind, streamVars, activityLog>> BY DEF asyncThrows
<1>2. requests[q].step = "down" /\ requests[q].pos \in {4, 5} BY <1>1, AtPlace, Places5
<1>3. PICK c \in CallRecords : c = requests[q] BY <1>1, AtPlace
<1>4. PICK log \in Logs : log = activityLog[q] BY <1>1, AtPlace
<1>5. OnWay(q, c, log) /\ lastKind \in {"async", "stream"} BY <1>1, <1>3, <1>4, AtPlace
<1>6. PICK response \in Responses : response = withError(c.response) BY ResponsesAre DEF CallRecords
<1>7. hasError(response) /\ response # Nothing BY <1>6, ResponsesAre DEF CallRecords
<1>8. PICK handler \in BOOLEAN : handler = TRUE OBVIOUS
<1>9. PICK p \in Places : p = c.pos BY DEF CallRecords
<1> DEFINE e == goesOn(c, handler)
           d == [e EXCEPT !.response = response, !.deaf = @ \cup {p}]
<1>10. requests' = [requests EXCEPT ![q] = IF c.pos \in Inner /\ d.pos \notin Inner
                                      THEN completes(d, d.passedOn) ELSE d]
  BY <1>3, <1>6, <1>8, <1>9 DEF asyncThrows
<1>11. e \in CallRecords => d \in CallRecords BY DEF CallRecords
<1>12. e \in CallRecords =>
         /\ d.step = e.step /\ d.pos = e.pos /\ d.passedOn = e.passedOn /\ d.nested = e.nested
         /\ d.toRun = e.toRun /\ d.resumed = e.resumed /\ d.failed = e.failed
         /\ d.response = response /\ p \in d.deaf BY DEF CallRecords
<1>13. CASE c.pos = 4
  <2>1. /\ e \in CallRecords /\ OnWay(q, e, log) /\ e.step = "down" /\ e.pos = 5
    BY <1>2, <1>3, <1>13, <1>5, GoneOn DEF Inner
  <2> HIDE DEF e
  <2>2. PICK f \in CallRecords : f = d BY <1>11, <2>1
  <2>3. /\ f.pos = 5 /\ f.passedOn = <<1, 2>> /\ f.resumed = <<>> /\ f.response # Nothing /\ ~Sound(f)
        /\ log = "asked" BY <1>7, <1>12, <2>1, <2>2 DEF OnWay, Sound
  <2> HIDE DEF d
  <2>4. requests' = [requests EXCEPT ![q] = completes(f, f.passedOn)]
    BY <1>10, <1>13, <2>2, <2>3 DEF Inner
  <2>5. PICK hs \in Seq(Places) : hs = <<1, 2>> BY OuterLast
  <2>6. Falls(f.resumed \o Reverse(hs)) BY <2>3, <2>5, OuterLast, EmptyIsFirst
  <2>7. ~Has(f.resumed, 1) /\ ~Has(f.resumed, 2) BY <2>3 DEF Has
  <2>8. /\ completes(f, hs) \in CallRecords /\ CallInv(q, completes(f, hs), log)
        /\ completes(f, hs).step \in {"back", "answered"} BY <2>3, <2>6, <2>7, Completed
  <2>9. PICK g \in CallRecords : g = completes(f, hs) BY <2>8
  <2>10. requests' = [requests EXCEPT ![q] = g] /\ CallInv(q, g, log) /\ g.step # "stream"
    BY <2>3, <2>4, <2>5, <2>8, <2>9
  <2> QED BY <1>1, <1>2, <1>4, <2>10, OneCallMoves DEF streamVars
<1>14. CASE c.pos = 5
  <2>1. PICK b \in CallRecords :
          goesOn(c, handler) = b /\ b.step = "answered" /\ b.failed /\ b.resumed = <<>>
    BY <1>5, <1>14, NobodyLeft
  <2>2. e = b BY <2>1
  <2> HIDE DEF e
  <2>3. PICK f \in CallRecords : f = d BY <1>11, <2>2
  <2>4. f.step = "answered" /\ f.failed /\ f.resumed = <<>> BY <1>12, <2>1, <2>2, <2>3
  <2> HIDE DEF d
  <2>5. requests' = [requests EXCEPT ![q] = f] BY <1>10, <1>14, <2>3 DEF Inner
  <2>6. CallInv(q, f, log) BY <2>4 DEF CallInv, Answered, Falls, Sound
  <2> QED BY <1>1, <1>2, <1>4, <2>4, <2>5, <2>6, OneCallMoves DEF streamVars
<1> QED BY <1>2, <1>3, <1>13, <1>14

-----------------------------------------------------------------------------

\* The stream: a request is known by its own id while it waits.
LEMMA SentToStream ==
  ASSUME EngineAssumption, EngineInv, NEW q \in Requests, sendToStream(q)
  PROVE  EngineInv'
<1>1. isAt(q, "stream") /\ UNCHANGED <<lastKind, activityLog>> BY DEF sendToStream
<1>2. PICK c \in CallRecords : c = requests[q] BY <1>1, AtPlace
<1>3. c.step = "down" /\ c.pos = 5 /\ OnWay(q, c, activityLog[q]) BY <1>1, <1>2, AtPlace, Places5
<1>4. PICK d \in CallRecords : d = [c EXCEPT !.step = "stream"] BY DEF CallRecords
<1>5. /\ d.step = "stream" /\ d.pos = c.pos /\ d.id = c.id /\ d.passedOn = c.passedOn
      /\ d.response = c.response /\ d.nested = c.nested /\ d.toRun = c.toRun
      /\ d.resumed = c.resumed /\ d.deaf = c.deaf /\ d.failed = c.failed BY <1>4 DEF CallRecords
<1>6. OnWay(q, d, activityLog[q]) BY <1>3, <1>5 DEF OnWay, Sound
<1>7. CallInv(q, d, activityLog[q]) BY <1>3, <1>5, <1>6 DEF CallInv
<1>8. requests' = [requests EXCEPT ![q] = d] /\ idMap' = [idMap EXCEPT ![q] = q]
  <2>1. c.id = q BY <1>3 DEF OnWay
  <2> QED BY <1>2, <1>4, <2>1 DEF sendToStream
<1>9. /\ requests' \in [Requests -> CallRecords]
      /\ \A r \in Requests : requests'[r] = IF r = q THEN d ELSE requests[r] BY <1>8 DEF EngineInv
<1>10. /\ idMap' \in [Requests \cup {OwnId} -> Requests \cup {NoRequest}]
       /\ \A i \in Requests \cup {OwnId} : idMap'[i] = IF i = q THEN q ELSE idMap[i]
  BY <1>8 DEF EngineInv, KnownIds
<1>11. \A r \in Requests : CallInv(r, requests'[r], activityLog'[r])
  <2> SUFFICES ASSUME NEW r \in Requests PROVE CallInv(r, requests'[r], activityLog'[r]) OBVIOUS
  <2>1. CASE r = q BY <1>1, <1>7, <1>9, <2>1
  <2>2. CASE r # q BY <1>1, <1>9, <2>2 DEF EngineInv
  <2> QED BY <2>1, <2>2
<1>12. KnownIds' BY <1>5, <1>9, <1>10 DEF EngineInv, KnownIds
<1> QED BY <1>1, <1>9, <1>11, <1>12 DEF EngineInv

LEMMA ResponseReceived ==
  ASSUME EngineAssumption, EngineInv, NEW q \in Requests, NEW response \in {"result", "error"},
         responseReceived(q, response)
  PROVE  EngineInv'
<1>1. UNCHANGED <<lastKind, activityLog>> BY DEF responseReceived
<1>2. CASE idMap[q] = NoRequest BY <1>2, <1>1 DEF responseReceived, newId, EngineInv, KnownIds
<1>3. CASE idMap[q] # NoRequest
  <2>1. idMap[q] = q /\ requests[q].step = "stream" BY <1>3 DEF EngineInv, KnownIds
  <2>2. PICK c \in CallRecords : c = requests[q] BY DEF EngineInv
  <2>3. PICK log \in Logs : log = activityLog[q] BY DEF EngineInv, Logs
  <2>4. OnWay(q, c, log) /\ c.pos = 5 BY <2>1, <2>2, <2>3 DEF EngineInv, CallInv
  <2>5. PICK answer \in Responses :
          answer = IF hasError(c.response) THEN "both" ELSE response BY DEF Responses
  <2>6. /\ ends(c, answer) \in CallRecords /\ CallInv(q, ends(c, answer), log)
        /\ ends(c, answer).step \in {"back", "answered"} BY <2>4, Ended
  <2>7. PICK d \in CallRecords : d = ends(c, answer) BY <2>6
  <2>8. requests' = [requests EXCEPT ![q] = d] /\ idMap' = [idMap EXCEPT ![q] = NoRequest]
    BY <1>3, <2>1, <2>2, <2>5, <2>7 DEF responseReceived, newId
  <2>9. /\ requests' \in [Requests -> CallRecords]
        /\ \A r \in Requests : requests'[r] = IF r = q THEN d ELSE requests[r] BY <2>8 DEF EngineInv
  <2>10. /\ idMap' \in [Requests \cup {OwnId} -> Requests \cup {NoRequest}]
         /\ \A i \in Requests \cup {OwnId} : idMap'[i] = IF i = q THEN NoRequest ELSE idMap[i]
    BY <2>8 DEF EngineInv, KnownIds
  <2>11. CallInv(q, d, log) /\ d.step # "stream" BY <2>6, <2>7
  <2>12. \A r \in Requests : CallInv(r, requests'[r], activityLog'[r])
    <3> SUFFICES ASSUME NEW r \in Requests PROVE CallInv(r, requests'[r], activityLog'[r]) OBVIOUS
    <3>1. CASE r = q BY <1>1, <2>3, <2>9, <2>11, <3>1
    <3>2. CASE r # q BY <1>1, <2>9, <3>2 DEF EngineInv
    <3> QED BY <3>1, <3>2
  <2>13. KnownIds' BY <2>9, <2>10, <2>11 DEF EngineInv, KnownIds, EngineAssumption
  <2> QED BY <1>1, <2>9, <2>12, <2>13 DEF EngineInv
<1> QED BY <1>2, <1>3

-----------------------------------------------------------------------------

\* The next handler of a call has been run.
LEMMA ResumedIs ==
  ASSUME NEW c \in CallRecords, c.toRun # <<>>
  PROVE  \E d \in CallRecords :
           /\ d = resumed(c)
           /\ d.step = c.step /\ d.pos = c.pos /\ d.id = c.id /\ d.response = c.response
           /\ d.passedOn = c.passedOn /\ d.nested = c.nested
           /\ d.failed = c.failed /\ d.deaf = c.deaf
           /\ AllOf(d) = AllOf(c)
           /\ \A x : Has(d.resumed, x) <=> Has(c.resumed, x) \/ x = Head(c.toRun)
<1>1. PICK s \in Seq(Places) : s = c.resumed BY DEF CallRecords
<1>2. PICK t \in Seq(Places) : t = c.toRun BY DEF CallRecords
<1>3. /\ Tail(t) \in Seq(Places) /\ Append(s, Head(t)) \in Seq(Places)
      /\ Append(s, Head(t)) \o Tail(t) = s \o t
      /\ \A x : Has(Append(s, Head(t)), x) <=> Has(s, x) \/ x = Head(t)
  <2>1. t # <<>> BY <1>2
  <2> QED BY <2>1, MovedOn
<1>4. PICK a \in Seq(Places) : a = Append(s, Head(t)) BY <1>3
<1>5. PICK r \in Seq(Places) : r = Tail(t) BY <1>3
<1>6. PICK d \in CallRecords : d = [c EXCEPT !.toRun = r, !.resumed = a] BY DEF CallRecords
<1>7. d = resumed(c) BY <1>1, <1>2, <1>4, <1>5, <1>6 DEF resumed
<1>8. /\ d.step = c.step /\ d.pos = c.pos /\ d.id = c.id /\ d.response = c.response
      /\ d.passedOn = c.passedOn /\ d.nested = c.nested
      /\ d.failed = c.failed /\ d.deaf = c.deaf
      /\ d.resumed = a /\ d.toRun = r BY <1>6 DEF CallRecords
<1>9. AllOf(d) = AllOf(c) BY <1>1, <1>2, <1>3, <1>4, <1>5, <1>8 DEF AllOf
<1>10. \A x : Has(d.resumed, x) <=> Has(c.resumed, x) \/ x = Head(c.toRun)
  BY <1>1, <1>2, <1>3, <1>4, <1>8
<1> QED BY <1>7, <1>8, <1>9, <1>10

\* Only handlers of the nested engine are run while it completes the request.
LEMMA InnerOnly ==
  ASSUME NEW c \in CallRecords, NEW log, InNested(c, log)
  PROVE  /\ c.resumed \in Seq(Inner) /\ Falls(c.resumed)
         /\ ~Has(c.resumed, 1) /\ ~Has(c.resumed, 2)
         /\ c.toRun # <<>> => Head(c.toRun) \in Inner
<1>1. PICK n \in Seq(Inner) : n = c.nested BY DEF CallRecords
<1>2. PICK s \in Seq(Places) : s = c.resumed BY DEF CallRecords
<1>3. PICK t \in Seq(Places) : t = c.toRun BY DEF CallRecords
<1>4. PICK r \in Seq(Inner) : r = Reverse(n) BY NestedFirst
<1>5. s \o t = r /\ Rises(n) BY <1>1, <1>2, <1>3, <1>4 DEF InNested, AllOf
<1>6. Falls(r) BY <1>4, <1>5, WholeOrder
<1>7. Falls(s)
  <2>1. Places \in SUBSET Nat BY DEF Places
  <2> QED BY <1>5, <1>6, <2>1, FallsFirst
<1>8. /\ Len(s) \in Nat /\ Len(t) \in Nat /\ Len(r) = Len(s) + Len(t)
      /\ \A i \in 1..Len(s) : r[i] = s[i]
      /\ \A i \in 1..Len(t) : r[i + Len(s)] = t[i] BY <1>5, PairOfLists
<1>9. \A i \in 1..Len(r) : r[i] \in Inner BY ElementOfSeq
<1>10. \A i \in 1..Len(s) : s[i] \in Inner BY <1>8, <1>9
<1>11. s \in Seq(Inner) BY <1>10, LenProperties
<1>12. ~Has(s, 1) /\ ~Has(s, 2)
  <2>1. \A i \in DOMAIN s : s[i] \in Inner BY <1>10, LenProperties
  <2>2. \A i \in DOMAIN s : s[i] # 1 /\ s[i] # 2 BY <2>1 DEF Inner
  <2> QED BY <2>2 DEF Has
<1>13. ASSUME t # <<>> PROVE Head(t) \in Inner BY <1>13, EmptySeq, <1>8, <1>9
<1> QED BY <1>2, <1>3, <1>7, <1>11, <1>12, <1>13

LEMMA ReadyIs ==
  ASSUME EngineInv, NEW q \in Requests, ready(q)
  PROVE  /\ requests[q] \in CallRecords /\ requests[q].step \in {"inner", "back"}
         /\ requests[q].toRun # <<>> /\ Head(requests[q].toRun) \in Places
         /\ activityLog[q] \in Logs /\ lastKind \in {"async", "stream"}
         /\ requests[q].step = "inner" => InNested(requests[q], activityLog[q])
         /\ requests[q].step = "back" => OnWayBack(requests[q], activityLog[q])
BY HeadTailProperties DEF EngineInv, ready, CallRecords, Logs, CallInv

LEMMA HandlerRun ==
  ASSUME NEW q \in Requests, NEW c \in CallRecords, NEW log \in Logs, c.step \in {"inner", "back"},
         CallInv(q, c, log), c.toRun # <<>>, Head(c.toRun) \notin {1, 2}
  PROVE  resumed(c) \in CallRecords /\ CallInv(q, resumed(c), log) /\ resumed(c).step # "stream"
<1>1. PICK d \in CallRecords :
         /\ d = resumed(c)
         /\ d.step = c.step /\ d.pos = c.pos /\ d.id = c.id /\ d.response = c.response
         /\ d.passedOn = c.passedOn /\ d.nested = c.nested
         /\ d.failed = c.failed /\ d.deaf = c.deaf
         /\ AllOf(d) = AllOf(c)
         /\ \A x : Has(d.resumed, x) <=> Has(c.resumed, x) \/ x = Head(c.toRun) BY ResumedIs
<1>2. Sound(d) <=> Sound(c) BY <1>1 DEF Sound
<1>3. CASE c.step = "inner" BY <1>3, <1>1, <1>2 DEF CallInv, InNested
<1>4. CASE c.step = "back" BY <1>4, <1>1, <1>2 DEF CallInv, OnWayBack, InOrder, Logged
<1> QED BY <1>3, <1>4

LEMMA IdRestored ==
  ASSUME EngineAssumption, EngineInv, NEW q \in Requests, idRestored(q)
  PROVE  EngineInv'
<1>1. ready(q) /\ Stack[Head(requests[q].toRun)] = "remap" /\ UNCHANGED <<lastKind, streamVars, activityLog>>
  BY DEF idRestored
<1>2. PICK c \in CallRecords : c = requests[q] BY <1>1, ReadyIs
<1>3. PICK log \in Logs : log = activityLog[q] BY <1>1, ReadyIs
<1>4. Head(c.toRun) = 1 BY <1>1, <1>2, ReadyIs, Places5
<1>5. c.step = "back" /\ OnWayBack(c, log) /\ c.toRun # <<>>
  BY <1>1, <1>2, ReadyIs, InnerOnly, <1>3, <1>4 DEF Inner
<1>6. PICK d \in CallRecords :
         /\ d = resumed(c)
         /\ d.step = c.step /\ d.pos = c.pos /\ d.id = c.id /\ d.response = c.response
         /\ d.passedOn = c.passedOn /\ d.nested = c.nested
         /\ d.failed = c.failed /\ d.deaf = c.deaf
         /\ AllOf(d) = AllOf(c)
         /\ \A x : Has(d.resumed, x) <=> Has(c.resumed, x) \/ x = Head(c.toRun) BY <1>5, ResumedIs
<1>7. PICK e \in CallRecords : e = [d EXCEPT !.id = OwnId] BY DEF CallRecords
<1>8. /\ e.step = d.step /\ e.id = OwnId /\ e.response = d.response
      /\ e.passedOn = d.passedOn /\ e.nested = d.nested /\ e.failed = d.failed /\ e.deaf = d.deaf
      /\ e.resumed = d.resumed /\ e.toRun = d.toRun BY <1>7 DEF CallRecords
<1>9. requests' = [requests EXCEPT ![q] = e] BY <1>2, <1>6, <1>7 DEF idRestored
<1>10. AllOf(e) = AllOf(c) /\ (Sound(e) <=> Sound(c)) /\ InOrder(e) = InOrder(c)
  BY <1>6, <1>8 DEF AllOf, Sound, InOrder
<1>11. Has(e.resumed, 2) <=> Has(c.resumed, 2) BY <1>4, <1>6, <1>8
<1>12. OnWayBack(e, log) BY <1>5, <1>6, <1>8, <1>10, <1>11 DEF OnWayBack, Logged
<1>13. CallInv(q, e, log) /\ e.step # "stream" /\ requests[q].step # "stream"
  BY <1>2, <1>5, <1>6, <1>8, <1>12 DEF CallInv
<1> QED BY <1>1, <1>3, <1>9, <1>13, OneCallMoves DEF streamVars

LEMMA ResponseLogged ==
  ASSUME EngineAssumption, EngineInv, NEW q \in Requests, logResponse(q)
  PROVE  EngineInv'
<1>1. ready(q) /\ Stack[Head(requests[q].toRun)] = "log" /\ UNCHANGED <<lastKind, streamVars>>
  BY DEF logResponse
<1>2. PICK c \in CallRecords : c = requests[q] BY <1>1, ReadyIs
<1>3. PICK log \in Logs : log = activityLog[q] BY <1>1, ReadyIs
<1>4. Head(c.toRun) = 2 BY <1>1, <1>2, ReadyIs, Places5
<1>5. c.step = "back" /\ OnWayBack(c, log) /\ c.toRun # <<>>
  BY <1>1, <1>2, ReadyIs, InnerOnly, <1>3, <1>4 DEF Inner
<1>6. PICK d \in CallRecords :
         /\ d = resumed(c)
         /\ d.step = c.step /\ d.pos = c.pos /\ d.id = c.id /\ d.response = c.response
         /\ d.passedOn = c.passedOn /\ d.nested = c.nested
         /\ d.failed = c.failed /\ d.deaf = c.deaf
         /\ AllOf(d) = AllOf(c)
         /\ \A x : Has(d.resumed, x) <=> Has(c.resumed, x) \/ x = Head(c.toRun) BY <1>5, ResumedIs
<1>7. PICK new \in Logs : new = IF hasResult(c.response) THEN "result" ELSE "error" BY DEF Logs
<1>8. requests' = [requests EXCEPT ![q] = d] BY <1>2, <1>6 DEF logResponse
<1>9. /\ activityLog' \in [Requests -> Logs] /\ activityLog'[q] = new
      /\ \A r \in Requests \ {q} : activityLog'[r] = activityLog[r]
  BY <1>2, <1>7, <1>3, <1>5 DEF logResponse, newId, EngineInv, Logs, OnWayBack
<1>10. Has(d.resumed, 1) <=> Has(c.resumed, 1) BY <1>4, <1>6
<1>11. Sound(d) <=> Sound(c) BY <1>6 DEF Sound
<1>12. new # Nothing BY <1>7 DEF Nothing
<1>13. OnWayBack(d, new) BY <1>5, <1>6, <1>7, <1>10, <1>11, <1>12 DEF OnWayBack, Logged, InOrder
<1>14. CallInv(q, d, activityLog'[q]) /\ d.step # "stream" /\ requests[q].step # "stream"
  BY <1>2, <1>5, <1>6, <1>9, <1>13 DEF CallInv
<1> QED BY <1>1, <1>8, <1>9, <1>14, OneCallChanges DEF streamVars

LEMMA ReturnHandler ==
  ASSUME EngineAssumption, EngineInv, NEW q \in Requests, NEW throws \in BOOLEAN, returnHandler(q, throws)
  PROVE  EngineInv'
<1>1. /\ ready(q) /\ Stack[Head(requests[q].toRun)] \in {"plain", "async"}
      /\ UNCHANGED <<lastKind, streamVars, activityLog>> BY DEF returnHandler
<1>2. PICK c \in CallRecords : c = requests[q] BY <1>1, ReadyIs
<1>3. PICK log \in Logs : log = activityLog[q] BY <1>1, ReadyIs
<1>4. CallInv(q, c, log) /\ c.step \in {"inner", "back"} /\ c.toRun # <<>> /\ requests[q].step # "stream"
  BY <1>1, <1>2, <1>3, ReadyIs DEF EngineInv
<1>5. CASE ~throws
  BY <1>1, <1>2, ReadyIs, Places5, <1>4, HandlerRun, <1>5, <1>3, OneCallMoves DEF returnHandler, streamVars
<1>6. CASE throws /\ c.step = "back"
  <2>1. PICK d \in CallRecords : d = [c EXCEPT !.failed = TRUE, !.step = "answered", !.response = "error"]
    BY DEF CallRecords, Responses
  <2>2. answers([c EXCEPT !.failed = TRUE], "error") = d BY <2>1 DEF answers, hasError, CallRecords
  <2>3. d.step = "answered" /\ d.failed /\ d.resumed = c.resumed BY <2>1 DEF CallRecords
  <2>4. Falls(d.resumed)
    <3>1. Falls(AllOf(c)) BY <1>4, <1>6 DEF CallInv, OnWayBack
    <3>2. c.resumed \in Seq(Places) /\ c.toRun \in Seq(Places) /\ Places \in SUBSET Nat
      BY DEF CallRecords, Places
    <3> QED BY <2>3, <3>1, <3>2, FallsFirst DEF AllOf
  <2>5. CallInv(q, d, log) BY <2>3, <2>4 DEF CallInv, Answered, Sound
  <2>6. requests' = [requests EXCEPT ![q] = d] BY <1>2, <1>6, <2>2 DEF returnHandler
  <2> QED BY <1>1, <1>3, <1>4, <2>3, <2>5, <2>6, OneCallMoves DEF streamVars
<1>7. CASE throws /\ c.step = "inner"
  <2>1. PICK d \in CallRecords : d = [c EXCEPT !.failed = TRUE, !.response = withError(c.response)]
    BY ResponsesAre DEF CallRecords
  <2>2. d.resumed = c.resumed /\ d.passedOn = c.passedOn /\ ~Sound(d) BY <2>1 DEF CallRecords, Sound
  <2>3. InNested(c, log) BY <1>4, <1>7 DEF CallInv
  <2>4. /\ d.resumed \in Seq(Inner) /\ Falls(d.resumed)
        /\ ~Has(d.resumed, 1) /\ ~Has(d.resumed, 2) BY <2>2, <2>3, InnerOnly
  <2>5. PICK hs \in Seq(Places) : hs = <<1, 2>> BY OuterLast
  <2>6. Falls(d.resumed \o Reverse(hs)) BY <2>4, <2>5, NestedThenOuter
  <2>7. d.passedOn = hs /\ log = "asked" BY <2>2, <2>3, <2>5 DEF InNested
  <2>8. /\ completes(d, hs) \in CallRecords /\ CallInv(q, completes(d, hs), log)
        /\ completes(d, hs).step \in {"back", "answered"} BY <2>2, <2>4, <2>5, <2>6, <2>7, Completed
  <2>9. PICK e \in CallRecords : e = completes(d, hs) BY <2>8
  <2>10. requests' = [requests EXCEPT ![q] = e]
    BY <1>2, <1>7, <2>1, <2>2, <2>7, <2>9 DEF returnHandler
  <2> QED BY <1>1, <1>3, <1>4, <2>8, <2>9, <2>10, OneCallMoves DEF streamVars
<1> QED BY <1>4, <1>5, <1>6, <1>7

LEMMA ReturnHandlersDone ==
  ASSUME EngineAssumption, EngineInv, NEW q \in Requests, returnHandlersDone(q)
  PROVE  EngineInv'
<1>1. PICK c \in CallRecords : c = requests[q] BY DEF EngineInv
<1>2. PICK log \in Logs : log = activityLog[q] BY DEF EngineInv, Logs
<1>3. /\ c.step \in {"inner", "back"} /\ c.toRun = <<>> /\ CallInv(q, c, log)
      /\ UNCHANGED <<lastKind, streamVars, activityLog>>
      /\ requests[q].step # "stream" BY <1>1, <1>2 DEF returnHandlersDone, EngineInv
<1>4. AllOf(c) = c.resumed BY <1>3, EmptyIsFirst DEF CallRecords, AllOf
<1>5. CASE c.step = "inner"
  <2>1. InNested(c, log) BY <1>3, <1>5 DEF CallInv
  <2>2. /\ c.resumed \in Seq(Inner) /\ Falls(c.resumed)
        /\ ~Has(c.resumed, 1) /\ ~Has(c.resumed, 2) BY <2>1, InnerOnly
  <2>3. PICK hs \in Seq(Places) : hs = <<1, 2>> BY OuterLast
  <2>4. Falls(c.resumed \o Reverse(hs)) BY <2>2, <2>3, NestedThenOuter
  <2>5. c.passedOn = hs /\ log = "asked" /\ c.resumed = Reverse(c.nested) /\ Rises(c.nested)
    BY <1>4, <2>1, <2>3 DEF InNested
  <2>6. c.resumed \o Reverse(hs) = InOrder(c) BY <2>3, <2>5, WholeOrder DEF CallRecords, InOrder
  <2>7. /\ completes(c, hs) \in CallRecords /\ CallInv(q, completes(c, hs), log)
        /\ completes(c, hs).step \in {"back", "answered"} BY <2>2, <2>3, <2>4, <2>5, <2>6, Completed
  <2>8. PICK d \in CallRecords : d = completes(c, hs) BY <2>7
  <2>9. requests' = [requests EXCEPT ![q] = d] BY <1>1, <1>5, <2>5, <2>8 DEF returnHandlersDone
  <2> QED BY <1>2, <1>3, <2>7, <2>8, <2>9, OneCallMoves DEF streamVars
<1>6. CASE c.step = "back"
  <2>1. OnWayBack(c, log) BY <1>3, <1>6 DEF CallInv
  <2>2. PICK response \in Responses : response = IF hasError(c.response) THEN "error" ELSE c.response
    BY ResponsesAre DEF CallRecords
  <2>3. PICK d \in CallRecords : d = [c EXCEPT !.step = "answered", !.response = response]
    BY DEF CallRecords
  <2>4. answers(c, c.response) = d BY <2>2, <2>3 DEF answers
  <2>5. /\ d.step = "answered" /\ d.resumed = c.resumed /\ d.id = c.id /\ d.response = response
        /\ InOrder(d) = InOrder(c) /\ (Sound(d) <=> Sound(c))
    BY <2>3 DEF CallRecords, InOrder, Sound
  <2>6. Falls(d.resumed) BY <1>4, <2>1, <2>5 DEF OnWayBack
  <2>7. ASSUME Sound(d)
        PROVE  /\ d.resumed = InOrder(d) /\ d.id = OwnId
               /\ d.response = "result" => log = "result"
               /\ log = "error" => d.response = "error"
    BY <1>4, <2>1, <2>5, <2>7, WholeHas, <2>2 DEF OnWayBack, CallRecords, InOrder, Logged, Responses,
       hasResult, hasError
  <2>8. CallInv(q, d, log) BY <2>5, <2>6, <2>7 DEF CallInv, Answered
  <2>9. requests' = [requests EXCEPT ![q] = d] BY <1>1, <1>6, <2>4 DEF returnHandlersDone
  <2> QED BY <1>2, <1>3, <2>5, <2>8, <2>9, OneCallMoves DEF streamVars
<1> QED BY <1>3, <1>5, <1>6

LEMMA EngineSteps == ASSUME EngineAssumption, EngineInv, EngineNext PROVE EngineInv'
<1>1. ASSUME NEW q \in Requests, callGoesOn(q) PROVE EngineInv'
  <2>1. CASE logRequest(q) BY <2>1, RequestLogged
  <2>2. CASE idRemapMiddleware(q) BY <2>2, IdsRemapped
  <2>3. CASE plainMiddleware(q) BY <2>3, PlainMiddleware
  <2>4. CASE asyncMiddleware(q) BY <2>4, AsyncMiddleware
  <2>5. CASE sendToStream(q) BY <2>5, SentToStream
  <2>6. CASE logResponse(q) BY <2>6, ResponseLogged
  <2>7. CASE idRestored(q) BY <2>7, IdRestored
  <2>8. CASE returnHandler(q, FALSE) BY <2>8, ReturnHandler
  <2>9. CASE returnHandlersDone(q) BY <2>9, ReturnHandlersDone
  <2> QED BY <1>1, <2>1, <2>2, <2>3, <2>4, <2>5, <2>6, <2>7, <2>8, <2>9 DEF callGoesOn
<1>2. ASSUME NEW q \in Requests, handle(q) PROVE EngineInv' BY <1>2, Handled
<1>3. ASSUME NEW q \in Requests, asyncThrows(q) PROVE EngineInv' BY <1>3, AsyncThrows
<1>4. ASSUME NEW q \in Requests, returnHandler(q, TRUE) PROVE EngineInv' BY <1>4, ReturnHandler
<1>5. ASSUME NEW q \in Requests, messageLost(q) PROVE EngineInv'
  BY <1>5 DEF messageLost, EngineInv, KnownIds
<1>6. ASSUME NEW q \in Requests, NEW response \in {"result", "error"}, responseReceived(q, response)
      PROVE  EngineInv' BY <1>6, ResponseReceived
<1>7. ASSUME retryStuckRequests PROVE EngineInv' BY <1>7 DEF retryStuckRequests, EngineInv, KnownIds
<1> QED BY <1>1, <1>2, <1>3, <1>4, <1>5, <1>6, <1>7 DEF EngineNext

LEMMA EngineIdle == ASSUME EngineInv, UNCHANGED engineVars PROVE EngineInv'
BY DEF engineVars, streamVars, EngineInv, KnownIds

LEMMA AnsweredSo == ASSUME EngineInv PROVE AnsweredAsAsked
<1> SUFFICES ASSUME NEW q \in Requests, requests[q] # NoCall
             PROVE  LET c == requests[q] IN
                    /\ \A i, j \in DOMAIN c.resumed : i < j => c.resumed[i] > c.resumed[j]
                    /\ c.step = "answered" /\ ~c.failed /\ c.deaf = {} =>
                         /\ c.resumed = Reverse(c.passedOn \o c.nested)
                         /\ c.id = OwnId
                         /\ c.response = "result" => activityLog[q] = "result"
                         /\ activityLog[q] = "error" => c.response = "error"
                    /\ c.step = "stream" => idMap[c.id] = q BY DEF AnsweredAsAsked
<1>1. PICK c \in CallRecords : c = requests[q] BY DEF EngineInv
<1>2. CallInv(q, c, activityLog[q]) BY <1>1 DEF EngineInv
<1>3. Falls(c.resumed)
  <2>1. CASE c.step \in {"down", "stream"} BY <1>2, <2>1 DEF CallInv, OnWay, Falls
  <2>2. CASE c.step = "inner" BY <1>2, <2>2, InnerOnly DEF CallInv
  <2>3. CASE c.step = "back"
    <3>1. Falls(AllOf(c)) BY <1>2, <2>3 DEF CallInv, OnWayBack
    <3>2. c.resumed \in Seq(Places) /\ c.toRun \in Seq(Places) /\ Places \in SUBSET Nat
      BY DEF CallRecords, Places
    <3> QED BY <3>1, <3>2, FallsFirst DEF AllOf
  <2>4. CASE c.step = "answered" BY <1>2, <2>4 DEF CallInv, Answered
  <2>5. c.step # "idle" BY <1>1, <1>2 DEF CallInv
  <2>6. c.step \in {"idle", "down", "stream", "inner", "back", "answered"} BY DEF CallRecords
  <2> QED BY <2>1, <2>2, <2>3, <2>4, <2>5, <2>6
<1>4. c.step = "answered" /\ ~c.failed /\ c.deaf = {} =>
        /\ c.resumed = Reverse(c.passedOn \o c.nested) /\ c.id = OwnId
        /\ c.response = "result" => activityLog[q] = "result"
        /\ activityLog[q] = "error" => c.response = "error"
  BY <1>2 DEF CallInv, Answered, Sound, InOrder
<1>5. c.step = "stream" => idMap[c.id] = q BY <1>2, <1>1 DEF CallInv, OnWay, EngineInv, KnownIds
<1> QED BY <1>1, <1>3, <1>4, <1>5 DEF Falls

-----------------------------------------------------------------------------

(***************************************************************************)
(* The services together.                                                  *)
(***************************************************************************)
ServicesInv == PollsInv /\ RatesInv /\ BalancesInv /\ EngineInv

LEMMA ServicesInitially == ServicesInit => ServicesInv
BY PollingAssumption, RatesAssumption, TrackerAssumption, EngineAssumption, InitialPolls, InitialRates,
   InitialBalances, InitialEngine DEF ServicesInit, ServicesInv

\* One part goes on, and the others are as they were.
LEMMA ServicesSteps == ASSUME ServicesInv, [ServicesNext]_servicesVars PROVE ServicesInv'
<1>1. PollsInv /\ RatesInv /\ BalancesInv /\ EngineInv BY DEF ServicesInv
<1>2. PollsInv'
  BY <1>1, PollingAssumption, PollsStep, PollsIdle DEF ServicesNext, pollingSteps, exchangeSteps,
     balancesSteps, engineSteps, servicesVars
<1>3. RatesInv'
  BY <1>1, RatesAssumption, CurrencySteps, RatesSteps, PriceSteps, RatesIdle DEF ServicesNext, pollingSteps,
     exchangeSteps, balancesSteps, engineSteps, servicesVars
<1>4. BalancesInv'
  BY <1>1, TrackerAssumption, BalancesSteps, BalancesIdle DEF ServicesNext, pollingSteps, exchangeSteps,
     balancesSteps, engineSteps, servicesVars
<1>5. EngineInv'
  BY <1>1, EngineAssumption, EngineSteps, EngineIdle DEF ServicesNext, pollingSteps, exchangeSteps,
     balancesSteps, engineSteps, servicesVars
<1> QED BY <1>2, <1>3, <1>4, <1>5 DEF ServicesInv

(***************************************************************************)
(* Whatever keys, currencies, networks, users and requests there are: a    *)
(* key that somebody asks for is polled, by one loop; the rates are in the *)
(* currency that is set; what the answers write is of its type; and the    *)
(* return handlers of a request run in order, restore its id and log its   *)
(* success.                                                                *)
(***************************************************************************)
THEOREM ServicesAlwaysInStep == ServicesSpec => []ServicesStayInStep
<1>1. ServicesInv => ServicesStayInStep
  BY AnsweredSo DEF ServicesInv, PollsInv, RatesInv, BalancesInv, ServicesStayInStep
<1> QED BY <1>1, ServicesInitially, ServicesSteps, PTL DEF ServicesSpec
=============================================================================
