-------------------------------- MODULE Wallet --------------------------------
(***************************************************************************)
(* The keyrings with the accounts and identities that follow them, and     *)
(* what their own users do: select one, or have the list read again.       *)
(***************************************************************************)
EXTENDS KeyringController

vars == <<keyringVars, followers>>

Addresses == (Seeds \cup Keys \cup {QR}) \X (1..MaxSize)

Call == [step : {"idle", "clearing", "restoring", "persisting", "unlocking"},
         kind : Kinds, asked : Passwords \cup {Empty, NoPassword},
         saved : Seq(Keyring), savedPassword : Passwords \cup {Empty, NoPassword},
         todo : Seq(Keyring),
         then : {"idle", "rolledBack", "created", "decrypted", "locked"}]

TypeOK ==
  /\ keyrings \in Seq(Keyring) /\ unsupportedKeyrings \in Seq(Keyring)
  /\ password \in Passwords \cup {Empty, NoPassword}
  /\ vault \in {NoVault} \cup [password : Passwords, content : Seq(Keyring)]
  /\ shown \in Seq(Keyring)
  /\ {isUnlocked, cacheEncryptionKey, overlapped} \subseteq BOOLEAN
  /\ encryptionKey \in {NoPassword} \cup (IF cacheEncryptionKey THEN Passwords ELSE {})
  /\ op \in Call
  /\ {qrWaiting, calls, updates} \subseteq Nat
  /\ chosen \in Passwords \cup {Empty, NoPassword}
  /\ accounts \subseteq Addresses /\ recency \in Seq(Addresses)
  /\ selectedAccount \in Addresses \cup {NoAccount}
  /\ identities \subseteq Addresses /\ selectedAddress \in Addresses \cup {NoAddress}
  /\ updating \in [todo : SUBSET Addresses, found : SUBSET Addresses, busy : BOOLEAN]

Init == KeyringInit

updatesAccounts ==
  /\ \/ updateAccounts(addressesOf(shown))
     \/ \E a \in updating.todo : accountLookedUp(a, firstWith(keyrings, a) # {})
     \/ accountsUpdated
  /\ UNCHANGED <<keyringVars, identityVars>>

selects(a) ==
  /\ setSelectedAccount(a)
  /\ UNCHANGED <<keyringVars, identityVars>>

\* The users of the identities select one of them.
selectsIdentity(a) ==
  /\ a # selectedAddress
  /\ setSelectedAddress(a)
  /\ UNCHANGED <<keyringVars, accountsVars>>

Next ==
  \/ KeyringNext
  \/ updatesAccounts
  \/ \E a \in accounts : selects(a)
  \/ \E a \in identities : selectsIdentity(a)

Spec == Init /\ [][Next]_vars

-----------------------------------------------------------------------------

(***************************************************************************)
(* "rollback keyrings and password states in case of error"                *)
(* (withRollback): between two calls an unlocked wallet that shows         *)
(* keyrings holds exactly these, and they and what is unsupported are what *)
(* the vault holds, whatever failed before.                                *)
(***************************************************************************)
ShownIsKept ==
  op = Idle /\ isUnlocked /\ shown # <<>> =>
    /\ shown = keyrings
    /\ vault # NoVault
    /\ Contents(vault.content) = Contents(keyrings) \cup Contents(unsupportedKeyrings)

(***************************************************************************)
(* "Password to unlock keychain" (createNewVaultAndRestore), "the password *)
(* used to encrypt the vault" (changePassword): the vault always opens     *)
(* with the last password that was set.                                    *)
(***************************************************************************)
PasswordOpensVault == vault # NoVault => vault.password = chosen

\* The same without cached encryption keys.
PasswordOpensUncachedVault == cacheEncryptionKey \/ PasswordOpensVault

(***************************************************************************)
(* No failure, lock, restart or concurrent call loses what is in the       *)
(* vault: accounts disappear only if they are removed, the device is       *)
(* forgotten or the wallet is replaced, keyrings of other builds only if   *)
(* it is replaced.  (With cached keys a locked wallet can still write.)    *)
(***************************************************************************)
NothingIsLost ==
  [][~cacheEncryptionKey /\ vault # NoVault =>
       /\ op.kind \in {"restore", "keychain", "remove", "forget"} \/
            addressesOf(vault.content) \subseteq addressesOf(vault'.content)
       /\ op.kind \in {"restore", "keychain"} \/
            {k \in Contents(vault.content) : k.type = "foreign"} \subseteq Contents(vault'.content)
    ]_vars

(***************************************************************************)
(* Between two calls the accounts and the identities of an unlocked wallet *)
(* are those of its keyrings, and what is selected exists, unless          *)
(* updateAccounts overlapped with a change of the keyrings.                *)
(***************************************************************************)
FollowersAgree ==
  op = Idle /\ isUnlocked /\ shown # <<>> /\ ~overlapped =>
    /\ accounts = addressesOf(shown)
    /\ selectedAccount \in accounts \/ accounts = {}
    /\ addressesOf(shown) # {} => identities = addressesOf(shown) /\ selectedAddress \in identities
=============================================================================
