-------------------------- MODULE KeyringController --------------------------
(***************************************************************************)
(* The keyrings of the wallet and the vault they are kept in (packages/    *)
(* keyring-controller).  Every operation holds the controller's mutex from *)
(* its snapshot of the keyrings to the encryption of the vault, or to the  *)
(* end of the rollback; each action is the code between two awaits at      *)
(* which others can see the keyrings.  A call that waits for the mutex has *)
(* no state but its arguments, so a call begins when it gets the mutex;    *)
(* only getOrAddQRKeyring looks at the keyrings before it waits.           *)
(***************************************************************************)
EXTENDS AccountsController

CONSTANTS
  Passwords,      \* passwords that are not empty
  Empty,          \* the empty password
  NoPassword,     \* #password or state.encryptionKey is undefined
  Seeds,          \* secret recovery phrases
  Keys,           \* private keys to import
  QR,             \* the QR device
  Foreign,        \* what a keyring of an unsupported type holds
  NoVault,
  MaxSize,        \* accounts per keyring
  MaxCalls        \* calls that begin, and restarts

ASSUME KeyringAssumption ==
  /\ Passwords \cap {Empty, NoPassword} = {} /\ Empty # NoPassword
  /\ Keys \cap (Seeds \cup {QR, Foreign}) = {}
  /\ MaxSize \in Nat \ {0} /\ MaxCalls \in Nat

VARIABLES
  keyrings,            \* #keyrings
  unsupportedKeyrings, \* #unsupportedKeyrings
  password,            \* #password
  vault,               \* state.vault
  shown,               \* state.keyrings
  isUnlocked,          \* state.isUnlocked
  encryptionKey,       \* state.encryptionKey, by the password it derives from
  cacheEncryptionKey,  \* an option, which never changes
  op,                  \* the call that holds the mutex, and where it stands
  qrWaiting,           \* calls that will add a QR keyring when they get the mutex
  chosen,              \* history: the password of the last vault or change of it
  calls                \* how many calls have begun

memoryVars == <<keyrings, unsupportedKeyrings, password>>
stateVars == <<vault, shown, isUnlocked, encryptionKey>>
followers == <<accountsVars, identityVars>>
restVars == <<cacheEncryptionKey, qrWaiting, chosen>>
keyringVars == <<memoryVars, stateVars, restVars, op, calls>>

-----------------------------------------------------------------------------

KeyringTypes == {"hd", "simple", "qr", "foreign"}

\* A keyring has the accounts 1..size of a secret; serialized it is the same.
Keyring == [type : KeyringTypes, of : Seeds \cup Keys \cup {QR, Foreign}, size : 0..MaxSize]

ASSUME VaultAssumption == NoVault \notin [password : Passwords, content : Seq(Keyring)]

newKeyring(type, of, size) == [type |-> type, of |-> of, size |-> size]

addressesOf(ks) == UNION {{<<ks[j].of, i>> : i \in 1..ks[j].size} : j \in DOMAIN ks}
Contents(ks) == {ks[j] : j \in DOMAIN ks}

\* getKeyringsByType(type)[0], and the first keyring with an address.
firstOfType(ks, type) ==
  {j \in DOMAIN ks : ks[j].type = type /\ \A i \in 1..(j - 1) : ks[i].type # type}
firstWith(ks, a) ==
  {j \in DOMAIN ks : /\ a \in addressesOf(<<ks[j]>>)
                     /\ \A i \in 1..(j - 1) : a \notin addressesOf(<<ks[i]>>)}

Kinds == {"none", "restore", "keychain", "password", "remove", "forget", "other"}
Idle == [step |-> "idle", kind |-> "none", asked |-> NoPassword, saved |-> <<>>,
         savedPassword |-> NoPassword, todo |-> <<>>, then |-> "idle"]

KeyringInit ==
  /\ vault \in {NoVault} \cup
       {[password |-> p, content |-> <<newKeyring("hd", s, 1), newKeyring("foreign", Foreign, 0)>>] :
          p \in Passwords, s \in Seeds}
  /\ chosen = IF vault = NoVault THEN NoPassword ELSE vault.password
  /\ keyrings = <<>> /\ unsupportedKeyrings = <<>> /\ password = NoPassword
  /\ shown = <<>> /\ isUnlocked = FALSE /\ encryptionKey = NoPassword
  /\ cacheEncryptionKey \in BOOLEAN
  /\ op = Idle /\ qrWaiting = 0 /\ calls = 0
  /\ LET as == IF vault = NoVault THEN {} ELSE {<<vault.content[1].of, 1>>}
     IN AccountsInit(as) /\ IdentitiesInit(as)

-----------------------------------------------------------------------------

\* update publishes the new state; who follows it does so in the same step.
stateChanges(unlocked, ks) ==
  /\ isUnlocked' = unlocked
  /\ shown' = ks
  /\ handleOnKeyringStateChange(unlocked, ks # <<>>, addressesOf(ks))
  /\ syncIdentities(addressesOf(ks))

\* withRollback: the call has the mutex and remembers the keyrings.
begins ==
  /\ op = Idle
  /\ calls < MaxCalls
  /\ calls' = calls + 1

begun(kind, asked, step) ==
  [step |-> step, kind |-> kind, asked |-> asked, saved |-> keyrings \o unsupportedKeyrings,
   savedPassword |-> password, todo |-> <<>>, then |-> "idle"]

\* restoreSerializedKeyrings, which first destroys the keyrings there are.
restoring(o, todo, then) == [o EXCEPT !.step = "clearing", !.todo = todo, !.then = then]
failing(o) == restoring(o, o.saved, "rolledBack")

\* The call throws; the keyrings may be changed by then.
fails(kind) == op' = failing(begun(kind, NoPassword, "clearing"))
persists(kind, asked) == op' = begun(kind, asked, "persisting")

cleared ==
  /\ op.step = "clearing"
  /\ keyrings' = <<>>
  /\ op' = [op EXCEPT !.step = "restoring"]
  /\ UNCHANGED <<unsupportedKeyrings, password, stateVars, followers, restVars, calls>>

isDuplicate(k) == k.type = "simple" /\ <<k.of, 1>> \in addressesOf(keyrings)

\* Fault: a keyring of another build is dropped.
restoredIfSupported ==
  /\ op.step = "restoring" /\ op.todo # <<>>
  /\ op' = [op EXCEPT !.todo = Tail(@)]
  /\ keyrings' = IF Head(op.todo).type = "foreign" THEN keyrings
                 ELSE Append(keyrings, Head(op.todo))
  /\ UNCHANGED <<unsupportedKeyrings, password, stateVars, followers, restVars, calls>>

\* A keyring that cannot be restored is kept as it was serialized.
restored ==
  /\ op.step = "restoring" /\ op.todo # <<>>
  /\ op' = [op EXCEPT !.todo = Tail(@)]
  /\ LET k == Head(op.todo) IN
     IF k.type = "foreign" \/ isDuplicate(k)
     THEN /\ unsupportedKeyrings' = Append(unsupportedKeyrings, k)
          /\ UNCHANGED keyrings
     ELSE /\ keyrings' = Append(keyrings, k)
          /\ UNCHANGED unsupportedKeyrings
  /\ UNCHANGED <<password, stateVars, followers, restVars, calls>>

isRestored(then) == op.step = "restoring" /\ op.todo = <<>> /\ op.then = then

\* Fault: the password that could not be set is kept.
keptPassword == password

oldPassword == op.savedPassword

rolledBack ==
  /\ isRestored("rolledBack")
  /\ password' = oldPassword
  /\ op' = Idle
  /\ UNCHANGED <<keyrings, unsupportedKeyrings, stateVars, followers, restVars, calls>>

-----------------------------------------------------------------------------
(* updateVault: the keyrings are encrypted, which may fail.                *)

\* Fault: the key is remembered whether or not it may be.
keyAlways(p) == p

keyAfter(p) == IF cacheEncryptionKey THEN p ELSE encryptionKey

hasKey == cacheEncryptionKey /\ encryptionKey # NoPassword
mayEncrypt == hasKey \/ password \in Passwords

\* Fault: what this build does not support is left out of the vault.
supportedOnly == keyrings

serializedKeyrings == keyrings \o unsupportedKeyrings

vaultUpdated ==
  LET encryptedWith == IF hasKey THEN encryptionKey ELSE password IN
  /\ op.step = "persisting"
  /\ mayEncrypt
  /\ \E j \in DOMAIN serializedKeyrings : serializedKeyrings[j].type = "hd"
  /\ vault' = [password |-> encryptedWith, content |-> serializedKeyrings]
  /\ encryptionKey' = keyAfter(encryptedWith)
  /\ stateChanges(isUnlocked, keyrings)
  /\ chosen' = IF op.asked = NoPassword THEN chosen ELSE op.asked
  /\ op' = Idle
  /\ UNCHANGED <<memoryVars, cacheEncryptionKey, qrWaiting, calls>>

vaultUpdateFails ==
  /\ op.step = "persisting"
  /\ op' = failing(op)
  /\ UNCHANGED <<memoryVars, stateVars, followers, restVars, calls>>

-----------------------------------------------------------------------------
(* The operations, up to the encryption of the vault or the rollback.      *)

bodyRest == <<unsupportedKeyrings, stateVars, followers, restVars>>

persistAllKeyrings ==
  /\ begins
  /\ persists("other", NoPassword)
  /\ UNCHANGED <<keyrings, password, bodyRest>>

\* createNewVaultAndRestore: the supported keyrings go and one is made from the
\* seed.  What is unsupported stays.
createNewVaultAndRestore(p, seed) ==
  /\ begins
  /\ \/ /\ p \in Passwords
        /\ password' = p
        /\ op' = restoring(begun("restore", p, "clearing"),
                          <<newKeyring("hd", seed, 1)>>, "created")
     \/ /\ p \notin Passwords
        /\ fails("restore")
        /\ UNCHANGED password
  /\ UNCHANGED <<keyrings, bodyRest>>

\* Seeds that are generated are new.
newSeed(seed) ==
  \A k \in Contents(keyrings) \cup (IF vault = NoVault THEN {} ELSE Contents(vault.content)) :
    k.of # seed

\* createNewVaultAndKeychain does not look at the password before it is used.
createNewVaultAndKeychain(p, seed) ==
  /\ begins
  /\ newSeed(seed)
  /\ \/ /\ addressesOf(keyrings) = {}
        /\ password' = p
        /\ op' = restoring(begun("keychain", p, "clearing"),
                          <<newKeyring("hd", seed, 1)>>, "created")
     \/ /\ addressesOf(keyrings) # {}
        /\ persists("other", NoPassword)
        /\ UNCHANGED password
  /\ UNCHANGED <<keyrings, bodyRest>>

\* setUnlocked, before the vault is encrypted.
created ==
  /\ isRestored("created")
  /\ stateChanges(TRUE, shown)
  /\ op' = [op EXCEPT !.step = "persisting"]
  /\ UNCHANGED <<memoryVars, vault, encryptionKey, restVars, calls>>

changePassword(p) ==
  /\ begins
  /\ \/ /\ isUnlocked /\ p \in Passwords
        /\ password' = p
        /\ encryptionKey' = NoPassword
        /\ persists("password", p)
        /\ IF cacheEncryptionKey THEN stateChanges(isUnlocked, shown)
           ELSE UNCHANGED <<shown, isUnlocked, followers>>
     \/ /\ ~(isUnlocked /\ p \in Passwords)
        /\ fails("password")
        /\ UNCHANGED <<password, encryptionKey, shown, isUnlocked, followers>>
  /\ UNCHANGED <<keyrings, unsupportedKeyrings, vault, restVars>>

-----------------------------------------------------------------------------

\* Decryption succeeds.
opensWith(p) == vault # NoVault /\ vault.password = p

submitPassword(p) ==
  /\ begins
  /\ \/ /\ opensWith(p)
        /\ password' = p
        /\ op' = restoring(begun("other", NoPassword, "clearing"), vault.content, "decrypted")
     \/ /\ ~opensWith(p)
        /\ fails("other")
        /\ UNCHANGED password
  /\ UNCHANGED <<keyrings, bodyRest>>

\* submitEncryptionKey, with the salt the key belongs to.
submitEncryptionKey(p) ==
  /\ begins
  /\ \/ /\ cacheEncryptionKey /\ opensWith(p)
        /\ op' = restoring(begun("other", NoPassword, "clearing"), vault.content, "decrypted")
     \/ /\ ~(cacheEncryptionKey /\ opensWith(p))
        /\ fails("other")
  /\ UNCHANGED <<keyrings, password, bodyRest>>

\* The rest of unlockKeyrings ...
unlocking ==
  /\ isRestored("decrypted")
  /\ stateChanges(isUnlocked, keyrings)
  /\ encryptionKey' = keyAfter(vault.password)
  /\ op' = [op EXCEPT !.step = "unlocking"]
  /\ UNCHANGED <<memoryVars, vault, restVars, calls>>

\* ... and setUnlocked.
unlocked ==
  /\ op.step = "unlocking"
  /\ stateChanges(TRUE, shown)
  /\ op' = Idle
  /\ UNCHANGED <<memoryVars, vault, encryptionKey, restVars, calls>>

setLocked ==
  /\ begins
  /\ password' = NoPassword
  /\ op' = restoring(begun("other", NoPassword, "clearing"), <<>>, "locked")
  /\ UNCHANGED <<keyrings, bodyRest>>

locked ==
  /\ isRestored("locked")
  /\ stateChanges(FALSE, <<>>)
  /\ op' = Idle
  /\ UNCHANGED <<memoryVars, vault, encryptionKey, restVars, calls>>

-----------------------------------------------------------------------------

\* addNewAccount, addNewAccountForKeyring and withKeyring: an account is added to
\* a keyring, and the call goes on or throws.
addNewAccount(type) ==
  /\ begins
  /\ \/ \E j \in firstOfType(keyrings, type) :
          /\ keyrings[j].size < MaxSize
          /\ keyrings' = [keyrings EXCEPT ![j].size = @ + 1]
          /\ persists("other", NoPassword) \/ fails("other")
     \/ /\ firstOfType(keyrings, type) = {}
        /\ fails("other")
        /\ UNCHANGED keyrings
  /\ UNCHANGED <<password, bodyRest>>

\* importAccountWithStrategy, and addNewKeyring for an HD keyring.
addNewKeyring(k) ==
  /\ begins
  /\ k.type = "hd" => newSeed(k.of)
  /\ IF isDuplicate(k)
     THEN fails("other") /\ UNCHANGED keyrings
     ELSE persists("other", NoPassword) /\ keyrings' = Append(keyrings, k)
  /\ UNCHANGED <<password, bodyRest>>

\* The newest account of a keyring goes, and with the last one of a keyring all
\* keyrings that have none.
removeAccount(a) ==
  /\ begins
  /\ \/ \E j \in firstWith(keyrings, a) :
          LET shrunk == [keyrings EXCEPT ![j].size = @ - 1] IN
          /\ a[2] = keyrings[j].size
          /\ keyrings' = IF keyrings[j].size > 1 THEN shrunk
                         ELSE at(shrunk, {i \in DOMAIN shrunk : shrunk[i].size > 0})
          /\ persists("remove", NoPassword)
     \/ /\ firstWith(keyrings, a) = {}
        /\ fails("remove")
        /\ UNCHANGED keyrings
  /\ UNCHANGED <<password, bodyRest>>

\* getOrAddQRKeyring finds no QR keyring and waits for the mutex ...
qrKeyringMissing ==
  /\ firstOfType(keyrings, "qr") = {}
  /\ calls + qrWaiting < MaxCalls
  /\ qrWaiting' = qrWaiting + 1
  /\ UNCHANGED <<memoryVars, stateVars, followers, cacheEncryptionKey, chosen, op, calls>>

\* ... and adds one when it has it.
getOrAddQRKeyring ==
  /\ qrWaiting > 0
  /\ begins
  /\ qrWaiting' = qrWaiting - 1
  /\ persists("other", NoPassword)
  /\ keyrings' = Append(keyrings, newKeyring("qr", QR, 0))
  /\ UNCHANGED <<password, unsupportedKeyrings, stateVars, followers, cacheEncryptionKey, chosen>>

\* unlockQRHardwareWalletAccount, restoreQRKeyring and connectQRHardware add the
\* keyring themselves; the device may fail after that.
unlockQRHardwareWalletAccount ==
  LET ks == IF firstOfType(keyrings, "qr") = {}
            THEN Append(keyrings, newKeyring("qr", QR, 0)) ELSE keyrings
  IN /\ begins
     /\ \E j \in firstOfType(ks, "qr") :
          /\ ks[j].size < MaxSize
          /\ \/ keyrings' = [ks EXCEPT ![j].size = @ + 1] /\ persists("other", NoPassword)
             \/ keyrings' = ks /\ fails("other")
     /\ UNCHANGED <<password, bodyRest>>

forgetQRDevice ==
  /\ begins
  /\ keyrings' = [j \in DOMAIN keyrings |->
                    IF j \in firstOfType(keyrings, "qr") THEN [keyrings[j] EXCEPT !.size = 0]
                    ELSE keyrings[j]]
  /\ persists("forget", NoPassword)
  /\ UNCHANGED <<password, bodyRest>>

\* The wallet is closed and opened: the vault is all that is left, and what the
\* followers keep.
restarted ==
  /\ calls < MaxCalls
  /\ calls' = calls + 1
  /\ keyrings' = <<>> /\ unsupportedKeyrings' = <<>> /\ password' = NoPassword
  /\ shown' = <<>> /\ isUnlocked' = FALSE /\ encryptionKey' = NoPassword
  /\ op' = Idle /\ qrWaiting' = 0
  /\ updating' = NotUpdating
  /\ UNCHANGED <<vault, accounts, recency, selectedAccount, updates, overlapped, identityVars,
                 cacheEncryptionKey, chosen>>

KeyringNext ==
  \/ persistAllKeyrings \/ setLocked \/ qrKeyringMissing \/ getOrAddQRKeyring
  \/ unlockQRHardwareWalletAccount \/ forgetQRDevice \/ restarted
  \/ \E p \in Passwords \cup {Empty}, s \in Seeds :
       createNewVaultAndRestore(p, s) \/ createNewVaultAndKeychain(p, s)
  \/ \E p \in Passwords :
       changePassword(p) \/ submitPassword(p) \/ submitEncryptionKey(p)
  \/ addNewAccount("hd")
  \/ \E k \in Keys : addNewKeyring(newKeyring("simple", k, 1))
  \/ \E s \in Seeds : addNewKeyring(newKeyring("hd", s, 1))
  \/ \E a \in addressesOf(shown) : removeAccount(a)
  \/ cleared \/ restored \/ rolledBack \/ vaultUpdated \/ vaultUpdateFails
  \/ created \/ unlocking \/ unlocked \/ locked
=============================================================================
