----------------------------- MODULE WalletKeys -----------------------------
(***************************************************************************)
(* The keys of the wallet: the key store in memory (CCryptoKeyStore), the  *)
(* key pool and its reservations, the encryption of the wallet, and the    *)
(* file wallet.dat they are kept in.                                       *)
(*                                                                         *)
(* A key is the number of its creation; so is a master key.  A wallet file *)
(* holds the secrets in plain (records "key"), encrypted under a master    *)
(* key ("ckey"), the master key itself ("mkey", encrypted under the        *)
(* passphrase) and the pool: index to key ("pool").  A file that is not    *)
(* there is the empty one: CDB opens with DB_CREATE.                       *)
(*                                                                         *)
(* cs_wallet is held through a top-up and through EncryptWallet; pc says   *)
(* where the holder is.  Lock() takes cs_KeyStore only, and the miner      *)
(* calls KeepKey without cs_wallet: these two may come between any two     *)
(* steps of the holder.  A call of ReserveKeyFromKeyPool that tops the     *)
(* pool up is the top-up followed by Reserve, which needs a full pool.     *)
(*                                                                         *)
(* One fault: the process is killed.  Berkeley DB has then kept every      *)
(* record it was given and nothing of an unfinished transaction.           *)
(***************************************************************************)
EXTENDS Integers, FiniteSets

CONSTANTS Holder,       \* the CReserveKey objects: miner, send dialogs, calls
          KeyPoolSize,  \* -keypool
          MaxKeys,      \* bound: keys generated
          MaxFaults     \* bound: kills

ASSUME KeysAssumption == KeyPoolSize \in Nat /\ MaxKeys \in Nat /\ MaxFaults \in Nat

Key == 1 .. MaxKeys
NoKey == 0                          \* an invalid CPubKey
Free == [nIndex |-> -1, vchPubKey |-> NoKey]

VARIABLES
    mapKeys, mapCryptedKeys,        \* the key store; crypted keys with their master key
    mapMasterKeys, fUnlocked,       \* the wallet's master key (0: none); is vMasterKey set
    setKeyPool, reserved,           \* pool indices; the reservation of every holder
    pc, newKey,                     \* the holder of cs_wallet; its key without pool record
    wallet, rewrite,                \* wallet.dat and wallet.dat.rewrite
    nKeys, nMasterKeys,             \* keys and master keys made so far
    used, fMerged,                  \* keys given out; a left-over rewrite file was reused
    nFaults

memory == <<mapKeys, mapCryptedKeys, mapMasterKeys, fUnlocked>>
pool == <<setKeyPool, reserved>>
files == <<wallet, rewrite>>
aux == <<used, fMerged, nFaults>>
vars == <<memory, pool, pc, newKey, files, nKeys, nMasterKeys, aux>>

Empty == [key |-> {}, ckey |-> {}, mkey |-> 0, pool |-> [i \in {} |-> NoKey]]

\* EncryptWallet sets fUseCrypto together with the first crypted key: a
\* wallet has a key before anything can ask for its encryption.
IsCrypted == mapCryptedKeys # {}
IsLocked == IsCrypted /\ ~fUnlocked
HaveKey(k) == k \in mapKeys \/ \E c \in mapCryptedKeys : c[1] = k
-----------------------------------------------------------------------------
(* The records of a file. *)

\* WriteKey, or WriteCryptedKey under the wallet's master key
KeyOnlyPlain(f, k) == IF IsCrypted THEN f ELSE [f EXCEPT !.key = @ \cup {k}]
WithKey(f, k) ==
    IF IsCrypted THEN [f EXCEPT !.ckey = @ \cup {<<k, mapMasterKeys>>}]
                 ELSE [f EXCEPT !.key = @ \cup {k}]

\* WritePool
WithPool(f, i, k) ==
    [f EXCEPT !.pool = [j \in DOMAIN f.pool \cup {i} |-> IF j = i THEN k ELSE f.pool[j]]]

\* ErasePool
PoolKept(f, i) == f
WithoutPool(f, i) ==
    [f EXCEPT !.pool = [j \in DOMAIN f.pool \ {i} |-> f.pool[j]]]

\* The transaction of EncryptWallet: every key again as "ckey" and no more
\* as "key" (WriteCryptedKey), and the master key.
EncryptedPlainKept(f, m) ==
    [f EXCEPT !.ckey = {<<k, m>> : k \in mapKeys}, !.mkey = m]
Encrypted(f, m) ==
    [f EXCEPT !.key = f.key \ mapKeys,
              !.ckey = f.ckey \cup {<<k, m>> : k \in mapKeys}, !.mkey = m]

\* CDB::Rewrite puts the records of f into c with DB_NOOVERWRITE: a record
\* that c has already stays.
Merged(c, f) ==
    [key  |-> c.key \cup f.key,
     ckey |-> c.ckey \cup f.ckey,
     mkey |-> IF c.mkey # 0 THEN c.mkey ELSE f.mkey,
     pool |-> [i \in DOMAIN c.pool \cup DOMAIN f.pool |->
                  IF i \in DOMAIN c.pool THEN c.pool[i] ELSE f.pool[i]]]
-----------------------------------------------------------------------------
(* A wallet that is not there yet: the first run tops the pool up and takes *)
(* the default key from it.                                                 *)
Init ==
    /\ mapKeys = {} /\ mapCryptedKeys = {} /\ mapMasterKeys = 0 /\ fUnlocked = FALSE
    /\ setKeyPool = {} /\ reserved = [h \in Holder |-> Free]
    /\ pc = "idle" /\ newKey = NoKey
    /\ wallet = Empty /\ rewrite = Empty
    /\ nKeys = 0 /\ nMasterKeys = 0
    /\ used = {} /\ fMerged = FALSE /\ nFaults = 0

Filling == pc \in {"topup", "newpool"}

\* TopUpKeyPool keeps one key more than NewKeyPool makes.
Target == IF pc = "topup" THEN KeyPoolSize + 1 ELSE KeyPoolSize

\* One more than the last index, or the first: TopUpKeyPool's nEnd; in
\* NewKeyPool the indices are 1 .. i, which comes to the same.
End == IF setKeyPool = {} THEN 1
       ELSE 1 + CHOOSE i \in setKeyPool : \A j \in setKeyPool : j <= i

\* Get the oldest key
First == CHOOSE i \in setKeyPool : \A j \in setKeyPool : i <= j

TopUpKeyPool ==
    /\ pc = "idle" /\ ~IsLocked
    /\ Cardinality(setKeyPool) <= KeyPoolSize
    /\ pc' = "topup"
    /\ UNCHANGED <<memory, pool, newKey, files, nKeys, nMasterKeys, aux>>

\* GenerateNewKey with AddKeyPubKey or AddCryptedKey: in memory and on disk.
GenerateNewKey ==
    /\ Filling /\ newKey = NoKey
    /\ Cardinality(setKeyPool) < Target
    /\ nKeys < MaxKeys /\ ~IsLocked
    /\ nKeys' = nKeys + 1 /\ newKey' = nKeys + 1
    /\ IF IsCrypted
       THEN /\ mapCryptedKeys' = mapCryptedKeys \cup {<<nKeys + 1, mapMasterKeys>>}
            /\ UNCHANGED mapKeys
       ELSE mapKeys' = mapKeys \cup {nKeys + 1} /\ UNCHANGED mapCryptedKeys
    /\ wallet' = WithKey(wallet, nKeys + 1)
    /\ UNCHANGED <<mapMasterKeys, fUnlocked, pool, pc, rewrite, nMasterKeys, aux>>

\* AddKeyPubKey refuses: the wallet was locked meanwhile.  The exception
\* ends the top-up, or EncryptWallet before it rewrites the file.
GenerateNewKeyFails ==
    /\ Filling /\ newKey = NoKey
    /\ Cardinality(setKeyPool) < Target
    /\ IsLocked
    /\ pc' = "idle"
    /\ UNCHANGED <<memory, pool, newKey, files, nKeys, nMasterKeys, aux>>

WritePool ==
    /\ Filling /\ newKey # NoKey
    /\ wallet' = WithPool(wallet, End, newKey)
    /\ setKeyPool' = setKeyPool \cup {End}
    /\ newKey' = NoKey
    /\ UNCHANGED <<memory, reserved, pc, rewrite, nKeys, nMasterKeys, aux>>

TopUpEnds ==
    /\ pc = "topup" /\ newKey = NoKey
    /\ Cardinality(setKeyPool) >= Target
    /\ pc' = "idle"
    /\ UNCHANGED <<memory, pool, newKey, files, nKeys, nMasterKeys, aux>>
-----------------------------------------------------------------------------
(* Reservations. *)

\* ReserveKeyFromKeyPool reads the record; it throws if there is none, or
\* one of an unknown key.
Readable(i) == i \in DOMAIN wallet.pool /\ HaveKey(wallet.pool[i])

CanReserve ==
    /\ pc = "idle" /\ setKeyPool # {}
    /\ IsLocked \/ Cardinality(setKeyPool) > KeyPoolSize

\* CReserveKey::GetReservedKey.  nIndex is set before the exception, so
\* that the destructor of the holder returns the index.
GetReservedKey(h) ==
    /\ CanReserve /\ reserved[h] = Free
    /\ setKeyPool' = setKeyPool \ {First}
    /\ reserved' = [reserved EXCEPT ![h] =
          [nIndex |-> First,
           vchPubKey |-> IF Readable(First) THEN wallet.pool[First] ELSE NoKey]]
    /\ UNCHANGED <<memory, pc, newKey, files, nKeys, nMasterKeys, aux>>

\* CReserveKey::KeepKey, from CommitTransaction or CheckWork; it waits while
\* CDB::Rewrite holds cs_db.
KeepKey(h) ==
    /\ pc \notin {"remove", "rename"}
    /\ reserved[h].vchPubKey # NoKey
    /\ wallet' = WithoutPool(wallet, reserved[h].nIndex)
    /\ used' = used \cup {reserved[h].vchPubKey}
    /\ reserved' = [reserved EXCEPT ![h] = Free]
    /\ UNCHANGED <<memory, setKeyPool, pc, newKey, rewrite, nKeys, nMasterKeys,
                   fMerged, nFaults>>

ReturnKey(h) ==
    /\ pc = "idle" /\ reserved[h] # Free
    /\ setKeyPool' = setKeyPool \cup {reserved[h].nIndex}
    /\ reserved' = [reserved EXCEPT ![h] = Free]
    /\ UNCHANGED <<memory, pc, newKey, files, nKeys, nMasterKeys, aux>>

\* getnewaddress and the first run; an exception leaves the index out.
GetKeyFromPool ==
    /\ CanReserve
    /\ setKeyPool' = setKeyPool \ {First}
    /\ IF Readable(First)
       THEN /\ wallet' = WithoutPool(wallet, First)
            /\ used' = used \cup {wallet.pool[First]}
       ELSE UNCHANGED <<wallet, used>>
    /\ UNCHANGED <<memory, reserved, pc, newKey, rewrite, nKeys, nMasterKeys,
                   fMerged, nFaults>>
-----------------------------------------------------------------------------
(* Encryption. *)

\* CCryptoKeyStore::Lock, also from the timer of walletpassphrase
Lock ==
    /\ IsCrypted /\ fUnlocked
    /\ fUnlocked' = FALSE
    /\ UNCHANGED <<mapKeys, mapCryptedKeys, mapMasterKeys, pool, pc, newKey, files,
                   nKeys, nMasterKeys, aux>>

\* Unlock succeeds with a master key that decrypts every key.
Unlock ==
    /\ pc = "idle" /\ IsLocked
    /\ \A c \in mapCryptedKeys : c[2] = mapMasterKeys
    /\ fUnlocked' = TRUE
    /\ UNCHANGED <<mapKeys, mapCryptedKeys, mapMasterKeys, pool, pc, newKey, files,
                   nKeys, nMasterKeys, aux>>

\* EncryptWallet up to NewKeyPool: the transaction, Lock and Unlock.
EncryptWallet ==
    /\ pc = "idle" /\ ~IsCrypted /\ mapKeys # {}
    /\ LET m == nMasterKeys + 1
       IN  /\ nMasterKeys' = m /\ mapMasterKeys' = m
           /\ mapCryptedKeys' = {<<k, m>> : k \in mapKeys}
           /\ wallet' = Encrypted(wallet, m)
    /\ mapKeys' = {} /\ fUnlocked' = TRUE
    /\ pc' = "erase"
    /\ UNCHANGED <<pool, newKey, rewrite, nKeys, aux>>

\* NewKeyPool: ErasePool of every index, then the set is cleared.
ErasePool(i) ==
    /\ pc = "erase" /\ i \in setKeyPool \cap DOMAIN wallet.pool
    /\ wallet' = WithoutPool(wallet, i)
    /\ UNCHANGED <<memory, pool, pc, newKey, rewrite, nKeys, nMasterKeys, aux>>

PoolErased ==
    /\ pc = "erase" /\ setKeyPool \cap DOMAIN wallet.pool = {}
    /\ setKeyPool' = {}
    /\ pc' = IF IsLocked THEN "copy" ELSE "newpool"
    /\ UNCHANGED <<memory, reserved, newKey, files, nKeys, nMasterKeys, aux>>

\* The end of NewKeyPool, and the second Lock of EncryptWallet
NewKeyPoolEnds ==
    /\ pc = "newpool" /\ newKey = NoKey
    /\ Cardinality(setKeyPool) >= Target
    /\ fUnlocked' = FALSE
    /\ pc' = "copy"
    /\ UNCHANGED <<mapKeys, mapCryptedKeys, mapMasterKeys, pool, newKey, files,
                   nKeys, nMasterKeys, aux>>

\* CDB::Rewrite: the copy, the removal of wallet.dat, the renaming.
RewriteCopy ==
    /\ pc = "copy"
    /\ rewrite' = Merged(rewrite, wallet)
    /\ fMerged' = (fMerged \/ rewrite # Empty)
    /\ pc' = "remove"
    /\ UNCHANGED <<memory, pool, newKey, wallet, nKeys, nMasterKeys, used, nFaults>>

RewriteRemove ==
    /\ pc = "remove"
    /\ wallet' = Empty
    /\ pc' = "rename"
    /\ UNCHANGED <<memory, pool, newKey, rewrite, nKeys, nMasterKeys, aux>>

RewriteRename ==
    /\ pc = "rename"
    /\ wallet' = rewrite /\ rewrite' = Empty
    /\ pc' = "idle"
    /\ UNCHANGED <<memory, pool, newKey, nKeys, nMasterKeys, aux>>
-----------------------------------------------------------------------------
\* LoadCryptedKey refuses after a plain key was loaded, and LoadKey the
\* other way round.
Loads(f) == f.key = {} \/ f.ckey = {}

\* The process is killed and starts again: CWalletDB::LoadWallet.
Restart ==
    /\ nFaults < MaxFaults /\ Loads(wallet)
    /\ nFaults' = nFaults + 1
    /\ mapKeys' = wallet.key /\ mapCryptedKeys' = wallet.ckey
    /\ mapMasterKeys' = wallet.mkey /\ fUnlocked' = FALSE
    /\ setKeyPool' = DOMAIN wallet.pool
    /\ reserved' = [h \in Holder |-> Free]
    /\ pc' = "idle" /\ newKey' = NoKey
    /\ UNCHANGED <<files, nKeys, nMasterKeys, used, fMerged>>

Next ==
    \/ TopUpKeyPool \/ GenerateNewKey \/ GenerateNewKeyFails \/ WritePool \/ TopUpEnds
    \/ \E h \in Holder : GetReservedKey(h) \/ KeepKey(h) \/ ReturnKey(h)
    \/ GetKeyFromPool \/ Lock \/ Unlock
    \/ EncryptWallet \/ (\E i \in setKeyPool : ErasePool(i)) \/ PoolErased
    \/ NewKeyPoolEnds \/ RewriteCopy \/ RewriteRemove \/ RewriteRename
    \/ Restart

Spec == Init /\ [][Next]_vars
-----------------------------------------------------------------------------
Made == 1 .. nKeys

IsFile(f) ==
    /\ DOMAIN f = {"key", "ckey", "mkey", "pool"}
    /\ f.key \subseteq Made
    /\ f.ckey \subseteq Made \X (0 .. nMasterKeys)
    /\ f.mkey \in 0 .. nMasterKeys
    /\ IsFiniteSet(DOMAIN f.pool) /\ \A i \in DOMAIN f.pool : f.pool[i] \in Made

\* The types of the variables; whatever names a key names one that was made.
TypeOK ==
    /\ mapKeys \subseteq Made
    /\ mapCryptedKeys \subseteq Made \X (0 .. nMasterKeys)
    /\ mapMasterKeys \in 0 .. nMasterKeys /\ fUnlocked \in BOOLEAN
    /\ IsFiniteSet(setKeyPool)
    /\ DOMAIN reserved = Holder
    /\ \A h \in Holder : /\ DOMAIN reserved[h] = {"nIndex", "vchPubKey"}
                         /\ reserved[h].vchPubKey \in Made \cup {NoKey}
    /\ pc \in {"idle", "topup", "erase", "newpool", "copy", "remove", "rename"}
    /\ newKey \in Made \cup {NoKey}
    /\ IsFile(wallet) /\ IsFile(rewrite)
    /\ nKeys \in 0 .. MaxKeys /\ nMasterKeys \in Nat
    /\ used \subseteq Made /\ fMerged \in BOOLEAN /\ nFaults \in 0 .. MaxFaults

\* The keys whose secret the file gives to who knows the passphrase.
Recoverable(f) == f.key \cup {k \in Key : <<k, f.mkey>> \in f.ckey}

(***************************************************************************)
(* A key that was given out, to an address or a change output, is never    *)
(* lost: whenever the process dies, wallet.dat has its secret, or the      *)
(* rewrite file that was to replace it (between the removal and the        *)
(* renaming of CDB::Rewrite).  This ends when a later encryption writes    *)
(* into a rewrite file that such a kill has left behind.                   *)
(***************************************************************************)
KeysKept == fMerged \/ used \subseteq Recoverable(wallet) \cup Recoverable(rewrite)

(***************************************************************************)
(* What is stored can be loaded and unlocked at every moment: no plain key *)
(* beside encrypted ones, which CWalletDB::LoadWallet refuses as corrupt;  *)
(* no key under another master key than the stored one, on which Unlock    *)
(* asserts; no pool entry of an unknown key, on which a reservation throws.*)
(***************************************************************************)
StoredWalletLoads ==
    fMerged \/ /\ Loads(wallet)
               /\ \A c \in wallet.ckey : c[2] = wallet.mkey
               /\ \A i \in DOMAIN wallet.pool : wallet.pool[i] \in Recoverable(wallet)

(***************************************************************************)
(* A key that was given out has left the stored pool for good: a restart   *)
(* never gives it out again, whatever reservation, top-up or encryption it *)
(* was under way with ("so it won't be used again", CommitTransaction).    *)
(***************************************************************************)
NotUsedAgain == fMerged \/ \A i \in DOMAIN wallet.pool : wallet.pool[i] \notin used
=============================================================================
