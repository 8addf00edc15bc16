-------------------------- MODULE WalletKeysProofs --------------------------
(***************************************************************************)
(* The wallet properties of WalletKeys for any number of holders, keys,    *)
(* kills and any size of the pool.  The stored file describes the memory,  *)
(* or during the renaming the rewrite file does; a key of the pool is      *)
(* under one index, is not used, and belongs to at most the reservation of *)
(* that index.                                                             *)
(***************************************************************************)
EXTENDS WalletKeys, TLAPS, FiniteSetTheorems

InMemory(f) ==
    mapKeys = f.key /\ mapCryptedKeys = f.ckey /\ mapMasterKeys = f.mkey

Secrets(f) == Loads(f) /\ \A c \in f.ckey : c[2] = f.mkey

PoolOK(f) ==
    /\ \A i \in DOMAIN f.pool :
          /\ f.pool[i] \in Recoverable(f)
          /\ f.pool[i] \notin used
          /\ f.pool[i] # newKey
          /\ \A h \in Holder : f.pool[i] = reserved[h].vchPubKey => i = reserved[h].nIndex
    /\ \A i, j \in DOMAIN f.pool : f.pool[i] = f.pool[j] => i = j

\* f has the records of g.
Same(f, g) ==
    /\ f.key = g.key /\ f.ckey = g.ckey /\ f.mkey = g.mkey
    /\ DOMAIN f.pool = DOMAIN g.pool /\ \A i \in DOMAIN g.pool : f.pool[i] = g.pool[i]

\* Every key that a reservation or the top-up holds is in f.
HeldIn(f) ==
    /\ \A h \in Holder : reserved[h].vchPubKey # NoKey =>
          reserved[h].vchPubKey \in Recoverable(f) /\ reserved[h].vchPubKey # newKey
    /\ newKey # NoKey => /\ Filling
                         /\ newKey \in Recoverable(f)
                         /\ newKey \notin used

Describes(f) == InMemory(f) /\ Secrets(f) /\ PoolOK(f) /\ HeldIn(f)

Good ==
    /\ pc # "rename" => Describes(wallet)
    /\ pc = "remove" => Same(rewrite, wallet)
    /\ pc = "rename" => Describes(rewrite) /\ Same(wallet, Empty)
    /\ used \subseteq Recoverable(wallet) \cup Recoverable(rewrite)

Inv == TypeOK /\ (fMerged \/ Good)
-----------------------------------------------------------------------------
(* The fields of the files the operations make. *)

LEMMA EmptyFields ==
    /\ Empty.key = {} /\ Empty.ckey = {} /\ Empty.mkey = 0 /\ DOMAIN Empty.pool = {}
    /\ DOMAIN Empty = {"key", "ckey", "mkey", "pool"}
    /\ Recoverable(Empty) = {}
BY DEF Empty, Recoverable

LEMMA WithKeyFields ==
  ASSUME NEW f, DOMAIN f = {"key", "ckey", "mkey", "pool"}, NEW k
  PROVE  LET g == WithKey(f, k)
         IN  /\ DOMAIN g = {"key", "ckey", "mkey", "pool"}
             /\ g.key = (IF IsCrypted THEN f.key ELSE f.key \cup {k})
             /\ g.ckey = (IF IsCrypted THEN f.ckey \cup {<<k, mapMasterKeys>>} ELSE f.ckey)
             /\ g.mkey = f.mkey /\ g.pool = f.pool
BY DEF WithKey

LEMMA WithPoolFields ==
  ASSUME NEW f, DOMAIN f = {"key", "ckey", "mkey", "pool"}, NEW i, NEW k
  PROVE  LET g == WithPool(f, i, k)
         IN  /\ DOMAIN g = {"key", "ckey", "mkey", "pool"}
             /\ g.key = f.key /\ g.ckey = f.ckey /\ g.mkey = f.mkey
             /\ DOMAIN g.pool = DOMAIN f.pool \cup {i}
             /\ \A j \in DOMAIN f.pool \cup {i} :
                   g.pool[j] = IF j = i THEN k ELSE f.pool[j]
BY DEF WithPool

LEMMA WithoutPoolFields ==
  ASSUME NEW f, DOMAIN f = {"key", "ckey", "mkey", "pool"}, NEW i
  PROVE  LET g == WithoutPool(f, i)
         IN  /\ DOMAIN g = {"key", "ckey", "mkey", "pool"}
             /\ g.key = f.key /\ g.ckey = f.ckey /\ g.mkey = f.mkey
             /\ DOMAIN g.pool = DOMAIN f.pool \ {i}
             /\ \A j \in DOMAIN f.pool \ {i} : g.pool[j] = f.pool[j]
BY DEF WithoutPool

LEMMA EncryptedFields ==
  ASSUME NEW f, DOMAIN f = {"key", "ckey", "mkey", "pool"}, NEW m
  PROVE  LET g == Encrypted(f, m)
         IN  /\ DOMAIN g = {"key", "ckey", "mkey", "pool"}
             /\ g.key = f.key \ mapKeys
             /\ g.ckey = f.ckey \cup {<<k, m>> : k \in mapKeys}
             /\ g.mkey = m /\ g.pool = f.pool
BY DEF Encrypted

LEMMA MergedFields ==
  ASSUME NEW c, NEW f
  PROVE  LET g == Merged(c, f)
         IN  /\ DOMAIN g = {"key", "ckey", "mkey", "pool"}
             /\ g.key = c.key \cup f.key /\ g.ckey = c.ckey \cup f.ckey
             /\ g.mkey = (IF c.mkey # 0 THEN c.mkey ELSE f.mkey)
             /\ DOMAIN g.pool = DOMAIN c.pool \cup DOMAIN f.pool
             /\ \A i \in DOMAIN c.pool \cup DOMAIN f.pool :
                   g.pool[i] = IF i \in DOMAIN c.pool THEN c.pool[i] ELSE f.pool[i]
BY DEF Merged

LEMMA FreeFields ==
    Free.nIndex = -1 /\ Free.vchPubKey = NoKey /\ DOMAIN Free = {"nIndex", "vchPubKey"}
BY DEF Free
-----------------------------------------------------------------------------
(* The type invariant. *)

LEMMA EmptyIsFile == nMasterKeys \in Nat => IsFile(Empty)
BY EmptyFields, FS_EmptySet DEF IsFile

LEMMA InitType == Init => TypeOK
<1> SUFFICES ASSUME Init PROVE TypeOK
  OBVIOUS
<1>1. IsFile(wallet) /\ IsFile(rewrite)
  BY EmptyIsFile DEF Init
<1>2. \A h \in Holder : /\ DOMAIN reserved[h] = {"nIndex", "vchPubKey"}
                         /\ reserved[h].vchPubKey \in Made \cup {NoKey}
  BY FreeFields DEF Init
<1>3. /\ DOMAIN reserved = Holder /\ IsFiniteSet(setKeyPool)
      /\ fUnlocked \in BOOLEAN /\ fMerged \in BOOLEAN
  BY FS_EmptySet DEF Init
<1>4. nKeys \in 0 .. MaxKeys /\ nMasterKeys \in Nat /\ nFaults \in 0 .. MaxFaults
  BY KeysAssumption DEF Init
<1>5. /\ mapKeys \subseteq Made /\ used \subseteq Made
      /\ mapCryptedKeys \subseteq Made \X (0 .. nMasterKeys)
      /\ mapMasterKeys \in 0 .. nMasterKeys /\ newKey \in Made \cup {NoKey}
      /\ pc \in {"idle", "topup", "erase", "newpool", "copy", "remove", "rename"}
  BY <1>4 DEF Init
<1> QED
  BY <1>1, <1>2, <1>3, <1>4, <1>5 DEF TypeOK

LEMMA QuietType ==
  ASSUME TypeOK,
         \/ TopUpKeyPool \/ GenerateNewKeyFails \/ TopUpEnds \/ Lock \/ Unlock
         \/ NewKeyPoolEnds
  PROVE  TypeOK'
<1>1. /\ UNCHANGED <<mapKeys, mapCryptedKeys, mapMasterKeys, pool, newKey, files,
                     nKeys, nMasterKeys, aux>>
      /\ fUnlocked' \in BOOLEAN
      /\ pc' \in {"idle", "topup", "erase", "newpool", "copy", "remove", "rename"}
  BY DEF TypeOK, TopUpKeyPool, GenerateNewKeyFails, TopUpEnds, Lock, Unlock,
         NewKeyPoolEnds, memory
<1> QED
  BY <1>1 DEF TypeOK, IsFile, Made, pool, files, aux

LEMMA GenerateNewKeyType ==
  ASSUME TypeOK, GenerateNewKey
  PROVE  TypeOK'
<1>1. /\ nKeys' = nKeys + 1 /\ newKey' = nKeys + 1 /\ nKeys' \in 0 .. MaxKeys
      /\ Made \subseteq Made' /\ nKeys + 1 \in Made'
  BY KeysAssumption DEF TypeOK, GenerateNewKey, Made
<1>2. IsFile(rewrite)'
  BY <1>1 DEF TypeOK, GenerateNewKey, IsFile, Made
<1>3. IsFile(wallet)'
  <2>1. DOMAIN wallet = {"key", "ckey", "mkey", "pool"}
    BY DEF TypeOK, IsFile
  <2>2. /\ DOMAIN wallet' = {"key", "ckey", "mkey", "pool"}
        /\ wallet'.key \subseteq wallet.key \cup {nKeys + 1}
        /\ wallet'.ckey \subseteq wallet.ckey \cup {<<nKeys + 1, mapMasterKeys>>}
        /\ wallet'.mkey = wallet.mkey /\ wallet'.pool = wallet.pool
    BY <2>1, WithKeyFields DEF GenerateNewKey
  <2>3. UNCHANGED nMasterKeys
    BY DEF GenerateNewKey
  <2> QED
    BY <1>1, <2>2, <2>3 DEF TypeOK, IsFile
<1>4. /\ mapKeys' \subseteq Made' /\ mapCryptedKeys' \subseteq Made' \X (0 .. nMasterKeys')
      /\ mapMasterKeys' \in 0 .. nMasterKeys'
  BY <1>1 DEF TypeOK, GenerateNewKey
<1>5. \A h \in Holder : /\ DOMAIN reserved'[h] = {"nIndex", "vchPubKey"}
                         /\ reserved'[h].vchPubKey \in Made' \cup {NoKey}
  BY <1>1 DEF TypeOK, GenerateNewKey, pool
<1> QED
  BY <1>1, <1>2, <1>3, <1>4, <1>5 DEF TypeOK, GenerateNewKey, pool, aux

LEMMA WithPoolType ==
  ASSUME NEW f, IsFile(f), NEW i, NEW k \in Made
  PROVE  IsFile(WithPool(f, i, k))
<1>1. IsFiniteSet(DOMAIN f.pool \cup {i})
  BY FS_AddElement DEF IsFile
<1>2. DOMAIN f = {"key", "ckey", "mkey", "pool"}
  BY DEF IsFile
<1> DEFINE g == WithPool(f, i, k)
<1>3. /\ DOMAIN g = {"key", "ckey", "mkey", "pool"}
      /\ g.key = f.key /\ g.ckey = f.ckey /\ g.mkey = f.mkey
      /\ DOMAIN g.pool = DOMAIN f.pool \cup {i}
      /\ \A j \in DOMAIN f.pool \cup {i} : g.pool[j] = IF j = i THEN k ELSE f.pool[j]
  BY <1>2, WithPoolFields
<1> HIDE DEF g
<1>4. IsFile(g)
  BY <1>1, <1>3 DEF IsFile
<1> QED
  BY <1>4 DEF g

LEMMA WithoutPoolType ==
  ASSUME NEW f, IsFile(f), NEW i
  PROVE  IsFile(WithoutPool(f, i))
<1>1. IsFiniteSet(DOMAIN f.pool \ {i})
  BY FS_RemoveElement DEF IsFile
<1>2. DOMAIN f = {"key", "ckey", "mkey", "pool"}
  BY DEF IsFile
<1> DEFINE g == WithoutPool(f, i)
<1>3. /\ DOMAIN g = {"key", "ckey", "mkey", "pool"}
      /\ g.key = f.key /\ g.ckey = f.ckey /\ g.mkey = f.mkey
      /\ DOMAIN g.pool = DOMAIN f.pool \ {i}
      /\ \A j \in DOMAIN f.pool \ {i} : g.pool[j] = f.pool[j]
  BY <1>2, WithoutPoolFields
<1> HIDE DEF g
<1>4. IsFile(g)
  BY <1>1, <1>3 DEF IsFile
<1> QED
  BY <1>4 DEF g

LEMMA PoolType ==
  ASSUME TypeOK,
         \/ WritePool \/ GetKeyFromPool \/ PoolErased
         \/ \E i \in setKeyPool : ErasePool(i)
         \/ \E h \in Holder : GetReservedKey(h) \/ KeepKey(h) \/ ReturnKey(h)
  PROVE  TypeOK'
<1> USE DEF TypeOK
<1> DEFINE Rest == /\ UNCHANGED <<memory, nKeys, nMasterKeys, rewrite, fMerged, nFaults>>
                   /\ UNCHANGED newKey \/ newKey' = NoKey
                   /\ UNCHANGED pc \/ pc' \in {"copy", "newpool"}
           Reserved == /\ DOMAIN reserved' = Holder
                       /\ \A h \in Holder :
                            /\ DOMAIN reserved'[h] = {"nIndex", "vchPubKey"}
                            /\ reserved'[h].vchPubKey \in Made \cup {NoKey}
           Parts == /\ IsFile(wallet') /\ IsFiniteSet(setKeyPool') /\ used' \subseteq Made
                    /\ Reserved
<1>1. Rest
  BY DEF WritePool, GetKeyFromPool, PoolErased, ErasePool, GetReservedKey, KeepKey,
         ReturnKey, files, aux
<1>2. ASSUME Parts PROVE TypeOK'
  BY <1>1, <1>2 DEF memory, Made, IsFile
<1>3. CASE WritePool
  <2>1. IsFile(wallet')
    BY <1>3, WithPoolType DEF WritePool
  <2> QED
    BY <1>2, <1>3, <2>1, FS_AddElement DEF WritePool, aux
<1>4. CASE GetKeyFromPool
  <2>1. /\ wallet' = wallet \/ wallet' = WithoutPool(wallet, First)
        /\ \/ used' = used
           \/ First \in DOMAIN wallet.pool /\ used' = used \cup {wallet.pool[First]}
        /\ setKeyPool' = setKeyPool \ {First} /\ UNCHANGED reserved
    <3> HIDE DEF TypeOK
    <3> QED
      BY <1>4, Zenon DEF GetKeyFromPool, Readable
  <2>2. IsFile(wallet')
    BY <2>1, WithoutPoolType
  <2>3. used' \subseteq Made
    BY <2>1 DEF IsFile
  <2> QED
    BY <1>2, <2>1, <2>2, <2>3, FS_RemoveElement
<1>5. CASE PoolErased
  BY <1>2, <1>5, FS_EmptySet DEF PoolErased, files, aux
<1>6. ASSUME NEW i \in setKeyPool, ErasePool(i) PROVE TypeOK'
  BY <1>2, <1>6, WithoutPoolType DEF ErasePool, pool, aux
<1>7. ASSUME NEW h \in Holder, GetReservedKey(h) PROVE TypeOK'
  <2> DEFINE k == IF Readable(First) THEN wallet.pool[First] ELSE NoKey
             r == [nIndex |-> First, vchPubKey |-> k]
  <2>1. k \in Made \cup {NoKey}
    BY DEF Readable, IsFile
  <2>2. DOMAIN r = {"nIndex", "vchPubKey"} /\ r.vchPubKey \in Made \cup {NoKey}
    BY <2>1
  <2>3. reserved' = [reserved EXCEPT ![h] = r] /\ setKeyPool' = setKeyPool \ {First}
    BY <1>7 DEF GetReservedKey
  <2> HIDE DEF r
  <2>4. Reserved
    BY <2>2, <2>3
  <2> QED
    BY <1>2, <1>7, <2>3, <2>4, FS_RemoveElement DEF GetReservedKey, files, aux
<1>8. ASSUME NEW h \in Holder, KeepKey(h) PROVE TypeOK'
  <2>1. Reserved
    BY <1>8, FreeFields DEF KeepKey
  <2>2. reserved[h].vchPubKey \in Made
    BY <1>8 DEF KeepKey
  <2> QED
    BY <1>2, <1>8, <2>1, <2>2, WithoutPoolType DEF KeepKey
<1>9. ASSUME NEW h \in Holder, ReturnKey(h) PROVE TypeOK'
  <2>1. Reserved
    BY <1>9, FreeFields DEF ReturnKey
  <2> QED
    BY <1>2, <1>9, <2>1, FS_AddElement DEF ReturnKey, files, aux
<1> QED
  BY <1>3, <1>4, <1>5, <1>6, <1>7, <1>8, <1>9

LEMMA FileType ==
  ASSUME TypeOK,
         EncryptWallet \/ RewriteCopy \/ RewriteRemove \/ RewriteRename \/ Restart
  PROVE  TypeOK'
<1> USE DEF TypeOK
<1>1. CASE EncryptWallet
  <2>1. /\ nMasterKeys' = nMasterKeys + 1 /\ mapMasterKeys' = nMasterKeys + 1
        /\ mapCryptedKeys' = {<<k, nMasterKeys + 1>> : k \in mapKeys} /\ mapKeys' = {}
        /\ wallet' = Encrypted(wallet, nMasterKeys + 1)
        /\ fUnlocked' = TRUE /\ pc' = "erase"
        /\ UNCHANGED <<pool, newKey, rewrite, nKeys, aux>>
    BY <1>1 DEF EncryptWallet
  <2>2. mapCryptedKeys' \subseteq Made \X (0 .. nMasterKeys')
    <3>1. nMasterKeys + 1 \in 0 .. nMasterKeys'
      BY <2>1
    <3> HIDE DEF Made
    <3> QED
      BY <2>1, <3>1
  <2>3. IsFile(rewrite)'
    BY <2>1 DEF IsFile, Made
  <2>4. IsFile(wallet)'
    <3>1. DOMAIN wallet = {"key", "ckey", "mkey", "pool"}
      BY DEF IsFile
    <3>2. /\ DOMAIN wallet' = {"key", "ckey", "mkey", "pool"}
          /\ wallet'.key \subseteq wallet.key
          /\ wallet'.ckey = wallet.ckey \cup mapCryptedKeys'
          /\ wallet'.mkey = nMasterKeys + 1 /\ wallet'.pool = wallet.pool
      BY <2>1, <3>1, EncryptedFields
    <3> QED
      BY <2>1, <2>2, <3>2 DEF IsFile, Made
  <2> QED
    BY <2>1, <2>2, <2>3, <2>4 DEF pool, aux, Made
<1>2. CASE RewriteCopy
  <2>1. IsFiniteSet(DOMAIN rewrite.pool \cup DOMAIN wallet.pool)
    BY FS_Union DEF IsFile
  <2> DEFINE g == Merged(rewrite, wallet)
  <2>2. /\ DOMAIN g = {"key", "ckey", "mkey", "pool"}
        /\ g.key = rewrite.key \cup wallet.key /\ g.ckey = rewrite.ckey \cup wallet.ckey
        /\ g.mkey = rewrite.mkey \/ g.mkey = wallet.mkey
        /\ DOMAIN g.pool = DOMAIN rewrite.pool \cup DOMAIN wallet.pool
        /\ \A i \in DOMAIN g.pool : \/ i \in DOMAIN rewrite.pool /\ g.pool[i] = rewrite.pool[i]
                                    \/ i \in DOMAIN wallet.pool /\ g.pool[i] = wallet.pool[i]
    BY MergedFields
  <2>3. IsFile(g)
    <3> HIDE DEF g
    <3> QED
      BY <2>1, <2>2 DEF IsFile
  <2>4. fMerged' \in BOOLEAN
    BY <1>2 DEF RewriteCopy
  <2> QED
    BY <1>2, <2>3, <2>4 DEF RewriteCopy, memory, pool, IsFile, Made
<1>3. CASE RewriteRemove
  <2>1. IsFile(wallet')
    BY <1>3, EmptyIsFile DEF RewriteRemove
  <2> QED
    BY <1>3, <2>1 DEF RewriteRemove, memory, pool, aux, IsFile, Made
<1>4. CASE RewriteRename
  <2>1. IsFile(wallet') /\ IsFile(rewrite')
    BY <1>4, EmptyIsFile DEF RewriteRename
  <2> QED
    BY <1>4, <2>1 DEF RewriteRename, memory, pool, aux, IsFile, Made
<1>5. CASE Restart
  <2>1. \A h \in Holder : /\ DOMAIN reserved'[h] = {"nIndex", "vchPubKey"}
                          /\ reserved'[h].vchPubKey = NoKey
    BY <1>5, FreeFields DEF Restart
  <2>2. DOMAIN reserved' = Holder /\ nFaults' \in 0 .. MaxFaults
    BY <1>5, KeysAssumption DEF Restart
  <2> QED
    BY <1>5, <2>1, <2>2 DEF Restart, files, IsFile, Made
<1> QED
  BY <1>1, <1>2, <1>3, <1>4, <1>5
-----------------------------------------------------------------------------
(* The inductive invariant. *)

LEMMA SameSecrets ==
  ASSUME NEW f, NEW g, f.key = g.key, f.ckey = g.ckey, f.mkey = g.mkey
  PROVE  Recoverable(f) = Recoverable(g)
BY DEF Recoverable

LEMMA InitGood == Init => Good
<1> SUFFICES ASSUME Init PROVE Good
  OBVIOUS
<1>1. reserved \in [Holder -> {Free}]
  BY DEF Init
<1>2. HeldIn(wallet)
  BY <1>1, FreeFields DEF Init, HeldIn
<1> QED
  BY <1>2, EmptyFields DEF Init, Good, Describes, InMemory, Secrets, PoolOK, Loads

LEMMA QuietGood ==
  ASSUME TypeOK, Good,
         \/ TopUpKeyPool \/ GenerateNewKeyFails \/ TopUpEnds \/ Lock \/ Unlock
         \/ NewKeyPoolEnds
  PROVE  Good'
<1>1. /\ UNCHANGED <<mapKeys, mapCryptedKeys, mapMasterKeys, pool, newKey, files, used>>
      /\ \/ UNCHANGED pc
         \/ pc \notin {"remove", "rename"} /\ pc' \notin {"remove", "rename"}
      /\ newKey # NoKey /\ Filling /\ pc # "rename" => Filling'
  BY DEF TopUpKeyPool, GenerateNewKeyFails, TopUpEnds, Lock, Unlock, NewKeyPoolEnds,
         memory, aux, Filling
<1>2. UNCHANGED <<reserved, wallet, rewrite>>
  BY <1>1 DEF pool, files
<1>3. pc # "rename" => HeldIn(wallet)'
  BY <1>1, <1>2 DEF Good, Describes, HeldIn, Recoverable
<1>4. pc = "rename" => HeldIn(rewrite)'
  BY <1>1, <1>2 DEF Good, Describes, HeldIn, Recoverable, Filling
<1> QED
  BY <1>1, <1>2, <1>3, <1>4
     DEF Good, Describes, InMemory, Secrets, PoolOK, Same, Loads, Recoverable, Empty

\* A new key is in the file at once, and nothing refers to it yet.
LEMMA GenerateNewKeyGood ==
  ASSUME TypeOK, Good, GenerateNewKey
  PROVE  Good'
<1> DEFINE k == nKeys + 1
<1>1. pc # "rename" /\ pc # "remove" /\ Describes(wallet)
  BY DEF GenerateNewKey, Filling, Good
<1>2. DOMAIN wallet = {"key", "ckey", "mkey", "pool"}
  BY DEF TypeOK, IsFile
<1>3. /\ wallet'.key = (IF IsCrypted THEN wallet.key ELSE wallet.key \cup {k})
      /\ wallet'.ckey = (IF IsCrypted THEN wallet.ckey \cup {<<k, mapMasterKeys>>} ELSE wallet.ckey)
      /\ wallet'.mkey = wallet.mkey /\ wallet'.pool = wallet.pool
  BY <1>2, WithKeyFields DEF GenerateNewKey
<1>4. /\ UNCHANGED <<mapMasterKeys, reserved, pc, rewrite, used>>
      /\ newKey' = k /\ Filling'
      /\ mapKeys' = (IF IsCrypted THEN mapKeys ELSE mapKeys \cup {k})
      /\ mapCryptedKeys' = (IF IsCrypted THEN mapCryptedKeys \cup {<<k, mapMasterKeys>>}
                                         ELSE mapCryptedKeys)
  BY DEF GenerateNewKey, pool, aux, Filling
<1>5. k \in Key /\ k \notin Made /\ k # NoKey
  BY KeysAssumption DEF TypeOK, GenerateNewKey, Key, Made, NoKey
<1>6. InMemory(wallet)'
  BY <1>1, <1>3, <1>4 DEF Describes, InMemory
<1>7. Secrets(wallet)'
  BY <1>1, <1>3, <1>4 DEF Describes, InMemory, Secrets, Loads, IsCrypted
<1>8. Recoverable(wallet) \subseteq Recoverable(wallet') /\ k \in Recoverable(wallet')
  BY <1>1, <1>3, <1>5 DEF Describes, InMemory, Recoverable
<1>9. PoolOK(wallet)'
  BY <1>1, <1>3, <1>4, <1>5, <1>8 DEF Describes, PoolOK, TypeOK, IsFile
<1>10. HeldIn(wallet)'
  BY <1>1, <1>4, <1>5, <1>8 DEF Describes, HeldIn, TypeOK
<1>11. (used \subseteq Recoverable(wallet) \cup Recoverable(rewrite))'
  BY <1>4, <1>8 DEF Good
<1> QED
  BY <1>1, <1>4, <1>6, <1>7, <1>9, <1>10, <1>11 DEF Good, Describes

LEMMA WritePoolGood ==
  ASSUME TypeOK, Good, WritePool
  PROVE  Good'
<1>1. pc # "rename" /\ pc # "remove" /\ Describes(wallet)
  BY DEF WritePool, Filling, Good
<1>2. DOMAIN wallet = {"key", "ckey", "mkey", "pool"}
  BY DEF TypeOK, IsFile
<1>3. /\ wallet'.key = wallet.key /\ wallet'.ckey = wallet.ckey /\ wallet'.mkey = wallet.mkey
      /\ DOMAIN wallet'.pool = DOMAIN wallet.pool \cup {End}
      /\ \A j \in DOMAIN wallet.pool \cup {End} :
            wallet'.pool[j] = IF j = End THEN newKey ELSE wallet.pool[j]
  BY <1>2, WithPoolFields DEF WritePool
<1>4. /\ UNCHANGED <<mapKeys, mapCryptedKeys, mapMasterKeys, reserved, pc, rewrite, used>>
      /\ newKey # NoKey /\ newKey' = NoKey
  BY DEF WritePool, memory, aux
<1>5. Recoverable(wallet') = Recoverable(wallet)
  BY <1>3, SameSecrets
<1>6. InMemory(wallet)' /\ Secrets(wallet)'
  BY <1>1, <1>3, <1>4 DEF Describes, InMemory, Secrets, Loads
<1>7. /\ newKey \in Recoverable(wallet) /\ newKey \notin used
      /\ \A h \in Holder : reserved[h].vchPubKey # newKey
  BY <1>1, <1>4 DEF Describes, HeldIn
<1>8. PoolOK(wallet)'
  <2>1. \A i \in DOMAIN wallet'.pool :
          /\ wallet'.pool[i] \in Recoverable(wallet')
          /\ wallet'.pool[i] \notin used
          /\ \A h \in Holder : wallet'.pool[i] = reserved[h].vchPubKey => i = reserved[h].nIndex
    BY <1>1, <1>3, <1>5, <1>7 DEF Describes, PoolOK
  <2>2. \A i \in DOMAIN wallet'.pool : wallet'.pool[i] # NoKey
    BY <1>3, <1>4 DEF TypeOK, IsFile, Made, NoKey
  <2>3. \A i, j \in DOMAIN wallet'.pool : wallet'.pool[i] = wallet'.pool[j] => i = j
    BY <1>1, <1>3 DEF Describes, PoolOK
  <2> QED
    BY <1>4, <2>1, <2>2, <2>3 DEF PoolOK
<1>9. HeldIn(wallet)'
  BY <1>1, <1>4, <1>5 DEF Describes, HeldIn
<1>10. (used \subseteq Recoverable(wallet) \cup Recoverable(rewrite))'
  BY <1>4, <1>5 DEF Good
<1> QED
  BY <1>1, <1>4, <1>6, <1>8, <1>9, <1>10 DEF Good, Describes

LEMMA ReservationGood ==
  ASSUME TypeOK, Good, NEW h \in Holder, GetReservedKey(h) \/ ReturnKey(h)
  PROVE  Good'
<1>1. pc = "idle" /\ Describes(wallet) /\ newKey = NoKey
  BY DEF GetReservedKey, ReturnKey, CanReserve, Good, Describes, HeldIn, Filling
<1>2. UNCHANGED <<mapKeys, mapCryptedKeys, mapMasterKeys, pc, newKey, wallet, rewrite, used>>
  BY DEF GetReservedKey, ReturnKey, memory, files, aux
<1>3. PICK r : /\ reserved' = [reserved EXCEPT ![h] = r]
               /\ \/ r.vchPubKey = NoKey
                  \/ /\ r.nIndex \in DOMAIN wallet.pool
                     /\ r.vchPubKey = wallet.pool[r.nIndex]
  <2>1. CASE GetReservedKey(h)
    <3> DEFINE r == [nIndex |-> First,
                     vchPubKey |-> IF Readable(First) THEN wallet.pool[First] ELSE NoKey]
    <3>1. r.nIndex = First
          /\ r.vchPubKey = IF Readable(First) THEN wallet.pool[First] ELSE NoKey
      OBVIOUS
    <3>2. reserved' = [reserved EXCEPT ![h] = r]
      BY <2>1 DEF GetReservedKey
    <3> HIDE DEF r
    <3> QED
      BY <3>1, <3>2 DEF Readable
  <2>2. CASE ReturnKey(h)
    BY <2>2, FreeFields DEF ReturnKey
  <2> QED
    BY <2>1, <2>2
<1>4. /\ reserved'[h] = r
      /\ \A g \in Holder : g # h => reserved'[g] = reserved[g]
  BY <1>3 DEF TypeOK
<1>5. \A i \in DOMAIN wallet.pool : wallet.pool[i] # NoKey
  BY DEF TypeOK, IsFile, Made, NoKey
<1>6. PoolOK(wallet)'
  BY <1>1, <1>2, <1>3, <1>4, <1>5 DEF Describes, PoolOK, Recoverable
<1>7. HeldIn(wallet)'
  BY <1>1, <1>2, <1>3, <1>4 DEF Describes, HeldIn, PoolOK, Recoverable
<1> QED
  BY <1>1, <1>2, <1>6, <1>7 DEF Good, Describes, InMemory, Secrets, Loads, Recoverable

\* An entry leaves the stored pool; its key, if any, is used from now on.
LEMMA TakenGood ==
  ASSUME TypeOK, Good, pc \notin {"remove", "rename"},
         UNCHANGED <<mapKeys, mapCryptedKeys, mapMasterKeys, pc, newKey, rewrite>>,
         NEW i, NEW K, wallet' = WithoutPool(wallet, i), used' = used \cup K,
         K \subseteq Recoverable(wallet), newKey \notin K,
         \A j \in DOMAIN wallet.pool : wallet.pool[j] \in K => j = i,
         \A h \in Holder : reserved'[h] = reserved[h] \/ reserved'[h] = Free
  PROVE  Good'
<1>1. Describes(wallet)
  BY DEF Good
<1>2. DOMAIN wallet = {"key", "ckey", "mkey", "pool"}
  BY DEF TypeOK, IsFile
<1>3. /\ wallet'.key = wallet.key /\ wallet'.ckey = wallet.ckey /\ wallet'.mkey = wallet.mkey
      /\ DOMAIN wallet'.pool = DOMAIN wallet.pool \ {i}
      /\ \A j \in DOMAIN wallet.pool \ {i} : wallet'.pool[j] = wallet.pool[j]
  BY <1>2, WithoutPoolFields
<1>4. Recoverable(wallet') = Recoverable(wallet)
  BY <1>3, SameSecrets
<1>5. \A j \in DOMAIN wallet.pool : wallet.pool[j] # NoKey
  BY DEF TypeOK, IsFile, Made, NoKey
<1>6. InMemory(wallet)' /\ Secrets(wallet)'
  BY <1>1, <1>3 DEF Describes, InMemory, Secrets, Loads
<1>7. PoolOK(wallet)'
  BY <1>1, <1>3, <1>4, <1>5, FreeFields DEF Describes, PoolOK
<1>8. HeldIn(wallet)'
  BY <1>1, <1>4, FreeFields DEF Describes, HeldIn, Filling
<1>9. (used \subseteq Recoverable(wallet) \cup Recoverable(rewrite))'
  BY <1>4 DEF Good
<1> QED
  BY <1>6, <1>7, <1>8, <1>9 DEF Good, Describes

LEMMA PoolGood ==
  ASSUME TypeOK, Good,
         \/ GetKeyFromPool \/ PoolErased
         \/ \E i \in setKeyPool : ErasePool(i)
         \/ \E h \in Holder : KeepKey(h)
  PROVE  Good'
<1>1. CASE GetKeyFromPool
  <2>1. /\ pc = "idle" /\ Describes(wallet) /\ newKey = NoKey
        /\ UNCHANGED <<mapKeys, mapCryptedKeys, mapMasterKeys, pc, newKey, rewrite, reserved>>
    BY <1>1 DEF GetKeyFromPool, CanReserve, Good, Describes, HeldIn, Filling, memory
  <2>2. CASE Readable(First)
    <3> DEFINE K == {wallet.pool[First]}
    <3>1. wallet' = WithoutPool(wallet, First) /\ used' = used \cup K
      BY <1>1, <2>2 DEF GetKeyFromPool
    <3>2. First \in DOMAIN wallet.pool
      BY <2>2 DEF Readable
    <3>3. /\ K \subseteq Recoverable(wallet) /\ newKey \notin K
          /\ \A j \in DOMAIN wallet.pool : wallet.pool[j] \in K => j = First
      BY <2>1, <3>2 DEF Describes, PoolOK
    <3> QED
      BY <2>1, <3>1, <3>3, TakenGood
  <2>3. CASE ~Readable(First)
    BY <1>1, <2>1, <2>3 DEF GetKeyFromPool, Good, Describes, InMemory, Secrets, Loads,
       PoolOK, HeldIn, Recoverable
  <2> QED
    BY <2>2, <2>3
<1>2. CASE PoolErased
  <2>1. /\ pc = "erase" /\ pc' \notin {"remove", "rename"} /\ Describes(wallet)
        /\ newKey = NoKey
        /\ UNCHANGED <<mapKeys, mapCryptedKeys, mapMasterKeys, newKey, wallet, rewrite,
                       reserved, used>>
    BY <1>2 DEF PoolErased, Good, Describes, HeldIn, Filling, memory, files, aux
  <2> QED
    BY <2>1 DEF Good, Describes, InMemory, Secrets, Loads, PoolOK, HeldIn, Recoverable
<1>3. ASSUME NEW i \in setKeyPool, ErasePool(i) PROVE Good'
  <2> DEFINE K == {}
  <2>1. /\ pc = "erase" /\ wallet' = WithoutPool(wallet, i) /\ used' = used \cup K
        /\ UNCHANGED <<mapKeys, mapCryptedKeys, mapMasterKeys, pc, newKey, rewrite, reserved>>
    BY <1>3 DEF ErasePool, memory, pool, aux
  <2>2. /\ K \subseteq Recoverable(wallet) /\ newKey \notin K
        /\ \A j \in DOMAIN wallet.pool : wallet.pool[j] \in K => j = i
    OBVIOUS
  <2> HIDE DEF K
  <2> QED
    BY <2>1, <2>2, TakenGood
<1>4. ASSUME NEW h \in Holder, KeepKey(h) PROVE Good'
  <2> DEFINE k == reserved[h].vchPubKey
             n == reserved[h].nIndex
             K == {k}
  <2>1. /\ pc \notin {"remove", "rename"} /\ Describes(wallet)
        /\ wallet' = WithoutPool(wallet, n) /\ used' = used \cup K /\ k # NoKey
        /\ UNCHANGED <<mapKeys, mapCryptedKeys, mapMasterKeys, pc, newKey, rewrite>>
    BY <1>4 DEF KeepKey, Good, memory
  <2>2. \A g \in Holder : reserved'[g] = reserved[g] \/ reserved'[g] = Free
    BY <1>4 DEF KeepKey, TypeOK
  <2>3. /\ K \subseteq Recoverable(wallet) /\ newKey \notin K
        /\ \A j \in DOMAIN wallet.pool : wallet.pool[j] \in K => j = n
    BY <2>1 DEF Describes, PoolOK, HeldIn
  <2> HIDE DEF K, n
  <2> QED
    BY <2>1, <2>2, <2>3, TakenGood
<1> QED
  BY <1>1, <1>2, <1>3, <1>4

LEMMA EncryptWalletGood ==
  ASSUME TypeOK, Good, EncryptWallet
  PROVE  Good'
<1> DEFINE m == nMasterKeys + 1
<1>1. /\ pc = "idle" /\ Describes(wallet) /\ newKey = NoKey /\ mapCryptedKeys = {}
      /\ mapCryptedKeys' = {<<k, m>> : k \in mapKeys} /\ mapKeys' = {} /\ mapMasterKeys' = m
      /\ wallet' = Encrypted(wallet, m)
      /\ pc' = "erase" /\ UNCHANGED <<reserved, newKey, rewrite, used>>
  BY DEF EncryptWallet, Good, Describes, HeldIn, Filling, IsCrypted, pool, aux
<1>2. DOMAIN wallet = {"key", "ckey", "mkey", "pool"}
  BY DEF TypeOK, IsFile
<1>3. wallet.key = mapKeys /\ wallet.ckey = {}
  BY <1>1 DEF Describes, InMemory
<1>4. /\ wallet'.key = {} /\ wallet'.ckey = mapCryptedKeys'
      /\ wallet'.mkey = m /\ wallet'.pool = wallet.pool
  BY <1>1, <1>2, <1>3, EncryptedFields
<1>5. mapKeys \subseteq Key
  BY KeysAssumption DEF TypeOK, Made, Key
<1>6. Recoverable(wallet) = mapKeys /\ Recoverable(wallet') = mapKeys
  BY <1>1, <1>3, <1>4, <1>5 DEF Recoverable
<1>7. InMemory(wallet)' /\ Secrets(wallet)'
  BY <1>1, <1>4 DEF InMemory, Secrets, Loads
<1>8. PoolOK(wallet)'
  BY <1>1, <1>4, <1>6 DEF Describes, PoolOK
<1>9. HeldIn(wallet)'
  BY <1>1, <1>6 DEF Describes, HeldIn
<1>10. (used \subseteq Recoverable(wallet) \cup Recoverable(rewrite))'
  BY <1>1, <1>6 DEF Good
<1> QED
  BY <1>1, <1>7, <1>8, <1>9, <1>10 DEF Good, Describes

\* What a file says is said by every file with the same records.
LEMMA SameDescribes ==
  ASSUME NEW f, NEW g, Same(f, g), Describes(g)
  PROVE  Describes(f)
<1>1. Recoverable(f) = Recoverable(g)
  BY SameSecrets DEF Same
<1>2. InMemory(f) /\ Secrets(f)
  BY DEF Same, Describes, InMemory, Secrets, Loads
<1>3. PoolOK(f)
  BY <1>1 DEF Same, Describes, PoolOK
<1>4. HeldIn(f)
  BY <1>1 DEF Describes, HeldIn
<1> QED
  BY <1>2, <1>3, <1>4 DEF Describes

LEMMA RewriteGood ==
  ASSUME TypeOK, Good, RewriteCopy \/ RewriteRemove \/ RewriteRename, ~fMerged'
  PROVE  Good'
<1>1. UNCHANGED <<mapKeys, mapCryptedKeys, mapMasterKeys, reserved, newKey, used>>
  BY DEF RewriteCopy, RewriteRemove, RewriteRename, memory, pool, aux
<1>2. CASE RewriteCopy
  <2>1. /\ pc = "copy" /\ pc' = "remove" /\ rewrite = Empty /\ UNCHANGED wallet
        /\ rewrite' = Merged(Empty, wallet) /\ Describes(wallet) /\ newKey = NoKey
    BY <1>2 DEF RewriteCopy, Good, Describes, HeldIn, Filling
  <2>2. Same(rewrite', wallet)
    <3>1. /\ rewrite'.key = Empty.key \cup wallet.key
          /\ rewrite'.ckey = Empty.ckey \cup wallet.ckey
          /\ rewrite'.mkey = (IF Empty.mkey # 0 THEN Empty.mkey ELSE wallet.mkey)
          /\ DOMAIN rewrite'.pool = DOMAIN Empty.pool \cup DOMAIN wallet.pool
          /\ \A i \in DOMAIN Empty.pool \cup DOMAIN wallet.pool :
                rewrite'.pool[i] =
                   IF i \in DOMAIN Empty.pool THEN Empty.pool[i] ELSE wallet.pool[i]
      BY <2>1, MergedFields
    <3> QED
      BY <3>1, EmptyFields DEF Same
  <2>3. Describes(wallet)'
    BY <1>1, <2>1 DEF Describes, InMemory, Secrets, Loads, PoolOK, HeldIn, Recoverable
  <2>4. used \subseteq Recoverable(wallet)
    BY <2>1, EmptyFields DEF Good
  <2> QED
    BY <1>1, <2>1, <2>2, <2>3, <2>4 DEF Good, Same, Recoverable
<1>3. CASE RewriteRemove
  <2>1. /\ pc = "remove" /\ pc' = "rename" /\ wallet' = Empty /\ UNCHANGED rewrite
        /\ Describes(wallet) /\ Same(rewrite, wallet) /\ newKey = NoKey
    BY <1>3 DEF RewriteRemove, Good, Describes, HeldIn, Filling
  <2>2. Describes(rewrite)
    BY <2>1, SameDescribes
  <2>3. Describes(rewrite)'
    BY <1>1, <2>1, <2>2 DEF Describes, InMemory, Secrets, Loads, PoolOK, HeldIn, Recoverable
  <2>4. Recoverable(rewrite) = Recoverable(wallet)
    BY <2>1, SameSecrets DEF Same
  <2>5. used' \subseteq Recoverable(rewrite')
    BY <1>1, <2>1, <2>4 DEF Good
  <2>6. Same(wallet', Empty)
    BY <2>1 DEF Same
  <2> QED
    BY <2>1, <2>3, <2>5, <2>6 DEF Good, Same, Empty
<1>4. CASE RewriteRename
  <2>1. /\ pc = "rename" /\ pc' = "idle" /\ wallet' = rewrite /\ rewrite' = Empty
        /\ Describes(rewrite) /\ Same(wallet, Empty) /\ newKey = NoKey
    BY <1>4 DEF RewriteRename, Good, Describes, HeldIn, Filling
  <2>2. Describes(wallet)'
    BY <1>1, <2>1 DEF Describes, InMemory, Secrets, Loads, PoolOK, HeldIn, Recoverable
  <2>3. Recoverable(wallet) = {}
    BY <2>1, SameSecrets, EmptyFields DEF Same
  <2>4. used' \subseteq Recoverable(wallet')
    BY <1>1, <2>1, <2>3 DEF Good
  <2> QED
    BY <2>1, <2>2, <2>4 DEF Good
<1> QED
  BY <1>2, <1>3, <1>4

LEMMA RestartGood ==
  ASSUME TypeOK, Good, Restart
  PROVE  Good'
<1>1. /\ mapKeys' = wallet.key /\ mapCryptedKeys' = wallet.ckey /\ mapMasterKeys' = wallet.mkey
      /\ pc' = "idle" /\ newKey' = NoKey /\ UNCHANGED <<wallet, rewrite, used>>
      /\ \A h \in Holder : reserved'[h] = Free
  BY DEF Restart, files
<1>2. Secrets(wallet) /\ \A i \in DOMAIN wallet.pool :
        wallet.pool[i] \in Recoverable(wallet) /\ wallet.pool[i] \notin used
  BY EmptyFields DEF Good, Describes, Secrets, PoolOK, Same, Loads
<1>3. \A i, j \in DOMAIN wallet.pool : wallet.pool[i] = wallet.pool[j] => i = j
  BY EmptyFields DEF Good, Describes, PoolOK, Same
<1>4. \A i \in DOMAIN wallet.pool : wallet.pool[i] # NoKey
  BY DEF TypeOK, IsFile, Made, NoKey
<1>5. InMemory(wallet)' /\ Secrets(wallet)'
  BY <1>1, <1>2 DEF InMemory, Secrets, Loads
<1>6. PoolOK(wallet)' /\ HeldIn(wallet)'
  BY <1>1, <1>2, <1>3, <1>4, FreeFields DEF PoolOK, HeldIn, Recoverable
<1> QED
  BY <1>1, <1>5, <1>6 DEF Good, Describes, Recoverable

LEMMA InitInv == Init => Inv
BY InitType, InitGood DEF Inv

LEMMA NextInv == Inv /\ [Next]_vars => Inv'
<1> SUFFICES ASSUME Inv, [Next]_vars PROVE Inv'
  OBVIOUS
<1>1. CASE UNCHANGED vars
  BY <1>1 DEF Inv, TypeOK, IsFile, Made, Good, Describes, InMemory, Secrets, Loads, PoolOK,
     HeldIn, Same, Recoverable, Filling, vars, memory, pool, files, aux
<1>2. CASE Next
  <2>1. TypeOK'
    BY <1>2, QuietType, GenerateNewKeyType, PoolType, FileType DEF Inv, Next
  <2>2. fMerged => fMerged'
    BY <1>2 DEF Next, TopUpKeyPool, GenerateNewKey, GenerateNewKeyFails, WritePool, TopUpEnds,
       GetReservedKey, KeepKey, ReturnKey, GetKeyFromPool, Lock, Unlock, EncryptWallet,
       ErasePool, PoolErased, NewKeyPoolEnds, RewriteCopy, RewriteRemove, RewriteRename,
       Restart, aux
  <2>3. ASSUME Good, ~fMerged' PROVE Good'
    BY <1>2, <2>3, QuietGood, GenerateNewKeyGood, WritePoolGood, ReservationGood, PoolGood,
       EncryptWalletGood, RewriteGood, RestartGood DEF Inv, Next
  <2> QED
    BY <2>1, <2>2, <2>3 DEF Inv
<1> QED
  BY <1>1, <1>2

(* The inductive invariant, for any pool size and any number of holders,   *)
(* keys and kills.                                                         *)
THEOREM Invariance == Spec => []Inv
BY InitInv, NextInv, PTL DEF Spec

(* No key that was given out is ever lost, in EncryptWallet and CDB::Rewrite *)
(* too, until an encryption writes into a left-over rewrite file.           *)
THEOREM KeysAlwaysKept == Spec => []KeysKept
<1>1. Inv => KeysKept
  BY DEF Inv, Good, KeysKept
<1> QED
  BY <1>1, Invariance, PTL

(* CWalletDB::LoadWallet can load wallet.dat, Unlock can unlock it and the *)
(* key pool names known keys, whenever the process dies.                   *)
THEOREM StoredWalletAlwaysLoads == Spec => []StoredWalletLoads
<1>1. Inv => StoredWalletLoads
  BY EmptyFields DEF Inv, Good, Describes, Secrets, PoolOK, Same, Loads, StoredWalletLoads
<1> QED
  BY <1>1, Invariance, PTL

(* No key that was given out is in the stored pool again (KeepKey,         *)
(* GetKeyFromPool and the top-ups and restarts that follow).               *)
THEOREM NeverUsedAgain == Spec => []NotUsedAgain
<1>1. Inv => NotUsedAgain
  BY EmptyFields DEF Inv, Good, Describes, PoolOK, Same, NotUsedAgain
<1> QED
  BY <1>1, Invariance, PTL
=============================================================================
