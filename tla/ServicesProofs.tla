---------------------------- MODULE ServicesProofs -----------------------------
(***************************************************************************)
(* Theorems about sudo (the cached credential, and the channels a password *)
(* is asked for by), the resources plugin's poller and what it lists, and  *)
(* named loggers, of each by itself.                                       *)
(***************************************************************************)
EXTENDS SudoCache, SudoChannels, Resources, Logging, SequenceTheorems, Induction

-------------------------------------------------------------------------------
(* Sudo.                                                                   *)

CachePcs == {"idle", "get", "key", "decrypt", "clear", "cached", "prompt", "prompted",
             "seal", "store", "negotiated"}
CallType == [blob : Blobs \cup {NoBlob}, key : AnyKey, right : BOOLEAN, unproved : BOOLEAN, expires : Times]

\* Of a call c at pc: it holds a slice from GetSudoCache until it has decrypted it, and
\* from encryptSudoPassword until it has stored it; and it caches only a password that
\* was right, or that sudo did not look at.
CallInv(c, pc) ==
    /\ pc \in {"key", "decrypt", "store"} => c.blob \in Blobs
    /\ pc = "seal" => c.right \/ c.unproved
CacheInv ==
    /\ CredentialIsSafe
    /\ \A t \in Threads : CallInv(sudoCall[t], cachePc[t])

USE CacheAssumption

\* A step that changes the call of one thread, to c at pc, and neither a slice nor a key
\* nor what is cached.
LEMMA CallChanges ==
    ASSUME CacheInv, NEW t \in Threads, NEW c \in CallType, NEW pc \in CachePcs, CallInv(c, pc),
           cachePc' = [cachePc EXCEPT ![t] = pc], sudoCall' = [sudoCall EXCEPT ![t] = c],
           cachePc[t] # "store",
           UNCHANGED <<now, finalized, cache, cacheKeys, heap>>
    PROVE  CacheInv'
  <1>1. CacheTypeOK'
    BY DEF CacheInv, CredentialIsSafe, CacheTypeOK, CallType, CachePcs, cache, cacheKeys
  <1>2. \A u \in Threads : /\ cachePc'[u] = IF u = t THEN pc ELSE cachePc[u]
                           /\ sudoCall'[u] = IF u = t THEN c ELSE sudoCall[u]
    BY DEF CacheInv, CredentialIsSafe, CacheTypeOK
  <1>3. (\A u \in Threads : CallInv(sudoCall[u], cachePc[u]))'
    BY <1>2 DEF CacheInv
  <1>4. ReplacedIsZeroed' /\ NoRefusedIsCached'
    BY SMTT(30), <1>2 DEF CacheInv, CredentialIsSafe, ReplacedIsZeroed, NoRefusedIsCached, cache
  <1> QED BY <1>1, <1>3, <1>4 DEF CacheInv, CredentialIsSafe

\* What the steps do to a call keeps its type.
LEMMA CallTypes ==
    ASSUME NEW c \in CallType
    PROVE  /\ \A b \in Blobs \cup {NoBlob} : [c EXCEPT !.blob = b] \in CallType
           /\ \A k \in AnyKey : [c EXCEPT !.key = k] \in CallType
           /\ \A right \in BOOLEAN : [c EXCEPT !.right = right] \in CallType
           /\ \A right \in BOOLEAN : [c EXCEPT !.blob = NoBlob, !.key = NoKey, !.right = right] \in CallType
           /\ \A unproved \in BOOLEAN : [c EXCEPT !.unproved = unproved] \in CallType
           /\ \A b \in Blobs, e \in Times : [c EXCEPT !.blob = b, !.expires = e] \in CallType
  <1>1. \A b \in Blobs \cup {NoBlob} : [c EXCEPT !.blob = b] \in CallType BY DEF CallType
  <1>2. \A k \in AnyKey : [c EXCEPT !.key = k] \in CallType BY DEF CallType
  <1>3. \A right \in BOOLEAN : [c EXCEPT !.right = right] \in CallType BY DEF CallType
  <1>4. \A right \in BOOLEAN : [c EXCEPT !.blob = NoBlob, !.key = NoKey, !.right = right] \in CallType
    BY DEF CallType, AnyKey
  <1>5. \A b \in Blobs, e \in Times : [c EXCEPT !.blob = b, !.expires = e] \in CallType BY DEF CallType
  <1>6. \A unproved \in BOOLEAN : [c EXCEPT !.unproved = unproved] \in CallType BY DEF CallType
  <1> QED BY Zenon, <1>1, <1>2, <1>3, <1>4, <1>5, <1>6

LEMMA NoCallType == NoCall \in CallType
  BY DEF CallType, NoCall, AnyKey, Times

\* What CacheInv says of one thread.
LEMMA OneCall ==
    ASSUME CacheInv, NEW t \in Threads
    PROVE  sudoCall[t] \in CallType /\ cachePc[t] \in CachePcs /\ CallInv(sudoCall[t], cachePc[t])
  BY DEF CacheInv, CredentialIsSafe, CacheTypeOK, CallType, CachePcs

LEMMA CacheInitInv == CacheInit => CacheInv
  <1> SUFFICES ASSUME CacheInit PROVE CacheInv
    OBVIOUS
  <1>1. CacheTypeOK
    <2>1. 0 \in Times /\ 0 \in 0 .. MaxTime BY DEF Times
    <2>2. NoCall \in CallType BY <2>1 DEF NoCall, CallType, AnyKey
    <2>3. heap \in [Blobs -> Secret \cup {Zeroed}] BY DEF CacheInit
    <2>4. sudoCall \in [Threads -> CallType] BY <2>2 DEF CacheInit
    <2> QED BY <2>1, <2>3, <2>4 DEF CacheInit, CacheTypeOK, CallType, AnyKey
  <1>2. ReplacedIsZeroed /\ NoRefusedIsCached
    BY DEF CacheInit, ReplacedIsZeroed, NoRefusedIsCached
  <1>3. \A t \in Threads : CallInv(sudoCall[t], cachePc[t])
    BY Zenon DEF CacheInit, CallInv, NoCall
  <1> QED BY <1>1, <1>2, <1>3 DEF CacheInv, CredentialIsSafe

LEMMA CacheStep == CacheInv /\ [CacheNext]_cacheVars => CacheInv'
  <1> SUFFICES ASSUME CacheInv, [CacheNext]_cacheVars PROVE CacheInv'
    OBVIOUS
  <1>types. CacheTypeOK /\ ReplacedIsZeroed /\ NoRefusedIsCached
            /\ \A u \in Threads : CallInv(sudoCall[u], cachePc[u])
    BY DEF CacheInv, CredentialIsSafe
  <1>same. \A t \in Threads : sudoCall = [sudoCall EXCEPT ![t] = sudoCall[t]]
    BY <1>types DEF CacheTypeOK
  \* A password that is to be cached is right, or is marked.
  <1>seals. ASSUME NEW t \in Threads, cachePc[t] # "store", CacheGoto(t, "seal"),
                   sudoCall' = [sudoCall EXCEPT ![t].unproved = ~sudoCall[t].right],
                   UNCHANGED <<now, finalized, cache, cacheKeys, heap>>
            PROVE  \E d \in CallType, pc \in CachePcs :
                      /\ CallInv(d, pc) /\ cachePc[t] # "store"
                      /\ cachePc' = [cachePc EXCEPT ![t] = pc] /\ sudoCall' = [sudoCall EXCEPT ![t] = d]
                      /\ UNCHANGED <<now, finalized, cache, cacheKeys, heap>>
    <2> DEFINE d == [sudoCall[t] EXCEPT !.unproved = ~sudoCall[t].right]
    <2>1. sudoCall[t] \in CallType BY OneCall
    <2> d \in CallType BY Zenon, <2>1, CallTypes
    <2> "seal" \in CachePcs BY DEF CachePcs
    <2>2. d.right \/ d.unproved BY <2>1 DEF CallType
    <2> WITNESS d \in CallType, "seal" \in CachePcs
    <2> QED BY <1>seals, <2>2 DEF CacheGoto, CallInv
  \* The steps that change one call only.
  <1>1. ASSUME NEW t \in Threads,
               \/ Call(t) \/ GetSudoCache(t) \/ CopyKey(t) \/ decryptSudoPassword(t)
               \/ tryCachedSudo(t) \/ Prompt(t) \/ execSudoWithPassword(t) \/ CachesTyped(t)
        PROVE  CacheInv'
    <2> DEFINE c == sudoCall[t]
    <2> SUFFICES \E d \in CallType, pc \in CachePcs :
                    /\ CallInv(d, pc) /\ cachePc[t] # "store"
                    /\ cachePc' = [cachePc EXCEPT ![t] = pc] /\ sudoCall' = [sudoCall EXCEPT ![t] = d]
                    /\ UNCHANGED <<now, finalized, cache, cacheKeys, heap>>
      BY CallChanges
    <2> c \in CallType /\ CallInv(c, cachePc[t]) BY OneCall
    <2> USE DEF CachePcs
    <2>1. CASE Call(t)
      <3>1. PICK pc \in {"get", "prompt"} : CacheGoto(t, pc) BY <2>1 DEF Call
      <3> WITNESS c \in CallType, pc \in CachePcs
      <3> QED BY <2>1, <3>1, <1>same DEF Call, CacheGoto, CallInv
    <2>2. CASE GetSudoCache(t)
      <3> now \in Nat /\ sudoExpiresAt \in Nat /\ sudoPassword \in Blobs \cup {NoBlob}
        BY <1>types DEF CacheTypeOK, Times
      <3>1. CASE sudoPassword = NoBlob
        <4> WITNESS c \in CallType, "prompt" \in CachePcs
        <4> QED BY <2>2, <3>1, <1>same DEF GetSudoCache, CacheGoto, CallInv
      <3>2. CASE sudoPassword # NoBlob /\ now > sudoExpiresAt
        <4> WITNESS c \in CallType, "clear" \in CachePcs
        <4> QED BY <2>2, <3>2, <1>same DEF GetSudoCache, CacheGoto, CallInv
      <3>3. CASE sudoPassword # NoBlob /\ now <= sudoExpiresAt
        <4> [c EXCEPT !.blob = sudoPassword] \in CallType BY Zenon, <1>types, CallTypes DEF CacheTypeOK, AnyKey
        <4> WITNESS [c EXCEPT !.blob = sudoPassword] \in CallType, "key" \in CachePcs
        <4> QED BY <2>2, <3>3 DEF GetSudoCache, CacheGoto, CallInv, CallType
      <3> QED BY <2>2, <3>1, <3>2, <3>3 DEF GetSudoCache
    <2>3. CASE CopyKey(t)
      <3>1. getEncryptionKey \in AnyKey BY <1>types DEF getEncryptionKey, CacheTypeOK, AnyKey
      <3> [c EXCEPT !.key = getEncryptionKey] \in CallType BY Zenon, <3>1, CallTypes
      <3> WITNESS [c EXCEPT !.key = getEncryptionKey] \in CallType, "decrypt" \in CachePcs
      <3> QED BY <2>3 DEF CopyKey, CacheGoto, CallInv, CallType
    <2>4. CASE decryptSudoPassword(t)
      <3> DEFINE m == heap[c.blob]
      <3>1. CASE c.key # NoKey /\ m.key # c.key
        <4> WITNESS c \in CallType, "clear" \in CachePcs
        <4> QED BY <2>4, <3>1, <1>same DEF decryptSudoPassword, CacheGoto, CallInv
      <3>2. CASE c.key \in {NoKey, m.key}
        <4> DEFINE right == m.right /\ m.key = c.key
        <4> DEFINE d == [c EXCEPT !.blob = NoBlob, !.key = NoKey, !.right = right]
        <4>1. right \in BOOLEAN OBVIOUS
        <4> d \in CallType BY ZenonT(60), <4>1, CallTypes DEF AnyKey
        <4> WITNESS d \in CallType, "cached" \in CachePcs
        <4> QED BY <2>4, <3>2 DEF decryptSudoPassword, CacheGoto, CallInv, CallType
      <3> QED BY <2>4, <3>1, <3>2 DEF decryptSudoPassword
    <2>5. CASE tryCachedSudo(t)
      <3>1. CASE CacheGoto(t, "clear") /\ UNCHANGED sudoCall
        <4> WITNESS c \in CallType, "clear" \in CachePcs
        <4> QED BY <2>5, <3>1, <1>same DEF tryCachedSudo, CacheGoto, CallInv
      <3>2. CASE CacheGoto(t, "seal") /\ sudoCall' = [sudoCall EXCEPT ![t].unproved = ~c.right]
        <4> QED BY <2>5, <3>2, <1>seals DEF tryCachedSudo
      <3> QED BY <2>5, <3>1, <3>2 DEF tryCachedSudo, Runs
    <2>6. CASE Prompt(t)
      <3>1. ASSUME NEW right \in BOOLEAN,
                   sudoCall' = [sudoCall EXCEPT ![t].right = right], CacheGoto(t, "prompted")
            PROVE  \E d \in CallType, pc \in CachePcs :
                      /\ CallInv(d, pc) /\ cachePc[t] # "store"
                      /\ cachePc' = [cachePc EXCEPT ![t] = pc] /\ sudoCall' = [sudoCall EXCEPT ![t] = d]
                      /\ UNCHANGED <<now, finalized, cache, cacheKeys, heap>>
        <4> [c EXCEPT !.right = right] \in CallType BY Zenon, CallTypes
        <4> WITNESS [c EXCEPT !.right = right] \in CallType, "prompted" \in CachePcs
        <4> QED BY <2>6, <3>1 DEF Prompt, CacheGoto, CallInv, CallType
      <3>2. CASE CacheReturn(t)
        <4> NoCall \in CallType BY NoCallType
        <4> WITNESS NoCall \in CallType, "idle" \in CachePcs
        <4> QED BY <2>6, <3>2 DEF Prompt, CacheReturn, CacheGoto, CallInv, NoCall
      <3> QED BY <2>6, <3>1, <3>2 DEF Prompt
    <2>7. CASE execSudoWithPassword(t)
      <3>1. CASE CacheReturn(t)
        <4> NoCall \in CallType BY NoCallType
        <4> WITNESS NoCall \in CallType, "idle" \in CachePcs
        <4> QED BY <2>7, <3>1 DEF execSudoWithPassword, CacheReturn, CacheGoto, CallInv, NoCall
      <3>2. CASE CacheGoto(t, "seal") /\ sudoCall' = [sudoCall EXCEPT ![t].unproved = ~c.right]
        <4> QED BY <2>7, <3>2, <1>seals DEF execSudoWithPassword
      <3> QED BY <2>7, <3>1, <3>2 DEF execSudoWithPassword, Runs
    <2>8. CASE CachesTyped(t)
      BY <2>8, <1>seals DEF CachesTyped
    <2> QED BY <1>1, <2>1, <2>2, <2>3, <2>4, <2>5, <2>6, <2>7, <2>8
  \* The steps that change what is cached.
  <1>2. ASSUME NEW t \in Threads, ClearSudoCache(t) PROVE CacheInv'
    <2> DEFINE c == NoCall
    <2> c \in CallType BY NoCallType
    <2>1. cachePc' = [cachePc EXCEPT ![t] = "prompt"] /\ sudoCall' = [sudoCall EXCEPT ![t] = c]
      BY <1>2 DEF ClearSudoCache, CacheGoto
    <2> HIDE DEF c
    <2>2. CacheTypeOK'
      <3>1. heap' \in [Blobs -> Secret \cup {Zeroed}]
        BY <1>2, <1>types DEF ClearSudoCache, ZeroPassword, CacheTypeOK
      <3> QED BY <1>2, <1>types, <2>1, <3>1 DEF ClearSudoCache, CacheTypeOK, CallType, Times, AnyKey
    <2>3. ReplacedIsZeroed' /\ NoRefusedIsCached'
      BY <1>2, <1>types, <2>1 DEF ClearSudoCache, ZeroPassword, ReplacedIsZeroed, NoRefusedIsCached, CacheTypeOK
    <2>4. \A u \in Threads : CallInv(sudoCall'[u], cachePc'[u])
      BY <1>types, <2>1 DEF CallInv, CacheTypeOK
    <2> QED BY <2>2, <2>3, <2>4 DEF CacheInv, CredentialIsSafe
  <1>3. ASSUME NEW t \in Threads, encryptSudoPassword(t) PROVE CacheInv'
    <2>1. PICK b \in Blobs :
             /\ Unused(b)
             /\ heap' = [heap EXCEPT ![b] = [key |-> getEncryptionKey, right |-> sudoCall[t].right,
                                            unproved |-> sudoCall[t].unproved]]
             /\ sudoCall' = [sudoCall EXCEPT ![t] = [NoCall EXCEPT !.blob = b, !.expires = now + TTL]]
      BY <1>3 DEF encryptSudoPassword
    <2> DEFINE c == [NoCall EXCEPT !.blob = b, !.expires = now + TTL]
    <2>0. now + TTL \in Times BY <1>types DEF CacheTypeOK, Times
    <2> sudoCall[t] \in CallType BY OneCall
    <2> c \in CallType BY Zenon, <2>0, NoCallType, CallTypes
    <2> c.blob = b BY DEF NoCall
    <2>2. cachePc' = [cachePc EXCEPT ![t] = "store"] /\ sudoCall' = [sudoCall EXCEPT ![t] = c]
      BY ZenonT(60), <1>3, <2>1, <1>types DEF encryptSudoPassword, CacheGoto, CacheTypeOK
    <2>3. /\ sudoCall[t].right \/ sudoCall[t].unproved
          /\ sudoCall[t].right \in BOOLEAN /\ sudoCall[t].unproved \in BOOLEAN
          /\ getEncryptionKey \in AnyKey
      BY <1>3, OneCall, <1>types
      DEF encryptSudoPassword, CallInv, CallType, getEncryptionKey, CacheTypeOK, AnyKey
    <2> HIDE DEF c
    <2>4. CacheTypeOK'
      <3>1. heap' \in [Blobs -> Secret \cup {Zeroed}]
        BY <1>types, <2>1, <2>3 DEF CacheTypeOK, Secret
      <3> QED BY <1>3, <1>types, <2>2, <3>1
             DEF encryptSudoPassword, CacheTypeOK, CallType, cache, cacheKeys
    <2>5. ReplacedIsZeroed'
      BY <1>3, <1>types, <2>1, <2>2 DEF encryptSudoPassword, ReplacedIsZeroed, CacheTypeOK, cache
    <2>6. NoRefusedIsCached'
      BY <1>types, <2>1, <2>3 DEF NoRefusedIsCached, CacheTypeOK
    <2>7. \A u \in Threads : CallInv(sudoCall'[u], cachePc'[u])
      BY <1>types, <2>2 DEF CallInv, CacheTypeOK
    <2> QED BY <2>4, <2>5, <2>6, <2>7 DEF CacheInv, CredentialIsSafe
  <1>4. ASSUME NEW t \in Threads, SetSudoCache(t) PROVE CacheInv'
    <2>1. cachePc' = [cachePc EXCEPT ![t] = "idle"] /\ sudoCall' = [sudoCall EXCEPT ![t] = NoCall]
      BY <1>4 DEF SetSudoCache, CacheReturn, CacheGoto
    <2>2. sudoCall[t] \in CallType /\ sudoCall[t].blob \in Blobs /\ NoCall \in CallType
      BY <1>4, OneCall, NoCallType DEF SetSudoCache, CallInv
    <2>3. CacheTypeOK'
      <3>1. heap' \in [Blobs -> Secret \cup {Zeroed}]
        BY <1>4, <1>types DEF SetSudoCache, ZeroPassword, CacheTypeOK
      <3>2. sudoPassword' \in Blobs /\ sudoExpiresAt' \in Times
        BY <1>4, <2>2 DEF SetSudoCache, CallType
      <3> QED BY <1>4, <1>types, <2>1, <2>2, <3>1, <3>2 DEF SetSudoCache, CacheTypeOK, CallType, cacheKeys
    <2>4. ReplacedIsZeroed' /\ NoRefusedIsCached'
      BY <1>4, <1>types, <2>1 DEF SetSudoCache, ZeroPassword, ReplacedIsZeroed, NoRefusedIsCached, CacheTypeOK
    <2>5. \A u \in Threads : CallInv(sudoCall'[u], cachePc'[u])
      BY <1>types, <2>1 DEF CallInv, CacheTypeOK, NoCall
    <2> QED BY <2>3, <2>4, <2>5 DEF CacheInv, CredentialIsSafe
  \* The steps that change the keys.
  <1>5. ASSUME NEW t \in Threads, NEW k \in Keys, setSudoCacheKey(t, k) PROVE CacheInv'
    BY <1>5, <1>types DEF setSudoCacheKey, CacheInv, CredentialIsSafe, CacheTypeOK, ReplacedIsZeroed,
                          NoRefusedIsCached, AnyKey, cache
  <1> DEFINE zeroed == ZeroNegotiated(sudoCall)
  <1>zero. \A u \in Threads :
              /\ zeroed[u] \in CallType /\ CallInv(zeroed[u], cachePc[u])
              /\ zeroed[u].blob = sudoCall[u].blob
    <2> SUFFICES ASSUME NEW u \in Threads
                 PROVE  /\ zeroed[u] \in CallType /\ CallInv(zeroed[u], cachePc[u])
                        /\ zeroed[u].blob = sudoCall[u].blob
      OBVIOUS
    <2>1. zeroed[u] \in {sudoCall[u], [sudoCall[u] EXCEPT !.key = ZeroKey]} BY DEF ZeroNegotiated
    <2>2. zeroed[u] \in CallType
      <3>1. sudoCall[u] \in CallType /\ ZeroKey \in AnyKey BY SMTT(30), OneCall DEF AnyKey
      <3>2. [sudoCall[u] EXCEPT !.key = ZeroKey] \in CallType BY Zenon, <3>1, CallTypes
      <3> QED BY <2>1, <3>1, <3>2
    <2>3. \A f \in {"blob", "right", "unproved"} : zeroed[u][f] = sudoCall[u][f]
      BY <2>1, OneCall DEF CallType
    <2> QED BY <2>2, <2>3, OneCall DEF CallInv
  <1>zeroFun. zeroed \in [Threads -> CallType]
    BY <1>zero DEF ZeroNegotiated
  <1> HIDE DEF zeroed
  <1>6. ASSUME NEW t \in Threads, NEW k \in Keys, NegotiateSharedKey(t, k) PROVE CacheInv'
    <2> DEFINE c == [zeroed[t] EXCEPT !.key = k]
    <2>0. k \in AnyKey /\ zeroed[t] \in CallType BY SMTT(30), <1>zero DEF AnyKey
    <2> c \in CallType BY Zenon, <2>0, CallTypes
    <2> c.blob = sudoCall[t].blob
      BY <1>zero, <2>0 DEF CallType
    <2>1. cachePc' = [cachePc EXCEPT ![t] = "negotiated"] /\ sudoCall' = [zeroed EXCEPT ![t] = c]
      BY <1>6, <1>zeroFun DEF NegotiateSharedKey, CacheGoto, zeroed
    <2> HIDE DEF c
    <2>2. CacheTypeOK'
      <3>1. sudoCall' \in [Threads -> CallType] BY <1>zeroFun, <2>1
      <3> QED BY <1>6, <1>types, <2>1, <3>1 DEF NegotiateSharedKey, CacheTypeOK, CallType, cache
    <2>3. ReplacedIsZeroed' /\ NoRefusedIsCached'
      BY <1>6, <1>types, <1>zero, <1>zeroFun, <2>1
      DEF NegotiateSharedKey, ReplacedIsZeroed, NoRefusedIsCached, CacheTypeOK, cache
    <2>4. \A u \in Threads : CallInv(sudoCall'[u], cachePc'[u])
      BY <1>types, <1>zero, <1>zeroFun, <2>1 DEF CallInv, CacheTypeOK
    <2> QED BY <2>2, <2>3, <2>4 DEF CacheInv, CredentialIsSafe
  <1>7. ASSUME NEW t \in Threads, NegotiatedCacheKey(t) PROVE CacheInv'
    <2>1. cachePc' = [cachePc EXCEPT ![t] = "idle"] /\ sudoCall' = [sudoCall EXCEPT ![t] = NoCall]
      BY <1>7 DEF NegotiatedCacheKey, CacheReturn, CacheGoto
    <2>2. sudoCall[t].key \in AnyKey /\ NoCall \in CallType
      BY OneCall, NoCallType DEF CallType
    <2>3. CacheTypeOK'
      BY <1>7, <1>types, <2>1, <2>2 DEF NegotiatedCacheKey, CacheTypeOK, CallType, cache
    <2>4. ReplacedIsZeroed' /\ NoRefusedIsCached'
      BY <1>7, <1>types, <2>1 DEF NegotiatedCacheKey, ReplacedIsZeroed, NoRefusedIsCached, CacheTypeOK, cache
    <2>5. \A u \in Threads : CallInv(sudoCall'[u], cachePc'[u])
      BY <1>types, <2>1 DEF CallInv, CacheTypeOK, NoCall
    <2> QED BY <2>3, <2>4, <2>5 DEF CacheInv, CredentialIsSafe
  <1>8. ASSUME NEW t \in Threads, Finalize(t) PROVE CacheInv'
    <2>1. sudoCall' = zeroed BY <1>8 DEF Finalize, zeroed
    <2>2. CacheTypeOK'
      <3>1. heap' \in [Blobs -> Secret \cup {Zeroed}]
        BY <1>8, <1>types DEF Finalize, ZeroPassword, CacheTypeOK
      <3> QED BY <1>8, <1>types, <1>zeroFun, <2>1, <3>1 DEF Finalize, CacheTypeOK, CallType, Times, AnyKey
    <2>3. ReplacedIsZeroed' /\ NoRefusedIsCached'
      BY <1>8, <1>types, <1>zero, <2>1 DEF Finalize, ZeroPassword, ReplacedIsZeroed, NoRefusedIsCached
    <2>4. \A u \in Threads : CallInv(sudoCall'[u], cachePc'[u])
      BY <1>8, <1>zero, <2>1 DEF Finalize
    <2> QED BY <2>2, <2>3, <2>4 DEF CacheInv, CredentialIsSafe
  <1>9. CASE Tick \/ UNCHANGED cacheVars
    BY <1>9, <1>types DEF Tick, cacheVars, CacheInv, CredentialIsSafe, CacheTypeOK, ReplacedIsZeroed,
                          NoRefusedIsCached, cache, cacheKeys
  <1> QED BY <1>1, <1>2, <1>3, <1>4, <1>5, <1>6, <1>7, <1>8, <1>9 DEF CacheNext, Steps

\* However calls, prompts, expiry, negotiated keys and the end of the session interleave,
\* with any number of threads: a password in the cache (SetSudoCache) is right, or one that
\* sudo has not looked at, but never one that it refused; and each that leaves it is zeroed (ClearSudoCache, FinalizeSession).
THEOREM CredentialIsSafeHolds == CacheSpec => []CredentialIsSafe
  <1>1. CacheInv => CredentialIsSafe BY DEF CacheInv
  <1> QED BY CacheInitInv, CacheStep, <1>1, PTL DEF CacheSpec

-------------------------------------------------------------------------------
(* The channels.                                                           *)

SudoPcs == {"idle", "done", "given", "sudo -n", "cached", "channel", "methods"}
Answers == {"none", "ok", "failed", "cancelled", "error", "challenge"}
Passwords == {"none", "right", "wrong", "lost key"}
SudoType ==
    [pc : SudoPcs, caps : SUBSET {"terminal", "graphical", "elicitation"},
     tools : SUBSET {"sudo", "askpass", "pkexec"}, callback : BOOLEAN, unavailable : BOOLEAN,
     cached : Passwords, api : Apis \cup {"Exec"}, method : {"none", "nopass", "graphical"}, given : Passwords,
     asked : Nat, unanswered : Nat, declined : BOOLEAN, last : ExitCodes \cup {"none"},
     ranDeclined : BOOLEAN, ranAgain : BOOLEAN, answer : Answers]

\* SudoAsksAndRunsRightly, of a call s.
Right(s) ==
    /\ ~s.ranDeclined
    /\ s.ranAgain => s.api = "BackgroundExec"
    /\ s.answer = "ok" => s.last = "ok"
    /\ s.pc = "done" /\ s.last = "ok" => s.answer = "ok" \/ s.api = "BackgroundExec"
    /\ s.asked <= 1 + s.unanswered
\* Of a call in progress: the user has not declined, the command has not succeeded, and
\* each prompt there was had no answer.
Undecided(s) ==
    /\ ~s.declined /\ ~s.ranDeclined /\ ~s.ranAgain
    /\ s.last # "ok" /\ s.answer = "none"
    /\ s.asked <= s.unanswered
SudoInv == sudo \in SudoType /\ Right(sudo) /\ (sudo.pc # "done" => Undecided(sudo))

\* The fields that Right and Undecided are about.
FateFields == {"api", "asked", "unanswered", "declined", "last", "ranDeclined", "ranAgain", "answer"}

LEMMA EndsEffect ==
    ASSUME NEW s \in SudoType, NEW a \in Answers
    PROVE  /\ Ends(s, a) \in SudoType /\ Ends(s, a).pc = "done" /\ Ends(s, a).answer = a
           /\ \A f \in FateFields \ {"answer"} : Ends(s, a)[f] = s[f]
  <1>1. Ends(s, a) \in SudoType BY ZenonT(60) DEF Ends, SudoType, SudoPcs, Passwords
  <1>2. Ends(s, a).pc = "done" /\ Ends(s, a).answer = a BY DEF Ends, SudoType
  <1>3. \A f \in FateFields \ {"answer"} : Ends(s, a)[f] = s[f] BY DEF Ends, SudoType, FateFields
  <1> QED BY <1>1, <1>2, <1>3

LEMMA RanEffect ==
    ASSUME NEW s \in SudoType, NEW code \in ExitCodes
    PROVE  /\ Ran(s, code) \in SudoType
           /\ Ran(s, code).last = code
           /\ Ran(s, code).ranDeclined = (s.ranDeclined \/ s.declined)
           /\ Ran(s, code).ranAgain = (s.ranAgain \/ s.last = "ok")
           /\ \A f \in (FateFields \cup {"pc"}) \ {"last", "ranDeclined", "ranAgain"} : Ran(s, code)[f] = s[f]
  <1>1. Ran(s, code) \in SudoType
    <2> DEFINE declined == s.ranDeclined \/ s.declined
               again == s.ranAgain \/ s.last = "ok"
    <2>1. Ran(s, code) = [s EXCEPT !.last = code, !.ranDeclined = declined, !.ranAgain = again]
      BY DEF Ran, SudoType
    <2>2. declined \in BOOLEAN /\ again \in BOOLEAN OBVIOUS
    <2> HIDE DEF declined, again
    <2> QED BY ZenonT(60), <2>1, <2>2 DEF SudoType
  <1>2. Ran(s, code).last = code BY DEF Ran, SudoType
  <1>3. Ran(s, code).ranDeclined = (s.ranDeclined \/ s.declined) BY DEF Ran, SudoType
  <1>4. Ran(s, code).ranAgain = (s.ranAgain \/ s.last = "ok") BY DEF Ran, SudoType
  <1>5. \A f \in (FateFields \cup {"pc"}) \ {"last", "ranDeclined", "ranAgain"} : Ran(s, code)[f] = s[f]
    BY DEF Ran, SudoType, FateFields
  <1> QED BY <1>1, <1>2, <1>3, <1>4, <1>5

\* A call that may execute its command.
MayRun(s) ==
    /\ s \in SudoType /\ ~s.declined /\ ~s.ranDeclined
    /\ s.ranAgain \/ s.last = "ok" => s.api = "BackgroundExec"
    /\ s.asked <= 1 + s.unanswered
\* A call that ended as SudoAsksAndRunsRightly says.
EndedRight(s) == s \in SudoType /\ s.pc = "done" /\ Right(s)
\* A call that goes on.
GoesOn(s) == s \in SudoType /\ s.pc # "done" /\ Undecided(s)

LEMMA EndsRight ==
    ASSUME NEW s \in SudoType, NEW a \in Answers, ~s.ranDeclined, s.ranAgain => s.api = "BackgroundExec",
           s.asked <= 1 + s.unanswered,
           a = "ok" => s.last = "ok", s.last = "ok" => a = "ok" \/ s.api = "BackgroundExec"
    PROVE  EndedRight(Ends(s, a))
  <1> DEFINE e == Ends(s, a)
  <1>1. e \in SudoType /\ e.pc = "done" /\ e.answer = a BY EndsEffect
  <1>2. /\ e.api = s.api /\ e.asked = s.asked /\ e.unanswered = s.unanswered /\ e.last = s.last
        /\ e.ranDeclined = s.ranDeclined /\ e.ranAgain = s.ranAgain
    BY EndsEffect DEF FateFields
  <1> QED BY <1>1, <1>2 DEF EndedRight, Right

LEMMA RanEndsRight ==
    ASSUME NEW s, MayRun(s), NEW code \in ExitCodes
    PROVE  /\ EndedRight(Ends(Ran(s, code), code))
           /\ \A p \in Passwords : EndedRight(Ends([Ran(s, code) EXCEPT !.cached = p], code))
           /\ EndedRight(Ends([Ran(s, code) EXCEPT !.cached = @], code))
  <1> DEFINE r == Ran(s, code)
  <1>0. s \in SudoType /\ code \in Answers BY DEF MayRun, ExitCodes, Answers
  <1>1. /\ r \in SudoType /\ r.last = code /\ ~r.ranDeclined /\ (r.ranAgain => r.api = "BackgroundExec")
        /\ r.asked <= 1 + r.unanswered
    <2>1. /\ r \in SudoType /\ r.last = code /\ r.ranDeclined = (s.ranDeclined \/ s.declined)
          /\ r.ranAgain = (s.ranAgain \/ s.last = "ok")
      BY <1>0, RanEffect
    <2>2. r.api = s.api /\ r.asked = s.asked /\ r.unanswered = s.unanswered
      BY <1>0, RanEffect DEF FateFields
    <2> QED BY <2>1, <2>2 DEF MayRun
  <1> HIDE DEF r
  <1>2. ASSUME NEW q \in {r} \cup {[r EXCEPT !.cached = p] : p \in Passwords}
        PROVE  EndedRight(Ends(q, code))
    <2>1. q \in SudoType BY <1>1 DEF SudoType
    <2>2. /\ q.last = code /\ ~q.ranDeclined /\ (q.ranAgain => q.api = "BackgroundExec")
          /\ q.asked <= 1 + q.unanswered
      BY <1>1 DEF SudoType
    <2> QED BY <1>0, <2>1, <2>2, EndsRight
  <1>3. [r EXCEPT !.cached = @] = r BY <1>1 DEF SudoType
  <1> QED BY <1>2, <1>3 DEF r

LEMMA WithPasswordEnds ==
    ASSUME NEW s, MayRun(s), s.last # "ok", NEW password \in Passwords, NEW e \in WithPassword(s, password)
    PROVE  EndedRight(e)
  <1>1. CASE e = Ends(s, "failed") BY <1>1, EndsRight DEF MayRun, Answers
  <1>2. CASE e # Ends(s, "failed")
    <2>1. PICK code \in ExitCodes :
             e = Ends([Ran(s, code) EXCEPT !.cached = IF code = "ok" THEN password ELSE @], code)
      BY <1>2 DEF WithPassword
    <2>2. CASE code = "ok" BY <2>1, <2>2, RanEndsRight
    <2>3. CASE code # "ok" BY <2>1, <2>3, RanEndsRight
    <2> QED BY <2>2, <2>3
  <1> QED BY <1>1, <1>2

LEMMA StartedEnds ==
    ASSUME NEW s, MayRun(s), s.api = "BackgroundExec", NEW e \in Started(s)
    PROVE  EndedRight(e)
  BY RanEndsRight, EndsRight DEF Started, MayRun, Answers

\* tryCachedSudo's execution of the command: it goes on when it failed.
LEMMA TriedCommand ==
    ASSUME NEW s, MayRun(s), s.last # "ok"
    PROVE  /\ \A code \in ExitCodes : EndedRight(Ends(Ran(s, code), code))
           /\ s.api = "BackgroundExec" => \A e \in Started(Ran(s, "ok")) : EndedRight(e)
  <1>1. ASSUME s.api = "BackgroundExec" PROVE MayRun(Ran(s, "ok"))
    <2> DEFINE r == Ran(s, "ok")
    <2>0. s \in SudoType /\ "ok" \in ExitCodes BY DEF MayRun, ExitCodes
    <2>1. r \in SudoType /\ r.ranDeclined = (s.ranDeclined \/ s.declined) BY <2>0, RanEffect
    <2>2. r.api = s.api /\ r.asked = s.asked /\ r.unanswered = s.unanswered /\ r.declined = s.declined
      BY <2>0, RanEffect DEF FateFields
    <2> QED BY <1>1, <2>1, <2>2 DEF MayRun
  <1>2. ASSUME s.api = "BackgroundExec" PROVE Ran(s, "ok").api = "BackgroundExec"
    <2>1. Ran(s, "ok").api = s.api BY RanEffect DEF MayRun, ExitCodes, FateFields
    <2> QED BY <1>2, <2>1
  <1>3. ASSUME s.api = "BackgroundExec", NEW e \in Started(Ran(s, "ok")) PROVE EndedRight(e)
    BY <1>1, <1>2, <1>3, StartedEnds
  <1> QED BY <1>3, RanEndsRight

LEMMA SudoInitInv == SudoInit => SudoInv
  BY DEF SudoInit, SudoInv, NoSudo, SudoType, SudoPcs, Passwords, Answers, Right, Undecided

LEMMA SudoStep == SudoInv /\ [SudoNext]_sudo => SudoInv'
  <1> SUFFICES ASSUME SudoInv, SudoNext PROVE EndedRight(sudo') \/ GoesOn(sudo')
    BY DEF SudoInv, EndedRight, GoesOn, Right, Undecided, SudoType
  <1> sudo \in SudoType /\ Right(sudo) /\ (sudo.pc # "done" => Undecided(sudo))
    BY DEF SudoInv
  <1>run. sudo.pc # "done" => MayRun(sudo) /\ sudo.last # "ok"
    BY DEF MayRun, Undecided, SudoType
  \* A call in progress that goes on at pc, or that ends without another execution.
  <1>goto. ASSUME sudo.pc # "done", NEW pc \in SudoPcs \ {"done"} PROVE GoesOn([sudo EXCEPT !.pc = pc])
    BY <1>goto DEF GoesOn, SudoType, Undecided
  <1>end. ASSUME sudo.pc # "done", NEW a \in Answers, a # "ok" PROVE EndedRight(Ends(sudo, a))
    BY <1>end, EndsRight DEF Undecided, SudoType
  <1>1. CASE SudoSession
    <2>1. PICK caps \in SUBSET {"terminal", "graphical", "elicitation"},
               tools \in SUBSET {"sudo", "askpass", "pkexec"}, callback \in BOOLEAN :
               sudo' = [sudo EXCEPT !.pc = "done", !.caps = caps, !.tools = tools, !.callback = callback]
      BY Zenon, <1>1 DEF SudoSession
    <2>2. sudo' \in SudoType
      <3>1. "done" \in SudoPcs BY DEF SudoPcs
      <3> QED BY <2>1, <3>1 DEF SudoType
    <2> QED BY <1>1, <2>1, <2>2 DEF SudoSession, EndedRight, Right, Undecided, SudoType
  <1>2. CASE SudoCall
    <2> DEFINE called(api, method, given) == [NoSudo EXCEPT
                !.pc = IF given = "none" THEN "sudo -n" ELSE "given", !.caps = sudo.caps, !.tools = sudo.tools,
                !.callback = sudo.callback, !.unavailable = sudo.unavailable, !.cached = sudo.cached,
                !.api = api, !.method = method, !.given = given]
    <2>0. \E api \in Apis, method \in {"none", "nopass", "graphical"}, given \in Passwords :
             sudo' = called(api, method, given)
      <3>1. SudoCall <=> /\ sudo.pc = "done"
                         /\ \E api \in Apis, method \in {"none", "nopass", "graphical"}, given \in Passwords :
                               /\ api # "SudoExec" => method = "none" /\ given = "none"
                               /\ sudo' = called(api, method, given)
        BY DEF SudoCall, Passwords
      <3> HIDE DEF called
      <3> QED BY <1>2, <3>1
    <2>1. PICK api \in Apis, method \in {"none", "nopass", "graphical"}, given \in Passwords :
             sudo' = called(api, method, given)
      BY Zenon, <2>0
    <2>2. sudo' \in SudoType
      <3> DEFINE pc == IF given = "none" THEN "sudo -n" ELSE "given"
      <3>1. pc \in SudoPcs BY DEF SudoPcs
      <3>2. sudo' = [NoSudo EXCEPT
                !.pc = pc, !.caps = sudo.caps, !.tools = sudo.tools, !.callback = sudo.callback,
                !.unavailable = sudo.unavailable, !.cached = sudo.cached,
                !.api = api, !.method = method, !.given = given]
        BY <2>1
      <3>3. NoSudo \in SudoType BY Zenon DEF NoSudo, SudoType, SudoPcs, Passwords, Answers
      <3> HIDE DEF pc
      <3> QED BY ZenonT(60), <3>1, <3>2, <3>3 DEF SudoType
    <2>3. sudo'.pc # "done" BY <2>1 DEF NoSudo
    <2>4. Undecided(sudo') BY <2>1 DEF NoSudo, Undecided
    <2> QED BY <2>2, <2>3, <2>4 DEF GoesOn
  <1>3. CASE SudoExecGiven
    <2>1. CASE sudo' = Ends(sudo, "cancelled") BY Zenon, <1>3, <2>1, <1>end DEF SudoExecGiven, Answers
    <2>2. CASE sudo' \in WithPassword(sudo, sudo.given)
      BY Zenon, <1>3, <2>2, <1>run, WithPasswordEnds DEF SudoExecGiven, SudoType
    <2> QED BY Zenon, <1>3, <2>1, <2>2 DEF SudoExecGiven
  \* tryCachedSudo: after a failure the next is tried.
  <1>failed. ASSUME sudo.pc # "done", NEW pc \in SudoPcs \ {"done"}, NEW p \in Passwords
             PROVE  /\ GoesOn([Ran(sudo, "failed") EXCEPT !.pc = pc])
                    /\ GoesOn([Ran(sudo, "failed") EXCEPT !.pc = pc, !.cached = p])
    <2> DEFINE r == Ran(sudo, "failed")
    <2>1. r \in SudoType /\ r.last = "failed" /\ r.ranDeclined = (sudo.ranDeclined \/ sudo.declined)
          /\ r.ranAgain = (sudo.ranAgain \/ sudo.last = "ok")
      BY RanEffect DEF ExitCodes
    <2>2. /\ r.asked = sudo.asked /\ r.unanswered = sudo.unanswered
          /\ r.declined = sudo.declined /\ r.answer = sudo.answer
      <3>1. "failed" \in ExitCodes BY DEF ExitCodes
      <3>2. \A f \in {"asked", "unanswered", "declined", "answer"} : r[f] = sudo[f]
        BY <3>1, RanEffect DEF FateFields
      <3> QED BY <3>2
    <2>3. Undecided(r) BY <1>failed, <2>1, <2>2 DEF Undecided
    <2> HIDE DEF r
    <2>4. GoesOn([r EXCEPT !.pc = pc]) BY <2>1, <2>3 DEF GoesOn, SudoType, Undecided
    <2>5. GoesOn([r EXCEPT !.pc = pc, !.cached = p])
      <3> DEFINE q == [r EXCEPT !.pc = pc, !.cached = p]
      <3>1. q \in SudoType /\ q.pc = pc BY <2>1 DEF SudoType
      <3>2. \A f \in FateFields : q[f] = r[f] BY <2>1 DEF SudoType, FateFields
      <3> HIDE DEF q
      <3>3. Undecided(q) BY <2>3, <3>2 DEF Undecided, FateFields
      <3> QED BY <3>1, <3>3 DEF q, GoesOn
    <2> QED BY <2>4, <2>5 DEF r
  <1>4. CASE SudoN
    <2>0. sudo.pc # "done" BY Zenon, <1>4 DEF SudoN
    <2>1. CASE SudoGoto("cached") BY ZenonT(60), <2>0, <2>1, <1>goto DEF SudoGoto, SudoPcs
    <2>2. CASE sudo' = [Ran(sudo, "failed") EXCEPT !.pc = "cached"]
      BY Zenon, <2>0, <2>2, <1>failed DEF SudoPcs, Passwords
    <2>3. CASE \E code \in ExitCodes : sudo' = Ends(Ran(sudo, code), code)
      BY <2>0, <2>3, <1>run, RanEndsRight
    <2>4. CASE sudo.api = "BackgroundExec" /\ sudo' \in Started(Ran(sudo, "ok"))
      BY <2>0, <2>4, <1>run, TriedCommand
    <2> QED BY Zenon, <1>4, <2>1, <2>2, <2>3, <2>4 DEF SudoN, ExitCodes
  <1>5. CASE CachedSudo
    <2>0. sudo.pc # "done" BY Zenon, <1>5 DEF CachedSudo
    <2>1. CASE SudoGoto("channel") BY Zenon, <2>0, <2>1, <1>goto DEF SudoGoto, SudoPcs
    <2>2. CASE sudo' = [sudo EXCEPT !.pc = "channel", !.cached = "none"]
      <3>1. sudo' \in SudoType BY ZenonT(60), <2>2 DEF SudoType, SudoPcs, Passwords
      <3>2. sudo'.pc = "channel" BY <2>2 DEF SudoType
      <3>3. \A f \in FateFields : sudo'[f] = sudo[f] BY <2>2 DEF SudoType, FateFields
      <3>4. Undecided(sudo') BY <2>0, <3>3 DEF Undecided, FateFields
      <3> QED BY <3>1, <3>2, <3>4 DEF GoesOn
    <2>3. CASE sudo' = [Ran(sudo, "failed") EXCEPT !.pc = "channel", !.cached = "none"]
      BY Zenon, <2>0, <2>3, <1>failed DEF SudoPcs, Passwords
    <2>4. CASE \E code \in ExitCodes : sudo' = Ends(Ran(sudo, code), code)
      BY <2>0, <2>4, <1>run, RanEndsRight
    <2>5. CASE sudo.api = "BackgroundExec" /\ sudo' \in Started(Ran(sudo, "ok"))
      BY <2>0, <2>5, <1>run, TriedCommand
    <2> QED BY <1>5, <2>1, <2>2, <2>3, <2>4, <2>5 DEF CachedSudo, ExitCodes
  \* The user is asked.
  <1>asked. /\ Asked \in SudoType /\ Asked.asked = sudo.asked + 1 /\ Asked.unanswered = sudo.unanswered
            /\ \A f \in {"declined", "last", "ranDeclined", "ranAgain", "answer"} : Asked[f] = sudo[f]
    <2>1. Asked \in SudoType BY DEF Asked, SudoType
    <2>2. Asked.asked = sudo.asked + 1 /\ Asked.unanswered = sudo.unanswered BY DEF Asked, SudoType
    <2>3. \A f \in {"declined", "last", "ranDeclined", "ranAgain", "answer"} : Asked[f] = sudo[f]
      BY DEF Asked, SudoType
    <2> QED BY <2>1, <2>2, <2>3
  <1>6. CASE PasswordTyped
    <2>0. sudo.pc # "done" BY <1>6 DEF PasswordTyped
    <2> DEFINE asked(p) == [Asked EXCEPT !.cached = p]
    <2>1. MayRun(Asked) /\ Asked.last # "ok"
      BY <2>0 DEF Asked, SudoType, MayRun, Undecided
    <2>2. ASSUME NEW p \in Passwords PROVE MayRun(asked(p)) /\ asked(p).last # "ok"
      BY <2>1 DEF SudoType, MayRun
    <2>3. PICK p \in {"right", "wrong"} :
             \/ sudo' = Ends(asked(p), "failed")
             \/ sudo' \in WithPassword(Asked, p)
      BY <1>6 DEF PasswordTyped
    <2>4. p \in Passwords BY Zenon DEF Passwords
    <2> HIDE DEF asked
    <2>5. CASE sudo' = Ends(asked(p), "failed")
      BY <2>2, <2>4, <2>5, EndsRight DEF MayRun, Answers
    <2>6. CASE sudo' \in WithPassword(Asked, p) BY <2>1, <2>4, <2>6, WithPasswordEnds
    <2> QED BY <2>3, <2>5, <2>6
  <1>7. CASE UserDeclines
    <2>0. sudo.pc # "done" BY <1>7 DEF UserDeclines
    <2> DEFINE s == [Asked EXCEPT !.declined = TRUE]
    <2>1. sudo' = Ends(s, "error") BY <1>7 DEF UserDeclines, Fails, isUserDecline
    <2>2. s \in SudoType /\ s.last # "ok" /\ ~s.ranDeclined /\ ~s.ranAgain /\ s.asked <= 1 + s.unanswered
      <3>1. s \in SudoType BY <1>asked DEF SudoType
      <3>2. s.last # "ok" /\ ~s.ranDeclined /\ ~s.ranAgain /\ s.asked <= 1 + s.unanswered
        BY <2>0, <1>asked DEF SudoType, Undecided
      <3> QED BY <3>1, <3>2
    <2> QED BY <2>1, <2>2, EndsRight DEF Answers
  <1>8. CASE PromptUnanswered
    <2>0. sudo.pc # "done" BY <1>8 DEF PromptUnanswered
    <2> DEFINE s == [Asked EXCEPT !.unanswered = @ + 1]
    <2>1. s \in SudoType /\ Undecided(s)
      <3>1. s \in SudoType BY <1>asked DEF SudoType
      <3>2. Undecided(s) BY <2>0, <1>asked DEF SudoType, Undecided
      <3> QED BY <3>1, <3>2
    <2>2. sudo' \in {[s EXCEPT !.unavailable = TRUE, !.pc = "methods"], Ends(s, "error")}
      BY <1>8 DEF PromptUnanswered, Fails
    <2> HIDE DEF s
    <2>3. GoesOn([s EXCEPT !.unavailable = TRUE, !.pc = "methods"])
      <3> DEFINE m == [s EXCEPT !.unavailable = TRUE, !.pc = "methods"]
      <3>1. m \in SudoType BY ZenonT(60), <2>1 DEF SudoType, SudoPcs
      <3>2. m.pc = "methods" BY <2>1 DEF SudoType
      <3>3. \A f \in FateFields : m[f] = s[f] BY <2>1 DEF SudoType, FateFields
      <3> HIDE DEF m
      <3>4. Undecided(m) BY <2>1, <3>3 DEF Undecided, FateFields
      <3> QED BY <3>1, <3>2, <3>4 DEF m, GoesOn
    <2>4. EndedRight(Ends(s, "error")) BY <2>1, EndsRight DEF Undecided, SudoType, Answers
    <2> QED BY <2>2, <2>3, <2>4
  <1>pkexec. ASSUME sudo.pc # "done", NEW e \in Pkexec(sudo) PROVE EndedRight(e)
    <2> DEFINE s == [sudo EXCEPT !.asked = @ + 1]
    <2>1. MayRun(s) BY <1>pkexec DEF SudoType, MayRun, Undecided
    <2> DEFINE d == [sudo EXCEPT !.asked = @ + 1, !.declined = TRUE]
    <2>2. d \in SudoType /\ d.last # "ok" /\ ~d.ranDeclined /\ ~d.ranAgain /\ d.asked <= 1 + d.unanswered
      <3>0. sudo.asked + 1 \in Nat BY DEF SudoType
      <3>1. d \in SudoType BY <3>0 DEF SudoType
      <3>2. d.last # "ok" /\ ~d.ranDeclined /\ ~d.ranAgain /\ d.asked <= 1 + d.unanswered
        BY <1>pkexec DEF SudoType, Undecided
      <3> QED BY <3>1, <3>2
    <2>3. e = Ends(d, "failed") \/ \E code \in ExitCodes : e = Ends(Ran(s, code), code)
      BY <1>pkexec DEF Pkexec
    <2> HIDE DEF s, d
    <2> QED BY <2>1, <2>2, <2>3, EndsRight, RanEndsRight DEF Answers
  <1>9. CASE RunPkexec
    <2>0. sudo.pc # "done" BY <1>9 DEF RunPkexec
    <2>1. CASE sudo' = [sudo EXCEPT !.pc = "sudo -n", !.method = "graphical"]
      <3>1. sudo' \in SudoType BY Zenon, <2>1 DEF SudoType, SudoPcs
      <3>2. sudo'.pc = "sudo -n" BY <2>1 DEF SudoType
      <3>3. \A f \in FateFields : sudo'[f] = sudo[f] BY <2>1 DEF SudoType, FateFields
      <3>4. Undecided(sudo') BY <2>0, <3>3 DEF Undecided, FateFields
      <3> QED BY Zenon, <3>1, <3>2, <3>4 DEF GoesOn
    <2> QED BY <1>9, <2>0, <2>1, <1>pkexec DEF RunPkexec
  <1>10. CASE NoChannel
    BY Zenon, <1>10, <1>goto, <1>end DEF NoChannel, SudoGoto, SudoPcs, Answers
  <1>11. CASE SudoMethods
    <2>0. sudo.pc # "done" BY <1>11 DEF SudoMethods
    <2>1. \/ \E a \in Answers \ {"ok"} : sudo' = Ends(sudo, a)
          \/ \E code \in ExitCodes : sudo' = Ends(Ran(sudo, code), code)
          \/ sudo' \in Pkexec(sudo)
      BY <1>11 DEF SudoMethods, Answers
    <2> QED BY <2>0, <2>1, <1>end, <1>run, <1>pkexec, RanEndsRight
  <1> QED BY <1>1, <1>2, <1>3, <1>4, <1>5, <1>6, <1>7, <1>8, <1>9, <1>10, <1>11 DEF SudoNext

\* For whatever methods are called, in any order, and whichever channels a client and a
\* desktop offer (Exec, ExecStream, SudoExec, BackgroundExec): no command is executed once
\* the user declined, an answer of success is the last execution's, and a second prompt
\* follows only unanswered ones; but for BackgroundExec, none is executed again after a
\* success, which is reported.
THEOREM SudoAsksAndRunsRightlyHolds == SudoInit /\ [][SudoNext]_sudo => []SudoAsksAndRunsRightly
  <1>1. SudoInv => SudoAsksAndRunsRightly BY DEF SudoInv, Right, SudoAsksAndRunsRightly
  <1> QED BY SudoInitInv, SudoStep, <1>1, PTL

HIDE CacheAssumption

-------------------------------------------------------------------------------
(* Resources.                                                              *)

Words == {r.word : r \in Readings} \cup {"none"}
ReadingType == [n : Nat, at : Int, number : Int, word : Words]
CallerType ==
    [pc : {"off", "wake", "check", "pollnow", "polled", "get", "answered"},
     since : Int, waited : BOOLEAN, skipped : BOOLEAN, got : ReadingType]
WatcherType ==
    [on : BOOLEAN, filter : {"nil", "number", "word"}, ch : Seq(ReadingType), missed : BOOLEAN,
     word : Words, last : ReadingType, joined : Nat]
ResourcesType ==
    [pc : {"off", "collect", "broadcast", "record", "next", "waiting", "resting", "stopped"},
     now : Nat, polls : Nat, for : Callers \cup {Nobody_}, until : Int, lastPoll : Int,
     calls : Seq(Int), asked : Nat, queue : Seq(Callers \cup {Nobody_}), data : ReadingType,
     last : ReadingType, callers : [Callers -> CallerType], subs : [Watchers -> WatcherType]]

\* Of the poller: what it has read is from its last poll, and new when it is announced.
PollerInv ==
    /\ resources.data.n = resources.polls /\ resources.data.at <= resources.now
    /\ resources.lastPoll # Never \/ resources.pc \in {"broadcast", "record"} => resources.polls >= 1
    /\ resources.for # Nobody_ => resources.pc \in {"collect", "broadcast", "record"}
    /\ resources.pc = "waiting" => resources.until <= resources.now + MaxInterval
    /\ resources.last.n <= resources.data.n
    /\ resources.pc = "broadcast" => resources.last.n < resources.data.n
\* Of a call: it is in the queue, or served, at most once, and exactly while it waits for
\* its poll; what was collected for it is from after it asked.
Asking(c) == {i \in DOMAIN resources.queue : resources.queue[i] = c}
CallerInv(c) ==
    LET me == resources.callers[c] IN
    /\ \A i, j \in Asking(c) : i = j
    /\ Asking(c) # {} \/ resources.for = c => me.pc = "polled"
    /\ Asking(c) # {} => resources.for # c
    /\ me.pc = "polled" => Asking(c) # {} \/ resources.for = c \/ resources.pc = "stopped"
    /\ me.pc = "polled" => me.waited /\ me.since <= resources.now
    /\ me.pc \in {"wake", "check", "pollnow"} => ~me.waited
    /\ resources.for = c /\ resources.pc \in {"broadcast", "record"} => resources.data.at >= me.since
    /\ me.pc = "get" =>
          /\ me.waited => resources.data.at >= me.since
          /\ ~me.skipped => resources.polls >= 1
    /\ me.pc = "answered" =>
          /\ me.waited => me.got.at >= me.since
          /\ ~me.skipped => me.got.n >= 1
\* Of a watcher: nothing in its channel is newer than what was announced.
WatcherInv(w) ==
    LET sub == resources.subs[w] IN
    /\ \A i, j \in DOMAIN sub.ch : i < j => sub.ch[i].n < sub.ch[j].n
    /\ \A i \in DOMAIN sub.ch : sub.ch[i].n <= resources.last.n
    /\ sub.on /\ ~sub.missed =>
         /\ sub.filter = "nil" /\ resources.last.n > sub.joined => sub.last = resources.last
         /\ sub.filter = "word" => sub.word = resources.last.word

ResourcesInv ==
    /\ resources \in ResourcesType
    /\ PollerInv
    /\ \A c \in Callers : CallerInv(c)
    /\ \A w \in Watchers : WatcherInv(w)

LEMMA Nothing == NoReading \in ReadingType /\ NotCalling \in CallerType /\ NotWatching \in WatcherType
<1>1. NoReading \in ReadingType
  BY DEF NoReading, ReadingType, Never, Words
<1>2. NotCalling \in CallerType
  BY <1>1 DEF NotCalling, CallerType
<1>3. <<>> \in Seq(ReadingType)
  OBVIOUS
<1>4. NotWatching \in WatcherType
  BY <1>1, <1>3 DEF NotWatching, WatcherType, Words
<1> QED
  BY <1>1, <1>2, <1>4

LEMMA ResourcesStart == ASSUME ResourcesInit PROVE ResourcesInv
<1> USE Nothing DEF ResourcesInit, NoResources
<1>1. resources \in ResourcesType
  BY DEF ResourcesType, Never, Nobody_
<1>2. PollerInv
  BY DEF PollerInv, NoReading, Never
<1>3. ASSUME NEW c \in Callers PROVE CallerInv(c)
  <2>1. resources.callers[c] = NotCalling /\ Asking(c) = {}
    BY DEF Asking
  <2>2. resources.for # c
    BY ResourcesAssumption DEF Nobody_
  <2> QED
    BY <2>1, <2>2 DEF CallerInv, NotCalling
<1>4. ASSUME NEW w \in Watchers PROVE WatcherInv(w)
  BY DEF WatcherInv, NotWatching
<1> QED
  BY <1>1, <1>2, <1>3, <1>4 DEF ResourcesInv

\* nextInterval is no longer than the longest.
LEMMA Interval ==
    ASSUME ResourcesInv
    PROVE  nextInterval \in Int /\ nextInterval <= MaxInterval
<1> USE ResourcesAssumption
<1> DEFINE recent == {i \in DOMAIN resources.calls : resources.calls[i] > resources.now - DecayWindow}
<1>1. resources.calls \in Seq(Int)
  BY DEF ResourcesInv, ResourcesType
<1>2. DOMAIN resources.calls = 1 .. Len(resources.calls) /\ Len(resources.calls) \in Nat
  BY <1>1
<1>3. IsFiniteSet(recent)
  <2>1. IsFiniteSet(1 .. Len(resources.calls))
    <3>1. 1 \in Int /\ Len(resources.calls) \in Int
      BY <1>2
    <3> QED
      BY <3>1, FS_Interval
  <2> QED
    BY <1>2, <2>1, FS_Subset
<1>4. countRecentCalls \in Nat
  BY <1>3, FS_CardinalityType DEF countRecentCalls
<1>5. ASSUME NEW n \in Nat
      PROVE  calcInterval(n) \in Int /\ calcInterval(n) <= MaxInterval
  <2> DEFINE p == n * (MaxInterval - MinInterval)
  <2>1. p \in Nat
    OBVIOUS
  <2>2. p \div BusyThreshold \in Nat
    <3> HIDE DEF p
    <3> QED
      BY <2>1
  <2> HIDE DEF p
  <2>3. calcInterval(n) \in {MaxInterval, MinInterval, MaxInterval - p \div BusyThreshold}
    BY DEF calcInterval, p
  <2> QED
    BY <2>2, <2>3
<1> QED
  BY <1>4, <1>5 DEF nextInterval, Never

\* trimCalls leaves a part of the calls.
LEMMA TrimmedType ==
    ASSUME NEW calls \in Seq(Int)
    PROVE  Trimmed(calls) \in Seq(Int)
<1> DEFINE recent == {i \in DOMAIN calls : calls[i] > resources.now - DecayWindow}
<1>1. CASE recent = {}
  BY <1>1 DEF Trimmed
<1>2. CASE recent # {}
  <2>1. recent \in SUBSET Nat /\ recent \subseteq 1 .. Len(calls)
    OBVIOUS
  <2>2. \E n \in recent : \A m \in recent : n <= m
    BY <1>2, <2>1, Least
  <2>3. Min(recent) \in recent
    <3> HIDE DEF recent
    <3> QED
      BY <2>2 DEF Min
  <2>4. SubSeq(calls, Min(recent), Len(calls)) \in Seq(Int)
    <3> HIDE DEF recent
    <3>1. Min(recent) \in 1 .. Len(calls)
      BY <2>1, <2>3
    <3> QED
      BY <3>1
  <2> QED
    BY <1>2, <2>4 DEF Trimmed
<1> QED
  BY <1>1, <1>2

\* A step that leaves calls and watchers alone, and the poller as far as they look at it.
Calm ==
    /\ resources'.queue = resources.queue /\ resources'.for = resources.for
    /\ resources'.callers = resources.callers /\ resources'.subs = resources.subs
    /\ resources'.last = resources.last
    /\ resources'.data = resources.data /\ resources'.polls = resources.polls
    /\ resources'.now >= resources.now
    /\ resources'.pc \in {"broadcast", "record"} => resources.pc \in {"broadcast", "record"}
    /\ resources.pc = "stopped" => resources'.pc = "stopped"

LEMMA CalmStep ==
    ASSUME ResourcesInv, Calm, resources' \in ResourcesType, PollerInv'
    PROVE  ResourcesInv'
<1>1. ASSUME NEW c \in Callers PROVE CallerInv(c)'
  <2>1. CallerInv(c) /\ resources.callers[c] \in CallerType /\ resources.callers[c].since \in Int
    BY DEF ResourcesInv, ResourcesType, CallerType
  <2>2. Asking(c)' = Asking(c)
    BY DEF Asking, Calm
  <2>3. resources.now \in Nat /\ resources'.now \in Nat
    BY DEF ResourcesInv, ResourcesType
  <2> QED
    BY <2>1, <2>2, <2>3 DEF CallerInv, Calm
<1>2. ASSUME NEW w \in Watchers PROVE WatcherInv(w)'
  BY DEF ResourcesInv, WatcherInv, Calm
<1> QED
  BY <1>1, <1>2 DEF ResourcesInv

LEMMA StepRun == ASSUME ResourcesInv, Run PROVE ResourcesInv'
<1>1. resources' \in ResourcesType
  BY DEF Run, ResourcesInv, ResourcesType
<1>2. PollerInv'
  BY DEF Run, ResourcesInv, ResourcesType, PollerInv
<1>3. Calm
  BY DEF Run, Calm, ResourcesInv, ResourcesType
<1> QED
  BY <1>1, <1>2, <1>3, CalmStep

LEMMA StepCalm ==
    ASSUME ResourcesInv, Next_ \/ TimerFires \/ RunReturns \/ TimePasses
    PROVE  ResourcesInv'
<1> DEFINE rest == IF nextInterval = Never THEN resources.until ELSE resources.now + nextInterval
<1>t. resources \in ResourcesType
  BY DEF ResourcesInv
<1>0. /\ PollerInv
      /\ nextInterval \in Int /\ nextInterval <= MaxInterval
      /\ Trimmed(resources.calls) \in Seq(Int)
      /\ resources.now \in Nat /\ resources.until \in Int /\ resources.calls \in Seq(Int)
  BY <1>t, Interval, TrimmedType DEF ResourcesInv, ResourcesType
<1>1. CASE Next_
  <2> DEFINE calls == Trimmed(resources.calls)
  <2> DEFINE pc == IF nextInterval = Never THEN "resting" ELSE "waiting"
  <2>1. resources' = [resources EXCEPT !.pc = pc, !.calls = calls, !.until = rest]
    BY <1>1 DEF Next_
  <2>2. rest \in Int /\ calls \in Seq(Int) /\ pc \in {"resting", "waiting"}
    BY <1>0
  <2>3. pc = "waiting" => rest <= resources.now + MaxInterval
    BY <1>0, ResourcesAssumption
  <2>4. resources.pc = "next"
    BY <1>1 DEF Next_
  <2> HIDE DEF rest, calls, pc
  <2>5. resources' \in ResourcesType
    BY <1>t, <2>1, <2>2 DEF ResourcesType
  <2>6. PollerInv'
    BY <1>t, <1>0, <2>1, <2>2, <2>3, <2>4 DEF ResourcesType, PollerInv
  <2>7. Calm
    BY <1>t, <1>0, <2>1, <2>2, <2>4 DEF Calm, ResourcesType
  <2> QED
    BY <2>5, <2>6, <2>7, CalmStep
<1> HIDE DEF rest
<1>2. CASE TimerFires
  <2>0. resources' = [resources EXCEPT !.pc = "collect", !.until = 0]
    BY <1>2 DEF TimerFires
  <2>1. resources' \in ResourcesType
    <3>1. ASSUME NEW u \in Int
          PROVE  [resources EXCEPT !.pc = "collect", !.until = u] \in ResourcesType
      BY <1>t DEF ResourcesType
    <3>2. 0 \in Int
      OBVIOUS
    <3> QED
      BY <2>0, <3>1, <3>2, Zenon
  <2>2. PollerInv' /\ Calm
    BY <1>t, <1>0, <1>2 DEF TimerFires, ResourcesType, PollerInv, Calm
  <2> QED
    BY <2>1, <2>2, CalmStep
<1>3. CASE RunReturns
  <2>1. resources' \in ResourcesType
    BY <1>t, <1>3 DEF RunReturns, ResourcesType
  <2>2. PollerInv' /\ Calm
    BY <1>t, <1>0, <1>3 DEF RunReturns, ResourcesType, PollerInv, Calm
  <2> QED
    BY <2>1, <2>2, CalmStep
<1>4. CASE TimePasses
  <2>0. resources' = [resources EXCEPT !.now = resources.now + 1] /\ resources.now + 1 \in Nat
    BY <1>0, <1>4 DEF TimePasses
  <2>1. resources' \in ResourcesType
    BY <1>t, <2>0 DEF ResourcesType
  <2>2. resources.data.at \in Int /\ MaxInterval \in Int
    BY <1>t, ResourcesAssumption DEF ResourcesType, ReadingType
  <2>3. Calm
    BY <1>t, <1>0, <1>4 DEF TimePasses, ResourcesType, Calm
  <2>4. PollerInv'
    BY SMTT(30), <1>t, <1>0, <1>4, <2>2 DEF TimePasses, ResourcesType, PollerInv
  <2> QED
    BY <2>1, <2>3, <2>4, CalmStep
<1> QED
  BY <1>1, <1>2, <1>3, <1>4

\* Without the watchers: a step that leaves them and the last announcement alone.
LEMMA WatchersStay ==
    ASSUME ResourcesInv, resources'.subs = resources.subs, resources'.last = resources.last
    PROVE  \A w \in Watchers : WatcherInv(w)'
BY DEF ResourcesInv, WatcherInv

LEMMA Typed ==
    ASSUME ResourcesInv
    PROVE  /\ resources \in ResourcesType
           /\ resources.pc \in {"off", "collect", "broadcast", "record", "next", "waiting", "resting", "stopped"}
           /\ resources.now \in Nat /\ resources.polls \in Nat
           /\ resources.for \in Callers \cup {Nobody_} /\ resources.lastPoll \in Int
           /\ resources.queue \in Seq(Callers \cup {Nobody_})
           /\ resources.data \in ReadingType /\ resources.data.at \in Int /\ resources.data.n \in Nat
           /\ resources.last \in ReadingType /\ resources.last.n \in Nat
           /\ resources.callers \in [Callers -> CallerType] /\ resources.subs \in [Watchers -> WatcherType]
           /\ Nobody_ \notin Callers
BY ResourcesAssumption DEF ResourcesInv, ResourcesType, ReadingType, Nobody_

LEMMA TypedCaller ==
    ASSUME ResourcesInv, NEW c \in Callers
    PROVE  /\ CallerInv(c) /\ resources.callers[c] \in CallerType
           /\ resources.callers[c].pc \in {"off", "wake", "check", "pollnow", "polled", "get", "answered"}
           /\ resources.callers[c].since \in Int
           /\ resources.callers[c].waited \in BOOLEAN /\ resources.callers[c].skipped \in BOOLEAN
           /\ resources.callers[c].got.n \in Nat /\ resources.callers[c].got.at \in Int
BY Typed DEF ResourcesInv, CallerType, ReadingType

LEMMA StepCollect == ASSUME ResourcesInv, Collect PROVE ResourcesInv'
<1>0. resources.pc = "collect"
  BY DEF Collect
<1>1. PICK r \in Found : resources' = [resources EXCEPT !.pc = "broadcast", !.polls = @ + 1,
              !.data = [n |-> resources.polls + 1, at |-> resources.now, number |-> r.number, word |-> r.word]]
  BY Zenon DEF Collect
<1>2. r \in Readings /\ r.number \in Int /\ r.word \in Words
  <2>1. r \in Readings
    BY ResourcesAssumption DEF Found
  <2> QED
    BY <2>1, ResourcesAssumption DEF Words
<1> DEFINE data == [n |-> resources.polls + 1, at |-> resources.now, number |-> r.number, word |-> r.word]
<1>3. data \in ReadingType /\ data.n = resources.polls + 1 /\ data.at = resources.now
  BY SMTT(30), <1>2, Typed DEF ReadingType
<1>4. resources' = [resources EXCEPT !.pc = "broadcast", !.polls = resources.polls + 1, !.data = data]
  BY <1>1
<1> HIDE DEF data
<1>5. resources' \in ResourcesType
  <2>1. resources.polls + 1 \in Nat
    BY Typed
  <2> QED
    BY Typed, <1>3, <1>4, <2>1 DEF ResourcesType
<1>6. /\ resources'.pc = "broadcast" /\ resources'.polls = resources.polls + 1 /\ resources'.data = data
      /\ UNCHANGED <<resources.now, resources.for, resources.lastPoll, resources.queue, resources.last, resources.callers, resources.subs>>
  BY Typed, <1>4 DEF ResourcesType
<1>7. PollerInv'
  BY <1>0, <1>3, <1>6, Typed DEF PollerInv, ResourcesInv
<1>8. ASSUME NEW c \in Callers PROVE CallerInv(c)'
  <2>1. Asking(c)' = Asking(c) /\ resources.data.at <= resources.now
    BY <1>6 DEF Asking, ResourcesInv, PollerInv
  <2> QED
    BY <2>1, <1>0, <1>3, <1>6, Typed, TypedCaller DEF CallerInv
<1> QED
  BY <1>5, <1>6, <1>7, <1>8, WatchersStay DEF ResourcesInv

LEMMA StepTake == ASSUME ResourcesInv, TakeRequest PROVE ResourcesInv'
<1>0. resources.pc \in {"waiting", "resting"} /\ resources.queue # <<>>
  BY DEF TakeRequest
<1> DEFINE first == Head(resources.queue)
<1> DEFINE others == Tail(resources.queue)
<1>1. resources' = [resources EXCEPT !.pc = "collect", !.for = first, !.queue = others, !.until = 0]
  BY DEF TakeRequest
<1>2. /\ first \in Callers \cup {Nobody_} /\ others \in Seq(Callers \cup {Nobody_})
      /\ first = resources.queue[1]
      /\ Len(others) = Len(resources.queue) - 1 /\ Len(resources.queue) \in Nat /\ Len(resources.queue) >= 1
      /\ \A i \in 1 .. Len(others) : others[i] = resources.queue[i + 1]
      /\ DOMAIN others = 1 .. Len(others) /\ DOMAIN resources.queue = 1 .. Len(resources.queue)
  BY <1>0, Typed
<1> HIDE DEF first, others
<1>3. resources' \in ResourcesType
  <2>1. ASSUME NEW u \in Int
        PROVE  [resources EXCEPT !.pc = "collect", !.for = first, !.queue = others, !.until = u] \in ResourcesType
    BY Typed, <1>2 DEF ResourcesType
  <2>2. 0 \in Int
    OBVIOUS
  <2> QED
    BY <1>1, <2>1, <2>2, Zenon
<1>4. /\ resources'.pc = "collect" /\ resources'.for = first /\ resources'.queue = others
      /\ UNCHANGED <<resources.now, resources.polls, resources.lastPoll, resources.data, resources.last, resources.callers, resources.subs>>
  BY Typed, <1>1 DEF ResourcesType
<1>5. resources.for = Nobody_
  BY <1>0 DEF ResourcesInv, PollerInv
<1>6. PollerInv'
  BY <1>0, <1>4, Typed DEF PollerInv, ResourcesInv
<1>7. ASSUME NEW c \in Callers PROVE CallerInv(c)'
  <2>1. Asking(c) = {i \in 1 .. Len(resources.queue) : resources.queue[i] = c}
    BY <1>2 DEF Asking
  <2>2. Asking(c)' = {i \in 1 .. Len(others) : resources.queue[i + 1] = c}
    BY <1>2, <1>4 DEF Asking
  <2>3. \A i, j \in Asking(c) : i = j
    BY TypedCaller DEF CallerInv
  <2>4. \A i \in Asking(c)' : i + 1 \in Asking(c) /\ i \in Nat
    BY <1>2, <2>1, <2>2
  <2>5. CASE first = c
    <3>1. 1 \in Asking(c)
      <4>1. 1 \in 1 .. Len(resources.queue) /\ resources.queue[1] = c
        BY <1>2, <2>5
      <4> QED
        BY <2>1, <4>1
    <3>2. Asking(c)' = {}
      BY <2>3, <2>4, <3>1, <2>2
    <3> QED
      BY <2>5, <3>1, <3>2, <1>0, <1>4, Typed, TypedCaller DEF CallerInv
  <2>6. CASE first # c
    <3>1. \A i \in Asking(c) : i - 1 \in Asking(c)'
      BY <1>2, <2>1, <2>2, <2>6
    <3>2. Asking(c)' # {} <=> Asking(c) # {}
      BY <2>4, <3>1
    <3>3. \A i, j \in Asking(c)' : i = j
      BY <2>3, <2>4
    <3> QED
      BY SMTT(30), <2>6, <3>2, <3>3, <1>0, <1>4, <1>5, Typed, TypedCaller DEF CallerInv
  <2> QED
    BY <2>5, <2>6
<1> QED
  BY <1>3, <1>4, <1>6, <1>7, WatchersStay DEF ResourcesInv

LEMMA StepRecord == ASSUME ResourcesInv, recordPoll PROVE ResourcesInv'
<1>0. resources.pc = "record"
  BY DEF recordPoll
<1> DEFINE callers == [c \in Callers |->
              IF c \in Closed THEN [resources.callers[c] EXCEPT !.pc = "get"] ELSE resources.callers[c]]
<1>1. resources' = [resources EXCEPT !.pc = "next", !.lastPoll = resources.now, !.for = Nobody_, !.callers = callers]
  BY DEF recordPoll
<1>2. callers \in [Callers -> CallerType]
  <2> SUFFICES ASSUME NEW c \in Callers PROVE [resources.callers[c] EXCEPT !.pc = "get"] \in CallerType
    BY Typed
  <2> QED
    BY ZenonT(60), Typed DEF CallerType
<1>3. \A c \in Callers : callers[c] = IF c = resources.for THEN [resources.callers[c] EXCEPT !.pc = "get"] ELSE resources.callers[c]
  BY DEF Closed
<1> HIDE DEF callers
<1>4. resources' \in ResourcesType
  <2>1. resources.now \in Int
    BY Typed
  <2> QED
    BY Typed, <1>1, <1>2, <2>1 DEF ResourcesType
<1>5. /\ resources'.pc = "next" /\ resources'.for = Nobody_ /\ resources'.callers = callers /\ resources'.lastPoll = resources.now
      /\ UNCHANGED <<resources.now, resources.polls, resources.queue, resources.data, resources.last, resources.subs>>
  BY Typed, <1>1 DEF ResourcesType
<1>6. PollerInv'
  BY <1>0, <1>5, Typed DEF PollerInv, ResourcesInv
<1>7. ASSUME NEW c \in Callers PROVE CallerInv(c)'
  <2>1. Asking(c)' = Asking(c) /\ resources.polls >= 1
    BY SMTT(30), <1>0, <1>5 DEF Asking, ResourcesInv, PollerInv
  <2>2. CASE c = resources.for
    <3>1. resources'.callers[c] = [resources.callers[c] EXCEPT !.pc = "get"]
      BY <1>3, <1>5, <2>2
    <3>2. /\ resources'.callers[c].pc = "get"
          /\ resources'.callers[c].since = resources.callers[c].since
          /\ resources'.callers[c].waited = resources.callers[c].waited
          /\ resources'.callers[c].skipped = resources.callers[c].skipped
      BY <3>1, TypedCaller DEF CallerType
    <3> QED
      BY <3>2, <2>1, <2>2, <1>0, <1>5, Typed, TypedCaller DEF CallerInv
  <2>3. CASE c # resources.for
    <3>1. resources'.callers[c] = resources.callers[c]
      BY <1>3, <1>5, <2>3
    <3> QED
      BY <3>1, <2>1, <2>3, <1>0, <1>5, Typed, TypedCaller DEF CallerInv
  <2> QED
    BY <2>2, <2>3
<1> QED
  BY <1>4, <1>5, <1>6, <1>7, WatchersStay DEF ResourcesInv

\* A channel in order stays so when what is newer is appended.
LEMMA Appended ==
    ASSUME NEW ch \in Seq(ReadingType), NEW d \in ReadingType,
           \A i, j \in DOMAIN ch : i < j => ch[i].n < ch[j].n,
           \A i \in DOMAIN ch : ch[i].n < d.n
    PROVE  /\ \A i, j \in DOMAIN Append(ch, d) : i < j => Append(ch, d)[i].n < Append(ch, d)[j].n
           /\ \A i \in DOMAIN Append(ch, d) : Append(ch, d)[i].n <= d.n
<1> DEFINE t == Append(ch, d)
<1>1. /\ Len(ch) \in Nat /\ DOMAIN ch = 1 .. Len(ch) /\ DOMAIN t = 1 .. Len(ch) + 1
      /\ \A i \in 1 .. Len(ch) : t[i] = ch[i]
      /\ t[Len(ch) + 1] = d
  OBVIOUS
<1>2. d.n \in Nat
  BY DEF ReadingType
<1>3. \A i \in DOMAIN t : i \in DOMAIN ch \/ i = Len(ch) + 1
  BY <1>1
<1> HIDE DEF t
<1>4. ASSUME NEW i \in DOMAIN t PROVE t[i].n <= d.n
  <2>1. CASE i \in DOMAIN ch
    <3>1. ch[i] \in ReadingType /\ t[i] = ch[i]
      BY <2>1, <1>1
    <3>2. ch[i].n \in Nat /\ ch[i].n < d.n
      BY <2>1, <3>1 DEF ReadingType
    <3> QED
      BY <3>1, <3>2, <1>2
  <2>2. CASE i = Len(ch) + 1
    BY <2>2, <1>1, <1>2
  <2> QED
    BY <2>1, <2>2, <1>3
<1>5. ASSUME NEW i \in DOMAIN t, NEW j \in DOMAIN t, i < j PROVE t[i].n < t[j].n
  <2>1. i \in DOMAIN ch /\ t[i] = ch[i]
    BY <1>5, <1>1
  <2>2. CASE j \in DOMAIN ch
    BY <2>1, <2>2, <1>5, <1>1
  <2>3. CASE j = Len(ch) + 1
    BY <2>1, <2>3, <1>1
  <2> QED
    BY <2>2, <2>3, <1>3
<1> QED
  BY <1>4, <1>5 DEF t

LEMMA StepBroadcast == ASSUME ResourcesInv, broadcast PROVE ResourcesInv'
<1>0. resources.pc = "broadcast"
  BY DEF broadcast
<1> DEFINE data == resources.data
<1> DEFINE Heard(w) == resources.subs[w].on /\ fieldsChanged(resources.subs[w].filter, resources.last, resources.data)
<1> DEFINE subs == [w \in Watchers |-> IF Heard(w) THEN Told(resources.subs[w], resources.data) ELSE resources.subs[w]]
<1>1. resources' = [resources EXCEPT !.pc = "record", !.last = data, !.subs = subs]
  BY DEF broadcast, Previous
<1>t. ASSUME NEW w \in Watchers
      PROVE  /\ WatcherInv(w) /\ resources.subs[w] \in WatcherType
             /\ resources.subs[w].ch \in Seq(ReadingType)
             /\ resources.subs[w].on \in BOOLEAN /\ resources.subs[w].missed \in BOOLEAN
             /\ resources.subs[w].filter \in {"nil", "number", "word"}
  BY Typed DEF ResourcesInv, WatcherType
<1>2. ASSUME NEW w \in Watchers
      PROVE  Told(resources.subs[w], data) \in WatcherType
  <2>1. data \in ReadingType /\ data.word \in Words
    BY Typed DEF ReadingType
  <2>2. Append(resources.subs[w].ch, data) \in Seq(ReadingType)
    BY <1>t, <2>1
  <2> HIDE DEF data
  <2>3. [resources.subs[w] EXCEPT !.ch = Append(@, data), !.last = data, !.word = data.word] \in WatcherType
    BY <1>t, <2>1, <2>2 DEF WatcherType
  <2>4. [resources.subs[w] EXCEPT !.missed = TRUE] \in WatcherType
    BY <1>t DEF WatcherType
  <2> QED
    BY <2>3, <2>4 DEF Told
<1>3. subs \in [Watchers -> WatcherType]
  BY <1>2, <1>t
<1>4. \A w \in Watchers : subs[w] = IF Heard(w) THEN Told(resources.subs[w], data) ELSE resources.subs[w]
  OBVIOUS
<1>h. ASSUME NEW w \in Watchers, resources.subs[w].on, ~Heard(w)
      PROVE  /\ resources.subs[w].filter # "nil"
             /\ resources.subs[w].filter = "word" => resources.last.word = data.word
  BY <1>h DEF fieldsChanged
<1> HIDE DEF subs, Heard
<1>5. resources' \in ResourcesType
  BY Typed, <1>1, <1>3 DEF ResourcesType
<1>6. /\ resources'.pc = "record" /\ resources'.last = data /\ resources'.subs = subs
      /\ UNCHANGED <<resources.now, resources.polls, resources.for, resources.queue, resources.data, resources.callers, resources.lastPoll>>
  BY Typed, <1>1 DEF ResourcesType
<1>n. data.n \in Nat /\ resources.last.n < data.n
  BY <1>0, Typed DEF ResourcesInv, PollerInv
<1> HIDE DEF data
<1>7. PollerInv'
  BY <1>0, <1>6, Typed DEF PollerInv, ResourcesInv, data
<1>8. ASSUME NEW c \in Callers PROVE CallerInv(c)'
  <2>1. Asking(c)' = Asking(c)
    BY <1>6 DEF Asking
  <2> QED
    BY <2>1, <1>0, <1>6, Typed, TypedCaller DEF CallerInv
<1>9. ASSUME NEW w \in Watchers PROVE WatcherInv(w)'
  <2> DEFINE s == resources.subs[w]
  <2> DEFINE t == resources'.subs[w]
  <2> DEFINE ch == s.ch
  <2>1. ch \in Seq(ReadingType) /\ s \in WatcherType
    BY <1>t
  <2>2. /\ \A i, j \in DOMAIN ch : i < j => ch[i].n < ch[j].n
        /\ \A i \in DOMAIN ch : ch[i].n <= resources.last.n
    BY <1>t DEF WatcherInv
  <2>3. t = IF Heard(w) THEN Told(s, data) ELSE s
    BY <1>4, <1>6
  <2>w. WatcherInv(w)
    BY <1>t
  <2>d. data \in ReadingType
    BY Typed DEF data
  <2>c. ch = resources.subs[w].ch
    OBVIOUS
  <2> HIDE DEF ch
  <2>4. \A i \in DOMAIN ch : ch[i].n < data.n
    <3> SUFFICES ASSUME NEW i \in DOMAIN ch PROVE ch[i].n < data.n
      OBVIOUS
    <3>1. ch[i] \in ReadingType
      BY <2>1
    <3>2. ch[i].n \in Nat /\ resources.last.n \in Nat
      BY <3>1, Typed DEF ReadingType
    <3> QED
      BY <3>2, <2>2, <1>n
  <2>5. \A i \in DOMAIN ch : ch[i].n <= data.n
    <3> SUFFICES ASSUME NEW i \in DOMAIN ch PROVE ch[i].n <= data.n
      OBVIOUS
    <3>1. ch[i] \in ReadingType
      BY <2>1
    <3>2. ch[i].n \in Nat
      BY SMTT(30), <3>1 DEF ReadingType
    <3> QED
      BY <3>2, <2>4, <1>n
  <2>6. CASE Heard(w) /\ Len(s.ch) < ChanLen
    <3>1. t = [s EXCEPT !.ch = Append(@, data), !.last = data, !.word = data.word]
      BY <2>3, <2>6 DEF Told
    <3>2. /\ t.ch = Append(s.ch, data) /\ t.last = data /\ t.word = data.word
          /\ t.on = s.on /\ t.missed = s.missed /\ t.filter = s.filter /\ t.joined = s.joined
      BY <3>1, <2>1 DEF WatcherType
    <3>3. t.ch = Append(ch, data)
      BY <3>2, <2>c
    <3>4. /\ \A i, j \in DOMAIN t.ch : i < j => t.ch[i].n < t.ch[j].n
          /\ \A i \in DOMAIN t.ch : t.ch[i].n <= data.n
      <4> HIDE DEF t
      <4> QED
        BY <3>3, <2>1, <2>2, <2>4, <2>d, Appended
    <3> QED
      BY <3>2, <3>4, <1>6 DEF WatcherInv
  <2>7. CASE Heard(w) /\ ~(Len(s.ch) < ChanLen)
    <3>1. t = [s EXCEPT !.missed = TRUE]
      BY <2>3, <2>7 DEF Told
    <3>2. t.ch = ch /\ t.missed = TRUE
      BY <3>1, <2>1, <2>c DEF WatcherType
    <3> QED
      BY <3>2, <2>2, <2>5, <1>6 DEF WatcherInv
  <2>8. CASE ~Heard(w)
    <3>1. t = s
      BY <2>3, <2>8
    <3>2. t.ch = ch
      BY <3>1, <2>c
    <3>3. t.on => /\ t.filter # "nil"
                  /\ t.filter = "word" => resources.last.word = data.word
      BY <1>h, <2>8, <3>1
    <3> QED
      BY <3>1, <3>2, <3>3, <2>2, <2>5, <2>w, <1>6 DEF WatcherInv
  <2> QED
    BY <2>6, <2>7, <2>8
<1> QED
  BY <1>5, <1>7, <1>8, <1>9 DEF ResourcesInv

-------------------------------------------------------------------------------
\* A step of the call c.
Calls_(c) ==
    /\ resources' \in ResourcesType
    /\ UNCHANGED <<resources.pc, resources.now, resources.polls, resources.for, resources.until,
                   resources.lastPoll, resources.data, resources.last, resources.subs>>
    /\ \A d \in Callers \ {c} : resources'.callers[d] = resources.callers[d] /\ Asking(d)' = Asking(d)

LEMMA OneCaller ==
    ASSUME ResourcesInv, NEW c \in Callers, Calls_(c), CallerInv(c)'
    PROVE  ResourcesInv'
<1>1. PollerInv'
  BY DEF Calls_, PollerInv, ResourcesInv
<1>2. ASSUME NEW d \in Callers \ {c} PROVE CallerInv(d)'
  BY TypedCaller DEF Calls_, CallerInv
<1>3. \A w \in Watchers : WatcherInv(w)'
  BY WatchersStay DEF Calls_
<1> QED
  BY <1>1, <1>2, <1>3 DEF ResourcesInv, Calls_

\* A step of c that leaves the queue alone, and calls and asked with their types.
LEMMA QueueStays ==
    ASSUME ResourcesInv, NEW c \in Callers, NEW me \in CallerType, NEW calls \in Seq(Int), NEW asked \in Nat,
           resources' = [resources EXCEPT !.callers = [resources.callers EXCEPT ![c] = me],
                                          !.calls = calls, !.asked = asked]
    PROVE  Calls_(c) /\ resources'.callers[c] = me /\ Asking(c)' = Asking(c)
<1> DEFINE callers == [resources.callers EXCEPT ![c] = me]
<1>1. callers \in [Callers -> CallerType] /\ callers[c] = me /\ \A d \in Callers \ {c} : callers[d] = resources.callers[d]
  BY Typed
<1> HIDE DEF callers
<1>2. resources' = [resources EXCEPT !.callers = callers, !.calls = calls, !.asked = asked]
  BY DEF callers
<1>3. resources' \in ResourcesType
  BY ZenonT(60), <1>1, <1>2, Typed DEF ResourcesType
<1>4. /\ resources'.callers = callers /\ resources'.queue = resources.queue
      /\ UNCHANGED <<resources.pc, resources.now, resources.polls, resources.for, resources.until,
                     resources.lastPoll, resources.data, resources.last, resources.subs>>
  BY ZenonT(60), <1>2, Typed DEF ResourcesType
<1> QED
  BY <1>1, <1>3, <1>4 DEF Calls_, Asking

\* A step of c that appends to the queue.
LEMMA QueueGrows ==
    ASSUME ResourcesInv, NEW c \in Callers, NEW me \in CallerType, NEW x \in {c, Nobody_},
           resources' = [resources EXCEPT !.callers = [resources.callers EXCEPT ![c] = me],
                                          !.queue = Append(resources.queue, x)]
    PROVE  /\ Calls_(c) /\ resources'.callers[c] = me
           /\ Asking(c)' = IF x = c THEN Asking(c) \cup {Len(resources.queue) + 1} ELSE Asking(c)
<1> DEFINE callers == [resources.callers EXCEPT ![c] = me]
<1> DEFINE queue == Append(resources.queue, x)
<1>1. callers \in [Callers -> CallerType] /\ callers[c] = me /\ \A d \in Callers \ {c} : callers[d] = resources.callers[d]
  BY Typed
<1>2. x \in Callers \cup {Nobody_}
  OBVIOUS
<1>3. /\ queue \in Seq(Callers \cup {Nobody_}) /\ Len(resources.queue) \in Nat
      /\ DOMAIN resources.queue = 1 .. Len(resources.queue) /\ DOMAIN queue = 1 .. Len(resources.queue) + 1
      /\ \A i \in 1 .. Len(resources.queue) : queue[i] = resources.queue[i]
      /\ queue[Len(resources.queue) + 1] = x
  BY SMTT(30), Typed, <1>2
<1> HIDE DEF callers, queue
<1>4. resources' = [resources EXCEPT !.callers = callers, !.queue = queue]
  BY DEF callers, queue
<1>5. resources' \in ResourcesType
  BY ZenonT(60), <1>1, <1>3, <1>4, Typed DEF ResourcesType
<1>6. /\ resources'.callers = callers /\ resources'.queue = queue
      /\ UNCHANGED <<resources.pc, resources.now, resources.polls, resources.for, resources.until,
                     resources.lastPoll, resources.data, resources.last, resources.subs>>
  BY <1>4, Typed DEF ResourcesType
<1>7. ASSUME NEW d \in Callers
      PROVE  Asking(d)' = IF x = d THEN Asking(d) \cup {Len(resources.queue) + 1} ELSE Asking(d)
  <2>1. Asking(d) = {i \in 1 .. Len(resources.queue) : resources.queue[i] = d}
    BY <1>3 DEF Asking
  <2>2. Asking(d)' = {i \in 1 .. Len(resources.queue) + 1 : queue[i] = d}
    BY <1>3, <1>6 DEF Asking
  <2> QED
    BY <2>1, <2>2, <1>3
<1> QED
  BY <1>1, <1>5, <1>6, <1>7, Typed DEF Calls_

LEMMA StepNote == ASSUME ResourcesInv, NEW c \in Callers, NoteCall(c) PROVE ResourcesInv'
<1> DEFINE pc == IF isIdle THEN "wake" ELSE "check"
<1> DEFINE me == [NotCalling EXCEPT !.pc = pc]
<1> DEFINE calls == Trimmed(Append(resources.calls, resources.now))
<1>1. AtCall(c, "off") /\ resources' = [resources EXCEPT !.asked = @ + 1, !.calls = calls, !.callers[c] = me]
  BY DEF NoteCall
<1>2. pc \in {"wake", "check"}
  OBVIOUS
<1>3. calls \in Seq(Int) /\ resources.asked + 1 \in Nat
  <2>1. resources.calls \in Seq(Int) /\ resources.now \in Int /\ resources.asked \in Nat
    BY Typed DEF ResourcesType
  <2>2. Append(resources.calls, resources.now) \in Seq(Int)
    BY <2>1
  <2>3. calls \in Seq(Int)
    BY <2>2, TrimmedType, Zenon
  <2> QED
    BY <2>1, <2>3
<1> HIDE DEF pc, calls
<1>4. me \in CallerType /\ me.pc = pc /\ me.waited = FALSE
  BY <1>2, Nothing DEF NotCalling, CallerType
<1> HIDE DEF me
<1>5. resources' = [resources EXCEPT !.callers = [resources.callers EXCEPT ![c] = me],
                                     !.calls = calls, !.asked = resources.asked + 1]
  BY <1>1, Typed DEF ResourcesType
<1>6. Calls_(c) /\ resources'.callers[c] = me /\ Asking(c)' = Asking(c)
  BY Zenon, <1>3, <1>4, <1>5, QueueStays
<1>7. CallerInv(c)'
  BY <1>1, <1>2, <1>4, <1>6, TypedCaller DEF CallerInv, AtCall, Calls_
<1> QED
  BY <1>6, <1>7, OneCaller

LEMMA StepWake == ASSUME ResourcesInv, NEW c \in Callers, Wake(c) PROVE ResourcesInv'
<1> DEFINE me == [resources.callers[c] EXCEPT !.pc = "check"]
<1>1. me \in CallerType /\ me.pc = "check" /\ me.waited = resources.callers[c].waited
  BY TypedCaller DEF CallerType
<1> HIDE DEF me
<1>2. AtCall(c, "wake")
  BY DEF Wake
<1>3. Calls_(c) /\ resources'.callers[c] = me /\ Asking(c)' = Asking(c)
  <2>1. CASE QueueFull
    <3>1. resources' = [resources EXCEPT !.callers = [resources.callers EXCEPT ![c] = me],
                                         !.calls = resources.calls, !.asked = resources.asked]
      BY <2>1, Typed DEF Wake, me, ResourcesType
    <3>2. resources.calls \in Seq(Int) /\ resources.asked \in Nat
      BY Typed DEF ResourcesType
    <3> QED
      BY Zenon, <1>1, <3>1, <3>2, QueueStays
  <2>2. CASE ~QueueFull
    <3>1. resources' = [resources EXCEPT !.callers = [resources.callers EXCEPT ![c] = me],
                                         !.queue = Append(resources.queue, Nobody_)]
      BY <2>2, Typed DEF Wake, me, ResourcesType
    <3> QED
      BY Zenon, <1>1, <3>1, QueueGrows, Typed
  <2> QED
    BY <2>1, <2>2
<1>4. CallerInv(c)'
  BY <1>1, <1>2, <1>3, TypedCaller DEF CallerInv, AtCall, Calls_
<1> QED
  BY <1>3, <1>4, OneCaller

LEMMA StepPollNow == ASSUME ResourcesInv, NEW c \in Callers, PollNow(c) PROVE ResourcesInv'
<1>0. AtCall(c, "pollnow") /\ resources.callers[c].pc = "pollnow" /\ Asking(c) = {} /\ resources.for # c
  BY TypedCaller DEF PollNow, AtCall, CallerInv
<1>1. CASE QueueFull
  <2> DEFINE me == [resources.callers[c] EXCEPT !.pc = "get", !.skipped = TRUE]
  <2>1. me \in CallerType /\ me.pc = "get" /\ me.skipped /\ me.waited = resources.callers[c].waited
    BY TypedCaller DEF CallerType
  <2> HIDE DEF me
  <2>2. resources' = [resources EXCEPT !.callers = [resources.callers EXCEPT ![c] = me],
                                       !.calls = resources.calls, !.asked = resources.asked]
    BY <1>1, Typed DEF PollNow, me, ResourcesType
  <2>3. resources.calls \in Seq(Int) /\ resources.asked \in Nat
    BY Typed DEF ResourcesType
  <2>4. Calls_(c) /\ resources'.callers[c] = me /\ Asking(c)' = Asking(c)
    BY Zenon, <2>1, <2>2, <2>3, QueueStays
  <2>5. CallerInv(c)'
    BY <1>0, <2>1, <2>4, TypedCaller DEF CallerInv, Calls_
  <2> QED
    BY <2>4, <2>5, OneCaller
<1>2. CASE ~QueueFull
  <2> DEFINE me == [resources.callers[c] EXCEPT !.pc = "polled", !.waited = TRUE, !.since = resources.now]
  <2>1. me \in CallerType /\ me.pc = "polled" /\ me.waited /\ me.since = resources.now
    <3>1. resources.callers[c] \in CallerType /\ resources.now \in Int
      BY Typed, TypedCaller
    <3> QED
      BY <3>1 DEF CallerType
  <2> HIDE DEF me
  <2>2. resources' = [resources EXCEPT !.callers = [resources.callers EXCEPT ![c] = me],
                                       !.queue = Append(resources.queue, c)]
    BY ZenonT(60), <1>2, Typed DEF PollNow, me, ResourcesType
  <2>3. Calls_(c) /\ resources'.callers[c] = me /\ Asking(c)' = {Len(resources.queue) + 1}
    BY Zenon, <1>0, <2>1, <2>2, QueueGrows
  <2>4. CallerInv(c)'
    BY SMTT(30), <1>0, <2>1, <2>3, Typed DEF CallerInv, Calls_
  <2> QED
    BY <2>3, <2>4, OneCaller
<1> QED
  BY <1>1, <1>2

LEMMA StepAnswer ==
    ASSUME ResourcesInv, NEW c \in Callers, IsStale(c) \/ Get(c) \/ Returns(c)
    PROVE  ResourcesInv'
<1>0. /\ resources.calls \in Seq(Int) /\ resources.asked \in Nat
      /\ Asking(c) = {} /\ resources.for # c
  BY Typed, TypedCaller DEF IsStale, Get, Returns, AtCall, CallerInv, ResourcesType
<1>1. ASSUME NEW me \in CallerType, CallerInv(c),
             resources' = [resources EXCEPT !.callers = [resources.callers EXCEPT ![c] = me],
                                            !.calls = resources.calls, !.asked = resources.asked],
             me.pc \in {"pollnow", "get", "answered", "off"}, me.pc = "pollnow" => ~me.waited,
             me.pc = "get" => ~me.waited /\ resources.polls >= 1,
             me.pc = "answered" =>
                 (me.waited => me.got.at >= me.since) /\ (~me.skipped => me.got.n >= 1)
      PROVE  ResourcesInv'
  <2>1. Calls_(c) /\ resources'.callers[c] = me /\ Asking(c)' = Asking(c)
    BY ZenonT(60), <1>0, <1>1, QueueStays
  <2>2. CallerInv(c)'
    BY <1>0, <1>1, <2>1 DEF CallerInv, Calls_
  <2> QED
    BY <2>1, <2>2, OneCaller
<1>2. CASE IsStale(c)
  <2> DEFINE pc == IF isIdle THEN "pollnow" ELSE "get"
  <2> DEFINE me == [resources.callers[c] EXCEPT !.pc = pc]
  <2>1. resources.callers[c].pc = "check" /\ ~resources.callers[c].waited
    BY <1>2, TypedCaller DEF IsStale, AtCall, CallerInv
  <2>2. pc \in {"pollnow", "get"} /\ (pc = "get" => resources.polls >= 1)
    BY DEF isIdle, ResourcesInv, PollerInv
  <2>p. resources' = [resources EXCEPT !.callers[c].pc = pc]
    BY <1>2 DEF IsStale
  <2> HIDE DEF pc
  <2>3. me \in CallerType /\ me.pc = pc /\ ~me.waited
    BY <2>1, <2>2, TypedCaller DEF CallerType
  <2>4. resources' = [resources EXCEPT !.callers = [resources.callers EXCEPT ![c] = me],
                                       !.calls = resources.calls, !.asked = resources.asked]
    BY <2>p, Typed DEF ResourcesType
  <2> HIDE DEF me
  <2> QED
    BY Zenon, <1>1, <2>2, <2>3, <2>4, TypedCaller
<1>3. CASE Get(c)
  <2> DEFINE data == resources.data
  <2> DEFINE me == [resources.callers[c] EXCEPT !.pc = "answered", !.got = data]
  <2>1. resources.callers[c].pc = "get"
    BY <1>3 DEF Get, AtCall
  <2>2. data \in ReadingType /\ data.n = resources.polls
    BY Typed DEF ResourcesInv, PollerInv
  <2>3. /\ me \in CallerType /\ me.pc = "answered" /\ me.got = data /\ me.since = resources.callers[c].since
        /\ me.waited = resources.callers[c].waited /\ me.skipped = resources.callers[c].skipped
    BY <2>2, TypedCaller DEF CallerType
  <2>4. resources' = [resources EXCEPT !.callers = [resources.callers EXCEPT ![c] = me],
                                       !.calls = resources.calls, !.asked = resources.asked]
    BY <1>3, Typed DEF Get, ResourcesType
  <2>5. (me.waited => me.got.at >= me.since) /\ (~me.skipped => me.got.n >= 1)
    BY <2>1, <2>2, <2>3, TypedCaller DEF CallerInv
  <2> HIDE DEF me
  <2> QED
    BY Zenon, <1>1, <2>3, <2>4, <2>5, TypedCaller
<1>4. CASE Returns(c)
  <2>1. NotCalling \in CallerType /\ NotCalling.pc = "off"
    BY Nothing DEF NotCalling
  <2>2. resources' = [resources EXCEPT !.callers = [resources.callers EXCEPT ![c] = NotCalling],
                                       !.calls = resources.calls, !.asked = resources.asked]
    BY <1>4, Typed DEF Returns, ResourcesType
  <2> QED
    BY Zenon, <1>1, <2>1, <2>2, TypedCaller
<1> QED
  BY <1>2, <1>3, <1>4

-------------------------------------------------------------------------------
\* A step that changes the watcher w to me.
LEMMA OneWatcher ==
    ASSUME ResourcesInv, NEW w \in Watchers, NEW me \in WatcherType,
           resources' = [resources EXCEPT !.subs = [resources.subs EXCEPT ![w] = me]],
           \A i, j \in DOMAIN me.ch : i < j => me.ch[i].n < me.ch[j].n,
           \A i \in DOMAIN me.ch : me.ch[i].n <= resources.last.n,
           me.on /\ ~me.missed =>
               /\ me.filter = "nil" /\ resources.last.n > me.joined => me.last = resources.last
               /\ me.filter = "word" => me.word = resources.last.word
    PROVE  ResourcesInv'
<1> DEFINE subs == [resources.subs EXCEPT ![w] = me]
<1>1. subs \in [Watchers -> WatcherType] /\ subs[w] = me /\ \A v \in Watchers \ {w} : subs[v] = resources.subs[v]
  BY Typed
<1> HIDE DEF subs
<1>2. resources' = [resources EXCEPT !.subs = subs]
  BY DEF subs
<1>3. resources' \in ResourcesType
  BY ZenonT(60), <1>1, <1>2, Typed DEF ResourcesType
<1>4. /\ resources'.subs = subs
      /\ UNCHANGED <<resources.pc, resources.now, resources.polls, resources.for, resources.until, resources.queue,
                     resources.lastPoll, resources.data, resources.last, resources.callers>>
  BY <1>2, Typed DEF ResourcesType
<1>5. PollerInv'
  BY <1>4 DEF PollerInv, ResourcesInv
<1>6. ASSUME NEW c \in Callers PROVE CallerInv(c)'
  <2>1. Asking(c)' = Asking(c)
    BY <1>4 DEF Asking
  <2> QED
    BY <2>1, <1>4, TypedCaller DEF CallerInv
<1>7. ASSUME NEW v \in Watchers PROVE WatcherInv(v)'
  BY <1>1, <1>4 DEF WatcherInv, ResourcesInv
<1> QED
  BY <1>3, <1>5, <1>6, <1>7 DEF ResourcesInv

LEMMA StepWatcher ==
    ASSUME ResourcesInv, NEW w \in Watchers, Watch(w) \/ Send(w) \/ Unwatch(w)
    PROVE  ResourcesInv'
<1> DEFINE s == resources.subs[w]
<1>t. s \in WatcherType /\ s.ch \in Seq(ReadingType) /\ WatcherInv(w)
  BY Typed DEF WatcherType, ResourcesInv
<1>1. CASE Watch(w)
  <2>1. PICK filter \in {"nil", "number", "word"} :
            resources' = [resources EXCEPT !.subs[w] =
              [NotWatching EXCEPT !.on = TRUE, !.filter = filter, !.joined = resources.last.n, !.word = resources.last.word]]
    BY <1>1 DEF Watch
  <2> DEFINE me == [NotWatching EXCEPT !.on = TRUE, !.filter = filter, !.joined = resources.last.n, !.word = resources.last.word]
  <2>2. resources.last.n \in Nat /\ resources.last.word \in Words
    BY Typed DEF ReadingType
  <2>3. me \in WatcherType
    BY <2>2, Nothing DEF WatcherType
  <2>4. me.ch = <<>> /\ me.word = resources.last.word /\ me.joined = resources.last.n
    BY DEF NotWatching
  <2>5. resources' = [resources EXCEPT !.subs = [resources.subs EXCEPT ![w] = me]]
    BY <2>1, Typed DEF ResourcesType
  <2> HIDE DEF me
  <2> QED
    BY <2>2, <2>3, <2>4, <2>5, OneWatcher
<1>2. CASE Send(w)
  <2> DEFINE ch == Tail(s.ch)
  <2> DEFINE me == [s EXCEPT !.ch = ch]
  <2>1. /\ ch \in Seq(ReadingType)
        /\ \A i \in DOMAIN ch : i + 1 \in DOMAIN s.ch /\ ch[i] = s.ch[i + 1] /\ i \in Nat
    BY <1>t, <1>2 DEF Send
  <2> HIDE DEF ch
  <2>2. /\ me \in WatcherType /\ me.ch = ch /\ me.on = s.on /\ me.missed = s.missed /\ me.filter = s.filter
        /\ me.joined = s.joined /\ me.last = s.last /\ me.word = s.word
    BY <1>t, <2>1 DEF WatcherType
  <2>3. resources' = [resources EXCEPT !.subs = [resources.subs EXCEPT ![w] = me]]
    BY <1>2, Typed DEF Send, ch, ResourcesType
  <2>4. /\ \A i, j \in DOMAIN ch : i < j => ch[i].n < ch[j].n
        /\ \A i \in DOMAIN ch : ch[i].n <= resources.last.n
    <3>1. /\ \A i, j \in DOMAIN s.ch : i < j => s.ch[i].n < s.ch[j].n
          /\ \A i \in DOMAIN s.ch : s.ch[i].n <= resources.last.n
      BY <1>t DEF WatcherInv
    <3> HIDE DEF s
    <3>2. ASSUME NEW i \in DOMAIN ch, NEW j \in DOMAIN ch, i < j
          PROVE  ch[i].n < ch[j].n
      <4>1. i + 1 \in DOMAIN s.ch /\ j + 1 \in DOMAIN s.ch /\ i + 1 < j + 1
        BY <2>1, <3>2
      <4> QED
        BY <2>1, <3>1, <4>1
    <3> QED
      BY <2>1, <3>1, <3>2
  <2> HIDE DEF me
  <2> QED
    BY <1>t, <2>2, <2>3, <2>4, OneWatcher DEF WatcherInv
<1>3. CASE Unwatch(w)
  <2>1. resources' = [resources EXCEPT !.subs = [resources.subs EXCEPT ![w] = NotWatching]]
    BY <1>3, Typed DEF Unwatch, ResourcesType
  <2>2. NotWatching.ch = <<>> /\ ~NotWatching.on
    BY DEF NotWatching
  <2> QED
    BY <2>1, <2>2, Nothing, OneWatcher
<1> QED
  BY <1>1, <1>2, <1>3

-------------------------------------------------------------------------------
LEMMA ResourcesStep == ResourcesInv /\ [ResourcesNext]_resources => ResourcesInv'
<1> SUFFICES ASSUME ResourcesInv, [ResourcesNext]_resources
             PROVE  ResourcesInv'
  OBVIOUS
<1>1. CASE UNCHANGED resources
  BY <1>1 DEF ResourcesInv, PollerInv, CallerInv, WatcherInv, Asking
<1>2. CASE ResourcesNext
  BY <1>2, StepRun, StepCalm, StepCollect, StepBroadcast, StepRecord, StepTake, StepNote, StepWake,
     StepPollNow, StepAnswer, StepWatcher DEF ResourcesNext
<1> QED
  BY <1>1, <1>2

\* Whoever asks gets what is fresh, and watchers miss nothing: poller.go and broadcast of
\* main.go with any number of calls and watchers and any queues, intervals and readings.
THEOREM ResourcesAreFreshHolds == ResourcesSpec => []ResourcesAreFresh
<1>1. ResourcesInv => ResourcesAreFresh
  <2> SUFFICES ASSUME ResourcesInv PROVE ResourcesAreFresh
    OBVIOUS
  <2>1. ASSUME NEW c \in Callers
        PROVE  LET call == resources.callers[c]
               IN /\ call.pc = "answered" /\ call.waited => call.got.at >= call.since
                  /\ call.pc = "answered" /\ ~call.skipped => call.got # NoReading
                  /\ call.pc = "polled" =>
                        c \in Range(resources.queue) \cup {resources.for} \/ resources.pc = "stopped"
    <3>1. Asking(c) # {} => c \in Range(resources.queue)
      BY DEF Asking, Range
    <3>2. NoReading.n = 0
      BY DEF NoReading
    <3> QED
      BY <3>1, <3>2, TypedCaller DEF CallerInv
  <2>2. resources.pc = "waiting" => resources.until <= resources.now + MaxInterval
    BY DEF ResourcesInv, PollerInv
  <2> QED
    BY <2>1, <2>2 DEF ResourcesInv, WatcherInv, ResourcesAreFresh
<1>2. ResourcesInit => ResourcesInv
  BY ResourcesStart
<1> QED
  BY <1>1, <1>2, ResourcesStep, PTL DEF ResourcesSpec

-------------------------------------------------------------------------------
(* Resources: lists of processes, histories and extremes.                  *)

Processes == [pid : Int, cpu : Int, mem : Int]
SortOrders == {"cpu", "memory", "pid"}

\* Misplaced is the order of one number.
LEMMA MisplacedOrders ==
    ASSUME NEW by \in SortOrders
    PROVE  /\ \A p, q \in Processes : Misplaced(p, q, by) => ~Misplaced(q, p, by)
           /\ \A p, q, r \in Processes :
                 ~Misplaced(p, q, by) /\ ~Misplaced(q, r, by) => ~Misplaced(p, r, by)
<1>1. CASE by = "cpu"
  BY <1>1 DEF Misplaced, Processes
<1>2. CASE by = "memory"
  BY <1>2 DEF Misplaced, Processes
<1>3. CASE by = "pid"
  BY <1>3 DEF Misplaced, Processes
<1> QED
  BY <1>1, <1>2, <1>3 DEF SortOrders

\* t lists what s does, in another order from i on.
Reorders(r, n, i) ==
    /\ r \in [1 .. n -> 1 .. n]
    /\ \A j, k \in 1 .. n : r[j] = r[k] => j = k
    /\ \A j \in 1 .. n : \E k \in 1 .. n : r[k] = j
    /\ \A k \in 1 .. n : (k < i => r[k] = k) /\ (k >= i => r[k] >= i)
Reordered(t, s, n, i) == \E r : Reorders(r, n, i) /\ \A k \in 1 .. n : t[k] = s[r[k]]

LEMMA ReorderedSelf ==
    ASSUME NEW n \in Nat, NEW i \in Nat, NEW s
    PROVE  Reordered(s, s, n, i)
<1> DEFINE r == [k \in 1 .. n |-> k]
<1>1. Reorders(r, n, i) /\ \A k \in 1 .. n : s[k] = s[r[k]]
  BY DEF Reorders
<1> QED
  BY <1>1 DEF Reordered

LEMMA ReorderedTwice ==
    ASSUME NEW n \in Nat, NEW h \in Nat, NEW i \in Nat, h <= i, NEW s, NEW t, NEW u,
           Reordered(t, s, n, h), Reordered(u, t, n, i)
    PROVE  Reordered(u, s, n, h)
<1>1. PICK p : Reorders(p, n, h) /\ \A k \in 1 .. n : t[k] = s[p[k]]
  BY DEF Reordered
<1>2. PICK q : Reorders(q, n, i) /\ \A k \in 1 .. n : u[k] = t[q[k]]
  BY DEF Reordered
<1> DEFINE r == [k \in 1 .. n |-> p[q[k]]]
<1>3. \A k \in 1 .. n : p[k] \in 1 .. n /\ q[k] \in 1 .. n
  BY <1>1, <1>2 DEF Reorders
<1>4. r \in [1 .. n -> 1 .. n]
  BY <1>3
<1>5. \A j, k \in 1 .. n : r[j] = r[k] => j = k
  BY <1>1, <1>2, <1>3 DEF Reorders
<1>6. ASSUME NEW j \in 1 .. n PROVE \E k \in 1 .. n : r[k] = j
  <2>1. PICK k \in 1 .. n : p[k] = j
    BY <1>1 DEF Reorders
  <2>2. PICK l \in 1 .. n : q[l] = k
    BY <1>2 DEF Reorders
  <2> QED
    BY <2>1, <2>2
<1>7. ASSUME NEW k \in 1 .. n PROVE (k < h => r[k] = k) /\ (k >= h => r[k] >= h)
  <2>1. q[k] \in 1 .. n /\ p[q[k]] \in 1 .. n /\ r[k] = p[q[k]]
    BY <1>3
  <2>2. (k < i => q[k] = k) /\ (k >= i => q[k] >= i)
    BY <1>2 DEF Reorders
  <2>3. (q[k] < h => p[q[k]] = q[k]) /\ (q[k] >= h => p[q[k]] >= h)
    BY <1>1, <2>1 DEF Reorders
  <2> HIDE DEF r
  <2> QED
    BY <2>1, <2>2, <2>3
<1>8. \A k \in 1 .. n : u[k] = s[r[k]]
  BY <1>1, <1>2, <1>3
<1>9. Reorders(r, n, h)
  <2> HIDE DEF r
  <2> QED
    BY <1>4, <1>5, <1>6, <1>7 DEF Reorders
<1> QED
  BY <1>8, <1>9 DEF Reordered

LEMMA SwappedIsReordered ==
    ASSUME NEW n \in Nat, NEW s \in [1 .. n -> Processes], NEW i \in 1 .. n, NEW j \in i .. n
    PROVE  /\ Swapped(s, i, j) \in [1 .. n -> Processes]
           /\ \A k \in 1 .. n : Swapped(s, i, j)[k] = IF k = i THEN s[j] ELSE IF k = j THEN s[i] ELSE s[k]
           /\ Reordered(Swapped(s, i, j), s, n, i)
<1> DEFINE r == [k \in 1 .. n |-> IF k = i THEN j ELSE IF k = j THEN i ELSE k]
<1>1. j \in 1 .. n
  OBVIOUS
<1>2. \A k \in 1 .. n : Swapped(s, i, j)[k] = IF k = i THEN s[j] ELSE IF k = j THEN s[i] ELSE s[k]
  BY <1>1 DEF Swapped
<1>3. Swapped(s, i, j) \in [1 .. n -> Processes]
  BY <1>1 DEF Swapped
<1>4. r \in [1 .. n -> 1 .. n]
  BY <1>1
<1>5. \A k, l \in 1 .. n : r[k] = r[l] => k = l
  OBVIOUS
<1>6. \A k \in 1 .. n : r[r[k]] = k /\ r[k] \in 1 .. n
  BY <1>1
<1>7. \A k \in 1 .. n : (k < i => r[k] = k) /\ (k >= i => r[k] >= i)
  OBVIOUS
<1>8. \A k \in 1 .. n : Swapped(s, i, j)[k] = s[r[k]]
  BY <1>2
<1>9. Reorders(r, n, i)
  <2> HIDE DEF r
  <2> QED
    BY <1>4, <1>5, <1>6, <1>7 DEF Reorders
<1> QED
  BY <1>2, <1>3, <1>8, <1>9 DEF Reordered

\* The inner loop brings to i what belongs there.
LEMMA InnerLoop ==
    ASSUME NEW by \in SortOrders, NEW n \in Nat, NEW s \in [1 .. n -> Processes], NEW i \in 1 .. n
    PROVE  /\ Settled(s, i, by) \in [1 .. n -> Processes]
           /\ Reordered(Settled(s, i, by), s, n, i)
           /\ \A j \in i .. n : ~Misplaced(Settled(s, i, by)[i], Settled(s, i, by)[j], by)
<1> DEFINE T == [1 .. n -> Processes]
<1> DEFINE N == n - i
<1> DEFINE step(h) == [k \in 0 .. N |-> IF k = 0 THEN s ELSE Compared(h[k - 1], i, i + k, by)]
<1> DEFINE F == [p \in Nat \X T |-> IF p[1] <= N THEN Compared(p[2], i, i + p[1], by) ELSE p[2]]
<1>1. N \in Nat /\ Len(s) = n
  OBVIOUS
<1>2. ASSUME NEW t \in T, NEW k \in 0 .. N
      PROVE  Compared(t, i, i + k, by) \in T
  <2>1. i + k \in i .. n
    OBVIOUS
  <2> QED
    BY <2>1, SwappedIsReordered DEF Compared
<1>3. F \in [Nat \X T -> T]
  <2> SUFFICES ASSUME NEW p \in Nat \X T
               PROVE  (IF p[1] <= N THEN Compared(p[2], i, i + p[1], by) ELSE p[2]) \in T
    OBVIOUS
  <2>1. p[1] \in Nat /\ p[2] \in T
    OBVIOUS
  <2> HIDE DEF T
  <2> QED
    BY <1>1, <1>2, <2>1
<1>4. \E h : h = step(h)
  <2>1. \E g : Recursive_(g, T, s, F, N)
    <3> HIDE DEF F, N, T
    <3>1. s \in T
      BY DEF T
    <3> QED
      BY <1>1, <1>3, <3>1, Recursion
  <2>2. PICK g : Recursive_(g, T, s, F, N)
    BY <2>1
  <2>3. ASSUME NEW k \in 0 .. N
        PROVE  g[k] = IF k = 0 THEN s ELSE Compared(g[k - 1], i, i + k, by)
    <3>1. g[k] = IF k = 0 THEN s ELSE F[<<k, g[k - 1]>>]
      <4> HIDE DEF F, T
      <4> QED
        BY <1>1, <2>2 DEF Recursive_
    <3>2. ASSUME k # 0 PROVE F[<<k, g[k - 1]>>] = Compared(g[k - 1], i, i + k, by)
      <4>1. k - 1 \in 0 .. N /\ k \in Nat /\ k <= N
        BY <3>2
      <4>2. g[k - 1] \in T
        <5> HIDE DEF F, T
        <5> QED
          BY <2>2, <4>1 DEF Recursive_
      <4> HIDE DEF T
      <4> QED
        BY <4>1, <4>2
    <3> QED
      BY <3>1, <3>2
  <2>4. g \in [0 .. N -> T]
    BY <2>2 DEF Recursive_
  <2>5. g = step(g)
    BY <2>3, <2>4
  <2> QED
    BY <2>5
<1>5. \E h : h = step(h) /\ Settled(s, i, by) = h[N]
  BY <1>1, <1>4 DEF Settled
<1>6. PICK h : h = step(h) /\ Settled(s, i, by) = h[N]
  BY <1>5
<1>7. ASSUME NEW k \in 0 .. N PROVE h[k] = IF k = 0 THEN s ELSE Compared(h[k - 1], i, i + k, by)
  <2>1. h[k] = step(h)[k]
    BY <1>6
  <2> QED
    BY <2>1
<1> DEFINE Good(k, t) == /\ t \in T
                         /\ Reordered(t, s, n, i)
                         /\ \A j \in i .. i + k : ~Misplaced(t[i], t[j], by)
<1> DEFINE S == {k \in Nat : k \in 0 .. N => Good(k, h[k])}
<1>8. 0 \in S
  <2>1. h[0] = s
    BY <1>1, <1>7
  <2>2. s[i] \in Processes
    OBVIOUS
  <2>3. ~Misplaced(s[i], s[i], by)
    BY <2>2, MisplacedOrders
  <2>4. \A j \in i .. i + 0 : j = i
    OBVIOUS
  <2>5. Reordered(s, s, n, i)
    BY ReorderedSelf
  <2> QED
    BY <2>1, <2>3, <2>4, <2>5
<1>9. ASSUME NEW k \in Nat, k \in S PROVE k + 1 \in S
  <2> SUFFICES ASSUME k + 1 \in 0 .. N PROVE Good(k + 1, h[k + 1])
    OBVIOUS
  <2> DEFINE m == i + (k + 1)
  <2>1. k \in 0 .. N /\ (k + 1) - 1 = k /\ k + 1 # 0
    OBVIOUS
  <2>2. m \in i .. n /\ m \in 1 .. n /\ i # m
    OBVIOUS
  <2>3. \A j \in i .. m : j = m \/ j \in i .. i + k
    OBVIOUS
  <2>4. \A j \in i .. m : j \in 1 .. n
    BY <2>2
  <2> HIDE DEF m
  <2> DEFINE t == h[k]
  <2>5. Good(k, t)
    BY <1>9, <2>1
  <2>6. h[k + 1] = Compared(t, i, m, by)
    BY <1>7, <2>1 DEF m
  <2>7. m = i + (k + 1)
    BY DEF m
  <2> HIDE DEF t
  <2>8. CASE ~Misplaced(t[i], t[m], by)
    <3>1. h[k + 1] = t
      BY <2>6, <2>8 DEF Compared
    <3> QED
      BY <2>3, <2>5, <2>7, <2>8, <3>1
  <2>9. CASE Misplaced(t[i], t[m], by)
    <3> DEFINE u == Swapped(t, i, m)
    <3>1. h[k + 1] = u
      BY <2>6, <2>9 DEF Compared
    <3>2. /\ u \in T
          /\ \A l \in 1 .. n : u[l] = IF l = i THEN t[m] ELSE IF l = m THEN t[i] ELSE t[l]
          /\ Reordered(u, t, n, i)
      BY <2>2, <2>5, SwappedIsReordered
    <3> HIDE DEF u
    <3>3. Reordered(u, s, n, i)
      BY <2>5, <3>2, ReorderedTwice
    <3>4. ASSUME NEW j \in i .. m PROVE ~Misplaced(u[i], u[j], by)
      <4>1. t[i] \in Processes /\ t[m] \in Processes /\ t[j] \in Processes
        BY <2>2, <2>4, <2>5
      <4>2. ~Misplaced(t[m], t[i], by)
        BY <2>9, <4>1, MisplacedOrders
      <4>3. u[i] = t[m]
        BY <3>2
      <4>4. CASE j = i
        <5>1. ~Misplaced(t[m], t[m], by)
          BY <4>1, MisplacedOrders
        <5> QED
          BY <4>3, <4>4, <5>1
      <4>5. CASE j = m
        <5>1. u[j] = t[i]
          BY <2>2, <3>2, <4>5
        <5> QED
          BY <4>2, <4>3, <5>1
      <4>6. CASE j # i /\ j # m
        <5>1. u[j] = t[j]
          BY <2>4, <3>2, <4>6
        <5>2. ~Misplaced(t[i], t[j], by)
          BY <2>3, <2>5, <4>6
        <5>3. ~Misplaced(t[m], t[j], by)
          BY <4>1, <4>2, <5>2, MisplacedOrders
        <5> QED
          BY <4>3, <5>1, <5>3
      <4> QED
        BY <4>4, <4>5, <4>6
    <3> QED
      BY <2>7, <3>1, <3>2, <3>3, <3>4
  <2> QED
    BY <2>8, <2>9
<1>10. Nat \subseteq S
  <2> HIDE DEF S
  <2> QED
    BY <1>8, <1>9, SetInduction
<1>11. Good(N, h[N])
  BY <1>1, <1>10
<1>12. \A j \in i .. n : j \in i .. i + N
  OBVIOUS
<1> QED
  BY <1>6, <1>11, <1>12

\* The outer loop sorts.
LEMMA OuterLoop ==
    ASSUME NEW by \in SortOrders, NEW n \in Nat, NEW s \in [1 .. n -> Processes]
    PROVE  /\ sortProcesses(s, by) \in [1 .. n -> Processes]
           /\ Reordered(sortProcesses(s, by), s, n, 1)
           /\ \A a \in 1 .. n : \A b \in a .. n : ~Misplaced(sortProcesses(s, by)[a], sortProcesses(s, by)[b], by)
<1> DEFINE T == [1 .. n -> Processes]
<1> DEFINE step(h) == [i \in 0 .. n |-> IF i = 0 THEN s ELSE Settled(h[i - 1], i, by)]
<1> DEFINE F == [p \in Nat \X T |-> IF p[1] \in 1 .. n THEN Settled(p[2], p[1], by) ELSE p[2]]
<1>1. Len(s) = n
  OBVIOUS
<1>2. ASSUME NEW t \in T, NEW i \in 1 .. n
      PROVE  Settled(t, i, by) \in T
  BY InnerLoop
<1>3. F \in [Nat \X T -> T]
  <2> SUFFICES ASSUME NEW p \in Nat \X T
               PROVE  (IF p[1] \in 1 .. n THEN Settled(p[2], p[1], by) ELSE p[2]) \in T
    OBVIOUS
  <2>1. p[1] \in Nat /\ p[2] \in T
    OBVIOUS
  <2> HIDE DEF T
  <2> QED
    BY <1>2, <2>1
<1>4. \E h : h = step(h)
  <2>1. \E g : Recursive_(g, T, s, F, n)
    <3> HIDE DEF F, T
    <3>1. s \in T
      BY DEF T
    <3> QED
      BY <1>3, <3>1, Recursion
  <2>2. PICK g : Recursive_(g, T, s, F, n)
    BY <2>1
  <2>3. ASSUME NEW i \in 0 .. n
        PROVE  g[i] = IF i = 0 THEN s ELSE Settled(g[i - 1], i, by)
    <3>1. g[i] = IF i = 0 THEN s ELSE F[<<i, g[i - 1]>>]
      <4> HIDE DEF F, T
      <4> QED
        BY <2>2 DEF Recursive_
    <3>2. ASSUME i # 0 PROVE F[<<i, g[i - 1]>>] = Settled(g[i - 1], i, by)
      <4>1. i - 1 \in 0 .. n /\ i \in Nat /\ i \in 1 .. n
        BY <3>2
      <4>2. g[i - 1] \in T
        <5> HIDE DEF F, T
        <5> QED
          BY <2>2, <4>1 DEF Recursive_
      <4> HIDE DEF T
      <4> QED
        BY <4>1, <4>2
    <3> QED
      BY <3>1, <3>2
  <2>4. g \in [0 .. n -> T]
    BY <2>2 DEF Recursive_
  <2>5. g = step(g)
    BY <2>3, <2>4
  <2> QED
    BY <2>5
<1>5. \E h : h = step(h) /\ sortProcesses(s, by) = h[n]
  BY <1>1, <1>4 DEF sortProcesses
<1>6. PICK h : h = step(h) /\ sortProcesses(s, by) = h[n]
  BY <1>5
<1>7. ASSUME NEW i \in 0 .. n PROVE h[i] = IF i = 0 THEN s ELSE Settled(h[i - 1], i, by)
  <2>1. h[i] = step(h)[i]
    BY <1>6
  <2> QED
    BY <2>1
<1> DEFINE Good(i, t) == /\ t \in T
                         /\ Reordered(t, s, n, 1)
                         /\ \A a \in 1 .. i : \A b \in a .. n : ~Misplaced(t[a], t[b], by)
<1> DEFINE S == {i \in Nat : i \in 0 .. n => Good(i, h[i])}
<1>8. 0 \in S
  <2>1. h[0] = s
    BY <1>7
  <2>2. Reordered(s, s, n, 1)
    BY ReorderedSelf
  <2> QED
    BY <2>1, <2>2
<1>9. ASSUME NEW k \in Nat, k \in S PROVE k + 1 \in S
  <2> SUFFICES ASSUME k + 1 \in 0 .. n PROVE Good(k + 1, h[k + 1])
    OBVIOUS
  <2> DEFINE i == k + 1
  <2>1. k \in 0 .. n /\ i - 1 = k /\ i # 0 /\ i \in 1 .. n
    OBVIOUS
  <2>2. \A a \in 1 .. i : a = i \/ a \in 1 .. k
    OBVIOUS
  <2> DEFINE t == h[k]
  <2> DEFINE u == h[i]
  <2>3. Good(k, t)
    BY <1>9, <2>1
  <2>4. u = Settled(t, i, by)
    BY <1>7, <2>1
  <2>5. i = k + 1
    OBVIOUS
  <2> HIDE DEF t, u, i
  <2>6. /\ u \in T
        /\ Reordered(u, t, n, i)
        /\ \A b \in i .. n : ~Misplaced(u[i], u[b], by)
    BY <2>1, <2>3, <2>4, InnerLoop
  <2>7. Reordered(u, s, n, 1)
    BY <2>1, <2>3, <2>6, ReorderedTwice
  <2>8. PICK r : Reorders(r, n, i) /\ \A l \in 1 .. n : u[l] = t[r[l]]
    BY <2>6 DEF Reordered
  <2>9. ASSUME NEW a \in 1 .. i, NEW b \in a .. n PROVE ~Misplaced(u[a], u[b], by)
    <3>1. CASE a = i
      BY <2>6, <3>1
    <3>2. CASE a # i
      <4>1. a \in 1 .. k /\ a \in 1 .. n /\ b \in 1 .. n /\ a < i
        BY <2>1, <2>2, <2>5, <3>2
      <4>2. r[a] = a /\ r[b] \in 1 .. n
        BY <2>8, <4>1 DEF Reorders
      <4>3. r[b] \in a .. n
        <5>1. (b < i => r[b] = b) /\ (b >= i => r[b] >= i)
          BY <2>8, <4>1 DEF Reorders
        <5> QED
          BY <2>1, <4>1, <4>2, <5>1
      <4>4. ~Misplaced(t[a], t[r[b]], by)
        BY <2>3, <4>1, <4>3
      <4> QED
        BY <2>8, <4>1, <4>2, <4>4
    <3> QED
      BY <3>1, <3>2
  <2> QED
    BY <2>5, <2>6, <2>7, <2>9 DEF u, i
<1>10. Nat \subseteq S
  <2> HIDE DEF S
  <2> QED
    BY <1>8, <1>9, SetInduction
<1>11. Good(n, h[n])
  BY <1>10
<1> QED
  BY <1>6, <1>11

\* A list in another order has every process as often.
LEMMA ReorderedCounts ==
    ASSUME NEW n \in Nat, NEW s \in [1 .. n -> Processes], NEW t \in [1 .. n -> Processes],
           Reordered(t, s, n, 1), NEW p
    PROVE  Occurrences(t, p) = Occurrences(s, p)
<1>1. PICK r : Reorders(r, n, 1) /\ \A k \in 1 .. n : t[k] = s[r[k]]
  BY DEF Reordered
<1> DEFINE A == {i \in 1 .. n : t[i] = p}
<1> DEFINE B == {i \in 1 .. n : s[i] = p}
<1> DEFINE f == [i \in A |-> r[i]]
<1>2. \A k \in 1 .. n : r[k] \in 1 .. n
  BY <1>1 DEF Reorders
<1>3. f \in [A -> B]
  BY <1>1, <1>2
<1>4. \A i, j \in A : f[i] = f[j] => i = j
  BY <1>1 DEF Reorders
<1>5. \A j \in B : \E i \in A : f[i] = j
  BY <1>1 DEF Reorders
<1>6. IsFiniteSet(A)
  <2>1. IsFiniteSet(1 .. n)
    BY FS_Interval
  <2>2. A \subseteq 1 .. n
    OBVIOUS
  <2> HIDE DEF A
  <2> QED
    BY <2>1, <2>2, FS_Subset
<1>7. ExistsBijection(A, B)
  <2> HIDE DEF A, B, f
  <2> QED
    BY <1>3, <1>4, <1>5 DEF ExistsBijection, Bijection, Injection, Surjection, IsInjective
<1>8. Cardinality(B) = Cardinality(A)
  <2> HIDE DEF A, B
  <2> QED
    BY <1>6, <1>7, FS_Bijection
<1>9. DOMAIN t = 1 .. n /\ DOMAIN s = 1 .. n
  OBVIOUS
<1> QED
  BY <1>8, <1>9 DEF Occurrences

LEMMA OrDefaultIsSome == \A count \in Counts : OrDefault(count) \in Nat \ {0}
BY ListsAssumption DEF OrDefault

LEMMA TopLists ==
    ASSUME NEW procs \in ProcessLists, NEW by \in SortOrders, NEW count \in Counts
    PROVE  TopIsRight(procs, by, count)
<1> DEFINE n == Len(procs)
<1> DEFINE sorted == sortProcesses(procs, by)
<1> DEFINE c == OrDefault(count)
<1>1. procs \in Seq(Processes)
  BY ListsAssumption DEF Processes
<1>2. n \in Nat /\ procs \in [1 .. n -> Processes]
  BY <1>1
<1>3. c \in Nat \ {0}
  BY OrDefaultIsSome
<1>4. /\ sorted \in [1 .. n -> Processes]
      /\ Reordered(sorted, procs, n, 1)
      /\ \A a \in 1 .. n : \A b \in a .. n : ~Misplaced(sorted[a], sorted[b], by)
  <2> HIDE DEF n
  <2> QED
    BY <1>2, OuterLoop
<1>5. \A p : Occurrences(sorted, p) = Occurrences(procs, p)
  <2> HIDE DEF n, sorted
  <2> QED
    BY <1>2, <1>4, ReorderedCounts
<1>6. sorted \in Seq(Processes) /\ Len(sorted) = n
  <2> HIDE DEF n, sorted
  <2> QED
    BY <1>2, <1>4
<1>7. Top(procs, by, count) = SubSeq(sorted, 1, Min({n, c}))
  <2> HIDE DEF n, sorted, c
  <2>0. {n, c} \in SUBSET Int
    BY <1>2, <1>3
  <2>1. CASE n > c
    <3>1. c \in {n, c} /\ \A k \in {n, c} : c <= k
      BY <1>2, <1>3, <2>1
    <3>2. Min({n, c}) = c
      BY <2>0, <3>1, Minimum
    <3> QED
      BY <1>6, <2>1, <3>2 DEF Top, FirstOf, sorted, c
  <2>2. CASE ~(n > c)
    <3>1. n \in {n, c} /\ \A k \in {n, c} : n <= k
      BY <1>2, <1>3, <2>2
    <3>2. Min({n, c}) = n
      BY <2>0, <3>1, Minimum
    <3>3. SubSeq(sorted, 1, n) = sorted
      BY <1>2, <1>6
    <3> QED
      BY <1>6, <2>2, <3>2, <3>3 DEF Top, FirstOf, sorted, c
  <2> QED
    BY <2>1, <2>2
<1>8. \A i, j \in DOMAIN sorted : i < j => ~Misplaced(sorted[i], sorted[j], by)
  <2> HIDE DEF n, sorted
  <2> QED
    BY <1>2, <1>4
<1> QED
  BY <1>5, <1>7, <1>8 DEF TopIsRight

LEMMA PSLists ==
    ASSUME NEW procs \in ProcessLists, NEW pid \in Counts
    PROVE  PSIsRight(procs, pid)
<1> DEFINE found == {i \in DOMAIN procs : procs[i].pid = pid}
<1> DEFINE of == {p \in Range(procs) : p.pid = pid}
<1> DEFINE list == PS(procs, pid, "cpu", 0)
<1> SUFFICES ASSUME pid > 0
             PROVE  Range(list) \subseteq of /\ Len(list) = IF of = {} THEN 0 ELSE 1
  BY DEF PSIsRight
<1>1. procs \in Seq(Processes)
  BY ListsAssumption DEF Processes
<1>2. ~(pid <= 0)
  BY ListsAssumption
<1>3. list = IF found = {} THEN <<>> ELSE <<procs[Min(found)]>>
  BY <1>2 DEF PS
<1>4. CASE found = {}
  <2>1. of = {}
    BY <1>4 DEF Range
  <2>2. list = <<>>
    BY <1>3, <1>4
  <2> QED
    BY <2>1, <2>2 DEF Range
<1>5. CASE found # {}
  <2>1. Min(found) \in found
    <3>1. found \in SUBSET Nat
      BY <1>1
    <3>2. \E m \in found : \A k \in found : m <= k
      <4> HIDE DEF found
      <4> QED
        BY <1>5, <3>1, Least
    <3> HIDE DEF found
    <3> QED
      BY <3>2 DEF Min
  <2> DEFINE q == procs[Min(found)]
  <2>2. q \in of
    BY <2>1 DEF Range
  <2>3. list = <<q>>
    BY <1>3, <1>5
  <2> HIDE DEF q, list, of
  <2>4. Range(<<q>>) = {q}
    BY DEF Range
  <2> QED
    BY <2>2, <2>3, <2>4
<1> QED
  BY <1>4, <1>5

\* The ring has the end of what went into it.
LEMMA RingIsSuffix ==
    ASSUME NEW values \in Seq(Int), NEW k \in 0 .. Len(values) - 1, NEW from \in 1 .. k + 1,
           from = IF k > MaxHistory THEN k - MaxHistory + 1 ELSE 1,
           NEW next, next = IF k + 1 > MaxHistory THEN k + 1 - MaxHistory + 1 ELSE 1
    PROVE  appendRing(SubSeq(values, from, k), values[k + 1], MaxHistory) = SubSeq(values, next, k + 1)
<1>1. MaxHistory \in Nat /\ MaxHistory > 0
  BY ListsAssumption
<1>2. k \in Nat /\ k + 1 \in 1 .. Len(values) /\ Len(values) \in Nat
  OBVIOUS
<1>3. ASSUME NEW m \in 1 .. k + 1
      PROVE  Append(SubSeq(values, m, k), values[k + 1]) = SubSeq(values, m, k + 1)
  <2>1. m \in 1 .. Len(values) /\ k + 1 \in m .. Len(values) /\ (k + 1) - 1 = k
    BY <1>2
  <2>2. SubSeq(values, m, k + 1) = SubSeq(values, m, k) \o <<values[k + 1]>>
    BY <2>1, SubSeqRecursiveSecond
  <2>3. \A i \in m .. k : values[i] \in Int
    BY <1>2
  <2>4. SubSeq(values, m, k) \in Seq(Int)
    BY <1>2, <2>3, SubSeqProperties
  <2>5. values[k + 1] \in Int
    BY <1>2
  <2> QED
    BY <2>2, <2>4, <2>5, AppendIsConcat
<1>4. Len(SubSeq(values, from, k)) = k - from + 1
  <2>1. \A i \in from .. k : values[i] \in Int
    BY <1>2
  <2> QED
    BY <1>2, <2>1, SubSeqProperties
<1>5. CASE k < MaxHistory
  <2>1. next = from /\ k - from + 1 < MaxHistory
    BY <1>1, <1>2, <1>5
  <2> QED
    BY <1>3, <1>4, <2>1 DEF appendRing
<1>6. CASE ~(k < MaxHistory)
  <2>1. next = from + 1 /\ ~(k - from + 1 < MaxHistory) /\ from \in 1 .. Len(values) /\ k \in from .. Len(values)
        /\ next \in 1 .. k + 1
    BY <1>1, <1>2, <1>6
  <2>2. Tail(SubSeq(values, from, k)) = SubSeq(values, next, k)
    BY <2>1, HeadTailOfSubSeq
  <2> QED
    BY <1>3, <1>4, <2>1, <2>2 DEF appendRing
<1> QED
  BY <1>2, <1>5, <1>6

LEMMA HistoryLists ==
    ASSUME NEW values \in Recordings, NEW count \in Counts
    PROVE  HistoryIsRight(values, count)
<1> DEFINE n == Len(values)
<1> DEFINE T == Seq(Int)
<1> DEFINE c == OrDefault(count)
<1> DEFINE From(k) == IF k > MaxHistory THEN k - MaxHistory + 1 ELSE 1
<1> DEFINE step(h) == [i \in 0 .. n |-> IF i = 0 THEN <<>> ELSE appendRing(h[i - 1], values[i], MaxHistory)]
<1> DEFINE F == [p \in Nat \X T |-> IF p[1] \in 1 .. n THEN appendRing(p[2], values[p[1]], MaxHistory) ELSE p[2]]
<1>1. /\ values \in Seq(Int) /\ n \in Nat
      /\ MaxHistory \in Nat \ {0} /\ c \in Nat \ {0}
  BY ListsAssumption, OrDefaultIsSome
<1>2. ASSUME NEW t \in T, NEW i \in 1 .. n
      PROVE  appendRing(t, values[i], MaxHistory) \in T
  <2>1. values[i] \in Int
    BY <1>1
  <2>2. Append(t, values[i]) \in T
    BY <2>1
  <2>3. CASE Len(t) < MaxHistory
    BY <2>2, <2>3 DEF appendRing
  <2>4. CASE ~(Len(t) < MaxHistory)
    <3>1. t # <<>>
      BY <1>1, <2>4
    <3>2. Tail(t) \in T
      BY <3>1
    <3>3. Append(Tail(t), values[i]) \in T
      BY <2>1, <3>2
    <3> QED
      BY <2>4, <3>3 DEF appendRing
  <2> QED
    BY <2>3, <2>4
<1>3. F \in [Nat \X T -> T]
  <2> SUFFICES ASSUME NEW p \in Nat \X T
               PROVE  (IF p[1] \in 1 .. n THEN appendRing(p[2], values[p[1]], MaxHistory) ELSE p[2]) \in T
    OBVIOUS
  <2>1. p[1] \in Nat /\ p[2] \in T
    OBVIOUS
  <2> HIDE DEF T, n
  <2> QED
    BY <1>2, <2>1
<1>4. \E h : h = step(h)
  <2>1. \E g : Recursive_(g, T, <<>>, F, n)
    <3>1. <<>> \in T
      OBVIOUS
    <3> HIDE DEF F, T, n
    <3> QED
      BY <1>1, <1>3, <3>1, Recursion
  <2>2. PICK g : Recursive_(g, T, <<>>, F, n)
    BY <2>1
  <2>3. ASSUME NEW i \in 0 .. n
        PROVE  g[i] = IF i = 0 THEN <<>> ELSE appendRing(g[i - 1], values[i], MaxHistory)
    <3>1. g[i] = IF i = 0 THEN <<>> ELSE F[<<i, g[i - 1]>>]
      <4> HIDE DEF F, T
      <4> QED
        BY <2>2 DEF Recursive_
    <3>2. ASSUME i # 0 PROVE F[<<i, g[i - 1]>>] = appendRing(g[i - 1], values[i], MaxHistory)
      <4>1. i - 1 \in 0 .. n /\ i \in Nat /\ i \in 1 .. n
        BY <1>1, <3>2
      <4>2. g[i - 1] \in T
        <5> HIDE DEF F, T
        <5> QED
          BY <2>2, <4>1 DEF Recursive_
      <4> HIDE DEF T, n
      <4> QED
        BY <4>1, <4>2
    <3> QED
      BY <3>1, <3>2
  <2>4. g \in [0 .. n -> T]
    BY <2>2 DEF Recursive_
  <2>5. g = step(g)
    <3> HIDE DEF T, n
    <3> QED
      BY <2>3, <2>4
  <2> QED
    BY <2>5
<1>5. \E h : h = step(h) /\ History(values, count) = lastN(h[n], c)
  BY <1>4 DEF History
<1>6. PICK h : h = step(h) /\ History(values, count) = lastN(h[n], c)
  BY <1>5
<1>7. ASSUME NEW i \in 0 .. n PROVE h[i] = IF i = 0 THEN <<>> ELSE appendRing(h[i - 1], values[i], MaxHistory)
  <2>1. h[i] = step(h)[i]
    BY <1>6
  <2> QED
    BY <2>1
<1> DEFINE S == {i \in Nat : i \in 0 .. n => h[i] = SubSeq(values, From(i), i)}
<1>8. 0 \in S
  <2>1. h[0] = <<>>
    BY <1>1, <1>7
  <2>2. From(0) = 1
    BY <1>1
  <2>3. SubSeq(values, 1, 0) = <<>>
    BY SubSeqEmpty
  <2> QED
    BY <2>1, <2>2, <2>3
<1>9. ASSUME NEW k \in Nat, k \in S PROVE k + 1 \in S
  <2> SUFFICES ASSUME k + 1 \in 0 .. n PROVE h[k + 1] = SubSeq(values, From(k + 1), k + 1)
    OBVIOUS
  <2>1. k \in 0 .. n - 1 /\ k \in 0 .. n /\ (k + 1) - 1 = k /\ k + 1 # 0
    BY <1>1
  <2>2. h[k + 1] = appendRing(SubSeq(values, From(k), k), values[k + 1], MaxHistory)
    BY <1>7, <1>9, <2>1
  <2>3. From(k) \in 1 .. k + 1
    BY <1>1
  <2> DEFINE a == From(k)
  <2> DEFINE b == From(k + 1)
  <2>4. a \in 1 .. k + 1 /\ a = IF k > MaxHistory THEN k - MaxHistory + 1 ELSE 1
    BY <2>3
  <2>5. b = IF k + 1 > MaxHistory THEN k + 1 - MaxHistory + 1 ELSE 1
    BY <1>1
  <2>6. h[k + 1] = appendRing(SubSeq(values, a, k), values[k + 1], MaxHistory)
    BY <2>2
  <2> SUFFICES h[k + 1] = SubSeq(values, b, k + 1)
    OBVIOUS
  <2> HIDE DEF a, b
  <2> QED
    BY <1>1, <2>1, <2>4, <2>5, <2>6, RingIsSuffix
<1>10. Nat \subseteq S
  <2> HIDE DEF S
  <2> QED
    BY <1>8, <1>9, SetInduction
<1>11. h[n] = SubSeq(values, From(n), n)
  <2>1. n \in S
    <3> HIDE DEF S
    <3> QED
      BY <1>1, <1>10
  <2>2. n \in 0 .. n
    BY <1>1
  <2> HIDE DEF From
  <2> QED
    BY <2>1, <2>2
<1> DEFINE L == IF n > MaxHistory THEN MaxHistory ELSE n
<1> DEFINE m == IF c > L THEN L ELSE c
<1>12. L \in 0 .. n /\ m \in 0 .. L /\ From(n) = n - L + 1
  BY <1>1
<1> DEFINE b == SubSeq(values, n - L + 1, n)
<1>13. Len(b) = L /\ h[n] = b
  <2> HIDE DEF L, n, From
  <2>1. \A i \in n - L + 1 .. n : values[i] \in Int
    BY <1>1, <1>12 DEF n
  <2>2. Len(SubSeq(values, n - L + 1, n)) = IF n - L + 1 <= n THEN n - (n - L + 1) + 1 ELSE 0
    BY <1>1, <1>12, <2>1, SubSeqProperties
  <2> QED
    BY <1>1, <1>11, <1>12, <2>2
<1>14. lastN(b, c) = SubSeq(b, L - m + 1, L)
  <2> HIDE DEF b
  <2> QED
    BY <1>13 DEF lastN
<1>15. SubSeq(b, L - m + 1, L) = SubSeq(values, n - m + 1, n)
  <2> HIDE DEF L, m, n, From
  <2>1. CASE m = 0
    BY <1>1, <1>12, <2>1, SubSeqEmpty
  <2>2. CASE m # 0
    <3> DEFINE p == n - L + 1
    <3> DEFINE i == L - m + 1
    <3>1. p \in 1 .. n /\ n \in p .. n /\ p \in 1 .. Len(values) /\ n \in p .. Len(values)
      BY <1>1, <1>12, <2>2 DEF n
    <3>2. i \in 1 .. n - p + 1 /\ L \in i .. n - p + 1
      BY <1>1, <1>12, <2>2
    <3>3. p + i - 1 = n - m + 1 /\ p + L - 1 = n
      BY <1>1, <1>12
    <3>4. n \in 1 .. Len(values) /\ L \in 1 .. n - p + 1
      BY <1>1, <3>1, <3>2
    <3>5. b = SubSeq(values, p, n)
      OBVIOUS
    <3> HIDE DEF p, i, b
    <3>6. SubSeq(SubSeq(values, p, n), i, L) = SubSeq(values, p + i - 1, p + L - 1)
      BY <1>1, <3>1, <3>2, <3>4, SubSeqOfSubSeq
    <3> QED
      BY <3>3, <3>5, <3>6 DEF i
  <2> QED
    BY <2>1, <2>2
<1>16. Min({n, MaxHistory, c}) = m
  <2>1. {n, MaxHistory, c} \in SUBSET Int
    BY <1>1
  <2>2. m \in {n, MaxHistory, c} /\ \A k \in {n, MaxHistory, c} : m <= k
    BY <1>1
  <2> HIDE DEF n, c, m
  <2> QED
    BY <2>1, <2>2, Minimum
<1> QED
  BY <1>6, <1>13, <1>14, <1>15, <1>16 DEF HistoryIsRight

\* What track has seen: nothing, or positive numbers between the two.
ExtremesOf(t, known) ==
    /\ t \in [min : Int, max : Int]
    /\ known = {} => t.min = 0 /\ t.max = 0
    /\ known # {} => t.min \in known /\ t.max \in known /\ \A v \in known : t.min <= v /\ v <= t.max

LEMMA TrackSees ==
    ASSUME NEW known \in SUBSET Int, \A v \in known : v > 0,
           NEW t, ExtremesOf(t, known), NEW temp \in Int, temp > 0
    PROVE  ExtremesOf(track(t, temp), known \cup {temp})
<1> DEFINE s == IF t.min = 0 /\ t.max = 0 THEN [min |-> temp, max |-> temp] ELSE t
<1> DEFINE lo == IF temp < s.min THEN temp ELSE s.min
<1> DEFINE hi == IF temp > s.max THEN temp ELSE s.max
<1>1. track(t, temp) = [min |-> lo, max |-> hi]
  BY DEF track
<1>2. s.min \in Int /\ s.max \in Int
  BY DEF ExtremesOf
<1>3. lo \in Int /\ hi \in Int
  BY <1>2
<1>4. CASE known = {}
  <2>1. s.min = temp /\ s.max = temp
    BY <1>4 DEF ExtremesOf
  <2>2. lo = temp /\ hi = temp
    BY <2>1
  <2> HIDE DEF lo, hi
  <2> QED
    BY <1>1, <1>3, <1>4, <2>2 DEF ExtremesOf
<1>5. CASE known # {}
  <2>1. t.min \in known /\ t.max \in known /\ \A v \in known : t.min <= v /\ v <= t.max
    BY <1>5 DEF ExtremesOf
  <2>2. t.min > 0 /\ t.max > 0 /\ t.min \in Int /\ t.max \in Int
    BY <2>1
  <2>3. s.min = t.min /\ s.max = t.max
    BY <2>2
  <2>4. /\ lo \in known \cup {temp} /\ hi \in known \cup {temp}
        /\ lo <= t.min /\ lo <= temp /\ t.max <= hi /\ temp <= hi
    <3> HIDE DEF s
    <3> QED
      BY <2>1, <2>2, <2>3
  <2> HIDE DEF lo, hi
  <2>5. \A v \in known \cup {temp} : lo <= v /\ v <= hi
    BY <1>3, <2>1, <2>2, <2>4
  <2> DEFINE r == [min |-> lo, max |-> hi]
  <2>6. r \in [min : Int, max : Int] /\ r.min = lo /\ r.max = hi
    BY <1>3
  <2> HIDE DEF r
  <2>7. ExtremesOf(r, known \cup {temp})
    BY <2>4, <2>5, <2>6 DEF ExtremesOf
  <2> QED
    BY <1>1, <2>7 DEF r
<1> QED
  BY <1>4, <1>5

LEMMA ExtremesLists ==
    ASSUME NEW temps \in Recordings
    PROVE  ExtremesAreRight(temps)
<1> DEFINE n == Len(temps)
<1> DEFINE T == [min : Int, max : Int]
<1> DEFINE zero == [min |-> 0, max |-> 0]
<1> DEFINE Seen(t, i) == IF temps[i] <= 0 THEN t ELSE track(t, temps[i])
<1> DEFINE step(h) == [i \in 0 .. n |-> IF i = 0 THEN zero ELSE IF temps[i] <= 0 THEN h[i - 1] ELSE track(h[i - 1], temps[i])]
<1> DEFINE F == [p \in Nat \X T |-> IF p[1] \in 1 .. n THEN Seen(p[2], p[1]) ELSE p[2]]
<1>1. temps \in Seq(Int) /\ n \in Nat /\ \A i \in 1 .. n : temps[i] \in Int
  BY ListsAssumption
<1>2. ASSUME NEW t \in T, NEW i \in 1 .. n
      PROVE  Seen(t, i) \in T
  <2>1. temps[i] \in Int
    BY <1>1
  <2> HIDE DEF n
  <2> QED
    BY <2>1 DEF track
<1>3. F \in [Nat \X T -> T]
  <2> SUFFICES ASSUME NEW p \in Nat \X T
               PROVE  (IF p[1] \in 1 .. n THEN Seen(p[2], p[1]) ELSE p[2]) \in T
    OBVIOUS
  <2>1. p[1] \in Nat /\ p[2] \in T
    OBVIOUS
  <2> HIDE DEF T, n, Seen
  <2> QED
    BY <1>2, <2>1
<1>4. \E h : h = step(h)
  <2>1. \E g : Recursive_(g, T, zero, F, n)
    <3>1. zero \in T
      OBVIOUS
    <3> HIDE DEF F, T, n, zero
    <3> QED
      BY <1>1, <1>3, <3>1, Recursion
  <2>2. PICK g : Recursive_(g, T, zero, F, n)
    BY <2>1
  <2>3. ASSUME NEW i \in 0 .. n
        PROVE  g[i] = IF i = 0 THEN zero ELSE Seen(g[i - 1], i)
    <3>1. g[i] = IF i = 0 THEN zero ELSE F[<<i, g[i - 1]>>]
      <4> HIDE DEF F, T
      <4> QED
        BY <2>2 DEF Recursive_
    <3>2. ASSUME i # 0 PROVE F[<<i, g[i - 1]>>] = Seen(g[i - 1], i)
      <4>1. i - 1 \in 0 .. n /\ i \in Nat /\ i \in 1 .. n
        BY <1>1, <3>2
      <4>2. g[i - 1] \in T
        <5> HIDE DEF F, T
        <5> QED
          BY <2>2, <4>1 DEF Recursive_
      <4> HIDE DEF T, n, Seen
      <4> QED
        BY <4>1, <4>2
    <3> HIDE DEF F, Seen, zero
    <3> QED
      BY <3>1, <3>2
  <2>4. g \in [0 .. n -> T]
    BY <2>2 DEF Recursive_
  <2>5. g = [i \in 0 .. n |-> IF i = 0 THEN zero ELSE Seen(g[i - 1], i)]
    <3> HIDE DEF T, n, Seen, zero
    <3> QED
      BY <2>3, <2>4
  <2>6. g = step(g)
    BY Zenon, <2>5
  <2> QED
    BY <2>6
<1>5. \E h : h = step(h) /\ Extremes(temps) = h[n]
  BY <1>4 DEF Extremes
<1>6. PICK h : h = step(h) /\ Extremes(temps) = h[n]
  BY <1>5
<1>7. ASSUME NEW i \in 0 .. n PROVE h[i] = IF i = 0 THEN zero ELSE Seen(h[i - 1], i)
  <2>1. h[i] = step(h)[i]
    BY <1>6
  <2> QED
    BY <2>1
<1> DEFINE Known(k) == {temps[i] : i \in {j \in 1 .. k : temps[j] > 0}}
<1> DEFINE S == {k \in Nat : k \in 0 .. n => ExtremesOf(h[k], Known(k))}
<1>8. 0 \in S
  <2>1. h[0] = zero
    BY <1>1, <1>7
  <2>2. Known(0) = {}
    OBVIOUS
  <2>3. ExtremesOf(zero, {})
    BY DEF ExtremesOf
  <2> QED
    BY <2>1, <2>2, <2>3
<1>9. ASSUME NEW k \in Nat, k \in S PROVE k + 1 \in S
  <2> SUFFICES ASSUME k + 1 \in 0 .. n PROVE ExtremesOf(h[k + 1], Known(k + 1))
    OBVIOUS
  <2>1. k \in 0 .. n /\ (k + 1) - 1 = k /\ k + 1 # 0 /\ k + 1 \in 1 .. n
    BY <1>1
  <2> DEFINE temp == temps[k + 1]
  <2>2. h[k + 1] = Seen(h[k], k + 1)
    <3> HIDE DEF n, Seen, zero
    <3> QED
      BY <1>7, <2>1
  <2>3. ExtremesOf(h[k], Known(k))
    BY <1>9, <2>1
  <2>4. temp \in Int
    BY <1>1, <2>1
  <2>5. CASE temp <= 0
    <3>1. Known(k + 1) = Known(k)
      <4>1. \A j \in 1 .. k + 1 : temps[j] > 0 <=> j \in 1 .. k /\ temps[j] > 0
        BY <2>4, <2>5
      <4>2. {j \in 1 .. k + 1 : temps[j] > 0} = {j \in 1 .. k : temps[j] > 0}
        BY <4>1
      <4> QED
        BY <4>2
    <3>2. h[k + 1] = h[k]
      BY <2>2, <2>5
    <3> HIDE DEF Known
    <3> QED
      BY <2>3, <3>1, <3>2
  <2>6. CASE ~(temp <= 0)
    <3>1. Known(k + 1) = Known(k) \cup {temp}
      <4>1. temp > 0
        BY <2>4, <2>6
      <4>2. {j \in 1 .. k + 1 : temps[j] > 0} = {j \in 1 .. k : temps[j] > 0} \cup {k + 1}
        BY <4>1
      <4> QED
        BY <4>2
    <3>2. h[k + 1] = track(h[k], temp)
      BY <2>2, <2>6
    <3>3. Known(k) \in SUBSET Int /\ \A v \in Known(k) : v > 0
      BY <1>1, <2>1
    <3>4. temp > 0
      BY <2>4, <2>6
    <3> HIDE DEF Known, temp
    <3> QED
      BY <2>3, <2>4, <3>1, <3>2, <3>3, <3>4, TrackSees
  <2> QED
    BY <2>5, <2>6
<1>10. Nat \subseteq S
  <2> HIDE DEF S
  <2> QED
    BY <1>8, <1>9, SetInduction
<1> DEFINE known == {t \in Range(temps) : t > 0}
<1> DEFINE e == Extremes(temps)
<1>11. ExtremesOf(e, known)
  <2>1. n \in S /\ n \in 0 .. n
    <3> HIDE DEF S
    <3> QED
      BY <1>1, <1>10
  <2>2. ExtremesOf(h[n], Known(n))
    <3> HIDE DEF Known
    <3> QED
      BY <2>1
  <2>3. Known(n) = known
    BY <1>1 DEF Range
  <2> HIDE DEF Known, known
  <2> QED
    BY <1>6, <2>2, <2>3
<1>12. known \in SUBSET Int
  BY <1>1 DEF Range
<1> HIDE DEF known
<1> SUFFICES ASSUME known # {}
             PROVE  e = [min |-> Min(known), max |-> Max(known)]
  BY DEF ExtremesAreRight, known
<1> HIDE DEF e
<1>13. e.min = Min(known) /\ e.max = Max(known)
  BY <1>11, <1>12, Minimum, Maximum DEF ExtremesOf
<1>14. e = [min |-> e.min, max |-> e.max]
  BY <1>11 DEF ExtremesOf
<1> QED
  BY <1>13, <1>14

\* What is listed, recorded and remembered is right, for lists, recordings and counts of
\* any length and size.
THEOREM ListsAreRightHolds == ResourcesSpec => []ListsAreRight
<1>1. RightLists
  <2>1. {"cpu", "memory", "pid"} = SortOrders
    BY DEF SortOrders
  <2> QED
    BY <2>1, TopLists, PSLists, HistoryLists, ExtremesLists DEF RightLists
<1>2. ListsAreRight
  BY <1>1 DEF ListsAreRight
<1> QED
  BY <1>2, PTL

-------------------------------------------------------------------------------
(* Logging: names.                                                         *)

Names == Seq(Segments) \ {<<>>}

\* NameLen by its recursion.
LEMMA Widths ==
    ASSUME NEW n \in Seq(Segments)
    PROVE  \E w \in [0 .. Len(n) -> Nat] :
              /\ w[0] = 0 /\ \A i \in 1 .. Len(n) : w[i] = w[i - 1] + SegmentLen[n[i]]
              /\ NameLen(n) = Len(n) - 1 + w[Len(n)]
<1> DEFINE N == Len(n)
<1> DEFINE step(h) == [i \in 0 .. N |-> IF i = 0 THEN 0 ELSE h[i - 1] + SegmentLen[n[i]]]
<1> DEFINE F == [p \in Nat \X Nat |-> IF p[1] \in 1 .. N THEN p[2] + SegmentLen[n[p[1]]] ELSE 0]
<1>1. N \in Nat
  OBVIOUS
<1>2. \A i \in 1 .. N : n[i] \in Segments /\ SegmentLen[n[i]] \in Nat
  BY LoggingAssumption
<1>3. F \in [Nat \X Nat -> Nat]
  <2> SUFFICES ASSUME NEW p \in Nat \X Nat
               PROVE  (IF p[1] \in 1 .. N THEN p[2] + SegmentLen[n[p[1]]] ELSE 0) \in Nat
    OBVIOUS
  <2> HIDE DEF N
  <2>1. p[1] \in Nat /\ p[2] \in Nat
    OBVIOUS
  <2> QED
    BY <1>2, <2>1
<1>4. \E g : Recursive_(g, Nat, 0, F, N)
  <2>1. 0 \in Nat
    OBVIOUS
  <2> HIDE DEF F, N
  <2> QED
    BY <1>1, <1>3, <2>1, Recursion
<1>5. PICK g : Recursive_(g, Nat, 0, F, N)
  BY <1>4
<1> HIDE DEF N
<1>6. g \in [0 .. N -> Nat] /\ g[0] = 0 /\ \A i \in 1 .. N : g[i] = g[i - 1] + SegmentLen[n[i]]
  <2>1. g \in [0 .. N -> Nat] /\ g[0] = 0 /\ \A i \in 1 .. N : g[i] = F[<<i, g[i - 1]>>]
    BY <1>5 DEF Recursive_
  <2>2. ASSUME NEW i \in 1 .. N
        PROVE  g[i] = g[i - 1] + SegmentLen[n[i]]
    <3>1. i \in Nat /\ i - 1 \in 0 .. N
      BY <1>1
    <3>2. <<i, g[i - 1]>> \in Nat \X Nat
      BY <2>1, <3>1
    <3> QED
      BY <2>1, <3>2
  <2> QED
    BY <2>1, <2>2
<1>7. g = step(g)
  <2>1. ASSUME NEW i \in 0 .. N
        PROVE  g[i] = IF i = 0 THEN 0 ELSE g[i - 1] + SegmentLen[n[i]]
    <3>1. i = 0 \/ i \in 1 .. N
      BY <1>1
    <3> QED
      BY <3>1, <1>6
  <2> QED
    BY <2>1, <1>6
<1>8. \E h : h = step(h) /\ NameLen(n) = N - 1 + h[N]
  BY <1>7 DEF NameLen, N
<1>9. PICK h : h = step(h) /\ NameLen(n) = N - 1 + h[N]
  BY <1>8
<1>10. ASSUME NEW i \in 0 .. N
       PROVE  h[i] = IF i = 0 THEN 0 ELSE h[i - 1] + SegmentLen[n[i]]
  <2>1. h[i] = step(h)[i]
    BY <1>9
  <2> QED
    BY <2>1
<1>11. \A i \in 0 .. N : h[i] = g[i]
  <2> DEFINE S == {i \in Nat : i \in 0 .. N => h[i] = g[i]}
  <2>1. 0 \in S
    <3>1. 0 \in 0 .. N
      BY <1>1
    <3> QED
      BY <1>6, <1>10, <3>1
  <2>2. ASSUME NEW i \in Nat, i \in S PROVE i + 1 \in S
    <3> SUFFICES ASSUME i + 1 \in 0 .. N PROVE h[i + 1] = g[i + 1]
      OBVIOUS
    <3>1. i + 1 \in 1 .. N /\ i \in 0 .. N /\ (i + 1) - 1 = i /\ i + 1 # 0
      BY <1>1
    <3>2. h[i + 1] = h[i] + SegmentLen[n[i + 1]]
      BY <1>10, <3>1
    <3>3. g[i + 1] = g[i] + SegmentLen[n[i + 1]]
      BY <1>6, <3>1
    <3> QED
      BY <2>2, <3>1, <3>2, <3>3
  <2>3. Nat \subseteq S
    <3> HIDE DEF S
    <3> QED
      BY <2>1, <2>2, SetInduction
  <2> QED
    BY <2>3, <1>1
<1>12. NameLen(n) = N - 1 + g[N]
  BY <1>9, <1>11, <1>1
<1> QED
  BY <1>6, <1>12 DEF N

\* Of two that are above the same name, one with more segments is longer, and two of the
\* same number of segments are one.
LEMMA LongerPrefix ==
    ASSUME NEW m \in Names, NEW n \in Names, NEW p \in Names, IsPrefix(m, p), IsPrefix(n, p)
    PROVE  /\ Len(m) < Len(n) => NameLen(m) < NameLen(n)
           /\ Len(m) = Len(n) => m = n
           /\ NameLen(m) <= NameLen(p)
           /\ NameLen(m) \in Nat
<1>0. m \in Seq(Segments) /\ n \in Seq(Segments) /\ p \in Seq(Segments) /\ Len(m) \in Nat \ {0} /\ Len(n) \in Nat /\ Len(p) \in Nat
  BY DEF Names
<1>1. ASSUME NEW a \in Names, NEW b \in Names, Len(a) <= Len(b), \A i \in 1 .. Len(a) : a[i] = b[i]
      PROVE  /\ NameLen(a) <= NameLen(b) /\ NameLen(a) \in Nat /\ NameLen(b) \in Nat
             /\ Len(a) < Len(b) => NameLen(a) < NameLen(b)
  <2>0. a \in Seq(Segments) /\ b \in Seq(Segments) /\ Len(a) \in Nat \ {0} /\ Len(b) \in Nat \ {0}
    BY DEF Names
  <2>1. PICK v \in [0 .. Len(a) -> Nat] :
              /\ v[0] = 0 /\ \A i \in 1 .. Len(a) : v[i] = v[i - 1] + SegmentLen[a[i]]
              /\ NameLen(a) = Len(a) - 1 + v[Len(a)]
    BY <2>0, Widths
  <2>2. PICK w \in [0 .. Len(b) -> Nat] :
              /\ w[0] = 0 /\ \A i \in 1 .. Len(b) : w[i] = w[i - 1] + SegmentLen[b[i]]
              /\ NameLen(b) = Len(b) - 1 + w[Len(b)]
    BY <2>0, Widths
  <2> DEFINE S == {i \in Nat : i \in 0 .. Len(b) => IF i <= Len(a) THEN w[i] = v[i] ELSE w[i] >= v[Len(a)]}
  <2>3. 0 \in S
    BY <2>0, <2>1, <2>2
  <2>4. ASSUME NEW i \in Nat, i \in S PROVE i + 1 \in S
    <3> SUFFICES ASSUME i + 1 \in 0 .. Len(b)
                 PROVE  IF i + 1 <= Len(a) THEN w[i + 1] = v[i + 1] ELSE w[i + 1] >= v[Len(a)]
      OBVIOUS
    <3>1. i + 1 \in 1 .. Len(b) /\ i \in 0 .. Len(b) /\ (i + 1) - 1 = i
      BY <2>0
    <3>2. b[i + 1] \in Segments /\ SegmentLen[b[i + 1]] \in Nat
      BY <3>1, <2>0, LoggingAssumption
    <3>3. w[i + 1] = w[i] + SegmentLen[b[i + 1]] /\ w[i] \in Nat
      BY <2>2, <3>1
    <3>4. IF i <= Len(a) THEN w[i] = v[i] ELSE w[i] >= v[Len(a)]
      BY <2>4, <3>1
    <3>5. CASE i + 1 <= Len(a)
      <4>1. i + 1 \in 1 .. Len(a) /\ i <= Len(a)
        BY <3>5, <2>0
      <4>2. v[i + 1] = v[i] + SegmentLen[a[i + 1]] /\ a[i + 1] = b[i + 1]
        BY <2>1, <3>1, <4>1, <1>1
      <4> QED
        BY <3>3, <3>4, <3>5, <4>1, <4>2
    <3>6. CASE ~(i + 1 <= Len(a))
      <4>1. i = Len(a) \/ ~(i <= Len(a))
        BY <3>6, <2>0
      <4>2. v[Len(a)] \in Nat /\ w[i] >= v[Len(a)]
        <5>1. Len(a) \in 0 .. Len(a)
          BY <2>0
        <5>2. v[Len(a)] \in Nat
          BY <2>1, <5>1
        <5>3. CASE i = Len(a)
          BY <3>3, <3>4, <5>2, <5>3, <2>0
        <5>4. CASE ~(i <= Len(a))
          BY <3>4, <5>2, <5>4
        <5> QED
          BY <4>1, <5>2, <5>3, <5>4
      <4>3. w[i + 1] >= v[Len(a)]
        BY <3>2, <3>3, <4>2
      <4> QED
        BY <3>6, <4>3
    <3> QED
      BY <3>5, <3>6
  <2>5. Nat \subseteq S
    <3> HIDE DEF S
    <3> QED
      BY <2>3, <2>4, SetInduction
  <2>6. IF Len(b) <= Len(a) THEN w[Len(b)] = v[Len(b)] ELSE w[Len(b)] >= v[Len(a)]
    BY <2>0, <2>5
  <2>7. v[Len(a)] \in Nat /\ w[Len(b)] \in Nat
    <3>1. Len(a) \in 0 .. Len(a) /\ Len(b) \in 0 .. Len(b)
      BY <2>0
    <3> QED
      BY <2>1, <2>2, <3>1
  <2>8. w[Len(b)] >= v[Len(a)]
    <3>1. Len(b) <= Len(a) => Len(b) = Len(a)
      BY <2>0, <1>1
    <3> QED
      BY <2>6, <2>7, <3>1
  <2>9. \A x, y \in Nat \ {0}, c, d \in Nat :
            d >= c /\ x <= y =>
               /\ x - 1 + c \in Nat /\ y - 1 + d \in Nat /\ x - 1 + c <= y - 1 + d
               /\ x < y => x - 1 + c < y - 1 + d
    OBVIOUS
  <2>10. /\ Len(a) - 1 + v[Len(a)] \in Nat /\ Len(b) - 1 + w[Len(b)] \in Nat
         /\ Len(a) - 1 + v[Len(a)] <= Len(b) - 1 + w[Len(b)]
         /\ Len(a) < Len(b) => Len(a) - 1 + v[Len(a)] < Len(b) - 1 + w[Len(b)]
    BY ONLY <2>0, <2>7, <2>8, <2>9, <1>1
  <2>11. NameLen(a) = Len(a) - 1 + v[Len(a)] /\ NameLen(b) = Len(b) - 1 + w[Len(b)]
    BY <2>1, <2>2
  <2> QED
    BY ONLY <2>10, <2>11
<1>2. Len(m) <= Len(p) /\ Len(n) <= Len(p)
  BY DEF IsPrefix
<1>3. \A i \in 1 .. Len(m) : m[i] = p[i]
  <2> SUFFICES ASSUME NEW i \in 1 .. Len(m) PROVE m[i] = p[i]
    OBVIOUS
  <2>1. SubSeq(m, 1, Len(m))[i] = m[i] /\ SubSeq(p, 1, Len(m))[i] = p[i]
    BY <1>0, <1>2
  <2> QED
    BY <2>1 DEF IsPrefix
<1>4. \A i \in 1 .. Len(n) : n[i] = p[i]
  <2> SUFFICES ASSUME NEW i \in 1 .. Len(n) PROVE n[i] = p[i]
    OBVIOUS
  <2>1. SubSeq(n, 1, Len(n))[i] = n[i] /\ SubSeq(p, 1, Len(n))[i] = p[i]
    BY <1>0, <1>2
  <2> QED
    BY <2>1 DEF IsPrefix
<1>5. Len(m) < Len(n) => NameLen(m) < NameLen(n)
  <2>1. ASSUME Len(m) < Len(n) PROVE \A i \in 1 .. Len(m) : m[i] = n[i]
    BY <1>0, <1>3, <1>4, <2>1
  <2> QED
    BY SMTT(30), <1>0, <1>1, <2>1
<1>6. Len(m) = Len(n) => m = n
  BY <1>0, <1>3, <1>4
<1>7. NameLen(m) <= NameLen(p) /\ NameLen(m) \in Nat
  BY <1>1, <1>2, <1>3
<1> QED
  BY <1>5, <1>6, <1>7

-------------------------------------------------------------------------------
(* Logging: resolve.                                                       *)

\* The choice after the i-th configured logger, from the choice before.
Next_Choice(loggers, n, i, c) ==
    IF Applies(loggers[i], n) /\ Better(loggers[i], n, IF c = 0 THEN <<>> ELSE loggers[c].name)
    THEN i ELSE c
\* What the choice c makes of a name.
Outcome(loggers, sinks, c) ==
    IF c = 0 THEN [level |-> 0, sinks |-> sinks]
    ELSE [level |-> ParseLevel(loggers[c].level),
          sinks |-> IF loggers[c].sinks \cap sinks = {} THEN sinks ELSE loggers[c].sinks \cap sinks]

LEMMA ChoiceSteps ==
    ASSUME NEW loggers, Len(loggers) \in Nat, NEW sinks, NEW n
    PROVE  \E g \in [0 .. Len(loggers) -> 0 .. Len(loggers)] :
              /\ g[0] = 0 /\ \A i \in 1 .. Len(loggers) : g[i] = Next_Choice(loggers, n, i, g[i - 1])
              /\ resolve(loggers, sinks, n) = Outcome(loggers, sinks, g[Len(loggers)])
<1> DEFINE N == Len(loggers)
<1> DEFINE T == 0 .. N
<1> DEFINE step(h) == [i \in 0 .. N |-> IF i = 0 THEN 0 ELSE Next_Choice(loggers, n, i, h[i - 1])]
<1> DEFINE F == [p \in Nat \X T |-> IF p[1] \in 1 .. N THEN Next_Choice(loggers, n, p[1], p[2]) ELSE 0]
<1>1. N \in Nat /\ 0 \in T
  OBVIOUS
<1>2. \A i \in 1 .. N, c \in T : Next_Choice(loggers, n, i, c) \in T
  BY DEF Next_Choice
<1>3. F \in [Nat \X T -> T]
  <2> SUFFICES ASSUME NEW p \in Nat \X T
               PROVE  (IF p[1] \in 1 .. N THEN Next_Choice(loggers, n, p[1], p[2]) ELSE 0) \in T
    OBVIOUS
  <2> HIDE DEF N, T
  <2>1. p[1] \in Nat /\ p[2] \in T
    OBVIOUS
  <2> QED
    BY <1>1, <1>2, <2>1
<1>4. \E g : Recursive_(g, T, 0, F, N)
  <2> HIDE DEF F, N, T
  <2> QED
    BY <1>1, <1>3, Recursion
<1>5. PICK g : Recursive_(g, T, 0, F, N)
  BY <1>4
<1> HIDE DEF N, T
<1>6. g \in [0 .. N -> T] /\ g[0] = 0 /\ \A i \in 1 .. N : g[i] = Next_Choice(loggers, n, i, g[i - 1])
  <2>1. g \in [0 .. N -> T] /\ g[0] = 0 /\ \A i \in 1 .. N : g[i] = F[<<i, g[i - 1]>>]
    BY <1>5 DEF Recursive_
  <2>2. ASSUME NEW i \in 1 .. N
        PROVE  g[i] = Next_Choice(loggers, n, i, g[i - 1])
    <3>1. i \in Nat /\ i - 1 \in 0 .. N
      BY <1>1
    <3>2. <<i, g[i - 1]>> \in Nat \X T
      BY <2>1, <3>1
    <3> QED
      BY <2>1, <3>2
  <2> QED
    BY <2>1, <2>2
<1>7. g = step(g)
  <2>1. ASSUME NEW i \in 0 .. N
        PROVE  g[i] = IF i = 0 THEN 0 ELSE Next_Choice(loggers, n, i, g[i - 1])
    <3>1. i = 0 \/ i \in 1 .. N
      BY SMTT(30), <1>1
    <3> QED
      BY <3>1, <1>6
  <2> QED
    BY <2>1, <1>6
<1>8. \E h : h = step(h) /\ resolve(loggers, sinks, n) = Outcome(loggers, sinks, h[N])
  <2>1. step(g) = [i \in 0 .. Len(loggers) |->
            IF i = 0 THEN 0
            ELSE LET best == IF g[i - 1] = 0 THEN <<>> ELSE loggers[g[i - 1]].name
                 IN IF Applies(loggers[i], n) /\ Better(loggers[i], n, best) THEN i ELSE g[i - 1]]
    BY DEF N, Next_Choice
  <2> QED
    BY Zenon, <1>7, <2>1 DEF resolve, Outcome, N, Next_Choice
<1>9. PICK h : h = step(h) /\ resolve(loggers, sinks, n) = Outcome(loggers, sinks, h[N])
  BY <1>8
<1>10. ASSUME NEW i \in 0 .. N
       PROVE  h[i] = IF i = 0 THEN 0 ELSE Next_Choice(loggers, n, i, h[i - 1])
  <2>1. h[i] = step(h)[i]
    BY <1>9
  <2> QED
    BY <2>1
<1>11. \A i \in 0 .. N : h[i] = g[i]
  <2> DEFINE S == {i \in Nat : i \in 0 .. N => h[i] = g[i]}
  <2>1. 0 \in S
    <3>1. 0 \in 0 .. N
      BY <1>1
    <3> QED
      BY <1>6, <1>10, <3>1
  <2>2. ASSUME NEW i \in Nat, i \in S PROVE i + 1 \in S
    <3> SUFFICES ASSUME i + 1 \in 0 .. N PROVE h[i + 1] = g[i + 1]
      OBVIOUS
    <3>1. i + 1 \in 1 .. N /\ i \in 0 .. N /\ (i + 1) - 1 = i /\ i + 1 # 0
      BY <1>1
    <3>2. h[i + 1] = Next_Choice(loggers, n, i + 1, h[i])
      BY <1>10, <3>1
    <3>3. g[i + 1] = Next_Choice(loggers, n, i + 1, g[i])
      BY <1>6, <3>1
    <3> QED
      BY <2>2, <3>1, <3>2, <3>3
  <2>3. Nat \subseteq S
    <3> HIDE DEF S
    <3> QED
      BY <2>1, <2>2, SetInduction
  <2> QED
    BY <2>3, <1>1
<1>12. resolve(loggers, sinks, n) = Outcome(loggers, sinks, g[N])
  BY <1>9, <1>11, <1>1
<1> QED
  BY <1>6, <1>12 DEF N, T

Named(loggers) ==
    /\ Len(loggers) \in Nat /\ DOMAIN loggers = 1 .. Len(loggers)
    /\ \A i \in 1 .. Len(loggers) : loggers[i].name \in Names
\* Of the first k, c is the longest that applies, and the first of its name.
Longest(loggers, n, k, c) ==
    /\ c \in 0 .. k
    /\ c = 0 => \A j \in 1 .. k : ~Applies(loggers[j], n)
    /\ c # 0 => /\ Applies(loggers[c], n)
                /\ \A j \in 1 .. k : Applies(loggers[j], n) =>
                      /\ NameLen(loggers[j].name) <= NameLen(loggers[c].name)
                      /\ j < c => loggers[j].name # loggers[c].name

LEMMA NameLens ==
    /\ NameLen(<<>>) = -1 /\ Root \in Names
    /\ \A n \in Names : NameLen(n) \in Nat /\ IsPrefix(n, n)
<1>1. NameLen(<<>>) = -1
  <2>1. <<>> \in Seq(Segments) /\ Len(<<>>) = 0
    OBVIOUS
  <2>2. PICK w \in [0 .. Len(<<>>) -> Nat] : w[0] = 0 /\ NameLen(<<>>) = Len(<<>>) - 1 + w[Len(<<>>)]
    BY <2>1, Widths
  <2> QED
    BY <2>1, <2>2
<1>2. Root \in Names
  BY LoggingAssumption DEF Root, Names
<1>3. ASSUME NEW n \in Names PROVE IsPrefix(n, n)
  BY DEF IsPrefix, Names
<1>4. ASSUME NEW n \in Names PROVE NameLen(n) \in Nat
  BY <1>3, LongerPrefix
<1> QED
  BY <1>1, <1>2, <1>3, <1>4

LEMMA ChoiceIsLongest ==
    ASSUME NEW loggers, Named(loggers), LongNames(loggers), NEW sinks, NEW n \in Names
    PROVE  \E c : /\ Longest(loggers, n, Len(loggers), c)
                  /\ resolve(loggers, sinks, n) = Outcome(loggers, sinks, c)
<1> DEFINE N == Len(loggers)
<1> DEFINE name(i) == loggers[i].name
<1>1. N \in Nat /\ \A i \in 1 .. N : name(i) \in Names /\ NameLen(name(i)) \in Nat
  BY NameLens DEF Named
<1>2. \A i \in 1 .. N : name(i) = Root \/ NameLen(name(i)) > NameLen(Root)
  BY <1>1 DEF LongNames, Named, Range
<1>3. PICK g \in [0 .. N -> 0 .. N] :
         /\ g[0] = 0 /\ \A i \in 1 .. N : g[i] = Next_Choice(loggers, n, i, g[i - 1])
         /\ resolve(loggers, sinks, n) = Outcome(loggers, sinks, g[N])
  BY <1>1, ChoiceSteps
<1>4. ASSUME NEW i \in 1 .. N, NEW d \in 1 .. N, Applies(loggers[i], n), Applies(loggers[d], n)
      PROVE  Better(loggers[i], n, name(d)) <=> NameLen(name(i)) > NameLen(name(d))
  <2> SUFFICES ASSUME name(i) = n, name(d) # n PROVE NameLen(name(i)) > NameLen(name(d))
    BY <1>1 DEF Better
  <2>1. CASE name(d) = Root
    BY <2>1, <1>2
  <2>2. CASE IsPrefix(name(d), n)
    <3>1. IsPrefix(n, n) /\ Len(n) \in Nat /\ Len(name(d)) \in Nat /\ Len(name(d)) <= Len(n)
      BY <1>1, <2>2, NameLens DEF Names, IsPrefix
    <3>2. /\ Len(name(d)) < Len(n) => NameLen(name(d)) < NameLen(n)
          /\ Len(name(d)) = Len(n) => name(d) = n
      <4> HIDE DEF name
      <4> QED
        BY <1>1, <2>2, <3>1, LongerPrefix
    <3> QED
      BY <3>1, <3>2, <1>1, NameLens
  <2> QED
    BY <1>4, <2>1, <2>2 DEF Applies
<1> DEFINE S == {i \in Nat : i \in 0 .. N => Longest(loggers, n, i, g[i])}
<1>5. 0 \in S
  BY <1>1, <1>3 DEF Longest
<1>6. ASSUME NEW i \in Nat, i \in S PROVE i + 1 \in S
  <2> SUFFICES ASSUME i + 1 \in 0 .. N PROVE Longest(loggers, n, i + 1, g[i + 1])
    OBVIOUS
  <2>1. i + 1 \in 1 .. N /\ i \in 0 .. N /\ (i + 1) - 1 = i
    BY <1>1
  <2> DEFINE c == g[i]
  <2>2. Longest(loggers, n, i, c) /\ c \in 0 .. i
    BY <1>6, <2>1 DEF Longest
  <2>3. g[i + 1] = IF /\ Applies(loggers[i + 1], n)
                      /\ Better(loggers[i + 1], n, IF c = 0 THEN <<>> ELSE name(c))
                   THEN i + 1 ELSE c
    BY <1>3, <2>1 DEF Next_Choice
  <2> HIDE DEF c, name
  <2>4. \A j \in 1 .. i + 1 : j \in 1 .. i \/ j = i + 1
    OBVIOUS
  <2>5. CASE ~Applies(loggers[i + 1], n)
    <3>1. g[i + 1] = c
      BY <2>3, <2>5
    <3> QED
      BY <2>2, <2>4, <2>5, <3>1 DEF Longest
  <2>6. CASE Applies(loggers[i + 1], n) /\ c = 0
    <3>1. Better(loggers[i + 1], n, <<>>)
      BY <1>1, <2>1, NameLens DEF Better, name
    <3>2. g[i + 1] = i + 1
      BY <2>3, <2>6, <3>1
    <3>3. \A j \in 1 .. i : ~Applies(loggers[j], n)
      BY <2>2, <2>6 DEF Longest
    <3> QED
      BY <2>1, <2>4, <2>6, <3>2, <3>3, <1>1 DEF Longest, name
  <2>7. CASE Applies(loggers[i + 1], n) /\ c # 0
    <3>1. c \in 1 .. i /\ c \in 1 .. N /\ Applies(loggers[c], n)
      BY <2>1, <2>2, <2>7 DEF Longest
    <3>2. Better(loggers[i + 1], n, name(c)) <=> NameLen(name(i + 1)) > NameLen(name(c))
      BY <1>4, <2>1, <2>7, <3>1
    <3>3. /\ NameLen(name(i + 1)) \in Nat /\ NameLen(name(c)) \in Nat
          /\ \A j \in 1 .. i : NameLen(name(j)) \in Nat
      BY <1>1, <2>1, <3>1
    <3>4. \A j \in 1 .. i : Applies(loggers[j], n) => /\ NameLen(name(j)) <= NameLen(name(c))
                                                      /\ j < c => name(j) # name(c)
      BY <2>2, <3>1 DEF Longest, name
    <3>5. CASE NameLen(name(i + 1)) > NameLen(name(c))
      <4>1. g[i + 1] = i + 1
        BY <2>3, <2>7, <3>2, <3>5
      <4>2. \A j \in 1 .. i : Applies(loggers[j], n) => NameLen(name(j)) < NameLen(name(i + 1))
        BY <3>3, <3>4, <3>5
      <4>3. \A j \in 1 .. i : Applies(loggers[j], n) => name(j) # name(i + 1)
        BY <4>2, <3>3
      <4> QED
        BY <2>4, <2>7, <3>3, <4>1, <4>2, <4>3 DEF Longest, name
    <3>6. CASE ~(NameLen(name(i + 1)) > NameLen(name(c)))
      <4>1. g[i + 1] = c
        BY <2>3, <2>7, <3>2, <3>6
      <4>2. NameLen(name(i + 1)) <= NameLen(name(c)) /\ ~(i + 1 < c)
        BY <3>1, <3>3, <3>6
      <4> QED
        BY <2>2, <2>4, <2>7, <3>1, <3>4, <4>1, <4>2 DEF Longest, name
    <3> QED
      BY <3>5, <3>6
  <2> QED
    BY <2>5, <2>6, <2>7
<1>7. Nat \subseteq S
  <2> HIDE DEF S
  <2> QED
    BY <1>5, <1>6, SetInduction
<1>8. Longest(loggers, n, N, g[N])
  BY <1>1, <1>7
<1> QED
  BY <1>3, <1>8

Distinct(loggers) ==
    \A i, j \in 1 .. Len(loggers) : loggers[i].name = loggers[j].name => i = j

\* Where names are distinct, the longest is the closest ancestor.
LEMMA LongestIsClosest ==
    ASSUME NEW loggers, Named(loggers), LongNames(loggers), Distinct(loggers),
           NEW n \in Names, NEW c, Longest(loggers, n, Len(loggers), c)
    PROVE  Closest(loggers, n) = IF c = 0 THEN {} ELSE {loggers[c]}
<1> DEFINE above == {lc \in Range(loggers) : IsPrefix(lc.name, n)}
<1> DEFINE furthest(lc) == \A o \in above : Len(o.name) <= Len(lc.name)
<1> DEFINE roots == {lc \in Range(loggers) : lc.name = Root}
<1>1. \A lc \in Range(loggers) : \E i \in 1 .. Len(loggers) : lc = loggers[i]
  BY DEF Range, Named
<1>2. \A i \in 1 .. Len(loggers) : loggers[i] \in Range(loggers) /\ loggers[i].name \in Names
  BY DEF Range, Named
<1>3. Closest(loggers, n) = IF above # {} THEN {CHOOSE lc \in above : furthest(lc)} ELSE roots
  BY DEF Closest
<1>4. \A lc \in above \cup roots : Applies(lc, n)
  BY DEF Applies
<1>5. CASE c = 0
  <2>1. above = {} /\ roots = {}
    BY <1>1, <1>4, <1>5 DEF Longest
  <2> QED
    BY <1>3, <1>5, <2>1
<1>6. CASE c # 0
  <2> DEFINE best == loggers[c]
  <2>1. /\ c \in 1 .. Len(loggers) /\ Applies(best, n)
        /\ \A j \in 1 .. Len(loggers) : Applies(loggers[j], n) => NameLen(loggers[j].name) <= NameLen(best.name)
    BY <1>6 DEF Longest, Named
  <2>2. \A lc \in above \cup roots : lc.name \in Names /\ NameLen(lc.name) <= NameLen(best.name)
    BY <1>1, <1>2, <1>4, <2>1
  <2>3. \A lc \in Range(loggers) : lc.name = best.name => lc = best
    BY <1>1, <2>1 DEF Distinct
  <2>4. best \in Range(loggers) /\ best.name \in Names /\ NameLen(best.name) \in Nat
    BY <1>2, <2>1, NameLens
  <2> HIDE DEF best
  <2>5. Closest(loggers, n) = {best}
    <3>1. CASE above = {}
      <4>1. best.name = Root
        BY <2>1, <2>4, <3>1 DEF Applies
      <4>2. best \in roots /\ \A lc \in roots : lc = best
        BY <2>3, <2>4, <4>1
      <4> QED
        BY <1>3, <3>1, <4>2
    <3>2. CASE above # {}
      <4>1. best \in above
        <5>1. SUFFICES ASSUME ~IsPrefix(best.name, n) PROVE FALSE
          BY <2>4
        <5>2. best.name = Root
          BY <2>1, <5>1 DEF Applies
        <5>3. PICK o \in above : TRUE
          BY <3>2
        <5>4. o.name # Root /\ o \in Range(loggers)
          BY <5>1, <5>2
        <5>5. NameLen(o.name) > NameLen(Root) /\ NameLen(o.name) \in Nat /\ NameLen(Root) \in Nat
          BY <2>2, <5>4, NameLens DEF LongNames
        <5> QED
          BY <2>2, <5>2, <5>5
      <4>2. ASSUME NEW lc \in above
            PROVE  Len(lc.name) <= Len(best.name) /\ (Len(best.name) <= Len(lc.name) => lc = best)
        <5>1. /\ lc.name \in Names /\ IsPrefix(lc.name, n) /\ IsPrefix(best.name, n)
              /\ NameLen(lc.name) <= NameLen(best.name) /\ lc \in Range(loggers)
          BY <2>2, <4>1
        <5>2. /\ Len(best.name) < Len(lc.name) => NameLen(best.name) < NameLen(lc.name)
              /\ Len(best.name) = Len(lc.name) => best.name = lc.name
              /\ NameLen(lc.name) \in Nat
          BY <2>4, <5>1, LongerPrefix, NameLens
        <5>3. Len(lc.name) \in Nat /\ Len(best.name) \in Nat
          BY <2>4, <5>1 DEF Names
        <5>4. Len(lc.name) <= Len(best.name)
          BY <2>4, <5>1, <5>2, <5>3
        <5> QED
          BY <2>3, <5>1, <5>2, <5>3, <5>4
      <4>3. furthest(best)
        BY <4>2
      <4>4. (CHOOSE lc \in above : furthest(lc)) \in above /\ furthest(CHOOSE lc \in above : furthest(lc))
        <5> HIDE DEF above, furthest
        <5> QED
          BY <4>1, <4>3
      <4>5. (CHOOSE lc \in above : furthest(lc)) = best
        <5> DEFINE x == CHOOSE lc \in above : furthest(lc)
        <5>1. x \in above /\ furthest(x)
          BY <4>4
        <5> HIDE DEF x
        <5>2. Len(best.name) <= Len(x.name)
          BY <4>1, <5>1
        <5>3. x = best
          BY <4>2, <5>1, <5>2
        <5> QED
          BY <5>3 DEF x
      <4> QED
        BY <1>3, <3>2, <4>5
    <3> QED
      BY <3>1, <3>2
  <2> QED
    BY <1>6, <2>5 DEF best
<1> QED
  BY <1>5, <1>6

-------------------------------------------------------------------------------
(* Logging: the invariant.                                                 *)

\* In no configuration are two loggers of one name, and none names the sink that
\* AddPluginSink is to make.
PlainConfigs ==
    \A c \in LogConfigs :
        /\ Distinct(c.loggers)
        /\ \A i \in 1 .. Len(c.loggers) : "plugin.p" \notin c.loggers[i].sinks

Levels == {-8, -4, 0, 4, 8, 12}
Bases == {<<>>} \cup {c.loggers : c \in LogConfigs}
HandInv(h, loggers, base, sinks) ==
    /\ h.name \in LogNames /\ h.level \in Levels
    /\ LongNames(loggers) => Follows(h, loggers, sinks) \/ Follows(h, base, sinks)
\* Until AddPluginSink has made its sink the loggers are those configured, and afterwards
\* there is at most its own besides; what is cached was right when it was cached.
LogInv ==
    /\ logging = [pc |-> logging.pc, base |-> logging.base, loggers |-> logging.loggers,
                  sinks |-> logging.sinks, resolved |-> logging.resolved,
                  threads |-> logging.threads, hands |-> logging.hands]
    /\ logging.pc \in {"idle", "running", "adding"}
    /\ logging.threads \in [LogThreads -> {Caller} \cup [pc : {"miss"}, name : LogNames]]
    /\ logging.base \in Bases
    /\ logging.loggers \in {logging.base, Append(logging.base, PluginLogger)}
    /\ logging.pc = "adding" => logging.loggers = logging.base
    /\ logging.pc = "adding" => "plugin.p" \in logging.sinks
    /\ "plugin.p" \notin logging.sinks => logging.loggers = logging.base
    /\ logging.pc = "idle" => /\ logging.resolved = <<>> /\ logging.hands = {}
                              /\ \A t \in LogThreads : logging.threads[t].pc # "miss"
    /\ \A n \in DOMAIN logging.resolved :
          HandInv(Hand(n, logging.resolved[n], "Logger"), logging.loggers, logging.base, logging.sinks)
    /\ \A h \in logging.hands :
          /\ HandInv(h, logging.loggers, logging.base, logging.sinks)
          /\ h.via = "Logger" => /\ h.name \in DOMAIN logging.resolved
                                 /\ h = Hand(h.name, logging.resolved[h.name], "Logger")

LEMMA BasesAreNamed ==
    ASSUME PlainConfigs, NEW base \in Bases, NEW loggers \in {base, Append(base, PluginLogger)}
    PROVE  /\ Named(base) /\ Named(loggers) /\ Distinct(base)
           /\ \A i \in 1 .. Len(base) : "plugin.p" \notin base[i].sinks
           /\ LongNames(loggers) => LongNames(base)
           /\ Len(loggers) \in {Len(base), Len(base) + 1}
           /\ loggers # base => /\ Len(loggers) = Len(base) + 1 /\ loggers[Len(loggers)] = PluginLogger
           /\ \A i \in 1 .. Len(base) : loggers[i] = base[i]
<1>1. /\ base \in Seq(Range(base))
      /\ \A i \in 1 .. Len(base) : base[i].name \in Names
  <2>1. CASE base = <<>>
    BY <2>1
  <2>2. CASE \E c \in LogConfigs : base = c.loggers
    <3>1. base \in Seq(Range(base)) /\ \A lc \in Range(base) : lc.name \in Names
      BY <2>2, LoggingAssumption DEF Names
    <3>2. \A i \in 1 .. Len(base) : base[i] \in Range(base)
      BY <3>1 DEF Range
    <3> QED
      BY <3>1, <3>2
  <2> QED
    BY <2>1, <2>2 DEF Bases
<1>2. Distinct(base) /\ \A i \in 1 .. Len(base) : "plugin.p" \notin base[i].sinks
  <2>1. CASE base = <<>>
    BY <2>1 DEF Distinct
  <2>2. CASE \E c \in LogConfigs : base = c.loggers
    BY <2>2 DEF PlainConfigs
  <2> QED
    BY <2>1, <2>2 DEF Bases
<1>3. Len(base) \in Nat /\ DOMAIN base = 1 .. Len(base)
  BY <1>1
<1>4. CASE loggers = base
  BY <1>1, <1>2, <1>3, <1>4 DEF Named
<1>5. CASE loggers = Append(base, PluginLogger)
  <2>1. /\ Len(loggers) = Len(base) + 1 /\ DOMAIN loggers = 1 .. Len(loggers)
        /\ loggers[Len(loggers)] = PluginLogger
        /\ \A i \in 1 .. Len(base) : loggers[i] = base[i]
    <3> DEFINE T == Range(base) \cup {PluginLogger}
    <3>1. base \in Seq(T) /\ PluginLogger \in T
      BY <1>1
    <3> HIDE DEF T
    <3> QED
      BY <1>5, <3>1
  <2>2. PluginLogger.name \in Names
    BY LoggingAssumption DEF Names, PluginLogger
  <2>3. \A i \in 1 .. Len(loggers) : i \in 1 .. Len(base) \/ i = Len(loggers)
    BY <1>3, <2>1
  <2>4. Named(loggers)
    BY <1>1, <1>3, <2>1, <2>2, <2>3 DEF Named
  <2>5. Range(base) \subseteq Range(loggers)
    <3>1. \A i \in DOMAIN base : i \in DOMAIN loggers /\ loggers[i] = base[i]
      BY <1>3, <2>1
    <3> QED
      BY <3>1 DEF Range
  <2> QED
    BY <1>1, <1>2, <1>3, <2>1, <2>4, <2>5 DEF Named, LongNames
<1> QED
  BY <1>4, <1>5

\* What resolve finds is of the closest ancestor: of those that are configured when the
\* plugin's own logger comes after one of its name, and of all of them otherwise.
LEMMA ResolvedIsRight ==
    ASSUME PlainConfigs, NEW base \in Bases, NEW loggers \in {base, Append(base, PluginLogger)},
           NEW sinks, NEW n \in LogNames, NEW via
    PROVE  HandInv(Hand(n, resolve(loggers, sinks, n), via), loggers, base, sinks)
<1> DEFINE r == resolve(loggers, sinks, n)
<1> DEFINE h == Hand(n, r, via)
<1>1. /\ Named(base) /\ Named(loggers) /\ Distinct(base) /\ n \in Names
      /\ LongNames(loggers) => LongNames(base)
      /\ Len(loggers) \in {Len(base), Len(base) + 1}
      /\ loggers # base => Len(loggers) = Len(base) + 1 /\ loggers[Len(loggers)] = PluginLogger
      /\ \A i \in 1 .. Len(base) : loggers[i] = base[i]
      /\ Len(base) \in Nat
  <2>1. n \in Names
    BY LoggingAssumption DEF Names
  <2>2. Named(base) => Len(base) \in Nat
    BY DEF Named
  <2> QED
    BY ZenonT(60), <2>1, <2>2, BasesAreNamed
<1>2. h.name = n /\ h.level = r.level /\ h.sinks = r.sinks
  BY DEF Hand
<1>3. r.level \in Levels
  <2>1. \E c : r = Outcome(loggers, sinks, c)
    <3>1. Len(loggers) \in Nat
      BY Zenon, <1>1 DEF Named
    <3>2. PICK g : r = Outcome(loggers, sinks, g[Len(loggers)])
      BY <3>1, ChoiceSteps
    <3> QED
      BY SMTT(30), <3>2
  <2>2. \A s : ParseLevel(s) \in Levels
    BY DEF ParseLevel, Levels
  <2>3. PICK c : r = Outcome(loggers, sinks, c)
    BY <2>1
  <2>4. r.level = IF c = 0 THEN 0 ELSE ParseLevel(loggers[c].level)
    <3> HIDE DEF r
    <3> QED
      BY <2>3 DEF Outcome
  <2> QED
    BY <2>2, <2>4 DEF Levels
<1>4. ASSUME LongNames(loggers) PROVE Follows(h, loggers, sinks) \/ Follows(h, base, sinks)
  <2>1. PICK c : Longest(loggers, n, Len(loggers), c) /\ r = Outcome(loggers, sinks, c)
    BY <1>1, <1>4, ChoiceIsLongest
  <2>2. ASSUME NEW l \in {loggers, base}, Closest(l, n) = IF c = 0 THEN {} ELSE {loggers[c]}
        PROVE  Follows(h, l, sinks)
    <3>1. CASE c = 0
      BY <1>2, <2>2, <3>1 DEF Follows
    <3>2. CASE c # 0
      <4>1. /\ r.level = ParseLevel(loggers[c].level)
            /\ r.sinks = IF loggers[c].sinks \cap sinks = {} THEN sinks ELSE loggers[c].sinks \cap sinks
        BY <2>1, <3>2 DEF Outcome
      <4>2. \A lc \in Closest(l, n) : lc = loggers[c]
        BY <2>2, <3>2
      <4>3. r.sinks \subseteq loggers[c].sinks \/ loggers[c].sinks \cap sinks = {}
        BY <4>1
      <4> HIDE DEF r, h
      <4> QED
        BY <1>2, <4>1, <4>2, <4>3 DEF Follows
    <3> QED
      BY <3>1, <3>2
  <2>3. CASE Distinct(loggers)
    BY <1>1, <1>4, <2>1, <2>2, <2>3, LongestIsClosest
  <2>4. CASE ~Distinct(loggers)
    <3>1. loggers # base /\ Len(loggers) = Len(base) + 1 /\ loggers[Len(loggers)] = PluginLogger
      BY <1>1, <2>4
    <3>2. PICK j \in 1 .. Len(base) : base[j].name = PluginLogger.name
      <4>1. PICK i, k \in 1 .. Len(loggers) : i # k /\ loggers[i].name = loggers[k].name
        BY <2>4 DEF Distinct
      <4>2. \A m \in 1 .. Len(loggers) : m \in 1 .. Len(base) \/ m = Len(loggers)
        BY <1>1, <3>1 DEF Named
      <4>3. ~(i \in 1 .. Len(base) /\ k \in 1 .. Len(base))
        BY <1>1, <4>1 DEF Distinct
      <4> QED
        BY <1>1, <3>1, <4>1, <4>2, <4>3
    <3>3. c \in 0 .. Len(base)
      <4>1. SUFFICES ASSUME c = Len(loggers) PROVE FALSE
        BY SMTT(30), <1>1, <2>1, <3>1 DEF Longest, Named
      <4>2. c # 0 /\ j < c /\ loggers[c] = PluginLogger /\ j \in 1 .. Len(loggers) /\ loggers[j].name = loggers[c].name
        BY <1>1, <3>1, <3>2, <4>1 DEF Named
      <4>3. Applies(loggers[j], n)
        BY <2>1, <4>2 DEF Longest, Applies
      <4> QED
        BY <2>1, <4>2, <4>3 DEF Longest
    <3>4. Longest(base, n, Len(base), c)
      <4>1. \A i \in 1 .. Len(base) : i \in 1 .. Len(loggers) /\ loggers[i] = base[i]
        BY <1>1, <3>1 DEF Named
      <4>2. c # 0 => c \in 1 .. Len(base)
        BY <1>1, <3>3
      <4> QED
        BY <2>1, <3>3, <4>1, <4>2 DEF Longest
    <3>5. Closest(base, n) = IF c = 0 THEN {} ELSE {base[c]}
      BY <1>1, <1>4, <3>4, LongestIsClosest
    <3>6. c # 0 => loggers[c] = base[c]
      <4>1. c # 0 => c \in 1 .. Len(base)
        BY <1>1, <3>3
      <4> QED
        BY <1>1, <4>1
    <3> QED
      BY <2>2, <3>5, <3>6
  <2> QED
    BY <2>3, <2>4
<1> QED
  BY <1>2, <1>3, <1>4 DEF HandInv

\* The sink that AddPluginSink makes is none that a configured logger asked for.
LEMMA SinkAdded ==
    ASSUME PlainConfigs, NEW base \in Bases, NEW sinks, NEW h, HandInv(h, base, base, sinks)
    PROVE  HandInv(h, base, base, sinks \cup {"plugin.p"})
<1>1. SUFFICES ASSUME LongNames(base), Follows(h, base, sinks)
               PROVE  Follows(h, base, sinks \cup {"plugin.p"})
  BY DEF HandInv
<1>2. /\ Named(base) /\ Distinct(base) /\ h.name \in Names
      /\ \A i \in 1 .. Len(base) : "plugin.p" \notin base[i].sinks
  BY BasesAreNamed, LoggingAssumption DEF Names, HandInv
<1>3. PICK c : Longest(base, h.name, Len(base), c)
  BY <1>1, <1>2, ChoiceIsLongest
<1>4. Closest(base, h.name) = IF c = 0 THEN {} ELSE {base[c]}
  BY <1>1, <1>2, <1>3, LongestIsClosest
<1>5. \A lc \in Closest(base, h.name) : "plugin.p" \notin lc.sinks
  BY <1>2, <1>3, <1>4 DEF Longest, Named
<1> QED
  BY <1>1, <1>5 DEF Follows

LEMMA LoggerAdded ==
    ASSUME PlainConfigs, NEW base \in Bases, NEW sinks, NEW h, HandInv(h, base, base, sinks)
    PROVE  HandInv(h, Append(base, PluginLogger), base, sinks)
<1>1. LongNames(Append(base, PluginLogger)) => LongNames(base)
  BY BasesAreNamed
<1> QED
  BY <1>1 DEF HandInv

LEMMA LogInvInit == LoggingInit => LogInv
<1> SUFFICES ASSUME LoggingInit PROVE LogInv
  OBVIOUS
<1>1. logging = NoLogging
  BY DEF LoggingInit
<1> QED
  BY <1>1 DEF LogInv, NoLogging, Bases, Caller

LEMMA LogInvStep ==
    ASSUME PlainConfigs, LogInv, LoggingNext PROVE LogInv'
<1> DEFINE Shape(l) ==
      l = [pc |-> l.pc, base |-> l.base, loggers |-> l.loggers, sinks |-> l.sinks,
           resolved |-> l.resolved, threads |-> l.threads, hands |-> l.hands]
<1> DEFINE InHand(h) == HandInv(h, logging.loggers, logging.base, logging.sinks)
<1> DEFINE FromCache(h) ==
      h.via = "Logger" => h.name \in DOMAIN logging.resolved /\ h = Hand(h.name, logging.resolved[h.name], "Logger")
<1>1. /\ Shape(logging) /\ logging.base \in Bases
      /\ logging.loggers \in {logging.base, Append(logging.base, PluginLogger)}
      /\ \A h \in logging.hands : InHand(h) /\ FromCache(h)
      /\ \A n \in DOMAIN logging.resolved : InHand(Hand(n, logging.resolved[n], "Logger"))
  BY DEF LogInv
<1>2. \A n, r, via : Hand(n, r, via).name = n /\ Hand(n, r, via).via = via
  BY DEF Hand
<1>3. CASE Configure
  <2>1. PICK c \in LogConfigs :
           logging' = [logging EXCEPT !.pc = "running", !.base = c.loggers, !.loggers = c.loggers,
                                      !.sinks = buildSinks(c.sinks)]
    BY Zenon, <1>3 DEF Configure
  <2>2. /\ Shape(logging') /\ logging'.pc = "running" /\ logging'.base = c.loggers
        /\ logging'.loggers = c.loggers
        /\ logging'.resolved = logging.resolved /\ logging'.threads = logging.threads /\ logging'.hands = logging.hands
    BY <1>1, <2>1
  <2>3. logging.resolved = <<>> /\ logging.hands = {}
    BY <1>3 DEF Configure, LogInv
  <2> QED
    BY <2>2, <2>3 DEF LogInv, Bases
<1>4. ASSUME NEW t \in LogThreads, NEW n \in LogNames, LoggerFromCache(t, n) PROVE LogInv'
  <2>1. CASE n \in DOMAIN logging.resolved
    <3>1. logging' = [logging EXCEPT !.hands = @ \cup {Hand(n, logging.resolved[n], "Logger")}]
      BY <1>4, <2>1 DEF LoggerFromCache
    <3>2. /\ Shape(logging') /\ logging'.hands = logging.hands \cup {Hand(n, logging.resolved[n], "Logger")}
          /\ logging'.pc = logging.pc /\ logging'.base = logging.base /\ logging'.loggers = logging.loggers
          /\ logging'.sinks = logging.sinks /\ logging'.resolved = logging.resolved /\ logging'.threads = logging.threads
      BY <1>1, <3>1
    <3>3. InHand(Hand(n, logging.resolved[n], "Logger")) /\ FromCache(Hand(n, logging.resolved[n], "Logger"))
      BY <1>1, <1>2, <2>1
    <3>4. logging.pc # "idle"
      BY <1>4 DEF LoggerFromCache
    <3> QED
      BY <3>2, <3>3, <3>4 DEF LogInv
  <2>2. CASE n \notin DOMAIN logging.resolved
    <3>1. logging' = [logging EXCEPT !.threads[t] = [pc |-> "miss", name |-> n]]
      BY <1>4, <2>2 DEF LoggerFromCache
    <3>2. /\ Shape(logging') /\ logging'.threads = [logging.threads EXCEPT ![t] = [pc |-> "miss", name |-> n]]
          /\ logging'.pc = logging.pc /\ logging'.base = logging.base /\ logging'.loggers = logging.loggers
          /\ logging'.sinks = logging.sinks /\ logging'.resolved = logging.resolved /\ logging'.hands = logging.hands
      BY <1>1, <3>1
    <3>3. logging'.pc # "idle"
      BY <1>4, <3>2 DEF LoggerFromCache
    <3>4. logging'.threads \in [LogThreads -> {Caller} \cup [pc : {"miss"}, name : LogNames]]
      BY <3>2 DEF LogInv
    <3> QED
      BY <3>2, <3>3, <3>4 DEF LogInv
  <2> QED
    BY <2>1, <2>2
<1>5. ASSUME NEW t \in LogThreads, LoggerResolves(t) PROVE LogInv'
  <2> DEFINE n == logging.threads[t].name
  <2> DEFINE r == IF Cached(n) THEN logging.resolved[n] ELSE Resolved(n)
  <2> DEFINE h == Hand(n, r, "Logger")
  <2>1. /\ n \in LogNames
        /\ logging' = [logging EXCEPT !.resolved = [m \in DOMAIN @ \cup {n} |-> IF m = n THEN r ELSE @[m]],
                                        !.threads[t] = Caller, !.hands = @ \cup {h}]
    BY <1>5, <1>1 DEF LoggerResolves, LogInv, Caller
  <2> HIDE DEF n
  <2>2. InHand(h)
    <3>1. CASE Cached(n)
      BY <1>1, <3>1 DEF Cached
    <3>2. CASE ~Cached(n)
      BY <1>1, <2>1, <3>2, ResolvedIsRight DEF Resolved
    <3> QED
      BY <3>1, <3>2
  <2>3. n \in DOMAIN logging.resolved => r = logging.resolved[n]
    BY DEF Cached
  <2> HIDE DEF r
  <2>4. /\ Shape(logging') /\ logging'.resolved = [m \in DOMAIN logging.resolved \cup {n} |-> IF m = n THEN r ELSE logging.resolved[m]]
        /\ logging'.threads = [logging.threads EXCEPT ![t] = Caller] /\ logging'.hands = logging.hands \cup {h}
        /\ logging'.pc = logging.pc /\ logging'.base = logging.base /\ logging'.loggers = logging.loggers /\ logging'.sinks = logging.sinks
    BY <1>1, <2>1
  <2>5. /\ DOMAIN logging'.resolved = {n} \cup DOMAIN logging.resolved /\ logging'.resolved[n] = r
        /\ \A m \in DOMAIN logging.resolved : logging'.resolved[m] = logging.resolved[m]
    BY <2>3, <2>4
  <2>6. \A g \in logging'.hands :
           /\ InHand(g)
           /\ g.via = "Logger" => /\ g.name \in DOMAIN logging'.resolved
                                  /\ g = Hand(g.name, logging'.resolved[g.name], "Logger")
    BY <1>1, <1>2, <2>2, <2>4, <2>5
  <2>7. \A m \in DOMAIN logging'.resolved : InHand(Hand(m, logging'.resolved[m], "Logger"))
    BY <1>1, <2>2, <2>5
  <2>8. logging.pc # "idle"
    BY <1>5 DEF LoggerResolves, LogInv
  <2> QED
    BY ZenonT(60), <2>4, <2>6, <2>7, <2>8 DEF LogInv
<1>6. ASSUME NEW g \in logging.hands, NEW n \in LogNames, Child(g, n) PROVE LogInv'
  <2> DEFINE h == Hand(n, Resolved(n), "Child")
  <2>1. logging' = [logging EXCEPT !.hands = @ \cup {h}]
    BY <1>6 DEF Child
  <2>2. InHand(h) /\ FromCache(h)
    BY ZenonT(60), <1>1, <1>2, ResolvedIsRight DEF Resolved
  <2> HIDE DEF h
  <2>3. /\ Shape(logging') /\ logging'.hands = logging.hands \cup {h}
        /\ logging'.pc = logging.pc /\ logging'.base = logging.base /\ logging'.loggers = logging.loggers
        /\ logging'.sinks = logging.sinks /\ logging'.resolved = logging.resolved /\ logging'.threads = logging.threads
    BY <1>1, <2>1
  <2>4. logging.pc # "idle"
    BY <1>6 DEF LogInv
  <2> QED
    BY <2>2, <2>3, <2>4 DEF LogInv
<1>7. CASE AddPluginSink
  <2>1. /\ "plugin.p" \notin logging.sinks
        /\ logging' = [logging EXCEPT !.pc = "adding", !.sinks = @ \cup {"plugin.p"}]
    BY <1>7 DEF AddPluginSink
  <2>2. /\ Shape(logging') /\ logging'.pc = "adding" /\ logging'.sinks = logging.sinks \cup {"plugin.p"}
        /\ logging'.base = logging.base /\ logging'.loggers = logging.loggers /\ logging'.resolved = logging.resolved
        /\ logging'.threads = logging.threads /\ logging'.hands = logging.hands
    BY <1>1, <2>1
  <2>3. logging.loggers = logging.base
    BY <2>1 DEF LogInv
  <2>4. \A h : InHand(h) => HandInv(h, logging.base, logging.base, logging'.sinks)
    BY <1>1, <2>2, <2>3, SinkAdded
  <2> QED
    BY <2>2, <2>3, <2>4 DEF LogInv
<1>8. CASE AddPluginLogger
  <2>1. /\ logging.pc = "adding"
        /\ logging' = [logging EXCEPT !.pc = "running", !.loggers = Append(@, PluginLogger)]
    BY <1>8 DEF AddPluginLogger
  <2>2. /\ Shape(logging') /\ logging'.pc = "running" /\ logging'.loggers = Append(logging.loggers, PluginLogger)
        /\ logging'.base = logging.base /\ logging'.sinks = logging.sinks /\ logging'.resolved = logging.resolved
        /\ logging'.threads = logging.threads /\ logging'.hands = logging.hands
    BY <1>1, <2>1
  <2>3. logging.loggers = logging.base
    BY <2>1 DEF LogInv
  <2>4. \A h : InHand(h) => HandInv(h, logging'.loggers, logging.base, logging.sinks)
    BY <1>1, <2>2, <2>3, LoggerAdded
  <2>5. "plugin.p" \in logging.sinks
    BY <2>1 DEF LogInv
  <2> QED
    BY <2>2, <2>3, <2>4, <2>5 DEF LogInv
<1> QED
  BY <1>3, <1>4, <1>5, <1>6, <1>7, <1>8 DEF LoggingNext

\* What slog asks for and what it writes agree with the levels.
LEMMA SlogLevels ==
    ASSUME NEW h, h.level \in Levels \ {12}, NEW l \in {-8, -4, 0, 4, 8}
    PROVE  SlogWrites(h, l) <=> l >= h.level
  BY DEF SlogWrites, Enabled, EnabledAs, HandledAs, Levels

\* Whatever is configured, as long as no two configured loggers have one name and none names
\* the sink of a plugin that is still to be added: a logger has the level and the sinks of
\* its closest configured ancestor, for any names, callers and interleaving of Logger,
\* Child and AddPluginSink; all who ask for one name get the same; and slog's records are
\* written exactly from the logger's level on.
THEOREM LoggersFollowTheirConfigurationHolds ==
    PlainConfigs => (LoggingSpec => []LoggersFollowTheirConfiguration)
<1> SUFFICES ASSUME PlainConfigs PROVE LoggingSpec => []LoggersFollowTheirConfiguration
  OBVIOUS
<1>1. LogInv /\ [LoggingNext]_logging => LogInv'
  <2> SUFFICES ASSUME LogInv, [LoggingNext]_logging PROVE LogInv'
    OBVIOUS
  <2>1. CASE LoggingNext
    BY <2>1, LogInvStep
  <2>2. CASE UNCHANGED logging
    BY <2>2 DEF LogInv
  <2> QED
    BY <2>1, <2>2
<1>2. LogInv => LoggersFollowTheirConfiguration
  <2> SUFFICES ASSUME LogInv PROVE LoggersFollowTheirConfiguration
    OBVIOUS
  <2>1. \A h \in logging.hands :
           /\ HandInv(h, logging.loggers, logging.base, logging.sinks)
           /\ h.via = "Logger" => h = Hand(h.name, logging.resolved[h.name], "Logger")
    BY DEF LogInv
  <2>2. \A h \in logging.hands : LongNames(logging.loggers) =>
           Follows(h, logging.loggers, logging.sinks) \/ Follows(h, logging.base, logging.sinks)
    BY <2>1 DEF HandInv
  <2>3. \A h, g \in logging.hands : h.via = "Logger" /\ g.via = "Logger" /\ h.name = g.name => h = g
    BY <2>1
  <2>4. \A h \in logging.hands, l \in {-8, -4, 0, 4, 8} : h.level # 12 => (SlogWrites(h, l) <=> l >= h.level)
    BY <2>1, SlogLevels DEF HandInv
  <2> QED
    BY <2>2, <2>3, <2>4 DEF LoggersFollowTheirConfiguration
<1> QED
  BY <1>1, <1>2, LogInvInit, PTL DEF LoggingSpec
================================================================================
