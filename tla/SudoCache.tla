------------------------------- MODULE SudoCache -------------------------------
(***************************************************************************)
(* The sudo password cache of one session (daemon/session.go) and the      *)
(* calls that use it: Exec, ExecStream and SudoExec with sudo (exec.go),   *)
(* Connect and NegotiateKey, which set its key, and FinalizeSession.       *)
(*                                                                         *)
(* GetSudoCache and SetSudoCache are each several critical sections of     *)
(* Session.mu, and what they take out of one they use in the next: a slice *)
(* of the cached bytes, a copy of the key, a deadline.  Zeroing is done in *)
(* place, so a slice that was read before sees it.  The memory that holds  *)
(* passwords is modelled for that reason.                                  *)
(***************************************************************************)
EXTENDS Naturals

CONSTANTS Threads,  \* goroutines that serve RPCs
          Blobs,    \* byte slices for passwords
          Keys,     \* keys that clients negotiate
          TTL,      \* lifetime of a cached password
          MaxTime   \* bound on the clock

NoBlob  == "none"
NoKey   == "nokey"
ZeroKey == "zerokey"   \* a key whose bytes were zeroed
\* A password slice whose bytes were zeroed, or that is not in use.
Zeroed == [key |-> "zeroed", right |-> FALSE, unproved |-> FALSE]

ASSUME CacheAssumption ==
    /\ NoBlob \notin Blobs
    /\ {NoKey, ZeroKey, Zeroed.key} \cap Keys = {}
    /\ TTL \in Nat
    /\ MaxTime \in Nat

VARIABLES
    now,
    finalized,     \* Session.finalized
    sudoPassword,  \* Session.sudoPassword: a slice, or NoBlob
    sudoExpiresAt, \* Session.sudoExpiresAt; 0 is the zero time
    sudoCacheKey,  \* Session.sudoCacheKey, or NoKey
    sharedKey,     \* Session.sharedKeyCache["sudo"], or NoKey
    heap,          \* heap[b]: what the slice holds
    cachePc, sudoCall \* each thread's control state and local variables

cache == <<sudoPassword, sudoExpiresAt>>
cacheKeys == <<sudoCacheKey, sharedKey>>
cacheVars == <<now, finalized, cache, cacheKeys, heap, cachePc, sudoCall>>

Times == 0 .. MaxTime + TTL
AnyKey == Keys \cup {NoKey, ZeroKey}

\* A password slice: the key it is encrypted with, whether it is the password that
\* sudo accepts, and whether it was cached without sudo having looked at it.
Secret == [key : AnyKey, right : BOOLEAN, unproved : BOOLEAN]

\* blob: the slice read from, or to be put into, the cache; key: the key copied
\* or negotiated; right: whether the password at hand is right; unproved: whether it is
\* to be cached without sudo having looked at it; expires: the deadline computed.
NoCall == [blob |-> NoBlob, key |-> NoKey, right |-> FALSE, unproved |-> FALSE, expires |-> 0]

CacheInit ==
    /\ now = 0
    /\ finalized = FALSE
    /\ sudoPassword = NoBlob
    /\ sudoExpiresAt = 0
    /\ sudoCacheKey = NoKey
    /\ sharedKey = NoKey
    /\ heap = [b \in Blobs |-> Zeroed]
    /\ cachePc = [t \in Threads |-> "idle"]
    /\ sudoCall = [t \in Threads |-> NoCall]

CacheGoto(t, l) == cachePc' = [cachePc EXCEPT ![t] = l]
CacheReturn(t) == CacheGoto(t, "idle") /\ sudoCall' = [sudoCall EXCEPT ![t] = NoCall]

\* zeroBytes of the cached slice, if there is one, in a heap h.
ZeroPassword(h) == [b \in Blobs |-> IF b = sudoPassword THEN Zeroed ELSE h[b]]

\* getEncryptionKey: the expiry of the shared key is not looked at.
getEncryptionKey == IF sudoCacheKey # NoKey THEN sudoCacheKey ELSE sharedKey

-------------------------------------------------------------------------------
(* GetSudoCache and ClearSudoCache, called by tryCachedSudo.               *)

\* A sudo call begins.  sudo -n asks for a password; SudoExec may come with one.
Call(t) ==
    /\ cachePc[t] = "idle"
    /\ ~finalized
    /\ \E l \in {"get", "prompt"} : CacheGoto(t, l)
    /\ UNCHANGED <<now, finalized, cache, cacheKeys, heap, sudoCall>>

GetSudoCache(t) ==
    /\ cachePc[t] = "get"
    /\ \/ sudoPassword = NoBlob /\ CacheGoto(t, "prompt") /\ UNCHANGED sudoCall
       \/ /\ sudoPassword # NoBlob
          /\ now > sudoExpiresAt
          /\ CacheGoto(t, "clear") /\ UNCHANGED sudoCall
       \/ /\ sudoPassword # NoBlob
          /\ now <= sudoExpiresAt
          /\ CacheGoto(t, "key")
          /\ sudoCall' = [sudoCall EXCEPT ![t].blob = sudoPassword]
    /\ UNCHANGED <<now, finalized, cache, cacheKeys, heap>>

CopyKey(t) ==
    /\ cachePc[t] = "key"
    /\ sudoCall' = [sudoCall EXCEPT ![t].key = getEncryptionKey]
    /\ CacheGoto(t, "decrypt")
    /\ UNCHANGED <<now, finalized, cache, cacheKeys, heap>>

\* Without a key, the bytes are taken for the password, whatever they are; with
\* one, decryption fails unless they were encrypted with it.
decryptSudoPassword(t) ==
    LET k == sudoCall[t].key
        m == heap[sudoCall[t].blob] IN
    /\ cachePc[t] = "decrypt"
    /\ \/ /\ k # NoKey
          /\ m.key # k
          /\ CacheGoto(t, "clear") /\ UNCHANGED sudoCall
       \/ /\ k \in {NoKey, m.key}
          /\ CacheGoto(t, "cached")
          /\ sudoCall' = [sudoCall EXCEPT ![t] = [@ EXCEPT !.blob = NoBlob, !.key = NoKey,
                                   !.right = m.right /\ m.key = k]]
    /\ UNCHANGED <<now, finalized, cache, cacheKeys, heap>>

ClearSudoCache(t) ==
    /\ cachePc[t] = "clear"
    /\ heap' = ZeroPassword(heap)
    /\ sudoPassword' = NoBlob
    /\ sudoExpiresAt' = 0
    /\ sudoCacheKey' = NoKey
    /\ CacheGoto(t, "prompt")
    /\ sudoCall' = [sudoCall EXCEPT ![t] = NoCall]
    /\ UNCHANGED <<now, finalized, sharedKey>>

-------------------------------------------------------------------------------
(* Running the command, and SetSudoCache.                                  *)

\* sudo -S with the password at hand: a wrong one executes nothing, but where sudo's own
\* timestamp has become valid since sudo -n: it lets the command in without a look at it.
Runs(t, onOk, onFail) ==
    \/ onFail
    \/ onOk /\ sudoCall' = [sudoCall EXCEPT ![t].unproved = ~sudoCall[t].right]

\* tryCachedSudo: a command that fails for whatever reason clears the cache.
tryCachedSudo(t) ==
    /\ cachePc[t] = "cached"
    /\ Runs(t, CacheGoto(t, "seal"), CacheGoto(t, "clear") /\ UNCHANGED sudoCall)
    /\ UNCHANGED <<now, finalized, cache, cacheKeys, heap>>

\* The user types a password, or declines.
Prompt(t) ==
    /\ cachePc[t] = "prompt"
    /\ \/ \E right \in BOOLEAN : /\ sudoCall' = [sudoCall EXCEPT ![t].right = right]
                                 /\ CacheGoto(t, "prompted")
       \/ CacheReturn(t)
    /\ UNCHANGED <<now, finalized, cache, cacheKeys, heap>>

\* Mutant of execSudoWithPassword: the password is cached before it is tried.
CachesUntried(t) ==
    /\ cachePc[t] = "prompted"
    /\ Runs(t, CacheGoto(t, "seal"), CacheGoto(t, "seal") /\ UNCHANGED sudoCall)
    /\ UNCHANGED <<now, finalized, cache, cacheKeys, heap>>

\* execSudoWithPassword, execStreamSudoWithPassword
execSudoWithPassword(t) ==
    /\ cachePc[t] = "prompted"
    /\ Runs(t, CacheGoto(t, "seal"), CacheReturn(t))
    /\ UNCHANGED <<now, finalized, cache, cacheKeys, heap>>

\* BackgroundExec caches what was typed at once.  The command that it makes is not started.
CachesTyped(t) ==
    /\ cachePc[t] = "prompted"
    /\ sudoCall' = [sudoCall EXCEPT ![t].unproved = ~sudoCall[t].right]
    /\ CacheGoto(t, "seal")
    /\ UNCHANGED <<now, finalized, cache, cacheKeys, heap>>

\* A slice that nothing refers to.
Unused(b) == heap[b] = Zeroed /\ b # sudoPassword /\ \A t \in Threads : sudoCall[t].blob # b

\* SetSudoCache, before it takes the lock: the deadline, and encryption with
\* the key of this moment.
encryptSudoPassword(t) ==
    /\ cachePc[t] = "seal"
    /\ \E b \in Blobs :
          /\ Unused(b)
          /\ heap' = [heap EXCEPT ![b] = [key |-> getEncryptionKey, right |-> sudoCall[t].right,
                                         unproved |-> sudoCall[t].unproved]]
          /\ sudoCall' = [sudoCall EXCEPT ![t] = [NoCall EXCEPT !.blob = b, !.expires = now + TTL]]
    /\ CacheGoto(t, "store")
    /\ UNCHANGED <<now, finalized, cache, cacheKeys>>

\* Mutant of SetSudoCache: the password it replaces is not zeroed.
StoresOver(t) ==
    /\ cachePc[t] = "store"
    /\ sudoPassword' = sudoCall[t].blob
    /\ sudoExpiresAt' = sudoCall[t].expires
    /\ CacheReturn(t)
    /\ UNCHANGED <<now, finalized, cacheKeys, heap>>

SetSudoCache(t) ==
    /\ cachePc[t] = "store"
    /\ heap' = ZeroPassword(heap)
    /\ sudoPassword' = sudoCall[t].blob
    /\ sudoExpiresAt' = sudoCall[t].expires
    /\ CacheReturn(t)
    /\ UNCHANGED <<now, finalized, cacheKeys>>

-------------------------------------------------------------------------------
(* Keys, and the end of the session.                                       *)

\* Connect: an encoded key among the session data.
setSudoCacheKey(t, k) ==
    /\ cachePc[t] = "idle"
    /\ sudoCacheKey' = k
    /\ UNCHANGED <<now, finalized, cache, sharedKey, heap, cachePc, sudoCall>>

\* The holders of a secret that is zeroed in place see it zeroed.
ZeroNegotiated(c) ==
    [t \in Threads |-> IF cachePc[t] = "negotiated" THEN [c[t] EXCEPT !.key = ZeroKey] ELSE c[t]]

\* NegotiateSharedKey("sudo"), first critical section: replaces the shared key.
NegotiateSharedKey(t, k) ==
    /\ cachePc[t] = "idle"
    /\ ~finalized
    /\ sharedKey' = k
    /\ sudoCall' = [ZeroNegotiated(sudoCall) EXCEPT ![t].key = k]
    /\ CacheGoto(t, "negotiated")
    /\ UNCHANGED <<now, finalized, cache, sudoCacheKey, heap>>

\* Second one: the cache key becomes a copy of the secret, as it is now.
NegotiatedCacheKey(t) ==
    /\ cachePc[t] = "negotiated"
    /\ sudoCacheKey' = sudoCall[t].key
    /\ CacheReturn(t)
    /\ UNCHANGED <<now, finalized, cache, sharedKey, heap>>

\* FinalizeSession: the credentials' part of closeShell.
Finalize(t) ==
    /\ cachePc[t] = "idle"
    /\ finalized' = TRUE
    /\ heap' = ZeroPassword(heap)
    /\ sudoPassword' = NoBlob
    /\ sudoExpiresAt' = 0
    /\ sudoCacheKey' = NoKey
    /\ sharedKey' = NoKey
    /\ sudoCall' = ZeroNegotiated(sudoCall)
    /\ UNCHANGED <<now, cachePc>>

Tick == now < MaxTime /\ now' = now + 1 /\ UNCHANGED <<finalized, cache, cacheKeys, heap, cachePc, sudoCall>>

-------------------------------------------------------------------------------

Steps(t) ==
    \/ GetSudoCache(t) \/ CopyKey(t) \/ decryptSudoPassword(t) \/ ClearSudoCache(t)
    \/ tryCachedSudo(t) \/ Prompt(t) \/ execSudoWithPassword(t) \/ CachesTyped(t)
    \/ encryptSudoPassword(t) \/ SetSudoCache(t) \/ NegotiatedCacheKey(t)

CacheNext ==
    \/ \E t \in Threads :
          \/ Call(t) \/ Finalize(t)
          \/ \E k \in Keys : setSudoCacheKey(t, k) \/ NegotiateSharedKey(t, k)
          \/ Steps(t)
    \/ Tick

CacheSpec == CacheInit /\ [][CacheNext]_cacheVars

-------------------------------------------------------------------------------
(* Properties.                                                             *)

\* Every variable has its type.
CacheTypeOK ==
    /\ now \in 0 .. MaxTime
    /\ finalized \in BOOLEAN
    /\ sudoPassword \in Blobs \cup {NoBlob}
    /\ sudoExpiresAt \in Times
    /\ sudoCacheKey \in AnyKey
    /\ sharedKey \in Keys \cup {NoKey}
    /\ heap \in [Blobs -> Secret \cup {Zeroed}]
    /\ cachePc \in [Threads -> {"idle", "get", "key", "decrypt", "clear", "cached", "prompt",
                           "prompted", "seal", "store", "negotiated"}]
    /\ sudoCall \in [Threads -> [blob : Blobs \cup {NoBlob}, key : AnyKey, right : BOOLEAN,
                             unproved : BOOLEAN, expires : Times]]

\* Every slice that still holds a password is the cached one or is about to be:
\* however readers, writers, expiry and FinalizeSession interleave, each
\* password that leaves the cache is zeroed.
ReplacedIsZeroed ==
    \A b \in Blobs : heap[b] # Zeroed =>
        b = sudoPassword \/ \E t \in Threads : cachePc[t] = "store" /\ sudoCall[t].blob = b

\* A password that sudo refused is not cached, even when calls decrypt bytes that others
\* zero, replace or re-key meanwhile: a wrong one in the cache is one that sudo did not
\* look at, of BackgroundExec or of a command that a valid timestamp let in.
NoRefusedIsCached == \A b \in Blobs : heap[b] # Zeroed => heap[b].right \/ heap[b].unproved

\* Both of the cached credential: sudo did not refuse it, and what it replaced is zeroed.
CredentialIsSafe == CacheTypeOK /\ ReplacedIsZeroed /\ NoRefusedIsCached

===============================================================================
