------------------------------- MODULE KeySet -------------------------------
(***************************************************************************)
(* expiringKeySet (src/internal/auth/jwt.go:26-60): the provider's signing *)
(* keys as the server caches them, so that a key the provider withdrew is  *)
(* not trusted for ever.  Requests verify their tokens concurrently: each  *)
(* takes the current key set under the mutex and goes on using it after    *)
(* the unlock, when another request may have replaced it.                  *)
(*                                                                         *)
(* The key set itself is go-oidc's RemoteKeySet (external): it looks for   *)
(* the key among those it has, otherwise fetches them once more, joining a *)
(* fetch that is under way.  A key set is identified by the time it was    *)
(* made: two are never made at the same time.                              *)
(***************************************************************************)
EXTENDS Integers

CONSTANTS
    SigningKeys,  \* keys of the provider
    Verifiers,    \* requests that can be verifying at the same time
    Lifetime,     \* options.KeyCacheLifetime
    NoSet,
    MaxTime       \* bound: the clock

ASSUME KeySetAssumption ==
    /\ Lifetime \in Nat \ {0}
    /\ MaxTime \in Nat
    /\ NoSet \notin Int

VARIABLES
    clock,
    (* at the provider *)
    offered,    \* the keys its JWKS document has
    withdrawn,  \* when it had a key last, if it does not have it
    (* expiringKeySet *)
    keySet,     \* the current key set
    createdAt,
    (* the key sets, also those that only verifications still point to *)
    cachedKeys, \* the keys a set has
    inflight,   \* its fetch
    fetched,    \* what the provider answered to it
    (* the verifications *)
    phase,      \* what a request does next
    signer,     \* the key its token is signed with
    pointer,    \* the key set it took
    started,    \* when it took it
    result      \* the keys of the fetch it waited for

provider == <<offered, withdrawn>>
expiring == <<keySet, createdAt>>
remote == <<cachedKeys, inflight, fetched>>
local == <<signer, pointer, started, result>>
keyVars == <<clock, provider, expiring, remote, phase, local>>

Times == 0..MaxTime

KeyTypeOK ==
    /\ clock \in Times
    /\ offered \in SUBSET SigningKeys
    /\ withdrawn \in [SigningKeys -> Times \cup {-Lifetime}]
    /\ keySet \in Times \cup {NoSet}
    /\ createdAt \in Times
    /\ cachedKeys \in [Times -> SUBSET SigningKeys]
    /\ inflight \in [Times -> {"none", "sent", "answered"}]
    /\ fetched \in [Times -> SUBSET SigningKeys]
    /\ phase \in [Verifiers -> {"idle", "look", "fetch", "wait", "check", "accepted", "refused"}]
    /\ signer \in [Verifiers -> SigningKeys \cup {NoSet}]
    /\ pointer \in [Verifiers -> Times \cup {NoSet}]
    /\ started \in [Verifiers -> Times]
    /\ result \in [Verifiers -> SUBSET SigningKeys]

-----------------------------------------------------------------------------
(* The provider and the time.                                              *)

Tick ==
    /\ clock < MaxTime
    /\ clock' = clock + 1
    /\ UNCHANGED <<provider, expiring, remote, phase, local>>

Offer(k) ==
    /\ k \notin offered
    /\ offered' = offered \cup {k}
    /\ UNCHANGED <<clock, withdrawn, expiring, remote, phase, local>>

Withdraw(k) ==
    /\ k \in offered
    /\ offered' = offered \ {k}
    /\ withdrawn' = [withdrawn EXCEPT ![k] = clock]
    /\ UNCHANGED <<clock, expiring, remote, phase, local>>

-----------------------------------------------------------------------------
(* VerifySignature.                                                        *)

Move(v, from, to) == phase[v] = from /\ phase' = [phase EXCEPT ![v] = to]

(* Mutant: a lifetime too long by one.                                     *)
ExpiredLate == keySet = NoSet \/ clock - createdAt > Lifetime

Expired == keySet = NoSet \/ clock - createdAt >= Lifetime

(* The whole critical section: replace the set if its time is up, and take *)
(* the pointer.                                                            *)
TakeKeySet(v) ==
    /\ Move(v, "idle", "look")
    /\ \E k \in SigningKeys : signer' = [signer EXCEPT ![v] = k]
    /\ started' = [started EXCEPT ![v] = clock]
    /\ \/ /\ Expired
          /\ keySet' = clock
          /\ createdAt' = clock
       \/ /\ ~Expired
          /\ UNCHANGED expiring
    /\ pointer' = [pointer EXCEPT ![v] = keySet']
    /\ UNCHANGED <<clock, provider, remote, result>>

LookUp(v) ==
    /\ \/ Move(v, "look", "accepted") /\ signer[v] \in cachedKeys[pointer[v]]
       \/ Move(v, "look", "fetch") /\ signer[v] \notin cachedKeys[pointer[v]]
    /\ UNCHANGED <<clock, provider, expiring, remote, local>>

(* RemoteKeySet.keysFromRemote.                                            *)
FetchOrJoin(v) ==
    /\ Move(v, "fetch", "wait")
    /\ inflight' = [inflight EXCEPT ![pointer[v]] = IF @ = "none" THEN "sent" ELSE @]
    /\ UNCHANGED <<clock, provider, expiring, cachedKeys, fetched, local>>

(* The provider makes up its answer; it arrives later.                     *)
ProviderAnswers(s) ==
    /\ inflight[s] = "sent"
    /\ inflight' = [inflight EXCEPT ![s] = "answered"]
    /\ fetched' = [fetched EXCEPT ![s] = offered]
    /\ UNCHANGED <<clock, provider, expiring, cachedKeys, phase, local>>

Waiting(s) == {v \in Verifiers : phase[v] = "wait" /\ pointer[v] = s}

FetchDone(s) ==
    /\ inflight[s] = "answered"
    /\ inflight' = [inflight EXCEPT ![s] = "none"]
    /\ fetched' = [fetched EXCEPT ![s] = {}]
    /\ cachedKeys' = [cachedKeys EXCEPT ![s] = fetched[s]]
    /\ phase' = [v \in Verifiers |-> IF v \in Waiting(s) THEN "check" ELSE phase[v]]
    /\ result' = [v \in Verifiers |-> IF v \in Waiting(s) THEN fetched[s] ELSE result[v]]
    /\ UNCHANGED <<clock, provider, expiring, signer, pointer, started>>

(* The provider cannot be reached or answers nonsense.                     *)
FetchFails(s) ==
    /\ inflight[s] # "none"
    /\ inflight' = [inflight EXCEPT ![s] = "none"]
    /\ fetched' = [fetched EXCEPT ![s] = {}]
    /\ phase' = [v \in Verifiers |-> IF v \in Waiting(s) THEN "refused" ELSE phase[v]]
    /\ UNCHANGED <<clock, provider, expiring, cachedKeys, local>>

CheckFetched(v) ==
    /\ \/ Move(v, "check", "accepted") /\ signer[v] \in result[v]
       \/ Move(v, "check", "refused") /\ signer[v] \notin result[v]
    /\ UNCHANGED <<clock, provider, expiring, remote, local>>

(* The request's context ends; the fetch goes on for the others.           *)
GiveUp(v) ==
    /\ Move(v, "wait", "refused")
    /\ UNCHANGED <<clock, provider, expiring, remote, local>>

Finish(v) ==
    /\ phase[v] \in {"accepted", "refused"}
    /\ phase' = [phase EXCEPT ![v] = "idle"]
    /\ signer' = [signer EXCEPT ![v] = NoSet]
    /\ pointer' = [pointer EXCEPT ![v] = NoSet]
    /\ started' = [started EXCEPT ![v] = 0]
    /\ result' = [result EXCEPT ![v] = {}]
    /\ UNCHANGED <<clock, provider, expiring, remote>>

KeyInit ==
    /\ clock \in Times
    /\ offered \in SUBSET SigningKeys
    /\ withdrawn = [k \in SigningKeys |-> -Lifetime]
    /\ keySet = NoSet /\ createdAt = 0
    /\ cachedKeys = [s \in Times |-> {}]
    /\ inflight = [s \in Times |-> "none"]
    /\ fetched = [s \in Times |-> {}]
    /\ phase = [v \in Verifiers |-> "idle"]
    /\ signer = [v \in Verifiers |-> NoSet]
    /\ pointer = [v \in Verifiers |-> NoSet]
    /\ started = [v \in Verifiers |-> 0]
    /\ result = [v \in Verifiers |-> {}]

Verification(v) == LookUp(v) \/ FetchOrJoin(v) \/ CheckFetched(v)

Surroundings ==
    \/ Tick
    \/ \E k \in SigningKeys : Offer(k) \/ Withdraw(k)
    \/ \E s \in Times : ProviderAnswers(s) \/ FetchDone(s) \/ FetchFails(s)

KeyNext ==
    \/ Surroundings
    \/ \E v \in Verifiers : TakeKeySet(v) \/ Verification(v) \/ GiveUp(v) \/ Finish(v)

KeySpec == KeyInit /\ [][KeyNext]_keyVars

-----------------------------------------------------------------------------
(* Properties.                                                             *)

(* The provider had the key at that time or later.                         *)
OfferedSince(k, time) == k \in offered \/ withdrawn[k] >= time

(* What the comment of expiringKeySet promises: a token is accepted only if *)
(* the provider offered its key less than a lifetime before the verification *)
(* began, however often the set was used since, whoever shares its fetch,  *)
(* and although the set may have been replaced meanwhile (jwt.go:50-60).    *)
BoundedTrust ==
    \A v \in Verifiers :
        phase[v] = "accepted" => OfferedSince(signer[v], started[v] - Lifetime + 1)
=============================================================================
