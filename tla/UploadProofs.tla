---------------------------- MODULE UploadProofs ----------------------------
(***************************************************************************)
(* Access to an upload, for any number of keys, of concurrent              *)
(* verifications, any lifetime and any time: a withdrawn key is trusted    *)
(* less than a lifetime.  And one upload, for any bodies, limits and       *)
(* number of other requests: what the client is told is true, nothing is   *)
(* received without permission, and what is published is the whole body.   *)
(***************************************************************************)
EXTENDS Upload, FiniteSetTheorems, TLAPS

-----------------------------------------------------------------------------
(* KeySet.                                                                 *)

(* The current set was made when createdAt says; whatever a set has, the   *)
(* provider offered after the set was made.                                *)
SetInv ==
    /\ keySet # NoSet => keySet = createdAt /\ keySet <= clock
    /\ \A s \in Times :
           inflight[s] # "none" \/ cachedKeys[s] # {} \/ fetched[s] # {} => s <= clock
    /\ \A s \in Times, k \in SigningKeys :
           k \in cachedKeys[s] \/ k \in fetched[s] => OfferedSince(k, s)

(* A verification keeps a set that was made less than a lifetime before.   *)
PointerInv ==
    \A v \in Verifiers :
        phase[v] # "idle" =>
            /\ signer[v] \in SigningKeys
            /\ pointer[v] \in Times
            /\ pointer[v] <= clock
            /\ pointer[v] >= started[v] - Lifetime + 1

TrustInv ==
    \A v \in Verifiers :
        /\ phase[v] = "check" => \A k \in result[v] : OfferedSince(k, pointer[v])
        /\ phase[v] = "accepted" => OfferedSince(signer[v], pointer[v])

KeyInv == KeyTypeOK /\ SetInv /\ PointerInv /\ TrustInv

LEMMA KeyInitInv == KeyInit => KeyInv
<1> SUFFICES ASSUME KeyInit PROVE KeyInv
    OBVIOUS
<1>1. KeyTypeOK
    BY KeySetAssumption DEF KeyInit, KeyTypeOK, Times
<1>2. SetInv /\ PointerInv /\ TrustInv
    BY DEF KeyInit, SetInv, PointerInv, TrustInv
<1>3. QED
    BY <1>1, <1>2 DEF KeyInv

-----------------------------------------------------------------------------
LEMMA KeyTypeStep == KeyInv /\ [KeyNext]_keyVars => KeyTypeOK'
<1> SUFFICES ASSUME KeyInv, [KeyNext]_keyVars PROVE KeyTypeOK'
    OBVIOUS
<1> USE KeySetAssumption DEF KeyInv, KeyTypeOK, Times
<1>1. CASE UNCHANGED keyVars
    BY <1>1 DEF keyVars, provider, expiring, remote, local
<1>2. CASE Tick
    BY <1>2 DEF Tick, provider, expiring, remote, local
<1>3. ASSUME NEW k \in SigningKeys, Offer(k) PROVE KeyTypeOK'
    BY <1>3 DEF Offer, expiring, remote, local
<1>4. ASSUME NEW k \in SigningKeys, Withdraw(k) PROVE KeyTypeOK'
    BY <1>4 DEF Withdraw, expiring, remote, local
<1>5. ASSUME NEW s \in Times, ProviderAnswers(s) PROVE KeyTypeOK'
    BY <1>5 DEF ProviderAnswers, provider, expiring, local
<1>6. ASSUME NEW s \in Times, FetchDone(s) PROVE KeyTypeOK'
    BY <1>6 DEF FetchDone, provider, expiring
<1>7. ASSUME NEW s \in Times, FetchFails(s) PROVE KeyTypeOK'
    BY <1>7 DEF FetchFails, provider, expiring, local
<1>8. ASSUME NEW v \in Verifiers, TakeKeySet(v) PROVE KeyTypeOK'
    BY <1>8 DEF TakeKeySet, Move, provider, expiring, remote
<1>9. ASSUME NEW v \in Verifiers, LookUp(v) PROVE KeyTypeOK'
    BY <1>9 DEF LookUp, Move, provider, expiring, remote, local
<1>10. ASSUME NEW v \in Verifiers, FetchOrJoin(v) PROVE KeyTypeOK'
    BY <1>10 DEF FetchOrJoin, Move, provider, expiring, local
<1>11. ASSUME NEW v \in Verifiers, CheckFetched(v) PROVE KeyTypeOK'
    BY <1>11 DEF CheckFetched, Move, provider, expiring, remote, local
<1>12. ASSUME NEW v \in Verifiers, GiveUp(v) PROVE KeyTypeOK'
    BY <1>12 DEF GiveUp, Move, provider, expiring, remote, local
<1>13. ASSUME NEW v \in Verifiers, Finish(v) PROVE KeyTypeOK'
    BY <1>13 DEF Finish, provider, expiring, remote
<1>14. QED
    BY <1>1, <1>2, <1>3, <1>4, <1>5, <1>6, <1>7, <1>8, <1>9, <1>10, <1>11,
       <1>12, <1>13 DEF KeyNext, Surroundings, Verification

-----------------------------------------------------------------------------
(* What was offered since a time in the past stays so: withdrawing a key   *)
(* records the present.                                                    *)
LEMMA OfferedStays ==
    ASSUME KeyInv, [KeyNext]_keyVars,
           NEW k \in SigningKeys, NEW s \in Times, s <= clock, OfferedSince(k, s)
    PROVE  OfferedSince(k, s)'
<1> USE DEF OfferedSince
<1>1. CASE UNCHANGED provider
    BY <1>1 DEF provider
<1>2. ASSUME NEW j \in SigningKeys, Offer(j) PROVE OfferedSince(k, s)'
    BY <1>2 DEF Offer
<1>3. ASSUME NEW j \in SigningKeys, Withdraw(j) PROVE OfferedSince(k, s)'
    BY <1>3 DEF Withdraw, KeyInv, KeyTypeOK
<1>4. CASE UNCHANGED keyVars
    BY <1>4, <1>1 DEF keyVars
<1>5. QED
    BY <1>1, <1>2, <1>3, <1>4 DEF KeyNext, Surroundings, Verification, Tick,
       ProviderAnswers, FetchDone, FetchFails, TakeKeySet, LookUp, FetchOrJoin,
       CheckFetched, GiveUp, Finish

LEMMA ClockStays ==
    ASSUME KeyInv, [KeyNext]_keyVars
    PROVE  clock' \in Int /\ clock \in Int /\ clock <= clock'
<1>1. clock \in Int
    BY KeySetAssumption DEF KeyInv, KeyTypeOK, Times
<1>2. clock' = clock \/ clock' = clock + 1
    BY DEF KeyNext, Surroundings, Verification, Tick, Offer, Withdraw,
       ProviderAnswers, FetchDone, FetchFails, TakeKeySet, LookUp, FetchOrJoin,
       CheckFetched, GiveUp, Finish, keyVars
<1>3. QED
    BY <1>1, <1>2

-----------------------------------------------------------------------------
LEMMA SetStep == KeyInv /\ [KeyNext]_keyVars => SetInv'
<1> SUFFICES ASSUME KeyInv, [KeyNext]_keyVars PROVE SetInv'
    OBVIOUS
<1>t. KeyTypeOK /\ KeyTypeOK'
    BY KeyTypeStep DEF KeyInv
<1>c. clock' \in Int /\ clock \in Int /\ clock <= clock'
    BY ClockStays
<1>i. \A s \in Times : s \in Int
    BY KeySetAssumption DEF Times
<1>1. (keySet # NoSet => keySet = createdAt /\ keySet <= clock)'
    <2>1. CASE UNCHANGED expiring
        <3>1. keySet' = keySet /\ createdAt' = createdAt
            BY <2>1 DEF expiring
        <3>2. keySet # NoSet => keySet = createdAt /\ keySet <= clock /\ keySet \in Int
            BY <1>i, <1>t DEF KeyInv, SetInv, KeyTypeOK
        <3>3. QED
            BY <3>1, <3>2, <1>c
    <2>2. ASSUME NEW v \in Verifiers, TakeKeySet(v)
          PROVE (keySet # NoSet => keySet = createdAt /\ keySet <= clock)'
        <3>1. CASE Expired
            BY <3>1, <2>2, <1>c DEF TakeKeySet
        <3>2. CASE ~Expired
            BY <3>2, <2>2, <2>1 DEF TakeKeySet
        <3>3. QED
            BY <3>1, <3>2
    <2>3. QED
        BY <2>1, <2>2 DEF KeyNext, Surroundings, Verification, Tick, Offer, Withdraw,
           ProviderAnswers, FetchDone, FetchFails, LookUp, FetchOrJoin,
           CheckFetched, GiveUp, Finish, keyVars
<1>2. ASSUME NEW s \in Times,
             inflight'[s] # "none" \/ cachedKeys'[s] # {} \/ fetched'[s] # {}
      PROVE  s <= clock
    <2>1. CASE UNCHANGED remote
        BY <2>1, <1>2 DEF remote, KeyInv, SetInv
    <2>2. ASSUME NEW r \in Times, ProviderAnswers(r) \/ FetchDone(r) \/ FetchFails(r)
          PROVE s <= clock
        BY <2>2, <1>2, <1>t DEF ProviderAnswers, FetchDone, FetchFails, KeyInv, SetInv, KeyTypeOK
    <2>3. ASSUME NEW v \in Verifiers, FetchOrJoin(v) PROVE s <= clock
        BY <2>3, <1>2, <1>t DEF FetchOrJoin, Move, KeyInv, SetInv, PointerInv, KeyTypeOK
    <2>4. QED
        BY <2>1, <2>2, <2>3 DEF KeyNext, Surroundings, Verification, Tick, Offer, Withdraw,
           TakeKeySet, LookUp, CheckFetched, GiveUp, Finish, keyVars
<1>3. ASSUME NEW s \in Times, NEW k \in SigningKeys,
             k \in cachedKeys'[s] \/ k \in fetched'[s]
      PROVE  OfferedSince(k, s)'
    <2>1. CASE k \in cachedKeys[s] \/ k \in fetched[s]
        <3>1. s <= clock /\ OfferedSince(k, s)
            BY <2>1 DEF KeyInv, SetInv
        <3>2. QED
            BY <3>1, OfferedStays
    <2>2. CASE k \notin cachedKeys[s] /\ k \notin fetched[s]
        <3>1. ProviderAnswers(s)
            BY <2>2, <1>3, <1>t DEF KeyNext, Surroundings, Verification, Tick, Offer, Withdraw,
               ProviderAnswers, FetchDone, FetchFails, TakeKeySet, LookUp, FetchOrJoin,
               CheckFetched, GiveUp, Finish, keyVars, remote, KeyTypeOK
        <3>2. k \in offered'
            BY <3>1, <2>2, <1>3, <1>t DEF ProviderAnswers, provider, KeyTypeOK
        <3>3. QED
            BY <3>2 DEF OfferedSince
    <2>3. QED
        BY <2>1, <2>2
<1>4. ASSUME NEW s \in Times, s <= clock PROVE s <= clock'
    BY <1>4, <1>c, <1>i
<1>5. QED
    BY <1>1, <1>2, <1>3, <1>4 DEF SetInv

-----------------------------------------------------------------------------
LEMMA PointerStep == KeyInv /\ [KeyNext]_keyVars => PointerInv'
<1> SUFFICES ASSUME KeyInv, [KeyNext]_keyVars,
                    NEW v \in Verifiers, phase'[v] # "idle"
             PROVE  /\ signer'[v] \in SigningKeys
                    /\ pointer'[v] \in Times
                    /\ pointer'[v] <= clock'
                    /\ pointer'[v] >= started'[v] - Lifetime + 1
    BY DEF PointerInv
<1>t. KeyTypeOK
    BY DEF KeyInv
<1>c. clock' \in Int /\ clock \in Int /\ clock <= clock'
    BY ClockStays
<1>i. \A s \in Times : s \in Int
    BY KeySetAssumption DEF Times
<1>1. CASE phase[v] # "idle"
    <2>1. signer'[v] = signer[v] /\ pointer'[v] = pointer[v] /\ started'[v] = started[v]
        BY <1>1, <1>t DEF KeyNext, Surroundings, Verification, Tick, Offer, Withdraw,
           ProviderAnswers, FetchDone, FetchFails, TakeKeySet, LookUp, FetchOrJoin,
           CheckFetched, GiveUp, Finish, Move, keyVars, local, KeyTypeOK
    <2>2. QED
        BY <2>1, <1>1, <1>c, <1>i DEF KeyInv, PointerInv
<1>2. CASE phase[v] = "idle"
    <2>1. TakeKeySet(v)
        BY <1>2, <1>t DEF KeyNext, Surroundings, Verification, Tick, Offer, Withdraw,
           ProviderAnswers, FetchDone, FetchFails, Waiting, TakeKeySet, LookUp, FetchOrJoin,
           CheckFetched, GiveUp, Finish, Move, keyVars, KeyTypeOK
    <2>2. signer'[v] \in SigningKeys /\ pointer'[v] = keySet' /\ started'[v] = clock
        BY <2>1, <1>t DEF TakeKeySet, KeyTypeOK
    <2>3. clock' = clock
        BY <2>1 DEF TakeKeySet
    <2>4. CASE Expired
        <3>1. keySet' = clock
            BY <2>1, <2>4 DEF TakeKeySet
        <3>2. QED
            BY <3>1, <2>2, <2>3, <1>c, <1>t, KeySetAssumption DEF KeyTypeOK
    <2>5. CASE ~Expired
        <3>1. keySet' = keySet /\ keySet # NoSet /\ keySet = createdAt /\ keySet <= clock
            BY <2>1, <2>5 DEF TakeKeySet, Expired, expiring, KeyInv, SetInv
        <3>2. keySet \in Times
            BY <3>1, <1>t DEF KeyTypeOK
        <3>3. clock - keySet < Lifetime
            BY <2>5, <3>1, <3>2, <1>c, <1>i, KeySetAssumption DEF Expired
        <3>4. QED
            BY <3>1, <3>2, <3>3, <2>2, <2>3, <1>c, <1>i, KeySetAssumption
    <2>6. QED
        BY <2>4, <2>5
<1>3. QED
    BY <1>1, <1>2

LEMMA TrustStep == KeyInv /\ [KeyNext]_keyVars => TrustInv'
<1> SUFFICES ASSUME KeyInv, [KeyNext]_keyVars, NEW v \in Verifiers
             PROVE  /\ phase'[v] = "check" =>
                          \A k \in result'[v] : (OfferedSince(k, pointer[v]))'
                    /\ phase'[v] = "accepted" => (OfferedSince(signer[v], pointer[v]))'
    BY DEF TrustInv
<1>t. KeyTypeOK /\ KeyTypeOK'
    BY KeyTypeStep DEF KeyInv
<1>p. phase'[v] \in {"check", "accepted"} =>
          /\ phase[v] # "idle"
          /\ signer'[v] = signer[v] /\ pointer'[v] = pointer[v]
    BY <1>t DEF KeyNext, Surroundings, Verification, Tick, Offer, Withdraw,
       ProviderAnswers, FetchDone, FetchFails, Waiting, TakeKeySet, LookUp, FetchOrJoin,
       CheckFetched, GiveUp, Finish, Move, keyVars, local, KeyTypeOK
<1>k. ASSUME phase[v] # "idle",
             NEW k \in SigningKeys, OfferedSince(k, pointer[v])
      PROVE  pointer'[v] = pointer[v] => (OfferedSince(k, pointer[v]))'
    <2>1. pointer[v] \in Times /\ pointer[v] <= clock
        BY <1>k DEF KeyInv, PointerInv
    <2>2. OfferedSince(k, pointer[v]) => k \in offered' \/ withdrawn'[k] >= pointer[v]
        BY <2>1, <1>k, OfferedStays DEF OfferedSince
    <2>3. QED
        BY <2>2, <1>k DEF OfferedSince
<1>1. ASSUME phase'[v] = "check", NEW k \in result'[v]
      PROVE  (OfferedSince(k, pointer[v]))'
    <2>1. phase[v] # "idle" /\ pointer'[v] = pointer[v] /\ pointer[v] \in Times
        BY <1>1, <1>p DEF KeyInv, PointerInv
    <2>2. k \in SigningKeys
        BY <1>1, <1>t DEF KeyTypeOK
    <2>3. CASE phase[v] = "check"
        <3>1. k \in result[v]
            BY <2>3, <1>1, <1>t DEF KeyNext, Surroundings, Verification, Tick, Offer, Withdraw,
               ProviderAnswers, FetchDone, FetchFails, Waiting, TakeKeySet, LookUp, FetchOrJoin,
               CheckFetched, GiveUp, Finish, Move, keyVars, local, KeyTypeOK
        <3>2. OfferedSince(k, pointer[v])
            BY <3>1, <2>3 DEF KeyInv, TrustInv
        <3>3. QED
            BY <3>2, <2>1, <2>2, <1>k
    <2>4. CASE phase[v] # "check"
        <3>1. \E s \in Times : FetchDone(s) /\ phase[v] = "wait" /\ pointer[v] = s
            BY <2>4, <1>1, <1>t DEF KeyNext, Surroundings, Verification, Tick, Offer, Withdraw,
               ProviderAnswers, FetchDone, FetchFails, Waiting, TakeKeySet, LookUp, FetchOrJoin,
               CheckFetched, GiveUp, Finish, Move, keyVars, KeyTypeOK
        <3>2. k \in fetched[pointer[v]]
            BY <3>1, <1>1, <1>t DEF FetchDone, Waiting, KeyTypeOK
        <3>3. OfferedSince(k, pointer[v])
            BY <3>2, <2>1, <2>2 DEF KeyInv, SetInv
        <3>4. QED
            BY <3>3, <2>1, <2>2, <1>k
    <2>5. QED
        BY <2>3, <2>4
<1>2. ASSUME phase'[v] = "accepted" PROVE (OfferedSince(signer[v], pointer[v]))'
    <2>1. /\ phase[v] # "idle" /\ pointer'[v] = pointer[v] /\ pointer[v] \in Times
          /\ signer'[v] = signer[v] /\ signer[v] \in SigningKeys
        BY <1>2, <1>p DEF KeyInv, PointerInv
    <2>2. \/ phase[v] = "accepted"
          \/ signer[v] \in cachedKeys[pointer[v]]
          \/ phase[v] = "check" /\ signer[v] \in result[v]
        BY <1>2, <1>t DEF KeyNext, Surroundings, Verification, Tick, Offer, Withdraw,
           ProviderAnswers, FetchDone, FetchFails, Waiting, TakeKeySet, LookUp, FetchOrJoin,
           CheckFetched, GiveUp, Finish, Move, keyVars, KeyTypeOK
    <2>3. OfferedSince(signer[v], pointer[v])
        BY <2>1, <2>2 DEF KeyInv, SetInv, TrustInv
    <2>4. QED
        BY <2>1, <2>3, <1>k
<1>3. QED
    BY <1>1, <1>2

-----------------------------------------------------------------------------
LEMMA KeyStep == KeyInv /\ [KeyNext]_keyVars => KeyInv'
    BY KeyTypeStep, SetStep, PointerStep, TrustStep DEF KeyInv

LEMMA KeyInvImplies == KeyInv => BoundedTrust
<1> SUFFICES ASSUME KeyInv, NEW v \in Verifiers, phase[v] = "accepted"
             PROVE  OfferedSince(signer[v], started[v] - Lifetime + 1)
    BY DEF BoundedTrust
<1>1. OfferedSince(signer[v], pointer[v]) /\ signer[v] \in SigningKeys
    BY DEF KeyInv, TrustInv, PointerInv
<1>2. /\ pointer[v] \in Int /\ started[v] \in Int
      /\ pointer[v] >= started[v] - Lifetime + 1
    BY KeySetAssumption DEF KeyInv, PointerInv, KeyTypeOK, Times
<1>3. withdrawn[signer[v]] \in Int
    BY <1>1, KeySetAssumption DEF KeyInv, KeyTypeOK, Times
<1>4. QED
    BY <1>1, <1>2, <1>3, KeySetAssumption DEF OfferedSince

(* The inductive invariant holds in every state of the key cache.          *)
THEOREM KeyInvariant == KeySpec => []KeyInv
<1>1. KeyInit => KeyInv
    BY KeyInitInv
<1>2. KeyInv /\ [KeyNext]_keyVars => KeyInv'
    BY KeyStep
<1>3. QED
    BY <1>1, <1>2, PTL DEF KeySpec

(* The variables of the key cache keep their types.                        *)
THEOREM KeyTypeCorrect == KeySpec => []KeyTypeOK
<1>1. KeyInv => KeyTypeOK
    BY DEF KeyInv
<1>2. QED
    BY <1>1, KeyInvariant, PTL

(* No token is accepted by a key that was withdrawn a lifetime before its  *)
(* verification began, however many verifications run (jwt.go:50-60).      *)
THEOREM TrustIsBounded == KeySpec => []BoundedTrust
<1>1. KeyInv => BoundedTrust
    BY KeyInvImplies
<1>2. QED
    BY <1>1, KeyInvariant, PTL

-----------------------------------------------------------------------------
(* Upload.                                                                 *)

(* The handler works only for an accepted token with the permission.       *)
AuthInv ==
    handler \in {"next", "publish"} \cup Files \/ received > 0 \/ published # None =>
        token = "scoped" /\ phase[Request] = "accepted"

(* The body on its way: what was written, sent and read.                   *)
BodyInv ==
    /\ received <= written
    /\ \A file \in Files : staged[file] <= received
    /\ main = "authorize" => wire = "none"
    /\ wire = "none" =>
           /\ main \in {"authorize", "returned"}
           /\ handler = "none" /\ reply = "nothing" /\ answer = "nothing"
    /\ wire = "eof" => pipe = "ended"

(* The goroutine has no error exactly if it wrote everything, and closes   *)
(* its end accordingly.                                                    *)
WriterInv ==
    /\ writer = "write" => writeErr = "none"
    /\ writer # "write" => (writeErr = "none") = Complete
    /\ pipe = "ended" =>
           (main = "returned" /\ wire = "none") \/ (writer = "ended" /\ writeErr = "none")
    /\ pipe = "broken" => writer = "ended" /\ writeErr # "none"

ReplyInv ==
    /\ (published # None) = (reply = "published")
    /\ reply # "nothing" => handler = "done"
    /\ handler = "publish" \/ reply = "published" => Complete
    /\ answer \in Replies => answer = reply
    /\ answer = "network" => broke \/ pipe = "broken"

MainInv ==
    /\ main = "join" => answer # "nothing"
    /\ main = "returned" =>
           \/ wire = "none" /\ told = "authorization"
           \/ answer # "nothing" /\ writer = "ended" /\ told = Outcome
    /\ main # "returned" => told = "nothing"

FlowInv == AuthInv /\ BodyInv /\ WriterInv /\ ReplyInv /\ MainInv

UploadInv == KeyInv /\ UploadTypeOK /\ FlowInv

LEMMA UploadInitInv == UploadInit => UploadInv
<1> SUFFICES ASSUME UploadInit PROVE UploadInv
    OBVIOUS
<1>1. KeyInv /\ KeyTypeOK
    BY KeyInitInv DEF UploadInit, KeyInv
<1>2. body \in Bodies /\ Len(body) \in Nat
    BY UploadAssumption DEF UploadInit
<1>3. UploadTypeOK
    <2>1. staged \in [Files -> 0..MaxBody] /\ received \in 0..MaxBody
        BY UploadAssumption DEF UploadInit
    <2>2. written \in 0..Len(body)
        BY <1>2 DEF UploadInit
    <2>3. others \subseteq Verifiers \ {Request}
        BY DEF UploadInit
    <2>4. QED
        BY <1>1, <1>2, <2>1, <2>2, <2>3 DEF UploadInit, UploadTypeOK
<1>4. AuthInv /\ BodyInv /\ ReplyInv /\ MainInv
    BY <1>2 DEF UploadInit, AuthInv, BodyInv, ReplyInv, MainInv, Files, Replies
<1>5. WriterInv
    BY DEF UploadInit, WriterInv
<1>6. QED
    BY <1>1, <1>3, <1>4, <1>5 DEF UploadInv, FlowInv

-----------------------------------------------------------------------------
(* Whatever the upload does, the key cache takes a step of its own or none.*)
LEMMA UploadKeySteps == UploadTypeOK /\ [UploadNext]_uploadVars => [KeyNext]_keyVars
<1> SUFFICES ASSUME UploadTypeOK, [UploadNext]_uploadVars PROVE [KeyNext]_keyVars
    OBVIOUS
<1>1. CASE UNCHANGED keyVars
    BY <1>1
<1>2. CASE VerifyToken
    BY <1>2, UploadAssumption DEF VerifyToken, KeyNext
<1>3. CASE Elsewhere
    BY <1>3, UploadAssumption DEF Elsewhere, KeyNext, UploadTypeOK
<1>4. QED
    BY <1>1, <1>2, <1>3 DEF UploadNext, FileFails, Goroutine, WriteFails, WritesAll,
       StopWriting, FinishWriting, Caller, AuthorizeFails, StartRequest, GetAnswer,
       ReturnOutcome, Transport, TransferPiece, EndBody, CloseBody, DeliverReply,
       Disconnect, Handler, Arrive, RejectToken, Authorize, HandleUpload, BeginPart,
       CopyPiece, EndPart, RejectPart, StagingFails, BreakOff, EndParts, PublishUpload, Over,
       uploadVars

(* What the steps of the handler read is there and within the limit.       *)
LEMMA NextPiece ==
    ASSUME UploadTypeOK, BodyInv, NEW piece, Next(piece)
    PROVE  /\ received < written /\ received + 1 \in 0..MaxBody
           /\ received \in Nat /\ written \in Nat /\ Len(body) \in Nat
           /\ written <= Len(body)
           /\ piece = "end" => Complete
<1>1. /\ received \in Nat /\ written \in Nat /\ Len(body) \in Nat /\ written <= Len(body)
      /\ received < written /\ received + 1 \in 0..MaxBody
      /\ body[received + 1] = piece
    <2>1. body \in Seq(Headers \cup {"data", "end"})
        BY UploadAssumption DEF UploadTypeOK
    <2>2. Len(body) \in Nat
        BY <2>1
    <2>3. written \in Nat /\ written <= Len(body)
        <3>1. written \in 0..Len(body)
            BY DEF UploadTypeOK
        <3>2. QED
            BY <2>2, <3>1
    <2>4. received \in 0..MaxBody /\ MaxBody \in Nat
        BY UploadAssumption DEF UploadTypeOK
    <2>5. received # MaxBody /\ received < written /\ body[received + 1] = piece
        BY DEF Next, Arrived, TooLong
    <2>6. QED
        BY <2>2, <2>3, <2>4, <2>5
<1>2. ASSUME piece = "end" PROVE Complete
    <2>1. received + 1 \notin 1..Len(body) - 1
        BY <1>1, <1>2, UploadAssumption DEF UploadTypeOK
    <2>2. QED
        BY <1>1, <2>1 DEF Complete
<1>3. QED
    BY <1>1, <1>2

-----------------------------------------------------------------------------
LEMMA UploadTypeStep == UploadInv /\ [UploadNext]_uploadVars => UploadTypeOK'
<1> SUFFICES ASSUME UploadInv, [UploadNext]_uploadVars PROVE UploadTypeOK'
    OBVIOUS
<1>k. KeyTypeOK'
    BY UploadKeySteps, KeyTypeStep DEF UploadInv
<1>b. body \in Bodies /\ Len(body) \in Nat /\ MaxBody \in Nat
    BY UploadAssumption DEF UploadInv, UploadTypeOK
<1> USE <1>k DEF UploadInv, FlowInv, UploadTypeOK, request, publisher, ends, connection,
        upload, server, client
<1>1. CASE FileFails
    BY <1>1 DEF FileFails, StopWriting
<1>2. CASE WriteFails
    BY <1>2 DEF WriteFails, StopWriting
<1>3. CASE WritesAll
    BY <1>3 DEF WritesAll, StopWriting
<1>4. CASE FinishWriting
    BY <1>4 DEF FinishWriting, CloseWithError
<1>5. CASE AuthorizeFails
    BY <1>5 DEF AuthorizeFails, ClosePipe
<1>6. CASE StartRequest
    BY <1>6 DEF StartRequest
<1>7. CASE GetAnswer
    BY <1>7 DEF GetAnswer
<1>8. CASE ReturnOutcome
    BY <1>8 DEF ReturnOutcome, Outcome, Replies
<1>9. CASE TransferPiece
    BY <1>9, <1>b DEF TransferPiece, Complete
<1>10. CASE EndBody
    BY <1>10 DEF EndBody, Failed, Replies
<1>11. CASE CloseBody
    BY <1>11 DEF CloseBody
<1>12. CASE DeliverReply
    BY <1>12 DEF DeliverReply, Replies
<1>13. CASE Disconnect
    BY <1>13 DEF Disconnect
<1>14. CASE Arrive
    BY <1>14 DEF Arrive
<1>15. CASE RejectToken
    BY <1>15 DEF RejectToken, Reply, Replies
<1>16. CASE VerifyToken
    BY <1>16 DEF VerifyToken
<1>17. CASE Authorize
    BY <1>17 DEF Authorize, Reply, Replies
<1>18. ASSUME NEW file \in Files, BeginPart(file) PROVE UploadTypeOK'
    <2>1. received' \in 0..MaxBody
        BY <1>18, NextPiece DEF BeginPart, Consume
    <2>2. QED
        BY <1>18, <2>1 DEF BeginPart, Reply, Files, Replies
<1>19. ASSUME NEW file \in Files, CopyPiece(file) PROVE UploadTypeOK'
    <2>1. received' \in 0..MaxBody
        BY <1>19, NextPiece DEF CopyPiece, Consume
    <2>2. staged[file] + 1 \in 0..MaxBody
        BY <1>19, NextPiece, <1>b DEF CopyPiece, FlowInv, BodyInv
    <2>3. staged' \in [Files -> 0..MaxBody]
        BY <1>19, <2>2 DEF CopyPiece
    <2>4. QED
        BY <1>19, <2>1, <2>3 DEF CopyPiece
<1>20. ASSUME NEW file \in Files, EndPart(file) PROVE UploadTypeOK'
    BY <1>20 DEF EndPart, Files
<1>21. CASE RejectPart
    <2>1. received' \in 0..MaxBody
        BY <1>21, NextPiece DEF RejectPart, Consume
    <2>2. QED
        BY <1>21, <2>1 DEF RejectPart, Reply, Replies
<1>22. CASE BreakOff \/ StagingFails
    BY <1>22 DEF BreakOff, StagingFails, Reply, Replies
<1>23. CASE EndParts
    <2>1. received' \in 0..MaxBody
        BY <1>23, NextPiece DEF EndParts, Consume
    <2>2. QED
        BY <1>23, <2>1 DEF EndParts, Reply, Replies
<1>24. CASE PublishUpload
    BY <1>24 DEF PublishUpload, Reply, Refuse, Replies
<1>25. CASE Elsewhere
    BY <1>25 DEF Elsewhere
<1>26. CASE UNCHANGED uploadVars
    BY <1>26 DEF uploadVars
<1>27. QED
    BY <1>1, <1>2, <1>3, <1>4, <1>5, <1>6, <1>7, <1>8, <1>9, <1>10, <1>11, <1>12, <1>13,
       <1>14, <1>15, <1>16, <1>17, <1>18, <1>19, <1>20, <1>21, <1>22, <1>23, <1>24,
       <1>25, <1>26 DEF UploadNext, Goroutine, Caller, Transport, Handler, HandleUpload, Over

-----------------------------------------------------------------------------
LEMMA FlowStep == UploadInv /\ [UploadNext]_uploadVars => FlowInv'
<1> SUFFICES ASSUME UploadInv, [UploadNext]_uploadVars PROVE FlowInv'
    OBVIOUS
<1>b. /\ Len(body) \in Nat /\ written \in Nat /\ written <= Len(body)
      /\ received \in Nat
    <2>1. Len(body) \in Nat /\ MaxBody \in Nat
        BY UploadAssumption DEF UploadInv, UploadTypeOK
    <2>2. QED
        BY <2>1 DEF UploadInv, UploadTypeOK
<1>s. staged \in [Files -> 0..MaxBody] /\ staged # None
    BY UploadAssumption DEF UploadInv, UploadTypeOK
<1>n. ASSUME NEW piece, Next(piece)
      PROVE  /\ received + 1 <= written
             /\ \A file \in Files : staged[file] + 1 <= received + 1 /\ staged[file] <= received + 1
    <2>1. \A file \in Files : staged[file] \in Nat /\ staged[file] <= received
        BY <1>s, UploadAssumption DEF UploadInv, FlowInv, BodyInv
    <2>2. received < written
        BY <1>n DEF Next, Arrived
    <2>3. QED
        BY <1>b, <2>1, <2>2
<1> USE DEF UploadInv, FlowInv, AuthInv, BodyInv, WriterInv, ReplyInv, MainInv, Complete,
        Outcome, Files, Replies, keyVars, request, publisher, ends, connection, upload,
        server, client
<1>1. CASE FileFails
    BY <1>1, <1>b DEF FileFails, StopWriting, Writing
<1>2. CASE WriteFails
    BY <1>2, <1>b DEF WriteFails, StopWriting, Writing
<1>3. CASE WritesAll
    BY <1>3, <1>b DEF WritesAll, StopWriting, Writing
<1>4. CASE FinishWriting
    BY <1>4, <1>b DEF FinishWriting, CloseWithError
<1>5. CASE AuthorizeFails
    BY <1>5, <1>b DEF AuthorizeFails, ClosePipe
<1>6. CASE StartRequest
    BY <1>6, <1>b DEF StartRequest
<1>7. CASE GetAnswer
    BY <1>7, <1>b DEF GetAnswer
<1>8. CASE ReturnOutcome
    BY <1>8, <1>b DEF ReturnOutcome
<1>9. CASE TransferPiece
    BY <1>9, <1>b DEF TransferPiece, Transferring, Writing
<1>10. CASE EndBody
    BY <1>10, <1>b DEF EndBody, Transferring, Failed
<1>11. CASE CloseBody
    BY <1>11, <1>b DEF CloseBody
<1>12. CASE DeliverReply
    BY <1>12, <1>b DEF DeliverReply, UploadTypeOK
<1>13. CASE Disconnect
    BY <1>13, <1>b DEF Disconnect
<1>14. CASE Arrive
    BY <1>14, <1>b DEF Arrive
<1>15. CASE RejectToken
    BY <1>15, <1>b DEF RejectToken, Reply
<1>16. CASE VerifyToken
    BY <1>16, <1>b DEF VerifyToken, TakeKeySet, Verification, LookUp, FetchOrJoin,
       CheckFetched, Move
<1>17. CASE Authorize
    BY <1>17, <1>b DEF Authorize, Granted, Reply
<1>18. ASSUME NEW file \in Files, BeginPart(file) PROVE FlowInv'
    BY <1>18, <1>b, <1>n DEF BeginPart, Reply, Consume
<1>19. ASSUME NEW file \in Files, CopyPiece(file) PROVE FlowInv'
    BY <1>19, <1>b, <1>s, <1>n DEF CopyPiece, Consume
<1>20. ASSUME NEW file \in Files, EndPart(file) PROVE FlowInv'
    BY <1>20, <1>b DEF EndPart
<1>21. CASE RejectPart
    BY <1>21, <1>b, <1>n DEF RejectPart, Reply, Consume
<1>22. CASE BreakOff \/ StagingFails
    BY <1>22, <1>b DEF BreakOff, StagingFails, Reply
<1>23. CASE EndParts
    <2>1. CASE Next("end")
        <3>1. Complete
            BY <2>1, NextPiece
        <3>2. QED
            BY <1>23, <2>1, <3>1, <1>b, <1>n DEF EndParts, Reply, Consume
    <2>2. CASE AtEnd("eof")
        <3>1. Complete
            BY <2>2, <1>b DEF AtEnd
        <3>2. QED
            BY <1>23, <2>2, <3>1, <1>b DEF EndParts, Reply, AtEnd, Next, Arrived
    <2>3. QED
        BY <2>1, <2>2, <1>23 DEF EndParts
<1>24. CASE PublishUpload
    BY <1>24, <1>b, <1>s DEF PublishUpload, Reply, Refuse
<1>25. CASE Elsewhere
    BY <1>25, <1>b DEF Elsewhere, Verifying
<1>26. CASE UNCHANGED uploadVars
    BY <1>26, <1>b DEF uploadVars
<1>27. QED
    BY <1>1, <1>2, <1>3, <1>4, <1>5, <1>6, <1>7, <1>8, <1>9, <1>10, <1>11, <1>12, <1>13,
       <1>14, <1>15, <1>16, <1>17, <1>18, <1>19, <1>20, <1>21, <1>22, <1>23, <1>24,
       <1>25, <1>26 DEF UploadNext, Goroutine, Caller, Transport, Handler, HandleUpload, Over

LEMMA UploadStep == UploadInv /\ [UploadNext]_uploadVars => UploadInv'
<1> SUFFICES ASSUME UploadInv, [UploadNext]_uploadVars PROVE UploadInv'
    OBVIOUS
<1>1. KeyInv'
    BY UploadKeySteps, KeyStep DEF UploadInv
<1>2. QED
    BY <1>1, UploadTypeStep, FlowStep DEF UploadInv

-----------------------------------------------------------------------------
(* The inductive invariant of an upload holds in every state.              *)
THEOREM UploadInvariant == UploadSpec => []UploadInv
<1>1. UploadInit => UploadInv
    BY UploadInitInv
<1>2. UploadInv /\ [UploadNext]_uploadVars => UploadInv'
    BY UploadStep
<1>3. QED
    BY <1>1, <1>2, PTL DEF UploadSpec

(* An upload uses the key cache as KeySet has it: every behaviour of Upload *)
(* is one of KeySet (server.go:319, jwt.go:50-60).                         *)
THEOREM UploadImplementsKeySet == UploadSpec => KeySpec
<1>1. UploadInit => KeyInit
    BY DEF UploadInit
<1>2. UploadInv /\ [UploadNext]_uploadVars => [KeyNext]_keyVars
    BY UploadKeySteps DEF UploadInv
<1>3. QED
    BY <1>1, <1>2, UploadInvariant, PTL DEF UploadSpec, KeySpec

(* The variables of an upload, and those of the key cache, keep their      *)
(* types; no limit is exceeded.                                            *)
THEOREM UploadTypeCorrect == UploadSpec => []UploadTypeOK
<1>1. UploadInv => UploadTypeOK
    BY DEF UploadInv
<1>2. QED
    BY <1>1, UploadInvariant, PTL

(* The handler reads nothing of an upload, and publishes nothing, for a    *)
(* token without the permission or whose key was withdrawn a lifetime      *)
(* before, whatever else the server verifies (server.go:319-329).          *)
THEOREM OnlyTheAuthorized == UploadSpec => []AuthorizedOnly
<1>1. UploadInv => AuthorizedOnly
    <2> SUFFICES ASSUME UploadInv, received > 0 \/ published # None PROVE AuthorizedOnly
        BY DEF AuthorizedOnly
    <2>1. token = "scoped" /\ phase[Request] = "accepted"
        BY DEF UploadInv, FlowInv, AuthInv
    <2>2. BoundedTrust
        BY KeyInvImplies DEF UploadInv
    <2>3. QED
        BY <2>1, <2>2, UploadAssumption DEF BoundedTrust, AuthorizedOnly
<1>2. QED
    BY <1>1, UploadInvariant, PTL

(* What Publish returns agrees with what happened at the server, for any   *)
(* bodies and wherever it breaks (client.go:283-291).                      *)
THEOREM PublishTellsTheTruth == UploadSpec => []TellsTheTruth
<1>1. UploadInv => TellsTheTruth
    BY DEF UploadInv, FlowInv, UploadTypeOK, BodyInv, WriterInv, ReplyInv, MainInv,
       Outcome, Replies, TellsTheTruth
<1>2. QED
    BY <1>1, UploadInvariant, PTL

(* An early answer of the server is what Publish reports (client.go:285).  *)
THEOREM EarlyAnswersAreReported == UploadSpec => []ReportsEarlyAnswer
<1>1. UploadInv => ReportsEarlyAnswer
    BY DEF UploadInv, FlowInv, UploadTypeOK, BodyInv, WriterInv, ReplyInv, MainInv,
       Outcome, Replies, ReportsEarlyAnswer
<1>2. QED
    BY <1>1, UploadInvariant, PTL

-----------------------------------------------------------------------------
(* The parts of a body, as the handler counts them.                        *)

(* The pieces of data among the first n that belong to parts of this file. *)
DataIn(file, n) ==
    {i \in 1..n :
        /\ body[i] = "data"
        /\ \E j \in 1..i : body[j] = file /\ \A m \in j + 1..i : body[m] = "data"}

(* The first n pieces have at most one part for each file and no others.   *)
PartsApart(n) ==
    /\ \A i \in 1..n : body[i] \notin {"unnamed", "other"}
    /\ \A i, j \in 1..n : body[i] = body[j] /\ body[i] \in Files => i = j

(* The handler is behind this header, in the data of its part.             *)
InPart(file, n) ==
    \E j \in 1..n : body[j] = file /\ \A m \in j + 1..n : body[m] = "data"

(* What was read is counted as it stands in the body.                      *)
CountInv ==
    handler \in {"next", "publish"} \cup Files =>
        /\ PartsApart(received)
        /\ \A file \in Files :
               /\ file \in parts \/ handler = file
                      <=> \E i \in 1..received : body[i] = file
               /\ staged[file] = Cardinality(DataIn(file, received))

(* Where the handler stands: before the first piece, in a part, before a   *)
(* header or the boundary that ended a part, or behind the whole body.     *)
PositionInv ==
    /\ handler \in {"none", "authenticate"} =>
           received = 0 /\ parts = {} /\ staged = [file \in Files |-> 0]
    /\ handler \in Files => handler \notin parts /\ InPart(handler, received)
    /\ handler = "next" => received < written \/ (received = 0 /\ parts = {})
    /\ handler = "publish" =>
           /\ received = Len(body) /\ received > 0 /\ body[received] = "end"
           /\ "package" \in parts

(* Until the server answers, only a file or the connection that fails cuts *)
(* the body short; the reader is closed early only by a Publish that never *)
(* sent its request.                                                       *)
UncutInv ==
    /\ main = "returned" /\ wire = "none" => pipe # "open"
    /\ reply = "nothing" /\ ~broke /\ writeErr # "file" =>
           /\ wire # "cut" /\ pipe # "broken"
           /\ writeErr = "ErrClosedPipe" => main = "returned" /\ wire = "none"
           /\ reader = "closed" =>
                  wire = "eof" \/ (main = "returned" /\ wire = "none")

PartsInv == CountInv /\ PositionInv /\ UncutInv /\ PublishesComplete /\ RejectsMalformedOnly

(* Pieces and cardinalities.                                               *)
LEMMA DataFinite ==
    ASSUME NEW file, NEW n \in Nat
    PROVE  /\ IsFiniteSet(DataIn(file, n)) /\ DataIn(file, n) \subseteq 1..n
           /\ Cardinality(DataIn(file, n)) \in Nat
<1>1. IsFiniteSet(1..n) /\ DataIn(file, n) \subseteq 1..n
    BY FS_Interval DEF DataIn
<1>2. IsFiniteSet(DataIn(file, n))
    BY <1>1, FS_Subset
<1>3. QED
    BY <1>1, <1>2, FS_CardinalityType

LEMMA NoDataYet ==
    ASSUME NEW file
    PROVE  Cardinality(DataIn(file, 0)) = 0
<1>1. DataIn(file, 0) = {}
    BY DEF DataIn
<1>2. QED
    BY <1>1, FS_EmptySet

(* A header or a boundary adds no data.                                    *)
LEMMA HeaderPiece ==
    ASSUME NEW file, NEW n \in Nat, body[n + 1] # "data"
    PROVE  DataIn(file, n + 1) = DataIn(file, n)
<1>1. \A i \in 1..n + 1 : i \in 1..n \/ i = n + 1
    OBVIOUS
<1>2. 1..n \subseteq 1..n + 1
    OBVIOUS
<1>3. QED
    BY <1>1, <1>2 DEF DataIn

(* A piece of data belongs to the part that the handler is in, only.       *)
LEMMA DataPiece ==
    ASSUME NEW file \in Files, NEW other \in Files, NEW n \in Nat,
           body[n + 1] = "data", InPart(file, n)
    PROVE  /\ DataIn(file, n + 1) = DataIn(file, n) \cup {n + 1}
           /\ other # file => DataIn(other, n + 1) = DataIn(other, n)
           /\ InPart(file, n + 1)
<1>1. PICK j \in 1..n : body[j] = file /\ \A m \in j + 1..n : body[m] = "data"
    BY DEF InPart
<1>2. /\ j \in 1..n + 1 /\ \A m \in j + 1..n + 1 : body[m] = "data"
      /\ \A i \in 1..n + 1 : i \in 1..n \/ i = n + 1
      /\ 1..n \subseteq 1..n + 1
    BY <1>1
<1>3. InPart(file, n + 1)
    BY <1>1, <1>2 DEF InPart
<1>4. DataIn(file, n + 1) = DataIn(file, n) \cup {n + 1}
    <2>1. n + 1 \in DataIn(file, n + 1)
        BY <1>1, <1>2 DEF DataIn
    <2>2. QED
        BY <1>2, <2>1 DEF DataIn
<1>5. ASSUME other # file PROVE DataIn(other, n + 1) = DataIn(other, n)
    <2>1. ASSUME NEW k \in 1..n + 1, body[k] = other,
                 \A m \in k + 1..n + 1 : body[m] = "data"
          PROVE  FALSE
        <3>1. k \in 1..n
            BY <1>2, <2>1 DEF Files
        <3>2. CASE k < j
            <4>1. j \in k + 1..n + 1
                BY <1>1, <3>1, <3>2
            <4>2. QED
                BY <1>1, <2>1, <4>1 DEF Files
        <3>3. CASE j < k
            <4>1. k \in j + 1..n
                BY <1>1, <3>1, <3>3
            <4>2. QED
                BY <1>1, <2>1, <4>1 DEF Files
        <3>4. CASE j = k
            BY <1>1, <2>1, <1>5, <3>4
        <3>5. QED
            BY <1>1, <3>1, <3>2, <3>3, <3>4
    <2>2. n + 1 \notin DataIn(other, n + 1)
        BY <2>1 DEF DataIn
    <2>3. QED
        BY <1>2, <2>2 DEF DataIn
<1>6. QED
    BY <1>3, <1>4, <1>5

(* Two places of one piece are two occurrences.                            *)
LEMMA Places ==
    ASSUME Len(body) \in Nat, NEW piece
    PROVE  /\ Occurrences(piece) \in Nat
           /\ Occurrences(piece) = 0 <=> \A i \in 1..Len(body) : body[i] # piece
           /\ Occurrences(piece) <= 1 <=>
                  \A i, j \in 1..Len(body) : body[i] = piece /\ body[j] = piece => i = j
<1> DEFINE at == {i \in 1..Len(body) : body[i] = piece}
<1>1. IsFiniteSet(1..Len(body)) /\ at \subseteq 1..Len(body)
    BY FS_Interval
<1>2. IsFiniteSet(at)
    BY <1>1, FS_Subset
<1>3. Cardinality(at) \in Nat
    BY <1>2, FS_CardinalityType
<1>4. Occurrences(piece) = Cardinality(at)
    BY DEF Occurrences
<1>5. Cardinality(at) = 0 <=> at = {}
    BY <1>2, FS_EmptySet
<1>6. Cardinality(at) = 1 <=> \E x : at = {x}
    BY <1>2, FS_Singleton
<1>7. Cardinality(at) <= 1 <=> Cardinality(at) = 0 \/ Cardinality(at) = 1
    BY <1>3
<1>8. Cardinality(at) <= 1 <=> \A i, j \in at : i = j
    BY <1>5, <1>6, <1>7
<1>9. QED
    BY <1>3, <1>4, <1>5, <1>8

(* Only some steps of the handler touch what it has counted.               *)
LEMMA ReadingSteps ==
    ASSUME UploadInv, [UploadNext]_uploadVars
    PROVE  /\ UNCHANGED body
           /\ \/ UNCHANGED <<handler, upload, reply, published>> /\ written <= written'
              \/ /\ UNCHANGED <<publisher, ends, connection>>
                 /\ Arrive \/ RejectToken \/ Authorize \/ HandleUpload \/ StagingFails
<1> USE DEF UploadInv, UploadTypeOK, request, publisher, ends, connection, upload, server,
        client
<1>0. written \in Nat /\ written <= written
    <2>1. Len(body) \in Nat
        BY UploadAssumption
    <2>2. QED
        BY <2>1
<1>1. CASE UNCHANGED uploadVars
    BY <1>0, <1>1 DEF uploadVars
<1>2. CASE FileFails \/ Goroutine
    BY <1>0, <1>2 DEF FileFails, Goroutine, WriteFails, WritesAll, StopWriting, FinishWriting
<1>3. CASE Caller
    BY <1>0, <1>3 DEF Caller, AuthorizeFails, StartRequest, GetAnswer, ReturnOutcome
<1>4. CASE Transport \/ Disconnect
    BY <1>0, <1>4 DEF Transport, TransferPiece, EndBody, CloseBody, DeliverReply, Disconnect
<1>5. CASE VerifyToken \/ Elsewhere
    BY <1>0, <1>5 DEF VerifyToken, Elsewhere
<1>6. CASE Arrive \/ RejectToken \/ Authorize
    BY <1>6 DEF Arrive, RejectToken, Authorize
<1>7. CASE HandleUpload \/ StagingFails
    BY <1>7 DEF HandleUpload, BeginPart, RejectPart, CopyPiece, EndPart, StagingFails,
       BreakOff, EndParts, PublishUpload
<1>8. CASE Over
    BY <1>1, <1>8 DEF Over
<1>9. QED
    BY <1>1, <1>2, <1>3, <1>4, <1>5, <1>6, <1>7, <1>8 DEF UploadNext, Handler

LEMMA CountStep ==
    ASSUME UploadInv, CountInv, PositionInv, [UploadNext]_uploadVars
    PROVE  CountInv'
<1>b. UNCHANGED body /\ UploadTypeOK /\ BodyInv
    BY ReadingSteps DEF UploadInv, FlowInv
<1>n. received \in Nat
    BY <1>b, UploadAssumption DEF UploadTypeOK
<1>k. ASSUME UNCHANGED <<handler, upload>> PROVE CountInv'
    BY <1>b, <1>k DEF CountInv, PartsApart, DataIn, upload
<1>d. ASSUME handler' \in {"done", "authenticate"} PROVE CountInv'
    BY <1>d DEF CountInv, Files
<1>1. CASE Arrive \/ RejectToken \/ StagingFails \/ BreakOff \/ PublishUpload \/ RejectPart
    BY <1>1, <1>d DEF Arrive, RejectToken, StagingFails, BreakOff, PublishUpload, RejectPart,
       Reply, Refuse
<1>2. CASE Authorize
    <2>1. CASE handler' = "done"
        BY <2>1, <1>d
    <2>2. CASE handler' = "next" /\ UNCHANGED upload
        <3>1. received = 0 /\ parts = {} /\ staged = [file \in Files |-> 0]
            BY <1>2 DEF Authorize, PositionInv
        <3>2. received' = 0 /\ parts' = {} /\ staged' = [file \in Files |-> 0]
            BY <2>2, <3>1 DEF upload
        <3>3. \A file : Cardinality(DataIn(file, received))' = 0
            <4> TAKE file
            <4>1. DataIn(file, received)' = DataIn(file, 0)
                BY <1>b, <3>2 DEF DataIn
            <4>2. QED
                BY <4>1, NoDataYet
        <3>4. QED
            BY <2>2, <3>2, <3>3 DEF CountInv, PartsApart, Files
    <2>3. QED
        BY <1>2, <2>1, <2>2 DEF Authorize, Reply
<1>3. ASSUME NEW file \in Files, BeginPart(file) PROVE CountInv'
    <2>1. CASE handler' = "done"
        BY <2>1, <1>d
    <2>2. CASE ~Repeated(file) /\ handler' = file
        <3>1. /\ handler = "next" /\ received' = received + 1 /\ UNCHANGED <<staged, parts>>
              /\ body[received + 1] = file /\ file \notin parts
              /\ file # "data" /\ file \notin {"unnamed", "other"}
            BY <1>3, <2>2 DEF BeginPart, Next, Consume, Repeated, Files
        <3>2. \A i \in 1..received : body[i] # file
            BY <3>1 DEF CountInv, Files
        <3>3. /\ 1..received \subseteq 1..received + 1 /\ received + 1 \in 1..received + 1
              /\ \A i \in 1..received + 1 : i \in 1..received \/ i = received + 1
            BY <1>n
        <3>4. PartsApart(received)'
            BY <1>b, <3>1, <3>2, <3>3 DEF CountInv, PartsApart
        <3>5. ASSUME NEW other \in Files
              PROVE  /\ other \in parts' \/ handler' = other
                           <=> \E i \in 1..received' : body[i] = other
                     /\ staged'[other] = Cardinality(DataIn(other, received))'
            <4>1. other \in parts' \/ handler' = other
                      <=> \E i \in 1..received' : body[i] = other
                BY <2>2, <3>1, <3>3 DEF CountInv, Files
            <4>2. DataIn(other, received)' = DataIn(other, received + 1)
                BY <1>b, <3>1 DEF DataIn
            <4>3. DataIn(other, received + 1) = DataIn(other, received)
                BY <1>n, <3>1, HeaderPiece
            <4>4. QED
                BY <3>1, <4>1, <4>2, <4>3 DEF CountInv
        <3>6. QED
            BY <1>b, <3>4, <3>5 DEF CountInv
    <2>3. QED
        BY <1>3, <2>1, <2>2 DEF BeginPart, Reply
<1>4. ASSUME NEW file \in Files, CopyPiece(file) PROVE CountInv'
    <2>1. /\ handler = file /\ handler' = file /\ received' = received + 1 /\ UNCHANGED parts
          /\ body[received + 1] = "data" /\ staged' = [staged EXCEPT ![file] = @ + 1]
        BY <1>4 DEF CopyPiece, Next, Consume
    <2>2. InPart(file, received)
        BY <2>1 DEF PositionInv
    <2>3. /\ 1..received \subseteq 1..received + 1 /\ received + 1 \in 1..received + 1
          /\ \A i \in 1..received + 1 : i \in 1..received \/ i = received + 1
          /\ received + 1 \notin 1..received
        BY <1>n
    <2>4. PartsApart(received)'
        BY <1>b, <2>1, <2>3 DEF CountInv, PartsApart, Files
    <2>5. ASSUME NEW other \in Files
          PROVE  /\ other \in parts' \/ handler' = other
                       <=> \E i \in 1..received' : body[i] = other
                 /\ staged'[other] = Cardinality(DataIn(other, received))'
        <3>1. other \in parts' \/ handler' = other
                  <=> \E i \in 1..received' : body[i] = other
            BY <2>1, <2>3 DEF CountInv, Files
        <3>2. DataIn(other, received)' = DataIn(other, received + 1)
            BY <1>b, <2>1 DEF DataIn
        <3>3. staged[other] = Cardinality(DataIn(other, received))
            BY <2>1 DEF CountInv
        <3>4. CASE other = file
            <4>1. DataIn(file, received + 1) = DataIn(file, received) \cup {received + 1}
                BY <1>n, <2>1, <2>2, DataPiece
            <4>2. IsFiniteSet(DataIn(file, received)) /\ received + 1 \notin DataIn(file, received)
                BY <1>n, <2>3, DataFinite
            <4>3. Cardinality(DataIn(file, received + 1)) = Cardinality(DataIn(file, received)) + 1
                BY <4>1, <4>2, FS_AddElement
            <4>4. staged'[file] = staged[file] + 1
                BY <1>b, <2>1 DEF UploadTypeOK
            <4>5. QED
                BY <3>1, <3>2, <3>3, <3>4, <4>3, <4>4
        <3>5. CASE other # file
            <4>1. DataIn(other, received + 1) = DataIn(other, received)
                BY <1>n, <2>1, <2>2, <3>5, DataPiece
            <4>2. staged'[other] = staged[other]
                BY <1>b, <2>1, <3>5 DEF UploadTypeOK
            <4>3. QED
                BY <3>1, <3>2, <3>3, <4>1, <4>2
        <3>6. QED
            BY <3>4, <3>5
    <2>6. QED
        BY <1>b, <2>4, <2>5 DEF CountInv
<1>5. ASSUME NEW file \in Files, EndPart(file) PROVE CountInv'
    <2>1. /\ handler = file /\ handler' = "next" /\ parts' = parts \cup {file}
          /\ UNCHANGED <<received, staged>>
        BY <1>5 DEF EndPart
    <2>2. PartsApart(received)'
        BY <1>b, <2>1 DEF CountInv, PartsApart
    <2>3. \A other : DataIn(other, received)' = DataIn(other, received)
        BY <1>b, <2>1 DEF DataIn
    <2>4. QED
        BY <1>b, <2>1, <2>2, <2>3 DEF CountInv, Files
<1>6. CASE EndParts
    <2>1. CASE handler' = "done"
        BY <2>1, <1>d
    <2>2. CASE handler' = "publish" /\ Next("end") /\ Consume
        <3>1. /\ handler = "next" /\ received' = received + 1 /\ UNCHANGED <<staged, parts>>
              /\ body[received + 1] = "end"
            BY <1>6, <2>2 DEF EndParts, Next, Consume
        <3>2. /\ 1..received \subseteq 1..received + 1
              /\ \A i \in 1..received + 1 : i \in 1..received \/ i = received + 1
            BY <1>n
        <3>3. PartsApart(received)'
            BY <1>b, <3>1, <3>2 DEF CountInv, PartsApart, Files
        <3>4. \A other : DataIn(other, received)' = DataIn(other, received)
            <4> TAKE other
            <4>1. DataIn(other, received)' = DataIn(other, received + 1)
                BY <1>b, <3>1 DEF DataIn
            <4>2. QED
                BY <1>n, <3>1, <4>1, HeaderPiece
        <3>5. QED
            BY <1>b, <2>2, <3>1, <3>2, <3>3, <3>4 DEF CountInv, Files
    <2>3. CASE handler' = "publish" /\ UNCHANGED received
        <3>1. handler = "next" /\ UNCHANGED <<staged, parts>>
            BY <1>6 DEF EndParts
        <3>2. \A other : DataIn(other, received)' = DataIn(other, received)
            BY <1>b, <2>3 DEF DataIn
        <3>3. QED
            BY <1>b, <2>3, <3>1, <3>2 DEF CountInv, PartsApart, Files
    <2>4. QED
        BY <1>6, <2>1, <2>2, <2>3 DEF EndParts, Reply
<1>7. QED
    BY <1>k, <1>1, <1>2, <1>3, <1>4, <1>5, <1>6, ReadingSteps DEF HandleUpload

LEMMA PositionStep ==
    ASSUME UploadInv, UploadTypeOK', PositionInv, [UploadNext]_uploadVars
    PROVE  PositionInv'
<1>b. UNCHANGED body /\ UploadTypeOK /\ BodyInv
    BY ReadingSteps DEF UploadInv, FlowInv
<1>n. /\ received \in Nat /\ written \in Nat /\ written' \in Nat /\ Len(body) \in Nat
      /\ written <= Len(body)
    <2>1. Len(body) \in Nat
        BY <1>b, UploadAssumption DEF UploadTypeOK
    <2>2. written \in 0..Len(body) /\ written' \in 0..Len(body)
        BY <1>b DEF UploadTypeOK
    <2>3. QED
        BY <1>b, <2>1, <2>2, UploadAssumption DEF UploadTypeOK
<1>k. ASSUME UNCHANGED <<handler, upload>>, written <= written' PROVE PositionInv'
    BY <1>b, <1>n, <1>k DEF PositionInv, InPart, upload
<1>d. ASSUME handler' = "done" PROVE PositionInv'
    BY <1>d DEF PositionInv, Files
<1>1. CASE RejectToken \/ StagingFails \/ BreakOff \/ PublishUpload \/ RejectPart
    BY <1>1, <1>d DEF RejectToken, StagingFails, BreakOff, PublishUpload, RejectPart,
       Reply, Refuse
<1>2. CASE Arrive
    BY <1>2 DEF Arrive, PositionInv, upload, Files
<1>3. CASE Authorize
    BY <1>3, <1>d DEF Authorize, PositionInv, upload, Files, Reply
<1>4. ASSUME NEW file \in Files, BeginPart(file) PROVE PositionInv'
    <2>1. CASE handler' = "done"
        BY <2>1, <1>d
    <2>2. CASE ~Repeated(file) /\ handler' = file
        <3>1. received' = received + 1 /\ UNCHANGED parts /\ file \notin parts
              /\ body[received + 1] = file
            BY <1>4, <2>2 DEF BeginPart, Next, Consume, Repeated
        <3>2. InPart(file, received)'
            <4>1. received' \in 1..received' /\ received' + 1..received' = {}
                BY <1>n, <3>1
            <4>2. QED
                BY <1>b, <3>1, <4>1 DEF InPart
        <3>3. QED
            BY <2>2, <3>1, <3>2 DEF PositionInv, Files
    <2>3. QED
        BY <1>4, <2>1, <2>2 DEF BeginPart, Reply
<1>5. ASSUME NEW file \in Files, CopyPiece(file) PROVE PositionInv'
    <2>1. /\ handler = file /\ handler' = file /\ received' = received + 1 /\ UNCHANGED parts
          /\ body[received + 1] = "data"
        BY <1>5 DEF CopyPiece, Next, Consume
    <2>2. InPart(file, received) /\ file \notin parts
        BY <2>1 DEF PositionInv
    <2>3. InPart(file, received + 1)
        BY <1>n, <2>1, <2>2, DataPiece
    <2>4. InPart(file, received)'
        BY <1>b, <2>1, <2>3 DEF InPart
    <2>5. QED
        BY <2>1, <2>2, <2>4 DEF PositionInv, Files
<1>6. ASSUME NEW file \in Files, EndPart(file) PROVE PositionInv'
    <2>1. handler' = "next" /\ UNCHANGED <<received, written>> /\ PartEnds
        BY <1>6 DEF EndPart, client, publisher
    <2>2. received < written
        BY <2>1 DEF PartEnds, Next, Arrived
    <2>3. QED
        BY <2>1, <2>2 DEF PositionInv, Files
<1>7. CASE EndParts
    <2>1. CASE handler' = "done"
        BY <2>1, <1>d
    <2>2. CASE handler' = "publish" /\ "package" \in parts
        <3>1. handler = "next" /\ UNCHANGED parts
            BY <1>7 DEF EndParts
        <3>2. CASE Next("end") /\ Consume
            <4>1. /\ received' = received + 1 /\ body[received + 1] = "end"
                  /\ received < written
                BY <3>2 DEF Next, Arrived, Consume
            <4>2. received + 1 \notin 1..Len(body) - 1
                BY <1>b, <4>1, UploadAssumption DEF UploadTypeOK
            <4>3. received + 1 = Len(body)
                BY <1>n, <4>1, <4>2
            <4>4. QED
                BY <1>b, <1>n, <2>2, <3>1, <4>1, <4>3 DEF PositionInv, Files
        <3>3. CASE AtEnd("eof")
            BY <1>n, <2>2, <3>1, <3>3 DEF AtEnd, PositionInv
        <3>4. QED
            BY <1>7, <3>2, <3>3 DEF EndParts
    <2>3. QED
        BY <1>7, <2>1, <2>2 DEF EndParts, Reply
<1>8. QED
    BY <1>k, <1>1, <1>2, <1>3, <1>4, <1>5, <1>6, <1>7, ReadingSteps DEF HandleUpload

(* Only a file or the connection cuts a body that is not answered yet.     *)
LEMMA UncutStep ==
    ASSUME UploadInv, UncutInv, [UploadNext]_uploadVars
    PROVE  UncutInv'
<1> USE DEF UploadInv, FlowInv, UploadTypeOK, request, publisher, ends, connection, upload,
        server, client
<1>n. answer = "nothing" \/ answer \in Replies \/ answer = "network"
    OBVIOUS
<1>1. CASE FileFails
    BY <1>1 DEF FileFails, StopWriting, UncutInv
<1>2. CASE WriteFails
    BY <1>2 DEF WriteFails, StopWriting, UncutInv, Writing, BodyInv, WriterInv
<1>3. CASE WritesAll
    BY <1>3 DEF WritesAll, StopWriting, UncutInv, Writing, WriterInv
<1>4. CASE FinishWriting
    BY <1>4 DEF FinishWriting, CloseWithError, UncutInv
<1>5. CASE AuthorizeFails
    BY <1>5 DEF AuthorizeFails, ClosePipe, UncutInv, BodyInv
<1>6. CASE StartRequest
    BY <1>6 DEF StartRequest, UncutInv, BodyInv
<1>7. CASE GetAnswer \/ ReturnOutcome
    BY <1>7 DEF GetAnswer, ReturnOutcome, UncutInv, BodyInv, MainInv
<1>8. CASE TransferPiece
    BY <1>8 DEF TransferPiece, UncutInv
<1>9. CASE EndBody
    BY <1>9 DEF EndBody, Transferring, UncutInv
<1>10. CASE CloseBody
    BY <1>10, <1>n DEF CloseBody, UncutInv, ReplyInv, BodyInv, Replies
<1>11. CASE DeliverReply
    BY <1>11 DEF DeliverReply, UncutInv
<1>12. CASE Disconnect
    BY <1>12 DEF Disconnect, UncutInv
<1>13. ASSUME UNCHANGED <<publisher, ends, connection>>, reply = "nothing" \/ UNCHANGED reply
       PROVE  UncutInv'
    BY <1>13 DEF UncutInv
<1>14. CASE UNCHANGED uploadVars
    BY <1>13, <1>14 DEF uploadVars
<1>15. CASE VerifyToken \/ Elsewhere
    BY <1>13, <1>15 DEF VerifyToken, Elsewhere
<1>16. CASE Arrive \/ RejectToken \/ Authorize \/ StagingFails
    BY <1>13, <1>16 DEF Arrive, RejectToken, Authorize, StagingFails, Reply, ReplyInv, Files
<1>17. CASE HandleUpload
    BY <1>13, <1>17 DEF HandleUpload, BeginPart, RejectPart, CopyPiece, EndPart, BreakOff,
       EndParts, PublishUpload, Reply, Refuse, ReplyInv, Files
<1>18. QED
    BY <1>1, <1>2, <1>3, <1>4, <1>5, <1>6, <1>7, <1>8, <1>9, <1>10, <1>11, <1>12, <1>14,
       <1>15, <1>16, <1>17 DEF UploadNext, Goroutine, Caller, Transport, Handler, Over

(* What is published is the whole body: the handler is behind its end.     *)
LEMMA PublishedStep ==
    ASSUME UploadInv, PartsInv, [UploadNext]_uploadVars
    PROVE  PublishesComplete'
<1>b. UNCHANGED body /\ UploadTypeOK
    BY ReadingSteps DEF UploadInv
<1>1. CASE UNCHANGED published
    BY <1>b, <1>1 DEF PartsInv, PublishesComplete, WellFormed, Occurrences, DataOf
<1>2. CASE PublishUpload /\ published' = staged
    <2>1. handler = "publish"
        BY <1>2 DEF PublishUpload
    <2>2. /\ received = Len(body) /\ received > 0 /\ body[Len(body)] = "end"
          /\ "package" \in parts
        BY <2>1 DEF PartsInv, PositionInv
    <2>3. received \in Nat /\ received <= MaxBody /\ MaxBody \in Nat
        BY <1>b, UploadAssumption DEF UploadTypeOK
    <2>4. PartsApart(Len(body))
        BY <2>1, <2>2 DEF PartsInv, CountInv
    <2>5. \A file \in Files : staged[file] = DataOf(file)
        BY <2>1, <2>2 DEF PartsInv, CountInv, DataIn, DataOf
    <2>6. Occurrences("package") = 1
        <3>1. \E i \in 1..Len(body) : body[i] = "package"
            BY <2>1, <2>2 DEF PartsInv, CountInv, Files
        <3>2. Occurrences("package") # 0
            BY <2>2, <2>3, <3>1, Places
        <3>3. Occurrences("package") <= 1 /\ Occurrences("package") \in Nat
            BY <2>2, <2>3, <2>4, Places DEF PartsApart, Files
        <3>4. QED
            BY <3>2, <3>3
    <2>7. Occurrences("signature") <= 1
        BY <2>2, <2>3, <2>4, Places DEF PartsApart, Files
    <2>8. Occurrences("unnamed") = 0 /\ Occurrences("other") = 0
        BY <2>2, <2>3, <2>4, Places DEF PartsApart
    <2>9. WellFormed
        BY <2>2, <2>3, <2>6, <2>7, <2>8 DEF WellFormed
    <2>10. staged = [file \in Files |-> DataOf(file)]
        BY <1>b, <2>5 DEF UploadTypeOK
    <2>11. WellFormed' /\ \A file : DataOf(file)' = DataOf(file)
        BY <1>b, <2>9 DEF WellFormed, Occurrences, DataOf
    <2>12. QED
        BY <1>2, <2>10, <2>11 DEF PublishesComplete
<1>3. QED
    BY <1>1, <1>2, ReadingSteps DEF Arrive, RejectToken, Authorize, StagingFails,
       HandleUpload, BeginPart, RejectPart, CopyPiece, EndPart, BreakOff, EndParts,
       PublishUpload

(* What the handler calls malformed is, unless something broke.            *)
LEMMA MalformedStep ==
    ASSUME UploadInv, PartsInv, [UploadNext]_uploadVars
    PROVE  RejectsMalformedOnly'
<1>b. UNCHANGED body /\ UploadTypeOK /\ BodyInv /\ ReplyInv
    BY ReadingSteps DEF UploadInv, FlowInv
<1>w. WellFormed' = WellFormed
    BY <1>b DEF WellFormed, Occurrences
<1>n. /\ received \in Nat /\ written \in Nat /\ Len(body) \in Nat /\ written <= Len(body)
      /\ received <= MaxBody /\ MaxBody \in Nat
    <2>1. Len(body) \in Nat
        BY <1>b, UploadAssumption DEF UploadTypeOK
    <2>2. QED
        BY <1>b, <2>1, UploadAssumption DEF UploadTypeOK
<1>1. ASSUME UNCHANGED reply, ~broke' => ~broke, writeErr' = "file" \/ UNCHANGED writeErr
             \/ reply = "nothing" \/ writeErr # "file"
      PROVE  RejectsMalformedOnly'
    BY <1>1, <1>w DEF PartsInv, RejectsMalformedOnly
<1>2. ASSUME reply' = "malformed", ~broke', writeErr' # "file", WellFormed,
             UNCHANGED <<publisher, ends, connection>>,
             HandleUpload
      PROVE  FALSE
    <2>1. handler # "done" /\ reply = "nothing"
        BY <1>2, <1>b DEF HandleUpload, BeginPart, RejectPart, CopyPiece, EndPart,
           BreakOff, EndParts, PublishUpload, Reply, Refuse, ReplyInv, UploadTypeOK, Files
    <2>2. ~broke /\ writeErr # "file"
        BY <1>2 DEF publisher, connection
    <2>3. wire # "cut"
        BY <2>1, <2>2 DEF PartsInv, UncutInv
    <2>4. /\ Len(body) \in 1..MaxBody /\ body[Len(body)] = "end"
          /\ Occurrences("package") = 1 /\ Occurrences("signature") <= 1
          /\ Occurrences("unnamed") = 0 /\ Occurrences("other") = 0
        BY <1>2 DEF WellFormed
    <2>5. wire = "eof" => Complete
        BY <1>b DEF UploadInv, FlowInv, WriterInv, BodyInv
    <2>6. ASSUME NEW file \in Files, BeginPart(file), Repeated(file) PROVE FALSE
        <3>1. /\ handler = "next" /\ file \in parts
              /\ received < written /\ body[received + 1] = file
            BY <2>6 DEF BeginPart, Repeated, Next, Arrived
        <3>2. PICK i \in 1..received : body[i] = file
            BY <3>1 DEF PartsInv, CountInv
        <3>3. i \in 1..Len(body) /\ received + 1 \in 1..Len(body) /\ i # received + 1
            BY <1>n, <3>1
        <3>4. ~(Occurrences(file) <= 1)
            BY <1>n, <3>1, <3>2, <3>3, Places
        <3>5. QED
            BY <2>4, <3>4 DEF Files
    <2>7. ASSUME RejectPart PROVE FALSE
        <3>1. received < written /\ body[received + 1] \in {"unnamed", "other"}
            BY <2>7 DEF RejectPart, Next, Arrived
        <3>2. received + 1 \in 1..Len(body)
            BY <1>n, <3>1
        <3>3. QED
            BY <1>n, <2>4, <3>1, <3>2, Places
    <2>8. ASSUME BreakOff PROVE FALSE
        <3>1. CASE handler \in Files /\ AtEnd("eof")
            <4>1. received = Len(body)
                BY <2>5, <3>1 DEF AtEnd, Complete
            <4>2. PICK j \in 1..received :
                      body[j] = handler /\ \A m \in j + 1..received : body[m] = "data"
                BY <3>1 DEF PartsInv, PositionInv, InPart
            <4>3. CASE j = received
                BY <2>4, <3>1, <4>1, <4>2, <4>3 DEF Files
            <4>4. CASE j < received
                <5>1. received \in j + 1..received
                    BY <1>n, <4>4
                <5>2. QED
                    BY <2>4, <4>1, <4>2, <5>1
            <4>5. QED
                BY <1>n, <4>3, <4>4
        <3>2. CASE Breaks
            BY <1>n, <2>3, <2>4, <3>2 DEF Breaks, AtEnd, TooLong
        <3>3. QED
            BY <2>8, <3>1, <3>2 DEF BreakOff
    <2>9. ASSUME EndParts, "package" \notin parts PROVE FALSE
        <3>1. handler = "next"
            BY <2>9 DEF EndParts
        <3>2. \A i \in 1..received : body[i] # "package"
            BY <2>9, <3>1 DEF PartsInv, CountInv, Files
        <3>3. ~(Occurrences("package") = 0)
            BY <2>4
        <3>4. PICK i \in 1..Len(body) : body[i] = "package"
            BY <1>n, <3>3, Places
        <3>5. CASE Next("end")
            <4>1. received < written /\ body[received + 1] = "end"
                BY <3>5 DEF Next, Arrived
            <4>2. received + 1 \notin 1..Len(body) - 1
                BY <1>b, <4>1, UploadAssumption DEF UploadTypeOK
            <4>3. i \in 1..received \/ i = received + 1
                BY <1>n, <4>1, <4>2
            <4>4. QED
                BY <3>2, <3>4, <4>1, <4>3
        <3>6. CASE AtEnd("eof")
            <4>1. received = written /\ received = Len(body)
                BY <2>5, <3>6 DEF AtEnd, Complete
            <4>2. QED
                BY <3>2, <3>4, <4>1
        <3>7. QED
            BY <2>9, <3>5, <3>6 DEF EndParts
    <2>10. QED
        <3>1. ~CopyPiece("package") /\ ~CopyPiece("signature")
            BY <1>2, <2>1 DEF CopyPiece
        <3>2. ~EndPart("package") /\ ~EndPart("signature") /\ ~PublishUpload
            BY <1>2, <2>1 DEF EndPart, PublishUpload, Reply, Refuse
        <3>3. \A file \in Files : BeginPart(file) => Repeated(file)
            BY <1>2, <2>1 DEF BeginPart
        <3>4. EndParts => "package" \notin parts
            BY <1>2, <2>1 DEF EndParts
        <3>5. QED
            BY <1>2, <2>6, <2>7, <2>8, <2>9, <3>1, <3>2, <3>3, <3>4 DEF HandleUpload, Files
<1>3. CASE UNCHANGED <<publisher, ends, connection>> /\ HandleUpload
    BY <1>2, <1>3, <1>w DEF RejectsMalformedOnly
<1>4. CASE Arrive \/ RejectToken \/ Authorize \/ StagingFails
    BY <1>4, <1>w DEF PartsInv, Arrive, RejectToken, Authorize, StagingFails, Reply,
       RejectsMalformedOnly, client, publisher, connection
<1>5. CASE UNCHANGED reply /\ ~(Arrive \/ RejectToken \/ Authorize \/ HandleUpload \/ StagingFails)
    <2>1. ~broke' => ~broke
        BY <1>b, <1>5, ReadingSteps DEF UploadNext, FileFails, Goroutine, WriteFails,
           WritesAll, StopWriting, FinishWriting, Caller, AuthorizeFails, StartRequest,
           GetAnswer, ReturnOutcome, Transport, TransferPiece, EndBody, CloseBody,
           DeliverReply, Disconnect, Handler, VerifyToken, Elsewhere, Over, uploadVars,
           connection, client, UploadTypeOK
    <2>2. writeErr = "none" \/ UNCHANGED writeErr
        BY <1>5 DEF UploadInv, FlowInv, WriterInv, Writing, UploadNext, FileFails, Goroutine,
           WriteFails, WritesAll, StopWriting, FinishWriting, Caller, AuthorizeFails,
           StartRequest, GetAnswer, ReturnOutcome, Transport, TransferPiece, EndBody,
           CloseBody, DeliverReply, Disconnect, Handler, VerifyToken, Elsewhere, Over,
           uploadVars, publisher, client
    <2>3. QED
        BY <1>1, <1>5, <2>1, <2>2
<1>6. HandleUpload => UNCHANGED <<publisher, ends, connection>>
    BY DEF HandleUpload, BeginPart, RejectPart, CopyPiece, EndPart, BreakOff, EndParts,
       PublishUpload, client, publisher, ends, connection
<1>7. QED
    BY <1>3, <1>4, <1>5, <1>6, ReadingSteps DEF upload

(* What the handler counts is what the body has, in every state.           *)
THEOREM PartsInvariant == UploadSpec => []PartsInv
<1>1. UploadInit => PartsInv
    <2> SUFFICES ASSUME UploadInit PROVE PartsInv
        OBVIOUS
    <2>1. CountInv /\ PositionInv /\ UncutInv
        BY DEF UploadInit, CountInv, PositionInv, UncutInv, Files
    <2>2. QED
        BY <2>1 DEF UploadInit, PartsInv, PublishesComplete, RejectsMalformedOnly
<1>2. UploadInv /\ UploadInv' /\ PartsInv /\ [UploadNext]_uploadVars => PartsInv'
    BY CountStep, PositionStep, UncutStep, PublishedStep, MalformedStep
       DEF PartsInv, UploadInv
<1>3. QED
    BY <1>1, <1>2, UploadInvariant, PTL DEF UploadSpec

(* Whatever breaks and wherever, what is published is one package with all *)
(* its data, at most one signature, and a body that was read to its final  *)
(* boundary (server.go:523-562, client.go:264-274).                        *)
THEOREM PublishesWholeUploads == UploadSpec => []PublishesComplete
<1>1. PartsInv => PublishesComplete
    BY DEF PartsInv
<1>2. QED
    BY <1>1, PartsInvariant, PTL

(* As long as no file and no connection breaks, an upload the handler      *)
(* calls malformed is malformed (server.go:528-560).                       *)
THEOREM OnlyTheMalformedAreRejected == UploadSpec => []RejectsMalformedOnly
<1>1. PartsInv => RejectsMalformedOnly
    BY DEF PartsInv
<1>2. QED
    BY <1>1, PartsInvariant, PTL
=============================================================================
