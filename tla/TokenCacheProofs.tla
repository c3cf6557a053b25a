-------------------------- MODULE TokenCacheProofs --------------------------
(***************************************************************************)
(* The inductive invariant of TokenCache and the theorems that follow from *)
(* it: types, what a logout leaves behind, and which refresh tokens are    *)
(* presented and kept.                                                     *)
(***************************************************************************)
EXTENDS TokenCache, TLAPS, FiniteSetTheorems

-----------------------------------------------------------------------------
(* Where a thread is in its command, and what it has by then.              *)

Working(t) == Requesting(t) /\ pc[t] \in {"read", "refresh", "authorize", "save"}

ThreadInv(t) ==
    /\ At(t, "idle") <=> job[t] = None
    /\ pc[t] \in {"source", "readOwn", "readAdmin", "lock", "read", "refresh"} => Requesting(t)
    /\ pc[t] \in {"authorize", "save"} => job[t] \in Requests \cup Logins
    /\ job[t] \in Logins => ValidLogin(job[t])
    /\ Working(t) \/ At(t, "lock") => Source(t) # None
    /\ pc[t] \in {"readOwn", "readAdmin"} <=> t \in clientLock
    /\ At(t, "readOwn") \/ At(t, "readAdmin") => Source(t) = None
    /\ At(t, "readAdmin") => OwnId(t) = Publisher
    /\ Working(t) <=> t \in keyLock
    /\ record[t] # None => pc[t] \in {"refresh", "authorize", "save"} /\ Requesting(t)
    /\ At(t, "refresh") => record[t] # None
    /\ At(t, "save") <=> result[t] # None

LocksInv ==
    /\ \A t \in clientLock : clientLock \cap Peers(t) = {}
    /\ \A t \in keyLock : \A u \in keyLock \cap Peers(t) : ~ Contends(t, u)

(* A source finds its record at the client ID it was made for.             *)
GuardInv ==
    \A c, d \in Clients : \A r, s \in Scopes :
        sources[c][r] # None /\ RecordOf(sources[c][r]) \notin unguarded =>
            Guarded(c, sources[c][r], d, sources[d][s])

ControlInv ==
    /\ TypeOK
    /\ \A t \in Threads : ThreadInv(t)
    /\ LocksInv
    /\ GuardInv

(* Each command has at most one token issued.                              *)
Pending == {t \in Threads : pc[t] \notin {"idle", "save"}}

BudgetInv == IsFiniteSet(Pending) /\ issued + Cardinality(Pending) <= commands

-----------------------------------------------------------------------------
(* The tokens that are on their way to, or come from, the record of id.    *)

InKeyring(x, id) == keyring[id] # None /\ keyring[id].token = x

InSource(x, c, s) ==
    sources[c][s] \in InteractiveSources /\ x \in {sources[c][s].inner, sources[c][s].reused}

InThread(x, t) == record[t] = x \/ (result[t] # None /\ result[t].token = x)

Located(x, id) ==
    \/ InKeyring(x, id)
    \/ \E c \in Clients, s \in Scopes : InSource(x, c, s) /\ sources[c][s].saveAs = id
    \/ \E t \in Threads : InThread(x, t) /\ SaveAs(t) = id

(* A grant has one home; a refresh token stems from one grant.             *)
HomeInv ==
    \A x, y \in Tokens : \A i, j \in Ids :
        Located(x, i) /\ Located(y, j) =>
            /\ x.grant <= issued /\ x.refresh <= issued
            /\ x.grant = y.grant => i = j
            /\ x.refresh = y.refresh => x.grant = y.grant

(* What was logged out is in nobody's hands; what is being logged out is   *)
(* not on its way to the record that is deleted already.                   *)
ForgottenInv ==
    /\ \A g \in forgotten : g <= issued /\ \A x \in Tokens, id \in Ids : Located(x, id) => x.grant # g
    /\ \A t \in Threads : \A g \in leaving[t] :
        /\ g <= issued
        /\ At(t, "deleteAdmin") /\ Publisher # Admin =>
            \A x \in Tokens : Located(x, Publisher) => x.grant # g

-----------------------------------------------------------------------------
(* Interactive sources hold tokens of their own, and so does a login.      *)

HasInner(c, s) == sources[c][s] \in InteractiveSources /\ sources[c][s].inner # None

InnerInv ==
    \A c, d \in Clients : \A r, s \in Scopes :
        HasInner(c, r) /\ HasInner(d, s)
        /\ sources[c][r].inner.grant = sources[d][s].inner.grant
        => c = d /\ r = s

Elsewhere(x, t) ==
    \/ \E id \in Ids : InKeyring(x, id)
    \/ \E c \in Clients, s \in Scopes : HasInner(c, s) /\ sources[c][s].inner = x
    \/ \E u \in Threads \ {t} : InThread(x, u)

NewLogin(t) == At(t, "save") /\ job[t] \in Logins

LoginInv ==
    \A t \in Threads : NewLogin(t) =>
        \A x \in Tokens : Elsewhere(x, t) => x.grant # result[t].token.grant

(* What an interactive source presents or saves is what it holds.          *)
HoldsInner ==
    \A t \in Threads : Working(t) /\ ~ Cached(t) =>
        /\ At(t, "refresh") => record[t] = Source(t).inner
        /\ At(t, "save") => result[t].token = Source(t).inner

(* The refresh tokens that are live as long as nothing fails.              *)
Renews(t, id) == Requesting(t) /\ WorksOn(t, id)

RecordLive(id) ==
    \/ keyring[id] = None
    \/ keyring[id].token.refresh \in live
    \/ \E t \in Threads : Renews(t, id)

InnerLive(c, s) ==
    HasInner(c, s) /\ sources[c][s].saveAs \notin unguarded =>
        sources[c][s].inner.refresh \in live

ThreadLive(t) ==
    /\ At(t, "refresh") /\ SaveAs(t) \notin unguarded => record[t].refresh \in live
    /\ At(t, "save") /\ SaveAs(t) \notin unguarded => result[t].token.refresh \in live

LiveInv ==
    faults = 0 =>
        /\ \A id \in Ids \ unguarded : RecordLive(id)
        /\ \A c \in Clients, s \in Scopes : InnerLive(c, s)
        /\ \A t \in Threads : ThreadLive(t)

(* A token belongs to the client that presents it: the one its record is   *)
(* cached for, or the one its interactive source was made for.             *)
RecordClient(id) ==
    keyring[id] # None =>
        keyring[id].token.client = id \/ keyring[id].token.grant \in misfiled

InnerClient(c, s) == HasInner(c, s) => sources[c][s].inner.client = sources[c][s].id

OwnToken(t, token) ==
    token.client = AuthorizesAs(t) \/ (Cached(t) /\ token.grant \in misfiled)

ThreadClient(t) ==
    /\ At(t, "refresh") => OwnToken(t, record[t])
    /\ At(t, "save") => OwnToken(t, result[t].token)

ClientInv ==
    /\ \A id \in Ids : RecordClient(id)
    /\ \A c \in Clients, s \in Scopes : InnerClient(c, s)
    /\ \A t \in Threads : ThreadClient(t)

TokenInv ==
    /\ ControlInv /\ BudgetInv
    /\ HomeInv /\ ForgottenInv
    /\ InnerInv /\ LoginInv /\ HoldsInner /\ LiveInv /\ ClientInv

-----------------------------------------------------------------------------
(* What sources and commands there are.                                    *)

LEMMA Values ==
    /\ \A x \in Commands \cup Tokens \cup Records \cup Results
             \cup CachedSources \cup InteractiveSources : x # None
    /\ \A x \in Requests : x.kind = "request" /\ x.scope \in Scopes
    /\ \A x \in Logins : x.kind = "login" /\ x.scopes \subseteq Scopes
                         /\ x.access \in {"", "publisher", "admin"}
    /\ \A x \in CachedSources : x.kind = "cached" /\ x.id \in Ids /\ x.scopes \subseteq Scopes
    /\ \A x \in InteractiveSources :
        /\ x.kind = "interactive" /\ x.id \in Ids /\ x.saveAs \in Ids
        /\ x.inner \in Tokens \cup {None} /\ x.reused \in Tokens \cup {None}
    /\ \A x \in Records : x.token \in Tokens /\ x.scopes \subseteq Scopes
    /\ \A x \in Results : x.token \in Tokens /\ x.stated \in BOOLEAN
    /\ \A x \in Tokens :
        /\ x.number \in Numbers /\ x.refresh \in Numbers /\ x.grant \in Numbers
        /\ x.client \in Ids /\ x.scopes \subseteq Scopes
<1>1. \A x \in Commands \cup Tokens \cup Records \cup Results
             \cup CachedSources \cup InteractiveSources : x # None
    BY TokenCacheAssumption
<1>2. /\ \A x \in Requests : x.kind = "request" /\ x.scope \in Scopes
      /\ \A x \in Logins : x.kind = "login" /\ x.scopes \subseteq Scopes
                           /\ x.access \in {"", "publisher", "admin"}
    BY DEF Requests, Logins
<1>3. /\ \A x \in CachedSources : x.kind = "cached" /\ x.id \in Ids /\ x.scopes \subseteq Scopes
      /\ \A x \in InteractiveSources :
          /\ x.kind = "interactive" /\ x.id \in Ids /\ x.saveAs \in Ids
          /\ x.inner \in Tokens \cup {None} /\ x.reused \in Tokens \cup {None}
    BY DEF CachedSources, InteractiveSources
<1>4. /\ \A x \in Records : x.token \in Tokens /\ x.scopes \subseteq Scopes
      /\ \A x \in Results : x.token \in Tokens /\ x.stated \in BOOLEAN
      /\ \A x \in Tokens :
          /\ x.number \in Numbers /\ x.refresh \in Numbers /\ x.grant \in Numbers
          /\ x.client \in Ids /\ x.scopes \subseteq Scopes
    BY DEF Records, Results, Tokens
<1>5. QED
    BY <1>1, <1>2, <1>3, <1>4

(* The source that a request uses, and the record it belongs to.           *)
LEMMA SourceType ==
    ASSUME TypeOK, NEW t \in Threads, Requesting(t)
    PROVE  /\ ClientOf[t] \in Clients /\ job[t].scope \in Scopes
           /\ Source(t) \in CachedSources \cup InteractiveSources \cup {None}
           /\ OwnId(t) \in Ids
           /\ Requested(t) \subseteq Scopes
           /\ Source(t) # None =>
                /\ Cached(t) <=> Source(t) \in CachedSources
                /\ ~ Cached(t) <=> Source(t) \in InteractiveSources
                /\ AuthorizesAs(t) = Source(t).id /\ AuthorizesAs(t) \in Ids
                /\ SaveAs(t) = RecordOf(Source(t)) /\ SaveAs(t) \in Ids
<1>1. ClientOf[t] \in Clients /\ job[t].scope \in Scopes
    BY TokenCacheAssumption, Values DEF Requesting
<1>2. Source(t) \in CachedSources \cup InteractiveSources \cup {None}
    BY <1>1 DEF TypeOK, Source
<1>3. OwnId(t) \in Ids /\ Requested(t) \subseteq Scopes
    BY <1>1 DEF OwnId, ClientIDForAccess, Ids, Requested
<1>4. ASSUME Source(t) # None
      PROVE  /\ Cached(t) <=> Source(t) \in CachedSources
             /\ ~ Cached(t) <=> Source(t) \in InteractiveSources
    BY <1>2, <1>4, Values DEF Cached
<1>5. ASSUME Source(t) # None
      PROVE  AuthorizesAs(t) = Source(t).id /\ AuthorizesAs(t) \in Ids
    BY <1>2, <1>5, Values DEF AuthorizesAs
<1>6. ASSUME Source(t) # None
      PROVE  SaveAs(t) = RecordOf(Source(t)) /\ SaveAs(t) \in Ids
    BY <1>2, <1>4, <1>5, <1>6, Values DEF SaveAs, RecordOf, Cached
<1>7. QED
    BY <1>1, <1>2, <1>3, <1>4, <1>5, <1>6

LEMMA LoginType ==
    ASSUME TypeOK, NEW t \in Threads, job[t] \in Logins
    PROVE  /\ ~ Requesting(t) /\ ~ Cached(t)
           /\ AuthorizesAs(t) \in Ids /\ SaveAs(t) = AuthorizesAs(t)
           /\ Requested(t) \subseteq Scopes
<1>1. ~ Requesting(t) /\ ~ Cached(t)
    BY Values DEF Requesting, Cached
<1>2. AuthorizesAs(t) \in Ids /\ SaveAs(t) = AuthorizesAs(t)
    BY <1>1 DEF AuthorizesAs, SaveAs, ClientIDForAccess, Ids
<1>3. Requested(t) \subseteq Scopes
    BY <1>1, Values, TokenCacheAssumption DEF Requested, LoginScopes
<1>4. QED
    BY <1>1, <1>2, <1>3

(* A command that has not got its token yet may be issued one.             *)
LEMMA CanIssue ==
    ASSUME TypeOK, BudgetInv, NEW t \in Threads, pc[t] \notin {"idle", "save"}
    PROVE  issued + 1 \in Numbers
<1>1. t \in Pending /\ Pending # {}
    BY DEF Pending
<1>2. Cardinality(Pending) \in Nat /\ Cardinality(Pending) # 0
    BY <1>1, FS_CardinalityType, FS_EmptySet DEF BudgetInv
<1>3. issued \in 0..MaxCommands /\ commands \in 0..MaxCommands
    BY DEF TypeOK
<1>4. issued + Cardinality(Pending) <= commands
    BY DEF BudgetInv
<1>5. QED
    BY <1>2, <1>3, <1>4, TokenCacheAssumption DEF Numbers

-----------------------------------------------------------------------------
(* Types.                                                                  *)

LEMMA ReturnTypes ==
    ASSUME TypeOK, NEW t \in Threads, NEW answer \in Replies, Return(t, answer)
    PROVE  /\ pc' \in [Threads -> Steps]
           /\ reply' \in [Threads -> Replies]
           /\ job' \in [Threads -> Commands \cup {None}]
           /\ record' \in [Threads -> Tokens \cup {None}]
           /\ result' \in [Threads -> Results \cup {None}]
           /\ clientLock' \subseteq Threads /\ keyLock' \subseteq Threads
           /\ leaving' \in [Threads -> SUBSET Numbers]
BY DEF TypeOK, Return, Goto, Steps, Unlocked

LEMMA SetSourceTypes ==
    ASSUME TypeOK, NEW t \in Threads, Requesting(t),
           NEW source \in CachedSources \cup InteractiveSources, SetSource(t, source)
    PROVE  sources' \in [Clients -> [Scopes -> CachedSources \cup InteractiveSources \cup {None}]]
<1>1. ClientOf[t] \in Clients /\ job[t].scope \in Scopes
    BY SourceType
<1>2. sources[ClientOf[t]] \in [Scopes -> CachedSources \cup InteractiveSources \cup {None}]
    BY <1>1 DEF TypeOK
<1>3. [sources[ClientOf[t]] EXCEPT ![job[t].scope] = source]
          \in [Scopes -> CachedSources \cup InteractiveSources \cup {None}]
    BY <1>2
<1>4. QED
    BY <1>1, <1>3 DEF TypeOK, SetSource

LEMMA KeepInnerTypes ==
    ASSUME TypeOK, NEW t \in Threads, Requesting(t) => Source(t) # None,
           NEW token \in Tokens \cup {None}, KeepInner(t, token)
    PROVE  sources' \in [Clients -> [Scopes -> CachedSources \cup InteractiveSources \cup {None}]]
<1>1. CASE Requesting(t) /\ ~ Cached(t)
  <2>1. Source(t) \in InteractiveSources
    BY <1>1, SourceType
  <2>2. [Source(t) EXCEPT !.inner = token] \in InteractiveSources
    BY <2>1 DEF InteractiveSources
  <2>3. QED
    BY <1>1, <2>2, SetSourceTypes DEF KeepInner
<1>2. CASE ~ (Requesting(t) /\ ~ Cached(t))
    BY <1>2 DEF KeepInner, TypeOK
<1>3. QED
    BY <1>1, <1>2

LEMMA GotTypes ==
    ASSUME TypeOK, NEW t \in Threads, NEW token \in Tokens, NEW stated \in BOOLEAN,
           Got(t, token, stated)
    PROVE  /\ pc' \in [Threads -> Steps]
           /\ result' \in [Threads -> Results \cup {None}]
BY DEF TypeOK, Got, Goto, Steps, Results

LEMMA UseSourceTypes ==
    ASSUME TypeOK, NEW t \in Threads, Requesting(t),
           NEW source \in CachedSources \cup InteractiveSources, UseSource(t, source)
    PROVE  /\ sources' \in [Clients -> [Scopes -> CachedSources \cup InteractiveSources \cup {None}]]
           /\ unguarded' \subseteq Ids
           /\ pc' \in [Threads -> Steps]
           /\ clientLock' \subseteq Threads
<1>1. sources' \in [Clients -> [Scopes -> CachedSources \cup InteractiveSources \cup {None}]]
    BY SetSourceTypes DEF UseSource
<1>2. RecordOf(source) \in Ids
    BY Values DEF RecordOf
<1>3. unguarded' \subseteq Ids
    BY <1>2 DEF UseSource, TypeOK
<1>4. pc' \in [Threads -> Steps] /\ clientLock' \subseteq Threads
    BY DEF UseSource, TypeOK, Goto, Steps
<1>5. QED
    BY <1>1, <1>3, <1>4

-----------------------------------------------------------------------------
(* Every action keeps the types.                                           *)

LEMMA StartTypes ==
    ASSUME TypeOK, NEW t \in Threads, Start(t)
    PROVE  TypeOK'
<1>1. commands' \in 0..MaxCommands
    BY TokenCacheAssumption DEF Start, TypeOK
<1>2. /\ pc' \in [Threads -> Steps]
      /\ job' \in [Threads -> Commands \cup {None}]
      /\ reply' \in [Threads -> Replies]
    BY DEF Start, TypeOK, Goto, Steps, Replies
<1>3. QED
    BY <1>1, <1>2 DEF Start, TypeOK, server, process, locks

LEMMA FaultTypes == ASSUME TypeOK, Fault \/ NoFault PROVE faults' \in 0..MaxFaults
    BY TokenCacheAssumption DEF TypeOK, Fault, NoFault

LEMMA DiscoverTypes ==
    ASSUME TypeOK, NEW t \in Threads, Discover(t)
    PROVE  TypeOK'
<1>1. faults' \in 0..MaxFaults
    BY FaultTypes DEF Discover
<1>2. discovery' \in [Clients -> {"none", "ok", "failed"}]
  <2>1. discovery \in [Clients -> {"none", "ok", "failed"}]
    BY DEF TypeOK
  <2>2. \/ discovery' = discovery
        \/ discovery' = [discovery EXCEPT ![ClientOf[t]] = "ok"]
        \/ discovery' = [discovery EXCEPT ![ClientOf[t]] = "failed"]
    BY DEF Discover
  <2>3. QED
    BY <2>1, <2>2
<1>3. CASE Return(t, "discovery")
    BY <1>1, <1>2, <1>3, ReturnTypes DEF Discover, TypeOK, server, Replies
<1>4. CASE ~ Return(t, "discovery")
  <2>1. pc' \in [Threads -> Steps] /\ UNCHANGED <<locks, local, reply>>
      BY <1>4 DEF Discover, TypeOK, Goto, Steps
  <2>2. QED
      BY <1>1, <1>2, <2>1 DEF Discover, TypeOK, server, locks, local
<1>5. QED
    BY <1>3, <1>4

LEMMA ExitTypes ==
    ASSUME TypeOK, NEW c \in Clients, Exit(c)
    PROVE  TypeOK'
<1>1. faults' \in 0..MaxFaults
    BY FaultTypes DEF Exit
<1>2. /\ discovery' \in [Clients -> {"none", "ok", "failed"}]
      /\ sources' \in [Clients -> [Scopes -> CachedSources \cup InteractiveSources \cup {None}]]
      /\ clientLock' \subseteq Threads /\ keyLock' \subseteq Threads
    BY DEF Exit, TypeOK
<1>3. /\ pc' \in [Threads -> Steps]
      /\ job' \in [Threads -> Commands \cup {None}]
      /\ record' \in [Threads -> Tokens \cup {None}]
      /\ result' \in [Threads -> Results \cup {None}]
      /\ leaving' \in [Threads -> SUBSET Numbers]
      /\ reply' \in [Threads -> Replies]
    BY DEF Exit, TypeOK, Steps, Replies
<1>4. QED
    BY <1>1, <1>2, <1>3 DEF Exit, TypeOK, server

LEMMA FindSourceTypes ==
    ASSUME TypeOK, NEW t \in Threads, FindSource(t)
    PROVE  TypeOK'
<1>1. pc' \in [Threads -> Steps] /\ clientLock' \subseteq Threads
    BY DEF FindSource, TypeOK, Goto, Steps
<1>2. QED
    BY <1>1 DEF FindSource, TypeOK, server, process, local

LEMMA LockTypes ==
    ASSUME TypeOK, NEW t \in Threads, Lock(t)
    PROVE  TypeOK'
<1>1. pc' \in [Threads -> Steps] /\ keyLock' \subseteq Threads
    BY DEF Lock, TypeOK, Goto, Steps
<1>2. QED
    BY <1>1 DEF Lock, TypeOK, server, process, local

(* The calls that fail and return.                                         *)
FailedCall(t) ==
    ReadFails(t) \/ AuthorizeFails(t) \/ SaveFails(t) \/ LogoutFails(t)

LEMMA FailedCallTypes ==
    ASSUME TypeOK, NEW t \in Threads, FailedCall(t)
    PROVE  TypeOK'
<1>1. Fault /\ UNCHANGED <<keyring, server, process, forgotten, commands>>
    BY DEF FailedCall, ReadFails, AuthorizeFails, SaveFails, LogoutFails
<1>2. PICK answer \in Replies : Return(t, answer)
    BY DEF FailedCall, ReadFails, AuthorizeFails, SaveFails, LogoutFails, Replies
<1>3. faults' \in 0..MaxFaults
    BY <1>1, FaultTypes
<1>4. QED
    BY <1>1, <1>2, <1>3, ReturnTypes DEF TypeOK, server, process

(* What a call under mu comes to.                                          *)
LEMMA UseRecordTypes ==
    ASSUME TypeOK, NEW t \in Threads, Requesting(t), NEW id \in Ids, keyring[id] # None,
           UseRecord(t, id),
           UNCHANGED <<keyring, server, discovery, misfiled, forgotten, commands, faults>>
    PROVE  TypeOK'
<1>1. keyring[id] \in Records
    BY DEF TypeOK
<1>2. CASE job[t].scope \in keyring[id].scopes
  <2>1. [kind |-> "cached", id |-> id, scopes |-> keyring[id].scopes] \in CachedSources
    BY <1>1, Values DEF CachedSources
  <2>2. QED
    BY <1>2, <2>1, UseSourceTypes DEF UseRecord, UseSource, TypeOK, server, local
<1>3. CASE job[t].scope \notin keyring[id].scopes
    BY <1>3, ReturnTypes DEF UseRecord, TypeOK, server, Replies
<1>4. QED
    BY <1>2, <1>3

LEMMA UseAuthorizationTypes ==
    ASSUME TypeOK, NEW t \in Threads, Requesting(t), NEW id \in Ids, UseAuthorization(t, id),
           UNCHANGED <<keyring, server, discovery, misfiled, forgotten, commands, faults>>
    PROVE  TypeOK'
<1>1. [kind |-> "interactive", id |-> OwnId(t), saveAs |-> id, reused |-> None, inner |-> None]
          \in InteractiveSources
    BY SourceType DEF InteractiveSources
<1>2. QED
    BY <1>1, UseSourceTypes DEF UseAuthorization, UseSource, TypeOK, server, local

LEMMA ReadOwnTypes ==
    ASSUME TypeOK, NEW t \in Threads, Requesting(t), ReadOwn(t) \/ ReadAdmin(t)
    PROVE  TypeOK'
<1> OwnId(t) \in Ids /\ Admin \in Ids
    BY SourceType DEF Ids
<1>1. CASE Goto(t, "readAdmin") /\ UNCHANGED <<sources, unguarded, locks, local, reply>>
    BY <1>1 DEF ReadOwn, ReadAdmin, TypeOK, Goto, Steps, server, locks, local
<1>2. CASE \E id \in Ids : keyring[id] # None /\ UseRecord(t, id)
    BY <1>2, UseRecordTypes DEF ReadOwn, ReadAdmin
<1>3. CASE \E id \in Ids : UseAuthorization(t, id)
    BY <1>3, UseAuthorizationTypes DEF ReadOwn, ReadAdmin
<1>4. QED
    BY <1>1, <1>2, <1>3 DEF ReadOwn, ReadAdmin

LEMMA ReadRecordTypes ==
    ASSUME TypeOK, NEW t \in Threads, ReadRecord(t), Source(t) # None
    PROVE  TypeOK'
<1>1. Requesting(t) /\ Source(t).id \in Ids
    BY SourceType DEF ReadRecord, Cached
<1>2. CASE \E answer \in Replies : Return(t, answer)
    BY <1>2, ReturnTypes DEF ReadRecord, TypeOK, server, process
<1>3. CASE ~ \E answer \in Replies : Return(t, answer)
  <2> DEFINE entry == keyring[Source(t).id]
  <2>1. /\ entry # None
        /\ record' = [record EXCEPT ![t] = entry.token]
        /\ \/ Goto(t, "refresh") /\ UNCHANGED result
           \/ Got(t, entry.token, FALSE)
        /\ UNCHANGED <<job, reply, locks, leaving>>
    BY <1>3 DEF ReadRecord, Replies
  <2>2. entry.token \in Tokens
    BY <1>1, <2>1, Values DEF TypeOK
  <2>3. record' \in [Threads -> Tokens \cup {None}]
    BY <2>1, <2>2 DEF TypeOK
  <2>4. pc' \in [Threads -> Steps] /\ result' \in [Threads -> Results \cup {None}]
    BY <2>1, <2>2, GotTypes DEF TypeOK, Goto, Steps
  <2>5. QED
    BY <2>1, <2>3, <2>4 DEF ReadRecord, TypeOK, server, process, locks
<1>4. QED
    BY <1>2, <1>3

LEMMA UseInnerTypes ==
    ASSUME TypeOK, NEW t \in Threads, UseInner(t), Requesting(t), Source(t) # None
    PROVE  TypeOK'
<1>1. Source(t) \in InteractiveSources /\ Source(t).inner \in Tokens \cup {None}
    BY SourceType, Values DEF UseInner
<1>2. CASE Return(t, "ok")
    BY <1>2, ReturnTypes DEF UseInner, TypeOK, server, process, Replies
<1>3. CASE ~ Return(t, "ok")
  <2>1. /\ record' = [record EXCEPT ![t] = Source(t).inner]
        /\ \/ Goto(t, "authorize") /\ UNCHANGED result
           \/ Goto(t, "refresh") /\ UNCHANGED result
           \/ Source(t).inner # None /\ Got(t, Source(t).inner, StatesScope)
        /\ UNCHANGED <<job, reply, locks, leaving>>
    BY <1>3 DEF UseInner
  <2>2. record' \in [Threads -> Tokens \cup {None}]
    BY <1>1, <2>1 DEF TypeOK
  <2>3. pc' \in [Threads -> Steps] /\ result' \in [Threads -> Results \cup {None}]
    <3>1. CASE \E step \in {"authorize", "refresh"} : Goto(t, step) /\ UNCHANGED result
      BY <3>1 DEF TypeOK, Goto, Steps
    <3>2. CASE Source(t).inner \in Tokens /\ Got(t, Source(t).inner, StatesScope)
      BY <3>2, GotTypes, TokenCacheAssumption
    <3>3. QED
      BY <1>1, <2>1, <3>1, <3>2
  <2>4. QED
    BY <2>1, <2>2, <2>3 DEF UseInner, TypeOK, server, process, locks
<1>4. QED
    BY <1>2, <1>3

(* The token that a refresh brings.                                        *)
Renewed(token, n, refresh) == [token EXCEPT !.number = n, !.refresh = refresh]

LEMMA RenewedType ==
    ASSUME NEW token \in Tokens, NEW n \in Numbers, NEW refresh \in Numbers
    PROVE  /\ Renewed(token, n, refresh) \in Tokens
           /\ Renewed(token, n, refresh).number = n
           /\ Renewed(token, n, refresh).refresh = refresh
           /\ Renewed(token, n, refresh).grant = token.grant
           /\ Renewed(token, n, refresh).client = token.client
<1> DEFINE half == [token EXCEPT !.number = n]
<1>1. half \in Tokens /\ half.number = n /\ half.grant = token.grant
      /\ half.client = token.client
    BY DEF Tokens
<1>2. Renewed(token, n, refresh) = [half EXCEPT !.refresh = refresh]
    BY DEF Tokens, Renewed
<1> HIDE DEF half
<1>3. QED
    BY <1>1, <1>2 DEF Tokens

LEMMA IssueTypes ==
    ASSUME TypeOK, NEW t \in Threads, NEW token \in Tokens, Issue(t, token),
           Requesting(t) => Source(t) # None,
           live' \subseteq Numbers,
           UNCHANGED <<keyring, discovery, unguarded, misfiled, locks, job, record, leaving,
                       reply, forgotten, commands, faults>>
    PROVE  TypeOK'
<1>1. /\ pc' \in [Threads -> Steps] /\ result' \in [Threads -> Results \cup {None}]
    BY GotTypes, TokenCacheAssumption DEF Issue
<1>2. sources' \in [Clients -> [Scopes -> CachedSources \cup InteractiveSources \cup {None}]]
    BY KeepInnerTypes DEF Issue
<1>3. token.number \in Numbers
    BY Values
<1>4. issued' \in 0..MaxCommands
    BY <1>3, TokenCacheAssumption DEF Issue, Numbers
<1>5. QED
    BY <1>1, <1>2, <1>4 DEF Issue, TypeOK, locks

LEMMA RefreshTypes ==
    ASSUME TypeOK, NEW t \in Threads, Refresh(t), record[t] # None, issued + 1 \in Numbers,
           Requesting(t), Source(t) # None
    PROVE  TypeOK'
<1>1. record[t] \in Tokens /\ record[t].refresh \in Numbers
    BY Values DEF TypeOK
<1>2. PICK refresh \in {record[t].refresh, issued + 1} :
        /\ live' = (live \ {record[t].refresh}) \cup {refresh}
        /\ Issue(t, Renewed(record[t], issued + 1, refresh))
    BY DEF Refresh, Renewed
<1>3. refresh \in Numbers /\ live \subseteq Numbers
    BY <1>1, <1>2 DEF TypeOK
<1>4. Renewed(record[t], issued + 1, refresh) \in Tokens
    BY <1>1, <1>3, RenewedType
<1>5. live' \subseteq Numbers
    BY <1>2, <1>3
<1>6. QED
    BY <1>2, <1>4, <1>5, IssueTypes DEF Refresh

LEMMA RefreshFailsTypes ==
    ASSUME TypeOK, NEW t \in Threads, RefreshFails(t), Requesting(t), Source(t) # None
    PROVE  TypeOK'
<1>1. faults' \in 0..MaxFaults
    BY FaultTypes DEF RefreshFails
<1>2. sources' \in [Clients -> [Scopes -> CachedSources \cup InteractiveSources \cup {None}]]
    BY KeepInnerTypes DEF RefreshFails
<1>3. pc' \in [Threads -> Steps] /\ live' \subseteq Numbers
    BY DEF RefreshFails, TypeOK, Goto, Steps
<1>4. QED
    BY <1>1, <1>2, <1>3 DEF RefreshFails, TypeOK, locks, local

LEMMA AgeTypes ==
    ASSUME TypeOK, NEW n \in Numbers, Age(n)
    PROVE  TypeOK'
<1>1. ending' \subseteq Numbers /\ expired' \subseteq Numbers
    BY DEF Age, TypeOK
<1>2. QED
    BY <1>1 DEF Age, TypeOK, process, locks, local

(* The token that an authorization brings.                                 *)
Granted(t, allowed) ==
    [number |-> issued + 1, refresh |-> issued + 1, grant |-> issued + 1,
     client |-> AuthorizesAs(t), scopes |-> allowed]

LEMMA AuthorizeTypes ==
    ASSUME TypeOK, NEW t \in Threads, Authorize(t), issued + 1 \in Numbers,
           \/ Requesting(t) /\ Source(t) # None
           \/ job[t] \in Logins
    PROVE  TypeOK'
<1>1. AuthorizesAs(t) \in Ids /\ Requested(t) \subseteq Scopes
      /\ (Requesting(t) => Source(t) # None)
    BY SourceType, LoginType
<1>2. PICK allowed \in SUBSET Scopes : Issue(t, Granted(t, allowed))
    BY <1>1 DEF Authorize, Granted
<1>3. Granted(t, allowed) \in Tokens
    BY <1>1 DEF Tokens, Granted
<1>4. live' \subseteq Numbers
    BY DEF Authorize, TypeOK
<1>5. QED
    BY <1>1, <1>2, <1>3, <1>4, IssueTypes DEF Authorize

LEMMA SaveTypes ==
    ASSUME TypeOK, NEW t \in Threads, Save(t), result[t] # None,
           \/ Requesting(t) /\ Source(t) # None
           \/ job[t] \in Logins
    PROVE  TypeOK'
<1>1. result[t].token \in Tokens /\ result[t].token.scopes \subseteq Scopes
    BY Values DEF TypeOK
<1>2. GrantedScopes(t) \subseteq Scopes
    BY <1>1, SourceType, LoginType, Values DEF GrantedScopes, Assumed, Cached
<1>3. SaveAs(t) \in Ids
    BY SourceType, LoginType
<1>4. keyring' \in [Ids -> Records \cup {None}]
    BY <1>1, <1>2, <1>3 DEF Save, Put, TypeOK, Records
<1>5. sources' \in [Clients -> [Scopes -> CachedSources \cup InteractiveSources \cup {None}]]
  <2>1. CASE Requesting(t) /\ ~ Cached(t)
    <3>1. Source(t) \in InteractiveSources
      BY <2>1, SourceType, LoginType
    <3>2. [Source(t) EXCEPT !.reused = result[t].token] \in InteractiveSources
      BY <1>1, <3>1 DEF InteractiveSources
    <3>3. QED
      BY <2>1, <3>2, SetSourceTypes DEF Save
  <2>2. CASE ~ (Requesting(t) /\ ~ Cached(t))
    BY <2>2 DEF Save, TypeOK
  <2>3. QED
    BY <2>1, <2>2
<1>6. Return(t, "ok") /\ "ok" \in Replies
    BY DEF Save, Replies
<1>7. misfiled' \subseteq Numbers
    BY <1>1, Values DEF Save, TypeOK, Tokens
<1>8. QED
    BY <1>4, <1>5, <1>6, <1>7, ReturnTypes DEF Save, TypeOK, server

LEMMA LogoutTypes ==
    ASSUME TypeOK, NEW t \in Threads, Logout(t)
    PROVE  TypeOK'
<1>1. keyring' \in [Ids -> Records \cup {None}]
    BY DEF Logout, Delete, TypeOK, Ids
<1>2. \A x \in CachedTokens : x \in Tokens
    BY Values DEF CachedTokens, TypeOK
<1>3. GrantsOf(CachedTokens) \subseteq Numbers
    BY <1>2, Values DEF GrantsOf
<1>4. CASE At(t, "delete")
  <2>1. leaving' \in [Threads -> SUBSET Numbers] /\ pc' \in [Threads -> Steps]
    BY <1>3, <1>4 DEF Logout, Delete, TypeOK, Goto, Steps, At
  <2>2. UNCHANGED <<job, record, result, locks, reply, forgotten>>
    BY <1>4 DEF Logout, Delete, At
  <2>3. QED
    BY <1>1, <2>1, <2>2 DEF Logout, TypeOK, server, process, locks
<1>5. CASE At(t, "deleteAdmin")
  <2>1. Return(t, "ok") /\ "ok" \in Replies
    BY <1>5 DEF Logout, Delete, At, Replies
  <2>2. forgotten' \subseteq Numbers
    BY <1>5 DEF Logout, Delete, At, TypeOK
  <2>3. QED
    BY <1>1, <2>1, <2>2, ReturnTypes DEF Logout, TypeOK, server, process
<1>6. QED
    BY <1>4, <1>5 DEF Logout, Delete

LEMMA TypeStep ==
    ASSUME TypeOK, BudgetInv, NEW t \in Threads, ThreadInv(t), Step(t)
    PROVE  TypeOK'
<1>1. CASE Discover(t)
    BY <1>1, DiscoverTypes
<1>2. CASE FindSource(t)
    BY <1>2, FindSourceTypes
<1>3. CASE ReadOwn(t) \/ ReadAdmin(t)
    BY <1>3, ReadOwnTypes DEF ThreadInv, ReadOwn, ReadAdmin, At
<1>4. CASE ReadFails(t) \/ AuthorizeFails(t) \/ SaveFails(t) \/ LogoutFails(t)
    BY <1>4, FailedCallTypes DEF FailedCall
<1>5. CASE Lock(t)
    BY <1>5, LockTypes
<1>6. CASE ReadRecord(t) \/ UseInner(t)
  <2>1. At(t, "read") /\ Requesting(t) /\ Source(t) # None
    BY <1>6 DEF ThreadInv, ReadRecord, UseInner, At, Working
  <2>2. QED
    BY <1>6, <2>1, ReadRecordTypes, UseInnerTypes
<1>7. CASE Refresh(t) \/ RefreshFails(t)
  <2>1. At(t, "refresh") /\ Requesting(t) /\ Source(t) # None /\ record[t] # None
    BY <1>7 DEF ThreadInv, Refresh, RefreshFails, At, Working
  <2>2. issued + 1 \in Numbers
    BY <2>1, CanIssue DEF At
  <2>3. QED
    BY <1>7, <2>1, <2>2, RefreshTypes, RefreshFailsTypes
<1>8. CASE Authorize(t)
  <2>1. At(t, "authorize") /\ ((Requesting(t) /\ Source(t) # None) \/ job[t] \in Logins)
    BY <1>8 DEF ThreadInv, Authorize, At, Working, Requesting
  <2>2. issued + 1 \in Numbers
    BY <2>1, CanIssue DEF At
  <2>3. QED
    BY <1>8, <2>1, <2>2, AuthorizeTypes
<1>9. CASE Save(t)
  <2>1. result[t] # None /\ ((Requesting(t) /\ Source(t) # None) \/ job[t] \in Logins)
    BY <1>9 DEF ThreadInv, Save, At, Working, Requesting
  <2>2. QED
    BY <1>9, <2>1, SaveTypes
<1>10. CASE Logout(t)
    BY <1>10, LogoutTypes
<1>11. QED
    BY <1>1, <1>2, <1>3, <1>4, <1>5, <1>6, <1>7, <1>8, <1>9, <1>10 DEF Step

-----------------------------------------------------------------------------
(* What a step of one thread leaves alone.                                 *)

Kept(u) ==
    /\ pc'[u] = pc[u] /\ job'[u] = job[u]
    /\ record'[u] = record[u] /\ result'[u] = result[u] /\ leaving'[u] = leaving[u]
    /\ u \in clientLock' <=> u \in clientLock
    /\ u \in keyLock' <=> u \in keyLock

LEMMA ReturnKeeps ==
    ASSUME TypeOK, NEW t \in Threads, NEW answer, Return(t, answer)
    PROVE  \A u \in Threads \ {t} : Kept(u)
BY DEF TypeOK, Return, Goto, Unlocked, Kept

LEMMA OthersKept ==
    ASSUME TypeOK, NEW t \in Threads, Start(t) \/ Step(t)
    PROVE  \A u \in Threads \ {t} : Kept(u)
<1>1. CASE \E answer \in Replies : Return(t, answer)
    BY <1>1, ReturnKeeps
<1>2. CASE /\ \E step \in Steps : Goto(t, step)
           /\ UNCHANGED <<locks, local>>
    BY <1>2 DEF TypeOK, Goto, Kept, locks, local
<1>3. CASE Start(t)
    BY <1>3 DEF TypeOK, Start, Goto, Kept, locks
<1>4. CASE Discover(t)
    BY <1>1, <1>2, <1>4 DEF Discover, Replies, Steps
<1>5. CASE FindSource(t) \/ Lock(t)
    BY <1>5 DEF FindSource, Lock, TypeOK, Goto, Kept, local
<1>6. CASE ReadOwn(t) \/ ReadAdmin(t)
  <2>1. CASE \E source : UseSource(t, source)
    BY <2>1 DEF UseSource, TypeOK, Goto, Kept, local
  <2>2. CASE \E id : UseRecord(t, id)
    BY <1>1, <2>1, <2>2 DEF UseRecord, Replies
  <2>3. CASE \E id : UseAuthorization(t, id)
    BY <2>1, <2>3 DEF UseAuthorization
  <2>4. CASE Goto(t, "readAdmin") /\ UNCHANGED <<sources, unguarded, locks, local, reply>>
    BY <1>2, <2>4 DEF Steps
  <2>5. QED
    BY <1>6, <2>2, <2>3, <2>4 DEF ReadOwn, ReadAdmin
<1>7. CASE FailedCall(t)
    BY <1>1, <1>7 DEF FailedCall, ReadFails, AuthorizeFails, SaveFails, LogoutFails, Replies
<1>8. CASE ReadRecord(t) \/ UseInner(t)
  <2>1. CASE \E answer \in Replies : Return(t, answer)
    BY <1>1, <2>1
  <2>2. CASE ~ \E answer \in Replies : Return(t, answer)
    <3>1. \E token : record' = [record EXCEPT ![t] = token]
      BY <1>8, <2>2 DEF ReadRecord, UseInner, Replies
    <3>2. UNCHANGED <<job, locks, leaving>>
      BY <1>8, <2>2 DEF ReadRecord, UseInner, Replies
    <3>3. /\ \E step : pc' = [pc EXCEPT ![t] = step]
          /\ result' = result \/ \E token : result' = [result EXCEPT ![t] = token]
      BY <1>8, <2>2 DEF ReadRecord, UseInner, Replies, Got, Goto
    <3>4. QED
      BY <3>1, <3>2, <3>3 DEF TypeOK, Kept, locks
  <2>3. QED
    BY <2>1, <2>2
<1>9. CASE Refresh(t) \/ Authorize(t)
  <2>1. UNCHANGED <<locks, job, record, leaving>>
    BY <1>9 DEF Refresh, Authorize
  <2>2. /\ \E step : pc' = [pc EXCEPT ![t] = step]
        /\ \E token : result' = [result EXCEPT ![t] = token]
    BY <1>9 DEF Refresh, Authorize, Issue, Got, Goto
  <2>3. QED
    BY <2>1, <2>2 DEF TypeOK, Kept, locks
<1>10. CASE RefreshFails(t)
    BY <1>2, <1>10 DEF RefreshFails, Steps
<1>11. CASE Save(t)
    BY <1>1, <1>11 DEF Save, Replies
<1>12. CASE Logout(t)
  <2>1. CASE At(t, "delete")
    BY <1>12, <2>1 DEF Logout, Delete, At, TypeOK, Goto, Kept, locks
  <2>2. CASE At(t, "deleteAdmin")
    BY <1>1, <1>12, <2>2 DEF Logout, Delete, At, Replies
  <2>3. QED
    BY <1>12, <2>1, <2>2 DEF Logout, Delete
<1>13. QED
    BY <1>3, <1>4, <1>5, <1>6, <1>7, <1>8, <1>9, <1>10, <1>11, <1>12 DEF Step, FailedCall

(* The only source that a step changes is the one of its thread: it is     *)
(* entered under mu, or keeps its record and its kind.                     *)
LEMMA SetSourceOnly ==
    ASSUME TypeOK, NEW t \in Threads, Requesting(t), NEW source, SetSource(t, source)
    PROVE  \A c \in Clients, s \in Scopes :
              sources'[c][s] = IF c = ClientOf[t] /\ s = job[t].scope THEN source
                                                                      ELSE sources[c][s]
<1>1. ClientOf[t] \in Clients /\ job[t].scope \in Scopes
    BY SourceType
<1>2. \A c \in Clients : sources[c] \in [Scopes -> CachedSources \cup InteractiveSources \cup {None}]
    BY DEF TypeOK
<1>3. sources \in [Clients -> [Scopes -> CachedSources \cup InteractiveSources \cup {None}]]
    BY DEF TypeOK
<1>4. QED
    BY <1>1, <1>2, <1>3 DEF SetSource

SameRecord(source, new) ==
    /\ source \in InteractiveSources /\ new \in InteractiveSources
    /\ new.id = source.id /\ new.saveAs = source.saveAs

SourcesKept(t) ==
    \A c \in Clients, s \in Scopes :
        \/ sources'[c][s] = sources[c][s]
        \/ /\ Requesting(t) /\ c = ClientOf[t] /\ s = job[t].scope
           /\ \/ /\ pc[t] \in {"readOwn", "readAdmin"}
                 /\ sources'[c][s] \in CachedSources \cup InteractiveSources
              \/ Working(t) /\ SameRecord(sources[c][s], sources'[c][s])

LEMMA KeepInnerOnly ==
    ASSUME TypeOK, NEW t \in Threads, Requesting(t) => Working(t) /\ Source(t) # None,
           NEW token \in Tokens \cup {None}, KeepInner(t, token)
    PROVE  SourcesKept(t)
<1>1. CASE Requesting(t) /\ ~ Cached(t)
  <2>1. Source(t) \in InteractiveSources
    BY <1>1, SourceType
  <2>2. SameRecord(Source(t), [Source(t) EXCEPT !.inner = token])
    BY <2>1 DEF SameRecord, InteractiveSources
  <2>3. QED
    BY <1>1, <2>2, SetSourceOnly DEF KeepInner, SourcesKept, Source
<1>2. CASE ~ (Requesting(t) /\ ~ Cached(t))
    BY <1>2 DEF KeepInner, SourcesKept
<1>3. QED
    BY <1>1, <1>2

(* The new token of a refresh belongs to the grant of the old one.         *)
LEMMA RefreshBrings ==
    ASSUME TypeOK, BudgetInv, NEW t \in Threads, ThreadInv(t), Refresh(t)
    PROVE  /\ Working(t) /\ Requesting(t) /\ Source(t) # None /\ record[t] \in Tokens
           /\ issued + 1 \in Numbers
           /\ \E new \in Tokens :
                /\ Issue(t, new)
                /\ new.number = issued + 1 /\ new.grant = record[t].grant
                /\ new.client = record[t].client
                /\ new.refresh \in {record[t].refresh, issued + 1}
                /\ live' = (live \ {record[t].refresh}) \cup {new.refresh}
<1>1. Working(t) /\ Requesting(t) /\ Source(t) # None /\ record[t] \in Tokens
    BY Values DEF Refresh, At, ThreadInv, Working, TypeOK
<1>2. issued + 1 \in Numbers
    BY CanIssue DEF Refresh, At
<1>3. PICK refresh \in {record[t].refresh, issued + 1} :
        /\ live' = (live \ {record[t].refresh}) \cup {refresh}
        /\ Issue(t, Renewed(record[t], issued + 1, refresh))
    BY DEF Refresh, Renewed
<1>4. refresh \in Numbers
    BY <1>1, <1>2, Values
<1> DEFINE new == Renewed(record[t], issued + 1, refresh)
<1>5. /\ new \in Tokens
      /\ new.number = issued + 1 /\ new.refresh = refresh /\ new.grant = record[t].grant
      /\ new.client = record[t].client
  <2>1. record[t] \in Tokens
    BY <1>1
  <2>2. QED
    BY <1>2, <1>4, <2>1, RenewedType
<1>6. Issue(t, new) /\ live' = (live \ {record[t].refresh}) \cup {refresh}
    BY <1>3
<1> HIDE DEF new
<1>7. QED
    BY <1>1, <1>2, <1>5, <1>6

LEMMA AuthorizeBrings ==
    ASSUME TypeOK, BudgetInv, NEW t \in Threads, ThreadInv(t), Authorize(t)
    PROVE  /\ (Working(t) /\ Source(t) # None) \/ job[t] \in Logins
           /\ Requesting(t) => Working(t) /\ Source(t) # None
           /\ issued + 1 \in Numbers
           /\ \E new \in Tokens :
                /\ Issue(t, new)
                /\ new.number = issued + 1 /\ new.grant = issued + 1
                /\ new.refresh = issued + 1
                /\ new.client = AuthorizesAs(t)
           /\ live' = live \cup {issued + 1}
<1>1. /\ (Working(t) /\ Source(t) # None) \/ job[t] \in Logins
      /\ Requesting(t) => Working(t) /\ Source(t) # None
    BY DEF Authorize, At, ThreadInv, Working, Requesting
<1>2. issued + 1 \in Numbers
    BY CanIssue DEF Authorize, At
<1>3. AuthorizesAs(t) \in Ids /\ Requested(t) \subseteq Scopes
    BY <1>1, SourceType, LoginType DEF Working
<1>4. PICK allowed \in SUBSET Scopes : Issue(t, Granted(t, allowed))
    BY <1>3 DEF Authorize, Granted
<1>5. /\ Granted(t, allowed) \in Tokens
      /\ Granted(t, allowed).number = issued + 1 /\ Granted(t, allowed).refresh = issued + 1
      /\ Granted(t, allowed).grant = issued + 1
      /\ Granted(t, allowed).client = AuthorizesAs(t)
    BY <1>2, <1>3 DEF Tokens, Granted
<1>6. QED
    BY <1>1, <1>2, <1>4, <1>5 DEF Authorize

LEMMA OthersSources ==
    ASSUME TypeOK, BudgetInv, NEW t \in Threads, ThreadInv(t), Start(t) \/ Step(t)
    PROVE  SourcesKept(t)
<1>1. CASE UNCHANGED sources
    BY <1>1 DEF SourcesKept
<1>2. CASE Start(t) \/ FindSource(t) \/ Lock(t) \/ ReadRecord(t) \/ UseInner(t)
           \/ FailedCall(t) \/ Logout(t)
    BY <1>1, <1>2 DEF Start, FindSource, Lock, ReadRecord, UseInner, FailedCall,
       ReadFails, AuthorizeFails, SaveFails, LogoutFails, Logout, process
<1>3. CASE Discover(t)
    BY <1>1, <1>3 DEF Discover
<1>4. CASE ReadOwn(t) \/ ReadAdmin(t)
  <2>1. pc[t] \in {"readOwn", "readAdmin"} /\ Requesting(t)
    BY <1>4 DEF ReadOwn, ReadAdmin, At, ThreadInv
  <2>2. OwnId(t) \in Ids /\ Admin \in Ids
    BY <2>1, SourceType DEF Ids
  <2>3. ASSUME NEW source \in CachedSources \cup InteractiveSources, UseSource(t, source)
        PROVE  SourcesKept(t)
    BY <2>1, <2>3, SetSourceOnly DEF UseSource, SourcesKept
  <2>4. ASSUME NEW id \in Ids, keyring[id] # None, UseRecord(t, id)
        PROVE  SourcesKept(t)
    <3>1. keyring[id].scopes \subseteq Scopes
      BY <2>4, Values DEF TypeOK
    <3>2. [kind |-> "cached", id |-> id, scopes |-> keyring[id].scopes] \in CachedSources
      BY <3>1 DEF CachedSources
    <3>3. QED
      BY <1>1, <2>3, <2>4, <3>2 DEF UseRecord
  <2>5. ASSUME NEW id \in Ids, UseAuthorization(t, id)
        PROVE  SourcesKept(t)
    <3>1. [kind |-> "interactive", id |-> OwnId(t), saveAs |-> id, reused |-> None, inner |-> None]
              \in InteractiveSources
      BY <2>2 DEF InteractiveSources
    <3>2. QED
      BY <2>3, <2>5, <3>1 DEF UseAuthorization
  <2>6. QED
    BY <1>1, <1>4, <2>2, <2>4, <2>5 DEF ReadOwn, ReadAdmin
<1>5. CASE Refresh(t)
    BY <1>5, RefreshBrings, KeepInnerOnly DEF Issue
<1>6. CASE Authorize(t)
    BY <1>6, AuthorizeBrings, KeepInnerOnly DEF Issue
<1>7. CASE RefreshFails(t)
    BY <1>7, KeepInnerOnly DEF RefreshFails, ThreadInv, Working, At
<1>8. CASE Save(t)
  <2>1. CASE Requesting(t) /\ ~ Cached(t)
    <3>1. Working(t) /\ Source(t) \in InteractiveSources /\ result[t].token \in Tokens
      BY <1>8, <2>1, SourceType, Values DEF Save, At, ThreadInv, Working, TypeOK
    <3>2. SameRecord(Source(t), [Source(t) EXCEPT !.reused = result[t].token])
      BY <3>1 DEF SameRecord, InteractiveSources
    <3>3. QED
      BY <1>8, <2>1, <3>1, <3>2, SetSourceOnly DEF Save, SourcesKept, Source
  <2>2. CASE ~ (Requesting(t) /\ ~ Cached(t))
    BY <1>1, <1>8, <2>2 DEF Save
  <2>3. QED
    BY <2>1, <2>2
<1>9. QED
    BY <1>2, <1>3, <1>4, <1>5, <1>6, <1>7, <1>8 DEF Step, FailedCall

-----------------------------------------------------------------------------
(* A command gets one token at most.                                       *)

LEMMA FewerPending ==
    ASSUME TypeOK, BudgetInv, Pending' \subseteq Pending, issued' = issued, commands' = commands
    PROVE  BudgetInv'
<1>1. IsFiniteSet(Pending') /\ Cardinality(Pending') <= Cardinality(Pending)
    BY FS_Subset DEF BudgetInv
<1>2. Cardinality(Pending) \in Nat /\ Cardinality(Pending') \in Nat
    BY <1>1, FS_CardinalityType DEF BudgetInv
<1>3. issued \in Nat /\ commands \in Nat
    BY TokenCacheAssumption DEF TypeOK
<1>4. issued + Cardinality(Pending) <= commands
    BY DEF BudgetInv
<1>5. issued' + Cardinality(Pending') <= commands'
    BY <1>1, <1>2, <1>3, <1>4
<1>6. QED
    BY <1>1, <1>5 DEF BudgetInv

LEMMA StartBudget ==
    ASSUME TypeOK, BudgetInv, NEW t \in Threads, Start(t)
    PROVE  BudgetInv'
<1>1. issued' = issued /\ commands' = commands + 1
    BY DEF Start, server
<1>2. Pending' \subseteq Pending \cup {t}
    BY DEF Start, Goto, Pending, TypeOK
<1>3. /\ IsFiniteSet(Pending \cup {t})
      /\ Cardinality(Pending \cup {t}) <= Cardinality(Pending) + 1
      /\ Cardinality(Pending) \in Nat
  <2>1. IsFiniteSet(Pending)
    BY DEF BudgetInv
  <2>2. Cardinality(Pending) \in Nat
    BY <2>1, FS_CardinalityType
  <2>3. /\ IsFiniteSet(Pending \cup {t})
        /\ \/ Cardinality(Pending \cup {t}) = Cardinality(Pending)
           \/ Cardinality(Pending \cup {t}) = Cardinality(Pending) + 1
    BY <2>1, FS_AddElement, Zenon
  <2>4. QED
    BY <2>2, <2>3
<1>4. IsFiniteSet(Pending') /\ Cardinality(Pending') <= Cardinality(Pending \cup {t})
    BY <1>2, <1>3, FS_Subset
<1>5. Cardinality(Pending') \in Nat /\ Cardinality(Pending \cup {t}) \in Nat
    BY <1>3, <1>4, FS_CardinalityType
<1>6. issued \in Nat /\ commands \in Nat /\ issued + Cardinality(Pending) <= commands
    BY TokenCacheAssumption DEF TypeOK, BudgetInv
<1>7. issued' + Cardinality(Pending') <= commands'
    BY <1>1, <1>3, <1>4, <1>5, <1>6
<1>8. QED
    BY <1>4, <1>7 DEF BudgetInv

LEMMA IssueBudget ==
    ASSUME TypeOK, BudgetInv, NEW t \in Threads, pc[t] \notin {"idle", "save"},
           pc' = [pc EXCEPT ![t] = "save"], issued' = issued + 1, commands' = commands
    PROVE  BudgetInv'
<1>1. Pending' = Pending \ {t} /\ t \in Pending
    BY DEF Pending, TypeOK
<1>2. /\ IsFiniteSet(Pending') /\ Cardinality(Pending') = Cardinality(Pending) - 1
      /\ Cardinality(Pending) \in Nat
    BY <1>1, FS_RemoveElement, FS_CardinalityType DEF BudgetInv
<1>3. issued \in Nat /\ commands \in Nat /\ issued + Cardinality(Pending) <= commands
    BY TokenCacheAssumption DEF TypeOK, BudgetInv
<1>4. issued' + Cardinality(Pending') <= commands'
    BY <1>2, <1>3
<1>5. QED
    BY <1>2, <1>4 DEF BudgetInv

LEMMA StepBudget ==
    ASSUME TypeOK, BudgetInv, NEW t \in Threads, ThreadInv(t), Step(t)
    PROVE  BudgetInv'
<1>1. commands' = commands
    BY DEF Step, Discover, FindSource, ReadOwn, ReadAdmin, ReadFails, Lock, ReadRecord,
       UseInner, Refresh, RefreshFails, Authorize, AuthorizeFails, Save, SaveFails,
       Logout, LogoutFails
<1>2. CASE Refresh(t)
  <2>1. PICK new \in Tokens : Issue(t, new) /\ new.number = issued + 1
    BY <1>2, RefreshBrings
  <2>2. pc[t] = "refresh" /\ pc' = [pc EXCEPT ![t] = "save"] /\ issued' = issued + 1
    BY <1>2, <2>1 DEF Refresh, At, Issue, Got, Goto
  <2>3. QED
    BY <1>1, <2>2, IssueBudget
<1>3. CASE Authorize(t)
  <2>1. PICK new \in Tokens : Issue(t, new) /\ new.number = issued + 1
    BY <1>3, AuthorizeBrings
  <2>2. pc[t] = "authorize" /\ pc' = [pc EXCEPT ![t] = "save"] /\ issued' = issued + 1
    BY <1>3, <2>1 DEF Authorize, At, Issue, Got, Goto
  <2>3. QED
    BY <1>1, <2>2, IssueBudget
<1>4. CASE ~ Refresh(t) /\ ~ Authorize(t)
  <2>1. issued' = issued
    BY <1>4 DEF Step, Discover, FindSource, ReadOwn, ReadAdmin, ReadFails, Lock,
       ReadRecord, UseInner, RefreshFails, AuthorizeFails, Save, SaveFails,
       Logout, LogoutFails, server
  <2>2. \A u \in Threads \ {t} : pc'[u] = pc[u]
    BY OthersKept DEF Kept
  <2>3. pc[t] \notin {"idle", "save"} \/ pc'[t] = "idle"
    <3>1. CASE Save(t) \/ SaveFails(t)
      BY <3>1 DEF Save, SaveFails, Return, Goto, TypeOK
    <3>2. CASE ~ Save(t) /\ ~ SaveFails(t)
      BY <1>4, <3>2 DEF Step, Discover, FindSource, ReadOwn, ReadAdmin, ReadFails, Lock,
         ReadRecord, UseInner, RefreshFails, AuthorizeFails, Logout, Delete, LogoutFails, At
    <3>3. QED
      BY <3>1, <3>2
  <2>4. Pending' \subseteq Pending
    BY <2>2, <2>3 DEF Pending
  <2>5. QED
    BY <1>1, <2>1, <2>4, FewerPending
<1>5. QED
    BY <1>2, <1>3, <1>4

LEMMA BudgetStep == TypeOK /\ BudgetInv /\ (\A t \in Threads : ThreadInv(t)) /\ [Next]_vars
                        => BudgetInv'
<1> SUFFICES ASSUME TypeOK, BudgetInv, \A t \in Threads : ThreadInv(t), [Next]_vars
             PROVE  BudgetInv'
    OBVIOUS
<1>1. CASE UNCHANGED vars
  <2>1. Pending' \subseteq Pending /\ issued' = issued /\ commands' = commands
    BY <1>1 DEF vars, server, Pending
  <2>2. QED
    BY <2>1, FewerPending
<1>2. ASSUME NEW t \in Threads, Start(t) PROVE BudgetInv'
    BY <1>2, StartBudget
<1>3. ASSUME NEW t \in Threads, Step(t) PROVE BudgetInv'
    BY <1>3, StepBudget
<1>4. ASSUME NEW c \in Clients, Exit(c) PROVE BudgetInv'
  <2>1. Pending' \subseteq Pending
    BY <1>4 DEF Exit, Pending
  <2>2. issued' = issued /\ commands' = commands
    BY <1>4 DEF Exit, server
  <2>3. QED
    BY <2>1, <2>2, FewerPending
<1>5. ASSUME NEW n \in Numbers, Age(n) PROVE BudgetInv'
  <2>1. Pending' \subseteq Pending /\ issued' = issued /\ commands' = commands
    BY <1>5 DEF Age, Pending
  <2>2. QED
    BY <2>1, FewerPending
<1>6. QED
    BY <1>1, <1>2, <1>3, <1>4, <1>5 DEF Next

-----------------------------------------------------------------------------
(* Every thread is where its command and its locks say.                    *)

LEMMA ReturnThread ==
    ASSUME TypeOK, NEW t \in Threads, NEW answer, Return(t, answer)
    PROVE  ThreadInv(t)'
<1>1. /\ pc'[t] = "idle" /\ job'[t] = None /\ record'[t] = None /\ result'[t] = None
      /\ t \notin clientLock' /\ t \notin keyLock'
    BY DEF Return, Goto, Unlocked, TypeOK
<1>2. job'[t] \notin Requests \cup Logins
    BY <1>1, Values DEF Commands
<1>3. ~ Requesting(t)' /\ ~ Working(t)'
    BY <1>2 DEF Requesting, Working
<1>4. QED
    BY <1>1, <1>2, <1>3 DEF ThreadInv, At

(* A request goes on with the same job; its locks are those of the call.   *)
LEMMA RequestThread ==
    ASSUME TypeOK, NEW t \in Threads, ThreadInv(t), Requesting(t), job'[t] = job[t],
           pc'[t] \in {"lock", "read", "refresh", "authorize", "save"},
           Source(t)' # None,
           t \notin clientLock',
           t \in keyLock' <=> pc'[t] # "lock",
           record'[t] # None => pc'[t] \in {"refresh", "authorize", "save"},
           pc'[t] = "refresh" => record'[t] # None,
           pc'[t] = "save" <=> result'[t] # None
    PROVE  ThreadInv(t)'
<1>1. Requesting(t)' /\ job'[t] # None /\ job'[t] \notin Logins /\ job'[t] \in Requests
    BY Values DEF Requesting, Commands
<1>2. Working(t)' <=> pc'[t] # "lock"
    BY <1>1 DEF Working
<1>3. QED
    BY <1>1, <1>2 DEF ThreadInv, At

LEMMA StartThread ==
    ASSUME TypeOK, NEW t \in Threads, ThreadInv(t), Start(t)
    PROVE  ThreadInv(t)'
<1>1. pc[t] = "idle" /\ job[t] = None /\ ~ Working(t)
    BY DEF Start, At, ThreadInv, Working
<1>2. t \notin clientLock /\ t \notin keyLock /\ record[t] = None /\ result[t] = None
    BY <1>1 DEF ThreadInv, At
<1>3. UNCHANGED <<locks, record, result>>
    BY DEF Start
<1>4. CASE UNCHANGED <<job, pc>>
    BY <1>1, <1>2, <1>3, <1>4, Values DEF ThreadInv, At, Working, Requesting, locks, Commands
<1>5. CASE \E command \in Commands :
              /\ command \in Logins => ValidLogin(command)
              /\ job' = [job EXCEPT ![t] = command] /\ Goto(t, "discover")
  <2>1. /\ pc'[t] = "discover" /\ job'[t] \in Commands
        /\ job'[t] \in Logins => ValidLogin(job'[t])
    BY <1>5 DEF TypeOK, Goto
  <2>2. QED
    BY <1>2, <1>3, <2>1, Values DEF ThreadInv, At, Working, locks
<1>6. QED
    BY <1>4, <1>5 DEF Start

LEMMA StepThread ==
    ASSUME TypeOK, BudgetInv, NEW t \in Threads, ThreadInv(t), Step(t)
    PROVE  ThreadInv(t)'
<1>0. TypeOK' /\ SourcesKept(t)
    BY TypeStep, OthersSources
<1>1. CASE \E answer \in Replies : Return(t, answer)
    BY <1>1, ReturnThread
<1>2. CASE Discover(t) /\ ~ \E answer \in Replies : Return(t, answer)
  <2>1. /\ At(t, "discover")
        /\ Goto(t, CASE Requesting(t) -> "source"
                     [] job[t] \in Logins -> "authorize"
                     [] OTHER -> "delete")
        /\ UNCHANGED <<locks, local, sources>>
    BY <1>2 DEF Discover, Replies
  <2>2. /\ job'[t] = job[t] /\ record'[t] = record[t] /\ result'[t] = result[t]
        /\ t \in clientLock' <=> t \in clientLock
        /\ t \in keyLock' <=> t \in keyLock
    BY <2>1 DEF locks, local
  <2>3. /\ t \notin clientLock /\ t \notin keyLock /\ record[t] = None /\ result[t] = None
        /\ job[t] # None /\ (job[t] \in Logins => ValidLogin(job[t]))
    BY <2>1 DEF At, ThreadInv, Working
  <2>4. CASE Requesting(t)
    <3>0. job[t] \notin Logins
      BY <2>4, Values DEF Requesting
    <3>1. pc'[t] = "source"
      BY <2>1, <2>4, <3>0 DEF Goto, TypeOK
    <3>2. Requesting(t)' /\ ~ Working(t)'
      BY <2>2, <2>4, <3>1 DEF Working, Requesting
    <3>3. QED
      BY <2>2, <2>3, <3>1, <3>2 DEF ThreadInv, At
  <2>5. CASE ~ Requesting(t) /\ job[t] \in Logins
    <3>1. pc'[t] = "authorize"
      BY <2>1, <2>5 DEF Goto, TypeOK
    <3>2. QED
      BY <2>2, <2>3, <2>5, <3>1 DEF ThreadInv, At, Working, Requesting
  <2>6. CASE ~ Requesting(t) /\ job[t] \notin Logins
    <3>1. pc'[t] = "delete"
      BY <2>1, <2>6 DEF Goto, TypeOK
    <3>2. QED
      BY <2>2, <2>3, <2>6, <3>1 DEF ThreadInv, At, Working, Requesting
  <2>7. QED
    BY <2>4, <2>5, <2>6
<1>3. CASE FindSource(t)
  <2>1. /\ At(t, "source") /\ Requesting(t)
        /\ t \notin keyLock /\ t \notin clientLock /\ record[t] = None /\ result[t] = None
    BY <1>3 DEF FindSource, At, ThreadInv, Working
  <2>2. /\ job'[t] = job[t] /\ record'[t] = None /\ result'[t] = None /\ t \notin keyLock'
        /\ Source(t)' = Source(t)
    BY <1>3, <2>1 DEF FindSource, local, process, Source
  <2>3. CASE Source(t) # None
    <3>1. pc'[t] = "lock" /\ t \notin clientLock'
      BY <1>3, <2>1, <2>3 DEF FindSource, Goto, TypeOK
    <3>2. QED
      BY <2>1, <2>2, <2>3, <3>1, RequestThread
  <2>4. CASE Source(t) = None
    <3>1. pc'[t] = "readOwn" /\ t \in clientLock'
      BY <1>3, <2>4 DEF FindSource, Goto, TypeOK
    <3>2. job[t] # None /\ job[t] \notin Logins
      BY <2>1, Values DEF Requesting, Commands
    <3>3. QED
      BY <2>1, <2>2, <2>4, <3>1, <3>2 DEF ThreadInv, At, Working, Requesting
  <2>5. QED
    BY <2>3, <2>4
<1>4. CASE (ReadOwn(t) \/ ReadAdmin(t)) /\ ~ \E answer \in Replies : Return(t, answer)
  <2>1. /\ pc[t] \in {"readOwn", "readAdmin"} /\ Requesting(t) /\ t \in clientLock
        /\ t \notin keyLock /\ record[t] = None /\ result[t] = None
        /\ Source(t) = None /\ job[t] # None /\ job[t] \notin Logins
    BY <1>4, Values DEF ReadOwn, ReadAdmin, At, ThreadInv, Working, Requesting, Commands
  <2>2. ASSUME NEW source \in CachedSources \cup InteractiveSources, UseSource(t, source)
        PROVE  ThreadInv(t)'
    <3>1. /\ pc'[t] = "lock" /\ t \notin clientLock' /\ t \notin keyLock'
          /\ job'[t] = job[t] /\ record'[t] = None /\ result'[t] = None
      BY <2>1, <2>2 DEF UseSource, Goto, TypeOK, local
    <3>2. Source(t)' = source
      BY <2>1, <2>2, <3>1, SetSourceOnly, SourceType DEF UseSource, Source
    <3>3. source # None
      BY <2>2, Values
    <3>4. QED
      BY <2>1, <3>1, <3>2, <3>3, RequestThread
  <2>3. ASSUME NEW id \in Ids, keyring[id] # None, UseRecord(t, id)
        PROVE  ThreadInv(t)'
    <3>1. [kind |-> "cached", id |-> id, scopes |-> keyring[id].scopes] \in CachedSources
      BY <2>3, Values DEF CachedSources, TypeOK
    <3>2. QED
      BY <1>4, <2>2, <2>3, <3>1 DEF UseRecord, Replies
  <2>4. ASSUME NEW id \in Ids, UseAuthorization(t, id)
        PROVE  ThreadInv(t)'
    <3>1. [kind |-> "interactive", id |-> OwnId(t), saveAs |-> id, reused |-> None, inner |-> None]
              \in InteractiveSources
      BY <2>1, SourceType DEF InteractiveSources
    <3>2. QED
      BY <2>2, <2>4, <3>1 DEF UseAuthorization
  <2>5. CASE /\ Goto(t, "readAdmin") /\ OwnId(t) = Publisher
             /\ UNCHANGED <<sources, unguarded, locks, local, reply>>
    <3>1. /\ pc'[t] = "readAdmin" /\ t \in clientLock' /\ t \notin keyLock'
          /\ job'[t] = job[t] /\ record'[t] = None /\ result'[t] = None
          /\ Source(t)' = None
      BY <2>1, <2>5 DEF Goto, TypeOK, locks, local, Source
    <3>2. OwnId(t)' = Publisher
      BY <2>5, <3>1 DEF OwnId
    <3>3. QED
      BY <2>1, <3>1, <3>2 DEF ThreadInv, At, Working, Requesting
  <2>6. OwnId(t) \in Ids /\ Admin \in Ids
    BY <2>1, SourceType DEF Ids
  <2>7. QED
    BY <1>4, <2>3, <2>4, <2>5, <2>6 DEF ReadOwn, ReadAdmin
<1>5. CASE Lock(t)
  <2>1. /\ At(t, "lock") /\ Requesting(t) /\ Source(t) # None
        /\ t \notin clientLock /\ record[t] = None /\ result[t] = None
    BY <1>5 DEF Lock, At, ThreadInv, Working
  <2>2. /\ job'[t] = job[t] /\ record'[t] = None /\ result'[t] = None
        /\ t \notin clientLock' /\ t \in keyLock' /\ pc'[t] = "read"
        /\ Source(t)' = Source(t)
    BY <1>5, <2>1 DEF Lock, local, process, Source, Goto, TypeOK
  <2>3. QED
    BY <2>1, <2>2, RequestThread
<1>6. CASE (ReadRecord(t) \/ UseInner(t)) /\ ~ \E answer \in Replies : Return(t, answer)
  <2>1. /\ At(t, "read") /\ Requesting(t) /\ Source(t) # None
        /\ t \notin clientLock /\ t \in keyLock /\ record[t] = None /\ result[t] = None
    BY <1>6 DEF ReadRecord, UseInner, At, ThreadInv, Working
  <2>2. /\ UNCHANGED <<job, locks, sources>>
        /\ \E token : record' = [record EXCEPT ![t] = token]
    BY <1>6 DEF ReadRecord, UseInner, process, Replies
  <2>3. /\ job'[t] = job[t] /\ Source(t)' = Source(t)
        /\ t \notin clientLock' /\ t \in keyLock'
    BY <2>1, <2>2 DEF locks, Source
  <2>4. \/ /\ Goto(t, "refresh") /\ UNCHANGED result
           /\ record'[t] # None
        \/ Goto(t, "authorize") /\ UNCHANGED result
        \/ \E token : Goto(t, "save") /\ result' = [result EXCEPT ![t] = token] /\ token # None
    <3>1. CASE ReadRecord(t)
      <4>1. keyring[Source(t).id] # None /\ Source(t).id \in Ids
        BY <1>6, <2>1, <3>1, SourceType DEF ReadRecord, Replies, Cached
      <4>2. keyring[Source(t).id].token \in Tokens
        BY <4>1, Values DEF TypeOK
      <4>3. /\ record' = [record EXCEPT ![t] = keyring[Source(t).id].token]
            /\ \/ Goto(t, "refresh") /\ UNCHANGED result
               \/ Got(t, keyring[Source(t).id].token, FALSE)
        BY <1>6, <3>1 DEF ReadRecord, Replies
      <4>4. record'[t] # None
        BY <4>2, <4>3, Values DEF TypeOK
      <4>5. [token |-> keyring[Source(t).id].token, stated |-> FALSE] \in Results
        BY <4>2 DEF Results
      <4>6. QED
        BY <4>3, <4>4, <4>5, Values DEF Got
    <3>2. CASE UseInner(t)
      <4>1. Source(t).inner \in Tokens \cup {None}
        BY <2>1, <3>2, SourceType, Values DEF UseInner
      <4>2. /\ record' = [record EXCEPT ![t] = Source(t).inner]
            /\ \/ Goto(t, "authorize") /\ UNCHANGED result
               \/ Goto(t, "refresh") /\ UNCHANGED result /\ Source(t).inner # None
               \/ Got(t, Source(t).inner, StatesScope) /\ Source(t).inner # None
        BY <1>6, <3>2 DEF UseInner, Replies
      <4>3. record'[t] = Source(t).inner
        BY <4>2 DEF TypeOK
      <4>4. Source(t).inner # None => [token |-> Source(t).inner, stated |-> StatesScope] \in Results
        BY <4>1, TokenCacheAssumption DEF Results
      <4>5. QED
        BY <4>2, <4>3, <4>4, Values DEF Got
    <3>3. QED
      BY <1>6, <3>1, <3>2
  <2>5. pc'[t] \in {"refresh", "authorize", "save"}
        /\ (pc'[t] = "refresh" => record'[t] # None)
        /\ (pc'[t] = "save" <=> result'[t] # None)
    BY <2>1, <2>4 DEF Goto, TypeOK
  <2>6. QED
    BY <2>1, <2>3, <2>5, RequestThread
<1>7. CASE Refresh(t) \/ Authorize(t)
  <2>1. PICK new \in Tokens : Issue(t, new)
    BY <1>7, RefreshBrings, AuthorizeBrings
  <2>2. [token |-> new, stated |-> StatesScope] \in Results
    BY TokenCacheAssumption DEF Results
  <2>3. pc'[t] = "save" /\ result'[t] # None /\ UNCHANGED <<job, locks, record>>
    BY <1>7, <2>1, <2>2, Values DEF Refresh, Authorize, Issue, Got, Goto, TypeOK
  <2>4. t \notin clientLock
    BY <1>7 DEF Refresh, Authorize, At, ThreadInv
  <2>5. CASE Requesting(t)
    <3>1. Working(t) /\ Source(t) # None /\ t \in keyLock
      BY <1>7, <2>5, RefreshBrings, AuthorizeBrings DEF ThreadInv
    <3>2. Source(t)' # None
      <4>1. job'[t] = job[t]
        BY <2>3
      <4>2. ClientOf[t] \in Clients /\ job[t].scope \in Scopes
        BY <2>5, SourceType
      <4>3. sources'[ClientOf[t]][job[t].scope] # None
        BY <1>0, <3>1, <4>2, Values DEF SourcesKept, SameRecord, Source
      <4>4. QED
        BY <4>1, <4>3 DEF Source
    <3>3. QED
      BY <2>3, <2>4, <2>5, <3>1, <3>2, RequestThread DEF locks
  <2>6. CASE ~ Requesting(t)
    <3>1. /\ job[t] \in Logins /\ job[t] # None /\ ValidLogin(job[t])
          /\ t \notin keyLock /\ record[t] = None
      BY <1>7, <2>6, Values DEF Refresh, Authorize, At, ThreadInv, Working, Requesting, Commands
    <3>2. QED
      BY <2>3, <2>4, <2>6, <3>1 DEF ThreadInv, At, Working, Requesting, locks
  <2>7. QED
    BY <2>5, <2>6
<1>8. CASE RefreshFails(t)
  <2>1. /\ At(t, "refresh") /\ Requesting(t) /\ Working(t) /\ Source(t) # None
        /\ t \notin clientLock /\ t \in keyLock /\ result[t] = None
    BY <1>8 DEF RefreshFails, At, ThreadInv, Working
  <2>2. pc'[t] = "authorize" /\ UNCHANGED <<locks, local>>
    BY <1>8 DEF RefreshFails, Goto, TypeOK
  <2>3. Source(t)' # None
    BY <1>0, <2>1, <2>2, SourceType, Values DEF SourcesKept, SameRecord, Source, local
  <2>4. QED
    BY <2>1, <2>2, <2>3, RequestThread DEF locks, local
<1>9. CASE Logout(t) /\ ~ \E answer \in Replies : Return(t, answer)
  <2>1. At(t, "delete") /\ pc'[t] = "deleteAdmin" /\ UNCHANGED <<job, record, result, locks>>
    BY <1>9 DEF Logout, Delete, Goto, TypeOK, Replies
  <2>2. QED
    BY <2>1 DEF ThreadInv, At, Working, Requesting, locks
<1>10. CASE FailedCall(t) \/ Save(t)
  <2>1. \E answer \in Replies : Return(t, answer)
    BY <1>10 DEF FailedCall, ReadFails, AuthorizeFails, SaveFails, LogoutFails, Save, Replies
  <2>2. QED
    BY <1>1, <2>1
<1>11. QED
    BY <1>1, <1>2, <1>3, <1>4, <1>5, <1>6, <1>7, <1>8, <1>9, <1>10 DEF Step, FailedCall

(* A thread at work keeps the source it uses, as far as record and kind go. *)
LEMMA WorkingSource ==
    ASSUME TypeOK, TypeOK', NEW t \in Threads, ThreadInv(t), SourcesKept(t),
           NEW u \in Threads, ThreadInv(u), Working(u) \/ At(u, "lock"), job'[u] = job[u]
    PROVE  /\ Source(u)' = Source(u) \/ SameRecord(Source(u), Source(u)')
           /\ Requesting(u) /\ Source(u)' # None
           /\ Cached(u)' = Cached(u) /\ Source(u)'.id = Source(u).id
           /\ SaveAs(u)' = SaveAs(u)
<1>1. Requesting(u) /\ Source(u) # None
    BY DEF ThreadInv, Working, At
<1>2. ClientOf[u] \in Clients /\ job[u].scope \in Scopes /\ Requesting(u)'
    BY <1>1, SourceType DEF Requesting
<1>3. sources'[ClientOf[u]][job[u].scope] = Source(u)
      \/ SameRecord(Source(u), sources'[ClientOf[u]][job[u].scope])
    BY <1>1, <1>2 DEF SourcesKept, Source, ThreadInv, At
<1>4. Source(u)' = sources'[ClientOf[u]][job[u].scope]
    BY DEF Source
<1>5. Source(u)' = Source(u) \/ SameRecord(Source(u), Source(u)')
    BY <1>3, <1>4
<1>6. /\ Source(u)' # None /\ Source(u)'.id = Source(u).id
      /\ Source(u) \in CachedSources <=> Source(u)' \in CachedSources
      /\ RecordOf(Source(u)') = RecordOf(Source(u))
  <2>1. CASE Source(u)' = Source(u)
    BY <1>1, <2>1
  <2>2. CASE SameRecord(Source(u), Source(u)')
    <3>1. Source(u).kind = "interactive" /\ Source(u)'.kind = "interactive" /\ Source(u)' # None
      BY <2>2, Values DEF SameRecord
    <3>2. Source(u) \notin CachedSources /\ Source(u)' \notin CachedSources
      BY <3>1, Values
    <3>3. QED
      BY <2>2, <3>1, <3>2 DEF SameRecord, RecordOf
  <2>3. QED
    BY <1>5, <2>1, <2>2
<1>7. /\ Cached(u) <=> Source(u) \in CachedSources
      /\ SaveAs(u) = RecordOf(Source(u))
    BY <1>1, SourceType
<1>8. (Cached(u) <=> Source(u) \in CachedSources)'
      /\ (SaveAs(u) = RecordOf(Source(u)))'
  <2>1. Source(u)' \in CachedSources \cup InteractiveSources
    BY <1>2, <1>4, <1>6 DEF TypeOK
  <2>2. Cached(u)' <=> Source(u)' \in CachedSources
    BY <1>2, <2>1, Values DEF Cached
  <2>3. SaveAs(u)' = RecordOf(Source(u)')
    BY <1>2, <2>1, <2>2, Values DEF SaveAs, AuthorizesAs, RecordOf
  <2>4. QED
    BY <2>2, <2>3
<1>9. QED
    BY <1>1, <1>5, <1>6, <1>7, <1>8 DEF Cached

LEMMA OtherThread ==
    ASSUME TypeOK, TypeOK', \A v \in Threads : ThreadInv(v), LocksInv,
           NEW t \in Threads, SourcesKept(t), NEW u \in Threads \ {t}, Kept(u)
    PROVE  ThreadInv(u)'
<1>1. ThreadInv(u) /\ ThreadInv(t)
    OBVIOUS
<1>2. /\ Requesting(u)' = Requesting(u) /\ Working(u)' = Working(u)
      /\ OwnId(u)' = OwnId(u)
    BY DEF Kept, Requesting, Working, OwnId
<1>3. Working(u) \/ At(u, "lock") => Source(u)' # None
    BY <1>1, WorkingSource DEF Kept
<1>4. At(u, "readOwn") \/ At(u, "readAdmin") => Source(u)' = None
  <2> SUFFICES ASSUME At(u, "readOwn") \/ At(u, "readAdmin") PROVE Source(u)' = None
    OBVIOUS
  <2>1. Requesting(u) /\ Source(u) = None /\ u \in clientLock
    BY <1>1 DEF ThreadInv, At
  <2>2. ClientOf[u] \in Clients /\ job[u].scope \in Scopes
    BY <2>1, SourceType
  <2>3. Source(u)' = sources'[ClientOf[u]][job[u].scope]
    BY DEF Source, Kept
  <2>4. ~ (ClientOf[t] = ClientOf[u] /\ pc[t] \in {"readOwn", "readAdmin"})
    BY <1>1, <2>1 DEF ThreadInv, LocksInv, Peers
  <2>5. ~ SameRecord(Source(u), sources'[ClientOf[u]][job[u].scope])
    BY <2>1, Values DEF SameRecord
  <2>6. QED
    BY <2>1, <2>2, <2>3, <2>4, <2>5 DEF SourcesKept, Source
<1>5. QED
    BY <1>1, <1>2, <1>3, <1>4 DEF ThreadInv, Kept, At

LEMMA ThreadStep ==
    ASSUME TypeOK, BudgetInv, LocksInv, \A v \in Threads : ThreadInv(v), TypeOK',
           NEW t \in Threads, Start(t) \/ Step(t)
    PROVE  \A u \in Threads : ThreadInv(u)'
<1>1. ThreadInv(t)'
    BY StartThread, StepThread
<1>2. SourcesKept(t) /\ \A u \in Threads \ {t} : Kept(u)
    BY OthersKept, OthersSources
<1>3. \A u \in Threads \ {t} : ThreadInv(u)'
    BY <1>2, OtherThread
<1>4. QED
    BY <1>1, <1>3

-----------------------------------------------------------------------------
(* The locks exclude.                                                      *)

LEMMA ContendsSymmetric ==
    ASSUME TypeOK, NEW t \in Threads, NEW u \in Threads, ClientOf[t] = ClientOf[u],
           Requesting(t), Requesting(u), Contends(t, u)
    PROVE  Contends(u, t)
<1>1. CASE Cached(t)
    BY <1>1 DEF Contends
<1>2. CASE ~ Cached(t)
  <2>1. job[u].scope = job[t].scope
    BY <1>2 DEF Contends
  <2>2. ~ Cached(u)
    BY <1>2, <2>1 DEF Cached, Source
  <2>3. QED
    BY <2>1, <2>2 DEF Contends
<1>3. QED
    BY <1>1, <1>2

LEMMA LocksStep ==
    ASSUME TypeOK, BudgetInv, LocksInv, \A v \in Threads : ThreadInv(v), TypeOK',
           NEW t \in Threads, Start(t) \/ Step(t)
    PROVE  LocksInv'
<1>1. SourcesKept(t) /\ \A u \in Threads \ {t} : Kept(u)
    BY OthersKept, OthersSources
<1>2. \A u \in Threads : Peers(u)' = Peers(u)
    BY DEF Peers
<1>3. t \in clientLock' => t \in clientLock \/ clientLock \cap Peers(t) = {}
  <2>1. CASE FindSource(t)
    BY <2>1 DEF FindSource
  <2>2. CASE ~ FindSource(t)
    BY <2>2 DEF Start, Step, Discover, ReadOwn, ReadAdmin, ReadFails, Lock, ReadRecord,
       UseInner, Refresh, RefreshFails, Authorize, AuthorizeFails, Save, SaveFails,
       Logout, Delete, LogoutFails, Return, Unlocked, locks, UseRecord, UseAuthorization,
       UseSource
  <2>3. QED
    BY <2>1, <2>2
<1>4. t \in keyLock' =>
        /\ job'[t] = job[t]
        /\ \/ t \in keyLock
           \/ /\ Requesting(t) /\ At(t, "lock")
              /\ \A u \in keyLock \cap Peers(t) : ~ Contends(t, u)
  <2> SUFFICES ASSUME t \in keyLock'
               PROVE  /\ job'[t] = job[t]
                      /\ \/ t \in keyLock
                         \/ /\ Requesting(t) /\ At(t, "lock")
                            /\ \A u \in keyLock \cap Peers(t) : ~ Contends(t, u)
    OBVIOUS
  <2>1. CASE Lock(t)
    BY <2>1 DEF Lock, local, ThreadInv, At
  <2>2. CASE \E answer \in Replies : Return(t, answer)
    BY <2>2 DEF Return
  <2>3. CASE Start(t)
    BY <2>3 DEF Start, locks, At, ThreadInv, Working
  <2>4. CASE ~ Lock(t) /\ ~ Start(t) /\ ~ \E answer \in Replies : Return(t, answer)
    <3>1. keyLock' = keyLock /\ job' = job
      BY <2>4 DEF Step, Discover, FindSource, ReadOwn, ReadAdmin, ReadFails, ReadRecord,
         UseInner, Refresh, RefreshFails, Authorize, AuthorizeFails, Save, SaveFails,
         Logout, Delete, LogoutFails, locks, local, UseRecord, UseAuthorization,
         UseSource, Replies
    <3>2. QED
      BY <3>1
  <2>5. QED
    BY <2>1, <2>2, <2>3, <2>4
<1>5. \A u \in clientLock' : clientLock' \cap Peers(u)' = {}
  <2> SUFFICES ASSUME NEW u \in Threads, NEW v \in Threads, u \in clientLock', v \in clientLock',
                      v \in Peers(u)
               PROVE  FALSE
    BY <1>2 DEF TypeOK
  <2>1. u # v /\ u \in Peers(v)
    BY DEF Peers
  <2>2. CASE u # t /\ v # t
    BY <1>1, <2>2 DEF Kept, LocksInv
  <2>3. CASE u = t
    BY <1>1, <1>3, <2>1, <2>3 DEF Kept, LocksInv
  <2>4. CASE v = t
    BY <1>1, <1>3, <2>1, <2>4 DEF Kept, LocksInv
  <2>5. QED
    BY <2>2, <2>3, <2>4
<1>6. ASSUME NEW u \in Threads, NEW v \in Threads, u \in keyLock', v \in keyLock', v \in Peers(u)
      PROVE  ~ Contends(u, v)'
  <2>1. /\ u # v /\ u \in Peers(v) /\ ClientOf[u] = ClientOf[v]
        /\ job'[u] = job[u] /\ job'[v] = job[v]
    BY <1>1, <1>4, <1>6 DEF Peers, Kept
  <2>2. /\ Working(u) \/ At(u, "lock")
        /\ Working(v) \/ At(v, "lock")
    BY <1>1, <1>4, <1>6 DEF Kept, ThreadInv
  <2>3. /\ Requesting(u) /\ Requesting(v)
        /\ Cached(u)' = Cached(u) /\ Source(u)'.id = Source(u).id
        /\ Cached(v)' = Cached(v) /\ Source(v)'.id = Source(v).id
    BY <1>1, <2>1, <2>2, WorkingSource
  <2>4. Contends(u, v)' => Contends(u, v)
    BY <2>1, <2>3 DEF Contends
  <2>5. ~ Contends(u, v)
    <3>1. CASE u # t /\ v # t
      BY <1>1, <1>6, <3>1 DEF Kept, LocksInv
    <3>2. CASE u = t
      BY <1>1, <1>4, <1>6, <3>2, <2>1 DEF Kept, LocksInv
    <3>3. CASE v = t
      <4>1. ~ Contends(v, u)
        BY <1>1, <1>4, <1>6, <3>3, <2>1 DEF Kept, LocksInv
      <4>2. QED
        BY <2>1, <2>3, <4>1, ContendsSymmetric
    <3>4. QED
      BY <3>1, <3>2, <3>3
  <2>6. QED
    BY <2>4, <2>5
<1>7. \A u \in keyLock' : \A v \in keyLock' \cap Peers(u)' : ~ Contends(u, v)'
    BY <1>2, <1>6 DEF TypeOK
<1>8. QED
    BY <1>5, <1>7 DEF LocksInv

-----------------------------------------------------------------------------
(* Sources of one record, outside unguarded, are kept apart.               *)

LEMMA GuardedSymmetric ==
    ASSUME NEW c, NEW d, NEW source, NEW other, other # None, Guarded(c, source, d, other)
    PROVE  Guarded(d, other, c, source)
BY DEF Guarded

LEMMA SameGuard ==
    ASSUME NEW c, NEW d, NEW source, NEW other, NEW source2, NEW other2,
           Guarded(c, source, d, other),
           source2 = source \/ SameRecord(source, source2),
           other2 = other \/ SameRecord(other, other2)
    PROVE  Guarded(c, source2, d, other2)
<1>1. \A x, y : SameRecord(x, y) =>
        x # None /\ y # None /\ x.kind = "interactive" /\ y.kind = "interactive" /\ RecordOf(y) = RecordOf(x)
    BY Values DEF SameRecord, RecordOf
<1>2. source2.kind = source.kind /\ RecordOf(source2) = RecordOf(source)
    BY <1>1
<1>3. other2.kind = other.kind /\ RecordOf(other2) = RecordOf(other) /\ (other = None => other2 = None)
    BY <1>1
<1>4. QED
    BY <1>2, <1>3 DEF Guarded

LEMMA GuardKept ==
    ASSUME GuardInv, unguarded' = unguarded,
           \A c \in Clients, s \in Scopes :
               sources'[c][s] = sources[c][s] \/ SameRecord(sources[c][s], sources'[c][s])
    PROVE  GuardInv'
<1> SUFFICES ASSUME NEW c \in Clients, NEW d \in Clients, NEW r \in Scopes, NEW s \in Scopes,
                    sources'[c][r] # None, RecordOf(sources[c][r])' \notin unguarded'
             PROVE  Guarded(c, sources'[c][r], d, sources'[d][s])
    BY DEF GuardInv
<1>1. /\ sources'[c][r] = sources[c][r] \/ SameRecord(sources[c][r], sources'[c][r])
      /\ sources'[d][s] = sources[d][s] \/ SameRecord(sources[d][s], sources'[d][s])
    OBVIOUS
<1>2. sources[c][r] # None /\ RecordOf(sources[c][r]) \notin unguarded
    BY <1>1, Values DEF SameRecord, RecordOf
<1>3. Guarded(c, sources[c][r], d, sources[d][s])
    BY <1>2 DEF GuardInv
<1>4. QED
    BY <1>1, <1>3, SameGuard

LEMMA GuardUseSource ==
    ASSUME TypeOK, GuardInv, NEW t \in Threads, Requesting(t),
           NEW source \in CachedSources \cup InteractiveSources, UseSource(t, source),
           Source(t) = None
    PROVE  GuardInv'
<1>1. \A c \in Clients, s \in Scopes :
        sources'[c][s] = IF c = ClientOf[t] /\ s = job[t].scope THEN source ELSE sources[c][s]
    BY SetSourceOnly DEF UseSource
<1>2. source # None /\ source.kind \in {"cached", "interactive"}
    BY Values
<1>3. unguarded \subseteq unguarded'
    BY DEF UseSource
<1>4. RecordOf(source) \notin unguarded' =>
        \A d \in Clients, s \in Scopes : Guarded(ClientOf[t], source, d, sources[d][s])
    BY DEF UseSource
<1> SUFFICES ASSUME NEW c \in Clients, NEW d \in Clients, NEW r \in Scopes, NEW s \in Scopes,
                    sources'[c][r] # None, RecordOf(sources'[c][r]) \notin unguarded'
             PROVE  Guarded(c, sources'[c][r], d, sources'[d][s])
    BY DEF GuardInv
<1>5. CASE c = ClientOf[t] /\ r = job[t].scope /\ d = ClientOf[t] /\ s = job[t].scope
    BY <1>1, <1>2, <1>5 DEF Guarded
<1>6. CASE (c = ClientOf[t] /\ r = job[t].scope) /\ ~ (d = ClientOf[t] /\ s = job[t].scope)
    BY <1>1, <1>4, <1>6
<1>7. CASE ~ (c = ClientOf[t] /\ r = job[t].scope) /\ d = ClientOf[t] /\ s = job[t].scope
  <2>1. sources'[c][r] = sources[c][r] /\ sources'[d][s] = source
    BY <1>1, <1>7
  <2>2. CASE RecordOf(source) # RecordOf(sources[c][r])
    BY <2>1, <2>2 DEF Guarded
  <2>3. CASE RecordOf(source) = RecordOf(sources[c][r])
    <3>1. Guarded(ClientOf[t], source, c, sources[c][r])
      BY <1>4, <2>1, <2>3
    <3>2. QED
      BY <1>7, <2>1, <3>1, GuardedSymmetric
  <2>4. QED
    BY <2>2, <2>3
<1>8. CASE ~ (c = ClientOf[t] /\ r = job[t].scope) /\ ~ (d = ClientOf[t] /\ s = job[t].scope)
    BY <1>1, <1>3, <1>8 DEF GuardInv
<1>9. QED
    BY <1>5, <1>6, <1>7, <1>8

(* A request under mu makes its source, or changes none.                   *)
LEMMA UnderMu ==
    ASSUME TypeOK, NEW t \in Threads, ThreadInv(t), ReadOwn(t) \/ ReadAdmin(t)
    PROVE  /\ Requesting(t) /\ Source(t) = None
           /\ \/ UNCHANGED <<sources, unguarded>>
              \/ \E source \in CachedSources \cup InteractiveSources :
                    /\ UseSource(t, source)
                    /\ source \in InteractiveSources => source.inner = None /\ source.reused = None
<1>1. Requesting(t) /\ Source(t) = None
    BY DEF ReadOwn, ReadAdmin, At, ThreadInv
<1>2. OwnId(t) \in Ids /\ Admin \in Ids
    BY <1>1, SourceType DEF Ids
<1>3. ASSUME NEW id \in Ids, keyring[id] # None, UseRecord(t, id), ~ UNCHANGED <<sources, unguarded>>
      PROVE  \E source \in CachedSources \cup InteractiveSources :
                 /\ UseSource(t, source)
                 /\ source \in InteractiveSources => source.inner = None /\ source.reused = None
  <2> DEFINE new == [kind |-> "cached", id |-> id, scopes |-> keyring[id].scopes]
  <2>1. new \in CachedSources /\ new.kind = "cached"
    BY <1>3, Values DEF CachedSources, TypeOK
  <2>2. UseSource(t, new)
    BY <1>3 DEF UseRecord
  <2> HIDE DEF new
  <2>3. QED
    BY <2>1, <2>2, Values
<1>4. ASSUME NEW id \in Ids, UseAuthorization(t, id)
      PROVE  \E source \in CachedSources \cup InteractiveSources :
                 /\ UseSource(t, source)
                 /\ source \in InteractiveSources => source.inner = None /\ source.reused = None
  <2> DEFINE new == [kind |-> "interactive", id |-> OwnId(t), saveAs |-> id,
                     reused |-> None, inner |-> None]
  <2>1. new \in InteractiveSources /\ new.inner = None /\ new.reused = None
    BY <1>2 DEF InteractiveSources
  <2>2. UseSource(t, new)
    BY <1>4 DEF UseAuthorization
  <2> HIDE DEF new
  <2>3. QED
    BY <2>1, <2>2
<1>5. QED
    BY <1>1, <1>2, <1>3, <1>4 DEF ReadOwn, ReadAdmin

LEMMA GuardStep ==
    ASSUME TypeOK, BudgetInv, GuardInv, NEW t \in Threads, ThreadInv(t), Start(t) \/ Step(t)
    PROVE  GuardInv'
<1>1. CASE ReadOwn(t) \/ ReadAdmin(t)
    BY <1>1, UnderMu, GuardUseSource, GuardKept
<1>2. CASE ~ ReadOwn(t) /\ ~ ReadAdmin(t)
  <2>1. unguarded' = unguarded
    BY <1>2 DEF Start, Step, Discover, FindSource, ReadFails, Lock, ReadRecord,
       UseInner, Refresh, RefreshFails, Authorize, AuthorizeFails, Save, SaveFails,
       Logout, LogoutFails, process
  <2>2. UNCHANGED sources \/ ~ pc[t] \in {"readOwn", "readAdmin"}
    BY <1>2 DEF Start, Step, Discover, FindSource, ReadFails, Lock, ReadRecord,
       UseInner, Refresh, RefreshFails, Authorize, AuthorizeFails, Save, SaveFails,
       Logout, LogoutFails, process, At
  <2>3. SourcesKept(t)
    BY OthersSources
  <2>4. \A c \in Clients, s \in Scopes :
            sources'[c][s] = sources[c][s] \/ SameRecord(sources[c][s], sources'[c][s])
    BY <2>2, <2>3 DEF SourcesKept
  <2>5. QED
    BY <2>1, <2>4, GuardKept
<1>3. QED
    BY <1>1, <1>2

-----------------------------------------------------------------------------
LEMMA ExitControl ==
    ASSUME ControlInv, NEW c \in Clients, Exit(c)
    PROVE  ControlInv'
<1> DEFINE mine == {t \in Threads : ClientOf[t] = c}
<1>1. TypeOK'
    BY ExitTypes DEF ControlInv
<1>2. \A t \in mine : /\ pc'[t] = "idle" /\ job'[t] = None /\ record'[t] = None /\ result'[t] = None
                      /\ t \notin clientLock' /\ t \notin keyLock'
    BY DEF Exit
<1>3. \A t \in Threads \ mine : Kept(t) /\ Source(t)' = Source(t)
  <2> SUFFICES ASSUME NEW t \in Threads \ mine PROVE Kept(t) /\ Source(t)' = Source(t)
    OBVIOUS
  <2>1. Kept(t)
    BY DEF Exit, Kept
  <2>2. ClientOf[t] \in Clients /\ ClientOf[t] # c
    BY TokenCacheAssumption
  <2>3. sources'[ClientOf[t]] = sources[ClientOf[t]]
    BY <2>2 DEF Exit, ControlInv, TypeOK
  <2>4. QED
    BY <2>1, <2>3 DEF Source, Kept
<1>4. \A t \in Threads : ThreadInv(t)'
  <2>1. ASSUME NEW t \in mine PROVE ThreadInv(t)'
    <3>1. job'[t] \notin Requests \cup Logins
      BY <1>2, Values DEF Commands
    <3>2. QED
      BY <1>2, <3>1 DEF ThreadInv, At, Requesting, Working
  <2>2. ASSUME NEW t \in Threads \ mine PROVE ThreadInv(t)'
    <3>1. ThreadInv(t)
      BY DEF ControlInv
    <3>2. Requesting(t)' = Requesting(t) /\ Working(t)' = Working(t) /\ OwnId(t)' = OwnId(t)
      BY <1>3 DEF Kept, Requesting, Working, OwnId
    <3>3. QED
      BY <1>3, <3>1, <3>2 DEF ThreadInv, Kept, At
  <2>3. QED
    BY <2>1, <2>2
<1>5. LocksInv'
  <2>1. \A t \in Threads : Peers(t)' = Peers(t)
    BY DEF Peers
  <2>2. clientLock' \subseteq clientLock /\ keyLock' \subseteq keyLock \ mine
        /\ keyLock' \subseteq Threads /\ clientLock' \subseteq Threads
    BY <1>1 DEF Exit, TypeOK
  <2>3. \A t \in keyLock' : \A u \in keyLock' \cap Peers(t) : Contends(t, u)' = Contends(t, u)
    <3> SUFFICES ASSUME NEW t \in keyLock', NEW u \in keyLock' \cap Peers(t)
                 PROVE  Contends(t, u)' = Contends(t, u)
      OBVIOUS
    <3>1. Kept(t) /\ Kept(u) /\ Source(t)' = Source(t) /\ Source(u)' = Source(u)
      BY <1>3, <2>2
    <3>2. QED
      BY <3>1 DEF Kept, Contends, Cached, Requesting
  <2>4. QED
    BY <2>1, <2>2, <2>3 DEF LocksInv, ControlInv
<1>6. GuardInv'
  <2> SUFFICES ASSUME NEW b \in Clients, NEW d \in Clients, NEW r \in Scopes, NEW s \in Scopes,
                      sources'[b][r] # None, RecordOf(sources'[b][r]) \notin unguarded'
               PROVE  Guarded(b, sources'[b][r], d, sources'[d][s])
    BY DEF GuardInv
  <2>1. unguarded' = unguarded
    BY DEF Exit
  <2>2. \A a \in Clients, q \in Scopes :
            sources'[a][q] = IF a = c THEN None ELSE sources[a][q]
    BY DEF Exit, ControlInv, TypeOK
  <2>3. b # c /\ sources'[b][r] = sources[b][r]
    BY <2>2
  <2>4. Guarded(b, sources[b][r], d, sources[d][s])
    BY <2>1, <2>3 DEF ControlInv, GuardInv
  <2>5. QED
    BY <2>2, <2>3, <2>4 DEF Guarded
<1>7. QED
    BY <1>1, <1>4, <1>5, <1>6 DEF ControlInv

LEMMA SameControl ==
    ASSUME ControlInv, TypeOK',
           UNCHANGED <<sources, unguarded, clientLock, keyLock, pc, job, record, result>>
    PROVE  ControlInv'
<1>1. \A t \in Threads : /\ ThreadInv(t)' = ThreadInv(t) /\ Peers(t)' = Peers(t)
                         /\ \A u \in Threads : Contends(t, u)' = Contends(t, u)
    BY DEF ThreadInv, At, Requesting, Working, Source, OwnId, Peers, Contends, Cached
<1>2. LocksInv'
    BY <1>1 DEF LocksInv, ControlInv, TypeOK
<1>3. GuardInv'
    BY DEF GuardInv, ControlInv
<1>4. QED
    BY <1>1, <1>2, <1>3 DEF ControlInv

LEMMA ControlStep == ControlInv /\ BudgetInv /\ [Next]_vars => ControlInv' /\ BudgetInv'
<1> SUFFICES ASSUME ControlInv, BudgetInv, [Next]_vars PROVE ControlInv' /\ BudgetInv'
    OBVIOUS
<1>1. BudgetInv'
    BY BudgetStep DEF ControlInv
<1>2. ASSUME NEW t \in Threads, Start(t) \/ Step(t) PROVE ControlInv'
  <2>1. TypeOK' /\ GuardInv'
    BY <1>2, StartTypes, TypeStep, GuardStep DEF ControlInv
  <2>2. LocksInv' /\ \A u \in Threads : ThreadInv(u)'
    BY <1>2, <2>1, LocksStep, ThreadStep DEF ControlInv
  <2>3. QED
    BY <2>1, <2>2 DEF ControlInv
<1>3. ASSUME NEW c \in Clients, Exit(c) PROVE ControlInv'
    BY <1>3, ExitControl
<1>4. ASSUME NEW n \in Numbers, Age(n) PROVE ControlInv'
    BY <1>4, AgeTypes, SameControl DEF ControlInv, Age, process, locks, local
<1>5. CASE UNCHANGED vars
  <2>1. TypeOK'
    BY <1>5 DEF ControlInv, TypeOK, vars, server, process, locks, local
  <2>2. QED
    BY <1>1, <1>5, <2>1, SameControl DEF vars, process, locks, local
<1>6. QED
    BY <1>1, <1>2, <1>3, <1>4, <1>5 DEF Next

LEMMA ControlInit == Init => ControlInv /\ BudgetInv
<1> SUFFICES ASSUME Init PROVE ControlInv /\ BudgetInv
    OBVIOUS
<1>1. TypeOK
  <2>1. issued \in 0..MaxCommands /\ commands \in 0..MaxCommands /\ faults \in 0..MaxFaults
    BY TokenCacheAssumption DEF Init
  <2>2. QED
    BY <2>1 DEF Init, TypeOK, Steps, Replies
<1>2. \A t \in Threads : ThreadInv(t)
  <2>1. None \notin Requests \cup Logins
    BY Values DEF Commands
  <2>2. QED
    BY <2>1 DEF Init, ThreadInv, At, Requesting, Working
<1>3. LocksInv /\ GuardInv
    BY DEF Init, LocksInv, GuardInv
<1>4. Pending = {}
    BY DEF Init, Pending
<1>5. BudgetInv
    BY <1>4, FS_EmptySet DEF Init, BudgetInv
<1>6. QED
    BY <1>1, <1>2, <1>3, <1>5 DEF ControlInv

-----------------------------------------------------------------------------
(* Where tokens come from: a step moves tokens within the places of one    *)
(* record, or brings a new one.                                            *)

OldTokens ==
    \A x \in Tokens, id \in Ids : Located(x, id)' => Located(x, id)

(* n is a token of a new grant, or a renewed one of the record.            *)
NewToken(n, home) ==
    /\ issued' = issued + 1
    /\ \/ n.grant = issued + 1 /\ n.refresh = issued + 1
       \/ \E x \in Tokens :
            Located(x, home) /\ n.grant = x.grant /\ n.refresh \in {x.refresh, issued + 1}
    /\ \A x \in Tokens, id \in Ids :
            Located(x, id)' => Located(x, id) \/ (x = n /\ id = home)

(* What thread t, the keyring and the sources hold after a step.           *)
Moved(t, x, id) ==
    \/ InKeyring(x, id)'
    \/ \E c \in Clients, s \in Scopes : InSource(x, c, s)' /\ sources'[c][s].saveAs = id
    \/ InThread(x, t)' /\ SaveAs(t)' = id

LEMMA HolderWorks ==
    ASSUME TypeOK, NEW u \in Threads, ThreadInv(u), NEW x \in Tokens, InThread(x, u)
    PROVE  /\ pc[u] \in {"refresh", "authorize", "save"}
           /\ Working(u) \/ job[u] \in Logins
<1>1. record[u] # None \/ result[u] # None
    BY Values DEF InThread
<1>2. pc[u] \in {"refresh", "authorize", "save"}
    BY <1>1 DEF ThreadInv, At
<1>3. QED
    BY <1>2 DEF ThreadInv, Working, Requesting

LEMMA LocatedMoves ==
    ASSUME TypeOK, TypeOK', \A v \in Threads : ThreadInv(v),
           NEW t \in Threads, SourcesKept(t), \A u \in Threads \ {t} : Kept(u),
           NEW x \in Tokens, NEW id \in Ids, Located(x, id)'
    PROVE  Located(x, id) \/ Moved(t, x, id)
<1>1. ASSUME NEW u \in Threads \ {t}, InThread(x, u)', SaveAs(u)' = id
      PROVE  Located(x, id)
  <2>1. InThread(x, u) /\ Kept(u) /\ ThreadInv(u) /\ ThreadInv(t)
    BY <1>1 DEF InThread, Kept
  <2>2. Working(u) \/ job[u] \in Logins
    BY <2>1, HolderWorks
  <2>3. SaveAs(u)' = SaveAs(u)
    <3>1. CASE Working(u)
      BY <2>1, <3>1, WorkingSource DEF Kept
    <3>2. CASE job[u] \in Logins
      <4>1. ~ Requesting(u) /\ ~ Requesting(u)' /\ job'[u] = job[u]
        BY <2>1, <3>2, Values DEF Requesting, Kept
      <4>2. QED
        BY <4>1 DEF SaveAs, AuthorizesAs
    <3>3. QED
      BY <2>2, <3>1, <3>2
  <2>4. QED
    BY <1>1, <2>1, <2>3 DEF Located
<1>2. QED
    BY <1>1 DEF Located, Moved

LEMMA OldIfMoved ==
    ASSUME TypeOK, TypeOK', \A v \in Threads : ThreadInv(v),
           NEW t \in Threads, SourcesKept(t), \A u \in Threads \ {t} : Kept(u),
           \A x \in Tokens, id \in Ids : Moved(t, x, id) => Located(x, id)
    PROVE  OldTokens
BY LocatedMoves DEF OldTokens

(* Steps that move no token: t has none, the keyring gains none.           *)
LEMMA OldIfStill ==
    ASSUME TypeOK, TypeOK', \A v \in Threads : ThreadInv(v),
           NEW t \in Threads, SourcesKept(t), \A u \in Threads \ {t} : Kept(u),
           \A id \in Ids : keyring'[id] = keyring[id] \/ keyring'[id] = None,
           \A c \in Clients, s \in Scopes :
                \/ sources'[c][s] = sources[c][s]
                \/ sources'[c][s] \in InteractiveSources =>
                        sources'[c][s].inner = None /\ sources'[c][s].reused = None,
           record'[t] = None, result'[t] = None
    PROVE  OldTokens
<1> SUFFICES ASSUME NEW x \in Tokens, NEW id \in Ids, Moved(t, x, id) PROVE Located(x, id)
    BY OldIfMoved
<1>1. x # None
    BY Values
<1>2. CASE InKeyring(x, id)'
    BY <1>2 DEF InKeyring, Located
<1>3. ASSUME NEW c \in Clients, NEW s \in Scopes, InSource(x, c, s)', sources'[c][s].saveAs = id
      PROVE  Located(x, id)
    BY <1>1, <1>3 DEF InSource, Located
<1>4. ~ InThread(x, t)'
    BY <1>1 DEF InThread
<1>5. QED
    BY <1>2, <1>3, <1>4 DEF Moved

LEMMA StillSteps ==
    ASSUME ControlInv, BudgetInv, TypeOK', NEW t \in Threads,
           \/ Start(t) \/ Discover(t) \/ FindSource(t) \/ ReadOwn(t) \/ ReadAdmin(t) \/ Lock(t)
           \/ FailedCall(t) \/ Logout(t)
    PROVE  OldTokens /\ issued' = issued
<1> USE DEF ControlInv
<1>1. SourcesKept(t) /\ (\A u \in Threads \ {t} : Kept(u)) /\ ThreadInv(t)
    BY OthersKept, OthersSources DEF Step, FailedCall
<1>2. issued' = issued
    BY DEF Start, Discover, FindSource, ReadOwn, ReadAdmin, Lock, FailedCall, ReadFails,
       AuthorizeFails, SaveFails, LogoutFails, Logout, server
<1>3. \A id \in Ids : keyring'[id] = keyring[id] \/ keyring'[id] = None
    BY DEF Start, Discover, FindSource, ReadOwn, ReadAdmin, Lock, FailedCall, ReadFails,
       AuthorizeFails, SaveFails, LogoutFails, Logout, Delete, TypeOK
<1>4. \A c \in Clients, s \in Scopes :
        \/ sources'[c][s] = sources[c][s]
        \/ sources'[c][s] \in InteractiveSources =>
                sources'[c][s].inner = None /\ sources'[c][s].reused = None
  <2>1. CASE ReadOwn(t) \/ ReadAdmin(t)
    BY <1>1, <2>1, UnderMu, SetSourceOnly DEF UseSource
  <2>2. CASE ~ (ReadOwn(t) \/ ReadAdmin(t))
    BY <2>2 DEF Start, Discover, FindSource, Lock, FailedCall, ReadFails,
       AuthorizeFails, SaveFails, LogoutFails, Logout, process
  <2>3. QED
    BY <2>1, <2>2
<1>5. record'[t] = None /\ result'[t] = None
  <2>1. CASE \E answer \in Replies : Return(t, answer)
    BY <2>1 DEF Return, TypeOK
  <2>2. CASE ~ \E answer \in Replies : Return(t, answer)
    <3>1. pc[t] \notin {"refresh", "authorize", "save"}
      BY <2>2 DEF Start, Discover, FindSource, ReadOwn, ReadAdmin, Lock, FailedCall, ReadFails,
         AuthorizeFails, SaveFails, LogoutFails, Logout, Delete, At, Replies
    <3>2. record[t] = None /\ result[t] = None
      BY <1>1, <3>1 DEF ThreadInv, At
    <3>3. UNCHANGED <<record, result>>
      BY <2>2 DEF Start, Discover, FindSource, ReadOwn, ReadAdmin, Lock, FailedCall, ReadFails,
         AuthorizeFails, SaveFails, LogoutFails, Logout, Delete, Replies, local, UseRecord,
         UseAuthorization, UseSource
    <3>4. QED
      BY <3>2, <3>3
  <2>3. QED
    BY <2>1, <2>2
<1>6. QED
    BY <1>1, <1>2, <1>3, <1>4, <1>5, OldIfStill

(* What an interactive source keeps, when its thread changes a token of it. *)
LEMMA InnerSet ==
    ASSUME TypeOK, NEW t \in Threads, Requesting(t), Source(t) # None, ~ Cached(t),
           NEW token \in Tokens \cup {None}, SetSource(t, [Source(t) EXCEPT !.inner = token])
    PROVE  /\ Source(t) \in InteractiveSources
           /\ ClientOf[t] \in Clients /\ job[t].scope \in Scopes
           /\ \A c \in Clients, s \in Scopes :
                IF c = ClientOf[t] /\ s = job[t].scope
                THEN /\ sources'[c][s] \in InteractiveSources
                     /\ sources'[c][s].inner = token
                     /\ sources'[c][s].reused = Source(t).reused
                     /\ sources'[c][s].saveAs = SaveAs(t)
                     /\ sources[c][s] = Source(t)
                ELSE sources'[c][s] = sources[c][s]
<1>1. Source(t) \in InteractiveSources /\ SaveAs(t) = Source(t).saveAs
    BY SourceType DEF SaveAs
<1> DEFINE new == [Source(t) EXCEPT !.inner = token]
<1>2. /\ new \in InteractiveSources /\ new.inner = token
      /\ new.reused = Source(t).reused /\ new.saveAs = Source(t).saveAs
    BY <1>1 DEF InteractiveSources
<1>3. SetSource(t, new)
    OBVIOUS
<1> HIDE DEF new
<1>4. \A c \in Clients, s \in Scopes :
        sources'[c][s] = IF c = ClientOf[t] /\ s = job[t].scope THEN new ELSE sources[c][s]
    BY <1>3, SetSourceOnly
<1>5. ClientOf[t] \in Clients /\ job[t].scope \in Scopes
    BY SourceType
<1>6. Source(t) = sources[ClientOf[t]][job[t].scope]
    BY DEF Source
<1>7. QED
    BY <1>1, <1>2, <1>4, <1>5, <1>6

(* The source of a request belongs to the places of its record.            *)
LEMMA InnerLocated ==
    ASSUME TypeOK, NEW t \in Threads, Requesting(t), Source(t) \in InteractiveSources,
           NEW x \in Tokens, x \in {Source(t).inner, Source(t).reused}
    PROVE  Located(x, Source(t).saveAs) /\ Source(t).saveAs \in Ids
BY SourceType, Values DEF Located, InSource, Source

(* What a thread reads for its request: the record, or the source's token. *)
Reads(t, token) ==
    /\ record' = [record EXCEPT ![t] = token]
    /\ \/ UNCHANGED result
       \/ \E stated : result' = [result EXCEPT ![t] = [token |-> token, stated |-> stated]]
    /\ UNCHANGED job
    /\ token # None =>
        IF Cached(t) THEN InKeyring(token, SaveAs(t))
        ELSE /\ Source(t) \in InteractiveSources
             /\ token = Source(t).inner /\ SaveAs(t) = Source(t).saveAs

LEMMA ReadBrings ==
    ASSUME TypeOK, NEW t \in Threads, ThreadInv(t), ReadRecord(t) \/ UseInner(t)
    PROVE  /\ At(t, "read") /\ Working(t) /\ Requesting(t) /\ Source(t) # None
           /\ record[t] = None /\ result[t] = None
           /\ UNCHANGED <<keyring, sources, unguarded, issued, live>>
           /\ \/ \E answer \in Replies : Return(t, answer)
              \/ \E token \in Tokens \cup {None} : Reads(t, token)
<1>1. /\ At(t, "read") /\ Working(t) /\ Requesting(t) /\ Source(t) # None
      /\ record[t] = None /\ result[t] = None
    BY DEF ReadRecord, UseInner, At, ThreadInv, Working
<1>2. UNCHANGED <<keyring, sources, unguarded, issued, live>>
    BY DEF ReadRecord, UseInner, process, server
<1>3. ASSUME ~ \E answer \in Replies : Return(t, answer)
      PROVE  \E token \in Tokens \cup {None} : Reads(t, token)
  <2>1. UNCHANGED job
    BY <1>3 DEF ReadRecord, UseInner, Replies
  <2>2. CASE ReadRecord(t)
    <3>1. keyring[Source(t).id] # None /\ Source(t).id \in Ids /\ SaveAs(t) = Source(t).id
          /\ Cached(t)
      BY <1>1, <1>3, <2>2, SourceType DEF ReadRecord, Replies, Cached, RecordOf
    <3>2. keyring[Source(t).id].token \in Tokens /\ InKeyring(keyring[Source(t).id].token, Source(t).id)
      BY <3>1, Values DEF TypeOK, InKeyring
    <3>3. /\ record' = [record EXCEPT ![t] = keyring[Source(t).id].token]
          /\ \/ UNCHANGED result
             \/ Got(t, keyring[Source(t).id].token, FALSE)
      BY <1>3, <2>2 DEF ReadRecord, Replies
    <3>4. QED
      BY <2>1, <3>1, <3>2, <3>3 DEF Got, Reads
  <2>3. CASE UseInner(t)
    <3>1. Source(t) \in InteractiveSources /\ SaveAs(t) = Source(t).saveAs /\ ~ Cached(t)
      BY <1>1, <2>3, SourceType DEF UseInner, SaveAs
    <3>2. /\ record' = [record EXCEPT ![t] = Source(t).inner]
          /\ UNCHANGED result \/ Got(t, Source(t).inner, StatesScope)
      BY <1>3, <2>3 DEF UseInner, Replies
    <3>3. Source(t).inner \in Tokens \cup {None}
      BY <3>1, Values
    <3>4. QED
      BY <2>1, <3>1, <3>2, <3>3 DEF Got, Reads
  <2>4. QED
    BY <2>2, <2>3
<1>4. QED
    BY <1>1, <1>2, <1>3

LEMMA ReadMoves ==
    ASSUME ControlInv, BudgetInv, TypeOK', NEW t \in Threads, ReadRecord(t) \/ UseInner(t)
    PROVE  OldTokens /\ issued' = issued
<1> USE DEF ControlInv
<1>1. SourcesKept(t) /\ (\A u \in Threads \ {t} : Kept(u)) /\ ThreadInv(t)
    BY OthersKept, OthersSources DEF Step
<1>2. /\ Requesting(t) /\ Source(t) # None /\ record[t] = None /\ result[t] = None
      /\ UNCHANGED <<keyring, sources, issued>>
    BY <1>1, ReadBrings
<1>3. CASE \E answer \in Replies : Return(t, answer)
  <2>1. record'[t] = None /\ result'[t] = None
    BY <1>3 DEF Return, TypeOK
  <2>2. QED
    BY <1>1, <1>2, <2>1, OldIfStill
<1>4. ASSUME NEW token \in Tokens \cup {None}, Reads(t, token)
      PROVE  OldTokens
  <2>1. ASSUME token \in Tokens PROVE Located(token, SaveAs(t))
    <3>1. CASE Cached(t)
      BY <1>4, <2>1, <3>1, Values DEF Reads, Located
    <3>2. CASE ~ Cached(t)
      <4>1. Source(t) \in InteractiveSources /\ token = Source(t).inner /\ SaveAs(t) = Source(t).saveAs
        BY <1>4, <2>1, <3>2, Values DEF Reads
      <4>2. QED
        BY <1>2, <2>1, <4>1, InnerLocated
    <3>3. QED
      BY <3>1, <3>2
  <2>2. SaveAs(t)' = SaveAs(t)
    BY <1>2, <1>4 DEF Reads, SaveAs, AuthorizesAs, Cached, Requesting, Source
  <2>3. record'[t] = token /\ (result'[t] = None \/ result'[t].token = token)
    BY <1>2, <1>4 DEF Reads, TypeOK
  <2> SUFFICES ASSUME NEW x \in Tokens, NEW id \in Ids, Moved(t, x, id) PROVE Located(x, id)
    BY <1>1, OldIfMoved
  <2>4. CASE InThread(x, t)' /\ SaveAs(t)' = id
    BY <2>1, <2>2, <2>3, <2>4 DEF InThread
  <2>5. CASE ~ (InThread(x, t)' /\ SaveAs(t)' = id)
    BY <1>2, <2>5 DEF Moved, Located, InKeyring, InSource
  <2>6. QED
    BY <2>4, <2>5
<1>5. QED
    BY <1>1, <1>2, <1>3, <1>4, ReadBrings

LEMMA RefreshFailsMoves ==
    ASSUME ControlInv, BudgetInv, TypeOK', NEW t \in Threads, RefreshFails(t)
    PROVE  OldTokens /\ issued' = issued
<1> USE DEF ControlInv
<1>1. SourcesKept(t) /\ (\A u \in Threads \ {t} : Kept(u)) /\ ThreadInv(t)
    BY OthersKept, OthersSources DEF Step
<1>2. Working(t) /\ Requesting(t) /\ Source(t) # None
    BY <1>1 DEF RefreshFails, At, ThreadInv, Working
<1>3. UNCHANGED <<keyring, job, record, result, issued>>
    BY DEF RefreshFails, local
<1>4. SaveAs(t)' = SaveAs(t)
    BY <1>1, <1>2, <1>3, WorkingSource
<1>5. \A c \in Clients, s \in Scopes :
        sources'[c][s] \in InteractiveSources =>
            /\ sources[c][s] \in InteractiveSources
            /\ sources'[c][s].saveAs = sources[c][s].saveAs
            /\ sources'[c][s].reused = sources[c][s].reused
            /\ sources'[c][s].inner \in {None, sources[c][s].inner}
  <2>1. CASE ~ Cached(t)
    <3>1. SetSource(t, [Source(t) EXCEPT !.inner = None])
      BY <1>2, <2>1 DEF RefreshFails, KeepInner
    <3>2. SaveAs(t) = Source(t).saveAs
      BY <1>2, <2>1 DEF SaveAs
    <3>3. QED
      BY <1>2, <2>1, <3>1, <3>2, InnerSet
  <2>2. CASE Cached(t)
    BY <2>2 DEF RefreshFails, KeepInner
  <2>3. QED
    BY <2>1, <2>2
<1> SUFFICES ASSUME NEW x \in Tokens, NEW id \in Ids, Moved(t, x, id) PROVE Located(x, id)
    BY <1>1, <1>3, OldIfMoved
<1>6. CASE InThread(x, t)' /\ SaveAs(t)' = id
    BY <1>3, <1>4, <1>6 DEF InThread, Located
<1>7. CASE InKeyring(x, id)'
    BY <1>3, <1>7 DEF InKeyring, Located
<1>8. ASSUME NEW c \in Clients, NEW s \in Scopes, InSource(x, c, s)', sources'[c][s].saveAs = id
      PROVE  Located(x, id)
  <2>1. x # None
    BY Values
  <2>2. InSource(x, c, s) /\ sources[c][s].saveAs = id
    BY <1>5, <1>8, <2>1 DEF InSource
  <2>3. QED
    BY <2>2 DEF Located
<1>9. QED
    BY <1>6, <1>7, <1>8 DEF Moved

(* A new token goes to its thread and, under an interactive source, there. *)
LEMMA IssueMoves ==
    ASSUME ControlInv, BudgetInv, TypeOK', NEW t \in Threads, Refresh(t) \/ Authorize(t)
    PROVE  \E n \in Tokens, home \in Ids : NewToken(n, home)
<1> USE DEF ControlInv
<1>1. SourcesKept(t) /\ (\A u \in Threads \ {t} : Kept(u)) /\ ThreadInv(t)
    BY OthersKept, OthersSources DEF Step
<1>2. PICK n \in Tokens :
        /\ Issue(t, n) /\ n.number = issued + 1
        /\ \/ n.grant = issued + 1 /\ n.refresh = issued + 1
           \/ \E x \in Tokens :
                Located(x, SaveAs(t)) /\ n.grant = x.grant /\ n.refresh \in {x.refresh, issued + 1}
  <2>1. CASE Refresh(t)
    <3>1. record[t] \in Tokens /\ Located(record[t], SaveAs(t))
      BY <1>1, <2>1, RefreshBrings DEF Located, InThread
    <3>2. QED
      BY <1>1, <2>1, <3>1, RefreshBrings
  <2>2. CASE Authorize(t)
    BY <1>1, <2>2, AuthorizeBrings
  <2>3. QED
    BY <2>1, <2>2
<1>3. UNCHANGED <<keyring, job, record>> /\ issued' = issued + 1
    BY <1>2 DEF Refresh, Authorize, Issue
<1>4. result'[t].token = n /\ result'[t] # None
    BY <1>2, Values, TokenCacheAssumption DEF Issue, Got, TypeOK, Results
<1>5. /\ Requesting(t) => Working(t) /\ Source(t) # None
      /\ ~ Requesting(t) => job[t] \in Logins
    BY <1>1, RefreshBrings, AuthorizeBrings DEF Working
<1>6. SaveAs(t)' = SaveAs(t) /\ SaveAs(t) \in Ids
  <2>1. CASE Requesting(t)
    BY <1>1, <1>3, <1>5, <2>1, WorkingSource, SourceType
  <2>2. CASE ~ Requesting(t)
    <3>1. job[t] \in Logins /\ ~ Requesting(t)'
      BY <1>3, <1>5, <2>2 DEF Requesting
    <3>2. SaveAs(t)' = SaveAs(t)
      BY <1>3, <2>2, <3>1 DEF SaveAs, AuthorizesAs
    <3>3. QED
      BY <3>1, <3>2, LoginType
  <2>3. QED
    BY <2>1, <2>2
<1>7. ASSUME NEW c \in Clients, NEW s \in Scopes, NEW x \in Tokens, NEW id \in Ids,
             InSource(x, c, s)', sources'[c][s].saveAs = id
      PROVE  Located(x, id) \/ (x = n /\ id = SaveAs(t))
  <2>1. CASE Requesting(t) /\ ~ Cached(t)
    <3>1. SetSource(t, [Source(t) EXCEPT !.inner = n])
      BY <1>2, <2>1 DEF Issue, KeepInner
    <3>2. SaveAs(t) = Source(t).saveAs
      BY <2>1 DEF SaveAs
    <3>3. IF c = ClientOf[t] /\ s = job[t].scope
          THEN /\ sources'[c][s].inner = n
               /\ sources'[c][s].reused = Source(t).reused
               /\ sources'[c][s].saveAs = SaveAs(t)
               /\ sources[c][s] = Source(t) /\ Source(t) \in InteractiveSources
          ELSE sources'[c][s] = sources[c][s]
      BY <1>5, <2>1, <3>1, InnerSet
    <3>4. QED
      BY <1>7, <3>2, <3>3 DEF InSource, Located
  <2>2. CASE ~ (Requesting(t) /\ ~ Cached(t))
    BY <1>2, <1>7, <2>2 DEF Issue, KeepInner, InSource, Located
  <2>3. QED
    BY <2>1, <2>2
<1>8. ASSUME NEW x \in Tokens, NEW id \in Ids, Moved(t, x, id)
      PROVE  Located(x, id) \/ (x = n /\ id = SaveAs(t))
  <2>1. CASE InKeyring(x, id)'
    BY <1>3, <2>1 DEF InKeyring, Located
  <2>2. CASE InThread(x, t)' /\ SaveAs(t)' = id
    BY <1>3, <1>4, <1>6, <2>2 DEF InThread, Located
  <2>3. QED
    BY <1>7, <1>8, <2>1, <2>2 DEF Moved
<1>9. \A x \in Tokens, id \in Ids : Located(x, id)' => Located(x, id) \/ (x = n /\ id = SaveAs(t))
    BY <1>1, <1>8, LocatedMoves
<1>10. NewToken(n, SaveAs(t))
    BY <1>2, <1>3, <1>9 DEF NewToken
<1>11. QED
    BY <1>6, <1>10

LEMMA SaveMoves ==
    ASSUME ControlInv, BudgetInv, TypeOK', NEW t \in Threads, Save(t)
    PROVE  OldTokens /\ issued' = issued
<1> USE DEF ControlInv
<1>1. SourcesKept(t) /\ (\A u \in Threads \ {t} : Kept(u)) /\ ThreadInv(t)
    BY OthersKept, OthersSources DEF Step
<1>2. /\ result[t] # None /\ result[t].token \in Tokens /\ issued' = issued
      /\ (Requesting(t) /\ Source(t) # None) \/ job[t] \in Logins
    BY <1>1, Values DEF Save, At, ThreadInv, Working, Requesting, TypeOK, server
<1>3. Located(result[t].token, SaveAs(t)) /\ SaveAs(t) \in Ids
    BY <1>2, SourceType, LoginType DEF Located, InThread
<1>4. record'[t] = None /\ result'[t] = None
    BY DEF Save, Return, TypeOK
<1> SUFFICES ASSUME NEW x \in Tokens, NEW id \in Ids, Moved(t, x, id) PROVE Located(x, id)
    BY <1>1, <1>2, OldIfMoved
<1>5. CASE InKeyring(x, id)'
  <2>1. keyring'[id] = keyring[id] \/ (id = SaveAs(t) /\ keyring'[id].token = result[t].token)
    BY DEF Save, Put, TypeOK
  <2>2. QED
    BY <1>3, <1>5, <2>1 DEF InKeyring, Located
<1>6. ~ InThread(x, t)'
    BY <1>4, Values DEF InThread
<1>7. ASSUME NEW c \in Clients, NEW s \in Scopes, InSource(x, c, s)', sources'[c][s].saveAs = id
      PROVE  Located(x, id)
  <2>1. CASE sources'[c][s] = sources[c][s]
    BY <1>7, <2>1 DEF InSource, Located
  <2>2. CASE sources'[c][s] # sources[c][s]
    <3>1. Requesting(t) /\ ~ Cached(t) /\ SetSource(t, [Source(t) EXCEPT !.reused = result[t].token])
      BY <2>2 DEF Save
    <3>2. Source(t) \in InteractiveSources /\ SaveAs(t) = Source(t).saveAs
      BY <1>2, <3>1, SourceType, LoginType DEF SaveAs
    <3>3. sources'[c][s] = [Source(t) EXCEPT !.reused = result[t].token] /\ sources[c][s] = Source(t)
      BY <2>2, <3>1, SetSourceOnly DEF Source
    <3>4. /\ sources'[c][s].reused = result[t].token /\ sources'[c][s].inner = Source(t).inner
          /\ sources'[c][s].saveAs = Source(t).saveAs
      BY <3>2, <3>3 DEF InteractiveSources
    <3>5. QED
      BY <1>3, <1>7, <3>1, <3>2, <3>3, <3>4, InnerLocated DEF InSource
  <2>3. QED
    BY <2>1, <2>2
<1>8. QED
    BY <1>5, <1>6, <1>7 DEF Moved

LEMMA ExitMoves ==
    ASSUME ControlInv, TypeOK', NEW c \in Clients, Exit(c)
    PROVE  OldTokens /\ issued' = issued
<1> USE DEF ControlInv
<1>1. UNCHANGED <<keyring, issued>>
    BY DEF Exit, server
<1>2. \A a \in Clients, s \in Scopes :
        sources'[a][s] = IF a = c THEN None ELSE sources[a][s]
    BY DEF Exit, TypeOK
<1>3. None \notin InteractiveSources
    BY Values
<1> SUFFICES ASSUME NEW x \in Tokens, NEW id \in Ids, Located(x, id)' PROVE Located(x, id)
    BY <1>1 DEF OldTokens
<1>4. CASE InKeyring(x, id)'
    BY <1>1, <1>4 DEF InKeyring, Located
<1>5. ASSUME NEW a \in Clients, NEW s \in Scopes, InSource(x, a, s)', sources'[a][s].saveAs = id
      PROVE  Located(x, id)
    BY <1>2, <1>3, <1>5 DEF InSource, Located
<1>6. ASSUME NEW u \in Threads, InThread(x, u)', SaveAs(u)' = id
      PROVE  Located(x, id)
  <2>1. ClientOf[u] # c /\ ClientOf[u] \in Clients
    BY <1>6, Values, TokenCacheAssumption DEF InThread, Exit
  <2>2. job'[u] = job[u] /\ record'[u] = record[u] /\ result'[u] = result[u]
    BY <2>1 DEF Exit
  <2>3. sources'[ClientOf[u]] = sources[ClientOf[u]]
    BY <2>1 DEF Exit, TypeOK
  <2>4. SaveAs(u)' = SaveAs(u)
    BY <2>2, <2>3 DEF SaveAs, AuthorizesAs, Requesting, Cached, Source
  <2>5. QED
    BY <1>6, <2>2, <2>4 DEF InThread, Located
<1>7. QED
    BY <1>4, <1>5, <1>6 DEF Located

LEMMA Provenance ==
    ASSUME ControlInv, BudgetInv, [Next]_vars
    PROVE  \/ OldTokens /\ issued' = issued
           \/ \E n \in Tokens, home \in Ids : NewToken(n, home)
<1>1. TypeOK'
    BY ControlStep DEF ControlInv
<1>2. CASE UNCHANGED vars
    BY <1>2 DEF vars, server, process, local, OldTokens, Located, InKeyring, InSource, InThread,
       SaveAs, AuthorizesAs, Requesting, Cached, Source
<1>3. ASSUME NEW n \in Numbers, Age(n)
      PROVE  OldTokens /\ issued' = issued
    BY <1>3 DEF Age, process, local, OldTokens, Located, InKeyring, InSource, InThread,
       SaveAs, AuthorizesAs, Requesting, Cached, Source
<1>4. ASSUME NEW c \in Clients, Exit(c)
      PROVE  OldTokens /\ issued' = issued
    BY <1>1, <1>4, ExitMoves
<1>5. ASSUME NEW t \in Threads, Start(t) \/ Step(t)
      PROVE  \/ OldTokens /\ issued' = issued
             \/ \E n \in Tokens, home \in Ids : NewToken(n, home)
    BY <1>1, <1>5, StillSteps, ReadMoves, RefreshFailsMoves, IssueMoves, SaveMoves
       DEF Step, FailedCall
<1>6. QED
    BY <1>2, <1>3, <1>4, <1>5 DEF Next


-----------------------------------------------------------------------------
(* Grants keep their homes.                                                *)

LEMMA Numerals ==
    ASSUME TypeOK
    PROVE  issued \in Nat /\ \A x \in Tokens : x.grant \in Nat /\ x.refresh \in Nat
<1>1. issued \in Nat
    BY TokenCacheAssumption DEF TypeOK
<1>2. Numbers \subseteq Nat
    BY DEF Numbers
<1>3. QED
    BY <1>1, <1>2, Values

LEMMA HomeStep ==
    ASSUME TypeOK, HomeInv,
           \/ OldTokens /\ issued' = issued
           \/ \E n \in Tokens, home \in Ids : NewToken(n, home)
    PROVE  HomeInv'
<1>1. issued \in Nat /\ \A x \in Tokens : x.grant \in Nat /\ x.refresh \in Nat
    BY Numerals
<1>2. CASE OldTokens /\ issued' = issued
    BY <1>2 DEF HomeInv, OldTokens
<1>3. ASSUME NEW n \in Tokens, NEW home \in Ids, NewToken(n, home)
      PROVE  HomeInv'
  <2>1. ASSUME NEW x \in Tokens, NEW i \in Ids, Located(x, i)'
        PROVE  Located(x, i) \/ (x = n /\ i = home)
    BY <1>3, <2>1 DEF NewToken
  <2>2. n.grant <= issued' /\ n.refresh <= issued'
    BY <1>1, <1>3 DEF NewToken, HomeInv
  <2>3. ASSUME NEW x \in Tokens, NEW i \in Ids, Located(x, i)
        PROVE  /\ x.grant <= issued' /\ x.refresh <= issued'
               /\ x.grant = n.grant => i = home
               /\ x.refresh = n.refresh => x.grant = n.grant
    <3>1. x.grant <= issued /\ x.refresh <= issued /\ issued' = issued + 1
      BY <1>3, <2>3 DEF HomeInv, NewToken
    <3>2. x.grant < issued + 1 /\ x.refresh < issued + 1
      BY <1>1, <3>1
    <3>3. CASE n.grant = issued + 1 /\ n.refresh = issued + 1
      BY <1>1, <3>1, <3>2, <3>3
    <3>4. ASSUME NEW y \in Tokens, Located(y, home), n.grant = y.grant,
                 n.refresh \in {y.refresh, issued + 1}
          PROVE  /\ x.grant = n.grant => i = home
                 /\ x.refresh = n.refresh => x.grant = n.grant
      <4>1. /\ x.grant = y.grant => i = home
            /\ x.refresh = y.refresh => x.grant = y.grant
        BY <2>3, <3>4 DEF HomeInv
      <4>2. x.refresh # issued + 1
        BY <1>1, <3>2
      <4>3. QED
        BY <3>4, <4>1, <4>2
    <3>5. x.grant <= issued' /\ x.refresh <= issued'
      BY <1>1, <3>1
    <3>6. QED
      BY <1>3, <3>3, <3>4, <3>5 DEF NewToken
  <2> SUFFICES ASSUME NEW x \in Tokens, NEW y \in Tokens, NEW i \in Ids, NEW j \in Ids,
                      Located(x, i)', Located(y, j)'
               PROVE  /\ x.grant <= issued' /\ x.refresh <= issued'
                      /\ x.grant = y.grant => i = j
                      /\ x.refresh = y.refresh => x.grant = y.grant
    BY DEF HomeInv
  <2>4. CASE x = n /\ i = home
    BY <2>1, <2>2, <2>3, <2>4
  <2>5. CASE Located(x, i) /\ y = n /\ j = home
    BY <2>3, <2>5
  <2>6. CASE Located(x, i) /\ Located(y, j)
    BY <2>3, <2>6 DEF HomeInv
  <2>7. QED
    BY <2>1, <2>4, <2>5, <2>6
<1>4. QED
    BY <1>2, <1>3

-----------------------------------------------------------------------------
(* What a logout leaves behind.                                            *)

LEMMA StillHeld ==
    ASSUME TypeOK, NEW t \in Threads, UNCHANGED sources, \A u \in Threads \ {t} : Kept(u),
           record'[t] = None, result'[t] = None,
           NEW x \in Tokens, NEW id \in Ids, Located(x, id)'
    PROVE  InKeyring(x, id)' \/ x.grant \in GrantsOf(HeldTokens)
<1>1. x # None
    BY Values
<1>2. ASSUME x \in HeldTokens PROVE x.grant \in GrantsOf(HeldTokens)
    BY <1>1, <1>2 DEF GrantsOf
<1>3. ASSUME NEW c \in Clients, NEW s \in Scopes, InSource(x, c, s)'
      PROVE  x \in HeldTokens
  <2>1. x \in SourceTokens(sources[c][s])
    BY <1>3 DEF InSource, SourceTokens
  <2>2. QED
    BY <2>1 DEF HeldTokens
<1>4. ASSUME NEW u \in Threads, InThread(x, u)'
      PROVE  x \in HeldTokens
  <2>1. u # t
    BY <1>1, <1>4 DEF InThread
  <2>2. record[u] = x \/ (result[u] # None /\ result[u].token = x)
    BY <1>4, <2>1 DEF InThread, Kept
  <2>3. QED
    BY <2>2 DEF HeldTokens
<1>5. QED
    BY <1>2, <1>3, <1>4 DEF Located

(* Whom a step lets leave, and what it adds to what is forgotten.          *)
LEMMA LeavingKept ==
    ASSUME TypeOK, [Next]_vars
    PROVE  \/ \E t \in Threads : Logout(t)
           \/ /\ forgotten' = forgotten
              /\ \A t \in Threads :
                    leaving'[t] \subseteq leaving[t]
                    /\ (pc'[t] = "deleteAdmin" => pc[t] = "deleteAdmin")
<1>1. ASSUME NEW t \in Threads, Start(t) \/ Step(t), ~ Logout(t)
      PROVE  /\ forgotten' = forgotten
             /\ \A u \in Threads : leaving'[u] \subseteq leaving[u]
                                   /\ (pc'[u] = "deleteAdmin" => pc[u] = "deleteAdmin")
  <2>1. forgotten' = forgotten
    BY <1>1 DEF Start, Step, Discover, FindSource, ReadOwn, ReadAdmin, ReadFails, Lock,
       ReadRecord, UseInner, Refresh, RefreshFails, Authorize, AuthorizeFails, Save,
       SaveFails, LogoutFails
  <2>2. \A u \in Threads \ {t} : leaving'[u] = leaving[u] /\ pc'[u] = pc[u]
    BY <1>1, OthersKept DEF Kept
  <2>3. leaving'[t] \subseteq leaving[t] /\ pc'[t] # "deleteAdmin"
    <3>1. CASE \E answer \in Replies : Return(t, answer)
      BY <3>1 DEF Return, Goto, TypeOK
    <3>2. CASE ~ \E answer \in Replies : Return(t, answer)
      <4>1. leaving' = leaving
        BY <1>1, <3>2 DEF Start, Step, Discover, FindSource, ReadOwn, ReadAdmin, ReadFails, Lock,
           ReadRecord, UseInner, Refresh, RefreshFails, Authorize, AuthorizeFails, Save,
           SaveFails, LogoutFails, Replies, local, UseRecord, UseAuthorization, UseSource
      <4>2. CASE Start(t)
        BY <4>2 DEF Start, Goto, At, TypeOK
      <4>3. CASE Step(t)
        <5>1. \E step \in Steps \ {"deleteAdmin"} : Goto(t, step)
          <6>1. CASE ReadOwn(t) \/ ReadAdmin(t)
            BY <3>2, <6>1 DEF ReadOwn, ReadAdmin, UseRecord, UseAuthorization, UseSource,
               Replies, Steps
          <6>2. CASE Refresh(t) \/ Authorize(t)
            BY <6>2 DEF Refresh, Authorize, Issue, Got, Steps
          <6>3. CASE ReadRecord(t) \/ UseInner(t)
            BY <3>2, <6>3 DEF ReadRecord, UseInner, Got, Steps, Replies
          <6>4. CASE Discover(t) \/ FindSource(t) \/ Lock(t) \/ RefreshFails(t)
            BY <3>2, <6>4 DEF Discover, FindSource, Lock, RefreshFails, Steps, Replies
          <6>5. QED
            BY <1>1, <3>2, <4>3, <6>1, <6>2, <6>3, <6>4 DEF Step, ReadFails, AuthorizeFails, Save,
               SaveFails, LogoutFails, Replies
        <5>2. QED
          BY <4>1, <5>1 DEF Goto, TypeOK
      <4>4. QED
        BY <1>1, <4>1, <4>2, <4>3
    <3>3. QED
      BY <3>1, <3>2
  <2>4. QED
    BY <2>1, <2>2, <2>3
<1>2. ASSUME NEW c \in Clients, Exit(c)
      PROVE  /\ forgotten' = forgotten
             /\ \A u \in Threads : leaving'[u] \subseteq leaving[u]
                                   /\ (pc'[u] = "deleteAdmin" => pc[u] = "deleteAdmin")
    BY <1>2 DEF Exit
<1>3. CASE (\E n \in Numbers : Age(n)) \/ UNCHANGED vars
    BY <1>3 DEF Age, vars, local
<1>4. QED
    BY <1>1, <1>2, <1>3 DEF Next

LEMMA ForgottenStep ==
    ASSUME ControlInv, BudgetInv, HomeInv, ForgottenInv, [Next]_vars
    PROVE  ForgottenInv'
<1> USE DEF ControlInv
<1>1. issued \in Nat /\ \A x \in Tokens : x.grant \in Nat
    BY Numerals
<1>2. issued' = issued \/ issued' = issued + 1
    BY Provenance DEF NewToken
<1>3. \A g \in forgotten : /\ g <= issued /\ g \in Nat
                           /\ \A x \in Tokens, id \in Ids : Located(x, id)' => x.grant # g
  <2> SUFFICES ASSUME NEW g \in forgotten, NEW x \in Tokens, NEW id \in Ids, Located(x, id)'
               PROVE  x.grant # g
    BY DEF ForgottenInv, TypeOK, Numbers
  <2>1. g \in Nat /\ g <= issued
    BY DEF ForgottenInv, TypeOK, Numbers
  <2>2. \A y \in Tokens, i \in Ids : Located(y, i) => y.grant # g
    BY DEF ForgottenInv
  <2>3. CASE OldTokens
    BY <2>2, <2>3 DEF OldTokens
  <2>4. ASSUME NEW n \in Tokens, NEW home \in Ids, NewToken(n, home)
        PROVE  x.grant # g
    BY <1>1, <2>1, <2>2, <2>4 DEF NewToken
  <2>5. QED
    BY <2>3, <2>4, Provenance
<1>4. ASSUME NEW t \in Threads, NEW g \in leaving[t]
      PROVE  /\ g <= issued /\ g \in Nat
             /\ pc[t] = "deleteAdmin" /\ Publisher # Admin =>
                    \A x \in Tokens : Located(x, Publisher)' => x.grant # g
  <2>1. g \in Nat /\ g <= issued
    BY DEF ForgottenInv, TypeOK, Numbers
  <2> SUFFICES ASSUME pc[t] = "deleteAdmin", Publisher # Admin,
                      NEW x \in Tokens, Located(x, Publisher)'
               PROVE  x.grant # g
    BY <2>1
  <2>2. \A y \in Tokens : Located(y, Publisher) => y.grant # g
    BY DEF ForgottenInv, At
  <2>3. CASE OldTokens
    BY <2>2, <2>3 DEF OldTokens, Ids
  <2>4. ASSUME NEW n \in Tokens, NEW home \in Ids, NewToken(n, home)
        PROVE  x.grant # g
    BY <1>1, <2>1, <2>2, <2>4 DEF NewToken, Ids
  <2>5. QED
    BY <2>3, <2>4, Provenance
<1>5. \A g \in Nat : g <= issued => g <= issued'
    BY <1>1, <1>2
<1>6. CASE /\ forgotten' = forgotten
           /\ \A t \in Threads :
                    leaving'[t] \subseteq leaving[t]
                    /\ (pc'[t] = "deleteAdmin" => pc[t] = "deleteAdmin")
    BY <1>3, <1>4, <1>5, <1>6 DEF ForgottenInv, At
<1>7. ASSUME NEW t \in Threads, Logout(t)
      PROVE  ForgottenInv'
  <2>1. /\ \A u \in Threads \ {t} : Kept(u)
        /\ UNCHANGED <<sources, issued>> /\ record'[t] = None /\ result'[t] = None
    <3>1. record[t] = None /\ result[t] = None
      BY <1>7 DEF Logout, Delete, At, ThreadInv
    <3>2. record'[t] = None /\ result'[t] = None
      BY <1>7, <3>1 DEF Logout, Delete, Return, TypeOK
    <3>3. QED
      BY <1>7, <3>2, OthersKept DEF Step, Logout, server, process
  <2>2. ASSUME NEW x \in Tokens, NEW id \in Ids, Located(x, id)'
        PROVE  InKeyring(x, id)' \/ x.grant \in GrantsOf(HeldTokens)
    BY <2>1, <2>2, StillHeld
  <2>3. CASE At(t, "delete")
    <3>1. /\ leaving' = [leaving EXCEPT ![t] = GrantsOf(CachedTokens) \ GrantsOf(HeldTokens)]
          /\ keyring' = [keyring EXCEPT ![Publisher] = None] /\ forgotten' = forgotten
      BY <1>7, <2>3 DEF Logout, Delete, At
    <3>2. ASSUME NEW g \in leaving'[t]
          PROVE  /\ g <= issued
                 /\ \A x \in Tokens : Located(x, Publisher)' => x.grant # g
      <4>1. g \in GrantsOf(CachedTokens) \ GrantsOf(HeldTokens)
        BY <3>1, <3>2 DEF TypeOK
      <4>2. PICK id \in Ids : keyring[id] # None /\ g = keyring[id].token.grant
        BY <4>1 DEF GrantsOf, CachedTokens
      <4>3. keyring[id].token \in Tokens /\ Located(keyring[id].token, id)
        BY <4>2, Values DEF TypeOK, Located, InKeyring
      <4>4. g <= issued
        BY <4>2, <4>3 DEF HomeInv
      <4>5. ~ \E x \in Tokens : InKeyring(x, Publisher)'
        BY <3>1 DEF InKeyring, TypeOK, Ids
      <4>6. QED
        BY <2>2, <4>1, <4>4, <4>5 DEF Ids
    <3>3. \A u \in Threads \ {t} : leaving'[u] = leaving[u] /\ pc'[u] = pc[u]
      BY <2>1 DEF Kept
    <3>4. QED
      BY <1>3, <1>4, <2>1, <3>1, <3>2, <3>3 DEF ForgottenInv, At
  <2>4. CASE At(t, "deleteAdmin")
    <3>1. /\ keyring' = [keyring EXCEPT ![Admin] = None]
          /\ forgotten' = forgotten \cup (leaving[t] \ GrantsOf(HeldTokens))
          /\ leaving'[t] = {}
      BY <1>7, <2>4 DEF Logout, Delete, At, ClientIDs, Return, TypeOK
    <3>2. ASSUME NEW g \in leaving[t] \ GrantsOf(HeldTokens), NEW x \in Tokens, NEW id \in Ids,
                 Located(x, id)'
          PROVE  x.grant # g
      <4>1. CASE x.grant \in GrantsOf(HeldTokens)
        BY <3>2, <4>1
      <4>2. CASE InKeyring(x, id)'
        <5>1. id = Publisher /\ Publisher # Admin
          BY <3>1, <4>2 DEF InKeyring, Ids, TypeOK
        <5>2. QED
          BY <1>4, <2>4, <3>2, <5>1 DEF At
      <4>3. QED
        BY <2>2, <3>2, <4>1, <4>2
    <3>3. \A u \in Threads \ {t} : leaving'[u] = leaving[u] /\ pc'[u] = pc[u]
      BY <2>1 DEF Kept
    <3>4. \A g \in forgotten' :
            g <= issued /\ \A x \in Tokens, id \in Ids : Located(x, id)' => x.grant # g
      BY <1>3, <1>4, <3>1, <3>2
    <3>5. QED
      BY <1>4, <2>1, <3>1, <3>3, <3>4 DEF ForgottenInv, At
  <2>5. QED
    BY <1>7, <2>3, <2>4 DEF Logout, Delete
<1>8. QED
    BY <1>6, <1>7, LeavingKept

-----------------------------------------------------------------------------
(* What interactive sources hold.                                          *)

(* A source that a thread uses is changed by nobody else.                  *)
LEMMA OwnSource ==
    ASSUME TypeOK, LocksInv, NEW t \in Threads, ThreadInv(t), SourcesKept(t),
           NEW u \in Threads \ {t}, ThreadInv(u), Working(u), Kept(u)
    PROVE  Source(u)' = Source(u)
<1>1. /\ ClientOf[u] \in Clients /\ job[u].scope \in Scopes /\ u \in keyLock
      /\ Source(u) # None /\ Requesting(u)
    BY SourceType DEF ThreadInv, Working
<1>2. Source(u)' = sources'[ClientOf[u]][job[u].scope] /\ Source(u) = sources[ClientOf[u]][job[u].scope]
    BY DEF Source, Kept
<1>3. ASSUME Requesting(t), ClientOf[u] = ClientOf[t], job[u].scope = job[t].scope
      PROVE  sources'[ClientOf[u]][job[u].scope] = sources[ClientOf[u]][job[u].scope]
  <2>1. CASE pc[t] \in {"readOwn", "readAdmin"}
    BY <1>1, <1>3, <2>1 DEF ThreadInv, At, Source
  <2>2. CASE Working(t) /\ Source(t) \in InteractiveSources
    <3>1. ~ Cached(t) /\ t \in keyLock /\ u \in Peers(t)
      BY <1>3, <2>2, Values DEF Cached, ThreadInv, Peers
    <3>2. Contends(t, u)
      BY <1>1, <1>3, <3>1 DEF Contends
    <3>3. QED
      BY <1>1, <3>1, <3>2 DEF LocksInv
  <2>3. QED
    BY <1>1, <1>3, <2>1, <2>2 DEF SourcesKept, Source, SameRecord
<1>4. QED
    BY <1>1, <1>2, <1>3 DEF SourcesKept

(* No other action brings a thread to a refresh or to saving a token.      *)
LEMMA NoNewHolder ==
    ASSUME TypeOK, NEW t \in Threads, Start(t) \/ Step(t),
           ~ (ReadRecord(t) \/ UseInner(t) \/ Refresh(t) \/ Authorize(t))
    PROVE  pc'[t] \notin {"refresh", "save"}
<1>1. CASE \E answer \in Replies : Return(t, answer)
    BY <1>1 DEF Return, Goto, TypeOK
<1>2. CASE ~ \E answer \in Replies : Return(t, answer)
  <2>1. CASE Start(t)
    BY <2>1 DEF Start, Goto, At, TypeOK
  <2>2. CASE Step(t)
    <3>1. \E step \in Steps \ {"refresh", "save"} : Goto(t, step)
      <4>1. CASE ReadOwn(t) \/ ReadAdmin(t)
        BY <1>2, <4>1 DEF ReadOwn, ReadAdmin, UseRecord, UseAuthorization, UseSource,
           Replies, Steps
      <4>2. CASE Discover(t) \/ FindSource(t) \/ Lock(t) \/ RefreshFails(t)
        BY <1>2, <4>2 DEF Discover, FindSource, Lock, RefreshFails, Steps, Replies
      <4>3. CASE Logout(t)
        BY <1>2, <4>3 DEF Logout, Delete, Steps, Replies
      <4>4. QED
        BY <1>2, <2>2, <4>1, <4>2, <4>3 DEF Step, ReadFails, AuthorizeFails, Save,
           SaveFails, LogoutFails, Replies
    <3>2. QED
      BY <3>1 DEF Goto, TypeOK
  <2>3. QED
    BY <2>1, <2>2
<1>3. QED
    BY <1>1, <1>2

(* How a step of t changes what interactive sources hold.                  *)
InnerKept(c, s) ==
    /\ HasInner(c, s) /\ sources'[c][s].saveAs = sources[c][s].saveAs
    /\ sources'[c][s].inner = sources[c][s].inner

InnerNew(t, c, s) ==
    /\ Refresh(t) \/ Authorize(t)
    /\ Requesting(t) /\ Source(t) \in InteractiveSources
    /\ c = ClientOf[t] /\ s = job[t].scope
    /\ sources'[c][s].saveAs = SaveAs(t)
    /\ sources'[c][s].inner = result'[t].token

LEMMA InnerStep ==
    ASSUME TypeOK, BudgetInv, NEW t \in Threads, ThreadInv(t), Start(t) \/ Step(t),
           NEW c \in Clients, NEW s \in Scopes, HasInner(c, s)'
    PROVE  InnerKept(c, s) \/ InnerNew(t, c, s)
<1>1. CASE UNCHANGED sources
    BY <1>1 DEF HasInner, InnerKept
<1>2. CASE Start(t) \/ Discover(t) \/ FindSource(t) \/ Lock(t) \/ ReadRecord(t) \/ UseInner(t)
           \/ FailedCall(t) \/ Logout(t)
    BY <1>1, <1>2 DEF Start, Discover, FindSource, Lock, ReadRecord, UseInner, FailedCall,
       ReadFails, AuthorizeFails, SaveFails, LogoutFails, Logout, process
<1>3. CASE ReadOwn(t) \/ ReadAdmin(t)
  <2>1. ASSUME NEW source \in CachedSources \cup InteractiveSources, UseSource(t, source),
               source \in InteractiveSources => source.inner = None, Requesting(t)
        PROVE  InnerKept(c, s)
    <3>1. sources'[c][s] = IF c = ClientOf[t] /\ s = job[t].scope THEN source ELSE sources[c][s]
      BY <2>1, SetSourceOnly DEF UseSource
    <3>2. QED
      BY <2>1, <3>1 DEF HasInner, InnerKept
  <2>2. QED
    BY <1>1, <1>3, <2>1, UnderMu
<1>4. CASE Save(t)
  <2>1. CASE Requesting(t) /\ ~ Cached(t)
    <3>1. Source(t) # None /\ Source(t) \in InteractiveSources
      BY <1>4, <2>1, SourceType DEF Save, At, ThreadInv, Working
    <3>2. sources'[c][s] = IF c = ClientOf[t] /\ s = job[t].scope
                           THEN [Source(t) EXCEPT !.reused = result[t].token] ELSE sources[c][s]
      BY <1>4, <2>1, SetSourceOnly DEF Save
    <3>3. /\ [Source(t) EXCEPT !.reused = result[t].token].inner = Source(t).inner
          /\ [Source(t) EXCEPT !.reused = result[t].token].saveAs = Source(t).saveAs
      BY <3>1 DEF InteractiveSources
    <3>4. CASE c = ClientOf[t] /\ s = job[t].scope
      BY <3>1, <3>2, <3>3, <3>4 DEF HasInner, InnerKept, Source
    <3>5. QED
      BY <3>2, <3>4 DEF HasInner, InnerKept
  <2>2. CASE ~ (Requesting(t) /\ ~ Cached(t))
    BY <1>1, <1>4, <2>2 DEF Save
  <2>3. QED
    BY <2>1, <2>2
<1>5. CASE Requesting(t) /\ ~ Cached(t) /\ (Refresh(t) \/ RefreshFails(t) \/ Authorize(t))
  <2>1. Source(t) # None
    BY <1>5 DEF Refresh, RefreshFails, Authorize, At, ThreadInv, Working
  <2>2. PICK token \in Tokens \cup {None} :
            /\ SetSource(t, [Source(t) EXCEPT !.inner = token])
            /\ token # None => (Refresh(t) \/ Authorize(t)) /\ token = result'[t].token
    <3>1. CASE RefreshFails(t)
      BY <1>5, <3>1 DEF RefreshFails, KeepInner
    <3>2. CASE Refresh(t) \/ Authorize(t)
      <4>1. PICK new \in Tokens : Issue(t, new)
        BY <3>2, RefreshBrings, AuthorizeBrings
      <4>2. SetSource(t, [Source(t) EXCEPT !.inner = new]) /\ result'[t].token = new
        BY <1>5, <4>1 DEF Issue, KeepInner, Got, TypeOK
      <4>3. QED
        BY <3>2, <4>2
    <3>3. QED
      BY <1>5, <3>1, <3>2
  <2>3. /\ Source(t) \in InteractiveSources
        /\ IF c = ClientOf[t] /\ s = job[t].scope
           THEN sources'[c][s].inner = token /\ sources'[c][s].saveAs = SaveAs(t)
           ELSE sources'[c][s] = sources[c][s]
    BY <1>5, <2>1, <2>2, InnerSet
  <2>4. QED
    BY <1>5, <2>2, <2>3 DEF HasInner, InnerKept, InnerNew
<1>6. CASE ~ (Requesting(t) /\ ~ Cached(t)) /\ (Refresh(t) \/ RefreshFails(t) \/ Authorize(t))
    BY <1>1, <1>6 DEF Refresh, RefreshFails, Authorize, Issue, KeepInner
<1>7. QED
    BY <1>2, <1>3, <1>4, <1>5, <1>6 DEF Step, FailedCall

(* The grant of a token that is issued to t.                               *)
LEMMA IssuedGrant ==
    ASSUME TypeOK, BudgetInv, NEW t \in Threads, ThreadInv(t), Refresh(t) \/ Authorize(t)
    PROVE  /\ result'[t].token \in Tokens /\ result'[t] # None
           /\ record' = record /\ keyring' = keyring /\ job' = job
           /\ result'[t].token.refresh \in live'
           /\ \/ /\ Refresh(t) /\ record[t] \in Tokens
                 /\ result'[t].token.grant = record[t].grant
                 /\ result'[t].token.client = record[t].client
                 /\ live \ {record[t].refresh} \subseteq live'
              \/ /\ Authorize(t) /\ result'[t].token.grant = issued + 1
                 /\ result'[t].token.client = AuthorizesAs(t)
                 /\ live \subseteq live'
<1>1. ASSUME NEW new \in Tokens, Issue(t, new)
      PROVE  result'[t].token = new /\ result'[t] # None
  <2>1. result'[t] = [token |-> new, stated |-> StatesScope]
    BY <1>1 DEF Issue, Got, TypeOK
  <2>2. result'[t] \in Results
    BY <2>1, TokenCacheAssumption DEF Results
  <2>3. result'[t] # None
    BY <2>2, Values
  <2>4. QED
    BY <2>1, <2>3
<1>2. CASE Refresh(t)
    BY <1>1, <1>2, RefreshBrings DEF Refresh
<1>3. CASE Authorize(t)
    BY <1>1, <1>3, AuthorizeBrings DEF Authorize, Issue
<1>4. QED
    BY <1>2, <1>3

LEMMA HoldsStep ==
    ASSUME ControlInv, BudgetInv, ControlInv', HoldsInner, NEW t \in Threads, Start(t) \/ Step(t)
    PROVE  HoldsInner'
<1> USE DEF ControlInv
<1>1. SourcesKept(t) /\ (\A u \in Threads \ {t} : Kept(u)) /\ ThreadInv(t)
    BY OthersKept, OthersSources
<1> SUFFICES ASSUME NEW u \in Threads, Working(u)', ~ Cached(u)'
             PROVE  /\ At(u, "refresh")' => record'[u] = Source(u)'.inner
                    /\ At(u, "save")' => result'[u].token = Source(u)'.inner
    BY DEF HoldsInner
<1>2. CASE u # t
  <2>1. Kept(u) /\ Working(u) /\ ThreadInv(u)
    BY <1>1, <1>2 DEF Kept, Working, Requesting
  <2>2. Source(u)' = Source(u)
    BY <1>1, <1>2, <2>1, OwnSource
  <2>3. ~ Cached(u)
    BY <2>1, <2>2 DEF Cached, Requesting, Kept
  <2>4. QED
    BY <2>1, <2>2, <2>3 DEF HoldsInner, At, Kept
<1>3. CASE u = t /\ (ReadRecord(t) \/ UseInner(t))
  <2>1. UNCHANGED sources
    BY <1>1, <1>3, ReadBrings
  <2>2. CASE \E answer \in Replies : Return(t, answer)
    BY <1>3, <2>2 DEF Return, Goto, At, TypeOK
  <2>3. ASSUME NEW token \in Tokens \cup {None}, Reads(t, token)
        PROVE  /\ At(u, "refresh")' => record'[u] = Source(u)'.inner
               /\ At(u, "save")' => result'[u].token = Source(u)'.inner
    <3>1. Source(t)' = Source(t) /\ Cached(t)' = Cached(t)
      BY <2>1, <2>3 DEF Reads, Source, Cached, Requesting
    <3>2. At(t, "refresh")' => record'[t] # None
      BY DEF ThreadInv
    <3>3. At(t, "save")' => result'[t] # None
      BY DEF ThreadInv
    <3>4. result[t] = None /\ record'[t] = token /\ (result'[t] = None \/ result'[t].token = token)
      BY <1>1, <1>3, <2>3, ReadBrings DEF Reads, TypeOK
    <3>5. token # None => token = Source(t).inner
      BY <1>3, <2>3, <3>1 DEF Reads
    <3>6. ASSUME At(t, "save")' PROVE record'[t] # None
      <4>1. result'[t] \in Results
        BY <3>3, <3>6 DEF TypeOK
      <4>2. result'[t].token # None
        BY <4>1, Values
      <4>3. QED
        BY <3>3, <3>4, <3>6, <4>2
    <3>7. QED
      BY <1>3, <3>1, <3>2, <3>3, <3>4, <3>5, <3>6
  <2>4. QED
    BY <1>1, <1>3, <2>2, <2>3, ReadBrings
<1>4. CASE u = t /\ (Refresh(t) \/ Authorize(t))
  <2>1. Requesting(t) /\ ~ Cached(t) /\ Source(t) # None
    <3>1. Requesting(t) /\ Source(t) # None
      BY <1>1, <1>4, IssuedGrant, RefreshBrings, AuthorizeBrings DEF Working, Requesting
    <3>2. Cached(t)' = Cached(t)
      BY <1>1, <1>4, <3>1, IssuedGrant, RefreshBrings, AuthorizeBrings, WorkingSource
    <3>3. QED
      BY <1>4, <3>1, <3>2
  <2>2. PICK new \in Tokens : Issue(t, new)
    BY <1>1, <1>4, RefreshBrings, AuthorizeBrings
  <2>3. SetSource(t, [Source(t) EXCEPT !.inner = new])
    BY <2>1, <2>2 DEF Issue, KeepInner
  <2>4. sources'[ClientOf[t]][job[t].scope].inner = new
    BY <2>1, <2>3, InnerSet
  <2>5. Source(t)'.inner = new /\ result'[t].token = new /\ pc'[t] = "save"
    BY <1>1, <1>4, <2>2, <2>4, IssuedGrant DEF Source, Issue, Got, Goto, TypeOK
  <2>6. QED
    BY <1>4, <2>5 DEF At
<1>5. CASE u = t /\ ~ (ReadRecord(t) \/ UseInner(t) \/ Refresh(t) \/ Authorize(t))
  <2>1. pc'[t] \notin {"refresh", "save"}
    BY <1>5, NoNewHolder
  <2>2. QED
    BY <1>5, <2>1 DEF At
<1>6. QED
    BY <1>2, <1>3, <1>4, <1>5

LEMMA KeyringStep ==
    ASSUME TypeOK, NEW t \in Threads, Start(t) \/ Step(t), ~ Save(t), NEW id \in Ids
    PROVE  keyring'[id] = keyring[id] \/ keyring'[id] = None
BY DEF Start, Step, Discover, FindSource, ReadOwn, ReadAdmin, ReadFails, Lock, ReadRecord,
   UseInner, Refresh, RefreshFails, Authorize, AuthorizeFails, SaveFails, Logout, Delete,
   LogoutFails, TypeOK

(* No other action gives a thread a token.                                 *)
LEMMA NoNewToken ==
    ASSUME TypeOK, NEW t \in Threads, Start(t) \/ Step(t),
           ~ (ReadRecord(t) \/ UseInner(t) \/ Refresh(t) \/ Authorize(t))
    PROVE  (record'[t] = record[t] /\ result'[t] = result[t])
           \/ (record'[t] = None /\ result'[t] = None)
<1>1. CASE \E answer \in Replies : Return(t, answer)
    BY <1>1 DEF Return, TypeOK
<1>2. CASE ~ \E answer \in Replies : Return(t, answer)
    BY <1>2 DEF Start, Step, Discover, FindSource, ReadOwn, ReadAdmin, ReadFails, Lock,
       UseRecord, UseAuthorization, UseSource, RefreshFails, AuthorizeFails, Save, SaveFails,
       Logout, Delete, LogoutFails, Replies, local
<1>3. QED
    BY <1>1, <1>2

LEMMA HeldLocated ==
    ASSUME TypeOK, \A v \in Threads : ThreadInv(v), NEW x \in Tokens
    PROVE  /\ \A u \in Threads : InThread(x, u) => SaveAs(u) \in Ids /\ Located(x, SaveAs(u))
           /\ \A c \in Clients, s \in Scopes :
                HasInner(c, s) /\ sources[c][s].inner = x =>
                    sources[c][s].saveAs \in Ids /\ Located(x, sources[c][s].saveAs)
           /\ \A id \in Ids : InKeyring(x, id) => Located(x, id)
<1>1. ASSUME NEW u \in Threads, InThread(x, u)
      PROVE  SaveAs(u) \in Ids /\ Located(x, SaveAs(u))
  <2>1. (Requesting(u) /\ Source(u) # None) \/ job[u] \in Logins
    BY <1>1, HolderWorks DEF Working, ThreadInv
  <2>2. SaveAs(u) \in Ids
    BY <2>1, SourceType, LoginType
  <2>3. QED
    BY <1>1, <2>2 DEF Located
<1>2. ASSUME NEW c \in Clients, NEW s \in Scopes, HasInner(c, s), sources[c][s].inner = x
      PROVE  sources[c][s].saveAs \in Ids /\ Located(x, sources[c][s].saveAs)
  <2>1. sources[c][s].saveAs \in Ids /\ InSource(x, c, s)
    BY <1>2, Values DEF HasInner, InSource
  <2>2. QED
    BY <2>1 DEF Located
<1>3. QED
    BY <1>1, <1>2 DEF Located

LEMMA InnerInvStep ==
    ASSUME ControlInv, BudgetInv, HomeInv, HoldsInner, InnerInv, NEW t \in Threads,
           Start(t) \/ Step(t)
    PROVE  InnerInv'
<1> USE DEF ControlInv
<1> SUFFICES ASSUME NEW c \in Clients, NEW d \in Clients, NEW r \in Scopes, NEW s \in Scopes,
                    HasInner(c, r)', HasInner(d, s)',
                    sources'[c][r].inner.grant = sources'[d][s].inner.grant
             PROVE  c = d /\ r = s
    BY DEF InnerInv
<1>1. ThreadInv(t)
    OBVIOUS
<1>2. /\ InnerKept(c, r) \/ InnerNew(t, c, r)
      /\ InnerKept(d, s) \/ InnerNew(t, d, s)
    BY <1>1, InnerStep
<1>3. CASE InnerKept(c, r) /\ InnerKept(d, s)
    BY <1>3 DEF InnerKept, InnerInv
<1>4. CASE InnerNew(t, c, r) /\ InnerNew(t, d, s)
    BY <1>4 DEF InnerNew
<1>5. ASSUME NEW a \in Clients, NEW q \in Scopes, InnerKept(a, q),
             NEW b \in Clients, NEW p \in Scopes, InnerNew(t, b, p),
             sources'[a][q].inner.grant = sources'[b][p].inner.grant
      PROVE  a = b /\ q = p
  <2>1. sources[a][q].inner.grant = result'[t].token.grant
    BY <1>5 DEF InnerKept, InnerNew
  <2>2. sources[a][q].inner \in Tokens /\ HasInner(a, q)
    BY <1>5, Values DEF InnerKept, HasInner
  <2>3. sources[a][q].inner.grant <= issued
    BY <2>2, HeldLocated DEF HomeInv
  <2>4. issued \in Nat
    BY Numerals
  <2>5. Refresh(t) /\ result'[t].token.grant = record[t].grant /\ record[t] \in Tokens
    BY <1>1, <1>5, <2>1, <2>3, <2>4, IssuedGrant DEF InnerNew
  <2>6. record[t] = Source(t).inner
    <3>1. Source(t) # None /\ Working(t) /\ Requesting(t)
      BY <1>1, <2>5, RefreshBrings
    <3>2. ~ Cached(t)
      BY <1>5, <3>1, SourceType DEF InnerNew
    <3>3. QED
      BY <2>5, <3>1, <3>2 DEF HoldsInner, Refresh
  <2>7. HasInner(b, p) /\ sources[b][p].inner = record[t]
    BY <1>5, <2>5, <2>6, Values DEF InnerNew, HasInner, Source
  <2>8. QED
    BY <2>1, <2>2, <2>5, <2>7 DEF InnerInv
<1>6. QED
    BY <1>2, <1>3, <1>4, <1>5

(* Where the tokens that are not those of the login of u come from.        *)
LEMMA ElsewhereStep ==
    ASSUME ControlInv, BudgetInv, HoldsInner, NEW t \in Threads, Start(t) \/ Step(t),
           NEW u \in Threads \ {t}, NEW x \in Tokens, Elsewhere(x, u)'
    PROVE  \/ \E y \in Tokens : Elsewhere(y, u) /\ y.grant = x.grant
           \/ x.grant = issued + 1
<1> USE DEF ControlInv
<1>1. SourcesKept(t) /\ (\A v \in Threads \ {t} : Kept(v)) /\ ThreadInv(t)
    BY OthersKept, OthersSources
<1>2. ASSUME Refresh(t) \/ Authorize(t)
      PROVE  \/ \E y \in Tokens : Elsewhere(y, u) /\ y.grant = result'[t].token.grant
             \/ result'[t].token.grant = issued + 1
  <2>1. CASE result'[t].token.grant = issued + 1
    BY <2>1
  <2>2. CASE record[t] \in Tokens /\ result'[t].token.grant = record[t].grant
    <3>1. Elsewhere(record[t], u)
      BY DEF Elsewhere, InThread
    <3>2. QED
      BY <2>2, <3>1
  <2>3. QED
    BY <1>1, <1>2, <2>1, <2>2, IssuedGrant
<1>3. ASSUME NEW id \in Ids, InKeyring(x, id)'
      PROVE  Elsewhere(x, u)
  <2>1. CASE Save(t)
    <3>1. result[t] # None
      BY <1>1, <2>1 DEF Save, ThreadInv
    <3>2. x = result[t].token \/ InKeyring(x, id)
      BY <1>3, <2>1 DEF Save, Put, InKeyring, TypeOK
    <3>3. QED
      BY <3>1, <3>2 DEF Elsewhere, InThread
  <2>2. CASE ~ Save(t)
    <3>1. keyring'[id] = keyring[id] \/ keyring'[id] = None
      BY <2>2, KeyringStep
    <3>2. QED
      BY <1>3, <3>1 DEF InKeyring, Elsewhere
  <2>3. QED
    BY <2>1, <2>2
<1>4. ASSUME NEW c \in Clients, NEW s \in Scopes, HasInner(c, s)', sources'[c][s].inner = x
      PROVE  \/ \E y \in Tokens : Elsewhere(y, u) /\ y.grant = x.grant
             \/ x.grant = issued + 1
  <2>1. CASE InnerKept(c, s)
    BY <1>4, <2>1 DEF InnerKept, Elsewhere
  <2>2. CASE InnerNew(t, c, s)
    BY <1>2, <1>4, <2>2 DEF InnerNew
  <2>3. QED
    BY <1>1, <1>4, <2>1, <2>2, InnerStep
<1>5. ASSUME NEW w \in Threads \ {u}, InThread(x, w)'
      PROVE  \/ \E y \in Tokens : Elsewhere(y, u) /\ y.grant = x.grant
             \/ x.grant = issued + 1
  <2>1. CASE w # t
    BY <1>1, <1>5, <2>1 DEF InThread, Kept, Elsewhere
  <2>2. CASE w = t /\ (Refresh(t) \/ Authorize(t))
    <3>1. record'[t] = record[t] /\ result'[t] # None
      BY <1>1, <2>2, IssuedGrant
    <3>2. CASE record[t] = x
      BY <3>2 DEF Elsewhere, InThread
    <3>3. CASE result'[t].token = x
      BY <1>2, <2>2, <3>3
    <3>4. QED
      BY <1>5, <2>2, <3>1, <3>2, <3>3 DEF InThread
  <2>3. CASE w = t /\ (ReadRecord(t) \/ UseInner(t))
    <3>1. CASE \E answer \in Replies : Return(t, answer)
      BY <1>5, <2>3, <3>1, Values DEF InThread, Return, TypeOK
    <3>2. ASSUME NEW token \in Tokens \cup {None}, Reads(t, token)
          PROVE  Elsewhere(x, u)
      <4>1. x = token
        BY <1>1, <1>5, <2>3, <3>2, ReadBrings DEF Reads, InThread, TypeOK
      <4>2. CASE Cached(t)
        <5>1. SaveAs(t) \in Ids
          BY <1>1, <2>3, ReadBrings, SourceType
        <5>2. QED
          BY <3>2, <4>1, <4>2, <5>1, Values DEF Reads, Elsewhere
      <4>3. CASE ~ Cached(t)
        <5>1. Source(t) \in InteractiveSources /\ Source(t).inner = x
          BY <3>2, <4>1, <4>3, Values DEF Reads
        <5>2. ClientOf[t] \in Clients /\ job[t].scope \in Scopes
          BY <1>1, <2>3, ReadBrings, SourceType
        <5>3. HasInner(ClientOf[t], job[t].scope) /\ sources[ClientOf[t]][job[t].scope].inner = x
          BY <5>1, Values DEF HasInner, Source
        <5>4. QED
          BY <5>2, <5>3 DEF Elsewhere
      <4>4. QED
        BY <4>2, <4>3
    <3>3. QED
      BY <1>1, <2>3, <3>1, <3>2, ReadBrings
  <2>4. CASE w = t /\ ~ (ReadRecord(t) \/ UseInner(t) \/ Refresh(t) \/ Authorize(t))
    <3>1. InThread(x, t)
      BY <1>5, <2>4, Values, NoNewToken DEF InThread
    <3>2. QED
      BY <2>4, <3>1 DEF Elsewhere
  <2>5. QED
    BY <2>1, <2>2, <2>3, <2>4
<1>6. QED
    BY <1>3, <1>4, <1>5 DEF Elsewhere

LEMMA LoginStep ==
    ASSUME ControlInv, BudgetInv, ControlInv', HomeInv, HoldsInner, LoginInv,
           NEW t \in Threads, Start(t) \/ Step(t)
    PROVE  LoginInv'
<1> USE DEF ControlInv
<1>1. SourcesKept(t) /\ (\A v \in Threads \ {t} : Kept(v)) /\ ThreadInv(t)
    BY OthersKept, OthersSources
<1>2. issued \in Nat
    BY Numerals
<1>3. ASSUME NEW x \in Tokens, NEW u \in Threads, Elsewhere(x, u)
      PROVE  x.grant <= issued
  <2>1. \E id \in Ids : Located(x, id)
    BY <1>3, HeldLocated DEF Elsewhere
  <2>2. QED
    BY <2>1 DEF HomeInv
<1> SUFFICES ASSUME NEW u \in Threads, NewLogin(u)', NEW x \in Tokens, Elsewhere(x, u)'
             PROVE  x.grant # result'[u].token.grant
    BY DEF LoginInv
<1>4. CASE u # t
  <2>1. NewLogin(u) /\ result'[u] = result[u] /\ result[u] # None
    BY <1>1, <1>4 DEF Kept, NewLogin, At, ThreadInv
  <2>2. \A y \in Tokens : Elsewhere(y, u) => y.grant # result[u].token.grant
    BY <2>1 DEF LoginInv
  <2>3. result[u].token \in Tokens /\ result[u].token.grant <= issued
    <3>1. result[u].token \in Tokens
      BY <2>1, Values DEF TypeOK
    <3>2. \E id \in Ids : Located(result[u].token, id)
      BY <2>1, <3>1, HeldLocated DEF InThread
    <3>3. QED
      BY <3>1, <3>2 DEF HomeInv
  <2>4. result[u].token.grant \in Nat
    BY <2>3, Numerals
  <2>5. CASE \E y \in Tokens : Elsewhere(y, u) /\ y.grant = x.grant
    BY <2>1, <2>2, <2>5
  <2>6. CASE x.grant = issued + 1
    BY <1>2, <2>1, <2>3, <2>4, <2>6
  <2>7. QED
    BY <1>1, <1>4, <2>5, <2>6, ElsewhereStep
<1>5. CASE u = t
  <2>1. Authorize(t) /\ ~ Requesting(t)
    <3>1. ~ Requesting(t)' /\ pc'[t] = "save" /\ job'[t] \in Logins
      BY <1>5, Values DEF NewLogin, Requesting, At
    <3>2. ReadRecord(t) \/ UseInner(t) \/ Refresh(t) \/ Authorize(t)
      BY <3>1, NoNewHolder
    <3>3. job'[t] = job[t]
      <4>1. CASE Refresh(t) \/ Authorize(t)
        BY <1>1, <4>1, IssuedGrant
      <4>2. CASE ReadRecord(t) \/ UseInner(t)
        <5>1. ~ \E answer \in Replies : Return(t, answer)
          BY <3>1 DEF Return, Goto, TypeOK
        <5>2. QED
          BY <1>1, <4>2, <5>1, ReadBrings DEF Reads
      <4>3. QED
        BY <3>2, <4>1, <4>2
    <3>4. ~ Requesting(t)
      BY <3>1, <3>3 DEF Requesting
    <3>5. QED
      BY <1>1, <3>2, <3>4, ReadBrings, RefreshBrings
  <2>2. result'[t].token.grant = issued + 1 /\ keyring' = keyring
    BY <1>1, <2>1, IssuedGrant DEF Authorize, Refresh, At
  <2>3. sources' = sources
    BY <2>1 DEF Authorize, Issue, KeepInner
  <2>4. Elsewhere(x, t)
    BY <1>1, <1>5, <2>2, <2>3 DEF Elsewhere, InKeyring, HasInner, InThread, Kept
  <2>5. x.grant <= issued /\ x.grant \in Nat
    BY <1>3, <2>4, Numerals
  <2>6. QED
    BY <1>2, <1>5, <2>2, <2>5
<1>6. QED
    BY <1>4, <1>5

-----------------------------------------------------------------------------
(* Refresh tokens that are live, as long as nothing fails.                 *)

(* Two threads that work on a guarded record have tokens of their own.     *)
LEMMA AloneGuarded ==
    ASSUME ControlInv, NEW t \in Threads, NEW u \in Threads \ {t}, Working(t), Working(u),
           SaveAs(t) = SaveAs(u), SaveAs(t) \notin unguarded
    PROVE  ~ Cached(t) /\ ~ Cached(u)
<1> USE DEF ControlInv
<1>1. ASSUME NEW v \in Threads, Working(v)
      PROVE  /\ Requesting(v) /\ Source(v) # None /\ v \in keyLock
             /\ ClientOf[v] \in Clients /\ job[v].scope \in Scopes
             /\ Source(v) = sources[ClientOf[v]][job[v].scope]
             /\ SaveAs(v) = RecordOf(Source(v))
             /\ Cached(v) <=> Source(v).kind = "cached"
  <2>1. Requesting(v) /\ Source(v) # None /\ v \in keyLock
    BY <1>1 DEF ThreadInv, Working
  <2>2. QED
    BY <2>1, SourceType DEF Cached, Source
<1>2. Guarded(ClientOf[t], Source(t), ClientOf[u], Source(u))
    BY <1>1 DEF GuardInv
<1>3. ASSUME Cached(t), Cached(u), ClientOf[t] = ClientOf[u]
      PROVE  FALSE
  <2>1. Source(u).id = Source(t).id
    BY <1>1, <1>3 DEF RecordOf
  <2>2. Contends(t, u) /\ u \in Peers(t)
    BY <1>3, <2>1 DEF Contends, Peers
  <2>3. QED
    BY <1>1, <2>2 DEF LocksInv
<1>4. QED
    BY <1>1, <1>2, <1>3 DEF Guarded

(* What t is renewing is in no other hands that renew a guarded record.    *)
LEMMA RefreshHome ==
    ASSUME ControlInv, HomeInv, NEW t \in Threads, At(t, "refresh"),
           NEW y \in Tokens, NEW id \in Ids, Located(y, id), y.refresh = record[t].refresh
    PROVE  /\ record[t] \in Tokens /\ SaveAs(t) = id /\ y.grant = record[t].grant
           /\ Working(t) /\ Requesting(t) /\ Source(t) # None /\ InThread(record[t], t)
<1> USE DEF ControlInv
<1>1. /\ record[t] \in Tokens /\ Working(t) /\ Requesting(t) /\ Source(t) # None
      /\ InThread(record[t], t)
    BY DEF ThreadInv, At, Working, TypeOK, InThread
<1>2. SaveAs(t) \in Ids /\ Located(record[t], SaveAs(t))
    BY <1>1, HeldLocated
<1>3. QED
    BY <1>1, <1>2 DEF HomeInv

LEMMA InnerElse ==
    ASSUME ControlInv, HomeInv, InnerInv, HoldsInner, NEW t \in Threads, At(t, "refresh"),
           NEW c \in Clients, NEW s \in Scopes, HasInner(c, s), sources[c][s].saveAs \notin unguarded,
           ~ (c = ClientOf[t] /\ s = job[t].scope)
    PROVE  sources[c][s].inner.refresh # record[t].refresh
<1> USE DEF ControlInv
<1> SUFFICES ASSUME sources[c][s].inner.refresh = record[t].refresh PROVE FALSE
    OBVIOUS
<1>1. sources[c][s].inner \in Tokens
    BY Values DEF HasInner
<1>2. Located(sources[c][s].inner, sources[c][s].saveAs) /\ sources[c][s].saveAs \in Ids
    BY <1>1, HeldLocated
<1>3. /\ record[t] \in Tokens /\ SaveAs(t) = sources[c][s].saveAs
      /\ sources[c][s].inner.grant = record[t].grant
      /\ Working(t) /\ Requesting(t) /\ Source(t) # None
    BY <1>1, <1>2, RefreshHome
<1>4. /\ ClientOf[t] \in Clients /\ job[t].scope \in Scopes
      /\ Source(t) = sources[ClientOf[t]][job[t].scope]
      /\ SaveAs(t) = RecordOf(Source(t))
      /\ ~ Cached(t) <=> Source(t) \in InteractiveSources
      /\ Cached(t) <=> Source(t).kind = "cached"
    BY <1>3, SourceType DEF Cached, Source
<1>5. CASE Cached(t)
  <2>1. sources[c][s] # None /\ sources[c][s].kind = "interactive"
        /\ RecordOf(sources[c][s]) = SaveAs(t)
    BY <1>3, Values DEF HasInner, RecordOf
  <2>2. Guarded(ClientOf[t], Source(t), c, sources[c][s])
    BY <1>3, <1>4 DEF GuardInv
  <2>3. QED
    BY <1>4, <1>5, <2>1, <2>2 DEF Guarded
<1>6. CASE ~ Cached(t)
  <2>1. record[t] = Source(t).inner
    BY <1>3, <1>6 DEF HoldsInner
  <2>2. HasInner(ClientOf[t], job[t].scope)
    BY <1>3, <1>4, <1>6, <2>1, Values DEF HasInner
  <2>3. QED
    BY <1>3, <1>4, <2>1, <2>2 DEF InnerInv
<1>7. QED
    BY <1>5, <1>6

LEMMA ThreadElse ==
    ASSUME ControlInv, HomeInv, InnerInv, LoginInv, HoldsInner, NEW t \in Threads, At(t, "refresh"),
           NEW u \in Threads \ {t}, SaveAs(u) \notin unguarded, NEW y \in Tokens,
           (At(u, "refresh") /\ y = record[u]) \/ (At(u, "save") /\ y = result[u].token)
    PROVE  y.refresh # record[t].refresh
<1> USE DEF ControlInv
<1> SUFFICES ASSUME y.refresh = record[t].refresh PROVE FALSE
    OBVIOUS
<1>1. InThread(y, u)
    BY DEF InThread, ThreadInv
<1>2. Located(y, SaveAs(u)) /\ SaveAs(u) \in Ids
    BY <1>1, HeldLocated
<1>3. /\ record[t] \in Tokens /\ SaveAs(t) = SaveAs(u) /\ y.grant = record[t].grant
      /\ Working(t) /\ Requesting(t) /\ Source(t) # None /\ InThread(record[t], t)
    BY <1>2, RefreshHome
<1>4. CASE job[u] \in Logins
  <2>1. At(u, "save") /\ y = result[u].token
    BY <1>4, LoginType DEF ThreadInv, At
  <2>2. NewLogin(u) /\ Elsewhere(record[t], u)
    BY <1>3, <1>4, <2>1 DEF NewLogin, Elsewhere
  <2>3. QED
    BY <1>3, <2>1, <2>2 DEF LoginInv
<1>5. CASE Working(u)
  <2>1. ~ Cached(t) /\ ~ Cached(u)
    BY <1>3, <1>5, AloneGuarded
  <2>2. y = Source(u).inner /\ record[t] = Source(t).inner
    BY <1>3, <1>5, <2>1 DEF HoldsInner
  <2>3. ASSUME NEW v \in Threads, Working(v), ~ Cached(v), Source(v).inner \in Tokens
        PROVE  /\ HasInner(ClientOf[v], job[v].scope)
               /\ sources[ClientOf[v]][job[v].scope] = Source(v)
               /\ ClientOf[v] \in Clients /\ job[v].scope \in Scopes /\ v \in keyLock /\ Requesting(v)
    <3>1. Requesting(v) /\ Source(v) # None /\ v \in keyLock
      BY <2>3 DEF ThreadInv, Working
    <3>2. QED
      BY <2>3, <3>1, SourceType, Values DEF HasInner, Source
  <2>4. ClientOf[u] = ClientOf[t] /\ job[u].scope = job[t].scope
    BY <1>3, <1>5, <2>1, <2>2, <2>3 DEF InnerInv
  <2>5. Contends(t, u) /\ u \in Peers(t)
    BY <1>5, <2>1, <2>4 DEF Contends, Peers, Working
  <2>6. QED
    BY <1>3, <1>5, <2>1, <2>2, <2>3, <2>5 DEF LocksInv
<1>6. QED
    BY <1>1, <1>4, <1>5, HolderWorks

(* Without failures only a refresh takes a refresh token away, and a       *)
(* thread that renews a record goes on until it saves.                     *)
LEMMA LiveKept ==
    ASSUME TypeOK, BudgetInv, NEW t \in Threads, ThreadInv(t), Start(t) \/ Step(t), faults' = 0,
           NEW r \in live, Refresh(t) => r # record[t].refresh
    PROVE  r \in live'
<1>1. faults \in Nat
    BY TokenCacheAssumption DEF TypeOK
<1>2. CASE Refresh(t) \/ Authorize(t)
    BY <1>2, IssuedGrant
<1>3. CASE RefreshFails(t)
    BY <1>1, <1>3 DEF RefreshFails, Fault
<1>4. CASE ~ (Refresh(t) \/ Authorize(t) \/ RefreshFails(t))
    BY <1>4 DEF Start, Step, Discover, FindSource, ReadOwn, ReadAdmin, ReadFails, Lock,
       ReadRecord, UseInner, AuthorizeFails, Save, SaveFails, Logout, LogoutFails, server
<1>5. QED
    BY <1>2, <1>3, <1>4

LEMMA RenewsOn ==
    ASSUME ControlInv, BudgetInv, TypeOK', NEW t \in Threads, Start(t) \/ Step(t), faults' = 0,
           NEW u \in Threads, NEW id \in Ids, Renews(u, id), ~ (u = t /\ Save(t))
    PROVE  Renews(u, id)'
<1> USE DEF ControlInv
<1>1. SourcesKept(t) /\ (\A v \in Threads \ {t} : Kept(v)) /\ ThreadInv(t) /\ ThreadInv(u)
    BY OthersKept, OthersSources
<1>2. Working(u) /\ pc[u] \in {"refresh", "authorize", "save"} /\ SaveAs(u) = id
    BY DEF Renews, WorksOn, Working
<1>3. job'[u] = job[u] /\ pc'[u] \in {"refresh", "authorize", "save"}
  <2>1. CASE u # t
    BY <1>1, <1>2, <2>1 DEF Kept
  <2>2. CASE u = t
    <3>1. ~ Fault
      BY TokenCacheAssumption DEF Fault, TypeOK
    <3>2. Refresh(t) \/ RefreshFails(t) \/ Authorize(t)
      BY <1>1, <1>2, <2>2, <3>1 DEF Start, Step, Discover, FindSource, ReadOwn, ReadAdmin,
         ReadFails, Lock, ReadRecord, UseInner, AuthorizeFails, SaveFails, Logout, Delete,
         LogoutFails, At
    <3>3. CASE RefreshFails(t)
      BY <2>2, <3>3 DEF RefreshFails, Goto, local, TypeOK
    <3>4. CASE Refresh(t) \/ Authorize(t)
      BY <2>2, <3>4 DEF Refresh, Authorize, Issue, Got, Goto, TypeOK
    <3>5. QED
      BY <3>2, <3>3, <3>4
  <2>3. QED
    BY <2>1, <2>2
<1>4. Requesting(u)' /\ SaveAs(u)' = SaveAs(u)
    BY <1>1, <1>2, <1>3, WorkingSource DEF Requesting, Renews
<1>5. QED
    BY <1>2, <1>3, <1>4 DEF Renews, WorksOn

LEMMA LiveStep ==
    ASSUME ControlInv, BudgetInv, ControlInv', HomeInv, InnerInv, LoginInv, HoldsInner, HoldsInner',
           LiveInv, NEW t \in Threads, Start(t) \/ Step(t)
    PROVE  LiveInv'
<1> USE DEF ControlInv
<1> SUFFICES ASSUME faults' = 0
             PROVE  /\ \A id \in Ids \ unguarded' : RecordLive(id)'
                    /\ \A c \in Clients, s \in Scopes : InnerLive(c, s)'
                    /\ \A u \in Threads : ThreadLive(u)'
    BY DEF LiveInv
<1>1. SourcesKept(t) /\ (\A v \in Threads \ {t} : Kept(v)) /\ ThreadInv(t)
    BY OthersKept, OthersSources
<1>2. /\ \A id \in Ids \ unguarded : RecordLive(id)
      /\ \A c \in Clients, s \in Scopes : InnerLive(c, s)
      /\ \A u \in Threads : ThreadLive(u)
  <2>1. faults \in Nat
    BY TokenCacheAssumption DEF TypeOK
  <2>2. faults' = faults \/ faults' = faults + 1
    BY DEF Start, Step, Discover, FindSource, ReadOwn, ReadAdmin,
       ReadFails, Lock, ReadRecord, UseInner, Refresh, RefreshFails, Authorize, AuthorizeFails,
       Save, SaveFails, Logout, LogoutFails, Fault, NoFault
  <2>3. faults = 0
    BY <2>1, <2>2
  <2>4. QED
    BY <2>3 DEF LiveInv
<1>3. unguarded \subseteq unguarded'
    BY DEF Start, Step, Discover, FindSource, ReadOwn, ReadAdmin, ReadFails, Lock, ReadRecord,
       UseInner, Refresh, RefreshFails, Authorize, AuthorizeFails, Save, SaveFails, Logout,
       LogoutFails, process, UseRecord, UseAuthorization, UseSource
<1>4. \A r \in live : (Refresh(t) => r # record[t].refresh) => r \in live'
    BY <1>1, LiveKept
<1>5. ASSUME NEW id \in Ids \ unguarded'
      PROVE  RecordLive(id)'
  <2>1. id \notin unguarded /\ RecordLive(id)
    BY <1>2, <1>3
  <2>2. CASE Save(t) /\ SaveAs(t) = id
    <3>1. result[t].token.refresh \in live /\ live' = live
      BY <1>2, <2>1, <2>2 DEF ThreadLive, Save, server
    <3>2. keyring'[id].token = result[t].token
      BY <2>2 DEF Save, Put, TypeOK
    <3>3. QED
      BY <3>1, <3>2 DEF RecordLive
  <2>3. CASE ~ (Save(t) /\ SaveAs(t) = id)
    <3>1. keyring'[id] = keyring[id] \/ keyring'[id] = None
      <4>1. CASE Save(t)
        BY <2>3, <4>1 DEF Save, Put, TypeOK
      <4>2. QED
        BY <4>1, KeyringStep
    <3>2. ASSUME NEW u \in Threads, Renews(u, id)
          PROVE  Renews(u, id)'
      <4>1. ~ (u = t /\ Save(t))
        BY <2>3, <3>2 DEF Renews, WorksOn
      <4>2. QED
        BY <3>2, <4>1, RenewsOn
    <3>3. ASSUME keyring[id] # None, keyring[id].token.refresh \in live, keyring'[id] = keyring[id]
          PROVE  RecordLive(id)'
      <4>1. CASE Refresh(t) /\ keyring[id].token.refresh = record[t].refresh
        <5>1. keyring[id].token \in Tokens
          BY <3>3, Values DEF TypeOK
        <5>2. Located(keyring[id].token, id) /\ At(t, "refresh")
          BY <3>3, <4>1, <5>1, HeldLocated DEF InKeyring, Refresh
        <5>3. SaveAs(t) = id /\ Requesting(t)
          BY <4>1, <5>1, <5>2, RefreshHome
        <5>4. Renews(t, id)
          BY <5>2, <5>3 DEF Renews, WorksOn, At
        <5>5. QED
          BY <3>2, <5>4 DEF RecordLive
      <4>2. QED
        BY <1>4, <3>3, <4>1 DEF RecordLive
    <3>4. QED
      BY <2>1, <3>1, <3>2, <3>3 DEF RecordLive
  <2>4. QED
    BY <2>2, <2>3
<1>6. ASSUME NEW c \in Clients, NEW s \in Scopes, HasInner(c, s)', sources'[c][s].saveAs \notin unguarded'
      PROVE  sources'[c][s].inner.refresh \in live'
  <2>1. CASE InnerNew(t, c, s)
    BY <1>1, <2>1, IssuedGrant DEF InnerNew
  <2>2. CASE InnerKept(c, s) /\ Refresh(t) /\ c = ClientOf[t] /\ s = job[t].scope
    <3>1. /\ Working(t) /\ Requesting(t) /\ Source(t) # None /\ pc'[t] = "save" /\ job'[t] = job[t]
          /\ result'[t].token.refresh \in live'
      BY <1>1, <2>2, IssuedGrant, RefreshBrings DEF Issue, Got, Goto, TypeOK
    <3>2. Source(t)' = sources'[c][s] /\ Source(t)' \in InteractiveSources
      BY <1>6, <2>2, <3>1 DEF Source, HasInner
    <3>3. Working(t)' /\ ~ Cached(t)'
      BY <3>1, <3>2, Values DEF Working, Requesting, Cached
    <3>4. result'[t].token = Source(t)'.inner
      BY <3>1, <3>3 DEF HoldsInner, At
    <3>5. QED
      BY <3>1, <3>2, <3>4
  <2>3. CASE InnerKept(c, s) /\ ~ (Refresh(t) /\ c = ClientOf[t] /\ s = job[t].scope)
    <3>1. /\ HasInner(c, s) /\ sources[c][s].saveAs \notin unguarded
          /\ sources[c][s].inner.refresh \in live /\ sources'[c][s].inner = sources[c][s].inner
      BY <1>2, <1>3, <1>6, <2>3 DEF InnerKept, InnerLive
    <3>2. Refresh(t) => sources[c][s].inner.refresh # record[t].refresh
      BY <2>3, <3>1, InnerElse DEF Refresh
    <3>3. QED
      BY <1>4, <3>1, <3>2
  <2>4. QED
    BY <1>1, <1>6, <2>1, <2>2, <2>3, InnerStep
<1>7. ASSUME NEW u \in Threads \ {t}
      PROVE  ThreadLive(u)'
  <2>1. ASSUME SaveAs(u)' \notin unguarded', NEW y \in Tokens,
               (At(u, "refresh") /\ y = record[u]) \/ (At(u, "save") /\ y = result[u].token)
        PROVE  y.refresh \in live'
    <3>1. InThread(y, u) /\ ThreadInv(u) /\ Kept(u)
      BY <1>1, <2>1 DEF InThread, ThreadInv
    <3>2. SaveAs(u)' = SaveAs(u)
      <4>1. CASE Working(u)
        BY <1>1, <3>1, <4>1, WorkingSource DEF Kept
      <4>2. CASE job[u] \in Logins
        <5>1. ~ Requesting(u) /\ ~ Requesting(u)' /\ job'[u] = job[u]
          BY <3>1, <4>2, Values DEF Requesting, Kept
        <5>2. QED
          BY <5>1 DEF SaveAs, AuthorizesAs
      <4>3. QED
        BY <3>1, <4>1, <4>2, HolderWorks
    <3>3. SaveAs(u) \notin unguarded /\ y.refresh \in live
      BY <1>2, <1>3, <2>1, <3>2 DEF ThreadLive
    <3>4. Refresh(t) => y.refresh # record[t].refresh
      BY <2>1, <3>3, ThreadElse DEF Refresh
    <3>5. QED
      BY <1>4, <3>3, <3>4
  <2>2. At(u, "refresh") => record[u] \in Tokens
    BY DEF ThreadInv, TypeOK
  <2>3. At(u, "save") => result[u].token \in Tokens
    <3>1. At(u, "save") => result[u] \in Results
      BY DEF ThreadInv, TypeOK
    <3>2. QED
      BY <3>1, Values
  <2>4. pc'[u] = pc[u] /\ record'[u] = record[u] /\ result'[u] = result[u]
    BY <1>1 DEF Kept
  <2>5. QED
    BY <2>1, <2>2, <2>3, <2>4 DEF ThreadLive, At
<1>8. ThreadLive(t)'
  <2>1. CASE Refresh(t) \/ Authorize(t)
    <3>1. pc'[t] = "save" /\ result'[t].token.refresh \in live'
      BY <1>1, <2>1, IssuedGrant DEF Refresh, Authorize, Issue, Got, Goto, TypeOK
    <3>2. QED
      BY <3>1 DEF ThreadLive, At
  <2>2. CASE ReadRecord(t) \/ UseInner(t)
    <3>1. /\ At(t, "read") /\ Working(t) /\ Requesting(t) /\ Source(t) # None
          /\ result[t] = None /\ UNCHANGED <<keyring, sources, unguarded, issued, live>>
      BY <1>1, <2>2, ReadBrings
    <3>2. CASE \E answer \in Replies : Return(t, answer)
      BY <3>2 DEF Return, Goto, ThreadLive, At, TypeOK
    <3>3. ASSUME NEW token \in Tokens \cup {None}, Reads(t, token)
          PROVE  ThreadLive(t)'
      <4>1. record'[t] = token /\ (result'[t] # None => result'[t].token = token)
            /\ SaveAs(t)' = SaveAs(t)
        BY <3>1, <3>3 DEF Reads, TypeOK, SaveAs, AuthorizesAs, Cached, Requesting, Source
      <4>2. ASSUME token # None, SaveAs(t) \notin unguarded
            PROVE  token.refresh \in live
        <5>1. CASE Cached(t)
          <6>1. SaveAs(t) \in Ids /\ keyring[SaveAs(t)] # None /\ keyring[SaveAs(t)].token = token
            BY <3>1, <3>3, <4>2, <5>1, SourceType DEF Reads, InKeyring
          <6>2. ~ \E u \in Threads : Renews(u, SaveAs(t))
            <7> SUFFICES ASSUME NEW u \in Threads, Renews(u, SaveAs(t)) PROVE FALSE
              OBVIOUS
            <7>1. u # t /\ Working(u) /\ SaveAs(u) = SaveAs(t)
              BY <3>1 DEF Renews, WorksOn, Working, At
            <7>2. QED
              BY <3>1, <4>2, <5>1, <7>1, AloneGuarded
          <6>3. QED
            BY <1>2, <4>2, <6>1, <6>2 DEF RecordLive
        <5>2. CASE ~ Cached(t)
          <6>1. /\ Source(t) \in InteractiveSources /\ token = Source(t).inner
                /\ SaveAs(t) = Source(t).saveAs
            BY <3>3, <4>2, <5>2 DEF Reads
          <6>2. ClientOf[t] \in Clients /\ job[t].scope \in Scopes
            BY <3>1, SourceType
          <6>3. InnerLive(ClientOf[t], job[t].scope)
            BY <1>2, <6>2
          <6>4. QED
            BY <4>2, <6>1, <6>3 DEF InnerLive, HasInner, Source
        <5>3. QED
          BY <5>1, <5>2
      <4>3. At(t, "refresh")' => record'[t] # None
        BY DEF ThreadInv
      <4>4. ASSUME At(t, "save")' PROVE token # None /\ result'[t].token = token
        <5>1. result'[t] # None
          BY <4>4 DEF ThreadInv
        <5>2. result'[t].token # None
          BY <5>1, Values DEF TypeOK
        <5>3. QED
          BY <4>1, <5>1, <5>2
      <4>5. QED
        BY <3>1, <4>1, <4>2, <4>3, <4>4 DEF ThreadLive
    <3>4. QED
      BY <1>1, <2>2, <3>2, <3>3, ReadBrings
  <2>3. CASE ~ (ReadRecord(t) \/ UseInner(t) \/ Refresh(t) \/ Authorize(t))
    BY <2>3, NoNewHolder DEF ThreadLive, At
  <2>4. QED
    BY <2>1, <2>2, <2>3
<1>9. QED
  <2>1. \A c \in Clients, s \in Scopes : InnerLive(c, s)'
    BY <1>6 DEF InnerLive
  <2>2. QED
    BY <1>5, <1>7, <1>8, <2>1

-----------------------------------------------------------------------------
(* A process that ends takes its tokens with it.                           *)
LEMMA ExitStep ==
    ASSUME ControlInv, InnerInv, LoginInv, HoldsInner, LiveInv, NEW c \in Clients, Exit(c)
    PROVE  InnerInv' /\ LoginInv' /\ HoldsInner' /\ LiveInv'
<1> USE DEF ControlInv
<1>1. UNCHANGED <<keyring, live, unguarded>>
    BY DEF Exit, server
<1>2. \A a \in Clients, s \in Scopes :
        sources'[a][s] = IF a = c THEN None ELSE sources[a][s]
    BY DEF Exit, TypeOK
<1>3. \A a \in Clients, s \in Scopes :
        HasInner(a, s)' => HasInner(a, s) /\ sources'[a][s] = sources[a][s]
    BY <1>2, Values DEF HasInner
<1>4. ASSUME NEW t \in Threads, ClientOf[t] = c
      PROVE  pc'[t] = "idle" /\ job'[t] = None /\ record'[t] = None /\ result'[t] = None
             /\ ~ Requesting(t)'
    BY <1>4, Values DEF Exit, Requesting, Commands
<1>5. ASSUME NEW t \in Threads, ClientOf[t] # c
      PROVE  /\ pc'[t] = pc[t] /\ job'[t] = job[t] /\ record'[t] = record[t]
             /\ result'[t] = result[t] /\ Source(t)' = Source(t)
             /\ Requesting(t)' = Requesting(t) /\ Cached(t)' = Cached(t) /\ SaveAs(t)' = SaveAs(t)
  <2>1. /\ pc'[t] = pc[t] /\ job'[t] = job[t] /\ record'[t] = record[t] /\ result'[t] = result[t]
    BY <1>5 DEF Exit
  <2>2. sources'[ClientOf[t]] = sources[ClientOf[t]]
    BY <1>5, TokenCacheAssumption DEF Exit, TypeOK
  <2>3. QED
    BY <2>1, <2>2 DEF Source, Requesting, Cached, SaveAs, AuthorizesAs
<1>6. InnerInv'
    BY <1>3 DEF InnerInv
<1>7. HoldsInner'
  <2> SUFFICES ASSUME NEW t \in Threads, Working(t)', ~ Cached(t)'
               PROVE  /\ At(t, "refresh")' => record'[t] = Source(t)'.inner
                      /\ At(t, "save")' => result'[t].token = Source(t)'.inner
    BY DEF HoldsInner
  <2>1. ClientOf[t] # c
    BY <1>4 DEF Working
  <2>2. QED
    BY <1>5, <2>1 DEF HoldsInner, Working, At
<1>8. LoginInv'
  <2> SUFFICES ASSUME NEW t \in Threads, NewLogin(t)', NEW x \in Tokens, Elsewhere(x, t)'
               PROVE  x.grant # result'[t].token.grant
    BY DEF LoginInv
  <2>1. ClientOf[t] # c
    BY <1>4 DEF NewLogin, At
  <2>2. NewLogin(t) /\ result'[t] = result[t]
    BY <1>5, <2>1 DEF NewLogin, At
  <2>3. Elsewhere(x, t)
    <3>1. ASSUME NEW u \in Threads, InThread(x, u)' PROVE InThread(x, u)
      <4>1. x # None
        BY Values
      <4>2. ClientOf[u] # c
        BY <1>4, <3>1, <4>1 DEF InThread
      <4>3. QED
        BY <1>5, <3>1, <4>2 DEF InThread
    <3>2. QED
      BY <1>1, <1>3, <3>1 DEF Elsewhere, InKeyring
  <2>4. QED
    BY <2>2, <2>3 DEF LoginInv
<1>9. ASSUME faults' = 0
      PROVE  /\ \A id \in Ids \ unguarded' : RecordLive(id)'
             /\ \A a \in Clients, s \in Scopes : InnerLive(a, s)'
             /\ \A t \in Threads : ThreadLive(t)'
  <2>1. ~ Fault
    BY <1>9, TokenCacheAssumption DEF Fault, TypeOK
  <2>2. faults = 0 /\ \A t \in Threads : ClientOf[t] = c => pc[t] = "idle"
    BY <1>9, <2>1 DEF Exit, NoFault, At
  <2>3. /\ \A id \in Ids \ unguarded : RecordLive(id)
        /\ \A a \in Clients, s \in Scopes : InnerLive(a, s)
        /\ \A t \in Threads : ThreadLive(t)
    BY <2>2 DEF LiveInv
  <2>4. \A t \in Threads, id \in Ids : Renews(t, id) => Renews(t, id)'
    BY <1>5, <2>2 DEF Renews, WorksOn
  <2>5. \A id \in Ids \ unguarded' : RecordLive(id)'
    BY <1>1, <2>3, <2>4 DEF RecordLive
  <2>6. \A a \in Clients, s \in Scopes : InnerLive(a, s)'
    BY <1>1, <1>3, <2>3 DEF InnerLive
  <2>7. \A t \in Threads : ThreadLive(t)'
    BY <1>1, <1>4, <1>5, <2>3 DEF ThreadLive, At
  <2>8. QED
    BY <2>5, <2>6, <2>7
<1>10. QED
    BY <1>6, <1>7, <1>8, <1>9 DEF LiveInv

LEMMA SameStep ==
    ASSUME InnerInv, LoginInv, HoldsInner, LiveInv,
           UNCHANGED <<keyring, live, sources, unguarded, pc, job, record, result, faults>>
    PROVE  InnerInv' /\ LoginInv' /\ HoldsInner' /\ LiveInv'
<1>1. /\ \A c \in Clients, s \in Scopes : HasInner(c, s)' = HasInner(c, s)
      /\ \A t \in Threads :
            /\ Requesting(t)' = Requesting(t) /\ Working(t)' = Working(t) /\ Source(t)' = Source(t)
            /\ Cached(t)' = Cached(t) /\ SaveAs(t)' = SaveAs(t)
            /\ \A step \in Steps : At(t, step)' = At(t, step)
            /\ \A x \in Tokens : Elsewhere(x, t)' = Elsewhere(x, t)
    BY DEF HasInner, Requesting, Working, Source, Cached, SaveAs, AuthorizesAs, At, Elsewhere,
       InKeyring, InThread
<1>2. InnerInv' /\ HoldsInner' /\ LoginInv'
    BY <1>1 DEF InnerInv, HoldsInner, LoginInv, NewLogin, At
<1>3. LiveInv'
    BY <1>1 DEF LiveInv, RecordLive, InnerLive, ThreadLive, Renews, WorksOn, At
<1>4. QED
    BY <1>2, <1>3

-----------------------------------------------------------------------------
(* Whose tokens the keyring, the sources and the threads hold.             *)

(* What a thread saves makes the record one of its client, or is counted.  *)
LEMMA SavedClient ==
    ASSUME ControlInv, ClientInv, NEW t \in Threads, Save(t),
           NEW id \in Ids, id = SaveAs(t)
    PROVE  RecordClient(id)'
<1> USE DEF ControlInv
<1>1. OwnToken(t, result[t].token) /\ ThreadInv(t)
    BY DEF ClientInv, ThreadClient, Save
<1>2. keyring'[id].token = result[t].token
    BY DEF Save, Put, TypeOK
<1>3. CASE Misfiles(t)
    BY <1>2, <1>3 DEF Save, RecordClient
<1>4. CASE ~ Misfiles(t)
  <2>1. SaveAs(t) = AuthorizesAs(t)
    <3>1. CASE Requesting(t)
      <4>1. Source(t) # None
        BY <1>1, <3>1 DEF Save, At, ThreadInv, Working
      <4>2. QED
        BY <1>4, <3>1, <4>1 DEF Misfiles, SaveAs, AuthorizesAs, Cached
    <3>2. CASE ~ Requesting(t)
      BY <3>2 DEF SaveAs
    <3>3. QED
      BY <3>1, <3>2
  <2>2. misfiled' = misfiled
    BY <1>4 DEF Save
  <2>3. QED
    BY <1>1, <1>2, <2>1, <2>2 DEF OwnToken, RecordClient
<1>5. QED
    BY <1>3, <1>4

LEMMA ClientStep ==
    ASSUME ControlInv, BudgetInv, ControlInv', ClientInv, NEW t \in Threads, Start(t) \/ Step(t)
    PROVE  ClientInv'
<1> USE DEF ControlInv
<1>1. SourcesKept(t) /\ (\A v \in Threads \ {t} : Kept(v)) /\ ThreadInv(t)
    BY OthersKept, OthersSources
<1>2. misfiled \subseteq misfiled'
    BY DEF Start, Step, Discover, FindSource, ReadOwn, ReadAdmin, ReadFails, Lock, ReadRecord,
       UseInner, Refresh, RefreshFails, Authorize, AuthorizeFails, Save, SaveFails, Logout,
       LogoutFails, process
<1>3. ASSUME NEW id \in Ids
      PROVE  RecordClient(id)'
  <2>1. CASE Save(t) /\ SaveAs(t) = id
    BY <2>1, SavedClient
  <2>2. CASE ~ (Save(t) /\ SaveAs(t) = id)
    <3>1. keyring'[id] = keyring[id] \/ keyring'[id] = None
      <4>1. CASE Save(t)
        BY <2>2, <4>1 DEF Save, Put, TypeOK
      <4>2. QED
        BY <4>1, KeyringStep
    <3>2. QED
      BY <1>2, <3>1 DEF ClientInv, RecordClient
  <2>3. QED
    BY <2>1, <2>2
<1>4. ASSUME Refresh(t) \/ Authorize(t)
      PROVE  /\ OwnToken(t, result'[t].token)
             /\ Requesting(t) => Working(t) /\ Source(t) # None
             /\ job' = job
  <2>1. CASE Refresh(t)
    BY <1>1, <2>1, RefreshBrings, IssuedGrant DEF ClientInv, ThreadClient, OwnToken, Refresh,
       Authorize, At
  <2>2. CASE Authorize(t)
    BY <1>1, <2>2, AuthorizeBrings, IssuedGrant DEF OwnToken, Refresh, Authorize, At
  <2>3. QED
    BY <1>4, <2>1, <2>2
<1>5. ASSUME NEW c \in Clients, NEW s \in Scopes, HasInner(c, s)'
      PROVE  sources'[c][s].inner.client = sources'[c][s].id
  <2>1. CASE InnerNew(t, c, s)
    <3>1. /\ Requesting(t) /\ Source(t) # None /\ ~ Cached(t)
          /\ AuthorizesAs(t) = Source(t).id
      BY <1>4, <2>1, SourceType, Values DEF InnerNew
    <3>2. sources'[c][s].inner.client = Source(t).id
      BY <1>4, <2>1, <3>1 DEF InnerNew, OwnToken
    <3>3. Source(t)'.id = Source(t).id /\ Source(t)' = sources'[c][s]
      BY <1>1, <1>4, <2>1, <3>1, WorkingSource DEF InnerNew, Source
    <3>4. QED
      BY <3>2, <3>3
  <2>2. CASE InnerKept(c, s)
    <3>1. sources[c][s].inner.client = sources[c][s].id /\ sources[c][s] # None
      BY <2>2, Values DEF InnerKept, HasInner, ClientInv, InnerClient
    <3>2. sources'[c][s].id = sources[c][s].id
      BY <1>1, <3>1 DEF SourcesKept, SameRecord, ThreadInv, At, Source
    <3>3. QED
      BY <2>2, <3>1, <3>2 DEF InnerKept
  <2>3. QED
    BY <1>1, <1>5, <2>1, <2>2, InnerStep
<1>6. ASSUME NEW u \in Threads, ThreadInv(u), job'[u] = job[u],
             (Working(u) /\ Requesting(u)) \/ job[u] \in Logins, NEW y, OwnToken(u, y)
      PROVE  OwnToken(u, y)'
  <2>1. CASE Working(u) /\ Requesting(u)
    <3>1. /\ Cached(u)' = Cached(u) /\ Source(u)'.id = Source(u).id /\ SaveAs(u)' = SaveAs(u)
      BY <1>1, <1>6, <2>1, WorkingSource
    <3>2. AuthorizesAs(u) = Source(u).id /\ AuthorizesAs(u)' = Source(u)'.id
      BY <1>6, <2>1 DEF AuthorizesAs, Requesting
    <3>3. QED
      BY <1>2, <1>6, <3>1, <3>2 DEF OwnToken
  <2>2. CASE job[u] \in Logins
    <3>1. ~ Requesting(u) /\ ~ Requesting(u)'
      BY <1>6, <2>2, Values DEF Requesting
    <3>2. AuthorizesAs(u)' = AuthorizesAs(u)
      BY <1>6, <3>1 DEF AuthorizesAs
    <3>3. QED
      BY <1>6, <3>1, <3>2 DEF OwnToken, Cached
  <2>3. QED
    BY <1>6, <2>1, <2>2
<1>7. ASSUME NEW u \in Threads \ {t}
      PROVE  ThreadClient(u)'
  <2>1. Kept(u) /\ ThreadInv(u) /\ ThreadClient(u)
    BY <1>1 DEF ClientInv
  <2>2. At(u, "refresh") \/ At(u, "save") =>
            (Working(u) /\ Requesting(u)) \/ job[u] \in Logins
    BY <2>1 DEF At, ThreadInv, Working, Requesting
  <2>3. QED
    BY <1>6, <2>1, <2>2 DEF ThreadClient, Kept, At
<1>8. ThreadClient(t)'
  <2>1. CASE Refresh(t) \/ Authorize(t)
    <3>1. (Working(t) /\ Requesting(t)) \/ job[t] \in Logins
      BY <1>1, <1>4, <2>1 DEF Refresh, Authorize, At, ThreadInv, Working, Requesting
    <3>2. pc'[t] = "save"
      BY <1>1, <2>1, RefreshBrings, AuthorizeBrings DEF Issue, Got, Goto, TypeOK
    <3>4. QED
      BY <1>1, <1>4, <1>6, <2>1, <3>1, <3>2 DEF ThreadClient, OwnToken, At
  <2>2. CASE ReadRecord(t) \/ UseInner(t)
    <3>1. /\ Working(t) /\ Requesting(t) /\ Source(t) # None
          /\ record[t] = None /\ result[t] = None /\ UNCHANGED <<keyring, sources>>
      BY <1>1, <2>2, ReadBrings
    <3>2. CASE \E answer \in Replies : Return(t, answer)
      BY <3>2 DEF Return, Goto, ThreadClient, At, TypeOK
    <3>3. ASSUME NEW token \in Tokens \cup {None}, Reads(t, token)
          PROVE  ThreadClient(t)'
      <4>1. /\ job' = job /\ record'[t] = token
            /\ result'[t] # None => result'[t].token = token
        BY <3>1, <3>3 DEF Reads, TypeOK
      <4>2. ASSUME token # None PROVE OwnToken(t, token)
        <5>1. CASE Cached(t)
          BY <3>1, <3>3, <4>2, <5>1, SourceType DEF Reads, InKeyring, ClientInv, RecordClient,
             RecordOf, OwnToken, CachedSources
        <5>2. CASE ~ Cached(t)
          <6>1. /\ Source(t) \in InteractiveSources /\ token = Source(t).inner
                /\ ClientOf[t] \in Clients /\ job[t].scope \in Scopes
                /\ AuthorizesAs(t) = Source(t).id
            BY <3>1, <3>3, <4>2, <5>2, SourceType DEF Reads
          <6>2. QED
            BY <4>2, <6>1 DEF ClientInv, InnerClient, HasInner, Source, OwnToken
        <5>3. QED
          BY <5>1, <5>2
      <4>3. At(t, "refresh")' => record'[t] # None
        BY DEF ThreadInv
      <4>4. ASSUME At(t, "save")' PROVE token # None /\ result'[t].token = token
        <5>1. result'[t] # None
          BY <4>4 DEF ThreadInv
        <5>2. result'[t].token # None
          BY <5>1, Values DEF TypeOK
        <5>3. QED
          BY <4>1, <5>1, <5>2
      <4>5. token # None => OwnToken(t, token)'
        BY <1>1, <1>6, <3>1, <4>1, <4>2
      <4>6. QED
        BY <4>1, <4>3, <4>4, <4>5 DEF ThreadClient, OwnToken
    <3>4. QED
      BY <1>1, <2>2, <3>2, <3>3, ReadBrings
  <2>3. CASE ~ (ReadRecord(t) \/ UseInner(t) \/ Refresh(t) \/ Authorize(t))
    BY <2>3, NoNewHolder DEF ThreadClient, At
  <2>4. QED
    BY <2>1, <2>2, <2>3
<1>9. QED
    BY <1>3, <1>5, <1>7, <1>8 DEF ClientInv, InnerClient

LEMMA ExitClient ==
    ASSUME ControlInv, ClientInv, NEW c \in Clients, Exit(c)
    PROVE  ClientInv'
<1> USE DEF ControlInv
<1>1. UNCHANGED <<keyring, misfiled>>
    BY DEF Exit
<1>2. \A a \in Clients, s \in Scopes :
        sources'[a][s] = IF a = c THEN None ELSE sources[a][s]
    BY DEF Exit, TypeOK
<1>3. \A a \in Clients, s \in Scopes : InnerClient(a, s)'
  <2>1. \A a \in Clients, s \in Scopes :
          HasInner(a, s)' => HasInner(a, s) /\ sources'[a][s] = sources[a][s]
    BY <1>2, Values DEF HasInner
  <2>2. QED
    BY <2>1 DEF InnerClient, ClientInv
<1>4. ASSUME NEW t \in Threads
      PROVE  ThreadClient(t)'
  <2>1. CASE ClientOf[t] = c
    BY <2>1 DEF Exit, ThreadClient, At
  <2>2. CASE ClientOf[t] # c
    <3>1. /\ pc'[t] = pc[t] /\ job'[t] = job[t] /\ record'[t] = record[t]
          /\ result'[t] = result[t]
      BY <2>2 DEF Exit
    <3>2. sources'[ClientOf[t]] = sources[ClientOf[t]]
      BY <2>2, TokenCacheAssumption DEF Exit, TypeOK
    <3>3. /\ Cached(t)' = Cached(t) /\ SaveAs(t)' = SaveAs(t) /\ AuthorizesAs(t)' = AuthorizesAs(t)
      BY <3>1, <3>2 DEF Source, Requesting, Cached, SaveAs, AuthorizesAs
    <3>4. QED
      BY <1>1, <3>1, <3>3 DEF ClientInv, ThreadClient, OwnToken, At
  <2>3. QED
    BY <2>1, <2>2
<1>5. \A id \in Ids : RecordClient(id)'
    BY <1>1 DEF ClientInv, RecordClient
<1>6. QED
    BY <1>3, <1>4, <1>5 DEF ClientInv

LEMMA SameClient ==
    ASSUME ClientInv, UNCHANGED <<keyring, sources, misfiled, pc, job, record, result>>
    PROVE  ClientInv'
<1>1. \A t \in Threads : /\ Cached(t)' = Cached(t) /\ SaveAs(t)' = SaveAs(t)
                         /\ AuthorizesAs(t)' = AuthorizesAs(t)
    BY DEF Source, Requesting, Cached, SaveAs, AuthorizesAs
<1>2. (\A id \in Ids : RecordClient(id)') /\ (\A c \in Clients, s \in Scopes : InnerClient(c, s)')
    BY DEF ClientInv, RecordClient, InnerClient, HasInner
<1>3. \A t \in Threads : ThreadClient(t)'
    BY <1>1 DEF ClientInv, ThreadClient, OwnToken, At
<1>4. QED
    BY <1>2, <1>3 DEF ClientInv

-----------------------------------------------------------------------------
LEMMA TokenInit == Init => TokenInv
<1> SUFFICES ASSUME Init PROVE TokenInv
    OBVIOUS
<1>1. ControlInv /\ BudgetInv
    BY ControlInit
<1>2. \A x \in Tokens, id \in Ids : ~ Located(x, id)
    BY Values DEF Init, Located, InKeyring, InSource, InThread
<1>3. HomeInv /\ ForgottenInv
    BY <1>2 DEF Init, HomeInv, ForgottenInv
<1>4. InnerInv /\ LoginInv /\ HoldsInner
  <2>1. \A c \in Clients, s \in Scopes : ~ HasInner(c, s)
    BY Values DEF Init, HasInner
  <2>2. \A t \in Threads : pc[t] = "idle"
    BY DEF Init
  <2>3. QED
    BY <2>1, <2>2 DEF InnerInv, LoginInv, HoldsInner, NewLogin, At
<1>5. LiveInv
    BY Values DEF Init, LiveInv, RecordLive, InnerLive, HasInner, ThreadLive, At
<1>6. ClientInv
    BY Values DEF Init, ClientInv, RecordClient, InnerClient, HasInner, ThreadClient, At
<1>7. QED
    BY <1>1, <1>3, <1>4, <1>5, <1>6 DEF TokenInv

LEMMA TokenStep == TokenInv /\ [Next]_vars => TokenInv'
<1> SUFFICES ASSUME TokenInv, [Next]_vars PROVE TokenInv'
    OBVIOUS
<1> USE DEF TokenInv
<1>1. ControlInv' /\ BudgetInv'
    BY ControlStep
<1>2. HomeInv'
    BY Provenance, HomeStep DEF ControlInv
<1>3. ForgottenInv'
    BY ForgottenStep
<1>4. ASSUME NEW t \in Threads, Start(t) \/ Step(t)
      PROVE  InnerInv' /\ LoginInv' /\ HoldsInner' /\ LiveInv' /\ ClientInv'
  <2>1. HoldsInner'
    BY <1>1, <1>4, HoldsStep
  <2>2. QED
    BY <1>1, <1>4, <2>1, InnerInvStep, LoginStep, LiveStep, ClientStep
<1>5. ASSUME NEW c \in Clients, Exit(c)
      PROVE  InnerInv' /\ LoginInv' /\ HoldsInner' /\ LiveInv' /\ ClientInv'
    BY <1>5, ExitStep, ExitClient
<1>6. CASE (\E n \in Numbers : Age(n)) \/ UNCHANGED vars
  <2>1. UNCHANGED <<keyring, live, sources, unguarded, misfiled, pc, job, record, result, faults>>
    BY <1>6 DEF Age, vars, server, process, local
  <2>2. QED
    BY <1>1, <1>2, <1>3, <2>1, SameStep, SameClient
<1>7. QED
    BY <1>1, <1>2, <1>3, <1>4, <1>5, <1>6 DEF Next

(* Control, homes, clients and live refresh tokens, in every state that    *)
(* commands, failures, killed processes and time can lead to.              *)
THEOREM TokenInvariant == Spec => []TokenInv
    BY TokenInit, TokenStep, PTL DEF Spec

(* Every variable keeps its type; no command gets two tokens, so the bound *)
(* on commands bounds the tokens (client.go:708-795).                      *)
THEOREM TokenTypeCorrect == Spec => []TypeOK
<1>1. TokenInv => TypeOK
    BY DEF TokenInv, ControlInv
<1>2. QED
    BY <1>1, TokenInvariant, PTL

(* What Logout has deleted does not come back to the keyring, unless a     *)
(* process had the login in use then (client.go:234-247): for any number   *)
(* of processes, threads, commands and failures.                           *)
THEOREM LogoutForgetsAlways == Spec => []LogoutForgets
<1>1. ASSUME TokenInv PROVE LogoutForgets
  <2> SUFFICES ASSUME NEW id \in Ids, keyring[id] # None, keyring[id].token.grant \in forgotten
               PROVE  FALSE
    BY DEF LogoutForgets
  <2>1. keyring[id].token \in Tokens
    BY <1>1, Values DEF TokenInv, ControlInv, TypeOK
  <2>2. Located(keyring[id].token, id)
    BY DEF Located, InKeyring
  <2>3. QED
    BY <1>1, <2>1, <2>2 DEF TokenInv, ForgottenInv
<1>2. QED
    BY <1>1, TokenInvariant, PTL

(* No thread presents a refresh token that another had replaced, as long   *)
(* as a lock keeps the users of its record apart (client.go:718-758).      *)
THEOREM NoStaleRefreshAlways == Spec => []NoStaleRefresh
<1>1. TokenInv => NoStaleRefresh
    BY DEF TokenInv, LiveInv, ThreadLive, NoStaleRefresh
<1>2. QED
    BY <1>1, TokenInvariant, PTL

(* A cached login is of the client ID it is cached for, unless a           *)
(* publication without any login stored it, and can be renewed whenever    *)
(* nobody is renewing it: what a refresh brought was stored                *)
(* (client.go:718-758).                                                    *)
THEOREM RecordUsableAlways == Spec => []RecordUsable
<1>1. TokenInv => RecordUsable
    BY DEF TokenInv, LiveInv, RecordLive, Renews, ClientInv, RecordClient, RecordUsable
<1>2. QED
    BY <1>1, TokenInvariant, PTL
=============================================================================
