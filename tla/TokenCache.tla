----------------------------- MODULE TokenCache -----------------------------
(***************************************************************************)
(* The delegated tokens of the command line client                         *)
(* (src/internal/httpclient/client.go): Login, Logout, and the token       *)
(* sources of requests, over one keyring that all processes of a user      *)
(* share (src/internal/oauthcache/store.go).                               *)
(*                                                                         *)
(* A thread is a goroutine that runs one command of its client; a client   *)
(* is a process.  The actions are the calls that reach the keyring, the    *)
(* authorization server or the user, and the locks around them.  An        *)
(* authorization, with its browser and callback, is one action here;       *)
(* AuthorizationCode models it.                                            *)
(***************************************************************************)
EXTENDS Naturals, FiniteSets

CONSTANTS
    Threads,      \* goroutines that run commands
    Clients,      \* processes of the client on one keyring
    ClientOf,     \* the process of a goroutine
    Scopes,       \* what the protected resource advertises
    PublishScope, \* auth.ScopePublish
    Publisher,    \* publisherID
    Admin,        \* adminID; the same with PKGDEPOT_OAUTH_CLIENT_ID
    StatesScope,  \* the server repeats the scopes in its token responses
    None,
    MaxCommands,  \* bound: commands run; each gets at most one new token
    MaxFaults     \* bound: failing calls and killed processes

Ids == {Publisher, Admin}

(* An access token, its refresh token, the authorization they stem from,   *)
(* the client ID it was made under and what it allows.                     *)
Numbers == 1..MaxCommands
Tokens == [number : Numbers, refresh : Numbers, grant : Numbers,
           client : Ids, scopes : SUBSET Scopes]
Records == [token : Tokens, scopes : SUBSET Scopes]

Requests == [kind : {"request"}, scope : Scopes]
Logins == [kind : {"login"}, access : {"", "publisher", "admin"},
           scopes : SUBSET Scopes]
Commands == Requests \cup Logins \cup {[kind |-> "logout"]}

(* cachedTokenSource; persistingTokenSource with what the two              *)
(* ReuseTokenSources around and under it hold.                             *)
CachedSources == [kind : {"cached"}, id : Ids, scopes : SUBSET Scopes]
InteractiveSources ==
    [kind : {"interactive"}, id : Ids, saveAs : Ids,
     reused : Tokens \cup {None}, inner : Tokens \cup {None}]

Results == [token : Tokens, stated : BOOLEAN]

ASSUME TokenCacheAssumption ==
    /\ ClientOf \in [Threads -> Clients]
    /\ PublishScope \in Scopes
    /\ StatesScope \in BOOLEAN
    /\ MaxCommands \in Nat /\ MaxFaults \in Nat
    /\ None \notin Tokens \cup Records \cup Commands \cup CachedSources
                   \cup InteractiveSources \cup Results

VARIABLES
    keyring,    \* the record under the cache key of a client ID
    issued,     \* tokens issued so far
    ending,     \* access tokens that expire within 30 seconds
    expired,    \* access tokens that expired, or do within 10 seconds
    live,       \* refresh tokens the server accepts
    discovery,  \* discoverOnce and discoverErr of a client
    sources,    \* tokenSources of a client
    clientLock, \* threads in mu
    keyLock,    \* threads in their key's cachedTokenLocks, or in the mutex
                \* of their ReuseTokenSource
    pc, job,
    record,     \* the token it wants to renew
    result,     \* the token it got: [token, stated]
    reply,
    leaving,    \* auxiliary: grants cached, and not in use, when its logout began
    forgotten,  \* auxiliary: grants logged out that no process remembers
    unguarded,  \* auxiliary: client IDs whose record was used by two sources
                \* that no lock keeps apart
    misfiled,   \* auxiliary: grants of tokens stored for another client ID than
                \* the one they were authorized for
    commands, faults

server == <<issued, ending, expired, live>>
locks == <<clientLock, keyLock>>
local == <<job, record, result, leaving>>
process == <<discovery, sources, unguarded, misfiled>>
vars == <<keyring, server, process, locks, pc, local, reply, forgotten,
          commands, faults>>

Steps == {"idle", "discover", "source", "readOwn", "readAdmin", "lock",
          "read", "refresh", "authorize", "save", "delete", "deleteAdmin"}

Replies == {"none", "ok", "usage", "discovery", "keyring", "scope",
            "notfound", "denied"}

TypeOK ==
    /\ keyring \in [Ids -> Records \cup {None}]
    /\ issued \in 0..MaxCommands
    /\ ending \subseteq Numbers /\ expired \subseteq Numbers
    /\ live \subseteq Numbers
    /\ discovery \in [Clients -> {"none", "ok", "failed"}]
    /\ sources \in [Clients -> [Scopes -> CachedSources \cup InteractiveSources
                                          \cup {None}]]
    /\ clientLock \subseteq Threads /\ keyLock \subseteq Threads
    /\ pc \in [Threads -> Steps]
    /\ job \in [Threads -> Commands \cup {None}]
    /\ record \in [Threads -> Tokens \cup {None}]
    /\ result \in [Threads -> Results \cup {None}]
    /\ reply \in [Threads -> Replies]
    /\ leaving \in [Threads -> SUBSET Numbers]
    /\ forgotten \subseteq Numbers /\ unguarded \subseteq Ids
    /\ misfiled \subseteq Numbers
    /\ commands \in 0..MaxCommands /\ faults \in 0..MaxFaults

Init ==
    /\ keyring = [i \in Ids |-> None]
    /\ issued = 0 /\ ending = {} /\ expired = {} /\ live = {}
    /\ discovery = [c \in Clients |-> "none"]
    /\ sources = [c \in Clients |-> [s \in Scopes |-> None]]
    /\ clientLock = {} /\ keyLock = {}
    /\ pc = [t \in Threads |-> "idle"]
    /\ job = [t \in Threads |-> None]
    /\ record = [t \in Threads |-> None]
    /\ result = [t \in Threads |-> None]
    /\ reply = [t \in Threads |-> "none"]
    /\ leaving = [t \in Threads |-> {}]
    /\ forgotten = {} /\ unguarded = {} /\ misfiled = {}
    /\ commands = 0 /\ faults = 0

-----------------------------------------------------------------------------
Peers(t) == {u \in Threads \ {t} : ClientOf[u] = ClientOf[t]}

Requesting(t) == job[t] \in Requests
Source(t) == sources[ClientOf[t]][job[t].scope]
Cached(t) == Requesting(t) /\ Source(t).kind = "cached"

At(t, step) == pc[t] = step
Goto(t, step) == pc' = [pc EXCEPT ![t] = step]
Fault == faults < MaxFaults /\ faults' = faults + 1
NoFault == UNCHANGED faults

(* Mutant: mu is not given back by a call that returns an error.           *)
KeptLocked(t) == clientLock

Unlocked(t) == clientLock \ {t}

(* A command returns: the deferred unlocks run.                            *)
Return(t, answer) ==
    /\ Goto(t, "idle")
    /\ reply' = [reply EXCEPT ![t] = answer]
    /\ job' = [job EXCEPT ![t] = None]
    /\ record' = [record EXCEPT ![t] = None]
    /\ result' = [result EXCEPT ![t] = None]
    /\ clientLock' = Unlocked(t)
    /\ keyLock' = keyLock \ {t}
    /\ leaving' = [leaving EXCEPT ![t] = {}]

SetSource(t, source) ==
    sources' = [sources EXCEPT ![ClientOf[t]][job[t].scope] = source]

-----------------------------------------------------------------------------
(* Commands and processes.                                                 *)

SelectAccess(access, scopes) ==
    IF access # "" THEN access
    ELSE IF scopes \subseteq {PublishScope} THEN "publisher" ELSE "admin"

LoginScopes(access, scopes) ==
    IF scopes # {} THEN scopes
    ELSE IF access = "publisher" THEN {PublishScope} ELSE Scopes

ValidLogin(login) ==
    login.access = "publisher" => login.scopes \subseteq {PublishScope}

ClientIDForAccess(access) == IF access = "admin" THEN Admin ELSE Publisher

OwnId(t) == ClientIDForAccess(IF job[t].scope = PublishScope THEN "publisher"
                                                             ELSE "admin")

(* A process logs in, logs out, or makes requests.                         *)
Start(t) ==
    /\ At(t, "idle") /\ commands < MaxCommands
    /\ commands' = commands + 1
    /\ \E command \in Commands :
        /\ \/ command \in Requests /\ \A u \in Peers(t) : job[u] \in Requests \cup {None}
           \/ \A u \in Peers(t) : job[u] = None
        /\ IF command \in Logins /\ ~ ValidLogin(command)
           THEN /\ reply' = [reply EXCEPT ![t] = "usage"]
                /\ UNCHANGED <<job, pc>>
           ELSE /\ job' = [job EXCEPT ![t] = command]
                /\ reply' = [reply EXCEPT ![t] = "none"]
                /\ Goto(t, "discover")
    /\ UNCHANGED <<keyring, server, process, locks, record, result, leaving,
                   forgotten, faults>>

(* Once.Do: one caller discovers, its error is every later caller's.       *)
Discover(t) ==
    /\ At(t, "discover")
    /\ LET c == ClientOf[t] IN
       /\ \/ discovery[c] # "none" /\ UNCHANGED discovery /\ NoFault
          \/ /\ discovery[c] = "none" /\ NoFault
             /\ discovery' = [discovery EXCEPT ![c] = "ok"]
          \/ /\ discovery[c] = "none" /\ Fault
             /\ discovery' = [discovery EXCEPT ![c] = "failed"]
       /\ IF discovery'[c] = "failed"
          THEN Return(t, "discovery")
          ELSE /\ Goto(t, CASE Requesting(t) -> "source"
                            [] job[t] \in Logins -> "authorize"
                            [] OTHER -> "delete")
               /\ UNCHANGED <<locks, local, reply>>
    /\ UNCHANGED <<keyring, server, sources, unguarded, misfiled, forgotten, commands>>

(* The process ends and another takes its place; one that is killed is a   *)
(* fault.                                                                  *)
Exit(c) ==
    LET mine == {t \in Threads : ClientOf[t] = c} IN
    /\ discovery[c] # "none"
    /\ IF \A t \in mine : At(t, "idle") THEN NoFault ELSE Fault
    /\ discovery' = [discovery EXCEPT ![c] = "none"]
    /\ sources' = [sources EXCEPT ![c] = [s \in Scopes |-> None]]
    /\ clientLock' = clientLock \ mine
    /\ keyLock' = keyLock \ mine
    /\ pc' = [t \in Threads |-> IF t \in mine THEN "idle" ELSE pc[t]]
    /\ job' = [t \in Threads |-> IF t \in mine THEN None ELSE job[t]]
    /\ record' = [t \in Threads |-> IF t \in mine THEN None ELSE record[t]]
    /\ result' = [t \in Threads |-> IF t \in mine THEN None ELSE result[t]]
    /\ leaving' = [t \in Threads |-> IF t \in mine THEN {} ELSE leaving[t]]
    /\ reply' = [t \in Threads |-> IF t \in mine THEN "none" ELSE reply[t]]
    /\ UNCHANGED <<keyring, server, forgotten, unguarded, misfiled, commands>>

-----------------------------------------------------------------------------
(* tokenSource, under mu.                                                  *)

FindSource(t) ==
    /\ At(t, "source") /\ clientLock \cap Peers(t) = {}
    /\ IF Source(t) # None
       THEN Goto(t, "lock") /\ UNCHANGED clientLock
       ELSE Goto(t, "readOwn") /\ clientLock' = clientLock \cup {t}
    /\ UNCHANGED <<keyring, server, process, keyLock, local, reply, forgotten,
                   commands, faults>>

RecordOf(source) == IF source.kind = "cached" THEN source.id ELSE source.saveAs

(* Cached sources of one record share a mutex if they are in one process;  *)
(* interactive sources keep tokens of their own.                           *)
Guarded(c, source, d, other) ==
    \/ other = None \/ RecordOf(other) # RecordOf(source)
    \/ source.kind = "interactive" /\ other.kind = "interactive"
    \/ source.kind = "cached" /\ other.kind = "cached" /\ c = d

UseSource(t, source) ==
    /\ SetSource(t, source)
    /\ unguarded' =
        IF \A d \in Clients, s \in Scopes : Guarded(ClientOf[t], source, d, sources[d][s])
        THEN unguarded ELSE unguarded \cup {RecordOf(source)}
    /\ Goto(t, "lock")
    /\ clientLock' = clientLock \ {t}
    /\ UNCHANGED <<keyLock, local, reply>>

UseRecord(t, id) ==
    IF job[t].scope \in keyring[id].scopes
    THEN UseSource(t, [kind |-> "cached", id |-> id,
                       scopes |-> keyring[id].scopes])
    ELSE Return(t, "scope") /\ UNCHANGED <<sources, unguarded>>

(* The configuration keeps its first client ID, clientID does not.         *)
UseAuthorization(t, saveAs) ==
    UseSource(t, [kind |-> "interactive", id |-> OwnId(t), saveAs |-> saveAs,
                  reused |-> None, inner |-> None])

ReadFails(t) ==
    /\ pc[t] \in {"readOwn", "readAdmin", "read"}
    /\ Fault
    /\ Return(t, "keyring")
    /\ UNCHANGED <<keyring, server, process, forgotten, commands>>

ReadOwn(t) ==
    /\ At(t, "readOwn")
    /\ IF keyring[OwnId(t)] # None THEN UseRecord(t, OwnId(t))
       ELSE IF OwnId(t) = Publisher /\ Admin # Publisher
       THEN Goto(t, "readAdmin")
            /\ UNCHANGED <<sources, unguarded, locks, local, reply>>
       ELSE UseAuthorization(t, OwnId(t))
    /\ UNCHANGED <<keyring, server, discovery, misfiled, forgotten, commands,
                   faults>>

ReadAdmin(t) ==
    /\ At(t, "readAdmin")
    /\ IF keyring[Admin] # None THEN UseRecord(t, Admin)
       ELSE UseAuthorization(t, Admin)
    /\ UNCHANGED <<keyring, server, discovery, misfiled, forgotten, commands,
                   faults>>

-----------------------------------------------------------------------------
(* Token of a source: the cached one reads the keyring under the lock of   *)
(* its key, the interactive one is used under its ReuseTokenSource.        *)

(* Mutant: a lock for each call instead of one for each key.               *)
NoContention(t, u) == FALSE

Contends(t, u) ==
    IF Cached(t) THEN Cached(u) /\ Source(u).id = Source(t).id
    ELSE Requesting(u) /\ job[u].scope = job[t].scope

Lock(t) ==
    /\ At(t, "lock")
    /\ \A u \in keyLock \cap Peers(t) : ~ Contends(t, u)
    /\ keyLock' = keyLock \cup {t}
    /\ Goto(t, "read")
    /\ UNCHANGED <<keyring, server, process, clientLock, local, reply,
                   forgotten, commands, faults>>

(* A token that the caller got, with what the server said of its scopes.   *)
Got(t, token, stated) ==
    /\ result' = [result EXCEPT ![t] = [token |-> token, stated |-> stated]]
    /\ Goto(t, "save")

Fresh(token) == token.number \notin ending \cup expired

(* Between 30 and 10 seconds before the end, oauth2 does not refresh.      *)
ReadRecord(t) ==
    /\ At(t, "read") /\ Cached(t)
    /\ LET entry == keyring[Source(t).id] IN
       \/ /\ entry = None
          /\ Return(t, "notfound")
       \/ /\ entry # None /\ Fresh(entry.token)
          /\ Return(t, "ok")
       \/ /\ entry # None /\ ~ Fresh(entry.token)
          /\ record' = [record EXCEPT ![t] = entry.token]
          /\ IF entry.token.number \in expired
             THEN Goto(t, "refresh") /\ UNCHANGED result
             ELSE Got(t, entry.token, FALSE)
          /\ UNCHANGED <<job, reply, locks, leaving>>
    /\ UNCHANGED <<keyring, server, process, forgotten, commands, faults>>

(* oauth2 marks a token as ending early only once Token has returned it.   *)
InnerUsable(source) ==
    /\ source.inner.number \notin expired
    /\ source.inner = source.reused => Fresh(source.inner)

UseInner(t) ==
    /\ At(t, "read") /\ ~ Cached(t)
    /\ LET source == Source(t) IN
       \/ /\ source.reused # None /\ Fresh(source.reused)
          /\ Return(t, "ok")
       \/ /\ source.reused # None => ~ Fresh(source.reused)
          /\ record' = [record EXCEPT ![t] = source.inner]
          /\ IF source.inner = None THEN Goto(t, "authorize") /\ UNCHANGED result
             ELSE IF InnerUsable(source) THEN Got(t, source.inner, StatesScope)
             ELSE Goto(t, "refresh") /\ UNCHANGED result
          /\ UNCHANGED <<job, reply, locks, leaving>>
    /\ UNCHANGED <<keyring, server, process, forgotten, commands, faults>>

KeepInner(t, token) ==
    IF Requesting(t) /\ ~ Cached(t)
    THEN SetSource(t, [Source(t) EXCEPT !.inner = token])
    ELSE UNCHANGED sources

Issue(t, token) ==
    /\ issued' = token.number
    /\ Got(t, token, StatesScope)
    /\ KeepInner(t, token)
    /\ UNCHANGED <<ending, expired>>

(* The server takes a refresh token from the client it was issued to; it   *)
(* rotates it, or lets it live.                                            *)
Accepts(t) ==
    /\ record[t].refresh \in live
    /\ record[t].client = Source(t).id

Refresh(t) ==
    /\ At(t, "refresh")
    /\ Accepts(t)
    /\ \E refresh \in {record[t].refresh, issued + 1} :
        /\ live' = (live \ {record[t].refresh}) \cup {refresh}
        /\ Issue(t, [record[t] EXCEPT !.number = issued + 1,
                                      !.refresh = refresh])
    /\ UNCHANGED <<keyring, discovery, unguarded, misfiled, locks, job, record,
                   leaving, reply, forgotten, commands, faults>>

(* Any failure starts an authorization; the answer to a call that failed   *)
(* may have been lost.                                                     *)
RefreshFails(t) ==
    /\ At(t, "refresh")
    /\ \/ ~ Accepts(t) /\ NoFault /\ UNCHANGED live
       \/ Accepts(t) /\ Fault /\ live' \in {live, live \ {record[t].refresh}}
    /\ KeepInner(t, None)
    /\ Goto(t, "authorize")
    /\ UNCHANGED <<keyring, issued, ending, expired, discovery, unguarded,
                   misfiled, locks, local, reply, forgotten, commands>>

(* Time passes: a token comes to its last 30 seconds, then to its end.     *)
Age(number) ==
    /\ number \in (1..issued) \ expired
    /\ \/ number \notin ending /\ ending' = ending \cup {number}
          /\ UNCHANGED expired
       \/ expired' = expired \cup {number} /\ ending' = ending \ {number}
    /\ UNCHANGED <<keyring, issued, live, process, locks, pc, local, reply,
                   forgotten, commands, faults>>

-----------------------------------------------------------------------------
(* An authorization by the user, and the keyring's answer to its token.    *)

Requested(t) ==
    IF Requesting(t) THEN {job[t].scope}
    ELSE LoginScopes(SelectAccess(job[t].access, job[t].scopes), job[t].scopes)

AuthorizesAs(t) ==
    IF Requesting(t) THEN Source(t).id
    ELSE ClientIDForAccess(SelectAccess(job[t].access, job[t].scopes))

Authorize(t) ==
    /\ At(t, "authorize")
    /\ \E scopes \in IF StatesScope THEN SUBSET Requested(t) \ {{}}
                                    ELSE {Requested(t)} :
        Issue(t, [number |-> issued + 1, refresh |-> issued + 1,
                  grant |-> issued + 1, client |-> AuthorizesAs(t),
                  scopes |-> scopes])
    /\ live' = live \cup {issued + 1}
    /\ UNCHANGED <<keyring, discovery, unguarded, misfiled, locks, job, record,
                   leaving, reply, forgotten, commands, faults>>

AuthorizeFails(t) ==
    /\ At(t, "authorize") /\ Fault
    /\ Return(t, "denied")
    /\ UNCHANGED <<keyring, server, process, forgotten, commands>>

(* Mutant: a cached source stores for the client ID that the caller began  *)
(* with, and not for the one whose record it found.                        *)
SaveAsCaller(t) == IF ~ Requesting(t) THEN AuthorizesAs(t)
                   ELSE IF Cached(t) THEN OwnId(t) ELSE Source(t).saveAs

SaveAs(t) == IF Requesting(t) /\ ~ Cached(t) THEN Source(t).saveAs
             ELSE AuthorizesAs(t)

(* What a token is taken to allow when the response did not say.           *)
Assumed(t) == IF Cached(t) THEN Source(t).scopes ELSE Requested(t)

(* Mutant: a missing scope field split at spaces, which is one empty name.  *)
StatedScopes(t) == IF result[t].stated THEN result[t].token.scopes ELSE {""}

GrantedScopes(t) == IF result[t].stated THEN result[t].token.scopes
                                        ELSE Assumed(t)

Put(t) ==
    [keyring EXCEPT ![SaveAs(t)] = [token |-> result[t].token,
                                    scopes |-> GrantedScopes(t)]]

(* The source of a publication that found no record at all presents its    *)
(* token as the publisher and stores it as the administrator.              *)
Misfiles(t) == Requesting(t) /\ ~ Cached(t) /\ Source(t).id # Source(t).saveAs

Save(t) ==
    /\ At(t, "save")
    /\ keyring' = Put(t)
    /\ misfiled' = IF Misfiles(t) THEN misfiled \cup {result[t].token.grant}
                                  ELSE misfiled
    /\ IF Requesting(t) /\ ~ Cached(t)
       THEN SetSource(t, [Source(t) EXCEPT !.reused = result[t].token])
       ELSE UNCHANGED sources
    /\ Return(t, "ok")
    /\ UNCHANGED <<server, discovery, unguarded, forgotten, commands, faults>>

SaveFails(t) ==
    /\ At(t, "save") /\ Fault
    /\ Return(t, "keyring")
    /\ UNCHANGED <<keyring, server, process, forgotten, commands>>

-----------------------------------------------------------------------------
(* Logout deletes the record of each client ID.                            *)

GrantsOf(tokens) == {token.grant : token \in tokens \ {None}}

CachedTokens == {keyring[id].token : id \in {i \in Ids : keyring[i] # None}}

(* What the processes hold: tokens they renew, got, or keep in a source.   *)
SourceTokens(source) ==
    IF source \in InteractiveSources THEN {source.inner, source.reused} ELSE {}

HeldTokens ==
    {record[t] : t \in Threads}
    \cup {result[t].token : t \in {u \in Threads : result[u] # None}}
    \cup UNION {SourceTokens(sources[c][s]) : c \in Clients, s \in Scopes}

(* Mutant: only the publisher's record is deleted.                         *)
OneID == {Publisher}

ClientIDs == {Publisher, Admin}

Delete(t) ==
    \/ /\ At(t, "delete")
       /\ leaving' = [leaving EXCEPT ![t] =
                        GrantsOf(CachedTokens) \ GrantsOf(HeldTokens)]
       /\ keyring' = [keyring EXCEPT ![Publisher] = None]
       /\ Goto(t, "deleteAdmin")
       /\ UNCHANGED <<job, record, result, locks, reply, forgotten>>
    \/ /\ At(t, "deleteAdmin")
       /\ keyring' = IF Admin \in ClientIDs THEN [keyring EXCEPT ![Admin] = None]
                                            ELSE keyring
       /\ forgotten' = forgotten \cup (leaving[t] \ GrantsOf(HeldTokens))
       /\ Return(t, "ok")

Logout(t) ==
    /\ Delete(t)
    /\ UNCHANGED <<server, process, commands, faults>>

LogoutFails(t) ==
    /\ pc[t] \in {"delete", "deleteAdmin"} /\ Fault
    /\ Return(t, "keyring")
    /\ UNCHANGED <<keyring, server, process, forgotten, commands>>

-----------------------------------------------------------------------------
Step(t) ==
    \/ Discover(t) \/ FindSource(t) \/ ReadOwn(t) \/ ReadAdmin(t)
    \/ ReadFails(t) \/ Lock(t) \/ ReadRecord(t) \/ UseInner(t)
    \/ Refresh(t) \/ RefreshFails(t) \/ Authorize(t) \/ AuthorizeFails(t)
    \/ Save(t) \/ SaveFails(t) \/ Logout(t) \/ LogoutFails(t)

Next ==
    \/ \E t \in Threads : Start(t) \/ Step(t)
    \/ \E c \in Clients : Exit(c)
    \/ \E n \in Numbers : Age(n)

Spec == Init /\ [][Next]_vars

(* A goroutine that can go on goes on, a user answers or lets it time out. *)
FairSpec == Spec /\ \A t \in Threads : WF_vars(Step(t))

-----------------------------------------------------------------------------
(* A login that was cached when a logout began never comes back to the     *)
(* keyring, unless a process had its token in use when the logout began or *)
(* when it ended (client.go:234-247).                                      *)
LogoutForgets ==
    \A id \in Ids :
        keyring[id] # None => keyring[id].token.grant \notin forgotten

(* Nobody presents a refresh token that another goroutine or process has   *)
(* had replaced, unless the record was used by sources that no lock keeps  *)
(* apart (client.go:718-730): those of two processes, or a cached and an   *)
(* interactive one, which saves without cachedTokenLocks (749-758).        *)
NoStaleRefresh ==
    faults = 0 =>
        \A t \in Threads :
            At(t, "refresh") /\ SaveAs(t) \notin unguarded =>
                record[t].refresh \in live

WorksOn(t, id) ==
    /\ pc[t] \in {"refresh", "authorize", "save"}
    /\ SaveAs(t) = id

(* A cached login is one that the server accepts from the client that will *)
(* present it.  It was issued to the client ID it is cached for, unless a  *)
(* publication that found no login stored its own token for the            *)
(* administrator (the finding of CachedForItsClient), and whenever nobody  *)
(* is renewing it, its refresh token has not been replaced: the one that   *)
(* replaced it was stored (client.go:718-743), with the exception above.   *)
RecordUsable ==
    \A id \in Ids :
        keyring[id] # None =>
            /\ keyring[id].token.client = id \/ keyring[id].token.grant \in misfiled
            /\ faults = 0 /\ id \notin unguarded =>
                   \/ keyring[id].token.refresh \in live
                   \/ \E t \in Threads : WorksOn(t, id)

(* A cached token was issued to the client it is cached for, which is the  *)
(* one that will present its refresh token (client.go:730-743).            *)
CachedForItsClient ==
    \A id \in Ids : keyring[id] # None => keyring[id].token.client = id

(* The scopes cached with a token are scopes it has (client_test.go:771).  *)
CachesGrantedScopes ==
    \A id \in Ids :
        keyring[id] # None => keyring[id].scopes \subseteq keyring[id].token.scopes

(* Every command comes back: nobody keeps a lock that another waits for.   *)
EveryCommandReturns ==
    \A t \in Threads : At(t, "discover") ~> At(t, "idle")

=============================================================================
