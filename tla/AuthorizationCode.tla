-------------------------- MODULE AuthorizationCode --------------------------
(***************************************************************************)
(* The interactive authorization of the client                             *)
(* (src/internal/httpclient/client.go): authorizationCodeTokenSource.Token *)
(* lets one of its concurrent callers authorize and the others wait, and   *)
(* runAuthorizationCode opens a loopback server, shows the user a link and *)
(* waits for the callback, the timeout, the end of its context or the end  *)
(* of the server.                                                          *)
(*                                                                         *)
(* An authorization is a number: it is the state parameter and the         *)
(* verifier of that authorization as well.                                 *)
(***************************************************************************)
EXTENDS Naturals, FiniteSets

CONSTANTS
    Callers,     \* goroutines that call Token
    MaxCalls,    \* bound: calls of Token, and so of authorizations
    MaxPages     \* bound: callbacks sent by the browser

ASSUME AuthorizationAssumption == MaxCalls \in Nat /\ MaxPages \in Nat

Flights == 1..MaxCalls
NoFlight == 0

VARIABLES
    (* authorizationCodeTokenSource *)
    mutex,        \* callers in mu
    refresh,      \* refresh is set
    started,      \* authorizations started
    authorizing,  \* the authorization callers join, or NoFlight
    outcome,      \* token and err of the authorizationResults
    done,         \* the authorizationResults whose channel is closed
    (* one call of Token *)
    pc,
    flight,       \* the authorization a caller runs or waits for
    reply,
    (* runAuthorizationCode *)
    server,       \* authorizations whose loopback server is up
    prompts,      \* authorizations whose link was shown
    callback,     \* what is in the callback channel: whose code, or an error
    accepted,     \* callbackOnce is used
    (* outside *)
    cancelled,    \* the context of the source
    pages,        \* per authorization, browser pages that said "complete"
    exchanged,    \* <<authorization, whose code it exchanged>>
    calls, callbacks

source == <<mutex, refresh, started, authorizing, outcome, done>>
transaction == <<server, prompts, callback, accepted>>
bounds == <<calls, callbacks>>
vars == <<source, pc, flight, reply, transaction, cancelled, pages, exchanged,
          bounds>>

Steps == {"idle", "enter", "refresh", "join", "wait", "listen", "select",
          "exchange", "shutdown", "publish"}

Nothing == [kind |-> "nothing"]
Failure == [kind |-> "error"]
Codes == [kind : {"code"}, of : Flights]

TypeOK ==
    /\ mutex \subseteq Callers /\ refresh \in BOOLEAN
    /\ started \in 0..MaxCalls /\ authorizing \in Flights \cup {NoFlight}
    /\ outcome \in [Flights -> {"none", "token", "error"}]
    /\ done \subseteq Flights
    /\ pc \in [Callers -> Steps]
    /\ flight \in [Callers -> Flights \cup {NoFlight}]
    /\ reply \in [Callers -> {"none", "token", "error"}]
    /\ server \subseteq Flights /\ prompts \subseteq Flights
    /\ callback \in [Flights -> Codes \cup {Nothing, Failure}]
    /\ accepted \subseteq Flights
    /\ cancelled \in BOOLEAN
    /\ pages \in [Flights -> Nat]
    /\ exchanged \subseteq Flights \X Flights
    /\ calls \in 0..MaxCalls /\ callbacks \in 0..MaxPages

Init ==
    /\ mutex = {} /\ refresh = FALSE /\ started = 0 /\ authorizing = NoFlight
    /\ outcome = [n \in Flights |-> "none"] /\ done = {}
    /\ pc = [t \in Callers |-> "idle"]
    /\ flight = [t \in Callers |-> NoFlight]
    /\ reply = [t \in Callers |-> "none"]
    /\ server = {} /\ prompts = {}
    /\ callback = [n \in Flights |-> Nothing] /\ accepted = {}
    /\ cancelled = FALSE
    /\ pages = [n \in Flights |-> 0] /\ exchanged = {}
    /\ calls = 0 /\ callbacks = 0

-----------------------------------------------------------------------------
Go(t, from, to) == pc[t] = from /\ pc' = [pc EXCEPT ![t] = to]

Return(t, from, answer) ==
    /\ Go(t, from, "idle")
    /\ reply' = [reply EXCEPT ![t] = answer]
    /\ flight' = [flight EXCEPT ![t] = NoFlight]

Call(t) ==
    /\ calls < MaxCalls
    /\ Go(t, "idle", "enter")
    /\ calls' = calls + 1
    /\ reply' = [reply EXCEPT ![t] = "none"]
    /\ UNCHANGED <<source, flight, transaction, cancelled, pages, exchanged,
                   callbacks>>

outside == <<transaction, cancelled, pages, exchanged, bounds>>

Enter(t) ==
    /\ mutex = {}
    /\ mutex' = {t}
    /\ Go(t, "enter", IF refresh THEN "refresh" ELSE "join")
    /\ UNCHANGED <<refresh, started, authorizing, outcome, done, flight, reply,
                   outside>>

(* The mutex is kept during the call to the authorization server.          *)
RefreshToken(t) ==
    \/ /\ Return(t, "refresh", "token")
       /\ mutex' = {}
       /\ UNCHANGED <<refresh, started, authorizing, outcome, done, outside>>
    \/ /\ Go(t, "refresh", "join")
       /\ refresh' = FALSE
       /\ UNCHANGED <<mutex, started, authorizing, outcome, done, flight, reply,
                      outside>>

(* Mutant: every caller authorizes.                                        *)
NothingToJoin == TRUE

NoneAuthorizing == authorizing = NoFlight

Join(t) ==
    /\ IF NoneAuthorizing
       THEN /\ Go(t, "join", "listen")
            /\ started < MaxCalls
            /\ started' = started + 1
            /\ authorizing' = started + 1
            /\ flight' = [flight EXCEPT ![t] = started + 1]
       ELSE /\ Go(t, "join", "wait")
            /\ flight' = [flight EXCEPT ![t] = authorizing]
            /\ UNCHANGED <<started, authorizing>>
    /\ mutex' = {}
    /\ UNCHANGED <<refresh, outcome, done, reply, outside>>

Wait(t) ==
    /\ \/ flight[t] \in done /\ Return(t, "wait", outcome[flight[t]])
       \/ cancelled /\ Return(t, "wait", "error")
    /\ UNCHANGED <<source, outside>>

-----------------------------------------------------------------------------
(* runAuthorizationCode.  Its result is kept in outcome until it is        *)
(* published.                                                              *)

Ends(t, from, to, answer) ==
    /\ Go(t, from, to)
    /\ outcome' = [outcome EXCEPT ![flight[t]] = answer]
    /\ UNCHANGED <<mutex, refresh, started, authorizing, done, flight, reply>>

ListenFails(t) ==
    /\ Ends(t, "listen", "publish", "error")
    /\ UNCHANGED outside

Listen(t) ==
    /\ Go(t, "listen", "select")
    /\ server' = server \cup {flight[t]}
    /\ prompts' = prompts \cup {flight[t]}
    /\ UNCHANGED <<source, flight, reply, callback, accepted, cancelled, pages,
                   exchanged, bounds>>

(* Mutant: the state parameter is not compared.                            *)
AnyState(n, m) == TRUE

StateMatches(n, m) == n = m

(* Mutant: no callbackOnce; a full channel drops the result.               *)
Always(n) == TRUE

FirstCallback(n) == n \notin accepted

(* The page that the user reached from link m sends its callback to the    *)
(* server of n, perhaps one that got the port of an earlier server; it     *)
(* brings a code or the error of the authorization server.                 *)
Callback(n, m) ==
    /\ n \in server /\ m \in prompts /\ callbacks < MaxPages
    /\ callbacks' = callbacks + 1
    /\ IF StateMatches(n, m) /\ FirstCallback(n)
       THEN /\ accepted' = accepted \cup {n}
            /\ \/ /\ callback' = [callback EXCEPT ![n] = [kind |-> "code", of |-> m]]
                  /\ pages' = [pages EXCEPT ![n] = @ + 1]
               \/ /\ callback' = [callback EXCEPT ![n] = Failure]
                  /\ UNCHANGED pages
       ELSE UNCHANGED <<callback, accepted, pages>>
    /\ UNCHANGED <<source, pc, flight, reply, server, prompts, cancelled,
                   exchanged, calls>>

ReceiveCallback(t) ==
    LET n == flight[t] IN
    /\ pc[t] = "select" /\ callback[n] # Nothing
    /\ callback' = [callback EXCEPT ![n] = Nothing]
    /\ IF callback[n] = Failure
       THEN /\ Ends(t, "select", "shutdown", "error")
            /\ UNCHANGED exchanged
       ELSE /\ Go(t, "select", "exchange")
            /\ exchanged' = exchanged \cup {<<n, callback[n].of>>}
            /\ UNCHANGED <<source, flight, reply>>
    /\ UNCHANGED <<server, prompts, accepted, cancelled, pages, bounds>>

ExchangeResults == {"token", "error"}

Exchange(t) ==
    /\ \E answer \in ExchangeResults :
        /\ answer = "token" => ~ cancelled
        /\ Ends(t, "exchange", "shutdown", answer)
    /\ UNCHANGED outside

(* The context, five minutes without a callback, or the server's end.      *)
StopWaiting(t) ==
    /\ Ends(t, "select", "shutdown", "error")
    /\ UNCHANGED outside

(* Mutant: only the listener of a successful authorization is closed.      *)
ClosedOnSuccess(n) == IF outcome[n] = "token" THEN server \ {n} ELSE server

Closed(n) == server \ {n}

(* The deferred Shutdown, which waits at most a second for handlers.       *)
Shutdown(t) ==
    /\ Go(t, "shutdown", "publish")
    /\ server' = Closed(flight[t])
    /\ UNCHANGED <<source, flight, reply, prompts, callback, accepted,
                   cancelled, pages, exchanged, bounds>>

(* Mutants: the channel is not closed; the finished authorization stays.   *)
NotClosed(n) == done
StaysJoinable == authorizing

ClosedDone(n) == done \cup {n}
NotAuthorizing == NoFlight

Publish(t) ==
    /\ mutex = {}
    /\ Return(t, "publish", outcome[flight[t]])
    /\ refresh' = (refresh \/ outcome[flight[t]] = "token")
    /\ authorizing' = NotAuthorizing
    /\ done' = ClosedDone(flight[t])
    /\ UNCHANGED <<mutex, started, outcome, outside>>

Cancel ==
    /\ ~ cancelled /\ cancelled' = TRUE
    /\ UNCHANGED <<source, pc, flight, reply, transaction, pages, exchanged,
                   bounds>>

Step(t) ==
    \/ Enter(t) \/ RefreshToken(t) \/ Join(t) \/ Wait(t)
    \/ ListenFails(t) \/ Listen(t) \/ ReceiveCallback(t) \/ Exchange(t)
    \/ StopWaiting(t) \/ Shutdown(t) \/ Publish(t)

Next ==
    \/ \E t \in Callers : Call(t) \/ Step(t)
    \/ \E n, m \in Flights : Callback(n, m)
    \/ Cancel

Spec == Init /\ [][Next]_vars

(* Goroutines go on, calls to the authorization server end, and the user   *)
(* answers or the five minutes pass.                                       *)
FairSpec == Spec /\ \A t \in Callers : WF_vars(Step(t))

-----------------------------------------------------------------------------
Authorizes(t) ==
    pc[t] \in {"listen", "select", "exchange", "shutdown", "publish"}

(* The user is never asked twice at the same time, although mu is free     *)
(* while the user is asked (client.go:848-861).                            *)
OnePromptAtATime ==
    \A t, u \in Callers : Authorizes(t) /\ Authorizes(u) => t = u

(* A code is exchanged by the authorization whose link produced it: a page *)
(* left over from an earlier one is refused (client.go:926-929).           *)
ExchangesOwnCode == \A x \in exchanged : x[1] = x[2]

(* At most one page is told that the authentication is complete.           *)
OneCompletePage == \A n \in Flights : pages[n] <= 1

(* A loopback server is up only while its authorization runs.              *)
ServerBelongsToCall ==
    \A n \in server : \E t \in Callers : Authorizes(t) /\ flight[t] = n

(* Nobody waits for an authorization that had ended before the call.       *)
JoinsRunningOne ==
    [][\A t \in Callers :
        pc[t] = "join" /\ pc'[t] = "wait" => flight'[t] \notin done]_vars

(* Every call of Token returns, whatever the user does.                    *)
EveryTokenReturns == \A t \in Callers : pc[t] = "enter" ~> pc[t] = "idle"

=============================================================================
