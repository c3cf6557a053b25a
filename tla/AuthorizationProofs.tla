------------------------- MODULE AuthorizationProofs -------------------------
(***************************************************************************)
(* AuthorizationCode for any number of callers, calls and callbacks: one   *)
(* authorization at a time, which exchanges its own code and leaves no     *)
(* server behind.                                                          *)
(***************************************************************************)
EXTENDS AuthorizationCode, TLAPS

InMutex(t) == pc[t] \in {"refresh", "join"}
ServerUp(t) == pc[t] \in {"select", "exchange", "shutdown"}

(* A caller that authorizes is the one others join, so there is only one;  *)
(* whoever is about to start one owns mu.                                  *)
AuthorizingInv ==
    /\ \A t \in Callers : InMutex(t) <=> t \in mutex
    /\ \A t, u \in mutex : t = u
    /\ \A t \in Callers :
        Authorizes(t) => flight[t] = authorizing /\ authorizing # NoFlight
    /\ OnePromptAtATime

CallbackInv ==
    /\ \A n \in Flights : callback[n] \in Codes => callback[n].of = n
    /\ ExchangesOwnCode
    /\ \A n \in Flights : pages[n] = 0 \/ (pages[n] = 1 /\ n \in accepted)

ServerInv == \A n \in server : \E t \in Callers : ServerUp(t) /\ flight[t] = n

(* Authorizations are numbered as they start, and the one that callers     *)
(* join has not ended.                                                     *)
RunningInv ==
    /\ \A n \in done : n <= started
    /\ authorizing <= started
    /\ authorizing \notin done

AuthorizationInv ==
    TypeOK /\ AuthorizingInv /\ CallbackInv /\ ServerInv /\ RunningInv

LEMMA InitInv == Init => AuthorizationInv
<1> SUFFICES ASSUME Init PROVE AuthorizationInv
    OBVIOUS
<1>1. TypeOK
    <2>1. callback \in [Flights -> Codes \cup {Nothing, Failure}]
        BY DEF Init
    <2>2. QED
        <3>1. refresh \in BOOLEAN /\ cancelled \in BOOLEAN
            BY DEF Init
        <3>2. /\ started \in 0..MaxCalls /\ authorizing \in Flights \cup {NoFlight}
              /\ calls \in 0..MaxCalls /\ callbacks \in 0..MaxPages
              /\ pages \in [Flights -> Nat]
            BY AuthorizationAssumption DEF Init, NoFlight
        <3>3. /\ mutex \subseteq Callers /\ done \subseteq Flights
              /\ server \subseteq Flights /\ prompts \subseteq Flights
              /\ accepted \subseteq Flights /\ exchanged \subseteq Flights \X Flights
            BY DEF Init
        <3>4. /\ outcome \in [Flights -> {"none", "token", "error"}]
              /\ pc \in [Callers -> Steps]
              /\ flight \in [Callers -> Flights \cup {NoFlight}]
              /\ reply \in [Callers -> {"none", "token", "error"}]
            BY DEF Init, Steps
        <3>5. QED
            BY <2>1, <3>1, <3>2, <3>3, <3>4 DEF TypeOK
<1>2. AuthorizingInv
    BY DEF Init, AuthorizingInv, OnePromptAtATime, Authorizes, InMutex
<1>3. CallbackInv
    BY DEF Init, CallbackInv, ExchangesOwnCode, Nothing, Codes
<1>4. ServerInv
    BY DEF Init, ServerInv
<1>5. RunningInv
    BY DEF Init, RunningInv, NoFlight
<1>6. QED
    BY <1>1, <1>2, <1>3, <1>4, <1>5 DEF AuthorizationInv

-----------------------------------------------------------------------------
LEMMA TypeStep == TypeOK /\ AuthorizingInv /\ [Next]_vars => TypeOK'
<1> SUFFICES ASSUME TypeOK, AuthorizingInv, [Next]_vars PROVE TypeOK'
    OBVIOUS
<1>a. \A t \in Callers : Authorizes(t) => flight[t] \in Flights
    BY DEF AuthorizingInv, TypeOK, NoFlight
<1> USE AuthorizationAssumption DEF TypeOK, Flights, NoFlight, Steps
<1>1. CASE UNCHANGED vars
    BY <1>1 DEF vars, source, transaction, bounds
<1>2. ASSUME NEW t \in Callers, Call(t) PROVE TypeOK'
    BY <1>2 DEF Call, Go, source, transaction, bounds
<1>3. ASSUME NEW t \in Callers, Enter(t) PROVE TypeOK'
    BY <1>3 DEF Enter, Go, outside, source, transaction, bounds
<1>4. ASSUME NEW t \in Callers, RefreshToken(t) PROVE TypeOK'
    BY <1>4 DEF RefreshToken, Return, Go, outside, transaction, bounds
<1>5. ASSUME NEW t \in Callers, Join(t) PROVE TypeOK'
    <2>1. /\ started' \in 0..MaxCalls
          /\ authorizing' \in Flights \cup {NoFlight}
          /\ flight' \in [Callers -> Flights \cup {NoFlight}]
        BY <1>5 DEF Join, NoneAuthorizing
    <2>2. pc' \in [Callers -> Steps]
        BY <1>5 DEF Join, NoneAuthorizing, Go
    <2>3. QED
        BY <1>5, <2>1, <2>2 DEF Join, outside, transaction, bounds
<1>6. ASSUME NEW t \in Callers, Wait(t) PROVE TypeOK'
    BY <1>6 DEF Wait, Return, Go, outside, source, transaction, bounds
<1>7. ASSUME NEW t \in Callers, ListenFails(t) PROVE TypeOK'
    BY <1>7 DEF ListenFails, Ends, Go, outside, transaction, bounds
<1>8. ASSUME NEW t \in Callers, Listen(t) PROVE TypeOK'
    BY <1>8, <1>a DEF Listen, Authorizes, Go, source, bounds
<1>9. ASSUME NEW t \in Callers, ReceiveCallback(t) PROVE TypeOK'
    <2>1. /\ flight[t] \in Flights
          /\ callback' = [callback EXCEPT ![flight[t]] = Nothing]
        BY <1>9, <1>a DEF ReceiveCallback, Authorizes
    <2>2. exchanged' \subseteq Flights \X Flights
        <3>1. callback[flight[t]] # Failure => callback[flight[t]].of \in Flights
            BY <1>9, <2>1 DEF ReceiveCallback, Codes
        <3>2. QED
            BY <1>9, <2>1, <3>1 DEF ReceiveCallback
    <2>3. /\ pc' \in [Callers -> Steps]
          /\ outcome' \in [Flights -> {"none", "token", "error"}]
          /\ UNCHANGED <<mutex, refresh, started, authorizing, done, flight, reply>>
        BY <1>9 DEF ReceiveCallback, Ends, Go, source
    <2>4. UNCHANGED <<server, prompts, accepted, cancelled, pages, calls, callbacks>>
        BY <1>9 DEF ReceiveCallback, bounds
    <2>5. callback' \in [Flights -> Codes \cup {Nothing, Failure}]
        BY <2>1
    <2>6. QED
        BY <2>2, <2>3, <2>4, <2>5
<1>10. ASSUME NEW t \in Callers, Exchange(t) PROVE TypeOK'
    BY <1>10 DEF Exchange, ExchangeResults, Ends, Go, outside, transaction, bounds
<1>11. ASSUME NEW t \in Callers, StopWaiting(t) PROVE TypeOK'
    BY <1>11 DEF StopWaiting, Ends, Go, outside, transaction, bounds
<1>12. ASSUME NEW t \in Callers, Shutdown(t) PROVE TypeOK'
    BY <1>12 DEF Shutdown, Closed, Go, source, bounds
<1>13. ASSUME NEW t \in Callers, Publish(t) PROVE TypeOK'
    <2>1. refresh' \in BOOLEAN
        BY <1>13 DEF Publish
    <2>2. reply' \in [Callers -> {"none", "token", "error"}]
        BY <1>13, <1>a DEF Publish, Return, Authorizes, Go
    <2>3. /\ pc' \in [Callers -> Steps]
          /\ flight' \in [Callers -> Flights \cup {NoFlight}]
          /\ authorizing' \in Flights \cup {NoFlight}
          /\ done' \subseteq Flights
        BY <1>13, <1>a
        DEF Publish, NotAuthorizing, ClosedDone, Return, Authorizes, Go
    <2>4. QED
        BY <1>13, <2>1, <2>2, <2>3 DEF Publish, outside, transaction, bounds
<1>14. ASSUME NEW n \in Flights, NEW m \in Flights, Callback(n, m) PROVE TypeOK'
    <2>1. callback' \in [Flights -> Codes \cup {Nothing, Failure}]
        <3>1. [kind |-> "code", of |-> m] \in Codes
            BY DEF Codes
        <3>2. QED
            BY <1>14, <3>1 DEF Callback, StateMatches, FirstCallback
    <2>2. pages' \in [Flights -> Nat] /\ accepted' \subseteq Flights
        <3>1. pages' = pages \/ pages' = [pages EXCEPT ![n] = @ + 1]
            BY <1>14 DEF Callback
        <3>2. accepted' = accepted \/ accepted' = accepted \cup {n}
            BY <1>14 DEF Callback
        <3>3. pages \in [Flights -> Nat] /\ pages[n] + 1 \in Nat
            OBVIOUS
        <3>4. pages' \in [Flights -> Nat]
            BY <3>1, <3>3
        <3>5. QED
            BY <3>2, <3>4
    <2>3. /\ callbacks' \in 0..MaxPages
          /\ UNCHANGED <<source, pc, flight, reply, server, prompts, cancelled,
                         exchanged, calls>>
        BY <1>14 DEF Callback
    <2>4. QED
        BY <2>1, <2>2, <2>3 DEF source
<1>15. CASE Cancel
    BY <1>15 DEF Cancel, source, transaction, bounds
<1>16. QED
    BY <1>1, <1>2, <1>3, <1>4, <1>5, <1>6, <1>7, <1>8, <1>9, <1>10, <1>11,
       <1>12, <1>13, <1>14, <1>15
    DEF Next, Step

-----------------------------------------------------------------------------
LEMMA AuthorizingStep ==
    TypeOK /\ AuthorizingInv /\ [Next]_vars => AuthorizingInv'
<1> SUFFICES ASSUME TypeOK, AuthorizingInv, [Next]_vars PROVE AuthorizingInv'
    OBVIOUS
<1> USE DEF AuthorizingInv, OnePromptAtATime, Authorizes, InMutex
<1>a. /\ pc \in [Callers -> Steps]
      /\ flight \in [Callers -> Flights \cup {NoFlight}]
      /\ mutex \subseteq Callers
      /\ started \in Nat
    BY AuthorizationAssumption DEF TypeOK
<1>1. CASE UNCHANGED vars
    BY <1>1 DEF vars, source
<1>2. ASSUME NEW t \in Callers, Call(t) PROVE AuthorizingInv'
    BY <1>2, <1>a DEF Call, Go, source
<1>3. ASSUME NEW t \in Callers, Enter(t) PROVE AuthorizingInv'
    <2>1. /\ mutex = {} /\ mutex' = {t}
          /\ UNCHANGED <<authorizing, flight>>
          /\ pc[t] = "enter"
          /\ pc' = [pc EXCEPT ![t] = IF refresh THEN "refresh" ELSE "join"]
        BY <1>3 DEF Enter, Go
    <2>2. pc'[t] \in {"refresh", "join"} /\ \A u \in Callers \ {t} : pc'[u] = pc[u]
        BY <2>1, <1>a
    <2>3. QED
        BY <2>1, <2>2, <1>a
<1>4. ASSUME NEW t \in Callers, RefreshToken(t) PROVE AuthorizingInv'
    <2>1. CASE Return(t, "refresh", "token") /\ mutex' = {} /\ UNCHANGED authorizing
        BY <2>1, <1>a DEF Return, Go
    <2>2. CASE Go(t, "refresh", "join") /\ UNCHANGED <<mutex, authorizing, flight>>
        BY <2>2, <1>a DEF Go
    <2>3. QED
        BY <1>4, <2>1, <2>2 DEF RefreshToken
<1>5. ASSUME NEW t \in Callers, Join(t) PROVE AuthorizingInv'
    <2>1. pc[t] = "join" /\ mutex' = {}
        BY <1>5 DEF Join, Go
    <2>2. \A u \in Callers \ {t} : ~ InMutex(u)
        BY <2>1, <1>a
    <2>3. CASE authorizing = NoFlight
        <3>1. \A u \in Callers : ~ Authorizes(u)
            BY <2>3
        <3>2. /\ pc' = [pc EXCEPT ![t] = "listen"]
              /\ authorizing' = started + 1
              /\ flight' = [flight EXCEPT ![t] = started + 1]
            BY <1>5, <2>3 DEF Join, NoneAuthorizing, Go
        <3>3. started + 1 # NoFlight
            BY <1>a DEF NoFlight
        <3>4. QED
            BY <2>1, <2>2, <3>1, <3>2, <3>3, <1>a
    <2>4. CASE authorizing # NoFlight
        <3>1. /\ pc' = [pc EXCEPT ![t] = "wait"]
              /\ flight' = [flight EXCEPT ![t] = authorizing]
              /\ UNCHANGED authorizing
            BY <1>5, <2>4 DEF Join, NoneAuthorizing, Go
        <3>2. QED
            BY <2>1, <2>2, <3>1, <1>a
    <2>5. QED
        BY <2>3, <2>4
<1>6. ASSUME NEW t \in Callers, Wait(t) PROVE AuthorizingInv'
    BY <1>6, <1>a DEF Wait, Return, Go, source
<1>7. ASSUME NEW t \in Callers, ListenFails(t) PROVE AuthorizingInv'
    BY <1>7, <1>a DEF ListenFails, Ends, Go
<1>8. ASSUME NEW t \in Callers, Listen(t) PROVE AuthorizingInv'
    BY <1>8, <1>a DEF Listen, Go, source
<1>9. ASSUME NEW t \in Callers, ReceiveCallback(t) PROVE AuthorizingInv'
    <2>1. /\ pc[t] = "select" /\ UNCHANGED <<mutex, authorizing, flight>>
          /\ \/ pc' = [pc EXCEPT ![t] = "shutdown"]
             \/ pc' = [pc EXCEPT ![t] = "exchange"]
        BY <1>9 DEF ReceiveCallback, Ends, Go, source
    <2>2. QED
        BY <2>1, <1>a
<1>10. ASSUME NEW t \in Callers, Exchange(t) PROVE AuthorizingInv'
    BY <1>10, <1>a DEF Exchange, Ends, Go
<1>11. ASSUME NEW t \in Callers, StopWaiting(t) PROVE AuthorizingInv'
    BY <1>11, <1>a DEF StopWaiting, Ends, Go
<1>12. ASSUME NEW t \in Callers, Shutdown(t) PROVE AuthorizingInv'
    BY <1>12, <1>a DEF Shutdown, Go, source
<1>13. ASSUME NEW t \in Callers, Publish(t) PROVE AuthorizingInv'
    <2>1. /\ pc[t] = "publish" /\ pc' = [pc EXCEPT ![t] = "idle"]
          /\ flight' = [flight EXCEPT ![t] = NoFlight]
          /\ authorizing' = NoFlight /\ UNCHANGED mutex
        BY <1>13 DEF Publish, NotAuthorizing, Return, Go
    <2>2. \A u \in Callers \ {t} : ~ Authorizes(u)
        BY <2>1
    <2>3. QED
        BY <2>1, <2>2, <1>a
<1>14. ASSUME NEW n \in Flights, NEW m \in Flights, Callback(n, m)
       PROVE AuthorizingInv'
    <2>1. UNCHANGED <<mutex, authorizing, pc, flight>>
        BY <1>14 DEF Callback, source
    <2>2. QED
        BY <2>1
<1>15. CASE Cancel
    BY <1>15 DEF Cancel, source
<1>16. QED
    BY <1>1, <1>2, <1>3, <1>4, <1>5, <1>6, <1>7, <1>8, <1>9, <1>10, <1>11,
       <1>12, <1>13, <1>14, <1>15
    DEF Next, Step

-----------------------------------------------------------------------------
(* Only Callback fills the channel, after it compared the state.           *)
LEMMA CallbackStep ==
    TypeOK /\ AuthorizingInv /\ CallbackInv /\ [Next]_vars => CallbackInv'
<1> SUFFICES ASSUME TypeOK, AuthorizingInv, CallbackInv, [Next]_vars
             PROVE CallbackInv'
    OBVIOUS
<1>a. /\ callback \in [Flights -> Codes \cup {Nothing, Failure}]
      /\ pages \in [Flights -> Nat]
    BY DEF TypeOK
<1>b. Nothing \notin Codes /\ Failure \notin Codes
    BY DEF Nothing, Failure, Codes
<1>1. CASE UNCHANGED <<callback, exchanged, pages, accepted>>
    BY <1>1 DEF CallbackInv, ExchangesOwnCode
<1>2. ASSUME NEW t \in Callers, ReceiveCallback(t) PROVE CallbackInv'
    <2>1. /\ callback[flight[t]] # Nothing
          /\ callback' = [callback EXCEPT ![flight[t]] = Nothing]
          /\ UNCHANGED <<pages, accepted>>
          /\ flight[t] \in Flights
        BY <1>2 DEF ReceiveCallback, AuthorizingInv, Authorizes, TypeOK, NoFlight
    <2>2. ExchangesOwnCode'
        <3>1. CASE callback[flight[t]] = Failure
            BY <1>2, <3>1 DEF ReceiveCallback, CallbackInv, ExchangesOwnCode
        <3>2. CASE callback[flight[t]] # Failure
            <4>1. callback[flight[t]].of = flight[t]
                BY <2>1, <3>2, <1>a DEF CallbackInv
            <4>2. exchanged' = exchanged \cup {<<flight[t], flight[t]>>}
                BY <1>2, <3>2, <4>1 DEF ReceiveCallback
            <4>3. QED
                BY <4>2 DEF CallbackInv, ExchangesOwnCode
        <3>3. QED
            BY <3>1, <3>2
    <2>3. QED
        BY <2>1, <2>2, <1>a, <1>b DEF CallbackInv
<1>3. ASSUME NEW n \in Flights, NEW m \in Flights, Callback(n, m)
      PROVE CallbackInv'
    <2>1. UNCHANGED exchanged
        BY <1>3 DEF Callback
    <2>2. CASE n = m /\ n \notin accepted
        <3>1. /\ accepted' = accepted \cup {n}
              /\ \/ /\ callback' = [callback EXCEPT ![n] = [kind |-> "code", of |-> n]]
                    /\ pages' = [pages EXCEPT ![n] = @ + 1]
                 \/ /\ callback' = [callback EXCEPT ![n] = Failure]
                    /\ UNCHANGED pages
            BY <1>3, <2>2 DEF Callback, StateMatches, FirstCallback
        <3>2. pages[n] = 0
            BY <2>2 DEF CallbackInv
        <3>3. \A k \in Flights : callback'[k] \in Codes => callback'[k].of = k
            BY <3>1, <1>a, <1>b DEF CallbackInv
        <3>4. \A k \in Flights : pages'[k] = 0 \/ (pages'[k] = 1 /\ k \in accepted')
            BY <3>1, <3>2, <1>a DEF CallbackInv
        <3>5. QED
            BY <2>1, <3>3, <3>4 DEF CallbackInv, ExchangesOwnCode
    <2>3. CASE ~ (n = m /\ n \notin accepted)
        <3>1. UNCHANGED <<callback, accepted, pages>>
            BY <1>3, <2>3 DEF Callback, StateMatches, FirstCallback
        <3>2. QED
            BY <2>1, <3>1 DEF CallbackInv, ExchangesOwnCode
    <2>4. QED
        BY <2>2, <2>3
<1>4. ASSUME NEW t \in Callers, Call(t) \/ Step(t), ~ ReceiveCallback(t)
      PROVE UNCHANGED <<callback, exchanged, pages, accepted>>
    BY <1>4
    DEF Call, Step, Enter, RefreshToken, Join, Wait, ListenFails, Listen,
        Exchange, StopWaiting, Shutdown, Publish, outside, transaction
<1>5. QED
    BY <1>1, <1>2, <1>3, <1>4 DEF Next, Cancel, transaction, vars

-----------------------------------------------------------------------------
(* A step that opens no server and takes nobody out of the calls between   *)
(* Listen and Shutdown keeps every server's owner.                         *)
LEMMA OwnersStay ==
    ASSUME ServerInv, server' \subseteq server,
           \A u \in Callers : ServerUp(u) => ServerUp(u)' /\ flight'[u] = flight[u]
    PROVE ServerInv'
<1> SUFFICES ASSUME NEW n \in server'
             PROVE \E t \in Callers : ServerUp(t)' /\ flight'[t] = n
    BY DEF ServerInv
<1>1. PICK t \in Callers : ServerUp(t) /\ flight[t] = n
    BY DEF ServerInv
<1>2. QED
    BY <1>1

LEMMA ServerStep ==
    TypeOK /\ AuthorizingInv /\ ServerInv /\ [Next]_vars => ServerInv'
<1> SUFFICES ASSUME TypeOK, AuthorizingInv, ServerInv, [Next]_vars
             PROVE ServerInv'
    OBVIOUS
<1>a. /\ pc \in [Callers -> Steps]
      /\ flight \in [Callers -> Flights \cup {NoFlight}]
    BY DEF TypeOK
<1>1. ASSUME NEW t \in Callers, Listen(t) PROVE ServerInv'
    <2>1. /\ pc[t] = "listen" /\ pc' = [pc EXCEPT ![t] = "select"]
          /\ server' = server \cup {flight[t]} /\ UNCHANGED flight
        BY <1>1 DEF Listen, Go
    <2>2. ServerUp(t)' /\ \A u \in Callers : ServerUp(u) => ServerUp(u)'
        BY <2>1, <1>a DEF ServerUp
    <2>3. QED
        BY <2>1, <2>2 DEF ServerInv
<1>2. ASSUME NEW t \in Callers, Shutdown(t) PROVE ServerInv'
    <2>1. /\ pc[t] = "shutdown" /\ pc' = [pc EXCEPT ![t] = "publish"]
          /\ server' = server \ {flight[t]} /\ UNCHANGED flight
        BY <1>2 DEF Shutdown, Closed, Go
    <2>2. \A u \in Callers \ {t} : ServerUp(u) => ServerUp(u)'
        BY <2>1, <1>a DEF ServerUp
    <2>3. ASSUME NEW n \in server'
          PROVE \E u \in Callers : ServerUp(u)' /\ flight'[u] = n
        <3>1. PICK u \in Callers : ServerUp(u) /\ flight[u] = n
            BY <2>1 DEF ServerInv
        <3>2. u # t
            BY <2>1, <3>1
        <3>3. QED
            BY <2>1, <2>2, <3>1, <3>2
    <2>4. QED
        BY <2>3 DEF ServerInv
<1>3. ASSUME NEW t \in Callers, NEW from \in Steps, NEW to \in Steps,
             Go(t, from, to), UNCHANGED server,
             \A u \in Callers \ {t} : flight'[u] = flight[u],
             \/ from \notin {"select", "exchange", "shutdown"}
             \/ to \in {"exchange", "shutdown"} /\ UNCHANGED flight
      PROVE ServerInv'
    <2>1. pc[t] = from /\ pc' = [pc EXCEPT ![t] = to]
        BY <1>3 DEF Go
    <2>2. \A u \in Callers : ServerUp(u) => ServerUp(u)' /\ flight'[u] = flight[u]
        BY <1>3, <2>1, <1>a DEF ServerUp
    <2>3. QED
        BY <2>2, <1>3, OwnersStay
<1>4. ASSUME NEW t \in Callers, Call(t) \/ Enter(t) \/ RefreshToken(t) \/ Join(t)
      PROVE ServerInv'
    <2>1. CASE Call(t)
        BY <2>1, <1>3 DEF Call, transaction, Steps
    <2>2. CASE Enter(t)
        <3>1. Go(t, "enter", "refresh") \/ Go(t, "enter", "join")
            BY <2>2 DEF Enter
        <3>2. UNCHANGED <<server, flight>>
            BY <2>2 DEF Enter, outside, transaction
        <3>3. QED
            BY <1>3, <3>1, <3>2 DEF Steps
    <2>3. CASE RefreshToken(t)
        <3>1. /\ Go(t, "refresh", "idle") \/ Go(t, "refresh", "join")
              /\ \A u \in Callers \ {t} : flight'[u] = flight[u]
            BY <2>3, <1>a DEF RefreshToken, Return
        <3>2. UNCHANGED server
            BY <2>3 DEF RefreshToken, outside, transaction
        <3>3. QED
            BY <1>3, <3>1, <3>2 DEF Steps
    <2>4. CASE Join(t)
        <3>1. /\ Go(t, "join", "listen") \/ Go(t, "join", "wait")
              /\ \A u \in Callers \ {t} : flight'[u] = flight[u]
            BY <2>4, <1>a DEF Join
        <3>2. UNCHANGED server
            BY <2>4 DEF Join, outside, transaction
        <3>3. QED
            BY <1>3, <3>1, <3>2 DEF Steps
    <2>5. QED
        BY <1>4, <2>1, <2>2, <2>3, <2>4
<1>5. ASSUME NEW t \in Callers,
             \/ Wait(t) \/ ListenFails(t) \/ Publish(t)
             \/ Exchange(t) \/ StopWaiting(t) \/ ReceiveCallback(t)
      PROVE ServerInv'
    <2>1. CASE Wait(t) \/ Publish(t)
        <3>1. /\ Go(t, "wait", "idle") \/ Go(t, "publish", "idle")
              /\ \A u \in Callers \ {t} : flight'[u] = flight[u]
            BY <2>1, <1>a DEF Wait, Publish, Return
        <3>2. UNCHANGED server
            BY <2>1 DEF Wait, Publish, outside, transaction
        <3>3. QED
            BY <1>3, <3>1, <3>2 DEF Steps
    <2>2. CASE ListenFails(t) \/ Exchange(t) \/ StopWaiting(t)
        <3>1. /\ \/ Go(t, "listen", "publish")
                 \/ Go(t, "exchange", "shutdown")
                 \/ Go(t, "select", "shutdown")
              /\ UNCHANGED flight
            BY <2>2 DEF ListenFails, Exchange, StopWaiting, Ends
        <3>2. UNCHANGED server
            BY <2>2 DEF ListenFails, Exchange, StopWaiting, outside, transaction
        <3>3. QED
            BY <1>3, <3>1, <3>2 DEF Steps
    <2>3. CASE ReceiveCallback(t)
        <3>1. /\ Go(t, "select", "shutdown") \/ Go(t, "select", "exchange")
              /\ UNCHANGED <<flight, server>>
            BY <2>3 DEF ReceiveCallback, Ends
        <3>2. QED
            BY <1>3, <3>1 DEF Steps
    <2>4. QED
        BY <1>5, <2>1, <2>2, <2>3
<1>6. CASE UNCHANGED <<server, pc, flight>>
    BY <1>6, OwnersStay DEF ServerUp
<1>7. QED
    BY <1>1, <1>2, <1>4, <1>5, <1>6
    DEF Next, Step, Callback, Cancel, vars, transaction

-----------------------------------------------------------------------------
(* Join starts an authorization with a new number, Publish ends the one    *)
(* that callers join and nobody can join it from then on.                  *)
LEMMA RunningStep ==
    TypeOK /\ AuthorizingInv /\ RunningInv /\ [Next]_vars => RunningInv'
<1> SUFFICES ASSUME TypeOK, AuthorizingInv, RunningInv, [Next]_vars
             PROVE RunningInv'
    OBVIOUS
<1>a. /\ started \in Nat /\ authorizing \in Nat /\ done \subseteq Nat
      /\ NoFlight \notin done
    BY AuthorizationAssumption DEF TypeOK, Flights, NoFlight
<1>1. CASE UNCHANGED <<started, authorizing, done>>
    BY <1>1 DEF RunningInv
<1>2. ASSUME NEW t \in Callers, Join(t) PROVE RunningInv'
    <2>1. CASE NoneAuthorizing
        <3>1. started' = started + 1 /\ authorizing' = started + 1 /\ done' = done
            BY <1>2, <2>1 DEF Join
        <3>2. QED
            BY <3>1, <1>a DEF RunningInv
    <2>2. CASE ~ NoneAuthorizing
        BY <1>2, <2>2 DEF Join, RunningInv
    <2>3. QED
        BY <2>1, <2>2
<1>3. ASSUME NEW t \in Callers, Publish(t) PROVE RunningInv'
    <2>1. flight[t] = authorizing /\ authorizing # NoFlight
        BY <1>3 DEF Publish, Return, Go, Authorizes, AuthorizingInv
    <2>2. /\ started' = started /\ authorizing' = NoFlight
          /\ done' = done \cup {authorizing}
        BY <1>3, <2>1 DEF Publish, NotAuthorizing, ClosedDone
    <2>3. QED
        BY <2>1, <2>2, <1>a DEF RunningInv, NoFlight
<1>4. ASSUME NEW t \in Callers, Call(t) \/ Step(t), ~ Join(t), ~ Publish(t)
      PROVE UNCHANGED <<started, authorizing, done>>
    BY <1>4
    DEF Call, Step, Enter, RefreshToken, Wait, ListenFails, Listen, Ends,
        ReceiveCallback, Exchange, StopWaiting, Shutdown, source
<1>5. QED
    BY <1>1, <1>2, <1>3, <1>4 DEF Next, Callback, Cancel, source, vars

(* The only way to wait is to join the authorization that is running.      *)
LEMMA JoinsRunning ==
    TypeOK /\ RunningInv /\ [Next]_vars
        => \A t \in Callers :
            pc[t] = "join" /\ pc'[t] = "wait" => flight'[t] \notin done
<1> SUFFICES ASSUME TypeOK, RunningInv, [Next]_vars, NEW t \in Callers,
                    pc[t] = "join", pc'[t] = "wait"
             PROVE flight'[t] \notin done
    OBVIOUS
<1>a. /\ pc \in [Callers -> Steps]
      /\ flight \in [Callers -> Flights \cup {NoFlight}]
    BY DEF TypeOK
<1>1. ASSUME NEW u \in Callers, NEW from \in {"idle", "enter", "refresh",
             "wait", "listen", "select", "exchange", "shutdown", "publish"},
             NEW to, Go(u, from, to)
      PROVE FALSE
    BY <1>1, <1>a DEF Go
<1>2. ASSUME NEW u \in Callers, Join(u) PROVE flight'[t] \notin done
    <2>1. u = t
        BY <1>2, <1>a DEF Join, Go
    <2>2. flight'[t] = authorizing
        BY <1>2, <2>1, <1>a DEF Join, Go
    <2>3. QED
        BY <2>2 DEF RunningInv
<1>3. ASSUME NEW u \in Callers, Call(u) \/ Step(u), ~ Join(u) PROVE FALSE
    <2>1. PICK from \in {"idle", "enter", "refresh", "wait", "listen",
                         "select", "exchange", "shutdown", "publish"} :
            \E to : Go(u, from, to)
        BY <1>3
        DEF Call, Step, Enter, RefreshToken, Wait, ListenFails, Listen, Ends,
            Return, ReceiveCallback, Exchange, StopWaiting, Shutdown, Publish
    <2>2. QED
        BY <2>1, <1>1
<1>4. QED
    BY <1>2, <1>3 DEF Next, Callback, Cancel, vars

-----------------------------------------------------------------------------
(* The inductive invariant of the authorization, in every behaviour.       *)
THEOREM AuthorizationInvariant == Spec => []AuthorizationInv
<1>1. AuthorizationInv /\ [Next]_vars => AuthorizationInv'
    BY TypeStep, AuthorizingStep, CallbackStep, ServerStep, RunningStep
    DEF AuthorizationInv
<1>2. QED
    BY InitInv, <1>1, PTL DEF Spec

(* The variables of the authorization keep their types.                    *)
THEOREM AuthorizationTypeCorrect == Spec => []TypeOK
<1>1. AuthorizationInv => TypeOK
    BY DEF AuthorizationInv
<1>2. QED
    BY <1>1, AuthorizationInvariant, PTL

(* However many goroutines ask for a token, the user sees one prompt.      *)
THEOREM PromptsOnce == Spec => []OnePromptAtATime
<1>1. AuthorizationInv => OnePromptAtATime
    BY DEF AuthorizationInv, AuthorizingInv
<1>2. QED
    BY <1>1, AuthorizationInvariant, PTL

(* No authorization exchanges the code of another one.                     *)
THEOREM CodesStayApart == Spec => []ExchangesOwnCode
<1>1. AuthorizationInv => ExchangesOwnCode
    BY DEF AuthorizationInv, CallbackInv
<1>2. QED
    BY <1>1, AuthorizationInvariant, PTL

(* At most one browser page reports success for an authorization.          *)
THEOREM CompletesOnce == Spec => []OneCompletePage
<1>1. AuthorizationInv => OneCompletePage
    BY DEF AuthorizationInv, CallbackInv, OneCompletePage
<1>2. QED
    BY <1>1, AuthorizationInvariant, PTL

(* No loopback server outlives the call that opened it.                    *)
THEOREM ServersEnd == Spec => []ServerBelongsToCall
<1>1. AuthorizationInv => ServerBelongsToCall
    BY DEF AuthorizationInv, ServerInv, ServerBelongsToCall, ServerUp, Authorizes
<1>2. QED
    BY <1>1, AuthorizationInvariant, PTL

(* Whoever waits for an authorization joined one that had not ended, so it *)
(* is never woken by the token of an earlier one.                          *)
THEOREM JoinsRunningAlways == Spec => JoinsRunningOne
<1>1. TypeOK /\ RunningInv /\ [Next]_vars
        => [\A t \in Callers :
            pc[t] = "join" /\ pc'[t] = "wait" => flight'[t] \notin done]_vars
    BY JoinsRunning
<1>2. AuthorizationInv => TypeOK /\ RunningInv
    BY DEF AuthorizationInv
<1>3. QED
    BY <1>1, <1>2, AuthorizationInvariant, PTL DEF Spec, JoinsRunningOne

=============================================================================
