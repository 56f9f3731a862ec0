--------------------------- MODULE Service_proofs ---------------------------
(***************************************************************************)
(* Theorems about Service, for every set of clients, every number of calls  *)
(* and restarts, and every handler.                                         *)
(***************************************************************************)
EXTENDS ServiceProperties, TLAPS

(***************************************************************************)
(* The inductive invariant follows a request on its way: not sent yet, in   *)
(* the client's pipe, at the server's socket, in the server thread, and     *)
(* executed.  It is in one place at a time, and only the last one has       *)
(* executed it.  A response in transit, and one a client has taken, is the  *)
(* outcome of an executed request.                                          *)
(***************************************************************************)
Fresh(r) == r \notin wire /\ r \notin inbox /\ cur # r /\ executed[r] = 0

OnItsWay ==
    \A r \in Requests :
        /\ r[2] > calls[r[1]] => Fresh(r)
        /\ r \in wire => r \notin inbox /\ cur # r /\ executed[r] = 0
        /\ r \in inbox => cur # r /\ executed[r] = 0
        /\ cur = r /\ thread = "handle" => executed[r] = 0

Responses ==
    /\ thread = "respond" => executed[cur] = 1 /\ outcome[cur] = response
    /\ \A reply \in outbox :
        executed[reply.req] = 1 /\ outcome[reply.req] = reply.status
    /\ \A c \in Clients : result[c] # Null \/ call[c] # "idle" => calls[c] \in 1..MaxCalls

Inv == TypeOK /\ OnItsWay /\ Responses /\ AtMostOnce /\ AnswersMatch

LEMMA RequestParts ==
    /\ \A r \in Requests : r[1] \in Clients /\ r[2] \in 1..MaxCalls /\ r = <<r[1], r[2]>>
    /\ \A c \in Clients, n \in 1..MaxCalls :
        <<c, n>> \in Requests /\ <<c, n>>[1] = c /\ <<c, n>>[2] = n
BY DEF Requests

LEMMA InitInv == Init => Inv
<1> SUFFICES ASSUME Init PROVE Inv
  OBVIOUS
<1>1. TypeOK
  <2>1. isStopped \in BOOLEAN /\ sending \in BOOLEAN /\ stopping \in BOOLEAN
    BY Zenon DEF Init
  <2> QED BY <2>1, ServiceAssumption DEF Init, TypeOK
<1>2. OnItsWay
  BY ServiceAssumption DEF Init, OnItsWay, Fresh
<1>3. Responses /\ AtMostOnce /\ AnswersMatch
  BY DEF Init, Responses, AtMostOnce, AnswersMatch
<1> QED
  BY <1>1, <1>2, <1>3 DEF Inv

\* Steps of the main thread, signals and polls leave requests and responses
\* where they are.
Control ==
    \/ Launch \/ Initialize \/ CreateServer \/ StartThread \/ Join \/ Signal
    \/ Bind \/ Test \/ PollNothing

LEMMA ControlFrame ==
    ASSUME Inv, Control
    PROVE  /\ UNCHANGED <<inbox, outbox, wire, call, calls, result, executed, outcome,
                          cur, response>>
           /\ \/ thread' = thread
              \/ thread \notin {"handle", "respond"} /\ thread' \notin {"handle", "respond"}
           /\ main' \in {"down", "initialize", "run", "start", "join"}
           /\ thread' \in {"none", "setup", "test", "poll", "handle", "respond",
                           "close", "ended"}
           /\ isStopped' \in BOOLEAN /\ sending' \in BOOLEAN /\ stopping' \in BOOLEAN
           /\ launches' \in 0..MaxLaunches
           /\ main' # "join" => thread' = "none"
<1> USE DEF networkVars, clientVars, historyVars, serverVars
<1>1. CASE Launch
  BY <1>1, ServiceAssumption DEF Launch, Inv, TypeOK
<1>2. CASE Initialize
  BY <1>2 DEF Initialize, Inv, TypeOK
<1>3. CASE CreateServer
  BY <1>3 DEF CreateServer, Inv, TypeOK
<1>4. CASE StartThread
  <2>1. thread \notin {"handle", "respond"}
    BY <1>4 DEF StartThread, Inv, TypeOK
  <2> QED BY <1>4, <2>1 DEF StartThread, Inv, TypeOK
<1>5. CASE Join
  BY <1>5 DEF Join, Inv, TypeOK
<1>6. CASE Signal
  BY <1>6 DEF Signal, Inv, TypeOK
<1>7. CASE Bind
  BY <1>7 DEF Bind, Inv, TypeOK
<1>8. CASE Test
  BY <1>8 DEF Test, Inv, TypeOK
<1>9. CASE PollNothing
  BY <1>9 DEF PollNothing, Inv, TypeOK
<1> QED
  BY <1>1, <1>2, <1>3, <1>4, <1>5, <1>6, <1>7, <1>8, <1>9 DEF Control

\* The end of a server, in good order or not, loses requests and responses.
LEMMA EndKeepsInv ==
    ASSUME Inv, Crash \/ Close
    PROVE  Inv'
<1>1. /\ inbox' = {} /\ outbox' \subseteq outbox
      /\ cur' = Null /\ thread' \in {"none", "ended"}
      /\ UNCHANGED <<wire, call, calls, result, executed, outcome>>
  BY DEF Crash, Close, Inv, TypeOK, clientVars, historyVars, serverVars
<1>2. TypeOK'
  BY <1>1 DEF Crash, Close, Inv, TypeOK, serverVars
<1>4. OnItsWay'
  BY <1>1, ServiceAssumption DEF Inv, OnItsWay, Fresh
<1>5. Responses'
  BY <1>1 DEF Inv, Responses
<1>6. AtMostOnce' /\ AnswersMatch'
  BY <1>1 DEF Inv, AtMostOnce, AnswersMatch
<1> QED
  BY <1>2, <1>4, <1>5, <1>6 DEF Inv

LEMMA ControlKeepsInv ==
    ASSUME Inv, Control
    PROVE  Inv'
<1>1. TypeOK'
  BY ControlFrame DEF Inv, TypeOK
<1>2. OnItsWay'
  BY ControlFrame DEF Inv, OnItsWay, Fresh
<1>3. Responses' /\ AtMostOnce' /\ AnswersMatch'
  BY ControlFrame DEF Inv, Responses, AtMostOnce, AnswersMatch
<1> QED
  BY <1>1, <1>2, <1>3 DEF Inv

\* The server thread takes a request, executes it and responds.
LEMMA ReceiveKeepsInv ==
    ASSUME Inv, NEW r \in Requests, Receive(r)
    PROVE  Inv'
<1>1. /\ thread = "poll" /\ thread' = "handle" /\ r \in inbox
      /\ inbox' = inbox \ {r} /\ cur' = r /\ sending' = TRUE
      /\ UNCHANGED <<main, stopping, launches, isStopped, response, outbox, wire,
                     call, calls, result, executed, outcome>>
  BY DEF Receive, serverVars, clientVars, historyVars
<1>2. TypeOK'
  <2>1. sending' \in BOOLEAN
    BY <1>1, Zenon
  <2> QED BY <1>1, <2>1, ServiceAssumption DEF Inv, TypeOK
<1>3. OnItsWay'
  BY <1>1 DEF Inv, OnItsWay, Fresh
<1>4. Responses' /\ AtMostOnce' /\ AnswersMatch'
  BY <1>1 DEF Inv, Responses, AtMostOnce, AnswersMatch
<1> QED
  BY <1>2, <1>3, <1>4 DEF Inv

LEMMA HandleKeepsInv ==
    ASSUME Inv, Handle
    PROVE  Inv'
<1>1. /\ thread = "handle" /\ thread' = "respond"
      /\ cur \in Requests /\ executed[cur] = 0
      /\ response' \in Statuses \cup {Null}
      /\ executed' = [executed EXCEPT ![cur] = @ + 1]
      /\ outcome' = [outcome EXCEPT ![cur] = response']
      /\ UNCHANGED <<main, stopping, launches, isStopped, sending, cur, inbox, outbox,
                     wire, call, calls, result>>
  BY ServiceAssumption
     DEF Handle, serverVars, clientVars, Inv, TypeOK, OnItsWay
<1>2. /\ executed'[cur] = 1 /\ outcome'[cur] = response'
      /\ \A r \in Requests \ {cur} : executed'[r] = executed[r] /\ outcome'[r] = outcome[r]
  BY <1>1 DEF Inv, TypeOK
<1>3. TypeOK'
  BY <1>1 DEF Inv, TypeOK
<1>4. OnItsWay'
  BY <1>1, <1>2 DEF Inv, OnItsWay, Fresh
<1>5. Responses'
  <2>1. ASSUME NEW reply \in outbox
        PROVE  reply.req \in Requests /\ reply.req # cur
    BY <1>1, <2>1 DEF Inv, TypeOK, Responses
  <2> QED BY <1>1, <1>2, <2>1 DEF Inv, Responses
<1>6. AtMostOnce'
  BY <1>2 DEF Inv, AtMostOnce
<1>7. AnswersMatch'
  <2>1. ASSUME NEW c \in Clients, result[c] # Null
        PROVE  <<c, calls[c]>> \in Requests /\ <<c, calls[c]>> # cur
    <3>1. <<c, calls[c]>> \in Requests
      BY <2>1, RequestParts DEF Inv, Responses
    <3> QED BY <1>1, <2>1, <3>1 DEF Inv, AnswersMatch
  <2> QED BY <1>1, <1>2, <2>1 DEF Inv, AnswersMatch
<1> QED
  BY <1>3, <1>4, <1>5, <1>6, <1>7 DEF Inv

LEMMA RespondKeepsInv ==
    ASSUME Inv, Respond
    PROVE  Inv'
<1>1. /\ thread = "respond" /\ thread' \in {"test", "close"} /\ cur \in Requests
      /\ cur' = Null /\ response' = Null
      /\ outbox' = outbox \/ (/\ response # Null
                              /\ outbox' = outbox \cup {[req |-> cur, status |-> response]})
      /\ UNCHANGED <<main, stopping, launches, isStopped, inbox, wire, call, calls,
                     result, executed, outcome>>
  BY DEF Respond, serverVars, clientVars, historyVars, Inv, TypeOK
<1>2. TypeOK'
  <2>1. sending' \in BOOLEAN
    BY DEF Respond, Inv, TypeOK
  <2> QED BY <1>1, <2>1 DEF Inv, TypeOK
<1>3. OnItsWay'
  BY <1>1, ServiceAssumption DEF Inv, OnItsWay, Fresh
<1>4. Responses'
  BY <1>1 DEF Inv, Responses
<1>5. AtMostOnce' /\ AnswersMatch'
  BY <1>1 DEF Inv, AtMostOnce, AnswersMatch
<1> QED
  BY <1>2, <1>3, <1>4, <1>5 DEF Inv

\* The network moves a request to the server, or drops a response.
LEMMA TransmitKeepsInv ==
    ASSUME Inv, NEW r \in Requests, Transmit(r)
    PROVE  Inv'
<1>1. /\ r \in wire /\ wire' = wire \ {r} /\ inbox' = inbox \cup {r}
      /\ UNCHANGED <<main, isStopped, thread, sending, cur, response, stopping, launches,
                     outbox, call, calls, result, executed, outcome>>
  BY DEF Transmit, processVars, clientVars, historyVars
<1>2. TypeOK'
  BY <1>1 DEF Inv, TypeOK
<1>3. OnItsWay'
  BY <1>1 DEF Inv, OnItsWay, Fresh
<1>4. Responses' /\ AtMostOnce' /\ AnswersMatch'
  BY <1>1 DEF Inv, Responses, AtMostOnce, AnswersMatch
<1> QED
  BY <1>2, <1>3, <1>4 DEF Inv

LEMMA DropKeepsInv ==
    ASSUME Inv, NEW reply \in outbox, Drop(reply)
    PROVE  Inv'
<1>1. /\ outbox' = outbox \ {reply}
      /\ UNCHANGED <<main, isStopped, thread, sending, cur, response, stopping, launches,
                     inbox, wire, call, calls, result, executed, outcome>>
  BY DEF Drop, processVars, clientVars, historyVars
<1>2. TypeOK'
  BY <1>1 DEF Inv, TypeOK
<1>3. OnItsWay'
  BY <1>1 DEF Inv, OnItsWay, Fresh
<1>4. Responses' /\ AtMostOnce' /\ AnswersMatch'
  BY <1>1 DEF Inv, Responses, AtMostOnce, AnswersMatch
<1> QED
  BY <1>2, <1>3, <1>4 DEF Inv

\* A client starts a call, with a request nobody has seen before.
LEMMA SendKeepsInv ==
    ASSUME Inv, NEW c \in Clients, Send(c)
    PROVE  Inv'
<1>1. PICK n \in 1..MaxCalls : n = calls[c] + 1
  BY ServiceAssumption DEF Send, Inv, TypeOK
<1>2. /\ wire' = wire \cup {<<c, n>>}
      /\ calls' = [calls EXCEPT ![c] = n]
      /\ call' = [call EXCEPT ![c] = "wait"]
      /\ result' = [result EXCEPT ![c] = Null]
      /\ UNCHANGED <<main, isStopped, thread, sending, cur, response, stopping, launches,
                     inbox, outbox, executed, outcome>>
  BY <1>1 DEF Send, processVars, historyVars
<1>3. <<c, n>> \in Requests /\ <<c, n>>[1] = c /\ <<c, n>>[2] = n
  BY RequestParts
<1>4. Fresh(<<c, n>>)
  <2>1. n > calls[c]
    BY <1>1, ServiceAssumption DEF Inv, TypeOK
  <2> QED BY <1>3, <2>1 DEF Inv, OnItsWay
<1>5. /\ calls'[c] = n /\ result'[c] = Null
      /\ \A d \in Clients : d # c => calls'[d] = calls[d] /\ result'[d] = result[d]
                                     /\ call'[d] = call[d]
  BY <1>2 DEF Inv, TypeOK
<1>6. TypeOK'
  BY <1>2, <1>3, ServiceAssumption DEF Inv, TypeOK
<1>7. OnItsWay'
  <2> SUFFICES ASSUME NEW r \in Requests
               PROVE  /\ r[2] > calls'[r[1]] => Fresh(r)'
                      /\ r \in wire' => r \notin inbox' /\ cur' # r /\ executed'[r] = 0
                      /\ r \in inbox' => cur' # r /\ executed'[r] = 0
                      /\ cur' = r /\ thread' = "handle" => executed'[r] = 0
    BY DEF OnItsWay
  <2>1. r[1] \in Clients /\ r[2] \in 1..MaxCalls /\ r = <<r[1], r[2]>>
    BY RequestParts
  <2>2. ASSUME r[2] > calls'[r[1]] PROVE r[2] > calls[r[1]] /\ r # <<c, n>>
    <3>1. CASE r[1] = c
      <4>1. r[2] > n
        BY <2>2, <3>1, <1>5
      <4>2. r[2] > calls[c] /\ r[2] # n
        BY <4>1, <2>1, <1>1, ServiceAssumption DEF Inv, TypeOK
      <4> QED BY <4>2, <3>1, <1>3
    <3>2. CASE r[1] # c
      BY <2>2, <3>2, <1>5, <2>1, <1>3
    <3> QED BY <3>1, <3>2
  <2>3. r[2] > calls'[r[1]] => Fresh(r)'
    BY <2>2, <1>2 DEF Inv, OnItsWay, Fresh
  <2>4. r \in wire' => r \notin inbox' /\ cur' # r /\ executed'[r] = 0
    BY <1>2, <1>4 DEF Inv, OnItsWay, Fresh
  <2> QED BY <2>3, <2>4, <1>2 DEF Inv, OnItsWay
<1>8. Responses' /\ AtMostOnce'
  BY <1>2, <1>5 DEF Inv, Responses, AtMostOnce
<1>9. AnswersMatch'
  BY <1>2, <1>5 DEF Inv, AnswersMatch
<1> QED
  BY <1>6, <1>7, <1>8, <1>9 DEF Inv

\* A call that fails before its request is out leaves the number unused.
LEMMA SendFailsKeepsInv ==
    ASSUME Inv, NEW c \in Clients, SendFails(c)
    PROVE  Inv'
<1>1. PICK n \in 1..MaxCalls : n = calls[c] + 1
  BY ServiceAssumption DEF SendFails, Inv, TypeOK
<1>2. /\ calls' = [calls EXCEPT ![c] = n]
      /\ result' = [result EXCEPT ![c] = Null]
      /\ UNCHANGED <<main, isStopped, thread, sending, cur, response, stopping, launches,
                     wire, inbox, outbox, call, executed, outcome>>
  BY <1>1 DEF SendFails, processVars, networkVars, historyVars
<1>3. /\ calls'[c] = n /\ result'[c] = Null
      /\ \A d \in Clients : d # c => calls'[d] = calls[d] /\ result'[d] = result[d]
  BY <1>2 DEF Inv, TypeOK
<1>4. TypeOK'
  BY <1>2, ServiceAssumption DEF Inv, TypeOK
<1>5. OnItsWay'
  <2>1. ASSUME NEW r \in Requests, r[2] > calls'[r[1]]
        PROVE  r[2] > calls[r[1]]
    <3>1. r[1] \in Clients /\ r[2] \in 1..MaxCalls
      BY RequestParts
    <3>2. CASE r[1] = c
      BY <2>1, <3>1, <3>2, <1>1, <1>3, ServiceAssumption DEF Inv, TypeOK
    <3>3. CASE r[1] # c
      BY <2>1, <3>1, <3>3, <1>3
    <3> QED BY <3>2, <3>3
  <2> QED BY <1>2, <2>1 DEF Inv, OnItsWay, Fresh
<1>6. Responses' /\ AtMostOnce' /\ AnswersMatch'
  BY <1>2, <1>3 DEF Inv, Responses, AtMostOnce, AnswersMatch
<1> QED
  BY <1>4, <1>5, <1>6 DEF Inv

\* A call ends with the response to its request, or without one.
LEMMA AnsweredKeepsInv ==
    ASSUME Inv, NEW c \in Clients, Answered(c)
    PROVE  Inv'
<1>1. PICK reply \in outbox :
        /\ call[c] = "wait" /\ reply.req = <<c, calls[c]>>
        /\ result' = [result EXCEPT ![c] = reply.status]
        /\ outbox' = outbox \ {reply}
  BY DEF Answered, Awaits
<1>2. /\ call' = [call EXCEPT ![c] = "idle"]
      /\ UNCHANGED <<main, isStopped, thread, sending, cur, response, stopping, launches,
                     inbox, wire, calls, executed, outcome>>
  BY DEF Answered, processVars, historyVars
<1>3. /\ result'[c] = reply.status /\ calls[c] \in 1..MaxCalls
      /\ \A d \in Clients : d # c => result'[d] = result[d] /\ call'[d] = call[d]
  BY <1>1, <1>2 DEF Inv, TypeOK, Responses
<1>4. executed[<<c, calls[c]>>] = 1 /\ outcome[<<c, calls[c]>>] = reply.status
  BY <1>1 DEF Inv, Responses
<1>5. TypeOK'
  BY <1>1, <1>2 DEF Inv, TypeOK
<1>6. OnItsWay'
  BY <1>1, <1>2 DEF Inv, OnItsWay, Fresh
<1>7. Responses' /\ AtMostOnce'
  BY <1>1, <1>2, <1>3 DEF Inv, Responses, AtMostOnce
<1>8. AnswersMatch'
  BY <1>2, <1>3, <1>4 DEF Inv, AnswersMatch
<1> QED
  BY <1>5, <1>6, <1>7, <1>8 DEF Inv

LEMMA UnansweredKeepsInv ==
    ASSUME Inv, NEW c \in Clients, TimesOut(c) \/ Lingered(c)
    PROVE  Inv'
<1>1. /\ call[c] # "idle"
      /\ \E s \in {"idle", "linger"} : call' = [call EXCEPT ![c] = s]
      /\ UNCHANGED <<main, isStopped, thread, sending, cur, response, stopping, launches,
                     inbox, outbox, wire, calls, result, executed, outcome>>
  BY DEF TimesOut, Lingered, processVars, networkVars, historyVars
<1>2. \A d \in Clients : call'[d] # "idle" => call[d] # "idle"
  BY <1>1 DEF Inv, TypeOK
<1>3. TypeOK'
  BY <1>1 DEF Inv, TypeOK
<1>4. OnItsWay'
  BY <1>1 DEF Inv, OnItsWay, Fresh
<1>5. Responses' /\ AtMostOnce' /\ AnswersMatch'
  BY <1>1, <1>2 DEF Inv, Responses, AtMostOnce, AnswersMatch
<1> QED
  BY <1>3, <1>4, <1>5 DEF Inv

LEMMA NextInv == Inv /\ [Next]_vars => Inv'
<1> SUFFICES ASSUME Inv, [Next]_vars PROVE Inv'
  OBVIOUS
<1>1. CASE Control
  BY <1>1, ControlKeepsInv
<1>2. CASE Crash \/ Close
  BY <1>2, EndKeepsInv
<1>3. CASE Handle \/ Respond
  BY <1>3, HandleKeepsInv, RespondKeepsInv
<1>4. CASE \E r \in Requests : Receive(r) \/ Transmit(r)
  BY <1>4, ReceiveKeepsInv, TransmitKeepsInv
<1>5. CASE \E reply \in outbox : Drop(reply)
  BY <1>5, DropKeepsInv
<1>6. CASE \E c \in Clients : Send(c) \/ SendFails(c) \/ ClientStep(c)
  BY <1>6, SendKeepsInv, SendFailsKeepsInv, AnsweredKeepsInv, UnansweredKeepsInv
     DEF ClientStep
<1>7. CASE UNCHANGED vars
  BY <1>7 DEF vars, processVars, networkVars, clientVars, historyVars,
              Inv, TypeOK, OnItsWay, Fresh, Responses, AtMostOnce, AnswersMatch
<1> QED
  BY <1>1, <1>2, <1>3, <1>4, <1>5, <1>6, <1>7 DEF Next, MainStep, ThreadStep, Control

LEMMA InvAlways == Spec => []Inv
BY InitInv, NextInv, PTL DEF Spec

\* The type invariant: a thread only while run() waits for it, a request in it
\* only between its reception and its response.
THEOREM TypeCorrect == Spec => []TypeOK
<1>1. Inv => TypeOK
  BY DEF Inv
<1> QED
  BY <1>1, InvAlways, PTL

\* No message is executed twice, for any number of clients, calls and
\* restarts: nothing between sendMessage and the handler repeats one.
THEOREM ExecutedAtMostOnce == Spec => []AtMostOnce
<1>1. Inv => AtMostOnce
  BY DEF Inv
<1> QED
  BY <1>1, InvAlways, PTL

\* What sendMessage returns is the handler's response to this message, for any
\* number of earlier calls that timed out and whatever answers came too late.
THEOREM ResponsesBelong == Spec => []AnswersMatch
<1>1. Inv => AnswersMatch
  BY DEF Inv
<1> QED
  BY <1>1, InvAlways, PTL

=============================================================================
