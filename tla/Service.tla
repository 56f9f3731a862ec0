------------------------------ MODULE Service -------------------------------
(***************************************************************************)
(* The daemon and its clients: ChainDB (src/ChainDB.cpp) with its signal    *)
(* handler, the server thread (src/Network/Server/Server.cpp), the clients  *)
(* (src/Network/Client/Client.cpp) and, external, the ZeroMQ sockets        *)
(* between them.                                                            *)
(*                                                                         *)
(* The main thread creates the server object, starts its thread and joins   *)
(* it.  The server thread alternates between testing _isStopped and polling *)
(* a REP socket; a request it receives goes to the handler and the response *)
(* back to the sender.  A client makes a REQ socket for every message,      *)
(* waits for the response up to its timeout and closes the socket, which    *)
(* blocks until the request has left (ZMQ_LINGER is not set).               *)
(*                                                                         *)
(* A request is identified by its client and the number of the client's     *)
(* call.  What the handler does with it is the business of Manager; here it *)
(* is executed, with some response.                                         *)
(***************************************************************************)
EXTENDS Naturals, FiniteSets

CONSTANTS
    Clients,
    Statuses,       \* the responses of Handler::handleMessage
    Null,           \* a null pointer: no response
    HandlerResults, \* Statuses, with Null if a response may fail to serialize
    SendErrors,     \* zmq_msg_send may refuse a response
    Patient,        \* the clients with a negative timeout: zmq_poll waits for ever
    MaxCalls,       \* bound: calls of sendMessage per client
    MaxLaunches     \* bound: starts of the daemon

Requests == Clients \X (1..MaxCalls)

ASSUME ServiceAssumption ==
    /\ Null \notin Statuses \cup Requests
    /\ HandlerResults \subseteq Statuses \cup {Null}
    /\ SendErrors \in BOOLEAN
    /\ Patient \subseteq Clients
    /\ MaxCalls \in Nat /\ MaxLaunches \in Nat

VARIABLES
    main,       \* where the main thread is; "down" without a process
    isStopped,  \* Server::_isStopped: cleared by stop(), tested by the loop
    thread,     \* where the server thread is
    sending,    \* the REP socket has a request to be answered before the next
    cur,        \* the request the thread has received, or Null
    response,   \* what the handler returned for it
    inbox,      \* requests that have reached the REP socket
    outbox,     \* responses on their way back
    wire,       \* requests still in the pipe of a client's socket
    call,       \* call[c]: what c's sendMessage is doing
    calls,      \* calls[c]: the number of c's current or last call
    result,     \* result[c]: what it returned
    executed,   \* history: executed[r]: how often the handler ran r
    outcome,    \* history: outcome[r]: what it returned for r
    stopping,   \* history: this process has called Server::stop
    launches    \* history: how often the daemon was started

processVars == <<main, isStopped, thread, sending, cur, response, stopping, launches>>
networkVars == <<inbox, outbox, wire>>
clientVars == <<call, calls, result>>
historyVars == <<executed, outcome>>
vars == <<processVars, networkVars, clientVars, historyVars>>

Init ==
    /\ main = "down" /\ thread = "none" /\ launches = 0
    /\ isStopped = FALSE /\ sending = FALSE /\ stopping = FALSE
    /\ cur = Null /\ response = Null
    /\ inbox = {} /\ outbox = {} /\ wire = {}
    /\ call = [c \in Clients |-> "idle"]
    /\ calls = [c \in Clients |-> 0]
    /\ result = [c \in Clients |-> Null]
    /\ executed = [r \in Requests |-> 0]
    /\ outcome = [r \in Requests |-> Null]

-----------------------------------------------------------------------------
\* The main thread.

Launch ==
    /\ main = "down"
    /\ launches < MaxLaunches
    /\ main' = "initialize"
    /\ launches' = launches + 1
    /\ UNCHANGED <<isStopped, thread, sending, cur, response, stopping,
                   networkVars, clientVars, historyVars>>

\* ChainDB::initialize installs the signal handler first; it fails on bad
\* arguments or without random numbers.
Initialize ==
    /\ main = "initialize"
    /\ main' \in {"run", "down"}
    /\ UNCHANGED <<isStopped, thread, sending, cur, response, stopping, launches,
                   networkVars, clientVars, historyVars>>

\* ChainDB::run up to the assignment of _server; the constructor sets
\* _isStopped.
CreateServer ==
    /\ main = "run"
    /\ main' = "start"
    /\ isStopped' = TRUE
    /\ UNCHANGED <<thread, sending, cur, response, stopping, launches,
                   networkVars, clientVars, historyVars>>

StartThread ==
    /\ main = "start"
    /\ main' = "join"
    /\ thread' = "setup"
    /\ UNCHANGED <<isStopped, sending, cur, response, stopping, launches,
                   networkVars, clientVars, historyVars>>

\* run() waits for the stop, and not for the thread.
Join_StopOnly ==
    /\ main = "join"
    /\ thread = "ended" /\ stopping
    /\ main' = "down"
    /\ thread' = "none"
    /\ stopping' = FALSE
    /\ UNCHANGED <<isStopped, sending, cur, response, launches,
                   networkVars, clientVars, historyVars>>

\* The join returns, and the process exits with code 0 whatever happened.
Join ==
    /\ main = "join"
    /\ thread = "ended"
    /\ main' = "down"
    /\ thread' = "none"
    /\ stopping' = FALSE
    /\ UNCHANGED <<isStopped, sending, cur, response, launches,
                   networkVars, clientVars, historyVars>>

\* SIGINT or SIGTERM: ChainDB::stop clears the flag, if there is a server to
\* stop.  When the signal is delivered to the server thread, it interrupts
\* zmq_poll, which the loop takes for an error.
Signal ==
    /\ main # "down"
    /\ IF main \in {"start", "join"}
       THEN /\ isStopped' = FALSE
            /\ stopping' = TRUE
            /\ \/ UNCHANGED thread
               \/ thread = "poll" /\ thread' = "close"
       ELSE UNCHANGED <<isStopped, stopping, thread>>
    /\ UNCHANGED <<main, sending, cur, response, launches,
                   networkVars, clientVars, historyVars>>

\* The process dies.  Requests it had received are gone; of the responses it
\* had sent, some still arrive.
Crash ==
    /\ main # "down"
    /\ main' = "down" /\ thread' = "none"
    /\ sending' = FALSE /\ stopping' = FALSE
    /\ cur' = Null /\ response' = Null
    /\ inbox' = {}
    /\ outbox' \in SUBSET outbox
    /\ UNCHANGED <<isStopped, launches, wire, clientVars, historyVars>>

-----------------------------------------------------------------------------
\* The server thread: Server::process.

serverVars == <<main, stopping, launches, clientVars, wire>>

\* The flag raised by the thread, and not by the constructor.
Bind_SetsFlag ==
    /\ thread = "setup"
    /\ thread' \in {"test", "ended"}
    /\ sending' = FALSE
    /\ isStopped' = TRUE
    /\ UNCHANGED <<serverVars, cur, response, inbox, outbox, historyVars>>

\* The context, the socket and the port; any of them may be refused.
Bind ==
    /\ thread = "setup"
    /\ thread' \in {"test", "ended"}
    /\ sending' = FALSE
    /\ UNCHANGED <<serverVars, isStopped, cur, response, inbox, outbox, historyVars>>

\* while (_isStopped.test_and_set())
Test ==
    /\ thread = "test"
    /\ thread' = IF isStopped THEN "poll" ELSE "close"
    /\ isStopped' = TRUE
    /\ UNCHANGED <<serverVars, sending, cur, response, inbox, outbox, historyVars>>

\* A REP socket is readable only when the last request has been answered.
Readable == inbox # {} /\ ~sending

\* zmq_poll returns without an event; or it, or the receipt of a message, fails.
PollNothing ==
    /\ thread = "poll"
    /\ \/ ~Readable /\ thread' = "test"
       \/ thread' = "close"
    /\ UNCHANGED <<serverVars, isStopped, sending, cur, response, inbox, outbox,
                   historyVars>>

\* zmq_poll and zmq_msg_recv; the socket serves its peers in turn.
Receive(r) ==
    /\ thread = "poll"
    /\ Readable
    /\ r \in inbox
    /\ inbox' = inbox \ {r}
    /\ cur' = r
    /\ sending' = TRUE
    /\ thread' = "handle"
    /\ UNCHANGED <<serverVars, isStopped, response, outbox, historyVars>>

\* _handler.handleMessage(req)
Handle ==
    /\ thread = "handle"
    /\ response' \in HandlerResults
    /\ executed' = [executed EXCEPT ![cur] = @ + 1]
    /\ outcome' = [outcome EXCEPT ![cur] = response']
    /\ thread' = "respond"
    /\ UNCHANGED <<serverVars, isStopped, sending, cur, inbox, outbox>>

\* A null response is sent like any other.
Respond_SendsNull ==
    /\ thread = "respond"
    /\ outbox' = outbox \cup {[req |-> cur, status |-> response]} /\ sending' = FALSE
    /\ cur' = Null
    /\ response' = Null
    /\ thread' = "test"
    /\ UNCHANGED <<serverVars, isStopped, inbox, historyVars>>

\* An error is not answered.
Respond_Mute ==
    /\ thread = "respond"
    /\ UNCHANGED <<outbox, sending>>
    /\ cur' = Null
    /\ response' = Null
    /\ thread' = "test"
    /\ UNCHANGED <<serverVars, isStopped, inbox, historyVars>>

\* The response is sent.  Without one, or when it is refused, the loop goes on
\* and the socket stays in the state in which it waits for a response; when
\* there is no room for the message, the loop ends.
Respond ==
    /\ thread = "respond"
    /\ \/ /\ response # Null
          /\ outbox' = outbox \cup {[req |-> cur, status |-> response]}
          /\ sending' = FALSE
          /\ thread' = "test"
       \/ /\ response = Null \/ SendErrors
          /\ thread' = "test"
          /\ UNCHANGED <<outbox, sending>>
       \/ /\ response # Null
          /\ thread' = "close"
          /\ UNCHANGED <<outbox, sending>>
    /\ cur' = Null
    /\ response' = Null
    /\ UNCHANGED <<serverVars, isStopped, inbox, historyVars>>

\* zmq_close and zmq_ctx_destroy, which waits for the responses to leave.
Close ==
    /\ thread = "close"
    /\ outbox = {}
    /\ thread' = "ended"
    /\ inbox' = {}
    /\ sending' = FALSE
    /\ UNCHANGED <<serverVars, isStopped, cur, response, outbox, historyVars>>

-----------------------------------------------------------------------------
\* The network, and Client::sendMessage.

Bound == thread \in {"test", "poll", "handle", "respond"}

\* A request reaches the server's socket.
Transmit(r) ==
    /\ r \in wire
    /\ Bound
    /\ wire' = wire \ {r}
    /\ inbox' = inbox \cup {r}
    /\ UNCHANGED <<processVars, outbox, clientVars, historyVars>>

\* One socket for all calls of a client.
Awaits_AnyReply(c, reply) == call[c] = "wait" /\ reply.req[1] = c

\* c's socket takes the response to its request: a socket lives for one call.
Awaits(c, reply) == call[c] = "wait" /\ reply.req = <<c, calls[c]>>

\* A response whose peer has closed its socket is dropped.
Drop(reply) ==
    /\ reply \in outbox
    /\ ~ \E c \in Clients : Awaits(c, reply)
    /\ outbox' = outbox \ {reply}
    /\ UNCHANGED <<processVars, inbox, wire, clientVars, historyVars>>

Send(c) ==
    /\ call[c] = "idle"
    /\ calls[c] < MaxCalls
    /\ call' = [call EXCEPT ![c] = "wait"]
    /\ calls' = [calls EXCEPT ![c] = @ + 1]
    /\ result' = [result EXCEPT ![c] = Null]
    /\ wire' = wire \cup {<<c, calls[c] + 1>>}
    /\ UNCHANGED <<processVars, inbox, outbox, historyVars>>

\* sendMessage gives up before the message is in the pipe: no socket, no
\* connection or no room.
SendFails(c) ==
    /\ call[c] = "idle"
    /\ calls[c] < MaxCalls
    /\ calls' = [calls EXCEPT ![c] = @ + 1]
    /\ result' = [result EXCEPT ![c] = Null]
    /\ UNCHANGED <<processVars, networkVars, call, historyVars>>

Answered(c) ==
    /\ \E reply \in outbox :
        /\ Awaits(c, reply)
        /\ result' = [result EXCEPT ![c] = reply.status]
        /\ outbox' = outbox \ {reply}
    /\ call' = [call EXCEPT ![c] = "idle"]
    /\ UNCHANGED <<processVars, inbox, wire, calls, historyVars>>

\* A retry: the message is sent again.
TimesOut_Resends(c) ==
    /\ call[c] = "wait"
    /\ wire' = wire \cup {<<c, calls[c]>>}
    /\ UNCHANGED <<processVars, inbox, outbox, clientVars, historyVars>>

\* zmq_poll without a timeout.
TimesOut_Never(c) == FALSE /\ UNCHANGED vars

\* zmq_poll gives up, or it or zmq_msg_recv fails.  Only the failures can
\* happen to a patient client, and nothing makes them happen.
TimesOut(c) ==
    /\ call[c] = "wait"
    /\ call' = [call EXCEPT ![c] = "linger"]
    /\ UNCHANGED <<processVars, networkVars, calls, result, historyVars>>

\* zmq_ctx_destroy returns once the request has left; sendMessage returns a
\* null pointer.
Lingered(c) ==
    /\ call[c] = "linger"
    /\ <<c, calls[c]>> \notin wire
    /\ call' = [call EXCEPT ![c] = "idle"]
    /\ UNCHANGED <<processVars, networkVars, calls, result, historyVars>>

-----------------------------------------------------------------------------

MainStep == Initialize \/ CreateServer \/ StartThread \/ Join
ThreadStep ==
    \/ Bind \/ Test \/ PollNothing \/ Handle \/ Respond \/ Close
    \/ \E r \in Requests : Receive(r)
ClientStep(c) == Answered(c) \/ TimesOut(c) \/ Lingered(c)

\* What a client's call is sure to do.
ClientProgress(c) ==
    Answered(c) \/ (c \notin Patient /\ TimesOut(c)) \/ Lingered(c)

Next ==
    \/ Launch \/ MainStep \/ Signal \/ Crash
    \/ ThreadStep
    \/ \E r \in Requests : Transmit(r)
    \/ \E reply \in outbox : Drop(reply)
    \/ \E c \in Clients : Send(c) \/ SendFails(c) \/ ClientStep(c)

Spec == Init /\ [][Next]_vars

\* Threads that can run do run, sockets move their messages, the REP socket
\* serves its peers in turn, and a poll with a timeout ends.
Fairness ==
    /\ WF_vars(MainStep) /\ WF_vars(ThreadStep)
    /\ \A r \in Requests : SF_vars(Receive(r)) /\ WF_vars(Transmit(r))
    /\ WF_vars(\E reply \in outbox : Drop(reply))
    /\ \A c \in Clients : WF_vars(ClientProgress(c))

FairSpec == Spec /\ Fairness

=============================================================================
