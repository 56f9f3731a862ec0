------------------------- MODULE ServiceProperties --------------------------
(***************************************************************************)
(* The properties of Service.                                               *)
(***************************************************************************)
EXTENDS Service

\* The type invariant.  There is a server thread only while run() waits for it,
\* and a request in it only between zmq_msg_recv and zmq_msg_send.
TypeOK ==
    /\ main \in {"down", "initialize", "run", "start", "join"}
    /\ thread \in {"none", "setup", "test", "poll", "handle", "respond", "close", "ended"}
    /\ main # "join" => thread = "none"
    /\ isStopped \in BOOLEAN /\ sending \in BOOLEAN /\ stopping \in BOOLEAN
    /\ cur \in Requests \cup {Null}
    /\ thread \in {"handle", "respond"} <=> cur # Null
    /\ response \in Statuses \cup {Null}
    /\ inbox \subseteq Requests /\ wire \subseteq Requests
    /\ outbox \subseteq [req : Requests, status : Statuses]
    /\ call \in [Clients -> {"idle", "wait", "linger"}]
    /\ calls \in [Clients -> 0..MaxCalls]
    /\ result \in [Clients -> Statuses \cup {Null}]
    /\ executed \in [Requests -> Nat]
    /\ outcome \in [Requests -> Statuses \cup {Null}]
    /\ launches \in 0..MaxLaunches

\* No request is executed twice, however clients time out and call again and
\* however often the daemon is started: Client::sendMessage never repeats a
\* message, and nobody else does.
AtMostOnce == \A r \in Requests : executed[r] <= 1

\* A response that sendMessage returns is the one the handler gave to this
\* very message, executed once, and not a late response to an earlier call
\* that timed out: every call has a socket of its own.
AnswersMatch ==
    \A c \in Clients : result[c] # Null =>
        /\ executed[<<c, calls[c]>>] = 1
        /\ result[c] = outcome[<<c, calls[c]>>]

\* Once Server::stop has been called the process ends, wherever the server
\* thread was: the flag is set by the constructor only, so that a stop before
\* the loop is reached is seen by its first test.
StopHonoured == stopping ~> main = "down"

\* sendMessage with a timeout returns when a server stays reachable, even one
\* that never answers.
SendReturns ==
    <>[]Bound => \A c \in Clients \ Patient : call[c] # "idle" ~> call[c] = "idle"

\* A daemon that is up listens, or ends: neither a port that cannot be bound nor
\* a failing socket leaves a process behind that serves nobody, although run()
\* does not tell anyone that the thread has gone.
ListensOrEnds == main = "join" /\ ~Bound ~> Bound \/ main = "down"

\* After a request that got no response the REP socket hears nothing any more
\* and nothing in the daemon notices.  Somebody does: the daemon is ended.
MuteIsEnded == thread = "respond" /\ response = Null ~> main = "down"

\* A message that has been sent is executed, even when its sender has given up,
\* if the server stays there: no other call, no response that found nobody, no
\* restart and no earlier server that went mute keeps this one from it.
SentIsExecuted ==
    MuteIsEnded => \A r \in Requests :
        r \in wire \cup inbox ~> executed[r] = 1 \/ ~Bound

\* A client without a timeout is not left waiting by such a server, if no
\* restart has lost its request.
WaitersAnswered ==
    MuteIsEnded /\ [](launches <= 1) => \A c \in Clients :
        call[c] = "wait" ~> call[c] # "wait" \/ ~Bound

=============================================================================
