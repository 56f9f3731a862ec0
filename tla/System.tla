------------------------------- MODULE System -------------------------------
(***************************************************************************)
(* The whole of ChainDB, put together from its parts: users who run the     *)
(* command line client (Cli), the network, the server thread and the daemon *)
(* around it (Service), and the handler with the storage below it (Handler, *)
(* Manager, Chain, Storage) as what the server thread runs between the      *)
(* receipt of a request and its response.                                   *)
(*                                                                         *)
(* Every payload is different: it is the call that carries it.  A chain so  *)
(* tells whose blocks it holds and in which order.                          *)
(***************************************************************************)
EXTENDS Service, Cli

CONSTANTS
    Server,         \* the process; there is one at a time
    Script,         \* Script[r]: the commands the user may type for call r
    Passwords, Password, Length, MAX_DATA_LENGTH,       \* of Handler
    Paths, NoPath, Faults, DB_VERSION, OTHER_VERSION,   \* of Manager
    Nonces, PrivateKeys, Ops, MaxBlocks, MaxCreates

VARIABLES
    disk, db, pc, req, hdr, blk, res, acked, created,   \* of Manager
    message, reply,                                     \* of Handler
    content,    \* content[r]: the message call r has sent
    answer,     \* history: answer[r]: what sendMessage returned for it
    before,     \* history: before[r]: the calls with an answer when r was sent
    seen        \* history: seen[r]: the payloads the response to r carries

managerVars == <<disk, db, pc, req, hdr, blk, res, acked, created>>
handlerVars == <<managerVars, message, reply>>
userVars == <<content, answer, before, seen>>
systemVars == <<vars, handlerVars, userVars>>

H == INSTANCE HandlerProperties WITH
        Procs <- {Server}, Data <- Requests, Legacy <- {}, Companions <- {},
        response <- reply

\* The commands: the request asked for, the chain and the password.
Commands == [key : Flags, chain : Int, password : Passwords \cup {""}]

\* What the client makes of a command for call r.
options(command, r) ==
    [CliDefaults EXCEPT ![command.key] = TRUE,
                        !["--chain-id"] = command.chain,
                        !["--password"] = command.password,
                        !["--data"] = r]

\* The script is about the chains, the passwords and the calls of Handler, whose
\* constants are as Handler and Manager want them; the statuses clients are told
\* are the handler's.
ASSUME SystemAssumption ==
    /\ Script \in [Requests -> SUBSET Commands]
    /\ "crash" \in Faults
    /\ None \notin Requests
    /\ Statuses = H!Status
    /\ \A r \in Requests : \A command \in Script[r] :
        requests(options(command, r)) \subseteq H!Messages
    /\ H!NoPathAssumption /\ H!VersionAssumption /\ H!ManagerAssumption
    /\ H!HandlerAssumption /\ H!NullAssumption

-----------------------------------------------------------------------------
\* The user.

SystemInit ==
    /\ Init
    /\ H!HandlerInit
    /\ content = [r \in Requests |-> None]
    /\ answer = [r \in Requests |-> Null]
    /\ before = [r \in Requests |-> {}]
    /\ seen = [r \in Requests |-> <<>>]

Type(c) ==
    LET r == <<c, calls[c] + 1>> IN
    /\ Send(c)
    /\ \E command \in Script[r] :
        \E m \in requests(options(command, r)) : content' = [content EXCEPT ![r] = m]
    /\ before' = [before EXCEPT ![r] = {q \in Requests : answer[q] # Null}]
    /\ UNCHANGED <<handlerVars, answer, seen>>

\* The response reaches the client.
Hear(c) ==
    /\ Answered(c)
    /\ answer' = [answer EXCEPT ![<<c, calls[c]>>] = result'[c]]
    /\ UNCHANGED <<handlerVars, content, before, seen>>

-----------------------------------------------------------------------------
\* The server thread in handleMessage.

\* The payloads a response to getBlocks carries.
payloads(r, resp) ==
    IF H!selected(content[r]).op = "getBlocks" /\ resp # Null /\ resp.status = "SUCCESS"
    THEN [n \in DOMAIN resp.body |-> resp.body[n].data] ELSE <<>>

\* The handler has its response, and the server thread gets it.
Returns ==
    /\ Handle
    /\ response' = IF reply'[Server] = Null THEN Null ELSE reply'[Server].status
    /\ UNCHANGED <<content, answer, before>>

HandleAtOnce ==
    /\ thread = "handle"
    /\ H!Answer(Server, content[cur])
    /\ Returns
    /\ UNCHANGED seen

HandleBegins ==
    thread = "handle" /\ H!Call(Server, content[cur]) /\ UNCHANGED <<vars, userVars>>

HandleWorks ==
    thread = "handle" /\ H!Work(Server) /\ UNCHANGED <<vars, userVars>>

HandleEnds ==
    /\ thread = "handle"
    /\ H!Reply(Server)
    /\ Returns
    /\ seen' = [seen EXCEPT ![cur] = payloads(cur, reply'[Server])]

\* The process dies, whatever each of its parts was doing.
Dies == Crash /\ H!Die(Server) /\ UNCHANGED userVars

-----------------------------------------------------------------------------

\* The rest of the service: its own state, and no other.
Only(step) == step /\ UNCHANGED <<handlerVars, userVars>>

ThreadSteps ==
    \/ HandleAtOnce \/ HandleBegins \/ HandleWorks \/ HandleEnds
    \/ Only(Bind \/ Test \/ PollNothing \/ Respond \/ Close)
    \/ \E r \in Requests : Only(Receive(r))

UserSteps(c) == Hear(c) \/ Only(TimesOut(c) \/ Lingered(c))

SystemNext ==
    \/ Only(Launch \/ MainStep \/ Signal)
    \/ Dies
    \/ ThreadSteps
    \/ \E r \in Requests : Only(Transmit(r))
    \/ \E q \in outbox : Only(Drop(q))
    \/ \E c \in Clients : Type(c) \/ Only(SendFails(c)) \/ UserSteps(c)

SystemSpec == SystemInit /\ [][SystemNext]_systemVars

-----------------------------------------------------------------------------

Sent(r) == content[r] # None
Op(r) == H!selected(content[r]).op
Chain(r) == H!selected(content[r]).path

\* The payloads in a chain, in order.
entries(c) == IF H!Live(c) THEN H!Entries(c) ELSE <<>>

Holds(c, r) == \E n \in DOMAIN entries(c) : entries(c)[n] = r

\* Every removal of r's chain that anyone has asked for was answered before r
\* was sent.
RemovalsSettled(r) ==
    \A q \in Requests :
        Sent(q) /\ Op(q) = "remove" /\ Chain(q) = Chain(r) => q \in before[r]

\* A chain holds the block of a call at most once, and only if the call was to
\* add it, to this chain and with the password: no timeout, no crash between
\* the write and the response and no restart makes a call count twice.
AddedOnce ==
    \A c \in Paths : \A n \in DOMAIN entries(c) :
        LET r == entries(c)[n] IN
        /\ Sent(r) /\ Op(r) = "add" /\ Chain(r) = c
        /\ H!KnowsPassword(content[r])
        /\ \A j \in DOMAIN entries(c) : entries(c)[j] = r => j = n

\* What a user is told about an addition is so: a success is in the chain,
\* through every later crash and restart and whatever removals were answered
\* before, and what was refused is not there and never will be, unless a write
\* that fails may have taken effect ("io").  A removal that timed out may still
\* come and take the block with it.
ToldTrue ==
    \A r \in Requests : Sent(r) /\ Op(r) = "add" /\ answer[r] # Null =>
        /\ answer[r] = "SUCCESS" /\ RemovalsSettled(r) => Holds(Chain(r), r)
        /\ answer[r] # "SUCCESS" /\ "io" \notin Faults => ~Holds(Chain(r), r)

\* Blocks are in the order of the calls: one whose success was known when
\* another was asked for comes before it.
InRealTime ==
    \A c \in Paths : \A n, j \in DOMAIN entries(c) :
        entries(c)[n] \in before[entries(c)[j]] => n < j

\* getBlocks returns a beginning of the chain that holds every block whose
\* addition was known to have succeeded when it was asked for.
ReadsCurrent ==
    \A q \in Requests :
        Sent(q) /\ Op(q) = "getBlocks" /\ answer[q] = "SUCCESS" /\ RemovalsSettled(q)
        => /\ \A n \in DOMAIN seen[q] :
                n \in DOMAIN entries(Chain(q)) /\ entries(Chain(q))[n] = seen[q][n]
           /\ \A r \in before[q] :
                /\ Op(r) = "add" /\ Chain(r) = Chain(q) /\ answer[r] = "SUCCESS"
                /\ RemovalsSettled(r)
                => \E n \in DOMAIN seen[q] : seen[q][n] = r

=============================================================================
