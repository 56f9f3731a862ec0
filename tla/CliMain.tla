------------------------------ MODULE CliMain -------------------------------
(***************************************************************************)
(* One invocation of the command line client (cli/src/Application.cpp):     *)
(* main() with initialize(), run() and processRequest().  What happens to   *)
(* the message between its sending and the return of Client::sendMessage is *)
(* the business of Service; here sendMessage returns a null pointer, a      *)
(* response or bytes that are none.                                         *)
(***************************************************************************)
EXTENDS Arguments, Cli

CONSTANT Garbage    \* bytes that do not parse as a response

ASSUME CliMainAssumption ==
    /\ HandlerMap = CliHandlers /\ Defaults = CliDefaults
    /\ Garbage # None /\ {None, Garbage} \cap {"SUCCESS", "ERROR"} = {}

VARIABLES
    phase,      \* where main() is
    sent,       \* the message given to sendMessage
    returned,   \* what sendMessage returned
    exit        \* the exit code

cliVars == <<phase, sent, returned, exit>>
mainVars == <<argumentVars, cliVars>>

ABORT == 134    \* the exit code of a process std::terminate has ended

Exit(code) == phase' = "exited" /\ exit' = code

\* The flags as they stand are taken, whether or not the parser accepted all.
Initialize_Lenient ==
    /\ phase = "initialize"
    /\ parsed # "parsing"
    /\ IF parsed = "terminated" THEN Exit(ABORT)
       ELSE phase' = "run" /\ UNCHANGED exit
    /\ UNCHANGED <<argumentVars, sent, returned>>

\* initialize(): nothing is done with options of a bad command line.
Initialize ==
    /\ phase = "initialize"
    /\ parsed # "parsing"
    /\ CASE parsed = "accepted" -> phase' = "run" /\ UNCHANGED exit
         [] parsed = "refused" -> Exit(-1)
         [] parsed = "terminated" -> Exit(ABORT)
    /\ UNCHANGED <<argumentVars, sent, returned>>

\* run(): no request is no error.  A request that cannot be serialized is one.
Run ==
    /\ phase = "run"
    /\ \/ ~Asks(option) /\ Exit(0) /\ UNCHANGED sent
       \/ Asks(option) /\ Exit(-1) /\ UNCHANGED sent
       \/ /\ Asks(option)
          /\ sent' \in requests(option)
          /\ phase' = "wait"
          /\ UNCHANGED exit
    /\ UNCHANGED <<argumentVars, returned>>

\* Bytes that are no response count as one.
processRequest_AnyBytes ==
    /\ phase = "wait"
    /\ returned' \in {None, Garbage, "SUCCESS", "ERROR"}
    /\ Exit(IF returned' # None THEN 0 ELSE -1)
    /\ UNCHANGED <<argumentVars, sent>>

\* processRequest(), once sendMessage returns: any response is a success,
\* whatever it says.
processRequest ==
    /\ phase = "wait"
    /\ returned' \in {None, Garbage, "SUCCESS", "ERROR"}
    /\ Exit(IF returned' \notin {None, Garbage} THEN 0 ELSE -1)
    /\ UNCHANGED <<argumentVars, sent>>

MainInit ==
    /\ ParseInit
    /\ phase = "initialize"
    /\ sent = None /\ returned = None /\ exit = None

MainNext ==
    \/ phase = "initialize" /\ Parse /\ UNCHANGED cliVars
    \/ Initialize \/ Run \/ processRequest

MainSpec == MainInit /\ [][MainNext]_mainVars

-----------------------------------------------------------------------------

\* What a command line asks for, read off the words themselves: the flags whose
\* last value is true.
Raised == {k \in Flags : Given(k) # {} /\ value(LastGiven(k)).text = "true"}

\* A message is sent only for a command line without a flaw, even when the flaw
\* comes behind a complete command; it is for the request the user asked for
\* that run() puts first, with the chain, the block and the data the words name
\* last; and it carries the hash of the password or no hash at all.
SentAsAsked ==
    sent # None =>
        /\ Flawless
        /\ \E n \in DOMAIN kinds :
            /\ kinds[n].key \in Raised
            /\ \A j \in 1..(n - 1) : kinds[j].key \notin Raised
            /\ \A f \in sent.fields : f.op = kinds[n].op
        /\ \A f \in sent.fields :
            /\ f.path # None => (f.path - Meant("--chain-id")) % SIZE = 0
            /\ f.op = "getBlock" => (f.index - Meant("--block-id")) % SIZE = 0
            /\ f.op \in {"create", "add"} => f.data = Meant("--data")
        /\ sent.auth \notin {None, Malformed} =>
            sent.auth = getHash(<<PASSWORD_SALT, Meant("--password")>>)

\* The exit code is 0 exactly when nothing was asked for or a response came:
\* no bad command line, no null pointer and no garbage ends in success.
ExitCodeTells ==
    phase = "exited" =>
        (exit = 0 <=> Flawless /\ (Raised = {} \/ returned \in {"SUCCESS", "ERROR"}))

=============================================================================
