-------------------------------- MODULE Cli ---------------------------------
(***************************************************************************)
(* The command line client (cli/src/Application.cpp) as operators: the      *)
(* options it knows, and the message it makes of them.  A message has the   *)
(* form of module Handler, which receives it.                               *)
(***************************************************************************)
EXTENDS Integers, Sequences, Crypto

CONSTANTS
    None,           \* a part of a message that is not there
    Malformed,      \* authentication data without a hash
    PASSWORD_SALT,
    HashFails,      \* SHA256::getHash may fail
    SIZE            \* the number of values of a size_t

ASSUME CliAssumption ==
    SIZE \in Nat \ {0} /\ Malformed # None /\ HashFails \in BOOLEAN

\* The requests in the order in which run() looks for them: the key that asks
\* for one, and the request.
kinds ==
    << [key |-> "--ping", op |-> "ping"],
       [key |-> "--create-chain", op |-> "create"],
       [key |-> "--remove-chain", op |-> "remove"],
       [key |-> "--add-block", op |-> "add"],
       [key |-> "--get-block", op |-> "getBlock"],
       [key |-> "--get-blocks", op |-> "getBlocks"],
       [key |-> "--verify-chain", op |-> "verify"],
       [key |-> "--get-header", op |-> "header"],
       [key |-> "--get-keys", op |-> "keys"],
       [key |-> "--get-info", op |-> "info"] >>

Flags == {kinds[n].key : n \in DOMAIN kinds}
Numbers == {"--port", "--timeout", "--chain-id", "--block-id"}
Texts == {"--addr", "--password", "--data"}

CliHandlers ==
    [k \in Flags \cup Numbers \cup Texts |->
        CASE k \in Flags -> "bool" [] k \in Numbers -> "int" [] k \in Texts -> "string"]

CliDefaults ==
    [k \in DOMAIN CliHandlers |->
        CASE k \in Flags -> FALSE
          [] k = "--port" -> 8888
          [] k \in {"--timeout", "--chain-id", "--block-id"} -> 1
          [] k = "--addr" -> "127.0.0.1"
          [] k = "--password" -> ""
          [] k = "--data" -> "{}"]

-----------------------------------------------------------------------------

\* An int where a size_t is expected.
size_t(n) == n % SIZE

Asks(opt) == \E n \in DOMAIN kinds : opt[kinds[n].key]

\* run(): the first request that was asked for, and no other.
asked(opt) ==
    kinds[CHOOSE n \in DOMAIN kinds :
            opt[kinds[n].key] /\ \A j \in 1..(n - 1) : ~opt[kinds[j].key]].op

\* setAuthData, which every request but ping calls: without a password, or when
\* it cannot be hashed, the authentication data is there and empty.
authData(opt) ==
    CASE asked(opt) = "ping" -> {None}
      [] asked(opt) # "ping" /\ opt["--password"] = "" -> {Malformed}
      [] asked(opt) # "ping" /\ opt["--password"] # "" ->
            {getHash(<<PASSWORD_SALT, opt["--password"]>>)}
                \cup (IF HashFails THEN {Malformed} ELSE {})

\* The methods ping() to getChainInfo().
field(opt) ==
    LET op == asked(opt) IN
    [op |-> op,
     path |-> IF op = "ping" THEN None ELSE size_t(opt["--chain-id"]),
     data |-> IF op \in {"create", "add"} THEN opt["--data"] ELSE None,
     index |-> IF op = "getBlock" THEN size_t(opt["--block-id"]) ELSE 0]

requests(opt) ==
    [parses : {TRUE}, auth : authData(opt), fields : {{field(opt)}}]

=============================================================================
