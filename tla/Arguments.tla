----------------------------- MODULE Arguments ------------------------------
(***************************************************************************)
(* IApplication::parseArgs (src/System/IApplication.cpp), the command line  *)
(* parser of the daemon and of the client: a loop that takes the words of   *)
(* the command line two by two, a key and its value, and stores each value  *)
(* in the variable its key is bound to, as it goes.                         *)
(*                                                                         *)
(* A word is its text and what its beginning says as a number, if it says   *)
(* anything: std::stoi skips leading blanks, reads as many digits as there  *)
(* are and ignores the rest of the word.                                    *)
(***************************************************************************)
EXTENDS Integers, Sequences

CONSTANTS
    HandlerMap,     \* HandlerMap[key]: the type of the variable of a key
    Defaults,       \* Defaults[key]: its value before the command line is read
    Words,          \* the words users type
    NaN,            \* what a word without leading digits says as a number
    INT_MAX,        \* an int is in -INT_MAX - 1 .. INT_MAX
    MaxWords        \* bound: the words after the name of the program

ASSUME ArgumentsAssumption ==
    /\ \A key \in DOMAIN HandlerMap : HandlerMap[key] \in {"bool", "int", "string"}
    /\ Defaults = [key \in DOMAIN HandlerMap |-> Defaults[key]]
    /\ NaN \notin Int
    /\ Words \subseteq [text : STRING, number : Int \cup {NaN}]
    /\ INT_MAX \in Nat /\ MaxWords \in Nat

VARIABLES
    argv,       \* the command line, without the name of the program
    i,          \* the loop variable
    option,     \* option[key]: the variable the key is bound to
    parsed      \* how parseArgs ended; "parsing" while it runs

argumentVars == <<argv, i, option, parsed>>

-----------------------------------------------------------------------------
\* std::stoi: whether it throws, and what.

FitsInt(n) == n \in (-INT_MAX - 1)..INT_MAX

invalid_argument(word) == word.number = NaN
out_of_range(word) == ~invalid_argument(word) /\ ~FitsInt(word.number)

\* What the variable of a key becomes.
convert(key, word) ==
    CASE HandlerMap[key] = "bool" -> word.text = "true"
      [] HandlerMap[key] = "int" -> word.number
      [] HandlerMap[key] = "string" -> word.text

Throws(key, word) ==
    HandlerMap[key] = "int" /\ (invalid_argument(word) \/ out_of_range(word))

-----------------------------------------------------------------------------

\* A key is the first word of a pair; known when the program bound it.
Key == argv[i].text
Known == Key \in DOMAIN HandlerMap

\* Whether the loop is at a pair with both its words.
AtPair == parsed = "parsing" /\ i < Len(argv)

End(how) == parsed' = how /\ UNCHANGED <<argv, i, option>>

\* The last word has no partner.
MissingArgument == parsed = "parsing" /\ i = Len(argv) /\ End("refused")

UnknownKey == AtPair /\ ~Known /\ End("refused")

\* A word for a word: the value of the pair is taken for the next key.
Assign_OneStep ==
    /\ AtPair /\ Known
    /\ ~Throws(Key, argv[i + 1])
    /\ option' = [option EXCEPT ![Key] = convert(Key, argv[i + 1])]
    /\ i' = i + 1
    /\ UNCHANGED <<argv, parsed>>

Assign ==
    /\ AtPair /\ Known
    /\ ~Throws(Key, argv[i + 1])
    /\ option' = [option EXCEPT ![Key] = convert(Key, argv[i + 1])]
    /\ i' = i + 2
    /\ UNCHANGED <<argv, parsed>>

\* The exception is caught, and the variable keeps its value.
InvalidArgument ==
    /\ AtPair /\ Known
    /\ HandlerMap[Key] = "int" /\ invalid_argument(argv[i + 1])
    /\ End("refused")

\* The exception is not caught, and the process ends in std::terminate.
OutOfRange ==
    /\ AtPair /\ Known
    /\ HandlerMap[Key] = "int" /\ out_of_range(argv[i + 1])
    /\ End("terminated")

Accept == parsed = "parsing" /\ i > Len(argv) /\ End("accepted")

-----------------------------------------------------------------------------

CommandLines == UNION {[1..n -> Words] : n \in 0..MaxWords}

ParseInit ==
    /\ argv \in CommandLines
    /\ i = 1
    /\ option = Defaults
    /\ parsed = "parsing"

Parse ==
    \/ MissingArgument \/ UnknownKey \/ Assign \/ InvalidArgument
    \/ OutOfRange \/ Accept

ParseSpec == ParseInit /\ [][Parse]_argumentVars

-----------------------------------------------------------------------------
\* The options of the daemon: ChainDB::initialize and the constructor.

DaemonHandlers ==
    [k \in {"--daemonize", "--log-path", "--storage-path", "--password", "--port"} |->
        CASE k = "--daemonize" -> "bool" [] k = "--port" -> "int" [] OTHER -> "string"]

DaemonDefaults ==
    [k \in DOMAIN DaemonHandlers |->
        CASE k = "--daemonize" -> TRUE
          [] k = "--port" -> 8888
          [] k = "--log-path" -> "chain_db_service.log"
          [] OTHER -> ""]

-----------------------------------------------------------------------------
\* What a command line means, without a loop.

\* Pair n of the command line, and what is wrong with it.
Pairs == 1..((Len(argv) + 1) \div 2)
key(n) == argv[2 * n - 1].text
HasValue(n) == 2 * n <= Len(argv)
value(n) == argv[2 * n]

Flawed(n) ==
    \/ ~HasValue(n)
    \/ key(n) \notin DOMAIN HandlerMap
    \/ HandlerMap[key(n)] = "int" /\ ~(value(n).number \in Int /\ FitsInt(value(n).number))

Flawless == \A n \in Pairs : ~Flawed(n)

\* The pairs before the first flaw, and the last of them for a key.
Taken == {n \in Pairs : \A j \in 1..n : ~Flawed(j)}
Given(k) == {n \in Taken : key(n) = k}
LastGiven(k) == CHOOSE n \in Given(k) : \A j \in Given(k) : j <= n

Meant(k) ==
    IF Given(k) = {} THEN Defaults[k] ELSE convert(k, value(LastGiven(k)))

\* When parseArgs ends, the variables hold what the last pair before the first
\* flaw says for each key, and it has ended well exactly when there is no flaw:
\* a later pair wins over an earlier one of the same key, a value may look like
\* a key, and nothing behind a flaw counts.
ParsedExactly ==
    parsed # "parsing" =>
        /\ parsed = "accepted" <=> Flawless
        /\ option = [k \in DOMAIN HandlerMap |-> Meant(k)]

\* The test ParseInvalidInteger of tests/System/Application_test.cpp: a value
\* that is no int is refused.
InvalidIntegersRefused ==
    \A n \in Pairs :
        /\ parsed # "parsing"
        /\ Flawed(n) /\ \A j \in 1..(n - 1) : ~Flawed(j)
        /\ HasValue(n) /\ key(n) \in DOMAIN HandlerMap
        => parsed = "refused"

=============================================================================
