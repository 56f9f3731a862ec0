--------------------------- MODULE CliMain_proofs ---------------------------
(***************************************************************************)
(* What the command line client sends and how it exits, for every command   *)
(* line, every width of int and size_t and every answer of sendMessage.     *)
(***************************************************************************)
EXTENDS CliMain, Arguments_proofs

\* main() parses its command line with the loop of Arguments, and then leaves
\* the options alone.
LEMMA MainParses == MainSpec => ParseSpec
<1>1. MainInit => ParseInit
  BY DEF MainInit
<1>2. [MainNext]_mainVars => [Parse]_argumentVars
  BY DEF MainNext, mainVars, Initialize, Run, processRequest
<1> QED
  BY <1>1, <1>2, PTL DEF MainSpec, ParseSpec

(***************************************************************************)
(* The inductive invariant: run() is reached with an accepted command line  *)
(* only, what was sent is one of the messages the options stand for, and    *)
(* the exit code is decided by the parser, by the flags or by what          *)
(* sendMessage has returned.                                                *)
(***************************************************************************)
MainInv ==
    /\ phase \in {"initialize", "run", "wait", "exited"}
    /\ phase \in {"initialize", "run"} => sent = None
    /\ phase # "exited" => returned = None
    /\ phase \in {"run", "wait"} => parsed = "accepted"
    /\ phase = "wait" => Asks(option)
    /\ sent # None => parsed = "accepted" /\ Asks(option) /\ sent \in requests(option)
    /\ phase = "exited" =>
        /\ parsed # "parsing"
        /\ exit = 0 <=> /\ parsed = "accepted"
                        /\ ~Asks(option) \/ returned \in {"SUCCESS", "ERROR"}

LEMMA MainInvHolds == MainSpec => []MainInv
<1>1. MainInit => MainInv
  BY DEF MainInit, MainInv
<1>2. ParseInv /\ MainInv /\ [MainNext]_mainVars => MainInv'
  <2> SUFFICES ASSUME ParseInv, MainInv, [MainNext]_mainVars PROVE MainInv'
    OBVIOUS
  <2>1. UNCHANGED option => Asks(option)' = Asks(option) /\ requests(option)' = requests(option)
    BY DEF Asks, requests, authData, field, asked
  <2>2. CASE UNCHANGED mainVars
    BY <2>1, <2>2 DEF mainVars, argumentVars, cliVars, MainInv
  <2>3. CASE phase = "initialize" /\ UNCHANGED cliVars
    BY <2>3 DEF cliVars, MainInv
  <2>4. CASE Initialize
    <3>1. UNCHANGED <<option, parsed, sent, returned>> /\ phase = "initialize"
          /\ parsed \in {"accepted", "refused", "terminated"}
      BY <2>4 DEF Initialize, argumentVars, ParseInv
    <3>2. CASE parsed = "accepted"
      BY <2>1, <2>4, <3>1, <3>2 DEF Initialize, MainInv
    <3>3. CASE parsed # "accepted"
      <4>1. Exit(-1) \/ Exit(ABORT)
        BY <2>4, <3>1, <3>3 DEF Initialize
      <4>2. phase' = "exited" /\ exit' # 0
        BY <4>1 DEF Exit, ABORT
      <4> QED BY <3>1, <3>3, <4>2 DEF MainInv
    <3> QED BY <3>2, <3>3
  <2>5. CASE Run
    <3>1. UNCHANGED <<option, parsed, returned>> /\ phase = "run" /\ parsed = "accepted"
          /\ returned = None /\ sent = None /\ returned \notin {"SUCCESS", "ERROR"}
      BY <2>5, CliMainAssumption DEF Run, argumentVars, MainInv
    <3>2. CASE UNCHANGED sent /\ phase' = "exited" /\ exit' \in Int /\ (exit' = 0 <=> ~Asks(option))
      BY <2>1, <3>1, <3>2 DEF MainInv
    <3>3. CASE Asks(option) /\ sent' \in requests(option) /\ phase' = "wait"
      BY <2>1, <3>1, <3>3 DEF MainInv
    <3> QED BY <2>5, <3>2, <3>3 DEF Run, Exit
  <2>6. CASE processRequest
    <3>1. UNCHANGED <<option, parsed, sent>> /\ phase = "wait" /\ parsed = "accepted"
          /\ Asks(option) /\ phase' = "exited"
      BY <2>6 DEF processRequest, Exit, argumentVars, MainInv
    <3>2. exit' = 0 <=> returned' \in {"SUCCESS", "ERROR"}
      <4>1. \A x \in {"SUCCESS", "ERROR"} : x \notin {None, Garbage}
        BY CliMainAssumption
      <4>2. CASE returned' \in {"SUCCESS", "ERROR"}
        BY <2>6, <4>1, <4>2 DEF processRequest, Exit
      <4>3. CASE returned' \in {None, Garbage}
        <5>1. exit' = -1
          BY <2>6, <4>3 DEF processRequest, Exit
        <5> QED BY <4>1, <4>3, <5>1
      <4> QED BY <2>6, <4>2, <4>3 DEF processRequest
    <3> QED BY <2>1, <3>1, <3>2 DEF MainInv
  <2> QED BY <2>2, <2>3, <2>4, <2>5, <2>6 DEF MainNext
<1> QED
  BY <1>1, <1>2, MainParses, ParseInvHolds, PTL DEF MainSpec

-----------------------------------------------------------------------------

\* The options of the client.
LEMMA OptionTypes ==
    /\ \A x \in Flags : x \in DOMAIN HandlerMap /\ HandlerMap[x] = "bool" /\ Defaults[x] = FALSE
    /\ \A x \in {"--chain-id", "--block-id"} :
        x \in DOMAIN HandlerMap /\ HandlerMap[x] = "int" /\ Defaults[x] \in Int
    /\ \A x \in {"--data", "--password"} : x \in DOMAIN HandlerMap
<1>1. DOMAIN kinds = 1..10
  BY DEF kinds
<1>2. Flags = {"--ping", "--create-chain", "--remove-chain", "--add-block", "--get-block",
               "--get-blocks", "--verify-chain", "--get-header", "--get-keys", "--get-info"}
  BY <1>1 DEF Flags, kinds
<1>3. HandlerMap = CliHandlers /\ Defaults = CliDefaults
  BY CliMainAssumption
<1>4. DOMAIN CliHandlers = Flags \cup Numbers \cup Texts
  BY DEF CliHandlers
<1>5. ASSUME NEW x \in Flags PROVE CliHandlers[x] = "bool"
  <2>1. x \notin Numbers /\ x \notin Texts
    BY <1>2 DEF Numbers, Texts
  <2> QED BY <2>1 DEF CliHandlers
<1>6. ASSUME NEW x \in Flags PROVE CliDefaults[x] = FALSE
  <2>1. /\ x # "--port" /\ x # "--addr" /\ x # "--password" /\ x # "--data"
        /\ x \notin {"--timeout", "--chain-id", "--block-id"}
    BY <1>2
  <2>2. x \in DOMAIN CliHandlers
    BY <1>4
  <2> QED BY <2>1, <2>2 DEF CliDefaults
<1>7. ASSUME NEW x \in {"--chain-id", "--block-id"}
      PROVE  x \in DOMAIN CliHandlers /\ CliHandlers[x] = "int" /\ CliDefaults[x] = 1
  <2>1. x \in Numbers /\ x \notin Texts /\ x \notin Flags
    BY <1>2 DEF Numbers, Texts
  <2>2. x \in DOMAIN CliHandlers /\ CliHandlers[x] = "int"
    BY <1>4, <2>1 DEF CliHandlers
  <2>3. CliDefaults[x] = 1
    <3>1. /\ x # "--port" /\ x # "--addr" /\ x # "--password" /\ x # "--data"
          /\ x \in {"--timeout", "--chain-id", "--block-id"}
      OBVIOUS
    <3> QED BY <2>1, <2>2, <3>1 DEF CliDefaults
  <2> QED BY <2>2, <2>3
<1>8. \A x \in {"--data", "--password"} : x \in DOMAIN CliHandlers
  BY <1>4 DEF Texts
<1>9. \A x \in Flags : x \in DOMAIN HandlerMap /\ HandlerMap[x] = "bool" /\ Defaults[x] = FALSE
  <2>1. \A x \in Flags : x \in DOMAIN CliHandlers
    BY <1>4
  <2> QED BY <1>3, <1>5, <1>6, <2>1, Zenon
<1>10. \A x \in {"--chain-id", "--block-id"} :
        x \in DOMAIN HandlerMap /\ HandlerMap[x] = "int" /\ Defaults[x] \in Int
  BY <1>3, <1>7
<1> QED
  BY <1>3, <1>8, <1>9, <1>10, Zenon

\* A flag is set when its last value is true.
LEMMA FlagsRaised ==
    ASSUME ParsedExactly, parsed # "parsing", NEW x \in Flags
    PROVE  option[x] <=> x \in Raised
<1>1. /\ x \in DOMAIN HandlerMap /\ HandlerMap[x] = "bool" /\ Defaults[x] = FALSE
      /\ option[x] = Meant(x)
  BY OptionTypes DEF ParsedExactly
<1>2. CASE Given(x) = {}
  BY <1>1, <1>2 DEF Meant, Raised
<1>3. CASE Given(x) # {}
  <2>1. option[x] = (value(LastGiven(x)).text = "true")
    BY <1>1, <1>3 DEF Meant, convert
  <2> QED BY <1>3, <2>1 DEF Raised
<1> QED
  BY <1>2, <1>3

\* run() takes the first of the requests that were asked for.
LEMMA AskedIsFirst ==
    ASSUME NEW opt, Asks(opt)
    PROVE  \E n \in DOMAIN kinds :
            /\ opt[kinds[n].key]
            /\ \A j \in 1..(n - 1) : ~opt[kinds[j].key]
            /\ asked(opt) = kinds[n].op
<1> DEFINE P(n) == opt[kinds[n].key]
<1>1. DOMAIN kinds = 1..10
  BY DEF kinds
<1>2. \E n \in 1..10 : P(n)
  BY <1>1 DEF Asks
<1>3. \E n \in 1..10 : P(n) /\ \A j \in 1..(n - 1) : ~P(j)
  <2> HIDE DEF P
  <2> QED BY <1>2
<1> QED
  BY <1>1, <1>3 DEF asked

\* An int and the size_t it becomes differ by a multiple of SIZE.
LEMMA SizeWraps ==
    ASSUME NEW n \in Int
    PROVE  (size_t(n) - n) % SIZE = 0
<1> DEFINE q == n \div SIZE
<1>1. SIZE \in Nat \ {0}
  BY CliAssumption
<1>2. q \in Int /\ n = SIZE * q + size_t(n) /\ size_t(n) \in Int
  BY <1>1 DEF size_t
<1>3. size_t(n) - n = SIZE * (-q)
  BY <1>1, <1>2
<1>4. \A m \in Int : (SIZE * m) % SIZE = 0
  BY <1>1
<1> QED
  BY <1>2, <1>3, <1>4

\* The client sends what the words of its command line ask for, and only for a
\* command line without a flaw: for every command line and every width of int
\* and size_t.
THEOREM SendsAsAsked == MainSpec => []SentAsAsked
<1>1. ParseInv /\ MainInv => SentAsAsked
  <2> SUFFICES ASSUME ParseInv, MainInv, sent # None
               PROVE  SentAsAsked
    BY DEF SentAsAsked
  <2>1. parsed = "accepted" /\ Asks(option) /\ sent \in requests(option)
    BY DEF MainInv
  <2>2. ParsedExactly /\ Flawless /\ parsed # "parsing"
    BY <2>1, ReadsWhatIsMeant DEF ParsedExactly
  <2>3. \A x \in DOMAIN HandlerMap : option[x] = Meant(x)
    BY <2>2 DEF ParsedExactly
  <2>4. sent.fields = {field(option)} /\ sent.auth \in authData(option)
    BY <2>1 DEF requests
  <2>5. PICK n \in DOMAIN kinds :
            /\ option[kinds[n].key]
            /\ \A j \in 1..(n - 1) : ~option[kinds[j].key]
            /\ asked(option) = kinds[n].op
    BY <2>1, AskedIsFirst
  <2>6. field(option).op = asked(option)
    BY DEF field
  <2>7. /\ kinds[n].key \in Raised
        /\ \A j \in 1..(n - 1) : kinds[j].key \notin Raised
        /\ \A f \in sent.fields : f.op = kinds[n].op
    <3>1. \A j \in DOMAIN kinds : option[kinds[j].key] <=> kinds[j].key \in Raised
      BY <2>2, FlagsRaised DEF Flags
    <3>2. \A j \in 1..(n - 1) : j \in DOMAIN kinds
      BY DEF kinds
    <3> QED BY <2>4, <2>5, <2>6, <3>1, <3>2
  <2>8. \A x \in {"--chain-id", "--block-id"} : (size_t(option[x]) - Meant(x)) % SIZE = 0
    <3>1. \A x \in {"--chain-id", "--block-id"} : option[x] \in Int /\ option[x] = Meant(x)
      BY <2>3, OptionTypes, IntsAreInts
    <3> QED BY <3>1, SizeWraps
  <2>9. ASSUME NEW f \in sent.fields
        PROVE  /\ f.path # None => (f.path - Meant("--chain-id")) % SIZE = 0
               /\ f.op = "getBlock" => (f.index - Meant("--block-id")) % SIZE = 0
               /\ f.op \in {"create", "add"} => f.data = Meant("--data")
    <3>1. /\ f.path # None => f.path = size_t(option["--chain-id"])
          /\ f.op = "getBlock" => f.index = size_t(option["--block-id"])
          /\ f.op \in {"create", "add"} => f.data = option["--data"]
      BY <2>4 DEF field
    <3> QED BY <2>3, <2>8, <3>1, OptionTypes
  <2>10. sent.auth \notin {None, Malformed} =>
            sent.auth = getHash(<<PASSWORD_SALT, Meant("--password")>>)
    <3>1. authData(option) \subseteq
            {None, Malformed, getHash(<<PASSWORD_SALT, option["--password"]>>)}
      BY DEF authData
    <3> QED BY <2>3, <2>4, <3>1, OptionTypes
  <2> QED BY <2>2, <2>7, <2>9, <2>10 DEF SentAsAsked
<1> QED
  BY <1>1, MainParses, ParseInvHolds, MainInvHolds, PTL

\* The exit code tells whether the client did what it was asked: for every
\* command line and everything sendMessage may return.
THEOREM ExitCodes == MainSpec => []ExitCodeTells
<1>1. ParseInv /\ MainInv => ExitCodeTells
  <2> SUFFICES ASSUME ParseInv, MainInv, phase = "exited"
               PROVE  exit = 0 <=> Flawless /\ (Raised = {} \/ returned \in {"SUCCESS", "ERROR"})
    BY DEF ExitCodeTells
  <2>1. /\ parsed # "parsing"
        /\ exit = 0 <=> /\ parsed = "accepted"
                        /\ ~Asks(option) \/ returned \in {"SUCCESS", "ERROR"}
    BY DEF MainInv
  <2>2. ParsedExactly /\ (parsed = "accepted" <=> Flawless)
    BY <2>1, ReadsWhatIsMeant DEF ParsedExactly
  <2>3. \A j \in DOMAIN kinds : option[kinds[j].key] <=> kinds[j].key \in Raised
    BY <2>1, <2>2, FlagsRaised DEF Flags
  <2>4. Asks(option) <=> Raised # {}
    BY <2>3 DEF Asks, Raised, Flags
  <2> QED BY <2>1, <2>2, <2>4
<1> QED
  BY <1>1, MainParses, ParseInvHolds, MainInvHolds, PTL

=============================================================================
