# ChainDB: a TLA+ model

ChainDB is a daemon that keeps blockchains, each in a LevelDB (or RocksDB)
database of its own, and serves requests over ZeroMQ. This directory holds TLA+
modules that model its storage layer, its service layer and its command line client,
each by itself and all of them together, TLC configurations that check them on small
instances, and theorems that TLAPS checks for every value of the constants. Paths below are relative to the repository.

## 1. The system

| Component | State | Operations | Hard parts |
|---|---|---|---|
| `src/Crypto` (SHA256, ECDSA, Random) | none | hash, double hash, key, sign, verify | each call may fail |
| `src/Storage/Storage.cpp` | the open database `_db`; the directory on disk; LevelDB's LOCK | `create`, `open`, `close`, `get`, `set`, `remove` | a failed synchronous write may or may not be on disk; `DestroyDB` deletes file by file; a locked database refuses at once |
| `src/Storage/Chain.cpp`, `Block.cpp` | a header (version, index, data, keys) and blocks 1 to index, as protobuf messages under keys | `create`, `addBlock`, `getBlock`, `getBlocks`, `remove`, `getHeader` | `create` is two durable steps; only one of the two `getHeader` looks at the version |
| `src/Storage/Manager.cpp` | none between calls | `createChain`, `addBlock`, `getBlock`, `getBlocks`, `removeChain`, `verifyChain`, `getChainHeader`, `getChainInfo` | a call opens the database one to three times and nothing is locked in between |
| `src/Handler.cpp` | the password | parse, authenticate, dispatch, respond | first request present wins; no response when it cannot be serialized |
| `src/Network/Server/Server.cpp` | the stop flag, the thread, the REP socket | `start`, `stop`, `join`, `process` | stop before the loop; a REP socket without a response hears no further request |
| `src/Network/Client/Client.cpp` | a socket per call | `sendMessage` | timeout against a late answer; closing lingers |
| `src/ChainDB.cpp`, `src/Main.cpp` | `_server` | `initialize`, `run`, `stop`, the signal handler | signals before there is a server, or delivered to the server thread |
| `src/System/IApplication.cpp` | the variables the options are bound to | `parseArgs` | options are stored as they are read, before a flaw further on is found; numbers at the limits of an int |
| `cli/src/Application.cpp` | the options | `initialize`, `run`, one method per request, `processRequest` | several requests in one command line; int used as `size_t`; which ends are failures |

The server thread calls `Handler::handleMessage`, which makes one call of
`Manager`; `Manager` uses `Chain`, which makes a `Storage` object for every
session. The signal handler and the main thread share `_server` and the flag with
the server thread. Servers that were given the same `--storage-path` share the
databases and nothing else.

What makes it correct: a database never loses or changes a block it has
acknowledged; its header counts exactly the blocks that are there; `verifyChain`
accepts what `addBlock` built; a call answers according to the state of the chain,
and returns; a request is executed at most once and its response goes to the call
that sent it; a stop ends the daemon. For users of the client: a command line is
understood or refused, what they are told of a chain is so and stays so, and a call
they gave up takes effect once or not at all.

## 2. The modules

| Module | Models |
|---|---|
| `Crypto` | hashes and signatures as terms: no collisions, and a signature verifies under exactly one key |
| `Storage` | database directories and the operations of the class `Storage`, each with its failures |
| `Chain` | the layout of a chain in a database, as operators on its key-value map |
| `Manager` | the calls of `Manager`, session by session, by any number of servers, with crashes |
| `Ledger` | the abstract specification: named ledgers that are founded, grow at the end and go as a whole |
| `ManagerProperties` | the properties of `Manager`, and the refinement mapping to `Ledger` |
| `Manager_proofs`, `Ledger_proofs` | theorems about `Manager`; the second that it implements `Ledger` |
| `Handler` | messages, password, dispatch and responses, on top of `Manager` |
| `HandlerProperties`, `Handler_proofs` | its properties and theorems |
| `Service` | main thread, signals, crashes, server thread, ZeroMQ sockets, clients |
| `ServiceProperties`, `Service_proofs` | its properties and theorems |
| `Verification` | how a block is linked and signed, and the loop of `verifyChain` |
| `Alteration`, `Alteration_proofs` | a stored chain that is changed behind the program's back, and what `verifyChain` says of it; theorems about that |
| `Arguments`, `Arguments_proofs` | `parseArgs`, and what a command line means; theorems |
| `Cli` | the options of the command line client and the message it makes of them |
| `CliMain`, `CliMain_proofs` | an invocation of the client, from its command line to its exit code; theorems |
| `System`, `System_proofs` | users, client, network, server thread, handler and storage together, and theorems about that |
| `MCManager`, `MCHandler`, `MCService`, `MCAlteration`, `MCArguments`, `MCCli`, `MCSystem` | symmetry sets, payloads and their sizes, words and scripts for TLC |

`Handler` extends `Manager`, which extends `Chain` and `Verification`; these rest on
`Storage` and `Crypto`. What a request does is abstract in `Service`. `System` extends
`Service` and `Cli` and instantiates `HandlerProperties`, and with it everything below.

### Manager and the code

`disk[c]` is the directory of chain `c`: absent, damaged, or present with a map
from keys to packed messages. `makeStoragePath` is injective, so a path stands for
its chain id. `db[p]` is the database the one live `Storage` object of server `p`
has open; LevelDB's LOCK is `Locked`, derived from `db`. `pc`, `req`, `hdr`, `blk`
are the program point, the arguments and the locals `header` and `block` of the call
in progress, `res` its result.

A call is a sequence of sessions. `OpenStore` or `OpenRefused` is the constructor
and `open()` of a `Storage` object; the action that follows (`ReadHeader`,
`ReadLast`, `AppendBlock`, `ReadBlock`, `ReadBlocks`) is the rest of the session
with the object's destructor, and the computation up to the next session.
Open and body are two actions, so that others meet the LOCK and a crash may fall
between them. Creation is `CreateOpen` and `CreateSet`, because the empty database
and the header reach the disk separately.

Faults are switched on per run. `"io"`: any system call below LevelDB may fail; a
failed `set` has written the whole batch or nothing; a failed `DestroyDB` leaves the
database, a damaged directory or nothing. `"crypto"`: OpenSSL or libsecp256k1 report
an error. `"crash"`: the process dies at any point of a call, the system call it was
in having taken effect or not.

`acked` is a history variable: the blocks `addBlock` returned, with their indices,
until `removeChain` changes the directory. `created` counts creations.

### Handler and the code

`message[p]` is the message server `p` works on or has answered last, `response[p]`
the response, `Unanswered` until there is one. A message does not parse, or has
authentication data (a hash, one of the wrong size, or none) and a set of requests.
`Answer` is `handleMessage` where it needs no call of `Manager` (all refusals, and
ping); `Call` is `handleMessage` up to the call, `Work` a step of the call, `Reply`
the rest of the handler with `makeResponse`, whose serialization may fail. The first
request in the order of the tests in `handleMessage` is `selected`. `Companions` are
the requests that may come along with another one in a message.

### Service and the code

`main` is where `main()` and `ChainDB::run` are, `thread` where `Server::process`
is: `setup`, `test` (the loop condition), `poll`, `handle`, `respond`, `close`,
`ended`. `isStopped` is the flag; the code's name is the reverse of its meaning, it is
set while the server is to run. `sending` is the state of the REP socket, which after
a request takes no other until a response has been sent. A request is the pair of a
client and the number of its call. `wire`, `inbox` and `outbox` are ZeroMQ's: a
request still in the client's pipe, one that has reached the server's socket, a
response on its way back. A client's call is `wait`ing for the response, or, after a
timeout, `linger`ing in `zmq_ctx_destroy` until the request has left. A dead server
loses its inbox and some of its outbox; requests in a client's pipe reach the next
one. `Patient` clients were given a negative timeout. `executed`, `outcome`,
`stopping` and `launches` are history variables.

### Arguments, Cli, CliMain and the code

`i` is the loop variable of `parseArgs`, `option[key]` the variable a key is bound to,
`parsed` how the function ended. One turn of the loop is one action: `Assign`,
or one of the ends `MissingArgument`, `UnknownKey`, `InvalidArgument` (the exception
that is caught) and `OutOfRange` (the one that is not). A word has a text and what
`std::stoi` makes of it. `Meant` and `Flawed` define the meaning of a command line
without a loop. `Cli` has the table of options, and `requests`, the message that
the ten methods `ping` to `getChainInfo` and `setAuthData` build, in the form in which
`Handler` takes it. `CliMain` is `main()`: `Initialize`, `Run`, `processRequest`.

### Alteration and the code

A chain grows by `AddBlock`, with the block `Manager::addBlock` computes. Then stored
pieces are changed: a field of a block (its hash also computed anew, its signature also
made with another key), a block dropped, repeated or swapped with another, the header.
`built` keeps the chain as it was. Everything is possible but a signature with the
chain's own key on something `addBlock` has not signed.

### System and the code

`Type` is a user who runs the client: the command is taken from `Script`, its message is
what `Cli` builds, and `Send` of `Service` puts it into the pipe. Between `Receive` and
`Respond` the server thread is in `handleMessage`: `HandleAtOnce` is `Answer` of
`Handler`; `HandleBegins`, `HandleWorks` and `HandleEnds` are its `Call`, `Work` and
`Reply`; the first and the last are at the same time the `Handle` of `Service`, with the
handler's status as the response. `Dies` is the crash of `Service` and of `Handler`. All other steps
are those of `Service`. The data of a call is the call itself, so that a chain tells whose
blocks it has. `content` is what was sent; `answer`, `before` and `seen` are history:
what users were told, the calls they had an answer to when they sent the next, the
payloads a read returned.

## 3. The runs

| Run | Instance | Shows |
|---|---|---|
| `sequential` | 1 server, 2 chains (one of another build), no faults, every call | `TypeOK`; `RepliesExact`: a call succeeds exactly when the chain is in the state it needs and returns or does what it is for; a chain comes only where there was none |
| `faults` | 1 server, 3 blocks, all faults, every call | `ChainsVerify`: `verifyChain` accepts what one server built, and stored `prev_hash` fields link the blocks, although `verifyChain` does not compare them |
| `shared` | 2 servers, 1 chain (first another build's), io faults and crashes, fair | `Contiguous`, `AckedDurable`, `AppendOnly`; `LedgerSpec`: the directory refines `Ledger`; `EveryCallReturns` |
| `readme` | 2 servers, no faults | violates `SignedWithChainKey` |
| `fork` | 2 servers, no faults, no removal | violates `ChainsVerify` |
| `handler` | 1 server with a password, 4 kinds of authentication, payloads at and above the limit, messages with a removal besides, all faults but that of a serialization, fair | `HandlerTypeOK`; `Guarded`: without the password a message reaches neither Manager nor data; `StoredFits`; `Truthful`: a success has happened, for the request that comes first in the protocol, and carries what is stored, and a refusal gives its reason; `MessagesAnswered`: every message gets a response, unless the process dies |
| `service_safety` | 2 clients with 2 calls, 2 launches | `TypeOK`, `AtMostOnce`, `AnswersMatch` |
| `service_liveness` | 1 client with and 1 without a timeout, 2 launches, a handler that may fail to respond, fair | `StopHonoured`, `SendReturns`, `ListensOrEnds`, `SentIsExecuted`, `WaitersAnswered` |
| `alteration` | chains of 3 blocks, altered 3 times | `NoticesAlterations`: `verifyChain` accepts exactly what `addBlock` built, up to blocks missing at the end |
| `cli` | every command line of up to 5 of 12 words | `ParsedExactly`, `SentAsAsked`, `ExitCodeTells` |
| `integers` | the daemon's options, 2 words | violates `InvalidIntegersRefused` |
| `system` | 2 users, 3 calls, a daemon that dies, or goes mute after a response that cannot be serialized, and is started again, timeouts | `AddedOnce`, `ToldTrue`, `InRealTime`, `ReadsCurrent` |

**Three disagreements.** Two come from `Manager::addBlock`, which reads the header
and the last block in early sessions and appends in a later one, where
`Chain::addBlock` compares nothing but the version. One server, which makes one call at
a time, is not affected. With two servers on one storage directory:

- `fork`: both read the chain, both append. Both calls succeed, the second block
  links to the same predecessor as the first, and `verifyChain` fails from then on,
  while the test `VerifyChain` (`tests/Storage/Manager_test.cpp:143-146`) takes a
  successful `addBlock` to leave a chain that verifies.
- `readme`: between the sessions the other server removes the chain and creates it
  again. The block lands in the new chain, signed with the key of the old one;
  `README.md:8-9` says that each database has its own key and all blocks are signed
  with it.

The third is in `parseArgs`:

- `integers`: `std::stoi` throws `std::out_of_range` for a number that does not fit an
  int, `parseArgs` catches `std::invalid_argument` only (`src/System/IApplication.cpp:83`),
  and the process ends in `std::terminate`. The test `ParseInvalidInteger`
  (`tests/System/Application_test.cpp:158-173`) expects `parseArgs` to return false for
  a value that is no int.

**Bounds.** `MaxBlocks` stops additions to a chain of that length; 2 is enough for a
block that follows the header and one that follows a block, and for a second server's
block to come in between, and 3 adds a middle block. `MaxCreates` bounds creations: a
block that outlives its chain contains the hash of that chain, so without it hashes
nest for ever; 2 gives the removal and the re-creation. One chain is
enough where chains do not interact; `sequential` has two. `Ops` restricts the calls:
the `shared` run leaves out reads, which change nothing on disk, end by the same
steps, and are in `handler`, where every message gets its response. `MCManager` permutes data,
keys and servers where no temporal property is checked, and they are only
compared. `Companions = {"remove"}` makes the order of the tests in `handleMessage`
matter in both directions, and matter most. `MaxCalls = 2` gives a client a call after a
timed-out one, `MaxLaunches = 2` a restart with requests pending. An int has 4 bits
(`INT_MAX = 7`) and a `size_t` 5 (`SIZE = 32`), so that both ends and the sign are met with few words; five
words (`MaxWords`) are two pairs and half a third: a later pair against an earlier one,
and a flaw behind a complete command. Three alterations are a change, the repair of
what betrays it, and one more (`MaxAlterations`). In `system` the script is: one user
creates the chain and then adds, reads or removes; the other adds, with or without
the password; so that each of these races an addition that may time out.
Service, System, CliMain, Arguments and Alteration may stop (no calls left, daemon down,
program ended, bound reached), so their runs do not check for deadlock; the others do.

**Fairness.** `Manager`: weak fairness of each server's steps, as its thread keeps
running; no fairness for calls to arrive. A step is always possible since a LOCK is
refused and not waited for. `Handler`: the same, with the reply. `Service`: weak fairness of the main thread, the server
thread, the delivery of requests and responses and each client's call, whose poll ends
by itself unless the client is `Patient`; strong fairness of the receipt of each request, as ZeroMQ serves the peers of
a socket in turn. None for signals, crashes, launches or sends. `SendReturns` also
assumes that from some point on a server listens, because the close of the socket
waits for that. `SentIsExecuted` and `WaitersAnswered` assume `MuteIsEnded`: after a request
without a response the REP socket hears nothing any more and nothing in the daemon notices,
so somebody else has to end it. What such a daemon had received is lost; what is still in a
client's pipe must be executed by the next one. That a mute daemon obeys a stop
(`StopHonoured`) and keeps no client with a timeout (`SendReturns`) is not assumed.
`MessagesAnswered` says nothing where a serialization may fail, because that is when there
is no response. A peer that stays connected without reading is not modelled.

## 4. The proofs

`Manager_proofs`, for any number of servers, chains, payloads, keys, blocks and any faults:

- `TypeCorrect`, `StoresComplete`: `Spec => []TypeOK` and `Spec => []Contiguous`. The
  inductive invariant `Inv` adds `SessionsOK`: what is known of a server at each program
  point. A session is open only at a program point that has one and on the database its call
  names; that database is present and no other server has it open; in `createSet` it is
  empty and `hdr` is a new header. Without it a batch could go to a directory that does not
  exist, and the write of a header could reset a chain.
- `NothingTakenOut`: `Spec => AppendOnly`, step by step from `Inv`.
- `AcknowledgedBlocksStay`: `Spec => []AckedDurable`. From `Inv`, every change of a
  directory is one of a few kinds (its `Effect`): nothing, a new database, the first header,
  an addition at the end, a removal. Only the last takes a block out, and it clears `acked`.
- `BuiltChainsVerify`: `OneServer => (Spec => []ChainsVerify)`. `ChainsVerify` alone is not
  inductive: the block `append` writes was built from a header and a last block read
  sessions earlier. `LinkedInv` says of the storage that every block of every chain is
  linked and signed (`StoresLinked`), and of a call that what it read is still so and its
  block is right for the present end of the chain (`Current`). The second part holds because
  nobody writes between the sessions of a call, which is all `OneServer` is used for; the
  run `fork` shows that with two servers the theorem fails.
- `ExactReplies`: `OneServer /\ Faultless => (Spec => RepliesExact)`, one lemma for the last
  session of each call, and one for the start of a chain (`ConstructionIsFounded`). Faults are excluded because a call that meets one may fail on any
  chain; two servers, because the state a call is judged by is the one it ends in. That a
  chain which is read in a later session is the one the header was read from is `Current`
  again.

`Ledger_proofs`, for the same constants:

- `DirectoryIsLedger`: `Spec => LedgerSpec`. Besides `Inv` it needs `Carried` (in
  `Manager_proofs`): the header `createSet` writes and the block `append` writes carry the
  data of the request, and a new header the version of this build; without that the founding
  data or an entry could be anything. A step belongs to one process and changes the ledger
  of the one chain its call names (`OneAtATime`). Then it is one of five: an empty database
  comes (`Coming`, a `Reserve`, or an `Abandon` if the creator fails in the same step), gets
  its header (`Founding`), is left without one (`GivingUp`), gets a block (`Appending`), or
  goes (`Going`); all other steps are stutters. A database under construction is locked, so
  no removal reaches it.

`Handler_proofs`, for any number of servers, any password, limit, messages and faults:

- `HandlerUsesManager`: `HandlerSpec => Spec`, so the theorems above hold for what messages
  bring about.
- `HandlerTypeCorrect` and `PasswordGuards`: `HandlerTypeOK` and `Guarded`. `Guarded` alone
  is not inductive: it does not exclude that a message without the password is still
  unanswered and is shown data later. In the invariant a call runs only for a message that
  has no response yet (`Busy`), and a message without the password has its response already,
  one without data (`Refused`).
- `PayloadsFit`: `StoredFits`. The length is tested before the call starts and the data is
  written one to three sessions later: `CallsFit` says that the request of a running call
  fits, `Carried` takes that to what is written, and nothing else is written (`Effect`).
- `ResponsesTrue`: `OneServer => (HandlerSpec => []Truthful)`, with all faults. The
  invariant, `TruthInv`, says the same of a result that is not yet a response: what a call
  has returned to the handler is true of the directory (`Returned`, in `ReportedBy`), and so
  is what a response says (`TruthfulBy`). Each stays true because one server changes a
  directory only within a call, and there is none between the end of a call and the next
  message. That a returned chain holds what `getBlocks` and `getBlock` show is from
  `LinkedInv` and `Contiguous`. `TruthInv` speaks of the request the handler picked;
  `SelectedIsAbout` shows that it is the first in the order of `service.proto`, which is the
  one `Truthful` means.

`Service_proofs`, for any clients, calls, launches and handler:

- `TypeCorrect`, `ExecutedAtMostOnce`, `ResponsesBelong`. The inductive invariant follows a
  request: not sent, in the pipe, at the socket, in the thread, executed (`OnItsWay`), in
  one place at a time and executed only in the last; a response in transit is the outcome of
  a request executed once (`Responses`).

`System_proofs`, for any clients, calls, scripts, chains, launches, and any faults besides
the crash:

- `SystemIsService`: the composition implements `Service`; the steps inside a call of the
  handler are stutters. So `ServedOnce`: `AtMostOnce` and `AnswersMatch` of the composition.
- `SystemIsHandler`: the composition implements `Handler` with the one server; all of the
  network is stutters. That every message is one `Handler` knows comes from the script
  (`Mailed`). So `SystemServesRightly`: `Guarded`, `StoredFits` and `Truthful` of the
  composition.
- What users are told needs the two together. `Base` has the invariants of both parts and
  how they fit: the handler works on a message exactly while the thread is in
  `handleMessage`, on the message of the request received (`AtWork`); an answer is the
  status the handler returned, and requests in `before[r]` have one (`Told`). A request is
  `Pending` until its call has returned; a chain changes only for a pending request, by one
  entry at the end or by going as a whole (`ChainChanges`).
- `CountedOnce`: `[]AddedOnce`. What is in a chain is not `Pending` any more (`HeldInv`), so
  the next entry is new.
- `OrderedInRealTime`: `[]InRealTime`. The entry that is appended has no answer yet, so it
  is not in any `before`.
- `UsersToldTrue`: `[]ToldTrue`. `Fate` says it of the result of the call, before anybody is
  told. A success could be undone only by a removal of the chain; when it is
  `RemovalsSettled`, none is pending. A refusal stays true because its request is no longer
  pending, and without `"io"` a call that failed has written nothing
  (`FailedCallWritesNothing`).
- `ReadersUpToDate`: `[]ReadsCurrent`. `Reads` says it from the moment the response is made:
  it has the whole chain, which by `Fate` holds every success known by then. From then on
  the chain only grows, or loses all to a removal that was not `RemovalsSettled`.

`Alteration_proofs`, for chains of any length, any number of alterations, payloads and keys:

- `VerifyNoticesAlterations`: `Spec => []NoticesAlterations`. Of what is stored,
  `AlterationInv` keeps only that a signature by the chain's key is the signature of a block
  that was built (`NothingForged`); of the chain as built, that it is linked and signed and
  that no link occurs twice (`DistinctLinks`, because a link contains all links before it).
  A block `verifyChain` accepts was then built under the same link, at its place or another
  (`AcceptedWasBuilt`); take the first one that is not in its place: the link it continues
  is that of its place, so it is there after all (`AcceptedInPlace`). The first one exists
  by the well-foundedness of the natural numbers, in place of an induction.

`Arguments_proofs`, for command lines of any length, any table of options and any int:

- `OptionsAsMeant`: `ParseSpec => []ParsedExactly`, by the invariant of the loop
  (`ParseInv`): `k` pairs have been read and had no flaw, every option has the value of the
  last of them with its key, or its default, and the function stops at a flaw in the next
  one or at the end.

`CliMain_proofs`, for the table of the client:

- `SendsAsAsked`, `ExitCodes`: `SentAsAsked` and `ExitCodeTells`. `MainSpec` implements
  `ParseSpec`, so the options are as meant when `run` looks at them; `MainInv` says what has
  been sent and returned in each phase.

Assumptions are those named `...Assumption` in the modules, which TLC evaluates in the runs.
They say that bounds are natural numbers; that names which stand for "nothing" are different
from values (`NoPathAssumption`, `NullAssumption`, parts of `CliAssumption` and
`CliMainAssumption`), for instance that a null pointer is no message and a missing response
none that is still to come; that the other build's version is another one; that `Defaults`
has a value for each key; and that `Script` is made of commands whose messages are in
`Messages`, and `Statuses`, which `Service` leaves open, are the handler's. `System` repeats
the assumptions of `Handler` for its instance of it. `OneServer` and `Faultless` are
hypotheses of the theorems that need them, and only of these; `OneServer` is the storage
directory that a single daemon uses.

Every safety and action property of a passing run is stated by a theorem. Only checked by
TLC is liveness: `EveryCallReturns`, `MessagesAnswered`, `StopHonoured`, `SendReturns`,
`ListensOrEnds`, `SentIsExecuted` and `WaitersAnswered` rest on fairness and thereby on
`ENABLED`, which is beyond the prover.

## 5. Limits

- An interrupted `DestroyDB` leaves all, a damaged directory or nothing. That the loss of
  the log file alone could leave an openable older database, or a leftover log be
  replayed by a later one, is not modelled; nor is decay of stored data.
- A null body hash in `verifyChain` is used without a check; the model counts the death
  of the process that follows among the crashes.
- Payloads are compared and never looked into; the concatenation that is hashed is a
  tuple, which is exact because every input has at most one part of variable length.
- Indices are natural numbers; 2^64 blocks are out of reach.
- The data race on `_server` between the signal handler and `run()` is resolved as an
  atomic assignment.
- `Truthful` is about one server: with several, a chain may have changed between the end
  of the call and the response.
- `NoticesAlterations` is about headers that keep their public key: with another one,
  and blocks signed anew, a chain is simply another valid chain. The hash under a
  signature and the hash of a block are computed from strings that may coincide; the model keeps them
  apart, and the code never compares one with the other.
- The exit code of the client does not depend on the status in a response; an `ERROR`
  ends with 0. That is how the code reads, and nothing documents otherwise.
- The run `system` has one server and the faults `crash` and `serialize`; the others are in
  `handler` and `faults`.

Not modelled:

- Daemonizing (`IService`): `fork`, `setsid` and the standard streams, without
  state of the program's own.
- `Random`: a choice from a set in `Manager`. `Message`: an immutable buffer.
- Logger, profiling and the help texts: output only.
- The encoding of protobuf messages; their fields are those of the records in `Chain` and `Handler`.
- Orders of calls on a stand-alone `Storage` object (a second `open`, operations on a
  closed one), which occur in its tests and never below `Manager`.

## 6. Plan

What can still be stated and proved:

1. For several servers, what `ChainsVerify` leaves true: every stored block carries a
   signature under some key and links to a block or header that was in the directory when it
   was built.
2. The safety part of the liveness properties: that a server inside a call, and a daemon
   inside `run()`, always has a step that is not a stutter, as a predicate without
   `ENABLED`.
3. An abstract specification of what a user sees (a log that takes each call at most once,
   at a moment between its sending and its answer), implemented by `System`; the four
   theorems on histories are its parts.
