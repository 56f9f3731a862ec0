------------------------- MODULE HandlerProperties --------------------------
(***************************************************************************)
(* The properties of Handler: what a client can bring about with a message, *)
(* and what it may conclude from the response.                              *)
(***************************************************************************)
EXTENDS Handler, ManagerProperties

\* The type invariant.  A Manager call runs only on behalf of a message.
HandlerTypeOK ==
    /\ TypeOK
    /\ message \in [Procs -> Messages \cup {None}]
    /\ \A p \in Procs :
        /\ response[p] \notin {Unanswered, Null} =>
            response[p].status \in Status
        /\ pc[p] # "idle" => ~Free(p)

\* The message names the password, if the server has one, as the client's hash
\* of it: stated without the tests of handleMessage and checkAuth.
KnowsPassword(m) ==
    Password # None => m.parses /\ m.auth = passwordHash(Password)

\* Whoever does not know the password changes nothing on disk, starts no call
\* of Manager, and learns no more than that he is not welcome.
Guarded ==
    \A p \in Procs : message[p] # None /\ ~KnowsPassword(message[p]) =>
        /\ pc[p] = "idle"
        /\ response[p] # Null => response[p].body = None
        /\ response[p] # Null => response[p].status \in {"NOT_AUTHORIZED", "DATA_ERROR"}

\* No chain of this build holds a payload above MAX_DATA_LENGTH: the limit is
\* tested by two handlers and by nothing below them.
StoredFits ==
    \A c \in Paths : Live(c) =>
        /\ Length[Header(c).data] <= MAX_DATA_LENGTH
        /\ \A i \in 1..Header(c).index :
            Length[getBlock(disk[c].kv, i).data] <= MAX_DATA_LENGTH

\* A block as a response shows it is the stored one.
Shows(shown, block) ==
    /\ shown.hash = block.hash /\ shown.prev_hash = block.prevHash
    /\ shown.nonce = block.nonce /\ shown.data = block.data
    /\ shown.signature = block.signature

\* What a success says is so on disk.
TrueOf(r, resp) ==
    LET c == r.path IN
    CASE r.op = "create" ->
            Live(c) /\ Header(c).index = 0 /\ Header(c).data = r.data
      [] r.op = "remove" ->
            disk[c] = Absent
      [] r.op = "add" ->
            Live(c) /\ resp.body.data = r.data
                      /\ Shows(resp.body, Blocks(c)[Header(c).index])
      [] r.op = "getBlock" ->
            Live(c) /\ Shows(resp.body, Blocks(c)[r.index])
      [] r.op = "getBlocks" ->
            /\ Live(c) /\ Len(resp.body) = Header(c).index
            /\ \A i \in DOMAIN resp.body : Shows(resp.body[i], Blocks(c)[i])
      [] r.op = "verify" ->
            Live(c)
      [] r.op = "header" ->
            /\ resp.body.version = Header(c).version
            /\ resp.body.index = Cardinality(DOMAIN disk[c].kv) - 1
            /\ resp.body.data = Header(c).data
            /\ resp.body.public_key = createPublicKey(resp.body.private_key)
      [] r.op = "keys" ->
            \A i \in 1..Header(c).index :
                LET block == getBlock(disk[c].kv, i) IN
                /\ block.signature.by = resp.body.private_key
                /\ verifySignature(
                        getHash(<<block.prevHash, block.nonce, block.data>>),
                        resp.body.public_key, block.signature)
      [] r.op = "info" ->
            /\ resp.body.chain_id = c
            /\ resp.body.index = Cardinality(DOMAIN disk[c].kv) - 1

\* The numbers of the requests in message Request, service.proto.
fieldNumber == [ping |-> 2, create |-> 3, remove |-> 4, add |-> 5, getBlock |-> 6,
                getBlocks |-> 7, verify |-> 8, header |-> 9, keys |-> 10, info |-> 11]

\* The request a message is about: the first in the order of the protocol, stated
\* without the tests of handleMessage.
About(m, r) ==
    \A s \in m.fields : fieldNumber[r.op] <= fieldNumber[s.op]

\* What a refusal says of the message.
RefusalOf(m, status) ==
    /\ status = "DATA_ERROR" =>
        \/ ~m.parses
        \/ \E r \in m.fields :
            /\ About(m, r) /\ r.op \in {"create", "add"}
            /\ Length[r.data] > MAX_DATA_LENGTH
    /\ status = "NOT_SUPPORTED" => m.fields = {}

\* What a response says is so.  A success has happened, and what it carries is
\* what is stored, if one server uses the storage directory; a refusal gives
\* the reason, so that a payload of exactly MAX_DATA_LENGTH is not refused for
\* its size; both for the request the message is about.
Truthful ==
    \A p \in Procs : \A m \in {message[p]}, resp \in {response[p]} :
        m # None /\ resp \notin {Unanswered, Null} =>
            /\ resp.status = "SUCCESS" =>
                \E r \in m.fields : About(m, r) /\ (r.op = "ping" \/ TrueOf(r, resp))
            /\ RefusalOf(m, resp.status)

\* A message gets a response, one that reaches the network, unless the process
\* dies or the response cannot be serialized: whatever the call of Manager runs
\* into, handleMessage returns, and not with a null pointer.
MessagesAnswered ==
    "serialize" \notin Faults => \A p \in Procs :
        message[p] # None ~> message[p] = None \/ response[p] \notin {Unanswered, Null}

=============================================================================
