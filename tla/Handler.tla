------------------------------ MODULE Handler -------------------------------
(***************************************************************************)
(* Core::Handler (src/Handler.cpp) on top of Manager: a server parses a     *)
(* message, checks the password, runs the Manager call of the first request *)
(* the message has, and makes a response of what the call returned.         *)
(*                                                                         *)
(* A message that needs no Manager call is answered in one step.  For the   *)
(* others the steps of the call come in between, with everything other      *)
(* servers, failures and crashes do meanwhile.                              *)
(***************************************************************************)
EXTENDS Manager

CONSTANTS
    Passwords,          \* the words clients hash into their messages
    Password,           \* the one the server was started with; None if empty
    PASSWORD_SALT,
    Malformed,          \* a password hash of the wrong size
    Null,               \* no response: it could not be serialized
    Length,             \* Length[d]: the size of a payload
    MAX_DATA_LENGTH,
    Companions          \* bound: the requests that may come with another one in
                        \* the same message

ASSUME HandlerAssumption ==
    /\ Password \in Passwords \cup {None}
    /\ Length \in [Data -> Nat]
    /\ MAX_DATA_LENGTH \in Nat
    /\ Companions \subseteq Ops \cup {"ping", "keys"}
    /\ Malformed # None

VARIABLES
    message,    \* message[p]: the message p works on, or has answered last
    response    \* response[p]: the response to it; Unanswered while p works
                \* on it

handlerVars == <<message, response>>
allVars == <<vars, handlerVars>>

-----------------------------------------------------------------------------
\* Messages: at most one request of each kind.  For the keys of a chain the
\* handler asks Manager for the header, and a ping concerns no chain.

Fields ==
    Requests
    \cup {[r EXCEPT !.op = "keys"] : r \in {q \in Requests : q.op = "header"}}
    \cup {[op |-> "ping", path |-> None, data |-> None, index |-> 0]}

passwordHash(word) == getHash(<<PASSWORD_SALT, word>>)

\* The requests that may accompany r.
Others(r) == {s \in Fields : s.op \in Companions \ {r.op}}

Messages ==
    [parses : {TRUE},
     auth : {None, Malformed} \cup {passwordHash(w) : w \in Passwords},
     fields : {{}} \cup {{r} : r \in Fields}
                \cup UNION {{{r, s} : s \in Others(r)} : r \in Fields}]
    \cup [parses : {FALSE}, auth : {None}, fields : {{}}]

\* Handler::Status
Status == {"SUCCESS", "ERROR", "DATA_ERROR", "NOT_SUPPORTED", "NOT_AUTHORIZED"}

makeStatus(status) == [status |-> status, body |-> None]
makeResponse(value) == [status |-> "SUCCESS", body |-> value]

\* No response yet: none of the code's has this status.
Unanswered == makeStatus("UNANSWERED")

\* The order of the tests in handleMessage.
dispatch == [ping |-> 1, create |-> 2, remove |-> 3, add |-> 4, getBlock |-> 5,
             getBlocks |-> 6, verify |-> 7, header |-> 8, keys |-> 9, info |-> 10]

selected(m) ==
    CHOOSE r \in m.fields : \A s \in m.fields : dispatch[r.op] <= dispatch[s.op]

managerCall(r) == IF r.op = "keys" THEN [r EXCEPT !.op = "header"] ELSE r

\* A null pointer is no message, and a response that failed is one.
ASSUME NullAssumption == None \notin Messages /\ Null # Unanswered

checkAuth(auth) == auth = passwordHash(Password)

Authorized(m) == Password = None \/ (m.auth # None /\ checkAuth(m.auth))

\* The size of a new chain's data is not looked at.
Oversized_AddOnly(r) == r.op = "add" /\ Length[r.data] > MAX_DATA_LENGTH

\* The size is looked at for create and add only.
Oversized(r) == r.op \in {"create", "add"} /\ Length[r.data] > MAX_DATA_LENGTH

SerializeFails == "serialize" \in Faults

Respond(p, resp) ==
    \/ response' = [response EXCEPT ![p] = resp]
    \/ SerializeFails /\ response' = [response EXCEPT ![p] = Null]

-----------------------------------------------------------------------------

\* The messages handleMessage answers without a call of Manager, and how.
refusals(m) ==
    IF ~m.parses THEN {"DATA_ERROR"}
    ELSE IF ~Authorized(m) THEN {"NOT_AUTHORIZED"}
    ELSE (IF Password # None /\ CryptoFails THEN {"NOT_AUTHORIZED"} ELSE {})
         \cup CASE m.fields = {} -> {"NOT_SUPPORTED"}
                [] m.fields # {} /\ selected(m).op = "ping" -> {"SUCCESS"}
                [] m.fields # {} /\ Oversized(selected(m)) -> {"DATA_ERROR"}
                [] OTHER -> {}

Free(p) == message[p] = None \/ response[p] # Unanswered

Answer(p, m) ==
    /\ Free(p)
    /\ message' = [message EXCEPT ![p] = m]
    /\ \E status \in refusals(m) : Respond(p, makeStatus(status))
    /\ UNCHANGED vars

\* The password is not asked for.
Call_AnyAuth(p, m) ==
    /\ Free(p)
    /\ m.parses
    /\ m.fields # {}
    /\ selected(m).op # "ping" /\ ~Oversized(selected(m))
    /\ Start(p, managerCall(selected(m)))
    /\ message' = [message EXCEPT ![p] = m]
    /\ response' = [response EXCEPT ![p] = Unanswered]

\* The last response is still there when the next call runs.
Call_KeepsResponse(p, m) ==
    /\ Free(p)
    /\ m.parses
    /\ Authorized(m)
    /\ m.fields # {}
    /\ selected(m).op # "ping" /\ ~Oversized(selected(m))
    /\ Start(p, managerCall(selected(m)))
    /\ message' = [message EXCEPT ![p] = m]
    /\ UNCHANGED response

\* handleMessage up to the call of Manager.
Call(p, m) ==
    /\ Free(p)
    /\ m.parses
    /\ Authorized(m)
    /\ m.fields # {}
    /\ selected(m).op # "ping" /\ ~Oversized(selected(m))
    /\ Start(p, managerCall(selected(m)))
    /\ message' = [message EXCEPT ![p] = m]
    /\ response' = [response EXCEPT ![p] = Unanswered]

\* The two hashes of a block the wrong way round.
setBlockData_Swapped(block) ==
    [hash |-> block.prevHash, prev_hash |-> block.hash, nonce |-> block.nonce,
     data |-> block.data, signature |-> block.signature]

setBlockData(block) ==
    [hash |-> block.hash, prev_hash |-> block.prevHash, nonce |-> block.nonce,
     data |-> block.data, signature |-> block.signature]

\* What a successful call puts into the response.
body(r, value) ==
    CASE r.op \in {"add", "getBlock"} -> setBlockData(value)
      [] r.op = "getBlocks" -> [n \in DOMAIN value |-> setBlockData(value[n])]
      [] r.op = "header" ->
            [version |-> value.version, index |-> value.index, data |-> value.data,
             private_key |-> value.privateKey, public_key |-> value.publicKey]
      [] r.op = "keys" ->
            [private_key |-> value.privateKey, public_key |-> value.publicKey]
      [] r.op = "info" ->
            [chain_id |-> r.path, version |-> value.version, index |-> value.index]
      [] OTHER -> None

\* A failed call is not answered.
Reply_OnSuccess(p) ==
    /\ ~Free(p)
    /\ pc[p] = "idle"
    /\ res[p].ok
    /\ Respond(p, makeResponse(body(selected(message[p]), res[p].value)))
    /\ UNCHANGED <<vars, message>>

\* The call has returned.
Reply(p) ==
    /\ ~Free(p)
    /\ pc[p] = "idle"
    /\ IF res[p].ok
       THEN Respond(p, makeResponse(body(selected(message[p]), res[p].value)))
       ELSE Respond(p, makeStatus("ERROR"))
    /\ UNCHANGED <<vars, message>>

\* The call takes a step.
Work(p) == Step(p) /\ UNCHANGED handlerVars

\* The process dies, in the middle of a call or between two.
Die(p) ==
    /\ \/ Crash(p)
       \/ "crash" \in Faults /\ pc[p] = "idle" /\ UNCHANGED vars
    /\ message' = [message EXCEPT ![p] = None]
    /\ response' = [response EXCEPT ![p] = Unanswered]

-----------------------------------------------------------------------------

HandlerInit ==
    /\ Init
    /\ message = [p \in Procs |-> None]
    /\ response = [p \in Procs |-> Unanswered]

HandlerNext ==
    \E p \in Procs :
        \/ \E m \in Messages : Answer(p, m) \/ Call(p, m)
        \/ Work(p)
        \/ Reply(p)
        \/ Die(p)

HandlerSpec == HandlerInit /\ [][HandlerNext]_allVars

\* The thread of a server keeps running; messages need not arrive.
HandlerFairSpec == HandlerSpec /\ \A p \in Procs : WF_allVars(Work(p) \/ Reply(p))

=============================================================================
