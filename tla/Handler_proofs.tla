--------------------------- MODULE Handler_proofs ---------------------------
(***************************************************************************)
(* Theorems about Handler, for every number of servers, every password,     *)
(* every size of payloads and every set of faults.                          *)
(***************************************************************************)
EXTENDS HandlerProperties, Manager_proofs

\* Of the requests of a message, the one handleMessage tests for first is one
\* of them.
LEMMA SelectedIsThere ==
    ASSUME NEW m \in Messages, m.fields # {}
    PROVE  selected(m) \in m.fields /\ selected(m) \in Fields
<1>1. m.fields \in {{r} : r \in Fields} \cup UNION {{{r, s} : s \in Others(r)} : r \in Fields}
  BY DEF Messages
<1>2. PICK r \in Fields, s \in Fields : m.fields = {r, s}
  BY <1>1 DEF Others
<1>3. \A x \in Fields : x.op \in DOMAIN dispatch
  BY ManagerAssumption DEF Fields, Requests, dispatch
<1>4. \A op \in DOMAIN dispatch : dispatch[op] \in Nat
  BY DEF dispatch
<1>5. dispatch[r.op] <= dispatch[s.op] \/ dispatch[s.op] <= dispatch[r.op]
  BY <1>3, <1>4
<1>6. dispatch[r.op] <= dispatch[r.op] /\ dispatch[s.op] <= dispatch[s.op]
  BY <1>3, <1>4
<1>7. \E x \in m.fields : \A y \in m.fields : dispatch[x.op] <= dispatch[y.op]
  BY <1>2, <1>5, <1>6
<1>8. selected(m) \in m.fields
  BY <1>7 DEF selected
<1> QED
  BY <1>2, <1>8

\* The request the handler picks is the one the message is about: its tests are
\* in the order of the protocol.
LEMMA SelectedIsAbout ==
    ASSUME NEW m \in Messages, m.fields # {}
    PROVE  About(m, selected(m))
<1>1. m.fields \in {{r} : r \in Fields} \cup UNION {{{r, s} : s \in Others(r)} : r \in Fields}
  BY DEF Messages
<1>2. PICK r \in Fields, s \in Fields : m.fields = {r, s}
  BY <1>1 DEF Others
<1>3. \A x \in Fields : x.op \in DOMAIN dispatch
  BY ManagerAssumption DEF Fields, Requests, dispatch
<1>4. \A op \in DOMAIN dispatch : dispatch[op] \in Nat /\ fieldNumber[op] = dispatch[op] + 1
  BY DEF dispatch, fieldNumber
<1>5. \E x \in m.fields : \A y \in m.fields : dispatch[x.op] <= dispatch[y.op]
  BY <1>2, <1>3, <1>4
<1>6. \A y \in m.fields : dispatch[selected(m).op] <= dispatch[y.op]
  BY <1>5 DEF selected
<1> QED
  BY <1>2, <1>3, <1>4, <1>6, SelectedIsThere DEF About

\* What the handler asks of Manager is one of Manager's calls, with the data of
\* the request.
LEMMA CallsManager ==
    ASSUME NEW m \in Messages, m.fields # {}, selected(m).op # "ping"
    PROVE  /\ managerCall(selected(m)) \in Requests
           /\ managerCall(selected(m)).op \in {"create", "add"} =>
                managerCall(selected(m)) = selected(m)
<1> DEFINE r == selected(m)
<1>1. r \in Fields /\ r.op # "ping"
  BY SelectedIsThere
<1> HIDE DEF r
<1>2. CASE r \in Requests
  <2>1. r.op # "keys"
    BY <1>2, ManagerAssumption DEF Requests
  <2> QED BY <1>2, <2>1 DEF managerCall, r
<1>3. CASE \E q \in Requests : q.op = "header" /\ r = [q EXCEPT !.op = "keys"]
  <2>1. PICK q \in Requests : q.op = "header" /\ r = [q EXCEPT !.op = "keys"]
    BY <1>3
  <2>2. q = [op |-> "header", path |-> q.path, data |-> q.data, index |-> q.index]
    BY <2>1 DEF Requests
  <2>3. r.op = "keys" /\ [r EXCEPT !.op = "header"] = q
    BY <2>1, <2>2
  <2> QED BY <2>1, <2>3 DEF managerCall, r
<1> QED
  BY <1>1, <1>2, <1>3 DEF Fields

\* Every step of Handler is a step of Manager, or leaves it alone.
LEMMA HandlerStep == [HandlerNext]_allVars => [Next]_vars
<1> SUFFICES ASSUME [HandlerNext]_allVars PROVE [Next]_vars
  OBVIOUS
<1>1. CASE UNCHANGED allVars
  BY <1>1 DEF allVars
<1>2. ASSUME NEW p \in Procs, NEW m \in Messages, Answer(p, m) PROVE UNCHANGED vars
  BY <1>2 DEF Answer
<1>3. ASSUME NEW p \in Procs, NEW m \in Messages, Call(p, m) PROVE Next
  BY <1>3, CallsManager DEF Call, Next
<1>4. ASSUME NEW p \in Procs, Work(p) PROVE Next
  BY <1>4 DEF Work, Next
<1>5. ASSUME NEW p \in Procs, Reply(p) PROVE UNCHANGED vars
  BY <1>5 DEF Reply
<1>6. ASSUME NEW p \in Procs, Die(p) PROVE [Next]_vars
  BY <1>6 DEF Die, Next
<1> QED
  BY <1>1, <1>2, <1>3, <1>4, <1>5, <1>6 DEF HandlerNext

\* A handler uses Manager as Manager is meant to be used: what is proved of
\* Manager for all calls holds for those that messages bring about.
THEOREM HandlerUsesManager == HandlerSpec => Spec
<1>1. HandlerInit => Init
  BY DEF HandlerInit
<1> QED
  BY <1>1, HandlerStep, PTL DEF HandlerSpec, Spec

-----------------------------------------------------------------------------
(***************************************************************************)
(* The invariant of the messages.  A server that runs a call runs it for a  *)
(* message it has not answered (Busy), and a message without the password   *)
(* has been refused already (Refused): Guarded by itself would not exclude  *)
(* that such a message is still unanswered and a Reply shows it data.       *)
(***************************************************************************)
MessagesTyped ==
    /\ message \in [Procs -> Messages \cup {None}]
    /\ DOMAIN response = Procs
    /\ \A p \in Procs : response[p] \notin {Unanswered, Null} => response[p].status \in Status

Busy == \A p \in Procs : pc[p] # "idle" => ~Free(p)

Denied(resp) ==
    resp # Null => resp.body = None /\ resp.status \in {"NOT_AUTHORIZED", "DATA_ERROR"}

Refused ==
    \A p \in Procs : message[p] # None /\ ~KnowsPassword(message[p]) =>
        response[p] # Unanswered /\ Denied(response[p])

MessagesInv == MessagesTyped /\ Busy /\ Refused

\* What handleMessage says without a call of Manager.
LEMMA RefusalsAre ==
    ASSUME NEW m, NEW status \in refusals(m)
    PROVE  /\ status \in Status
           /\ ~KnowsPassword(m) => status \in {"NOT_AUTHORIZED", "DATA_ERROR"}
<1>1. ~KnowsPassword(m) => ~m.parses \/ ~Authorized(m)
  BY DEF KnowsPassword, Authorized, checkAuth
<1> QED
  BY <1>1 DEF refusals, Status

LEMMA AnswerKeepsMessages ==
    ASSUME MessagesInv, NEW p \in Procs, NEW m \in Messages, Answer(p, m)
    PROVE  MessagesInv'
<1>1. PICK status \in refusals(m) : Respond(p, makeStatus(status))
  BY DEF Answer
<1>2. status \in Status /\ (~KnowsPassword(m) => Denied(makeStatus(status)))
  BY RefusalsAre DEF Denied, makeStatus
<1>3. makeStatus(status) # Unanswered /\ makeStatus(status).status = status
  BY <1>2 DEF makeStatus, Unanswered, Status
<1>4. /\ message' = [message EXCEPT ![p] = m]
      /\ \E resp \in {makeStatus(status), Null} : response' = [response EXCEPT ![p] = resp]
      /\ UNCHANGED pc
  BY <1>1 DEF Answer, Respond, vars, localVars
<1>5. response'[p] \in {makeStatus(status), Null} /\ response'[p] # Unanswered
  BY <1>3, <1>4, NullAssumption DEF MessagesInv, MessagesTyped
<1>6. \A q \in Procs \ {p} : message'[q] = message[q] /\ response'[q] = response[q]
  BY <1>4 DEF MessagesInv, MessagesTyped
<1>7. message'[p] = m
  BY <1>4 DEF MessagesInv, MessagesTyped
<1>8. MessagesTyped'
  BY <1>2, <1>3, <1>4, <1>5, <1>6 DEF MessagesInv, MessagesTyped
<1>9. Busy'
  <2>1. pc[p] = "idle"
    BY DEF MessagesInv, Busy, Answer
  <2> QED BY <1>4, <1>6, <2>1 DEF MessagesInv, Busy, Free
<1>10. Refused'
  BY <1>2, <1>5, <1>6, <1>7 DEF MessagesInv, Refused, Denied, KnowsPassword
<1> QED
  BY <1>8, <1>9, <1>10 DEF MessagesInv

LEMMA CallKeepsMessages ==
    ASSUME MessagesInv, TypeOK, NEW p \in Procs, NEW m \in Messages, Call(p, m)
    PROVE  MessagesInv'
<1>1. /\ message' = [message EXCEPT ![p] = m]
      /\ response' = [response EXCEPT ![p] = Unanswered]
      /\ pc' = [pc EXCEPT ![p] = entry[managerCall(selected(m)).op]]
  BY DEF Call, Start
<1>2. message'[p] = m /\ response'[p] = Unanswered /\ m # None
  BY <1>1, NullAssumption DEF MessagesInv, MessagesTyped
<1>3. \A q \in Procs \ {p} :
        message'[q] = message[q] /\ response'[q] = response[q] /\ pc'[q] = pc[q]
  BY <1>1 DEF MessagesInv, MessagesTyped, TypeOK
<1>4. MessagesTyped'
  BY <1>1, <1>2, <1>3 DEF MessagesInv, MessagesTyped
<1>5. Busy'
  BY <1>2, <1>3 DEF MessagesInv, Busy, Free
<1>6. Refused'
  <2>1. KnowsPassword(m)
    BY DEF Call, Authorized, checkAuth, KnowsPassword
  <2> QED BY <1>2, <1>3, <2>1 DEF MessagesInv, Refused, KnowsPassword
<1> QED
  BY <1>4, <1>5, <1>6 DEF MessagesInv

LEMMA WorkKeepsMessages ==
    ASSUME MessagesInv, Inv, NEW p \in Procs, Work(p)
    PROVE  MessagesInv'
<1>1. UNCHANGED <<message, response>> /\ Step(p)
  BY DEF Work, handlerVars
<1>2. pc[p] # "idle" /\ \A q \in Procs \ {p} : pc'[q] = pc[q]
  BY <1>1, StepCarries DEF OthersStand
<1> QED
  BY <1>1, <1>2 DEF MessagesInv, MessagesTyped, Busy, Free, Refused, KnowsPassword

LEMMA ReplyKeepsMessages ==
    ASSUME MessagesInv, NEW p \in Procs, Reply(p)
    PROVE  MessagesInv'
<1>1. PICK resp : response' = [response EXCEPT ![p] = resp]
                  /\ (resp # Null => resp.status \in Status)
  BY DEF Reply, Respond, makeResponse, makeStatus, Status
<1>2. UNCHANGED <<message, pc>> /\ pc[p] = "idle" /\ message[p] # None /\ response[p] = Unanswered
  BY DEF Reply, vars, localVars, Free
<1>3. response'[p] = resp /\ \A q \in Procs \ {p} : response'[q] = response[q]
  BY <1>1 DEF MessagesInv, MessagesTyped
<1>4. MessagesTyped'
  BY <1>1, <1>2, <1>3 DEF MessagesInv, MessagesTyped
<1>5. Busy'
  BY <1>2, <1>3 DEF MessagesInv, Busy, Free
<1>6. KnowsPassword(message[p])
  BY <1>2 DEF MessagesInv, Refused
<1>7. Refused'
  BY <1>2, <1>3, <1>6 DEF MessagesInv, Refused, KnowsPassword
<1> QED
  BY <1>4, <1>5, <1>7 DEF MessagesInv

\* A server that has answered is free for the next message.
LEMMA AnsweredIsFree ==
    ASSUME MessagesInv, NEW p \in Procs,
           Reply(p) \/ \E m \in Messages : Answer(p, m)
    PROVE  Free(p)'
<1>1. \E resp : Respond(p, resp) /\ resp.status \in Status
  <2>1. \A status : makeStatus(status).status = status
    BY DEF makeStatus
  <2>2. \A value : makeResponse(value).status \in Status
    BY DEF makeResponse, Status
  <2>3. CASE Reply(p)
    BY <2>1, <2>2, <2>3 DEF Reply, Status
  <2>4. ASSUME NEW m \in Messages, Answer(p, m)
        PROVE  \E resp : Respond(p, resp) /\ resp.status \in Status
    <3>1. PICK status \in refusals(m) : Respond(p, makeStatus(status))
      BY <2>4 DEF Answer
    <3> QED BY <2>1, <3>1, RefusalsAre
  <2> QED BY <2>3, <2>4
<1>2. \E resp : response'[p] = resp /\ (resp = Null \/ resp.status \in Status)
  BY <1>1 DEF Respond, MessagesInv, MessagesTyped
<1>3. response'[p] # Unanswered
  BY <1>2, NullAssumption DEF Unanswered, makeStatus, Status
<1> QED
  BY <1>3 DEF Free

LEMMA DieKeepsMessages ==
    ASSUME MessagesInv, TypeOK, NEW p \in Procs, Die(p)
    PROVE  MessagesInv'
<1>1. /\ message' = [message EXCEPT ![p] = None]
      /\ response' = [response EXCEPT ![p] = Unanswered]
  BY DEF Die
<1>2. pc'[p] = "idle" /\ \A q \in Procs \ {p} : pc'[q] = pc[q]
  <2>1. CASE Crash(p)
    BY <2>1 DEF Crash, TypeOK
  <2>2. CASE pc[p] = "idle" /\ UNCHANGED vars
    BY <2>2 DEF vars, localVars
  <2> QED BY <2>1, <2>2 DEF Die
<1>3. message'[p] = None /\ response'[p] = Unanswered
      /\ \A q \in Procs \ {p} : message'[q] = message[q] /\ response'[q] = response[q]
  BY <1>1 DEF MessagesInv, MessagesTyped
<1>4. MessagesTyped'
  BY <1>1, <1>3 DEF MessagesInv, MessagesTyped
<1> QED
  BY <1>2, <1>3, <1>4 DEF MessagesInv, Busy, Free, Refused, KnowsPassword

LEMMA MessagesInvHolds == HandlerSpec => []MessagesInv
<1>1. HandlerInit => MessagesInv
  BY DEF HandlerInit, Init, MessagesInv, MessagesTyped, Busy, Refused
<1>2. Inv /\ MessagesInv /\ [HandlerNext]_allVars => MessagesInv'
  <2> SUFFICES ASSUME Inv, MessagesInv, [HandlerNext]_allVars PROVE MessagesInv'
    OBVIOUS
  <2> TypeOK
    BY DEF Inv
  <2>1. CASE UNCHANGED allVars
    BY <2>1 DEF allVars, vars, localVars, handlerVars, MessagesInv, MessagesTyped,
                Busy, Free, Refused, KnowsPassword
  <2>2. CASE HandlerNext
    BY <2>2, AnswerKeepsMessages, CallKeepsMessages, WorkKeepsMessages,
       ReplyKeepsMessages, DieKeepsMessages DEF HandlerNext
  <2> QED BY <2>1, <2>2
<1> QED
  BY <1>1, <1>2, HandlerUsesManager, InvHolds, PTL DEF HandlerSpec

\* Type correctness of handler and storage, whatever messages say.
THEOREM HandlerTypeCorrect == HandlerSpec => []HandlerTypeOK
<1>1. TypeOK /\ MessagesInv => HandlerTypeOK
  BY DEF HandlerTypeOK, MessagesInv, MessagesTyped, Busy
<1> QED
  BY <1>1, MessagesInvHolds, HandlerUsesManager, TypeCorrect, PTL

\* Nobody gets past the password: for every password, every message and every
\* failure, whoever does not name it starts no call and sees no data.
THEOREM PasswordGuards == HandlerSpec => []Guarded
<1>1. MessagesInv => Guarded
  BY DEF MessagesInv, Busy, Free, Refused, Denied, Guarded
<1> QED
  BY <1>1, MessagesInvHolds, PTL

-----------------------------------------------------------------------------
(***************************************************************************)
(* StoredFits.  The limit is tested before a call starts and never again.   *)
(* In between, the data travels from the request into the header or the     *)
(* block that is written (Carried).                                         *)
(***************************************************************************)
Fits(data) == Length[data] <= MAX_DATA_LENGTH

CallsFit ==
    \A p \in Procs :
        pc[p] # "idle" /\ req[p].op \in {"create", "add"} => Fits(req[p].data)

StoreFits(kv) ==
    hasSupportedHeader(kv) =>
        /\ Fits(getHeader(kv).data)
        /\ \A i \in 1..getHeader(kv).index : Fits(getBlock(kv, i).data)

StoresFit == \A c \in Paths : disk[c].state = "present" => StoreFits(disk[c].kv)

\* A call starts for a request that is not oversized.
LEMMA StartFits ==
    ASSUME Inv, CallsFit, NEW p \in Procs, NEW m \in Messages, Call(p, m)
    PROVE  CallsFit'
<1> DEFINE r == managerCall(selected(m))
<1>1. r \in Requests /\ (r.op \in {"create", "add"} => r = selected(m))
  BY CallsManager DEF Call
<1>2. ~Oversized(selected(m)) /\ Start(p, r)
  BY DEF Call
<1> HIDE DEF r
<1>3. r.op \in {"create", "add"} => Fits(r.data)
  <2>1. r.op \in {"create", "add"} => r.data \in Data
    BY <1>1 DEF Requests
  <2> QED BY <1>1, <1>2, <2>1, HandlerAssumption DEF Oversized, Fits
<1> QED
  BY <1>2, <1>3 DEF Start, CallsFit, Inv, TypeOK

\* A call keeps its request to the end.
LEMMA StepFits ==
    ASSUME Inv, CallsFit, NEW p \in Procs, Step(p) \/ Crash(p)
    PROVE  CallsFit'
<1>1. pc[p] # "idle" /\ OthersStand(p) /\ (Finished(p) \/ UNCHANGED req)
  BY StepCarries
<1>2. Finished(p) => pc'[p] = "idle"
  BY DEF Finished, Inv, TypeOK
<1> QED
  BY <1>1, <1>2 DEF OthersStand, CallsFit

\* What is written fits if what the calls carry fits.
LEMMA EffectFits ==
    ASSUME Inv, Carried, CallsFit, StoresFit, Effect
    PROVE  StoresFit'
<1> SUFFICES ASSUME NEW c \in Paths, disk'[c].state = "present"
             PROVE  StoreFits(disk'[c].kv)
  BY DEF StoresFit, StoreFits
<1>1. CASE disk'[c] = disk[c]
  BY <1>1 DEF StoresFit
<1>2. CASE \E x \in Paths : Creates(x)
  <2>1. disk'[c] = disk[c] \/ disk'[c].kv = NoKeys
    BY <1>2 DEF Creates, Inv, TypeOK, Present
  <2>2. ~hasSupportedHeader(NoKeys)
    BY DEF hasSupportedHeader, hasHeader, NoKeys
  <2> QED BY <1>1, <2>1, <2>2 DEF StoreFits
<1>3. CASE \E p \in Procs : WritesHeader(p)
  <2>1. PICK p \in Procs : WritesHeader(p)
    BY <1>3
  <2>2. /\ db[p] # NoPath /\ Kv(p) = NoKeys
        /\ hdr[p] \in Headers /\ hdr[p].index = 0 /\ Fits(hdr[p].data)
    BY <2>1 DEF WritesHeader, Inv, TypeOK, CallsAt, SessionsOK, Kv, CallsFit, Carried, CarriedBy
  <2> DEFINE new == Put(NoKeys, createBatch(hdr[p]))
  <2>3. disk'[c] = disk[c] \/ disk'[c] = Present(new)
    BY <2>1, <2>2, WriteTouchesOne DEF WritesHeader
  <2>4. getHeader(new) = hdr[p]
    BY <2>2, CreateBatchCompletes
  <2> HIDE DEF new
  <2>5. StoreFits(new)
    BY <2>2, <2>4 DEF StoreFits
  <2> QED BY <1>1, <2>3, <2>5 DEF Present
<1>4. CASE \E p \in Procs : WritesBlock(p)
  <2>1. PICK p \in Procs : WritesBlock(p)
    BY <1>4
  <2>2. CASE c # db[p]
    BY <1>1, <2>1, <2>2, WriteTouchesOne DEF WritesBlock
  <2>3. CASE c = db[p]
    <3> DEFINE kv == disk[c].kv
               new == Put(kv, addBlockBatch(kv, blk[p]))
               n == getHeader(kv).index
    <3>1. disk'[c].kv = new
      <4>1. disk'[db[p]] = Present(Put(Kv(p), addBlockBatch(Kv(p), blk[p])))
        BY <2>1, WriteTouchesOne DEF WritesBlock
      <4> QED BY <2>3, <4>1 DEF Kv, Present
    <3>2. Complete(kv) /\ hasHeader(kv) /\ hasSupportedHeader(kv) /\ Fits(blk[p].data)
      BY <2>1, <2>3, ReadsComplete
         DEF WritesBlock, hasSupportedHeader, Kv, Inv, TypeOK, CallsAt, CallsFit,
             Carried, CarriedBy
    <3>3. IsPresent(c)
      BY <2>1, <2>3 DEF WritesBlock, Inv, SessionsOK
    <3>4. Fits(getHeader(kv).data) /\ \A i \in 1..n : Fits(getBlock(kv, i).data)
      BY <3>2, <3>3 DEF StoresFit, StoreFits, IsPresent
    <3>5. /\ n \in Nat
          /\ getHeader(new) = [getHeader(kv) EXCEPT !.index = n + 1]
          /\ getBlock(new, n + 1) = blk[p]
          /\ \A i \in 1..n : getBlock(new, i) = getBlock(kv, i)
          /\ getHeader(kv) \in Headers
      <4>1. kv # NoKeys
        BY <3>2 DEF hasHeader, NoKeys
      <4>2. getHeader(kv) \in Headers
        BY <3>2, <4>1 DEF Complete
      <4> QED BY <3>2, <4>2, AddBlockBatchAppends
    <3> HIDE DEF new
    <3>6. getHeader(new).data = getHeader(kv).data /\ getHeader(new).index = n + 1
      BY <3>5 DEF Headers
    <3>7. \A i \in 1..(n + 1) : i \in 1..n \/ i = n + 1
      BY <3>5
    <3>8. \A i \in 1..(n + 1) : Fits(getBlock(new, i).data)
      BY <3>2, <3>4, <3>5, <3>7
    <3> QED BY <3>1, <3>4, <3>6, <3>8 DEF StoreFits
  <2> QED BY <2>2, <2>3
<1>5. CASE \E x \in Paths : Removes(x)
  <2>1. disk'[c] = disk[c] \/ disk'[c].state # "present"
    BY <1>5 DEF Removes, Inv, TypeOK, Absent, Damaged
  <2> QED BY <1>1, <2>1
<1> QED
  BY <1>1, <1>2, <1>3, <1>4, <1>5 DEF Effect, Acknowledges

\* No chain of this build ever holds a payload above the limit, for every limit
\* and every size: the two tests of the handler are enough.
THEOREM PayloadsFit == HandlerSpec => []StoredFits
<1>1. HandlerInit => CallsFit /\ StoresFit
  <2> SUFFICES ASSUME Init PROVE CallsFit /\ StoresFit
    BY DEF HandlerInit
  <2>1. CallsFit
    BY DEF Init, CallsFit
  <2>2. ASSUME NEW c \in Paths, disk[c].state = "present" PROVE StoreFits(disk[c].kv)
    <3>1. disk[c] \in {Absent} \cup {Present(kv) : kv \in LegacyStores}
      BY DEF Init
    <3>2. PICK kv \in LegacyStores : disk[c].kv = kv
      BY <2>2, <3>1 DEF Absent, Present
    <3> QED BY <3>2, LegacyIsForeign DEF StoreFits
  <2> QED BY <2>1, <2>2 DEF StoresFit
<1>2. Inv /\ Carried /\ CallsFit /\ StoresFit /\ [HandlerNext]_allVars
        => (CallsFit /\ StoresFit)'
  <2> SUFFICES ASSUME Inv, Carried, CallsFit, StoresFit, [HandlerNext]_allVars
               PROVE  CallsFit' /\ StoresFit'
    OBVIOUS
  <2>1. StoresFit'
    BY HandlerStep, StepEffect, EffectFits
  <2>2. CASE UNCHANGED vars
    BY <2>1, <2>2 DEF vars, localVars, CallsFit
  <2>3. CASE \E p \in Procs, m \in Messages : Call(p, m)
    BY <2>1, <2>3, StartFits
  <2>4. CASE \E p \in Procs : Step(p) \/ Crash(p)
    BY <2>1, <2>4, StepFits
  <2>5. \/ UNCHANGED vars
        \/ \E p \in Procs, m \in Messages : Call(p, m)
        \/ \E p \in Procs : Step(p) \/ Crash(p)
    BY DEF HandlerNext, allVars, Answer, Work, Reply, Die
  <2> QED BY <2>2, <2>3, <2>4, <2>5
<1>3. StoresFit => StoredFits
  BY DEF StoresFit, StoreFits, StoredFits, Live, Header, IsPresent, Fits
<1> QED
  BY <1>1, <1>2, <1>3, HandlerUsesManager, InvHolds, CarriedHolds, PTL DEF HandlerSpec

-----------------------------------------------------------------------------
(***************************************************************************)
(* Truthful, for a storage directory one server uses.  Between the return   *)
(* of a call and the response only this server could change the disk, and   *)
(* it is busy with the message (Reported); so what the call returned is     *)
(* still so (Returned), and the response is made of that and of what every  *)
(* chain satisfies (Inv, StoresLinked).                                     *)
(***************************************************************************)

\* What the result of call r says of the disk.
Returned(r, value) ==
    LET c == r.path  found == IsPresent(c) /\ hasHeader(disk[c].kv) IN
    CASE r.op = "create" ->
            Live(c) /\ Header(c).index = 0 /\ Header(c).data = r.data
      [] r.op = "remove" -> disk[c] = Absent
      [] r.op = "add" ->
            /\ Live(c) /\ Header(c).index \in Nat \ {0}
            /\ value.data = r.data /\ value = Blocks(c)[Header(c).index]
      [] r.op = "getBlock" -> Live(c) /\ value = Blocks(c)[r.index]
      [] r.op = "getBlocks" -> Live(c) /\ value = Blocks(c)
      [] r.op = "verify" -> Live(c)
      [] r.op = "header" -> found /\ value = Header(c)
      [] r.op = "info" ->
            found /\ value = [version |-> Header(c).version, index |-> Header(c).index]

Asked(p) == managerCall(selected(message[p]))

\* p works on a message: its call is the one the message names, or has returned.
ReportedBy(p) ==
    ~Free(p) =>
        /\ message[p].fields # {} /\ selected(message[p]).op # "ping"
        /\ pc[p] # "idle" => req[p] = Asked(p)
        /\ pc[p] = "idle" /\ res[p].ok => Returned(Asked(p), res[p].value)

TruthfulBy(p) ==
    message[p] # None /\ response[p] \notin {Unanswered, Null} =>
        /\ response[p].status = "SUCCESS" =>
            /\ message[p].fields # {}
            /\ \/ selected(message[p]).op = "ping"
               \/ TrueOf(selected(message[p]), response[p])
        /\ response[p].status = "DATA_ERROR" =>
            \/ ~message[p].parses
            \/ message[p].fields # {} /\ Oversized(selected(message[p]))
        /\ response[p].status = "NOT_SUPPORTED" => message[p].fields = {}

TruthInv == \A p \in Procs : ReportedBy(p) /\ TruthfulBy(p)

\* Both are about the disk alone.
LEMMA DiskTells ==
    ASSUME UNCHANGED disk, NEW r, NEW x
    PROVE  (Returned(r, x)' <=> Returned(r, x)) /\ (TrueOf(r, x)' <=> TrueOf(r, x))
BY DEF Returned, TrueOf, Live, Header, Blocks, IsPresent

LEMMA CreateSetReturns ==
    ASSUME Inv, Carried, NEW p \in Procs, CreateSet(p), res'[p].ok,
           NEW r, r = req[p], NEW v
    PROVE  Returned(r, v)'
<1> PICK c : c = r.path
  OBVIOUS
<1>1. SetKeys(p, createBatch(hdr[p])) /\ pc[p] = "createSet"
  BY ReturnTells DEF CreateSet, Fail
<1>2. /\ db[p] # NoPath /\ db[p] = c /\ Kv(p) = NoKeys /\ r.op = "create"
      /\ hdr[p] \in Headers /\ hdr[p].index = 0 /\ hdr[p].data = r.data
      /\ hdr[p].version = DB_VERSION
  BY <1>1 DEF Inv, TypeOK, CallsAt, SessionsOK, Kv, Carried, CarriedBy
<1> DEFINE new == Put(NoKeys, createBatch(hdr[p]))
<1>3. disk'[c] = Present(new)
  BY <1>1, <1>2, WriteTouchesOne
<1>4. hasHeader(new) /\ getHeader(new) = hdr[p]
  BY <1>2, CreateBatchCompletes
<1> HIDE DEF new
<1>5. Live(c)' /\ Header(c)' = hdr[p]
  BY <1>2, <1>3, <1>4 DEF Live, Header, IsPresent, Present, hasSupportedHeader
<1> QED
  BY <1>2, <1>5 DEF Returned

LEMMA AppendBlockReturns ==
    ASSUME Inv, Carried, NEW p \in Procs, AppendBlock(p), res'[p].ok,
           NEW r, r = req[p], NEW v, v = res'[p].value
    PROVE  Returned(r, v)'
<1> PICK c : c = r.path
  OBVIOUS
<1> DEFINE kv == disk[c].kv
           new == Put(kv, addBlockBatch(kv, blk[p]))
           n == getHeader(kv).index
<1>1. WritesBlock(p) /\ v = blk[p]
  BY ReturnTells DEF AppendBlock, Fail, WritesBlock, InSession
<1>2. /\ pc[p] = "append" /\ r.op = "add" /\ db[p] = c /\ db[p] # NoPath
      /\ blk[p].data = r.data /\ Kv(p) = kv
  BY <1>1 DEF WritesBlock, Inv, TypeOK, CallsAt, SessionsOK, Carried, CarriedBy, Kv
<1>3. Complete(kv) /\ hasHeader(kv) /\ hasSupportedHeader(kv)
  BY <1>1, <1>2, ReadsComplete DEF WritesBlock, hasSupportedHeader
<1>4. disk'[c] = Present(new)
  BY <1>1, <1>2, WriteTouchesOne DEF WritesBlock
<1>5. /\ n \in Nat /\ hasHeader(new)
      /\ getHeader(new) = [getHeader(kv) EXCEPT !.index = n + 1]
      /\ getBlock(new, n + 1) = blk[p]
  BY <1>3, AddBlockBatchAppends
<1>6. getHeader(kv) \in Headers
  <2>1. kv # NoKeys
    BY <1>3 DEF hasHeader, NoKeys
  <2> QED BY <1>3, <2>1 DEF Complete
<1> HIDE DEF new
<1>7. getHeader(new).version = DB_VERSION /\ getHeader(new).index = n + 1
  BY <1>3, <1>5, <1>6 DEF Headers, hasSupportedHeader
<1>8. disk'[c].state = "present" /\ disk'[c].kv = new
  BY <1>4 DEF Present
<1>9. Live(c)' /\ Header(c)' = getHeader(new) /\ Blocks(c)' = getBlocks(new)
  BY <1>5, <1>7, <1>8 DEF Live, Header, Blocks, IsPresent, hasSupportedHeader
<1>10. getBlocks(new)[n + 1] = v
  BY <1>1, <1>5, <1>7 DEF getBlocks
<1> QED
  BY <1>1, <1>2, <1>5, <1>7, <1>9, <1>10 DEF Returned

\* A call that succeeds has done, or has read, what it returns.
LEMMA StepReturns ==
    ASSUME Inv, Carried, NEW p \in Procs, Step(p), pc'[p] = "idle", res'[p].ok,
           NEW r, r = req[p], NEW v, v = res'[p].value
    PROVE  Returned(r, v)'
<1> PICK c : c = r.path
  OBVIOUS
<1>1. pc[p] # "idle"
  BY StepCarries
<1>2. /\ c \in Paths /\ r.op \in CallsAt[pc[p]]
      /\ db[p] # NoPath => IsPresent(c) /\ Kv(p) = disk[c].kv
  BY <1>1, SessionReads
<1>3. ~Fail(p)
  BY ReturnTells DEF Fail
<1>4. ~CreateOpen(p) /\ ~OpenStore(p) /\ ~CreateRefused(p) /\ ~OpenRefused(p)
  BY <1>1, <1>3 DEF CreateOpen, OpenStore, CreateRefused, OpenRefused, localVars, Inv, TypeOK
<1>5. ASSUME NEW header, NEW prevHash PROVE ~BuildBlock(p, header, prevHash)
  BY <1>3 DEF BuildBlock, EndSession, Inv, TypeOK
<1>6. ~ReadLast(p)
  BY <1>3, <1>5 DEF ReadLast
<1>7. CASE ReadHeader(p)
  <2>1. /\ pc[p] = "header" /\ db[p] # NoPath /\ UNCHANGED disk
        /\ r.op \in {"add", "verify", "header", "info"}
    BY <1>2, <1>7 DEF ReadHeader, InSession, CallsAt
  <2>2. IsPresent(c) /\ hasHeader(disk[c].kv) /\ Header(c) = getHeader(disk[c].kv)
        /\ Kv(p) = disk[c].kv
    BY <1>2, <1>3, <1>7, <2>1 DEF ReadHeader, Header
  <2>3. \A next, header, block :
            EndSession(p, next, header, block) => next = "idle"
    BY DEF EndSession, Inv, TypeOK
  <2>4. \/ r.op = "header" /\ Return(p, TRUE, Header(c))
        \/ /\ r.op = "info"
           /\ Return(p, TRUE, [version |-> Header(c).version, index |-> Header(c).index])
    BY <1>3, <1>5, <1>7, <2>1, <2>2, <2>3 DEF ReadHeader
  <2>5. Returned(r, v)
    BY <2>2, <2>4, ReturnTells DEF Returned
  <2> QED BY <2>1, <2>5, DiskTells
<1>8. CASE ReadBlock(p)
  <2>1. pc[p] = "getBlock" /\ db[p] # NoPath /\ UNCHANGED disk /\ r.op = "getBlock"
    BY <1>2, <1>8 DEF ReadBlock, InSession, CallsAt
  <2>2. blockReadable(disk[c].kv, r.index) /\ Return(p, TRUE, getBlock(disk[c].kv, r.index))
    BY <1>2, <1>3, <1>8, <2>1 DEF ReadBlock
  <2>3. /\ Live(c) /\ r.index \in Nat /\ r.index # 0 /\ r.index <= getHeader(disk[c].kv).index
        /\ getHeader(disk[c].kv).index \in Nat
    <3>1. r.index \in Nat
      BY <1>1, <2>1, ManagerAssumption DEF Inv, TypeOK, Requests
    <3>2. Live(c) /\ hasHeader(disk[c].kv)
      BY <1>2, <2>1, <2>2 DEF Live, blockReadable, hasSupportedHeader
    <3>3. getHeader(disk[c].kv).index \in Nat
      BY <1>2, <3>2, CompleteCounts DEF Inv, Contiguous
    <3> QED BY <2>2, <3>1, <3>2, <3>3 DEF blockReadable
  <2>4. Blocks(c)[r.index] = getBlock(disk[c].kv, r.index)
    BY <2>3 DEF Blocks, getBlocks
  <2>5. Returned(r, v)
    BY <2>1, <2>2, <2>3, <2>4, ReturnTells DEF Returned
  <2> QED BY <2>1, <2>5, DiskTells
<1>9. CASE ReadBlocks(p)
  <2>1. /\ pc[p] = "blocks" /\ db[p] # NoPath /\ UNCHANGED disk
        /\ r.op \in {"getBlocks", "verify"}
    BY <1>2, <1>9 DEF ReadBlocks, InSession, CallsAt
  <2>2. blocksReadable(disk[c].kv) /\ Live(c)
    BY <1>2, <1>3, <1>9, <2>1 DEF ReadBlocks, blocksReadable, Live
  <2>3. r.op = "getBlocks" => v = Blocks(c)
    BY <1>2, <1>3, <1>9, <2>1, ReturnTells DEF ReadBlocks, Blocks
  <2>4. Returned(r, v)
    BY <2>1, <2>2, <2>3 DEF Returned
  <2> QED BY <2>1, <2>4, DiskTells
<1>10. CASE RemoveChain(p)
  <2>1. pc[p] = "remove" /\ DestroyDB(req[p].path)
    BY <1>3, <1>10 DEF RemoveChain
  <2>2. r.op = "remove"
    BY <1>2, <2>1 DEF CallsAt
  <2>3. disk'[c] = Absent
    BY <1>2, <2>1 DEF DestroyDB, Inv, TypeOK
  <2> QED BY <2>2, <2>3 DEF Returned
<1> QED
  BY <1>4, <1>6, <1>7, <1>8, <1>9, <1>10, CreateSetReturns, AppendBlockReturns DEF Step

\* The response made of a result says of the disk what the result says.
LEMMA ResponseTrue ==
    ASSUME Inv, StoresLinked, NEW m \in Messages, m.fields # {}, selected(m).op # "ping",
           NEW value, Returned(managerCall(selected(m)), value),
           NEW resp, resp = makeResponse(body(selected(m), value))
    PROVE  TrueOf(selected(m), resp)
<1> PICK r : r = selected(m)
  OBVIOUS
<1> DEFINE c == r.path
           kv == disk[c].kv
<1>1. r \in Fields /\ r.op # "ping" /\ managerCall(r) \in Requests
  BY SelectedIsThere, CallsManager
<1>2. /\ r.op \in {"create", "remove", "add", "getBlock", "getBlocks", "verify",
                   "header", "keys", "info"}
      /\ managerCall(r).path = c /\ c \in Paths
      /\ managerCall(r) = IF r.op = "keys" THEN [r EXCEPT !.op = "header"] ELSE r
      /\ managerCall(r).op = IF r.op = "keys" THEN "header" ELSE r.op
  BY <1>1, ManagerAssumption DEF Fields, Requests, managerCall
<1>3. resp.body = body(r, value)
  BY DEF makeResponse
<1>4. Complete(kv) /\ StoreLinked(kv)
  BY <1>2 DEF Inv, Contiguous, StoresLinked
<1>5. Live(c) => hasHeader(kv)
  BY DEF Live, hasSupportedHeader
<1>6. hasHeader(kv) =>
        /\ Header(c).index \in Nat
        /\ Header(c).index = Cardinality(DOMAIN kv) - 1
        /\ KeysMatch(Header(c))
  BY <1>4, CompleteCounts DEF Header, StoreLinked
<1>7. \A block : Shows(setBlockData(block), block) /\ setBlockData(block).data = block.data
  BY DEF Shows, setBlockData
<1>8. CASE r.op \in {"create", "remove", "verify"}
  BY <1>2, <1>8 DEF Returned, TrueOf
<1>9. CASE r.op \in {"add", "getBlock"}
  <2>1. resp.body = setBlockData(value)
    BY <1>3, <1>9 DEF body
  <2> QED BY <1>2, <1>7, <1>9, <2>1 DEF Returned, TrueOf
<1>10. CASE r.op = "getBlocks"
  <2>1. resp.body = [n \in DOMAIN value |-> setBlockData(value[n])]
    BY <1>3, <1>10 DEF body
  <2>2. Live(c) /\ value = Blocks(c)
    BY <1>2, <1>10 DEF Returned
  <2>3. DOMAIN value = 1..Header(c).index /\ Header(c).index \in Nat
    BY <1>5, <1>6, <2>2 DEF Blocks, getBlocks, Header
  <2>4. Len(resp.body) = Header(c).index
    BY <2>1, <2>3
  <2>5. \A i \in DOMAIN resp.body : Shows(resp.body[i], Blocks(c)[i])
    BY <1>7, <2>1, <2>2
  <2> QED BY <1>10, <2>2, <2>4, <2>5 DEF TrueOf
<1>11. CASE r.op = "header"
  <2>1. value = Header(c) /\ hasHeader(kv)
    BY <1>2, <1>11 DEF Returned
  <2>2. /\ resp.body.version = value.version /\ resp.body.index = value.index
        /\ resp.body.data = value.data /\ resp.body.private_key = value.privateKey
        /\ resp.body.public_key = value.publicKey
    BY <1>3, <1>11 DEF body
  <2> QED BY <1>6, <1>11, <2>1, <2>2 DEF TrueOf, KeysMatch
<1>12. CASE r.op = "keys"
  <2>1. value = Header(c) /\ hasHeader(kv)
    BY <1>2, <1>12 DEF Returned
  <2>2. resp.body.private_key = value.privateKey /\ resp.body.public_key = value.publicKey
    BY <1>3, <1>12 DEF body
  <2>3. ASSUME NEW i \in 1..Header(c).index, NEW block, block = getBlock(kv, i)
        PROVE  /\ block.signature.by = resp.body.private_key
               /\ verifySignature(getHash(<<block.prevHash, block.nonce, block.data>>),
                                  resp.body.public_key, block.signature)
    <3>1. Sound(Header(c), LinkTo(kv, i), block)
      BY <1>4, <2>1, <2>3 DEF StoreLinked, Header
    <3>2. verifySignature(getHash(<<block.prevHash, block.nonce, block.data>>),
                          Header(c).publicKey, block.signature)
      BY <3>1 DEF Sound, verifyBlock
    <3>3. createPublicKey(Header(c).privateKey) = createPublicKey(block.signature.by)
      BY <1>6, <2>1, <3>2 DEF verifySignature, KeysMatch
    <3>4. Header(c).privateKey = block.signature.by
      BY <3>3 DEF createPublicKey
    <3> QED BY <2>1, <2>2, <3>2, <3>4
  <2> QED BY <1>12, <2>3 DEF TrueOf
<1>13. CASE r.op = "info"
  <2>1. /\ value = [version |-> Header(c).version, index |-> Header(c).index]
        /\ hasHeader(kv)
    BY <1>2, <1>13 DEF Returned
  <2>2. resp.body.chain_id = c /\ resp.body.index = value.index
    BY <1>3, <1>13 DEF body
  <2> QED BY <1>6, <1>13, <2>1, <2>2 DEF TrueOf
<1> QED
  BY <1>2, <1>8, <1>9, <1>10, <1>11, <1>12, <1>13

LEMMA AnswerKeepsTruth ==
    ASSUME MessagesInv, NEW p \in Procs, NEW m \in Messages, Answer(p, m)
    PROVE  ReportedBy(p)' /\ TruthfulBy(p)'
<1>1. PICK status \in refusals(m) : Respond(p, makeStatus(status))
  BY DEF Answer
<1>2. /\ status \in Status
      /\ status = "SUCCESS" => m.fields # {} /\ selected(m).op = "ping"
      /\ status = "DATA_ERROR" => ~m.parses \/ (m.fields # {} /\ Oversized(selected(m)))
      /\ status = "NOT_SUPPORTED" => m.fields = {}
  BY RefusalsAre DEF refusals
<1>3. makeStatus(status) # Unanswered /\ makeStatus(status).status = status
  BY <1>2 DEF makeStatus, Unanswered, Status
<1>4. message'[p] = m /\ response'[p] \in {makeStatus(status), Null}
  BY <1>1 DEF Answer, Respond, MessagesInv, MessagesTyped
<1>5. ReportedBy(p)'
  BY <1>3, <1>4, NullAssumption DEF ReportedBy, Free
<1>6. TruthfulBy(p)'
  BY <1>2, <1>3, <1>4 DEF TruthfulBy
<1> QED
  BY <1>5, <1>6

\* What handleMessage passes on is what the message asks for.
LEMMA CallStarts ==
    ASSUME Inv, NEW p \in Procs, NEW m \in Messages, Call(p, m)
    PROVE  /\ m.fields # {} /\ selected(m).op # "ping"
           /\ pc'[p] # "idle" /\ req'[p] = managerCall(selected(m))
           /\ UNCHANGED disk
<1> DEFINE r == managerCall(selected(m))
<1>1. r \in Requests /\ Start(p, r) /\ m.fields # {} /\ selected(m).op # "ping"
  BY CallsManager DEF Call
<1>2. pc'[p] = entry[r.op] /\ req'[p] = r /\ UNCHANGED disk
  BY <1>1 DEF Start, Inv, TypeOK, storageVars
<1>3. entry[r.op] # "idle"
  <2> HIDE DEF r
  <2> QED BY <1>1, ManagerAssumption DEF Requests, entry
<1> QED
  BY <1>1, <1>2, <1>3

LEMMA CallKeepsTruth ==
    ASSUME MessagesInv, Inv, NEW p \in Procs, NEW m \in Messages, Call(p, m)
    PROVE  ReportedBy(p)' /\ TruthfulBy(p)'
<1>1. message'[p] = m /\ response'[p] = Unanswered
  BY DEF Call, MessagesInv, MessagesTyped
<1> QED
  BY <1>1, CallStarts DEF ReportedBy, TruthfulBy, Asked

LEMMA WorkKeepsTruth ==
    ASSUME MessagesInv, Inv, Carried, NEW p \in Procs, ReportedBy(p), Work(p)
    PROVE  ReportedBy(p)' /\ TruthfulBy(p)'
<1>1. Step(p) /\ UNCHANGED <<message, response>>
  BY DEF Work, handlerVars
<1>2. pc[p] # "idle" /\ ~Free(p) /\ message[p] # None /\ response[p] = Unanswered
  BY <1>1, StepCarries DEF MessagesInv, Busy, Free
<1>3. /\ message[p].fields # {} /\ selected(message[p]).op # "ping" /\ req[p] = Asked(p)
  BY <1>2 DEF ReportedBy
<1>4. Asked(p)' = Asked(p)
  BY <1>1 DEF Asked
<1>5. pc'[p] # "idle" => req'[p] = req[p]
  <2>1. Finished(p) => pc'[p] = "idle"
    BY DEF Finished, Inv, TypeOK
  <2>2. Finished(p) \/ UNCHANGED req
    BY <1>1, StepCarries
  <2> QED BY <2>1, <2>2
<1>6. ASSUME pc'[p] = "idle", res'[p].ok PROVE Returned(Asked(p), res[p].value)'
  <2> PICK r, v : r = req[p] /\ v = res'[p].value
    OBVIOUS
  <2>1. Returned(r, v)'
    BY <1>1, <1>6, StepReturns
  <2>2. r = Asked(p)' /\ v = res'[p].value
    BY <1>3, <1>4
  <2> QED BY <2>1, <2>2
<1>7. TruthfulBy(p)'
  BY <1>1, <1>2 DEF TruthfulBy
<1> QED
  BY <1>1, <1>3, <1>4, <1>5, <1>6, <1>7 DEF ReportedBy

LEMMA ReplyKeepsTruth ==
    ASSUME MessagesInv, Inv, StoresLinked, NEW p \in Procs, ReportedBy(p), Reply(p)
    PROVE  ReportedBy(p)' /\ TruthfulBy(p)'
<1>1. ~Free(p) /\ pc[p] = "idle" /\ UNCHANGED message /\ UNCHANGED vars
  BY DEF Reply
<1>2. UNCHANGED <<disk, pc, req, res>>
  BY <1>1 DEF vars, storageVars, localVars
<1>3. message[p] \in Messages
  BY <1>1 DEF Free, MessagesInv, MessagesTyped
<1>4. /\ message[p].fields # {} /\ selected(message[p]).op # "ping"
      /\ res[p].ok => Returned(Asked(p), res[p].value)
  BY <1>1 DEF ReportedBy
<1>5. ReportedBy(p)'
  <2> PICK r, v : r = Asked(p) /\ v = res[p].value
    OBVIOUS
  <2>1. r = Asked(p)' /\ v = res'[p].value
    BY <1>1, <1>2 DEF Asked
  <2>2. res[p].ok => Returned(r, v)'
    BY <1>2, <1>4, DiskTells
  <2>3. res'[p].ok => Returned(Asked(p), res[p].value)'
    BY <1>2, <2>1, <2>2
  <2> QED BY <1>1, <1>2, <1>4, <2>3 DEF ReportedBy
<1>6. TruthfulBy(p)'
  <2>5. response'[p] # Null => response'[p].status \in {"SUCCESS", "ERROR"}
    BY DEF Reply, Respond, makeStatus, makeResponse, MessagesInv, MessagesTyped
  <2> SUFFICES ASSUME response'[p] # Null, response'[p].status = "SUCCESS"
               PROVE  TrueOf(selected(message[p]), response[p])'
    BY <1>1, <1>4, <2>5 DEF TruthfulBy
  <2> PICK r, resp : r = selected(message[p]) /\ resp = response'[p]
    OBVIOUS
  <2>1. res[p].ok /\ resp = makeResponse(body(selected(message[p]), res[p].value))
    BY DEF Reply, Respond, makeStatus, MessagesInv, MessagesTyped
  <2>2. TrueOf(r, resp)
    BY <1>3, <1>4, <2>1, ResponseTrue DEF Asked
  <2>3. TrueOf(r, resp)'
    BY <1>2, <2>2, DiskTells
  <2>4. r = selected(message[p])' /\ resp = response'[p]
    BY <1>1
  <2> QED BY <2>3, <2>4
<1> QED
  BY <1>5, <1>6

LEMMA TruthInvHolds == OneServer => (HandlerSpec => []TruthInv)
<1> SUFFICES ASSUME OneServer PROVE HandlerSpec => []TruthInv
  OBVIOUS
<1>1. HandlerInit => TruthInv
  BY DEF HandlerInit, TruthInv, ReportedBy, TruthfulBy, Free
<1>2. Inv /\ Carried /\ LinkedInv /\ MessagesInv /\ TruthInv /\ [HandlerNext]_allVars
        => TruthInv'
  <2> SUFFICES ASSUME Inv, Carried, StoresLinked, MessagesInv, TruthInv,
                      [HandlerNext]_allVars, NEW p \in Procs
               PROVE  ReportedBy(p)' /\ TruthfulBy(p)'
    BY DEF LinkedInv, TruthInv
  <2>1. ReportedBy(p) /\ TruthfulBy(p)
    BY DEF TruthInv
  <2>2. CASE UNCHANGED allVars
    <3>1. UNCHANGED <<disk, pc, req, res, message, response>>
      BY <2>2 DEF allVars, vars, storageVars, localVars, handlerVars
    <3> PICK r, v, s, resp : r = Asked(p) /\ v = res[p].value
                             /\ s = selected(message[p]) /\ resp = response[p]
      OBVIOUS
    <3>2. (Returned(r, v)' <=> Returned(r, v)) /\ (TrueOf(s, resp)' <=> TrueOf(s, resp))
      BY <3>1, DiskTells
    <3>3. r = Asked(p)' /\ v = res'[p].value /\ s = selected(message[p])' /\ resp = response'[p]
      BY <3>1 DEF Asked
    <3>4. ReportedBy(p)'
      BY <2>1, <3>1, <3>2, <3>3 DEF ReportedBy, Free
    <3>5. TruthfulBy(p)'
      BY <2>1, <3>1, <3>2, <3>3 DEF TruthfulBy
    <3> QED BY <3>4, <3>5
  <2>3. ASSUME Die(p) PROVE ReportedBy(p)' /\ TruthfulBy(p)'
    BY <2>3 DEF Die, ReportedBy, TruthfulBy, Free, MessagesInv, MessagesTyped
  <2>4. CASE HandlerNext
    <3>1. PICK q \in Procs :
            \/ \E m \in Messages : Answer(q, m) \/ Call(q, m)
            \/ Work(q) \/ Reply(q) \/ Die(q)
      BY <2>4 DEF HandlerNext
    <3>2. q = p
      BY DEF OneServer
    <3> QED BY <2>1, <2>3, <3>1, <3>2, AnswerKeepsTruth, CallKeepsTruth,
               WorkKeepsTruth, ReplyKeepsTruth
  <2> QED BY <2>2, <2>4
<1> QED
  BY <1>1, <1>2, HandlerUsesManager, InvHolds, CarriedHolds, LinkedHolds,
     MessagesInvHolds, PTL DEF HandlerSpec

\* What TruthInv says of the request the handler picked, it says of the one the
\* message is about.
LEMMA TruthTold ==
    ASSUME MessagesInv, NEW p \in Procs, TruthfulBy(p),
           message[p] # None, response[p] \notin {Unanswered, Null}
    PROVE  /\ response[p].status = "SUCCESS" =>
                \E r \in message[p].fields :
                    About(message[p], r) /\ (r.op = "ping" \/ TrueOf(r, response[p]))
           /\ RefusalOf(message[p], response[p].status)
<1> PICK m, resp : m = message[p] /\ resp = response[p]
  OBVIOUS
<1>1. m \in Messages
  BY DEF MessagesInv, MessagesTyped
<1>2. m.fields # {} => selected(m) \in m.fields /\ About(m, selected(m))
  BY <1>1, SelectedIsThere, SelectedIsAbout
<1>3. resp.status = "SUCCESS" =>
        \E r \in m.fields : About(m, r) /\ (r.op = "ping" \/ TrueOf(r, resp))
  BY <1>2 DEF TruthfulBy
<1>4. RefusalOf(m, resp.status)
  BY <1>2 DEF TruthfulBy, RefusalOf, Oversized
<1> QED
  BY <1>3, <1>4

\* With one server a client can rely on what it is told, for every number of
\* chains and blocks, every message and every failure: when a response says
\* SUCCESS, what the message asked for has happened, and what the response shows
\* is stored; when it refuses the payload or the message, it has that reason.
THEOREM ResponsesTrue == OneServer => (HandlerSpec => []Truthful)
<1>1. MessagesInv /\ TruthInv => Truthful
  BY TruthTold DEF TruthInv, Truthful
<1> QED
  BY <1>1, TruthInvHolds, MessagesInvHolds, PTL

=============================================================================
