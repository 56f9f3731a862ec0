--------------------------- MODULE System_proofs ----------------------------
(***************************************************************************)
(* Theorems about the composition.  System implements Service, with the     *)
(* real handler in the place of the arbitrary one, and Handler, with the    *)
(* messages that clients send; so what is proved of the two holds of the    *)
(* whole.  What users are told of the chains takes both: Service knows      *)
(* which request is executed when, Handler what that does to a chain.  What *)
(* they have in common is the request the thread works on (AtWork), its     *)
(* message (Mailed) and the statuses in answers (Told).                     *)
(***************************************************************************)
EXTENDS System, Service_proofs

\* Every step of the system is a step of Service, or one it does not see.
LEMMA SystemStep == [SystemNext]_systemVars => [Next]_vars
<1> SUFFICES ASSUME [SystemNext]_systemVars PROVE [Next]_vars
  OBVIOUS
<1>1. CASE UNCHANGED systemVars
  BY <1>1 DEF systemVars
<1>2. CASE Only(Launch \/ MainStep \/ Signal) \/ Dies
  BY <1>2 DEF Only, Dies, Next
<1>3. CASE HandleBegins \/ HandleWorks
  BY <1>3 DEF HandleBegins, HandleWorks
<1>4. CASE HandleAtOnce \/ HandleEnds
  BY <1>4 DEF HandleAtOnce, HandleEnds, Returns, Next, ThreadStep
<1>5. CASE \/ Only(Bind \/ Test \/ PollNothing \/ Respond \/ Close)
           \/ \E r \in Requests : Only(Receive(r))
  BY <1>5 DEF Only, Next, ThreadStep
<1>6. CASE \/ \E r \in Requests : Only(Transmit(r))
           \/ \E q \in outbox : Only(Drop(q))
  BY <1>6 DEF Only, Next
<1>7. ASSUME NEW c \in Clients, Type(c) \/ Only(SendFails(c)) \/ UserSteps(c)
      PROVE  Next
  BY <1>7 DEF Type, Only, UserSteps, Hear, Next, ClientStep
<1> QED
  BY <1>1, <1>2, <1>3, <1>4, <1>5, <1>6, <1>7 DEF SystemNext, ThreadSteps

\* The system, handler and storage included, is a Service: what the handler
\* does between the receipt of a request and its response is invisible to the
\* network, takes place once, and ends in the response Service knows.
THEOREM SystemIsService == SystemSpec => Spec
<1>1. SystemInit => Init
  BY DEF SystemInit
<1> QED
  BY <1>1, SystemStep, PTL DEF SystemSpec, Spec

\* No message is handled twice and every response belongs to the call that
\* gets it, with the whole of the storage behind the server.
THEOREM ServedOnce == SystemSpec => []AtMostOnce /\ []AnswersMatch
BY SystemIsService, ExecutedAtMostOnce, ResponsesBelong, PTL

-----------------------------------------------------------------------------
(***************************************************************************)
(* The handler.  P is the H of System, with its theorems.                   *)
(***************************************************************************)
P == INSTANCE Handler_proofs WITH
        Procs <- {Server}, Data <- Requests, Legacy <- {}, Companions <- {},
        response <- reply

LEMMA SameHandler ==
    /\ H!HandlerInit <=> P!HandlerInit
    /\ H!Messages = P!Messages
    /\ \A m : /\ H!Answer(Server, m) <=> P!Answer(Server, m)
              /\ H!Call(Server, m) <=> P!Call(Server, m)
              /\ H!selected(m) = P!selected(m)
              /\ H!KnowsPassword(m) <=> P!KnowsPassword(m)
    /\ H!Work(Server) <=> P!Work(Server)
    /\ H!Reply(Server) <=> P!Reply(Server)
    /\ H!Die(Server) <=> P!Die(Server)
BY DEF H!Absent, P!Absent, H!Answer, P!Answer, H!AppendBlock, P!AppendBlock,
       H!Authorized, P!Authorized, H!BuildBlock, P!BuildBlock, H!Call, P!Call,
       H!CloseDB, P!CloseDB, H!Container, P!Container, H!Crash, P!Crash,
       H!CrashedDisk, P!CrashedDisk, H!CreateDB, P!CreateDB, H!CreateDBFails,
       P!CreateDBFails, H!CreateOpen, P!CreateOpen, H!CreateRefused,
       P!CreateRefused, H!CreateSet, P!CreateSet, H!CryptoFails, P!CryptoFails,
       H!DB_HEADER_KEY, P!DB_HEADER_KEY, H!Damaged, P!Damaged, H!DestroyDB,
       P!DestroyDB, H!DestroyDBFails, P!DestroyDBFails, H!Die, P!Die, H!EndSession,
       P!EndSession, H!Entries, P!Entries, H!Fail, P!Fail, H!Fields, P!Fields,
       H!ForgetIfTouched, P!ForgetIfTouched, H!Free, P!Free, H!HalfRemoved,
       P!HalfRemoved, H!HandlerInit, P!HandlerInit, H!Header, P!Header, H!InSession,
       P!InSession, H!Init, P!Init, H!IsPresent, P!IsPresent, H!KnowsPassword,
       P!KnowsPassword, H!Kv, P!Kv, H!LegacyStores, P!LegacyStores, H!Live, P!Live,
       H!Locked, P!Locked, H!Messages, P!Messages, H!NoKeys, P!NoKeys, H!OpenDB,
       P!OpenDB, H!OpenDBFails, P!OpenDBFails, H!OpenRefused, P!OpenRefused,
       H!OpenStore, P!OpenStore, H!Others, P!Others, H!Oversized, P!Oversized,
       H!Present, P!Present, H!Put, P!Put, H!ReadBlock, P!ReadBlock, H!ReadBlocks,
       P!ReadBlocks, H!ReadFails, P!ReadFails, H!ReadHeader, P!ReadHeader,
       H!ReadLast, P!ReadLast, H!RemoveChain, P!RemoveChain, H!Reply, P!Reply,
       H!Requests, P!Requests, H!Respond, P!Respond, H!Return, P!Return,
       H!SerializeFails, P!SerializeFails, H!Sessions, P!Sessions, H!SetKeys,
       P!SetKeys, H!SetKeysFails, P!SetKeysFails, H!Start, P!Start, H!Step, P!Step,
       H!Unanswered, P!Unanswered, H!Work, P!Work, H!addBlockBatch, P!addBlockBatch,
       H!blockReadable, P!blockReadable, H!blocksReadable, P!blocksReadable, H!body,
       P!body, H!checkAuth, P!checkAuth, H!createBatch, P!createBatch,
       H!createPublicKey, P!createPublicKey, H!dispatch, P!dispatch, H!entry,
       P!entry, H!getBlock, P!getBlock, H!getBlocks, P!getBlocks, H!getHash,
       P!getHash, H!getHashN, P!getHashN, H!getHeader, P!getHeader, H!getSignature,
       P!getSignature, H!handlerVars, P!handlerVars, H!hasBlock, P!hasBlock,
       H!hasHeader, P!hasHeader, H!hasSupportedHeader, P!hasSupportedHeader,
       H!headerHash, P!headerHash, H!historyVars, P!historyVars, H!legacyHeader,
       P!legacyHeader, H!localVars, P!localVars, H!makeBlock, P!makeBlock,
       H!makeBlockName, P!makeBlockName, H!makeResponse, P!makeResponse,
       H!makeStatus, P!makeStatus, H!managerCall, P!managerCall, H!newHeader,
       P!newHeader, H!packBlock, P!packBlock, H!packHeader, P!packHeader,
       H!passwordHash, P!passwordHash, H!refusals, P!refusals, H!selected,
       P!selected, H!setBlockData, P!setBlockData, H!storageVars, P!storageVars,
       H!unpack, P!unpack, H!vars, P!vars, H!verifyBlock, P!verifyBlock,
       H!verifyBlocks, P!verifyBlocks, H!verifySignature, P!verifySignature

LEMMA SameEntries == \A c : entries(c) = P!StoredIn(c) /\ entries(c)' = P!StoredIn(c)'
BY DEF entries, P!StoredIn,
       H!Live, P!Live, H!Entries, P!Entries, H!Header, P!Header, H!IsPresent,
       P!IsPresent, H!hasSupportedHeader, P!hasSupportedHeader, H!hasHeader,
       P!hasHeader, H!getHeader, P!getHeader, H!getBlock, P!getBlock, H!unpack,
       P!unpack, H!DB_HEADER_KEY, P!DB_HEADER_KEY, H!makeBlockName, P!makeBlockName

\* Handler's constants are as Handler assumes them to be.
LEMMA HandlerAssumptions ==
    /\ P!NoPathAssumption /\ P!VersionAssumption /\ P!ManagerAssumption
    /\ P!HandlerAssumption /\ P!NullAssumption
<1>1. H!Messages = P!Messages
  BY SameHandler
<1>2. H!Unanswered = P!Unanswered
  BY DEF H!Unanswered, P!Unanswered, H!makeStatus, P!makeStatus
<1> QED
  BY <1>1, <1>2, SystemAssumption

-----------------------------------------------------------------------------
(***************************************************************************)
(* The steps of the system, by what they do to a request.                   *)
(***************************************************************************)

\* The steps of Service besides the sending and the handling of a request.
Moves ==
    \/ Launch \/ MainStep \/ Signal \/ Bind \/ Test \/ PollNothing \/ Respond \/ Close
    \/ \E r \in Requests : Receive(r) \/ Transmit(r)
    \/ \E q \in outbox : Drop(q)
    \/ \E c \in Clients : SendFails(c) \/ TimesOut(c) \/ Lingered(c) \/ Answered(c)

LEMMA StepKinds ==
    ASSUME [SystemNext]_systemVars
    PROVE  \/ UNCHANGED systemVars
           \/ Moves /\ UNCHANGED <<handlerVars, userVars>>
           \/ \E c \in Clients : Hear(c) \/ Type(c)
           \/ HandleAtOnce \/ HandleBegins \/ HandleWorks \/ HandleEnds \/ Dies
BY DEF SystemNext, ThreadSteps, UserSteps, Only, Moves

\* Requests only move on, from the pipe to the socket to the thread.
Forward ==
    /\ \A c \in Clients : calls'[c] \in Nat /\ calls[c] <= calls'[c]
    /\ wire' \cup inbox' \subseteq wire \cup inbox
    /\ cur' # Null => cur' = cur \/ cur' \in inbox
    /\ thread' = "handle" => (cur' = cur /\ thread = "handle") \/ cur' \in inbox

LEMMA MovesForward ==
    ASSUME Inv, Moves
    PROVE  /\ Forward
           /\ UNCHANGED <<executed, outcome>>
           /\ thread = "handle" => thread' = "handle" /\ cur' = cur
<1> USE DEF processVars, networkVars, clientVars, historyVars, serverVars
<1>1. \A c \in Clients : calls[c] \in Nat /\ calls[c] <= calls[c]
  BY DEF Inv, TypeOK
<1>2. CASE Launch \/ MainStep \/ Signal \/ Bind \/ Test \/ PollNothing
  <2>1. Control
    BY <1>2 DEF Control, MainStep
  <2>2. /\ UNCHANGED <<inbox, wire, calls, executed, outcome, cur>>
        /\ \/ thread' = thread
           \/ thread # "handle" /\ thread' # "handle"
    BY <2>1, ControlFrame
  <2> QED BY <1>1, <2>2 DEF Forward
<1>3. CASE Respond \/ Close
  BY <1>1, <1>3 DEF Respond, Close, Forward
<1>4. ASSUME NEW r \in Requests, Receive(r) \/ Transmit(r)
      PROVE  /\ Forward /\ UNCHANGED <<executed, outcome>>
             /\ thread = "handle" => thread' = "handle" /\ cur' = cur
  BY <1>1, <1>4 DEF Receive, Transmit, Forward
<1>5. CASE \E q \in outbox : Drop(q)
  BY <1>1, <1>5 DEF Drop, Forward
<1>6. ASSUME NEW c \in Clients, SendFails(c)
      PROVE  /\ Forward /\ UNCHANGED <<executed, outcome>>
             /\ thread = "handle" => thread' = "handle" /\ cur' = cur
  BY <1>1, <1>6 DEF SendFails, Forward, Inv, TypeOK
<1>7. ASSUME NEW c \in Clients, TimesOut(c) \/ Lingered(c) \/ Answered(c)
      PROVE  /\ Forward /\ UNCHANGED <<executed, outcome>>
             /\ thread = "handle" => thread' = "handle" /\ cur' = cur
  BY <1>1, <1>7 DEF TimesOut, Lingered, Answered, Forward
<1> QED
  BY <1>2, <1>3, <1>4, <1>5, <1>6, <1>7 DEF Moves

LEMMA HandlingForward ==
    ASSUME Inv, HandleAtOnce \/ HandleBegins \/ HandleWorks \/ HandleEnds \/ Dies
    PROVE  Forward /\ UNCHANGED content
<1>1. \A c \in Clients : calls[c] \in Nat /\ calls[c] <= calls[c]
  BY DEF Inv, TypeOK
<1>2. CASE HandleAtOnce \/ HandleEnds
  BY <1>1, <1>2 DEF HandleAtOnce, HandleEnds, Returns, Handle, Forward, serverVars, clientVars
<1>3. CASE HandleBegins \/ HandleWorks
  BY <1>1, <1>3 DEF HandleBegins, HandleWorks, Forward, vars, processVars, networkVars,
                    clientVars, userVars
<1>4. CASE Dies
  BY <1>1, <1>4 DEF Dies, Crash, Forward, clientVars, userVars
<1> QED
  BY <1>2, <1>3, <1>4

-----------------------------------------------------------------------------
(***************************************************************************)
(* What is in the pipes, at the socket and in the thread has been sent, and *)
(* what has been sent is a message of Handler with one request, whose data  *)
(* is the call itself.                                                      *)
(***************************************************************************)
Mailed ==
    /\ content \in [Requests -> P!Messages \cup {None}]
    /\ \A r \in Requests : Sent(r) =>
        /\ r[2] <= calls[r[1]]
        /\ \E f : content[r].fields = {f} /\ (f.op \in {"create", "add"} => f.data = r)
    /\ \A r \in wire \cup inbox : Sent(r)
    /\ cur # Null => Sent(cur)

LEMMA ForwardKeepsMail ==
    ASSUME Inv, Mailed, Forward, UNCHANGED content
    PROVE  Mailed'
<1>1. \A r \in Requests : r[1] \in Clients /\ r[2] \in Nat
  BY RequestParts, ServiceAssumption
<1>2. \A r \in Requests : Sent(r)' <=> Sent(r)
  BY DEF Sent
<1>3. ASSUME NEW r \in Requests, Sent(r) PROVE r[2] <= calls'[r[1]]
  <2>1. r[2] <= calls[r[1]] /\ calls[r[1]] \in Nat
    BY <1>1, <1>3 DEF Mailed, Inv, TypeOK
  <2> QED BY <1>1, <2>1 DEF Forward
<1>4. \A r \in wire' \cup inbox' : content[r] # None
  BY DEF Forward, Mailed, Sent
<1>5. cur' # Null => content[cur'] # None
  BY DEF Forward, Mailed, Sent
<1> QED
  BY <1>2, <1>3, <1>4, <1>5 DEF Mailed, Sent

\* The client's message for call r carries r.
LEMMA ClientMessage ==
    ASSUME NEW r \in Requests, NEW command \in Script[r],
           NEW m \in requests(options(command, r))
    PROVE  /\ m \in P!Messages
           /\ \E f : m.fields = {f} /\ (f.op \in {"create", "add"} => f.data = r)
<1> DEFINE opt == options(command, r)
<1>1. m \in P!Messages
  BY SystemAssumption, SameHandler
<1>2. opt["--data"] = r
  <2>1. "--data" \in DOMAIN CliDefaults
    BY DEF CliDefaults, CliHandlers, Texts
  <2> QED BY <2>1 DEF options
<1> HIDE DEF opt
<1>3. m.fields = {field(opt)}
  BY DEF requests, opt
<1>4. field(opt).op \in {"create", "add"} => field(opt).data = r
  BY <1>2 DEF field
<1> QED
  BY <1>1, <1>3, <1>4

LEMMA TypeKeepsMail ==
    ASSUME Inv, Mailed, NEW c \in Clients, Type(c)
    PROVE  Mailed'
<1> DEFINE r == <<c, calls[c] + 1>>
<1>1. /\ calls[c] \in Nat /\ calls[c] < MaxCalls
      /\ calls' = [calls EXCEPT ![c] = @ + 1] /\ wire' = wire \cup {r}
      /\ UNCHANGED <<inbox, cur>>
  BY DEF Type, Send, Inv, TypeOK, processVars
<1>2. r \in Requests /\ r[1] = c /\ r[2] = calls[c] + 1
  BY <1>1, RequestParts, ServiceAssumption
<1> HIDE DEF r
<1>3. PICK m : /\ content' = [content EXCEPT ![r] = m]
               /\ m \in P!Messages
               /\ \E f : m.fields = {f} /\ (f.op \in {"create", "add"} => f.data = r)
  BY <1>2, ClientMessage DEF Type, r
<1>4. m # None
  BY <1>3, HandlerAssumptions DEF P!NullAssumption
<1>5. content' \in [Requests -> P!Messages \cup {None}]
  BY <1>3 DEF Mailed
<1>6. /\ content'[r] = m
      /\ \A q \in Requests \ {r} : content'[q] = content[q]
  BY <1>2, <1>3 DEF Mailed
<1>7. ASSUME NEW q \in Requests, content'[q] # None
      PROVE  /\ q[2] <= calls'[q[1]]
             /\ \E f : content'[q].fields = {f} /\ (f.op \in {"create", "add"} => f.data = q)
  <2>1. q[1] \in Clients /\ q[2] \in Nat /\ calls[q[1]] \in Nat
    BY RequestParts, ServiceAssumption DEF Inv, TypeOK
  <2>2. calls'[q[1]] = IF q[1] = c THEN calls[c] + 1 ELSE calls[q[1]]
    BY <1>1, <2>1 DEF Inv, TypeOK
  <2>3. CASE q = r
    BY <1>1, <1>2, <1>3, <1>6, <2>2, <2>3
  <2>4. CASE q # r
    <3>1. content'[q] = content[q] /\ Sent(q)
      BY <1>6, <1>7, <2>4 DEF Sent
    <3>2. q[2] <= calls[q[1]]
      BY <3>1 DEF Mailed
    <3> QED BY <1>1, <2>1, <2>2, <3>1, <3>2 DEF Mailed
  <2> QED BY <2>3, <2>4
<1>8. \A q \in wire' \cup inbox' : content'[q] # None
  <2>1. wire \cup inbox \subseteq Requests
    BY DEF Inv, TypeOK
  <2> QED BY <1>1, <1>4, <1>6, <2>1 DEF Mailed, Sent
<1>9. cur' # Null => content'[cur'] # None
  <2>1. cur # Null => cur \in Requests
    BY DEF Inv, TypeOK
  <2> QED BY <1>1, <1>4, <1>6, <2>1 DEF Mailed, Sent
<1> QED
  BY <1>5, <1>7, <1>8, <1>9 DEF Mailed, Sent

LEMMA MailedHolds == SystemSpec => []Mailed
<1>1. SystemInit => Mailed
  BY DEF SystemInit, Init, Mailed, Sent
<1>2. Inv /\ Mailed /\ [SystemNext]_systemVars => Mailed'
  <2> SUFFICES ASSUME Inv, Mailed, [SystemNext]_systemVars PROVE Mailed'
    OBVIOUS
  <2>1. CASE UNCHANGED systemVars
    BY <2>1 DEF systemVars, vars, processVars, networkVars, clientVars, userVars, Mailed, Sent
  <2>2. CASE Moves /\ UNCHANGED <<handlerVars, userVars>>
    BY <2>2, MovesForward, ForwardKeepsMail DEF userVars
  <2>3. ASSUME NEW c \in Clients, Hear(c) PROVE Mailed'
    BY <2>3, MovesForward, ForwardKeepsMail DEF Hear, Moves
  <2>4. CASE HandleAtOnce \/ HandleBegins \/ HandleWorks \/ HandleEnds \/ Dies
    BY <2>4, HandlingForward, ForwardKeepsMail
  <2> QED BY <2>1, <2>2, <2>3, <2>4, TypeKeepsMail, StepKinds
<1> QED
  BY <1>1, <1>2, SystemIsService, InvAlways, PTL DEF SystemSpec

LEMMA SystemStepOfHandler ==
    ASSUME Inv, Mailed, [SystemNext]_systemVars
    PROVE  [P!HandlerNext]_(P!allVars)
<1>1. thread = "handle" => content[cur] \in P!Messages
  BY DEF Inv, TypeOK, Mailed, Sent
<1>2. CASE UNCHANGED handlerVars
  BY <1>2 DEF handlerVars, managerVars, P!allVars, P!vars, P!storageVars, P!localVars,
              P!historyVars, P!handlerVars
<1>3. CASE UNCHANGED systemVars \/ \E c \in Clients : Hear(c) \/ Type(c)
  BY <1>2, <1>3 DEF systemVars, Hear, Type
<1>4. CASE HandleAtOnce \/ HandleBegins
  BY <1>1, <1>4, SameHandler DEF HandleAtOnce, HandleBegins, P!HandlerNext
<1>5. CASE HandleWorks \/ HandleEnds \/ Dies
  BY <1>5, SameHandler DEF HandleWorks, HandleEnds, Dies, P!HandlerNext
<1> QED
  BY <1>2, <1>3, <1>4, <1>5, StepKinds

\* The system is a Handler as well: its server thread runs handleMessage for one
\* message after another, each of them one that Handler knows, and nothing else
\* touches the storage.
THEOREM SystemIsHandler == SystemSpec => P!HandlerSpec
<1>1. SystemInit => P!HandlerInit
  BY SameHandler DEF SystemInit
<1>2. Inv /\ Mailed /\ [SystemNext]_systemVars => [P!HandlerNext]_(P!allVars)
  BY SystemStepOfHandler
<1> QED
  BY <1>1, <1>2, MailedHolds, SystemIsService, InvAlways, PTL DEF SystemSpec, P!HandlerSpec

\* So what is proved of the handler, whatever messages it is sent, is true of the
\* whole daemon: whoever does not know the password starts nothing and sees no
\* data, no payload above the limit is stored, and a reported success is one.
THEOREM SystemServesRightly ==
    SystemSpec => []P!Guarded /\ []P!StoredFits /\ []P!Truthful
<1>1. P!OneServer
  BY DEF P!OneServer
<1> QED
  BY <1>1, SystemIsHandler, HandlerAssumptions, P!PasswordGuards, P!PayloadsFit,
     P!ResponsesTrue, PTL

-----------------------------------------------------------------------------
(***************************************************************************)
(* Service and Handler side by side.  Handler works on a message only while *)
(* the thread is in handleMessage, and on the message of the request the    *)
(* thread has received (AtWork).  What a user was told is what the handler  *)
(* returned, and the calls in before[r] had been answered (Told).           *)
(***************************************************************************)
StorageInv == P!Inv /\ P!Carried /\ P!MessagesInv /\ P!TruthInv

LEMMA StorageInvHolds == SystemSpec => []StorageInv
<1>1. P!OneServer
  BY DEF P!OneServer
<1>2. P!HandlerSpec => []P!Inv
  BY HandlerAssumptions, P!HandlerUsesManager, P!InvHolds, PTL
<1>3. P!HandlerSpec => []P!Carried
  BY HandlerAssumptions, P!HandlerUsesManager, P!CarriedHolds, PTL
<1>4. P!HandlerSpec => []P!MessagesInv
  BY HandlerAssumptions, P!MessagesInvHolds, PTL
<1>5. P!HandlerSpec => []P!TruthInv
  BY <1>1, HandlerAssumptions, P!TruthInvHolds, PTL
<1>6. StorageInv <=> P!Inv /\ P!Carried /\ P!MessagesInv /\ P!TruthInv
  BY DEF StorageInv
<1> QED
  BY <1>2, <1>3, <1>4, <1>5, <1>6, SystemIsHandler, PTL

AtWork == ~P!Free(Server) => thread = "handle" /\ message[Server] = content[cur]

Told ==
    /\ answer \in [Requests -> Statuses \cup {Null}]
    /\ before \in [Requests -> SUBSET Requests]
    /\ DOMAIN seen = Requests
    /\ \A r \in Requests :
        /\ outcome[r] # Null => executed[r] # 0 /\ Sent(r)
        /\ answer[r] # Null => answer[r] = outcome[r]
        /\ \A q \in before[r] : answer[q] # Null

Base == Inv /\ Mailed /\ StorageInv /\ AtWork /\ Told

\* A call is new when it is typed.
LEMMA TypedIsNew ==
    ASSUME Inv, Mailed, Told, NEW c \in Clients, Type(c)
    PROVE  LET r == <<c, calls[c] + 1>> IN
           /\ r \in Requests /\ ~Sent(r) /\ Fresh(r)
           /\ wire' = wire \cup {r}
           /\ UNCHANGED <<inbox, cur, thread, executed, outcome, handlerVars, answer, seen>>
           /\ \A q \in Requests \ {r} : content'[q] = content[q] /\ before'[q] = before[q]
<1> DEFINE r == <<c, calls[c] + 1>>
<1>1. /\ calls[c] \in Nat /\ calls[c] < MaxCalls /\ wire' = wire \cup {r}
      /\ UNCHANGED <<inbox, cur, thread, executed, outcome, handlerVars, answer, seen>>
  <2>1. Send(c) /\ UNCHANGED <<handlerVars, answer, seen>>
    BY DEF Type
  <2> QED BY <2>1 DEF Send, Inv, TypeOK, processVars, historyVars
<1>6. \E m : content' = [content EXCEPT ![r] = m]
  BY DEF Type
<1>7. before' = [before EXCEPT ![r] = {q \in Requests : answer[q] # Null}]
  BY DEF Type
<1>2. r \in Requests /\ r[1] = c /\ r[2] = calls[c] + 1
  BY <1>1, RequestParts, ServiceAssumption
<1> HIDE DEF r
<1>3. r[2] > calls[r[1]] /\ ~(r[2] <= calls[r[1]])
  BY <1>1, <1>2
<1>4. Fresh(r) /\ ~Sent(r)
  BY <1>2, <1>3 DEF Inv, OnItsWay, Mailed
<1>5. \A q \in Requests \ {r} : content'[q] = content[q] /\ before'[q] = before[q]
  BY <1>6, <1>7 DEF Mailed, Told
<1> QED
  BY <1>1, <1>2, <1>4, <1>5 DEF r

LEMMA AtWorkKept ==
    ASSUME Base, [SystemNext]_systemVars
    PROVE  AtWork'
<1> USE DEF Base
<1>1. P!Free(Server) <=> (message[Server] = None \/ reply[Server] # P!Unanswered)
  BY DEF P!Free
<1>2. P!Free(Server)' <=> (message'[Server] = None \/ reply'[Server] # P!Unanswered)
  BY DEF P!Free, P!Unanswered, P!makeStatus
<1>3. UNCHANGED handlerVars => UNCHANGED <<message, reply>>
  BY DEF handlerVars
<1>4. CASE UNCHANGED systemVars
  BY <1>1, <1>2, <1>3, <1>4 DEF systemVars, AtWork, vars, processVars, userVars
<1>5. CASE Moves /\ UNCHANGED <<handlerVars, content>>
  BY <1>1, <1>2, <1>3, <1>5, MovesForward DEF AtWork
<1>6. ASSUME NEW c \in Clients, Hear(c) PROVE AtWork'
  BY <1>5, <1>6 DEF Hear, Moves
<1>7. ASSUME NEW c \in Clients, Type(c) PROVE AtWork'
  <2>1. ~P!Free(Server) => cur \in Requests /\ Sent(cur)
    BY DEF AtWork, Inv, TypeOK, Mailed
  <2> QED BY <1>1, <1>2, <1>3, <1>7, <2>1, TypedIsNew DEF AtWork
<1>8. CASE HandleAtOnce \/ HandleEnds
  <2>1. thread = "handle" => content[cur] \in P!Messages
    BY DEF Inv, TypeOK, Mailed, Sent
  <2>2. P!Reply(Server) \/ \E m \in P!Messages : P!Answer(Server, m)
    BY <1>8, <2>1, SameHandler DEF HandleAtOnce, HandleEnds
  <2>3. P!Free(Server)'
    BY <2>2, P!AnsweredIsFree, HandlerAssumptions DEF StorageInv
  <2> QED BY <2>3 DEF AtWork
<1>9. CASE HandleBegins
  <2>1. thread' = "handle" /\ cur' = cur /\ content' = content
    BY <1>9 DEF HandleBegins, vars, processVars, userVars
  <2>2. message' = [message EXCEPT ![Server] = content[cur]]
    BY <1>9, SameHandler DEF HandleBegins, P!Call
  <2>3. message'[Server] = content[cur]
    BY <2>2 DEF StorageInv, P!MessagesInv, P!MessagesTyped
  <2> QED BY <2>1, <2>3 DEF AtWork
<1>10. CASE HandleWorks
  <2>1. UNCHANGED <<message, reply, thread, cur, content>>
    BY <1>10, SameHandler DEF HandleWorks, P!Work, P!handlerVars, vars, processVars, userVars
  <2> QED BY <1>1, <1>2, <2>1 DEF AtWork
<1>11. CASE Dies
  <2>1. message' = [message EXCEPT ![Server] = None]
    BY <1>11, SameHandler DEF Dies, P!Die
  <2>2. message'[Server] = None
    BY <2>1 DEF StorageInv, P!MessagesInv, P!MessagesTyped
  <2> QED BY <1>2, <2>2 DEF AtWork
<1> QED
  BY <1>4, <1>5, <1>6, <1>7, <1>8, <1>9, <1>10, <1>11, StepKinds DEF userVars

\* Every end of handleMessage is recorded for the request in the thread.
LEMMA ReturnsOutcome ==
    ASSUME Inv, Returns
    PROVE  /\ cur \in Requests /\ thread = "handle" /\ executed[cur] = 0
           /\ executed'[cur] = 1 /\ outcome'[cur] = response'
           /\ outcome' \in [Requests -> Statuses \cup {Null}]
           /\ \A r \in Requests \ {cur} :
                executed'[r] = executed[r] /\ outcome'[r] = outcome[r]
           /\ UNCHANGED <<cur, wire, inbox, content, answer, before>>
           /\ thread' = "respond"
<1>1. cur \in Requests /\ thread = "handle"
  BY DEF Returns, Handle, Inv, TypeOK
<1>2. executed[cur] = 0
  BY <1>1 DEF Inv, OnItsWay
<1>3. /\ executed' = [executed EXCEPT ![cur] = @ + 1]
      /\ outcome' = [outcome EXCEPT ![cur] = response']
      /\ response' \in Statuses \cup {Null} /\ thread' = "respond"
      /\ UNCHANGED <<cur, wire, inbox, content, answer, before>>
  BY ServiceAssumption DEF Returns, Handle, serverVars
<1> QED
  BY <1>1, <1>2, <1>3 DEF Inv, TypeOK

LEMMA HearTells ==
    ASSUME Inv, Told, NEW c \in Clients, Hear(c)
    PROVE  \E r \in Requests :
            /\ answer' = [answer EXCEPT ![r] = outcome[r]]
            /\ outcome[r] \in Statuses /\ outcome[r] # Null
<1>1. PICK q \in outbox : Awaits(c, q) /\ result' = [result EXCEPT ![c] = q.status]
  BY DEF Hear, Answered
<1>2. q.req = <<c, calls[c]>> /\ q.req \in Requests /\ q.status \in Statuses
  BY <1>1 DEF Awaits, Inv, TypeOK
<1>3. outcome[q.req] = q.status /\ result'[c] = q.status
  BY <1>1 DEF Inv, Responses, TypeOK
<1>4. answer' = [answer EXCEPT ![q.req] = outcome[q.req]]
  BY <1>2, <1>3 DEF Hear
<1> QED
  BY <1>2, <1>3, <1>4, ServiceAssumption

LEMMA ToldKept ==
    ASSUME Base, [SystemNext]_systemVars
    PROVE  Told'
<1> USE DEF Base
<1>1. CASE UNCHANGED systemVars
  BY <1>1 DEF systemVars, vars, historyVars, userVars, Told, Sent
<1>2. CASE Moves /\ UNCHANGED <<handlerVars, userVars>>
  BY <1>2, MovesForward DEF Told, Sent, userVars
<1>3. ASSUME NEW c \in Clients, Hear(c) PROVE Told'
  <2>1. PICK r \in Requests :
            /\ answer' = [answer EXCEPT ![r] = outcome[r]]
            /\ outcome[r] \in Statuses /\ outcome[r] # Null
    BY <1>3, HearTells
  <2>2. UNCHANGED <<executed, outcome, before, seen, content>>
    BY <1>3, MovesForward DEF Hear, Moves
  <2> QED BY <2>1, <2>2 DEF Told, Sent
<1>4. ASSUME NEW c \in Clients, Type(c) PROVE Told'
  <2> DEFINE r == <<c, calls[c] + 1>>
  <2>1. /\ r \in Requests /\ ~Sent(r) /\ UNCHANGED <<executed, outcome, answer, seen>>
        /\ \A q \in Requests \ {r} : content'[q] = content[q]
    BY <1>4, TypedIsNew
  <2>2. before' = [before EXCEPT ![r] = {q \in Requests : answer[q] # Null}]
    BY <1>4 DEF Type
  <2> HIDE DEF r
  <2>3. \A q \in Requests : outcome[q] # Null => content'[q] # None
    BY <2>1 DEF Told, Sent
  <2> QED BY <2>1, <2>2, <2>3 DEF Told, Sent
<1>5. CASE HandleAtOnce \/ HandleEnds
  <2>1. Returns /\ DOMAIN seen' = DOMAIN seen
    BY <1>5 DEF HandleAtOnce, HandleEnds
  <2>2. ASSUME NEW r \in Requests
        PROVE  /\ outcome'[r] # Null => executed'[r] # 0 /\ Sent(r)'
               /\ answer'[r] # Null => answer'[r] = outcome'[r]
    BY <2>1, ReturnsOutcome, ServiceAssumption DEF Told, Mailed, Sent
  <2> QED BY <2>1, <2>2, ReturnsOutcome DEF Told
<1>6. CASE HandleBegins \/ HandleWorks \/ Dies
  <2>1. UNCHANGED <<executed, outcome, answer, before, seen, content>>
    BY <1>6 DEF HandleBegins, HandleWorks, Dies, Crash, vars, historyVars, userVars
  <2> QED BY <2>1 DEF Told, Sent
<1> QED
  BY <1>1, <1>2, <1>3, <1>4, <1>5, <1>6, StepKinds

LEMMA BaseHolds == SystemSpec => []Base
<1>1. SystemInit => AtWork /\ Told
  BY ServiceAssumption, SameHandler
     DEF SystemInit, Init, AtWork, Told, P!HandlerInit, P!Free
<1>2. Base /\ [SystemNext]_systemVars => AtWork' /\ Told'
  BY AtWorkKept, ToldKept
<1>3. Base <=> Inv /\ Mailed /\ StorageInv /\ AtWork /\ Told
  BY DEF Base
<1> QED
  BY <1>1, <1>2, <1>3, SystemIsService, InvAlways, MailedHolds, StorageInvHolds, PTL
     DEF SystemSpec

-----------------------------------------------------------------------------
(***************************************************************************)
(* A request is pending until the handler is done with it: until the call   *)
(* it brings about has returned.  Only pending requests change chains.      *)
(***************************************************************************)
HasReturned == thread = "handle" /\ ~P!Free(Server) /\ pc[Server] = "idle"

Pending(r) ==
    \/ ~Sent(r)
    \/ r \in wire \cup inbox
    \/ cur = r /\ thread = "handle" /\ ~HasReturned

\* What has an outcome, or an answer, is done with.
LEMMA DoneWith ==
    ASSUME Base, NEW r \in Requests, outcome[r] # Null \/ answer[r] # Null
    PROVE  ~Pending(r) /\ Sent(r) /\ outcome[r] # Null
<1>1. outcome[r] # Null /\ executed[r] # 0 /\ Sent(r)
  BY DEF Base, Told
<1>2. r \notin wire \cup inbox /\ ~(cur = r /\ thread = "handle")
  BY <1>1 DEF Base, Inv, OnItsWay
<1> QED
  BY <1>1, <1>2 DEF Pending

\* The request the server thread is in, and what the handler makes of it.
LEMMA WorksOn ==
    ASSUME Base, pc[Server] # "idle"
    PROVE  /\ cur \in Requests /\ Sent(cur) /\ Pending(cur) /\ thread = "handle"
           /\ ~P!Free(Server)
           /\ req[Server] = P!managerCall(P!selected(content[cur]))
           /\ req[Server].op = IF Op(cur) = "keys" THEN "header" ELSE Op(cur)
           /\ req[Server].path = Chain(cur) /\ Chain(cur) \in Paths
           /\ Op(cur) = "add" => req[Server].data = cur
           /\ H!KnowsPassword(content[cur])
<1> DEFINE m == content[cur]
           f == P!selected(m)
<1> USE DEF Base
<1>1. ~P!Free(Server)
  BY DEF StorageInv, P!MessagesInv, P!Busy
<1>2. thread = "handle" /\ message[Server] = m
  BY <1>1 DEF AtWork
<1>3. cur \in Requests /\ Sent(cur)
  BY <1>2, ServiceAssumption DEF Inv, TypeOK, Mailed
<1>4. Pending(cur)
  BY <1>2 DEF Pending, HasReturned
<1>5. m \in P!Messages /\ \E x : m.fields = {x} /\ (x.op \in {"create", "add"} => x.data = cur)
  BY <1>3 DEF Mailed, Sent
<1>6. m.fields # {} /\ f.op # "ping" /\ req[Server] = P!managerCall(f)
  BY <1>1, <1>2 DEF StorageInv, P!TruthInv, P!ReportedBy, P!Asked
<1>7. f \in m.fields /\ f \in P!Fields /\ P!managerCall(f) \in P!Requests
  BY <1>5, <1>6, P!SelectedIsThere, P!CallsManager, HandlerAssumptions
<1>8. f.op \in {"create", "add"} => f.data = cur
  BY <1>5, <1>7
<1>9. Op(cur) = f.op /\ Chain(cur) = f.path
  BY SameHandler DEF Op, Chain
<1>10. H!KnowsPassword(m)
  <2>1. message[Server] # None /\ reply[Server] = P!Unanswered
    BY <1>1 DEF P!Free
  <2>2. P!KnowsPassword(m)
    BY <1>2, <2>1 DEF StorageInv, P!MessagesInv, P!Refused
  <2> QED BY <2>2, SameHandler
<1> HIDE DEF f
<1>11. /\ P!managerCall(f).op = IF f.op = "keys" THEN "header" ELSE f.op
       /\ P!managerCall(f).path = f.path
       /\ f.op = "add" => P!managerCall(f) = f
  <2>1. \E o, x, d, n : f = [op |-> o, path |-> x, data |-> d, index |-> n]
    BY <1>7 DEF P!Fields, P!Requests
  <2> QED BY <2>1 DEF P!managerCall
<1>12. f.path \in Paths
  BY <1>7, <1>11 DEF P!Requests
<1> QED
  BY <1>1, <1>2, <1>3, <1>4, <1>6, <1>8, <1>9, <1>10, <1>11, <1>12 DEF f

\* What is sent, answered or done with stays so.
LEMMA HistoryKept ==
    ASSUME Base, [SystemNext]_systemVars, NEW r \in Requests
    PROVE  /\ Sent(r) => Sent(r)' /\ content'[r] = content[r] /\ before'[r] = before[r]
           /\ answer[r] # Null => answer'[r] = answer[r]
           /\ Pending(r)' => Pending(r)
<1> USE DEF Base
<1>1. P!Free(Server) <=> (message[Server] = None \/ reply[Server] # P!Unanswered)
  BY DEF P!Free
<1>2. P!Free(Server)' <=> (message'[Server] = None \/ reply'[Server] # P!Unanswered)
  BY DEF P!Free, P!Unanswered, P!makeStatus
<1>3. UNCHANGED handlerVars => (P!Free(Server)' <=> P!Free(Server)) /\ UNCHANGED pc
  BY <1>1, <1>2 DEF handlerVars, managerVars
<1>4. r # Null
  BY ServiceAssumption
<1>5. CASE UNCHANGED systemVars
  <2>1. UNCHANGED <<handlerVars, content, before, answer, wire, inbox, cur, thread>>
    BY <1>5 DEF systemVars, vars, processVars, networkVars, userVars
  <2> QED BY <1>3, <2>1 DEF Pending, HasReturned, Sent
<1>6. ASSUME Moves, UNCHANGED <<handlerVars, content>>
      PROVE  Pending(r)' => Pending(r)
  <2>1. /\ wire' \cup inbox' \subseteq wire \cup inbox
        /\ cur' # Null => cur' = cur \/ cur' \in inbox
        /\ thread' = "handle" => (cur' = cur /\ thread = "handle") \/ cur' \in inbox
    BY <1>6, MovesForward DEF Forward
  <2> QED BY <1>3, <1>4, <1>6, <2>1 DEF Pending, HasReturned, Sent
<1>7. CASE Moves /\ UNCHANGED <<handlerVars, userVars>>
  BY <1>6, <1>7 DEF userVars, Sent
<1>8. ASSUME NEW c \in Clients, Hear(c)
      PROVE  /\ Sent(r) => Sent(r)' /\ content'[r] = content[r] /\ before'[r] = before[r]
             /\ answer[r] # Null => answer'[r] = answer[r]
             /\ Pending(r)' => Pending(r)
  <2>1. Moves /\ UNCHANGED <<handlerVars, content, before>>
    BY <1>8 DEF Hear, Moves
  <2>2. PICK q \in Requests : answer' = [answer EXCEPT ![q] = outcome[q]]
    BY <1>8, HearTells
  <2>3. answer[r] # Null => answer'[r] = answer[r]
    BY <2>2 DEF Told
  <2> QED BY <1>6, <2>1, <2>3 DEF Sent
<1>9. ASSUME NEW c \in Clients, Type(c)
      PROVE  /\ Sent(r) => Sent(r)' /\ content'[r] = content[r] /\ before'[r] = before[r]
             /\ answer[r] # Null => answer'[r] = answer[r]
             /\ Pending(r)' => Pending(r)
  <2> DEFINE new == <<c, calls[c] + 1>>
  <2>1. /\ ~Sent(new) /\ wire' = wire \cup {new}
        /\ UNCHANGED <<inbox, cur, thread, handlerVars, answer>>
        /\ \A q \in Requests \ {new} : content'[q] = content[q] /\ before'[q] = before[q]
    BY <1>9, TypedIsNew
  <2> HIDE DEF new
  <2> QED BY <1>3, <2>1 DEF Pending, HasReturned, Sent
<1>10. CASE HandleAtOnce \/ HandleEnds
  <2>1. Returns
    BY <1>10 DEF HandleAtOnce, HandleEnds
  <2>2. UNCHANGED <<content, answer, before, wire, inbox>> /\ thread' = "respond"
    BY <2>1, ReturnsOutcome
  <2> QED BY <2>2 DEF Pending, Sent
<1>11. CASE HandleBegins \/ HandleWorks
  <2>1. UNCHANGED <<content, answer, before, wire, inbox, cur, thread>>
    BY <1>11 DEF HandleBegins, HandleWorks, vars, processVars, networkVars, userVars
  <2>2. P!Free(Server) \/ pc[Server] # "idle"
    BY <1>11, SameHandler, P!StepCarries, HandlerAssumptions
       DEF HandleBegins, HandleWorks, P!Call, P!Work, StorageInv
  <2> QED BY <2>1, <2>2 DEF Pending, Sent, HasReturned
<1>12. CASE Dies
  <2>1. UNCHANGED <<content, answer, before, wire>> /\ inbox' = {} /\ thread' = "none"
    BY <1>12 DEF Dies, Crash, userVars
  <2> QED BY <2>1 DEF Pending, Sent
<1> QED
  BY <1>5, <1>7, <1>8, <1>9, <1>10, <1>11, <1>12, StepKinds

\* Only the handler at work, or its death, touches the disk.
LEMMA DiskChanges ==
    ASSUME Base, [SystemNext]_systemVars
    PROVE  UNCHANGED disk \/ ((HandleWorks \/ Dies) /\ pc[Server] # "idle")
<1> USE DEF Base
<1>1. UNCHANGED handlerVars \/ UNCHANGED systemVars => UNCHANGED disk
  BY DEF systemVars, handlerVars, managerVars
<1>2. ASSUME NEW c \in Clients, Hear(c) \/ Type(c) PROVE UNCHANGED disk
  BY <1>1, <1>2 DEF Hear, Type
<1>3. HandleAtOnce => UNCHANGED disk
  BY SameHandler DEF HandleAtOnce, P!Answer, P!vars, P!storageVars
<1>4. HandleEnds => UNCHANGED disk
  BY SameHandler DEF HandleEnds, P!Reply, P!vars, P!storageVars
<1>5. HandleBegins => UNCHANGED disk
  BY SameHandler DEF HandleBegins, P!Call, P!Start, P!storageVars
<1>6. HandleWorks => pc[Server] # "idle"
  BY SameHandler, P!StepCarries, HandlerAssumptions DEF HandleWorks, P!Work, StorageInv
<1>7. Dies => UNCHANGED disk \/ pc[Server] # "idle"
  BY SameHandler DEF Dies, P!Die, P!Crash, P!vars, P!storageVars
<1> QED
  BY <1>1, <1>2, <1>3, <1>4, <1>5, <1>6, <1>7, StepKinds

Appends(c, r) ==
    /\ r = cur /\ Sent(r) /\ Pending(r) /\ ~Pending(r)'
    /\ Op(r) = "add" /\ Chain(r) = c /\ H!KnowsPassword(content[r])
    /\ entries(c)' = Append(entries(c), r)

Clears(c, r) ==
    /\ r = cur /\ Sent(r) /\ Pending(r) /\ Op(r) = "remove" /\ Chain(r) = c
    /\ entries(c)' = <<>>

\* What a step of the system does to a chain.
LEMMA ChainChanges ==
    ASSUME Base, [SystemNext]_systemVars, NEW c \in Paths
    PROVE  \/ entries(c)' = entries(c)
           \/ /\ HandleWorks \/ Dies
              /\ \E r \in Requests : Appends(c, r) \/ Clears(c, r)
<1> USE DEF Base
<1>1. entries(c) = P!StoredIn(c) /\ entries(c)' = P!StoredIn(c)'
  BY SameEntries
<1>2. CASE UNCHANGED disk
  <2>1. P!StoredIn(c)' = P!StoredIn(c)
    BY <1>2 DEF P!StoredIn, P!Live, P!Entries, P!Header, P!IsPresent
  <2> QED BY <1>1, <2>1
<1>3. CASE (HandleWorks \/ Dies) /\ pc[Server] # "idle"
  <2>1. [P!Next]_(P!vars)
    BY SystemStepOfHandler, P!HandlerStep, HandlerAssumptions
  <2>2. P!Effect
    BY <2>1, P!StepEffect, HandlerAssumptions DEF StorageInv
  <2>3. req[Server].op \in P!CallsAt[pc[Server]]
    BY <1>3, P!SessionReads, HandlerAssumptions DEF StorageInv
  <2>4. /\ cur \in Requests /\ Sent(cur) /\ Pending(cur) /\ thread = "handle"
        /\ ~P!Free(Server) /\ req[Server].path = Chain(cur)
        /\ req[Server].op = IF Op(cur) = "keys" THEN "header" ELSE Op(cur)
        /\ Op(cur) = "add" => req[Server].data = cur
        /\ H!KnowsPassword(content[cur])
    BY <1>3, WorksOn
  <2> PICK r \in Requests : r = cur
    BY <2>4
  <2>5. ASSUME pc[Server] = "append", P!WritesBlock(Server) PROVE ~Pending(r)'
    <3>1. content' = content /\ wire' = wire /\ inbox' \subseteq inbox
      BY <1>3 DEF HandleWorks, Dies, Crash, vars, networkVars, userVars
    <3>2. r \notin wire \cup inbox
      BY <2>4 DEF Inv, OnItsWay
    <3>3. CASE Dies
      BY <2>4, <3>1, <3>2, <3>3 DEF Dies, Crash, Pending, Sent
    <3>4. CASE HandleWorks
      <4>1. P!Step(Server) /\ UNCHANGED <<message, reply, cur, thread>>
        BY <3>4, SameHandler DEF HandleWorks, P!Work, P!handlerVars, vars, processVars
      <4>2. pc'[Server] = "idle"
        BY <2>5, <4>1, P!AppendIsLast, HandlerAssumptions DEF StorageInv, P!WritesBlock
      <4>3. ~P!Free(Server)'
        BY <2>4, <4>1 DEF P!Free, P!Unanswered, P!makeStatus
      <4> QED BY <2>4, <3>1, <3>2, <4>1, <4>2, <4>3 DEF Pending, Sent, HasReturned
    <3> QED BY <1>3, <3>3, <3>4
  <2>6. \/ P!StoredIn(c)' = P!StoredIn(c)
        \/ /\ pc[Server] = "append" /\ req[Server].path = c /\ P!WritesBlock(Server)
           /\ P!StoredIn(c)' = Append(P!StoredIn(c), req[Server].data)
        \/ pc[Server] = "remove" /\ req[Server].path = c /\ P!StoredIn(c)' = <<>>
    BY <2>2, P!StoredChanges, HandlerAssumptions DEF StorageInv
  <2>7. ASSUME pc[Server] = "append" PROVE Op(cur) = "add"
    BY <2>3, <2>4, <2>7 DEF P!CallsAt
  <2>8. ASSUME pc[Server] = "remove" PROVE Op(cur) = "remove"
    BY <2>3, <2>4, <2>8 DEF P!CallsAt
  <2> QED BY <1>1, <1>3, <2>4, <2>5, <2>6, <2>7, <2>8 DEF Appends, Clears
<1> QED
  BY <1>2, <1>3, DiskChanges

LEMMA SentKept ==
    ASSUME Base, [SystemNext]_systemVars, NEW r \in Requests, Sent(r)
    PROVE  /\ Sent(r)' /\ Op(r)' = Op(r) /\ Chain(r)' = Chain(r)
           /\ H!KnowsPassword(content[r])' <=> H!KnowsPassword(content[r])
<1>1. Sent(r)' /\ content'[r] = content[r]
  BY HistoryKept
<1> QED
  BY <1>1 DEF Op, Chain, H!selected, H!dispatch, H!KnowsPassword, H!passwordHash, H!getHash

LEMMA Appended ==
    ASSUME NEW S, NEW s \in Seq(S), NEW e \in S, NEW t, t = Append(s, e)
    PROVE  /\ t \in Seq(S) /\ Len(s) \in Nat
           /\ DOMAIN s = 1..Len(s) /\ DOMAIN t = 1..(Len(s) + 1)
           /\ t[Len(s) + 1] = e /\ \A n \in DOMAIN s : t[n] = s[n]
OBVIOUS

LEMMA StartsEmpty ==
    ASSUME SystemInit, NEW c \in Paths
    PROVE  entries(c) = <<>>
<1>1. P!Init
  BY SameHandler DEF SystemInit, P!HandlerInit
<1>2. ~P!Live(c)
  <2> SUFFICES ASSUME disk[c].state = "present" PROVE ~P!hasSupportedHeader(disk[c].kv)
    BY DEF P!Live, P!IsPresent
  <2>1. disk[c] \in {P!Absent} \cup {P!Present(kv) : kv \in P!LegacyStores}
    BY <1>1 DEF P!Init
  <2>2. PICK kv \in P!LegacyStores : disk[c].kv = kv
    BY <2>1 DEF P!Absent, P!Present
  <2> QED BY <2>2, P!LegacyIsForeign, HandlerAssumptions
<1> QED
  BY <1>2, SameEntries DEF P!StoredIn

-----------------------------------------------------------------------------
(***************************************************************************)
(* AddedOnce is inductive with one addition: no chain holds a block whose   *)
(* request is pending, so the handler never appends what is there already.  *)
(***************************************************************************)
HeldInv ==
    /\ AddedOnce
    /\ \A c \in Paths : entries(c) \in Seq(Requests)
    /\ \A c \in Paths : \A n \in DOMAIN entries(c) : ~Pending(entries(c)[n])

LEMMA HeldKept ==
    ASSUME Base, HeldInv, [SystemNext]_systemVars
    PROVE  HeldInv'
<1> DEFINE Proper(c, r) ==
               /\ Sent(r) /\ Op(r) = "add" /\ Chain(r) = c
               /\ H!KnowsPassword(content[r]) /\ ~Pending(r)
           Good(c, s) ==
               /\ s \in Seq(Requests)
               /\ \A n, j \in DOMAIN s : s[j] = s[n] => j = n
<1>1. ASSUME NEW c \in Paths
      PROVE  /\ Good(c, entries(c))
             /\ \A n \in DOMAIN entries(c) : entries(c)[n] \in Requests /\ Proper(c, entries(c)[n])
  BY DEF HeldInv, AddedOnce
<1>2. ASSUME NEW c \in Paths, NEW r \in Requests, Proper(c, r)
      PROVE  Proper(c, r)'
  <2>1. /\ Sent(r)' /\ Op(r)' = Op(r) /\ Chain(r)' = Chain(r)
        /\ H!KnowsPassword(content[r])' <=> H!KnowsPassword(content[r])
    BY <1>2, SentKept
  <2>2. ~Pending(r)'
    BY <1>2, HistoryKept
  <2> QED BY <1>2, <2>1, <2>2
<1>3. ASSUME NEW c \in Paths
      PROVE  /\ Good(c, entries(c)')
             /\ \A n \in DOMAIN entries(c)' : \A r : r = entries(c)'[n] => Proper(c, r)'
  <2> PICK s, t : s = entries(c) /\ t = entries(c)'
    OBVIOUS
  <2>1. Good(c, s) /\ \A n \in DOMAIN s : s[n] \in Requests /\ Proper(c, s[n])
    BY <1>1
  <2> HIDE DEF Proper
  <2>2. ASSUME NEW n \in DOMAIN s, NEW r, r = s[n] PROVE Proper(c, r)'
    BY <1>2, <2>1, <2>2
  <2>3. Good(c, t) /\ \A n \in DOMAIN t : \A r : r = t[n] => Proper(c, r)'
    <3>1. CASE t = s
      BY <2>1, <2>2, <3>1
    <3>2. CASE t = <<>>
      BY <3>2
    <3>3. ASSUME NEW q \in Requests, Appends(c, q)
          PROVE  Good(c, t) /\ \A n \in DOMAIN t : \A r : r = t[n] => Proper(c, r)'
      <4>1. /\ t \in Seq(Requests) /\ Len(s) \in Nat
            /\ DOMAIN s = 1..Len(s) /\ DOMAIN t = 1..(Len(s) + 1)
            /\ t[Len(s) + 1] = q /\ \A n \in DOMAIN s : t[n] = s[n]
        BY <2>1, <3>3, Appended DEF Appends
      <4>2. Proper(c, q)'
        BY <3>3, SentKept DEF Appends, Proper
      <4>3. \A n \in DOMAIN s : s[n] # q
        BY <2>1, <3>3 DEF Appends, Proper
      <4>4. ASSUME NEW n \in DOMAIN t PROVE n \in DOMAIN s \/ n = Len(s) + 1
        BY <4>1
      <4> QED BY <2>1, <2>2, <4>1, <4>2, <4>3, <4>4
    <3> QED BY <3>1, <3>2, <3>3, ChainChanges DEF Clears
  <2> QED BY <2>3
<1> QED
  BY <1>3 DEF HeldInv, AddedOnce

LEMMA HeldHolds == SystemSpec => []HeldInv
<1>1. SystemInit => HeldInv
  <2> SUFFICES ASSUME SystemInit PROVE HeldInv
    OBVIOUS
  <2>1. \A c \in Paths : entries(c) = <<>>
    BY StartsEmpty
  <2>2. <<>> \in Seq(Requests) /\ DOMAIN <<>> = {}
    OBVIOUS
  <2> QED BY <2>1, <2>2 DEF HeldInv, AddedOnce
<1> QED
  BY <1>1, HeldKept, BaseHolds, PTL DEF SystemSpec

\* No timeout, no crash between the write and the response and no restart makes
\* a call count twice, for every number of clients, calls and restarts: a chain
\* holds a call's block at most once, and only if the call asked for it.
THEOREM CountedOnce == SystemSpec => []AddedOnce
<1>1. HeldInv => AddedOnce
  BY DEF HeldInv
<1> QED
  BY <1>1, HeldHolds, PTL

-----------------------------------------------------------------------------
\* A block is appended for a pending request, which nobody has had an answer to;
\* so no block before it was asked for with that answer known.
LEMMA OrderKept ==
    ASSUME Base, HeldInv, InRealTime, [SystemNext]_systemVars
    PROVE  InRealTime'
<1> SUFFICES ASSUME NEW c \in Paths
             PROVE  \A n, j \in DOMAIN entries(c)' :
                        entries(c)'[n] \in before'[entries(c)'[j]] => n < j
  BY DEF InRealTime
<1> PICK s, t : s = entries(c) /\ t = entries(c)'
  OBVIOUS
<1>1. /\ s \in Seq(Requests)
      /\ \A n \in DOMAIN s : s[n] \in Requests /\ Sent(s[n]) /\ ~Pending(s[n])
      /\ \A n, j \in DOMAIN s : s[n] \in before[s[j]] => n < j
  BY DEF HeldInv, AddedOnce, InRealTime
<1>2. \A n, j \in DOMAIN s : s[n] \in before'[s[j]] => n < j
  BY <1>1, HistoryKept
<1>3. ASSUME NEW q \in Requests, Appends(c, q)
      PROVE  \A n, j \in DOMAIN t : t[n] \in before'[t[j]] => n < j
  <2>1. /\ Len(s) \in Nat /\ DOMAIN s = 1..Len(s) /\ DOMAIN t = 1..(Len(s) + 1)
        /\ t[Len(s) + 1] = q /\ \A n \in DOMAIN s : t[n] = s[n]
    BY <1>1, <1>3, Appended DEF Appends
  <2>2. \A r \in Requests : Sent(r) => q \notin before'[r]
    <3>1. answer[q] = Null
      BY <1>3, DoneWith DEF Appends
    <3> QED BY <3>1, HistoryKept DEF Base, Told
  <2>3. Sent(q)
    BY <1>3 DEF Appends
  <2>4. ASSUME NEW j \in DOMAIN t PROVE q \notin before'[t[j]]
    BY <1>1, <2>1, <2>2, <2>3
  <2> QED BY <1>2, <2>1, <2>4
<1>4. \A n, j \in DOMAIN t : t[n] \in before'[t[j]] => n < j
  <2>1. CASE t = s
    BY <1>2, <2>1
  <2>2. CASE t = <<>>
    BY <2>2
  <2> QED BY <1>3, <2>1, <2>2, ChainChanges DEF Clears
<1> QED
  BY <1>4

\* Blocks are in the order in which their calls were made: a chain is never at
\* odds with what its users have seen.
THEOREM OrderedInRealTime == SystemSpec => []InRealTime
<1>1. SystemInit => InRealTime
  <2> SUFFICES ASSUME SystemInit PROVE InRealTime
    OBVIOUS
  <2>1. \A c \in Paths : entries(c) = <<>>
    BY StartsEmpty
  <2>2. DOMAIN <<>> = {}
    OBVIOUS
  <2> QED BY <2>1, <2>2 DEF InRealTime
<1> QED
  BY <1>1, OrderKept, HeldHolds, BaseHolds, PTL DEF SystemSpec

-----------------------------------------------------------------------------
(***************************************************************************)
(* ToldTrue, from the moment the call returns: what its result says of the  *)
(* block is so before anybody is told (Fate).  A removal that could undo a  *)
(* success is not pending, and one that is refused or has failed is, being  *)
(* no longer pending, never appended.                                       *)
(***************************************************************************)
Succeeded(r) ==
    \/ outcome[r] # Null /\ outcome[r] = "SUCCESS"
    \/ cur = r /\ HasReturned /\ res[Server].ok

Failed(r) ==
    \/ outcome[r] # Null /\ outcome[r] # "SUCCESS"
    \/ cur = r /\ HasReturned /\ ~res[Server].ok

Fate ==
    \A r \in Requests : Sent(r) /\ Op(r) = "add" =>
        /\ Succeeded(r) /\ RemovalsSettled(r) => Holds(Chain(r), r)
        /\ Failed(r) /\ "io" \notin Faults => ~Holds(Chain(r), r)

LEMMA EndedIsDone ==
    ASSUME Base, NEW r \in Requests, Sent(r), Succeeded(r) \/ Failed(r)
    PROVE  ~Pending(r)
<1>1. CASE outcome[r] # Null
  BY <1>1, DoneWith
<1>2. CASE cur = r /\ HasReturned
  BY <1>2 DEF Base, Inv, OnItsWay, Pending, HasReturned
<1> QED
  BY <1>1, <1>2 DEF Succeeded, Failed

\* The step with which the call of request r returns.
CallReturns(r) ==
    /\ HandleWorks /\ cur = r
    /\ P!Step(Server) /\ pc'[Server] = "idle" /\ UNCHANGED <<message, content>>

\* A call has succeeded or failed when it returns, and a message that brings
\* about no call fails at once, or is a ping.
LEMMA EndsAre ==
    ASSUME Base, [SystemNext]_systemVars, NEW r \in Requests
    PROVE  /\ Succeeded(r)' => \/ Succeeded(r) /\ Sent(r)
                               \/ HandleAtOnce /\ cur = r /\ Op(r) = "ping"
                               \/ CallReturns(r) /\ res'[Server].ok
           /\ Failed(r)' => \/ Failed(r) /\ Sent(r)
                            \/ HandleAtOnce /\ cur = r
                            \/ CallReturns(r) /\ ~res'[Server].ok
<1> USE DEF Base
<1> DEFINE Same(x) ==
               /\ outcome'[x] = outcome[x]
               /\ HasReturned' /\ cur' = x => HasReturned /\ cur = x /\ UNCHANGED res
<1>1. P!Free(Server) <=> (message[Server] = None \/ reply[Server] # P!Unanswered)
  BY DEF P!Free
<1>2. P!Free(Server)' <=> (message'[Server] = None \/ reply'[Server] # P!Unanswered)
  BY DEF P!Free, P!Unanswered, P!makeStatus
<1>3. Sent(r) \/ ~(Succeeded(r) \/ Failed(r))
  BY ServiceAssumption DEF Told, Succeeded, Failed, Mailed
<1>4. ASSUME Same(r)
      PROVE  (Succeeded(r)' => Succeeded(r) /\ Sent(r)) /\ (Failed(r)' => Failed(r) /\ Sent(r))
  BY <1>3, <1>4 DEF Succeeded, Failed
<1>5. UNCHANGED handlerVars => (P!Free(Server)' <=> P!Free(Server)) /\ UNCHANGED <<pc, res>>
  BY <1>1, <1>2 DEF handlerVars, managerVars
<1>6. UNCHANGED systemVars => Same(r)
  BY <1>5 DEF systemVars, vars, processVars, historyVars, HasReturned
<1>7. Moves /\ UNCHANGED handlerVars => Same(r)
  BY <1>5, MovesForward DEF HasReturned, AtWork
<1>8. ASSUME NEW c \in Clients, Hear(c) \/ Type(c) PROVE Same(r)
  BY <1>5, <1>7, <1>8, TypedIsNew DEF Hear, Moves, HasReturned
<1>9. HandleBegins => Same(r)
  <2> SUFFICES ASSUME HandleBegins PROVE Same(r)
    OBVIOUS
  <2>1. thread = "handle" /\ P!Call(Server, content[cur]) /\ UNCHANGED outcome
    BY SameHandler DEF HandleBegins, vars, historyVars
  <2>2. content[cur] \in P!Messages
    BY <2>1 DEF Inv, TypeOK, Mailed, Sent
  <2>3. pc'[Server] # "idle"
    BY <2>1, <2>2, P!CallStarts, HandlerAssumptions DEF StorageInv
  <2> QED BY <2>1, <2>3 DEF HasReturned
<1>10. ASSUME HandleWorks
       PROVE  CallReturns(r) \/ Same(r)
  <2>1. /\ P!Step(Server) /\ UNCHANGED <<message, content, outcome, cur>>
    BY <1>10, SameHandler DEF HandleWorks, P!Work, P!handlerVars, vars, processVars,
                              historyVars, userVars
  <2> QED BY <1>10, <2>1 DEF CallReturns, HasReturned
<1>11. Dies => Same(r)
  BY DEF Dies, Crash, historyVars, HasReturned
<1>12. CASE HandleAtOnce \/ HandleEnds
  <2>1. Returns
    BY <1>12 DEF HandleAtOnce, HandleEnds
  <2>2. /\ cur \in Requests /\ thread' = "respond" /\ cur' = cur
        /\ outcome'[cur] = response' /\ \A q \in Requests \ {cur} : outcome'[q] = outcome[q]
    BY <2>1, ReturnsOutcome
  <2>3. r # cur => Same(r)
    BY <2>2 DEF HasReturned
  <2>4. response' = IF reply'[Server] = Null THEN Null ELSE reply'[Server].status
    BY <2>1 DEF Returns
  <2>5. CASE HandleEnds
    <3>1. P!Reply(Server) /\ thread = "handle"
      BY <2>5, SameHandler DEF HandleEnds
    <3>2. \E resp : /\ P!Respond(Server, resp)
                    /\ resp.status = IF res[Server].ok THEN "SUCCESS" ELSE "ERROR"
      <4>1. P!makeStatus("ERROR").status = "ERROR"
        BY DEF P!makeStatus
      <4>2. \A value : P!makeResponse(value).status = "SUCCESS"
        BY DEF P!makeResponse
      <4> QED BY <3>1, <4>1, <4>2 DEF P!Reply
    <3>5. \A resp : P!Respond(Server, resp) => reply'[Server] \in {resp, Null}
      BY DEF P!Respond, StorageInv, P!MessagesInv, P!MessagesTyped
    <3>3. /\ (response' # Null /\ response' = "SUCCESS") => res[Server].ok
          /\ (response' # Null /\ response' # "SUCCESS") => ~res[Server].ok
      BY <2>4, <3>2, <3>5
    <3>4. HasReturned
      BY <3>1 DEF HasReturned, P!Reply
    <3> QED BY <1>3, <1>4, <2>2, <2>3, <3>3, <3>4 DEF Succeeded, Failed, HasReturned
  <2>6. CASE HandleAtOnce
    <3>1. P!Answer(Server, content[cur])
      BY <2>6, SameHandler DEF HandleAtOnce
    <3>2. PICK status \in P!refusals(content[cur]) : reply'[Server] \in {P!makeStatus(status), Null}
      BY <3>1 DEF P!Answer, P!Respond, StorageInv, P!MessagesInv, P!MessagesTyped
    <3>3. status = "SUCCESS" => Op(cur) = "ping"
      BY <3>2, SameHandler DEF P!refusals, Op
    <3>4. response' # Null /\ response' = "SUCCESS" => status = "SUCCESS"
      BY <2>4, <3>2 DEF P!makeStatus
    <3> QED BY <1>4, <2>2, <2>3, <2>6, <3>3, <3>4 DEF Succeeded, Failed, HasReturned
  <2> QED BY <1>12, <2>5, <2>6
<1>13. ASSUME CallReturns(r)
       PROVE  /\ Succeeded(r)' => (Succeeded(r) /\ Sent(r)) \/ res'[Server].ok
              /\ Failed(r)' => (Failed(r) /\ Sent(r)) \/ ~res'[Server].ok
  <2>1. UNCHANGED outcome
    BY <1>13 DEF CallReturns, HandleWorks, vars, historyVars
  <2> QED BY <1>3, <2>1 DEF Succeeded, Failed
<1>14. Same(r) \/ CallReturns(r) \/ HandleAtOnce \/ HandleEnds
  BY <1>6, <1>7, <1>8, <1>9, <1>10, <1>11, StepKinds
<1> HIDE DEF Same
<1> QED
  BY <1>4, <1>12, <1>13, <1>14

LEMMA ChainsAsked ==
    ASSUME Mailed, NEW r \in Requests, Sent(r), Op(r) # "ping"
    PROVE  Chain(r) \in Paths
<1> DEFINE f == P!selected(content[r])
<1>1. content[r] \in P!Messages /\ content[r].fields # {}
  BY DEF Mailed, Sent
<1>2. f \in P!Fields /\ f.op # "ping"
  BY <1>1, P!SelectedIsThere, HandlerAssumptions, SameHandler DEF Op
<1>3. f.path \in Paths
  <2> HIDE DEF f
  <2> QED BY <1>2 DEF P!Fields, P!Requests
<1> QED
  BY <1>3, SameHandler DEF Chain

\* Once a request is done with, its block does not come any more, and does not
\* go either if nobody has asked for its removal since.
LEMMA HoldsKept ==
    ASSUME Base, HeldInv, [SystemNext]_systemVars,
           NEW r \in Requests, Sent(r), ~Pending(r), NEW c \in Paths
    PROVE  /\ Holds(c, r)' => Holds(c, r)
           /\ RemovalsSettled(r)' => RemovalsSettled(r)
           /\ Holds(c, r) /\ Chain(r) = c /\ RemovalsSettled(r) => Holds(c, r)'
<1> PICK s, t : s = entries(c) /\ t = entries(c)'
  OBVIOUS
<1>1. Holds(c, r) <=> \E n \in DOMAIN s : s[n] = r
  BY DEF Holds
<1>2. Holds(c, r)' <=> \E n \in DOMAIN t : t[n] = r
  BY DEF Holds
<1>3. RemovalsSettled(r)' => RemovalsSettled(r)
  BY SentKept, HistoryKept DEF RemovalsSettled
<1>4. ASSUME NEW q \in Requests, Appends(c, q)
      PROVE  (\E n \in DOMAIN t : t[n] = r) <=> (\E n \in DOMAIN s : s[n] = r)
  <2>1. /\ Len(s) \in Nat /\ DOMAIN s = 1..Len(s) /\ DOMAIN t = 1..(Len(s) + 1)
        /\ t[Len(s) + 1] = q /\ \A n \in DOMAIN s : t[n] = s[n]
    BY <1>4, Appended DEF Appends, HeldInv
  <2>2. q # r
    BY <1>4 DEF Appends
  <2>3. \A n \in DOMAIN t : n \in DOMAIN s \/ n = Len(s) + 1
    BY <2>1
  <2> QED BY <2>1, <2>2, <2>3
<1>5. ASSUME NEW q \in Requests, Clears(c, q)
      PROVE  DOMAIN t = {} /\ ~(Chain(r) = c /\ RemovalsSettled(r))
  <2>1. answer[q] = Null
    BY <1>5, DoneWith DEF Clears
  <2>2. Sent(q) /\ Op(q) = "remove" /\ Chain(q) = c /\ t = <<>>
    BY <1>5 DEF Clears
  <2> QED BY <2>1, <2>2 DEF RemovalsSettled, Base, Told
<1> QED
  BY <1>1, <1>2, <1>3, <1>4, <1>5, ChainChanges

\* An addition that returns success has its block in the chain, and one that
\* fails has none.
LEMMA ReturnDecides ==
    ASSUME Base, HeldInv, [SystemNext]_systemVars,
           NEW r \in Requests, CallReturns(r), Op(r) = "add", NEW c, c = Chain(r)
    PROVE  /\ res'[Server].ok => Holds(c, r)'
           /\ ~res'[Server].ok /\ "io" \notin Faults => ~Holds(c, r)'
<1>1. /\ Sent(r) /\ Pending(r) /\ Op(r) = "add" /\ c \in Paths
      /\ pc[Server] # "idle" /\ req[Server].op = "add"
      /\ req[Server].path = c /\ req[Server].data = r
  <2>1. pc[Server] # "idle"
    BY P!StepCarries, HandlerAssumptions DEF CallReturns, Base, StorageInv
  <2> QED BY <2>1, WorksOn DEF CallReturns
<1>2. entries(c) = P!StoredIn(c) /\ entries(c)' = P!StoredIn(c)'
  BY SameEntries
<1>3. ASSUME res'[Server].ok PROVE Holds(c, r)'
  <2> PICK call_, v : call_ = req[Server] /\ v = res'[Server].value
    OBVIOUS
  <2>1. P!Returned(call_, v)'
    BY <1>3, P!StepReturns, HandlerAssumptions DEF CallReturns, Base, StorageInv
  <2>2. /\ P!Live(c)' /\ P!Header(c)'.index \in Nat \ {0}
        /\ v.data = r /\ v = P!Blocks(c)'[P!Header(c)'.index]
    BY <1>1, <2>1 DEF P!Returned
  <2> DEFINE i == P!Header(c)'.index
  <2>3. i \in 1..i
    BY <2>2
  <2>4. P!StoredIn(c)' = [n \in 1..i |-> P!getBlock(disk'[c].kv, n).data]
    BY <2>2 DEF P!StoredIn, P!Entries, P!Header
  <2>5. P!Blocks(c)' = [n \in 1..i |-> P!getBlock(disk'[c].kv, n)]
    BY DEF P!Blocks, P!getBlocks, P!Header
  <2> HIDE DEF i
  <2>6. i \in DOMAIN entries(c)' /\ entries(c)'[i] = r
    BY <1>2, <2>2, <2>3, <2>4, <2>5 DEF i
  <2> QED BY <2>6 DEF Holds
<1>4. ASSUME ~res'[Server].ok, "io" \notin Faults PROVE ~Holds(c, r)'
  <2>1. UNCHANGED disk
    BY <1>4, P!FailedCallWritesNothing, HandlerAssumptions DEF CallReturns, Base, StorageInv
  <2>2. entries(c)' = entries(c)
    BY <1>2, <2>1 DEF P!StoredIn, P!Live, P!Entries, P!Header, P!IsPresent
  <2>3. \A n \in DOMAIN entries(c) : entries(c)[n] # r
    BY <1>1 DEF HeldInv
  <2> QED BY <2>2, <2>3 DEF Holds
<1> QED
  BY <1>3, <1>4

LEMMA FateKept ==
    ASSUME Base, HeldInv, Fate, [SystemNext]_systemVars
    PROVE  Fate'
<1> SUFFICES ASSUME NEW r \in Requests, Sent(r)', Op(r)' = "add"
             PROVE  /\ Succeeded(r)' /\ RemovalsSettled(r)' => Holds(Chain(r), r)'
                    /\ Failed(r)' /\ "io" \notin Faults => ~Holds(Chain(r), r)'
  BY DEF Fate
<1>1. Succeeded(r)' \/ Failed(r)' => Sent(r)
  BY EndsAre, ServiceAssumption DEF CallReturns, HandleWorks, HandleAtOnce, Base, Mailed
<1> SUFFICES ASSUME Sent(r)
             PROVE  /\ Succeeded(r)' /\ RemovalsSettled(r)' => Holds(Chain(r), r)'
                    /\ Failed(r)' /\ "io" \notin Faults => ~Holds(Chain(r), r)'
  BY <1>1
<1> PICK c : c = Chain(r)
  OBVIOUS
<1>2. Chain(r)' = c /\ Op(r) = "add" /\ c \in Paths
  BY SentKept, ChainsAsked DEF Base
<1>3. Holds(Chain(r), r)' <=> Holds(c, r)'
  BY <1>2 DEF Holds
<1>4. ASSUME Succeeded(r) \/ Failed(r)
      PROVE  /\ Succeeded(r) /\ RemovalsSettled(r)' => Holds(c, r)'
             /\ Failed(r) /\ "io" \notin Faults => ~Holds(c, r)'
  <2>1. ~Pending(r)
    BY <1>4, EndedIsDone
  <2> QED BY <1>2, <2>1, HoldsKept DEF Fate
<1>5. ASSUME CallReturns(r)
      PROVE  /\ res'[Server].ok => Holds(c, r)'
             /\ ~res'[Server].ok /\ "io" \notin Faults => ~Holds(c, r)'
  BY <1>2, <1>5, ReturnDecides
<1>6. ASSUME HandleAtOnce, cur = r
      PROVE  ~Holds(c, r)'
  <2>1. Pending(r)
    BY <1>6, SameHandler DEF HandleAtOnce, P!Answer, Pending, HasReturned
  <2>2. UNCHANGED disk
    BY <1>6, SameHandler DEF HandleAtOnce, P!Answer, P!vars, P!storageVars
  <2>3. entries(c)' = entries(c)
    BY <2>2, SameEntries DEF P!StoredIn, P!Live, P!Entries, P!Header, P!IsPresent
  <2>4. \A n \in DOMAIN entries(c) : entries(c)[n] # r
    BY <1>2, <2>1 DEF HeldInv
  <2> QED BY <2>3, <2>4 DEF Holds
<1>7. /\ Succeeded(r)' => Succeeded(r) \/ (CallReturns(r) /\ res'[Server].ok)
      /\ Failed(r)' => Failed(r) \/ (HandleAtOnce /\ cur = r)
                                 \/ (CallReturns(r) /\ ~res'[Server].ok)
  BY <1>2, EndsAre
<1> QED
  BY <1>3, <1>4, <1>5, <1>6, <1>7

LEMMA FateHolds == SystemSpec => []Fate
<1>1. SystemInit => Fate
  BY DEF SystemInit, Fate, Sent
<1> QED
  BY <1>1, FateKept, HeldHolds, BaseHolds, PTL DEF SystemSpec

\* What a user is told about an addition is true, for every number of clients,
\* servers' lives and chains: a success is in the chain and stays there, whatever
\* times out or dies, as long as nobody asks for the removal of the chain; and
\* what was refused is not there and never will be.
THEOREM UsersToldTrue == SystemSpec => []ToldTrue
<1>1. Base /\ Fate => ToldTrue
  BY DEF Base, Told, Fate, ToldTrue, Succeeded, Failed
<1> QED
  BY <1>1, FateHolds, BaseHolds, PTL

-----------------------------------------------------------------------------
(***************************************************************************)
(* ReadsCurrent, from the moment the response is made.  It is made of the   *)
(* whole chain, which then holds all that users have been told it holds     *)
(* (Fate); later the chain only grows, or a removal comes that was pending  *)
(* all along.                                                              *)
(***************************************************************************)
ReadOk(q) == Sent(q) /\ Op(q) = "getBlocks" /\ outcome[q] # Null /\ outcome[q] = "SUCCESS"

BeginsWith(s, w) == \A n \in DOMAIN w : n \in DOMAIN s /\ s[n] = w[n]

ShowsKnown(q) ==
    \A r \in before[q] :
        /\ Op(r) = "add" /\ Chain(r) = Chain(q) /\ answer[r] = "SUCCESS"
        /\ RemovalsSettled(r)
        => \E n \in DOMAIN seen[q] : seen[q][n] = r

Reads ==
    \A q \in Requests : ReadOk(q) /\ RemovalsSettled(q) =>
        BeginsWith(entries(Chain(q)), seen[q]) /\ ShowsKnown(q)

\* What a request showed does not change, nor which calls were known then.
LEMMA SeenKept ==
    ASSUME Base, [SystemNext]_systemVars, NEW q \in Requests, ReadOk(q)
    PROVE  seen'[q] = seen[q]
<1>1. outcome[q] # Null /\ executed[q] # 0
  BY DEF ReadOk, Base, Told
<1>2. CASE UNCHANGED seen
  BY <1>2
<1>3. CASE HandleEnds
  <2>1. q # cur
    BY <1>1, <1>3, ReturnsOutcome DEF HandleEnds, Base
  <2> QED BY <1>3, <2>1 DEF HandleEnds, Base, Told
<1>4. UNCHANGED seen \/ HandleEnds
  BY StepKinds DEF systemVars, userVars, Hear, Type, HandleAtOnce, HandleBegins,
                   HandleWorks, Dies
<1> QED
  BY <1>2, <1>3, <1>4

\* A read done with stays true.
LEMMA ReadKept ==
    ASSUME Base, HeldInv, Reads, [SystemNext]_systemVars,
           NEW q \in Requests, ReadOk(q), RemovalsSettled(q)'
    PROVE  BeginsWith(entries(Chain(q)), seen[q])' /\ ShowsKnown(q)'
<1> PICK c : c = Chain(q)
  OBVIOUS
<1> PICK s, t, w : s = entries(c) /\ t = entries(c)' /\ w = seen[q]
  OBVIOUS
<1>1. /\ Sent(q) /\ ~Pending(q) /\ Op(q) = "getBlocks" /\ c \in Paths
  BY DoneWith, ChainsAsked DEF ReadOk, Base
<1>2. RemovalsSettled(q)
  BY <1>1, HoldsKept
<1>3. BeginsWith(s, w) /\ ShowsKnown(q)
  BY <1>2 DEF Reads
<1>4. seen'[q] = w /\ Chain(q)' = c /\ before'[q] = before[q]
  BY <1>1, SeenKept, SentKept, HistoryKept
<1>5. BeginsWith(t, w)
  <2>1. ASSUME NEW r \in Requests, Appends(c, r) PROVE BeginsWith(t, w)
    <3>1. /\ DOMAIN s \subseteq DOMAIN t /\ \A n \in DOMAIN s : t[n] = s[n]
      BY <1>1, <2>1, Appended DEF Appends, HeldInv
    <3> QED BY <1>3, <3>1 DEF BeginsWith
  <2>2. ASSUME NEW r \in Requests, Clears(c, r) PROVE FALSE
    <3>1. answer[r] = Null
      BY <2>2, DoneWith DEF Clears
    <3> QED BY <1>2, <2>2, <3>1 DEF Clears, RemovalsSettled, Base, Told
  <2> QED BY <1>1, <1>3, <2>1, <2>2, ChainChanges
<1>6. BeginsWith(entries(Chain(q)), seen[q])'
  <2>1. entries(Chain(q))' = t
    BY <1>4, SameEntries DEF entries, H!Live, H!Entries, H!Header, H!IsPresent
  <2> QED BY <1>4, <1>5, <2>1 DEF BeginsWith
<1>7. ShowsKnown(q)'
  <2> SUFFICES ASSUME NEW r \in before[q], Op(r)' = "add", Chain(r)' = c,
                      answer'[r] = "SUCCESS", RemovalsSettled(r)'
               PROVE  \E n \in DOMAIN w : w[n] = r
    BY <1>4 DEF ShowsKnown
  <2>1. r \in Requests /\ answer[r] # Null
    BY DEF Base, Told
  <2>2. ~Pending(r) /\ Sent(r)
    BY <2>1, DoneWith
  <2>3. Op(r) = "add" /\ Chain(r) = c /\ answer[r] = "SUCCESS"
    BY <2>1, <2>2, SentKept, HistoryKept
  <2>4. RemovalsSettled(r)
    BY <1>1, <2>1, <2>2, HoldsKept
  <2> QED BY <1>3, <2>3, <2>4 DEF ShowsKnown
<1> QED
  BY <1>6, <1>7

\* A successful read shows what is stored.
LEMMA ReadShowsChain ==
    ASSUME Base, [SystemNext]_systemVars, HandleEnds,
           NEW q \in Requests, q = cur, ReadOk(q)'
    PROVE  /\ Sent(q) /\ Op(q) = "getBlocks" /\ Chain(q) \in Paths
           /\ seen'[q] = entries(Chain(q)) /\ UNCHANGED <<disk, content, answer, before>>
<1> USE DEF Base
<1>1. P!Reply(Server) /\ Returns /\ thread = "handle"
  BY SameHandler DEF HandleEnds
<1>2. /\ UNCHANGED cur /\ outcome'[q] = response'
      /\ UNCHANGED <<content, answer, before>>
  BY <1>1, ReturnsOutcome
<1>3. Sent(q) /\ Op(q) = "getBlocks"
  BY <1>2 DEF ReadOk, Sent, Op, H!selected, H!dispatch
<1>4. reply'[Server] # Null /\ reply'[Server].status = "SUCCESS"
  BY <1>1, <1>2 DEF ReadOk, Returns
<1>5. ~P!Free(Server) /\ pc[Server] = "idle" /\ UNCHANGED disk
  BY <1>1 DEF P!Reply, P!vars, P!storageVars
<1>6. message[Server] = content[q]
  BY <1>5 DEF AtWork
<1> DEFINE f == P!selected(content[q])
           value == res[Server].value
<1>7. f.op = "getBlocks" /\ f.path = Chain(q)
  BY <1>3, SameHandler DEF Op, Chain
<1>8. res[Server].ok /\ reply'[Server] = P!makeResponse(P!body(f, value))
  <2>1. P!makeStatus("ERROR").status = "ERROR"
    BY DEF P!makeStatus
  <2>2. \A resp : P!Respond(Server, resp) => reply'[Server] \in {resp, Null}
    BY DEF P!Respond, StorageInv, P!MessagesInv, P!MessagesTyped
  <2> QED BY <1>1, <1>4, <1>6, <2>1, <2>2 DEF P!Reply
<1>9. P!Returned(P!managerCall(f), value)
  BY <1>5, <1>6, <1>8 DEF StorageInv, P!TruthInv, P!ReportedBy, P!Asked
<1>10. P!managerCall(f) = f
  BY <1>7 DEF P!managerCall
<1> HIDE DEF f, value
<1>11. P!Live(Chain(q)) /\ value = P!Blocks(Chain(q))
  BY <1>7, <1>9, <1>10 DEF P!Returned
<1>12. reply'[Server].body = [n \in DOMAIN value |-> P!setBlockData(value[n])]
  BY <1>7, <1>8 DEF P!makeResponse, P!body
<1>13. \A block : P!setBlockData(block).data = block.data
  BY DEF P!setBlockData
<1>14. seen'[q] = [n \in DOMAIN value |-> value[n].data]
  <2>1. seen'[q] = payloads(q, reply'[Server])
    BY <1>2 DEF HandleEnds, Told
  <2>2. seen'[q] = [n \in DOMAIN reply'[Server].body |-> reply'[Server].body[n].data]
    BY <1>3, <1>4, <2>1 DEF payloads, Op
  <2> QED BY <1>12, <1>13, <2>2
<1>15. seen'[q] = P!StoredIn(Chain(q))
  BY <1>11, <1>14 DEF P!StoredIn, P!Blocks, P!Entries, P!getBlocks, P!Header
<1> QED
  BY <1>2, <1>3, <1>5, <1>15, SameEntries, ChainsAsked

\* It shows everything users have been told of by then.
LEMMA ReadComes ==
    ASSUME Base, HeldInv, Fate, [SystemNext]_systemVars,
           NEW q \in Requests, q = cur, HandleEnds, ReadOk(q)'
    PROVE  BeginsWith(entries(Chain(q)), seen[q])' /\ ShowsKnown(q)'
<1> PICK c, s : c = Chain(q) /\ s = entries(c)
  OBVIOUS
<1>1. /\ Sent(q) /\ Op(q) = "getBlocks" /\ c \in Paths /\ seen'[q] = s
      /\ UNCHANGED <<disk, content, answer, before>>
  BY ReadShowsChain
<1>2. Chain(q)' = c
  BY <1>1, SentKept
<1>3. entries(c)' = s
  BY <1>1, SameEntries DEF P!StoredIn, P!Live, P!Entries, P!Header, P!IsPresent
<1>4. entries(Chain(q))' = s
  BY <1>2, <1>3 DEF entries, H!Live, H!Entries, H!Header, H!IsPresent
<1>5. ShowsKnown(q)'
  <2> SUFFICES ASSUME NEW r \in before[q], Op(r)' = "add", Chain(r)' = c,
                      answer[r] = "SUCCESS", RemovalsSettled(r)'
               PROVE  \E n \in DOMAIN s : s[n] = r
    BY <1>1, <1>2 DEF ShowsKnown
  <2>1. r \in Requests /\ answer[r] # Null
    BY DEF Base, Told
  <2>2. ~Pending(r) /\ Sent(r) /\ Succeeded(r)
    BY <2>1, DoneWith DEF Succeeded, Base, Told
  <2>3. Op(r) = "add" /\ Chain(r) = c
    BY <2>1, <2>2, SentKept
  <2>4. RemovalsSettled(r)
    BY <1>1, <2>1, <2>2, HoldsKept
  <2> QED BY <2>1, <2>2, <2>3, <2>4 DEF Fate, Holds
<1> QED
  BY <1>1, <1>4, <1>5 DEF BeginsWith

LEMMA ReadsKept ==
    ASSUME Base, HeldInv, Fate, Reads, [SystemNext]_systemVars
    PROVE  Reads'
<1> SUFFICES ASSUME NEW q \in Requests, ReadOk(q)', RemovalsSettled(q)', ~ReadOk(q)
             PROVE  q = cur /\ HandleEnds
  BY ReadKept, ReadComes DEF Reads
<1>1. Sent(q) => Op(q) = "getBlocks"
  BY SentKept DEF ReadOk
<1>2. outcome'[q] # outcome[q]
  <2> SUFFICES ASSUME outcome'[q] = outcome[q] PROVE FALSE
    OBVIOUS
  <2>1. outcome[q] # Null /\ outcome[q] = "SUCCESS"
    BY DEF ReadOk
  <2> QED BY <1>1, <2>1, DoneWith DEF ReadOk
<1>3. UNCHANGED outcome \/ (Returns /\ (HandleAtOnce \/ HandleEnds))
  <2>1. UNCHANGED systemVars => UNCHANGED outcome
    BY DEF systemVars, vars, historyVars
  <2>2. Moves => UNCHANGED outcome
    BY MovesForward DEF Base
  <2>3. ASSUME NEW c \in Clients, Hear(c) \/ Type(c) PROVE UNCHANGED outcome
    BY <2>2, <2>3, TypedIsNew DEF Hear, Moves, Base
  <2>4. HandleBegins \/ HandleWorks \/ Dies => UNCHANGED outcome
    BY DEF HandleBegins, HandleWorks, Dies, Crash, vars, historyVars
  <2> QED BY <2>1, <2>2, <2>3, <2>4, StepKinds DEF HandleAtOnce, HandleEnds
<1>4. q = cur /\ (HandleAtOnce \/ HandleEnds)
  BY <1>2, <1>3, ReturnsOutcome DEF Base
<1>5. Sent(q) /\ Op(q) # "ping"
  BY <1>1, <1>4, ServiceAssumption DEF Base, Mailed
<1>6. ~HandleAtOnce
  <2> SUFFICES ASSUME HandleAtOnce PROVE FALSE
    OBVIOUS
  <2>1. Succeeded(q)'
    BY DEF ReadOk, Succeeded
  <2>2. ~Succeeded(q)
    <3>1. ~HasReturned
      BY SameHandler DEF HandleAtOnce, P!Answer, HasReturned
    <3> QED BY <1>1, <1>5, <3>1 DEF Succeeded, ReadOk
  <2>3. ~CallReturns(q)
    BY <1>2 DEF CallReturns, HandleWorks, vars, historyVars
  <2> QED BY <1>5, <2>1, <2>2, <2>3, EndsAre
<1> QED
  BY <1>4, <1>6

LEMMA ReadsHold == SystemSpec => []Reads
<1>1. SystemInit => Reads
  BY DEF SystemInit, Reads, ReadOk, Sent
<1> QED
  BY <1>1, ReadsKept, FateHolds, HeldHolds, BaseHolds, PTL DEF SystemSpec

\* Who reads a chain sees, in the order of the chain, all that anybody had been
\* told was in it when he asked.
THEOREM ReadersUpToDate == SystemSpec => []ReadsCurrent
<1>1. Base /\ Reads => ReadsCurrent
  <2> SUFFICES ASSUME Base, Reads, NEW q \in Requests, Sent(q), Op(q) = "getBlocks",
                      answer[q] = "SUCCESS", RemovalsSettled(q)
               PROVE  /\ \A n \in DOMAIN seen[q] :
                            n \in DOMAIN entries(Chain(q)) /\ entries(Chain(q))[n] = seen[q][n]
                      /\ ShowsKnown(q)
    BY DEF ReadsCurrent, ShowsKnown
  <2>1. "SUCCESS" # Null
    BY SystemAssumption, ServiceAssumption DEF H!Status
  <2>2. outcome[q] = "SUCCESS"
    BY <2>1 DEF Base, Told
  <2> QED BY <2>1, <2>2 DEF Reads, ReadOk, BeginsWith
<1> QED
  BY <1>1, ReadsHold, BaseHolds, PTL

=============================================================================
