------------------------------ MODULE Manager -------------------------------
(***************************************************************************)
(* Core::Storage::Manager (src/Storage/Manager.cpp) together with the       *)
(* sessions Chain opens on its behalf (src/Storage/Chain.cpp).              *)
(*                                                                         *)
(* A process is one ChainDB server working on a storage directory.  Its     *)
(* server thread runs one Manager call at a time, and a call is a sequence  *)
(* of sessions: open the database of the chain, read or write, close.       *)
(* createChain, getBlock, getBlocks, getChainHeader, getChainInfo need one  *)
(* session, verifyChain two, addBlock two or three; removeChain needs none. *)
(* Between two sessions nothing is locked, so several servers that share a  *)
(* storage directory interleave there.                                      *)
(*                                                                         *)
(* An open session is entered by OpenStore and ended by the action of its   *)
(* body, which also contains the destructor of the Storage object.  Nobody  *)
(* else touches the database in between; another server only sees its LOCK, *)
(* and a crash may happen.                                                  *)
(***************************************************************************)
EXTENDS Chain, Verification, Sequences, FiniteSets

CONSTANTS
    Data,           \* the payloads of chains and blocks
    Nonces,         \* the values of Block::generateNonce
    PrivateKeys,    \* the values of Secp256k1::generatePrivateKey
    None,           \* the value of a null pointer
    Legacy,         \* the chains another build left in the storage directory
    OTHER_VERSION,  \* the layout version of that build
    Ops,            \* bound: the calls clients make
    MaxBlocks,      \* bound: no block is added to a chain of this length
    MaxCreates      \* bound: no chain is created after this many (a block that
                    \* outlives its chain makes hashes nest without end)

ASSUME ManagerAssumption ==
    /\ Legacy \subseteq Paths
    /\ OTHER_VERSION \in Nat \ {DB_VERSION}
    /\ Ops \subseteq {"create", "add", "getBlock", "getBlocks", "verify",
                      "header", "info", "remove"}
    /\ MaxBlocks \in Nat
    /\ MaxCreates \in Nat

VARIABLES
    pc,     \* pc[p]: what p is about to do
    req,    \* req[p]: the Manager call p runs
    hdr,    \* hdr[p]: the local variable header of addBlock, verifyChain and create
    blk,    \* blk[p]: the local variable block of addBlock
    res,    \* res[p]: what the last call returned
    acked,  \* history: acked[c] holds the blocks addBlock returned, with the
            \* index they were stored under, until the chain is removed
    created \* history: how many databases createChain has made

localVars == <<pc, req, hdr, blk, res>>
historyVars == <<acked, created>>
vars == <<storageVars, localVars, historyVars>>

\* The calls.  makeStoragePath maps different chain ids to different paths, so
\* a path stands for its chain id.
Requests ==
    [op : Ops \cap {"create", "add"}, path : Paths, data : Data, index : {0}]
    \cup [op : Ops \cap {"getBlock"}, path : Paths, data : {None},
          index : 0..(MaxBlocks + 1)]
    \cup [op : Ops \cap {"getBlocks", "verify", "header", "info", "remove"},
          path : Paths, data : {None}, index : {0}]

\* The first thing a call does.
entry == [create |-> "create", add |-> "header", getBlock |-> "getBlock",
          getBlocks |-> "blocks", verify |-> "header", header |-> "header",
          info |-> "header", remove |-> "remove"]

\* The program points at which p needs an open session.
Sessions == {"header", "last", "append", "getBlock", "blocks"}

-----------------------------------------------------------------------------
\* A chain the other build left behind: never or once appended to.
legacyHeader(data, key) ==
    [newHeader(data, key, createPublicKey(key)) EXCEPT !.version = OTHER_VERSION]

LegacyStores ==
    LET empty(d, k) == createBatch(legacyHeader(d, k))
        block(d, k, n) ==
            makeBlock(legacyHeader(d, k), headerHash(legacyHeader(d, k)), n, d)
    IN  {empty(d, k) : d \in Data, k \in PrivateKeys}
        \cup {addBlockBatch(empty(d, k), block(d, k, n)) :
                d \in Data, k \in PrivateKeys, n \in Nonces}

Init ==
    /\ disk \in [Paths -> {Absent} \cup {Present(kv) : kv \in LegacyStores}]
    /\ \A c \in Paths : disk[c] # Absent <=> c \in Legacy
    /\ db = [p \in Procs |-> NoPath]
    /\ pc = [p \in Procs |-> "idle"]
    /\ req = [p \in Procs |-> None]
    /\ hdr = [p \in Procs |-> None]
    /\ blk = [p \in Procs |-> None]
    /\ res = [p \in Procs |-> None]
    /\ acked = [c \in Paths |-> {}]
    /\ created = 0

-----------------------------------------------------------------------------

Kv(p) == disk[db[p]].kv

\* The call returns: its locals go, and with them the Storage object.
Return(p, ok, value) ==
    /\ CloseDB(p)
    /\ pc' = [pc EXCEPT ![p] = "idle"]
    /\ res' = [res EXCEPT ![p] = [req |-> req[p], ok |-> ok, value |-> value]]
    /\ req' = [req EXCEPT ![p] = None]
    /\ hdr' = [hdr EXCEPT ![p] = None]
    /\ blk' = [blk EXCEPT ![p] = None]

\* Every failure makes the call return false or a null pointer.
Fail(p) == Return(p, FALSE, None)

\* The session ends and the call goes on at next.
EndSession(p, next, header, block) ==
    /\ CloseDB(p)
    /\ pc' = [pc EXCEPT ![p] = next]
    /\ hdr' = [hdr EXCEPT ![p] = header]
    /\ blk' = [blk EXCEPT ![p] = block]
    /\ UNCHANGED <<req, res>>

\* removeChain reached the files of c: a history of c ends when they change.
ForgetIfTouched(c) ==
    acked' = IF disk'[c] = disk[c] THEN acked ELSE [acked EXCEPT ![c] = {}]

\* A call of OpenSSL, libsecp256k1 or the random generator may fail.
CryptoFails == "crypto" \in Faults

\* Storage::get may fail for a key that is there.
ReadFails == "io" \in Faults

\* The server hands p its next call.
Start(p, r) ==
    /\ pc[p] = "idle"
    /\ r.op = "add" /\ IsPresent(r.path) /\ hasHeader(disk[r.path].kv)
           => getHeader(disk[r.path].kv).index < MaxBlocks
    /\ r.op = "create" => created < MaxCreates
    /\ pc' = [pc EXCEPT ![p] = entry[r.op]]
    /\ req' = [req EXCEPT ![p] = r]
    /\ res' = [res EXCEPT ![p] = None]
    /\ UNCHANGED <<storageVars, hdr, blk, historyVars>>

-----------------------------------------------------------------------------
\* createChain: the keys are generated and the empty database comes into
\* existence; the header is written by a second durable step.

CreateOpen(p) ==
    /\ pc[p] = "create"
    /\ CreateDB(p, req[p].path)
    /\ \E key \in PrivateKeys :
        hdr' = [hdr EXCEPT ![p] =
                    newHeader(req[p].data, key, createPublicKey(key))]
    /\ pc' = [pc EXCEPT ![p] = "createSet"]
    /\ created' = created + 1
    /\ UNCHANGED <<req, blk, res, acked>>

CreateRefused(p) ==
    /\ pc[p] = "create"
    /\ \/ CreateDBFails(p, req[p].path)
       \/ CryptoFails /\ UNCHANGED disk
    /\ Fail(p)
    /\ UNCHANGED historyVars

CreateSet(p) ==
    /\ pc[p] = "createSet"
    /\ \/ SetKeys(p, createBatch(hdr[p])) /\ Return(p, TRUE, None)
       \/ SetKeysFails(p, createBatch(hdr[p])) /\ Fail(p)
    /\ UNCHANGED historyVars

-----------------------------------------------------------------------------
\* The sessions of the other calls.

OpenStore(p) ==
    /\ pc[p] \in Sessions
    /\ OpenDB(p, req[p].path)
    /\ UNCHANGED <<localVars, historyVars>>

\* Waiting for the LOCK instead of failing.
OpenRefused_Waits(p) ==
    /\ pc[p] \in Sessions
    /\ db[p] = NoPath
    /\ ~IsPresent(req[p].path)
    /\ Fail(p)
    /\ UNCHANGED <<disk, historyVars>>

OpenRefused(p) ==
    /\ pc[p] \in Sessions
    /\ db[p] = NoPath
    /\ OpenDBFails(p, req[p].path)
    /\ Fail(p)
    /\ UNCHANGED historyVars

\* p is inside the session of program point step.
InSession(p, step) == pc[p] = step /\ db[p] # NoPath

\* addBlock: prevHash is known; generate the nonce, hash and sign.
BuildBlock(p, header, prevHash) ==
    \/ \E nonce \in Nonces :
        EndSession(p, "append", header,
                   makeBlock(header, prevHash, nonce, req[p].data))
    \/ CryptoFails /\ Fail(p)

\* Chain::getHeader(), the first session of addBlock and verifyChain and the
\* only one of getChainHeader and getChainInfo.
ReadHeader(p) ==
    /\ InSession(p, "header")
    /\ \/ /\ hasHeader(Kv(p))
          /\ LET header == getHeader(Kv(p)) IN
             CASE req[p].op = "add" /\ header.index = 0 ->
                    BuildBlock(p, header, headerHash(header))
               [] req[p].op = "add" /\ header.index # 0 ->
                    EndSession(p, "last", header, None)
               [] req[p].op = "verify" ->
                    EndSession(p, "blocks", header, None)
               [] req[p].op = "header" ->
                    Return(p, TRUE, header)
               [] req[p].op = "info" ->
                    Return(p, TRUE, [version |-> header.version,
                                     index |-> header.index])
       \/ /\ ~hasHeader(Kv(p)) \/ ReadFails
          /\ Fail(p)
    /\ UNCHANGED <<disk, historyVars>>

\* Linking to the predecessor of the last block.
ReadLast_PrevHash(p) ==
    /\ InSession(p, "last")
    /\ blockReadable(Kv(p), hdr[p].index)
    /\ BuildBlock(p, hdr[p], getBlock(Kv(p), hdr[p].index).prevHash)
    /\ UNCHANGED <<disk, historyVars>>

\* addBlock's chain.getBlock(header->getIndex()).
ReadLast(p) ==
    /\ InSession(p, "last")
    /\ \/ /\ blockReadable(Kv(p), hdr[p].index)
          /\ BuildBlock(p, hdr[p], getBlock(Kv(p), hdr[p].index).hash)
       \/ /\ ~blockReadable(Kv(p), hdr[p].index) \/ ReadFails
          /\ Fail(p)
    /\ UNCHANGED <<disk, historyVars>>

\* Storing under the index read in the first session.
AppendBlock_StaleIndex(p) ==
    /\ InSession(p, "append")
    /\ hasSupportedHeader(Kv(p))
    /\ SetKeys(p, addBlockBatch(createBatch(hdr[p]), blk[p]))
    /\ acked' = [acked EXCEPT ![db[p]] =
            @ \cup {[index |-> hdr[p].index + 1, block |-> blk[p]]}]
    /\ Return(p, TRUE, blk[p])
    /\ UNCHANGED created

\* Chain::addBlock reads the header again and stores the block behind the last
\* one it finds now, whatever addBlock saw in its earlier sessions.
AppendBlock(p) ==
    /\ InSession(p, "append")
    /\ \/ /\ hasSupportedHeader(Kv(p))
          /\ SetKeys(p, addBlockBatch(Kv(p), blk[p]))
          /\ acked' = [acked EXCEPT ![db[p]] =
                @ \cup {[index |-> getHeader(Kv(p)).index + 1, block |-> blk[p]]}]
          /\ Return(p, TRUE, blk[p])
       \/ /\ hasSupportedHeader(Kv(p))
          /\ SetKeysFails(p, addBlockBatch(Kv(p), blk[p]))
          /\ Fail(p)
          /\ UNCHANGED acked
       \/ /\ ~hasSupportedHeader(Kv(p)) \/ ReadFails
          /\ Fail(p)
          /\ UNCHANGED <<disk, acked>>
    /\ UNCHANGED created

ReadBlock(p) ==
    /\ InSession(p, "getBlock")
    /\ \/ /\ blockReadable(Kv(p), req[p].index)
          /\ Return(p, TRUE, getBlock(Kv(p), req[p].index))
       \/ /\ ~blockReadable(Kv(p), req[p].index) \/ ReadFails
          /\ Fail(p)
    /\ UNCHANGED <<disk, historyVars>>

\* Chain::getBlocks, for getBlocks and for the second session of verifyChain,
\* which checks the blocks it got against the header of its first session.  A
\* body hash that cannot be computed is used all the same, through a null
\* pointer: that is the death of the process, Crash.
ReadBlocks(p) ==
    /\ InSession(p, "blocks")
    /\ \/ /\ blocksReadable(Kv(p))
          /\ LET blocks == getBlocks(Kv(p)) IN
             IF req[p].op = "getBlocks"
             THEN Return(p, TRUE, blocks)
             ELSE \/ Return(p, verifyBlocks(hdr[p], blocks), None)
                  \/ CryptoFails /\ blocks # <<>> /\ Fail(p)
       \/ /\ ~blocksReadable(Kv(p)) \/ ReadFails
          /\ Fail(p)
    /\ UNCHANGED <<disk, historyVars>>

RemoveChain(p) ==
    /\ pc[p] = "remove"
    /\ \/ DestroyDB(req[p].path) /\ Return(p, TRUE, None)
       \/ DestroyDBFails(req[p].path) /\ Fail(p)
    /\ ForgetIfTouched(req[p].path)
    /\ UNCHANGED created

-----------------------------------------------------------------------------

\* What a process that dies leaves on disk: the system call it was in may have
\* taken effect or not, and DestroyDB stops half way.
CrashedDisk(p) ==
    \/ UNCHANGED disk
    \/ /\ pc[p] = "create"
       /\ disk[req[p].path].state = "absent" /\ ~Locked(req[p].path)
       /\ disk' = [disk EXCEPT ![req[p].path] = Present(NoKeys)]
    \/ pc[p] = "createSet" /\ SetKeys(p, createBatch(hdr[p]))
    \/ /\ InSession(p, "append")
       /\ hasSupportedHeader(Kv(p))
       /\ SetKeys(p, addBlockBatch(Kv(p), blk[p]))
    \/ /\ pc[p] = "remove"
       /\ ~Locked(req[p].path)
       /\ \E left \in HalfRemoved(req[p].path) :
            disk' = [disk EXCEPT ![req[p].path] = left]

\* The process dies in the middle of a call and is started again.  The
\* operating system releases the LOCK; nobody learns the result of the call.
Crash(p) ==
    /\ "crash" \in Faults
    /\ pc[p] # "idle"
    /\ CrashedDisk(p)
    /\ CloseDB(p)
    /\ pc' = [pc EXCEPT ![p] = "idle"]
    /\ req' = [req EXCEPT ![p] = None]
    /\ hdr' = [hdr EXCEPT ![p] = None]
    /\ blk' = [blk EXCEPT ![p] = None]
    /\ res' = [res EXCEPT ![p] = None]
    /\ IF pc[p] = "remove" THEN ForgetIfTouched(req[p].path) ELSE UNCHANGED acked
    /\ UNCHANGED created

\* The steps of a running call.
Step(p) ==
    \/ CreateOpen(p) \/ CreateRefused(p) \/ CreateSet(p)
    \/ OpenStore(p) \/ OpenRefused(p)
    \/ ReadHeader(p) \/ ReadLast(p) \/ AppendBlock(p)
    \/ ReadBlock(p) \/ ReadBlocks(p)
    \/ RemoveChain(p)

Next ==
    \E p \in Procs :
        \/ \E r \in Requests : Start(p, r)
        \/ Step(p)
        \/ Crash(p)

Spec == Init /\ [][Next]_vars

\* A server keeps running its thread: a call in progress takes its next step
\* unless the process dies.  Calls need not arrive.
FairSpec == Spec /\ \A p \in Procs : WF_vars(Step(p))

=============================================================================
