------------------------- MODULE ManagerProperties --------------------------
(***************************************************************************)
(* The properties of Manager, checked by the MC modules and, where          *)
(* Manager_proofs says so, proved.                                          *)
(***************************************************************************)
EXTENDS Manager

\* The chains this build can work on, and what is in them.
Live(c) == IsPresent(c) /\ hasSupportedHeader(disk[c].kv)
Header(c) == getHeader(disk[c].kv)
Blocks(c) == getBlocks(disk[c].kv)
Entries(c) == [i \in 1..Header(c).index |-> getBlock(disk[c].kv, i).data]

Headers ==
    [version : {DB_VERSION, OTHER_VERSION}, index : Nat, data : Data,
     privateKey : PrivateKeys, publicKey : {createPublicKey(k) : k \in PrivateKeys}]

\* The calls that come through each program point.
CallsAt ==
    [idle |-> {}, create |-> {"create"}, createSet |-> {"create"},
     header |-> {"add", "verify", "header", "info"}, last |-> {"add"},
     append |-> {"add"}, getBlock |-> {"getBlock"},
     blocks |-> {"getBlocks", "verify"}, remove |-> {"remove"}]

\* The type invariant: every variable has the shape the program gives it, and
\* a process between two calls has no call, no session and no locals.
TypeOK ==
    /\ DOMAIN disk = Paths
    /\ \A c \in Paths :
        /\ disk[c] = [state |-> disk[c].state, kv |-> disk[c].kv]
        /\ disk[c].state \in {"absent", "damaged", "present"}
    /\ \A c \in Paths : ~IsPresent(c) => disk[c].kv = NoKeys
    /\ db \in [Procs -> Paths \cup {NoPath}]
    /\ pc \in [Procs -> DOMAIN CallsAt]
    /\ req \in [Procs -> Requests \cup {None}]
    /\ hdr \in [Procs -> Headers \cup {None}]
    /\ DOMAIN blk = Procs /\ DOMAIN res = Procs
    /\ \A p \in Procs :
        IF pc[p] = "idle"
        THEN req[p] = None /\ db[p] = NoPath /\ hdr[p] = None /\ blk[p] = None
        ELSE req[p] \in Requests /\ req[p].op \in CallsAt[pc[p]]

-----------------------------------------------------------------------------

\* Chain::getBlocks finds every block the header counts, and no other block is
\* there: a database is empty (a creation that never finished) or holds a
\* header and exactly the blocks 1 to header.index.  Storage::set writes header
\* and block in one batch, and Chain::addBlock takes the index from the header
\* it reads under the LOCK.
Complete(kv) ==
    \/ kv = NoKeys
    \/ /\ hasHeader(kv)
       /\ getHeader(kv) \in Headers
       /\ DOMAIN kv = {DB_HEADER_KEY}
                        \cup {makeBlockName(i) : i \in 1..getHeader(kv).index}
       /\ \A i \in 1..getHeader(kv).index : hasBlock(kv, i)
Contiguous == \A c \in Paths : Complete(disk[c].kv)

\* Every block addBlock has returned is found under the index it was given, in
\* a chain of this build, until removeChain reaches the chain: crashes, failed
\* writes and the additions of other servers neither lose nor overwrite it.
Kept(directory, a) ==
    /\ directory.state = "present"
    /\ hasSupportedHeader(directory.kv)
    /\ a.index \in 1..getHeader(directory.kv).index
    /\ getBlock(directory.kv, a.index) = a.block
AckedDurable == \A c \in Paths : \A a \in acked[c] : Kept(disk[c], a)

\* Manager::verifyChain accepts every chain that was built through Manager, and
\* the prev_hash each block stores (which verifyChain never compares) is the
\* hash of its predecessor.  Holds for a storage directory one server uses.
Linked(header, blocks) ==
    \A i \in DOMAIN blocks :
        blocks[i].prevHash =
            IF i = 1 THEN headerHash(header) ELSE blocks[i - 1].hash
ChainsVerify ==
    \A c \in Paths :
        Live(c) => verifyBlocks(Header(c), Blocks(c)) /\ Linked(Header(c), Blocks(c))

\* README.md: "Each database contains its own public and private key.  All
\* blocks are signed with the private key".
SignedWithChainKey ==
    \A c \in Paths : Live(c) =>
        \A i \in 1..Header(c).index :
            getBlock(disk[c].kv, i).signature.by = Header(c).privateKey

\* While a database stays present, no call takes anything out of it: a block
\* stays as it is, a header keeps everything but its index, which grows by at
\* most one, and a chain of another layout version does not change at all,
\* although getHeader() reads it without looking at the version.
KeepsStored(c) ==
    LET kv == disk[c].kv  new == disk'[c].kv IN
    IsPresent(c) /\ disk'[c].state = "present" =>
        /\ \A key \in DOMAIN kv \ {DB_HEADER_KEY} :
            key \in DOMAIN new /\ new[key] = kv[key]
        /\ hasHeader(kv) =>
            /\ hasHeader(new)
            /\ \/ new = kv
               \/ /\ getHeader(kv).version = DB_VERSION
                  /\ getHeader(new) =
                        [getHeader(kv) EXCEPT !.index = getHeader(kv).index + 1]
AppendOnly == [][\A c \in Paths : KeepsStored(c)]_vars

-----------------------------------------------------------------------------
\* The abstract view of the storage directory.

Constructing(c) == \E p \in Procs : pc[p] = "createSet" /\ db[p] = c

\* What users see of a directory, given whether somebody is constructing it.
ledgerOf(directory, constructing) ==
    LET kv == directory.kv IN
    CASE directory.state = "absent" -> [state |-> "absent"]
      [] directory.state = "damaged" -> [state |-> "broken"]
      [] directory.state = "present" /\ ~hasHeader(kv) ->
            [state |-> IF constructing THEN "reserved" ELSE "orphan"]
      [] directory.state = "present" /\ hasHeader(kv) /\ ~hasSupportedHeader(kv) ->
            [state |-> "foreign"]
      [] directory.state = "present" /\ hasSupportedHeader(kv) ->
            [state |-> "live", payload |-> getHeader(kv).data,
             key |-> getHeader(kv).privateKey,
             entries |-> [i \in 1..getHeader(kv).index |-> getBlock(kv, i).data]]

ledgers == [c \in Paths |-> ledgerOf(disk[c], Constructing(c))]

L == INSTANCE Ledger WITH
        Names <- Paths, Payloads <- Data, Keys <- PrivateKeys, ledger <- ledgers

\* The storage directory behaves like a set of append-only ledgers, however
\* many servers share it and whatever fails.
LedgerSpec == L!Spec

-----------------------------------------------------------------------------
\* What one server answers when nothing fails: a call succeeds exactly when
\* the chain it names is in the state the call needs, whatever sessions it
\* takes to find out, and returns or does what its name says.  Live, Header and
\* Constructing are those of the state the call is about to return in; a chain
\* is under construction where none was before (Founded).

Founded(c) == ~Constructing(c) /\ Constructing(c)' => disk[c].state = "absent"

Exact(r, ok, value, c) ==
    CASE r.op = "create" ->
            /\ ok <=> Constructing(c)
            /\ ~ok => disk[c].state # "absent"
            /\ ok => disk'[c] = Present(createBatch(
                        [Header(c)' EXCEPT !.data = r.data, !.index = 0]))
      [] r.op = "add" ->
            /\ ok <=> Live(c)
            /\ ok => Entries(c)' = Append(Entries(c), r.data)
      [] r.op = "getBlock" ->
            /\ ok <=> Live(c) /\ r.index \in 1..Header(c).index
            /\ ok => value = Blocks(c)[r.index]
      [] r.op = "getBlocks" ->
            /\ ok <=> Live(c)
            /\ ok => value = Blocks(c)
      [] r.op = "verify" ->
            ok <=> Live(c)
      [] r.op = "header" ->
            /\ ok <=> IsPresent(c) /\ hasHeader(disk[c].kv)
            /\ ok => value = Header(c) /\ value.index = Cardinality(DOMAIN disk[c].kv) - 1
      [] r.op = "info" ->
            /\ ok <=> IsPresent(c) /\ hasHeader(disk[c].kv)
            /\ ok => value = [version |-> Header(c).version,
                              index |-> Cardinality(DOMAIN disk[c].kv) - 1]
      [] r.op = "remove" ->
            ok /\ disk'[c] = Absent

RepliesExact ==
    [][/\ \A p \in Procs : pc[p] # "idle" /\ pc'[p] = "idle" =>
            \A r \in {req[p]} :
                Exact(r, res'[p].ok, res'[p].value, r.path)
       /\ \A c \in Paths : Founded(c)]_vars

\* Every call returns, whoever holds the LOCK of its chain: no step of a call
\* waits for another process.
EveryCallReturns == \A p \in Procs : pc[p] # "idle" ~> pc[p] = "idle"

=============================================================================
