--------------------------- MODULE Ledger_proofs ----------------------------
(***************************************************************************)
(* The storage directory implements Ledger, for every number of servers,    *)
(* chains, payloads and keys and every set of faults.                       *)
(*                                                                         *)
(* A step belongs to one process and concerns the one chain its call names. *)
(* So the proof goes chain by chain: no other ledger changes (OneAtATime),  *)
(* and the one that does takes a step of Ledger.                            *)
(***************************************************************************)
EXTENDS Manager_proofs

\* The ledger of a directory, case by case.
LEMMA LedgerOfIs ==
    ASSUME NEW directory, NEW constructing \in BOOLEAN
    PROVE  LET kv == directory.kv IN
           /\ directory.state = "absent" => ledgerOf(directory, constructing) = L!Nothing
           /\ directory.state = "damaged" => ledgerOf(directory, constructing) = L!Broken
           /\ directory.state = "present" /\ ~hasHeader(kv) =>
                ledgerOf(directory, constructing) =
                    IF constructing THEN L!Reserved ELSE L!Orphan
           /\ directory.state = "present" /\ hasHeader(kv) /\ ~hasSupportedHeader(kv) =>
                ledgerOf(directory, constructing) = L!Foreign
           /\ directory.state = "present" /\ hasSupportedHeader(kv) =>
                ledgerOf(directory, constructing) =
                    L!Live(getHeader(kv).data, getHeader(kv).privateKey,
                           EntriesOf(kv))
<1>1. CASE directory.state = "absent"
  BY <1>1 DEF ledgerOf, L!Nothing
<1>2. CASE directory.state = "damaged"
  BY <1>2 DEF ledgerOf, L!Broken
<1>3. CASE directory.state = "present" /\ ~hasHeader(directory.kv)
  BY <1>3 DEF ledgerOf, L!Reserved, L!Orphan, hasSupportedHeader
<1>4. CASE /\ directory.state = "present" /\ hasHeader(directory.kv)
           /\ ~hasSupportedHeader(directory.kv)
  BY <1>4 DEF ledgerOf, L!Foreign
<1>5. CASE /\ directory.state = "present" /\ hasHeader(directory.kv)
           /\ hasSupportedHeader(directory.kv)
  BY <1>5 DEF ledgerOf, L!Live, EntriesOf
<1> QED
  BY <1>1, <1>2, <1>3, <1>4, <1>5 DEF hasSupportedHeader

-----------------------------------------------------------------------------

\* c's ledger becomes new, and no other changes.
LEMMA Becomes ==
    ASSUME NEW c \in Paths, NEW new,
           \A x \in Paths \ {c} : ledgers'[x] = ledgers[x],
           ledgers'[c] = new
    PROVE  L!Become(c, new)
<1>1. /\ ledgers = [x \in Paths |-> ledgers[x]] /\ ledgers' = [x \in Paths |-> ledgers'[x]]
      /\ DOMAIN ledgers = Paths /\ DOMAIN ledgers' = Paths
  BY DEF ledgers
<1> HIDE DEF ledgers
<1> QED
  BY <1>1 DEF L!Become

\* A step of a call of p changes no directory but the one the call names, and
\* nothing about who is constructing another.
LEMMA OneAtATime ==
    ASSUME Inv, NEW p \in Procs, Step(p) \/ Crash(p)
    PROVE  LET c == req[p].path IN
           /\ c \in Paths
           /\ \A x \in Paths \ {c} :
                disk'[x] = disk[x] /\ Constructing(x)' = Constructing(x)
           /\ \A x \in Paths \ {c} : ledgers'[x] = ledgers[x]
<1> DEFINE c == req[p].path
<1>1. pc[p] # "idle" /\ OthersStand(p) /\ (Finished(p) \/ UNCHANGED req)
  BY StepCarries
<1>2. c \in Paths
  BY <1>1 DEF Inv, TypeOK, Requests
<1>3. db[p] \in {NoPath, c} /\ db'[p] \in {NoPath, c}
  <2>1. Inv'
    BY NextInv DEF Next
  <2>2. db[p] \in {NoPath, c}
    BY DEF Inv, SessionsOK
  <2>3. CASE Finished(p)
    BY <2>2, <2>3 DEF Finished, Inv, TypeOK
  <2>4. CASE UNCHANGED req
    BY <2>1, <2>2, <2>4 DEF Inv, SessionsOK
  <2> QED BY <1>1, <2>3, <2>4
<1>4. \/ UNCHANGED disk
      \/ \E new : disk' = [disk EXCEPT ![c] = new]
  <2>1. ASSUME NEW batch, db[p] # NoPath, SetKeys(p, batch)
        PROVE  \E new : disk' = [disk EXCEPT ![c] = new]
    BY <1>3, <2>1 DEF SetKeys
  <2>2. pc[p] = "createSet" => db[p] # NoPath
    BY DEF Inv, SessionsOK
  <2>3. CASE CreateOpen(p) \/ CreateRefused(p)
    BY <2>3 DEF CreateOpen, CreateDB, CreateRefused, CreateDBFails
  <2>4. CASE CreateSet(p)
    BY <2>1, <2>2, <2>4 DEF CreateSet, SetKeysFails
  <2>5. CASE AppendBlock(p)
    BY <2>1, <2>5 DEF AppendBlock, InSession, SetKeysFails
  <2>6. CASE RemoveChain(p)
    BY <2>6 DEF RemoveChain, DestroyDB, DestroyDBFails
  <2>7. CASE \/ OpenStore(p) \/ OpenRefused(p) \/ ReadHeader(p) \/ ReadLast(p)
             \/ ReadBlock(p) \/ ReadBlocks(p)
    BY <2>7 DEF OpenStore, OpenDB, OpenRefused, OpenDBFails, ReadHeader, ReadLast,
                ReadBlock, ReadBlocks
  <2>8. CASE Crash(p)
    <3>1. CrashedDisk(p)
      BY <2>8 DEF Crash
    <3> QED BY <2>1, <2>2, <3>1 DEF CrashedDisk, InSession
  <2> QED BY <2>3, <2>4, <2>5, <2>6, <2>7, <2>8 DEF Step
<1>5. ASSUME NEW x \in Paths \ {c}
      PROVE  disk'[x] = disk[x] /\ Constructing(x)' = Constructing(x)
  <2>1. disk'[x] = disk[x]
    BY <1>2, <1>4 DEF Inv, TypeOK
  <2>2. Constructing(x)' <=> Constructing(x)
    BY <1>1, <1>3, NoPathAssumption DEF Constructing, OthersStand
  <2> QED BY <2>1, <2>2 DEF Constructing
<1>6. \A x \in Paths \ {c} : ledgers'[x] = ledgers[x]
  BY <1>5 DEF ledgers
<1> QED
  BY <1>2, <1>5, <1>6

\* What the ledger of a chain is, case by case.
LEMMA LedgerBefore ==
    ASSUME NEW c \in Paths
    PROVE  /\ ledgers[c] = ledgerOf(disk[c], Constructing(c))
           /\ disk[c].state = "absent" => ledgers[c] = L!Nothing
           /\ disk[c].state = "damaged" => ledgers[c] = L!Broken
           /\ disk[c].state = "present" /\ ~hasHeader(disk[c].kv) =>
                ledgers[c] = IF Constructing(c) THEN L!Reserved ELSE L!Orphan
           /\ disk[c].state = "present" /\ hasHeader(disk[c].kv)
                /\ ~hasSupportedHeader(disk[c].kv) => ledgers[c] = L!Foreign
           /\ disk[c].state = "present" /\ hasSupportedHeader(disk[c].kv) =>
                ledgers[c] =
                    L!Live(getHeader(disk[c].kv).data, getHeader(disk[c].kv).privateKey,
                           EntriesOf(disk[c].kv))
<1>1. ledgers[c] = ledgerOf(disk[c], Constructing(c)) /\ Constructing(c) \in BOOLEAN
  BY DEF ledgers, Constructing
<1>2. PICK d : d = disk[c]
  OBVIOUS
<1>3. PICK b \in BOOLEAN : b = Constructing(c)
  BY <1>1
<1>4. ledgers[c] = ledgerOf(d, b)
  BY <1>1, <1>2, <1>3
<1> HIDE DEF ledgers
<1> QED
  BY <1>2, <1>3, <1>4, LedgerOfIs

LEMMA LedgerAfter ==
    ASSUME NEW c \in Paths
    PROVE  /\ ledgers'[c] = ledgerOf(disk'[c], Constructing(c)')
           /\ disk'[c].state = "absent" => ledgers'[c] = L!Nothing
           /\ disk'[c].state = "damaged" => ledgers'[c] = L!Broken
           /\ disk'[c].state = "present" /\ ~hasHeader(disk'[c].kv) =>
                ledgers'[c] = IF Constructing(c)' THEN L!Reserved ELSE L!Orphan
           /\ disk'[c].state = "present" /\ hasSupportedHeader(disk'[c].kv) =>
                ledgers'[c] =
                    L!Live(getHeader(disk'[c].kv).data, getHeader(disk'[c].kv).privateKey,
                           EntriesOf(disk'[c].kv))
<1>1. ledgers'[c] = ledgerOf(disk'[c], Constructing(c)') /\ Constructing(c)' \in BOOLEAN
  BY DEF ledgers, Constructing
<1>2. PICK d : d = disk'[c]
  OBVIOUS
<1>3. PICK b \in BOOLEAN : b = Constructing(c)'
  BY <1>1
<1>4. ledgers'[c] = ledgerOf(d, b)
  BY <1>1, <1>2, <1>3
<1> HIDE DEF ledgers
<1> QED
  BY <1>2, <1>3, <1>4, LedgerOfIs

LEMMA LiveAfter ==
    ASSUME NEW c \in Paths, NEW kv, disk'[c] = Present(kv), hasSupportedHeader(kv),
           NEW payload, NEW key, NEW entries,
           getHeader(kv).data = payload, getHeader(kv).privateKey = key,
           EntriesOf(kv) = entries
    PROVE  ledgers'[c] = L!Live(payload, key, entries)
<1>1. ledgers'[c] = ledgerOf(Present(kv), Constructing(c)') /\ Constructing(c)' \in BOOLEAN
  BY DEF ledgers, Constructing
<1>2. PICK b \in BOOLEAN : ledgers'[c] = ledgerOf(Present(kv), b)
  BY <1>1
<1>3. PICK d : d = Present(kv)
  OBVIOUS
<1>4. d.state = "present" /\ d.kv = kv
  BY <1>3 DEF Present
<1> HIDE DEF ledgers
<1>5. ledgers'[c] = ledgerOf(d, b)
  BY <1>2, <1>3
<1> QED
  BY <1>4, <1>5, LedgerOfIs

\* Nothing changes for users.
Unnoticed == ledgers' = ledgers

LEMMA SameIsUnnoticed ==
    ASSUME Inv, NEW p \in Procs, NEW c \in Paths, c = req[p].path,
           Step(p) \/ Crash(p),
           ledgers'[c] = ledgers[c]
    PROVE  Unnoticed
<1>1. \A x \in Paths : ledgers'[x] = ledgers[x]
  BY OneAtATime
<1>2. ledgers = [x \in Paths |-> ledgers[x]] /\ ledgers' = [x \in Paths |-> ledgers'[x]]
  BY DEF ledgers
<1> HIDE DEF ledgers
<1> QED
  BY <1>1, <1>2 DEF Unnoticed

\* A step that leaves the directory alone and neither begins nor ends the
\* construction of a chain.
LEMMA QuietStep ==
    ASSUME Inv, NEW p \in Procs, NEW c \in Paths, c = req[p].path,
           Step(p) \/ Crash(p),
           disk'[c] = disk[c],
           pc[p] # "createSet", pc'[p] # "createSet"
    PROVE  Unnoticed
<1>1. OthersStand(p)
  BY StepCarries
<1>2. Constructing(c)' = Constructing(c)
  <2>1. Constructing(c)' <=> Constructing(c)
    BY <1>1 DEF Constructing, OthersStand
  <2> QED BY <2>1 DEF Constructing
<1>3. ledgers'[c] = ledgers[c]
  BY <1>2, LedgerBefore, LedgerAfter
<1> QED
  BY <1>3, SameIsUnnoticed

\* The creator gives up after the database has come into existence.
LEMMA GivingUp ==
    ASSUME Inv, NEW p \in Procs, NEW c \in Paths, c = req[p].path,
           Step(p) \/ Crash(p),
           disk'[c] = disk[c],
           pc[p] = "createSet", pc'[p] = "idle"
    PROVE  L!Next
<1>1. \A x \in Paths \ {c} : ledgers'[x] = ledgers[x]
  BY OneAtATime
<1>2. /\ db[p] = c /\ disk[c].state = "present" /\ disk[c].kv = NoKeys
      /\ \A q \in Procs : db[q] = c => q = p
  BY DEF Inv, SessionsOK, IsPresent
<1>3. ~hasHeader(NoKeys)
  BY DEF hasHeader, NoKeys
<1>4. OthersStand(p)
  BY StepCarries
<1>5. Constructing(c) /\ ~Constructing(c)'
  BY <1>2, <1>4 DEF Constructing, OthersStand
<1>6. ledgers[c] = L!Reserved /\ ledgers'[c] = L!Orphan
  BY <1>1, <1>2, <1>3, <1>5, LedgerBefore, LedgerAfter
<1>7. L!Abandon(c)
  BY <1>1, <1>6, Becomes DEF L!Abandon
<1> QED
  BY <1>1, <1>7 DEF L!Next

\* The header makes the reserved database a chain.
LEMMA Founding ==
    ASSUME Inv, Carried, NEW p \in Procs, NEW c \in Paths, c = req[p].path,
           Step(p) \/ Crash(p),
           pc[p] = "createSet", SetKeys(p, createBatch(hdr[p]))
    PROVE  L!Next
<1> DEFINE new == Put(NoKeys, createBatch(hdr[p]))
<1>1. \A x \in Paths \ {c} : ledgers'[x] = ledgers[x]
  BY OneAtATime
<1>2. /\ db[p] = c /\ db[p] # NoPath /\ disk[c].state = "present" /\ disk[c].kv = NoKeys
      /\ hdr[p] \in Headers /\ hdr[p].index = 0 /\ hdr[p].version = DB_VERSION
  BY DEF Inv, SessionsOK, IsPresent, Carried, CarriedBy
<1>3. ~hasHeader(NoKeys)
  BY DEF hasHeader, NoKeys
<1>4. Constructing(c)
  BY <1>2 DEF Constructing
<1>5. ledgers[c] = L!Reserved
  BY <1>1, <1>2, <1>3, <1>4, LedgerBefore, LedgerAfter
<1>6. disk'[c] = Present(new)
  <2>1. disk'[db[p]] = Present(Put(Kv(p), createBatch(hdr[p])))
    BY <1>2, WriteTouchesOne
  <2>2. Kv(p) = NoKeys
    BY <1>2 DEF Kv
  <2> QED BY <1>2, <2>1, <2>2
<1>7. hasHeader(new) /\ getHeader(new) = hdr[p]
  BY <1>2, CreateBatchCompletes
<1> HIDE DEF new
<1>8. hasSupportedHeader(new)
  BY <1>2, <1>7 DEF hasSupportedHeader
<1>9. EntriesOf(new) = <<>>
  BY <1>2, <1>7 DEF EntriesOf
<1>10. ledgers'[c] = L!Live(hdr[p].data, hdr[p].privateKey, <<>>)
  BY <1>6, <1>7, <1>8, <1>9, LiveAfter
<1>11. hdr[p].data \in Data /\ hdr[p].privateKey \in PrivateKeys
  BY <1>2 DEF Headers
<1>12. L!Found(c, hdr[p].data, hdr[p].privateKey)
  BY <1>1, <1>5, <1>10, Becomes DEF L!Found
<1> QED
  BY <1>1, <1>11, <1>12 DEF L!Next

\* addBlock's batch is one more entry at the end, whatever the call saw in its
\* earlier sessions.
LEMMA Appending ==
    ASSUME Inv, Carried, NEW p \in Procs, NEW c \in Paths, c = req[p].path,
           Step(p) \/ Crash(p), WritesBlock(p)
    PROVE  L!Next
<1> DEFINE kv == disk[c].kv
           new == Put(kv, addBlockBatch(kv, blk[p]))
           n == getHeader(kv).index
           entries == EntriesOf(kv)
<1>1. \A x \in Paths \ {c} : ledgers'[x] = ledgers[x]
  BY OneAtATime
<1>2. db[p] = c /\ db[p] # NoPath /\ disk[c].state = "present" /\ Kv(p) = kv
  BY DEF WritesBlock, Inv, SessionsOK, IsPresent, Kv
<1>3. Complete(kv) /\ hasHeader(kv) /\ hasSupportedHeader(kv) /\ getHeader(kv) \in Headers
  BY <1>2, ReadsComplete DEF WritesBlock, hasSupportedHeader
<1>4. disk'[c] = Present(new)
  <2>1. disk'[db[p]] = Present(Put(Kv(p), addBlockBatch(Kv(p), blk[p])))
    BY <1>2, WriteTouchesOne DEF WritesBlock
  <2> QED BY <1>2, <2>1
<1>5. /\ n \in Nat /\ hasHeader(new)
      /\ getHeader(new) = [getHeader(kv) EXCEPT !.index = n + 1]
      /\ getBlock(new, n + 1) = blk[p]
      /\ \A i \in 1..n : getBlock(new, i) = getBlock(kv, i)
  BY <1>3, AddBlockBatchAppends
<1> HIDE DEF new
<1>6. /\ getHeader(new).data = getHeader(kv).data
      /\ getHeader(new).privateKey = getHeader(kv).privateKey
      /\ getHeader(new).version = DB_VERSION /\ getHeader(new).index = n + 1
  BY <1>3, <1>5 DEF Headers, hasSupportedHeader
<1>7. hasSupportedHeader(new)
  BY <1>5, <1>6 DEF hasSupportedHeader
<1>8. blk[p].data \in Data
  <2>1. blk[p].data = req[p].data /\ req[p] \in Requests /\ req[p].op = "add"
    BY DEF WritesBlock, Carried, CarriedBy, Inv, TypeOK, CallsAt
  <2> QED BY <2>1 DEF Requests
<1>9. EntriesOf(new) = Append(entries, blk[p].data)
  BY <1>3, AddBlockBatchEntries DEF new
<1>10. ledgers[c] = L!Live(getHeader(kv).data, getHeader(kv).privateKey, entries)
  BY <1>1, <1>2, <1>3, LedgerBefore, LedgerAfter
<1>11. ledgers'[c] = L!Live(getHeader(kv).data, getHeader(kv).privateKey,
                            Append(entries, blk[p].data))
  <2>1. PICK payload, key, longer :
            /\ payload = getHeader(kv).data /\ key = getHeader(kv).privateKey
            /\ longer = Append(entries, blk[p].data)
    OBVIOUS
  <2>2. PICK store : store = new
    OBVIOUS
  <2> HIDE DEF entries, n, kv
  <2>3. disk'[c] = Present(store) /\ hasSupportedHeader(store)
    BY <1>4, <1>7, <2>2
  <2>4. getHeader(store).data = payload /\ getHeader(store).privateKey = key
    BY <1>6, <2>1, <2>2
  <2>5. EntriesOf(store) = longer
    BY <1>9, <2>1, <2>2
  <2>6. ledgers'[c] = L!Live(payload, key, longer)
    BY <2>3, <2>4, <2>5, LiveAfter
  <2> QED BY <2>1, <2>6
<1>12. L!AppendEntry(c, blk[p].data)
  <2>1. L!Become(c, L!Live(getHeader(kv).data, getHeader(kv).privateKey,
                           Append(entries, blk[p].data)))
    BY <1>1, <1>11, Becomes
  <2> HIDE DEF entries
  <2>2. /\ ledgers[c].state = "live" /\ ledgers[c].entries = entries
        /\ [ledgers[c] EXCEPT !.entries = Append(entries, blk[p].data)] =
            L!Live(getHeader(kv).data, getHeader(kv).privateKey,
                   Append(entries, blk[p].data))
    BY <1>10 DEF L!Live
  <2> QED BY <2>1, <2>2 DEF L!AppendEntry, L!Become
<1> QED
  BY <1>1, <1>8, <1>12 DEF L!Next

\* An empty database comes into existence, with its creator at work or without.
LEMMA Coming ==
    ASSUME Inv, NEW p \in Procs, NEW c \in Paths, c = req[p].path,
           Step(p) \/ Crash(p),
           disk[c].state = "absent",
           disk' = [disk EXCEPT ![c] = Present(NoKeys)],
           \/ pc'[p] = "createSet" /\ db'[p] = c
           \/ pc'[p] = "idle"
    PROVE  L!Next
<1>1. \A x \in Paths \ {c} : ledgers'[x] = ledgers[x]
  BY OneAtATime
<1>2. OthersStand(p)
  BY StepCarries
<1>3. \A q \in Procs : db[q] # c
  BY <1>1, NoPathAssumption DEF Inv, SessionsOK, IsPresent
<1>4. disk'[c].state = "present" /\ disk'[c].kv = NoKeys /\ ~hasHeader(NoKeys)
  BY <1>1 DEF Inv, TypeOK, Present, hasHeader, NoKeys
<1>5. ledgers[c] = L!Nothing
  BY <1>1, LedgerBefore, LedgerAfter
<1>6. CASE pc'[p] = "createSet" /\ db'[p] = c
  <2>1. Constructing(c)'
    BY <1>6 DEF Constructing
  <2>2. ledgers'[c] = L!Reserved
    BY <1>1, <1>4, <2>1, LedgerBefore, LedgerAfter
  <2>3. L!Reserve(c)
    BY <1>1, <1>5, <2>2, Becomes DEF L!Reserve
  <2> QED BY <1>1, <2>3 DEF L!Next
<1>7. CASE pc'[p] = "idle"
  <2>1. ~Constructing(c)'
    BY <1>2, <1>3, <1>7 DEF Constructing, OthersStand
  <2>2. ledgers'[c] = L!Orphan
    BY <1>1, <1>4, <2>1, LedgerBefore, LedgerAfter
  <2>3. L!Abandon(c)
    BY <1>1, <1>5, <2>2, Becomes DEF L!Abandon
  <2> QED BY <1>1, <2>3 DEF L!Next
<1> QED
  BY <1>6, <1>7

\* DestroyDB gets as far as it gets, and never reaches a database under
\* construction, which is locked.
LEMMA Going ==
    ASSUME Inv, NEW p \in Procs, NEW c \in Paths, c = req[p].path,
           Step(p) \/ Crash(p),
           pc[p] = "remove", pc'[p] = "idle", ~Locked(c),
           \E left \in HalfRemoved(c) \cup {Absent} :
                disk' = [disk EXCEPT ![c] = left]
    PROVE  L!Next \/ Unnoticed
<1>1. \A x \in Paths \ {c} : ledgers'[x] = ledgers[x]
  BY OneAtATime
<1>2. disk'[c] \in HalfRemoved(c) \cup {Absent}
  BY <1>1 DEF Inv, TypeOK
<1>3. CASE disk'[c] = disk[c]
  BY <1>3, QuietStep
<1>4. CASE disk'[c] # disk[c]
  <2>1. disk[c].state # "absent"
    <3>1. disk[c].state = "absent" => disk[c] = Absent
      BY <1>1 DEF Inv, TypeOK, IsPresent, Absent
    <3> QED BY <1>2, <1>4, <3>1 DEF HalfRemoved
  <2>2. disk'[c] \in {Damaged, Absent}
    BY <1>2, <1>4 DEF HalfRemoved
  <2>3. ledgers'[c] \in {L!Nothing, L!Broken}
    <3>1. disk'[c].state \in {"damaged", "absent"}
      BY <2>2 DEF Damaged, Absent
    <3> QED BY <3>1, LedgerAfter
  <2>4. ~Constructing(c)
    BY DEF Locked, Constructing
  <2>5. disk[c].state \in {"damaged", "present"}
    BY <1>1, <2>1 DEF Inv, TypeOK
  <2>6. ASSUME ledgers[c] \in {L!Broken, L!Orphan, L!Foreign}
        PROVE  ledgers[c].state \notin {"absent", "reserved"}
    BY <2>6 DEF L!Broken, L!Orphan, L!Foreign
  <2>7. ledgers[c].state \notin {"absent", "reserved"}
    <3>1. CASE disk[c].state = "damaged"
      BY <2>6, <3>1, LedgerBefore
    <3>2. CASE disk[c].state = "present" /\ ~hasHeader(disk[c].kv)
      BY <2>4, <2>6, <3>2, LedgerBefore
    <3>3. CASE disk[c].state = "present" /\ hasHeader(disk[c].kv)
                /\ ~hasSupportedHeader(disk[c].kv)
      BY <2>6, <3>3, LedgerBefore
    <3>4. CASE disk[c].state = "present" /\ hasSupportedHeader(disk[c].kv)
      <4>1. PICK payload, key, entries : ledgers[c] = L!Live(payload, key, entries)
        BY <3>4, LedgerBefore
      <4> QED BY <4>1 DEF L!Live
    <3> QED BY <2>5, <3>1, <3>2, <3>3, <3>4
  <2>8. L!Remove(c)
    BY <1>1, <2>3, <2>7, Becomes DEF L!Remove
  <2> QED BY <1>1, <2>8 DEF L!Next
<1> QED
  BY <1>3, <1>4

-----------------------------------------------------------------------------
(***************************************************************************)
(* The steps of a call, one after the other.                                *)
(***************************************************************************)

\* The steps of calls.
LEMMA StepIsLedger ==
    ASSUME Inv, Carried, NEW p \in Procs, Step(p)
    PROVE  L!Next \/ Unnoticed
<1>1. PICK c \in Paths : c = req[p].path
  BY OneAtATime
<1>2. pc[p] # "idle" /\ OthersStand(p)
  BY StepCarries
<1>3. ASSUME NEW ok, NEW value, Return(p, ok, value)
      PROVE  pc'[p] = "idle"
  BY <1>3 DEF Return, Inv, TypeOK
<1>4. CASE CreateOpen(p)
  <2>1. /\ disk[c].state = "absent" /\ disk' = [disk EXCEPT ![c] = Present(NoKeys)]
        /\ pc'[p] = "createSet" /\ db'[p] = c
    BY <1>1, <1>4 DEF CreateOpen, CreateDB, Inv, TypeOK
  <2> QED BY <1>1, <2>1, Coming
<1>5. CASE CreateRefused(p)
  <2>1. pc[p] = "create" /\ pc'[p] = "idle"
    BY <1>3, <1>5 DEF CreateRefused, Fail
  <2>2. \/ UNCHANGED disk
        \/ disk[c].state = "absent" /\ disk' = [disk EXCEPT ![c] = Present(NoKeys)]
    BY <1>1, <1>5 DEF CreateRefused, CreateDBFails
  <2> QED BY <1>1, <2>1, <2>2, Coming, QuietStep
<1>6. CASE CreateSet(p)
  <2>1. pc[p] = "createSet" /\ pc'[p] = "idle"
    BY <1>3, <1>6 DEF CreateSet, Fail
  <2>2. UNCHANGED disk \/ SetKeys(p, createBatch(hdr[p]))
    BY <1>6 DEF CreateSet, SetKeysFails
  <2> QED BY <1>1, <2>1, <2>2, Founding, GivingUp
<1>7. CASE AppendBlock(p)
  <2>1. pc[p] = "append" /\ pc'[p] = "idle"
    BY <1>3, <1>7 DEF AppendBlock, InSession, Fail
  <2>2. UNCHANGED disk \/ WritesBlock(p)
    BY <1>7 DEF AppendBlock, InSession, SetKeysFails, WritesBlock
  <2> QED BY <1>1, <2>1, <2>2, Appending, QuietStep
<1>8. CASE RemoveChain(p)
  <2>1. pc[p] = "remove" /\ pc'[p] = "idle"
    BY <1>3, <1>8 DEF RemoveChain, Fail
  <2>2. \/ UNCHANGED disk
        \/ /\ ~Locked(c)
           /\ \E left \in HalfRemoved(c) \cup {Absent} : disk' = [disk EXCEPT ![c] = left]
    BY <1>1, <1>8 DEF RemoveChain, DestroyDB, DestroyDBFails
  <2> QED BY <1>1, <2>1, <2>2, Going, QuietStep
<1>9. CASE \/ OpenStore(p) \/ OpenRefused(p) \/ ReadHeader(p) \/ ReadLast(p)
           \/ ReadBlock(p) \/ ReadBlocks(p)
  <2>1. pc[p] # "createSet" /\ UNCHANGED disk
    BY <1>9 DEF OpenStore, OpenDB, OpenRefused, OpenDBFails, ReadHeader, ReadLast,
                ReadBlock, ReadBlocks, InSession, Sessions
  <2>2. pc'[p] # "createSet"
    <3>1. ASSUME NEW next, NEW header, NEW block, EndSession(p, next, header, block)
          PROVE  pc'[p] = next
      BY <3>1 DEF EndSession, Inv, TypeOK
    <3>2. CASE OpenStore(p)
      BY <2>1, <3>2 DEF OpenStore, localVars
    <3>3. CASE OpenRefused(p) \/ ReadBlock(p) \/ ReadBlocks(p)
      <4>1. \E ok, value : Return(p, ok, value)
        BY <3>3 DEF OpenRefused, ReadBlock, ReadBlocks, Fail
      <4> QED BY <1>3, <4>1
    <3>4. ASSUME NEW header, NEW prevHash, BuildBlock(p, header, prevHash)
          PROVE  pc'[p] # "createSet"
      BY <1>3, <3>1, <3>4 DEF BuildBlock, Fail
    <3>5. CASE ReadHeader(p)
      <4>1. pc[p] = "header" /\ req[p].op \in {"add", "verify", "header", "info"}
        BY <3>5 DEF ReadHeader, InSession, Inv, TypeOK, CallsAt
      <4>2. CASE Fail(p)
        BY <1>3, <4>2 DEF Fail
      <4>3. CASE ~Fail(p)
        BY <1>3, <3>1, <3>4, <3>5, <4>1, <4>3 DEF ReadHeader
      <4> QED BY <4>2, <4>3
    <3>6. CASE ReadLast(p)
      <4>1. \/ \E header, prevHash : BuildBlock(p, header, prevHash)
            \/ \E ok, value : Return(p, ok, value)
        BY <3>6 DEF ReadLast, Fail
      <4> QED BY <1>3, <3>4, <4>1
    <3> QED BY <1>9, <3>2, <3>3, <3>5, <3>6
  <2> QED BY <1>1, <2>1, <2>2, QuietStep
<1> QED
  BY <1>4, <1>5, <1>6, <1>7, <1>8, <1>9 DEF Step

\* A call that dies leaves what one of its steps would have left.
LEMMA CrashIsLedger ==
    ASSUME Inv, Carried, NEW p \in Procs, Crash(p)
    PROVE  L!Next \/ Unnoticed
<1>1. PICK c \in Paths : c = req[p].path
  BY OneAtATime
<1>2. pc'[p] = "idle" /\ CrashedDisk(p)
  BY DEF Crash, Inv, TypeOK
<1>3. CASE UNCHANGED disk
  <2>1. CASE pc[p] = "createSet"
    BY <1>1, <1>2, <1>3, <2>1, GivingUp
  <2>2. CASE pc[p] # "createSet"
    BY <1>1, <1>2, <1>3, <2>2, QuietStep
  <2> QED BY <2>1, <2>2
<1>4. CASE disk[c].state = "absent" /\ disk' = [disk EXCEPT ![c] = Present(NoKeys)]
  BY <1>1, <1>2, <1>4, Coming
<1>5. CASE pc[p] = "createSet" /\ SetKeys(p, createBatch(hdr[p]))
  BY <1>1, <1>5, Founding
<1>6. CASE WritesBlock(p)
  BY <1>1, <1>6, Appending
<1>7. CASE /\ pc[p] = "remove" /\ ~Locked(c)
           /\ \E left \in HalfRemoved(c) : disk' = [disk EXCEPT ![c] = left]
  <2>1. \E left \in HalfRemoved(c) \cup {Absent} : disk' = [disk EXCEPT ![c] = left]
    BY <1>7
  <2> QED BY <1>1, <1>2, <1>7, <2>1, Going
<1> QED
  BY <1>1, <1>2, <1>3, <1>4, <1>5, <1>6, <1>7 DEF CrashedDisk, InSession, WritesBlock

\* Nobody notices that a call begins.
LEMMA StartIsUnnoticed ==
    ASSUME Inv, NEW p \in Procs, NEW r \in Requests, Start(p, r)
    PROVE  Unnoticed
<1>1. entry[r.op] # "createSet"
  BY ManagerAssumption DEF Requests, entry
<1>2. disk' = disk /\ db' = db /\ pc[p] = "idle"
      /\ pc' = [pc EXCEPT ![p] = entry[r.op]]
  BY DEF Start, storageVars
<1>3. ASSUME NEW c \in Paths PROVE Constructing(c)' = Constructing(c)
  <2>1. Constructing(c)' <=> Constructing(c)
    BY <1>1, <1>2 DEF Constructing, Inv, TypeOK
  <2> QED BY <2>1 DEF Constructing
<1> QED
  BY <1>2, <1>3 DEF Unnoticed, ledgers

LEMMA NextIsLedger ==
    ASSUME Inv, Carried, [Next]_vars
    PROVE  L!Next \/ Unnoticed
<1>1. CASE UNCHANGED vars
  BY <1>1 DEF vars, storageVars, localVars, Unnoticed, ledgers, Constructing
<1>2. CASE Next
  BY <1>2, StepIsLedger, CrashIsLedger, StartIsUnnoticed DEF Next
<1> QED
  BY <1>1, <1>2

LEMMA InitIsLedger == Init => L!Init
<1> SUFFICES ASSUME Init PROVE L!Init
  OBVIOUS
<1>1. ASSUME NEW c \in Paths PROVE ledgers[c] \in {L!Nothing, L!Foreign}
  <2>1. CASE disk[c] = Absent
    <3>1. disk[c].state = "absent"
      BY <2>1 DEF Absent
    <3> QED BY <3>1, LedgerBefore
  <2>2. ASSUME NEW kv \in LegacyStores, disk[c] = Present(kv)
        PROVE  ledgers[c] = L!Foreign
    <3>1. disk[c].state = "present" /\ disk[c].kv = kv
      BY <2>2 DEF Present
    <3>2. hasHeader(kv) /\ ~hasSupportedHeader(kv)
      BY LegacyIsForeign, LegacyStoresComplete
    <3> QED BY <3>1, <3>2, LedgerBefore
  <2> QED BY <2>1, <2>2 DEF Init
<1>2. ledgers = [c \in Paths |-> ledgers[c]]
  BY DEF ledgers
<1> HIDE DEF ledgers
<1> QED
  BY <1>1, <1>2 DEF L!Init

\* The storage directory implements Ledger: whatever the servers that share it
\* do and wherever a call fails or a process dies, a chain comes into existence
\* empty, grows by one entry at its end, keeps its founding data and its key,
\* and goes as a whole.
THEOREM DirectoryIsLedger == Spec => LedgerSpec
<1>1. Init => L!Init
  BY InitIsLedger
<1>2. Inv /\ Carried /\ [Next]_vars => [L!Next]_ledgers
  BY NextIsLedger DEF Unnoticed
<1> QED
  BY <1>1, <1>2, InvHolds, CarriedHolds, PTL DEF Spec, LedgerSpec, L!Spec

=============================================================================
