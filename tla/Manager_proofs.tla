--------------------------- MODULE Manager_proofs ---------------------------
(***************************************************************************)
(* Theorems about Manager, for every number of servers, chains, payloads    *)
(* and keys, every bound and every set of faults.                           *)
(***************************************************************************)
EXTENDS ManagerProperties, FiniteSetTheorems, TLAPS

\* Different keys of a database are different: the header's from every
\* block's, and the blocks' from each other.
LEMMA KeysDiffer ==
    ASSUME NEW i, NEW j
    PROVE  /\ makeBlockName(i) # DB_HEADER_KEY
           /\ makeBlockName(i) = makeBlockName(j) => i = j
BY DEF makeBlockName, DB_HEADER_KEY

\* What createBatch makes of an empty database.
LEMMA CreateBatchCompletes ==
    ASSUME NEW header \in Headers, header.index = 0
    PROVE  LET new == Put(NoKeys, createBatch(header)) IN
           /\ hasHeader(new)
           /\ getHeader(new) = header
           /\ Complete(new)
<1> DEFINE new == Put(NoKeys, createBatch(header))
<1>1. DOMAIN NoKeys = {} BY DEF NoKeys
<1>2. DOMAIN createBatch(header) = {DB_HEADER_KEY} BY DEF createBatch
<1>3. new = [key \in {DB_HEADER_KEY} |-> packHeader(header)]
  BY <1>1, <1>2 DEF Put, createBatch
<1>4. new[DB_HEADER_KEY] = packHeader(header) /\ DOMAIN new = {DB_HEADER_KEY}
  BY <1>3
<1>5. hasHeader(new) /\ getHeader(new) = header
  BY <1>4 DEF hasHeader, getHeader, unpack, packHeader
<1>6. 1..getHeader(new).index = {}
  BY <1>5
<1> QED
  BY <1>4, <1>5, <1>6 DEF Complete

\* What addBlockBatch makes of a chain: one block more, everything else as it
\* was.
LEMMA AddBlockBatchAppends ==
    ASSUME NEW kv, Complete(kv), hasHeader(kv), NEW block
    PROVE  LET new == Put(kv, addBlockBatch(kv, block))
               n == getHeader(kv).index
           IN
           /\ n \in Nat
           /\ hasHeader(new)
           /\ getHeader(new) = [getHeader(kv) EXCEPT !.index = n + 1]
           /\ getBlock(new, n + 1) = block
           /\ \A key \in DOMAIN kv \ {DB_HEADER_KEY} :
                key \in DOMAIN new /\ new[key] = kv[key]
           /\ \A i \in 1..n : getBlock(new, i) = getBlock(kv, i)
           /\ Complete(new)
<1> DEFINE new == Put(kv, addBlockBatch(kv, block))
           n == getHeader(kv).index
           header == [getHeader(kv) EXCEPT !.index = n + 1]
           batch == addBlockBatch(kv, block)
<1>1. /\ getHeader(kv) \in Headers
      /\ DOMAIN kv = {DB_HEADER_KEY} \cup {makeBlockName(i) : i \in 1..n}
      /\ \A i \in 1..n : hasBlock(kv, i)
  <2>1. kv # NoKeys
    BY DEF hasHeader, NoKeys
  <2> QED BY <2>1 DEF Complete
<1>2. n \in Nat /\ header \in Headers /\ header.index = n + 1
  BY <1>1 DEF Headers
<1>3. batch = [key \in {DB_HEADER_KEY, makeBlockName(n + 1)} |->
                IF key = DB_HEADER_KEY THEN packHeader(header) ELSE packBlock(block)]
  BY <1>2 DEF addBlockBatch
<1>4. DOMAIN batch = {DB_HEADER_KEY, makeBlockName(n + 1)}
  BY <1>3
<1>5. new = [key \in (DOMAIN kv) \cup {DB_HEADER_KEY, makeBlockName(n + 1)} |->
                IF key \in {DB_HEADER_KEY, makeBlockName(n + 1)}
                THEN batch[key] ELSE kv[key]]
  BY <1>4 DEF Put
<1>6. DOMAIN new = {DB_HEADER_KEY} \cup {makeBlockName(i) : i \in 1..(n + 1)}
  <2>1. 1..(n + 1) = (1..n) \cup {n + 1} BY <1>2
  <2> QED BY <1>1, <1>5, <2>1
<1>7. new[DB_HEADER_KEY] = packHeader(header)
  BY <1>3, <1>5, <1>6
<1>8. new[makeBlockName(n + 1)] = packBlock(block)
  BY <1>3, <1>5, <1>6, KeysDiffer
<1>9. \A i \in 1..n : makeBlockName(i) \notin {DB_HEADER_KEY, makeBlockName(n + 1)}
  BY <1>2, KeysDiffer
<1>10. \A i \in 1..n : new[makeBlockName(i)] = kv[makeBlockName(i)]
  BY <1>1, <1>5, <1>9
<1>11. hasHeader(new) /\ getHeader(new) = header
  BY <1>6, <1>7 DEF hasHeader, getHeader, unpack, packHeader
<1>12. getBlock(new, n + 1) = block /\ hasBlock(new, n + 1)
  <2>1. n + 1 \in 1..(n + 1) BY <1>2
  <2> QED BY <1>6, <1>8, <2>1 DEF getBlock, hasBlock, unpack, packBlock
<1>13. \A i \in 1..n : getBlock(new, i) = getBlock(kv, i) /\ hasBlock(new, i)
  <2>1. \A i \in 1..n : i \in 1..(n + 1) BY <1>2
  <2> QED BY <1>1, <1>6, <1>10, <2>1 DEF getBlock, hasBlock
<1>14. Complete(new)
  <2>1. \A i \in 1..(n + 1) : i \in 1..n \/ i = n + 1 BY <1>2
  <2>2. \A i \in 1..(n + 1) : hasBlock(new, i) BY <1>12, <1>13, <2>1
  <2> QED BY <1>2, <1>6, <1>11, <2>2 DEF Complete
<1>15. \A key \in DOMAIN kv \ {DB_HEADER_KEY} :
            key \in DOMAIN new /\ new[key] = kv[key]
  <2>1. \A i \in 1..n : i \in 1..(n + 1) BY <1>2
  <2> QED BY <1>1, <1>6, <1>10, <2>1
<1> QED
  BY <1>2, <1>11, <1>12, <1>13, <1>14, <1>15

\* The payloads of a chain, in order.
EntriesOf(kv) == [i \in 1..getHeader(kv).index |-> getBlock(kv, i).data]

\* addBlockBatch appends to them.
LEMMA AddBlockBatchEntries ==
    ASSUME NEW kv, Complete(kv), hasHeader(kv), NEW block
    PROVE  EntriesOf(Put(kv, addBlockBatch(kv, block))) = Append(EntriesOf(kv), block.data)
<1> DEFINE new == Put(kv, addBlockBatch(kv, block))
           n == getHeader(kv).index
           entries == EntriesOf(kv)
<1>1. /\ n \in Nat
      /\ getHeader(new) = [getHeader(kv) EXCEPT !.index = n + 1]
      /\ getBlock(new, n + 1) = block
      /\ \A i \in 1..n : getBlock(new, i) = getBlock(kv, i)
  BY AddBlockBatchAppends
<1>2. getHeader(kv) \in Headers
  <2>1. kv # NoKeys
    BY DEF hasHeader, NoKeys
  <2> QED BY <2>1 DEF Complete
<1> HIDE DEF new
<1>3. getHeader(new).index = n + 1
  BY <1>1, <1>2 DEF Headers
<1>4. entries = [i \in 1..n |-> getBlock(kv, i).data] /\ Len(entries) = n
      /\ DOMAIN entries = 1..n
  BY <1>1 DEF EntriesOf
<1>5. \A i \in 1..n : entries[i] = getBlock(kv, i).data
  BY DEF EntriesOf
<1> HIDE DEF entries, n
<1>6. Append(entries, block.data) =
        [i \in 1..(n + 1) |-> IF i \in 1..n THEN entries[i] ELSE block.data]
  BY <1>1, <1>4
<1>7. \A i \in 1..(n + 1) :
        getBlock(new, i).data = IF i \in 1..n THEN entries[i] ELSE block.data
  BY <1>1, <1>5
<1>8. EntriesOf(new) = Append(entries, block.data)
  BY <1>3, <1>6, <1>7 DEF EntriesOf
<1> QED
  BY <1>8 DEF new, entries

\* A chain has a key for its header and one for each of its blocks.
LEMMA CompleteCounts ==
    ASSUME NEW kv, Complete(kv), hasHeader(kv)
    PROVE  /\ getHeader(kv).index \in Nat
           /\ Cardinality(DOMAIN kv) = getHeader(kv).index + 1
<1> DEFINE n == getHeader(kv).index
           f == [i \in 1..(n + 1) |-> IF i = n + 1 THEN DB_HEADER_KEY ELSE makeBlockName(i)]
<1>1. kv # NoKeys
  BY DEF hasHeader, NoKeys
<1>2. n \in Nat /\ DOMAIN kv = {DB_HEADER_KEY} \cup {makeBlockName(i) : i \in 1..n}
  BY <1>1 DEF Complete, Headers
<1> HIDE DEF n
<1>3. \A i \in 1..(n + 1) : i \in 1..n \/ i = n + 1
  BY <1>2
<1>4. f \in [1..(n + 1) -> DOMAIN kv]
  BY <1>2, <1>3
<1>5. \A i, j \in 1..(n + 1) : f[i] = f[j] => i = j
  BY <1>3, KeysDiffer
<1>6. \A key \in DOMAIN kv : \E i \in 1..(n + 1) : f[i] = key
  <2>1. ASSUME NEW i \in 1..n PROVE i \in 1..(n + 1) /\ f[i] = makeBlockName(i)
    BY <1>2
  <2>2. n + 1 \in 1..(n + 1) /\ f[n + 1] = DB_HEADER_KEY
    BY <1>2
  <2> HIDE DEF f
  <2> QED BY <1>2, <2>1, <2>2
<1> HIDE DEF f
<1>7. f \in Bijection(1..(n + 1), DOMAIN kv)
  BY <1>4, <1>5, <1>6 DEF Bijection, Injection, Surjection, IsInjective
<1>8. ExistsBijection(1..(n + 1), DOMAIN kv)
  BY <1>7, Zenon DEF ExistsBijection
<1>9. n + 1 \in Nat
  BY <1>2
<1>10. Cardinality(DOMAIN kv) = n + 1
  BY <1>8, <1>9, FS_CountingElements, Zenon
<1> QED
  BY <1>2, <1>10 DEF n

\* The chains of the other build are complete.
LEMMA LegacyStoresComplete ==
    ASSUME NEW kv \in LegacyStores
    PROVE  Complete(kv) /\ hasHeader(kv)
<1> DEFINE old(d, k) == legacyHeader(d, k)
           first(d, k, n) == makeBlock(old(d, k), headerHash(old(d, k)), n, d)
<1>1. ASSUME NEW d \in Data, NEW k \in PrivateKeys
      PROVE  /\ createBatch(old(d, k)) = Put(NoKeys, createBatch(old(d, k)))
             /\ old(d, k) \in Headers /\ old(d, k).index = 0
  <2>1. old(d, k) \in Headers /\ old(d, k).index = 0
    BY VersionAssumption, ManagerAssumption DEF legacyHeader, newHeader, Headers
  <2> QED BY <2>1 DEF createBatch, Put, NoKeys
<1>2. ASSUME NEW d \in Data, NEW k \in PrivateKeys, NEW n \in Nonces
      PROVE  addBlockBatch(createBatch(old(d, k)), first(d, k, n)) =
                Put(createBatch(old(d, k)),
                    addBlockBatch(createBatch(old(d, k)), first(d, k, n)))
  BY DEF addBlockBatch, createBatch, Put
<1>3. CASE \E d \in Data, k \in PrivateKeys : kv = createBatch(old(d, k))
  BY <1>1, <1>3, CreateBatchCompletes
<1>4. CASE \E d \in Data, k \in PrivateKeys, n \in Nonces :
            kv = addBlockBatch(createBatch(old(d, k)), first(d, k, n))
  <2>1. PICK d \in Data, k \in PrivateKeys, n \in Nonces :
            kv = addBlockBatch(createBatch(old(d, k)), first(d, k, n))
    BY <1>4
  <2>2. Complete(createBatch(old(d, k))) /\ hasHeader(createBatch(old(d, k)))
    BY <1>1, CreateBatchCompletes
  <2> QED BY <1>2, <2>1, <2>2, AddBlockBatchAppends
<1> QED
  BY <1>3, <1>4 DEF LegacyStores

\* This build does not work on the chains of another, whatever they hold.
LEMMA LegacyIsForeign ==
    ASSUME NEW kv \in LegacyStores
    PROVE  ~hasSupportedHeader(kv)
<1> DEFINE old(d, k) == legacyHeader(d, k)
           first(d, k, n) == makeBlock(old(d, k), headerHash(old(d, k)), n, d)
<1>1. ASSUME NEW d \in Data, NEW k \in PrivateKeys
      PROVE  getHeader(createBatch(old(d, k))).version = OTHER_VERSION
  BY DEF legacyHeader, newHeader, createBatch, getHeader, unpack, packHeader
<1>2. ASSUME NEW d \in Data, NEW k \in PrivateKeys, NEW n \in Nonces
      PROVE  getHeader(addBlockBatch(createBatch(old(d, k)), first(d, k, n))).version
                = OTHER_VERSION
  <2> DEFINE header == getHeader(createBatch(old(d, k)))
             batch == addBlockBatch(createBatch(old(d, k)), first(d, k, n))
  <2>1. batch[DB_HEADER_KEY] = packHeader([header EXCEPT !.index = @ + 1])
    BY DEF addBlockBatch
  <2>2. header = old(d, k)
    BY DEF createBatch, getHeader, unpack, packHeader
  <2>3. [old(d, k) EXCEPT !.index = @ + 1].version = OTHER_VERSION
    BY DEF legacyHeader, newHeader
  <2>4. getHeader(batch) = [header EXCEPT !.index = @ + 1]
    BY <2>1 DEF getHeader, unpack, packHeader
  <2> HIDE DEF header, batch
  <2>5. getHeader(batch).version = OTHER_VERSION
    BY <2>2, <2>3, <2>4
  <2> QED BY <2>5 DEF batch
<1> QED
  BY <1>1, <1>2, ManagerAssumption DEF LegacyStores, hasSupportedHeader

-----------------------------------------------------------------------------
(***************************************************************************)
(* The inductive invariant.  TypeOK and Contiguous need each other (the     *)
(* header a call reads is a header because the database is complete) and    *)
(* the sessions: whoever has a database open has it alone, it exists, and   *)
(* a database being created is still empty.                                 *)
(***************************************************************************)
SessionsOK ==
    \A p \in Procs :
        /\ db[p] # NoPath =>
            /\ pc[p] \in Sessions \cup {"createSet"}
            /\ db[p] = req[p].path
            /\ IsPresent(db[p])
            /\ \A q \in Procs : db[q] = db[p] => q = p
        /\ pc[p] = "createSet" =>
            /\ db[p] # NoPath
            /\ disk[db[p]].kv = NoKeys
            /\ hdr[p] \in Headers /\ hdr[p].index = 0
        /\ pc[p] = "last" => hdr[p] \in Headers

Inv == TypeOK /\ Contiguous /\ SessionsOK

\* A directory as TypeOK and Contiguous want it.
GoodDirectory(d) ==
    /\ d = [state |-> d.state, kv |-> d.kv]
    /\ d.state \in {"absent", "damaged", "present"}
    /\ d.state # "present" => d.kv = NoKeys
    /\ Complete(d.kv)

\* p changes no directory another process has open, and leaves good ones.
SafeDisk(p) ==
    /\ DOMAIN disk' = Paths
    /\ \A c \in Paths :
        \/ disk'[c] = disk[c]
        \/ GoodDirectory(disk'[c]) /\ \A q \in Procs \ {p} : db[q] # c

\* p's call is over.
Finished(p) ==
    /\ db' = [db EXCEPT ![p] = NoPath]
    /\ pc' = [pc EXCEPT ![p] = "idle"]
    /\ req' = [req EXCEPT ![p] = None]
    /\ hdr' = [hdr EXCEPT ![p] = None]
    /\ blk' = [blk EXCEPT ![p] = None]
    /\ DOMAIN res' = Procs

\* The directories of Absent, Damaged and Present.
LEMMA Directories ==
    ASSUME NEW kv, Complete(kv)
    PROVE  /\ GoodDirectory(Absent)
           /\ GoodDirectory(Damaged)
           /\ GoodDirectory(Present(kv))
           /\ GoodDirectory(Present(NoKeys))
BY DEF GoodDirectory, Absent, Damaged, Present, Complete

\* The disk part of the invariant survives a safe step.
LEMMA SafeDiskKeeps ==
    ASSUME Inv, NEW p \in Procs, SafeDisk(p)
    PROVE  /\ DOMAIN disk' = Paths
           /\ \A c \in Paths : GoodDirectory(disk'[c])
           /\ \A q \in Procs \ {p} : db[q] # NoPath => disk'[db[q]] = disk[db[q]]
<1>1. \A c \in Paths : GoodDirectory(disk[c])
  BY DEF Inv, TypeOK, Contiguous, GoodDirectory, IsPresent
<1>2. \A q \in Procs : db[q] # NoPath => db[q] \in Paths
  BY DEF Inv, TypeOK
<1> QED
  BY <1>1, <1>2 DEF SafeDisk

\* A step that ends p's call keeps the invariant if it is safe on disk.
LEMMA FinishedKeepsInv ==
    ASSUME Inv, NEW p \in Procs, SafeDisk(p), Finished(p)
    PROVE  Inv'
<1>1. /\ DOMAIN disk' = Paths
      /\ \A c \in Paths : GoodDirectory(disk'[c])
      /\ \A q \in Procs \ {p} : db[q] # NoPath => disk'[db[q]] = disk[db[q]]
  BY SafeDiskKeeps
<1>2. TypeOK'
  BY <1>1 DEF Inv, TypeOK, GoodDirectory, Finished, IsPresent, CallsAt
<1>3. Contiguous'
  BY <1>1 DEF Contiguous, GoodDirectory
<1>4. SessionsOK'
  <2> SUFFICES ASSUME NEW q \in Procs
               PROVE  SessionsOK!(q)'
    BY DEF SessionsOK
  <2>1. CASE q = p
    BY <2>1 DEF Inv, TypeOK, Finished
  <2>2. CASE q # p
    <3>1. db'[q] = db[q] /\ pc'[q] = pc[q] /\ req'[q] = req[q] /\ hdr'[q] = hdr[q]
      BY <2>2 DEF Inv, TypeOK, Finished
    <3>2. SessionsOK!(q)
      BY DEF Inv, SessionsOK
    <3>3. db'[p] = NoPath /\ \A r \in Procs \ {p} : db'[r] = db[r]
      BY DEF Inv, TypeOK, Finished
    <3>4. db[q] # NoPath => disk'[db[q]] = disk[db[q]]
      BY <1>1, <2>2
    <3> QED BY <3>1, <3>2, <3>3, <3>4 DEF IsPresent
  <2> QED BY <2>1, <2>2
<1> QED
  BY <1>2, <1>3, <1>4 DEF Inv

\* Return and Crash end p's call.
LEMMA ReturnFinishes ==
    ASSUME Inv, NEW p \in Procs, NEW ok, NEW value, Return(p, ok, value)
    PROVE  Finished(p)
BY DEF Return, CloseDB, Finished, Inv, TypeOK

\* A step that ends a session of p, and leaves the disk alone, keeps the
\* invariant if the call goes on at one of its program points.
LEMMA EndSessionKeepsInv ==
    ASSUME Inv, NEW p \in Procs, NEW next, NEW header \in Headers, NEW block,
           EndSession(p, next, header, block), UNCHANGED disk,
           pc[p] # "idle", next \in Sessions, req[p].op \in CallsAt[next]
    PROVE  Inv'
<1>1. next \in DOMAIN CallsAt /\ next # "idle" /\ next # "createSet"
  BY DEF Sessions, CallsAt
<1>2. TypeOK'
  BY <1>1 DEF Inv, TypeOK, EndSession, CloseDB, IsPresent
<1>3. Contiguous'
  BY DEF Inv, Contiguous
<1>4. SessionsOK'
  <2> SUFFICES ASSUME NEW q \in Procs
               PROVE  SessionsOK!(q)'
    BY DEF SessionsOK
  <2>1. db'[p] = NoPath /\ \A r \in Procs \ {p} : db'[r] = db[r]
    BY DEF Inv, TypeOK, EndSession, CloseDB
  <2>2. CASE q = p
    BY <1>1, <2>1, <2>2 DEF Inv, TypeOK, EndSession
  <2>3. CASE q # p
    <3>1. db'[q] = db[q] /\ pc'[q] = pc[q] /\ req'[q] = req[q] /\ hdr'[q] = hdr[q]
      BY <2>1, <2>3 DEF Inv, TypeOK, EndSession
    <3>2. SessionsOK!(q)
      BY DEF Inv, SessionsOK
    <3> QED BY <2>1, <3>1, <3>2 DEF IsPresent
  <2> QED BY <2>2, <2>3
<1> QED
  BY <1>2, <1>3, <1>4 DEF Inv

-----------------------------------------------------------------------------
\* What each operation on the storage does is safe.

LEMMA UnchangedSafe ==
    ASSUME Inv, NEW p \in Procs, UNCHANGED disk
    PROVE  SafeDisk(p)
BY DEF Inv, TypeOK, SafeDisk

\* A change of one directory nobody else has open.
LEMMA ReplaceSafe ==
    ASSUME Inv, NEW p \in Procs, NEW c \in Paths, NEW new, GoodDirectory(new),
           \A q \in Procs \ {p} : db[q] # c,
           disk' = [disk EXCEPT ![c] = new]
    PROVE  SafeDisk(p)
BY DEF Inv, TypeOK, SafeDisk

\* The holder of a database writes a batch to it.
LEMMA SetKeysSafe ==
    ASSUME Inv, NEW p \in Procs, db[p] # NoPath, NEW batch,
           Complete(Put(disk[db[p]].kv, batch)), SetKeys(p, batch)
    PROVE  SafeDisk(p) /\ disk' = [disk EXCEPT ![db[p]] = Present(Put(disk[db[p]].kv, batch))]
<1>1. db[p] \in Paths /\ IsPresent(db[p]) /\ \A q \in Procs \ {p} : db[q] # db[p]
  BY DEF Inv, TypeOK, SessionsOK
<1>2. disk' = [disk EXCEPT ![db[p]] = Present(Put(disk[db[p]].kv, batch))]
  BY DEF SetKeys
<1>3. GoodDirectory(Present(Put(disk[db[p]].kv, batch)))
  BY Directories
<1> QED
  BY <1>1, <1>2, <1>3, ReplaceSafe

\* DestroyDB, as far as it gets.
LEMMA DestroySafe ==
    ASSUME Inv, NEW p \in Procs, NEW c \in Paths,
           \/ DestroyDB(c)
           \/ DestroyDBFails(c)
           \/ /\ ~Locked(c)
              /\ \E left \in HalfRemoved(c) : disk' = [disk EXCEPT ![c] = left]
    PROVE  SafeDisk(p)
<1>1. CASE UNCHANGED disk
  BY <1>1, UnchangedSafe
<1>2. CASE /\ ~Locked(c)
           /\ \E left \in HalfRemoved(c) \cup {Absent} :
                disk' = [disk EXCEPT ![c] = left]
  <2>1. PICK left \in HalfRemoved(c) \cup {Absent} : disk' = [disk EXCEPT ![c] = left]
    BY <1>2
  <2>2. GoodDirectory(disk[c])
    BY DEF Inv, TypeOK, Contiguous, GoodDirectory, IsPresent
  <2>3. Complete(NoKeys)
    BY DEF Complete
  <2>4. GoodDirectory(left)
    BY <2>1, <2>2, <2>3, Directories DEF HalfRemoved
  <2>5. \A q \in Procs \ {p} : db[q] # c
    BY <1>2 DEF Locked
  <2> QED BY <2>1, <2>4, <2>5, ReplaceSafe
<1> QED
  BY <1>1, <1>2 DEF DestroyDB, DestroyDBFails

\* The database p reads is complete, and a header it finds there is a header.
LEMMA ReadsComplete ==
    ASSUME Inv, NEW p \in Procs, db[p] # NoPath
    PROVE  /\ db[p] \in Paths
           /\ Complete(Kv(p))
           /\ hasHeader(Kv(p)) => getHeader(Kv(p)) \in Headers
<1>1. db[p] \in Paths
  BY DEF Inv, TypeOK
<1>2. Complete(Kv(p))
  BY <1>1 DEF Inv, Contiguous, Kv
<1>3. hasHeader(Kv(p)) => Kv(p) # NoKeys
  BY DEF hasHeader, NoKeys
<1> QED
  BY <1>1, <1>2, <1>3 DEF Complete

\* addBlock's batch keeps a database complete.
LEMMA AppendSafe ==
    ASSUME Inv, NEW p \in Procs, db[p] # NoPath, hasSupportedHeader(Kv(p)),
           SetKeys(p, addBlockBatch(Kv(p), blk[p]))
    PROVE  SafeDisk(p)
<1>1. Complete(Put(Kv(p), addBlockBatch(Kv(p), blk[p])))
  BY ReadsComplete, AddBlockBatchAppends DEF hasSupportedHeader
<1> QED
  BY <1>1, SetKeysSafe DEF Kv

\* create's batch makes the empty database a chain.
LEMMA CreateSetSafe ==
    ASSUME Inv, NEW p \in Procs, pc[p] = "createSet",
           SetKeys(p, createBatch(hdr[p]))
    PROVE  SafeDisk(p)
<1>1. db[p] # NoPath /\ disk[db[p]].kv = NoKeys /\ hdr[p] \in Headers /\ hdr[p].index = 0
  BY DEF Inv, SessionsOK
<1>2. Complete(Put(disk[db[p]].kv, createBatch(hdr[p])))
  BY <1>1, CreateBatchCompletes
<1> QED
  BY <1>1, <1>2, SetKeysSafe

\* An empty database comes into existence.
LEMMA CreateSafe ==
    ASSUME Inv, NEW p \in Procs, NEW c \in Paths, disk[c].state = "absent",
           disk' = [disk EXCEPT ![c] = Present(NoKeys)]
    PROVE  SafeDisk(p)
<1>1. \A q \in Procs : db[q] # c
  BY NoPathAssumption DEF Inv, SessionsOK, IsPresent
<1>2. GoodDirectory(Present(NoKeys))
  BY Directories DEF Complete
<1> QED
  BY <1>1, <1>2, ReplaceSafe

-----------------------------------------------------------------------------
\* Every action keeps the invariant.

LEMMA StartKeepsInv ==
    ASSUME Inv, NEW p \in Procs, NEW r \in Requests, Start(p, r)
    PROVE  Inv'
<1>1. entry[r.op] \in DOMAIN CallsAt /\ r.op \in CallsAt[entry[r.op]]
      /\ entry[r.op] # "idle" /\ entry[r.op] # "createSet" /\ entry[r.op] # "last"
  BY DEF Requests, entry, CallsAt
<1>2. db[p] = NoPath
  BY DEF Inv, TypeOK, Start
<1>3. TypeOK'
  BY <1>1 DEF Inv, TypeOK, Start, storageVars, IsPresent
<1>4. Contiguous'
  BY DEF Inv, Contiguous, Start, storageVars
<1>5. SessionsOK'
  BY <1>1, <1>2 DEF Inv, TypeOK, SessionsOK, Start, storageVars, IsPresent
<1> QED
  BY <1>3, <1>4, <1>5 DEF Inv

LEMMA CreateOpenKeepsInv ==
    ASSUME Inv, NEW p \in Procs, CreateOpen(p)
    PROVE  Inv'
<1> DEFINE c == req[p].path
<1>1. /\ req[p] \in Requests /\ req[p].op = "create"
      /\ c \in Paths /\ req[p].data \in Data /\ db[p] = NoPath
  BY DEF Inv, TypeOK, CreateOpen, CallsAt, Requests, CreateDB
<1>2. PICK key \in PrivateKeys :
        hdr' = [hdr EXCEPT ![p] = newHeader(req[p].data, key, createPublicKey(key))]
  BY DEF CreateOpen
<1>3. /\ newHeader(req[p].data, key, createPublicKey(key)) \in Headers
      /\ newHeader(req[p].data, key, createPublicKey(key)).index = 0
  BY <1>1, VersionAssumption DEF newHeader, Headers
<1>4. /\ disk[c].state = "absent" /\ \A q \in Procs : db[q] # c
      /\ disk' = [disk EXCEPT ![c] = Present(NoKeys)]
      /\ db' = [db EXCEPT ![p] = c]
      /\ pc' = [pc EXCEPT ![p] = "createSet"]
      /\ UNCHANGED <<req, blk, res>>
  BY DEF CreateOpen, CreateDB, Locked
<1>5. SafeDisk(p)
  BY <1>1, <1>4, CreateSafe
<1>6. /\ DOMAIN disk' = Paths
      /\ \A x \in Paths : GoodDirectory(disk'[x])
      /\ \A q \in Procs \ {p} : db[q] # NoPath => disk'[db[q]] = disk[db[q]]
  BY <1>5, SafeDiskKeeps
<1>7. TypeOK'
  BY <1>1, <1>2, <1>3, <1>4, <1>6 DEF Inv, TypeOK, GoodDirectory, IsPresent, CallsAt
<1>8. Contiguous'
  BY <1>6 DEF Contiguous, GoodDirectory
<1>9. SessionsOK'
  <2> SUFFICES ASSUME NEW q \in Procs
               PROVE  SessionsOK!(q)'
    BY DEF SessionsOK
  <2>1. db'[p] = c /\ \A x \in Procs \ {p} : db'[x] = db[x] /\ db[x] # c
    BY <1>4 DEF Inv, TypeOK
  <2>2. CASE q = p
    <3>1. disk'[c] = Present(NoKeys)
      BY <1>1, <1>4 DEF Inv, TypeOK
    <3>2. pc'[p] = "createSet" /\ hdr'[p] \in Headers /\ hdr'[p].index = 0
          /\ req'[p] = req[p]
      BY <1>2, <1>3, <1>4 DEF Inv, TypeOK
    <3> QED BY <1>1, <2>1, <2>2, <3>1, <3>2, NoPathAssumption DEF IsPresent, Present
  <2>3. CASE q # p
    <3>1. db'[q] = db[q] /\ pc'[q] = pc[q] /\ req'[q] = req[q] /\ hdr'[q] = hdr[q]
      BY <1>2, <1>4, <2>3 DEF Inv, TypeOK
    <3>2. SessionsOK!(q)
      BY DEF Inv, SessionsOK
    <3>3. db[q] # NoPath => disk'[db[q]] = disk[db[q]]
      BY <1>6, <2>3
    <3> QED BY <2>1, <2>3, <3>1, <3>2, <3>3 DEF IsPresent
  <2> QED BY <2>2, <2>3
<1> QED
  BY <1>7, <1>8, <1>9 DEF Inv

LEMMA OpenStoreKeepsInv ==
    ASSUME Inv, NEW p \in Procs, OpenStore(p)
    PROVE  Inv'
<1> DEFINE c == req[p].path
<1>1. /\ pc[p] \in Sessions /\ pc[p] # "createSet" /\ pc[p] # "idle"
      /\ db[p] = NoPath /\ IsPresent(c) /\ \A q \in Procs : db[q] # c
      /\ db' = [db EXCEPT ![p] = c]
      /\ UNCHANGED <<disk, pc, req, hdr, blk, res>>
  BY DEF OpenStore, OpenDB, Sessions, Locked, localVars
<1>2. c \in Paths
  BY <1>1 DEF Inv, TypeOK, Requests
<1>3. db'[p] = c /\ \A q \in Procs \ {p} : db'[q] = db[q] /\ db[q] # c
  BY <1>1 DEF Inv, TypeOK
<1>4. TypeOK'
  BY <1>1, <1>2 DEF Inv, TypeOK, IsPresent
<1>5. Contiguous'
  BY <1>1 DEF Inv, Contiguous
<1>6. SessionsOK'
  BY <1>1, <1>3 DEF Inv, SessionsOK, IsPresent
<1> QED
  BY <1>4, <1>5, <1>6 DEF Inv

\* Once a session is open, only the program point decides what is next.
LEMMA ReadHeaderKeepsInv ==
    ASSUME Inv, NEW p \in Procs, ReadHeader(p)
    PROVE  Inv'
<1>1. pc[p] = "header" /\ db[p] # NoPath /\ UNCHANGED disk
  BY DEF ReadHeader, InSession
<1>2. SafeDisk(p)
  BY <1>1, UnchangedSafe
<1>3. ASSUME NEW ok, NEW value, Return(p, ok, value) PROVE Inv'
  BY <1>2, <1>3, ReturnFinishes, FinishedKeepsInv
<1>4. CASE Fail(p)
  BY <1>3, <1>4 DEF Fail
<1>5. CASE hasHeader(Kv(p)) /\ ~Fail(p)
  <2> DEFINE header == getHeader(Kv(p))
  <2>1. header \in Headers
    BY <1>1, <1>5, ReadsComplete
  <2>2. req[p].op \in {"add", "verify", "header", "info"}
    BY <1>1 DEF Inv, TypeOK, CallsAt
  <2>3. \/ \E nonce \in Nonces :
              /\ req[p].op = "add"
              /\ EndSession(p, "append", header,
                     makeBlock(header, headerHash(header), nonce, req[p].data))
        \/ req[p].op = "add" /\ EndSession(p, "last", header, None)
        \/ req[p].op = "verify" /\ EndSession(p, "blocks", header, None)
        \/ \E value : Return(p, TRUE, value)
    BY <1>5, <2>2 DEF ReadHeader, BuildBlock
  <2>4. /\ "append" \in Sessions /\ "last" \in Sessions /\ "blocks" \in Sessions
        /\ "add" \in CallsAt["append"] /\ "add" \in CallsAt["last"]
        /\ "verify" \in CallsAt["blocks"]
    BY DEF Sessions, CallsAt
  <2>5. pc[p] # "idle"
    BY <1>1
  <2> HIDE DEF header
  <2> QED BY <1>1, <1>3, <2>1, <2>3, <2>4, <2>5, EndSessionKeepsInv
<1> QED
  BY <1>4, <1>5 DEF ReadHeader

LEMMA ReadLastKeepsInv ==
    ASSUME Inv, NEW p \in Procs, ReadLast(p)
    PROVE  Inv'
<1>1. pc[p] = "last" /\ db[p] # NoPath /\ UNCHANGED disk
  BY DEF ReadLast, InSession
<1>2. CASE Fail(p)
  BY <1>1, <1>2, UnchangedSafe, ReturnFinishes, FinishedKeepsInv DEF Fail
<1>3. CASE \E block : EndSession(p, "append", hdr[p], block)
  <2>1. hdr[p] \in Headers
    BY <1>1 DEF Inv, SessionsOK
  <2>2. "append" \in Sessions /\ req[p].op \in CallsAt["append"] /\ pc[p] # "idle"
    BY <1>1 DEF Inv, TypeOK, Sessions, CallsAt
  <2> QED BY <1>1, <1>3, <2>1, <2>2, EndSessionKeepsInv
<1> QED
  BY <1>2, <1>3 DEF ReadLast, BuildBlock

\* The steps that end a call: safe on disk, and nothing left of the call.
LEMMA LastStepKeepsInv ==
    ASSUME Inv, NEW p \in Procs,
           \/ CreateRefused(p) \/ CreateSet(p) \/ OpenRefused(p)
           \/ AppendBlock(p) \/ ReadBlock(p) \/ ReadBlocks(p) \/ RemoveChain(p)
    PROVE  Inv'
<1>1. Finished(p)
  <2>1. \E ok, value : Return(p, ok, value)
    BY DEF CreateRefused, CreateSet, OpenRefused, OpenDBFails, AppendBlock, ReadBlock,
           ReadBlocks, RemoveChain, Fail
  <2> QED BY <2>1, ReturnFinishes
<1>2. pc[p] # "idle" => req[p].path \in Paths
  BY DEF Inv, TypeOK, Requests
<1>3. SafeDisk(p)
  <2>1. CASE CreateRefused(p)
    <3>1. UNCHANGED disk \/ (/\ disk[req[p].path].state = "absent"
                            /\ disk' = [disk EXCEPT ![req[p].path] = Present(NoKeys)])
      BY <2>1 DEF CreateRefused, CreateDBFails
    <3> QED BY <1>2, <2>1, <3>1, UnchangedSafe, CreateSafe DEF CreateRefused
  <2>2. CASE CreateSet(p)
    BY <2>2, UnchangedSafe, CreateSetSafe DEF CreateSet, SetKeysFails
  <2>3. CASE AppendBlock(p)
    BY <2>3, UnchangedSafe, AppendSafe DEF AppendBlock, SetKeysFails, InSession
  <2>4. CASE RemoveChain(p)
    BY <1>2, <2>4, DestroySafe DEF RemoveChain
  <2>5. CASE OpenRefused(p) \/ ReadBlock(p) \/ ReadBlocks(p)
    BY <2>5, UnchangedSafe DEF OpenRefused, OpenDBFails, ReadBlock, ReadBlocks
  <2> QED BY <2>1, <2>2, <2>3, <2>4, <2>5
<1> QED
  BY <1>1, <1>3, FinishedKeepsInv

LEMMA CrashKeepsInv ==
    ASSUME Inv, NEW p \in Procs, Crash(p)
    PROVE  Inv'
<1>1. Finished(p)
  BY DEF Crash, CloseDB, Finished, Inv, TypeOK
<1>2. pc[p] # "idle" /\ req[p].path \in Paths
  BY DEF Crash, Inv, TypeOK, Requests
<1>3. SafeDisk(p)
  <2>1. CrashedDisk(p)
    BY DEF Crash
  <2> QED
    BY <1>2, <2>1, UnchangedSafe, CreateSafe, CreateSetSafe, AppendSafe, DestroySafe
       DEF CrashedDisk, InSession
<1> QED
  BY <1>1, <1>3, FinishedKeepsInv

LEMMA InitInv == Init => Inv
<1> SUFFICES ASSUME Init PROVE Inv
  OBVIOUS
<1>1. \A c \in Paths : GoodDirectory(disk[c])
  <2> SUFFICES ASSUME NEW c \in Paths PROVE GoodDirectory(disk[c])
    OBVIOUS
  <2>1. disk[c] \in {Absent} \cup {Present(kv) : kv \in LegacyStores}
    BY DEF Init
  <2>2. Complete(NoKeys)
    BY DEF Complete
  <2> QED BY <2>1, <2>2, Directories, LegacyStoresComplete
<1>2. TypeOK
  BY <1>1 DEF Init, TypeOK, GoodDirectory, IsPresent, CallsAt
<1>3. Contiguous
  BY <1>1 DEF Contiguous, GoodDirectory
<1>4. SessionsOK
  BY DEF Init, SessionsOK
<1> QED
  BY <1>2, <1>3, <1>4 DEF Inv

LEMMA NextInv == Inv /\ [Next]_vars => Inv'
<1> SUFFICES ASSUME Inv, [Next]_vars PROVE Inv'
  OBVIOUS
<1>1. CASE UNCHANGED vars
  <2>1. UNCHANGED <<disk, db, pc, req, hdr, blk, res>>
    BY <1>1 DEF vars, storageVars, localVars
  <2> QED BY <2>1 DEF Inv, TypeOK, Contiguous, SessionsOK, IsPresent
<1>2. ASSUME NEW p \in Procs, NEW r \in Requests, Start(p, r) PROVE Inv'
  BY <1>2, StartKeepsInv
<1>3. ASSUME NEW p \in Procs, Step(p) PROVE Inv'
  BY <1>3, CreateOpenKeepsInv, OpenStoreKeepsInv, ReadHeaderKeepsInv,
     ReadLastKeepsInv, LastStepKeepsInv DEF Step
<1>4. ASSUME NEW p \in Procs, Crash(p) PROVE Inv'
  BY <1>4, CrashKeepsInv
<1> QED
  BY <1>1, <1>2, <1>3, <1>4 DEF Next

LEMMA InvHolds == Spec => []Inv
BY InitInv, NextInv, PTL DEF Spec

\* Type correctness, for every instance: in particular a server between two
\* calls holds no session, so that the destructor of Storage has released the
\* LOCK on every path through Manager and Chain.
THEOREM TypeCorrect == Spec => []TypeOK
<1>1. Inv => TypeOK
  BY DEF Inv
<1> QED
  BY <1>1, InvHolds, PTL

\* However many servers share a storage directory and whatever fails, a
\* database holds a header and exactly the blocks it counts, or nothing:
\* Chain::addBlock takes the index from the header it reads in the session it
\* writes in, and Storage::set writes header and block in one batch.
THEOREM StoresComplete == Spec => []Contiguous
<1>1. Inv => Contiguous
  BY DEF Inv
<1> QED
  BY <1>1, InvHolds, PTL

-----------------------------------------------------------------------------
(***************************************************************************)
(* What one step does to the disk and to the history of acknowledged        *)
(* blocks.                                                                  *)
(***************************************************************************)

\* c comes into existence, is made a chain, gets a block, or is removed as far
\* as DestroyDB gets.
Creates(c) == disk[c].state = "absent" /\ disk' = [disk EXCEPT ![c] = Present(NoKeys)]
WritesHeader(p) == pc[p] = "createSet" /\ SetKeys(p, createBatch(hdr[p]))
WritesBlock(p) ==
    /\ pc[p] = "append" /\ db[p] # NoPath /\ hasSupportedHeader(Kv(p))
    /\ SetKeys(p, addBlockBatch(Kv(p), blk[p]))
Removes(c) ==
    /\ \E p \in Procs : pc[p] = "remove" /\ req[p].path = c
    /\ \E left \in {disk[c], Damaged, Absent} : disk' = [disk EXCEPT ![c] = left]
    /\ ForgetIfTouched(c)

\* The steps that remember a block.
Acknowledges(p) ==
    /\ WritesBlock(p)
    /\ acked' = [acked EXCEPT ![db[p]] =
            @ \cup {[index |-> getHeader(Kv(p)).index + 1, block |-> blk[p]]}]

Effect ==
    \/ UNCHANGED <<disk, acked>>
    \/ \E c \in Paths : Creates(c) /\ UNCHANGED acked
    \/ \E p \in Procs : WritesHeader(p) /\ UNCHANGED acked
    \/ \E p \in Procs : WritesBlock(p) /\ UNCHANGED acked
    \/ \E p \in Procs : Acknowledges(p)
    \/ \E c \in Paths : Removes(c)

LEMMA StepEffect ==
    ASSUME Inv, [Next]_vars
    PROVE  Effect
<1>1. CASE UNCHANGED vars
  BY <1>1 DEF Effect, vars, storageVars, historyVars
<1>2. ASSUME NEW p \in Procs, NEW r \in Requests, Start(p, r) PROVE Effect
  BY <1>2 DEF Effect, Start, storageVars, historyVars
<1>3. ASSUME NEW p \in Procs, pc[p] # "idle" PROVE req[p].path \in Paths
  BY <1>3 DEF Inv, TypeOK, Requests
<1>4. ASSUME NEW p \in Procs, Step(p) PROVE Effect
  <2>1. CASE CreateOpen(p)
    BY <1>3, <2>1 DEF CreateOpen, CreateDB, Effect, Creates
  <2>2. CASE CreateRefused(p)
    BY <1>3, <2>2 DEF CreateRefused, CreateDBFails, Effect, Creates, historyVars
  <2>3. CASE CreateSet(p)
    BY <2>3 DEF CreateSet, SetKeysFails, Effect, WritesHeader, historyVars
  <2>4. CASE OpenStore(p)
    BY <2>4 DEF OpenStore, OpenDB, Effect, historyVars
  <2>5. CASE AppendBlock(p)
    BY <2>5 DEF AppendBlock, InSession, SetKeysFails, Effect, WritesBlock, Acknowledges
  <2>6. CASE OpenRefused(p) \/ ReadHeader(p) \/ ReadLast(p) \/ ReadBlock(p) \/ ReadBlocks(p)
    BY <2>6 DEF OpenRefused, OpenDBFails, ReadHeader, ReadLast, ReadBlock, ReadBlocks, Effect, historyVars
  <2>7. CASE RemoveChain(p)
    <3> DEFINE c == req[p].path
    <3>1. c \in Paths /\ ForgetIfTouched(c) /\ pc[p] = "remove"
      BY <1>3, <2>7 DEF RemoveChain
    <3>2. \/ UNCHANGED disk
          \/ \E left \in {disk[c], Damaged, Absent} : disk' = [disk EXCEPT ![c] = left]
      BY <2>7 DEF RemoveChain, DestroyDB, DestroyDBFails, HalfRemoved
    <3>3. CASE UNCHANGED disk
      BY <3>1, <3>3 DEF ForgetIfTouched, Effect
    <3> QED BY <3>1, <3>2, <3>3 DEF Effect, Removes
  <2> QED BY <1>4, <2>1, <2>2, <2>3, <2>4, <2>5, <2>6, <2>7 DEF Step
<1>5. ASSUME NEW p \in Procs, Crash(p) PROVE Effect
  <2> DEFINE c == req[p].path
  <2>1. /\ c \in Paths /\ CrashedDisk(p)
        /\ IF pc[p] = "remove" THEN ForgetIfTouched(c) ELSE UNCHANGED acked
    BY <1>3, <1>5 DEF Crash
  <2>2. CASE UNCHANGED disk
    BY <2>1, <2>2 DEF ForgetIfTouched, Effect
  <2>3. CASE pc[p] = "create" /\ ~UNCHANGED disk
    BY <2>1, <2>3 DEF CrashedDisk, InSession, Effect, Creates
  <2>4. CASE pc[p] = "createSet" /\ ~UNCHANGED disk
    BY <2>1, <2>4 DEF CrashedDisk, InSession, Effect, WritesHeader
  <2>5. CASE pc[p] = "append" /\ ~UNCHANGED disk
    BY <2>1, <2>5 DEF CrashedDisk, InSession, Effect, WritesBlock
  <2>6. CASE pc[p] = "remove" /\ ~UNCHANGED disk
    <3>1. \E left \in {disk[c], Damaged, Absent} : disk' = [disk EXCEPT ![c] = left]
      BY <2>1, <2>6 DEF CrashedDisk, InSession, HalfRemoved
    <3> QED BY <2>1, <2>6, <3>1 DEF Effect, Removes
  <2> QED BY <2>1, <2>2, <2>3, <2>4, <2>5, <2>6 DEF CrashedDisk, InSession
<1> QED
  BY <1>1, <1>2, <1>4, <1>5 DEF Next

\* Writing to the database p holds changes that directory alone.
LEMMA WriteTouchesOne ==
    ASSUME Inv, NEW p \in Procs, db[p] # NoPath, NEW batch, SetKeys(p, batch)
    PROVE  /\ db[p] \in Paths
           /\ disk'[db[p]] = Present(Put(Kv(p), batch))
           /\ disk'[db[p]].state = "present"
           /\ \A c \in Paths : c # db[p] => disk'[c] = disk[c]
<1>1. /\ db[p] \in Paths
      /\ disk'[db[p]] = Present(Put(Kv(p), batch))
      /\ \A c \in Paths : c # db[p] => disk'[c] = disk[c]
  BY DEF Inv, TypeOK, SetKeys, Kv
<1> QED
  BY <1>1 DEF Present

\* A step keeps what is stored, directory by directory.
LEMMA StepKeepsStored ==
    ASSUME Inv, Effect, NEW c \in Paths
    PROVE  KeepsStored(c)
<1>1. CASE disk'[c] = disk[c]
  BY <1>1 DEF KeepsStored
<1>2. CASE \E x \in Paths : Creates(x)
  <2>1. disk'[c] = disk[c] \/ ~IsPresent(c)
    BY <1>2 DEF Creates, Inv, TypeOK, IsPresent
  <2> QED BY <1>1, <2>1 DEF KeepsStored
<1>3. CASE \E p \in Procs : WritesHeader(p)
  <2>1. PICK p \in Procs : WritesHeader(p)
    BY <1>3
  <2>2. db[p] # NoPath /\ disk[db[p]].kv = NoKeys
    BY <2>1 DEF WritesHeader, Inv, SessionsOK
  <2>3. disk'[c] = disk[c] \/ disk[c].kv = NoKeys
    BY <2>1, <2>2, WriteTouchesOne DEF WritesHeader
  <2>4. DOMAIN NoKeys = {}
    BY DEF NoKeys
  <2> QED BY <1>1, <2>3, <2>4 DEF KeepsStored, hasHeader
<1>4. CASE \E p \in Procs : WritesBlock(p)
  <2>1. PICK p \in Procs : WritesBlock(p)
    BY <1>4
  <2>2. CASE c # db[p]
    BY <1>1, <2>1, <2>2, WriteTouchesOne DEF WritesBlock
  <2>3. CASE c = db[p]
    <3> DEFINE kv == disk[c].kv
               new == Put(kv, addBlockBatch(kv, blk[p]))
    <3>1. Complete(kv) /\ hasHeader(kv) /\ getHeader(kv).version = DB_VERSION
      BY <2>1, <2>3, ReadsComplete DEF WritesBlock, hasSupportedHeader, Kv
    <3>2. disk'[c].kv = new
      <4>1. disk'[db[p]] = Present(Put(Kv(p), addBlockBatch(Kv(p), blk[p])))
        BY <2>1, WriteTouchesOne DEF WritesBlock
      <4> QED BY <2>3, <4>1 DEF Kv, Present
    <3>3. /\ hasHeader(new)
          /\ getHeader(new) = [getHeader(kv) EXCEPT !.index = getHeader(kv).index + 1]
          /\ \A key \in DOMAIN kv \ {DB_HEADER_KEY} :
                key \in DOMAIN new /\ new[key] = kv[key]
      BY <3>1, AddBlockBatchAppends
    <3> HIDE DEF new
    <3> QED BY <3>1, <3>2, <3>3 DEF KeepsStored
  <2> QED BY <2>2, <2>3
<1>5. CASE \E x \in Paths : Removes(x)
  <2>1. disk'[c] = disk[c] \/ disk'[c].state # "present"
    BY <1>5 DEF Removes, Inv, TypeOK, Absent, Damaged
  <2> QED BY <1>1, <2>1 DEF KeepsStored
<1> QED
  BY <1>1, <1>2, <1>3, <1>4, <1>5 DEF Effect, Acknowledges

\* No call takes anything out of a database that stays, nor touches a chain of
\* another layout version except to remove it.
THEOREM NothingTakenOut == Spec => AppendOnly
<1>1. Inv /\ [Next]_vars => [\A c \in Paths : KeepsStored(c)]_vars
  BY StepEffect, StepKeepsStored
<1> QED
  BY <1>1, InvHolds, PTL DEF Spec, AppendOnly

-----------------------------------------------------------------------------
\* AckedDurable is inductive together with the domain of the history.
AckedInv == DOMAIN acked = Paths /\ AckedDurable

LEMMA EffectKeepsAcked ==
    ASSUME Inv, AckedInv, Effect
    PROVE  AckedInv'
<1>1. DOMAIN acked' = Paths
  BY DEF AckedInv, Effect, Acknowledges, Removes, ForgetIfTouched
<1>2. ASSUME NEW c \in Paths, NEW a \in acked[c], disk'[c].state = "present"
      PROVE  Kept(disk'[c], a)
  <2> DEFINE kv == disk[c].kv
             new == disk'[c].kv
             name == makeBlockName(a.index)
  <2>1. /\ IsPresent(c) /\ hasSupportedHeader(kv)
        /\ a.index \in 1..getHeader(kv).index /\ getBlock(kv, a.index) = a.block
    BY <1>2 DEF AckedInv, AckedDurable, Kept, IsPresent
  <2>2. Complete(kv) /\ kv # NoKeys
    BY <2>1 DEF Inv, Contiguous, hasSupportedHeader, hasHeader, NoKeys
  <2>3. getHeader(kv) \in Headers /\ name \in DOMAIN kv \ {DB_HEADER_KEY}
    BY <2>1, <2>2, KeysDiffer DEF Complete
  <2>4. KeepsStored(c)
    BY StepKeepsStored
  <2>5. new[name] = kv[name]
    BY <1>2, <2>1, <2>3, <2>4 DEF KeepsStored
  <2>6. /\ hasHeader(new)
        /\ \/ getHeader(new) = getHeader(kv)
           \/ getHeader(new) = [getHeader(kv) EXCEPT !.index = getHeader(kv).index + 1]
    BY <1>2, <2>1, <2>4 DEF KeepsStored, hasSupportedHeader
  <2>7. /\ getHeader(new).version = DB_VERSION
        /\ a.index \in 1..getHeader(new).index
    BY <2>1, <2>3, <2>6 DEF Headers, hasSupportedHeader
  <2> QED
    BY <1>2, <2>1, <2>5, <2>6, <2>7 DEF Kept, hasSupportedHeader, getBlock
<1>3. CASE \E p \in Procs : Acknowledges(p)
  <2>1. PICK p \in Procs : Acknowledges(p)
    BY <1>3
  <2>2. PICK c \in Paths : c = db[p]
    BY <2>1, WriteTouchesOne DEF Acknowledges, WritesBlock
  <2>3. PICK kv : kv = disk[c].kv
    OBVIOUS
  <2>4. PICK fresh : fresh = [index |-> getHeader(kv).index + 1, block |-> blk[p]]
    OBVIOUS
  <2> DEFINE new == Put(kv, addBlockBatch(kv, blk[p]))
  <2>5. /\ disk'[c] = Present(new)
        /\ \A x \in Paths : x # c => disk'[x] = disk[x]
    BY <2>1, <2>2, <2>3, WriteTouchesOne DEF Acknowledges, WritesBlock, Kv
  <2>6. Complete(kv) /\ hasSupportedHeader(kv) /\ hasHeader(kv) /\ getHeader(kv) \in Headers
    BY <2>1, <2>2, <2>3, ReadsComplete DEF Acknowledges, WritesBlock, Kv, hasSupportedHeader
  <2>7. /\ getHeader(kv).index \in Nat
        /\ hasHeader(new) /\ getBlock(new, fresh.index) = fresh.block
        /\ getHeader(new) = [getHeader(kv) EXCEPT !.index = fresh.index]
    BY <2>4, <2>6, AddBlockBatchAppends
  <2> HIDE DEF new
  <2>8. getHeader(new).version = DB_VERSION /\ fresh.index \in 1..getHeader(new).index
    BY <2>4, <2>6, <2>7 DEF Headers, hasSupportedHeader
  <2>9. Kept(disk'[c], fresh)
    <3>1. disk'[c].state = "present" /\ disk'[c].kv = new
      BY <2>5 DEF Present
    <3> QED BY <2>7, <2>8, <3>1 DEF Kept, hasSupportedHeader
  <2>10. /\ acked'[c] = acked[c] \cup {fresh}
         /\ \A x \in Paths : x # c => acked'[x] = acked[x]
    BY <2>1, <2>2, <2>3, <2>4 DEF Acknowledges, AckedInv, Kv
  <2>11. \A x \in Paths : \A a \in acked[x] : disk'[x].state = "present"
    BY <2>5 DEF AckedInv, AckedDurable, Kept, Present
  <2> QED
    BY <1>1, <1>2, <2>9, <2>10, <2>11 DEF AckedInv, AckedDurable
<1>4. CASE ~\E p \in Procs : Acknowledges(p)
  <2>1. ASSUME NEW c \in Paths, NEW a \in acked'[c]
        PROVE  a \in acked[c] /\ disk'[c].state = "present"
    <3>1. \A x \in acked[c] : disk[c].state = "present"
      BY DEF AckedInv, AckedDurable, Kept
    <3>2. CASE \E x \in Paths : Creates(x) /\ UNCHANGED acked
      BY <2>1, <3>1, <3>2 DEF Creates, Inv, TypeOK, Present
    <3>3. CASE UNCHANGED acked /\ \E p \in Procs : WritesHeader(p) \/ WritesBlock(p)
      <4>1. PICK p \in Procs : WritesHeader(p) \/ WritesBlock(p)
        BY <3>3
      <4>2. db[p] # NoPath
        BY <4>1 DEF WritesHeader, WritesBlock, Inv, SessionsOK
      <4>3. disk'[c] = disk[c] \/ disk'[c].state = "present"
        BY <4>1, <4>2, WriteTouchesOne DEF WritesHeader, WritesBlock
      <4> QED BY <2>1, <3>1, <3>3, <4>3
    <3>4. CASE \E x \in Paths : Removes(x)
      <4>1. PICK x \in Paths : Removes(x)
        BY <3>4
      <4>2. x # c => disk'[c] = disk[c] /\ acked'[c] = acked[c]
        BY <4>1 DEF Removes, ForgetIfTouched, AckedInv, Inv, TypeOK
      <4>3. x = c => disk'[c] = disk[c] /\ acked' = acked
        BY <2>1, <4>1 DEF Removes, ForgetIfTouched, AckedInv
      <4> QED BY <2>1, <3>1, <4>2, <4>3
    <3>5. CASE UNCHANGED <<disk, acked>>
      BY <2>1, <3>1, <3>5
    <3> QED BY <1>4, <3>2, <3>3, <3>4, <3>5 DEF Effect
  <2> QED
    BY <1>1, <1>2, <2>1 DEF AckedInv, AckedDurable
<1> QED
  BY <1>3, <1>4

\* Every block addBlock returned stays where it was put until its chain is
\* removed, for every number of servers and under every fault.
THEOREM AcknowledgedBlocksStay == Spec => []AckedDurable
<1>1. Init => AckedInv
  BY DEF Init, AckedInv, AckedDurable
<1>2. Inv /\ AckedInv /\ [Next]_vars => AckedInv'
  BY StepEffect, EffectKeepsAcked
<1>3. AckedInv => AckedDurable
  BY DEF AckedInv
<1> QED
  BY <1>1, <1>2, <1>3, InvHolds, PTL DEF Spec

-----------------------------------------------------------------------------
(***************************************************************************)
(* What a call writes is what it was asked to write: the header createSet   *)
(* writes and the block append writes carry the data of the request.        *)
(***************************************************************************)
CarriedBy(p) ==
    /\ pc[p] = "createSet" => hdr[p].data = req[p].data /\ hdr[p].version = DB_VERSION
    /\ pc[p] = "append" => blk[p].data = req[p].data

Carried == \A p \in Procs : CarriedBy(p)

\* The locals of every call but p's are as they were.
OthersStand(p) ==
    \A q \in Procs \ {p} :
        /\ db'[q] = db[q] /\ pc'[q] = pc[q] /\ req'[q] = req[q]
        /\ hdr'[q] = hdr[q] /\ blk'[q] = blk[q]

\* A step of a call is p's alone; it ends the call, or goes on with it, and
\* passes on the data of the request.
LEMMA StepCarries ==
    ASSUME Inv, NEW p \in Procs, Step(p) \/ Crash(p)
    PROVE  /\ pc[p] # "idle"
           /\ OthersStand(p)
           /\ Finished(p) \/ (UNCHANGED req /\ (OpenStore(p) \/ CarriedBy(p)'))
<1>1. ASSUME Finished(p) PROVE OthersStand(p)
  BY <1>1 DEF Finished, OthersStand, Inv, TypeOK
<1>2. CASE Crash(p)
  <2>1. Finished(p) /\ pc[p] # "idle"
    BY <1>2 DEF Crash, CloseDB, Finished, Inv, TypeOK
  <2> QED BY <1>1, <2>1
<1>3. ASSUME NEW ok, NEW value, Return(p, ok, value)
      PROVE  Finished(p) /\ OthersStand(p)
  BY <1>1, <1>3, ReturnFinishes
<1>4. CASE CreateOpen(p)
  <2>1. PICK key \in PrivateKeys :
            hdr' = [hdr EXCEPT ![p] = newHeader(req[p].data, key, createPublicKey(key))]
    BY <1>4 DEF CreateOpen
  <2>2. hdr'[p].data = req[p].data /\ hdr'[p].version = DB_VERSION
    BY <2>1 DEF newHeader, Inv, TypeOK
  <2>3. /\ pc[p] = "create" /\ pc' = [pc EXCEPT ![p] = "createSet"]
        /\ db' = [db EXCEPT ![p] = req[p].path] /\ UNCHANGED <<req, blk>>
    BY <1>4 DEF CreateOpen, CreateDB
  <2>4. CarriedBy(p)'
    BY <2>2, <2>3 DEF CarriedBy, Inv, TypeOK
  <2>5. OthersStand(p)
    BY <2>1, <2>3 DEF OthersStand, Inv, TypeOK
  <2> QED BY <2>3, <2>4, <2>5
<1>5. ASSUME NEW next, NEW header, NEW block, EndSession(p, next, header, block),
             next # "createSet", next = "append" => block.data = req[p].data
      PROVE  OthersStand(p) /\ UNCHANGED req /\ CarriedBy(p)'
  BY <1>5 DEF EndSession, CloseDB, OthersStand, CarriedBy, Inv, TypeOK
<1>6. ASSUME NEW header, NEW prevHash, BuildBlock(p, header, prevHash)
      PROVE  OthersStand(p) /\ (Finished(p) \/ (UNCHANGED req /\ CarriedBy(p)'))
  <2>1. CASE Fail(p)
    BY <1>3, <2>1 DEF Fail
  <2>2. ASSUME NEW nonce \in Nonces,
               EndSession(p, "append", header,
                          makeBlock(header, prevHash, nonce, req[p].data))
        PROVE  OthersStand(p) /\ UNCHANGED req /\ CarriedBy(p)'
    <3>1. makeBlock(header, prevHash, nonce, req[p].data).data = req[p].data
      BY DEF makeBlock, Container
    <3> QED BY <1>5, <2>2, <3>1
  <2> QED BY <1>6, <2>1, <2>2 DEF BuildBlock
<1>7. CASE ReadHeader(p)
  <2>1. pc[p] = "header" /\ req[p].op \in {"add", "verify", "header", "info"}
    BY <1>7 DEF ReadHeader, InSession, Inv, TypeOK, CallsAt
  <2>2. \/ \E header, prevHash : BuildBlock(p, header, prevHash)
        \/ \E header : EndSession(p, "last", header, None)
        \/ \E header : EndSession(p, "blocks", header, None)
        \/ \E ok, value : Return(p, ok, value)
    <3>1. CASE Fail(p)
      BY <3>1 DEF Fail
    <3>2. CASE ~Fail(p)
      BY <1>7, <2>1, <3>2 DEF ReadHeader
    <3> QED BY <3>1, <3>2
  <2> QED BY <1>3, <1>5, <1>6, <2>1, <2>2
<1>8. CASE ReadLast(p)
  <2>1. pc[p] = "last"
    BY <1>8 DEF ReadLast, InSession
  <2>2. \/ \E header, prevHash : BuildBlock(p, header, prevHash)
        \/ \E ok, value : Return(p, ok, value)
    BY <1>8 DEF ReadLast, Fail
  <2> QED BY <1>3, <1>6, <2>1, <2>2
<1>9. CASE OpenStore(p)
  BY <1>9 DEF OpenStore, OpenDB, localVars, Sessions, OthersStand, Inv, TypeOK
<1>10. CASE \/ CreateRefused(p) \/ CreateSet(p) \/ OpenRefused(p)
            \/ AppendBlock(p) \/ ReadBlock(p) \/ ReadBlocks(p) \/ RemoveChain(p)
  <2>1. \E ok, value : Return(p, ok, value)
    BY <1>10 DEF CreateRefused, CreateSet, OpenRefused, OpenDBFails, AppendBlock,
                 ReadBlock, ReadBlocks, RemoveChain, Fail
  <2>2. pc[p] # "idle"
    BY <1>10 DEF CreateRefused, CreateSet, OpenRefused, Sessions, AppendBlock,
                 ReadBlock, ReadBlocks, RemoveChain, InSession
  <2> QED BY <1>3, <2>1, <2>2
<1> QED
  BY <1>2, <1>4, <1>7, <1>8, <1>9, <1>10 DEF Step

LEMMA CarriedHolds == Spec => []Carried
<1>1. Init => Carried
  BY DEF Init, Carried, CarriedBy
<1>2. Inv /\ Carried /\ [Next]_vars => Carried'
  <2> SUFFICES ASSUME Inv, Carried, [Next]_vars PROVE Carried'
    OBVIOUS
  <2>1. CASE UNCHANGED vars
    BY <2>1 DEF vars, localVars, Carried, CarriedBy
  <2>2. ASSUME NEW p \in Procs, NEW r \in Requests, Start(p, r) PROVE Carried'
    <3>1. entry[r.op] \notin {"createSet", "append"}
      BY ManagerAssumption DEF Requests, entry
    <3> QED BY <2>2, <3>1 DEF Start, Carried, CarriedBy, Inv, TypeOK
  <2>3. ASSUME NEW p \in Procs, Step(p) \/ Crash(p) PROVE Carried'
    <3>1. OthersStand(p)
      BY <2>3, StepCarries
    <3>2. CarriedBy(p)'
      <4>1. CASE Finished(p)
        BY <4>1 DEF Finished, CarriedBy, Inv, TypeOK
      <4>2. CASE OpenStore(p)
        BY <4>2 DEF OpenStore, localVars, Carried, CarriedBy
      <4> QED BY <2>3, <4>1, <4>2, StepCarries
    <3> QED BY <3>1, <3>2 DEF OthersStand, Carried, CarriedBy
  <2> QED BY <2>1, <2>2, <2>3 DEF Next
<1> QED
  BY <1>1, <1>2, InvHolds, PTL DEF Spec

-----------------------------------------------------------------------------
(***************************************************************************)
(* What a step does to the payloads of a chain: nothing, or it adds the one *)
(* of a request to add to this chain, or it removes the chain on request.   *)
(***************************************************************************)
StoredIn(c) == IF Live(c) THEN Entries(c) ELSE <<>>

LEMMA StoredChanges ==
    ASSUME Inv, Carried, Effect, NEW c \in Paths
    PROVE  \/ StoredIn(c)' = StoredIn(c)
           \/ \E p \in Procs :
                /\ pc[p] = "append" /\ req[p].path = c /\ WritesBlock(p)
                /\ StoredIn(c)' = Append(StoredIn(c), req[p].data)
           \/ \E p \in Procs :
                pc[p] = "remove" /\ req[p].path = c /\ StoredIn(c)' = <<>>
<1>1. CASE disk'[c] = disk[c]
  BY <1>1 DEF StoredIn, Live, Entries, Header, IsPresent
<1>2. ~hasSupportedHeader(NoKeys)
  BY DEF NoKeys, hasSupportedHeader, hasHeader
<1>3. CASE \E x \in Paths : Creates(x)
  <2>1. disk'[c] = disk[c] \/ (disk[c].state = "absent" /\ disk'[c] = Present(NoKeys))
    BY <1>3 DEF Creates, Inv, TypeOK
  <2> QED BY <1>1, <1>2, <2>1 DEF StoredIn, Live, IsPresent, Present
<1>4. CASE \E p \in Procs : WritesHeader(p)
  <2>1. PICK p \in Procs : WritesHeader(p)
    BY <1>4
  <2>2. /\ db[p] # NoPath /\ Kv(p) = NoKeys
        /\ hdr[p] \in Headers /\ hdr[p].index = 0
    BY <2>1 DEF WritesHeader, Inv, SessionsOK, Kv
  <2>3. CASE db[p] = c
    <3> DEFINE new == Put(NoKeys, createBatch(hdr[p]))
    <3>1. disk'[c] = Present(new) /\ disk[c].kv = NoKeys
      BY <2>1, <2>2, <2>3, WriteTouchesOne DEF WritesHeader, Kv
    <3>2. getHeader(new) = hdr[p]
      BY <2>2, CreateBatchCompletes
    <3> HIDE DEF new
    <3>3. Header(c)'.index = 0
      BY <2>2, <3>1, <3>2 DEF Header, Present
    <3>4. Entries(c)' = <<>>
      BY <3>3 DEF Entries
    <3> QED BY <1>2, <3>1, <3>4 DEF StoredIn, Live
  <2> QED BY <1>1, <2>1, <2>2, <2>3, WriteTouchesOne DEF WritesHeader
<1>5. CASE \E p \in Procs : WritesBlock(p)
  <2>1. PICK p \in Procs : WritesBlock(p)
    BY <1>5
  <2>2. /\ pc[p] = "append" /\ db[p] # NoPath /\ db[p] = req[p].path
        /\ blk[p].data = req[p].data /\ IsPresent(db[p])
    BY <2>1 DEF WritesBlock, Inv, SessionsOK, Carried, CarriedBy
  <2>3. CASE db[p] = c
    <3> DEFINE kv == disk[c].kv
               new == Put(kv, addBlockBatch(kv, blk[p]))
    <3>1. Complete(kv) /\ hasHeader(kv) /\ hasSupportedHeader(kv) /\ Kv(p) = kv
      BY <2>1, <2>3, ReadsComplete DEF WritesBlock, hasSupportedHeader, Kv
    <3>2. disk'[c] = Present(new)
      BY <2>1, <2>2, <2>3, <3>1, WriteTouchesOne DEF WritesBlock
    <3>3. EntriesOf(new) = Append(EntriesOf(kv), blk[p].data)
      BY <3>1, AddBlockBatchEntries
    <3>4. hasHeader(new) /\ getHeader(new).version = DB_VERSION
      <4>1. /\ hasHeader(new)
            /\ getHeader(new) = [getHeader(kv) EXCEPT !.index = getHeader(kv).index + 1]
        BY <3>1, AddBlockBatchAppends
      <4>2. kv # NoKeys
        BY <1>2, <3>1
      <4>3. getHeader(kv) \in Headers /\ getHeader(kv).version = DB_VERSION
        BY <3>1, <4>2 DEF Complete, hasSupportedHeader
      <4> HIDE DEF new
      <4> QED BY <4>1, <4>3 DEF Headers
    <3> HIDE DEF new
    <3>5. StoredIn(c) = EntriesOf(kv)
      BY <2>2, <2>3, <3>1 DEF StoredIn, Live, Entries, EntriesOf, Header
    <3>6. disk'[c].state = "present" /\ disk'[c].kv = new
      BY <3>2 DEF Present
    <3>7. StoredIn(c)' = EntriesOf(new)
      BY <3>4, <3>6 DEF StoredIn, Live, Entries, EntriesOf, Header, IsPresent, hasSupportedHeader
    <3> QED BY <2>1, <2>2, <2>3, <3>3, <3>5, <3>7
  <2> QED BY <1>1, <2>1, <2>2, <2>3, WriteTouchesOne DEF WritesBlock
<1>6. CASE \E x \in Paths : Removes(x)
  <2>1. PICK x \in Paths : Removes(x)
    BY <1>6
  <2>2. CASE x = c
    <3>1. PICK p \in Procs : pc[p] = "remove" /\ req[p].path = c
      BY <2>1, <2>2 DEF Removes
    <3>2. disk'[c] = disk[c] \/ disk'[c].state # "present"
      BY <2>1, <2>2 DEF Removes, Inv, TypeOK, Absent, Damaged
    <3> QED BY <1>1, <3>1, <3>2 DEF StoredIn, Live, IsPresent
  <2>3. CASE x # c
    BY <1>1, <2>1, <2>3 DEF Removes, Inv, TypeOK
  <2> QED BY <2>2, <2>3
<1> QED
  BY <1>1, <1>3, <1>4, <1>5, <1>6 DEF Effect, Acknowledges

-----------------------------------------------------------------------------
(***************************************************************************)
(* A storage directory one server uses.  What the server has read in one    *)
(* session is still so in the next one (CallCurrent), so the block addBlock *)
(* has built fits the chain it is appended to, and every chain stays        *)
(* linked.  With two servers CallCurrent is what breaks.                    *)
(***************************************************************************)
OneServer == \A p, q \in Procs : p = q

\* What block i of a chain is to link to.
LinkTo(kv, i) == IF i = 1 THEN headerHash(getHeader(kv)) ELSE getBlock(kv, i - 1).hash

Sound(header, link, block) == block.prevHash = link /\ verifyBlock(header, link, block)

KeysMatch(header) == header.publicKey = createPublicKey(header.privateKey)

\* A chain as addBlock makes it, of this build or of another.
StoreLinked(kv) ==
    hasHeader(kv) =>
        /\ KeysMatch(getHeader(kv))
        /\ \A i \in 1..getHeader(kv).index :
            Sound(getHeader(kv), LinkTo(kv, i), getBlock(kv, i))

StoresLinked == \A c \in Paths : StoreLinked(disk[c].kv)

\* The header p read in an earlier session of its call is the stored one.
HeaderCurrent(p) ==
    /\ IsPresent(req[p].path)
    /\ hasHeader(disk[req[p].path].kv)
    /\ hdr[p] = getHeader(disk[req[p].path].kv)

CallCurrent(p) ==
    /\ pc[p] = "createSet" => KeysMatch(hdr[p])
    /\ pc[p] \in {"last", "append"} => HeaderCurrent(p)
    /\ pc[p] = "blocks" /\ req[p].op = "verify" => HeaderCurrent(p)
    /\ pc[p] = "last" => hdr[p].index # 0
    /\ pc[p] = "append" =>
        Sound(hdr[p], LinkTo(disk[req[p].path].kv, hdr[p].index + 1), blk[p])

Current == \A p \in Procs : CallCurrent(p)

\* Both addBlock and verifyChain compute the same thing.
LEMMA MakeBlockSound ==
    ASSUME NEW header, KeysMatch(header), NEW link, NEW nonce, NEW data
    PROVE  LET block == makeBlock(header, link, nonce, data) IN
           Sound(header, link, block) /\ block.data = data
BY DEF KeysMatch, makeBlock, Container, Sound, verifyBlock, verifySignature,
       getSignature, getHash

\* The first header of a chain.
LEMMA CreateBatchLinks ==
    ASSUME NEW header \in Headers, header.index = 0, KeysMatch(header)
    PROVE  StoreLinked(Put(NoKeys, createBatch(header)))
<1>1. getHeader(Put(NoKeys, createBatch(header))) = header
  BY CreateBatchCompletes
<1> QED
  BY <1>1 DEF StoreLinked

\* A block that fits behind the last one keeps the chain linked: the index is
\* no part of what is hashed and signed.
LEMMA AddBlockBatchLinks ==
    ASSUME NEW kv, Complete(kv), hasHeader(kv), StoreLinked(kv), NEW block,
           Sound(getHeader(kv), LinkTo(kv, getHeader(kv).index + 1), block)
    PROVE  StoreLinked(Put(kv, addBlockBatch(kv, block)))
<1> DEFINE new == Put(kv, addBlockBatch(kv, block))
           header == getHeader(kv)
           n == header.index
<1>1. /\ n \in Nat
      /\ getHeader(new) = [header EXCEPT !.index = n + 1]
      /\ getBlock(new, n + 1) = block
      /\ \A i \in 1..n : getBlock(new, i) = getBlock(kv, i)
  BY AddBlockBatchAppends
<1>2. header \in Headers
  <2>1. kv # NoKeys
    BY DEF hasHeader, NoKeys
  <2> QED BY <2>1 DEF Complete
<1>3. /\ KeysMatch(header)
      /\ \A i \in 1..n : Sound(header, LinkTo(kv, i), getBlock(kv, i))
  BY DEF StoreLinked
<1> HIDE DEF new
<1>4. /\ getHeader(new).data = header.data /\ getHeader(new).index = n + 1
      /\ getHeader(new).privateKey = header.privateKey
      /\ getHeader(new).publicKey = header.publicKey
  BY <1>1, <1>2 DEF Headers
<1>5. KeysMatch(getHeader(new)) /\ headerHash(getHeader(new)) = headerHash(header)
  BY <1>3, <1>4 DEF KeysMatch, headerHash
<1>6. \A link, b : Sound(header, link, b) => Sound(getHeader(new), link, b)
  BY <1>4 DEF Sound, verifyBlock
<1>7. \A i \in 1..(n + 1) : LinkTo(new, i) = LinkTo(kv, i)
  BY <1>1, <1>5 DEF LinkTo
<1>8. ASSUME NEW i \in 1..(n + 1)
      PROVE  Sound(getHeader(new), LinkTo(new, i), getBlock(new, i))
  <2>1. CASE i \in 1..n
    BY <1>1, <1>3, <1>6, <1>7, <2>1
  <2>2. CASE i = n + 1
    BY <1>1, <1>6, <1>7, <2>2
  <2> QED BY <1>1, <2>1, <2>2
<1>9. StoreLinked(new)
  BY <1>4, <1>5, <1>8 DEF StoreLinked
<1> QED
  BY <1>9 DEF new

\* The chains of the other build are linked.
LEMMA LegacyStoresLinked ==
    ASSUME NEW kv \in LegacyStores
    PROVE  StoreLinked(kv)
<1> DEFINE old(d, k) == legacyHeader(d, k)
           first(d, k, n) == makeBlock(old(d, k), headerHash(old(d, k)), n, d)
<1>1. ASSUME NEW d \in Data, NEW k \in PrivateKeys
      PROVE  /\ createBatch(old(d, k)) = Put(NoKeys, createBatch(old(d, k)))
             /\ old(d, k) \in Headers /\ old(d, k).index = 0 /\ KeysMatch(old(d, k))
  <2>1. old(d, k) \in Headers /\ old(d, k).index = 0 /\ KeysMatch(old(d, k))
    BY VersionAssumption, ManagerAssumption DEF legacyHeader, newHeader, Headers, KeysMatch
  <2> QED BY <2>1 DEF createBatch, Put, NoKeys
<1>2. ASSUME NEW d \in Data, NEW k \in PrivateKeys
      PROVE  /\ StoreLinked(createBatch(old(d, k))) /\ Complete(createBatch(old(d, k)))
             /\ hasHeader(createBatch(old(d, k)))
             /\ getHeader(createBatch(old(d, k))) = old(d, k)
  BY <1>1, CreateBatchLinks, CreateBatchCompletes
<1>3. ASSUME NEW d \in Data, NEW k \in PrivateKeys, NEW n \in Nonces
      PROVE  StoreLinked(addBlockBatch(createBatch(old(d, k)), first(d, k, n)))
  <2> DEFINE chain == createBatch(old(d, k))
  <2>1. addBlockBatch(chain, first(d, k, n)) =
            Put(chain, addBlockBatch(chain, first(d, k, n)))
    BY DEF addBlockBatch, createBatch, Put
  <2>2. Sound(old(d, k), headerHash(old(d, k)), first(d, k, n))
    BY <1>1, MakeBlockSound
  <2>3. LinkTo(chain, getHeader(chain).index + 1) = headerHash(old(d, k))
    BY <1>1, <1>2 DEF LinkTo
  <2>4. StoreLinked(chain) /\ Complete(chain) /\ hasHeader(chain)
        /\ getHeader(chain) = old(d, k)
    BY <1>2
  <2> HIDE DEF chain
  <2>5. StoreLinked(Put(chain, addBlockBatch(chain, first(d, k, n))))
    BY <2>2, <2>3, <2>4, AddBlockBatchLinks
  <2> QED BY <2>1, <2>5 DEF chain
<1> QED
  BY <1>2, <1>3 DEF LegacyStores

\* Whatever a step does to the disk, chains stay linked.
LEMMA EffectKeepsLinked ==
    ASSUME Inv, StoresLinked, Current, Effect
    PROVE  StoresLinked'
<1> SUFFICES ASSUME NEW c \in Paths PROVE StoreLinked(disk'[c].kv)
  BY DEF StoresLinked
<1>1. StoreLinked(disk[c].kv) /\ StoreLinked(NoKeys)
  BY DEF StoresLinked, StoreLinked, hasHeader, NoKeys
<1>2. CASE UNCHANGED disk
  BY <1>1, <1>2
<1>3. CASE \E x \in Paths : Creates(x)
  BY <1>1, <1>3 DEF Creates, Present, Inv, TypeOK
<1>4. ASSUME NEW p \in Procs, WritesHeader(p) PROVE StoreLinked(disk'[c].kv)
  <2>1. /\ db[p] # NoPath /\ Kv(p) = NoKeys /\ hdr[p] \in Headers /\ hdr[p].index = 0
        /\ KeysMatch(hdr[p])
    BY <1>4 DEF WritesHeader, Inv, SessionsOK, Kv, Current, CallCurrent
  <2>2. disk'[db[p]] = Present(Put(NoKeys, createBatch(hdr[p])))
        /\ (c # db[p] => disk'[c] = disk[c])
    BY <1>4, <2>1, WriteTouchesOne DEF WritesHeader
  <2>3. StoreLinked(Put(NoKeys, createBatch(hdr[p])))
    BY <2>1, CreateBatchLinks
  <2> QED BY <1>1, <2>2, <2>3 DEF Present
<1>5. ASSUME NEW p \in Procs, WritesBlock(p) PROVE StoreLinked(disk'[c].kv)
  <2> DEFINE kv == Kv(p)
             new == Put(kv, addBlockBatch(kv, blk[p]))
  <2>1. db[p] # NoPath /\ db[p] = req[p].path /\ pc[p] = "append" /\ hasHeader(kv)
    BY <1>5 DEF WritesBlock, Inv, SessionsOK, hasSupportedHeader
  <2>2. Complete(kv) /\ db[p] \in Paths
    BY <2>1, ReadsComplete
  <2>3. Sound(getHeader(kv), LinkTo(kv, getHeader(kv).index + 1), blk[p])
    BY <2>1 DEF Current, CallCurrent, HeaderCurrent, Kv
  <2>4. StoreLinked(kv)
    BY <2>2 DEF StoresLinked, Kv
  <2>5. disk'[db[p]] = Present(new) /\ (c # db[p] => disk'[c] = disk[c])
    BY <1>5, <2>1, WriteTouchesOne DEF WritesBlock
  <2>6. StoreLinked(new)
    <3> HIDE DEF kv
    <3> QED BY <2>1, <2>2, <2>3, <2>4, AddBlockBatchLinks
  <2> HIDE DEF new
  <2> QED BY <1>1, <2>5, <2>6 DEF Present
<1>6. CASE \E x \in Paths : Removes(x)
  <2>1. disk'[c] = disk[c] \/ disk'[c].kv = NoKeys
    BY <1>6 DEF Removes, Inv, TypeOK, Absent, Damaged
  <2> QED BY <1>1, <2>1
<1> QED
  BY <1>2, <1>3, <1>4, <1>5, <1>6 DEF Effect, Acknowledges

\* The block addBlock builds at the end of its first or second session fits
\* behind the last block, in the state the session has seen and leaves.
LEMMA BuildsCurrent ==
    ASSUME Inv, NEW p \in Procs, NEW c \in Paths, c = req[p].path,
           IsPresent(c), hasHeader(disk[c].kv), KeysMatch(getHeader(disk[c].kv)),
           NEW link, link = LinkTo(disk[c].kv, getHeader(disk[c].kv).index + 1),
           BuildBlock(p, getHeader(disk[c].kv), link), UNCHANGED disk
    PROVE  Finished(p) \/ CallCurrent(p)'
<1> DEFINE header == getHeader(disk[c].kv)
<1>1. CASE Fail(p)
  BY <1>1, ReturnFinishes DEF Fail
<1>2. ASSUME NEW nonce \in Nonces,
             EndSession(p, "append", header, makeBlock(header, link, nonce, req[p].data))
      PROVE  CallCurrent(p)'
  <2>1. Sound(header, link, makeBlock(header, link, nonce, req[p].data))
    BY MakeBlockSound
  <2>2. /\ pc'[p] = "append" /\ hdr'[p] = header /\ req'[p] = req[p]
        /\ blk'[p] = makeBlock(header, link, nonce, req[p].data)
    BY <1>2 DEF EndSession, Inv, TypeOK
  <2>3. HeaderCurrent(p)'
    BY <2>2 DEF HeaderCurrent, IsPresent
  <2>4. LinkTo(disk[c].kv, hdr'[p].index + 1) = link
    BY <2>2
  <2> QED BY <2>1, <2>2, <2>3, <2>4 DEF CallCurrent
<1> QED
  BY <1>1, <1>2 DEF BuildBlock

\* The session of ReadHeader.
LEMMA ReadHeaderCurrent ==
    ASSUME Inv, StoresLinked, NEW p \in Procs, ReadHeader(p)
    PROVE  Finished(p) \/ CallCurrent(p)'
<1> DEFINE c == req[p].path
           header == getHeader(disk[c].kv)
<1>1. /\ pc[p] = "header" /\ db[p] = c /\ c \in Paths /\ IsPresent(c) /\ UNCHANGED disk
      /\ Kv(p) = disk[c].kv
      /\ req[p].op \in {"add", "verify", "header", "info"}
  BY DEF ReadHeader, InSession, Inv, TypeOK, SessionsOK, Kv, CallsAt
<1>2. CASE Fail(p)
  BY <1>2, ReturnFinishes DEF Fail
<1>3. CASE hasHeader(disk[c].kv) /\ ~Fail(p)
  <2>1. KeysMatch(header)
    BY <1>1, <1>3 DEF StoresLinked, StoreLinked
  <2>2. ASSUME NEW next, next # "append", next # "createSet", EndSession(p, next, header, None),
               next = "last" => header.index # 0
        PROVE  CallCurrent(p)'
    <3>1. pc'[p] = next /\ hdr'[p] = header /\ req'[p] = req[p]
      BY <2>2 DEF EndSession, Inv, TypeOK
    <3> QED BY <1>1, <1>3, <2>2, <3>1 DEF CallCurrent, HeaderCurrent, IsPresent
  <2>3. CASE header.index = 0 /\ BuildBlock(p, header, headerHash(header))
    <3>1. headerHash(header) = LinkTo(disk[c].kv, header.index + 1)
      BY <2>3 DEF LinkTo
    <3> QED BY <1>1, <1>3, <2>1, <2>3, <3>1, BuildsCurrent
  <2>4. \/ header.index = 0 /\ BuildBlock(p, header, headerHash(header))
        \/ header.index # 0 /\ EndSession(p, "last", header, None)
        \/ EndSession(p, "blocks", header, None)
        \/ \E value : Return(p, TRUE, value)
    BY <1>1, <1>3 DEF ReadHeader
  <2> QED BY <2>2, <2>3, <2>4, ReturnFinishes
<1> QED
  BY <1>1, <1>2, <1>3 DEF ReadHeader

\* The session of ReadLast.
LEMMA ReadLastCurrent ==
    ASSUME Inv, StoresLinked, Current, NEW p \in Procs, ReadLast(p)
    PROVE  Finished(p) \/ CallCurrent(p)'
<1> DEFINE c == req[p].path
           header == getHeader(disk[c].kv)
<1>1. /\ pc[p] = "last" /\ db[p] = c /\ c \in Paths /\ IsPresent(c) /\ UNCHANGED disk
      /\ Kv(p) = disk[c].kv /\ hdr[p] \in Headers
  BY DEF ReadLast, InSession, Inv, TypeOK, SessionsOK, Kv
<1>2. hasHeader(disk[c].kv) /\ hdr[p] = header /\ hdr[p].index # 0
  BY <1>1 DEF Current, CallCurrent, HeaderCurrent
<1>3. CASE Fail(p)
  BY <1>3, ReturnFinishes DEF Fail
<1>4. CASE BuildBlock(p, hdr[p], getBlock(Kv(p), hdr[p].index).hash)
  <2>1. header.index \in Nat
    BY <1>1, <1>2 DEF Headers
  <2>2. getBlock(disk[c].kv, header.index).hash = LinkTo(disk[c].kv, header.index + 1)
    BY <1>2, <2>1 DEF LinkTo
  <2>3. KeysMatch(header)
    BY <1>1, <1>2 DEF StoresLinked, StoreLinked
  <2> QED BY <1>1, <1>2, <1>4, <2>2, <2>3, BuildsCurrent
<1> QED
  BY <1>3, <1>4 DEF ReadLast

\* What a call knows stays true to its end.
LEMMA StepCurrent ==
    ASSUME Inv, StoresLinked, Current, NEW p \in Procs, Step(p) \/ Crash(p)
    PROVE  CallCurrent(p)'
<1>1. CASE Finished(p)
  BY <1>1 DEF Finished, CallCurrent, Inv, TypeOK
<1>2. CASE CreateOpen(p)
  <2>1. PICK key \in PrivateKeys :
            hdr' = [hdr EXCEPT ![p] = newHeader(req[p].data, key, createPublicKey(key))]
    BY <1>2 DEF CreateOpen
  <2>2. KeysMatch(hdr'[p]) /\ pc'[p] = "createSet"
    BY <1>2, <2>1 DEF CreateOpen, newHeader, KeysMatch, Inv, TypeOK
  <2> QED BY <2>2 DEF CallCurrent
<1>3. CASE OpenStore(p)
  BY <1>3 DEF OpenStore, OpenDB, localVars, Current, CallCurrent, HeaderCurrent, IsPresent
<1>4. CASE ReadHeader(p) \/ ReadLast(p)
  BY <1>1, <1>4, ReadHeaderCurrent, ReadLastCurrent
<1>5. CASE \/ CreateRefused(p) \/ CreateSet(p) \/ OpenRefused(p)
           \/ AppendBlock(p) \/ ReadBlock(p) \/ ReadBlocks(p) \/ RemoveChain(p)
  <2>1. \E ok, value : Return(p, ok, value)
    BY <1>5 DEF CreateRefused, CreateSet, OpenRefused, OpenDBFails, AppendBlock,
                ReadBlock, ReadBlocks, RemoveChain, Fail
  <2> QED BY <1>1, <2>1, ReturnFinishes
<1>6. CASE Crash(p)
  <2>1. Finished(p)
    BY <1>6 DEF Crash, CloseDB, Finished, Inv, TypeOK
  <2> QED BY <1>1, <2>1
<1> QED
  BY <1>2, <1>3, <1>4, <1>5, <1>6 DEF Step

LinkedInv == StoresLinked /\ Current

LEMMA LinkedHolds == OneServer => (Spec => []LinkedInv)
<1> SUFFICES ASSUME OneServer PROVE Spec => []LinkedInv
  OBVIOUS
<1>1. Init => LinkedInv
  <2> SUFFICES ASSUME Init PROVE LinkedInv
    OBVIOUS
  <2>1. Current
    BY DEF Init, Current, CallCurrent
  <2>2. ASSUME NEW c \in Paths PROVE StoreLinked(disk[c].kv)
    <3>1. CASE disk[c] = Absent
      BY <3>1 DEF Absent, StoreLinked, hasHeader, NoKeys
    <3>2. ASSUME NEW kv \in LegacyStores, disk[c] = Present(kv)
          PROVE  StoreLinked(disk[c].kv)
      BY <3>2, LegacyStoresLinked DEF Present
    <3> QED BY <3>1, <3>2 DEF Init
  <2> QED BY <2>1, <2>2 DEF LinkedInv, StoresLinked
<1>2. Inv /\ LinkedInv /\ [Next]_vars => LinkedInv'
  <2> SUFFICES ASSUME Inv, StoresLinked, Current, [Next]_vars PROVE StoresLinked' /\ Current'
    BY DEF LinkedInv
  <2>1. StoresLinked'
    BY StepEffect, EffectKeepsLinked
  <2>2. CASE UNCHANGED vars
    BY <2>1, <2>2 DEF vars, storageVars, localVars, Current, CallCurrent, HeaderCurrent, IsPresent
  <2>3. ASSUME NEW p \in Procs, NEW r \in Requests, Start(p, r) PROVE Current'
    <3>1. /\ entry[r.op] \notin {"createSet", "last", "append"}
          /\ entry[r.op] = "blocks" => r.op # "verify"
      BY ManagerAssumption DEF Requests, entry
    <3>2. pc'[p] = entry[r.op] /\ req'[p] = r
      BY <2>3 DEF Start, Inv, TypeOK
    <3>3. CallCurrent(p)'
      BY <3>1, <3>2 DEF CallCurrent
    <3> QED BY <3>3 DEF OneServer, Current
  <2>4. ASSUME NEW p \in Procs, Step(p) \/ Crash(p) PROVE Current'
    BY <2>4, StepCurrent DEF OneServer, Current
  <2> QED BY <2>1, <2>2, <2>3, <2>4 DEF Next
<1> QED
  BY <1>1, <1>2, InvHolds, PTL DEF Spec

\* A linked chain verifies.
LEMMA LinkedVerify ==
    ASSUME Inv, LinkedInv
    PROVE  ChainsVerify
<1> SUFFICES ASSUME NEW c \in Paths, Live(c)
             PROVE  verifyBlocks(Header(c), Blocks(c)) /\ Linked(Header(c), Blocks(c))
  BY DEF ChainsVerify
<1> DEFINE kv == disk[c].kv
           n == getHeader(kv).index
<1>1. hasHeader(kv) /\ StoreLinked(kv)
  BY DEF Live, hasSupportedHeader, LinkedInv, StoresLinked
<1>2. n \in Nat
  BY <1>1, CompleteCounts DEF Inv, Contiguous
<1>3. DOMAIN Blocks(c) = 1..n /\ \A i \in 1..n : Blocks(c)[i] = getBlock(kv, i)
  BY DEF Blocks, getBlocks
<1>4. ASSUME NEW i \in 1..n
      PROVE  Sound(Header(c), IF i = 1 THEN headerHash(Header(c)) ELSE Blocks(c)[i - 1].hash,
                   Blocks(c)[i])
  <2>1. Sound(getHeader(kv), LinkTo(kv, i), getBlock(kv, i))
    BY <1>1 DEF StoreLinked
  <2>2. i # 1 => i - 1 \in 1..n
    BY <1>2
  <2> QED BY <1>3, <2>1, <2>2 DEF LinkTo, Header
<1> QED
  BY <1>3, <1>4 DEF Sound, verifyBlocks, Linked

\* verifyChain accepts every chain one server has built, whatever failed and
\* wherever the server died and was started again, for every number of chains
\* and blocks: a block that went to disk in a later session than the one its
\* link was read in links to the last block all the same.
THEOREM BuiltChainsVerify == OneServer => (Spec => []ChainsVerify)
<1> SUFFICES ASSUME OneServer PROVE Spec => []ChainsVerify
  OBVIOUS
<1>1. Inv /\ LinkedInv => ChainsVerify
  BY LinkedVerify
<1> QED
  BY <1>1, InvHolds, LinkedHolds, PTL

-----------------------------------------------------------------------------
(***************************************************************************)
(* What one server answers when nothing fails.  A call takes up to three    *)
(* sessions, and what it answers is measured against the state it returns   *)
(* in: CallCurrent carries what it found in the earlier ones to that state. *)
(***************************************************************************)
Faultless == "io" \notin Faults /\ "crash" \notin Faults /\ "crypto" \notin Faults

\* What p's call returns is exact.
Answers(p) == \A r \in {req[p]} : Exact(r, res'[p].ok, res'[p].value, r.path)

LEMMA ReturnTells ==
    ASSUME Inv, NEW p \in Procs, NEW ok, NEW value, Return(p, ok, value)
    PROVE  res'[p].ok = ok /\ res'[p].value = value
BY DEF Inv, TypeOK, Return

\* What p's session reads.
LEMMA SessionReads ==
    ASSUME Inv, NEW p \in Procs, pc[p] # "idle"
    PROVE  LET c == req[p].path IN
           /\ c \in Paths /\ Complete(disk[c].kv) /\ req[p].op \in CallsAt[pc[p]]
           /\ db[p] # NoPath => IsPresent(c) /\ Kv(p) = disk[c].kv
BY DEF Inv, TypeOK, Contiguous, SessionsOK, Kv, Requests

\* The append is the last thing a call does.
LEMMA AppendIsLast ==
    ASSUME Inv, NEW p \in Procs, pc[p] = "append", db[p] # NoPath, Step(p)
    PROVE  pc'[p] = "idle"
<1>1. AppendBlock(p)
  BY DEF Step, CreateRefused, CreateOpen, CreateSet, OpenRefused, OpenStore, OpenDB,
         ReadHeader, ReadLast, ReadBlock, ReadBlocks, RemoveChain, InSession
<1>2. \E ok, value : Return(p, ok, value)
  BY <1>1 DEF AppendBlock, Fail
<1> QED
  BY <1>2 DEF Return, Inv, TypeOK

\* A call that fails has written nothing, unless writing itself fails.
LEMMA FailedCallWritesNothing ==
    ASSUME Inv, NEW p \in Procs, Step(p), pc'[p] = "idle", ~res'[p].ok,
           "io" \notin Faults
    PROVE  UNCHANGED disk
<1>1. \A v : ~Return(p, TRUE, v)
  BY ReturnTells
<1>2. pc[p] # "idle"
  BY StepCarries
<1>3. ~CreateOpen(p)
  BY <1>2 DEF CreateOpen, Inv, TypeOK
<1>4. CASE CreateRefused(p)
  BY <1>4 DEF CreateRefused, CreateDBFails
<1>5. ~CreateSet(p)
  BY <1>1 DEF CreateSet, SetKeysFails
<1>6. CASE AppendBlock(p)
  BY <1>1, <1>6 DEF AppendBlock, SetKeysFails
<1>7. CASE RemoveChain(p)
  BY <1>1, <1>7 DEF RemoveChain, DestroyDBFails
<1>8. CASE OpenStore(p) \/ OpenRefused(p) \/ ReadHeader(p) \/ ReadLast(p)
           \/ ReadBlock(p) \/ ReadBlocks(p)
  BY <1>8 DEF OpenStore, OpenDB, OpenRefused, OpenDBFails, ReadHeader, ReadLast,
              ReadBlock, ReadBlocks
<1> QED
  BY <1>3, <1>4, <1>5, <1>6, <1>7, <1>8 DEF Step

LEMMA CreateAnswers ==
    ASSUME Inv, Carried, OneServer, Faultless, NEW p \in Procs,
           CreateRefused(p) \/ CreateSet(p)
    PROVE  Answers(p)
<1> SUFFICES ASSUME NEW r, r = req[p], NEW c, c = r.path
             PROVE  Exact(r, res'[p].ok, res'[p].value, c)
  BY DEF Answers
<1>1. pc[p] \in {"create", "createSet"} /\ r.op = "create" /\ c \in Paths
  <2>1. pc[p] \in {"create", "createSet"}
    BY DEF CreateRefused, CreateSet
  <2> QED BY <2>1, SessionReads DEF CallsAt
<1>2. CASE CreateRefused(p)
  <2>1. res'[p].ok = FALSE
    BY <1>2, ReturnTells DEF CreateRefused, Fail
  <2>2. ~Constructing(c)
    BY <1>2 DEF OneServer, Constructing, CreateRefused
  <2>3. pc[p] = "create" /\ (CreateDBFails(p, c) \/ CryptoFails)
    BY <1>2 DEF CreateRefused
  <2>4. db[p] = NoPath
    BY <2>3 DEF Inv, SessionsOK, Sessions
  <2>5. ~Locked(c)
    BY <1>1, <2>4, NoPathAssumption DEF Locked, OneServer
  <2>6. disk[c].state # "absent"
    BY <2>3, <2>4, <2>5 DEF CreateDBFails, CryptoFails, Faultless
  <2> QED BY <1>1, <2>1, <2>2, <2>6 DEF Exact
<1>3. CASE CreateSet(p)
  <2>1. SetKeys(p, createBatch(hdr[p])) /\ Return(p, TRUE, None) /\ pc[p] = "createSet"
    BY <1>3 DEF CreateSet, SetKeysFails, Faultless
  <2>2. /\ db[p] # NoPath /\ db[p] = c /\ Kv(p) = NoKeys
        /\ hdr[p] \in Headers /\ hdr[p].index = 0 /\ hdr[p].data = r.data
    BY <2>1 DEF Inv, SessionsOK, Kv, Carried, CarriedBy
  <2>3. disk'[c] = Present(Put(NoKeys, createBatch(hdr[p])))
    BY <2>1, <2>2, WriteTouchesOne
  <2>4. Put(NoKeys, createBatch(hdr[p])) = createBatch(hdr[p])
    BY DEF Put, NoKeys, createBatch
  <2>5. Header(c)' = hdr[p]
    BY <2>2, <2>3, CreateBatchCompletes DEF Header, Present
  <2>6. [hdr[p] EXCEPT !.data = r.data, !.index = 0] = hdr[p]
    BY <2>2 DEF Headers
  <2>7. disk'[c] = Present(createBatch([Header(c)' EXCEPT !.data = r.data, !.index = 0]))
    BY <2>3, <2>4, <2>5, <2>6
  <2>8. res'[p].ok = TRUE
    BY <2>1, ReturnTells
  <2>9. Constructing(c)
    BY <2>1, <2>2 DEF Constructing
  <2> QED BY <1>1, <2>7, <2>8, <2>9 DEF Exact
<1> QED
  BY <1>2, <1>3

\* With one server the LOCK is free: a database that does not open is absent
\* or damaged.
LEMMA OpenRefusedAnswers ==
    ASSUME Inv, OneServer, Faultless, NEW p \in Procs, OpenRefused(p)
    PROVE  Answers(p)
<1> DEFINE c == req[p].path
<1>1. /\ res'[p].ok = FALSE
      /\ pc[p] \in Sessions
  BY ReturnTells DEF OpenRefused, Fail
<1>2. c \in Paths /\ req[p].op \in {"add", "getBlock", "getBlocks", "verify", "header", "info"}
  BY <1>1, SessionReads DEF Sessions, CallsAt
<1>3. ~IsPresent(c)
  BY <1>2, NoPathAssumption DEF OpenRefused, OpenDBFails, Locked, OneServer, Faultless
<1>4. ~Live(c)
  BY <1>3 DEF Live
<1> QED
  BY <1>1, <1>2, <1>3, <1>4 DEF Answers, Exact

LEMMA ReadHeaderAnswers ==
    ASSUME Inv, Faultless, NEW p \in Procs, ReadHeader(p), pc'[p] = "idle"
    PROVE  Answers(p)
<1> DEFINE c == req[p].path
           kv == disk[c].kv
<1>1. /\ pc[p] = "header" /\ req[p].op \in {"add", "verify", "header", "info"}
      /\ c \in Paths /\ IsPresent(c) /\ Kv(p) = kv /\ Complete(kv)
  BY SessionReads DEF ReadHeader, InSession, CallsAt
<1>2. CASE ~hasHeader(kv)
  <2>1. res'[p].ok = FALSE
    BY <1>1, <1>2, ReturnTells DEF ReadHeader, Fail
  <2>2. ~Live(c)
    BY <1>2 DEF Live, hasSupportedHeader
  <2> QED BY <1>1, <1>2, <2>1, <2>2 DEF Answers, Exact
<1>3. CASE hasHeader(kv)
  <2>1. ASSUME NEW next, NEW header, NEW block, EndSession(p, next, header, block),
               next # "idle"
        PROVE  FALSE
    BY <2>1 DEF EndSession, Inv, TypeOK
  <2>2. ASSUME NEW header, NEW prevHash PROVE ~BuildBlock(p, header, prevHash)
    BY <2>1 DEF BuildBlock, CryptoFails, Faultless
  <2>3. \/ req[p].op = "header" /\ Return(p, TRUE, getHeader(kv))
        \/ req[p].op = "info"
             /\ Return(p, TRUE, [version |-> getHeader(kv).version,
                                 index |-> getHeader(kv).index])
    BY <1>1, <1>3, <2>1, <2>2 DEF ReadHeader, ReadFails, Faultless
  <2>4. getHeader(kv).index = Cardinality(DOMAIN kv) - 1
    <3> HIDE DEF kv
    <3> QED BY <1>1, <1>3, CompleteCounts
  <2>5. CASE req[p].op = "header"
    <3>1. res'[p].ok = TRUE /\ res'[p].value = getHeader(kv)
      BY <2>3, <2>5, ReturnTells
    <3> QED BY <1>1, <1>3, <2>4, <2>5, <3>1 DEF Answers, Exact, Header
  <2>6. CASE req[p].op = "info"
    <3>1. /\ res'[p].ok = TRUE
          /\ res'[p].value = [version |-> getHeader(kv).version,
                              index |-> getHeader(kv).index]
      BY <2>3, <2>6, ReturnTells
    <3> QED BY <1>1, <1>3, <2>4, <2>6, <3>1 DEF Answers, Exact, Header
  <2> QED BY <2>3, <2>5, <2>6
<1> QED
  BY <1>2, <1>3

\* The last block of a chain of this build can be read.
LEMMA ReadLastAnswers ==
    ASSUME Inv, Current, Faultless, NEW p \in Procs, ReadLast(p), pc'[p] = "idle"
    PROVE  Answers(p)
<1> DEFINE c == req[p].path
           kv == disk[c].kv
<1>1. /\ pc[p] = "last" /\ req[p].op = "add" /\ IsPresent(c) /\ Kv(p) = kv /\ Complete(kv)
  BY SessionReads DEF ReadLast, InSession, CallsAt
<1>2. hasHeader(kv) /\ hdr[p] = getHeader(kv) /\ hdr[p].index # 0
  BY <1>1 DEF Current, CallCurrent, HeaderCurrent
<1>3. ASSUME NEW header, NEW prevHash PROVE ~BuildBlock(p, header, prevHash)
  BY DEF BuildBlock, CryptoFails, Faultless, EndSession, Inv, TypeOK
<1>4. Fail(p) /\ ~blockReadable(kv, hdr[p].index)
  BY <1>1, <1>3 DEF ReadLast, ReadFails, Faultless
<1>5. hasBlock(kv, hdr[p].index) /\ hdr[p].index <= getHeader(kv).index
  <2>1. getHeader(kv).index \in Nat
    BY <1>1, <1>2, CompleteCounts
  <2>2. kv # NoKeys
    BY <1>2 DEF hasHeader, NoKeys
  <2> QED BY <1>1, <1>2, <2>1, <2>2 DEF Complete
<1>6. ~Live(c)
  BY <1>2, <1>4, <1>5 DEF Live, blockReadable
<1>7. res'[p].ok = FALSE
  BY <1>4, ReturnTells DEF Fail
<1> QED
  BY <1>1, <1>6, <1>7 DEF Answers, Exact

LEMMA AppendBlockAnswers ==
    ASSUME Inv, Carried, Faultless, NEW p \in Procs, AppendBlock(p)
    PROVE  Answers(p)
<1> SUFFICES ASSUME NEW r, r = req[p], NEW c, c = r.path
             PROVE  Exact(r, res'[p].ok, res'[p].value, c)
  BY DEF Answers
<1> DEFINE kv == disk[c].kv
<1>1. /\ pc[p] = "append" /\ r.op = "add" /\ c \in Paths /\ IsPresent(c)
      /\ Kv(p) = kv /\ Complete(kv) /\ db[p] # NoPath /\ db[p] = c
      /\ blk[p].data = r.data
  BY SessionReads DEF AppendBlock, InSession, CallsAt, Carried, CarriedBy, Inv, SessionsOK
<1>2. CASE hasSupportedHeader(kv)
  <2>1. SetKeys(p, addBlockBatch(kv, blk[p])) /\ Return(p, TRUE, blk[p])
    BY <1>1, <1>2 DEF AppendBlock, SetKeysFails, ReadFails, Faultless
  <2>2. disk'[c].kv = Put(kv, addBlockBatch(kv, blk[p]))
    <3> HIDE DEF kv
    <3>1. disk'[c] = Present(Put(kv, addBlockBatch(kv, blk[p])))
      BY <1>1, <2>1, WriteTouchesOne
    <3> QED BY <3>1 DEF Present
  <2>3. EntriesOf(disk'[c].kv) = Append(EntriesOf(kv), r.data)
    BY <1>1, <1>2, <2>2, AddBlockBatchEntries DEF hasSupportedHeader
  <2>4. Entries(c)' = Append(Entries(c), r.data)
    BY <2>3 DEF EntriesOf, Entries, Header
  <2>5. res'[p].ok = TRUE /\ Live(c)
    BY <1>1, <1>2, <2>1, ReturnTells DEF Live
  <2> QED BY <1>1, <2>4, <2>5 DEF Exact
<1>3. CASE ~hasSupportedHeader(kv)
  <2>1. res'[p].ok = FALSE
    BY <1>1, <1>3, ReturnTells DEF AppendBlock, Fail
  <2> QED BY <1>1, <1>3, <2>1 DEF Exact, Live
<1> QED
  BY <1>2, <1>3

LEMMA ReadBlockAnswers ==
    ASSUME Inv, Faultless, NEW p \in Procs, ReadBlock(p)
    PROVE  Answers(p)
<1> DEFINE c == req[p].path
           kv == disk[c].kv
           i == req[p].index
<1>1. /\ pc[p] = "getBlock" /\ req[p].op = "getBlock" /\ IsPresent(c)
      /\ Kv(p) = kv /\ Complete(kv)
  BY SessionReads DEF ReadBlock, InSession, CallsAt
<1>2. i \in Nat
  BY <1>1, ManagerAssumption DEF Inv, TypeOK, Requests
<1>3. blockReadable(kv, i) <=> Live(c) /\ i \in 1..Header(c).index
  <2>1. CASE hasSupportedHeader(kv)
    <3>1. hasHeader(kv) /\ kv # NoKeys
      BY <2>1 DEF hasSupportedHeader, hasHeader, NoKeys
    <3>2. getHeader(kv).index \in Nat
      BY <1>1, <3>1, CompleteCounts
    <3>3. \A j \in 1..getHeader(kv).index : hasBlock(kv, j)
      BY <1>1, <3>1 DEF Complete
    <3> QED BY <1>1, <1>2, <2>1, <3>2, <3>3 DEF blockReadable, Live, Header
  <2>2. CASE ~hasSupportedHeader(kv)
    BY <2>2 DEF blockReadable, Live
  <2> QED BY <2>1, <2>2
<1>4. CASE blockReadable(kv, i)
  <2>1. Return(p, TRUE, getBlock(kv, i))
    BY <1>1, <1>4 DEF ReadBlock, ReadFails, Faultless
  <2>2. res'[p].ok = TRUE /\ res'[p].value = getBlock(kv, i)
    BY <2>1, ReturnTells
  <2>3. Blocks(c)[i] = getBlock(kv, i)
    BY <1>3, <1>4 DEF Blocks, getBlocks, Header
  <2> QED BY <1>1, <1>3, <1>4, <2>2, <2>3 DEF Answers, Exact
<1>5. CASE ~blockReadable(kv, i)
  <2>1. res'[p].ok = FALSE
    BY <1>1, <1>5, ReturnTells DEF ReadBlock, Fail
  <2> QED BY <1>1, <1>3, <1>5, <2>1 DEF Answers, Exact
<1> QED
  BY <1>4, <1>5

\* The header verifyChain checks the blocks against, read in its first session,
\* is the one they belong to.
LEMMA ReadBlocksAnswers ==
    ASSUME Inv, LinkedInv, Faultless, NEW p \in Procs, ReadBlocks(p)
    PROVE  Answers(p)
<1> DEFINE c == req[p].path
           kv == disk[c].kv
<1>1. /\ pc[p] = "blocks" /\ req[p].op \in {"getBlocks", "verify"} /\ IsPresent(c)
      /\ Kv(p) = kv /\ Complete(kv) /\ c \in Paths
  BY SessionReads DEF ReadBlocks, InSession, CallsAt
<1>2. blocksReadable(kv) <=> Live(c)
  <2>1. ASSUME hasSupportedHeader(kv)
        PROVE  \A j \in 1..getHeader(kv).index : hasBlock(kv, j)
    <3>1. kv # NoKeys
      BY <2>1 DEF hasSupportedHeader, hasHeader, NoKeys
    <3> QED BY <1>1, <3>1 DEF Complete
  <2> QED BY <1>1, <2>1 DEF blocksReadable, Live
<1>3. CASE ~blocksReadable(kv)
  <2>1. res'[p].ok = FALSE
    BY <1>1, <1>3, ReturnTells DEF ReadBlocks, Fail
  <2> QED BY <1>1, <1>2, <1>3, <2>1 DEF Answers, Exact
<1>4. CASE blocksReadable(kv) /\ req[p].op = "getBlocks"
  <2>1. Return(p, TRUE, getBlocks(kv))
    BY <1>1, <1>4 DEF ReadBlocks, ReadFails, Faultless
  <2>2. res'[p].ok = TRUE /\ res'[p].value = Blocks(c)
    BY <2>1, ReturnTells DEF Blocks
  <2> QED BY <1>2, <1>4, <2>2 DEF Answers, Exact
<1>5. CASE blocksReadable(kv) /\ req[p].op = "verify"
  <2>1. hdr[p] = getHeader(kv)
    BY <1>1, <1>5 DEF LinkedInv, Current, CallCurrent, HeaderCurrent
  <2>2. verifyBlocks(hdr[p], getBlocks(kv))
    BY <1>1, <1>2, <1>5, <2>1, LinkedVerify DEF ChainsVerify, Header, Blocks
  <2>3. Return(p, verifyBlocks(hdr[p], getBlocks(kv)), None)
    BY <1>1, <1>5 DEF ReadBlocks, ReadFails, CryptoFails, Faultless
  <2>4. res'[p].ok = verifyBlocks(hdr[p], getBlocks(kv))
    BY <2>3, ReturnTells
  <2> QED BY <1>2, <1>5, <2>2, <2>4 DEF Answers, Exact
<1> QED
  BY <1>1, <1>3, <1>4, <1>5

LEMMA RemoveAnswers ==
    ASSUME Inv, OneServer, Faultless, NEW p \in Procs, RemoveChain(p)
    PROVE  Answers(p)
<1> DEFINE c == req[p].path
<1>1. pc[p] = "remove" /\ req[p].op = "remove" /\ c \in Paths
  BY SessionReads DEF RemoveChain, CallsAt
<1>2. db[p] = NoPath
  BY <1>1 DEF Inv, SessionsOK, Sessions
<1>3. ~Locked(c)
  BY <1>1, <1>2, NoPathAssumption DEF Locked, OneServer
<1>4. DestroyDB(c) /\ Return(p, TRUE, None)
  BY <1>3 DEF RemoveChain, DestroyDBFails, Faultless
<1>5. disk'[c] = Absent
  BY <1>1, <1>4 DEF DestroyDB, Inv, TypeOK
<1>6. res'[p].ok = TRUE
  BY <1>4, ReturnTells
<1> QED
  BY <1>1, <1>5, <1>6 DEF Answers, Exact

\* Only createChain puts a chain under construction, and only where none is.
LEMMA ConstructionIsFounded ==
    ASSUME Inv, [Next]_vars, NEW c \in Paths
    PROVE  Founded(c)
<1> SUFFICES ASSUME ~Constructing(c), Constructing(c)'
             PROVE  disk[c].state = "absent"
  BY DEF Founded
<1>1. PICK q \in Procs : pc'[q] = "createSet" /\ db'[q] = c
  BY DEF Constructing
<1>2. ~(pc[q] = "createSet" /\ db[q] = c)
  BY DEF Constructing
<1>3. PICK p \in Procs : (\E r \in Requests : Start(p, r)) \/ Step(p) \/ Crash(p)
  BY <1>1, <1>2 DEF Next, vars, localVars, storageVars
<1>4. ASSUME NEW r \in Requests, Start(p, r) PROVE FALSE
  BY <1>1, <1>2, <1>4 DEF Start, entry, Requests, storageVars, Inv, TypeOK
<1>5. q = p /\ ~Finished(p)
  BY <1>1, <1>2, <1>3, <1>4, StepCarries DEF OthersStand, Finished, Inv, TypeOK
<1>6. ~Crash(p) /\ \A ok, v : ~Return(p, ok, v)
  BY <1>5, ReturnFinishes DEF Crash, CloseDB, Finished, Inv, TypeOK
<1>7. ~OpenStore(p)
  BY <1>1, <1>5 DEF OpenStore, localVars, Sessions
<1>8. ASSUME NEW header, NEW block, NEW next \in {"append", "last", "blocks"}
      PROVE  ~EndSession(p, next, header, block)
  BY <1>1, <1>5 DEF EndSession, Inv, TypeOK
<1>9. CreateOpen(p)
  <2>1. ~Fail(p) /\ \A header, prevHash : ~BuildBlock(p, header, prevHash)
    BY <1>6, <1>8 DEF Fail, BuildBlock
  <2>2. ~CreateRefused(p) /\ ~CreateSet(p) /\ ~OpenRefused(p) /\ ~ReadLast(p)
    BY <1>6, <2>1 DEF CreateRefused, CreateSet, OpenRefused, ReadLast
  <2>3. ~ReadHeader(p)
    <3> SUFFICES ASSUME ReadHeader(p) PROVE FALSE
      OBVIOUS
    <3>1. req[p].op \in {"add", "verify", "header", "info"}
      BY SessionReads DEF ReadHeader, InSession, CallsAt
    <3> PICK header : header = getHeader(Kv(p))
      OBVIOUS
    <3>2. /\ ~EndSession(p, "last", header, None) /\ ~EndSession(p, "blocks", header, None)
          /\ ~BuildBlock(p, header, headerHash(header))
          /\ ~Return(p, TRUE, header)
          /\ ~Return(p, TRUE, [version |-> header.version, index |-> header.index])
      BY <1>6, <1>8, <2>1
    <3> QED BY <2>1, <3>1, <3>2 DEF ReadHeader
  <2>4. ~AppendBlock(p) /\ ~ReadBlock(p) /\ ~ReadBlocks(p) /\ ~RemoveChain(p)
    BY <1>6, <2>1 DEF AppendBlock, ReadBlock, ReadBlocks, RemoveChain
  <2> QED BY <1>3, <1>4, <1>6, <1>7, <2>2, <2>3, <2>4 DEF Step
<1> QED
  BY <1>1, <1>5, <1>9, NoPathAssumption DEF CreateOpen, CreateDB, Inv, TypeOK

\* One server on faultless ground answers every call exactly, for every number
\* of chains, payloads and blocks: a call succeeds if and only if its chain is
\* in the state the call needs when it returns, and returns or does what its
\* name says; a chain comes into existence only where there was none.
THEOREM ExactReplies == OneServer /\ Faultless => (Spec => RepliesExact)
<1> SUFFICES ASSUME OneServer, Faultless PROVE Spec => RepliesExact
  OBVIOUS
<1>1. Inv /\ Carried /\ LinkedInv /\ [Next]_vars =>
        [/\ \A p \in Procs : pc[p] # "idle" /\ pc'[p] = "idle" =>
                \A r \in {req[p]} : Exact(r, res'[p].ok, res'[p].value, r.path)
         /\ \A c \in Paths : Founded(c)]_vars
  <2> SUFFICES ASSUME Inv, Carried, LinkedInv, Next, NEW p \in Procs,
                      pc[p] # "idle", pc'[p] = "idle"
               PROVE  Answers(p)
    BY ConstructionIsFounded DEF Answers
  <2>1. Step(p)
    <3>1. PICK q \in Procs : (\E r \in Requests : Start(q, r)) \/ Step(q) \/ Crash(q)
      BY DEF Next
    <3>2. q = p
      BY DEF OneServer
    <3> QED BY <3>1, <3>2 DEF Start, Crash, Faultless
  <2>2. ~CreateOpen(p) /\ ~OpenStore(p)
    BY DEF CreateOpen, OpenStore, localVars, Inv, TypeOK
  <2>3. Current
    BY DEF LinkedInv
  <2> QED
    BY <2>1, <2>2, <2>3, CreateAnswers, OpenRefusedAnswers, ReadHeaderAnswers,
       ReadLastAnswers, AppendBlockAnswers, ReadBlockAnswers, ReadBlocksAnswers,
       RemoveAnswers DEF Step
<1> QED
  BY <1>1, InvHolds, CarriedHolds, LinkedHolds, PTL DEF Spec, RepliesExact

=============================================================================
