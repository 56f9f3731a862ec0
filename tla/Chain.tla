------------------------------- MODULE Chain --------------------------------
(***************************************************************************)
(* Core::Storage::Chain and Core::Storage::Block (src/Storage/Chain.cpp,    *)
(* Block.cpp): how a chain is laid out in one database, as operators over   *)
(* the map kv of the open database.  A chain is a header under              *)
(* DB_HEADER_KEY, whose index is the number of blocks, and block i under    *)
(* makeBlockName(i).                                                        *)
(***************************************************************************)
EXTENDS Storage, Crypto

CONSTANTS
    DB_VERSION  \* the layout version of this build

ASSUME VersionAssumption == DB_VERSION \in Nat

DB_HEADER_KEY == <<"__HEADER">>
makeBlockName(index) == <<"__BLOCK/", index>>

\* Chain::Header::pack and Block::Container::pack: the protobuf messages the
\* database stores.  unpack accepts only a message of its own type, whose
\* byte fields have the lengths of the types they are copied into.
packHeader(header) == [message |-> "Header", fields |-> header]
packBlock(block) == [message |-> "Block", fields |-> block]
unpack(bytes) == bytes.fields

newHeader(data, privateKey, publicKey) ==
    [version |-> DB_VERSION, index |-> 0, data |-> data,
     privateKey |-> privateKey, publicKey |-> publicKey]

\* Chain::getHeader(): succeeds when the header is there and unpacks,
\* whatever its version.
hasHeader(kv) ==
    /\ DB_HEADER_KEY \in DOMAIN kv
    /\ kv[DB_HEADER_KEY].message = "Header"
getHeader(kv) == unpack(kv[DB_HEADER_KEY])

hasSupportedHeader_AnyVersion(kv) == hasHeader(kv)

\* Chain::getHeader(storage), used by addBlock, getBlock and getBlocks: the
\* version must be this build's as well.
hasSupportedHeader(kv) ==
    /\ hasHeader(kv)
    /\ getHeader(kv).version = DB_VERSION

hasBlock(kv, index) ==
    /\ makeBlockName(index) \in DOMAIN kv
    /\ kv[makeBlockName(index)].message = "Block"

blockReadable_Below(kv, index) ==
    /\ hasSupportedHeader(kv)
    /\ index # 0
    /\ index < getHeader(kv).index
    /\ hasBlock(kv, index)

\* Chain::getBlock succeeds for an index from 1 to the header's.
blockReadable(kv, index) ==
    /\ hasSupportedHeader(kv)
    /\ index # 0
    /\ index <= getHeader(kv).index
    /\ hasBlock(kv, index)
getBlock(kv, index) == unpack(kv[makeBlockName(index)])

\* Chain::getBlocks: blocks 1 to index in order; it fails when one is missing.
blocksReadable(kv) ==
    /\ hasSupportedHeader(kv)
    /\ \A i \in 1..getHeader(kv).index : hasBlock(kv, i)

getBlocks_Short(kv) == [i \in 1..(getHeader(kv).index - 1) |-> getBlock(kv, i)]

getBlocks(kv) == [i \in 1..getHeader(kv).index |-> getBlock(kv, i)]

\* Chain::create: the batch that makes an empty database a chain.
createBatch(header) == [key \in {DB_HEADER_KEY} |-> packHeader(header)]

\* Chain::addBlock: the header it has just read, with the index advanced, and
\* the block under the new index, in one batch.
addBlockBatch(kv, block) ==
    LET header == [getHeader(kv) EXCEPT !.index = @ + 1]
    IN  [key \in {DB_HEADER_KEY, makeBlockName(header.index)} |->
            IF key = DB_HEADER_KEY THEN packHeader(header) ELSE packBlock(block)]

=============================================================================
