------------------------------- MODULE Ledger -------------------------------
(***************************************************************************)
(* What a ChainDB storage directory promises its users, without databases,  *)
(* sessions, locks, hashes or processes: a set of named ledgers.  A ledger  *)
(* comes into existence empty, grows at its end only, by one entry at a     *)
(* time, never changes its founding data or its key, and goes as a whole.   *)
(*                                                                         *)
(* The construction has two stages, so that a ledger may be reserved and    *)
(* never be founded; an orphan like that, a ledger of a foreign layout and  *)
(* what an interrupted removal leaves can only be removed.                  *)
(***************************************************************************)
EXTENDS Sequences

CONSTANTS
    Names,      \* the names of ledgers
    Payloads,   \* what a ledger is founded with and what an entry holds
    Keys        \* the keys a ledger is founded with

VARIABLE ledger

Nothing == [state |-> "absent"]
Reserved == [state |-> "reserved"]
Orphan == [state |-> "orphan"]
Foreign == [state |-> "foreign"]
Broken == [state |-> "broken"]
Live(payload, key, entries) ==
    [state |-> "live", payload |-> payload, key |-> key, entries |-> entries]

Init == ledger \in [Names -> {Nothing, Foreign}]

Become(c, new) == ledger' = [ledger EXCEPT ![c] = new]

Reserve(c) == ledger[c] = Nothing /\ Become(c, Reserved)

Found(c, payload, key) ==
    ledger[c] = Reserved /\ Become(c, Live(payload, key, <<>>))

\* Whoever reserved the name gave up.
Abandon(c) == ledger[c] \in {Nothing, Reserved} /\ Become(c, Orphan)

AppendEntry(c, payload) ==
    /\ ledger[c].state = "live"
    /\ ledger' = [ledger EXCEPT ![c].entries = Append(@, payload)]

\* A name somebody is constructing cannot be removed.
Remove(c) ==
    /\ ledger[c].state \notin {"absent", "reserved"}
    /\ Become(c, Nothing) \/ Become(c, Broken)

Next ==
    \E c \in Names :
        \/ Reserve(c)
        \/ \E payload \in Payloads, key \in Keys : Found(c, payload, key)
        \/ Abandon(c)
        \/ \E payload \in Payloads : AppendEntry(c, payload)
        \/ Remove(c)

Spec == Init /\ [][Next]_ledger

=============================================================================
