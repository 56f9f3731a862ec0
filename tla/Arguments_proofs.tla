-------------------------- MODULE Arguments_proofs --------------------------
(***************************************************************************)
(* What parseArgs makes of a command line, for every set of options, every  *)
(* command line and every range of int.                                     *)
(***************************************************************************)
EXTENDS Arguments, SequenceTheorems, TLAPS

(***************************************************************************)
(* The loop invariant: the first k pairs of the command line are without    *)
(* flaw and the variables hold what the last of them says for each key.     *)
(* When the loop has ended there is no other pair, or the next one is       *)
(* flawed.                                                                  *)
(***************************************************************************)

\* The variable of x after k pairs.
HoldsAfter(x, k) ==
    \/ /\ \A n \in 1..k : key(n) # x
       /\ option[x] = Defaults[x]
    \/ \E n \in 1..k :
        /\ key(n) = x
        /\ \A m \in 1..k : key(m) = x => m <= n
        /\ option[x] = convert(x, value(n))

Read(k) ==
    /\ i = 2 * k + 1
    /\ 2 * k <= Len(argv)
    /\ \A n \in 1..k : ~Flawed(n)
    /\ \A x \in DOMAIN HandlerMap : HoldsAfter(x, k)

Stopped(k) ==
    /\ parsed = "accepted" => Len(argv) = 2 * k
    /\ parsed \in {"refused", "terminated"} => k + 1 \in Pairs /\ Flawed(k + 1)

ParseInv ==
    /\ argv \in Seq(Words)
    /\ option = [x \in DOMAIN HandlerMap |-> option[x]]
    /\ parsed \in {"parsing", "accepted", "refused", "terminated"}
    /\ \E k \in Nat : Read(k) /\ Stopped(k)

-----------------------------------------------------------------------------

LEMMA Lengths ==
    ASSUME argv \in Seq(Words)
    PROVE  /\ Len(argv) \in Nat /\ \A n \in 1..Len(argv) : argv[n] \in Words
           /\ \A n \in Nat : n \in Pairs <=> 1 <= n /\ 2 * n <= Len(argv) + 1
<1>1. Len(argv) \in Nat /\ \A n \in 1..Len(argv) : argv[n] \in Words
  BY LenProperties, ElementOfSeq
<1>2. \A l, n \in Nat : n <= (l + 1) \div 2 <=> 2 * n <= l + 1
  OBVIOUS
<1>3. \A l \in Nat : (l + 1) \div 2 \in Nat
  OBVIOUS
<1> QED
  BY <1>1, <1>2, <1>3 DEF Pairs

\* The word at the loop variable is the key of the next pair.
LEMMA NextPair ==
    ASSUME ParseInv, parsed = "parsing", NEW k \in Nat, Read(k)
    PROVE  /\ Key = key(k + 1)
           /\ i < Len(argv) => HasValue(k + 1) /\ argv[i + 1] = value(k + 1)
                               /\ k + 1 \in Pairs /\ value(k + 1) \in Words
           /\ i = Len(argv) => ~HasValue(k + 1) /\ k + 1 \in Pairs
           /\ i > Len(argv) => Len(argv) = 2 * k
<1>1. /\ Len(argv) \in Nat /\ \A n \in 1..Len(argv) : argv[n] \in Words
      /\ k + 1 \in Pairs <=> 2 * (k + 1) <= Len(argv) + 1
  BY Lengths DEF ParseInv
<1>2. i = 2 * k + 1 /\ 2 * k <= Len(argv)
  BY DEF Read
<1>3. 2 * (k + 1) - 1 = 2 * k + 1 /\ 2 * (k + 1) = (2 * k + 1) + 1
  OBVIOUS
<1>4. Key = key(k + 1)
  BY <1>2, <1>3 DEF Key, key
<1>5. ASSUME i < Len(argv)
      PROVE  /\ HasValue(k + 1) /\ argv[i + 1] = value(k + 1)
             /\ k + 1 \in Pairs /\ value(k + 1) \in Words
  <2>1. 2 * (k + 1) \in 1..Len(argv) /\ 2 * (k + 1) <= Len(argv) + 1
    BY <1>1, <1>2, <1>5
  <2> QED BY <1>1, <1>2, <1>3, <2>1 DEF HasValue, value
<1>6. i = Len(argv) => ~HasValue(k + 1) /\ k + 1 \in Pairs
  BY <1>1, <1>2 DEF HasValue
<1>7. i > Len(argv) => Len(argv) = 2 * k
  BY <1>1, <1>2
<1> QED
  BY <1>4, <1>5, <1>6, <1>7

\* The loop ends at pair k.
LEMMA EndKeepsInv ==
    ASSUME ParseInv, NEW k \in Nat, Read(k), NEW how \in {"accepted", "refused", "terminated"},
           End(how),
           how = "accepted" => Len(argv) = 2 * k,
           how # "accepted" => k + 1 \in Pairs /\ Flawed(k + 1)
    PROVE  ParseInv'
<1>1. UNCHANGED <<argv, i, option>> /\ parsed' = how
  BY DEF End
<1>2. \A n : /\ key(n)' = key(n) /\ value(n)' = value(n) /\ HasValue(n)' = HasValue(n)
             /\ Flawed(n)' = Flawed(n)
  BY <1>1 DEF key, value, HasValue, Flawed
<1>3. \A x : HoldsAfter(x, k)' = HoldsAfter(x, k)
  BY <1>1 DEF HoldsAfter, key, value
<1>4. Read(k)'
  BY <1>1, <1>2, <1>3 DEF Read
<1>5. Stopped(k)'
  BY <1>1, <1>2 DEF Stopped, Pairs
<1> QED
  BY <1>1, <1>4, <1>5 DEF ParseInv

\* One more pair.
LEMMA AssignKeepsInv ==
    ASSUME ParseInv, Assign
    PROVE  ParseInv'
<1>1. PICK k \in Nat : Read(k)
  BY DEF ParseInv
<1>2. /\ parsed = "parsing" /\ i < Len(argv) /\ Key \in DOMAIN HandlerMap
      /\ ~Throws(Key, argv[i + 1])
      /\ option' = [option EXCEPT ![Key] = convert(Key, argv[i + 1])]
      /\ i' = i + 2 /\ UNCHANGED <<argv, parsed>>
  BY DEF Assign, AtPair, Known
<1>3. /\ Key = key(k + 1) /\ HasValue(k + 1) /\ argv[i + 1] = value(k + 1)
      /\ value(k + 1) \in Words
  BY <1>1, <1>2, NextPair
<1>4. /\ i = 2 * k + 1 /\ \A n \in 1..k : ~Flawed(n)
      /\ \A x \in DOMAIN HandlerMap : HoldsAfter(x, k)
  BY <1>1 DEF Read
<1>5. ~Flawed(k + 1)
  <2>1. value(k + 1).number \in Int \cup {NaN}
    BY <1>3, ArgumentsAssumption
  <2> QED BY <1>2, <1>3, <2>1 DEF Flawed, Throws, invalid_argument, out_of_range
<1>6. \A n : /\ key(n)' = key(n) /\ value(n)' = value(n) /\ HasValue(n)' = HasValue(n)
             /\ Flawed(n)' = Flawed(n)
  BY <1>2 DEF key, value, HasValue, Flawed
<1>7. \A n \in 1..(k + 1) : n \in 1..k \/ n = k + 1
  OBVIOUS
<1>8. \A n \in 1..k : n \in 1..(k + 1) /\ n <= k + 1
  OBVIOUS
<1>9. /\ option' = [x \in DOMAIN HandlerMap |-> option'[x]]
      /\ option'[Key] = convert(Key, argv[i + 1])
      /\ \A x \in DOMAIN HandlerMap : x # Key => option'[x] = option[x]
  BY <1>2 DEF ParseInv
<1>10. ASSUME NEW x \in DOMAIN HandlerMap PROVE HoldsAfter(x, k + 1)'
  <2>1. CASE x = Key
    <3>1. /\ key(k + 1) = x /\ option'[x] = convert(x, value(k + 1))
          /\ k + 1 \in 1..(k + 1)
      BY <1>3, <1>9, <2>1
    <3>2. \A m \in 1..(k + 1) : m <= k + 1
      OBVIOUS
    <3> QED BY <1>6, <3>1, <3>2 DEF HoldsAfter
  <2>2. CASE x # Key
    <3>1. key(k + 1) # x /\ option'[x] = option[x] /\ HoldsAfter(x, k)
      BY <1>3, <1>4, <1>9, <2>2
    <3>2. CASE /\ \A n \in 1..k : key(n) # x
               /\ option[x] = Defaults[x]
      <4>1. \A n \in 1..(k + 1) : key(n) # x
        BY <1>7, <3>1, <3>2
      <4> QED BY <1>6, <3>1, <3>2, <4>1 DEF HoldsAfter
    <3>3. ASSUME NEW n \in 1..k, key(n) = x, \A m \in 1..k : key(m) = x => m <= n,
                 option[x] = convert(x, value(n))
          PROVE  HoldsAfter(x, k + 1)'
      <4>1. \A m \in 1..(k + 1) : key(m) = x => m <= n
        BY <1>7, <3>1, <3>3
      <4> QED BY <1>6, <1>8, <3>1, <3>3, <4>1 DEF HoldsAfter
    <3> QED BY <3>1, <3>2, <3>3 DEF HoldsAfter
  <2> QED BY <2>1, <2>2
<1>11. i' = 2 * (k + 1) + 1 /\ 2 * (k + 1) <= Len(argv)
  BY <1>2, <1>3, <1>4 DEF HasValue
<1>12. \A n \in 1..(k + 1) : ~Flawed(n)
  BY <1>4, <1>5, <1>7
<1>13. PICK l \in Nat : l = k + 1
  OBVIOUS
<1>14. Read(l)'
  BY <1>2, <1>6, <1>10, <1>11, <1>12, <1>13 DEF Read
<1>15. Stopped(l)'
  BY <1>2 DEF Stopped
<1> QED
  BY <1>2, <1>9, <1>14, <1>15 DEF ParseInv

LEMMA ParseInvHolds == ParseSpec => []ParseInv
<1>1. ParseInit => ParseInv
  <2> SUFFICES ASSUME ParseInit PROVE ParseInv
    OBVIOUS
  <2>1. argv \in Seq(Words)
    <3>1. PICK n \in 0..MaxWords : argv \in [1..n -> Words]
      BY DEF ParseInit, CommandLines
    <3>2. n \in Nat
      BY ArgumentsAssumption
    <3> QED BY <3>1, <3>2
  <2>2. i = 2 * 0 + 1 /\ 2 * 0 <= Len(argv) /\ 1..0 = {}
    BY <2>1 DEF ParseInit
  <2>3. Read(0)
    BY <2>2 DEF Read, HoldsAfter, ParseInit
  <2> QED BY <2>1, <2>3, ArgumentsAssumption DEF ParseInit, ParseInv, Stopped
<1>2. ParseInv /\ [Parse]_argumentVars => ParseInv'
  <2> SUFFICES ASSUME ParseInv, [Parse]_argumentVars PROVE ParseInv'
    OBVIOUS
  <2>1. PICK k \in Nat : Read(k) /\ Stopped(k)
    BY DEF ParseInv
  <2>2. CASE UNCHANGED argumentVars
    BY <2>2 DEF argumentVars, ParseInv, Read, Stopped, HoldsAfter, Flawed, key, value,
                HasValue, Pairs
  <2>3. CASE Assign
    BY <2>3, AssignKeepsInv
  <2>4. CASE Accept
    <3>1. parsed = "parsing" /\ i > Len(argv) /\ End("accepted")
      BY <2>4 DEF Accept
    <3> QED BY <2>1, <3>1, NextPair, EndKeepsInv
  <2>5. CASE MissingArgument
    <3>1. parsed = "parsing" /\ i = Len(argv) /\ End("refused")
      BY <2>5 DEF MissingArgument
    <3>2. k + 1 \in Pairs /\ Flawed(k + 1)
      BY <2>1, <3>1, NextPair DEF Flawed
    <3> QED BY <2>1, <3>1, <3>2, EndKeepsInv
  <2>6. CASE UnknownKey \/ InvalidArgument \/ OutOfRange
    <3>1. parsed = "parsing" /\ i < Len(argv)
      BY <2>6 DEF UnknownKey, InvalidArgument, OutOfRange, AtPair
    <3>2. Key = key(k + 1) /\ argv[i + 1] = value(k + 1) /\ k + 1 \in Pairs
      BY <2>1, <3>1, NextPair
    <3>3. Flawed(k + 1)
      BY <2>6, <3>2, ArgumentsAssumption
         DEF UnknownKey, InvalidArgument, OutOfRange, Known, Flawed,
             invalid_argument, out_of_range
    <3>4. PICK how \in {"refused", "terminated"} : End(how)
      BY <2>6 DEF UnknownKey, InvalidArgument, OutOfRange
    <3> QED BY <2>1, <3>2, <3>3, <3>4, EndKeepsInv
  <2> QED BY <2>2, <2>3, <2>4, <2>5, <2>6 DEF Parse
<1> QED
  BY <1>1, <1>2, PTL DEF ParseSpec

\* The loop has read what the command line means.
LEMMA ReadsWhatIsMeant ==
    ASSUME ParseInv
    PROVE  ParsedExactly
<1> SUFFICES ASSUME parsed # "parsing"
             PROVE  /\ parsed = "accepted" <=> Flawless
                    /\ option = [x \in DOMAIN HandlerMap |-> Meant(x)]
  BY DEF ParsedExactly
<1>1. PICK k \in Nat : Read(k) /\ Stopped(k)
  BY DEF ParseInv
<1>2. /\ Len(argv) \in Nat /\ \A n \in Nat : n \in Pairs <=> 1 <= n /\ 2 * n <= Len(argv) + 1
  BY Lengths DEF ParseInv
<1>3. Pairs \subseteq Nat
  BY DEF Pairs
<1>4. 2 * k <= Len(argv) /\ \A n \in 1..k : ~Flawed(n)
  BY <1>1 DEF Read
<1>5. \A n \in 1..k : n \in Pairs
  BY <1>2, <1>4
<1>6. \/ parsed = "accepted" /\ Pairs = 1..k
      \/ parsed # "accepted" /\ k + 1 \in Pairs /\ Flawed(k + 1)
  <2>1. CASE parsed = "accepted"
    <3>1. Len(argv) = 2 * k
      BY <1>1, <2>1 DEF Stopped
    <3>2. \A n \in Nat : n \in Pairs <=> n \in 1..k
      BY <1>2, <3>1
    <3>3. 1..k \subseteq Nat
      OBVIOUS
    <3>4. Pairs = 1..k
      BY <1>3, <3>2, <3>3, Zenon
    <3> QED BY <2>1, <3>4
  <2>2. CASE parsed \in {"refused", "terminated"}
    BY <1>1, <2>2 DEF Stopped
  <2> QED BY <2>1, <2>2 DEF ParseInv
<1>7. parsed = "accepted" <=> Flawless
  BY <1>4, <1>6 DEF Flawless
<1>8. Taken = 1..k
  <2>1. ASSUME NEW n \in 1..k PROVE n \in Taken
    <3>1. \A j \in 1..n : j \in 1..k
      OBVIOUS
    <3> QED BY <1>4, <1>5, <3>1 DEF Taken
  <2>2. ASSUME NEW n \in Taken PROVE n \in 1..k
    <3>1. n \in Pairs /\ n \in Nat /\ 1 <= n /\ \A j \in 1..n : ~Flawed(j)
      BY <1>2, <1>3 DEF Taken
    <3>2. n > k => k + 1 \in 1..n
      BY <3>1
    <3> QED BY <1>6, <3>1, <3>2
  <2> QED BY <2>1, <2>2
<1>9. ASSUME NEW x \in DOMAIN HandlerMap PROVE option[x] = Meant(x)
  <2>1. Given(x) = {n \in 1..k : key(n) = x}
    BY <1>8 DEF Given
  <2>2. HoldsAfter(x, k)
    BY <1>1 DEF Read
  <2>3. CASE /\ \A n \in 1..k : key(n) # x
             /\ option[x] = Defaults[x]
    BY <2>1, <2>3 DEF Meant
  <2>4. ASSUME NEW n \in 1..k, key(n) = x, \A m \in 1..k : key(m) = x => m <= n,
               option[x] = convert(x, value(n))
        PROVE  option[x] = Meant(x)
    <3>1. n \in Given(x) /\ (\A j \in Given(x) : j <= n) /\ Given(x) \subseteq Nat
      BY <2>1, <2>4
    <3>2. LastGiven(x) \in Given(x) /\ \A j \in Given(x) : j <= LastGiven(x)
      BY <3>1 DEF LastGiven
    <3>3. LastGiven(x) = n
      <4>1. \A a, b \in Nat : a <= b /\ b <= a => a = b
        OBVIOUS
      <4> QED BY <3>1, <3>2, <4>1
    <3> QED BY <2>4, <3>1, <3>3 DEF Meant
  <2> QED BY <2>2, <2>3, <2>4 DEF HoldsAfter
<1>10. option = [x \in DOMAIN HandlerMap |-> Meant(x)]
  BY <1>9 DEF ParseInv
<1> QED
  BY <1>7, <1>10

\* The variable of an int option holds an int.
LEMMA IntsAreInts ==
    ASSUME ParseInv, NEW x \in DOMAIN HandlerMap, HandlerMap[x] = "int", Defaults[x] \in Int
    PROVE  option[x] \in Int
<1>1. PICK k \in Nat : Read(k)
  BY DEF ParseInv
<1>2. HoldsAfter(x, k) /\ \A n \in 1..k : ~Flawed(n)
  BY <1>1 DEF Read
<1>3. ASSUME NEW n \in 1..k, key(n) = x PROVE convert(x, value(n)) \in Int
  BY <1>2, <1>3 DEF Flawed, convert
<1> QED
  BY <1>2, <1>3 DEF HoldsAfter

\* parseArgs gives every option the value its last pair before the first flaw
\* says, and accepts a command line if and only if it has no flaw: for every
\* set of options, every length of the command line and every int.
THEOREM OptionsAsMeant == ParseSpec => []ParsedExactly
<1>1. ParseInv => ParsedExactly
  BY ReadsWhatIsMeant
<1> QED
  BY <1>1, ParseInvHolds, PTL

=============================================================================
