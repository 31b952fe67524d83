--------------------------- MODULE SettingsProofs ---------------------------
(***************************************************************************)
(* Proofs about Settings: for durations of any width and any bodies, the   *)
(* timers are usable, an accepted node has a key, the server falls back to *)
(* an address only if it has one, a setting is read in each of its         *)
(* spellings, and a node comes back from the cache as it was saved.        *)
(***************************************************************************)
EXTENDS Settings, SequenceTheorems, WellFoundedInduction, TLAPS

-----------------------------------------------------------------------------
(* Durations.                                                              *)

LEMMA HalfType == Half \in Nat /\ Half > Minute /\ Minute > 0
  BY DurationAssumption DEF Half

LEMMA ModRange ==
  ASSUME NEW n \in Int, NEW m \in Nat, m > 0
  PROVE  n % m \in 0..(m - 1)
  OBVIOUS

LEMMA ModSmall ==
  ASSUME NEW m \in Nat, NEW n \in 0..(m - 1)
  PROVE  n % m = n
  OBVIOUS

LEMMA WrapRange ==
  ASSUME NEW n \in Int
  PROVE  wrap(n) \in (-Half)..MaxDuration
<1>1. n + Half \in Int /\ 2 * Half \in Nat /\ 2 * Half > 0
  BY HalfType, DurationAssumption
<1>2. (n + Half) % (2 * Half) \in 0..(2 * Half - 1)
  BY <1>1, ModRange
<1>3. QED
  BY <1>1, <1>2, HalfType DEF wrap, MaxDuration

LEMMA WrapExact ==
  ASSUME NEW n \in 0..MaxDuration
  PROVE  wrap(n) = n
<1>1. n + Half \in 0..(2 * Half - 1) /\ 2 * Half \in Nat /\ n \in Int
  BY HalfType DEF MaxDuration
<1>2. (n + Half) % (2 * Half) = n + Half
  BY <1>1, ModSmall
<1>3. QED
  BY <1>1, <1>2, HalfType DEF wrap

LEMMA IntervalPositive ==
  ASSUME NEW v \in IntervalValue, NEW d \in 0..MaxDuration
  PROVE  /\ interval(v, d) \in Duration
         /\ v.kind = "seconds" /\ v.n * Second \in Duration => interval(v, d) = v.n * Second
         /\ v.kind = "nil" /\ d > 0 => interval(v, d) = d
<1>1. seconds(v) \in Int /\ (v.kind = "seconds" => seconds(v) = v.n)
  BY DEF seconds, IntervalValue
<1>2. seconds(v) * Second \in Int
  BY <1>1, DurationAssumption
<1>3. intervalToDuration(v) \in (-Half)..MaxDuration
  BY <1>2, WrapRange DEF intervalToDuration
<1>4. Minute \in Duration
  BY HalfType, DurationAssumption DEF Duration, MaxDuration
<1>5. v.kind = "seconds" /\ v.n * Second \in Duration => intervalToDuration(v) = v.n * Second
  BY <1>1, WrapExact, HalfType DEF intervalToDuration, Duration, MaxDuration
<1>6. interval(v, d) \in Duration
  BY <1>3, <1>4, HalfType DEF interval, Duration, MaxDuration
<1>7. v.kind = "seconds" /\ v.n * Second \in Duration => interval(v, d) = v.n * Second
  BY <1>5, HalfType DEF interval, Duration, MaxDuration
<1>8. v.kind = "nil" /\ d > 0 => interval(v, d) = d
  BY HalfType DEF interval, MaxDuration
<1>9. QED
  BY <1>6, <1>7, <1>8

-----------------------------------------------------------------------------
(* Bodies and nodes.  Only the intervals and the keys matter here.         *)

Relevant == {"push", "pull", "pushInterval", "pullInterval", "public", "private"}

\* What UnmarshalJSON is given: a body, or a node from the cache.
Input(b) ==
  /\ b.push \in IntervalValue /\ b.pull \in IntervalValue
  /\ b.pushInterval \in 0..MaxDuration /\ b.pullInterval \in 0..MaxDuration

Trimmed(t) == TrimSpace(t) = t

\* What UnmarshalJSON and Normalize make of it.
Node(n) ==
  /\ Relevant \subseteq DOMAIN n
  /\ Input(n)
  /\ Trimmed(n.public) /\ Trimmed(n.private)

Usable(n) ==
  /\ n.pushInterval \in Duration /\ n.pullInterval \in Duration
  /\ n.push.kind = "seconds" /\ n.push.n * Second \in Duration => n.pushInterval = n.push.n * Second
  /\ n.pull.kind = "seconds" /\ n.pull.n * Second \in Duration => n.pullInterval = n.pull.n * Second
  /\ n.public # "" \/ n.private # ""

LEMMA TrimTwice == \A t : Trimmed(TrimSpace(t))
  BY DEF Trimmed, TrimSpace

LEMMA Decoded ==
  ASSUME NEW b, Input(b)
  PROVE  Node(UnmarshalJSON(b))
<1> DEFINE n == UnmarshalJSON(b)
<1>1. Relevant \subseteq DOMAIN n
  BY DEF UnmarshalJSON, Relevant
<1>2. /\ n.push = b.push /\ n.pull = b.pull
      /\ n.pushInterval = b.pushInterval /\ n.pullInterval = b.pullInterval
  BY DEF UnmarshalJSON
<1>3. n.public = TrimSpace(b.public) /\ n.private = TrimSpace(b.private)
  BY DEF UnmarshalJSON, masterKey
<1>4. Input(n)
  BY <1>2 DEF Input
<1>5. Trimmed(n.public) /\ Trimmed(n.private)
  BY <1>3, TrimTwice
<1>6. QED
  BY <1>1, <1>4, <1>5 DEF Node

LEMMA Normalized ==
  ASSUME NEW n, Node(n), Accepts(n)
  PROVE  Node(Normalize(n)) /\ Usable(Normalize(n))
<1> DEFINE m == Normalize(n)
<1>1. DOMAIN m = DOMAIN n
  BY DEF Normalize
<1>2. /\ m.push = n.push /\ m.pull = n.pull
      /\ m.public = n.public /\ m.private = n.private
      /\ m.pushInterval = interval(n.push, n.pushInterval)
      /\ m.pullInterval = interval(n.pull, n.pullInterval)
  BY DEF Normalize, Node, Relevant
<1>3. /\ n.push \in IntervalValue /\ n.pull \in IntervalValue
      /\ n.pushInterval \in 0..MaxDuration /\ n.pullInterval \in 0..MaxDuration
  BY DEF Node, Input
<1>4. /\ m.pushInterval \in Duration
      /\ n.push.kind = "seconds" /\ n.push.n * Second \in Duration
           => m.pushInterval = n.push.n * Second
  BY <1>2, <1>3, IntervalPositive
<1>5. /\ m.pullInterval \in Duration
      /\ n.pull.kind = "seconds" /\ n.pull.n * Second \in Duration
           => m.pullInterval = n.pull.n * Second
  BY <1>2, <1>3, IntervalPositive
<1>6. m.public # "" \/ m.private # ""
  BY <1>2 DEF Accepts
<1>7. m.pushInterval \in 0..MaxDuration /\ m.pullInterval \in 0..MaxDuration
  BY <1>4, <1>5, HalfType DEF Duration, MaxDuration
<1>8. Node(m)
  BY <1>1, <1>2, <1>3, <1>7 DEF Node, Input
<1>9. Usable(m)
  BY <1>2, <1>4, <1>5, <1>6 DEF Usable
<1>10. QED
  BY <1>8, <1>9

LEMMA Marshalled ==
  ASSUME NEW n, Node(n)
  PROVE  Input(marshal(n))
<1>1. /\ marshal(n).push = n.push /\ marshal(n).pull = n.pull
      /\ marshal(n).pushInterval = n.pushInterval /\ marshal(n).pullInterval = n.pullInterval
  BY DEF marshal, Node, Relevant
<1>2. QED
  BY <1>1 DEF Node, Input

-----------------------------------------------------------------------------
(* The invariant.                                                          *)

Inv ==
  /\ node # Nothing => Node(node) /\ Usable(node)
  /\ cache # Nothing => Input(cache)

LEMMA NormalizedTwice ==
  ASSUME NEW n, Node(n)
  PROVE  Node(Normalize(n))
<1> DEFINE m == Normalize(n)
<1>1. DOMAIN m = DOMAIN n
  BY DEF Normalize
<1>2. /\ m.push = n.push /\ m.pull = n.pull
      /\ m.public = n.public /\ m.private = n.private
      /\ m.pushInterval = interval(n.push, n.pushInterval)
      /\ m.pullInterval = interval(n.pull, n.pullInterval)
  BY DEF Normalize, Node, Relevant
<1>3. m.pushInterval \in Duration /\ m.pullInterval \in Duration
  BY <1>2, IntervalPositive DEF Node, Input
<1>4. m.pushInterval \in 0..MaxDuration /\ m.pullInterval \in 0..MaxDuration
  BY <1>3, HalfType DEF Duration, MaxDuration
<1>5. QED
  BY <1>1, <1>2, <1>4 DEF Node, Input

LEMMA InitInv == Init => Inv
  BY DEF Init, Inv

LEMMA InvKept == Inv /\ [Next]_vars => Inv'
<1> SUFFICES ASSUME Inv, [Next]_vars PROVE Inv'
  OBVIOUS
<1>1. ASSUME NEW c \in File, LoadFromPath(c) PROVE Inv'
  BY <1>1 DEF LoadFromPath, Inv
<1>2. ASSUME NEW b \in Body, GetNodeInfo(b) PROVE Inv'
  <2>1. 0 \in 0..MaxDuration
    BY HalfType, DurationAssumption DEF MaxDuration
  <2>2. Input(b)
    BY BodyAssumption, <2>1 DEF Input
  <2>3. CASE b.decodes /\ Accepts(UnmarshalJSON(b))
    <3>1. node' = Normalize(UnmarshalJSON(b)) /\ UNCHANGED <<cache, server>>
      BY <1>2, <2>3 DEF GetNodeInfo
    <3>2. Node(node') /\ Usable(node')
      BY <2>2, <2>3, <3>1, Decoded, Normalized
    <3>3. QED
      BY <3>1, <3>2 DEF Inv
  <2>4. CASE ~(b.decodes /\ Accepts(UnmarshalJSON(b)))
    BY <1>2, <2>4 DEF GetNodeInfo, Inv
  <2>5. QED
    BY <2>3, <2>4
<1>3. CASE savePanelSnapshot
  <2>1. Input(cache') /\ UNCHANGED <<node, server>>
    BY <1>3, NormalizedTwice, Marshalled DEF savePanelSnapshot, Inv
  <2>2. QED
    BY <2>1 DEF Inv
<1>4. CASE readPanelSnapshot
  <2>1. Node(node') /\ Usable(node')
    BY <1>4, Decoded, Normalized DEF readPanelSnapshot, Inv
  <2>2. QED
    BY <1>4, <2>1 DEF readPanelSnapshot, Inv
<1>5. CASE startServer
  BY <1>5 DEF startServer, Inv
<1>6. CASE restart
  BY <1>6 DEF restart, Inv
<1>7. CASE UNCHANGED vars
  BY <1>7 DEF vars, Inv
<1>8. QED
  BY <1>1, <1>2, <1>3, <1>4, <1>5, <1>6, <1>7 DEF Next

LEMMA InvHolds == Spec => []Inv
  BY InitInv, InvKept, PTL DEF Spec

\* Whatever number the panel sends for an interval, and however it wraps, the timers
\* of the tasks are set to a positive time, and to the panel's where it fits.
THEOREM IntervalsAlwaysUsable == Spec => []IntervalsUsable
<1>1. ASSUME Inv, node # Nothing,
             NEW p \in {<<node.push, node.pushInterval>>, <<node.pull, node.pullInterval>>}
      PROVE  /\ p[2] \in Duration
             /\ p[1].kind = "seconds" /\ p[1].n * Second \in Duration => p[2] = p[1].n * Second
  <2>1. Usable(node)
    BY <1>1 DEF Inv
  <2>2. CASE p = <<node.push, node.pushInterval>>
    BY <2>1, <2>2 DEF Usable
  <2>3. CASE p = <<node.pull, node.pullInterval>>
    BY <2>1, <2>3 DEF Usable
  <2>4. QED
    BY <1>1, <2>2, <2>3
<1>2. Inv => IntervalsUsable
  BY <1>1 DEF IntervalsUsable
<1>3. QED
  BY <1>2, InvHolds, PTL

\* Trimming never takes the key away from a node that was accepted, whether it came
\* from the panel or from the cache.
THEOREM AcceptedKeepsKey == Spec => []AcceptedHasKey
<1>1. Inv => AcceptedHasKey
  BY DEF Inv, Node, Usable, Trimmed, AcceptedHasKey
<1>2. QED
  BY <1>1, InvHolds, PTL

-----------------------------------------------------------------------------
(* Texts and items.                                                        *)

LEMMA ChosenLeast ==
  ASSUME NEW S, S \subseteq Int, NEW i \in S, \A j \in S : i <= j
  PROVE  (CHOOSE k \in S : \A j \in S : k <= j) = i
<1> DEFINE c == CHOOSE k \in S : \A j \in S : k <= j
<1>1. c \in S /\ \A j \in S : c <= j
  OBVIOUS
<1> HIDE DEF c
<1>2. c \in Int /\ i \in Int /\ c <= i /\ i <= c
  BY <1>1
<1>3. c = i
  BY <1>2
<1>4. QED
  BY <1>3 DEF c

LEMMA FirstOfThree ==
  ASSUME NEW a, NEW b, NEW c
  PROVE  firstNonEmpty(<<a, b, c>>) =
           IF TrimSpace(a) # "" THEN TrimSpace(a)
           ELSE IF TrimSpace(b) # "" THEN TrimSpace(b) ELSE TrimSpace(c)
<1> DEFINE ts == <<a, b, c>>
           set == {i \in DOMAIN ts : TrimSpace(ts[i]) # ""}
           first == CHOOSE i \in set : \A j \in set : i <= j
<1>1. DOMAIN ts = {1, 2, 3} /\ ts[1] = a /\ ts[2] = b /\ ts[3] = c
  OBVIOUS
<1>2. firstNonEmpty(ts) = IF set = {} THEN "" ELSE TrimSpace(ts[first])
  BY DEF firstNonEmpty
<1>3. set \subseteq {1, 2, 3}
  <2> HIDE DEF ts
  <2> QED BY <1>1
<1>4. /\ 1 \in set <=> TrimSpace(a) # ""
      /\ 2 \in set <=> TrimSpace(b) # ""
      /\ 3 \in set <=> TrimSpace(c) # ""
  <2> HIDE DEF ts
  <2> QED BY <1>1
<1> HIDE DEF set
<1>5. ASSUME NEW i \in set, \A j \in set : i <= j PROVE firstNonEmpty(ts) = TrimSpace(ts[i])
  <2>1. set \subseteq Int
    BY <1>3
  <2>2. first = i
    BY <1>5, <2>1, ChosenLeast
  <2> HIDE DEF ts, first
  <2>3. QED
    BY <1>2, <2>2, Zenon
<1> HIDE DEF ts, first
<1>6. CASE TrimSpace(a) # ""
  <2>1. 1 \in set
    BY <1>4, <1>6, Zenon
  <2>2. \A j \in set : 1 <= j
    BY <1>3
  <2>3. firstNonEmpty(ts) = TrimSpace(a)
    BY <1>1, <1>5, <2>1, <2>2, Zenon
  <2>4. QED
    BY <1>6, <2>3 DEF ts
<1>7. CASE TrimSpace(a) = "" /\ TrimSpace(b) # ""
  <2>1. 1 \notin set /\ 2 \in set
    BY <1>4, <1>7, Zenon
  <2>2. \A j \in set : 2 <= j
    BY <1>3, <2>1
  <2>3. firstNonEmpty(ts) = TrimSpace(b)
    BY <1>1, <1>5, <2>1, <2>2, Zenon
  <2>4. QED
    BY <1>7, <2>3 DEF ts
<1>8. CASE TrimSpace(a) = "" /\ TrimSpace(b) = "" /\ TrimSpace(c) # ""
  <2>1. 1 \notin set /\ 2 \notin set /\ 3 \in set
    BY <1>4, <1>8, Zenon
  <2>2. \A j \in set : 3 <= j
    BY <1>3, <2>1
  <2>3. firstNonEmpty(ts) = TrimSpace(c)
    BY <1>1, <1>5, <2>1, <2>2, Zenon
  <2>4. QED
    BY <1>8, <2>3 DEF ts
<1>9. CASE TrimSpace(a) = "" /\ TrimSpace(b) = "" /\ TrimSpace(c) = ""
  <2>1. 1 \notin set /\ 2 \notin set /\ 3 \notin set
    BY <1>4, <1>9, Zenon
  <2>2. set = {}
    BY <1>3, <2>1
  <2>3. QED
    BY <1>2, <1>9, <2>2 DEF ts
<1>10. QED
  BY <1>6, <1>7, <1>8, <1>9

\* What a setting is, from what its spellings hold.
LEMMA Spelled ==
  ASSUME NEW f, NEW w
  PROVE  spelled(f, w) =
           IF TrimSpace(w["_"]) # "" THEN TrimSpace(w["_"])
           ELSE IF TrimSpace(w["-"]) # "" THEN TrimSpace(w["-"])
           ELSE IF f \in HasOld THEN TrimSpace(w["old"]) ELSE ""
<1>1. TrimSpace("") = ""
  BY DEF TrimSpace
<1>2. CASE f \in HasOld
  BY <1>2, FirstOfThree DEF spelled
<1>3. CASE f \notin HasOld
  <2>1. PICK o : o = ""
    OBVIOUS
  <2>2. spelled(f, w) = firstNonEmpty(<<w["_"], w["-"], o>>)
    BY <1>3, <2>1, Zenon DEF spelled
  <2>3. spelled(f, w) = IF TrimSpace(w["_"]) # "" THEN TrimSpace(w["_"])
                        ELSE IF TrimSpace(w["-"]) # "" THEN TrimSpace(w["-"]) ELSE TrimSpace(o)
    BY <2>2, FirstOfThree
  <2>4. TrimSpace(o) = ""
    BY <1>1, <2>1
  <2>5. QED
    BY <1>3, <2>3, <2>4
<1>4. QED
  BY <1>2, <1>3

LEMMA Least ==
  ASSUME NEW T, T \subseteq Nat, T # {}
  PROVE  \E x \in T : \A y \in T : x <= y
<1>1. PICK x \in T : \A y \in T : ~ (<<y, x>> \in OpToRel(<, Nat))
  BY WFMin, NatLessThanWellFounded
<1>2. \A y \in T : ~(y < x)
  BY <1>1 DEF OpToRel
<1>3. QED
  BY <1>2

\* A set of numbers with 0 and with the successor of each of its numbers is Nat.
LEMMA Induction ==
  ASSUME NEW S, 0 \in S, \A n \in Nat : n \in S => n + 1 \in S
  PROVE  Nat \subseteq S
<1> DEFINE T == {n \in Nat : n \notin S}
<1>1. SUFFICES ASSUME T # {} PROVE FALSE
  OBVIOUS
<1>2. PICK x \in T : \A y \in T : x <= y
  BY <1>1, Least
<1>3. x # 0 /\ x - 1 \in Nat
  BY <1>2
<1>4. x - 1 \notin T
  BY <1>2, <1>3
<1>5. (x - 1) + 1 \in S
  BY <1>3, <1>4
<1>6. QED
  BY <1>2, <1>5

\* The function that toStringSlice defines by recursion over the items of v.
Skip(kept, t) == IF TrimSpace(t) = "" THEN kept ELSE Append(kept, TrimSpace(t))
IsKept(v, n, kept) == kept = [i \in 0..n |-> IF i = 0 THEN <<>> ELSE Skip(kept[i - 1], v[i])]

LEMMA KeptExists ==
  ASSUME NEW v
  PROVE  \A n \in Nat : \E k : IsKept(v, n, k)
<1> DEFINE S == {n \in Nat : \E k : IsKept(v, n, k)}
<1>1. 0 \in S
  <2> DEFINE k == [i \in 0..0 |-> <<>>]
  <2>1. IsKept(v, 0, k)
    BY DEF IsKept
  <2>2. QED
    BY <2>1
<1>2. ASSUME NEW n \in Nat, n \in S PROVE n + 1 \in S
  <2>1. PICK k : IsKept(v, n, k)
    BY <1>2
  <2> DEFINE h == [i \in 0..(n + 1) |-> IF i = 0 THEN <<>> ELSE Skip(k[i - 1], v[i])]
  <2>2. \A i \in 0..n : h[i] = k[i]
    <3>1. \A i \in 0..n : k[i] = IF i = 0 THEN <<>> ELSE Skip(k[i - 1], v[i])
      BY <2>1 DEF IsKept
    <3>2. \A i \in 0..n : i \in 0..(n + 1)
      OBVIOUS
    <3>3. QED
      BY <3>1, <3>2
  <2>3. ASSUME NEW i \in 0..(n + 1), i # 0 PROVE h[i] = Skip(h[i - 1], v[i])
    <3>1. i - 1 \in 0..n
      BY <2>3
    <3>2. QED
      BY <2>2, <2>3, <3>1
  <2>4. IsKept(v, n + 1, h)
    BY <2>3 DEF IsKept
  <2>5. QED
    BY <2>4
<1>3. Nat \subseteq S
  <2> HIDE DEF S
  <2> QED BY <1>1, <1>2, Induction
<1>4. QED
  BY <1>3

LEMMA SliceKept ==
  ASSUME NEW v, Len(v) \in Nat
  PROVE  \E k : IsKept(v, Len(v), k) /\ toStringSlice(v) = k[Len(v)]
<1>1. toStringSlice(v) = (CHOOSE k : IsKept(v, Len(v), k))[Len(v)]
  BY DEF toStringSlice, IsKept, Skip
<1>2. QED
  BY <1>1, KeptExists

LEMMA Appended ==
  ASSUME NEW S, NEW s \in Seq(S), NEW e \in S
  PROVE  Append(s, e) \in Seq(S)
  OBVIOUS

LEMMA Prefixed ==
  ASSUME NEW S, NEW s \in Seq(S), NEW i \in Nat, i + 1 <= Len(s)
  PROVE  Append([j \in 1..i |-> s[j]], s[i + 1]) = [j \in 1..(i + 1) |-> s[j]]
<1> DEFINE p == [j \in 1..i |-> s[j]]
<1>1. \A j \in 1..i : s[j] \in S
  OBVIOUS
<1>2. p \in Seq(S)
  BY <1>1
<1>3. Len(p) = i /\ \A j \in 1..i : p[j] = s[j]
  BY <1>2
<1> HIDE DEF p
<1>4. Append(p, s[i + 1]) = [j \in 1..(i + 1) |-> s[j]]
  BY <1>2, <1>3
<1>5. QED
  BY <1>4 DEF p

\* An item that toStringSlice keeps, as it keeps it.
Item == {TrimSpace(t) : t \in STRING} \ {""}

LEMMA ItemTrimmed == \A t \in Item : t # "" /\ TrimSpace(t) = t
  BY TrimTwice DEF Item, Trimmed

LEMMA SkipType ==
  ASSUME NEW kept \in Seq(Item), NEW t \in STRING
  PROVE  Skip(kept, t) \in Seq(Item)
<1>1. CASE TrimSpace(t) = ""
  BY <1>1 DEF Skip
<1>2. CASE TrimSpace(t) # ""
  <2>1. TrimSpace(t) \in Item
    BY <1>2 DEF Item
  <2>2. Append(kept, TrimSpace(t)) \in Seq(Item)
    BY <2>1, Appended
  <2>3. QED
    BY <1>2, <2>2 DEF Skip
<1>3. QED
  BY <1>1, <1>2

\* One step of the function, without its domain.
LEMMA KeptStep ==
  ASSUME NEW v, NEW n \in Nat, NEW k, IsKept(v, n, k)
  PROVE  /\ k[0] = <<>>
         /\ \A i \in Nat : i + 1 <= n => k[i + 1] = Skip(k[i], v[i + 1])
<1>1. \A i \in 0..n : k[i] = IF i = 0 THEN <<>> ELSE Skip(k[i - 1], v[i])
  BY DEF IsKept
<1>2. k[0] = <<>>
  BY <1>1
<1>3. ASSUME NEW i \in Nat, i + 1 <= n PROVE k[i + 1] = Skip(k[i], v[i + 1])
  <2>1. i + 1 \in 0..n /\ i + 1 # 0 /\ (i + 1) - 1 = i
    BY <1>3
  <2>2. QED
    BY <1>1, <2>1
<1>4. QED
  BY <1>2, <1>3

LEMMA SliceType ==
  ASSUME NEW v \in Seq(STRING)
  PROVE  toStringSlice(v) \in Seq(Item)
<1> DEFINE n == Len(v)
<1>1. n \in Nat /\ \A i \in 1..n : v[i] \in STRING
  OBVIOUS
<1>2. PICK k : IsKept(v, n, k) /\ toStringSlice(v) = k[n]
  BY <1>1, SliceKept
<1> HIDE DEF n
<1>3. k[0] = <<>> /\ \A i \in Nat : i + 1 <= n => k[i + 1] = Skip(k[i], v[i + 1])
  BY <1>1, <1>2, KeptStep
<1> DEFINE S == {i \in Nat : i <= n => k[i] \in Seq(Item)}
<1>4. 0 \in S
  <2>1. k[0] \in Seq(Item)
    BY <1>3, EmptySeq
  <2>2. QED
    BY <2>1
<1>5. ASSUME NEW i \in Nat, i \in S PROVE i + 1 \in S
  <2>1. SUFFICES ASSUME i + 1 <= n PROVE k[i + 1] \in Seq(Item)
    OBVIOUS
  <2>2. i <= n /\ i + 1 \in 1..n
    BY <1>1, <2>1
  <2>3. k[i] \in Seq(Item) /\ v[i + 1] \in STRING
    BY <1>1, <1>5, <2>2
  <2>4. Skip(k[i], v[i + 1]) \in Seq(Item)
    BY <2>3, SkipType
  <2>5. k[i + 1] = Skip(k[i], v[i + 1])
    BY <1>3, <2>1
  <2>6. QED
    BY <2>4, <2>5
<1>6. Nat \subseteq S
  <2> HIDE DEF S
  <2> QED BY <1>4, <1>5, Induction
<1>7. QED
  BY <1>1, <1>2, <1>6

\* Items that were kept once are kept again, all of them and as they are.
LEMMA SliceSame ==
  ASSUME NEW v \in Seq(Item)
  PROVE  toStringSlice(v) = v
<1> DEFINE n == Len(v)
           upTo(i) == [j \in 1..i |-> v[j]]
<1>1. n \in Nat /\ (\A i \in 1..n : v[i] \in Item) /\ v = upTo(n)
  OBVIOUS
<1>2. PICK k : IsKept(v, n, k) /\ toStringSlice(v) = k[n]
  BY <1>1, SliceKept
<1> HIDE DEF n
<1>3. k[0] = <<>> /\ \A i \in Nat : i + 1 <= n => k[i + 1] = Skip(k[i], v[i + 1])
  BY <1>1, <1>2, KeptStep
<1> DEFINE S == {i \in Nat : i <= n => k[i] = upTo(i)}
<1>4. 0 \in S
  BY <1>3
<1>5. ASSUME NEW i \in Nat, i \in S PROVE i + 1 \in S
  <2>1. SUFFICES ASSUME i + 1 <= n PROVE k[i + 1] = upTo(i + 1)
    OBVIOUS
  <2>2. i <= n /\ i + 1 \in 1..n /\ \A j \in 1..i : j \in 1..n
    BY <1>1, <2>1
  <2>3. k[i] = upTo(i) /\ v[i + 1] \in Item
    BY <1>1, <1>5, <2>2
  <2>4. Skip(k[i], v[i + 1]) = Append(k[i], v[i + 1])
    BY <2>3, ItemTrimmed DEF Skip
  <2>5. Append(upTo(i), v[i + 1]) = upTo(i + 1)
    BY <2>1, Prefixed DEF n
  <2>6. k[i + 1] = Skip(k[i], v[i + 1])
    BY <1>3, <2>1
  <2>7. QED
    BY <2>3, <2>4, <2>5, <2>6
<1>6. Nat \subseteq S
  <2> HIDE DEF S
  <2> QED BY <1>4, <1>5, Induction
<1>7. QED
  BY <1>1, <1>2, <1>6

LEMMA TablesType ==
  ASSUME NEW v \in Seq(STRING), NEW w \in Seq(STRING)
  PROVE  firstNonEmptyStringSlice(v, w) \in Seq(Item)
  BY SliceType DEF firstNonEmptyStringSlice

LEMMA TablesSame ==
  ASSUME NEW v \in Seq(Item)
  PROVE  firstNonEmptyStringSlice(v, <<>>) = v
<1>1. <<>> \in Seq(Item)
  OBVIOUS
<1>2. toStringSlice(v) = v /\ toStringSlice(<<>>) = <<>>
  BY <1>1, SliceSame
<1>3. QED
  BY <1>2 DEF firstNonEmptyStringSlice

-----------------------------------------------------------------------------
(* A node as UnmarshalJSON and Normalize leave it: nothing in it changes   *)
(* when it is written as JSON, read and normalized again.                  *)

\* The record with the fields of n.
Fields(n) ==
  [protocol |-> n.protocol, port |-> n.port, listen |-> n.listen,
   push |-> n.push, pull |-> n.pull,
   pushInterval |-> n.pushInterval, pullInterval |-> n.pullInterval,
   public |-> n.public, private |-> n.private,
   text |-> n.text, plain |-> n.plain, pad |-> n.pad, pure |-> n.pure,
   mask |-> n.mask, tables |-> n.tables]

Settled(n) ==
  /\ n.listen # ""
  /\ interval(n.push, n.pushInterval) = n.pushInterval
  /\ interval(n.pull, n.pullInterval) = n.pullInterval

Clean(n) ==
  /\ Trimmed(n.public) /\ Trimmed(n.private)
  /\ n.text = [f \in Aliased |-> n.text[f]] /\ \A f \in Aliased : Trimmed(n.text[f])
  /\ n.plain = [f \in Plain |-> n.plain[f]] /\ \A f \in Plain : Trimmed(n.plain[f])
  /\ n.pad = [p \in Padding |-> n.pad[p]]
  /\ n.tables \in Seq(Item)

Canonical(n) == n = Fields(n) /\ Settled(n) /\ Clean(n)

LEMMA CanonicalSome == ASSUME NEW n, n = Fields(n) PROVE n # Nothing
<1>1. "public" \in DOMAIN Fields(n)
  BY DEF Fields
<1>2. "public" \notin DOMAIN Nothing
  BY DEF Nothing
<1>3. QED
  BY <1>1, <1>2

LEMMA IntervalTwice ==
  ASSUME NEW v, NEW d
  PROVE  interval(v, interval(v, d)) = interval(v, d)
<1>1. ~(Minute <= 0)
  BY DurationAssumption
<1>2. QED
  BY <1>1 DEF interval

LEMMA SpelledTrimmed == \A f, w : Trimmed(spelled(f, w))
<1> SUFFICES ASSUME NEW f, NEW w PROVE Trimmed(spelled(f, w))
  OBVIOUS
<1>1. Trimmed("")
  BY DEF Trimmed, TrimSpace
<1>2. \/ spelled(f, w) = TrimSpace(w["_"]) \/ spelled(f, w) = TrimSpace(w["-"])
      \/ spelled(f, w) = TrimSpace(w["old"]) \/ spelled(f, w) = ""
  BY Spelled
<1>3. QED
  BY <1>1, <1>2, TrimTwice

LEMMA NormalizeFields ==
  ASSUME NEW n, n = Fields(n)
  PROVE  LET m == Normalize(n)
         IN  /\ m = Fields(m)
             /\ m.listen = IF n.listen = "" THEN "0.0.0.0" ELSE n.listen
             /\ m.pushInterval = interval(n.push, n.pushInterval)
             /\ m.pullInterval = interval(n.pull, n.pullInterval)
             /\ m.protocol = n.protocol /\ m.port = n.port
             /\ m.push = n.push /\ m.pull = n.pull
             /\ m.public = n.public /\ m.private = n.private
             /\ m.text = n.text /\ m.plain = n.plain /\ m.pad = n.pad
             /\ m.pure = n.pure /\ m.mask = n.mask /\ m.tables = n.tables
<1> DEFINE listen == IF n.listen = "" THEN "0.0.0.0" ELSE n.listen
           push == interval(n.push, n.pushInterval)
           pull == interval(n.pull, n.pullInterval)
<1>1. Normalize(n) = [n EXCEPT !.listen = listen, !.pushInterval = push, !.pullInterval = pull]
  BY DEF Normalize
<1> HIDE DEF listen, push, pull
<1>2. Normalize(n) =
        [protocol |-> n.protocol, port |-> n.port, listen |-> listen,
         push |-> n.push, pull |-> n.pull, pushInterval |-> push, pullInterval |-> pull,
         public |-> n.public, private |-> n.private,
         text |-> n.text, plain |-> n.plain, pad |-> n.pad, pure |-> n.pure,
         mask |-> n.mask, tables |-> n.tables]
  BY <1>1 DEF Fields
<1> DEFINE m == Normalize(n)
<1>3. /\ m.listen = listen /\ m.pushInterval = push /\ m.pullInterval = pull
      /\ m.protocol = n.protocol /\ m.port = n.port
      /\ m.push = n.push /\ m.pull = n.pull
      /\ m.public = n.public /\ m.private = n.private
      /\ m.text = n.text /\ m.plain = n.plain /\ m.pad = n.pad
      /\ m.pure = n.pure /\ m.mask = n.mask /\ m.tables = n.tables
  BY <1>2
<1> HIDE DEF m
<1>4. m = Fields(m)
  BY <1>2, <1>3 DEF m, Fields
<1>5. QED
  BY <1>3, <1>4 DEF m, listen, push, pull

LEMMA NormalizeSettled ==
  ASSUME NEW n, n = Fields(n), Settled(n)
  PROVE  Normalize(n) = n
  BY DEF Normalize, Fields, Settled

LEMMA UnmarshalFields ==
  ASSUME NEW b
  PROVE  LET n == UnmarshalJSON(b)
         IN  /\ n = Fields(n)
             /\ n.protocol = b.protocol /\ n.port = b.port /\ n.listen = b.listen
             /\ n.push = b.push /\ n.pull = b.pull
             /\ n.pushInterval = b.pushInterval /\ n.pullInterval = b.pullInterval
             /\ n.public = TrimSpace(b.public) /\ n.private = TrimSpace(b.private)
             /\ n.text = [f \in Aliased |-> spelled(f, b.text[f])]
             /\ n.plain = [f \in Plain |-> TrimSpace(b.plain[f])]
             /\ n.pad = [p \in Padding |-> firstNonZero(b.pad[p]["_"], b.pad[p]["-"])]
             /\ n.pure = (IF b.pure["_"] # "nil" THEN b.pure["_"] ELSE b.pure["-"])
             /\ n.mask = b.mask
             /\ n.tables = firstNonEmptyStringSlice(b.tables["_"], b.tables["-"])
<1> DEFINE text == [f \in Aliased |-> spelled(f, b.text[f])]
           plain == [f \in Plain |-> TrimSpace(b.plain[f])]
           pad == [p \in Padding |-> firstNonZero(b.pad[p]["_"], b.pad[p]["-"])]
           pure == IF b.pure["_"] # "nil" THEN b.pure["_"] ELSE b.pure["-"]
           tables == firstNonEmptyStringSlice(b.tables["_"], b.tables["-"])
           n == UnmarshalJSON(b)
<1>1. n = [protocol |-> b.protocol, port |-> b.port, listen |-> b.listen,
           push |-> b.push, pull |-> b.pull,
           pushInterval |-> b.pushInterval, pullInterval |-> b.pullInterval,
           public |-> TrimSpace(b.public), private |-> TrimSpace(b.private),
           text |-> text, plain |-> plain, pad |-> pad, pure |-> pure,
           mask |-> b.mask, tables |-> tables]
  BY DEF UnmarshalJSON, masterKey
<1> HIDE DEF text, plain, pad, pure, tables, n
<1>2. /\ n.protocol = b.protocol /\ n.port = b.port /\ n.listen = b.listen
      /\ n.push = b.push /\ n.pull = b.pull
      /\ n.pushInterval = b.pushInterval /\ n.pullInterval = b.pullInterval
      /\ n.public = TrimSpace(b.public) /\ n.private = TrimSpace(b.private)
      /\ n.text = text /\ n.plain = plain /\ n.pad = pad /\ n.pure = pure
      /\ n.mask = b.mask /\ n.tables = tables
  BY <1>1
<1>3. n = Fields(n)
  BY <1>1, <1>2 DEF Fields
<1>4. QED
  BY <1>2, <1>3 DEF n, text, plain, pad, pure, tables

\* What is made of a body of the panel is canonical.
LEMMA MadeCanonical ==
  ASSUME NEW b, b.tables["_"] \in Seq(STRING), b.tables["-"] \in Seq(STRING)
  PROVE  Canonical(Normalize(UnmarshalJSON(b)))
<1> DEFINE n == UnmarshalJSON(b)
           m == Normalize(n)
<1>1. n = Fields(n)
  BY UnmarshalFields
<1>2. n.public = TrimSpace(b.public) /\ n.private = TrimSpace(b.private)
  BY UnmarshalFields
<1>3. n.text = [f \in Aliased |-> spelled(f, b.text[f])]
  BY UnmarshalFields
<1>4. n.plain = [f \in Plain |-> TrimSpace(b.plain[f])]
  BY UnmarshalFields
<1>5. n.pad = [p \in Padding |-> firstNonZero(b.pad[p]["_"], b.pad[p]["-"])]
  BY UnmarshalFields
<1>6. n.tables = firstNonEmptyStringSlice(b.tables["_"], b.tables["-"])
  BY UnmarshalFields
<1> HIDE DEF n
<1>7. m = Fields(m)
  BY <1>1, NormalizeFields
<1>8. m.listen = IF n.listen = "" THEN "0.0.0.0" ELSE n.listen
  BY <1>1, NormalizeFields
<1>9. m.pushInterval = interval(n.push, n.pushInterval) /\ m.push = n.push
  BY <1>1, NormalizeFields
<1>10. m.pullInterval = interval(n.pull, n.pullInterval) /\ m.pull = n.pull
  BY <1>1, NormalizeFields
<1>11. /\ m.public = n.public /\ m.private = n.private
       /\ m.text = n.text /\ m.plain = n.plain /\ m.pad = n.pad /\ m.tables = n.tables
  BY <1>1, NormalizeFields
<1> HIDE DEF m
<1>12. Settled(m)
  <2>1. m.listen # ""
    BY <1>8
  <2>2. interval(m.push, m.pushInterval) = m.pushInterval
    BY <1>9, IntervalTwice
  <2>3. interval(m.pull, m.pullInterval) = m.pullInterval
    BY <1>10, IntervalTwice
  <2>4. QED
    BY <2>1, <2>2, <2>3 DEF Settled
<1>13. Clean(m)
  <2>1. Trimmed(m.public) /\ Trimmed(m.private)
    BY <1>2, <1>11, TrimTwice
  <2>2. m.text = [f \in Aliased |-> m.text[f]] /\ \A f \in Aliased : Trimmed(m.text[f])
    <3>1. m.text = [f \in Aliased |-> spelled(f, b.text[f])]
      BY <1>3, <1>11
    <3>2. ASSUME NEW f \in Aliased PROVE Trimmed(m.text[f])
      <4>1. m.text[f] = spelled(f, b.text[f])
        BY <3>1
      <4>2. QED
        BY <4>1, SpelledTrimmed
    <3>3. m.text = [f \in Aliased |-> m.text[f]]
      BY <3>1
    <3>4. QED
      BY <3>2, <3>3
  <2>3. m.plain = [f \in Plain |-> m.plain[f]] /\ \A f \in Plain : Trimmed(m.plain[f])
    BY <1>4, <1>11, TrimTwice
  <2>4. m.pad = [p \in Padding |-> m.pad[p]]
    BY <1>5, <1>11
  <2>5. m.tables \in Seq(Item)
    BY <1>6, <1>11, TablesType
  <2>6. QED
    BY <2>1, <2>2, <2>3, <2>4, <2>5 DEF Clean
<1>14. QED
  BY <1>7, <1>12, <1>13 DEF Canonical, m, n

LEMMA MarshalFields ==
  ASSUME NEW n, n = Fields(n)
  PROVE  LET b == marshal(n)
         IN  /\ b.protocol = n.protocol /\ b.port = n.port /\ b.listen = n.listen
             /\ b.push = n.push /\ b.pull = n.pull
             /\ b.pushInterval = n.pushInterval /\ b.pullInterval = n.pullInterval
             /\ b.public = n.public /\ b.private = n.private
             /\ \A f \in Aliased : /\ b.text[f]["_"] = n.text[f]
                                   /\ b.text[f]["-"] = ""
                                   /\ f \in HasOld => b.text[f]["old"] = n.text[f]
             /\ b.plain = n.plain
             /\ \A p \in Padding : b.pad[p]["_"] = n.pad[p] /\ b.pad[p]["-"] = 0
             /\ b.pure["_"] = n.pure /\ b.pure["-"] = "nil"
             /\ b.mask = n.mask
             /\ b.tables["_"] = n.tables /\ b.tables["-"] = <<>>
<1> DEFINE text == [f \in Aliased |->
                      [w \in Spelling |-> IF w = "_" \/ (w = "old" /\ f \in HasOld)
                                          THEN n.text[f] ELSE ""]]
           pad == [p \in Padding |-> [w \in Spelling |-> IF w = "_" THEN n.pad[p] ELSE 0]]
           pure == [w \in Spelling |-> IF w = "_" THEN n.pure ELSE "nil"]
           tables == [w \in Spelling |-> IF w = "_" THEN n.tables ELSE <<>>]
           b == marshal(n)
<1>1. b = [n EXCEPT !.text = text, !.pad = pad, !.pure = pure, !.tables = tables]
  BY DEF marshal
<1>2. \A f \in Aliased : /\ text[f]["_"] = n.text[f]
                         /\ text[f]["-"] = ""
                         /\ f \in HasOld => text[f]["old"] = n.text[f]
  BY DEF Spelling
<1>3. \A p \in Padding : pad[p]["_"] = n.pad[p] /\ pad[p]["-"] = 0
  BY DEF Spelling
<1>4. pure["_"] = n.pure /\ pure["-"] = "nil"
  BY DEF Spelling
<1>5. tables["_"] = n.tables /\ tables["-"] = <<>>
  BY DEF Spelling
<1> HIDE DEF text, pad, pure, tables, b
<1>6. /\ b.protocol = n.protocol /\ b.port = n.port /\ b.listen = n.listen
      /\ b.push = n.push /\ b.pull = n.pull
      /\ b.pushInterval = n.pushInterval /\ b.pullInterval = n.pullInterval
      /\ b.public = n.public /\ b.private = n.private
      /\ b.text = text /\ b.plain = n.plain /\ b.pad = pad /\ b.pure = pure
      /\ b.mask = n.mask /\ b.tables = tables
  BY <1>1 DEF Fields
<1>7. QED
  BY <1>2, <1>3, <1>4, <1>5, <1>6 DEF b

\* The way through the cache: JSON, aliases and defaults a second time.
LEMMA ThroughCache ==
  ASSUME NEW n, Canonical(n)
  PROVE  Normalize(UnmarshalJSON(marshal(Normalize(n)))) = n
<1> DEFINE b == marshal(n)
           m == UnmarshalJSON(b)
<1>1. n = Fields(n) /\ Settled(n) /\ Clean(n)
  BY DEF Canonical
<1>2. Normalize(n) = n
  BY <1>1, NormalizeSettled
<1>3. /\ b.protocol = n.protocol /\ b.port = n.port /\ b.listen = n.listen
      /\ b.push = n.push /\ b.pull = n.pull
      /\ b.pushInterval = n.pushInterval /\ b.pullInterval = n.pullInterval
      /\ b.public = n.public /\ b.private = n.private
      /\ b.plain = n.plain /\ b.mask = n.mask
  BY <1>1, MarshalFields
<1>4. /\ \A f \in Aliased : /\ b.text[f]["_"] = n.text[f]
                            /\ b.text[f]["-"] = ""
                            /\ f \in HasOld => b.text[f]["old"] = n.text[f]
      /\ \A p \in Padding : b.pad[p]["_"] = n.pad[p] /\ b.pad[p]["-"] = 0
      /\ b.pure["_"] = n.pure /\ b.pure["-"] = "nil"
      /\ b.tables["_"] = n.tables /\ b.tables["-"] = <<>>
  BY <1>1, MarshalFields
<1> HIDE DEF b
<1>5. /\ m = Fields(m)
      /\ m.protocol = b.protocol /\ m.port = b.port /\ m.listen = b.listen
      /\ m.push = b.push /\ m.pull = b.pull
      /\ m.pushInterval = b.pushInterval /\ m.pullInterval = b.pullInterval
      /\ m.public = TrimSpace(b.public) /\ m.private = TrimSpace(b.private)
      /\ m.mask = b.mask
  BY UnmarshalFields
<1>6. /\ m.text = [f \in Aliased |-> spelled(f, b.text[f])]
      /\ m.plain = [f \in Plain |-> TrimSpace(b.plain[f])]
      /\ m.pad = [p \in Padding |-> firstNonZero(b.pad[p]["_"], b.pad[p]["-"])]
      /\ m.pure = (IF b.pure["_"] # "nil" THEN b.pure["_"] ELSE b.pure["-"])
      /\ m.tables = firstNonEmptyStringSlice(b.tables["_"], b.tables["-"])
  BY UnmarshalFields
<1> HIDE DEF m
<1>7. m.public = n.public /\ m.private = n.private
  BY <1>1, <1>3, <1>5 DEF Clean, Trimmed
<1>8. m.text = n.text
  <2>1. ASSUME NEW f \in Aliased PROVE spelled(f, b.text[f]) = n.text[f]
    <3>1. TrimSpace(n.text[f]) = n.text[f] /\ TrimSpace("") = ""
      BY <1>1 DEF Clean, Trimmed, TrimSpace
    <3>2. TrimSpace(b.text[f]["_"]) = n.text[f] /\ TrimSpace(b.text[f]["-"]) = ""
          /\ (f \in HasOld => TrimSpace(b.text[f]["old"]) = n.text[f])
      BY <1>4, <3>1
    <3>3. QED
      BY <3>2, Spelled
  <2>2. n.text = [f \in Aliased |-> n.text[f]]
    BY <1>1 DEF Clean
  <2>3. QED
    BY <1>6, <2>1, <2>2
<1>9. m.plain = n.plain
  <2>1. m.plain = [f \in Plain |-> TrimSpace(n.plain[f])]
    BY <1>3, <1>6
  <2>2. n.plain = [f \in Plain |-> n.plain[f]] /\ \A f \in Plain : TrimSpace(n.plain[f]) = n.plain[f]
    BY <1>1 DEF Clean, Trimmed
  <2>3. QED
    BY <2>1, <2>2
<1>10. m.pad = n.pad
  <2>1. \A p \in Padding : firstNonZero(b.pad[p]["_"], b.pad[p]["-"]) = n.pad[p]
    BY <1>4 DEF firstNonZero
  <2>2. n.pad = [p \in Padding |-> n.pad[p]]
    BY <1>1 DEF Clean
  <2>3. QED
    BY <1>6, <2>1, <2>2
<1>11. m.pure = n.pure
  BY <1>4, <1>6
<1>12. m.tables = n.tables
  BY <1>1, <1>4, <1>6, TablesSame DEF Clean
<1>13. m = n
  <2>1. Fields(m) = Fields(n)
    BY <1>3, <1>5, <1>7, <1>8, <1>9, <1>10, <1>11, <1>12 DEF Fields
  <2>2. QED
    BY <1>1, <1>5, <2>1
<1>14. QED
  BY <1>2, <1>13 DEF b, m

-----------------------------------------------------------------------------
(* The invariant: where the node, the cache and what was sent come from.   *)

Traced ==
  /\ node = Nothing <=> origin = "none"
  /\ node # Nothing => Canonical(node)
  /\ cache # Nothing => Canonical(saved) /\ cache = marshal(Normalize(saved))
  /\ origin = "panel" => node = Normalize(UnmarshalJSON(sent))
  /\ CacheFaithful

LEMMA InitTraced == Init => Traced
  BY DEF Init, Traced, CacheFaithful

LEMMA TracedKept == Traced /\ [Next]_vars => Traced'
<1> SUFFICES ASSUME Traced, [Next]_vars PROVE Traced'
  OBVIOUS
<1>1. ASSUME NEW c \in File, LoadFromPath(c) PROVE Traced'
  BY <1>1 DEF LoadFromPath, Traced, CacheFaithful
<1>2. ASSUME NEW b \in Body, GetNodeInfo(b) PROVE Traced'
  <2>1. node = Nothing /\ origin = "none" /\ sent' = b /\ UNCHANGED <<cache, saved>>
    BY <1>2 DEF GetNodeInfo, Traced
  <2>2. CASE b.decodes /\ Accepts(UnmarshalJSON(b))
    <3>1. node' = Normalize(UnmarshalJSON(b)) /\ origin' = "panel"
      BY <1>2, <2>2 DEF GetNodeInfo
    <3>2. Canonical(node')
      BY <3>1, BodyAssumption, MadeCanonical
    <3>3. node' # Nothing
      BY <3>2, CanonicalSome DEF Canonical
    <3>4. QED
      BY <2>1, <3>1, <3>2, <3>3 DEF Traced, CacheFaithful
  <2>3. CASE ~(b.decodes /\ Accepts(UnmarshalJSON(b)))
    <3>1. node' = node /\ origin' = origin
      BY <1>2, <2>3 DEF GetNodeInfo
    <3>2. QED
      BY <2>1, <3>1 DEF Traced, CacheFaithful
  <2>4. QED
    BY <2>2, <2>3
<1>3. CASE savePanelSnapshot
  <2>1. /\ node # Nothing /\ cache' = marshal(Normalize(node)) /\ saved' = node
        /\ UNCHANGED <<node, origin, sent>>
    BY <1>3 DEF savePanelSnapshot
  <2>2. QED
    BY <2>1 DEF Traced, CacheFaithful
<1>4. CASE readPanelSnapshot
  <2>1. /\ cache # Nothing /\ node' = Normalize(UnmarshalJSON(cache)) /\ origin' = "cache"
        /\ UNCHANGED <<cache, sent, saved>>
    BY <1>4 DEF readPanelSnapshot
  <2>2. Canonical(saved) /\ cache = marshal(Normalize(saved))
    BY <2>1 DEF Traced
  <2>3. node' = saved
    BY <2>1, <2>2, ThroughCache
  <2>4. node' # Nothing
    BY <2>2, <2>3, CanonicalSome DEF Canonical
  <2>5. QED
    BY <2>1, <2>2, <2>3, <2>4 DEF Traced, CacheFaithful
<1>5. CASE startServer
  BY <1>5 DEF startServer, Traced, CacheFaithful
<1>6. CASE restart
  BY <1>6 DEF restart, Traced, CacheFaithful
<1>7. CASE UNCHANGED vars
  BY <1>7 DEF vars, Traced, CacheFaithful
<1>8. QED
  BY <1>1, <1>2, <1>3, <1>4, <1>5, <1>6, <1>7 DEF Next

LEMMA TracedHolds == Spec => []Traced
  BY InitTraced, TracedKept, PTL DEF Spec

\* A node that starts from the cache has the settings that were saved, for any
\* bodies: aliases, trimming, defaults and intervals do nothing the second time.
THEOREM CacheAlwaysFaithful == Spec => []CacheFaithful
<1>1. Traced => CacheFaithful
  BY DEF Traced
<1>2. QED
  BY <1>1, TracedHolds, PTL

\* A setting that body b holds in one spelling only is the setting of n.
Reads(b, n) ==
  /\ \A f \in Aliased : \A w \in SpellingsOf(f) :
       (\A o \in SpellingsOf(f) \ {w} : TrimSpace(b.text[f][o]) = "") =>
          n.text[f] = TrimSpace(b.text[f][w])
  /\ \A p \in Padding, w, o \in {"_", "-"} :
       w # o /\ b.pad[p][o] = 0 => n.pad[p] = b.pad[p][w]
  /\ \A w, o \in {"_", "-"} :
       w # o /\ b.pure[o] = "nil" => n.pure = b.pure[w]

LEMMA EachSpelling ==
  ASSUME NEW b
  PROVE  Reads(b, Normalize(UnmarshalJSON(b)))
<1> DEFINE u == UnmarshalJSON(b)
           n == Normalize(u)
<1>1. u = Fields(u)
  BY UnmarshalFields
<1>2. u.text = [f \in Aliased |-> spelled(f, b.text[f])]
  BY UnmarshalFields
<1>3. u.pad = [p \in Padding |-> firstNonZero(b.pad[p]["_"], b.pad[p]["-"])]
  BY UnmarshalFields
<1>4. u.pure = (IF b.pure["_"] # "nil" THEN b.pure["_"] ELSE b.pure["-"])
  BY UnmarshalFields
<1> HIDE DEF u
<1>5. n.text = u.text /\ n.pad = u.pad /\ n.pure = u.pure
  BY <1>1, NormalizeFields
<1> HIDE DEF n
<1>6. ASSUME NEW f \in Aliased, NEW w \in SpellingsOf(f),
             \A o \in SpellingsOf(f) \ {w} : TrimSpace(b.text[f][o]) = ""
      PROVE  n.text[f] = TrimSpace(b.text[f][w])
  <2>1. n.text[f] = spelled(f, b.text[f])
    BY <1>2, <1>5
  <2>2. CASE f \in HasOld
    <3>1. SpellingsOf(f) = {"_", "-", "old"}
      BY <2>2 DEF SpellingsOf, Spelling
    <3>2. CASE w = "_"
      <4>1. TrimSpace(b.text[f]["-"]) = "" /\ TrimSpace(b.text[f]["old"]) = ""
        BY <1>6, <3>1, <3>2
      <4>2. QED
        BY <2>1, <2>2, <3>2, <4>1, Spelled
    <3>3. CASE w = "-"
      <4>1. TrimSpace(b.text[f]["_"]) = "" /\ TrimSpace(b.text[f]["old"]) = ""
        BY <1>6, <3>1, <3>3
      <4>2. QED
        BY <2>1, <2>2, <3>3, <4>1, Spelled
    <3>4. CASE w = "old"
      <4>1. TrimSpace(b.text[f]["_"]) = "" /\ TrimSpace(b.text[f]["-"]) = ""
        BY <1>6, <3>1, <3>4
      <4>2. QED
        BY <2>1, <2>2, <3>4, <4>1, Spelled
    <3>5. QED
      BY <3>1, <3>2, <3>3, <3>4
  <2>3. CASE f \notin HasOld
    <3>1. SpellingsOf(f) = {"_", "-"}
      BY <2>3 DEF SpellingsOf
    <3>2. CASE w = "_"
      <4>1. TrimSpace(b.text[f]["-"]) = ""
        BY <1>6, <3>1, <3>2
      <4>2. QED
        BY <2>1, <2>3, <3>2, <4>1, Spelled
    <3>3. CASE w = "-"
      <4>1. TrimSpace(b.text[f]["_"]) = ""
        BY <1>6, <3>1, <3>3
      <4>2. QED
        BY <2>1, <2>3, <3>3, <4>1, Spelled
    <3>4. QED
      BY <3>1, <3>2, <3>3
  <2>4. QED
    BY <2>2, <2>3
<1>7. ASSUME NEW p \in Padding, NEW w \in {"_", "-"}, NEW o \in {"_", "-"},
             w # o, b.pad[p][o] = 0
      PROVE  n.pad[p] = b.pad[p][w]
  <2>1. n.pad[p] = IF b.pad[p]["_"] # 0 THEN b.pad[p]["_"] ELSE b.pad[p]["-"]
    BY <1>3, <1>5 DEF firstNonZero
  <2>2. CASE w = "_" /\ o = "-"
    <3>1. b.pad[p]["-"] = 0
      BY <1>7, <2>2, Zenon
    <3>2. n.pad[p] = b.pad[p]["_"]
      BY <2>1, <3>1, Zenon
    <3>3. QED
      BY <2>2, <3>2, Zenon
  <2>3. CASE w = "-" /\ o = "_"
    <3>1. b.pad[p]["_"] = 0
      BY <1>7, <2>3, Zenon
    <3>2. n.pad[p] = b.pad[p]["-"]
      BY <2>1, <3>1, Zenon
    <3>3. QED
      BY <2>3, <3>2, Zenon
  <2>4. (w = "_" /\ o = "-") \/ (w = "-" /\ o = "_")
    <3>1. w # o
      BY <1>7
    <3>2. QED
      BY <3>1
  <2>5. QED
    BY <2>2, <2>3, <2>4, Zenon
<1>8. ASSUME NEW w \in {"_", "-"}, NEW o \in {"_", "-"}, w # o, b.pure[o] = "nil"
      PROVE  n.pure = b.pure[w]
  BY <1>4, <1>5, <1>8
<1>9. Reads(b, n)
  BY <1>6, <1>7, <1>8 DEF Reads
<1>10. QED
  BY <1>9 DEF n, u

\* Whatever the panel sends, a setting given in one of its spellings reaches the node.
THEOREM EverySpellingRead == Spec => []EverySpelling
<1>1. Traced => EverySpelling
  <2> SUFFICES ASSUME Traced, origin = "panel" PROVE Reads(sent, node)
    BY Zenon DEF EverySpelling, Reads
  <2>1. node = Normalize(UnmarshalJSON(sent))
    BY DEF Traced
  <2>2. QED
    BY <2>1, EachSpelling
<1>2. QED
  BY <1>1, TracedHolds, PTL

-----------------------------------------------------------------------------
(* The fallback.                                                           *)

LEMMA FirstOfTwo ==
  ASSUME NEW a, NEW b
  PROVE  firstNonEmpty(<<a, b>>) = IF TrimSpace(a) # "" THEN TrimSpace(a) ELSE TrimSpace(b)
<1> DEFINE ts == <<a, b>>
           set == {i \in DOMAIN ts : TrimSpace(ts[i]) # ""}
           first == CHOOSE i \in set : \A j \in set : i <= j
<1>1. DOMAIN ts = {1, 2} /\ ts[1] = a /\ ts[2] = b
  OBVIOUS
<1>2. firstNonEmpty(ts) = IF set = {} THEN "" ELSE TrimSpace(ts[first])
  BY DEF firstNonEmpty
<1>3. set \subseteq {1, 2}
  <2> HIDE DEF ts
  <2> QED BY <1>1
<1>4. (1 \in set <=> TrimSpace(a) # "") /\ (2 \in set <=> TrimSpace(b) # "")
  <2> HIDE DEF ts
  <2> QED BY <1>1
<1> HIDE DEF set
<1>5. ASSUME NEW i \in set, \A j \in set : i <= j PROVE firstNonEmpty(ts) = TrimSpace(ts[i])
  <2>1. set \subseteq Int
    BY <1>3
  <2>2. first = i
    BY <1>5, <2>1, ChosenLeast
  <2> HIDE DEF ts, first
  <2>3. QED
    BY <1>2, <2>2
<1>6. CASE 1 \in set
  <2>1. \A j \in set : 1 <= j
    BY <1>3
  <2> HIDE DEF ts
  <2>2. firstNonEmpty(ts) = TrimSpace(a)
    BY <1>1, <1>5, <1>6, <2>1
  <2>3. QED
    BY <1>4, <1>6, <2>2 DEF ts
<1>7. CASE 1 \notin set /\ 2 \in set
  <2>1. \A j \in set : 2 <= j
    BY <1>3, <1>7
  <2> HIDE DEF ts
  <2>2. firstNonEmpty(ts) = TrimSpace(b)
    BY <1>1, <1>5, <1>7, <2>1
  <2>3. QED
    BY <1>4, <1>7, <2>2 DEF ts
<1>8. CASE 1 \notin set /\ 2 \notin set
  <2>1. set = {}
    BY <1>3, <1>8
  <2>2. firstNonEmpty(ts) = ""
    BY <1>2, <2>1
  <2>3. QED
    BY <1>4, <1>8, <2>2
<1>9. QED
  BY <1>6, <1>7, <1>8

\* What buildSudokuConfig makes of any node and any config.yml.
LEMMA BuiltFallback ==
  ASSUME NEW n, NEW l
  PROVE  LET c == buildSudokuConfig(n, l)
         IN  /\ c.action = "fallback" => TrimSpace(c.fallback) # ""
             /\ c.action # firstNonEmpty(<<n.plain["suspicious_action"], "fallback">>) =>
                  /\ TrimSpace(n.plain["fallback_address"]) = ""
                  /\ TrimSpace(l.opt["FallbackAddress"]) = ""
<1> DEFINE c == buildSudokuConfig(n, l)
           p == n.plain["fallback_address"]
           f == l.opt["FallbackAddress"]
           w == firstNonEmpty(<<n.plain["suspicious_action"], "fallback">>)
<1>1. c.action = suspiciousAction(n, l) /\ c.fallback = fallbackOf(n, l)
  BY DEF buildSudokuConfig
<1>2. fallbackOf(n, l) = IF TrimSpace(p) # "" THEN TrimSpace(p) ELSE TrimSpace(f)
  BY FirstOfTwo DEF fallbackOf
<1>3. suspiciousAction(n, l) = IF fallbackOf(n, l) = "" THEN "silent" ELSE w
  BY DEF suspiciousAction
<1>4. TrimSpace(fallbackOf(n, l)) = fallbackOf(n, l)
  BY <1>2, TrimTwice DEF Trimmed
<1> HIDE DEF c, p, f, w
<1>5. c.action = "fallback" => TrimSpace(c.fallback) # ""
  BY <1>1, <1>3, <1>4
<1>6. c.action # w => TrimSpace(p) = "" /\ TrimSpace(f) = ""
  BY <1>1, <1>2, <1>3
<1>7. QED
  BY <1>5, <1>6 DEF c, p, f, w

\* The server belongs to the node and the config.yml that are loaded now: nothing is
\* loaded again but after a restart, which takes the server with it.
Built ==
  /\ node # Nothing => local # Nothing
  /\ server # Nothing => node # Nothing /\ server.config = buildSudokuConfig(node, local)

LEMMA BuiltHolds == Spec => []Built
<1>1. Init => Built
  BY DEF Init, Built
<1>2. ASSUME Built, [Next]_vars PROVE Built'
  <2>1. ASSUME NEW c \in File, LoadFromPath(c) PROVE Built'
    BY <1>2, <2>1 DEF LoadFromPath, Built
  <2>2. ASSUME NEW b \in Body, GetNodeInfo(b) PROVE Built'
    BY <1>2, <2>2 DEF GetNodeInfo, Built
  <2>3. CASE savePanelSnapshot
    BY <1>2, <2>3 DEF savePanelSnapshot, Built
  <2>4. CASE readPanelSnapshot
    BY <1>2, <2>4 DEF readPanelSnapshot, Built
  <2>5. CASE startServer
    <3>1. node # Nothing /\ UNCHANGED <<node, local>>
      BY <2>5 DEF startServer
    <3>2. server'.config = buildSudokuConfig(node, local)
      BY <2>5 DEF startServer
    <3>3. QED
      BY <1>2, <3>1, <3>2 DEF Built
  <2>6. CASE restart
    BY <2>6 DEF restart, Built
  <2>7. CASE UNCHANGED vars
    BY <1>2, <2>7 DEF vars, Built
  <2>8. QED
    BY <1>2, <2>1, <2>2, <2>3, <2>4, <2>5, <2>6, <2>7 DEF Next
<1>3. QED
  BY <1>1, <1>2, PTL DEF Spec

\* Whatever panel and config.yml say, and whether the node came from the panel or from
\* the cache, the server falls back only to an address it has, and does what the panel
\* asks unless neither source names an address.
THEOREM FallbackAlwaysHonoured == Spec => []FallbackHonoured
<1>1. Built => FallbackHonoured
  <2> SUFFICES ASSUME Built, server # Nothing
               PROVE  /\ server.config.action = "fallback" => TrimSpace(server.config.fallback) # ""
                      /\ server.config.action # firstNonEmpty(<<node.plain["suspicious_action"], "fallback">>) =>
                           /\ TrimSpace(node.plain["fallback_address"]) = ""
                           /\ TrimSpace(local.opt["FallbackAddress"]) = ""
    BY DEF FallbackHonoured
  <2>1. server.config = buildSudokuConfig(node, local)
    BY DEF Built
  <2>2. QED
    BY <2>1, BuiltFallback
<1>2. QED
  BY <1>1, BuiltHolds, PTL
=============================================================================
