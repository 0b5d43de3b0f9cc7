-------------------------- MODULE DigitalTwinProofs --------------------------
(***************************************************************************)
(* What a fault cuts off, and how an assessment weighs it, for every       *)
(* network of finitely many devices, any profiles, entries and changes.    *)
(*                                                                         *)
(* The argument: what the engine computes, the least set of devices closed *)
(* under the links around the entries, is what ways from the entries lead  *)
(* to (ReachedByWay).  A way never leaves a closed set, so it stays within *)
(* what is reachable; and the ends of ways are closed, for a way either    *)
(* has met the next device, and may end there, or goes on to it.  What is  *)
(* lost without a device or link is then what all ways to pass through it. *)
(* Copies of one time are one network because every change raises the time *)
(* (TouchIsLater), so results found on one are at home on the other.       *)
(* Scores grow with what they count, and full counts earn the weight.      *)
(***************************************************************************)
EXTENDS DigitalTwin, FunctionTheorems, FiniteSetTheorems, TLAPS

(***************************************************************************)
(* Closed sets.                                                            *)
(***************************************************************************)

\* Links between devices of a network.
Links(devices, links) == devices \subseteq Devices /\ links \subseteq {l \in Pairs : l \subseteq devices}

\* No link leads out of the set.
Closed(links, set) == \A l \in links : l \cap set # {} => l \subseteq set

\* Every link has two ends.
LEMMA TwoEnds ==
  ASSUME NEW l \in Pairs
  PROVE  \E x, y \in Devices : l = {x, y} /\ x # y
BY DEF Pairs

\* What is reachable is the least closed set around the entries.
LEMMA LeastClosed ==
  ASSUME NEW devices, NEW links, NEW entries, links \subseteq SUBSET devices
  PROVE  /\ Reachable(devices, links, entries) \subseteq devices
         /\ entries \cap devices \subseteq Reachable(devices, links, entries)
         /\ Closed(links, Reachable(devices, links, entries))
         /\ \A set \in SUBSET devices :
              entries \cap devices \subseteq set /\ Closed(links, set) =>
                Reachable(devices, links, entries) \subseteq set
<1> DEFINE R == Reachable(devices, links, entries)
<1>1. R \subseteq devices /\ entries \cap devices \subseteq R
  BY DEF Reachable
<1>2. ASSUME NEW set \in SUBSET devices, entries \cap devices \subseteq set, Closed(links, set)
      PROVE  R \subseteq set
  BY <1>2 DEF Reachable, Closed
<1>3. Closed(links, R)
  <2> SUFFICES ASSUME NEW l \in links, NEW x \in l \cap R, NEW y \in l
               PROVE  y \in R
    BY DEF Closed
  <2>1. y \in devices
    OBVIOUS
  <2>2. ASSUME NEW set \in SUBSET devices, entries \cap devices \subseteq set,
               \A k \in links : k \cap set # {} => k \subseteq set
        PROVE  y \in set
    <3>1. x \in set
      BY <1>2, <2>2 DEF Closed
    <3> QED
      BY <2>2, <3>1
  <2> QED
    BY <2>1, <2>2 DEF Reachable
<1> QED
  BY <1>1, <1>2, <1>3

\* With fewer devices and links nothing more is reachable.
LEMMA FewerReach ==
  ASSUME NEW devices, NEW links, NEW fewer, NEW left, NEW entries,
         fewer \subseteq devices, left \subseteq links,
         links \subseteq SUBSET devices, left \subseteq SUBSET fewer
  PROVE  Reachable(fewer, left, entries) \subseteq Reachable(devices, links, entries)
<1> DEFINE R == Reachable(devices, links, entries)
<1>1. R \subseteq devices /\ entries \cap devices \subseteq R /\ Closed(links, R)
  BY LeastClosed
<1> HIDE DEF R
<1>2. R \cap fewer \in SUBSET fewer /\ entries \cap fewer \subseteq R \cap fewer
  BY <1>1
<1>3. Closed(left, R \cap fewer)
  BY <1>1 DEF Closed
<1>4. Reachable(fewer, left, entries) \subseteq R \cap fewer
  BY <1>2, <1>3, LeastClosed
<1> QED
  BY <1>4 DEF R

(***************************************************************************)
(* Ways.                                                                   *)
(***************************************************************************)

\* A set of indices has a least one.
LEMMA LeastIndex ==
  ASSUME NEW n \in Nat, NEW I \in SUBSET (1 .. n), I # {}
  PROVE  \E i \in I : \A j \in I : i <= j
<1> DEFINE T == {1 .. i : i \in I}
           R == StrictSubsetOrdering(1 .. n)
           S == FiniteSubsetsOf(1 .. n)
<1>1. T \subseteq S /\ T # {}
  <2>1. IsFiniteSet(1 .. n)
    BY FS_Interval
  <2>2. S = SUBSET (1 .. n)
    BY <2>1, FS_FiniteSubsetsOfFinite
  <2>3. \A i \in I : 1 .. i \in SUBSET (1 .. n)
    OBVIOUS
  <2>4. T \subseteq SUBSET (1 .. n)
    BY <2>3
  <2>5. T # {}
    OBVIOUS
  <2> QED
    BY <2>2, <2>4, <2>5
<1>2. IsWellFoundedOn(R, S)
  BY FS_StrictSubsetOrderingWellFounded
<1>3. PICK x \in T : \A y \in T : ~ (<<y, x>> \in R)
  <2> HIDE DEF R, S, T
  <2> QED
    BY <1>1, <1>2, WFMin
<1>4. PICK i \in I : x = 1 .. i
  OBVIOUS
<1>5. ASSUME NEW j \in I
      PROVE  i <= j
  <2>1. SUFFICES ASSUME ~ (i <= j)
                 PROVE  FALSE
    OBVIOUS
  <2>2. 1 .. j \in T /\ 1 .. j \subseteq 1 .. n /\ 1 .. i \subseteq 1 .. n
    OBVIOUS
  <2>3. 1 .. j \subseteq 1 .. i /\ i \in 1 .. i /\ i \notin 1 .. j
    BY <2>1
  <2>4. <<1 .. j, 1 .. i>> \in R
    BY <2>2, <2>3 DEF StrictSubsetOrdering
  <2> QED
    BY <1>3, <1>4, <2>2, <2>4
<1> QED
  BY <1>5

\* The parts of a way.
WayOf(way, n, devices, links) ==
  /\ n \in Nat /\ 1 <= n /\ n <= Cardinality(devices)
  /\ way \in [1 .. n -> devices]
  /\ \A i, j \in 1 .. n : way[i] = way[j] => i = j
  /\ \A i \in 1 .. (n - 1) : {way[i], way[i + 1]} \in links

\* A way is a WayOf its own length, and conversely.
LEMMA WaysAre ==
  ASSUME NEW devices, NEW links, NEW way, IsFiniteSet(devices)
  PROVE  /\ way \in Ways(devices, links) =>
              Len(way) \in Nat /\ DOMAIN way = 1 .. Len(way) /\ WayOf(way, Len(way), devices, links)
         /\ \A n : WayOf(way, n, devices, links) =>
              way \in Ways(devices, links) /\ Len(way) = n /\ DOMAIN way = 1 .. n
<1>0. Cardinality(devices) \in Nat
  BY FS_CardinalityType
<1>1. ASSUME way \in Ways(devices, links)
      PROVE  Len(way) \in Nat /\ DOMAIN way = 1 .. Len(way) /\ WayOf(way, Len(way), devices, links)
  <2>1. PICK n \in 1 .. Cardinality(devices) : way \in [1 .. n -> devices]
    BY <1>1 DEF Ways
  <2>2. way \in Seq(devices) /\ Len(way) = n /\ n \in Nat /\ DOMAIN way = 1 .. n
    BY <1>0, <2>1
  <2> QED
    BY <1>0, <1>1, <2>1, <2>2 DEF Ways, WayOf
<1>2. ASSUME NEW n, WayOf(way, n, devices, links)
      PROVE  way \in Ways(devices, links) /\ Len(way) = n /\ DOMAIN way = 1 .. n
  <2>1. n \in 1 .. Cardinality(devices) /\ way \in [1 .. n -> devices] /\ n \in Nat
    BY <1>0, <1>2 DEF WayOf
  <2>2. way \in Seq(devices) /\ Len(way) = n /\ DOMAIN way = 1 .. n
    BY <2>1
  <2>3. way \in UNION {[1 .. k -> devices] : k \in 1 .. Cardinality(devices)}
    BY <2>1
  <2> QED
    BY <1>2, <2>2, <2>3 DEF Ways, WayOf
<1> QED
  BY <1>1, <1>2

\* A way leads out of no closed set.
LEMMA WayStays ==
  ASSUME NEW devices, NEW links, NEW way, NEW n, WayOf(way, n, devices, links),
         NEW set, Closed(links, set), way[1] \in set
  PROVE  \A i \in 1 .. n : way[i] \in set
<1> DEFINE I == {i \in 1 .. n : way[i] \notin set}
<1>0. n \in Nat /\ 1 <= n
  BY DEF WayOf
<1> SUFFICES ASSUME I # {}
             PROVE  FALSE
  OBVIOUS
<1>1. PICK i \in I : \A j \in I : i <= j
  <2>1. I \in SUBSET (1 .. n)
    OBVIOUS
  <2> HIDE DEF I
  <2> QED
    BY <1>0, <2>1, LeastIndex
<1>2. i \in 1 .. n /\ way[i] \notin set
  OBVIOUS
<1>3. i # 1
  BY <1>2
<1>4. i - 1 \in 1 .. (n - 1) /\ (i - 1) + 1 = i /\ i - 1 \in 1 .. n /\ i - 1 < i
  BY <1>0, <1>2, <1>3
<1>5. i - 1 \notin I
  <2> HIDE DEF I
  <2> QED
    BY <1>1, <1>2, <1>4
<1>6. way[i - 1] \in set
  BY <1>4, <1>5
<1>7. {way[i - 1], way[i]} \in links
  BY <1>4 DEF WayOf
<1> QED
  BY <1>2, <1>6, <1>7 DEF Closed

\* A way may end earlier.
LEMMA WayEndsEarlier ==
  ASSUME NEW devices, NEW links, NEW way, NEW n, WayOf(way, n, devices, links),
         NEW k \in 1 .. n, IsFiniteSet(devices)
  PROVE  \E part : WayOf(part, k, devices, links) /\ part[1] = way[1] /\ part[k] = way[k]
<1> DEFINE part == [i \in 1 .. k |-> way[i]]
<1>0. n \in Nat /\ k \in Nat /\ 1 <= k /\ k <= n /\ Cardinality(devices) \in Nat /\ n <= Cardinality(devices)
  BY FS_CardinalityType DEF WayOf
<1>1. part \in [1 .. k -> devices]
  BY <1>0 DEF WayOf
<1>2. \A i, j \in 1 .. k : part[i] = part[j] => i = j
  BY <1>0 DEF WayOf
<1>3. \A i \in 1 .. (k - 1) : {part[i], part[i + 1]} \in links
  <2> SUFFICES ASSUME NEW i \in 1 .. (k - 1)
               PROVE  {part[i], part[i + 1]} \in links
    OBVIOUS
  <2>1. i \in 1 .. k /\ i + 1 \in 1 .. k /\ i \in 1 .. (n - 1)
    BY <1>0
  <2>2. part[i] = way[i] /\ part[i + 1] = way[i + 1]
    BY <2>1
  <2> QED
    BY <2>1, <2>2 DEF WayOf
<1>4. part[1] = way[1] /\ part[k] = way[k]
  BY <1>0
<1> HIDE DEF part
<1>5. WayOf(part, k, devices, links)
  BY <1>0, <1>1, <1>2, <1>3 DEF WayOf
<1> QED
  BY <1>4, <1>5

\* A way that has not met a device has room for it.
LEMMA WayIsShort ==
  ASSUME NEW devices, NEW links, NEW way, NEW n, WayOf(way, n, devices, links), IsFiniteSet(devices),
         NEW d \in devices, \A i \in 1 .. n : way[i] # d
  PROVE  way \in [1 .. n -> devices \ {d}] /\ n <= Cardinality(devices \ {d})
         /\ Cardinality(devices) = Cardinality(devices \ {d}) + 1
         /\ Cardinality(devices \ {d}) \in Nat
<1>1. way \in [1 .. n -> devices \ {d}] /\ n \in Nat
  BY DEF WayOf
<1>2. way \in Injection(1 .. n, devices \ {d})
  BY <1>1, Fun_IsInj DEF WayOf
<1>3. /\ IsFiniteSet(devices \ {d}) /\ Cardinality(devices \ {d}) = Cardinality(devices) - 1
      /\ Cardinality(devices \ {d}) \in Nat /\ Cardinality(devices) \in Nat
  BY FS_RemoveElement, FS_CardinalityType
<1>4. Cardinality(1 .. n) <= Cardinality(devices \ {d})
  BY <1>2, <1>3, FS_Injection
<1>5. Cardinality(1 .. n) = n
  BY <1>1, FS_Interval DEF WayOf
<1> QED
  BY <1>1, <1>3, <1>4, <1>5

\* A way may go on over a link to a device it has not met.
LEMMA WayGoesOn ==
  ASSUME NEW devices, NEW links, NEW way, NEW n, WayOf(way, n, devices, links), IsFiniteSet(devices),
         NEW d \in devices, \A i \in 1 .. n : way[i] # d, {way[n], d} \in links
  PROVE  \E longer : WayOf(longer, n + 1, devices, links) /\ longer[1] = way[1] /\ longer[n + 1] = d
<1> DEFINE longer == [i \in 1 .. (n + 1) |-> IF i = n + 1 THEN d ELSE way[i]]
<1>0. /\ n \in Nat /\ 1 <= n /\ Cardinality(devices) \in Nat /\ n + 1 <= Cardinality(devices)
      /\ n + 1 \in Nat /\ 1 <= n + 1
  <2>1. n <= Cardinality(devices \ {d}) /\ Cardinality(devices \ {d}) \in Nat
        /\ Cardinality(devices) = Cardinality(devices \ {d}) + 1
    BY WayIsShort
  <2>2. n \in Nat /\ 1 <= n
    BY DEF WayOf
  <2> QED
    BY <2>1, <2>2
<1>a. \A i \in 1 .. (n + 1) : i = n + 1 \/ (i # n + 1 /\ i \in 1 .. n)
  BY <1>0
<1>1. longer \in [1 .. (n + 1) -> devices]
  BY <1>a DEF WayOf
<1>b. \A i \in 1 .. n : longer[i] = way[i] /\ i # n + 1
  BY <1>0
<1>c. longer[n + 1] = d
  BY <1>0
<1> HIDE DEF longer
<1>2. \A i, j \in 1 .. (n + 1) : longer[i] = longer[j] => i = j
  BY <1>a, <1>b, <1>c DEF WayOf
<1>3. \A i \in 1 .. ((n + 1) - 1) : {longer[i], longer[i + 1]} \in links
  <2> SUFFICES ASSUME NEW i \in 1 .. ((n + 1) - 1)
               PROVE  {longer[i], longer[i + 1]} \in links
    OBVIOUS
  <2>1. i \in 1 .. n
    BY <1>0
  <2>2. CASE i = n
    BY <1>b, <1>c, <2>1, <2>2
  <2>3. CASE i # n
    <3>1. i \in 1 .. (n - 1) /\ i + 1 \in 1 .. n
      BY <1>0, <2>1, <2>3
    <3> QED
      BY <1>b, <2>1, <3>1 DEF WayOf
  <2> QED
    BY <2>2, <2>3
<1>4. WayOf(longer, n + 1, devices, links)
  BY <1>0, <1>1, <1>2, <1>3 DEF WayOf
<1>5. longer[1] = way[1]
  BY <1>0, <1>b
<1> QED
  BY <1>4, <1>5, <1>c

\* A device is reachable when there is a way to it from an entry.
LEMMA ReachedByWay ==
  ASSUME NEW devices, NEW links, Links(devices, links), IsFiniteSet(devices), NEW entries, NEW d
  PROVE  d \in Reachable(devices, links, entries) <=>
           \E way \in Ways(devices, links) : way[1] \in entries /\ way[Len(way)] = d
<1> DEFINE R == Reachable(devices, links, entries)
           Leads(x, way, n) == WayOf(way, n, devices, links) /\ way[1] \in entries /\ way[n] = x
           W == {x \in devices : \E way, n : Leads(x, way, n)}
<1>0. /\ links \subseteq SUBSET devices /\ devices \subseteq Devices
      /\ \A l \in links : l \in Pairs /\ l \subseteq devices
  BY DEF Links
<1>1. /\ entries \cap devices \subseteq R /\ Closed(links, R) /\ R \subseteq devices
      /\ \A set \in SUBSET devices :
           entries \cap devices \subseteq set /\ Closed(links, set) => R \subseteq set
  BY <1>0, LeastClosed
<1> HIDE DEF R
<1>2. ASSUME NEW way \in Ways(devices, links), way[1] \in entries, way[Len(way)] = d
      PROVE  d \in R
  <2>1. WayOf(way, Len(way), devices, links) /\ Len(way) \in Nat /\ 1 <= Len(way)
    BY WaysAre DEF WayOf
  <2>2. way[1] \in R
    BY <1>1, <1>2, <2>1 DEF WayOf
  <2>3. \A i \in 1 .. Len(way) : way[i] \in R
    BY <1>1, <2>1, <2>2, WayStays
  <2> QED
    BY <1>2, <2>1, <2>3
<1>3. entries \cap devices \subseteq W
  <2> SUFFICES ASSUME NEW x \in entries \cap devices
               PROVE  x \in W
    OBVIOUS
  <2> DEFINE way == [i \in 1 .. 1 |-> x]
  <2>1. Cardinality(devices) \in Nat /\ 1 <= Cardinality(devices)
    <3>1. Cardinality(devices) # 0 /\ Cardinality(devices) \in Nat
      BY FS_EmptySet, FS_CardinalityType
    <3> QED
      BY <3>1
  <2>2. way \in [1 .. 1 -> devices] /\ way[1] = x
    OBVIOUS
  <2>3. \A i, j \in 1 .. 1 : i = j
    OBVIOUS
  <2>4. 1 .. (1 - 1) = {}
    OBVIOUS
  <2> HIDE DEF way
  <2>5. WayOf(way, 1, devices, links)
    BY <2>1, <2>2, <2>3, <2>4 DEF WayOf
  <2> QED
    BY <2>2, <2>5
<1>4. Closed(links, W)
  <2> SUFFICES ASSUME NEW l \in links, NEW x \in l \cap W, NEW y \in l
               PROVE  y \in W
    BY DEF Closed
  <2>1. PICK way, n : Leads(x, way, n)
    OBVIOUS
  <2>a. n \in Nat /\ 1 <= n
    BY <2>1 DEF WayOf
  <2>2. y \in devices /\ (y = x \/ l = {x, y})
    <3>1. PICK u, v \in Devices : l = {u, v}
      BY <1>0, TwoEnds
    <3> QED
      BY <1>0, <3>1
  <2>3. CASE y = x
    BY <2>3
  <2>4. CASE \E k \in 1 .. n : way[k] = y
    <3>1. PICK k \in 1 .. n : way[k] = y
      BY <2>4
    <3>2. PICK part : WayOf(part, k, devices, links) /\ part[1] = way[1] /\ part[k] = way[k]
      BY <2>1, <3>1, WayEndsEarlier
    <3> QED
      BY <2>1, <2>2, <3>1, <3>2
  <2>5. CASE y # x /\ \A k \in 1 .. n : way[k] # y
    <3>1. {way[n], y} \in links
      BY <2>1, <2>2, <2>5
    <3>2. PICK longer : WayOf(longer, n + 1, devices, links) /\ longer[1] = way[1] /\ longer[n + 1] = y
      BY <2>1, <2>2, <2>5, <3>1, WayGoesOn
    <3> QED
      BY <2>1, <2>2, <3>2
  <2> QED
    BY <2>3, <2>4, <2>5
<1>5. ASSUME d \in R
      PROVE  \E way \in Ways(devices, links) : way[1] \in entries /\ way[Len(way)] = d
  <2>1. d \in W
    <3>1. W \in SUBSET devices
      OBVIOUS
    <3> HIDE DEF W
    <3> QED
      BY <1>1, <1>3, <1>4, <1>5, <3>1
  <2>2. PICK way, n : Leads(d, way, n)
    BY <2>1
  <2>3. way \in Ways(devices, links) /\ Len(way) = n
    BY <2>2, WaysAre
  <2> QED
    BY <2>2, <2>3
<1> QED
  BY <1>2, <1>5 DEF R

(***************************************************************************)
(* What a fault cuts off.                                                  *)
(***************************************************************************)

\* The devices and links of a network.
LEMMA NetworkParts ==
  ASSUME NEW n \in NetworkStates
  PROVE  /\ n.device \in [DOMAIN n.device -> Profiles] /\ DOMAIN n.device \subseteq Devices
         /\ n.link \in [DOMAIN n.link -> {"up", "down"}] /\ DOMAIN n.link \subseteq Pairs
         /\ n = [device |-> n.device, link |-> n.link, time |-> n.time]
         /\ n.time \in Nat
         /\ Links(DOMAIN n.device, DOMAIN n.link)
         /\ IsFiniteSet(DOMAIN n.device)
<1>1. n.device \in Dicts(Devices, Profiles) /\ n.link \in Dicts(Pairs, {"up", "down"}) /\ n.time \in Nat
  BY DEF NetworkStates
<1>2. PICK D \in SUBSET Devices : n.device \in [D -> Profiles]
  BY <1>1 DEF Dicts
<1>3. PICK L \in SUBSET Pairs : n.link \in [L -> {"up", "down"}]
  BY <1>1 DEF Dicts
<1>4. DOMAIN n.device = D /\ DOMAIN n.link = L
  BY <1>2, <1>3
<1>5. n = [device |-> n.device, link |-> n.link, time |-> n.time]
  BY DEF NetworkStates
<1>6. Links(DOMAIN n.device, DOMAIN n.link)
  BY <1>4 DEF Links, NetworkStates
<1>7. IsFiniteSet(DOMAIN n.device)
  BY <1>4, DevicesAssumption, FS_Subset
<1> QED
  BY <1>1, <1>2, <1>3, <1>4, <1>5, <1>6, <1>7

\* The ways that avoid a device are those of the network without it.
LEMMA AvoidsDevice ==
  ASSUME NEW devices, NEW links, Links(devices, links), IsFiniteSet(devices), NEW d \in devices, NEW way
  PROVE  way \in Ways(devices \ {d}, links \ LinksOf(links, {d})) <=>
           way \in Ways(devices, links) /\ \A i \in DOMAIN way : way[i] # d
<1> DEFINE left == links \ LinksOf(links, {d})
<1>0. /\ IsFiniteSet(devices \ {d}) /\ Cardinality(devices) = Cardinality(devices \ {d}) + 1
      /\ Cardinality(devices \ {d}) \in Nat
  <2>1. /\ IsFiniteSet(devices \ {d}) /\ Cardinality(devices \ {d}) = Cardinality(devices) - 1
        /\ Cardinality(devices \ {d}) \in Nat /\ Cardinality(devices) \in Nat
    BY FS_RemoveElement, FS_CardinalityType
  <2> QED
    BY <2>1
<1>1. ASSUME way \in Ways(devices \ {d}, left)
      PROVE  way \in Ways(devices, links) /\ \A i \in DOMAIN way : way[i] # d
  <2>1. WayOf(way, Len(way), devices \ {d}, left) /\ DOMAIN way = 1 .. Len(way)
    BY <1>0, <1>1, WaysAre
  <2>2. WayOf(way, Len(way), devices, links)
    BY <1>0, <2>1 DEF WayOf
  <2>3. way \in Ways(devices, links)
    BY <2>2, WaysAre
  <2> QED
    BY <2>1, <2>3 DEF WayOf
<1>2. ASSUME way \in Ways(devices, links), \A i \in DOMAIN way : way[i] # d
      PROVE  way \in Ways(devices \ {d}, left)
  <2>1. WayOf(way, Len(way), devices, links) /\ DOMAIN way = 1 .. Len(way) /\ Len(way) \in Nat
    BY <1>2, WaysAre
  <2>a. \A i \in 1 .. Len(way) : way[i] # d
    BY <1>2, <2>1
  <2>2. way \in [1 .. Len(way) -> devices \ {d}] /\ Len(way) <= Cardinality(devices \ {d})
    BY <2>1, <2>a, WayIsShort
  <2>3. ASSUME NEW i \in 1 .. (Len(way) - 1)
        PROVE  {way[i], way[i + 1]} \in left
    <3>1. i \in 1 .. Len(way) /\ i + 1 \in 1 .. Len(way)
      BY <2>1
    <3>2. way[i] # d /\ way[i + 1] # d
      BY <1>2, <2>1, <3>1
    <3> QED
      BY <2>1, <2>3, <3>2 DEF WayOf, LinksOf
  <2>4. WayOf(way, Len(way), devices \ {d}, left)
    BY <2>1, <2>2, <2>3 DEF WayOf
  <2> QED
    BY <1>0, <2>4, WaysAre
<1> QED
  BY <1>1, <1>2

\* The ways that avoid a link are those of the network without it.
LEMMA AvoidsLink ==
  ASSUME NEW devices, NEW links, NEW l, NEW way
  PROVE  way \in Ways(devices, links \ {l}) <=>
           way \in Ways(devices, links) /\ \A i \in 1 .. (Len(way) - 1) : {way[i], way[i + 1]} # l
BY DEF Ways

\* An engine has been made on a network and begins at devices of it.
EngineStates == {base \in [network : NetworkStates, entries : SUBSET Devices] :
                   base.entries \subseteq DOMAIN base.network.device}

\* A fault that cuts something off.
Cutting(base, fault) ==
  /\ base \in EngineStates /\ fault \in Faults /\ fault.kind # "service_down"
  /\ Exists(base.network, fault)

\* A fault that cuts is at a device of the network or at one of its links.
LEMMA CuttingParts ==
  ASSUME NEW base, NEW fault, Cutting(base, fault)
  PROVE  LET devices == DOMAIN base.network.device
             links == DOMAIN base.network.link
         IN  /\ Links(devices, links) /\ IsFiniteSet(devices) /\ links \subseteq SUBSET devices
             /\ base.network \in NetworkStates
             /\ \/ /\ fault.kind = "device_down"
                   /\ \E d \in devices : fault.target = {d} /\ fault = [kind |-> "device_down", target |-> {d}]
                \/ /\ fault.kind = "link" /\ fault.target \in links
                   /\ fault.target \subseteq devices /\ fault.target # {}
<1>1. base.network \in NetworkStates
  BY DEF Cutting, EngineStates
<1>2. /\ Links(DOMAIN base.network.device, DOMAIN base.network.link)
      /\ IsFiniteSet(DOMAIN base.network.device)
      /\ DOMAIN base.network.link \subseteq SUBSET DOMAIN base.network.device
      /\ DOMAIN base.network.link \subseteq Pairs
  BY <1>1, NetworkParts DEF Links
<1>3. CASE fault.kind = "device_down"
  <2>1. fault \in [kind : {"device_down"}, target : {{d} : d \in Devices}]
    BY <1>3 DEF Cutting, Faults
  <2>2. PICK d \in Devices : fault.target = {d}
    BY <2>1
  <2>3. fault = [kind |-> "device_down", target |-> {d}]
    BY <2>1, <2>2
  <2>4. d \in DOMAIN base.network.device
    BY <1>3, <2>2 DEF Cutting, Exists
  <2> QED
    BY <1>1, <1>2, <1>3, <2>2, <2>3, <2>4
<1>4. CASE fault.kind = "link"
  <2>1. fault.target \in DOMAIN base.network.link
    BY <1>4 DEF Cutting, Exists
  <2>2. fault.target # {}
    BY <1>2, <2>1, TwoEnds
  <2> QED
    BY <1>1, <1>2, <1>4, <2>1, <2>2
<1>5. fault.kind \in {"device_down", "link"}
  BY DEF Cutting, Faults
<1> QED
  BY <1>3, <1>4, <1>5

\* The ways from the entries to a device.
To(base, d) ==
  {way \in Ways(DOMAIN base.network.device, DOMAIN base.network.link) :
     way[1] \in base.entries /\ way[Len(way)] = d}

Lost(base, fault) ==
  {d \in DOMAIN base.network.device : To(base, d) # {} /\ \A way \in To(base, d) : Passes(way, fault)}

\* What a fault cuts off is what all ways to it pass through the fault, and the device itself.
LEMMA CutIsLost ==
  ASSUME NEW base, NEW fault, Cutting(base, fault)
  PROVE  CutOff(base, fault) = Lost(base, fault) \union (IF fault.kind = "link" THEN {} ELSE fault.target)
<1> DEFINE devices == DOMAIN base.network.device
           links == DOMAIN base.network.link
           before == Reachable(devices, links, base.entries)
<1>1. Links(devices, links) /\ IsFiniteSet(devices) /\ links \subseteq SUBSET devices
  BY CuttingParts
<1>2. \A d : d \in before <=> To(base, d) # {}
  BY <1>1, ReachedByWay DEF To
<1>3. before \subseteq devices
  BY <1>1, LeastClosed
<1>4. CASE fault.kind = "link"
  <2> DEFINE left == links \ {fault.target}
             after == Reachable(devices, left, base.entries)
  <2>1. Links(devices, left)
    BY <1>1 DEF Links
  <2>2. ASSUME NEW d
        PROVE  d \in after <=> \E way \in To(base, d) : ~Passes(way, fault)
    <3>1. d \in after <=> \E way \in Ways(devices, left) : way[1] \in base.entries /\ way[Len(way)] = d
      <4> HIDE DEF devices, left
      <4> QED
        BY <1>1, <2>1, ReachedByWay DEF after
    <3>2. ASSUME NEW way
          PROVE  way \in Ways(devices, left) <=> way \in Ways(devices, links) /\ ~Passes(way, fault)
      <4>1. Passes(way, fault) <=> \E i \in 1 .. (Len(way) - 1) : {way[i], way[i + 1]} = fault.target
        BY <1>4 DEF Passes
      <4>2. way \in Ways(devices, left) <=>
              way \in Ways(devices, links) /\ \A i \in 1 .. (Len(way) - 1) : {way[i], way[i + 1]} # fault.target
        <5> HIDE DEF devices, links
        <5> QED
          BY AvoidsLink
      <4> QED
        BY <4>1, <4>2
    <3> QED
      BY <3>1, <3>2 DEF To
  <2>3. CutOff(base, fault) = before \ after
    BY <1>4 DEF CutOff
  <2> HIDE DEF before, after
  <2> QED
    BY <1>2, <1>3, <1>4, <2>2, <2>3 DEF Lost
<1>5. CASE fault.kind # "link"
  <2>1. PICK f \in devices : fault.target = {f} /\ fault.kind = "device_down"
    BY <1>5, CuttingParts
  <2> DEFINE left == links \ LinksOf(links, {f})
             after == Reachable(devices \ {f}, left, base.entries)
  <2>2. Links(devices \ {f}, left) /\ IsFiniteSet(devices \ {f})
    BY <1>1, FS_RemoveElement DEF Links, LinksOf
  <2>3. ASSUME NEW d
        PROVE  d \in after <=> \E way \in To(base, d) : ~Passes(way, fault)
    <3>1. d \in after <=> \E way \in Ways(devices \ {f}, left) : way[1] \in base.entries /\ way[Len(way)] = d
      <4> DEFINE others == devices \ {f}
      <4>1. Links(others, left) /\ IsFiniteSet(others) /\ after = Reachable(others, left, base.entries)
        BY <2>2
      <4> HIDE DEF others, left, after
      <4>2. d \in after <=> \E way \in Ways(others, left) : way[1] \in base.entries /\ way[Len(way)] = d
        BY <4>1, ReachedByWay
      <4> QED
        BY <4>2 DEF others
    <3>2. \A way : Passes(way, fault) <=> \E i \in DOMAIN way : way[i] = f
      BY <2>1 DEF Passes
    <3>3. \A way : way \in Ways(devices \ {f}, left) <=> way \in Ways(devices, links) /\ ~Passes(way, fault)
      BY <1>1, <3>2, AvoidsDevice
    <3> QED
      BY <3>1, <3>3 DEF To
  <2>4. CutOff(base, fault) = {f} \union (before \ after)
    BY <2>1 DEF CutOff
  <2> HIDE DEF before, after
  <2>5. CutOff(base, fault) = Lost(base, fault) \union {f}
    BY <1>2, <1>3, <2>3, <2>4 DEF Lost
  <2> QED
    BY <1>5, <2>1, <2>5
<1> QED
  BY <1>4, <1>5

\* The fault that a device fails.
Failure(d) == [kind |-> "device_down", target |-> {d}]

\* The failure of a device cuts, and is analysed as what it cuts off and the links there.
LEMMA FailureCuts ==
  ASSUME NEW base \in EngineStates, NEW d \in DOMAIN base.network.device
  PROVE  /\ Cutting(base, Failure(d))
         /\ Propagation(base, Failure(d)) =
              [fault |-> Failure(d), devices |-> CutOff(base, Failure(d)),
               links |-> LinksOf(DOMAIN base.network.link, CutOff(base, Failure(d)))]
         /\ d \in CutOff(base, Failure(d))
<1>1. base.network \in NetworkStates
  BY DEF EngineStates
<1>2. DOMAIN base.network.device \subseteq Devices
  BY <1>1, NetworkParts
<1>3. Failure(d).kind = "device_down" /\ Failure(d).target = {d}
  BY DEF Failure
<1>4. Failure(d) \in Faults
  BY <1>2 DEF Failure, Faults
<1>5. Exists(base.network, Failure(d))
  BY <1>3 DEF Exists
<1> QED
  BY <1>3, <1>4, <1>5 DEF Cutting, Propagation, CutOff

\* What a link cuts off, the failure of either of its ends cuts off too; and if it cuts off
\* anything, then one of its ends.
LEMMA EndsCutMore ==
  ASSUME NEW base, NEW fault, Cutting(base, fault), fault.kind = "link"
  PROVE  /\ \A d \in fault.target : CutOff(base, fault) \subseteq CutOff(base, Failure(d))
         /\ CutOff(base, fault) # {} => fault.target \cap CutOff(base, fault) # {}
<1> DEFINE devices == DOMAIN base.network.device
           links == DOMAIN base.network.link
           before == Reachable(devices, links, base.entries)
           left == links \ {fault.target}
           after == Reachable(devices, left, base.entries)
<1>1. Links(devices, links) /\ links \subseteq SUBSET devices /\ fault.target \in links /\ left \subseteq SUBSET devices
  BY CuttingParts
<1>2. CutOff(base, fault) = before \ after
  BY DEF CutOff
<1>3. ASSUME NEW d \in fault.target
      PROVE  CutOff(base, fault) \subseteq CutOff(base, Failure(d))
  <2> DEFINE fewer == links \ LinksOf(links, {d})
             rest == Reachable(devices \ {d}, fewer, base.entries)
  <2>1. rest \subseteq after
    <3>1. devices \ {d} \subseteq devices /\ fewer \subseteq left /\ fewer \subseteq SUBSET (devices \ {d})
      BY <1>1, <1>3 DEF LinksOf
    <3> HIDE DEF fewer, left
    <3> QED
      BY <1>1, <3>1, FewerReach
  <2>2. CutOff(base, Failure(d)) = {d} \union (before \ rest)
    BY DEF CutOff, Failure
  <2> QED
    BY <1>2, <2>1, <2>2
<1>4. ASSUME CutOff(base, fault) # {}
      PROVE  fault.target \cap CutOff(base, fault) # {}
  <2> SUFFICES ASSUME \A d \in fault.target : d \in before => d \in after
               PROVE  FALSE
    BY <1>2
  <2>1. /\ before \subseteq devices /\ after \subseteq devices
        /\ base.entries \cap devices \subseteq after
        /\ Closed(links, before) /\ Closed(left, after)
        /\ base.entries \cap devices \subseteq after /\ Closed(links, after) => before \subseteq after
        /\ after \subseteq before
    <3>1. after \subseteq before
      BY <1>1, FewerReach
    <3>2. before \subseteq devices /\ Closed(links, before)
          /\ \A set \in SUBSET devices :
               base.entries \cap devices \subseteq set /\ Closed(links, set) => before \subseteq set
      <4> HIDE DEF devices, links
      <4> QED
        BY <1>1, LeastClosed DEF before
    <3>3. after \subseteq devices /\ base.entries \cap devices \subseteq after /\ Closed(left, after)
      <4> HIDE DEF devices, left
      <4> QED
        BY <1>1, LeastClosed DEF after
    <3> HIDE DEF before, after, left, devices, links
    <3> QED
      BY <3>1, <3>2, <3>3
  <2> HIDE DEF before, after, left
  <2>2. Closed(links, after)
    <3> SUFFICES ASSUME NEW l \in links, l \cap after # {}
                 PROVE  l \subseteq after
      BY DEF Closed
    <3>1. CASE l = fault.target
      BY <2>1, <3>1 DEF Closed
    <3>2. CASE l # fault.target
      BY <2>1, <3>2 DEF Closed, left
    <3> QED
      BY <3>1, <3>2
  <2> QED
    BY <1>2, <1>4, <2>1, <2>2
<1> QED
  BY <1>3, <1>4

(***************************************************************************)
(* Propagation.                                                            *)
(***************************************************************************)

\* The result an engine holds is that of a fault it analysed.
Studied ==
  study # None => /\ engine # None
                  /\ \E fault \in Faults : study = Propagation(engine, fault)

EngineOK == engine # None => engine \in EngineStates

\* What is not refused is the propagation of a fault of the network.
LEMMA StudyParts ==
  ASSUME EngineOK, Studied, study \notin {None, Refused}
  PROVE  /\ engine \in EngineStates /\ engine # None
         /\ study.fault \in Faults /\ Exists(engine.network, study.fault)
         /\ study = Propagation(engine, study.fault)
         /\ study.fault.kind # "service_down" =>
              /\ Cutting(engine, study.fault)
              /\ study.devices = CutOff(engine, study.fault)
              /\ study.links = LinksOf(DOMAIN engine.network.link, study.devices)
                                 \union (IF study.fault.kind = "link" THEN {study.fault.target} ELSE {})
         /\ study.fault.kind = "service_down" => study.devices = study.fault.target /\ study.links = {}
<1>1. PICK fault \in Faults : study = Propagation(engine, fault)
  BY DEF Studied
<1>2. Exists(engine.network, fault)
  BY <1>1 DEF Propagation
<1>3. study.fault = fault
  BY <1>1, <1>2 DEF Propagation
<1>4. engine \in EngineStates /\ engine # None
  BY DEF EngineOK, Studied
<1>5. CASE fault.kind = "service_down"
  BY <1>1, <1>2, <1>3, <1>4, <1>5 DEF Propagation
<1>6. CASE fault.kind # "service_down"
  <2>1. study = [fault |-> fault, devices |-> CutOff(engine, fault),
                 links |-> LinksOf(DOMAIN engine.network.link, CutOff(engine, fault))
                             \union (IF fault.kind = "link" THEN {fault.target} ELSE {})]
    BY <1>1, <1>2, <1>6 DEF Propagation
  <2>2. Cutting(engine, fault)
    BY <1>2, <1>4, <1>6 DEF Cutting
  <2> QED
    BY <1>1, <1>2, <1>3, <1>4, <1>6, <2>1, <2>2
<1> QED
  BY <1>5, <1>6

\* The analysis held is exact: the engine it was made by is the one that is there.
LEMMA ExactHere ==
  ASSUME EngineOK, Studied
  PROVE  PropagationIsExact
<1> SUFFICES ASSUME study \notin {None, Refused}, study.fault.kind # "service_down"
             PROVE  LET fault == study.fault
                        links == DOMAIN engine.network.link
                    IN  /\ study.devices = Lost(engine, fault) \union (IF fault.kind = "link" THEN {} ELSE fault.target)
                        /\ study.links = {l \in links : l = fault.target \/ \E d \in study.devices : d \in l}
                        /\ \A d \in fault.target \cap study.devices :
                              LET failed == Propagation(engine, Failure(d))
                              IN  study.devices \subseteq failed.devices /\ study.links \subseteq failed.links
  <2>1. \A d : To(engine, d) =
          {way \in {w \in Ways(DOMAIN engine.network.device, DOMAIN engine.network.link) : w[1] \in engine.entries} :
             way[Len(way)] = d}
    BY DEF To
  <2> QED
    BY <2>1 DEF PropagationIsExact, Lost, Failure
<1> DEFINE fault == study.fault
           links == DOMAIN engine.network.link
<1>1. /\ engine \in EngineStates /\ Cutting(engine, fault)
      /\ study.devices = CutOff(engine, fault)
      /\ study.links = LinksOf(links, study.devices) \union (IF fault.kind = "link" THEN {fault.target} ELSE {})
  BY StudyParts
<1>2. /\ links \subseteq Pairs /\ links \subseteq SUBSET DOMAIN engine.network.device
      /\ \/ fault.kind = "device_down" /\ \E d \in DOMAIN engine.network.device : fault = Failure(d) /\ fault.target = {d}
         \/ fault.kind = "link" /\ fault.target \in links /\ fault.target \subseteq DOMAIN engine.network.device
  BY <1>1, CuttingParts DEF Links, Failure
<1> HIDE DEF fault, links
<1>3. study.devices = Lost(engine, fault) \union (IF fault.kind = "link" THEN {} ELSE fault.target)
  BY <1>1, CutIsLost
<1>4. study.links = {l \in links : l = fault.target \/ \E d \in study.devices : d \in l}
  <2>1. LinksOf(links, study.devices) = {l \in links : \E d \in study.devices : d \in l}
    BY DEF LinksOf
  <2>2. CASE fault.kind = "link"
    BY <1>1, <1>2, <2>1, <2>2
  <2>3. CASE fault.kind = "device_down"
    <3>1. \A l \in links : l # fault.target
      <4>1. PICK d : fault.target = {d}
        BY <1>2, <2>3
      <4>2. \A l \in links : \E x, y \in l : x # y
        BY <1>2, TwoEnds
      <4> QED
        BY <4>1, <4>2
    <3> QED
      BY <1>1, <2>1, <2>3, <3>1
  <2> QED
    BY <1>2, <2>2, <2>3
<1>5. ASSUME NEW d \in fault.target \cap study.devices
      PROVE  LET failed == Propagation(engine, Failure(d))
             IN  study.devices \subseteq failed.devices /\ study.links \subseteq failed.links
  <2>1. d \in DOMAIN engine.network.device
    BY <1>2
  <2> DEFINE cut == CutOff(engine, Failure(d))
  <2>2. /\ Propagation(engine, Failure(d)).devices = cut
        /\ Propagation(engine, Failure(d)).links = LinksOf(links, cut)
        /\ d \in cut
    BY <1>1, <2>1, FailureCuts DEF links
  <2>3. study.devices \subseteq cut
    <3>1. CASE fault.kind = "device_down"
      <4>1. fault = Failure(d)
        BY <1>2, <3>1
      <4> QED
        BY <1>1, <4>1
    <3>2. CASE fault.kind = "link"
      BY <1>1, <3>2, EndsCutMore
    <3> QED
      BY <1>2, <3>1, <3>2
  <2> HIDE DEF cut
  <2>4. study.links \subseteq LinksOf(links, cut)
    BY <1>1, <1>2, <2>2, <2>3 DEF LinksOf
  <2> QED
    BY <2>2, <2>3, <2>4
<1> QED
  BY <1>3, <1>4, <1>5 DEF fault, links

(***************************************************************************)
(* What devices offer.                                                     *)
(***************************************************************************)

\* A union of finitely many finite sets.
LEMMA FiniteUnion ==
  ASSUME NEW S, IsFiniteSet(S), NEW f, \A x \in S : IsFiniteSet(f[x])
  PROVE  IsFiniteSet(UNION {f[x] : x \in S})
<1> DEFINE T == {f[x] : x \in S}
           g == [x \in S |-> f[x]]
<1>1. g \in [S -> T] /\ \A t \in T : \E x \in S : g[x] = t
  OBVIOUS
<1>2. \A t \in T : IsFiniteSet(t)
  OBVIOUS
<1> HIDE DEF T, g
<1>3. IsFiniteSet(T)
  BY <1>1, Fun_IsSurj, FS_Surjection
<1>4. IsFiniteSet(UNION T)
  BY <1>2, <1>3, FS_UNION
<1> QED
  BY <1>4 DEF T

\* A device lists finitely many services, and offers no more than it lists; it offers as
\* many only when it lists none twice.
LEMMA OfferedParts ==
  ASSUME NEW n \in NetworkStates, NEW d \in DOMAIN n.device
  PROVE  LET services == n.device[d].services
         IN  /\ Len(services) \in Nat /\ DOMAIN services = 1 .. Len(services)
             /\ IsFiniteSet(Offered(n, d)) /\ Cardinality(Offered(n, d)) \in Nat
             /\ Cardinality(Offered(n, d)) <= Len(services)
             /\ Cardinality(Offered(n, d)) = Len(services) =>
                  \A i, j \in 1 .. Len(services) : services[i] = services[j] => i = j
<1> DEFINE services == n.device[d].services
           k == Len(services)
           f == [i \in 1 .. k |-> <<d, services[i]>>]
<1>1. services \in Seq(STRING)
  <2>1. n.device[d] \in Profiles
    BY NetworkParts
  <2> QED
    BY <2>1, ProfilesAssumption
<1> HIDE DEF services
<1>2. k \in Nat /\ DOMAIN services = 1 .. k
  BY <1>1
<1>3. Offered(n, d) = {<<d, services[i]>> : i \in 1 .. k}
  BY <1>2 DEF Offered, services
<1>4. f \in Surjection(1 .. k, Offered(n, d))
  <2>1. f \in [1 .. k -> Offered(n, d)] /\ \A t \in Offered(n, d) : \E i \in 1 .. k : f[i] = t
    BY <1>3
  <2> HIDE DEF f, k
  <2> QED
    BY <2>1, Fun_IsSurj
<1>5. IsFiniteSet(1 .. k) /\ Cardinality(1 .. k) = k
  <2>1. k \in Nat
    BY <1>2
  <2> HIDE DEF k
  <2>2. IsFiniteSet(1 .. k) /\ Cardinality(1 .. k) = IF 1 > k THEN 0 ELSE k - 1 + 1
    BY <2>1, FS_Interval
  <2> QED
    BY <2>1, <2>2
<1>6. /\ IsFiniteSet(Offered(n, d)) /\ Cardinality(Offered(n, d)) <= k
      /\ Cardinality(Offered(n, d)) = k <=> f \in Injection(1 .. k, Offered(n, d))
  <2> HIDE DEF f, k
  <2> QED
    BY <1>4, <1>5, FS_Surjection
<1>7. Cardinality(Offered(n, d)) \in Nat
  BY <1>6, FS_CardinalityType
<1>8. ASSUME f \in Injection(1 .. k, Offered(n, d)), NEW i \in 1 .. k, NEW j \in 1 .. k,
             services[i] = services[j]
      PROVE  i = j
  <2>1. f[i] = f[j]
    BY <1>8
  <2> HIDE DEF f
  <2> QED
    BY <1>8, <2>1 DEF Injection, IsInjective
<1> QED
  BY <1>2, <1>6, <1>7, <1>8 DEF services

\* What the devices of a set list, and what they offer, is finite.
Listing(network, devices) == UNION {Listed(network, d) : d \in devices}

LEMMA ListingParts ==
  ASSUME NEW n \in NetworkStates, NEW D \in SUBSET DOMAIN n.device
  PROVE  /\ IsFiniteSet(Listing(n, D)) /\ Listings(n, D) = Cardinality(Listing(n, D))
         /\ Listings(n, D) \in Nat
         /\ IsFiniteSet(Offers(n, D)) /\ Cardinality(Offers(n, D)) \in Nat
<1>1. IsFiniteSet(D)
  BY NetworkParts, FS_Subset
<1>2. \A d \in D : IsFiniteSet(Listed(n, d))
  <2> SUFFICES ASSUME NEW d \in D
               PROVE  IsFiniteSet(Listed(n, d))
    OBVIOUS
  <2> DEFINE k == Len(n.device[d].services)
             f == [i \in 1 .. k |-> <<d, i>>]
  <2>1. k \in Nat /\ DOMAIN n.device[d].services = 1 .. k
    BY OfferedParts
  <2> HIDE DEF k
  <2>2. f \in [1 .. k -> Listed(n, d)] /\ \A t \in Listed(n, d) : \E i \in 1 .. k : f[i] = t
    BY <2>1 DEF Listed
  <2>3. IsFiniteSet(1 .. k)
    BY <2>1, FS_Interval
  <2> HIDE DEF f
  <2> QED
    BY <2>2, <2>3, Fun_IsSurj, FS_Surjection
<1>3. \A d \in D : IsFiniteSet(Offered(n, d))
  BY OfferedParts
<1>4. IsFiniteSet(Listing(n, D))
  <2> DEFINE f == [d \in D |-> Listed(n, d)]
  <2>1. \A d \in D : IsFiniteSet(f[d])
    BY <1>2
  <2>2. Listing(n, D) = UNION {f[d] : d \in D}
    BY DEF Listing
  <2> HIDE DEF f
  <2> QED
    BY <1>1, <2>1, <2>2, FiniteUnion
<1>5. IsFiniteSet(Offers(n, D))
  <2> DEFINE f == [d \in D |-> Offered(n, d)]
  <2>1. \A d \in D : IsFiniteSet(f[d])
    BY <1>3
  <2>2. Offers(n, D) = UNION {f[d] : d \in D}
    BY DEF Offers
  <2> HIDE DEF f
  <2> QED
    BY <1>1, <2>1, <2>2, FiniteUnion
<1>6. Listings(n, D) = Cardinality(Listing(n, D))
  BY DEF Listings, Listing
<1> QED
  BY <1>4, <1>5, <1>6, FS_CardinalityType

\* More devices list more.
LEMMA MoreListed ==
  ASSUME NEW n \in NetworkStates, NEW D \in SUBSET DOMAIN n.device, NEW C \in SUBSET D
  PROVE  Listings(n, C) <= Listings(n, D)
<1>1. Listing(n, C) \subseteq Listing(n, D)
  BY DEF Listing
<1> QED
  BY <1>1, ListingParts, FS_Subset

\* A device that lists a service counts.
LEMMA SomeListed ==
  ASSUME NEW n \in NetworkStates, NEW D \in SUBSET DOMAIN n.device, NEW d \in D,
         DOMAIN n.device[d].services # {}
  PROVE  1 <= Listings(n, D)
<1>1. Listing(n, D) # {}
  <2>1. PICK i : i \in DOMAIN n.device[d].services
    OBVIOUS
  <2>2. <<d, i>> \in Listed(n, d)
    BY <2>1 DEF Listed
  <2>3. <<d, i>> \in Listing(n, D)
    BY <2>2 DEF Listing
  <2> QED
    BY <2>3
<1>2. Listings(n, D) # 0
  BY <1>1, ListingParts, FS_EmptySet
<1> QED
  BY <1>2, ListingParts

\* When no device lists a service twice, no more is listed than all devices offer.
LEMMA ListedOnce ==
  ASSUME NEW n \in NetworkStates, NEW D \in SUBSET DOMAIN n.device,
         \A d \in DOMAIN n.device : ~ (Len(n.device[d].services) > Cardinality(Offered(n, d)))
  PROVE  Listings(n, D) <= Cardinality(Offers(n, DOMAIN n.device))
<1> DEFINE all == DOMAIN n.device
           f == [x \in Listing(n, D) |-> <<x[1], n.device[x[1]].services[x[2]]>>]
<1>1. ASSUME NEW x \in Listing(n, D)
      PROVE  /\ x[1] \in all /\ x = <<x[1], x[2]>> /\ x[2] \in DOMAIN n.device[x[1]].services
             /\ f[x] = <<x[1], n.device[x[1]].services[x[2]]>>
             /\ f[x] \in Offers(n, all)
  <2>1. PICK d \in D : x \in Listed(n, d)
    BY DEF Listing
  <2>2. PICK i \in DOMAIN n.device[d].services : x = <<d, i>>
    BY <2>1 DEF Listed
  <2>3. <<d, n.device[d].services[i]>> \in Offered(n, d)
    BY DEF Offered
  <2> QED
    BY <2>2, <2>3 DEF Offers
<1> HIDE DEF f
<1>2. ASSUME NEW x \in Listing(n, D), NEW y \in Listing(n, D), f[x] = f[y]
      PROVE  x = y
  <2>1. x[1] = y[1] /\ n.device[x[1]].services[x[2]] = n.device[x[1]].services[y[2]]
    BY <1>1, <1>2
  <2> DEFINE services == n.device[x[1]].services
  <2>2. Len(services) \in Nat /\ DOMAIN services = 1 .. Len(services)
        /\ Cardinality(Offered(n, x[1])) = Len(services)
    <3>1. x[1] \in DOMAIN n.device
      BY <1>1
    <3>2. /\ Len(services) \in Nat /\ DOMAIN services = 1 .. Len(services)
          /\ Cardinality(Offered(n, x[1])) \in Nat /\ Cardinality(Offered(n, x[1])) <= Len(services)
      BY <3>1, OfferedParts
    <3>3. ~ (Len(services) > Cardinality(Offered(n, x[1])))
      BY <3>1
    <3> QED
      BY <3>2, <3>3
  <2>3. \A i, j \in 1 .. Len(services) : services[i] = services[j] => i = j
    BY <1>1, <2>2, OfferedParts
  <2>4. x[2] \in 1 .. Len(services) /\ y[2] \in 1 .. Len(services)
    BY <1>1, <2>1, <2>2
  <2>5. x[2] = y[2]
    BY <2>1, <2>3, <2>4
  <2> QED
    BY <1>1, <2>1, <2>5
<1>3. f \in [Listing(n, D) -> Offers(n, all)]
  BY <1>1 DEF f
<1>4. f \in Injection(Listing(n, D), Offers(n, all))
  BY <1>2, <1>3, Fun_IsInj
<1>5. IsFiniteSet(Offers(n, all))
  BY ListingParts
<1>6. Cardinality(Listing(n, D)) <= Cardinality(Offers(n, all))
  BY <1>4, <1>5, FS_Injection
<1> QED
  BY <1>6, ListingParts

(***************************************************************************)
(* Scores.                                                                 *)
(***************************************************************************)

\* Products grow with their factors.
LEMMA ProductGrows ==
  ASSUME NEW a \in Nat, NEW b \in Nat, NEW c \in Nat, NEW d \in Nat, a <= b, c <= d
  PROVE  a * c \in Nat /\ b * d \in Nat /\ a * c <= b * d
<1>1. a * c \in Nat /\ b * d \in Nat /\ b * c \in Nat /\ a * c <= b * c
  <2>1. a * c \in Nat /\ b * d \in Nat /\ b * c \in Nat
    OBVIOUS
  <2>2. PICK e \in Nat : b = a + e
    <3> WITNESS b - a \in Nat
    <3> QED
      OBVIOUS
  <2>3. b * c = a * c + e * c /\ e * c \in Nat
    BY <2>2
  <2> QED
    BY <2>1, <2>3
<1>2. b * c <= b * d
  <2>2. PICK e \in Nat : d = c + e
    <3> WITNESS d - c \in Nat
    <3> QED
      OBVIOUS
  <2>3. b * d = b * c + b * e /\ b * e \in Nat
    BY <2>2
  <2> QED
    BY <1>1, <2>3
<1> QED
  BY <1>1, <1>2

\* What a quotient of whole numbers is.
LEMMA Quotient ==
  ASSUME NEW x \in Nat, NEW p \in Nat \ {0}
  PROVE  x \div p \in Nat /\ \E r \in 0 .. (p - 1) : x = p * (x \div p) + r
<1>1. x \div p \in Nat
  OBVIOUS
<1>2. x % p \in 0 .. (p - 1)
  OBVIOUS
<1>3. x = p * (x \div p) + (x % p)
  OBVIOUS
<1> QED
  BY <1>1, <1>2, <1>3

\* Quotients grow with what is divided.
LEMMA QuotientGrows ==
  ASSUME NEW x \in Nat, NEW y \in Nat, NEW p \in Nat \ {0}, x <= y
  PROVE  x \div p <= y \div p
<1> DEFINE a == x \div p
           b == y \div p
<1>1. PICK r \in 0 .. (p - 1) : x = p * a + r /\ a \in Nat
  BY Quotient
<1>2. PICK t \in 0 .. (p - 1) : y = p * b + t /\ b \in Nat
  BY Quotient
<1> HIDE DEF a, b
<1> SUFFICES ASSUME a > b
             PROVE  FALSE
  BY <1>1, <1>2 DEF a, b
<1>3. b + 1 \in Nat /\ b + 1 <= a
  BY <1>1, <1>2
<1>4. p * (b + 1) <= p * a
  BY <1>1, <1>3, ProductGrows
<1>5. p * (b + 1) = p * b + p
  BY <1>2
<1>6. p * a \in Nat /\ p * b \in Nat
  BY <1>1, <1>2
<1> QED
  BY <1>1, <1>2, <1>4, <1>5, <1>6

\* A quotient that is rounded to the nearest keeps a whole bound.
LEMMA QuotientBound ==
  ASSUME NEW x \in Nat, NEW q \in Nat \ {0}, NEW w \in Nat, x <= 20000 * (w * q) + 10 * q
  PROVE  x \div (20 * q) <= 1000 * w
<1> DEFINE p == 20 * q
           a == x \div p
<1>1. p \in Nat \ {0} /\ w * q \in Nat
  OBVIOUS
<1>2. PICK r \in 0 .. (p - 1) : x = p * a + r /\ a \in Nat
  <2> HIDE DEF p
  <2>1. x \div p \in Nat /\ \E r \in 0 .. (p - 1) : x = p * (x \div p) + r
    <3>1. p \in Nat \ {0}
      BY <1>1
    <3>2. x \in Nat
      OBVIOUS
    <3> QED
      BY ONLY <3>1, <3>2, Quotient
  <2> QED
    BY <2>1
<1> HIDE DEF a
<1> SUFFICES ASSUME a > 1000 * w
             PROVE  FALSE
  BY <1>2 DEF a
<1>3. 1000 * w + 1 \in Nat /\ 1000 * w + 1 <= a
  BY <1>2
<1>4. p * (1000 * w + 1) <= p * a
  <2> HIDE DEF p
  <2> QED
    BY <1>1, <1>2, <1>3, ProductGrows
<1>5. (20 * q) * (1000 * w + 1) = 20000 * (w * q) + 20 * q
  OBVIOUS
<1>6. (20 * q) * a \in Nat
  BY <1>1, <1>2
<1> QED
  BY <1>1, <1>2, <1>4, <1>5, <1>6

\* The points of c devices, k services and m links among d, s and l, and their share in
\* hundredths of a point at weight w.
Points(c, k, m, d, s, l) == 50 * c * s * l + 30 * k * d * l + 20 * m * d * s

Share(w, points, d, s, l) == (2 * (100 * w * points) + 10 * d * s * l) \div (20 * d * s * l)

LEMMA PointsParts ==
  ASSUME NEW c \in Nat, NEW k \in Nat, NEW m \in Nat, NEW d \in Nat, NEW s \in Nat, NEW l \in Nat
  PROVE  /\ Points(c, k, m, d, s, l) = 50 * (c * (s * l)) + 30 * (k * (d * l)) + 20 * (m * (d * s))
         /\ c * (s * l) \in Nat /\ k * (d * l) \in Nat /\ m * (d * s) \in Nat
         /\ s * l \in Nat /\ d * l \in Nat /\ d * s \in Nat
         /\ Points(c, k, m, d, s, l) \in Nat
<1>1. s * l \in Nat /\ d * l \in Nat /\ d * s \in Nat
  OBVIOUS
<1>2. c * (s * l) \in Nat /\ k * (d * l) \in Nat /\ m * (d * s) \in Nat
  BY <1>1, ProductGrows
<1>3. 50 * c * s * l = 50 * (c * (s * l))
  OBVIOUS
<1>4. 30 * k * d * l = 30 * (k * (d * l))
  OBVIOUS
<1>5. 20 * m * d * s = 20 * (m * (d * s))
  OBVIOUS
<1>6. Points(c, k, m, d, s, l) = 50 * (c * (s * l)) + 30 * (k * (d * l)) + 20 * (m * (d * s))
  BY <1>3, <1>4, <1>5 DEF Points
<1> HIDE DEF Points
<1>7. Points(c, k, m, d, s, l) \in Nat
  BY <1>2, <1>6
<1> QED
  BY <1>1, <1>2, <1>6, <1>7

\* More of each gives no fewer points.
LEMMA PointsGrow ==
  ASSUME NEW c \in Nat, NEW k \in Nat, NEW m \in Nat, NEW d \in Nat, NEW s \in Nat, NEW l \in Nat,
         NEW c2 \in Nat, NEW k2 \in Nat, NEW m2 \in Nat, c <= c2, k <= k2, m <= m2
  PROVE  Points(c, k, m, d, s, l) <= Points(c2, k2, m2, d, s, l)
<1>1. s * l \in Nat /\ d * l \in Nat /\ d * s \in Nat
  BY PointsParts
<1>2. /\ c * (s * l) \in Nat /\ k * (d * l) \in Nat /\ m * (d * s) \in Nat
      /\ Points(c, k, m, d, s, l) = 50 * (c * (s * l)) + 30 * (k * (d * l)) + 20 * (m * (d * s))
  BY PointsParts
<1>3. /\ c2 * (s * l) \in Nat /\ k2 * (d * l) \in Nat /\ m2 * (d * s) \in Nat
      /\ Points(c2, k2, m2, d, s, l) = 50 * (c2 * (s * l)) + 30 * (k2 * (d * l)) + 20 * (m2 * (d * s))
  BY PointsParts
<1>4. c * (s * l) <= c2 * (s * l)
  BY <1>1, ProductGrows
<1>5. k * (d * l) <= k2 * (d * l)
  BY <1>1, ProductGrows
<1>6. m * (d * s) <= m2 * (d * s)
  BY <1>1, ProductGrows
<1> DEFINE x == c * (s * l)
           y == k * (d * l)
           z == m * (d * s)
           x2 == c2 * (s * l)
           y2 == k2 * (d * l)
           z2 == m2 * (d * s)
<1> HIDE DEF x, y, z, x2, y2, z2
<1> QED
  BY <1>2, <1>3, <1>4, <1>5, <1>6 DEF x, y, z, x2, y2, z2

\* A share is a whole number.
LEMMA ShareParts ==
  ASSUME NEW w \in Nat, NEW p \in Nat, NEW d \in Nat \ {0}, NEW s \in Nat \ {0}, NEW l \in Nat \ {0}
  PROVE  LET q == d * s * l
         IN  /\ q \in Nat \ {0}
             /\ w * p \in Nat
             /\ Share(w, p, d, s, l) = (200 * (w * p) + 10 * q) \div (20 * q)
             /\ Share(w, p, d, s, l) \in Nat
<1> DEFINE q == d * s * l
<1>1. q \in Nat \ {0}
  <2>1. d * s \in Nat \ {0}
    OBVIOUS
  <2> DEFINE ds == d * s
  <2> HIDE DEF ds
  <2>2. ds * l \in Nat \ {0}
    BY <2>1 DEF ds
  <2> QED
    BY <2>2 DEF ds
<1>2. w * p \in Nat
  OBVIOUS
<1>3. 2 * (100 * w * p) = 200 * (w * p)
  OBVIOUS
<1>4. 10 * d * s * l = 10 * q /\ 20 * d * s * l = 20 * q
  OBVIOUS
<1>5. Share(w, p, d, s, l) = (200 * (w * p) + 10 * q) \div (20 * q)
  <2> HIDE DEF q
  <2> QED
    BY <1>3, <1>4 DEF Share
<1> HIDE DEF q
<1>6. 200 * (w * p) + 10 * q \in Nat /\ 20 * q \in Nat \ {0}
  BY <1>1, <1>2
<1>7. Share(w, p, d, s, l) \in Nat
  <2> DEFINE x == 200 * (w * p) + 10 * q
             y == 20 * q
  <2>1. x \in Nat /\ y \in Nat \ {0} /\ Share(w, p, d, s, l) = x \div y
    BY <1>5, <1>6
  <2> HIDE DEF x, y
  <2>2. x \div y \in Nat
    BY <2>1, Quotient
  <2> QED
    BY <2>1, <2>2
<1> QED
  BY <1>1, <1>2, <1>5, <1>7 DEF q

\* More points are no smaller a share.
LEMMA ShareGrows ==
  ASSUME NEW w \in Nat, NEW p \in Nat, NEW p2 \in Nat, p <= p2,
         NEW d \in Nat \ {0}, NEW s \in Nat \ {0}, NEW l \in Nat \ {0}
  PROVE  Share(w, p, d, s, l) <= Share(w, p2, d, s, l)
<1> DEFINE q == d * s * l
           x == 200 * (w * p) + 10 * q
           x2 == 200 * (w * p2) + 10 * q
           y == 20 * q
<1>1. q \in Nat \ {0} /\ w * p \in Nat /\ Share(w, p, d, s, l) = x \div y
  BY ShareParts
<1>2. w * p2 \in Nat /\ Share(w, p2, d, s, l) = x2 \div y
  BY ShareParts
<1>3. w * p <= w * p2
  BY ProductGrows
<1>4. x \in Nat /\ x2 \in Nat /\ x <= x2 /\ y \in Nat \ {0}
  <2> HIDE DEF q
  <2> DEFINE a == w * p
             b == w * p2
  <2> HIDE DEF a, b
  <2> QED
    BY <1>1, <1>2, <1>3 DEF a, b
<1> HIDE DEF x, x2, y
<1>5. x \div y <= x2 \div y
  BY <1>4, QuotientGrows
<1> QED
  BY <1>1, <1>2, <1>5

\* Devices, services and links that are no more than all there are have at most a hundred
\* points, and the share of a weight is then at most ten times it.
LEMMA PointsBound ==
  ASSUME NEW c \in Nat, NEW k \in Nat, NEW m \in Nat,
         NEW d \in Nat, NEW s \in Nat, NEW l \in Nat, c <= d, k <= s, m <= l
  PROVE  Points(c, k, m, d, s, l) <= 100 * (d * s * l)
<1> DEFINE q == d * s * l
           full == Points(d, s, l, d, s, l)
<1>1. Points(c, k, m, d, s, l) <= full
  BY PointsGrow
<1>2. full = 50 * (d * (s * l)) + 30 * (s * (d * l)) + 20 * (l * (d * s))
  BY PointsParts
<1>3. d * (s * l) = q
  OBVIOUS
<1>4. s * (d * l) = q
  OBVIOUS
<1>5. l * (d * s) = q
  OBVIOUS
<1>6. q \in Nat
  BY <1>3, PointsParts
<1>7. full = 100 * q
  <2> HIDE DEF full, q
  <2> QED
    BY <1>2, <1>3, <1>4, <1>5, <1>6
<1> QED
  BY <1>1, <1>7

LEMMA ShareBound ==
  ASSUME NEW w \in Nat, NEW p \in Nat,
         NEW d \in Nat \ {0}, NEW s \in Nat \ {0}, NEW l \in Nat \ {0}, p <= 100 * (d * s * l)
  PROVE  Share(w, p, d, s, l) <= 1000 * w
<1> DEFINE q == d * s * l
           full == 100 * q
           a == w * p
           b == w * full
           wq == w * q
           x == 200 * a + 10 * q
<1>1. /\ q \in Nat \ {0} /\ a \in Nat
      /\ Share(w, p, d, s, l) = (200 * a + 10 * q) \div (20 * q)
      /\ Share(w, p, d, s, l) \in Nat
  BY ShareParts
<1> HIDE DEF q
<1>2. full \in Nat /\ p <= full
  BY <1>1 DEF q
<1>3. b \in Nat /\ a <= b
  <2> HIDE DEF full
  <2> QED
    BY <1>2, ProductGrows
<1>4. b = 100 * wq /\ wq \in Nat
  BY <1>1
<1> HIDE DEF a, b
<1>5. x \in Nat /\ x <= 20000 * wq + 10 * q
  <2> HIDE DEF wq
  <2> QED
    BY <1>1, <1>3, <1>4
<1> HIDE DEF x
<1>6. x \div (20 * q) <= 1000 * w
  BY <1>1, <1>5, QuotientBound
<1> QED
  BY <1>1, <1>6 DEF x

(***************************************************************************)
(* Impact.                                                                 *)
(***************************************************************************)

\* What of a network a result must lie in, to be assessed on it.
Within(n, result) ==
  n \in NetworkStates /\ result.devices \subseteq DOMAIN n.device /\ result.links \subseteq DOMAIN n.link

Total(set) == Larger(Cardinality(set), 1)
Names(n) == Offers(n, DOMAIN n.device)
Count(n, result) == IF result.fault.kind = "service_down" THEN 1 ELSE Listings(n, result.devices)
Capped(x) == IF x > 10000 THEN 10000 ELSE x

\* A total counts a finite set, and no part of it counts more.
LEMMA TotalParts ==
  ASSUME NEW set, IsFiniteSet(set)
  PROVE  /\ Cardinality(set) \in Nat /\ Total(set) \in Nat \ {0} /\ Cardinality(set) <= Total(set)
         /\ \A part \in SUBSET set :
              IsFiniteSet(part) /\ Cardinality(part) \in Nat /\ Cardinality(part) <= Cardinality(set)
<1>1. Cardinality(set) \in Nat
  BY FS_CardinalityType
<1>2. \A part \in SUBSET set :
        IsFiniteSet(part) /\ Cardinality(part) \in Nat /\ Cardinality(part) <= Cardinality(set)
  BY FS_Subset, FS_CardinalityType
<1> QED
  BY <1>1, <1>2 DEF Total, Larger

\* What a score is made of.
LEMMA ScoreParts ==
  ASSUME NEW n, NEW result, Within(n, result), NEW severity \in DOMAIN Weight
  PROVE  LET d == Total(DOMAIN n.device)
             s == Total(Names(n))
             l == Total(DOMAIN n.link)
             c == Cardinality(result.devices)
             k == Count(n, result)
             m == Cardinality(result.links)
             w == Weight[severity]
         IN  /\ d \in Nat \ {0} /\ s \in Nat \ {0} /\ l \in Nat \ {0}
             /\ c \in Nat /\ k \in Nat /\ m \in Nat /\ w \in Nat
             /\ c <= d /\ m <= l /\ Cardinality(Names(n)) <= s /\ Cardinality(Names(n)) \in Nat
             /\ Score(n, result, severity) = Capped(Share(w, Points(c, k, m, d, s, l), d, s, l))
             /\ Score(n, result, severity) \in Nat
<1> DEFINE d == Total(DOMAIN n.device)
           s == Total(Names(n))
           l == Total(DOMAIN n.link)
           c == Cardinality(result.devices)
           k == Count(n, result)
           m == Cardinality(result.links)
           w == Weight[severity]
<1>1. /\ IsFiniteSet(DOMAIN n.device) /\ DOMAIN n.device \in SUBSET DOMAIN n.device
      /\ DOMAIN n.link \subseteq Pairs /\ n \in NetworkStates
  BY NetworkParts DEF Within
<1>2. IsFiniteSet(DOMAIN n.link)
  <2>1. Pairs \subseteq SUBSET Devices
    BY DEF Pairs
  <2>2. IsFiniteSet(SUBSET Devices)
    BY DevicesAssumption, FS_SUBSET
  <2>3. DOMAIN n.link \in SUBSET SUBSET Devices
    BY <1>1, <2>1
  <2> QED
    BY <2>2, <2>3, FS_Subset
<1>3. IsFiniteSet(Names(n))
  BY <1>1, ListingParts DEF Names
<1>4. d \in Nat \ {0} /\ c \in Nat /\ c <= d
  <2>1. /\ Cardinality(DOMAIN n.device) \in Nat /\ d \in Nat \ {0} /\ Cardinality(DOMAIN n.device) <= d
        /\ c \in Nat /\ c <= Cardinality(DOMAIN n.device)
    BY <1>1, TotalParts DEF Within
  <2> HIDE DEF c, d
  <2> QED
    BY <2>1
<1>5. l \in Nat \ {0} /\ m \in Nat /\ m <= l
  <2>1. /\ Cardinality(DOMAIN n.link) \in Nat /\ l \in Nat \ {0} /\ Cardinality(DOMAIN n.link) <= l
        /\ m \in Nat /\ m <= Cardinality(DOMAIN n.link)
    BY <1>2, TotalParts DEF Within
  <2> HIDE DEF m, l
  <2> QED
    BY <2>1
<1>6. s \in Nat \ {0} /\ Cardinality(Names(n)) <= s /\ Cardinality(Names(n)) \in Nat
  BY <1>3, TotalParts
<1>7. k \in Nat
  <2>1. Listings(n, result.devices) \in Nat
    BY <1>1, ListingParts DEF Within
  <2> QED
    BY <2>1 DEF Count
<1>8. w \in Nat
  BY DEF Weight
<1>9. Score(n, result, severity) = Capped(Share(w, Points(c, k, m, d, s, l), d, s, l))
  BY DEF Score, Capped, Share, Points, Total, Names, Count
<1> HIDE DEF c, k, m, d, s, l, w
<1>10. Score(n, result, severity) \in Nat
  <2>1. Points(c, k, m, d, s, l) \in Nat
    BY <1>4, <1>5, <1>6, <1>7, PointsParts
  <2>2. Share(w, Points(c, k, m, d, s, l), d, s, l) \in Nat
    BY <1>4, <1>5, <1>6, <1>8, <2>1, ShareParts
  <2> QED
    BY <1>9, <2>2 DEF Capped
<1> QED
  BY <1>4, <1>5, <1>6, <1>7, <1>8, <1>9, <1>10 DEF c, k, m, d, s, l, w

\* A score is at most a hundred, and within the weight of its severity when no device lists a
\* service twice.
LEMMA ScoreBound ==
  ASSUME NEW n, NEW result, Within(n, result), NEW severity \in DOMAIN Weight
  PROVE  /\ Score(n, result, severity) <= 10000
         /\ (\A d \in DOMAIN n.device : ~ (Len(n.device[d].services) > Cardinality(Offered(n, d))))
              => Score(n, result, severity) <= 1000 * Weight[severity]
<1> DEFINE d == Total(DOMAIN n.device)
           s == Total(Names(n))
           l == Total(DOMAIN n.link)
           c == Cardinality(result.devices)
           k == Count(n, result)
           m == Cardinality(result.links)
           w == Weight[severity]
           p == Points(c, k, m, d, s, l)
<1>1. /\ d \in Nat \ {0} /\ s \in Nat \ {0} /\ l \in Nat \ {0}
      /\ c \in Nat /\ k \in Nat /\ m \in Nat /\ w \in Nat
      /\ c <= d /\ m <= l /\ Cardinality(Names(n)) <= s /\ Cardinality(Names(n)) \in Nat
      /\ Score(n, result, severity) = Capped(Share(w, p, d, s, l))
  BY ScoreParts
<1>2. ASSUME \A x \in DOMAIN n.device : ~ (Len(n.device[x].services) > Cardinality(Offered(n, x)))
      PROVE  k <= s
  <2>1. CASE result.fault.kind = "service_down"
    <3>1. k = 1
      BY <2>1 DEF Count
    <3> HIDE DEF k, s
    <3> QED
      BY <1>1, <3>1
  <2>2. CASE result.fault.kind # "service_down"
    <3>1. k = Listings(n, result.devices)
      BY <2>2 DEF Count
    <3>2. Listings(n, result.devices) <= Cardinality(Names(n))
      BY <1>2, ListedOnce DEF Within, Names
    <3> HIDE DEF k, s
    <3> QED
      BY <1>1, <3>1, <3>2
  <2> QED
    BY <2>1, <2>2
<1> HIDE DEF c, k, m, d, s, l, w
<1>3. p \in Nat
  BY <1>1, PointsParts
<1>4. Share(w, p, d, s, l) \in Nat
  <2> HIDE DEF p
  <2> QED
    BY <1>1, <1>3, ShareParts
<1>5. Capped(Share(w, p, d, s, l)) <= 10000 /\ Capped(Share(w, p, d, s, l)) <= Share(w, p, d, s, l)
  <2> DEFINE x == Share(w, p, d, s, l)
  <2> HIDE DEF x
  <2>1. x \in Nat
    BY <1>4 DEF x
  <2>2. Capped(x) <= 10000 /\ Capped(x) <= x
    BY <2>1 DEF Capped
  <2> QED
    BY <2>2 DEF x
<1>6. ASSUME k <= s
      PROVE  Capped(Share(w, p, d, s, l)) <= 1000 * w
  <2>1. p <= 100 * (d * s * l)
    BY <1>1, <1>6, PointsBound
  <2>2. Share(w, p, d, s, l) <= 1000 * w
    <3> HIDE DEF p
    <3> QED
      BY <1>1, <1>3, <2>1, ShareBound
  <2> DEFINE x == Share(w, p, d, s, l)
             y == Capped(x)
  <2>3. x \in Nat /\ y \in Nat /\ y <= x
    BY <1>4, <1>5 DEF Capped
  <2> HIDE DEF x, y
  <2>4. y <= 1000 * w
    BY <1>1, <2>2, <2>3 DEF x
  <2> QED
    BY <2>4 DEF x, y
<1> QED
  BY <1>1, <1>2, <1>5, <1>6 DEF w

\* A result that is at least as large scores at least as much.
LEMMA ScoreGrows ==
  ASSUME NEW n, NEW result, NEW larger, Within(n, result), Within(n, larger),
         NEW severity \in DOMAIN Weight,
         result.devices \subseteq larger.devices, result.links \subseteq larger.links,
         Count(n, result) <= Count(n, larger)
  PROVE  Score(n, result, severity) <= Score(n, larger, severity)
<1> DEFINE d == Total(DOMAIN n.device)
           s == Total(Names(n))
           l == Total(DOMAIN n.link)
           c == Cardinality(result.devices)
           k == Count(n, result)
           m == Cardinality(result.links)
           c2 == Cardinality(larger.devices)
           k2 == Count(n, larger)
           m2 == Cardinality(larger.links)
           w == Weight[severity]
           p == Points(c, k, m, d, s, l)
           p2 == Points(c2, k2, m2, d, s, l)
<1>1. /\ d \in Nat \ {0} /\ s \in Nat \ {0} /\ l \in Nat \ {0}
      /\ c \in Nat /\ k \in Nat /\ m \in Nat /\ w \in Nat
      /\ Score(n, result, severity) = Capped(Share(w, p, d, s, l))
  BY ScoreParts
<1>2. /\ c2 \in Nat /\ k2 \in Nat /\ m2 \in Nat
      /\ Score(n, larger, severity) = Capped(Share(w, p2, d, s, l))
  BY ScoreParts
<1>3. c <= c2
  <2>1. IsFiniteSet(larger.devices)
    <3>1. IsFiniteSet(DOMAIN n.device)
      BY NetworkParts DEF Within
    <3> QED
      BY <3>1, FS_Subset DEF Within
  <2> QED
    BY <2>1, FS_Subset
<1>4. m <= m2
  <2>1. larger.links \in SUBSET SUBSET Devices
    BY NetworkParts DEF Within, Pairs
  <2>2. IsFiniteSet(SUBSET Devices)
    BY DevicesAssumption, FS_SUBSET
  <2>3. IsFiniteSet(larger.links)
    BY <2>1, <2>2, FS_Subset
  <2> QED
    BY <2>3, FS_Subset
<1>5. k <= k2
  OBVIOUS
<1> HIDE DEF c, k, m, c2, k2, m2, d, s, l, w
<1>6. p \in Nat /\ p2 \in Nat /\ p <= p2
  BY <1>1, <1>2, <1>3, <1>4, <1>5, PointsParts, PointsGrow
<1> HIDE DEF p, p2
<1> DEFINE x == Share(w, p, d, s, l)
           y == Share(w, p2, d, s, l)
<1>7. x \in Nat
  BY <1>1, <1>6, ShareParts
<1>8. y \in Nat
  BY <1>1, <1>6, ShareParts
<1>9. x <= y
  BY <1>1, <1>6, ShareGrows
<1> HIDE DEF x, y
<1>10. Capped(x) <= Capped(y)
  BY <1>7, <1>8, <1>9 DEF Capped
<1> QED
  BY <1>1, <1>2, <1>10 DEF x, y

(***************************************************************************)
(* The invariant.                                                          *)
(***************************************************************************)

\* A copy is of the network as it was at its time.
Copy(n) == n \in NetworkStates /\ n.time <= twin.time /\ (n.time = twin.time => n = twin)

Kept ==
  /\ twin \in NetworkStates
  /\ engine # None => engine \in EngineStates /\ Copy(engine.network)
  /\ analyzer # None => Copy(analyzer)
  /\ engine # None /\ analyzer # None /\ engine.network.time = analyzer.time =>
       engine.network = analyzer

\* An assessment is of the result and by the copy that are there.
Assessed ==
  impact # None => /\ analyzer # None /\ study \notin {None, Refused}
                   /\ \E severity \in DOMAIN Weight : impact = Impact(analyzer, study, severity)

IInv == Kept /\ Studied /\ Assessed

LEMMA InitOK == Init => IInv
<1> SUFFICES ASSUME Init
             PROVE  IInv
  OBVIOUS
<1>1. twin \in NetworkStates
  BY NetworksAssumption DEF Init
<1> QED
  BY <1>1 DEF Init, IInv, Kept, Studied, Assessed

\* What is changed is given a later time.
LEMMA TouchIsLater ==
  ASSUME NEW n \in NetworkStates, n.time = twin.time, Touch(n)
  PROVE  twin' \in NetworkStates /\ twin'.time > twin.time
<1>1. PICK observed \in 0 .. MaxTime : twin' = [n EXCEPT !.time = Larger(observed, twin.time + 1)]
  BY DEF Touch
<1>2. /\ n = [device |-> n.device, link |-> n.link, time |-> n.time] /\ n.time \in Nat
      /\ n.device \in Dicts(Devices, Profiles) /\ n.link \in Dicts(Pairs, {"up", "down"})
      /\ \A l \in DOMAIN n.link : l \subseteq DOMAIN n.device
  BY NetworkParts DEF NetworkStates
<1> DEFINE t == Larger(observed, twin.time + 1)
<1>3. t \in Nat /\ t > twin.time
  BY <1>2, TimeAssumption DEF Larger
<1> HIDE DEF t
<1>4. twin' = [device |-> n.device, link |-> n.link, time |-> t]
  BY <1>1, <1>2 DEF t
<1> QED
  BY <1>2, <1>3, <1>4 DEF NetworkStates

LEMMA DictMember ==
  ASSUME NEW keys, NEW values, NEW known \in SUBSET keys, NEW f \in [known -> values]
  PROVE  f \in Dicts(keys, values)
BY DEF Dicts

\* An update raises the time of the network and leaves the rest alone.
LEMMA TwinStep ==
  ASSUME twin \in NetworkStates, AddDevice \/ AddLink \/ UpdateDevice \/ UpdateLink
  PROVE  twin' \in NetworkStates /\ twin'.time > twin.time /\ UNCHANGED <<engine, analyzer, study, impact>>
<1>1. /\ twin.device \in [DOMAIN twin.device -> Profiles] /\ DOMAIN twin.device \subseteq Devices
      /\ twin.link \in [DOMAIN twin.link -> {"up", "down"}] /\ DOMAIN twin.link \subseteq Pairs
      /\ twin = [device |-> twin.device, link |-> twin.link, time |-> twin.time] /\ twin.time \in Nat
      /\ \A l \in DOMAIN twin.link : l \subseteq DOMAIN twin.device
  BY NetworkParts DEF Links
<1>0. /\ twin.device \in Dicts(Devices, Profiles) /\ twin.link \in Dicts(Pairs, {"up", "down"})
  BY DEF NetworkStates
<1>2. CASE AddDevice
  <2>1. PICK d \in Devices \ Known, p \in Profiles :
          Touch([twin EXCEPT !.device = [e \in Known \cup {d} |-> IF e = d THEN p ELSE @[e]]])
    BY <1>2 DEF AddDevice
  <2> DEFINE f == [e \in Known \cup {d} |-> IF e = d THEN p ELSE twin.device[e]]
             n == [twin EXCEPT !.device = f]
  <2>2. f \in [Known \cup {d} -> Profiles] /\ Known \cup {d} \in SUBSET Devices
    BY <1>1 DEF Known
  <2>3. f \in Dicts(Devices, Profiles) /\ DOMAIN f = Known \cup {d}
    <3> HIDE DEF f
    <3> QED
      BY <2>2, DictMember
  <2>4. Touch(n)
    BY <2>1
  <2> HIDE DEF f
  <2>5. n = [device |-> f, link |-> twin.link, time |-> twin.time]
    BY <1>1
  <2>6. n \in NetworkStates /\ n.time = twin.time
    BY <1>0, <1>1, <2>3, <2>5 DEF NetworkStates, Known
  <2> HIDE DEF n
  <2> QED
    BY <1>2, <2>4, <2>6, TouchIsLater DEF AddDevice
<1>3. CASE AddLink
  <2>1. PICK l \in {pair \in Pairs : pair \subseteq Known} \ DOMAIN twin.link :
          Touch([twin EXCEPT !.link = [k \in DOMAIN twin.link \cup {l} |-> IF k = l THEN "up" ELSE @[k]]])
    BY <1>3 DEF AddLink
  <2> DEFINE f == [k \in DOMAIN twin.link \cup {l} |-> IF k = l THEN "up" ELSE twin.link[k]]
             n == [twin EXCEPT !.link = f]
  <2>2. f \in [DOMAIN twin.link \cup {l} -> {"up", "down"}] /\ DOMAIN twin.link \cup {l} \in SUBSET Pairs
    BY <1>1
  <2>3. f \in Dicts(Pairs, {"up", "down"}) /\ DOMAIN f = DOMAIN twin.link \cup {l}
    <3> HIDE DEF f
    <3> QED
      BY <2>2, DictMember
  <2>4. Touch(n)
    BY <2>1
  <2> HIDE DEF f
  <2>5. n = [device |-> twin.device, link |-> f, time |-> twin.time]
    BY <1>1
  <2>6. n \in NetworkStates /\ n.time = twin.time
    BY <1>0, <1>1, <2>3, <2>5 DEF NetworkStates, Known
  <2> HIDE DEF n
  <2> QED
    BY <1>3, <2>4, <2>6, TouchIsLater DEF AddLink
<1>4. CASE UpdateDevice
  <2>1. PICK d \in Known, p \in Profiles : Touch([twin EXCEPT !.device[d] = p])
    BY <1>4 DEF UpdateDevice, ReplaceDevice
  <2> DEFINE f == [twin.device EXCEPT ![d] = p]
             n == [twin EXCEPT !.device[d] = p]
  <2>2. f \in [Known -> Profiles] /\ Known \in SUBSET Devices
    BY <1>1 DEF Known
  <2>3. f \in Dicts(Devices, Profiles) /\ DOMAIN f = Known
    <3> HIDE DEF f
    <3> QED
      BY <2>2, DictMember
  <2>4. n = [device |-> f, link |-> twin.link, time |-> twin.time]
    BY <1>1
  <2> HIDE DEF f
  <2>5. n \in NetworkStates /\ n.time = twin.time
    BY <1>0, <1>1, <2>3, <2>4 DEF NetworkStates, Known
  <2> HIDE DEF n
  <2>6. Touch(n)
    BY <2>1 DEF n
  <2> QED
    BY <1>4, <2>5, <2>6, TouchIsLater DEF UpdateDevice
<1>5. CASE UpdateLink
  <2>1. PICK l \in DOMAIN twin.link, s \in {"up", "down"} : Touch([twin EXCEPT !.link[l] = s])
    BY <1>5 DEF UpdateLink, ReplaceLink
  <2> DEFINE f == [twin.link EXCEPT ![l] = s]
             n == [twin EXCEPT !.link[l] = s]
  <2>2. f \in [DOMAIN twin.link -> {"up", "down"}] /\ DOMAIN twin.link \in SUBSET Pairs
    BY <1>1
  <2>3. f \in Dicts(Pairs, {"up", "down"}) /\ DOMAIN f = DOMAIN twin.link
    <3> HIDE DEF f
    <3> QED
      BY <2>2, DictMember
  <2>4. n = [device |-> twin.device, link |-> f, time |-> twin.time]
    BY <1>1
  <2> HIDE DEF f
  <2>5. n \in NetworkStates /\ n.time = twin.time
    BY <1>0, <1>1, <2>3, <2>4 DEF NetworkStates
  <2> HIDE DEF n
  <2>6. Touch(n)
    BY <2>1 DEF n
  <2> QED
    BY <1>5, <2>5, <2>6, TouchIsLater DEF UpdateLink
<1> QED
  BY <1>2, <1>3, <1>4, <1>5

LEMMA StepOK == IInv /\ [Next]_vars => IInv'
<1> SUFFICES ASSUME IInv, [Next]_vars
             PROVE  IInv'
  OBVIOUS
<1> USE DEF IInv
<1>1. CASE AddDevice \/ AddLink \/ UpdateDevice \/ UpdateLink
  <2>1. twin' \in NetworkStates /\ twin'.time > twin.time /\ UNCHANGED <<engine, analyzer, study, impact>>
    BY <1>1, TwinStep DEF Kept
  <2>2. twin.time \in Nat /\ twin'.time \in Nat
    BY <2>1, NetworkParts DEF Kept
  <2>3. ASSUME NEW n, Copy(n)
        PROVE  n \in NetworkStates /\ n.time <= twin'.time /\ n.time # twin'.time
    <3>1. n \in NetworkStates /\ n.time \in Nat /\ n.time <= twin.time
      BY <2>3, NetworkParts DEF Copy
    <3> QED
      BY <2>1, <2>2, <3>1
  <2>4. Kept'
    BY <2>1, <2>3 DEF Kept, Copy
  <2>5. Studied' /\ Assessed'
    BY <2>1 DEF Studied, Assessed
  <2> QED
    BY <2>4, <2>5
<1>2. CASE NewEngine
  <2>1. /\ study' = None /\ impact' = None /\ UNCHANGED <<twin, analyzer>>
        /\ \E given \in Entries :
             LET entries == ResolvedEntries(twin, given)
             IN  engine' = IF entries = {} THEN None ELSE [network |-> twin, entries |-> entries]
    BY <1>2 DEF NewEngine, Exported
  <2>2. ASSUME engine' # None
        PROVE  engine' \in EngineStates /\ engine'.network = twin
    <3>1. PICK given \in Entries : engine' = [network |-> twin, entries |-> ResolvedEntries(twin, given)]
      BY <2>1, <2>2
    <3>2. ResolvedEntries(twin, given) \subseteq DOMAIN twin.device
      BY DEF ResolvedEntries
    <3>3. DOMAIN twin.device \subseteq Devices
      BY NetworkParts DEF Kept
    <3> QED
      BY <3>1, <3>2, <3>3 DEF EngineStates, Kept
  <2>3. twin.time \in Nat
    BY NetworkParts DEF Kept
  <2>4. Kept'
    BY <2>1, <2>2, <2>3 DEF Kept, Copy
  <2> QED
    BY <2>1, <2>4 DEF Studied, Assessed
<1>3. CASE Analyze
  <2>1. /\ engine # None /\ impact' = None /\ UNCHANGED <<twin, engine, analyzer>>
        /\ \E fault \in Faults : study' = Propagation(engine, fault)
    BY <1>3 DEF Analyze
  <2>2. Kept'
    BY <2>1 DEF Kept, Copy
  <2>3. Studied'
    BY <2>1 DEF Studied
  <2> QED
    BY <2>1, <2>2, <2>3 DEF Assessed
<1>4. CASE NewAnalyzer
  <2>1. analyzer' = twin /\ impact' = None /\ UNCHANGED <<twin, engine, study>>
    BY <1>4 DEF NewAnalyzer, Exported
  <2>2. twin.time \in Nat
    BY NetworkParts DEF Kept
  <2>3. Kept'
    BY <2>1, <2>2 DEF Kept, Copy
  <2> QED
    BY <2>1, <2>3 DEF Studied, Assessed
<1>5. CASE Assess
  <2>1. /\ analyzer # None /\ study \notin {None, Refused} /\ UNCHANGED <<twin, engine, analyzer, study>>
        /\ \E severity \in DOMAIN Weight : impact' = Impact(analyzer, study, severity)
    BY <1>5 DEF Assess
  <2>2. Kept'
    BY <2>1 DEF Kept, Copy
  <2> QED
    BY <2>1, <2>2 DEF Studied, Assessed
<1>6. CASE UNCHANGED vars
  BY <1>6 DEF vars, Kept, Copy, Studied, Assessed
<1> QED
  BY <1>1, <1>2, <1>3, <1>4, <1>5, <1>6 DEF Next

LEMMA Invariant == Spec => []IInv
BY InitOK, StepOK, PTL DEF Spec

(***************************************************************************)
(* Consistency of an assessment.                                           *)
(***************************************************************************)

\* A result lies within the network it was found on.
LEMMA StudyWithin ==
  ASSUME IInv, study \notin {None, Refused}
  PROVE  ~ Unknown(engine.network, study)
<1> DEFINE devices == DOMAIN engine.network.device
           links == DOMAIN engine.network.link
<1>1. EngineOK /\ Studied
  BY DEF IInv, Kept, EngineOK
<1>2. /\ engine \in EngineStates /\ Exists(engine.network, study.fault) /\ study.fault \in Faults
      /\ study.fault.kind # "service_down" =>
           /\ Cutting(engine, study.fault) /\ study.devices = CutOff(engine, study.fault)
           /\ study.links = LinksOf(links, study.devices)
                              \union (IF study.fault.kind = "link" THEN {study.fault.target} ELSE {})
      /\ study.fault.kind = "service_down" => study.devices = study.fault.target /\ study.links = {}
  BY <1>1, StudyParts
<1>3. CASE study.fault.kind = "service_down"
  <2>1. study.fault \in [kind : {"service_down"}, target : {{d} : d \in Devices}, service : Services]
    BY <1>2, <1>3 DEF Faults
  <2>2. PICK d \in Devices : study.fault.target = {d}
    BY <2>1
  <2>3. d \in devices
    BY <1>2, <1>3, <2>2 DEF Exists
  <2> QED
    BY <1>2, <1>3, <2>2, <2>3 DEF Unknown
<1>4. CASE study.fault.kind # "service_down"
  <2>1. /\ Cutting(engine, study.fault) /\ study.devices = CutOff(engine, study.fault)
        /\ study.links = LinksOf(links, study.devices)
                           \union (IF study.fault.kind = "link" THEN {study.fault.target} ELSE {})
    BY <1>2, <1>4
  <2>2. \/ study.fault.kind = "device_down" /\ study.fault.target \subseteq devices
        \/ study.fault.kind = "link" /\ study.fault.target \in links
    BY <2>1, CuttingParts
  <2>3. study.devices \subseteq devices
    <3>1. study.devices = Lost(engine, study.fault)
                            \union (IF study.fault.kind = "link" THEN {} ELSE study.fault.target)
      BY <2>1, CutIsLost
    <3>2. Lost(engine, study.fault) \subseteq devices
      BY DEF Lost
    <3> QED
      BY <2>2, <3>1, <3>2
  <2>4. study.links \subseteq links
    BY <2>1, <2>2 DEF LinksOf
  <2> QED
    BY <1>4, <2>3, <2>4 DEF Unknown
<1> QED
  BY <1>3, <1>4

\* What is affected with a device is affected by its failure.
LEMMA FailureIsLarger ==
  ASSUME IInv, study \notin {None, Refused}, NEW n, Within(n, study),
         study.fault.kind = "service_down" => Exists(n, study.fault),
         NEW d \in study.devices \cap DOMAIN engine.network.device,
         study.devices \subseteq Propagation(engine, Failure(d)).devices,
         Within(n, Propagation(engine, Failure(d)))
  PROVE  /\ study.links \subseteq Propagation(engine, Failure(d)).links
         /\ Count(n, study) <= Count(n, Propagation(engine, Failure(d)))
<1> DEFINE failed == Propagation(engine, Failure(d))
           links == DOMAIN engine.network.link
<1>1. EngineOK /\ Studied
  BY DEF IInv, Kept, EngineOK
<1>2. /\ engine \in EngineStates /\ study.fault \in Faults /\ Exists(engine.network, study.fault)
      /\ study.fault.kind # "service_down" =>
           /\ Cutting(engine, study.fault) /\ study.devices = CutOff(engine, study.fault)
           /\ study.links = LinksOf(links, study.devices)
                              \union (IF study.fault.kind = "link" THEN {study.fault.target} ELSE {})
      /\ study.fault.kind = "service_down" => study.devices = study.fault.target /\ study.links = {}
  BY <1>1, StudyParts
<1>3. failed = [fault |-> Failure(d), devices |-> CutOff(engine, Failure(d)),
                links |-> LinksOf(links, CutOff(engine, Failure(d)))]
  BY <1>2, FailureCuts
<1>4. failed.fault.kind = "device_down" /\ failed.links = LinksOf(links, failed.devices)
  BY <1>3 DEF Failure
<1> HIDE DEF failed
<1>5. Count(n, failed) = Listings(n, failed.devices)
  BY <1>4 DEF Count
<1>6. /\ n \in NetworkStates /\ failed.devices \in SUBSET DOMAIN n.device
      /\ study.devices \in SUBSET failed.devices
  BY DEF Within, failed
<1>7. CASE study.fault.kind = "service_down"
  <2>1. study.fault \in [kind : {"service_down"}, target : {{e} : e \in Devices}, service : Services]
    BY <1>2, <1>7 DEF Faults
  <2>2. study.fault.target = {d}
    BY <1>2, <1>7, <2>1
  <2>3. DOMAIN n.device[d].services # {}
    BY <1>7, <2>2 DEF Exists
  <2>4. d \in failed.devices
    BY <1>6
  <2>5. 1 <= Listings(n, failed.devices)
    BY <1>6, <2>3, <2>4, SomeListed
  <2>6. Count(n, study) = 1
    BY <1>7 DEF Count
  <2> QED
    BY <1>2, <1>5, <1>7, <2>5, <2>6 DEF failed
<1>8. CASE study.fault.kind # "service_down"
  <2>1. Count(n, study) = Listings(n, study.devices)
    BY <1>8 DEF Count
  <2>2. Listings(n, study.devices) <= Listings(n, failed.devices)
    BY <1>6, MoreListed
  <2>3. LinksOf(links, study.devices) \subseteq failed.links
    BY <1>4, <1>6 DEF LinksOf
  <2>4. CASE study.fault.kind = "link"
    <3>1. CutOff(engine, study.fault) # {} => study.fault.target \cap CutOff(engine, study.fault) # {}
      BY <1>2, <2>4, EndsCutMore
    <3>2. study.fault.target \cap study.devices # {}
      BY <1>2, <2>4, <3>1
    <3>3. study.fault.target \in links
      BY <1>2, <2>4 DEF Exists
    <3>4. study.fault.target \in failed.links
      BY <1>4, <1>6, <3>2, <3>3 DEF LinksOf
    <3> QED
      BY <1>2, <1>5, <1>8, <2>1, <2>2, <2>3, <2>4, <3>4 DEF failed
  <2>5. CASE study.fault.kind # "link"
    BY <1>2, <1>5, <1>8, <2>1, <2>2, <2>3, <2>5 DEF failed
  <2> QED
    BY <2>4, <2>5
<1> QED
  BY <1>7, <1>8

LEMMA ConsistentHere ==
  ASSUME IInv
  PROVE  ImpactIsConsistent
<1>1. ASSUME NEW x \in {twin} \cup (IF engine = None THEN {} ELSE {engine.network})
                              \cup (IF analyzer = None THEN {} ELSE {analyzer}),
             NEW y \in {twin} \cup (IF engine = None THEN {} ELSE {engine.network})
                              \cup (IF analyzer = None THEN {} ELSE {analyzer}),
             x.time = y.time
      PROVE  x = y
  BY <1>1 DEF IInv, Kept, Copy
<1>2. ASSUME impact # None
      PROVE  /\ analyzer \in NetworkStates /\ engine # None
             /\ study \notin {None, Refused}
             /\ \E severity \in DOMAIN Weight : impact = Impact(analyzer, study, severity)
  BY <1>2 DEF IInv, Kept, Copy, Assessed, Studied
<1>3. ASSUME NEW severity \in DOMAIN Weight, analyzer \in NetworkStates, ~ Unknown(analyzer, study)
      PROVE  Within(analyzer, study) /\ Score(analyzer, study, severity) \in Nat
  <2>1. Within(analyzer, study)
    BY <1>3 DEF Unknown, Within
  <2> QED
    BY <2>1, ScoreParts
<1>4. ASSUME impact # None, engine.network.time = analyzer.time
      PROVE  impact # Refused
  <2>1. engine.network = analyzer
    BY <1>2, <1>4 DEF IInv, Kept, Assessed
  <2>2. ~ Unknown(analyzer, study)
    BY <1>2, <1>4, <2>1, StudyWithin
  <2>3. PICK severity \in DOMAIN Weight : impact = Impact(analyzer, study, severity)
    BY <1>2, <1>4
  <2> DEFINE score == Score(analyzer, study, severity)
  <2>4. score \in Nat
    BY <1>2, <1>3, <1>4, <2>2
  <2>5. impact = [severity |-> severity, score |-> score, level |-> Level(score)]
    BY <2>2, <2>3 DEF Impact
  <2> HIDE DEF score
  <2>6. Level(score) \in {"low", "medium", "high", "critical"}
    BY DEF Level
  <2>7. impact \in Assessments
    BY <2>4, <2>5, <2>6 DEF Assessments
  <2> QED
    BY <2>7, RefusedAssumption
<1>5. ASSUME impact \notin {None, Refused}
      PROVE  /\ impact.severity \in DOMAIN Weight /\ ~ Unknown(analyzer, study)
             /\ impact.score = Score(analyzer, study, impact.severity)
             /\ Within(analyzer, study)
  <2>1. PICK severity \in DOMAIN Weight : impact = Impact(analyzer, study, severity)
    BY <1>2, <1>5
  <2>2. ~ Unknown(analyzer, study)
    BY <1>5, <2>1 DEF Impact
  <2>3. impact = [severity |-> severity, score |-> Score(analyzer, study, severity),
                  level |-> Level(Score(analyzer, study, severity))]
    BY <2>1, <2>2 DEF Impact
  <2> QED
    BY <1>2, <1>3, <1>5, <2>2, <2>3
<1>6. ASSUME impact \notin {None, Refused}
      PROVE  impact.score <= IF \E d \in DOMAIN analyzer.device :
                                   Len(analyzer.device[d].services) > Cardinality(Offered(analyzer, d))
                             THEN 10000 ELSE 1000 * Weight[impact.severity]
  <2>1. /\ Score(analyzer, study, impact.severity) <= 10000
        /\ (\A d \in DOMAIN analyzer.device :
              ~ (Len(analyzer.device[d].services) > Cardinality(Offered(analyzer, d))))
             => Score(analyzer, study, impact.severity) <= 1000 * Weight[impact.severity]
    BY <1>5, <1>6, ScoreBound
  <2> QED
    BY <1>5, <1>6, <2>1
<1>7. ASSUME impact \notin {None, Refused},
             NEW d \in study.devices \cap DOMAIN engine.network.device,
             study.devices \subseteq Propagation(engine, Failure(d)).devices,
             ~ Unknown(analyzer, Propagation(engine, Failure(d)))
      PROVE  impact.score <= Score(analyzer, Propagation(engine, Failure(d)), impact.severity)
  <2> DEFINE failed == Propagation(engine, Failure(d))
  <2>1. Within(analyzer, failed)
    BY <1>2, <1>7 DEF Unknown, Within
  <2>2. study.fault.kind = "service_down" => Exists(analyzer, study.fault)
    BY <1>5, <1>7 DEF Unknown
  <2>3. /\ study.links \subseteq failed.links /\ Count(analyzer, study) <= Count(analyzer, failed)
    BY <1>2, <1>5, <1>7, <2>1, <2>2, FailureIsLarger
  <2> HIDE DEF failed
  <2>4. Score(analyzer, study, impact.severity) <= Score(analyzer, failed, impact.severity)
    BY <1>5, <1>7, <2>1, <2>3, ScoreGrows DEF failed
  <2> QED
    BY <1>5, <1>7, <2>4 DEF failed
<1>8. ASSUME impact \notin {None, Refused},
             NEW d \in study.devices \cap DOMAIN engine.network.device
      PROVE  LET failed == Propagation(engine, [kind |-> "device_down", target |-> {d}])
             IN  study.devices \subseteq failed.devices /\ ~Unknown(analyzer, failed)
                 => impact.score <= Score(analyzer, failed, impact.severity)
  BY <1>7, <1>8 DEF Failure
<1>9. ASSUME impact \notin {None, Refused}
      PROVE  LET repeats == \E d \in DOMAIN analyzer.device :
                               Len(analyzer.device[d].services) > Cardinality(Offered(analyzer, d))
             IN  /\ impact.score <= IF repeats THEN 10000 ELSE 1000 * Weight[impact.severity]
                 /\ \A d \in study.devices \cap DOMAIN engine.network.device :
                       LET failed == Propagation(engine, [kind |-> "device_down", target |-> {d}])
                       IN  study.devices \subseteq failed.devices /\ ~Unknown(analyzer, failed)
                           => impact.score <= Score(analyzer, failed, impact.severity)
  <2>1. \A d \in study.devices \cap DOMAIN engine.network.device :
          LET failed == Propagation(engine, [kind |-> "device_down", target |-> {d}])
          IN  study.devices \subseteq failed.devices /\ ~Unknown(analyzer, failed)
              => impact.score <= Score(analyzer, failed, impact.severity)
    BY <1>8, <1>9
  <2> QED
    BY <1>6, <1>9, <2>1
<1> QED
  <2>1. \A x, y \in {twin} \cup (IF engine = None THEN {} ELSE {engine.network})
                         \cup (IF analyzer = None THEN {} ELSE {analyzer}) :
          x.time = y.time => x = y
    BY <1>1
  <2>2. impact # None /\ engine.network.time = analyzer.time => impact # Refused
    BY <1>4
  <2>3. impact \notin {None, Refused} =>
          LET repeats == \E d \in DOMAIN analyzer.device :
                            Len(analyzer.device[d].services) > Cardinality(Offered(analyzer, d))
          IN  /\ impact.score <= IF repeats THEN 10000 ELSE 1000 * Weight[impact.severity]
              /\ \A d \in study.devices \cap DOMAIN engine.network.device :
                    LET failed == Propagation(engine, [kind |-> "device_down", target |-> {d}])
                    IN  study.devices \subseteq failed.devices /\ ~Unknown(analyzer, failed)
                        => impact.score <= Score(analyzer, failed, impact.severity)
    BY <1>9
  <2> QED
    BY <2>1, <2>2, <2>3 DEF ImpactIsConsistent

(***************************************************************************)
(* Theorems                                                                *)
(***************************************************************************)

\* What a fault cuts off is what loses its last way from an entry, and the device that
\* fails; a link cuts off nothing that its ends do not (FaultPropagationEngine.analyze).
THEOREM PropagationExact == Spec => []PropagationIsExact
<1>1. IInv => PropagationIsExact
  BY ExactHere DEF IInv, Kept, EngineOK
<1> QED
  BY <1>1, Invariant, PTL

\* Copies of one time are of one network; an analyzer of the engine's time refuses none of
\* its results, and scores stay within their severity and grow with what is affected
\* (NetworkDigitalTwin._touch, ImpactAnalyzer.analyze).
THEOREM ImpactConsistent == Spec => []ImpactIsConsistent
<1>1. IInv => ImpactIsConsistent
  BY ConsistentHere
<1> QED
  BY <1>1, Invariant, PTL

=============================================================================
