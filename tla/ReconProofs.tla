---------------------------- MODULE ReconProofs -----------------------------
(***************************************************************************)
(* Theorems about Recon, for every set of hosts and titles, every limit    *)
(* and every number of targets.                                            *)
(***************************************************************************)
EXTENDS Recon, FiniteSetTheorems, TLAPS

-----------------------------------------------------------------------------
(* Lemmas about the order of last_scanned_at.                              *)

\* What is left of a sequence without its n-th element.
LEMMA RemoveAtElements ==
    ASSUME NEW S, NEW s \in Seq(S), NEW n \in 1 .. Len(s)
    PROVE  /\ RemoveAt(s, n) \in Seq(S)
           /\ Len(RemoveAt(s, n)) = Len(s) - 1
           /\ \A m \in 1 .. Len(s) - 1 :
                 RemoveAt(s, n)[m] = IF m < n THEN s[m] ELSE s[m + 1]
<1> DEFINE a == SubSeq(s, 1, n - 1)
           b == SubSeq(s, n + 1, Len(s))
<1>1. a \in Seq(S) /\ Len(a) = n - 1 /\ \A m \in 1 .. n - 1 : a[m] = s[m]
  OBVIOUS
<1>2. b \in Seq(S) /\ Len(b) = Len(s) - n /\ \A m \in 1 .. Len(s) - n : b[m] = s[m + n]
  OBVIOUS
<1>3. RemoveAt(s, n) = a \o b
  BY DEF RemoveAt
<1> HIDE DEF a, b
<1>4. a \in Seq(S) /\ b \in Seq(S) /\ Len(s) \in Nat
  BY <1>1, <1>2
<1>6. a \o b \in Seq(S)
  BY <1>4
<1>7. Len(a \o b) = Len(a) + Len(b)
  BY <1>4
<1>5. ASSUME NEW m \in 1 .. Len(s) - 1
      PROVE  (a \o b)[m] = IF m < n THEN s[m] ELSE s[m + 1]
  <2>1. CASE m < n
    BY <1>1, <1>2, <2>1
  <2>2. CASE ~(m < n)
    <3>1. (a \o b)[m] = b[m - (n - 1)]
      BY <1>1, <1>2, <2>2
    <3>2. m - (n - 1) \in 1 .. Len(s) - n
      BY <2>2
    <3>3. b[m - (n - 1)] = s[(m - (n - 1)) + n]
      BY <1>2, <3>2
    <3> QED
      BY <2>2, <3>1, <3>3
  <2> QED
    BY <2>1, <2>2
<1> QED
  BY <1>1, <1>2, <1>3, <1>4, <1>5

\* No target is twice in the order.
Ordered == \A m, n \in DOMAIN scanned : m # n => scanned[m] # scanned[n]

\* The order without target i: the other targets, in the same order, with the
\* same ones past RESCAN_HOURS.
LEMMA OthersOrder ==
    ASSUME TypeOK, Ordered, NEW i \in Ids
    PROVE  /\ Others(i) \in Seq(Ids)
           /\ StaleOthers(i) \in 0 .. Len(Others(i))
           /\ \A m, n \in DOMAIN Others(i) : m # n => Others(i)[m] # Others(i)[n]
           /\ \A n \in DOMAIN Others(i) : Others(i)[n] # i /\ ScannedBefore(Others(i)[n])
           /\ \A j \in Ids : Stale(j) /\ j # i =>
                 \E n \in 1 .. StaleOthers(i) : Others(i)[n] = j
           /\ \A j \in Ids : ScannedBefore(j) /\ j # i =>
                 \E n \in DOMAIN Others(i) : Others(i)[n] = j
<1>1. scanned \in Seq(Ids) /\ stale \in 0 .. Len(scanned) /\ Len(scanned) \in Nat
      /\ DOMAIN scanned = 1 .. Len(scanned)
  BY DEF TypeOK
<1>2. CASE ~ScannedBefore(i)
  <2>1. Others(i) = scanned
    BY <1>2 DEF Others
  <2>2. ~Stale(i)
    BY <1>1, <1>2 DEF Stale, ScannedBefore, ToSet
  <2>3. StaleOthers(i) = stale
    BY <2>2 DEF StaleOthers
  <2> QED
    BY <1>1, <1>2, <2>1, <2>3 DEF Ordered, ScannedBefore, ToSet, Stale
<1>3. CASE ScannedBefore(i)
  <2> DEFINE k == CHOOSE n \in DOMAIN scanned : scanned[n] = i
  <2>1. k \in 1 .. Len(scanned) /\ scanned[k] = i
    BY <1>1, <1>3 DEF ScannedBefore, ToSet
  <2>2. Others(i) = RemoveAt(scanned, k)
    BY <1>3 DEF Others
  <2> HIDE DEF k
  <2>3. /\ Others(i) \in Seq(Ids)
        /\ Len(Others(i)) = Len(scanned) - 1
        /\ \A m \in 1 .. Len(scanned) - 1 :
              Others(i)[m] = IF m < k THEN scanned[m] ELSE scanned[m + 1]
    BY <1>1, <2>1, <2>2, RemoveAtElements
  <2>4. DOMAIN Others(i) = 1 .. Len(scanned) - 1
    BY <2>3
  <2>5. \A m, n \in DOMAIN Others(i) : m # n => Others(i)[m] # Others(i)[n]
    <3> SUFFICES ASSUME NEW m \in 1 .. Len(scanned) - 1, NEW n \in 1 .. Len(scanned) - 1,
                        m # n
                 PROVE  Others(i)[m] # Others(i)[n]
      BY <2>4
    <3> DEFINE up(x) == IF x < k THEN x ELSE x + 1
    <3>1. up(m) \in DOMAIN scanned /\ up(n) \in DOMAIN scanned /\ up(m) # up(n)
      BY <1>1, <2>1
    <3>2. Others(i)[m] = scanned[up(m)] /\ Others(i)[n] = scanned[up(n)]
      BY <2>3
    <3> HIDE DEF up
    <3> QED
      BY <3>1, <3>2 DEF Ordered
  <2>6. \A n \in DOMAIN Others(i) : Others(i)[n] # i /\ ScannedBefore(Others(i)[n])
    <3> SUFFICES ASSUME NEW n \in 1 .. Len(scanned) - 1
                 PROVE  Others(i)[n] # i /\ ScannedBefore(Others(i)[n])
      BY <2>4
    <3> DEFINE u == IF n < k THEN n ELSE n + 1
    <3>1. u \in DOMAIN scanned /\ u # k /\ k \in DOMAIN scanned
      BY <1>1, <2>1
    <3>2. Others(i)[n] = scanned[u]
      BY <2>3
    <3> HIDE DEF u
    <3> QED
      BY <2>1, <3>1, <3>2 DEF Ordered, ScannedBefore, ToSet
  <2>7. Stale(i) <=> k <= stale
    <3>1. ASSUME NEW n \in 1 .. stale, scanned[n] = i PROVE n = k
      BY <1>1, <2>1, <3>1 DEF Ordered
    <3> QED
      BY <1>1, <2>1, <3>1 DEF Stale
  <2>8. StaleOthers(i) = IF k <= stale THEN stale - 1 ELSE stale
    BY <2>7 DEF StaleOthers
  <2>9. StaleOthers(i) \in 0 .. Len(Others(i))
    BY <1>1, <2>1, <2>3, <2>8
  <2>10. ASSUME NEW j \in Ids, Stale(j), j # i
         PROVE  \E n \in 1 .. StaleOthers(i) : Others(i)[n] = j
    <3>1. PICK m \in 1 .. stale : scanned[m] = j
      BY <2>10 DEF Stale
    <3>2. m # k
      BY <2>1, <2>10, <3>1
    <3> DEFINE d == IF m < k THEN m ELSE m - 1
    <3>3. d \in 1 .. StaleOthers(i) /\ d \in 1 .. Len(scanned) - 1
      BY <1>1, <2>1, <2>8, <3>2
    <3>4. Others(i)[d] = scanned[m]
      BY <1>1, <2>1, <2>3, <3>2, <3>3
    <3> QED
      BY <3>1, <3>3, <3>4
  <2>11. ASSUME NEW j \in Ids, ScannedBefore(j), j # i
         PROVE  \E n \in DOMAIN Others(i) : Others(i)[n] = j
    <3>1. PICK m \in 1 .. Len(scanned) : scanned[m] = j
      BY <1>1, <2>11 DEF ScannedBefore, ToSet
    <3>2. m # k
      BY <2>1, <2>11, <3>1
    <3> DEFINE d == IF m < k THEN m ELSE m - 1
    <3>3. d \in 1 .. Len(scanned) - 1
      BY <1>1, <2>1, <3>2
    <3>4. Others(i)[d] = scanned[m]
      BY <1>1, <2>1, <2>3, <3>2, <3>3
    <3> QED
      BY <2>4, <3>1, <3>3, <3>4
  <2> QED
    BY <2>3, <2>5, <2>6, <2>9, <2>10, <2>11
<1> QED
  BY <1>2, <1>3

\* What DeleteTarget makes of the order ...
LEMMA OrderWithout ==
    ASSUME TypeOK, Ordered, NEW i \in Ids, scanned' = Others(i), stale' = StaleOthers(i)
    PROVE  /\ scanned' \in Seq(Ids) /\ stale' \in 0 .. Len(scanned')
           /\ Ordered'
           /\ ~ScannedBefore(i)'
           /\ \A j \in Ids \ {i} : ScannedBefore(j)' <=> ScannedBefore(j)
           /\ \A j \in Ids \ {i} : Stale(j) => Stale(j)'
<1> DEFINE o == Others(i)
           t == StaleOthers(i)
<1>0. /\ o \in Seq(Ids) /\ t \in 0 .. Len(o)
      /\ \A m, n \in DOMAIN o : m # n => o[m] # o[n]
      /\ \A n \in DOMAIN o : o[n] # i /\ ScannedBefore(o[n])
      /\ \A j \in Ids : Stale(j) /\ j # i => \E n \in 1 .. t : o[n] = j
      /\ \A j \in Ids : ScannedBefore(j) /\ j # i => \E n \in DOMAIN o : o[n] = j
  BY OthersOrder
<1>6. scanned' = o /\ stale' = t
  OBVIOUS
<1> HIDE DEF o, t
<1>1. /\ scanned' \in Seq(Ids) /\ stale' \in 0 .. Len(scanned')
      /\ \A m, n \in DOMAIN scanned' : m # n => scanned'[m] # scanned'[n]
      /\ \A n \in DOMAIN scanned' : scanned'[n] # i /\ ScannedBefore(scanned'[n])
      /\ \A j \in Ids : Stale(j) /\ j # i => \E n \in 1 .. stale' : scanned'[n] = j
      /\ \A j \in Ids : ScannedBefore(j) /\ j # i => \E n \in DOMAIN scanned' : scanned'[n] = j
  BY <1>0, <1>6, Zenon
<1>2. Ordered'
  BY <1>1 DEF Ordered
<1>3. ~ScannedBefore(i)'
  BY <1>1 DEF ScannedBefore, ToSet
<1>4. ASSUME NEW j \in Ids \ {i} PROVE ScannedBefore(j)' <=> ScannedBefore(j)
  <2>1. ScannedBefore(j)' <=> \E n \in DOMAIN scanned' : scanned'[n] = j
    BY DEF ScannedBefore, ToSet
  <2> QED
    BY <1>1, <2>1
<1>5. \A j \in Ids \ {i} : Stale(j) => Stale(j)'
  BY <1>1 DEF Stale
<1> QED
  BY <1>1, <1>2, <1>3, <1>4, <1>5

\* ... and what ScanAssets does.
LEMMA OrderRenewed ==
    ASSUME TypeOK, Ordered, NEW i \in Ids,
           scanned' = Append(Others(i), i), stale' = StaleOthers(i)
    PROVE  /\ scanned' \in Seq(Ids) /\ stale' \in 0 .. Len(scanned')
           /\ Ordered'
           /\ ScannedBefore(i)'
           /\ \A j \in Ids \ {i} : ScannedBefore(j)' <=> ScannedBefore(j)
           /\ \A j \in Ids \ {i} : Stale(j) => Stale(j)'
<1> DEFINE o == Others(i)
<1>1. /\ o \in Seq(Ids) /\ Len(o) \in Nat /\ DOMAIN o = 1 .. Len(o)
      /\ StaleOthers(i) \in 0 .. Len(o)
      /\ \A m, n \in DOMAIN o : m # n => o[m] # o[n]
      /\ \A n \in DOMAIN o : o[n] # i /\ ScannedBefore(o[n])
      /\ \A j \in Ids : Stale(j) /\ j # i => \E n \in 1 .. StaleOthers(i) : o[n] = j
      /\ \A j \in Ids : ScannedBefore(j) /\ j # i => \E n \in DOMAIN o : o[n] = j
  BY OthersOrder
<1> HIDE DEF o
<1>2. /\ scanned' \in Seq(Ids) /\ Len(scanned') = Len(o) + 1
      /\ DOMAIN scanned' = 1 .. Len(o) + 1
      /\ scanned'[Len(o) + 1] = i
      /\ \A n \in 1 .. Len(o) : scanned'[n] = o[n]
  BY <1>1 DEF o
<1>3. stale' \in 0 .. Len(scanned')
  BY <1>1, <1>2
<1>4. Ordered'
  <2> SUFFICES ASSUME NEW m \in 1 .. Len(o) + 1, NEW n \in 1 .. Len(o) + 1, m # n
               PROVE  scanned'[m] # scanned'[n]
    BY <1>2 DEF Ordered
  <2>4. /\ m \in 1 .. Len(o) \/ m = Len(o) + 1
        /\ n \in 1 .. Len(o) \/ n = Len(o) + 1
    BY <1>1
  <2>1. CASE m \in 1 .. Len(o) /\ n \in 1 .. Len(o)
    BY <1>1, <1>2, <2>1
  <2>2. CASE m = Len(o) + 1
    BY <1>1, <1>2, <2>2
  <2>3. CASE n = Len(o) + 1
    BY <1>1, <1>2, <2>3
  <2> QED
    BY <2>1, <2>2, <2>3, <2>4
<1>5. ScannedBefore(i)'
  BY <1>1, <1>2 DEF ScannedBefore, ToSet
<1>6. ASSUME NEW j \in Ids \ {i} PROVE ScannedBefore(j)' <=> ScannedBefore(j)
  <2>1. ASSUME ScannedBefore(j)' PROVE ScannedBefore(j)
    <3>1. PICK n \in 1 .. Len(o) + 1 : scanned'[n] = j
      BY <1>2, <2>1 DEF ScannedBefore, ToSet
    <3>2. n \in 1 .. Len(o)
      BY <1>1, <1>2, <3>1
    <3> QED
      BY <1>1, <1>2, <3>1, <3>2
  <2>2. ASSUME ScannedBefore(j) PROVE ScannedBefore(j)'
    <3>1. PICK n \in 1 .. Len(o) : o[n] = j
      BY <1>1, <2>2
    <3>2. n \in DOMAIN scanned' /\ scanned'[n] = j
      BY <1>1, <1>2, <3>1
    <3> QED
      BY <3>2 DEF ScannedBefore, ToSet
  <2> QED
    BY <2>1, <2>2
<1>7. ASSUME NEW j \in Ids \ {i}, Stale(j) PROVE Stale(j)'
  <2>1. PICK n \in 1 .. StaleOthers(i) : o[n] = j
    BY <1>1, <1>7
  <2>2. scanned'[n] = j
    BY <1>1, <1>2, <2>1
  <2> QED
    BY <2>1, <2>2 DEF Stale
<1> QED
  BY <1>2, <1>3, <1>4, <1>5, <1>6, <1>7

\* A query for due targets finds targets that were never scanned or whose scan
\* is past RESCAN_HOURS, none of them twice.
LEMMA OrdersDue ==
    ASSUME TypeOK, Ordered, NEW order \in DueOrders
    PROVE  /\ order \in Seq(Ids)
           /\ \A n \in DOMAIN order : order[n] \in NeverScanned \/ Stale(order[n])
           /\ \A m, n \in DOMAIN order : m # n => order[m] # order[n]
<1>0. PICK t : t = StaleSeen
  OBVIOUS
<1>1. PICK never \in SetToSeqs(NeverScanned) : order = never \o SubSeq(scanned, 1, t)
  BY <1>0 DEF DueOrders
<1> DEFINE c == Cardinality(NeverScanned)
           old == SubSeq(scanned, 1, t)
<1>2. c \in Nat /\ NeverScanned \subseteq Ids
  <2>1. NeverScanned \subseteq 1 .. MaxId
    BY DEF NeverScanned, Ids
  <2>3. IsFiniteSet(1 .. MaxId)
    BY ReconAssumption, FS_Interval
  <2>2. IsFiniteSet(NeverScanned)
    BY <2>1, <2>3, FS_Subset
  <2> QED
    BY <2>1, <2>2, FS_CardinalityType DEF Ids
<1>3. never \in [1 .. c -> NeverScanned] /\ \A m, n \in 1 .. c : m # n => never[m] # never[n]
  BY DEF SetToSeqs
<1>4. /\ t \in Nat /\ t <= stale
      /\ old \in Seq(Ids) /\ Len(old) = t
      /\ \A n \in 1 .. t : old[n] = scanned[n] /\ n \in DOMAIN scanned
  <2>1. t \in 0 .. stale /\ stale \in 0 .. Len(scanned)
    BY <1>0 DEF StaleSeen, TypeOK
  <2> QED
    BY <2>1 DEF TypeOK
<1> HIDE DEF c, old
<1>5. never \in Seq(Ids) /\ Len(never) = c
  BY <1>2, <1>3
<1>6. /\ order \in Seq(Ids) /\ DOMAIN order = 1 .. c + t
      /\ \A n \in 1 .. c : order[n] = never[n]
      /\ \A n \in 1 .. c + t : n > c => order[n] = scanned[n - c] /\ n - c \in 1 .. t
  <2>1. order = never \o old
    BY <1>1 DEF old
  <2>2. order \in Seq(Ids) /\ Len(order) = c + t
    <3>1. /\ never \in Seq(Ids) /\ Len(never) = c /\ c \in Nat
          /\ old \in Seq(Ids) /\ Len(old) = t /\ t \in Nat
      BY <1>2, <1>4, <1>5
    <3>2. never \o old \in Seq(Ids) /\ Len(never \o old) = Len(never) + Len(old)
      BY <3>1
    <3> QED
      BY <2>1, <3>1, <3>2
  <2>3. \A n \in 1 .. c : order[n] = never[n]
    BY <1>2, <1>4, <1>5, <2>1
  <2>4. ASSUME NEW n \in 1 .. c + t, n > c
        PROVE  order[n] = scanned[n - c] /\ n - c \in 1 .. t
    <3>1. n - c \in 1 .. t
      BY <1>2, <1>4, <2>4
    <3>2. (never \o old)[n] = old[n - Len(never)]
      BY <1>2, <1>4, <1>5, <2>4
    <3> QED
      BY <1>4, <1>5, <2>1, <3>1, <3>2
  <2> QED
    BY <1>2, <1>4, <2>2, <2>3, <2>4
<1>7. ASSUME NEW n \in 1 .. c + t PROVE order[n] \in NeverScanned \/ Stale(order[n])
  <2>1. CASE n <= c
    BY <1>2, <1>3, <1>6, <2>1
  <2>2. CASE n > c
    <3>1. n - c \in 1 .. stale /\ scanned[n - c] = order[n]
      BY <1>2, <1>4, <1>6, <2>2 DEF TypeOK
    <3> QED
      BY <3>1 DEF Stale
  <2> QED
    BY <1>2, <1>4, <2>1, <2>2
<1>8. ASSUME NEW m \in 1 .. c + t, NEW n \in 1 .. c + t, m # n
      PROVE  order[m] # order[n]
  <2>1. CASE m <= c /\ n <= c
    BY <1>2, <1>3, <1>6, <1>8, <2>1
  <2>2. CASE m > c /\ n > c
    <3>1. m - c # n - c /\ m - c \in DOMAIN scanned /\ n - c \in DOMAIN scanned
      BY <1>2, <1>4, <1>6, <1>8, <2>2
    <3> QED
      BY <1>6, <2>2, <3>1 DEF Ordered
  <2>3. ASSUME NEW x \in 1 .. c, NEW y \in 1 .. c + t, y > c PROVE order[x] # order[y]
    <3>1. order[x] \in NeverScanned
      BY <1>3, <1>6
    <3>2. ScannedBefore(order[y])
      BY <1>4, <1>6, <2>3 DEF ScannedBefore, ToSet
    <3> QED
      BY <3>1, <3>2 DEF NeverScanned
  <2> QED
    BY <1>2, <1>4, <2>1, <2>2, <2>3
<1> QED
  BY <1>6, <1>7, <1>8

\* LIMIT keeps the front of the order.
LEMMA AtMostPrefix ==
    ASSUME NEW S, NEW s \in Seq(S), NEW n \in Nat
    PROVE  /\ AtMost(s, n) \in Seq(S)
           /\ \A m \in DOMAIN AtMost(s, n) : m \in DOMAIN s /\ AtMost(s, n)[m] = s[m]
<1>1. CASE Len(s) <= n
  BY <1>1 DEF AtMost
<1>2. CASE Len(s) > n
  BY <1>2 DEF AtMost
<1> QED
  BY <1>1, <1>2
-----------------------------------------------------------------------------
(* The inductive invariant.                                                *)

\* The ids that the sequence has yet to give belong to nobody.
Unused == \A i \in Ids : i >= nextId => ~Live(i)

\* The round: targets that existed, each once; those not yet taken up were never
\* scanned, or long ago, and stay so whatever happens before their turn.
RoundOK ==
    /\ pc \in {"down", "poll", "idle"} <=> rows = <<>>
    /\ \A n \in DOMAIN rows : rows[n] < nextId
    /\ \A m, n \in DOMAIN rows : m # n => rows[m] # rows[n]
    /\ \A n \in DOMAIN rows :
          n > 1 \/ pc = "mark" => ~ScannedBefore(rows[n]) \/ Stale(rows[n])

\* The scan at hand: what it has reported is stored or about to be, for hosts
\* that are assets of the target.
ScanOK ==
    /\ pc \notin {"check", "zone"} => found = {}
    /\ pc \in {"scan", "check", "zone"} => status[rows[1]] \in {"scanning", "absent"}
    /\ pc \in {"check", "zone"} /\ Live(rows[1]) =>
          /\ ScannedBefore(rows[1])
          /\ hosts \cup {Apex} \subseteq assets[rows[1]]
          /\ \A f \in found : f[1] \in assets[rows[1]]
          /\ owed[rows[1]] \subseteq found

IInv ==
    /\ TypeOK
    /\ Ordered
    /\ Unused
    /\ NothingOfDeleted
    /\ RoundOK
    /\ ScanOK
    /\ DoneIsComplete
    /\ FindingsHaveAssets
-----------------------------------------------------------------------------
(* Every step keeps it.                                                    *)

LEMMA InitIInv == Init => IInv
<1> SUFFICES ASSUME Init PROVE IInv
  OBVIOUS
<1>1. TypeOK
  BY ReconAssumption DEF Init, TypeOK, Ids
<1>2. Ordered /\ NothingOfDeleted
  BY DEF Init, Ordered, NothingOfDeleted, ScannedBefore, ToSet
<1>3. Unused /\ RoundOK /\ ScanOK
  BY DEF Init, Unused, RoundOK, ScanOK, Live
<1>4. DoneIsComplete /\ FindingsHaveAssets
  BY DEF Init, DoneIsComplete, FindingsHaveAssets
<1> QED
  BY <1>1, <1>2, <1>3, <1>4 DEF IInv

\* In mid-round there is a target at hand.
LEMMA AtHand ==
    ASSUME TypeOK, RoundOK
    PROVE  /\ rows \in Seq(Ids) /\ Len(rows) \in Nat /\ DOMAIN rows = 1 .. Len(rows)
           /\ \A n \in DOMAIN rows : rows[n] \in Ids /\ rows[n] \in Nat
           /\ pc \notin {"down", "poll", "idle"} =>
                 /\ 1 \in DOMAIN rows /\ Head(rows) = rows[1] /\ rows[1] \in Ids
                 /\ Tail(rows) \in Seq(Ids)
                 /\ Len(Tail(rows)) = Len(rows) - 1
                 /\ \A n \in DOMAIN Tail(rows) :
                       n + 1 \in DOMAIN rows /\ Tail(rows)[n] = rows[n + 1]
<1>0. rows \in Seq(Ids)
  BY DEF TypeOK
<1>3. Len(rows) \in Nat /\ DOMAIN rows = 1 .. Len(rows) /\ \A n \in DOMAIN rows : rows[n] \in Ids
  BY <1>0
<1>1. /\ rows \in Seq(Ids) /\ Len(rows) \in Nat /\ DOMAIN rows = 1 .. Len(rows)
      /\ \A n \in DOMAIN rows : rows[n] \in Ids /\ rows[n] \in Nat
  BY <1>0, <1>3 DEF Ids
<1>2. ASSUME pc \notin {"down", "poll", "idle"}
      PROVE  /\ 1 \in DOMAIN rows /\ Head(rows) = rows[1] /\ rows[1] \in Ids
             /\ Tail(rows) \in Seq(Ids)
             /\ Len(Tail(rows)) = Len(rows) - 1
             /\ \A n \in DOMAIN Tail(rows) :
                   n + 1 \in DOMAIN rows /\ Tail(rows)[n] = rows[n + 1]
  <2>1. rows # <<>>
    BY <1>2 DEF RoundOK
  <2> QED
    BY <1>1, <2>1
<1> QED
  BY <1>1, <1>2

LEMMA CreateKeeps == IInv /\ CreateTarget => IInv'
<1> SUFFICES ASSUME IInv, CreateTarget PROVE IInv'
  OBVIOUS
<1> USE DEF CreateTarget
<1>1. /\ TypeOK /\ RoundOK /\ nextId \in Ids /\ nextId \in Nat /\ ~Live(nextId)
      /\ \A i \in Ids \ {nextId} : status'[i] = status[i]
      /\ status'[nextId] = "pending"
  BY DEF IInv, TypeOK, Unused, Ids
<1>2. TypeOK'
  BY <1>1, ReconAssumption DEF TypeOK, Ids
<1>3. Ordered'
  BY DEF IInv, Ordered
<1>4. Unused' /\ NothingOfDeleted'
  BY <1>1 DEF IInv, Unused, NothingOfDeleted, Live, ScannedBefore, Ids
<1>5. RoundOK'
  BY <1>1, AtHand DEF IInv, RoundOK, ScannedBefore, Stale
<1>6. ScanOK'
  <2>1. pc \in {"scan", "check", "zone"} => rows[1] \in Ids \ {nextId}
    BY <1>1, AtHand DEF RoundOK
  <2> QED
    BY <1>1, <2>1 DEF IInv, ScanOK, Live, ScannedBefore
<1>7. DoneIsComplete' /\ FindingsHaveAssets'
  BY <1>1 DEF IInv, DoneIsComplete, FindingsHaveAssets, ScannedBefore
<1> QED
  BY <1>2, <1>3, <1>4, <1>5, <1>6, <1>7 DEF IInv

LEMMA DeleteKeeps == ASSUME NEW i \in Ids PROVE IInv /\ DeleteTarget(i) => IInv'
<1> SUFFICES ASSUME IInv, DeleteTarget(i) PROVE IInv'
  OBVIOUS
<1> USE DEF DeleteTarget
<1>0. TypeOK /\ Ordered /\ RoundOK
  BY DEF IInv
<1>1. /\ scanned' \in Seq(Ids) /\ stale' \in 0 .. Len(scanned')
      /\ Ordered'
      /\ ~ScannedBefore(i)'
      /\ \A j \in Ids \ {i} : ScannedBefore(j)' <=> ScannedBefore(j)
      /\ \A j \in Ids \ {i} : Stale(j) => Stale(j)'
  BY <1>0, OrderWithout
<1>2. \A j \in Ids : /\ j = i => /\ status'[j] = "absent" /\ assets'[j] = {}
                                /\ findings'[j] = {} /\ owed'[j] = {}
                     /\ j # i => /\ status'[j] = status[j] /\ assets'[j] = assets[j]
                                 /\ findings'[j] = findings[j] /\ owed'[j] = owed[j]
  BY <1>0 DEF TypeOK
<1>3. TypeOK'
  BY <1>0, <1>1 DEF TypeOK
<1>4. Unused'
  BY <1>2 DEF IInv, Unused, Live
<1>5. NothingOfDeleted'
  BY <1>1, <1>2 DEF IInv, NothingOfDeleted, Live
<1>6. RoundOK'
  <2>1. \A n \in DOMAIN rows : rows[n] \in Ids
    BY <1>0, AtHand
  <2> QED
    BY <1>0, <1>1, <2>1 DEF RoundOK
<1>7. ScanOK'
  <2>1. pc \in {"scan", "check", "zone"} => rows[1] \in Ids
    BY <1>0, AtHand
  <2> QED
    BY <1>1, <1>2, <2>1 DEF IInv, ScanOK, Live
<1>8. DoneIsComplete' /\ FindingsHaveAssets'
  BY <1>1, <1>2 DEF IInv, DoneIsComplete, FindingsHaveAssets
<1> QED
  BY <1>1, <1>3, <1>4, <1>5, <1>6, <1>7, <1>8 DEF IInv

\* Steps that change neither the tables nor the history keep what is said of
\* them alone.
LEMMA TablesKeep ==
    ASSUME Ordered /\ Unused /\ NothingOfDeleted /\ DoneIsComplete /\ FindingsHaveAssets,
           UNCHANGED <<nextId, status, scanned, assets, findings, owed>>
    PROVE  (Ordered /\ Unused /\ NothingOfDeleted /\ DoneIsComplete /\ FindingsHaveAssets)'
BY DEF Ordered, Unused, NothingOfDeleted, DoneIsComplete, FindingsHaveAssets, Live, ScannedBefore

LEMMA AgeKeeps == IInv /\ Age => IInv'
<1> SUFFICES ASSUME IInv, Age PROVE IInv'
  OBVIOUS
<1>1. (Ordered /\ Unused /\ NothingOfDeleted /\ DoneIsComplete /\ FindingsHaveAssets)'
  BY TablesKeep DEF IInv, Age
<1>2. TypeOK'
  BY DEF IInv, Age, TypeOK
<1>3. RoundOK'
  <2>1. \A i \in Ids : Stale(i) => Stale(i)'
    BY DEF IInv, Age, TypeOK, Stale
  <2>2. \A n \in DOMAIN rows : rows[n] \in Ids
    BY AtHand DEF IInv
  <2> QED
    BY <2>1, <2>2 DEF IInv, Age, RoundOK, ScannedBefore
<1>4. ScanOK'
  BY DEF IInv, Age, ScanOK, Live, ScannedBefore
<1> QED
  BY <1>1, <1>2, <1>3, <1>4 DEF IInv

LEMMA ConnectKeeps == IInv /\ Connect => IInv'
<1> SUFFICES ASSUME IInv, Connect PROVE IInv'
  OBVIOUS
<1>1. (Ordered /\ Unused /\ NothingOfDeleted /\ DoneIsComplete /\ FindingsHaveAssets)'
  BY TablesKeep DEF IInv, Connect, db
<1>2. TypeOK' /\ RoundOK' /\ ScanOK'
  BY DEF IInv, Connect, db, TypeOK, RoundOK, ScanOK
<1> QED
  BY <1>1, <1>2 DEF IInv

\* The end of a session: ScanRefused, FindingRefused, LoseSession and Fail.
LEMMA AbortKeeps ==
    ASSUME IInv, Abort, owed' = owed, faults' \in 0 .. MaxFaults
    PROVE  IInv'
<1>1. (Ordered /\ Unused /\ NothingOfDeleted /\ DoneIsComplete /\ FindingsHaveAssets)'
  BY TablesKeep DEF IInv, Abort, db
<1>2. TypeOK'
  BY DEF IInv, Abort, db, TypeOK
<1>3. RoundOK' /\ ScanOK'
  BY DEF Abort, RoundOK, ScanOK
<1> QED
  BY <1>1, <1>2, <1>3 DEF IInv

LEMMA PollKeeps == IInv /\ Poll => IInv'
<1> SUFFICES ASSUME IInv, Poll PROVE IInv'
  OBVIOUS
<1>0. TypeOK /\ Ordered
  BY DEF IInv
<1>1. (Ordered /\ Unused /\ NothingOfDeleted /\ DoneIsComplete /\ FindingsHaveAssets)'
  BY TablesKeep DEF IInv, Poll, db
<1>2. PICK order \in DueOrders : rows' = AtMost(order, RoundLimit)
  BY DEF Poll
<1>3. /\ order \in Seq(Ids)
      /\ \A n \in DOMAIN order : order[n] \in NeverScanned \/ Stale(order[n])
      /\ \A m, n \in DOMAIN order : m # n => order[m] # order[n]
  BY <1>0, OrdersDue
<1>4. rows' \in Seq(Ids) /\ \A n \in DOMAIN rows' : n \in DOMAIN order /\ rows'[n] = order[n]
  <2>1. RoundLimit \in Nat
    BY ReconAssumption
  <2> QED
    BY <1>2, <1>3, <2>1, AtMostPrefix
<1>5. pc' \in {"idle", "mark"} /\ (pc' = "idle" <=> rows' = <<>>)
      /\ UNCHANGED <<nextId, status, scanned, stale, assets, findings, hosts, found, faults, owed>>
  BY DEF Poll, db
<1>6. TypeOK'
  BY <1>0, <1>4, <1>5 DEF TypeOK
<1>7. RoundOK'
  <2>1. \A n \in DOMAIN rows' : rows'[n] \in Ids /\ (~ScannedBefore(rows'[n]) \/ Stale(rows'[n]))
    BY <1>3, <1>4 DEF NeverScanned
  <2>2. ASSUME NEW n \in DOMAIN rows' PROVE rows'[n] < nextId
    <3>1. rows'[n] \in Ids /\ Live(rows'[n])
      <4>1. Stale(rows'[n]) => ScannedBefore(rows'[n])
        BY <1>0 DEF Stale, ScannedBefore, ToSet, TypeOK
      <4> QED
        BY <1>3, <1>4, <2>1, <4>1 DEF NeverScanned, IInv, NothingOfDeleted
    <3> QED
      BY <3>1 DEF IInv, Unused, TypeOK, Ids
  <2>3. \A m, n \in DOMAIN rows' : m # n => rows'[m] # rows'[n]
    BY <1>3, <1>4
  <2>4. \A i \in Ids : /\ ScannedBefore(i) <=> ScannedBefore(i)'
                       /\ Stale(i) <=> Stale(i)'
    BY <1>5 DEF ScannedBefore, Stale
  <2> QED
    BY <1>5, <2>1, <2>2, <2>3, <2>4 DEF RoundOK
<1>8. ScanOK'
  BY <1>5 DEF IInv, Poll, ScanOK
<1> QED
  BY <1>1, <1>6, <1>7, <1>8 DEF IInv
\* SetStatus of the target at hand touches no other, and creates none.
LEMMA SetStatusEffect ==
    ASSUME TypeOK, NEW i \in Ids, NEW s \in {"scanning", "done"}, SetStatus(i, s)
    PROVE  /\ status' \in [Ids -> {"absent", "pending", "scanning", "done"}]
           /\ \A j \in Ids \ {i} : status'[j] = status[j]
           /\ status'[i] = IF Live(i) THEN s ELSE "absent"
           /\ \A j \in Ids : Live(j)' <=> Live(j)
BY DEF TypeOK, SetStatus, Live

LEMMA MarkKeeps == IInv /\ Mark => IInv'
<1> SUFFICES ASSUME IInv, Mark PROVE IInv'
  OBVIOUS
<1>i. PICK i : i = rows[1]
  OBVIOUS
<1>0. TypeOK /\ RoundOK /\ pc = "mark" /\ pc' = "scan"
      /\ UNCHANGED <<nextId, scanned, stale, assets, findings, rows, hosts, found, faults, owed>>
  BY DEF IInv, Mark
<1>1. i \in Ids /\ Head(rows) = i /\ 1 \in DOMAIN rows
  BY <1>i, <1>0, AtHand
<1>2. /\ status' \in [Ids -> {"absent", "pending", "scanning", "done"}]
      /\ \A j \in Ids \ {i} : status'[j] = status[j]
      /\ status'[i] \in {"scanning", "absent"}
      /\ \A j \in Ids : Live(j)' <=> Live(j)
  <2>1. SetStatus(i, "scanning")
    BY <1>1 DEF Mark
  <2> QED
    BY <1>0, <1>1, <2>1, SetStatusEffect
<1>3. TypeOK'
  BY <1>0, <1>2 DEF TypeOK
<1>4. Ordered' /\ Unused' /\ NothingOfDeleted' /\ FindingsHaveAssets'
  BY <1>0, <1>2 DEF IInv, Ordered, Unused, NothingOfDeleted, FindingsHaveAssets, ScannedBefore
<1>5. DoneIsComplete'
  BY <1>0, <1>2 DEF IInv, DoneIsComplete, ScannedBefore
<1>6. RoundOK'
  BY <1>0, <1>1 DEF RoundOK, ScannedBefore, Stale
<1>7. ScanOK'
  BY <1>i, <1>0, <1>2 DEF IInv, ScanOK
<1> QED
  BY <1>3, <1>4, <1>5, <1>6, <1>7 DEF IInv

LEMMA ScanKeeps ==
    ASSUME NEW names \in SUBSET Host, Apex \in names, NEW alive \in SUBSET names,
           NEW wc \in BOOLEAN, wc => "wildcard" \in Title
    PROVE  IInv /\ ScanAssets(names, alive, wc) => IInv'
<1> SUFFICES ASSUME IInv, ScanAssets(names, alive, wc) PROVE IInv'
  OBVIOUS
<1> DEFINE w == WildcardFinding(wc)
<1>i. PICK i : i = rows[1]
  OBVIOUS
<1>0. TypeOK /\ RoundOK /\ Ordered /\ pc = "scan"
  BY DEF IInv, ScanAssets
<1>1. i \in Ids /\ Head(rows) = i /\ 1 \in DOMAIN rows /\ DOMAIN rows = 1 .. Len(rows)
      /\ Len(rows) \in Nat /\ \A n \in DOMAIN rows : rows[n] \in Ids
  BY <1>i, <1>0, AtHand
<1>2. w \subseteq {<<Apex, "wildcard">>} /\ w \subseteq Finding
  BY ReconAssumption DEF WildcardFinding, Finding
<1> HIDE DEF w
<1>3. /\ Live(i) /\ pc' = "check" /\ UNCHANGED <<nextId, status, rows, found, faults>>
      /\ scanned' = Append(Others(i), i) /\ stale' = StaleOthers(i)
      /\ assets' = [assets EXCEPT ![i] = @ \cup names]
      /\ findings' = [findings EXCEPT ![i] = @ \cup w]
      /\ owed' = [owed EXCEPT ![i] = {}]
      /\ hosts' \in CheckedAmong(alive)
  BY <1>1 DEF ScanAssets, Recorded, w
<1>4. hosts' \subseteq names
  BY <1>3 DEF CheckedAmong
<1>5. /\ scanned' \in Seq(Ids) /\ stale' \in 0 .. Len(scanned')
      /\ Ordered'
      /\ ScannedBefore(i)'
      /\ \A j \in Ids \ {i} : ScannedBefore(j)' <=> ScannedBefore(j)
      /\ \A j \in Ids \ {i} : Stale(j) => Stale(j)'
  BY <1>0, <1>1, <1>3, OrderRenewed
<1>6. /\ assets'[i] = assets[i] \cup names
      /\ findings'[i] = findings[i] \cup w
      /\ owed'[i] = {}
      /\ \A j \in Ids \ {i} : /\ assets'[j] = assets[j] /\ findings'[j] = findings[j]
                             /\ owed'[j] = owed[j]
  BY <1>0, <1>1, <1>3 DEF TypeOK
<1>7. status[i] = "scanning" /\ found = {}
  BY <1>i, <1>0, <1>3 DEF IInv, ScanOK, Live
<1>8. TypeOK'
  BY <1>0, <1>2, <1>3, <1>4, <1>5 DEF TypeOK
<1>9. Unused' /\ NothingOfDeleted'
  BY <1>3, <1>5, <1>6 DEF IInv, Unused, NothingOfDeleted, Live
<1>10. DoneIsComplete'
  BY <1>3, <1>5, <1>6, <1>7 DEF IInv, DoneIsComplete
<1>11. FindingsHaveAssets'
  BY <1>2, <1>6 DEF IInv, FindingsHaveAssets
<1>12. RoundOK'
  <2>1. \A n \in DOMAIN rows : n > 1 => rows[n] \in Ids \ {i}
    BY <1>i, <1>0, <1>1 DEF RoundOK
  <2>2. ASSUME NEW n \in DOMAIN rows, n > 1
        PROVE  ~ScannedBefore(rows[n])' \/ Stale(rows[n])'
    <3>1. ~ScannedBefore(rows[n]) \/ Stale(rows[n])
      BY <1>0, <2>2 DEF RoundOK
    <3>2. rows[n] \in Ids \ {i} /\ rows' = rows
      BY <1>3, <2>1, <2>2
    <3> QED
      BY <1>5, <3>1, <3>2
  <2> QED
    BY <1>0, <1>3, <2>2 DEF RoundOK
<1>13. ScanOK'
  <2>1. found' = {} /\ rows'[1] = i /\ status'[i] = "scanning" /\ pc' = "check"
    BY <1>i, <1>3, <1>7
  <2> QED
    BY <1>4, <1>5, <1>6, <2>1 DEF ScanOK
<1> QED
  BY <1>5, <1>8, <1>9, <1>10, <1>11, <1>12, <1>13 DEF IInv

\* What run_checks or dns_zone_transfer reports of assets of the target is
\* in hand, and owed.
LEMMA ReportKeeps ==
    ASSUME IInv, NEW F \in SUBSET Finding, Report(F),
           pc = "check", found = {}, pc' \in {"check", "zone"}, hosts' \subseteq hosts,
           UNCHANGED <<db, rows, faults>>,
           Live(rows[1]) => \A f \in F : f[1] \in assets[rows[1]]
    PROVE  IInv'
<1>i. PICK i : i = rows[1]
  OBVIOUS
<1>0. TypeOK /\ RoundOK /\ UNCHANGED <<nextId, status, scanned, stale, assets, findings>>
  BY DEF IInv, db
<1>1. i \in Ids /\ Head(rows) = i /\ i = rows'[1]
  BY <1>i, <1>0, AtHand
<1>2. /\ found' = F
      /\ owed' = IF Live(i) THEN [owed EXCEPT ![i] = @ \cup (F \ findings[i])] ELSE owed
  BY <1>1 DEF Report
<1>3. /\ Live(i) => owed'[i] = owed[i] \cup (F \ findings[i])
      /\ \A j \in Ids \ {i} : owed'[j] = owed[j]
      /\ status[i] \in {"scanning", "absent"}
  BY <1>i, <1>0, <1>1, <1>2 DEF TypeOK, IInv, ScanOK
<1>4. TypeOK'
  BY <1>0, <1>1, <1>2 DEF TypeOK
<1>5. Ordered' /\ Unused' /\ NothingOfDeleted' /\ FindingsHaveAssets'
  BY <1>0 DEF IInv, Ordered, Unused, NothingOfDeleted, FindingsHaveAssets, ScannedBefore, Live
<1>6. DoneIsComplete'
  BY <1>0, <1>3 DEF IInv, DoneIsComplete, ScannedBefore
<1>7. RoundOK'
  BY <1>0 DEF RoundOK, ScannedBefore, Stale
<1>8. ScanOK'
  <2>1. status'[i] \in {"scanning", "absent"} /\ (Live(i)' <=> Live(i))
    BY <1>0, <1>3 DEF Live
  <2>2. ASSUME Live(i)
        PROVE  /\ ScannedBefore(i)' /\ hosts' \cup {Apex} \subseteq assets'[i]
               /\ \A f \in found' : f[1] \in assets'[i]
               /\ owed'[i] \subseteq found'
    BY <1>i, <1>0, <1>1, <1>2, <1>3, <2>2 DEF IInv, ScanOK, ScannedBefore
  <2> QED
    BY <1>1, <2>1, <2>2 DEF ScanOK
<1> QED
  BY <1>4, <1>5, <1>6, <1>7, <1>8 DEF IInv

LEMMA CheckHostKeeps ==
    ASSUME NEW h \in Host, NEW T \in SUBSET HostTitle PROVE IInv /\ CheckHost(h, T) => IInv'
<1> SUFFICES ASSUME IInv, CheckHost(h, T) PROVE IInv'
  OBVIOUS
<1>1. {h} \X T \in SUBSET Finding
  BY DEF Finding, HostTitle
<1>2. Live(rows[1]) => \A f \in {h} \X T : f[1] \in assets[rows[1]]
  BY DEF IInv, ScanOK, CheckHost
<1> QED
  BY <1>1, <1>2, ReportKeeps DEF CheckHost

LEMMA CheckZoneKeeps ==
    ASSUME NEW F \in SUBSET ({<<Apex, "axfr">>} \cap Finding) PROVE IInv /\ CheckZone(F) => IInv'
<1> SUFFICES ASSUME IInv, CheckZone(F) PROVE IInv'
  OBVIOUS
<1>1. F \in SUBSET Finding
  BY ReconAssumption DEF Finding
<1>2. Live(rows[1]) => \A f \in F : f[1] \in assets[rows[1]]
  BY DEF IInv, ScanOK, CheckZone
<1> QED
  BY <1>1, <1>2, ReportKeeps DEF CheckZone

LEMMA RecordKeeps == ASSUME NEW g \in Finding PROVE IInv /\ RecordFinding(g) => IInv'
<1> SUFFICES ASSUME IInv, RecordFinding(g) PROVE IInv'
  OBVIOUS
<1>i. PICK i : i = rows[1]
  OBVIOUS
<1>0. /\ TypeOK /\ RoundOK /\ g \in found
      /\ found' = found \ {g} /\ owed' = [owed EXCEPT ![rows[1]] = @ \ {g}]
      /\ UNCHANGED <<nextId, status, scanned, stale, assets, pc, rows, hosts, faults>>
  BY DEF IInv, RecordFinding
<1>a. pc \in {"check", "zone"}
  BY <1>0 DEF IInv, ScanOK
<1>1. i \in Ids /\ Head(rows) = i
  BY <1>i, <1>0, <1>a, AtHand
<1>2. Live(i) /\ findings' = [findings EXCEPT ![i] = @ \cup {g}]
  BY <1>1 DEF RecordFinding, ParentThere
<1>3. /\ findings'[i] = findings[i] \cup {g}
      /\ \A j \in Ids \ {i} : findings'[j] = findings[j]
  BY <1>0, <1>1, <1>2 DEF TypeOK
<1>4. /\ ScannedBefore(i) /\ hosts \cup {Apex} \subseteq assets[i]
      /\ \A f \in found : f[1] \in assets[i]
      /\ owed[i] \subseteq found
  BY <1>i, <1>2, <1>a DEF IInv, ScanOK
<1>5. TypeOK'
  BY <1>0, <1>2 DEF TypeOK
<1>6. Ordered' /\ Unused' /\ NothingOfDeleted'
  BY <1>0, <1>2, <1>3 DEF IInv, Ordered, Unused, NothingOfDeleted, ScannedBefore, Live
<1>7. FindingsHaveAssets' /\ DoneIsComplete'
  BY <1>0, <1>3, <1>4 DEF IInv, FindingsHaveAssets, DoneIsComplete, ScannedBefore
<1>8. RoundOK'
  BY <1>0 DEF RoundOK, ScannedBefore, Stale
<1>9. ScanOK'
  <2>1. status'[i] \in {"scanning", "absent"} /\ rows'[1] = i /\ pc' \in {"check", "zone"}
    BY <1>i, <1>0, <1>a DEF IInv, ScanOK
  <2>2. /\ ScannedBefore(i)' /\ hosts' \cup {Apex} \subseteq assets'[i]
        /\ \A f \in found' : f[1] \in assets'[i]
        /\ owed'[i] \subseteq found'
    BY <1>i, <1>0, <1>1, <1>3, <1>4 DEF ScannedBefore, TypeOK
  <2> QED
    BY <2>1, <2>2 DEF ScanOK
<1> QED
  BY <1>5, <1>6, <1>7, <1>8, <1>9 DEF IInv

LEMMA FinishKeeps == IInv /\ FinishTarget => IInv'
<1> SUFFICES ASSUME IInv, FinishTarget PROVE IInv'
  OBVIOUS
<1>i. PICK i : i = rows[1]
  OBVIOUS
<1>0. /\ TypeOK /\ RoundOK /\ pc = "zone" /\ found = {}
      /\ UNCHANGED <<nextId, scanned, stale, assets, findings, found, faults, owed>>
  BY DEF IInv, FinishTarget, ScanReturned
<1>1. /\ i \in Ids /\ Head(rows) = i
      /\ rows' \in Seq(Ids)
      /\ \A n \in DOMAIN rows' : n + 1 \in DOMAIN rows /\ rows'[n] = rows[n + 1]
      /\ DOMAIN rows = 1 .. Len(rows) /\ Len(rows) \in Nat /\ DOMAIN rows' = 1 .. Len(rows')
  <2>1. rows' = Tail(rows)
    BY DEF FinishTarget
  <2> QED
    BY <1>i, <1>0, <2>1, AtHand
<1>2. /\ status' \in [Ids -> {"absent", "pending", "scanning", "done"}]
      /\ \A j \in Ids \ {i} : status'[j] = status[j]
      /\ status'[i] = IF Live(i) THEN "done" ELSE "absent"
      /\ \A j \in Ids : Live(j)' <=> Live(j)
  <2>1. SetStatus(i, "done")
    BY <1>1 DEF FinishTarget
  <2> QED
    BY <1>0, <1>1, <2>1, SetStatusEffect
<1>3. hosts' = {} /\ pc' \in {"poll", "mark"} /\ (pc' = "poll" <=> rows' = <<>>)
  BY DEF FinishTarget
<1>4. TypeOK'
  BY <1>0, <1>1, <1>2, <1>3 DEF TypeOK
<1>5. Ordered' /\ Unused' /\ NothingOfDeleted' /\ FindingsHaveAssets'
  BY <1>0, <1>2 DEF IInv, Ordered, Unused, NothingOfDeleted, FindingsHaveAssets, ScannedBefore
<1>6. DoneIsComplete'
  <2>1. Live(i) => ScannedBefore(i) /\ owed[i] = {}
    BY <1>i, <1>0 DEF IInv, ScanOK
  <2> QED
    BY <1>0, <1>2, <2>1 DEF IInv, DoneIsComplete, ScannedBefore
<1>7. RoundOK'
  <2>1. ASSUME NEW n \in DOMAIN rows'
        PROVE  /\ rows'[n] < nextId
               /\ ~ScannedBefore(rows[n + 1]) \/ Stale(rows[n + 1])
    <3>1. n + 1 \in DOMAIN rows /\ n + 1 > 1
      BY <1>1
    <3> QED
      BY <1>0, <1>1, <3>1 DEF RoundOK
  <2>2. \A m, n \in DOMAIN rows' : m # n => rows'[m] # rows'[n]
    <3> SUFFICES ASSUME NEW m \in DOMAIN rows', NEW n \in DOMAIN rows', m # n
                 PROVE  rows'[m] # rows'[n]
      OBVIOUS
    <3>1. m + 1 \in DOMAIN rows /\ n + 1 \in DOMAIN rows /\ m + 1 # n + 1
      BY <1>1
    <3> QED
      BY <1>0, <1>1, <3>1 DEF RoundOK
  <2>3. \A j \in Ids : /\ ScannedBefore(j) <=> ScannedBefore(j)'
                       /\ Stale(j) <=> Stale(j)'
    BY <1>0 DEF ScannedBefore, Stale
  <2>4. \A n \in DOMAIN rows' : rows'[n] \in Ids
    BY <1>1
  <2> QED
    BY <1>0, <1>1, <1>3, <2>1, <2>2, <2>3, <2>4 DEF RoundOK
<1>8. ScanOK'
  BY <1>0, <1>3 DEF ScanOK
<1> QED
  BY <1>4, <1>5, <1>6, <1>7, <1>8 DEF IInv

LEMMA NextIInv == IInv /\ [Next]_vars => IInv'
<1> SUFFICES ASSUME IInv, [Next]_vars PROVE IInv'
  OBVIOUS
<1>1. CASE API
  BY <1>1, CreateKeeps, DeleteKeeps DEF API
<1>2. CASE Age
  BY <1>2, AgeKeeps
<1>3. CASE Connect \/ Poll \/ Mark \/ FinishTarget
  BY <1>3, ConnectKeeps, PollKeeps, MarkKeeps, FinishKeeps
<1>4. ASSUME NEW names \in SUBSET Host, NEW wc \in BOOLEAN, Apex \in names,
             wc => "wildcard" \in Title, NEW alive \in SUBSET names, ScanAssets(names, alive, wc)
      PROVE  IInv'
  BY <1>4, ScanKeeps
<1>5. ASSUME ScanRefused \/ FindingRefused \/ LoseSession \/ Fail PROVE IInv'
  <2>1. Abort /\ owed' = owed
    BY <1>5 DEF ScanRefused, FindingRefused, LoseSession, Fail
  <2>2. faults \in 0 .. MaxFaults /\ MaxFaults \in Nat
    BY ReconAssumption DEF IInv, TypeOK
  <2>3. faults' \in 0 .. MaxFaults
    BY <1>5, <2>2 DEF ScanRefused, FindingRefused, LoseSession, Fail
  <2> QED
    BY <2>1, <2>3, AbortKeeps
<1>6. ASSUME NEW h \in Host, NEW T \in SUBSET HostTitle, CheckHost(h, T) PROVE IInv'
  BY <1>6, CheckHostKeeps
<1>7. ASSUME NEW F \in SUBSET ({<<Apex, "axfr">>} \cap Finding), CheckZone(F) PROVE IInv'
  BY <1>7, CheckZoneKeeps
<1>8. ASSUME NEW f \in Finding, RecordFinding(f) PROVE IInv'
  BY <1>8, RecordKeeps
<1>9. CASE UNCHANGED vars
  <2>1. (Ordered /\ Unused /\ NothingOfDeleted /\ DoneIsComplete /\ FindingsHaveAssets)'
    BY <1>9, TablesKeep DEF IInv, vars, db
  <2>2. TypeOK' /\ RoundOK' /\ ScanOK'
    BY <1>9 DEF IInv, vars, db, TypeOK, RoundOK, ScanOK, ScannedBefore, Stale, Live
  <2> QED
    BY <2>1, <2>2 DEF IInv
<1> QED
  BY <1>1, <1>2, <1>3, <1>4, <1>5, <1>6, <1>7, <1>8, <1>9 DEF Next, Worker
-----------------------------------------------------------------------------
(* The theorems.                                                           *)

\* Every reachable state of the tables and of the scan is well typed.
THEOREM TypeCorrect == Spec => []TypeOK
<1>1. IInv => TypeOK
  BY DEF IInv
<1> QED
  BY InitIInv, NextIInv, <1>1, PTL DEF Spec

\* A scan that outlives its target leaves nothing of it in the tables.
THEOREM NothingLeftBehind == Spec => []NothingOfDeleted
<1>1. IInv => NothingOfDeleted
  BY DEF IInv
<1> QED
  BY InitIInv, NextIInv, <1>1, PTL DEF Spec

\* A target that is shown as "done" has every finding its last scan reported,
\* wherever sessions broke.
THEOREM DoneMeansComplete == Spec => []DoneIsComplete
<1>1. IInv => DoneIsComplete
  BY DEF IInv
<1> QED
  BY InitIInv, NextIInv, <1>1, PTL DEF Spec

\* A finding names an asset of its target, although no key says so.
THEOREM FindingsNameAssets == Spec => []FindingsHaveAssets
<1>1. IInv => FindingsHaveAssets
  BY DEF IInv
<1> QED
  BY InitIInv, NextIInv, <1>1, PTL DEF Spec

\* No round scans a target twice, nor one whose last scan is recent: whatever
\* has happened since the round was read.
THEOREM NoTargetTooEarly == Spec => NoEarlyRescan
<1> DEFINE Early == \A i \in Ids :
        status'[i] = "scanning" /\ status[i] # "scanning" => ~ScannedBefore(i) \/ Stale(i)
<1>1. IInv /\ [Next]_vars => [Early]_vars
  <2> SUFFICES ASSUME IInv, Next, NEW i \in Ids,
                      status'[i] = "scanning", status[i] # "scanning"
               PROVE  ~ScannedBefore(i) \/ Stale(i)
    OBVIOUS
  <2>0. TypeOK /\ RoundOK
    BY DEF IInv
  <2>1. Mark
    <3>1. ASSUME CreateTarget PROVE FALSE
      BY <2>0, <3>1 DEF CreateTarget, TypeOK
    <3>2. ASSUME NEW j \in Ids, DeleteTarget(j) PROVE FALSE
      BY <2>0, <3>2 DEF DeleteTarget, TypeOK
    <3>3. ASSUME FinishTarget PROVE FALSE
      <4>1. Head(rows) \in Ids /\ SetStatus(Head(rows), "done")
        BY <2>0, <3>3, AtHand DEF FinishTarget, ScanReturned
      <4> QED
        BY <2>0, <4>1, SetStatusEffect
    <3>4. status' # status
      OBVIOUS
    <3> QED
      BY <3>1, <3>2, <3>3, <3>4
      DEF Next, API, Worker, Age, Connect, Poll, ScanAssets, ScanRefused, CheckHost,
          CheckZone, RecordFinding, FindingRefused, LoseSession, Fail, Abort, db
  <2>2. i = rows[1] /\ 1 \in DOMAIN rows /\ pc = "mark"
    <3>1. Head(rows) = rows[1] /\ rows[1] \in Ids /\ 1 \in DOMAIN rows /\ pc = "mark"
      BY <2>0, <2>1, AtHand DEF Mark
    <3>2. SetStatus(rows[1], "scanning")
      BY <2>1, <3>1 DEF Mark
    <3> QED
      BY <2>0, <3>1, <3>2, SetStatusEffect
  <2> QED
    BY <2>0, <2>2 DEF RoundOK
<1>2. Spec => [][Early]_vars
  BY InitIInv, NextIInv, <1>1, PTL DEF Spec
<1> QED
  BY <1>2 DEF NoEarlyRescan
-----------------------------------------------------------------------------
(* Targets left "scanning".                                                *)

\* Those that are shown as being scanned while the worker is elsewhere.
Abandoned ==
    {i \in Ids : status[i] = "scanning" /\ ~(pc \in {"scan", "check", "zone"} /\ i = rows[1])}

AbandonedBounded == Cardinality(Abandoned) <= faults

LEMMA AbandonedFinite == IsFiniteSet(Abandoned)
<1>1. IsFiniteSet(Ids)
  BY ReconAssumption, FS_Interval DEF Ids
<1> QED
  BY <1>1, FS_Subset DEF Abandoned

\* A session that breaks abandons the target at hand; no other step abandons one.
LEMMA AbandonedStep ==
    ASSUME IInv, [Next]_vars
    PROVE  \/ Abandoned' \subseteq Abandoned /\ faults' = faults
           \/ Abandoned' \subseteq Abandoned \cup {rows[1]} /\ faults' = faults + 1
<1>0. TypeOK /\ RoundOK /\ ScanOK
  BY DEF IInv
<1>1. CASE Fail
  BY <1>1 DEF Fail, Abort, db, Abandoned
<1>2. CASE Mark
  <2>1. PICK i \in Ids : i = rows[1] /\ i = Head(rows)
    BY <1>0, <1>2, AtHand DEF Mark
  <2>2. \A j \in Ids \ {i} : status'[j] = status[j]
    BY <1>0, <1>2, <2>1, SetStatusEffect DEF Mark
  <2> QED
    BY <1>2, <2>1, <2>2 DEF Mark, Abandoned
<1>3. CASE FinishTarget
  <2>1. PICK i \in Ids : i = rows[1] /\ i = Head(rows)
    BY <1>0, <1>3, AtHand DEF FinishTarget, ScanReturned
  <2>2. /\ \A j \in Ids \ {i} : status'[j] = status[j]
        /\ status'[i] # "scanning"
    BY <1>0, <1>3, <2>1, SetStatusEffect DEF FinishTarget
  <2>3. pc' \notin {"scan", "check", "zone"} /\ faults' = faults
    BY <1>3 DEF FinishTarget
  <2> QED
    BY <2>1, <2>2, <2>3 DEF Abandoned
<1>4. CASE ScanRefused \/ FindingRefused
  <2>1. pc \in {"scan", "check", "zone"}
    BY <1>0, <1>4 DEF ScanRefused, FindingRefused, ScanOK, TypeOK
  <2>2. status[rows[1]] = "absent"
    BY <1>0, <1>4, <2>1, AtHand DEF ScanRefused, FindingRefused, ParentThere, Live
  <2> QED
    BY <1>4, <2>2 DEF ScanRefused, FindingRefused, Abort, db, Abandoned
<1>5. CASE CreateTarget
  BY <1>0, <1>5 DEF CreateTarget, TypeOK, Abandoned
<1>6. ASSUME NEW i \in Ids, DeleteTarget(i)
      PROVE  Abandoned' \subseteq Abandoned /\ faults' = faults
  BY <1>0, <1>6 DEF DeleteTarget, TypeOK, Abandoned
<1>7. CASE Connect \/ Poll \/ LoseSession
  BY <1>7 DEF Connect, Poll, LoseSession, Abort, db, Abandoned
<1>8. ASSUME UNCHANGED <<status, rows, faults>>,
             \/ pc' = pc
             \/ pc = "scan" /\ pc' = "check"
             \/ pc = "check" /\ pc' = "zone"
      PROVE  Abandoned' \subseteq Abandoned /\ faults' = faults
  BY <1>8 DEF Abandoned
<1>9. CASE Age \/ UNCHANGED vars
  BY <1>8, <1>9 DEF Age, vars, db
<1>10. ASSUME NEW names \in SUBSET Host, NEW alive \in SUBSET names, NEW wc \in BOOLEAN,
              ScanAssets(names, alive, wc)
       PROVE  Abandoned' \subseteq Abandoned /\ faults' = faults
  BY <1>8, <1>10 DEF ScanAssets
<1>11. ASSUME NEW h \in Host, NEW T \in SUBSET HostTitle, CheckHost(h, T)
       PROVE  Abandoned' \subseteq Abandoned /\ faults' = faults
  BY <1>8, <1>11 DEF CheckHost, db
<1>12. ASSUME NEW F, CheckZone(F) PROVE Abandoned' \subseteq Abandoned /\ faults' = faults
  BY <1>8, <1>12 DEF CheckZone, db
<1>13. ASSUME NEW f, RecordFinding(f) PROVE Abandoned' \subseteq Abandoned /\ faults' = faults
  BY <1>8, <1>13 DEF RecordFinding
<1> QED
  BY <1>1, <1>2, <1>3, <1>4, <1>5, <1>6, <1>7, <1>9, <1>10, <1>11, <1>12, <1>13
  DEF Next, API, Worker

\* A target is shown as being scanned while nobody scans it only after an
\* interruption, and each interruption leaves one such target at most: whatever
\* is deleted, refused or scanned again meanwhile.
THEOREM InterruptionsAbandon == Spec => []AbandonedBounded
<1>1. Init => AbandonedBounded
  <2> SUFFICES ASSUME Init PROVE AbandonedBounded
    OBVIOUS
  <2>1. Abandoned = {} /\ faults = 0
    BY DEF Init, Abandoned
  <2> QED
    BY <2>1, FS_EmptySet DEF AbandonedBounded
<1>2. IInv /\ AbandonedBounded /\ [Next]_vars => AbandonedBounded'
  <2> SUFFICES ASSUME IInv, AbandonedBounded, [Next]_vars PROVE AbandonedBounded'
    OBVIOUS
  <2>1. PICK A, B, i : A = Abandoned /\ B = Abandoned' /\ i = rows[1]
    OBVIOUS
  <2>2. IsFiniteSet(A) /\ Cardinality(A) \in Nat /\ Cardinality(A) <= faults /\ faults \in Nat
    BY <2>1, AbandonedFinite, FS_CardinalityType DEF AbandonedBounded, IInv, TypeOK
  <2>3. \/ B \subseteq A /\ faults' = faults
        \/ B \subseteq A \cup {i} /\ faults' = faults + 1
    BY <2>1, AbandonedStep
  <2>4. IsFiniteSet(A \cup {i}) /\ Cardinality(A \cup {i}) <= Cardinality(A) + 1
    BY <2>2, FS_AddElement
  <2>5. /\ B \subseteq A => Cardinality(B) <= Cardinality(A)
        /\ B \subseteq A \cup {i} => Cardinality(B) <= Cardinality(A \cup {i})
    BY <2>2, <2>4, FS_Subset
  <2>6. Cardinality(B) \in Nat /\ Cardinality(A \cup {i}) \in Nat
    BY <2>2, <2>3, <2>4, FS_Subset, FS_CardinalityType
  <2>7. Cardinality(B) <= faults'
    BY <2>2, <2>3, <2>4, <2>5, <2>6
  <2> QED
    BY <2>1, <2>7 DEF AbandonedBounded
<1> QED
  BY <1>1, <1>2, InitIInv, NextIInv, PTL DEF Spec
=============================================================================
